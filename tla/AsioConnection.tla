---------------------------- MODULE AsioConnection ----------------------------
(***************************************************************************)
(* websocketpp's asio transport on the client side: how a connection is    *)
(* resolved, connected, taken through a proxy, secured and shut down       *)
(* (transport/asio/endpoint.hpp, connection.hpp, security/none.hpp,        *)
(* security/tls.hpp, roles/client_endpoint.hpp).                           *)
(*                                                                         *)
(* Every stage is one asynchronous operation and one timer whose handlers  *)
(* race.  Handlers of a connection are serialised by its strand, but a     *)
(* handler that is queued can no longer be cancelled.  A timer is running, *)
(* due (its expiry is the present instant) or past: the handlers of the    *)
(* operations ask is_neg(expires_from_now()), which is false when due.     *)
(* All connections of an endpoint share one resolver.                      *)
(***************************************************************************)
EXTENDS Integers, Sequences, FiniteSets, SequencesExt

CONSTANT Conn       \* the connections of one client endpoint

\* The operations of init(), which may be begun twice: see handle_pre_init.
Round == {1, 2}
ProxyWrite == <<"proxy_write", "proxy_write2">>
ProxyRead == <<"proxy_read", "proxy_read2">>
PostInit == <<"post_init", "post_init2">>
Proxied == {"proxy_write", "proxy_read", "proxy_write2", "proxy_read2"}
Stage == {"dns", "connect", "post_init", "post_init2", "shutdown"} \cup Proxied

\* All operations on the proxy look at m_proxy_data->timer.  A timer that this
\* member no longer holds runs on.
TimerOf(s) == IF s \in Proxied THEN "proxy" ELSE s
Timer == {"dns", "connect", "proxy", "overwritten", "post_init", "post_init2", "shutdown"}

VARIABLE tc         \* connection -> see NewTransport

\*   op     stage -> none, pending, ok, error or aborted (its handler is queued)
\*   timer  timer -> its clock and what became of its wait
\*   told   the handlers of the connection that were called: which, and how
\*   closed the websocket connection was terminated
\*   exact  an operation was taken for in time at the instant of its expiry
\*   badSni the name could not be set on the TLS socket
\*   tunnel the proxy has answered and m_proxy_data is gone
\*   crashed  a handler used m_proxy_data after that
NoTimer == [clock |-> "off", wait |-> "none"]
NewTransport(secure, proxy) ==
  [secure |-> secure, proxy |-> proxy, started |-> FALSE,
   op |-> [s \in Stage |-> "none"],
   timer |-> [t \in Timer |-> NoTimer],
   told |-> << >>, closed |-> FALSE, used |-> FALSE, exact |-> FALSE, badSni |-> FALSE,
   secured |-> FALSE, tunnel |-> FALSE, crashed |-> FALSE]

AsioInit == tc \in [Conn -> {NewTransport(s, p) : s, p \in BOOLEAN}]

-----------------------------------------------------------------------------
(* The members, as functions of one connection.                             *)

set_timer(c, t) == [c EXCEPT !.timer[t] = [clock |-> "running", wait |-> "waiting"]]
cancel(c, t) == IF c.timer[t].wait = "waiting" THEN [c EXCEPT !.timer[t].wait = "cancelled"] ELSE c
is_neg(c, t) == c.timer[t].clock = "past"
BeginOp(c, s) == [c EXCEPT !.op[s] = "pending"]
Tell(c, which, ec) == [c EXCEPT !.told = Append(@, <<which, ec>>)]

\* cancel_socket_checked(): what is pending on the socket is aborted.
cancel_socket_checked(c) ==
  [c EXCEPT !.op = [s \in Stage |-> IF s # "dns" /\ @[s] = "pending" THEN "aborted" ELSE @[s]]]

\* async_shutdown(): a plain socket is shut down at once, a TLS socket by an
\* operation of its own.
async_shutdown(c) ==
  IF c.secure THEN BeginOp(set_timer(c, "shutdown"), "shutdown")
  ELSE Tell(cancel(set_timer(c, "shutdown"), "shutdown"), "shutdown", "ok")

\* connection::terminate(), as far as the transport sees it.
Terminate(c) == IF c.closed THEN c ELSE async_shutdown([c EXCEPT !.closed = TRUE])

\* callback() of init(): handle_transport_init() of the connection.
CallInit(c, ec) == IF ec = "ok" THEN Tell(c, "init", ec) ELSE Terminate(Tell(c, "init", ec))

\* post_init(): a plain socket has nothing to do.
post_init(c, n) ==
  IF c.secure THEN BeginOp(set_timer(c, PostInit[n]), PostInit[n])
  ELSE CallInit(cancel(set_timer(c, "post_init"), "post_init"), "ok")

proxy_write(c, n) ==
  BeginOp(set_timer([c EXCEPT !.timer["overwritten"] = c.timer["proxy"]], "proxy"), ProxyWrite[n])

\* An error is reported, and the stages go on all the same.
handle_pre_init(c, ec, n) ==
  LET d == IF ec # "ok" THEN CallInit(c, ec) ELSE c
  IN IF d.proxy THEN proxy_write(d, n) ELSE post_init(d, n)

\* init(): when the name cannot be set, pre_init() of a TLS socket calls its
\* handler with the error and then once more with success.
init(c, sni) ==
  IF sni THEN handle_pre_init(c, "ok", 1)
  ELSE handle_pre_init(handle_pre_init([c EXCEPT !.badSni = TRUE], "error", 1), "ok", 2)

\* handle_connect() of client: start(), which is good once, or terminate().
CallConnect(c, ec, sni) ==
  LET d == Tell(c, "connect", ec)
  IN IF ec # "ok" \/ d.used THEN Terminate([d EXCEPT !.used = TRUE])
     ELSE init([d EXCEPT !.used = TRUE], sni)

\* How the handler of an operation begins: when it was aborted, or its timer
\* has run out, it does nothing; else the timer is cancelled.  handle_init() of
\* a TLS socket takes a handshake that was aborted for one that failed.
Abandoned(c, s, t) == (c.op[s] = "aborted" /\ s \notin ToSet(PostInit)) \/ is_neg(c, t)
Done(c, s) == [c EXCEPT !.op[s] = "none"]
InTime(c, s, t) ==
  cancel([Done(c, s) EXCEPT !.exact = @ \/ c.timer[t].wait \in {"posted", "fired"}], t)

Ready(c, s) == c.op[s] \in {"ok", "error", "aborted"}
\* A timer goes when the handlers that hold it are gone.
Released(r) ==
  [r EXCEPT !.timer = [t \in Timer |->
     IF \/ @[t].wait \in {"waiting", "posted"}
        \/ \E s \in Stage : r.op[s] # "none" /\ TimerOf(s) = t
     THEN @[t] ELSE NoTimer]]
Turns(c, r) == \E x \in {r} : tc' = [tc EXCEPT ![c] = Released(x)]
Sni(c) == IF tc[c].secure THEN BOOLEAN ELSE {TRUE}

-----------------------------------------------------------------------------
\* async_connect(); a proxy whose address is no good is refused at once.
async_connect(c) ==
  /\ ~tc[c].started
  /\ LET d == [tc[c] EXCEPT !.started = TRUE]
     IN \/ Turns(c, BeginOp(set_timer(d, "dns"), "dns"))
        \/ d.proxy /\ Turns(c, CallConnect(d, "error", TRUE))

\* Mutant of handle_resolve: the expiry of the timer is not looked at.
handle_resolve_Late(c) ==
  LET r == tc[c]
  IN /\ Ready(r, "dns")
     /\ Turns(c,
          IF r.op["dns"] = "aborted" THEN Done(r, "dns")
          ELSE LET d == cancel([Done(r, "dns") EXCEPT !.exact = @ \/ r.timer["dns"].clock = "due"], "dns")
               IN IF r.op["dns"] = "error" THEN CallConnect(d, "error", TRUE)
                  ELSE BeginOp(set_timer(d, "connect"), "connect"))

\* Mutant of handle_resolve: the timer is cancelled first.
handle_resolve_CancelFirst(c) ==
  LET r == tc[c]
      d == InTime(r, "dns", "dns")
  IN /\ Ready(r, "dns")
     /\ Turns(c, IF Abandoned(r, "dns", "dns") THEN cancel(Done(r, "dns"), "dns")
                   ELSE IF r.op["dns"] = "error" THEN CallConnect(d, "error", TRUE)
                   ELSE BeginOp(set_timer(d, "connect"), "connect"))

handle_resolve(c) ==
  LET r == tc[c]
      d == InTime(r, "dns", "dns")
  IN /\ Ready(r, "dns")
     /\ Turns(c, IF Abandoned(r, "dns", "dns") THEN Done(r, "dns")
                   ELSE IF r.op["dns"] = "error" THEN CallConnect(d, "error", TRUE)
                   ELSE BeginOp(set_timer(d, "connect"), "connect"))

handle_connect(c) ==
  LET r == tc[c]
  IN /\ Ready(r, "connect")
     /\ \E sni \in Sni(c) :
          Turns(c, IF Abandoned(r, "connect", "connect") THEN Done(r, "connect")
                     ELSE CallConnect(InTime(r, "connect", "connect"), r.op["connect"], sni))

\* A handler that asks for the timer when m_proxy_data is gone.
NoProxyData(c, s) == c.tunnel /\ c.op[s] # "aborted"
Crash(c, s) == [Done(c, s) EXCEPT !.crashed = TRUE]

\* The timer of the proxy also covers the answer: it is not cancelled yet.
handle_proxy_write(c, n) ==
  LET r == tc[c]
      s == ProxyWrite[n]
  IN /\ Ready(r, s)
     /\ Turns(c, IF NoProxyData(r, s) THEN Crash(r, s)
                 ELSE IF Abandoned(r, s, "proxy") THEN Done(r, s)
                 ELSE IF r.op[s] = "error" THEN CallInit(InTime(r, s, "proxy"), "error")
                 ELSE BeginOp(Done(r, s), ProxyRead[n]))

\* The proxy answers ok, or something else.
handle_proxy_read(c, n) ==
  LET r == tc[c]
      s == ProxyRead[n]
      d == InTime(r, s, "proxy")
  IN /\ Ready(r, s)
     /\ Turns(c, IF NoProxyData(r, s) THEN Crash(r, s)
                 ELSE IF Abandoned(r, s, "proxy") THEN Done(r, s)
                 ELSE IF r.op[s] = "error" THEN CallInit(d, "error")
                 ELSE post_init([d EXCEPT !.tunnel = TRUE], n))

handle_post_init(c, n) ==
  LET r == tc[c]
      s == PostInit[n]
      ok == r.op[s] = "ok"
  IN /\ Ready(r, s)
     /\ Turns(c, IF Abandoned(r, s, s) THEN Done(r, s)
                 ELSE CallInit([InTime(r, s, s) EXCEPT !.secured = @ \/ ok],
                               IF ok THEN "ok" ELSE "error"))

handle_async_shutdown(c) ==
  LET r == tc[c]
  IN /\ Ready(r, "shutdown")
     /\ Turns(c, IF Abandoned(r, "shutdown", "shutdown") THEN Done(r, "shutdown")
                   ELSE Tell(InTime(r, "shutdown", "shutdown"), "shutdown", r.op["shutdown"]))

\* The handlers of the timeouts; the resolver is cancelled for every connection.
handle_resolve_timeout(c) == CallConnect(c, "timeout", TRUE)
handle_connect_timeout(c) == CallConnect(cancel_socket_checked(c), "timeout", TRUE)
handle_proxy_timeout(c) == CallInit(cancel_socket_checked(c), "timeout")
handle_post_init_timeout(c) == CallInit(cancel_socket_checked(c), "timeout")
handle_async_shutdown_timeout(c) == Tell(cancel_socket_checked(c), "shutdown", "timeout")
CancelResolver(c) == IF c.op["dns"] = "pending" THEN [c EXCEPT !.op["dns"] = "aborted"] ELSE c

\* handle_timer()
handle_timer(c, t) ==
  LET rang == [tc[c] EXCEPT !.timer[t].wait = "fired"]
  IN /\ tc[c].timer[t].wait = "posted"
     /\ IF t = "dns"
        THEN tc' = [d \in Conn |-> Released(CancelResolver(IF d = c THEN handle_resolve_timeout(rang)
                                                           ELSE tc[d]))]
        ELSE Turns(c, CASE t = "connect" -> handle_connect_timeout(rang)
                        [] t \in {"proxy", "overwritten"} -> handle_proxy_timeout(rang)
                        [] t \in ToSet(PostInit) -> handle_post_init_timeout(rang)
                        [] t = "shutdown" -> handle_async_shutdown_timeout(rang))

\* The open connection is terminated.
Close(c) ==
  /\ \E i \in 1..Len(tc[c].told) : tc[c].told[i] = <<"init", "ok">>
  /\ ~tc[c].closed
  /\ Turns(c, Terminate(tc[c]))

-----------------------------------------------------------------------------
(* The system outside: operations complete, time passes, and the reactor    *)
(* queues the handlers of the timers that ran out.                          *)

Completes(c) ==
  \E s \in Stage, result \in {"ok", "error"} :
    tc[c].op[s] = "pending" /\ Turns(c, [tc[c] EXCEPT !.op[s] = result])

Tick(c, t) ==
  \/ tc[c].timer[t].clock = "running" /\ Turns(c, [tc[c] EXCEPT !.timer[t].clock = "due"])
  \/ tc[c].timer[t].clock = "due" /\ Turns(c, [tc[c] EXCEPT !.timer[t].clock = "past"])

Rings(c, t) ==
  /\ tc[c].timer[t].wait = "waiting" /\ tc[c].timer[t].clock \in {"due", "past"}
  /\ Turns(c, [tc[c] EXCEPT !.timer[t].wait = "posted"])

Handler(c) ==
  \/ handle_resolve(c) \/ handle_connect(c) \/ handle_async_shutdown(c)
  \/ \E n \in Round : handle_proxy_write(c, n) \/ handle_proxy_read(c, n) \/ handle_post_init(c, n)

\* The process runs.
Alive == \A c \in Conn : ~tc[c].crashed

AsioNext ==
  Alive /\ \E c \in Conn :
    \/ async_connect(c) \/ Handler(c) \/ Completes(c) \/ Close(c)
    \/ \E t \in Timer : handle_timer(c, t) \/ Tick(c, t) \/ Rings(c, t)

\* Queued handlers run and time passes; nothing is assumed of the network.
System(c) ==
  Alive /\ (Handler(c) \/ \E t \in Timer : handle_timer(c, t) \/ Tick(c, t) \/ Rings(c, t))

AsioFairness == \A c \in Conn : WF_tc(System(c))

-----------------------------------------------------------------------------
Tellings(c, which) == SelectSeq(tc[c].told, LAMBDA m : m[1] = which)

(* Each handler of a connection is called at most once, in the order        *)
(* connect, init, shutdown, however the operations and their timers race,   *)
(* save when an operation completes at the very instant its time runs out,  *)
(* or the name cannot be set on a TLS socket.                               *)
CalledOnce ==
  \A c \in Conn : ~tc[c].exact /\ ~tc[c].badSni =>
    [i \in 1..Len(tc[c].told) |-> tc[c].told[i][1]]
      \in {<< >>, <<"connect">>, <<"connect", "init">>, <<"connect", "shutdown">>,
           <<"connect", "init", "shutdown">>}

(* An open connection went the whole way: through the tunnel of its proxy,  *)
(* with its TLS handshake done.                                             *)
OpenIsComplete ==
  \A c \in Conn : <<"init", "ok">> \in ToSet(tc[c].told) =>
    /\ tc[c].proxy => tc[c].tunnel
    /\ tc[c].secure => tc[c].secured

(* A handler finds m_proxy_data gone only where the name could not be set   *)
(* on a TLS socket, whose stages handle_pre_init() begins twice.            *)
CrashOnlyOfBadSni == \A c \in Conn : tc[c].crashed => tc[c].badSni /\ tc[c].proxy

(* connect() is answered whatever the network does: the connection opens or *)
(* has been shut down, also when its resolution was cancelled by the        *)
(* timeout of another connection, and where its stages were begun twice if  *)
(* only the process survives that.                                          *)
Answered ==
  \A c \in Conn :
    tc[c].started ~> \/ <<"init", "ok">> \in ToSet(tc[c].told)
                     \/ Tellings(c, "shutdown") # << >> \/ ~Alive

(* Every stage reports once, and a connection is reported open only when    *)
(* all its stages were passed.                                              *)
StagesReported == CalledOnce /\ OpenIsComplete /\ CrashOnlyOfBadSni
=============================================================================
