----------------------------- MODULE WsConnection -----------------------------
(***************************************************************************)
(* websocketpp::connection (impl/connection_impl.hpp): a server and a      *)
(* client end, from start() to the termination handler.                    *)
(*                                                                         *)
(* Each end runs its handlers one at a time (its strand) and has an        *)
(* application thread that sends, closes, pauses and resumes.  The locks   *)
(* protect single reads and writes of m_state: what was tested may be      *)
(* stale when it is used.  terminate() takes no lock.                      *)
(*                                                                         *)
(* The transport is a pair of FIFO channels; a frame is its kind, the      *)
(* close code or the number of the message it carries, and whether it is   *)
(* terminal.  Bytes, headers and the processors are in WsFrames and        *)
(* WsHandshake; here a message is good or is refused.                      *)
(***************************************************************************)
EXTENDS Integers, Sequences, SequencesExt, FiniteSets

CONSTANTS
  MaxSends,       \* bound: messages an application sends
  MaxPings,       \* bound: pings an application sends
  MaxReads,       \* bound: outstanding reads of one connection
  MaxFaults       \* bound: failures of the transport, bad peers and early timeouts

End == {"server", "client"}
Other(e) == IF e = "server" THEN "client" ELSE "server"

VARIABLES
  conn,        \* end -> the connection: see NewConnection
  up,          \* end -> its socket is not shut down
  to,          \* end -> what is on its way to it
  stale,       \* end -> a test of m_state was out of date when it was used: history
  sent,        \* end -> frames it has written: history
  accepted,    \* end -> messages send() took: history
  faults       \* number of faults

wsVars == <<conn, up, to, stale, sent, accepted, faults>>

\* session::state, internal_state and http_state.
State == {"connecting", "open", "closing", "closed"}
InternalState == {"USER_INIT", "TRANSPORT_INIT", "READ_HTTP_REQUEST", "WRITE_HTTP_REQUEST",
                  "READ_HTTP_RESPONSE", "PROCESS_HTTP_REQUEST", "PROCESS_CONNECTION"}
HttpState == {"init", "deferred", "body_written", "closed"}

\* close::status, as far as the code tells values apart.
Code == {"normal", "no_status", "protocol_error", "abnormal"}

\* connection(): the members, with
\*   timer    what m_handshake_timer waits for      late    timers that ran out
\*   reads    outstanding reads                     reply   handshake being written
\*   posted   a write_frame() is posted             writing m_current_msgs
\*   ending   handle_terminate() calls to come      called  handlers called
\*   app      what the application thread is doing  acking  about to acknowledge
\*   doubled  resume_reading() started a second read into m_buf: history
NewConnection ==
  [state |-> "connecting", istate |-> "USER_INIT", ec |-> "none",
   timer |-> "none", late |-> {}, reads |-> 0, readFlag |-> TRUE, reply |-> "none",
   queue |-> << >>, flag |-> FALSE, writing |-> << >>, posted |-> FALSE,
   clean |-> FALSE, local |-> "abnormal", remote |-> "abnormal",
   http |-> "init", isHttp |-> FALSE, status |-> "none",
   ending |-> << >>, called |-> << >>, got |-> << >>, app |-> "idle", acking |-> "no",
   pings |-> 0, doubled |-> FALSE]

Frame(kind, code, terminal) == [kind |-> kind, code |-> code, terminal |-> terminal]

WsInit ==
  /\ conn = [e \in End |-> NewConnection]
  /\ up = [e \in End |-> TRUE] /\ to = [e \in End |-> << >>]
  /\ stale = [e \in End |-> FALSE] /\ sent = [e \in End |-> << >>]
  /\ accepted = [e \in End |-> << >>] /\ faults = 0

-----------------------------------------------------------------------------
(* What the handlers do to their connection.                                *)

\* Mutant of terminate: a closed connection is terminated again.
terminate_Again(c, ec) ==
  [c EXCEPT !.timer = "none", !.ec = ec, !.state = "closed",
            !.ending = Append(@, IF c.state = "connecting" THEN "failed" ELSE "closed")]

\* terminate(): on a closed connection only the timer and the reason change.
terminate(c, ec) ==
  LET d == [c EXCEPT !.timer = "none",
                     !.ec = IF ec = "none" THEN @ ELSE ec,
                     !.local = IF ec = "none" THEN @ ELSE "abnormal",
                     !.http = IF c.isHttp THEN "closed" ELSE @]
  IN IF c.state = "closed" THEN d
     ELSE [d EXCEPT !.state = "closed",
                    !.ending = Append(@, IF c.state = "connecting" THEN "failed" ELSE "closed")]

\* write_push() and the posted write_frame().
write_push(c, f) == [c EXCEPT !.queue = Append(@, f), !.posted = @ \/ ~c.flag]

\* Mutant of send_close_frame: the connection stays open.
send_close_frame_StaysOpen(c, code, ack, terminal) ==
  LET local == IF ack /\ code = "blank"
               THEN IF c.remote = "no_status" THEN "normal" ELSE c.remote
               ELSE code
  IN write_push([c EXCEPT !.local = local, !.clean = @ \/ ack, !.timer = "close"],
                Frame("close", local, terminal))

\* send_close_frame(): an acknowledgement repeats the code of the other end.
send_close_frame(c, code, ack, terminal) ==
  LET local == IF ack /\ code = "blank"
               THEN IF c.remote = "no_status" THEN "normal" ELSE c.remote
               ELSE code
  IN write_push([c EXCEPT !.local = local, !.state = "closing", !.clean = @ \/ ack,
                          !.timer = "close"],
                Frame("close", local, terminal))

send_close_ack(e, c, code) == send_close_frame(c, code, TRUE, e = "server")

\* read_frame(), and the read a pause holds back.
read_frame(c) == IF c.readFlag THEN [c EXCEPT !.reads = @ + 1] ELSE c

\* process_control_frame() for a close frame, after the tests of m_state.
AnswerClose(e, c) ==
  IF c.acking = "open" THEN send_close_ack(e, c, "blank")
  ELSE IF c.acking = "closing"
  THEN LET d == [c EXCEPT !.clean = TRUE]
       IN IF e = "server" THEN terminate(d, "none") ELSE d
  ELSE c

\* open_handler and the first frames behind the handshake.
Opened(c) ==
  read_frame([c EXCEPT !.istate = "PROCESS_CONNECTION", !.state = "open",
                       !.called = Append(@, "open")])

-----------------------------------------------------------------------------
(* The steps of a strand.  While an acknowledgement is on its way no other  *)
(* handler of that end runs.                                                *)

Strand(e) == conn[e].acking = "no"
Becomes(e, c) == conn' = [conn EXCEPT ![e] = c]
Fault == faults < MaxFaults /\ faults' = faults + 1
Quiet == UNCHANGED <<up, to, stale, sent, accepted>>
Arrives(e, kind) == to[e] # << >> /\ Head(to[e]).kind = kind /\ up[e]

\* async_write() of the transport, when it succeeds.
async_write(e, frames) ==
  /\ to' = [to EXCEPT ![Other(e)] = @ \o frames]
  /\ sent' = [sent EXCEPT ![e] = @ \o frames]

start(e) ==
  /\ conn[e].istate = "USER_INIT" /\ conn[e].state = "connecting"
  /\ Becomes(e, [conn[e] EXCEPT !.istate = "TRANSPORT_INIT"])
  /\ Quiet /\ UNCHANGED faults

\* Mutant of handle_transport_init: a server does not time the handshake.
handle_transport_init_NoTimer(e) ==
  /\ conn[e].istate = "TRANSPORT_INIT" /\ conn[e].state = "connecting"
  /\ Becomes(e, IF e = "server"
                THEN [conn[e] EXCEPT !.istate = "READ_HTTP_REQUEST", !.reads = 1]
                ELSE [conn[e] EXCEPT !.istate = "WRITE_HTTP_REQUEST", !.timer = "open",
                                     !.reply = "request"])
  /\ Quiet /\ UNCHANGED faults

handle_transport_init(e) ==
  /\ conn[e].istate = "TRANSPORT_INIT" /\ conn[e].state = "connecting"
  /\ \/ UNCHANGED faults
        /\ Becomes(e, IF e = "server"
                      THEN [conn[e] EXCEPT !.istate = "READ_HTTP_REQUEST", !.timer = "open",
                                           !.reads = 1]
                      ELSE [conn[e] EXCEPT !.istate = "WRITE_HTTP_REQUEST", !.timer = "open",
                                           !.reply = "request"])
     \/ Fault /\ Becomes(e, terminate(conn[e], "init"))
  /\ Quiet

\* handle_send_http_request(): the request is out and the response is read.
handle_send_http_request ==
  LET e == "client"
      c == [conn[e] EXCEPT !.reply = "none"]
  IN /\ conn[e].reply = "request"
     /\ \/ /\ up[e] /\ c.state = "connecting" /\ c.istate = "WRITE_HTTP_REQUEST"
           /\ to' = [to EXCEPT !["server"] = Append(@, Frame("request", "ws", FALSE))]
           /\ Becomes(e, [c EXCEPT !.istate = "READ_HTTP_RESPONSE", !.reads = 1])
           /\ UNCHANGED faults
        \/ c.state = "closed" /\ Becomes(e, c) /\ UNCHANGED <<to, faults>>
        \/ Fault /\ Becomes(e, terminate(c, "write")) /\ UNCHANGED to
     /\ UNCHANGED <<up, stale, sent, accepted>>

\* handle_read_handshake() of a complete request, initialize_processor() and
\* process_handshake_request(): it is accepted, refused (a bad request, a bad
\* version, the validate handler), or a plain request for the http handler,
\* which answers or defers the answer.
handle_read_handshake ==
  LET e == "server"
      c == [conn[e] EXCEPT !.reads = 0]
      status(s) == [c EXCEPT !.istate = "PROCESS_HTTP_REQUEST", !.status = s, !.reply = "response"]
  IN /\ Arrives(e, "request") /\ c.istate = "READ_HTTP_REQUEST" /\ conn[e].reads > 0
     /\ to' = [to EXCEPT ![e] = Tail(@)]
     /\ \/ /\ c.state = "connecting" /\ Head(to[e]).code = "ws"
           /\ \/ Becomes(e, status("switching_protocols")) /\ UNCHANGED faults
              \/ Fault /\ Becomes(e, status("bad_request"))
        \/ /\ c.state = "connecting" /\ Head(to[e]).code = "plain"
           /\ \/ Becomes(e, [status("ok") EXCEPT !.isHttp = TRUE])
              \/ Becomes(e, [status("ok") EXCEPT !.isHttp = TRUE, !.reply = "none",
                                                 !.http = "deferred", !.timer = "none"])
           /\ UNCHANGED faults
        \/ c.state = "closed" /\ Becomes(e, c) /\ UNCHANGED faults
     /\ UNCHANGED <<up, stale, sent, accepted>>

\* send_http_response(), from any thread.
send_http_response ==
  LET c == conn["server"]
  IN /\ c.http = "deferred"
     /\ Becomes("server", [c EXCEPT !.http = "body_written", !.reply = "response"])
     /\ Quiet /\ UNCHANGED faults

\* handle_write_http_response().
handle_write_http_response ==
  LET e == "server"
      c == [conn[e] EXCEPT !.reply = "none", !.timer = "none"]
      answer == Frame("response", conn[e].status, FALSE)
  IN /\ conn[e].reply = "response"
     /\ \/ /\ up[e] /\ c.state = "connecting" /\ UNCHANGED faults
           /\ async_write(e, <<answer>>)
           /\ Becomes(e, IF c.status = "switching_protocols" THEN Opened(c)
                         ELSE terminate(c, IF c.isHttp THEN "http_connection_ended" ELSE "refused"))
        \/ /\ c.state = "closed" /\ UNCHANGED <<to, sent, faults>>
           /\ Becomes(e, [conn[e] EXCEPT !.reply = "none"])
        \/ /\ Fault /\ UNCHANGED <<to, sent>>
           /\ Becomes(e, terminate([conn[e] EXCEPT !.reply = "none"], "write"))
     /\ UNCHANGED <<up, stale, accepted>>

\* handle_read_http_response().  When the extensions cannot be negotiated the
\* connection is terminated and opened all the same.
handle_read_http_response ==
  LET e == "client"
      c == [conn[e] EXCEPT !.reads = 0, !.timer = "none"]
  IN /\ Arrives(e, "response") /\ c.istate = "READ_HTTP_RESPONSE" /\ conn[e].reads > 0
     /\ to' = [to EXCEPT ![e] = Tail(@)]
     /\ \/ /\ c.state = "connecting" /\ Head(to[e]).code = "switching_protocols"
           /\ \/ Becomes(e, Opened(c)) /\ UNCHANGED <<faults, stale>>
              \/ /\ Fault /\ Becomes(e, Opened(terminate(c, "extension_neg_failed")))
                 /\ stale' = [stale EXCEPT ![e] = TRUE]
        \/ /\ c.state = "connecting" /\ Head(to[e]).code # "switching_protocols"
           /\ Becomes(e, terminate(c, "invalid_http_status")) /\ UNCHANGED <<faults, stale>>
        \/ c.state = "closed" /\ Becomes(e, [conn[e] EXCEPT !.reads = 0]) /\ UNCHANGED <<faults, stale>>
     /\ UNCHANGED <<up, sent, accepted>>

-----------------------------------------------------------------------------
(* handle_read_frame(), one frame at a time.                                *)

ReadsFrames(e) ==
  /\ Strand(e) /\ conn[e].reads > 0 /\ up[e]
  /\ conn[e].istate = "PROCESS_CONNECTION"
Received(e) == [conn[e] EXCEPT !.reads = @ - 1]

\* A message for the message handler; one that comes too late is dropped.
HandleMessage(e) ==
  LET c == Received(e)
  IN /\ ReadsFrames(e) /\ Arrives(e, "data")
     /\ to' = [to EXCEPT ![e] = Tail(@)]
     /\ Becomes(e, read_frame(IF c.state = "open"
                              THEN [c EXCEPT !.got = Append(@, Head(to[e]).code)] ELSE c))
     /\ UNCHANGED <<up, stale, sent, accepted, faults>>

\* A ping is answered and a pong reported, when the connection is open.
HandlePing(e) ==
  LET c == Received(e)
  IN /\ ReadsFrames(e) /\ (Arrives(e, "ping") \/ Arrives(e, "pong"))
     /\ to' = [to EXCEPT ![e] = Tail(@)]
     /\ Becomes(e, read_frame(IF c.state = "open" /\ Head(to[e]).kind = "ping"
                              THEN write_push(c, Frame("pong", "none", FALSE)) ELSE c))
     /\ UNCHANGED <<up, stale, sent, accepted, faults>>

\* A close frame: m_state is tested, and then acted upon.  A code that is not
\* valid is acknowledged in any state.
HandleClose(e) ==
  LET c == Received(e)
      code == Head(to[e]).code
  IN /\ ReadsFrames(e) /\ Arrives(e, "close")
     /\ to' = [to EXCEPT ![e] = Tail(@)]
     /\ Becomes(e,
          IF c.state = "closed" THEN read_frame(c)
          ELSE IF code = "bad" THEN [c EXCEPT !.remote = "bad", !.acking = "bad"]
          ELSE [c EXCEPT !.remote = code,
                         !.acking = IF c.state = "open" THEN "open"
                                    ELSE IF ~c.clean THEN "closing" ELSE "ignored"])
     /\ UNCHANGED <<up, stale, sent, accepted, faults>>

Acknowledge(e) ==
  LET c == conn[e]
      d == IF c.acking = "bad" THEN send_close_ack(e, c, "protocol_error")
           ELSE AnswerClose(e, c)
  IN /\ c.acking # "no"
     /\ Becomes(e, read_frame([d EXCEPT !.acking = "no"]))
     /\ stale' = [stale EXCEPT ![e] =
                    @ \/ (c.acking = "open" /\ c.state # "open")
                      \/ (c.acking = "bad" /\ c.state # "open")]
     /\ UNCHANGED <<up, to, sent, accepted, faults>>

\* A frame consume() refuses: the connection is closed with a code, and not
\* read any more, or terminated when it is closing already.
HandleGarbage(e) ==
  LET c == Received(e)
  IN /\ ReadsFrames(e) /\ Arrives(e, "garbage")
     /\ to' = [to EXCEPT ![e] = Tail(@)]
     /\ Becomes(e, IF c.state = "open" THEN send_close_frame(c, "protocol_error", FALSE, TRUE)
                   ELSE terminate(c, "invalid_state"))
     /\ UNCHANGED <<up, stale, sent, accepted, faults>>

\* End of file, or an error: the read of a handshake or of a frame.
HandleReadEnd(e) ==
  LET c == Received(e)
      eof == ~up[Other(e)] /\ to[e] = << >>
  IN /\ Strand(e) /\ conn[e].reads > 0
     /\ \/ /\ eof \/ ~up[e]
           /\ Becomes(e, IF c.state = "closed" THEN c
                         ELSE IF c.state = "closing" /\ e = "client" THEN terminate(c, "none")
                         ELSE terminate(c, "eof"))
           /\ UNCHANGED faults
        \/ Fault /\ Becomes(e, terminate(c, "read"))
     /\ Quiet

-----------------------------------------------------------------------------
(* Writing.                                                                 *)

\* The first n frames: all, or those up to the first terminal one.
Batch(frames, n) ==
  /\ \A i \in 1..(n - 1) : ~frames[i].terminal
  /\ n = Len(frames) \/ frames[n].terminal

\* write_frame(): everything up to a terminal frame goes out in one write.
write_frame(e) ==
  LET c == [conn[e] EXCEPT !.posted = FALSE]
  IN /\ Strand(e) /\ conn[e].posted
     /\ \/ (c.flag \/ c.queue = << >>) /\ Becomes(e, c)
        \/ /\ ~c.flag
           /\ \E n \in 1..Len(c.queue) :
                /\ Batch(c.queue, n)
                /\ Becomes(e, [c EXCEPT !.flag = TRUE,
                                        !.writing = SubSeq(c.queue, 1, n),
                                        !.queue = SubSeq(c.queue, n + 1, Len(c.queue))])
     /\ Quiet /\ UNCHANGED faults

handle_write_frame(e) ==
  LET c == [conn[e] EXCEPT !.writing = << >>]
      w == conn[e].writing
  IN /\ Strand(e) /\ w # << >>
     /\ \/ /\ up[e] /\ UNCHANGED faults /\ async_write(e, w)
           /\ Becomes(e, IF Last(w).terminal THEN terminate(c, "none")
                         ELSE [c EXCEPT !.flag = FALSE, !.posted = @ \/ c.queue # << >>])
        \/ ~up[e] /\ UNCHANGED <<to, sent, faults>> /\ Becomes(e, terminate(c, "write"))
        \/ Fault /\ UNCHANGED <<to, sent>> /\ Becomes(e, terminate(c, "write"))
     /\ UNCHANGED <<up, stale, accepted>>

-----------------------------------------------------------------------------
(* Timers and the end.  A timer that ran out before it was cancelled still  *)
(* calls its handler.                                                       *)

TimerExpires(e) ==
  /\ conn[e].timer # "none"
  /\ Becomes(e, [conn[e] EXCEPT !.timer = "none", !.late = @ \cup {conn[e].timer}])
  /\ Quiet /\ UNCHANGED faults

\* handle_open_handshake_timeout() and handle_close_handshake_timeout().
handle_timeout(e) ==
  \E t \in conn[e].late :
    /\ Strand(e)
    /\ Becomes(e, terminate([conn[e] EXCEPT !.late = @ \ {t}], "timeout"))
    /\ Quiet /\ UNCHANGED faults

\* async_shutdown() and handle_terminate().
handle_terminate(e) ==
  LET c == conn[e]
      how == IF Head(c.ending) = "closed" THEN <<"close">>
             ELSE IF c.ec = "http_connection_ended" THEN << >> ELSE <<"fail">>
  IN /\ Strand(e) /\ c.ending # << >>
     /\ Becomes(e, [c EXCEPT !.ending = Tail(@), !.called = @ \o how \o <<"terminated">>])
     /\ up' = [up EXCEPT ![e] = FALSE]
     /\ UNCHANGED <<to, stale, sent, accepted, faults>>

-----------------------------------------------------------------------------
(* The application: send(), ping() and close() test m_state, then act.      *)
(* Those of the endpoint find the connection by its handle and call its own. *)

Begin(e, what) ==
  /\ conn[e].app = "idle" /\ conn[e].state = "open"
  /\ what = "send" => Len(accepted[e]) < MaxSends
  /\ what = "ping" => conn[e].pings < MaxPings
  /\ Becomes(e, [conn[e] EXCEPT !.app = what, !.pings = IF what = "ping" THEN @ + 1 ELSE @])
  /\ Quiet /\ UNCHANGED faults

send(e) ==
  LET n == Len(accepted[e]) + 1
  IN /\ conn[e].app = "send"
     /\ Becomes(e, write_push([conn[e] EXCEPT !.app = "idle"], Frame("data", n, FALSE)))
     /\ accepted' = [accepted EXCEPT ![e] = Append(@, n)]
     /\ stale' = [stale EXCEPT ![e] = @ \/ conn[e].state # "open"]
     /\ UNCHANGED <<up, to, sent, faults>>

ping(e) ==
  /\ conn[e].app = "ping"
  /\ Becomes(e, write_push([conn[e] EXCEPT !.app = "idle"], Frame("ping", "none", FALSE)))
  /\ stale' = [stale EXCEPT ![e] = @ \/ conn[e].state # "open"]
  /\ UNCHANGED <<up, to, sent, accepted, faults>>

close(e, code) ==
  /\ conn[e].app = "close"
  /\ Becomes(e, send_close_frame([conn[e] EXCEPT !.app = "done"], code, FALSE,
                                 code = "protocol_error"))
  /\ stale' = [stale EXCEPT ![e] = @ \/ conn[e].state # "open"]
  /\ UNCHANGED <<up, to, sent, accepted, faults>>

\* pause_reading() and resume_reading(), by their posted handlers.
handle_pause_reading(e) ==
  /\ Strand(e) /\ conn[e].state = "open" /\ conn[e].readFlag
  /\ Becomes(e, [conn[e] EXCEPT !.readFlag = FALSE])
  /\ Quiet /\ UNCHANGED faults

\* Reading is resumed whether or not it was paused, and whether or not the read
\* from before the pause is still outstanding.
handle_resume_reading(e) ==
  /\ Strand(e) /\ conn[e].state = "open" /\ conn[e].reads < MaxReads
  /\ Becomes(e, read_frame([conn[e] EXCEPT !.readFlag = TRUE,
                                           !.doubled = @ \/ conn[e].reads > 0]))
  /\ Quiet /\ UNCHANGED faults

\* Two reads share m_buf: the second puts its octets there before
\* handle_read_frame() has seen those of the first.  That handler then finds
\* the second frame, one that consume() refuses, or an end of one that
\* swallows its own.
Overwritten(e) ==
  /\ conn[e].reads > 1 /\ up[e] /\ conn[e].istate = "PROCESS_CONNECTION" /\ Len(to[e]) > 1
  /\ \E found \in {<<to[e][2]>>, <<Frame("garbage", "none", FALSE)>>, << >>} :
       to' = [to EXCEPT ![e] = found \o Tail(@)]
  /\ UNCHANGED <<conn, up, stale, sent, accepted, faults>>

\* The other end is not websocketpp: it asks for a page, or sends a close
\* frame with a bad code or garbage.
BadPeer(e) ==
  /\ Fault /\ up[Other(e)] /\ conn[e].istate = "PROCESS_CONNECTION"
  /\ \E f \in {Frame("close", "bad", FALSE), Frame("garbage", "none", FALSE)} :
       to' = [to EXCEPT ![e] = Append(@, f)]
  /\ UNCHANGED <<conn, up, stale, sent, accepted>>

PlainRequest ==
  /\ conn["client"].istate = "USER_INIT" /\ conn["client"].state = "connecting"
  /\ to["server"] = << >> /\ conn["server"].istate = "READ_HTTP_REQUEST"
  /\ to' = [to EXCEPT !["server"] = <<Frame("request", "plain", FALSE)>>]
  /\ conn' = [conn EXCEPT !["client"].state = "closed"]
  /\ UNCHANGED <<up, stale, sent, accepted, faults>>

-----------------------------------------------------------------------------
StrandStep(e) ==
  \/ HandleMessage(e) \/ HandlePing(e) \/ HandleClose(e) \/ Acknowledge(e) \/ HandleGarbage(e)
  \/ HandleReadEnd(e) \/ write_frame(e) \/ handle_write_frame(e) \/ handle_timeout(e)
  \/ handle_terminate(e) \/ handle_transport_init(e)
  \/ e = "client" /\ (handle_send_http_request \/ handle_read_http_response)
  \/ e = "server" /\ (handle_read_handshake \/ handle_write_http_response)

AppEnds(e) == send(e) \/ ping(e) \/ \E code \in {"normal", "no_status"} : close(e, code)

WsNext ==
  \/ send_http_response \/ PlainRequest
  \/ \E e \in End :
       \/ start(e) \/ StrandStep(e) \/ TimerExpires(e) \/ AppEnds(e) \/ BadPeer(e)
       \/ \E what \in {"send", "ping", "close"} : Begin(e, what)
       \/ handle_pause_reading(e) \/ handle_resume_reading(e) \/ Overwritten(e)

\* The io_service runs its handlers, timers run out, and a call of the
\* application returns.  No fault is assumed.
WsFairness ==
  \A e \in End : /\ WF_wsVars(StrandStep(e) /\ faults' = faults) /\ WF_wsVars(TimerExpires(e))
                 /\ WF_wsVars(AppEnds(e))

-----------------------------------------------------------------------------
(* The types of the members, and how they go together: only one write at a  *)
(* time, by who has the write flag, and m_internal_state follows m_state.   *)
WsTypeOK ==
  \A e \in End :
    /\ conn[e].state \in State /\ conn[e].istate \in InternalState
    /\ conn[e].http \in HttpState /\ {conn[e].local, conn[e].remote} \subseteq Code \cup {"bad"}
    /\ conn[e].writing # << >> => conn[e].flag
    /\ conn[e].state \in {"open", "closing"} => conn[e].istate = "PROCESS_CONNECTION"

(* A connection that is closed stays closed, unless a test of m_state was   *)
(* out of date when it was used: close() or an acknowledgement sets closing *)
(* after terminate() set closed, and so does the client whose extensions    *)
(* could not be negotiated.                                                 *)
ClosedIsFinal ==
  [][\A e \in End : conn[e].state = "closed" /\ conn'[e].state # "closed" => stale'[e]]_wsVars

(* The application is told once how a connection went: open at most once,   *)
(* then close, or else fail, and the termination handler last, under the    *)
(* same condition.                                                          *)
HandlersOnce ==
  \A e \in End : ~stale[e] =>
    conn[e].called \in {<< >>, <<"open">>, <<"open", "close", "terminated">>,
                        <<"fail", "terminated">>, <<"terminated">>}

(* Nothing follows a close frame, and there is one at most, unless a test   *)
(* of m_state was out of date or a close frame with a bad code was          *)
(* acknowledged by an end that had sent its own.                            *)
CloseFrameIsLast ==
  \A e \in End : ~stale[e] =>
    \A i \in 1..Len(sent[e]) : sent[e][i].kind = "close" => i = Len(sent[e])

(* There is one outstanding read at a time: another would use the same      *)
(* buffer.  Only resume_reading() can start a second one, which "nothing is *)
(* changed" of connection.hpp does not say.                                 *)
OneRead ==
  \A e \in End : conn[e].reads > 1 => conn[e].doubled

(* Messages arrive in the order send() took them, without a gap, also when  *)
(* several were written at once, at an end whose reads never shared m_buf.  *)
MessagesInOrder ==
  \A e \in End : ~conn[e].doubled => IsPrefix(conn[e].got, accepted[Other(e)])

(* After a clean close each end knows the code of the other, also when both *)
(* begin at the same time, under the conditions above.                      *)
CloseCodesAgree ==
  LET s == conn["server"]
      c == conn["client"]
  IN /\ s.clean /\ c.clean /\ s.ec = "none" /\ c.ec = "none" /\ faults = 0
     /\ ~stale["server"] /\ ~stale["client"] /\ ~s.doubled /\ ~c.doubled
     => s.remote = c.local /\ c.remote = s.local

(* The opening handshake ends, whatever the other end does: its timer is    *)
(* set until the answer is there.  (A deferred http answer has no timer.)   *)
OpeningEnds ==
  \A e \in End :
    conn[e].istate # "USER_INIT" ~> (conn[e].state # "connecting" \/ conn[e].http = "deferred")

(* An end that is closing becomes closed, whether or not the other end      *)
(* answers.                                                                 *)
ClosingEnds ==
  \A e \in End : conn[e].state = "closing" ~> conn[e].state = "closed"

(* When one end is gone the other one is closed too, unless it does not     *)
(* read: it is paused, or it met a frame it refused and waits for its close *)
(* frame to go out.                                                         *)
PeerNotices ==
  \A e \in End :
    ~up[Other(e)] /\ conn[e].istate # "USER_INIT"
      ~> (conn[e].state = "closed" \/ ~conn[e].readFlag \/ conn[e].http = "deferred")

(* What is sent arrives in order by one read at a time, nothing follows a   *)
(* close frame, and both ends know the same close code.                     *)
StreamKept == WsTypeOK /\ OneRead /\ CloseFrameIsLast /\ MessagesInOrder /\ CloseCodesAgree

(* Opening and closing come to an end whatever the peer does, an end that   *)
(* is gone is noticed, and a closed connection stays closed.                *)
ConnectionsEnd == ClosedIsFinal /\ OpeningEnds /\ ClosingEnds /\ PeerNotices
=============================================================================
