----------------------------- MODULE AsioEndpoint -----------------------------
(***************************************************************************)
(* A websocketpp server endpoint on the asio transport: init_asio(),       *)
(* listen(), the accept loop, stop_listening() and run()                   *)
(* (transport/asio/endpoint.hpp, roles/server_endpoint.hpp,                *)
(* impl/endpoint_impl.hpp).                                                *)
(*                                                                         *)
(* The accept loop is a chain: the handler of an accept starts the next    *)
(* one.  start_accept() asks whether the endpoint listens, creates a       *)
(* connection, and only then begins the accept, while another thread may   *)
(* stop listening, or listen again.                                        *)
(***************************************************************************)
EXTENDS Integers, Sequences, FiniteSets

CONSTANTS
  MaxClients,     \* bound: clients that connect
  MaxListens,     \* bound: calls of listen()
  MaxAcceptFaults       \* bound: failures, and accepts on a closed acceptor

Thread == {"app", "io"}

VARIABLES
  ep,          \* the endpoint: state, acceptor, and what run() needs
  starting,    \* thread -> where it is in start_accept()
  accepts,     \* begun accepts, each pending, ok, cancelled or error
  clients,     \* clients in the backlog
  cons,        \* number of connections created, started and terminated
  listens,     \* calls of listen(), of start_accept() by the application, and
               \* whether it began an accept since listen()
  lost,        \* a loop ended because no connection could be created
  acceptFaults

epVars == <<ep, starting, accepts, clients, cons, listens, lost, acceptFaults>>

EpInit ==
  /\ ep = [state |-> "UNINITIALIZED", open |-> FALSE, run |-> "no", perpetual |-> FALSE]
  /\ starting = [t \in Thread |-> "no"] /\ accepts = << >> /\ clients = 0
  /\ cons = [created |-> 0, started |-> 0, terminated |-> 0, arrived |-> 0]
  /\ listens = [listen |-> 0, start |-> 0, begun |-> FALSE] /\ lost = FALSE /\ acceptFaults = 0

EpFault == acceptFaults < MaxAcceptFaults /\ acceptFaults' = acceptFaults + 1
Terminated(n) == [cons EXCEPT !.terminated = @ + n]

-----------------------------------------------------------------------------
init_asio ==
  /\ ep.state = "UNINITIALIZED" /\ ep' = [ep EXCEPT !.state = "READY"]
  /\ UNCHANGED <<starting, accepts, clients, cons, listens, lost, acceptFaults>>

\* listen(): when a step fails the acceptor is closed again.
listen ==
  /\ ep.state = "READY" /\ listens.listen < MaxListens
  /\ listens' = [listens EXCEPT !.listen = @ + 1, !.begun = FALSE]
  /\ \/ ep' = [ep EXCEPT !.state = "LISTENING", !.open = TRUE] /\ UNCHANGED acceptFaults
     \/ EpFault /\ UNCHANGED ep
  /\ UNCHANGED <<starting, accepts, clients, cons, lost>>

\* stop_listening(): the acceptor is closed, the accepts are cancelled and
\* the backlog is lost; m_state follows in a step of its own, unlocked.
stop_listening ==
  /\ ep.state = "LISTENING" /\ ep.open /\ ep' = [ep EXCEPT !.open = FALSE]
  /\ accepts' = [i \in 1..Len(accepts) |-> IF accepts[i] = "pending" THEN "cancelled" ELSE accepts[i]]
  /\ clients' = 0
  /\ UNCHANGED <<starting, cons, listens, lost, acceptFaults>>

StopListeningReturns ==
  /\ ep.state = "LISTENING" /\ ~ep.open /\ ep' = [ep EXCEPT !.state = "READY"]
  /\ UNCHANGED <<starting, accepts, clients, cons, listens, lost, acceptFaults>>

\* The application starts the accept loop.
Start ==
  /\ starting["app"] = "no" /\ listens.start < listens.listen
  /\ starting' = [starting EXCEPT !["app"] = "test"]
  /\ listens' = [listens EXCEPT !.start = @ + 1]
  /\ UNCHANGED <<ep, accepts, clients, cons, lost, acceptFaults>>

\* start_accept(): the test and create_connection(), which may fail.
TestListening(t) ==
  /\ starting[t] = "test"
  /\ \/ /\ ep.state # "LISTENING" /\ starting' = [starting EXCEPT ![t] = "no"]
        /\ UNCHANGED <<cons, lost, acceptFaults>>
     \/ /\ ep.state = "LISTENING" /\ starting' = [starting EXCEPT ![t] = "accept"]
        /\ cons' = [cons EXCEPT !.created = @ + 1] /\ UNCHANGED <<lost, acceptFaults>>
     \/ /\ ep.state = "LISTENING" /\ EpFault /\ lost' = TRUE
        /\ starting' = [starting EXCEPT ![t] = "no"] /\ UNCHANGED cons
  /\ UNCHANGED <<ep, accepts, clients, listens>>

\* Mutant of async_accept: the connection is forgotten when it is too late.
async_accept_Forgets(t) ==
  /\ starting[t] = "accept" /\ starting' = [starting EXCEPT ![t] = "no"]
  /\ accepts' = IF ep.state = "LISTENING" THEN Append(accepts, "pending") ELSE accepts
  /\ UNCHANGED <<ep, clients, cons, listens, lost, acceptFaults>>

\* async_accept(): a connection that comes too late is terminated.  On an
\* acceptor that stop_listening() has closed an accept fails at once, and
\* handle_accept() begins the next: the chain spins until m_state is set.
async_accept(t) ==
  /\ starting[t] = "accept" /\ starting' = [starting EXCEPT ![t] = "no"]
  /\ \/ /\ ep.state = "LISTENING" /\ UNCHANGED cons
        /\ \/ ep.open /\ accepts' = Append(accepts, "pending") /\ UNCHANGED acceptFaults
           \/ ~ep.open /\ accepts' = Append(accepts, "error") /\ EpFault
        /\ listens' = [listens EXCEPT !.begun = @ \/ t = "app"]
     \/ /\ ep.state # "LISTENING" /\ cons' = Terminated(1)
        /\ UNCHANGED <<accepts, listens, acceptFaults>>
  /\ UNCHANGED <<ep, clients, lost>>

\* handle_accept(): the connection is started, or terminated when the accept
\* failed or was cancelled; the next accept follows in every case.
handle_accept(i) ==
  /\ ep.run = "yes" /\ starting["io"] = "no" /\ accepts[i] # "pending"
  /\ accepts' = SubSeq(accepts, 1, i - 1) \o SubSeq(accepts, i + 1, Len(accepts))
  /\ cons' = IF accepts[i] = "ok" THEN [cons EXCEPT !.started = @ + 1] ELSE Terminated(1)
  /\ starting' = [starting EXCEPT !["io"] = "test"]
  /\ UNCHANGED <<ep, clients, listens, lost, acceptFaults>>

\* run(), which returns when there is no work.
run ==
  /\ ep.state # "UNINITIALIZED" /\ ep.run = "no" /\ ep' = [ep EXCEPT !.run = "yes"]
  /\ UNCHANGED <<starting, accepts, clients, cons, listens, lost, acceptFaults>>

RunReturns ==
  /\ ep.run = "yes" /\ ~ep.perpetual /\ accepts = << >> /\ starting["io"] = "no"
  /\ ep' = [ep EXCEPT !.run = "no"]
  /\ UNCHANGED <<starting, accepts, clients, cons, listens, lost, acceptFaults>>

\* start_perpetual() and stop_perpetual().
start_perpetual ==
  /\ ep.state # "UNINITIALIZED" /\ ep' = [ep EXCEPT !.perpetual = ~@]
  /\ UNCHANGED <<starting, accepts, clients, cons, listens, lost, acceptFaults>>

\* A client connects to the socket that listens; the first begun accept
\* takes it, or fails.
ClientArrives ==
  /\ ep.open /\ cons.arrived < MaxClients /\ clients' = clients + 1
  /\ cons' = [cons EXCEPT !.arrived = @ + 1]
  /\ UNCHANGED <<ep, starting, accepts, listens, lost, acceptFaults>>

Accepted ==
  /\ clients > 0 /\ \E i \in 1..Len(accepts) :
       /\ accepts[i] = "pending" /\ \A j \in 1..i - 1 : accepts[j] # "pending"
       /\ \/ accepts' = [accepts EXCEPT ![i] = "ok"] /\ clients' = clients - 1 /\ UNCHANGED acceptFaults
          \/ accepts' = [accepts EXCEPT ![i] = "error"] /\ EpFault /\ UNCHANGED clients
  /\ UNCHANGED <<ep, starting, cons, listens, lost>>

StartAccept(t) == TestListening(t) \/ async_accept(t)
HandleAccept == \E i \in 1..Len(accepts) : handle_accept(i)

EpNext ==
  \/ init_asio \/ listen \/ stop_listening \/ StopListeningReturns \/ Start
  \/ run \/ RunReturns \/ start_perpetual
  \/ ClientArrives \/ Accepted \/ HandleAccept \/ \E t \in Thread : StartAccept(t)

\* The safety part of the specification, which the theorems are about.
EpSpec == EpInit /\ [][EpNext]_epVars

\* Handlers run while a thread is in run(), calls return, and connections
\* that wait are taken.
EpFairness ==
  /\ WF_epVars(HandleAccept) /\ WF_epVars(run) /\ WF_epVars(StopListeningReturns)
  /\ WF_epVars(Accepted /\ acceptFaults' = acceptFaults)
  /\ \A t \in Thread : WF_epVars(StartAccept(t) /\ acceptFaults' = acceptFaults)

-----------------------------------------------------------------------------
InHand == Cardinality({t \in Thread : starting[t] = "accept"})

(* An acceptor is open only while the endpoint says it listens, and no      *)
(* connection is forgotten: each one that was created is started,           *)
(* terminated, or in an accept, those of a chain that spins on the acceptor *)
(* stop_listening() has closed included.                                    *)
NoConnectionLeaks ==
  /\ ep.open => ep.state = "LISTENING"
  /\ cons.created = cons.started + cons.terminated + Len(accepts) + InHand

(* There is one chain of accepts for each call of start_accept() by the     *)
(* application, no more; a chain of the last time that still runs when      *)
(* listen() is called again goes on beside the new one.                     *)
OneChainPerStart ==
  Len(accepts) + Cardinality({t \in Thread : starting[t] # "no"}) <= listens.start

(* Once the application has begun to accept on the socket that listens, a   *)
(* client is taken, whatever happened to the accepts before, unless the     *)
(* loop was lost because no connection could be created.                    *)
ClientsAreTaken ==
  listens.begun /\ clients > 0 ~> clients = 0 \/ lost

(* The accept loop neither leaks connections nor multiplies.                *)
AcceptLoopKept == NoConnectionLeaks /\ OneChainPerStart
=============================================================================
