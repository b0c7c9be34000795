---------------------------- MODULE ServerManager ----------------------------
(***************************************************************************)
(* server::ServerManager (include/server/session/server_manager.h) with    *)
(* network::TcpServer, its TcpConnections and their MessageChannels        *)
(* (include/common/network/tcp_connection.h).                              *)
(*                                                                         *)
(* Threads: the io thread, which runs one handler at a time; the thread    *)
(* that starts and stops the server; threads that send.  clientsMutex_ is  *)
(* held only for steps that cannot block, so each of them is one step.     *)
(* connections_mutex_ is held through the loop of TcpServer::stop(): the   *)
(* io thread waits for it then, and so does the stopping thread itself if  *)
(* a close handler asks for it.                                            *)
(*                                                                         *)
(* A client id is a fresh UUID and is identified with its connection.  A   *)
(* TcpServer may also be used without a manager (examples/                 *)
(* collaboration_example.cpp): then it is never stopped, the close handler *)
(* stays its own, and the MessageChannel ends with the connection handler. *)
(***************************************************************************)
EXTENDS TcpConnection, FiniteSets, SequencesExt

CONSTANTS
  Client,       \* the clients that may connect, once each
  NoClient,     \* no client
  MaxSends,     \* bound: messages the server is asked to send
  MaxRequests   \* bound: messages each client sends

ASSUME ClientAssumption == NoClient \notin Client /\ {"none", "pending", "failed"} \cap Client = {}
ASSUME SendBoundsAssumption == MaxSends \in Nat /\ MaxRequests \in Nat

VARIABLES
  managed,      \* whether a ServerManager owns the TcpServer
  running,      \* running_ of the ServerManager
  accepting,    \* running_ of the TcpServer
  acceptOp,     \* the async_accept: "none", "pending", "failed", or the client it accepted
  acceptorOpen, \* acceptor_.is_open()
  tcp,          \* the TcpConnection of each client
  closeHandler, \* close_handler_ of each: "none", "server", "manager"
  active,       \* active_connections_
  clients,      \* keys of clients_
  io,           \* what the io thread is doing, and for which client
  stopper,      \* where the stopping thread is
  left,         \* connections the loop of stop() has not reached
  ioStopped,    \* io_context_->stop() was called
  peer,         \* "away", "backlog", "here", "closed": the client's end
  requests,     \* number of messages read from each client
  frames,       \* frames that reached the client
  sent,         \* number of messages the server was asked to send
  accepted,     \* messages write() was called with, for each connection: history
  closedBy,     \* whose close() went first, for each connection: history
  dangling      \* connections whose reads called a MessageChannel after its end: history

acceptVars == <<acceptOp, accepting, acceptorOpen>>
tableVars == <<closeHandler, active, clients>>
stopVars == <<running, stopper, left, ioStopped>>
peerVars == <<peer, requests, frames>>
sendVars == <<sent, accepted>>
historyVars == <<managed, closedBy, dangling>>
serverVars == <<acceptVars, tcp, tableVars, io, stopVars, peerVars, sendVars, historyVars>>

At(place) == <<place, NoClient>>

(* The types of the variables; messages are numbered as they are sent.      *)
ServerTypeOK ==
  /\ {managed, running, accepting, acceptorOpen, ioStopped} \subseteq BOOLEAN
  /\ acceptOp \in {"none", "pending", "failed"} \cup Client
  /\ tcp \in [Client -> ConnectionType(1..MaxSends)]
  /\ closeHandler \in [Client -> {"none", "server", "manager"}]
  /\ UNION {active, clients, left, dangling} \subseteq Client
  /\ io \in {At("idle"), At("ended")} \cup
            ({"started", "inserted", "registered", "closing", "server", "manager"} \X Client)
  /\ stopper \in {At("new"), At("up"), At("lock"), At("loop"), At("context"), At("join"), At("done")}
                 \cup ({"closing", "server", "manager"} \X Client)
  /\ peer \in [Client -> {"away", "backlog", "here", "closed"}]
  /\ requests \in [Client -> 0..MaxRequests] /\ sent \in 0..MaxSends
  /\ accepted \in [Client -> Seq(1..MaxSends)]
  /\ frames \in [Client -> Seq((1..MaxSends) \cup {Garbled, Joined})]
  /\ closedBy \in [Client -> {"nobody", "reading", "writing", "stop"}]

ServerInit ==
  /\ managed \in BOOLEAN
  /\ running = FALSE /\ accepting = FALSE /\ acceptOp = "none" /\ acceptorOpen = FALSE
  /\ tcp = [c \in Client |-> NewConnection]
  /\ closeHandler = [c \in Client |-> "none"]
  /\ active = {} /\ clients = {} /\ left = {} /\ dangling = {}
  /\ io = At("idle") /\ stopper = At("new") /\ ioStopped = FALSE
  /\ peer = [c \in Client |-> "away"] /\ requests = [c \in Client |-> 0]
  /\ sent = 0 /\ accepted = [c \in Client |-> << >>] /\ frames = [c \in Client |-> << >>]
  /\ closedBy = [c \in Client |-> "nobody"]

-----------------------------------------------------------------------------
(* start(): the TcpServer is constructed and started, then the io thread.   *)

startServer ==
  /\ stopper = At("new")
  /\ acceptorOpen' = TRUE /\ accepting' = TRUE /\ acceptOp' = "pending"
  /\ running' = managed /\ stopper' = At("up")
  /\ UNCHANGED <<tcp, tableVars, io, left, ioStopped, peerVars, sendVars, historyVars>>

-----------------------------------------------------------------------------
(* The io thread.                                                           *)

IoReady == io = At("idle") /\ ~ioStopped

\* What accept_connection() leads to when it is called again.
AcceptAgain == IF ~accepting THEN "none" ELSE IF acceptorOpen THEN "pending" ELSE "failed"

\* The operating system completes async_accept; its handler is queued.
AcceptCompletes(c) ==
  /\ acceptOp = "pending" /\ acceptorOpen /\ peer[c] = "backlog"
  /\ acceptOp' = c /\ peer' = [peer EXCEPT ![c] = "here"]
  /\ UNCHANGED <<accepting, acceptorOpen, tcp, tableVars, io, stopVars, requests, frames,
                 sendVars, historyVars>>

\* The accept handler up to the lock of connections_mutex_.
HandleAccept(c) ==
  /\ IoReady /\ acceptOp = c
  /\ acceptOp' = "none"
  /\ closeHandler' = [closeHandler EXCEPT ![c] = "server"]
  /\ tcp' = [tcp EXCEPT ![c] = start(@)]
  /\ io' = <<"started", c>>
  /\ UNCHANGED <<accepting, acceptorOpen, active, clients, stopVars, peerVars, sendVars,
                 historyVars>>

\* Completion with an error other than operation_aborted.  A closed acceptor
\* fails again and again until accepting is reset.
HandleAcceptError ==
  /\ IoReady /\ acceptOp = "failed"
  /\ acceptOp' = AcceptAgain
  /\ UNCHANGED <<accepting, acceptorOpen, tcp, tableVars, io, stopVars, peerVars, sendVars,
                 historyVars>>

HoldsConnectionsMutex == stopper[1] \in {"loop", "closing", "server", "manager"}

\* Without a manager the connection handler leaves nothing behind.
InsertActive(c) ==
  /\ io = <<"started", c>> /\ ~HoldsConnectionsMutex
  /\ active' = active \cup {c}
  /\ io' = IF managed THEN <<"inserted", c>> ELSE At("idle")
  /\ acceptOp' = IF managed THEN acceptOp ELSE AcceptAgain
  /\ UNCHANGED <<accepting, acceptorOpen, tcp, closeHandler, clients, stopVars, peerVars,
                 sendVars, historyVars>>

\* handleNewConnection() up to the close handler it sets.
handleNewConnection(c) ==
  /\ io = <<"inserted", c>>
  /\ clients' = clients \cup {c}
  /\ io' = <<"registered", c>>
  /\ UNCHANGED <<acceptVars, tcp, closeHandler, active, stopVars, peerVars, sendVars,
                 historyVars>>

\* Mutant of SetCloseHandler: the manager does not set a close handler.
SetCloseHandler_Missing(c) ==
  /\ io = <<"registered", c>>
  /\ acceptOp' = AcceptAgain
  /\ io' = At("idle")
  /\ UNCHANGED <<accepting, acceptorOpen, tcp, tableVars, stopVars, peerVars, sendVars,
                 historyVars>>

\* The rest of it, and accept_connection() again.
SetCloseHandler(c) ==
  /\ io = <<"registered", c>>
  /\ closeHandler' = [closeHandler EXCEPT ![c] = "manager"]
  /\ acceptOp' = AcceptAgain
  /\ io' = At("idle")
  /\ UNCHANGED <<accepting, acceptorOpen, tcp, active, clients, stopVars, peerVars, sendVars,
                 historyVars>>

\* A line was read: the connection calls the MessageChannel, which parses it
\* and calls messageHandler_, and the next read starts.  The completion may
\* have been queued before the socket was closed; the channel is gone when
\* clients_ no longer holds it.
HandleRead(c) ==
  /\ IoReady /\ tcp[c].reading /\ peer[c] = "here"
  /\ requests[c] < MaxRequests
  /\ requests' = [requests EXCEPT ![c] = @ + 1]
  /\ dangling' = IF c \in clients THEN dangling ELSE dangling \cup {c}
  /\ UNCHANGED <<acceptVars, tcp, tableVars, io, stopVars, peer, frames, sendVars, managed,
                 closedBy>>

HandlePosted(c) ==
  /\ IoReady /\ tcp[c].posted # << >>
  /\ tcp' = [tcp EXCEPT ![c] = RunPosted(@)]
  /\ UNCHANGED <<acceptVars, tableVars, io, stopVars, peerVars, sendVars, historyVars>>

HandleWrite(c) ==
  /\ IoReady /\ tcp[c].writing /\ tcp[c].open /\ peer[c] = "here"
  /\ \E f \in do_write(Head(tcp[c].queue)) : frames' = [frames EXCEPT ![c] = Append(@, f)]
  /\ tcp' = [tcp EXCEPT ![c] = WriteCompleted(@)]
  /\ UNCHANGED <<acceptVars, tableVars, io, stopVars, peer, requests, sendVars, historyVars>>

\* A read or a write ends with an error, and close() tests connected_.  A
\* read that the close of the socket aborted is ignored: connected_ is FALSE
\* then, or about to be reset.
HandleError(c, op) ==
  /\ IoReady
  /\ peer[c] = "closed" \/ ~tcp[c].open
  /\ tcp[c][op]
  /\ tcp' = [tcp EXCEPT ![c] = IF op = "reading" THEN ReadFailed(@) ELSE WriteFailed(@)]
  /\ io' = IF tcp[c].connected THEN <<"closing", c>> ELSE io
  /\ closedBy' = IF tcp[c].connected /\ closedBy[c] = "nobody"
                 THEN [closedBy EXCEPT ![c] = op] ELSE closedBy
  /\ UNCHANGED <<acceptVars, tableVars, stopVars, peerVars, sendVars, managed, dangling>>

IoClose(c) ==
  /\ io = <<"closing", c>>
  /\ tcp' = [tcp EXCEPT ![c] = CloseSocket(@)]
  /\ io' = <<closeHandler[c], c>>
  /\ UNCHANGED <<acceptVars, tableVars, stopVars, peerVars, sendVars, historyVars>>

\* The close handlers: TcpServer::remove_connection, and the manager's.
remove_connection(c) ==
  /\ io = <<"server", c>> /\ ~HoldsConnectionsMutex
  /\ active' = active \ {c} /\ io' = At("idle")
  /\ UNCHANGED <<acceptVars, tcp, closeHandler, clients, stopVars, peerVars, sendVars,
                 historyVars>>

IoRemoveClient(c) ==
  /\ io = <<"manager", c>>
  /\ clients' = clients \ {c} /\ io' = At("idle")
  /\ UNCHANGED <<acceptVars, tcp, closeHandler, active, stopVars, peerVars, sendVars,
                 historyVars>>

\* run() returns.
IoEnds ==
  /\ io = At("idle") /\ ioStopped
  /\ io' = At("ended")
  /\ UNCHANGED <<acceptVars, tcp, tableVars, stopVars, peerVars, sendVars, historyVars>>

-----------------------------------------------------------------------------
(* stop(): the acceptor is closed, connections_mutex_ locked, and each      *)
(* connection closed with it held.                                          *)

stopServer ==
  /\ stopper = At("up") /\ running
  /\ acceptorOpen' = FALSE
  /\ acceptOp' = IF acceptOp = "pending" THEN "none" ELSE acceptOp
  /\ stopper' = At("lock")
  /\ UNCHANGED <<accepting, tcp, tableVars, io, running, left, ioStopped, peerVars, sendVars,
                 historyVars>>

LockConnections ==
  /\ stopper = At("lock")
  /\ left' = active /\ stopper' = At("loop")
  /\ UNCHANGED <<acceptVars, tcp, tableVars, io, running, ioStopped, peerVars, sendVars,
                 historyVars>>

\* close() of the next connection tests connected_ ...
StopTests(c) ==
  /\ stopper = At("loop") /\ c \in left
  /\ left' = left \ {c}
  /\ stopper' = IF tcp[c].connected THEN <<"closing", c>> ELSE stopper
  /\ closedBy' = IF tcp[c].connected /\ closedBy[c] = "nobody"
                 THEN [closedBy EXCEPT ![c] = "stop"] ELSE closedBy
  /\ UNCHANGED <<acceptVars, tcp, tableVars, io, running, ioStopped, peerVars, sendVars,
                 managed, dangling>>

\* ... and closes.  The handler it then calls is the one set by now; the
\* server's own locks connections_mutex_ again and never returns.
StopCloses(c) ==
  /\ stopper = <<"closing", c>>
  /\ tcp' = [tcp EXCEPT ![c] = CloseSocket(@)]
  /\ stopper' = <<closeHandler[c], c>>
  /\ UNCHANGED <<acceptVars, tableVars, io, running, left, ioStopped, peerVars, sendVars,
                 historyVars>>

StopRemovesClient(c) ==
  /\ stopper = <<"manager", c>>
  /\ clients' = clients \ {c} /\ stopper' = At("loop")
  /\ UNCHANGED <<acceptVars, tcp, closeHandler, active, io, running, left, ioStopped,
                 peerVars, sendVars, historyVars>>

StopClears ==
  /\ stopper = At("loop") /\ left = {}
  /\ active' = {} /\ accepting' = FALSE /\ stopper' = At("context")
  /\ UNCHANGED <<acceptOp, acceptorOpen, tcp, closeHandler, clients, io, running, left,
                 ioStopped, peerVars, sendVars, historyVars>>

StopContext ==
  /\ stopper = At("context")
  /\ ioStopped' = TRUE /\ stopper' = At("join")
  /\ UNCHANGED <<acceptVars, tcp, tableVars, io, running, left, peerVars, sendVars,
                 historyVars>>

StopJoins ==
  /\ stopper = At("join") /\ io = At("ended")
  /\ clients' = {} /\ running' = FALSE /\ stopper' = At("done")
  /\ UNCHANGED <<acceptVars, tcp, closeHandler, active, io, left, ioStopped, peerVars,
                 sendVars, historyVars>>

-----------------------------------------------------------------------------
(* Threads that send, with clientsMutex_ held.  A channel passes a message  *)
(* on to a connection that is_connected() and drops it otherwise.           *)

SendTo(targets) ==
  LET live == {c \in targets : is_connected(tcp[c])}
      m == sent + 1
  IN /\ sent < MaxSends /\ sent' = m
     /\ tcp' = [c \in Client |-> IF c \in live THEN write(tcp[c], m) ELSE tcp[c]]
     /\ accepted' = [c \in Client |-> IF c \in live THEN Append(accepted[c], m) ELSE accepted[c]]
     /\ UNCHANGED <<acceptVars, tableVars, io, stopVars, peerVars, historyVars>>

sendMessage(c) == c \in clients /\ SendTo({c})

broadcastMessage == clients # {} /\ SendTo(clients)

-----------------------------------------------------------------------------
(* The clients: they connect once the server listens, and leave.            *)

PeerConnects(c) ==
  /\ peer[c] = "away" /\ acceptorOpen
  /\ peer' = [peer EXCEPT ![c] = "backlog"]
  /\ UNCHANGED <<acceptVars, tcp, tableVars, io, stopVars, requests, frames, sendVars,
                 historyVars>>

PeerLeaves(c) ==
  /\ peer[c] = "here"
  /\ peer' = [peer EXCEPT ![c] = "closed"]
  /\ UNCHANGED <<acceptVars, tcp, tableVars, io, stopVars, requests, frames, sendVars,
                 historyVars>>

-----------------------------------------------------------------------------

Handler(c) ==
  \/ HandleAccept(c) \/ HandleRead(c) \/ HandlePosted(c) \/ HandleWrite(c)
  \/ \E op \in {"reading", "writing"} : HandleError(c, op)

IoContinues ==
  \/ \E c \in Client :
       \/ InsertActive(c) \/ handleNewConnection(c) \/ SetCloseHandler(c)
       \/ IoClose(c) \/ remove_connection(c) \/ IoRemoveClient(c)
  \/ IoEnds

StopContinues ==
  \/ LockConnections \/ StopClears \/ StopContext \/ StopJoins
  \/ \E c \in Client : StopTests(c) \/ StopCloses(c) \/ StopRemovesClient(c)

IoNext == IoContinues \/ HandleAcceptError \/ \E c \in Client : Handler(c)

ServerNext ==
  \/ startServer \/ stopServer \/ broadcastMessage \/ IoNext \/ StopContinues
  \/ \E c \in Client : AcceptCompletes(c) \/ sendMessage(c) \/ PeerConnects(c) \/ PeerLeaves(c)

ServerSpec == ServerInit /\ [][ServerNext]_serverVars

\* The io thread and the stopping thread go on while they can.
ServerFairness == WF_serverVars(IoNext) /\ WF_serverVars(StopContinues)

-----------------------------------------------------------------------------
(* The frames that reach a client undamaged are the messages sent to it, in *)
(* the order of the sends: the i-th frame is the i-th message write() was   *)
(* called with, or was damaged on the way.  None is repeated, none missing. *)
ServerDeliveredInOrder ==
  \A c \in Client :
    /\ \A i, j \in 1..Len(accepted[c]) : i < j => accepted[c][i] < accepted[c][j]
    /\ Len(frames[c]) <= Len(accepted[c])
    /\ \A i \in 1..Len(frames[c]) : ComesThrough(frames[c], i) => frames[c][i] = accepted[c][i]

(* Whenever the io thread is between handlers and no stop() is in progress, *)
(* clients_ holds exactly the connections that are connected: the manager's *)
(* close handler is called on every path, also when both a read and a write *)
(* fail.  active_connections_ keeps closed ones, because the manager        *)
(* replaced the handler that removes them.                                  *)
ClientsAreConnected ==
  io = At("idle") /\ stopper = At("up") =>
    IF managed THEN /\ clients = {c \in Client : tcp[c].connected}
                    /\ clients \subseteq active
               ELSE active = {c \in Client : tcp[c].connected}

(* stop() locks connections_mutex_ twice, and hangs, only for a connection  *)
(* it catches between active_connections_.insert and the set_close_handler  *)
(* of handleNewConnection().                                                *)
StopHangsOnlyDuringAccept ==
  [][\A c \in Client :
       StopCloses(c) /\ stopper' = <<"server", c>> => io \in {"inserted", "registered"} \X {c}]_serverVars

(* A read whose MessageChannel is gone is handled only when another closer  *)
(* than the read itself closed the connection: a failed write or stop().    *)
FreedChannelOnlyAfterRace ==
  managed => \A c \in dangling : closedBy[c] \in {"writing", "stop"}

(* stop() returns, or hangs on connections_mutex_.                          *)
StopReturnsOrHangs ==
  stopper = At("lock") ~> stopper[1] \in {"done", "server"}

(* No message write() accepted waits for ever: it reaches the socket, or    *)
(* the connection or the io_context is closed.                              *)
AcceptedIsSent ==
  \A c \in Client :
    []<>(Len(frames[c]) = Len(accepted[c]) \/ ~tcp[c].open \/ ioStopped \/ stopper[1] = "server")

(* What the server manager keeps of its connections is true of them: they   *)
(* deliver in order, those listed are connected, and a channel is used      *)
(* after it was freed only when a failed write or stop() closed the         *)
(* connection.                                                              *)
ConnectionsKept ==
  ServerTypeOK /\ ServerDeliveredInOrder /\ ClientsAreConnected /\ FreedChannelOnlyAfterRace

(* stop() returns, unless it meets an accept, and what write() accepted is  *)
(* written while the connection lives.                                      *)
TcpProgress == StopHangsOnlyDuringAccept /\ StopReturnsOrHangs /\ AcceptedIsSent
=============================================================================
