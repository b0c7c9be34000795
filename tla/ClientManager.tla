---------------------------- MODULE ClientManager ----------------------------
(***************************************************************************)
(* client::ClientManager (include/client/network/client_manager.h) with    *)
(* network::TcpClient, its TcpConnection and its MessageChannel.           *)
(*                                                                         *)
(* Threads: the caller of connect() and disconnect(); a thread that calls  *)
(* sendMessage(); one that registers the status callback; and the io       *)
(* thread.  sendMessage() tests connected_ in one step and acts on it in   *)
(* another.  The manager sets no close handler: connected_ stays TRUE when *)
(* the server closes the connection.                                       *)
(***************************************************************************)
EXTENDS TcpConnection, SequencesExt

CONSTANTS
  MaxMessages,  \* bound: calls of sendMessage()
  MaxConnects   \* bound: calls of connect() that open a connection

ASSUME ClientBoundsAssumption == MaxMessages \in Nat /\ MaxConnects \in Nat
ASSUME DamageAssumption == {Garbled, Joined} \cap 1..MaxMessages = {}

VARIABLES
  connected,    \* connected_
  channel,      \* whether channel_ is set
  link,         \* the TcpConnection
  lookup,       \* what TcpClient waits for: "none", "resolve", "connect"
  contextStopped, \* io_context_->stop() was called
  ioThread,     \* io_thread_: "none", "running", or "finished" and not joined
  onConnect,    \* where the connection handler is: "no", "notify", "flush"
  pending,      \* pendingMessages_
  caller,       \* "idle", "waiting" (2 s, in connect()), "stopping", "joining"
  sender,       \* "idle", or what sendMessage() decided and its message
  watcher,      \* setConnectionStatusCallback(): "unset", "set", or the value it read
  status,       \* the value connectionStatusCallback_ was last called with
  serverOpen,   \* whether the server keeps its end of the connection open
  wire,         \* frames that reached the server
  messages,     \* calls of sendMessage() so far; the messages are numbered
  connects,     \* calls of connect() that opened a connection so far
  aborted,      \* std::terminate was called
  established,  \* whether the current io thread ever connected: history
  queued,       \* messages that went through pendingMessages_: history
  late,         \* those of them pushed when connected_ was TRUE: history
  crossed       \* connected_ changed within setConnectionStatusCallback(): history

socketVars == <<link, serverOpen, wire>>
threadVars == <<lookup, contextStopped, ioThread, onConnect>>
callVars == <<caller, connects, aborted, established>>
sendingVars == <<pending, sender, messages, queued, late>>
statusVars == <<watcher, status, crossed>>
clientVars == <<connected, channel, socketVars, threadVars, callVars, sendingVars, statusVars>>

Message == 1..MaxMessages

(* The types of the variables.                                              *)
ClientTypeOK ==
  /\ {connected, channel, contextStopped, serverOpen, aborted, established, crossed} \subseteq BOOLEAN
  /\ link \in ConnectionType(Message)
  /\ lookup \in {"none", "resolve", "connect"}
  /\ ioThread \in {"none", "running", "finished"}
  /\ onConnect \in {"no", "notify", "flush"}
  /\ pending \in Seq(Message) /\ wire \in Seq(Message \cup {Garbled, Joined})
  /\ caller \in {"idle", "waiting", "stopping", "joining"}
  /\ sender \in {<<"idle", 0>>} \cup ({"queue", "send"} \X Message)
  /\ watcher \in {"unset", "set", "true", "false"}
  /\ status \in {"none", "true", "false"}
  /\ messages \in 0..MaxMessages /\ connects \in 0..MaxConnects
  /\ queued \subseteq Message /\ late \subseteq Message

ClientInit ==
  /\ connected = FALSE /\ channel = FALSE /\ link = NewConnection
  /\ lookup = "none" /\ contextStopped = FALSE /\ ioThread = "none" /\ onConnect = "no"
  /\ pending = << >> /\ caller = "idle" /\ sender = <<"idle", 0>>
  /\ watcher = "unset" /\ status = "none" /\ serverOpen = FALSE /\ wire = << >>
  /\ messages = 0 /\ connects = 0 /\ aborted = FALSE /\ established = FALSE
  /\ queued = {} /\ late = {} /\ crossed = FALSE

AsText(b) == IF b THEN "true" ELSE "false"
\* What a call of connectionStatusCallback_ does to status.
Notify(b) == IF watcher = "unset" THEN status ELSE AsText(b)
\* connected_ changes: crossed records whether a registration was under way.
SetConnected(b) ==
  /\ connected' = b
  /\ crossed' = (crossed \/ watcher \in {"true", "false"})

-----------------------------------------------------------------------------
(* connect().  io_thread_ is assigned without being joined: a thread that   *)
(* was started before, even one that has finished, ends the program.        *)

connect ==
  /\ caller = "idle" /\ ~connected /\ connects < MaxConnects
  /\ connects' = connects + 1
  /\ IF ioThread # "none"
     THEN aborted' = TRUE /\ UNCHANGED <<threadVars, caller, established>>
     ELSE /\ lookup' = "resolve" /\ contextStopped' = FALSE /\ ioThread' = "running"
          /\ caller' = "waiting" /\ established' = FALSE
          /\ UNCHANGED <<onConnect, aborted>>
  /\ UNCHANGED <<connected, channel, socketVars, sendingVars, statusVars>>

\* Two seconds are over; connect() returns connected_.
connectReturns ==
  /\ caller = "waiting" /\ caller' = "idle"
  /\ UNCHANGED <<connected, channel, socketVars, threadVars, connects, aborted, established,
                 sendingVars, statusVars>>

-----------------------------------------------------------------------------
(* disconnect().                                                            *)

\* Mutant of disconnect: the io thread is joined before anything is closed.
disconnect_JoinsFirst ==
  /\ caller = "idle" /\ connected
  /\ channel' = FALSE /\ caller' = "joining"
  /\ UNCHANGED <<connected, socketVars, threadVars, connects, aborted, established,
                 sendingVars, statusVars>>

disconnect ==
  /\ caller = "idle" /\ connected
  /\ link' = IF channel /\ link.connected THEN CloseSocket(link) ELSE link
  /\ channel' = FALSE /\ caller' = "stopping"
  /\ UNCHANGED <<connected, serverOpen, wire, threadVars, connects, aborted, established,
                 sendingVars, statusVars>>

StopContextOfClient ==
  /\ caller = "stopping"
  /\ contextStopped' = TRUE /\ caller' = "joining"
  /\ UNCHANGED <<connected, channel, socketVars, lookup, ioThread, onConnect, connects,
                 aborted, established, sendingVars, statusVars>>

JoinIoThread ==
  /\ caller = "joining" /\ ioThread = "finished"
  /\ ioThread' = "none" /\ lookup' = "none" /\ caller' = "idle"
  /\ SetConnected(FALSE) /\ status' = Notify(FALSE)
  /\ UNCHANGED <<channel, socketVars, contextStopped, onConnect, connects, aborted,
                 established, sendingVars, watcher>>

-----------------------------------------------------------------------------
(* The io thread: the lookups of TcpClient, its connection handler, and the *)
(* handlers of the connection.                                              *)

IoFree == ioThread = "running" /\ ~contextStopped /\ onConnect = "no"

\* The error handler.  connected_ is never TRUE here.
LookupFails ==
  /\ IoFree /\ lookup # "none"
  /\ lookup' = "none"
  /\ IF connected THEN SetConnected(FALSE) /\ status' = Notify(FALSE)
                  ELSE UNCHANGED <<connected, status, crossed>>
  /\ UNCHANGED <<channel, socketVars, contextStopped, ioThread, onConnect, callVars,
                 sendingVars, watcher>>

connect_to_endpoints ==
  /\ IoFree /\ lookup = "resolve" /\ lookup' = "connect"
  /\ UNCHANGED <<connected, channel, socketVars, contextStopped, ioThread, onConnect,
                 callVars, sendingVars, statusVars>>

\* The connection is created and started, and the connection handler runs up
\* to the callback.
Connected ==
  /\ IoFree /\ lookup = "connect"
  /\ lookup' = "none" /\ link' = start(NewConnection) /\ serverOpen' = TRUE
  /\ channel' = TRUE /\ SetConnected(TRUE) /\ established' = TRUE
  /\ onConnect' = "notify"
  /\ UNCHANGED <<wire, contextStopped, ioThread, caller, connects, aborted, sendingVars,
                 watcher, status>>

NotifyConnected ==
  /\ onConnect = "notify"
  /\ status' = Notify(TRUE) /\ onConnect' = "flush"
  /\ UNCHANGED <<connected, channel, socketVars, lookup, contextStopped, ioThread, callVars,
                 sendingVars, watcher, crossed>>

\* Mutant of sendPendingMessages: a message is sent and not popped.
sendPendingMessages_KeepsLast ==
  /\ onConnect = "flush" /\ onConnect' = "no"
  /\ IF connected /\ channel
     THEN /\ link' = IF is_connected(link)
                     THEN [link EXCEPT !.posted = @ \o pending] ELSE link
          /\ pending' = IF pending = << >> THEN pending ELSE <<Last(pending)>>
     ELSE UNCHANGED <<link, pending>>
  /\ UNCHANGED <<connected, channel, serverOpen, wire, lookup, contextStopped, ioThread,
                 callVars, sender, messages, queued, late, statusVars>>

\* With pendingMessagesMutex_ held; a closed connection drops what it is given.
sendPendingMessages ==
  /\ onConnect = "flush" /\ onConnect' = "no"
  /\ IF connected /\ channel
     THEN /\ link' = IF is_connected(link)
                     THEN [link EXCEPT !.posted = @ \o pending] ELSE link
          /\ pending' = << >>
     ELSE UNCHANGED <<link, pending>>
  /\ UNCHANGED <<connected, channel, serverOpen, wire, lookup, contextStopped, ioThread,
                 callVars, sender, messages, queued, late, statusVars>>

ClientHandlesPosted ==
  /\ IoFree /\ link.posted # << >>
  /\ link' = RunPosted(link)
  /\ UNCHANGED <<connected, channel, serverOpen, wire, threadVars, callVars, sendingVars,
                 statusVars>>

ClientHandlesWrite ==
  /\ IoFree /\ link.writing /\ link.open /\ serverOpen
  /\ \E f \in do_write(Head(link.queue)) : wire' = Append(wire, f)
  /\ link' = WriteCompleted(link)
  /\ UNCHANGED <<connected, channel, serverOpen, threadVars, callVars, sendingVars, statusVars>>

\* A read or a write fails; close() closes the socket once.
ClientHandlesError ==
  /\ IoFree /\ (~serverOpen \/ ~link.open)
  /\ \E failed \in {ReadFailed(link), WriteFailed(link)} \ {link} :
       link' = IF link.connected THEN CloseSocket(failed) ELSE failed
  /\ UNCHANGED <<connected, channel, serverOpen, wire, threadVars, callVars, sendingVars,
                 statusVars>>

\* run() returns when the context is stopped or has no work left.
IoThreadFinishes ==
  /\ ioThread = "running" /\ onConnect = "no"
  /\ \/ contextStopped
     \/ lookup = "none" /\ ~link.reading /\ ~link.writing /\ link.posted = << >>
  /\ ioThread' = "finished"
  /\ UNCHANGED <<connected, channel, socketVars, lookup, contextStopped, onConnect, callVars,
                 sendingVars, statusVars>>

-----------------------------------------------------------------------------
(* sendMessage() and setConnectionStatusCallback(), each in two steps.      *)

sendMessageTests ==
  /\ sender[1] = "idle" /\ messages < MaxMessages
  /\ messages' = messages + 1
  /\ sender' = <<IF connected THEN "send" ELSE "queue", messages + 1>>
  /\ UNCHANGED <<connected, channel, socketVars, threadVars, callVars, pending, queued, late,
                 statusVars>>

sendMessageQueues ==
  /\ sender[1] = "queue"
  /\ pending' = Append(pending, sender[2])
  /\ queued' = queued \cup {sender[2]}
  /\ late' = IF connected THEN late \cup {sender[2]} ELSE late
  /\ sender' = <<"idle", 0>>
  /\ UNCHANGED <<connected, channel, socketVars, threadVars, callVars, messages, statusVars>>

\* Without a channel, or with a closed connection, the message is lost.
sendMessageSends ==
  /\ sender[1] = "send"
  /\ link' = IF channel /\ is_connected(link) THEN write(link, sender[2]) ELSE link
  /\ sender' = <<"idle", 0>>
  /\ UNCHANGED <<connected, channel, serverOpen, wire, threadVars, callVars, pending, messages,
                 queued, late, statusVars>>

RegisterReads ==
  /\ watcher = "unset"
  /\ watcher' = AsText(connected)
  /\ UNCHANGED <<connected, channel, socketVars, threadVars, callVars, sendingVars, status,
                 crossed>>

RegisterCalls ==
  /\ watcher \in {"true", "false"}
  /\ status' = watcher /\ watcher' = "set"
  /\ UNCHANGED <<connected, channel, socketVars, threadVars, callVars, sendingVars, crossed>>

\* The server closes its end.
ServerCloses ==
  /\ serverOpen /\ serverOpen' = FALSE
  /\ UNCHANGED <<connected, channel, link, wire, threadVars, callVars, sendingVars, statusVars>>

-----------------------------------------------------------------------------

ClientIoNext ==
  \/ LookupFails \/ connect_to_endpoints \/ Connected \/ NotifyConnected
  \/ sendPendingMessages \/ ClientHandlesPosted \/ ClientHandlesWrite \/ ClientHandlesError
  \/ IoThreadFinishes

CallerContinues == connectReturns \/ StopContextOfClient \/ JoinIoThread

SenderContinues == sendMessageQueues \/ sendMessageSends

ClientNext ==
  /\ ~aborted
  /\ \/ connect \/ disconnect \/ CallerContinues \/ ClientIoNext
     \/ sendMessageTests \/ SenderContinues \/ RegisterReads \/ RegisterCalls \/ ServerCloses

ClientSpec == ClientInit /\ [][ClientNext]_clientVars

\* Threads that have work go on.
ClientFairness ==
  /\ WF_clientVars(ClientNext /\ ClientIoNext) /\ WF_clientVars(ClientNext /\ CallerContinues)
  /\ WF_clientVars(ClientNext /\ SenderContinues)

-----------------------------------------------------------------------------
(* No message is sent twice, and none that was sent is still pending: a     *)
(* message leaves pendingMessages_ in the step that hands it to the channel.*)
SentAtMostOnce ==
  LET out == wire \o link.queue \o link.posted
  IN /\ \A i, j \in 1..Len(out) : out[i] = out[j] /\ out[i] \in Message => i = j
     /\ ToSet(pending) \cap (ToSet(wire) \cup ToSet(link.queue) \cup ToSet(link.posted)) = {}

(* Messages of one sender reach the server out of order only when the one   *)
(* that is overtaken waited in pendingMessages_: connected_ is set before   *)
(* sendPendingMessages() runs.                                              *)
OvertakenOnlyIfQueued ==
  \A i, j \in 1..Len(wire) :
    /\ i < j /\ ComesThrough(wire, i) /\ ComesThrough(wire, j)
    /\ wire[j] < wire[i]
    => wire[j] \in queued

(* A message is stranded in pendingMessages_ of a connected client only if  *)
(* sendMessage() saw connected_ = FALSE and pushed after it had been set.   *)
StrandedOnlyByRace ==
  connected /\ channel /\ onConnect = "no" => ToSet(pending) \subseteq late

(* When no thread is on its way, the status last reported is connected_,    *)
(* unless connected_ changed while setConnectionStatusCallback() ran.       *)
StatusIsCurrent ==
  caller = "idle" /\ onConnect = "no" /\ watcher = "set" /\ ~crossed =>
    status = AsText(connected)

(* The program ends in connect() only when the attempt before it never      *)
(* succeeded: a client that was connected can disconnect and connect again. *)
AbortsOnlyAfterFailedAttempt == aborted => ~established

(* disconnect() returns.                                                    *)
DisconnectReturns == caller \in {"stopping", "joining"} ~> caller = "idle"

(* A client manager keeps what it is given: no message twice, none overtaken *)
(* or stranded but by the races named, and a status that is that of the     *)
(* connection.                                                              *)
MessagesKept ==
  /\ ClientTypeOK /\ SentAtMostOnce /\ OvertakenOnlyIfQueued /\ StrandedOnlyByRace
  /\ StatusIsCurrent /\ AbortsOnlyAfterFailedAttempt
=============================================================================
