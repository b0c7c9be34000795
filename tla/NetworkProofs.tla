----------------------------- MODULE NetworkProofs -----------------------------
(***************************************************************************)
(* Both ends of the TCP layer, for any set of clients and any number of    *)
(* messages, and the document the client edits.  Of the server: what       *)
(* ServerManager::clients_ and active_connections_ hold, the order in      *)
(* which messages are delivered, when a MessageChannel is used after its   *)
(* end, and when stop() hangs.  Of the client: which messages              *)
(* ClientManager loses, repeats or reorders, and what its Document keeps   *)
(* of its history and tells with its version.                              *)
(*                                                                         *)
(* The server rests on where a connection is between its accept and its    *)
(* close handler.  A connection's close handler is the TcpServer's own     *)
(* only while the io thread is inside the accept handler for it (Handed);  *)
(* one that no accept handler has seen is in no table (Untouched); a close *)
(* handler runs only for a connection somebody has closed (Closed); and    *)
(* while no stop() is in progress each table differs from the set of       *)
(* connected ones by the connection the io thread is working on (Tables).  *)
(*                                                                         *)
(* The messages of both ends rest on their line: what was delivered, then  *)
(* what is queued, then what is posted, and for the client what is         *)
(* pending, is in the order of the calls (Delivery, Line).                 *)
(***************************************************************************)
EXTENDS ServerManager, ClientManager, EditorDocument, SequenceTheorems, TLAPS

Accepting == {"started", "inserted", "registered"}
Shutting == {"closing", "server", "manager"}
\* The io thread, or the stopping thread, is at one of these places with c.
IoIn(places, c) == io[1] \in places /\ io[2] = c
StopIn(places, c) == stopper[1] \in places /\ stopper[2] = c
NotStopping == stopper[1] \in {"new", "up"}

\* A write in progress has a message.
Writes == \A c \in Client : tcp[c].writing => tcp[c].queue # << >>

\* Only a server with a manager is stopped.
OnlyManagedStops ==
  /\ running => managed
  /\ ~NotStopping => managed
  /\ NotStopping => ~ioStopped
  /\ stopper[1] \in {"join", "done"} => ioStopped

\* A connection that no accept handler has seen.
Untouched ==
  \A c \in Client :
    /\ peer[c] \in {"away", "backlog"} => closeHandler[c] = "none" /\ acceptOp # c
    /\ acceptOp = c => closeHandler[c] = "none"
    /\ closeHandler[c] = "none" =>
         /\ ~tcp[c].connected /\ ~tcp[c].reading /\ c \notin active /\ c \notin clients
         /\ closedBy[c] = "nobody" /\ io[2] # c

\* The close handler through the accept handler.
Handed ==
  \A c \in Client :
    /\ IoIn(Accepting, c) => closeHandler[c] = "server"
    /\ managed /\ closeHandler[c] = "server" => IoIn(Accepting, c)
    /\ ~managed => closeHandler[c] # "manager" /\ ~IoIn({"inserted", "registered", "manager"}, c)
    /\ IoIn({"started"}, c) => c \notin active
    /\ IoIn({"started", "inserted"}, c) => c \notin clients

\* What stop() works through, with connections_mutex_ held, is active.
Held ==
  /\ HoldsConnectionsMutex => left \subseteq active
  /\ \A c \in Client : StopIn(Shutting, c) => c \in active

\* Who closed a connection, and what became of its reads.
Closed ==
  \A c \in Client :
    /\ IoIn(Shutting, c) \/ StopIn(Shutting, c) => closedBy[c] # "nobody"
    /\ closedBy[c] = "reading" => ~tcp[c].reading
    /\ managed /\ tcp[c].reading /\ c \notin clients =>
         closedBy[c] \in {"writing", "stop"} \/ IoIn({"started", "inserted"}, c) \/ ioStopped

\* The tables while no stop() is in progress.
Tables ==
  NotStopping => \A c \in Client :
    /\ IoIn(Accepting \cup {"closing"}, c) => tcp[c].connected
    /\ IoIn({"server", "manager"}, c) => ~tcp[c].connected
    /\ managed =>
         /\ c \in clients <=> \/ tcp[c].connected /\ ~IoIn({"started", "inserted"}, c)
                              \/ IoIn({"manager"}, c)
         /\ c \in clients => c \in active
         /\ IoIn({"inserted"}, c) => c \in active
    /\ ~managed => (c \in active <=> \/ tcp[c].connected /\ ~IoIn({"started"}, c)
                                     \/ IoIn({"server"}, c))

ManagerCore == OnlyManagedStops /\ Untouched /\ Handed /\ Held /\ Closed /\ Tables
               /\ FreedChannelOnlyAfterRace

-----------------------------------------------------------------------------
(* The operations on a connection keep its type, whatever the messages M.   *)

Sane(t) == t.writing => t.queue # << >>

LEMMA SequenceParts ==
  ASSUME NEW S, NEW s \in Seq(S)
  PROVE  /\ s # << >> => Head(s) \in S /\ Tail(s) \in Seq(S)
         /\ \A e \in S : Append(s, e) \in Seq(S) /\ Append(s, e) # << >>
BY HeadTailProperties, AppendProperties

LEMMA NewIsSane ==
  ASSUME NEW M
  PROVE  /\ NewConnection \in ConnectionType(M) /\ Sane(NewConnection)
         /\ NewConnection.queue = << >> /\ NewConnection.posted = << >>
         /\ ~NewConnection.connected /\ ~NewConnection.reading
BY DEF NewConnection, ConnectionType, Sane

LEMMA StartKeeps ==
  ASSUME NEW M, NEW t \in ConnectionType(M), Sane(t), NEW r, r = start(t)
  PROVE  /\ r \in ConnectionType(M) /\ Sane(r) /\ r.connected /\ r.reading
         /\ r.queue = t.queue /\ r.posted = t.posted
BY DEF start, ConnectionType, Sane

LEMMA CloseKeeps ==
  ASSUME NEW M, NEW t \in ConnectionType(M), Sane(t), NEW r, r = CloseSocket(t)
  PROVE  /\ r \in ConnectionType(M) /\ Sane(r) /\ ~r.connected /\ (r.reading <=> t.reading)
         /\ r.queue = t.queue /\ r.posted = t.posted
BY DEF CloseSocket, ConnectionType, Sane

LEMMA FailKeeps ==
  ASSUME NEW M, NEW t \in ConnectionType(M), Sane(t)
  PROVE  /\ ReadFailed(t) \in ConnectionType(M) /\ Sane(ReadFailed(t)) /\ ~ReadFailed(t).reading
         /\ ReadFailed(t).connected <=> t.connected
         /\ ReadFailed(t).queue = t.queue /\ ReadFailed(t).posted = t.posted
         /\ WriteFailed(t) \in ConnectionType(M) /\ Sane(WriteFailed(t))
         /\ WriteFailed(t).reading <=> t.reading
         /\ WriteFailed(t).connected <=> t.connected
         /\ WriteFailed(t).queue = t.queue /\ WriteFailed(t).posted = t.posted
BY DEF ReadFailed, WriteFailed, ConnectionType, Sane

LEMMA WriteKeeps ==
  ASSUME NEW M, NEW t \in ConnectionType(M), Sane(t), NEW m \in M, NEW r, r = write(t, m)
  PROVE  /\ r \in ConnectionType(M) /\ Sane(r)
         /\ (r.connected <=> t.connected) /\ (r.reading <=> t.reading)
         /\ r.queue = t.queue /\ r.posted = Append(t.posted, m)
<1>1. t.posted \in Seq(M)
  BY DEF ConnectionType
<1>2. PICK p \in Seq(M) : p = Append(t.posted, m)
  BY <1>1, SequenceParts
<1>3. r = [t EXCEPT !.posted = p]
  BY <1>2 DEF write
<1>4. /\ r \in ConnectionType(M) /\ Sane(r) /\ r.queue = t.queue /\ r.posted = p
      /\ (r.connected <=> t.connected) /\ (r.reading <=> t.reading)
  BY <1>3 DEF ConnectionType, Sane
<1> QED
  BY <1>2, <1>4

LEMMA PostedKeeps ==
  ASSUME NEW M, NEW t \in ConnectionType(M), Sane(t), t.posted # << >>, NEW r, r = RunPosted(t)
  PROVE  /\ r \in ConnectionType(M) /\ Sane(r)
         /\ (r.connected <=> t.connected) /\ (r.reading <=> t.reading)
         /\ r.queue = Append(t.queue, Head(t.posted)) /\ r.posted = Tail(t.posted)
<1>0. t.posted \in Seq(M) /\ t.queue \in Seq(M)
  BY DEF ConnectionType
<1>1. PICK p \in Seq(M) : p = Tail(t.posted)
  BY <1>0, SequenceParts
<1>2. PICK q \in Seq(M) : q = Append(t.queue, Head(t.posted)) /\ q # << >>
  BY <1>0, SequenceParts
<1>3. PICK w \in BOOLEAN : w = (t.writing \/ t.queue = << >>)
  OBVIOUS
<1>4. r = [t EXCEPT !.posted = p, !.queue = q, !.writing = w]
  BY <1>1, <1>2, <1>3 DEF RunPosted
<1>5. /\ r \in ConnectionType(M) /\ Sane(r) /\ r.queue = q /\ r.posted = p
      /\ (r.connected <=> t.connected) /\ (r.reading <=> t.reading)
  BY <1>2, <1>4 DEF ConnectionType, Sane
<1> QED
  BY <1>1, <1>2, <1>5

LEMMA CompletedKeeps ==
  ASSUME NEW M, NEW t \in ConnectionType(M), Sane(t), t.writing, NEW r, r = WriteCompleted(t)
  PROVE  /\ r \in ConnectionType(M) /\ Sane(r)
         /\ (r.connected <=> t.connected) /\ (r.reading <=> t.reading)
         /\ r.queue = Tail(t.queue) /\ r.posted = t.posted
<1>0. t.queue \in Seq(M) /\ t.queue # << >>
  BY DEF ConnectionType, Sane
<1>1. PICK q \in Seq(M) : q = Tail(t.queue)
  BY <1>0, SequenceParts
<1>2. PICK w \in BOOLEAN : w = (q # << >>)
  OBVIOUS
<1>3. r = [t EXCEPT !.queue = q, !.writing = w]
  BY <1>1, <1>2 DEF WriteCompleted
<1>4. /\ r \in ConnectionType(M) /\ Sane(r) /\ r.queue = q /\ r.posted = t.posted
      /\ (r.connected <=> t.connected) /\ (r.reading <=> t.reading)
  BY <1>2, <1>3 DEF ConnectionType, Sane
<1> QED
  BY <1>1, <1>4

-----------------------------------------------------------------------------
(* The types, variable by variable.                                         *)
Msg == 1..MaxSends
Connection == ConnectionType(Msg)
IoPlace == {At("idle"), At("ended")} \cup ((Accepting \cup Shutting) \X Client)
StopPlace ==
  {At("new"), At("up"), At("lock"), At("loop"), At("context"), At("join"), At("done")}
    \cup (Shutting \X Client)

ControlTypes ==
  /\ managed \in BOOLEAN /\ running \in BOOLEAN /\ accepting \in BOOLEAN
  /\ acceptorOpen \in BOOLEAN /\ ioStopped \in BOOLEAN
  /\ acceptOp \in {"none", "pending", "failed"} \cup Client
  /\ closeHandler \in [Client -> {"none", "server", "manager"}]
  /\ active \subseteq Client /\ clients \subseteq Client
  /\ left \subseteq Client /\ dangling \subseteq Client
  /\ io \in IoPlace /\ stopper \in StopPlace
  /\ peer \in [Client -> {"away", "backlog", "here", "closed"}]
  /\ closedBy \in [Client -> {"nobody", "reading", "writing", "stop"}]

DataTypes ==
  /\ requests \in [Client -> 0..MaxRequests] /\ sent \in 0..MaxSends
  /\ accepted \in [Client -> Seq(Msg)]
  /\ frames \in [Client -> Seq(Msg \cup {Garbled, Joined})]

TcpTypes ==
  /\ tcp \in [Client -> Connection]
  /\ \A c \in Client : Sane(tcp[c])

LEMMA TypeParts == ServerTypeOK /\ Writes <=> ControlTypes /\ DataTypes /\ TcpTypes
<1>1. {managed, running, accepting, acceptorOpen, ioStopped} \subseteq BOOLEAN
        <=> /\ managed \in BOOLEAN /\ running \in BOOLEAN /\ accepting \in BOOLEAN
            /\ acceptorOpen \in BOOLEAN /\ ioStopped \in BOOLEAN
  BY Zenon
<1>2. UNION {active, clients, left, dangling} \subseteq Client
        <=> /\ active \subseteq Client /\ clients \subseteq Client
            /\ left \subseteq Client /\ dangling \subseteq Client
  BY Zenon
<1>3. /\ Accepting \cup Shutting = {"started", "inserted", "registered", "closing", "server", "manager"}
      /\ Shutting = {"closing", "server", "manager"}
  BY DEF Accepting, Shutting
<1>4. io \in IoPlace <=>
        io \in {At("idle"), At("ended")} \cup
               ({"started", "inserted", "registered", "closing", "server", "manager"} \X Client)
  BY <1>3 DEF IoPlace
<1>5. stopper \in StopPlace <=>
        stopper \in {At("new"), At("up"), At("lock"), At("loop"), At("context"), At("join"), At("done")}
                    \cup ({"closing", "server", "manager"} \X Client)
  BY <1>3 DEF StopPlace
<1>6. TcpTypes <=> tcp \in [Client -> ConnectionType(1..MaxSends)] /\ Writes
  BY Zenon DEF TcpTypes, Writes, Sane, Connection, Msg
<1> QED
  BY <1>1, <1>2, <1>4, <1>5, <1>6, Zenon DEF ServerTypeOK, ControlTypes, DataTypes, Msg

ManagerInv == ControlTypes /\ DataTypes /\ TcpTypes /\ ManagerCore

LEMMA ManagerInitHolds == ServerInit => ManagerInv
<1> SUFFICES ASSUME ServerInit PROVE ManagerInv
  OBVIOUS
<1>1. ControlTypes
  BY DEF ServerInit, ControlTypes, IoPlace, StopPlace
<1>2. DataTypes
  BY SendBoundsAssumption DEF ServerInit, DataTypes
<1>3. TcpTypes
  BY NewIsSane DEF ServerInit, TcpTypes, Connection
<1>4. /\ io[1] = "idle" /\ io[2] = NoClient /\ stopper[1] = "new" /\ stopper[2] = NoClient
      /\ \A c \in Client : tcp[c].connected = FALSE /\ tcp[c].reading = FALSE
  BY DEF ServerInit, At, NewConnection
<1>5. OnlyManagedStops
  BY <1>4 DEF ServerInit, OnlyManagedStops, NotStopping
<1>6. Untouched
  BY <1>4, ClientAssumption DEF ServerInit, Untouched
<1>7. Handed /\ Held /\ Closed
  BY <1>4 DEF ServerInit, Handed, Held, Closed, IoIn, StopIn, HoldsConnectionsMutex, Accepting, Shutting
<1>8. Tables
  BY <1>4 DEF ServerInit, Tables, IoIn, Accepting
<1>9. FreedChannelOnlyAfterRace
  BY DEF ServerInit, FreedChannelOnlyAfterRace
<1> QED
  BY <1>1, <1>2, <1>3, <1>5, <1>6, <1>7, <1>8, <1>9 DEF ManagerInv, ManagerCore

-----------------------------------------------------------------------------
(* A step that leaves the control alone: connections may queue and write,   *)
(* clients come and go.                                                     *)
LEMMA ControlUnchanged ==
  ASSUME ManagerCore,
         UNCHANGED <<managed, running, ioStopped, io, stopper, left, active, clients,
                     closeHandler, closedBy, dangling>>,
         \A c \in Client : /\ tcp'[c].connected <=> tcp[c].connected
                           /\ tcp'[c].reading <=> tcp[c].reading,
         \A c \in Client :
           /\ peer'[c] \in {"away", "backlog"} => closeHandler[c] = "none" /\ acceptOp' # c
           /\ acceptOp' = c => closeHandler[c] = "none"
  PROVE  ManagerCore'
<1>1. OnlyManagedStops'
  BY DEF ManagerCore, OnlyManagedStops, NotStopping
<1>2. Untouched'
  BY DEF ManagerCore, Untouched
<1>3. Handed' /\ Held'
  BY DEF ManagerCore, Handed, Held, IoIn, StopIn, HoldsConnectionsMutex
<1>4. Closed'
  BY DEF ManagerCore, Closed, IoIn, StopIn
<1>5. Tables'
  BY DEF ManagerCore, Tables, IoIn, NotStopping
<1>6. FreedChannelOnlyAfterRace'
  BY DEF ManagerCore, FreedChannelOnlyAfterRace
<1> QED
  BY <1>1, <1>2, <1>3, <1>4, <1>5, <1>6 DEF ManagerCore

(* One connection changes.                                                  *)
LEMMA OneConnection ==
  ASSUME TcpTypes, NEW c \in Client, NEW r \in Connection, Sane(r),
         tcp' = [tcp EXCEPT ![c] = r]
  PROVE  /\ TcpTypes' /\ tcp'[c] = r
         /\ \A d \in Client : d # c => tcp'[d] = tcp[d]
BY DEF TcpTypes

-----------------------------------------------------------------------------
(* The network: clients, and accepts that complete.                         *)
LEMMA PeerSteps ==
  ASSUME ManagerInv, NEW c \in Client,
         AcceptCompletes(c) \/ PeerConnects(c) \/ PeerLeaves(c)
  PROVE  ManagerInv'
<1>1. UNCHANGED <<managed, running, ioStopped, io, stopper, left, active, clients,
                  closeHandler, closedBy, dangling, tcp, accepting, acceptorOpen>>
  BY DEF AcceptCompletes, PeerConnects, PeerLeaves, tableVars, stopVars, historyVars, acceptVars
<1>2. UNCHANGED <<requests, frames, sent, accepted>>
  BY DEF AcceptCompletes, PeerConnects, PeerLeaves, sendVars
<1>3. \A d \in Client :
        /\ peer'[d] \in {"away", "backlog"} => closeHandler[d] = "none" /\ acceptOp' # d
        /\ acceptOp' = d => closeHandler[d] = "none"
  <2>1. CASE AcceptCompletes(c)
    BY <2>1 DEF AcceptCompletes, ManagerInv, ManagerCore, ControlTypes, Untouched
  <2>2. CASE PeerConnects(c)
    BY <2>2 DEF PeerConnects, acceptVars, ManagerInv, ManagerCore, ControlTypes, Untouched
  <2>3. CASE PeerLeaves(c)
    BY <2>3 DEF PeerLeaves, acceptVars, ManagerInv, ManagerCore, ControlTypes, Untouched
  <2> QED
    BY <2>1, <2>2, <2>3
<1>4. ManagerCore'
  BY <1>1, <1>3, ControlUnchanged DEF ManagerInv
<1>5. /\ peer' \in [Client -> {"away", "backlog", "here", "closed"}]
      /\ acceptOp' \in {"none", "pending", "failed"} \cup Client
  BY DEF AcceptCompletes, PeerConnects, PeerLeaves, acceptVars, ManagerInv, ControlTypes
<1>6. ControlTypes' /\ DataTypes' /\ TcpTypes'
  BY <1>1, <1>2, <1>5 DEF ManagerInv, ControlTypes, DataTypes, TcpTypes
<1> QED
  BY <1>4, <1>6 DEF ManagerInv

(* A handler that only moves messages of a connection.                      *)
LEMMA MessageSteps ==
  ASSUME ManagerInv, NEW c \in Client, HandlePosted(c) \/ HandleWrite(c)
  PROVE  ManagerInv'
<1>1. UNCHANGED <<managed, running, ioStopped, io, stopper, left, active, clients, closeHandler,
                  closedBy, dangling, accepting, acceptorOpen, acceptOp, peer>>
  BY DEF HandlePosted, HandleWrite, tableVars, stopVars, historyVars, acceptVars, peerVars
<1>2. UNCHANGED <<requests, sent, accepted>>
  BY DEF HandlePosted, HandleWrite, sendVars, peerVars
<1>3. tcp[c] \in Connection /\ Sane(tcp[c]) /\ tcp[c].queue \in Seq(Msg)
  BY DEF ManagerInv, TcpTypes, Connection, ConnectionType
<1>4. PICK r \in Connection :
        /\ tcp' = [tcp EXCEPT ![c] = r] /\ Sane(r)
        /\ r.connected <=> tcp[c].connected
        /\ r.reading <=> tcp[c].reading
  <2>1. CASE HandlePosted(c)
    BY <1>3, <2>1, PostedKeeps DEF HandlePosted, Connection
  <2>2. CASE HandleWrite(c)
    <3>1. tcp[c].writing /\ tcp' = [tcp EXCEPT ![c] = WriteCompleted(tcp[c])]
      BY <2>2 DEF HandleWrite
    <3> QED
      BY <1>3, <3>1, CompletedKeeps DEF Connection
  <2> QED
    BY <2>1, <2>2
<1>5. /\ TcpTypes' /\ tcp'[c] = r /\ \A d \in Client : d # c => tcp'[d] = tcp[d]
  BY <1>4, OneConnection DEF ManagerInv
<1>6. \A d \in Client : /\ tcp'[d].connected <=> tcp[d].connected
                        /\ tcp'[d].reading <=> tcp[d].reading
  BY <1>4, <1>5
<1>7. ManagerCore'
  BY <1>1, <1>6, ControlUnchanged DEF ManagerInv, ManagerCore, Untouched
<1>8. frames' \in [Client -> Seq(Msg \cup {Garbled, Joined})]
  <2>1. CASE HandlePosted(c)
    BY <2>1 DEF HandlePosted, peerVars, ManagerInv, DataTypes
  <2>2. CASE HandleWrite(c)
    <3>1. tcp[c].writing /\ tcp[c].queue # << >>
      BY <1>3, <2>2 DEF HandleWrite, Sane
    <3>2. Head(tcp[c].queue) \in Msg
      BY <1>3, <3>1, SequenceParts
    <3>3. PICK f \in Msg \cup {Garbled, Joined} : frames' = [frames EXCEPT ![c] = Append(@, f)]
      BY <2>2, <3>2 DEF HandleWrite, do_write
    <3>4. frames[c] \in Seq(Msg \cup {Garbled, Joined})
      BY DEF ManagerInv, DataTypes
    <3>5. Append(frames[c], f) \in Seq(Msg \cup {Garbled, Joined})
      BY <3>4, AppendProperties
    <3> QED
      BY <3>3, <3>5 DEF ManagerInv, DataTypes
  <2> QED
    BY <2>1, <2>2
<1>9. ControlTypes' /\ DataTypes'
  BY <1>1, <1>2, <1>8 DEF ManagerInv, ControlTypes, DataTypes
<1> QED
  BY <1>5, <1>7, <1>9 DEF ManagerInv

(* sendMessage() and broadcastMessage().                                    *)
LEMMA SendStep ==
  ASSUME ManagerInv, NEW targets \in SUBSET Client, SendTo(targets)
  PROVE  ManagerInv'
<1>1. UNCHANGED <<managed, running, ioStopped, io, stopper, left, active, clients, closeHandler,
                  closedBy, dangling, accepting, acceptorOpen, acceptOp, peer, requests, frames>>
  BY DEF SendTo, tableVars, stopVars, historyVars, acceptVars, peerVars
<1>2. PICK m \in Msg, live \in SUBSET Client :
        /\ sent' = m
        /\ tcp' = [c \in Client |-> IF c \in live THEN write(tcp[c], m) ELSE tcp[c]]
        /\ accepted' = [c \in Client |-> IF c \in live THEN Append(accepted[c], m) ELSE accepted[c]]
  <2>1. sent + 1 \in Msg
    BY SendBoundsAssumption DEF SendTo, ManagerInv, DataTypes, Msg
  <2>2. {c \in targets : is_connected(tcp[c])} \in SUBSET Client
    OBVIOUS
  <2> QED
    BY <2>1, <2>2 DEF SendTo
<1>3. \A c \in Client : /\ tcp'[c] \in Connection /\ Sane(tcp'[c])
                        /\ tcp'[c].connected <=> tcp[c].connected
                        /\ tcp'[c].reading <=> tcp[c].reading
  <2> SUFFICES ASSUME NEW c \in Client
               PROVE  /\ tcp'[c] \in Connection /\ Sane(tcp'[c])
                      /\ tcp'[c].connected <=> tcp[c].connected
                      /\ tcp'[c].reading <=> tcp[c].reading
    OBVIOUS
  <2>1. tcp[c] \in Connection /\ Sane(tcp[c])
    BY DEF ManagerInv, TcpTypes
  <2>2. CASE c \in live
    <3>1. tcp'[c] = write(tcp[c], m)
      BY <1>2, <2>2
    <3> QED
      BY <2>1, <3>1, WriteKeeps DEF Connection
  <2>3. CASE c \notin live
    BY <1>2, <2>1, <2>3
  <2> QED
    BY <2>2, <2>3
<1>4. TcpTypes'
  BY <1>2, <1>3 DEF TcpTypes
<1>5. accepted' \in [Client -> Seq(Msg)]
  <2>1. \A c \in Client : accepted[c] \in Seq(Msg) /\ Append(accepted[c], m) \in Seq(Msg)
    BY AppendProperties DEF ManagerInv, DataTypes
  <2> QED
    BY <1>2, <2>1
<1>6. ControlTypes' /\ DataTypes'
  BY <1>1, <1>2, <1>5, SendBoundsAssumption DEF ManagerInv, ControlTypes, DataTypes, Msg
<1>7. ManagerCore'
  BY <1>1, <1>3, ControlUnchanged DEF ManagerInv, ManagerCore, Untouched
<1> QED
  BY <1>4, <1>6, <1>7 DEF ManagerInv

-----------------------------------------------------------------------------
(* The io thread.                                                           *)
LEMMA AcceptErrorStep ==
  ASSUME ManagerInv, HandleAcceptError
  PROVE  ManagerInv'
<1>1. UNCHANGED <<managed, running, ioStopped, io, stopper, left, active, clients,
      closeHandler, closedBy, dangling, peer, tcp, accepting, acceptorOpen, requests,
      frames, sent, accepted>>
  BY DEF HandleAcceptError, tableVars, stopVars, historyVars, acceptVars, peerVars, sendVars
<1>2. acceptOp' \in {"none", "pending", "failed"}
  BY DEF HandleAcceptError, AcceptAgain
<1>3. ControlTypes' /\ DataTypes' /\ TcpTypes'
  BY <1>1, <1>2 DEF ManagerInv, ControlTypes, DataTypes, TcpTypes, IoPlace, StopPlace, At,
       Accepting, Shutting
<1>4. OnlyManagedStops'
  BY <1>1, <1>2, ClientAssumption DEF OnlyManagedStops, NotStopping, ManagerInv,
       ManagerCore
<1>5. Untouched'
  BY <1>1, <1>2, ClientAssumption DEF Untouched, ManagerInv, ManagerCore
<1>6. Handed'
  BY <1>1, <1>2, ClientAssumption DEF Handed, IoIn, Accepting, Shutting, ManagerInv,
       ManagerCore
<1>7. Held'
  BY <1>1, <1>2, ClientAssumption DEF Held, StopIn, HoldsConnectionsMutex, Shutting,
       ManagerInv, ManagerCore
<1>8. Closed'
  BY <1>1, <1>2, ClientAssumption DEF Closed, IoIn, StopIn, Shutting, ManagerInv,
       ManagerCore
<1>9. Tables'
  BY <1>1, <1>2, ClientAssumption DEF Tables, IoIn, NotStopping, Accepting, ManagerInv,
       ManagerCore
<1>10. FreedChannelOnlyAfterRace'
  BY <1>1, <1>2, ClientAssumption DEF FreedChannelOnlyAfterRace, ManagerInv,
       ManagerCore
<1> QED
  BY <1>3, <1>4, <1>5, <1>6, <1>7, <1>8, <1>9, <1>10 DEF ManagerInv, ManagerCore

(* The accept handler sees a connection for the first time.                 *)
LEMMA AcceptStep ==
  ASSUME ManagerInv, NEW c \in Client, HandleAccept(c)
  PROVE  ManagerInv'
<1>1. UNCHANGED <<managed, running, ioStopped, stopper, left, active, clients, closedBy,
      dangling, peer, accepting, acceptorOpen, requests, frames, sent, accepted>>
  BY DEF HandleAccept, tableVars, stopVars, historyVars, acceptVars, peerVars, sendVars
<1>2. /\ io[1] = "idle" /\ io' = <<"started", c>> /\ acceptOp = c /\ acceptOp' = "none"
      /\ closeHandler' = [closeHandler EXCEPT ![c] = "server"]
      /\ tcp' = [tcp EXCEPT ![c] = start(@)]
  BY DEF HandleAccept, IoReady, At
<1>3. /\ TcpTypes' /\ tcp'[c].connected /\ tcp'[c].reading
      /\ \A d \in Client : d # c => tcp'[d] = tcp[d]
  <2>1. tcp[c] \in Connection /\ Sane(tcp[c])
    BY DEF ManagerInv, TcpTypes
  <2>2. PICK r \in Connection : r = start(tcp[c]) /\ Sane(r) /\ r.connected /\ r.reading
    BY <2>1, StartKeeps DEF Connection
  <2> QED
    BY <1>2, <2>2, OneConnection DEF ManagerInv
<1>4. /\ closeHandler[c] = "none" /\ closeHandler'[c] = "server"
      /\ \A d \in Client : d # c => closeHandler'[d] = closeHandler[d]
  BY <1>2 DEF ManagerInv, ControlTypes, ManagerCore, Untouched
<1>5. ControlTypes' /\ DataTypes' /\ TcpTypes'
  BY <1>1, <1>2, <1>3 DEF ManagerInv, ControlTypes, DataTypes, IoPlace, Accepting
<1>6. OnlyManagedStops'
  BY <1>1, <1>2, <1>3, <1>4, ClientAssumption DEF OnlyManagedStops, NotStopping,
       ManagerInv, ManagerCore
<1>7. Untouched'
  BY <1>1, <1>2, <1>3, <1>4, ClientAssumption DEF Untouched, ManagerInv, ManagerCore
<1>8. Handed'
  BY <1>1, <1>2, <1>3, <1>4, ClientAssumption DEF Handed, IoIn, Accepting, Shutting,
       Untouched, ManagerInv, ManagerCore
<1>9. Held'
  BY <1>1, <1>2, <1>3, <1>4, ClientAssumption DEF Held, StopIn, HoldsConnectionsMutex,
       Shutting, ManagerInv, ManagerCore
<1>10. Closed'
  BY <1>1, <1>2, <1>3, <1>4, ClientAssumption DEF Closed, IoIn, StopIn, Shutting,
       Untouched, ManagerInv, ManagerCore
<1>11. Tables'
  BY <1>1, <1>2, <1>3, <1>4, ClientAssumption DEF Tables, IoIn, NotStopping, Accepting,
       Untouched, ManagerInv, ManagerCore
<1>12. FreedChannelOnlyAfterRace'
  BY <1>1, <1>2, <1>3, <1>4, ClientAssumption DEF FreedChannelOnlyAfterRace,
       ManagerInv, ManagerCore
<1> QED
  BY <1>5, <1>6, <1>7, <1>8, <1>9, <1>10, <1>11, <1>12 DEF ManagerInv, ManagerCore

(* It locks connections_mutex_ and inserts.                                 *)
LEMMA InsertStep ==
  ASSUME ManagerInv, NEW c \in Client, InsertActive(c)
  PROVE  ManagerInv'
<1>1. UNCHANGED <<managed, running, ioStopped, stopper, left, clients, closeHandler,
      closedBy, dangling, peer, tcp, accepting, acceptorOpen, requests, frames, sent,
      accepted>>
  BY DEF InsertActive, tableVars, stopVars, historyVars, acceptVars, peerVars, sendVars
<1>2. /\ io[1] = "started" /\ io[2] = c /\ ~HoldsConnectionsMutex /\ active' = active \cup {c}
      /\ acceptOp' \in {acceptOp, "none", "pending", "failed"}
      /\ managed => io' = <<"inserted", c>>
      /\ ~managed => io' = At("idle")
  BY DEF InsertActive, AcceptAgain
<1>3. /\ io'[1] = (IF managed THEN "inserted" ELSE "idle")
      /\ io'[2] = (IF managed THEN c ELSE NoClient)
  BY <1>2 DEF At
<1>4. ControlTypes' /\ DataTypes' /\ TcpTypes'
  BY SMTT(30), <1>1, <1>2 DEF ManagerInv, ControlTypes, DataTypes, TcpTypes, IoPlace, StopPlace, At,
       Accepting, Shutting
<1>5. OnlyManagedStops'
  BY <1>1, <1>2, <1>3, ClientAssumption DEF OnlyManagedStops, NotStopping, ManagerInv,
       ManagerCore
<1>6. Untouched'
  BY <1>1, <1>2, <1>3, ClientAssumption DEF Untouched, ManagerInv, ManagerCore
<1>7. Handed'
  BY <1>1, <1>2, <1>3, ClientAssumption DEF Handed, IoIn, Accepting, Shutting,
       ManagerInv, ManagerCore
<1>8. Held'
  BY <1>1, <1>2, <1>3, ClientAssumption DEF Held, StopIn, HoldsConnectionsMutex,
       Shutting, ManagerInv, ManagerCore
<1>9. Closed'
  BY <1>1, <1>2, <1>3, ClientAssumption DEF Closed, IoIn, StopIn, Shutting, ManagerInv,
       ManagerCore
<1>10. Tables'
  BY <1>1, <1>2, <1>3, ClientAssumption DEF Tables, IoIn, NotStopping, Accepting,
       ManagerInv, ManagerCore
<1>11. FreedChannelOnlyAfterRace'
  BY <1>1, <1>2, <1>3, ClientAssumption DEF FreedChannelOnlyAfterRace, ManagerInv,
       ManagerCore
<1> QED
  BY <1>4, <1>5, <1>6, <1>7, <1>8, <1>9, <1>10, <1>11 DEF ManagerInv, ManagerCore

(* handleNewConnection(), and the close handler it sets.                    *)
LEMMA NewConnectionStep ==
  ASSUME ManagerInv, NEW c \in Client, handleNewConnection(c)
  PROVE  ManagerInv'
<1>1. UNCHANGED <<managed, running, ioStopped, stopper, left, active, closeHandler,
      closedBy, dangling, acceptOp, peer, tcp, accepting, acceptorOpen, requests, frames,
      sent, accepted>>
  BY DEF handleNewConnection, tableVars, stopVars, historyVars, acceptVars, peerVars, sendVars
<1>2. /\ io[1] = "inserted" /\ io[2] = c /\ io' = <<"registered", c>>
      /\ clients' = clients \cup {c}
  BY DEF handleNewConnection
<1>3. ControlTypes' /\ DataTypes' /\ TcpTypes'
  BY <1>1, <1>2 DEF ManagerInv, ControlTypes, DataTypes, TcpTypes, IoPlace, StopPlace, At,
       Accepting, Shutting
<1>4. OnlyManagedStops'
  BY <1>1, <1>2, ClientAssumption DEF OnlyManagedStops, NotStopping, ManagerInv,
       ManagerCore
<1>5. Untouched'
  BY <1>1, <1>2, ClientAssumption DEF Untouched, ManagerInv, ManagerCore
<1>6. Handed'
  BY <1>1, <1>2, ClientAssumption DEF Handed, IoIn, Accepting, Shutting, ManagerInv,
       ManagerCore
<1>7. Held'
  BY <1>1, <1>2, ClientAssumption DEF Held, StopIn, HoldsConnectionsMutex, Shutting,
       ManagerInv, ManagerCore
<1>8. Closed'
  BY <1>1, <1>2, ClientAssumption DEF Closed, IoIn, StopIn, Shutting, ManagerInv,
       ManagerCore
<1>9. Tables'
  BY <1>1, <1>2, ClientAssumption DEF Tables, IoIn, NotStopping, Accepting, ManagerInv,
       ManagerCore
<1>10. FreedChannelOnlyAfterRace'
  BY <1>1, <1>2, ClientAssumption DEF FreedChannelOnlyAfterRace, ManagerInv,
       ManagerCore
<1> QED
  BY <1>3, <1>4, <1>5, <1>6, <1>7, <1>8, <1>9, <1>10 DEF ManagerInv, ManagerCore

LEMMA SetHandlerStep ==
  ASSUME ManagerInv, NEW c \in Client, SetCloseHandler(c)
  PROVE  ManagerInv'
<1>1. UNCHANGED <<managed, running, ioStopped, stopper, left, active, clients, closedBy,
      dangling, peer, tcp, accepting, acceptorOpen, requests, frames, sent, accepted>>
  BY DEF SetCloseHandler, tableVars, stopVars, historyVars, acceptVars, peerVars, sendVars
<1>2. /\ io[1] = "registered" /\ io[2] = c /\ io' = <<"idle", NoClient>>
      /\ closeHandler' = [closeHandler EXCEPT ![c] = "manager"]
      /\ acceptOp' \in {"none", "pending", "failed"}
  BY DEF SetCloseHandler, AcceptAgain, At
<1>3. /\ closeHandler'[c] = "manager"
      /\ \A d \in Client : d # c => closeHandler'[d] = closeHandler[d]
  BY <1>2 DEF ManagerInv, ControlTypes
<1>4. ControlTypes' /\ DataTypes' /\ TcpTypes'
  BY <1>1, <1>2 DEF ManagerInv, ControlTypes, DataTypes, TcpTypes, IoPlace, StopPlace, At,
       Accepting, Shutting
<1>5. OnlyManagedStops'
  BY <1>1, <1>2, <1>3, ClientAssumption DEF OnlyManagedStops, NotStopping, ManagerInv,
       ManagerCore
<1>6. Untouched'
  BY <1>1, <1>2, <1>3, ClientAssumption DEF Untouched, ManagerInv, ManagerCore
<1>7. Handed'
  BY <1>1, <1>2, <1>3, ClientAssumption DEF Handed, IoIn, Accepting, Shutting,
       ManagerInv, ManagerCore
<1>8. Held'
  BY <1>1, <1>2, <1>3, ClientAssumption DEF Held, StopIn, HoldsConnectionsMutex,
       Shutting, ManagerInv, ManagerCore
<1>9. Closed'
  BY <1>1, <1>2, <1>3, ClientAssumption DEF Closed, IoIn, StopIn, Shutting, ManagerInv,
       ManagerCore
<1>10. Tables'
  BY <1>1, <1>2, <1>3, ClientAssumption DEF Tables, IoIn, NotStopping, Accepting,
       ManagerInv, ManagerCore
<1>11. FreedChannelOnlyAfterRace'
  BY <1>1, <1>2, <1>3, ClientAssumption DEF FreedChannelOnlyAfterRace, ManagerInv,
       ManagerCore
<1> QED
  BY <1>4, <1>5, <1>6, <1>7, <1>8, <1>9, <1>10, <1>11 DEF ManagerInv, ManagerCore

(* A read: who closed the connection when its channel is gone.              *)
LEMMA ReadStep ==
  ASSUME ManagerInv, NEW c \in Client, HandleRead(c)
  PROVE  ManagerInv'
<1>1. UNCHANGED <<managed, running, ioStopped, io, stopper, left, active, clients,
      closeHandler, closedBy, acceptOp, peer, tcp, accepting, acceptorOpen, frames, sent,
      accepted>>
  BY DEF HandleRead, tableVars, stopVars, historyVars, acceptVars, peerVars, sendVars
<1>2. /\ io[1] = "idle" /\ ~ioStopped /\ tcp[c].reading
      /\ dangling' = IF c \in clients THEN dangling ELSE dangling \cup {c}
      /\ requests[c] < MaxRequests /\ requests' = [requests EXCEPT ![c] = @ + 1]
  BY DEF HandleRead, IoReady, At
<1>3. requests' \in [Client -> 0..MaxRequests]
  BY <1>2, SendBoundsAssumption DEF ManagerInv, DataTypes
<1>4. ControlTypes' /\ DataTypes' /\ TcpTypes'
  BY <1>1, <1>2, <1>3 DEF ManagerInv, ControlTypes, DataTypes, TcpTypes
<1>5. OnlyManagedStops'
  BY <1>1, <1>2, <1>3, ClientAssumption DEF OnlyManagedStops, NotStopping, ManagerInv,
       ManagerCore
<1>6. Untouched'
  BY <1>1, <1>2, <1>3, ClientAssumption DEF Untouched, ManagerInv, ManagerCore
<1>7. Handed'
  BY <1>1, <1>2, <1>3, ClientAssumption DEF Handed, IoIn, Accepting, Shutting,
       ManagerInv, ManagerCore
<1>8. Held'
  BY <1>1, <1>2, <1>3, ClientAssumption DEF Held, StopIn, HoldsConnectionsMutex,
       Shutting, ManagerInv, ManagerCore
<1>9. Closed'
  BY <1>1, <1>2, <1>3, ClientAssumption DEF Closed, IoIn, StopIn, Shutting, ManagerInv,
       ManagerCore
<1>10. Tables'
  BY <1>1, <1>2, <1>3, ClientAssumption DEF Tables, IoIn, NotStopping, Accepting,
       ManagerInv, ManagerCore
<1>11. FreedChannelOnlyAfterRace'
  BY <1>1, <1>2, <1>3, ClientAssumption DEF FreedChannelOnlyAfterRace, Closed, IoIn,
       ManagerInv, ManagerCore
<1> QED
  BY <1>4, <1>5, <1>6, <1>7, <1>8, <1>9, <1>10, <1>11 DEF ManagerInv, ManagerCore

(* A read or a write fails, and close() begins.                             *)
LEMMA ErrorStep ==
  ASSUME ManagerInv, NEW c \in Client, NEW op \in {"reading", "writing"}, HandleError(c, op)
  PROVE  ManagerInv'
<1>1. UNCHANGED <<managed, running, ioStopped, stopper, left, active, clients, closeHandler,
      dangling, acceptOp, peer, accepting, acceptorOpen, requests, frames, sent, accepted>>
  BY DEF HandleError, tableVars, stopVars, historyVars, acceptVars, peerVars, sendVars
<1>2. /\ io[1] = "idle" /\ tcp[c][op]
      /\ tcp' = [tcp EXCEPT ![c] = IF op = "reading" THEN ReadFailed(@) ELSE WriteFailed(@)]
      /\ io' = IF tcp[c].connected THEN <<"closing", c>> ELSE io
      /\ closedBy' = IF tcp[c].connected /\ closedBy[c] = "nobody"
                     THEN [closedBy EXCEPT ![c] = op] ELSE closedBy
  BY DEF HandleError, IoReady, At
<1>3. /\ TcpTypes'
      /\ tcp'[c].connected <=> tcp[c].connected
      /\ tcp'[c].reading <=> op # "reading" /\ tcp[c].reading
      /\ \A d \in Client : d # c => tcp'[d] = tcp[d]
  <2>1. tcp[c] \in Connection /\ Sane(tcp[c])
    BY DEF ManagerInv, TcpTypes
  <2>2. PICK r \in Connection :
          /\ r = IF op = "reading" THEN ReadFailed(tcp[c]) ELSE WriteFailed(tcp[c])
          /\ Sane(r) /\ (r.connected <=> tcp[c].connected)
          /\ r.reading <=> op # "reading" /\ tcp[c].reading
    BY <2>1, FailKeeps DEF Connection
  <2> QED
    BY ZenonT(30), <1>2, <2>2, OneConnection DEF ManagerInv
<1>4. /\ closedBy' \in [Client -> {"nobody", "reading", "writing", "stop"}]
      /\ closedBy'[c] = IF tcp[c].connected /\ closedBy[c] = "nobody" THEN op ELSE closedBy[c]
      /\ \A d \in Client : d # c => closedBy'[d] = closedBy[d]
  BY <1>2 DEF ManagerInv, ControlTypes
<1>5. ControlTypes' /\ DataTypes' /\ TcpTypes'
  BY <1>1, <1>2, <1>3, <1>4 DEF ManagerInv, ControlTypes, DataTypes, IoPlace, Shutting
<1>6. OnlyManagedStops'
  BY <1>1, <1>2, <1>3, <1>4, ClientAssumption DEF OnlyManagedStops, NotStopping,
       ManagerInv, ManagerCore
<1>7. Untouched'
  BY <1>1, <1>2, <1>3, <1>4, ClientAssumption DEF Untouched, ManagerInv, ManagerCore
<1>8. Handed'
  BY <1>1, <1>2, <1>3, <1>4, ClientAssumption DEF Handed, IoIn, Accepting, Shutting,
       ManagerInv, ManagerCore
<1>9. Held'
  BY <1>1, <1>2, <1>3, <1>4, ClientAssumption DEF Held, StopIn, HoldsConnectionsMutex,
       Shutting, ManagerInv, ManagerCore
<1>10. Closed'
  BY <1>1, <1>2, <1>3, <1>4, ClientAssumption DEF Closed, IoIn, StopIn, Shutting,
       ManagerInv, ManagerCore
<1>11. Tables'
  BY <1>1, <1>2, <1>3, <1>4, ClientAssumption DEF Tables, IoIn, NotStopping, Accepting,
       ManagerInv, ManagerCore
<1>12. FreedChannelOnlyAfterRace'
  BY <1>1, <1>2, <1>3, <1>4, ClientAssumption DEF FreedChannelOnlyAfterRace,
       ManagerInv, ManagerCore
<1> QED
  BY <1>5, <1>6, <1>7, <1>8, <1>9, <1>10, <1>11, <1>12 DEF ManagerInv, ManagerCore

(* close() goes on to the close handler set by now.                         *)
LEMMA IoCloseStep ==
  ASSUME ManagerInv, NEW c \in Client, IoClose(c)
  PROVE  ManagerInv'
<1>1. UNCHANGED <<managed, running, ioStopped, stopper, left, active, clients, closeHandler,
      closedBy, dangling, acceptOp, peer, accepting, acceptorOpen, requests, frames, sent,
      accepted>>
  BY DEF IoClose, tableVars, stopVars, historyVars, acceptVars, peerVars, sendVars
<1>2. /\ io[1] = "closing" /\ io[2] = c /\ io' = <<closeHandler[c], c>>
      /\ tcp' = [tcp EXCEPT ![c] = CloseSocket(@)]
  BY DEF IoClose
<1>3. /\ TcpTypes' /\ ~tcp'[c].connected /\ (tcp'[c].reading <=> tcp[c].reading)
      /\ \A d \in Client : d # c => tcp'[d] = tcp[d]
  <2>1. tcp[c] \in Connection /\ Sane(tcp[c])
    BY DEF ManagerInv, TcpTypes
  <2>2. PICK r \in Connection : /\ r = CloseSocket(tcp[c]) /\ Sane(r) /\ ~r.connected
                                /\ r.reading <=> tcp[c].reading
    BY <2>1, CloseKeeps DEF Connection
  <2>3. tcp' = [tcp EXCEPT ![c] = r]
    BY <1>2, <2>2
  <2>4. TcpTypes' /\ tcp'[c] = r /\ \A d \in Client : d # c => tcp'[d] = tcp[d]
    BY <2>2, <2>3, OneConnection DEF ManagerInv
  <2> QED
    BY <2>2, <2>4
<1>4. closeHandler[c] = IF managed THEN "manager" ELSE "server"
  BY <1>2 DEF ManagerInv, ManagerCore, ControlTypes, Untouched, Handed, IoIn, Accepting
<1>5. ControlTypes' /\ DataTypes' /\ TcpTypes'
  BY <1>1, <1>2, <1>3, <1>4 DEF ManagerInv, ControlTypes, DataTypes, IoPlace, Shutting
<1>6. OnlyManagedStops'
  BY <1>1, <1>2, <1>3, <1>4, ClientAssumption DEF OnlyManagedStops, NotStopping,
       ManagerInv, ManagerCore
<1>7. Untouched'
  BY <1>1, <1>2, <1>3, <1>4, ClientAssumption DEF Untouched, ManagerInv, ManagerCore
<1>8. Handed'
  BY <1>1, <1>2, <1>3, <1>4, ClientAssumption DEF Handed, IoIn, Accepting, Shutting,
       ManagerInv, ManagerCore
<1>9. Held'
  BY <1>1, <1>2, <1>3, <1>4, ClientAssumption DEF Held, StopIn, HoldsConnectionsMutex,
       Shutting, ManagerInv, ManagerCore
<1>10. Closed'
  BY <1>1, <1>2, <1>3, <1>4, ClientAssumption DEF Closed, IoIn, StopIn, Shutting,
       ManagerInv, ManagerCore
<1>11. Tables'
  BY <1>1, <1>2, <1>3, <1>4, ClientAssumption DEF Tables, IoIn, NotStopping, Accepting,
       ManagerInv, ManagerCore
<1>12. FreedChannelOnlyAfterRace'
  BY <1>1, <1>2, <1>3, <1>4, ClientAssumption DEF FreedChannelOnlyAfterRace,
       ManagerInv, ManagerCore
<1> QED
  BY <1>5, <1>6, <1>7, <1>8, <1>9, <1>10, <1>11, <1>12 DEF ManagerInv, ManagerCore

(* The close handlers.                                                      *)
LEMMA RemoveStep ==
  ASSUME ManagerInv, NEW c \in Client, remove_connection(c)
  PROVE  ManagerInv'
<1>1. UNCHANGED <<managed, running, ioStopped, stopper, left, clients, closeHandler,
      closedBy, dangling, acceptOp, peer, tcp, accepting, acceptorOpen, requests, frames,
      sent, accepted>>
  BY DEF remove_connection, tableVars, stopVars, historyVars, acceptVars, peerVars, sendVars
<1>2. /\ io[1] = "server" /\ io[2] = c /\ io' = <<"idle", NoClient>>
      /\ ~HoldsConnectionsMutex /\ active' = active \ {c}
  BY DEF remove_connection, At
<1>3. ControlTypes' /\ DataTypes' /\ TcpTypes'
  BY <1>1, <1>2 DEF ManagerInv, ControlTypes, DataTypes, TcpTypes, IoPlace, StopPlace, At,
       Accepting, Shutting
<1>4. OnlyManagedStops'
  BY <1>1, <1>2, ClientAssumption DEF OnlyManagedStops, NotStopping, ManagerInv,
       ManagerCore
<1>5. Untouched'
  BY <1>1, <1>2, ClientAssumption DEF Untouched, ManagerInv, ManagerCore
<1>6. Handed'
  BY <1>1, <1>2, ClientAssumption DEF Handed, IoIn, Accepting, Shutting, ManagerInv,
       ManagerCore
<1>7. Held'
  BY <1>1, <1>2, ClientAssumption DEF Held, StopIn, HoldsConnectionsMutex, Shutting,
       ManagerInv, ManagerCore
<1>8. Closed'
  BY <1>1, <1>2, ClientAssumption DEF Closed, IoIn, StopIn, Shutting, ManagerInv,
       ManagerCore
<1>9. Tables'
  BY <1>1, <1>2, ClientAssumption DEF Tables, IoIn, NotStopping, Accepting, ManagerInv,
       ManagerCore
<1>10. FreedChannelOnlyAfterRace'
  BY <1>1, <1>2, ClientAssumption DEF FreedChannelOnlyAfterRace, ManagerInv,
       ManagerCore
<1> QED
  BY <1>3, <1>4, <1>5, <1>6, <1>7, <1>8, <1>9, <1>10 DEF ManagerInv, ManagerCore

LEMMA RemoveClientStep ==
  ASSUME ManagerInv, NEW c \in Client, IoRemoveClient(c)
  PROVE  ManagerInv'
<1>1. UNCHANGED <<managed, running, ioStopped, stopper, left, active, closeHandler,
      closedBy, dangling, acceptOp, peer, tcp, accepting, acceptorOpen, requests, frames,
      sent, accepted>>
  BY DEF IoRemoveClient, tableVars, stopVars, historyVars, acceptVars, peerVars, sendVars
<1>2. /\ io[1] = "manager" /\ io[2] = c /\ io' = <<"idle", NoClient>>
      /\ clients' = clients \ {c}
  BY DEF IoRemoveClient, At
<1>3. ControlTypes' /\ DataTypes' /\ TcpTypes'
  BY <1>1, <1>2 DEF ManagerInv, ControlTypes, DataTypes, TcpTypes, IoPlace, StopPlace, At,
       Accepting, Shutting
<1>4. OnlyManagedStops'
  BY <1>1, <1>2, ClientAssumption DEF OnlyManagedStops, NotStopping, ManagerInv,
       ManagerCore
<1>5. Untouched'
  BY <1>1, <1>2, ClientAssumption DEF Untouched, ManagerInv, ManagerCore
<1>6. Handed'
  BY <1>1, <1>2, ClientAssumption DEF Handed, IoIn, Accepting, Shutting, ManagerInv,
       ManagerCore
<1>7. Held'
  BY <1>1, <1>2, ClientAssumption DEF Held, StopIn, HoldsConnectionsMutex, Shutting,
       ManagerInv, ManagerCore
<1>8. Closed'
  BY <1>1, <1>2, ClientAssumption DEF Closed, IoIn, StopIn, Shutting, ControlTypes,
       ManagerInv, ManagerCore
<1>9. Tables'
  BY <1>1, <1>2, ClientAssumption DEF Tables, IoIn, NotStopping, Accepting, ManagerInv,
       ManagerCore
<1>10. FreedChannelOnlyAfterRace'
  BY <1>1, <1>2, ClientAssumption DEF FreedChannelOnlyAfterRace, ManagerInv,
       ManagerCore
<1> QED
  BY <1>3, <1>4, <1>5, <1>6, <1>7, <1>8, <1>9, <1>10 DEF ManagerInv, ManagerCore

LEMMA EndsStep ==
  ASSUME ManagerInv, IoEnds
  PROVE  ManagerInv'
<1>1. UNCHANGED <<managed, running, ioStopped, stopper, left, active, clients, closeHandler,
      closedBy, dangling, acceptOp, peer, tcp, accepting, acceptorOpen, requests, frames,
      sent, accepted>>
  BY DEF IoEnds, tableVars, stopVars, historyVars, acceptVars, peerVars, sendVars
<1>2. io[1] = "idle" /\ io' = <<"ended", NoClient>>
  BY DEF IoEnds, At
<1>3. ControlTypes' /\ DataTypes' /\ TcpTypes'
  BY <1>1, <1>2 DEF ManagerInv, ControlTypes, DataTypes, TcpTypes, IoPlace, StopPlace, At,
       Accepting, Shutting
<1>4. OnlyManagedStops'
  BY <1>1, <1>2, ClientAssumption DEF OnlyManagedStops, NotStopping, ManagerInv,
       ManagerCore
<1>5. Untouched'
  BY <1>1, <1>2, ClientAssumption DEF Untouched, ManagerInv, ManagerCore
<1>6. Handed'
  BY <1>1, <1>2, ClientAssumption DEF Handed, IoIn, Accepting, Shutting, ManagerInv,
       ManagerCore
<1>7. Held'
  BY <1>1, <1>2, ClientAssumption DEF Held, StopIn, HoldsConnectionsMutex, Shutting,
       ManagerInv, ManagerCore
<1>8. Closed'
  BY <1>1, <1>2, ClientAssumption DEF Closed, IoIn, StopIn, Shutting, ManagerInv,
       ManagerCore
<1>9. Tables'
  BY <1>1, <1>2, ClientAssumption DEF Tables, IoIn, NotStopping, Accepting, ManagerInv,
       ManagerCore
<1>10. FreedChannelOnlyAfterRace'
  BY <1>1, <1>2, ClientAssumption DEF FreedChannelOnlyAfterRace, ManagerInv,
       ManagerCore
<1> QED
  BY <1>3, <1>4, <1>5, <1>6, <1>7, <1>8, <1>9, <1>10 DEF ManagerInv, ManagerCore

-----------------------------------------------------------------------------
(* The thread that starts and stops the server.                             *)
LEMMA StartStep ==
  ASSUME ManagerInv, startServer
  PROVE  ManagerInv'
<1>1. UNCHANGED <<managed, ioStopped, io, left, active, clients, closeHandler, closedBy,
      dangling, peer, tcp, requests, frames, sent, accepted>>
  BY DEF startServer, tableVars, stopVars, historyVars, acceptVars, peerVars, sendVars
<1>2. /\ stopper[1] = "new" /\ stopper' = <<"up", NoClient>> /\ running' = managed
      /\ acceptOp' = "pending" /\ acceptorOpen' = TRUE /\ accepting' = TRUE
  BY DEF startServer, At
<1>3. ControlTypes' /\ DataTypes' /\ TcpTypes'
  BY <1>1, <1>2 DEF ManagerInv, ControlTypes, DataTypes, TcpTypes, IoPlace, StopPlace, At,
       Accepting, Shutting
<1>4. OnlyManagedStops'
  BY <1>1, <1>2, ClientAssumption DEF OnlyManagedStops, NotStopping, ManagerInv,
       ManagerCore
<1>5. Untouched'
  BY <1>1, <1>2, ClientAssumption DEF Untouched, ManagerInv, ManagerCore
<1>6. Handed'
  BY <1>1, <1>2, ClientAssumption DEF Handed, IoIn, Accepting, Shutting, ManagerInv,
       ManagerCore
<1>7. Held'
  BY <1>1, <1>2, ClientAssumption DEF Held, StopIn, HoldsConnectionsMutex, Shutting,
       ManagerInv, ManagerCore
<1>8. Closed'
  BY <1>1, <1>2, ClientAssumption DEF Closed, IoIn, StopIn, Shutting, ManagerInv,
       ManagerCore
<1>9. Tables'
  BY <1>1, <1>2, ClientAssumption DEF Tables, IoIn, NotStopping, Accepting, ManagerInv,
       ManagerCore
<1>10. FreedChannelOnlyAfterRace'
  BY <1>1, <1>2, ClientAssumption DEF FreedChannelOnlyAfterRace, ManagerInv,
       ManagerCore
<1> QED
  BY <1>3, <1>4, <1>5, <1>6, <1>7, <1>8, <1>9, <1>10 DEF ManagerInv, ManagerCore

LEMMA StopBegins ==
  ASSUME ManagerInv, stopServer
  PROVE  ManagerInv'
<1>1. UNCHANGED <<managed, running, ioStopped, io, left, active, clients, closeHandler,
      closedBy, dangling, peer, tcp, accepting, requests, frames, sent, accepted>>
  BY DEF stopServer, tableVars, stopVars, historyVars, acceptVars, peerVars, sendVars
<1>2. /\ stopper[1] = "up" /\ running /\ stopper' = <<"lock", NoClient>>
      /\ acceptOp' \in {acceptOp, "none"} /\ acceptorOpen' = FALSE
  BY DEF stopServer, At
<1>3. ControlTypes' /\ DataTypes' /\ TcpTypes'
  BY <1>1, <1>2 DEF ManagerInv, ControlTypes, DataTypes, TcpTypes, IoPlace, StopPlace, At,
       Accepting, Shutting
<1>4. OnlyManagedStops'
  BY <1>1, <1>2, ClientAssumption DEF OnlyManagedStops, NotStopping, ManagerInv,
       ManagerCore
<1>5. Untouched'
  BY <1>1, <1>2, ClientAssumption DEF Untouched, ManagerInv, ManagerCore
<1>6. Handed'
  BY <1>1, <1>2, ClientAssumption DEF Handed, IoIn, Accepting, Shutting, ManagerInv,
       ManagerCore
<1>7. Held'
  BY <1>1, <1>2, ClientAssumption DEF Held, StopIn, HoldsConnectionsMutex, Shutting,
       ManagerInv, ManagerCore
<1>8. Closed'
  BY <1>1, <1>2, ClientAssumption DEF Closed, IoIn, StopIn, Shutting, ManagerInv,
       ManagerCore
<1>9. Tables'
  BY <1>1, <1>2, ClientAssumption DEF Tables, IoIn, NotStopping, Accepting, ManagerInv,
       ManagerCore
<1>10. FreedChannelOnlyAfterRace'
  BY <1>1, <1>2, ClientAssumption DEF FreedChannelOnlyAfterRace, ManagerInv,
       ManagerCore
<1> QED
  BY <1>3, <1>4, <1>5, <1>6, <1>7, <1>8, <1>9, <1>10 DEF ManagerInv, ManagerCore

LEMMA LockStep ==
  ASSUME ManagerInv, LockConnections
  PROVE  ManagerInv'
<1>1. UNCHANGED <<managed, running, ioStopped, io, active, clients, closeHandler, closedBy,
      dangling, acceptOp, peer, tcp, accepting, acceptorOpen, requests, frames, sent,
      accepted>>
  BY DEF LockConnections, tableVars, stopVars, historyVars, acceptVars, peerVars, sendVars
<1>2. stopper[1] = "lock" /\ stopper' = <<"loop", NoClient>> /\ left' = active
  BY DEF LockConnections, At
<1>3. ControlTypes' /\ DataTypes' /\ TcpTypes'
  BY <1>1, <1>2 DEF ManagerInv, ControlTypes, DataTypes, TcpTypes, IoPlace, StopPlace, At,
       Accepting, Shutting
<1>4. OnlyManagedStops'
  BY <1>1, <1>2, ClientAssumption DEF OnlyManagedStops, NotStopping, ManagerInv,
       ManagerCore
<1>5. Untouched'
  BY <1>1, <1>2, ClientAssumption DEF Untouched, ManagerInv, ManagerCore
<1>6. Handed'
  BY <1>1, <1>2, ClientAssumption DEF Handed, IoIn, Accepting, Shutting, ManagerInv,
       ManagerCore
<1>7. Held'
  BY <1>1, <1>2, ClientAssumption DEF Held, StopIn, HoldsConnectionsMutex, Shutting,
       ManagerInv, ManagerCore
<1>8. Closed'
  BY <1>1, <1>2, ClientAssumption DEF Closed, IoIn, StopIn, Shutting, ManagerInv,
       ManagerCore
<1>9. Tables'
  BY <1>1, <1>2, ClientAssumption DEF Tables, IoIn, NotStopping, Accepting, ManagerInv,
       ManagerCore
<1>10. FreedChannelOnlyAfterRace'
  BY <1>1, <1>2, ClientAssumption DEF FreedChannelOnlyAfterRace, ManagerInv,
       ManagerCore
<1> QED
  BY <1>3, <1>4, <1>5, <1>6, <1>7, <1>8, <1>9, <1>10 DEF ManagerInv, ManagerCore

(* close() of the next connection begins.                                   *)
LEMMA TestStep ==
  ASSUME ManagerInv, NEW c \in Client, StopTests(c)
  PROVE  ManagerInv'
<1>1. UNCHANGED <<managed, running, ioStopped, io, active, clients, closeHandler, dangling,
      acceptOp, peer, tcp, accepting, acceptorOpen, requests, frames, sent, accepted>>
  BY DEF StopTests, tableVars, stopVars, historyVars, acceptVars, peerVars, sendVars
<1>2. /\ stopper[1] = "loop" /\ c \in left /\ left' = left \ {c}
      /\ stopper' = IF tcp[c].connected THEN <<"closing", c>> ELSE stopper
      /\ closedBy' = IF tcp[c].connected /\ closedBy[c] = "nobody"
                     THEN [closedBy EXCEPT ![c] = "stop"] ELSE closedBy
  BY DEF StopTests, At
<1>3. /\ closedBy' \in [Client -> {"nobody", "reading", "writing", "stop"}]
      /\ closedBy'[c] = IF tcp[c].connected /\ closedBy[c] = "nobody" THEN "stop" ELSE closedBy[c]
      /\ \A d \in Client : d # c => closedBy'[d] = closedBy[d]
  BY <1>2 DEF ManagerInv, ControlTypes
<1>4. ControlTypes' /\ DataTypes' /\ TcpTypes'
  BY <1>1, <1>2, <1>3 DEF ManagerInv, ControlTypes, DataTypes, TcpTypes, StopPlace, Shutting
<1>5. OnlyManagedStops'
  BY <1>1, <1>2, <1>3, ClientAssumption DEF OnlyManagedStops, NotStopping, ManagerInv,
       ManagerCore
<1>6. Untouched'
  BY <1>1, <1>2, <1>3, ClientAssumption DEF Untouched, ManagerInv, ManagerCore
<1>7. Handed'
  BY <1>1, <1>2, <1>3, ClientAssumption DEF Handed, IoIn, Accepting, Shutting,
       ManagerInv, ManagerCore
<1>8. Held'
  BY <1>1, <1>2, <1>3, ClientAssumption DEF Held, StopIn, HoldsConnectionsMutex,
       Shutting, ManagerInv, ManagerCore
<1>9. Closed'
  BY <1>1, <1>2, <1>3, ClientAssumption DEF Closed, IoIn, StopIn, Shutting, ManagerInv,
       ManagerCore
<1>10. Tables'
  BY <1>1, <1>2, <1>3, ClientAssumption DEF Tables, IoIn, NotStopping, Accepting,
       ManagerInv, ManagerCore
<1>11. FreedChannelOnlyAfterRace'
  BY <1>1, <1>2, <1>3, ClientAssumption DEF FreedChannelOnlyAfterRace, ManagerInv,
       ManagerCore
<1> QED
  BY <1>4, <1>5, <1>6, <1>7, <1>8, <1>9, <1>10, <1>11 DEF ManagerInv, ManagerCore

LEMMA StopClosesStep ==
  ASSUME ManagerInv, NEW c \in Client, StopCloses(c)
  PROVE  ManagerInv'
<1>1. UNCHANGED <<managed, running, ioStopped, io, left, active, clients, closeHandler,
      closedBy, dangling, acceptOp, peer, accepting, acceptorOpen, requests, frames, sent,
      accepted>>
  BY DEF StopCloses, tableVars, stopVars, historyVars, acceptVars, peerVars, sendVars
<1>2. /\ stopper[1] = "closing" /\ stopper[2] = c /\ stopper' = <<closeHandler[c], c>>
      /\ tcp' = [tcp EXCEPT ![c] = CloseSocket(@)]
  BY DEF StopCloses
<1>3. /\ TcpTypes' /\ ~tcp'[c].connected /\ (tcp'[c].reading <=> tcp[c].reading)
      /\ \A d \in Client : d # c => tcp'[d] = tcp[d]
  <2>1. tcp[c] \in Connection /\ Sane(tcp[c])
    BY DEF ManagerInv, TcpTypes
  <2>2. PICK r \in Connection : /\ r = CloseSocket(tcp[c]) /\ Sane(r) /\ ~r.connected
                                /\ r.reading <=> tcp[c].reading
    BY <2>1, CloseKeeps DEF Connection
  <2>3. tcp' = [tcp EXCEPT ![c] = r]
    BY <1>2, <2>2
  <2>4. TcpTypes' /\ tcp'[c] = r /\ \A d \in Client : d # c => tcp'[d] = tcp[d]
    BY <2>2, <2>3, OneConnection DEF ManagerInv
  <2> QED
    BY <2>2, <2>4
<1>4. closeHandler[c] \in {"server", "manager"} /\ stopper'[1] \in {"server", "manager"} /\ stopper'[2] = c
  BY <1>2 DEF ManagerInv, ManagerCore, ControlTypes, Untouched, Held, StopIn, Shutting
<1>5. ControlTypes' /\ DataTypes' /\ TcpTypes'
  BY <1>1, <1>2, <1>3, <1>4 DEF ManagerInv, ControlTypes, DataTypes, StopPlace, Shutting
<1>6. OnlyManagedStops'
  BY <1>1, <1>2, <1>3, <1>4, ClientAssumption DEF OnlyManagedStops, NotStopping,
       ManagerInv, ManagerCore
<1>7. Untouched'
  BY <1>1, <1>2, <1>3, <1>4, ClientAssumption DEF Untouched, ManagerInv, ManagerCore
<1>8. Handed'
  BY <1>1, <1>2, <1>3, <1>4, ClientAssumption DEF Handed, IoIn, Accepting, Shutting,
       ManagerInv, ManagerCore
<1>9. Held'
  BY <1>1, <1>2, <1>3, <1>4, ClientAssumption DEF Held, StopIn, HoldsConnectionsMutex,
       Shutting, ManagerInv, ManagerCore
<1>10. Closed'
  BY <1>1, <1>2, <1>3, <1>4, ClientAssumption DEF Closed, IoIn, StopIn, Shutting,
       ManagerInv, ManagerCore
<1>11. Tables'
  BY <1>1, <1>2, <1>3, <1>4, ClientAssumption DEF Tables, IoIn, NotStopping, Accepting,
       ManagerInv, ManagerCore
<1>12. FreedChannelOnlyAfterRace'
  BY <1>1, <1>2, <1>3, <1>4, ClientAssumption DEF FreedChannelOnlyAfterRace,
       ManagerInv, ManagerCore
<1> QED
  BY <1>5, <1>6, <1>7, <1>8, <1>9, <1>10, <1>11, <1>12 DEF ManagerInv, ManagerCore

LEMMA StopRemovesStep ==
  ASSUME ManagerInv, NEW c \in Client, StopRemovesClient(c)
  PROVE  ManagerInv'
<1>1. UNCHANGED <<managed, running, ioStopped, io, left, active, closeHandler, closedBy,
      dangling, acceptOp, peer, tcp, accepting, acceptorOpen, requests, frames, sent,
      accepted>>
  BY DEF StopRemovesClient, tableVars, stopVars, historyVars, acceptVars, peerVars, sendVars
<1>2. /\ stopper[1] = "manager" /\ stopper[2] = c /\ stopper' = <<"loop", NoClient>>
      /\ clients' = clients \ {c}
  BY DEF StopRemovesClient, At
<1>3. ControlTypes' /\ DataTypes' /\ TcpTypes'
  BY <1>1, <1>2 DEF ManagerInv, ControlTypes, DataTypes, TcpTypes, IoPlace, StopPlace, At,
       Accepting, Shutting
<1>4. OnlyManagedStops'
  BY <1>1, <1>2, ClientAssumption DEF OnlyManagedStops, NotStopping, ManagerInv,
       ManagerCore
<1>5. Untouched'
  BY <1>1, <1>2, ClientAssumption DEF Untouched, ManagerInv, ManagerCore
<1>6. Handed'
  BY <1>1, <1>2, ClientAssumption DEF Handed, IoIn, Accepting, Shutting, ManagerInv,
       ManagerCore
<1>7. Held'
  BY <1>1, <1>2, ClientAssumption DEF Held, StopIn, HoldsConnectionsMutex, Shutting,
       ManagerInv, ManagerCore
<1>8. Closed'
  BY <1>1, <1>2, ClientAssumption DEF Closed, IoIn, StopIn, Shutting, ControlTypes,
       ManagerInv, ManagerCore
<1>9. Tables'
  BY <1>1, <1>2, ClientAssumption DEF Tables, IoIn, NotStopping, Accepting, ManagerInv,
       ManagerCore
<1>10. FreedChannelOnlyAfterRace'
  BY <1>1, <1>2, ClientAssumption DEF FreedChannelOnlyAfterRace, ManagerInv,
       ManagerCore
<1> QED
  BY <1>3, <1>4, <1>5, <1>6, <1>7, <1>8, <1>9, <1>10 DEF ManagerInv, ManagerCore

LEMMA ClearStep ==
  ASSUME ManagerInv, StopClears
  PROVE  ManagerInv'
<1>1. UNCHANGED <<managed, running, ioStopped, io, left, clients, closeHandler, closedBy,
      dangling, acceptOp, peer, tcp, acceptorOpen, requests, frames, sent, accepted>>
  BY DEF StopClears, tableVars, stopVars, historyVars, acceptVars, peerVars, sendVars
<1>2. /\ stopper[1] = "loop" /\ stopper' = <<"context", NoClient>>
      /\ active' = {} /\ accepting' = FALSE
  BY DEF StopClears, At
<1>3. ControlTypes' /\ DataTypes' /\ TcpTypes'
  BY <1>1, <1>2 DEF ManagerInv, ControlTypes, DataTypes, TcpTypes, IoPlace, StopPlace, At,
       Accepting, Shutting
<1>4. OnlyManagedStops'
  BY <1>1, <1>2, ClientAssumption DEF OnlyManagedStops, NotStopping, ManagerInv,
       ManagerCore
<1>5. Untouched'
  BY <1>1, <1>2, ClientAssumption DEF Untouched, ManagerInv, ManagerCore
<1>6. Handed'
  BY <1>1, <1>2, ClientAssumption DEF Handed, IoIn, Accepting, Shutting, ManagerInv,
       ManagerCore
<1>7. Held'
  BY <1>1, <1>2, ClientAssumption DEF Held, StopIn, HoldsConnectionsMutex, Shutting,
       ManagerInv, ManagerCore
<1>8. Closed'
  BY <1>1, <1>2, ClientAssumption DEF Closed, IoIn, StopIn, Shutting, ManagerInv,
       ManagerCore
<1>9. Tables'
  BY <1>1, <1>2, ClientAssumption DEF Tables, IoIn, NotStopping, Accepting, ManagerInv,
       ManagerCore
<1>10. FreedChannelOnlyAfterRace'
  BY <1>1, <1>2, ClientAssumption DEF FreedChannelOnlyAfterRace, ManagerInv,
       ManagerCore
<1> QED
  BY <1>3, <1>4, <1>5, <1>6, <1>7, <1>8, <1>9, <1>10 DEF ManagerInv, ManagerCore

LEMMA ContextStep ==
  ASSUME ManagerInv, StopContext
  PROVE  ManagerInv'
<1>1. UNCHANGED <<managed, running, io, left, active, clients, closeHandler, closedBy,
      dangling, acceptOp, peer, tcp, accepting, acceptorOpen, requests, frames, sent,
      accepted>>
  BY DEF StopContext, tableVars, stopVars, historyVars, acceptVars, peerVars, sendVars
<1>2. stopper[1] = "context" /\ stopper' = <<"join", NoClient>> /\ ioStopped' = TRUE
  BY DEF StopContext, At
<1>3. ControlTypes' /\ DataTypes' /\ TcpTypes'
  BY <1>1, <1>2 DEF ManagerInv, ControlTypes, DataTypes, TcpTypes, IoPlace, StopPlace, At,
       Accepting, Shutting
<1>4. OnlyManagedStops'
  BY <1>1, <1>2, ClientAssumption DEF OnlyManagedStops, NotStopping, ManagerInv,
       ManagerCore
<1>5. Untouched'
  BY <1>1, <1>2, ClientAssumption DEF Untouched, ManagerInv, ManagerCore
<1>6. Handed'
  BY <1>1, <1>2, ClientAssumption DEF Handed, IoIn, Accepting, Shutting, ManagerInv,
       ManagerCore
<1>7. Held'
  BY <1>1, <1>2, ClientAssumption DEF Held, StopIn, HoldsConnectionsMutex, Shutting,
       ManagerInv, ManagerCore
<1>8. Closed'
  BY <1>1, <1>2, ClientAssumption DEF Closed, IoIn, StopIn, Shutting, ManagerInv,
       ManagerCore
<1>9. Tables'
  BY <1>1, <1>2, ClientAssumption DEF Tables, IoIn, NotStopping, Accepting, ManagerInv,
       ManagerCore
<1>10. FreedChannelOnlyAfterRace'
  BY <1>1, <1>2, ClientAssumption DEF FreedChannelOnlyAfterRace, ManagerInv,
       ManagerCore
<1> QED
  BY <1>3, <1>4, <1>5, <1>6, <1>7, <1>8, <1>9, <1>10 DEF ManagerInv, ManagerCore

LEMMA JoinStep ==
  ASSUME ManagerInv, StopJoins
  PROVE  ManagerInv'
<1>1. UNCHANGED <<managed, ioStopped, io, left, active, closeHandler, closedBy, dangling,
      acceptOp, peer, tcp, accepting, acceptorOpen, requests, frames, sent, accepted>>
  BY DEF StopJoins, tableVars, stopVars, historyVars, acceptVars, peerVars, sendVars
<1>2. /\ stopper[1] = "join" /\ stopper' = <<"done", NoClient>>
      /\ clients' = {} /\ running' = FALSE
  BY DEF StopJoins, At
<1>3. ControlTypes' /\ DataTypes' /\ TcpTypes'
  BY <1>1, <1>2 DEF ManagerInv, ControlTypes, DataTypes, TcpTypes, IoPlace, StopPlace, At,
       Accepting, Shutting
<1>4. OnlyManagedStops'
  BY <1>1, <1>2, ClientAssumption DEF OnlyManagedStops, NotStopping, ManagerInv,
       ManagerCore
<1>5. Untouched'
  BY <1>1, <1>2, ClientAssumption DEF Untouched, ManagerInv, ManagerCore
<1>6. Handed'
  BY <1>1, <1>2, ClientAssumption DEF Handed, IoIn, Accepting, Shutting, ManagerInv,
       ManagerCore
<1>7. Held'
  BY <1>1, <1>2, ClientAssumption DEF Held, StopIn, HoldsConnectionsMutex, Shutting,
       ManagerInv, ManagerCore
<1>8. Closed'
  BY <1>1, <1>2, ClientAssumption DEF Closed, IoIn, StopIn, Shutting, OnlyManagedStops,
       ManagerInv, ManagerCore
<1>9. Tables'
  BY <1>1, <1>2, ClientAssumption DEF Tables, IoIn, NotStopping, Accepting, ManagerInv,
       ManagerCore
<1>10. FreedChannelOnlyAfterRace'
  BY <1>1, <1>2, ClientAssumption DEF FreedChannelOnlyAfterRace, ManagerInv,
       ManagerCore
<1> QED
  BY <1>3, <1>4, <1>5, <1>6, <1>7, <1>8, <1>9, <1>10 DEF ManagerInv, ManagerCore

-----------------------------------------------------------------------------
(* The messages of one connection on their way: those write() was called    *)
(* with are, in order, the frames that reached the client, then those in    *)
(* write_queue_, then those in handlers that have not run.                  *)
InTransit(a, f, q, p, n) ==
  /\ Len(a) = Len(f) + Len(q) + Len(p)
  /\ \A i \in 1..Len(f) : f[i] \in {a[i], Garbled, Joined}
  /\ \A i \in 1..Len(q) : q[i] = a[Len(f) + i]
  /\ \A i \in 1..Len(p) : p[i] = a[Len(f) + Len(q) + i]
  /\ \A i, j \in 1..Len(a) : i < j => a[i] < a[j]
  /\ \A i \in 1..Len(a) : a[i] <= n

Delivery ==
  \A c \in Client : InTransit(accepted[c], frames[c], tcp[c].queue, tcp[c].posted, sent)

Frame == Msg \cup {Garbled, Joined}

LEMMA TransitSend ==
  ASSUME NEW a \in Seq(Msg), NEW f \in Seq(Frame), NEW q \in Seq(Msg), NEW p \in Seq(Msg),
         NEW n \in Nat, n + 1 \in Msg, InTransit(a, f, q, p, n)
  PROVE  /\ InTransit(Append(a, n + 1), f, q, Append(p, n + 1), n + 1)
         /\ InTransit(a, f, q, p, n + 1)
<1> DEFINE b == Append(a, n + 1)
           r == Append(p, n + 1)
<1>0. Len(a) \in Nat /\ Len(f) \in Nat /\ Len(q) \in Nat /\ Len(p) \in Nat
  BY LenProperties
<1>1. /\ Len(b) = Len(a) + 1 /\ b[Len(a) + 1] = n + 1
      /\ \A i \in 1..Len(a) : b[i] = a[i]
  BY AppendProperties
<1>2. /\ Len(r) = Len(p) + 1 /\ r[Len(p) + 1] = n + 1
      /\ \A i \in 1..Len(p) : r[i] = p[i]
  BY AppendProperties
<1>3. \A i \in 1..Len(a) : a[i] \in Nat /\ a[i] <= n
  <2>1. \A i \in 1..Len(a) : a[i] \in Msg
    BY ElementOfSeq
  <2>2. \A x \in Msg : x \in Nat
    BY SendBoundsAssumption DEF Msg
  <2>3. \A i \in 1..Len(a) : a[i] <= n
    BY DEF InTransit
  <2> QED
    BY <2>1, <2>2, <2>3
<1> HIDE DEF b, r
<1>4. Len(b) = Len(f) + Len(q) + Len(r)
  BY <1>0, <1>1, <1>2 DEF InTransit
<1>5. \A i \in 1..Len(f) : f[i] \in {b[i], Garbled, Joined}
  <2> SUFFICES ASSUME NEW i \in 1..Len(f) PROVE f[i] \in {b[i], Garbled, Joined}
    OBVIOUS
  <2>1. i \in 1..Len(a)
    BY <1>0 DEF InTransit
  <2> QED
    BY <1>1, <2>1 DEF InTransit
<1>6. \A i \in 1..Len(q) : q[i] = b[Len(f) + i]
  <2> SUFFICES ASSUME NEW i \in 1..Len(q) PROVE q[i] = b[Len(f) + i]
    OBVIOUS
  <2>1. Len(f) + i \in 1..Len(a)
    BY <1>0 DEF InTransit
  <2> QED
    BY <1>1, <2>1 DEF InTransit
<1>7. \A i \in 1..Len(r) : r[i] = b[Len(f) + Len(q) + i]
  <2> SUFFICES ASSUME NEW i \in 1..Len(r) PROVE r[i] = b[Len(f) + Len(q) + i]
    OBVIOUS
  <2>1. CASE i \in 1..Len(p)
    <3>1. Len(f) + Len(q) + i \in 1..Len(a)
      BY <1>0, <2>1 DEF InTransit
    <3> QED
      BY <1>1, <1>2, <2>1, <3>1 DEF InTransit
  <2>2. CASE i = Len(p) + 1
    <3>1. Len(f) + Len(q) + i = Len(a) + 1
      BY <1>0, <2>2 DEF InTransit
    <3> QED
      BY <1>1, <1>2, <2>2, <3>1
  <2> QED
    BY <1>0, <1>2, <2>1, <2>2
<1>12. \A i \in 1..Len(b) : i \in 1..Len(a) \/ i = Len(a) + 1
  BY <1>0, <1>1
<1>8. \A i \in 1..Len(b) : b[i] <= n + 1
  <2> SUFFICES ASSUME NEW i \in 1..Len(b) PROVE b[i] <= n + 1
    OBVIOUS
  <2>1. CASE i \in 1..Len(a)
    <3>1. PICK k \in Nat : b[i] = k /\ k <= n
      BY <1>1, <1>3, <2>1
    <3> QED
      BY <3>1
  <2>2. CASE i = Len(a) + 1
    BY <1>1, <2>2
  <2> QED
    BY <1>12, <2>1, <2>2
<1>9. \A i, j \in 1..Len(b) : i < j => b[i] < b[j]
  <2> SUFFICES ASSUME NEW i \in 1..Len(b), NEW j \in 1..Len(b), i < j PROVE b[i] < b[j]
    OBVIOUS
  <2>1. i \in 1..Len(a)
    BY <1>0, <1>1
  <2>2. CASE j \in 1..Len(a)
    BY <1>1, <2>1, <2>2 DEF InTransit
  <2>3. CASE j = Len(a) + 1
    <3>1. PICK k \in Nat : b[i] = k /\ k <= n
      BY <1>1, <1>3, <2>1
    <3>2. b[j] = n + 1
      BY <1>1, <2>3
    <3> QED
      BY <3>1, <3>2
  <2> QED
    BY <1>12, <2>2, <2>3
<1>10. InTransit(b, f, q, r, n + 1)
  BY <1>4, <1>5, <1>6, <1>7, <1>8, <1>9 DEF InTransit
<1>11. InTransit(a, f, q, p, n + 1)
  BY <1>3 DEF InTransit
<1> QED
  BY <1>10, <1>11 DEF b, r

LEMMA TransitPosted ==
  ASSUME NEW a \in Seq(Msg), NEW f \in Seq(Frame), NEW q \in Seq(Msg), NEW p \in Seq(Msg),
         NEW n \in Nat, p # << >>, InTransit(a, f, q, p, n)
  PROVE  InTransit(a, f, Append(q, Head(p)), Tail(p), n)
<1> DEFINE r == Append(q, Head(p))
           o == Tail(p)
<1>0. Len(a) \in Nat /\ Len(f) \in Nat /\ Len(q) \in Nat /\ Len(p) \in Nat
  BY LenProperties
<1>1. /\ Len(p) # 0 /\ Head(p) = p[1] /\ Head(p) \in Msg
      /\ o \in Seq(Msg) /\ Len(o) = Len(p) - 1 /\ \A i \in 1..Len(o) : o[i] = p[i + 1]
  BY HeadTailProperties, EmptySeq
<1>2. /\ Len(r) = Len(q) + 1 /\ r[Len(q) + 1] = p[1]
      /\ \A i \in 1..Len(q) : r[i] = q[i]
  BY <1>1, AppendProperties
<1> HIDE DEF r, o
<1>3. Len(a) = Len(f) + Len(r) + Len(o)
  BY <1>0, <1>1, <1>2 DEF InTransit
<1>4. \A i \in 1..Len(r) : r[i] = a[Len(f) + i]
  <2>1. 1 \in 1..Len(p) /\ p[1] = a[Len(f) + Len(q) + 1]
    BY <1>0, <1>1 DEF InTransit
  <2> SUFFICES ASSUME NEW i \in 1..Len(r) PROVE r[i] = a[Len(f) + i]
    OBVIOUS
  <2>2. CASE i \in 1..Len(q)
    BY <1>2, <2>2 DEF InTransit
  <2>3. CASE i = Len(q) + 1
    <3>1. Len(f) + i = Len(f) + Len(q) + 1
      BY <1>0, <2>3
    <3> QED
      BY <1>2, <2>1, <2>3, <3>1
  <2> QED
    BY <1>0, <1>2, <2>2, <2>3
<1>5. \A i \in 1..Len(o) : o[i] = a[Len(f) + Len(r) + i]
  <2> SUFFICES ASSUME NEW i \in 1..Len(o) PROVE o[i] = a[Len(f) + Len(r) + i]
    OBVIOUS
  <2>1. i + 1 \in 1..Len(p) /\ Len(f) + Len(r) + i = Len(f) + Len(q) + (i + 1)
    BY <1>0, <1>1, <1>2
  <2> QED
    BY <1>1, <2>1 DEF InTransit
<1> QED
  BY <1>3, <1>4, <1>5 DEF InTransit, r, o

LEMMA TransitWritten ==
  ASSUME NEW a \in Seq(Msg), NEW f \in Seq(Frame), NEW q \in Seq(Msg), NEW p \in Seq(Msg),
         NEW n \in Nat, q # << >>, InTransit(a, f, q, p, n),
         NEW e \in {Head(q), Garbled, Joined}
  PROVE  InTransit(a, Append(f, e), Tail(q), p, n)
<1> DEFINE g == Append(f, e)
           o == Tail(q)
<1>0. Len(a) \in Nat /\ Len(f) \in Nat /\ Len(q) \in Nat /\ Len(p) \in Nat
  BY LenProperties
<1>1. /\ Len(q) # 0 /\ Head(q) = q[1] /\ Head(q) \in Msg
      /\ o \in Seq(Msg) /\ Len(o) = Len(q) - 1 /\ \A i \in 1..Len(o) : o[i] = q[i + 1]
  BY HeadTailProperties, EmptySeq
<1>2. /\ Len(g) = Len(f) + 1 /\ g[Len(f) + 1] = e
      /\ \A i \in 1..Len(f) : g[i] = f[i]
  <2>1. e \in Frame
    BY <1>1 DEF Frame
  <2> QED
    BY <2>1, AppendProperties
<1>6. q[1] = a[Len(f) + 1]
  BY <1>0, <1>1 DEF InTransit
<1>7. e \in {q[1], Garbled, Joined}
  BY <1>1
<1> HIDE DEF g, o
<1>3. Len(a) = Len(g) + Len(o) + Len(p)
  BY <1>0, <1>1, <1>2 DEF InTransit
<1>4. \A i \in 1..Len(g) : g[i] \in {a[i], Garbled, Joined}
  <2> SUFFICES ASSUME NEW i \in 1..Len(g) PROVE g[i] \in {a[i], Garbled, Joined}
    OBVIOUS
  <2>1. CASE i \in 1..Len(f)
    BY <1>2, <2>1 DEF InTransit
  <2>2. CASE i = Len(f) + 1
    BY <1>2, <1>6, <1>7, <2>2
  <2> QED
    BY <1>0, <1>2, <2>1, <2>2
<1>5. \A i \in 1..Len(o) : o[i] = a[Len(g) + i]
  <2> SUFFICES ASSUME NEW i \in 1..Len(o) PROVE o[i] = a[Len(g) + i]
    OBVIOUS
  <2>1. i + 1 \in 1..Len(q) /\ Len(g) + i = Len(f) + (i + 1)
    BY <1>0, <1>1, <1>2
  <2> QED
    BY <1>1, <2>1 DEF InTransit
<1>8. \A i \in 1..Len(p) : p[i] = a[Len(g) + Len(o) + i]
  <2> SUFFICES ASSUME NEW i \in 1..Len(p) PROVE p[i] = a[Len(g) + Len(o) + i]
    OBVIOUS
  <2>1. Len(g) + Len(o) + i = Len(f) + Len(q) + i
    BY <1>0, <1>1, <1>2
  <2> QED
    BY <2>1 DEF InTransit
<1> QED
  BY <1>3, <1>4, <1>5, <1>8 DEF InTransit, g, o

-----------------------------------------------------------------------------
(* The inductive invariant of the server's end.                             *)
THEOREM ManagerInvariance == ServerSpec => []ManagerInv
<1>1. ManagerInv /\ [ServerNext]_serverVars => ManagerInv'
  <2> SUFFICES ASSUME ManagerInv, [ServerNext]_serverVars PROVE ManagerInv'
    OBVIOUS
  <2>1. CASE startServer \/ stopServer
    BY <2>1, StartStep, StopBegins
  <2>2. CASE broadcastMessage
    <3>1. clients \in SUBSET Client
      BY DEF ManagerInv, ControlTypes
    <3> QED
      BY <2>2, <3>1, SendStep DEF broadcastMessage
  <2>3. ASSUME NEW c \in Client, sendMessage(c) PROVE ManagerInv'
    BY <2>3, SendStep DEF sendMessage
  <2>4. ASSUME NEW c \in Client, AcceptCompletes(c) \/ PeerConnects(c) \/ PeerLeaves(c)
        PROVE  ManagerInv'
    BY <2>4, PeerSteps
  <2>5. ASSUME NEW c \in Client, Handler(c) PROVE ManagerInv'
    BY <2>5, AcceptStep, ReadStep, MessageSteps, ErrorStep DEF Handler
  <2>6. CASE IoContinues \/ HandleAcceptError
    BY <2>6, AcceptErrorStep, InsertStep, NewConnectionStep, SetHandlerStep, IoCloseStep,
       RemoveStep, RemoveClientStep, EndsStep DEF IoContinues
  <2>7. CASE StopContinues
    BY <2>7, LockStep, TestStep, StopClosesStep, StopRemovesStep, ClearStep, ContextStep, JoinStep
       DEF StopContinues
  <2>8. CASE UNCHANGED serverVars
    <3>1. UNCHANGED <<managed, running, ioStopped, io, stopper, left, active, clients,
                      closeHandler, closedBy, dangling, acceptOp, peer, tcp>>
      BY <2>8 DEF serverVars, acceptVars, tableVars, stopVars, peerVars, historyVars
    <3>2. UNCHANGED <<accepting, acceptorOpen, requests, frames, sent, accepted>>
      BY <2>8 DEF serverVars, acceptVars, peerVars, sendVars
    <3>3. ManagerCore'
      BY <3>1, ControlUnchanged DEF ManagerInv, ManagerCore, Untouched
    <3> QED
      BY <3>1, <3>2, <3>3 DEF ManagerInv, ControlTypes, DataTypes, TcpTypes
  <2> QED
    BY <2>1, <2>2, <2>3, <2>4, <2>5, <2>6, <2>7, <2>8 DEF ServerNext, IoNext
<1> QED
  BY <1>1, ManagerInitHolds, PTL DEF ServerSpec

(* What the tables hold when the io thread is between two handlers.         *)
LEMMA TablesSuffice == ManagerInv => ClientsAreConnected
<1> SUFFICES ASSUME ManagerInv, io = At("idle"), stopper = At("up")
             PROVE  IF managed THEN /\ clients = {c \in Client : tcp[c].connected}
                                    /\ clients \subseteq active
                    ELSE active = {c \in Client : tcp[c].connected}
  BY DEF ClientsAreConnected
<1>1. io[1] = "idle" /\ NotStopping
  BY DEF At, NotStopping
<1>2. clients \subseteq Client /\ active \subseteq Client
  BY DEF ManagerInv, ControlTypes
<1>3. \A c \in Client :
        /\ managed => (c \in clients <=> tcp[c].connected) /\ (c \in clients => c \in active)
        /\ ~managed => (c \in active <=> tcp[c].connected)
  BY <1>1 DEF ManagerInv, ManagerCore, Tables, IoIn
<1> QED
  BY <1>2, <1>3

(* Only a send, a posted handler and a completed write move messages.        *)
LEMMA OthersMoveNothing ==
  ASSUME ManagerInv, ServerNext,
         ~ (\E targets \in SUBSET Client : SendTo(targets)),
         ~ (\E c \in Client : HandlePosted(c) \/ HandleWrite(c))
  PROVE  /\ UNCHANGED <<sent, accepted, frames>>
         /\ \A c \in Client : tcp'[c].queue = tcp[c].queue /\ tcp'[c].posted = tcp[c].posted
<1>0. \A c \in Client : tcp[c] \in Connection
  BY DEF ManagerInv, TcpTypes
<1>1. ~broadcastMessage /\ \A c \in Client : ~sendMessage(c)
  <2>1. clients \in SUBSET Client
    BY DEF ManagerInv, ControlTypes
  <2> QED
    BY <2>1 DEF broadcastMessage, sendMessage
<1>2. \A c \in Client : /\ start(tcp[c]).queue = tcp[c].queue /\ start(tcp[c]).posted = tcp[c].posted
                        /\ CloseSocket(tcp[c]).queue = tcp[c].queue
                        /\ CloseSocket(tcp[c]).posted = tcp[c].posted
                        /\ ReadFailed(tcp[c]).queue = tcp[c].queue
                        /\ ReadFailed(tcp[c]).posted = tcp[c].posted
                        /\ WriteFailed(tcp[c]).queue = tcp[c].queue
                        /\ WriteFailed(tcp[c]).posted = tcp[c].posted
  BY <1>0 DEF start, CloseSocket, ReadFailed, WriteFailed, Connection, ConnectionType
<1>3. ASSUME NEW c \in Client, NEW r, tcp' = [tcp EXCEPT ![c] = r],
             r.queue = tcp[c].queue, r.posted = tcp[c].posted
      PROVE  \A d \in Client : tcp'[d].queue = tcp[d].queue /\ tcp'[d].posted = tcp[d].posted
  BY <1>3 DEF ManagerInv, TcpTypes
<1>4. CASE startServer \/ stopServer \/ StopContinues
  <2>1. UNCHANGED <<sent, accepted, frames>>
    BY <1>4 DEF startServer, stopServer, StopContinues, LockConnections, StopClears, StopContext,
      StopJoins, StopTests, StopCloses, StopRemovesClient, sendVars, peerVars
  <2>2. (\E c \in Client : StopCloses(c)) \/ UNCHANGED tcp
    BY <1>4 DEF startServer, stopServer, StopContinues, LockConnections, StopClears, StopContext,
      StopJoins, StopTests, StopRemovesClient
  <2>3. ASSUME NEW c \in Client, StopCloses(c)
        PROVE  \A d \in Client : tcp'[d].queue = tcp[d].queue /\ tcp'[d].posted = tcp[d].posted
    <3>1. tcp' = [tcp EXCEPT ![c] = CloseSocket(tcp[c])]
      BY <2>3 DEF StopCloses
    <3> QED
      BY <1>2, <1>3, <3>1
  <2> QED
    BY <2>1, <2>2, <2>3
<1>5. CASE IoContinues \/ HandleAcceptError
  <2>1. UNCHANGED <<sent, accepted, frames>>
    BY <1>5 DEF IoContinues, HandleAcceptError, InsertActive, handleNewConnection, SetCloseHandler,
      IoClose, remove_connection, IoRemoveClient, IoEnds, sendVars, peerVars
  <2>2. (\E c \in Client : IoClose(c)) \/ UNCHANGED tcp
    BY <1>5 DEF IoContinues, HandleAcceptError, InsertActive, handleNewConnection, SetCloseHandler,
      remove_connection, IoRemoveClient, IoEnds
  <2>3. ASSUME NEW c \in Client, IoClose(c)
        PROVE  \A d \in Client : tcp'[d].queue = tcp[d].queue /\ tcp'[d].posted = tcp[d].posted
    <3>1. tcp' = [tcp EXCEPT ![c] = CloseSocket(tcp[c])]
      BY <2>3 DEF IoClose
    <3> QED
      BY <1>2, <1>3, <3>1
  <2> QED
    BY <2>1, <2>2, <2>3
<1>6. ASSUME NEW c \in Client, AcceptCompletes(c) \/ PeerConnects(c) \/ PeerLeaves(c) \/ HandleRead(c)
      PROVE  UNCHANGED <<sent, accepted, frames, tcp>>
  BY <1>6 DEF AcceptCompletes, PeerConnects, PeerLeaves, HandleRead, sendVars
<1>7. ASSUME NEW c \in Client, HandleAccept(c)
      PROVE  /\ UNCHANGED <<sent, accepted, frames>>
             /\ \A d \in Client : tcp'[d].queue = tcp[d].queue /\ tcp'[d].posted = tcp[d].posted
  <2>1. tcp' = [tcp EXCEPT ![c] = start(tcp[c])] /\ UNCHANGED <<sent, accepted, frames>>
    BY <1>7 DEF HandleAccept, sendVars, peerVars
  <2> QED
    BY <1>2, <1>3, <2>1
<1>8. ASSUME NEW c \in Client, NEW op \in {"reading", "writing"}, HandleError(c, op)
      PROVE  /\ UNCHANGED <<sent, accepted, frames>>
             /\ \A d \in Client : tcp'[d].queue = tcp[d].queue /\ tcp'[d].posted = tcp[d].posted
  <2>1. \/ tcp' = [tcp EXCEPT ![c] = ReadFailed(tcp[c])]
        \/ tcp' = [tcp EXCEPT ![c] = WriteFailed(tcp[c])]
    BY <1>8 DEF HandleError
  <2>2. UNCHANGED <<sent, accepted, frames>>
    BY <1>8 DEF HandleError, sendVars, peerVars
  <2> QED
    BY <1>2, <1>3, <2>1, <2>2
<1> QED
  BY <1>1, <1>4, <1>5, <1>6, <1>7, <1>8 DEF ServerNext, IoNext, Handler

(* Every message write() accepted is on its way, in its place.               *)
THEOREM MessagesInPlace == ServerSpec => []Delivery
<1>1. ServerInit => Delivery
  <2> SUFFICES ASSUME ServerInit, NEW c \in Client
               PROVE  InTransit(accepted[c], frames[c], tcp[c].queue, tcp[c].posted, sent)
    BY DEF Delivery
  <2>1. /\ accepted[c] = << >> /\ frames[c] = << >> /\ tcp[c].queue = << >>
        /\ tcp[c].posted = << >>
    BY DEF ServerInit, NewConnection
  <2> QED
    BY <2>1 DEF InTransit
<1>2. ManagerInv /\ Delivery /\ [ServerNext]_serverVars => Delivery'
  <2> SUFFICES ASSUME ManagerInv, Delivery, [ServerNext]_serverVars, NEW c \in Client
               PROVE  InTransit(accepted[c], frames[c], tcp[c].queue, tcp[c].posted, sent)'
    BY DEF Delivery
  <2>1. /\ accepted[c] \in Seq(Msg) /\ frames[c] \in Seq(Frame)
        /\ tcp[c] \in Connection /\ tcp[c].queue \in Seq(Msg) /\ tcp[c].posted \in Seq(Msg)
        /\ sent \in Nat
    BY DEF ManagerInv, DataTypes, TcpTypes, Connection, ConnectionType, Frame
  <2>2. InTransit(accepted[c], frames[c], tcp[c].queue, tcp[c].posted, sent)
    BY DEF Delivery
  <2>3. ASSUME NEW targets \in SUBSET Client, SendTo(targets)
        PROVE  InTransit(accepted'[c], frames'[c], tcp'[c].queue, tcp'[c].posted, sent')
    <3>1. sent' = sent + 1 /\ sent + 1 \in Msg /\ frames' = frames
      BY <2>3, SendBoundsAssumption DEF SendTo, peerVars, ManagerInv, DataTypes, Msg
    <3>2. \/ tcp'[c] = tcp[c] /\ accepted'[c] = accepted[c]
          \/ tcp'[c] = write(tcp[c], sent + 1) /\ accepted'[c] = Append(accepted[c], sent + 1)
      BY <2>3 DEF SendTo
    <3>3. /\ write(tcp[c], sent + 1).queue = tcp[c].queue
          /\ write(tcp[c], sent + 1).posted = Append(tcp[c].posted, sent + 1)
      BY <2>1 DEF write, Connection, ConnectionType
    <3> QED
      BY <2>1, <2>2, <3>1, <3>2, <3>3, TransitSend
  <2>4. ASSUME NEW d \in Client, HandlePosted(d)
        PROVE  InTransit(accepted'[c], frames'[c], tcp'[c].queue, tcp'[c].posted, sent')
    <3>1. UNCHANGED <<accepted, frames, sent>> /\ tcp' = [tcp EXCEPT ![d] = RunPosted(tcp[d])]
      BY <2>4 DEF HandlePosted, sendVars, peerVars
    <3>2. CASE d # c
      <4>1. tcp'[c] = tcp[c]
        BY <3>1, <3>2 DEF ManagerInv, TcpTypes
      <4> QED
        BY <2>2, <3>1, <4>1
    <3>3. CASE d = c
      <4>1. tcp'[c] = RunPosted(tcp[c]) /\ tcp[c].posted # << >>
        BY <2>4, <3>1, <3>3 DEF HandlePosted, ManagerInv, TcpTypes
      <4>2. /\ tcp'[c].queue = Append(tcp[c].queue, Head(tcp[c].posted))
            /\ tcp'[c].posted = Tail(tcp[c].posted)
        BY <2>1, <4>1 DEF RunPosted, Connection, ConnectionType
      <4> QED
        BY <2>1, <2>2, <3>1, <4>1, <4>2, TransitPosted
    <3> QED
      BY <3>2, <3>3
  <2>5. ASSUME NEW d \in Client, HandleWrite(d)
        PROVE  InTransit(accepted'[c], frames'[c], tcp'[c].queue, tcp'[c].posted, sent')
    <3>1. UNCHANGED <<accepted, sent>> /\ tcp' = [tcp EXCEPT ![d] = WriteCompleted(tcp[d])]
      BY <2>5 DEF HandleWrite, sendVars
    <3>2. PICK f \in {Head(tcp[d].queue), Garbled, Joined} :
             frames' = [frames EXCEPT ![d] = Append(frames[d], f)]
      BY <2>5 DEF HandleWrite, do_write
    <3>3. CASE d # c
      <4>1. tcp'[c] = tcp[c] /\ frames'[c] = frames[c]
        BY <3>1, <3>2, <3>3 DEF ManagerInv, TcpTypes, DataTypes
      <4> QED
        BY <2>2, <3>1, <4>1
    <3>4. CASE d = c
      <4>1. tcp'[c] = WriteCompleted(tcp[c]) /\ tcp[c].queue # << >>
        BY <2>5, <3>1, <3>4 DEF HandleWrite, ManagerInv, TcpTypes, Sane
      <4>2. tcp'[c].queue = Tail(tcp[c].queue) /\ tcp'[c].posted = tcp[c].posted
        BY <2>1, <4>1 DEF WriteCompleted, Connection, ConnectionType
      <4>3. frames'[c] = Append(frames[c], f) /\ f \in {Head(tcp[c].queue), Garbled, Joined}
        BY <3>2, <3>4 DEF ManagerInv, DataTypes
      <4> QED
        BY <2>1, <2>2, <3>1, <4>1, <4>2, <4>3, TransitWritten
    <3> QED
      BY <3>3, <3>4
  <2>6. CASE UNCHANGED serverVars
    BY <2>2, <2>6 DEF serverVars, sendVars, peerVars
  <2>7. CASE /\ ServerNext
             /\ ~ (\E targets \in SUBSET Client : SendTo(targets))
             /\ ~ (\E d \in Client : HandlePosted(d) \/ HandleWrite(d))
    <3>1. /\ UNCHANGED <<sent, accepted, frames>>
          /\ tcp'[c].queue = tcp[c].queue /\ tcp'[c].posted = tcp[c].posted
      BY <2>7, OthersMoveNothing
    <3> QED
      BY <2>2, <3>1
  <2> QED
    BY <2>3, <2>4, <2>5, <2>6, <2>7
<1> QED
  BY <1>1, <1>2, ManagerInvariance, PTL DEF ServerSpec

LEMMA DeliverySuffices == ManagerInv /\ Delivery => ServerDeliveredInOrder
<1> SUFFICES ASSUME ManagerInv, Delivery, NEW c \in Client
             PROVE  /\ \A i, j \in 1..Len(accepted[c]) : i < j => accepted[c][i] < accepted[c][j]
                    /\ Len(frames[c]) <= Len(accepted[c])
                    /\ \A i \in 1..Len(frames[c]) :
                         ComesThrough(frames[c], i) => frames[c][i] = accepted[c][i]
  BY DEF ServerDeliveredInOrder
<1>1. InTransit(accepted[c], frames[c], tcp[c].queue, tcp[c].posted, sent)
  BY DEF Delivery
<1>2. /\ Len(frames[c]) \in Nat /\ Len(accepted[c]) \in Nat
      /\ Len(tcp[c].queue) \in Nat /\ Len(tcp[c].posted) \in Nat
  BY LenProperties DEF ManagerInv, DataTypes, TcpTypes, Connection, ConnectionType
<1>3. Len(frames[c]) <= Len(accepted[c])
  <2>1. PICK f \in Nat, q \in Nat, p \in Nat :
          f = Len(frames[c]) /\ q = Len(tcp[c].queue) /\ p = Len(tcp[c].posted)
    BY <1>2
  <2>2. Len(accepted[c]) = f + q + p
    BY <1>1, <2>1 DEF InTransit
  <2>3. f <= f + q + p
    OBVIOUS
  <2>4. Len(frames[c]) = f
    BY <2>1
  <2> QED
    BY <2>2, <2>3, <2>4, Zenon
<1>4. \A i \in 1..Len(frames[c]) : ComesThrough(frames[c], i) => frames[c][i] = accepted[c][i]
  BY <1>1 DEF InTransit, ComesThrough
<1> QED
  BY <1>1, <1>3, <1>4 DEF InTransit

(* Messages reach a client in the order of the sends, none repeated and     *)
(* none missing; whenever the io thread is between handlers and the server  *)
(* is not being stopped, clients_ (or active_connections_ of a TcpServer    *)
(* used alone) holds exactly the connected connections; and a               *)
(* MessageChannel is used after its end only when a failed write or stop()  *)
(* closed the connection.                                                   *)
THEOREM TablesAreKept == ServerSpec => []ConnectionsKept
<1>1. ManagerInv /\ Delivery => ConnectionsKept
  BY TablesSuffice, TypeParts, DeliverySuffices DEF ManagerInv, ManagerCore, ConnectionsKept
<1> QED
  BY <1>1, ManagerInvariance, MessagesInPlace, PTL

(* stop() locks connections_mutex_ twice only for a connection it catches   *)
(* between active_connections_.insert and set_close_handler in the accept   *)
(* handler.                                                                 *)
THEOREM StopHangsDuringAccept == ServerSpec => StopHangsOnlyDuringAccept
<1>1. ManagerInv /\ [ServerNext]_serverVars
        => [\A c \in Client :
              StopCloses(c) /\ stopper' = <<"server", c>>
                => io \in {"inserted", "registered"} \X {c}]_serverVars
  <2> SUFFICES ASSUME ManagerInv, NEW c \in Client, StopCloses(c), stopper' = <<"server", c>>
               PROVE  io \in {"inserted", "registered"} \X {c}
    OBVIOUS
  <2>1. stopper[1] = "closing" /\ stopper[2] = c /\ closeHandler[c] = "server"
    BY DEF StopCloses
  <2>2. managed /\ c \in active
    BY <2>1 DEF ManagerInv, ManagerCore, OnlyManagedStops, NotStopping, Held, StopIn, Shutting
  <2>3. io[1] \in {"inserted", "registered"} /\ io[2] = c
    BY <2>1, <2>2 DEF ManagerInv, ManagerCore, Handed, IoIn, Accepting
  <2>4. io = <<io[1], io[2]>>
    BY DEF ManagerInv, ControlTypes, IoPlace, At
  <2> QED
    BY <2>3, <2>4
<1> QED
  BY <1>1, ManagerInvariance, PTL DEF ServerSpec, StopHangsOnlyDuringAccept

-----------------------------------------------------------------------------
(* The client's end.  The messages a client still has are in a line: the    *)
(* frames that reached the server, then write_queue_, then the handlers     *)
(* that have not run, then pendingMessages_.  A message is in it at most    *)
(* once, and stands before an older one only if the older one is in Q, the  *)
(* messages that went through pendingMessages_.                             *)

Follows(x, y, Q) == x \in Message /\ y \in Message => x # y /\ (y < x => y \in Q)
Ordered(s, Q) == \A i, j \in 1..Len(s) : i < j => Follows(s[i], s[j], Q)
After(S, T, Q) == \A x \in S, y \in T : Follows(x, y, Q)
Older(S, n) == \A x \in S : x \in Message => x < n

InLine(w, q, p, d, Q) ==
  /\ Ordered(w, Q) /\ Ordered(q, Q) /\ Ordered(p, Q) /\ Ordered(d, Q)
  /\ After(ToSet(w), ToSet(q) \cup ToSet(p) \cup ToSet(d), Q)
  /\ After(ToSet(q), ToSet(p) \cup ToSet(d), Q)
  /\ After(ToSet(p), ToSet(d), Q)

Everywhere(w, q, p, d) == ToSet(w) \cup ToSet(q) \cup ToSet(p) \cup ToSet(d)

\* The message sendMessage() is about to pass on is in no sequence yet.
Line ==
  /\ InLine(wire, link.queue, link.posted, pending, queued)
  /\ ToSet(pending) \subseteq queued
  /\ Older(Everywhere(wire, link.queue, link.posted, pending), messages + 1)
  /\ sender[1] # "idle" =>
       /\ sender[2] = messages
       /\ Older(Everywhere(wire, link.queue, link.posted, pending), messages)

\* The io thread: connected_ is TRUE through the connection handler, and
\* FALSE through the lookups before it.
Progress ==
  /\ onConnect # "no" => connected /\ ioThread = "running"
  /\ lookup # "none" => ~connected
  /\ established /\ ioThread # "none" => connected
  /\ AbortsOnlyAfterFailedAttempt

\* The status callback, from its registration on.
Reported ==
  ~crossed =>
    /\ watcher \in {"true", "false"} => watcher = AsText(connected)
    /\ watcher = "set" /\ onConnect # "notify" => status = AsText(connected)

Piece == Message \cup {Garbled, Joined}

LEMMA SetOf ==
  ASSUME NEW S, NEW s \in Seq(S)
  PROVE  /\ ToSet(s) \subseteq S
         /\ \A i \in 1..Len(s) : s[i] \in ToSet(s)
         /\ \A x \in ToSet(s) : \E i \in 1..Len(s) : s[i] = x
<1>1. DOMAIN s = 1..Len(s)
  BY LenProperties
<1>2. \A i \in 1..Len(s) : s[i] \in S
  BY ElementOfSeq
<1> QED
  BY <1>1, <1>2, Zenon DEF ToSet

LEMMA SetOfEmpty == ToSet(<< >>) = {}
BY DEF ToSet

LEMMA SetOfAppend ==
  ASSUME NEW S, NEW s \in Seq(S), NEW e \in S
  PROVE  ToSet(Append(s, e)) = ToSet(s) \cup {e}
<1> DEFINE t == Append(s, e)
<1>1. /\ t \in Seq(S) /\ Len(t) = Len(s) + 1 /\ t[Len(s) + 1] = e
      /\ \A i \in 1..Len(s) : t[i] = s[i]
  BY AppendProperties
<1>2. Len(s) \in Nat
  BY LenProperties
<1> HIDE DEF t
<1>3. \A i \in 1..Len(t) : i \in 1..Len(s) \/ i = Len(s) + 1
  BY <1>1, <1>2
<1>4. 1..Len(s) \subseteq 1..Len(t) /\ Len(s) + 1 \in 1..Len(t)
  BY <1>1, <1>2
<1>5. ToSet(t) \subseteq ToSet(s) \cup {e}
  <2> SUFFICES ASSUME NEW x \in ToSet(t), x # e PROVE x \in ToSet(s)
    OBVIOUS
  <2>1. PICK i \in 1..Len(t) : t[i] = x
    BY <1>1, SetOf
  <2>2. i \in 1..Len(s)
    BY <1>1, <1>3, <2>1
  <2> QED
    BY <1>1, <2>1, <2>2, SetOf
<1>6. ToSet(s) \cup {e} \subseteq ToSet(t)
  <2>1. e \in ToSet(t)
    BY <1>1, <1>4, SetOf
  <2>2. ASSUME NEW x \in ToSet(s) PROVE x \in ToSet(t)
    <3>1. PICK i \in 1..Len(s) : s[i] = x
      BY SetOf
    <3>2. i \in 1..Len(t) /\ t[i] = x
      BY <1>1, <1>4, <3>1
    <3> QED
      BY <1>1, <3>2, SetOf
  <2> QED
    BY <2>1, <2>2
<1> QED
  BY <1>5, <1>6 DEF t

LEMMA SetOfConcat ==
  ASSUME NEW S, NEW s \in Seq(S), NEW t \in Seq(S)
  PROVE  ToSet(s \o t) = ToSet(s) \cup ToSet(t)
<1> DEFINE u == s \o t
<1>1. /\ u \in Seq(S) /\ Len(u) = Len(s) + Len(t)
      /\ \A i \in 1..Len(s) + Len(t) : u[i] = IF i <= Len(s) THEN s[i] ELSE t[i - Len(s)]
  BY ConcatProperties
<1>2. Len(s) \in Nat /\ Len(t) \in Nat
  BY LenProperties
<1> HIDE DEF u
<1>3. \A i \in 1..Len(s) : i \in 1..Len(u) /\ u[i] = s[i]
  BY <1>1, <1>2
<1>4. \A i \in 1..Len(t) : i + Len(s) \in 1..Len(u) /\ u[i + Len(s)] = t[i]
  <2> SUFFICES ASSUME NEW i \in 1..Len(t)
               PROVE  i + Len(s) \in 1..Len(u) /\ u[i + Len(s)] = t[i]
    OBVIOUS
  <2>1. PICK a \in Nat, b \in Nat : a = Len(s) /\ b = Len(t)
    BY <1>2
  <2>2. i \in 1..b /\ Len(u) = a + b
    BY <1>1, <2>1
  <2>3. i + a \in 1..a + b /\ ~(i + a <= a) /\ (i + a) - a = i
    BY <2>2
  <2>4. u[i + a] = t[i]
    BY <1>1, <2>1, <2>3
  <2> QED
    BY <2>1, <2>2, <2>3, <2>4, Zenon
<1>5. \A i \in 1..Len(u) : \/ i \in 1..Len(s) /\ u[i] = s[i]
                           \/ i - Len(s) \in 1..Len(t) /\ u[i] = t[i - Len(s)]
  BY <1>1, <1>2
<1>6. ASSUME NEW x \in ToSet(u) PROVE x \in ToSet(s) \cup ToSet(t)
  <2>1. PICK i \in 1..Len(u) : u[i] = x
    BY <1>1, SetOf
  <2>2. CASE i \in 1..Len(s) /\ u[i] = s[i]
    BY <2>1, <2>2, SetOf
  <2>3. CASE i - Len(s) \in 1..Len(t) /\ u[i] = t[i - Len(s)]
    BY <2>1, <2>3, SetOf
  <2> QED
    BY <1>5, <2>2, <2>3
<1>7. ASSUME NEW x \in ToSet(s) PROVE x \in ToSet(u)
  <2>1. PICK i \in 1..Len(s) : s[i] = x
    BY SetOf
  <2> QED
    BY <1>1, <1>3, <2>1, SetOf
<1>8. ASSUME NEW x \in ToSet(t) PROVE x \in ToSet(u)
  <2>1. PICK i \in 1..Len(t) : t[i] = x
    BY SetOf
  <2> QED
    BY <1>1, <1>4, <2>1, SetOf
<1> QED
  BY <1>6, <1>7, <1>8 DEF u

LEMMA SetOfHeadTail ==
  ASSUME NEW S, NEW s \in Seq(S), s # << >>
  PROVE  Head(s) \in ToSet(s) /\ ToSet(Tail(s)) \subseteq ToSet(s)
<1> DEFINE t == Tail(s)
<1>1. /\ Len(s) # 0 /\ Len(s) \in Nat /\ Head(s) = s[1]
      /\ t \in Seq(S) /\ Len(t) = Len(s) - 1 /\ \A i \in 1..Len(t) : t[i] = s[i + 1]
  BY HeadTailProperties, EmptySeq, LenProperties
<1> HIDE DEF t
<1>2. 1 \in 1..Len(s) /\ \A i \in 1..Len(t) : i + 1 \in 1..Len(s)
  BY <1>1
<1>3. ASSUME NEW x \in ToSet(t) PROVE x \in ToSet(s)
  <2>1. PICK i \in 1..Len(t) : t[i] = x
    BY <1>1, SetOf
  <2> QED
    BY <1>1, <1>2, <2>1, SetOf
<1> QED
  BY <1>1, <1>2, <1>3, SetOf DEF t

LEMMA OrderedEmpty == ASSUME NEW Q PROVE Ordered(<< >>, Q)
BY DEF Ordered

LEMMA OrderedAppend ==
  ASSUME NEW S, NEW s \in Seq(S), NEW e \in S, NEW Q, Ordered(s, Q), After(ToSet(s), {e}, Q)
  PROVE  Ordered(Append(s, e), Q)
<1> DEFINE t == Append(s, e)
<1>1. /\ Len(t) = Len(s) + 1 /\ t[Len(s) + 1] = e /\ \A i \in 1..Len(s) : t[i] = s[i]
  BY AppendProperties
<1>2. Len(s) \in Nat
  BY LenProperties
<1> HIDE DEF t
<1>3. \A i, j \in 1..Len(t) : i < j => i \in 1..Len(s) /\ (j \in 1..Len(s) \/ j = Len(s) + 1)
  BY <1>1, <1>2
<1>4. \A i \in 1..Len(s) : Follows(s[i], e, Q)
  BY SetOf DEF After
<1> SUFFICES ASSUME NEW i \in 1..Len(t), NEW j \in 1..Len(t), i < j
             PROVE  Follows(t[i], t[j], Q)
  BY DEF Ordered, t
<1>5. i \in 1..Len(s) /\ t[i] = s[i]
  BY <1>1, <1>3
<1>6. CASE j \in 1..Len(s)
  BY <1>1, <1>5, <1>6 DEF Ordered
<1>7. CASE j = Len(s) + 1
  BY <1>1, <1>4, <1>5, <1>7
<1> QED
  BY <1>3, <1>6, <1>7

LEMMA OrderedTail ==
  ASSUME NEW S, NEW s \in Seq(S), s # << >>, NEW Q, Ordered(s, Q)
  PROVE  Ordered(Tail(s), Q) /\ After({Head(s)}, ToSet(Tail(s)), Q)
<1> DEFINE t == Tail(s)
<1>1. /\ Len(s) # 0 /\ Len(s) \in Nat /\ Head(s) = s[1]
      /\ t \in Seq(S) /\ Len(t) = Len(s) - 1 /\ \A i \in 1..Len(t) : t[i] = s[i + 1]
  BY HeadTailProperties, EmptySeq, LenProperties
<1> HIDE DEF t
<1>2. /\ \A i, j \in 1..Len(t) : i < j => i + 1 \in 1..Len(s) /\ j + 1 \in 1..Len(s) /\ i + 1 < j + 1
      /\ 1 \in 1..Len(s) /\ \A i \in 1..Len(t) : i + 1 \in 1..Len(s) /\ 1 < i + 1
  BY <1>1
<1>3. Ordered(t, Q)
  <2> SUFFICES ASSUME NEW i \in 1..Len(t), NEW j \in 1..Len(t), i < j
               PROVE  Follows(t[i], t[j], Q)
    BY DEF Ordered
  <2>1. Follows(s[i + 1], s[j + 1], Q)
    BY <1>2 DEF Ordered
  <2> QED
    BY <1>1, <2>1
<1>4. ASSUME NEW y \in ToSet(t) PROVE Follows(s[1], y, Q)
  <2>1. PICK i \in 1..Len(t) : t[i] = y
    BY <1>1, SetOf
  <2>2. Follows(s[1], s[i + 1], Q)
    BY <1>2 DEF Ordered
  <2> QED
    BY <1>1, <2>1, <2>2
<1> QED
  BY <1>1, <1>3, <1>4 DEF After, t

LEMMA OrderedConcat ==
  ASSUME NEW S, NEW s \in Seq(S), NEW t \in Seq(S), NEW Q,
         Ordered(s, Q), Ordered(t, Q), After(ToSet(s), ToSet(t), Q)
  PROVE  Ordered(s \o t, Q)
<1> DEFINE u == s \o t
<1>1. /\ u \in Seq(S) /\ Len(u) = Len(s) + Len(t)
      /\ \A i \in 1..Len(s) + Len(t) : u[i] = IF i <= Len(s) THEN s[i] ELSE t[i - Len(s)]
  BY ConcatProperties
<1>2. Len(s) \in Nat /\ Len(t) \in Nat
  BY LenProperties
<1> HIDE DEF u
<1>3. \A i \in 1..Len(u) : \/ i \in 1..Len(s) /\ u[i] = s[i]
                           \/ i - Len(s) \in 1..Len(t) /\ u[i] = t[i - Len(s)]
  BY <1>1, <1>2
<1>4. \A i, j \in Int : i < j => i - Len(s) < j - Len(s)
  BY <1>2
<1>5. \A i, j \in Int : i < j /\ j \in 1..Len(s) => ~(i - Len(s) \in 1..Len(t))
  BY <1>2
<1> SUFFICES ASSUME NEW i \in 1..Len(u), NEW j \in 1..Len(u), i < j
             PROVE  Follows(u[i], u[j], Q)
  BY DEF Ordered, u
<1>6. CASE i \in 1..Len(s) /\ u[i] = s[i] /\ j \in 1..Len(s) /\ u[j] = s[j]
  BY <1>6 DEF Ordered
<1>7. CASE i \in 1..Len(s) /\ u[i] = s[i] /\ j - Len(s) \in 1..Len(t) /\ u[j] = t[j - Len(s)]
  BY <1>7, SetOf DEF After
<1>8. CASE /\ i - Len(s) \in 1..Len(t) /\ u[i] = t[i - Len(s)]
           /\ j - Len(s) \in 1..Len(t) /\ u[j] = t[j - Len(s)]
  <2>1. i - Len(s) < j - Len(s)
    BY <1>4
  <2> QED
    BY <1>8, <2>1 DEF Ordered
<1>9. CASE i - Len(s) \in 1..Len(t) /\ j \in 1..Len(s)
  BY <1>5, <1>9
<1> QED
  BY <1>3, <1>6, <1>7, <1>8, <1>9

LEMMA DamagedFollow ==
  ASSUME NEW e \in {Garbled, Joined}, NEW x, NEW Q
  PROVE  e \notin Message /\ Follows(e, x, Q) /\ Follows(x, e, Q)
BY DamageAssumption DEF Message, Follows

LEMMA NewestFollows ==
  ASSUME NEW S, NEW m \in Message, Older(S, m), NEW Q
  PROVE  After(S, {m}, Q) /\ \A T : T \subseteq Q /\ Older(T, m) => After({m}, T, Q)
<1>1. \A x \in Message : x \in Nat
  BY ClientBoundsAssumption DEF Message
<1> QED
  BY <1>1 DEF Older, After, Follows

LEMMA NewestLast ==
  ASSUME NEW S, NEW m \in Message, Older(S, m), NEW T, T = S \cup {m}
  PROVE  Older(T, m + 1)
<1>1. \A x \in Message : x < m \/ x = m => x < m + 1
  BY ClientBoundsAssumption DEF Message
<1> QED
  BY <1>1 DEF Older

\* The pending messages all went through pendingMessages_.
Within(d, Q) == ToSet(d) \subseteq Q

(* sendMessage() over the channel: the message goes to the end of what is   *)
(* posted, before the pending ones.                                         *)
LEMMA LineSends ==
  ASSUME NEW w \in Seq(Piece), NEW q \in Seq(Message), NEW p \in Seq(Message),
         NEW d \in Seq(Message), NEW Q, NEW m \in Message,
         InLine(w, q, p, d, Q), Within(d, Q), Older(Everywhere(w, q, p, d), m)
  PROVE  /\ InLine(w, q, Append(p, m), d, Q)
         /\ Older(Everywhere(w, q, Append(p, m), d), m + 1)
<1>1. ToSet(Append(p, m)) = ToSet(p) \cup {m}
  BY SetOfAppend
<1>2. /\ After(ToSet(w), {m}, Q) /\ After(ToSet(q), {m}, Q) /\ After(ToSet(p), {m}, Q)
      /\ After({m}, ToSet(d), Q)
  BY NewestFollows DEF Older, Everywhere, Within
<1>3. Ordered(Append(p, m), Q)
  BY <1>2, OrderedAppend DEF InLine
<1>4. InLine(w, q, Append(p, m), d, Q)
  BY <1>1, <1>2, <1>3 DEF InLine, After
<1>5. Everywhere(w, q, Append(p, m), d) = Everywhere(w, q, p, d) \cup {m}
  BY <1>1 DEF Everywhere
<1> QED
  BY <1>4, <1>5, NewestLast

(* sendMessage() without a connection: it goes to the end of the line.      *)
LEMMA LineQueues ==
  ASSUME NEW w \in Seq(Piece), NEW q \in Seq(Message), NEW p \in Seq(Message),
         NEW d \in Seq(Message), NEW Q, NEW m \in Message, NEW R, R = Q \cup {m},
         InLine(w, q, p, d, Q), Within(d, Q), Older(Everywhere(w, q, p, d), m)
  PROVE  /\ InLine(w, q, p, Append(d, m), R) /\ Within(Append(d, m), R)
         /\ Older(Everywhere(w, q, p, Append(d, m)), m + 1)
<1>1. ToSet(Append(d, m)) = ToSet(d) \cup {m}
  BY SetOfAppend
<1>2. /\ After(ToSet(w), {m}, Q) /\ After(ToSet(q), {m}, Q) /\ After(ToSet(p), {m}, Q)
      /\ After(ToSet(d), {m}, Q)
  BY NewestFollows DEF Older, Everywhere
<1>3. Ordered(Append(d, m), Q)
  BY <1>2, OrderedAppend DEF InLine
<1>4. InLine(w, q, p, Append(d, m), Q)
  BY <1>1, <1>2, <1>3 DEF InLine, After
<1>5. InLine(w, q, p, Append(d, m), R)
  BY <1>4 DEF InLine, After, Ordered, Follows
<1>6. Everywhere(w, q, p, Append(d, m)) = Everywhere(w, q, p, d) \cup {m}
  BY <1>1 DEF Everywhere
<1>7. Within(Append(d, m), R)
  BY <1>1 DEF Within
<1> QED
  BY <1>5, <1>6, <1>7, NewestLast

(* A posted handler queues its message.                                     *)
LEMMA LineQueued ==
  ASSUME NEW w \in Seq(Piece), NEW q \in Seq(Message), NEW p \in Seq(Message),
         NEW d \in Seq(Message), NEW Q, p # << >>, InLine(w, q, p, d, Q)
  PROVE  /\ InLine(w, Append(q, Head(p)), Tail(p), d, Q)
         /\ Everywhere(w, Append(q, Head(p)), Tail(p), d) \subseteq Everywhere(w, q, p, d)
<1>1. PICK h \in Message : h = Head(p)
  BY HeadTailProperties
<1>2. h \in ToSet(p) /\ ToSet(Tail(p)) \subseteq ToSet(p)
  BY <1>1, SetOfHeadTail
<1>3. Ordered(Tail(p), Q) /\ After({h}, ToSet(Tail(p)), Q)
  BY <1>1, OrderedTail DEF InLine
<1>4. ToSet(Append(q, h)) = ToSet(q) \cup {h}
  BY SetOfAppend
<1>5. Ordered(Append(q, h), Q)
  <2>1. After(ToSet(q), {h}, Q)
    BY <1>2 DEF InLine, After
  <2> QED
    BY <2>1, OrderedAppend DEF InLine
<1>6. InLine(w, Append(q, h), Tail(p), d, Q)
  BY <1>2, <1>3, <1>4, <1>5 DEF InLine, After
<1> QED
  BY <1>1, <1>2, <1>4, <1>6 DEF Everywhere

(* A write completes: its message, or a damaged frame, reaches the server.  *)
LEMMA LineWritten ==
  ASSUME NEW w \in Seq(Piece), NEW q \in Seq(Message), NEW p \in Seq(Message),
         NEW d \in Seq(Message), NEW Q, q # << >>, InLine(w, q, p, d, Q),
         NEW e \in {Head(q), Garbled, Joined}
  PROVE  /\ InLine(Append(w, e), Tail(q), p, d, Q)
         /\ Everywhere(Append(w, e), Tail(q), p, d) \subseteq Everywhere(w, q, p, d) \cup {Garbled, Joined}
<1>1. Head(q) \in Message /\ e \in Piece
  BY HeadTailProperties DEF Piece
<1>2. Head(q) \in ToSet(q) /\ ToSet(Tail(q)) \subseteq ToSet(q)
  BY SetOfHeadTail
<1>3. Ordered(Tail(q), Q) /\ After({Head(q)}, ToSet(Tail(q)), Q)
  BY OrderedTail DEF InLine
<1>4. ToSet(Append(w, e)) = ToSet(w) \cup {e}
  BY <1>1, SetOfAppend
<1>5. /\ After(ToSet(w), {e}, Q)
      /\ After({e}, ToSet(Tail(q)) \cup ToSet(p) \cup ToSet(d), Q)
  <2>1. CASE e = Head(q)
    BY <1>2, <1>3, <2>1 DEF InLine, After
  <2>2. CASE e \in {Garbled, Joined}
    BY <2>2, DamagedFollow DEF After
  <2> QED
    BY <2>1, <2>2
<1>6. Ordered(Append(w, e), Q)
  BY <1>1, <1>5, OrderedAppend DEF InLine
<1>7. InLine(Append(w, e), Tail(q), p, d, Q)
  BY <1>2, <1>3, <1>4, <1>5, <1>6 DEF InLine, After
<1> QED
  BY <1>2, <1>4, <1>7 DEF Everywhere

(* sendPendingMessages(), with a connection that takes them and one that    *)
(* drops them; and a new connection, with nothing queued.                   *)
LEMMA LineFlushed ==
  ASSUME NEW w \in Seq(Piece), NEW q \in Seq(Message), NEW p \in Seq(Message),
         NEW d \in Seq(Message), NEW Q, InLine(w, q, p, d, Q)
  PROVE  /\ InLine(w, q, p \o d, << >>, Q) /\ InLine(w, q, p, << >>, Q)
         /\ InLine(w, << >>, << >>, d, Q)
         /\ Everywhere(w, q, p \o d, << >>) \subseteq Everywhere(w, q, p, d)
         /\ Everywhere(w, q, p, << >>) \subseteq Everywhere(w, q, p, d)
         /\ Everywhere(w, << >>, << >>, d) \subseteq Everywhere(w, q, p, d)
<1>1. ToSet(p \o d) = ToSet(p) \cup ToSet(d)
  BY SetOfConcat
<1>2. Ordered(p \o d, Q)
  BY OrderedConcat DEF InLine
<1>3. ToSet(<< >>) = {} /\ Ordered(<< >>, Q)
  BY SetOfEmpty, OrderedEmpty
<1>4. InLine(w, q, p \o d, << >>, Q)
  BY <1>1, <1>2, <1>3 DEF InLine, After
<1>5. InLine(w, q, p, << >>, Q) /\ InLine(w, << >>, << >>, d, Q)
  BY <1>3 DEF InLine, After
<1> QED
  BY <1>1, <1>3, <1>4, <1>5 DEF Everywhere

(* What the line says of the frames the server received.                    *)
LEMMA LineSuffices ==
  ASSUME link \in ConnectionType(Message), pending \in Seq(Message), wire \in Seq(Piece), Line
  PROVE  SentAtMostOnce /\ OvertakenOnlyIfQueued
<1>0. link.queue \in Seq(Message) /\ link.posted \in Seq(Message)
  BY DEF ConnectionType
<1>1. \A s \in Seq(Message) : s \in Seq(Piece)
  <2>1. Message \subseteq Piece
    BY DEF Piece
  <2> QED
    BY <2>1, SeqDef
<1>2. PICK q \in Seq(Piece), p \in Seq(Piece) : q = link.queue /\ p = link.posted
  BY <1>0, <1>1
<1>3. Ordered(wire, queued) /\ Ordered(q, queued) /\ Ordered(p, queued)
  BY <1>2 DEF Line, InLine
<1>4. After(ToSet(wire), ToSet(q), queued) /\ After(ToSet(wire) \cup ToSet(q), ToSet(p), queued)
  BY <1>2 DEF Line, InLine, After
<1>5. wire \o q \in Seq(Piece) /\ Ordered(wire \o q, queued) /\ ToSet(wire \o q) = ToSet(wire) \cup ToSet(q)
  BY <1>3, <1>4, OrderedConcat, SetOfConcat, ConcatProperties
<1> DEFINE out == wire \o q \o p
<1>6. out \in Seq(Piece) /\ Ordered(out, queued)
  BY <1>3, <1>4, <1>5, OrderedConcat, ConcatProperties
<1>7. Len(out) \in Nat
  BY <1>6, LenProperties
<1> HIDE DEF out
<1>8. \A i, j \in 1..Len(out) : out[i] = out[j] /\ out[i] \in Message => i = j
  <2> SUFFICES ASSUME NEW i \in 1..Len(out), NEW j \in 1..Len(out),
                      out[i] = out[j], out[i] \in Message, i # j
               PROVE  FALSE
    OBVIOUS
  <2>1. Follows(out[i], out[j], queued) \/ Follows(out[j], out[i], queued)
    BY <1>6, <1>7 DEF Ordered
  <2> QED
    BY <2>1 DEF Follows
<1>9. ToSet(pending) \cap (ToSet(wire) \cup ToSet(link.queue) \cup ToSet(link.posted)) = {}
  <2>1. ToSet(pending) \subseteq Message
    BY SetOf
  <2> QED
    BY <2>1 DEF Line, InLine, After, Follows
<1>10. SentAtMostOnce
  BY <1>2, <1>8, <1>9 DEF SentAtMostOnce, out
<1>11. OvertakenOnlyIfQueued
  <2> SUFFICES ASSUME NEW i \in 1..Len(wire), NEW j \in 1..Len(wire), i < j,
                      ComesThrough(wire, i), ComesThrough(wire, j), wire[j] < wire[i]
               PROVE  wire[j] \in queued
    BY DEF OvertakenOnlyIfQueued
  <2>1. wire[i] \in Message /\ wire[j] \in Message
    <3>1. wire[i] \in Piece /\ wire[j] \in Piece
      BY ElementOfSeq
    <3> QED
      BY <3>1 DEF ComesThrough, Piece
  <2> QED
    BY <1>3, <2>1 DEF Ordered, Follows
<1> QED
  BY <1>10, <1>11

-----------------------------------------------------------------------------
(* The types of the client's variables, apart: those of its control, and    *)
(* those of the messages.                                                   *)
ClientControl ==
  /\ connected \in BOOLEAN /\ channel \in BOOLEAN /\ contextStopped \in BOOLEAN
  /\ serverOpen \in BOOLEAN /\ aborted \in BOOLEAN /\ established \in BOOLEAN
  /\ crossed \in BOOLEAN
  /\ lookup \in {"none", "resolve", "connect"}
  /\ ioThread \in {"none", "running", "finished"}
  /\ onConnect \in {"no", "notify", "flush"}
  /\ caller \in {"idle", "waiting", "stopping", "joining"}
  /\ watcher \in {"unset", "set", "true", "false"}
  /\ status \in {"none", "true", "false"}
  /\ connects \in 0..MaxConnects

ClientMessages ==
  /\ link \in ConnectionType(Message) /\ Sane(link)
  /\ pending \in Seq(Message) /\ wire \in Seq(Piece)
  /\ sender \in {<<"idle", 0>>} \cup ({"queue", "send"} \X Message)
  /\ messages \in 0..MaxMessages
  /\ queued \subseteq Message /\ late \subseteq Message

LEMMA ClientTypeParts == ClientControl /\ ClientMessages => ClientTypeOK
<1> SUFFICES ASSUME ClientControl, ClientMessages PROVE ClientTypeOK
  OBVIOUS
<1>1. {connected, channel, contextStopped, serverOpen, aborted, established, crossed}
        \subseteq BOOLEAN
  BY Zenon DEF ClientControl
<1>2. /\ lookup \in {"none", "resolve", "connect"}
      /\ ioThread \in {"none", "running", "finished"}
      /\ onConnect \in {"no", "notify", "flush"}
      /\ caller \in {"idle", "waiting", "stopping", "joining"}
      /\ watcher \in {"unset", "set", "true", "false"}
      /\ status \in {"none", "true", "false"}
      /\ connects \in 0..MaxConnects
  BY Zenon DEF ClientControl
<1>3. /\ link \in ConnectionType(Message)
      /\ pending \in Seq(Message) /\ wire \in Seq(Message \cup {Garbled, Joined})
      /\ sender \in {<<"idle", 0>>} \cup ({"queue", "send"} \X Message)
      /\ messages \in 0..MaxMessages
      /\ queued \subseteq Message /\ late \subseteq Message
  BY Zenon DEF ClientMessages, Piece
<1> QED
  BY <1>1, <1>2, <1>3, Zenon DEF ClientTypeOK

-----------------------------------------------------------------------------
(* The control: connect(), disconnect(), the io thread and the callback.    *)
ClientSteady == ClientControl /\ Progress /\ Reported

LEMMA AsTextIsText == \A b \in BOOLEAN : AsText(b) \in {"true", "false"}
BY DEF AsText

(* A step that is not about the connection or its status.                   *)
LEMMA ControlKept ==
  ASSUME ClientSteady, ~aborted,
         UNCHANGED <<connected, lookup, ioThread, onConnect, aborted, established, statusVars>>,
         ClientControl'
  PROVE  ClientSteady'
BY DEF ClientSteady, Progress, Reported, statusVars, AbortsOnlyAfterFailedAttempt

LEMMA ConnectSteady == ASSUME ClientSteady, ~aborted, connect PROVE ClientSteady'
<1>1. UNCHANGED <<connected, onConnect, watcher, status, crossed, channel, serverOpen>> /\ ~connected
  BY DEF connect, statusVars, threadVars, socketVars
<1>2. connects' \in 0..MaxConnects
  BY ClientBoundsAssumption DEF connect, ClientSteady, ClientControl
<1>3. CASE ioThread # "none"
  <2>1. aborted' = TRUE /\ UNCHANGED <<lookup, contextStopped, ioThread, caller, established>>
    BY <1>3 DEF connect, threadVars
  <2> QED
    BY <1>1, <1>2, <1>3, <2>1 DEF ClientSteady, ClientControl, Progress, Reported,
      AbortsOnlyAfterFailedAttempt
<1>4. CASE ioThread = "none"
  <2>1. /\ lookup' = "resolve" /\ contextStopped' = FALSE /\ ioThread' = "running"
        /\ caller' = "waiting" /\ established' = FALSE /\ UNCHANGED aborted
    BY <1>4 DEF connect
  <2> QED
    BY <1>1, <1>2, <1>4, <2>1 DEF ClientSteady, ClientControl, Progress, Reported,
      AbortsOnlyAfterFailedAttempt
<1> QED
  BY <1>3, <1>4

(* connected_ becomes FALSE, and the callback is told.                      *)
LEMMA JoinSteady == ASSUME ClientSteady, ~aborted, JoinIoThread PROVE ClientSteady'
<1>1. /\ ioThread = "finished" /\ ioThread' = "none" /\ lookup' = "none" /\ caller' = "idle"
      /\ connected' = FALSE /\ status' = Notify(FALSE)
      /\ UNCHANGED <<onConnect, watcher, contextStopped, channel, serverOpen, connects, aborted,
                     established>>
  BY DEF JoinIoThread, SetConnected, socketVars
<1>2. crossed' \in BOOLEAN /\ (~crossed' => watcher \notin {"true", "false"} /\ ~crossed)
  BY DEF JoinIoThread, SetConnected
<1>3. onConnect = "no"
  BY <1>1 DEF ClientSteady, Progress
<1>4. status' \in {"none", "true", "false"} /\ (watcher # "unset" => status' = "false")
  BY <1>1 DEF Notify, AsText, ClientSteady, ClientControl
<1>5. ClientControl'
  BY <1>1, <1>2, <1>4 DEF ClientSteady, ClientControl
<1>6. Progress'
  BY <1>1, <1>3 DEF ClientSteady, Progress, AbortsOnlyAfterFailedAttempt
<1>7. Reported'
  BY <1>1, <1>2, <1>4 DEF Reported, AsText
<1> QED
  BY <1>5, <1>6, <1>7 DEF ClientSteady

LEMMA LookupSteady ==
  ASSUME ClientSteady, ~aborted, LookupFails \/ connect_to_endpoints
  PROVE  ClientSteady'
<1>1. /\ lookup # "none" /\ ~connected /\ lookup' \in {"none", "connect"}
      /\ UNCHANGED <<ioThread, onConnect, watcher, contextStopped, channel, serverOpen, caller,
                     connects, aborted, established>>
  BY DEF LookupFails, connect_to_endpoints, callVars, socketVars, statusVars, ClientSteady, Progress
<1>2. UNCHANGED <<connected, status, crossed>>
  BY <1>1 DEF LookupFails, connect_to_endpoints, statusVars
<1> QED
  BY <1>1, <1>2 DEF ClientSteady, ClientControl, Progress, Reported, AbortsOnlyAfterFailedAttempt

LEMMA ConnectedSteady == ASSUME ClientSteady, ~aborted, Connected PROVE ClientSteady'
<1>1. /\ ioThread = "running" /\ lookup' = "none" /\ onConnect' = "notify" /\ connected' = TRUE
      /\ channel' = TRUE /\ serverOpen' = TRUE /\ established' = TRUE
      /\ UNCHANGED <<ioThread, contextStopped, caller, connects, aborted, watcher, status>>
  BY DEF Connected, IoFree, SetConnected
<1>2. crossed' \in BOOLEAN /\ (~crossed' => watcher \notin {"true", "false"})
  BY DEF Connected, SetConnected
<1> QED
  BY <1>1, <1>2 DEF ClientSteady, ClientControl, Progress, Reported, AbortsOnlyAfterFailedAttempt

LEMMA NotifySteady == ASSUME ClientSteady, ~aborted, NotifyConnected PROVE ClientSteady'
<1>1. /\ onConnect = "notify" /\ onConnect' = "flush" /\ status' = Notify(TRUE)
      /\ UNCHANGED <<connected, channel, serverOpen, lookup, contextStopped, ioThread, caller,
                     connects, aborted, established, watcher, crossed>>
  BY DEF NotifyConnected, socketVars, callVars
<1>2. status' \in {"none", "true", "false"} /\ (watcher # "unset" => status' = "true")
  BY <1>1 DEF Notify, AsText, ClientSteady, ClientControl
<1>3. connected = TRUE
  BY <1>1 DEF ClientSteady, Progress, ClientControl
<1> QED
  BY <1>1, <1>2, <1>3 DEF ClientSteady, ClientControl, Progress, Reported, AsText,
    AbortsOnlyAfterFailedAttempt

LEMMA RegisterSteady ==
  ASSUME ClientSteady, ~aborted, RegisterReads \/ RegisterCalls
  PROVE  ClientSteady'
<1>1. UNCHANGED <<connected, channel, serverOpen, lookup, contextStopped, ioThread, onConnect,
                  caller, connects, aborted, established, crossed>>
  BY DEF RegisterReads, RegisterCalls, socketVars, threadVars, callVars
<1>2. CASE RegisterReads
  <2>1. watcher' = AsText(connected) /\ status' = status /\ watcher' \in {"true", "false"}
    BY <1>2, AsTextIsText DEF RegisterReads, ClientSteady, ClientControl
  <2> QED
    BY <1>1, <2>1 DEF ClientSteady, ClientControl, Progress, Reported, AbortsOnlyAfterFailedAttempt
<1>3. CASE RegisterCalls
  <2>1. watcher \in {"true", "false"} /\ status' = watcher /\ watcher' = "set"
    BY <1>3 DEF RegisterCalls
  <2> QED
    BY <1>1, <2>1 DEF ClientSteady, ClientControl, Progress, Reported, AbortsOnlyAfterFailedAttempt
<1> QED
  BY <1>2, <1>3

LEMMA FinishSteady ==
  ASSUME ClientSteady, ~aborted, IoThreadFinishes \/ sendPendingMessages
  PROVE  ClientSteady'
<1>1. UNCHANGED <<connected, channel, serverOpen, lookup, contextStopped, caller, connects, aborted,
                  established, watcher, status, crossed>>
  BY DEF IoThreadFinishes, sendPendingMessages, socketVars, callVars, statusVars
<1>2. /\ onConnect' = "no" /\ onConnect # "notify" /\ ioThread # "none"
      /\ ioThread' \in {"running", "finished"}
  BY DEF IoThreadFinishes, sendPendingMessages, ClientSteady, Progress
<1> QED
  BY <1>1, <1>2 DEF ClientSteady, ClientControl, Progress, Reported, AbortsOnlyAfterFailedAttempt

LEMMA ControlSteps == ASSUME ClientSteady, ClientNext PROVE ClientSteady'
<1>0. ~aborted
  BY DEF ClientNext
<1>1. CASE connectReturns \/ disconnect \/ StopContextOfClient
  <2>1. UNCHANGED <<connected, lookup, ioThread, onConnect, aborted, established, statusVars,
                    serverOpen, connects>>
    BY <1>1 DEF connectReturns, disconnect, StopContextOfClient, threadVars, socketVars
  <2>2. channel' \in BOOLEAN /\ contextStopped' \in BOOLEAN
        /\ caller' \in {"idle", "waiting", "stopping", "joining"}
    BY <1>1 DEF connectReturns, disconnect, StopContextOfClient, threadVars, ClientSteady, ClientControl
  <2> QED
    BY <1>0, <2>1, <2>2, ControlKept DEF ClientSteady, ClientControl, statusVars
<1>2. CASE ClientHandlesPosted \/ ClientHandlesWrite \/ ClientHandlesError \/ ServerCloses
           \/ sendMessageTests \/ sendMessageQueues \/ sendMessageSends
  <2>1. UNCHANGED <<connected, channel, threadVars, callVars, statusVars>> /\ serverOpen' \in BOOLEAN
    BY <1>2 DEF ClientHandlesPosted, ClientHandlesWrite, ClientHandlesError, ServerCloses,
      sendMessageTests, sendMessageQueues, sendMessageSends, socketVars, ClientSteady, ClientControl
  <2> QED
    BY <1>0, <2>1, ControlKept DEF ClientSteady, ClientControl, statusVars, threadVars, callVars
<1> QED
  BY <1>0, <1>1, <1>2, ConnectSteady, JoinSteady, LookupSteady, ConnectedSteady, NotifySteady,
     RegisterSteady, FinishSteady
     DEF ClientNext, ClientIoNext, CallerContinues, SenderContinues

-----------------------------------------------------------------------------
(* The messages.                                                            *)
ClientLine == ClientMessages /\ Line

LEMMA OlderMost ==
  ASSUME NEW S, NEW T, NEW n, Older(S, n), T \subseteq S \cup {Garbled, Joined}
  PROVE  Older(T, n)
BY DamagedFollow DEF Older

LEMMA LineParts ==
  ASSUME ClientMessages
  PROVE  /\ link.queue \in Seq(Message) /\ link.posted \in Seq(Message)
         /\ pending \in Seq(Message) /\ wire \in Seq(Piece)
BY DEF ClientMessages, ConnectionType

(* A step that leaves the line alone, or loses some of it.                  *)
LEMMA LineShrinks ==
  ASSUME ClientLine, NEW t \in ConnectionType(Message), Sane(t), link' = t,
         NEW d \in Seq(Message), pending' = d, NEW w \in Seq(Piece), wire' = w,
         UNCHANGED <<sender, messages, queued, late>>,
         InLine(w, t.queue, t.posted, d, queued), ToSet(d) \subseteq ToSet(pending),
         Everywhere(w, t.queue, t.posted, d) \subseteq
           Everywhere(wire, link.queue, link.posted, pending) \cup {Garbled, Joined}
  PROVE  ClientLine'
<1>1. ClientMessages'
  BY DEF ClientLine, ClientMessages
<1>2. Older(Everywhere(w, t.queue, t.posted, d), messages + 1)
  BY OlderMost DEF ClientLine, Line
<1>3. sender[1] # "idle" => Older(Everywhere(w, t.queue, t.posted, d), messages)
  BY OlderMost DEF ClientLine, Line
<1>4. Line'
  BY <1>2, <1>3 DEF ClientLine, Line
<1> QED
  BY <1>1, <1>4 DEF ClientLine

LEMMA LineStays ==
  ASSUME ClientLine, NEW t \in ConnectionType(Message), Sane(t), link' = t,
         t.queue = link.queue, t.posted = link.posted, UNCHANGED <<wire, sendingVars>>
  PROVE  ClientLine'
<1>1. wire' = wire /\ pending' = pending /\ UNCHANGED <<sender, messages, queued, late>>
  BY DEF sendingVars
<1>2. InLine(wire, t.queue, t.posted, pending, queued)
  BY DEF ClientLine, Line
<1> QED
  BY <1>1, <1>2, LineParts, LineShrinks DEF ClientLine

LEMMA MessageLine ==
  ASSUME ClientLine, ClientHandlesPosted \/ ClientHandlesWrite
  PROVE  ClientLine'
<1>1. link \in ConnectionType(Message) /\ Sane(link)
  BY DEF ClientLine, ClientMessages
<1>2. UNCHANGED <<pending, sender, messages, queued, late>>
  BY DEF ClientHandlesPosted, ClientHandlesWrite, sendingVars
<1>3. CASE ClientHandlesPosted
  <2>1. wire' = wire /\ link.posted # << >> /\ link' = RunPosted(link)
    BY <1>3 DEF ClientHandlesPosted
  <2>2. PICK t \in ConnectionType(Message) :
          /\ link' = t /\ Sane(t)
          /\ t.queue = Append(link.queue, Head(link.posted)) /\ t.posted = Tail(link.posted)
    BY <1>1, <2>1, PostedKeeps
  <2>3. /\ InLine(wire, t.queue, t.posted, pending, queued)
        /\ Everywhere(wire, t.queue, t.posted, pending)
             \subseteq Everywhere(wire, link.queue, link.posted, pending)
    BY <2>1, <2>2, LineParts, LineQueued DEF ClientLine, Line
  <2> QED
    BY <1>2, <2>1, <2>2, <2>3, LineParts, LineShrinks DEF ClientLine
<1>4. CASE ClientHandlesWrite
  <2>1. link.writing /\ link' = WriteCompleted(link) /\ link.queue # << >>
    BY <1>1, <1>4 DEF ClientHandlesWrite, Sane
  <2>2. PICK t \in ConnectionType(Message) :
          link' = t /\ Sane(t) /\ t.queue = Tail(link.queue) /\ t.posted = link.posted
    BY <1>1, <2>1, CompletedKeeps
  <2>3. PICK e \in {Head(link.queue), Garbled, Joined} : wire' = Append(wire, e)
    BY <1>4 DEF ClientHandlesWrite, do_write
  <2>4. Append(wire, e) \in Seq(Piece)
    <3>1. e \in Piece
      BY <2>1, LineParts, HeadTailProperties DEF ClientLine, Piece
    <3> QED
      BY <3>1, LineParts, AppendProperties DEF ClientLine
  <2>5. /\ InLine(Append(wire, e), t.queue, t.posted, pending, queued)
        /\ Everywhere(Append(wire, e), t.queue, t.posted, pending)
             \subseteq Everywhere(wire, link.queue, link.posted, pending) \cup {Garbled, Joined}
    BY <2>1, <2>2, LineParts, LineWritten DEF ClientLine, Line
  <2> QED
    BY <1>2, <2>2, <2>3, <2>4, <2>5, LineParts, LineShrinks DEF ClientLine
<1> QED
  BY <1>3, <1>4

(* A new connection: what the old one had queued is lost.                   *)
LEMMA ConnectedLine == ASSUME ClientLine, Connected PROVE ClientLine'
<1>1. wire' = wire /\ UNCHANGED <<pending, sender, messages, queued, late>>
  BY DEF Connected, sendingVars
<1>2. PICK t \in ConnectionType(Message) :
        link' = t /\ Sane(t) /\ t.queue = << >> /\ t.posted = << >>
  <2>1. NewConnection \in ConnectionType(Message) /\ Sane(NewConnection)
        /\ NewConnection.queue = << >> /\ NewConnection.posted = << >>
    BY NewIsSane
  <2>2. link' = start(NewConnection)
    BY DEF Connected
  <2> QED
    BY <2>1, <2>2, StartKeeps
<1>3. /\ InLine(wire, t.queue, t.posted, pending, queued)
      /\ Everywhere(wire, t.queue, t.posted, pending)
           \subseteq Everywhere(wire, link.queue, link.posted, pending)
  BY <1>2, LineParts, LineFlushed DEF ClientLine, Line
<1> QED
  BY <1>1, <1>2, <1>3, LineParts, LineShrinks DEF ClientLine

(* sendPendingMessages() puts the pending messages where they are in line.  *)
LEMMA FlushLine == ASSUME ClientLine, sendPendingMessages PROVE ClientLine'
<1>1. UNCHANGED <<wire, sender, messages, queued, late>>
  BY DEF sendPendingMessages
<1>2. link \in ConnectionType(Message) /\ Sane(link)
  BY DEF ClientLine, ClientMessages
<1>3. << >> \in Seq(Message) /\ ToSet(<< >>) = {}
  BY SetOfEmpty, EmptySeq
<1>4. CASE connected /\ channel /\ is_connected(link)
  <2>1. link' = [link EXCEPT !.posted = link.posted \o pending] /\ pending' = << >>
    BY <1>4 DEF sendPendingMessages
  <2>2. link.posted \o pending \in Seq(Message)
    BY LineParts, ConcatProperties DEF ClientLine
  <2>3. PICK t \in ConnectionType(Message) :
          link' = t /\ Sane(t) /\ t.queue = link.queue /\ t.posted = link.posted \o pending
    <3>1. PICK p \in Seq(Message) : p = link.posted \o pending
      BY <2>2
    <3>2. link' = [link EXCEPT !.posted = p]
      BY <2>1, <3>1
    <3> QED
      <4>1. /\ link' \in ConnectionType(Message) /\ Sane(link')
            /\ link'.queue = link.queue /\ link'.posted = p
        BY <1>2, <3>2 DEF ConnectionType, Sane
      <4> QED
        BY <3>1, <4>1
  <2>4. /\ InLine(wire, t.queue, t.posted, << >>, queued)
        /\ Everywhere(wire, t.queue, t.posted, << >>)
             \subseteq Everywhere(wire, link.queue, link.posted, pending)
    BY <2>3, LineParts, LineFlushed DEF ClientLine, Line
  <2> QED
    BY <1>1, <1>3, <2>1, <2>3, <2>4, LineParts, LineShrinks DEF ClientLine
<1>5. CASE connected /\ channel /\ ~is_connected(link)
  <2>1. link' = link /\ pending' = << >>
    BY <1>5 DEF sendPendingMessages
  <2>2. /\ InLine(wire, link.queue, link.posted, << >>, queued)
        /\ Everywhere(wire, link.queue, link.posted, << >>)
             \subseteq Everywhere(wire, link.queue, link.posted, pending)
    BY LineParts, LineFlushed DEF ClientLine, Line
  <2> QED
    BY <1>1, <1>2, <1>3, <2>1, <2>2, LineParts, LineShrinks DEF ClientLine
<1>6. CASE ~(connected /\ channel)
  <2>1. link' = link /\ pending' = pending
    BY <1>6 DEF sendPendingMessages
  <2> QED
    BY <1>1, <1>2, <2>1, LineStays DEF sendingVars
<1> QED
  BY <1>4, <1>5, <1>6

(* sendMessage() tests connected_: the message is not in the line yet.      *)
LEMMA TestsLine == ASSUME ClientLine, sendMessageTests PROVE ClientLine'
<1>1. UNCHANGED <<link, wire, pending, queued, late>>
  BY DEF sendMessageTests, socketVars
<1>2. PICK m \in Message : m = messages + 1 /\ messages' = m
  BY ClientBoundsAssumption DEF sendMessageTests, ClientLine, ClientMessages, Message
<1>3. m \in 0..MaxMessages /\ m \in Nat /\ messages \in Nat
  BY <1>2, ClientBoundsAssumption DEF Message, ClientLine, ClientMessages
<1>4. sender' = <<"send", m>> \/ sender' = <<"queue", m>>
  BY <1>2 DEF sendMessageTests
<1>5. ClientMessages'
  BY <1>1, <1>2, <1>3, <1>4 DEF ClientLine, ClientMessages
<1>6. /\ Older(Everywhere(wire, link.queue, link.posted, pending), m)
      /\ Older(Everywhere(wire, link.queue, link.posted, pending), m + 1)
  <2>1. \A x \in Message : x < m => x < m + 1
    BY <1>3, ClientBoundsAssumption DEF Message
  <2> QED
    BY <1>2, <2>1 DEF ClientLine, Line, Older
<1>7. Line'
  BY <1>1, <1>2, <1>4, <1>6 DEF ClientLine, Line
<1> QED
  BY <1>5, <1>7 DEF ClientLine

(* The message sendMessage() has at hand is the newest of all.              *)
LEMMA SenderHas ==
  ASSUME ClientLine, sender[1] # "idle"
  PROVE  /\ sender[2] \in Message /\ sender[2] = messages
         /\ Older(Everywhere(wire, link.queue, link.posted, pending), sender[2])
BY DEF ClientLine, ClientMessages, Line

LEMMA QueuesLine == ASSUME ClientLine, sendMessageQueues PROVE ClientLine'
<1>1. UNCHANGED <<link, wire, messages>> /\ sender' = <<"idle", 0>> /\ sender[1] # "idle"
  BY DEF sendMessageQueues, socketVars
<1>2. PICK m \in Message : m = sender[2]
  BY <1>1, SenderHas
<1>3. /\ pending' = Append(pending, m) /\ queued' = queued \cup {m}
      /\ late' \subseteq late \cup {m}
  BY <1>2 DEF sendMessageQueues
<1>4. Append(pending, m) \in Seq(Message)
  BY LineParts, AppendProperties DEF ClientLine
<1>5. ClientMessages'
  BY <1>1, <1>3, <1>4 DEF ClientLine, ClientMessages
<1>6. /\ InLine(wire, link.queue, link.posted, pending, queued)
      /\ Within(pending, queued)
      /\ Older(Everywhere(wire, link.queue, link.posted, pending), m)
  BY <1>1, <1>2, SenderHas DEF ClientLine, Line, Within
<1>7. /\ InLine(wire, link.queue, link.posted, pending', queued')
      /\ Within(pending', queued')
      /\ Older(Everywhere(wire, link.queue, link.posted, pending'), messages + 1)
  BY <1>1, <1>2, <1>3, <1>6, LineParts, LineQueues, SenderHas DEF ClientLine
<1>8. Line'
  BY <1>1, <1>7 DEF ClientLine, Line, Within
<1> QED
  BY <1>5, <1>8 DEF ClientLine

LEMMA SendsLine == ASSUME ClientLine, sendMessageSends PROVE ClientLine'
<1>1. /\ UNCHANGED <<wire, pending, messages, queued, late>>
      /\ sender' = <<"idle", 0>> /\ sender[1] # "idle"
  BY DEF sendMessageSends
<1>2. PICK m \in Message : m = sender[2]
  BY <1>1, SenderHas
<1>3. link \in ConnectionType(Message) /\ Sane(link)
  BY DEF ClientLine, ClientMessages
<1>4. CASE link' = link
  BY <1>1, <1>4 DEF ClientLine, ClientMessages, Line
<1>5. CASE link' = write(link, m)
  <2>1. PICK t \in ConnectionType(Message) :
          /\ link' = t /\ Sane(t)
          /\ t.queue = link.queue /\ t.posted = Append(link.posted, m)
    BY <1>3, <1>5, WriteKeeps
  <2>2. ClientMessages'
    BY <1>1, <2>1 DEF ClientLine, ClientMessages
  <2>3. /\ InLine(wire, link.queue, link.posted, pending, queued)
        /\ Within(pending, queued)
        /\ Older(Everywhere(wire, link.queue, link.posted, pending), m)
    BY <1>1, <1>2, SenderHas DEF ClientLine, Line, Within
  <2>4. /\ InLine(wire, t.queue, t.posted, pending, queued)
        /\ Older(Everywhere(wire, t.queue, t.posted, pending), messages + 1)
    BY <1>1, <1>2, <2>1, <2>3, LineParts, LineSends, SenderHas DEF ClientLine
  <2>5. Line'
    BY <1>1, <2>1, <2>4 DEF ClientLine, Line
  <2> QED
    BY <2>2, <2>5 DEF ClientLine
<1> QED
  BY <1>2, <1>4, <1>5 DEF sendMessageSends

LEMMA LineSteps == ASSUME ClientLine, ClientNext PROVE ClientLine'
<1>0. link \in ConnectionType(Message) /\ Sane(link)
  BY DEF ClientLine, ClientMessages
<1>1. CASE connect \/ connectReturns \/ StopContextOfClient \/ JoinIoThread \/ LookupFails
           \/ connect_to_endpoints \/ NotifyConnected \/ IoThreadFinishes \/ RegisterReads
           \/ RegisterCalls \/ ServerCloses
  <2>1. link' = link /\ UNCHANGED <<wire, sendingVars>>
    BY <1>1 DEF connect, connectReturns, StopContextOfClient, JoinIoThread, LookupFails,
      connect_to_endpoints, NotifyConnected, IoThreadFinishes, RegisterReads, RegisterCalls,
      ServerCloses, socketVars
  <2> QED
    BY <1>0, <2>1, LineStays
<1>2. CASE disconnect \/ ClientHandlesError
  <2>1. UNCHANGED <<wire, sendingVars>>
    BY <1>2 DEF disconnect, ClientHandlesError
  <2>2. PICK t \in {link, ReadFailed(link), WriteFailed(link)} : link' = CloseSocket(t) \/ link' = t
    BY <1>2 DEF disconnect, ClientHandlesError
  <2>3. /\ t \in ConnectionType(Message) /\ Sane(t)
        /\ t.queue = link.queue /\ t.posted = link.posted
    BY <1>0, FailKeeps
  <2>4. /\ CloseSocket(t) \in ConnectionType(Message) /\ Sane(CloseSocket(t))
        /\ CloseSocket(t).queue = link.queue /\ CloseSocket(t).posted = link.posted
    BY <2>3, CloseKeeps
  <2> QED
    BY <2>1, <2>2, <2>3, <2>4, LineStays
<1> QED
  BY <1>1, <1>2, MessageLine, ConnectedLine, FlushLine, TestsLine, QueuesLine, SendsLine
     DEF ClientNext, ClientIoNext, CallerContinues, SenderContinues

(* Only a message pushed while connected_ was TRUE stays behind.            *)
LEMMA StrandedSteps ==
  ASSUME ClientLine, StrandedOnlyByRace, ClientNext
  PROVE  StrandedOnlyByRace'
<1>1. CASE sendMessageQueues
  <2>1. sender[2] \in Message
    BY <1>1, SenderHas DEF sendMessageQueues
  <2>2. ToSet(pending') = ToSet(pending) \cup {sender[2]}
    BY <1>1, <2>1, LineParts, SetOfAppend DEF sendMessageQueues, ClientLine
  <2>3. UNCHANGED <<connected, channel, onConnect>> /\ late' = IF connected THEN late \cup {sender[2]} ELSE late
    BY <1>1 DEF sendMessageQueues, threadVars
  <2> QED
    BY <2>2, <2>3 DEF StrandedOnlyByRace
<1>2. CASE sendPendingMessages
  <2>1. UNCHANGED <<connected, channel>> /\ (connected /\ channel => pending' = << >>)
    BY <1>2 DEF sendPendingMessages
  <2> QED
    BY <2>1, SetOfEmpty DEF StrandedOnlyByRace
<1>3. CASE Connected
  BY <1>3 DEF Connected, StrandedOnlyByRace
<1>4. CASE JoinIoThread \/ LookupFails
  <2>1. UNCHANGED <<pending, late, channel, onConnect>> /\ (connected' => connected)
    BY <1>4 DEF JoinIoThread, LookupFails, sendingVars, SetConnected
  <2> QED
    BY <2>1 DEF StrandedOnlyByRace
<1>5. CASE disconnect
  BY <1>5 DEF disconnect, StrandedOnlyByRace
<1>6. CASE NotifyConnected
  BY <1>6 DEF NotifyConnected, StrandedOnlyByRace
<1>7. CASE connect \/ connectReturns \/ StopContextOfClient \/ connect_to_endpoints
           \/ IoThreadFinishes \/ RegisterReads \/ RegisterCalls \/ ServerCloses
           \/ ClientHandlesPosted \/ ClientHandlesWrite \/ ClientHandlesError
           \/ sendMessageTests \/ sendMessageSends
  <2>1. UNCHANGED <<connected, channel, onConnect, pending, late>>
    BY <1>7 DEF connect, connectReturns, StopContextOfClient, connect_to_endpoints,
      IoThreadFinishes, RegisterReads, RegisterCalls, ServerCloses, ClientHandlesPosted,
      ClientHandlesWrite, ClientHandlesError, sendMessageTests, sendMessageSends, threadVars,
      sendingVars
  <2> QED
    BY <2>1 DEF StrandedOnlyByRace
<1> QED
  BY <1>1, <1>2, <1>3, <1>4, <1>5, <1>6, <1>7
     DEF ClientNext, ClientIoNext, CallerContinues, SenderContinues

-----------------------------------------------------------------------------
(* The inductive invariant of the client's end.                             *)
ClientInv == ClientSteady /\ ClientLine /\ StrandedOnlyByRace

THEOREM ClientInvariance == ClientSpec => []ClientInv
<1>1. ClientInit => ClientInv
  <2> SUFFICES ASSUME ClientInit PROVE ClientInv
    OBVIOUS
  <2>1. ClientSteady
    <3>1. ClientControl
      <4>1. 0 \in 0..MaxConnects
        BY ClientBoundsAssumption
      <4> QED
        BY <4>1 DEF ClientInit, ClientControl
    <3>2. Progress /\ Reported
      BY DEF ClientInit, Progress, Reported, AbortsOnlyAfterFailedAttempt
    <3> QED
      BY <3>1, <3>2 DEF ClientSteady
  <2>2. link \in ConnectionType(Message) /\ Sane(link) /\ link.queue = << >> /\ link.posted = << >>
    BY NewIsSane DEF ClientInit
  <2>3. ToSet(<< >>) = {} /\ \A Q : Ordered(<< >>, Q)
    BY SetOfEmpty, OrderedEmpty
  <2>4. ClientMessages
    BY <2>2, ClientBoundsAssumption DEF ClientInit, ClientMessages
  <2>5. Line
    BY <2>2, <2>3 DEF ClientInit, Line, InLine, After, Older, Everywhere
  <2>6. StrandedOnlyByRace
    BY DEF ClientInit, StrandedOnlyByRace
  <2> QED
    BY <2>1, <2>4, <2>5, <2>6 DEF ClientInv, ClientLine
<1>2. ClientInv /\ [ClientNext]_clientVars => ClientInv'
  <2> SUFFICES ASSUME ClientInv, [ClientNext]_clientVars PROVE ClientInv'
    OBVIOUS
  <2>1. CASE ClientNext
    BY <2>1, ControlSteps, LineSteps, StrandedSteps DEF ClientInv
  <2>2. CASE UNCHANGED clientVars
    <3>1. UNCHANGED <<connected, channel, link, serverOpen, wire, lookup, contextStopped, ioThread,
                      onConnect, caller, connects, aborted, established, pending, sender,
                      messages, queued, late, watcher, status, crossed>>
      BY <2>2 DEF clientVars, socketVars, threadVars, callVars, sendingVars, statusVars
    <3>2. ClientSteady'
      BY <3>1 DEF ClientInv, ClientSteady, ClientControl, Progress, Reported,
        AbortsOnlyAfterFailedAttempt
    <3>3. ClientLine' /\ StrandedOnlyByRace'
      BY <3>1 DEF ClientInv, ClientLine, ClientMessages, Line, StrandedOnlyByRace
    <3> QED
      BY <3>2, <3>3 DEF ClientInv
  <2> QED
    BY <2>1, <2>2
<1> QED
  BY <1>1, <1>2, PTL DEF ClientSpec

(* A client manager sends no message twice and keeps none that it sent;     *)
(* messages overtake each other, or are stranded in pendingMessages_, only  *)
(* by the races of sendMessage() with connected_; the status last reported  *)
(* is connected_ once no thread is on its way; and connect() ends the       *)
(* program only after an attempt that never succeeded.                      *)
THEOREM ClientKeepsMessages == ClientSpec => []MessagesKept
<1>1. ClientInv => MessagesKept
  <2> SUFFICES ASSUME ClientInv PROVE MessagesKept
    OBVIOUS
  <2>1. ClientTypeOK
    BY ClientTypeParts DEF ClientInv, ClientSteady, ClientLine
  <2>2. SentAtMostOnce /\ OvertakenOnlyIfQueued
    BY LineSuffices DEF ClientInv, ClientLine, ClientMessages
  <2>3. StatusIsCurrent
    BY DEF ClientInv, ClientSteady, Reported, StatusIsCurrent
  <2> QED
    BY <2>1, <2>2, <2>3 DEF MessagesKept, ClientInv, ClientSteady, Progress
<1> QED
  BY <1>1, ClientInvariance, PTL

-----------------------------------------------------------------------------
(* The client's document.  An edit is a function of the document; what it   *)
(* keeps is stated once for recordOperation() and carried through the calls *)
(* that end with it.                                                        *)

IsList(s) == \E S : s \in Seq(S)
Kinds == {"INSERT", "DELETE", "REPLACE"}
IsOperation(op) ==
  /\ op = [type |-> op.type, position |-> op.position, text |-> op.text, length |-> op.length,
           timestamp |-> op.timestamp, removed |-> op.removed]
  /\ op.type \in Kinds

LEMMA ListAppend ==
  ASSUME NEW s, IsList(s), NEW x
  PROVE  /\ IsList(Append(s, x)) /\ Len(s) \in Nat /\ Len(Append(s, x)) = Len(s) + 1
         /\ \A i \in 1..Len(s) : Append(s, x)[i] = s[i]
         /\ Append(s, x)[Len(s) + 1] = x
<1>1. PICK S : s \in Seq(S)
  BY DEF IsList
<1>2. s \in Seq(S \cup {x}) /\ x \in S \cup {x}
  BY <1>1
<1>3. Append(s, x) \in Seq(S \cup {x})
  BY <1>2, AppendProperties
<1> QED
  BY <1>2, <1>3, AppendProperties, LenProperties DEF IsList

LEMMA ListTail ==
  ASSUME NEW s, IsList(s), s # << >>
  PROVE  /\ IsList(Tail(s)) /\ Len(s) \in Nat /\ Len(s) >= 1 /\ Len(Tail(s)) = Len(s) - 1
         /\ \A i \in 1..(Len(s) - 1) : Tail(s)[i] = s[i + 1]
<1>1. PICK S : s \in Seq(S)
  BY DEF IsList
<1>2. Len(s) \in Nat /\ Len(s) # 0
  BY <1>1, EmptySeq, LenProperties
<1>3. /\ Tail(s) \in Seq(S) /\ Len(Tail(s)) = Len(s) - 1
      /\ \A i \in 1..(Len(s) - 1) : Tail(s)[i] = s[i + 1]
  BY <1>1, HeadTailProperties
<1> QED
  BY <1>2, <1>3 DEF IsList

LEMMA ListFront ==
  ASSUME NEW s, IsList(s), s # << >>
  PROVE  /\ IsList(Front(s)) /\ Len(s) \in Nat /\ Len(s) >= 1 /\ Len(Front(s)) = Len(s) - 1
         /\ \A i \in 1..(Len(s) - 1) : Front(s)[i] = s[i]
         /\ Last(s) = s[Len(s)]
<1>1. PICK S : s \in Seq(S)
  BY DEF IsList
<1>2. Len(s) \in Nat /\ Len(s) # 0
  BY <1>1, EmptySeq, LenProperties
<1>3. PICK m \in Nat : m = Len(s) - 1
  BY <1>2
<1>4. Front(s) = SubSeq(s, 1, m) /\ Last(s) = s[Len(s)]
  BY <1>3 DEF Front, Last
<1>5. SubSeq(s, 1, m) \in Seq(S) /\ Len(SubSeq(s, 1, m)) = m /\ \A i \in 1..m : SubSeq(s, 1, m)[i] = s[i]
  BY <1>1, <1>2, <1>3
<1>6. Front(s) \in Seq(S) /\ Len(Front(s)) = m /\ \A i \in 1..m : Front(s)[i] = s[i]
  BY <1>4, <1>5
<1>7. IsList(Front(s))
  BY <1>6 DEF IsList
<1> QED
  BY <1>2, <1>3, <1>4, <1>6, <1>7

\* A document as its methods leave it.
Whole(d) ==
  /\ d = [lines |-> d.lines, history |-> d.history, redo |-> d.redo, deleted |-> d.deleted,
          version |-> d.version, notified |-> d.notified]
  /\ d.version \in Nat

HistoryOK(h) ==
  /\ IsList(h) /\ Len(h) <= MaxHistory
  /\ \A i \in 1..Len(h) : IsOperation(h[i])

\* The history h after op was recorded.
Recorded(h, op) == IF Len(h) < MaxHistory THEN Append(h, op) ELSE Append(Tail(h), op)

LEMMA RecordedKeeps ==
  ASSUME NEW h, HistoryOK(h), NEW op, IsOperation(op)
  PROVE  HistoryOK(Recorded(h, op)) /\ Recorded(h, op) # << >>
<1>0. IsList(h) /\ Len(h) <= MaxHistory /\ (\A i \in 1..Len(h) : IsOperation(h[i])) /\ MaxHistory \in Nat /\ MaxHistory >= 1
  BY EditorAssumption DEF HistoryOK
<1>1. ASSUME NEW g, IsList(g), Len(g) < MaxHistory, \A i \in 1..Len(g) : IsOperation(g[i])
      PROVE  HistoryOK(Append(g, op)) /\ Append(g, op) # << >>
  <2>1. /\ IsList(Append(g, op)) /\ Len(g) \in Nat /\ Len(Append(g, op)) = Len(g) + 1
        /\ \A i \in 1..Len(g) : Append(g, op)[i] = g[i]
        /\ Append(g, op)[Len(g) + 1] = op
    BY <1>1, ListAppend
  <2>2. \A i \in 1..(Len(g) + 1) : i \in 1..Len(g) \/ i = Len(g) + 1
    BY <2>1
  <2>3. \A i \in 1..(Len(g) + 1) : IsOperation(Append(g, op)[i])
    BY <1>1, <2>1, <2>2
  <2>4. Len(<< >>) = 0
    OBVIOUS
  <2> QED
    BY <1>0, <1>1, <2>1, <2>3, <2>4 DEF HistoryOK
<1>2. CASE Len(h) < MaxHistory
  BY <1>0, <1>1, <1>2 DEF Recorded
<1>3. CASE ~(Len(h) < MaxHistory)
  <2>0. h # << >>
    BY <1>0, <1>3
  <2>1. /\ IsList(Tail(h)) /\ Len(h) \in Nat /\ Len(Tail(h)) = Len(h) - 1
        /\ \A i \in 1..(Len(h) - 1) : Tail(h)[i] = h[i + 1]
    BY <1>0, <2>0, ListTail
  <2>2. Len(Tail(h)) < MaxHistory /\ \A i \in 1..Len(Tail(h)) : i + 1 \in 1..Len(h)
    BY <1>0, <2>1
  <2>3. \A i \in 1..Len(Tail(h)) : IsOperation(Tail(h)[i])
    BY <1>0, <2>1, <2>2
  <2> QED
    BY <1>1, <1>3, <2>1, <2>2, <2>3 DEF Recorded
<1> QED
  BY <1>2, <1>3

DocumentOK(d) == Whole(d) /\ HistoryOK(d.history)

\* e is d after an edit.
Edited(d, e) ==
  /\ DocumentOK(e) /\ e.version > d.version
  /\ e.redo = << >> /\ e.history # << >>

LEMMA LinesSet ==
  ASSUME NEW d, DocumentOK(d), NEW x
  PROVE  LET e == [d EXCEPT !.lines = x]
         IN /\ DocumentOK(e) /\ e.lines = x
            /\ e.history = d.history /\ e.redo = d.redo /\ e.deleted = d.deleted /\ e.version = d.version
BY DEF DocumentOK, Whole

LEMMA RememberKeeps ==
  ASSUME NEW d, DocumentOK(d), NEW text
  PROVE  LET e == Remember(d, text)
         IN /\ DocumentOK(e) /\ e.lines = d.lines
            /\ e.history = d.history /\ e.redo = d.redo /\ e.version = d.version
            /\ clock \in DOMAIN e.deleted /\ e.deleted[clock] = text
            /\ \A t \in DOMAIN d.deleted : t \in DOMAIN e.deleted /\ (t # clock => e.deleted[t] = d.deleted[t])
BY DEF DocumentOK, Whole, Remember

LEMMA RecordKeeps ==
  ASSUME NEW d, DocumentOK(d), NEW op, IsOperation(op)
  PROVE  LET r == recordOperation(d, op)
         IN /\ DocumentOK(r) /\ r.lines = d.lines /\ r.deleted = d.deleted /\ r.version = d.version
            /\ r.history = Recorded(d.history, op) /\ r.history # << >> /\ r.redo = << >>
<1>1. Whole(d) /\ HistoryOK(d.history)
  BY DEF DocumentOK
<1>2. PICK h : h = Recorded(d.history, op) /\ HistoryOK(h) /\ h # << >>
  BY <1>1, RecordedKeeps
<1> DEFINE a == [d EXCEPT !.history = h]
           r == recordOperation(d, op)
<1>3. r = [d EXCEPT !.history = h, !.redo = << >>]
  BY <1>2 DEF recordOperation, Recorded
<1> HIDE DEF r
<1>4. r = [a EXCEPT !.redo = << >>]
  BY <1>1, <1>3 DEF Whole
<1>5. Whole(a) /\ a.lines = d.lines /\ a.deleted = d.deleted /\ a.version = d.version /\ a.history = h
  BY <1>1 DEF Whole
<1> HIDE DEF a
<1>6. /\ Whole(r) /\ r.lines = a.lines /\ r.deleted = a.deleted /\ r.version = a.version
      /\ r.history = a.history /\ r.redo = << >>
  BY <1>4, <1>5 DEF Whole
<1> QED
  BY <1>2, <1>5, <1>6 DEF DocumentOK, r

LEMMA FinishKeeps ==
  ASSUME NEW d, DocumentOK(d), NEW op, IsOperation(op)
  PROVE  LET e == Finish(d, op)
         IN /\ Edited(d, e) /\ e.lines = d.lines /\ e.deleted = d.deleted
            /\ e.history = Recorded(d.history, op)
<1> DEFINE r == recordOperation(d, op)
           e == Finish(d, op)
<1>1. /\ DocumentOK(r) /\ r.lines = d.lines /\ r.deleted = d.deleted /\ r.version = d.version
      /\ r.history = Recorded(d.history, op) /\ r.history # << >> /\ r.redo = << >>
  BY RecordKeeps
<1>2. PICK x : x = Append(r.notified, op)
  OBVIOUS
<1>3. e = [r EXCEPT !.version = r.version + 1, !.notified = x]
  BY <1>2 DEF Finish
<1> HIDE DEF r, e
<1>4. PICK v \in Nat : v = r.version + 1
  BY <1>1 DEF DocumentOK, Whole
<1> DEFINE a == [r EXCEPT !.version = v]
<1>5. e = [a EXCEPT !.notified = x]
  BY <1>1, <1>3, <1>4 DEF Whole, DocumentOK
<1>6. /\ Whole(a) /\ a.lines = r.lines /\ a.deleted = r.deleted /\ a.version = v
      /\ a.history = r.history /\ a.redo = r.redo
  BY <1>1 DEF Whole, DocumentOK
<1> HIDE DEF a
<1>7. /\ Whole(e) /\ e.lines = a.lines /\ e.deleted = a.deleted /\ e.version = a.version
      /\ e.history = a.history /\ e.redo = a.redo
  BY <1>5, <1>6 DEF Whole
<1>8. e.version > d.version
  BY <1>1, <1>4, <1>6, <1>7 DEF DocumentOK, Whole
<1> QED
  BY <1>1, <1>6, <1>7, <1>8 DEF Edited, DocumentOK, e

LEMMA KindOf ==
  ASSUME NEW type, NEW p, NEW text, NEW n, NEW removed
  PROVE  LET op == DocumentOperation(type, p, text, n, removed)
         IN /\ type \in Kinds => IsOperation(op)
            /\ op.length = n /\ op.timestamp = clock /\ op.removed = removed
BY DEF DocumentOperation, IsOperation

LEMMA InsertEdits ==
  ASSUME NEW d, DocumentOK(d), NEW p, NEW text
  PROVE  /\ ~isValidPosition(d.lines, p) => insertText(d, p, text) = d
         /\ isValidPosition(d.lines, p) =>
              \E lines : LET op == DocumentOperation("INSERT", p, text, 0, << >>)
                         IN insertText(d, p, text) = Finish([d EXCEPT !.lines = lines], op)
         /\ isValidPosition(d.lines, p) => Edited(d, insertText(d, p, text))
<1> DEFINE op == DocumentOperation("INSERT", p, text, 0, << >>)
<1>1. ~isValidPosition(d.lines, p) => insertText(d, p, text) = d
  BY DEF insertText
<1>2. ASSUME isValidPosition(d.lines, p)
      PROVE  \E lines : insertText(d, p, text) = Finish([d EXCEPT !.lines = lines], op)
  <2>1. CASE NL \in ToSet(text)
    <3>1. insertText(d, p, text) = insertMultilineText(d, p, text)
      BY <1>2, <2>1 DEF insertText
    <3>2. \E lines : insertMultilineText(d, p, text) = Finish([d EXCEPT !.lines = lines], op)
      BY Zenon DEF insertMultilineText
    <3> QED
      BY <3>1, <3>2
  <2>2. CASE NL \notin ToSet(text)
    <3>1. insertText(d, p, text) = Finish([d EXCEPT !.lines = ReplaceInLine(d.lines, p, 0, text)], op)
      BY <1>2, <2>2 DEF insertText
    <3> QED
      BY <3>1
  <2> QED
    BY <2>1, <2>2
<1>3. ASSUME isValidPosition(d.lines, p) PROVE Edited(d, insertText(d, p, text))
  <2>1. PICK lines : insertText(d, p, text) = Finish([d EXCEPT !.lines = lines], op)
    BY <1>2, <1>3
  <2> DEFINE c == [d EXCEPT !.lines = lines]
  <2>2. DocumentOK(c) /\ c.version = d.version
    BY LinesSet
  <2>3. IsOperation(op)
    BY KindOf DEF Kinds
  <2> HIDE DEF c, op
  <2>4. Edited(c, Finish(c, op))
    BY <2>2, <2>3, FinishKeeps
  <2> QED
    BY <2>1, <2>2, <2>4 DEF Edited, c
<1> QED
  BY <1>1, <1>2, <1>3

\* What deleteText() and the one-line replaceText() do.
LEMMA RemoveEdits ==
  ASSUME NEW d, DocumentOK(d), NEW lines, NEW text, NEW op, IsOperation(op)
  PROVE  Edited(d, Finish(Remember([d EXCEPT !.lines = lines], text), op))
<1> DEFINE c == [d EXCEPT !.lines = lines]
           e == Remember(c, text)
<1>1. DocumentOK(c) /\ c.version = d.version
  BY LinesSet
<1> HIDE DEF c
<1>2. DocumentOK(e) /\ e.version = d.version
  BY <1>1, RememberKeeps
<1> HIDE DEF e
<1>3. Edited(e, Finish(e, op))
  BY <1>2, FinishKeeps
<1>4. Edited(d, Finish(e, op))
  BY <1>2, <1>3 DEF Edited
<1> QED
  BY <1>4 DEF e, c

\* e is d with some text removed at p, remembered and recorded.
RemovedBy(d, e, p, n) ==
  \E lines, text : e = Finish(Remember([d EXCEPT !.lines = lines], text),
                              DocumentOperation("DELETE", p, << >>, n, text))

LEMMA DeleteEdits ==
  ASSUME NEW d, DocumentOK(d), NEW p, NEW n
  PROVE  /\ ~isValidPosition(d.lines, p) => deleteText(d, p, n) = d
         /\ isValidPosition(d.lines, p) => Edited(d, deleteText(d, p, n))
         /\ isValidPosition(d.lines, p) => RemovedBy(d, deleteText(d, p, n), p, n)
<1> DEFINE op(text) == DocumentOperation("DELETE", p, << >>, n, text)
<1>0. \A text : IsOperation(op(text))
  BY KindOf DEF Kinds
<1> HIDE DEF op
<1>1. ~isValidPosition(d.lines, p) => deleteText(d, p, n) = d
  BY DEF deleteText
<1>2. ASSUME isValidPosition(d.lines, p), FitsLine(d, p, n)
      PROVE  \E lines, text : deleteText(d, p, n) = Finish(Remember([d EXCEPT !.lines = lines], text), op(text))
  <2>1. deleteText(d, p, n) = Finish(Remember([d EXCEPT !.lines = ReplaceInLine(d.lines, p, n, << >>)],
                                              LinePart(d, p, n)), op(LinePart(d, p, n)))
    BY <1>2 DEF deleteText, op
  <2> QED
    BY <2>1
<1>3. ASSUME isValidPosition(d.lines, p), ~FitsLine(d, p, n)
      PROVE  \E lines, text : deleteText(d, p, n) = Finish(Remember([d EXCEPT !.lines = lines], text), op(text))
  <2>1. deleteText(d, p, n) = deleteMultilineText(d, p, n)
    BY <1>3 DEF deleteText
  <2>2. \E lines, text : deleteMultilineText(d, p, n) =
                           Finish(Remember([d EXCEPT !.lines = lines], text), op(text))
    BY Zenon DEF deleteMultilineText, op
  <2> QED
    BY <2>1, <2>2
<1>4. ASSUME isValidPosition(d.lines, p)
      PROVE  \E lines, text : deleteText(d, p, n) = Finish(Remember([d EXCEPT !.lines = lines], text), op(text))
  BY <1>2, <1>3, <1>4
<1>5. ASSUME isValidPosition(d.lines, p) PROVE Edited(d, deleteText(d, p, n))
  BY <1>0, <1>4, <1>5, RemoveEdits
<1>6. ASSUME isValidPosition(d.lines, p) PROVE RemovedBy(d, deleteText(d, p, n), p, n)
  BY <1>4, <1>6, Zenon DEF RemovedBy, op
<1> QED
  BY <1>1, <1>5, <1>6

LEMMA ReplaceEdits ==
  ASSUME NEW d, DocumentOK(d), NEW p, NEW n, NEW text
  PROVE  /\ ~isValidPosition(d.lines, p) => replaceText(d, p, n, text) = d
         /\ isValidPosition(d.lines, p) => Edited(d, replaceText(d, p, n, text))
<1> DEFINE op == DocumentOperation("REPLACE", p, text, n, LinePart(d, p, n))
<1>0. IsOperation(op)
  BY KindOf DEF Kinds
<1> HIDE DEF op
<1>1. ~isValidPosition(d.lines, p) => replaceText(d, p, n, text) = d
  BY DEF replaceText
<1>2. ASSUME isValidPosition(d.lines, p), FitsLine(d, p, n) /\ NL \notin ToSet(text)
      PROVE  \E lines : replaceText(d, p, n, text) =
                          Finish(Remember([d EXCEPT !.lines = lines], LinePart(d, p, n)), op)
  <2>1. replaceText(d, p, n, text) =
          Finish(Remember([d EXCEPT !.lines = ReplaceInLine(d.lines, p, n, text)], LinePart(d, p, n)), op)
    BY <1>2 DEF replaceText, op
  <2> QED
    BY <2>1
<1>3. ASSUME isValidPosition(d.lines, p), ~(FitsLine(d, p, n) /\ NL \notin ToSet(text))
      PROVE  Edited(d, replaceText(d, p, n, text))
  <2> DEFINE e == deleteText(d, p, n)
  <2>1. replaceText(d, p, n, text) = insertText(e, p, text)
    BY <1>3 DEF replaceText
  <2>2. Edited(d, e)
    BY <1>3, DeleteEdits
  <2> HIDE DEF e
  <2>3. DocumentOK(e) /\ e.version > d.version /\ e.version \in Nat /\ d.version \in Nat
    BY <2>2 DEF Edited, DocumentOK, Whole
  <2>4. CASE isValidPosition(e.lines, p)
    <3>1. Edited(e, insertText(e, p, text))
      BY <2>3, <2>4, InsertEdits
    <3> QED
      BY <2>1, <2>3, <3>1 DEF Edited, DocumentOK, Whole
  <2>5. CASE ~isValidPosition(e.lines, p)
    <3>1. insertText(e, p, text) = e
      BY <2>3, <2>5, InsertEdits
    <3> QED
      BY <2>1, <2>2, <3>1
  <2> QED
    BY <2>4, <2>5
<1>4. ASSUME isValidPosition(d.lines, p) PROVE Edited(d, replaceText(d, p, n, text))
  <2>1. CASE FitsLine(d, p, n) /\ NL \notin ToSet(text)
    BY <1>0, <1>2, <1>4, <2>1, RemoveEdits
  <2> QED
    BY <1>3, <1>4, <2>1
<1> QED
  BY <1>1, <1>4

LEMMA SetEdits ==
  ASSUME NEW d, DocumentOK(d), NEW text
  PROVE  /\ Edited(d, setText(d, text)) /\ setText(d, text).deleted = d.deleted
         /\ \E op : /\ IsOperation(op) /\ op.length = 0 /\ op.timestamp = clock
                    /\ setText(d, text).history = Recorded(d.history, op)
<1> DEFINE op == DocumentOperation("REPLACE", CursorPosition(0, 0), text, 0, getText(d.lines))
<1>0. IsOperation(op) /\ op.length = 0 /\ op.timestamp = clock
  BY KindOf DEF Kinds
<1> HIDE DEF op
<1>1. PICK lines : setText(d, text) =
                     [recordOperation([d EXCEPT !.lines = lines], op) EXCEPT
                        !.version = recordOperation([d EXCEPT !.lines = lines], op).version + 1]
  BY Zenon DEF setText, op
<1> DEFINE c == [d EXCEPT !.lines = lines]
           r == recordOperation(c, op)
<1>2. DocumentOK(c) /\ c.version = d.version /\ c.history = d.history /\ c.deleted = d.deleted
  BY LinesSet
<1> HIDE DEF c
<1>3. /\ DocumentOK(r) /\ r.deleted = c.deleted /\ r.version = c.version
      /\ r.history = Recorded(c.history, op) /\ r.history # << >> /\ r.redo = << >>
  BY <1>0, <1>2, RecordKeeps
<1>4. setText(d, text) = [r EXCEPT !.version = r.version + 1]
  BY <1>1 DEF c
<1> HIDE DEF r
<1> DEFINE e == setText(d, text)
<1> HIDE DEF e
<1>5. /\ Whole(e) /\ e.deleted = r.deleted /\ e.version = r.version + 1 /\ e.history = r.history /\ e.redo = r.redo
  BY <1>3, <1>4 DEF DocumentOK, Whole, e
<1>6. e.version > d.version
  BY <1>2, <1>3, <1>5 DEF DocumentOK, Whole
<1>7. Edited(d, e) /\ e.deleted = d.deleted /\ e.history = Recorded(d.history, op)
  BY <1>2, <1>3, <1>5, <1>6 DEF Edited, DocumentOK
<1> QED
  BY <1>0, <1>7 DEF e

LEMMA InverseOf ==
  ASSUME NEW op, IsOperation(op), NEW text
  PROVE  LET inv == createInverse(op, text) IN inv.type \in Kinds /\ inv.position = op.position
<1> DEFINE inv == createInverse(op, text)
<1>0. op.type \in Kinds
  BY DEF IsOperation
<1>1. CASE op.type = "INSERT"
  <2>1. PICK n : n = Len(op.text)
    OBVIOUS
  <2>2. inv = [op EXCEPT !.type = "DELETE", !.text = << >>, !.length = n]
    BY <1>1, <2>1 DEF createInverse
  <2> HIDE DEF inv
  <2>3. inv.type = "DELETE" /\ inv.position = op.position
    BY <2>2 DEF IsOperation
  <2> QED
    BY <2>3 DEF Kinds, inv
<1>2. CASE op.type = "DELETE"
  <2>2. inv = [op EXCEPT !.type = "INSERT", !.text = text, !.length = 0]
    BY <1>2 DEF createInverse
  <2> HIDE DEF inv
  <2>3. inv.type = "INSERT" /\ inv.position = op.position
    BY <2>2 DEF IsOperation
  <2> QED
    BY <2>3 DEF Kinds, inv
<1>3. CASE op.type = "REPLACE"
  <2>1. PICK n : n = Len(op.text)
    OBVIOUS
  <2>2. inv = [op EXCEPT !.text = text, !.length = n]
    BY <1>3, <2>1 DEF createInverse
  <2> HIDE DEF inv
  <2>3. inv.type = op.type /\ inv.position = op.position
    BY <2>2 DEF IsOperation
  <2> QED
    BY <1>0, <2>3 DEF inv
<1> QED
  BY <1>0, <1>1, <1>2, <1>3 DEF Kinds

LEMMA UndoEdits ==
  ASSUME NEW d, DocumentOK(d), d.history # << >>
  PROVE  \/ Undone(d) = d
         \/ DocumentOK(Undone(d)) /\ Undone(d).version > d.version /\ Len(Undone(d).redo) <= 1
<1> DEFINE last == Last(d.history)
           text == IF last.timestamp \in DOMAIN d.deleted THEN d.deleted[last.timestamp] ELSE << >>
           inv == createInverse(last, text)
           done == Perform(d, inv)
<1>1. CASE ~isValidPosition(d.lines, last.position)
  BY <1>1 DEF Undone
<1>2. CASE isValidPosition(d.lines, last.position)
  <2>1. IsOperation(last)
    <3>1. last = d.history[Len(d.history)] /\ Len(d.history) \in Nat /\ Len(d.history) >= 1
      BY ListFront DEF DocumentOK, HistoryOK
    <3>2. Len(d.history) \in 1..Len(d.history)
      BY <3>1
    <3> QED
      BY <3>1, <3>2 DEF DocumentOK, HistoryOK
  <2>2. PICK u : Undone(d) = u /\ u = [done EXCEPT !.history = Front(done.history),
                    !.deleted = [t \in DOMAIN done.deleted \ {last.timestamp} |-> done.deleted[t]],
                    !.redo = Append(done.redo, last), !.version = done.version + 1]
    BY <1>2, Zenon DEF Undone
  <2> HIDE DEF last, text
  <2>3. inv.type \in Kinds /\ inv.position = last.position
    BY <2>1, InverseOf
  <2> HIDE DEF inv
  <2>4. Edited(d, done)
    <3>1. isValidPosition(d.lines, inv.position)
      BY <1>2, <2>3
    <3>2. \/ done = insertText(d, inv.position, inv.text)
          \/ done = deleteText(d, inv.position, inv.length)
          \/ done = replaceText(d, inv.position, inv.length, inv.text)
      BY <2>3 DEF Perform, Kinds
    <3> QED
      BY <3>1, <3>2, InsertEdits, DeleteEdits, ReplaceEdits
  <2> HIDE DEF done
  <2>5. PICK h, del, r : /\ h = Front(done.history) /\ r = Append(done.redo, last)
                         /\ del = [t \in DOMAIN done.deleted \ {last.timestamp} |-> done.deleted[t]]
    OBVIOUS
  <2>6. PICK v \in Nat : v = done.version + 1
    BY <2>4 DEF Edited, DocumentOK, Whole
  <2>7. u = [done EXCEPT !.history = h, !.deleted = del, !.redo = r, !.version = v]
    BY <2>2, <2>5, <2>6
  <2>8. Whole(u) /\ u.history = h /\ u.redo = r /\ u.version = v
    <3> DEFINE a == [done EXCEPT !.history = h]
               b == [a EXCEPT !.deleted = del]
               c == [b EXCEPT !.redo = r]
    <3>0. Whole(done)
      BY <2>4 DEF Edited, DocumentOK
    <3>1. u = [c EXCEPT !.version = v]
      BY <2>7, <3>0 DEF Whole
    <3>2. Whole(a) /\ a.history = h
      BY <3>0 DEF Whole
    <3> HIDE DEF a
    <3>3. Whole(b) /\ b.history = h
      BY <3>2 DEF Whole
    <3> HIDE DEF b
    <3>4. Whole(c) /\ c.history = h /\ c.redo = r
      BY <3>3 DEF Whole
    <3> HIDE DEF c
    <3> QED
      BY <3>1, <3>4 DEF Whole
  <2>9. HistoryOK(h)
    <3>1. IsList(done.history) /\ done.history # << >> /\ Len(done.history) <= MaxHistory
          /\ \A i \in 1..Len(done.history) : IsOperation(done.history[i])
      BY <2>4 DEF Edited, DocumentOK, HistoryOK
    <3>2. /\ IsList(h) /\ Len(done.history) \in Nat /\ Len(done.history) >= 1
          /\ Len(h) = Len(done.history) - 1
          /\ \A i \in 1..(Len(done.history) - 1) : h[i] = done.history[i]
      BY <2>5, <3>1, ListFront
    <3>3. \A i \in 1..Len(h) : i \in 1..Len(done.history) /\ i \in 1..(Len(done.history) - 1)
      BY <3>2
    <3>4. Len(h) <= MaxHistory
      BY <3>1, <3>2, EditorAssumption
    <3> QED
      BY <3>1, <3>2, <3>3, <3>4 DEF HistoryOK
  <2>10. Len(r) <= 1
    <3>1. r = Append(<< >>, last)
      BY <2>4, <2>5 DEF Edited
    <3> QED
      BY <3>1
  <2>11. v > d.version
    BY <2>4, <2>6 DEF Edited, DocumentOK, Whole
  <2> QED
    BY <2>2, <2>8, <2>9, <2>10, <2>11 DEF DocumentOK
<1> QED
  BY <1>1, <1>2

\* The newest operation of each millisecond finds what it removed.
Remembered(h, del) ==
  \A i \in 1..Len(h) :
    /\ h[i].length > 0
    /\ \A j \in (i + 1)..Len(h) : h[j].timestamp # h[i].timestamp
    => h[i].timestamp \in DOMAIN del /\ del[h[i].timestamp] = h[i].removed

LEMMA TailRemembered ==
  ASSUME NEW h, IsList(h), h # << >>, NEW del, Remembered(h, del)
  PROVE  Remembered(Tail(h), del)
<1> DEFINE g == Tail(h)
<1>1. /\ Len(h) \in Nat /\ Len(h) >= 1 /\ Len(g) = Len(h) - 1
      /\ \A i \in 1..(Len(h) - 1) : g[i] = h[i + 1]
  BY ListTail
<1> HIDE DEF g
<1> SUFFICES ASSUME NEW i \in 1..Len(g), g[i].length > 0,
                    \A j \in (i + 1)..Len(g) : g[j].timestamp # g[i].timestamp
             PROVE  g[i].timestamp \in DOMAIN del /\ del[g[i].timestamp] = g[i].removed
  BY DEF Remembered, g
<1>2. i + 1 \in 1..Len(h) /\ g[i] = h[i + 1]
  BY <1>1
<1>3. ASSUME NEW j \in ((i + 1) + 1)..Len(h) PROVE h[j].timestamp # h[i + 1].timestamp
  <2>1. j - 1 \in (i + 1)..Len(g) /\ j - 1 \in 1..(Len(h) - 1) /\ (j - 1) + 1 = j
    BY <1>1
  <2>2. g[j - 1] = h[j]
    BY <1>1, <2>1
  <2> QED
    BY <1>2, <2>1, <2>2
<1> QED
  BY <1>2, <1>3 DEF Remembered

LEMMA AppendRemembered ==
  ASSUME NEW h, IsList(h), NEW del, Remembered(h, del), NEW op, NEW new,
         \A t \in DOMAIN del : t # op.timestamp => t \in DOMAIN new /\ new[t] = del[t],
         op.length > 0 => op.timestamp \in DOMAIN new /\ new[op.timestamp] = op.removed
  PROVE  Remembered(Append(h, op), new)
<1> DEFINE g == Append(h, op)
           n == Len(h)
<1>1. n \in Nat /\ Len(g) = n + 1 /\ (\A i \in 1..n : g[i] = h[i]) /\ g[n + 1] = op
  BY ListAppend
<1> HIDE DEF g, n
<1> SUFFICES ASSUME NEW i \in 1..Len(g), g[i].length > 0,
                    \A j \in (i + 1)..Len(g) : g[j].timestamp # g[i].timestamp
             PROVE  g[i].timestamp \in DOMAIN new /\ new[g[i].timestamp] = g[i].removed
  BY DEF Remembered, g
<1>2. CASE i = n + 1
  BY <1>1, <1>2
<1>3. CASE i \in 1..n
  <2>1. g[i] = h[i] /\ n + 1 \in (i + 1)..Len(g)
    BY <1>1, <1>3
  <2>2. op.timestamp # h[i].timestamp
    BY <1>1, <2>1
  <2>3. \A j \in (i + 1)..n : j \in (i + 1)..Len(g) /\ g[j] = h[j]
    BY <1>1, <1>3
  <2>4. \A j \in (i + 1)..n : h[j].timestamp # h[i].timestamp
    BY <2>1, <2>3
  <2>5. h[i].timestamp \in DOMAIN del /\ del[h[i].timestamp] = h[i].removed
    BY <1>3, <2>1, <2>4 DEF Remembered, n
  <2> QED
    BY <2>1, <2>2, <2>5
<1> QED
  BY <1>1, <1>2, <1>3

LEMMA RecordRemembered ==
  ASSUME NEW h, HistoryOK(h), NEW del, Remembered(h, del), NEW op, NEW new,
         \A t \in DOMAIN del : t # op.timestamp => t \in DOMAIN new /\ new[t] = del[t],
         op.length > 0 => op.timestamp \in DOMAIN new /\ new[op.timestamp] = op.removed
  PROVE  Remembered(Recorded(h, op), new)
<1>0. IsList(h) /\ Len(h) <= MaxHistory /\ MaxHistory \in Nat /\ MaxHistory >= 1
  BY EditorAssumption DEF HistoryOK
<1>1. CASE Len(h) < MaxHistory
  BY <1>0, <1>1, AppendRemembered DEF Recorded
<1>2. CASE ~(Len(h) < MaxHistory)
  <2>0. h # << >>
    BY <1>0, <1>2
  <2>1. IsList(Tail(h)) /\ Remembered(Tail(h), del)
    BY <1>0, <2>0, ListTail, TailRemembered
  <2> QED
    BY <1>2, <2>1, AppendRemembered DEF Recorded
<1> QED
  BY <1>1, <1>2

\* An edit that removes a text and records the operation keeps the text.
LEMMA RemoveRemembered ==
  ASSUME NEW d, DocumentOK(d), Remembered(d.history, d.deleted), NEW lines, NEW text,
         NEW op, IsOperation(op), op.removed = text, op.timestamp = clock,
         NEW e, e = Finish(Remember([d EXCEPT !.lines = lines], text), op)
  PROVE  Remembered(e.history, e.deleted)
<1> DEFINE a == [d EXCEPT !.lines = lines]
           b == Remember(a, text)
<1>1. DocumentOK(a) /\ a.history = d.history /\ a.deleted = d.deleted
  BY LinesSet
<1> HIDE DEF a
<1>2. /\ DocumentOK(b) /\ b.history = d.history
      /\ clock \in DOMAIN b.deleted /\ b.deleted[clock] = text
      /\ \A t \in DOMAIN d.deleted : t \in DOMAIN b.deleted /\ (t # clock => b.deleted[t] = d.deleted[t])
  BY <1>1, RememberKeeps
<1> HIDE DEF b
<1>3. e.history = Recorded(d.history, op) /\ e.deleted = b.deleted
  <2>1. e = Finish(b, op)
    BY DEF a, b
  <2> QED
    BY <1>2, <2>1, FinishKeeps
<1>4. /\ \A t \in DOMAIN d.deleted : t # op.timestamp => t \in DOMAIN b.deleted /\ b.deleted[t] = d.deleted[t]
      /\ op.length > 0 => op.timestamp \in DOMAIN b.deleted /\ b.deleted[op.timestamp] = op.removed
  BY <1>2
<1> QED
  BY <1>3, <1>4, RecordRemembered DEF DocumentOK

\* The edits keep what is remembered, also one that is made of two.
LEMMA InsertRemembered ==
  ASSUME NEW d, DocumentOK(d), Remembered(d.history, d.deleted), NEW p, NEW t,
         NEW e, e = insertText(d, p, t)
  PROVE  Remembered(e.history, e.deleted)
<1> DEFINE op == DocumentOperation("INSERT", p, t, 0, << >>)
<1>1. CASE ~isValidPosition(d.lines, p)
  BY <1>1, InsertEdits
<1>2. CASE isValidPosition(d.lines, p)
  <2>1. PICK lines : e = Finish([d EXCEPT !.lines = lines], op)
    BY <1>2, InsertEdits
  <2> DEFINE c == [d EXCEPT !.lines = lines]
  <2>2. DocumentOK(c) /\ c.history = d.history /\ c.deleted = d.deleted
    BY LinesSet
  <2>3. IsOperation(op) /\ ~(op.length > 0)
    BY KindOf DEF Kinds
  <2>4. e = Finish(c, op)
    BY <2>1
  <2> HIDE DEF c, op
  <2>5. e.history = Recorded(d.history, op) /\ e.deleted = d.deleted
    BY <2>2, <2>3, <2>4, FinishKeeps
  <2> QED
    BY <2>3, <2>5, RecordRemembered DEF DocumentOK
<1> QED
  BY <1>1, <1>2

LEMMA DeleteRemembered ==
  ASSUME NEW d, DocumentOK(d), Remembered(d.history, d.deleted), NEW p, NEW n,
         NEW e, e = deleteText(d, p, n)
  PROVE  Remembered(e.history, e.deleted)
<1>1. CASE ~isValidPosition(d.lines, p)
  BY <1>1, DeleteEdits
<1>2. CASE isValidPosition(d.lines, p)
  <2>0. RemovedBy(d, e, p, n)
    BY <1>2, DeleteEdits
  <2>1. PICK lines, text : e = Finish(Remember([d EXCEPT !.lines = lines], text),
                                      DocumentOperation("DELETE", p, << >>, n, text))
    BY <2>0, Zenon DEF RemovedBy
  <2> DEFINE op == DocumentOperation("DELETE", p, << >>, n, text)
  <2>2. IsOperation(op) /\ op.removed = text /\ op.timestamp = clock
    BY KindOf DEF Kinds
  <2>3. e = Finish(Remember([d EXCEPT !.lines = lines], text), op)
    BY <2>1
  <2> HIDE DEF op
  <2> QED
    BY <2>2, <2>3, RemoveRemembered
<1> QED
  BY <1>1, <1>2

LEMMA ReplaceRemembered ==
  ASSUME NEW d, DocumentOK(d), Remembered(d.history, d.deleted), NEW p, NEW n, NEW t,
         NEW e, e = replaceText(d, p, n, t)
  PROVE  Remembered(e.history, e.deleted)
<1>1. CASE ~isValidPosition(d.lines, p)
  BY <1>1, ReplaceEdits
<1>2. CASE isValidPosition(d.lines, p) /\ (~FitsLine(d, p, n) \/ NL \in ToSet(t))
  <2> DEFINE c == deleteText(d, p, n)
  <2>1. e = insertText(c, p, t)
    BY <1>2 DEF replaceText
  <2>2. DocumentOK(c)
    BY <1>2, DeleteEdits DEF Edited
  <2>3. Remembered(c.history, c.deleted)
    BY DeleteRemembered
  <2> HIDE DEF c
  <2> QED
    BY <2>1, <2>2, <2>3, InsertRemembered
<1>3. CASE isValidPosition(d.lines, p) /\ ~(~FitsLine(d, p, n) \/ NL \in ToSet(t))
  <2> DEFINE gone == LinePart(d, p, n)
             op == DocumentOperation("REPLACE", p, t, n, gone)
             new == ReplaceInLine(d.lines, p, n, t)
  <2>1. e = Finish(Remember([d EXCEPT !.lines = new], gone), op)
    BY <1>3 DEF replaceText
  <2>2. IsOperation(op) /\ op.removed = gone /\ op.timestamp = clock
    BY KindOf DEF Kinds
  <2> HIDE DEF op, gone, new
  <2> QED
    BY <2>1, <2>2, RemoveRemembered
<1> QED
  BY <1>1, <1>2, <1>3

-----------------------------------------------------------------------------
(* The calls.                                                               *)

\* The inductive invariant.  What the history has removed is known until an
\* undo() gets past the lock: it takes the text out again and leaves the
\* operation in the history.
EditorInv ==
  /\ DocumentOK(doc) /\ Len(doc.redo) <= 1
  /\ ~undone => Remembered(doc.history, doc.deleted)

LEMMA FreshKeeps ==
  ASSUME DocumentOK(doc)
  PROVE  /\ DocumentOK(Fresh) /\ Fresh.lines = doc.lines /\ Fresh.history = doc.history
         /\ Fresh.redo = doc.redo /\ Fresh.deleted = doc.deleted /\ Fresh.version = doc.version
BY DEF DocumentOK, Whole, Fresh

LEMMA EditorStarts == EditorInit => EditorInv
<1> SUFFICES ASSUME EditorInit PROVE EditorInv
  OBVIOUS
<1>1. /\ doc.lines = << << >> >> /\ doc.history = << >> /\ doc.redo = << >> /\ doc.deleted = << >>
      /\ doc.version = 0 /\ doc.notified = << >>
  BY DEF EditorInit, NewDocument
<1>2. Whole(doc)
  BY <1>1 DEF EditorInit, NewDocument, Whole
<1>3. << >> \in Seq({}) /\ Len(<< >>) = 0
  OBVIOUS
<1>4. IsList(<< >>)
  BY <1>3 DEF IsList
<1>5. HistoryOK(doc.history)
  BY <1>1, <1>3, <1>4, EditorAssumption DEF HistoryOK
<1>6. Remembered(doc.history, doc.deleted)
  BY <1>1, <1>3 DEF Remembered
<1> QED
  BY <1>1, <1>2, <1>3, <1>5, <1>6 DEF EditorInv, DocumentOK

\* What a call that returns with the document e has to show.
Stepped(e) ==
  /\ DocumentOK(e) /\ Len(e.redo) <= 1
  /\ ~undone' => Remembered(e.history, e.deleted)
  /\ e.version >= doc.version
  /\ e.lines # doc.lines => e.version > doc.version

LEMMA EditSteps ==
  ASSUME DocumentOK(doc), NEW e, Edited(Fresh, e), ~undone' => Remembered(e.history, e.deleted)
  PROVE  Stepped(e)
<1>1. Fresh.version = doc.version /\ doc.version \in Nat
  BY FreshKeeps DEF DocumentOK, Whole
<1>2. DocumentOK(e) /\ e.version > doc.version /\ e.version \in Nat /\ e.redo = << >>
  BY <1>1 DEF Edited, DocumentOK, Whole
<1>3. Len(e.redo) <= 1
  BY <1>2
<1>4. e.version >= doc.version
  BY <1>1, <1>2
<1> QED
  BY <1>2, <1>3, <1>4 DEF Stepped

LEMMA NoEditSteps == ASSUME EditorInv, undone' = undone PROVE Stepped(Fresh)
<1>1. doc.version \in Nat
  BY DEF EditorInv, DocumentOK, Whole
<1>2. /\ DocumentOK(Fresh) /\ Fresh.lines = doc.lines /\ Fresh.history = doc.history
      /\ Fresh.redo = doc.redo /\ Fresh.deleted = doc.deleted /\ Fresh.version = doc.version
  BY FreshKeeps DEF EditorInv
<1> QED
  BY <1>1, <1>2 DEF Stepped, EditorInv

LEMMA InsertSteps ==
  ASSUME EditorInv, undone' = undone, NEW p, NEW t
  PROVE  Stepped(insertText(Fresh, p, t))
<1> DEFINE e == insertText(Fresh, p, t)
<1>0. DocumentOK(doc) /\ DocumentOK(Fresh) /\ Fresh.history = doc.history /\ Fresh.deleted = doc.deleted
  BY FreshKeeps DEF EditorInv
<1>1. CASE ~isValidPosition(Fresh.lines, p)
  BY <1>0, <1>1, InsertEdits, NoEditSteps
<1>2. CASE isValidPosition(Fresh.lines, p)
  <2>1. Edited(Fresh, e)
    BY <1>0, <1>2, InsertEdits
  <2>2. ASSUME ~undone PROVE Remembered(e.history, e.deleted)
    BY <1>0, <2>2, InsertRemembered DEF EditorInv
  <2> QED
    BY <1>0, <2>1, <2>2, EditSteps
<1> QED
  BY <1>1, <1>2

LEMMA DeleteSteps ==
  ASSUME EditorInv, undone' = undone, NEW p, NEW n
  PROVE  Stepped(deleteText(Fresh, p, n))
<1> DEFINE e == deleteText(Fresh, p, n)
<1>0. DocumentOK(doc) /\ DocumentOK(Fresh) /\ Fresh.history = doc.history /\ Fresh.deleted = doc.deleted
  BY FreshKeeps DEF EditorInv
<1>1. CASE ~isValidPosition(Fresh.lines, p)
  BY <1>0, <1>1, DeleteEdits, NoEditSteps
<1>2. CASE isValidPosition(Fresh.lines, p)
  <2>1. Edited(Fresh, e)
    BY <1>0, <1>2, DeleteEdits
  <2>2. ASSUME ~undone PROVE Remembered(e.history, e.deleted)
    BY <1>0, <2>2, DeleteRemembered DEF EditorInv
  <2> QED
    BY <1>0, <2>1, <2>2, EditSteps
<1> QED
  BY <1>1, <1>2

LEMMA ReplaceSteps ==
  ASSUME EditorInv, undone' = undone, NEW p, NEW n, NEW t
  PROVE  Stepped(replaceText(Fresh, p, n, t))
<1> DEFINE e == replaceText(Fresh, p, n, t)
<1>0. DocumentOK(doc) /\ DocumentOK(Fresh) /\ Fresh.history = doc.history /\ Fresh.deleted = doc.deleted
  BY FreshKeeps DEF EditorInv
<1>1. CASE ~isValidPosition(Fresh.lines, p)
  BY <1>0, <1>1, ReplaceEdits, NoEditSteps
<1>2. CASE isValidPosition(Fresh.lines, p)
  <2>1. Edited(Fresh, e)
    BY <1>0, <1>2, ReplaceEdits
  <2>2. ASSUME ~undone PROVE Remembered(e.history, e.deleted)
    BY <1>0, <2>2, ReplaceRemembered DEF EditorInv
  <2> QED
    BY <1>0, <2>1, <2>2, EditSteps
<1> QED
  BY <1>1, <1>2

LEMMA SetSteps == ASSUME EditorInv, undone' = undone, NEW t PROVE Stepped(setText(Fresh, t))
<1> DEFINE e == setText(Fresh, t)
<1>0. DocumentOK(doc) /\ DocumentOK(Fresh) /\ Fresh.history = doc.history /\ Fresh.deleted = doc.deleted
  BY FreshKeeps DEF EditorInv
<1>1. PICK op : /\ Edited(Fresh, e) /\ e.deleted = doc.deleted
                /\ IsOperation(op) /\ op.length = 0 /\ op.timestamp = clock
                /\ e.history = Recorded(doc.history, op)
  BY <1>0, SetEdits
<1> HIDE DEF e
<1>2. ASSUME ~undone PROVE Remembered(e.history, e.deleted)
  <2>1. HistoryOK(doc.history) /\ Remembered(doc.history, doc.deleted)
    BY <1>2 DEF EditorInv, DocumentOK
  <2>2. ~(op.length > 0)
    BY <1>1
  <2> QED
    BY <1>1, <2>1, <2>2, RecordRemembered
<1> QED
  BY <1>0, <1>1, <1>2, EditSteps DEF e

LEMMA UndoSteps ==
  ASSUME EditorInv, undone' = TRUE, doc.history # << >>
  PROVE  Stepped(Undone(Fresh))
<1>0. /\ DocumentOK(Fresh) /\ Fresh.history = doc.history /\ Fresh.version = doc.version
      /\ Fresh.lines = doc.lines /\ Fresh.redo = doc.redo
  BY FreshKeeps DEF EditorInv
<1> DEFINE e == Undone(Fresh)
<1>1. CASE e = Fresh
  <2>1. doc.version \in Nat
    BY DEF EditorInv, DocumentOK, Whole
  <2>2. Stepped(Fresh)
    BY <1>0, <2>1 DEF Stepped, EditorInv
  <2> QED
    BY <1>1, <2>2
<1>2. CASE DocumentOK(e) /\ e.version > Fresh.version /\ Len(e.redo) <= 1
  <2> HIDE DEF e
  <2>1. e.version \in Nat /\ doc.version \in Nat
    BY <1>2 DEF EditorInv, DocumentOK, Whole
  <2>2. Stepped(e)
    BY <1>0, <1>2, <2>1 DEF Stepped
  <2> QED
    BY <2>2 DEF e
<1> QED
  BY <1>0, <1>1, <1>2, UndoEdits

LEMMA ClearSteps ==
  ASSUME EditorInv, undone' = undone
  PROVE  Stepped([Fresh EXCEPT !.history = << >>, !.redo = << >>, !.deleted = << >>])
<1> DEFINE e == [Fresh EXCEPT !.history = << >>, !.redo = << >>, !.deleted = << >>]
           a == [Fresh EXCEPT !.history = << >>]
           b == [a EXCEPT !.redo = << >>]
<1>0. Whole(Fresh) /\ Fresh.version = doc.version /\ Fresh.lines = doc.lines /\ doc.version \in Nat
  BY FreshKeeps DEF EditorInv, DocumentOK, Whole
<1>1. e = [b EXCEPT !.deleted = << >>]
  BY <1>0 DEF Whole
<1>2. Whole(a) /\ a.history = << >> /\ a.version = doc.version /\ a.lines = doc.lines
  BY <1>0 DEF Whole
<1> HIDE DEF a
<1>3. Whole(b) /\ b.history = << >> /\ b.redo = << >> /\ b.version = doc.version /\ b.lines = doc.lines
  BY <1>2 DEF Whole
<1> HIDE DEF b, e
<1>4. Whole(e) /\ e.history = << >> /\ e.redo = << >> /\ e.version = doc.version /\ e.lines = doc.lines
  BY <1>1, <1>3 DEF Whole
<1>5. << >> \in Seq({}) /\ Len(<< >>) = 0
  OBVIOUS
<1>6. IsList(<< >>)
  BY <1>5 DEF IsList
<1>7. HistoryOK(e.history) /\ Remembered(e.history, e.deleted) /\ Len(e.redo) <= 1
  BY <1>4, <1>5, <1>6, EditorAssumption DEF HistoryOK, Remembered
<1> QED
  BY <1>0, <1>4, <1>7 DEF Stepped, DocumentOK, e

LEMMA EditorStep ==
  ASSUME EditorInv, [EditorNext]_editorVars
  PROVE  (doc' = doc /\ undone' = undone) \/ Stepped(doc')
<1>1. CASE UNCHANGED editorVars
  BY <1>1 DEF editorVars
<1>2. CASE InsertText
  <2>1. PICK p, t : Returns(insertText(Fresh, p, t))
    BY <1>2 DEF InsertText
  <2>2. doc' = insertText(Fresh, p, t) /\ undone' = undone
    BY <2>1 DEF Returns, Leaves
  <2> QED
    BY <2>2, InsertSteps
<1>3. CASE DeleteText
  <2>1. PICK p, n : Blocks \/ Returns(deleteText(Fresh, p, n))
    BY <1>3 DEF DeleteText
  <2>2. CASE Blocks
    BY <2>2 DEF Blocks
  <2>3. CASE Returns(deleteText(Fresh, p, n))
    <3>1. doc' = deleteText(Fresh, p, n) /\ undone' = undone
      BY <2>3 DEF Returns, Leaves
    <3> QED
      BY <3>1, DeleteSteps
  <2> QED
    BY <2>1, <2>2, <2>3
<1>4. CASE ReplaceText
  <2>1. PICK p, n, t : Blocks \/ Returns(replaceText(Fresh, p, n, t))
    BY <1>4 DEF ReplaceText
  <2>2. CASE Blocks
    BY <2>2 DEF Blocks
  <2>3. CASE Returns(replaceText(Fresh, p, n, t))
    <3>1. doc' = replaceText(Fresh, p, n, t) /\ undone' = undone
      BY <2>3 DEF Returns, Leaves
    <3> QED
      BY <3>1, ReplaceSteps
  <2> QED
    BY <2>1, <2>2, <2>3
<1>5. CASE SetText
  <2>1. PICK t : Returns(setText(Fresh, t))
    BY <1>5 DEF SetText
  <2>2. doc' = setText(Fresh, t) /\ undone' = undone
    BY <2>1 DEF Returns, Leaves
  <2> QED
    BY <2>2, SetSteps
<1>6. CASE undo
  <2>1. CASE locks
    BY <1>6, <2>1 DEF undo, Blocks
  <2>2. CASE ~locks
    <3>1. doc.history # << >> /\ doc' = Undone(Fresh) /\ undone' = TRUE
      BY <1>6, <2>2 DEF undo, Leaves
    <3> QED
      BY <3>1, UndoSteps
  <2> QED
    BY <2>1, <2>2
<1>7. CASE redo
  BY <1>7 DEF redo
<1>8. CASE clearHistory
  <2>1. /\ doc' = [Fresh EXCEPT !.history = << >>, !.redo = << >>, !.deleted = << >>]
        /\ undone' = undone
    BY <1>8 DEF clearHistory, Returns, Leaves
  <2>2. Stepped([Fresh EXCEPT !.history = << >>, !.redo = << >>, !.deleted = << >>])
    BY <2>1, ClearSteps
  <2> QED
    BY <2>1, <2>2, Zenon
<1>9. ASSUME NEW u \in Users, setCursorPosition(u) PROVE Stepped(doc')
  BY <1>9, NoEditSteps DEF setCursorPosition
<1>10. CASE setSelection
  BY <1>10, NoEditSteps DEF setSelection
<1>11. CASE Tick
  BY <1>11 DEF Tick
<1> QED
  BY <1>1, <1>2, <1>3, <1>4, <1>5, <1>6, <1>7, <1>8, <1>9, <1>10, <1>11 DEF EditorNext

LEMMA EditorInvKept == EditorInv /\ [EditorNext]_editorVars => EditorInv'
<1> SUFFICES ASSUME EditorInv, [EditorNext]_editorVars PROVE EditorInv'
  OBVIOUS
<1>1. (doc' = doc /\ undone' = undone) \/ Stepped(doc')
  BY EditorStep
<1>2. /\ DocumentOK(doc') /\ Len(doc'.redo) <= 1
      /\ ~undone' => Remembered(doc'.history, doc'.deleted)
  BY <1>1 DEF EditorInv, Stepped
<1> QED
  BY <1>2 DEF EditorInv

EditorSpec == EditorInit /\ [][EditorNext]_editorVars

(* The client's Document, for texts and histories of any size: the history  *)
(* keeps its limit, at most one operation waits for redo(), and the newest  *)
(* operation of each millisecond finds in deletedTexts_ the very text it    *)
(* removed, until an undo() gets past the lock.                             *)
THEOREM EditorHistoryKept == EditorSpec => [](DeletedTextKept /\ EditorHistoryBounded)
<1>1. EditorInit => EditorInv
  BY EditorStarts
<1>2. EditorInv /\ [EditorNext]_editorVars => EditorInv'
  BY EditorInvKept
<1>3. EditorInv => DeletedTextKept /\ EditorHistoryBounded
  <2> SUFFICES ASSUME EditorInv PROVE DeletedTextKept /\ EditorHistoryBounded
    OBVIOUS
  <2>1. EditorHistoryBounded
    BY DEF EditorInv, DocumentOK, HistoryOK, EditorHistoryBounded
  <2>2. DeletedTextKept
    BY DEF EditorInv, Remembered, DeletedTextKept
  <2> QED
    BY <2>1, <2>2
<1> QED
  BY <1>1, <1>2, <1>3, PTL DEF EditorSpec

(* version_ never goes back and grows with every change of the text, an     *)
(* undo() included, whether or not the locks are active.                    *)
THEOREM EditorVersionsGrow == EditorSpec => [][VersionsTellTextsApart]_editorVars
<1>1. EditorInit => EditorInv
  BY EditorStarts
<1>2. EditorInv /\ [EditorNext]_editorVars => EditorInv'
  BY EditorInvKept
<1>3. EditorInv /\ [EditorNext]_editorVars => [VersionsTellTextsApart]_editorVars
  <2> SUFFICES ASSUME EditorInv, [EditorNext]_editorVars PROVE VersionsTellTextsApart
    OBVIOUS
  <2>1. doc' = doc \/ Stepped(doc')
    BY EditorStep
  <2>2. doc.version \in Nat
    BY DEF EditorInv, DocumentOK, Whole
  <2> QED
    BY <2>1, <2>2 DEF Stepped, VersionsTellTextsApart
<1> QED
  BY <1>1, <1>2, <1>3, PTL DEF EditorSpec
=============================================================================
