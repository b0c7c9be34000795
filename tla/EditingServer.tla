----------------------------- MODULE EditingServer -----------------------------
(***************************************************************************)
(* CollaborativeEditingServer (include/server/main.cpp): one thread that   *)
(* accepts websockets, applies the operations they bring and sends them to *)
(* the others.  Clients are kept under the name client_<n>, n one more     *)
(* than the number of clients at that moment: a name may still be in use.  *)
(* The websocket, the document controller and the operation manager are    *)
(* external; an operation is the number of its message, and the controller *)
(* takes or refuses it.                                                    *)
(***************************************************************************)
EXTENDS Integers, Sequences, SequencesExt, FiniteSets, Functions

CONSTANTS
  Socket,      \* the websockets that may connect
  MaxEdits     \* bound: operations sent

VARIABLES
  phase,       \* socket -> "away", "accepted", "reading", "left", "done"
  idOf,        \* socket -> the number in the name its read handler captured
  clients,     \* clients_: a function from numbers to sockets
  inbox,       \* socket -> operations on their way to the server
  revision,    \* the operations applied, with who sent them
  got,         \* socket -> operations broadcast to it
  joined,      \* socket -> Len(revision) when it joined
  edits,       \* number of operations sent
  overwritten  \* a name was given out while a client had it: history

editingVars == <<phase, idOf, clients, inbox, revision, got, joined, edits, overwritten>>

EditingInit ==
  /\ phase = [s \in Socket |-> "away"] /\ idOf = [s \in Socket |-> 0]
  /\ clients = << >> /\ inbox = [s \in Socket |-> << >>]
  /\ revision = << >> /\ got = [s \in Socket |-> << >>]
  /\ joined = [s \in Socket |-> 0] /\ edits = 0 /\ overwritten = FALSE

\* The handler of acceptor_.async_accept().
doAccept(s) ==
  /\ phase[s] = "away" /\ phase' = [phase EXCEPT ![s] = "accepted"]
  /\ UNCHANGED <<idOf, clients, inbox, revision, got, joined, edits, overwritten>>

\* The handler of ws->async_accept(); a failed handshake drops the socket.
HandleAccept(s) ==
  LET id == Cardinality(DOMAIN clients) + 1
  IN /\ phase[s] = "accepted" /\ phase' = [phase EXCEPT ![s] = "reading"]
     /\ idOf' = [idOf EXCEPT ![s] = id]
     /\ clients' = [x \in DOMAIN clients \cup {id} |-> IF x = id THEN s ELSE clients[x]]
     /\ overwritten' = (overwritten \/ id \in DOMAIN clients)
     /\ joined' = [joined EXCEPT ![s] = Len(revision)]
     /\ UNCHANGED <<inbox, revision, got, edits>>

HandshakeFails(s) ==
  /\ phase[s] = "accepted" /\ phase' = [phase EXCEPT ![s] = "done"]
  /\ UNCHANGED <<idOf, clients, inbox, revision, got, joined, edits, overwritten>>

\* The other end sends an operation, or leaves.
Edit(s) ==
  /\ phase[s] = "reading" /\ edits < MaxEdits
  /\ edits' = edits + 1 /\ inbox' = [inbox EXCEPT ![s] = Append(@, edits')]
  /\ UNCHANGED <<phase, idOf, clients, revision, got, joined, overwritten>>

Leave(s) ==
  /\ phase[s] = "reading" /\ phase' = [phase EXCEPT ![s] = "left"]
  /\ UNCHANGED <<idOf, clients, inbox, revision, got, joined, edits, overwritten>>

\* broadcastOperation(): to every client but the one of the sender's name; a
\* write that throws is passed over.
broadcastOperation(source, op) ==
  [s \in Socket |->
    IF \E id \in DOMAIN clients \ {source} : clients[id] = s THEN Append(got[s], op) ELSE got[s]]

\* The read handler with processMessage(): the controller applies the
\* operation, or it is refused, cannot be parsed or throws.
HandleRead(s) ==
  LET op == [number |-> Head(inbox[s]), by |-> s]
  IN /\ phase[s] \in {"reading", "left"} /\ inbox[s] # << >>
     /\ inbox' = [inbox EXCEPT ![s] = Tail(@)]
     /\ \/ revision' = Append(revision, op) /\ got' = broadcastOperation(idOf[s], op)
        \/ UNCHANGED <<revision, got>>
     /\ UNCHANGED <<phase, idOf, clients, joined, edits, overwritten>>

\* Mutant of HandleReadError: the client stays.
HandleReadError_Keeps(s) ==
  /\ phase[s] = "left" /\ inbox[s] = << >> /\ phase' = [phase EXCEPT ![s] = "done"]
  /\ UNCHANGED <<idOf, clients, inbox, revision, got, joined, edits, overwritten>>

\* The read handler with an error: the name is erased, whoever has it.
HandleReadError(s) ==
  /\ phase[s] = "left" /\ inbox[s] = << >> /\ phase' = [phase EXCEPT ![s] = "done"]
  /\ clients' = Restrict(clients, DOMAIN clients \ {idOf[s]})
  /\ UNCHANGED <<idOf, inbox, revision, got, joined, edits, overwritten>>

EditingNext ==
  \E s \in Socket :
    \/ doAccept(s) \/ HandleAccept(s) \/ HandshakeFails(s) \/ Edit(s) \/ Leave(s)
    \/ HandleRead(s) \/ HandleReadError(s)

-----------------------------------------------------------------------------
(* As long as no name in use was given out again, a connected client has    *)
(* been sent exactly the operations the others had applied since it joined, *)
(* in the order of the document's revisions.                                *)
OthersAreTold ==
  ~overwritten =>
    \A s \in Socket : phase[s] \in {"reading", "left"} =>
      \E at \in [1..Len(got[s]) -> (joined[s] + 1)..Len(revision)] :
        /\ \A i, j \in 1..Len(got[s]) : i < j => at[i] < at[j]
        /\ \A i \in 1..Len(got[s]) : got[s][i] = revision[at[i]]
        /\ \A k \in (joined[s] + 1)..Len(revision) :
             revision[k].by # s <=> \E i \in 1..Len(got[s]) : at[i] = k

(* As long as no name in use was given out again, clients_ holds exactly    *)
(* the sockets the server reads from, each under its own name.              *)
ClientsAreReaders ==
  ~overwritten =>
    /\ Range(clients) = {s \in Socket : phase[s] \in {"reading", "left"}}
    /\ \A id \in DOMAIN clients : idOf[clients[id]] = id

(* A name in use is given out again only to a client that joins after       *)
(* another one left: while nobody leaves the names are distinct.            *)
ReusedOnlyAfterLeave ==
  overwritten => \E s \in Socket : phase[s] = "done" /\ idOf[s] # 0

(* The map of clients is the set of connections that are read, an operation *)
(* reaches exactly the others, and an id is reused only after a leave.      *)
ClientsFollowed == OthersAreTold /\ ClientsAreReaders /\ ReusedOnlyAfterLeave
==============================================================================
