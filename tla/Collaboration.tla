--------------------------- MODULE Collaboration ---------------------------
(***************************************************************************)
(* Two users edit one document, each through a DocumentManager of its own. *)
(* operation_callback_ hands every local operation, undo and redo to the   *)
(* network as JSON; the other side parses it and calls                     *)
(* applyRemoteOperation.  The network in between is not part of the code   *)
(* modelled here: it is taken to be reliable and first-in first-out, as a  *)
(* TCP connection is.                                                      *)
(***************************************************************************)
EXTENDS Operation

CONSTANTS
  Contents, Positions, Lengths, Inserts, MaxHistory, MaxOps, MaxRemote,
  MaxChannel,     \* bound: operations in flight to one user
  TakingTurns     \* the users edit only while nothing is in flight

VARIABLES
  documentA, undoStackA, redoStackA, counterA, emittedA, resultA, receivedA,
  documentB, undoStackB, redoStackB, counterB, emittedB, resultB, receivedB,
  toA, toB        \* operations in flight

varsA == <<documentA, undoStackA, redoStackA, counterA, emittedA, resultA, receivedA>>
varsB == <<documentB, undoStackB, redoStackB, counterB, emittedB, resultB, receivedB>>
vars  == <<varsA, varsB, toA, toB>>

A == INSTANCE DocumentManager WITH
       document <- documentA, undoStack <- undoStackA, redoStack <- redoStackA,
       counter <- counterA, emitted <- emittedA, result <- resultA,
       received <- receivedA

B == INSTANCE DocumentManager WITH
       document <- documentB, undoStack <- undoStackB, redoStack <- redoStackB,
       counter <- counterB, emitted <- emittedB, result <- resultB,
       received <- receivedB

\* serialize() writes type, position, length and text; deserialize() builds
\* a new operation from them.
Wire(op) ==
  IF IsInsert(op) THEN InsertOperation(op.position, op.text)
                  ELSE DeleteOperation(op.position, op.length, op.text)

\* Mutant of Outgoing: the callback of the undo/redo manager is not set.
Outgoing_LocalOnly(ops) ==
  [i \in {i \in DOMAIN ops : ops[i].source = "LOCAL"} |-> Wire(ops[i])]

\* What a user sends after a call that announced the operations ops.
Outgoing(ops) == [i \in DOMAIN ops |-> Wire(ops[i])]

Init ==
  /\ A!Init /\ B!Init /\ documentA = documentB
  /\ toA = << >> /\ toB = << >>

MayEdit == TakingTurns => toA = << >> /\ toB = << >>

EditA ==
  /\ MayEdit /\ Len(toB) < MaxChannel
  /\ A!EditNext
  /\ toB' = toB \o Outgoing(emittedA')
  /\ UNCHANGED <<varsB, toA>>

EditB ==
  /\ MayEdit /\ Len(toA) < MaxChannel
  /\ B!EditNext
  /\ toA' = toA \o Outgoing(emittedB')
  /\ UNCHANGED <<varsA, toB>>

ReceiveA ==
  /\ toA # << >> /\ A!Receive(Head(toA))
  /\ toA' = Tail(toA)
  /\ UNCHANGED <<varsB, toB>>

ReceiveB ==
  /\ toB # << >> /\ B!Receive(Head(toB))
  /\ toB' = Tail(toB)
  /\ UNCHANGED <<varsA, toA>>

Next == EditA \/ EditB \/ ReceiveA \/ ReceiveB

Spec == Init /\ [][Next]_vars

-----------------------------------------------------------------------------
(* Whenever nothing is in flight the two users see the same document.       *)
(* applyRemoteOperation applies an operation as it arrives, so this rests   *)
(* on the users taking turns; undo and redo included, because what they     *)
(* announce is the operation they applied.                                  *)
Converged == toA = << >> /\ toB = << >> => documentA = documentB
=============================================================================
