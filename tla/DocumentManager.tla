-------------------------- MODULE DocumentManager --------------------------
(***************************************************************************)
(* ot::DocumentManager and the ot::UndoRedoManager it owns                 *)
(* (src/common/ot/document_manager.cpp, undo_redo_manager.cpp).  Every     *)
(* public call holds document_mutex_ from its first state access to its    *)
(* return, and the calls it makes into the undo/redo manager hold mutex_,  *)
(* so each call is one atomic action.                                      *)
(***************************************************************************)
EXTENDS Operation

CONSTANTS
  Contents,     \* texts a document is created with or set to
  Positions,    \* positions, lengths and texts of the operations that
  Lengths,      \* callers pass in: any of them may lie outside the
  Inserts,      \* document, and apply() then rejects the operation
  MaxHistory,   \* max_history_size_ (100 in the program)
  MaxOps,       \* bound: local operations submitted in a behaviour
  MaxRemote     \* bound: remote operations received in a behaviour

ASSUME InputAssumption ==
  /\ Contents \subseteq Text /\ Inserts \subseteq Text
  /\ Positions \subseteq Nat /\ Lengths \subseteq Nat

ASSUME MaxHistoryAssumption == MaxHistory \in Nat

VARIABLES
  document,     \* document_
  undoStack,    \* undo_stack_, the most recent operation last
  redoStack,    \* redo_stack_, the next operation to redo last
  counter,      \* operation_counter_
  emitted,      \* what the last call passed to operation_callback_
  result,       \* how the last call ended
  received      \* remote operations received so far (for the bound only)

vars == <<document, undoStack, redoStack, counter, emitted, result, received>>

(* The types of the variables: in particular no position or length of a     *)
(* stacked operation underflows when transformHistory() rewrites it.        *)
TypeOK ==
  /\ document  \in Text
  /\ undoStack \in Seq(Op)
  /\ redoStack \in Seq(Op)
  /\ counter   \in Nat
  /\ emitted   \in Seq(Op)
  /\ result    \in {"true", "false", "throw"}
  /\ received  \in Nat

\* The operation objects callers create.
Submitted ==
  {InsertOperation(p, t) : p \in Positions, t \in Inserts} \cup
  {DeleteOperation(p, n, << >>) : p \in Positions, n \in Lengths}

Last(s)  == s[Len(s)]
Front(s) == SubSeq(s, 1, Len(s) - 1)

\* Mutant of trimUndoStack: it trims one entry too late.
trimUndoStack_Late(s) ==
  IF Len(s) > MaxHistory + 1
  THEN SubSeq(s, Len(s) - MaxHistory, Len(s)) ELSE s

\* trimUndoStack: the oldest entries go first.
trimUndoStack(s) ==
  IF Len(s) > MaxHistory THEN SubSeq(s, Len(s) - MaxHistory + 1, Len(s)) ELSE s

Init ==
  /\ document \in Contents
  /\ undoStack = << >> /\ redoStack = << >>
  /\ counter = 0
  /\ emitted = << >> /\ result = "true"
  /\ received = 0

Unchanged == UNCHANGED <<document, undoStack, redoStack>>

-----------------------------------------------------------------------------
setContent(c) ==
  /\ document' = c
  /\ undoStack' = << >> /\ redoStack' = << >>
  /\ emitted' = << >> /\ result' = "true"
  /\ UNCHANGED <<counter, received>>

\* applyLocalOperation numbers the operation before it tries to apply it.
Numbered(op) == [op EXCEPT !.source = "LOCAL", !.id = counter + 1]

\* Mutant of addOperation: the redo stack survives an edit.
addOperation_KeepsRedo(op) ==
  /\ UNCHANGED redoStack
  /\ undoStack' = trimUndoStack(Append(undoStack, Clone(op)))

addOperation(op) ==
  /\ redoStack' = << >>
  /\ undoStack' = trimUndoStack(Append(undoStack, Clone(op)))

applyLocalOperation(op) ==
  /\ counter < MaxOps
  /\ counter' = counter + 1
  /\ Applies(op, document)
  /\ document' = Apply(op, document)
  /\ addOperation(Applied(Numbered(op), document))
  /\ emitted' = <<Applied(Numbered(op), document)>> /\ result' = "true"
  /\ UNCHANGED received

rejectLocalOperation(op) ==
  /\ counter < MaxOps
  /\ counter' = counter + 1
  /\ ~Applies(op, document)
  /\ emitted' = << >> /\ result' = "false"
  /\ Unchanged /\ UNCHANGED received

transformHistory(op) ==
  /\ undoStack' = [i \in DOMAIN undoStack |-> Transform(undoStack[i], op)]
  /\ redoStack' = [i \in DOMAIN redoStack |-> Transform(redoStack[i], op)]

Remote(op) == [op EXCEPT !.source = "REMOTE"]

\* The operation is applied as it arrives; only the history is transformed.
applyRemoteOperation(op) ==
  /\ received < MaxRemote
  /\ received' = received + 1
  /\ Applies(op, document)
  /\ document' = Apply(op, document)
  /\ transformHistory(Applied(Remote(op), document))
  /\ emitted' = <<Applied(Remote(op), document)>> /\ result' = "true"
  /\ UNCHANGED counter

rejectRemoteOperation(op) ==
  /\ received < MaxRemote
  /\ received' = received + 1
  /\ ~Applies(op, document)
  /\ emitted' = << >> /\ result' = "false"
  /\ Unchanged /\ UNCHANGED counter

-----------------------------------------------------------------------------
(* undo                                                                     *)

\* The operation undo() applies: the inverse, marked and linked.
UndoOp(op) == [inverse(op) EXCEPT !.source = "LOCAL_UNDO", !.related = op.id]

\* Mutant of undo: the callback gets the operation that is undone.
undo_AnnouncesOriginal ==
  /\ undoStack # << >>
  /\ Invertible(Last(undoStack))
  /\ Applies(UndoOp(Last(undoStack)), document)
  /\ document'  = Apply(UndoOp(Last(undoStack)), document)
  /\ emitted'   = <<Last(undoStack)>>
  /\ redoStack' = Append(redoStack, Last(undoStack))
  /\ undoStack' = Front(undoStack)
  /\ result' = "true"
  /\ UNCHANGED <<counter, received>>

undo ==
  /\ undoStack # << >>
  /\ Invertible(Last(undoStack))
  /\ Applies(UndoOp(Last(undoStack)), document)
  /\ document'  = Apply(UndoOp(Last(undoStack)), document)
  /\ emitted'   = <<Applied(UndoOp(Last(undoStack)), document)>>
  /\ redoStack' = Append(redoStack, Last(undoStack))
  /\ undoStack' = Front(undoStack)
  /\ result' = "true"
  /\ UNCHANGED <<counter, received>>

\* inverse() throws after the operation was popped; nothing puts it back.
undoThrows ==
  /\ undoStack # << >>
  /\ ~Invertible(Last(undoStack))
  /\ undoStack' = Front(undoStack)
  /\ emitted' = << >> /\ result' = "throw"
  /\ UNCHANGED <<document, redoStack, counter, received>>

\* Nothing to undo, or apply() fails and the operation is put back.
undoFails ==
  /\ undoStack # << >> => /\ Invertible(Last(undoStack))
                          /\ ~Applies(UndoOp(Last(undoStack)), document)
  /\ emitted' = << >> /\ result' = "false"
  /\ Unchanged /\ UNCHANGED <<counter, received>>

-----------------------------------------------------------------------------
(* redo                                                                     *)

RedoOp(op) == [Clone(op) EXCEPT !.source = "LOCAL_REDO", !.related = op.id]

\* The clone is applied; the stacked operation itself moves back.
redo ==
  /\ redoStack # << >>
  /\ Applies(RedoOp(Last(redoStack)), document)
  /\ document'  = Apply(RedoOp(Last(redoStack)), document)
  /\ emitted'   = <<Applied(RedoOp(Last(redoStack)), document)>>
  /\ undoStack' = Append(undoStack, Last(redoStack))
  /\ redoStack' = Front(redoStack)
  /\ result' = "true"
  /\ UNCHANGED <<counter, received>>

redoFails ==
  /\ redoStack # << >> => ~Applies(RedoOp(Last(redoStack)), document)
  /\ emitted' = << >> /\ result' = "false"
  /\ Unchanged /\ UNCHANGED <<counter, received>>

-----------------------------------------------------------------------------
\* What the local user does to a document that is loaded.
EditNext ==
  \/ \E op \in Submitted : applyLocalOperation(op) \/ rejectLocalOperation(op)
  \/ undo \/ undoThrows \/ undoFails
  \/ redo \/ redoFails

\* An operation of another user arrives.
Receive(op) == applyRemoteOperation(op) \/ rejectRemoteOperation(op)

Next ==
  \/ \E c \in Contents : setContent(c)
  \/ EditNext
  \/ \E op \in Submitted : Receive(op)

Spec == Init /\ [][Next]_vars

-----------------------------------------------------------------------------
(* The two stacks together never hold more than max_history_size_           *)
(* operations: redo() pushes onto the undo stack without trimming it, and   *)
(* the bound survives because only undo() feeds the redo stack and          *)
(* addOperation() empties it.                                               *)
HistoryBounded == Len(undoStack) + Len(redoStack) <= MaxHistory

(* No stacked delete carries more text than the range it removes, whatever  *)
(* remote operations it was transformed against: DeleteOperation::transform *)
(* shortens the text with the range and never pads it.                      *)
TextFitsRange ==
  \A op \in {undoStack[i] : i \in DOMAIN undoStack} \cup
            {redoStack[i] : i \in DOMAIN redoStack} :
     IsDelete(op) => Len(op.text) <= op.length

(* Whoever follows operation_callback_ can follow the document: a step that *)
(* changes it, other than setContent, announces exactly one operation, and  *)
(* that operation takes the old document to the new one.                    *)
EmittedExplains ==
  [][document' # document =>
       \/ undoStack' = << >> /\ redoStack' = << >> /\ emitted' = << >>
       \/ /\ Len(emitted') = 1
          /\ Applies(emitted'[1], document)
          /\ document' = Apply(emitted'[1], document)]_vars
=============================================================================
