-------------------------- MODULE DocumentHistory --------------------------
(***************************************************************************)
(* DocumentManager used by one user alone, with two history variables that *)
(* remember the documents behind the two stacks.  With them the manager is *)
(* shown to implement UndoTimeline: the documents its undo and redo        *)
(* compute from inverse and cloned operations are the ones that were seen. *)
(***************************************************************************)
EXTENDS DocumentManager

VARIABLES past,     \* past[i]: the document undoStack[i] was applied to
          future    \* future[i]: the document redoStack[i] leads to

hvars == <<vars, past, future>>

HInit == Init /\ past = << >> /\ future = << >>

HNext ==
  \/ /\ \E c \in Contents : setContent(c)
     /\ past' = << >> /\ future' = << >>
  \/ /\ \E op \in Submitted : applyLocalOperation(op)
     /\ past' = trimUndoStack(Append(past, document)) /\ future' = << >>
  \/ /\ undo
     /\ past' = Front(past) /\ future' = Append(future, document)
  \/ /\ undoThrows
     /\ past' = Front(past) /\ UNCHANGED future
  \/ /\ redo
     /\ past' = Append(past, document) /\ future' = Front(future)
  \/ /\ undoFails \/ redoFails \/ \E op \in Submitted : rejectLocalOperation(op)
     /\ UNCHANGED <<past, future>>

HSpec == HInit /\ [][HNext]_hvars

-----------------------------------------------------------------------------
\* op leads from document d to document e and knows the text it removes.
Leads(op, d, e) ==
  /\ Applies(op, d) /\ e = Apply(op, d)
  /\ IsDelete(op) => op.text = Slice(d, op.position, op.length)

\* op links two documents of a timeline: an entry of the undo stack leads
\* from the far one to the near one, an entry of the redo stack back.
Link(dir, op, far, near) ==
  IF dir = "undo" THEN Leads(op, far, near) ELSE Leads(op, near, far)

\* The operations of a stack link the documents docs, the last one to cur.
Chained(dir, ops, docs, cur) ==
  /\ Len(docs) = Len(ops)
  /\ \A i \in 1..Len(ops) :
       Link(dir, ops[i], docs[i], IF i < Len(docs) THEN docs[i + 1] ELSE cur)

(* Every stacked operation leads between the documents on its two sides:    *)
(* what addOperation(), undo() and redo() move between the stacks stays     *)
(* exactly the edit that was made.  This is the inductive invariant.        *)
HistoryLeads ==
  /\ Chained("undo", undoStack, past, document)
  /\ Chained("redo", redoStack, future, document)

(* A user alone never sees undo() or redo() refuse while there is something *)
(* on the stack: the branches that put the operation back are unreachable   *)
(* without remote operations.                                               *)
NeverPutBack ==
  /\ undoStack # << >> /\ Invertible(Last(undoStack)) =>
        Applies(UndoOp(Last(undoStack)), document)
  /\ redoStack # << >> => Applies(RedoOp(Last(redoStack)), document)

Timeline == INSTANCE UndoTimeline WITH Docs <- Text, current <- document

(* The manager implements the timeline: undo() and redo() reproduce the     *)
(* documents of the past and the future exactly, an edit cuts off the       *)
(* future, and an operation is lost (the throw of inverse()) only when it   *)
(* had no effect.                                                           *)
ImplementsTimeline == Timeline!Spec
=============================================================================
