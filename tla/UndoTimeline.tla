---------------------------- MODULE UndoTimeline ----------------------------
(***************************************************************************)
(* What undo and redo promise a user who works alone: the documents seen   *)
(* so far form a timeline, undo and redo walk along it and reproduce its   *)
(* documents exactly, an edit cuts off what lay ahead, and at most         *)
(* MaxHistory steps back are kept.                                         *)
(***************************************************************************)
EXTENDS Integers, Sequences

CONSTANTS Docs, MaxHistory

VARIABLES past, current, future     \* past and future: the nearest one last

vars == <<past, current, future>>

Init == past = << >> /\ current \in Docs /\ future = << >>

Recent(s) ==
  IF Len(s) > MaxHistory THEN SubSeq(s, Len(s) - MaxHistory + 1, Len(s)) ELSE s

Butlast(s) == SubSeq(s, 1, Len(s) - 1)

Load == past' = << >> /\ current' \in Docs /\ future' = << >>

Edit ==
  /\ past' = Recent(Append(past, current))
  /\ current' \in Docs
  /\ future' = << >>

Back ==
  /\ past # << >>
  /\ current' = past[Len(past)]
  /\ past' = Butlast(past)
  /\ future' = Append(future, current)

Forward ==
  /\ future # << >>
  /\ current' = future[Len(future)]
  /\ future' = Butlast(future)
  /\ past' = Append(past, current)

\* A step that changed nothing may be dropped instead of being undone.
Forget ==
  /\ past # << >> /\ past[Len(past)] = current
  /\ past' = Butlast(past)
  /\ UNCHANGED <<current, future>>

Next == Load \/ Edit \/ Back \/ Forward \/ Forget

Spec == Init /\ [][Next]_vars
=============================================================================
