----------------------------- MODULE Operation -----------------------------
(***************************************************************************)
(* The text operations of src/common/ot/opereation.cpp: InsertOperation    *)
(* and DeleteOperation with apply, transform, inverse and clone, and the   *)
(* bookkeeping fields they inherit from Operation (operation.h).           *)
(*                                                                         *)
(* A document is a sequence of characters; positions count from 0 as in    *)
(* std::string, so position p lies between d[p] and d[p+1].  An operation  *)
(* is a record; the class is its field "type".  "text" is text_ of an      *)
(* insert and deleted_text_ of a delete; "length" is length_ of a delete   *)
(* and 0 in an insert, which has no such member.                           *)
(***************************************************************************)
EXTENDS Integers, Sequences

CONSTANT Char             \* the characters documents are made of

Text == Seq(Char)

Sources == {"LOCAL", "REMOTE", "LOCAL_UNDO", "LOCAL_REDO", "SYSTEM"}

NoId == -1                \* relatedOperationId_ == std::nullopt

Op == [type     : {"insert", "delete"},
       position : Nat,
       length   : Nat,
       text     : Text,
       id       : Nat,
       source   : Sources,
       related  : Nat \cup {NoId}]

\* The constructors: id_ is 0, source_ LOCAL, no related operation.
InsertOperation(p, t) ==
  [type |-> "insert", position |-> p, length |-> 0, text |-> t,
   id |-> 0, source |-> "LOCAL", related |-> NoId]

DeleteOperation(p, n, t) ==
  [type |-> "delete", position |-> p, length |-> n, text |-> t,
   id |-> 0, source |-> "LOCAL", related |-> NoId]

IsInsert(op) == op.type = "insert"
IsDelete(op) == op.type = "delete"

-----------------------------------------------------------------------------
(* apply: guard, effect on the document, effect on the operation.           *)

\* d with the n characters after position p replaced by t.
Splice(d, p, n, t) == SubSeq(d, 1, p) \o t \o SubSeq(d, p + n + 1, Len(d))

\* The n characters of d after position p.
Slice(d, p, n) == SubSeq(d, p + 1, p + n)

\* apply() returns true.
Applies(op, d) ==
  IF IsInsert(op) THEN op.position <= Len(d)
                  ELSE op.position + op.length <= Len(d)

\* The document after a successful apply().
Apply(op, d) ==
  IF IsInsert(op) THEN Splice(d, op.position, 0, op.text)
                  ELSE Splice(d, op.position, op.length, << >>)

\* Mutant of Applied: apply() does not store the removed text.
Applied_StoresNothing(op, d) == op

\* The operation after a successful apply(): a delete that carries no text
\* stores what it removed.
Applied(op, d) ==
  IF IsDelete(op) /\ op.text = << >>
  THEN [op EXCEPT !.text = Slice(d, op.position, op.length)]
  ELSE op

-----------------------------------------------------------------------------
(* clone and inverse build new objects: id, source and relation are lost.   *)

Clone(op) ==
  IF IsInsert(op) THEN InsertOperation(op.position, op.text)
                  ELSE DeleteOperation(op.position, op.length, op.text)

\* inverse() throws for a delete without text.
Invertible(op) == IsInsert(op) \/ op.text # << >>

\* Mutant of inverse: the delete reaches one character too far.
inverse_OneTooMany(op) ==
  IF IsInsert(op) THEN DeleteOperation(op.position, Len(op.text) + 1, op.text)
                  ELSE InsertOperation(op.position, op.text)

inverse(op) ==
  IF IsInsert(op) THEN DeleteOperation(op.position, Len(op.text), op.text)
                  ELSE InsertOperation(op.position, op.text)

-----------------------------------------------------------------------------
(* transform: op rewritten to follow other.                                 *)

End(op) == op.position + op.length

TransformInsertInsert(op, other) ==
  IF other.position <= op.position
  THEN [op EXCEPT !.position = @ + Len(other.text)]
  ELSE op

\* Mutants of TransformInsertDelete: the delete is taken to lie before the
\* insert whenever it starts there; one that covers it is ignored.
TransformInsertDelete_Underflows(op, other) ==
  IF other.position >= op.position THEN op
  ELSE [op EXCEPT !.position = @ - other.length]

TransformInsertDelete_IgnoresOverlap(op, other) ==
  IF other.position < op.position /\ End(other) <= op.position
  THEN [op EXCEPT !.position = @ - other.length]
  ELSE op

TransformInsertDelete(op, other) ==
  IF other.position >= op.position THEN op
  ELSE [op EXCEPT !.position = IF End(other) <= @ THEN @ - other.length
                                                  ELSE other.position]

\* Mutant of TransformDeleteInsert: < for <= at the start of the range.
TransformDeleteInsert_Strict(op, other) ==
  IF other.position < op.position
  THEN [op EXCEPT !.position = @ + Len(other.text)]
  ELSE IF other.position < End(op)
       THEN [op EXCEPT !.length = @ + Len(other.text)]
       ELSE op

TransformDeleteInsert(op, other) ==
  IF other.position <= op.position
  THEN [op EXCEPT !.position = @ + Len(other.text)]
  ELSE IF other.position < End(op)
       THEN [op EXCEPT !.length = @ + Len(other.text)]
       ELSE op

\* Mutant of TailOf: the text is not shortened.
TailOf_KeepsAll(t, n) == t

\* What is left of t when a delete shrinks to n characters: its tail, its
\* head; the empty text when t is too short.
TailOf(t, n) == IF Len(t) >= n THEN SubSeq(t, Len(t) - n + 1, Len(t)) ELSE << >>
HeadOf(t, n) == IF Len(t) >= n THEN SubSeq(t, 1, n) ELSE << >>

\* The five cases of the code, in its order.
TransformDeleteDelete(op, other) ==
  IF End(other) <= op.position
  THEN DeleteOperation(op.position - other.length, op.length, op.text)
  ELSE IF other.position <= op.position /\ End(other) >= End(op)
  THEN DeleteOperation(other.position, 0, << >>)
  ELSE IF other.position <= op.position
  THEN DeleteOperation(other.position, End(op) - End(other),
                       TailOf(op.text, End(op) - End(other)))
  ELSE IF other.position < End(op) /\ End(other) >= End(op)
  THEN DeleteOperation(op.position, other.position - op.position,
                       HeadOf(op.text, other.position - op.position))
  ELSE IF End(other) < End(op)
  THEN DeleteOperation(op.position, op.length - other.length,
         IF Len(op.text) >= op.length
         THEN SubSeq(op.text, 1, other.position - op.position)
              \o SubSeq(op.text, End(other) - op.position + 1, Len(op.text))
         ELSE << >>)
  ELSE Clone(op)

Transform(op, other) ==
  IF IsInsert(op)
  THEN IF IsInsert(other) THEN TransformInsertInsert(op, other)
                          ELSE TransformInsertDelete(op, other)
  ELSE IF IsInsert(other) THEN TransformDeleteInsert(op, other)
                          ELSE TransformDeleteDelete(op, other)
=============================================================================
