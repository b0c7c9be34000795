-------------------------- MODULE DocumentProofs --------------------------
(***************************************************************************)
(* The invariants of DocumentManager for documents of any length, any      *)
(* history size and any number of local and remote operations; and undo    *)
(* and redo of a user alone: the manager implements UndoTimeline.          *)
(***************************************************************************)
EXTENDS DocumentHistory, OperationProofs

(* A stack of operations whose deletes carry no more text than their range. *)
StackOK(s) == s \in Seq(Op) /\ \A i \in 1..Len(s) : Fits(s[i])

(* The inductive invariant.  TextFitsRange needs the type of the stacks,    *)
(* HistoryBounded the two stacks together: neither stack is bounded alone   *)
(* by what redo() checks.                                                   *)
IInv ==
  /\ document \in Text
  /\ StackOK(undoStack) /\ StackOK(redoStack)
  /\ counter \in Nat /\ received \in Nat
  /\ emitted \in Seq(Op) /\ result \in {"true", "false", "throw"}
  /\ HistoryBounded

LEMMA StackEmpty == StackOK(<< >>) /\ Len(<< >>) = 0
BY DEF StackOK

LEMMA StackLen == ASSUME NEW s, StackOK(s) PROVE Len(s) \in Nat
BY DEF StackOK

LEMMA StackAppend ==
  ASSUME NEW s, StackOK(s), NEW op \in Op, Fits(op)
  PROVE  StackOK(Append(s, op)) /\ Len(Append(s, op)) = Len(s) + 1
<1> DEFINE r == Append(s, op)
<1>1. /\ r \in Seq(Op) /\ Len(r) = Len(s) + 1 /\ r[Len(s) + 1] = op
      /\ \A i \in 1..Len(s) : r[i] = s[i]
  BY DEF StackOK
<1> HIDE DEF r
<1>2. ASSUME NEW i \in 1..Len(r) PROVE Fits(r[i])
  <2>1. CASE i = Len(s) + 1 BY <2>1, <1>1
  <2>2. CASE i # Len(s) + 1
    <3>1. i \in 1..Len(s) BY <2>2, <1>1, StackLen
    <3> QED BY <3>1, <1>1 DEF StackOK
  <2> QED BY <2>1, <2>2
<1>3. StackOK(r) BY <1>1, <1>2 DEF StackOK
<1> QED BY <1>1, <1>3 DEF r

(* A piece of a stack is a stack.                                           *)
LEMMA StackSubSeq ==
  ASSUME NEW s, StackOK(s), NEW m \in Int, NEW n \in Int,
         1 <= m, m <= n + 1, n <= Len(s)
  PROVE  StackOK(SubSeq(s, m, n)) /\ Len(SubSeq(s, m, n)) = n - m + 1
<1> DEFINE r == SubSeq(s, m, n)
<1>1. /\ r \in Seq(Op) /\ Len(r) = n - m + 1
      /\ \A i \in 1..(n - m + 1) : r[i] = s[m + i - 1]
  BY DEF StackOK
<1> HIDE DEF r
<1>2. ASSUME NEW i \in 1..Len(r) PROVE Fits(r[i])
  <2>1. m + i - 1 \in 1..Len(s) /\ i \in 1..(n - m + 1) BY <1>1, StackLen
  <2> QED BY <2>1, <1>1 DEF StackOK
<1>3. StackOK(r) BY <1>1, <1>2 DEF StackOK
<1> QED BY <1>1, <1>3 DEF r

LEMMA StackPop ==
  ASSUME NEW s, StackOK(s), s # << >>
  PROVE  /\ Last(s) \in Op /\ Fits(Last(s))
         /\ StackOK(Front(s)) /\ Len(Front(s)) = Len(s) - 1
<1>1. Len(s) \in Nat /\ 1 <= Len(s) /\ Len(s) \in 1..Len(s) BY DEF StackOK
<1>2. s[Len(s)] \in Op /\ Fits(s[Len(s)]) BY <1>1 DEF StackOK
<1>3. /\ 1 \in Int /\ Len(s) - 1 \in Int /\ 1 <= 1 /\ 1 <= (Len(s) - 1) + 1
      /\ Len(s) - 1 <= Len(s) /\ (Len(s) - 1) - 1 + 1 = Len(s) - 1
  BY <1>1
<1>4. StackOK(SubSeq(s, 1, Len(s) - 1)) /\ Len(SubSeq(s, 1, Len(s) - 1)) = Len(s) - 1
  BY <1>3, StackSubSeq
<1> QED BY <1>2, <1>4 DEF Last, Front

LEMMA StackTrim ==
  ASSUME NEW s, StackOK(s)
  PROVE  StackOK(trimUndoStack(s)) /\ Len(trimUndoStack(s)) <= MaxHistory
<1>1. Len(s) \in Nat /\ MaxHistory \in Nat BY StackLen, MaxHistoryAssumption
<1>2. CASE Len(s) > MaxHistory
  <2> DEFINE m == Len(s) - MaxHistory + 1
  <2>1. /\ m \in Int /\ Len(s) \in Int /\ 1 <= m /\ m <= Len(s) + 1
        /\ Len(s) <= Len(s) /\ Len(s) - m + 1 = MaxHistory
    BY <1>1, <1>2
  <2>2. trimUndoStack(s) = SubSeq(s, m, Len(s)) BY <1>2 DEF trimUndoStack
  <2> HIDE DEF m
  <2>3. StackOK(SubSeq(s, m, Len(s))) /\ Len(SubSeq(s, m, Len(s))) = MaxHistory
    BY <2>1, StackSubSeq
  <2> QED BY <1>1, <2>2, <2>3
<1>3. CASE ~(Len(s) > MaxHistory) BY <1>1, <1>3 DEF trimUndoStack
<1> QED BY <1>2, <1>3

LEMMA StackTransform ==
  ASSUME NEW s, StackOK(s), NEW op \in Op
  PROVE  /\ StackOK([i \in DOMAIN s |-> Transform(s[i], op)])
         /\ Len([i \in DOMAIN s |-> Transform(s[i], op)]) = Len(s)
<1> DEFINE r == [i \in DOMAIN s |-> Transform(s[i], op)]
<1>1. DOMAIN s = 1..Len(s) /\ Len(s) \in Nat BY DEF StackOK
<1>2. ASSUME NEW i \in 1..Len(s)
      PROVE  Transform(s[i], op) \in Op /\ Fits(Transform(s[i], op))
  <2>1. s[i] \in Op /\ Fits(s[i]) BY DEF StackOK
  <2> QED BY <2>1, TransformType
<1>3. r \in [1..Len(s) -> Op] /\ \A i \in 1..Len(s) : Fits(r[i])
  BY <1>1, <1>2
<1> HIDE DEF r
<1>4. r \in Seq(Op) /\ Len(r) = Len(s) BY <1>1, <1>3
<1>5. StackOK(r) BY <1>3, <1>4 DEF StackOK
<1> QED BY <1>4, <1>5 DEF r

-----------------------------------------------------------------------------
(* The operations callers submit are operations, and so is everything the   *)
(* manager makes of them.                                                   *)
LEMMA SubmittedType == ASSUME NEW op \in Submitted PROVE op \in Op /\ Fits(op)
<1>1. CASE \E p \in Positions, t \in Inserts : op = InsertOperation(p, t)
  <2>1. PICK p \in Positions, t \in Inserts : op = InsertOperation(p, t)
    BY <1>1
  <2>2. p \in Nat /\ t \in Text /\ 0 \in Nat BY InputAssumption
  <2>3. op \in Op BY <2>1, <2>2, ConstructorType
  <2> QED BY <2>1, <2>3 DEF Fits, IsDelete, InsertOperation
<1>2. CASE \E p \in Positions, n \in Lengths : op = DeleteOperation(p, n, << >>)
  <2>1. PICK p \in Positions, n \in Lengths : op = DeleteOperation(p, n, << >>)
    BY <1>2
  <2>2. p \in Nat /\ n \in Nat /\ << >> \in Text
    BY InputAssumption, EmptyText
  <2>3. op \in Op BY <2>1, <2>2, ConstructorType, Zenon
  <2>4. op.text = << >> /\ op.length = n BY <2>1 DEF DeleteOperation
  <2>5. Len(<< >>) <= n BY <2>2, EmptyText
  <2> QED BY <2>3, <2>4, <2>5 DEF Fits
<1> QED BY <1>1, <1>2 DEF Submitted

(* Marking an operation changes neither where it applies nor what it does.  *)
SameEdit(op, other) ==
  /\ op.type = other.type /\ op.position = other.position
  /\ op.length = other.length /\ op.text = other.text

LEMMA SameEditApplies ==
  ASSUME NEW op \in Op, NEW other \in Op, SameEdit(op, other), NEW d \in Text
  PROVE  /\ Applies(op, d) <=> Applies(other, d)
         /\ Apply(op, d) = Apply(other, d)
         /\ Fits(op) <=> Fits(other)
BY DEF SameEdit, Applies, Apply, Fits, IsInsert, IsDelete

LEMMA NumberedType ==
  ASSUME NEW op \in Op, counter \in Nat
  PROVE  Numbered(op) \in Op /\ SameEdit(Numbered(op), op)
<1>1. counter + 1 \in Nat OBVIOUS
<1>2. ASSUME NEW n \in Nat
      PROVE  /\ [op EXCEPT !.source = "LOCAL", !.id = n] \in Op
             /\ SameEdit([op EXCEPT !.source = "LOCAL", !.id = n], op)
  BY DEF Op, Sources, SameEdit
<1> QED BY <1>1, <1>2 DEF Numbered

LEMMA RemoteType ==
  ASSUME NEW op \in Op
  PROVE  Remote(op) \in Op /\ SameEdit(Remote(op), op)
BY DEF Remote, Op, Sources, SameEdit

LEMMA CloneActs ==
  ASSUME NEW op \in Op, NEW d \in Text
  PROVE  /\ Applies(Clone(op), d) <=> Applies(op, d)
         /\ Apply(Clone(op), d) = Apply(op, d)
BY DEF Applies, Apply, Clone, InsertOperation, DeleteOperation, IsInsert

LEMMA CloneFits == ASSUME NEW op \in Op, Fits(op) PROVE Fits(Clone(op))
BY DEF Op, Fits, Clone, InsertOperation, DeleteOperation, IsInsert, IsDelete

LEMMA InverseFits == ASSUME NEW op \in Op PROVE Fits(inverse(op))
<1>1. Len(op.text) \in Nat BY LenText DEF Op
<1> QED BY <1>1 DEF Fits, inverse, InsertOperation, DeleteOperation, IsInsert, IsDelete

LEMMA UndoOpType ==
  ASSUME NEW op \in Op
  PROVE  UndoOp(op) \in Op /\ SameEdit(UndoOp(op), inverse(op))
<1>1. inverse(op) \in Op /\ op.id \in Nat BY InverseType DEF Op
<1> QED BY <1>1 DEF UndoOp, Op, Sources, SameEdit

LEMMA RedoOpType ==
  ASSUME NEW op \in Op
  PROVE  RedoOp(op) \in Op /\ SameEdit(RedoOp(op), Clone(op))
<1>1. Clone(op) \in Op /\ op.id \in Nat BY CloneType DEF Op
<1> QED BY <1>1 DEF RedoOp, Op, Sources, SameEdit

(* The object as apply() leaves it still does what apply() did.             *)
LEMMA AppliedSame ==
  ASSUME NEW op \in Op, NEW d \in Text, Applies(op, d)
  PROVE  /\ Applies(Applied(op, d), d)
         /\ Apply(Applied(op, d), d) = Apply(op, d)
         /\ Fits(op) => Fits(Applied(op, d))
<1>1. CASE IsDelete(op) /\ op.text = << >>
  <2> DEFINE t == Slice(d, op.position, op.length)
             r == Applied(op, d)
  <2>1. r = [op EXCEPT !.text = t] BY <1>1 DEF Applied
  <2>2. op.position \in Nat /\ op.length \in Nat BY DEF Op
  <2>3. op.position + op.length <= Len(d)
    BY <1>1 DEF Applies, IsDelete, IsInsert
  <2>4. t \in Text /\ Len(t) = op.length BY <2>2, <2>3, SliceProperties
  <2> HIDE DEF t
  <2>5. /\ r.type = op.type /\ r.position = op.position /\ r.length = op.length
        /\ r.text = t
    BY <2>1 DEF Op
  <2> HIDE DEF r
  <2>6. Fits(r) BY <2>2, <2>4, <2>5 DEF Fits
  <2>7. Applies(r, d) /\ Apply(r, d) = Apply(op, d)
    BY <1>1, <2>5 DEF Applies, Apply, IsInsert, IsDelete
  <2> QED BY <2>6, <2>7 DEF r
<1>2. CASE ~(IsDelete(op) /\ op.text = << >>) BY <1>2 DEF Applied
<1> QED BY <1>1, <1>2

-----------------------------------------------------------------------------
LEMMA InitIInv == Init => IInv
<1> SUFFICES ASSUME Init PROVE IInv OBVIOUS
<1>1. Len(undoStack) + Len(redoStack) = 0 BY DEF Init
<1> QED BY <1>1, StackEmpty, InputAssumption, MaxHistoryAssumption
        DEF Init, IInv, HistoryBounded

LEMMA setContentIInv ==
  ASSUME IInv, NEW c \in Contents, setContent(c) PROVE IInv'
<1>1. (Len(undoStack) + Len(redoStack))' = 0 BY DEF setContent
<1> QED BY <1>1, StackEmpty, InputAssumption, MaxHistoryAssumption
        DEF setContent, IInv, HistoryBounded

LEMMA applyLocalIInv ==
  ASSUME IInv, NEW op \in Submitted, applyLocalOperation(op) PROVE IInv'
<1> DEFINE n == Numbered(op)
           a == Applied(n, document)
<1>1. op \in Op /\ Fits(op) BY SubmittedType
<1>2. document \in Text /\ counter \in Nat BY DEF IInv
<1>3. n \in Op /\ SameEdit(n, op) BY <1>1, <1>2, NumberedType
<1>4. Applies(op, document) BY DEF applyLocalOperation
<1> HIDE DEF n
<1>5. Applies(n, document) /\ Fits(n) BY <1>1, <1>2, <1>3, <1>4, SameEditApplies
<1>6. a \in Op /\ Fits(a) BY <1>2, <1>3, <1>5, AppliedType, AppliedSame
<1> HIDE DEF a
<1>7. Clone(a) \in Op /\ Fits(Clone(a)) BY <1>6, CloneType, CloneFits
<1>8. document' \in Text BY <1>1, <1>2, <1>4, ApplyType DEF applyLocalOperation
<1>9. undoStack' = trimUndoStack(Append(undoStack, Clone(a))) /\ redoStack' = << >>
  BY DEF applyLocalOperation, addOperation, a, n
<1>10. StackOK(Append(undoStack, Clone(a))) BY <1>7, StackAppend DEF IInv
<1>11. StackOK(undoStack') /\ Len(undoStack') <= MaxHistory
  BY <1>9, <1>10, StackTrim
<1>12. StackOK(redoStack') /\ Len(redoStack') = 0 BY <1>9, StackEmpty
<1>13. HistoryBounded'
  BY <1>11, <1>12, StackLen, MaxHistoryAssumption DEF HistoryBounded
<1>14. emitted' \in Seq(Op)
  <2>1. emitted' = <<a>> BY DEF applyLocalOperation, a, n
  <2> QED BY <1>6, <2>1
<1>15. counter' \in Nat /\ received' \in Nat /\ result' \in {"true", "false", "throw"}
  BY DEF IInv, applyLocalOperation
<1> QED BY <1>8, <1>11, <1>12, <1>13, <1>14, <1>15 DEF IInv

LEMMA applyRemoteIInv ==
  ASSUME IInv, NEW op \in Op, applyRemoteOperation(op) PROVE IInv'
<1> DEFINE n == Remote(op)
           a == Applied(n, document)
<1>2. document \in Text BY DEF IInv
<1>3. n \in Op /\ SameEdit(n, op) BY RemoteType
<1>4. Applies(op, document) BY DEF applyRemoteOperation
<1> HIDE DEF n
<1>5. Applies(n, document) BY <1>2, <1>3, <1>4, SameEditApplies
<1>6. a \in Op BY <1>2, <1>3, <1>5, AppliedType
<1> HIDE DEF a
<1>8. document' \in Text BY <1>2, <1>4, ApplyType DEF applyRemoteOperation
<1>9. /\ undoStack' = [i \in DOMAIN undoStack |-> Transform(undoStack[i], a)]
      /\ redoStack' = [i \in DOMAIN redoStack |-> Transform(redoStack[i], a)]
  BY DEF applyRemoteOperation, transformHistory, a, n
<1>10. StackOK(undoStack) /\ StackOK(redoStack) BY DEF IInv
<1>11. /\ StackOK(undoStack') /\ Len(undoStack') = Len(undoStack)
       /\ StackOK(redoStack') /\ Len(redoStack') = Len(redoStack)
  BY <1>6, <1>9, <1>10, StackTransform
<1>13. HistoryBounded' BY <1>11 DEF HistoryBounded, IInv
<1>14. emitted' \in Seq(Op)
  <2>1. emitted' = <<a>> BY DEF applyRemoteOperation, a, n
  <2> QED BY <1>6, <2>1
<1>15. counter' \in Nat /\ received' \in Nat /\ result' \in {"true", "false", "throw"}
  BY DEF IInv, applyRemoteOperation
<1> QED BY <1>8, <1>11, <1>13, <1>14, <1>15 DEF IInv

LEMMA undoIInv == ASSUME IInv, undo PROVE IInv'
<1> DEFINE op == Last(undoStack)
           u  == UndoOp(op)
           a  == Applied(u, document)
<1>1. document \in Text /\ StackOK(undoStack) /\ StackOK(redoStack) /\ undoStack # << >>
  BY DEF IInv, undo
<1>2. /\ op \in Op /\ Fits(op)
      /\ StackOK(Front(undoStack)) /\ Len(Front(undoStack)) = Len(undoStack) - 1
  BY <1>1, StackPop
<1>3. /\ Applies(u, document) /\ document' = Apply(u, document) /\ emitted' = <<a>>
      /\ redoStack' = Append(redoStack, op) /\ undoStack' = Front(undoStack)
  BY DEF undo
<1> HIDE DEF op
<1>4. u \in Op BY <1>2, UndoOpType
<1> HIDE DEF u
<1>5. a \in Op /\ document' \in Text BY <1>1, <1>3, <1>4, AppliedType, ApplyType
<1> HIDE DEF a
<1>6. StackOK(redoStack') /\ Len(redoStack') = Len(redoStack) + 1
  BY <1>1, <1>2, <1>3, StackAppend
<1>7. HistoryBounded'
  <2>1. Len(undoStack') = Len(undoStack) - 1 BY <1>2, <1>3
  <2>2. Len(undoStack) \in Nat /\ Len(redoStack) \in Nat /\ MaxHistory \in Nat
    BY <1>1, StackLen, MaxHistoryAssumption
  <2>3. Len(undoStack) + Len(redoStack) <= MaxHistory BY DEF IInv, HistoryBounded
  <2> QED BY <1>6, <2>1, <2>2, <2>3 DEF HistoryBounded
<1>8. emitted' \in Seq(Op) BY <1>3, <1>5
<1>9. counter' \in Nat /\ received' \in Nat /\ result' \in {"true", "false", "throw"}
  BY DEF IInv, undo
<1> QED BY <1>2, <1>3, <1>5, <1>6, <1>7, <1>8, <1>9 DEF IInv

LEMMA undoThrowsIInv == ASSUME IInv, undoThrows PROVE IInv'
<1>1. StackOK(undoStack) /\ StackOK(redoStack) /\ undoStack # << >> /\ undoStack' = Front(undoStack)
  BY DEF IInv, undoThrows
<1>2. StackOK(undoStack') /\ Len(undoStack') = Len(undoStack) - 1 BY <1>1, StackPop
<1>3. Len(undoStack) \in Nat /\ Len(redoStack) \in Nat /\ MaxHistory \in Nat
  BY <1>1, StackLen, MaxHistoryAssumption
<1>4. HistoryBounded' BY <1>2, <1>3 DEF IInv, undoThrows, HistoryBounded
<1>5. emitted' \in Seq(Op) BY DEF undoThrows
<1> QED BY <1>2, <1>4, <1>5 DEF IInv, undoThrows

LEMMA redoIInv == ASSUME IInv, redo PROVE IInv'
<1> DEFINE op == Last(redoStack)
           u  == RedoOp(op)
           a  == Applied(u, document)
<1>1. document \in Text /\ StackOK(undoStack) /\ StackOK(redoStack) /\ redoStack # << >>
  BY DEF IInv, redo
<1>2. /\ op \in Op /\ Fits(op)
      /\ StackOK(Front(redoStack)) /\ Len(Front(redoStack)) = Len(redoStack) - 1
  BY <1>1, StackPop
<1>3. /\ Applies(u, document) /\ document' = Apply(u, document) /\ emitted' = <<a>>
      /\ undoStack' = Append(undoStack, op) /\ redoStack' = Front(redoStack)
  BY DEF redo
<1> HIDE DEF op
<1>4. u \in Op BY <1>2, RedoOpType
<1> HIDE DEF u
<1>5. a \in Op /\ document' \in Text BY <1>1, <1>3, <1>4, AppliedType, ApplyType
<1> HIDE DEF a
<1>6. StackOK(undoStack') /\ Len(undoStack') = Len(undoStack) + 1
  BY <1>1, <1>2, <1>3, StackAppend
<1>7. HistoryBounded'
  <2>1. Len(redoStack') = Len(redoStack) - 1 BY <1>2, <1>3
  <2>2. Len(undoStack) \in Nat /\ Len(redoStack) \in Nat /\ MaxHistory \in Nat
    BY <1>1, StackLen, MaxHistoryAssumption
  <2>3. Len(undoStack) + Len(redoStack) <= MaxHistory BY DEF IInv, HistoryBounded
  <2> QED BY <1>6, <2>1, <2>2, <2>3 DEF HistoryBounded
<1>8. emitted' \in Seq(Op) BY <1>3, <1>5
<1>9. counter' \in Nat /\ received' \in Nat /\ result' \in {"true", "false", "throw"}
  BY DEF IInv, redo
<1> QED BY <1>2, <1>3, <1>5, <1>6, <1>7, <1>8, <1>9 DEF IInv

(* Every step of the manager preserves the invariant.                       *)
LEMMA NextIInv == IInv /\ [Next]_vars => IInv'
<1> SUFFICES ASSUME IInv, [Next]_vars PROVE IInv' OBVIOUS
<1>1. ASSUME NEW c \in Contents, setContent(c) PROVE IInv'
  BY <1>1, setContentIInv
<1>2. ASSUME NEW op \in Submitted, applyLocalOperation(op) PROVE IInv'
  BY <1>2, applyLocalIInv
<1>3. ASSUME NEW op \in Submitted, rejectLocalOperation(op) PROVE IInv'
  BY <1>3 DEF IInv, rejectLocalOperation, Unchanged, HistoryBounded
<1>4. ASSUME NEW op \in Submitted, applyRemoteOperation(op) PROVE IInv'
  BY <1>4, SubmittedType, applyRemoteIInv
<1>5. ASSUME NEW op \in Submitted, rejectRemoteOperation(op) PROVE IInv'
  BY <1>5 DEF IInv, rejectRemoteOperation, Unchanged, HistoryBounded
<1>6. CASE undo BY <1>6, undoIInv
<1>7. CASE undoThrows BY <1>7, undoThrowsIInv
<1>8. CASE undoFails BY <1>8 DEF IInv, undoFails, Unchanged, HistoryBounded
<1>9. CASE redo BY <1>9, redoIInv
<1>10. CASE redoFails BY <1>10 DEF IInv, redoFails, Unchanged, HistoryBounded
<1>11. CASE UNCHANGED vars BY <1>11 DEF IInv, vars, HistoryBounded
<1> QED BY <1>1, <1>2, <1>3, <1>4, <1>5, <1>6, <1>7, <1>8, <1>9, <1>10, <1>11
        DEF Next, EditNext, Receive

(* What the invariant says in the terms of the model.                       *)
LEMMA IInvImplies == IInv => TypeOK /\ HistoryBounded /\ TextFitsRange
<1> SUFFICES ASSUME IInv PROVE TypeOK /\ HistoryBounded /\ TextFitsRange OBVIOUS
<1>1. TypeOK BY DEF IInv, TypeOK, StackOK
<1>2. DOMAIN undoStack = 1..Len(undoStack) /\ DOMAIN redoStack = 1..Len(redoStack)
  BY <1>1 DEF TypeOK
<1>3. TextFitsRange BY <1>2 DEF TextFitsRange, IInv, StackOK, Fits
<1> QED BY <1>1, <1>3 DEF IInv

(* The inductive invariant holds in every reachable state of the manager.   *)
THEOREM Invariance == Spec => []IInv
BY InitIInv, NextIInv, PTL DEF Spec

(* Documents stay texts and the stacks hold operations: no call of the      *)
(* DocumentManager, and no transform() of its history, makes a position or  *)
(* a length that underflows.                                                *)
THEOREM TypeCorrect == Spec => []TypeOK
BY Invariance, IInvImplies, PTL

(* The history of the UndoRedoManager never exceeds max_history_size_,      *)
(* although redo() pushes without trimming.                                 *)
THEOREM BoundedHistory == Spec => []HistoryBounded
BY Invariance, IInvImplies, PTL

(* No history of remote operations makes a stacked delete carry more text   *)
(* than the range it removes.                                               *)
THEOREM TextNeverExceedsRange == Spec => []TextFitsRange
BY Invariance, IInvImplies, PTL

-----------------------------------------------------------------------------
(* A step that announces the object it applied explains the new document.   *)
LEMMA AnnouncedExplains ==
  ASSUME NEW op \in Op, NEW d \in Text, Applies(op, d), NEW e, e = <<Applied(op, d)>>
  PROVE  Len(e) = 1 /\ Applies(e[1], d) /\ Apply(op, d) = Apply(e[1], d)
<1>1. Len(e) = 1 /\ e[1] = Applied(op, d) OBVIOUS
<1> QED BY <1>1, AppliedSame

(* Every change of the document that is not a setContent() is announced by  *)
(* one operation that produces it: a listener of operation_callback_ can    *)
(* replay local edits, remote edits, undo and redo alike.                   *)
THEOREM AnnouncedSteps == Spec => EmittedExplains
<1> DEFINE Explained ==
       document' # document =>
         \/ undoStack' = << >> /\ redoStack' = << >> /\ emitted' = << >>
         \/ /\ Len(emitted') = 1
            /\ Applies(emitted'[1], document)
            /\ document' = Apply(emitted'[1], document)
<1>1. ASSUME IInv, [Next]_vars PROVE [Explained]_vars
  <2>1. document \in Text /\ counter \in Nat /\ StackOK(undoStack) /\ StackOK(redoStack)
    BY <1>1 DEF IInv
  <2>2. ASSUME NEW c \in Contents, setContent(c) PROVE Explained
    BY <2>2 DEF setContent
  <2>3. ASSUME NEW op \in Submitted, applyLocalOperation(op) PROVE Explained
    <3>1. op \in Op BY SubmittedType
    <3>2. Numbered(op) \in Op /\ SameEdit(Numbered(op), op) BY <2>1, <3>1, NumberedType
    <3>3. /\ Applies(op, document) /\ document' = Apply(op, document)
          /\ emitted' = <<Applied(Numbered(op), document)>>
      BY <2>3 DEF applyLocalOperation
    <3>4. /\ Applies(Numbered(op), document)
          /\ Apply(Numbered(op), document) = Apply(op, document)
      BY <2>1, <3>1, <3>2, <3>3, SameEditApplies
    <3> QED BY <2>1, <3>2, <3>3, <3>4, AnnouncedExplains
  <2>4. ASSUME NEW op \in Submitted, applyRemoteOperation(op) PROVE Explained
    <3>1. op \in Op BY SubmittedType
    <3>2. Remote(op) \in Op /\ SameEdit(Remote(op), op) BY <3>1, RemoteType
    <3>3. /\ Applies(op, document) /\ document' = Apply(op, document)
          /\ emitted' = <<Applied(Remote(op), document)>>
      BY <2>4 DEF applyRemoteOperation
    <3>4. /\ Applies(Remote(op), document)
          /\ Apply(Remote(op), document) = Apply(op, document)
      BY <2>1, <3>1, <3>2, <3>3, SameEditApplies
    <3> QED BY <2>1, <3>2, <3>3, <3>4, AnnouncedExplains
  <2>5. CASE undo
    <3>1. Last(undoStack) \in Op BY <2>1, <2>5, StackPop DEF undo
    <3>2. UndoOp(Last(undoStack)) \in Op BY <3>1, UndoOpType
    <3> QED BY <2>1, <2>5, <3>2, AnnouncedExplains DEF undo
  <2>6. CASE redo
    <3>1. Last(redoStack) \in Op BY <2>1, <2>6, StackPop DEF redo
    <3>2. RedoOp(Last(redoStack)) \in Op BY <3>1, RedoOpType
    <3> QED BY <2>1, <2>6, <3>2, AnnouncedExplains DEF redo
  <2>7. ASSUME NEW op \in Submitted, rejectLocalOperation(op) \/ rejectRemoteOperation(op)
        PROVE  Explained
    BY <2>7 DEF rejectLocalOperation, rejectRemoteOperation, Unchanged
  <2>8. CASE undoThrows \/ undoFails \/ redoFails
    BY <2>8 DEF undoThrows, undoFails, redoFails, Unchanged
  <2>9. CASE UNCHANGED vars BY <2>9 DEF vars
  <2> QED BY <1>1, <2>2, <2>3, <2>4, <2>5, <2>6, <2>7, <2>8, <2>9
          DEF Next, EditNext, Receive
<1> QED BY <1>1, Invariance, PTL DEF Spec, EmittedExplains

-----------------------------------------------------------------------------
(* The inductive invariant: the manager's own, the types of the history     *)
(* variables, and the chain of documents behind the two stacks.             *)
HInv ==
  /\ IInv
  /\ past \in Seq(Text) /\ future \in Seq(Text)
  /\ HistoryLeads

-----------------------------------------------------------------------------
(* Stacks of operations and documents grow and shrink together.             *)
LEMMA ChainEmpty ==
  ASSUME NEW dir, NEW cur PROVE Chained(dir, << >>, << >>, cur)
BY DEF Chained

LEMMA ChainPush ==
  ASSUME NEW dir, NEW ops \in Seq(Op), NEW docs \in Seq(Text), NEW cur \in Text,
         NEW op \in Op, NEW next \in Text,
         Chained(dir, ops, docs, cur), Link(dir, op, cur, next)
  PROVE  Chained(dir, Append(ops, op), Append(docs, cur), next)
<1> DEFINE n == Len(ops)
           o == Append(ops, op)
           d == Append(docs, cur)
<1>1. n \in Nat /\ Len(docs) = n BY DEF Chained
<1>2. Len(o) = n + 1 /\ o[n + 1] = op /\ \A i \in 1..n : o[i] = ops[i]
  BY <1>1
<1>3. Len(d) = n + 1 /\ d[n + 1] = cur /\ \A i \in 1..n : d[i] = docs[i]
  BY <1>1
<1> HIDE DEF o, d
<1>4. ASSUME NEW i \in 1..Len(o)
      PROVE  Link(dir, o[i], d[i], IF i < Len(d) THEN d[i + 1] ELSE next)
  <2>1. CASE i = n + 1 BY <1>1, <1>2, <1>3, <2>1
  <2>2. CASE i # n + 1
    <3>1. i \in 1..n /\ i < Len(d) BY <1>1, <1>2, <1>3, <2>2
    <3>2. Link(dir, ops[i], docs[i], IF i < Len(docs) THEN docs[i + 1] ELSE cur)
      BY <3>1 DEF Chained
    <3>3. d[i + 1] = IF i < Len(docs) THEN docs[i + 1] ELSE cur
      <4>1. CASE i < n BY <4>1, <1>1, <1>3, <3>1
      <4>2. CASE i = n BY <4>2, <1>1, <1>3
      <4> QED BY <4>1, <4>2, <3>1, <1>1
    <3>4. (IF i < Len(d) THEN d[i + 1] ELSE next) = d[i + 1] BY <3>1
    <3> QED BY <1>2, <1>3, <3>1, <3>2, <3>3, <3>4
  <2> QED BY <2>1, <2>2
<1>5. Chained(dir, o, d, next) BY <1>2, <1>3, <1>4 DEF Chained
<1> QED BY <1>5 DEF o, d

LEMMA ChainPop ==
  ASSUME NEW dir, NEW ops \in Seq(Op), NEW docs \in Seq(Text), NEW cur \in Text,
         Chained(dir, ops, docs, cur), ops # << >>
  PROVE  /\ Chained(dir, Front(ops), Front(docs), Last(docs))
         /\ Link(dir, Last(ops), Last(docs), cur)
         /\ Last(docs) \in Text /\ Front(docs) \in Seq(Text) /\ docs # << >>
<1> DEFINE n == Len(ops)
           o == Front(ops)
           d == Front(docs)
<1>1. n \in Nat /\ n >= 1 /\ Len(docs) = n BY DEF Chained
<1>2. Len(o) = n - 1 /\ \A i \in 1..(n - 1) : o[i] = ops[i]
  BY <1>1 DEF Front
<1>3. /\ Len(d) = n - 1 /\ d \in Seq(Text)
      /\ \A i \in 1..(n - 1) : d[i] = docs[i]
  BY <1>1 DEF Front
<1>4. Last(docs) = docs[n] /\ docs[n] \in Text /\ Last(ops) = ops[n] /\ docs # << >>
  BY <1>1 DEF Last
<1>5. Link(dir, ops[n], docs[n], cur)
  <2>1. Link(dir, ops[n], docs[n], IF n < Len(docs) THEN docs[n + 1] ELSE cur)
    BY <1>1 DEF Chained
  <2>2. (IF n < Len(docs) THEN docs[n + 1] ELSE cur) = cur BY <1>1
  <2> QED BY <2>1, <2>2
<1> HIDE DEF o, d
<1>6. ASSUME NEW i \in 1..Len(o)
      PROVE  Link(dir, o[i], d[i], IF i < Len(d) THEN d[i + 1] ELSE docs[n])
  <2>1. i \in 1..(n - 1) /\ i < Len(docs) /\ i \in 1..n BY <1>1, <1>2
  <2>2. Link(dir, ops[i], docs[i], IF i < Len(docs) THEN docs[i + 1] ELSE cur)
    BY <2>1 DEF Chained
  <2>3. (IF i < Len(docs) THEN docs[i + 1] ELSE cur) = docs[i + 1] BY <2>1
  <2>4. docs[i + 1] = IF i < Len(d) THEN d[i + 1] ELSE docs[n]
    <3>1. CASE i < n - 1 BY <3>1, <2>1, <1>1, <1>3
    <3>2. CASE i = n - 1 BY <3>2, <1>1, <1>3
    <3> QED BY <3>1, <3>2, <2>1, <1>1
  <2> QED BY <1>2, <1>3, <2>1, <2>2, <2>3, <2>4
<1>7. Chained(dir, o, d, docs[n]) BY <1>2, <1>3, <1>6 DEF Chained
<1> QED BY <1>3, <1>4, <1>5, <1>7 DEF o, d

LEMMA ChainTrim ==
  ASSUME NEW dir, NEW ops \in Seq(Op), NEW docs \in Seq(Text), NEW cur \in Text,
         Chained(dir, ops, docs, cur)
  PROVE  /\ Chained(dir, trimUndoStack(ops), trimUndoStack(docs), cur)
         /\ trimUndoStack(docs) \in Seq(Text)
<1> DEFINE n == Len(ops)
           k == n - MaxHistory
           o == SubSeq(ops, k + 1, n)
           d == SubSeq(docs, k + 1, n)
<1>1. n \in Nat /\ Len(docs) = n /\ MaxHistory \in Nat
  BY MaxHistoryAssumption DEF Chained
<1>2. CASE n > MaxHistory
  <2>1. k \in Nat /\ k <= n BY <1>1, <1>2
  <2>2. trimUndoStack(ops) = o /\ trimUndoStack(docs) = d
    BY <1>1, <1>2 DEF trimUndoStack
  <2> HIDE DEF k
  <2>3. Len(o) = n - k /\ \A i \in 1..(n - k) : o[i] = ops[k + i]
    BY <1>1, <2>1
  <2>4. d \in Seq(Text) /\ Len(d) = n - k /\ \A i \in 1..(n - k) : d[i] = docs[k + i]
    BY <1>1, <2>1
  <2> HIDE DEF o, d
  <2>5. ASSUME NEW i \in 1..Len(o)
        PROVE  Link(dir, o[i], d[i], IF i < Len(d) THEN d[i + 1] ELSE cur)
    <3>1. i \in 1..(n - k) /\ k + i \in 1..n BY <1>1, <2>1, <2>3
    <3>2. Link(dir, ops[k + i], docs[k + i],
               IF k + i < Len(docs) THEN docs[k + i + 1] ELSE cur)
      BY <3>1 DEF Chained
    <3>3. (IF k + i < Len(docs) THEN docs[k + i + 1] ELSE cur)
            = IF i < Len(d) THEN d[i + 1] ELSE cur
      <4>1. CASE i < n - k
        <5>1. i + 1 \in 1..(n - k) /\ k + (i + 1) = k + i + 1 /\ k + i < n
          BY <4>1, <3>1, <2>1, <1>1
        <5>2. d[i + 1] = docs[k + i + 1] BY <5>1, <2>4
        <5> QED BY <4>1, <5>1, <5>2, <1>1, <2>4
      <4>2. CASE i = n - k
        <5>1. ~(k + i < n) /\ ~(i < n - k) BY <4>2, <1>1, <2>1
        <5> QED BY <5>1, <1>1, <2>4
      <4> QED BY <4>1, <4>2, <3>1, <1>1, <2>1
    <3> QED BY <2>3, <2>4, <3>1, <3>2, <3>3
  <2>6. Chained(dir, o, d, cur) BY <2>3, <2>4, <2>5 DEF Chained
  <2> QED BY <2>2, <2>4, <2>6
<1>3. CASE ~(n > MaxHistory) BY <1>1, <1>3 DEF trimUndoStack
<1> QED BY <1>2, <1>3

-----------------------------------------------------------------------------
(* Undoing along a link gives the far document back.                        *)
LEMMA UndoReaches ==
  ASSUME NEW op \in Op, NEW far \in Text, NEW near \in Text, Leads(op, far, near)
  PROVE  Applies(UndoOp(op), near) /\ Apply(UndoOp(op), near) = far
<1>1. Applies(inverse(op), near) /\ Apply(inverse(op), near) = far
  BY InverseRestores DEF Leads
<1>2. inverse(op) \in Op /\ UndoOp(op) \in Op /\ SameEdit(UndoOp(op), inverse(op))
  BY InverseType, UndoOpType
<1> QED BY <1>1, <1>2, SameEditApplies

LEMMA RedoReaches ==
  ASSUME NEW op \in Op, NEW far \in Text, NEW near \in Text, Leads(op, near, far)
  PROVE  Applies(RedoOp(op), near) /\ Apply(RedoOp(op), near) = far
<1>1. Clone(op) \in Op /\ RedoOp(op) \in Op /\ SameEdit(RedoOp(op), Clone(op))
  BY CloneType, RedoOpType
<1>2. Applies(Clone(op), near) /\ Apply(Clone(op), near) = far
  BY CloneActs DEF Leads
<1> QED BY <1>1, <1>2, SameEditApplies

(* A delete that knows the text it removed and knows none removed nothing.  *)
LEMMA NotInvertibleIsVoid ==
  ASSUME NEW op \in Op, NEW far \in Text, NEW near \in Text,
         Leads(op, far, near), ~Invertible(op)
  PROVE  near = far
<1>1. op.position \in Nat /\ op.length \in Nat BY DEF Op
<1>2. ~IsInsert(op) /\ IsDelete(op) /\ op.text = << >>
  BY DEF Op, Invertible, IsInsert, IsDelete
<1>3. op.position + op.length <= Len(far) BY <1>2 DEF Leads, Applies
<1>4. Len(Slice(far, op.position, op.length)) = op.length
  BY <1>1, <1>3, SliceProperties
<1>5. op.length = 0 BY <1>2, <1>4, EmptyText DEF Leads
<1>6. near = Splice(far, op.position, 0, << >>) BY <1>2, <1>5 DEF Leads, Apply
<1>7. IsErasure(near, far, op.position, 0)
  <2>1. 0 \in Nat /\ op.position + 0 <= Len(far) BY <1>1, <1>3, <1>5
  <2> QED BY <1>1, <1>6, <2>1, EraseProperties
<1>8. Len(far) \in Nat BY LenText
<1>9. Len(near) = Len(far) /\ \A i \in 1..Len(near) : near[i] = far[i]
  BY <1>1, <1>7, <1>8 DEF IsErasure
<1> QED BY <1>9, TextEqual

(* What applyLocalOperation() puts on the undo stack leads from the old     *)
(* document to the new one and knows the text it removed.                   *)
LEMMA AddedLeads ==
  ASSUME NEW op \in Submitted, NEW d \in Text, Applies(op, d), counter \in Nat
  PROVE  Leads(Clone(Applied(Numbered(op), d)), d, Apply(op, d))
<1> DEFINE n == Numbered(op)
           a == Applied(n, d)
<1>1. op \in Op BY SubmittedType
<1>2. n \in Op /\ SameEdit(n, op) BY <1>1, NumberedType
<1>3. IsDelete(op) => op.text = << >>
  BY DEF Submitted, InsertOperation, DeleteOperation, IsDelete
<1> HIDE DEF n
<1>4. Applies(n, d) /\ Apply(n, d) = Apply(op, d) BY <1>1, <1>2, SameEditApplies
<1>5. a \in Op /\ Applies(a, d) /\ Apply(a, d) = Apply(op, d)
  BY <1>2, <1>4, AppliedType, AppliedSame
<1>6. IsDelete(a) => a.text = Slice(d, a.position, a.length)
  <2>1. CASE IsDelete(n)
    <3>1. n.text = << >> BY <1>2, <1>3, <2>1 DEF SameEdit, IsDelete
    <3>2. a = [n EXCEPT !.text = Slice(d, n.position, n.length)]
      BY <2>1, <3>1 DEF Applied
    <3>3. /\ a.text = Slice(d, n.position, n.length)
          /\ a.position = n.position /\ a.length = n.length
      BY <1>2, <3>2 DEF Op
    <3> QED BY <3>3
  <2>2. CASE ~IsDelete(n) BY <2>2 DEF Applied
  <2> QED BY <2>1, <2>2
<1> HIDE DEF a
<1>7. Applies(Clone(a), d) /\ Apply(Clone(a), d) = Apply(op, d) BY <1>5, CloneActs
<1>8. IsDelete(Clone(a)) => Clone(a).text = Slice(d, Clone(a).position, Clone(a).length)
  BY <1>5, <1>6 DEF Op, Clone, InsertOperation, DeleteOperation, IsDelete, IsInsert
<1> QED BY <1>7, <1>8 DEF Leads, a, n

-----------------------------------------------------------------------------
LEMMA HInitHInv == HInit => HInv
<1> SUFFICES ASSUME HInit PROVE HInv OBVIOUS
<1>1. IInv BY InitIInv DEF HInit
<1>2. HistoryLeads BY ChainEmpty DEF HInit, Init, HistoryLeads
<1> QED BY <1>1, <1>2 DEF HInv, HInit

(* The facts about a state that every step below starts from.               *)
LEMMA HInvFacts ==
  ASSUME HInv
  PROVE  /\ document \in Text /\ counter \in Nat
         /\ StackOK(undoStack) /\ StackOK(redoStack)
         /\ undoStack \in Seq(Op) /\ redoStack \in Seq(Op)
         /\ past \in Seq(Text) /\ future \in Seq(Text)
         /\ Chained("undo", undoStack, past, document)
         /\ Chained("redo", redoStack, future, document)
BY DEF HInv, IInv, StackOK, HistoryLeads

(* A step of the manager that moves the history along, and its image in the *)
(* timeline.                                                                *)
Moves(step) == (past' \in Seq(Text) /\ future' \in Seq(Text) /\ HistoryLeads') /\ step

LEMMA applyLocalMoves ==
  ASSUME HInv, NEW op \in Submitted, applyLocalOperation(op), document' \in Text,
         past' = trimUndoStack(Append(past, document)), future' = << >>
  PROVE  Moves(Timeline!Edit)
<1> DEFINE c == Clone(Applied(Numbered(op), document))
<1>1. /\ Applies(op, document) /\ document' = Apply(op, document)
      /\ undoStack' = trimUndoStack(Append(undoStack, c)) /\ redoStack' = << >>
  BY DEF applyLocalOperation, addOperation
<1>2. Leads(c, document, document') BY <1>1, HInvFacts, AddedLeads
<1>3. c \in Op
  <2>1. op \in Op BY SubmittedType
  <2>2. Numbered(op) \in Op /\ SameEdit(Numbered(op), op)
    BY <2>1, HInvFacts, NumberedType
  <2>3. Applies(Numbered(op), document) BY <1>1, <2>1, <2>2, HInvFacts, SameEditApplies
  <2> QED BY <2>2, <2>3, HInvFacts, AppliedType, CloneType
<1> HIDE DEF c
<1>4. Link("undo", c, document, document') BY <1>2 DEF Link
<1>5. Chained("undo", Append(undoStack, c), Append(past, document), document')
  BY <1>3, <1>4, HInvFacts, ChainPush
<1>6. Append(undoStack, c) \in Seq(Op) /\ Append(past, document) \in Seq(Text)
  BY <1>3, HInvFacts
<1>7. Chained("undo", undoStack', past', document') /\ past' \in Seq(Text)
  BY <1>1, <1>5, <1>6, ChainTrim
<1>8. Chained("redo", redoStack', future', document') /\ future' \in Seq(Text)
  BY <1>1, ChainEmpty
<1>9. Timeline!Edit BY DEF Timeline!Edit, Timeline!Recent, trimUndoStack
<1> QED BY <1>7, <1>8, <1>9 DEF HistoryLeads, Moves

LEMMA undoMoves ==
  ASSUME HInv, undo, past' = Front(past), future' = Append(future, document)
  PROVE  Moves(Timeline!Back)
<1> DEFINE op == Last(undoStack)
<1>1. /\ undoStack # << >> /\ document' = Apply(UndoOp(op), document)
      /\ redoStack' = Append(redoStack, op) /\ undoStack' = Front(undoStack)
  BY DEF undo
<1>2. /\ Chained("undo", undoStack', past', Last(past))
      /\ Link("undo", op, Last(past), document)
      /\ Last(past) \in Text /\ past' \in Seq(Text) /\ past # << >>
  BY <1>1, HInvFacts, ChainPop
<1>3. op \in Op BY <1>1, HInvFacts, StackPop
<1> HIDE DEF op
<1>4. Leads(op, Last(past), document) BY <1>2 DEF Link
<1>5. document' = Last(past) BY <1>1, <1>2, <1>3, <1>4, HInvFacts, UndoReaches
<1>6. Link("redo", op, document, document') BY <1>4, <1>5 DEF Link
<1>7. Chained("redo", redoStack', future', document')
  BY <1>1, <1>2, <1>3, <1>5, <1>6, HInvFacts, ChainPush
<1>8. future' \in Seq(Text) BY HInvFacts
<1>9. Timeline!Back BY <1>2, <1>5 DEF Timeline!Back, Timeline!Butlast, Last, Front
<1> QED BY <1>2, <1>5, <1>7, <1>8, <1>9 DEF HistoryLeads, Moves

LEMMA undoThrowsMoves ==
  ASSUME HInv, undoThrows, past' = Front(past), UNCHANGED future
  PROVE  Moves(Timeline!Forget)
<1> DEFINE op == Last(undoStack)
<1>1. /\ undoStack # << >> /\ ~Invertible(op) /\ undoStack' = Front(undoStack)
      /\ UNCHANGED <<document, redoStack>>
  BY DEF undoThrows
<1>2. /\ Chained("undo", undoStack', past', Last(past))
      /\ Link("undo", op, Last(past), document)
      /\ Last(past) \in Text /\ past' \in Seq(Text) /\ past # << >>
  BY <1>1, HInvFacts, ChainPop
<1>3. op \in Op BY <1>1, HInvFacts, StackPop
<1> HIDE DEF op
<1>4. Leads(op, Last(past), document) BY <1>2 DEF Link
<1>5. document = Last(past)
  BY <1>1, <1>2, <1>3, <1>4, HInvFacts, NotInvertibleIsVoid
<1>6. Timeline!Forget
  BY <1>1, <1>2, <1>5 DEF Timeline!Forget, Timeline!Butlast, Last, Front
<1>7. HistoryLeads' BY <1>1, <1>2, <1>5, HInvFacts DEF HistoryLeads
<1>8. future' \in Seq(Text) BY HInvFacts
<1> QED BY <1>2, <1>6, <1>7, <1>8 DEF Moves

LEMMA redoMoves ==
  ASSUME HInv, redo, past' = Append(past, document), future' = Front(future)
  PROVE  Moves(Timeline!Forward)
<1> DEFINE op == Last(redoStack)
<1>1. /\ redoStack # << >> /\ document' = Apply(RedoOp(op), document)
      /\ undoStack' = Append(undoStack, op) /\ redoStack' = Front(redoStack)
  BY DEF redo
<1>2. /\ Chained("redo", redoStack', future', Last(future))
      /\ Link("redo", op, Last(future), document)
      /\ Last(future) \in Text /\ future' \in Seq(Text) /\ future # << >>
  BY <1>1, HInvFacts, ChainPop
<1>3. op \in Op BY <1>1, HInvFacts, StackPop
<1> HIDE DEF op
<1>4. Leads(op, document, Last(future)) BY <1>2 DEF Link
<1>5. document' = Last(future) BY <1>1, <1>2, <1>3, <1>4, HInvFacts, RedoReaches
<1>6. Link("undo", op, document, document') BY <1>4, <1>5 DEF Link
<1>7. Chained("undo", undoStack', past', document')
  BY <1>1, <1>2, <1>3, <1>5, <1>6, HInvFacts, ChainPush
<1>8. past' \in Seq(Text) BY HInvFacts
<1>9. Timeline!Forward BY <1>2, <1>5 DEF Timeline!Forward, Timeline!Butlast, Last, Front
<1> QED BY <1>2, <1>5, <1>7, <1>8, <1>9 DEF HistoryLeads, Moves

LEMMA setContentMoves ==
  ASSUME HInv, NEW c \in Contents, setContent(c), past' = << >>, future' = << >>
  PROVE  Moves(Timeline!Load)
<1>1. /\ document' \in Text /\ undoStack' = << >> /\ redoStack' = << >>
  BY InputAssumption DEF setContent
<1>2. HistoryLeads' BY <1>1, ChainEmpty DEF HistoryLeads
<1>3. Timeline!Load BY <1>1 DEF Timeline!Load
<1> QED BY <1>2, <1>3 DEF Moves

(* Every step preserves the invariant and is a step of the timeline or      *)
(* leaves it as it is.                                                      *)
LEMMA HNextSimulates ==
  ASSUME HInv, [HNext]_hvars
  PROVE  HInv' /\ [Timeline!Next]_(Timeline!vars)
<1>1. [Next]_vars BY DEF HNext, hvars, Next, EditNext, Receive
<1>2. IInv' BY <1>1, NextIInv DEF HInv
<1>3. document' \in Text BY <1>2 DEF IInv
<1>4. CASE /\ \E c \in Contents : setContent(c)
           /\ past' = << >> /\ future' = << >>
  BY <1>2, <1>4, setContentMoves DEF Moves, HInv, Timeline!Next
<1>5. CASE /\ \E op \in Submitted : applyLocalOperation(op)
           /\ past' = trimUndoStack(Append(past, document)) /\ future' = << >>
  BY <1>2, <1>3, <1>5, applyLocalMoves DEF Moves, HInv, Timeline!Next
<1>6. CASE undo /\ past' = Front(past) /\ future' = Append(future, document)
  BY <1>2, <1>6, undoMoves DEF Moves, HInv, Timeline!Next
<1>7. CASE undoThrows /\ past' = Front(past) /\ UNCHANGED future
  BY <1>2, <1>7, undoThrowsMoves DEF Moves, HInv, Timeline!Next
<1>8. CASE redo /\ past' = Append(past, document) /\ future' = Front(future)
  BY <1>2, <1>8, redoMoves DEF Moves, HInv, Timeline!Next
<1>9. CASE UNCHANGED <<document, undoStack, redoStack, past, future>>
  BY <1>2, <1>9 DEF HInv, HistoryLeads, Timeline!vars
<1>10. CASE /\ undoFails \/ redoFails \/ \E op \in Submitted : rejectLocalOperation(op)
            /\ UNCHANGED <<past, future>>
  BY <1>9, <1>10 DEF undoFails, redoFails, rejectLocalOperation, Unchanged
<1>11. CASE UNCHANGED hvars BY <1>9, <1>11 DEF hvars, vars
<1> QED BY <1>4, <1>5, <1>6, <1>7, <1>8, <1>10, <1>11 DEF HNext

THEOREM HInvariance == HSpec => []HInv
BY HInitHInv, HNextSimulates, PTL DEF HSpec

(* Whatever edits, undos and redos a user alone makes, every operation on   *)
(* the undo and the redo stack leads exactly between the documents on its   *)
(* two sides.                                                               *)
THEOREM HistoryAlwaysLeads == HSpec => []HistoryLeads
<1>1. HInv => HistoryLeads BY DEF HInv
<1> QED BY <1>1, HInvariance, PTL

(* undo() and redo() of a user alone never find their operation refused, so *)
(* the branches that put it back are never taken.                           *)
THEOREM NothingPutBack == HSpec => []NeverPutBack
<1>1. ASSUME HInv PROVE NeverPutBack
  <2>1. ASSUME undoStack # << >> PROVE Applies(UndoOp(Last(undoStack)), document)
    <3>1. Last(undoStack) \in Op BY <1>1, <2>1, HInvFacts, StackPop
    <3>2. Link("undo", Last(undoStack), Last(past), document) /\ Last(past) \in Text
      BY <1>1, <2>1, HInvFacts, ChainPop
    <3> QED BY <1>1, <3>1, <3>2, HInvFacts, UndoReaches DEF Link
  <2>2. ASSUME redoStack # << >> PROVE Applies(RedoOp(Last(redoStack)), document)
    <3>1. Last(redoStack) \in Op BY <1>1, <2>2, HInvFacts, StackPop
    <3>2. Link("redo", Last(redoStack), Last(future), document) /\ Last(future) \in Text
      BY <1>1, <2>2, HInvFacts, ChainPop
    <3> QED BY <1>1, <3>1, <3>2, HInvFacts, RedoReaches DEF Link
  <2> QED BY <2>1, <2>2 DEF NeverPutBack
<1> QED BY <1>1, HInvariance, PTL

(* DocumentManager with its UndoRedoManager implements the timeline: undo() *)
(* and redo() reproduce the documents of the past exactly, for every        *)
(* history size and every sequence of edits of a user alone.                *)
THEOREM Refinement == HSpec => ImplementsTimeline
<1>1. HInit => Timeline!Init
  BY InputAssumption DEF HInit, Init, Timeline!Init
<1> QED BY <1>1, HInvariance, HNextSimulates, PTL
        DEF HSpec, ImplementsTimeline, Timeline!Spec
=============================================================================
