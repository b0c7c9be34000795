-------------------------- MODULE OperationProofs --------------------------
(***************************************************************************)
(* Facts about the operations of Operation, for documents of any length    *)
(* and texts over any alphabet.                                            *)
(***************************************************************************)
EXTENDS Operation, SequenceTheorems, TLAPS

(* The constructors build operations.                                       *)
LEMMA ConstructorType ==
  ASSUME NEW p \in Nat, NEW n \in Nat, NEW t \in Text
  PROVE  InsertOperation(p, t) \in Op /\ DeleteOperation(p, n, t) \in Op
BY DEF InsertOperation, DeleteOperation, Op, Sources, NoId

(* What is cut from a text is a text.                                       *)
LEMMA SubSeqType ==
  ASSUME NEW t \in Text, NEW m \in Int, NEW n \in Int, 1 <= m, n <= Len(t)
  PROVE  SubSeq(t, m, n) \in Text
BY DEF Text

LEMMA SubSeqLen ==
  ASSUME NEW t \in Text, NEW m \in Int, NEW n \in Int, 1 <= m, m <= n + 1, n <= Len(t)
  PROVE  Len(SubSeq(t, m, n)) = n - m + 1
BY DEF Text

(* apply() turns a document into a document.                                *)
LEMMA ApplyType ==
  ASSUME NEW op \in Op, NEW d \in Text, Applies(op, d)
  PROVE  Apply(op, d) \in Text
BY DEF Applies, Apply, Splice, Op, Text, IsInsert

(* The text a delete stores when it is applied is cut from the document.    *)
LEMMA AppliedType ==
  ASSUME NEW op \in Op, NEW d \in Text, Applies(op, d)
  PROVE  Applied(op, d) \in Op
<1>1. IsDelete(op) => Slice(d, op.position, op.length) \in Text
  BY DEF Applies, Slice, IsDelete, IsInsert, Op, Text
<1> QED BY <1>1 DEF Applied, Op

LEMMA CloneType == ASSUME NEW op \in Op PROVE Clone(op) \in Op
BY ConstructorType DEF Clone, Op

LEMMA InverseType == ASSUME NEW op \in Op PROVE inverse(op) \in Op
<1>1. Len(op.text) \in Nat BY DEF Op, Text
<1> QED BY <1>1, ConstructorType DEF inverse, Op

-----------------------------------------------------------------------------
LEMMA ConcatText ==
  ASSUME NEW x \in Text, NEW y \in Text
  PROVE  /\ x \o y \in Text /\ Len(x \o y) = Len(x) + Len(y)
         /\ \A i \in 1..(Len(x) + Len(y)) :
              (x \o y)[i] = IF i <= Len(x) THEN x[i] ELSE y[i - Len(x)]
BY ConcatProperties DEF Text

(* r has the length and the characters of Splice(d, p, n, t).               *)
IsSplice(r, d, p, n, t) ==
  /\ r \in Text
  /\ Len(r) = Len(d) - n + Len(t)
  /\ \A i \in 1..(Len(d) - n + Len(t)) :
       r[i] = IF i <= p THEN d[i]
              ELSE IF i <= p + Len(t) THEN t[i - p]
              ELSE d[i - Len(t) + n]

(* The same for std::string::insert and for std::string::erase.             *)
IsInsertion(r, d, p, t) ==
  /\ r \in Text
  /\ Len(r) = Len(d) + Len(t)
  /\ \A i \in 1..(Len(d) + Len(t)) :
       r[i] = IF i <= p THEN d[i]
              ELSE IF i <= p + Len(t) THEN t[i - p] ELSE d[i - Len(t)]

IsErasure(r, d, p, n) ==
  /\ r \in Text
  /\ Len(r) = Len(d) - n
  /\ \A i \in 1..(Len(d) - n) : r[i] = IF i <= p THEN d[i] ELSE d[i + n]

(* Length and characters of a spliced document.                             *)
LEMMA SpliceProperties ==
  ASSUME NEW d \in Text, NEW t \in Text, NEW p \in Nat, NEW n \in Nat,
         p + n <= Len(d)
  PROVE  IsSplice(Splice(d, p, n, t), d, p, n, t)
<1> DEFINE a == SubSeq(d, 1, p)
           b == SubSeq(d, p + n + 1, Len(d))
<1>1. /\ a \in Text /\ Len(a) = p
      /\ \A i \in 1..p : a[i] = d[i]
  BY DEF Text
<1>2. /\ b \in Text /\ Len(b) = Len(d) - p - n
      /\ \A i \in 1..(Len(d) - p - n) : b[i] = d[p + n + i]
  BY DEF Text
<1> HIDE DEF a, b
<1>3. /\ a \o t \in Text /\ Len(a \o t) = p + Len(t)
      /\ \A i \in 1..(p + Len(t)) : (a \o t)[i] = IF i <= p THEN d[i] ELSE t[i - p]
  BY SMTT(30), <1>1 DEF Text
<1> DEFINE at == a \o t
<1>4. /\ at \in Text /\ Len(at) = p + Len(t)
      /\ \A i \in 1..(p + Len(t)) : at[i] = IF i <= p THEN d[i] ELSE t[i - p]
  BY <1>3
<1> HIDE DEF at
<1> DEFINE r == at \o b
<1>5. Len(t) \in Nat /\ Len(d) \in Nat BY DEF Text
<1>6. /\ r \in Text /\ Len(r) = Len(at) + Len(b)
      /\ \A i \in 1..(Len(at) + Len(b)) :
           r[i] = IF i <= Len(at) THEN at[i] ELSE b[i - Len(at)]
  BY <1>2, <1>4, ConcatText, Zenon
<1>7. Splice(d, p, n, t) = r
  BY DEF Splice, a, b, at
<1> HIDE DEF r
<1>8. ASSUME NEW i \in 1..(Len(d) - n + Len(t))
      PROVE  r[i] = IF i <= p THEN d[i]
                    ELSE IF i <= p + Len(t) THEN t[i - p]
                    ELSE d[i - Len(t) + n]
  <2>1. CASE i <= p + Len(t)
    <3>1. i \in 1..(p + Len(t)) /\ i \in 1..(Len(at) + Len(b)) /\ i <= Len(at)
      BY <2>1, <1>2, <1>4, <1>5
    <3>2. r[i] = at[i] BY <3>1, <1>6
    <3>3. at[i] = IF i <= p THEN d[i] ELSE t[i - p] BY <3>1, <1>4
    <3> QED BY <2>1, <3>2, <3>3
  <2>2. CASE i > p + Len(t)
    <3>1. r[i] = b[i - (p + Len(t))] BY <2>2, <1>2, <1>4, <1>5, <1>6
    <3>2. i - (p + Len(t)) \in 1..(Len(d) - p - n) BY <2>2, <1>5
    <3>3. b[i - (p + Len(t))] = d[p + n + (i - (p + Len(t)))] BY <3>2, <1>2
    <3>4. p + n + (i - (p + Len(t))) = i - Len(t) + n BY <1>5
    <3> QED BY <2>2, <3>1, <3>3, <3>4, <1>5
  <2> QED BY <2>1, <2>2, <1>5
<1>9. Len(r) = Len(d) - n + Len(t)
  BY <1>2, <1>4, <1>5, <1>6
<1> QED BY <1>6, <1>7, <1>8, <1>9 DEF IsSplice

LEMMA TextEqual ==
  ASSUME NEW x \in Text, NEW y \in Text, Len(x) = Len(y),
         \A i \in 1..Len(x) : x[i] = y[i]
  PROVE  x = y
BY SeqEqual DEF Text

LEMMA SliceProperties ==
  ASSUME NEW d \in Text, NEW p \in Nat, NEW n \in Nat, p + n <= Len(d)
  PROVE  /\ Slice(d, p, n) \in Text /\ Len(Slice(d, p, n)) = n
         /\ \A i \in 1..n : Slice(d, p, n)[i] = d[p + i]
BY DEF Slice, Text

LEMMA EmptyText == << >> \in Text /\ Len(<< >>) = 0
BY DEF Text

LEMMA LenText == ASSUME NEW t \in Text PROVE Len(t) \in Nat
BY DEF Text

LEMMA NoTextIsEmpty == ASSUME NEW t \in Text, Len(t) = 0 PROVE t = << >>
BY DEF Text

LEMMA InsertProperties ==
  ASSUME NEW d \in Text, NEW t \in Text, NEW p \in Nat, p <= Len(d)
  PROVE  IsInsertion(Splice(d, p, 0, t), d, p, t)
<1> DEFINE e == Splice(d, p, 0, t)
<1>1. Len(t) \in Nat /\ Len(d) \in Nat BY LenText
<1>2. 0 \in Nat /\ p + 0 <= Len(d) BY <1>1
<1>3. IsSplice(e, d, p, 0, t) BY <1>2, SpliceProperties
<1> HIDE DEF e
<1>4. IsInsertion(e, d, p, t) BY <1>1, <1>3 DEF IsSplice, IsInsertion
<1> QED BY <1>4 DEF e

LEMMA EraseProperties ==
  ASSUME NEW d \in Text, NEW p \in Nat, NEW n \in Nat, p + n <= Len(d)
  PROVE  IsErasure(Splice(d, p, n, << >>), d, p, n)
<1> SUFFICES ASSUME NEW z \in Text, Len(z) = 0
             PROVE  IsErasure(Splice(d, p, n, z), d, p, n)
  BY EmptyText, Zenon
<1> DEFINE e == Splice(d, p, n, z)
<1>1. Len(d) \in Nat BY LenText
<1>2. IsSplice(e, d, p, n, z) BY SpliceProperties
<1> HIDE DEF e
<1>3. IsErasure(e, d, p, n) BY <1>1, <1>2 DEF IsSplice, IsErasure
<1> QED BY <1>3 DEF e

(* Erasing what was just inserted gives the document back.                  *)
LEMMA EraseInserted ==
  ASSUME NEW d \in Text, NEW t \in Text, NEW p \in Nat, p <= Len(d)
  PROVE  /\ p + Len(t) <= Len(Splice(d, p, 0, t))
         /\ Splice(Splice(d, p, 0, t), p, Len(t), << >>) = d
<1> DEFINE e == Splice(d, p, 0, t)
           f == Splice(e, p, Len(t), << >>)
<1>1. Len(t) \in Nat /\ Len(d) \in Nat BY LenText
<1>2. IsInsertion(e, d, p, t) BY InsertProperties
<1> HIDE DEF e
<1>3. e \in Text /\ p + Len(t) <= Len(e) BY <1>1, <1>2 DEF IsInsertion
<1>4. IsErasure(f, e, p, Len(t)) BY <1>1, <1>3, EraseProperties
<1> HIDE DEF f
<1>5. f \in Text /\ Len(f) = Len(d) BY <1>1, <1>2, <1>4 DEF IsInsertion, IsErasure
<1>6. ASSUME NEW i \in 1..Len(f) PROVE f[i] = d[i]
  <2>1. CASE i <= p
    BY <2>1, <1>1, <1>2, <1>4, <1>5 DEF IsInsertion, IsErasure
  <2>2. CASE p < i
    <3>1. f[i] = e[i + Len(t)]
      BY <2>2, <1>1, <1>2, <1>4, <1>5 DEF IsInsertion, IsErasure
    <3>2. i + Len(t) \in 1..(Len(d) + Len(t)) BY <1>1, <1>5
    <3>3. e[i + Len(t)] = d[(i + Len(t)) - Len(t)]
      BY <2>2, <3>2, <1>1, <1>2, <1>5 DEF IsInsertion
    <3>4. (i + Len(t)) - Len(t) = i BY <1>1, <1>5
    <3> QED BY <3>1, <3>3, <3>4
  <2> QED BY <2>1, <2>2, <1>1, <1>5
<1>7. f = d BY <1>5, <1>6, TextEqual
<1> QED BY <1>3, <1>7 DEF e, f

(* Inserting again what was just erased gives the document back.            *)
LEMMA InsertErased ==
  ASSUME NEW d \in Text, NEW p \in Nat, NEW n \in Nat, p + n <= Len(d)
  PROVE  /\ p <= Len(Splice(d, p, n, << >>))
         /\ Splice(Splice(d, p, n, << >>), p, 0, Slice(d, p, n)) = d
<1> DEFINE t == Slice(d, p, n)
           e == Splice(d, p, n, << >>)
           f == Splice(e, p, 0, t)
<1>1. /\ t \in Text /\ Len(t) = n
      /\ \A i \in 1..n : t[i] = d[p + i]
  BY SliceProperties
<1>2. Len(d) \in Nat BY LenText
<1>3. IsErasure(e, d, p, n) BY EraseProperties
<1> HIDE DEF e, t
<1>4. e \in Text /\ p <= Len(e) BY <1>2, <1>3 DEF IsErasure
<1>5. IsInsertion(f, e, p, t) BY <1>1, <1>4, InsertProperties
<1> HIDE DEF f
<1>6. f \in Text /\ Len(f) = Len(d)
  BY <1>1, <1>2, <1>3, <1>5 DEF IsErasure, IsInsertion
<1>7. ASSUME NEW i \in 1..Len(f) PROVE f[i] = d[i]
  <2>1. f[i] = IF i <= p THEN e[i]
               ELSE IF i <= p + n THEN t[i - p] ELSE e[i - n]
    BY <1>1, <1>2, <1>3, <1>5, <1>6 DEF IsErasure, IsInsertion
  <2>2. CASE i <= p BY <2>1, <2>2, <1>2, <1>3, <1>6 DEF IsErasure
  <2>3. CASE p < i /\ i <= p + n
    <3>1. i - p \in 1..n BY <2>3, <1>2, <1>6
    <3>2. p + (i - p) = i BY <1>2, <1>6
    <3> QED BY <2>1, <2>3, <3>1, <3>2, <1>1, <1>2, <1>6
  <2>4. CASE p + n < i
    <3>1. i - n \in 1..(Len(d) - n) /\ ~(i - n <= p) BY <2>4, <1>2, <1>6
    <3>2. (i - n) + n = i BY <1>2, <1>6
    <3>3. e[i - n] = d[(i - n) + n] BY <3>1, <1>3 DEF IsErasure
    <3> QED BY <2>1, <2>4, <3>2, <3>3, <1>2, <1>6
  <2> QED BY <2>2, <2>3, <2>4, <1>2, <1>6
<1>8. f = d BY <1>6, <1>7, TextEqual
<1> QED BY <1>4, <1>8 DEF e, f, t

(* inverse() undoes: after an operation that knows the text it removes, its *)
(* inverse applies and restores the document, whatever both are.            *)
THEOREM InverseRestores ==
  ASSUME NEW op \in Op, NEW d \in Text, Applies(op, d),
         IsDelete(op) => op.text = Slice(d, op.position, op.length)
  PROVE  /\ Applies(inverse(op), Apply(op, d))
         /\ Apply(inverse(op), Apply(op, d)) = d
<1>1. op.position \in Nat /\ op.length \in Nat /\ op.text \in Text
  BY DEF Op
<1>2. CASE IsInsert(op)
  <2>1. op.position <= Len(d) BY <1>2 DEF Applies
  <2>2. /\ op.position + Len(op.text) <= Len(Splice(d, op.position, 0, op.text))
        /\ Splice(Splice(d, op.position, 0, op.text), op.position,
                  Len(op.text), << >>) = d
    BY <1>1, <2>1, EraseInserted
  <2>3. /\ inverse(op).type = "delete" /\ inverse(op).position = op.position
        /\ inverse(op).length = Len(op.text)
    BY <1>2 DEF inverse, DeleteOperation
  <2> QED BY <1>2, <2>2, <2>3 DEF Applies, Apply, IsInsert
<1>3. CASE IsDelete(op)
  <2>1. op.position + op.length <= Len(d) BY <1>3 DEF Applies, IsDelete, IsInsert
  <2>2. /\ op.position <= Len(Splice(d, op.position, op.length, << >>))
        /\ Splice(Splice(d, op.position, op.length, << >>), op.position, 0,
                  op.text) = d
    BY <1>1, <1>3, <2>1, InsertErased
  <2>3. /\ inverse(op).type = "insert" /\ inverse(op).position = op.position
        /\ inverse(op).text = op.text
    BY <1>3 DEF inverse, InsertOperation, IsDelete, IsInsert
  <2> QED BY <1>3, <2>2, <2>3 DEF Applies, Apply, IsInsert, IsDelete
<1> QED BY <1>2, <1>3 DEF Op, IsInsert, IsDelete

-----------------------------------------------------------------------------
(* A delete carries no more text than the range it removes.                 *)
Fits(op) == IsDelete(op) => Len(op.text) <= op.length

LEMMA CutProperties ==
  ASSUME NEW t \in Text, NEW n \in Nat
  PROVE  /\ TailOf(t, n) \in Text /\ Len(TailOf(t, n)) <= n
         /\ HeadOf(t, n) \in Text /\ Len(HeadOf(t, n)) <= n
<1>1. Len(t) \in Nat BY LenText
<1>2. CASE Len(t) < n
  <2>1. TailOf(t, n) = << >> /\ HeadOf(t, n) = << >>
    BY <1>1, <1>2 DEF TailOf, HeadOf
  <2> QED BY <2>1, EmptyText
<1>3. CASE Len(t) >= n
  <2>1. TailOf(t, n) = SubSeq(t, Len(t) - n + 1, Len(t)) /\ HeadOf(t, n) = SubSeq(t, 1, n)
    BY <1>1, <1>3 DEF TailOf, HeadOf
  <2>2. /\ SubSeq(t, Len(t) - n + 1, Len(t)) \in Text
        /\ Len(SubSeq(t, Len(t) - n + 1, Len(t))) = n
    <3>1. /\ Len(t) - n + 1 \in Int /\ 1 <= Len(t) - n + 1
          /\ Len(t) - n + 1 <= Len(t) + 1 /\ Len(t) \in Int /\ Len(t) <= Len(t)
      BY <1>1, <1>3
    <3>2. Len(t) - (Len(t) - n + 1) + 1 = n BY <1>1
    <3> QED BY <3>1, <3>2, SubSeqType, SubSeqLen
  <2>3. SubSeq(t, 1, n) \in Text /\ Len(SubSeq(t, 1, n)) = n
    <3>1. n \in Int /\ 1 \in Int /\ 1 <= n + 1 /\ 1 <= 1 /\ n <= Len(t) BY <1>1, <1>3
    <3>2. n - 1 + 1 = n OBVIOUS
    <3> QED BY <3>1, <3>2, SubSeqType, SubSeqLen
  <2> QED BY <2>1, <2>2, <2>3
<1> QED BY <1>1, <1>2, <1>3

(* transform() builds an operation: no position or length underflows, and   *)
(* a delete that fits its range still does.                                 *)
LEMMA TransformDeleteDeleteType ==
  ASSUME NEW op \in Op, NEW other \in Op, IsDelete(op), Fits(op)
  PROVE  /\ TransformDeleteDelete(op, other) \in Op
         /\ Fits(TransformDeleteDelete(op, other))
<1> DEFINE r == TransformDeleteDelete(op, other)
<1>1. /\ op.position \in Nat /\ op.length \in Nat /\ op.text \in Text
      /\ other.position \in Nat /\ other.length \in Nat /\ Len(op.text) \in Nat
      /\ End(op) \in Nat /\ End(other) \in Nat
      /\ End(op) = op.position + op.length
      /\ End(other) = other.position + other.length
      /\ Len(op.text) <= op.length
  BY LenText DEF Op, End, Fits
<1>2. ASSUME NEW p \in Nat, NEW n \in Nat, NEW t \in Text, Len(t) <= n
      PROVE  DeleteOperation(p, n, t) \in Op /\ Fits(DeleteOperation(p, n, t))
  BY <1>2, ConstructorType DEF DeleteOperation, Fits
<1>3. CASE End(other) <= op.position
  <2>1. r = DeleteOperation(op.position - other.length, op.length, op.text)
    BY <1>1, <1>3 DEF TransformDeleteDelete
  <2>2. op.position - other.length \in Nat BY <1>1, <1>3
  <2> QED BY <1>1, <1>2, <2>1, <2>2
<1>4. CASE /\ End(other) > op.position /\ other.position <= op.position
           /\ End(other) >= End(op)
  <2>1. r = DeleteOperation(other.position, 0, << >>)
    BY <1>1, <1>4 DEF TransformDeleteDelete
  <2>2. 0 \in Nat /\ Len(<< >>) <= 0 /\ << >> \in Text BY EmptyText
  <2> QED BY <1>1, <1>2, <2>1, <2>2, Zenon
<1>5. CASE /\ End(other) > op.position /\ other.position <= op.position
           /\ End(other) < End(op)
  <2>1. r = DeleteOperation(other.position, End(op) - End(other),
                            TailOf(op.text, End(op) - End(other)))
    BY <1>1, <1>5 DEF TransformDeleteDelete
  <2>2. End(op) - End(other) \in Nat BY <1>1, <1>5
  <2> QED BY <1>1, <1>2, <2>1, <2>2, CutProperties
<1>6. CASE /\ op.position < other.position /\ other.position < End(op)
           /\ End(other) >= End(op)
  <2>1. r = DeleteOperation(op.position, other.position - op.position,
                            HeadOf(op.text, other.position - op.position))
    BY <1>1, <1>6 DEF TransformDeleteDelete
  <2>2. other.position - op.position \in Nat BY <1>1, <1>6
  <2> QED BY <1>1, <1>2, <2>1, <2>2, CutProperties
<1>7. CASE /\ op.position < other.position /\ other.position < End(op)
           /\ End(other) < End(op)
  <2> DEFINE m == other.position - op.position
             k == End(other) - op.position + 1
             x == SubSeq(op.text, 1, m)
             y == SubSeq(op.text, k, Len(op.text))
             n == op.length - other.length
  <2>1. n \in Nat BY <1>1, <1>7
  <2>2. CASE Len(op.text) >= op.length
    <3>1. r = DeleteOperation(op.position, n, x \o y)
      BY SMTT(30), <1>1, <1>7, <2>2 DEF TransformDeleteDelete
    <3>2. Len(op.text) = op.length BY <1>1, <2>2
    <3>3. /\ m \in Int /\ k \in Int /\ 1 \in Int /\ 1 <= 1 /\ 1 <= m + 1
          /\ m <= Len(op.text) /\ 1 <= k /\ k <= Len(op.text) + 1
          /\ Len(op.text) \in Int /\ Len(op.text) <= Len(op.text)
      <4>1. m \in Int /\ k \in Int /\ 1 <= m + 1 /\ 1 <= k BY SMTT(30), <1>1, <1>7
      <4>2. m <= op.length /\ k <= op.length + 1 BY <1>1, <1>7
      <4> HIDE DEF m, k
      <4> QED BY <1>1, <3>2, <4>1, <4>2
    <3>4. (m - 1 + 1) + (Len(op.text) - k + 1) = n
      <4>1. k = m + other.length + 1 BY <1>1
      <4>2. m \in Int /\ k \in Int BY <1>1
      <4>3. n = op.length - other.length OBVIOUS
      <4> HIDE DEF m, k, n
      <4> QED BY SMTT(30), <1>1, <3>2, <4>1, <4>2, <4>3
    <3> HIDE DEF m, k, n
    <3>5. x \in Text /\ Len(x) = m - 1 + 1
      BY <1>1, <3>3, SubSeqType, SubSeqLen
    <3>6. y \in Text /\ Len(y) = Len(op.text) - k + 1
      BY <1>1, <3>3, SubSeqType, SubSeqLen
    <3> HIDE DEF x, y
    <3>7. x \o y \in Text /\ Len(x \o y) = Len(x) + Len(y)
      BY <3>5, <3>6, ConcatText, Zenon
    <3>8. Len(x \o y) <= n BY <2>1, <3>4, <3>5, <3>6, <3>7
    <3> QED BY <1>1, <1>2, <2>1, <3>1, <3>7, <3>8, Zenon
  <2>3. CASE ~(Len(op.text) >= op.length)
    <3>1. r = DeleteOperation(op.position, n, << >>)
      BY <1>1, <1>7, <2>3 DEF TransformDeleteDelete
    <3> HIDE DEF n
    <3>2. << >> \in Text /\ Len(<< >>) <= n BY <2>1, EmptyText
    <3> QED BY <1>1, <1>2, <2>1, <3>1, <3>2, Zenon
  <2> QED BY <2>2, <2>3
<1>8. CASE op.position < other.position /\ other.position >= End(op)
  <2>1. r = Clone(op) BY <1>1, <1>8 DEF TransformDeleteDelete
  <2>2. r = DeleteOperation(op.position, op.length, op.text)
    BY <2>1 DEF Clone, IsInsert, IsDelete
  <2> QED BY <1>1, <1>2, <2>2
<1> QED BY <1>1, <1>3, <1>4, <1>5, <1>6, <1>7, <1>8

LEMMA TransformType ==
  ASSUME NEW op \in Op, NEW other \in Op, Fits(op)
  PROVE  Transform(op, other) \in Op /\ Fits(Transform(op, other))
<1>1. /\ op.position \in Nat /\ op.length \in Nat
      /\ other.position \in Nat /\ other.length \in Nat /\ Len(other.text) \in Nat
  BY LenText DEF Op
<1>2. ASSUME NEW p \in Nat
      PROVE  /\ [op EXCEPT !.position = p] \in Op
             /\ Fits([op EXCEPT !.position = p])
  BY DEF Op, Fits, IsDelete
<1>3. CASE IsInsert(op) /\ IsInsert(other)
  BY <1>1, <1>2, <1>3 DEF Transform, TransformInsertInsert
<1>4. CASE IsInsert(op) /\ ~IsInsert(other)
  <2>1. End(other) <= op.position => op.position - other.length \in Nat
    BY <1>1 DEF End
  <2> QED BY <1>1, <1>2, <1>4, <2>1 DEF Transform, TransformInsertDelete
<1>5. CASE ~IsInsert(op) /\ IsInsert(other)
  <2>1. /\ [op EXCEPT !.length = op.length + Len(other.text)] \in Op
        /\ Fits([op EXCEPT !.length = op.length + Len(other.text)])
    BY <1>1, LenText DEF Op, Fits, IsDelete
  <2>2. Transform(op, other) = TransformDeleteInsert(op, other)
    BY <1>5 DEF Transform
  <2>3. \/ /\ op.position + Len(other.text) \in Nat
           /\ TransformDeleteInsert(op, other)
                = [op EXCEPT !.position = op.position + Len(other.text)]
        \/ TransformDeleteInsert(op, other)
             = [op EXCEPT !.length = op.length + Len(other.text)]
        \/ TransformDeleteInsert(op, other) = op
    BY <1>1 DEF TransformDeleteInsert
  <2> QED BY <1>2, <2>1, <2>2, <2>3
<1>6. CASE ~IsInsert(op) /\ ~IsInsert(other)
  <2>1. IsDelete(op) BY <1>6 DEF Op, IsInsert, IsDelete
  <2> QED BY <1>6, <2>1, TransformDeleteDeleteType DEF Transform
<1> QED BY <1>3, <1>4, <1>5, <1>6
=============================================================================
