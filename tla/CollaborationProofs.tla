------------------------ MODULE CollaborationProofs ------------------------
(***************************************************************************)
(* Two sites, for documents and texts of any length over any alphabet.     *)
(* What transform() returns applies, carries the text it removes, and lets *)
(* the two sites meet unless the operations conflict; two users of a       *)
(* DocumentManager each, who take turns, see the same document; and the    *)
(* replicas of a CrdtDocument stay sorted and, of what is typed, meet.     *)
(***************************************************************************)
EXTENDS OperationPair, Collaboration, OperationProofs, CrdtDocument, FiniteSetTheorems,
        WellFoundedInduction

(* Two inserts, the one with the greater position moved behind the other.   *)
LEMMA InsertsCommute ==
  ASSUME NEW d \in Text, NEW x \in Text, NEW y \in Text, NEW p \in Nat, NEW q \in Nat,
         p <= q, q <= Len(d),
         NEW dx, IsInsertion(dx, d, p, x), NEW f, IsInsertion(f, dx, q + Len(x), y),
         NEW dy, IsInsertion(dy, d, q, y), NEW g, IsInsertion(g, dy, p, x)
  PROVE  f = g
<1>1. Len(d) \in Nat /\ Len(x) \in Nat /\ Len(y) \in Nat BY LenText
<1>2. f \in Text /\ g \in Text /\ Len(f) = Len(g) /\ Len(f) = Len(d) + Len(x) + Len(y)
  BY <1>1 DEF IsInsertion
<1>3. dx \in Text /\ Len(dx) = Len(d) + Len(x) /\ dy \in Text /\ Len(dy) = Len(d) + Len(y)
  BY DEF IsInsertion
<1>4. \A j \in 1..(Len(d) + Len(x)) :
        dx[j] = IF j <= p THEN d[j] ELSE IF j <= p + Len(x) THEN x[j - p] ELSE d[j - Len(x)]
  BY DEF IsInsertion
<1>5. \A j \in 1..(Len(d) + Len(y)) :
        dy[j] = IF j <= q THEN d[j] ELSE IF j <= q + Len(y) THEN y[j - q] ELSE d[j - Len(y)]
  BY DEF IsInsertion
<1>6. ASSUME NEW i \in 1..Len(f) PROVE f[i] = g[i]
  <2>0. i \in Nat /\ 1 <= i /\ i <= Len(d) + Len(x) + Len(y) BY <1>1, <1>2
  <2>1. f[i] = IF i <= q + Len(x) THEN dx[i]
               ELSE IF i <= q + Len(x) + Len(y) THEN y[i - (q + Len(x))] ELSE dx[i - Len(y)]
    BY <1>1, <2>0, <1>3 DEF IsInsertion
  <2>2. g[i] = IF i <= p THEN dy[i] ELSE IF i <= p + Len(x) THEN x[i - p] ELSE dy[i - Len(x)]
    BY <1>1, <2>0, <1>3 DEF IsInsertion
  <2>3. CASE i <= p + Len(x)
    <3>1. dx[i] = IF i <= p THEN d[i] ELSE x[i - p] BY <1>1, <2>0, <2>3, <1>4
    <3>2. i <= p => dy[i] = d[i] BY <1>1, <2>0, <1>5
    <3> QED BY <1>1, <2>0, <2>1, <2>2, <2>3, <3>1, <3>2
  <2>4. CASE p + Len(x) < i /\ i <= q + Len(x)
    <3>1. dx[i] = d[i - Len(x)] BY <1>1, <2>0, <2>4, <1>4
    <3>2. dy[i - Len(x)] = d[i - Len(x)] BY <1>1, <2>0, <2>4, <1>5
    <3> QED BY <1>1, <2>0, <2>1, <2>2, <2>4, <3>1, <3>2
  <2>5. CASE q + Len(x) < i /\ i <= q + Len(x) + Len(y)
    <3>1. dy[i - Len(x)] = y[(i - Len(x)) - q] BY SMTT(30), <1>1, <2>0, <2>5, <1>5
    <3>2. (i - Len(x)) - q = i - (q + Len(x)) BY <1>1, <2>0
    <3> QED BY <1>1, <2>0, <2>1, <2>2, <2>5, <3>1, <3>2
  <2>6. CASE q + Len(x) + Len(y) < i
    <3>1. dx[i - Len(y)] = d[(i - Len(y)) - Len(x)] BY SMTT(30), <1>1, <2>0, <2>6, <1>4
    <3>2. dy[i - Len(x)] = d[(i - Len(x)) - Len(y)] BY <1>1, <2>0, <2>6, <1>5
    <3>3. (i - Len(y)) - Len(x) = (i - Len(x)) - Len(y) BY <1>1, <2>0
    <3> QED BY SMTT(30), <1>1, <2>0, <2>1, <2>2, <2>6, <3>1, <3>2, <3>3
  <2> QED BY <1>1, <2>0, <2>3, <2>4, <2>5, <2>6
<1> QED BY <1>2, <1>6, TextEqual

(* An insert before a delete, and one behind it.                            *)
LEMMA InsertBeforeErase ==
  ASSUME NEW d \in Text, NEW t \in Text, NEW p \in Nat, NEW n \in Nat, NEW q \in Nat,
         NEW dt, NEW dn, NEW f, NEW g, NEW r, q <= p, p + n <= Len(d), r = p + Len(t),
         IsInsertion(dt, d, q, t), IsErasure(f, dt, r, n),
         IsErasure(dn, d, p, n), IsInsertion(g, dn, q, t)
  PROVE  f = g
<1>1. Len(d) \in Nat /\ Len(t) \in Nat BY LenText
<1>2. f \in Text /\ g \in Text /\ Len(f) = Len(g) /\ Len(f) = Len(d) + Len(t) - n
  BY <1>1 DEF IsInsertion, IsErasure
<1>3. dt \in Text /\ Len(dt) = Len(d) + Len(t) /\ dn \in Text /\ Len(dn) = Len(d) - n
  BY DEF IsInsertion, IsErasure
<1>4. \A j \in 1..(Len(d) + Len(t)) :
        dt[j] = IF j <= q THEN d[j] ELSE IF j <= q + Len(t) THEN t[j - q] ELSE d[j - Len(t)]
  BY DEF IsInsertion, IsErasure
<1>5. \A j \in 1..(Len(d) - n) : dn[j] = IF j <= p THEN d[j] ELSE d[j + n]
  BY DEF IsInsertion, IsErasure
<1>6. ASSUME NEW i \in 1..Len(f) PROVE f[i] = g[i]
  <2>0. i \in Nat /\ 1 <= i /\ i <= Len(d) + Len(t) - n BY <1>1, <1>2
  <2>1. f[i] = IF i <= p + Len(t) THEN dt[i] ELSE dt[i + n]
    BY <1>1, <2>0, <1>3 DEF IsInsertion, IsErasure
  <2>2. g[i] = IF i <= q THEN dn[i] ELSE IF i <= q + Len(t) THEN t[i - q] ELSE dn[i - Len(t)]
    BY <1>1, <2>0, <1>3 DEF IsInsertion, IsErasure
  <2>3. CASE i <= q + Len(t)
    <3>1. dt[i] = IF i <= q THEN d[i] ELSE t[i - q]
      <4>1. i \in 1..(Len(d) + Len(t)) BY <1>1, <2>0
      <4> QED BY <4>1, <2>3, <1>4
    <3>2. i <= q => dn[i] = d[i]
      <4>1. i <= q => i \in 1..(Len(d) - n) /\ i <= p BY <1>1, <2>0
      <4> QED BY <4>1, <1>5
    <3> QED BY <1>1, <2>0, <2>1, <2>2, <2>3, <3>1, <3>2
  <2>4. CASE q + Len(t) < i /\ i <= p + Len(t)
    <3>1. dt[i] = d[i - Len(t)]
      <4>1. i \in 1..(Len(d) + Len(t)) /\ ~(i <= q) /\ ~(i <= q + Len(t)) BY <1>1, <2>0, <2>4
      <4> QED BY <4>1, <1>4
    <3>2. dn[i - Len(t)] = d[i - Len(t)] BY <1>1, <2>0, <2>4, <1>5
    <3> QED BY <1>1, <2>0, <2>1, <2>2, <2>4, <3>1, <3>2
  <2>5. CASE p + Len(t) < i
    <3>1. dt[i + n] = d[(i + n) - Len(t)] BY <1>1, <2>0, <2>5, <1>4
    <3>2. dn[i - Len(t)] = d[(i - Len(t)) + n]
      <4>1. i - Len(t) \in 1..(Len(d) - n) /\ ~(i - Len(t) <= p) BY <1>1, <2>0, <2>5
      <4> QED BY <4>1, <1>5
    <3>3. (i + n) - Len(t) = (i - Len(t)) + n BY <1>1, <2>0
    <3> QED BY <1>1, <2>0, <2>1, <2>2, <2>5, <3>1, <3>2, <3>3
  <2> QED BY <1>1, <2>0, <2>3, <2>4, <2>5
<1> QED BY <1>2, <1>6, TextEqual

LEMMA InsertBehindErase ==
  ASSUME NEW d \in Text, NEW t \in Text, NEW p \in Nat, NEW n \in Nat, NEW q \in Nat,
         p + n <= q, q <= Len(d),
         NEW dt, IsInsertion(dt, d, q, t), NEW f, IsErasure(f, dt, p, n),
         NEW dn, IsErasure(dn, d, p, n), NEW g, IsInsertion(g, dn, q - n, t)
  PROVE  f = g
<1>1. Len(d) \in Nat /\ Len(t) \in Nat BY LenText
<1>2. f \in Text /\ g \in Text /\ Len(f) = Len(g) /\ Len(f) = Len(d) + Len(t) - n
  BY <1>1 DEF IsInsertion, IsErasure
<1>3. dt \in Text /\ Len(dt) = Len(d) + Len(t) /\ dn \in Text /\ Len(dn) = Len(d) - n
  BY DEF IsInsertion, IsErasure
<1>4. \A j \in 1..(Len(d) + Len(t)) :
        dt[j] = IF j <= q THEN d[j] ELSE IF j <= q + Len(t) THEN t[j - q] ELSE d[j - Len(t)]
  BY DEF IsInsertion, IsErasure
<1>5. \A j \in 1..(Len(d) - n) : dn[j] = IF j <= p THEN d[j] ELSE d[j + n]
  BY DEF IsInsertion, IsErasure
<1>6. ASSUME NEW i \in 1..Len(f) PROVE f[i] = g[i]
  <2>0. i \in Nat /\ 1 <= i /\ i <= Len(d) + Len(t) - n BY <1>1, <1>2
  <2>1. f[i] = IF i <= p THEN dt[i] ELSE dt[i + n]
    BY <1>1, <2>0, <1>3 DEF IsInsertion, IsErasure
  <2>2. g[i] = IF i <= q - n THEN dn[i]
               ELSE IF i <= (q - n) + Len(t) THEN t[i - (q - n)] ELSE dn[i - Len(t)]
    BY <1>1, <2>0, <1>3 DEF IsInsertion, IsErasure
  <2>3. CASE i <= p
    BY <1>1, <2>0, <2>1, <2>2, <2>3, <1>4, <1>5
  <2>4. CASE p < i /\ i <= q - n
    <3>1. dt[i + n] = d[i + n] BY <1>1, <2>0, <2>4, <1>4
    <3>2. dn[i] = d[i + n] BY <1>1, <2>0, <2>4, <1>5
    <3> QED BY <1>1, <2>0, <2>1, <2>2, <2>4, <3>1, <3>2
  <2>5. CASE q - n < i /\ i <= (q - n) + Len(t)
    <3>1. dt[i + n] = t[(i + n) - q] BY <1>1, <2>0, <2>5, <1>4
    <3>2. (i + n) - q = i - (q - n) BY <1>1, <2>0
    <3> QED BY <1>1, <2>0, <2>1, <2>2, <2>5, <3>1, <3>2
  <2>6. CASE (q - n) + Len(t) < i
    <3>1. dt[i + n] = d[(i + n) - Len(t)] BY <1>1, <2>0, <2>6, <1>4
    <3>2. dn[i - Len(t)] = d[(i - Len(t)) + n] BY <1>1, <2>0, <2>6, <1>5
    <3>3. (i + n) - Len(t) = (i - Len(t)) + n BY <1>1, <2>0
    <3> QED BY <1>1, <2>0, <2>1, <2>2, <2>6, <3>1, <3>2, <3>3
  <2> QED BY <1>1, <2>0, <2>3, <2>4, <2>5, <2>6
<1> QED BY <1>2, <1>6, TextEqual

(* Two deletes: apart, overlapping, one within the other.                   *)
LEMMA ErasesApart ==
  ASSUME NEW d \in Text, NEW p \in Nat, NEW n \in Nat, NEW q \in Nat, NEW m \in Nat,
         NEW dn, NEW dm, NEW f, NEW g, NEW k,
         p + n <= q, q + m <= Len(d), k = q - n,
         IsErasure(dn, d, p, n), IsErasure(f, dn, k, m),
         IsErasure(dm, d, q, m), IsErasure(g, dm, p, n)
  PROVE  f = g
<1>1. Len(d) \in Nat BY LenText
<1>2. f \in Text /\ g \in Text /\ Len(f) = Len(g) /\ Len(f) = Len(d) - n - m
  BY <1>1 DEF IsErasure
<1>3. dn \in Text /\ Len(dn) = Len(d) - n /\ dm \in Text /\ Len(dm) = Len(d) - m
  BY DEF IsErasure
<1>4. \A j \in 1..(Len(d) - n) : dn[j] = IF j <= p THEN d[j] ELSE d[j + n]
  BY DEF IsErasure
<1>5. \A j \in 1..(Len(d) - m) : dm[j] = IF j <= q THEN d[j] ELSE d[j + m]
  BY DEF IsErasure
<1>6. ASSUME NEW i \in 1..Len(f) PROVE f[i] = g[i]
  <2>0. i \in Nat /\ 1 <= i /\ i <= Len(d) - n - m BY <1>1, <1>2
  <2>1. f[i] = IF i <= q - n THEN dn[i] ELSE dn[i + m] BY <1>1, <2>0, <1>3 DEF IsErasure
  <2>2. g[i] = IF i <= p THEN dm[i] ELSE dm[i + n] BY <1>1, <2>0, <1>3 DEF IsErasure
  <2>3. CASE i <= p
    <3>1. dn[i] = d[i] BY <1>1, <2>0, <2>3, <1>4
    <3>2. dm[i] = d[i] BY <1>1, <2>0, <2>3, <1>5
    <3> QED BY <1>1, <2>0, <2>1, <2>2, <2>3, <3>1, <3>2
  <2>4. CASE p < i /\ i <= q - n
    <3>1. dn[i] = d[i + n] BY <1>1, <2>0, <2>4, <1>4
    <3>2. dm[i + n] = d[i + n] BY <1>1, <2>0, <2>4, <1>5
    <3> QED BY <1>1, <2>0, <2>1, <2>2, <2>4, <3>1, <3>2
  <2>5. CASE q - n < i
    <3>1. dn[i + m] = d[(i + m) + n] BY <1>1, <2>0, <2>5, <1>4
    <3>2. dm[i + n] = d[(i + n) + m] BY <1>1, <2>0, <2>5, <1>5
    <3>3. (i + m) + n = (i + n) + m BY <1>1, <2>0
    <3> QED BY <1>1, <2>0, <2>1, <2>2, <2>5, <3>1, <3>2, <3>3
  <2> QED BY <1>1, <2>0, <2>3, <2>4, <2>5
<1> QED BY <1>2, <1>6, TextEqual

LEMMA ErasesOverlap ==
  ASSUME NEW d \in Text, NEW p \in Nat, NEW n \in Nat, NEW q \in Nat, NEW m \in Nat,
         NEW dn, NEW dm, NEW f, NEW g, NEW k, NEW l,
         p <= q, q <= p + n, p + n <= q + m, q + m <= Len(d),
         k = (q + m) - (p + n), l = q - p,
         IsErasure(dn, d, p, n), IsErasure(f, dn, p, k),
         IsErasure(dm, d, q, m), IsErasure(g, dm, p, l)
  PROVE  f = g
<1>1. Len(d) \in Nat BY LenText
<1>2. f \in Text /\ g \in Text /\ Len(f) = Len(g) /\ Len(f) = Len(d) - (q + m - p)
  BY <1>1 DEF IsErasure
<1>3. dn \in Text /\ Len(dn) = Len(d) - n /\ dm \in Text /\ Len(dm) = Len(d) - m
  BY DEF IsErasure
<1>4. \A j \in 1..(Len(d) - n) : dn[j] = IF j <= p THEN d[j] ELSE d[j + n]
  BY DEF IsErasure
<1>5. \A j \in 1..(Len(d) - m) : dm[j] = IF j <= q THEN d[j] ELSE d[j + m]
  BY DEF IsErasure
<1>6. ASSUME NEW i \in 1..Len(f) PROVE f[i] = g[i]
  <2>0. i \in Nat /\ 1 <= i /\ i <= Len(d) - (q + m - p) BY <1>1, <1>2
  <2>1. f[i] = IF i <= p THEN dn[i] ELSE dn[i + k] BY <1>1, <2>0, <1>3 DEF IsErasure
  <2>2. g[i] = IF i <= p THEN dm[i] ELSE dm[i + l] BY <1>1, <2>0, <1>3 DEF IsErasure
  <2>3. CASE i <= p BY SMTT(30), <1>1, <2>0, <2>1, <2>2, <2>3, <1>4, <1>5
  <2>4. CASE p < i
    <3>1. dn[i + k] = d[(i + k) + n]
      <4>1. i + k \in 1..(Len(d) - n) /\ ~(i + k <= p) BY <1>1, <2>0, <2>4
      <4> QED BY <4>1, <1>4
    <3>2. dm[i + l] = d[(i + l) + m]
      <4>1. i + l \in 1..(Len(d) - m) /\ ~(i + l <= q) BY <1>1, <2>0, <2>4
      <4> QED BY <4>1, <1>5
    <3>3. (i + k) + n = (i + l) + m BY <1>1, <2>0
    <3> QED BY <1>1, <2>0, <2>1, <2>2, <2>4, <3>1, <3>2, <3>3
  <2> QED BY <1>1, <2>0, <2>3, <2>4
<1> QED BY <1>2, <1>6, TextEqual

LEMMA EraseWithin ==
  ASSUME NEW d \in Text, NEW p \in Nat, NEW n \in Nat, NEW q \in Nat, NEW m \in Nat,
         NEW dn, NEW dm, NEW f, NEW g, NEW k,
         p <= q, q + m <= p + n, p + n <= Len(d), k = n - m,
         IsErasure(dn, d, p, n), IsErasure(f, dn, p, 0),
         IsErasure(dm, d, q, m), IsErasure(g, dm, p, k)
  PROVE  f = g
<1>1. Len(d) \in Nat BY LenText
<1>2. f \in Text /\ g \in Text /\ Len(f) = Len(g) /\ Len(f) = Len(d) - n
  BY <1>1 DEF IsErasure
<1>3. dn \in Text /\ Len(dn) = Len(d) - n /\ dm \in Text /\ Len(dm) = Len(d) - m
  BY DEF IsErasure
<1>4. \A j \in 1..(Len(d) - n) : dn[j] = IF j <= p THEN d[j] ELSE d[j + n]
  BY DEF IsErasure
<1>5. \A j \in 1..(Len(d) - m) : dm[j] = IF j <= q THEN d[j] ELSE d[j + m]
  BY DEF IsErasure
<1>6. ASSUME NEW i \in 1..Len(f) PROVE f[i] = g[i]
  <2>0. i \in Nat /\ 1 <= i /\ i <= Len(d) - n BY <1>1, <1>2
  <2>1. f[i] = dn[i]
    <3>1. f[i] = IF i <= p THEN dn[i] ELSE dn[i + 0] BY <1>1, <2>0, <1>3 DEF IsErasure
    <3>2. i + 0 = i BY <2>0
    <3> QED BY <3>1, <3>2
  <2>2. g[i] = IF i <= p THEN dm[i] ELSE dm[i + k] BY <1>1, <2>0, <1>3 DEF IsErasure
  <2>3. CASE i <= p BY <1>1, <2>0, <2>1, <2>2, <2>3, <1>4, <1>5
  <2>4. CASE p < i
    <3>1. dn[i] = d[i + n] BY <1>1, <2>0, <2>4, <1>4
    <3>2. dm[i + k] = d[(i + k) + m] BY <1>1, <2>0, <2>4, <1>5
    <3>3. i + n = (i + k) + m BY <1>1, <2>0
    <3> QED BY <1>1, <2>0, <2>1, <2>2, <2>4, <3>1, <3>2, <3>3
  <2> QED BY <1>1, <2>0, <2>3, <2>4
<1> QED BY <1>2, <1>6, TextEqual

(* Two inserts one behind the other are one insert of both texts ...        *)
LEMMA InsertsChain ==
  ASSUME NEW d \in Text, NEW x \in Text, NEW y \in Text, NEW p \in Nat, p <= Len(d),
         NEW dx, IsInsertion(dx, d, p, x), NEW f, IsInsertion(f, dx, p + Len(x), y)
  PROVE  IsInsertion(f, d, p, x \o y)
<1> DEFINE u == x \o y
<1>1. Len(d) \in Nat /\ Len(x) \in Nat /\ Len(y) \in Nat BY LenText
<1>2. /\ u \in Text /\ Len(u) = Len(x) + Len(y)
      /\ \A i \in 1..(Len(x) + Len(y)) : u[i] = IF i <= Len(x) THEN x[i] ELSE y[i - Len(x)]
  BY ConcatText, Zenon
<1> HIDE DEF u
<1>3. /\ f \in Text /\ Len(dx) = Len(d) + Len(x) /\ Len(f) = Len(d) + Len(u)
  BY <1>1, <1>2 DEF IsInsertion
<1>4. \A j \in 1..(Len(d) + Len(x)) :
        dx[j] = IF j <= p THEN d[j] ELSE IF j <= p + Len(x) THEN x[j - p] ELSE d[j - Len(x)]
  BY DEF IsInsertion
<1>5. ASSUME NEW i \in 1..(Len(d) + Len(u))
      PROVE  f[i] = IF i <= p THEN d[i]
                    ELSE IF i <= p + Len(u) THEN u[i - p] ELSE d[i - Len(u)]
  <2>0. i \in Nat /\ 1 <= i /\ i <= Len(d) + Len(x) + Len(y) BY <1>1, <1>2
  <2>1. f[i] = IF i <= p + Len(x) THEN dx[i]
               ELSE IF i <= p + Len(x) + Len(y) THEN y[i - (p + Len(x))] ELSE dx[i - Len(y)]
    BY <1>1, <1>3, <2>0 DEF IsInsertion
  <2>2. CASE i <= p
    <3>1. dx[i] = d[i] BY <1>1, <1>4, <2>0, <2>2
    <3> QED BY <1>1, <2>0, <2>1, <2>2, <3>1
  <2>3. CASE p < i /\ i <= p + Len(x)
    <3>1. dx[i] = x[i - p] BY <1>1, <1>4, <2>0, <2>3
    <3>2. u[i - p] = x[i - p] BY <1>1, <1>2, <2>0, <2>3
    <3> QED BY <1>1, <1>2, <2>0, <2>1, <2>3, <3>1, <3>2
  <2>4. CASE p + Len(x) < i /\ i <= p + Len(x) + Len(y)
    <3>1. u[i - p] = y[(i - p) - Len(x)] BY <1>1, <1>2, <2>0, <2>4
    <3>2. (i - p) - Len(x) = i - (p + Len(x)) BY <1>1, <2>0
    <3> QED BY <1>1, <1>2, <2>0, <2>1, <2>4, <3>1, <3>2
  <2>5. CASE p + Len(x) + Len(y) < i
    <3>1. dx[i - Len(y)] = d[(i - Len(y)) - Len(x)]
      <4>1. i - Len(y) \in 1..(Len(d) + Len(x)) /\ ~(i - Len(y) <= p) /\ ~(i - Len(y) <= p + Len(x))
        BY <1>1, <2>0, <2>5
      <4> QED BY <1>4, <4>1
    <3>2. (i - Len(y)) - Len(x) = i - Len(u) BY <1>1, <1>2, <2>0
    <3> QED BY <1>1, <1>2, <2>0, <2>1, <2>5, <3>1, <3>2
  <2> QED BY <1>1, <2>0, <2>2, <2>3, <2>4, <2>5
<1>6. IsInsertion(f, d, p, u) BY <1>3, <1>5 DEF IsInsertion
<1> QED BY <1>6 DEF u

(* ... and what was inserted can be read back.                              *)
LEMMA InsertionsEqual ==
  ASSUME NEW d \in Text, NEW u \in Text, NEW v \in Text, Len(u) = Len(v), NEW p \in Nat,
         p <= Len(d),
         NEW f, IsInsertion(f, d, p, u), NEW g, IsInsertion(g, d, p, v)
  PROVE  f = g <=> u = v
<1>1. Len(d) \in Nat /\ Len(u) \in Nat BY LenText
<1>2. /\ f \in Text /\ Len(f) = Len(d) + Len(u) /\ g \in Text /\ Len(g) = Len(d) + Len(u)
  BY DEF IsInsertion
<1>3. ASSUME u = v PROVE f = g
  <2>1. \A i \in 1..Len(f) : f[i] = g[i] BY <1>2, <1>3 DEF IsInsertion
  <2> QED BY <1>2, <2>1, TextEqual
<1>4. ASSUME f = g PROVE u = v
  <2>1. ASSUME NEW i \in 1..Len(u) PROVE u[i] = v[i]
    <3>1. /\ i + p \in 1..(Len(d) + Len(u)) /\ ~(i + p <= p) /\ i + p <= p + Len(u)
          /\ (i + p) - p = i
      BY <1>1
    <3>2. f[i + p] = u[(i + p) - p] BY <3>1 DEF IsInsertion
    <3>3. g[i + p] = v[(i + p) - p] BY <3>1 DEF IsInsertion
    <3> QED BY <1>4, <3>1, <3>2, <3>3
  <2> QED BY <2>1, TextEqual
<1> QED BY <1>3, <1>4

-----------------------------------------------------------------------------
(* apply() of either class, in terms of the document's characters.          *)
LEMMA ApplyInsert ==
  ASSUME NEW op \in Op, NEW d \in Text, IsInsert(op), op.position <= Len(d)
  PROVE  Applies(op, d) /\ IsInsertion(Apply(op, d), d, op.position, op.text)
<1>1. op.position \in Nat /\ op.text \in Text BY DEF Op
<1>2. IsInsertion(Splice(d, op.position, 0, op.text), d, op.position, op.text)
  BY <1>1, InsertProperties
<1> QED BY <1>2 DEF Applies, Apply

LEMMA ApplyDelete ==
  ASSUME NEW op \in Op, NEW d \in Text, IsDelete(op), op.position + op.length <= Len(d)
  PROVE  Applies(op, d) /\ IsErasure(Apply(op, d), d, op.position, op.length)
<1>1. op.position \in Nat /\ op.length \in Nat /\ ~IsInsert(op) BY DEF Op, IsDelete, IsInsert
<1>2. IsErasure(Splice(d, op.position, op.length, << >>), d, op.position, op.length)
  BY <1>1, EraseProperties
<1> QED BY <1>1, <1>2 DEF Applies, Apply

(* An operation as its site sends it: a delete carries what it removes.     *)
Issued(op, d) ==
  /\ op \in Op /\ d \in Text /\ Applies(op, d)
  /\ IsDelete(op) => op.text = Slice(d, op.position, op.length)

(* Both orders of a and b can be applied, and meet unless a and b conflict. *)
Meet(a, b, d) ==
  /\ Applies(Transform(b, a), Apply(a, d)) /\ Applies(Transform(a, b), Apply(b, d))
  /\ Apply(Transform(b, a), Apply(a, d)) = Apply(Transform(a, b), Apply(b, d))
       <=> ~Conflict(a, b)

LEMMA MeetSymmetric == ASSUME NEW a, NEW b, NEW d, Meet(a, b, d) PROVE Meet(b, a, d)
<1>1. Conflict(a, b) <=> Conflict(b, a) BY DEF Conflict, InsertTie
<1> QED BY <1>1 DEF Meet

LEMMA IssuedFacts ==
  ASSUME NEW op, NEW d, Issued(op, d)
  PROVE  /\ op \in Op /\ d \in Text /\ Len(d) \in Nat
         /\ op.position \in Nat /\ op.length \in Nat /\ op.text \in Text
         /\ Len(op.text) \in Nat /\ Fits(op)
         /\ IsInsert(op) \/ IsDelete(op)
         /\ IsInsert(op) <=> ~IsDelete(op)
         /\ IsInsert(op) => op.position <= Len(d) /\ IsInsertion(Apply(op, d), d, op.position, op.text)
         /\ IsDelete(op) => /\ op.position + op.length <= Len(d)
                            /\ IsErasure(Apply(op, d), d, op.position, op.length)
                            /\ Len(op.text) = op.length
                            /\ \A i \in 1..op.length : op.text[i] = d[op.position + i]
<1>1. /\ op \in Op /\ d \in Text /\ op.position \in Nat /\ op.length \in Nat /\ op.text \in Text
      /\ (IsInsert(op) \/ IsDelete(op)) /\ (IsInsert(op) <=> ~IsDelete(op))
  BY DEF Issued, Op, IsInsert, IsDelete
<1>2. Len(d) \in Nat /\ Len(op.text) \in Nat BY <1>1, LenText
<1>3. IsInsert(op) => op.position <= Len(d) BY DEF Issued, Applies
<1>4. IsDelete(op) => op.position + op.length <= Len(d) BY <1>1 DEF Issued, Applies, IsDelete, IsInsert
<1>5. IsDelete(op) => /\ Len(op.text) = op.length
                      /\ \A i \in 1..op.length : op.text[i] = d[op.position + i]
  BY <1>1, <1>4, SliceProperties DEF Issued
<1>6. IsInsert(op) => IsInsertion(Apply(op, d), d, op.position, op.text)
  BY <1>1, <1>3, ApplyInsert
<1>7. IsDelete(op) => IsErasure(Apply(op, d), d, op.position, op.length)
  BY <1>1, <1>4, ApplyDelete
<1>8. Fits(op) BY <1>1, <1>5 DEF Fits
<1> QED BY <1>1, <1>2, <1>3, <1>4, <1>5, <1>6, <1>7, <1>8 DEF IsInsert, IsDelete

(* What transform() makes of an insert: only the position changes.          *)
LEMMA TransformedInsert ==
  ASSUME NEW a, NEW b, NEW d, Issued(a, d), Issued(b, d), IsInsert(a)
  PROVE  /\ Transform(a, b) \in Op /\ IsInsert(Transform(a, b)) /\ Transform(a, b).text = a.text
         /\ Transform(a, b).position =
              IF IsInsert(b)
              THEN IF b.position <= a.position THEN a.position + Len(b.text) ELSE a.position
              ELSE IF b.position >= a.position THEN a.position
              ELSE IF End(b) <= a.position THEN a.position - b.length ELSE b.position
<1>1. a \in Op /\ b \in Op /\ Fits(a) BY IssuedFacts
<1>2. Transform(a, b) \in Op BY <1>1, TransformType
<1>3. a.type = "insert" BY DEF IsInsert
<1>4. \A x : /\ [a EXCEPT !.position = x].type = "insert"
             /\ [a EXCEPT !.position = x].text = a.text
             /\ [a EXCEPT !.position = x].position = x
  BY <1>1, <1>3 DEF Op
<1>5. CASE IsInsert(b)
  BY <1>2, <1>3, <1>4, <1>5 DEF Transform, TransformInsertInsert, IsInsert
<1>6. CASE ~IsInsert(b)
  BY <1>2, <1>3, <1>4, <1>6 DEF Transform, TransformInsertDelete, IsInsert
<1> QED BY <1>5, <1>6

LEMMA InsertsMeet ==
  ASSUME NEW a, NEW b, NEW d, Issued(a, d), Issued(b, d), IsInsert(a), IsInsert(b),
         a.position <= b.position
  PROVE  Meet(a, b, d)
<1> DEFINE p == a.position  x == a.text  ta == Transform(a, b)
           q == b.position  y == b.text  tb == Transform(b, a)
           da == Apply(a, d)  db == Apply(b, d)
           f == Apply(tb, da)  g == Apply(ta, db)
<1>1. /\ d \in Text /\ Len(d) \in Nat /\ p \in Nat /\ q \in Nat /\ x \in Text /\ y \in Text
      /\ Len(x) \in Nat /\ Len(y) \in Nat /\ p <= Len(d) /\ q <= Len(d)
      /\ IsInsertion(da, d, p, x) /\ IsInsertion(db, d, q, y)
  BY IssuedFacts
<1>2. /\ da \in Text /\ Len(da) = Len(d) + Len(x) /\ db \in Text /\ Len(db) = Len(d) + Len(y)
  BY <1>1 DEF IsInsertion
<1>3. /\ ta \in Op /\ IsInsert(ta) /\ ta.text = x
      /\ ta.position = IF q <= p THEN p + Len(y) ELSE p
      /\ tb \in Op /\ IsInsert(tb) /\ tb.text = y
      /\ tb.position = IF p <= q THEN q + Len(x) ELSE q
  BY TransformedInsert
<1>4. Conflict(a, b) <=> p = q /\ x \o y # y \o x
  BY DEF Conflict, InsertTie, SwallowedInsert, IsInsert, IsDelete
<1>5. SUFFICES Applies(tb, da) /\ Applies(ta, db) /\ (f = g <=> ~(p = q /\ x \o y # y \o x))
  BY <1>4 DEF Meet
<1> HIDE DEF p, q, x, y, ta, tb, da, db
<1>6. tb.position = q + Len(x) BY <1>3 DEF p, q
<1>7. Applies(tb, da) /\ IsInsertion(f, da, q + Len(x), y)
  <2>1. tb.position <= Len(da) BY <1>1, <1>2, <1>6
  <2> QED BY <1>2, <1>3, <1>6, <2>1, ApplyInsert
<1>8. Applies(ta, db) /\ IsInsertion(g, db, ta.position, x)
  <2>1. ta.position <= Len(db) BY <1>1, <1>2, <1>3
  <2> QED BY <1>2, <1>3, <2>1, ApplyInsert
<1> HIDE DEF f, g
<1>9. CASE p < q
  <2>1. ta.position = p BY <1>1, <1>3, <1>9
  <2>2. f = g BY <1>1, <1>7, <1>8, <1>9, <2>1, InsertsCommute
  <2> QED BY <1>1, <1>7, <1>8, <1>9, <2>2
<1>10. CASE p = q
  <2>1. IsInsertion(f, d, p, x \o y) BY <1>1, <1>7, <1>10, InsertsChain
  <2>2. IsInsertion(g, d, p, y \o x) BY <1>1, <1>3, <1>8, <1>10, InsertsChain
  <2>3. /\ x \o y \in Text /\ y \o x \in Text
    BY <1>1, ConcatText, Zenon
  <2>4. Len(x \o y) = Len(x) + Len(y) /\ Len(y \o x) = Len(y) + Len(x)
    BY <1>1, ConcatText, Zenon
  <2>5. Len(x \o y) = Len(y \o x) BY <1>1, <2>4
  <2>6. f = g <=> x \o y = y \o x
    <3> DEFINE u == x \o y  v == y \o x
    <3>1. /\ u \in Text /\ v \in Text /\ Len(u) = Len(v)
          /\ IsInsertion(f, d, p, u) /\ IsInsertion(g, d, p, v)
      BY <2>1, <2>2, <2>3, <2>5
    <3> HIDE DEF u, v
    <3>2. f = g <=> u = v BY <1>1, <3>1, InsertionsEqual
    <3> QED BY <3>2 DEF u, v
  <2> QED BY <1>7, <1>8, <1>10, <2>6
<1> QED BY <1>1, <1>9, <1>10 DEF p, q

-----------------------------------------------------------------------------
(* What transform() makes of a delete, past an insert.                      *)
LEMMA DeletePastInsert ==
  ASSUME NEW a, NEW b, NEW d, Issued(a, d), Issued(b, d), IsDelete(a), IsInsert(b)
  PROVE  /\ Transform(a, b) \in Op /\ IsDelete(Transform(a, b)) /\ Transform(a, b).text = a.text
         /\ Transform(a, b).position =
              IF b.position <= a.position THEN a.position + Len(b.text) ELSE a.position
         /\ Transform(a, b).length =
              IF a.position < b.position /\ b.position < End(a)
              THEN a.length + Len(b.text) ELSE a.length
<1>1. /\ a \in Op /\ b \in Op /\ Fits(a) /\ a.position \in Nat /\ b.position \in Nat
      /\ ~IsInsert(a)
  BY IssuedFacts
<1>2. Transform(a, b) \in Op BY <1>1, TransformType
<1>3. a.type = "delete" BY DEF IsDelete
<1>4. \A x : /\ [a EXCEPT !.position = x].type = "delete"
             /\ [a EXCEPT !.position = x].text = a.text
             /\ [a EXCEPT !.position = x].length = a.length
             /\ [a EXCEPT !.position = x].position = x
             /\ [a EXCEPT !.length = x].type = "delete"
             /\ [a EXCEPT !.length = x].text = a.text
             /\ [a EXCEPT !.length = x].length = x
             /\ [a EXCEPT !.length = x].position = a.position
  BY <1>1, <1>3 DEF Op
<1>5. Transform(a, b) = TransformDeleteInsert(a, b) BY <1>1 DEF Transform
<1> QED BY <1>1, <1>2, <1>3, <1>4, <1>5 DEF TransformDeleteInsert, IsDelete

LEMMA InsertMeetsDelete ==
  ASSUME NEW a, NEW b, NEW d, Issued(a, d), Issued(b, d), IsInsert(a), IsDelete(b)
  PROVE  Meet(a, b, d)
<1> DEFINE q == a.position  t == a.text    ta == Transform(a, b)
           p == b.position  n == b.length  tb == Transform(b, a)
           da == Apply(a, d)  db == Apply(b, d)
           f == Apply(tb, da)  g == Apply(ta, db)
           inside == p < q /\ q < p + n
<1>1. /\ d \in Text /\ Len(d) \in Nat /\ p \in Nat /\ q \in Nat /\ t \in Text /\ n \in Nat
      /\ Len(t) \in Nat /\ q <= Len(d) /\ p + n <= Len(d)
      /\ IsInsertion(da, d, q, t) /\ IsErasure(db, d, p, n)
  BY IssuedFacts
<1>2. /\ da \in Text /\ Len(da) = Len(d) + Len(t) /\ db \in Text /\ Len(db) = Len(d) - n
  BY <1>1 DEF IsInsertion, IsErasure
<1>3. /\ ta \in Op /\ IsInsert(ta) /\ ta.text = t
      /\ ta.position = IF p >= q THEN q ELSE IF p + n <= q THEN q - n ELSE p
  BY TransformedInsert, IssuedFacts DEF End
<1>4. /\ tb \in Op /\ IsDelete(tb)
      /\ tb.position = IF q <= p THEN p + Len(t) ELSE p
      /\ tb.length = IF inside THEN n + Len(t) ELSE n
  BY DeletePastInsert DEF End
<1>5. Conflict(a, b) <=> inside /\ t # << >>
  BY DEF Conflict, InsertTie, SwallowedInsert, IsInsert, IsDelete, End
<1>6. SUFFICES Applies(tb, da) /\ Applies(ta, db) /\ (f = g <=> ~(inside /\ t # << >>))
  BY <1>5 DEF Meet
<1> HIDE DEF p, q, t, n, ta, tb, da, db
<1>7. Applies(tb, da) /\ IsErasure(f, da, tb.position, tb.length)
  <2>1. CASE q <= p BY <1>1, <1>2, <1>4, <2>1, ApplyDelete
  <2>2. CASE inside BY <1>1, <1>2, <1>4, <2>2, ApplyDelete
  <2>3. CASE ~(q <= p) /\ ~inside BY <1>1, <1>2, <1>4, <2>3, ApplyDelete
  <2> QED BY <2>1, <2>2, <2>3
<1>8. Applies(ta, db) /\ IsInsertion(g, db, ta.position, t)
  <2>1. ta.position <= Len(db) BY <1>1, <1>2, <1>3
  <2> QED BY <1>2, <1>3, <2>1, ApplyInsert
<1> HIDE DEF f, g
<1>9. CASE q <= p
  <2>1. tb.position = p + Len(t) /\ tb.length = n /\ ta.position = q /\ ~inside
    BY <1>1, <1>3, <1>4, <1>9
  <2>2. f = g
    <3>1. IsErasure(f, da, tb.position, n) /\ IsInsertion(g, db, q, t) BY <1>7, <1>8, <2>1
    <3> QED BY <1>1, <1>9, <2>1, <3>1, InsertBeforeErase, SMTT(30)
  <2> QED BY <1>7, <1>8, <2>1, <2>2
<1>10. CASE p < q /\ p + n <= q
  <2>1. tb.position = p /\ tb.length = n /\ ta.position = q - n /\ ~inside
    BY <1>1, <1>3, <1>4, <1>10
  <2>2. f = g BY <1>1, <1>7, <1>8, <1>10, <2>1, InsertBehindErase
  <2> QED BY <1>7, <1>8, <2>1, <2>2
<1>11. CASE inside
  <2>1. tb.position = p /\ tb.length = n + Len(t) /\ ta.position = p
    BY <1>1, <1>3, <1>4, <1>11
  <2>2. Len(f) = Len(d) - n /\ Len(g) = Len(d) - n + Len(t) /\ f \in Text /\ g \in Text
    BY <1>1, <1>2, <1>7, <1>8, <2>1 DEF IsInsertion, IsErasure
  <2>3. CASE t # << >>
    <3>1. Len(t) # 0 BY <1>1, <2>3, NoTextIsEmpty
    <3> QED BY <1>1, <1>7, <1>8, <1>11, <2>2, <2>3, <3>1
  <2>4. CASE t = << >>
    <3>1. Len(t) = 0 BY <2>4, EmptyText
    <3>2. IsErasure(f, d, p, n)
      <4>1. Len(da) = Len(d) /\ \A i \in 1..Len(d) : da[i] = d[i]
        BY <1>1, <3>1 DEF IsInsertion
      <4>2. da = d BY <1>1, <1>2, <4>1, TextEqual
      <4>3. n + Len(t) = n BY <1>1, <3>1
      <4> QED BY <1>7, <2>1, <4>2, <4>3
    <3>3. \A i \in 1..Len(f) : f[i] = g[i]
      <4>1. \A i \in 1..(Len(d) - n) : f[i] = db[i] BY <1>1, <3>2 DEF IsErasure
      <4>2. \A i \in 1..(Len(d) - n) : g[i] = db[i]
        BY <1>1, <1>2, <1>8, <2>1, <3>1 DEF IsInsertion
      <4> QED BY <2>2, <4>1, <4>2
    <3>4. f = g BY <1>1, <2>2, <3>1, <3>3, TextEqual
    <3> QED BY <1>7, <1>8, <2>4, <3>4
  <2> QED BY <2>3, <2>4
<1> QED BY <1>1, <1>9, <1>10, <1>11

-----------------------------------------------------------------------------
(* What transform() makes of a delete, past a delete: the part of its range *)
(* that is still there, where it is by then.                                *)
LEMMA DeletePastDelete ==
  ASSUME NEW a, NEW b, NEW d, Issued(a, d), Issued(b, d), IsDelete(a), IsDelete(b)
  PROVE  /\ Transform(a, b) \in Op /\ IsDelete(Transform(a, b))
         /\ Transform(a, b).position =
              IF End(b) <= a.position THEN a.position - b.length
              ELSE IF b.position <= a.position THEN b.position ELSE a.position
         /\ Transform(a, b).length =
              IF End(b) <= a.position THEN a.length
              ELSE IF b.position <= a.position
                   THEN IF End(b) >= End(a) THEN 0 ELSE End(a) - End(b)
              ELSE IF b.position >= End(a) THEN a.length
              ELSE IF End(b) >= End(a) THEN b.position - a.position ELSE a.length - b.length
<1>1. /\ a \in Op /\ b \in Op /\ Fits(a) /\ ~IsInsert(a) /\ ~IsInsert(b)
      /\ a.position \in Nat /\ b.position \in Nat /\ a.length \in Nat /\ b.length \in Nat
  BY IssuedFacts
<1>2. Transform(a, b) \in Op /\ Transform(a, b) = TransformDeleteDelete(a, b)
  BY <1>1, TransformType DEF Transform
<1>3. \A x, y, z : /\ DeleteOperation(x, y, z).type = "delete"
                   /\ DeleteOperation(x, y, z).position = x /\ DeleteOperation(x, y, z).length = y
  BY DEF DeleteOperation
<1>4. Clone(a) = DeleteOperation(a.position, a.length, a.text) BY <1>1 DEF Clone
<1>5. End(a) \in Nat /\ End(b) \in Nat /\ End(a) = a.position + a.length /\ End(b) = b.position + b.length
  BY <1>1 DEF End
<1>6. CASE End(b) <= a.position BY <1>2, <1>3, <1>6 DEF TransformDeleteDelete, IsDelete
<1>7. CASE ~(End(b) <= a.position) /\ b.position <= a.position
  BY <1>2, <1>3, <1>7 DEF TransformDeleteDelete, IsDelete
<1>8. CASE ~(End(b) <= a.position) /\ ~(b.position <= a.position)
  BY <1>1, <1>2, <1>3, <1>4, <1>5, <1>8 DEF TransformDeleteDelete, IsDelete
<1> QED BY <1>6, <1>7, <1>8

LEMMA DeletesMeet ==
  ASSUME NEW a, NEW b, NEW d, Issued(a, d), Issued(b, d), IsDelete(a), IsDelete(b),
         a.position <= b.position
  PROVE  Meet(a, b, d)
<1> DEFINE p == a.position  n == a.length  ta == Transform(a, b)
           q == b.position  m == b.length  tb == Transform(b, a)
           da == Apply(a, d)  db == Apply(b, d)
           f == Apply(tb, da)  g == Apply(ta, db)
<1>1. /\ d \in Text /\ Len(d) \in Nat /\ p \in Nat /\ q \in Nat /\ n \in Nat /\ m \in Nat
      /\ p + n <= Len(d) /\ q + m <= Len(d) /\ p <= q
      /\ IsErasure(da, d, p, n) /\ IsErasure(db, d, q, m)
  BY IssuedFacts
<1>2. /\ da \in Text /\ Len(da) = Len(d) - n /\ db \in Text /\ Len(db) = Len(d) - m
  BY <1>1 DEF IsErasure
<1>3. /\ ta \in Op /\ IsDelete(ta)
      /\ ta.position = IF q + m <= p THEN p - m ELSE IF q <= p THEN q ELSE p
      /\ ta.length = IF q + m <= p THEN n
                     ELSE IF q <= p THEN IF q + m >= p + n THEN 0 ELSE (p + n) - (q + m)
                     ELSE IF q >= p + n THEN n
                     ELSE IF q + m >= p + n THEN q - p ELSE n - m
  BY DeletePastDelete DEF End
<1>4. /\ tb \in Op /\ IsDelete(tb)
      /\ tb.position = IF p + n <= q THEN q - n ELSE IF p <= q THEN p ELSE q
      /\ tb.length = IF p + n <= q THEN m
                     ELSE IF p <= q THEN IF p + n >= q + m THEN 0 ELSE (q + m) - (p + n)
                     ELSE IF p >= q + m THEN m
                     ELSE IF p + n >= q + m THEN p - q ELSE m - n
  BY DeletePastDelete DEF End
<1>5. ~Conflict(a, b)
  BY DEF Conflict, InsertTie, SwallowedInsert, IsInsert, IsDelete
<1>6. SUFFICES Applies(tb, da) /\ Applies(ta, db) /\ f = g
  BY <1>5 DEF Meet
<1> HIDE DEF p, q, n, m, ta, tb, da, db
<1>7. ASSUME tb.position + tb.length <= Len(da)
      PROVE  Applies(tb, da) /\ IsErasure(f, da, tb.position, tb.length)
  BY <1>2, <1>4, <1>7, ApplyDelete
<1>8. ASSUME ta.position + ta.length <= Len(db)
      PROVE  Applies(ta, db) /\ IsErasure(g, db, ta.position, ta.length)
  BY <1>2, <1>3, <1>8, ApplyDelete
<1> HIDE DEF f, g
<1>9. CASE p + n <= q
  <2>1. tb.position = q - n /\ tb.length = m BY <1>1, <1>4, <1>9
  <2>2. ta.position = p /\ ta.length = n BY <1>1, <1>3, <1>9
  <2>3. /\ tb.position + tb.length <= Len(da) /\ ta.position + ta.length <= Len(db)
    BY <1>1, <1>2, <1>9, <2>1, <2>2
  <2>4. IsErasure(f, da, tb.position, m) /\ IsErasure(g, db, p, n)
    BY <1>7, <1>8, <2>1, <2>2, <2>3
  <2>5. f = g BY <1>1, <1>9, <2>1, <2>4, ErasesApart
  <2> QED BY <1>7, <1>8, <2>3, <2>5
<1>10. CASE q < p + n /\ p + n <= q + m
  <2>1. tb.position = p /\ tb.length = (q + m) - (p + n) BY <1>1, <1>4, <1>10
  <2>2. ta.position = p /\ ta.length = q - p BY <1>1, <1>3, <1>10
  <2>3. /\ tb.position + tb.length <= Len(da) /\ ta.position + ta.length <= Len(db)
    BY <1>1, <1>2, <1>10, <2>1, <2>2
  <2>4. IsErasure(f, da, p, tb.length) /\ IsErasure(g, db, p, ta.length)
    BY <1>7, <1>8, <2>1, <2>2, <2>3
  <2>5. q <= p + n /\ p + n <= q + m BY <1>1, <1>10
  <2>6. f = g BY <1>1, <2>1, <2>2, <2>4, <2>5, ErasesOverlap
  <2> QED BY <1>7, <1>8, <2>3, <2>6
<1>11. CASE q < p + n /\ q + m < p + n
  <2>1. tb.position = p /\ tb.length = 0 BY <1>1, <1>4, <1>11
  <2>2. ta.position = p /\ ta.length = n - m BY <1>1, <1>3, <1>11
  <2>3. /\ tb.position + tb.length <= Len(da) /\ ta.position + ta.length <= Len(db)
    BY <1>1, <1>2, <1>11, <2>1, <2>2
  <2>4. IsErasure(f, da, p, 0) /\ IsErasure(g, db, p, ta.length)
    BY <1>7, <1>8, <2>1, <2>2, <2>3
  <2>5. f = g BY <1>1, <1>11, <2>2, <2>4, EraseWithin
  <2> QED BY <1>7, <1>8, <2>3, <2>5
<1> QED BY <1>1, <1>9, <1>10, <1>11

(* TransformedApplies and ConvergeUnlessConflict for any two operations:    *)
(* transform() never yields an operation that apply() rejects, and the two  *)
(* orders give one document exactly when the operations do not conflict.    *)
THEOREM OperationsMeet ==
  ASSUME NEW a, NEW b, NEW d, Issued(a, d), Issued(b, d)
  PROVE  Meet(a, b, d)
<1>1. a.position <= b.position \/ b.position <= a.position
  <2>1. a.position \in Nat /\ b.position \in Nat BY IssuedFacts
  <2> QED BY <2>1
<1>2. IsInsert(a) \/ IsDelete(a) BY IssuedFacts
<1>3. IsInsert(b) \/ IsDelete(b) BY IssuedFacts
<1>4. CASE IsInsert(a) /\ IsInsert(b) BY <1>1, <1>4, InsertsMeet, MeetSymmetric
<1>5. CASE IsInsert(a) /\ IsDelete(b) BY <1>5, InsertMeetsDelete
<1>6. CASE IsDelete(a) /\ IsInsert(b) BY <1>6, InsertMeetsDelete, MeetSymmetric
<1>7. CASE IsDelete(a) /\ IsDelete(b) BY <1>1, <1>7, DeletesMeet, MeetSymmetric
<1> QED BY <1>2, <1>3, <1>4, <1>5, <1>6, <1>7

-----------------------------------------------------------------------------
LEMMA IsSlice ==
  ASSUME NEW t \in Text, NEW e \in Text, NEW p \in Nat, NEW n \in Nat, p + n <= Len(e),
         Len(t) = n, \A i \in 1..n : t[i] = e[p + i]
  PROVE  t = Slice(e, p, n)
<1>1. /\ Slice(e, p, n) \in Text /\ Len(Slice(e, p, n)) = n
      /\ \A i \in 1..n : Slice(e, p, n)[i] = e[p + i]
  BY SliceProperties
<1> QED BY <1>1, TextEqual

(* Past an insert, a delete still carries what it removes ...               *)
LEMMA TextPastInsert ==
  ASSUME NEW a, NEW b, NEW d, Issued(a, d), Issued(b, d), IsDelete(a), IsInsert(b),
         ~SwallowedInsert(a, b)
  PROVE  Transform(a, b).text = Slice(Apply(b, d), Transform(a, b).position, Transform(a, b).length)
<1> DEFINE p == a.position  n == a.length  x == a.text  ta == Transform(a, b)
           q == b.position  t == b.text  e == Apply(b, d)
<1>1. /\ d \in Text /\ Len(d) \in Nat /\ p \in Nat /\ q \in Nat /\ t \in Text /\ n \in Nat
      /\ Len(t) \in Nat /\ q <= Len(d) /\ p + n <= Len(d) /\ x \in Text /\ Len(x) = n
      /\ IsInsertion(e, d, q, t)
  BY IssuedFacts
<1>2. \A i \in 1..n : x[i] = d[p + i] BY IssuedFacts
<1>3. /\ ta.text = x
      /\ ta.position = IF q <= p THEN p + Len(t) ELSE p
      /\ ta.length = IF p < q /\ q < p + n THEN n + Len(t) ELSE n
  BY DeletePastInsert DEF End
<1>4. p < q /\ q < p + n => Len(t) = 0
  BY EmptyText DEF SwallowedInsert, End
<1> HIDE DEF p, n, x, ta, q, t, e
<1>5. e \in Text /\ Len(e) = Len(d) + Len(t) BY <1>1 DEF IsInsertion
<1>6. ta.length = n /\ ta.position \in Nat /\ ta.position + n <= Len(e)
  BY <1>1, <1>3, <1>4, <1>5
<1>7. ASSUME NEW i \in 1..n PROVE x[i] = e[ta.position + i]
  <2>0. i \in Nat /\ 1 <= i /\ i <= n BY <1>1
  <2>1. CASE q <= p
    <3>1. /\ ta.position + i \in 1..(Len(d) + Len(t)) /\ ~(ta.position + i <= q)
          /\ ~(ta.position + i <= q + Len(t)) /\ (ta.position + i) - Len(t) = p + i
      BY <1>1, <1>3, <2>0, <2>1
    <3>2. e[ta.position + i] = d[(ta.position + i) - Len(t)] BY <1>1, <3>1 DEF IsInsertion
    <3> QED BY <1>2, <3>1, <3>2
  <2>2. CASE p < q /\ p + n <= q
    <3>1. ta.position = p /\ p + i \in 1..(Len(d) + Len(t)) /\ p + i <= q
      BY <1>1, <1>3, <2>0, <2>2
    <3>2. e[p + i] = d[p + i] BY <1>1, <3>1 DEF IsInsertion
    <3> QED BY <1>2, <3>1, <3>2
  <2>3. CASE p < q /\ q < p + n
    <3>1. /\ ta.position = p /\ p + i \in 1..(Len(d) + Len(t)) /\ Len(t) = 0
          /\ (p + i) - Len(t) = p + i
      BY <1>1, <1>3, <1>4, <2>0, <2>3
    <3>2. p + i <= q \/ ~(p + i <= q + Len(t)) BY <1>1, <2>0, <3>1
    <3>3. e[p + i] = d[p + i] BY <1>1, <3>1, <3>2 DEF IsInsertion
    <3> QED BY <1>2, <3>1, <3>3
  <2> QED BY <1>1, <2>1, <2>2, <2>3
<1>8. x = Slice(e, ta.position, n) BY <1>1, <1>5, <1>6, <1>7, IsSlice
<1>9. ta.text = Slice(e, ta.position, ta.length) BY <1>3, <1>6, <1>8
<1> QED BY <1>9 DEF e, ta

(* ... and past a delete the tail, the head or both ends are left of it.    *)
LEMMA TextPastDelete ==
  ASSUME NEW a, NEW b, NEW d, Issued(a, d), Issued(b, d), IsDelete(a), IsDelete(b)
  PROVE  Transform(a, b).text = Slice(Apply(b, d), Transform(a, b).position, Transform(a, b).length)
<1> DEFINE p == a.position  n == a.length  x == a.text  ta == Transform(a, b)
           q == b.position  m == b.length  e == Apply(b, d)
           w == IF Len(x) >= n
                THEN SubSeq(x, 1, q - p) \o SubSeq(x, End(b) - p + 1, Len(x)) ELSE << >>
<1>1. /\ d \in Text /\ Len(d) \in Nat /\ p \in Nat /\ q \in Nat /\ m \in Nat /\ n \in Nat
      /\ q + m <= Len(d) /\ p + n <= Len(d) /\ x \in Text /\ Len(x) = n
      /\ IsErasure(e, d, q, m)
  BY IssuedFacts
<1>2. \A i \in 1..n : x[i] = d[p + i] BY IssuedFacts
<1>3. /\ ta.position = IF q + m <= p THEN p - m ELSE IF q <= p THEN q ELSE p
      /\ ta.length = IF q + m <= p THEN n
                     ELSE IF q <= p THEN IF q + m >= p + n THEN 0 ELSE (p + n) - (q + m)
                     ELSE IF q >= p + n THEN n
                     ELSE IF q + m >= p + n THEN q - p ELSE n - m
  BY DeletePastDelete DEF End
<1>4. ta.text = IF q + m <= p THEN x
                ELSE IF q <= p /\ q + m >= p + n THEN << >>
                ELSE IF q <= p THEN TailOf(x, (p + n) - (q + m))
                ELSE IF q < p + n /\ q + m >= p + n THEN HeadOf(x, q - p)
                ELSE IF q + m < p + n THEN w ELSE x
  <2>1. ~IsInsert(a) /\ ~IsInsert(b) BY IssuedFacts
  <2>2. ta = TransformDeleteDelete(a, b) BY <2>1 DEF Transform
  <2>3. \A u, v, z : DeleteOperation(u, v, z).text = z BY DEF DeleteOperation
  <2>4. Clone(a).text = x BY <2>1, <2>3 DEF Clone
  <2>5. End(a) = p + n /\ End(b) = q + m BY DEF End
  <2>6. CASE q + m <= p BY <2>2, <2>3, <2>5, <2>6 DEF TransformDeleteDelete
  <2>7. CASE ~(q + m <= p) /\ q <= p BY <2>2, <2>3, <2>5, <2>7 DEF TransformDeleteDelete
  <2>8. CASE ~(q + m <= p) /\ ~(q <= p) /\ q < p + n /\ q + m >= p + n
    BY <2>2, <2>3, <2>5, <2>8 DEF TransformDeleteDelete
  <2>9. CASE ~(q + m <= p) /\ ~(q <= p) /\ ~(q < p + n /\ q + m >= p + n)
    <3>1. CASE q + m < p + n
      <4>1. /\ ~(End(b) <= p) /\ ~(q <= p /\ End(b) >= End(a)) /\ ~(q <= p)
            /\ ~(q < End(a) /\ End(b) >= End(a)) /\ End(b) < End(a)
        BY <2>5, <2>9, <3>1
      <4>2. ta = DeleteOperation(p, n - m, w) BY <2>2, <4>1, Zenon DEF TransformDeleteDelete
      <4> HIDE DEF w
      <4>3. ta.text = w BY <2>3, <4>2
      <4> QED BY <2>9, <3>1, <4>3
    <3>2. CASE ~(q + m < p + n) BY <2>2, <2>4, <2>5, <2>9, <3>2 DEF TransformDeleteDelete
    <3> QED BY <3>1, <3>2
  <2> QED BY <2>6, <2>7, <2>8, <2>9
<1>5. End(b) = q + m BY DEF End
<1> HIDE DEF p, n, x, ta, q, m, e, w
<1>6. ASSUME Len(x) >= n PROVE w = SubSeq(x, 1, q - p) \o SubSeq(x, q + m - p + 1, Len(x))
  <2>1. w = SubSeq(x, 1, q - p) \o SubSeq(x, End(b) - p + 1, Len(x)) BY <1>6, Zenon DEF w
  <2>2. End(b) - p + 1 = q + m - p + 1 BY <1>1, <1>5
  <2> QED BY <1>1, <2>1, <2>2
<1>7. e \in Text /\ Len(e) = Len(d) - m BY <1>1 DEF IsErasure
<1>8. \A j \in 1..(Len(d) - m) : e[j] = IF j <= q THEN d[j] ELSE d[j + m] BY <1>1 DEF IsErasure
<1>9. ASSUME NEW y \in Text, NEW r \in Nat, NEW l \in Nat, r + l <= Len(e), Len(y) = l,
             \A i \in 1..l : y[i] = e[r + i],
             ta.position = r, ta.length = l, ta.text = y
      PROVE  Transform(a, b).text
               = Slice(Apply(b, d), Transform(a, b).position, Transform(a, b).length)
  <2>1. y = Slice(e, r, l) BY <1>7, <1>9, IsSlice
  <2> QED BY <1>9, <2>1 DEF e, ta
<1>10. CASE q + m <= p
  <2>1. ta.position = p - m /\ ta.length = n /\ ta.text = x BY <1>1, <1>3, <1>4, <1>10
  <2>2. ta.position \in Nat /\ ta.position + n <= Len(e) BY <1>1, <1>7, <1>10, <2>1
  <2>3. ASSUME NEW i \in 1..n PROVE x[i] = e[ta.position + i]
    <3>1. /\ ta.position + i \in 1..(Len(d) - m) /\ ~(ta.position + i <= q)
          /\ (ta.position + i) + m = p + i
      BY <1>1, <1>10, <2>1
    <3> QED BY <1>2, <1>8, <3>1
  <2> QED BY <1>1, <1>9, <2>1, <2>2, <2>3
<1>11. CASE ~(q + m <= p) /\ q <= p /\ q + m >= p + n
  <2>1. ta.position = q /\ ta.length = 0 /\ ta.text = << >> BY <1>1, <1>3, <1>4, <1>11
  <2>2. q + 0 <= Len(e) /\ 0 \in Nat BY <1>1, <1>7
  <2>3. Slice(e, q, 0) \in Text /\ Len(Slice(e, q, 0)) = 0 BY <1>1, <1>7, <2>2, SliceProperties
  <2>4. ta.text = Slice(e, ta.position, ta.length) BY <2>1, <2>3, NoTextIsEmpty
  <2> QED BY <2>4 DEF e, ta
<1>12. CASE ~(q + m <= p) /\ q <= p /\ ~(q + m >= p + n)
  <2> DEFINE k == (p + n) - (q + m)
  <2>1. ta.position = q /\ ta.length = k /\ ta.text = TailOf(x, k) BY <1>1, <1>3, <1>4, <1>12
  <2>2. k \in Nat /\ k <= n /\ q + k <= Len(e) BY <1>1, <1>7, <1>12
  <2>3. ta.text = SubSeq(x, n - k + 1, n) BY <1>1, <2>1, <2>2 DEF TailOf
  <2>4. p + (n - k) = q + m BY <1>1
  <2> HIDE DEF k
  <2>5. /\ ta.text \in Text /\ Len(ta.text) = k
        /\ \A i \in 1..k : ta.text[i] = x[(n - k) + i]
    BY <1>1, <2>2, <2>3 DEF Text
  <2>6. ASSUME NEW i \in 1..k PROVE ta.text[i] = e[q + i]
    <3>1. /\ q + i \in 1..(Len(d) - m) /\ ~(q + i <= q) /\ (n - k) + i \in 1..n
          /\ (q + i) + m = p + ((n - k) + i)
      BY <1>1, <1>7, <2>2, <2>4
    <3>2. e[q + i] = d[(q + i) + m] BY <1>8, <3>1
    <3>3. x[(n - k) + i] = d[p + ((n - k) + i)] BY <1>2, <3>1
    <3> QED BY <2>5, <3>1, <3>2, <3>3
  <2> QED BY <1>1, <1>9, <2>1, <2>2, <2>5, <2>6
<1>13. CASE p < q /\ q < p + n /\ q + m >= p + n
  <2> DEFINE k == q - p
  <2>1. ta.position = p /\ ta.length = k /\ ta.text = HeadOf(x, k) BY <1>1, <1>3, <1>4, <1>13
  <2>2. k \in Nat /\ k <= n /\ p + k <= Len(e) /\ p + k = q BY <1>1, <1>7, <1>13
  <2> HIDE DEF k
  <2>3. ta.text = SubSeq(x, 1, k) BY <1>1, <2>1, <2>2 DEF HeadOf
  <2>4. /\ ta.text \in Text /\ Len(ta.text) = k
        /\ \A i \in 1..k : ta.text[i] = x[i]
    BY <1>1, <2>2, <2>3 DEF Text
  <2>5. ASSUME NEW i \in 1..k PROVE ta.text[i] = e[p + i]
    <3>1. p + i \in 1..(Len(d) - m) /\ p + i <= q /\ i \in 1..n BY <1>1, <1>7, <2>2
    <3> QED BY <1>2, <1>8, <2>4, <3>1
  <2> QED BY <1>1, <1>9, <2>1, <2>2, <2>4, <2>5
<1>14. CASE p < q /\ q < p + n /\ q + m < p + n
  <2> DEFINE k == q - p
             y == SubSeq(x, 1, k)
             z == SubSeq(x, k + m + 1, n)
  <2>1. ta.position = p /\ ta.length = n - m BY <1>1, <1>3, <1>14
  <2>2. q + m - p + 1 = k + m + 1 BY <1>1
  <2>3. ta.text = y \o z
    <3>1. ta.text = w BY <1>1, <1>4, <1>14
    <3>2. Len(x) >= n BY <1>1
    <3> QED BY <1>1, <1>6, <2>2, <3>1, <3>2
  <2>4. /\ k \in Nat /\ k + m <= n /\ n - m \in Nat /\ p + (n - m) <= Len(e) /\ p + k = q
    BY <1>1, <1>7, <1>14
  <2> HIDE DEF k
  <2>5. y \in Text /\ Len(y) = k /\ \A i \in 1..k : y[i] = x[i]
    <3>1. x \in Text /\ k \in Nat /\ k <= Len(x) BY <1>1, <2>4
    <3> QED BY <3>1 DEF Text
  <2>6. /\ z \in Text /\ Len(z) = n - (k + m)
        /\ \A i \in 1..(n - (k + m)) : z[i] = x[(k + m) + i]
    BY <1>1, <2>4 DEF Text
  <2> HIDE DEF y, z
  <2>7. /\ ta.text \in Text /\ Len(ta.text) = Len(y) + Len(z)
        /\ \A i \in 1..(Len(y) + Len(z)) :
             ta.text[i] = IF i <= Len(y) THEN y[i] ELSE z[i - Len(y)]
    <3>1. /\ y \o z \in Text /\ Len(y \o z) = Len(y) + Len(z)
          /\ \A i \in 1..(Len(y) + Len(z)) : (y \o z)[i] = IF i <= Len(y) THEN y[i] ELSE z[i - Len(y)]
      BY <2>5, <2>6, ConcatText, Zenon
    <3> QED BY <2>3, <3>1, Zenon
  <2>8. Len(ta.text) = n - m BY <1>1, <2>4, <2>5, <2>6, <2>7
  <2>9. ASSUME NEW i \in 1..(n - m) PROVE ta.text[i] = e[p + i]
    <3>0. i \in 1..(Len(y) + Len(z)) /\ p + i \in 1..(Len(d) - m)
      BY <1>1, <1>7, <2>4, <2>5, <2>6
    <3>1. CASE i <= k
      <4>1. i \in 1..k /\ i \in 1..n /\ p + i <= q BY <1>1, <2>4, <3>1
      <4> QED BY <1>2, <1>8, <2>5, <2>7, <3>0, <3>1, <4>1
    <3>2. CASE ~(i <= k)
      <4>1. /\ i - k \in 1..(n - (k + m)) /\ ~(p + i <= q) /\ (k + m) + (i - k) = i + m
            /\ i + m \in 1..n /\ (p + i) + m = p + (i + m)
        BY <1>1, <2>4, <3>2
      <4>2. ta.text[i] = z[i - k] BY <2>5, <2>7, <3>0, <3>2
      <4>3. z[i - k] = x[i + m] BY <2>6, <4>1
      <4>4. x[i + m] = d[p + (i + m)] BY <1>2, <4>1
      <4>5. e[p + i] = d[(p + i) + m] BY <1>8, <3>0, <4>1
      <4> QED BY <4>1, <4>2, <4>3, <4>4, <4>5
    <3> QED BY <3>1, <3>2
  <2> QED BY <1>1, <1>9, <2>1, <2>4, <2>7, <2>8, <2>9
<1>15. CASE p < q /\ q >= p + n
  <2>1. ta.position = p /\ ta.length = n /\ ta.text = x BY <1>1, <1>3, <1>4, <1>15
  <2>2. p + n <= Len(e) BY <1>1, <1>7, <1>15
  <2>3. ASSUME NEW i \in 1..n PROVE x[i] = e[p + i]
    <3>1. p + i \in 1..(Len(d) - m) /\ p + i <= q BY <1>1, <1>15
    <3> QED BY <1>2, <1>8, <3>1
  <2> QED BY <1>1, <1>9, <2>1, <2>2, <2>3
<1> QED BY <1>1, <1>10, <1>11, <1>12, <1>13, <1>14, <1>15

-----------------------------------------------------------------------------
(* The inductive invariant: both sites started from one document d, which   *)
(* no variable keeps; each site has d, or d with its own operation, or d    *)
(* with its own and the other's operation.                                  *)
SiteFollows(s, d) ==
  /\ step[s] = "local" => /\ doc[s] = d /\ Applies(own[s], d)
                          /\ IsDelete(own[s]) => own[s].text = << >>
  /\ step[s] # "local" => Issued(own[s], d)
  /\ step[s] = "remote" => doc[s] = Apply(own[s], d)
  /\ step[s] = "done" => /\ step[Other(s)] # "local"
                         /\ doc[s] = Apply(Incoming(s), Apply(own[s], d))

PairTypes ==
  /\ doc \in [Site -> Text] /\ own \in [Site -> Op]
  /\ step \in [Site -> {"local", "remote", "done"}]

PairInv == PairTypes /\ \E d \in Text : \A s \in Site : SiteFollows(s, d)

LEMMA SiteFacts ==
  /\ \A s \in Site : Other(s) \in Site /\ Other(s) # s /\ Other(Other(s)) = s
  /\ \A s, r \in Site : r = s \/ r = Other(s)
BY DEF Site, Other

LEMMA InitPair == ASSUME PairInit PROVE PairInv
<1>1. PICK d \in Texts(MaxLen) :
        /\ doc = [s \in Site |-> d]
        /\ own \in [Site -> {op \in OpsOn(d) : Applies(op, d)}]
  BY DEF PairInit
<1>2. \A n : Texts(n) \subseteq Text BY DEF Texts, Text
<1>3. d \in Text /\ Len(d) \in Nat BY <1>1, <1>2, LenText
<1>4. ASSUME NEW op \in OpsOn(d) PROVE op \in Op /\ (IsDelete(op) => op.text = << >>)
  <2>1. CASE \E p \in 0..Len(d), t \in Texts(MaxText) : op = InsertOperation(p, t)
    BY <1>2, <1>3, <2>1, ConstructorType DEF InsertOperation, IsDelete
  <2>2. CASE \E p \in 0..Len(d), n \in 0..Len(d) : op = DeleteOperation(p, n, << >>)
    <3>1. PICK p \in 0..Len(d), n \in 0..Len(d) : op = DeleteOperation(p, n, << >>) BY <2>2
    <3>2. p \in Nat /\ n \in Nat BY <1>3
    <3>3. op \in Op BY <3>1, <3>2, EmptyText, ConstructorType, Zenon
    <3> QED BY <3>1, <3>3 DEF DeleteOperation
  <2> QED BY <1>4, <2>1, <2>2 DEF OpsOn
<1>5. own \in [Site -> Op] /\ \A s \in Site : Applies(own[s], d) /\ (IsDelete(own[s]) => own[s].text = << >>)
  BY <1>1, <1>4
<1>6. PairTypes BY <1>1, <1>3, <1>5 DEF PairInit, PairTypes
<1>7. \A s \in Site : SiteFollows(s, d) BY <1>1, <1>5 DEF PairInit, SiteFollows
<1> QED BY <1>3, <1>6, <1>7 DEF PairInv

(* A site's own operation is issued by applying it.                         *)
LEMMA AppliedIsIssued ==
  ASSUME NEW op \in Op, NEW d \in Text, Applies(op, d), IsDelete(op) => op.text = << >>
  PROVE  Issued(Applied(op, d), d) /\ Apply(Applied(op, d), d) = Apply(op, d)
<1>1. CASE IsDelete(op)
  <2>1. Applied(op, d) = [op EXCEPT !.text = Slice(d, op.position, op.length)]
    BY <1>1 DEF Applied
  <2>2. /\ Applied(op, d).type = op.type /\ Applied(op, d).position = op.position
        /\ Applied(op, d).length = op.length
        /\ Applied(op, d).text = Slice(d, op.position, op.length)
    BY <2>1 DEF Op
  <2>3. Applied(op, d) \in Op BY AppliedType
  <2>4. ~IsInsert(op) /\ ~IsInsert(Applied(op, d)) BY <1>1, <2>2 DEF IsInsert, IsDelete
  <2> QED BY <2>2, <2>3, <2>4 DEF Issued, Applies, Apply
<1>2. CASE ~IsDelete(op)
  <2>1. Applied(op, d) = op BY <1>2 DEF Applied
  <2> QED BY <1>2, <2>1 DEF Issued
<1> QED BY <1>1, <1>2

LEMMA LocalFollows ==
  ASSUME PairInv, NEW s \in Site, ApplyLocal(s) PROVE PairInv'
<1>1. PICK d \in Text : \A r \in Site : SiteFollows(r, d) BY DEF PairInv
<1> DEFINE o == Other(s)
<1>2. /\ o \in Site /\ o # s /\ Other(o) = s /\ \A r \in Site : r = s \/ r = o BY SiteFacts
<1>3. doc[s] = d /\ Applies(own[s], d) /\ (IsDelete(own[s]) => own[s].text = << >>) /\ own[s] \in Op
  BY <1>1 DEF SiteFollows, ApplyLocal, PairInv, PairTypes
<1>4. /\ doc' = [doc EXCEPT ![s] = Apply(own[s], d)]
      /\ own' = [own EXCEPT ![s] = Applied(own[s], d)]
      /\ step' = [step EXCEPT ![s] = "remote"]
  BY <1>3 DEF ApplyLocal
<1>5. Issued(Applied(own[s], d), d) /\ Apply(Applied(own[s], d), d) = Apply(own[s], d)
  BY <1>3, AppliedIsIssued
<1>6. PairTypes'
  <2>1. Apply(own[s], d) \in Text /\ Applied(own[s], d) \in Op BY <1>3, ApplyType, AppliedType
  <2> QED BY <1>4, <2>1 DEF PairInv, PairTypes
<1>7. SiteFollows(s, d)'
  <2>1. step'[s] = "remote" /\ doc'[s] = Apply(own[s], d) /\ own'[s] = Applied(own[s], d)
    BY <1>4 DEF PairInv, PairTypes
  <2> QED BY <1>5, <2>1 DEF SiteFollows
<1>8. SiteFollows(o, d)'
  <2>1. step[o] # "done" BY <1>1, <1>2 DEF SiteFollows, ApplyLocal
  <2>2. step'[o] = step[o] /\ doc'[o] = doc[o] /\ own'[o] = own[o]
    BY <1>2, <1>4 DEF PairInv, PairTypes
  <2> QED BY <1>1, <1>2, <2>1, <2>2 DEF SiteFollows
<1>9. \A r \in Site : SiteFollows(r, d)' BY <1>2, <1>7, <1>8
<1> QED BY <1>6, <1>9 DEF PairInv

LEMMA RemoteFollows ==
  ASSUME PairInv, NEW s \in Site, ReceiveRemote(s) PROVE PairInv'
<1>1. PICK d \in Text : \A r \in Site : SiteFollows(r, d) BY DEF PairInv
<1> DEFINE o == Other(s)
<1>2. /\ o \in Site /\ o # s /\ Other(o) = s /\ \A r \in Site : r = s \/ r = o BY SiteFacts
<1>3. /\ doc[s] = Apply(own[s], d) /\ Issued(own[s], d) /\ Issued(own[o], d)
  BY <1>1, <1>2 DEF SiteFollows, ReceiveRemote
<1>4. /\ doc' = [doc EXCEPT ![s] = Apply(Incoming(s), doc[s])] /\ own' = own
      /\ step' = [step EXCEPT ![s] = "done"]
      /\ step[s] = "remote" /\ step[o] # "local" /\ Applies(Incoming(s), doc[s])
  BY DEF ReceiveRemote
<1>5. Incoming(s) \in Op /\ doc[s] \in Text
  BY <1>2, <1>3, IssuedFacts, TransformType DEF Incoming, PairInv, PairTypes
<1>6. PairTypes'
  <2>1. Apply(Incoming(s), doc[s]) \in Text BY <1>4, <1>5, ApplyType
  <2> QED BY <1>4, <2>1 DEF PairInv, PairTypes
<1>7. SiteFollows(s, d)'
  <2>1. step'[s] = "done" /\ step'[o] = step[o] /\ doc'[s] = Apply(Incoming(s), doc[s])
    BY <1>2, <1>4 DEF PairInv, PairTypes
  <2>2. Incoming(s)' = Incoming(s) BY <1>4 DEF Incoming
  <2> QED BY <1>3, <1>4, <2>1, <2>2 DEF SiteFollows
<1>8. SiteFollows(o, d)'
  <2>1. step'[o] = step[o] /\ doc'[o] = doc[o] /\ step'[s] = "done"
    BY <1>2, <1>4 DEF PairInv, PairTypes
  <2>2. Incoming(o)' = Incoming(o) BY <1>4 DEF Incoming
  <2> QED BY <1>1, <1>2, <1>4, <2>1, <2>2 DEF SiteFollows
<1>9. \A r \in Site : SiteFollows(r, d)' BY <1>2, <1>7, <1>8
<1> QED BY <1>6, <1>9 DEF PairInv

THEOREM PairInvariance == PairSpec => []PairInv
<1>1. PairInit => PairInv BY InitPair
<1>2. PairInv /\ [PairNext]_pairVars => PairInv'
  <2>1. ASSUME PairInv, UNCHANGED pairVars PROVE PairInv'
    BY <2>1 DEF pairVars, PairInv, PairTypes, SiteFollows, Incoming
  <2> QED BY <2>1, LocalFollows, RemoteFollows DEF PairNext
<1> QED BY <1>1, <1>2, PTL DEF PairSpec

(* TransformIsSound for documents and texts of any length: what transform() *)
(* returns is an operation, applies where it is used, and a delete carries  *)
(* the text it removes there.                                               *)
THEOREM TransformSound == PairSpec => []TransformIsSound
<1>1. ASSUME PairInv PROVE TransformIsSound
  <2>1. PICK d \in Text : \A r \in Site : SiteFollows(r, d) BY <1>1 DEF PairInv
  <2>2. PairTypes BY <1>1 DEF PairInv
  <2>3. ASSUME NEW s \in Site PROVE Incoming(s) \in Op
    <3>1. Other(s) \in Site BY SiteFacts
    <3>2. own[s] \in Op /\ own[Other(s)] \in Op BY <2>2, <3>1 DEF PairTypes
    <3>3. Fits(own[Other(s)])
      <4>1. CASE step[Other(s)] = "local"
        <5>1. IsDelete(own[Other(s)]) => Len(own[Other(s)].text) = 0
          BY <2>1, <3>1, <4>1, EmptyText DEF SiteFollows
        <5>2. own[Other(s)].length \in Nat BY <3>2 DEF Op
        <5> QED BY <5>1, <5>2 DEF Fits
      <4>2. CASE step[Other(s)] # "local" BY <2>1, <3>1, <4>2, IssuedFacts DEF SiteFollows
      <4> QED BY <4>1, <4>2
    <3> QED BY <3>2, <3>3, TransformType DEF Incoming
  <2>4. PairTypeOK BY <2>2, <2>3 DEF PairTypes, PairTypeOK
  <2>5. ASSUME NEW s \in Site, step[s] = "remote", step[Other(s)] # "local"
        PROVE  /\ doc[s] = Apply(own[s], d) /\ Issued(own[s], d) /\ Issued(own[Other(s)], d)
    BY <2>1, <2>5, SiteFacts DEF SiteFollows
  <2>6. TransformedApplies
    BY <2>5, OperationsMeet DEF TransformedApplies, Meet, Incoming
  <2>7. TransformedTextIsRemoved
    <3> SUFFICES ASSUME NEW s \in Site, step[s] = "remote", step[Other(s)] # "local",
                        IsDelete(Incoming(s)), ~SwallowedInsert(own[Other(s)], own[s])
                 PROVE  Incoming(s).text = Slice(doc[s], Incoming(s).position, Incoming(s).length)
      BY DEF TransformedTextIsRemoved
    <3>1. /\ doc[s] = Apply(own[s], d) /\ Issued(own[s], d) /\ Issued(own[Other(s)], d) BY <2>5
    <3>2. IsDelete(own[Other(s)])
      <4>1. IsInsert(own[Other(s)]) => IsInsert(Incoming(s)) BY <3>1, TransformedInsert DEF Incoming
      <4> QED BY <3>1, <4>1, IssuedFacts DEF IsInsert, IsDelete
    <3>3. IsInsert(own[s]) \/ IsDelete(own[s]) BY <3>1, IssuedFacts
    <3> QED BY <3>1, <3>2, <3>3, TextPastInsert, TextPastDelete DEF Incoming
  <2> QED BY <2>4, <2>6, <2>7 DEF TransformIsSound
<1> QED BY <1>1, PairInvariance, PTL

(* ConvergeUnlessConflict for documents and texts of any length: the sites  *)
(* end with one document if and only if the operations do not conflict.     *)
THEOREM TransformConverges == PairSpec => []ConvergeUnlessConflict
<1>1. ASSUME PairInv PROVE ConvergeUnlessConflict
  <2> SUFFICES ASSUME \A s \in Site : step[s] = "done"
               PROVE  doc["A"] = doc["B"] <=> ~Conflict(own["A"], own["B"])
    BY DEF ConvergeUnlessConflict
  <2>1. PICK d \in Text : \A r \in Site : SiteFollows(r, d) BY <1>1 DEF PairInv
  <2>2. "A" \in Site /\ "B" \in Site /\ Other("A") = "B" /\ Other("B") = "A" BY DEF Site, Other
  <2>3. /\ Issued(own["A"], d) /\ doc["A"] = Apply(Incoming("A"), Apply(own["A"], d))
        /\ Issued(own["B"], d) /\ doc["B"] = Apply(Incoming("B"), Apply(own["B"], d))
    BY <2>1, <2>2 DEF SiteFollows
  <2>4. Meet(own["A"], own["B"], d) BY <2>3, OperationsMeet
  <2> QED BY <2>2, <2>3, <2>4 DEF Meet, Incoming
<1> QED BY <1>1, PairInvariance, PTL

-----------------------------------------------------------------------------
(* Two DocumentManagers whose users take turns (Collaboration).             *)

\* One user's channel holds what takes its document to the other user's.
Awaits(channel, mine, theirs) ==
  \E op : /\ channel = <<op>> /\ Applies(op, mine) /\ theirs = Apply(op, mine)

\* Nothing is in flight and the documents agree, or one operation is and
\* explains the difference.
TurnInv ==
  \/ toA = << >> /\ toB = << >> /\ documentA = documentB
  \/ toA = << >> /\ Awaits(toB, documentB, documentA)
  \/ toB = << >> /\ Awaits(toA, documentA, documentB)

\* An operation object: a record with the members apply() and the JSON use.
Members == {"type", "position", "length", "text", "id", "source", "related"}
Built(op) == op = [x \in Members |-> op[x]] /\ op.type \in {"insert", "delete"}

(* What is sent of an applied operation does at the other end what apply()  *)
(* did here: the text a delete stored changes nothing.                      *)
LEMMA WireActs ==
  ASSUME NEW op, Built(op), NEW d, Applies(op, d)
  PROVE  /\ Applies(Wire(Applied(op, d)), d)
         /\ Apply(Wire(Applied(op, d)), d) = Apply(op, d)
<1> DEFINE a == Applied(op, d)
<1>1. a.type = op.type /\ a.position = op.position /\ a.length = op.length
  BY DEF Built, Members, Applied, IsDelete
<1>2. IsInsert(op) => a.text = op.text
  BY DEF Applied, IsDelete, IsInsert
<1> HIDE DEF a
<1>3. IsInsert(a) <=> IsInsert(op)
  BY <1>1 DEF IsInsert
<1>4. /\ Wire(a).type = op.type /\ Wire(a).position = op.position
      /\ IsInsert(op) => Wire(a).text = op.text
      /\ ~IsInsert(op) => Wire(a).length = op.length
  BY <1>1, <1>2, <1>3 DEF Wire, InsertOperation, DeleteOperation, Built, IsInsert
<1>5. IsInsert(Wire(a)) <=> IsInsert(op)
  BY <1>4 DEF IsInsert
<1>6. Applies(Wire(a), d) /\ Apply(Wire(a), d) = Apply(op, d)
  BY <1>4, <1>5 DEF Applies, Apply
<1> QED
  BY <1>6 DEF a

LEMMA ConstructorsBuild ==
  ASSUME NEW p, NEW n, NEW t
  PROVE  Built(InsertOperation(p, t)) /\ Built(DeleteOperation(p, n, t))
BY DEF Built, Members, InsertOperation, DeleteOperation

LEMMA MarksBuild ==
  ASSUME NEW op, Built(op), NEW s, NEW n
  PROVE  /\ Built([op EXCEPT !.source = s, !.id = n])
         /\ Built([op EXCEPT !.source = s, !.related = n])
<1>1. [op EXCEPT !.source = s, !.id = n].type = op.type
  BY DEF Built, Members
<1>2. [op EXCEPT !.source = s, !.related = n].type = op.type
  BY DEF Built, Members
<1>3. ASSUME NEW D, op = [x \in D |-> op[x]]
      PROVE  /\ [op EXCEPT !.source = s, !.id = n] =
                  [x \in D |-> [op EXCEPT !.source = s, !.id = n][x]]
             /\ [op EXCEPT !.source = s, !.related = n] =
                  [x \in D |-> [op EXCEPT !.source = s, !.related = n][x]]
  BY <1>3
<1>4. /\ [op EXCEPT !.source = s, !.id = n] =
            [x \in Members |-> [op EXCEPT !.source = s, !.id = n][x]]
      /\ [op EXCEPT !.source = s, !.related = n] =
            [x \in Members |-> [op EXCEPT !.source = s, !.related = n][x]]
  BY <1>3 DEF Built
<1> QED
  BY <1>1, <1>2, <1>4 DEF Built

\* What a call announces: nothing and the document stays, or the operation
\* that was applied.
Announces(ops, old, new) ==
  \/ ops = << >> /\ new = old
  \/ \E op : Built(op) /\ Applies(op, old) /\ ops = <<Applied(op, old)>> /\ new = Apply(op, old)

LEMMA OutgoingOne ==
  ASSUME NEW ops, NEW old, NEW new, Announces(ops, old, new)
  PROVE  \/ << >> \o Outgoing(ops) = << >> /\ new = old
         \/ Awaits(<< >> \o Outgoing(ops), old, new)
<1>1. CASE ops = << >> /\ new = old
  <2>1. Outgoing(<< >>) = << >>
    BY DEF Outgoing
  <2> QED
    BY <1>1, <2>1
<1>2. ASSUME NEW op, Built(op), Applies(op, old), ops = <<Applied(op, old)>>, new = Apply(op, old)
      PROVE  Awaits(<< >> \o Outgoing(ops), old, new)
  <2> DEFINE w == Wire(Applied(op, old))
  <2>1. Outgoing(ops) = <<w>>
    BY <1>2 DEF Outgoing
  <2>2. << >> \o <<w>> = <<w>>
    OBVIOUS
  <2>3. Applies(w, old) /\ Apply(w, old) = new
    BY <1>2, WireActs
  <2> QED
    BY <2>1, <2>2, <2>3 DEF Awaits
<1> QED
  BY <1>1, <1>2 DEF Announces

(* The manager of each user applies and builds operations as Operation      *)
(* defines it.                                                              *)
LEMMA SameForA ==
  /\ \A op, d : /\ A!Applies(op, d) <=> Applies(op, d)
                /\ A!Apply(op, d) = Apply(op, d)
                /\ A!Applied(op, d) = Applied(op, d)
  /\ \A op : A!Clone(op) = Clone(op) /\ A!inverse(op) = inverse(op)
  /\ \A p, n, t : /\ A!InsertOperation(p, t) = InsertOperation(p, t)
                  /\ A!DeleteOperation(p, n, t) = DeleteOperation(p, n, t)
<1>1. \A op : A!IsInsert(op) <=> IsInsert(op)
  BY DEF IsInsert, A!IsInsert
<1>2. \A op : A!IsDelete(op) <=> IsDelete(op)
  BY DEF IsDelete, A!IsDelete
<1>3. \A p, n, t : /\ A!InsertOperation(p, t) = InsertOperation(p, t)
                   /\ A!DeleteOperation(p, n, t) = DeleteOperation(p, n, t)
  BY DEF InsertOperation, A!InsertOperation, DeleteOperation, A!DeleteOperation, NoId, A!NoId
<1>4. \A d, p, n, t : A!Splice(d, p, n, t) = Splice(d, p, n, t)
  BY DEF Splice, A!Splice
<1>5. \A d, p, n : A!Slice(d, p, n) = Slice(d, p, n)
  BY DEF Slice, A!Slice
<1>6. \A op, d : A!Applies(op, d) <=> Applies(op, d)
  BY <1>1 DEF Applies, A!Applies
<1>7. \A op, d : A!Apply(op, d) = Apply(op, d)
  BY <1>1, <1>4 DEF Apply, A!Apply
<1>8. \A op, d : A!Applied(op, d) = Applied(op, d)
  BY <1>2, <1>5 DEF Applied, A!Applied
<1>9. \A op : A!Clone(op) = Clone(op)
  BY <1>1, <1>3 DEF Clone, A!Clone
<1>10. \A op : A!inverse(op) = inverse(op)
  BY <1>1, <1>3 DEF inverse, A!inverse
<1> QED
  BY <1>3, <1>6, <1>7, <1>8, <1>9, <1>10

LEMMA SubmittedBuiltA ==
  ASSUME NEW op \in A!Submitted PROVE Built(op)
BY SameForA, ConstructorsBuild DEF A!Submitted

LEMMA EditAnnouncesA == ASSUME A!EditNext PROVE Announces(emittedA', documentA, documentA')
<1>1. ASSUME NEW op \in A!Submitted, A!applyLocalOperation(op)
      PROVE  Announces(emittedA', documentA, documentA')
  <2>1. Built(A!Numbered(op))
    BY SubmittedBuiltA, MarksBuild DEF A!Numbered
  <2>2. Applies(A!Numbered(op), documentA) /\ Apply(A!Numbered(op), documentA) = documentA'
    <3>1. /\ A!Numbered(op).type = op.type /\ A!Numbered(op).position = op.position
          /\ A!Numbered(op).length = op.length /\ A!Numbered(op).text = op.text
      BY SubmittedBuiltA DEF A!Numbered, Built, Members
    <3>2. Applies(op, documentA) /\ Apply(op, documentA) = documentA'
      BY <1>1, SameForA DEF A!applyLocalOperation
    <3> QED
      BY <3>1, <3>2 DEF Applies, Apply, IsInsert
  <2> QED
    BY <1>1, SameForA, <2>1, <2>2 DEF A!applyLocalOperation, Announces
<1>2. ASSUME NEW op \in A!Submitted, A!rejectLocalOperation(op)
      PROVE  Announces(emittedA', documentA, documentA')
  BY <1>2 DEF A!rejectLocalOperation, A!Unchanged, Announces
<1>3. ASSUME A!undo PROVE Announces(emittedA', documentA, documentA')
  <2>1. Built(inverse(A!Last(undoStackA)))
    BY ConstructorsBuild DEF inverse
  <2>2. Built(A!UndoOp(A!Last(undoStackA)))
    BY <2>1, SameForA, MarksBuild DEF A!UndoOp
  <2> QED
    BY <1>3, <2>2, SameForA DEF A!undo, Announces
<1>4. ASSUME A!redo PROVE Announces(emittedA', documentA, documentA')
  <2>1. Built(Clone(A!Last(redoStackA)))
    BY ConstructorsBuild DEF Clone
  <2>2. Built(A!RedoOp(A!Last(redoStackA)))
    BY <2>1, SameForA, MarksBuild DEF A!RedoOp
  <2> QED
    BY <1>4, <2>2, SameForA DEF A!redo, Announces
<1>5. ASSUME A!undoThrows \/ A!undoFails \/ A!redoFails
      PROVE  Announces(emittedA', documentA, documentA')
  BY <1>5 DEF A!undoThrows, A!undoFails, A!redoFails, A!Unchanged, Announces
<1> QED
  BY <1>1, <1>2, <1>3, <1>4, <1>5 DEF A!EditNext

LEMMA SameForB ==
  /\ \A op, d : /\ B!Applies(op, d) <=> Applies(op, d)
                /\ B!Apply(op, d) = Apply(op, d)
                /\ B!Applied(op, d) = Applied(op, d)
  /\ \A op : B!Clone(op) = Clone(op) /\ B!inverse(op) = inverse(op)
  /\ \A p, n, t : /\ B!InsertOperation(p, t) = InsertOperation(p, t)
                  /\ B!DeleteOperation(p, n, t) = DeleteOperation(p, n, t)
<1>1. \A op : B!IsInsert(op) <=> IsInsert(op)
  BY DEF IsInsert, B!IsInsert
<1>2. \A op : B!IsDelete(op) <=> IsDelete(op)
  BY DEF IsDelete, B!IsDelete
<1>3. \A p, n, t : /\ B!InsertOperation(p, t) = InsertOperation(p, t)
                   /\ B!DeleteOperation(p, n, t) = DeleteOperation(p, n, t)
  BY DEF InsertOperation, B!InsertOperation, DeleteOperation, B!DeleteOperation, NoId, B!NoId
<1>4. \A d, p, n, t : B!Splice(d, p, n, t) = Splice(d, p, n, t)
  BY DEF Splice, B!Splice
<1>5. \A d, p, n : B!Slice(d, p, n) = Slice(d, p, n)
  BY DEF Slice, B!Slice
<1>6. \A op, d : B!Applies(op, d) <=> Applies(op, d)
  BY <1>1 DEF Applies, B!Applies
<1>7. \A op, d : B!Apply(op, d) = Apply(op, d)
  BY <1>1, <1>4 DEF Apply, B!Apply
<1>8. \A op, d : B!Applied(op, d) = Applied(op, d)
  BY <1>2, <1>5 DEF Applied, B!Applied
<1>9. \A op : B!Clone(op) = Clone(op)
  BY <1>1, <1>3 DEF Clone, B!Clone
<1>10. \A op : B!inverse(op) = inverse(op)
  BY <1>1, <1>3 DEF inverse, B!inverse
<1> QED
  BY <1>3, <1>6, <1>7, <1>8, <1>9, <1>10

LEMMA SubmittedBuiltB ==
  ASSUME NEW op \in B!Submitted PROVE Built(op)
BY SameForB, ConstructorsBuild DEF B!Submitted

LEMMA EditAnnouncesB == ASSUME B!EditNext PROVE Announces(emittedB', documentB, documentB')
<1>1. ASSUME NEW op \in B!Submitted, B!applyLocalOperation(op)
      PROVE  Announces(emittedB', documentB, documentB')
  <2>1. Built(B!Numbered(op))
    BY SubmittedBuiltB, MarksBuild DEF B!Numbered
  <2>2. Applies(B!Numbered(op), documentB) /\ Apply(B!Numbered(op), documentB) = documentB'
    <3>1. /\ B!Numbered(op).type = op.type /\ B!Numbered(op).position = op.position
          /\ B!Numbered(op).length = op.length /\ B!Numbered(op).text = op.text
      BY SubmittedBuiltB DEF B!Numbered, Built, Members
    <3>2. Applies(op, documentB) /\ Apply(op, documentB) = documentB'
      BY <1>1, SameForB DEF B!applyLocalOperation
    <3> QED
      BY <3>1, <3>2 DEF Applies, Apply, IsInsert
  <2> QED
    BY <1>1, SameForB, <2>1, <2>2 DEF B!applyLocalOperation, Announces
<1>2. ASSUME NEW op \in B!Submitted, B!rejectLocalOperation(op)
      PROVE  Announces(emittedB', documentB, documentB')
  BY <1>2 DEF B!rejectLocalOperation, B!Unchanged, Announces
<1>3. ASSUME B!undo PROVE Announces(emittedB', documentB, documentB')
  <2>1. Built(inverse(B!Last(undoStackB)))
    BY ConstructorsBuild DEF inverse
  <2>2. Built(B!UndoOp(B!Last(undoStackB)))
    BY <2>1, SameForB, MarksBuild DEF B!UndoOp
  <2> QED
    BY <1>3, <2>2, SameForB DEF B!undo, Announces
<1>4. ASSUME B!redo PROVE Announces(emittedB', documentB, documentB')
  <2>1. Built(Clone(B!Last(redoStackB)))
    BY ConstructorsBuild DEF Clone
  <2>2. Built(B!RedoOp(B!Last(redoStackB)))
    BY <2>1, SameForB, MarksBuild DEF B!RedoOp
  <2> QED
    BY <1>4, <2>2, SameForB DEF B!redo, Announces
<1>5. ASSUME B!undoThrows \/ B!undoFails \/ B!redoFails
      PROVE  Announces(emittedB', documentB, documentB')
  BY <1>5 DEF B!undoThrows, B!undoFails, B!redoFails, B!Unchanged, Announces
<1> QED
  BY <1>1, <1>2, <1>3, <1>4, <1>5 DEF B!EditNext

LEMMA ReceiveFollowsA ==
  ASSUME toA # << >>, A!Receive(Head(toA)), Awaits(toA, documentA, documentB)
  PROVE  Tail(toA) = << >> /\ documentA' = documentB
<1>1. PICK op : toA = <<op>> /\ Applies(op, documentA) /\ documentB = Apply(op, documentA)
  BY DEF Awaits
<1>2. Head(toA) = op /\ Tail(toA) = << >>
  BY <1>1
<1>3. A!Receive(op)
  BY <1>2
<1>4. A!Applies(op, documentA)
  BY <1>1, SameForA
<1>5. A!applyRemoteOperation(op)
  BY <1>3, <1>4 DEF A!Receive, A!rejectRemoteOperation
<1> QED
  BY <1>1, <1>2, <1>5, SameForA DEF A!applyRemoteOperation

LEMMA ReceiveFollowsB ==
  ASSUME toB # << >>, B!Receive(Head(toB)), Awaits(toB, documentB, documentA)
  PROVE  Tail(toB) = << >> /\ documentB' = documentA
<1>1. PICK op : toB = <<op>> /\ Applies(op, documentB) /\ documentA = Apply(op, documentB)
  BY DEF Awaits
<1>2. Head(toB) = op /\ Tail(toB) = << >>
  BY <1>1
<1>3. B!Receive(op)
  BY <1>2
<1>4. B!Applies(op, documentB)
  BY <1>1, SameForB
<1>5. B!applyRemoteOperation(op)
  BY <1>3, <1>4 DEF B!Receive, B!rejectRemoteOperation
<1> QED
  BY <1>1, <1>2, <1>5, SameForB DEF B!applyRemoteOperation

LEMMA TurnStep == ASSUME TakingTurns, TurnInv, [Next]_vars PROVE TurnInv'
<1>1. CASE EditA
  <2>1. toA = << >> /\ toB = << >> /\ toA' = << >> /\ documentB' = documentB
    BY <1>1 DEF EditA, MayEdit, varsB
  <2>2. documentA = documentB
    BY <2>1 DEF TurnInv, Awaits
  <2>3. Announces(emittedA', documentA, documentA')
    BY <1>1, EditAnnouncesA DEF EditA
  <2>4. toB' = << >> \o Outgoing(emittedA')
    BY <1>1, <2>1 DEF EditA
  <2>5. \/ toB' = << >> /\ documentA' = documentA
        \/ Awaits(toB', documentA, documentA')
    BY <2>3, <2>4, OutgoingOne
  <2>6. CASE toB' = << >> /\ documentA' = documentA
    BY <2>1, <2>2, <2>6 DEF TurnInv
  <2>7. CASE Awaits(toB', documentA, documentA')
    <3>1. Awaits(toB, documentB, documentA)'
      BY <2>1, <2>2, <2>7 DEF Awaits
    <3> QED
      BY <2>1, <3>1 DEF TurnInv
  <2> QED
    BY <2>5, <2>6, <2>7
<1>2. CASE EditB
  <2>1. toA = << >> /\ toB = << >> /\ toB' = << >> /\ documentA' = documentA
    BY <1>2 DEF EditB, MayEdit, varsA
  <2>2. documentA = documentB
    BY <2>1 DEF TurnInv, Awaits
  <2>3. Announces(emittedB', documentB, documentB')
    BY <1>2, EditAnnouncesB DEF EditB
  <2>4. toA' = << >> \o Outgoing(emittedB')
    BY <1>2, <2>1 DEF EditB
  <2>5. \/ toA' = << >> /\ documentB' = documentB
        \/ Awaits(toA', documentB, documentB')
    BY <2>3, <2>4, OutgoingOne
  <2>6. CASE toA' = << >> /\ documentB' = documentB
    BY <2>1, <2>2, <2>6 DEF TurnInv
  <2>7. CASE Awaits(toA', documentB, documentB')
    <3>1. Awaits(toA, documentA, documentB)'
      BY <2>1, <2>2, <2>7 DEF Awaits
    <3> QED
      BY <2>1, <3>1 DEF TurnInv
  <2> QED
    BY <2>5, <2>6, <2>7
<1>3. CASE ReceiveA
  <2>1. toA # << >> /\ A!Receive(Head(toA)) /\ toA' = Tail(toA) /\ toB' = toB /\ documentB' = documentB
    BY <1>3 DEF ReceiveA, varsB
  <2>2. toB = << >> /\ Awaits(toA, documentA, documentB)
    BY <2>1 DEF TurnInv
  <2> QED
    BY <2>1, <2>2, ReceiveFollowsA DEF TurnInv
<1>4. CASE ReceiveB
  <2>1. toB # << >> /\ B!Receive(Head(toB)) /\ toB' = Tail(toB) /\ toA' = toA /\ documentA' = documentA
    BY <1>4 DEF ReceiveB, varsA
  <2>2. toA = << >> /\ Awaits(toB, documentB, documentA)
    BY <2>1 DEF TurnInv
  <2> QED
    BY <2>1, <2>2, ReceiveFollowsB DEF TurnInv
<1>5. CASE UNCHANGED vars
  BY <1>5 DEF vars, varsA, varsB, TurnInv, Awaits
<1> QED
  BY <1>1, <1>2, <1>3, <1>4, <1>5 DEF Next

(* Converged for documents, texts and histories of any size and any number  *)
(* of edits, undos and redos: users who take turns see one document as soon *)
(* as nothing is in flight.  Nothing is assumed of the stacks: whatever     *)
(* undo() and redo() find there, what they announce is what they applied.   *)
THEOREM TurnsConverge == ASSUME TakingTurns PROVE Spec => []Converged
<1>1. Init => TurnInv
  BY DEF Init, TurnInv
<1>2. TurnInv /\ [Next]_vars => TurnInv'
  BY TurnStep
<1>3. TurnInv => Converged
  BY DEF TurnInv, Converged, Awaits
<1> QED
  BY <1>1, <1>2, <1>3, PTL DEF Spec

-----------------------------------------------------------------------------
(* The order of the characters.                                             *)

LEMMA LeastNat ==
  ASSUME NEW S, S \subseteq Nat, S # {}
  PROVE  Min(S) \in S /\ \A y \in S : Min(S) <= y
<1> DEFINE R == OpToRel(<, Nat)
<1>1. IsWellFoundedOn(R, Nat)
  BY NatLessThanWellFounded
<1>2. \A x, y \in Nat : y < x => <<y, x>> \in R
  BY DEF OpToRel
<1> HIDE DEF R
<1>3. PICK x \in S : \A y \in S : ~(<<y, x>> \in R)
  BY <1>1, WFMin
<1>4. ASSUME NEW y \in S PROVE x <= y
  <2>1. x \in Nat /\ y \in Nat /\ ~(<<y, x>> \in R)
    BY <1>3
  <2>2. ~(y < x)
    BY <1>2, <2>1
  <2> QED
    BY <2>1, <2>2
<1> QED
  BY <1>3, <1>4 DEF Min

LEMMA ShorterLength ==
  ASSUME NEW p \in Seq(Int), NEW q \in Seq(Int)
  PROVE  LET n == Min({Len(p), Len(q)})
         IN n \in Nat /\ n <= Len(p) /\ n <= Len(q) /\ (n = Len(p) \/ n = Len(q))
<1>1. {Len(p), Len(q)} \subseteq Nat /\ {Len(p), Len(q)} # {}
  BY LenProperties
<1> QED
  BY <1>1, LeastNat

\* The order of vectors, without a minimum.
Lex(p, q) ==
  \/ Len(p) < Len(q) /\ \A i \in 1..Len(p) : p[i] = q[i]
  \/ \E k \in 1..Len(p) : k <= Len(q) /\ p[k] < q[k] /\ \A i \in 1..(k - 1) : p[i] = q[i]

LEMMA FirstDifference ==
  ASSUME NEW p \in Seq(Int), NEW q \in Seq(Int)
  PROVE  /\ PositionLess(p, q) <=> Lex(p, q)
         /\ p = q \/ Lex(p, q) \/ Lex(q, p)
<1> DEFINE n == Min({Len(p), Len(q)})
           D == {i \in 1..n : p[i] # q[i]}
           m == Min(D)
<1>1. /\ n \in Nat /\ n <= Len(p) /\ n <= Len(q) /\ (n = Len(p) \/ n = Len(q))
      /\ Len(p) \in Nat /\ Len(q) \in Nat
  BY ShorterLength
<1>2. PositionLess(p, q) <=> IF D = {} THEN Len(p) < Len(q) ELSE p[m] < q[m]
  BY DEF PositionLess
<1> HIDE DEF n
<1>3. CASE D = {}
  <2>1. \A i \in 1..n : p[i] = q[i]
    BY <1>3
  <2>2. Len(p) < Len(q) => Lex(p, q)
    BY <1>1, <2>1 DEF Lex
  <2>3. Len(q) < Len(p) => Lex(q, p)
    BY <1>1, <2>1 DEF Lex
  <2>4. Lex(p, q) => Len(p) < Len(q)
    BY <1>1, <2>1 DEF Lex
  <2>5. Len(p) = Len(q) => p = q
    BY <1>1, <2>1, SeqEqual
  <2> QED
    BY <1>1, <1>2, <1>3, <2>2, <2>3, <2>4, <2>5
<1>4. CASE D # {}
  <2>1. m \in D /\ \A y \in D : m <= y
    <3>1. D \subseteq Nat
      BY <1>1
    <3> HIDE DEF D
    <3> QED
      BY <1>4, <3>1, LeastNat
  <2>2. m \in 1..n /\ p[m] # q[m] /\ \A i \in 1..(m - 1) : p[i] = q[i]
    <3>1. \A i \in 1..n : p[i] # q[i] => m <= i
      BY <2>1
    <3>2. m \in 1..n /\ p[m] # q[m]
      BY <2>1
    <3> HIDE DEF m, D
    <3> QED
      BY <1>1, <3>1, <3>2
  <2> HIDE DEF m, D
  <2>3. m \in 1..Len(p) /\ m \in 1..Len(q) /\ p[m] \in Int /\ q[m] \in Int
    BY <1>1, <2>2
  <2>4. p[m] < q[m] => Lex(p, q)
    BY <2>2, <2>3 DEF Lex
  <2>5. q[m] < p[m] => Lex(q, p)
    BY <2>2, <2>3 DEF Lex
  <2>6. ASSUME Lex(p, q) PROVE p[m] < q[m]
    <3>1. CASE Len(p) < Len(q) /\ \A i \in 1..Len(p) : p[i] = q[i]
      BY <2>2, <2>3, <3>1
    <3>2. CASE \E k \in 1..Len(p) : k <= Len(q) /\ p[k] < q[k] /\ \A i \in 1..(k - 1) : p[i] = q[i]
      <4>1. PICK k \in 1..Len(p) : k <= Len(q) /\ p[k] < q[k] /\ \A i \in 1..(k - 1) : p[i] = q[i]
        BY <3>2
      <4>2. p[k] # q[k]
        BY <1>1, <4>1
      <4>3. k = m
        BY <1>1, <2>2, <2>3, <4>1, <4>2
      <4> QED
        BY <4>1, <4>3
    <3> QED
      BY <2>6, <3>1, <3>2 DEF Lex
  <2> QED
    BY <1>2, <1>4, <2>2, <2>3, <2>4, <2>5, <2>6
<1> QED
  BY <1>3, <1>4

LEMMA LexAt ==
  ASSUME NEW p \in Seq(Int), NEW q \in Seq(Int), NEW k \in 1..Len(p), k \in 1..Len(q), p[k] < q[k],
         \A i \in 1..(k - 1) : p[i] = q[i]
  PROVE  Lex(p, q)
BY DEF Lex

LEMMA LexSplit ==
  ASSUME NEW p \in Seq(Int), NEW q \in Seq(Int), Lex(p, q)
  PROVE  \/ Len(p) < Len(q) /\ \A i \in 1..Len(p) : p[i] = q[i]
         \/ \E k \in 1..Len(p) :
              k \in 1..Len(q) /\ p[k] < q[k] /\ \A i \in 1..(k - 1) : p[i] = q[i]
<1>1. Len(p) \in Nat /\ Len(q) \in Nat
  OBVIOUS
<1> QED
  BY <1>1 DEF Lex

LEMMA LexOrder ==
  ASSUME NEW p \in Seq(Int), NEW q \in Seq(Int), NEW r \in Seq(Int)
  PROVE  /\ ~Lex(p, p)
         /\ Lex(p, q) /\ Lex(q, r) => Lex(p, r)
<1>1. Len(p) \in Nat /\ Len(q) \in Nat /\ Len(r) \in Nat
  OBVIOUS
<1>2. /\ \A i \in 1..Len(p) : p[i] \in Int
      /\ \A i \in 1..Len(q) : q[i] \in Int
      /\ \A i \in 1..Len(r) : r[i] \in Int
  OBVIOUS
<1>3. ~Lex(p, p)
  BY <1>1, <1>2 DEF Lex
<1>4. ASSUME NEW j \in 1..Len(p), j \in 1..Len(q), p[j] < q[j], \A i \in 1..(j - 1) : p[i] = q[i],
             Lex(q, r)
      PROVE  Lex(p, r)
  <2>1. ASSUME Len(q) < Len(r), \A i \in 1..Len(q) : q[i] = r[i] PROVE Lex(p, r)
    <3>1. j \in 1..Len(r) /\ p[j] < r[j]
      BY <1>1, <1>4, <2>1
    <3>2. \A i \in 1..(j - 1) : p[i] = r[i]
      BY <1>1, <1>4, <2>1
    <3> QED
      BY <3>1, <3>2, LexAt
  <2>2. ASSUME NEW k \in 1..Len(q), k \in 1..Len(r), q[k] < r[k], \A i \in 1..(k - 1) : q[i] = r[i]
        PROVE  Lex(p, r)
    <3>1. CASE k < j
      <4>1. p[k] = q[k] /\ k \in 1..Len(p)
        BY <1>1, <1>4, <2>2, <3>1
      <4>2. \A i \in 1..(k - 1) : p[i] = r[i]
        BY <1>1, <1>4, <2>2, <3>1
      <4> QED
        BY <2>2, <4>1, <4>2, LexAt
    <3>2. CASE k = j
      <4>1. p[j] < r[j] /\ j \in 1..Len(r)
        BY <1>2, <1>4, <2>2, <3>2
      <4>2. \A i \in 1..(j - 1) : p[i] = r[i]
        BY <1>4, <2>2, <3>2
      <4> QED
        BY <1>4, <4>1, <4>2, LexAt
    <3>3. CASE j < k
      <4>1. p[j] < r[j] /\ j \in 1..Len(r)
        BY <1>1, <1>4, <2>2, <3>3
      <4>2. \A i \in 1..(j - 1) : p[i] = r[i]
        BY <1>1, <1>4, <2>2, <3>3
      <4> QED
        BY <1>4, <4>1, <4>2, LexAt
    <3> QED
      BY <1>1, <3>1, <3>2, <3>3
  <2> QED
    BY <1>4, <2>1, <2>2, LexSplit
<1>5. ASSUME Len(p) < Len(q), \A i \in 1..Len(p) : p[i] = q[i], Lex(q, r) PROVE Lex(p, r)
  <2>1. CASE Len(q) < Len(r) /\ \A i \in 1..Len(q) : q[i] = r[i]
    BY <1>1, <1>5, <2>1 DEF Lex
  <2>2. ASSUME NEW k \in 1..Len(q), k \in 1..Len(r), q[k] < r[k], \A i \in 1..(k - 1) : q[i] = r[i]
        PROVE  Lex(p, r)
    <3>1. CASE k <= Len(p)
      <4>1. k \in 1..Len(p) /\ p[k] < r[k]
        BY <1>1, <1>5, <2>2, <3>1
      <4>2. \A i \in 1..(k - 1) : p[i] = r[i]
        BY <1>1, <1>5, <2>2, <3>1
      <4> QED
        BY <2>2, <4>1, <4>2, LexAt
    <3>2. CASE Len(p) < k
      <4>1. Len(p) < Len(r) /\ \A i \in 1..Len(p) : p[i] = r[i]
        BY <1>1, <1>5, <2>2, <3>2
      <4> QED
        BY <4>1 DEF Lex
    <3> QED
      BY <1>1, <3>1, <3>2
  <2> QED
    BY <1>5, <2>1, <2>2, LexSplit
<1> QED
  BY <1>3, <1>4, <1>5, LexSplit

\* A character; its position has at least one digit.
Position == Seq(Int) \ {<< >>}
CharType == [value : Values, author : Author, position : Position, timestamp : Timestamps]

SameKey(c, d) ==
  c.position = d.position /\ c.timestamp = d.timestamp /\ c.author = d.author

LEMMA CharOrder ==
  ASSUME NEW b \in CharType, NEW c \in CharType, NEW d \in CharType
  PROVE  /\ ~CharLess(b, b)
         /\ CharLess(b, c) \/ CharLess(c, b) \/ SameKey(b, c)
         /\ CharLess(b, c) /\ CharLess(c, d) => CharLess(b, d)
         /\ ~CharLess(c, b) /\ CharLess(c, d) => CharLess(b, d)
         /\ CharLess(b, c) /\ ~CharLess(d, c) => CharLess(b, d)
<1>1. \A x \in {b, c, d} : /\ x.position \in Seq(Int) /\ x.timestamp \in Int /\ x.author \in Int
  BY CrdtAssumption DEF CharType, Position
<1>2. \A x, y \in {b, c, d} :
        /\ PositionLess(x.position, y.position) <=> Lex(x.position, y.position)
        /\ x.position = y.position \/ Lex(x.position, y.position) \/ Lex(y.position, x.position)
        /\ ~Lex(x.position, x.position)
  BY <1>1, FirstDifference, LexOrder
<1>3. \A x, y, z \in {b, c, d} :
        Lex(x.position, y.position) /\ Lex(y.position, z.position) => Lex(x.position, z.position)
  BY <1>1, LexOrder
<1>4. \A x, y \in {b, c, d} :
        CharLess(x, y) <=>
          \/ Lex(x.position, y.position)
          \/ /\ x.position = y.position
             /\ x.timestamp < y.timestamp \/ (x.timestamp = y.timestamp /\ x.author < y.author)
  BY <1>2 DEF CharLess
<1>5. \A x, y \in {b, c, d} : CharLess(x, y) \/ CharLess(y, x) \/ SameKey(x, y)
  BY <1>1, <1>2, <1>4 DEF SameKey
<1>6. \A x \in {b, c, d} : ~CharLess(x, x)
  BY <1>1, <1>2, <1>4
<1>7. \A x, y, z \in {b, c, d} : CharLess(x, y) /\ CharLess(y, z) => CharLess(x, z)
  BY <1>1, <1>3, <1>4
<1>8. \A x, y, z \in {b, c, d} :
        SameKey(x, y) => /\ CharLess(x, z) <=> CharLess(y, z)
                         /\ CharLess(z, x) <=> CharLess(z, y)
  BY DEF SameKey, CharLess
<1> QED
  BY <1>5, <1>6, <1>7, <1>8

\* Sorted in the weak sense: equal ones may stand next to each other.
SortedChars(cs) == \A i, j \in 1..Len(cs) : i < j => ~CharLess(cs[j], cs[i])

LEMMA PrefixCount ==
  ASSUME NEW n \in Nat, NEW S, S \subseteq 1..n, \A i \in S : \A j \in 1..i : j \in S
  PROVE  Cardinality(S) \in 0..n /\ S = 1..Cardinality(S)
<1> DEFINE c == Cardinality(S)
<1>1. IsFiniteSet(1..n) /\ Cardinality(1..n) = n
  BY FS_Interval
<1>2. IsFiniteSet(S) /\ c \in Nat /\ c <= n
  BY ZenonT(30), <1>1, FS_Subset, FS_CardinalityType
<1>3. ASSUME NEW i \in S PROVE i \in 1..c
  <2>1. 1..i \subseteq S /\ i \in Nat
    OBVIOUS
  <2>2. Cardinality(1..i) = i
    BY <2>1, FS_Interval
  <2>3. i <= c
    BY <1>2, <2>1, <2>2, FS_Subset
  <2> QED
    BY <1>2, <2>1, <2>3
<1>4. ASSUME NEW i \in 1..c, i \notin S PROVE FALSE
  <2>0. c \in Nat /\ i \in 1..c
    BY <1>2
  <2> HIDE DEF c
  <2>4. ASSUME NEW j \in S PROVE j \in 1..(i - 1)
    <3>1. j \in 1..n /\ (i <= j => i \in 1..j)
      BY <2>0
    <3> QED
      BY <1>4, <2>0, <3>1
  <2>1. i \in Nat /\ i - 1 \in Nat /\ S \subseteq 1..(i - 1)
    BY <2>0, <2>4
  <2>2. IsFiniteSet(1..(i - 1)) /\ Cardinality(1..(i - 1)) = i - 1
    BY <2>1, FS_Interval
  <2>3. c <= i - 1
    BY <2>1, <2>2, FS_Subset DEF c
  <2> QED
    BY <2>0, <2>1, <2>3
<1>5. c \in 0..n
  BY <1>2
<1> HIDE DEF c
<1>6. S = 1..c
  BY <1>3, <1>4
<1> QED
  BY <1>5, <1>6 DEF c

LEMMA Joins ==
  ASSUME NEW S, NEW s1 \in Seq(S), NEW s2 \in Seq(S), NEW x, NEW y, Len(s1) = x, Len(s2) = y
  PROVE  /\ s1 \o s2 \in Seq(S) /\ Len(s1 \o s2) = x + y
         /\ \A i \in 1..(x + y) : (s1 \o s2)[i] = IF i <= x THEN s1[i] ELSE s2[i - x]
BY ConcatProperties

\* What insertChar() makes of sorted characters: k of them are smaller.
LEMMA InsertPlaces ==
  ASSUME NEW cs \in Seq(CharType), NEW ch \in CharType, SortedChars(cs)
  PROVE  \E k \in 0..Len(cs) :
           /\ \A i \in 1..Len(cs) : CharLess(cs[i], ch) <=> i <= k
           /\ insertChar(cs, ch) \in Seq(CharType) /\ Len(insertChar(cs, ch)) = Len(cs) + 1
           /\ insertChar(cs, ch)[k + 1] = ch
           /\ \A i \in 1..k : insertChar(cs, ch)[i] = cs[i]
           /\ \A i \in (k + 2)..(Len(cs) + 1) : insertChar(cs, ch)[i] = cs[i - 1]
<1> DEFINE n == Len(cs)
           S == {i \in 1..n : CharLess(cs[i], ch)}
           k == Cardinality(S)
           new == SubSeq(cs, 1, k) \o <<ch>> \o SubSeq(cs, k + 1, n)
<1>1. n \in Nat
  OBVIOUS
<1>2. ASSUME NEW i \in S, NEW j \in 1..i PROVE j \in S
  <2>1. i \in 1..n /\ j \in 1..n /\ cs[i] \in CharType /\ cs[j] \in CharType /\ CharLess(cs[i], ch)
    BY <1>1
  <2>2. CASE j = i
    BY <2>2
  <2>3. CASE j < i
    <3>1. ~CharLess(cs[i], cs[j])
      BY <2>1, <2>3 DEF SortedChars
    <3>2. CharLess(cs[j], ch)
      BY <2>1, <3>1, CharOrder
    <3> QED
      BY <2>1, <3>2
  <2> QED
    BY <2>1, <2>2, <2>3
<1>3. k \in 0..n /\ S = 1..k
  <2>1. S \subseteq 1..n
    OBVIOUS
  <2>2. \A i \in S : \A j \in 1..i : j \in S
    BY <1>2
  <2> HIDE DEF S
  <2> QED
    BY <1>1, <2>1, <2>2, PrefixCount
<1>4. \A i \in 1..n : CharLess(cs[i], ch) <=> i <= k
  <2>1. \A i \in 1..n : CharLess(cs[i], ch) <=> i \in S
    OBVIOUS
  <2> HIDE DEF k, S
  <2> QED
    BY <1>1, <1>3, <2>1
<1>5. insertChar(cs, ch) = new
  BY DEF insertChar
<1> HIDE DEF k, S
<1>6. /\ SubSeq(cs, 1, k) \in Seq(CharType) /\ Len(SubSeq(cs, 1, k)) = k
      /\ \A i \in 1..k : SubSeq(cs, 1, k)[i] = cs[i]
  BY <1>1, <1>3, SubSeqProperties
<1>7. /\ SubSeq(cs, k + 1, n) \in Seq(CharType) /\ Len(SubSeq(cs, k + 1, n)) = n - k
      /\ \A i \in 1..(n - k) : SubSeq(cs, k + 1, n)[i] = cs[k + i]
  BY <1>1, <1>3, SubSeqProperties
<1> DEFINE head == SubSeq(cs, 1, k)
           tail == SubSeq(cs, k + 1, n)
<1> HIDE DEF head, tail
<1>8. /\ head \o <<ch>> \in Seq(CharType) /\ Len(head \o <<ch>>) = k + 1
      /\ \A i \in 1..k : (head \o <<ch>>)[i] = cs[i]
      /\ (head \o <<ch>>)[k + 1] = ch
  BY <1>1, <1>3, <1>6, ConcatProperties DEF head
<1> DEFINE front == head \o <<ch>>
<1> HIDE DEF front
<1>14. /\ front \in Seq(CharType) /\ Len(front) = k + 1
       /\ tail \in Seq(CharType) /\ Len(tail) = n - k /\ k \in Nat /\ n - k \in Nat
  BY <1>1, <1>3, <1>7, <1>8 DEF front, tail
<1> HIDE DEF n
<1>9. /\ front \o tail \in Seq(CharType) /\ Len(front \o tail) = n + 1
      /\ \A i \in 1..(k + 1) : (front \o tail)[i] = front[i]
      /\ \A i \in (k + 2)..(n + 1) : (front \o tail)[i] = tail[i - (k + 1)]
  <2>1. PICK x \in Nat, y \in Nat : x = k + 1 /\ y = n - k
    BY <1>14
  <2>2. Len(front) = x /\ Len(tail) = y /\ x + y = n + 1
    BY <1>1, <1>14, <2>1
  <2>3. /\ front \o tail \in Seq(CharType) /\ Len(front \o tail) = x + y
        /\ \A i \in 1..(x + y) : (front \o tail)[i] = IF i <= x THEN front[i] ELSE tail[i - x]
    <3>1. front \in Seq(CharType) /\ tail \in Seq(CharType)
      BY <1>14
    <3> QED
      BY SMTT(30), <2>2, <3>1, Joins
  <2>4. \A i \in 1..(k + 1) : i \in 1..(n + 1) /\ i <= x
    BY <1>1, <1>3, <2>1
  <2>5. \A i \in (k + 2)..(n + 1) : i \in 1..(n + 1) /\ ~(i <= x)
    BY <1>1, <1>3, <2>1
  <2> QED
    BY <2>1, <2>2, <2>3, <2>4, <2>5
<1>10. new = front \o tail
  BY DEF front, head, tail, n
<1> HIDE DEF new
<1>11. \A i \in 1..k : new[i] = cs[i]
  BY <1>1, <1>3, <1>8, <1>9, <1>10 DEF front
<1>12. new[k + 1] = ch
  BY <1>1, <1>3, <1>8, <1>9, <1>10 DEF front
<1>13. \A i \in (k + 2)..(n + 1) : new[i] = cs[i - 1]
  <2> SUFFICES ASSUME NEW i \in (k + 2)..(n + 1) PROVE new[i] = cs[i - 1]
    OBVIOUS
  <2>1. new[i] = tail[i - (k + 1)]
    BY <1>9, <1>10
  <2>2. i - (k + 1) \in 1..(n - k) /\ k + (i - (k + 1)) = i - 1
    BY <1>1, <1>3
  <2>3. tail[i - (k + 1)] = cs[k + (i - (k + 1))]
    BY <1>7, <2>2 DEF tail
  <2> QED
    BY <2>1, <2>2, <2>3
<1> QED
  BY <1>3, <1>4, <1>5, <1>9, <1>10, <1>11, <1>12, <1>13 DEF n

LEMMA InsertKeeps ==
  ASSUME NEW cs \in Seq(CharType), NEW ch \in CharType, SortedChars(cs)
  PROVE  /\ insertChar(cs, ch) \in Seq(CharType) /\ SortedChars(insertChar(cs, ch))
         /\ ToSet(insertChar(cs, ch)) = ToSet(cs) \cup {ch}
<1> DEFINE n == Len(cs)
           new == insertChar(cs, ch)
<1>1. PICK k \in 0..n :
        /\ \A i \in 1..n : CharLess(cs[i], ch) <=> i <= k
        /\ new \in Seq(CharType) /\ Len(new) = n + 1
        /\ new[k + 1] = ch
        /\ \A i \in 1..k : new[i] = cs[i]
        /\ \A i \in (k + 2)..(n + 1) : new[i] = cs[i - 1]
  BY InsertPlaces
<1>2. n \in Nat /\ k \in Nat /\ k <= n /\ \A i \in 1..n : cs[i] \in CharType
  OBVIOUS
<1>0. \A i, j \in 1..n : i < j => ~CharLess(cs[j], cs[i])
  BY DEF SortedChars
<1> HIDE DEF new, n
<1>3. ASSUME NEW i \in 1..(n + 1), NEW j \in 1..(n + 1), i < j PROVE ~CharLess(new[j], new[i])
  <2>1. CASE j <= k
    <3>1. i \in 1..n /\ j \in 1..n /\ new[i] = cs[i] /\ new[j] = cs[j]
      BY <1>1, <1>2, <1>3, <2>1
    <3> QED
      BY <1>0, <1>3, <3>1
  <2>2. CASE j = k + 1
    <3>1. i \in 1..n /\ i <= k /\ new[i] = cs[i] /\ new[j] = ch
      BY <1>1, <1>2, <1>3, <2>2
    <3>2. CharLess(cs[i], ch)
      BY <1>1, <3>1
    <3>3. cs[i] \in CharType
      BY <1>2, <3>1
    <3> QED
      BY <3>1, <3>2, <3>3, CharOrder
  <2>3. CASE k + 1 < j
    <3>1. j - 1 \in 1..n /\ ~(j - 1 <= k) /\ new[j] = cs[j - 1]
      BY <1>1, <1>2, <1>3, <2>3
    <3>2. CASE i = k + 1
      <4>1. ~CharLess(cs[j - 1], ch)
        BY <1>1, <3>1
      <4> QED
        BY <1>1, <3>1, <3>2, <4>1
    <3>3. CASE i <= k
      <4>1. i \in 1..n /\ i < j - 1 /\ new[i] = cs[i]
        BY <1>1, <1>2, <1>3, <2>3, <3>3
      <4> QED
        BY <1>0, <3>1, <4>1
    <3>4. CASE k + 1 < i
      <4>1. i - 1 \in 1..n /\ i - 1 < j - 1 /\ new[i] = cs[i - 1]
        BY <1>1, <1>2, <1>3, <3>4
      <4> QED
        BY <1>0, <3>1, <4>1
    <3> QED
      BY <1>2, <3>2, <3>3, <3>4
  <2> QED
    BY <1>2, <2>1, <2>2, <2>3
<1>4. SortedChars(new)
  BY <1>1, <1>3 DEF SortedChars
<1>5. DOMAIN new = 1..(n + 1) /\ DOMAIN cs = 1..n
  BY <1>1 DEF n
<1>6. ASSUME NEW x \in ToSet(new) PROVE x \in ToSet(cs) \cup {ch}
  <2>1. PICK i \in 1..(n + 1) : x = new[i]
    BY <1>5, <1>6 DEF ToSet
  <2>2. CASE i = k + 1
    BY <1>1, <2>1, <2>2
  <2>3. CASE i <= k
    <3>1. i \in 1..n /\ x = cs[i]
      BY <1>1, <1>2, <2>1, <2>3
    <3> QED
      BY <1>5, <3>1 DEF ToSet
  <2>4. CASE k + 1 < i
    <3>1. i - 1 \in 1..n /\ x = cs[i - 1]
      BY <1>1, <1>2, <2>1, <2>4
    <3> QED
      BY <1>5, <3>1 DEF ToSet
  <2> QED
    BY <1>2, <2>2, <2>3, <2>4
<1>7. ch \in ToSet(new)
  <2>1. k + 1 \in 1..(n + 1)
    BY <1>2
  <2> QED
    BY <1>1, <1>5, <2>1 DEF ToSet
<1>8. ASSUME NEW x \in ToSet(cs) PROVE x \in ToSet(new)
  <2>1. PICK i \in 1..n : x = cs[i]
    BY <1>5, <1>8 DEF ToSet
  <2>2. CASE i <= k
    <3>1. i \in 1..(n + 1) /\ x = new[i]
      BY <1>1, <1>2, <2>1, <2>2
    <3> QED
      BY <1>5, <3>1 DEF ToSet
  <2>3. CASE k < i
    <3>1. i + 1 \in (k + 2)..(n + 1) /\ i + 1 \in 1..(n + 1) /\ (i + 1) - 1 = i
      BY <1>2, <2>3
    <3>2. new[i + 1] = cs[i]
      BY <1>1, <3>1
    <3> QED
      BY <1>5, <2>1, <3>1, <3>2 DEF ToSet
  <2> QED
    BY <1>2, <2>2, <2>3
<1>9. ToSet(new) = ToSet(cs) \cup {ch}
  BY <1>6, <1>7, <1>8
<1> QED
  BY <1>1, <1>4, <1>9 DEF new

LEMMA RemoveKeeps ==
  ASSUME NEW cs \in Seq(CharType), SortedChars(cs), NEW k \in 1..Len(cs)
  PROVE  RemoveAt(cs, k) \in Seq(CharType) /\ SortedChars(RemoveAt(cs, k))
<1> DEFINE n == Len(cs)
           head == SubSeq(cs, 1, k - 1)
           tail == SubSeq(cs, k + 1, n)
           new == head \o tail
<1>1. n \in Nat /\ k \in 1..n
  OBVIOUS
<1>0. \A i, j \in 1..n : i < j => ~CharLess(cs[j], cs[i])
  BY DEF SortedChars
<1>2. /\ head \in Seq(CharType) /\ Len(head) = k - 1 /\ \A i \in 1..(k - 1) : head[i] = cs[i]
  BY <1>1, SubSeqProperties
<1>3. /\ tail \in Seq(CharType) /\ Len(tail) = n - k /\ \A i \in 1..(n - k) : tail[i] = cs[k + i]
  BY <1>1, SubSeqProperties
<1>4. RemoveAt(cs, k) = new
  BY DEF RemoveAt
<1> HIDE DEF n, head, tail
<1>5. PICK x \in Nat, y \in Nat : x = k - 1 /\ y = n - k
  BY <1>1
<1>6. x + y = n - 1
  BY <1>1, <1>5
<1>7. /\ new \in Seq(CharType) /\ Len(new) = x + y
      /\ \A i \in 1..(x + y) : new[i] = IF i <= x THEN head[i] ELSE tail[i - x]
  <2>1. Len(head) = x /\ Len(tail) = y /\ head \in Seq(CharType) /\ tail \in Seq(CharType)
    BY <1>2, <1>3, <1>5
  <2> QED
    BY <2>1, Joins
<1> HIDE DEF new
<1>8. ASSUME NEW i \in 1..(n - 1)
      PROVE  \/ i < k /\ i \in 1..n /\ new[i] = cs[i]
             \/ k <= i /\ i + 1 \in 1..n /\ new[i] = cs[i + 1]
  <2>1. CASE i < k
    BY <1>1, <1>2, <1>5, <1>6, <1>7, <2>1
  <2>2. CASE k <= i
    <3>1. i - x \in 1..(n - k) /\ k + (i - x) = i + 1 /\ ~(i <= x) /\ i + 1 \in 1..n
      BY <1>1, <1>5, <2>2
    <3>2. new[i] = tail[i - x]
      BY <1>6, <1>7, <3>1
    <3> QED
      BY <1>3, <2>2, <3>1, <3>2
  <2> QED
    BY <1>1, <2>1, <2>2
<1>9. ASSUME NEW i \in 1..(n - 1), NEW j \in 1..(n - 1), i < j PROVE ~CharLess(new[j], new[i])
  <2>1. PICK a \in 1..n, b \in 1..n : a < b /\ new[i] = cs[a] /\ new[j] = cs[b]
    <3>1. CASE j < k
      <4>1. i < k
        BY <1>1, <1>9, <3>1
      <4> QED
        BY <1>1, <1>8, <1>9, <3>1, <4>1
    <3>2. CASE k <= j
      <4>1. j + 1 \in 1..n /\ new[j] = cs[j + 1]
        BY <1>1, <1>8, <3>2
      <4>2. CASE i < k
        BY <1>1, <1>8, <1>9, <4>1, <4>2
      <4>3. CASE k <= i
        BY <1>1, <1>8, <1>9, <4>1, <4>3
      <4> QED
        BY <1>1, <4>2, <4>3
    <3> QED
      BY <1>1, <3>1, <3>2
  <2> QED
    BY <1>0, <2>1
<1>10. Len(new) = n - 1
  BY <1>6, <1>7
<1> QED
  BY <1>4, <1>7, <1>9, <1>10 DEF SortedChars

LEMMA EraseKeeps ==
  ASSUME NEW cs \in Seq(CharType), SortedChars(cs), NEW p
  PROVE  Erase(cs, p) \in Seq(CharType) /\ SortedChars(Erase(cs, p))
<1> DEFINE S == {i \in 1..Len(cs) : cs[i].position = p}
<1>1. S \subseteq Nat /\ S \subseteq 1..Len(cs)
  OBVIOUS
<1>2. Erase(cs, p) = IF S = {} THEN cs ELSE RemoveAt(cs, Min(S))
  BY DEF Erase
<1> HIDE DEF S
<1>3. S # {} => Min(S) \in 1..Len(cs)
  BY <1>1, LeastNat
<1> QED
  BY <1>2, <1>3, RemoveKeeps

\* No two characters compare equal.
StrictChars(cs) == \A i, j \in 1..Len(cs) : i < j => CharLess(cs[i], cs[j])

UpTo(C, c) == {d \in C : d = c \/ CharLess(d, c)}

LEMMA RankIsIndex ==
  ASSUME NEW cs \in Seq(CharType), StrictChars(cs), NEW i \in 1..Len(cs)
  PROVE  Cardinality(UpTo(ToSet(cs), cs[i])) = i
<1> DEFINE n == Len(cs)
           Bef == UpTo(ToSet(cs), cs[i])
           f == [x \in 1..i |-> cs[x]]
<1>1. n \in Nat /\ i \in 1..n /\ i \in Nat /\ DOMAIN cs = 1..n /\ \A x \in 1..n : cs[x] \in CharType
  OBVIOUS
<1>2. \A x, y \in 1..n : x < y => CharLess(cs[x], cs[y])
  BY DEF StrictChars
<1>3. \A x, y \in 1..n : x < y => cs[x] # cs[y] /\ ~CharLess(cs[y], cs[x])
  BY <1>1, <1>2, CharOrder
<1> HIDE DEF n
<1>4. \A x \in 1..i : cs[x] \in Bef
  <2> SUFFICES ASSUME NEW x \in 1..i PROVE cs[x] \in Bef
    OBVIOUS
  <2>1. x \in 1..n /\ (x = i \/ x < i)
    BY <1>1
  <2> QED
    BY <1>1, <1>2, <2>1 DEF UpTo, ToSet
<1>5. \A d \in Bef : \E x \in 1..i : cs[x] = d
  <2> SUFFICES ASSUME NEW d \in Bef PROVE \E x \in 1..i : cs[x] = d
    OBVIOUS
  <2>1. PICK x \in 1..n : d = cs[x] /\ (d = cs[i] \/ CharLess(d, cs[i]))
    BY <1>1 DEF UpTo, ToSet
  <2>2. ~(i < x)
    BY <1>1, <1>3, <2>1
  <2> QED
    BY <1>1, <2>1, <2>2
<1> HIDE DEF Bef
<1>6. \A x, y \in 1..i : cs[x] = cs[y] => x = y
  <2> SUFFICES ASSUME NEW x \in 1..i, NEW y \in 1..i, cs[x] = cs[y] PROVE x = y
    OBVIOUS
  <2>1. x \in 1..n /\ y \in 1..n
    BY <1>1
  <2>2. ~(x < y) /\ ~(y < x)
    BY <1>3, <2>1
  <2> QED
    BY <2>2
<1>7. f \in Bijection(1..i, Bef)
  BY <1>4, <1>5, <1>6 DEF Bijection, Injection, Surjection, IsInjective
<1>8. ExistsBijection(1..i, Bef)
  BY <1>7 DEF ExistsBijection
<1> QED
  BY <1>1, <1>8, FS_CountingElements DEF Bef

LEMMA SameIndex ==
  ASSUME NEW s \in Seq(CharType), NEW t \in Seq(CharType), StrictChars(s), StrictChars(t),
         ToSet(s) = ToSet(t), NEW i \in 1..Len(s)
  PROVE  i \in 1..Len(t) /\ t[i] = s[i]
<1>1. s[i] \in ToSet(t)
  BY DEF ToSet
<1>2. PICK j \in 1..Len(t) : t[j] = s[i]
  BY <1>1 DEF ToSet
<1>3. Cardinality(UpTo(ToSet(s), s[i])) = i
  BY RankIsIndex
<1>4. Cardinality(UpTo(ToSet(t), t[j])) = j
  BY RankIsIndex
<1>5. i = j
  BY <1>2, <1>3, <1>4
<1> QED
  BY <1>2, <1>5

LEMMA SameChars ==
  ASSUME NEW s \in Seq(CharType), NEW t \in Seq(CharType), StrictChars(s), StrictChars(t),
         ToSet(s) = ToSet(t)
  PROVE  s = t
<1>1. Len(s) \in Nat /\ Len(t) \in Nat
  OBVIOUS
<1>2. \A i \in 1..Len(s) : i \in 1..Len(t) /\ t[i] = s[i]
  BY SameIndex
<1>3. \A i \in 1..Len(t) : i \in 1..Len(s)
  BY SameIndex
<1>4. Len(s) = Len(t)
  <2>1. CASE Len(s) < Len(t)
    <3>1. Len(t) \in 1..Len(t)
      BY <1>1, <2>1
    <3> QED
      BY <1>1, <1>3, <2>1, <3>1
  <2>2. CASE Len(t) < Len(s)
    <3>1. Len(s) \in 1..Len(s)
      BY <1>1, <2>2
    <3> QED
      BY <1>1, <1>2, <2>2, <3>1
  <2> QED
    BY <1>1, <2>1, <2>2
<1> QED
  BY <1>2, <1>4, SeqEqual

-----------------------------------------------------------------------------
(* The positions that are generated.                                        *)

LEMMA HalfIsInt == ASSUME NEW n \in Int PROVE Half(n) \in Int /\ n \div 2 \in Int
BY DEF Half

LEMMA OneDigit == ASSUME NEW x \in Int PROVE <<x>> \in Position
BY DEF Position

LEMMA MoreDigits ==
  ASSUME NEW p \in Seq(Int), NEW x \in Int
  PROVE  Append(p, x) \in Position
<1>1. Append(p, x) \in Seq(Int) /\ Len(Append(p, x)) = Len(p) + 1 /\ Len(p) \in Nat
  BY AppendProperties
<1>2. Len(<< >>) = 0
  OBVIOUS
<1> QED
  BY <1>1, <1>2 DEF Position

LEMMA CommonPrefix ==
  ASSUME NEW p \in Seq(Int), NEW q \in Seq(Int)
  PROVE  /\ commonPrefixLen(p, q) \in Nat
         /\ commonPrefixLen(p, q) <= Len(p) /\ commonPrefixLen(p, q) <= Len(q)
         /\ \A j \in 1..commonPrefixLen(p, q) : p[j] = q[j]
<1> DEFINE n == Min({Len(p), Len(q)})
           S == {i \in 1..n : \A j \in 1..i : p[j] = q[j]}
<1>1. n \in Nat /\ n <= Len(p) /\ n <= Len(q) /\ Len(p) \in Nat /\ Len(q) \in Nat
  BY ShorterLength
<1>2. commonPrefixLen(p, q) = Cardinality(S)
  BY DEF commonPrefixLen
<1>3. S \subseteq 1..n
  OBVIOUS
<1>4. \A i \in S : \A j \in 1..i : j \in S
  BY <1>1
<1>5. \A j \in S : p[j] = q[j]
  OBVIOUS
<1> HIDE DEF n, S
<1>6. Cardinality(S) \in 0..n /\ S = 1..Cardinality(S)
  BY <1>1, <1>3, <1>4, PrefixCount
<1> QED
  BY <1>1, <1>2, <1>5, <1>6

LEMMA DigitIsInt ==
  ASSUME NEW p \in Seq(Int), p # << >>
  PROVE  p[1] \in Int /\ Len(p) >= 1
<1>1. Len(p) \in Nat /\ Len(p) # 0
  BY EmptySeq
<1> QED
  BY <1>1

LEMMA LogootPositions ==
  ASSUME NEW p \in Seq(Int), NEW q \in Seq(Int)
  PROVE  generateLogootPosition(p, q) \subseteq Position
<1> SUFFICES ASSUME NEW x \in generateLogootPosition(p, q) PROVE x \in Position
  OBVIOUS
<1> DEFINE k == commonPrefixLen(p, q)
<1>1. k \in Nat /\ k <= Len(p) /\ k <= Len(q) /\ Len(p) \in Nat /\ Len(q) \in Nat
  BY CommonPrefix
<1>2. 1..MaxFirst \subseteq Int /\ Steps \subseteq Int
  BY CrdtAssumption DEF Steps
<1>3. CASE p = << >> /\ q = << >>
  <2>1. PICK r \in 1..MaxFirst : x = <<r>>
    BY <1>3 DEF generateLogootPosition
  <2> QED
    BY <1>2, <2>1, OneDigit
<1>4. CASE p = << >> /\ q # << >>
  <2>1. x = <<Half(q[1])>>
    BY <1>4 DEF generateLogootPosition
  <2> QED
    BY <1>4, <2>1, DigitIsInt, HalfIsInt, OneDigit
<1>5. CASE p # << >> /\ q = << >>
  <2>1. PICK r \in Steps : x = <<p[1] + r>>
    BY <1>5 DEF generateLogootPosition
  <2>2. p[1] + r \in Int
    BY <1>2, <1>5, DigitIsInt
  <2> QED
    BY <2>1, <2>2, OneDigit
<1>6. CASE p # << >> /\ q # << >> /\ p = q
  <2>1. PICK r \in 0..1 : x = Append(p, r)
    BY <1>6 DEF generateLogootPosition
  <2> QED
    BY <2>1, MoreDigits
<1>7. CASE p # << >> /\ q # << >> /\ p # q /\ k = Len(p) /\ k < Len(q)
  <2>1. x = Append(p, Half(q[k + 1]))
    BY <1>1, <1>7 DEF generateLogootPosition
  <2>2. q[k + 1] \in Int
    BY <1>1, <1>7
  <2> QED
    BY <2>1, <2>2, HalfIsInt, MoreDigits
<1>8. CASE p # << >> /\ q # << >> /\ p # q /\ k = Len(q) /\ k < Len(p)
  <2>1. PICK r \in Steps : x = Append(q, r)
    BY <1>1, <1>8 DEF generateLogootPosition
  <2> QED
    BY <1>2, <2>1, MoreDigits
<1>9. CASE p # << >> /\ q # << >> /\ p # q /\ k < Len(p) /\ k < Len(q)
  <2>1. p[k + 1] \in Int /\ q[k + 1] \in Int
    BY <1>1, <1>9
  <2>2. CASE p[k + 1] + 1 < q[k + 1]
    <3>1. PICK r \in 1..(q[k + 1] - p[k + 1] - 1) : x = Append(SubSeq(p, 1, k), p[k + 1] + r)
      BY SMTT(30), <1>1, <1>9, <2>2 DEF generateLogootPosition
    <3>2. SubSeq(p, 1, k) \in Seq(Int)
      BY <1>1, SubSeqProperties
    <3>3. p[k + 1] + r \in Int
      BY <2>1
    <3> QED
      BY <3>1, <3>2, <3>3, MoreDigits
  <2>3. CASE ~(p[k + 1] + 1 < q[k + 1])
    <3>1. PICK r \in Steps : x = Append(p, r)
      BY <1>1, <1>9, <2>3 DEF generateLogootPosition
    <3> QED
      BY <1>2, <3>1, MoreDigits
  <2> QED
    BY <2>2, <2>3
<1>10. CASE p # << >> /\ q # << >> /\ p # q /\ k = Len(p) /\ k = Len(q)
  <2>1. \A j \in 1..Len(p) : p[j] = q[j]
    BY <1>10, CommonPrefix
  <2> QED
    BY <1>10, <2>1, SeqEqual
<1> QED
  BY <1>1, <1>3, <1>4, <1>5, <1>6, <1>7, <1>8, <1>9, <1>10

LEMMA WootPositions ==
  ASSUME NEW p \in Seq(Int), NEW q \in Seq(Int)
  PROVE  generateWootPosition(p, q) \subseteq Position
<1> SUFFICES ASSUME NEW x \in generateWootPosition(p, q) PROVE x \in Position
  OBVIOUS
<1>1. 1..MaxFirst \subseteq Int /\ Steps \subseteq Int
  BY CrdtAssumption DEF Steps
<1>2. CASE p = << >> /\ q = << >>
  <2>1. PICK r \in 1..MaxFirst : x = <<r>>
    BY <1>2 DEF generateWootPosition
  <2> QED
    BY <1>1, <2>1, OneDigit
<1>3. CASE p = << >> /\ q # << >>
  <2>1. PICK r \in Steps : x = <<q[1] - r>>
    BY <1>3 DEF generateWootPosition
  <2>2. q[1] - r \in Int
    BY <1>1, <1>3, DigitIsInt
  <2> QED
    BY <2>1, <2>2, OneDigit
<1>4. CASE p # << >> /\ q = << >>
  <2>1. PICK r \in Steps : x = <<p[1] + r>>
    BY <1>4 DEF generateWootPosition
  <2>2. p[1] + r \in Int
    BY <1>1, <1>4, DigitIsInt
  <2> QED
    BY <2>1, <2>2, OneDigit
<1>5. CASE p # << >> /\ q # << >> /\ p[1] + 1 <= q[1] - 1
  <2>1. PICK r \in (p[1] + 1)..(q[1] - 1) : x = <<r>>
    BY <1>5 DEF generateWootPosition
  <2>2. p[1] \in Int /\ q[1] \in Int
    BY <1>5, DigitIsInt
  <2> QED
    BY <2>1, <2>2, OneDigit
<1>6. CASE p # << >> /\ q # << >> /\ ~(p[1] + 1 <= q[1] - 1)
  <2>1. PICK r \in 1..MaxFirst : x = Append(p, r)
    BY <1>6 DEF generateWootPosition
  <2> QED
    BY <1>1, <2>1, MoreDigits
<1> QED
  BY <1>2, <1>3, <1>4, <1>5, <1>6

LEMMA LseqPositions ==
  ASSUME NEW p \in Seq(Int), NEW q \in Seq(Int)
  PROVE  generateLseqPosition(p, q) \subseteq Position
<1> SUFFICES ASSUME NEW x \in generateLseqPosition(p, q) PROVE x \in Position
  OBVIOUS
<1>1. Steps \subseteq Int /\ Base \div 2 \in Int
  BY CrdtAssumption, HalfIsInt DEF Steps
<1>2. CASE p = << >> /\ q = << >>
  <2>1. x = <<Base \div 2>>
    BY <1>2 DEF generateLseqPosition
  <2> QED
    BY <1>1, <2>1, OneDigit
<1>3. CASE p = << >> /\ q # << >>
  <2>1. x = <<Half(q[1])>>
    BY <1>3 DEF generateLseqPosition
  <2> QED
    BY <1>3, <2>1, DigitIsInt, HalfIsInt, OneDigit
<1>4. CASE p # << >> /\ q = << >>
  <2>1. PICK r \in Steps : x = <<p[1] + r>>
    BY <1>4 DEF generateLseqPosition
  <2>2. p[1] + r \in Int
    BY <1>1, <1>4, DigitIsInt
  <2> QED
    BY <2>1, <2>2, OneDigit
<1>5. CASE p # << >> /\ q # << >> /\ q[1] - p[1] > 1
  <2>1. x = <<p[1] + (q[1] - p[1]) \div 2>>
    BY <1>5 DEF generateLseqPosition
  <2>2. p[1] \in Int /\ q[1] - p[1] \in Int
    BY <1>5, DigitIsInt
  <2>3. (q[1] - p[1]) \div 2 \in Int
    BY <2>2, HalfIsInt
  <2>4. p[1] + (q[1] - p[1]) \div 2 \in Int
    BY <2>2, <2>3
  <2> QED
    BY <2>1, <2>4, OneDigit
<1>6. CASE p # << >> /\ q # << >> /\ ~(q[1] - p[1] > 1)
  <2>1. x = Append(p, Base \div 2)
    BY <1>6 DEF generateLseqPosition
  <2> QED
    BY <1>1, <2>1, MoreDigits
<1> QED
  BY <1>2, <1>3, <1>4, <1>5, <1>6

-----------------------------------------------------------------------------
(* The replicas.                                                            *)

Strategy == {"LOGOOT", "WOOT", "LSEQ"}
InsertOp == [type : {"insert"}, char : CharType]
DeleteOp == [type : {"delete"}, position : Position]
Message == InsertOp \cup DeleteOp
Way == Author \X Author

ReplicaTypes ==
  /\ members \subseteq Author /\ strategy \in Strategy
  /\ chars \in [Author -> Seq(CharType)] /\ inFlight \in [Way -> Seq(Message)]
  /\ seen \in [Author -> SUBSET CharType] /\ deletes \in Nat

\* The insert of ch is on its way.
Within(ch, s) == \E i \in 1..Len(s) : s[i].type = "insert" /\ s[i].char = ch
Underway(ch, w) == Within(ch, inFlight[w])

\* What is on its way, and what a replica has, is what its author has.
ComesFromAuthor ==
  /\ \A a \in Author : \A ch \in seen[a] : ch.author \in members /\ ch \in seen[ch.author]
  /\ \A a, b \in Author : \A ch : Underway(ch, <<a, b>>) => ch.author = a /\ a \in members /\ ch \in seen[a]

\* What an author inserted has arrived or is on its way.
NothingLost ==
  \A a, b \in members : \A ch \in seen[a] : ch.author = a => ch \in seen[b] \/ Underway(ch, <<a, b>>)

\* Without a delete a replica has what it ever had.
NothingDeleted ==
  deletes = 0 =>
    /\ \A a \in Author : ToSet(chars[a]) = seen[a]
    /\ \A w \in Way : \A i \in 1..Len(inFlight[w]) : inFlight[w][i].type = "insert"

ReplicaInv ==
  /\ ReplicaTypes /\ \A a \in Author : SortedChars(chars[a])
  /\ ComesFromAuthor /\ NothingLost /\ NothingDeleted

LEMMA ReplicasStart == CrdtInit => ReplicaInv
<1> SUFFICES ASSUME CrdtInit PROVE ReplicaInv
  OBVIOUS
<1>1. Len(<< >>) = 0 /\ ToSet(<< >>) = {}
  BY DEF ToSet
<1>2. ReplicaTypes
  <2>1. chars \in [Author -> Seq(CharType)] /\ seen \in [Author -> SUBSET CharType]
    BY DEF CrdtInit
  <2>2. inFlight \in [Way -> Seq(Message)]
    BY DEF CrdtInit, Way
  <2> QED
    BY <2>1, <2>2 DEF ReplicaTypes, CrdtInit, Strategy
<1>3. \A w \in Way : \A i \in 1..Len(inFlight[w]) : FALSE
  BY <1>1 DEF CrdtInit, Way
<1>4. \A a, b \in Author : <<a, b>> \in Way
  BY DEF Way
<1>5. ComesFromAuthor /\ NothingLost
  BY <1>3, <1>4 DEF ComesFromAuthor, NothingLost, Underway, Within, CrdtInit
<1>6. NothingDeleted
  BY <1>1, <1>3 DEF NothingDeleted, CrdtInit
<1>7. \A a \in Author : SortedChars(chars[a])
  BY <1>1 DEF SortedChars, CrdtInit
<1> QED
  BY <1>2, <1>5, <1>6, <1>7 DEF ReplicaInv

LEMMA WithinAppend ==
  ASSUME NEW s \in Seq(Message), NEW op \in Message, NEW ch
  PROVE  /\ Within(ch, Append(s, op)) <=> Within(ch, s) \/ (op.type = "insert" /\ op.char = ch)
         /\ (\A i \in 1..Len(s) : s[i].type = "insert") /\ op.type = "insert" =>
              \A i \in 1..Len(Append(s, op)) : Append(s, op)[i].type = "insert"
<1> DEFINE n == Len(s)
           t == Append(s, op)
<1>1. n \in Nat /\ Len(t) = n + 1 /\ t[n + 1] = op /\ \A i \in 1..n : t[i] = s[i]
  BY AppendProperties
<1>2. \A i \in 1..(n + 1) : i \in 1..n \/ i = n + 1
  BY <1>1
<1>3. n + 1 \in 1..(n + 1) /\ \A i \in 1..n : i \in 1..(n + 1)
  BY <1>1
<1> HIDE DEF t
<1>4. Within(ch, t) <=> Within(ch, s) \/ (op.type = "insert" /\ op.char = ch)
  BY <1>1, <1>2, <1>3 DEF Within
<1>5. (\A i \in 1..Len(s) : s[i].type = "insert") /\ op.type = "insert" =>
        \A i \in 1..Len(t) : t[i].type = "insert"
  BY <1>1, <1>2
<1> QED
  BY <1>4, <1>5 DEF t

LEMMA WithinTail ==
  ASSUME NEW s \in Seq(Message), s # << >>, NEW ch
  PROVE  /\ Head(s) \in Message /\ Tail(s) \in Seq(Message)
         /\ Within(ch, s) <=> Within(ch, Tail(s)) \/ (Head(s).type = "insert" /\ Head(s).char = ch)
         /\ Head(s).type = "insert" \/ \E i \in 1..Len(s) : s[i].type # "insert"
         /\ (\A i \in 1..Len(s) : s[i].type = "insert") =>
              \A i \in 1..Len(Tail(s)) : Tail(s)[i].type = "insert"
<1> DEFINE n == Len(s)
           t == Tail(s)
<1>1. n \in Nat /\ n # 0
  BY EmptySeq
<1>2. /\ Head(s) \in Message /\ Head(s) = s[1]
      /\ t \in Seq(Message) /\ Len(t) = n - 1 /\ \A i \in 1..(n - 1) : t[i] = s[i + 1]
  BY <1>1, HeadTailProperties
<1>3. /\ 1 \in 1..n /\ \A i \in 1..(n - 1) : i + 1 \in 1..n
      /\ \A i \in 1..n : i = 1 \/ (i - 1 \in 1..(n - 1) /\ (i - 1) + 1 = i)
  BY <1>1
<1> HIDE DEF t, n
<1>4. Within(ch, s) <=> Within(ch, t) \/ (Head(s).type = "insert" /\ Head(s).char = ch)
  <2>1. ASSUME NEW i \in 1..n, s[i].type = "insert", s[i].char = ch
        PROVE  Within(ch, t) \/ (Head(s).type = "insert" /\ Head(s).char = ch)
    <3>1. CASE i = 1
      BY <1>2, <2>1, <3>1
    <3>2. CASE i - 1 \in 1..(n - 1) /\ (i - 1) + 1 = i
      BY <1>2, <2>1, <3>2 DEF Within
    <3> QED
      BY <1>3, <3>1, <3>2
  <2>2. ASSUME NEW i \in 1..(n - 1), t[i].type = "insert", t[i].char = ch PROVE Within(ch, s)
    BY <1>2, <1>3, <2>2 DEF Within, n
  <2>3. Head(s).type = "insert" /\ Head(s).char = ch => Within(ch, s)
    BY <1>2, <1>3 DEF Within, n
  <2> QED
    BY <1>2, <2>1, <2>2, <2>3 DEF Within, n
<1>5. Head(s).type = "insert" \/ \E i \in 1..n : s[i].type # "insert"
  BY <1>2, <1>3
<1>6. (\A i \in 1..n : s[i].type = "insert") => \A i \in 1..Len(t) : t[i].type = "insert"
  BY <1>2, <1>3
<1> QED
  BY <1>2, <1>4, <1>5, <1>6 DEF t, n

LEMMA BroadcastSends ==
  ASSUME ReplicaTypes, NEW a \in Author, NEW op \in Message, Broadcast(a, op)
  PROVE  /\ inFlight' \in [Way -> Seq(Message)]
         /\ \A x, y \in Author :
              inFlight'[<<x, y>>] = IF x = a /\ y \in members \ {a}
                                    THEN Append(inFlight[<<x, y>>], op) ELSE inFlight[<<x, y>>]
<1>1. inFlight' = [p \in Way |-> IF p[1] = a /\ p[2] \in members \ {a} THEN Append(inFlight[p], op)
                                 ELSE inFlight[p]]
  BY DEF Broadcast, Way
<1>2. \A p \in Way : inFlight[p] \in Seq(Message) /\ Append(inFlight[p], op) \in Seq(Message)
  BY AppendProperties DEF ReplicaTypes
<1>3. \A x, y \in Author : <<x, y>> \in Way /\ <<x, y>>[1] = x /\ <<x, y>>[2] = y
  BY DEF Way
<1> QED
  BY <1>1, <1>2, <1>3

LEMMA InsertedHere ==
  ASSUME ReplicaInv, NEW a \in members, NEW ch \in CharType, ch.author = a,
         chars' = [chars EXCEPT ![a] = insertChar(chars[a], ch)],
         Broadcast(a, [type |-> "insert", char |-> ch]),
         seen' = [seen EXCEPT ![a] = seen[a] \cup {ch}],
         members' = members, strategy' = strategy, deletes' = deletes
  PROVE  ReplicaInv'
<1> DEFINE op == [type |-> "insert", char |-> ch]
<1>0. ReplicaTypes /\ (\A b \in Author : SortedChars(chars[b])) /\ ComesFromAuthor /\ NothingLost /\ NothingDeleted
  BY DEF ReplicaInv
<1>1. a \in Author /\ op \in Message /\ op.type = "insert" /\ op.char = ch
  BY <1>0 DEF ReplicaTypes, Message, InsertOp
<1>2. /\ inFlight' \in [Way -> Seq(Message)]
      /\ \A x, y \in Author :
           inFlight'[<<x, y>>] = IF x = a /\ y \in members \ {a}
                                 THEN Append(inFlight[<<x, y>>], op) ELSE inFlight[<<x, y>>]
  BY <1>0, <1>1, BroadcastSends
<1>3. \A x, y \in Author : <<x, y>> \in Way /\ inFlight[<<x, y>>] \in Seq(Message)
  BY <1>0 DEF ReplicaTypes, Way
<1> HIDE DEF op
<1>4. \A x, y \in Author : \A c :
        Underway(c, <<x, y>>)' <=>
          Underway(c, <<x, y>>) \/ (x = a /\ y \in members \ {a} /\ c = ch)
  BY <1>1, <1>2, <1>3, WithinAppend DEF Underway
<1>5. \A b \in Author : seen'[b] = IF b = a THEN seen[a] \cup {ch} ELSE seen[b]
  BY <1>0, <1>1 DEF ReplicaTypes
<1>6. \A b \in Author : chars'[b] = IF b = a THEN insertChar(chars[a], ch) ELSE chars[b]
  BY <1>0, <1>1 DEF ReplicaTypes
<1>7. /\ insertChar(chars[a], ch) \in Seq(CharType) /\ SortedChars(insertChar(chars[a], ch))
      /\ ToSet(insertChar(chars[a], ch)) = ToSet(chars[a]) \cup {ch}
  BY <1>0, <1>1, InsertKeeps DEF ReplicaTypes
<1>8. ReplicaTypes'
  <2>1. chars' \in [Author -> Seq(CharType)]
    BY <1>0, <1>7 DEF ReplicaTypes
  <2>2. seen' \in [Author -> SUBSET CharType]
    BY <1>0 DEF ReplicaTypes
  <2> QED
    BY <1>0, <1>2, <2>1, <2>2 DEF ReplicaTypes
<1>9. \A b \in Author : SortedChars(chars'[b])
  BY <1>0, <1>6, <1>7
<1>10. ComesFromAuthor'
  <2>0. members \subseteq Author /\ \A b \in Author : \A c \in seen[b] : c.author \in Author
    BY <1>0 DEF ReplicaTypes, CharType
  <2>1. \A b \in Author : \A c \in seen'[b] : c.author \in members /\ c \in seen'[c.author]
    BY <1>0, <1>1, <1>5, <2>0 DEF ComesFromAuthor
  <2>2. \A x, y \in Author : \A c :
          Underway(c, <<x, y>>)' => c.author = x /\ x \in members /\ c \in seen'[x]
    BY <1>0, <1>1, <1>4, <1>5 DEF ComesFromAuthor
  <2> QED
    BY <2>1, <2>2 DEF ComesFromAuthor
<1>11. NothingLost'
  <2> SUFFICES ASSUME NEW x \in members, NEW y \in members, NEW c \in seen'[x], c.author = x
               PROVE  c \in seen'[y] \/ Underway(c, <<x, y>>)'
    BY DEF NothingLost
  <2>0. x \in Author /\ y \in Author
    BY <1>0 DEF ReplicaTypes
  <2>1. CASE c \in seen[x]
    BY <1>0, <1>4, <1>5, <2>0, <2>1 DEF NothingLost
  <2>2. CASE c \notin seen[x]
    <3>1. x = a /\ c = ch
      BY <1>5, <2>0, <2>2
    <3> QED
      BY <1>4, <1>5, <2>0, <3>1
  <2> QED
    BY <2>1, <2>2
<1>12. NothingDeleted'
  <2> SUFFICES ASSUME deletes = 0
               PROVE  /\ \A b \in Author : ToSet(chars'[b]) = seen'[b]
                      /\ \A w \in Way : \A i \in 1..Len(inFlight'[w]) : inFlight'[w][i].type = "insert"
    BY DEF NothingDeleted
  <2>1. /\ \A b \in Author : ToSet(chars[b]) = seen[b]
        /\ \A w \in Way : \A i \in 1..Len(inFlight[w]) : inFlight[w][i].type = "insert"
    BY <1>0 DEF NothingDeleted
  <2>2. \A b \in Author : ToSet(chars'[b]) = seen'[b]
    BY <1>1, <1>5, <1>6, <1>7, <2>1
  <2>3. \A x, y \in Author : \A i \in 1..Len(inFlight'[<<x, y>>]) : inFlight'[<<x, y>>][i].type = "insert"
    <3> SUFFICES ASSUME NEW x \in Author, NEW y \in Author
                 PROVE  \A i \in 1..Len(inFlight'[<<x, y>>]) : inFlight'[<<x, y>>][i].type = "insert"
      OBVIOUS
    <3>1. \A i \in 1..Len(inFlight[<<x, y>>]) : inFlight[<<x, y>>][i].type = "insert"
      BY <1>3, <2>1
    <3>2. \A i \in 1..Len(Append(inFlight[<<x, y>>], op)) : Append(inFlight[<<x, y>>], op)[i].type = "insert"
      BY <1>1, <1>3, <3>1, WithinAppend
    <3>3. inFlight'[<<x, y>>] = inFlight[<<x, y>>] \/ inFlight'[<<x, y>>] = Append(inFlight[<<x, y>>], op)
      BY <1>2
    <3> QED
      BY <3>1, <3>2, <3>3
  <2>4. ASSUME NEW w \in Way, NEW i \in 1..Len(inFlight'[w]) PROVE inFlight'[w][i].type = "insert"
    <3>1. PICK x \in Author, y \in Author : w = <<x, y>>
      BY DEF Way
    <3>2. i \in 1..Len(inFlight'[<<x, y>>])
      BY <3>1
    <3>3. inFlight'[<<x, y>>][i].type = "insert"
      BY <2>3, <3>2
    <3> QED
      BY <3>1, <3>3
  <2> QED
    BY <2>2, <2>4
<1> QED
  BY <1>8, <1>9, <1>10, <1>11, <1>12 DEF ReplicaInv

LEMMA LocalInsertKept ==
  ASSUME ReplicaInv, NEW a \in members, NEW v \in Values, NEW index, localInsert(a, v, index)
  PROVE  ReplicaInv'
<1> DEFINE cs == chars[a]
           p1 == PositionAt(cs, index)
           p2 == PositionAt(cs, index + 1)
<1>0. a \in Author /\ strategy \in Strategy /\ cs \in Seq(CharType)
  BY DEF ReplicaInv, ReplicaTypes
<1>1. p1 \in Seq(Int) /\ p2 \in Seq(Int)
  <2>0. \A c \in CharType : c.position \in Seq(Int)
    BY DEF CharType, Position
  <2>1. \A i \in 1..Len(cs) : cs[i].position \in Seq(Int)
    <3> HIDE DEF cs
    <3>1. \A i \in 1..Len(cs) : cs[i] \in CharType
      BY <1>0, ElementOfSeq
    <3> QED
      BY <2>0, <3>1
  <2>2. << >> \in Seq(Int)
    OBVIOUS
  <2> QED
    BY <2>1, <2>2 DEF PositionAt
<1> HIDE DEF p1, p2
<1>2. generatePositionBetween(p1, p2) \subseteq Position
  <2>1. \/ generatePositionBetween(p1, p2) = generateLogootPosition(p1, p2)
        \/ generatePositionBetween(p1, p2) = generateWootPosition(p1, p2)
        \/ generatePositionBetween(p1, p2) = generateLseqPosition(p1, p2)
    BY <1>0 DEF generatePositionBetween, Strategy
  <2> QED
    BY <1>1, <2>1, LogootPositions, WootPositions, LseqPositions
<1>3. PICK p \in generatePositionBetween(p1, p2), t \in Timestamps :
        /\ chars' = [chars EXCEPT ![a] = insertChar(chars[a], [value |-> v, author |-> a, position |-> p, timestamp |-> t])]
        /\ Broadcast(a, [type |-> "insert", char |-> [value |-> v, author |-> a, position |-> p, timestamp |-> t]])
        /\ seen' = [seen EXCEPT ![a] = seen[a] \cup {[value |-> v, author |-> a, position |-> p, timestamp |-> t]}]
  BY DEF localInsert, p1, p2
<1>4. members' = members /\ strategy' = strategy /\ deletes' = deletes
  BY DEF localInsert
<1> DEFINE ch == [value |-> v, author |-> a, position |-> p, timestamp |-> t]
<1>5. ch \in CharType /\ ch.author = a
  BY <1>0, <1>2 DEF CharType
<1>6. /\ chars' = [chars EXCEPT ![a] = insertChar(chars[a], ch)]
      /\ Broadcast(a, [type |-> "insert", char |-> ch])
      /\ seen' = [seen EXCEPT ![a] = seen[a] \cup {ch}]
  BY <1>3
<1> HIDE DEF ch
<1> QED
  BY <1>4, <1>5, <1>6, InsertedHere

LEMMA LocalDeleteKept ==
  ASSUME ReplicaInv, NEW a \in members, NEW index \in Nat, localDelete(a, index)
  PROVE  ReplicaInv'
<1> DEFINE k == index + 1
           op == [type |-> "delete", position |-> chars[a][k].position]
<1>0. ReplicaTypes /\ (\A b \in Author : SortedChars(chars[b])) /\ ComesFromAuthor /\ NothingLost
  BY DEF ReplicaInv
<1>1. /\ index < Len(chars[a]) /\ Broadcast(a, op)
      /\ chars' = [chars EXCEPT ![a] = RemoveAt(chars[a], k)]
      /\ deletes' = deletes + 1 /\ members' = members /\ strategy' = strategy /\ seen' = seen
  BY DEF localDelete
<1>2. a \in Author /\ chars[a] \in Seq(CharType) /\ k \in 1..Len(chars[a])
  BY <1>0, <1>1 DEF ReplicaTypes
<1>3. op \in Message /\ op.type # "insert"
  <2>0. \A c \in CharType : c.position \in Position
    BY DEF CharType
  <2>1. chars[a][k].position \in Position
    <3> HIDE DEF k
    <3>1. chars[a][k] \in CharType
      BY <1>2, ElementOfSeq
    <3> QED
      BY <2>0, <3>1
  <2> QED
    BY <2>1 DEF Message, DeleteOp
<1> HIDE DEF op, k
<1>4. /\ inFlight' \in [Way -> Seq(Message)]
      /\ \A x, y \in Author :
           inFlight'[<<x, y>>] = IF x = a /\ y \in members \ {a}
                                 THEN Append(inFlight[<<x, y>>], op) ELSE inFlight[<<x, y>>]
  BY <1>0, <1>1, <1>2, <1>3, BroadcastSends
<1>5. \A x, y \in Author : <<x, y>> \in Way /\ inFlight[<<x, y>>] \in Seq(Message)
  BY <1>0 DEF ReplicaTypes, Way
<1>6. \A x, y \in Author : \A c : Underway(c, <<x, y>>)' <=> Underway(c, <<x, y>>)
  BY <1>3, <1>4, <1>5, WithinAppend DEF Underway
<1>7. RemoveAt(chars[a], k) \in Seq(CharType) /\ SortedChars(RemoveAt(chars[a], k))
  BY <1>0, <1>2, RemoveKeeps
<1>8. ReplicaTypes'
  <2>1. chars' \in [Author -> Seq(CharType)] /\ deletes' \in Nat
    BY <1>0, <1>1, <1>7 DEF ReplicaTypes
  <2> QED
    BY <1>0, <1>1, <1>4, <2>1 DEF ReplicaTypes
<1>9. \A b \in Author : SortedChars(chars'[b])
  BY <1>0, <1>1, <1>2, <1>7 DEF ReplicaTypes
<1>10. ComesFromAuthor' /\ NothingLost'
  BY <1>0, <1>1, <1>6 DEF ComesFromAuthor, NothingLost, ReplicaTypes
<1>11. NothingDeleted'
  BY <1>0, <1>1 DEF NothingDeleted, ReplicaTypes
<1> QED
  BY <1>8, <1>9, <1>10, <1>11 DEF ReplicaInv

\* What both handlers of a remote operation do: b takes the head of what
\* comes from a.
LEMMA Taken ==
  ASSUME ReplicaTypes, NEW a \in Author, NEW b \in Author, inFlight[<<a, b>>] # << >>,
         inFlight' = [inFlight EXCEPT ![<<a, b>>] = Tail(inFlight[<<a, b>>])]
  PROVE  /\ Head(inFlight[<<a, b>>]) \in Message /\ inFlight' \in [Way -> Seq(Message)]
         /\ \A x, y \in Author : \A c :
              /\ Underway(c, <<x, y>>)' => Underway(c, <<x, y>>)
              /\ Underway(c, <<x, y>>) =>
                   \/ Underway(c, <<x, y>>)'
                   \/ /\ x = a /\ y = b
                      /\ Head(inFlight[<<a, b>>]).type = "insert" /\ Head(inFlight[<<a, b>>]).char = c
         /\ (\A w \in Way : \A i \in 1..Len(inFlight[w]) : inFlight[w][i].type = "insert") =>
              /\ Head(inFlight[<<a, b>>]).type = "insert"
              /\ \A w \in Way : \A i \in 1..Len(inFlight'[w]) : inFlight'[w][i].type = "insert"
         /\ \A c : Head(inFlight[<<a, b>>]).type = "insert" /\ Head(inFlight[<<a, b>>]).char = c =>
                     Underway(c, <<a, b>>)
<1> DEFINE w0 == <<a, b>>
<1>1. w0 \in Way /\ inFlight[w0] \in Seq(Message) /\ \A x, y \in Author : <<x, y>> \in Way
  BY DEF ReplicaTypes, Way
<1>2. /\ Head(inFlight[w0]) \in Message /\ Tail(inFlight[w0]) \in Seq(Message)
      /\ \A c : Within(c, inFlight[w0]) <=>
                  \/ Within(c, Tail(inFlight[w0]))
                  \/ Head(inFlight[w0]).type = "insert" /\ Head(inFlight[w0]).char = c
      /\ Head(inFlight[w0]).type = "insert" \/ \E i \in 1..Len(inFlight[w0]) : inFlight[w0][i].type # "insert"
      /\ (\A i \in 1..Len(inFlight[w0]) : inFlight[w0][i].type = "insert") =>
           \A i \in 1..Len(Tail(inFlight[w0])) : Tail(inFlight[w0])[i].type = "insert"
  BY <1>1, WithinTail
<1>3. inFlight' \in [Way -> Seq(Message)] /\ \A w \in Way : inFlight'[w] = IF w = w0 THEN Tail(inFlight[w0]) ELSE inFlight[w]
  BY <1>1, <1>2 DEF ReplicaTypes
<1>4. \A x, y \in Author : <<x, y>> = w0 => x = a /\ y = b
  OBVIOUS
<1>5. \A x, y \in Author : \A c :
        /\ Underway(c, <<x, y>>)' => Underway(c, <<x, y>>)
        /\ Underway(c, <<x, y>>) =>
             \/ Underway(c, <<x, y>>)'
             \/ x = a /\ y = b /\ Head(inFlight[w0]).type = "insert" /\ Head(inFlight[w0]).char = c
  <2> SUFFICES ASSUME NEW x \in Author, NEW y \in Author, NEW c
               PROVE  /\ Underway(c, <<x, y>>)' => Underway(c, <<x, y>>)
                      /\ Underway(c, <<x, y>>) =>
                           \/ Underway(c, <<x, y>>)'
                           \/ x = a /\ y = b /\ Head(inFlight[w0]).type = "insert" /\ Head(inFlight[w0]).char = c
    OBVIOUS
  <2>1. CASE <<x, y>> # w0
    <3>1. inFlight'[<<x, y>>] = inFlight[<<x, y>>]
      BY <1>1, <1>3, <2>1
    <3> QED
      BY <3>1 DEF Underway
  <2>2. CASE <<x, y>> = w0
    <3>1. inFlight'[w0] = Tail(inFlight[w0])
      BY <1>1, <1>3
    <3> HIDE DEF w0
    <3> QED
      BY <1>2, <1>4, <2>2, <3>1 DEF Underway
  <2> QED
    BY <2>1, <2>2
<1>6. (\A w \in Way : \A i \in 1..Len(inFlight[w]) : inFlight[w][i].type = "insert") =>
        /\ Head(inFlight[w0]).type = "insert"
        /\ \A w \in Way : \A i \in 1..Len(inFlight'[w]) : inFlight'[w][i].type = "insert"
  <2> HIDE DEF w0
  <2> QED
    BY <1>1, <1>2, <1>3
<1>7. \A c : Head(inFlight[w0]).type = "insert" /\ Head(inFlight[w0]).char = c => Underway(c, w0)
  BY <1>2 DEF Underway
<1> QED
  BY <1>2, <1>3, <1>5, <1>6, <1>7

LEMMA RemoteInsertKept ==
  ASSUME ReplicaInv, NEW a \in members, NEW b \in members, remoteInsert(a, b)
  PROVE  ReplicaInv'
<1> DEFINE ch == Head(inFlight[<<a, b>>]).char
<1>0. ReplicaTypes /\ (\A x \in Author : SortedChars(chars[x])) /\ ComesFromAuthor /\ NothingLost /\ NothingDeleted
  BY DEF ReplicaInv
<1>1. /\ inFlight[<<a, b>>] # << >> /\ Head(inFlight[<<a, b>>]).type = "insert"
      /\ chars' = [chars EXCEPT ![b] = insertChar(chars[b], ch)]
      /\ seen' = [seen EXCEPT ![b] = seen[b] \cup {ch}]
      /\ inFlight' = [inFlight EXCEPT ![<<a, b>>] = Tail(inFlight[<<a, b>>])]
      /\ members' = members /\ strategy' = strategy /\ deletes' = deletes
  BY DEF remoteInsert
<1>2. a \in Author /\ b \in Author
  BY <1>0 DEF ReplicaTypes
<1>3. /\ Head(inFlight[<<a, b>>]) \in Message /\ inFlight' \in [Way -> Seq(Message)]
      /\ \A x, y \in Author : \A c :
           /\ Underway(c, <<x, y>>)' => Underway(c, <<x, y>>)
           /\ Underway(c, <<x, y>>) => Underway(c, <<x, y>>)' \/ (x = a /\ y = b /\ ch = c)
      /\ (\A w \in Way : \A i \in 1..Len(inFlight[w]) : inFlight[w][i].type = "insert") =>
           \A w \in Way : \A i \in 1..Len(inFlight'[w]) : inFlight'[w][i].type = "insert"
      /\ Underway(ch, <<a, b>>)
  <2> HIDE DEF ch
  <2>1. ch = Head(inFlight[<<a, b>>]).char
    BY DEF ch
  <2>2. /\ Head(inFlight[<<a, b>>]) \in Message /\ inFlight' \in [Way -> Seq(Message)]
        /\ (\A w \in Way : \A i \in 1..Len(inFlight[w]) : inFlight[w][i].type = "insert") =>
             \A w \in Way : \A i \in 1..Len(inFlight'[w]) : inFlight'[w][i].type = "insert"
    BY <1>0, <1>1, <1>2, Taken
  <2>3. Underway(ch, <<a, b>>)
    BY ZenonT(30), <1>0, <1>1, <1>2, <2>1, Taken
  <2>4. \A x, y \in Author : \A c :
           /\ Underway(c, <<x, y>>)' => Underway(c, <<x, y>>)
           /\ Underway(c, <<x, y>>) => Underway(c, <<x, y>>)' \/ (x = a /\ y = b /\ ch = c)
    <3>1. \A x, y \in Author : \A c :
            /\ Underway(c, <<x, y>>)' => Underway(c, <<x, y>>)
            /\ Underway(c, <<x, y>>) =>
                 \/ Underway(c, <<x, y>>)'
                 \/ /\ x = a /\ y = b
                    /\ Head(inFlight[<<a, b>>]).type = "insert" /\ Head(inFlight[<<a, b>>]).char = c
      BY ZenonT(30), <1>0, <1>1, <1>2, Taken
    <3> QED
      BY <2>1, <3>1
  <2> QED
    BY <2>2, <2>3, <2>4
<1>4. ch \in CharType
  BY <1>1, <1>3 DEF Message, InsertOp, DeleteOp
<1> HIDE DEF ch
<1>5. ch.author = a /\ ch \in seen[a]
  BY <1>0, <1>2, <1>3 DEF ComesFromAuthor
<1>6. \A x \in Author : seen'[x] = IF x = b THEN seen[b] \cup {ch} ELSE seen[x]
  BY <1>0, <1>1, <1>2 DEF ReplicaTypes
<1>7. \A x \in Author : chars'[x] = IF x = b THEN insertChar(chars[b], ch) ELSE chars[x]
  BY <1>0, <1>1, <1>2 DEF ReplicaTypes
<1>8. /\ insertChar(chars[b], ch) \in Seq(CharType) /\ SortedChars(insertChar(chars[b], ch))
      /\ ToSet(insertChar(chars[b], ch)) = ToSet(chars[b]) \cup {ch}
  BY <1>0, <1>2, <1>4, InsertKeeps DEF ReplicaTypes
<1>9. ReplicaTypes'
  <2>1. chars' \in [Author -> Seq(CharType)]
    BY <1>0, <1>1, <1>8 DEF ReplicaTypes
  <2>2. seen' \in [Author -> SUBSET CharType]
    BY <1>0, <1>1, <1>4 DEF ReplicaTypes
  <2> QED
    BY <1>0, <1>1, <1>3, <2>1, <2>2 DEF ReplicaTypes
<1>10. \A x \in Author : SortedChars(chars'[x])
  BY <1>0, <1>7, <1>8
<1>11. ComesFromAuthor'
  <2>0. members \subseteq Author /\ \A x \in Author : \A c \in seen[x] : c.author \in Author
    BY <1>0 DEF ReplicaTypes, CharType
  <2>1. \A x \in Author : \A c \in seen'[x] : c.author \in members /\ c \in seen'[c.author]
    BY <1>0, <1>2, <1>5, <1>6, <2>0 DEF ComesFromAuthor
  <2>2. \A x, y \in Author : \A c :
          Underway(c, <<x, y>>)' => c.author = x /\ x \in members /\ c \in seen'[x]
    BY <1>0, <1>3, <1>6 DEF ComesFromAuthor
  <2> QED
    BY <1>1, <2>1, <2>2 DEF ComesFromAuthor
<1>12. NothingLost'
  <2> SUFFICES ASSUME NEW x \in members, NEW y \in members, NEW c \in seen'[x], c.author = x
               PROVE  c \in seen'[y] \/ Underway(c, <<x, y>>)'
    BY <1>1 DEF NothingLost
  <2>0. x \in Author /\ y \in Author
    BY <1>0 DEF ReplicaTypes
  <2>1. c \in seen[x]
    BY <1>5, <1>6, <2>0
  <2>2. c \in seen[y] \/ Underway(c, <<x, y>>)
    BY <1>0, <2>1 DEF NothingLost
  <2> QED
    BY <1>3, <1>6, <2>0, <2>2
<1>13. NothingDeleted'
  <2> SUFFICES ASSUME deletes = 0
               PROVE  /\ \A x \in Author : ToSet(chars'[x]) = seen'[x]
                      /\ \A w \in Way : \A i \in 1..Len(inFlight'[w]) : inFlight'[w][i].type = "insert"
    BY <1>1 DEF NothingDeleted
  <2>1. /\ \A x \in Author : ToSet(chars[x]) = seen[x]
        /\ \A w \in Way : \A i \in 1..Len(inFlight[w]) : inFlight[w][i].type = "insert"
    BY <1>0 DEF NothingDeleted
  <2>2. \A x \in Author : ToSet(chars'[x]) = seen'[x]
    BY <1>2, <1>6, <1>7, <1>8, <2>1
  <2> QED
    BY <1>3, <2>1, <2>2
<1> QED
  BY <1>9, <1>10, <1>11, <1>12, <1>13 DEF ReplicaInv

LEMMA RemoteDeleteKept ==
  ASSUME ReplicaInv, NEW a \in members, NEW b \in members, remoteDelete(a, b)
  PROVE  ReplicaInv'
<1> DEFINE pos == Head(inFlight[<<a, b>>]).position
<1>0. ReplicaTypes /\ (\A x \in Author : SortedChars(chars[x])) /\ ComesFromAuthor /\ NothingLost /\ NothingDeleted
  BY DEF ReplicaInv
<1>1. /\ inFlight[<<a, b>>] # << >> /\ Head(inFlight[<<a, b>>]).type = "delete"
      /\ chars' = [chars EXCEPT ![b] = Erase(chars[b], pos)]
      /\ inFlight' = [inFlight EXCEPT ![<<a, b>>] = Tail(inFlight[<<a, b>>])]
      /\ members' = members /\ strategy' = strategy /\ deletes' = deletes /\ seen' = seen
  BY DEF remoteDelete
<1>2. a \in Author /\ b \in Author /\ Head(inFlight[<<a, b>>]).type # "insert"
  BY <1>0, <1>1 DEF ReplicaTypes
<1> HIDE DEF pos
<1>3. /\ inFlight' \in [Way -> Seq(Message)]
      /\ \A x, y \in Author : \A c : Underway(c, <<x, y>>)' <=> Underway(c, <<x, y>>)
      /\ ~ \A w \in Way : \A i \in 1..Len(inFlight[w]) : inFlight[w][i].type = "insert"
  BY <1>0, <1>1, <1>2, Taken
<1>4. Erase(chars[b], pos) \in Seq(CharType) /\ SortedChars(Erase(chars[b], pos))
  BY <1>0, <1>2, EraseKeeps DEF ReplicaTypes
<1>5. ReplicaTypes'
  <2>1. chars' \in [Author -> Seq(CharType)]
    BY <1>0, <1>1, <1>4 DEF ReplicaTypes
  <2> QED
    BY <1>0, <1>1, <1>3, <2>1 DEF ReplicaTypes
<1>6. \A x \in Author : SortedChars(chars'[x])
  BY <1>0, <1>1, <1>2, <1>4 DEF ReplicaTypes
<1>7. ComesFromAuthor' /\ NothingLost'
  BY <1>0, <1>1, <1>3 DEF ComesFromAuthor, NothingLost, ReplicaTypes
<1>8. NothingDeleted'
  BY <1>0, <1>1, <1>3 DEF NothingDeleted
<1> QED
  BY <1>5, <1>6, <1>7, <1>8 DEF ReplicaInv

LEMMA ReplicasKept == ReplicaInv /\ [CrdtNext]_crdtVars => ReplicaInv'
<1> SUFFICES ASSUME ReplicaInv, [CrdtNext]_crdtVars PROVE ReplicaInv'
  OBVIOUS
<1>1. CASE UNCHANGED crdtVars
  <2>1. /\ members' = members /\ strategy' = strategy /\ chars' = chars /\ inFlight' = inFlight
        /\ deletes' = deletes /\ seen' = seen
    BY <1>1 DEF crdtVars
  <2> QED
    BY <2>1 DEF ReplicaInv, ReplicaTypes, ComesFromAuthor, NothingLost, NothingDeleted, Underway
<1>2. ASSUME NEW a \in members, NEW v \in Values, NEW i \in 0..MaxInserts, localInsert(a, v, i)
      PROVE  ReplicaInv'
  BY <1>2, LocalInsertKept
<1>3. ASSUME NEW a \in members, NEW i \in 0..MaxInserts, localDelete(a, i) PROVE ReplicaInv'
  <2>1. i \in Nat
    OBVIOUS
  <2> QED
    BY <1>3, <2>1, LocalDeleteKept
<1>4. ASSUME NEW a \in members, NEW b \in members, remoteInsert(a, b) \/ remoteDelete(a, b)
      PROVE  ReplicaInv'
  BY <1>4, RemoteInsertKept, RemoteDeleteKept
<1> QED
  BY <1>1, <1>2, <1>3, <1>4 DEF CrdtNext

\* Everything sent has arrived.
AllArrived == \A a, b \in Author : inFlight[<<a, b>>] = << >>

\* No two characters of a replica compare equal.
NoTies == \A a \in members : StrictChars(chars[a])

\* What is typed is the same everywhere once it has arrived, whatever the
\* order it came in: replicas that deleted nothing hold one list.
InsertsConverge ==
  deletes = 0 /\ AllArrived /\ NoTies => \A a, b \in members : chars[a] = chars[b]

LEMMA ReplicasMeetWhenAllArrived == ReplicaInv => CharsSorted /\ InsertsConverge
<1> SUFFICES ASSUME ReplicaInv PROVE CharsSorted /\ InsertsConverge
  OBVIOUS
<1>0. ReplicaTypes /\ (\A x \in Author : SortedChars(chars[x])) /\ ComesFromAuthor /\ NothingLost /\ NothingDeleted
  BY DEF ReplicaInv
<1>1. CharsSorted
  BY <1>0 DEF CharsSorted, SortedChars
<1>2. ASSUME deletes = 0, AllArrived, NoTies, NEW a \in members, NEW b \in members
      PROVE  chars[a] = chars[b]
  <2>0. a \in Author /\ b \in Author /\ members \subseteq Author
    BY <1>0 DEF ReplicaTypes
  <2>1. \A x, y \in Author : \A c : ~Underway(c, <<x, y>>)
    <3>1. Len(<< >>) = 0
      OBVIOUS
    <3> QED
      BY <1>2, <3>1 DEF AllArrived, Underway, Within
  <2>2. ASSUME NEW x \in members, NEW y \in members, NEW c \in seen[x] PROVE c \in seen[y]
    <3>1. x \in Author /\ y \in Author
      BY <2>0
    <3>2. c.author \in members /\ c \in seen[c.author]
      BY <1>0, <3>1 DEF ComesFromAuthor
    <3>3. c \in seen[y] \/ Underway(c, <<c.author, y>>)
      BY <1>0, <3>2 DEF NothingLost
    <3> QED
      BY <2>0, <2>1, <3>1, <3>2, <3>3
  <2>3. seen[a] = seen[b]
    BY <2>2
  <2>4. ToSet(chars[a]) = ToSet(chars[b])
    BY <1>0, <1>2, <2>0, <2>3 DEF NothingDeleted
  <2>5. chars[a] \in Seq(CharType) /\ chars[b] \in Seq(CharType)
    BY <1>0, <2>0 DEF ReplicaTypes
  <2> QED
    BY <1>2, <2>4, <2>5, SameChars DEF NoTies
<1> QED
  BY <1>1, <1>2 DEF InsertsConverge

CrdtSpec == CrdtInit /\ [][CrdtNext]_crdtVars

(* CrdtDocument keeps chars_ sorted under any mix of local and remote       *)
(* operations, which std::lower_bound relies on; and replicas that only     *)
(* inserted hold the same list once all of it has arrived, in whatever      *)
(* order it came from the different authors, as long as no two characters   *)
(* compare equal.                                                           *)
THEOREM ReplicasMeet == CrdtSpec => [](CharsSorted /\ InsertsConverge)
<1>1. CrdtInit => ReplicaInv
  BY ReplicasStart
<1>2. ReplicaInv /\ [CrdtNext]_crdtVars => ReplicaInv'
  BY ReplicasKept
<1>3. ReplicaInv => CharsSorted /\ InsertsConverge
  BY ReplicasMeetWhenAllArrived
<1> QED
  BY <1>1, <1>2, <1>3, PTL DEF CrdtSpec
=============================================================================
