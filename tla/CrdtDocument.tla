---------------------------- MODULE CrdtDocument ----------------------------
(***************************************************************************)
(* crdt::CrdtDocument (include/common/crdt/crdt_document.h): replicas of a *)
(* document, one for each author, that exchange the characters they insert *)
(* and the positions they delete.                                          *)
(*                                                                         *)
(* The header only defines what a replica does.  How the operations travel *)
(* is modelled as its other users do it: in order from one author to       *)
(* another, with no order between authors.  Clocks of authors are not      *)
(* synchronized: a timestamp is any member of Timestamps.                  *)
(***************************************************************************)
EXTENDS Integers, Sequences, SequencesExt, FiniteSets, FiniteSetsExt

CONSTANTS
  Author,       \* author ids, ordered as std::string::compare does: 1..n
  Values,       \* characters
  Timestamps,   \* what system_clock::now() may return
  MaxFirst,     \* 100 or 1000 in randomInt(1, ..) of a first position, scaled
  MaxStep,      \* 10 in randomInt(1, 10), scaled
  Base,         \* BASE of LSEQ, scaled
  MaxInserts,   \* bound: local inserts
  MaxDeletes    \* bound: local deletes

ASSUME CrdtAssumption ==
  /\ Author \subseteq Int /\ Timestamps \subseteq Int
  /\ MaxFirst \in Nat /\ MaxStep \in Nat /\ Base \in Nat

VARIABLES
  members,      \* the authors that take part
  strategy,     \* strategy_ of all replicas
  chars,        \* chars_ of each replica
  inFlight,     \* operations on their way from one author to another
  inserts, deletes,     \* numbers of local operations so far
  seen,         \* characters each replica ever had: history
  missed,       \* a delete arrived before the insert it is about: history
  outOfPlace    \* a local insert did not land where it was asked for: history

crdtVars == <<members, strategy, chars, inFlight, inserts, deletes, seen, missed, outOfPlace>>

-----------------------------------------------------------------------------
(* CrdtChar.                                                                *)

\* vector<int> compared digit by digit; a prefix is smaller.
PositionLess(p, q) ==
  LET n == Min({Len(p), Len(q)})
      differ == {i \in 1..n : p[i] # q[i]}
  IN IF differ = {} THEN Len(p) < Len(q) ELSE p[Min(differ)] < q[Min(differ)]

\* Mutant of CharLess: positions only.
CharLess_PositionOnly(a, b) == PositionLess(a.position, b.position)

\* compareTo() < 0
CharLess(a, b) ==
  \/ PositionLess(a.position, b.position)
  \/ /\ a.position = b.position
     /\ a.timestamp < b.timestamp \/ (a.timestamp = b.timestamp /\ a.author < b.author)

-----------------------------------------------------------------------------
(* Positions between two neighbours; << >> stands for none.  randomInt() is *)
(* the choice of any value of its range.                                    *)

\* Division of int truncates towards zero.
Half(n) == IF n >= 0 THEN n \div 2 ELSE -((-n) \div 2)

Steps == 1..MaxStep

commonPrefixLen(p1, p2) ==
  Cardinality({i \in 1..Min({Len(p1), Len(p2)}) : \A j \in 1..i : p1[j] = p2[j]})

\* p1 = p2 reads past the end of p2: any digit may come of it.
generateLogootPosition(p1, p2) ==
  IF p1 = << >> THEN IF p2 = << >> THEN {<<r>> : r \in 1..MaxFirst} ELSE {<<Half(p2[1])>>}
  ELSE IF p2 = << >> THEN {<<p1[1] + r>> : r \in Steps}
  ELSE LET k == commonPrefixLen(p1, p2)
       IN CASE p1 = p2      -> {Append(p1, r) : r \in 0..1}
            [] k = Len(p1) /\ p1 # p2 -> {Append(p1, Half(p2[k + 1]))}
            [] k = Len(p2) /\ p1 # p2 -> {Append(p2, r) : r \in Steps}
            [] OTHER -> IF p1[k + 1] + 1 < p2[k + 1]
                        THEN {Append(SubSeq(p1, 1, k), p1[k + 1] + r) :
                                r \in 1..(p2[k + 1] - p1[k + 1] - 1)}
                        ELSE {Append(p1, r) : r \in Steps}

generateWootPosition(p1, p2) ==
  CASE p1 = << >> /\ p2 = << >> -> {<<r>> : r \in 1..MaxFirst}
    [] p1 = << >> /\ p2 # << >> -> {<<p2[1] - r>> : r \in Steps}
    [] p1 # << >> /\ p2 = << >> -> {<<p1[1] + r>> : r \in Steps}
    [] OTHER -> IF p1[1] + 1 <= p2[1] - 1 THEN {<<r>> : r \in (p1[1] + 1)..(p2[1] - 1)}
                ELSE {Append(p1, r) : r \in 1..MaxFirst}

generateLseqPosition(p1, p2) ==
  CASE p1 = << >> /\ p2 = << >> -> {<<Base \div 2>>}
    [] p1 = << >> /\ p2 # << >> -> {<<Half(p2[1])>>}
    [] p1 # << >> /\ p2 = << >> -> {<<p1[1] + r>> : r \in Steps}
    [] OTHER -> IF p2[1] - p1[1] > 1 THEN {<<p1[1] + (p2[1] - p1[1]) \div 2>>}
                ELSE {Append(p1, Base \div 2)}

generatePositionBetween(p1, p2) ==
  CASE strategy = "LOGOOT" -> generateLogootPosition(p1, p2)
    [] strategy = "WOOT"   -> generateWootPosition(p1, p2)
    [] strategy = "LSEQ"   -> generateLseqPosition(p1, p2)

-----------------------------------------------------------------------------
(* The replica.                                                             *)

\* std::lower_bound, then insert.
insertChar(cs, ch) ==
  LET before == Cardinality({i \in 1..Len(cs) : CharLess(cs[i], ch)})
  IN SubSeq(cs, 1, before) \o <<ch>> \o SubSeq(cs, before + 1, Len(cs))

\* remoteDelete(): the first character at the position, if there is one.
Erase(cs, position) ==
  LET at == {i \in 1..Len(cs) : cs[i].position = position}
  IN IF at = {} THEN cs ELSE RemoveAt(cs, Min(at))

CrdtInit ==
  /\ members \in SUBSET Author /\ strategy \in {"LOGOOT", "WOOT", "LSEQ"}
  /\ chars = [a \in Author |-> << >>]
  /\ inFlight = [p \in Author \X Author |-> << >>]
  /\ inserts = 0 /\ deletes = 0 /\ seen = [a \in Author |-> {}]
  /\ missed = FALSE /\ outOfPlace = FALSE

\* What an author does is sent to every other.
Broadcast(a, op) ==
  inFlight' = [p \in Author \X Author |->
                 IF p[1] = a /\ p[2] \in members \ {a} THEN Append(inFlight[p], op) ELSE inFlight[p]]

PositionAt(cs, i) == IF i \in 1..Len(cs) THEN cs[i].position ELSE << >>

\* The cases in which a strategy has no room between two neighbours.
Exhausted(p1, p2) ==
  \/ p1 = p2 /\ p1 # << >>
  \/ strategy = "LOGOOT" /\ p2 = Append(p1, 0)
  \/ strategy # "LOGOOT" /\ p1 # << >> /\ IsStrictPrefix(p1, p2)
  \/ strategy = "LSEQ" /\ p1 = << >> /\ p2 = <<0>>

localInsert(a, value, index) ==
  LET cs == chars[a]
      p1 == PositionAt(cs, index)
      p2 == PositionAt(cs, index + 1)
  IN /\ inserts < MaxInserts /\ index <= Len(cs)
     /\ \E p \in generatePositionBetween(p1, p2), t \in Timestamps :
          LET ch == [value |-> value, author |-> a, position |-> p, timestamp |-> t]
          IN /\ chars' = [chars EXCEPT ![a] = insertChar(@, ch)]
             /\ Broadcast(a, [type |-> "insert", char |-> ch])
             /\ seen' = [seen EXCEPT ![a] = @ \cup {ch}]
             /\ outOfPlace' = (outOfPlace \/
                  /\ insertChar(cs, ch) # SubSeq(cs, 1, index) \o <<ch>> \o SubSeq(cs, index + 1, Len(cs))
                  /\ ~Exhausted(p1, p2))
     /\ inserts' = inserts + 1
     /\ UNCHANGED <<members, strategy, deletes, missed>>

localDelete(a, index) ==
  /\ deletes < MaxDeletes /\ index < Len(chars[a])
  /\ Broadcast(a, [type |-> "delete", position |-> chars[a][index + 1].position])
  /\ chars' = [chars EXCEPT ![a] = RemoveAt(@, index + 1)]
  /\ deletes' = deletes + 1
  /\ UNCHANGED <<members, strategy, inserts, seen, missed, outOfPlace>>

remoteInsert(a, b) ==
  LET op == Head(inFlight[<<a, b>>])
  IN /\ inFlight[<<a, b>>] # << >> /\ op.type = "insert"
     /\ chars' = [chars EXCEPT ![b] = insertChar(@, op.char)]
     /\ seen' = [seen EXCEPT ![b] = @ \cup {op.char}]
     /\ inFlight' = [inFlight EXCEPT ![<<a, b>>] = Tail(@)]
     /\ UNCHANGED <<members, strategy, inserts, deletes, missed, outOfPlace>>

remoteDelete(a, b) ==
  LET op == Head(inFlight[<<a, b>>])
  IN /\ inFlight[<<a, b>>] # << >> /\ op.type = "delete"
     /\ chars' = [chars EXCEPT ![b] = Erase(@, op.position)]
     /\ missed' = (missed \/ \A ch \in seen[b] : ch.position # op.position)
     /\ inFlight' = [inFlight EXCEPT ![<<a, b>>] = Tail(@)]
     /\ UNCHANGED <<members, strategy, inserts, deletes, seen, outOfPlace>>

CrdtNext ==
  \E a \in members :
    \/ \E v \in Values, i \in 0..MaxInserts : localInsert(a, v, i)
    \/ \E i \in 0..MaxInserts : localDelete(a, i)
    \/ \E b \in members : remoteInsert(a, b) \/ remoteDelete(a, b)

-----------------------------------------------------------------------------
(* The types of the variables; positions have no more digits than inserts.  *)
CrdtTypeOK ==
  /\ strategy \in {"LOGOOT", "WOOT", "LSEQ"}
  /\ \A a \in Author : \A ch \in ToSet(chars[a]) :
       /\ ch.value \in Values /\ ch.author \in Author /\ ch.timestamp \in Timestamps
       /\ Len(ch.position) \in 1..MaxInserts
  /\ inserts \in 0..MaxInserts /\ deletes \in 0..MaxDeletes

(* chars_ stays sorted, which std::lower_bound relies on.                   *)
CharsSorted ==
  \A a \in Author : \A i, j \in 1..Len(chars[a]) :
    i < j => ~CharLess(chars[a][j], chars[a][i])

\* Two characters got one position: they differ in the rest, or an author
\* inserted the very same character, timestamp and all, once more.
Twins ==
  \/ \E a \in Author : \E c, d \in seen[a] : c # d /\ c.position = d.position
  \/ inserts > Cardinality(UNION {seen[a] : a \in Author})

(* Replicas agree once everything has arrived, unless two characters got    *)
(* one position and one was deleted (a delete names only the position), or  *)
(* a delete overtook the insert it is about.                                *)
ReplicasConverge ==
  (\A a, b \in Author : inFlight[<<a, b>>] = << >>) =>
    \/ \A a, b \in members : chars[a] = chars[b]
    \/ deletes > 0 /\ (Twins \/ missed)

(* A character lands at the index the user typed it at, unless the strategy *)
(* has no room left between the neighbours.                                 *)
IntentionKept == ~outOfPlace

(* Replicas that have seen the same operations hold the same characters in  *)
(* the same order, and every character is where its author put it, but for  *)
(* the cases the parts name: characters that share a position, a delete     *)
(* that overtook its insert, no room between neighbours.                    *)
ReplicasAgree == CrdtTypeOK /\ CharsSorted /\ ReplicasConverge /\ IntentionKept
=============================================================================
