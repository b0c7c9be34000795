--------------------------- MODULE OperationPair ---------------------------
(***************************************************************************)
(* The reference definition transform() is held against: two sites start   *)
(* from the same document, each applies an operation of its own and then   *)
(* the other site's operation transformed against its own.  The two orders *)
(* must meet in the same document (the first transformation property of    *)
(* operational transformation), and this module says exactly when they do. *)
(***************************************************************************)
EXTENDS Operation

CONSTANTS MaxLen,     \* bound: length of the common document
          MaxText     \* bound: length of an inserted text

VARIABLES doc,        \* the document at each site
          own,        \* the operation that originates at each site
          step        \* what each site does next

pairVars == <<doc, own, step>>

Site == {"A", "B"}
Other(s) == IF s = "A" THEN "B" ELSE "A"

Texts(n) == UNION {[1..k -> Char] : k \in 0..n}

\* The operations an editor can issue on document d.
OpsOn(d) ==
  {InsertOperation(p, t) : p \in 0..Len(d), t \in Texts(MaxText)} \cup
  {DeleteOperation(p, n, << >>) : p \in 0..Len(d), n \in 0..Len(d)}

\* The other site's operation as site s applies it.
Incoming(s) == Transform(own[Other(s)], own[s])

(* The types of the variables, and transform() always yields an operation:  *)
(* no position or length underflows.                                        *)
PairTypeOK ==
  /\ doc  \in [Site -> Text]
  /\ own  \in [Site -> Op]
  /\ step \in [Site -> {"local", "remote", "done"}]
  /\ \A s \in Site : Incoming(s) \in Op

PairInit ==
  /\ \E d \in Texts(MaxLen) :
       /\ doc = [s \in Site |-> d]
       /\ own \in [Site -> {op \in OpsOn(d) : Applies(op, d)}]
  /\ step = [s \in Site |-> "local"]

ApplyLocal(s) ==
  /\ step[s] = "local"
  /\ doc'  = [doc  EXCEPT ![s] = Apply(own[s], @)]
  /\ own'  = [own  EXCEPT ![s] = Applied(@, doc[s])]
  /\ step' = [step EXCEPT ![s] = "remote"]

ReceiveRemote(s) ==
  /\ step[s] = "remote" /\ step[Other(s)] # "local"
  /\ Applies(Incoming(s), doc[s])
  /\ doc'  = [doc  EXCEPT ![s] = Apply(Incoming(s), @)]
  /\ step' = [step EXCEPT ![s] = "done"]
  /\ UNCHANGED own

PairNext == \E s \in Site : ApplyLocal(s) \/ ReceiveRemote(s)

PairSpec == PairInit /\ [][PairNext]_pairVars

-----------------------------------------------------------------------------
(* Two inserts at one position: each one moves behind the other.            *)
InsertTie(a, b) ==
  /\ IsInsert(a) /\ IsInsert(b) /\ a.position = b.position
  /\ a.text \o b.text # b.text \o a.text

(* A delete whose range strictly contains the other's insertion point: the  *)
(* delete grows over the inserted text, the insert survives the delete.     *)
SwallowedInsert(a, b) ==
  /\ IsDelete(a) /\ IsInsert(b) /\ b.text # << >>
  /\ a.position < b.position /\ b.position < End(a)

Conflict(a, b) ==
  InsertTie(a, b) \/ SwallowedInsert(a, b) \/ SwallowedInsert(b, a)

-----------------------------------------------------------------------------
(* The two sites end with the same document unless the operations are one   *)
(* of the two conflicts above, and then they do end with different ones:    *)
(* InsertOperation::transform and DeleteOperation::transform satisfy the    *)
(* convergence property outside exactly this class.                         *)
ConvergeUnlessConflict ==
  (\A s \in Site : step[s] = "done") =>
     (doc["A"] = doc["B"] <=> ~Conflict(own["A"], own["B"]))

(* A transformed operation is never rejected by apply(): transform leaves   *)
(* no position or range that reaches outside the document the other         *)
(* operation produced, whatever the order of the two.                       *)
TransformedApplies ==
  \A s \in Site : step[s] = "remote" /\ step[Other(s)] # "local" =>
     Applies(Incoming(s), doc[s])

(* The text a transformed delete carries is what it removes where it is     *)
(* applied (so that its inverse restores it), or it carries none; the one   *)
(* exception is a delete that grew over an insert.                          *)
TransformedTextIsRemoved ==
  \A s \in Site :
    LET del == Incoming(s)
    IN  /\ step[s] = "remote" /\ step[Other(s)] # "local"
        /\ IsDelete(del)
        /\ ~SwallowedInsert(own[Other(s)], own[s])
        => del.text = Slice(doc[s], del.position, del.length)

(* What transform() returns can be used: it is an operation, it applies to  *)
(* the document the other site has by then, and a delete removes the text   *)
(* it carries, so that its inverse() restores it.                           *)
TransformIsSound == PairTypeOK /\ TransformedApplies /\ TransformedTextIsRemoved
=============================================================================
