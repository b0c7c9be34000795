-------------------------- MODULE MCCollaboration --------------------------
(***************************************************************************)
(* Two sites.  `scenario' chooses at the start how they exchange what they *)
(* do: one operation each, transformed as the library means it to be (a    *)
(* pair), or through two DocumentManagers with two edits each.             *)
(***************************************************************************)
EXTENDS Collaboration, OperationPair

VARIABLE scenario

sitesVars == <<scenario, vars, pairVars>>

MCContents  == {<<1, 2>>}
MCPositions == 0..1
MCLengths   == 1..2
MCInserts   == {<<2>>}

MCInit ==
  /\ scenario \in {"pair", "managers"} /\ Init /\ PairInit
  /\ scenario = "managers" => \A s \in Site : own[s] = InsertOperation(0, << >>) /\ doc[s] = << >>

MCNext ==
  /\ \/ scenario = "pair" /\ PairNext /\ UNCHANGED vars
     \/ scenario = "managers" /\ Next /\ UNCHANGED pairVars
  /\ UNCHANGED scenario

MCSpec == MCInit /\ [][MCNext]_sitesVars
=============================================================================
