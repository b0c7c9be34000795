------------------------------- MODULE MCEditor -------------------------------
(***************************************************************************)
(* The two documents of the client side, which share no state: the         *)
(* editor's (EditorDocument) and the replicated one (CrdtDocument).        *)
(* `part' chooses at the start which one moves and how its bounds are      *)
(* spent.                                                                  *)
(***************************************************************************)
EXTENDS EditorDocument, CrdtDocument

VARIABLE part   \* "edits", "cursors", "pair", "trio"

documentVars == <<part, editorVars, crdtVars>>

MCTexts == {<<"a">>, <<NL>>, <<"b", NL>>}

MCInit ==
  /\ part \in {"edits", "cursors", "pair", "trio"}
  /\ EditorInit /\ CrdtInit
  /\ part \in {"cursors", "pair", "trio"} => locks
  /\ members = CASE part = "pair" -> {1, 2} [] part = "trio" -> Author [] OTHER -> {}
  /\ members = {} => strategy = "LOGOOT"

\* Edits without cursors, or few of them with; two authors with all their
\* inserts, or three with two.
WithinBounds ==
  CASE part = "edits"   -> cursors' = cursors /\ selections' = selections
    [] part = "cursors" -> /\ clock' = 0 /\ edits' <= 2
                           /\ cursors' = << >> \/ selections' = << >>
    [] part = "pair"    -> TRUE
    [] part = "trio"    -> inserts' <= 2

MCNext ==
  /\ \/ part \in {"edits", "cursors"} /\ EditorNext /\ UNCHANGED crdtVars
     \/ part \in {"pair", "trio"} /\ CrdtNext /\ UNCHANGED editorVars
  /\ UNCHANGED part /\ WithinBounds

MCSpec == MCInit /\ [][MCNext]_documentVars
=============================================================================
