------------------------- MODULE MCDocumentHistory -------------------------
(* A user alone: more edits than the history holds, empty edits included.   *)
EXTENDS DocumentHistory

MCContents  == {<< >>, <<1, 2, 2>>}
MCPositions == 0..3
MCLengths   == 0..2
MCInserts   == {<< >>, <<2, 1>>}
=============================================================================
