------------------------- MODULE MCDocumentManager -------------------------
(* Small inputs for DocumentManager: two characters, documents of at most   *)
(* two of them to start from, and operations inside and outside them.       *)
EXTENDS DocumentManager

MCContents  == {<<1, 2>>}
MCPositions == 0..2
MCLengths   == 0..2
MCInserts   == {<<1, 2>>}
=============================================================================
