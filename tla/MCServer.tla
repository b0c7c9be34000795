------------------------------ MODULE MCServer ------------------------------
(* Two clients with two usernames, one of which only the first client uses: *)
(* it is enough for a name to be given up, taken, raced for and freed.      *)
EXTENDS Server

CONSTANTS first, shared

WithinBounds == \A c \in Conn \ {first} : request'[c].user \in {None, shared}

MCSpec == Init /\ [][Next /\ WithinBounds]_serverVars /\ Fairness
=============================================================================
