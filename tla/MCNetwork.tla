------------------------------ MODULE MCNetwork ------------------------------
(***************************************************************************)
(* The two ends of the TCP layer, each with its environment.  They share   *)
(* no state, so one run checks them side by side: `scenario' chooses at    *)
(* the start which one moves, and for the server how its bounds are spent. *)
(***************************************************************************)
EXTENDS ServerManager, ClientManager

VARIABLE scenario   \* "one client", "two clients", "client"

networkVars == <<scenario, serverVars, clientVars>>

MCInit ==
  /\ scenario \in {"one client", "two clients", "client"}
  /\ ServerInit /\ ClientInit
  /\ scenario # "one client" => managed

\* Two clients connect and nothing is exchanged, or one connects and the
\* messages are; what a congested socket does to frames is the server's.
WithinBounds ==
  CASE scenario = "two clients" -> sent' = 0 /\ requests' = requests
    [] scenario = "one client"  -> Cardinality({c \in Client : peer'[c] # "away"}) <= 1
    [] scenario = "client"      -> ToSet(wire') \subseteq Message

MCNext ==
  /\ \/ scenario # "client" /\ ServerNext /\ UNCHANGED clientVars
     \/ scenario = "client" /\ ClientNext /\ UNCHANGED serverVars
  /\ UNCHANGED scenario /\ WithinBounds

MCSpec == MCInit /\ [][MCNext]_networkVars /\ ServerFairness /\ ClientFairness
=============================================================================
