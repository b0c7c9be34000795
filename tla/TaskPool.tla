------------------------------ MODULE TaskPool ------------------------------
(***************************************************************************)
(* What a thread pool promises the code that submits to it: tasks start in *)
(* the order they were accepted, each one once, nothing is accepted after  *)
(* closing, and the pool is gone only when every accepted task has run.    *)
(***************************************************************************)
EXTENDS Naturals, Sequences

CONSTANT Task

VARIABLES
  accepted,   \* the tasks accepted so far, in order
  started,    \* how many of them have been started
  finished,   \* the tasks that have run to their end
  phase       \* "open", then "closed", then "gone"

vars == <<accepted, started, finished, phase>>

Init == accepted = << >> /\ started = 0 /\ finished = {} /\ phase = "open"

Submit ==
  /\ phase = "open"
  /\ \E t \in Task : accepted' = Append(accepted, t)
  /\ UNCHANGED <<started, finished, phase>>

Start ==
  /\ phase # "gone" /\ started < Len(accepted)
  /\ started' = started + 1
  /\ UNCHANGED <<accepted, finished, phase>>

Finish ==
  /\ phase # "gone"
  /\ \E i \in 1..started : /\ accepted[i] \notin finished
                           /\ finished' = finished \cup {accepted[i]}
  /\ UNCHANGED <<accepted, started, phase>>

Close ==
  /\ phase = "open" /\ phase' = "closed"
  /\ UNCHANGED <<accepted, started, finished>>

Vanish ==
  /\ phase = "closed" /\ phase' = "gone"
  /\ finished = {accepted[i] : i \in 1..Len(accepted)}
  /\ UNCHANGED <<accepted, started, finished>>

Next == Submit \/ Start \/ Finish \/ Close \/ Vanish

Spec == Init /\ [][Next]_vars
=============================================================================
