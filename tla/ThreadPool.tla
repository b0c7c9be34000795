----------------------------- MODULE ThreadPool -----------------------------
(***************************************************************************)
(* server::ThreadPool (include/server/server.h): worker threads that wait  *)
(* on condition_ for tasks_, enqueue() called by any thread, and the       *)
(* destructor, which sets stop_, wakes everyone and joins.  What happens   *)
(* under queue_mutex_ is one step; the notifications come after the mutex  *)
(* is released and are steps of their own.                                 *)
(***************************************************************************)
EXTENDS Naturals, Sequences, FiniteSets

CONSTANTS
  Worker,     \* the threads of workers_; may be empty, as numThreads may be 0
  Task,       \* the tasks the program submits, each once
  NoTask      \* a worker that runs nothing

ASSUME NoTaskAssumption == NoTask \notin Task

ASSUME FinitelyMany == IsFiniteSet(Worker) /\ IsFiniteSet(Task)

VARIABLES
  tasks,      \* tasks_
  stop,       \* stop_
  pc,         \* each worker: "lock" about to take queue_mutex_, "wait" blocked
              \* on condition_, "run" in task(), "exit" returned
  current,    \* the task each worker runs
  caller,     \* each task's enqueue(): "before", "notify" between the unlock
              \* and notify_one, "after", "thrown"
  dtor,       \* the destructor: "none", "notify", "join", "done"
  order,      \* history: the tasks in the order tasks_ took them
  finished    \* history: the tasks whose call has returned

vars == <<tasks, stop, pc, current, caller, dtor, order, finished>>

(* The types of the variables: a worker that runs, runs a task.             *)
TypeOK ==
  /\ tasks    \in Seq(Task)
  /\ stop     \in BOOLEAN
  /\ pc       \in [Worker -> {"lock", "wait", "run", "exit"}]
  /\ current  \in [Worker -> Task \cup {NoTask}]
  /\ caller   \in [Task -> {"before", "notify", "after", "thrown"}]
  /\ dtor     \in {"none", "notify", "join", "done"}
  /\ order    \in Seq(Task)
  /\ finished \in SUBSET Task

Init ==
  /\ tasks = << >> /\ stop = FALSE
  /\ pc = [w \in Worker |-> "lock"]
  /\ current = [w \in Worker |-> NoTask]
  /\ caller = [t \in Task |-> "before"]
  /\ dtor = "none"
  /\ order = << >> /\ finished = {}

-----------------------------------------------------------------------------
(* A worker: wait(lock, pred) tests the predicate before it sleeps and      *)
(* again, holding the mutex, each time it is woken.                         *)

\* stop_ || !tasks_.empty()
Ready == stop \/ tasks # << >>

Sleep(w) ==
  /\ pc[w] = "lock" /\ ~Ready
  /\ pc' = [pc EXCEPT ![w] = "wait"]
  /\ UNCHANGED <<tasks, stop, current, caller, dtor, order, finished>>

\* Mutant of Exit: a worker leaves without draining the queue.
Exit_AtOnce(w) ==
  /\ pc[w] = "lock" /\ stop
  /\ pc' = [pc EXCEPT ![w] = "exit"]
  /\ UNCHANGED <<tasks, stop, current, caller, dtor, order, finished>>

Exit(w) ==
  /\ pc[w] = "lock" /\ stop /\ tasks = << >>
  /\ pc' = [pc EXCEPT ![w] = "exit"]
  /\ UNCHANGED <<tasks, stop, current, caller, dtor, order, finished>>

Take(w) ==
  /\ pc[w] = "lock" /\ tasks # << >>
  /\ current' = [current EXCEPT ![w] = Head(tasks)]
  /\ tasks' = Tail(tasks)
  /\ pc' = [pc EXCEPT ![w] = "run"]
  /\ UNCHANGED <<stop, caller, dtor, order, finished>>

\* task() returns: a packaged_task keeps an exception for the future.
Finish(w) ==
  /\ pc[w] = "run"
  /\ finished' = finished \cup {current[w]}
  /\ current' = [current EXCEPT ![w] = NoTask]
  /\ pc' = [pc EXCEPT ![w] = "lock"]
  /\ UNCHANGED <<tasks, stop, caller, dtor, order>>

\* A condition variable may wake a thread for no reason; wait(lock, pred)
\* then goes back to testing the predicate under the mutex.
SpuriousWakeup(w) ==
  /\ pc[w] = "wait"
  /\ pc' = [pc EXCEPT ![w] = "lock"]
  /\ UNCHANGED <<tasks, stop, current, caller, dtor, order, finished>>

-----------------------------------------------------------------------------
(* enqueue(); its callers use the pool only while it exists.                *)

Enqueue(t) ==
  /\ caller[t] = "before" /\ dtor # "done"
  /\ ~stop
  /\ tasks' = Append(tasks, t) /\ order' = Append(order, t)
  /\ caller' = [caller EXCEPT ![t] = "notify"]
  /\ UNCHANGED <<stop, pc, current, dtor, finished>>

EnqueueThrows(t) ==
  /\ caller[t] = "before" /\ dtor # "done"
  /\ stop
  /\ caller' = [caller EXCEPT ![t] = "thrown"]
  /\ UNCHANGED <<tasks, stop, pc, current, dtor, order, finished>>

Waiting == {w \in Worker : pc[w] = "wait"}

\* Mutant of NotifyOne: enqueue() does not notify.
NotifyOne_Missing(t) ==
  /\ caller[t] = "notify"
  /\ caller' = [caller EXCEPT ![t] = "after"]
  /\ UNCHANGED <<tasks, stop, pc, current, dtor, order, finished>>

NotifyOne(t) ==
  /\ caller[t] = "notify"
  /\ caller' = [caller EXCEPT ![t] = "after"]
  /\ IF Waiting = {} THEN UNCHANGED pc
     ELSE \E w \in Waiting : pc' = [pc EXCEPT ![w] = "lock"]
  /\ UNCHANGED <<tasks, stop, current, dtor, order, finished>>

-----------------------------------------------------------------------------
(* ~ThreadPool()                                                            *)

Stop ==
  /\ dtor = "none"
  /\ stop' = TRUE /\ dtor' = "notify"
  /\ UNCHANGED <<tasks, pc, current, caller, order, finished>>

\* Mutant of NotifyAll: notify_one in the destructor.
NotifyAll_One ==
  /\ dtor = "notify"
  /\ IF Waiting = {} THEN UNCHANGED pc
     ELSE \E w \in Waiting : pc' = [pc EXCEPT ![w] = "lock"]
  /\ dtor' = "join"
  /\ UNCHANGED <<tasks, stop, current, caller, order, finished>>

NotifyAll ==
  /\ dtor = "notify"
  /\ pc' = [w \in Worker |-> IF pc[w] = "wait" THEN "lock" ELSE pc[w]]
  /\ dtor' = "join"
  /\ UNCHANGED <<tasks, stop, current, caller, order, finished>>

Join ==
  /\ dtor = "join" /\ \A w \in Worker : pc[w] = "exit"
  /\ dtor' = "done"
  /\ UNCHANGED <<tasks, stop, pc, current, caller, order, finished>>

\* Nothing is left to do: every thread has ended.
Terminated ==
  /\ dtor = "done" /\ \A t \in Task : caller[t] # "notify"
  /\ UNCHANGED vars

-----------------------------------------------------------------------------
WorkerStep(w) == Sleep(w) \/ Exit(w) \/ Take(w) \/ Finish(w)

Next ==
  \/ \E w \in Worker : WorkerStep(w) \/ SpuriousWakeup(w)
  \/ \E t \in Task : Enqueue(t) \/ EnqueueThrows(t) \/ NotifyOne(t)
  \/ Stop \/ NotifyAll \/ Join
  \/ Terminated

Spec == Init /\ [][Next]_vars

\* Threads are scheduled and tasks return; nobody has to submit, to destroy
\* the pool, or to wake up spuriously.
Fairness ==
  /\ \A w \in Worker : WF_vars(WorkerStep(w))
  /\ \A t \in Task : WF_vars(NotifyOne(t))
  /\ WF_vars(NotifyAll) /\ WF_vars(Join)

FairSpec == Spec /\ Fairness

-----------------------------------------------------------------------------
(* Queued tasks do not wait for sleeping workers: while a worker sleeps,    *)
(* every task in tasks_ has an awake worker of its own about to look at the *)
(* queue or a notification still to come.  This is what testing the         *)
(* predicate under the mutex and notifying after every push buys; a lost    *)
(* wakeup would break it.                                                   *)
Awake     == {w \in Worker : pc[w] = "lock"}
Notifying == {t \in Task : caller[t] = "notify"}

WorkConserving ==
  Waiting # {} => Len(tasks) <= Cardinality(Awake) + Cardinality(Notifying)

(* Once the destructor joins, no worker sleeps: stop_ is set under the      *)
(* mutex before notify_all, so no worker can test the predicate before the  *)
(* one and block after the other.                                           *)
NobodySleepsThroughStop == dtor \in {"join", "done"} => Waiting = {}

(* The pool implements TaskPool: tasks start in the order enqueue() took    *)
(* them, each once, none is taken after stop_, and the destructor returns   *)
(* only after all of them have run.                                         *)
Pool == INSTANCE TaskPool WITH
          accepted <- order,
          started  <- Len(order) - Len(tasks),
          phase    <- IF dtor = "done" THEN "gone"
                      ELSE IF stop THEN "closed" ELSE "open"

ImplementsTaskPool == Pool!Spec

(* Every task that enqueue() accepted is run in the end, also when the      *)
(* destructor has begun.                                                    *)
AcceptedTasksRun ==
  \A t \in Task : caller[t] \in {"notify", "after"} ~> t \in finished

(* The destructor returns: every worker leaves its loop and is joined.      *)
DestructorReturns == stop ~> dtor = "done"

(* No wakeup is lost: no worker sleeps while a task waits that nobody was   *)
(* woken for, and none sleeps on when the destructor joins.                 *)
NoLostWakeup == TypeOK /\ WorkConserving /\ NobodySleepsThroughStop

(* Every task enqueue() accepted is run, and ~ThreadPool returns.           *)
PoolProgress == AcceptedTasksRun /\ DestructorReturns
=============================================================================
