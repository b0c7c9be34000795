-------------------------- MODULE ThreadPoolProofs --------------------------
(***************************************************************************)
(* The thread pool for any number of workers and tasks: no wakeup is lost, *)
(* and a pool with at least one worker implements TaskPool.                *)
(***************************************************************************)
EXTENDS ThreadPool, FiniteSetTheorems, TLAPS

(* The inductive invariant for the wakeups.  stop_ is set together with the *)
(* first step of the destructor: without this a worker could be thought to  *)
(* go to sleep after notify_all.  A worker in task() has a task: without    *)
(* this the type of `finished' is not preserved.                            *)
StopIsDestruction == stop <=> dtor # "none"
RunsTask == \A w \in Worker : pc[w] = "run" => current[w] \in Task

WakeInv == NoLostWakeup /\ StopIsDestruction /\ RunsTask

-----------------------------------------------------------------------------
LEMMA CountAdd ==
  ASSUME NEW S, NEW x, IsFiniteSet(S), x \notin S
  PROVE  Cardinality(S) \in Nat /\ Cardinality(S \cup {x}) = Cardinality(S) + 1
BY FS_AddElement, FS_CardinalityType

LEMMA CountRemove ==
  ASSUME NEW S, NEW x, IsFiniteSet(S), x \in S
  PROVE  Cardinality(S) \in Nat /\ Cardinality(S \ {x}) = Cardinality(S) - 1
BY FS_RemoveElement, FS_CardinalityType

(* The sets that WorkConserving counts are finite, now and after a step.    *)
LEMMA Counted ==
  /\ IsFiniteSet(Awake) /\ Cardinality(Awake) \in Nat
  /\ IsFiniteSet(Notifying) /\ Cardinality(Notifying) \in Nat
<1>1. Awake \in SUBSET Worker /\ Notifying \in SUBSET Task BY DEF Awake, Notifying
<1> QED BY <1>1, FS_Subset, FS_CardinalityType, FinitelyMany

LEMMA CountedNext ==
  /\ IsFiniteSet(Awake') /\ Cardinality(Awake') \in Nat
  /\ IsFiniteSet(Notifying') /\ Cardinality(Notifying') \in Nat
<1>1. Awake' \in SUBSET Worker /\ Notifying' \in SUBSET Task BY DEF Awake, Notifying
<1> QED BY <1>1, FS_Subset, FS_CardinalityType, FinitelyMany

LEMMA InitWake == ASSUME Init PROVE WakeInv
<1>1. TypeOK
  <2>1. stop \in BOOLEAN BY Zenon DEF Init
  <2>2. tasks \in Seq(Task) /\ order \in Seq(Task) BY DEF Init
  <2> QED BY <2>1, <2>2 DEF Init, TypeOK
<1>2. Waiting = {} BY DEF Init, Waiting
<1>3. RunsTask BY DEF Init, RunsTask
<1> QED BY <1>1, <1>2, <1>3
        DEF Init, WakeInv, NoLostWakeup, WorkConserving, NobodySleepsThroughStop, StopIsDestruction

LEMMA NextType == ASSUME TypeOK, RunsTask, [Next]_vars PROVE TypeOK' /\ RunsTask'
<1> USE DEF TypeOK, RunsTask
<1>1. ASSUME NEW w \in Worker, WorkerStep(w) \/ SpuriousWakeup(w) PROVE TypeOK' /\ RunsTask'
  <2>1. CASE Sleep(w) \/ Exit(w) \/ SpuriousWakeup(w) BY <2>1 DEF Sleep, Exit, SpuriousWakeup
  <2>2. CASE Take(w)
    <3>1. Head(tasks) \in Task /\ Tail(tasks) \in Seq(Task) BY <2>2 DEF Take
    <3> QED BY <2>2, <3>1 DEF Take
  <2>3. CASE Finish(w)
    <3>1. finished' \in SUBSET Task BY <2>3 DEF Finish
    <3> QED BY <2>3, <3>1 DEF Finish
  <2> QED BY <1>1, <2>1, <2>2, <2>3 DEF WorkerStep
<1>2. ASSUME NEW t \in Task, Enqueue(t) \/ EnqueueThrows(t) \/ NotifyOne(t)
      PROVE  TypeOK' /\ RunsTask'
  <2>1. CASE Enqueue(t)
    <3>1. tasks' \in Seq(Task) /\ order' \in Seq(Task) BY <2>1 DEF Enqueue
    <3> QED BY <2>1, <3>1 DEF Enqueue
  <2>2. CASE EnqueueThrows(t) BY <2>2 DEF EnqueueThrows
  <2>3. CASE NotifyOne(t)
    <3>1. pc' = pc \/ \E w \in Worker : pc' = [pc EXCEPT ![w] = "lock"]
      BY <2>3 DEF NotifyOne, Waiting
    <3> QED BY <2>3, <3>1 DEF NotifyOne
  <2> QED BY <1>2, <2>1, <2>2, <2>3
<1>3. CASE Stop
  <2>1. stop' \in BOOLEAN BY <1>3, Zenon DEF Stop
  <2> QED BY <1>3, <2>1 DEF Stop
<1>4. CASE NotifyAll \/ Join \/ Terminated \/ UNCHANGED vars
  BY <1>4 DEF NotifyAll, Join, Terminated, vars
<1> QED BY <1>1, <1>2, <1>3, <1>4 DEF Next

(* One step of the pool keeps the count of WorkConserving: a push brings a  *)
(* notification with it, a notification a worker, a worker takes one task.  *)
LEMMA NextConserves == ASSUME WakeInv, [Next]_vars PROVE WorkConserving'
<1> USE DEF WorkConserving
<1>1. TypeOK /\ WorkConserving /\ Len(tasks) \in Nat BY DEF WakeInv, NoLostWakeup, TypeOK
<1> USE Counted, CountedNext
<1>2. ASSUME NEW w \in Worker, Sleep(w) \/ Exit(w) PROVE WorkConserving'
  <2>1. Len(tasks') = 0 BY <1>2 DEF Sleep, Exit, Ready
  <2> QED BY <2>1
<1>3. ASSUME NEW w \in Worker, Take(w) PROVE WorkConserving'
  <2>1. /\ Awake' = Awake \ {w} /\ w \in Awake /\ Notifying' = Notifying
        /\ Waiting' = Waiting
    BY <1>1, <1>3 DEF Take, Awake, Notifying, Waiting, TypeOK
  <2>2. Len(tasks') = Len(tasks) - 1 BY <1>1, <1>3 DEF Take, TypeOK
  <2>3. Cardinality(Awake') = Cardinality(Awake) - 1 BY <2>1, CountRemove
  <2> QED BY <1>1, <2>1, <2>2, <2>3
<1>4. ASSUME NEW w \in Worker, Finish(w) \/ SpuriousWakeup(w) PROVE WorkConserving'
  <2>1. /\ Awake' = Awake \cup {w} /\ w \notin Awake /\ Notifying' = Notifying
        /\ Waiting' \subseteq Waiting /\ tasks' = tasks
    BY <1>1, <1>4 DEF Finish, SpuriousWakeup, Awake, Notifying, Waiting, TypeOK
  <2> QED BY <1>1, <2>1, CountAdd
<1>5. ASSUME NEW t \in Task, Enqueue(t) PROVE WorkConserving'
  <2>1. /\ Notifying' = Notifying \cup {t} /\ t \notin Notifying /\ Awake' = Awake
        /\ Waiting' = Waiting
    BY <1>1, <1>5 DEF Enqueue, Awake, Notifying, Waiting, TypeOK
  <2>2. Len(tasks') = Len(tasks) + 1 BY <1>1, <1>5 DEF Enqueue, TypeOK
  <2> QED BY <1>1, <2>1, <2>2, CountAdd
<1>6. ASSUME NEW t \in Task, NotifyOne(t) PROVE WorkConserving'
  <2>1. CASE Waiting = {} BY <1>6, <2>1 DEF NotifyOne, Waiting
  <2>2. CASE Waiting # {}
    <3>1. PICK w \in Waiting : pc' = [pc EXCEPT ![w] = "lock"] BY <1>6, <2>2 DEF NotifyOne
    <3>2. /\ Awake' = Awake \cup {w} /\ w \notin Awake
          /\ Notifying' = Notifying \ {t} /\ t \in Notifying
          /\ tasks' = tasks
      BY <1>1, <1>6, <3>1 DEF NotifyOne, Awake, Notifying, Waiting, TypeOK
    <3>3. Cardinality(Awake') = Cardinality(Awake) + 1 BY <3>2, CountAdd
    <3>4. Cardinality(Notifying') = Cardinality(Notifying) - 1 BY <3>2, CountRemove
    <3> QED BY <1>1, <2>2, <3>2, <3>3, <3>4
  <2> QED BY <2>1, <2>2
<1>7. CASE NotifyAll BY <1>7 DEF NotifyAll, Waiting
<1>8. CASE Stop \/ Join \/ Terminated \/ UNCHANGED vars
            \/ \E t \in Task : EnqueueThrows(t)
  <2>1. tasks' = tasks /\ pc' = pc BY <1>8 DEF Stop, Join, Terminated, vars, EnqueueThrows
  <2>2. Notifying' = Notifying
    BY <1>1, <1>8 DEF Stop, Join, Terminated, vars, EnqueueThrows, Notifying, TypeOK
  <2> QED BY <1>1, <2>1, <2>2 DEF Awake, Waiting
<1> QED BY <1>2, <1>3, <1>4, <1>5, <1>6, <1>7, <1>8 DEF Next, WorkerStep

LEMMA NextWake == ASSUME WakeInv, [Next]_vars PROVE WakeInv'
<1>1. /\ TypeOK /\ RunsTask /\ NobodySleepsThroughStop /\ StopIsDestruction
  BY DEF WakeInv, NoLostWakeup
<1>2. TypeOK' /\ RunsTask' BY <1>1, NextType
<1>3. WorkConserving' BY NextConserves
<1>4. StopIsDestruction' /\ NobodySleepsThroughStop'
  <2> USE DEF StopIsDestruction, NobodySleepsThroughStop, Waiting, TypeOK
  <2>1. ASSUME NEW w \in Worker, WorkerStep(w) \/ SpuriousWakeup(w)
        PROVE  StopIsDestruction' /\ NobodySleepsThroughStop'
    BY <1>1, <2>1 DEF WorkerStep, SpuriousWakeup, Sleep, Exit, Take, Finish, Ready
  <2>2. ASSUME NEW t \in Task, Enqueue(t) \/ EnqueueThrows(t) \/ NotifyOne(t)
        PROVE  StopIsDestruction' /\ NobodySleepsThroughStop'
    BY <1>1, <2>2 DEF Enqueue, EnqueueThrows, NotifyOne
  <2>3. CASE Stop \/ NotifyAll \/ Join \/ Terminated \/ UNCHANGED vars
    BY <1>1, <2>3 DEF Stop, NotifyAll, Join, Terminated, vars
  <2> QED BY <2>1, <2>2, <2>3 DEF Next
<1> QED BY <1>2, <1>3, <1>4 DEF WakeInv, NoLostWakeup

THEOREM WakeInvariance == Spec => []WakeInv
BY InitWake, NextWake, PTL DEF Spec

(* However many threads the pool has and however many tasks are submitted:  *)
(* no worker sleeps while a task waits that nobody was woken for, and none  *)
(* sleeps when the destructor of ThreadPool joins.                          *)
THEOREM WakeupsAreKept == Spec => []NoLostWakeup
<1>1. WakeInv => NoLostWakeup BY DEF WakeInv
<1> QED BY <1>1, WakeInvariance, PTL

-----------------------------------------------------------------------------
(* The refinement of TaskPool.  How many tasks have been started.           *)
Started == Len(order) - Len(tasks)

(* tasks_ is the end of what enqueue() accepted, and no task is in it twice. *)
QueueIsRest ==
  /\ Started \in Nat
  /\ \A i \in 1..Len(tasks) : tasks[i] = order[Started + i]
  /\ \A i, j \in 1..Len(order) : order[i] = order[j] => i = j
  /\ \A i \in 1..Len(order) : caller[order[i]] # "before"

(* A started task is in the hands of one worker or has finished.            *)
StartedAreHeld ==
  /\ \A w \in Worker : pc[w] = "run" =>
       /\ current[w] \notin finished
       /\ \E i \in 1..Started : order[i] = current[w]
  /\ \A v, w \in Worker : pc[v] = "run" /\ pc[w] = "run" /\ current[v] = current[w] => v = w
  /\ \A i \in 1..Started :
       order[i] \in finished \/ \E w \in Worker : pc[w] = "run" /\ current[w] = order[i]
  /\ \A t \in finished : \E i \in 1..Started : order[i] = t

(* Workers leave only when the queue is drained, and it stays drained.      *)
ExitIsFinal ==
  /\ \A w \in Worker : pc[w] = "exit" => stop /\ tasks = << >>
  /\ dtor = "done" => \A w \in Worker : pc[w] = "exit"

PoolInv == WakeInv /\ QueueIsRest /\ StartedAreHeld /\ ExitIsFinal

PoolStep == [Pool!Next]_(Pool!vars)

LEMMA PoolFacts ==
  ASSUME PoolInv
  PROVE  /\ TypeOK /\ RunsTask /\ StopIsDestruction
         /\ QueueIsRest /\ StartedAreHeld /\ ExitIsFinal
         /\ Len(order) \in Nat /\ Len(tasks) \in Nat /\ Started \in Nat
         /\ Len(order) = Started + Len(tasks)
BY SMTT(30) DEF PoolInv, WakeInv, NoLostWakeup, TypeOK, QueueIsRest, Started

LEMMA InitPool == ASSUME Init PROVE PoolInv /\ Pool!Init
<1>1. WakeInv BY InitWake
<1>2. Started = 0 /\ Len(order) = 0 /\ Len(tasks) = 0 BY DEF Init, Started
<1>3. QueueIsRest BY <1>2 DEF QueueIsRest
<1>4. StartedAreHeld BY <1>2 DEF Init, StartedAreHeld
<1>5. ExitIsFinal BY DEF Init, ExitIsFinal
<1>6. Pool!Init BY <1>2 DEF Init, Pool!Init, Started
<1> QED BY <1>1, <1>3, <1>4, <1>5, <1>6 DEF PoolInv

(* A worker takes the first task of tasks_: TaskPool starts the next one.   *)
LEMMA TakeStarts ==
  ASSUME PoolInv, NEW w \in Worker, Take(w)
  PROVE  QueueIsRest' /\ StartedAreHeld' /\ ExitIsFinal' /\ Pool!Start
<1> DEFINE n == Started + 1
<1>1. /\ Len(tasks) > 0 /\ Len(tasks') = Len(tasks) - 1
      /\ \A i \in 1..Len(tasks') : tasks'[i] = tasks[i + 1]
      /\ Head(tasks) = tasks[1]
  BY PoolFacts DEF Take, TypeOK
<1>2. /\ pc[w] = "lock" /\ pc' = [pc EXCEPT ![w] = "run"]
      /\ current' = [current EXCEPT ![w] = Head(tasks)]
      /\ order' = order /\ finished' = finished /\ caller' = caller
      /\ stop' = stop /\ dtor' = dtor /\ tasks # << >>
  BY DEF Take
<1>3. Started' = n /\ n \in 1..Len(order) BY <1>1, <1>2, PoolFacts DEF Started
<1>4. order[n] = Head(tasks)
  BY <1>1, PoolFacts DEF QueueIsRest
<1>5. QueueIsRest'
  <2>1. ASSUME NEW i \in 1..Len(tasks') PROVE tasks'[i] = order[n + i]
    <3>1. i + 1 \in 1..Len(tasks) /\ Started + (i + 1) = n + i BY <1>1, PoolFacts
    <3> QED BY <1>1, <3>1, PoolFacts DEF QueueIsRest
  <2> QED BY <1>2, <1>3, <2>1, PoolFacts DEF QueueIsRest
<1>6. StartedAreHeld'
  <2>1. ASSUME NEW i \in 1..Started PROVE order[i] # order[n]
    BY <1>3, PoolFacts DEF QueueIsRest
  <2>2. order[n] \notin finished BY <2>1, PoolFacts DEF StartedAreHeld
  <2>3. /\ pc'[w] = "run" /\ current'[w] = order[n]
        /\ \A v \in Worker \ {w} : pc'[v] = pc[v] /\ current'[v] = current[v]
    BY <1>2, <1>4, PoolFacts DEF TypeOK
  <2>4. \A v \in Worker \ {w} : pc[v] = "run" => current[v] # order[n]
    BY <2>1, PoolFacts DEF StartedAreHeld
  <2>5. \A i \in 1..n : i = n \/ i \in 1..Started BY PoolFacts
  <2>6. 1..Started \subseteq 1..n /\ n \in 1..n BY PoolFacts
  <2>7. ASSUME NEW v \in Worker, pc'[v] = "run"
        PROVE  current'[v] \notin finished /\ \E i \in 1..n : order[i] = current'[v]
    <3>1. CASE v = w BY <2>2, <2>3, <2>6, <3>1
    <3>2. CASE v # w BY SMTT(30), <2>3, <2>6, <2>7, <3>2, PoolFacts DEF StartedAreHeld
    <3> QED BY <3>1, <3>2
  <2>8. ASSUME NEW u \in Worker, NEW v \in Worker,
               pc'[u] = "run", pc'[v] = "run", current'[u] = current'[v]
        PROVE  u = v
    BY <2>3, <2>4, <2>8, PoolFacts DEF StartedAreHeld
  <2>9. ASSUME NEW i \in 1..n
        PROVE  order[i] \in finished \/ \E v \in Worker : pc'[v] = "run" /\ current'[v] = order[i]
    <3>1. CASE i = n BY <2>3, <3>1
    <3>2. CASE i \in 1..Started
      <4>1. CASE order[i] \in finished BY <4>1
      <4>2. CASE \E v \in Worker : pc[v] = "run" /\ current[v] = order[i]
        <5>1. PICK v \in Worker : pc[v] = "run" /\ current[v] = order[i] BY <4>2
        <5> QED BY <1>2, <2>3, <5>1
      <4> QED BY <3>2, <4>1, <4>2, PoolFacts DEF StartedAreHeld
    <3> QED BY <2>5, <3>1, <3>2
  <2>10. \A t \in finished : \E i \in 1..n : order[i] = t
    BY <2>6, PoolFacts DEF StartedAreHeld
  <2> HIDE DEF n
  <2> QED BY <1>2, <1>3, <2>7, <2>8, <2>9, <2>10 DEF StartedAreHeld
<1>7. ExitIsFinal' BY <1>2, PoolFacts DEF ExitIsFinal, TypeOK
<1>8. Pool!Start
  <2>1. dtor # "done" BY <1>2, PoolFacts DEF ExitIsFinal
  <2> QED BY <1>1, <1>2, <1>3, <2>1, PoolFacts DEF Pool!Start, Started
<1> QED BY <1>5, <1>6, <1>7, <1>8

(* task() returns: TaskPool finishes a started task that had not finished.  *)
LEMMA FinishFinishes ==
  ASSUME PoolInv, NEW w \in Worker, Finish(w)
  PROVE  QueueIsRest' /\ StartedAreHeld' /\ ExitIsFinal' /\ Pool!Finish
<1>1. /\ pc[w] = "run" /\ pc' = [pc EXCEPT ![w] = "lock"]
      /\ current' = [current EXCEPT ![w] = NoTask]
      /\ finished' = finished \cup {current[w]}
      /\ order' = order /\ tasks' = tasks /\ caller' = caller
      /\ stop' = stop /\ dtor' = dtor
  BY DEF Finish
<1>2. Started' = Started BY <1>1 DEF Started
<1>3. QueueIsRest' BY <1>1, <1>2, PoolFacts DEF QueueIsRest
<1>4. PICK k \in 1..Started : order[k] = current[w] /\ current[w] \notin finished
  BY <1>1, PoolFacts DEF StartedAreHeld
<1>5. StartedAreHeld'
  <2>1. /\ pc'[w] = "lock"
        /\ \A v \in Worker \ {w} : pc'[v] = pc[v] /\ current'[v] = current[v]
    BY <1>1, PoolFacts DEF TypeOK
  <2>2. ASSUME NEW v \in Worker, pc'[v] = "run"
        PROVE  current'[v] \notin finished' /\ \E i \in 1..Started : order[i] = current'[v]
    BY <1>1, <2>1, <2>2, PoolFacts DEF StartedAreHeld
  <2>3. ASSUME NEW u \in Worker, NEW v \in Worker,
               pc'[u] = "run", pc'[v] = "run", current'[u] = current'[v]
        PROVE  u = v
    BY <2>1, <2>3, PoolFacts DEF StartedAreHeld
  <2>4. ASSUME NEW i \in 1..Started
        PROVE  order[i] \in finished' \/ \E v \in Worker : pc'[v] = "run" /\ current'[v] = order[i]
    <3>1. CASE order[i] \in finished BY <1>1, <3>1
    <3>2. CASE \E v \in Worker : pc[v] = "run" /\ current[v] = order[i]
      <4>1. PICK v \in Worker : pc[v] = "run" /\ current[v] = order[i] BY <3>2
      <4> QED BY <1>1, <2>1, <4>1
    <3> QED BY <3>1, <3>2, PoolFacts DEF StartedAreHeld
  <2>5. \A t \in finished' : \E i \in 1..Started : order[i] = t
    BY <1>1, <1>4, PoolFacts DEF StartedAreHeld
  <2> QED BY <1>1, <1>2, <2>2, <2>3, <2>4, <2>5 DEF StartedAreHeld
<1>6. ExitIsFinal' BY <1>1, PoolFacts DEF ExitIsFinal, TypeOK
<1>7. Pool!Finish
  <2>1. dtor # "done" BY <1>1, PoolFacts DEF ExitIsFinal
  <2> QED BY <1>1, <1>2, <1>4, <2>1 DEF Pool!Finish, Started
<1> QED BY <1>3, <1>5, <1>6, <1>7

(* enqueue() accepts a task: so does TaskPool.                              *)
LEMMA EnqueueSubmits ==
  ASSUME PoolInv, NEW t \in Task, Enqueue(t)
  PROVE  QueueIsRest' /\ StartedAreHeld' /\ ExitIsFinal' /\ Pool!Submit
<1> DEFINE n == Len(order) + 1
           m == Len(tasks) + 1
<1>1. /\ caller[t] = "before" /\ caller' = [caller EXCEPT ![t] = "notify"] /\ ~stop
      /\ tasks' = Append(tasks, t) /\ order' = Append(order, t)
      /\ stop' = stop /\ pc' = pc /\ current' = current /\ dtor' = dtor
      /\ finished' = finished
  BY DEF Enqueue
<1>2. /\ Len(tasks') = m /\ tasks'[m] = t /\ \A i \in 1..Len(tasks) : tasks'[i] = tasks[i]
      /\ Len(order') = n /\ order'[n] = t /\ \A i \in 1..Len(order) : order'[i] = order[i]
  BY <1>1, PoolFacts DEF TypeOK
<1>3. Started' = Started /\ 1..Started \subseteq 1..Len(order) BY <1>2, PoolFacts DEF Started
<1>4. \A i \in 1..Len(order) : order[i] # t /\ order[i] \in Task
  BY <1>1, PoolFacts DEF QueueIsRest, TypeOK
<1>5. /\ \A i \in 1..n : i = n \/ i \in 1..Len(order)
      /\ \A i \in 1..m : i = m \/ i \in 1..Len(tasks)
      /\ \A i \in 1..Len(tasks) : Started + i \in 1..Len(order)
      /\ Started + m = n
  BY PoolFacts
<1>6. QueueIsRest'
  <2>1. ASSUME NEW i \in 1..m PROVE tasks'[i] = order'[Started + i]
    <3>1. CASE i = m BY <1>2, <1>5, <3>1
    <3>2. CASE i \in 1..Len(tasks) BY <1>2, <1>5, <3>2, PoolFacts DEF QueueIsRest
    <3> QED BY <1>5, <3>1, <3>2
  <2>2. ASSUME NEW i \in 1..n, NEW j \in 1..n, order'[i] = order'[j] PROVE i = j
    BY <1>2, <1>4, <1>5, <2>2, PoolFacts DEF QueueIsRest
  <2>3. ASSUME NEW i \in 1..n PROVE caller'[order'[i]] # "before"
    BY <1>1, <1>2, <1>4, <1>5, PoolFacts DEF QueueIsRest, TypeOK
  <2> QED BY <1>2, <1>3, <2>1, <2>2, <2>3, PoolFacts DEF QueueIsRest
<1>7. StartedAreHeld'
  <2>1. \A i \in 1..Started : order'[i] = order[i] BY <1>2, <1>3
  <2> QED BY <1>1, <1>3, <2>1, PoolFacts DEF StartedAreHeld
<1>8. ExitIsFinal' BY <1>1, PoolFacts DEF ExitIsFinal
<1>9. Pool!Submit
  <2>1. dtor = "none" BY <1>1, PoolFacts DEF StopIsDestruction
  <2> QED BY <1>1, <1>3, <2>1 DEF Pool!Submit, Started
<1> QED BY <1>6, <1>7, <1>8, <1>9

(* Steps that move no task.                                                 *)
LEMMA OthersKeepTasks ==
  ASSUME PoolInv, UNCHANGED <<tasks, order, current, finished>>,
         \A t \in Task : caller[t] # "before" => caller'[t] # "before",
         \A w \in Worker : pc'[w] = "run" <=> pc[w] = "run"
  PROVE  QueueIsRest' /\ StartedAreHeld' /\ Started' = Started
<1>1. Started' = Started /\ \A i \in 1..Len(order) : order[i] \in Task
  BY PoolFacts DEF Started, TypeOK
<1>2. QueueIsRest' BY <1>1, PoolFacts DEF QueueIsRest
<1>3. StartedAreHeld' BY <1>1, PoolFacts DEF StartedAreHeld
<1> QED BY <1>1, <1>2, <1>3

(* ~ThreadPool returns: with a worker there was, every task has run.        *)
LEMMA JoinVanishes ==
  ASSUME PoolInv, Worker # {}, Join
  PROVE  ExitIsFinal' /\ Pool!Vanish
<1>1. /\ dtor = "join" /\ dtor' = "done" /\ \A w \in Worker : pc[w] = "exit"
      /\ UNCHANGED <<tasks, stop, pc, order, finished>>
  BY DEF Join
<1>2. tasks = << >> /\ stop BY <1>1, PoolFacts DEF ExitIsFinal
<1>3. Started = Len(order) BY <1>2, PoolFacts
<1>4. finished = {order[i] : i \in 1..Len(order)}
  BY <1>1, <1>3, PoolFacts DEF StartedAreHeld
<1>5. Pool!Vanish BY <1>1, <1>2, <1>4 DEF Pool!Vanish
<1>6. ExitIsFinal' BY <1>1, <1>2 DEF ExitIsFinal
<1> QED BY <1>5, <1>6

(* Every step of a pool with workers keeps the invariant and is a step of   *)
(* TaskPool or leaves it as it is.                                          *)
LEMMA NextSimulates ==
  ASSUME PoolInv, Worker # {}, [Next]_vars
  PROVE  PoolInv' /\ PoolStep
<1>1. WakeInv' BY NextWake DEF PoolInv
<1>2. ASSUME NEW w \in Worker, Take(w) PROVE PoolInv' /\ PoolStep
  BY <1>1, <1>2, TakeStarts DEF PoolInv, PoolStep, Pool!Next
<1>3. ASSUME NEW w \in Worker, Finish(w) PROVE PoolInv' /\ PoolStep
  BY <1>1, <1>3, FinishFinishes DEF PoolInv, PoolStep, Pool!Next
<1>4. ASSUME NEW t \in Task, Enqueue(t) PROVE PoolInv' /\ PoolStep
  BY <1>1, <1>4, EnqueueSubmits DEF PoolInv, PoolStep, Pool!Next
<1>5. ASSUME NEW w \in Worker, Sleep(w) \/ Exit(w) \/ SpuriousWakeup(w) PROVE PoolInv' /\ PoolStep
  <2>1. /\ UNCHANGED <<tasks, order, current, finished, caller, stop, dtor>>
        /\ \A v \in Worker : pc'[v] = "run" <=> pc[v] = "run"
    BY <1>5, PoolFacts DEF Sleep, Exit, SpuriousWakeup, TypeOK
  <2>2. QueueIsRest' /\ StartedAreHeld' /\ Started' = Started BY <2>1, OthersKeepTasks
  <2>3. ExitIsFinal' BY <1>5, PoolFacts DEF Sleep, Exit, SpuriousWakeup, ExitIsFinal, TypeOK
  <2>4. PoolStep BY <2>1, <2>2 DEF PoolStep, Pool!vars, Started
  <2> QED BY <1>1, <2>2, <2>3, <2>4 DEF PoolInv
<1>6. ASSUME NEW t \in Task, EnqueueThrows(t) \/ NotifyOne(t) PROVE PoolInv' /\ PoolStep
  <2>1. /\ UNCHANGED <<tasks, order, current, finished, stop, dtor>>
        /\ \A u \in Task : caller[u] # "before" => caller'[u] # "before"
        /\ \A v \in Worker : pc'[v] = "run" <=> pc[v] = "run"
        /\ \A v \in Worker : pc'[v] = "exit" <=> pc[v] = "exit"
    BY <1>6, PoolFacts DEF EnqueueThrows, NotifyOne, Waiting, TypeOK
  <2>2. QueueIsRest' /\ StartedAreHeld' /\ Started' = Started BY <2>1, OthersKeepTasks
  <2>3. ExitIsFinal' BY <2>1, PoolFacts DEF ExitIsFinal
  <2>4. PoolStep BY <2>1, <2>2 DEF PoolStep, Pool!vars, Started
  <2> QED BY <1>1, <2>2, <2>3, <2>4 DEF PoolInv
<1>7. CASE Stop
  <2>1. /\ UNCHANGED <<tasks, order, current, finished, caller, pc>>
        /\ ~stop /\ stop' /\ dtor = "none" /\ dtor' = "notify"
    BY <1>7, PoolFacts DEF Stop, StopIsDestruction
  <2>2. QueueIsRest' /\ StartedAreHeld' /\ Started' = Started BY <2>1, OthersKeepTasks
  <2>3. ExitIsFinal' BY <2>1, PoolFacts DEF ExitIsFinal
  <2>4. Pool!Close BY <2>1, <2>2 DEF Pool!Close, Started
  <2> QED BY <1>1, <2>2, <2>3, <2>4 DEF PoolInv, PoolStep, Pool!Next
<1>8. CASE NotifyAll
  <2>1. /\ UNCHANGED <<tasks, order, current, finished, caller, stop>>
        /\ dtor = "notify" /\ dtor' = "join"
        /\ \A v \in Worker : pc'[v] = "run" <=> pc[v] = "run"
        /\ \A v \in Worker : pc'[v] = "exit" <=> pc[v] = "exit"
    BY <1>8, PoolFacts DEF NotifyAll, TypeOK
  <2>2. QueueIsRest' /\ StartedAreHeld' /\ Started' = Started BY <2>1, OthersKeepTasks
  <2>3. ExitIsFinal' BY <2>1, PoolFacts DEF ExitIsFinal
  <2>4. PoolStep BY <2>1, <2>2 DEF PoolStep, Pool!vars, Started
  <2> QED BY <1>1, <2>2, <2>3, <2>4 DEF PoolInv
<1>9. CASE Join
  <2>1. UNCHANGED <<tasks, order, current, finished, caller, pc>> BY <1>9 DEF Join
  <2>2. QueueIsRest' /\ StartedAreHeld' BY <2>1, OthersKeepTasks
  <2> QED BY <1>1, <1>9, <2>2, JoinVanishes DEF PoolInv, PoolStep, Pool!Next
<1>10. CASE Terminated \/ UNCHANGED vars
  <2>1. UNCHANGED vars BY <1>10 DEF Terminated
  <2>2. UNCHANGED <<tasks, order, current, finished, caller, pc, stop, dtor>> BY <2>1 DEF vars
  <2>3. QueueIsRest' /\ StartedAreHeld' /\ Started' = Started BY <2>2, OthersKeepTasks
  <2>4. ExitIsFinal' BY <2>2, PoolFacts DEF ExitIsFinal
  <2>5. PoolStep BY <2>2, <2>3 DEF PoolStep, Pool!vars, Started
  <2> QED BY <1>1, <2>3, <2>4, <2>5 DEF PoolInv
<1> QED BY <1>2, <1>3, <1>4, <1>5, <1>6, <1>7, <1>8, <1>9, <1>10 DEF Next, WorkerStep

(* A pool with at least one worker implements TaskPool: tasks start in the  *)
(* order enqueue() accepted them, each once, none is accepted after stop_,  *)
(* and ~ThreadPool returns only when all of them have run.  For a pool of   *)
(* no workers, which the constructor permits, this is false: its destructor *)
(* returns with tasks still queued.                                         *)
THEOREM PoolRefinesTaskPool ==
  ASSUME Worker # {} PROVE Spec => ImplementsTaskPool
<1>1. PoolInv /\ [Next]_vars => PoolInv' /\ PoolStep BY NextSimulates
<1>2. Init => PoolInv /\ Pool!Init BY InitPool
<1> QED BY <1>1, <1>2, PTL DEF Spec, ImplementsTaskPool, Pool!Spec, PoolStep
=============================================================================
