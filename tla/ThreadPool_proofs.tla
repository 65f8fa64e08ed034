--------------------------- MODULE ThreadPool_proofs ---------------------------
(***************************************************************************)
(* Proofs about ThreadPool, for any finite pool and any set of tasks.      *)
(***************************************************************************)
EXTENDS ThreadPool, FiniteSetTheorems, TLAPS

LEMMA InitTypeOK == Init => TypeOK
<1> SUFFICES ASSUME Init PROVE TypeOK
  OBVIOUS
<1>1. HasTaskWhileRunning
  BY DEF Init, HasTaskWhileRunning
<1>2. tasks \in Seq(Task)
  BY DEF Init
<1> QED
  BY <1>1, <1>2 DEF Init, TypeOK, Place, Status

LEMMA NextTypeOK == TypeOK /\ [Next]_vars => TypeOK'
<1> SUFFICES ASSUME TypeOK, [Next]_vars PROVE TypeOK'
  OBVIOUS
<1> USE PoolAssumption DEF TypeOK, Place, Status
<1>1. ASSUME NEW t \in Task, Push(t) PROVE TypeOK'
  <2>1. HasTaskWhileRunning'
    BY <1>1 DEF Push, HasTaskWhileRunning
  <2>2. <<t>> \o tasks \in Seq(Task) /\ Append(tasks, t) \in Seq(Task)
    <3>1. <<t>> \in Seq(Task)
      OBVIOUS
    <3> QED
      BY <3>1
  <2>3. tasks' \in Seq(Task)
    BY <1>1, <2>2 DEF Push
  <2> QED
    BY <1>1, <2>1, <2>3 DEF Push
<1>2. ASSUME NEW t \in Task, NotifyOne(t) PROVE TypeOK'
  <2>1. HasTaskWhileRunning' /\ at' \in [Worker -> Place]
    BY <1>2 DEF NotifyOne, Where, HasTaskWhileRunning
  <2> QED
    BY <1>2, <2>1 DEF NotifyOne
<1>3. ASSUME NEW t \in Raisable, RaiseTask(t) PROVE TypeOK'
  <2>1. HasTaskWhileRunning'
    BY <1>3 DEF RaiseTask, HasTaskWhileRunning
  <2>2. PICK i \in 2..Len(tasks) :
          /\ tasks[i] = t
          /\ tasks' = [j \in 1..Len(tasks) |->
                        IF j = 1 THEN t ELSE IF j <= i THEN tasks[j - 1] ELSE tasks[j]]
    BY <1>3 DEF RaiseTask
  <2>3. tasks' \in Seq(Task)
    <3>1. \A j \in 1..Len(tasks) : tasks'[j] \in Task
      BY <2>2
    <3> QED
      BY <2>2, <3>1
  <2> QED
    BY <1>3, <2>1, <2>3 DEF RaiseTask
<1>4. ASSUME NEW w \in Worker, TakeTask(w) PROVE TypeOK'
  <2>1. Head(tasks) \in Task /\ Tail(tasks) \in Seq(Task)
    BY <1>4 DEF TakeTask
  <2>2. HasTaskWhileRunning'
    BY <1>4, <2>1 DEF TakeTask, HasTaskWhileRunning
  <2> QED
    BY <1>4, <2>1, <2>2 DEF TakeTask
<1>5. ASSUME NEW w \in Worker, Exit(w) \/ FindNothing(w) \/ Sleep(w) \/ SpuriousWakeup(w)
      PROVE TypeOK'
  <2>1. HasTaskWhileRunning'
    BY <1>5 DEF Exit, FindNothing, Sleep, SpuriousWakeup, AtLock, HasTaskWhileRunning
  <2> QED
    BY <1>5, <2>1 DEF Exit, FindNothing, Sleep, SpuriousWakeup
<1>6. ASSUME NEW w \in Worker, FinishTask(w) PROVE TypeOK'
  <2>1. running[w] \in Task
    BY <1>6 DEF FinishTask, HasTaskWhileRunning
  <2>2. HasTaskWhileRunning'
    BY <1>6 DEF FinishTask, HasTaskWhileRunning
  <2> QED
    BY <1>6, <2>1, <2>2 DEF FinishTask
<1>7. ASSUME Destructor PROVE TypeOK'
  <2>1. HasTaskWhileRunning'
    BY <1>7 DEF Destructor, Stop, NotifyAll, Join, HasTaskWhileRunning
  <2> QED
    BY <1>7, <2>1 DEF Destructor, Stop, NotifyAll, Join
<1>8. ASSUME UNCHANGED vars PROVE TypeOK'
  BY <1>8 DEF vars, HasTaskWhileRunning
<1> QED
  BY <1>1, <1>2, <1>3, <1>4, <1>5, <1>6, <1>7, <1>8 DEF Next, WorkerStep

\* Type correctness, for any pool.
THEOREM TypeCorrect == Spec => []TypeOK
<1>1. TypeOK /\ [Next]_vars => TypeOK'
  BY NextTypeOK
<1> QED
  BY InitTypeOK, <1>1, PTL DEF Spec
-------------------------------------------------------------------------------
(***************************************************************************)
(* The inductive invariant.  RunsOnce needs nothing but the types; what    *)
(* the destructor and the wakeups promise rests on three facts about the   *)
(* deque being empty: while a worker is about to wait (it holds the mutex, *)
(* so nothing can be pushed), and once a worker has left (stop_ is set, so *)
(* nothing is accepted any more).                                          *)
(***************************************************************************)
StopExactly == stop <=> dtor # "no"
WaitsOnEmpty == \A w \in Worker : at[w] = "wait" => tasks = <<>>
ExitsOnEmpty == \A w \in Worker : at[w] = "exit" => stop /\ tasks = <<>>
JoinedExited == dtor = "joined" => \A w \in Worker : at[w] = "exit"

EmptyInv == StopExactly /\ WaitsOnEmpty /\ ExitsOnEmpty /\ JoinedExited

\* A notification is owed for a task that was pushed: a push owes a new one.
NotifyingPushed == \A t \in notifying : status[t] # "new"

IInv == TypeOK /\ RunsOnce /\ EmptyInv /\ NotifyingPushed /\ EnoughAwake

LEMMA InitRunsOnce == Init => RunsOnce
  BY PoolAssumption DEF Init, RunsOnce, InDequeOnce, QueuedExactly, OnOneWorker, RunningExactly

LEMMA PushRunsOnce ==
  ASSUME TypeOK, RunsOnce, NEW t \in Task, Push(t)
  PROVE  RunsOnce'
<1> USE DEF RunsOnce
<1>1. CASE stop
  <2>1. status' = [status EXCEPT ![t] = "refused"] /\ status[t] = "new"
    BY <1>1 DEF Push
  <2>2. tasks' = tasks /\ running' = running
    BY <1>1 DEF Push
  <2>3. InDequeOnce' /\ OnOneWorker'
    BY <2>2 DEF InDequeOnce, OnOneWorker
  <2>4. QueuedExactly'
    BY <2>1, <2>2 DEF QueuedExactly, TypeOK
  <2>5. RunningExactly'
    BY <2>1, <2>2 DEF RunningExactly, TypeOK
  <2> QED
    BY <2>3, <2>4, <2>5
<1>2. CASE ~stop
  <2>1. /\ status' = [status EXCEPT ![t] = "queued"] /\ status[t] = "new"
        /\ running' = running
        /\ status \in [Task -> Status] /\ tasks \in Seq(Task)
    BY <1>2 DEF Push, TypeOK
  <2>2. \A i \in DOMAIN tasks : tasks[i] # t
    BY <2>1 DEF QueuedExactly
  <2>3. OnOneWorker' /\ RunningExactly'
    BY <2>1 DEF OnOneWorker, RunningExactly
  <2>4. CASE t \in FrontTask
    <3>1. tasks' = <<t>> \o tasks
      BY <1>2, <2>4 DEF Push
    <3>2. /\ DOMAIN tasks' = 1..(Len(tasks) + 1)
          /\ tasks'[1] = t
          /\ \A i \in 2..(Len(tasks) + 1) : tasks'[i] = tasks[i - 1] /\ i - 1 \in DOMAIN tasks
      <4>1. <<t>> \in Seq(Task) /\ Len(<<t>>) = 1
        OBVIOUS
      <4> QED
        BY <2>1, <3>1, <4>1
    <3>3. InDequeOnce'
      BY <2>1, <2>2, <3>2 DEF InDequeOnce
    <3>4. \A i \in DOMAIN tasks : i + 1 \in DOMAIN tasks' /\ tasks'[i + 1] = tasks[i]
      BY <2>1, <3>2
    <3>5. \A u \in Task : (\E i \in DOMAIN tasks' : tasks'[i] = u)
                          <=> u = t \/ \E i \in DOMAIN tasks : tasks[i] = u
      BY <3>2, <3>4
    <3>6. QueuedExactly'
      BY <2>1, <3>5 DEF QueuedExactly
    <3> QED
      BY <2>3, <3>3, <3>6
  <2>5. CASE t \notin FrontTask
    <3>1. tasks' = Append(tasks, t)
      BY <1>2, <2>5 DEF Push
    <3>2. /\ DOMAIN tasks' = 1..(Len(tasks) + 1)
          /\ tasks'[Len(tasks) + 1] = t
          /\ \A i \in DOMAIN tasks : tasks'[i] = tasks[i] /\ i \in DOMAIN tasks'
          /\ DOMAIN tasks = 1..Len(tasks)
      BY <2>1, <3>1
    <3>3. InDequeOnce'
      BY <2>1, <2>2, <3>2 DEF InDequeOnce
    <3>4. \A u \in Task : (\E i \in DOMAIN tasks' : tasks'[i] = u)
                          <=> u = t \/ \E i \in DOMAIN tasks : tasks[i] = u
      BY <2>1, <3>2
    <3>5. QueuedExactly'
      BY <2>1, <3>4 DEF QueuedExactly
    <3> QED
      BY <2>3, <3>3, <3>5
  <2> QED
    BY <2>4, <2>5
<1> QED
  BY <1>1, <1>2

LEMMA RaiseRunsOnce ==
  ASSUME TypeOK, RunsOnce, NEW t \in Raisable, RaiseTask(t)
  PROVE  RunsOnce'
<1> USE DEF RunsOnce
<1>1. PICK i \in 2..Len(tasks) :
        /\ tasks[i] = t
        /\ tasks' = [j \in 1..Len(tasks) |->
                      IF j = 1 THEN t ELSE IF j <= i THEN tasks[j - 1] ELSE tasks[j]]
  BY DEF RaiseTask
<1>2. /\ tasks \in Seq(Task) /\ DOMAIN tasks = 1..Len(tasks) /\ DOMAIN tasks' = 1..Len(tasks)
      /\ UNCHANGED <<status, running>>
  BY <1>1 DEF RaiseTask, TypeOK
<1> DEFINE from(j) == IF j = 1 THEN i ELSE IF j <= i THEN j - 1 ELSE j
           to(j) == IF j = i THEN 1 ELSE IF j < i THEN j + 1 ELSE j
<1>3. \A j \in 1..Len(tasks) : from(j) \in 1..Len(tasks) /\ tasks'[j] = tasks[from(j)]
  BY <1>1, <1>2
<1>4. \A j \in 1..Len(tasks) : to(j) \in 1..Len(tasks) /\ from(to(j)) = j
  BY <1>2
<1>5. \A j, k \in 1..Len(tasks) : from(j) = from(k) => j = k
  BY <1>2
<1>6. InDequeOnce'
  BY <1>2, <1>3, <1>5 DEF InDequeOnce
<1>7. \A u \in Task : (\E j \in DOMAIN tasks' : tasks'[j] = u)
                      <=> \E j \in DOMAIN tasks : tasks[j] = u
  <2> HIDE DEF from, to
  <2> QED
    BY <1>2, <1>3, <1>4
<1>8. QueuedExactly'
  BY <1>2, <1>7 DEF QueuedExactly
<1> QED
  BY <1>2, <1>6, <1>8 DEF OnOneWorker, RunningExactly

LEMMA TakeRunsOnce ==
  ASSUME TypeOK, RunsOnce, NEW w \in Worker, TakeTask(w)
  PROVE  RunsOnce'
<1> USE PoolAssumption DEF RunsOnce
<1> DEFINE t == Head(tasks)
<1>1. /\ tasks \in Seq(Task) /\ tasks # <<>> /\ tasks' = Tail(tasks)
      /\ t \in Task /\ t = tasks[1] /\ 1 \in DOMAIN tasks /\ t # NoTask
      /\ running \in [Worker -> Task \cup {NoTask}] /\ running[w] = NoTask
      /\ running' = [running EXCEPT ![w] = t]
      /\ status \in [Task -> Status] /\ status' = [status EXCEPT ![t] = "running"]
  BY DEF TakeTask, TypeOK, AtLock, HasTaskWhileRunning
<1>2. /\ DOMAIN tasks = 1..Len(tasks) /\ DOMAIN tasks' = 1..(Len(tasks) - 1) /\ Len(tasks) \in Nat
      /\ \A i \in DOMAIN tasks' : tasks'[i] = tasks[i + 1] /\ i + 1 \in DOMAIN tasks
      /\ \A i \in DOMAIN tasks : i # 1 => i - 1 \in DOMAIN tasks' /\ tasks'[i - 1] = tasks[i]
  BY <1>1
<1>3. status[t] = "queued"
  BY <1>1 DEF QueuedExactly
<1>4. \A v \in Worker : running[v] # t
  BY <1>1, <1>3 DEF RunningExactly
<1> HIDE DEF t
<1>5. InDequeOnce'
  BY <1>2 DEF InDequeOnce
<1>6. \A u \in Task : (\E i \in DOMAIN tasks' : tasks'[i] = u)
                      <=> u # t /\ \E i \in DOMAIN tasks : tasks[i] = u
  <2>1. \A i \in DOMAIN tasks' : tasks'[i] # t
    <3> SUFFICES ASSUME NEW i \in DOMAIN tasks', tasks'[i] = t PROVE FALSE
      OBVIOUS
    <3>1. tasks[i + 1] = tasks[1] /\ i + 1 \in DOMAIN tasks /\ i + 1 # 1
      BY <1>1, <1>2
    <3> QED
      BY <1>1, <3>1 DEF InDequeOnce
  <2>2. ASSUME NEW i \in DOMAIN tasks, tasks[i] # t
        PROVE  \E j \in DOMAIN tasks' : tasks'[j] = tasks[i]
    <3>1. i # 1
      BY <1>1, <2>2
    <3> QED
      BY <1>2, <3>1
  <2>3. \A i \in DOMAIN tasks' : \E j \in DOMAIN tasks : tasks[j] = tasks'[i]
    BY <1>2
  <2> QED
    BY <2>1, <2>2, <2>3
<1>7. QueuedExactly'
  BY <1>1, <1>6 DEF QueuedExactly
<1>8. OnOneWorker'
  BY <1>1, <1>4 DEF OnOneWorker
<1>9. RunningExactly'
  BY <1>1, <1>4 DEF RunningExactly
<1> QED
  BY <1>5, <1>7, <1>8, <1>9

LEMMA FinishRunsOnce ==
  ASSUME TypeOK, RunsOnce, NEW w \in Worker, FinishTask(w)
  PROVE  RunsOnce'
<1> USE PoolAssumption DEF RunsOnce
<1>1. /\ running \in [Worker -> Task \cup {NoTask}] /\ running[w] \in Task
      /\ running' = [running EXCEPT ![w] = NoTask]
      /\ status \in [Task -> Status] /\ status' = [status EXCEPT ![running[w]] = "done"]
      /\ tasks' = tasks
  BY DEF FinishTask, TypeOK, HasTaskWhileRunning
<1>2. status[running[w]] = "running"
  BY <1>1 DEF RunningExactly
<1>3. InDequeOnce' /\ QueuedExactly'
  BY <1>1, <1>2 DEF InDequeOnce, QueuedExactly
<1>4. OnOneWorker'
  BY <1>1 DEF OnOneWorker
<1>5. RunningExactly'
  BY <1>1 DEF RunningExactly, OnOneWorker
<1> QED
  BY <1>3, <1>4, <1>5

LEMMA NextRunsOnce == TypeOK /\ RunsOnce /\ [Next]_vars => RunsOnce'
<1> SUFFICES ASSUME TypeOK, RunsOnce, [Next]_vars PROVE RunsOnce'
  OBVIOUS
<1>1. ASSUME UNCHANGED <<tasks, running, status>> PROVE RunsOnce'
  BY <1>1 DEF RunsOnce, InDequeOnce, QueuedExactly, OnOneWorker, RunningExactly
<1>2. ASSUME NEW t \in Task, NotifyOne(t) PROVE RunsOnce'
  BY <1>1, <1>2 DEF NotifyOne
<1>3. ASSUME NEW w \in Worker, Exit(w) \/ FindNothing(w) \/ Sleep(w) \/ SpuriousWakeup(w)
      PROVE RunsOnce'
  BY <1>1, <1>3 DEF Exit, FindNothing, Sleep, SpuriousWakeup
<1>4. ASSUME Destructor \/ UNCHANGED vars PROVE RunsOnce'
  BY <1>1, <1>4 DEF Destructor, Stop, NotifyAll, Join, vars
<1> QED
  BY <1>2, <1>3, <1>4, PushRunsOnce, RaiseRunsOnce, TakeRunsOnce, FinishRunsOnce
  DEF Next, WorkerStep

\* No task runs twice, in a pool of any size, whatever is raised or pushed in front.
THEOREM NoTaskRunsTwice == Spec => []RunsOnce
<1>1. TypeOK /\ RunsOnce /\ [Next]_vars => (TypeOK /\ RunsOnce)'
  BY NextTypeOK, NextRunsOnce
<1> QED
  BY InitTypeOK, InitRunsOnce, <1>1, PTL DEF Spec
-------------------------------------------------------------------------------
(***************************************************************************)
(* The facts about an empty deque.                                         *)
(***************************************************************************)
LEMMA InitEmptyInv == Init => EmptyInv
  BY DEF Init, EmptyInv, StopExactly, WaitsOnEmpty, ExitsOnEmpty, JoinedExited

LEMMA NextEmptyInv == TypeOK /\ EmptyInv /\ [Next]_vars => EmptyInv'
<1> SUFFICES ASSUME TypeOK, EmptyInv, [Next]_vars PROVE EmptyInv'
  OBVIOUS
<1> USE DEF EmptyInv, StopExactly, WaitsOnEmpty, ExitsOnEmpty, JoinedExited
<1>t. at \in [Worker -> Place] /\ tasks \in Seq(Task)
  BY DEF TypeOK
<1>1. ASSUME NEW t \in Task, Push(t) PROVE EmptyInv'
  <2>1. \A w \in Worker : at[w] # "wait"
    BY <1>1 DEF Push, MutexFree, Where
  <2> QED
    BY <1>1, <2>1 DEF Push
<1>2. ASSUME NEW t \in Task, NotifyOne(t) PROVE EmptyInv'
  <2>1. UNCHANGED <<tasks, stop, dtor>> /\ at' \in [Worker -> Place]
        /\ \A w \in Worker : at'[w] # at[w] => at[w] = "asleep" /\ at'[w] = "lock"
    BY <1>t, <1>2 DEF NotifyOne, Where, Place
  <2> QED
    BY <2>1
<1>3. ASSUME NEW t \in Raisable, RaiseTask(t) PROVE EmptyInv'
  <2>1. tasks # <<>> /\ UNCHANGED <<stop, at, dtor>> /\ \A w \in Worker : at[w] # "wait"
    BY <1>3, <1>t DEF RaiseTask, MutexFree, Where
  <2> QED
    BY <2>1
<1>4. ASSUME NEW w \in Worker, TakeTask(w) PROVE EmptyInv'
  BY <1>4, <1>t DEF TakeTask, AtLock, MutexFree, Where
<1>5. ASSUME NEW w \in Worker,
             Exit(w) \/ FindNothing(w) \/ Sleep(w) \/ SpuriousWakeup(w) \/ FinishTask(w)
      PROVE  EmptyInv'
  BY <1>5, <1>t DEF Exit, FindNothing, Sleep, SpuriousWakeup, FinishTask, AtLock, MutexFree, Where
<1>6. ASSUME Destructor PROVE EmptyInv'
  BY <1>6, <1>t DEF Destructor, Stop, NotifyAll, Join
<1>7. ASSUME UNCHANGED vars PROVE EmptyInv'
  BY <1>7 DEF vars
<1> QED
  BY <1>1, <1>2, <1>3, <1>4, <1>5, <1>6, <1>7 DEF Next, WorkerStep

\* When the destructor has returned every task the pool accepted has been executed,
\* whatever the number of workers and tasks: the workers left with the deque empty.
THEOREM AcceptedTasksAreExecuted == Spec => []DestructorDrains
<1> DEFINE Inv == TypeOK /\ RunsOnce /\ EmptyInv
<1>1. Init => Inv
  BY InitTypeOK, InitRunsOnce, InitEmptyInv
<1>2. Inv /\ [Next]_vars => Inv'
  BY NextTypeOK, NextRunsOnce, NextEmptyInv
<1>3. Inv => DestructorDrains
  <2> SUFFICES ASSUME Inv, dtor = "joined", NEW t \in Task
               PROVE  status[t] \in {"new", "done", "refused"}
    BY DEF DestructorDrains
  <2>1. \A w \in Worker : at[w] = "exit" /\ tasks = <<>>
    BY DEF EmptyInv, JoinedExited, ExitsOnEmpty
  <2>2. \A w \in Worker : running[w] = NoTask
    BY <2>1 DEF TypeOK, HasTaskWhileRunning
  <2>3. status[t] # "running"
    BY <2>2, PoolAssumption DEF RunsOnce, RunningExactly
  <2>4. status[t] # "queued"
    <3>1. tasks = <<>>
      BY <2>1, PoolAssumption
    <3> QED
      BY <3>1 DEF RunsOnce, QueuedExactly
  <2> QED
    BY <2>3, <2>4 DEF TypeOK, Status
<1> QED
  BY <1>1, <1>2, <1>3, PTL DEF Spec

\* Every accepted task is executed once, by a pool of any size that is destroyed at
\* any moment.
THEOREM TasksAreExecutedOnce == Spec => []ExecutedOnce
  BY NoTaskRunsTwice, AcceptedTasksAreExecuted, PTL DEF ExecutedOnce
-------------------------------------------------------------------------------
(***************************************************************************)
(* No wakeup is lost.                                                      *)
(***************************************************************************)
LEMMA FinitePlaces ==
  ASSUME NEW place
  PROVE  IsFiniteSet(Where(place)) /\ Cardinality(Where(place)) \in Nat
<1>1. Where(place) \subseteq Worker
  BY DEF Where
<1> QED
  BY <1>1, PoolAssumption, FS_Subset, FS_CardinalityType

LEMMA NextNotifyingPushed == TypeOK /\ NotifyingPushed /\ [Next]_vars => NotifyingPushed'
<1> SUFFICES ASSUME TypeOK, NotifyingPushed, [Next]_vars PROVE NotifyingPushed'
  OBVIOUS
<1> USE DEF NotifyingPushed
<1>t. status \in [Task -> Status] /\ notifying \in SUBSET Task
      /\ \A w \in Worker : running[w] \in Task \cup {NoTask}
  BY DEF TypeOK
<1>1. ASSUME NEW t \in Task, Push(t) PROVE NotifyingPushed'
  BY <1>1, <1>t DEF Push
<1>2. ASSUME NEW t \in Task, NotifyOne(t) PROVE NotifyingPushed'
  BY <1>2 DEF NotifyOne
<1>3. ASSUME NEW w \in Worker, TakeTask(w) PROVE NotifyingPushed'
  BY <1>3, <1>t DEF TakeTask
<1>4. ASSUME NEW w \in Worker, FinishTask(w) PROVE NotifyingPushed'
  BY <1>4, <1>t DEF FinishTask
<1>5. ASSUME UNCHANGED <<status, notifying>> PROVE NotifyingPushed'
  BY <1>5
<1> QED
  BY <1>1, <1>2, <1>3, <1>4, <1>5
  DEF Next, WorkerStep, RaiseTask, Exit, FindNothing, Sleep, SpuriousWakeup,
      Destructor, Stop, NotifyAll, Join, vars

\* A worker that comes to the mutex makes one more awake.
LEMMA OneMoreAwake ==
  ASSUME TypeOK, NEW w \in Worker, at[w] # "lock", at' = [at EXCEPT ![w] = "lock"]
  PROVE  Cardinality(Where("lock")') = Cardinality(Where("lock")) + 1
<1>1. Where("lock")' = Where("lock") \cup {w} /\ w \notin Where("lock")
  BY DEF Where, TypeOK
<1> QED
  BY <1>1, FinitePlaces, FS_AddElement

LEMMA TakeEnoughAwake ==
  ASSUME TypeOK, EnoughAwake, NEW w \in Worker, TakeTask(w)
  PROVE  EnoughAwake'
<1>1. at \in [Worker -> Place] /\ at[w] = "lock" /\ at' = [at EXCEPT ![w] = "run"]
      /\ tasks \in Seq(Task) /\ tasks # <<>> /\ tasks' = Tail(tasks) /\ notifying' = notifying
  BY DEF TakeTask, TypeOK, AtLock
<1>2. Where("asleep")' = Where("asleep")
  BY <1>1 DEF Where
<1>3. Where("lock")' = Where("lock") \ {w} /\ w \in Where("lock")
  BY <1>1 DEF Where
<1>4. Cardinality(Where("lock")') = Cardinality(Where("lock")) - 1
  BY <1>3, FinitePlaces, FS_RemoveElement
<1>5. Len(tasks') = Len(tasks) - 1 /\ Len(tasks) \in Nat
  BY <1>1
<1>6. Cardinality(Where("lock")) \in Nat /\ Cardinality(notifying) \in Nat
  BY FinitePlaces, PoolAssumption, FS_Subset, FS_CardinalityType DEF TypeOK
<1> QED
  BY <1>1, <1>2, <1>4, <1>5, <1>6 DEF EnoughAwake

LEMMA PushEnoughAwake ==
  ASSUME TypeOK, NotifyingPushed, EnoughAwake, NEW t \in Task, Push(t)
  PROVE  EnoughAwake'
<1>1. Where("asleep")' = Where("asleep") /\ Where("lock")' = Where("lock")
  BY DEF Push, Where
<1>2. CASE stop
  BY <1>1, <1>2 DEF Push, EnoughAwake
<1>3. CASE ~stop
  <2>1. tasks \in Seq(Task) /\ notifying' = notifying \cup {t} /\ t \notin notifying
        /\ tasks' = IF t \in FrontTask THEN <<t>> \o tasks ELSE Append(tasks, t)
    BY <1>3 DEF Push, TypeOK, NotifyingPushed
  <2>2. Len(tasks') = Len(tasks) + 1 /\ Len(tasks) \in Nat
    <3>1. <<t>> \in Seq(Task) /\ Len(<<t>>) = 1
      OBVIOUS
    <3> QED
      BY <2>1, <3>1
  <2>3. IsFiniteSet(notifying) /\ Cardinality(notifying) \in Nat
    BY PoolAssumption, FS_Subset, FS_CardinalityType DEF TypeOK
  <2>4. Cardinality(notifying') = Cardinality(notifying) + 1
    BY <2>1, <2>3, FS_AddElement
  <2> QED
    BY <1>1, <2>2, <2>3, <2>4, FinitePlaces DEF EnoughAwake
<1> QED
  BY <1>2, <1>3

LEMMA NotifyEnoughAwake ==
  ASSUME TypeOK, EnoughAwake, NEW t \in Task, NotifyOne(t)
  PROVE  EnoughAwake'
<1>1. t \in notifying /\ notifying' = notifying \ {t} /\ tasks' = tasks
  BY DEF NotifyOne
<1>2. IsFiniteSet(notifying) /\ Cardinality(notifying) \in Nat
  BY PoolAssumption, FS_Subset, FS_CardinalityType DEF TypeOK
<1>3. Cardinality(notifying') = Cardinality(notifying) - 1
  BY <1>1, <1>2, FS_RemoveElement
<1>4. CASE Where("asleep") = {}
  <2>1. Where("asleep")' = {}
    BY <1>4 DEF NotifyOne, Where
  <2> QED
    BY <2>1 DEF EnoughAwake
<1>5. CASE Where("asleep") # {}
  <2>1. PICK w \in Where("asleep") : at' = [at EXCEPT ![w] = "lock"]
    BY <1>5 DEF NotifyOne
  <2>2. w \in Worker /\ at[w] # "lock"
    BY DEF Where
  <2>3. Cardinality(Where("lock")') = Cardinality(Where("lock")) + 1
    BY <2>1, <2>2, OneMoreAwake
  <2>4. Len(tasks) \in Nat /\ Cardinality(Where("lock")) \in Nat
    BY FinitePlaces DEF TypeOK
  <2>5. Len(tasks) <= Cardinality(Where("lock")) + Cardinality(notifying)
    BY <1>5 DEF EnoughAwake
  <2> QED
    BY <1>1, <1>2, <1>3, <2>3, <2>4, <2>5 DEF EnoughAwake
<1> QED
  BY <1>4, <1>5

\* A worker that finished, or woke up with no reason, only adds to those awake.
LEMMA BackEnoughAwake ==
  ASSUME TypeOK, EnoughAwake, NEW w \in Worker, FinishTask(w) \/ SpuriousWakeup(w)
  PROVE  EnoughAwake'
<1>1. at[w] \in {"run", "asleep"} /\ at' = [at EXCEPT ![w] = "lock"]
      /\ UNCHANGED <<tasks, notifying>> /\ at \in [Worker -> Place]
  BY DEF FinishTask, SpuriousWakeup, TypeOK
<1>2. Where("asleep")' \subseteq Where("asleep")
  BY <1>1 DEF Where
<1>3. Cardinality(Where("lock")') = Cardinality(Where("lock")) + 1
  BY <1>1, OneMoreAwake
<1>4. Len(tasks) \in Nat /\ Cardinality(Where("lock")) \in Nat /\ Cardinality(notifying) \in Nat
  BY FinitePlaces, PoolAssumption, FS_Subset, FS_CardinalityType DEF TypeOK
<1> QED
  BY <1>1, <1>2, <1>3, <1>4 DEF EnoughAwake

\* With an empty deque nobody is needed.
LEMMA EmptyEnoughAwake ==
  ASSUME TypeOK', tasks' = <<>>
  PROVE  EnoughAwake'
<1>1. Cardinality(Where("lock")') \in Nat
  <2>1. Where("lock")' \subseteq Worker
    BY DEF Where
  <2> QED
    BY <2>1, PoolAssumption, FS_Subset, FS_CardinalityType
<1>2. Cardinality(notifying') \in Nat
  BY PoolAssumption, FS_Subset, FS_CardinalityType DEF TypeOK
<1>3. Len(tasks') = 0
  OBVIOUS
<1> QED
  BY <1>1, <1>2, <1>3 DEF EnoughAwake

LEMMA NextEnoughAwake == IInv /\ [Next]_vars => EnoughAwake'
<1> SUFFICES ASSUME IInv, [Next]_vars PROVE EnoughAwake'
  OBVIOUS
<1> USE DEF IInv
<1>1. TypeOK'
  BY NextTypeOK
<1>2. ASSUME NEW w \in Worker, Exit(w) \/ FindNothing(w) \/ Sleep(w) PROVE EnoughAwake'
  <2>1. tasks' = <<>>
    BY <1>2 DEF Exit, FindNothing, Sleep, EmptyInv, WaitsOnEmpty
  <2> QED
    BY <1>1, <2>1, EmptyEnoughAwake
<1>3. ASSUME NEW t \in Raisable, RaiseTask(t) PROVE EnoughAwake'
  <2>1. PICK i \in 2..Len(tasks) :
          tasks' = [j \in 1..Len(tasks) |->
                     IF j = 1 THEN t ELSE IF j <= i THEN tasks[j - 1] ELSE tasks[j]]
    BY <1>3 DEF RaiseTask
  <2>2. Len(tasks) \in Nat /\ DOMAIN tasks' = 1..Len(tasks) /\ tasks' \in Seq(Task)
    BY <1>1, <2>1 DEF TypeOK
  <2>3. Len(tasks') = Len(tasks)
    BY <2>2
  <2> QED
    BY <1>3, <2>3 DEF RaiseTask, EnoughAwake, Where
<1>4. ASSUME NotifyAll PROVE EnoughAwake'
  <2>1. Where("asleep")' = {}
    BY <1>4 DEF NotifyAll, Where, TypeOK
  <2> QED
    BY <2>1 DEF EnoughAwake
<1>5. ASSUME Stop \/ Join \/ UNCHANGED vars PROVE EnoughAwake'
  BY <1>5 DEF Stop, Join, vars, EnoughAwake, Where
<1> QED
  BY <1>2, <1>3, <1>4, <1>5, PushEnoughAwake, NotifyEnoughAwake, TakeEnoughAwake, BackEnoughAwake
  DEF Next, WorkerStep, Destructor

\* No wakeup is lost, for any number of workers and tasks: while one sleeps, every
\* task that waits has a worker awake or a notification on its way.
THEOREM NoLostWakeup == Spec => []EnoughAwake
<1>1. Init => IInv
  <2>1. Init => EnoughAwake /\ NotifyingPushed
    BY DEF Init, EnoughAwake, NotifyingPushed, Where
  <2> QED
    BY <2>1, InitTypeOK, InitRunsOnce, InitEmptyInv DEF IInv
<1>2. IInv /\ [Next]_vars => IInv'
  BY NextTypeOK, NextRunsOnce, NextEmptyInv, NextNotifyingPushed, NextEnoughAwake DEF IInv
<1>3. IInv => EnoughAwake
  BY DEF IInv
<1> QED
  BY <1>1, <1>2, <1>3, PTL DEF Spec

-------------------------------------------------------------------------------
(***************************************************************************)
(* The pool implements TaskQueue.  What the abstract queue counts, the     *)
(* tasks in execution, are at most as many as the workers that execute     *)
(* one, and the worker that takes the next task executes none.             *)
(***************************************************************************)
Busy == HasStatus("running")

LEMMA FewerThanWorkers ==
  ASSUME TypeOK, RunsOnce, NEW w \in Worker, running[w] = NoTask
  PROVE  Cardinality(Busy) < Cardinality(Worker)
<1> DEFINE others == Worker \ {w}
           f == [t \in Busy |-> CHOOSE v \in Worker : running[v] = t]
<1>1. \A t \in Busy : t # NoTask /\ \E v \in Worker : running[v] = t
  BY PoolAssumption DEF Busy, HasStatus, RunsOnce, RunningExactly
<1>2. \A t \in Busy : f[t] \in Worker /\ running[f[t]] = t
  BY <1>1
<1>3. \A t \in Busy : f[t] \in others
  BY <1>1, <1>2
<1>4. f \in [Busy -> others] /\ \A s, t \in Busy : f[s] = f[t] => s = t
  BY <1>2, <1>3
<1>5. f \in Injection(Busy, others)
  BY <1>4 DEF Injection, IsInjective
<1>6. IsFiniteSet(Worker) /\ Cardinality(Worker) \in Nat
  BY PoolAssumption, FS_CardinalityType
<1>7. IsFiniteSet(others) /\ Cardinality(others) = Cardinality(Worker) - 1
  BY <1>6, FS_RemoveElement
<1> HIDE DEF f, others
<1>8. Cardinality(Busy) <= Cardinality(others) /\ IsFiniteSet(Busy)
  BY <1>5, <1>7, FS_Injection
<1>9. Cardinality(Busy) \in Nat
  BY <1>8, FS_CardinalityType
<1> QED
  BY <1>6, <1>7, <1>8, <1>9

LEMMA NewIs ==
  ASSUME TypeOK, RunsOnce, NEW t \in Task, status[t] = "new"
  PROVE  Queue!New(t)
<1>1. t \notin HasStatus("running") \cup HasStatus("done") \cup HasStatus("refused")
  BY DEF HasStatus
<1>2. ~\E i \in DOMAIN tasks : tasks[i] = t
  BY DEF RunsOnce, QueuedExactly
<1> QED
  BY <1>1, <1>2 DEF Queue!New, Queue!Waits

\* The tasks of each status when one of them changes it.
StatusChange(t, to) ==
  /\ HasStatus("running")' =
       IF to = "running" THEN HasStatus("running") \cup {t} ELSE HasStatus("running") \ {t}
  /\ HasStatus("done")' =
       IF to = "done" THEN HasStatus("done") \cup {t} ELSE HasStatus("done") \ {t}
  /\ HasStatus("refused")' =
       IF to = "refused" THEN HasStatus("refused") \cup {t} ELSE HasStatus("refused") \ {t}

LEMMA StatusChanges ==
  ASSUME TypeOK, NEW t \in Task, NEW to \in Status, status' = [status EXCEPT ![t] = to]
  PROVE  StatusChange(t, to)
<1>1. \A u \in Task : status'[u] = IF u = t THEN to ELSE status[u]
  BY DEF TypeOK
<1> QED
  BY <1>1 DEF HasStatus, StatusChange

LEMMA StatusStays == status' = status => \A what : HasStatus(what)' = HasStatus(what)
BY DEF HasStatus

\* what the queue calls its variables
Abstract == <<tasks, HasStatus("running"), HasStatus("done"), HasStatus("refused"), PoolState>>

LEMMA PushQueues ==
  ASSUME TypeOK, RunsOnce, EmptyInv, NEW t \in Task, Push(t)
  PROVE  Queue!Accept(t) \/ Queue!Refuse(t)
<1>1. Queue!New(t) /\ status \in [Task -> Status] /\ status[t] = "new"
  BY NewIs DEF Push, TypeOK
<1>2. PoolState' = PoolState /\ dtor # "joined"
  BY DEF Push, PoolState
<1>3. \A what \in {"running", "done", "refused"} : t \notin HasStatus(what)
  BY <1>1 DEF HasStatus
<1>4. CASE stop
  <2>1. status' = [status EXCEPT ![t] = "refused"] /\ tasks' = tasks
    BY <1>4 DEF Push
  <2>2. /\ HasStatus("refused")' = HasStatus("refused") \cup {t}
        /\ HasStatus("running")' = HasStatus("running") /\ HasStatus("done")' = HasStatus("done")
    <3>1. StatusChange(t, "refused")
      BY <1>4, <2>1, StatusChanges DEF Status
    <3> QED
      BY <1>3, <3>1 DEF StatusChange
  <2>3. PoolState = "closed"
    BY <1>2, <1>4 DEF PoolState
  <2> QED
    BY <1>1, <1>2, <2>1, <2>2, <2>3 DEF Queue!Refuse
<1>5. CASE ~stop
  <2>1. /\ status' = [status EXCEPT ![t] = "queued"]
        /\ tasks' = IF t \in FrontTask THEN <<t>> \o tasks ELSE Append(tasks, t)
    BY <1>5 DEF Push
  <2>2. /\ HasStatus("refused")' = HasStatus("refused")
        /\ HasStatus("running")' = HasStatus("running") /\ HasStatus("done")' = HasStatus("done")
    <3>1. StatusChange(t, "queued")
      BY <1>5, <2>1, StatusChanges DEF Status
    <3> QED
      BY <1>3, <3>1 DEF StatusChange
  <2>3. PoolState = "open"
    BY <1>2, <1>5 DEF PoolState
  <2> QED
    BY <1>1, <1>2, <2>1, <2>2, <2>3 DEF Queue!Accept
<1> QED
  BY <1>4, <1>5

LEMMA RaiseQueues ==
  ASSUME TypeOK, NEW t \in Raisable, RaiseTask(t)
  PROVE  Queue!Raise(t)
<1>1. PICK i \in 2..Len(tasks) :
        /\ tasks[i] = t
        /\ tasks' = [j \in 1..Len(tasks) |->
                      IF j = 1 THEN t ELSE IF j <= i THEN tasks[j - 1] ELSE tasks[j]]
  BY DEF RaiseTask
<1> DEFINE n == Len(tasks)
           front == SubSeq(tasks, 1, i - 1)
           back == SubSeq(tasks, i + 1, n)
           raised == <<t>> \o front \o back
<1>2. tasks \in Seq(Task) /\ t \in Task /\ n \in Nat /\ i \in 2..n
  BY <1>1, PoolAssumption DEF TypeOK
<1>3. /\ front \in Seq(Task) /\ Len(front) = i - 1
      /\ \A j \in 1..i - 1 : front[j] = tasks[j]
  BY <1>2
<1>4. /\ back \in Seq(Task) /\ Len(back) = n - i
      /\ \A j \in 1..n - i : back[j] = tasks[i + j]
  BY <1>2
<1> HIDE DEF front, back
<1>5. <<t>> \o front \in Seq(Task) /\ Len(<<t>> \o front) = i
      /\ \A j \in 1..i : (<<t>> \o front)[j] = IF j = 1 THEN t ELSE tasks[j - 1]
  <2>1. <<t>> \in Seq(Task) /\ Len(<<t>>) = 1 /\ <<t>>[1] = t
    BY <1>2
  <2> QED
    BY <1>2, <1>3, <2>1
<1>6. raised \in Seq(Task) /\ Len(raised) = n
      /\ \A j \in 1..n : raised[j] = IF j = 1 THEN t ELSE IF j <= i THEN tasks[j - 1] ELSE tasks[j]
  <2> DEFINE a == <<t>> \o front
  <2>1. a \in Seq(Task) /\ Len(a) = i /\ \A j \in 1..i : a[j] = IF j = 1 THEN t ELSE tasks[j - 1]
    BY <1>5
  <2> HIDE DEF a
  <2>2. /\ a \o back \in Seq(Task) /\ Len(a \o back) = n
        /\ \A j \in 1..n : (a \o back)[j] = IF j <= i THEN a[j] ELSE back[j - i]
    BY <1>2, <1>4, <2>1
  <2>3. \A j \in 1..n : (a \o back)[j] = IF j = 1 THEN t ELSE IF j <= i THEN tasks[j - 1] ELSE tasks[j]
    BY <1>2, <1>4, <2>1, <2>2
  <2> QED
    BY <2>2, <2>3 DEF a
<1> HIDE DEF raised
<1>7. tasks' = raised
  <2>1. DOMAIN raised = 1..n /\ raised = [j \in 1..n |-> raised[j]]
    BY <1>6
  <2> QED
    BY <1>1, <1>6, <2>1
<1>8. \A what : HasStatus(what)' = HasStatus(what)
  BY StatusStays DEF RaiseTask
<1>9. PoolState' = PoolState /\ PoolState # "gone"
  BY DEF RaiseTask, PoolState
<1>10. i \in DOMAIN tasks /\ tasks[i] = t
  BY <1>1, <1>2
<1> QED
  BY <1>7, <1>8, <1>9, <1>10 DEF Queue!Raise, raised, front, back

LEMMA SameCardinality == \A S : Queue!Cardinality(S) = Cardinality(S)
BY DEF Queue!Cardinality, Cardinality

LEMMA TakeStarts ==
  ASSUME TypeOK, RunsOnce, EmptyInv, NEW w \in Worker, TakeTask(w)
  PROVE  \E t \in Task : Queue!Start(t)
<1>0. PICK t \in Task : t = Head(tasks)
  BY DEF TakeTask, TypeOK
<1>1. /\ tasks \in Seq(Task) /\ tasks # <<>> /\ tasks' = Tail(tasks) /\ t \in Task
      /\ status' = [status EXCEPT ![t] = "running"] /\ at[w] = "lock"
  BY <1>0 DEF TakeTask, TypeOK, AtLock
<1>2. 1 \in DOMAIN tasks /\ tasks[1] = t
  BY <1>0, <1>1
<1>3. status[t] = "queued"
  BY <1>1, <1>2 DEF RunsOnce, QueuedExactly
<1>4. /\ HasStatus("running")' = HasStatus("running") \cup {t}
      /\ HasStatus("done")' = HasStatus("done") /\ HasStatus("refused")' = HasStatus("refused")
  <2>1. t \notin HasStatus("done") /\ t \notin HasStatus("refused")
    BY <1>3 DEF HasStatus
  <2>2. StatusChange(t, "running")
    BY <1>1, StatusChanges DEF Status
  <2> QED
    BY <2>1, <2>2 DEF StatusChange
<1>5. Cardinality(HasStatus("running")) < Cardinality(Worker)
  <2>1. running[w] = NoTask
    BY <1>1 DEF TypeOK, HasTaskWhileRunning
  <2> QED
    BY <2>1, FewerThanWorkers DEF Busy
<1>6. PoolState' = PoolState /\ PoolState # "gone"
  <2>1. dtor # "joined"
    BY <1>1 DEF EmptyInv, JoinedExited
  <2> QED
    BY <2>1 DEF TakeTask, PoolState
<1>7. Queue!Start(t)
  BY <1>0, <1>1, <1>4, <1>5, <1>6, SameCardinality DEF Queue!Start
<1> QED
  BY <1>0, <1>7

LEMMA FinishEnds ==
  ASSUME TypeOK, RunsOnce, NEW w \in Worker, FinishTask(w)
  PROVE  \E t \in Task : Queue!End(t)
<1> DEFINE t == running[w]
<1>1. t \in Task /\ status' = [status EXCEPT ![t] = "done"] /\ tasks' = tasks
  BY DEF FinishTask, TypeOK, HasTaskWhileRunning
<1>2. status[t] = "running"
  BY <1>1 DEF RunsOnce, RunningExactly
<1>3. /\ HasStatus("running")' = HasStatus("running") \ {t} /\ t \in HasStatus("running")
      /\ HasStatus("done")' = HasStatus("done") \cup {t} /\ HasStatus("refused")' = HasStatus("refused")
  <2>1. t \notin HasStatus("refused") /\ t \in HasStatus("running")
    BY <1>1, <1>2 DEF HasStatus
  <2> HIDE DEF t
  <2>2. StatusChange(t, "done")
    BY <1>1, StatusChanges DEF Status
  <2> QED
    BY <2>1, <2>2 DEF StatusChange
<1>4. PoolState' = PoolState
  BY DEF FinishTask, PoolState
<1> QED
  BY <1>1, <1>3, <1>4 DEF Queue!End

LEMMA StopCloses == ASSUME EmptyInv, Stop PROVE Queue!Close
<1>1. PoolState = "open" /\ PoolState' = "closed"
  BY DEF Stop, PoolState, EmptyInv, StopExactly
<1>2. \A what : HasStatus(what)' = HasStatus(what)
  BY StatusStays DEF Stop
<1> QED
  BY <1>1, <1>2 DEF Stop, Queue!Close

LEMMA JoinGoes == ASSUME TypeOK, RunsOnce, EmptyInv, Join PROVE Queue!Go
<1>1. PoolState = "closed" /\ PoolState' = "gone"
  BY DEF Join, PoolState, EmptyInv, StopExactly
<1>2. \A what : HasStatus(what)' = HasStatus(what)
  BY StatusStays DEF Join
<1>3. tasks = <<>>
  BY PoolAssumption DEF Join, EmptyInv, ExitsOnEmpty
<1>4. HasStatus("running") = {}
  <2>1. \A w \in Worker : running[w] = NoTask
    BY DEF Join, TypeOK, HasTaskWhileRunning
  <2> QED
    BY <2>1, PoolAssumption DEF HasStatus, RunsOnce, RunningExactly
<1> QED
  BY <1>1, <1>2, <1>3, <1>4 DEF Join, Queue!Go

LEMMA InitQueue == Init => Queue!Init
BY DEF Init, Queue!Init, HasStatus, PoolState

LEMMA NextQueue == TypeOK /\ RunsOnce /\ EmptyInv /\ [Next]_vars => [Queue!Next]_(Queue!vars)
<1> SUFFICES ASSUME TypeOK, RunsOnce, EmptyInv, [Next]_vars PROVE Queue!Next \/ UNCHANGED Abstract
  BY DEF Queue!vars, Abstract
<1>1. ASSUME NEW t \in Task, Push(t) PROVE Queue!Next
  BY <1>1, PushQueues DEF Queue!Next
<1>2. ASSUME NEW t \in Raisable, RaiseTask(t) PROVE Queue!Next
  BY <1>2, RaiseQueues DEF Queue!Next
<1>3. ASSUME NEW w \in Worker, TakeTask(w) PROVE Queue!Next
  BY <1>3, TakeStarts DEF Queue!Next
<1>4. ASSUME NEW w \in Worker, FinishTask(w) PROVE Queue!Next
  BY <1>4, FinishEnds DEF Queue!Next
<1>5. ASSUME Stop \/ Join PROVE Queue!Next
  BY <1>5, StopCloses, JoinGoes DEF Queue!Next
<1>6. ASSUME UNCHANGED <<tasks, status, stop>>, PoolState' = PoolState PROVE UNCHANGED Abstract
  BY <1>6, StatusStays DEF Abstract
<1>7. ASSUME NEW t \in Task, NotifyOne(t) PROVE UNCHANGED Abstract
  BY <1>6, <1>7 DEF NotifyOne, PoolState
<1>8. ASSUME NEW w \in Worker, Exit(w) \/ FindNothing(w) \/ Sleep(w) \/ SpuriousWakeup(w)
      PROVE UNCHANGED Abstract
  BY <1>6, <1>8 DEF Exit, FindNothing, Sleep, SpuriousWakeup, PoolState
<1>9. ASSUME NotifyAll PROVE UNCHANGED Abstract
  BY <1>6, <1>9 DEF NotifyAll, PoolState
<1>10. ASSUME UNCHANGED vars PROVE UNCHANGED Abstract
  BY <1>6, <1>10 DEF vars, PoolState
<1> QED
  BY <1>1, <1>2, <1>3, <1>4, <1>5, <1>7, <1>8, <1>9, <1>10 DEF Next, WorkerStep, Destructor

\* The pool implements the queue of tasks that those who use it rely on, with any number of workers
\* and tasks: every step of a thread, a caller or the destructor is a step of TaskQueue, or none.
THEOREM PoolImplementsQueue == Spec => QueueSpec
<1> DEFINE I == TypeOK /\ RunsOnce /\ EmptyInv
<1>1. Init => I
  BY InitTypeOK, InitRunsOnce, InitEmptyInv
<1>2. I /\ [Next]_vars => I'
  BY NextTypeOK, NextRunsOnce, NextEmptyInv
<1>3. Init => Queue!Init
  BY InitQueue
<1>4. I /\ [Next]_vars => [Queue!Next]_(Queue!vars)
  BY NextQueue
<1> QED
  BY <1>1, <1>2, <1>3, <1>4, PTL DEF Spec, QueueSpec, Queue!Spec
================================================================================
