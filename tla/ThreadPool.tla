------------------------------ MODULE ThreadPool -------------------------------
(***************************************************************************)
(* core::tools::threadpool: the thread(s) behind the core thread, every    *)
(* async_executer and the curl workers.  A deque of tasks under            *)
(* queue_mutex_, a condition variable the workers wait on, and an atomic   *)
(* flag stop_ that the destructor sets WITHOUT the mutex.                  *)
(*                                                                         *)
(* What happens under the mutex is one step, except the wait: a worker     *)
(* that found nothing to do holds the mutex at "wait" until the condition  *)
(* variable has put it to sleep, and stop_ may change in between.          *)
(***************************************************************************)
EXTENDS Naturals, Sequences, FiniteSets

CONSTANTS
  Worker,     \* threads_
  Task,       \* the tasks that may be pushed
  Raisable,   \* tasks pushed with an id of their own, which raise_task finds
  FrontTask,  \* tasks pushed with push_front
  NoTask      \* what a worker executes that executes no task

ASSUME PoolAssumption ==
  /\ IsFiniteSet(Worker) /\ Worker # {}
  /\ IsFiniteSet(Task)
  /\ Raisable \subseteq Task /\ FrontTask \subseteq Task
  /\ NoTask \notin Task

VARIABLES
  tasks,      \* tasks_
  stop,       \* stop_
  at,         \* [Worker -> where the worker is in run_task_impl]
  running,    \* [Worker -> the task it executes, or NoTask]
  status,     \* [Task -> what became of the task]
  notifying,  \* tasks whose push has left the mutex and not called notify_one yet
  dtor        \* where the destructor is

vars == <<tasks, stop, at, running, status, notifying, dtor>>

Place == {"lock", "wait", "asleep", "run", "exit"}
Status == {"new", "queued", "running", "done", "refused"}

HasTaskWhileRunning == \A w \in Worker : at[w] = "run" <=> running[w] # NoTask

TypeOK ==
  /\ tasks \in Seq(Task)
  /\ stop \in BOOLEAN
  /\ at \in [Worker -> Place]
  /\ running \in [Worker -> Task \cup {NoTask}]
  /\ status \in [Task -> Status]
  /\ notifying \in SUBSET Task
  /\ dtor \in {"no", "stopping", "notified", "joined"}
  /\ HasTaskWhileRunning

Init ==
  /\ tasks = <<>>
  /\ stop = FALSE
  /\ at = [w \in Worker |-> "lock"]
  /\ running = [w \in Worker |-> NoTask]
  /\ status = [t \in Task |-> "new"]
  /\ notifying = {}
  /\ dtor = "no"

Where(place) == {w \in Worker : at[w] = place}

MutexFree == Where("wait") = {}

-------------------------------------------------------------------------------
(***************************************************************************)
(* The callers.                                                            *)
(***************************************************************************)
\* Mutants of Push: no notification is owed; one is owed only for a task that
\* finds the deque empty.
PushSilently(t) ==
  /\ MutexFree
  /\ dtor # "joined"
  /\ status[t] = "new"
  /\ IF stop
     THEN /\ status' = [status EXCEPT ![t] = "refused"]
          /\ UNCHANGED tasks
     ELSE /\ status' = [status EXCEPT ![t] = "queued"]
          /\ tasks' = IF t \in FrontTask THEN <<t>> \o tasks ELSE Append(tasks, t)
  /\ UNCHANGED <<stop, at, running, notifying, dtor>>

PushNotifyingWhenEmpty(t) ==
  /\ MutexFree
  /\ dtor # "joined"
  /\ status[t] = "new"
  /\ IF stop
     THEN /\ status' = [status EXCEPT ![t] = "refused"]
          /\ UNCHANGED <<tasks, notifying>>
     ELSE /\ status' = [status EXCEPT ![t] = "queued"]
          /\ tasks' = IF t \in FrontTask THEN <<t>> \o tasks ELSE Append(tasks, t)
          /\ notifying' = IF tasks = <<>> THEN notifying \cup {t} ELSE notifying
  /\ UNCHANGED <<stop, at, running, dtor>>

\* push_back and push_front, up to the end of the critical section.  Callers may
\* come as long as the object exists.
Push(t) ==
  /\ MutexFree
  /\ dtor # "joined"
  /\ status[t] = "new"
  /\ IF stop
     THEN /\ status' = [status EXCEPT ![t] = "refused"]
          /\ UNCHANGED <<tasks, notifying>>
     ELSE /\ status' = [status EXCEPT ![t] = "queued"]
          /\ tasks' = IF t \in FrontTask THEN <<t>> \o tasks ELSE Append(tasks, t)
          /\ notifying' = notifying \cup {t}
  /\ UNCHANGED <<stop, at, running, dtor>>

\* notify_one, after the mutex was released.
NotifyOne(t) ==
  /\ t \in notifying
  /\ notifying' = notifying \ {t}
  /\ IF Where("asleep") = {} THEN UNCHANGED at
     ELSE \E w \in Where("asleep") : at' = [at EXCEPT ![w] = "lock"]
  /\ UNCHANGED <<tasks, stop, running, status, dtor>>

\* Mutant of RaiseTask: the task is put in front and not erased.
RaiseTaskTwice(t) ==
  /\ MutexFree
  /\ dtor # "joined"
  /\ \E i \in 2..Len(tasks) : tasks[i] = t /\ tasks' = <<t>> \o tasks
  /\ UNCHANGED <<stop, at, running, status, notifying, dtor>>

\* Mutant of RaiseTask: the task changes places with the first one.
RaiseTaskSwapping(t) ==
  /\ MutexFree
  /\ dtor # "joined"
  /\ \E i \in 2..Len(tasks) :
       tasks[i] = t /\ tasks' = [tasks EXCEPT ![1] = t, ![i] = tasks[1]]
  /\ UNCHANGED <<stop, at, running, status, notifying, dtor>>

\* raise_task moves a waiting task to the front.
RaiseTask(t) ==
  /\ MutexFree
  /\ dtor # "joined"
  /\ \E i \in 2..Len(tasks) :
       /\ tasks[i] = t
       /\ tasks' = [j \in 1..Len(tasks) |->
                     IF j = 1 THEN t ELSE IF j <= i THEN tasks[j - 1] ELSE tasks[j]]
  /\ UNCHANGED <<stop, at, running, status, notifying, dtor>>

-------------------------------------------------------------------------------
(***************************************************************************)
(* A worker: run_task_impl in a loop.                                      *)
(***************************************************************************)
AtLock(w) == at[w] = "lock" /\ MutexFree

\* It takes the first task and leaves the mutex.
TakeTask(w) ==
  /\ AtLock(w)
  /\ tasks # <<>>
  /\ at' = [at EXCEPT ![w] = "run"]
  /\ running' = [running EXCEPT ![w] = Head(tasks)]
  /\ status' = [status EXCEPT ![Head(tasks)] = "running"]
  /\ tasks' = Tail(tasks)
  /\ UNCHANGED <<stop, notifying, dtor>>

Exit(w) ==
  /\ AtLock(w)
  /\ stop /\ tasks = <<>>
  /\ at' = [at EXCEPT ![w] = "exit"]
  /\ UNCHANGED <<tasks, stop, running, status, notifying, dtor>>

\* Mutant of FindNothing: only the tasks are looked at before the wait.
FindNoTask(w) ==
  /\ AtLock(w)
  /\ tasks = <<>>
  /\ at' = [at EXCEPT ![w] = "wait"]
  /\ UNCHANGED <<tasks, stop, running, status, notifying, dtor>>

\* Nothing to do: the worker is about to wait, and holds the mutex.
FindNothing(w) ==
  /\ AtLock(w)
  /\ ~stop /\ tasks = <<>>
  /\ at' = [at EXCEPT ![w] = "wait"]
  /\ UNCHANGED <<tasks, stop, running, status, notifying, dtor>>

\* condition_.wait releases the mutex and sleeps, in one.
Sleep(w) ==
  /\ at[w] = "wait"
  /\ at' = [at EXCEPT ![w] = "asleep"]
  /\ UNCHANGED <<tasks, stop, running, status, notifying, dtor>>

\* A wait may return with no notification.
SpuriousWakeup(w) ==
  /\ at[w] = "asleep"
  /\ at' = [at EXCEPT ![w] = "lock"]
  /\ UNCHANGED <<tasks, stop, running, status, notifying, dtor>>

\* The task, or nothing of it when its cancel_ says so, has been executed.
FinishTask(w) ==
  /\ at[w] = "run"
  /\ at' = [at EXCEPT ![w] = "lock"]
  /\ running' = [running EXCEPT ![w] = NoTask]
  /\ status' = [status EXCEPT ![running[w]] = "done"]
  /\ UNCHANGED <<tasks, stop, notifying, dtor>>

WorkerStep(w) == TakeTask(w) \/ Exit(w) \/ FindNothing(w) \/ Sleep(w) \/ FinishTask(w)

-------------------------------------------------------------------------------
(***************************************************************************)
(* The destructor.                                                         *)
(***************************************************************************)
Stop ==
  /\ dtor = "no"
  /\ dtor' = "stopping"
  /\ stop' = TRUE
  /\ UNCHANGED <<tasks, at, running, status, notifying>>

NotifyAll ==
  /\ dtor = "stopping"
  /\ dtor' = "notified"
  /\ at' = [w \in Worker |-> IF at[w] = "asleep" THEN "lock" ELSE at[w]]
  /\ UNCHANGED <<tasks, stop, running, status, notifying>>

Join ==
  /\ dtor = "notified"
  /\ \A w \in Worker : at[w] = "exit"
  /\ dtor' = "joined"
  /\ UNCHANGED <<tasks, stop, at, running, status, notifying>>

Destructor == Stop \/ NotifyAll \/ Join

Next ==
  \/ \E t \in Task : Push(t) \/ NotifyOne(t)
  \/ \E t \in Raisable : RaiseTask(t)
  \/ \E w \in Worker : WorkerStep(w) \/ SpuriousWakeup(w)
  \/ Destructor

Spec == Init /\ [][Next]_vars

(***************************************************************************)
(* Threads are scheduled, a task ends, a caller that left the mutex calls  *)
(* notify_one, a destructor that began goes on; nobody has to push, to     *)
(* destroy the pool or to wake up without a reason.                        *)
(***************************************************************************)
Fairness ==
  /\ \A w \in Worker : WF_vars(Sleep(w)) /\ WF_vars(FinishTask(w))
                       /\ SF_vars(TakeTask(w) \/ Exit(w) \/ FindNothing(w))
  /\ \A t \in Task : WF_vars(NotifyOne(t))
  /\ WF_vars(NotifyAll) /\ WF_vars(Join)

FairSpec == Spec /\ Fairness

-------------------------------------------------------------------------------
(***************************************************************************)
(* Properties.                                                             *)
(***************************************************************************)
InDequeOnce == \A i, j \in DOMAIN tasks : tasks[i] = tasks[j] => i = j
QueuedExactly == \A t \in Task : status[t] = "queued" <=> \E i \in DOMAIN tasks : tasks[i] = t
OnOneWorker ==
  \A v, w \in Worker : running[v] = running[w] /\ running[v] # NoTask => v = w
RunningExactly == \A t \in Task : status[t] = "running" <=> \E w \in Worker : running[w] = t

\* A task is in one place: once in the deque or on one worker, and only there while
\* it is queued or running; so that no task runs twice, whatever is raised, pushed
\* in front or taken by several workers.
RunsOnce == InDequeOnce /\ QueuedExactly /\ OnOneWorker /\ RunningExactly

\* No wakeup is lost: while a worker sleeps, each task that waits has a worker of its
\* own awake to take it, or a notification on its way.
EnoughAwake ==
  Where("asleep") # {} =>
    Len(tasks) <= Cardinality(Where("lock")) + Cardinality(notifying)

\* When the destructor returns every task the pool accepted has been executed.
DestructorDrains ==
  dtor = "joined" => \A t \in Task : status[t] \in {"new", "done", "refused"}

\* A task that was accepted is executed once: never twice, and not left behind by a
\* destructor that returned.
ExecutedOnce == RunsOnce /\ DestructorDrains

\* A task that was accepted is executed, with the pool destroyed meanwhile or not.
EveryTaskRuns == \A t \in Task : status[t] = "queued" ~> status[t] = "done"

\* The destructor returns, provided no worker was on its way to sleep when stop_
\* was set: a worker that had found stop_ false and not yet begun to wait misses
\* notify_all and is waited for in vain.
DestructorReturns ==
  (dtor = "notified" /\ Where("wait") \cup Where("asleep") = {}) ~> dtor = "joined"

\* What those that give the pool tasks know of it.
HasStatus(what) == {t \in Task : status[t] = what}
PoolState == IF dtor = "joined" THEN "gone" ELSE IF stop THEN "closed" ELSE "open"

Queue == INSTANCE TaskQueue WITH
  waiting <- tasks, executing <- HasStatus("running"), ended <- HasStatus("done"),
  refused <- HasStatus("refused"), pool <- PoolState, Limit <- Cardinality(Worker)

\* The pool keeps the promise of TaskQueue: whatever its threads do with the mutex and the
\* condition variable, the tasks start in the order in which they wait, each once and no more
\* at a time than there are threads, a raised task overtakes all the others and changes nothing
\* between them, and the destructor returns when the last one has been executed.
QueueSpec == Queue!Spec
================================================================================
