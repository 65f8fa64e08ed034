------------------------------- MODULE CurlMulti -------------------------------
(***************************************************************************)
(* curl_multi_handler: one service thread drives every HTTP request that   *)
(* libcurl multiplexes.  Any thread may enqueue a request; the core thread *)
(* resets the engine and shuts it down, a network observer resets its      *)
(* sockets, each by setting an atomic flag and notifying.  The service     *)
(* thread serves the flags one after another, clears each AFTER it served  *)
(* it, and waits on a condition variable, without a predicate, when it     *)
(* holds no request.                                                       *)
(*                                                                         *)
(* Time and sockets are abstracted: a round of libcurl completes any of    *)
(* the requests it holds, and the select before it ends by its timeout at  *)
(* the latest, so that the signal that ends it sooner is left out.         *)
(***************************************************************************)
EXTENDS Naturals, Sequences, FiniteSets, SequencesExt

CONSTANTS
  Task,      \* the requests
  Priority,  \* [Task -> Nat]: get_priority(), a lower number goes first
  MaxEasy,   \* max_easy_count
  MaxCalls   \* bound: calls of reset, reset_sockets and process_stopped_tasks

PriorityProtocol == 2

ASSUME CurlAssumption ==
  /\ IsFiniteSet(Task)
  /\ Priority \in [Task -> Nat]
  /\ MaxEasy \in Nat \ {0}
  /\ MaxCalls \in Nat

VARIABLES
  tasks_queue, \* tasks_queue, under tasks_queue_mutex
  tasks,       \* the requests libcurl holds; the service thread's own
  orphans,     \* those of tasks that a multi handle held which was cleaned up
  posting,     \* requests whose caller found the engine not stopped
  answers,     \* [Task -> how many times its completion was told]
  stopped,     \* requests whose stop function says so
  flags,       \* the atomic flags that are set, "stop" among them
  calls,       \* [Caller -> the steps its running call has yet to take]
  calls_made,
  at,          \* where the service thread is
  served,      \* the flag it is at is served and not cleared yet
  inner,       \* it is in the inner loop, while (!tasks.empty())
  torn         \* a reset was served its cancellation before it asked for a new handle

vars == <<tasks_queue, tasks, orphans, posting, answers, stopped, flags, calls, calls_made,
          at, served, inner, torn>>

callVars == <<flags, calls, calls_made>>
serviceVars == <<at, served, inner, torn>>

\* cleanup(), reset() and process_stopped_tasks() are called on the core thread,
\* reset_sockets() by the observer of the network.
Caller == {"core", "net"}
Flag == {"process", "cancel", "multi", "sockets"}

\* Mutant of Reset: the handle is to be replaced before the tasks are cancelled.
ResetMultiFirst == <<"multi", "cancel", "notify">>

Reset == <<"cancel", "multi", "notify">>
Cleanup == <<"stop", "cancel", "notify", "join">>
ProcessStopped == <<"process", "notify">>
ResetSockets == <<"sockets", "notify">>

Place == Flag \cup {"add", "check", "perform", "idle", "asleep", "exit"}
After == [process |-> "cancel", cancel |-> "multi", multi |-> "sockets", sockets |-> "add"]

TypeOK ==
  /\ tasks_queue \in Seq(Task)
  /\ tasks \subseteq Task /\ orphans \subseteq tasks
  /\ posting \subseteq Task
  /\ answers \in [Task -> {0, 1}]
  /\ stopped \subseteq Task
  /\ flags \subseteq Flag \cup {"stop"}
  /\ calls \in [Caller -> Seq(Flag \cup {"stop", "notify", "join"})]
  /\ calls_made \in 0..MaxCalls
  /\ at \in Place /\ served \in BOOLEAN /\ inner \in BOOLEAN
  /\ torn \in BOOLEAN
  /\ served => at \in flags

Init ==
  /\ tasks_queue = <<>>
  /\ tasks = {} /\ orphans = {}
  /\ posting = {}
  /\ answers = [t \in Task |-> 0]
  /\ stopped = {}
  /\ flags = {}
  /\ calls = [c \in Caller |-> <<>>] /\ calls_made = 0
  /\ at = "process" /\ served = FALSE /\ inner = FALSE /\ torn = FALSE

Queued == ToSet(tasks_queue)
IsNew(t) == answers[t] = 0 /\ t \notin posting \cup Queued \cup tasks
Answer(told) == answers' = [t \in Task |-> IF t \in told THEN answers[t] + 1 ELSE answers[t]]

-------------------------------------------------------------------------------
(***************************************************************************)
(* The threads that make requests.                                         *)
(***************************************************************************)
\* condition.notify_one
Woken == IF at = "asleep" THEN "process" ELSE at

\* Mutant of InsertByPriority: a task is put behind all others.
InsertLast(queue, t) == Append(queue, t)

\* Behind all tasks that are not less urgent.
InsertByPriority(queue, t) ==
  LET later == {i \in DOMAIN queue : Priority[t] < Priority[queue[i]]}
      place == IF later = {} THEN Len(queue) + 1
               ELSE CHOOSE i \in later : \A j \in later : i <= j
  IN InsertAt(queue, place, t)

\* perform and perform_async, the test of is_stopped().
Perform(t) ==
  /\ IsNew(t)
  /\ IF "stop" \in flags THEN Answer({t}) /\ UNCHANGED posting
     ELSE posting' = posting \cup {t} /\ UNCHANGED answers
  /\ UNCHANGED <<tasks_queue, tasks, orphans, stopped, callVars, serviceVars>>

\* Mutant of AddTaskToQueue: the service thread is not notified.
AddTaskSilently(t) ==
  /\ t \in posting
  /\ posting' = posting \ {t}
  /\ tasks_queue' = InsertByPriority(tasks_queue, t)
  /\ UNCHANGED <<tasks, orphans, answers, stopped, callVars, serviceVars>>

AddTaskToQueue(t) ==
  /\ t \in posting
  /\ posting' = posting \ {t}
  /\ tasks_queue' = InsertByPriority(tasks_queue, t)
  /\ at' = Woken
  /\ UNCHANGED <<tasks, orphans, answers, stopped, callVars, served, inner, torn>>

\* The stop function of a request turns true (a new session, a cancelled load).
StopTask(t) ==
  /\ ~IsNew(t) /\ answers[t] = 0 /\ t \notin stopped
  /\ stopped' = stopped \cup {t}
  /\ UNCHANGED <<tasks_queue, tasks, orphans, posting, answers, callVars, serviceVars>>

\* raise_task takes a waiting task out and inserts it again.
RaiseTask(t) ==
  /\ \E i \in DOMAIN tasks_queue :
       /\ tasks_queue[i] = t
       /\ tasks_queue' = InsertByPriority(RemoveAt(tasks_queue, i), t)
  /\ UNCHANGED <<tasks, orphans, posting, answers, stopped, callVars, serviceVars>>

-------------------------------------------------------------------------------
(***************************************************************************)
(* The threads that control the engine: a call is taken step by step.      *)
(***************************************************************************)
CallControl(c, steps) ==
  /\ calls[c] = <<>> /\ "stop" \notin flags
  /\ calls' = [calls EXCEPT ![c] = steps]
  /\ IF steps = Cleanup THEN UNCHANGED calls_made
     ELSE calls_made < MaxCalls /\ calls_made' = calls_made + 1
  /\ UNCHANGED <<tasks_queue, tasks, orphans, posting, answers, stopped, flags, serviceVars>>

CallAny ==
  \/ \E steps \in {Cleanup, Reset, ProcessStopped} : CallControl("core", steps)
  \/ CallControl("net", ResetSockets)

StepControl(c) ==
  /\ calls[c] # <<>>
  /\ calls' = [calls EXCEPT ![c] = Tail(@)]
  /\ LET step == Head(calls[c])
     IN /\ flags' = IF step \in {"notify", "join"} THEN flags ELSE flags \cup {step}
        /\ at' = IF step = "notify" THEN Woken ELSE at
        /\ step = "join" => at = "exit"
  /\ UNCHANGED <<tasks_queue, tasks, orphans, posting, answers, stopped, calls_made, served, inner, torn>>

-------------------------------------------------------------------------------
(***************************************************************************)
(* The service thread: tasks_stuff.                                        *)
(***************************************************************************)
unserved == <<posting, stopped, calls, calls_made>>

\* finish_multi for the tasks told, cancel for those of the queue among them.
Finish(told) ==
  /\ Answer(told)
  /\ tasks' = tasks \ told
  /\ orphans' = orphans \ told

\* A flag that is not set is passed over.
SkipFlag ==
  /\ at \in Flag \ flags
  /\ at' = After[at]
  /\ UNCHANGED <<tasks_queue, tasks, orphans, answers, flags, served, inner, torn>>
  /\ UNCHANGED unserved

Serves(flag) ==
  /\ at = flag /\ flag \in flags /\ ~served
  /\ served' = TRUE
  /\ UNCHANGED <<flags, at, inner, torn>>
  /\ UNCHANGED unserved

ProcessStoppedTasksInternal ==
  /\ Serves("process")
  /\ Finish(tasks \cap stopped)
  /\ UNCHANGED tasks_queue

\* Mutant of CancelTasks: those of the queue are dropped without being told.
CancelDroppingQueue ==
  /\ Serves("cancel")
  /\ Finish(tasks)
  /\ tasks_queue' = <<>>

CancelTasks ==
  /\ Serves("cancel")
  /\ Finish(tasks \cup Queued)
  /\ tasks_queue' = <<>>

\* Mutant of ResetMulti: what the handle held is queued again and stays held.
ResetMultiRequeueing ==
  /\ Serves("multi")
  /\ orphans' = tasks
  /\ tasks_queue' = tasks_queue \o SetToSeq(tasks)
  /\ UNCHANGED <<tasks, answers>>

\* The multi handle is cleaned up and made anew; what it held it forgets.
ResetMulti ==
  /\ Serves("multi")
  /\ orphans' = tasks
  /\ UNCHANGED <<tasks_queue, tasks, answers>>

\* Those of the tasks that are connected are finished.
ResetSocketsInternal ==
  /\ Serves("sockets")
  /\ \E connected \in SUBSET (tasks \ orphans) : Finish(connected)
  /\ UNCHANGED tasks_queue

\* A reset that has stored tasks_cancel and not yet reset_multi.
MidReset == calls["core"] # <<>> /\ Head(calls["core"]) = "multi"

ClearFlag ==
  /\ served
  /\ served' = FALSE
  /\ flags' = flags \ {at}
  /\ at' = After[at]
  /\ torn' = (torn \/ (at = "cancel" /\ MidReset))
  /\ UNCHANGED <<tasks_queue, tasks, orphans, answers, inner>>
  /\ UNCHANGED unserved

\* add_task takes tasks while there is room, and protocol packets always; those in
\* failing cannot be started and are told at once.
Started(n, failing) == ToSet(SubSeq(tasks_queue, 1, n)) \ failing

\* Mutant of TakesNoMore: there is room for one more.
TakesOneMore(n, failing) ==
  \/ n = Len(tasks_queue)
  \/ /\ n < Len(tasks_queue)
     /\ Cardinality(tasks \cup Started(n, failing)) > MaxEasy
     /\ Priority[tasks_queue[n + 1]] > PriorityProtocol

TakesNoMore(n, failing) ==
  \/ n = Len(tasks_queue)
  \/ /\ n < Len(tasks_queue)
     /\ Cardinality(tasks \cup Started(n, failing)) >= MaxEasy
     /\ Priority[tasks_queue[n + 1]] > PriorityProtocol

AddTask ==
  /\ at = "add"
  /\ \E other \in SUBSET Queued, n \in 0..Len(tasks_queue) :
       LET failing == (Queued \cap stopped) \cup other
           taken == ToSet(SubSeq(tasks_queue, 1, n))
       IN /\ TakesNoMore(n, failing)
          /\ \A m \in 0..(n - 1) : ~TakesNoMore(m, failing)
          /\ other \subseteq taken
          /\ tasks' = tasks \cup (taken \ failing)
          /\ Answer(taken \cap failing)
          /\ tasks_queue' = SubSeq(tasks_queue, n + 1, Len(tasks_queue))
  /\ at' = "check"
  /\ UNCHANGED <<orphans, flags, served, inner, torn>>
  /\ UNCHANGED unserved

\* Mutant of Check: the thread waits while libcurl has work.
CheckIdling ==
  /\ at = "check"
  /\ at' = IF "stop" \in flags THEN (IF inner THEN "process" ELSE "exit")
           ELSE IF tasks # {} /\ inner THEN "perform"
           ELSE IF inner THEN "process" ELSE "idle"
  /\ inner' = (at' = "perform")
  /\ UNCHANGED <<tasks_queue, tasks, orphans, answers, flags, served, torn>>
  /\ UNCHANGED unserved

\* Mutant of Check: the outer pass is left out when the engine stops.
CheckLeaving ==
  /\ at = "check"
  /\ at' = IF "stop" \in flags THEN "exit"
           ELSE IF tasks # {} THEN "perform"
           ELSE IF inner THEN "process" ELSE "idle"
  /\ inner' = (at' = "perform")
  /\ UNCHANGED <<tasks_queue, tasks, orphans, answers, flags, served, torn>>
  /\ UNCHANGED unserved

\* tasks_stuff returns !stop: the inner loop is left for one more pass, the outer
\* one for good.
Check ==
  /\ at = "check"
  /\ at' = IF "stop" \in flags THEN (IF inner THEN "process" ELSE "exit")
           ELSE IF tasks # {} THEN "perform"
           ELSE IF inner THEN "process" ELSE "idle"
  /\ inner' = (at' = "perform")
  /\ UNCHANGED <<tasks_queue, tasks, orphans, answers, flags, served, torn>>
  /\ UNCHANGED unserved

-------------------------------------------------------------------------------
(***************************************************************************)
(* The service thread: the inner loop and the wait.                        *)
(***************************************************************************)
\* Those libcurl is done with, those that share a socket given up among them.
CheckMultiInfo(done) ==
  /\ done \subseteq tasks \ orphans
  /\ Finish(done)

\* A round of libcurl, with check_multi_info.  The loop goes on with tasks_stuff,
\* or without it (no time to wait), or is left (no fd_set to be had).
CurlRound(done, next) ==
  /\ at = "perform"
  /\ CheckMultiInfo(done)
  /\ \/ next = "stuff" /\ at' = "process" /\ UNCHANGED inner
     \/ next = "left" /\ done = {} /\ at' = "process" /\ inner' = FALSE
     \/ /\ next = "again"
        /\ at' = IF tasks' = {} THEN "process" ELSE "perform"
        /\ inner' = (tasks' # {})
  /\ UNCHANGED <<tasks_queue, flags, served, torn>>
  /\ UNCHANGED unserved

\* The mutex is taken and condition.wait begins.
Wait ==
  /\ at = "idle"
  /\ at' = "asleep"
  /\ UNCHANGED <<tasks_queue, tasks, orphans, answers, flags, served, inner, torn>>
  /\ UNCHANGED unserved

SpuriousWakeup ==
  /\ at = "asleep"
  /\ at' = "process"
  /\ UNCHANGED <<tasks_queue, tasks, orphans, answers, flags, served, inner, torn>>
  /\ UNCHANGED unserved

Round == \E done \in SUBSET tasks : \E next \in {"stuff", "left", "again"} : CurlRound(done, next)

Service ==
  \/ SkipFlag \/ ClearFlag
  \/ ProcessStoppedTasksInternal \/ CancelTasks \/ ResetMulti \/ ResetSocketsInternal
  \/ AddTask \/ Check \/ Wait

Next ==
  \/ \E t \in Task : Perform(t) \/ AddTaskToQueue(t) \/ StopTask(t) \/ RaiseTask(t)
  \/ CallAny
  \/ \E c \in Caller : StepControl(c)
  \/ Service \/ Round \/ SpuriousWakeup

Spec == Init /\ [][Next]_vars

(***************************************************************************)
(* The threads are scheduled, a call that began goes on, and libcurl       *)
(* completes every request some time, by its timeout at the latest.        *)
(***************************************************************************)
Fairness ==
  /\ WF_vars(Service)
  /\ WF_vars(at = "perform" /\ Round /\ at' = "process" /\ inner')
  /\ \A t \in Task : SF_vars(Round /\ t \in tasks /\ t \notin tasks') /\ WF_vars(AddTaskToQueue(t))
  /\ \A c \in Caller : WF_vars(StepControl(c))

FairSpec == Spec /\ Fairness

-------------------------------------------------------------------------------
(***************************************************************************)
(* Properties.                                                             *)
(***************************************************************************)
One(b) == IF b THEN 1 ELSE 0

\* A request is in one place, posted, in the queue once, with libcurl or answered
\* once: no interleaving of resets, cancellations and completions tells a caller
\* twice (a promise would throw) or drops a request.
NeverLostNorDoubled ==
  /\ \A i, j \in DOMAIN tasks_queue : tasks_queue[i] = tasks_queue[j] => i = j
  /\ \A t \in Task : One(t \in posting) + One(t \in Queued) + One(t \in tasks) + answers[t] <= 1

\* A task that starts is no less urgent than those that stay, and beyond the limit
\* of parallel requests only protocol packets are started.
StartsInOrder ==
  [][\A t \in tasks' \ tasks :
       /\ \A u \in ToSet(tasks_queue') : Priority[t] <= Priority[u]
       /\ Priority[t] > PriorityProtocol
          => Cardinality({u \in tasks' : Priority[u] <= Priority[t]}) <= MaxEasy]_vars

\* A request the old multi handle held, which libcurl will never complete, has a
\* cancellation ahead, whatever flags are cleared in between; except that a reset
\* whose two stores the service thread came between leaves it to hang.
OrphansAreCancelled == orphans # {} => "cancel" \in flags \/ torn

Told == \E c \in Caller : "notify" \in ToSet(calls[c])

\* The service thread sleeps, nobody is about to notify it, and it has work.
Overslept == at = "asleep" /\ ~Told /\ (tasks_queue # <<>> \/ flags # {})

\* It oversleeps only what came between its last look and the wait, which has no
\* predicate to see it.
OversleepsOnlyFromIdle == [][~Overslept /\ Overslept' => at = "idle"]_vars

InHand == Queued \cup tasks

\* A request that was taken is answered, whatever is reset meanwhile, unless the
\* thread oversleeps it or has left, or the orphans of a torn reset hold the
\* places for good.
RequestsAreAnswered ==
  \A t \in Task : t \in InHand ~> answers[t] = 1 \/ Overslept \/ at = "exit" \/ (torn /\ orphans # {})

\* The service thread will look at the cancel flag before it ends or waits.
LooksAgain == ~served /\ (inner \/ at \in {"asleep", "process", "cancel"})

\* cleanup() ends with every request in hand answered, provided that it did not
\* come between the service thread's last look at the cancel flag and its end or
\* wait: the inner loop is followed by one more pass.
CleanupAnswers ==
  \A t \in Task :
    t \in InHand /\ {"stop", "cancel"} \subseteq flags /\ LooksAgain
      ~> (answers[t] = 1 /\ at = "exit") \/ Overslept

\* How far a request is, for the one that made it.
Progress(t) ==
  IF answers[t] = 1 THEN "answered"
  ELSE IF t \in tasks THEN "running"
  ELSE IF t \in Queued THEN "waiting"
  ELSE IF t \in posting THEN "asked" ELSE "new"

Book == INSTANCE RequestBook WITH book <- [t \in Task |-> Progress(t)]

\* The engine keeps the promise of RequestBook: whatever is reset, cancelled, raised or
\* stopped meanwhile, no request that was made is dropped or runs a second time, none that
\* waits is overtaken by a less urgent one, and a cancellation leaves out none of them.
BookSpec == Book!Spec
================================================================================
