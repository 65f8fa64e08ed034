---------------------------- MODULE CurlMulti_proofs ----------------------------
(***************************************************************************)
(* Theorems about CurlMulti, for any requests, priorities and limit of     *)
(* parallel requests.                                                      *)
(***************************************************************************)
EXTENDS CurlMulti, FiniteSetTheorems, QueueLemmas

(***************************************************************************)
(* What is invariant.                                                      *)
(***************************************************************************)
\* A request is posted, waits, runs or is answered, and the queue has it once.
OnePlace ==
  /\ Distinct(tasks_queue)
  /\ \A t \in Task : /\ ~(t \in posting /\ t \in tasks) /\ ~(In(tasks_queue, t) /\ t \in posting \cup tasks)
                     /\ answers[t] = 1 => t \notin posting \cup tasks /\ ~In(tasks_queue, t)

InOrder == SortedBy(Priority, tasks_queue)

\* What a running call has yet to do: the rest of one of the calls.
CoreSteps == {<<>>, <<"join">>, <<"notify", "join">>, <<"cancel", "notify", "join">>, Cleanup,
              <<"notify">>, <<"multi", "notify">>, Reset, ProcessStopped}
NetSteps == {<<>>, <<"notify">>, ResetSockets}
CallsShape == calls["core"] \in CoreSteps /\ calls["net"] \in NetSteps

\* Between a cancellation and its end libcurl holds nothing.
CancelledAll == served /\ at = "cancel" => tasks = {}

\* A reset in its middle, or one that is over, has its cancellation ahead or just
\* behind it, unless it is torn.
ResetCovered ==
  /\ MidReset => "cancel" \in flags \/ torn
  /\ "multi" \in flags => "cancel" \in flags \/ torn \/ (at = "multi" /\ tasks = {})

\* TypeOK in the parts that steps disturb together.
DataType ==
  /\ tasks_queue \in Seq(Task)
  /\ tasks \subseteq Task /\ orphans \subseteq tasks
  /\ posting \subseteq Task
  /\ answers \in [Task -> {0, 1}]
  /\ stopped \subseteq Task
CallsType ==
  /\ calls \in [Caller -> Seq(Flag \cup {"stop", "notify", "join"})]
  /\ calls_made \in 0..MaxCalls
  /\ CallsShape
ServiceType ==
  /\ flags \subseteq Flag \cup {"stop"}
  /\ at \in Place /\ served \in BOOLEAN /\ inner \in BOOLEAN /\ torn \in BOOLEAN
  /\ served => at \in flags

RequestsOK == DataType /\ OnePlace /\ InOrder

IInv == RequestsOK /\ CallsType /\ ServiceType

ResetInv == CancelledAll /\ ResetCovered /\ OrphansAreCancelled

-------------------------------------------------------------------------------
(***************************************************************************)
(* The queue, the calls and the flags.                                     *)
(***************************************************************************)
LEMMA QueuedIsIn ==
  \A q, t : t \in ToSet(q) <=> In(q, t)
BY DEF ToSet, In

\* What both ways to insert a request hold.
LEMMA InsertByPriorityFacts ==
  ASSUME NEW q \in Seq(Task), NEW t \in Task, Distinct(q), ~In(q, t), SortedBy(Priority, q),
         NEW r, r = InsertByPriority(q, t)
  PROVE  /\ r \in Seq(Task) /\ Distinct(r) /\ SortedBy(Priority, r)
         /\ \A u \in Task : In(r, u) <=> u = t \/ In(q, u)
<1> DEFINE place == PlaceIn(Priority, q, t)
<1>1. DOMAIN q = 1..Len(q)
  OBVIOUS
<1>2. r = InsertAt(q, place, t)
  BY <1>1 DEF InsertByPriority, PlaceIn, LaterIn
<1>3. place \in 1..(Len(q) + 1)
  BY CurlAssumption, InsertPlace
<1>4. SortedBy(Priority, r)
  BY <1>2, CurlAssumption, InsertKeepsSorted
<1> HIDE DEF place
<1>5. r \in Seq(Task)
  BY <1>2, <1>3, InsertAtFacts
<1>6. Distinct(r) /\ \A u \in Task : In(r, u) <=> u = t \/ In(q, u)
  BY <1>2, <1>3, InsertKeepsDistinct
<1> QED
  BY <1>4, <1>5, <1>6

Step == Flag \cup {"stop", "notify", "join"}

\* A call that goes on: what is left of it, and that whoever sets a flag has its
\* notification ahead.
LEMMA CoreStepFacts ==
  ASSUME NEW s \in CoreSteps, s # <<>>
  PROVE  /\ s \in Seq(Step) /\ Tail(s) \in CoreSteps /\ Head(s) \in Step
         /\ Tail(s) # <<>> /\ Head(Tail(s)) = "multi" => Head(s) = "cancel"
         /\ Head(s) \in Step \ {"notify", "join"} => "notify" \in ToSet(Tail(s))
<1>1. \/ s = <<"join">> \/ s = <<"notify", "join">> \/ s = <<"cancel", "notify", "join">>
      \/ s = <<"stop", "cancel", "notify", "join">> \/ s = <<"notify">> \/ s = <<"multi", "notify">>
      \/ s = <<"cancel", "multi", "notify">> \/ s = <<"process", "notify">>
  BY DEF CoreSteps, Cleanup, Reset, ProcessStopped
<1>2. CASE s = <<"join">>
  BY <1>2 DEF CoreSteps, Step, Flag
<1>3. CASE s = <<"notify", "join">>
  BY <1>3 DEF CoreSteps, Step, Flag
<1>4. CASE s = <<"cancel", "notify", "join">>
  BY <1>4 DEF CoreSteps, Step, Flag, ToSet
<1>5. CASE s = <<"stop", "cancel", "notify", "join">>
  BY <1>5 DEF CoreSteps, Step, Flag, ToSet
<1>6. CASE s = <<"notify">>
  BY <1>6 DEF CoreSteps, Step, Flag
<1>7. CASE s = <<"multi", "notify">>
  BY <1>7 DEF CoreSteps, Step, Flag, ToSet
<1>8. CASE s = <<"cancel", "multi", "notify">>
  BY <1>8 DEF CoreSteps, Step, Flag, ToSet
<1>9. CASE s = <<"process", "notify">>
  BY <1>9 DEF CoreSteps, Step, Flag, ToSet
<1> QED
  BY <1>1, <1>2, <1>3, <1>4, <1>5, <1>6, <1>7, <1>8, <1>9

LEMMA NetStepFacts ==
  ASSUME NEW s \in NetSteps, s # <<>>
  PROVE  /\ s \in Seq(Step) /\ Tail(s) \in NetSteps /\ Head(s) \in {"sockets", "notify"}
         /\ Head(s) = "sockets" => "notify" \in ToSet(Tail(s))
<1>1. CASE s = <<"notify">>
  BY <1>1 DEF NetSteps, Step
<1>2. CASE s = <<"sockets", "notify">>
  BY <1>2 DEF NetSteps, Step, Flag, ToSet
<1> QED
  BY <1>1, <1>2 DEF NetSteps, ResetSockets

\* Calls as they start.
LEMMA CallFacts ==
  /\ {Cleanup, Reset, ProcessStopped} \subseteq CoreSteps /\ ResetSockets \in NetSteps
  /\ \A s \in {Cleanup, Reset, ProcessStopped} :
        s \in Seq(Step) /\ s # <<>> /\ Head(s) # "multi" /\ "notify" \in ToSet(s)
  /\ ResetSockets \in Seq(Step) /\ "notify" \in ToSet(ResetSockets)
<1>1. {Cleanup, Reset, ProcessStopped} \subseteq CoreSteps /\ ResetSockets \in NetSteps
  BY DEF CoreSteps, NetSteps
<1>2. Cleanup \in Seq(Step) /\ Cleanup # <<>> /\ Head(Cleanup) # "multi" /\ "notify" \in ToSet(Cleanup)
  BY DEF Cleanup, Step, Flag, ToSet
<1>3. Reset \in Seq(Step) /\ Reset # <<>> /\ Head(Reset) # "multi" /\ "notify" \in ToSet(Reset)
  BY DEF Reset, Step, Flag, ToSet
<1>4. /\ ProcessStopped \in Seq(Step) /\ ProcessStopped # <<>> /\ Head(ProcessStopped) # "multi"
      /\ "notify" \in ToSet(ProcessStopped)
  BY DEF ProcessStopped, Step, Flag, ToSet
<1>5. ResetSockets \in Seq(Step) /\ "notify" \in ToSet(ResetSockets)
  BY DEF ResetSockets, Step, Flag, ToSet
<1> QED
  BY <1>1, <1>2, <1>3, <1>4, <1>5

\* The flags are looked at in a round that ends at add_task.
LEMMA AfterFacts ==
  /\ \A f \in Flag : After[f] \in {"cancel", "multi", "sockets", "add"}
  /\ \A f \in Flag : (After[f] = "cancel" <=> f = "process") /\ (After[f] = "multi" <=> f = "cancel")
BY DEF After, Flag

LEMMA InvariantTypes ==
  IInv => TypeOK
BY DEF IInv, RequestsOK, DataType, CallsType, ServiceType, TypeOK

LEMMA RequestsKept ==
  ASSUME RequestsOK, UNCHANGED <<tasks_queue, tasks, orphans, posting, answers, stopped>>
  PROVE  RequestsOK'
BY DEF RequestsOK, DataType, OnePlace, InOrder

\* Requests that libcurl held are told.
LEMMA FinishFacts ==
  ASSUME RequestsOK, NEW told \in SUBSET tasks, Finish(told), UNCHANGED <<tasks_queue, posting, stopped>>
  PROVE  RequestsOK' /\ tasks' \subseteq tasks /\ orphans' \subseteq orphans
<1>1. \A t \in told : t \in Task /\ answers[t] = 0 /\ t \notin posting /\ ~In(tasks_queue, t)
  BY DEF RequestsOK, DataType, OnePlace
<1>2. /\ answers' = [t \in Task |-> IF t \in told THEN answers[t] + 1 ELSE answers[t]]
      /\ tasks' = tasks \ told /\ orphans' = orphans \ told
  BY DEF Finish, Answer
<1>3. DataType'
  BY <1>1, <1>2 DEF RequestsOK, DataType
<1>4. \A t \in Task : answers'[t] = 1 <=> answers[t] = 1 \/ t \in told
  BY <1>1, <1>2 DEF RequestsOK, DataType
<1>5. OnePlace'
  BY <1>1, <1>2, <1>4 DEF RequestsOK, OnePlace
<1>6. InOrder'
  BY DEF RequestsOK, InOrder
<1> QED
  BY <1>2, <1>3, <1>5, <1>6 DEF RequestsOK

-------------------------------------------------------------------------------
(***************************************************************************)
(* The steps keep the requests in place.                                   *)
(***************************************************************************)
LEMMA PerformRequests ==
  ASSUME RequestsOK, NEW t \in Task, Perform(t)
  PROVE  RequestsOK'
<1>1. /\ answers[t] = 0 /\ t \notin posting /\ t \notin tasks /\ ~In(tasks_queue, t)
      /\ UNCHANGED <<tasks_queue, tasks, orphans, stopped>>
  BY QueuedIsIn DEF Perform, IsNew, Queued
<1>2. InOrder'
  BY <1>1 DEF RequestsOK, InOrder
<1>3. CASE Answer({t}) /\ UNCHANGED posting
  <2>1. answers' = [u \in Task |-> IF u \in {t} THEN answers[u] + 1 ELSE answers[u]]
    BY <1>3 DEF Answer
  <2>2. DataType' /\ \A u \in Task : answers'[u] = 1 <=> answers[u] = 1 \/ u = t
    BY <1>1, <1>3, <2>1 DEF RequestsOK, DataType
  <2>3. OnePlace'
    BY <1>1, <1>3, <2>2 DEF RequestsOK, OnePlace
  <2> QED
    BY <1>2, <2>2, <2>3 DEF RequestsOK
<1>4. CASE posting' = posting \cup {t} /\ UNCHANGED answers
  <2>1. DataType'
    BY <1>1, <1>4 DEF RequestsOK, DataType
  <2>2. OnePlace'
    BY <1>1, <1>4 DEF RequestsOK, OnePlace, DataType
  <2> QED
    BY <1>2, <2>1, <2>2 DEF RequestsOK
<1> QED
  BY <1>3, <1>4 DEF Perform

LEMMA AddToQueueRequests ==
  ASSUME RequestsOK, NEW t \in Task, AddTaskToQueue(t)
  PROVE  RequestsOK'
<1>1. /\ t \in posting /\ posting' = posting \ {t}
      /\ tasks_queue' = InsertByPriority(tasks_queue, t)
      /\ UNCHANGED <<tasks, orphans, answers, stopped>>
  BY DEF AddTaskToQueue
<1>2. answers[t] # 1 /\ t \notin tasks /\ ~In(tasks_queue, t)
  BY <1>1 DEF RequestsOK, OnePlace
<1>3. /\ tasks_queue' \in Seq(Task) /\ Distinct(tasks_queue') /\ SortedBy(Priority, tasks_queue')
      /\ \A u \in Task : In(tasks_queue', u) <=> u = t \/ In(tasks_queue, u)
  BY <1>1, <1>2, InsertByPriorityFacts DEF RequestsOK, DataType, OnePlace, InOrder
<1>4. DataType'
  BY <1>1, <1>3 DEF RequestsOK, DataType
<1>5. OnePlace'
  BY <1>1, <1>2, <1>3 DEF RequestsOK, OnePlace
<1> QED
  BY <1>3, <1>4, <1>5 DEF RequestsOK, InOrder

LEMMA RaiseTaskRequests ==
  ASSUME RequestsOK, NEW t \in Task, RaiseTask(t)
  PROVE  RequestsOK'
<1>1. PICK i \in DOMAIN tasks_queue :
        /\ tasks_queue[i] = t
        /\ tasks_queue' = InsertByPriority(RemoveAt(tasks_queue, i), t)
  BY DEF RaiseTask
<1>2. UNCHANGED <<tasks, orphans, posting, answers, stopped>>
  BY DEF RaiseTask
<1> DEFINE q == RemoveAt(tasks_queue, i)
<1>3. tasks_queue \in Seq(Task) /\ Distinct(tasks_queue) /\ SortedBy(Priority, tasks_queue)
  BY DEF RequestsOK, DataType, OnePlace, InOrder
<1>4. q \in Seq(Task) /\ Distinct(q) /\ \A u \in Task : In(q, u) <=> In(tasks_queue, u) /\ u # t
  BY <1>1, <1>3, RemoveFacts
<1>5. SortedBy(Priority, q)
  BY <1>3, CurlAssumption, RemoveKeepsSorted
<1>6. tasks_queue' = InsertByPriority(q, t)
  BY <1>1
<1> HIDE DEF q
<1>7. /\ tasks_queue' \in Seq(Task) /\ Distinct(tasks_queue') /\ SortedBy(Priority, tasks_queue')
      /\ \A u \in Task : In(tasks_queue', u) <=> u = t \/ In(q, u)
  BY <1>4, <1>5, <1>6, InsertByPriorityFacts
<1>8. In(tasks_queue, t)
  BY <1>1 DEF In
<1>9. DataType'
  BY <1>2, <1>7 DEF RequestsOK, DataType
<1>10. \A u \in Task : In(tasks_queue', u) <=> In(tasks_queue, u)
  BY <1>4, <1>7, <1>8
<1>11. OnePlace'
  BY <1>2, <1>7, <1>10 DEF RequestsOK, OnePlace
<1> QED
  BY <1>7, <1>9, <1>11 DEF RequestsOK, InOrder

LEMMA CancelRequests ==
  ASSUME RequestsOK, CancelTasks
  PROVE  RequestsOK' /\ tasks' = {} /\ orphans' = {}
<1>1. /\ answers' = [t \in Task |-> IF t \in tasks \cup Queued THEN answers[t] + 1 ELSE answers[t]]
      /\ tasks' = tasks \ (tasks \cup Queued) /\ orphans' = orphans \ (tasks \cup Queued)
      /\ tasks_queue' = <<>> /\ UNCHANGED <<posting, stopped>>
  BY DEF CancelTasks, Finish, Answer, Serves, unserved
<1>2. \A t \in tasks \cup Queued : t \in Task => answers[t] = 0 /\ t \notin posting
  BY QueuedIsIn DEF RequestsOK, OnePlace, DataType, Queued
<1>3. tasks' = {} /\ orphans' = {}
  BY <1>1 DEF RequestsOK, DataType
<1>4. DataType'
  BY <1>1, <1>2, <1>3 DEF RequestsOK, DataType
<1>5. \A t \in Task : answers'[t] = 1 <=> answers[t] = 1 \/ t \in tasks \cup Queued
  BY <1>1, <1>2 DEF RequestsOK, DataType
<1>6. \A t \in Task : ~In(tasks_queue', t)
  BY <1>1 DEF In
<1>7. Distinct(tasks_queue') /\ InOrder'
  BY <1>1 DEF Distinct, InOrder, SortedBy
<1>8. OnePlace'
  BY <1>1, <1>2, <1>3, <1>5, <1>6, <1>7 DEF RequestsOK, OnePlace
<1> QED
  BY <1>3, <1>4, <1>7, <1>8 DEF RequestsOK

\* add_task takes the head of the queue.
LEMMA AddTaskRequests ==
  ASSUME RequestsOK, AddTask
  PROVE  RequestsOK'
<1>1. PICK other \in SUBSET Queued, n \in 0..Len(tasks_queue) :
        LET failing == (Queued \cap stopped) \cup other
            taken == ToSet(SubSeq(tasks_queue, 1, n))
        IN /\ tasks' = tasks \cup (taken \ failing)
           /\ Answer(taken \cap failing)
           /\ tasks_queue' = SubSeq(tasks_queue, n + 1, Len(tasks_queue))
  BY DEF AddTask
<1> DEFINE failing == (Queued \cap stopped) \cup other
           taken == ToSet(SubSeq(tasks_queue, 1, n))
           q == tasks_queue
           r == SubSeq(q, n + 1, Len(q))
<1>2. UNCHANGED <<orphans, posting, stopped>>
  BY DEF AddTask, unserved
<1>3. q \in Seq(Task) /\ Distinct(q) /\ SortedBy(Priority, q)
  BY DEF RequestsOK, DataType, OnePlace, InOrder
<1>4. SuffixOf(Task, q, n, r)
  BY <1>3, SuffixFacts
<1>5. \A t : t \in taken <=> \E i \in DOMAIN q : i <= n /\ q[i] = t
  BY <1>3 DEF ToSet
<1>6. tasks' = tasks \cup (taken \ failing) /\ tasks_queue' = r
      /\ answers' = [t \in Task |-> IF t \in taken \cap failing THEN answers[t] + 1 ELSE answers[t]]
  BY <1>1 DEF Answer
<1> HIDE DEF failing, taken, r
<1>7. /\ r \in Seq(Task)
      /\ \A i \in DOMAIN r : i \in Nat /\ n + i \in DOMAIN q /\ r[i] = q[n + i]
      /\ \A i \in DOMAIN q : i <= n \/ (i - n \in DOMAIN r /\ r[i - n] = q[i])
  BY <1>4 DEF SuffixOf
<1>8. n \in Nat /\ DOMAIN q = 1..Len(q) /\ DOMAIN r = 1..Len(r)
  BY <1>3, <1>7
<1>9. Distinct(r)
  <2>1. SUFFICES ASSUME NEW i \in DOMAIN r, NEW j \in DOMAIN r, r[i] = r[j] PROVE i = j
    BY DEF Distinct
  <2>2. n + i = n + j
    BY <1>3, <1>7, <2>1 DEF Distinct
  <2> QED
    BY <1>7, <1>8, <2>2
<1>10. SortedBy(Priority, r)
  <2>1. SUFFICES ASSUME NEW i \in 1..Len(r), NEW j \in 1..Len(r), i < j
                 PROVE  Priority[r[i]] <= Priority[r[j]]
    BY DEF SortedBy
  <2>2. n + i \in 1..Len(q) /\ n + j \in 1..Len(q) /\ r[i] = q[n + i] /\ r[j] = q[n + j]
    BY <1>7, <1>8
  <2>3. n + i < n + j
    BY <1>8, <2>1
  <2> QED
    BY <1>3, <2>2, <2>3 DEF SortedBy
<1>11. \A t \in Task : In(r, t) <=> In(q, t) /\ t \notin taken
  <2>1. ASSUME NEW t \in Task, In(r, t) PROVE In(q, t) /\ t \notin taken
    <3>1. PICK i \in DOMAIN r : r[i] = t
      BY <2>1 DEF In
    <3>2. i \in Nat /\ i >= 1 /\ n + i \in DOMAIN q /\ q[n + i] = t
      BY <1>7, <1>8, <3>1
    <3>3. ~(n + i <= n)
      BY <1>8, <3>2
    <3> QED
      BY <1>3, <1>5, <3>2, <3>3 DEF In, Distinct
  <2>2. ASSUME NEW t \in Task, In(q, t), t \notin taken PROVE In(r, t)
    <3>1. PICK i \in DOMAIN q : q[i] = t
      BY <2>2 DEF In
    <3>2. ~(i <= n)
      BY <1>5, <2>2, <3>1
    <3> QED
      BY <1>7, <3>1, <3>2 DEF In
  <2> QED
    BY <2>1, <2>2
<1>12. \A t \in taken : t \in Task /\ In(q, t)
  BY <1>3, <1>5 DEF In
<1>13. \A t \in taken : answers[t] = 0 /\ t \notin posting /\ t \notin tasks
  BY <1>12 DEF RequestsOK, OnePlace, DataType
<1>14. DataType'
  BY <1>2, <1>6, <1>7, <1>12, <1>13 DEF RequestsOK, DataType
<1>15. \A t \in Task : answers'[t] = 1 <=> answers[t] = 1 \/ t \in taken \cap failing
  BY <1>6, <1>13 DEF RequestsOK, DataType
<1>16. OnePlace'
  BY <1>2, <1>6, <1>9, <1>11, <1>13, <1>15 DEF RequestsOK, OnePlace
<1> QED
  BY <1>6, <1>10, <1>14, <1>16 DEF RequestsOK, InOrder

-------------------------------------------------------------------------------
(***************************************************************************)
(* The calls and the service thread.                                       *)
(***************************************************************************)
LEMMA InitIInv ==
  Init => IInv
<1> SUFFICES ASSUME Init PROVE IInv
  OBVIOUS
<1>1. DataType
  BY DEF Init, DataType
<1>2. OnePlace /\ InOrder
  BY DEF Init, OnePlace, InOrder, Distinct, In, SortedBy
<1>3. ServiceType
  BY DEF Init, ServiceType, Place, Flag
<1>4. CallsType
  <2>1. calls = [c \in Caller |-> <<>>] /\ calls_made = 0
    BY DEF Init
  <2>2. calls \in [Caller -> Seq(Flag \cup {"stop", "notify", "join"})]
    BY <2>1
  <2>3. CallsShape
    BY <2>1 DEF CallsShape, CoreSteps, NetSteps, Caller
  <2> QED
    BY <2>1, <2>2, <2>3, CurlAssumption DEF CallsType
<1> QED
  BY <1>1, <1>2, <1>3, <1>4 DEF IInv, RequestsOK

LEMMA CallStarts ==
  ASSUME CallsType, CallAny
  PROVE  /\ CallsType' /\ UNCHANGED <<tasks_queue, tasks, orphans, posting, answers, stopped, flags, serviceVars>>
         /\ Head(calls'["core"]) = "multi" /\ calls'["core"] # <<>> => UNCHANGED <<calls["core"]>>
         /\ Told'
<1>1. PICK c \in Caller, s \in {Cleanup, Reset, ProcessStopped, ResetSockets} :
        /\ CallControl(c, s)
        /\ (c = "core" /\ s \in {Cleanup, Reset, ProcessStopped}) \/ (c = "net" /\ s = ResetSockets)
  BY DEF CallAny, Caller
<1>2. /\ calls' = [calls EXCEPT ![c] = s]
      /\ calls_made' = calls_made \/ (calls_made < MaxCalls /\ calls_made' = calls_made + 1)
      /\ UNCHANGED <<tasks_queue, tasks, orphans, posting, answers, stopped, flags, serviceVars>>
  BY <1>1 DEF CallControl
<1>3. calls_made' \in 0..MaxCalls
  BY <1>2, CurlAssumption DEF CallsType
<1>4. calls \in [Caller -> Seq(Step)] /\ CallsShape
  BY DEF CallsType, Step
<1>5. s \in Seq(Step) /\ "notify" \in ToSet(s)
  BY CallFacts
<1>6. calls' \in [Caller -> Seq(Step)] /\ calls'[c] = s /\ \A d \in Caller \ {c} : calls'[d] = calls[d]
  BY <1>2, <1>4, <1>5
<1>7. CallsShape'
  BY <1>1, <1>4, <1>6, CallFacts DEF CallsShape, Caller
<1>8. Head(calls'["core"]) = "multi" /\ calls'["core"] # <<>> => calls'["core"] = calls["core"]
  BY <1>1, <1>6, CallFacts DEF Caller
<1>9. Told'
  BY <1>5, <1>6 DEF Told
<1> QED
  BY <1>2, <1>3, <1>6, <1>7, <1>8, <1>9 DEF CallsType, Step

\* A step of a call: it sets its flag, or notifies, or joins.
LEMMA CallGoesOn ==
  ASSUME CallsType, ServiceType, NEW c \in Caller, StepControl(c)
  PROVE  /\ CallsType' /\ ServiceType'
         /\ UNCHANGED <<tasks_queue, tasks, orphans, posting, answers, stopped, served, inner, torn>>
         /\ flags \subseteq flags' /\ (at' = at \/ (at = "asleep" /\ at' = "process"))
         /\ "multi" \in flags' \ flags => MidReset
         /\ MidReset' => MidReset \/ "cancel" \in flags'
         /\ at' = "asleep" => at = "asleep" /\ Told'
<1> DEFINE s == calls[c]
           h == Head(s)
<1>1. /\ s # <<>> /\ calls' = [calls EXCEPT ![c] = Tail(s)]
      /\ flags' = IF h \in {"notify", "join"} THEN flags ELSE flags \cup {h}
      /\ at' = IF h = "notify" THEN Woken ELSE at
      /\ h = "join" => at = "exit"
      /\ UNCHANGED <<tasks_queue, tasks, orphans, posting, answers, stopped, calls_made, served, inner, torn>>
  BY DEF StepControl
<1>2. calls \in [Caller -> Seq(Step)] /\ CallsShape
  BY DEF CallsType, Step
<1>3. /\ s \in Seq(Step) /\ h \in Step
      /\ h \in Step \ {"notify", "join"} => "notify" \in ToSet(Tail(s))
      /\ c = "core" => Tail(s) \in CoreSteps /\ (Tail(s) # <<>> /\ Head(Tail(s)) = "multi" => h = "cancel")
      /\ c = "net" => Tail(s) \in NetSteps /\ h \in {"sockets", "notify"}
  <2>1. CASE c = "core"
    BY <1>1, <1>2, <2>1, CoreStepFacts DEF CallsShape
  <2>2. CASE c = "net"
    BY <1>1, <1>2, <2>2, NetStepFacts DEF CallsShape, Step, Flag
  <2> QED
    BY <2>1, <2>2 DEF Caller
<1>4. /\ calls' \in [Caller -> Seq(Step)] /\ calls'[c] = Tail(s)
      /\ \A d \in Caller \ {c} : calls'[d] = calls[d]
  BY <1>1, <1>2, <1>3
<1> HIDE DEF h
<1>5. CallsType'
  <2>1. CallsShape'
    BY <1>2, <1>3, <1>4 DEF CallsShape, Caller
  <2> QED
    BY <1>1, <1>4, <2>1 DEF CallsType, Step
<1>6. flags \subseteq flags' /\ (at' = at \/ (at = "asleep" /\ at' = "process"))
  BY <1>1 DEF Woken
<1>7. ServiceType'
  BY <1>1, <1>3, <1>6 DEF ServiceType, Step, Flag, Place
<1>8. "multi" \in flags' \ flags => MidReset
  BY <1>1, <1>3 DEF MidReset, Caller, h
<1>9. MidReset' => MidReset \/ "cancel" \in flags'
  BY <1>1, <1>3, <1>4 DEF MidReset, Caller
<1>10. ASSUME at' = "asleep" PROVE at = "asleep" /\ Told'
  <2>1. at = "asleep" /\ h # "notify"
    BY <1>1, <1>6, <1>10 DEF Woken
  <2>2. h \in Step \ {"notify", "join"}
    BY <1>1, <1>3, <2>1
  <2>3. Told'
    BY <1>3, <1>4, <2>2 DEF Told
  <2> QED
    BY <2>1, <2>3
<1> QED
  BY <1>1, <1>5, <1>6, <1>7, <1>8, <1>9, <1>10

LEMMA CallsKept ==
  ASSUME CallsType, UNCHANGED <<calls, calls_made>>
  PROVE  CallsType' /\ (MidReset' <=> MidReset) /\ (Told' <=> Told)
BY DEF CallsType, CallsShape, MidReset, Told

\* A flag is passed over.
LEMMA SkipFlagFacts ==
  ASSUME ServiceType, SkipFlag
  PROVE  ServiceType' /\ ~served' /\ flags' = flags /\ torn' = torn /\ at \in Flag \ flags /\ at' = After[at]
<1>1. at \in Flag \ flags /\ at' = After[at] /\ UNCHANGED <<flags, served, inner, torn>>
  BY DEF SkipFlag
<1>2. at' \in Place
  BY <1>1, AfterFacts DEF Place, Flag
<1> QED
  BY <1>1, <1>2 DEF ServiceType

\* A flag was served and is cleared.
LEMMA ClearFlagFacts ==
  ASSUME ServiceType, ClearFlag
  PROVE  /\ ServiceType' /\ ~served' /\ served /\ at \in Flag /\ flags' = flags \ {at} /\ at' = After[at]
         /\ torn' = (torn \/ (at = "cancel" /\ MidReset))
<1>1. /\ served /\ ~served' /\ flags' = flags \ {at} /\ at' = After[at] /\ inner' = inner
      /\ torn' = (torn \/ (at = "cancel" /\ MidReset))
  BY DEF ClearFlag
<1>2. at \in Flag
  BY <1>1 DEF ServiceType, Place, Flag
<1>3. at' \in Place /\ torn' \in BOOLEAN
  <2>1. at' \in Place
    BY <1>1, <1>2, AfterFacts DEF Place, Flag
  <2>2. torn' \in BOOLEAN
    BY <1>1, Zenon
  <2> QED
    BY <2>1, <2>2
<1>4. served' = FALSE /\ flags' \subseteq flags /\ inner' = inner
  BY <1>1 DEF ClearFlag
<1>5. ServiceType'
  BY <1>3, <1>4 DEF ServiceType
<1> QED
  BY <1>1, <1>2, <1>5, Zenon

\* A flag is served, in one of four ways.
LEMMA ServesFacts ==
  ASSUME ServiceType, NEW f \in Flag, Serves(f)
  PROVE  ServiceType' /\ at = f /\ f \in flags /\ UNCHANGED <<flags, at, inner, torn, posting, stopped, calls, calls_made>>
BY DEF ServiceType, Serves, unserved

\* The steps that end neither at a flag but the first, nor with a flag served.
Elsewhere ==
  /\ ServiceType' /\ flags' = flags /\ torn' = torn
  /\ at \notin Flag /\ at' \in (Place \ Flag) \cup {"process"}

LEMMA ElsewhereFacts ==
  ASSUME ServiceType, AddTask \/ Check \/ Wait \/ Round \/ SpuriousWakeup
  PROVE  /\ Elsewhere /\ UNCHANGED <<posting, stopped, calls, calls_made>>
         /\ at' = "asleep" => at = "idle"
<1>1. CASE AddTask
  BY <1>1 DEF AddTask, unserved, Elsewhere, ServiceType, Place, Flag
<1>2. CASE Check
  <2>1. at = "check" /\ at' \in {"process", "exit", "perform", "idle"} /\ inner' \in BOOLEAN
    BY <1>2 DEF Check
  <2>2. UNCHANGED <<flags, served, torn, posting, stopped, calls, calls_made>>
    BY <1>2 DEF Check, unserved
  <2> QED
    BY <2>1, <2>2 DEF Elsewhere, ServiceType, Place, Flag
<1>3. CASE Wait
  BY <1>3 DEF Wait, unserved, Elsewhere, ServiceType, Place, Flag
<1>4. CASE Round
  <2>1. PICK done \in SUBSET tasks, next \in {"stuff", "left", "again"} : CurlRound(done, next)
    BY <1>4 DEF Round
  <2>2. at = "perform" /\ at' \in {"process", "perform"} /\ inner' \in BOOLEAN
    BY <2>1 DEF CurlRound, ServiceType
  <2>3. UNCHANGED <<flags, served, torn, posting, stopped, calls, calls_made>>
    BY <2>1 DEF CurlRound, unserved
  <2> QED
    BY <2>2, <2>3 DEF Elsewhere, ServiceType, Place, Flag
<1>5. CASE SpuriousWakeup
  BY <1>5 DEF SpuriousWakeup, unserved, Elsewhere, ServiceType, Place, Flag
<1> QED
  BY <1>1, <1>2, <1>3, <1>4, <1>5

\* What the steps of the service thread do to what libcurl holds.
LEMMA HeldShrinks ==
  ASSUME RequestsOK,
         SkipFlag \/ ClearFlag \/ ProcessStoppedTasksInternal \/ ResetSocketsInternal
           \/ Check \/ Wait \/ Round \/ SpuriousWakeup
  PROVE  RequestsOK' /\ tasks' \subseteq tasks /\ orphans' \subseteq orphans /\ tasks_queue' = tasks_queue
<1>1. CASE SkipFlag \/ ClearFlag \/ Check \/ Wait \/ SpuriousWakeup
  <2>1. UNCHANGED <<tasks_queue, tasks, orphans, posting, answers, stopped>>
    BY <1>1 DEF SkipFlag, ClearFlag, Check, Wait, SpuriousWakeup, unserved
  <2> QED
    BY <2>1, RequestsKept
<1>2. CASE ProcessStoppedTasksInternal
  <2>1. Finish(tasks \cap stopped) /\ UNCHANGED <<tasks_queue, posting, stopped>>
    BY <1>2 DEF ProcessStoppedTasksInternal, Serves, unserved
  <2> QED
    BY <2>1, FinishFacts
<1>3. CASE ResetSocketsInternal
  <2>1. PICK connected \in SUBSET (tasks \ orphans) : Finish(connected)
    BY <1>3 DEF ResetSocketsInternal
  <2>2. UNCHANGED <<tasks_queue, posting, stopped>>
    BY <1>3 DEF ResetSocketsInternal, Serves, unserved
  <2>3. connected \in SUBSET tasks
    OBVIOUS
  <2> QED
    BY <2>1, <2>2, <2>3, FinishFacts
<1>4. CASE Round
  <2>1. PICK done \in SUBSET tasks, next \in {"stuff", "left", "again"} : CurlRound(done, next)
    BY <1>4 DEF Round
  <2>2. Finish(done) /\ UNCHANGED <<tasks_queue, posting, stopped>>
    BY <2>1 DEF CurlRound, CheckMultiInfo, unserved
  <2> QED
    BY <2>1, <2>2, FinishFacts
<1> QED
  BY <1>1, <1>2, <1>3, <1>4

LEMMA ResetMultiRequests ==
  ASSUME RequestsOK, ResetMulti
  PROVE  RequestsOK' /\ UNCHANGED <<tasks, tasks_queue>> /\ orphans' = tasks
<1>1. orphans' = tasks /\ UNCHANGED <<tasks_queue, tasks, answers, posting, stopped>>
  BY DEF ResetMulti, Serves, unserved
<1> QED
  BY <1>1 DEF RequestsOK, DataType, OnePlace, InOrder

-------------------------------------------------------------------------------
(***************************************************************************)
(* Types, and every request in one place.                                  *)
(***************************************************************************)
LEMMA NextIInv ==
  IInv /\ [Next]_vars => IInv'
<1> SUFFICES ASSUME IInv, [Next]_vars PROVE IInv'
  OBVIOUS
<1>0. RequestsOK /\ CallsType /\ ServiceType
  BY DEF IInv
<1>1. ASSUME NEW t \in Task, Perform(t) \/ AddTaskToQueue(t) \/ StopTask(t) \/ RaiseTask(t)
      PROVE  IInv'
  <2>1. UNCHANGED <<calls, calls_made>>
    BY <1>1 DEF Perform, AddTaskToQueue, StopTask, RaiseTask, callVars
  <2>2. CallsType'
    BY <1>0, <2>1, CallsKept
  <2>3. UNCHANGED <<flags, served, inner, torn>> /\ (at' = at \/ (at = "asleep" /\ at' = "process"))
    BY <1>1 DEF Perform, AddTaskToQueue, StopTask, RaiseTask, callVars, serviceVars, Woken
  <2>4. ServiceType'
    BY <1>0, <2>3 DEF ServiceType, Place, Flag
  <2>5. RequestsOK'
    <3>1. CASE StopTask(t)
      <4>1. stopped' = stopped \cup {t} /\ UNCHANGED <<tasks_queue, tasks, orphans, posting, answers>>
        BY <3>1 DEF StopTask
      <4> QED
        BY <1>0, <4>1 DEF RequestsOK, DataType, OnePlace, InOrder
    <3> QED
      BY <1>0, <1>1, <3>1, PerformRequests, AddToQueueRequests, RaiseTaskRequests
  <2> QED
    BY <2>2, <2>4, <2>5 DEF IInv
<1>2. CASE CallAny
  <2>1. CallsType' /\ UNCHANGED <<tasks_queue, tasks, orphans, posting, answers, stopped, flags, serviceVars>>
    BY <1>0, <1>2, CallStarts
  <2>2. RequestsOK'
    BY <1>0, <2>1, RequestsKept
  <2>3. ServiceType'
    BY <1>0, <2>1 DEF ServiceType, serviceVars
  <2> QED
    BY <2>1, <2>2, <2>3 DEF IInv
<1>3. ASSUME NEW c \in Caller, StepControl(c) PROVE IInv'
  <2>1. CallsType' /\ ServiceType' /\ UNCHANGED <<tasks_queue, tasks, orphans, posting, answers, stopped>>
    BY <1>0, <1>3, CallGoesOn
  <2> QED
    BY <1>0, <2>1, RequestsKept DEF IInv
<1>4. CASE Service \/ Round \/ SpuriousWakeup
  <2>1. UNCHANGED <<calls, calls_made>>
    <3>1. CASE Round
      BY <3>1 DEF Round, CurlRound, unserved
    <3> QED
      BY <1>4, <3>1 DEF Service, SkipFlag, ClearFlag, ProcessStoppedTasksInternal, CancelTasks, ResetMulti,
                        ResetSocketsInternal, AddTask, Check, Wait, SpuriousWakeup, Serves, unserved
  <2>2. CallsType'
    BY <1>0, <2>1, CallsKept
  <2>3. RequestsOK'
    BY <1>0, <1>4, HeldShrinks, CancelRequests, ResetMultiRequests, AddTaskRequests DEF Service
  <2>4. ServiceType'
    <3>1. CASE ProcessStoppedTasksInternal \/ CancelTasks \/ ResetMulti \/ ResetSocketsInternal
      <4>1. PICK f \in Flag : Serves(f)
        BY <3>1 DEF ProcessStoppedTasksInternal, CancelTasks, ResetMulti, ResetSocketsInternal, Flag
      <4> QED
        BY <1>0, <4>1, ServesFacts
    <3> QED
      BY <1>0, <1>4, <3>1, SkipFlagFacts, ClearFlagFacts, ElsewhereFacts DEF Service, Elsewhere
  <2> QED
    BY <2>2, <2>3, <2>4 DEF IInv
<1>5. CASE UNCHANGED vars
  <2>1. /\ UNCHANGED <<tasks_queue, tasks, orphans, posting, answers, stopped>>
        /\ UNCHANGED <<calls, calls_made>> /\ UNCHANGED <<flags, at, served, inner, torn>>
    BY <1>5 DEF vars
  <2>2. ServiceType'
    BY <1>0, <2>1 DEF ServiceType
  <2> QED
    BY <1>0, <2>1, <2>2, RequestsKept, CallsKept DEF IInv
<1> QED
  BY <1>1, <1>2, <1>3, <1>4, <1>5 DEF Next

\* The variables keep their types: no request is answered a second
\* time, and what the multi handle forgot is among what the service thread holds.
THEOREM TypeCorrect ==
  Spec => []TypeOK
<1>1. Spec => []IInv
  BY InitIInv, NextIInv, PTL DEF Spec
<1> QED
  BY <1>1, InvariantTypes, PTL

\* A request is in one place, posted, in the queue once, with libcurl or answered
\* once, however resets, cancellations and completions interleave.
THEOREM OneAnswerEach ==
  Spec => []NeverLostNorDoubled
<1>1. IInv => NeverLostNorDoubled
  <2> SUFFICES ASSUME IInv PROVE NeverLostNorDoubled
    OBVIOUS
  <2>1. \A i, j \in DOMAIN tasks_queue : tasks_queue[i] = tasks_queue[j] => i = j
    BY DEF IInv, RequestsOK, OnePlace, Distinct
  <2>2. ASSUME NEW t \in Task
        PROVE  One(t \in posting) + One(t \in Queued) + One(t \in tasks) + answers[t] <= 1
    <3>1. /\ ~(t \in posting /\ t \in tasks) /\ ~(t \in Queued /\ t \in posting \cup tasks)
          /\ answers[t] = 1 => t \notin posting \cup tasks /\ t \notin Queued
          /\ answers[t] \in {0, 1}
      BY QueuedIsIn DEF IInv, RequestsOK, OnePlace, DataType, Queued
    <3> QED
      BY <3>1 DEF One
  <2> QED
    BY <2>1, <2>2 DEF NeverLostNorDoubled
<1>2. Spec => []IInv
  BY InitIInv, NextIInv, PTL DEF Spec
<1> QED
  BY <1>1, <1>2, PTL

-------------------------------------------------------------------------------
(***************************************************************************)
(* Resets and cancellations.                                               *)
(***************************************************************************)
\* A step that keeps what is asked for, and neither begins a reset nor comes to
\* the cancellation.
LEMMA ResetKept ==
  ASSUME ResetInv, flags \subseteq flags', torn' = torn, "multi" \in flags' => "multi" \in flags \/ MidReset,
         MidReset' => MidReset \/ "cancel" \in flags', tasks' \subseteq tasks, orphans' \subseteq orphans,
         at = "multi" => at' = "multi", served' /\ at' = "cancel" => served /\ at = "cancel"
  PROVE  ResetInv'
<1>1. CancelledAll'
  BY DEF ResetInv, CancelledAll
<1>2. ResetCovered'
  BY DEF ResetInv, ResetCovered
<1>3. OrphansAreCancelled'
  BY DEF ResetInv, OrphansAreCancelled
<1> QED
  BY <1>1, <1>2, <1>3 DEF ResetInv

LEMMA InitResetInv ==
  Init => ResetInv
<1> SUFFICES ASSUME Init PROVE ResetInv
  OBVIOUS
<1>1. /\ tasks = {} /\ orphans = {} /\ flags = {} /\ at = "process" /\ served = FALSE /\ calls["core"] = <<>>
  BY DEF Init, Caller
<1> QED
  BY <1>1 DEF ResetInv, CancelledAll, ResetCovered, OrphansAreCancelled, MidReset

LEMMA NextResetInv ==
  IInv /\ ResetInv /\ [Next]_vars => ResetInv'
<1> SUFFICES ASSUME IInv, ResetInv, [Next]_vars PROVE ResetInv'
  OBVIOUS
<1>0. RequestsOK /\ CallsType /\ ServiceType
  BY DEF IInv
<1>i. /\ served /\ at = "cancel" => tasks = {}
      /\ MidReset => "cancel" \in flags \/ torn
      /\ "multi" \in flags => "cancel" \in flags \/ torn \/ (at = "multi" /\ tasks = {})
      /\ orphans # {} => "cancel" \in flags \/ torn
      /\ orphans \subseteq tasks
  BY <1>0 DEF ResetInv, CancelledAll, ResetCovered, OrphansAreCancelled, RequestsOK, DataType
<1>1. ASSUME NEW t \in Task, Perform(t) \/ AddTaskToQueue(t) \/ StopTask(t) \/ RaiseTask(t)
      PROVE  ResetInv'
  <2>1. /\ UNCHANGED <<tasks, orphans, flags, served, torn, calls, calls_made>>
        /\ at' = at \/ (at = "asleep" /\ at' = "process")
    BY <1>1 DEF Perform, AddTaskToQueue, StopTask, RaiseTask, callVars, serviceVars, Woken
  <2>2. MidReset' <=> MidReset
    BY <2>1 DEF MidReset
  <2> QED
    BY <2>1, <2>2, ResetKept
<1>2. CASE CallAny
  <2>1. /\ UNCHANGED <<tasks, orphans, flags, at, served, torn>>
        /\ Head(calls'["core"]) = "multi" /\ calls'["core"] # <<>> => UNCHANGED <<calls["core"]>>
    BY <1>0, <1>2, CallStarts DEF serviceVars
  <2>2. MidReset' => MidReset
    BY <2>1 DEF MidReset
  <2> QED
    BY <2>1, <2>2, ResetKept
<1>3. ASSUME NEW c \in Caller, StepControl(c) PROVE ResetInv'
  <2>1. /\ UNCHANGED <<tasks, orphans, served, torn>>
        /\ flags \subseteq flags' /\ (at' = at \/ (at = "asleep" /\ at' = "process"))
        /\ "multi" \in flags' \ flags => MidReset
        /\ MidReset' => MidReset \/ "cancel" \in flags'
    BY <1>0, <1>3, CallGoesOn
  <2> QED
    BY <2>1, ResetKept
<1>4. CASE SkipFlag
  <2>1. ~served' /\ flags' = flags /\ torn' = torn /\ at \in Flag \ flags /\ at' = After[at]
    BY <1>0, <1>4, SkipFlagFacts
  <2>2. UNCHANGED <<tasks, orphans, calls>>
    BY <1>4 DEF SkipFlag, unserved
  <2>3. MidReset' <=> MidReset
    BY <2>2 DEF MidReset
  <2>4. CancelledAll' /\ OrphansAreCancelled'
    BY <1>i, <2>1, <2>2 DEF CancelledAll, OrphansAreCancelled
  <2>5. ResetCovered'
    BY <1>i, <2>1, <2>2, <2>3 DEF ResetCovered
  <2> QED
    BY <2>4, <2>5 DEF ResetInv
<1>5. CASE ClearFlag
  <2>1. /\ ~served' /\ served /\ at \in Flag /\ flags' = flags \ {at} /\ at' = After[at]
        /\ torn' = (torn \/ (at = "cancel" /\ MidReset))
    BY <1>0, <1>5, ClearFlagFacts
  <2>2. UNCHANGED <<tasks, orphans, calls>>
    BY <1>5 DEF ClearFlag, unserved
  <2>3. MidReset' <=> MidReset
    BY <2>2 DEF MidReset
  <2>4. CancelledAll'
    BY <2>1 DEF CancelledAll
  <2>5. torn => torn'
    BY <2>1
  <2>6. CASE at = "cancel"
    <3>1. tasks' = {} /\ orphans' = {} /\ at' = "multi" /\ (MidReset => torn')
      BY <1>i, <2>1, <2>2, <2>6, AfterFacts
    <3> QED
      BY <2>3, <2>4, <3>1 DEF ResetInv, ResetCovered, OrphansAreCancelled
  <2>7. CASE at # "cancel"
    <3>1. /\ "cancel" \in flags => "cancel" \in flags'
          /\ "multi" \in flags' => "multi" \in flags /\ at # "multi"
      BY <2>1, <2>7
    <3>2. OrphansAreCancelled'
      BY <1>i, <2>2, <2>5, <3>1 DEF OrphansAreCancelled
    <3>3. ResetCovered'
      BY <1>i, <2>3, <2>5, <3>1 DEF ResetCovered
    <3> QED
      BY <2>4, <3>2, <3>3 DEF ResetInv
  <2> QED
    BY <2>6, <2>7
<1>6. CASE ProcessStoppedTasksInternal \/ ResetSocketsInternal
  <2>1. PICK f \in {"process", "sockets"} : Serves(f)
    BY <1>6 DEF ProcessStoppedTasksInternal, ResetSocketsInternal
  <2>2. at = f /\ UNCHANGED <<flags, at, torn, calls, calls_made>>
    BY <2>1 DEF Serves, unserved
  <2>3. tasks' \subseteq tasks /\ orphans' \subseteq orphans /\ (MidReset' <=> MidReset)
    BY <1>0, <1>6, <2>2, HeldShrinks, CallsKept
  <2> QED
    BY <2>2, <2>3, ResetKept
<1>7. CASE CancelTasks
  <2>1. at = "cancel" /\ "cancel" \in flags /\ UNCHANGED <<flags, at, torn, calls, calls_made>>
    BY <1>7 DEF CancelTasks, Serves, unserved
  <2>2. tasks' = {} /\ orphans' = {}
    BY <1>0, <1>7, CancelRequests
  <2> QED
    BY <2>1, <2>2 DEF ResetInv, CancelledAll, ResetCovered, OrphansAreCancelled
<1>8. CASE ResetMulti
  <2>1. at = "multi" /\ "multi" \in flags /\ UNCHANGED <<flags, at, torn, calls, calls_made>>
    BY <1>8 DEF ResetMulti, Serves, unserved
  <2>2. orphans' = tasks /\ tasks' = tasks /\ (MidReset' <=> MidReset)
    BY <1>0, <1>8, <2>1, ResetMultiRequests, CallsKept
  <2>3. ResetCovered' /\ CancelledAll'
    BY <1>i, <2>1, <2>2 DEF ResetCovered, CancelledAll
  <2>4. OrphansAreCancelled'
    BY <1>i, <2>1, <2>2 DEF OrphansAreCancelled
  <2> QED
    BY <2>3, <2>4 DEF ResetInv
<1>9. CASE AddTask \/ Check \/ Wait \/ Round \/ SpuriousWakeup
  <2>1. /\ flags' = flags /\ torn' = torn /\ at \notin Flag /\ at' \in (Place \ Flag) \cup {"process"}
        /\ UNCHANGED <<calls, calls_made>>
    BY <1>0, <1>9, ElsewhereFacts DEF Elsewhere
  <2>2. orphans' \subseteq orphans /\ (MidReset' <=> MidReset)
    <3>1. CASE AddTask
      BY <1>0, <2>1, <3>1, CallsKept DEF AddTask
    <3> QED
      BY <1>0, <1>9, <2>1, <3>1, HeldShrinks, CallsKept
  <2>3. at # "multi" /\ at' # "cancel"
    BY <2>1 DEF Flag, Place
  <2>4. CancelledAll' /\ OrphansAreCancelled' /\ ResetCovered'
    BY <1>i, <2>1, <2>2, <2>3 DEF CancelledAll, OrphansAreCancelled, ResetCovered
  <2> QED
    BY <2>4 DEF ResetInv
<1>10. CASE UNCHANGED vars
  BY <1>10 DEF vars, ResetInv, CancelledAll, OrphansAreCancelled, ResetCovered, MidReset
<1> QED
  BY <1>1, <1>2, <1>3, <1>4, <1>5, <1>6, <1>7, <1>8, <1>9, <1>10 DEF Next, Service

\* Requests the replaced multi handle held have a cancellation ahead, wherever the
\* service thread is in its round of serving and clearing flags, unless a reset
\* was torn in two.
THEOREM ResetsLeaveNoneHanging ==
  Spec => []OrphansAreCancelled
<1>1. IInv /\ ResetInv /\ [Next]_vars => (IInv /\ ResetInv)'
  BY NextIInv, NextResetInv
<1>2. ResetInv => OrphansAreCancelled
  BY DEF ResetInv
<1> QED
  BY <1>1, <1>2, InitIInv, InitResetInv, PTL DEF Spec

-------------------------------------------------------------------------------
(***************************************************************************)
(* The wait.                                                               *)
(***************************************************************************)
LEMMA NextOversleeps ==
  IInv /\ Next => (~Overslept /\ Overslept' => at = "idle")
<1> SUFFICES ASSUME IInv, Next, ~Overslept, Overslept' PROVE at = "idle"
  OBVIOUS
<1>0. RequestsOK /\ CallsType /\ ServiceType
  BY DEF IInv
<1>o. at' = "asleep" /\ ~Told' /\ (tasks_queue' # <<>> \/ flags' # {})
  BY DEF Overslept
<1>1. ASSUME NEW t \in Task, Perform(t) \/ AddTaskToQueue(t) \/ StopTask(t) \/ RaiseTask(t)
      PROVE  FALSE
  <2>1. ~AddTaskToQueue(t)
    BY <1>o DEF AddTaskToQueue, Woken
  <2>2. UNCHANGED <<at, flags, calls>>
    BY <1>1, <2>1 DEF Perform, StopTask, RaiseTask, callVars, serviceVars
  <2>3. tasks_queue' # <<>> => tasks_queue # <<>>
    <3>1. CASE RaiseTask(t)
      BY <1>0, <3>1 DEF RaiseTask, RequestsOK, DataType
    <3> QED
      BY <1>1, <2>1, <3>1 DEF Perform, StopTask
  <2> QED
    BY <1>o, <2>2, <2>3 DEF Overslept, Told
<1>2. CASE CallAny
  BY <1>0, <1>2, <1>o, CallStarts
<1>3. ASSUME NEW c \in Caller, StepControl(c) PROVE FALSE
  BY <1>0, <1>3, <1>o, CallGoesOn
<1>4. CASE AddTask \/ Check \/ Wait \/ Round \/ SpuriousWakeup
  BY <1>0, <1>4, <1>o, ElsewhereFacts
<1>5. CASE SkipFlag \/ ClearFlag
  <2>1. at' \in {"cancel", "multi", "sockets", "add"}
    BY <1>0, <1>5, SkipFlagFacts, ClearFlagFacts, AfterFacts
  <2> QED
    BY <1>o, <2>1
<1>6. CASE ProcessStoppedTasksInternal \/ CancelTasks \/ ResetMulti \/ ResetSocketsInternal
  BY <1>6, <1>o DEF ProcessStoppedTasksInternal, CancelTasks, ResetMulti, ResetSocketsInternal, Serves
<1> QED
  BY <1>1, <1>2, <1>3, <1>4, <1>5, <1>6 DEF Next, Service

\* The service thread sleeps on work only when it came between the thread's last
\* look and its wait: a notification that is sent while it sleeps is never missed.
THEOREM OnlyIdleOversleeps ==
  Spec => OversleepsOnlyFromIdle
<1>1. IInv /\ [Next]_vars => [~Overslept /\ Overslept' => at = "idle"]_vars
  BY NextOversleeps
<1> QED
  BY <1>1, InitIInv, NextIInv, PTL DEF Spec, OversleepsOnlyFromIdle

-------------------------------------------------------------------------------
(***************************************************************************)
(* The order of starts.                                                    *)
(***************************************************************************)
Starts(t) ==
  /\ \A u \in ToSet(tasks_queue') : Priority[t] <= Priority[u]
  /\ Priority[t] > PriorityProtocol
     => Cardinality({u \in tasks' : Priority[u] <= Priority[t]}) <= MaxEasy

\* The greatest of the numbers up to n.
LEMMA GreatestUpTo ==
  ASSUME NEW n \in Nat, NEW K \in SUBSET (1..n), K # {}
  PROVE  \E k \in K : \A j \in K : j <= k
<1> DEFINE T == {n - k : k \in K}
<1>1. T \subseteq Nat /\ T # {}
  <2>1. \A k \in K : k \in 1..n /\ n - k \in Nat
    OBVIOUS
  <2>2. T # {}
    OBVIOUS
  <2> QED
    BY <2>1, <2>2
<1>2. PICK x \in T : \A y \in T : x <= y
  BY <1>1, LeastNat
<1>3. PICK k \in K : x = n - k
  BY <1>2
<1>4. ASSUME NEW j \in K PROVE j <= k
  <2>1. n - k <= n - j
    BY <1>2, <1>3
  <2> QED
    BY <2>1
<1> QED
  BY <1>4

\* A set that one request is added to, and a part of it.
LEMMA OneMore ==
  ASSUME NEW A \in SUBSET Task, NEW t \in Task, NEW B \in SUBSET (A \cup {t}), Cardinality(A) < MaxEasy
  PROVE  Cardinality(B) <= MaxEasy
<1>1. IsFiniteSet(A)
  BY CurlAssumption, FS_Subset
<1>2. IsFiniteSet(A \cup {t}) /\ Cardinality(A \cup {t}) <= Cardinality(A) + 1 /\ Cardinality(A) \in Nat
  <2>1. Cardinality(A) \in Nat
    BY <1>1, FS_CardinalityType
  <2>2. IsFiniteSet(A \cup {t}) /\ Cardinality(A \cup {t}) = IF t \in A THEN Cardinality(A) ELSE Cardinality(A) + 1
    BY <1>1, FS_AddElement, Zenon
  <2> QED
    BY <2>1, <2>2
<1>3. Cardinality(B) <= Cardinality(A \cup {t}) /\ Cardinality(B) \in Nat /\ Cardinality(A \cup {t}) \in Nat
  BY <1>2, FS_Subset, FS_CardinalityType
<1> QED
  BY <1>2, <1>3, CurlAssumption

LEMMA AddTaskStarts ==
  ASSUME RequestsOK, AddTask, NEW t \in tasks' \ tasks
  PROVE  Starts(t)
<1> DEFINE q == tasks_queue
<1>1. PICK other \in SUBSET Queued, n \in 0..Len(q) :
        LET failing == (Queued \cap stopped) \cup other
            taken == ToSet(SubSeq(q, 1, n))
        IN /\ \A m \in 0..(n - 1) : ~TakesNoMore(m, failing)
           /\ tasks' = tasks \cup (taken \ failing)
           /\ tasks_queue' = SubSeq(q, n + 1, Len(q))
  BY DEF AddTask
<1> DEFINE failing == (Queued \cap stopped) \cup other
           taken == ToSet(SubSeq(q, 1, n))
<1>2. /\ \A m \in 0..(n - 1) : ~TakesNoMore(m, failing)
      /\ tasks' = tasks \cup (taken \ failing)
      /\ tasks_queue' = SubSeq(q, n + 1, Len(q))
  BY <1>1
<1> HIDE DEF failing
<1>3. q \in Seq(Task) /\ SortedBy(Priority, q) /\ tasks \subseteq Task /\ n \in Nat /\ n <= Len(q)
  BY DEF RequestsOK, DataType, InOrder
<1>4. ASSUME NEW m \in 0..n
      PROVE  \A u : u \in ToSet(SubSeq(q, 1, m)) <=> \E i \in 1..m : q[i] = u
  <2>1. DOMAIN SubSeq(q, 1, m) = 1..m /\ \A i \in 1..m : SubSeq(q, 1, m)[i] = q[i]
    BY <1>3
  <2> QED
    BY <2>1, Zenon DEF ToSet
<1>5. \A i \in 1..Len(q) : q[i] \in Task /\ Priority[q[i]] \in Nat
  BY <1>3, CurlAssumption
<1>6. PICK i \in 1..n : q[i] = t
  BY <1>2, <1>3, <1>4
<1>7. t \in Task /\ t \notin failing /\ Priority[t] \in Nat
  BY <1>2, <1>3, <1>5, <1>6
<1>8. ASSUME NEW u \in ToSet(tasks_queue') PROVE Priority[t] <= Priority[u]
  <2>1. SuffixOf(Task, q, n, tasks_queue')
    BY <1>2, <1>3, SuffixFacts
  <2>2. PICK j \in DOMAIN tasks_queue' : u = tasks_queue'[j]
    BY DEF ToSet
  <2>3. n + j \in 1..Len(q) /\ u = q[n + j] /\ j \in 1..Len(tasks_queue')
    BY <1>3, <2>1, <2>2 DEF SuffixOf
  <2>4. i \in 1..Len(q) /\ i < n + j
    BY <1>3, <2>3
  <2> QED
    BY <1>3, <1>6, <2>3, <2>4 DEF SortedBy
<1>9. ASSUME Priority[t] > PriorityProtocol
      PROVE  Cardinality({u \in tasks' : Priority[u] <= Priority[t]}) <= MaxEasy
  <2> DEFINE K == {k \in 1..n : q[k] \notin failing /\ Priority[q[k]] <= Priority[t]}
             urgent == {u \in tasks' : Priority[u] <= Priority[t]}
  <2>1. i \in K /\ K \in SUBSET (1..n)
    BY <1>6, <1>7
  <2>2. PICK k \in K : \A j \in K : j <= k
    BY <1>3, <2>1, GreatestUpTo
  <2>3. k \in 1..Len(q) /\ k - 1 \in 0..(n - 1) /\ k - 1 \in 0..n /\ i <= k /\ (k - 1) + 1 = k
    BY <1>3, <2>1, <2>2
  <2>4. Priority[q[k]] > PriorityProtocol
    <3>1. Priority[t] <= Priority[q[k]]
      BY <1>3, <1>5, <1>6, <2>2, <2>3 DEF SortedBy
    <3> QED
      BY <1>5, <1>7, <1>9, <2>3, <3>1 DEF PriorityProtocol
  <2> DEFINE held == tasks \cup Started(k - 1, failing)
  <2>5. held \in SUBSET Task
    BY <1>3, <1>4, <1>5, <2>3 DEF Started
  <2>6. Cardinality(held) < MaxEasy
    <3>1. ~TakesNoMore(k - 1, failing)
      BY <1>2, <2>3
    <3>2. k - 1 < Len(q)
      BY <1>3, <2>3
    <3>3. ~(Cardinality(held) >= MaxEasy)
      BY <2>3, <2>4, <3>1, <3>2 DEF TakesNoMore
    <3>4. Cardinality(held) \in Nat
      BY <2>5, CurlAssumption, FS_Subset, FS_CardinalityType
    <3> QED
      BY <3>3, <3>4, CurlAssumption
  <2>7. ASSUME NEW u \in urgent, u \notin tasks PROVE u \in held \cup {q[k]}
    <3>1. u \notin failing /\ Priority[u] <= Priority[t]
      BY <1>2, <2>7
    <3>2. PICK j \in 1..n : q[j] = u
      <4>1. u \in taken /\ n \in 0..n
        BY <1>2, <1>3, <2>7
      <4> QED
        BY <1>4, <4>1
    <3>3. j \in K /\ j <= k
      BY <2>2, <3>1, <3>2
    <3>4. j = k \/ j \in 1..(k - 1)
      BY <2>3, <3>3
    <3> QED
      BY <1>4, <2>3, <3>1, <3>2, <3>4 DEF Started
  <2>8. urgent \in SUBSET (held \cup {q[k]})
    BY <2>7
  <2> HIDE DEF held, urgent
  <2>9. Cardinality(urgent) <= MaxEasy
    BY <1>5, <2>3, <2>5, <2>6, <2>8, OneMore
  <2> QED
    BY <2>9 DEF urgent
<1> QED
  BY <1>8, <1>9 DEF Starts

\* Requests start in the order of their priorities, and only protocol packets
\* beyond the limit of parallel ones, however the queue was built and rearranged.
THEOREM StartsFollowPriority ==
  Spec => StartsInOrder
<1>1. ASSUME IInv, Next PROVE \A t \in tasks' \ tasks : Starts(t)
  <2>0. RequestsOK
    BY <1>1 DEF IInv
  <2>1. CASE AddTask
    BY <2>0, <2>1, AddTaskStarts
  <2>2. CASE (Service /\ ~AddTask) \/ Round \/ SpuriousWakeup
    <3>1. tasks' \subseteq tasks
      BY <2>0, <2>2, HeldShrinks, CancelRequests, ResetMultiRequests DEF Service
    <3> QED
      BY <3>1
  <2>3. CASE \/ \E t \in Task : Perform(t) \/ AddTaskToQueue(t) \/ StopTask(t) \/ RaiseTask(t)
             \/ CallAny \/ \E c \in Caller : StepControl(c)
    <3>1. tasks' = tasks
      BY <2>3 DEF Perform, AddTaskToQueue, StopTask, RaiseTask, CallAny, CallControl, StepControl
    <3> QED
      BY <3>1
  <2> QED
    BY <1>1, <2>1, <2>2, <2>3 DEF Next
<1>2. IInv /\ [Next]_vars => [\A t \in tasks' \ tasks : Starts(t)]_vars
  BY <1>1
<1> QED
  BY <1>2, InitIInv, NextIInv, PTL DEF Spec, StartsInOrder, Starts

-------------------------------------------------------------------------------
(***************************************************************************)
(* The engine implements RequestBook.  That a request is in one place      *)
(* makes its progress a function of the places, and the order of the queue *)
(* makes those that add_task takes the most urgent ones.                   *)
(***************************************************************************)
LEMMA ProgressIs ==
  ASSUME RequestsOK, NEW t \in Task
  PROVE  /\ Progress(t) = "answered" <=> answers[t] = 1
         /\ Progress(t) = "running" <=> t \in tasks
         /\ Progress(t) = "waiting" <=> In(tasks_queue, t)
         /\ Progress(t) = "asked" <=> t \in posting
<1>1. t \in Queued <=> In(tasks_queue, t)
  BY QueuedIsIn DEF Queued
<1> QED
  BY <1>1 DEF Progress, RequestsOK, OnePlace

LEMMA ProgressWhere ==
  ASSUME RequestsOK, NEW t \in Task
  PROVE  Progress(t) \in {"new", "asked", "waiting", "running", "answered"}
BY DEF Progress

\* Requests that are told, or that go on to one state.
LEMMA MovesTo ==
  ASSUME NEW S, NEW state, \A t \in Task : Progress(t)' = IF t \in S THEN state ELSE Progress(t)
  PROVE  Book!Move(S, state)
BY DEF Book!Move

LEMMA EnteredIs ==
  ASSUME RequestsOK
  PROVE  /\ Book!Entered("running") = tasks
         /\ Book!Entered("waiting") = Queued
<1>1. tasks \subseteq Task /\ Queued \subseteq Task
  BY DEF RequestsOK, DataType, Queued, ToSet
<1>2. \A t : t \in Queued <=> In(tasks_queue, t)
  BY QueuedIsIn DEF Queued
<1> QED
  BY <1>1, <1>2, ProgressIs DEF Book!Entered

LEMMA BookStays ==
  ASSUME RequestsOK, UNCHANGED <<tasks_queue, tasks, posting, answers>>
  PROVE  \A t \in Task : Progress(t)' = Progress(t)
BY DEF Progress, Queued

LEMMA FinishCompletes ==
  ASSUME RequestsOK, NEW told \in SUBSET tasks, Finish(told), UNCHANGED <<tasks_queue, posting, stopped>>
  PROVE  Book!Complete(told) /\ told \in SUBSET Book!Entered("running")
<1>1. RequestsOK'
  BY FinishFacts
<1>2. /\ answers' = [t \in Task |-> IF t \in told THEN answers[t] + 1 ELSE answers[t]]
      /\ tasks' = tasks \ told /\ tasks_queue' = tasks_queue /\ posting' = posting
  BY DEF Finish, Answer
<1>3. \A t \in told : answers[t] = 0
  BY DEF RequestsOK, DataType, OnePlace
<1>4. \A t \in Task : answers'[t] = 1 <=> answers[t] = 1 \/ t \in told
  BY <1>2, <1>3 DEF RequestsOK, DataType
<1>5. \A t \in Task : Progress(t)' = IF t \in told THEN "answered" ELSE Progress(t)
  BY <1>2, <1>4 DEF Progress, Queued
<1> QED
  BY <1>5, MovesTo, EnteredIs DEF Book!Complete

LEMMA CancelCancels ==
  ASSUME RequestsOK, CancelTasks
  PROVE  Book!CancelAll
<1>1. /\ answers' = [t \in Task |-> IF t \in tasks \cup Queued THEN answers[t] + 1 ELSE answers[t]]
      /\ tasks' = {} /\ tasks_queue' = <<>> /\ posting' = posting
  BY CancelRequests DEF CancelTasks, Finish, Answer, Serves, unserved
<1>2. \A t \in tasks \cup Queued : t \in Task => answers[t] = 0
  BY QueuedIsIn DEF RequestsOK, OnePlace, DataType, Queued
<1>3. \A t \in Task : answers'[t] = 1 <=> answers[t] = 1 \/ t \in tasks \cup Queued
  BY <1>1, <1>2 DEF RequestsOK, DataType
<1>4. \A t : t \notin Queued'
  BY <1>1 DEF Queued, ToSet
<1>5. \A t \in Task : Progress(t)' = IF t \in Queued \cup tasks THEN "answered" ELSE Progress(t)
  BY <1>1, <1>3, <1>4 DEF Progress
<1>6. Book!Move(Queued \cup tasks, "answered")
  BY <1>5 DEF Book!Move
<1> QED
  BY <1>6, EnteredIs DEF Book!CancelAll

LEMMA PerformAsks ==
  ASSUME RequestsOK, NEW t \in Task, Perform(t)
  PROVE  Book!Ask(t) \/ Book!Refuse(t)
<1>1. /\ answers[t] = 0 /\ t \notin posting /\ t \notin tasks /\ t \notin Queued
      /\ UNCHANGED <<tasks_queue, tasks>>
  BY DEF Perform, IsNew
<1>2. Progress(t) = "new" /\ Queued' = Queued
  BY <1>1 DEF Progress, Queued
<1>3. CASE Answer({t}) /\ UNCHANGED posting
  <2>1. \A u \in Task : answers'[u] = IF u = t THEN 1 ELSE answers[u]
    BY <1>1, <1>3 DEF Answer, RequestsOK, DataType
  <2>2. \A u \in Task : Progress(u)' = IF u \in {t} THEN "answered" ELSE Progress(u)
    BY <1>1, <1>2, <1>3, <2>1 DEF Progress
  <2> QED
    BY <1>2, <2>2, MovesTo DEF Book!Refuse
<1>4. CASE posting' = posting \cup {t} /\ UNCHANGED answers
  <2>1. \A u \in Task : Progress(u)' = IF u \in {t} THEN "asked" ELSE Progress(u)
    BY <1>1, <1>2, <1>4 DEF Progress
  <2> QED
    BY <1>2, <2>1, MovesTo DEF Book!Ask
<1> QED
  BY <1>3, <1>4 DEF Perform

LEMMA AddToQueueEnters ==
  ASSUME RequestsOK, NEW t \in Task, AddTaskToQueue(t)
  PROVE  Book!Enter(t)
<1>1. /\ t \in posting /\ posting' = posting \ {t}
      /\ tasks_queue' = InsertByPriority(tasks_queue, t)
      /\ UNCHANGED <<tasks, answers>>
  BY DEF AddTaskToQueue
<1>2. answers[t] # 1 /\ t \notin tasks /\ ~In(tasks_queue, t)
  BY <1>1 DEF RequestsOK, OnePlace
<1>3. \A u \in Task : In(tasks_queue', u) <=> u = t \/ In(tasks_queue, u)
  BY <1>1, <1>2, InsertByPriorityFacts DEF RequestsOK, DataType, OnePlace, InOrder
<1>4. \A u \in Task : u \in Queued' <=> u = t \/ u \in Queued
  BY <1>3, QueuedIsIn DEF Queued
<1>5. Progress(t) = "asked"
  BY <1>1, ProgressIs
<1>6. \A u \in Task : Progress(u)' = IF u \in {t} THEN "waiting" ELSE Progress(u)
  BY <1>1, <1>2, <1>4 DEF Progress
<1> QED
  BY <1>5, <1>6, MovesTo DEF Book!Enter

LEMMA RaiseStays ==
  ASSUME RequestsOK, NEW t \in Task, RaiseTask(t)
  PROVE  \A u \in Task : Progress(u)' = Progress(u)
<1>1. PICK i \in DOMAIN tasks_queue :
        /\ tasks_queue[i] = t
        /\ tasks_queue' = InsertByPriority(RemoveAt(tasks_queue, i), t)
  BY DEF RaiseTask
<1>2. UNCHANGED <<tasks, posting, answers>>
  BY DEF RaiseTask
<1> DEFINE q == RemoveAt(tasks_queue, i)
<1>3. tasks_queue \in Seq(Task) /\ Distinct(tasks_queue) /\ SortedBy(Priority, tasks_queue)
  BY DEF RequestsOK, DataType, OnePlace, InOrder
<1>4. q \in Seq(Task) /\ Distinct(q) /\ \A u \in Task : In(q, u) <=> In(tasks_queue, u) /\ u # t
  BY <1>1, <1>3, RemoveFacts
<1>5. SortedBy(Priority, q)
  BY <1>3, CurlAssumption, RemoveKeepsSorted
<1>6. tasks_queue' = InsertByPriority(q, t) /\ In(tasks_queue, t)
  BY <1>1 DEF In
<1> HIDE DEF q
<1>7. \A u \in Task : In(tasks_queue', u) <=> u = t \/ In(q, u)
  BY <1>4, <1>5, <1>6, InsertByPriorityFacts
<1>8. \A u \in Task : u \in Queued' <=> u \in Queued
  BY <1>4, <1>6, <1>7, QueuedIsIn DEF Queued
<1> QED
  BY <1>2, <1>8 DEF Progress

LEMMA AddTaskTries ==
  ASSUME RequestsOK, AddTask
  PROVE  \E started, failed \in SUBSET Book!Entered("waiting") : Book!Try(started, failed)
<1> DEFINE q == tasks_queue
<1>1. PICK other \in SUBSET Queued, n \in 0..Len(q) :
        LET failing == (Queued \cap stopped) \cup other
            taken == ToSet(SubSeq(q, 1, n))
        IN /\ tasks' = tasks \cup (taken \ failing)
           /\ Answer(taken \cap failing)
           /\ tasks_queue' = SubSeq(q, n + 1, Len(q))
  BY DEF AddTask
<1>2. PICK taken, failing : /\ taken = ToSet(SubSeq(q, 1, n))
                            /\ tasks' = tasks \cup (taken \ failing)
                            /\ Answer(taken \cap failing)
  BY <1>1
<1>3. PICK started, failed : started = taken \ failing /\ failed = taken \cap failing
  OBVIOUS
<1>4. q \in Seq(Task) /\ SortedBy(Priority, q) /\ n \in Nat /\ n <= Len(q) /\ posting' = posting
  BY DEF RequestsOK, DataType, InOrder, AddTask, unserved
<1>5. \A u : u \in taken <=> \E i \in 1..n : q[i] = u
  <2>1. DOMAIN SubSeq(q, 1, n) = 1..n /\ \A i \in 1..n : SubSeq(q, 1, n)[i] = q[i]
    BY <1>4
  <2> QED
    BY <1>2, <2>1, Zenon DEF ToSet
<1>6. \A u : u \in Queued <=> \E i \in 1..Len(q) : q[i] = u
  BY <1>4 DEF Queued, ToSet
<1>7. taken \subseteq Queued /\ taken \subseteq Task
  BY <1>4, <1>5, <1>6
<1>8. SuffixOf(Task, q, n, tasks_queue')
  BY <1>1, <1>4, SuffixFacts
<1>9. \A u : u \in Queued' => \E j \in 1..Len(q) : n < j /\ q[j] = u
  <2>1. SUFFICES ASSUME NEW u, u \in Queued' PROVE \E j \in 1..Len(q) : n < j /\ q[j] = u
    OBVIOUS
  <2>2. PICK j \in DOMAIN tasks_queue' : u = tasks_queue'[j]
    BY <2>1 DEF Queued, ToSet
  <2>3. n + j \in 1..Len(q) /\ u = q[n + j] /\ j \in 1..Len(tasks_queue')
    BY <1>4, <1>8, <2>2 DEF SuffixOf
  <2> QED
    BY <1>4, <2>3
<1>10. \A u \in Queued : u \notin taken => u \in Queued' /\ \E j \in 1..Len(q) : n < j /\ q[j] = u
  <2>1. SUFFICES ASSUME NEW u \in Queued, u \notin taken
                 PROVE  u \in Queued' /\ \E j \in 1..Len(q) : n < j /\ q[j] = u
    OBVIOUS
  <2>2. PICK j \in 1..Len(q) : q[j] = u
    BY <1>6
  <2>3. n < j
    BY <1>4, <1>5, <2>1, <2>2
  <2>4. j \in DOMAIN q /\ ~(j <= n)
    BY <1>4, <2>2, <2>3
  <2>5. j - n \in DOMAIN tasks_queue' /\ tasks_queue'[j - n] = u
    BY <1>8, <2>2, <2>4 DEF SuffixOf
  <2> QED
    BY <2>2, <2>3, <2>5 DEF Queued, ToSet
<1>11. \A u \in taken : u \notin Queued'
  <2>1. SUFFICES ASSUME NEW u \in taken, u \in Queued' PROVE FALSE
    OBVIOUS
  <2>2. PICK i \in 1..n : q[i] = u
    BY <1>5
  <2>3. PICK j \in 1..Len(q) : n < j /\ q[j] = u
    BY <1>9, <2>1
  <2>4. i \in DOMAIN q /\ j \in DOMAIN q /\ i # j
    BY <1>4, <2>2, <2>3
  <2> QED
    BY <2>2, <2>3, <2>4 DEF RequestsOK, OnePlace, Distinct
<1>12. \A u \in Task : u \notin taken => (u \in Queued' <=> u \in Queued)
  <2>1. \A u : u \in Queued' => u \in Queued
    BY <1>6, <1>9
  <2> QED
    BY <1>10, <2>1
<1>13. \A u \in taken : answers[u] = 0 /\ u \notin posting /\ u \notin tasks
  <2>1. \A u \in taken : u \in Task /\ In(q, u)
    BY <1>7, QueuedIsIn DEF Queued
  <2> QED
    BY <2>1 DEF RequestsOK, OnePlace, DataType
<1>14. \A u \in Task : answers'[u] = 1 <=> answers[u] = 1 \/ u \in failed
  BY <1>2, <1>3, <1>13 DEF Answer, RequestsOK, DataType
<1>15. \A u \in Task : u \in tasks' <=> u \in tasks \/ u \in started
  BY <1>2, <1>3
<1>16. \A u \in Task : Progress(u)' = IF u \in started THEN "running" ELSE IF u \in failed THEN "answered" ELSE Progress(u)
  <2>1. ASSUME NEW u \in Task, u \in started PROVE Progress(u)' = "running"
    BY <1>3, <1>13, <1>14, <1>15, <2>1 DEF Progress
  <2>2. ASSUME NEW u \in Task, u \in failed PROVE Progress(u)' = "answered"
    BY <1>14, <2>2 DEF Progress
  <2>3. ASSUME NEW u \in Task, u \notin taken PROVE Progress(u)' = Progress(u)
    BY <1>3, <1>4, <1>12, <1>14, <1>15, <2>3 DEF Progress
  <2> QED
    BY <1>3, <2>1, <2>2, <2>3
<1>17. ASSUME NEW t \in started \cup failed, NEW u \in Queued \ (started \cup failed)
       PROVE  Priority[t] <= Priority[u]
  <2>1. t \in taken /\ u \notin taken
    BY <1>3, <1>17
  <2>2. PICK i \in 1..n : q[i] = t
    BY <1>5, <2>1
  <2>3. PICK j \in 1..Len(q) : n < j /\ q[j] = u
    BY <1>10, <2>1
  <2>4. i \in 1..Len(q) /\ i < j
    BY <1>4, <2>2, <2>3
  <2> QED
    BY <1>4, <2>2, <2>3, <2>4 DEF SortedBy
<1>18. Book!Entered("waiting") = Queued
  BY EnteredIs
<1>19. started \cap failed = {} /\ started \in SUBSET Queued /\ failed \in SUBSET Queued
  BY <1>3, <1>7
<1>20. Book!Try(started, failed)
  BY <1>16, <1>17, <1>18, <1>19 DEF Book!Try
<1> QED
  BY <1>18, <1>19, <1>20

LEMMA InitBook == Init => Book!Init
BY DEF Init, Book!Init, Progress, Queued, ToSet

LEMMA NextBook ==
  ASSUME IInv, [Next]_vars
  PROVE  Book!Next \/ \A t \in Task : Progress(t)' = Progress(t)
<1>0. RequestsOK /\ CallsType
  BY DEF IInv
<1>1. ASSUME NEW told \in SUBSET tasks, Finish(told), UNCHANGED <<tasks_queue, posting, stopped>>
      PROVE  Book!Next
  BY <1>0, <1>1, FinishCompletes DEF Book!Next
<1>2. ASSUME NEW t \in Task, Perform(t) \/ AddTaskToQueue(t) PROVE Book!Next
  BY <1>0, <1>2, PerformAsks, AddToQueueEnters DEF Book!Next
<1>3. ASSUME NEW t \in Task, StopTask(t) \/ RaiseTask(t)
      PROVE  \A u \in Task : Progress(u)' = Progress(u)
  <2>1. CASE StopTask(t)
    BY <1>0, <2>1, BookStays DEF StopTask
  <2> QED
    BY <1>0, <1>3, <2>1, RaiseStays
<1>4. ASSUME CallAny \/ \E c \in Caller : StepControl(c)
      PROVE  \A u \in Task : Progress(u)' = Progress(u)
  <2>1. UNCHANGED <<tasks_queue, tasks, posting, answers>>
    BY <1>4 DEF CallAny, CallControl, StepControl
  <2> QED
    BY <1>0, <2>1, BookStays
<1>5. ASSUME SkipFlag \/ ClearFlag \/ ResetMulti \/ Check \/ Wait \/ SpuriousWakeup \/ UNCHANGED vars
      PROVE  \A u \in Task : Progress(u)' = Progress(u)
  <2>1. UNCHANGED <<tasks_queue, tasks, posting, answers>>
    BY <1>5 DEF SkipFlag, ClearFlag, ResetMulti, Check, Wait, SpuriousWakeup, Serves, unserved, vars
  <2> QED
    BY <1>0, <2>1, BookStays
<1>6. CASE ProcessStoppedTasksInternal
  <2>1. Finish(tasks \cap stopped) /\ UNCHANGED <<tasks_queue, posting, stopped>>
    BY <1>6 DEF ProcessStoppedTasksInternal, Serves, unserved
  <2>2. PICK told \in SUBSET tasks : told = tasks \cap stopped
    OBVIOUS
  <2> QED
    BY <1>1, <2>1, <2>2
<1>7. CASE ResetSocketsInternal
  <2>1. PICK connected \in SUBSET (tasks \ orphans) : Finish(connected)
    BY <1>7 DEF ResetSocketsInternal
  <2>2. UNCHANGED <<tasks_queue, posting, stopped>>
    BY <1>7 DEF ResetSocketsInternal, Serves, unserved
  <2>3. connected \in SUBSET tasks
    OBVIOUS
  <2> QED
    BY <1>1, <2>1, <2>2, <2>3
<1>8. CASE Round
  <2>1. PICK done \in SUBSET tasks, next \in {"stuff", "left", "again"} : CurlRound(done, next)
    BY <1>8 DEF Round
  <2>2. Finish(done) /\ UNCHANGED <<tasks_queue, posting, stopped>>
    BY <2>1 DEF CurlRound, CheckMultiInfo, unserved
  <2> QED
    BY <1>1, <2>1, <2>2
<1>9. CASE CancelTasks
  BY <1>0, <1>9, CancelCancels DEF Book!Next
<1>10. CASE AddTask
  BY <1>0, <1>10, AddTaskTries DEF Book!Next
<1> QED
  BY <1>2, <1>3, <1>4, <1>5, <1>6, <1>7, <1>8, <1>9, <1>10 DEF Next, Service

\* The engine implements RequestBook, for any requests, priorities and limits: no interleaving of
\* callers, resets and completions drops a request, starts it twice, lets it be overtaken by a less
\* urgent one, or leaves it out of a cancellation.
THEOREM EngineImplementsBook == Spec => BookSpec
<1>1. Init => Book!Init
  BY InitBook
<1>2. IInv /\ [Next]_vars => [Book!Next]_[t \in Task |-> Progress(t)]
  BY NextBook
<1> QED
  BY <1>1, <1>2, InitIInv, NextIInv, PTL DEF Spec, BookSpec, Book!Spec
===================================================================================
