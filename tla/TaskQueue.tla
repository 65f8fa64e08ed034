------------------------------- MODULE TaskQueue -------------------------------
(***************************************************************************)
(* What a pool of threads promises those that give it tasks, with nothing  *)
(* of its mutex, its condition variable and its threads.  A task is        *)
(* accepted behind those that wait, or before them, and refused once the   *)
(* pool is closed; the tasks are started in the order in which they wait,  *)
(* which only the raising of one changes; no more of them are executed at  *)
(* a time than there are threads; none is executed twice, and the pool is  *)
(* gone only when it has executed all that it accepted.                    *)
(*                                                                         *)
(* With one thread and no task that goes to the front this is one task     *)
(* after the other, in the order in which they came: what the modules      *)
(* about the outbox, the archive and the downloads make one step of.       *)
(***************************************************************************)
EXTENDS Naturals, Sequences, FiniteSets

CONSTANTS
  Task,       \* the tasks, each of which is given once
  Raisable,   \* the tasks that may be raised
  FrontTask,  \* the tasks that are accepted before those that wait
  Limit       \* how many are executed at a time

VARIABLES
  waiting,    \* the accepted tasks that are not started, in their order
  executing,  \* the tasks that are executed
  ended,      \* the tasks that have been executed
  refused,    \* the tasks that came too late
  pool        \* "open", "closed" or "gone"

vars == <<waiting, executing, ended, refused, pool>>

Init ==
  /\ waiting = <<>>
  /\ executing = {} /\ ended = {} /\ refused = {}
  /\ pool = "open"

Waits(t) == \E i \in DOMAIN waiting : waiting[i] = t

New(t) == t \notin executing \cup ended \cup refused /\ ~Waits(t)

Accept(t) ==
  /\ pool = "open" /\ New(t)
  /\ waiting' = IF t \in FrontTask THEN <<t>> \o waiting ELSE Append(waiting, t)
  /\ UNCHANGED <<executing, ended, refused, pool>>

Refuse(t) ==
  /\ pool = "closed" /\ New(t)
  /\ refused' = refused \cup {t}
  /\ UNCHANGED <<waiting, executing, ended, pool>>

\* The task goes to the front, the others stay in their order.
Raise(t) ==
  /\ pool # "gone"
  /\ \E i \in DOMAIN waiting :
       /\ waiting[i] = t
       /\ waiting' = <<t>> \o SubSeq(waiting, 1, i - 1) \o SubSeq(waiting, i + 1, Len(waiting))
  /\ UNCHANGED <<executing, ended, refused, pool>>

Start(t) ==
  /\ pool # "gone"
  /\ waiting # <<>> /\ t = Head(waiting)
  /\ Cardinality(executing) < Limit
  /\ waiting' = Tail(waiting)
  /\ executing' = executing \cup {t}
  /\ UNCHANGED <<ended, refused, pool>>

End(t) ==
  /\ t \in executing
  /\ executing' = executing \ {t}
  /\ ended' = ended \cup {t}
  /\ UNCHANGED <<waiting, refused, pool>>

Close ==
  /\ pool = "open" /\ pool' = "closed"
  /\ UNCHANGED <<waiting, executing, ended, refused>>

Go ==
  /\ pool = "closed" /\ waiting = <<>> /\ executing = {}
  /\ pool' = "gone"
  /\ UNCHANGED <<waiting, executing, ended, refused>>

Next ==
  \/ \E t \in Task : Accept(t) \/ Refuse(t) \/ Start(t) \/ End(t)
  \/ \E t \in Raisable : Raise(t)
  \/ Close \/ Go

Spec == Init /\ [][Next]_vars
================================================================================
