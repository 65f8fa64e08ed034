----------------------------- MODULE RequestBook -------------------------------
(***************************************************************************)
(* What the HTTP engine promises those that make requests, with nothing of *)
(* its flags, its handles and its threads.  A request is asked, waits,     *)
(* runs and is answered, and never goes back; those that stop waiting are  *)
(* no less urgent than those that go on waiting; and an answer comes to    *)
(* what runs, to what could not be started, to what came too late, or, by  *)
(* a cancellation, to all that waits or runs, of which none is left out.   *)
(***************************************************************************)
EXTENDS Naturals

CONSTANTS
  Task,      \* the requests, each of which is made once
  Priority   \* [Task -> Nat], a lower number goes first

VARIABLE book  \* [Task -> how far the request is]

Init == book = [t \in Task |-> "new"]

Entered(state) == {t \in Task : book[t] = state}

Move(S, state) == book' = [t \in Task |-> IF t \in S THEN state ELSE book[t]]

Ask(t) == book[t] = "new" /\ Move({t}, "asked")

\* The engine is shut down.
Refuse(t) == book[t] = "new" /\ Move({t}, "answered")

Enter(t) == book[t] = "asked" /\ Move({t}, "waiting")

\* The most urgent ones are tried: some of them cannot be started and are told.
Try(started, failed) ==
  LET tried == started \cup failed
  IN /\ started \cap failed = {}
     /\ \A t \in tried, u \in Entered("waiting") \ tried : Priority[t] <= Priority[u]
     /\ book' = [t \in Task |-> IF t \in started THEN "running"
                                ELSE IF t \in failed THEN "answered" ELSE book[t]]

Complete(done) == Move(done, "answered")

CancelAll == Move(Entered("waiting") \cup Entered("running"), "answered")

Next ==
  \/ \E done \in SUBSET Entered("running") : Complete(done)
  \/ \E started, failed \in SUBSET Entered("waiting") : Try(started, failed)
  \/ \E t \in Task : Ask(t) \/ Refuse(t) \/ Enter(t)
  \/ CancelAll

Spec == Init /\ [][Next]_book
================================================================================
