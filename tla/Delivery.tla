------------------------------- MODULE Delivery --------------------------------
(***************************************************************************)
(* What sending promises the one who types: nothing here of chains,        *)
(* packets, timers and confirmations.  The versions of a message are kept  *)
(* in the order they were typed; the server is given versions that were    *)
(* kept, an older one never after a newer one; and it makes one message of *)
(* them, with the first.                                                   *)
(***************************************************************************)
EXTENDS Naturals

CONSTANT Message

VARIABLES
  entered,    \* [Message -> Nat]: versions that were typed
  kept,       \* [Message -> Nat]: the newest one that was stored
  delivered,  \* [Message -> Nat]: the one the server has, or 0
  copies      \* [Message -> Nat]: how many messages the server made of it

vars == <<entered, kept, delivered, copies>>

None == [m \in Message |-> 0]

Init == entered = None /\ kept = None /\ delivered = None /\ copies = None

Enter(m) ==
  /\ entered' = [entered EXCEPT ![m] = @ + 1]
  /\ UNCHANGED <<kept, delivered, copies>>

\* A version may be passed over, by a crash or by a newer one.
Keep(m) ==
  /\ \E v \in (kept[m] + 1)..entered[m] : kept' = [kept EXCEPT ![m] = v]
  /\ UNCHANGED <<entered, delivered, copies>>

Deliver(m) ==
  /\ \E v \in 1..kept[m] : delivered[m] <= v /\ delivered' = [delivered EXCEPT ![m] = v]
  /\ copies' = IF delivered[m] = 0 THEN [copies EXCEPT ![m] = @ + 1] ELSE copies
  /\ UNCHANGED <<entered, kept>>

Next == \E m \in Message : Enter(m) \/ Keep(m) \/ Deliver(m)

Spec == Init /\ [][Next]_vars
================================================================================
