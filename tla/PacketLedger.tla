----------------------------- MODULE PacketLedger -----------------------------
(***************************************************************************)
(* What the send thread promises the code that posts packets: a packet is  *)
(* answered at most once, and when it is answered or lost nothing happens  *)
(* to it any more; a packet that waits is lost exactly when a new session  *)
(* replaces the one it was posted in; a packet that was started is lost    *)
(* only by the rate limit, and a packet held for a resend is never lost.   *)
(***************************************************************************)
EXTENDS Naturals

CONSTANTS Packet, MaxSessions

VARIABLES
  status,   \* [Packet -> Status]
  session   \* the number of the session

vars == <<status, session>>

Status == {"idle", "waiting", "started", "limited", "held", "answered", "lost"}

\* What one step may do to one packet.
Moves ==
  {<<"idle", "waiting">>, <<"idle", "started">>, <<"idle", "limited">>, <<"idle", "lost">>,
   <<"waiting", "started">>, <<"waiting", "limited">>, <<"waiting", "lost">>,
   <<"started", "waiting">>, <<"started", "answered">>, <<"started", "held">>,
   <<"limited", "lost">>,
   <<"held", "waiting">>, <<"held", "started">>, <<"held", "limited">>}

Init ==
  /\ status = [p \in Packet |-> "idle"]
  /\ session = 0

AtMostOne(from, to) ==
  \A p, q \in Packet : /\ status[p] \in from /\ status'[p] \in to
                       /\ status[q] \in from /\ status'[q] \in to
                       => p = q

Next ==
  /\ status' \in [Packet -> Status]
  /\ \A p \in Packet : status'[p] # status[p] => <<status[p], status'[p]>> \in Moves
  /\ AtMostOne({"started"}, {"answered", "held"})
  /\ AtMostOne({"idle"}, Status \ {"idle"})
  /\ AtMostOne({"waiting", "held"}, {"started", "limited"})
  /\ \/ /\ session' = session
        /\ \A p \in Packet : status[p] = "waiting" => status'[p] # "lost"
     \/ /\ session' = session + 1
        /\ session < MaxSessions
        /\ \A p \in Packet : status[p] = "waiting" => status'[p] \in {"lost", "started", "limited"}

Spec == Init /\ [][Next]_vars
===============================================================================
