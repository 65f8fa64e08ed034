------------------------------ MODULE SendThread ------------------------------
(***************************************************************************)
(* The serializer every protocol packet of the im object goes through:     *)
(* wim_send_thread (executed_packets_, packets_queue_, is_sending_locked_, *)
(* cancel_packets_time_) together with the three places of class im that   *)
(* drive it: post_packet with its list of packets to resend, start_session *)
(* and the resume of failed packets.                                       *)
(*                                                                         *)
(* Everything here runs on the core thread: an action is one task of that  *)
(* thread.  The worker thread "wim_send" and the curl thread only decide   *)
(* when, and with which error code, a packet completes; their completions  *)
(* are taken in any order.                                                 *)
(***************************************************************************)
EXTENDS Naturals, Sequences, FiniteSets, SequencesExt

CONSTANTS
  Packet,       \* the packets the callers may post
  Method,       \* what get_method() returns
  MethodOf,     \* [Packet -> Method]
  Priority,     \* [Packet -> Nat]: get_priority(), a lower number goes first
  Partial,      \* packets with support_partially_async_execution()
  NeverAsync,   \* packets that override support_async_execution() with false
  AutoResend,   \* packets with auto_resend_on_fail()
  MaxSessions   \* bound: how many times the session id is advanced

SentRepeatCount == 2
PriorityProtocol == 2

CanRunAsync(p) == Priority[p] > PriorityProtocol /\ p \notin NeverAsync

\* How a packet is executed is a property of its method.
SameClass(p, q) == CanRunAsync(p) = CanRunAsync(q) /\ (p \in Partial) = (q \in Partial)

ASSUME PacketAssumption ==
  /\ MethodOf \in [Packet -> Method]
  /\ Priority \in [Packet -> Nat]
  /\ Partial \subseteq Packet
  /\ NeverAsync \subseteq Packet
  /\ AutoResend \subseteq Packet
  /\ \A p, q \in Packet : MethodOf[p] = MethodOf[q] => SameClass(p, q)
  /\ \A p \in Partial : ~CanRunAsync(p)
  /\ MaxSessions \in Nat

Sync(p) == ~CanRunAsync(p) /\ p \notin Partial

\* "new": not posted yet; "queued": in packets_queue_; "exec": on the worker
\* thread; "dummy": its place taken by the empty task of the rate limit;
\* "wire": handed to curl; "parked": in failed_packets_; "answered": the
\* caller's on_result_ ran; "dropped": it never will.
Stage == {"new", "queued", "exec", "dummy", "wire", "parked", "answered", "dropped"}
InProgress == {"exec", "dummy", "wire"}

\* What a request can end with, as far as the handlers tell the codes apart:
\* is_network_error, the rest of needs_to_repeat_failed, the two "too fast"
\* codes, wpie_error_need_relogin, any other failure.
Error == {"ok", "network", "repeatable", "too_fast", "need_relogin", "other"}
NeedsToRepeatFailed == {"network", "repeatable"}

VARIABLES
  send,           \* the wim_send_thread object and the stage of each packet
  repeat_count,   \* [Packet -> 0..SentRepeatCount]: executions, saturated
  born,           \* [Packet -> session id its parameters were made in]
  session,        \* stop_objects_->active_session_id_
  start_session_is_running, is_ping,
  has_aimsid,     \* auth_params_->aimsid_ is not empty
  failed_packets, \* failed_packets_
  resuming        \* packets the running resume_failed_packets has yet to post

vars == <<send, repeat_count, born, session, start_session_is_running, is_ping,
          has_aimsid, failed_packets, resuming>>

SendThreads ==
  [executed_packets : SUBSET Method, packets_queue : Seq(Packet),
   is_sending_locked : BOOLEAN, rate_limited : BOOLEAN, stage : [Packet -> Stage]]

TypeOK ==
  /\ send \in SendThreads
  /\ repeat_count \in [Packet -> 0..SentRepeatCount]
  /\ born \in [Packet -> 0..MaxSessions]
  /\ session \in 0..MaxSessions
  /\ start_session_is_running \in BOOLEAN
  /\ is_ping \in BOOLEAN
  /\ has_aimsid \in BOOLEAN
  /\ failed_packets \in Seq(Packet)
  /\ resuming \in Seq(Packet)

Init ==
  /\ send = [executed_packets |-> {}, packets_queue |-> <<>>, is_sending_locked |-> FALSE,
             rate_limited |-> FALSE, stage |-> [p \in Packet |-> "new"]]
  /\ repeat_count = [p \in Packet |-> 0]
  /\ born = [p \in Packet |-> 0]
  /\ session = 0
  /\ start_session_is_running = FALSE
  /\ is_ping = FALSE
  /\ has_aimsid \in BOOLEAN
  /\ failed_packets = <<>>
  /\ resuming = <<>>

-------------------------------------------------------------------------------
(***************************************************************************)
(* The methods of wim_send_thread, as functions of the object's state.     *)
(***************************************************************************)
To(s, p, where) == [s EXCEPT !.stage[p] = where]

Erase(s, p) == [s EXCEPT !.executed_packets = @ \ {MethodOf[p]}]

\* Mutant of InsertPacketInQueue: <= for <.
InsertBeforeEquals(s, p) ==
  LET q == s.packets_queue
      later == {i \in 1..Len(q) : Priority[p] <= Priority[q[i]]}
      at == IF later = {} THEN Len(q) + 1
            ELSE CHOOSE i \in later : \A j \in later : i <= j
  IN [To(s, p, "queued") EXCEPT !.packets_queue = InsertAt(q, at, p)]

InsertPacketInQueue(s, p) ==
  LET q == s.packets_queue
      later == {i \in 1..Len(q) : Priority[p] < Priority[q[i]]}
      at == IF later = {} THEN Len(q) + 1
            ELSE CHOOSE i \in later : \A j \in later : i <= j
  IN [To(s, p, "queued") EXCEPT !.packets_queue = InsertAt(q, at, p)]

\* Mutant of PacketExecuted: every packet waits for its own method only.
MethodExecuted(s, p) == MethodOf[p] \in s.executed_packets

PacketExecuted(s, p) ==
  IF p \in Partial THEN MethodOf[p] \in s.executed_packets ELSE s.executed_packets # {}

\* Where a packet goes that starts: its stage, its method while it is not asynchronous.
StartPacket(s, p) ==
  LET busy == IF CanRunAsync(p) THEN s
              ELSE [s EXCEPT !.executed_packets = @ \cup {MethodOf[p]}]
  IN IF s.rate_limited THEN To(busy, p, "dummy")
     ELSE To(busy, p, IF CanRunAsync(p) \/ p \in Partial THEN "wire" ELSE "exec")

\* Mutant of PostPacket: the lock is forgotten.
PostPacketLockless(s, p) ==
  IF PacketExecuted(s, p) /\ ~CanRunAsync(p) THEN InsertPacketInQueue(s, p) ELSE StartPacket(s, p)

\* post_packet for a packet that is_valid().
PostPacket(s, p) ==
  IF s.is_sending_locked \/ (PacketExecuted(s, p) /\ ~CanRunAsync(p))
  THEN InsertPacketInQueue(s, p)
  ELSE StartPacket(s, p)

\* Mutant of ExecutePacketFromQueue: the packet is not popped.
ExecuteFront(s) ==
  IF s.packets_queue # <<>> /\ ~s.is_sending_locked
  THEN PostPacket(s, Head(s.packets_queue))
  ELSE s

ExecutePacketFromQueue(s) ==
  IF s.packets_queue # <<>> /\ ~s.is_sending_locked
  THEN PostPacket([s EXCEPT !.packets_queue = Tail(@)], Head(s.packets_queue))
  ELSE s

\* clear() tells the callback handlers, which post_packet of im leaves empty:
\* the caller of a queued packet hears nothing.
Clear(s) ==
  [s EXCEPT !.packets_queue = <<>>,
            !.stage = [p \in Packet |-> IF @[p] = "queued" THEN "dropped" ELSE @[p]]]

Lock(s) == [s EXCEPT !.is_sending_locked = TRUE]

UnlockAndExecuteQueued(s) == ExecutePacketFromQueue([s EXCEPT !.is_sending_locked = FALSE])

-------------------------------------------------------------------------------
(***************************************************************************)
(* Class im.                                                               *)
(***************************************************************************)
CoreFree == resuming = <<>>

\* The caller makes the packet, its parameters with it, and posts it.  A
\* packet without a token is refused with no callback.
Post(p) ==
  /\ CoreFree
  /\ send.stage[p] = "new"
  /\ send' = IF has_aimsid THEN PostPacket(send, p) ELSE To(send, p, "dropped")
  /\ born' = [born EXCEPT ![p] = session]
  /\ UNCHANGED <<repeat_count, session, start_session_is_running, is_ping, has_aimsid,
                 failed_packets, resuming>>

\* The body of start_session(is_ping::no) on the send thread's state.
Restart(s) == Lock(Clear(s))

\* The callback handlers post_packet of im installs, for packet p that ended with
\* error: handle_net_error, which starts a new session when the server asks for
\* it, then either park the packet or call the caller's on_result_, which may
\* post one more packet, `next`.
Relogin(error) == error = "need_relogin" /\ ~start_session_is_running

ErrorHandler(s, p, error, next) ==
  LET t == IF Relogin(error) THEN Restart(s) ELSE s
  IN IF p \in AutoResend /\ error \in NeedsToRepeatFailed
     THEN To(t, p, "parked")
     ELSE LET answered == To(t, p, "answered")
          IN IF next = {} \/ ~has_aimsid THEN answered
             ELSE PostPacket(answered, CHOOSE n \in next : TRUE)

\* What the error handler changes outside the send thread.
ErrorHandlerIm(p, error, next) ==
  /\ p \in AutoResend /\ error \in NeedsToRepeatFailed => next = {}
  /\ next # {} => has_aimsid
  /\ failed_packets' = IF p \in AutoResend /\ error \in NeedsToRepeatFailed
                       THEN Append(failed_packets, p) ELSE failed_packets
  /\ Relogin(error) => session < MaxSessions
  /\ session' = IF Relogin(error) THEN session + 1 ELSE session
  /\ start_session_is_running' = (start_session_is_running \/ Relogin(error))
  /\ is_ping' = (is_ping /\ ~Relogin(error))
  /\ born' = [n \in Packet |-> IF n \in next THEN session' ELSE born[n]]
  /\ UNCHANGED <<has_aimsid, resuming>>

\* The packets an answer may make its caller post.
FollowUps == {{}} \cup {{n} : n \in {m \in Packet : send.stage[m] = "new"}}

\* Mutant of RateLimitedDone: the queue is not looked at.
RateLimitedDoneAlone(p) ==
  /\ CoreFree
  /\ send.stage[p] = "dummy"
  /\ send' = Erase(To(send, p, "dropped"), p)
  /\ UNCHANGED <<repeat_count, born, session, start_session_is_running, is_ping,
                 has_aimsid, failed_packets, resuming>>

\* The empty task of a rate-limited packet is done: only the unused callback
\* handlers are told, and the queue moves on.
RateLimitedDone(p) ==
  /\ CoreFree
  /\ send.stage[p] = "dummy"
  /\ send' = ExecutePacketFromQueue(Erase(To(send, p, "dropped"), p))
  /\ UNCHANGED <<repeat_count, born, session, start_session_is_running, is_ping,
                 has_aimsid, failed_packets, resuming>>

Executions(p) == IF repeat_count[p] < SentRepeatCount THEN repeat_count[p] + 1 ELSE repeat_count[p]

IsStopped(p) == born[p] # session

\* Mutant of SyncRetry: the queue moves on before the packet's method is erased.
SyncRetryTooEarly(p) ==
  /\ CoreFree
  /\ send.stage[p] = "exec"
  /\ Executions(p) < SentRepeatCount
  /\ ~IsStopped(p)
  /\ repeat_count' = [repeat_count EXCEPT ![p] = Executions(p)]
  /\ send' = Erase(ExecutePacketFromQueue(InsertPacketInQueue(send, p)), p)
  /\ UNCHANGED <<born, session, start_session_is_running, is_ping, has_aimsid,
                 failed_packets, resuming>>

\* A synchronous packet failed in the network and is tried again: back to the
\* queue, behind those of its priority.
SyncRetry(p) ==
  /\ CoreFree
  /\ send.stage[p] = "exec"
  /\ Executions(p) < SentRepeatCount
  /\ ~IsStopped(p)
  /\ repeat_count' = [repeat_count EXCEPT ![p] = Executions(p)]
  /\ send' = ExecutePacketFromQueue(Erase(InsertPacketInQueue(send, p), p))
  /\ UNCHANGED <<born, session, start_session_is_running, is_ping, has_aimsid,
                 failed_packets, resuming>>

SyncDone(p, error, next) ==
  /\ CoreFree
  /\ send.stage[p] = "exec"
  /\ error = "network" => Executions(p) >= SentRepeatCount \/ IsStopped(p)
  /\ repeat_count' = [repeat_count EXCEPT ![p] = Executions(p)]
  /\ send' = LET s == [send EXCEPT !.rate_limited = @ \/ error = "too_fast"]
             IN ExecutePacketFromQueue(ErrorHandler(Erase(s, p), p, error, next))
  /\ ErrorHandlerIm(p, error, next)

\* An asynchronous packet is done.  Nothing is taken from the queue here.
AsyncDone(p, error, next) ==
  /\ CoreFree
  /\ send.stage[p] = "wire"
  /\ send' = ErrorHandler(Erase(send, p), p, error, next)
  /\ ErrorHandlerIm(p, error, next)
  /\ UNCHANGED repeat_count

\* cancel_packets_time_ is reached.
RateLimitExpires ==
  /\ send.rate_limited
  /\ send' = [send EXCEPT !.rate_limited = FALSE]
  /\ UNCHANGED <<repeat_count, born, session, start_session_is_running, is_ping,
                 has_aimsid, failed_packets, resuming>>

StartSession(ping) ==
  /\ CoreFree
  /\ ~start_session_is_running
  /\ start_session_is_running' = TRUE
  /\ is_ping' = ping
  /\ ~ping => session < MaxSessions
  /\ send' = IF ping THEN send ELSE Restart(send)
  /\ session' = IF ping THEN session ELSE session + 1
  /\ UNCHANGED <<repeat_count, born, has_aimsid, failed_packets, resuming>>

\* The session is open.
SessionStarted ==
  /\ CoreFree
  /\ start_session_is_running
  /\ start_session_is_running' = FALSE
  /\ send' = UnlockAndExecuteQueued(send)
  /\ has_aimsid' = TRUE
  /\ UNCHANGED <<repeat_count, born, session, is_ping, failed_packets, resuming>>

\* startSession failed and is repeated in the same task, after the send thread
\* was unlocked; a failed ping may be repeated as a full start.  (An unlogin,
\* which destroys the object, ends the behaviour and is not a step.  Nor is a start
\* that ends as cancelled: only clear() tells that, to packets of the queue, and
\* startSession is never in it.)
SessionFailed(ping) ==
  /\ CoreFree
  /\ start_session_is_running
  /\ ping => is_ping
  /\ ~ping => session < MaxSessions
  /\ is_ping' = ping
  /\ send' = LET s == UnlockAndExecuteQueued(send) IN IF ping THEN s ELSE Restart(s)
  /\ session' = IF ping THEN session ELSE session + 1
  /\ UNCHANGED <<repeat_count, born, start_session_is_running, has_aimsid, failed_packets,
                 resuming>>

\* Mutant of ResumeFailedPackets: the list is walked, not taken.
ResumeKeepingTheList ==
  /\ CoreFree
  /\ failed_packets # <<>>
  /\ resuming' = failed_packets
  /\ UNCHANGED <<send, repeat_count, born, session, start_session_is_running, is_ping,
                 has_aimsid, failed_packets>>

\* resume_failed_packets takes the whole list and posts the packets one by one,
\* with the parameters they were made with.
ResumeFailedPackets ==
  /\ CoreFree
  /\ failed_packets # <<>>
  /\ resuming' = failed_packets
  /\ failed_packets' = <<>>
  /\ UNCHANGED <<send, repeat_count, born, session, start_session_is_running, is_ping,
                 has_aimsid>>

ResumeOne ==
  /\ resuming # <<>>
  /\ send' = PostPacket(send, Head(resuming))
  /\ resuming' = Tail(resuming)
  /\ UNCHANGED <<repeat_count, born, session, start_session_is_running, is_ping,
                 has_aimsid, failed_packets>>

Complete(p) ==
  \/ RateLimitedDone(p)
  \/ SyncRetry(p)
  \/ \E error \in Error, next \in FollowUps : SyncDone(p, error, next) \/ AsyncDone(p, error, next)

Next ==
  \/ \E p \in Packet : Post(p) \/ Complete(p)
  \/ RateLimitExpires
  \/ \E ping \in BOOLEAN : StartSession(ping) \/ SessionFailed(ping)
  \/ SessionStarted
  \/ ResumeFailedPackets
  \/ ResumeOne

Spec == Init /\ [][Next]_vars

(***************************************************************************)
(* The worker and the curl thread finish what they were given, startSession *)
(* is answered and does not fail for ever, a loop of the core thread ends.  *)
(***************************************************************************)
Fairness ==
  /\ \A p \in Packet : WF_vars(Complete(p))
  /\ WF_vars(SessionStarted)
  /\ WF_vars(ResumeOne)

FairSpec == Spec /\ Fairness

-------------------------------------------------------------------------------
(***************************************************************************)
(* Properties.                                                             *)
(***************************************************************************)
IsInProgress(p) == send.stage[p] \in InProgress

\* packets_queue_ is ordered by priority, through inserts, retries of failed
\* packets and packets put back by execute_packet_from_queue.
QueueSorted ==
  \A i, j \in 1..Len(send.packets_queue) :
    i < j => Priority[send.packets_queue[i]] <= Priority[send.packets_queue[j]]

\* No packet is in two lists, or twice in one, or in none while it waits: the
\* queue, failed_packets_ and the running resume loop split the waiting packets.
ListsExact ==
  LET lists == send.packets_queue \o resuming \o failed_packets
  IN /\ \A i, j \in 1..Len(lists) : lists[i] = lists[j] => i = j
     /\ {p \in Packet : send.stage[p] = "queued"} = ToSet(send.packets_queue)
     /\ {p \in Packet : send.stage[p] = "parked"} = ToSet(resuming) \cup ToSet(failed_packets)

\* A packet that waits has one place, and the queue has its order: inserts, retries,
\* packets popped and put back, parking and the resume loop keep both.
WaitingExact == QueueSorted /\ ListsExact

\* executed_packets_ names the methods of the packets that are being executed,
\* no more (a name left behind would block the queue for ever) and no fewer.
ExecutedExact ==
  send.executed_packets = {MethodOf[p] : p \in {q \in Packet : IsInProgress(q) /\ ~CanRunAsync(q)}}

\* The serialisation the thread exists for: two ordinary packets are never
\* executed together, nor two partially asynchronous ones of one method.
ExclusiveExecution ==
  \A p, q \in Packet :
    /\ IsInProgress(p) /\ IsInProgress(q)
    /\ ~CanRunAsync(p) /\ ~CanRunAsync(q)
    /\ MethodOf[p] = MethodOf[q] \/ (Sync(p) /\ Sync(q))
    => p = q

\* What runs is what executed_packets_ says, and excludes what it must.
ExecutionExact == ExecutedExact /\ ExclusiveExecution

\* While startSession is in progress (the thread is locked) no packet starts,
\* whatever completes, is retried, resumed or posted meanwhile; but when it failed
\* and is repeated, the unlock in between lets the head of the queue through, with
\* the old session, and only the head.
LetThrough(p) ==
  session' > session /\ send.packets_queue # <<>> /\ p = Head(send.packets_queue)

NoStartWhileLocked ==
  [][send.is_sending_locked /\ send'.is_sending_locked
     => \A p \in Packet : send'.stage[p] \in InProgress => IsInProgress(p) \/ LetThrough(p)]_vars

\* Locked means that a session which is not a ping is being started, so that
\* the unlock is sure to come.
LockedHasStarter == send.is_sending_locked => start_session_is_running /\ ~is_ping

\* A queue nobody will look at: the thread is not locked, nothing runs, yet
\* packets wait.
Stalled ==
  /\ send.packets_queue # <<>>
  /\ ~send.is_sending_locked
  /\ \A p \in Packet : ~IsInProgress(p)

\* The queue stalls only when an asynchronous packet completes, the one
\* completion that does not look at it: every other path keeps it moving.
StallOnlyAfterAsync ==
  [][~Stalled /\ Stalled' => \E p \in Packet : send.stage[p] = "wire" /\ send'.stage[p] # "wire"]_vars

\* Packets of one priority keep their order, and a packet put into the queue, new
\* or retried, goes behind its equals; only the head may fall behind them, when
\* execute_packet_from_queue pops it and finds the thread busy.
EqualsKeepTheirOrder ==
  [][LET q == send.packets_queue
         r == send'.packets_queue
         At(p) == CHOOSE i \in DOMAIN q : q[i] = p
     IN \A k, l \in DOMAIN r :
          /\ k < l /\ Priority[r[k]] = Priority[r[l]]
          /\ r[l] \in ToSet(q)
          => At(r[l]) = 1 \/ (r[k] \in ToSet(q) /\ At(r[k]) < At(r[l]))]_vars

\* Every packet that is queued is answered or given up, where all packets are
\* ordinary: no path of retries, locks and rate limits leaves it waiting.
QueuedIsSettled ==
  \A p \in Packet : send.stage[p] = "queued" ~> send.stage[p] \in {"answered", "dropped", "parked"}

\* The thread keeps the promise of PacketLedger.
LedgerStatus ==
  [new |-> "idle", queued |-> "waiting", exec |-> "started", wire |-> "started",
   dummy |-> "limited", parked |-> "held", answered |-> "answered", dropped |-> "lost"]

Ledger == INSTANCE PacketLedger WITH
  status <- [p \in Packet |-> LedgerStatus[send.stage[p]]], session <- session

LedgerSpec == Ledger!Spec
===============================================================================
