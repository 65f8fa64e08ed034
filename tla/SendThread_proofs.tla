-------------------------- MODULE SendThread_proofs ---------------------------
(***************************************************************************)
(* Theorems about SendThread, for any packets, methods and number of       *)
(* sessions.                                                               *)
(***************************************************************************)
EXTENDS SendThread, QueueLemmas

(***************************************************************************)
(* What is invariant of the send thread's record.  While a packet changes  *)
(* its place it is outside: neither in the queue nor expected there.       *)
(***************************************************************************)
Runs(s, p) == s.stage[p] \in InProgress
RunsSerially(s, p) == Runs(s, p) /\ ~CanRunAsync(p)


QueueHolds(s, outside) ==
  /\ Distinct(s.packets_queue)
  /\ \A p \in Packet : In(s.packets_queue, p) <=> s.stage[p] = "queued" /\ p \notin outside

ExecutedHolds(s) ==
  \A m \in Method : m \in s.executed_packets <=> \E p \in Packet : MethodOf[p] = m /\ RunsSerially(s, p)

Clash(p, q) == MethodOf[p] = MethodOf[q] \/ (Sync(p) /\ Sync(q))
ExclusiveHolds(s) ==
  \A p, q \in Packet : RunsSerially(s, p) /\ RunsSerially(s, q) /\ Clash(p, q) => p = q

\* Where a packet is that starts: behind the rate limit, or executing without it.
StartsAt(s, p, where) ==
  /\ where \in InProgress
  /\ where = "dummy" => s.rate_limited
  /\ where = "exec" => Sync(p) /\ ~s.rate_limited

ThreadOK(s, outside) ==
  s \in SendThreads /\ QueueHolds(s, outside) /\ ExecutedHolds(s) /\ ExclusiveHolds(s)

LEMMA Fields ==
  ASSUME NEW s \in SendThreads
  PROVE  /\ s.executed_packets \in SUBSET Method
         /\ s.packets_queue \in Seq(Packet)
         /\ s.is_sending_locked \in BOOLEAN
         /\ s.rate_limited \in BOOLEAN
         /\ s.stage \in [Packet -> Stage]
  BY DEF SendThreads

\* The packets that run serially stay the same.
LEMMA ExecutionKept ==
  ASSUME NEW s, NEW t, ExecutedHolds(s), ExclusiveHolds(s),
         t.executed_packets = s.executed_packets,
         \A p \in Packet : Runs(t, p) <=> Runs(s, p)
  PROVE  ExecutedHolds(t) /\ ExclusiveHolds(t)
<1>1. \A p \in Packet : RunsSerially(t, p) <=> RunsSerially(s, p)
  BY DEF RunsSerially
<1> HIDE DEF RunsSerially
<1> QED
  BY <1>1 DEF ExecutedHolds, ExclusiveHolds

\* A packet starts that post_packet finds free to.
LEMMA ExecutionStarts ==
  ASSUME NEW s \in SendThreads, NEW t \in SendThreads, NEW p \in Packet,
         ExecutedHolds(s), ExclusiveHolds(s), ~Runs(s, p),
         ~(PacketExecuted(s, p) /\ ~CanRunAsync(p)),
         t.executed_packets = IF CanRunAsync(p) THEN s.executed_packets
                              ELSE s.executed_packets \cup {MethodOf[p]},
         Runs(t, p), \A q \in Packet \ {p} : Runs(t, q) <=> Runs(s, q)
  PROVE  ExecutedHolds(t) /\ ExclusiveHolds(t)
<1>1. CASE CanRunAsync(p)
  <2>1. \A q \in Packet : RunsSerially(t, q) <=> RunsSerially(s, q)
    BY <1>1 DEF RunsSerially
  <2> QED
    BY <1>1, <2>1 DEF ExecutedHolds, ExclusiveHolds
<1>2. CASE ~CanRunAsync(p)
  <2>1. \A q \in Packet : RunsSerially(t, q) <=> q = p \/ RunsSerially(s, q)
    BY <1>2 DEF RunsSerially
  <2>2. ExecutedHolds(t)
    BY <1>2, <2>1, PacketAssumption DEF ExecutedHolds
  <2>3. ASSUME NEW q \in Packet, RunsSerially(s, q) PROVE ~Clash(p, q)
    <3>1. MethodOf[q] \in s.executed_packets
      BY <2>3, PacketAssumption DEF ExecutedHolds
    <3> QED
      BY <1>2, <3>1 DEF PacketExecuted, Clash, Sync
  <2>4. \A q, r \in Packet : Clash(q, r) <=> Clash(r, q)
    BY DEF Clash
  <2> QED
    BY <2>1, <2>2, <2>3, <2>4 DEF ExclusiveHolds
<1> QED
  BY <1>1, <1>2

\* A packet ends, and its method is erased.
LEMMA ExecutionEnds ==
  ASSUME NEW s \in SendThreads, NEW t \in SendThreads, NEW p \in Packet,
         ExecutedHolds(s), ExclusiveHolds(s), Runs(s, p),
         t.executed_packets = s.executed_packets \ {MethodOf[p]},
         ~Runs(t, p), \A q \in Packet \ {p} : Runs(t, q) <=> Runs(s, q)
  PROVE  ExecutedHolds(t) /\ ExclusiveHolds(t)
<1>1. \A q \in Packet : RunsSerially(t, q) <=> q # p /\ RunsSerially(s, q)
  BY DEF RunsSerially
<1>2. ASSUME NEW q \in Packet, q # p, RunsSerially(s, q) PROVE MethodOf[q] # MethodOf[p]
  <2>1. CASE CanRunAsync(p)
    BY <1>2, <2>1, PacketAssumption DEF SameClass, RunsSerially
  <2>2. CASE ~CanRunAsync(p)
    BY <1>2, <2>2 DEF ExclusiveHolds, RunsSerially, Clash
  <2> QED
    BY <2>1, <2>2
<1> HIDE DEF RunsSerially
<1> QED
  BY <1>1, <1>2 DEF ExecutedHolds, ExclusiveHolds

-------------------------------------------------------------------------------
(***************************************************************************)
(* The methods of wim_send_thread.                                         *)
(***************************************************************************)
Sorted(q) == SortedBy(Priority, q)

LEMMA InsertFacts ==
  ASSUME NEW s \in SendThreads, NEW p \in Packet, QueueHolds(s, {p}),
         NEW t, t = InsertPacketInQueue(s, p)
  PROVE  /\ t \in SendThreads
         /\ t.executed_packets = s.executed_packets
         /\ t.is_sending_locked = s.is_sending_locked
         /\ t.rate_limited = s.rate_limited
         /\ t.stage = [s.stage EXCEPT ![p] = "queued"]
         /\ QueueHolds(t, {})
         /\ Sorted(s.packets_queue) => Sorted(t.packets_queue)
<1> DEFINE q == s.packets_queue
           r == InsertAt(q, PlaceIn(Priority, q, p), p)
<1>1. q \in Seq(Packet) /\ s.stage \in [Packet -> Stage]
  BY Fields
<1>2. PlaceIn(Priority, q, p) \in 1..(Len(q) + 1)
  BY <1>1, PacketAssumption, InsertPlace
<1>3. t = [s EXCEPT !.stage = [s.stage EXCEPT ![p] = "queued"], !.packets_queue = r]
  BY DEF InsertPacketInQueue, To, SendThreads, PlaceIn, LaterIn
<1>4. r \in Seq(Packet)
  BY <1>1, <1>2, InsertAtFacts
<1>5. Distinct(q) /\ ~In(q, p) /\ \A u \in Packet \ {p} : In(q, u) <=> s.stage[u] = "queued"
  BY DEF QueueHolds
<1>6. Distinct(r) /\ \A u \in Packet : In(r, u) <=> u = p \/ In(q, u)
  BY <1>1, <1>2, <1>5, InsertKeepsDistinct
<1>7. Sorted(q) => Sorted(r)
  BY <1>1, PacketAssumption, InsertKeepsSorted DEF Sorted
<1> HIDE DEF r
<1>8. /\ t \in SendThreads
      /\ t.executed_packets = s.executed_packets
      /\ t.is_sending_locked = s.is_sending_locked
      /\ t.rate_limited = s.rate_limited
      /\ t.stage = [s.stage EXCEPT ![p] = "queued"]
      /\ t.packets_queue = r
  <2> DEFINE f == [s.stage EXCEPT ![p] = "queued"]
  <2>1. f \in [Packet -> Stage]
    BY <1>1 DEF Stage
  <2>2. t = [s EXCEPT !.stage = f, !.packets_queue = r]
    BY <1>3
  <2> HIDE DEF f
  <2>3. t \in SendThreads /\ t.stage = f /\ t.packets_queue = r
    BY <1>4, <2>1, <2>2 DEF SendThreads
  <2>4. /\ t.executed_packets = s.executed_packets
        /\ t.is_sending_locked = s.is_sending_locked
        /\ t.rate_limited = s.rate_limited
    BY <2>2 DEF SendThreads
  <2> QED
    BY <2>3, <2>4 DEF f
<1>9. QueueHolds(t, {})
  BY <1>1, <1>5, <1>6, <1>8 DEF QueueHolds
<1> QED
  BY <1>7, <1>8, <1>9

LEMMA StartFacts ==
  ASSUME NEW s \in SendThreads, NEW p \in Packet, NEW t, t = StartPacket(s, p)
  PROVE  /\ t \in SendThreads
         /\ t.executed_packets = IF CanRunAsync(p) THEN s.executed_packets
                                 ELSE s.executed_packets \cup {MethodOf[p]}
         /\ t.packets_queue = s.packets_queue
         /\ t.is_sending_locked = s.is_sending_locked
         /\ t.rate_limited = s.rate_limited
         /\ \E where \in InProgress : t.stage = [s.stage EXCEPT ![p] = where] /\ StartsAt(s, p, where)
<1> DEFINE e == IF CanRunAsync(p) THEN s.executed_packets
                ELSE s.executed_packets \cup {MethodOf[p]}
           w == IF s.rate_limited THEN "dummy"
                ELSE IF CanRunAsync(p) \/ p \in Partial THEN "wire" ELSE "exec"
           f == [s.stage EXCEPT ![p] = w]
<1>1. s.executed_packets \in SUBSET Method /\ s.stage \in [Packet -> Stage] /\ MethodOf[p] \in Method
  BY Fields, PacketAssumption
<1>2. e \in SUBSET Method /\ w \in InProgress /\ f \in [Packet -> Stage]
  BY <1>1 DEF Stage, InProgress
<1>w. StartsAt(s, p, w)
  BY DEF StartsAt, InProgress, Sync
<1>3. t = [s EXCEPT !.executed_packets = e, !.stage = f]
  <2>1. CASE CanRunAsync(p)
    BY <2>1 DEF StartPacket, To, SendThreads
  <2>2. CASE ~CanRunAsync(p)
    BY <2>2 DEF StartPacket, To, SendThreads
  <2> QED
    BY <2>1, <2>2
<1> HIDE DEF e, f, w
<1>4. t \in SendThreads /\ t.executed_packets = e /\ t.stage = f
  BY <1>2, <1>3 DEF SendThreads
<1>5. /\ t.packets_queue = s.packets_queue
      /\ t.is_sending_locked = s.is_sending_locked
      /\ t.rate_limited = s.rate_limited
  BY <1>3 DEF SendThreads
<1> QED
  BY <1>2, <1>w, <1>4, <1>5 DEF e, f

\* A packet that is outside is started or queued.
Posted(s, t, p) ==
  /\ ThreadOK(t, {})
  /\ t.is_sending_locked = s.is_sending_locked
  /\ t.rate_limited = s.rate_limited
  /\ \A q \in Packet \ {p} : t.stage[q] = s.stage[q]
  /\ t.stage[p] \in {"queued"} \cup InProgress
  /\ t.stage[p] # "queued" => StartsAt(s, p, t.stage[p])
  /\ s.is_sending_locked => t.stage[p] = "queued"
  /\ Sorted(s.packets_queue) => Sorted(t.packets_queue)

LEMMA PostPacketFacts ==
  ASSUME NEW s, NEW p \in Packet, ThreadOK(s, {p}), ~Runs(s, p), NEW t, t = PostPacket(s, p)
  PROVE  Posted(s, t, p)
<1>1. s \in SendThreads /\ QueueHolds(s, {p}) /\ ExecutedHolds(s) /\ ExclusiveHolds(s)
  BY DEF ThreadOK
<1>2. s.stage \in [Packet -> Stage]
  BY <1>1, Fields
<1>3. CASE s.is_sending_locked \/ (PacketExecuted(s, p) /\ ~CanRunAsync(p))
  <2>1. t = InsertPacketInQueue(s, p)
    BY <1>3 DEF PostPacket
  <2>2. /\ t \in SendThreads
        /\ t.executed_packets = s.executed_packets
        /\ t.is_sending_locked = s.is_sending_locked
        /\ t.rate_limited = s.rate_limited
        /\ t.stage = [s.stage EXCEPT ![p] = "queued"]
        /\ QueueHolds(t, {})
        /\ Sorted(s.packets_queue) => Sorted(t.packets_queue)
    BY <1>1, <2>1, InsertFacts
  <2>3. \A q \in Packet : Runs(t, q) <=> Runs(s, q)
    BY <1>2, <2>2 DEF Runs, InProgress
  <2>4. ExecutedHolds(t) /\ ExclusiveHolds(t)
    BY <1>1, <2>2, <2>3, ExecutionKept
  <2> QED
    BY <1>2, <2>2, <2>4 DEF ThreadOK, Posted
<1>4. CASE ~(s.is_sending_locked \/ (PacketExecuted(s, p) /\ ~CanRunAsync(p)))
  <2>1. t = StartPacket(s, p)
    BY <1>4 DEF PostPacket
  <2>2. /\ t \in SendThreads
        /\ t.executed_packets = IF CanRunAsync(p) THEN s.executed_packets
                                ELSE s.executed_packets \cup {MethodOf[p]}
        /\ t.packets_queue = s.packets_queue
        /\ t.is_sending_locked = s.is_sending_locked
        /\ t.rate_limited = s.rate_limited
        /\ \E where \in InProgress : t.stage = [s.stage EXCEPT ![p] = where] /\ StartsAt(s, p, where)
    BY <1>1, <2>1, StartFacts
  <2>3. t.stage[p] \in InProgress /\ StartsAt(s, p, t.stage[p]) /\ \A q \in Packet \ {p} : t.stage[q] = s.stage[q]
    BY <1>2, <2>2
  <2>4. Runs(t, p) /\ \A q \in Packet \ {p} : Runs(t, q) <=> Runs(s, q)
    BY <2>3 DEF Runs
  <2>5. ExecutedHolds(t) /\ ExclusiveHolds(t)
    BY <1>1, <1>4, <2>2, <2>4, ExecutionStarts
  <2>6. QueueHolds(t, {})
    BY <1>1, <2>2, <2>3 DEF QueueHolds, InProgress
  <2> QED
    BY <1>4, <2>2, <2>3, <2>5, <2>6 DEF ThreadOK, Posted
<1> QED
  BY <1>3, <1>4

\* execute_packet_from_queue changes the stage of the head at most.
MovesOn(s, t) ==
  /\ ThreadOK(t, {})
  /\ t.is_sending_locked = s.is_sending_locked
  /\ t.rate_limited = s.rate_limited
  /\ \A q \in Packet : t.stage[q] # s.stage[q] =>
       /\ s.stage[q] = "queued" /\ t.stage[q] \in InProgress /\ StartsAt(s, q, t.stage[q])
       /\ ~s.is_sending_locked /\ s.packets_queue # <<>> /\ q = Head(s.packets_queue)
  /\ Sorted(s.packets_queue) => Sorted(t.packets_queue)

LEMMA ExecuteQueueFacts ==
  ASSUME NEW s, ThreadOK(s, {})
  PROVE  MovesOn(s, ExecutePacketFromQueue(s))
<1> DEFINE t == ExecutePacketFromQueue(s)
<1>1. s \in SendThreads /\ QueueHolds(s, {}) /\ ExecutedHolds(s) /\ ExclusiveHolds(s)
  BY DEF ThreadOK
<1>2. s.stage \in [Packet -> Stage] /\ s.packets_queue \in Seq(Packet)
  BY <1>1, Fields
<1>3. CASE ~(s.packets_queue # <<>> /\ ~s.is_sending_locked)
  <2>1. t = s
    BY <1>3 DEF ExecutePacketFromQueue
  <2> QED
    BY <1>1, <2>1 DEF MovesOn, ThreadOK
<1>4. CASE s.packets_queue # <<>> /\ ~s.is_sending_locked
  <2> DEFINE p == Head(s.packets_queue)
             r == Tail(s.packets_queue)
             u == [s EXCEPT !.packets_queue = r]
  <2>1. /\ p \in Packet /\ r \in Seq(Packet) /\ Len(r) = Len(s.packets_queue) - 1
        /\ p = s.packets_queue[1] /\ 1 \in DOMAIN s.packets_queue
        /\ \A i \in DOMAIN r : i + 1 \in DOMAIN s.packets_queue /\ r[i] = s.packets_queue[i + 1]
        /\ \A i \in DOMAIN s.packets_queue : i # 1 => i - 1 \in DOMAIN r /\ r[i - 1] = s.packets_queue[i]
    BY <1>2, <1>4
  <2>2. t = PostPacket(u, p)
    BY <1>4 DEF ExecutePacketFromQueue
  <2> HIDE DEF p, r, t
  <2>3. /\ u \in SendThreads /\ u.packets_queue = r
        /\ u.executed_packets = s.executed_packets
        /\ u.is_sending_locked = s.is_sending_locked
        /\ u.rate_limited = s.rate_limited
        /\ u.stage = s.stage
    BY <1>1, <2>1 DEF SendThreads
  <2> HIDE DEF u
  <2>4. Distinct(s.packets_queue) /\ \A q \in Packet : In(s.packets_queue, q) <=> s.stage[q] = "queued"
    BY <1>1 DEF QueueHolds
  <2>5. Distinct(r) /\ \A q \in Packet : In(r, q) <=> In(s.packets_queue, q) /\ q # p
    BY <1>2, <1>4, <2>4, TailFacts DEF p, r
  <2>7. QueueHolds(u, {p})
    BY <2>3, <2>4, <2>5 DEF QueueHolds
  <2>8. s.stage[p] = "queued"
    BY <2>1, <2>4 DEF In
  <2>9. ThreadOK(u, {p}) /\ ~Runs(u, p)
    <3>1. \A q \in Packet : Runs(u, q) <=> Runs(s, q)
      BY <2>3 DEF Runs
    <3>2. ExecutedHolds(u) /\ ExclusiveHolds(u)
      BY <1>1, <2>3, <3>1, ExecutionKept
    <3> QED
      BY <2>3, <2>7, <2>8, <3>2 DEF ThreadOK, Runs, InProgress
  <2>10. Posted(u, t, p)
    BY <2>1, <2>2, <2>9, PostPacketFacts
  <2>11. ASSUME Sorted(s.packets_queue) PROVE Sorted(r)
    <3>1. SUFFICES ASSUME NEW i \in 1..Len(r), NEW j \in 1..Len(r), i < j
                   PROVE  Priority[r[i]] <= Priority[r[j]]
      BY DEF Sorted, SortedBy
    <3>2. /\ i + 1 \in 1..Len(s.packets_queue) /\ j + 1 \in 1..Len(s.packets_queue) /\ i + 1 < j + 1
          /\ r[i] = s.packets_queue[i + 1] /\ r[j] = s.packets_queue[j + 1]
      BY <1>2, <2>1, <3>1
    <3> QED
      BY <2>11, <3>2 DEF Sorted, SortedBy
  <2> QED
    BY <1>4, <2>3, <2>8, <2>10, <2>11 DEF p, t, Posted, MovesOn, StartsAt, InProgress
<1> QED
  BY <1>3, <1>4

-------------------------------------------------------------------------------
(***************************************************************************)
(* Completions and new sessions.                                           *)
(***************************************************************************)
\* From s to t, a packet that ran is at its end, and its method erased.
Ended(s, t, p, where) ==
  /\ ThreadOK(t, {})
  /\ t.packets_queue = s.packets_queue
  /\ t.is_sending_locked = s.is_sending_locked
  /\ t.rate_limited = s.rate_limited
  /\ t.stage = [s.stage EXCEPT ![p] = where]

LEMMA EndedFacts ==
  ASSUME NEW s, NEW p \in Packet, ThreadOK(s, {}), Runs(s, p), NEW where \in {"answered", "parked", "dropped"}
  PROVE  Ended(s, To(Erase(s, p), p, where), p, where)
<1> DEFINE t == To(Erase(s, p), p, where)
<1> DEFINE e == s.executed_packets \ {MethodOf[p]}
           f == [s.stage EXCEPT ![p] = where]
<1>1. s \in SendThreads /\ QueueHolds(s, {}) /\ ExecutedHolds(s) /\ ExclusiveHolds(s)
  BY DEF ThreadOK
<1>2. s.stage \in [Packet -> Stage] /\ e \in SUBSET Method /\ f \in [Packet -> Stage]
  BY <1>1, Fields DEF Stage
<1>3. t = [s EXCEPT !.executed_packets = e, !.stage = f]
  BY <1>1 DEF To, Erase, SendThreads
<1> HIDE DEF e, f, t
<1>4. t \in SendThreads /\ t.executed_packets = e /\ t.stage = f
  BY <1>1, <1>2, <1>3 DEF SendThreads
<1>5. /\ t.packets_queue = s.packets_queue
      /\ t.is_sending_locked = s.is_sending_locked
      /\ t.rate_limited = s.rate_limited
  BY <1>1, <1>3 DEF SendThreads
<1>6. t.stage[p] = where /\ \A q \in Packet \ {p} : t.stage[q] = s.stage[q]
  BY <1>2, <1>4 DEF f
<1>7. ~Runs(t, p) /\ \A q \in Packet \ {p} : Runs(t, q) <=> Runs(s, q)
  BY <1>6 DEF Runs, InProgress
<1>8. ExecutedHolds(t) /\ ExclusiveHolds(t)
  BY <1>1, <1>4, <1>7, ExecutionEnds DEF e
<1>9. QueueHolds(t, {})
  BY <1>1, <1>5, <1>6 DEF QueueHolds, Runs, InProgress
<1> QED
  BY <1>4, <1>5, <1>8, <1>9 DEF Ended, ThreadOK, f, t

\* A packet that ran is put back into the queue, and its method erased.
Retried(s, t, p) ==
  /\ ThreadOK(t, {})
  /\ t.is_sending_locked = s.is_sending_locked
  /\ t.rate_limited = s.rate_limited
  /\ t.stage = [s.stage EXCEPT ![p] = "queued"]
  /\ Sorted(s.packets_queue) => Sorted(t.packets_queue)

LEMMA RetriedFacts ==
  ASSUME NEW s, NEW p \in Packet, ThreadOK(s, {}), Runs(s, p)
  PROVE  Retried(s, Erase(InsertPacketInQueue(s, p), p), p)
<1> DEFINE t == Erase(InsertPacketInQueue(s, p), p)
           u == InsertPacketInQueue(s, p)
<1>1. s \in SendThreads /\ QueueHolds(s, {}) /\ ExecutedHolds(s) /\ ExclusiveHolds(s)
  BY DEF ThreadOK
<1>2. s.stage \in [Packet -> Stage]
  BY <1>1, Fields
<1>3. QueueHolds(s, {p})
  BY <1>1 DEF QueueHolds, Runs, InProgress
<1>4. /\ u \in SendThreads
      /\ u.executed_packets = s.executed_packets
      /\ u.is_sending_locked = s.is_sending_locked
      /\ u.rate_limited = s.rate_limited
      /\ u.stage = [s.stage EXCEPT ![p] = "queued"]
      /\ QueueHolds(u, {})
      /\ Sorted(s.packets_queue) => Sorted(u.packets_queue)
  BY <1>1, <1>3, InsertFacts
<1>5. t = Erase(u, p)
  OBVIOUS
<1> HIDE DEF t, u
<1>6. /\ t \in SendThreads
      /\ t.executed_packets = u.executed_packets \ {MethodOf[p]}
      /\ t.packets_queue = u.packets_queue
      /\ t.is_sending_locked = u.is_sending_locked
      /\ t.rate_limited = u.rate_limited
      /\ t.stage = u.stage
  BY <1>4, <1>5 DEF Erase, SendThreads
<1>7. ~Runs(t, p) /\ \A q \in Packet \ {p} : Runs(t, q) <=> Runs(s, q)
  BY <1>2, <1>4, <1>6 DEF Runs, InProgress
<1>8. ExecutedHolds(t) /\ ExclusiveHolds(t)
  BY <1>1, <1>4, <1>6, <1>7, ExecutionEnds
<1>9. QueueHolds(t, {})
  BY <1>4, <1>6 DEF QueueHolds
<1> QED
  BY <1>4, <1>6, <1>8, <1>9 DEF ThreadOK, Retried, t

DroppedStage(s) == [p \in Packet |-> IF s.stage[p] = "queued" THEN "dropped" ELSE s.stage[p]]

LEMMA RestartIs ==
  ASSUME NEW s \in SendThreads
  PROVE  /\ Restart(s) \in SendThreads
         /\ Restart(s) = [s EXCEPT !.packets_queue = <<>>, !.stage = DroppedStage(s), !.is_sending_locked = TRUE]
         /\ DroppedStage(s) \in [Packet -> Stage]
<1>1. DroppedStage(s) \in [Packet -> Stage]
  BY Fields DEF DroppedStage, Stage
<1>2. Clear(s) = [s EXCEPT !.packets_queue = <<>>, !.stage = DroppedStage(s)]
  BY DEF Clear, DroppedStage, SendThreads
<1> DEFINE d == DroppedStage(s)
<1>3. Restart(s) = [[s EXCEPT !.packets_queue = <<>>, !.stage = d] EXCEPT !.is_sending_locked = TRUE]
  BY <1>2 DEF Restart, Lock
<1> HIDE DEF d
<1>4. Restart(s) = [s EXCEPT !.packets_queue = <<>>, !.stage = d, !.is_sending_locked = TRUE]
  BY <1>3 DEF SendThreads
<1>5. d \in [Packet -> Stage] /\ <<>> \in Seq(Packet)
  BY <1>1 DEF d
<1>6. Restart(s) \in SendThreads
  BY <1>4, <1>5 DEF SendThreads
<1> QED
  BY <1>1, <1>4, <1>6 DEF d

\* A new session empties the queue and locks the thread.
Restarted(s, t) ==
  /\ ThreadOK(t, {})
  /\ t.packets_queue = <<>>
  /\ t.is_sending_locked
  /\ t.rate_limited = s.rate_limited
  /\ \A q \in Packet : t.stage[q] = IF s.stage[q] = "queued" THEN "dropped" ELSE s.stage[q]

LEMMA RestartFacts ==
  ASSUME NEW s, ThreadOK(s, {})
  PROVE  Restarted(s, Restart(s))
<1> DEFINE t == Restart(s)
<1>1. s \in SendThreads /\ QueueHolds(s, {}) /\ ExecutedHolds(s) /\ ExclusiveHolds(s)
  BY DEF ThreadOK
<1> DEFINE d == DroppedStage(s)
<1>2. t \in SendThreads /\ t = [s EXCEPT !.packets_queue = <<>>, !.stage = d, !.is_sending_locked = TRUE]
  BY <1>1, RestartIs
<1> HIDE DEF d, t
<1>3. /\ t.executed_packets = s.executed_packets
      /\ t.packets_queue = <<>>
      /\ t.is_sending_locked
      /\ t.rate_limited = s.rate_limited
      /\ t.stage = d
  BY <1>1, <1>2 DEF SendThreads
<1>4. \A q \in Packet : t.stage[q] = IF s.stage[q] = "queued" THEN "dropped" ELSE s.stage[q]
  BY <1>3 DEF d, DroppedStage
<1>5. \A q \in Packet : Runs(t, q) <=> Runs(s, q)
  BY <1>4 DEF Runs, InProgress
<1>6. ExecutedHolds(t) /\ ExclusiveHolds(t)
  BY <1>1, <1>3, <1>5, ExecutionKept
<1>7. QueueHolds(t, {})
  BY <1>3, <1>4 DEF QueueHolds, Distinct, In
<1> QED
  BY <1>2, <1>3, <1>4, <1>6, <1>7 DEF ThreadOK, Restarted, t

LEMMA RestartAfterEnd ==
  ASSUME NEW s \in SendThreads, NEW p \in Packet, Runs(s, p), NEW where \in {"answered", "parked", "dropped"}
  PROVE  To(Restart(Erase(s, p)), p, where) = Restart(To(Erase(s, p), p, where))
<1> DEFINE e == s.executed_packets \ {MethodOf[p]}
           f == [s.stage EXCEPT ![p] = where]
           u == [s EXCEPT !.executed_packets = e]
           v == [s EXCEPT !.executed_packets = e, !.stage = f]
<1>1. s.stage \in [Packet -> Stage] /\ e \in SUBSET Method /\ f \in [Packet -> Stage]
  BY Fields DEF Stage
<1>2. Erase(s, p) = u /\ To(Erase(s, p), p, where) = v
  BY DEF Erase, To, SendThreads
<1> HIDE DEF e
<1>3. u \in SendThreads /\ u.stage = s.stage
  BY <1>1 DEF SendThreads
<1>4. v \in SendThreads /\ v.stage = f
  <2> HIDE DEF f
  <2> QED
    BY <1>1 DEF SendThreads
<1>5. [DroppedStage(u) EXCEPT ![p] = where] = DroppedStage(v)
  BY <1>1, <1>3, <1>4 DEF DroppedStage, Runs, InProgress
<1>6. /\ Restart(u) = [u EXCEPT !.packets_queue = <<>>, !.stage = DroppedStage(u), !.is_sending_locked = TRUE]
      /\ Restart(v) = [v EXCEPT !.packets_queue = <<>>, !.stage = DroppedStage(v), !.is_sending_locked = TRUE]
      /\ DroppedStage(u) \in [Packet -> Stage]
  BY <1>3, <1>4, RestartIs
<1> DEFINE du == DroppedStage(u)
           dv == DroppedStage(v)
<1>7. /\ Restart(u) = [u EXCEPT !.packets_queue = <<>>, !.stage = du, !.is_sending_locked = TRUE]
      /\ Restart(v) = [v EXCEPT !.packets_queue = <<>>, !.stage = dv, !.is_sending_locked = TRUE]
      /\ [du EXCEPT ![p] = where] = dv /\ du \in [Packet -> Stage]
  BY <1>5, <1>6
<1> HIDE DEF du, dv, f
<1>8. To(Restart(u), p, where) = Restart(v)
  BY <1>7 DEF To, SendThreads
<1> QED
  BY <1>2, <1>8

\* A packet that ran is at its end, and a new session begins if `relogin` says so.
EndedRestarted(s, t, p, where, relogin) ==
  /\ ThreadOK(t, {})
  /\ t.is_sending_locked <=> s.is_sending_locked \/ relogin
  /\ t.rate_limited = s.rate_limited
  /\ t.stage[p] = where
  /\ \A q \in Packet \ {p} : t.stage[q] =
       IF relogin /\ s.stage[q] = "queued" THEN "dropped" ELSE s.stage[q]
  /\ Sorted(s.packets_queue) => Sorted(t.packets_queue)

LEMMA EndedRestartFacts ==
  ASSUME NEW s, NEW p \in Packet, ThreadOK(s, {}), Runs(s, p), NEW where \in {"answered", "parked", "dropped"},
         NEW relogin, NEW t,
         t = IF relogin THEN Restart(To(Erase(s, p), p, where)) ELSE To(Erase(s, p), p, where)
  PROVE  EndedRestarted(s, t, p, where, relogin)
<1> DEFINE u == To(Erase(s, p), p, where)
<1>1. Ended(s, u, p, where)
  BY EndedFacts
<1> HIDE DEF u
<1>2. s \in SendThreads /\ ThreadOK(u, {})
  BY <1>1 DEF ThreadOK, Ended
<1>3. s.stage \in [Packet -> Stage] /\ s.is_sending_locked \in BOOLEAN
  BY <1>2, Fields
<1>4. u.stage[p] = where /\ \A q \in Packet \ {p} : u.stage[q] = s.stage[q]
  BY <1>1, <1>3 DEF Ended
<1>5. CASE relogin
  <2>1. Restarted(u, t)
    BY <1>2, <1>5, RestartFacts DEF u
  <2>2. Sorted(t.packets_queue)
    BY <2>1 DEF Restarted, Sorted, SortedBy
  <2> QED
    BY <1>1, <1>4, <1>5, <2>1, <2>2 DEF Ended, Restarted, EndedRestarted
<1>6. CASE ~relogin
  <2>1. t = u
    BY <1>6 DEF u
  <2> QED
    BY <1>1, <1>3, <1>4, <1>6, <2>1 DEF Ended, EndedRestarted
<1> QED
  BY <1>5, <1>6

Parks(p, error) == p \in AutoResend /\ error \in NeedsToRepeatFailed

\* The error handler of a packet that ran: the packet ends, the others stay where
\* they are, but for those a new session drops and the one the caller posts next.
Handled(s, t, p, error, next) ==
  /\ ThreadOK(t, {})
  /\ t.is_sending_locked <=> s.is_sending_locked \/ Relogin(error)
  /\ t.rate_limited = s.rate_limited
  /\ t.stage[p] = IF Parks(p, error) THEN "parked" ELSE "answered"
  /\ \A q \in Packet \ {p} : t.stage[q] # s.stage[q] =>
       \/ Relogin(error) /\ s.stage[q] = "queued" /\ t.stage[q] = "dropped"
       \/ /\ next = {q} /\ ~Parks(p, error) /\ has_aimsid
          /\ t.stage[q] \in {"queued"} \cup InProgress
          /\ t.stage[q] # "queued" => StartsAt(s, q, t.stage[q])
          /\ t.is_sending_locked => t.stage[q] = "queued"
  /\ Relogin(error) => \A q \in Packet \ {p} : s.stage[q] = "queued" => t.stage[q] = "dropped"
  /\ Sorted(s.packets_queue) => Sorted(t.packets_queue)

LEMMA ErrorHandlerFacts ==
  ASSUME NEW s, ThreadOK(s, {}), NEW p \in Packet, Runs(s, p), NEW error,
         NEW next, next = {} \/ \E n \in Packet : next = {n} /\ s.stage[n] = "new",
         NEW t, t = ErrorHandler(Erase(s, p), p, error, next)
  PROVE  Handled(s, t, p, error, next)
<1> DEFINE where == IF Parks(p, error) THEN "parked" ELSE "answered"
           u == To(Erase(s, p), p, where)
           v == IF Relogin(error) THEN Restart(u) ELSE u
<1>1. s \in SendThreads /\ where \in {"answered", "parked", "dropped"}
  BY DEF ThreadOK
<1>2. s.stage \in [Packet -> Stage] /\ s.packets_queue \in Seq(Packet)
  BY <1>1, Fields
<1>3. t = IF Parks(p, error) \/ next = {} \/ ~has_aimsid THEN v
          ELSE PostPacket(v, CHOOSE n \in next : TRUE)
  BY <1>1, RestartAfterEnd DEF ErrorHandler, Parks
<1>4. v = IF Relogin(error) THEN Restart(To(Erase(s, p), p, where)) ELSE To(Erase(s, p), p, where)
  OBVIOUS
<1> HIDE DEF where, v
<1>6. EndedRestarted(s, v, p, where, Relogin(error))
  BY <1>1, <1>4, EndedRestartFacts
<1>7. s.stage[p] \in InProgress /\ v.is_sending_locked \in BOOLEAN
  <2>1. v \in SendThreads
    BY <1>6 DEF EndedRestarted, ThreadOK
  <2> QED
    BY <2>1, Fields DEF Runs
<1>8. CASE Parks(p, error) \/ next = {} \/ ~has_aimsid
  <2>1. t = v
    BY <1>3, <1>8
  <2>2. \A q \in Packet : ~(next = {q} /\ ~Parks(p, error) /\ has_aimsid)
    BY <1>8
  <2> QED
    BY <1>6, <1>7, <2>1, <2>2 DEF where, InProgress, EndedRestarted, Handled
<1>9. CASE ~(Parks(p, error) \/ next = {} \/ ~has_aimsid)
  <2>1. PICK n \in Packet : next = {n} /\ s.stage[n] = "new"
    BY <1>9
  <2>2. t = PostPacket(v, n)
    BY <1>3, <1>9, <2>1
  <2>3. n # p /\ v.stage[n] = "new"
    BY <1>6, <1>7, <2>1 DEF InProgress, EndedRestarted
  <2>4. ThreadOK(v, {n}) /\ ~Runs(v, n)
    BY <1>6, <2>3 DEF EndedRestarted, ThreadOK, QueueHolds, Runs, InProgress
  <2>5. Posted(v, t, n)
    BY <2>2, <2>4, PostPacketFacts
  <2>6. \A q \in Packet : next = {q} <=> q = n
    BY <2>1
  <2> QED
    BY <1>6, <1>7, <1>9, <2>1, <2>3, <2>5, <2>6 DEF where, InProgress, EndedRestarted, Posted, Handled, StartsAt
<1> QED
  BY <1>8, <1>9

-------------------------------------------------------------------------------
(***************************************************************************)
(* The inductive invariant.                                                *)
(***************************************************************************)
\* Parked packets are in the running resume loop or in failed_packets_, once.
ParkedHolds(s, r, f) ==
  /\ Distinct(r) /\ Distinct(f)
  /\ \A p \in Packet : ~(In(r, p) /\ In(f, p))
  /\ \A p \in Packet : s.stage[p] = "parked" <=> In(r, p) \/ In(f, p)

Good(s, r, f) ==
  ThreadOK(s, {}) /\ Sorted(s.packets_queue) /\ ParkedHolds(s, r, f)

ImTypeOK ==
  /\ repeat_count \in [Packet -> 0..SentRepeatCount]
  /\ born \in [Packet -> 0..MaxSessions]
  /\ session \in 0..MaxSessions
  /\ start_session_is_running \in BOOLEAN
  /\ is_ping \in BOOLEAN
  /\ has_aimsid \in BOOLEAN
  /\ failed_packets \in Seq(Packet)
  /\ resuming \in Seq(Packet)

IInv == Good(send, resuming, failed_packets) /\ ImTypeOK /\ LockedHasStarter

\* What NoStartWhileLocked says of one step.
NothingStarts ==
  send.is_sending_locked /\ send'.is_sending_locked
  => \A p \in Packet : send'.stage[p] \in InProgress => IsInProgress(p) \/ LetThrough(p)

\* Nothing is parked or taken up again between s and t.
LEMMA ParkedKept ==
  ASSUME NEW s, NEW t, NEW r, NEW f, ParkedHolds(s, r, f),
         \A p \in Packet : t.stage[p] = "parked" <=> s.stage[p] = "parked"
  PROVE  ParkedHolds(t, r, f)
BY DEF ParkedHolds

\* The queue moving on disturbs nothing.
LEMMA GoodMovesOn ==
  ASSUME NEW s, NEW r, NEW f, Good(s, r, f)
  PROVE  Good(ExecutePacketFromQueue(s), r, f)
<1> DEFINE t == ExecutePacketFromQueue(s)
<1>1. MovesOn(s, t)
  BY ExecuteQueueFacts DEF Good
<1> HIDE DEF t
<1>2. \A p \in Packet : t.stage[p] = "parked" <=> s.stage[p] = "parked"
  BY <1>1 DEF MovesOn, InProgress
<1>3. ParkedHolds(t, r, f)
  BY <1>2, ParkedKept DEF Good
<1> QED
  BY <1>1, <1>3 DEF Good, MovesOn, t

LEMMA GoodRestarts ==
  ASSUME NEW s, NEW r, NEW f, Good(s, r, f)
  PROVE  Good(Restart(s), r, f)
<1> DEFINE t == Restart(s)
<1>1. Restarted(s, t)
  BY RestartFacts DEF Good
<1> HIDE DEF t
<1>2. \A p \in Packet : t.stage[p] = "parked" <=> s.stage[p] = "parked"
  BY <1>1 DEF Restarted
<1>3. ParkedHolds(t, r, f)
  BY <1>2, ParkedKept DEF Good
<1>4. Sorted(t.packets_queue)
  BY <1>1 DEF Restarted, Sorted, SortedBy
<1> QED
  BY <1>1, <1>3, <1>4 DEF Good, Restarted, t

\* A change of the two flags.
LEMMA GoodFlags ==
  ASSUME NEW s, NEW r, NEW f, Good(s, r, f), NEW t \in SendThreads,
         t.executed_packets = s.executed_packets,
         t.packets_queue = s.packets_queue,
         t.stage = s.stage
  PROVE  Good(t, r, f) /\ \A p \in Packet : Runs(t, p) <=> Runs(s, p)
<1>1. \A p \in Packet : Runs(t, p) <=> Runs(s, p)
  BY DEF Runs
<1>2. ExecutedHolds(t) /\ ExclusiveHolds(t)
  BY <1>1, ExecutionKept DEF Good, ThreadOK
<1>3. QueueHolds(t, {})
  BY DEF Good, ThreadOK, QueueHolds
<1>4. ParkedHolds(t, r, f)
  BY DEF Good, ParkedHolds
<1> QED
  BY <1>1, <1>2, <1>3, <1>4 DEF Good, ThreadOK

-------------------------------------------------------------------------------
LEMMA InitGood ==
  Init => IInv
<1> SUFFICES ASSUME Init PROVE IInv
  OBVIOUS
<1>1. send \in SendThreads /\ ImTypeOK
  <2>1. [p \in Packet |-> "new"] \in [Packet -> Stage]
    BY DEF Stage
  <2>2. <<>> \in Seq(Packet)
    OBVIOUS
  <2>3. send \in SendThreads
    BY <2>1, <2>2 DEF Init, SendThreads
  <2>4. 0 \in 0..SentRepeatCount /\ 0 \in 0..MaxSessions
    BY PacketAssumption DEF SentRepeatCount
  <2>5. repeat_count \in [Packet -> 0..SentRepeatCount] /\ born \in [Packet -> 0..MaxSessions]
    BY <2>4 DEF Init
  <2>6. start_session_is_running \in BOOLEAN /\ is_ping \in BOOLEAN /\ has_aimsid \in BOOLEAN
    BY DEF Init
  <2>7. failed_packets \in Seq(Packet) /\ resuming \in Seq(Packet) /\ session \in 0..MaxSessions
    BY <2>2, <2>4 DEF Init
  <2> QED
    BY <2>3, <2>5, <2>6, <2>7 DEF ImTypeOK
<1>2. /\ send.executed_packets = {} /\ send.packets_queue = <<>> /\ ~send.is_sending_locked
      /\ \A p \in Packet : send.stage[p] = "new"
      /\ resuming = <<>> /\ failed_packets = <<>>
  BY DEF Init
<1>3. \A p \in Packet : ~In(<<>>, p)
  BY DEF In
<1>4. Distinct(<<>>) /\ Sorted(<<>>)
  BY DEF Distinct, Sorted, SortedBy
<1>5. \A p \in Packet : ~Runs(send, p)
  BY <1>2 DEF Runs, InProgress
<1>6. ExecutedHolds(send) /\ ExclusiveHolds(send)
  BY <1>2, <1>5 DEF ExecutedHolds, ExclusiveHolds, RunsSerially
<1>7. QueueHolds(send, {}) /\ ParkedHolds(send, resuming, failed_packets)
  BY <1>2, <1>3, <1>4 DEF QueueHolds, ParkedHolds
<1> QED
  BY <1>1, <1>2, <1>4, <1>6, <1>7 DEF IInv, Good, ThreadOK, LockedHasStarter

LEMMA PostStep ==
  ASSUME IInv, NEW p \in Packet, Post(p)
  PROVE  IInv' /\ NothingStarts
<1>1. ThreadOK(send, {}) /\ send \in SendThreads /\ send.stage[p] = "new"
  BY DEF IInv, Good, ThreadOK, Post
<1>2. send.stage \in [Packet -> Stage]
  BY <1>1, Fields
<1>3. ImTypeOK' /\ (send'.is_sending_locked = send.is_sending_locked => LockedHasStarter')
  BY DEF IInv, ImTypeOK, Post, LockedHasStarter
<1>4. CASE has_aimsid
  <2>1. ThreadOK(send, {p}) /\ ~Runs(send, p)
    BY <1>1 DEF ThreadOK, QueueHolds, Runs, InProgress
  <2>2. send' = PostPacket(send, p)
    BY <1>4 DEF Post
  <2>3. Posted(send, send', p)
    BY <2>1, <2>2, PostPacketFacts
  <2>4. \A q \in Packet : send'.stage[q] = "parked" <=> send.stage[q] = "parked"
    BY <1>1, <2>3 DEF Posted, InProgress
  <2>5. ParkedHolds(send', resuming, failed_packets)
    BY <2>4, ParkedKept DEF IInv, Good
  <2>6. Good(send', resuming, failed_packets)
    BY <2>3, <2>5 DEF IInv, Good, Posted
  <2>7. NothingStarts
    BY <2>3 DEF NothingStarts, Posted, InProgress, IsInProgress
  <2> QED
    BY <1>3, <2>3, <2>6, <2>7 DEF IInv, Good, Posted, Post
<1>5. CASE ~has_aimsid
  <2>1. send' = [send EXCEPT !.stage = [send.stage EXCEPT ![p] = "dropped"]]
    BY <1>1, <1>5 DEF Post, To, SendThreads
  <2> DEFINE g == [send.stage EXCEPT ![p] = "dropped"]
  <2>2. g \in [Packet -> Stage] /\ g[p] = "dropped" /\ \A q \in Packet \ {p} : g[q] = send.stage[q]
    BY <1>2 DEF Stage
  <2> HIDE DEF g
  <2>3. /\ send' \in SendThreads /\ send'.stage = g
        /\ send'.executed_packets = send.executed_packets
        /\ send'.packets_queue = send.packets_queue
        /\ send'.is_sending_locked = send.is_sending_locked
    BY <1>1, <2>1, <2>2 DEF g, SendThreads
  <2>4. \A q \in Packet : Runs(send', q) <=> Runs(send, q)
    BY <1>1, <2>2, <2>3 DEF Runs, InProgress
  <2>5. ExecutedHolds(send') /\ ExclusiveHolds(send')
    BY <1>1, <2>3, <2>4, ExecutionKept DEF ThreadOK
  <2>6. QueueHolds(send', {})
    BY <1>1, <2>2, <2>3 DEF ThreadOK, QueueHolds
  <2>7. \A q \in Packet : send'.stage[q] = "parked" <=> send.stage[q] = "parked"
    BY <1>1, <2>2, <2>3
  <2>8. ParkedHolds(send', resuming, failed_packets)
    BY <2>7, ParkedKept DEF IInv, Good
  <2>9. Good(send', resuming, failed_packets)
    BY <2>3, <2>5, <2>6, <2>8 DEF IInv, Good, ThreadOK
  <2>10. NothingStarts
    BY <2>4 DEF NothingStarts, Runs, IsInProgress
  <2> QED
    BY <1>3, <2>3, <2>9, <2>10 DEF IInv, Post
<1> QED
  BY <1>4, <1>5

LEMMA RateLimitedDoneStep ==
  ASSUME IInv, NEW p \in Packet, RateLimitedDone(p)
  PROVE  IInv' /\ NothingStarts
<1>1. ThreadOK(send, {}) /\ send \in SendThreads /\ send.stage[p] = "dummy" /\ Runs(send, p)
  BY DEF IInv, Good, ThreadOK, RateLimitedDone, Runs, InProgress
<1> DEFINE u == To(Erase(send, p), p, "dropped")
<1>2. send' = ExecutePacketFromQueue(u)
  BY <1>1 DEF RateLimitedDone, Erase, To, SendThreads
<1>3. Ended(send, u, p, "dropped")
  BY <1>1, EndedFacts
<1> HIDE DEF u
<1>4. \A q \in Packet \ {p} : u.stage[q] = send.stage[q]
  BY <1>1, <1>3, Fields DEF Ended
<1>5. u.stage[p] = "dropped"
  BY <1>1, <1>3, Fields DEF Ended
<1>6. ParkedHolds(u, resuming, failed_packets)
  BY <1>1, <1>4, <1>5, ParkedKept DEF IInv, Good
<1>7. Good(u, resuming, failed_packets)
  BY <1>3, <1>6 DEF IInv, Good, Ended
<1>8. Good(send', resuming, failed_packets) /\ MovesOn(u, send')
  BY <1>2, <1>7, GoodMovesOn, ExecuteQueueFacts DEF Good
<1>9. send'.is_sending_locked = send.is_sending_locked
  BY <1>3, <1>8 DEF Ended, MovesOn
<1>10. ImTypeOK' /\ LockedHasStarter'
  BY <1>9 DEF IInv, ImTypeOK, RateLimitedDone, LockedHasStarter
<1>11. NothingStarts
  BY <1>3, <1>4, <1>5, <1>8 DEF NothingStarts, Ended, MovesOn, IsInProgress, InProgress
<1> QED
  BY <1>8, <1>10, <1>11 DEF IInv, RateLimitedDone

LEMMA SyncRetryStep ==
  ASSUME IInv, NEW p \in Packet, SyncRetry(p)
  PROVE  IInv' /\ NothingStarts
<1>1. ThreadOK(send, {}) /\ send \in SendThreads /\ send.stage[p] = "exec" /\ Runs(send, p)
  BY DEF IInv, Good, ThreadOK, SyncRetry, Runs, InProgress
<1> DEFINE u == Erase(InsertPacketInQueue(send, p), p)
<1>2. send' = ExecutePacketFromQueue(u)
  BY DEF SyncRetry
<1>3. Retried(send, u, p)
  BY <1>1, RetriedFacts
<1> HIDE DEF u
<1>4. \A q \in Packet \ {p} : u.stage[q] = send.stage[q]
  BY <1>1, <1>3, Fields DEF Retried
<1>5. u.stage[p] = "queued"
  BY <1>1, <1>3, Fields DEF Retried
<1>6. ParkedHolds(u, resuming, failed_packets)
  BY <1>1, <1>4, <1>5, ParkedKept DEF IInv, Good
<1>7. Good(u, resuming, failed_packets)
  BY <1>3, <1>6 DEF IInv, Good, Retried
<1>8. Good(send', resuming, failed_packets) /\ MovesOn(u, send')
  BY <1>2, <1>7, GoodMovesOn, ExecuteQueueFacts DEF Good
<1>9. send'.is_sending_locked = send.is_sending_locked
  BY <1>3, <1>8 DEF Retried, MovesOn
<1>10. Executions(p) \in 0..SentRepeatCount
  BY DEF IInv, ImTypeOK, Executions, SentRepeatCount
<1>11. ImTypeOK' /\ LockedHasStarter'
  BY <1>9, <1>10 DEF IInv, ImTypeOK, SyncRetry, LockedHasStarter
<1>12. NothingStarts
  BY <1>3, <1>4, <1>5, <1>8 DEF NothingStarts, Retried, MovesOn, IsInProgress, InProgress
<1> QED
  BY <1>8, <1>11, <1>12 DEF IInv, SyncRetry

\* A completion with the error handler, up to the look at the queue.
LEMMA CompletionFacts ==
  ASSUME IInv, NEW p \in Packet, NEW error, NEW next \in FollowUps,
         send.stage[p] \in InProgress, ErrorHandlerIm(p, error, next),
         NEW s, Good(s, resuming, failed_packets),
         s.stage = send.stage, s.is_sending_locked = send.is_sending_locked,
         NEW t, t = ErrorHandler(Erase(s, p), p, error, next)
  PROVE  /\ Good(t, resuming', failed_packets')
         /\ t.is_sending_locked => start_session_is_running' /\ ~is_ping'
         /\ send.is_sending_locked => t.is_sending_locked
         /\ send.is_sending_locked
            => \A q \in Packet : t.stage[q] \in InProgress => send.stage[q] \in InProgress
         /\ /\ born' \in [Packet -> 0..MaxSessions]
            /\ session' \in 0..MaxSessions
            /\ start_session_is_running' \in BOOLEAN
            /\ is_ping' \in BOOLEAN
            /\ has_aimsid' \in BOOLEAN
            /\ failed_packets' \in Seq(Packet)
            /\ resuming' \in Seq(Packet)
<1>1. next = {} \/ \E n \in Packet : next = {n} /\ s.stage[n] = "new"
  BY DEF FollowUps
<1>2. ThreadOK(s, {}) /\ Runs(s, p)
  BY DEF Good, Runs
<1>3. Handled(s, t, p, error, next)
  BY <1>1, <1>2, ErrorHandlerFacts
<1>4. \A q \in Packet \ {p} : t.stage[q] = "parked" <=> s.stage[q] = "parked"
  <2> SUFFICES ASSUME NEW q \in Packet \ {p}, t.stage[q] # s.stage[q]
               PROVE  t.stage[q] # "parked" /\ s.stage[q] # "parked"
    OBVIOUS
  <2>1. next = {q} => s.stage[q] = "new"
    BY <1>1
  <2>2. t.stage[q] \in {"queued", "dropped"} \cup InProgress
    BY <1>3 DEF Handled
  <2>3. s.stage[q] \in {"queued", "new"}
    BY <1>3, <2>1 DEF Handled
  <2> QED
    BY <2>2, <2>3 DEF InProgress
<1>5. resuming' = resuming /\ failed_packets \in Seq(Packet) /\ s.stage[p] # "parked"
  BY <1>2 DEF IInv, ImTypeOK, ErrorHandlerIm, Runs, InProgress
<1>6. Good(t, resuming', failed_packets') /\ failed_packets' \in Seq(Packet)
  <2>1. CASE Parks(p, error)
    <3>1. failed_packets' = Append(failed_packets, p)
      BY <2>1 DEF ErrorHandlerIm, Parks
    <3>2. Distinct(failed_packets) /\ ~In(failed_packets, p) /\ ~In(resuming, p)
      BY <1>5 DEF Good, ParkedHolds
    <3>3. /\ failed_packets' \in Seq(Packet) /\ Distinct(failed_packets')
          /\ \A u \in Packet : In(failed_packets', u) <=> In(failed_packets, u) \/ u = p
      BY <1>5, <3>1, <3>2, AppendFacts
    <3>4. t.stage[p] = "parked"
      BY <1>3, <2>1 DEF Handled
    <3>5. ParkedHolds(t, resuming, failed_packets')
      BY <1>4, <3>2, <3>3, <3>4 DEF Good, ParkedHolds
    <3> QED
      BY <1>3, <1>5, <3>3, <3>5 DEF Good, Handled
  <2>2. CASE ~Parks(p, error)
    <3>1. failed_packets' = failed_packets
      BY <2>2 DEF ErrorHandlerIm, Parks
    <3>2. t.stage[p] = "answered"
      BY <1>3, <2>2 DEF Handled
    <3>3. ParkedHolds(t, resuming, failed_packets)
      BY <1>4, <1>5, <3>2, ParkedKept DEF Good
    <3> QED
      BY <1>3, <1>5, <3>1, <3>3 DEF Good, Handled
  <2> QED
    BY <2>1, <2>2
<1>7. t.is_sending_locked => start_session_is_running' /\ ~is_ping'
  BY <1>3 DEF Handled, IInv, LockedHasStarter, ErrorHandlerIm
<1>8. send.is_sending_locked => t.is_sending_locked
  BY <1>3 DEF Handled
<1>9. ASSUME send.is_sending_locked, NEW q \in Packet, t.stage[q] \in InProgress
      PROVE  send.stage[q] \in InProgress
  <2>1. CASE q = p
    BY <2>1
  <2>2. CASE q # p
    BY <1>3, <1>8, <1>9, <2>2 DEF Handled, InProgress
  <2> QED
    BY <2>1, <2>2
<1>10. session' \in 0..MaxSessions
  BY PacketAssumption DEF IInv, ImTypeOK, ErrorHandlerIm
<1>11. born' \in [Packet -> 0..MaxSessions]
  BY <1>10 DEF IInv, ImTypeOK, ErrorHandlerIm
<1>12. /\ start_session_is_running' \in BOOLEAN
       /\ is_ping' \in BOOLEAN
       /\ has_aimsid' \in BOOLEAN
       /\ resuming' \in Seq(Packet)
  BY <1>5 DEF IInv, ImTypeOK, ErrorHandlerIm
<1> QED
  BY <1>6, <1>7, <1>8, <1>9, <1>10, <1>11, <1>12

LEMMA SyncDoneStep ==
  ASSUME IInv, NEW p \in Packet, NEW error \in Error, NEW next \in FollowUps, SyncDone(p, error, next)
  PROVE  IInv' /\ NothingStarts
<1> DEFINE limited == send.rate_limited \/ error = "too_fast"
           s == [send EXCEPT !.rate_limited = limited]
           t == ErrorHandler(Erase(s, p), p, error, next)
<1>1. send \in SendThreads /\ Good(send, resuming, failed_packets) /\ send.stage[p] \in InProgress
  BY DEF IInv, Good, ThreadOK, SyncDone, InProgress
<1>2. send' = ExecutePacketFromQueue(t)
  BY DEF SyncDone
<1>3. limited \in BOOLEAN
  BY <1>1, Fields
<1> HIDE DEF limited
<1>4. /\ s \in SendThreads
      /\ s.executed_packets = send.executed_packets
      /\ s.packets_queue = send.packets_queue
      /\ s.is_sending_locked = send.is_sending_locked
      /\ s.stage = send.stage
  BY <1>1, <1>3 DEF SendThreads
<1> HIDE DEF s
<1>5. Good(s, resuming, failed_packets)
  BY <1>1, <1>4, GoodFlags
<1>6. ErrorHandlerIm(p, error, next)
  BY DEF SyncDone
<1>t. t = ErrorHandler(Erase(s, p), p, error, next)
  OBVIOUS
<1> HIDE DEF t
<1>7. /\ Good(t, resuming', failed_packets')
      /\ t.is_sending_locked => start_session_is_running' /\ ~is_ping'
      /\ send.is_sending_locked => t.is_sending_locked
      /\ send.is_sending_locked
         => \A q \in Packet : t.stage[q] \in InProgress => send.stage[q] \in InProgress
      /\ /\ born' \in [Packet -> 0..MaxSessions]
         /\ session' \in 0..MaxSessions
         /\ start_session_is_running' \in BOOLEAN
         /\ is_ping' \in BOOLEAN
         /\ has_aimsid' \in BOOLEAN
         /\ failed_packets' \in Seq(Packet)
         /\ resuming' \in Seq(Packet)
  BY <1>1, <1>4, <1>5, <1>6, <1>t, CompletionFacts
<1>8. Good(send', resuming', failed_packets') /\ MovesOn(t, send')
  BY <1>2, <1>7, GoodMovesOn, ExecuteQueueFacts DEF Good
<1>9. LockedHasStarter'
  BY <1>7, <1>8 DEF LockedHasStarter, MovesOn
<1>10. Executions(p) \in 0..SentRepeatCount
  BY DEF IInv, ImTypeOK, Executions, SentRepeatCount
<1>11. ImTypeOK'
  BY <1>7, <1>10 DEF IInv, ImTypeOK, SyncDone
<1>12. NothingStarts
  BY <1>7, <1>8 DEF NothingStarts, MovesOn, IsInProgress
<1> QED
  BY <1>8, <1>9, <1>11, <1>12 DEF IInv

LEMMA AsyncDoneStep ==
  ASSUME IInv, NEW p \in Packet, NEW error \in Error, NEW next \in FollowUps, AsyncDone(p, error, next)
  PROVE  IInv' /\ NothingStarts
<1>1. Good(send, resuming, failed_packets) /\ send.stage[p] \in InProgress
  BY DEF IInv, AsyncDone, InProgress
<1>2. send' = ErrorHandler(Erase(send, p), p, error, next) /\ ErrorHandlerIm(p, error, next)
  BY DEF AsyncDone
<1>3. /\ Good(send', resuming', failed_packets')
      /\ send'.is_sending_locked => start_session_is_running' /\ ~is_ping'
      /\ send.is_sending_locked => send'.is_sending_locked
      /\ send.is_sending_locked
         => \A q \in Packet : send'.stage[q] \in InProgress => send.stage[q] \in InProgress
      /\ /\ born' \in [Packet -> 0..MaxSessions]
         /\ session' \in 0..MaxSessions
         /\ start_session_is_running' \in BOOLEAN
         /\ is_ping' \in BOOLEAN
         /\ has_aimsid' \in BOOLEAN
         /\ failed_packets' \in Seq(Packet)
         /\ resuming' \in Seq(Packet)
  BY <1>1, <1>2, CompletionFacts
<1>4. ImTypeOK' /\ LockedHasStarter'
  BY <1>3 DEF IInv, ImTypeOK, AsyncDone, LockedHasStarter
<1>5. NothingStarts
  BY <1>3 DEF NothingStarts, IsInProgress
<1> QED
  BY <1>3, <1>4, <1>5 DEF IInv

LEMMA RateLimitExpiresStep ==
  ASSUME IInv, RateLimitExpires
  PROVE  IInv' /\ NothingStarts
<1>1. send \in SendThreads
  BY DEF IInv, Good, ThreadOK
<1>2. /\ send' \in SendThreads
      /\ send'.executed_packets = send.executed_packets
      /\ send'.packets_queue = send.packets_queue
      /\ send'.is_sending_locked = send.is_sending_locked
      /\ send'.stage = send.stage
  BY <1>1 DEF RateLimitExpires, SendThreads
<1>3. Good(send', resuming, failed_packets)
  BY <1>2, GoodFlags DEF IInv
<1>4. ImTypeOK' /\ LockedHasStarter'
  BY <1>2 DEF IInv, ImTypeOK, RateLimitExpires, LockedHasStarter
<1>5. NothingStarts
  BY <1>2 DEF NothingStarts, IsInProgress
<1> QED
  BY <1>3, <1>4, <1>5 DEF IInv, RateLimitExpires

LEMMA StartSessionStep ==
  ASSUME IInv, NEW ping \in BOOLEAN, StartSession(ping)
  PROVE  IInv' /\ NothingStarts
<1>1. ImTypeOK'
  BY PacketAssumption DEF IInv, ImTypeOK, StartSession
<1>2. CASE ping
  <2>1. send' = send /\ ~send.is_sending_locked
    BY <1>2 DEF StartSession, IInv, LockedHasStarter
  <2>2. Good(send', resuming', failed_packets')
    BY <2>1 DEF IInv, StartSession
  <2> QED
    BY <1>1, <2>1, <2>2 DEF IInv, LockedHasStarter, NothingStarts
<1>3. CASE ~ping
  <2>1. send' = Restart(send)
    BY <1>3 DEF StartSession
  <2>2. Good(send', resuming, failed_packets) /\ Restarted(send, send')
    BY <2>1, GoodRestarts, RestartFacts DEF IInv, Good
  <2>3. Good(send', resuming', failed_packets')
    BY <2>2 DEF StartSession
  <2>4. LockedHasStarter'
    BY <1>3 DEF StartSession, LockedHasStarter
  <2>5. NothingStarts
    BY <2>2 DEF NothingStarts, Restarted, IsInProgress, InProgress
  <2> QED
    BY <1>1, <2>3, <2>4, <2>5 DEF IInv
<1> QED
  BY <1>2, <1>3

\* The unlock lets the head of the queue start, and nothing else.
Unlocked(s, t) ==
  /\ ~t.is_sending_locked
  /\ t.rate_limited = s.rate_limited
  /\ \A p \in Packet : t.stage[p] # s.stage[p] =>
       /\ s.stage[p] = "queued" /\ StartsAt(s, p, t.stage[p])
       /\ s.packets_queue # <<>> /\ p = Head(s.packets_queue)

LEMMA UnlockFacts ==
  ASSUME NEW s, NEW r, NEW f, Good(s, r, f)
  PROVE  Good(UnlockAndExecuteQueued(s), r, f) /\ Unlocked(s, UnlockAndExecuteQueued(s))
<1> DEFINE t == UnlockAndExecuteQueued(s)
           u == [s EXCEPT !.is_sending_locked = FALSE]
<1>1. s \in SendThreads
  BY DEF Good, ThreadOK
<1>2. /\ u \in SendThreads
      /\ u.executed_packets = s.executed_packets
      /\ u.packets_queue = s.packets_queue
      /\ ~u.is_sending_locked
      /\ u.rate_limited = s.rate_limited
      /\ u.stage = s.stage
  BY <1>1 DEF SendThreads
<1>3. t = ExecutePacketFromQueue(u)
  BY DEF UnlockAndExecuteQueued
<1> HIDE DEF t, u
<1>4. Good(u, r, f)
  BY <1>2, GoodFlags
<1>5. Good(t, r, f) /\ MovesOn(u, t)
  BY <1>3, <1>4, GoodMovesOn, ExecuteQueueFacts DEF Good
<1> QED
  BY <1>2, <1>5 DEF MovesOn, StartsAt, Unlocked, t

LEMMA SessionStartedStep ==
  ASSUME IInv, SessionStarted
  PROVE  IInv' /\ NothingStarts
<1>1. Good(send', resuming, failed_packets) /\ ~send'.is_sending_locked
  BY UnlockFacts DEF IInv, SessionStarted, Unlocked
<1>2. ImTypeOK'
  BY DEF IInv, ImTypeOK, SessionStarted
<1> QED
  BY <1>1, <1>2 DEF IInv, LockedHasStarter, NothingStarts, SessionStarted

LEMMA SessionFailedStep ==
  ASSUME IInv, NEW ping \in BOOLEAN, SessionFailed(ping)
  PROVE  IInv' /\ NothingStarts
<1> DEFINE s == UnlockAndExecuteQueued(send)
<1>1. Good(s, resuming, failed_packets) /\ Unlocked(send, s)
  BY UnlockFacts DEF IInv
<1>2. send' = IF ping THEN s ELSE Restart(s)
  BY DEF SessionFailed
<1> HIDE DEF s
<1>3. ImTypeOK'
  BY PacketAssumption DEF IInv, ImTypeOK, SessionFailed
<1>4. CASE ping
  <2>1. send' = s
    BY <1>2, <1>4
  <2>2. Good(send', resuming', failed_packets')
    BY <1>1, <2>1 DEF SessionFailed
  <2> QED
    BY <1>1, <1>3, <2>1, <2>2 DEF IInv, LockedHasStarter, NothingStarts, Unlocked
<1>5. CASE ~ping
  <2>1. send' = Restart(s)
    BY <1>2, <1>5
  <2>2. Good(send', resuming, failed_packets) /\ Restarted(s, send')
    BY <1>1, <2>1, GoodRestarts, RestartFacts DEF Good
  <2>3. Good(send', resuming', failed_packets')
    BY <2>2 DEF SessionFailed
  <2>4. LockedHasStarter'
    BY <1>5 DEF IInv, SessionFailed, LockedHasStarter
  <2>5. session' > session
    BY <1>5 DEF IInv, ImTypeOK, SessionFailed
  <2>6. ASSUME NEW p \in Packet, send'.stage[p] \in InProgress
        PROVE  send.stage[p] \in InProgress \/ LetThrough(p)
    <3>1. s.stage[p] \in InProgress
      BY <2>2, <2>6 DEF Restarted, InProgress
    <3> QED
      BY <1>1, <2>5, <3>1 DEF Unlocked, LetThrough
  <2>7. NothingStarts
    BY <2>6 DEF NothingStarts, IsInProgress
  <2> QED
    BY <1>3, <2>3, <2>4, <2>7 DEF IInv
<1> QED
  BY <1>4, <1>5

LEMMA ResumeFailedPacketsStep ==
  ASSUME IInv, ResumeFailedPackets
  PROVE  IInv' /\ NothingStarts
<1>1. /\ resuming = <<>> /\ resuming' = failed_packets /\ failed_packets' = <<>>
      /\ send' = send
  BY DEF ResumeFailedPackets, CoreFree
<1>2. \A p \in Packet : ~In(<<>>, p)
  BY DEF In
<1>3. ParkedHolds(send', resuming', failed_packets')
  BY <1>1, <1>2 DEF IInv, Good, ParkedHolds
<1>4. ImTypeOK'
  BY <1>1 DEF IInv, ImTypeOK, ResumeFailedPackets
<1> QED
  BY <1>1, <1>3, <1>4 DEF IInv, Good, LockedHasStarter, ResumeFailedPackets, NothingStarts, IsInProgress

LEMMA ResumeOneStep ==
  ASSUME IInv, ResumeOne
  PROVE  IInv' /\ NothingStarts
<1> DEFINE p == Head(resuming)
<1>1. ThreadOK(send, {}) /\ ParkedHolds(send, resuming, failed_packets)
  BY DEF IInv, Good
<1>2. resuming \in Seq(Packet) /\ resuming # <<>> /\ Distinct(resuming)
  BY <1>1 DEF IInv, ImTypeOK, ResumeOne, ParkedHolds
<1>3. /\ p \in Packet /\ Tail(resuming) \in Seq(Packet) /\ In(resuming, p)
      /\ Distinct(Tail(resuming))
      /\ \A u \in Packet : In(Tail(resuming), u) <=> In(resuming, u) /\ u # p
  BY <1>2, TailFacts
<1>4. send.stage[p] = "parked"
  BY <1>1, <1>3 DEF ParkedHolds
<1>5. ThreadOK(send, {p}) /\ ~Runs(send, p)
  BY <1>1, <1>4 DEF ThreadOK, QueueHolds, Runs, InProgress
<1>6. send' = PostPacket(send, p) /\ resuming' = Tail(resuming)
  BY DEF ResumeOne
<1> HIDE DEF p
<1>7. Posted(send, send', p)
  BY <1>3, <1>5, <1>6, PostPacketFacts
<1>8. ParkedHolds(send', resuming', failed_packets)
  BY <1>1, <1>3, <1>6, <1>7 DEF ParkedHolds, Posted, InProgress
<1>9. Good(send', resuming', failed_packets')
  BY <1>7, <1>8 DEF IInv, Good, Posted, ResumeOne
<1>10. ImTypeOK' /\ LockedHasStarter'
  BY <1>3, <1>6, <1>7 DEF IInv, ImTypeOK, LockedHasStarter, Posted, ResumeOne
<1>11. NothingStarts
  BY <1>7 DEF NothingStarts, Posted, InProgress, IsInProgress
<1> QED
  BY <1>9, <1>10, <1>11 DEF IInv

LEMMA NextStep ==
  ASSUME IInv, [Next]_vars
  PROVE  IInv' /\ (vars' = vars \/ NothingStarts)
<1>1. CASE \E p \in Packet : Post(p) \/ Complete(p)
  <2>1. PICK p \in Packet : Post(p) \/ Complete(p)
    BY <1>1
  <2>2. CASE \E error \in Error, next \in FollowUps : SyncDone(p, error, next) \/ AsyncDone(p, error, next)
    BY <2>2, SyncDoneStep, AsyncDoneStep
  <2> QED
    BY <2>1, <2>2, PostStep, RateLimitedDoneStep, SyncRetryStep DEF Complete
<1>2. CASE \E ping \in BOOLEAN : StartSession(ping) \/ SessionFailed(ping)
  BY <1>2, StartSessionStep, SessionFailedStep
<1>3. CASE RateLimitExpires \/ SessionStarted \/ ResumeFailedPackets \/ ResumeOne
  BY <1>3, RateLimitExpiresStep, SessionStartedStep, ResumeFailedPacketsStep, ResumeOneStep
<1>4. CASE vars' = vars
  BY <1>4 DEF vars, IInv, Good, ImTypeOK, LockedHasStarter
<1> QED
  BY <1>1, <1>2, <1>3, <1>4 DEF Next

LEMMA Invariance ==
  Spec => []IInv
BY InitGood, NextStep, PTL DEF Spec

-------------------------------------------------------------------------------
(***************************************************************************)
(* The theorems.                                                           *)
(***************************************************************************)
\* The state of the send thread and of class im stays within its types.
THEOREM TypeCorrect ==
  Spec => []TypeOK
<1>1. IInv => TypeOK
  BY DEF IInv, Good, ThreadOK, ImTypeOK, TypeOK
<1> QED
  BY <1>1, Invariance, PTL

\* packets_queue_ is ordered by priority, however packets are put into it.
THEOREM QueueIsSorted ==
  Spec => []QueueSorted
<1>1. IInv => QueueSorted
  BY DEF IInv, Good, Sorted, QueueSorted, SortedBy
<1> QED
  BY <1>1, Invariance, PTL

\* Each packet that waits is in one list, once: packets_queue_, failed_packets_ or
\* what a running resume_failed_packets has yet to post.
THEOREM WaitingOnce ==
  Spec => []ListsExact
<1>1. ASSUME IInv PROVE ListsExact
  <2> DEFINE q == send.packets_queue
             rf == resuming \o failed_packets
             lists == q \o rf
  <2>1. /\ q \in Seq(Packet) /\ Distinct(q)
        /\ \A p \in Packet : In(q, p) <=> send.stage[p] = "queued"
    BY <1>1, Fields DEF IInv, Good, ThreadOK, QueueHolds
  <2>2. /\ resuming \in Seq(Packet) /\ failed_packets \in Seq(Packet)
        /\ ParkedHolds(send, resuming, failed_packets)
    BY <1>1 DEF IInv, Good, ImTypeOK
  <2>3. /\ rf \in Seq(Packet) /\ Distinct(rf)
        /\ \A p \in Packet : In(rf, p) <=> send.stage[p] = "parked"
    BY <2>2, ConcatFacts DEF ParkedHolds
  <2> HIDE DEF q, rf
  <2>4. lists \in Seq(Packet) /\ Distinct(lists)
    BY <2>1, <2>3, ConcatFacts
  <2>5. lists = send.packets_queue \o resuming \o failed_packets
    <3>1. \A a, b, c \in Seq(Packet) : (a \o b) \o c = a \o (b \o c)
      BY ConcatAssociative
    <3> QED
      BY <2>1, <2>2, <3>1, Zenon DEF q, rf
  <2>6. \A s \in Seq(Packet) : DOMAIN s = 1..Len(s) /\ ToSet(s) = {p \in Packet : In(s, p)}
    BY DEF ToSet, In
  <2>7. {p \in Packet : send.stage[p] = "queued"} = ToSet(q)
    BY <2>1, <2>6
  <2>8. ToSet(resuming) \cup ToSet(failed_packets) = {p \in Packet : send.stage[p] = "parked"}
    BY <2>2, <2>6 DEF ParkedHolds
  <2> HIDE DEF lists
  <2>9. \A i, j \in 1..Len(lists) : lists[i] = lists[j] => i = j
    BY <2>4, <2>6 DEF Distinct
  <2> QED
    BY <2>5, <2>7, <2>8, <2>9 DEF ListsExact, q
<1> QED
  BY <1>1, Invariance, PTL

\* executed_packets_ names exactly the methods that are being executed.
THEOREM ExecutedMatches ==
  Spec => []ExecutedExact
<1>1. ASSUME IInv PROVE ExecutedExact
  <2>1. send.executed_packets \subseteq Method
    BY <1>1, Fields DEF IInv, Good, ThreadOK
  <2>2. \A p \in Packet : RunsSerially(send, p) <=> IsInProgress(p) /\ ~CanRunAsync(p)
    BY DEF RunsSerially, Runs, IsInProgress
  <2>3. \A m \in Method : m \in send.executed_packets
          <=> \E p \in Packet : MethodOf[p] = m /\ IsInProgress(p) /\ ~CanRunAsync(p)
    BY <1>1, <2>2 DEF IInv, Good, ThreadOK, ExecutedHolds
  <2>4. \A p \in Packet : MethodOf[p] \in Method
    BY PacketAssumption
  <2> HIDE DEF CanRunAsync
  <2> QED
    BY <2>1, <2>3, <2>4 DEF ExecutedExact
<1> QED
  BY <1>1, Invariance, PTL

\* Two ordinary packets never run together, nor two packets of one method that
\* are not asynchronous: the serialisation wim_send_thread exists for.
THEOREM SerialExecution ==
  Spec => []ExclusiveExecution
<1>1. IInv => ExclusiveExecution
  BY DEF IInv, Good, ThreadOK, ExclusiveHolds, RunsSerially, Runs, Clash, IsInProgress, ExclusiveExecution
<1> QED
  BY <1>1, Invariance, PTL

\* A packet that waits has one place, in the order of the queue.
THEOREM WaitingIsExact == Spec => []WaitingExact
  BY QueueIsSorted, WaitingOnce, PTL DEF WaitingExact

\* executed_packets_ says what runs, and what runs excludes what it must.
THEOREM ExecutionIsExact == Spec => []ExecutionExact
  BY ExecutedMatches, SerialExecution, PTL DEF ExecutionExact

\* The lock is held only while a session that is not a ping is being started.
THEOREM LockIsReleased ==
  Spec => []LockedHasStarter
<1>1. IInv => LockedHasStarter
  BY DEF IInv
<1> QED
  BY <1>1, Invariance, PTL

\* While the lock is held nothing starts, but for the one packet that a failed
\* startSession lets through.
THEOREM LockHoldsPacketsBack ==
  Spec => NoStartWhileLocked
<1>1. vars' = vars => NothingStarts
  BY DEF vars, NothingStarts, IsInProgress
<1> QED
  BY <1>1, NextStep, Invariance, PTL DEF Spec, NoStartWhileLocked, NothingStarts

(***************************************************************************)
(* The send thread keeps the promise of PacketLedger: each of its steps is *)
(* a step of the ledger, whose status of a packet is read off the packet's *)
(* stage.                                                                  *)
(***************************************************************************)
\* Of the packets only ordinary ones execute on the worker, and they do so
\* without the rate limit: it is set by an ordinary packet that completes,
\* beside which no other ordinary packet runs.
Unlimited(s) == \A p \in Packet : s.stage[p] = "exec" => Sync(p) /\ ~s.rate_limited

Refines == IInv /\ Unlimited(send)

AtMostOneIn(S) == \A p, q \in S : p = q

\* What a step from s to t may do to packet p: D holds the packet that completes,
\* N the one that is posted, H the one that is taken from the queue or resumed;
\* `new` says that a session is replaced.
Moved(s, t, p, D, N, H, new) ==
  \/ t.stage[p] = s.stage[p] /\ (new => s.stage[p] # "queued")
  \/ new /\ s.stage[p] = "queued" /\ t.stage[p] = "dropped"
  \/ p \in H /\ s.stage[p] = "queued" /\ t.stage[p] \in InProgress
  \/ p \in H /\ ~new /\ s.stage[p] = "parked" /\ t.stage[p] \in {"queued"} \cup InProgress
  \/ p \in N /\ s.stage[p] = "new" /\ t.stage[p] \in {"queued", "dropped"} \cup InProgress
  \/ p \in D /\ s.stage[p] \in {"exec", "wire"} /\ t.stage[p] \in {"answered", "parked"}
  \/ s.stage[p] = "dummy" /\ t.stage[p] = "dropped"
  \/ s.stage[p] = "exec" /\ t.stage[p] \in {"queued", "exec", "wire"}

Step(s, t, D, N, H, new) ==
  /\ AtMostOneIn(D) /\ AtMostOneIn(N) /\ AtMostOneIn(H)
  /\ \A p \in Packet : Moved(s, t, p, D, N, H, new)

LEMMA Statuses ==
  /\ LedgerStatus["new"] = "idle" /\ LedgerStatus["queued"] = "waiting"
  /\ LedgerStatus["exec"] = "started" /\ LedgerStatus["wire"] = "started"
  /\ LedgerStatus["dummy"] = "limited" /\ LedgerStatus["parked"] = "held"
  /\ LedgerStatus["answered"] = "answered" /\ LedgerStatus["dropped"] = "lost"
BY DEF LedgerStatus

LEMMA LedgerStep ==
  ASSUME send \in SendThreads, send' \in SendThreads,
         NEW D, NEW N, NEW H, NEW new \in BOOLEAN, Step(send, send', D, N, H, new),
         IF new THEN session' = session + 1 /\ session < MaxSessions ELSE session' = session
  PROVE  Ledger!Next
<1> DEFINE a == [p \in Packet |-> LedgerStatus[send.stage[p]]]
           b == [p \in Packet |-> LedgerStatus[send'.stage[p]]]
<1>1. ASSUME NEW p \in Packet
      PROVE  /\ b[p] \in Ledger!Status
             /\ b[p] # a[p] => <<a[p], b[p]>> \in Ledger!Moves
             /\ a[p] = "started" /\ b[p] \in {"answered", "held"} => p \in D
             /\ a[p] = "idle" /\ b[p] # "idle" => p \in N
             /\ a[p] \in {"waiting", "held"} /\ b[p] \in {"started", "limited"} => p \in H
             /\ a[p] = "waiting" /\ b[p] = "lost" => new
             /\ new /\ a[p] = "waiting" => b[p] \in {"lost", "started", "limited"}
  <2>1. send.stage[p] \in Stage /\ send'.stage[p] \in Stage
    BY DEF SendThreads
  <2>2. Moved(send, send', p, D, N, H, new)
    BY DEF Step
  <2>3. a[p] = LedgerStatus[send.stage[p]] /\ b[p] = LedgerStatus[send'.stage[p]]
    OBVIOUS
  <2> HIDE DEF a, b
  <2>4. b[p] \in Ledger!Status
    BY <2>1, <2>3, Statuses DEF Stage, Ledger!Status
  <2>5. CASE send'.stage[p] = send.stage[p] /\ (new => send.stage[p] # "queued")
    BY <2>1, <2>3, <2>4, <2>5, Statuses DEF Stage
  <2>6. CASE new /\ send.stage[p] = "queued" /\ send'.stage[p] = "dropped"
    BY <2>3, <2>4, <2>6, Statuses DEF Ledger!Moves
  <2>7. CASE p \in H /\ send.stage[p] = "queued" /\ send'.stage[p] \in InProgress
    BY <2>3, <2>4, <2>7, Statuses DEF Ledger!Moves, InProgress
  <2>8. CASE p \in H /\ ~new /\ send.stage[p] = "parked" /\ send'.stage[p] \in {"queued"} \cup InProgress
    BY <2>3, <2>4, <2>8, Statuses DEF Ledger!Moves, InProgress
  <2>9. CASE p \in N /\ send.stage[p] = "new" /\ send'.stage[p] \in {"queued", "dropped"} \cup InProgress
    BY <2>3, <2>4, <2>9, Statuses DEF Ledger!Moves, InProgress
  <2>10. CASE p \in D /\ send.stage[p] \in {"exec", "wire"} /\ send'.stage[p] \in {"answered", "parked"}
    BY <2>3, <2>4, <2>10, Statuses DEF Ledger!Moves
  <2>11. CASE send.stage[p] = "dummy" /\ send'.stage[p] = "dropped"
    BY <2>3, <2>4, <2>11, Statuses DEF Ledger!Moves
  <2>12. CASE send.stage[p] = "exec" /\ send'.stage[p] \in {"queued", "exec", "wire"}
    BY <2>3, <2>4, <2>12, Statuses DEF Ledger!Moves
  <2> QED
    BY <2>2, <2>5, <2>6, <2>7, <2>8, <2>9, <2>10, <2>11, <2>12 DEF Moved
<1>2. b \in [Packet -> Ledger!Status]
  BY <1>1
<1>3. a = [p \in Packet |-> LedgerStatus[send.stage[p]]] /\ b = [p \in Packet |-> LedgerStatus[send'.stage[p]]]
  OBVIOUS
<1> HIDE DEF a, b
<1>4. AtMostOneIn(D) /\ AtMostOneIn(N) /\ AtMostOneIn(H)
  BY DEF Step
<1>5. /\ \A p, q \in Packet : a[p] = "started" /\ b[p] \in {"answered", "held"}
                              /\ a[q] = "started" /\ b[q] \in {"answered", "held"} => p = q
      /\ \A p, q \in Packet : a[p] = "idle" /\ b[p] # "idle" /\ a[q] = "idle" /\ b[q] # "idle" => p = q
      /\ \A p, q \in Packet : a[p] \in {"waiting", "held"} /\ b[p] \in {"started", "limited"}
                              /\ a[q] \in {"waiting", "held"} /\ b[q] \in {"started", "limited"} => p = q
  BY <1>1, <1>4 DEF AtMostOneIn
<1>6. \/ session' = session /\ \A p \in Packet : a[p] = "waiting" => b[p] # "lost"
      \/ session' = session + 1 /\ session < MaxSessions
         /\ \A p \in Packet : a[p] = "waiting" => b[p] \in {"lost", "started", "limited"}
  BY <1>1
<1> QED
  BY <1>1, <1>2, <1>3, <1>5, <1>6 DEF Ledger!Next, Ledger!AtMostOne, Ledger!Status

-------------------------------------------------------------------------------
LEMMA UnlimitedKept ==
  ASSUME NEW s, NEW t, Unlimited(s), t.rate_limited = s.rate_limited,
         \A p \in Packet : t.stage[p] = "exec" => s.stage[p] = "exec" \/ StartsAt(s, p, t.stage[p])
  PROVE  Unlimited(t)
BY DEF Unlimited, StartsAt

LEMMA Known ==
  ASSUME Refines
  PROVE  /\ IInv /\ Unlimited(send) /\ Good(send, resuming, failed_packets) /\ ThreadOK(send, {})
         /\ send \in SendThreads /\ send.stage \in [Packet -> Stage]
BY Fields DEF Refines, IInv, Good, ThreadOK

LEMMA PostRefines ==
  ASSUME Refines, send' \in SendThreads, NEW p \in Packet, Post(p)
  PROVE  Unlimited(send') /\ Ledger!Next
<1>1. /\ Unlimited(send) /\ ThreadOK(send, {}) /\ send \in SendThreads
      /\ send.stage \in [Packet -> Stage] /\ send.stage[p] = "new" /\ session' = session
  BY Known DEF Post
<1>2. /\ send'.rate_limited = send.rate_limited
      /\ \A q \in Packet \ {p} : send'.stage[q] = send.stage[q]
      /\ \/ send'.stage[p] = "dropped"
         \/ send'.stage[p] = "queued"
         \/ send'.stage[p] \in InProgress /\ StartsAt(send, p, send'.stage[p])
  <2>1. CASE has_aimsid
    <3>1. ThreadOK(send, {p}) /\ ~Runs(send, p)
      BY <1>1 DEF ThreadOK, QueueHolds, Runs, InProgress
    <3>2. Posted(send, send', p)
      BY <2>1, <3>1, PostPacketFacts DEF Post
    <3> QED
      BY <3>2 DEF Posted
  <2>2. CASE ~has_aimsid
    <3>1. send' = To(send, p, "dropped")
      BY <2>2 DEF Post
    <3> QED
      BY <1>1, <3>1 DEF To, SendThreads
  <2> QED
    BY <2>1, <2>2
<1>3. Unlimited(send')
  BY <1>1, <1>2, UnlimitedKept
<1>4. Step(send, send', {}, {p}, {}, FALSE)
  BY <1>1, <1>2 DEF Step, Moved, AtMostOneIn
<1> QED
  BY <1>1, <1>3, <1>4, LedgerStep

LEMMA RateLimitedDoneRefines ==
  ASSUME Refines, send' \in SendThreads, NEW p \in Packet, RateLimitedDone(p)
  PROVE  Unlimited(send') /\ Ledger!Next
<1>1. /\ Unlimited(send) /\ ThreadOK(send, {}) /\ send \in SendThreads
      /\ send.stage \in [Packet -> Stage] /\ send.stage[p] = "dummy" /\ session' = session
  BY Known DEF RateLimitedDone
<1> DEFINE u == To(Erase(send, p), p, "dropped")
<1>2. send' = ExecutePacketFromQueue(u)
  BY <1>1 DEF RateLimitedDone, Erase, To, SendThreads
<1>3. Runs(send, p)
  BY <1>1 DEF Runs, InProgress
<1>4. Ended(send, u, p, "dropped")
  BY <1>1, <1>3, EndedFacts
<1> HIDE DEF u
<1>5. MovesOn(u, send')
  BY <1>2, <1>4, ExecuteQueueFacts DEF Ended
<1>6. u.stage[p] = "dropped" /\ \A q \in Packet \ {p} : u.stage[q] = send.stage[q]
  BY <1>1, <1>4 DEF Ended
<1>7. u.rate_limited = send.rate_limited /\ send'.rate_limited = send.rate_limited
  BY <1>4, <1>5 DEF Ended, MovesOn
<1>8. Unlimited(u)
  BY <1>1, <1>6, <1>7, UnlimitedKept
<1>9. Unlimited(send')
  BY <1>5, <1>7, <1>8, UnlimitedKept DEF MovesOn
<1> DEFINE h == Head(u.packets_queue)
<1> HIDE DEF h
<1>10. \A q \in Packet : send'.stage[q] # u.stage[q] =>
         u.stage[q] = "queued" /\ send'.stage[q] \in InProgress /\ q = h
  BY <1>5 DEF MovesOn, h
<1>11. Step(send, send', {}, {}, {h}, FALSE)
  BY <1>1, <1>6, <1>10 DEF Step, Moved, AtMostOneIn
<1> QED
  BY <1>1, <1>9, <1>11, LedgerStep

LEMMA SyncRetryRefines ==
  ASSUME Refines, send' \in SendThreads, NEW p \in Packet, SyncRetry(p)
  PROVE  Unlimited(send') /\ Ledger!Next
<1>1. /\ Unlimited(send) /\ ThreadOK(send, {}) /\ send \in SendThreads
      /\ send.stage \in [Packet -> Stage] /\ send.stage[p] = "exec" /\ session' = session
  BY Known DEF SyncRetry
<1> DEFINE u == Erase(InsertPacketInQueue(send, p), p)
<1>2. send' = ExecutePacketFromQueue(u)
  BY DEF SyncRetry
<1>3. Runs(send, p)
  BY <1>1 DEF Runs, InProgress
<1>4. Retried(send, u, p)
  BY <1>1, <1>3, RetriedFacts
<1> HIDE DEF u
<1>5. MovesOn(u, send')
  BY <1>2, <1>4, ExecuteQueueFacts DEF Retried
<1>6. u.stage[p] = "queued" /\ \A q \in Packet \ {p} : u.stage[q] = send.stage[q]
  BY <1>1, <1>4 DEF Retried, Stage
<1>7. u.rate_limited = send.rate_limited /\ send'.rate_limited = send.rate_limited
  BY <1>4, <1>5 DEF Retried, MovesOn
<1>8. Unlimited(u)
  BY <1>1, <1>6, <1>7, UnlimitedKept
<1>9. Unlimited(send')
  BY <1>5, <1>7, <1>8, UnlimitedKept DEF MovesOn
<1>10. send'.stage[p] \in {"queued", "exec", "wire"}
  <2>1. ~u.rate_limited
    BY <1>1, <1>7 DEF Unlimited
  <2> QED
    BY <1>5, <1>6, <2>1 DEF MovesOn, StartsAt, InProgress
<1> DEFINE h == Head(u.packets_queue)
<1> HIDE DEF h
<1>11. \A q \in Packet : send'.stage[q] # u.stage[q] =>
         u.stage[q] = "queued" /\ send'.stage[q] \in InProgress /\ q = h
  BY <1>5 DEF MovesOn, h
<1>12. Step(send, send', {}, {}, {h}, FALSE)
  BY <1>1, <1>6, <1>10, <1>11 DEF Step, Moved, AtMostOneIn
<1> QED
  BY <1>1, <1>9, <1>12, LedgerStep

LEMMA SyncDoneRefines ==
  ASSUME Refines, send' \in SendThreads, NEW p \in Packet, NEW error \in Error, NEW next \in FollowUps,
         SyncDone(p, error, next)
  PROVE  Unlimited(send') /\ Ledger!Next
<1> DEFINE limited == send.rate_limited \/ error = "too_fast"
           s == [send EXCEPT !.rate_limited = limited]
           t == ErrorHandler(Erase(s, p), p, error, next)
<1>1. /\ Unlimited(send) /\ ThreadOK(send, {}) /\ send \in SendThreads
      /\ Good(send, resuming, failed_packets)
      /\ send.stage \in [Packet -> Stage] /\ send.stage[p] = "exec"
  BY Known DEF SyncDone
<1>2. send' = ExecutePacketFromQueue(t)
  BY DEF SyncDone
<1>3. limited \in BOOLEAN
  BY <1>1, Fields
<1> HIDE DEF limited
<1>4. /\ s \in SendThreads
      /\ s.executed_packets = send.executed_packets
      /\ s.packets_queue = send.packets_queue
      /\ s.is_sending_locked = send.is_sending_locked
      /\ s.rate_limited = limited
      /\ s.stage = send.stage
  BY <1>1, <1>3 DEF SendThreads
<1> HIDE DEF s
<1>5. ThreadOK(s, {}) /\ Runs(s, p)
  BY <1>1, <1>4, GoodFlags DEF Good, Runs, InProgress
<1>6. next = {} \/ \E n \in Packet : next = {n} /\ s.stage[n] = "new"
  BY <1>4 DEF FollowUps
<1>7. Handled(s, t, p, error, next)
  BY <1>5, <1>6, ErrorHandlerFacts
<1> HIDE DEF t
<1>8. MovesOn(t, send')
  BY <1>2, <1>7, ExecuteQueueFacts DEF Handled
<1>9. \A q \in Packet \ {p} : send.stage[q] # "exec"
  <2> SUFFICES ASSUME NEW q \in Packet, send.stage[q] = "exec" PROVE q = p
    OBVIOUS
  <2>1. Sync(p) /\ Sync(q)
    BY <1>1 DEF Unlimited
  <2>2. RunsSerially(send, p) /\ RunsSerially(send, q)
    BY <1>1, <2>1 DEF RunsSerially, Runs, InProgress, Sync
  <2> QED
    BY <1>1, <2>1, <2>2 DEF ThreadOK, ExclusiveHolds, Clash
<1>10. t.stage[p] \in {"parked", "answered"}
  BY <1>7 DEF Handled
<1>11. Unlimited(t)
  <2> SUFFICES ASSUME NEW q \in Packet, t.stage[q] = "exec" PROVE Sync(q) /\ ~t.rate_limited
    BY DEF Unlimited
  <2>1. q # p /\ t.stage[q] # s.stage[q]
    BY <1>4, <1>9, <1>10
  <2> QED
    BY <1>7, <2>1 DEF Handled, StartsAt
<1>12. Unlimited(send')
  BY <1>8, <1>11, UnlimitedKept DEF MovesOn
<1> DEFINE h == Head(t.packets_queue)
<1> HIDE DEF h
<1>13. \A q \in Packet : send'.stage[q] # t.stage[q] =>
         t.stage[q] = "queued" /\ send'.stage[q] \in InProgress /\ q = h /\ ~t.is_sending_locked
  BY <1>8 DEF MovesOn, h
<1>14. AtMostOneIn(next) /\ \A q \in Packet : q \in next => next = {q} /\ send.stage[q] = "new"
  BY <1>4, <1>6 DEF AtMostOneIn
<1>15. CASE Relogin(error)
  <2>1. t.is_sending_locked
    BY <1>7, <1>15 DEF Handled
  <2>2. \A q \in Packet : send'.stage[q] = t.stage[q]
    BY <1>13, <2>1
  <2>3. ASSUME NEW q \in Packet \ {p} PROVE Moved(send, send', q, {p}, next, {h}, TRUE)
    <3>1. CASE t.stage[q] = s.stage[q]
      BY <1>4, <1>7, <1>15, <2>2, <3>1 DEF Handled, Moved
    <3>2. CASE t.stage[q] # s.stage[q]
      BY <1>4, <1>7, <1>14, <1>15, <2>2, <3>2 DEF Handled, Moved
    <3> QED
      BY <3>1, <3>2
  <2>4. Moved(send, send', p, {p}, next, {h}, TRUE)
    BY <1>1, <1>10, <2>2 DEF Moved
  <2>5. Step(send, send', {p}, next, {h}, TRUE)
    BY <1>14, <2>3, <2>4 DEF Step, AtMostOneIn
  <2>6. session' = session + 1 /\ session < MaxSessions
    BY <1>15 DEF SyncDone, ErrorHandlerIm
  <2> QED
    BY <1>1, <1>12, <2>5, <2>6, LedgerStep
<1>16. CASE ~Relogin(error)
  <2>1. ASSUME NEW q \in Packet \ {p} PROVE Moved(send, send', q, {p}, next, {h}, FALSE)
    <3>1. \/ t.stage[q] = send.stage[q]
          \/ q \in next /\ send.stage[q] = "new" /\ t.stage[q] \in {"queued"} \cup InProgress
      BY <1>4, <1>7, <1>14, <1>16 DEF Handled
    <3>2. \/ send'.stage[q] = t.stage[q]
          \/ t.stage[q] = "queued" /\ send'.stage[q] \in InProgress /\ q = h
      BY <1>13
    <3> QED
      BY <3>1, <3>2 DEF Moved
  <2>2. Moved(send, send', p, {p}, next, {h}, FALSE)
    BY <1>1, <1>10, <1>13 DEF Moved
  <2>3. Step(send, send', {p}, next, {h}, FALSE)
    BY <1>14, <2>1, <2>2 DEF Step, AtMostOneIn
  <2>4. session' = session
    BY <1>16 DEF SyncDone, ErrorHandlerIm
  <2> QED
    BY <1>1, <1>12, <2>3, <2>4, LedgerStep
<1> QED
  BY <1>15, <1>16

LEMMA AsyncDoneRefines ==
  ASSUME Refines, send' \in SendThreads, NEW p \in Packet, NEW error \in Error, NEW next \in FollowUps,
         AsyncDone(p, error, next)
  PROVE  Unlimited(send') /\ Ledger!Next
<1>1. /\ Unlimited(send) /\ ThreadOK(send, {}) /\ send \in SendThreads
      /\ send.stage \in [Packet -> Stage] /\ send.stage[p] = "wire" /\ Runs(send, p)
  BY Known DEF AsyncDone, Runs, InProgress
<1>2. next = {} \/ \E n \in Packet : next = {n} /\ send.stage[n] = "new"
  BY DEF FollowUps
<1>3. Handled(send, send', p, error, next)
  BY <1>1, <1>2, ErrorHandlerFacts DEF AsyncDone
<1>4. AtMostOneIn(next) /\ \A q \in Packet : q \in next => next = {q} /\ send.stage[q] = "new"
  BY <1>2 DEF AtMostOneIn
<1>5. send'.stage[p] \in {"parked", "answered"}
  BY <1>3 DEF Handled
<1>6. Unlimited(send')
  <2>1. \A q \in Packet : send'.stage[q] = "exec" =>
          send.stage[q] = "exec" \/ StartsAt(send, q, send'.stage[q])
    BY <1>3, <1>5 DEF Handled
  <2> QED
    BY <1>1, <1>3, <2>1, UnlimitedKept DEF Handled
<1>7. ASSUME NEW q \in Packet \ {p} PROVE Moved(send, send', q, {p}, next, {}, Relogin(error))
  <2>1. CASE send'.stage[q] = send.stage[q]
    BY <1>3, <2>1 DEF Handled, Moved
  <2>2. CASE send'.stage[q] # send.stage[q]
    BY <1>3, <1>4, <2>2 DEF Handled, Moved
  <2> QED
    BY <2>1, <2>2
<1>8. Moved(send, send', p, {p}, next, {}, Relogin(error))
  BY <1>1, <1>5 DEF Moved
<1>9. Step(send, send', {p}, next, {}, Relogin(error))
  BY <1>4, <1>7, <1>8 DEF Step, AtMostOneIn
<1>10. IF Relogin(error) THEN session' = session + 1 /\ session < MaxSessions ELSE session' = session
  BY DEF AsyncDone, ErrorHandlerIm
<1>11. Relogin(error) \in BOOLEAN
  BY DEF Relogin
<1> QED
  BY <1>1, <1>6, <1>9, <1>10, <1>11, LedgerStep

LEMMA RateLimitExpiresRefines ==
  ASSUME Refines, send' \in SendThreads, RateLimitExpires
  PROVE  Unlimited(send') /\ Ledger!Next
<1>1. Unlimited(send) /\ send \in SendThreads /\ session' = session /\ RateLimitExpires
  BY Known DEF RateLimitExpires
<1>2. send'.stage = send.stage /\ ~send'.rate_limited
  BY <1>1 DEF RateLimitExpires, SendThreads
<1>3. Unlimited(send')
  BY <1>1, <1>2 DEF Unlimited
<1>4. Step(send, send', {}, {}, {}, FALSE)
  BY <1>2 DEF Step, Moved, AtMostOneIn
<1> QED
  BY <1>1, <1>3, <1>4, LedgerStep

LEMMA StartSessionRefines ==
  ASSUME Refines, send' \in SendThreads, NEW ping \in BOOLEAN, StartSession(ping)
  PROVE  Unlimited(send') /\ Ledger!Next
<1>1. Unlimited(send) /\ send \in SendThreads /\ ThreadOK(send, {})
  BY Known
<1>2. CASE ping
  <2>1. send' = send /\ session' = session
    BY <1>2 DEF StartSession
  <2>2. Step(send, send', {}, {}, {}, FALSE)
    BY <2>1 DEF Step, Moved, AtMostOneIn
  <2> QED
    BY <1>1, <2>1, <2>2, LedgerStep
<1>3. CASE ~ping
  <2>1. send' = Restart(send) /\ session' = session + 1 /\ session < MaxSessions
    BY <1>3 DEF StartSession
  <2>2. Restarted(send, send')
    BY <1>1, <2>1, RestartFacts
  <2>3. Unlimited(send')
    BY <1>1, <2>2, UnlimitedKept DEF Restarted
  <2>4. Step(send, send', {}, {}, {}, TRUE)
    BY <2>2 DEF Step, Moved, AtMostOneIn, Restarted
  <2> QED
    BY <1>1, <2>1, <2>3, <2>4, LedgerStep
<1> QED
  BY <1>2, <1>3

\* What the unlock of a finished startSession does, before a repeat.
LEMMA UnlockMoves ==
  ASSUME Refines, NEW s, s = UnlockAndExecuteQueued(send)
  PROVE  /\ Unlimited(s) /\ ThreadOK(s, {})
         /\ \E h : \A q \in Packet : s.stage[q] # send.stage[q] =>
              send.stage[q] = "queued" /\ s.stage[q] \in InProgress /\ q = h
<1>1. Unlimited(send) /\ Good(send, resuming, failed_packets)
  BY Known
<1>2. Good(s, resuming, failed_packets) /\ Unlocked(send, s)
  BY <1>1, UnlockFacts
<1>3. Unlimited(s)
  BY <1>1, <1>2, UnlimitedKept DEF Unlocked
<1> DEFINE h == Head(send.packets_queue)
<1> HIDE DEF h
<1>4. \A q \in Packet : s.stage[q] # send.stage[q] =>
        send.stage[q] = "queued" /\ s.stage[q] \in InProgress /\ q = h
  BY <1>2 DEF Unlocked, StartsAt, h
<1> QED
  BY <1>2, <1>3, <1>4 DEF Good

LEMMA SessionStartedRefines ==
  ASSUME Refines, send' \in SendThreads, SessionStarted
  PROVE  Unlimited(send') /\ Ledger!Next
<1>1. send' = UnlockAndExecuteQueued(send) /\ session' = session
  BY DEF SessionStarted
<1>2. PICK h : \A q \in Packet : send'.stage[q] # send.stage[q] =>
                 send.stage[q] = "queued" /\ send'.stage[q] \in InProgress /\ q = h
  BY <1>1, UnlockMoves
<1>3. Unlimited(send') /\ send \in SendThreads
  BY <1>1, UnlockMoves, Known
<1>4. Step(send, send', {}, {}, {h}, FALSE)
  BY <1>2 DEF Step, Moved, AtMostOneIn
<1> QED
  BY <1>1, <1>3, <1>4, LedgerStep

LEMMA SessionFailedRefines ==
  ASSUME Refines, send' \in SendThreads, NEW ping \in BOOLEAN, SessionFailed(ping)
  PROVE  Unlimited(send') /\ Ledger!Next
<1> DEFINE s == UnlockAndExecuteQueued(send)
<1>1. Unlimited(s) /\ ThreadOK(s, {}) /\ send \in SendThreads
  BY UnlockMoves, Known
<1>2. PICK h : \A q \in Packet : s.stage[q] # send.stage[q] =>
                 send.stage[q] = "queued" /\ s.stage[q] \in InProgress /\ q = h
  BY UnlockMoves
<1>3. send' = IF ping THEN s ELSE Restart(s)
  BY DEF SessionFailed
<1> HIDE DEF s
<1>4. CASE ping
  <2>1. send' = s /\ session' = session
    BY <1>3, <1>4 DEF SessionFailed
  <2>2. Step(send, send', {}, {}, {h}, FALSE)
    BY <1>2, <2>1 DEF Step, Moved, AtMostOneIn
  <2> QED
    BY <1>1, <2>1, <2>2, LedgerStep
<1>5. CASE ~ping
  <2>1. send' = Restart(s) /\ session' = session + 1 /\ session < MaxSessions
    BY <1>3, <1>5 DEF SessionFailed
  <2>2. Restarted(s, send')
    BY <1>1, <2>1, RestartFacts
  <2>3. Unlimited(send')
    BY <1>1, <2>2, UnlimitedKept DEF Restarted
  <2>4. \A q \in Packet : Moved(send, send', q, {}, {}, {h}, TRUE)
    BY <1>2, <2>2 DEF Moved, Restarted, InProgress
  <2>5. Step(send, send', {}, {}, {h}, TRUE)
    BY <2>4 DEF Step, AtMostOneIn
  <2> QED
    BY <1>1, <2>1, <2>3, <2>5, LedgerStep
<1> QED
  BY <1>4, <1>5

LEMMA ResumeFailedPacketsRefines ==
  ASSUME Refines, send' \in SendThreads, ResumeFailedPackets
  PROVE  Unlimited(send') /\ Ledger!Next
<1>1. send' = send /\ session' = session /\ Unlimited(send) /\ send \in SendThreads
  BY Known DEF ResumeFailedPackets
<1>2. Step(send, send', {}, {}, {}, FALSE)
  BY <1>1 DEF Step, Moved, AtMostOneIn
<1> QED
  BY <1>1, <1>2, LedgerStep

LEMMA ResumeOneRefines ==
  ASSUME Refines, send' \in SendThreads, ResumeOne
  PROVE  Unlimited(send') /\ Ledger!Next
<1> DEFINE p == Head(resuming)
<1>1. /\ Unlimited(send) /\ ThreadOK(send, {}) /\ send \in SendThreads
      /\ ParkedHolds(send, resuming, failed_packets)
  BY Known DEF Good
<1>2. resuming \in Seq(Packet) /\ resuming # <<>> /\ session' = session
  BY DEF Refines, IInv, ImTypeOK, ResumeOne
<1>3. p \in Packet /\ In(resuming, p)
  BY <1>1, <1>2, TailFacts DEF ParkedHolds
<1>4. send' = PostPacket(send, p)
  BY DEF ResumeOne
<1> HIDE DEF p
<1>5. send.stage[p] = "parked"
  BY <1>1, <1>3 DEF ParkedHolds
<1>6. ThreadOK(send, {p}) /\ ~Runs(send, p)
  BY <1>1, <1>5 DEF ThreadOK, QueueHolds, Runs, InProgress
<1>7. Posted(send, send', p)
  BY <1>3, <1>4, <1>6, PostPacketFacts
<1>8. Unlimited(send')
  BY <1>1, <1>3, <1>7, UnlimitedKept DEF Posted
<1>9. Step(send, send', {}, {}, {p}, FALSE)
  BY <1>5, <1>7 DEF Step, Moved, AtMostOneIn, Posted
<1> QED
  BY <1>1, <1>2, <1>8, <1>9, LedgerStep

LEMMA NextRefines ==
  ASSUME Refines, [Next]_vars
  PROVE  Refines' /\ [Ledger!Next]_(Ledger!vars)
<1>1. IInv' /\ send' \in SendThreads
  BY NextStep DEF Refines, IInv, Good, ThreadOK
<1>2. CASE \E p \in Packet : Post(p) \/ Complete(p)
  <2>1. PICK p \in Packet : Post(p) \/ Complete(p)
    BY <1>2
  <2>2. CASE \E error \in Error, next \in FollowUps : SyncDone(p, error, next) \/ AsyncDone(p, error, next)
    BY <1>1, <2>2, SyncDoneRefines, AsyncDoneRefines DEF Refines
  <2> QED
    BY <1>1, <2>1, <2>2, PostRefines, RateLimitedDoneRefines, SyncRetryRefines DEF Complete, Refines
<1>3. CASE \E ping \in BOOLEAN : StartSession(ping) \/ SessionFailed(ping)
  BY <1>1, <1>3, StartSessionRefines, SessionFailedRefines DEF Refines
<1>4. CASE RateLimitExpires \/ SessionStarted \/ ResumeFailedPackets \/ ResumeOne
  BY <1>1, <1>4, RateLimitExpiresRefines, SessionStartedRefines, ResumeFailedPacketsRefines,
     ResumeOneRefines DEF Refines
<1>5. CASE vars' = vars
  BY <1>1, <1>5 DEF vars, Refines, Unlimited, Ledger!vars
<1> QED
  BY <1>2, <1>3, <1>4, <1>5 DEF Next

LEMMA InitRefines ==
  Init => Refines /\ Ledger!Init
<1> SUFFICES ASSUME Init PROVE Refines /\ Ledger!Init
  OBVIOUS
<1>1. send.stage = [p \in Packet |-> "new"] /\ session = 0
  BY DEF Init
<1>2. Unlimited(send)
  BY <1>1 DEF Unlimited
<1>3. Ledger!Init
  BY <1>1, Statuses DEF Ledger!Init
<1> QED
  BY <1>2, <1>3, InitGood DEF Refines

\* The send thread implements PacketLedger: its callers are answered at most once,
\* a packet that waits is lost only with its session, one that was started only by
\* the rate limit, and one that is held for a resend never.
THEOREM ImplementsLedger ==
  Spec => LedgerSpec
BY InitRefines, NextRefines, PTL DEF Spec, LedgerSpec, Ledger!Spec

-------------------------------------------------------------------------------
(***************************************************************************)
(* The queue stalls only after an asynchronous completion: whoever looks   *)
(* at it leaves it locked, or empty, or something running, for what keeps  *)
(* a packet in the queue of an unlocked thread is a packet that runs.      *)
(***************************************************************************)
Stalls(s) ==
  s.packets_queue # <<>> /\ ~s.is_sending_locked /\ \A p \in Packet : ~Runs(s, p)

LEMMA StallsIs == (Stalled <=> Stalls(send)) /\ (Stalled' <=> Stalls(send'))
BY DEF Stalled, Stalls, IsInProgress, Runs

LEMMA SomeoneRuns ==
  ASSUME NEW s \in SendThreads, ExecutedHolds(s), NEW p \in Packet, PacketExecuted(s, p)
  PROVE  \E q \in Packet : Runs(s, q)
<1>1. MethodOf[p] \in Method /\ s.executed_packets \subseteq Method
  BY Fields, PacketAssumption
<1>2. \E m \in Method : m \in s.executed_packets
  BY <1>1 DEF PacketExecuted
<1> QED
  BY <1>2 DEF ExecutedHolds, RunsSerially

LEMMA PostedMoves ==
  ASSUME NEW s, NEW p \in Packet, ThreadOK(s, {p}), ~Runs(s, p), NEW t, t = PostPacket(s, p)
  PROVE  ~Stalls(t)
<1>1. Posted(s, t, p)
  BY PostPacketFacts
<1>2. CASE s.is_sending_locked
  BY <1>1, <1>2 DEF Posted, Stalls
<1>3. CASE ~s.is_sending_locked /\ PacketExecuted(s, p) /\ ~CanRunAsync(p)
  <2>1. PICK q \in Packet : Runs(s, q)
    BY <1>3, SomeoneRuns DEF ThreadOK
  <2>2. Runs(t, q)
    BY <1>1, <2>1 DEF Posted, Runs
  <2> QED
    BY <2>2 DEF Stalls
<1>4. CASE ~(s.is_sending_locked \/ (PacketExecuted(s, p) /\ ~CanRunAsync(p)))
  <2>1. t = StartPacket(s, p)
    BY <1>4 DEF PostPacket
  <2>0. s \in SendThreads
    BY DEF ThreadOK
  <2>2. \E where \in InProgress : t.stage = [s.stage EXCEPT ![p] = where] /\ StartsAt(s, p, where)
    BY <2>0, <2>1, StartFacts
  <2>3. s.stage \in [Packet -> Stage]
    BY Fields DEF ThreadOK
  <2>4. Runs(t, p)
    BY <2>2, <2>3 DEF Runs
  <2> QED
    BY <2>4 DEF Stalls
<1> QED
  BY <1>2, <1>3, <1>4

\* The head that execute_packet_from_queue pops, and the thread it is posted to.
Popped(s, u) ==
  /\ s.packets_queue # <<>> /\ ~s.is_sending_locked
  /\ u = [s EXCEPT !.packets_queue = Tail(s.packets_queue)]
  /\ u.packets_queue = Tail(s.packets_queue)
  /\ Head(s.packets_queue) \in Packet
  /\ ThreadOK(u, {Head(s.packets_queue)}) /\ ~Runs(u, Head(s.packets_queue))

LEMMA PopFacts ==
  ASSUME NEW s, ThreadOK(s, {})
  PROVE  \/ /\ s.packets_queue = <<>> \/ s.is_sending_locked
            /\ ExecutePacketFromQueue(s) = s
         \/ \E u : Popped(s, u) /\ ExecutePacketFromQueue(s) = PostPacket(u, Head(s.packets_queue))
<1>1. s \in SendThreads /\ QueueHolds(s, {}) /\ ExecutedHolds(s) /\ ExclusiveHolds(s)
  BY DEF ThreadOK
<1>2. s.packets_queue \in Seq(Packet)
  BY <1>1, Fields
<1>3. CASE ~(s.packets_queue # <<>> /\ ~s.is_sending_locked)
  BY <1>3 DEF ExecutePacketFromQueue
<1>4. CASE s.packets_queue # <<>> /\ ~s.is_sending_locked
  <2> DEFINE p == Head(s.packets_queue)
             r == Tail(s.packets_queue)
             u == [s EXCEPT !.packets_queue = r]
  <2>1. ExecutePacketFromQueue(s) = PostPacket(u, p)
    BY <1>4 DEF ExecutePacketFromQueue
  <2>2. /\ p \in Packet /\ r \in Seq(Packet) /\ In(s.packets_queue, p) /\ Distinct(r)
        /\ \A q \in Packet : In(r, q) <=> In(s.packets_queue, q) /\ q # p
    BY <1>1, <1>2, <1>4, TailFacts DEF QueueHolds
  <2>3. /\ u \in SendThreads /\ u.packets_queue = r
        /\ u.executed_packets = s.executed_packets
        /\ u.stage = s.stage
    BY <1>1, <2>2 DEF SendThreads
  <2>4. QueueHolds(u, {p})
    BY <1>1, <2>2, <2>3 DEF QueueHolds
  <2>5. \A q \in Packet : Runs(u, q) <=> Runs(s, q)
    BY <2>3 DEF Runs
  <2>6. ExecutedHolds(u) /\ ExclusiveHolds(u)
    BY <1>1, <2>3, <2>5, ExecutionKept
  <2>7. ~Runs(u, p)
    BY <1>1, <2>2, <2>3 DEF QueueHolds, Runs, InProgress
  <2>8. Popped(s, u)
    BY <1>4, <2>2, <2>3, <2>4, <2>6, <2>7 DEF Popped, ThreadOK
  <2> HIDE DEF u
  <2> QED
    BY <2>1, <2>8
<1> QED
  BY <1>3, <1>4

LEMMA QueueMoves ==
  ASSUME NEW s, ThreadOK(s, {})
  PROVE  ~Stalls(ExecutePacketFromQueue(s))
<1>1. CASE (s.packets_queue = <<>> \/ s.is_sending_locked) /\ ExecutePacketFromQueue(s) = s
  BY <1>1 DEF Stalls
<1>2. ASSUME NEW u, Popped(s, u), ExecutePacketFromQueue(s) = PostPacket(u, Head(s.packets_queue))
      PROVE  ~Stalls(ExecutePacketFromQueue(s))
  BY <1>2, PostedMoves DEF Popped
<1> QED
  BY <1>1, <1>2, PopFacts

LEMMA UnlockMovesOn ==
  ASSUME NEW s, NEW r, NEW f, Good(s, r, f)
  PROVE  ~Stalls(UnlockAndExecuteQueued(s))
<1> DEFINE u == [s EXCEPT !.is_sending_locked = FALSE]
<1>1. /\ u \in SendThreads
      /\ u.executed_packets = s.executed_packets
      /\ u.packets_queue = s.packets_queue
      /\ u.stage = s.stage
  BY DEF Good, ThreadOK, SendThreads
<1>2. UnlockAndExecuteQueued(s) = ExecutePacketFromQueue(u)
  BY DEF UnlockAndExecuteQueued
<1> HIDE DEF u
<1>3. ThreadOK(u, {})
  BY <1>1, GoodFlags DEF Good
<1> QED
  BY <1>2, <1>3, QueueMoves

\* What StallOnlyAfterAsync says of one step.
AsyncEnds == \E p \in Packet : send.stage[p] = "wire" /\ send'.stage[p] # "wire"
StallsByAsync == ~Stalls(send) /\ Stalls(send') => AsyncEnds

\* What leaves the queue, the lock and who runs as they are leaves it moving.
LEMMA SameStall ==
  ASSUME NEW s, NEW t, t.packets_queue = s.packets_queue,
         t.is_sending_locked = s.is_sending_locked,
         \A p \in Packet : Runs(t, p) <=> Runs(s, p)
  PROVE  Stalls(t) <=> Stalls(s)
BY DEF Stalls

LEMMA PostStalls ==
  ASSUME IInv, NEW p \in Packet, Post(p)
  PROVE  ~Stalls(send) => ~Stalls(send')
<1>1. ThreadOK(send, {}) /\ send \in SendThreads /\ send.stage[p] = "new"
  BY DEF IInv, Good, ThreadOK, Post
<1>2. send.stage \in [Packet -> Stage]
  BY <1>1, Fields
<1>3. CASE has_aimsid
  <2>1. ThreadOK(send, {p}) /\ ~Runs(send, p)
    BY <1>1 DEF ThreadOK, QueueHolds, Runs, InProgress
  <2>2. send' = PostPacket(send, p)
    BY <1>3 DEF Post
  <2> QED
    BY <2>1, <2>2, PostedMoves
<1>4. CASE ~has_aimsid
  <2> DEFINE g == [send.stage EXCEPT ![p] = "dropped"]
  <2>1. send' = [send EXCEPT !.stage = g]
    BY <1>1, <1>4 DEF Post, To, SendThreads
  <2>2. g[p] = "dropped" /\ \A q \in Packet \ {p} : g[q] = send.stage[q]
    BY <1>2
  <2> HIDE DEF g
  <2>3. /\ send'.stage = g
        /\ send'.packets_queue = send.packets_queue
        /\ send'.is_sending_locked = send.is_sending_locked
    BY <1>1, <2>1 DEF SendThreads
  <2>4. \A q \in Packet : Runs(send', q) <=> Runs(send, q)
    BY <1>1, <2>2, <2>3 DEF Runs, InProgress
  <2> QED
    BY <2>3, <2>4, SameStall
<1> QED
  BY <1>3, <1>4

LEMMA RateLimitedDoneStalls ==
  ASSUME IInv, NEW p \in Packet, RateLimitedDone(p)
  PROVE  ~Stalls(send')
<1>1. ThreadOK(send, {}) /\ Runs(send, p)
  BY DEF IInv, Good, RateLimitedDone, Runs, InProgress
<1> DEFINE u == To(Erase(send, p), p, "dropped")
<1>2. send \in SendThreads
  BY <1>1 DEF ThreadOK
<1>3. send' = ExecutePacketFromQueue(u)
  BY <1>2 DEF RateLimitedDone, Erase, To, SendThreads
<1>4. Ended(send, u, p, "dropped")
  BY <1>1, EndedFacts
<1> HIDE DEF u
<1> QED
  BY <1>3, <1>4, QueueMoves DEF Ended

LEMMA SyncRetryStalls ==
  ASSUME IInv, NEW p \in Packet, SyncRetry(p)
  PROVE  ~Stalls(send')
<1>1. ThreadOK(send, {}) /\ Runs(send, p)
  BY DEF IInv, Good, SyncRetry, Runs, InProgress
<1> DEFINE u == Erase(InsertPacketInQueue(send, p), p)
<1>2. send' = ExecutePacketFromQueue(u)
  BY DEF SyncRetry
<1>3. Retried(send, u, p)
  BY <1>1, RetriedFacts
<1> HIDE DEF u
<1> QED
  BY <1>2, <1>3, QueueMoves DEF Retried

LEMMA SyncDoneStalls ==
  ASSUME IInv, NEW p \in Packet, NEW error \in Error, NEW next \in FollowUps, SyncDone(p, error, next)
  PROVE  ~Stalls(send')
<1> DEFINE limited == send.rate_limited \/ error = "too_fast"
           s == [send EXCEPT !.rate_limited = limited]
           t == ErrorHandler(Erase(s, p), p, error, next)
<1>1. send \in SendThreads /\ Good(send, resuming, failed_packets) /\ send.stage[p] \in InProgress
  BY DEF IInv, Good, ThreadOK, SyncDone, InProgress
<1>2. send' = ExecutePacketFromQueue(t)
  BY DEF SyncDone
<1>3. limited \in BOOLEAN
  BY <1>1, Fields
<1> HIDE DEF limited
<1>4. /\ s \in SendThreads
      /\ s.executed_packets = send.executed_packets
      /\ s.packets_queue = send.packets_queue
      /\ s.stage = send.stage
  BY <1>1, <1>3 DEF SendThreads
<1> HIDE DEF s
<1>5. Good(s, resuming, failed_packets)
  BY <1>1, <1>4, GoodFlags
<1>6. ThreadOK(s, {}) /\ Runs(s, p)
  BY <1>1, <1>4, <1>5 DEF Good, Runs
<1>7. next = {} \/ \E n \in Packet : next = {n} /\ s.stage[n] = "new"
  BY <1>4 DEF FollowUps
<1>t. t = ErrorHandler(Erase(s, p), p, error, next)
  OBVIOUS
<1> HIDE DEF t
<1>8. Handled(s, t, p, error, next)
  BY <1>6, <1>7, <1>t, ErrorHandlerFacts
<1> QED
  BY <1>2, <1>8, QueueMoves DEF Handled

LEMMA AsyncDoneStalls ==
  ASSUME IInv, NEW p \in Packet, NEW error \in Error, NEW next \in FollowUps, AsyncDone(p, error, next)
  PROVE  AsyncEnds
<1>1. ThreadOK(send, {}) /\ Runs(send, p) /\ send.stage[p] = "wire"
  BY DEF IInv, Good, AsyncDone, Runs, InProgress
<1>2. send' = ErrorHandler(Erase(send, p), p, error, next)
  BY DEF AsyncDone
<1>3. next = {} \/ \E n \in Packet : next = {n} /\ send.stage[n] = "new"
  BY DEF FollowUps
<1>4. Handled(send, send', p, error, next)
  BY <1>1, <1>2, <1>3, ErrorHandlerFacts
<1>5. send'.stage[p] # "wire"
  BY <1>4 DEF Handled
<1> QED
  BY <1>1, <1>5 DEF AsyncEnds

LEMMA ResumeOneStalls ==
  ASSUME IInv, ResumeOne
  PROVE  ~Stalls(send')
<1> DEFINE p == Head(resuming)
<1>1. ThreadOK(send, {}) /\ ParkedHolds(send, resuming, failed_packets)
  BY DEF IInv, Good
<1>2. resuming \in Seq(Packet) /\ resuming # <<>> /\ Distinct(resuming)
  BY <1>1 DEF IInv, ImTypeOK, ResumeOne, ParkedHolds
<1>3. p \in Packet /\ In(resuming, p)
  BY <1>2, TailFacts
<1>4. send.stage[p] = "parked"
  BY <1>1, <1>3 DEF ParkedHolds
<1>5. ThreadOK(send, {p}) /\ ~Runs(send, p)
  BY <1>1, <1>4 DEF ThreadOK, QueueHolds, Runs, InProgress
<1>6. send' = PostPacket(send, p)
  BY DEF ResumeOne
<1> HIDE DEF p
<1> QED
  BY <1>3, <1>5, <1>6, PostedMoves

LEMMA SessionStalls ==
  ASSUME IInv, NEW ping \in BOOLEAN, StartSession(ping) \/ SessionFailed(ping) \/ SessionStarted
  PROVE  ~Stalls(send) => ~Stalls(send')
<1>1. Good(send, resuming, failed_packets)
  BY DEF IInv
<1>2. CASE StartSession(ping) /\ ping
  BY <1>2 DEF StartSession
<1>3. CASE StartSession(ping) /\ ~ping
  <2>1. Restarted(send, send')
    BY <1>1, <1>3, RestartFacts DEF StartSession, Good
  <2> QED
    BY <2>1 DEF Restarted, Stalls
<1>4. CASE SessionStarted \/ (SessionFailed(ping) /\ ping)
  BY <1>1, <1>4, UnlockMovesOn DEF SessionStarted, SessionFailed
<1>5. CASE SessionFailed(ping) /\ ~ping
  <2> DEFINE s == UnlockAndExecuteQueued(send)
  <2>1. Good(s, resuming, failed_packets)
    BY <1>1, UnlockFacts
  <2>2. send' = Restart(s)
    BY <1>5 DEF SessionFailed
  <2> HIDE DEF s
  <2>3. Restarted(s, send')
    BY <2>1, <2>2, RestartFacts DEF Good
  <2> QED
    BY <2>3 DEF Restarted, Stalls
<1> QED
  BY <1>2, <1>3, <1>4, <1>5

LEMMA FlagStalls ==
  ASSUME IInv, RateLimitExpires \/ ResumeFailedPackets \/ vars' = vars
  PROVE  ~Stalls(send) => ~Stalls(send')
<1>1. send \in SendThreads
  BY DEF IInv, Good, ThreadOK
<1>2. CASE RateLimitExpires
  <2>1. /\ send'.packets_queue = send.packets_queue
        /\ send'.is_sending_locked = send.is_sending_locked
        /\ send'.stage = send.stage
    BY <1>1, <1>2 DEF RateLimitExpires, SendThreads
  <2>2. \A p \in Packet : Runs(send', p) <=> Runs(send, p)
    BY <2>1 DEF Runs
  <2> QED
    BY <2>1, <2>2, SameStall
<1>3. CASE ResumeFailedPackets \/ vars' = vars
  BY <1>3 DEF ResumeFailedPackets, vars
<1> QED
  BY <1>2, <1>3

LEMMA NextStalls ==
  ASSUME IInv, [Next]_vars
  PROVE  StallsByAsync
<1>1. CASE \E p \in Packet : Post(p) \/ Complete(p)
  <2>1. PICK p \in Packet : Post(p) \/ Complete(p)
    BY <1>1
  <2>2. CASE \E error \in Error, next \in FollowUps : SyncDone(p, error, next) \/ AsyncDone(p, error, next)
    BY <2>2, SyncDoneStalls, AsyncDoneStalls DEF StallsByAsync
  <2> QED
    BY <2>1, <2>2, PostStalls, RateLimitedDoneStalls, SyncRetryStalls DEF Complete, StallsByAsync
<1>2. CASE \E ping \in BOOLEAN : StartSession(ping) \/ SessionFailed(ping)
  BY <1>2, SessionStalls DEF StallsByAsync
<1>3. CASE SessionStarted \/ ResumeOne
  BY <1>3, SessionStalls, ResumeOneStalls DEF StallsByAsync
<1>4. CASE RateLimitExpires \/ ResumeFailedPackets \/ vars' = vars
  BY <1>4, FlagStalls DEF StallsByAsync
<1> QED
  BY <1>1, <1>2, <1>3, <1>4 DEF Next

\* The queue comes to a halt, with packets waiting, the thread unlocked and
\* nothing running, only by the completion of an asynchronous packet, which does
\* not look at it.
THEOREM StallsOnlyAfterAsync ==
  Spec => StallOnlyAfterAsync
<1>1. IInv /\ [Next]_vars => (~Stalled /\ Stalled' => \E p \in Packet : send.stage[p] = "wire" /\ send'.stage[p] # "wire")
  BY NextStalls, StallsIs DEF StallsByAsync, AsyncEnds
<1> QED
  BY <1>1, Invariance, PTL DEF Spec, StallOnlyAfterAsync

-------------------------------------------------------------------------------
(***************************************************************************)
(* The order of equals.  A change of the queue from q to r is steady when  *)
(* whoever is in q has no new equal before it, and whoever comes first was *)
(* first before or is new: an insertion and a restart are.  Then the head  *)
(* may be popped and put back, which moves no one but the head.            *)
(***************************************************************************)
Before(q, x, y) == \E i, j \in DOMAIN q : i < j /\ q[i] = x /\ q[j] = y

Steady(q, r) ==
  /\ \A x, y \in Packet : Before(r, x, y) /\ Priority[x] = Priority[y] /\ In(q, y) => Before(q, x, y)
  /\ r # <<>> => (In(q, r[1]) => r[1] = q[1])

OrderKept(q, r) ==
  \A x, y \in Packet :
    Before(r, x, y) /\ Priority[x] = Priority[y] /\ In(q, y) => y = q[1] \/ Before(q, x, y)

LEMMA SteadyOrder == \A q, r : Steady(q, r) => OrderKept(q, r)
BY DEF Steady, OrderKept

LEMMA SteadySame == \A q : Steady(q, q) /\ Steady(q, <<>>)
<1>1. \A x, y : ~Before(<<>>, x, y)
  BY DEF Before
<1> QED
  BY <1>1 DEF Steady

LEMMA InsertSteady ==
  ASSUME NEW q \in Seq(Packet), Sorted(q), NEW p \in Packet, ~In(q, p),
         NEW r, r = InsertAt(q, PlaceIn(Priority, q, p), p)
  PROVE  Steady(q, r)
<1> DEFINE at == PlaceIn(Priority, q, p)
<1>1. /\ at \in 1..(Len(q) + 1)
      /\ at <= Len(q) => Priority[p] < Priority[q[at]]
  BY PacketAssumption, InsertPlace
<1>r. r = InsertAt(q, at, p)
  OBVIOUS
<1> HIDE DEF at
<1>2. Shifted(Packet, q, at, p, r)
  BY <1>1, <1>r, InsertMoves
<1>3. /\ r \in Seq(Packet) /\ Len(r) = Len(q) + 1 /\ r[at] = p
      /\ \A i \in 1..Len(r) : i < at => i \in 1..Len(q) /\ r[i] = q[i]
      /\ \A i \in 1..Len(r) : i > at => i - 1 \in 1..Len(q) /\ r[i] = q[i - 1]
  BY <1>2 DEF Shifted
<1>4. /\ DOMAIN r = 1..Len(r) /\ DOMAIN q = 1..Len(q) /\ Len(q) \in Nat /\ Len(r) \in Nat
      /\ at \in Int /\ at >= 1 /\ at <= Len(q) + 1
  BY <1>1, <1>3
<1>5. ASSUME NEW i \in 1..Len(r), NEW j \in 1..Len(r), i < j, In(q, r[j]),
             Priority[r[i]] = Priority[r[j]]
      PROVE  Before(q, r[i], r[j])
  <2>1. i \in Int /\ j \in Int /\ j # at
    BY <1>3, <1>5
  <2>2. CASE j < at
    <3>1. i \in DOMAIN q /\ j \in DOMAIN q /\ r[i] = q[i] /\ r[j] = q[j]
      BY <1>3, <1>4, <1>5, <2>1, <2>2
    <3> QED
      BY <1>5, <3>1 DEF Before
  <2>3. CASE j > at /\ i < at
    <3>1. i \in DOMAIN q /\ j - 1 \in DOMAIN q /\ r[i] = q[i] /\ r[j] = q[j - 1] /\ i < j - 1
      BY <1>3, <1>4, <1>5, <2>1, <2>3
    <3> QED
      BY <3>1 DEF Before
  <2>4. CASE j > at /\ i > at
    <3>1. i - 1 \in DOMAIN q /\ j - 1 \in DOMAIN q /\ r[i] = q[i - 1] /\ r[j] = q[j - 1] /\ i - 1 < j - 1
      BY <1>3, <1>4, <1>5, <2>1, <2>4
    <3> QED
      BY <3>1 DEF Before
  <2>5. CASE j > at /\ i = at
    <3>1. j - 1 \in 1..Len(q) /\ r[j] = q[j - 1] /\ at \in 1..Len(q) /\ at <= j - 1
      BY <1>3, <1>4, <1>5, <2>1, <2>5
    <3>2. at < j - 1 \/ at = j - 1
      BY <2>1, <1>4, <3>1
    <3>3. /\ Priority[p] \in Nat /\ Priority[q[at]] \in Nat /\ Priority[q[j - 1]] \in Nat
      BY <3>1, PacketAssumption
    <3>4. Priority[q[at]] <= Priority[q[j - 1]]
      BY <3>1, <3>2, <3>3 DEF Sorted, SortedBy
    <3>5. Priority[p] < Priority[q[at]]
      BY <1>1, <1>4, <3>1
    <3>6. Priority[p] = Priority[q[j - 1]]
      BY <1>3, <1>5, <2>5, <3>1
    <3> QED
      BY <3>3, <3>4, <3>5, <3>6
  <2> QED
    BY <1>4, <2>1, <2>2, <2>3, <2>4, <2>5
<1>6. ASSUME NEW x \in Packet, NEW y \in Packet, Before(r, x, y), Priority[x] = Priority[y], In(q, y)
      PROVE  Before(q, x, y)
  BY <1>4, <1>5, <1>6 DEF Before
<1>7. In(q, r[1]) => r[1] = q[1]
  <2>1. CASE at = 1
    BY <1>3, <2>1
  <2>2. CASE at > 1
    BY <1>3, <1>4, <2>2
  <2> QED
    BY <1>4, <2>1, <2>2
<1> QED
  BY <1>6, <1>7 DEF Steady

\* A queue that was dropped, and one new packet in it.
LEMMA InsertAloneSteady ==
  ASSUME NEW q, NEW p \in Packet, ~In(q, p),
         NEW r, r = InsertAt(<<>>, PlaceIn(Priority, <<>>, p), p)
  PROVE  Steady(q, r)
<1> DEFINE e == <<>>
           at == PlaceIn(Priority, e, p)
<1>1. e \in Seq(Packet) /\ Len(e) = 0
  OBVIOUS
<1>r. r = InsertAt(e, at, p)
  OBVIOUS
<1> HIDE DEF e
<1>a. at \in 1..(Len(e) + 1)
  BY <1>1, PacketAssumption, InsertPlace
<1> HIDE DEF at
<1>2. Shifted(Packet, e, at, p, r)
  BY <1>1, <1>a, <1>r, InsertMoves
<1>3. r \in Seq(Packet) /\ Len(r) = 1 /\ r[1] = p
  BY <1>1, <1>a, <1>2 DEF Shifted
<1>4. \A i, j \in DOMAIN r : ~(i < j)
  BY <1>3
<1>5. \A x, y : ~Before(r, x, y)
  BY <1>4 DEF Before
<1> QED
  BY <1>3, <1>5 DEF Steady

LEMMA InsertedQueue ==
  ASSUME NEW s \in SendThreads, NEW p \in Packet
  PROVE  InsertPacketInQueue(s, p).packets_queue
         = InsertAt(s.packets_queue, PlaceIn(Priority, s.packets_queue, p), p)
<1> DEFINE r == InsertAt(s.packets_queue, PlaceIn(Priority, s.packets_queue, p), p)
           f == [s.stage EXCEPT ![p] = "queued"]
<1>1. InsertPacketInQueue(s, p) = [s EXCEPT !.stage = f, !.packets_queue = r]
  BY DEF InsertPacketInQueue, To, SendThreads, PlaceIn, LaterIn
<1> HIDE DEF r, f
<1>2. InsertPacketInQueue(s, p).packets_queue = r
  BY <1>1 DEF SendThreads
<1> QED
  BY <1>2 DEF r

\* A packet is posted, and the queue may have been dropped before.
LEMMA PostedSteady ==
  ASSUME NEW q, NEW s, NEW p \in Packet, ThreadOK(s, {p}), Sorted(s.packets_queue),
         s.packets_queue = q \/ s.packets_queue = <<>>, ~In(q, p),
         NEW t, t = PostPacket(s, p)
  PROVE  Steady(q, t.packets_queue)
<1>1. s \in SendThreads
  BY DEF ThreadOK
<1>2. s.packets_queue \in Seq(Packet)
  BY <1>1, Fields
<1>3. CASE t = InsertPacketInQueue(s, p)
  <2>1. t.packets_queue = InsertAt(s.packets_queue, PlaceIn(Priority, s.packets_queue, p), p)
    BY <1>1, <1>3, InsertedQueue
  <2>2. CASE s.packets_queue = q
    BY <1>2, <2>1, <2>2, InsertSteady
  <2>3. CASE s.packets_queue = <<>>
    BY <2>1, <2>3, InsertAloneSteady
  <2> QED
    BY <2>2, <2>3
<1>4. CASE t = StartPacket(s, p)
  <2>1. t.packets_queue = s.packets_queue
    BY <1>1, <1>4, StartFacts
  <2> QED
    BY <2>1, SteadySame
<1> QED
  BY <1>3, <1>4 DEF PostPacket

\* The head is popped and put back: it moves, and no one else.
LEMMA ExecuteKeepsOrder ==
  ASSUME NEW q, NEW s, ThreadOK(s, {}), Sorted(s.packets_queue), Steady(q, s.packets_queue)
  PROVE  OrderKept(q, ExecutePacketFromQueue(s).packets_queue)
<1> DEFINE r == s.packets_queue
<1>1. s \in SendThreads /\ Distinct(r)
  BY DEF ThreadOK, QueueHolds
<1>2. r \in Seq(Packet)
  BY <1>1, Fields
<1> HIDE DEF r
<1>3. CASE ExecutePacketFromQueue(s) = s
  BY <1>3, SteadyOrder DEF r
<1>4. ASSUME NEW u, Popped(s, u), ExecutePacketFromQueue(s) = PostPacket(u, Head(r))
      PROVE  OrderKept(q, ExecutePacketFromQueue(s).packets_queue)
  <2> DEFINE p == Head(r)
             t == PostPacket(u, p)
             v == t.packets_queue
             w == Tail(r)
  <2>1. r # <<>> /\ p \in Packet /\ ThreadOK(u, {p}) /\ ~Runs(u, p) /\ u.packets_queue = w
    BY <1>4 DEF Popped, r
  <2>2. /\ p = r[1] /\ 1 \in DOMAIN r
        /\ w \in Seq(Packet) /\ Len(w) = Len(r) - 1 /\ Len(r) \in Nat
        /\ DOMAIN w = 1..Len(w) /\ DOMAIN r = 1..Len(r)
        /\ \A i \in DOMAIN w : i + 1 \in DOMAIN r /\ w[i] = r[i + 1]
    BY <1>2, <2>1
  <2>3. \A x \in Packet : In(w, x) <=> In(r, x) /\ x # p
    BY <1>1, <1>2, <2>1, TailFacts
  <2> HIDE DEF p, w
  <2>t. t = PostPacket(u, p)
    OBVIOUS
  <2> HIDE DEF t
  <2>4. ASSUME NEW x, NEW y, Before(w, x, y) PROVE Before(r, x, y) /\ In(w, x) /\ In(w, y)
    <3>1. PICK i \in DOMAIN w, j \in DOMAIN w : i < j /\ w[i] = x /\ w[j] = y
      BY <2>4 DEF Before
    <3>2. i + 1 \in DOMAIN r /\ j + 1 \in DOMAIN r /\ i + 1 < j + 1 /\ r[i + 1] = x /\ r[j + 1] = y
      BY <2>2, <3>1
    <3> QED
      BY <3>1, <3>2 DEF Before, In
  <2>5. Sorted(w)
    <3>1. SUFFICES ASSUME NEW i \in 1..Len(w), NEW j \in 1..Len(w), i < j
                   PROVE  Priority[w[i]] <= Priority[w[j]]
      BY DEF Sorted, SortedBy
    <3>2. i \in DOMAIN w /\ j \in DOMAIN w /\ i + 1 < j + 1
      BY <2>2, <3>1
    <3>3. /\ i + 1 \in 1..Len(r) /\ j + 1 \in 1..Len(r)
          /\ w[i] = r[i + 1] /\ w[j] = r[j + 1]
      BY <2>2, <3>2
    <3> QED
      BY <3>2, <3>3 DEF Sorted, SortedBy, r
  <2>6. Steady(w, v)
    BY <2>1, <2>3, <2>5, <2>t, PostedSteady
  <2>7. Posted(u, t, p)
    BY <2>1, <2>t, PostPacketFacts
  <2>8. ASSUME NEW y \in Packet, In(v, y), y # p PROVE In(w, y)
    <3>1. t.stage[y] = u.stage[y] /\ t.stage[y] = "queued"
      BY <2>7, <2>8 DEF Posted, ThreadOK, QueueHolds
    <3> QED
      BY <2>1, <2>8, <3>1 DEF ThreadOK, QueueHolds
  <2>9. ASSUME NEW x \in Packet, NEW y \in Packet, Before(v, x, y), Priority[x] = Priority[y],
               In(q, y), y # q[1]
        PROVE  Before(q, x, y)
    <3>1. y # p
      BY <2>1, <2>2, <2>9 DEF Steady, r
    <3>2. In(w, y)
      BY <2>8, <2>9, <3>1 DEF Before, In
    <3>3. Before(w, x, y)
      BY <2>6, <2>9, <3>2 DEF Steady
    <3>4. Before(r, x, y)
      BY <2>4, <3>3
    <3> QED
      BY <2>9, <3>4 DEF Steady, r
  <2>10. OrderKept(q, v)
    BY <2>9 DEF OrderKept
  <2> QED
    BY <1>4, <2>10 DEF t, p
<1> QED
  BY <1>3, <1>4, PopFacts DEF r

\* EqualsKeepTheirOrder says the same with places in the queue.
LEMMA OrderIs ==
  ASSUME NEW q \in Seq(Packet), Distinct(q), NEW r \in Seq(Packet), OrderKept(q, r)
  PROVE  LET At(p) == CHOOSE i \in DOMAIN q : q[i] = p
         IN \A k, l \in DOMAIN r :
              /\ k < l /\ Priority[r[k]] = Priority[r[l]]
              /\ r[l] \in ToSet(q)
              => At(r[l]) = 1 \/ (r[k] \in ToSet(q) /\ At(r[k]) < At(r[l]))
<1> DEFINE At(p) == CHOOSE i \in DOMAIN q : q[i] = p
<1>1. ASSUME NEW i \in DOMAIN q PROVE At(q[i]) = i
  BY <1>1 DEF Distinct
<1>2. ToSet(q) = {q[i] : i \in DOMAIN q}
  BY DEF ToSet
<1> HIDE DEF At
<1>3. ASSUME NEW k \in DOMAIN r, NEW l \in DOMAIN r, k < l, Priority[r[k]] = Priority[r[l]],
             r[l] \in ToSet(q)
      PROVE  At(r[l]) = 1 \/ (r[k] \in ToSet(q) /\ At(r[k]) < At(r[l]))
  <2> DEFINE x == r[k]
             y == r[l]
  <2>1. x \in Packet /\ y \in Packet /\ Before(r, x, y) /\ In(q, y)
    BY <1>2, <1>3 DEF Before, In
  <2>2. y = q[1] \/ Before(q, x, y)
    BY <1>3, <2>1 DEF OrderKept
  <2>3. 1 \in DOMAIN q
    <3>1. DOMAIN q = 1..Len(q) /\ Len(q) \in Nat
      OBVIOUS
    <3>2. PICK i \in DOMAIN q : q[i] = y
      BY <2>1 DEF In
    <3> QED
      BY <3>1, <3>2
  <2> HIDE DEF x, y
  <2>4. CASE y = q[1]
    <3>1. At(y) = 1
      BY <1>1, <2>3, <2>4
    <3> QED
      BY <3>1 DEF y
  <2>5. CASE Before(q, x, y)
    <3>1. PICK i \in DOMAIN q, j \in DOMAIN q : i < j /\ q[i] = x /\ q[j] = y
      BY <2>5 DEF Before
    <3>2. At(x) = i /\ At(y) = j /\ x \in ToSet(q)
      BY <1>1, <1>2, <3>1
    <3> QED
      BY <3>1, <3>2 DEF x, y
  <2> QED
    BY <2>2, <2>4, <2>5
<1> QED
  BY <1>3 DEF At

\* The error handler drops the queue or leaves it, and may post one packet.
LEMMA ErrorHandlerSteady ==
  ASSUME NEW s, ThreadOK(s, {}), Sorted(s.packets_queue), NEW p \in Packet, Runs(s, p), NEW error,
         NEW next, next = {} \/ \E n \in Packet : next = {n} /\ s.stage[n] = "new",
         NEW t, t = ErrorHandler(Erase(s, p), p, error, next)
  PROVE  Steady(s.packets_queue, t.packets_queue)
<1> DEFINE where == IF Parks(p, error) THEN "parked" ELSE "answered"
           u == To(Erase(s, p), p, where)
           v == IF Relogin(error) THEN Restart(u) ELSE u
           q == s.packets_queue
<1>1. s \in SendThreads /\ where \in {"answered", "parked", "dropped"}
  BY DEF ThreadOK
<1>2. t = IF Parks(p, error) \/ next = {} \/ ~has_aimsid THEN v
          ELSE PostPacket(v, CHOOSE n \in next : TRUE)
  BY <1>1, RestartAfterEnd DEF ErrorHandler, Parks
<1>3. v = IF Relogin(error) THEN Restart(To(Erase(s, p), p, where)) ELSE To(Erase(s, p), p, where)
  OBVIOUS
<1> HIDE DEF where
<1>4. Ended(s, u, p, where)
  BY <1>1, EndedFacts
<1> HIDE DEF u, v
<1>5. EndedRestarted(s, v, p, where, Relogin(error))
  BY <1>1, <1>3, EndedRestartFacts
<1>6. v.packets_queue = q \/ v.packets_queue = <<>>
  <2>1. CASE Relogin(error)
    <3>1. Restarted(u, v)
      BY <1>4, <2>1, RestartFacts DEF Ended, v
    <3> QED
      BY <3>1 DEF Restarted
  <2>2. CASE ~Relogin(error)
    BY <1>4, <2>2 DEF Ended, v
  <2> QED
    BY <2>1, <2>2
<1>7. CASE Parks(p, error) \/ next = {} \/ ~has_aimsid
  BY <1>2, <1>6, <1>7, SteadySame
<1>8. CASE ~(Parks(p, error) \/ next = {} \/ ~has_aimsid)
  <2>1. PICK n \in Packet : next = {n} /\ s.stage[n] = "new"
    BY <1>8
  <2>2. t = PostPacket(v, n)
    BY <1>2, <1>8, <2>1
  <2>3. n # p /\ v.stage[n] = "new"
    BY <1>5, <2>1 DEF InProgress, EndedRestarted, Runs
  <2>4. ThreadOK(v, {n})
    BY <1>5, <2>3 DEF EndedRestarted, ThreadOK, QueueHolds
  <2>5. ~In(q, n)
    BY <2>1 DEF ThreadOK, QueueHolds
  <2>6. Sorted(v.packets_queue)
    BY <1>5 DEF EndedRestarted
  <2> QED
    BY <1>6, <2>2, <2>4, <2>5, <2>6, PostedSteady
<1> QED
  BY <1>7, <1>8

\* What EqualsKeepTheirOrder says of one step.
KeepsOrder == OrderKept(send.packets_queue, send'.packets_queue)

LEMMA OneQueue ==
  ASSUME IInv
  PROVE  ThreadOK(send, {}) /\ Sorted(send.packets_queue) /\ send \in SendThreads
BY DEF IInv, Good, ThreadOK

LEMMA PostOrder ==
  ASSUME IInv, NEW p \in Packet, Post(p)
  PROVE  KeepsOrder
<1>1. ThreadOK(send, {}) /\ Sorted(send.packets_queue) /\ send \in SendThreads /\ send.stage[p] = "new"
  BY OneQueue DEF Post
<1> DEFINE q == send.packets_queue
<1>2. CASE has_aimsid
  <2>1. ThreadOK(send, {p}) /\ ~In(q, p)
    BY <1>1 DEF ThreadOK, QueueHolds
  <2>2. send' = PostPacket(send, p)
    BY <1>2 DEF Post
  <2>3. Steady(send.packets_queue, send'.packets_queue)
    BY <1>1, <2>1, <2>2, PostedSteady
  <2> QED
    BY <2>3, SteadyOrder DEF KeepsOrder
<1>3. CASE ~has_aimsid
  <2>1. send'.packets_queue = send.packets_queue
    BY <1>1, <1>3 DEF Post, To, SendThreads
  <2> QED
    BY <2>1, SteadySame, SteadyOrder DEF KeepsOrder
<1> QED
  BY <1>2, <1>3

LEMMA RateLimitedDoneOrder ==
  ASSUME IInv, NEW p \in Packet, RateLimitedDone(p)
  PROVE  KeepsOrder
<1>1. ThreadOK(send, {}) /\ Sorted(send.packets_queue) /\ send \in SendThreads /\ Runs(send, p)
  BY OneQueue DEF RateLimitedDone, Runs, InProgress
<1> DEFINE u == To(Erase(send, p), p, "dropped")
<1>2. send' = ExecutePacketFromQueue(u)
  BY <1>1 DEF RateLimitedDone, Erase, To, SendThreads
<1>3. Ended(send, u, p, "dropped")
  BY <1>1, EndedFacts
<1> HIDE DEF u
<1>4. ThreadOK(u, {}) /\ Sorted(u.packets_queue) /\ Steady(send.packets_queue, u.packets_queue)
  BY <1>1, <1>3, SteadySame DEF Ended
<1> QED
  BY <1>2, <1>4, ExecuteKeepsOrder DEF KeepsOrder

LEMMA SyncRetryOrder ==
  ASSUME IInv, NEW p \in Packet, SyncRetry(p)
  PROVE  KeepsOrder
<1>1. ThreadOK(send, {}) /\ Sorted(send.packets_queue) /\ send \in SendThreads /\ Runs(send, p)
  BY OneQueue DEF SyncRetry, Runs, InProgress
<1> DEFINE i == InsertPacketInQueue(send, p)
           u == Erase(i, p)
           q == send.packets_queue
<1>2. send' = ExecutePacketFromQueue(u)
  BY DEF SyncRetry
<1>3. Retried(send, u, p)
  BY <1>1, RetriedFacts
<1>4. q \in Seq(Packet) /\ ~In(q, p) /\ QueueHolds(send, {p})
  BY <1>1, Fields DEF ThreadOK, QueueHolds, Runs, InProgress
<1>5. i \in SendThreads
  BY <1>1, <1>4, InsertFacts
<1>6. i.packets_queue = InsertAt(q, PlaceIn(Priority, q, p), p)
  BY <1>1, InsertedQueue
<1> HIDE DEF i
<1>7. u.packets_queue = i.packets_queue
  BY <1>5 DEF Erase, SendThreads
<1> HIDE DEF u
<1>8. Steady(q, u.packets_queue)
  BY <1>1, <1>4, <1>6, <1>7, InsertSteady
<1>9. ThreadOK(u, {}) /\ Sorted(u.packets_queue)
  BY <1>1, <1>3 DEF Retried
<1> QED
  BY <1>2, <1>8, <1>9, ExecuteKeepsOrder DEF KeepsOrder

LEMMA SyncDoneOrder ==
  ASSUME IInv, NEW p \in Packet, NEW error \in Error, NEW next \in FollowUps, SyncDone(p, error, next)
  PROVE  KeepsOrder
<1> DEFINE limited == send.rate_limited \/ error = "too_fast"
           s == [send EXCEPT !.rate_limited = limited]
           t == ErrorHandler(Erase(s, p), p, error, next)
<1>1. send \in SendThreads /\ Good(send, resuming, failed_packets) /\ send.stage[p] \in InProgress
  BY DEF IInv, Good, ThreadOK, SyncDone, InProgress
<1>2. send' = ExecutePacketFromQueue(t)
  BY DEF SyncDone
<1>3. limited \in BOOLEAN
  BY <1>1, Fields
<1> HIDE DEF limited
<1>4. /\ s \in SendThreads
      /\ s.executed_packets = send.executed_packets
      /\ s.packets_queue = send.packets_queue
      /\ s.stage = send.stage
  BY <1>1, <1>3 DEF SendThreads
<1> HIDE DEF s
<1>5. Good(s, resuming, failed_packets)
  BY <1>1, <1>4, GoodFlags
<1>6. ThreadOK(s, {}) /\ Runs(s, p) /\ Sorted(s.packets_queue)
  BY <1>1, <1>4, <1>5 DEF Good, Runs
<1>7. next = {} \/ \E n \in Packet : next = {n} /\ s.stage[n] = "new"
  BY <1>4 DEF FollowUps
<1>t. t = ErrorHandler(Erase(s, p), p, error, next)
  OBVIOUS
<1> HIDE DEF t
<1>8. Handled(s, t, p, error, next)
  BY <1>6, <1>7, <1>t, ErrorHandlerFacts
<1>9. Steady(send.packets_queue, t.packets_queue)
  BY <1>4, <1>6, <1>7, <1>t, ErrorHandlerSteady
<1>10. ThreadOK(t, {}) /\ Sorted(t.packets_queue)
  BY <1>6, <1>8 DEF Handled
<1> QED
  BY <1>2, <1>9, <1>10, ExecuteKeepsOrder DEF KeepsOrder

LEMMA AsyncDoneOrder ==
  ASSUME IInv, NEW p \in Packet, NEW error \in Error, NEW next \in FollowUps, AsyncDone(p, error, next)
  PROVE  KeepsOrder
<1>1. ThreadOK(send, {}) /\ Sorted(send.packets_queue) /\ Runs(send, p)
  BY OneQueue DEF AsyncDone, Runs, InProgress
<1>2. send' = ErrorHandler(Erase(send, p), p, error, next)
  BY DEF AsyncDone
<1>3. next = {} \/ \E n \in Packet : next = {n} /\ send.stage[n] = "new"
  BY DEF FollowUps
<1>4. Steady(send.packets_queue, send'.packets_queue)
  BY <1>1, <1>2, <1>3, ErrorHandlerSteady
<1> QED
  BY <1>4, SteadyOrder DEF KeepsOrder

LEMMA ResumeOneOrder ==
  ASSUME IInv, ResumeOne
  PROVE  KeepsOrder
<1> DEFINE p == Head(resuming)
           q == send.packets_queue
<1>1. ThreadOK(send, {}) /\ ParkedHolds(send, resuming, failed_packets) /\ Sorted(q)
  BY DEF IInv, Good
<1>2. resuming \in Seq(Packet) /\ resuming # <<>> /\ Distinct(resuming)
  BY <1>1 DEF IInv, ImTypeOK, ResumeOne, ParkedHolds
<1>3. p \in Packet /\ In(resuming, p)
  BY <1>2, TailFacts
<1>4. send.stage[p] = "parked"
  BY <1>1, <1>3 DEF ParkedHolds
<1>5. ThreadOK(send, {p}) /\ ~In(q, p)
  BY <1>1, <1>3, <1>4 DEF ThreadOK, QueueHolds
<1>6. send' = PostPacket(send, p)
  BY DEF ResumeOne
<1> HIDE DEF p
<1>7. Steady(send.packets_queue, send'.packets_queue)
  BY <1>1, <1>3, <1>5, <1>6, PostedSteady
<1> QED
  BY <1>7, SteadyOrder DEF KeepsOrder

LEMMA UnlockOrder ==
  ASSUME NEW s, NEW r, NEW f, Good(s, r, f)
  PROVE  OrderKept(s.packets_queue, UnlockAndExecuteQueued(s).packets_queue)
<1> DEFINE u == [s EXCEPT !.is_sending_locked = FALSE]
<1>1. /\ u \in SendThreads
      /\ u.executed_packets = s.executed_packets
      /\ u.packets_queue = s.packets_queue
      /\ u.stage = s.stage
  BY DEF Good, ThreadOK, SendThreads
<1>2. UnlockAndExecuteQueued(s) = ExecutePacketFromQueue(u)
  BY DEF UnlockAndExecuteQueued
<1> HIDE DEF u
<1>3. ThreadOK(u, {}) /\ Sorted(u.packets_queue)
  BY <1>1, GoodFlags DEF Good
<1>4. Steady(s.packets_queue, u.packets_queue)
  BY <1>1, SteadySame
<1> QED
  BY <1>2, <1>3, <1>4, ExecuteKeepsOrder

LEMMA SessionOrder ==
  ASSUME IInv, NEW ping \in BOOLEAN, StartSession(ping) \/ SessionFailed(ping) \/ SessionStarted
  PROVE  KeepsOrder
<1>1. Good(send, resuming, failed_packets)
  BY DEF IInv
<1>2. CASE StartSession(ping) /\ ping
  BY <1>2, SteadySame, SteadyOrder DEF StartSession, KeepsOrder
<1>3. CASE StartSession(ping) /\ ~ping
  <2>1. Restarted(send, send')
    BY <1>1, <1>3, RestartFacts DEF StartSession, Good
  <2>2. Steady(send.packets_queue, send'.packets_queue)
    BY <2>1, SteadySame DEF Restarted
  <2> QED
    BY <2>2, SteadyOrder DEF KeepsOrder
<1>4. CASE SessionStarted \/ (SessionFailed(ping) /\ ping)
  BY <1>1, <1>4, UnlockOrder DEF SessionStarted, SessionFailed, KeepsOrder
<1>5. CASE SessionFailed(ping) /\ ~ping
  <2> DEFINE s == UnlockAndExecuteQueued(send)
  <2>1. Good(s, resuming, failed_packets)
    BY <1>1, UnlockFacts
  <2>2. send' = Restart(s)
    BY <1>5 DEF SessionFailed
  <2> HIDE DEF s
  <2>3. Restarted(s, send')
    BY <2>1, <2>2, RestartFacts DEF Good
  <2>4. Steady(send.packets_queue, send'.packets_queue)
    BY <2>3, SteadySame DEF Restarted
  <2> QED
    BY <2>4, SteadyOrder DEF KeepsOrder
<1> QED
  BY <1>2, <1>3, <1>4, <1>5

LEMMA FlagOrder ==
  ASSUME IInv, RateLimitExpires \/ ResumeFailedPackets \/ vars' = vars
  PROVE  KeepsOrder
<1>1. send'.packets_queue = send.packets_queue
  BY OneQueue DEF RateLimitExpires, ResumeFailedPackets, vars, SendThreads
<1> QED
  BY <1>1, SteadySame, SteadyOrder DEF KeepsOrder

LEMMA NextOrder ==
  ASSUME IInv, [Next]_vars
  PROVE  KeepsOrder
<1>1. CASE \E p \in Packet : Post(p) \/ Complete(p)
  <2>1. PICK p \in Packet : Post(p) \/ Complete(p)
    BY <1>1
  <2>2. CASE \E error \in Error, next \in FollowUps : SyncDone(p, error, next) \/ AsyncDone(p, error, next)
    BY <2>2, SyncDoneOrder, AsyncDoneOrder
  <2> QED
    BY <2>1, <2>2, PostOrder, RateLimitedDoneOrder, SyncRetryOrder DEF Complete
<1>2. CASE \E ping \in BOOLEAN : StartSession(ping) \/ SessionFailed(ping)
  BY <1>2, SessionOrder
<1>3. CASE SessionStarted \/ ResumeOne
  BY <1>3, SessionOrder, ResumeOneOrder
<1>4. CASE RateLimitExpires \/ ResumeFailedPackets \/ vars' = vars
  BY <1>4, FlagOrder
<1> QED
  BY <1>1, <1>2, <1>3, <1>4 DEF Next

\* Packets of one priority keep their order in the queue, and no packet is put
\* before an equal that waits: only the head may fall behind its equals, when it
\* is popped and finds the thread busy.
THEOREM EqualsStayInOrder ==
  Spec => EqualsKeepTheirOrder
<1>1. IInv /\ IInv' /\ [Next]_vars =>
        LET q == send.packets_queue
            r == send'.packets_queue
            At(p) == CHOOSE i \in DOMAIN q : q[i] = p
        IN \A k, l \in DOMAIN r :
             /\ k < l /\ Priority[r[k]] = Priority[r[l]]
             /\ r[l] \in ToSet(q)
             => At(r[l]) = 1 \/ (r[k] \in ToSet(q) /\ At(r[k]) < At(r[l]))
  <2> SUFFICES ASSUME IInv, IInv', [Next]_vars
               PROVE  LET q == send.packets_queue
                          r == send'.packets_queue
                          At(p) == CHOOSE i \in DOMAIN q : q[i] = p
                      IN \A k, l \in DOMAIN r :
                           /\ k < l /\ Priority[r[k]] = Priority[r[l]]
                           /\ r[l] \in ToSet(q)
                           => At(r[l]) = 1 \/ (r[k] \in ToSet(q) /\ At(r[k]) < At(r[l]))
    OBVIOUS
  <2>1. send \in SendThreads /\ send' \in SendThreads /\ QueueHolds(send, {})
    BY DEF IInv, Good, ThreadOK
  <2>2. send.packets_queue \in Seq(Packet) /\ send'.packets_queue \in Seq(Packet)
    BY <2>1, Fields
  <2>3. Distinct(send.packets_queue)
    BY <2>1 DEF QueueHolds
  <2>4. OrderKept(send.packets_queue, send'.packets_queue)
    BY NextOrder DEF KeepsOrder
  <2> QED
    BY <2>2, <2>3, <2>4, OrderIs
<1> QED
  BY <1>1, Invariance, PTL DEF Spec, EqualsKeepTheirOrder
===============================================================================
