----------------------------- MODULE Outbox_proofs -----------------------------
(***************************************************************************)
(* Theorems about Outbox, for any messages, edits, chains, crashes and     *)
(* bounds; those about the one chain at a time for one tick of the timer   *)
(* that waits for the core thread.                                         *)
(***************************************************************************)
EXTENDS Outbox, QueueLemmas, FiniteSetTheorems

(***************************************************************************)
(* Queues of tasks.                                                        *)
(***************************************************************************)
Appended(q, e, r) ==
  /\ \A i \in DOMAIN q : i \in DOMAIN r /\ r[i] = q[i]
  /\ \E n \in DOMAIN r \ DOMAIN q : r[n] = e /\ \A i \in DOMAIN r : i \in DOMAIN q \/ i = n

LEMMA AppendPlaces ==
  ASSUME NEW S, NEW q \in Seq(S), NEW e \in S
  PROVE  Append(q, e) \in Seq(S) /\ Appended(q, e, Append(q, e))
<1> DEFINE r == Append(q, e)
<1>1. /\ r \in Seq(S) /\ DOMAIN q = 1..Len(q) /\ DOMAIN r = 1..(Len(q) + 1) /\ Len(q) \in Nat
      /\ r[Len(q) + 1] = e /\ \A i \in 1..Len(q) : r[i] = q[i]
  OBVIOUS
<1> HIDE DEF r
<1>2. Len(q) + 1 \in DOMAIN r \ DOMAIN q /\ \A i \in DOMAIN r : i \in DOMAIN q \/ i = Len(q) + 1
  BY <1>1
<1> QED
  BY <1>1, <1>2 DEF Appended, r

TailOf(q, r) ==
  /\ 1 \in DOMAIN q /\ Head(q) = q[1]
  /\ \A i \in DOMAIN r : i \in Nat /\ i + 1 \in DOMAIN q /\ i + 1 # 1 /\ r[i] = q[i + 1]
  /\ \A i \in DOMAIN q : i # 1 => i - 1 \in DOMAIN r /\ r[i - 1] = q[i]
  /\ DOMAIN q \subseteq Nat

LEMMA TailPlaces ==
  ASSUME NEW S, NEW q \in Seq(S), q # <<>>
  PROVE  Tail(q) \in Seq(S) /\ TailOf(q, Tail(q)) /\ Head(q) \in S
<1> DEFINE r == Tail(q)
<1>1. /\ r \in Seq(S) /\ Len(r) = Len(q) - 1 /\ Head(q) \in S
      /\ Head(q) = q[1] /\ 1 \in DOMAIN q
      /\ \A i \in DOMAIN r : i \in Nat /\ i + 1 \in DOMAIN q /\ i + 1 # 1 /\ r[i] = q[i + 1]
      /\ \A i \in DOMAIN q : i # 1 => i - 1 \in DOMAIN r /\ r[i - 1] = q[i]
      /\ DOMAIN q \subseteq Nat
  OBVIOUS
<1> QED
  BY <1>1, Zenon DEF TailOf

(***************************************************************************)
(* The list of pending messages: an internal id is in it once.             *)
(***************************************************************************)
Pendings == {p \in Seq(Entries) : \A i, j \in DOMAIN p : p[i].iid = p[j].iid => i = j}

LEMMA PendingFacts ==
  ASSUME NEW p \in Pendings
  PROVE  /\ \A u : In(p, u) => u \in Entries
         /\ \A u, v : In(p, u) /\ In(p, v) /\ u.iid = v.iid => u = v
         /\ \A m : Exists(p, m) <=> \E u : In(p, u) /\ u.iid = m
         /\ \A m : Exists(p, m) => In(p, EntryOf(p, m)) /\ EntryOf(p, m).iid = m
<1>1. p \in Seq(Entries) /\ \A i, j \in DOMAIN p : p[i].iid = p[j].iid => i = j
  BY DEF Pendings
<1>2. \A u : In(p, u) => u \in Entries
  BY <1>1 DEF In
<1>3. \A u, v : In(p, u) /\ In(p, v) /\ u.iid = v.iid => u = v
  BY <1>1 DEF In
<1>4. \A m : Exists(p, m) <=> \E u : In(p, u) /\ u.iid = m
  BY DEF In, Exists
<1>5. ASSUME NEW m, Exists(p, m) PROVE In(p, EntryOf(p, m)) /\ EntryOf(p, m).iid = m
  <2>1. PlaceOf(p, m) \in DOMAIN p /\ p[PlaceOf(p, m)].iid = m
    BY <1>5 DEF Exists, PlaceOf
  <2> QED
    BY <2>1 DEF EntryOf, In
<1> QED
  BY <1>2, <1>3, <1>4, <1>5

\* An operation that changes entries and not their ids: entry by entry.
LEMMA SameIdsFacts ==
  ASSUME NEW p \in Pendings, NEW r \in [DOMAIN p -> Entries],
         \A i \in DOMAIN p : r[i].iid = p[i].iid
  PROVE  r \in Pendings /\ \A m : Exists(r, m) <=> Exists(p, m)
<1>1. p \in Seq(Entries) /\ \A i, j \in DOMAIN p : p[i].iid = p[j].iid => i = j
  BY DEF Pendings
<1>2. Len(p) \in Nat /\ DOMAIN p = 1..Len(p)
  BY <1>1
<1>3. r \in Seq(Entries)
  BY <1>2, IsASeq
<1> QED
  BY <1>1, <1>3 DEF Pendings, Exists

LEMMA ReplaceFacts ==
  ASSUME NEW p \in Pendings, NEW m \in Message, NEW e \in Entries, e.iid = m
  PROVE  LET r == Replace(p, m, e)
         IN  /\ r \in Pendings /\ \A n : Exists(r, n) <=> Exists(p, n)
             /\ \A u : In(r, u) <=> (In(p, u) /\ u.iid # m) \/ (u = e /\ Exists(p, m))
<1> DEFINE r == Replace(p, m, e)
<1>1. p \in Seq(Entries)
  BY DEF Pendings
<1>2. /\ r \in [DOMAIN p -> Entries] /\ \A i \in DOMAIN p : r[i].iid = p[i].iid
      /\ DOMAIN r = DOMAIN p /\ \A i \in DOMAIN p : r[i] = IF p[i].iid = m THEN e ELSE p[i]
  BY <1>1 DEF Replace
<1> HIDE DEF r
<1>3. r \in Pendings /\ \A n : Exists(r, n) <=> Exists(p, n)
  BY <1>2, SameIdsFacts
<1>4. \A u : In(r, u) <=> (In(p, u) /\ u.iid # m) \/ (u = e /\ Exists(p, m))
  BY <1>2 DEF In, Exists
<1> QED
  BY <1>3, <1>4 DEF r

LEMMA EraseFacts ==
  ASSUME NEW p \in Pendings, NEW m \in Message
  PROVE  LET r == EraseEntry(p, m)
         IN  r \in Pendings /\ \A u : In(r, u) <=> In(p, u) /\ u.iid # m
<1> DEFINE r == EraseEntry(p, m)
<1>1. CASE ~Exists(p, m)
  BY <1>1 DEF EraseEntry, Exists, In
<1>2. CASE Exists(p, m)
  <2> DEFINE k == PlaceOf(p, m)
  <2>1. p \in Seq(Entries) /\ \A i, j \in DOMAIN p : p[i].iid = p[j].iid => i = j
    BY DEF Pendings
  <2>2. k \in DOMAIN p /\ p[k].iid = m
    BY <1>2 DEF Exists, PlaceOf
  <2>3. Distinct(p)
    BY <2>1 DEF Distinct
  <2>4. r = RemoveAt(p, k)
    BY <1>2 DEF EraseEntry
  <2> HIDE DEF k, r
  <2>5. /\ r \in Seq(Entries) /\ Distinct(r)
        /\ \A u \in Entries : In(r, u) <=> In(p, u) /\ u # p[k]
    BY <2>1, <2>2, <2>3, <2>4, RemoveFacts
  <2>6. \A u : In(r, u) => u \in Entries
    BY <2>5 DEF In
  <2>7. \A u : In(r, u) <=> In(p, u) /\ u.iid # m
    BY <2>2, <2>5, <2>6, PendingFacts DEF In
  <2>8. \A i, j \in DOMAIN r : r[i].iid = r[j].iid => i = j
    <3> SUFFICES ASSUME NEW i \in DOMAIN r, NEW j \in DOMAIN r, r[i].iid = r[j].iid PROVE i = j
      OBVIOUS
    <3>1. In(r, r[i]) /\ In(r, r[j])
      BY DEF In
    <3>2. r[i] = r[j]
      BY <2>7, <3>1, PendingFacts
    <3> QED
      BY <2>5, <3>2 DEF Distinct
  <2> QED
    BY <2>5, <2>7, <2>8 DEF r, Pendings
<1> QED
  BY <1>1, <1>2

LEMMA InsertFacts ==
  ASSUME NEW p \in Pendings, NEW e \in Entries
  PROVE  LET r == InsertMessage(p, e)
         IN  r \in Pendings /\ \A u : In(r, u) <=> (In(p, u) /\ u.iid # e.iid) \/ u = e
<1>1. e.iid \in Message
  BY DEF Entries
<1>2. CASE Exists(p, e.iid)
  BY <1>1, <1>2, ReplaceFacts DEF InsertMessage
<1>3. CASE ~Exists(p, e.iid)
  <2> DEFINE r == Append(p, e)
  <2>1. p \in Seq(Entries) /\ \A i, j \in DOMAIN p : p[i].iid = p[j].iid => i = j
    BY DEF Pendings
  <2>2. r \in Seq(Entries) /\ Appended(p, e, r)
    BY <2>1, AppendPlaces
  <2> HIDE DEF r
  <2>3. PICK n \in DOMAIN r : /\ r[n] = e /\ n \notin DOMAIN p
                              /\ \A i \in DOMAIN r : i \in DOMAIN p \/ i = n
                              /\ \A i \in DOMAIN p : i \in DOMAIN r /\ r[i] = p[i]
    BY <2>2 DEF Appended
  <2>4. \A i \in DOMAIN p : p[i].iid # e.iid
    BY <1>3 DEF Exists
  <2>5. \A i, j \in DOMAIN r : r[i].iid = r[j].iid => i = j
    BY <2>1, <2>3, <2>4
  <2>6. \A u : In(r, u) <=> (In(p, u) /\ u.iid # e.iid) \/ u = e
    BY <2>3, <2>4 DEF In
  <2> QED
    BY <1>3, <2>2, <2>5, <2>6 DEF InsertMessage, r, Pendings
<1> QED
  BY <1>2, <1>3

\* The same message, version and request; a mark of deletion is not taken back.
Akin(u, v) == u.iid = v.iid /\ u.ver = v.ver /\ u.request = v.request /\ u.modified = v.modified

Kindred(p, r) ==
  /\ \A u : In(r, u) => \E v : In(p, v) /\ Akin(u, v)
  /\ \A v : In(p, v) => \E u : In(r, u) /\ Akin(u, v) /\ (v.deleted => u.deleted)

LEMMA KindredFacts ==
  ASSUME NEW p \in Pendings, NEW r \in [DOMAIN p -> Entries],
         \A i \in DOMAIN p : Akin(r[i], p[i]) /\ (p[i].deleted => r[i].deleted)
  PROVE  r \in Pendings /\ Kindred(p, r) /\ \A m : Exists(r, m) <=> Exists(p, m)
<1>1. r \in Pendings /\ \A m : Exists(r, m) <=> Exists(p, m)
  BY SameIdsFacts DEF Akin
<1>2. DOMAIN r = DOMAIN p
  OBVIOUS
<1>3. Kindred(p, r)
  BY <1>2 DEF Kindred, In
<1> QED
  BY <1>1, <1>3

LEMMA MarkFacts ==
  ASSUME NEW p \in Pendings, NEW m \in Message
  PROVE  LET r == MarkDeleted(p, m)
         IN  r \in Pendings /\ Kindred(p, r) /\ \A n : Exists(r, n) <=> Exists(p, n)
<1> DEFINE r == MarkDeleted(p, m)
<1>1. \A i \in DOMAIN p : p[i] \in Entries
  BY DEF Pendings
<1>2. /\ r \in [DOMAIN p -> Entries]
      /\ \A i \in DOMAIN p : Akin(r[i], p[i]) /\ (p[i].deleted => r[i].deleted)
  BY <1>1 DEF MarkDeleted, Entries, Akin
<1> QED
  BY <1>2, KindredFacts

LEMMA PostTimeFacts ==
  ASSUME NEW p \in Pendings, NEW m \in Message
  PROVE  LET r == UpdateMessagePostTime(p, m)
         IN  r \in Pendings /\ Kindred(p, r) /\ \A n : Exists(r, n) <=> Exists(p, n)
<1> DEFINE r == UpdateMessagePostTime(p, m)
<1>1. \A i \in DOMAIN p : p[i] \in Entries
  BY DEF Pendings
<1>2. /\ r \in [DOMAIN p -> Entries]
      /\ \A i \in DOMAIN p : Akin(r[i], p[i]) /\ (p[i].deleted => r[i].deleted)
  BY <1>1 DEF UpdateMessagePostTime, Entries, Akin
<1> QED
  BY <1>2, KindredFacts

LEMMA EntryIsOne ==
  ASSUME NEW e \in Entries
  PROVE  e # NoEntry
<1>1. "ver" \in DOMAIN e
  BY DEF Entries
<1>2. "ver" \notin DOMAIN NoEntry
  BY DEF NoEntry
<1> QED
  BY <1>1, <1>2

LEMMA AgedFacts ==
  ASSUME NEW e \in Entries
  PROVE  Aged(e) \in Entries /\ Akin(Aged(e), e) /\ (e.deleted => Aged(e).deleted)
BY EntryIsOne DEF Aged, Entries, Akin

LEMMA AgedListFacts ==
  ASSUME NEW p \in Pendings
  PROVE  LET r == [i \in DOMAIN p |-> Aged(p[i])]
         IN  r \in Pendings /\ Kindred(p, r) /\ \A n : Exists(r, n) <=> Exists(p, n)
<1> DEFINE r == [i \in DOMAIN p |-> Aged(p[i])]
<1>1. \A i \in DOMAIN p : p[i] \in Entries
  BY DEF Pendings
<1>2. /\ r \in [DOMAIN p -> Entries]
      /\ \A i \in DOMAIN p : Akin(r[i], p[i]) /\ (p[i].deleted => r[i].deleted)
  BY <1>1, AgedFacts
<1> QED
  BY <1>2, KindredFacts

\* The entry that remove() keeps.
Turned(p, m, request) == [EntryOf(p, m) EXCEPT !.modified = FALSE, !.request = request]
KeptHere(p, m, flag) == Exists(p, m) /\ Kept(EntryOf(p, m), flag)

LEMMA RemoveMessageFacts ==
  ASSUME NEW p \in Pendings, NEW m \in Message, NEW flag \in BOOLEAN,
         NEW request \in 0..MaxRequests
  PROVE  LET r == RemoveMessage(p, m, flag, request)
             e == Turned(p, m, request)
         IN  /\ r \in Pendings
             /\ KeptHere(p, m, flag) => /\ \A u : In(r, u) <=> (In(p, u) /\ u.iid # m) \/ u = e
                                        /\ e \in Entries /\ e.iid = m /\ e.ver = EntryOf(p, m).ver
                                        /\ EntryOf(p, m) \in Entries
             /\ ~KeptHere(p, m, flag) => \A u : In(r, u) <=> In(p, u) /\ u.iid # m
<1> DEFINE e == Turned(p, m, request)
<1>1. CASE KeptHere(p, m, flag)
  <2>1. EntryOf(p, m) \in Entries /\ EntryOf(p, m).iid = m /\ Exists(p, m)
    BY <1>1, PendingFacts DEF KeptHere
  <2>2. e \in Entries /\ e.iid = m /\ e.ver = EntryOf(p, m).ver
    BY <2>1 DEF Turned, Entries
  <2>3. RemoveMessage(p, m, flag, request) = Replace(p, m, e)
    BY <1>1 DEF KeptHere, RemoveMessage, Turned
  <2> HIDE DEF e
  <2> QED
    BY <1>1, <2>1, <2>2, <2>3, ReplaceFacts DEF e
<1>2. CASE ~KeptHere(p, m, flag)
  <2>1. RemoveMessage(p, m, flag, request) = EraseEntry(p, m)
    BY <1>2 DEF KeptHere, RemoveMessage
  <2> QED
    BY <1>2, <2>1, EraseFacts
<1> QED
  BY <1>1, <1>2

LEMMA ImstateFacts ==
  ASSUME NEW p \in Pendings, NEW m \in Message
  PROVE  LET r == UpdateWithImstate(p, m)
         IN  /\ r \in Pendings
             /\ KeptHere(p, m, FALSE) => r = p
             /\ ~KeptHere(p, m, FALSE) => \A u : In(r, u) <=> In(p, u) /\ u.iid # m
BY EraseFacts DEF UpdateWithImstate, KeptHere

(***************************************************************************)
(* The ticks that wait for the core thread.                                *)
(***************************************************************************)
TicksIn(q) == {i \in DOMAIN q : q[i] = TickTask}

LEMMA TicksFinite ==
  ASSUME NEW q \in Seq(Chain \cup {TickTask})
  PROVE  /\ IsFiniteSet(TicksIn(q)) /\ Cardinality(TicksIn(q)) \in Nat
         /\ Cardinality(TicksIn(q)) = 0 <=> TicksIn(q) = {}
<1>1. IsFiniteSet(1..Len(q))
  BY FS_Interval
<1>2. TicksIn(q) \in SUBSET (1..Len(q))
  BY DEF TicksIn
<1>3. IsFiniteSet(TicksIn(q))
  BY <1>1, <1>2, FS_Subset, Zenon
<1> QED
  BY <1>3, FS_CardinalityType, FS_EmptySet

LEMMA TicksAppend ==
  ASSUME NEW q \in Seq(Chain \cup {TickTask}), NEW e \in Chain \cup {TickTask}
  PROVE  LET r == Append(q, e)
         IN  /\ r \in Seq(Chain \cup {TickTask})
             /\ e # TickTask => TicksIn(r) = TicksIn(q)
             /\ Cardinality(TicksIn(r)) <= Cardinality(TicksIn(q)) + 1
             /\ e = TickTask => TicksIn(r) # {}
<1> DEFINE r == Append(q, e)
<1>1. r \in Seq(Chain \cup {TickTask}) /\ Appended(q, e, r)
  BY AppendPlaces
<1>2. PICK n \in DOMAIN r : /\ r[n] = e /\ \A i \in DOMAIN r : i \in DOMAIN q \/ i = n
                            /\ \A i \in DOMAIN q : i \in DOMAIN r /\ r[i] = q[i]
                            /\ n \notin DOMAIN q
  BY <1>1 DEF Appended
<1> HIDE DEF r
<1>3. TicksIn(r) = IF e = TickTask THEN TicksIn(q) \cup {n} ELSE TicksIn(q)
  BY <1>2 DEF TicksIn
<1>4. IsFiniteSet(TicksIn(q)) /\ Cardinality(TicksIn(q)) \in Nat
  BY TicksFinite
<1>5. Cardinality(TicksIn(q) \cup {n})
        = IF n \in TicksIn(q) THEN Cardinality(TicksIn(q)) ELSE Cardinality(TicksIn(q)) + 1
  BY <1>4, FS_AddElement, Zenon
<1>6. Cardinality(TicksIn(r)) <= Cardinality(TicksIn(q)) + 1
  BY <1>3, <1>4, <1>5
<1>7. e = TickTask => TicksIn(r) # {}
  BY <1>3
<1>8. e # TickTask => TicksIn(r) = TicksIn(q)
  BY <1>3
<1> QED
  BY <1>1, <1>6, <1>7, <1>8 DEF r

LEMMA TicksTail ==
  ASSUME NEW q \in Seq(Chain \cup {TickTask}), q # <<>>
  PROVE  LET r == Tail(q)
         IN  /\ r \in Seq(Chain \cup {TickTask})
             /\ Cardinality(TicksIn(r)) <= Cardinality(TicksIn(q))
             /\ Head(q) # TickTask => (TicksIn(r) = {} <=> TicksIn(q) = {})
             /\ Head(q) = TickTask => TicksIn(q) # {}
             /\ Cardinality(TicksIn(q)) <= 1 /\ Head(q) = TickTask => TicksIn(r) = {}
<1> DEFINE r == Tail(q)
<1>1. r \in Seq(Chain \cup {TickTask}) /\ TailOf(q, r)
  BY TailPlaces
<1> HIDE DEF r
<1>2. [i \in TicksIn(r) |-> i + 1] \in Injection(TicksIn(r), TicksIn(q))
  BY <1>1 DEF Injection, IsInjective, TicksIn, TailOf
<1>3. Cardinality(TicksIn(r)) <= Cardinality(TicksIn(q))
  BY <1>2, TicksFinite, FS_Injection
<1>4. Head(q) # TickTask => (TicksIn(r) = {} <=> TicksIn(q) = {})
  BY <1>1 DEF TicksIn, TailOf
<1>5. Head(q) = TickTask => 1 \in TicksIn(q)
  BY <1>1 DEF TicksIn, TailOf
<1>6. ASSUME Cardinality(TicksIn(q)) <= 1, Head(q) = TickTask PROVE TicksIn(r) = {}
  <2>1. Cardinality(TicksIn(q)) = 1
    BY <1>5, <1>6, TicksFinite
  <2>2. PICK x : TicksIn(q) = {x}
    BY <2>1, FS_Singleton, TicksFinite
  <2>3. TicksIn(q) = {1}
    BY <1>5, <1>6, <2>2
  <2> QED
    BY <1>1, <2>3 DEF TicksIn, TailOf
<1> QED
  BY <1>1, <1>3, <1>4, <1>5, <1>6 DEF r

(***************************************************************************)
(* A task that the archive executes for a chain: the chain waits for it.   *)
(***************************************************************************)
Waits == {"fetch", "stamp", "store", "remove"}

ChainTask(t) == t.op \in {"fetch", "stamp", "store"} \/ (t.op = "remove" /\ t.chain # 0)

Links(q, ch) ==
  /\ q \in Seq(Tasks)
  /\ \A i \in DOMAIN q : ChainTask(q[i]) => q[i].chain \in Chain /\ ch[q[i].chain].at = q[i].op
  /\ \A i, j \in DOMAIN q : ChainTask(q[i]) /\ ChainTask(q[j]) /\ q[i].chain = q[j].chain => i = j

AtSame(ch, ch2, D) == \A d \in Chain \ D : ch2[d].at = ch[d].at

LEMMA Relink ==
  ASSUME NEW q, NEW ch, NEW ch2, NEW D, Links(q, ch), AtSame(ch, ch2, D),
         \A d \in D : ch[d].at \notin Waits
  PROVE  Links(q, ch2)
BY DEF Links, AtSame, Waits, ChainTask

LEMMA LinksPlain ==
  ASSUME NEW q, NEW ch, NEW t \in Tasks, Links(q, ch), ~ChainTask(t)
  PROVE  Links(Append(q, t), ch)
<1>1. q \in Seq(Tasks)
  BY DEF Links
<1>2. Append(q, t) \in Seq(Tasks) /\ Appended(q, t, Append(q, t))
  BY <1>1, AppendPlaces
<1> DEFINE r == Append(q, t)
<1> HIDE DEF r
<1>3. \A i \in DOMAIN r : r[i] = t \/ (i \in DOMAIN q /\ r[i] = q[i])
  BY <1>2 DEF Appended, r
<1> QED
  BY <1>2, <1>3, Zenon DEF Links, r

LEMMA LinksOwn ==
  ASSUME NEW q, NEW ch, NEW ch2, NEW c \in Chain, NEW t \in Tasks, Links(q, ch),
         ch[c].at \notin Waits, AtSame(ch, ch2, {c}), ch2[c].at = t.op, ChainTask(t), t.chain = c
  PROVE  Links(Append(q, t), ch2)
<1>1. q \in Seq(Tasks)
  BY DEF Links
<1>2. Append(q, t) \in Seq(Tasks) /\ Appended(q, t, Append(q, t))
  BY <1>1, AppendPlaces
<1> DEFINE r == Append(q, t)
<1> HIDE DEF r
<1>3. PICK n \in DOMAIN r : /\ r[n] = t
                            /\ \A i \in DOMAIN r : i = n \/ (i \in DOMAIN q /\ r[i] = q[i])
  BY <1>2 DEF Appended, r
<1>4. Links(q, ch2)
  BY Relink
<1>5. \A i \in DOMAIN q : ChainTask(q[i]) => q[i].chain # c
  BY DEF Links, Waits, ChainTask
<1>6. \A i \in DOMAIN r : ChainTask(r[i]) => r[i].chain \in Chain /\ ch2[r[i].chain].at = r[i].op
  BY <1>3, <1>4, Zenon DEF Links
<1>7. \A i, j \in DOMAIN r : ChainTask(r[i]) /\ ChainTask(r[j]) /\ r[i].chain = r[j].chain => i = j
  BY <1>3, <1>4, <1>5, Zenon DEF Links
<1> QED
  BY <1>2, <1>6, <1>7, Zenon DEF Links, r

LEMMA LinksTail ==
  ASSUME NEW q, NEW ch, NEW ch2, Links(q, ch), q # <<>>,
         AtSame(ch, ch2, IF ChainTask(Head(q)) THEN {Head(q).chain} ELSE {})
  PROVE  Links(Tail(q), ch2) /\ Head(q) \in Tasks
         /\ (ChainTask(Head(q)) => Head(q).chain \in Chain /\ ch[Head(q).chain].at = Head(q).op)
<1> DEFINE r == Tail(q)
           t == Head(q)
<1>1. r \in Seq(Tasks) /\ TailOf(q, r) /\ t \in Tasks
  BY TailPlaces DEF Links
<1> HIDE DEF r, t
<1>2. 1 \in DOMAIN q /\ q[1] = t /\ \A i \in DOMAIN r : i \in Nat /\ i + 1 \in DOMAIN q /\ i + 1 # 1 /\ r[i] = q[i + 1]
  BY <1>1 DEF TailOf, t
<1>3. ASSUME NEW i \in DOMAIN r, ChainTask(r[i])
      PROVE  r[i].chain \in Chain /\ ch2[r[i].chain].at = r[i].op
  <2>1. i + 1 \in DOMAIN q /\ i + 1 # 1 /\ r[i] = q[i + 1] /\ ChainTask(q[i + 1])
    BY <1>2, <1>3
  <2>2. r[i].chain \in Chain /\ ch[r[i].chain].at = r[i].op
    BY <2>1, Zenon DEF Links
  <2>3. ChainTask(t) => r[i].chain # t.chain
    BY <1>2, <2>1, Zenon DEF Links
  <2> QED
    BY <2>2, <2>3, Zenon DEF AtSame, t
<1>4. ASSUME NEW i \in DOMAIN r, NEW j \in DOMAIN r, ChainTask(r[i]), ChainTask(r[j]), r[i].chain = r[j].chain
      PROVE  i = j
  <2>1. i + 1 = j + 1
    BY <1>2, <1>4 DEF Links
  <2> QED
    BY <1>2, <2>1
<1>5. ChainTask(t) => t.chain \in Chain /\ ch[t.chain].at = t.op
  BY <1>2 DEF Links
<1> QED
  BY <1>1, <1>3, <1>4, <1>5, Zenon DEF Links, r, t

(***************************************************************************)
(* Type correctness.  It needs that an id is pending once, that a task     *)
(* executed for a chain finds its chain where it was left, and that where  *)
(* a chain is says what it holds.                                          *)
(***************************************************************************)
ChainRecord == [at : Places, entry : Entries \cup {NoEntry}, packet : Packets \cup {NoEntry}]

Packed == {"wire", "handled", "store", "stored", "remove"}
Sending == {"stamp", "stamped"} \cup Packed

ShapeOf(r) ==
  /\ r.at = "idle" => r = Idle
  /\ r.at \in Sending => r.entry \in Entries
  /\ r.at \in Packed => r.packet \in Packets /\ r.packet.iid = r.entry.iid /\ r.packet.ver = r.entry.ver
  /\ r.at \in {"fetch", "removed", "dropped"} => r.entry = NoEntry

ChainOK == chain \in [Chain -> ChainRecord] /\ \A c \in Chain : ShapeOf(chain[c])

UserOK == typed \in [Message -> 0..MaxVersion] /\ crashes \in 0..MaxCrashes
StoreOK ==
  /\ pending \in Pendings /\ pending_deletes \subseteq Message /\ ids \subseteq Message \X Version
  /\ last_request \in 0..MaxRequests
  /\ accepted \in [Message -> 0..MaxVersion] /\ refused \subseteq Message
CoreOK == core_tasks \in Seq(Chain \cup {TickTask}) /\ Ticks \in 0..MaxQueuedTicks
FlagOK ==
  /\ sent_pending_messages_active \in BOOLEAN
  /\ timer \in BOOLEAN /\ timers \in Nat /\ (timer => timers > 0)
ServerOK == server \in [Message -> [ver : 0..MaxVersion, seen : SUBSET (0..MaxRequests), made : Nat]]

TypeInv ==
  UserOK /\ StoreOK /\ CoreOK /\ FlagOK /\ ServerOK /\ ChainOK /\ Links(archive_tasks, chain)

LEMMA TypeInvIsEnough ==
  TypeInv => TypeOK
<1> SUFFICES ASSUME TypeInv PROVE TypeOK
  OBVIOUS
<1>1. pending \in Seq(Entries) /\ archive_tasks \in Seq(Tasks)
  BY DEF TypeInv, StoreOK, Pendings, Links
<1> QED
  BY <1>1 DEF TypeInv, UserOK, StoreOK, CoreOK, FlagOK, ServerOK, ChainOK, TypeOK, ChainRecord

LEMMA TypeInit ==
  Init => TypeInv
<1> SUFFICES ASSUME Init PROVE TypeInv
  OBVIOUS
<1> USE OutboxAssumption DEF Init
<1>1. UserOK
  BY DEF UserOK
<1>f. FlagOK
  <2>1. timers \in Nat
    OBVIOUS
  <2> QED
    BY <2>1, Zenon DEF FlagOK
<1>s. ServerOK
  <2>1. [ver |-> 0, seen |-> {}, made |-> 0] \in [ver : 0..MaxVersion, seen : SUBSET (0..MaxRequests), made : Nat]
    OBVIOUS
  <2> QED
    BY <2>1, Zenon DEF ServerOK
<1>2. StoreOK
  BY DEF StoreOK, Pendings
<1>3. CoreOK
  <2>1. TicksIn(core_tasks) = {}
    BY DEF TicksIn
  <2> QED
    BY <2>1, FS_EmptySet DEF CoreOK, Ticks, TicksIn
<1>4. ChainOK
  BY DEF ChainOK, ChainRecord, Places, ShapeOf, Idle, Sending, Packed
<1>5. Links(archive_tasks, chain)
  BY DEF Links
<1> QED
  BY <1>1, <1>2, <1>3, <1>4, <1>5, <1>f, <1>s DEF TypeInv

\* What an object that a chain holds becomes when the list changes or time passes.
Follows(r, r2) ==
  /\ r2 \in ChainRecord /\ r2.packet = r.packet
  /\ r.entry = NoEntry => r2.entry = NoEntry
  /\ r.entry \in Entries => /\ r2.entry \in Entries
                            /\ r2.entry.iid = r.entry.iid /\ r2.entry.ver = r.entry.ver
                            /\ Akin(r2.entry, r.entry) \/ In(pending', r2.entry)

LEMMA SeenFacts ==
  ASSUME pending' \in Pendings, NEW e \in Entries
  PROVE  /\ Seen(e) \in Entries /\ Seen(e).iid = e.iid /\ Seen(e).ver = e.ver
         /\ Seen(e) = e \/ In(pending', Seen(e))
<1>1. CASE ~\E i \in DOMAIN pending' : pending'[i].iid = e.iid /\ pending'[i].ver = e.ver
  BY <1>1 DEF Seen
<1>2. CASE \E i \in DOMAIN pending' : pending'[i].iid = e.iid /\ pending'[i].ver = e.ver
  <2>1. PICK i \in DOMAIN pending' : pending'[i].iid = e.iid /\ pending'[i].ver = e.ver
    BY <1>2
  <2>2. Seen(e) = EntryOf(pending', e.iid)
    BY <1>2 DEF Seen
  <2>3. Exists(pending', e.iid) /\ In(pending', pending'[i])
    BY <2>1 DEF Exists, In
  <2>4. In(pending', EntryOf(pending', e.iid)) /\ EntryOf(pending', e.iid).iid = e.iid
    BY <2>3, PendingFacts
  <2>5. EntryOf(pending', e.iid) = pending'[i]
    BY <2>1, <2>3, <2>4, PendingFacts
  <2> QED
    BY <2>1, <2>2, <2>4, <2>5, PendingFacts
<1> QED
  BY <1>1, <1>2

LEMMA SeenRecord ==
  ASSUME pending' \in Pendings, NEW r \in ChainRecord
  PROVE  LET r2 == IF r.entry # NoEntry THEN [r EXCEPT !.entry = Seen(@)] ELSE r
         IN  Follows(r, r2) /\ r2.at = r.at
<1>1. CASE r.entry = NoEntry
  BY <1>1, EntryIsOne DEF Follows
<1>2. CASE r.entry # NoEntry
  <2>1. r.entry \in Entries
    BY <1>2 DEF ChainRecord
  <2> DEFINE e == Seen(r.entry)
             r2 == [r EXCEPT !.entry = e]
  <2>2. e \in Entries /\ e.iid = r.entry.iid /\ e.ver = r.entry.ver /\ (e = r.entry \/ In(pending', e))
    BY <2>1, SeenFacts
  <2> HIDE DEF e
  <2>3. r2 \in ChainRecord /\ r2.packet = r.packet /\ r2.at = r.at /\ r2.entry = e
    BY <2>2 DEF ChainRecord
  <2> HIDE DEF r2
  <2>5. Akin(r2.entry, r.entry) \/ In(pending', r2.entry)
    BY <2>2, <2>3 DEF Akin
  <2>4. Follows(r, r2)
    BY <1>2, <2>1, <2>2, <2>3, <2>5 DEF Follows
  <2> QED
    BY <1>2, <2>3, <2>4 DEF r2, e
<1> QED
  BY <1>1, <1>2

LEMMA AgedRecord ==
  ASSUME NEW r \in ChainRecord
  PROVE  LET r2 == [r EXCEPT !.entry = Aged(@)]
         IN  Follows(r, r2) /\ r2.at = r.at
<1>1. CASE r.entry = NoEntry
  BY <1>1, EntryIsOne DEF Follows, Aged, ChainRecord
<1>2. CASE r.entry # NoEntry
  <2>1. r.entry \in Entries
    BY <1>2 DEF ChainRecord
  <2> DEFINE e == Aged(r.entry)
             r2 == [r EXCEPT !.entry = e]
  <2>2. e \in Entries /\ Akin(e, r.entry)
    BY <2>1, AgedFacts
  <2> HIDE DEF e
  <2>3. r2 \in ChainRecord /\ r2.packet = r.packet /\ r2.at = r.at /\ r2.entry = e
    BY <2>2 DEF ChainRecord
  <2> HIDE DEF r2
  <2>4. Follows(r, r2)
    BY <1>2, <2>2, <2>3 DEF Follows, Akin
  <2> QED
    BY <2>3, <2>4 DEF r2, e
<1> QED
  BY <1>1, <1>2

LEMMA FollowsShape ==
  ASSUME NEW r \in ChainRecord, NEW r2, Follows(r, r2), ShapeOf(r),
         r2.at = r.at \/ (r.at = "stamp" /\ r2.at = "stamped")
  PROVE  ShapeOf(r2)
<1>1. CASE r.at = "idle"
  BY <1>1 DEF Follows, ShapeOf, ChainRecord, Idle, Sending, Packed
<1>2. CASE r.at # "idle"
  BY <1>2 DEF Follows, ShapeOf, Sending, Packed
<1> QED
  BY <1>1, <1>2

\* Every chain follows, and none moves.
AllFollow == chain' \in [Chain -> ChainRecord] /\ \A c \in Chain : Follows(chain[c], chain'[c])

LEMMA FollowersOK ==
  ASSUME ChainOK, AllFollow, AtSame(chain, chain', {})
  PROVE  ChainOK'
<1>1. \A c \in Chain : ShapeOf(chain'[c])
  BY FollowsShape DEF ChainOK, AllFollow, AtSame
<1> QED
  BY <1>1 DEF ChainOK, AllFollow

LEMMA ChainsSeeFacts ==
  ASSUME ChainOK, pending' \in Pendings, ChainsSee
  PROVE  AllFollow /\ AtSame(chain, chain', {})
<1>1. ASSUME NEW c \in Chain
      PROVE  /\ chain'[c] = IF chain[c].entry # NoEntry THEN [chain[c] EXCEPT !.entry = Seen(@)] ELSE chain[c]
             /\ chain[c] \in ChainRecord
  BY DEF ChainsSee, Held, ChainOK
<1>2. ASSUME NEW c \in Chain PROVE Follows(chain[c], chain'[c]) /\ chain'[c].at = chain[c].at
  BY <1>1, SeenRecord, Zenon
<1>3. chain' = [c \in Chain |-> chain'[c]]
  BY DEF ChainsSee
<1>4. chain' \in [Chain -> ChainRecord]
  BY <1>2, <1>3 DEF Follows
<1> QED
  BY <1>2, <1>4 DEF AllFollow, AtSame

LEMMA SetChain ==
  ASSUME ChainOK, NEW c \in Chain, NEW r \in ChainRecord, ShapeOf(r),
         chain' = [chain EXCEPT ![c] = r]
  PROVE  ChainOK' /\ AtSame(chain, chain', {c}) /\ chain'[c] = r
BY DEF ChainOK, AtSame

LEMMA IdleRecords ==
  /\ Idle \in ChainRecord /\ ShapeOf(Idle) /\ Idle.at = "idle"
  /\ \A at \in {"fetch", "removed", "dropped"} :
       LET r == [Idle EXCEPT !.at = at] IN r \in ChainRecord /\ ShapeOf(r) /\ r.at = at
BY DEF Idle, ChainRecord, ShapeOf, Sending, Packed, Places

\* What a new chain begins with, and what its begin leaves.
LEMMA BeginFacts ==
  ASSUME ChainOK, FlagOK, NEW c \in Chain, chain[c].at \notin Waits,
         NEW tasks, Links(tasks, chain), Begin(c, tasks)
  PROVE  ChainOK' /\ FlagOK' /\ Links(archive_tasks', chain')
         /\ AtSame(chain, chain', {c}) /\ chain'[c] = [Idle EXCEPT !.at = "fetch"]
<1> DEFINE r == [Idle EXCEPT !.at = "fetch"]
<1>1. r \in ChainRecord /\ ShapeOf(r) /\ r.at = "fetch"
  BY IdleRecords
<1>2. chain' = [chain EXCEPT ![c] = r]
  BY DEF Begin
<1> HIDE DEF r
<1>3. ChainOK' /\ AtSame(chain, chain', {c}) /\ chain'[c] = r
  BY <1>1, <1>2, SetChain
<1>4. FetchTask(c) \in Tasks /\ ChainTask(FetchTask(c)) /\ FetchTask(c).chain = c /\ FetchTask(c).op = "fetch"
  BY DEF FetchTask, Tasks, ChainTask
<1>5. Links(Append(tasks, FetchTask(c)), chain')
  BY <1>1, <1>3, <1>4, LinksOwn
<1>6. FlagOK'
  <2>1. timers' \in Nat
    <3>1. CASE timer
      BY <3>1 DEF Begin, FlagOK
    <3>2. CASE ~timer
      BY <3>2 DEF Begin, FlagOK
    <3> QED
      BY <3>1, <3>2
  <2> QED
    BY <2>1, Zenon DEF Begin, FlagOK
<1> QED
  BY <1>3, <1>5, <1>6 DEF Begin, r

LEMMA FreeIsIdle ==
  ASSUME NEW c \in Chain, Free(c)
  PROVE  chain[c] = Idle /\ chain[c].at = "idle" /\ chain[c].at \notin Waits
BY DEF Free, Idle, Waits

LEMMA PostFacts ==
  ASSUME ChainOK, FlagOK, NEW tasks, Links(tasks, chain), PostPendingMessages(tasks)
  PROVE  ChainOK' /\ FlagOK' /\ Links(archive_tasks', chain')
<1>1. CASE sent_pending_messages_active
  BY <1>1 DEF PostPendingMessages, ChainOK, FlagOK, timerVars
<1>2. CASE ~sent_pending_messages_active
  <2>1. PICK c \in Chain : Free(c) /\ Begin(c, tasks)
    BY <1>2 DEF PostPendingMessages
  <2> QED
    BY <2>1, FreeIsIdle, BeginFacts
<1> QED
  BY <1>1, <1>2

\* The core thread's queue.
LEMMA CoreSame ==
  ASSUME CoreOK, UNCHANGED core_tasks
  PROVE  CoreOK'
BY DEF CoreOK, Ticks

LEMMA CoreTakes ==
  ASSUME CoreOK, NEW task, Continue(task)
  PROVE  CoreOK'
<1>1. Tail(core_tasks) \in Seq(Chain \cup {TickTask})
      /\ Cardinality(TicksIn(Tail(core_tasks))) <= Cardinality(TicksIn(core_tasks))
  BY TicksTail DEF CoreOK, Continue
<1>2. Cardinality(TicksIn(Tail(core_tasks))) \in Nat
  BY <1>1, TicksFinite
<1>3. core_tasks' = Tail(core_tasks)
  BY DEF Continue
<1>4. Ticks = Cardinality(TicksIn(core_tasks)) /\ Ticks' = Cardinality(TicksIn(core_tasks'))
  BY DEF Ticks, TicksIn
<1>5. Ticks' \in 0..MaxQueuedTicks
  BY <1>1, <1>2, <1>3, <1>4, OutboxAssumption DEF CoreOK
<1> QED
  BY <1>1, <1>3, <1>5 DEF CoreOK

LEMMA CoreGets ==
  ASSUME CoreOK, NEW op, NEW to, Run(op, to), to = <<>> \/ \E c \in Chain : to = <<c>>
  PROVE  CoreOK' /\ (TicksIn(core_tasks'))= TicksIn(core_tasks)
<1>1. core_tasks' = core_tasks \o to /\ core_tasks \in Seq(Chain \cup {TickTask})
  BY DEF Run, CoreOK
<1>2. CASE to = <<>>
  BY <1>1, <1>2, ConcatEmptySeq, CoreSame
<1>3. CASE \E c \in Chain : to = <<c>>
  <2>1. PICK c \in Chain : to = <<c>>
    BY <1>3
  <2>2. core_tasks' = Append(core_tasks, c)
    BY <1>1, <2>1, AppendIsConcat
  <2>3. c # TickTask
    BY OutboxAssumption DEF Chain, TickTask
  <2>4. core_tasks' \in Seq(Chain \cup {TickTask}) /\ TicksIn(core_tasks') = TicksIn(core_tasks)
    BY <1>1, <2>2, <2>3, TicksAppend
  <2> QED
    BY <2>4 DEF CoreOK, Ticks, TicksIn
<1> QED
  BY <1>2, <1>3

LEMMA Unchanged ==
  /\ UserOK /\ UNCHANGED userVars => UserOK'
  /\ StoreOK /\ UNCHANGED storeVars => StoreOK'
  /\ FlagOK /\ UNCHANGED <<sent_pending_messages_active, timerVars>> => FlagOK'
  /\ ServerOK /\ UNCHANGED server => ServerOK'
  /\ ChainOK /\ UNCHANGED chain => ChainOK'
<1>1. UserOK /\ UNCHANGED userVars => UserOK'
  BY DEF UserOK, userVars
<1>2. StoreOK /\ UNCHANGED storeVars => StoreOK'
  BY DEF StoreOK, storeVars
<1>3. FlagOK /\ UNCHANGED <<sent_pending_messages_active, timerVars>> => FlagOK'
  BY DEF FlagOK, timerVars
<1>4. ServerOK /\ UNCHANGED server => ServerOK'
  BY DEF ServerOK
<1>5. ChainOK /\ UNCHANGED chain => ChainOK'
  BY DEF ChainOK
<1> QED
  BY <1>1, <1>2, <1>3, <1>4, <1>5

LEMMA NewEntries ==
  ASSUME NEW m \in Message, NEW v \in Version, NEW modified \in BOOLEAN
  PROVE  /\ Entry(m, v, modified) \in Entries /\ Entry(m, v, modified).iid = m
         /\ Entry(m, v, modified).ver = v /\ Entry(m, v, modified).request = 0
BY OutboxAssumption DEF Entry, Entries

LEMMA PlainTasks ==
  /\ \A e \in Entries : LET t == [op |-> "insert", entry |-> e] IN t \in Tasks /\ ~ChainTask(t)
  /\ \A e \in Entries, b \in BOOLEAN :
       LET t == [op |-> "update", entry |-> e, edit |-> b] IN t \in Tasks /\ ~ChainTask(t)
  /\ \A m \in Message, op \in {"delete", "imstate"} :
       LET t == [op |-> op, iid |-> m] IN t \in Tasks /\ ~ChainTask(t)
  /\ \A m \in Message, v \in Version \cup {0}, b \in BOOLEAN :
       LET t == [op |-> "remove", chain |-> 0, iid |-> m, ver |-> v, remove_if_modified |-> b]
       IN  t \in Tasks /\ ~ChainTask(t)
BY DEF Tasks, ChainTask

LEMMA UserStepsType ==
  ASSUME TypeInv, NEW m \in Message,
         SendMessageToContact(m) \/ UpdateMessageToContact(m) \/ DeleteArchiveMessage(m)
           \/ OnDlgState(m) \/ OnEventImstate(m)
  PROVE  TypeInv'
<1> USE DEF TypeInv
<1>1. CASE SendMessageToContact(m)
  <2> DEFINE t == [op |-> "insert", entry |-> Entry(m, 1, FALSE)]
  <2>1. 1 \in Version
    BY OutboxAssumption DEF Version
  <2>2. t \in Tasks /\ ~ChainTask(t)
    BY <2>1, NewEntries, PlainTasks
  <2> HIDE DEF t
  <2>3. Links(Append(archive_tasks, t), chain)
    BY <2>2, LinksPlain
  <2>4. PostPendingMessages(Append(archive_tasks, t))
    BY <1>1 DEF SendMessageToContact, Queue, t
  <2>5. ChainOK' /\ FlagOK' /\ Links(archive_tasks', chain')
    BY <2>3, <2>4, PostFacts
  <2>6. UserOK'
    BY <1>1, OutboxAssumption DEF SendMessageToContact, UserOK
  <2> QED
    BY <1>1, <2>5, <2>6, Unchanged, CoreSame DEF SendMessageToContact
<1>2. CASE UpdateMessageToContact(m)
  <2> DEFINE t == [op |-> "update", entry |-> Entry(m, typed[m] + 1, TRUE), edit |-> TRUE]
  <2>1. typed[m] + 1 \in Version /\ typed[m] + 1 \in 0..MaxVersion
    BY <1>2, OutboxAssumption DEF UpdateMessageToContact, Version, UserOK
  <2>2. t \in Tasks /\ ~ChainTask(t)
    BY <2>1, NewEntries, PlainTasks
  <2> HIDE DEF t
  <2>3. Links(Append(archive_tasks, t), chain)
    BY <2>2, LinksPlain
  <2>4. \/ PostPendingMessages(Append(archive_tasks, t))
        \/ archive_tasks' = Append(archive_tasks, t)
           /\ UNCHANGED <<chain, sent_pending_messages_active, timerVars>>
    BY <1>2 DEF UpdateMessageToContact, Queue, t
  <2>5. ChainOK' /\ FlagOK' /\ Links(archive_tasks', chain')
    <3>1. CASE PostPendingMessages(Append(archive_tasks, t))
      BY <2>3, <3>1, PostFacts
    <3>2. CASE archive_tasks' = Append(archive_tasks, t)
               /\ UNCHANGED <<chain, sent_pending_messages_active, timerVars>>
      BY <2>3, <3>2, Unchanged
    <3> QED
      BY <2>4, <3>1, <3>2
  <2>6. UserOK'
    BY <1>2, <2>1 DEF UpdateMessageToContact, UserOK
  <2> QED
    BY <1>2, <2>5, <2>6, Unchanged, CoreSame DEF UpdateMessageToContact
<1>3. CASE DeleteArchiveMessage(m)
  <2> DEFINE t == [op |-> "delete", iid |-> m]
  <2>1. t \in Tasks /\ ~ChainTask(t)
    BY PlainTasks
  <2> HIDE DEF t
  <2>2. Links(Append(archive_tasks, t), chain)
    BY <2>1, LinksPlain
  <2> QED
    BY <1>3, <2>2, Unchanged, CoreSame DEF DeleteArchiveMessage, Queue, t
<1>4. CASE OnDlgState(m)
  <2> DEFINE t == [op |-> "remove", chain |-> 0, iid |-> m, ver |-> 0, remove_if_modified |-> FALSE]
  <2>1. t \in Tasks /\ ~ChainTask(t)
    BY PlainTasks
  <2> HIDE DEF t
  <2>2. Links(Append(archive_tasks, t), chain)
    BY <2>1, LinksPlain
  <2> QED
    BY <1>4, <2>2, Unchanged, CoreSame DEF OnDlgState, Queue, Unstored, t
<1>5. CASE OnEventImstate(m)
  <2> DEFINE t == [op |-> "imstate", iid |-> m]
  <2>1. t \in Tasks /\ ~ChainTask(t)
    BY PlainTasks
  <2> HIDE DEF t
  <2>2. Links(Append(archive_tasks, t), chain)
    BY <2>1, LinksPlain
  <2> QED
    BY <1>5, <2>2, Unchanged, CoreSame DEF OnEventImstate, Queue, Unstored, t
<1> QED
  BY <1>1, <1>2, <1>3, <1>4, <1>5

(***************************************************************************)
(* The archive thread.                                                     *)
(***************************************************************************)
LEMMA TaskFacts ==
  ASSUME TypeInv, archive_tasks # <<>>
  PROVE  /\ Task \in Tasks
         /\ ChainTask(Task) => Task.chain \in Chain /\ chain[Task.chain].at = Task.op
<1>1. AtSame(chain, chain, IF ChainTask(Head(archive_tasks)) THEN {Head(archive_tasks).chain} ELSE {})
  BY DEF AtSame
<1> QED
  BY <1>1, LinksTail DEF TypeInv, Task

LEMMA TaskFields ==
  ASSUME NEW t \in Tasks
  PROVE  /\ t.op = "insert" => t.entry \in Entries /\ ~ChainTask(t)
         /\ t.op = "update" => t.entry \in Entries /\ t.edit \in BOOLEAN /\ ~ChainTask(t)
         /\ t.op \in {"delete", "imstate"} => t.iid \in Message /\ ~ChainTask(t)
         /\ t.op = "stamp" => t.iid \in Message
         /\ t.op = "remove" => /\ t.chain \in Chain \cup {0} /\ t.iid \in Message
                               /\ t.ver \in Version \cup {0} /\ t.remove_if_modified \in BOOLEAN
                               /\ (ChainTask(t) <=> t.chain # 0)
BY DEF Tasks, ChainTask

IdleSame ==
  /\ TicksIn(core_tasks') = TicksIn(core_tasks)
  /\ \A c \in Chain : (chain'[c].at = "idle" <=> chain[c].at = "idle")

\* What a step of the archive thread leaves to be shown: the store and the chains.
LEMMA RunFacts ==
  ASSUME TypeInv, NEW op, NEW to, Run(op, to), to = <<>> \/ \E c \in Chain : to = <<c>>,
         AtSame(chain, chain', IF ChainTask(Task) THEN {Task.chain} ELSE {}), ChainOK', StoreOK',
         ChainTask(Task) => chain'[Task.chain].at # "idle"
  PROVE  TypeInv' /\ IdleSame /\ UNCHANGED <<sent_pending_messages_active, timer, timers>>
<1>1. archive_tasks # <<>> /\ archive_tasks' = Tail(archive_tasks)
      /\ UNCHANGED <<userVars, sent_pending_messages_active, timerVars, server>>
  BY DEF Run
<1>2. Links(archive_tasks', chain')
  BY <1>1, LinksTail DEF TypeInv, Task
<1>3. CoreOK' /\ TicksIn(core_tasks') = TicksIn(core_tasks)
  BY CoreGets DEF TypeInv
<1>4. ChainTask(Task) => Task.chain \in Chain /\ chain[Task.chain].at = Task.op /\ Task.op # "idle"
  BY <1>1, TaskFacts DEF ChainTask
<1>5. IdleSame
  BY <1>3, <1>4 DEF AtSame, IdleSame
<1> QED
  BY <1>1, <1>2, <1>3, <1>5, Unchanged DEF TypeInv, timerVars

LEMMA RemoveOutcomeFacts ==
  ASSUME StoreOK, Task.iid \in Message, Task.remove_if_modified \in BOOLEAN, RemoveOutcome,
         UNCHANGED accepted
  PROVE  LET m == Task.iid
             kept == KeptHere(pending, m, Task.remove_if_modified)
             e == Turned(pending, m, last_request + 1)
         IN  /\ StoreOK'
             /\ kept => /\ \A u : In(pending', u) <=> (In(pending, u) /\ u.iid # m) \/ u = e
                        /\ e.iid = m /\ e.ver = EntryOf(pending, m).ver /\ <<m, e.ver>> \in ids'
             /\ ~kept => \A u : In(pending', u) <=> In(pending, u) /\ u.iid # m
             /\ ids \subseteq ids'
<1> DEFINE m == Task.iid
           flag == Task.remove_if_modified
           e == Turned(pending, m, last_request + 1)
           kept == KeptHere(pending, m, flag)
<1>1. /\ kept => last_request < MaxRequests
      /\ pending' = RemoveMessage(pending, m, flag, last_request + 1)
      /\ last_request' = IF kept THEN last_request + 1 ELSE last_request
      /\ ids' = IF kept THEN ids \cup {<<m, EntryOf(pending, m).ver>>} ELSE ids
      /\ pending_deletes' \in {pending_deletes, pending_deletes \cup {m}}
      /\ refused' \in {refused, refused \cup {m}}
  BY DEF RemoveOutcome, KeptHere
<1>2. pending \in Pendings /\ last_request \in 0..MaxRequests
  BY DEF StoreOK
<1>3. CASE kept
  <2>1. last_request + 1 \in 0..MaxRequests
    BY <1>1, <1>2, <1>3, OutboxAssumption
  <2>2. /\ pending' \in Pendings
        /\ \A u : In(pending', u) <=> (In(pending, u) /\ u.iid # m) \/ u = e
        /\ e \in Entries /\ e.iid = m /\ e.ver = EntryOf(pending, m).ver
    BY <1>1, <1>2, <1>3, <2>1, RemoveMessageFacts
  <2> HIDE DEF e
  <2>3. e.ver \in Version
    BY <2>2 DEF Entries
  <2>4. ids' = ids \cup {<<m, e.ver>>} /\ last_request' = last_request + 1
    BY <1>1, <1>3, <2>2
  <2>5. StoreOK'
    BY <1>1, <2>1, <2>2, <2>3, <2>4 DEF StoreOK
  <2> QED
    BY <1>3, <2>2, <2>4, <2>5 DEF e
<1>4. CASE ~kept
  <2>1. pending' = EraseEntry(pending, m) /\ ids' = ids /\ last_request' = last_request
    BY <1>1, <1>4 DEF KeptHere, RemoveMessage
  <2>2. pending' \in Pendings /\ \A u : In(pending', u) <=> In(pending, u) /\ u.iid # m
    BY <1>2, <2>1, EraseFacts
  <2>3. StoreOK'
    BY <1>1, <2>1, <2>2 DEF StoreOK
  <2> QED
    BY <1>4, <2>1, <2>2, <2>3
<1> QED
  BY <1>3, <1>4

LEMMA HeadIsPending ==
  ASSUME NEW p \in Pendings, p # <<>>
  PROVE  GetFirstReadyToSend(p) \in Entries /\ In(p, GetFirstReadyToSend(p))
<1>1. p \in Seq(Entries)
  BY DEF Pendings
<1>2. TailOf(p, Tail(p)) /\ Head(p) \in Entries
  BY <1>1, TailPlaces
<1> QED
  BY <1>2 DEF TailOf, In, GetFirstReadyToSend

\* A record that is moved and keeps what it holds.
LEMMA MovedRecord ==
  ASSUME NEW r \in ChainRecord, ShapeOf(r), NEW at \in Places, at \notin {"idle", "fetch", "removed", "dropped"},
         at \in Sending => r.at \in Sending, at \in Packed => r.at \in Packed
  PROVE  LET r2 == [r EXCEPT !.at = at]
         IN  r2 \in ChainRecord /\ ShapeOf(r2) /\ r2.at = at /\ r2.entry = r.entry /\ r2.packet = r.packet
<1> DEFINE r2 == [r EXCEPT !.at = at]
<1>1. r2 \in ChainRecord /\ r2.at = at /\ r2.entry = r.entry /\ r2.packet = r.packet
  BY DEF ChainRecord
<1> HIDE DEF r2
<1>2. ShapeOf(r2)
  BY <1>1 DEF ShapeOf
<1> QED
  BY <1>1, <1>2 DEF r2

LEMMA ArchiveStepsType ==
  ASSUME TypeInv, ArchiveStep
  PROVE  TypeInv' /\ IdleSame /\ UNCHANGED <<sent_pending_messages_active, timer, timers>>
<1>0. archive_tasks # <<>>
  BY DEF ArchiveStep, ArchiveInsert, ArchiveUpdate, ArchiveDelete, ArchiveFetch, ArchiveStamp,
         ArchiveStore, ArchiveRemove, ArchiveImstate, Run
<1>1. /\ Task \in Tasks
      /\ ChainTask(Task) => Task.chain \in Chain /\ chain[Task.chain].at = Task.op
  BY <1>0, TaskFacts
<1>2. StoreOK /\ ChainOK /\ pending \in Pendings
  BY DEF TypeInv, StoreOK
<1>3. CASE ArchiveInsert
  <2>1. Run("insert", <<>>) /\ Task.op = "insert"
    BY <1>3 DEF ArchiveInsert, Run, Task
  <2>2. Task.entry \in Entries /\ ~ChainTask(Task)
    BY <1>1, <2>1, TaskFields
  <2>3. pending' \in Pendings
    BY <1>2, <1>3, <2>2, InsertFacts DEF ArchiveInsert
  <2>4. Task.entry.iid \in Message /\ Task.entry.ver \in 0..MaxVersion
    BY <2>2, OutboxAssumption DEF Entries, Version
  <2>5. StoreOK'
    BY <1>2, <1>3, <2>3, <2>4 DEF ArchiveInsert, StoreOK
  <2>6. ChainOK' /\ AtSame(chain, chain', {})
    BY <1>2, <1>3 DEF ArchiveInsert, ChainOK, AtSame
  <2> QED
    BY <2>1, <2>2, <2>5, <2>6, RunFacts
<1>4. CASE ArchiveUpdate
  <2>1. Run("update", <<>>) /\ Task.op = "update"
    BY <1>4 DEF ArchiveUpdate, Run, Task
  <2>2. Task.entry \in Entries /\ ~ChainTask(Task)
    BY <1>1, <2>1, TaskFields
  <2>3. Task.entry.iid \in Message /\ Task.entry.ver \in 0..MaxVersion
    BY <2>2, OutboxAssumption DEF Entries, Version
  <2>4. pending' \in Pendings
    BY <1>2, <1>4, <2>2, <2>3, ReplaceFacts DEF ArchiveUpdate, UpdateMessageIfExist
  <2>5. StoreOK'
    BY <1>2, <1>4, <2>3, <2>4 DEF ArchiveUpdate, StoreOK
  <2>6. ChainOK' /\ AtSame(chain, chain', {})
    BY <1>2, <1>4, <2>4, ChainsSeeFacts, FollowersOK DEF ArchiveUpdate
  <2> QED
    BY <2>1, <2>2, <2>5, <2>6, RunFacts
<1>5. CASE ArchiveDelete
  <2>1. Run("delete", <<>>) /\ Task.op = "delete"
    BY <1>5 DEF ArchiveDelete, Run, Task
  <2>2. Task.iid \in Message /\ ~ChainTask(Task)
    BY <1>1, <2>1, TaskFields
  <2>4. pending' \in Pendings
    BY <1>2, <1>5, <2>2, MarkFacts DEF ArchiveDelete
  <2>5. StoreOK'
    BY <1>2, <1>5, <2>4 DEF ArchiveDelete, StoreOK
  <2>6. ChainOK' /\ AtSame(chain, chain', {})
    BY <1>2, <1>5, <2>4, ChainsSeeFacts, FollowersOK DEF ArchiveDelete
  <2> QED
    BY <2>1, <2>2, <2>5, <2>6, RunFacts
<1>6. CASE ArchiveFetch
  <2> DEFINE c == Task.chain
             e == IF pending = <<>> THEN NoEntry ELSE GetFirstReadyToSend(pending)
             r == [chain[c] EXCEPT !.at = "fetched", !.entry = e]
  <2>1. Run("fetch", <<c>>) /\ Task.op = "fetch"
    BY <1>6 DEF ArchiveFetch, Run, Task
  <2>2. ChainTask(Task) /\ c \in Chain
    BY <1>1, <2>1 DEF ChainTask
  <2>3. e \in Entries \cup {NoEntry}
    BY <1>2, HeadIsPending
  <2>4. chain' = [chain EXCEPT ![c] = r]
    BY <1>6 DEF ArchiveFetch
  <2> HIDE DEF e, c
  <2>5. chain[c] \in ChainRecord
    BY <1>2, <2>2 DEF ChainOK
  <2>6. r \in ChainRecord /\ ShapeOf(r) /\ r.at # "idle"
    BY <2>3, <2>5 DEF ChainRecord, Places, ShapeOf, Sending, Packed
  <2> HIDE DEF r
  <2>7. ChainOK' /\ AtSame(chain, chain', {c}) /\ chain'[c].at # "idle"
    BY <1>2, <2>2, <2>4, <2>6, SetChain
  <2>8. StoreOK'
    BY <1>2, <1>6, Unchanged DEF ArchiveFetch
  <2> QED
    BY <2>1, <2>2, <2>7, <2>8, RunFacts DEF c
<1>7. CASE ArchiveStamp
  <2> DEFINE t == Task.chain
  <2>1. Run("stamp", <<t>>) /\ Task.op = "stamp"
    BY <1>7 DEF ArchiveStamp, Run, Task
  <2>2. ChainTask(Task) /\ t \in Chain /\ Task.iid \in Message /\ chain[t].at = "stamp"
    BY <1>1, <2>1, TaskFields DEF ChainTask
  <2>3. pending' \in Pendings
    BY <1>2, <1>7, <2>2, PostTimeFacts DEF ArchiveStamp
  <2>4. StoreOK'
    BY <1>2, <1>7, <2>3 DEF ArchiveStamp, StoreOK
  <2>5. ASSUME NEW c \in Chain
        PROVE  /\ chain'[c] \in ChainRecord /\ ShapeOf(chain'[c])
               /\ c # t => chain'[c].at = chain[c].at
               /\ c = t => chain'[c].at # "idle"
    <3>1. chain[c] \in ChainRecord /\ ShapeOf(chain[c])
      BY <1>2 DEF ChainOK
    <3>2. chain'[c] = IF ~Held(c) THEN chain[c]
                      ELSE [chain[c] EXCEPT !.entry = Seen(@), !.at = IF c = t THEN "stamped" ELSE @]
      BY <1>7 DEF ArchiveStamp
    <3> DEFINE r2 == IF chain[c].entry # NoEntry THEN [chain[c] EXCEPT !.entry = Seen(@)] ELSE chain[c]
    <3>3. Follows(chain[c], r2) /\ r2.at = chain[c].at
      BY <2>3, <3>1, SeenRecord
    <3>4. ShapeOf(r2) /\ r2 \in ChainRecord
      BY <3>1, <3>3, FollowsShape DEF Follows
    <3>5. CASE c # t
      <4>1. chain'[c] = r2
        BY <3>1, <3>2, <3>5 DEF Held, ChainRecord
      <4> QED
        BY <3>3, <3>4, <3>5, <4>1
    <3>6. CASE c = t
      <4>1. Held(c) /\ r2 = [chain[c] EXCEPT !.entry = Seen(@)]
        BY <2>2, <3>1, <3>6, EntryIsOne DEF Held, ShapeOf, Sending
      <4>2. chain'[c] = [r2 EXCEPT !.at = "stamped"]
        BY <3>1, <3>2, <3>6, <4>1 DEF ChainRecord
      <4> HIDE DEF r2
      <4>p. /\ "stamped" \in Places /\ "stamped" # "idle" /\ "stamped" \notin Packed
            /\ r2.at \in Sending
        BY <2>2, <3>3, <3>6 DEF Sending, Packed, Places
      <4>3. chain'[c] \in ChainRecord /\ ShapeOf(chain'[c]) /\ chain'[c].at # "idle"
        BY <3>4, <4>2, <4>p, MovedRecord
      <4> QED
        BY <3>6, <4>3
    <3> QED
      BY <3>5, <3>6
  <2>6. ChainOK' /\ AtSame(chain, chain', {t}) /\ chain'[t].at # "idle"
    <3>1. chain' = [c \in Chain |-> chain'[c]]
      BY <1>7 DEF ArchiveStamp
    <3> QED
      BY <2>2, <2>5, <3>1 DEF ChainOK, AtSame
  <2> QED
    BY <2>1, <2>2, <2>4, <2>6, RunFacts
<1>8. CASE ArchiveStore
  <2> DEFINE c == Task.chain
             r == [chain[c] EXCEPT !.at = "stored"]
  <2>1. Run("store", <<c>>) /\ Task.op = "store"
    BY <1>8 DEF ArchiveStore, Run, Task
  <2>2. ChainTask(Task) /\ c \in Chain /\ chain[c].at = "store"
    BY <1>1, <2>1 DEF ChainTask
  <2>4. chain' = [chain EXCEPT ![c] = r]
    BY <1>8 DEF ArchiveStore
  <2> HIDE DEF c
  <2>5. chain[c] \in ChainRecord /\ ShapeOf(chain[c])
    BY <1>2, <2>2 DEF ChainOK
  <2>6. r \in ChainRecord /\ ShapeOf(r) /\ r.at # "idle"
    BY <2>2, <2>5, MovedRecord DEF Places, Sending, Packed
  <2> HIDE DEF r
  <2>7. ChainOK' /\ AtSame(chain, chain', {c}) /\ chain'[c].at # "idle"
    BY <1>2, <2>2, <2>4, <2>6, SetChain
  <2>8. StoreOK'
    BY <1>2, <1>8, Unchanged DEF ArchiveStore
  <2> QED
    BY <2>1, <2>2, <2>7, <2>8, RunFacts DEF c
<1>9. CASE ArchiveRemove
  <2> DEFINE t == Task.chain
             to == IF t = 0 THEN <<>> ELSE <<t>>
  <2>1. Run("remove", to) /\ Task.op = "remove"
    BY <1>9 DEF ArchiveRemove, Run, Task
  <2>2. /\ Task.iid \in Message /\ Task.remove_if_modified \in BOOLEAN /\ t \in Chain \cup {0}
        /\ ChainTask(Task) <=> t # 0
    BY <1>1, <2>1, TaskFields
  <2>3. StoreOK' /\ pending' \in Pendings
    BY <1>2, <1>9, <2>2, RemoveOutcomeFacts DEF ArchiveRemove, StoreOK
  <2>4. ASSUME NEW c \in Chain
        PROVE  /\ chain'[c] \in ChainRecord /\ ShapeOf(chain'[c])
               /\ c # t => chain'[c].at = chain[c].at
               /\ c = t => chain'[c].at # "idle"
    <3>1. chain[c] \in ChainRecord /\ ShapeOf(chain[c])
      BY <1>2 DEF ChainOK
    <3> DEFINE r2 == IF chain[c].entry # NoEntry THEN [chain[c] EXCEPT !.entry = Seen(@)] ELSE chain[c]
    <3>2. chain'[c] = IF c = t THEN [Idle EXCEPT !.at = "removed"] ELSE r2
      BY <1>9 DEF ArchiveRemove, Held
    <3>3. Follows(chain[c], r2) /\ r2.at = chain[c].at
      BY <2>3, <3>1, SeenRecord
    <3>4. ShapeOf(r2) /\ r2 \in ChainRecord
      BY <3>1, <3>3, FollowsShape DEF Follows
    <3> HIDE DEF r2
    <3> QED
      BY <3>2, <3>3, <3>4, IdleRecords
  <2>5. /\ ChainOK' /\ AtSame(chain, chain', IF ChainTask(Task) THEN {t} ELSE {})
        /\ ChainTask(Task) => chain'[t].at # "idle"
    <3>1. chain' = [c \in Chain |-> chain'[c]]
      BY <1>9 DEF ArchiveRemove
    <3>2. \A c \in Chain : c # 0
      BY OutboxAssumption DEF Chain
    <3> QED
      BY <2>2, <2>4, <3>1, <3>2 DEF ChainOK, AtSame
  <2>6. to = <<>> \/ \E c \in Chain : to = <<c>>
    BY <2>2
  <2> QED
    BY <2>1, <2>3, <2>5, <2>6, RunFacts
<1>10. CASE ArchiveImstate
  <2>1. Run("imstate", <<>>) /\ Task.op = "imstate"
    BY <1>10 DEF ArchiveImstate, Run, Task
  <2>2. Task.iid \in Message /\ ~ChainTask(Task)
    BY <1>1, <2>1, TaskFields
  <2>4. pending' \in Pendings
    BY <1>2, <1>10, <2>2, ImstateFacts DEF ArchiveImstate
  <2>5. StoreOK'
    BY <1>2, <1>10, <2>2, <2>4 DEF ArchiveImstate, StoreOK
  <2>6. ChainOK' /\ AtSame(chain, chain', {})
    BY <1>2, <1>10, <2>4, ChainsSeeFacts, FollowersOK DEF ArchiveImstate
  <2> QED
    BY <2>1, <2>2, <2>5, <2>6, RunFacts
<1> QED
  BY <1>3, <1>4, <1>5, <1>6, <1>7, <1>8, <1>9, <1>10 DEF ArchiveStep

(***************************************************************************)
(* The chain on the core thread, its packet and its timer.                 *)
(***************************************************************************)
\* A chain is moved by the core thread, which the archive thread does not wait for.
LEMMA MoveFacts ==
  ASSUME ChainOK, Links(archive_tasks, chain), NEW c \in Chain, chain[c].at \notin Waits,
         NEW r \in ChainRecord, ShapeOf(r), chain' = [chain EXCEPT ![c] = r]
  PROVE  /\ ChainOK' /\ AtSame(chain, chain', {c}) /\ chain'[c] = r
         /\ archive_tasks' = archive_tasks => Links(archive_tasks', chain')
<1>1. ChainOK' /\ AtSame(chain, chain', {c}) /\ chain'[c] = r
  BY SetChain
<1>2. Links(archive_tasks, chain')
  BY <1>1, Relink
<1> QED
  BY <1>1, <1>2

\* A task of its own follows the chain to the archive thread.
LEMMA HandOver ==
  ASSUME ChainOK, Links(archive_tasks, chain), NEW c \in Chain, chain[c].at \notin Waits,
         NEW r \in ChainRecord, ShapeOf(r), chain' = [chain EXCEPT ![c] = r],
         NEW t \in Tasks, ChainTask(t), t.chain = c, t.op = r.at, archive_tasks' = Queue(t)
  PROVE  ChainOK' /\ Links(archive_tasks', chain')
<1>1. ChainOK' /\ AtSame(chain, chain', {c}) /\ chain'[c] = r
  BY SetChain
<1> QED
  BY <1>1, LinksOwn DEF Queue

LEMMA TimerStarts ==
  ASSUME FlagOK, timer' = TRUE, timers' = timers + 1, UNCHANGED sent_pending_messages_active
  PROVE  FlagOK'
<1>1. timers' \in Nat /\ timers' > 0
  BY DEF FlagOK
<1> QED
  BY <1>1, Zenon DEF FlagOK

LEMMA FlagFalls ==
  ASSUME FlagOK, sent_pending_messages_active' = FALSE, UNCHANGED timerVars
  PROVE  FlagOK'
BY Zenon DEF FlagOK, timerVars

LEMMA HandledFacts ==
  ASSUME ServerOK, NEW p \in Packets,
         server' = IF p.request \in server[p.iid].seen THEN server
                   ELSE [server EXCEPT ![p.iid] =
                           [ver |-> p.ver, seen |-> @.seen \cup {p.request},
                            made |-> IF p.updated THEN @.made ELSE @.made + 1]]
  PROVE  /\ ServerOK'
         /\ \A m \in Message : m # p.iid => server'[m] = server[m]
         /\ p.request \in server[p.iid].seen => server' = server
         /\ p.request \notin server[p.iid].seen =>
              server'[p.iid] = [ver |-> p.ver, seen |-> server[p.iid].seen \cup {p.request},
                                made |-> IF p.updated THEN server[p.iid].made
                                         ELSE server[p.iid].made + 1]
<1> DEFINE s == server[p.iid]
           r == [ver |-> p.ver, seen |-> s.seen \cup {p.request},
                 made |-> IF p.updated THEN s.made ELSE s.made + 1]
<1>1. p.iid \in Message /\ p.ver \in 0..MaxVersion /\ p.request \in 0..MaxRequests
  BY OutboxAssumption DEF Packets, Version
<1>2. s.seen \in SUBSET (0..MaxRequests) /\ s.made \in Nat
  BY <1>1 DEF ServerOK
<1>3. r \in [ver : 0..MaxVersion, seen : SUBSET (0..MaxRequests), made : Nat]
  BY <1>1, <1>2
<1>4. server' = IF p.request \in s.seen THEN server ELSE [server EXCEPT ![p.iid] = r]
  OBVIOUS
<1> HIDE DEF r
<1>5. ServerOK' /\ \A m \in Message : m # p.iid => server'[m] = server[m]
  BY <1>1, <1>3, <1>4 DEF ServerOK
<1>6. p.request \notin s.seen => server'[p.iid] = r
  BY <1>1, <1>4 DEF ServerOK
<1> QED
  BY <1>4, <1>5, <1>6 DEF r

LEMMA ChainStepsType ==
  ASSUME TypeInv, NEW c \in Chain, ChainStep(c) \/ PacketDropped(c) \/ ServerHandles(c)
  PROVE  TypeInv'
<1> USE DEF TypeInv
<1> DEFINE r == chain[c]
           at == chain[c].at
<1>1. r \in ChainRecord /\ ShapeOf(r)
  BY DEF ChainOK
<1>2. UserOK' /\ StoreOK'
  BY Unchanged DEF ChainStep, PacketDropped, ServerHandles, FetchedNothing, FetchedRecent,
     FetchedReady, SendPendingMessageAsync, AnsweredHistId, AnsweredNoHistId, AnsweredRefused,
     AnsweredError, Stored, Removed, Unstored
<1>3. CASE FetchedNothing(c)
  <2>1. at \notin Waits
    BY <1>3 DEF FetchedNothing, Waits
  <2>2. ChainOK' /\ Links(archive_tasks', chain')
    BY <1>3, <2>1, MoveFacts, IdleRecords DEF FetchedNothing, ChainEnds
  <2> QED
    BY <1>2, <1>3, <2>2, CoreTakes, FlagFalls, Unchanged DEF FetchedNothing, ChainEnds
<1>4. CASE FetchedRecent(c)
  <2>1. at \notin Waits
    BY <1>4 DEF FetchedRecent, Waits
  <2>2. ChainOK' /\ Links(archive_tasks', chain')
    BY <1>4, <2>1, MoveFacts, IdleRecords DEF FetchedRecent
  <2> QED
    BY <1>2, <1>4, <2>2, CoreTakes, TimerStarts, Unchanged DEF FetchedRecent
<1>5. CASE FetchedReady(c)
  <2> DEFINE r2 == [r EXCEPT !.at = "stamp"]
             t == [op |-> "stamp", chain |-> c, iid |-> r.entry.iid]
  <2>1. at = "fetched" /\ at \notin Waits /\ r.entry \in Entries
    BY <1>1, <1>5 DEF FetchedReady, Held, Waits, ChainRecord
  <2>2. r2 \in ChainRecord /\ ShapeOf(r2) /\ r2.at = "stamp"
    BY <1>1, <2>1 DEF ChainRecord, Places, ShapeOf, Sending, Packed
  <2>3. t \in Tasks /\ ChainTask(t) /\ t.chain = c /\ t.op = "stamp"
    BY <2>1 DEF Tasks, ChainTask, Entries
  <2>4. chain' = [chain EXCEPT ![c] = r2] /\ archive_tasks' = Queue(t)
    BY <1>5 DEF FetchedReady
  <2> HIDE DEF r2, t
  <2>5. ChainOK' /\ Links(archive_tasks', chain')
    BY <2>1, <2>2, <2>3, <2>4, HandOver
  <2> QED
    BY <1>2, <1>5, <2>5, CoreTakes, Unchanged DEF FetchedReady
<1>6. CASE SendPendingMessageAsync(c)
  <2> DEFINE e == r.entry
             p == [iid |-> e.iid, ver |-> e.ver, request |-> e.request,
                   updated |-> <<e.iid, e.ver>> \in ids]
             r2 == [r EXCEPT !.at = "wire", !.packet = p]
  <2>1. at = "stamped" /\ at \notin Waits /\ e \in Entries
    BY <1>1, <1>6 DEF SendPendingMessageAsync, Waits, ShapeOf, Sending
  <2>2. p \in Packets /\ p.iid = e.iid /\ p.ver = e.ver
    BY <2>1 DEF Packets, Entries
  <2>3. chain' = [chain EXCEPT ![c] = r2]
    BY <1>6 DEF SendPendingMessageAsync
  <2> HIDE DEF p
  <2>4. r2 \in ChainRecord /\ ShapeOf(r2)
    BY <1>1, <2>1, <2>2 DEF ChainRecord, Places, ShapeOf
  <2> HIDE DEF r2
  <2>5. ChainOK' /\ Links(archive_tasks', chain')
    BY <1>6, <2>1, <2>3, <2>4, MoveFacts DEF SendPendingMessageAsync
  <2> QED
    BY <1>2, <1>6, <2>5, CoreTakes, Unchanged DEF SendPendingMessageAsync
<1>7. CASE AnsweredHistId(c)
  <2> DEFINE r2 == [r EXCEPT !.at = "store"]
             t == [op |-> "store", chain |-> c]
  <2>1. at = "handled" /\ at \notin Waits /\ at \in Packed /\ at \in Sending
    BY <1>7 DEF AnsweredHistId, Waits, Packed, Sending
  <2>p. "store" \in Places /\ "store" # "idle"
    BY DEF Places
  <2>2. r2 \in ChainRecord /\ ShapeOf(r2) /\ r2.at = "store"
    BY <1>1, <2>1, <2>p, MovedRecord
  <2>3. t \in Tasks /\ ChainTask(t) /\ t.chain = c /\ t.op = "store"
    BY DEF Tasks, ChainTask
  <2>4. chain' = [chain EXCEPT ![c] = r2] /\ archive_tasks' = Queue(t)
    BY <1>7 DEF AnsweredHistId
  <2> HIDE DEF r2, t
  <2>5. ChainOK' /\ Links(archive_tasks', chain')
    BY <2>1, <2>2, <2>3, <2>4, HandOver
  <2> QED
    BY <1>2, <1>7, <2>5, CoreSame, Unchanged DEF AnsweredHistId
<1>8. CASE AnsweredNoHistId(c)
  <2> DEFINE t == [op |-> "update", entry |-> r.entry, edit |-> FALSE]
  <2>1. at = "handled" /\ at \notin Waits /\ r.entry \in Entries
    BY <1>1, <1>8 DEF AnsweredNoHistId, Waits, ShapeOf, Sending, Packed
  <2>2. t \in Tasks /\ ~ChainTask(t)
    BY <2>1, PlainTasks
  <2>3. Begin(c, Append(archive_tasks, t))
    BY <1>8 DEF AnsweredNoHistId, Queue
  <2> HIDE DEF t
  <2>4. Links(Append(archive_tasks, t), chain)
    BY <2>2, LinksPlain
  <2>5. ChainOK' /\ FlagOK' /\ Links(archive_tasks', chain')
    BY <2>1, <2>3, <2>4, BeginFacts
  <2> QED
    BY <1>2, <1>8, <2>5, CoreSame, Unchanged DEF AnsweredNoHistId
<1>9. CASE AnsweredRefused(c)
  <2> DEFINE t == [op |-> "remove", chain |-> 0, iid |-> r.entry.iid, ver |-> r.entry.ver,
                   remove_if_modified |-> TRUE]
  <2>1. at = "wire" /\ at \notin Waits /\ r.entry \in Entries
    BY <1>1, <1>9 DEF AnsweredRefused, Waits, ShapeOf, Sending, Packed
  <2>2. t \in Tasks /\ ~ChainTask(t)
    BY <2>1, PlainTasks DEF Entries
  <2>3. chain' = [chain EXCEPT ![c] = Idle] /\ archive_tasks' = Append(archive_tasks, t)
    BY <1>9 DEF AnsweredRefused, ChainEnds, Queue
  <2> HIDE DEF t
  <2>4. ChainOK' /\ AtSame(chain, chain', {c})
    BY <2>3, SetChain, IdleRecords
  <2>5. Links(archive_tasks, chain')
    BY <2>1, <2>4, Relink
  <2>6. Links(archive_tasks', chain')
    BY <2>2, <2>3, <2>5, LinksPlain
  <2> QED
    BY <1>2, <1>9, <2>4, <2>6, CoreSame, FlagFalls, Unchanged DEF AnsweredRefused, ChainEnds
<1>10. CASE AnsweredError(c)
  <2>1. at \notin Waits
    BY <1>10 DEF AnsweredError, Waits
  <2>2. ChainOK' /\ Links(archive_tasks', chain')
    BY <1>10, <2>1, MoveFacts, IdleRecords DEF AnsweredError, ChainEnds
  <2> QED
    BY <1>2, <1>10, <2>2, CoreSame, FlagFalls, Unchanged DEF AnsweredError, ChainEnds
<1>11. CASE Stored(c)
  <2> DEFINE r2 == [r EXCEPT !.at = "remove"]
             t == [op |-> "remove", chain |-> c, iid |-> r.entry.iid, ver |-> 0,
                   remove_if_modified |-> FALSE]
  <2>1. at = "stored" /\ at \notin Waits /\ at \in Packed /\ at \in Sending /\ r.entry \in Entries
    BY <1>1, <1>11 DEF Stored, Waits, Packed, Sending, ShapeOf
  <2>p. "remove" \in Places /\ "remove" # "idle"
    BY DEF Places
  <2>2. r2 \in ChainRecord /\ ShapeOf(r2) /\ r2.at = "remove"
    BY <1>1, <2>1, <2>p, MovedRecord
  <2>3. t \in Tasks /\ ChainTask(t) /\ t.chain = c /\ t.op = "remove"
    BY <2>1, OutboxAssumption DEF Tasks, ChainTask, Entries, Chain
  <2>4. chain' = [chain EXCEPT ![c] = r2] /\ archive_tasks' = Queue(t)
    BY <1>11 DEF Stored
  <2> HIDE DEF r2, t
  <2>5. ChainOK' /\ Links(archive_tasks', chain')
    BY <2>1, <2>2, <2>3, <2>4, HandOver
  <2> QED
    BY <1>2, <1>11, <2>5, CoreTakes, Unchanged DEF Stored
<1>12. CASE Removed(c)
  <2>1. at \notin Waits /\ Begin(c, archive_tasks)
    BY <1>12 DEF Removed, Waits
  <2>2. ChainOK' /\ FlagOK' /\ Links(archive_tasks', chain')
    BY <2>1, BeginFacts
  <2> QED
    BY <1>2, <1>12, <2>2, CoreTakes, Unchanged DEF Removed
<1>13. CASE PacketDropped(c)
  <2> DEFINE r2 == [Idle EXCEPT !.at = "dropped"]
  <2>1. at \notin Waits /\ chain' = [chain EXCEPT ![c] = r2]
    BY <1>13 DEF PacketDropped, Waits
  <2>2. r2 \in ChainRecord /\ ShapeOf(r2)
    BY IdleRecords
  <2> HIDE DEF r2
  <2>3. ChainOK' /\ Links(archive_tasks', chain')
    BY <1>13, <2>1, <2>2, MoveFacts DEF PacketDropped
  <2> QED
    BY <1>2, <1>13, <2>3, CoreSame, Unchanged DEF PacketDropped
<1>14. CASE ServerHandles(c)
  <2> DEFINE r2 == [r EXCEPT !.at = "handled"]
  <2>1. at = "wire" /\ at \notin Waits /\ at \in Packed /\ at \in Sending /\ r.packet \in Packets
    BY <1>1, <1>14 DEF ServerHandles, Waits, Packed, Sending, ShapeOf
  <2>p. "handled" \in Places /\ "handled" # "idle"
    BY DEF Places
  <2>2. r2 \in ChainRecord /\ ShapeOf(r2)
    BY <1>1, <2>1, <2>p, MovedRecord
  <2>3. chain' = [chain EXCEPT ![c] = r2]
    BY <1>14 DEF ServerHandles
  <2> HIDE DEF r2
  <2>4. ChainOK' /\ Links(archive_tasks', chain')
    BY <1>14, <2>1, <2>2, <2>3, MoveFacts DEF ServerHandles
  <2>5. ServerOK'
    BY <1>14, <2>1, HandledFacts DEF ServerHandles
  <2> QED
    BY <1>2, <1>14, <2>4, <2>5, CoreSame, Unchanged DEF ServerHandles
<1> QED
  BY <1>3, <1>4, <1>5, <1>6, <1>7, <1>8, <1>9, <1>10, <1>11, <1>12, <1>13, <1>14 DEF ChainStep

LEMMA AllAged ==
  ASSUME TypeInv, chain' = [c \in Chain |-> [chain[c] EXCEPT !.entry = Aged(@)]],
         pending' = [i \in DOMAIN pending |-> Aged(pending[i])],
         UNCHANGED <<pending_deletes, ids, last_request, accepted, refused>>
  PROVE  /\ ChainOK' /\ StoreOK' /\ AllFollow /\ AtSame(chain, chain', {})
         /\ Kindred(pending, pending') /\ \A m : Exists(pending', m) <=> Exists(pending, m)
         /\ Links(archive_tasks, chain')
<1>1. pending \in Pendings /\ StoreOK /\ ChainOK
  BY DEF TypeInv, StoreOK
<1>2. pending' \in Pendings /\ Kindred(pending, pending')
      /\ \A m : Exists(pending', m) <=> Exists(pending, m)
  BY <1>1, AgedListFacts
<1>3. StoreOK'
  BY <1>1, <1>2 DEF StoreOK
<1>4. ASSUME NEW c \in Chain PROVE Follows(chain[c], chain'[c]) /\ chain'[c].at = chain[c].at
  BY <1>1, AgedRecord DEF ChainOK
<1>5. chain' \in [Chain -> ChainRecord]
  <2>1. chain' = [c \in Chain |-> chain'[c]]
    OBVIOUS
  <2> QED
    BY <1>4, <2>1 DEF Follows
<1>6. AllFollow /\ AtSame(chain, chain', {})
  BY <1>4, <1>5 DEF AllFollow, AtSame
<1>7. Links(archive_tasks, chain')
  BY <1>6, Relink DEF TypeInv
<1> QED
  BY <1>1, <1>2, <1>3, <1>6, <1>7, FollowersOK

LEMMA TimeStepsType ==
  ASSUME TypeInv, SecondPasses \/ TimerFires \/ Tick \/ ResumeFailedNetworkRequests
  PROVE  TypeInv'
<1> USE DEF TypeInv
<1>1. CASE SecondPasses
  <2>1. ChainOK' /\ StoreOK' /\ Links(archive_tasks', chain')
    BY <1>1, AllAged DEF SecondPasses
  <2> QED
    BY <1>1, <2>1, CoreSame, Unchanged DEF SecondPasses
<1>2. CASE TimerFires
  <2>1. ChainOK' /\ StoreOK' /\ Links(archive_tasks', chain')
    BY <1>2, AllAged DEF TimerFires
  <2>2. /\ core_tasks' = Append(core_tasks, TickTask) /\ Ticks < MaxQueuedTicks
        /\ core_tasks \in Seq(Chain \cup {TickTask})
    BY <1>2 DEF TimerFires, CoreOK
  <2>3. /\ core_tasks' \in Seq(Chain \cup {TickTask})
        /\ Cardinality(TicksIn(core_tasks')) <= Cardinality(TicksIn(core_tasks)) + 1
    BY <2>2, TicksAppend
  <2>4. Cardinality(TicksIn(core_tasks')) \in Nat /\ Cardinality(TicksIn(core_tasks)) \in Nat
    BY <2>2, <2>3, TicksFinite
  <2>5. Ticks = Cardinality(TicksIn(core_tasks)) /\ Ticks' = Cardinality(TicksIn(core_tasks'))
    BY DEF Ticks, TicksIn
  <2>6. Ticks' \in 0..MaxQueuedTicks
    BY <2>2, <2>3, <2>4, <2>5, OutboxAssumption
  <2> QED
    BY <1>2, <2>1, <2>3, <2>6, Unchanged DEF TimerFires, CoreOK
<1>3. CASE Tick
  <2>1. PICK c \in Chain : Free(c) /\ Begin(c, archive_tasks)
    BY <1>3 DEF Tick
  <2>2. ChainOK' /\ FlagOK' /\ Links(archive_tasks', chain')
    BY <2>1, FreeIsIdle, BeginFacts
  <2> QED
    BY <1>3, <2>2, CoreTakes, Unchanged DEF Tick, Unstored
<1>4. CASE ResumeFailedNetworkRequests
  <2>1. ChainOK' /\ FlagOK' /\ Links(archive_tasks', chain')
    BY <1>4, PostFacts DEF ResumeFailedNetworkRequests
  <2> QED
    BY <1>4, <2>1, CoreSame, Unchanged DEF ResumeFailedNetworkRequests, Unstored
<1> QED
  BY <1>1, <1>2, <1>3, <1>4

LEMMA CrashType ==
  ASSUME TypeInv, NEW torn \in BOOLEAN, Crash(torn)
  PROVE  TypeInv'
<1> USE DEF TypeInv
<1>1. UserOK'
  BY OutboxAssumption DEF Crash, UserOK
<1>2. pending \in Pendings
  BY DEF StoreOK
<1>3. pending' \in Pendings
  <2>1. <<>> \in Pendings
    BY DEF Pendings
  <2>2. [i \in DOMAIN pending |-> Aged(pending[i])] \in Pendings
    BY <1>2, AgedListFacts
  <2>3. pending' = <<>> \/ pending' = [i \in DOMAIN pending |-> Aged(pending[i])]
    BY DEF Crash
  <2> QED
    BY <2>1, <2>2, <2>3, Zenon
<1>4. StoreOK'
  BY <1>3 DEF Crash, StoreOK
<1>5. ChainOK'
  BY IdleRecords DEF Crash, ChainOK
<1>6. Links(archive_tasks', chain')
  BY DEF Crash, Links
<1>7. CoreOK'
  <2>1. core_tasks' = <<>>
    BY DEF Crash
  <2>2. TicksIn(core_tasks') = {}
    BY <2>1 DEF TicksIn
  <2>3. Ticks' = Cardinality(TicksIn(core_tasks'))
    BY DEF Ticks, TicksIn
  <2>4. Ticks' = 0
    BY <2>2, <2>3, FS_EmptySet
  <2> QED
    BY <2>1, <2>4, OutboxAssumption DEF CoreOK
<1>8. FlagOK'
  <2>1. timers' = 0 /\ timers' \in Nat
    BY DEF Crash
  <2> QED
    BY <2>1, Zenon DEF FlagOK, Crash
<1>9. ServerOK'
  BY Unchanged DEF Crash
<1> QED
  BY <1>1, <1>4, <1>5, <1>6, <1>7, <1>8, <1>9

LEMMA NextType ==
  TypeInv /\ [Next]_vars => TypeInv'
<1> SUFFICES ASSUME TypeInv, [Next]_vars PROVE TypeInv'
  OBVIOUS
<1>1. CASE UNCHANGED vars
  <2>1. UserOK' /\ StoreOK' /\ CoreOK' /\ FlagOK' /\ ServerOK' /\ ChainOK'
    BY <1>1, CoreSame, Unchanged DEF vars, userVars, storeVars, timerVars, TypeInv
  <2> QED
    BY <1>1, <2>1 DEF vars, TypeInv
<1>2. CASE Next
  BY <1>2, UserStepsType, ArchiveStepsType, ChainStepsType, TimeStepsType, CrashType DEF Next
<1> QED
  BY <1>1, <1>2

\* The state has its types; in particular no internal id is pending twice, and a
\* continuation finds its chain where it left it.
THEOREM TypeAlways == Spec => []TypeInv
<1> QED
  BY TypeInit, NextType, PTL DEF Spec

\* Every variable keeps its type, for any bounds.
THEOREM TypeCorrect == Spec => []TypeOK
<1> QED
  BY TypeAlways, TypeInvIsEnough, PTL

(***************************************************************************)
(* One chain.  Each step is of one of these kinds.                         *)
(***************************************************************************)
AllIdle == \A c \in Chain : chain[c] = Idle
NoTick == TicksIn(core_tasks) = {}

Quiet ==
  /\ UNCHANGED <<sent_pending_messages_active, timer, timers>>
  /\ (NoTick' <=> NoTick) /\ \A c \in Chain : (chain'[c] = Idle <=> chain[c] = Idle)
Starts ==
  /\ sent_pending_messages_active' = TRUE /\ timer' = FALSE /\ timers' = 0 /\ NoTick'
  /\ \E c \in Chain : chain'[c] # Idle /\ \A d \in Chain : d # c => chain'[d] = Idle
Ends ==
  /\ sent_pending_messages_active' = FALSE /\ timer' = FALSE /\ timers' = 0 /\ NoTick' /\ AllIdle'
Timed ==
  /\ sent_pending_messages_active' = TRUE /\ timer' = TRUE /\ timers' = 1 /\ NoTick' /\ AllIdle'
Fires ==
  /\ timers > 0 /\ ~NoTick'
  /\ UNCHANGED <<sent_pending_messages_active, timer, timers>>
  /\ \A c \in Chain : (chain'[c] = Idle <=> chain[c] = Idle)

LEMMA TicksZero ==
  ASSUME CoreOK
  PROVE  Ticks > 0 <=> ~NoTick
<1>1. /\ Cardinality(TicksIn(core_tasks)) \in Nat
      /\ Cardinality(TicksIn(core_tasks)) = 0 <=> TicksIn(core_tasks) = {}
  BY TicksFinite DEF CoreOK
<1>2. Ticks = Cardinality(TicksIn(core_tasks))
  BY DEF Ticks, TicksIn
<1>3. Ticks > 0 <=> Cardinality(TicksIn(core_tasks)) # 0
  BY <1>1, <1>2
<1> QED
  BY <1>1, <1>3, Zenon DEF NoTick

\* OneActiveChain, said of places in the queue instead of their number.
OneInv ==
  /\ sent_pending_messages_active <=> ~AllIdle \/ timers > 0 \/ ~NoTick
  /\ \A c, d \in Chain : chain[c] # Idle /\ chain[d] # Idle => c = d
  /\ timers > 0 \/ ~NoTick => AllIdle
  /\ timers <= 1 /\ (timer <=> timers = 1)

LEMMA OneInvIsIt ==
  ASSUME CoreOK
  PROVE  OneInv <=> OneActiveChain
<1>1. OneActiveChain <=>
        /\ sent_pending_messages_active <=> (\E c \in Chain : chain[c] # Idle) \/ timers > 0 \/ Ticks > 0
        /\ \A c, d \in Chain : chain[c] # Idle /\ chain[d] # Idle => c = d
        /\ timers > 0 \/ Ticks > 0 => \A c \in Chain : chain[c] = Idle
        /\ timers <= 1 /\ (timer <=> timers = 1)
  BY Zenon DEF OneActiveChain, ActiveHasChain, OneChain
<1>2. (\E c \in Chain : chain[c] # Idle) <=> ~AllIdle
  BY DEF AllIdle
<1>3. (\A c \in Chain : chain[c] = Idle) <=> AllIdle
  BY DEF AllIdle
<1>4. Ticks > 0 <=> ~NoTick
  BY TicksZero
<1> QED
  BY <1>1, <1>2, <1>3, <1>4, Zenon DEF OneInv

LEMMA KindsKeepOne ==
  ASSUME FlagOK, OneInv, Quiet \/ Starts \/ Ends \/ Timed \/ Fires
  PROVE  OneInv'
<1>a. 0 <= 1 /\ 1 <= 1 /\ ~(0 > 0) /\ 1 > 0 /\ 0 # 1
  OBVIOUS
<1>1. CASE Quiet
  BY <1>1, Zenon DEF Quiet, OneInv, AllIdle
<1>2. CASE Starts
  <2>1. \A c, d \in Chain : chain'[c] # Idle /\ chain'[d] # Idle => c = d
    BY <1>2, Zenon DEF Starts
  <2>2. ~AllIdle'
    BY <1>2, Zenon DEF Starts, AllIdle
  <2> QED
    BY <1>a, <1>2, <2>1, <2>2, Zenon DEF Starts, OneInv
<1>3. CASE Ends
  BY <1>a, <1>3, Zenon DEF Ends, OneInv, AllIdle
<1>4. CASE Timed
  BY <1>a, <1>4, Zenon DEF Timed, OneInv, AllIdle
<1>5. CASE Fires
  <2>1. AllIdle' <=> AllIdle
    BY <1>5, Zenon DEF Fires, AllIdle
  <2>2. \A c, d \in Chain : chain'[c] # Idle /\ chain'[d] # Idle => c = d
    BY <1>5, Zenon DEF Fires, OneInv
  <2> QED
    BY <1>5, <2>1, <2>2, Zenon DEF Fires, OneInv
<1> QED
  BY <1>1, <1>2, <1>3, <1>4, <1>5

\* A chain is idle where its place says so.
LEMMA IdleIsPlace ==
  ASSUME ChainOK, NEW c \in Chain
  PROVE  chain[c] = Idle <=> chain[c].at = "idle"
BY DEF ChainOK, ShapeOf, Idle

\* A step of a chain that stands somewhere: nothing else goes on.
LEMMA StandsAlone ==
  ASSUME OneInv, FlagOK, NEW c \in Chain, chain[c] # Idle
  PROVE  /\ sent_pending_messages_active = TRUE /\ timer = FALSE /\ timers = 0 /\ NoTick
         /\ \A d \in Chain : d # c => chain[d] = Idle
<1>1. ~AllIdle
  BY DEF AllIdle
<1>2. sent_pending_messages_active /\ ~(timers > 0) /\ NoTick /\ (timer <=> timers = 1)
  BY <1>1, Zenon DEF OneInv
<1>3. timers = 0 /\ timers # 1
  BY <1>2 DEF FlagOK
<1>4. \A d \in Chain : d # c => chain[d] = Idle
  BY Zenon DEF OneInv
<1>5. sent_pending_messages_active \in BOOLEAN /\ timer \in BOOLEAN
  BY Zenon DEF FlagOK
<1>6. sent_pending_messages_active = TRUE
  BY <1>2, <1>5, Zenon
<1>7. timer = FALSE
  BY <1>2, <1>3, <1>5, Zenon
<1> QED
  BY <1>2, <1>3, <1>4, <1>6, <1>7

LEMMA BeginsAlone ==
  ASSUME FlagOK, NEW c \in Chain, NEW tasks, Begin(c, tasks), ChainOK, NoTick',
         \A d \in Chain : d # c => chain[d] = Idle, timers = IF timer THEN 1 ELSE 0
  PROVE  Starts
<1>1. chain' = [chain EXCEPT ![c] = [Idle EXCEPT !.at = "fetch"]]
  BY DEF Begin
<1>2. chain'[c] # Idle /\ \A d \in Chain : d # c => chain'[d] = Idle
  BY <1>1 DEF ChainOK, Idle
<1>3. timers' = 0
  <2>1. CASE timer
    BY <2>1 DEF Begin
  <2>2. CASE ~timer
    BY <2>2 DEF Begin
  <2> QED
    BY <2>1, <2>2
<1> QED
  BY <1>2, <1>3, Zenon DEF Begin, Starts

\* While the flag is down nothing goes on.
LEMMA RestsAlone ==
  ASSUME OneInv, FlagOK, ~sent_pending_messages_active
  PROVE  timers = 0 /\ ~timer /\ NoTick /\ AllIdle
<1>1. ~(timers > 0) /\ NoTick /\ AllIdle /\ (timer <=> timers = 1)
  BY Zenon DEF OneInv
<1>2. timers = 0 /\ timers # 1
  BY <1>1 DEF FlagOK
<1> QED
  BY <1>1, <1>2, Zenon

LEMMA PostsOne ==
  ASSUME OneInv, FlagOK, ChainOK, NEW tasks, PostPendingMessages(tasks), UNCHANGED core_tasks
  PROVE  Quiet \/ Starts
<1>0. NoTick' <=> NoTick
  BY DEF NoTick
<1>1. CASE sent_pending_messages_active
  BY <1>0, <1>1, Zenon DEF PostPendingMessages, timerVars, Quiet
<1>2. CASE ~sent_pending_messages_active
  <2>1. PICK c \in Chain : Begin(c, tasks)
    BY <1>2 DEF PostPendingMessages
  <2>2. timers = 0 /\ ~timer /\ NoTick /\ AllIdle
    BY <1>2, RestsAlone
  <2>3. timers = IF timer THEN 1 ELSE 0
    BY <2>2
  <2> QED
    BY <1>0, <2>1, <2>2, <2>3, BeginsAlone DEF AllIdle
<1> QED
  BY <1>1, <1>2

LEMMA TakesTick ==
  ASSUME CoreOK, NEW task, Continue(task)
  PROVE  /\ task \in Chain => (NoTick' <=> NoTick)
         /\ task = TickTask => ~NoTick
         /\ task = TickTask /\ MaxQueuedTicks = 1 => NoTick'
<1>1. /\ core_tasks # <<>> /\ Head(core_tasks) = task /\ core_tasks' = Tail(core_tasks)
      /\ core_tasks \in Seq(Chain \cup {TickTask})
  BY DEF Continue, CoreOK
<1>2. \A c \in Chain : c # TickTask
  BY OutboxAssumption DEF Chain, TickTask
<1>3. MaxQueuedTicks = 1 => Cardinality(TicksIn(core_tasks)) <= 1
  BY DEF CoreOK, Ticks, TicksIn
<1> QED
  BY <1>1, <1>2, <1>3, TicksTail DEF NoTick

LEMMA ChainStepsOne ==
  ASSUME TypeInv, TypeInv', OneInv, NEW c \in Chain,
         ChainStep(c) \/ PacketDropped(c) \/ ServerHandles(c)
  PROVE  Quiet \/ Starts \/ Ends \/ Timed
<1> USE DEF TypeInv
<1>1. chain[c].at # "idle"
  BY DEF ChainStep, PacketDropped, ServerHandles, FetchedNothing, FetchedRecent, FetchedReady,
     SendPendingMessageAsync, AnsweredHistId, AnsweredNoHistId, AnsweredRefused, AnsweredError,
     Stored, Removed
<1>2. /\ sent_pending_messages_active = TRUE /\ timer = FALSE /\ timers = 0 /\ NoTick
      /\ chain[c] # Idle /\ \A d \in Chain : d # c => chain[d] = Idle
  BY <1>1, IdleIsPlace, StandsAlone
<1>3. NoTick'
  <2>1. Continue(c) \/ UNCHANGED core_tasks
    BY DEF ChainStep, PacketDropped, ServerHandles, FetchedNothing, FetchedRecent, FetchedReady,
       SendPendingMessageAsync, AnsweredHistId, AnsweredNoHistId, AnsweredRefused, AnsweredError,
       Stored, Removed
  <2>2. CASE Continue(c)
    BY <1>2, <2>2, TakesTick
  <2>3. CASE UNCHANGED core_tasks
    BY <1>2, <2>3 DEF NoTick
  <2> QED
    BY <2>1, <2>2, <2>3
<1>4. CASE FetchedNothing(c) \/ AnsweredRefused(c) \/ AnsweredError(c)
  <2>1. ChainEnds(c) /\ UNCHANGED timerVars
    BY <1>4 DEF FetchedNothing, AnsweredRefused, AnsweredError
  <2>2. AllIdle'
    BY <1>2, <2>1 DEF ChainEnds, ChainOK, AllIdle
  <2> QED
    BY <1>2, <1>3, <2>1, <2>2, Zenon DEF ChainEnds, timerVars, Ends
<1>5. CASE FetchedRecent(c)
  <2>1. AllIdle'
    BY <1>2, <1>5 DEF FetchedRecent, ChainOK, AllIdle
  <2>2. timers' = 1 /\ timer' = TRUE /\ sent_pending_messages_active' = sent_pending_messages_active
    BY <1>2, <1>5 DEF FetchedRecent
  <2> QED
    BY <1>2, <1>3, <2>1, <2>2, Zenon DEF Timed
<1>6. CASE AnsweredNoHistId(c) \/ Removed(c)
  <2>1. PICK tasks : Begin(c, tasks)
    BY <1>6 DEF AnsweredNoHistId, Removed
  <2>2. timers = IF timer THEN 1 ELSE 0
    BY <1>2
  <2> QED
    BY <1>2, <1>3, <2>1, <2>2, BeginsAlone
<1>7. CASE FetchedReady(c) \/ SendPendingMessageAsync(c) \/ AnsweredHistId(c) \/ Stored(c)
             \/ PacketDropped(c) \/ ServerHandles(c)
  <2>1. UNCHANGED <<sent_pending_messages_active, timer, timers>>
    BY <1>7 DEF FetchedReady, SendPendingMessageAsync, AnsweredHistId, Stored, PacketDropped,
       ServerHandles, timerVars
  <2>2. \A d \in Chain : d # c => chain'[d] = chain[d]
    BY <1>7 DEF FetchedReady, SendPendingMessageAsync, AnsweredHistId, Stored, PacketDropped,
       ServerHandles, ChainOK
  <2>3. chain'[c] # Idle
    <3>1. chain'[c].at \in {"stamp", "wire", "store", "remove", "dropped", "handled"}
      BY <1>7 DEF FetchedReady, SendPendingMessageAsync, AnsweredHistId, Stored, PacketDropped,
         ServerHandles, ChainOK, ChainRecord, Idle
    <3> QED
      BY <3>1 DEF Idle
  <2> QED
    BY <1>2, <1>3, <2>1, <2>2, <2>3, Zenon DEF Quiet
<1> QED
  BY <1>4, <1>5, <1>6, <1>7 DEF ChainStep

LEMMA NextKinds ==
  ASSUME TypeInv, OneInv, [Next]_vars, MaxQueuedTicks = 1
  PROVE  Quiet \/ Starts \/ Ends \/ Timed \/ Fires
<1> USE DEF TypeInv
<1>0. TypeInv'
  BY NextType
<1>1. CASE UNCHANGED vars
  <2>1. Quiet
    BY <1>1, Zenon DEF vars, timerVars, Quiet, NoTick
  <2> QED
    BY <2>1
<1>2. ASSUME NEW m \in Message,
             SendMessageToContact(m) \/ UpdateMessageToContact(m) \/ DeleteArchiveMessage(m)
               \/ OnDlgState(m) \/ OnEventImstate(m)
      PROVE  Quiet \/ Starts \/ Ends \/ Timed \/ Fires
  <2>1. \/ UNCHANGED core_tasks /\ \E tasks : PostPendingMessages(tasks)
        \/ UNCHANGED <<core_tasks, chain, sent_pending_messages_active, timerVars>>
    BY <1>2 DEF SendMessageToContact, UpdateMessageToContact, DeleteArchiveMessage, OnDlgState,
       OnEventImstate
  <2>2. CASE UNCHANGED core_tasks /\ \E tasks : PostPendingMessages(tasks)
    BY <2>2, PostsOne
  <2>3. CASE UNCHANGED <<core_tasks, chain, sent_pending_messages_active, timerVars>>
    <3>1. Quiet
      BY <2>3, Zenon DEF timerVars, Quiet, NoTick
    <3> QED
      BY <3>1
  <2> QED
    BY <2>1, <2>2, <2>3
<1>3. CASE ArchiveStep
  <2>1. IdleSame /\ UNCHANGED <<sent_pending_messages_active, timer, timers>>
    BY <1>3, ArchiveStepsType
  <2>2. \A c \in Chain : (chain'[c] = Idle <=> chain[c] = Idle)
    <3>1. \A c \in Chain : chain'[c] = Idle <=> chain'[c].at = "idle"
      BY <1>0 DEF ChainOK, ShapeOf, Idle
    <3> QED
      BY <2>1, <3>1, IdleIsPlace DEF IdleSame
  <2>3. Quiet
    BY <2>1, <2>2, Zenon DEF Quiet, IdleSame, NoTick
  <2> QED
    BY <2>3
<1>4. ASSUME NEW c \in Chain, ChainStep(c) \/ PacketDropped(c) \/ ServerHandles(c)
      PROVE  Quiet \/ Starts \/ Ends \/ Timed \/ Fires
  BY <1>0, <1>4, ChainStepsOne
<1>5. CASE SecondPasses
  <2>1. \A c \in Chain : (chain'[c] = Idle <=> chain[c] = Idle)
    <3>1. \A c \in Chain : chain'[c].at = chain[c].at
      BY <1>5 DEF SecondPasses, ChainOK, ChainRecord
    <3>2. \A c \in Chain : chain'[c] = Idle <=> chain'[c].at = "idle"
      BY <1>0 DEF ChainOK, ShapeOf, Idle
    <3> QED
      BY <3>1, <3>2, IdleIsPlace
  <2>2. Quiet
    BY <1>5, <2>1, Zenon DEF SecondPasses, timerVars, Quiet, NoTick
  <2> QED
    BY <2>2
<1>6. CASE TimerFires
  <2>1. \A c \in Chain : (chain'[c] = Idle <=> chain[c] = Idle)
    <3>1. \A c \in Chain : chain'[c].at = chain[c].at
      BY <1>6 DEF TimerFires, ChainOK, ChainRecord
    <3>2. \A c \in Chain : chain'[c] = Idle <=> chain'[c].at = "idle"
      BY <1>0 DEF ChainOK, ShapeOf, Idle
    <3> QED
      BY <3>1, <3>2, IdleIsPlace
  <2>2. ~NoTick'
    BY <1>6, TicksAppend DEF TimerFires, NoTick, CoreOK
  <2>3. Fires
    BY <1>6, <2>1, <2>2, Zenon DEF TimerFires, timerVars, Fires
  <2> QED
    BY <2>3
<1>7. CASE Tick
  <2>1. PICK c \in Chain : Begin(c, archive_tasks)
    BY <1>7 DEF Tick
  <2>2. ~NoTick /\ NoTick'
    BY <1>7, TakesTick DEF Tick
  <2>3. AllIdle /\ timers <= 1 /\ (timer <=> timers = 1)
    BY <2>2, Zenon DEF OneInv
  <2>4. timers = IF timer THEN 1 ELSE 0
    BY <2>3 DEF FlagOK
  <2>5. Starts
    BY <2>1, <2>2, <2>3, <2>4, BeginsAlone DEF AllIdle
  <2> QED
    BY <2>5
<1>8. CASE ResumeFailedNetworkRequests
  BY <1>8, PostsOne DEF ResumeFailedNetworkRequests
<1>9. ASSUME NEW torn \in BOOLEAN, Crash(torn) PROVE Quiet \/ Starts \/ Ends \/ Timed \/ Fires
  <2>1. NoTick' /\ AllIdle'
    BY <1>9 DEF Crash, NoTick, TicksIn, AllIdle
  <2>2. Ends
    BY <1>9, <2>1, Zenon DEF Crash, Ends
  <2> QED
    BY <2>2
<1> QED
  BY <1>1, <1>2, <1>3, <1>4, <1>5, <1>6, <1>7, <1>8, <1>9 DEF Next

LEMMA NextOne ==
  ASSUME TypeInv, OneInv, [Next]_vars, MaxQueuedTicks = 1
  PROVE  OneInv'
BY NextKinds, KindsKeepOne DEF TypeInv

LEMMA InitOne ==
  Init => OneInv
<1> SUFFICES ASSUME Init PROVE OneInv
  OBVIOUS
<1>1. NoTick /\ AllIdle /\ timers = 0 /\ timer = FALSE /\ sent_pending_messages_active = FALSE
  BY DEF Init, NoTick, TicksIn, AllIdle
<1>2. ~(timers > 0) /\ timers <= 1 /\ timers # 1
  BY <1>1
<1> QED
  BY <1>1, <1>2, Zenon DEF OneInv, AllIdle

\* When at most one tick of the timer waits for the core thread, there is exactly
\* one chain while sent_pending_messages_active_ is true and none while it is false.
\* The assumption is needed: of two ticks that wait each begins a chain.
THEOREM OneChainAtATime ==
  ASSUME MaxQueuedTicks = 1
  PROVE  Spec => []OneActiveChain
<1>1. Init => TypeInv /\ OneInv
  BY TypeInit, InitOne
<1>2. (TypeInv /\ OneInv) /\ [Next]_vars => (TypeInv /\ OneInv)'
  BY NextType, NextOne
<1>3. TypeInv /\ OneInv => OneActiveChain
  BY OneInvIsIt DEF TypeInv
<1> QED
  BY <1>1, <1>2, <1>3, PTL DEF Spec

\* The assertion where the timer is set, post_messages_timer_ == empty_timer_id,
\* holds while at most one tick of the timer waits for the core thread.
THEOREM TimerIsSetOnce ==
  ASSUME MaxQueuedTicks = 1
  PROVE  Spec => PostTimerIsEmpty
<1>1. Init => TypeInv /\ OneInv
  BY TypeInit, InitOne
<1>2. (TypeInv /\ OneInv) /\ [Next]_vars => (TypeInv /\ OneInv)'
  BY NextType, NextOne
<1>3. (TypeInv /\ OneInv) /\ [Next]_vars => [timers' > timers => ~timer]_vars
  <2> SUFFICES ASSUME TypeInv, OneInv, [Next]_vars, timers' > timers PROVE ~timer
    OBVIOUS
  <2>1. timers \in Nat
    BY DEF TypeInv, FlagOK
  <2>2. timers' # timers /\ timers' # 0
    BY <2>1
  <2>3. Timed
    BY <2>2, NextKinds DEF Quiet, Starts, Ends, Fires
  <2>4. timers # 1
    BY <2>1, <2>3 DEF Timed
  <2> QED
    BY <2>4, Zenon DEF OneInv
<1> QED
  BY <1>1, <1>2, <1>3, PTL DEF Spec, PostTimerIsEmpty

(***************************************************************************)
(* When the chain stops with messages left.                                *)
(***************************************************************************)
NoInsert(q) == \A i \in DOMAIN q : q[i].op # "insert"

LEMMA NoInsertAppend ==
  ASSUME NEW q \in Seq(Tasks), NEW t \in Tasks, t.op # "insert", NoInsert(q)
  PROVE  NoInsert(Append(q, t))
<1> DEFINE r == Append(q, t)
<1>1. Appended(q, t, r)
  BY AppendPlaces
<1> HIDE DEF r
<1>2. \A i \in DOMAIN r : r[i] = t \/ (i \in DOMAIN q /\ r[i] = q[i])
  BY <1>1 DEF Appended
<1>3. NoInsert(r)
  BY <1>2 DEF NoInsert
<1> QED
  BY <1>3 DEF r

LEMMA NoInsertTail ==
  ASSUME NEW q \in Seq(Tasks), q # <<>>, NoInsert(q)
  PROVE  NoInsert(Tail(q)) /\ Head(q).op # "insert"
<1> DEFINE r == Tail(q)
<1>1. TailOf(q, r)
  BY TailPlaces
<1> HIDE DEF r
<1>2. \A i \in DOMAIN r : i + 1 \in DOMAIN q /\ r[i] = q[i + 1]
  BY <1>1 DEF TailOf
<1>3. NoInsert(r)
  BY <1>2 DEF NoInsert
<1>4. Head(q).op # "insert"
  BY <1>1 DEF TailOf, NoInsert
<1> QED
  BY <1>3, <1>4 DEF r

\* Nothing but an insertion puts a message into an empty list.
LEMMA StaysEmpty ==
  /\ \A m, e : Replace(<<>>, m, e) = <<>>
  /\ \A m : MarkDeleted(<<>>, m) = <<>> /\ UpdateMessagePostTime(<<>>, m) = <<>>
  /\ \A m, b, n : RemoveMessage(<<>>, m, b, n) = <<>>
  /\ \A m : UpdateWithImstate(<<>>, m) = <<>>
  /\ [i \in DOMAIN <<>> |-> Aged(<<>>[i])] = <<>>
<1>1. \A m : ~Exists(<<>>, m)
  BY DEF Exists
<1>2. \A m, e : Replace(<<>>, m, e) = <<>>
  BY DEF Replace
<1>3. \A m : MarkDeleted(<<>>, m) = <<>> /\ UpdateMessagePostTime(<<>>, m) = <<>>
  BY DEF MarkDeleted, UpdateMessagePostTime
<1>4. \A m : EraseEntry(<<>>, m) = <<>>
  BY <1>1 DEF EraseEntry
<1>5. \A m, b, n : RemoveMessage(<<>>, m, b, n) = <<>>
  BY <1>1, <1>4, Zenon DEF RemoveMessage
<1>6. \A m : UpdateWithImstate(<<>>, m) = <<>>
  BY <1>1, <1>4, Zenon DEF UpdateWithImstate
<1>7. [i \in DOMAIN <<>> |-> Aged(<<>>[i])] = <<>>
  OBVIOUS
<1> QED
  BY <1>2, <1>3, <1>5, <1>6, <1>7

Empty == pending = <<>> /\ NoInsert(archive_tasks)

LEMMA StrandedIs == Stranded <=> ~sent_pending_messages_active /\ ~Empty
BY Zenon DEF Stranded, Empty, NoInsert

LEMMA ArchiveStaysEmpty ==
  ASSUME TypeInv, Empty, ArchiveStep
  PROVE  Empty'
<1>1. archive_tasks \in Seq(Tasks) /\ pending = <<>> /\ NoInsert(archive_tasks)
  BY DEF TypeInv, Links, Empty
<1>2. archive_tasks # <<>> /\ archive_tasks' = Tail(archive_tasks)
  BY DEF ArchiveStep, ArchiveInsert, ArchiveUpdate, ArchiveDelete, ArchiveFetch, ArchiveStamp,
         ArchiveStore, ArchiveRemove, ArchiveImstate, Run
<1>3. NoInsert(archive_tasks') /\ Task.op # "insert"
  BY <1>1, <1>2, NoInsertTail DEF Task
<1>4. ~ArchiveInsert
  BY <1>3 DEF ArchiveInsert, Run, Task
<1>5. pending' = <<>>
  <2>1. CASE ArchiveUpdate
    BY <1>1, <2>1, StaysEmpty DEF ArchiveUpdate, UpdateMessageIfExist
  <2>2. CASE ArchiveDelete
    BY <1>1, <2>2, StaysEmpty DEF ArchiveDelete
  <2>3. CASE ArchiveFetch \/ ArchiveStore
    BY <1>1, <2>3 DEF ArchiveFetch, ArchiveStore, storeVars
  <2>4. CASE ArchiveStamp
    BY <1>1, <2>4, StaysEmpty DEF ArchiveStamp
  <2>5. CASE ArchiveRemove
    BY <1>1, <2>5, StaysEmpty DEF ArchiveRemove, RemoveOutcome
  <2>6. CASE ArchiveImstate
    BY <1>1, <2>6, StaysEmpty DEF ArchiveImstate
  <2> QED
    BY <1>4, <2>1, <2>2, <2>3, <2>4, <2>5, <2>6 DEF ArchiveStep
<1> QED
  BY <1>3, <1>5 DEF Empty

GivesUp ==
  \/ crashes' > crashes
  \/ \E c \in Chain : /\ chain'[c] = Idle
                      /\ \/ chain[c].at \in {"wire", "handled"}
                         \/ chain[c].at = "fetched" /\ ~Held(c)

LEMMA NextStranded ==
  ASSUME TypeInv, [Next]_vars, ~Stranded, Stranded'
  PROVE  GivesUp
<1> USE DEF TypeInv
<1>1. sent_pending_messages_active' # TRUE /\ ~Empty'
  BY Zenon DEF Stranded, Empty, NoInsert
<1>2. sent_pending_messages_active \/ Empty
  BY StrandedIs, Zenon
<1>b. ASSUME NEW c, NEW tasks, Begin(c, tasks) PROVE FALSE
  BY <1>1, <1>b DEF Begin
<1>f. UNCHANGED sent_pending_messages_active => Empty
  BY <1>1, <1>2, Zenon DEF FlagOK
<1>q. archive_tasks \in Seq(Tasks)
  BY DEF Links
<1>3. ASSUME NEW t \in Tasks, t.op # "insert", archive_tasks' = Append(archive_tasks, t),
             UNCHANGED <<sent_pending_messages_active, pending>>
      PROVE  FALSE
  BY <1>1, <1>3, <1>f, <1>q, NoInsertAppend DEF Empty
<1>4. ASSUME UNCHANGED <<sent_pending_messages_active, pending, archive_tasks>> PROVE FALSE
  BY <1>1, <1>4, <1>f DEF Empty
<1>p. ASSUME NEW tasks, PostPendingMessages(tasks)
      PROVE  sent_pending_messages_active = TRUE /\ sent_pending_messages_active' = TRUE
  BY <1>p, <1>b, Zenon DEF PostPendingMessages, FlagOK
<1>5. ASSUME NEW m \in Message,
             SendMessageToContact(m) \/ UpdateMessageToContact(m) \/ DeleteArchiveMessage(m)
               \/ OnDlgState(m) \/ OnEventImstate(m)
      PROVE  FALSE
  <2>1. CASE \E tasks : PostPendingMessages(tasks)
    BY <1>1, <1>p, <2>1
  <2>2. CASE ~\E tasks : PostPendingMessages(tasks)
    <3>0. ~SendMessageToContact(m)
      BY <2>2 DEF SendMessageToContact
    <3>1. CASE UpdateMessageToContact(m)
      <4> DEFINE t == [op |-> "update", entry |-> Entry(m, typed[m] + 1, TRUE), edit |-> TRUE]
      <4>1. typed[m] + 1 \in Version
        BY <3>1, OutboxAssumption DEF UpdateMessageToContact, Version, UserOK
      <4>2. t \in Tasks /\ t.op # "insert"
        BY <4>1, NewEntries, PlainTasks
      <4> HIDE DEF t
      <4>3. archive_tasks' = Append(archive_tasks, t) /\ UNCHANGED <<sent_pending_messages_active, pending>>
        BY <2>2, <3>1 DEF UpdateMessageToContact, Queue, storeVars, t
      <4> QED
        BY <1>3, <4>2, <4>3
    <3>2. CASE DeleteArchiveMessage(m)
      <4> DEFINE t == [op |-> "delete", iid |-> m]
      <4>1. t \in Tasks /\ t.op # "insert"
        BY PlainTasks
      <4> HIDE DEF t
      <4>2. archive_tasks' = Append(archive_tasks, t) /\ UNCHANGED <<sent_pending_messages_active, pending>>
        BY <3>2 DEF DeleteArchiveMessage, Queue, storeVars, t
      <4> QED
        BY <1>3, <4>1, <4>2
    <3>3. CASE OnDlgState(m)
      <4> DEFINE t == [op |-> "remove", chain |-> 0, iid |-> m, ver |-> 0, remove_if_modified |-> FALSE]
      <4>1. t \in Tasks /\ t.op # "insert"
        BY PlainTasks
      <4> HIDE DEF t
      <4>2. archive_tasks' = Append(archive_tasks, t) /\ UNCHANGED <<sent_pending_messages_active, pending>>
        BY <3>3 DEF OnDlgState, Queue, Unstored, storeVars, t
      <4> QED
        BY <1>3, <4>1, <4>2
    <3>4. CASE OnEventImstate(m)
      <4> DEFINE t == [op |-> "imstate", iid |-> m]
      <4>1. t \in Tasks /\ t.op # "insert"
        BY PlainTasks
      <4> HIDE DEF t
      <4>2. archive_tasks' = Append(archive_tasks, t) /\ UNCHANGED <<sent_pending_messages_active, pending>>
        BY <3>4 DEF OnEventImstate, Queue, Unstored, storeVars, t
      <4> QED
        BY <1>3, <4>1, <4>2
    <3> QED
      BY <1>5, <3>0, <3>1, <3>2, <3>3, <3>4
  <2> QED
    BY <2>1, <2>2
<1>6. ~ArchiveStep
  <2> SUFFICES ASSUME ArchiveStep PROVE FALSE
    OBVIOUS
  <2>1. UNCHANGED sent_pending_messages_active
    BY ArchiveStepsType
  <2> QED
    BY <1>1, <1>f, <2>1, ArchiveStaysEmpty
<1>7. ASSUME NEW c \in Chain, ChainStep(c) \/ PacketDropped(c) \/ ServerHandles(c)
      PROVE  GivesUp
  <2>1. CASE FetchedNothing(c) \/ AnsweredRefused(c) \/ AnsweredError(c)
    <3>1. chain'[c] = Idle
      BY <2>1 DEF FetchedNothing, AnsweredRefused, AnsweredError, ChainEnds, ChainOK
    <3> QED
      BY <2>1, <3>1 DEF FetchedNothing, AnsweredRefused, AnsweredError, GivesUp
  <2>2. CASE AnsweredNoHistId(c) \/ Removed(c)
    BY <1>b, <2>2 DEF AnsweredNoHistId, Removed
  <2>3. CASE FetchedRecent(c) \/ SendPendingMessageAsync(c) \/ PacketDropped(c) \/ ServerHandles(c)
    BY <1>4, <2>3 DEF FetchedRecent, SendPendingMessageAsync, PacketDropped, ServerHandles, Unstored,
       storeVars
  <2>4. CASE FetchedReady(c)
    <3> DEFINE t == [op |-> "stamp", chain |-> c, iid |-> chain[c].entry.iid]
    <3>1. chain[c].entry \in Entries
      BY <2>4 DEF FetchedReady, Held, ChainOK, ChainRecord
    <3>2. t \in Tasks /\ t.op # "insert"
      BY <3>1 DEF Tasks, Entries
    <3> HIDE DEF t
    <3>3. archive_tasks' = Append(archive_tasks, t) /\ UNCHANGED <<sent_pending_messages_active, pending>>
      BY <2>4 DEF FetchedReady, Queue, Unstored, storeVars, t
    <3> QED
      BY <1>3, <3>2, <3>3
  <2>5. CASE AnsweredHistId(c)
    <3> DEFINE t == [op |-> "store", chain |-> c]
    <3>1. t \in Tasks /\ t.op # "insert"
      BY DEF Tasks
    <3> HIDE DEF t
    <3>2. archive_tasks' = Append(archive_tasks, t) /\ UNCHANGED <<sent_pending_messages_active, pending>>
      BY <2>5 DEF AnsweredHistId, Queue, Unstored, storeVars, t
    <3> QED
      BY <1>3, <3>1, <3>2
  <2>6. CASE Stored(c)
    <3> DEFINE t == [op |-> "remove", chain |-> c, iid |-> chain[c].entry.iid, ver |-> 0,
                     remove_if_modified |-> FALSE]
    <3>1. chain[c].entry \in Entries
      BY <2>6 DEF Stored, ChainOK, ShapeOf, Sending, Packed
    <3>2. t \in Tasks /\ t.op # "insert"
      BY <3>1, OutboxAssumption DEF Tasks, Entries
    <3> HIDE DEF t
    <3>3. archive_tasks' = Append(archive_tasks, t) /\ UNCHANGED <<sent_pending_messages_active, pending>>
      BY <2>6 DEF Stored, Queue, Unstored, storeVars, t
    <3> QED
      BY <1>3, <3>2, <3>3
  <2> QED
    BY <1>7, <2>1, <2>2, <2>3, <2>4, <2>5, <2>6 DEF ChainStep
<1>8. ASSUME SecondPasses \/ TimerFires PROVE FALSE
  <2>1. UNCHANGED <<sent_pending_messages_active, archive_tasks>>
        /\ pending' = [i \in DOMAIN pending |-> Aged(pending[i])]
    BY <1>8 DEF SecondPasses, TimerFires
  <2>2. Empty
    BY <1>f, <2>1
  <2>3. pending' = <<>>
    BY <2>1, <2>2, StaysEmpty DEF Empty
  <2> QED
    BY <1>1, <2>1, <2>2, <2>3 DEF Empty
<1>9. ~Tick /\ ~ResumeFailedNetworkRequests
  BY <1>1, <1>b, <1>p DEF Tick, ResumeFailedNetworkRequests
<1>10. ASSUME NEW torn \in BOOLEAN, Crash(torn) PROVE GivesUp
  BY <1>10 DEF Crash, GivesUp, UserOK
<1>11. ~UNCHANGED vars
  BY <1>4 DEF vars
<1> QED
  BY <1>5, <1>6, <1>7, <1>8, <1>9, <1>10, <1>11 DEF Next

\* The chain stops with messages left only when a packet failed, at a restart, or
\* when a message was inserted between an empty fetch and its continuation.
THEOREM StrandedOnlyThen == Spec => StrandedOnlyBy
<1>1. TypeInv /\ [Next]_vars => [~Stranded /\ Stranded' => GivesUp]_vars
  BY NextStranded
<1> QED
  BY <1>1, TypeAlways, PTL DEF Spec, StrandedOnlyBy, GivesUp

(***************************************************************************)
(* What a step does to the tasks, the pending messages, the chains and the *)
(* server: all that the properties below ask of the actions.               *)
(***************************************************************************)
UserTask(t) == t.op = "insert" \/ (t.op = "update" /\ t.edit)
Copy(t) == t.op = "update" /\ ~t.edit

\* An entry that was neither edited nor turned into an update is as it was typed.
Plain(e) == e.modified \/ e.request # 0 \/ e.ver = 1

NewTask(t) ==
  /\ t \in Tasks
  /\ t.op = "insert" => typed[t.entry.iid] = 0
  /\ UserTask(t) => /\ t.entry.request = 0 /\ Plain(t.entry)
                    /\ t.entry.ver = typed[t.entry.iid] + 1 /\ typed'[t.entry.iid] = t.entry.ver
  /\ Copy(t) => \E c \in Chain : chain[c].at = "handled" /\ t.entry = chain[c].entry
  /\ t.op = "imstate" => server[t.iid].ver > 0
  /\ t.op = "remove" /\ ~t.remove_if_modified =>
       /\ t.ver = 0
       /\ server[t.iid].ver > 0 \/ \E c \in Chain : chain[c].at = "stored" /\ t.iid = chain[c].entry.iid

TasksGrow ==
  \/ archive_tasks' = archive_tasks \/ archive_tasks' = <<>>
  \/ archive_tasks # <<>> /\ archive_tasks' = Tail(archive_tasks)
  \/ \E t : /\ NewTask(t)
            /\ \/ archive_tasks' = Append(archive_tasks, t) /\ ~Copy(t)
               \/ \E c \in Chain : archive_tasks' = Append(Append(archive_tasks, t), FetchTask(c))

TasksMove == \A t : In(archive_tasks', t) => In(archive_tasks, t) \/ NewTask(t)

LEMMA InAppend ==
  ASSUME NEW S, NEW q \in Seq(S), NEW e \in S
  PROVE  \A t : In(Append(q, e), t) => In(q, t) \/ t = e
<1> DEFINE r == Append(q, e)
<1>1. Appended(q, e, r)
  BY AppendPlaces
<1> HIDE DEF r
<1>2. \A t : In(r, t) => In(q, t) \/ t = e
  BY <1>1 DEF Appended, In
<1> QED
  BY <1>2 DEF r

LEMMA InTail ==
  ASSUME NEW S, NEW q \in Seq(S), q # <<>>
  PROVE  In(q, Head(q)) /\ \A t : In(Tail(q), t) => In(q, t)
<1> DEFINE r == Tail(q)
<1>1. TailOf(q, r)
  BY TailPlaces
<1> HIDE DEF r
<1>2. \A t : In(r, t) => In(q, t)
  BY <1>1 DEF TailOf, In
<1>3. In(q, Head(q))
  BY <1>1 DEF TailOf, In
<1> QED
  BY <1>2, <1>3 DEF r

\* post_pending_messages adds no task but a fetch.
LEMMA BeginAdds ==
  ASSUME NEW tasks, (\E c \in Chain : Begin(c, tasks)) \/ PostPendingMessages(tasks)
  PROVE  archive_tasks' = tasks \/ \E c \in Chain : archive_tasks' = Append(tasks, FetchTask(c))
BY DEF PostPendingMessages, Begin

LEMMA FetchIsNew ==
  ASSUME NEW c \in Chain
  PROVE  FetchTask(c) \in Tasks /\ NewTask(FetchTask(c)) /\ FetchTask(c).op = "fetch"
BY DEF FetchTask, Tasks, NewTask, UserTask, Copy

LEMMA NextGrow ==
  ASSUME TypeInv, [Next]_vars
  PROVE  TasksGrow
<1> USE DEF TypeInv
<1>1. CASE UNCHANGED archive_tasks
  BY <1>1 DEF TasksGrow
<1>2. ASSUME NEW t, NewTask(t), ~Copy(t), archive_tasks' = Append(archive_tasks, t) PROVE TasksGrow
  BY <1>2 DEF TasksGrow
<1>3. ASSUME NEW t, NewTask(t), \/ \E c \in Chain : Begin(c, Append(archive_tasks, t))
                                \/ ~Copy(t) /\ PostPendingMessages(Append(archive_tasks, t))
      PROVE  TasksGrow
  <2> DEFINE q == Append(archive_tasks, t)
  <2>1. (\E c \in Chain : Begin(c, q)) \/ (~Copy(t) /\ PostPendingMessages(q))
    BY <1>3
  <2> HIDE DEF q
  <2>2. (archive_tasks' = q /\ ~Copy(t)) \/ \E c \in Chain : archive_tasks' = Append(q, FetchTask(c))
    BY <2>1, BeginAdds DEF Begin
  <2>3. \/ archive_tasks' = Append(archive_tasks, t) /\ ~Copy(t)
        \/ \E c \in Chain : archive_tasks' = Append(Append(archive_tasks, t), FetchTask(c))
    BY <2>2 DEF q
  <2> QED
    BY <1>3, <2>3 DEF TasksGrow
<1>4. ASSUME (\E c \in Chain : Begin(c, archive_tasks)) \/ PostPendingMessages(archive_tasks)
      PROVE  TasksGrow
  <2>1. archive_tasks' = archive_tasks \/ \E c \in Chain : archive_tasks' = Append(archive_tasks, FetchTask(c))
    BY <1>4, BeginAdds
  <2>2. \A c \in Chain : NewTask(FetchTask(c)) /\ ~Copy(FetchTask(c))
    BY FetchIsNew DEF Copy
  <2> QED
    BY <2>1, <2>2 DEF TasksGrow
<1>5. ASSUME NEW m \in Message, SendMessageToContact(m) PROVE TasksGrow
  <2> DEFINE t == [op |-> "insert", entry |-> Entry(m, 1, FALSE)]
  <2>1. t \in Tasks /\ t.op = "insert" /\ t.entry.request = 0
    <3>1. 1 \in Version
      BY OutboxAssumption DEF Version
    <3>2. Entry(m, 1, FALSE) \in Entries /\ Entry(m, 1, FALSE).request = 0
      BY <3>1, NewEntries
    <3> QED
      BY <3>2, PlainTasks
  <2>i. t.entry.iid = m /\ t.entry.ver = 1
    BY DEF Entry
  <2>t. typed[m] = 0 /\ typed'[m] = 1
    BY <1>5 DEF SendMessageToContact, UserOK
  <2> HIDE DEF t
  <2>2. NewTask(t) /\ ~Copy(t)
    BY <2>1, <2>i, <2>t DEF NewTask, UserTask, Copy, Plain
  <2>3. PostPendingMessages(Append(archive_tasks, t))
    BY <1>5 DEF SendMessageToContact, Queue, t
  <2> QED
    BY <1>3, <2>2, <2>3
<1>6. ASSUME NEW m \in Message, UpdateMessageToContact(m) PROVE TasksGrow
  <2> DEFINE t == [op |-> "update", entry |-> Entry(m, typed[m] + 1, TRUE), edit |-> TRUE]
  <2>1. typed[m] + 1 \in Version
    BY <1>6, OutboxAssumption DEF UpdateMessageToContact, Version, UserOK
  <2>2. t \in Tasks /\ t.op = "update" /\ t.entry.request = 0
    BY <2>1, NewEntries, PlainTasks
  <2>3. NewTask(t) /\ ~Copy(t)
    <3>1. t.edit = TRUE /\ t.entry.modified = TRUE /\ t.entry.iid = m /\ t.entry.ver = typed[m] + 1
      BY DEF Entry
    <3>2. typed'[m] = typed[m] + 1
      BY <1>6 DEF UpdateMessageToContact, UserOK
    <3> HIDE DEF t
    <3>3. ~Copy(t) /\ Plain(t.entry)
      BY <3>1 DEF Copy, Plain
    <3> QED
      BY <2>2, <3>1, <3>2, <3>3 DEF NewTask
  <2>4. PostPendingMessages(Append(archive_tasks, t)) \/ archive_tasks' = Append(archive_tasks, t)
    BY <1>6 DEF UpdateMessageToContact, Queue
  <2> QED
    BY <1>2, <1>3, <2>3, <2>4
<1>7. ASSUME NEW m \in Message, DeleteArchiveMessage(m) \/ OnDlgState(m) \/ OnEventImstate(m)
      PROVE  TasksGrow
  <2>1. CASE DeleteArchiveMessage(m)
    <3> DEFINE t == [op |-> "delete", iid |-> m]
    <3>1. NewTask(t) /\ ~Copy(t)
      BY PlainTasks DEF NewTask, UserTask, Copy
    <3>2. archive_tasks' = Append(archive_tasks, t)
      BY <2>1 DEF DeleteArchiveMessage, Queue
    <3> QED
      BY <1>2, <3>1, <3>2
  <2>2. CASE OnDlgState(m)
    <3> DEFINE t == [op |-> "remove", chain |-> 0, iid |-> m, ver |-> 0, remove_if_modified |-> FALSE]
    <3>1. NewTask(t) /\ ~Copy(t)
      BY <2>2, PlainTasks DEF OnDlgState, NewTask, UserTask, Copy
    <3>2. archive_tasks' = Append(archive_tasks, t)
      BY <2>2 DEF OnDlgState, Queue
    <3> QED
      BY <1>2, <3>1, <3>2
  <2>3. CASE OnEventImstate(m)
    <3> DEFINE t == [op |-> "imstate", iid |-> m]
    <3>1. NewTask(t) /\ ~Copy(t)
      BY <2>3, PlainTasks DEF OnEventImstate, NewTask, UserTask, Copy
    <3>2. archive_tasks' = Append(archive_tasks, t)
      BY <2>3 DEF OnEventImstate, Queue
    <3> QED
      BY <1>2, <3>1, <3>2
  <2> QED
    BY <1>7, <2>1, <2>2, <2>3
<1>8. ASSUME ArchiveStep PROVE TasksGrow
  <2>1. archive_tasks # <<>> /\ archive_tasks' = Tail(archive_tasks)
    BY <1>8 DEF ArchiveStep, ArchiveInsert, ArchiveUpdate, ArchiveDelete, ArchiveFetch, ArchiveStamp,
         ArchiveStore, ArchiveRemove, ArchiveImstate, Run
  <2> QED
    BY <2>1 DEF TasksGrow
<1>9. ASSUME NEW c \in Chain, ChainStep(c) \/ PacketDropped(c) \/ ServerHandles(c) PROVE TasksGrow
  <2>1. CASE FetchedNothing(c) \/ FetchedRecent(c) \/ SendPendingMessageAsync(c) \/ AnsweredError(c)
             \/ PacketDropped(c) \/ ServerHandles(c)
    BY <1>1, <2>1 DEF FetchedNothing, FetchedRecent, SendPendingMessageAsync, AnsweredError,
       PacketDropped, ServerHandles
  <2>2. CASE FetchedReady(c)
    <3> DEFINE t == [op |-> "stamp", chain |-> c, iid |-> chain[c].entry.iid]
    <3>1. chain[c].entry \in Entries
      BY <2>2 DEF FetchedReady, Held, ChainOK, ChainRecord
    <3>2. NewTask(t) /\ ~Copy(t)
      BY <3>1 DEF Tasks, Entries, NewTask, UserTask, Copy
    <3>3. archive_tasks' = Append(archive_tasks, t)
      BY <2>2 DEF FetchedReady, Queue
    <3> QED
      BY <1>2, <3>2, <3>3
  <2>3. CASE AnsweredHistId(c)
    <3> DEFINE t == [op |-> "store", chain |-> c]
    <3>1. NewTask(t) /\ ~Copy(t)
      BY DEF Tasks, NewTask, UserTask, Copy
    <3>2. archive_tasks' = Append(archive_tasks, t)
      BY <2>3 DEF AnsweredHistId, Queue
    <3> QED
      BY <1>2, <3>1, <3>2
  <2>4. CASE AnsweredNoHistId(c)
    <3> DEFINE t == [op |-> "update", entry |-> chain[c].entry, edit |-> FALSE]
    <3>1. chain[c].entry \in Entries /\ chain[c].at = "handled"
      BY <2>4 DEF AnsweredNoHistId, ChainOK, ShapeOf, Sending, Packed
    <3>2. t \in Tasks
      BY <3>1, PlainTasks
    <3>3. NewTask(t)
      BY <3>1, <3>2 DEF NewTask, UserTask, Copy
    <3>4. Begin(c, Append(archive_tasks, t))
      BY <2>4 DEF AnsweredNoHistId, Queue
    <3> QED
      BY <1>3, <3>3, <3>4
  <2>5. CASE AnsweredRefused(c)
    <3> DEFINE t == [op |-> "remove", chain |-> 0, iid |-> chain[c].entry.iid,
                     ver |-> chain[c].entry.ver, remove_if_modified |-> TRUE]
    <3>1. chain[c].entry \in Entries
      BY <2>5 DEF AnsweredRefused, ChainOK, ShapeOf, Sending, Packed
    <3>2. NewTask(t) /\ ~Copy(t)
      BY <3>1, PlainTasks DEF Entries, NewTask, UserTask, Copy
    <3>3. archive_tasks' = Append(archive_tasks, t)
      BY <2>5 DEF AnsweredRefused, Queue
    <3> QED
      BY <1>2, <3>2, <3>3
  <2>6. CASE Stored(c)
    <3> DEFINE t == [op |-> "remove", chain |-> c, iid |-> chain[c].entry.iid, ver |-> 0,
                     remove_if_modified |-> FALSE]
    <3>1. chain[c].entry \in Entries /\ chain[c].at = "stored"
      BY <2>6 DEF Stored, ChainOK, ShapeOf, Sending, Packed
    <3>2. NewTask(t) /\ ~Copy(t)
      BY <3>1 DEF Tasks, Entries, NewTask, UserTask, Copy
    <3>3. archive_tasks' = Append(archive_tasks, t)
      BY <2>6 DEF Stored, Queue
    <3> QED
      BY <1>2, <3>2, <3>3
  <2>7. CASE Removed(c)
    BY <1>4, <2>7 DEF Removed
  <2> QED
    BY <1>9, <2>1, <2>2, <2>3, <2>4, <2>5, <2>6, <2>7 DEF ChainStep
<1>10. ASSUME SecondPasses \/ TimerFires \/ Tick \/ ResumeFailedNetworkRequests PROVE TasksGrow
  BY <1>1, <1>4, <1>10 DEF SecondPasses, TimerFires, Tick, ResumeFailedNetworkRequests
<1>11. ASSUME NEW torn \in BOOLEAN, Crash(torn) PROVE TasksGrow
  BY <1>11 DEF Crash, TasksGrow
<1> QED
  BY <1>1, <1>5, <1>6, <1>7, <1>8, <1>9, <1>10, <1>11 DEF Next, vars

LEMMA NextTasks ==
  ASSUME TypeInv, [Next]_vars
  PROVE  TasksMove
<1>1. TasksGrow /\ archive_tasks \in Seq(Tasks)
  BY NextGrow DEF TypeInv, Links
<1>2. CASE archive_tasks' = archive_tasks \/ archive_tasks' = <<>>
  BY <1>2 DEF TasksMove, In
<1>3. CASE archive_tasks # <<>> /\ archive_tasks' = Tail(archive_tasks)
  BY <1>1, <1>3, InTail DEF TasksMove
<1>4. ASSUME NEW t, NewTask(t)
      PROVE  /\ t \in Tasks /\ Append(archive_tasks, t) \in Seq(Tasks)
             /\ \A u : In(Append(archive_tasks, t), u) => In(archive_tasks, u) \/ NewTask(u)
  <2>1. t \in Tasks
    BY <1>4 DEF NewTask
  <2>2. Append(archive_tasks, t) \in Seq(Tasks)
    BY <1>1, <2>1
  <2>3. \A u : In(Append(archive_tasks, t), u) => In(archive_tasks, u) \/ u = t
    BY <1>1, <2>1, InAppend
  <2> QED
    BY <1>4, <2>1, <2>2, <2>3
<1>5. ASSUME NEW t, NewTask(t), archive_tasks' = Append(archive_tasks, t) PROVE TasksMove
  BY <1>4, <1>5 DEF TasksMove
<1>6. ASSUME NEW t, NewTask(t), NEW c \in Chain,
             archive_tasks' = Append(Append(archive_tasks, t), FetchTask(c))
      PROVE  TasksMove
  <2> DEFINE q == Append(archive_tasks, t)
  <2>1. q \in Seq(Tasks) /\ \A u : In(q, u) => In(archive_tasks, u) \/ NewTask(u)
    BY <1>4, <1>6
  <2> HIDE DEF q
  <2>2. \A u : In(Append(q, FetchTask(c)), u) => In(q, u) \/ u = FetchTask(c)
    BY <2>1, FetchIsNew, InAppend
  <2>3. archive_tasks' = Append(q, FetchTask(c))
    BY <1>6 DEF q
  <2> QED
    BY <2>1, <2>2, <2>3, FetchIsNew DEF TasksMove
<1> QED
  BY <1>1, <1>2, <1>3, <1>5, <1>6 DEF TasksGrow

\* A pending message: the one that was there, that of the task that is executed, or
\* one that was turned into an update of a version that has got a message id.
Executed(t) == archive_tasks # <<>> /\ t = Task /\ archive_tasks' = Tail(archive_tasks) /\ In(archive_tasks, t)

PendingMoves ==
  /\ ids \subseteq ids'
  /\ \A u : In(pending', u) =>
       \/ \E v : In(pending, v) /\ Akin(u, v)
       \/ \E t : /\ Executed(t) /\ t.op \in {"insert", "update"} /\ u = t.entry
                 /\ UserTask(t) => accepted'[u.iid] = u.ver
       \/ /\ <<u.iid, u.ver>> \in ids' /\ u.request # 0
          /\ \E v : In(pending, v) /\ u.iid = v.iid /\ u.ver = v.ver

LEMMA NextPending ==
  ASSUME TypeInv, [Next]_vars
  PROVE  PendingMoves
<1> USE DEF TypeInv
<1>1. pending \in Pendings /\ archive_tasks \in Seq(Tasks)
  BY DEF StoreOK, Links
<1>2. ASSUME UNCHANGED <<ids, pending>> PROVE PendingMoves
  BY <1>2 DEF PendingMoves, Akin
<1>3. ASSUME UNCHANGED ids, Kindred(pending, pending') PROVE PendingMoves
  BY <1>3 DEF PendingMoves, Kindred
<1>4. ASSUME ArchiveStep PROVE PendingMoves
  <2>0. archive_tasks # <<>> /\ archive_tasks' = Tail(archive_tasks)
    BY <1>4 DEF ArchiveStep, ArchiveInsert, ArchiveUpdate, ArchiveDelete, ArchiveFetch, ArchiveStamp,
         ArchiveStore, ArchiveRemove, ArchiveImstate, Run
  <2>1. Task \in Tasks /\ Executed(Task)
    BY <1>1, <2>0, TaskFacts, InTail DEF Task, Executed
  <2>2. CASE ArchiveInsert
    <3>1. Task.op = "insert" /\ UNCHANGED ids /\ pending' = InsertMessage(pending, Task.entry)
      BY <2>2 DEF ArchiveInsert, Run, Task
    <3>2. Task.entry \in Entries
      BY <2>1, <3>1, TaskFields
    <3>3. \A u : In(pending', u) => In(pending, u) \/ u = Task.entry
      BY <1>1, <3>1, <3>2, InsertFacts
    <3>4. accepted'[Task.entry.iid] = Task.entry.ver
      BY <2>2, <3>2 DEF ArchiveInsert, StoreOK, Entries
    <3> QED
      BY <2>1, <3>1, <3>3, <3>4 DEF PendingMoves, Akin
  <2>3. CASE ArchiveUpdate
    <3>1. Task.op = "update" /\ UNCHANGED ids /\ pending' = Replace(pending, Task.entry.iid, Task.entry)
      BY <2>3 DEF ArchiveUpdate, UpdateMessageIfExist, Run, Task
    <3>2. Task.entry \in Entries /\ Task.entry.iid \in Message
      BY <2>1, <3>1, TaskFields DEF Entries
    <3>3. \A u : In(pending', u) => In(pending, u) \/ (u = Task.entry /\ Exists(pending, Task.entry.iid))
      BY <1>1, <3>1, <3>2, ReplaceFacts
    <3>4. Task.edit /\ Exists(pending, Task.entry.iid) => accepted'[Task.entry.iid] = Task.entry.ver
      BY <2>3, <3>2 DEF ArchiveUpdate, StoreOK
    <3> QED
      BY <2>1, <3>1, <3>3, <3>4 DEF PendingMoves, Akin, UserTask
  <2>4. CASE ArchiveDelete
    <3>1. Task.op = "delete" /\ UNCHANGED ids /\ pending' = MarkDeleted(pending, Task.iid)
      BY <2>4 DEF ArchiveDelete, Run, Task
    <3>2. Task.iid \in Message
      BY <2>1, <3>1, TaskFields
    <3> QED
      BY <1>1, <1>3, <3>1, <3>2, MarkFacts
  <2>5. CASE ArchiveFetch \/ ArchiveStore
    BY <1>2, <2>5 DEF ArchiveFetch, ArchiveStore, storeVars
  <2>6. CASE ArchiveStamp
    <3>1. Task.op = "stamp" /\ UNCHANGED ids /\ pending' = UpdateMessagePostTime(pending, Task.iid)
      BY <2>6 DEF ArchiveStamp, Run, Task
    <3>2. Task.iid \in Message
      BY <2>1, <3>1, TaskFields
    <3> QED
      BY <1>1, <1>3, <3>1, <3>2, PostTimeFacts
  <2>7. CASE ArchiveRemove
    <3> DEFINE m == Task.iid
               kept == KeptHere(pending, m, Task.remove_if_modified)
               e == Turned(pending, m, last_request + 1)
    <3>1. Task.op = "remove" /\ RemoveOutcome /\ UNCHANGED accepted
      BY <2>7 DEF ArchiveRemove, Run, Task
    <3>2. m \in Message /\ Task.remove_if_modified \in BOOLEAN
      BY <2>1, <3>1, TaskFields
    <3>3. /\ kept => /\ \A u : In(pending', u) <=> (In(pending, u) /\ u.iid # m) \/ u = e
                     /\ e.iid = m /\ <<m, e.ver>> \in ids' /\ e.ver = EntryOf(pending, m).ver
          /\ ~kept => \A u : In(pending', u) <=> In(pending, u) /\ u.iid # m
          /\ ids \subseteq ids'
      BY <3>1, <3>2, RemoveOutcomeFacts
    <3>4. kept => In(pending, EntryOf(pending, m)) /\ EntryOf(pending, m).iid = m
      BY <1>1, PendingFacts DEF KeptHere
    <3>5. kept => e.request # 0
      <4>1. SUFFICES ASSUME kept PROVE e.request # 0
        OBVIOUS
      <4>2. EntryOf(pending, m) \in Entries
        BY <1>1, <3>4, <4>1, PendingFacts
      <4>3. e.request = last_request + 1 /\ last_request \in Nat
        BY <4>2, OutboxAssumption DEF Turned, Entries, StoreOK
      <4> QED
        BY <4>3
    <3> HIDE DEF e, kept
    <3> QED
      BY <3>3, <3>4, <3>5 DEF PendingMoves, Akin
  <2>8. CASE ArchiveImstate
    <3>1. Task.op = "imstate" /\ UNCHANGED ids /\ pending' = UpdateWithImstate(pending, Task.iid)
      BY <2>8 DEF ArchiveImstate, Run, Task
    <3>2. Task.iid \in Message
      BY <2>1, <3>1, TaskFields
    <3>3. \A u : In(pending', u) => In(pending, u)
      BY <1>1, <3>1, <3>2, ImstateFacts
    <3> QED
      BY <3>1, <3>3 DEF PendingMoves, Akin
  <2> QED
    BY <1>4, <2>2, <2>3, <2>4, <2>5, <2>6, <2>7, <2>8 DEF ArchiveStep
<1>5. ASSUME SecondPasses \/ TimerFires PROVE PendingMoves
  BY <1>1, <1>3, <1>5, AgedListFacts DEF SecondPasses, TimerFires
<1>6. ASSUME NEW torn \in BOOLEAN, Crash(torn) PROVE PendingMoves
  <2>1. CASE torn
    BY <1>6, <2>1 DEF Crash, PendingMoves, In
  <2>2. CASE ~torn
    BY <1>1, <1>3, <1>6, <2>2, AgedListFacts DEF Crash
  <2> QED
    BY <2>1, <2>2
<1>7. CASE UNCHANGED <<userVars, storeVars>> \/ UNCHANGED storeVars \/ UNCHANGED vars
  BY <1>2, <1>7 DEF storeVars, vars
<1>8. ASSUME NEW m \in Message,
             SendMessageToContact(m) \/ UpdateMessageToContact(m) \/ DeleteArchiveMessage(m)
               \/ OnDlgState(m) \/ OnEventImstate(m)
      PROVE  UNCHANGED storeVars
  BY <1>8 DEF SendMessageToContact, UpdateMessageToContact, DeleteArchiveMessage, OnDlgState,
     OnEventImstate, Unstored
<1>9. ASSUME NEW c \in Chain, ChainStep(c) \/ PacketDropped(c) \/ ServerHandles(c)
      PROVE  UNCHANGED storeVars
  BY <1>9 DEF ChainStep, PacketDropped, ServerHandles, FetchedNothing, FetchedRecent,
     FetchedReady, SendPendingMessageAsync, AnsweredHistId, AnsweredNoHistId, AnsweredRefused,
     AnsweredError, Stored, Removed, Unstored
<1>10. ASSUME Tick \/ ResumeFailedNetworkRequests PROVE UNCHANGED storeVars
  BY <1>10 DEF Tick, ResumeFailedNetworkRequests, Unstored
<1> QED
  BY <1>4, <1>5, <1>6, <1>7, <1>8, <1>9, <1>10 DEF Next

Done == {"handled", "store", "stored", "remove"}

Sent(e) == [iid |-> e.iid, ver |-> e.ver, request |-> e.request, updated |-> <<e.iid, e.ver>> \in ids]

\* A chain, from one record to the next.
Moves(r, r2) ==
  /\ r2.entry \in Entries =>
       \/ r.entry \in Entries /\ Akin(r2.entry, r.entry)
       \/ In(pending', r2.entry)
  /\ r2.at = "wire" =>
       \/ r.at = "wire" /\ r2.packet = r.packet
       \/ r.entry \in Entries /\ r2.packet = Sent(r.entry)
  /\ r2.at \in Done =>
       \/ r.at \in Done /\ r2.packet = r.packet
       \/ r.at = "wire" /\ r2.packet = r.packet /\ r.packet.request \in server'[r.packet.iid].seen

ChainsMove == \A c \in Chain : Moves(chain[c], chain'[c])

Handled(p, s) ==
  [ver |-> p.ver, seen |-> s.seen \cup {p.request},
   made |-> IF p.updated THEN s.made ELSE s.made + 1]

ServerMoves ==
  \A m \in Message :
    \/ server'[m] = server[m]
    \/ \E c \in Chain : LET p == chain[c].packet
                        IN  /\ chain[c].at = "wire" /\ p.iid = m /\ p.request \notin server[m].seen
                            /\ server'[m] = Handled(p, server[m])

LEMMA Stays ==
  ASSUME NEW r \in ChainRecord
  PROVE  Moves(r, r)
BY DEF Moves, Akin

LEMMA FollowerMoves ==
  ASSUME NEW r \in ChainRecord, NEW r2, Follows(r, r2),
         r2.at = r.at \/ (r.at = "stamp" /\ r2.at = "stamped")
  PROVE  Moves(r, r2)
<1>1. r.entry = NoEntry => r2.entry \notin Entries
  BY EntryIsOne DEF Follows
<1>2. r2.entry \in Entries => r.entry \in Entries
  BY <1>1 DEF ChainRecord
<1>3. r2.entry \in Entries => Akin(r2.entry, r.entry) \/ In(pending', r2.entry)
  BY <1>2 DEF Follows, Akin
<1>4. r2.packet = r.packet /\ (r2.at = "wire" => r.at = "wire") /\ (r2.at \in Done => r.at \in Done)
  BY DEF Follows, Done
<1> QED
  BY <1>2, <1>3, <1>4 DEF Moves

\* One chain gets a record of its own.
LEMMA OneMoves ==
  ASSUME ChainOK, NEW c \in Chain, NEW r, chain' = [chain EXCEPT ![c] = r], Moves(chain[c], r)
  PROVE  ChainsMove
<1>1. \A d \in Chain : d # c => chain'[d] = chain[d] /\ chain[d] \in ChainRecord
  BY DEF ChainOK
<1>2. chain'[c] = r
  BY DEF ChainOK
<1> QED
  BY <1>1, <1>2, Stays DEF ChainsMove

LEMMA NobodyMoves ==
  ASSUME ChainOK, UNCHANGED chain
  PROVE  ChainsMove
BY Stays DEF ChainOK, ChainsMove

LEMMA IdleMoves ==
  ASSUME NEW r, NEW at \in {"idle", "fetch", "removed", "dropped"}
  PROVE  Moves(r, [Idle EXCEPT !.at = at])
BY EntryIsOne DEF Moves, Idle, Done

LEMMA BeginMoves ==
  ASSUME ChainOK, (\E tasks : \E c \in Chain : Begin(c, tasks)) \/ (\E tasks : PostPendingMessages(tasks))
  PROVE  ChainsMove
<1>1. UNCHANGED chain \/ \E c \in Chain : chain' = [chain EXCEPT ![c] = [Idle EXCEPT !.at = "fetch"]]
  BY DEF PostPendingMessages, Begin
<1> QED
  BY <1>1, NobodyMoves, OneMoves, IdleMoves

LEMMA ArchiveMoves ==
  ASSUME TypeInv, TypeInv', ArchiveStep
  PROVE  ChainsMove
<1>0. archive_tasks # <<>>
  BY DEF ArchiveStep, ArchiveInsert, ArchiveUpdate, ArchiveDelete, ArchiveFetch, ArchiveStamp,
         ArchiveStore, ArchiveRemove, ArchiveImstate, Run
<1>1. Task \in Tasks /\ (ChainTask(Task) => Task.chain \in Chain /\ chain[Task.chain].at = Task.op)
  BY <1>0, TaskFacts
<1>2. ChainOK /\ ChainOK' /\ pending' \in Pendings /\ pending \in Pendings
  BY DEF TypeInv, StoreOK
<1>3. CASE ArchiveInsert
  BY <1>2, <1>3, NobodyMoves DEF ArchiveInsert
<1>4. CASE ArchiveUpdate \/ ArchiveDelete \/ ArchiveImstate
  <2>1. AllFollow /\ AtSame(chain, chain', {})
    BY <1>2, <1>4, ChainsSeeFacts DEF ArchiveUpdate, ArchiveDelete, ArchiveImstate
  <2>2. ASSUME NEW c \in Chain PROVE Moves(chain[c], chain'[c])
    BY <1>2, <2>1, FollowerMoves DEF AllFollow, AtSame, ChainOK
  <2> QED
    BY <2>2 DEF ChainsMove
<1>5. CASE ArchiveFetch
  <2> DEFINE c == Task.chain
             e == IF pending = <<>> THEN NoEntry ELSE GetFirstReadyToSend(pending)
             r == [chain[c] EXCEPT !.at = "fetched", !.entry = e]
  <2>1. Task.op = "fetch" /\ pending' = pending /\ chain' = [chain EXCEPT ![c] = r]
    BY <1>5 DEF ArchiveFetch, Run, Task, storeVars
  <2>2. c \in Chain
    BY <1>1, <2>1 DEF ChainTask
  <2>3. e \in Entries => In(pending', e)
    BY <1>2, <2>1, HeadIsPending, EntryIsOne
  <2> HIDE DEF e
  <2>4. r.entry = e /\ r.at = "fetched"
    BY <1>2, <2>2 DEF ChainOK, ChainRecord
  <2> HIDE DEF r
  <2>5. Moves(chain[c], r)
    BY <2>3, <2>4 DEF Moves, Done
  <2> HIDE DEF c
  <2> QED
    BY <1>2, <2>1, <2>2, <2>5, OneMoves
<1>6. CASE ArchiveStamp
  <2> DEFINE t == Task.chain
  <2>1. Task.op = "stamp"
    BY <1>6 DEF ArchiveStamp, Run, Task
  <2>2. t \in Chain /\ chain[t].at = "stamp"
    BY <1>1, <2>1 DEF ChainTask
  <2>3. ASSUME NEW c \in Chain PROVE Moves(chain[c], chain'[c])
    <3>1. chain[c] \in ChainRecord
      BY <1>2 DEF ChainOK
    <3>2. chain'[c] = IF ~Held(c) THEN chain[c]
                      ELSE [chain[c] EXCEPT !.entry = Seen(@), !.at = IF c = t THEN "stamped" ELSE @]
      BY <1>6 DEF ArchiveStamp
    <3> DEFINE r2 == IF chain[c].entry # NoEntry THEN [chain[c] EXCEPT !.entry = Seen(@)] ELSE chain[c]
    <3>3. Follows(chain[c], r2) /\ r2.at = chain[c].at
      BY <1>2, <3>1, SeenRecord
    <3>4. /\ chain'[c] = r2 \/ (c = t /\ chain'[c] = [r2 EXCEPT !.at = "stamped"])
      BY <3>1, <3>2 DEF Held, ChainRecord
    <3>5. chain'[c] \in ChainRecord
      BY <1>2 DEF ChainOK
    <3>6. r2 \in ChainRecord
      BY <3>3 DEF Follows
    <3> HIDE DEF r2
    <3>7. /\ chain'[c].packet = r2.packet /\ chain'[c].entry = r2.entry
          /\ chain'[c].at = chain[c].at \/ (chain[c].at = "stamp" /\ chain'[c].at = "stamped")
      BY <2>2, <3>3, <3>4, <3>6 DEF ChainRecord
    <3>8. Follows(chain[c], chain'[c])
      BY <3>3, <3>5, <3>7 DEF Follows
    <3> QED
      BY <3>1, <3>7, <3>8, FollowerMoves
  <2> QED
    BY <2>3 DEF ChainsMove
<1>7. CASE ArchiveStore
  <2> DEFINE c == Task.chain
             r == [chain[c] EXCEPT !.at = "stored"]
  <2>1. Task.op = "store" /\ chain' = [chain EXCEPT ![c] = r]
    BY <1>7 DEF ArchiveStore, Run, Task
  <2>2. c \in Chain /\ chain[c].at = "store" /\ chain[c] \in ChainRecord
    BY <1>1, <1>2, <2>1 DEF ChainTask, ChainOK
  <2>3. Moves(chain[c], r)
    BY <2>2 DEF Moves, Done, ChainRecord, Akin
  <2> HIDE DEF c, r
  <2> QED
    BY <1>2, <2>1, <2>2, <2>3, OneMoves
<1>8. CASE ArchiveRemove
  <2>1. ASSUME NEW c \in Chain PROVE Moves(chain[c], chain'[c])
    <3>1. chain[c] \in ChainRecord
      BY <1>2 DEF ChainOK
    <3> DEFINE r2 == IF chain[c].entry # NoEntry THEN [chain[c] EXCEPT !.entry = Seen(@)] ELSE chain[c]
    <3>2. chain'[c] = [Idle EXCEPT !.at = "removed"] \/ chain'[c] = r2
      BY <1>8 DEF ArchiveRemove, Held
    <3>3. Follows(chain[c], r2) /\ r2.at = chain[c].at
      BY <1>2, <3>1, SeenRecord
    <3> HIDE DEF r2
    <3>4. Moves(chain[c], r2)
      BY <3>1, <3>3, FollowerMoves
    <3> QED
      BY <3>2, <3>4, IdleMoves
  <2> QED
    BY <2>1 DEF ChainsMove
<1> QED
  BY <1>3, <1>4, <1>5, <1>6, <1>7, <1>8 DEF ArchiveStep

LEMMA NextChains ==
  ASSUME TypeInv, [Next]_vars
  PROVE  ChainsMove /\ ServerMoves
<1> USE DEF TypeInv
<1>0. TypeInv'
  BY NextType
<1>s. UNCHANGED server => ServerMoves
  BY DEF ServerMoves
<1>1. ASSUME NEW c \in Chain, ChainStep(c) \/ PacketDropped(c) \/ ServerHandles(c)
      PROVE  ChainsMove /\ ServerMoves
  <2> DEFINE r == chain[c]
  <2>r. r \in ChainRecord /\ ShapeOf(r)
    BY DEF ChainOK
  <2>1. CASE ServerHandles(c)
    <3> DEFINE p == r.packet
               r2 == [r EXCEPT !.at = "handled"]
    <3>1. r.at = "wire" /\ p \in Packets /\ p.iid \in Message
      BY <2>1, <2>r DEF ServerHandles, ShapeOf, Packed, Packets
    <3>2. /\ \A m \in Message : m # p.iid => server'[m] = server[m]
          /\ p.request \in server[p.iid].seen => server' = server
          /\ p.request \notin server[p.iid].seen => server'[p.iid] = Handled(p, server[p.iid])
      BY <2>1, <3>1, HandledFacts DEF ServerHandles, Handled
    <3>3. ServerMoves
      BY <3>1, <3>2 DEF ServerMoves
    <3>4. p.request \in server'[p.iid].seen
      BY <3>2 DEF Handled
    <3>5. chain' = [chain EXCEPT ![c] = r2]
      BY <2>1 DEF ServerHandles
    <3>6. r2.at = "handled" /\ r2.packet = r.packet /\ r2.entry = r.entry
      BY <2>r DEF ChainRecord
    <3> HIDE DEF r2
    <3>7. Moves(r, r2)
      BY <3>1, <3>4, <3>6 DEF Moves, Done, Akin
    <3> QED
      BY <3>3, <3>5, <3>7, OneMoves
  <2>2. CASE FetchedNothing(c) \/ FetchedRecent(c) \/ AnsweredRefused(c) \/ AnsweredError(c)
             \/ PacketDropped(c)
    <3>1. UNCHANGED server
      BY <2>2 DEF FetchedNothing, FetchedRecent, AnsweredRefused, AnsweredError, PacketDropped
    <3>2. Idle = [Idle EXCEPT !.at = "idle"]
      BY DEF Idle
    <3>3. \E at \in {"idle", "dropped"} : chain' = [chain EXCEPT ![c] = [Idle EXCEPT !.at = at]]
      BY <2>2, <3>2 DEF FetchedNothing, FetchedRecent, AnsweredRefused, AnsweredError, PacketDropped,
         ChainEnds
    <3>4. ChainsMove
      BY <3>3, OneMoves, IdleMoves
    <3> QED
      BY <1>s, <3>1, <3>4
  <2>3. CASE AnsweredNoHistId(c) \/ Removed(c)
    BY <1>s, <2>3, BeginMoves DEF AnsweredNoHistId, Removed
  <2>4. CASE SendPendingMessageAsync(c)
    <3> DEFINE r2 == [r EXCEPT !.at = "wire", !.packet = Sent(r.entry)]
    <3>1. chain' = [chain EXCEPT ![c] = r2] /\ UNCHANGED server
      BY <2>4 DEF SendPendingMessageAsync, Sent
    <3>2. r.entry \in Entries
      BY <2>4, <2>r DEF SendPendingMessageAsync, ShapeOf, Sending
    <3>3. r2.at = "wire" /\ r2.packet = Sent(r.entry) /\ r2.entry = r.entry
      BY <2>r DEF ChainRecord
    <3> HIDE DEF r2
    <3>4. Moves(r, r2)
      BY <3>2, <3>3 DEF Moves, Done, Akin
    <3> QED
      BY <1>s, <3>1, <3>4, OneMoves
  <2>5. CASE FetchedReady(c) \/ AnsweredHistId(c) \/ Stored(c)
    <3>1. PICK at \in {"stamp", "store", "remove"} :
            /\ chain' = [chain EXCEPT ![c] = [r EXCEPT !.at = at]] /\ UNCHANGED server
            /\ at # "stamp" => r.at \in Done
      BY <2>5 DEF FetchedReady, AnsweredHistId, Stored, Done
    <3> DEFINE r2 == [r EXCEPT !.at = at]
    <3>2. r2.at = at /\ r2.packet = r.packet /\ r2.entry = r.entry
      BY <2>r DEF ChainRecord
    <3>3. chain' = [chain EXCEPT ![c] = r2]
      BY <3>1
    <3> HIDE DEF r2
    <3>4. Moves(r, r2)
      BY <3>1, <3>2 DEF Moves, Done, Akin
    <3> QED
      BY <1>s, <3>1, <3>3, <3>4, OneMoves
  <2> QED
    BY <1>1, <2>1, <2>2, <2>3, <2>4, <2>5 DEF ChainStep
<1>2. ASSUME ArchiveStep PROVE ChainsMove /\ ServerMoves
  <2>1. UNCHANGED server
    BY <1>2 DEF ArchiveStep, ArchiveInsert, ArchiveUpdate, ArchiveDelete, ArchiveFetch, ArchiveStamp,
       ArchiveStore, ArchiveRemove, ArchiveImstate, Run
  <2> QED
    BY <1>0, <1>2, <1>s, <2>1, ArchiveMoves
<1>3. ASSUME NEW m \in Message,
             SendMessageToContact(m) \/ UpdateMessageToContact(m) \/ DeleteArchiveMessage(m)
               \/ OnDlgState(m) \/ OnEventImstate(m)
      PROVE  ChainsMove /\ ServerMoves
  <2>1. UNCHANGED server /\ (UNCHANGED chain \/ \E tasks : PostPendingMessages(tasks))
    BY <1>3 DEF SendMessageToContact, UpdateMessageToContact, DeleteArchiveMessage, OnDlgState,
       OnEventImstate
  <2> QED
    BY <1>s, <2>1, NobodyMoves, BeginMoves
<1>4. ASSUME SecondPasses \/ TimerFires PROVE ChainsMove /\ ServerMoves
  <2>1. AllFollow /\ AtSame(chain, chain', {}) /\ UNCHANGED server
    BY <1>4, AllAged DEF SecondPasses, TimerFires
  <2>2. ASSUME NEW c \in Chain PROVE Moves(chain[c], chain'[c])
    BY <2>1, FollowerMoves DEF AllFollow, AtSame, ChainOK
  <2> QED
    BY <1>s, <2>1, <2>2 DEF ChainsMove
<1>5. ASSUME Tick \/ ResumeFailedNetworkRequests PROVE ChainsMove /\ ServerMoves
  BY <1>5, <1>s, BeginMoves DEF Tick, ResumeFailedNetworkRequests
<1>6. ASSUME NEW torn \in BOOLEAN, Crash(torn) PROVE ChainsMove /\ ServerMoves
  <2>1. UNCHANGED server /\ \A c \in Chain : chain'[c] = [Idle EXCEPT !.at = "idle"]
    BY <1>6 DEF Crash, Idle
  <2> QED
    BY <1>s, <2>1, IdleMoves DEF ChainsMove
<1>7. CASE UNCHANGED vars
  BY <1>7, <1>s, NobodyMoves DEF vars
<1> QED
  BY <1>1, <1>2, <1>3, <1>4, <1>5, <1>6, <1>7 DEF Next

(***************************************************************************)
(* One message of a message.  What has a request id of its own goes out as *)
(* an update; everything else carries the internal id, which the server    *)
(* takes once.                                                             *)
(***************************************************************************)
Tagged(e, d) == e.request # 0 => <<e.iid, e.ver>> \in d

RequestInv ==
  /\ \A u : In(pending, u) => Tagged(u, ids)
  /\ \A c \in Chain : chain[c].entry \in Entries => Tagged(chain[c].entry, ids)
  /\ \A t : In(archive_tasks, t) /\ t.op \in {"insert", "update"} => Tagged(t.entry, ids)
  /\ \A c \in Chain : chain[c].at = "wire" => chain[c].packet.updated \/ chain[c].packet.request = 0

TakenInv ==
  \A m \in Message :
    LET s == server[m]
    IN  s.made <= 1 /\ (s.made > 0 => 0 \in s.seen) /\ (s.seen # {} => s.ver > 0)

\* What the server is said to have, it has.
KnownInv ==
  /\ \A c \in Chain : chain[c].at \in Done => server[chain[c].packet.iid].ver > 0
  /\ \A t : In(archive_tasks, t) =>
       /\ t.op = "imstate" => server[t.iid].ver > 0
       /\ t.op = "remove" /\ ~t.remove_if_modified => t.ver = 0 /\ server[t.iid].ver > 0

SentInv == RequestInv /\ TakenInv /\ KnownInv

LEMMA TaggedMore ==
  ASSUME NEW d, NEW d2, d \subseteq d2, NEW e, Tagged(e, d)
  PROVE  Tagged(e, d2) /\ \A u : Akin(u, e) => Tagged(u, d2)
BY DEF Tagged, Akin

LEMMA InitSent ==
  Init => SentInv
<1> SUFFICES ASSUME Init PROVE SentInv
  OBVIOUS
<1>1. RequestInv
  BY DEF Init, RequestInv, In, Idle, NoEntry, Tagged, Entries
<1>2. TakenInv
  BY DEF Init, TakenInv
<1>3. KnownInv
  BY DEF Init, KnownInv, In, Idle, Done
<1> QED
  BY <1>1, <1>2, <1>3 DEF SentInv

LEMMA RequestStep ==
  ASSUME TypeInv, RequestInv, [Next]_vars
  PROVE  RequestInv'
<1>1. PendingMoves /\ ChainsMove /\ TasksMove
  BY NextPending, NextChains, NextTasks
<1>2. ids \subseteq ids'
  BY <1>1 DEF PendingMoves
<1>3. ASSUME NEW u, In(pending', u) PROVE Tagged(u, ids')
  <2>1. CASE \E v : In(pending, v) /\ Akin(u, v)
    BY <1>2, <2>1, TaggedMore DEF RequestInv
  <2>2. CASE \E t : Executed(t) /\ t.op \in {"insert", "update"} /\ u = t.entry
    BY <1>2, <2>2, TaggedMore DEF RequestInv, Executed
  <2>3. CASE <<u.iid, u.ver>> \in ids'
    BY <2>3 DEF Tagged
  <2> QED
    BY <1>1, <1>3, <2>1, <2>2, <2>3 DEF PendingMoves
<1>4. ASSUME NEW c \in Chain, chain'[c].entry \in Entries PROVE Tagged(chain'[c].entry, ids')
  <2>1. CASE chain[c].entry \in Entries /\ Akin(chain'[c].entry, chain[c].entry)
    BY <1>2, <2>1, TaggedMore DEF RequestInv
  <2>2. CASE In(pending', chain'[c].entry)
    BY <1>3, <2>2
  <2> QED
    BY <1>1, <1>4, <2>1, <2>2 DEF ChainsMove, Moves
<1>5. ASSUME NEW t, In(archive_tasks', t), t.op \in {"insert", "update"} PROVE Tagged(t.entry, ids')
  <2>1. CASE In(archive_tasks, t)
    BY <1>2, <1>5, <2>1, TaggedMore DEF RequestInv
  <2>2. CASE NewTask(t)
    <3>1. t.entry \in Entries
      BY <1>5, <2>2, TaskFields DEF NewTask
    <3>2. CASE t.entry.request = 0
      BY <3>2 DEF Tagged
    <3>3. CASE \E c \in Chain : t.entry = chain[c].entry
      BY <1>2, <3>1, <3>3, TaggedMore DEF RequestInv
    <3> QED
      BY <1>5, <2>2, <3>2, <3>3 DEF NewTask, UserTask, Copy
  <2> QED
    BY <1>1, <1>5, <2>1, <2>2 DEF TasksMove
<1>6. ASSUME NEW c \in Chain, chain'[c].at = "wire"
      PROVE  chain'[c].packet.updated \/ chain'[c].packet.request = 0
  <2>1. CASE chain[c].at = "wire" /\ chain'[c].packet = chain[c].packet
    BY <2>1 DEF RequestInv
  <2>2. CASE chain[c].entry \in Entries /\ chain'[c].packet = Sent(chain[c].entry)
    <3>1. Tagged(chain[c].entry, ids)
      BY <2>2 DEF RequestInv
    <3>2. chain'[c].packet.request = chain[c].entry.request
      BY <2>2 DEF Sent
    <3>u. chain'[c].packet.updated = (<<chain[c].entry.iid, chain[c].entry.ver>> \in ids)
      BY <2>2 DEF Sent
    <3>3. chain'[c].packet.updated <=> <<chain[c].entry.iid, chain[c].entry.ver>> \in ids
      BY <3>u, Zenon
    <3> QED
      BY <3>1, <3>2, <3>3, Zenon DEF Tagged
  <2> QED
    BY <1>1, <1>6, <2>1, <2>2 DEF ChainsMove, Moves
<1> QED
  BY <1>3, <1>4, <1>5, <1>6 DEF RequestInv

LEMMA TakenStep ==
  ASSUME TypeInv, RequestInv, TakenInv, [Next]_vars
  PROVE  TakenInv'
<1>1. ServerMoves
  BY NextChains
<1>2. SUFFICES ASSUME NEW m \in Message
               PROVE  /\ server'[m].made <= 1 /\ (server'[m].made > 0 => 0 \in server'[m].seen)
                      /\ (server'[m].seen # {} => server'[m].ver > 0)
  BY DEF TakenInv
<1>3. /\ server[m].made <= 1 /\ (server[m].made > 0 => 0 \in server[m].seen)
      /\ (server[m].seen # {} => server[m].ver > 0)
  BY DEF TakenInv
<1>4. CASE server'[m] = server[m]
  BY <1>3, <1>4
<1>5. CASE \E c \in Chain : LET p == chain[c].packet
                            IN  /\ chain[c].at = "wire" /\ p.iid = m /\ p.request \notin server[m].seen
                                /\ server'[m] = Handled(p, server[m])
  <2>1. PICK c \in Chain : LET p == chain[c].packet
                           IN  /\ chain[c].at = "wire" /\ p.iid = m /\ p.request \notin server[m].seen
                               /\ server'[m] = Handled(p, server[m])
    BY <1>5
  <2> DEFINE p == chain[c].packet
  <2>2. p \in Packets
    BY <2>1 DEF TypeInv, ChainOK, ShapeOf, Packed
  <2>3. p.updated \/ p.request = 0
    BY <2>1 DEF RequestInv
  <2>4. p.ver > 0 /\ server[m].made \in Nat
    BY <2>2, OutboxAssumption DEF Packets, Version, TypeInv, ServerOK
  <2>5. CASE p.updated
    BY <1>3, <2>1, <2>4, <2>5 DEF Handled
  <2>6. CASE ~p.updated
    <3>1. server[m].made = 0 /\ p.request = 0
      BY <1>3, <2>1, <2>3, <2>4, <2>6
    <3> QED
      BY <2>1, <2>4, <2>6, <3>1 DEF Handled
  <2> QED
    BY <2>5, <2>6
<1> QED
  BY <1>1, <1>4, <1>5 DEF ServerMoves

LEMMA KnownStep ==
  ASSUME TypeInv, RequestInv, TakenInv, KnownInv, [Next]_vars
  PROVE  KnownInv' /\ \A m \in Message : server[m].ver > 0 => server'[m].ver > 0
<1>1. ChainsMove /\ TasksMove /\ ServerMoves
  BY NextChains, NextTasks
<1>2. TakenInv' /\ TypeInv'
  BY TakenStep, NextType
<1>3. ASSUME NEW m \in Message, server[m].ver > 0 PROVE server'[m].ver > 0
  <2>1. CASE server'[m] = server[m]
    BY <1>3, <2>1
  <2>2. CASE \E c \in Chain : LET p == chain[c].packet
                              IN  chain[c].at = "wire" /\ server'[m] = Handled(p, server[m])
    <3>1. PICK c \in Chain : chain[c].at = "wire" /\ server'[m] = Handled(chain[c].packet, server[m])
      BY <2>2
    <3>2. chain[c].packet \in Packets
      BY <3>1 DEF TypeInv, ChainOK, ShapeOf, Packed
    <3> QED
      BY <3>1, <3>2, OutboxAssumption DEF Handled, Packets, Version
  <2> QED
    BY <1>1, <2>1, <2>2 DEF ServerMoves
<1>4. ASSUME NEW c \in Chain, chain'[c].at \in Done PROVE server'[chain'[c].packet.iid].ver > 0
  <2>1. chain'[c].packet.iid \in Message
    BY <1>2, <1>4 DEF TypeInv, ChainOK, ShapeOf, Packed, Done, Packets
  <2>2. CASE chain[c].at \in Done /\ chain'[c].packet = chain[c].packet
    BY <1>3, <2>1, <2>2 DEF KnownInv
  <2>3. CASE /\ chain[c].at = "wire" /\ chain'[c].packet = chain[c].packet
             /\ chain[c].packet.request \in server'[chain[c].packet.iid].seen
    BY <1>2, <2>1, <2>3 DEF TakenInv
  <2> QED
    BY <1>1, <1>4, <2>2, <2>3 DEF ChainsMove, Moves
<1>5. ASSUME NEW t, In(archive_tasks', t)
      PROVE  /\ t.op = "imstate" => server'[t.iid].ver > 0
             /\ t.op = "remove" /\ ~t.remove_if_modified => t.ver = 0 /\ server'[t.iid].ver > 0
  <2>1. t \in Tasks
    BY <1>2, <1>5 DEF TypeInv, Links, In
  <2>2. t.op \in {"imstate", "remove"} => t.iid \in Message
    BY <2>1, TaskFields
  <2>3. CASE In(archive_tasks, t)
    BY <1>3, <2>2, <2>3 DEF KnownInv
  <2>4. CASE NewTask(t)
    <3>1. ASSUME NEW c \in Chain, chain[c].at = "stored", t.iid = chain[c].entry.iid
          PROVE  server[t.iid].ver > 0
      BY <3>1 DEF KnownInv, Done, TypeInv, ChainOK, ShapeOf, Packed
    <3> QED
      BY <1>3, <2>2, <2>4, <3>1 DEF NewTask
  <2> QED
    BY <1>1, <1>5, <2>3, <2>4 DEF TasksMove
<1> QED
  BY <1>3, <1>4, <1>5 DEF KnownInv

LEMMA NextSent ==
  TypeInv /\ SentInv /\ [Next]_vars => SentInv'
BY RequestStep, TakenStep, KnownStep DEF SentInv

\* However often a message is sent again, the server makes one message of it.
THEOREM MadeOnce == Spec => []NoDuplicate
<1>1. Init => TypeInv /\ SentInv
  BY TypeInit, InitSent
<1>2. (TypeInv /\ SentInv) /\ [Next]_vars => (TypeInv /\ SentInv)'
  BY NextType, NextSent
<1>3. TypeInv /\ SentInv => NoDuplicate
  BY DEF SentInv, TakenInv, NoDuplicate
<1> QED
  BY <1>1, <1>2, <1>3, PTL DEF Spec

(***************************************************************************)
(* What becomes of a pending message: it stays, perhaps marked or edited,  *)
(* or a task of its own takes it away, or a crash inside save() does.      *)
(***************************************************************************)
Remains(v) == \E u : In(pending', u) /\ u.iid = v.iid /\ u.ver = v.ver /\ (v.deleted => u.deleted)

Overwritten(v, op) == Executes(op) /\ Task.entry.iid = v.iid /\ In(pending', Task.entry)

TakenAway(v) ==
  \/ /\ Executes("remove") /\ Task.iid = v.iid
     /\ Task.remove_if_modified => v.iid \in refused'
     /\ Task.ver = 0 /\ v.deleted => v.iid \in pending_deletes'
     /\ v.modified => v.deleted \/ Task.remove_if_modified
  \/ /\ Executes("imstate") /\ Task.iid = v.iid
     /\ v.deleted => v.iid \in pending_deletes'
     /\ v.modified => v.deleted

Fate(v) == Remains(v) \/ Overwritten(v, "insert") \/ Overwritten(v, "update") \/ TakenAway(v) \/ Torn

LEMMA KindredStay ==
  ASSUME Kindred(pending, pending'), NEW v, In(pending, v)
  PROVE  Fate(v)
BY DEF Kindred, Akin, Fate, Remains

LEMMA ArchiveFate ==
  ASSUME TypeInv, ArchiveStep, NEW v, In(pending, v)
  PROVE  Fate(v)
<1>0. archive_tasks # <<>>
  BY DEF ArchiveStep, ArchiveInsert, ArchiveUpdate, ArchiveDelete, ArchiveFetch, ArchiveStamp,
         ArchiveStore, ArchiveRemove, ArchiveImstate, Run
<1>1. Task \in Tasks
  BY <1>0, TaskFacts
<1>2. StoreOK /\ pending \in Pendings
  BY DEF TypeInv, StoreOK
<1>3. v \in Entries /\ v.iid \in Message
  BY <1>2, PendingFacts DEF Entries
<1>4. v = EntryOf(pending, v.iid) /\ Exists(pending, v.iid)
  BY <1>2, PendingFacts
<1>5. In(pending', v) => Fate(v)
  BY DEF Fate, Remains
<1>6. CASE ArchiveInsert
  <2>1. Task.op = "insert" /\ Executes("insert") /\ pending' = InsertMessage(pending, Task.entry)
    BY <1>0, <1>6 DEF ArchiveInsert, Run, Task, Executes
  <2>2. Task.entry \in Entries
    BY <1>1, <2>1, TaskFields
  <2>3. In(pending', v) \/ (v.iid = Task.entry.iid /\ In(pending', Task.entry))
    BY <1>2, <2>1, <2>2, InsertFacts
  <2> QED
    BY <1>5, <2>1, <2>3 DEF Fate, Overwritten
<1>7. CASE ArchiveUpdate
  <2>1. /\ Task.op = "update" /\ Executes("update")
        /\ pending' = Replace(pending, Task.entry.iid, Task.entry)
    BY <1>0, <1>7 DEF ArchiveUpdate, UpdateMessageIfExist, Run, Task, Executes
  <2>2. Task.entry \in Entries /\ Task.entry.iid \in Message
    BY <1>1, <2>1, TaskFields DEF Entries
  <2>3. In(pending', v) \/ (v.iid = Task.entry.iid /\ In(pending', Task.entry))
    BY <1>2, <1>4, <2>1, <2>2, ReplaceFacts
  <2> QED
    BY <1>5, <2>1, <2>3 DEF Fate, Overwritten
<1>8. CASE ArchiveDelete
  <2>1. Task.op = "delete" /\ pending' = MarkDeleted(pending, Task.iid)
    BY <1>8 DEF ArchiveDelete, Run, Task
  <2>2. Task.iid \in Message
    BY <1>1, <2>1, TaskFields
  <2> QED
    BY <1>2, <2>1, <2>2, MarkFacts, KindredStay
<1>9. CASE ArchiveFetch \/ ArchiveStore
  BY <1>5, <1>9 DEF ArchiveFetch, ArchiveStore, storeVars
<1>10. CASE ArchiveStamp
  <2>1. Task.op = "stamp" /\ pending' = UpdateMessagePostTime(pending, Task.iid)
    BY <1>10 DEF ArchiveStamp, Run, Task
  <2>2. Task.iid \in Message
    BY <1>1, <2>1, TaskFields
  <2> QED
    BY <1>2, <2>1, <2>2, PostTimeFacts, KindredStay
<1>11. CASE ArchiveRemove
  <2> DEFINE m == Task.iid
             kept == KeptHere(pending, m, Task.remove_if_modified)
             e == Turned(pending, m, last_request + 1)
  <2>1. Task.op = "remove" /\ Executes("remove") /\ RemoveOutcome /\ UNCHANGED accepted
    BY <1>0, <1>11 DEF ArchiveRemove, Run, Task, Executes
  <2>2. m \in Message /\ Task.remove_if_modified \in BOOLEAN
    BY <1>1, <2>1, TaskFields
  <2>3. /\ kept => (\A u : In(pending', u) <=> (In(pending, u) /\ u.iid # m) \/ u = e)
                /\ e.iid = m /\ e.ver = EntryOf(pending, m).ver
        /\ ~kept => \A u : In(pending', u) <=> In(pending, u) /\ u.iid # m
    BY <1>2, <2>1, <2>2, RemoveOutcomeFacts
  <2>4. CASE v.iid # m
    BY <1>5, <2>3, <2>4
  <2>5. CASE v.iid = m /\ kept
    <3>1. ~v.deleted /\ e.ver = v.ver
      BY <1>4, <2>3, <2>5 DEF KeptHere, Kept
    <3> HIDE DEF e, kept
    <3>2. In(pending', e) /\ e.iid = v.iid
      BY <2>3, <2>5
    <3> QED
      BY <3>1, <3>2 DEF Fate, Remains
  <2>6. CASE v.iid = m /\ ~kept
    <3>0. v.modified => v.deleted \/ Task.remove_if_modified
      BY <1>4, <2>6 DEF KeptHere, Kept
    <3>1. Task.remove_if_modified => v.iid \in refused'
      BY <2>1, <2>6 DEF RemoveOutcome
    <3>2. Task.ver = 0 /\ v.deleted => v.iid \in pending_deletes'
      BY <1>4, <2>1, <2>6 DEF RemoveOutcome, LeavesDelete
    <3> QED
      BY <2>1, <2>6, <3>0, <3>1, <3>2 DEF Fate, TakenAway
  <2> QED
    BY <2>4, <2>5, <2>6
<1>12. CASE ArchiveImstate
  <2>1. /\ Task.op = "imstate" /\ Executes("imstate") /\ pending' = UpdateWithImstate(pending, Task.iid)
        /\ pending_deletes' = IF LeavesDelete(pending, Task.iid, TRUE)
                              THEN pending_deletes \cup {Task.iid} ELSE pending_deletes
    BY <1>0, <1>12 DEF ArchiveImstate, Run, Task, Executes
  <2>2. Task.iid \in Message
    BY <1>1, <2>1, TaskFields
  <2>3. CASE v.iid = Task.iid
    <3>2. CASE KeptHere(pending, Task.iid, FALSE)
      BY <1>2, <1>5, <2>1, <2>2, <3>2, ImstateFacts
    <3>3. ~KeptHere(pending, Task.iid, FALSE) => (v.modified => v.deleted)
      BY <1>4, <2>3 DEF KeptHere, Kept
    <3>1. v.deleted => v.iid \in pending_deletes'
      BY <1>4, <2>1, <2>3 DEF LeavesDelete
    <3> QED
      BY <2>1, <2>3, <3>1, <3>2, <3>3 DEF Fate, TakenAway
  <2>4. CASE v.iid # Task.iid
    BY <1>2, <1>5, <2>1, <2>2, <2>4, ImstateFacts
  <2> QED
    BY <2>3, <2>4
<1> QED
  BY <1>6, <1>7, <1>8, <1>9, <1>10, <1>11, <1>12 DEF ArchiveStep

LEMMA NextFate ==
  ASSUME TypeInv, [Next]_vars, NEW v, In(pending, v)
  PROVE  Fate(v)
<1>1. pending \in Pendings
  BY DEF TypeInv, StoreOK
<1>2. CASE UNCHANGED pending
  BY <1>2 DEF Fate, Remains
<1>3. CASE SecondPasses \/ TimerFires
  BY <1>1, <1>3, AgedListFacts, KindredStay DEF SecondPasses, TimerFires
<1>4. ASSUME NEW torn \in BOOLEAN, Crash(torn) PROVE Fate(v)
  <2>1. CASE torn
    <3>1. crashes \in Nat /\ crashes' = crashes + 1 /\ pending' = <<>>
      BY <1>4, <2>1, OutboxAssumption DEF Crash, TypeInv, UserOK
    <3> QED
      BY <3>1 DEF Fate, Torn
  <2>2. CASE ~torn
    BY <1>1, <1>4, <2>2, AgedListFacts, KindredStay DEF Crash
  <2> QED
    BY <2>1, <2>2
<1>5. ASSUME NEW m \in Message,
             SendMessageToContact(m) \/ UpdateMessageToContact(m) \/ DeleteArchiveMessage(m)
               \/ OnDlgState(m) \/ OnEventImstate(m)
      PROVE  UNCHANGED pending
  BY <1>5 DEF SendMessageToContact, UpdateMessageToContact, DeleteArchiveMessage, OnDlgState,
     OnEventImstate, Unstored, storeVars
<1>6. ASSUME NEW c \in Chain, ChainStep(c) \/ PacketDropped(c) \/ ServerHandles(c)
      PROVE  UNCHANGED pending
  BY <1>6 DEF ChainStep, PacketDropped, ServerHandles, FetchedNothing, FetchedRecent,
     FetchedReady, SendPendingMessageAsync, AnsweredHistId, AnsweredNoHistId, AnsweredRefused,
     AnsweredError, Stored, Removed, Unstored, storeVars
<1>7. CASE Tick \/ ResumeFailedNetworkRequests \/ UNCHANGED vars
  BY <1>2, <1>7 DEF Tick, ResumeFailedNetworkRequests, Unstored, storeVars, vars
<1> QED
  BY <1>2, <1>3, <1>4, <1>5, <1>6, <1>7, ArchiveFate DEF Next

(***************************************************************************)
(* A message in hand stays in hand: the task that takes it from the list   *)
(* is one for what the server has or refused.                              *)
(***************************************************************************)
LEMMA RefusedStay ==
  [Next]_vars => refused \subseteq refused' /\ pending_deletes \subseteq pending_deletes'
<1> SUFFICES ASSUME [Next]_vars PROVE refused \subseteq refused' /\ pending_deletes \subseteq pending_deletes'
  OBVIOUS
<1>1. ASSUME ArchiveStep PROVE refused \subseteq refused' /\ pending_deletes \subseteq pending_deletes'
  BY <1>1 DEF ArchiveStep, ArchiveInsert, ArchiveUpdate, ArchiveDelete, ArchiveFetch, ArchiveStamp,
     ArchiveStore, ArchiveRemove, ArchiveImstate, RemoveOutcome, storeVars
<1>2. ASSUME NEW m \in Message,
             SendMessageToContact(m) \/ UpdateMessageToContact(m) \/ DeleteArchiveMessage(m)
               \/ OnDlgState(m) \/ OnEventImstate(m)
      PROVE  UNCHANGED <<refused, pending_deletes>>
  BY <1>2 DEF SendMessageToContact, UpdateMessageToContact, DeleteArchiveMessage, OnDlgState,
     OnEventImstate, Unstored, storeVars
<1>3. ASSUME NEW c \in Chain, ChainStep(c) \/ PacketDropped(c) \/ ServerHandles(c)
      PROVE  UNCHANGED <<refused, pending_deletes>>
  BY <1>3 DEF ChainStep, PacketDropped, ServerHandles, FetchedNothing, FetchedRecent,
     FetchedReady, SendPendingMessageAsync, AnsweredHistId, AnsweredNoHistId, AnsweredRefused,
     AnsweredError, Stored, Removed, Unstored, storeVars
<1>4. ASSUME SecondPasses \/ TimerFires \/ Tick \/ ResumeFailedNetworkRequests
             \/ (\E torn \in BOOLEAN : Crash(torn)) \/ UNCHANGED vars
      PROVE  UNCHANGED <<refused, pending_deletes>>
  BY <1>4 DEF SecondPasses, TimerFires, Tick, ResumeFailedNetworkRequests, Crash, Unstored,
     storeVars, vars
<1> QED
  BY <1>1, <1>2, <1>3, <1>4 DEF Next

LEMMA InHandStays ==
  ASSUME TypeInv, SentInv, [Next]_vars, NEW m \in Message, InHand(m)
  PROVE  InHand(m)' \/ Torn
<1>1. TypeInv' /\ refused \subseteq refused' /\ \A n \in Message : server[n].ver > 0 => server'[n].ver > 0
  BY NextType, RefusedStay, KnownStep DEF SentInv
<1>2. CASE server[m].ver > 0 \/ m \in refused
  BY <1>1, <1>2 DEF InHand
<1>3. CASE Exists(pending, m)
  <2>1. PICK v : In(pending, v) /\ v.iid = m
    BY <1>3, PendingFacts DEF TypeInv, StoreOK
  <2>2. Fate(v)
    BY <2>1, NextFate
  <2>3. ASSUME NEW u, In(pending', u), u.iid = m PROVE InHand(m)'
    <3>1. Exists(pending', m)
      BY <2>3 DEF In, Exists
    <3> QED
      BY <3>1 DEF InHand
  <2>4. CASE Remains(v)
    BY <2>1, <2>3, <2>4 DEF Remains
  <2>5. CASE Overwritten(v, "insert") \/ Overwritten(v, "update")
    BY <2>1, <2>3, <2>5 DEF Overwritten
  <2>6. CASE TakenAway(v)
    <3>1. archive_tasks # <<>> /\ In(archive_tasks, Task) /\ Task.iid = m
      BY <2>1, <2>6, InTail DEF TakenAway, Executes, Task, TypeInv, Links
    <3>2. (Task.op = "remove" /\ Task.remove_if_modified /\ m \in refused') \/ server[m].ver > 0
      BY <2>1, <2>6, <3>1 DEF TakenAway, Executes, SentInv, KnownInv
    <3> QED
      BY <1>1, <3>2 DEF InHand
  <2> QED
    BY <2>2, <2>4, <2>5, <2>6 DEF Fate
<1> QED
  BY <1>2, <1>3 DEF InHand

\* A message that is pending stays so until the server has it or refuses it, unless
\* a crash inside save() loses the list.
THEOREM KeptInHand == Spec => MessageIsKept
<1>1. Init => TypeInv /\ SentInv
  BY TypeInit, InitSent
<1>2. (TypeInv /\ SentInv) /\ [Next]_vars => (TypeInv /\ SentInv)'
  BY NextType, NextSent
<1>3. (TypeInv /\ SentInv) /\ [Next]_vars => [\A m \in Message : InHand(m) /\ ~InHand(m)' => Torn]_vars
  BY InHandStays
<1> QED
  BY <1>1, <1>2, <1>3, PTL DEF Spec, MessageIsKept

(***************************************************************************)
(* A message is inserted once: what is typed gets one insert task, which   *)
(* finds no pending message with its internal id, before or after crashes. *)
(***************************************************************************)
Inserts(q, m) == {i \in DOMAIN q : q[i].op = "insert" /\ q[i].entry.iid = m}

InsertedOnce(q, p, ty) ==
  /\ \A m \in Message : Inserts(q, m) # {} => ty[m] # 0 /\ ~Exists(p, m)
  /\ \A m \in Message : \A i, j \in Inserts(q, m) : i = j

FreshInv ==
  /\ \A m \in Message : Exists(pending, m) => typed[m] # 0
  /\ InsertedOnce(archive_tasks, pending, typed)

LEMMA TypedStays ==
  ASSUME TypeInv, [Next]_vars, NEW m \in Message
  PROVE  typed[m] <= typed'[m] /\ (typed[m] # 0 => typed'[m] # 0)
<1>1. typed \in [Message -> 0..MaxVersion] /\ MaxVersion \in Nat
  BY OutboxAssumption DEF TypeInv, UserOK
<1>2. ASSUME ArchiveStep PROVE UNCHANGED typed
  BY <1>2 DEF ArchiveStep, ArchiveInsert, ArchiveUpdate, ArchiveDelete, ArchiveFetch, ArchiveStamp,
     ArchiveStore, ArchiveRemove, ArchiveImstate, Run, userVars
<1>3. ASSUME NEW n \in Message, SendMessageToContact(n) \/ UpdateMessageToContact(n)
      PROVE  typed[m] <= typed'[m] /\ (typed[m] # 0 => typed'[m] # 0)
  BY <1>1, <1>3 DEF SendMessageToContact, UpdateMessageToContact
<1>4. ASSUME NEW n \in Message, DeleteArchiveMessage(n) \/ OnDlgState(n) \/ OnEventImstate(n)
      PROVE  UNCHANGED typed
  BY <1>4 DEF DeleteArchiveMessage, OnDlgState, OnEventImstate, Unstored, userVars
<1>5. ASSUME NEW c \in Chain, ChainStep(c) \/ PacketDropped(c) \/ ServerHandles(c)
      PROVE  UNCHANGED typed
  BY <1>5 DEF ChainStep, PacketDropped, ServerHandles, FetchedNothing, FetchedRecent,
     FetchedReady, SendPendingMessageAsync, AnsweredHistId, AnsweredNoHistId, AnsweredRefused,
     AnsweredError, Stored, Removed, Unstored, userVars
<1>6. ASSUME SecondPasses \/ TimerFires \/ Tick \/ ResumeFailedNetworkRequests
             \/ (\E torn \in BOOLEAN : Crash(torn)) \/ UNCHANGED vars
      PROVE  UNCHANGED typed
  BY <1>6 DEF SecondPasses, TimerFires, Tick, ResumeFailedNetworkRequests, Crash, Unstored,
     userVars, vars
<1> QED
  BY <1>1, <1>2, <1>3, <1>4, <1>5, <1>6 DEF Next

\* Only an insert task puts a message into the list that was not there.
LEMMA NextExists ==
  ASSUME TypeInv, [Next]_vars, NEW m \in Message, Exists(pending', m)
  PROVE  Exists(pending, m) \/ (Executes("insert") /\ Task.entry.iid = m)
<1>1. pending \in Pendings
  BY DEF TypeInv, StoreOK
<1>2. CASE UNCHANGED pending
  BY <1>2
<1>3. ASSUME ArchiveStep PROVE Exists(pending, m) \/ (Executes("insert") /\ Task.entry.iid = m)
  <2>0. archive_tasks # <<>> /\ archive_tasks' = Tail(archive_tasks)
    BY <1>3 DEF ArchiveStep, ArchiveInsert, ArchiveUpdate, ArchiveDelete, ArchiveFetch, ArchiveStamp,
         ArchiveStore, ArchiveRemove, ArchiveImstate, Run
  <2>1. Task \in Tasks /\ pending' \in Pendings
    BY <2>0, TaskFacts, NextType DEF TypeInv, StoreOK
  <2>2. PICK u : In(pending', u) /\ u.iid = m
    BY <2>1, PendingFacts
  <2>3. In(pending, u) => Exists(pending, m)
    BY <2>2 DEF In, Exists
  <2>4. CASE ArchiveInsert
    <3>1. Task.op = "insert" /\ Executes("insert") /\ pending' = InsertMessage(pending, Task.entry)
      BY <2>0, <2>4 DEF ArchiveInsert, Run, Task, Executes
    <3>2. Task.entry \in Entries
      BY <2>1, <3>1, TaskFields
    <3>3. In(pending, u) \/ u = Task.entry
      BY <1>1, <2>2, <3>1, <3>2, InsertFacts
    <3> QED
      BY <2>2, <2>3, <3>1, <3>3
  <2>5. CASE ArchiveUpdate
    <3>1. Task.op = "update" /\ pending' = Replace(pending, Task.entry.iid, Task.entry)
      BY <2>5 DEF ArchiveUpdate, UpdateMessageIfExist, Run, Task
    <3>2. Task.entry \in Entries /\ Task.entry.iid \in Message
      BY <2>1, <3>1, TaskFields DEF Entries
    <3> QED
      BY <1>1, <3>1, <3>2, ReplaceFacts
  <2>6. CASE ArchiveDelete
    <3>1. Task.op = "delete" /\ pending' = MarkDeleted(pending, Task.iid)
      BY <2>6 DEF ArchiveDelete, Run, Task
    <3>2. Task.iid \in Message
      BY <2>1, <3>1, TaskFields
    <3> QED
      BY <1>1, <3>1, <3>2, MarkFacts
  <2>7. CASE ArchiveFetch \/ ArchiveStore
    BY <2>7 DEF ArchiveFetch, ArchiveStore, storeVars
  <2>8. CASE ArchiveStamp
    <3>1. Task.op = "stamp" /\ pending' = UpdateMessagePostTime(pending, Task.iid)
      BY <2>8 DEF ArchiveStamp, Run, Task
    <3>2. Task.iid \in Message
      BY <2>1, <3>1, TaskFields
    <3> QED
      BY <1>1, <3>1, <3>2, PostTimeFacts
  <2>9. CASE ArchiveRemove
    <3> DEFINE n == Task.iid
               kept == KeptHere(pending, n, Task.remove_if_modified)
               e == Turned(pending, n, last_request + 1)
    <3>1. Task.op = "remove" /\ RemoveOutcome /\ UNCHANGED accepted
      BY <2>9 DEF ArchiveRemove, Run, Task
    <3>2. n \in Message /\ Task.remove_if_modified \in BOOLEAN
      BY <2>1, <3>1, TaskFields
    <3>3. /\ kept => (\A w : In(pending', w) <=> (In(pending, w) /\ w.iid # n) \/ w = e) /\ e.iid = n
          /\ ~kept => \A w : In(pending', w) <=> In(pending, w) /\ w.iid # n
      BY <3>1, <3>2, RemoveOutcomeFacts DEF TypeInv
    <3>4. kept => Exists(pending, n)
      BY DEF KeptHere
    <3> HIDE DEF e, kept
    <3> QED
      BY <2>2, <2>3, <3>3, <3>4
  <2>10. CASE ArchiveImstate
    <3>1. Task.op = "imstate" /\ pending' = UpdateWithImstate(pending, Task.iid)
      BY <2>10 DEF ArchiveImstate, Run, Task
    <3>2. Task.iid \in Message
      BY <2>1, <3>1, TaskFields
    <3> QED
      BY <1>1, <2>2, <2>3, <3>1, <3>2, ImstateFacts
  <2> QED
    BY <1>3, <2>4, <2>5, <2>6, <2>7, <2>8, <2>9, <2>10 DEF ArchiveStep
<1>4. ASSUME SecondPasses \/ TimerFires PROVE Exists(pending, m)
  BY <1>1, <1>4, AgedListFacts DEF SecondPasses, TimerFires
<1>5. ASSUME NEW torn \in BOOLEAN, Crash(torn) PROVE Exists(pending, m)
  <2>1. CASE torn
    BY <1>5, <2>1 DEF Crash, Exists
  <2>2. CASE ~torn
    BY <1>1, <1>5, <2>2, AgedListFacts DEF Crash
  <2> QED
    BY <2>1, <2>2
<1>6. ASSUME NEW n \in Message,
             SendMessageToContact(n) \/ UpdateMessageToContact(n) \/ DeleteArchiveMessage(n)
               \/ OnDlgState(n) \/ OnEventImstate(n)
      PROVE  UNCHANGED pending
  BY <1>6 DEF SendMessageToContact, UpdateMessageToContact, DeleteArchiveMessage, OnDlgState,
     OnEventImstate, Unstored, storeVars
<1>7. ASSUME NEW c \in Chain, ChainStep(c) \/ PacketDropped(c) \/ ServerHandles(c)
      PROVE  UNCHANGED pending
  BY <1>7 DEF ChainStep, PacketDropped, ServerHandles, FetchedNothing, FetchedRecent,
     FetchedReady, SendPendingMessageAsync, AnsweredHistId, AnsweredNoHistId, AnsweredRefused,
     AnsweredError, Stored, Removed, Unstored, storeVars
<1>8. CASE Tick \/ ResumeFailedNetworkRequests \/ UNCHANGED vars
  BY <1>2, <1>8 DEF Tick, ResumeFailedNetworkRequests, Unstored, storeVars, vars
<1> QED
  BY <1>2, <1>3, <1>4, <1>5, <1>6, <1>7, <1>8 DEF Next

LEMMA InsertedAppend ==
  ASSUME NEW q \in Seq(Tasks), NEW t \in Tasks, NEW p, NEW ty, InsertedOnce(q, p, ty),
         t.op = "insert" => /\ ty[t.entry.iid] # 0 /\ ~Exists(p, t.entry.iid)
                            /\ Inserts(q, t.entry.iid) = {}
  PROVE  InsertedOnce(Append(q, t), p, ty)
<1> DEFINE r == Append(q, t)
<1>1. Appended(q, t, r)
  BY AppendPlaces
<1> HIDE DEF r
<1>2. PICK k \in DOMAIN r \ DOMAIN q : r[k] = t /\ \A i \in DOMAIN r : i \in DOMAIN q \/ i = k
  BY <1>1 DEF Appended
<1>3. \A i \in DOMAIN q : r[i] = q[i]
  BY <1>1 DEF Appended
<1>4. \A m : Inserts(r, m) \subseteq Inserts(q, m) \cup {k}
  BY <1>2, <1>3 DEF Inserts
<1>5. \A m : k \in Inserts(r, m) => t.op = "insert" /\ t.entry.iid = m
  BY <1>2 DEF Inserts
<1>6. \A m \in Message : Inserts(r, m) # {} => ty[m] # 0 /\ ~Exists(p, m)
  BY <1>4, <1>5 DEF InsertedOnce
<1>7. \A m \in Message : \A i, j \in Inserts(r, m) : i = j
  BY <1>4, <1>5 DEF InsertedOnce
<1> QED
  BY <1>6, <1>7 DEF InsertedOnce, r

\* The queue is shorter by its first task, and that task is done.
LEMMA InsertedTail ==
  ASSUME NEW q \in Seq(Tasks), q # <<>>, NEW p, NEW p2, NEW ty, InsertedOnce(q, p, ty),
         \A m \in Message : Exists(p2, m) =>
            Exists(p, m) \/ (Head(q).op = "insert" /\ Head(q).entry.iid = m)
  PROVE  InsertedOnce(Tail(q), p2, ty)
<1> DEFINE r == Tail(q)
<1>1. TailOf(q, r)
  BY TailPlaces
<1> HIDE DEF r
<1>2. \A m : \A i \in Inserts(r, m) : i \in Nat /\ i + 1 \in Inserts(q, m) /\ i + 1 # 1
  BY <1>1 DEF TailOf, Inserts
<1>3. \A m : Head(q).op = "insert" /\ Head(q).entry.iid = m => 1 \in Inserts(q, m)
  BY <1>1 DEF TailOf, Inserts
<1>4. ASSUME NEW m \in Message, NEW i \in Inserts(r, m) PROVE ty[m] # 0 /\ ~Exists(p2, m)
  <2>1. i + 1 \in Inserts(q, m) /\ i + 1 # 1
    BY <1>2, <1>4
  <2>2. ty[m] # 0 /\ ~Exists(p, m) /\ 1 \notin Inserts(q, m)
    BY <2>1 DEF InsertedOnce
  <2> QED
    BY <1>3, <2>2
<1>5. ASSUME NEW m \in Message, NEW i \in Inserts(r, m), NEW j \in Inserts(r, m) PROVE i = j
  <2>1. i \in Nat /\ j \in Nat /\ i + 1 \in Inserts(q, m) /\ j + 1 \in Inserts(q, m)
    BY <1>2, <1>5
  <2>2. i + 1 = j + 1
    BY <2>1 DEF InsertedOnce
  <2> QED
    BY <2>1, <2>2
<1> QED
  BY <1>4, <1>5 DEF InsertedOnce, r

LEMMA InsertedLess ==
  ASSUME NEW q, NEW p, NEW p2, NEW ty, NEW ty2, InsertedOnce(q, p, ty),
         \A m \in Message : Exists(p2, m) => Exists(p, m),
         \A m \in Message : ty[m] # 0 => ty2[m] # 0
  PROVE  InsertedOnce(q, p2, ty2)
BY DEF InsertedOnce

LEMMA TailIsOther ==
  ASSUME NEW S, NEW q \in Seq(S), NEW e \in S, NEW f \in S, q # <<>>
  PROVE  Tail(q) # q /\ Tail(q) # Append(q, e) /\ Tail(q) # Append(Append(q, e), f)
<1> DEFINE a == Tail(q)
           b == Append(q, e)
           c == Append(b, f)
<1>1. Len(q) \in Nat /\ Len(a) = Len(q) - 1
  OBVIOUS
<1>2. b \in Seq(S) /\ Len(b) = Len(q) + 1
  OBVIOUS
<1> HIDE DEF b
<1>3. Len(c) = Len(b) + 1
  BY <1>2
<1> HIDE DEF a, c
<1>4. a # q /\ a # b /\ a # c
  BY <1>1, <1>2, <1>3
<1> QED
  BY <1>4 DEF a, b, c

LEMMA NextFresh ==
  ASSUME TypeInv, FreshInv, [Next]_vars
  PROVE  FreshInv'
<1>1. TypeInv' /\ TasksGrow /\ archive_tasks \in Seq(Tasks)
  BY NextType, NextGrow DEF TypeInv, Links
<1>2. \A m \in Message : typed[m] # 0 => typed'[m] # 0
  BY TypedStays
<1>3. \A m \in Message : Exists(pending', m) =>
         Exists(pending, m) \/ (Executes("insert") /\ Task.entry.iid = m)
  BY NextExists
<1>4. ASSUME NEW m \in Message, Exists(pending', m) PROVE typed'[m] # 0
  <2>1. CASE Exists(pending, m)
    BY <1>2, <2>1 DEF FreshInv
  <2>2. CASE Executes("insert") /\ Task.entry.iid = m
    <3>1. 1 \in DOMAIN archive_tasks /\ archive_tasks[1] = Task
      BY <1>1, <2>2 DEF Executes, Task
    <3>2. 1 \in Inserts(archive_tasks, m)
      BY <2>2, <3>1 DEF Inserts, Executes
    <3> QED
      BY <1>2, <3>2 DEF FreshInv, InsertedOnce
  <2> QED
    BY <1>3, <1>4, <2>1, <2>2
<1>5. InsertedOnce(archive_tasks, pending, typed')
  BY <1>2, InsertedLess DEF FreshInv
<1>6. CASE archive_tasks' = <<>>
  <2>1. \A m : Inserts(<<>>, m) = {}
    BY DEF Inserts
  <2> QED
    BY <1>4, <1>6, <2>1 DEF FreshInv, InsertedOnce
<1>7. CASE archive_tasks # <<>> /\ archive_tasks' = Tail(archive_tasks)
  <2>1. \A m \in Message : Exists(pending', m) =>
           Exists(pending, m) \/ (Head(archive_tasks).op = "insert" /\ Head(archive_tasks).entry.iid = m)
    BY <1>3 DEF Executes, Task
  <2>2. InsertedOnce(Tail(archive_tasks), pending', typed')
    BY <1>1, <1>5, <1>7, <2>1, InsertedTail
  <2> QED
    BY <1>4, <1>7, <2>2 DEF FreshInv
<1>8. ASSUME archive_tasks' = archive_tasks PROVE FreshInv'
  <2>1. ~Executes("insert")
    <3>1. ASSUME archive_tasks # <<>> PROVE Tail(archive_tasks) # archive_tasks
      <4>1. Head(archive_tasks) \in Tasks
        BY <1>1, <3>1
      <4> QED
        BY <1>1, <3>1, <4>1, TailIsOther
    <3> QED
      BY <1>8, <3>1 DEF Executes
  <2>2. InsertedOnce(archive_tasks, pending', typed')
    BY <1>3, <1>5, <2>1, InsertedLess
  <2> QED
    BY <1>4, <1>8, <2>2 DEF FreshInv
<1>9. ASSUME NEW t, NewTask(t), NEW c \in Chain,
             \/ archive_tasks' = Append(archive_tasks, t)
             \/ archive_tasks' = Append(Append(archive_tasks, t), FetchTask(c))
      PROVE  FreshInv'
  <2> DEFINE q == Append(archive_tasks, t)
             f == FetchTask(c)
  <2>1. t \in Tasks /\ f \in Tasks /\ f.op # "insert"
    BY <1>9, FetchIsNew DEF NewTask
  <2>2. ~Executes("insert")
    <3>1. ASSUME archive_tasks # <<>>
          PROVE  Tail(archive_tasks) # q /\ Tail(archive_tasks) # Append(q, f)
      BY <1>1, <2>1, <3>1, TailIsOther
    <3> QED
      BY <1>9, <3>1 DEF Executes
  <2>3. \A m \in Message : Exists(pending', m) => Exists(pending, m)
    BY <1>3, <2>2
  <2>4. InsertedOnce(archive_tasks, pending', typed')
    BY <1>5, <2>3, InsertedLess
  <2>5. t.op = "insert" => /\ typed'[t.entry.iid] # 0 /\ ~Exists(pending', t.entry.iid)
                           /\ Inserts(archive_tasks, t.entry.iid) = {}
    <3>1. SUFFICES ASSUME t.op = "insert"
                   PROVE  /\ typed'[t.entry.iid] # 0 /\ ~Exists(pending', t.entry.iid)
                          /\ Inserts(archive_tasks, t.entry.iid) = {}
      OBVIOUS
    <3>2. typed[t.entry.iid] = 0 /\ typed'[t.entry.iid] # 0
      BY <1>9, <3>1 DEF NewTask, UserTask
    <3>3. t.entry.iid \in Message
      BY <2>1, <3>1, TaskFields DEF Entries
    <3> QED
      BY <2>3, <3>2, <3>3 DEF FreshInv, InsertedOnce
  <2>6. InsertedOnce(q, pending', typed')
    BY <1>1, <2>1, <2>4, <2>5, InsertedAppend
  <2>7. q \in Seq(Tasks)
    BY <1>1, <2>1
  <2> HIDE DEF q, f
  <2>8. InsertedOnce(Append(q, f), pending', typed')
    BY <2>1, <2>6, <2>7, InsertedAppend
  <2>9. archive_tasks' = q \/ archive_tasks' = Append(q, f)
    BY <1>9 DEF q, f
  <2> QED
    BY <1>4, <2>6, <2>8, <2>9 DEF FreshInv
<1>10. 1 \in Chain
  BY OutboxAssumption DEF Chain
<1> QED
  BY <1>1, <1>6, <1>7, <1>8, <1>9, <1>10 DEF TasksGrow

LEMMA MarkedStays ==
  ASSUME TypeInv, SentInv, FreshInv, [Next]_vars, NEW m \in Message, Marked(m), ~Marked(m)'
  PROVE  m \in pending_deletes' \/ m \in refused' \/ (Executes("update") /\ Task.entry.iid = m) \/ Torn
<1>1. pending \in Pendings /\ TypeInv'
  BY NextType DEF TypeInv, StoreOK
<1> DEFINE v == EntryOf(pending, m)
<1>2. In(pending, v) /\ v.iid = m /\ v.deleted
  BY <1>1, PendingFacts DEF Marked
<1>3. Fate(v)
  BY <1>2, NextFate
<1> HIDE DEF v
<1>4. ~Remains(v)
  <2>1. SUFFICES ASSUME Remains(v) PROVE FALSE
    OBVIOUS
  <2>2. PICK u : In(pending', u) /\ u.iid = m /\ u.deleted
    BY <1>2, <2>1 DEF Remains
  <2>3. pending' \in Pendings
    BY <1>1 DEF TypeInv, StoreOK
  <2>4. Exists(pending', m) /\ EntryOf(pending', m) = u
    BY <2>2, <2>3, PendingFacts
  <2> QED
    BY <2>2, <2>4 DEF Marked
<1>5. CASE Overwritten(v, "insert")
  <2>1. /\ archive_tasks # <<>> /\ Task.op = "insert" /\ Task.entry.iid = m
        /\ archive_tasks \in Seq(Tasks)
    BY <1>2, <1>5 DEF Overwritten, Executes, TypeInv, Links
  <2>2. 1 \in DOMAIN archive_tasks /\ archive_tasks[1] = Task
    BY <2>1 DEF Task
  <2>3. 1 \in Inserts(archive_tasks, m)
    BY <2>1, <2>2 DEF Inserts
  <2> QED
    BY <2>3 DEF FreshInv, InsertedOnce, Marked
<1>6. CASE Overwritten(v, "update")
  BY <1>2, <1>6 DEF Overwritten
<1>7. CASE TakenAway(v)
  <2>1. archive_tasks # <<>> /\ In(archive_tasks, Task) /\ Task.iid = m
    BY <1>2, <1>7, InTail DEF TakenAway, Executes, Task, TypeInv, Links
  <2>2. Task.op = "remove" /\ ~Task.remove_if_modified => Task.ver = 0
    BY <2>1 DEF SentInv, KnownInv
  <2> QED
    BY <1>2, <1>7, <2>2 DEF TakenAway, Executes
<1> QED
  BY <1>3, <1>4, <1>5, <1>6, <1>7 DEF Fate

\* A delete that was noted on a pending message is not forgotten: the entry leaves
\* the list for pending_delete_messages_, unless the message is refused, an edit or
\* the copy of a sent message is put over it, or a crash inside save() loses the list.
THEOREM DeleteIsNotForgotten == Spec => DeleteIsKept
<1> DEFINE I == TypeInv /\ SentInv /\ FreshInv
<1>1. Init => I
  <2>1. Init => FreshInv
    BY DEF Init, FreshInv, InsertedOnce, Inserts, Exists
  <2> QED
    BY <2>1, TypeInit, InitSent
<1>2. I /\ [Next]_vars => I'
  BY NextType, NextSent, NextFresh
<1>3. I /\ [Next]_vars =>
        [\A m \in Message : Marked(m) /\ ~Marked(m)'
           => m \in pending_deletes' \/ m \in refused' \/ (Executes("update") /\ Task.entry.iid = m)
              \/ Torn]_vars
  BY MarkedStays
<1> HIDE DEF I
<1> QED
  BY <1>1, <1>2, <1>3, PTL DEF Spec, DeleteIsKept

(***************************************************************************)
(* Edits.  The versions of a message are stored in the order they were     *)
(* typed; what is pending, held by a chain or on its way back as a copy is *)
(* of a version between the one the server has and the last one stored;    *)
(* and a copy comes back before the next fetch, when no chain holds        *)
(* anything.  The last point needs that there is one chain.                *)
(***************************************************************************)
InOrder(q, acc, ty) ==
  /\ \A i \in DOMAIN q : LET t == q[i]
                         IN  UserTask(t) => acc[t.entry.iid] < t.entry.ver /\ t.entry.ver <= ty[t.entry.iid]
  /\ \A i, j \in DOMAIN q :
       i < j /\ UserTask(q[i]) /\ UserTask(q[j]) /\ q[i].entry.iid = q[j].entry.iid
         => q[i].entry.ver < q[j].entry.ver

CopiesAreFetched(q) ==
  \A i \in DOMAIN q : Copy(q[i]) => \E j \in DOMAIN q : i < j /\ q[j].op = "fetch"

OrderInv ==
  /\ \A m \in Message : accepted[m] <= typed[m]
  /\ InOrder(archive_tasks, accepted, typed)
  /\ CopiesAreFetched(archive_tasks)

Between(e) == server[e.iid].ver <= e.ver /\ e.ver <= accepted[e.iid] /\ Plain(e)

VersionsInv ==
  /\ \A m \in Message : server[m].ver <= accepted[m]
  /\ \A u : In(pending, u) => Between(u)
  /\ \A c \in Chain : chain[c].entry \in Entries =>
       /\ Between(chain[c].entry)
       /\ \A u : In(pending, u) /\ u.iid = chain[c].entry.iid => chain[c].entry.ver <= u.ver
  /\ \A t : In(archive_tasks, t) => (Copy(t) => Between(t.entry)) /\ (UserTask(t) => Plain(t.entry))

LEMMA UserFields ==
  ASSUME NEW t \in Tasks
  PROVE  UserTask(t) \/ Copy(t) =>
           /\ t.entry \in Entries /\ t.entry.iid \in Message /\ t.entry.ver \in Nat /\ t.entry.ver > 0
           /\ t.op \in {"insert", "update"} /\ ~(UserTask(t) /\ Copy(t))
BY TaskFields, OutboxAssumption DEF UserTask, Copy, Entries, Version

LEMMA OrderAppend ==
  ASSUME NEW q \in Seq(Tasks), NEW t \in Tasks, NEW acc, NEW ty \in [Message -> Nat],
         NEW ty2 \in [Message -> Nat], InOrder(q, acc, ty), \A m \in Message : ty[m] <= ty2[m],
         UserTask(t) => /\ acc[t.entry.iid] < t.entry.ver /\ ty[t.entry.iid] < t.entry.ver
                        /\ t.entry.ver <= ty2[t.entry.iid]
  PROVE  InOrder(Append(q, t), acc, ty2)
<1> DEFINE r == Append(q, t)
           n == Len(q) + 1
<1>1. /\ DOMAIN q = 1..Len(q) /\ DOMAIN r = 1..n /\ Len(q) \in Nat /\ r[n] = t
      /\ \A i \in 1..Len(q) : r[i] = q[i] /\ q[i] \in Tasks
  OBVIOUS
<1> HIDE DEF r
<1>2. ASSUME NEW i \in DOMAIN q, UserTask(q[i])
      PROVE  /\ acc[q[i].entry.iid] < q[i].entry.ver /\ q[i].entry.ver <= ty2[q[i].entry.iid]
             /\ q[i].entry.ver <= ty[q[i].entry.iid] /\ q[i].entry.ver \in Nat
             /\ q[i].entry.iid \in Message
  <2>1. q[i].entry.iid \in Message /\ q[i].entry.ver \in Nat
    BY <1>1, <1>2, UserFields
  <2>2. acc[q[i].entry.iid] < q[i].entry.ver /\ q[i].entry.ver <= ty[q[i].entry.iid]
    BY <1>2 DEF InOrder
  <2>3. ty[q[i].entry.iid] <= ty2[q[i].entry.iid] /\ ty[q[i].entry.iid] \in Nat /\ ty2[q[i].entry.iid] \in Nat
    BY <2>1
  <2> QED
    BY <2>1, <2>2, <2>3
<1>3. UserTask(t) => t.entry.ver \in Nat /\ t.entry.iid \in Message
  BY UserFields
<1>4. ASSUME NEW i \in DOMAIN r, UserTask(r[i])
      PROVE  acc[r[i].entry.iid] < r[i].entry.ver /\ r[i].entry.ver <= ty2[r[i].entry.iid]
  <2>1. CASE i = n
    BY <1>1, <1>4, <2>1
  <2>2. CASE i \in DOMAIN q
    BY <1>1, <1>2, <1>4, <2>2
  <2> QED
    BY <1>1, <2>1, <2>2
<1>5. ASSUME NEW i \in DOMAIN r, NEW j \in DOMAIN r, i < j, UserTask(r[i]), UserTask(r[j]),
             r[i].entry.iid = r[j].entry.iid
      PROVE  r[i].entry.ver < r[j].entry.ver
  <2>1. i \in DOMAIN q
    BY <1>1, <1>5
  <2>2. CASE j \in DOMAIN q
    BY <1>1, <1>5, <2>1, <2>2 DEF InOrder
  <2>3. CASE j = n
    <3>1. q[i].entry.ver <= ty[t.entry.iid] /\ q[i].entry.ver \in Nat
      BY <1>1, <1>2, <1>5, <2>1, <2>3
    <3>2. ty[t.entry.iid] < t.entry.ver /\ t.entry.ver \in Nat /\ ty[t.entry.iid] \in Nat
      BY <1>1, <1>3, <1>5, <2>3
    <3> QED
      BY <1>1, <2>1, <2>3, <3>1, <3>2
  <2> QED
    BY <1>1, <2>2, <2>3
<1> QED
  BY <1>4, <1>5 DEF InOrder, r

\* The first task is done: what was stored is at most its version.
LEMMA OrderTail ==
  ASSUME NEW q \in Seq(Tasks), q # <<>>, NEW acc, NEW acc2, NEW ty, InOrder(q, acc, ty),
         \A m \in Message : \/ acc2[m] = acc[m]
                            \/ UserTask(Head(q)) /\ Head(q).entry.iid = m /\ acc2[m] = Head(q).entry.ver
  PROVE  InOrder(Tail(q), acc2, ty)
<1> DEFINE r == Tail(q)
<1>1. /\ DOMAIN r = 1..(Len(q) - 1) /\ DOMAIN q = 1..Len(q) /\ Len(q) \in Nat /\ Head(q) = q[1]
      /\ 1 \in DOMAIN q /\ \A i \in DOMAIN r : i + 1 \in DOMAIN q /\ r[i] = q[i + 1] /\ 1 < i + 1
      /\ \A i \in DOMAIN q : q[i] \in Tasks
  OBVIOUS
<1> HIDE DEF r
<1>2. ASSUME NEW i \in DOMAIN r, UserTask(r[i])
      PROVE  acc2[r[i].entry.iid] < r[i].entry.ver /\ r[i].entry.ver <= ty[r[i].entry.iid]
  <2>1. i + 1 \in DOMAIN q /\ r[i] = q[i + 1] /\ 1 < i + 1 /\ r[i].entry.iid \in Message
    BY <1>1, <1>2, UserFields
  <2>2. acc[r[i].entry.iid] < r[i].entry.ver /\ r[i].entry.ver <= ty[r[i].entry.iid]
    BY <1>2, <2>1 DEF InOrder
  <2>3. UserTask(q[1]) /\ q[1].entry.iid = r[i].entry.iid => q[1].entry.ver < r[i].entry.ver
    BY <1>1, <1>2, <2>1 DEF InOrder
  <2> QED
    BY <1>1, <2>1, <2>2, <2>3
<1>3. ASSUME NEW i \in DOMAIN r, NEW j \in DOMAIN r, i < j, UserTask(r[i]), UserTask(r[j]),
             r[i].entry.iid = r[j].entry.iid
      PROVE  r[i].entry.ver < r[j].entry.ver
  <2>1. i + 1 \in DOMAIN q /\ j + 1 \in DOMAIN q /\ i + 1 < j + 1 /\ r[i] = q[i + 1] /\ r[j] = q[j + 1]
    BY <1>1, <1>3
  <2> QED
    BY <1>3, <2>1 DEF InOrder
<1> QED
  BY <1>2, <1>3 DEF InOrder, r

LEMMA CopiesAppend ==
  ASSUME NEW q \in Seq(Tasks), NEW t \in Tasks, CopiesAreFetched(q)
  PROVE  /\ ~Copy(t) => CopiesAreFetched(Append(q, t))
         /\ \A f \in Tasks : f.op = "fetch" => CopiesAreFetched(Append(Append(q, t), f))
<1> DEFINE r == Append(q, t)
           n == Len(q) + 1
<1>1. /\ DOMAIN q = 1..Len(q) /\ DOMAIN r = 1..n /\ Len(q) \in Nat /\ r[n] = t /\ Len(r) = n
      /\ r \in Seq(Tasks) /\ \A i \in 1..Len(q) : r[i] = q[i]
  OBVIOUS
<1> HIDE DEF r
<1>2. ASSUME NEW i \in DOMAIN q, Copy(q[i]) PROVE \E j \in DOMAIN r : i < j /\ r[j].op = "fetch"
  <2>1. PICK j \in DOMAIN q : i < j /\ q[j].op = "fetch"
    BY <1>2 DEF CopiesAreFetched
  <2>2. j \in DOMAIN r /\ r[j] = q[j]
    BY <1>1
  <2> QED
    BY <2>1, <2>2
<1>3. ASSUME ~Copy(t) PROVE CopiesAreFetched(r)
  BY <1>1, <1>2, <1>3 DEF CopiesAreFetched
<1>4. ASSUME NEW f \in Tasks, f.op = "fetch" PROVE CopiesAreFetched(Append(r, f))
  <2> DEFINE s == Append(r, f)
  <2>1. DOMAIN s = 1..(n + 1) /\ s[n + 1] = f /\ \A i \in 1..n : s[i] = r[i]
    BY <1>1
  <2> HIDE DEF s
  <2>2. ASSUME NEW i \in DOMAIN s, Copy(s[i]) PROVE \E j \in DOMAIN s : i < j /\ s[j].op = "fetch"
    <3>1. i # n + 1
      BY <1>4, <2>1, <2>2 DEF Copy
    <3>2. n + 1 \in DOMAIN s /\ i < n + 1
      BY <1>1, <2>1, <3>1
    <3> QED
      BY <1>4, <2>1, <3>2
  <2> QED
    BY <2>2 DEF CopiesAreFetched, s
<1> QED
  BY <1>3, <1>4 DEF r

LEMMA CopiesTail ==
  ASSUME NEW q \in Seq(Tasks), q # <<>>, CopiesAreFetched(q)
  PROVE  CopiesAreFetched(Tail(q))
<1> DEFINE r == Tail(q)
<1>1. /\ DOMAIN r = 1..(Len(q) - 1) /\ DOMAIN q = 1..Len(q) /\ Len(q) \in Nat
      /\ \A i \in DOMAIN r : i + 1 \in DOMAIN q /\ r[i] = q[i + 1]
      /\ \A i \in DOMAIN q : i # 1 => i - 1 \in DOMAIN r /\ r[i - 1] = q[i]
  OBVIOUS
<1> HIDE DEF r
<1>2. ASSUME NEW i \in DOMAIN r, Copy(r[i]) PROVE \E j \in DOMAIN r : i < j /\ r[j].op = "fetch"
  <2>1. i + 1 \in DOMAIN q /\ r[i] = q[i + 1] /\ i \in Nat /\ i > 0
    BY <1>1
  <2>2. PICK j \in DOMAIN q : i + 1 < j /\ q[j].op = "fetch"
    BY <1>2, <2>1 DEF CopiesAreFetched
  <2>3. j - 1 \in DOMAIN r /\ r[j - 1] = q[j] /\ i < j - 1
    BY <1>1, <2>1, <2>2
  <2> QED
    BY <2>2, <2>3
<1> QED
  BY <1>2 DEF CopiesAreFetched, r

\* The last version stored of a message changes when a task of the user is executed
\* for it, and what is pending then is of that version.
AcceptedMoves ==
  \A m \in Message :
    \/ accepted'[m] = accepted[m]
    \/ \E t : /\ Executed(t) /\ UserTask(t) /\ t.entry.iid = m
              /\ accepted'[m] = t.entry.ver /\ In(pending', t.entry)

LEMMA NextAccepted ==
  ASSUME TypeInv, [Next]_vars
  PROVE  AcceptedMoves
<1>1. pending \in Pendings /\ archive_tasks \in Seq(Tasks) /\ accepted \in [Message -> 0..MaxVersion]
  BY DEF TypeInv, StoreOK, Links
<1>2. UNCHANGED accepted => AcceptedMoves
  BY DEF AcceptedMoves
<1>3. ASSUME ArchiveInsert \/ ArchiveUpdate PROVE AcceptedMoves
  <2>0. archive_tasks # <<>> /\ archive_tasks' = Tail(archive_tasks)
    BY <1>3 DEF ArchiveInsert, ArchiveUpdate, Run
  <2>1. Task \in Tasks /\ Executed(Task)
    BY <1>1, <2>0, TaskFacts, InTail DEF Task, Executed
  <2>2. Task.op \in {"insert", "update"}
    BY <1>3 DEF ArchiveInsert, ArchiveUpdate, Run, Task
  <2>3. Task.entry \in Entries /\ Task.entry.iid \in Message
    BY <2>1, <2>2, TaskFields DEF Entries
  <2>4. CASE ArchiveInsert
    <3>1. Task.op = "insert" /\ pending' = InsertMessage(pending, Task.entry)
          /\ accepted' = [accepted EXCEPT ![Task.entry.iid] = Task.entry.ver]
      BY <2>4 DEF ArchiveInsert, Run, Task
    <3>2. In(pending', Task.entry)
      BY <1>1, <2>3, <3>1, InsertFacts
    <3> QED
      BY <1>1, <2>1, <2>3, <3>1, <3>2 DEF AcceptedMoves, UserTask
  <2>5. CASE ArchiveUpdate
    <3>1. Task.op = "update" /\ pending' = Replace(pending, Task.entry.iid, Task.entry)
          /\ accepted' = IF Task.edit /\ Exists(pending, Task.entry.iid)
                         THEN [accepted EXCEPT ![Task.entry.iid] = Task.entry.ver] ELSE accepted
      BY <2>5 DEF ArchiveUpdate, UpdateMessageIfExist, Run, Task
    <3>2. CASE Task.edit /\ Exists(pending, Task.entry.iid)
      <4>1. In(pending', Task.entry)
        BY <1>1, <2>3, <3>1, <3>2, ReplaceFacts
      <4> QED
        BY <1>1, <2>1, <2>3, <3>1, <3>2, <4>1 DEF AcceptedMoves, UserTask
    <3> QED
      BY <1>2, <3>1, <3>2
  <2> QED
    BY <1>3, <2>4, <2>5
<1>4. ASSUME ArchiveStep, ~ArchiveInsert, ~ArchiveUpdate PROVE UNCHANGED accepted
  BY <1>4 DEF ArchiveStep, ArchiveDelete, ArchiveFetch, ArchiveStamp, ArchiveStore, ArchiveRemove,
     ArchiveImstate, storeVars
<1>5. ASSUME NEW m \in Message,
             SendMessageToContact(m) \/ UpdateMessageToContact(m) \/ DeleteArchiveMessage(m)
               \/ OnDlgState(m) \/ OnEventImstate(m)
      PROVE  UNCHANGED accepted
  BY <1>5 DEF SendMessageToContact, UpdateMessageToContact, DeleteArchiveMessage, OnDlgState,
     OnEventImstate, Unstored, storeVars
<1>6. ASSUME NEW c \in Chain, ChainStep(c) \/ PacketDropped(c) \/ ServerHandles(c)
      PROVE  UNCHANGED accepted
  BY <1>6 DEF ChainStep, PacketDropped, ServerHandles, FetchedNothing, FetchedRecent,
     FetchedReady, SendPendingMessageAsync, AnsweredHistId, AnsweredNoHistId, AnsweredRefused,
     AnsweredError, Stored, Removed, Unstored, storeVars
<1>7. ASSUME SecondPasses \/ TimerFires \/ Tick \/ ResumeFailedNetworkRequests
             \/ (\E torn \in BOOLEAN : Crash(torn)) \/ UNCHANGED vars
      PROVE  UNCHANGED accepted
  BY <1>7 DEF SecondPasses, TimerFires, Tick, ResumeFailedNetworkRequests, Crash, Unstored,
     storeVars, vars
<1> QED
  BY <1>2, <1>3, <1>4, <1>5, <1>6, <1>7 DEF Next

LEMMA NextOrder ==
  ASSUME TypeInv, OrderInv, [Next]_vars
  PROVE  OrderInv'
<1> DEFINE q == archive_tasks
<1>1. /\ TypeInv' /\ TasksGrow /\ AcceptedMoves /\ q \in Seq(Tasks)
      /\ typed \in [Message -> Nat] /\ typed' \in [Message -> Nat]
      /\ accepted \in [Message -> Nat] /\ accepted' \in [Message -> Nat]
  <2>1. TypeInv'
    BY NextType
  <2>2. TasksGrow /\ AcceptedMoves
    BY NextGrow, NextAccepted
  <2>3. q \in Seq(Tasks)
    BY DEF TypeInv, Links
  <2>4. 0..MaxVersion \subseteq Nat
    BY OutboxAssumption
  <2>5. typed \in [Message -> Nat] /\ accepted \in [Message -> Nat]
    BY <2>4 DEF TypeInv, UserOK, StoreOK
  <2>6. typed' \in [Message -> Nat] /\ accepted' \in [Message -> Nat]
    BY <2>1, <2>4 DEF TypeInv, UserOK, StoreOK
  <2> QED
    BY <2>1, <2>2, <2>3, <2>5, <2>6
<1>2. \A m \in Message : typed[m] <= typed'[m]
  BY TypedStays
<1>3. \A t : Executed(t) /\ UserTask(t) =>
         /\ t.entry.iid \in Message /\ t.entry.ver \in Nat
         /\ accepted[t.entry.iid] < t.entry.ver /\ t.entry.ver <= typed[t.entry.iid]
  <2>1. SUFFICES ASSUME NEW t, Executed(t), UserTask(t)
                 PROVE  /\ t.entry.iid \in Message /\ t.entry.ver \in Nat
                        /\ accepted[t.entry.iid] < t.entry.ver /\ t.entry.ver <= typed[t.entry.iid]
    OBVIOUS
  <2>2. PICK i \in DOMAIN q : q[i] = t
    BY <2>1 DEF Executed, In
  <2>3. t \in Tasks
    BY <1>1, <2>2
  <2> QED
    BY <2>1, <2>2, <2>3, UserFields DEF OrderInv, InOrder
<1>4. \A m \in Message : accepted'[m] <= typed'[m]
  <2>1. SUFFICES ASSUME NEW m \in Message PROVE accepted'[m] <= typed'[m]
    OBVIOUS
  <2>2. CASE accepted'[m] = accepted[m]
    BY <1>1, <1>2, <2>2 DEF OrderInv
  <2>3. CASE \E t : Executed(t) /\ UserTask(t) /\ t.entry.iid = m /\ accepted'[m] = t.entry.ver
    <3>1. accepted'[m] <= typed[m]
      BY <1>3, <2>3
    <3> QED
      BY <1>1, <1>2, <3>1
  <2> QED
    BY <1>1, <2>2, <2>3 DEF AcceptedMoves
\* Whatever happens to the queue, what was typed meanwhile only adds to the bound.
<1>5. ASSUME NEW r, NEW acc, InOrder(r, acc, typed), \A i \in DOMAIN r : r[i] \in Tasks
      PROVE  InOrder(r, acc, typed')
  <2>1. \A i \in DOMAIN r : UserTask(r[i]) => r[i].entry.iid \in Message /\ r[i].entry.ver \in Nat
    BY <1>5, UserFields
  <2>2. ASSUME NEW i \in DOMAIN r, UserTask(r[i]) PROVE r[i].entry.ver <= typed'[r[i].entry.iid]
    <3>1. r[i].entry.ver <= typed[r[i].entry.iid]
      BY <1>5, <2>2 DEF InOrder
    <3> QED
      BY <1>1, <1>2, <2>1, <2>2, <3>1
  <2> QED
    BY <1>5, <2>2 DEF InOrder
<1>6. CASE q' = <<>>
  BY <1>4, <1>6 DEF OrderInv, InOrder, CopiesAreFetched
<1>7. CASE q # <<>> /\ q' = Tail(q)
  <2>1. \A m \in Message : \/ accepted'[m] = accepted[m]
                           \/ UserTask(Head(q)) /\ Head(q).entry.iid = m /\ accepted'[m] = Head(q).entry.ver
    BY <1>1 DEF AcceptedMoves, Executed, Task
  <2>2. InOrder(Tail(q), accepted', typed)
    BY <1>1, <1>7, <2>1, OrderTail DEF OrderInv
  <2>3. \A i \in DOMAIN Tail(q) : Tail(q)[i] \in Tasks
    BY <1>1, <1>7
  <2>4. InOrder(Tail(q), accepted', typed')
    BY <1>5, <2>2, <2>3
  <2>5. CopiesAreFetched(Tail(q))
    BY <1>1, <1>7, CopiesTail DEF OrderInv
  <2> QED
    BY <1>4, <1>7, <2>4, <2>5 DEF OrderInv
<1>8. ASSUME \A t : ~Executed(t) PROVE InOrder(q, accepted', typed') /\ InOrder(q, accepted', typed)
  <2>1. \A m \in Message : accepted'[m] = accepted[m]
    BY <1>1, <1>8 DEF AcceptedMoves
  <2>2. accepted' = accepted
    BY <1>1, <2>1
  <2> QED
    BY <1>1, <1>5, <2>2 DEF OrderInv
<1>9. CASE q' = q
  <2>1. \A t : ~Executed(t)
    <3>1. ASSUME q # <<>> PROVE Tail(q) # q
      <4>1. Head(q) \in Tasks
        BY <1>1, <3>1
      <4> QED
        BY <1>1, <3>1, <4>1, TailIsOther
    <3> QED
      BY <1>9, <3>1 DEF Executed
  <2> QED
    BY <1>4, <1>8, <1>9, <2>1 DEF OrderInv
<1>10. ASSUME NEW t, NewTask(t), NEW c \in Chain,
              \/ q' = Append(q, t) /\ ~Copy(t)
              \/ q' = Append(Append(q, t), FetchTask(c))
       PROVE  OrderInv'
  <2> DEFINE f == FetchTask(c)
             r == Append(q, t)
  <2>1. t \in Tasks /\ f \in Tasks /\ f.op = "fetch" /\ r \in Seq(Tasks)
    BY <1>1, <1>10, FetchIsNew DEF NewTask
  <2>2. \A u : ~Executed(u)
    <3>1. ASSUME q # <<>> PROVE Tail(q) # r /\ Tail(q) # Append(r, f)
      BY <1>1, <2>1, <3>1, TailIsOther
    <3> QED
      BY <1>10, <3>1 DEF Executed
  <2>3. InOrder(q, accepted', typed) /\ \A m \in Message : accepted'[m] = accepted[m]
    BY <1>1, <1>8, <2>2 DEF AcceptedMoves
  <2>4. UserTask(t) => /\ accepted'[t.entry.iid] < t.entry.ver /\ typed[t.entry.iid] < t.entry.ver
                       /\ t.entry.ver <= typed'[t.entry.iid]
    <3>1. SUFFICES ASSUME UserTask(t)
                   PROVE  /\ accepted'[t.entry.iid] < t.entry.ver /\ typed[t.entry.iid] < t.entry.ver
                          /\ t.entry.ver <= typed'[t.entry.iid]
      OBVIOUS
    <3>2. t.entry.iid \in Message
      BY <2>1, <3>1, UserFields
    <3>3. t.entry.ver = typed[t.entry.iid] + 1 /\ typed'[t.entry.iid] = t.entry.ver
      BY <1>10, <3>1 DEF NewTask
    <3>4. accepted'[t.entry.iid] <= typed[t.entry.iid]
      BY <2>3, <3>2 DEF OrderInv
    <3> QED
      BY <1>1, <3>2, <3>3, <3>4
  <2>5. InOrder(r, accepted', typed')
    BY <1>1, <1>2, <2>1, <2>3, <2>4, OrderAppend
  <2>6. CopiesAreFetched(Append(r, f)) /\ (~Copy(t) => CopiesAreFetched(r))
    BY <1>1, <2>1, CopiesAppend DEF OrderInv
  <2> HIDE DEF r, f
  <2>7. ~UserTask(f)
    BY <2>1 DEF UserTask
  <2>8. InOrder(Append(r, f), accepted', typed')
    <3>1. \A m \in Message : typed'[m] <= typed'[m]
      BY <1>1
    <3> QED
      BY <1>1, <2>1, <2>5, <2>7, <3>1, OrderAppend
  <2>9. (q' = r /\ ~Copy(t)) \/ q' = Append(r, f)
    BY <1>10 DEF r, f
  <2> QED
    BY <1>4, <2>5, <2>6, <2>8, <2>9 DEF OrderInv
<1>11. 1 \in Chain
  BY OutboxAssumption DEF Chain
<1> QED
  BY <1>1, <1>6, <1>7, <1>9, <1>10, <1>11 DEF TasksGrow

\* While a chain holds a message no copy of one waits for the archive thread.
LEMMA NoCopyWhileHeld ==
  ASSUME TypeInv, OneInv, OrderInv, NEW c \in Chain, chain[c].entry \in Entries,
         NEW t, In(archive_tasks, t)
  PROVE  ~Copy(t)
<1>1. SUFFICES ASSUME Copy(t) PROVE FALSE
  OBVIOUS
<1>2. PICK i \in DOMAIN archive_tasks : archive_tasks[i] = t
  BY DEF In
<1>3. PICK j \in DOMAIN archive_tasks : archive_tasks[j].op = "fetch"
  BY <1>1, <1>2 DEF OrderInv, CopiesAreFetched
<1>4. archive_tasks[j].chain \in Chain /\ chain[archive_tasks[j].chain].at = "fetch"
  BY <1>3 DEF TypeInv, Links, ChainTask
<1>5. chain[archive_tasks[j].chain].entry = NoEntry /\ chain[archive_tasks[j].chain] # Idle
  BY <1>4 DEF TypeInv, ChainOK, ShapeOf, Idle
<1>6. chain[c] # Idle
  BY EntryIsOne DEF Idle
<1>7. c = archive_tasks[j].chain
  BY <1>4, <1>5, <1>6 DEF OneInv
<1> QED
  BY <1>5, <1>7, EntryIsOne

\* The server takes the version of the chain that is on the wire, or none.
ServerTakes(m) ==
  \/ server'[m].ver = server[m].ver
  \/ \E c \in Chain : /\ chain[c].at = "wire" /\ chain[c].entry \in Entries
                      /\ chain[c].entry.iid = m /\ server'[m].ver = chain[c].entry.ver

LEMMA VersionsStep ==
  ASSUME TypeInv, OneInv, OrderInv, VersionsInv, [Next]_vars
  PROVE  /\ VersionsInv'
         /\ \A m \in Message : server[m].ver <= server'[m].ver
<1>1. PendingMoves /\ ChainsMove /\ TasksMove /\ ServerMoves /\ AcceptedMoves /\ TypeInv'
  BY NextPending, NextChains, NextTasks, NextAccepted, NextType
<1>t. /\ accepted \in [Message -> Nat] /\ accepted' \in [Message -> Nat]
      /\ \A m \in Message : server[m].ver \in Nat /\ server'[m].ver \in Nat
      /\ archive_tasks \in Seq(Tasks) /\ archive_tasks' \in Seq(Tasks)
      /\ pending \in Pendings /\ pending' \in Pendings
  BY <1>1, OutboxAssumption DEF TypeInv, StoreOK, ServerOK, Links
<1>e. \A e \in Entries : e.iid \in Message /\ e.ver \in Nat /\ e.ver > 0
  BY OutboxAssumption DEF Entries, Version
<1>u. (\A u : In(pending, u) => u \in Entries) /\ (\A u : In(pending', u) => u \in Entries)
  BY <1>t, PendingFacts
<1>x. \A t : Executed(t) /\ UserTask(t) => /\ t.entry \in Entries /\ accepted[t.entry.iid] < t.entry.ver
                                          /\ Plain(t.entry)
  <2>1. SUFFICES ASSUME NEW t, Executed(t), UserTask(t)
                 PROVE  t.entry \in Entries /\ accepted[t.entry.iid] < t.entry.ver /\ Plain(t.entry)
    OBVIOUS
  <2>2. PICK i \in DOMAIN archive_tasks : archive_tasks[i] = t
    BY <2>1 DEF Executed, In
  <2>3. t \in Tasks /\ In(archive_tasks, t)
    BY <1>t, <2>2 DEF In
  <2> QED
    BY <2>1, <2>2, <2>3, UserFields DEF OrderInv, InOrder, VersionsInv
<1>2. \A m \in Message : ServerTakes(m)
  <2>1. SUFFICES ASSUME NEW m \in Message PROVE ServerTakes(m)
    OBVIOUS
  <2>2. CASE server'[m] = server[m]
    BY <2>2 DEF ServerTakes
  <2>3. ASSUME NEW c \in Chain, chain[c].at = "wire", chain[c].packet.iid = m,
               server'[m] = Handled(chain[c].packet, server[m])
        PROVE  ServerTakes(m)
    <3>1. /\ chain[c].entry \in Entries /\ chain[c].packet.iid = chain[c].entry.iid
          /\ chain[c].packet.ver = chain[c].entry.ver
      BY <2>3 DEF TypeInv, ChainOK, ShapeOf, Sending, Packed
    <3>2. server'[m].ver = chain[c].packet.ver
      BY <2>3 DEF Handled
    <3> QED
      BY <2>3, <3>1, <3>2 DEF ServerTakes
  <2> QED
    BY <1>1, <2>2, <2>3 DEF ServerMoves
<1>3. \A m \in Message : accepted[m] <= accepted'[m]
  <2>1. SUFFICES ASSUME NEW m \in Message PROVE accepted[m] <= accepted'[m]
    OBVIOUS
  <2>2. CASE accepted'[m] = accepted[m]
    BY <1>t, <2>2
  <2>3. ASSUME NEW t, Executed(t), UserTask(t), t.entry.iid = m, accepted'[m] = t.entry.ver
        PROVE  accepted[m] <= accepted'[m]
    BY <1>t, <1>x, <2>3
  <2> QED
    BY <1>1, <2>2, <2>3 DEF AcceptedMoves
<1>4. \A m \in Message : server[m].ver <= server'[m].ver /\ server'[m].ver <= accepted[m]
  <2>1. SUFFICES ASSUME NEW m \in Message
                 PROVE  server[m].ver <= server'[m].ver /\ server'[m].ver <= accepted[m]
    OBVIOUS
  <2>2. CASE server'[m].ver = server[m].ver
    BY <1>t, <2>2 DEF VersionsInv
  <2>3. ASSUME NEW c \in Chain, chain[c].entry \in Entries, chain[c].entry.iid = m,
               server'[m].ver = chain[c].entry.ver
        PROVE  server[m].ver <= server'[m].ver /\ server'[m].ver <= accepted[m]
    BY <2>3 DEF VersionsInv, Between
  <2> QED
    BY <1>2, <2>2, <2>3 DEF ServerTakes
\* An entry of a version that was pending stays between the bounds.
<1>5. ASSUME NEW u \in Entries, NEW v, In(pending, v), u.iid = v.iid, u.ver = v.ver, Plain(u)
      PROVE  Between(u)'
  <2>1. Between(v) /\ u.iid \in Message /\ u.ver \in Nat
    BY <1>5, <1>e DEF VersionsInv
  <2>2. server'[u.iid].ver <= u.ver
    <3>1. CASE server'[u.iid].ver = server[u.iid].ver
      BY <1>5, <2>1, <3>1 DEF Between
    <3>2. ASSUME NEW c \in Chain, chain[c].entry \in Entries, chain[c].entry.iid = u.iid,
                 server'[u.iid].ver = chain[c].entry.ver
          PROVE  server'[u.iid].ver <= u.ver
      BY <1>5, <3>2 DEF VersionsInv
    <3> QED
      BY <1>2, <2>1, <3>1, <3>2 DEF ServerTakes
  <2>3. u.ver <= accepted'[u.iid]
    BY <1>3, <1>5, <1>t, <2>1 DEF Between
  <2> QED
    BY <1>5, <2>2, <2>3 DEF Between, Plain
<1>6. ASSUME NEW t, In(archive_tasks, t), Copy(t) PROVE t.entry \in Entries /\ Between(t.entry)'
  <2>1. t \in Tasks
    BY <1>6, <1>t DEF In
  <2>2. t.entry \in Entries /\ t.entry.iid \in Message /\ t.entry.ver \in Nat
    BY <1>6, <2>1, UserFields
  <2>3. Between(t.entry)
    BY <1>6 DEF VersionsInv
  <2>4. server'[t.entry.iid].ver = server[t.entry.iid].ver
    BY <1>2, <1>6, <2>2, NoCopyWhileHeld DEF ServerTakes
  <2>5. t.entry.ver <= accepted'[t.entry.iid]
    BY <1>3, <1>t, <2>2, <2>3 DEF Between
  <2> QED
    BY <2>2, <2>3, <2>4, <2>5 DEF Between, Plain
\* The pending messages, each against what was pending, held or stored before.
<1>7. ASSUME NEW u, In(pending', u)
      PROVE  /\ Between(u)'
             /\ \A c \in Chain : chain[c].entry \in Entries /\ u.iid = chain[c].entry.iid
                                   => chain[c].entry.ver <= u.ver
  <2>0. u \in Entries
    BY <1>7, <1>u
  <2>1. ASSUME NEW v, In(pending, v), u.iid = v.iid, u.ver = v.ver, Plain(u)
        PROVE  /\ Between(u)'
               /\ \A c \in Chain : chain[c].entry \in Entries /\ u.iid = chain[c].entry.iid
                                     => chain[c].entry.ver <= u.ver
    <3>1. Between(u)'
      BY <1>5, <2>0, <2>1
    <3>2. \A c \in Chain : chain[c].entry \in Entries /\ u.iid = chain[c].entry.iid
                             => chain[c].entry.ver <= u.ver
      BY <2>1 DEF VersionsInv
    <3> QED
      BY <3>1, <3>2
  <2>2. ASSUME NEW v, In(pending, v), Akin(u, v) PROVE Plain(u) /\ u.iid = v.iid /\ u.ver = v.ver
    BY <2>2 DEF VersionsInv, Between, Plain, Akin
  <2>3. u.request # 0 => Plain(u)
    BY DEF Plain
  <2>4. ASSUME NEW t, Executed(t), UserTask(t), u = t.entry, accepted'[u.iid] = u.ver
        PROVE  /\ Between(u)'
               /\ \A c \in Chain : chain[c].entry \in Entries /\ u.iid = chain[c].entry.iid
                                     => chain[c].entry.ver <= u.ver
    <3>1. accepted[u.iid] < u.ver /\ Plain(u) /\ u.iid \in Message /\ u.ver \in Nat
      BY <1>e, <1>x, <2>0, <2>4
    <3>2. server'[u.iid].ver <= u.ver
      BY <1>4, <1>t, <3>1
    <3>3. Between(u)'
      BY <2>4, <3>1, <3>2 DEF Between, Plain
    <3>4. ASSUME NEW c \in Chain, chain[c].entry \in Entries, u.iid = chain[c].entry.iid
          PROVE  chain[c].entry.ver <= u.ver
      <4>1. chain[c].entry.ver <= accepted[u.iid] /\ chain[c].entry.ver \in Nat
        BY <1>e, <3>4 DEF VersionsInv, Between
      <4> QED
        BY <1>t, <3>1, <4>1
    <3> QED
      BY <3>3, <3>4
  <2>5. ASSUME NEW t, Executed(t), Copy(t), u = t.entry
        PROVE  /\ Between(u)'
               /\ \A c \in Chain : chain[c].entry \in Entries /\ u.iid = chain[c].entry.iid
                                     => chain[c].entry.ver <= u.ver
    <3>1. In(archive_tasks, t)
      BY <2>5 DEF Executed
    <3>2. Between(u)'
      BY <1>6, <2>5, <3>1
    <3> QED
      BY <2>5, <3>1, <3>2, NoCopyWhileHeld
  <2>6. \A t : t.op \in {"insert", "update"} => UserTask(t) \/ Copy(t)
    BY DEF UserTask, Copy
  <2>7. CASE \E v : In(pending, v) /\ Akin(u, v)
    BY <2>1, <2>2, <2>7
  <2>8. CASE \E t : /\ Executed(t) /\ t.op \in {"insert", "update"} /\ u = t.entry
                    /\ UserTask(t) => accepted'[u.iid] = u.ver
    BY <2>4, <2>5, <2>6, <2>8
  <2>9. CASE u.request # 0 /\ \E v : In(pending, v) /\ u.iid = v.iid /\ u.ver = v.ver
    BY <2>1, <2>3, <2>9
  <2> QED
    BY <1>1, <1>7, <2>7, <2>8, <2>9 DEF PendingMoves
\* The chains.
<1>8. ASSUME NEW c \in Chain, NEW e \in Entries, e = chain'[c].entry
      PROVE  /\ Between(e)'
             /\ \A u : In(pending', u) /\ u.iid = e.iid => e.ver <= u.ver
  <2>0. e.iid \in Message /\ e.ver \in Nat
    BY <1>8, <1>e
  <2>1. CASE In(pending', e)
    <3>1. Between(e)'
      BY <1>7, <2>1
    <3>2. \A u : In(pending', u) /\ u.iid = e.iid => u = e
      BY <1>t, <2>1, PendingFacts
    <3> QED
      BY <2>0, <3>1, <3>2
  <2>2. CASE chain[c].entry \in Entries /\ Akin(e, chain[c].entry)
    <3> DEFINE d == chain[c].entry
    <3>1. e.iid = d.iid /\ e.ver = d.ver /\ Between(d) /\ Plain(e)
      BY <2>2 DEF VersionsInv, Between, Akin, Plain
    <3>2. server'[e.iid].ver <= e.ver
      <4>1. CASE server'[e.iid].ver = server[e.iid].ver
        BY <3>1, <4>1 DEF Between
      <4>2. ASSUME NEW b \in Chain, chain[b].entry \in Entries, server'[e.iid].ver = chain[b].entry.ver
            PROVE  server'[e.iid].ver <= e.ver
        <5>1. chain[b] # Idle /\ chain[c] # Idle
          BY <2>2, <4>2, EntryIsOne DEF Idle
        <5>2. b = c
          BY <5>1 DEF OneInv
        <5> QED
          BY <2>0, <3>1, <4>2, <5>2
      <4> QED
        BY <1>2, <2>0, <4>1, <4>2 DEF ServerTakes
    <3>3. e.ver <= accepted'[e.iid]
      BY <1>3, <1>t, <2>0, <3>1 DEF Between
    <3>4. Between(e)'
      BY <3>1, <3>2, <3>3 DEF Between, Plain
    <3>5. \A u : In(pending', u) /\ u.iid = e.iid => e.ver <= u.ver
      BY <1>7, <2>2, <3>1
    <3> QED
      BY <3>4, <3>5
  <2> QED
    BY <1>1, <1>8, <2>1, <2>2 DEF ChainsMove, Moves
\* The tasks.
<1>9. ASSUME NEW t, In(archive_tasks', t)
      PROVE  (Copy(t) => Between(t.entry)') /\ (UserTask(t) => Plain(t.entry))
  <2>1. CASE In(archive_tasks, t)
    BY <1>6, <2>1 DEF VersionsInv
  <2>2. CASE NewTask(t)
    <3>1. UserTask(t) => Plain(t.entry)
      BY <2>2 DEF NewTask
    <3>2. ASSUME Copy(t) PROVE Between(t.entry)'
      <4>1. PICK c \in Chain : chain[c].at = "handled" /\ t.entry = chain[c].entry
        BY <2>2, <3>2 DEF NewTask
      <4>2. t.entry \in Entries /\ t.entry.iid \in Message /\ t.entry.ver \in Nat
        BY <1>e, <4>1 DEF TypeInv, ChainOK, ShapeOf, Sending, Packed
      <4>3. Between(t.entry)
        BY <4>1, <4>2 DEF VersionsInv
      <4>4. ASSUME NEW b \in Chain, chain[b].at = "wire" PROVE FALSE
        <5>1. chain[b] # Idle /\ chain[c] # Idle
          BY <4>1, <4>4 DEF Idle
        <5> QED
          BY <4>1, <4>4, <5>1 DEF OneInv
      <4>5. server'[t.entry.iid].ver = server[t.entry.iid].ver
        BY <1>2, <4>2, <4>4 DEF ServerTakes
      <4>6. t.entry.ver <= accepted'[t.entry.iid]
        BY <1>3, <1>t, <4>2, <4>3 DEF Between
      <4> QED
        BY <4>3, <4>5, <4>6 DEF Between, Plain
    <3> QED
      BY <3>1, <3>2
  <2> QED
    BY <1>1, <1>9, <2>1, <2>2 DEF TasksMove
<1>10. \A m \in Message : server'[m].ver <= accepted'[m]
  BY <1>3, <1>4, <1>t
<1>11. \A c \in Chain : chain'[c].entry \in Entries =>
          /\ Between(chain[c].entry)'
          /\ \A u : In(pending', u) /\ u.iid = chain'[c].entry.iid => chain'[c].entry.ver <= u.ver
  <2>1. SUFFICES ASSUME NEW c \in Chain, chain'[c].entry \in Entries
                 PROVE  /\ Between(chain[c].entry)'
                        /\ \A u : In(pending', u) /\ u.iid = chain'[c].entry.iid
                                     => chain'[c].entry.ver <= u.ver
    OBVIOUS
  <2>2. PICK e \in Entries : e = chain'[c].entry
    BY <2>1
  <2> QED
    BY <1>8, <2>2 DEF Between
<1>12. VersionsInv'
  BY <1>7, <1>9, <1>10, <1>11 DEF VersionsInv
<1> QED
  BY <1>4, <1>12

LEMMA EditStays ==
  ASSUME TypeInv, SentInv, OneInv, OrderInv, VersionsInv, [Next]_vars,
         NEW m \in Message, Current(m), ~Current(m)'
  PROVE  StaleCopy(m) \/ SecondConfirmation(m) \/ Torn
<1>1. /\ pending \in Pendings /\ pending' \in Pendings /\ archive_tasks \in Seq(Tasks)
      /\ TypeInv' /\ PendingMoves /\ AcceptedMoves
      /\ refused \subseteq refused' /\ pending_deletes \subseteq pending_deletes'
  <2>1. TypeInv'
    BY NextType
  <2>2. PendingMoves /\ AcceptedMoves /\ refused \subseteq refused' /\ pending_deletes \subseteq pending_deletes'
    BY NextPending, NextAccepted, RefusedStay
  <2>3. pending \in Pendings /\ pending' \in Pendings /\ archive_tasks \in Seq(Tasks)
    BY <2>1 DEF TypeInv, StoreOK, Links
  <2> QED
    BY <2>1, <2>2, <2>3
<1>2. /\ server[m].ver \in Nat /\ server'[m].ver \in Nat /\ accepted[m] \in Nat /\ accepted'[m] \in Nat
      /\ server[m].ver <= server'[m].ver /\ server[m].ver <= accepted[m] /\ server'[m].ver <= accepted'[m]
  <2>1. VersionsInv' /\ server[m].ver <= server'[m].ver
    BY VersionsStep
  <2>2. /\ server[m].ver \in Nat /\ server'[m].ver \in Nat
        /\ accepted[m] \in Nat /\ accepted'[m] \in Nat
    BY <1>1, OutboxAssumption DEF TypeInv, StoreOK, ServerOK
  <2> QED
    BY <2>1, <2>2 DEF VersionsInv
<1>3. ASSUME NEW u, In(pending', u), u.iid = m PROVE u.ver # accepted'[m]
  <2>1. Exists(pending', m) /\ EntryOf(pending', m) = u
    BY <1>1, <1>3, PendingFacts
  <2> QED
    BY <2>1 DEF Current
<1>4. /\ m \notin refused' /\ m \notin pending_deletes' /\ server'[m].ver # accepted'[m]
      /\ m \notin refused /\ m \notin pending_deletes
  <2>1. m \notin refused' \cup pending_deletes' /\ server'[m].ver # accepted'[m]
    BY DEF Current
  <2> QED
    BY <1>1, <2>1
\* What is stored newly is pending; so nothing is.
<1>5. accepted'[m] = accepted[m]
  BY <1>1, <1>3 DEF AcceptedMoves
<1>6. server[m].ver # accepted[m]
  BY <1>2, <1>4, <1>5
<1> DEFINE v == EntryOf(pending, m)
<1>7. In(pending, v) /\ v.iid = m /\ v.ver = accepted[m] /\ v \in Entries
  <2>1. Exists(pending, m) /\ v.ver = accepted[m]
    BY <1>4, <1>6 DEF Current
  <2> QED
    BY <1>1, <2>1, PendingFacts
<1>8. v = EntryOf(pending, m)
  OBVIOUS
<1> HIDE DEF v
<1>9. Fate(v)
  BY <1>7, NextFate
<1>10. ~Remains(v)
  BY <1>3, <1>5, <1>7 DEF Remains
<1>11. CASE Overwritten(v, "insert") \/ Overwritten(v, "update")
  <2>1. In(pending', Task.entry) /\ Task.entry.iid = m
    BY <1>7, <1>11 DEF Overwritten
  <2> DEFINE u == Task.entry
  <2>2. u.ver # v.ver
    BY <1>3, <1>5, <1>7, <2>1
  <2>3. ~\E w : In(pending, w) /\ u.iid = w.iid /\ u.ver = w.ver
    <3>1. \A w : In(pending, w) /\ u.iid = w.iid => w = v
      BY <1>1, <1>7, <2>1, PendingFacts
    <3> QED
      BY <2>2, <3>1
  <2>4. PICK t : /\ Executed(t) /\ t.op \in {"insert", "update"} /\ u = t.entry
                 /\ UserTask(t) => accepted'[u.iid] = u.ver
    BY <1>1, <2>1, <2>3 DEF PendingMoves, Akin
  <2>5. Copy(t)
    BY <1>3, <2>1, <2>4 DEF UserTask, Copy
  <2> QED
    BY <2>1, <2>4, <2>5 DEF Executed, Copy, StaleCopy, Executes
<1>12. CASE TakenAway(v)
  <2>1. archive_tasks # <<>> /\ In(archive_tasks, Task) /\ Task.iid = m
    BY <1>1, <1>7, <1>12, InTail DEF TakenAway, Executes, Task
  <2>2. Executes("imstate") \/ Executes("remove")
    BY <1>12 DEF TakenAway
  <2>3. ~(Task.op = "remove" /\ Task.remove_if_modified)
    BY <1>4, <1>7, <1>12 DEF TakenAway, Executes
  <2>4. /\ server[m].ver > 0
        /\ Task.op = "remove" => Task.ver = 0
    BY <2>1, <2>2, <2>3 DEF SentInv, KnownInv, Executes
  <2>5. ~v.deleted
    BY <1>4, <1>7, <1>12, <2>4 DEF TakenAway, Executes
  <2>6. ~v.modified
    BY <1>12, <2>3, <2>5 DEF TakenAway, Executes
  <2>7. v.request # 0
    <3>1. v.ver # 1
      BY <1>2, <1>6, <1>7, <2>4
    <3> QED
      BY <1>7, <2>6, <3>1 DEF VersionsInv, Between, Plain
  <2>8. v.request > 0
    BY <1>7, <2>7, OutboxAssumption DEF Entries
  <2> QED
    BY <1>8, <2>1, <2>2, <2>8 DEF SecondConfirmation
<1> QED
  BY <1>9, <1>10, <1>11, <1>12 DEF Fate

LEMMA InitEdits ==
  Init => TypeInv /\ SentInv /\ OneInv /\ OrderInv /\ VersionsInv
<1>1. SUFFICES ASSUME Init PROVE OrderInv /\ VersionsInv
  BY TypeInit, InitSent, InitOne
<1>0. /\ \A i : i \notin DOMAIN archive_tasks /\ i \notin DOMAIN pending
      /\ \A u : ~In(pending, u) /\ ~In(archive_tasks, u)
      /\ \A m \in Message : accepted[m] = 0 /\ typed[m] = 0 /\ server[m].ver = 0
      /\ \A c \in Chain : chain[c].entry = NoEntry
  BY <1>1 DEF Init, In, Idle
<1>2. OrderInv
  <2>1. \A m \in Message : accepted[m] <= typed[m]
    BY <1>0
  <2>2. InOrder(archive_tasks, accepted, typed) /\ CopiesAreFetched(archive_tasks)
    <3> HIDE DEF Init
    <3> QED
      BY <1>0, Zenon DEF InOrder, CopiesAreFetched
  <2> QED
    BY <2>1, <2>2 DEF OrderInv
<1>3. VersionsInv
  <2>1. NoEntry \notin Entries
    BY EntryIsOne
  <2>2. \A m \in Message : server[m].ver <= accepted[m]
    BY <1>0
  <2> QED
    BY <1>0, <2>1, <2>2, Zenon DEF VersionsInv
<1> QED
  BY <1>2, <1>3

\* The last edit that was stored is kept until the server has it, refuses the message
\* or is to delete it, with the exceptions EditIsKept names.  With one tick waiting at
\* a time there is one chain: a second one could bring back an older copy behind a
\* fetch, and then a version the server already passed would go out again.
THEOREM EditIsNotLost ==
  ASSUME MaxQueuedTicks = 1
  PROVE  Spec => EditIsKept
<1> DEFINE I == TypeInv /\ SentInv /\ OneInv /\ OrderInv /\ VersionsInv
<1>1. Init => I
  BY InitEdits
<1>2. I /\ [Next]_vars => I'
  BY NextType, NextSent, NextOne, NextOrder, VersionsStep
<1>3. I /\ [Next]_vars =>
        [\A m \in Message : Current(m) /\ ~Current(m)' => StaleCopy(m) \/ SecondConfirmation(m) \/ Torn]_vars
  BY EditStays
<1> HIDE DEF I
<1> QED
  BY <1>1, <1>2, <1>3, PTL DEF Spec, EditIsKept

(***************************************************************************)
(* The outbox implements Delivery.  What is added to the invariants: the   *)
(* server has a version of a message exactly when it made the message, and *)
(* only of such a message can a version carry a message id, so that the    *)
(* first packet it takes is not an update.                                 *)
(***************************************************************************)
DeliveredInv ==
  /\ \A m \in Message : server[m].ver > 0 => server[m].made = 1
  /\ \A d \in ids : server[d[1]].ver > 0
  /\ \A c \in Chain : chain[c].at = "wire" /\ chain[c].packet.updated
                        => server[chain[c].packet.iid].ver > 0

\* A message id comes with a confirmation.
Confirms(d) == Executes("remove") /\ ~Task.remove_if_modified /\ d[1] = Task.iid

LEMMA NextIds ==
  ASSUME TypeInv, [Next]_vars
  PROVE  \A d \in ids' : d \in ids \/ Confirms(d)
<1>1. ASSUME ArchiveRemove PROVE \A d \in ids' : d \in ids \/ Confirms(d)
  <2>1. Executes("remove") /\ RemoveOutcome
    BY <1>1 DEF ArchiveRemove, Run, Executes, Task
  <2>2. CASE KeptHere(pending, Task.iid, Task.remove_if_modified)
    <3>1. ~Task.remove_if_modified
      BY <2>2 DEF KeptHere, Kept
    <3>2. ids' = ids \cup {<<Task.iid, EntryOf(pending, Task.iid).ver>>}
      BY <2>1, <2>2 DEF RemoveOutcome, KeptHere
    <3> QED
      BY <2>1, <3>1, <3>2 DEF Confirms
  <2>3. CASE ~KeptHere(pending, Task.iid, Task.remove_if_modified)
    BY <2>1, <2>3 DEF RemoveOutcome, KeptHere
  <2> QED
    BY <2>2, <2>3
<1>2. ASSUME ArchiveStep, ~ArchiveRemove PROVE UNCHANGED ids
  BY <1>2 DEF ArchiveStep, ArchiveInsert, ArchiveUpdate, ArchiveDelete, ArchiveFetch, ArchiveStamp,
     ArchiveStore, ArchiveImstate, storeVars
<1>3. ASSUME NEW m \in Message,
             SendMessageToContact(m) \/ UpdateMessageToContact(m) \/ DeleteArchiveMessage(m)
               \/ OnDlgState(m) \/ OnEventImstate(m)
      PROVE  UNCHANGED ids
  BY <1>3 DEF SendMessageToContact, UpdateMessageToContact, DeleteArchiveMessage, OnDlgState,
     OnEventImstate, Unstored, storeVars
<1>4. ASSUME NEW c \in Chain, ChainStep(c) \/ PacketDropped(c) \/ ServerHandles(c)
      PROVE  UNCHANGED ids
  BY <1>4 DEF ChainStep, PacketDropped, ServerHandles, FetchedNothing, FetchedRecent,
     FetchedReady, SendPendingMessageAsync, AnsweredHistId, AnsweredNoHistId, AnsweredRefused,
     AnsweredError, Stored, Removed, Unstored, storeVars
<1>5. ASSUME SecondPasses \/ TimerFires \/ Tick \/ ResumeFailedNetworkRequests
             \/ (\E torn \in BOOLEAN : Crash(torn)) \/ UNCHANGED vars
      PROVE  UNCHANGED ids
  BY <1>5 DEF SecondPasses, TimerFires, Tick, ResumeFailedNetworkRequests, Crash, Unstored,
     storeVars, vars
<1> QED
  BY <1>1, <1>2, <1>3, <1>4, <1>5 DEF Next

\* A packet the server takes: the version it has, and the one message.
LEMMA TakesOne ==
  ASSUME TypeInv, SentInv, DeliveredInv, [Next]_vars, NEW m \in Message,
         NEW c \in Chain, chain[c].at = "wire", chain[c].packet.iid = m,
         server'[m] = Handled(chain[c].packet, server[m])
  PROVE  /\ server'[m].ver > 0 /\ server'[m].ver = chain[c].packet.ver
         /\ server'[m].made = IF server[m].ver = 0 THEN server[m].made + 1 ELSE server[m].made
         /\ server'[m].made = 1
<1> DEFINE p == chain[c].packet
<1>1. p \in Packets /\ p.ver \in Nat /\ p.ver > 0
  BY OutboxAssumption DEF TypeInv, ChainOK, ShapeOf, Packed, Packets, Version
<1>2. server[m].ver \in Nat /\ server[m].made \in Nat /\ server'[m].made \in Nat
  <2>1. TypeInv'
    BY NextType
  <2> QED
    BY <2>1, OutboxAssumption DEF TypeInv, ServerOK
<1>3. /\ server'[m].ver = p.ver
      /\ server'[m].made = IF p.updated THEN server[m].made ELSE server[m].made + 1
  BY DEF Handled
<1>4. server'[m].made <= 1 /\ (server[m].made > 0 => server[m].ver > 0)
  <2>1. TakenInv'
    BY TakenStep DEF SentInv
  <2>2. server[m].made > 0 => server[m].ver > 0
    BY DEF SentInv, TakenInv
  <2> QED
    BY <2>1, <2>2 DEF TakenInv
<1>5. CASE server[m].ver = 0
  <2>1. ~p.updated
    BY <1>5 DEF DeliveredInv
  <2>2. server[m].made = 0
    BY <1>2, <1>4, <1>5
  <2> QED
    BY <1>1, <1>3, <1>5, <2>1, <2>2
<1>6. CASE server[m].ver # 0
  <2>1. server[m].made = 1
    BY <1>2, <1>6 DEF DeliveredInv
  <2>2. p.updated
    BY <1>3, <1>4, <2>1
  <2> QED
    BY <1>1, <1>3, <1>6, <2>1, <2>2
<1> QED
  BY <1>5, <1>6

LEMMA NextDelivered ==
  ASSUME TypeInv, SentInv, DeliveredInv, [Next]_vars
  PROVE  DeliveredInv'
<1>1. ServerMoves /\ ChainsMove /\ TypeInv'
  BY NextChains, NextType
<1>2. \A m \in Message : server[m].ver > 0 => server'[m].ver > 0
  BY KnownStep DEF SentInv
<1>3. ASSUME NEW m \in Message, server'[m].ver > 0 PROVE server'[m].made = 1
  <2>1. CASE server'[m] = server[m]
    BY <1>3, <2>1 DEF DeliveredInv
  <2>2. CASE server'[m] # server[m]
    <3>1. PICK c \in Chain : /\ chain[c].at = "wire" /\ chain[c].packet.iid = m
                             /\ server'[m] = Handled(chain[c].packet, server[m])
      BY <1>1, <2>2 DEF ServerMoves
    <3> QED
      BY <3>1, TakesOne
  <2> QED
    BY <2>1, <2>2
<1>4. ASSUME NEW d \in ids' PROVE server'[d[1]].ver > 0
  <2>1. d[1] \in Message
    BY <1>1 DEF TypeInv, StoreOK
  <2>2. CASE d \in ids
    BY <1>2, <2>1, <2>2 DEF DeliveredInv
  <2>3. CASE Confirms(d)
    <3>1. archive_tasks \in Seq(Tasks) /\ archive_tasks # <<>>
      BY <2>3 DEF Confirms, Executes, TypeInv, Links
    <3>2. In(archive_tasks, Task)
      BY <3>1 DEF In, Task
    <3> QED
      BY <1>2, <2>1, <2>3, <3>2 DEF Confirms, Executes, SentInv, KnownInv
  <2> QED
    BY <2>2, <2>3, NextIds
<1>5. ASSUME NEW c \in Chain, chain'[c].at = "wire", chain'[c].packet.updated
      PROVE  server'[chain'[c].packet.iid].ver > 0
  <2>1. chain'[c].packet.iid \in Message
    BY <1>1, <1>5 DEF TypeInv, ChainOK, ShapeOf, Packed, Packets
  <2>2. CASE chain[c].at = "wire" /\ chain'[c].packet = chain[c].packet
    BY <1>2, <1>5, <2>1, <2>2 DEF DeliveredInv
  <2>3. CASE chain'[c].packet = Sent(chain[c].entry)
    <3>1. <<chain[c].entry.iid, chain[c].entry.ver>> \in ids /\ chain'[c].packet.iid = chain[c].entry.iid
      <4>1. Sent(chain[c].entry).updated = (<<chain[c].entry.iid, chain[c].entry.ver>> \in ids)
            /\ Sent(chain[c].entry).iid = chain[c].entry.iid
        BY DEF Sent
      <4> QED
        BY <1>5, <2>3, <4>1, Zenon
    <3>2. server[chain[c].entry.iid].ver > 0
      BY <3>1 DEF DeliveredInv
    <3> QED
      BY <1>2, <2>1, <3>1, <3>2
  <2> QED
    BY <1>1, <1>5, <2>2, <2>3 DEF ChainsMove, Moves
<1> QED
  BY <1>3, <1>4, <1>5 DEF DeliveredInv

Steps(m) == Delivered!Enter(m) \/ Delivered!Keep(m) \/ Delivered!Deliver(m)

\* What the mapping does to the fields of the server.
LEMMA ServerFields ==
  ASSUME NEW m \in Message
  PROVE  /\ [n \in Message |-> server[n].ver][m] = server[m].ver
         /\ [n \in Message |-> server[n].made][m] = server[m].made
OBVIOUS

LEMMA UserEnters ==
  ASSUME TypeInv, NEW m \in Message, SendMessageToContact(m) \/ UpdateMessageToContact(m)
  PROVE  Delivered!Enter(m)
<1>1. typed \in [Message -> 0..MaxVersion]
  BY DEF TypeInv, UserOK
<1>2. typed' = [typed EXCEPT ![m] = typed[m] + 1]
  BY <1>1 DEF SendMessageToContact, UpdateMessageToContact
<1>3. UNCHANGED <<accepted, server>>
  BY DEF SendMessageToContact, UpdateMessageToContact, storeVars
<1> QED
  BY <1>2, <1>3 DEF Delivered!Enter

LEMMA ArchiveKeeps ==
  ASSUME TypeInv, OrderInv, ArchiveInsert \/ ArchiveUpdate
  PROVE  UNCHANGED <<typed, accepted, server>> \/ \E m \in Message : Delivered!Keep(m)
<1>1. UNCHANGED <<typed, server>> /\ archive_tasks # <<>>
  BY DEF ArchiveInsert, ArchiveUpdate, Run, userVars
<1>2. archive_tasks \in Seq(Tasks) /\ accepted \in [Message -> 0..MaxVersion]
      /\ typed \in [Message -> 0..MaxVersion]
  BY DEF TypeInv, Links, StoreOK, UserOK
<1>3. Task \in Tasks /\ 1 \in DOMAIN archive_tasks /\ archive_tasks[1] = Task
  BY <1>1, <1>2 DEF Task
<1>4. CASE accepted' # accepted
  <2>1. /\ UserTask(Task)
        /\ accepted' = [accepted EXCEPT ![Task.entry.iid] = Task.entry.ver]
    BY <1>4 DEF ArchiveInsert, ArchiveUpdate, Run, UserTask, Task
  <2>2. PICK m \in Message, v \in Nat : m = Task.entry.iid /\ v = Task.entry.ver
    BY <1>3, <2>1, UserFields
  <2>3. accepted[m] < v /\ v <= typed[m]
    BY <1>3, <2>1, <2>2 DEF OrderInv, InOrder
  <2>4. v \in (accepted[m] + 1)..typed[m]
    BY <1>2, <2>2, <2>3, OutboxAssumption
  <2>5. accepted' = [accepted EXCEPT ![m] = v]
    BY <2>1, <2>2
  <2>6. Delivered!Keep(m)
    BY <1>1, <2>4, <2>5 DEF Delivered!Keep
  <2> QED
    BY <2>6
<1> QED
  BY <1>1, <1>4

LEMMA ServerDelivers ==
  ASSUME TypeInv, SentInv, OneInv, OrderInv, VersionsInv, DeliveredInv,
         NEW c \in Chain, ServerHandles(c)
  PROVE  UNCHANGED <<typed, accepted, server>> \/ \E m \in Message : Delivered!Deliver(m)
<1>1. chain[c].at = "wire" /\ UNCHANGED <<typed, accepted>>
  BY DEF ServerHandles, Unstored, userVars, storeVars
<1>2. PICK p \in Packets : p = chain[c].packet
  BY <1>1 DEF TypeInv, ChainOK, ShapeOf, Packed
<1>3. PICK m \in Message : m = p.iid
  BY DEF Packets
<1>4. /\ \A n \in Message : n # m => server'[n] = server[n]
      /\ p.request \in server[m].seen => server' = server
      /\ p.request \notin server[m].seen => server'[m] = Handled(p, server[m])
  BY <1>2, <1>3, HandledFacts DEF ServerHandles, TypeInv, Handled
<1>5. CASE p.request \notin server[m].seen
  <2>0. [Next]_vars
    BY DEF Next
  <2>1. /\ server'[m].ver > 0 /\ server'[m].made = 1
        /\ server'[m].made = IF server[m].ver = 0 THEN server[m].made + 1 ELSE server[m].made
    BY <1>1, <1>2, <1>3, <1>4, <1>5, <2>0, TakesOne
  <2>2. server[m].ver <= server'[m].ver /\ server'[m].ver <= accepted[m]
    BY <1>1, <2>0, VersionsStep DEF VersionsInv
  <2>3. PICK v \in Nat : v = server'[m].ver
    <3>1. TypeInv'
      BY <2>0, NextType
    <3> QED
      BY <3>1, OutboxAssumption DEF TypeInv, ServerOK
  <2>4. v \in 1..accepted[m] /\ server[m].ver <= v
    BY <2>1, <2>2, <2>3, OutboxAssumption DEF TypeInv, StoreOK
  <2> DEFINE ver == [n \in Message |-> server[n].ver]
             made == [n \in Message |-> server[n].made]
  <2>5. [n \in Message |-> server'[n].ver] = [ver EXCEPT ![m] = v]
    BY <1>4, <2>3
  <2>6. [n \in Message |-> server'[n].made]
          = IF server[m].ver = 0 THEN [made EXCEPT ![m] = made[m] + 1] ELSE made
    <3>1. CASE server[m].ver = 0
      BY <1>4, <2>1, <3>1
    <3>2. CASE server[m].ver # 0
      BY <1>4, <2>1, <3>2
    <3> QED
      BY <3>1, <3>2
  <2>7. Delivered!Deliver(m)
    BY <1>1, <2>4, <2>5, <2>6 DEF Delivered!Deliver
  <2> QED
    BY <2>7
<1> QED
  BY <1>1, <1>4, <1>5

LEMMA NextDelivery ==
  ASSUME TypeInv, SentInv, OneInv, OrderInv, VersionsInv, DeliveredInv, [Next]_vars
  PROVE  Delivered!Next \/ UNCHANGED <<typed, accepted, server>>
<1>1. ASSUME NEW m \in Message, SendMessageToContact(m) \/ UpdateMessageToContact(m)
      PROVE  Delivered!Next
  BY <1>1, UserEnters DEF Delivered!Next
<1>2. ASSUME ArchiveInsert \/ ArchiveUpdate
      PROVE  Delivered!Next \/ UNCHANGED <<typed, accepted, server>>
  BY <1>2, ArchiveKeeps DEF Delivered!Next
<1>3. ASSUME NEW c \in Chain, ServerHandles(c)
      PROVE  Delivered!Next \/ UNCHANGED <<typed, accepted, server>>
  BY <1>3, ServerDelivers DEF Delivered!Next
<1>4. ASSUME ArchiveStep, ~ArchiveInsert, ~ArchiveUpdate PROVE UNCHANGED <<typed, accepted, server>>
  BY <1>4 DEF ArchiveStep, ArchiveDelete, ArchiveFetch, ArchiveStamp, ArchiveStore, ArchiveRemove,
     ArchiveImstate, Run, userVars, storeVars
<1>5. ASSUME NEW m \in Message, DeleteArchiveMessage(m) \/ OnDlgState(m) \/ OnEventImstate(m)
      PROVE  UNCHANGED <<typed, accepted, server>>
  BY <1>5 DEF DeleteArchiveMessage, OnDlgState, OnEventImstate, Unstored, userVars, storeVars
<1>6. ASSUME NEW c \in Chain, ChainStep(c) \/ PacketDropped(c)
      PROVE  UNCHANGED <<typed, accepted, server>>
  BY <1>6 DEF ChainStep, PacketDropped, FetchedNothing, FetchedRecent,
     FetchedReady, SendPendingMessageAsync, AnsweredHistId, AnsweredNoHistId, AnsweredRefused,
     AnsweredError, Stored, Removed, Unstored, userVars, storeVars
<1>7. ASSUME SecondPasses \/ TimerFires \/ Tick \/ ResumeFailedNetworkRequests
             \/ (\E torn \in BOOLEAN : Crash(torn)) \/ UNCHANGED vars
      PROVE  UNCHANGED <<typed, accepted, server>>
  BY <1>7 DEF SecondPasses, TimerFires, Tick, ResumeFailedNetworkRequests, Crash, Unstored,
     userVars, storeVars, vars
<1> QED
  BY <1>1, <1>2, <1>3, <1>4, <1>5, <1>6, <1>7 DEF Next

LEMMA InitDelivery ==
  Init => DeliveredInv /\ Delivered!Init
<1> SUFFICES ASSUME Init PROVE DeliveredInv /\ Delivered!Init
  OBVIOUS
<1>1. /\ typed = [m \in Message |-> 0] /\ accepted = [m \in Message |-> 0] /\ ids = {}
      /\ server = [m \in Message |-> [ver |-> 0, seen |-> {}, made |-> 0]]
      /\ chain = [c \in Chain |-> Idle]
  BY DEF Init
<1>2. \A m \in Message : server[m].ver = 0 /\ server[m].made = 0
  BY <1>1
<1>3. \A c \in Chain : chain[c].at # "wire"
  BY <1>1 DEF Idle
<1>4. DeliveredInv
  BY <1>1, <1>2, <1>3 DEF DeliveredInv
<1>5. Delivered!Init
  BY <1>1, <1>2 DEF Delivered!Init, Delivered!None
<1> QED
  BY <1>4, <1>5

\* The outbox implements Delivery, for any messages, edits and crashes: the server is given only
\* versions that were stored, never an older one of a message after a newer one, and makes one message
\* of them.  As for the edits, with one tick waiting at a time.
THEOREM OutboxImplementsDelivery ==
  ASSUME MaxQueuedTicks = 1
  PROVE  Spec => DeliverySpec
<1> DEFINE I == TypeInv /\ SentInv /\ OneInv /\ OrderInv /\ VersionsInv
           J == I /\ DeliveredInv
<1>1. Init => J /\ Delivered!Init
  BY InitEdits, InitDelivery
<1>2. J /\ [Next]_vars => J'
  BY NextType, NextSent, NextOne, NextOrder, VersionsStep, NextDelivered
<1>3. J /\ [Next]_vars => [Delivered!Next]_Delivered!vars
  BY NextDelivery DEF Delivered!vars
<1> HIDE DEF J
<1> QED
  BY <1>1, <1>2, <1>3, PTL DEF Spec, DeliverySpec, Delivered!Spec
===============================================================================
