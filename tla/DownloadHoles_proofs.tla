-------------------------- MODULE DownloadHoles_proofs --------------------------
(***************************************************************************)
(* Proofs about DownloadHoles, for any set of ids, any number of chains,   *)
(* any page size and any bounds on what happens.                           *)
(***************************************************************************)
EXTENDS DownloadHoles, QueueLemmas, FiniteSetTheorems

(***************************************************************************)
(* Headers.  A header is honest about a server with the live messages L    *)
(* and the newest message t, and about the missing messages M: its link    *)
(* leads to an older message, it is deleted only if the message is, a      *)
(* patch is the patch of a deletion, and a link that the server told leads *)
(* over no missing message.                                                *)
(***************************************************************************)
Honest(h, L, M, t) ==
    /\ h.prev < h.id /\ h.id <= t
    /\ h.deleted => h.id \notin L
    /\ h.patch => h.deleted
    /\ h.known => \A x \in M : ~(h.prev < x /\ x < h.id)

HonestIndex(idx, L, M, t) ==
    /\ DOMAIN idx \subseteq Ids
    /\ \A i \in DOMAIN idx : idx[i] \in Header /\ idx[i].id = i /\ Honest(idx[i], L, M, t)

\* a block that comes from the server: its links lead over no live message at all, and it does not
\* both tell a message and its deletion
HonestBlock(b, L, t) ==
    /\ b \in Seq(Header)
    /\ \A n \in 1 .. Len(b) : Honest(b[n], L, L, t)
    /\ \A n \in 1 .. Len(b) : b[n].deleted => b[n].patch
    /\ \A m, n \in 1 .. Len(b) : b[m].id = b[n].id /\ b[n].deleted => b[m].deleted

AnyId == Ids \cup {NoId}

Holes == [error : {"ok", "index_not_found", "reached"}, from : AnyId, to : AnyId, depth : Int]

ChainState == [stage : Stages, request : Requests, hole : Holes, version : Nat, tail : Int,
               block : Seq(Header), older : AnyId, last : AnyId]

EventState == [stage : {"none", "merge", "store", "delete", "trim", "clear"}, block : Seq(Header),
               last : AnyId, version : Nat, upTo : AnyId, changed : BOOLEAN, deletes : BOOLEAN]

CopyState == [taken : BOOLEAN, last : AnyId, version : Nat]

\* the server: what is deleted stays so
ServerInv ==
    /\ top \in Nat /\ patches \in Seq(Ids) /\ emptied \in AnyId /\ emptied <= top
    /\ 1 .. top \subseteq Ids /\ live \subseteq 1 .. top
    /\ \A x \in live : x > emptied
    /\ \A n \in 1 .. Len(patches) : patches[n] \notin live /\ patches[n] <= top

\* the state, and the copy of it, are not ahead of the server
StateInv ==
    /\ last_msgid \in AnyId
    /\ del_up_to \in AnyId /\ del_up_to <= emptied
    /\ patch_version \in Nat /\ patch_version <= Len(patches)
    /\ copy \in CopyState /\ copy.version <= Len(patches)

EventInv ==
    /\ event \in EventState /\ event.upTo <= emptied
    /\ event.block # <<>> => event.stage \in {"merge", "store"}
    /\ HonestBlock(event.block, live, top)

\* older = -1 in an answer: all the messages that live before the one it was asked from are in it
Oldest(ch) ==
    ch.older = NoId /\ ch.hole.from # NoId
        => \A x \in live : x < ch.hole.from => \E n \in 1 .. Len(ch.block) : ch.block[n].id = x

ChainOK(ch) ==
    /\ ch.stage \in {"idle", "begin"} => ch = [Idle EXCEPT !.stage = ch.stage]
    /\ ch.block # <<>> => ch.stage \in {"answered", "store"}
    /\ HonestBlock(ch.block, live, top)
    /\ ch.hole.from <= top
    /\ ch.stage \in {"answered", "store"} => Oldest(ch)
    /\ ch.stage \in {"asked", "answered", "store", "validate"} /\ ch.request.depth = -1 => ch.tail = -1

ChainInv ==
    /\ chain \in [Chains -> ChainState]
    /\ \A c \in Chains : chain[c].version <= Len(patches) /\ ChainOK(chain[c])

HistoryInv ==
    /\ failed \in Requests
    /\ wanted \in AnyId /\ wanted <= top /\ skipped \subseteq Ids /\ undone \subseteq Ids
    /\ happened \in 0 .. MaxHappens

\* the messages that are not in the index, visible or not
Absent == {x \in live : x > del_up_to /\ x \notin DOMAIN headers_index}

IndexInv == HonestIndex(headers_index, live, Absent, top)

Inv == ServerInv /\ StateInv /\ EventInv /\ ChainInv /\ IndexInv /\ HistoryInv

\* what the chain c has before it: what is older than the hole when it is known
Ahead(c, x) ==
    /\ Covers(chain[c].request, x)
    /\ chain[c].stage \in {"check", "asked", "answered", "store", "validate"} =>
          chain[c].hole.from = NoId \/ x < chain[c].hole.from

Followed(x) == (\E c \in Chains : Ahead(c, x)) \/ Covers(failed, x) \/ x \in skipped

GapInv == \A x \in Absent : x < wanted => Followed(x)

\* the deletion of i is stored, or about to be, or came to nothing
Settled(i) ==
    InAnswer(i) \/ i \in undone \/ (i \in DOMAIN headers_index /\ headers_index[i].deleted)

\* the n-th deletion is settled, if it is not below the delUpto
Done(n) == \A i \in Ids : patches[n] = i /\ i > del_up_to => Settled(i)

\* all the deletions of a patch version are settled
VersionOK(v) == \A n \in 1 .. v : Done(n)

\* those of an answer whose state is not saved yet may be in it
Told(block, i) == \E k \in 1 .. Len(block) : block[k].patch /\ block[k].id = i
AnswerOK(ch) == \A n \in 1 .. ch.version : Done(n) \/ Told(ch.block, patches[n])

ChainDeleted(ch) ==
    /\ ch.stage = "asked" => VersionOK(ch.version)
    /\ ch.stage = "answered" => AnswerOK(ch)

DeletedInv ==
    /\ VersionOK(patch_version) /\ VersionOK(copy.version)
    /\ \A c \in Chains : ChainDeleted(chain[c])

-----------------------------------------------------------------------------
(* Sets of ids *)

LEMMA IdsAreNat == ASSUME NEW i \in Ids PROVE i \in Nat /\ i > 0 /\ i # NoId
BY IndexAssumption DEF NoId

LEMMA AnyIdIsInt == ASSUME NEW i \in AnyId PROVE i \in Int /\ i >= NoId
BY IdsAreNat DEF AnyId, NoId

LEMMA FiniteIds ==
    ASSUME NEW S, S \subseteq Ids
    PROVE  IsFiniteSet(S) /\ Cardinality(S) \in Nat
<1>1. IsFiniteSet(Ids)
  BY IndexAssumption
<1>2. IsFiniteSet(S)
  BY <1>1, FS_Subset
<1> QED
  BY <1>2, FS_CardinalityType

LEMMA SmallerSet ==
    ASSUME NEW S, NEW T, S \subseteq Ids, T \subseteq S, NEW z \in S, z \notin T
    PROVE  Cardinality(T) < Cardinality(S)
<1>1. IsFiniteSet(S) /\ Cardinality(S) \in Nat /\ Cardinality(T) \in Nat
  BY FiniteIds
<1>2. Cardinality(T) <= Cardinality(S) /\ (Cardinality(S) = Cardinality(T) => S = T)
  BY <1>1, FS_Subset
<1> QED
  BY <1>1, <1>2

\* A set of ids has a greatest one.
LEMMA MaxFacts ==
    ASSUME NEW S, S \subseteq Ids, S # {}
    PROVE  Max(S) \in S /\ \A y \in S : y <= Max(S)
<1> DEFINE above(x) == {y \in S : y > x}
           T == {n \in Nat : \E x \in S : Cardinality(above(x)) = n}
<1>1. \A x \in S : Cardinality(above(x)) \in Nat
  BY FiniteIds
<1>2. PICK n \in T : \A m \in T : n <= m
  <2>1. T \subseteq Nat /\ T # {}
    BY <1>1
  <2> HIDE DEF T
  <2> QED
    BY <2>1, LeastNat
<1>3. PICK x \in S : Cardinality(above(x)) = n
  BY <1>2
<1>4. \A y \in S : y <= x
  <2> SUFFICES ASSUME NEW y \in S, y > x PROVE FALSE
    BY IdsAreNat
  <2>1. above(y) \subseteq above(x) /\ y \in above(x) /\ y \notin above(y)
    BY IdsAreNat
  <2>2. Cardinality(above(y)) < Cardinality(above(x))
    <3>1. above(x) \subseteq Ids
      OBVIOUS
    <3> HIDE DEF above
    <3> QED
      BY <2>1, <3>1, SmallerSet
  <2>3. Cardinality(above(y)) \in T
    BY <1>1
  <2>4. Cardinality(above(y)) \in Nat /\ n \in Nat
    BY <1>1, <1>2
  <2> QED
    BY <1>2, <1>3, <2>2, <2>3, <2>4
<1>5. \E m \in S : \A y \in S : m >= y
  BY <1>4, IdsAreNat
<1>6. Max(S) \in S /\ \A y \in S : Max(S) >= y
  BY <1>5 DEF Max
<1> QED
  BY <1>6, IdsAreNat

LEMMA MinFacts ==
    ASSUME NEW S, S \subseteq Ids, S # {}
    PROVE  Min(S) \in S /\ \A y \in S : Min(S) <= y
<1>1. S \subseteq Nat
  BY IdsAreNat
<1>2. \E x \in S : \A y \in S : x <= y
  BY <1>1, LeastNat
<1> QED
  BY <1>2 DEF Min

LEMMA NewestFacts ==
    ASSUME NEW S, S \subseteq Ids
    PROVE  /\ Newest(S) \in AnyId
           /\ S = {} => Newest(S) = NoId
           /\ S # {} => Newest(S) \in S
           /\ \A x \in S : x <= Newest(S)
BY MaxFacts DEF Newest, AnyId

LEMMA OlderFacts ==
    ASSUME NEW idx, DOMAIN idx \subseteq Ids, NEW i
    PROVE  /\ Older(idx, i) \in AnyId
           /\ Older(idx, i) = NoId \/ (Older(idx, i) \in VisibleIds(idx) /\ Older(idx, i) < i)
           /\ \A x \in VisibleIds(idx) : x < i => x <= Older(idx, i)
<1> DEFINE v == VisibleBelow(idx, i)
<1>1. v \subseteq Ids /\ v \subseteq VisibleIds(idx) /\ \A x \in VisibleIds(idx) : x < i <=> x \in v
  BY DEF VisibleBelow, VisibleIds
<1>2. Older(idx, i) = IF v = {} THEN NoId ELSE Max(v)
  BY DEF Older
<1>3. \A x \in v : x < i
  BY DEF VisibleBelow
<1> HIDE DEF v
<1> QED
  BY <1>1, <1>2, <1>3, MaxFacts DEF AnyId

-----------------------------------------------------------------------------
(* Blocks *)

\* The ids are numbered from the oldest.
LEMMA NthFacts ==
    ASSUME NEW ids, ids \subseteq Ids
    PROVE  /\ Cardinality(ids) \in Nat
           /\ \A n \in 1 .. Cardinality(ids) : Nth(ids, n) \in ids
           /\ \A i \in ids : \E n \in 1 .. Cardinality(ids) : Nth(ids, n) = i
<1> DEFINE upto(i) == {j \in ids : j <= i}
           rank == [i \in ids |-> Cardinality(upto(i))]
           N == Cardinality(ids)
<1>1. IsFiniteSet(ids) /\ N \in Nat
  BY FiniteIds
<1>2. ASSUME NEW i \in ids PROVE Cardinality(upto(i)) \in 1 .. N
  <2>1. IsFiniteSet(upto(i)) /\ Cardinality(upto(i)) \in Nat /\ Cardinality(upto(i)) <= N
    BY <1>1, FiniteIds, FS_Subset
  <2>2. upto(i) # {}
    BY IdsAreNat
  <2>3. Cardinality(upto(i)) # 0
    BY <2>1, <2>2, FS_EmptySet
  <2> QED
    BY <1>1, <2>1, <2>3
<1>3. ASSUME NEW i \in ids, NEW j \in ids, i < j PROVE Cardinality(upto(i)) < Cardinality(upto(j))
  <2>1. upto(i) \subseteq upto(j) /\ j \in upto(j) /\ j \notin upto(i) /\ upto(j) \subseteq Ids
    BY <1>3, IdsAreNat
  <2> HIDE DEF upto
  <2> QED
    BY <2>1, SmallerSet
<1>4. \A i, j \in ids : Cardinality(upto(i)) = Cardinality(upto(j)) => i = j
  <2>1. \A i, j \in ids : i \in Nat /\ j \in Nat
    BY IdsAreNat
  <2>2. \A i \in ids : Cardinality(upto(i)) \in Nat
    BY <1>2
  <2> HIDE DEF upto
  <2>3. \A i, j \in ids : Cardinality(upto(i)) = Cardinality(upto(j)) => ~(i < j)
    BY <1>3, <2>2
  <2> QED
    BY <2>1, <2>3
<1>5. rank \in Injection(ids, 1 .. N)
  <2>1. rank \in [ids -> 1 .. N]
    BY <1>2
  <2>2. \A i, j \in ids : rank[i] = rank[j] => i = j
    BY <1>4
  <2> QED
    BY <2>1, <2>2 DEF Injection, IsInjective
<1>6. IsFiniteSet(1 .. N) /\ Cardinality(1 .. N) = N
  BY <1>1, FS_Interval
<1>7. rank \in Surjection(ids, 1 .. N)
  <2> HIDE DEF rank, N
  <2>1. Cardinality(ids) = N
    BY DEF N
  <2> QED
    BY <1>5, <1>6, <2>1, FS_Injection
<1>8. ASSUME NEW n \in 1 .. N PROVE \E i \in ids : Cardinality(upto(i)) = n
  BY <1>7 DEF Surjection
<1>9. ASSUME NEW n \in 1 .. N PROVE Nth(ids, n) \in ids /\ Cardinality(upto(Nth(ids, n))) = n
  BY <1>8 DEF Nth
<1>10. ASSUME NEW i \in ids PROVE Nth(ids, Cardinality(upto(i))) = i
  <2> DEFINE k == Nth(ids, Cardinality(upto(i)))
  <2>1. Cardinality(upto(i)) \in 1 .. N
    BY <1>2
  <2>2. k \in ids /\ Cardinality(upto(k)) = Cardinality(upto(i))
    BY <1>9, <2>1
  <2> QED
    BY <1>4, <2>2
<1> QED
  BY <1>1, <1>2, <1>9, <1>10

LEMMA MessageFacts ==
    ASSUME NEW i \in Ids, NEW p \in AnyId
    PROVE  /\ Message(i, p, 0) \in Header
           /\ Message(i, p, 0).id = i /\ Message(i, p, 0).prev = p
           /\ Message(i, p, 0).known = TRUE /\ Message(i, p, 0).patch = FALSE
           /\ Message(i, p, 0).deleted = FALSE
BY IndexAssumption DEF Message, Header, AnyId, NotStored

LEMMA PatchFacts ==
    ASSUME NEW i \in Ids
    PROVE  /\ Patch(i, "deleted") \in Header
           /\ Patch(i, "deleted").id = i /\ Patch(i, "deleted").prev = NoId
           /\ Patch(i, "deleted").known = FALSE /\ Patch(i, "deleted").patch = TRUE
           /\ Patch(i, "deleted").deleted = TRUE
<1> DEFINE d == "deleted" = "deleted"
           m == "deleted" = "modified"
           u == "deleted" \in {"updated", "modified"}
<1>1. Patch(i, "deleted") =
        [id |-> i, prev |-> NoId, known |-> FALSE, data |-> NotStored, version |-> 0,
         patch |-> TRUE, deleted |-> d, modified |-> m, updated |-> u]
  BY DEF Patch
<1>2. d = TRUE /\ m = FALSE /\ u = FALSE
  OBVIOUS
<1> HIDE DEF d, m, u
<1>3. Patch(i, "deleted") =
        [id |-> i, prev |-> NoId, known |-> FALSE, data |-> NotStored, version |-> 0,
         patch |-> TRUE, deleted |-> TRUE, modified |-> FALSE, updated |-> FALSE]
  BY <1>1, <1>2, Zenon
<1> DEFINE g == [id |-> i, prev |-> NoId, known |-> FALSE, data |-> NotStored, version |-> 0,
                 patch |-> TRUE, deleted |-> TRUE, modified |-> FALSE, updated |-> FALSE]
<1>4. g \in Header /\ g.id = i /\ g.prev = NoId
  BY IndexAssumption DEF Header, NotStored
<1>5. g.known = FALSE /\ g.patch = TRUE /\ g.deleted = TRUE
  OBVIOUS
<1> QED
  BY <1>3, <1>4, <1>5, Zenon

\* b has a message of each of the ids, linked to the one before it, the first one to `older'
BlockOf(b, ids, older) ==
    /\ b \in Seq(Header)
    /\ \A n \in 1 .. Len(b) :
          /\ b[n].id \in ids /\ b[n].prev < b[n].id /\ b[n].patch = FALSE /\ b[n].deleted = FALSE
          /\ b[n].prev \in ids \/ (b[n].prev = older /\ \A j \in ids : b[n].id <= j)
          /\ \A j \in ids : ~(b[n].prev < j /\ j < b[n].id)
    /\ \A i \in ids : \E n \in 1 .. Len(b) : b[n].id = i

LEMMA BlockFacts ==
    ASSUME NEW ids, ids \subseteq Ids, NEW older \in AnyId, \A i \in ids : older < i
    PROVE  BlockOf(Block(ids, older), ids, older)
<1> DEFINE prev(i) == IF \A j \in ids : j >= i THEN older ELSE Max({j \in ids : j < i})
           N == Cardinality(ids)
           b == [n \in 1 .. N |-> Message(Nth(ids, n), prev(Nth(ids, n)), 0)]
<1>1. Block(ids, older) = b
  BY DEF Block
<1>2. N \in Nat /\ (\A n \in 1 .. N : Nth(ids, n) \in ids)
      /\ \A i \in ids : \E n \in 1 .. N : Nth(ids, n) = i
  BY NthFacts
<1>3. ASSUME NEW i \in ids
      PROVE /\ prev(i) \in AnyId /\ prev(i) < i
            /\ prev(i) \in ids \/ (prev(i) = older /\ \A j \in ids : i <= j)
            /\ \A j \in ids : ~(prev(i) < j /\ j < i)
  <2>0. \A j \in ids : j \in Nat
    BY IdsAreNat
  <2>1. CASE \A j \in ids : j >= i
    BY <2>0, <2>1
  <2>2. CASE ~(\A j \in ids : j >= i)
    <3> DEFINE S == {j \in ids : j < i}
    <3>1. S # {} /\ S \subseteq Ids
      BY <2>0, <2>2
    <3>2. Max(S) \in S /\ \A y \in S : y <= Max(S)
      <4> HIDE DEF S
      <4> QED
        BY <3>1, MaxFacts
    <3>3. prev(i) = Max(S)
      BY <2>2
    <3>4. Max(S) \in ids /\ Max(S) < i /\ \A j \in ids : j < i => j <= Max(S)
      BY <3>2
    <3> HIDE DEF S, prev
    <3> QED
      BY <2>0, <3>3, <3>4 DEF AnyId
  <2> QED
    BY <2>1, <2>2
<1> HIDE DEF prev
<1>4. ASSUME NEW n \in 1 .. N
      PROVE /\ b[n] \in Header /\ b[n].id = Nth(ids, n) /\ b[n].prev = prev(Nth(ids, n))
            /\ b[n].patch = FALSE /\ b[n].deleted = FALSE
  <2>1. Nth(ids, n) \in ids /\ Nth(ids, n) \in Ids /\ prev(Nth(ids, n)) \in AnyId
    BY <1>2, <1>3
  <2>2. PICK i \in ids, q \in AnyId : i = Nth(ids, n) /\ q = prev(Nth(ids, n))
    BY <2>1
  <2>3. b[n] = Message(i, q, 0)
    BY <2>2
  <2>4. /\ Message(i, q, 0) \in Header /\ Message(i, q, 0).id = i /\ Message(i, q, 0).prev = q
        /\ Message(i, q, 0).patch = FALSE /\ Message(i, q, 0).deleted = FALSE
    BY MessageFacts
  <2> HIDE DEF b
  <2> QED
    BY <2>2, <2>3, <2>4
<1>5. b \in Seq(Header) /\ Len(b) = N
  <2>1. b \in [1 .. N -> Header]
    BY <1>4
  <2> HIDE DEF b
  <2> QED
    BY <1>2, <2>1
<1> HIDE DEF b, N
<1>6. ASSUME NEW n \in 1 .. Len(b)
      PROVE /\ b[n].id \in ids /\ b[n].prev < b[n].id /\ b[n].patch = FALSE /\ b[n].deleted = FALSE
            /\ b[n].prev \in ids \/ (b[n].prev = older /\ \A j \in ids : b[n].id <= j)
            /\ \A j \in ids : ~(b[n].prev < j /\ j < b[n].id)
  <2>1. PICK i \in ids : b[n].id = i /\ b[n].prev = prev(i) /\ b[n].patch = FALSE /\ b[n].deleted = FALSE
    BY <1>2, <1>4, <1>5
  <2> QED
    BY <1>3, <2>1
<1>7. \A i \in ids : \E n \in 1 .. Len(b) : b[n].id = i
  BY <1>2, <1>4, <1>5
<1>8. BlockOf(b, ids, older)
  BY <1>5, <1>6, <1>7 DEF BlockOf
<1> QED
  BY <1>1, <1>8

-----------------------------------------------------------------------------
(* The operations of the index *)

\* a later server: up to its newest message then, nothing has become live or missing since
Later(L, M, t, L2, M2, t2) ==
    /\ L2 \subseteq Ids /\ M2 \subseteq Ids /\ t \in Int /\ t2 \in Int /\ t <= t2
    /\ \A x \in L2 : x <= t => x \in L
    /\ \A x \in M2 : x <= t => x \in M

LEMMA HeaderFields ==
    ASSUME NEW h \in Header
    PROVE  /\ h.id \in Ids /\ h.id \in Nat /\ h.id > 0
           /\ h.prev \in AnyId /\ h.prev \in Int /\ h.prev >= NoId
           /\ h.known \in BOOLEAN /\ h.data \in Nat \cup {NotStored} /\ h.version \in Versions
           /\ h.patch \in BOOLEAN /\ h.deleted \in BOOLEAN
           /\ h.modified \in BOOLEAN /\ h.updated \in BOOLEAN
<1>1. /\ h.id \in Ids /\ h.prev \in AnyId
      /\ h.known \in BOOLEAN /\ h.data \in Nat \cup {NotStored} /\ h.version \in Versions
      /\ h.patch \in BOOLEAN /\ h.deleted \in BOOLEAN
      /\ h.modified \in BOOLEAN /\ h.updated \in BOOLEAN
  BY DEF Header, AnyId
<1>2. h.id \in Nat /\ h.id > 0 /\ h.prev \in Int /\ h.prev >= NoId
  BY <1>1, IdsAreNat, AnyIdIsInt
<1> QED
  BY <1>1, <1>2

LEMMA OnlyPrevSet ==
    ASSUME NEW h \in Header, NEW p \in AnyId
    PROVE  LET g == [h EXCEPT !.prev = p] IN
           /\ g \in Header /\ g.id = h.id /\ g.prev = p /\ g.known = h.known
           /\ g.patch = h.patch /\ g.deleted = h.deleted
BY DEF Header, AnyId

LEMMA HonestLater ==
    ASSUME NEW h \in Header, NEW L, NEW M, NEW t, NEW L2, NEW M2, NEW t2,
           Later(L, M, t, L2, M2, t2), Honest(h, L, M, t)
    PROVE  Honest(h, L2, M2, t2)
<1>1. /\ h.id \in Nat /\ h.prev \in Int /\ t \in Int /\ t2 \in Int /\ t <= t2
      /\ h.prev < h.id /\ h.id <= t
      /\ \A x \in L2 : x \in Nat /\ (x <= t => x \in L)
      /\ \A x \in M2 : x \in Nat /\ (x <= t => x \in M)
  BY HeaderFields, IdsAreNat DEF Later, Honest
<1>2. h.id \in L2 => h.id \in L
  BY <1>1
<1>3. \A x \in M2 : h.prev < x /\ x < h.id => x \in M
  BY <1>1
<1>4. h.id <= t2
  BY <1>1
<1> QED
  BY <1>1, <1>2, <1>3, <1>4 DEF Honest

LEMMA IndexLater ==
    ASSUME NEW idx, NEW L, NEW M, NEW t, NEW L2, NEW M2, NEW t2,
           Later(L, M, t, L2, M2, t2), HonestIndex(idx, L, M, t)
    PROVE  HonestIndex(idx, L2, M2, t2)
BY HonestLater DEF HonestIndex

LEMMA BlockLater ==
    ASSUME NEW b, NEW L, NEW t, NEW L2, NEW t2,
           Later(L, L, t, L2, L2, t2), HonestBlock(b, L, t)
    PROVE  HonestBlock(b, L2, t2)
<1>1. \A n \in 1 .. Len(b) : b[n] \in Header
  BY DEF HonestBlock
<1> QED
  BY <1>1, HonestLater DEF HonestBlock

LEMMA MergeFields ==
    ASSUME NEW e \in Header, NEW h \in Header
    PROVE  /\ Merge(e, h) \in Header
           /\ Merge(e, h).id = e.id
           /\ Merge(e, h).deleted = h.deleted
           /\ Merge(e, h).patch => h.patch
           /\ \/ Merge(e, h).prev = h.prev /\ Merge(e, h).known = h.known
              \/ Merge(e, h).prev = e.prev /\ Merge(e, h).known = e.known
<1> DEFINE told == h.prev # NoId \/ ~h.patch
<1> DEFINE p == IF told THEN h.prev ELSE e.prev
           k == IF told THEN h.known ELSE e.known
           d == IF h.data # NotStored /\ ~h.patch THEN h.data ELSE e.data
           v == IF h.version > e.version THEN h.version ELSE e.version
           a == h.patch /\ e.patch /\ (e.deleted => h.deleted)
           m == h.modified \/ e.modified
           u == h.updated \/ (h.patch /\ e.updated)
<1>1. Merge(e, h) = [id |-> e.id, prev |-> p, known |-> k, data |-> d, version |-> v,
                     patch |-> a, deleted |-> h.deleted, modified |-> m, updated |-> u]
  BY DEF Merge
<1>2. /\ e.id \in Ids /\ p \in AnyId /\ k \in BOOLEAN /\ d \in Nat \cup {NotStored}
      /\ v \in Versions /\ a \in BOOLEAN /\ h.deleted \in BOOLEAN /\ m \in BOOLEAN /\ u \in BOOLEAN
  BY HeaderFields
<1>3. (p = h.prev /\ k = h.known) \/ (p = e.prev /\ k = e.known)
  OBVIOUS
<1>4. a => h.patch
  OBVIOUS
<1> HIDE DEF p, k, d, v, a, m, u
<1>5. Merge(e, h) \in Header
  BY <1>1, <1>2 DEF Header, AnyId
<1>6. /\ Merge(e, h).id = e.id /\ Merge(e, h).prev = p /\ Merge(e, h).known = k
      /\ Merge(e, h).patch = a /\ Merge(e, h).deleted = h.deleted
  BY <1>1
<1> QED
  BY <1>3, <1>4, <1>5, <1>6, Zenon

LEMMA MergeHonest ==
    ASSUME NEW e \in Header, NEW h \in Header, NEW L, NEW M, NEW t,
           Honest(e, L, M, t), Honest(h, L, M, t), e.id = h.id
    PROVE  /\ Merge(e, h) \in Header /\ Honest(Merge(e, h), L, M, t)
           /\ Merge(e, h).id = h.id /\ Merge(e, h).deleted = h.deleted
<1> DEFINE m == Merge(e, h)
<1>1. /\ m \in Header /\ m.id = e.id /\ m.deleted = h.deleted /\ (m.patch => h.patch)
      /\ \/ m.prev = h.prev /\ m.known = h.known
         \/ m.prev = e.prev /\ m.known = e.known
  BY MergeFields
<1> HIDE DEF m
<1>2. m.prev < m.id /\ m.id <= t
  BY <1>1 DEF Honest
<1>3. (m.deleted => m.id \notin L) /\ (m.patch => m.deleted)
  BY <1>1, Zenon DEF Honest
<1>4. m.known => \A x \in M : ~(m.prev < x /\ x < m.id)
  BY <1>1 DEF Honest
<1>5. Honest(m, L, M, t)
  BY <1>2, <1>3, <1>4 DEF Honest
<1> QED
  BY <1>1, <1>5 DEF m

LEMMA RelinkedHonest ==
    ASSUME NEW idx, NEW h \in Header, NEW L, NEW M, NEW t, NEW k \in DOMAIN idx,
           M \subseteq L, L \subseteq Ids,
           HonestIndex(idx, L, M, t), Honest(h, L, M, t), h.id \in DOMAIN idx
    PROVE  /\ Relinked(idx, idx[h.id], h, k) \in Header
           /\ Honest(Relinked(idx, idx[h.id], h, k), L, M, t)
           /\ Relinked(idx, idx[h.id], h, k).id = k
           /\ Relinked(idx, idx[h.id], h, k).deleted = idx[k].deleted
<1> DEFINE e == idx[h.id]
           n == idx[k]
           g == Relinked(idx, e, h, k)
<1>1. /\ n \in Header /\ Honest(n, L, M, t) /\ n.id = k
      /\ e \in Header /\ Honest(e, L, M, t) /\ e.id = h.id
  BY DEF HonestIndex
<1>2. CASE g = n
  BY <1>1, <1>2
<1>3. CASE IsNext(idx, e.id, k) /\ h.deleted /\ n.prev = e.id
           /\ g = [n EXCEPT !.prev = e.prev, !.known = n.known /\ e.known]
  <2>1. e.prev \in AnyId /\ (n.known /\ e.known) \in BOOLEAN
    BY <1>1, HeaderFields
  <2>2. PICK b \in BOOLEAN : b = (n.known /\ e.known)
    BY <2>1
  <2>3. g = [n EXCEPT !.prev = e.prev, !.known = b]
    BY <1>3, <2>2
  <2>4. IsNext(idx, e.id, k) /\ h.deleted /\ n.prev = e.id
    BY <1>3
  <2> HIDE DEF e, n, g
  <2>5. /\ g \in Header /\ g.id = n.id /\ g.prev = e.prev /\ g.known = b
        /\ g.patch = n.patch /\ g.deleted = n.deleted
    BY <1>1, <2>1, <2>2, <2>3 DEF Header, AnyId
  <2>6. /\ h.id \notin L /\ k > e.id /\ e.prev < e.id
        /\ k \in Nat /\ e.id \in Nat /\ e.prev \in Int
    BY <1>1, <2>4, HeaderFields DEF Honest, IsNext
  <2>7. ASSUME g.known, NEW x \in M, g.prev < x, x < g.id PROVE FALSE
    <3>1. x \in Nat /\ x # e.id
      BY <1>1, <2>6, IdsAreNat
    <3>2. n.known /\ e.known
      BY <2>2, <2>5, <2>7
    <3>3. x < e.id \/ (n.prev < x /\ x < n.id)
      BY <1>1, <2>4, <2>5, <2>6, <2>7, <3>1
    <3> QED
      BY <1>1, <2>5, <2>7, <3>2, <3>3 DEF Honest
  <2>8. g.prev < g.id /\ g.id <= t
    BY <1>1, <2>5, <2>6 DEF Honest
  <2>9. (g.deleted => g.id \notin L) /\ (g.patch => g.deleted)
    BY <1>1, <2>5, Zenon DEF Honest
  <2>10. Honest(g, L, M, t)
    BY <2>7, <2>8, <2>9 DEF Honest
  <2> QED
    BY <1>1, <2>5, <2>10 DEF e, n, g
<1>4. CASE IsNext(idx, e.id, k) /\ n.prev = e.prev /\ g = [n EXCEPT !.prev = e.id]
  <2>1. e.id \in AnyId
    BY <1>1, HeaderFields DEF AnyId
  <2>2. /\ g \in Header /\ g.id = n.id /\ g.prev = e.id /\ g.known = n.known
        /\ g.patch = n.patch /\ g.deleted = n.deleted
    BY <1>1, <1>4, <2>1, OnlyPrevSet
  <2>3. k > e.id /\ e.prev < e.id /\ k \in Nat /\ e.id \in Nat /\ e.prev \in Int
    BY <1>1, <1>4, HeaderFields DEF Honest, IsNext
  <2>4. IsNext(idx, e.id, k) /\ n.prev = e.prev
    BY <1>4
  <2> HIDE DEF e, n, g
  <2>5. \A x \in M : g.prev < x => n.prev < x
    BY <2>2, <2>3, <2>4, IdsAreNat
  <2>6. g.prev < g.id /\ g.id <= t
    BY <1>1, <2>2, <2>3 DEF Honest
  <2>7. (g.deleted => g.id \notin L) /\ (g.patch => g.deleted)
    BY <1>1, <2>2, Zenon DEF Honest
  <2>8. g.known => \A x \in M : ~(g.prev < x /\ x < g.id)
    BY <1>1, <2>2, <2>5 DEF Honest
  <2>9. Honest(g, L, M, t)
    BY <2>6, <2>7, <2>8 DEF Honest
  <2> QED
    BY <1>1, <2>2, <2>9 DEF e, n, g
<1> QED
  BY <1>2, <1>3, <1>4 DEF Relinked

\* the index with the header h put into it
PutIn(new, idx, h, L, M, t) ==
    /\ HonestIndex(new, L, M, t)
    /\ DOMAIN new = DOMAIN idx \cup {h.id}
    /\ new[h.id].deleted = h.deleted
    /\ \A k \in DOMAIN idx : k # h.id => new[k].deleted = idx[k].deleted

LEMMA InsertFacts ==
    ASSUME NEW idx, NEW h \in Header, NEW L, NEW M, NEW t, M \subseteq L, L \subseteq Ids,
           HonestIndex(idx, L, M, t), Honest(h, L, M, t)
    PROVE  PutIn(InsertHeader(idx, h), idx, h, L, M, t)
<1>1. h.id \in Ids
  BY HeaderFields
<1>2. CASE h.id \notin DOMAIN idx
  <2> DEFINE new == [k \in DOMAIN idx \cup {h.id} |-> IF k = h.id THEN h ELSE idx[k]]
  <2>1. InsertHeader(idx, h) = new
    BY <1>2 DEF InsertHeader
  <2>2. HonestIndex(new, L, M, t) /\ DOMAIN new = DOMAIN idx \cup {h.id}
    BY <1>1 DEF HonestIndex
  <2>3. new[h.id] = h /\ \A k \in DOMAIN idx : k # h.id => new[k] = idx[k]
    BY <1>2
  <2> HIDE DEF new
  <2> QED
    BY <2>1, <2>2, <2>3 DEF PutIn
<1>3. CASE h.id \in DOMAIN idx
  <2> DEFINE new == [k \in DOMAIN idx |-> IF k = h.id THEN Merge(idx[k], h)
                                                     ELSE Relinked(idx, idx[h.id], h, k)]
  <2>1. InsertHeader(idx, h) = new
    BY <1>3 DEF InsertHeader
  <2>2. /\ Merge(idx[h.id], h) \in Header /\ Honest(Merge(idx[h.id], h), L, M, t)
        /\ Merge(idx[h.id], h).id = h.id /\ Merge(idx[h.id], h).deleted = h.deleted
    BY <1>3, MergeHonest DEF HonestIndex
  <2>3. \A k \in DOMAIN idx : /\ Relinked(idx, idx[h.id], h, k) \in Header
                              /\ Honest(Relinked(idx, idx[h.id], h, k), L, M, t)
                              /\ Relinked(idx, idx[h.id], h, k).id = k
                              /\ Relinked(idx, idx[h.id], h, k).deleted = idx[k].deleted
    BY <1>3, RelinkedHonest
  <2>4. new[h.id] = Merge(idx[h.id], h)
        /\ \A k \in DOMAIN idx : k # h.id => new[k] = Relinked(idx, idx[h.id], h, k)
    BY <1>3
  <2>5. DOMAIN new = DOMAIN idx /\ DOMAIN idx = DOMAIN idx \cup {h.id}
    BY <1>3
  <2> HIDE DEF new
  <2>6. HonestIndex(new, L, M, t)
    BY <2>2, <2>3, <2>4, <2>5 DEF HonestIndex
  <2>7. new[h.id].deleted = h.deleted
    BY <2>2, <2>4, Zenon
  <2>8. \A k \in DOMAIN idx : k # h.id => new[k].deleted = idx[k].deleted
    BY <2>3, <2>4, Zenon
  <2> QED
    BY <2>1, <2>5, <2>6, <2>7, <2>8 DEF PutIn
<1> QED
  BY <1>2, <1>3

\* the index without its headers up to `to'
CutUpTo(new, idx, to, L, M, t) ==
    /\ HonestIndex(new, L, M, t)
    /\ DOMAIN new = {k \in DOMAIN idx : k > to}
    /\ \A k \in DOMAIN new : new[k].deleted = idx[k].deleted

LEMMA DeleteUpToFacts ==
    ASSUME NEW idx, NEW L, NEW M, NEW t, NEW to,
           M \subseteq L, L \subseteq Ids, HonestIndex(idx, L, M, t), \A x \in L : x > to
    PROVE  CutUpTo(DeleteUpTo(idx, to), idx, to, L, M, t)
<1> DEFINE rest == {k \in DOMAIN idx : k > to}
           new(k) == IF to \in DOMAIN idx /\ IsNext(idx, to, k) /\ idx[k].prev = to
                     THEN [idx[k] EXCEPT !.prev = NoId] ELSE idx[k]
<1>1. ASSUME NEW k \in rest
      PROVE  new(k) \in Header /\ Honest(new(k), L, M, t) /\ new(k).id = k /\ new(k).deleted = idx[k].deleted
  <2>1. idx[k] \in Header /\ Honest(idx[k], L, M, t) /\ idx[k].id = k
    BY DEF HonestIndex
  <2> DEFINE g == [idx[k] EXCEPT !.prev = NoId]
  <2>2. NoId \in AnyId
    BY DEF AnyId
  <2>3. /\ g \in Header /\ g.id = idx[k].id /\ g.prev = NoId /\ g.known = idx[k].known
        /\ g.patch = idx[k].patch /\ g.deleted = idx[k].deleted
    BY <2>1, <2>2, OnlyPrevSet
  <2>4. ASSUME idx[k].prev = to PROVE Honest(g, L, M, t)
    <3> HIDE DEF g
    <3>1. g.prev < g.id /\ g.id <= t
      BY <2>1, <2>3, HeaderFields DEF NoId, Honest
    <3>2. (g.deleted => g.id \notin L) /\ (g.patch => g.deleted)
      BY <2>1, <2>3, Zenon DEF Honest
    <3>3. g.known => \A x \in M : ~(g.prev < x /\ x < g.id)
      BY <2>1, <2>3, <2>4 DEF Honest
    <3> QED
      BY <3>1, <3>2, <3>3 DEF Honest
  <2> QED
    BY <2>1, <2>3, <2>4
<1>2. DeleteUpTo(idx, to) = [k \in rest |-> new(k)]
  BY DEF DeleteUpTo
<1>3. rest \subseteq Ids
  BY DEF HonestIndex
<1> DEFINE n == [k \in rest |-> new(k)]
<1>4. DOMAIN n = rest /\ \A k \in rest : n[k] = new(k)
  OBVIOUS
<1> HIDE DEF new, n
<1>5. HonestIndex(n, L, M, t)
  BY <1>1, <1>3, <1>4 DEF HonestIndex
<1>6. \A k \in DOMAIN n : n[k].deleted = idx[k].deleted
  BY <1>1, <1>4, Zenon
<1> QED
  BY <1>2, <1>4, <1>5, <1>6 DEF CutUpTo, n

-----------------------------------------------------------------------------
(* Storing *)

\* f[n] is the index after the first n headers of the block
Inserting(idx, block, m, f) ==
    f = [n \in 0 .. m |->
            IF n = 0 THEN idx
            ELSE IF Fresh(idx, block[n]) THEN InsertHeader(f[n - 1], Trimmed(block[n]))
            ELSE f[n - 1]]

LEMMA InsertingExists ==
    ASSUME NEW idx, NEW block, NEW N \in Nat
    PROVE  \E f : Inserting(idx, block, N, f)
<1> DEFINE next(n, h) == IF Fresh(idx, block[n]) THEN InsertHeader(h, Trimmed(block[n])) ELSE h
           Step(m, f) == f = [n \in 0 .. m |-> IF n = 0 THEN idx ELSE next(n, f[n - 1])]
           T == {m \in Nat : ~\E f : Step(m, f)}
<1>1. ASSUME NEW m, NEW f PROVE Step(m, f) <=> Inserting(idx, block, m, f)
  BY DEF Inserting
<1> HIDE DEF next
<1>2. \E f : Step(0, f)
  <2> DEFINE f == [n \in 0 .. 0 |-> idx]
  <2>1. f = [n \in 0 .. 0 |-> IF n = 0 THEN idx ELSE next(n, f[n - 1])]
    OBVIOUS
  <2> QED
    BY <2>1
<1>3. ASSUME NEW m \in Nat, NEW f, Step(m, f) PROVE \E g : Step(m + 1, g)
  <2> DEFINE g == [n \in 0 .. m + 1 |-> IF n <= m THEN f[n] ELSE next(n, f[m])]
             h == [n \in 0 .. m + 1 |-> IF n = 0 THEN idx ELSE next(n, g[n - 1])]
  <2>1. ASSUME NEW n \in 0 .. m + 1 PROVE g[n] = IF n = 0 THEN idx ELSE next(n, g[n - 1])
    <3>1. CASE n = 0
      <4>1. f[0] = idx
        BY <1>3
      <4> QED
        BY <3>1, <4>1
    <3>2. CASE n \in 1 .. m
      <4>1. f[n] = next(n, f[n - 1])
        BY <1>3, <3>2
      <4>2. g[n] = f[n] /\ g[n - 1] = f[n - 1]
        BY <3>2
      <4> QED
        BY <3>2, <4>1, <4>2
    <3>3. CASE n = m + 1
      <4>1. g[n] = next(n, f[m]) /\ g[n - 1] = f[m]
        BY <3>3
      <4> QED
        BY <3>3, <4>1
    <3> QED
      BY <3>1, <3>2, <3>3
  <2>2. g = h
    BY <2>1
  <2> QED
    BY <2>2
<1>4. T = {}
  <2> SUFFICES ASSUME T # {} PROVE FALSE
    OBVIOUS
  <2>1. T \subseteq Nat
    OBVIOUS
  <2>2. PICK m \in T : \A k \in T : m <= k
    <3> HIDE DEF T
    <3> QED
      BY <2>1, LeastNat
  <2>3. m # 0 /\ m \in Nat
    BY <1>2
  <2>4. m - 1 \in Nat /\ m - 1 \notin T
    <3> HIDE DEF T
    <3> QED
      BY <2>2, <2>3
  <2>5. PICK f : Step(m - 1, f)
    BY <2>4
  <2> HIDE DEF Step
  <2>6. \E g : Step((m - 1) + 1, g)
    BY <1>3, <2>4, <2>5
  <2>7. (m - 1) + 1 = m
    BY <2>3
  <2> QED
    BY <2>2, <2>6, <2>7
<1>5. \E f : Step(N, f)
  BY <1>4
<1> HIDE DEF Step
<1> QED
  BY <1>1, <1>5

LEMMA InsertBlockIs ==
    ASSUME NEW idx, NEW block, Len(block) \in Nat
    PROVE  \E f : Inserting(idx, block, Len(block), f) /\ InsertBlock(idx, block) = f[Len(block)]
<1> DEFINE F == CHOOSE f : Inserting(idx, block, Len(block), f)
<1>1. Inserting(idx, block, Len(block), F)
  BY InsertingExists
<1>2. InsertBlock(idx, block) = F[Len(block)]
  BY DEF InsertBlock, Inserting
<1> HIDE DEF F
<1> QED
  BY <1>1, <1>2

LEMMA TrimmedFacts ==
    ASSUME NEW h \in Header, NEW L, NEW M, NEW t, M \subseteq L, L \subseteq Ids,
           Honest(h, L, L, t), del_up_to \in AnyId, \A x \in M : x > del_up_to
    PROVE  /\ Trimmed(h) \in Header /\ Honest(Trimmed(h), L, M, t)
           /\ Trimmed(h).id = h.id /\ Trimmed(h).deleted = h.deleted
<1>1. Honest(h, L, M, t)
  BY DEF Honest
<1>2. CASE h.prev <= del_up_to
  <2> DEFINE g == [h EXCEPT !.prev = NoId]
  <2>1. NoId \in AnyId
    BY DEF AnyId
  <2>2. /\ g \in Header /\ g.id = h.id /\ g.prev = NoId /\ g.known = h.known
        /\ g.patch = h.patch /\ g.deleted = h.deleted
    BY <2>1, OnlyPrevSet
  <2>3. Trimmed(h) = g
    BY <1>2 DEF Trimmed
  <2>4. h.prev \in Int /\ del_up_to \in Int
    BY HeaderFields, AnyIdIsInt
  <2> HIDE DEF g
  <2>5. g.prev < g.id /\ g.id <= t
    BY <2>2, HeaderFields DEF NoId, Honest
  <2>6. (g.deleted => g.id \notin L) /\ (g.patch => g.deleted)
    BY <2>2, Zenon DEF Honest
  <2>7. g.known => \A x \in M : ~(g.prev < x /\ x < g.id)
    <3>1. \A x \in M : x > h.prev
      BY <1>2, <2>4, IdsAreNat
    <3> QED
      BY <1>1, <2>2, <3>1 DEF Honest
  <2>8. Honest(g, L, M, t)
    BY <2>5, <2>6, <2>7 DEF Honest
  <2> QED
    BY <2>2, <2>3, <2>8
<1>3. CASE ~(h.prev <= del_up_to)
  BY <1>1, <1>3 DEF Trimmed
<1> QED
  BY <1>2, <1>3

LEMMA NotFresh ==
    ASSUME NEW idx, NEW m \in Header, ~Fresh(idx, m), del_up_to \in AnyId
    PROVE  m.id <= del_up_to \/ (m.id \in DOMAIN idx /\ m.patch = idx[m.id].patch)
<1>1. m.id \in Int /\ del_up_to \in Int
  BY HeaderFields, AnyIdIsInt
<1> QED
  BY <1>1 DEF Fresh, SkipDuplicate

\* of the first n headers of the block, put into the index, the last word about i is its deletion
Buried(idx, block, n, i) ==
    /\ \A k \in 1 .. n : block[k].id = i => block[k].deleted
    /\ \/ i \in DOMAIN idx /\ idx[i].deleted
       \/ i > del_up_to /\ \E k \in 1 .. n : block[k].id = i

\* what storing a block makes of the index
StoredIn(new, idx, block, n, L, M, t) ==
    /\ HonestIndex(new, L, M, t)
    /\ DOMAIN idx \subseteq DOMAIN new
    /\ \A i \in Ids : Buried(idx, block, n, i) => i \in DOMAIN new /\ new[i].deleted

LEMMA BuriedBefore ==
    ASSUME NEW idx, NEW L, NEW M, NEW t, NEW block, NEW n \in 1 .. Len(block), NEW i \in Ids,
           HonestIndex(idx, L, M, t), HonestBlock(block, L, t), del_up_to \in AnyId,
           Buried(idx, block, n, i), block[n].id = i => ~Fresh(idx, block[n])
    PROVE  Buried(idx, block, n - 1, i)
<1>1. block[n] \in Header /\ n \in Nat /\ Len(block) \in Nat
  BY DEF HonestBlock
<1>2. \A k \in 1 .. n - 1 : block[k].id = i => block[k].deleted
  BY <1>1 DEF Buried
<1>3. CASE i \in DOMAIN idx /\ idx[i].deleted
  BY <1>2, <1>3 DEF Buried
<1>4. CASE i > del_up_to /\ \E k \in 1 .. n : block[k].id = i
  <2>1. PICK k \in 1 .. n : block[k].id = i
    BY <1>4
  <2>2. CASE k = n
    <3>1. i \in DOMAIN idx /\ block[n].patch = idx[i].patch
      <4>1. i \in Int /\ del_up_to \in Int
        BY IdsAreNat, AnyIdIsInt
      <4> QED
        BY <1>1, <1>4, <2>1, <2>2, <4>1, NotFresh
    <3>2. block[n].deleted
      BY <1>1, <2>1, <2>2 DEF Buried
    <3>3. block[n].patch
      BY <1>1, <3>2 DEF HonestBlock
    <3>4. idx[i].patch
      BY <3>1, <3>3, Zenon
    <3>5. idx[i].deleted
      BY <3>1, <3>4 DEF HonestIndex, Honest
    <3> QED
      BY <1>2, <3>1, <3>5 DEF Buried
  <2>3. CASE k # n
    BY <1>1, <1>2, <1>4, <2>1, <2>3 DEF Buried
  <2> QED
    BY <2>2, <2>3
<1> QED
  BY <1>3, <1>4 DEF Buried

LEMMA InsertBlockFacts ==
    ASSUME NEW idx, NEW L, NEW M, NEW t, NEW block, M \subseteq L, L \subseteq Ids,
           HonestIndex(idx, L, M, t), HonestBlock(block, L, t),
           del_up_to \in AnyId, \A x \in M : x > del_up_to
    PROVE  StoredIn(InsertBlock(idx, block), idx, block, Len(block), L, M, t)
<1>1. Len(block) \in Nat /\ \A n \in 1 .. Len(block) : block[n] \in Header /\ Honest(block[n], L, L, t)
  BY DEF HonestBlock
<1>2. PICK f : Inserting(idx, block, Len(block), f) /\ InsertBlock(idx, block) = f[Len(block)]
  BY <1>1, InsertBlockIs
<1> DEFINE next(n, h) == IF Fresh(idx, block[n]) THEN InsertHeader(h, Trimmed(block[n])) ELSE h
           P(n) == StoredIn(f[n], idx, block, n, L, M, t)
           T == {n \in 0 .. Len(block) : ~P(n)}
<1>3. f[0] = idx /\ \A n \in 1 .. Len(block) : f[n] = next(n, f[n - 1])
  <2>1. f = [n \in 0 .. Len(block) |-> IF n = 0 THEN idx ELSE next(n, f[n - 1])]
    BY <1>2 DEF Inserting
  <2> HIDE DEF next
  <2> QED
    BY <1>1, <2>1
<1>4. P(0)
  <2>1. \A i \in Ids : Buried(idx, block, 0, i) => i \in DOMAIN idx /\ idx[i].deleted
    BY DEF Buried
  <2> QED
    BY <1>3, <2>1 DEF StoredIn
<1>5. ASSUME NEW n \in 1 .. Len(block), P(n - 1) PROVE P(n)
  <2> DEFINE g == f[n - 1]
             b == block[n]
  <2>0. StoredIn(g, idx, block, n - 1, L, M, t) /\ f[n] = next(n, g) /\ b \in Header
    BY <1>1, <1>3, <1>5
  <2>1. CASE Fresh(idx, b)
    <3> DEFINE h == Trimmed(b)
               new == InsertHeader(g, h)
    <3>1. h \in Header /\ Honest(h, L, M, t) /\ h.id = b.id /\ h.deleted = b.deleted
      BY <1>1, TrimmedFacts
    <3>2. HonestIndex(g, L, M, t)
      BY <2>0 DEF StoredIn
    <3>3. PutIn(new, g, h, L, M, t)
      <4> HIDE DEF g, h
      <4> QED
        BY <3>1, <3>2, InsertFacts
    <3>4. f[n] = new
      BY <2>0, <2>1
    <3> HIDE DEF new, h, g
    <3>5. DOMAIN idx \subseteq DOMAIN new
      BY <2>0, <3>3 DEF StoredIn, PutIn
    <3>6. ASSUME NEW i \in Ids, Buried(idx, block, n, i) PROVE i \in DOMAIN new /\ new[i].deleted
      <4>1. CASE i = b.id
        <5>1. b.deleted
          BY <1>1, <3>6, <4>1 DEF Buried
        <5>2. i = h.id /\ h.deleted
          BY <3>1, <4>1, <5>1, Zenon
        <5>3. h.id \in DOMAIN new
          BY <3>3 DEF PutIn
        <5>4. new[h.id].deleted = h.deleted
          BY <3>3, Zenon DEF PutIn
        <5> QED
          BY <5>2, <5>3, <5>4, Zenon
      <4>2. CASE i # b.id
        <5>1. Buried(idx, block, n - 1, i)
          BY <3>6, <4>2, BuriedBefore
        <5>2. i \in DOMAIN g /\ g[i].deleted
          BY <2>0, <5>1 DEF StoredIn
        <5>3. i \in DOMAIN new
          BY <3>3, <5>2 DEF PutIn
        <5>4. i # h.id
          BY <3>1, <4>2
        <5>5. new[i].deleted = g[i].deleted
          BY <3>3, <5>2, <5>4, Zenon DEF PutIn
        <5> QED
          BY <5>2, <5>3, <5>5, Zenon
      <4> QED
        BY <4>1, <4>2
    <3>7. HonestIndex(new, L, M, t)
      BY <3>3 DEF PutIn
    <3>8. StoredIn(new, idx, block, n, L, M, t)
      BY <3>5, <3>6, <3>7 DEF StoredIn
    <3> QED
      BY <3>4, <3>8
  <2>2. CASE ~Fresh(idx, b)
    <3>1. f[n] = g
      BY <2>0, <2>2
    <3>2. \A i \in Ids : Buried(idx, block, n, i) => Buried(idx, block, n - 1, i)
      BY <2>2, BuriedBefore
    <3> HIDE DEF g
    <3>3. StoredIn(g, idx, block, n, L, M, t)
      BY <2>0, <3>2 DEF StoredIn
    <3> QED
      BY <3>1, <3>3
  <2> QED
    BY <2>1, <2>2
<1>6. T = {}
  <2> SUFFICES ASSUME T # {} PROVE FALSE
    OBVIOUS
  <2>1. T \subseteq Nat
    BY <1>1
  <2>2. PICK m \in T : \A k \in T : m <= k
    <3> HIDE DEF T
    <3> QED
      BY <2>1, LeastNat
  <2> HIDE DEF P
  <2>3. m \in 1 .. Len(block)
    BY <1>1, <1>4, <2>2
  <2>4. m - 1 \in 0 .. Len(block) /\ ~(m <= m - 1)
    BY <1>1, <2>3
  <2>5. P(m - 1)
    BY <2>2, <2>4
  <2> QED
    BY <1>5, <2>2, <2>3, <2>5
<1>7. P(Len(block))
  <2> HIDE DEF P
  <2> QED
    BY <1>1, <1>6
<1> QED
  BY <1>2, <1>7

LEMMA StoredFacts ==
    ASSUME NEW idx, NEW L, NEW M, NEW t, NEW block, M \subseteq L, L \subseteq Ids,
           HonestIndex(idx, L, M, t), HonestBlock(block, L, t),
           del_up_to \in AnyId, \A x \in M : x > del_up_to /\ x \notin DOMAIN idx,
           NEW from \in AnyId, NEW older,
           older = NoId /\ from # NoId
               => \A x \in L : x < from => \E n \in 1 .. Len(block) : block[n].id = x
    PROVE  StoredIn(Stored(idx, block, from, older), idx, block, Len(block), L, M, t)
<1> DEFINE oldest == /\ \A m \in Range(block) : ~Fresh(idx, m)
                     /\ from # NoId /\ older = NoId
                     /\ from \in DOMAIN idx /\ ~idx[from].patch
<1>1. Len(block) \in Nat /\ \A n \in 1 .. Len(block) : block[n] \in Header
  BY DEF HonestBlock
<1>2. CASE oldest
  <2> DEFINE e == idx[from]
             h == [e EXCEPT !.prev = NoId, !.known = TRUE]
             new == InsertHeader(idx, h)
  <2>1. Stored(idx, block, from, older) = new
    BY <1>2 DEF Stored
  <2>2. e \in Header /\ e.id = from /\ Honest(e, L, M, t)
    BY <1>2 DEF HonestIndex
  <2>3. \A n \in 1 .. Len(block) : ~Fresh(idx, block[n])
    <3>1. DOMAIN block = 1 .. Len(block)
      BY DEF HonestBlock
    <3> QED
      BY <1>2, <3>1 DEF Range
  <2>4. from # NoId /\ older = NoId /\ from \in DOMAIN idx
    BY <1>2
  <2>5. ASSUME NEW x \in M PROVE ~(x < from)
    <3> SUFFICES ASSUME x < from PROVE FALSE
      OBVIOUS
    <3>1. PICK n \in 1 .. Len(block) : block[n].id = x
      BY <2>4
    <3>2. x <= del_up_to \/ x \in DOMAIN idx
      BY <1>1, <2>3, <3>1, NotFresh
    <3>3. x \in Int /\ del_up_to \in Int
      BY IdsAreNat, AnyIdIsInt
    <3> QED
      BY <3>2, <3>3
  <2> HIDE DEF e
  <2>6. /\ h \in Header /\ h.id = from /\ h.prev = NoId /\ h.known = TRUE
        /\ h.patch = e.patch /\ h.deleted = e.deleted
    BY <2>2 DEF Header, NoId
  <2> HIDE DEF h
  <2>7. Honest(h, L, M, t)
    <3>1. h.prev < h.id /\ h.id <= t
      BY <2>2, <2>6, HeaderFields DEF Honest, NoId
    <3>2. (h.deleted => h.id \notin L) /\ (h.patch => h.deleted)
      BY <2>2, <2>6, Zenon DEF Honest
    <3>3. h.known => \A x \in M : ~(h.prev < x /\ x < h.id)
      BY <2>5, <2>6
    <3> QED
      BY <3>1, <3>2, <3>3 DEF Honest
  <2>8. PutIn(new, idx, h, L, M, t)
    BY <2>6, <2>7, InsertFacts
  <2> HIDE DEF new
  <2>9. DOMAIN new = DOMAIN idx
    BY <2>4, <2>6, <2>8 DEF PutIn
  <2>10. ASSUME NEW i \in Ids, Buried(idx, block, Len(block), i) PROVE i \in DOMAIN new /\ new[i].deleted
    <3>1. i \in DOMAIN idx /\ idx[i].deleted
      <4>1. CASE i \in DOMAIN idx /\ idx[i].deleted
        BY <4>1
      <4>2. CASE i > del_up_to /\ \E k \in 1 .. Len(block) : block[k].id = i
        <5>1. PICK k \in 1 .. Len(block) : block[k].id = i
          BY <4>2
        <5>2. block[k].deleted
          BY <2>10, <5>1 DEF Buried
        <5>3. block[k].patch
          BY <5>2 DEF HonestBlock
        <5>4. i \in DOMAIN idx /\ block[k].patch = idx[i].patch
          <6>1. i \in Int /\ del_up_to \in Int
            BY IdsAreNat, AnyIdIsInt
          <6> QED
            BY <1>1, <2>3, <4>2, <5>1, <6>1, NotFresh
        <5>5. idx[i].patch
          BY <5>3, <5>4, Zenon
        <5> QED
          BY <5>4, <5>5 DEF HonestIndex, Honest
      <4> QED
        BY <2>10, <4>1, <4>2 DEF Buried
    <3>2. CASE i = from
      <4>1. new[from].deleted = e.deleted
        <5>1. new[h.id].deleted = h.deleted
          BY <2>8, Zenon DEF PutIn
        <5> QED
          BY <2>6, <5>1, Zenon
      <4>2. e.deleted
        BY <3>1, <3>2 DEF e
      <4> QED
        BY <2>4, <2>9, <3>2, <4>1, <4>2, Zenon
    <3>3. CASE i # from
      <4>1. i # h.id
        BY <2>6, <3>3
      <4>2. new[i].deleted = idx[i].deleted
        BY <2>8, <3>1, <4>1, Zenon DEF PutIn
      <4> QED
        BY <2>9, <3>1, <4>2, Zenon
    <3> QED
      BY <3>2, <3>3
  <2>11. StoredIn(new, idx, block, Len(block), L, M, t)
    BY <2>8, <2>9, <2>10 DEF StoredIn, PutIn
  <2> QED
    BY <2>1, <2>11
<1>3. CASE ~oldest
  <2>1. Stored(idx, block, from, older) = InsertBlock(idx, block)
    BY <1>3 DEF Stored
  <2>2. StoredIn(InsertBlock(idx, block), idx, block, Len(block), L, M, t)
    BY InsertBlockFacts
  <2> QED
    BY <2>1, <2>2
<1> QED
  BY <1>2, <1>3

-----------------------------------------------------------------------------
(* What comes from the server *)

LEMMA NoHeaders == ASSUME NEW L, NEW t PROVE HonestBlock(<<>>, L, t)
BY DEF HonestBlock

LEMMA OlderThanFacts ==
    ASSUME live \subseteq Ids, NEW i
    PROVE  /\ OlderThan(i) \in AnyId
           /\ OlderThan(i) = NoId \/ (OlderThan(i) \in live /\ OlderThan(i) < i)
           /\ \A x \in live : x < i => x <= OlderThan(i)
<1> DEFINE S == {x \in live : x < i}
<1>1. S \subseteq Ids
  OBVIOUS
<1>2. OlderThan(i) = Newest(S)
  BY DEF OlderThan
<1>3. \A x \in live : x < i <=> x \in S
  OBVIOUS
<1>4. \A x \in S : x \in live /\ x < i
  OBVIOUS
<1> HIDE DEF S
<1>5. Newest(S) \in AnyId /\ (Newest(S) = NoId \/ Newest(S) \in S) /\ \A x \in S : x <= Newest(S)
  BY <1>1, NewestFacts
<1> QED
  BY <1>2, <1>3, <1>4, <1>5

\* A page of live messages without gaps, linked to the one before, is honest.
LEMMA LiveBlock ==
    ASSUME NEW L, L \subseteq Ids, NEW t, \A x \in L : x <= t,
           NEW page, page \subseteq L, NEW older \in AnyId, \A i \in page : older < i,
           \A x \in L, i \in page, j \in page : i < x /\ x < j => x \in page,
           \A x \in L : page # {} /\ (\A i \in page : x < i) => x <= older
    PROVE  HonestBlock(Block(page, older), L, t) /\ BlockOf(Block(page, older), page, older)
<1> DEFINE b == Block(page, older)
<1>1. page \subseteq Ids
  OBVIOUS
<1>2. BlockOf(b, page, older)
  BY <1>1, BlockFacts
<1> HIDE DEF b
<1>3. ASSUME NEW n \in 1 .. Len(b) PROVE Honest(b[n], L, L, t)
  <2>1. /\ b[n] \in Header /\ b[n].id \in page /\ b[n].prev < b[n].id
        /\ b[n].patch = FALSE /\ b[n].deleted = FALSE
        /\ b[n].prev \in page \/ (b[n].prev = older /\ \A j \in page : b[n].id <= j)
        /\ \A j \in page : ~(b[n].prev < j /\ j < b[n].id)
    BY <1>2 DEF BlockOf
  <2>2. ASSUME NEW x \in L, b[n].prev < x, x < b[n].id PROVE FALSE
    <3>1. x \notin page
      BY <2>1, <2>2
    <3>2. CASE b[n].prev \in page
      BY <2>1, <2>2, <3>1, <3>2
    <3>3. CASE b[n].prev = older /\ \A j \in page : b[n].id <= j
      <4>1. \A j \in page : x < j
        BY <2>1, <2>2, <3>3, IdsAreNat
      <4>2. x <= older
        BY <2>1, <4>1
      <4> QED
        BY <2>2, <3>3, <4>2, IdsAreNat, AnyIdIsInt
    <3> QED
      BY <2>1, <3>2, <3>3
  <2> QED
    BY <2>1, <2>2 DEF Honest
<1>4. HonestBlock(b, L, t)
  BY <1>2, <1>3 DEF HonestBlock, BlockOf
<1> QED
  BY <1>2, <1>4 DEF b

\* The newest message, with the link to the one before it.
LEMMA NewestBlock ==
    ASSUME live \subseteq Ids, \A x \in live : x <= top, NEW i \in live
    PROVE  HonestBlock(Block({i}, OlderThan(i)), live, top)
<1>1. /\ OlderThan(i) \in AnyId /\ (OlderThan(i) = NoId \/ OlderThan(i) < i)
      /\ \A x \in live : x < i => x <= OlderThan(i)
  BY OlderThanFacts
<1>2. OlderThan(i) < i
  BY <1>1, IdsAreNat DEF NoId
<1>3. \A x \in live, j \in {i}, k \in {i} : j < x /\ x < k => x \in {i}
  BY IdsAreNat
<1>4. \A x \in live : {i} # {} /\ (\A j \in {i} : x < j) => x <= OlderThan(i)
  BY <1>1
<1>5. {i} \subseteq live /\ \A j \in {i} : OlderThan(i) < j
  BY <1>2
<1> DEFINE page == {i}
<1> HIDE DEF page
<1> QED
  BY <1>1, <1>3, <1>4, <1>5, LiveBlock DEF page

\* the deletions since a version, as an answer brings them
DeletionsSince(v) ==
    LET deleted == SubSeq(patches, v + 1, Len(patches))
    IN  [n \in DOMAIN deleted |-> Patch(deleted[n], "deleted")]

LEMMA DeletionsFacts ==
    ASSUME ServerInv, NEW v \in Nat, v <= Len(patches)
    PROVE  /\ HonestBlock(DeletionsSince(v), live, top)
           /\ \A k \in 1 .. Len(DeletionsSince(v)) :
                 DeletionsSince(v)[k].id \notin live /\ DeletionsSince(v)[k].patch = TRUE
           /\ \A n \in v + 1 .. Len(patches) :
                 \E k \in 1 .. Len(DeletionsSince(v)) : DeletionsSince(v)[k].id = patches[n]
<1> DEFINE d == SubSeq(patches, v + 1, Len(patches))
           b == [n \in DOMAIN d |-> Patch(d[n], "deleted")]
<1>0. DeletionsSince(v) = b
  BY DEF DeletionsSince
<1>1. /\ patches \in Seq(Ids) /\ Len(patches) \in Nat
      /\ \A n \in 1 .. Len(patches) : patches[n] \in Ids /\ patches[n] \notin live /\ patches[n] <= top
      /\ top \in Nat /\ live \subseteq Ids
  BY DEF ServerInv
<1>2. d \in Seq(Ids) /\ Len(d) = Len(patches) - v /\ \A k \in 1 .. Len(d) : d[k] = patches[v + k]
  BY <1>1
<1>3. \A k \in 1 .. Len(d) : v + k \in 1 .. Len(patches)
  BY <1>1, <1>2
<1>4. \A k \in 1 .. Len(d) : d[k] \in Ids /\ d[k] \notin live /\ d[k] <= top
  BY <1>1, <1>2, <1>3
<1>5. \A n \in v + 1 .. Len(patches) : n - v \in 1 .. Len(d) /\ v + (n - v) = n
  BY <1>1, <1>2
<1> HIDE DEF d
<1>6. b \in Seq(Header) /\ Len(b) = Len(d) /\ \A k \in 1 .. Len(d) : b[k] = Patch(d[k], "deleted")
  <2>1. DOMAIN d = 1 .. Len(d) /\ Len(d) \in Nat
    BY <1>2
  <2>2. \A k \in 1 .. Len(d) : Patch(d[k], "deleted") \in Header
    BY <1>4, PatchFacts
  <2> QED
    BY <2>1, <2>2
<1> HIDE DEF b
<1>7. ASSUME NEW k \in 1 .. Len(b)
      PROVE  /\ b[k] \in Header /\ b[k].id = d[k] /\ b[k].prev = NoId /\ b[k].known = FALSE
             /\ b[k].patch = TRUE /\ b[k].deleted = TRUE
  <2>1. PICK i \in Ids : i = d[k]
    BY <1>4, <1>6
  <2>2. b[k] = Patch(i, "deleted")
    BY <1>6, <2>1
  <2>3. /\ Patch(i, "deleted") \in Header
        /\ Patch(i, "deleted").id = i /\ Patch(i, "deleted").prev = NoId
        /\ Patch(i, "deleted").known = FALSE /\ Patch(i, "deleted").patch = TRUE
        /\ Patch(i, "deleted").deleted = TRUE
    BY PatchFacts
  <2> QED
    BY <2>1, <2>2, <2>3, Zenon
<1>8. ASSUME NEW k \in 1 .. Len(b) PROVE Honest(b[k], live, live, top)
  <2>1. d[k] \in Ids /\ d[k] \notin live /\ d[k] <= top
    BY <1>4, <1>6
  <2>2. NoId < d[k]
    BY <2>1, IdsAreNat DEF NoId
  <2>3. b[k].prev < b[k].id /\ b[k].id <= top
    BY <1>7, <2>1, <2>2
  <2> QED
    BY <1>7, <2>1, <2>3 DEF Honest
<1>9. HonestBlock(b, live, top)
  BY <1>6, <1>7, <1>8 DEF HonestBlock
<1>10. \A k \in 1 .. Len(b) : b[k].id \notin live /\ b[k].patch = TRUE
  BY <1>4, <1>6, <1>7
<1>11. \A n \in v + 1 .. Len(patches) : \E k \in 1 .. Len(b) : b[k].id = patches[n]
  <2> TAKE n \in v + 1 .. Len(patches)
  <2>1. n - v \in 1 .. Len(b) /\ d[n - v] = patches[n]
    BY <1>2, <1>5, <1>6
  <2>2. b[n - v].id = patches[n]
    BY <1>7, <2>1
  <2> QED
    BY <2>1, <2>2
<1> QED
  BY <1>0, <1>9, <1>10, <1>11

\* c is the headers of a and then those of b
JoinOf(c, a, b) ==
    /\ \A n \in 1 .. Len(a) : n \in 1 .. Len(c) /\ c[n] = a[n]
    /\ \A n \in 1 .. Len(b) : Len(a) + n \in 1 .. Len(c) /\ c[Len(a) + n] = b[n]
    /\ \A n \in 1 .. Len(c) : \/ n \in 1 .. Len(a) /\ c[n] = a[n]
                              \/ n - Len(a) \in 1 .. Len(b) /\ c[n] = b[n - Len(a)]

LEMMA JoinFacts ==
    ASSUME NEW a \in Seq(Header), NEW b \in Seq(Header)
    PROVE  a \o b \in Seq(Header) /\ JoinOf(a \o b, a, b)
<1> DEFINE c == a \o b
<1>1. /\ c \in Seq(Header) /\ Len(c) = Len(a) + Len(b) /\ Len(a) \in Nat /\ Len(b) \in Nat
      /\ \A n \in 1 .. Len(a) + Len(b) : c[n] = IF n <= Len(a) THEN a[n] ELSE b[n - Len(a)]
  OBVIOUS
<1> HIDE DEF c
<1>2. \A n \in 1 .. Len(a) : n \in 1 .. Len(c) /\ c[n] = a[n]
  BY <1>1
<1>3. ASSUME NEW n \in 1 .. Len(b) PROVE Len(a) + n \in 1 .. Len(c) /\ c[Len(a) + n] = b[n]
  <2> DEFINE i == Len(a) + n
  <2>1. i \in 1 .. Len(a) + Len(b) /\ ~(i <= Len(a)) /\ i - Len(a) = n
    BY <1>1
  <2> HIDE DEF i
  <2>2. i \in 1 .. Len(c) /\ c[i] = b[n]
    BY <1>1, <2>1
  <2> QED
    BY <2>2 DEF i
<1>4. ASSUME NEW n \in 1 .. Len(c)
      PROVE  \/ n \in 1 .. Len(a) /\ c[n] = a[n]
             \/ n - Len(a) \in 1 .. Len(b) /\ c[n] = b[n - Len(a)]
  BY <1>1
<1> QED
  BY <1>1, <1>2, <1>3, <1>4 DEF JoinOf, c

LEMMA JoinedBlocks ==
    ASSUME NEW a, NEW b, NEW L, NEW t, HonestBlock(a, L, t), HonestBlock(b, L, t),
           \A n \in 1 .. Len(a) : a[n].id \in L, \A n \in 1 .. Len(b) : b[n].id \notin L
    PROVE  HonestBlock(a \o b, L, t) /\ JoinOf(a \o b, a, b)
<1> DEFINE c == a \o b
<1>1. a \in Seq(Header) /\ b \in Seq(Header)
  BY DEF HonestBlock
<1>2. c \in Seq(Header) /\ JoinOf(c, a, b)
  BY <1>1, JoinFacts
<1> HIDE DEF c
<1>3. ASSUME NEW n \in 1 .. Len(c) PROVE Honest(c[n], L, L, t) /\ (c[n].deleted => c[n].patch)
  <2>1. CASE n \in 1 .. Len(a) /\ c[n] = a[n]
    BY <2>1 DEF HonestBlock
  <2>2. CASE n - Len(a) \in 1 .. Len(b) /\ c[n] = b[n - Len(a)]
    <3>1. PICK k \in 1 .. Len(b) : c[n] = b[k]
      BY <2>2
    <3> QED
      BY <3>1 DEF HonestBlock
  <2> QED
    BY <1>2, <2>1, <2>2 DEF JoinOf
<1>4. ASSUME NEW m \in 1 .. Len(c), NEW n \in 1 .. Len(c), c[m].id = c[n].id, c[n].deleted PROVE c[m].deleted
  <2> DEFINE Left(i) == \E k \in 1 .. Len(a) : c[i] = a[k]
             Right(i) == \E k \in 1 .. Len(b) : c[i] = b[k]
  <2>1. \A i \in 1 .. Len(c) : Left(i) \/ Right(i)
    BY <1>2 DEF JoinOf
  <2>2. \A i \in 1 .. Len(c) : (Left(i) => c[i].id \in L) /\ (Right(i) => c[i].id \notin L)
    OBVIOUS
  <2>3. CASE Left(m) /\ Left(n)
    <3>1. PICK k \in 1 .. Len(a), l \in 1 .. Len(a) : c[m] = a[k] /\ c[n] = a[l]
      BY <2>3
    <3>2. a[k].id = a[l].id /\ a[l].deleted
      BY <1>4, <3>1
    <3>3. a[k].deleted
      BY <3>2 DEF HonestBlock
    <3> QED
      BY <3>1, <3>3
  <2>4. CASE Right(m) /\ Right(n)
    <3>1. PICK k \in 1 .. Len(b), l \in 1 .. Len(b) : c[m] = b[k] /\ c[n] = b[l]
      BY <2>4
    <3>2. b[k].id = b[l].id /\ b[l].deleted
      BY <1>4, <3>1
    <3>3. b[k].deleted
      BY <3>2 DEF HonestBlock
    <3> QED
      BY <3>1, <3>3
  <2> HIDE DEF Left, Right
  <2> QED
    BY <1>4, <2>1, <2>2, <2>3, <2>4
<1>5. HonestBlock(c, L, t)
  BY <1>2, <1>3, <1>4 DEF HonestBlock
<1> QED
  BY <1>2, <1>5 DEF c

\* A page of the newest of some ids has all that are newer than one of it.
LEMMA PageFacts ==
    ASSUME NEW inside, inside \subseteq Ids, NEW size \in Nat \ {0},
           NEW page, page = {x \in inside : Cardinality({y \in inside : y > x}) < size}
    PROVE  /\ page \subseteq inside
           /\ \A x \in page, y \in inside : y > x => y \in page
           /\ page = {} => inside = {}
<1> DEFINE above(x) == {y \in inside : y > x}
<1>1. \A x \in inside : x \in page <=> Cardinality(above(x)) < size
  OBVIOUS
<1>2. \A x \in inside : above(x) \subseteq Ids /\ Cardinality(above(x)) \in Nat /\ x \in Nat
  BY FiniteIds, IdsAreNat
<1>3. \A x \in inside : x \in Nat
  BY <1>2
<1>4. ASSUME NEW x \in page, NEW y \in inside, y > x PROVE y \in page
  <2>1. x \in inside /\ Cardinality(above(x)) < size
    BY <1>1
  <2>2. above(y) \subseteq above(x) /\ y \in above(x) /\ y \notin above(y)
    BY <1>4, <1>3, <2>1
  <2>3. above(x) \subseteq Ids
    BY <1>2, <2>1
  <2> HIDE DEF above
  <2>4. Cardinality(above(y)) < Cardinality(above(x))
    BY <2>2, <2>3, SmallerSet
  <2> QED
    BY <1>1, <1>2, <2>1, <2>4
<1>5. ASSUME inside # {} PROVE page # {}
  <2>1. Max(inside) \in inside /\ \A y \in inside : y <= Max(inside)
    BY <1>5, MaxFacts
  <2> DEFINE m == Max(inside)
  <2> HIDE DEF m
  <2>2. m \in inside /\ \A y \in inside : ~(y > m)
    BY <1>3, <2>1 DEF m
  <2>3. above(m) = {}
    BY <2>2
  <2>4. Cardinality(above(m)) = 0
    BY <2>3, FS_EmptySet
  <2> QED
    BY <1>1, <2>2, <2>4
<1> QED
  BY <1>4, <1>5

-----------------------------------------------------------------------------
(* The chains *)

LEMMA ChainFields ==
    ASSUME NEW X \in ChainState
    PROVE  /\ X.stage \in Stages /\ X.request \in Requests /\ X.hole \in Holes
           /\ X.version \in Nat /\ X.tail \in Int /\ X.block \in Seq(Header)
           /\ X.older \in AnyId /\ X.last \in AnyId
           /\ X.request.from \in AnyId /\ X.request.depth \in Int /\ X.request.recursion \in Int
           /\ X.hole.from \in AnyId /\ X.hole.to \in AnyId /\ X.hole.depth \in Int
BY DEF ChainState, Requests, Holes, AnyId

\* the chain c, and no other, becomes X
Becomes(c, X) ==
    /\ X \in ChainState /\ X.version <= Len(patches) /\ ChainOK(X)
    /\ chain' = [chain EXCEPT ![c] = X]

\* the messages of an answer are older than the one it was asked from, and without any, of a hole
\* with no lower end, there is none that is older
PageOK(ch) ==
    ch.stage \in {"answered", "store"} /\ ch.hole.from # NoId =>
        /\ \A n \in 1 .. Len(ch.block) : ~ch.block[n].patch => ch.block[n].id < ch.hole.from
        /\ ch.hole.to = NoId /\ (\A n \in 1 .. Len(ch.block) : ch.block[n].patch) => ch.older = NoId

\* what the answer to the chain ch is
AnswerTo(X, ch) ==
    /\ PageOK(X)
    /\ X.stage = "answered" /\ X.version = Len(patches)
    /\ X.request = ch.request /\ X.hole = ch.hole
    /\ \A n \in ch.version + 1 .. Len(patches) :
          \E k \in 1 .. Len(X.block) : X.block[k].patch /\ X.block[k].id = patches[n]

LEMMA AnswerFacts ==
    ASSUME ServerInv, ChainInv, NEW c \in Chains, Answer(c)
    PROVE  chain[c].stage = "asked" /\ \E X : Becomes(c, X) /\ AnswerTo(X, chain[c])
<1> DEFINE ch == chain[c]
           hole == ch.hole
           size == IF IsSingle(c) THEN 1 ELSE PageSize
           inside == {x \in live : x > hole.to /\ (hole.from = NoId \/ x < hole.from)}
           page == {x \in inside : Cardinality({y \in inside : y > x}) < size}
           below == IF page # {} THEN Min(page) ELSE IF hole.from = NoId THEN top + 1 ELSE hole.from
           told == Block(page, OlderThan(below))
           gone == DeletionsSince(ch.version)
           X == [ch EXCEPT !.stage = "answered", !.version = Len(patches), !.older = OlderThan(below),
                           !.last = Newest(live), !.block = told \o gone]
<1>1. /\ ch \in ChainState /\ ch.version <= Len(patches) /\ ChainOK(ch) /\ ch.stage = "asked"
      /\ chain \in [Chains -> ChainState]
  BY DEF ChainInv, Answer
<1>2. /\ ch.request \in Requests /\ ch.version \in Nat /\ hole \in Holes
      /\ hole.from \in AnyId /\ hole.to \in AnyId /\ hole.from \in Int /\ hole.to \in Int
  BY <1>1, ChainFields, AnyIdIsInt
<1>3. chain' = [chain EXCEPT ![c] = X]
  BY <1>1 DEF Answer, DeletionsSince
<1>4. /\ live \subseteq Ids /\ top \in Nat /\ patches \in Seq(Ids) /\ Len(patches) \in Nat
      /\ \A x \in live : x \in Nat /\ x <= top
  BY DEF ServerInv
<1>5. size \in Nat \ {0}
  BY HolesAssumption
<1>6. /\ page \subseteq inside
      /\ \A x \in page, y \in inside : y > x => y \in page
      /\ page = {} => inside = {}
  <2>1. inside \subseteq Ids
    BY <1>4
  <2>2. page = {x \in inside : Cardinality({y \in inside : y > x}) < size}
    OBVIOUS
  <2> HIDE DEF inside, page, size
  <2> QED
    BY <1>5, <2>1, <2>2, PageFacts
<1>7. \A x : x \in inside <=> x \in live /\ x > hole.to /\ (hole.from = NoId \/ x < hole.from)
  OBVIOUS
<1>8. page # {} => below = Min(page)
  OBVIOUS
<1>9. page = {} /\ hole.from # NoId => below = hole.from
  OBVIOUS
<1>10. page \subseteq live /\ page \subseteq Ids
  BY <1>4, <1>6, <1>7
<1> HIDE DEF inside, page, size, below
<1>11. page # {} => below \in page /\ \A i \in page : below <= i
  BY <1>8, <1>10, MinFacts
<1>12. /\ OlderThan(below) \in AnyId
       /\ OlderThan(below) = NoId \/ (OlderThan(below) \in live /\ OlderThan(below) < below)
       /\ \A x \in live : x < below => x <= OlderThan(below)
  BY <1>4, OlderThanFacts
<1>13. HonestBlock(told, live, top) /\ BlockOf(told, page, OlderThan(below))
  <2>1. \A i \in page : OlderThan(below) < i
    <3> TAKE i \in page
    <3>1. i \in Nat /\ i # 0 /\ below \in Nat /\ below # 0 /\ below <= i
      BY <1>10, <1>11, IdsAreNat
    <3>2. OlderThan(below) < below /\ OlderThan(below) \in Int
      BY <1>12, <3>1, AnyIdIsInt DEF NoId
    <3> QED
      BY <3>1, <3>2
  <2>2. ASSUME NEW x \in live, NEW i \in page, NEW j \in page, i < x, x < j PROVE x \in page
    <3>1. i \in inside /\ j \in inside /\ i \in Nat /\ j \in Nat /\ x \in Nat
      BY <1>4, <1>6, <1>10
    <3>2. x > hole.to /\ (hole.from = NoId \/ x < hole.from)
      BY <1>2, <1>7, <2>2, <3>1
    <3>3. x \in inside /\ x > i
      BY <1>7, <2>2, <3>1, <3>2
    <3> QED
      BY <1>6, <3>3
  <2>3. \A x \in live : page # {} /\ (\A i \in page : x < i) => x <= OlderThan(below)
    BY <1>11, <1>12
  <2>4. \A x \in live : x <= top
    BY <1>4
  <2> DEFINE older == OlderThan(below)
  <2> HIDE DEF older
  <2>5. /\ older \in AnyId /\ (\A i \in page : older < i)
        /\ \A x \in live : page # {} /\ (\A i \in page : x < i) => x <= older
    BY <1>12, <2>1, <2>3 DEF older
  <2>6. \A x \in live, i \in page, j \in page : i < x /\ x < j => x \in page
    BY <2>2
  <2> QED
    BY <1>4, <1>10, <2>4, <2>5, <2>6, LiveBlock DEF older
<1>14. /\ HonestBlock(gone, live, top)
       /\ \A k \in 1 .. Len(gone) : gone[k].id \notin live /\ gone[k].patch = TRUE
       /\ \A n \in ch.version + 1 .. Len(patches) : \E k \in 1 .. Len(gone) : gone[k].id = patches[n]
  <2> HIDE DEF ch
  <2> QED
    BY <1>1, <1>2, DeletionsFacts
<1> HIDE DEF told, gone
<1>15. HonestBlock(told \o gone, live, top) /\ JoinOf(told \o gone, told, gone)
  <2>1. \A n \in 1 .. Len(told) : told[n].id \in live
    BY <1>10, <1>13 DEF BlockOf
  <2> QED
    BY <1>13, <1>14, <2>1, JoinedBlocks
<1> DEFINE block == told \o gone
           older == OlderThan(below)
<1> HIDE DEF ch
<1>16. Newest(live) \in AnyId
  BY <1>4, NewestFacts
<1>17. /\ X \in ChainState /\ X.stage = "answered" /\ X.version = Len(patches) /\ X.older = older
       /\ X.block = block /\ X.request = ch.request /\ X.hole = hole /\ X.tail = ch.tail
  <2>1. block \in Seq(Header)
    BY <1>15 DEF HonestBlock
  <2>2. older \in AnyId
    BY <1>12
  <2> DEFINE newest == Newest(live)
  <2>3. X = [ch EXCEPT !.stage = "answered", !.version = Len(patches), !.older = older,
                       !.last = newest, !.block = block]
    OBVIOUS
  <2> HIDE DEF X, block, older, newest
  <2> QED
    BY <1>1, <1>4, <1>16, <2>1, <2>2, <2>3 DEF ChainState, Stages, newest
<1> HIDE DEF X
<1>18. Oldest(X)
  <2> SUFFICES ASSUME older = NoId, hole.from # NoId, NEW x \in live, x < hole.from
               PROVE  \E n \in 1 .. Len(block) : block[n].id = x
    BY <1>17 DEF Oldest
  <2>1. ~(x < below)
    BY <1>4, <1>12 DEF NoId
  <2>2. page # {}
    BY <1>9, <2>1
  <2>3. x \in page
    <3>1. below \in page /\ below \in inside /\ below \in Nat /\ x \in Nat
      BY <1>4, <1>6, <1>10, <1>11, <2>2
    <3>2. below > hole.to
      BY <1>7, <3>1
    <3>3. x > hole.to
      BY <1>2, <2>1, <3>1, <3>2
    <3>4. x \in inside
      BY <1>7, <3>3
    <3>5. x = below \/ x > below
      BY <2>1, <3>1
    <3> QED
      BY <1>6, <3>1, <3>4, <3>5
  <2>4. PICK n \in 1 .. Len(told) : told[n].id = x
    BY <1>13, <2>3 DEF BlockOf
  <2>5. n \in 1 .. Len(block) /\ block[n] = told[n]
    BY <1>15 DEF JoinOf
  <2> QED
    BY <2>4, <2>5
<1>19. ChainOK(X)
  <2>1. ch.hole.from <= top /\ (ch.request.depth = -1 => ch.tail = -1)
    BY <1>1 DEF ChainOK
  <2> QED
    BY <1>15, <1>17, <1>18, <2>1 DEF ChainOK
<1>20. ASSUME NEW n \in 1 .. Len(block), ~block[n].patch, hole.from # NoId
       PROVE  block[n].id < hole.from /\ page # {}
  <2>1. PICK m \in 1 .. Len(told) : block[n] = told[m]
    BY <1>14, <1>15, <1>20 DEF JoinOf
  <2>2. told[m].id \in page
    BY <1>13 DEF BlockOf
  <2> QED
    BY <1>6, <1>7, <1>20, <2>1, <2>2
<1>21. PageOK(X)
  <2> SUFFICES ASSUME hole.from # NoId, hole.to = NoId, \A n \in 1 .. Len(block) : block[n].patch
               PROVE  older = NoId
    BY <1>17, <1>20 DEF PageOK
  <2>1. page = {}
    <3> SUFFICES ASSUME NEW i \in page PROVE FALSE
      OBVIOUS
    <3>1. PICK n \in 1 .. Len(told) : told[n].id = i /\ told[n].patch = FALSE
      BY <1>13 DEF BlockOf
    <3>2. n \in 1 .. Len(block) /\ block[n] = told[n]
      BY <1>15 DEF JoinOf
    <3> QED
      BY <3>1, <3>2
  <2>2. below = hole.from /\ inside = {}
    BY <1>6, <1>9, <2>1
  <2>3. ASSUME NEW x \in live, x < hole.from PROVE FALSE
    <3>1. x > hole.to
      BY <1>4 DEF NoId
    <3> QED
      BY <1>7, <2>2, <2>3, <3>1
  <2> QED
    BY <1>12, <2>2, <2>3
<1>22. AnswerTo(X, ch)
  <2>1. ASSUME NEW n \in ch.version + 1 .. Len(patches)
        PROVE  \E k \in 1 .. Len(block) : block[k].patch /\ block[k].id = patches[n]
    <3>1. PICK k \in 1 .. Len(gone) : gone[k].id = patches[n]
      BY <1>14
    <3>2. Len(told) + k \in 1 .. Len(block) /\ block[Len(told) + k] = gone[k]
      BY <1>15 DEF JoinOf
    <3>3. gone[k].patch
      BY <1>14
    <3> QED
      BY <3>1, <3>2, <3>3
  <2> QED
    BY <1>17, <1>21, <2>1 DEF AnswerTo
<1>23. X.version <= Len(patches)
  BY <1>4, <1>17
<1>24. Becomes(c, X)
  BY <1>3, <1>17, <1>19, <1>23 DEF Becomes, ch
<1> QED
  BY <1>1, <1>22, <1>24 DEF ch

LEMMA IdsOfRequests ==
    ASSUME NEW from \in AnyId, NEW depth \in Int, NEW recursion \in Int
    PROVE  LET r == [from |-> from, depth |-> depth, recursion |-> recursion]
           IN  r \in Requests /\ r.from = from /\ r.depth = depth /\ r.recursion = recursion
BY DEF Requests, AnyId

LEMMA NoHoleFacts ==
    ASSUME NEW error \in {"ok", "index_not_found", "reached"}
    PROVE  /\ NoHole(error) \in Holes /\ NoHole(error).error = error
           /\ NoHole(error).from = NoId /\ NoHole(error).to = NoId
BY DEF NoHole, Holes, AnyId

LEMMA HoleIs ==
    ASSUME NEW f \in AnyId, NEW to \in AnyId, NEW d \in Int
    PROVE  /\ Hole(f, to, d) \in Holes /\ Hole(f, to, d).error = "ok"
           /\ Hole(f, to, d).from = f /\ Hole(f, to, d).to = to
BY DEF Hole, Holes

\* a chain that has asked for nothing yet
EmptyChain(X) ==
    /\ X \in ChainState /\ X.version <= Len(patches) /\ ChainOK(X)
    /\ X.hole.from = NoId

LEMMA IdleIsState == Idle \in ChainState /\ Idle.version = 0 /\ Idle.hole.from = NoId
<1> DEFINE request == NoRequest
           hole == NoHole("ok")
           block == <<>>
<1>1. request \in Requests
  BY IdsOfRequests DEF NoRequest, AnyId
<1>2. hole \in Holes /\ hole.from = NoId
  BY NoHoleFacts
<1>3. block \in Seq(Header) /\ NoId \in AnyId /\ 0 \in Int /\ 0 \in Nat /\ "idle" \in Stages
  BY DEF AnyId, Stages
<1>4. Idle = [stage |-> "idle", request |-> request, hole |-> hole, version |-> 0,
              tail |-> 0, block |-> block, older |-> NoId, last |-> NoId]
  BY DEF Idle
<1> HIDE DEF request, hole, block
<1>5. Idle \in ChainState
  BY <1>1, <1>2, <1>3, <1>4 DEF ChainState
<1>6. Idle.version = 0 /\ Idle.hole = hole
  BY <1>4
<1> QED
  BY <1>2, <1>5, <1>6

LEMMA IdleFacts ==
    ASSUME ServerInv, NEW s \in {"idle", "begin"}
    PROVE  LET X == [Idle EXCEPT !.stage = s]
           IN  EmptyChain(X) /\ X.request = NoRequest /\ X.stage = s
<1> DEFINE X == [Idle EXCEPT !.stage = s]
<1>1. NoRequest \in Requests
  BY IdsOfRequests DEF NoRequest, AnyId
<1>2. NoHole("ok") \in Holes /\ NoHole("ok").from = NoId
  BY NoHoleFacts
<1>3. /\ X.stage = s /\ X.request = NoRequest /\ X.hole = NoHole("ok") /\ X.version = 0
      /\ X.tail = 0 /\ X.block = <<>> /\ X.older = NoId /\ X.last = NoId
      /\ X = [Idle EXCEPT !.stage = X.stage]
  BY DEF Idle
<1>4. X \in ChainState
  BY IdleIsState DEF ChainState, Stages
<1> HIDE DEF X
<1>5. HonestBlock(X.block, live, top)
  BY <1>3, NoHeaders
<1>6. X.hole.from <= top
  BY <1>2, <1>3 DEF ServerInv, NoId
<1>7. ChainOK(X)
  BY <1>3, <1>5, <1>6 DEF ChainOK
<1>8. X.version <= Len(patches)
  BY <1>3 DEF ServerInv
<1> QED
  BY <1>2, <1>3, <1>4, <1>7, <1>8 DEF EmptyChain, X

LEMMA SearchingFacts ==
    ASSUME ServerInv, NEW from \in AnyId, NEW depth \in Int, NEW recursion \in Int
    PROVE  /\ EmptyChain(Searching(from, depth, recursion))
           /\ Searching(from, depth, recursion).stage = "find"
           /\ Searching(from, depth, recursion).request.from = from
           /\ Searching(from, depth, recursion).request.depth = depth
<1> DEFINE X == Searching(from, depth, recursion)
           r == [from |-> from, depth |-> depth, recursion |-> recursion]
<1>1. r \in Requests /\ r.from = from /\ r.depth = depth
  BY IdsOfRequests
<1> HIDE DEF r
<1>2. NoHole("ok") \in Holes /\ NoHole("ok").from = NoId
  BY NoHoleFacts
<1>3. X = [Idle EXCEPT !.stage = "find", !.request = r]
  BY DEF Searching, r
<1> HIDE DEF X
<1>4. /\ X.stage = "find" /\ X.request = r /\ X.hole = NoHole("ok") /\ X.version = 0
      /\ X.tail = 0 /\ X.block = <<>>
  BY <1>3 DEF Idle
<1>5. X \in ChainState
  BY <1>1, <1>3, IdleIsState DEF ChainState, Stages
<1>6. HonestBlock(X.block, live, top)
  BY <1>4, NoHeaders
<1>7. X.hole.from <= top
  BY <1>2, <1>4 DEF ServerInv, NoId
<1>8. ChainOK(X)
  BY <1>4, <1>6, <1>7 DEF ChainOK
<1>9. X.version <= Len(patches)
  BY <1>4 DEF ServerInv
<1> QED
  BY <1>1, <1>2, <1>4, <1>5, <1>8, <1>9 DEF EmptyChain, X

LEMMA AskingFacts ==
    ASSUME ServerInv, NEW r \in {NoRequest, Opening}, NEW v \in Nat, v <= Len(patches)
    PROVE  /\ EmptyChain(Asking(r, v))
           /\ Asking(r, v).stage = "asked" /\ Asking(r, v).request = r /\ Asking(r, v).version = v
<1> DEFINE X == Asking(r, v)
<1>1. r \in Requests /\ r.depth # -1
  BY DEF NoRequest, Opening, Requests
<1>2. NoHole("ok") \in Holes /\ NoHole("ok").from = NoId
  BY NoHoleFacts
<1>3. X = [Idle EXCEPT !.stage = "asked", !.request = r, !.version = v]
  BY DEF Asking
<1> HIDE DEF X
<1>4. /\ X.stage = "asked" /\ X.request = r /\ X.hole = NoHole("ok") /\ X.version = v
      /\ X.tail = 0 /\ X.block = <<>>
  BY <1>3 DEF Idle
<1>5. X \in ChainState
  BY <1>1, <1>3, IdleIsState DEF ChainState, Stages
<1>6. HonestBlock(X.block, live, top)
  BY <1>4, NoHeaders
<1>7. X.hole.from <= top
  BY <1>2, <1>4 DEF ServerInv, NoId
<1>8. ChainOK(X)
  BY <1>1, <1>4, <1>6, <1>7 DEF ChainOK
<1> QED
  BY <1>2, <1>4, <1>5, <1>8 DEF EmptyChain, X

LEMMA EndFacts ==
    ASSUME ServerInv, NEW c \in Chains, End(c)
    PROVE  \E X : Becomes(c, X) /\ EmptyChain(X) /\ X.request = NoRequest /\ X.stage \in {"idle", "begin"}
<1> DEFINE B == [Idle EXCEPT !.stage = "begin"]
           I == [Idle EXCEPT !.stage = "idle"]
<1>1. EmptyChain(B) /\ B.request = NoRequest /\ B.stage = "begin"
  BY IdleFacts
<1>2. EmptyChain(I) /\ I.request = NoRequest /\ I.stage = "idle"
  BY IdleFacts
<1>3. I = Idle
  BY DEF Idle
<1> HIDE DEF B, I
<1>4. chain' = [chain EXCEPT ![c] = B] \/ chain' = [chain EXCEPT ![c] = I]
  BY <1>3 DEF End, B
<1> QED
  BY <1>1, <1>2, <1>4 DEF Becomes, EmptyChain

\* where a search begins: at `from', or the visible message below, or at the newest one
Start(idx, from) ==
    IF from = NoId THEN Newest(VisibleIds(idx)) ELSE Older(idx, from + 1)

LEMMA StartFacts ==
    ASSUME NEW idx, DOMAIN idx \subseteq Ids, NEW from \in AnyId
    PROVE  /\ Start(idx, from) \in AnyId
           /\ Start(idx, from) = NoId \/ Start(idx, from) \in VisibleIds(idx)
           /\ DOMAIN idx # {} /\ from = NoId => Older(idx, LastId(idx) + 1) = Start(idx, from)
           /\ from # NoId => Start(idx, from) <= from
           /\ \A i \in VisibleIds(idx) : from = NoId \/ i <= from => i <= Start(idx, from)
<1>1. VisibleIds(idx) \subseteq Ids /\ VisibleIds(idx) \subseteq DOMAIN idx
  BY DEF VisibleIds
<1>2. CASE from = NoId
  <2> DEFINE n == Newest(VisibleIds(idx))
  <2>1. n \in AnyId /\ (n = NoId \/ n \in VisibleIds(idx)) /\ \A x \in VisibleIds(idx) : x <= n
    BY <1>1, NewestFacts
  <2>2. ASSUME DOMAIN idx # {} PROVE Older(idx, LastId(idx) + 1) = n
    <3> DEFINE l == LastId(idx)
               o == Older(idx, l + 1)
    <3>1. l = Max(DOMAIN idx)
      BY <2>2 DEF LastId
    <3>2. l \in DOMAIN idx /\ \A y \in DOMAIN idx : y <= l
      BY <2>2, <3>1, MaxFacts
    <3>3. /\ o \in AnyId /\ (o = NoId \/ o \in VisibleIds(idx))
          /\ \A x \in VisibleIds(idx) : x < l + 1 => x <= o
      BY OlderFacts
    <3>4. \A x \in VisibleIds(idx) : x \in Nat /\ l \in Nat /\ x <= l
      BY <1>1, <3>2, IdsAreNat
    <3> HIDE DEF l, o
    <3>5. \A x \in VisibleIds(idx) : x <= o
      BY <3>3, <3>4
    <3>6. o \in Int /\ n \in Int /\ n >= NoId /\ o >= NoId
      BY <2>1, <3>3, AnyIdIsInt
    <3> HIDE DEF n
    <3>7. n <= o
      BY <2>1, <3>5, <3>6
    <3>8. o <= n
      BY <2>1, <3>3, <3>6
    <3>9. o = n
      BY <3>6, <3>7, <3>8
    <3> QED
      BY <3>9 DEF o, l
  <2> QED
    BY <1>2, <2>1, <2>2 DEF Start
<1>3. CASE from # NoId
  <2>1. from \in Nat
    BY <1>3, IdsAreNat DEF AnyId
  <2> DEFINE o == Older(idx, from + 1)
  <2>2. /\ o \in AnyId /\ (o = NoId \/ (o \in VisibleIds(idx) /\ o < from + 1))
        /\ \A x \in VisibleIds(idx) : x < from + 1 => x <= o
    BY OlderFacts
  <2>3. Start(idx, from) = o
    BY <1>3 DEF Start
  <2>4. o \in Int /\ \A x \in VisibleIds(idx) : x \in Nat
    BY <1>1, <2>2, AnyIdIsInt, IdsAreNat
  <2> HIDE DEF o
  <2>5. o <= from
    BY <2>1, <2>2, <2>4 DEF NoId
  <2>6. \A x \in VisibleIds(idx) : x <= from => x <= o
    BY <2>1, <2>2, <2>4
  <2> QED
    BY <1>3, <2>2, <2>3, <2>5, <2>6
<1> QED
  BY <1>2, <1>3

\* what the archive finds for a search: a hole above a message it holds, or none
FoundHole(hole, idx, from, depth) ==
    /\ hole \in Holes
    /\ hole.error # "ok" => hole.from = NoId
    /\ hole.error = "index_not_found" => from # NoId
    /\ hole.from # NoId => hole.from \in VisibleIds(idx)
    /\ depth = -1 /\ (hole.error = "reached" \/ hole.from # NoId) =>
          /\ from = NoId \/ from \in DOMAIN idx
          /\ \A i \in VisibleIds(idx) : i <= Start(idx, from) /\ idx[i].prev # Older(idx, i) =>
                hole.error = "ok" /\ i <= hole.from

LEMMA HoleFacts ==
    ASSUME NEW idx, DOMAIN idx \subseteq Ids, NEW from \in AnyId, NEW depth \in Int
    PROVE  FoundHole(GetNextHole(idx, from, depth), idx, from, depth)
<1> DEFINE start == IF from = NoId THEN Older(idx, LastId(idx) + 1) ELSE Older(idx, from + 1)
           passed(c) == {i \in VisibleIds(idx) : c < i /\ i <= start}
           holes == {c \in VisibleIds(idx) :
                       /\ c <= start /\ idx[c].prev # Older(idx, c)
                       /\ depth = -1 \/ c = start \/ Cardinality(passed(c)) < depth}
           c == Max(holes)
           d == IF Older(idx, c) = NoId THEN 0 ELSE Cardinality(passed(c)) + 1
           hole == GetNextHole(idx, from, depth)
<1>1. hole = IF DOMAIN idx = {} THEN NoHole("ok")
             ELSE IF from > LastId(idx) THEN Hole(NoId, LastId(idx), 0)
             ELSE IF from # NoId /\ from \notin DOMAIN idx THEN NoHole("index_not_found")
             ELSE IF start = NoId THEN NoHole("ok")
             ELSE IF holes = {} THEN NoHole("reached")
             ELSE Hole(c, Older(idx, c), d)
  BY DEF GetNextHole
<1>2. VisibleIds(idx) \subseteq Ids /\ VisibleIds(idx) \subseteq DOMAIN idx
  BY DEF VisibleIds
<1>3. DOMAIN idx # {} => start = Start(idx, from)
  BY StartFacts DEF Start
<1>4. \A x \in holes : x \in VisibleIds(idx)
  OBVIOUS
<1>5. depth = -1 => \A x \in VisibleIds(idx) : x <= start /\ idx[x].prev # Older(idx, x) => x \in holes
  OBVIOUS
<1>6. d \in Int
  <2>1. passed(c) \subseteq Ids
    BY <1>2
  <2>2. Cardinality(passed(c)) \in Nat
    <3> HIDE DEF passed
    <3> QED
      BY <2>1, FiniteIds
  <2> HIDE DEF passed, c
  <2> QED
    BY <2>2
<1>7. holes # {} => c \in holes /\ \A x \in holes : x <= c
  <2>1. holes \subseteq Ids
    BY <1>2, <1>4
  <2> HIDE DEF holes
  <2> QED
    BY <2>1, MaxFacts
<1>8. Older(idx, c) \in AnyId
  BY OlderFacts
<1>9. LastId(idx) \in AnyId
  BY MaxFacts DEF LastId, AnyId
<1> HIDE DEF holes, c, d, start, hole
<1>10. CASE hole = NoHole("ok")
  <2>1. hole \in Holes /\ hole.error = "ok" /\ hole.from = NoId
    BY <1>10, NoHoleFacts
  <2> QED
    BY <2>1 DEF FoundHole, hole
<1>11. CASE hole = Hole(NoId, LastId(idx), 0)
  <2>1. NoId \in AnyId
    BY DEF AnyId
  <2>2. hole \in Holes /\ hole.error = "ok" /\ hole.from = NoId
    BY <1>9, <1>11, <2>1, HoleIs
  <2> QED
    BY <2>2 DEF FoundHole, hole
<1>12. CASE hole = NoHole("index_not_found") /\ from # NoId
  <2>1. hole \in Holes /\ hole.error = "index_not_found" /\ hole.from = NoId
    BY <1>12, NoHoleFacts
  <2> QED
    BY <1>12, <2>1 DEF FoundHole, hole
<1>13. CASE /\ hole = NoHole("reached") /\ holes = {} /\ DOMAIN idx # {}
            /\ from = NoId \/ from \in DOMAIN idx
  <2>1. hole \in Holes /\ hole.error = "reached" /\ hole.from = NoId
    BY <1>13, NoHoleFacts
  <2> QED
    BY <1>3, <1>5, <1>13, <2>1 DEF FoundHole, hole
<1>14. CASE /\ hole = Hole(c, Older(idx, c), d) /\ holes # {} /\ DOMAIN idx # {}
            /\ from = NoId \/ from \in DOMAIN idx
  <2>1. c \in VisibleIds(idx) /\ c \in AnyId
    BY <1>2, <1>4, <1>7, <1>14 DEF AnyId
  <2>2. hole \in Holes /\ hole.error = "ok" /\ hole.from = c
    BY <1>6, <1>8, <1>14, <2>1, HoleIs
  <2> QED
    BY <1>3, <1>5, <1>7, <1>14, <2>1, <2>2 DEF FoundHole, hole
<1> QED
  BY <1>1, <1>10, <1>11, <1>12, <1>13, <1>14

\* the chain X ends, as one that asks for nothing
Ended(X) == EmptyChain(X) /\ X.request = NoRequest /\ X.stage \in {"idle", "begin"}

\* the chain X is at this stage, with the request and the hole of ch
Goes(X, ch, stage) == X.stage = stage /\ X.request = ch.request /\ X.hole = ch.hole

\* the chain X begins a search
Begins(X, from, depth) ==
    EmptyChain(X) /\ X.stage = "find" /\ X.request.from = from /\ X.request.depth = depth

\* the chain X asks for the newest message
Asks(X, version) ==
    EmptyChain(X) /\ X.stage = "asked" /\ X.request \in {NoRequest, Opening} /\ X.version = version

LEMMA ChainIs ==
    ASSUME ChainInv, NEW c \in Chains
    PROVE  /\ chain \in [Chains -> ChainState] /\ chain[c] \in ChainState
           /\ chain[c].version <= Len(patches) /\ ChainOK(chain[c])
           /\ chain[c].stage \in {"idle", "begin"} => chain[c].request = NoRequest /\ chain[c].block = <<>>
<1>1. /\ chain \in [Chains -> ChainState] /\ chain[c] \in ChainState
      /\ chain[c].version <= Len(patches) /\ ChainOK(chain[c])
  BY DEF ChainInv
<1>2. \A s \in {"idle", "begin"} : [Idle EXCEPT !.stage = s].request = NoRequest
                                   /\ [Idle EXCEPT !.stage = s].block = <<>>
  BY DEF Idle
<1>3. chain[c].stage \in {"idle", "begin"} => chain[c] = [Idle EXCEPT !.stage = chain[c].stage]
  BY <1>1 DEF ChainOK
<1> QED
  BY <1>1, <1>2, <1>3

LEMMA EmptyBecomes ==
    ASSUME NEW c \in Chains, NEW X, EmptyChain(X), chain' = [chain EXCEPT ![c] = X]
    PROVE  Becomes(c, X)
BY DEF Becomes, EmptyChain

LEMMA OpenDialogMoves ==
    ASSUME Inv, NEW c \in Chains, OpenDialog(c)
    PROVE  chain[c].stage = "idle" /\ \E X : Becomes(c, X) /\ Asks(X, patch_version)
<1>1. patch_version \in Nat /\ patch_version <= Len(patches) /\ ServerInv
  BY DEF Inv, StateInv
<1>2. EmptyChain(Asking(Opening, patch_version)) /\ Asks(Asking(Opening, patch_version), patch_version)
  BY <1>1, AskingFacts DEF Asks
<1>3. chain' = [chain EXCEPT ![c] = Asking(Opening, patch_version)] /\ chain[c].stage = "idle"
  BY DEF OpenDialog
<1> QED
  BY <1>2, <1>3, EmptyBecomes

LEMMA BeginMoves ==
    ASSUME Inv, NEW c \in Chains, Begin(c)
    PROVE  chain[c].stage = "begin" /\ \E X : Becomes(c, X) /\ Begins(X, last_msgid, -1)
<1>1. last_msgid \in AnyId /\ ServerInv
  BY DEF Inv, StateInv
<1>2. EmptyChain(Searching(last_msgid, -1, 0)) /\ Begins(Searching(last_msgid, -1, 0), last_msgid, -1)
  BY <1>1, SearchingFacts DEF Begins
<1>3. chain' = [chain EXCEPT ![c] = Searching(last_msgid, -1, 0)] /\ chain[c].stage = "begin"
  BY DEF Begin
<1> QED
  BY <1>2, <1>3, EmptyBecomes

LEMMA DownloadFailedHolesMoves ==
    ASSUME Inv, NEW c \in Chains, DownloadFailedHoles(c)
    PROVE  chain[c].stage = "idle" /\ \E X : Becomes(c, X) /\ Begins(X, failed.from, failed.depth)
<1>1. failed.from \in AnyId /\ failed.depth \in Int /\ failed.recursion \in Int /\ ServerInv
  BY DEF Inv, HistoryInv, Requests, AnyId
<1> DEFINE S == Searching(failed.from, failed.depth, failed.recursion)
<1>2. EmptyChain(S) /\ Begins(S, failed.from, failed.depth)
  BY <1>1, SearchingFacts DEF Begins
<1>3. chain' = [chain EXCEPT ![c] = S] /\ chain[c].stage = "idle"
  BY DEF DownloadFailedHoles
<1> HIDE DEF S
<1> QED
  BY <1>2, <1>3, EmptyBecomes

LEMMA EventMergesMoves ==
    ASSUME Inv, NEW c \in Chains, EventMerges(c)
    PROVE  \/ UNCHANGED chain
           \/ chain[c].stage = "idle" /\ \E X : Becomes(c, X) /\ Asks(X, patch_version)
<1>1. patch_version \in Nat /\ patch_version <= Len(patches) /\ ServerInv
  BY DEF Inv, StateInv
<1> DEFINE A == Asking(NoRequest, patch_version)
<1>2. EmptyChain(A) /\ Asks(A, patch_version)
  BY <1>1, AskingFacts DEF Asks
<1>3. UNCHANGED chain \/ (chain' = [chain EXCEPT ![c] = A] /\ chain[c].stage = "idle")
  BY DEF EventMerges
<1> HIDE DEF A
<1> QED
  BY <1>2, <1>3, EmptyBecomes

LEMMA EventStoresMoves ==
    ASSUME Inv, NEW c \in Chains, EventStores(c)
    PROVE  \/ UNCHANGED chain
           \/ chain[c].stage = "idle" /\ \E X, d : Becomes(c, X) /\ Begins(X, event.last, d)
<1> DEFINE d == IF Len(event.block) > 0 THEN Len(event.block) + 1 ELSE -1
           S == Searching(event.last, d, 0)
<1>1. event.last \in AnyId /\ d \in Int /\ ServerInv
  BY DEF Inv, EventInv, EventState
<1>2. UNCHANGED chain \/ (chain' = [chain EXCEPT ![c] = S] /\ chain[c].stage = "idle")
  BY DEF EventStores
<1> HIDE DEF d
<1>3. EmptyChain(S) /\ Begins(S, event.last, d)
  BY <1>1, SearchingFacts DEF Begins
<1> HIDE DEF S
<1> QED
  BY <1>2, <1>3, EmptyBecomes

\* the hole that the search of the chain ch finds
FoundFor(ch) == GetNextHole(headers_index, ch.request.from, ch.request.depth)

LEMMA FindHoleMoves ==
    ASSUME Inv, NEW c \in Chains, FindHole(c)
    PROVE  /\ chain[c].stage = "find"
           /\ FoundHole(FoundFor(chain[c]), headers_index, chain[c].request.from, chain[c].request.depth)
           /\ \/ /\ \/ FoundFor(chain[c]).error # "ok"
                    \/ chain[c].request.recursion > 0 /\ FoundFor(chain[c]).from = NoId
                 /\ \E X : Becomes(c, X) /\ Ended(X)
              \/ /\ FoundFor(chain[c]).error = "ok"
                 /\ \E X : /\ Becomes(c, X) /\ X.stage = "check" /\ X.request = chain[c].request
                           /\ X.hole = FoundFor(chain[c])
<1> DEFINE ch == chain[c]
           hole == FoundFor(ch)
           X == [ch EXCEPT !.stage = "check", !.hole = hole]
           ends == hole.error # "ok" \/ (ch.request.recursion > 0 /\ hole.from = NoId)
<1>1. /\ chain \in [Chains -> ChainState] /\ ch \in ChainState /\ ch.version <= Len(patches)
      /\ ChainOK(ch) /\ ch.stage = "find" /\ ServerInv
  BY ChainIs DEF Inv, FindHole
<1>2. (ends => End(c)) /\ (~ends => chain' = [chain EXCEPT ![c].stage = "check", ![c].hole = hole])
  BY DEF FindHole, FoundFor
<1>3. /\ DOMAIN headers_index \subseteq Ids /\ ch.request.from \in AnyId /\ ch.request.depth \in Int
      /\ \A i \in DOMAIN headers_index : i <= top
  <2>1. DOMAIN headers_index \subseteq Ids /\ \A i \in DOMAIN headers_index : i <= top
    BY DEF Inv, IndexInv, HonestIndex, Honest
  <2> QED
    BY <1>1, <2>1, ChainFields
<1>4. FoundHole(hole, headers_index, ch.request.from, ch.request.depth)
  BY <1>3, HoleFacts DEF FoundFor
<1> HIDE DEF ch, hole
<1>5. CASE ends
  <2>1. \E Y : Becomes(c, Y) /\ Ended(Y)
    BY <1>1, <1>2, <1>5, EndFacts DEF Ended
  <2> QED
    BY <1>1, <1>4, <1>5, <2>1 DEF ch, hole
<1>6. CASE ~ends
  <2>1. hole \in Holes /\ hole.from <= top
    <3>1. hole.from = NoId \/ hole.from \in DOMAIN headers_index
      BY <1>4 DEF FoundHole, VisibleIds
    <3> QED
      BY <1>1, <1>3, <1>4, <3>1 DEF FoundHole, ServerInv, NoId
  <2>2. /\ X \in ChainState /\ X.stage = "check" /\ X.request = ch.request /\ X.hole = hole
        /\ X.version = ch.version /\ X.block = ch.block
    BY <1>1, <2>1 DEF ChainState, Stages
  <2>3. chain' = [chain EXCEPT ![c] = X]
    BY <1>1, <1>2, <1>6 DEF ch
  <2> HIDE DEF X
  <2>4. ChainOK(X)
    BY <1>1, <2>1, <2>2 DEF ChainOK
  <2>5. Becomes(c, X)
    BY <1>1, <2>2, <2>3, <2>4 DEF Becomes
  <2> QED
    BY <1>1, <1>4, <1>6, <2>2, <2>5 DEF ch, hole
<1> QED
  BY <1>5, <1>6

LEMMA CheckHoleMoves ==
    ASSUME Inv, NEW c \in Chains, CheckHole(c)
    PROVE  /\ chain[c].stage = "check"
           /\ \/ \E X : Becomes(c, X) /\ Ended(X)
              \/ \E X : Becomes(c, X) /\ Goes(X, chain[c], "asked") /\ X.version = patch_version
<1> DEFINE ch == chain[c]
           t == IF ch.request.depth = -1 THEN -1 ELSE ch.request.depth - ch.hole.depth + PageSize + 1
           X == [ch EXCEPT !.stage = "asked", !.version = patch_version, !.tail = t]
<1>1. /\ chain \in [Chains -> ChainState] /\ ch \in ChainState /\ ch.version <= Len(patches)
      /\ ChainOK(ch) /\ ch.stage = "check" /\ ServerInv
  BY ChainIs DEF Inv, CheckHole
<1>2. End(c) \/ chain' = [chain EXCEPT ![c].stage = "asked", ![c].version = patch_version, ![c].tail = t]
  BY DEF CheckHole
<1>3. patch_version \in Nat /\ patch_version <= Len(patches)
  BY DEF Inv, StateInv
<1>4. t \in Int
  BY <1>1, ChainFields, HolesAssumption
<1>5. ch.request.depth = -1 => t = -1
  OBVIOUS
<1> HIDE DEF ch, t
<1>6. CASE End(c)
  <2>1. \E Y : Becomes(c, Y) /\ Ended(Y)
    BY <1>1, <1>6, EndFacts DEF Ended
  <2> QED
    BY <1>1, <2>1 DEF ch
<1>7. CASE chain' = [chain EXCEPT ![c].stage = "asked", ![c].version = patch_version, ![c].tail = t]
  <2>1. /\ X \in ChainState /\ X.stage = "asked" /\ X.request = ch.request /\ X.hole = ch.hole
        /\ X.version = patch_version /\ X.block = ch.block /\ X.tail = t
    BY <1>1, <1>3, <1>4 DEF ChainState, Stages
  <2>2. chain' = [chain EXCEPT ![c] = X]
    BY <1>1, <1>7 DEF ch
  <2> HIDE DEF X
  <2>3. ChainOK(X)
    BY <1>1, <1>5, <2>1 DEF ChainOK
  <2>4. Becomes(c, X)
    BY <1>3, <2>1, <2>2, <2>3 DEF Becomes
  <2> QED
    BY <1>1, <2>1, <2>4 DEF ch, Goes
<1> QED
  BY <1>2, <1>6, <1>7

LEMMA AskEndsMoves ==
    ASSUME Inv, NEW c \in Chains, AskFails(c) \/ AskRefused(c)
    PROVE  chain[c].stage = "asked" /\ \E X : Becomes(c, X) /\ Ended(X)
<1>1. ServerInv /\ End(c) /\ chain[c].stage = "asked"
  BY DEF Inv, AskFails, AskRefused
<1> QED
  BY <1>1, EndFacts DEF Ended

LEMMA SetStateMoves ==
    ASSUME Inv, NEW c \in Chains, SetState(c)
    PROVE  /\ chain[c].stage = "answered"
           /\ \E X : /\ Becomes(c, X) /\ Goes(X, chain[c], "store")
                     /\ X.block = chain[c].block /\ X.older = chain[c].older
<1> DEFINE ch == chain[c]
           X == [ch EXCEPT !.stage = "store", !.last = NoId, !.version = 0]
<1>1. /\ chain \in [Chains -> ChainState] /\ ch \in ChainState /\ ch.version <= Len(patches)
      /\ ChainOK(ch) /\ ch.stage = "answered" /\ ServerInv
  BY ChainIs DEF Inv, SetState
<1>2. chain' = [chain EXCEPT ![c] = X]
  BY <1>1 DEF SetState
<1> HIDE DEF ch
<1>3. /\ X \in ChainState /\ X.stage = "store" /\ X.request = ch.request /\ X.hole = ch.hole
      /\ X.version = 0 /\ X.block = ch.block /\ X.tail = ch.tail /\ X.older = ch.older
  <2>1. NoId \in AnyId
    BY DEF AnyId
  <2> QED
    BY <1>1, <2>1 DEF ChainState, Stages
<1> HIDE DEF X
<1>4. ChainOK(X)
  BY <1>1, <1>3 DEF ChainOK, Oldest
<1>5. X.version <= Len(patches)
  BY <1>1, <1>3 DEF ServerInv
<1>6. Becomes(c, X)
  BY <1>2, <1>3, <1>4, <1>5 DEF Becomes
<1> QED
  BY <1>1, <1>3, <1>6 DEF ch, Goes

LEMMA StoreMoves ==
    ASSUME Inv, NEW c \in Chains, Store(c)
    PROVE  /\ chain[c].stage = "store"
           /\ \/ IsSingle(c) /\ \E X : Becomes(c, X) /\ Ended(X)
              \/ \E X : Becomes(c, X) /\ Goes(X, chain[c], "validate")
<1> DEFINE ch == chain[c]
           X == [ch EXCEPT !.stage = "validate", !.block = <<>>, !.older = NoId]
<1>1. /\ chain \in [Chains -> ChainState] /\ ch \in ChainState /\ ch.version <= Len(patches)
      /\ ChainOK(ch) /\ ch.stage = "store" /\ ServerInv
  BY ChainIs DEF Inv, Store
<1>2. IF IsSingle(c) THEN End(c)
      ELSE chain' = [chain EXCEPT ![c].stage = "validate", ![c].block = <<>>, ![c].older = NoId]
  BY DEF Store
<1>3. CASE IsSingle(c)
  <2>1. \E Y : Becomes(c, Y) /\ Ended(Y)
    BY <1>1, <1>2, <1>3, EndFacts DEF Ended
  <2> QED
    BY <1>1, <1>3, <2>1
<1>4. CASE ~IsSingle(c)
  <2>1. chain' = [chain EXCEPT ![c] = X]
    BY <1>1, <1>2, <1>4
  <2> HIDE DEF ch
  <2>2. /\ X \in ChainState /\ X.stage = "validate" /\ X.request = ch.request /\ X.hole = ch.hole
        /\ X.version = ch.version /\ X.block = <<>> /\ X.tail = ch.tail
    <3>1. NoId \in AnyId
      BY DEF AnyId
    <3> DEFINE e == <<>>
    <3>2. e \in Seq(Header)
      OBVIOUS
    <3>3. X = [ch EXCEPT !.stage = "validate", !.block = e, !.older = NoId]
      OBVIOUS
    <3> HIDE DEF X, e
    <3>4. /\ X \in ChainState /\ X.stage = "validate" /\ X.request = ch.request /\ X.hole = ch.hole
          /\ X.version = ch.version /\ X.block = e /\ X.tail = ch.tail
      BY <1>1, <3>1, <3>2, <3>3 DEF ChainState, Stages
    <3> QED
      BY <3>4 DEF e
  <2> HIDE DEF X
  <2>3. HonestBlock(X.block, live, top)
    BY <2>2, NoHeaders
  <2>4. ChainOK(X)
    BY <1>1, <2>2, <2>3 DEF ChainOK
  <2>5. Becomes(c, X)
    BY <1>1, <2>1, <2>2, <2>4 DEF Becomes
  <2> QED
    BY <1>1, <2>2, <2>5 DEF ch, Goes
<1> QED
  BY <1>3, <1>4

LEMMA ValidateMoves ==
    ASSUME Inv, NEW c \in Chains, Validate(c)
    PROVE  /\ chain[c].stage = "validate"
           /\ \E X : /\ Becomes(c, X)
                     /\ Begins(X, ValidateHoleRequest(headers_index, chain[c].hole), chain[c].tail)
<1> DEFINE ch == chain[c]
           from == ValidateHoleRequest(headers_index, ch.hole)
           S == Searching(from, ch.tail, ch.request.recursion + 1)
<1>1. /\ chain \in [Chains -> ChainState] /\ ch \in ChainState /\ ch.stage = "validate" /\ ServerInv
  BY ChainIs DEF Inv, Validate
<1>2. chain' = [chain EXCEPT ![c] = S]
  BY <1>1 DEF Validate
<1>3. ch.tail \in Int /\ ch.request.recursion + 1 \in Int /\ ch.hole.from \in AnyId
  BY <1>1, ChainFields
<1>4. from \in AnyId
  <2>1. DOMAIN headers_index \subseteq Ids
    BY DEF Inv, IndexInv, HonestIndex
  <2>2. Older(headers_index, ch.hole.from) \in AnyId
    BY <2>1, OlderFacts
  <2> QED
    BY <1>3, <2>2 DEF ValidateHoleRequest
<1> HIDE DEF from, ch
<1>5. EmptyChain(S) /\ Begins(S, from, ch.tail)
  BY <1>1, <1>3, <1>4, SearchingFacts DEF Begins
<1> HIDE DEF S
<1>6. Becomes(c, S)
  BY <1>2, <1>5, EmptyBecomes
<1> QED
  BY <1>1, <1>5, <1>6 DEF ch, from

-----------------------------------------------------------------------------
(* Type correctness *)

LEMMA SameServer == ServerInv /\ UNCHANGED server => ServerInv'
BY DEF ServerInv, server

LEMMA SameState == StateInv /\ UNCHANGED <<server, state, copy>> => StateInv'
BY DEF StateInv, server, state

LEMMA SameEvent == EventInv /\ UNCHANGED <<server, event>> => EventInv'
BY DEF EventInv, server

LEMMA SameIndex == IndexInv /\ UNCHANGED <<server, headers_index, del_up_to>> => IndexInv'
BY DEF IndexInv, Absent, server

LEMMA SameHistory == HistoryInv /\ UNCHANGED <<server, failed, history, happened>> => HistoryInv'
BY DEF HistoryInv, server, history

LEMMA SameChains == ChainInv /\ UNCHANGED <<server, chain>> => ChainInv'
BY DEF ChainInv, ChainOK, Oldest, server

LEMMA ChainStep ==
    ASSUME ChainInv, NEW c \in Chains, NEW X, Becomes(c, X), UNCHANGED server
    PROVE  ChainInv'
<1>1. /\ chain' \in [Chains -> ChainState]
      /\ \A d \in Chains : chain'[d] = IF d = c THEN X ELSE chain[d]
  BY DEF ChainInv, Becomes
<1>2. ASSUME NEW d \in Chains PROVE chain'[d].version <= Len(patches) /\ ChainOK(chain'[d])
  BY <1>1 DEF ChainInv, Becomes
<1>3. UNCHANGED <<live, top, patches>>
  BY DEF server
<1> QED
  BY <1>1, <1>2, <1>3 DEF ChainInv, ChainOK, Oldest

LEMMA HappensFacts ==
    ASSUME HistoryInv, NEW what \in Happening, Happens(what) PROVE happened' \in 0 .. MaxHappens
<1>1. Cost[what] \in Nat /\ happened \in Nat /\ MaxHappens \in Nat
  BY HolesAssumption DEF HistoryInv
<1> QED
  BY <1>1 DEF Happens

LEMMA AbsentIsLive == ServerInv => Absent \subseteq live /\ live \subseteq Ids
BY DEF ServerInv, Absent

\* Fewer headers may be honest, but those of a later server are.
LEMMA ServerStep ==
    ASSUME Inv, ServerInv', UNCHANGED <<headers_index, state, local, chain, failed, history>>,
           top <= top', \A x \in live' : x <= top => x \in live, emptied <= emptied',
           Len(patches) <= Len(patches'), happened' \in 0 .. MaxHappens
    PROVE  Inv'
<1>1. /\ top \in Nat /\ top' \in Nat /\ live \subseteq Ids /\ live' \subseteq Ids
      /\ Len(patches) \in Nat /\ Len(patches') \in Nat /\ emptied \in Int /\ emptied' \in Int
  BY AnyIdIsInt DEF Inv, ServerInv, AnyId
<1>2. Later(live, live, top, live', live', top')
  BY <1>1 DEF Later
<1>3. Later(live, Absent, top, live', Absent', top')
  <2>1. \A x \in Absent' : x \in live' /\ (x <= top => x \in Absent)
    BY DEF Absent, state
  <2> QED
    BY <1>1, <2>1 DEF Later
<1>4. IndexInv'
  <2>1. HonestIndex(headers_index, live', Absent', top')
    BY <1>3, IndexLater DEF Inv, IndexInv
  <2> QED
    BY <2>1 DEF IndexInv
<1>5. StateInv'
  <2>1. del_up_to \in Int
    BY AnyIdIsInt DEF Inv, StateInv
  <2> QED
    BY <1>1, <2>1 DEF Inv, StateInv, state, local, CopyState
<1>6. EventInv'
  <2>1. HonestBlock(event.block, live', top')
    BY <1>2, BlockLater DEF Inv, EventInv
  <2>2. event.upTo \in Int
    BY AnyIdIsInt DEF Inv, EventInv, EventState
  <2> QED
    BY <1>1, <2>1, <2>2 DEF Inv, EventInv, local
<1>7. ChainInv'
  <2>1. chain \in [Chains -> ChainState]
    BY DEF Inv, ChainInv
  <2>2. ASSUME NEW c \in Chains
        PROVE  /\ chain[c].version <= Len(patches')
               /\ HonestBlock(chain[c].block, live', top')
               /\ chain[c].hole.from <= top'
               /\ chain[c].stage \in {"answered", "store"} /\ chain[c].older = NoId /\ chain[c].hole.from # NoId =>
                     \A x \in live' : x < chain[c].hole.from => \E n \in 1 .. Len(chain[c].block) : chain[c].block[n].id = x
    <3>1. chain[c] \in ChainState /\ chain[c].version <= Len(patches) /\ ChainOK(chain[c])
      BY DEF Inv, ChainInv
    <3>2. chain[c].version \in Nat /\ chain[c].hole.from \in Int
      BY <3>1, ChainFields, AnyIdIsInt
    <3>3. HonestBlock(chain[c].block, live', top')
      BY <1>2, <3>1, BlockLater DEF ChainOK
    <3>4. chain[c].hole.from <= top
      BY <3>1 DEF ChainOK
    <3>5. ASSUME chain[c].stage \in {"answered", "store"}, chain[c].older = NoId, chain[c].hole.from # NoId,
                 NEW x \in live', x < chain[c].hole.from
          PROVE  \E n \in 1 .. Len(chain[c].block) : chain[c].block[n].id = x
      <4>1. x \in Nat
        BY <1>1, IdsAreNat
      <4>2. x \in live
        BY <1>1, <3>2, <3>4, <3>5, <4>1
      <4> QED
        BY <3>1, <3>5, <4>2 DEF ChainOK, Oldest
    <3> QED
      BY <1>1, <3>1, <3>2, <3>3, <3>4, <3>5
  <2>3. ASSUME NEW c \in Chains PROVE ChainOK(chain[c])
    BY DEF Inv, ChainInv
  <2> QED
    BY <2>1, <2>2, <2>3 DEF ChainInv, ChainOK, Oldest
<1>8. HistoryInv'
  <2>1. wanted \in Int
    BY AnyIdIsInt DEF Inv, HistoryInv
  <2> QED
    BY <1>1, <2>1 DEF Inv, HistoryInv, history
<1> QED
  BY <1>4, <1>5, <1>6, <1>7, <1>8 DEF Inv

LEMMA NewMessageInv == Inv /\ NewMessage => Inv'
<1> SUFFICES ASSUME Inv, NewMessage PROVE Inv'
  OBVIOUS
<1>1. /\ top \in Nat /\ live \subseteq 1 .. top /\ 1 .. top \subseteq Ids /\ patches \in Seq(Ids)
      /\ emptied \in AnyId /\ emptied \in Int /\ emptied <= top /\ (\A x \in live : x > emptied)
      /\ \A n \in 1 .. Len(patches) : patches[n] \in Ids /\ patches[n] \notin live /\ patches[n] <= top
  BY AnyIdIsInt DEF Inv, ServerInv
<1>2. /\ top' = top + 1 /\ top + 1 \in Ids /\ live' = live \cup {top + 1}
      /\ UNCHANGED <<patches, emptied, headers_index, state, local, chain, failed, history, happened>>
  BY DEF NewMessage
<1>3. 1 .. top' \subseteq Ids /\ live' \subseteq 1 .. top' /\ top' \in Nat
  <2>1. 1 .. (top + 1) = 1 .. top \cup {top + 1}
    BY <1>1
  <2> QED
    BY <1>1, <1>2, <2>1
<1>4. emptied' <= top' /\ \A x \in live' : x > emptied'
  BY <1>1, <1>2
<1>5. \A n \in 1 .. Len(patches) : patches[n] \notin live' /\ patches[n] <= top'
  <2>1. \A n \in 1 .. Len(patches) : patches[n] \in Nat
    BY <1>1, IdsAreNat
  <2> QED
    BY <1>1, <1>2, <2>1
<1>6. ServerInv'
  BY <1>1, <1>2, <1>3, <1>4, <1>5 DEF ServerInv
<1>7. top <= top' /\ (\A x \in live' : x <= top => x \in live) /\ Len(patches) <= Len(patches')
  BY <1>1, <1>2
<1>8. emptied <= emptied' /\ happened' \in 0 .. MaxHappens
  BY <1>1, <1>2 DEF Inv, HistoryInv
<1> QED
  BY <1>2, <1>6, <1>7, <1>8, ServerStep

LEMMA ServerDeletesInv == ASSUME NEW i \in Ids, Inv, ServerDeletes(i) PROVE Inv'
<1>1. /\ top \in Nat /\ live \subseteq 1 .. top /\ 1 .. top \subseteq Ids /\ patches \in Seq(Ids)
      /\ emptied \in AnyId /\ emptied \in Int /\ emptied <= top /\ (\A x \in live : x > emptied)
      /\ \A n \in 1 .. Len(patches) : patches[n] \notin live /\ patches[n] <= top
  BY AnyIdIsInt DEF Inv, ServerInv
<1>2. /\ i \in live /\ live' = live \ {i} /\ patches' = Append(patches, i)
      /\ UNCHANGED <<top, emptied, headers_index, state, local, chain, failed, history>>
      /\ happened' \in 0 .. MaxHappens
  BY HappensFacts DEF Inv, ServerDeletes, Happening
<1>3. /\ patches' \in Seq(Ids) /\ Len(patches') = Len(patches) + 1 /\ Len(patches) \in Nat
      /\ \A n \in 1 .. Len(patches) + 1 : patches'[n] = IF n = Len(patches) + 1 THEN i ELSE patches[n]
  BY <1>1, <1>2
<1>4. \A n \in 1 .. Len(patches') : patches'[n] \notin live' /\ patches'[n] <= top'
  BY <1>1, <1>2, <1>3
<1>5. ServerInv'
  BY <1>1, <1>2, <1>3, <1>4 DEF ServerInv
<1>6. top <= top' /\ (\A x \in live' : x <= top => x \in live) /\ Len(patches) <= Len(patches')
      /\ emptied <= emptied'
  BY <1>1, <1>2, <1>3
<1> QED
  BY <1>2, <1>5, <1>6, ServerStep

LEMMA ServerDeletesUpToInv == ASSUME NEW i \in Ids, Inv, ServerDeletesUpTo(i) PROVE Inv'
<1>1. /\ top \in Nat /\ live \subseteq 1 .. top /\ 1 .. top \subseteq Ids /\ patches \in Seq(Ids)
      /\ emptied \in AnyId /\ emptied \in Int /\ emptied <= top /\ (\A x \in live : x > emptied)
      /\ \A n \in 1 .. Len(patches) : patches[n] \notin live /\ patches[n] <= top
  BY AnyIdIsInt DEF Inv, ServerInv
<1>2. /\ i \in live /\ live' = live \ (1 .. i) /\ emptied' = i
      /\ UNCHANGED <<top, patches, headers_index, state, local, chain, failed, history>>
      /\ happened' \in 0 .. MaxHappens
  BY HappensFacts DEF Inv, ServerDeletesUpTo, Happening
<1>3. i \in Nat /\ i \in AnyId /\ emptied < i /\ i <= top
  BY <1>1, <1>2 DEF AnyId
<1>4. \A x \in live' : x \in live /\ x > emptied'
  BY <1>1, <1>2, <1>3
<1>5. ServerInv'
  BY <1>1, <1>2, <1>3, <1>4 DEF ServerInv
<1>6. top <= top' /\ (\A x \in live' : x <= top => x \in live) /\ Len(patches) <= Len(patches')
      /\ emptied <= emptied'
  BY <1>1, <1>2, <1>3, <1>4
<1> QED
  BY <1>2, <1>5, <1>6, ServerStep

LEMMA OnlyChains ==
    ASSUME Inv, NEW c \in Chains, NEW X, Becomes(c, X),
           UNCHANGED <<server, headers_index, state, local>>, HistoryInv'
    PROVE  Inv'
<1>1. UNCHANGED <<del_up_to, copy, event>>
  BY DEF state, local
<1> QED
  BY <1>1, SameServer, SameState, SameEvent, SameIndex, ChainStep DEF Inv

LEMMA OpenDialogInv == ASSUME Inv, NEW c \in Chains, OpenDialog(c) PROVE Inv'
<1>1. \E X : Becomes(c, X)
  BY OpenDialogMoves
<1>2. UNCHANGED <<server, headers_index, state, local, failed, history>>
  BY DEF OpenDialog
<1>3. happened' \in 0 .. MaxHappens
  BY HappensFacts DEF Inv, OpenDialog, Happening
<1>4. HistoryInv'
  BY <1>2, <1>3 DEF Inv, HistoryInv, history, server
<1> QED
  BY <1>1, <1>2, <1>4, OnlyChains

LEMMA BeginInv == ASSUME Inv, NEW c \in Chains, Begin(c) PROVE Inv'
<1>1. \E X : Becomes(c, X)
  BY BeginMoves
<1>2. UNCHANGED <<server, headers_index, state, local, failed, history, happened>>
  BY DEF Begin
<1>3. HistoryInv'
  BY <1>2, SameHistory DEF Inv
<1> QED
  BY <1>1, <1>2, <1>3, OnlyChains

LEMMA WantedFacts ==
    ASSUME Inv, NEW from \in AnyId
    PROVE  /\ Wanted(from) \in AnyId /\ Wanted(from) <= top
           /\ wanted <= Wanted(from) /\ Start(headers_index, from) <= Wanted(from)
           /\ Wanted(from) \in {wanted, Start(headers_index, from)}
<1> DEFINE start == Start(headers_index, from)
<1>1. /\ DOMAIN headers_index \subseteq Ids
      /\ \A i \in VisibleIds(headers_index) : i <= top
  BY DEF Inv, IndexInv, HonestIndex, Honest, VisibleIds
<1>2. start \in AnyId /\ (start = NoId \/ start \in VisibleIds(headers_index))
  BY <1>1, StartFacts
<1>3. wanted \in AnyId /\ wanted <= top /\ top \in Nat
  BY DEF Inv, HistoryInv, ServerInv
<1>4. start \in Int /\ wanted \in Int /\ start <= top
  BY <1>1, <1>2, <1>3, AnyIdIsInt DEF NoId
<1>5. Wanted(from) = IF start > wanted THEN start ELSE wanted
  BY DEF Wanted, Start
<1> HIDE DEF start
<1>6. CASE start > wanted
  BY <1>2, <1>3, <1>4, <1>5, <1>6 DEF start
<1>7. CASE ~(start > wanted)
  BY <1>3, <1>4, <1>5, <1>7 DEF start
<1> QED
  BY <1>6, <1>7

LEMMA FindHoleInv == ASSUME Inv, NEW c \in Chains, FindHole(c) PROVE Inv'
<1>1. \E X : Becomes(c, X)
  BY FindHoleMoves
<1>2. UNCHANGED <<server, headers_index, state, local, failed, undone, happened>>
  BY DEF FindHole
<1>3. wanted' \in AnyId /\ wanted' <= top
  <2>1. chain[c].request.from \in AnyId
    BY ChainIs, ChainFields DEF Inv
  <2>2. wanted' \in {wanted, Wanted(chain[c].request.from)}
    BY DEF FindHole
  <2> QED
    BY <2>1, <2>2, WantedFacts DEF Inv, HistoryInv
<1>4. skipped' \subseteq Ids
  BY DEF FindHole, PassedOver, Untold, Inv, HistoryInv
<1>5. HistoryInv'
  BY <1>2, <1>3, <1>4 DEF Inv, HistoryInv, server
<1> QED
  BY <1>1, <1>2, <1>5, OnlyChains

LEMMA SkipFacts ==
    ASSUME skipped \subseteq Ids, NEW c, NEW ids, ids \subseteq Ids, Skip(c, ids)
    PROVE  /\ skipped' \subseteq Ids /\ skipped \subseteq skipped'
           /\ chain[c].request.depth = -1 => ids \subseteq skipped'
BY DEF Skip

LEMMA CheckHoleInv == ASSUME Inv, NEW c \in Chains, CheckHole(c) PROVE Inv'
<1>1. \E X : Becomes(c, X)
  BY CheckHoleMoves
<1>2. UNCHANGED <<server, headers_index, state, local, failed, wanted, undone, happened>>
  BY DEF CheckHole
<1>3. skipped' \subseteq Ids
  BY DEF CheckHole, Skip, Beyond, Inv, HistoryInv
<1>4. HistoryInv'
  BY <1>2, <1>3 DEF Inv, HistoryInv, server
<1> QED
  BY <1>1, <1>2, <1>4, OnlyChains

LEMMA AnswerInv == ASSUME Inv, NEW c \in Chains, Answer(c) PROVE Inv'
<1>1. \E X : Becomes(c, X)
  BY AnswerFacts DEF Inv
<1>2. UNCHANGED <<server, headers_index, state, local, failed, history, happened>>
  BY DEF Answer
<1>3. HistoryInv'
  BY <1>2, SameHistory DEF Inv
<1> QED
  BY <1>1, <1>2, <1>3, OnlyChains

LEMMA AddFailedFacts ==
    ASSUME failed \in Requests, NEW r \in Requests, AddFailed(r)
    PROVE  failed' \in Requests /\ failed' \in {r, Unlimited}
BY IdsOfRequests DEF AddFailed, Unlimited, AnyId

LEMMA AskFailsInv == ASSUME Inv, NEW c \in Chains, AskFails(c) PROVE Inv'
<1>1. \E X : Becomes(c, X)
  BY AskEndsMoves
<1>2. UNCHANGED <<server, headers_index, state, local, history>>
  BY DEF AskFails
<1>3. happened' \in 0 .. MaxHappens
  BY HappensFacts DEF Inv, AskFails, Happening
<1>4. failed' \in Requests
  <2>1. chain[c].request \in Requests /\ failed \in Requests
    BY ChainIs, ChainFields DEF Inv, HistoryInv
  <2> QED
    BY <2>1, AddFailedFacts DEF AskFails
<1>5. HistoryInv'
  BY <1>2, <1>3, <1>4 DEF Inv, HistoryInv, server, history
<1> QED
  BY <1>1, <1>2, <1>5, OnlyChains

LEMMA AskRefusedInv == ASSUME Inv, NEW c \in Chains, AskRefused(c) PROVE Inv'
<1>1. \E X : Becomes(c, X)
  BY AskEndsMoves
<1>2. UNCHANGED <<server, headers_index, state, local, failed, wanted, undone>>
  BY DEF AskRefused
<1>3. happened' \in 0 .. MaxHappens
  BY HappensFacts DEF Inv, AskRefused, Happening
<1>4. skipped' \subseteq Ids
  BY DEF AskRefused, Skip, Beyond, Inv, HistoryInv
<1>5. HistoryInv'
  BY <1>2, <1>3, <1>4 DEF Inv, HistoryInv, server
<1> QED
  BY <1>1, <1>2, <1>5, OnlyChains

LEMMA ValidateInv == ASSUME Inv, NEW c \in Chains, Validate(c) PROVE Inv'
<1>1. \E X : Becomes(c, X)
  BY ValidateMoves
<1>2. UNCHANGED <<server, headers_index, state, local, failed, wanted, undone, happened>>
  BY DEF Validate
<1>3. skipped' \subseteq Ids
  BY DEF Validate, Skip, Inv, HistoryInv
<1>4. HistoryInv'
  BY <1>2, <1>3 DEF Inv, HistoryInv, server
<1> QED
  BY <1>1, <1>2, <1>4, OnlyChains

LEMMA DownloadFailedHolesInv == ASSUME Inv, NEW c \in Chains, DownloadFailedHoles(c) PROVE Inv'
<1>1. \E X : Becomes(c, X)
  BY DownloadFailedHolesMoves
<1>2. UNCHANGED <<server, headers_index, state, local, history, happened>> /\ failed' = NoRequest
  BY DEF DownloadFailedHoles
<1>3. NoRequest \in Requests
  BY IdsOfRequests DEF NoRequest, AnyId
<1>4. HistoryInv'
  BY <1>2, <1>3 DEF Inv, HistoryInv, server, history
<1> QED
  BY <1>1, <1>2, <1>4, OnlyChains

LEMMA MergeStateFacts ==
    ASSUME StateInv, NEW last \in AnyId, NEW version \in Nat, version <= Len(patches),
           MergeState(last, version)
    PROVE  last_msgid' \in AnyId /\ patch_version' \in Nat /\ patch_version' <= Len(patches)
BY DEF MergeState, StateInv

LEMMA SetStateInv == ASSUME Inv, NEW c \in Chains, SetState(c) PROVE Inv'
<1>1. PICK X : Becomes(c, X)
  BY SetStateMoves
<1>2. /\ MergeState(chain[c].last, chain[c].version)
      /\ UNCHANGED <<server, headers_index, del_up_to, local, failed, history, happened>>
  BY DEF SetState
<1>3. /\ chain[c].last \in AnyId /\ chain[c].version \in Nat /\ chain[c].version <= Len(patches)
  BY ChainIs, ChainFields DEF Inv
<1>4. StateInv'
  <2>1. last_msgid' \in AnyId /\ patch_version' \in Nat /\ patch_version' <= Len(patches)
    BY <1>2, <1>3, MergeStateFacts DEF Inv
  <2> QED
    BY <1>2, <2>1 DEF Inv, StateInv, server, local
<1> QED
  BY <1>1, <1>2, <1>4, SameServer, SameEvent, SameIndex, SameHistory, ChainStep DEF Inv, local

LEMMA UpdateHistoryFacts ==
    ASSUME Inv, NEW block, HonestBlock(block, live, top), NEW from \in AnyId, NEW older,
           older = NoId /\ from # NoId
               => \A x \in live : x < from => \E n \in 1 .. Len(block) : block[n].id = x,
           UpdateHistory(block, from, older), UNCHANGED <<server, del_up_to>>
    PROVE  /\ IndexInv'
           /\ StoredIn(headers_index', headers_index, block, Len(block), live, Absent, top)
           /\ Absent' \subseteq Absent
           /\ undone' \subseteq Ids
<1>1. headers_index' = Stored(headers_index, block, from, older)
  BY DEF UpdateHistory
<1>2. /\ Absent \subseteq live /\ live \subseteq Ids /\ del_up_to \in AnyId
      /\ \A x \in Absent : x > del_up_to /\ x \notin DOMAIN headers_index
      /\ HonestIndex(headers_index, live, Absent, top) /\ top \in Nat
  BY AbsentIsLive DEF Inv, IndexInv, ServerInv, StateInv, Absent
<1>3. StoredIn(headers_index', headers_index, block, Len(block), live, Absent, top)
  <2> DEFINE M == Absent
  <2>1. /\ M \subseteq live /\ (\A x \in M : x > del_up_to /\ x \notin DOMAIN headers_index)
        /\ HonestIndex(headers_index, live, M, top)
    BY <1>2
  <2> HIDE DEF M
  <2>2. StoredIn(Stored(headers_index, block, from, older), headers_index, block, Len(block), live, M, top)
    BY <1>2, <2>1, StoredFacts
  <2> QED
    BY <1>1, <2>2 DEF M
<1>4. DOMAIN headers_index \subseteq DOMAIN headers_index' /\ HonestIndex(headers_index', live, Absent, top)
  BY <1>3 DEF StoredIn
<1>5. UNCHANGED <<live, top, del_up_to>>
  BY DEF server
<1>6. Absent' \subseteq Absent
  BY <1>4, <1>5 DEF Absent
<1>7. Later(live, Absent, top, live', Absent', top')
  BY <1>2, <1>5, <1>6 DEF Later
<1>8. HonestIndex(headers_index', live', Absent', top')
  BY <1>4, <1>7, IndexLater
<1>9. undone' \subseteq Ids
  BY DEF UpdateHistory, Inv, IndexInv, HonestIndex, HistoryInv
<1> QED
  BY <1>3, <1>6, <1>8, <1>9 DEF IndexInv

LEMMA StoreUpdates ==
    ASSUME Inv, NEW c \in Chains, Store(c)
    PROVE  /\ IndexInv'
           /\ StoredIn(headers_index', headers_index, chain[c].block, Len(chain[c].block), live, Absent, top)
           /\ Absent' \subseteq Absent
           /\ undone' \subseteq Ids
<1> DEFINE block == chain[c].block
           from == chain[c].hole.from
           older == chain[c].older
<1>1. UpdateHistory(block, from, older) /\ UNCHANGED <<server, del_up_to>> /\ chain[c].stage = "store"
  BY DEF Store, state
<1>2. chain[c] \in ChainState /\ ChainOK(chain[c])
  BY ChainIs DEF Inv
<1>3. from \in AnyId
  BY <1>2, ChainFields
<1>4. /\ HonestBlock(block, live, top)
      /\ older = NoId /\ from # NoId
             => \A x \in live : x < from => \E n \in 1 .. Len(block) : block[n].id = x
  BY <1>1, <1>2 DEF ChainOK, Oldest
<1> HIDE DEF block, from, older
<1>5. /\ IndexInv'
      /\ StoredIn(headers_index', headers_index, block, Len(block), live, Absent, top)
      /\ Absent' \subseteq Absent
      /\ undone' \subseteq Ids
  BY <1>1, <1>3, <1>4, UpdateHistoryFacts
<1> QED
  BY <1>5 DEF block

LEMMA StoreInv == ASSUME Inv, NEW c \in Chains, Store(c) PROVE Inv'
<1>1. PICK X : Becomes(c, X)
  BY StoreMoves
<1>2. UNCHANGED <<server, state, local, failed, wanted, skipped, happened>>
  BY DEF Store
<1>3. IndexInv' /\ undone' \subseteq Ids
  BY StoreUpdates
<1>4. HistoryInv'
  BY <1>2, <1>3 DEF Inv, HistoryInv, server
<1> QED
  BY <1>1, <1>2, <1>3, <1>4, SameServer, SameState, SameEvent, ChainStep DEF Inv, local

LEMMA NoEventFacts ==
    ASSUME ServerInv, NEW s \in {"none", "trim", "clear"}
    PROVE  LET e == [NoEvent EXCEPT !.stage = s]
           IN  e \in EventState /\ e.upTo <= emptied /\ e.block = <<>> /\ e.stage = s /\ e.last = NoId
<1> DEFINE e == [NoEvent EXCEPT !.stage = s]
           block == <<>>
           no == FALSE
<1>0. no \in BOOLEAN
  OBVIOUS
<1>1. block \in Seq(Header) /\ NoId \in AnyId /\ emptied \in Int /\ NoId <= emptied
  BY AnyIdIsInt DEF AnyId, ServerInv
<1>2. e = [stage |-> s, block |-> block, last |-> NoId, version |-> 0, upTo |-> NoId,
           changed |-> no, deletes |-> no]
  <2>1. NoEvent = [stage |-> "none", block |-> block, last |-> NoId, version |-> 0, upTo |-> NoId,
                   changed |-> no, deletes |-> no]
    BY DEF NoEvent
  <2> HIDE DEF no, block
  <2> QED
    BY <2>1
<1> HIDE DEF block, e, no
<1>3. e \in EventState
  BY <1>0, <1>1, <1>2 DEF EventState
<1>4. e.block = block /\ e.upTo = NoId /\ e.stage = s /\ e.last = NoId
  BY <1>2
<1> QED
  BY <1>1, <1>3, <1>4 DEF e, block

LEMMA NoEventIs == NoEvent = [NoEvent EXCEPT !.stage = "none"]
<1> DEFINE no == FALSE
<1>1. NoEvent = [stage |-> "none", block |-> <<>>, last |-> NoId, version |-> 0, upTo |-> NoId,
                 changed |-> no, deletes |-> no]
  BY DEF NoEvent
<1> HIDE DEF no
<1> QED
  BY <1>1

LEMMA EventEnds ==
    ASSUME ServerInv, NEW s \in {"none", "trim", "clear"},
           event' = [NoEvent EXCEPT !.stage = s], UNCHANGED server
    PROVE  EventInv'
<1> DEFINE e == [NoEvent EXCEPT !.stage = s]
<1>1. e \in EventState /\ e.upTo <= emptied /\ e.block = <<>>
  BY NoEventFacts
<1>2. HonestBlock(e.block, live, top)
  BY <1>1, NoHeaders
<1>3. event' = e /\ UNCHANGED <<live, top, emptied>>
  BY DEF server
<1> HIDE DEF e
<1> QED
  BY <1>1, <1>2, <1>3 DEF EventInv

LEMMA EventComesInv == Inv /\ EventComes => Inv'
<1> SUFFICES ASSUME Inv, EventComes PROVE Inv'
  OBVIOUS
<1> DEFINE last == Newest(live)
           news == last > last_msgid
           block == IF news THEN Block({last}, OlderThan(last)) ELSE <<>>
           changed == patch_version # Len(patches)
           deletes == emptied > del_up_to
<1>1. /\ event' = [stage |-> "merge", last |-> last, version |-> Len(patches), upTo |-> emptied,
                   block |-> block, changed |-> changed, deletes |-> deletes]
      /\ UNCHANGED <<server, headers_index, state, copy, chain, failed, history, happened>>
  BY DEF EventComes
<1>2. /\ live \subseteq Ids /\ (\A x \in live : x <= top) /\ patches \in Seq(Ids)
      /\ emptied \in AnyId /\ emptied \in Int
  BY AnyIdIsInt DEF Inv, ServerInv
<1>3. last \in AnyId /\ (last = NoId \/ last \in live)
  BY <1>2, NewestFacts
<1>4. last_msgid \in Int /\ last_msgid >= NoId
  BY AnyIdIsInt DEF Inv, StateInv
<1>5. HonestBlock(block, live, top)
  <2>1. CASE news
    <3>1. last \in live
      BY <1>3, <1>4, <2>1 DEF NoId
    <3> HIDE DEF last
    <3>2. HonestBlock(Block({last}, OlderThan(last)), live, top)
      BY <1>2, <3>1, NewestBlock
    <3> QED
      BY <2>1, <3>2
  <2>2. CASE ~news
    BY <2>2, NoHeaders
  <2> QED
    BY <2>1, <2>2
<1>6. changed \in BOOLEAN /\ deletes \in BOOLEAN
  OBVIOUS
<1> HIDE DEF last, block, changed, deletes
<1>7. block \in Seq(Header) /\ Len(patches) \in Nat
  BY <1>2, <1>5 DEF HonestBlock
<1>8. /\ event' \in EventState /\ event'.upTo = emptied /\ event'.block = block
      /\ event'.stage = "merge"
  BY <1>1, <1>2, <1>3, <1>6, <1>7 DEF EventState
<1>9. EventInv'
  BY <1>1, <1>2, <1>5, <1>8 DEF EventInv, server
<1>10. UNCHANGED del_up_to
  BY <1>1 DEF state
<1> QED
  BY <1>1, <1>9, <1>10, SameServer, SameState, SameIndex, SameChains, SameHistory DEF Inv

LEMMA MergeServerStateFacts ==
    ASSUME Inv, MergeServerState, UNCHANGED <<server, headers_index>>
    PROVE  /\ last_msgid' \in AnyId /\ del_up_to' \in AnyId /\ del_up_to' <= emptied
           /\ del_up_to <= del_up_to' /\ IndexInv' /\ Absent' \subseteq Absent
<1>1. /\ event.last \in AnyId /\ event.upTo \in AnyId /\ event.upTo \in Int /\ event.upTo <= emptied
      /\ last_msgid \in AnyId /\ del_up_to \in AnyId /\ del_up_to \in Int /\ del_up_to <= emptied
  BY AnyIdIsInt DEF Inv, StateInv, EventInv, EventState
<1>2. del_up_to' \in {del_up_to, event.upTo} /\ (del_up_to' = event.upTo => del_up_to <= del_up_to')
  BY <1>1 DEF MergeServerState
<1>3. last_msgid' \in {last_msgid, event.last}
  BY DEF MergeServerState
<1>4. del_up_to' \in AnyId /\ del_up_to' \in Int /\ del_up_to' <= emptied /\ del_up_to <= del_up_to'
  BY <1>1, <1>2
<1>5. UNCHANGED <<live, top>> /\ live \subseteq Ids /\ top \in Nat
  BY DEF server, Inv, ServerInv
<1>6. Absent' \subseteq Absent /\ Absent' \subseteq Ids
  BY <1>1, <1>4, <1>5, IdsAreNat DEF Absent
<1>7. Later(live, Absent, top, live', Absent', top')
  BY <1>5, <1>6 DEF Later
<1>8. HonestIndex(headers_index', live', Absent', top')
  BY <1>7, IndexLater DEF Inv, IndexInv
<1> QED
  BY <1>1, <1>3, <1>4, <1>6, <1>8 DEF IndexInv

LEMMA EventMergesInv == ASSUME Inv, NEW c \in Chains, EventMerges(c) PROVE Inv'
<1> DEFINE news == event.block # <<>>
           stage == IF event.deletes /\ ~news THEN "delete" ELSE "store"
           last == IF news THEN event.last ELSE last_msgid'
<1>1. /\ MergeServerState
      /\ event' = [NoEvent EXCEPT !.stage = stage, !.block = event.block, !.deletes = event.deletes,
                                  !.last = last]
      /\ UNCHANGED <<server, headers_index, patch_version, copy, failed, history, happened>>
  BY DEF EventMerges
<1>2. /\ last_msgid' \in AnyId /\ del_up_to' \in AnyId /\ del_up_to' <= emptied /\ IndexInv'
  BY <1>1, MergeServerStateFacts
<1>3. StateInv'
  BY <1>1, <1>2 DEF Inv, StateInv, server
<1>4. event \in EventState /\ event.block \in Seq(Header) /\ event.deletes \in BOOLEAN
      /\ event.last \in AnyId /\ HonestBlock(event.block, live, top)
  BY DEF Inv, EventInv, EventState
<1>5. EventInv'
  <2>1. NoEvent \in EventState /\ NoEvent.upTo = NoId
    <3> DEFINE e == [NoEvent EXCEPT !.stage = "none"]
    <3>1. e \in EventState
      BY NoEventFacts DEF Inv
    <3>2. e = NoEvent
      BY NoEventIs
    <3>3. NoEvent.upTo = NoId
      BY DEF NoEvent
    <3> HIDE DEF e
    <3> QED
      BY <3>1, <3>2, <3>3
  <2>2. stage \in {"delete", "store"} /\ last \in AnyId /\ (event.block # <<>> => stage = "store")
    BY <1>2, <1>4
  <2> HIDE DEF stage, last
  <2> DEFINE b == event.block
             d == event.deletes
  <2>3. b \in Seq(Header) /\ d \in BOOLEAN /\ HonestBlock(b, live, top)
        /\ (b # <<>> => stage = "store")
    BY <1>4, <2>2
  <2>4. event' = [NoEvent EXCEPT !.stage = stage, !.block = b, !.deletes = d, !.last = last]
    BY <1>1
  <2> HIDE DEF b, d
  <2>5. event' \in EventState /\ event'.upTo = NoId /\ event'.block = b /\ event'.stage = stage
    BY <2>1, <2>2, <2>3, <2>4 DEF EventState
  <2>6. emptied \in Int /\ NoId <= emptied
    BY AnyIdIsInt DEF Inv, ServerInv
  <2> QED
    BY <1>1, <2>2, <2>3, <2>5, <2>6 DEF EventInv, server
<1>6. ChainInv'
  <2>1. UNCHANGED chain \/ \E X : Becomes(c, X)
    BY EventMergesMoves
  <2> QED
    BY <1>1, <2>1, SameChains, ChainStep DEF Inv
<1> QED
  BY <1>1, <1>2, <1>3, <1>5, <1>6, SameServer, SameHistory DEF Inv

LEMMA EventStoresUpdates ==
    ASSUME Inv, NEW c \in Chains, EventStores(c)
    PROVE  /\ IndexInv'
           /\ StoredIn(headers_index', headers_index, event.block, Len(event.block), live, Absent, top)
           /\ Absent' \subseteq Absent
           /\ undone' \subseteq Ids
<1>1. UpdateHistory(event.block, NoId, 0) /\ UNCHANGED <<server, del_up_to>>
  BY DEF EventStores, state
<1>2. HonestBlock(event.block, live, top) /\ NoId \in AnyId
  BY DEF Inv, EventInv, AnyId
<1> QED
  BY <1>1, <1>2, UpdateHistoryFacts

LEMMA EventStoresInv == ASSUME Inv, NEW c \in Chains, EventStores(c) PROVE Inv'
<1>1. /\ event' = IF event.deletes THEN [NoEvent EXCEPT !.stage = "trim"] ELSE NoEvent
      /\ UNCHANGED <<server, state, copy, failed, wanted, skipped, happened>>
  BY DEF EventStores
<1>2. EventInv'
  BY <1>1, NoEventIs, EventEnds DEF Inv
<1>3. IndexInv' /\ undone' \subseteq Ids
  BY EventStoresUpdates
<1>4. HistoryInv'
  BY <1>1, <1>3 DEF Inv, HistoryInv, server
<1>5. ChainInv'
  <2>1. UNCHANGED chain \/ \E X : Becomes(c, X)
    BY EventStoresMoves
  <2> QED
    BY <1>1, <2>1, SameChains, ChainStep DEF Inv
<1> QED
  BY <1>1, <1>2, <1>3, <1>4, <1>5, SameServer, SameState DEF Inv

LEMMA EventDeletesCuts ==
    ASSUME Inv, EventDeletes
    PROVE  /\ CutUpTo(headers_index', headers_index, del_up_to, live, Absent, top)
           /\ Absent' \subseteq Absent /\ IndexInv'
<1>1. headers_index' = DeleteUpTo(headers_index, del_up_to) /\ UNCHANGED <<server, del_up_to>>
  BY DEF EventDeletes
<1>2. /\ Absent \subseteq live /\ live \subseteq Ids /\ top \in Nat
      /\ \A x \in live : x > del_up_to
  <2>1. \A x \in live : x \in Nat /\ x > emptied
    BY AbsentIsLive, IdsAreNat DEF Inv, ServerInv
  <2>2. del_up_to \in Int /\ emptied \in Int /\ del_up_to <= emptied
    BY AnyIdIsInt DEF Inv, StateInv, ServerInv
  <2> QED
    BY <2>1, <2>2, AbsentIsLive DEF Inv, ServerInv
<1>3. CutUpTo(headers_index', headers_index, del_up_to, live, Absent, top)
  BY <1>1, <1>2, DeleteUpToFacts DEF Inv, IndexInv
<1>4. UNCHANGED <<live, top, del_up_to>>
  BY <1>1 DEF server
<1>5. Absent' \subseteq Absent
  BY <1>3, <1>4 DEF Absent, CutUpTo
<1>6. Later(live, Absent, top, live', Absent', top')
  BY <1>2, <1>4, <1>5 DEF Later
<1>7. HonestIndex(headers_index', live', Absent', top')
  BY <1>3, <1>6, IndexLater DEF CutUpTo
<1> QED
  BY <1>3, <1>5, <1>7 DEF IndexInv

LEMMA EventDeletesInv == Inv /\ EventDeletes => Inv'
<1> SUFFICES ASSUME Inv, EventDeletes PROVE Inv'
  OBVIOUS
<1>1. /\ last_msgid' = IF last_msgid <= del_up_to THEN NoId ELSE last_msgid
      /\ event' = IF event.stage = "delete" THEN [NoEvent EXCEPT !.stage = "clear"] ELSE NoEvent
      /\ UNCHANGED <<server, del_up_to, patch_version, copy, chain, failed, history, happened>>
  BY DEF EventDeletes
<1>2. EventInv'
  BY <1>1, NoEventIs, EventEnds DEF Inv
<1>3. StateInv'
  BY <1>1 DEF Inv, StateInv, server, AnyId
<1>4. IndexInv'
  BY EventDeletesCuts
<1> QED
  BY <1>1, <1>2, <1>3, <1>4, SameServer, SameChains, SameHistory DEF Inv

LEMMA TakeCopyFacts ==
    ASSUME Inv, TakeCopy, UNCHANGED <<server, state>> PROVE StateInv'
<1>1. copy' = [taken |-> TRUE, last |-> last_msgid, version |-> patch_version]
  BY DEF TakeCopy
<1>2. last_msgid \in AnyId /\ patch_version \in Nat /\ patch_version <= Len(patches)
  BY DEF Inv, StateInv
<1>3. copy' \in CopyState /\ copy'.version = patch_version
  BY <1>1, <1>2 DEF CopyState
<1> QED
  BY <1>2, <1>3 DEF Inv, StateInv, server, state

LEMMA LocalReadInv == Inv /\ LocalRead => Inv'
<1> SUFFICES ASSUME Inv, LocalRead PROVE Inv'
  OBVIOUS
<1>1. TakeCopy /\ UNCHANGED <<server, headers_index, state, event, chain, failed, history>>
  BY DEF LocalRead
<1>2. happened' \in 0 .. MaxHappens
  BY HappensFacts DEF Inv, LocalRead, Happening
<1>3. StateInv'
  BY <1>1, TakeCopyFacts
<1>4. HistoryInv'
  BY <1>1, <1>2 DEF Inv, HistoryInv, history, server
<1>5. UNCHANGED del_up_to
  BY <1>1 DEF state
<1> QED
  BY <1>1, <1>3, <1>4, <1>5, SameServer, SameEvent, SameIndex, SameChains DEF Inv

LEMMA ClearReadInv == Inv /\ ClearRead => Inv'
<1> SUFFICES ASSUME Inv, ClearRead PROVE Inv'
  OBVIOUS
<1>1. /\ TakeCopy /\ event' = NoEvent
      /\ UNCHANGED <<server, headers_index, state, chain, failed, history, happened>>
  BY DEF ClearRead
<1>2. StateInv'
  BY <1>1, TakeCopyFacts
<1>3. EventInv'
  BY <1>1, NoEventIs, EventEnds DEF Inv
<1>4. UNCHANGED del_up_to
  BY <1>1 DEF state
<1> QED
  BY <1>1, <1>2, <1>3, <1>4, SameServer, SameIndex, SameChains, SameHistory DEF Inv

LEMMA NoCopyFacts == NoCopy \in CopyState /\ NoCopy.version = 0
BY DEF NoCopy, CopyState, AnyId

LEMMA LocalWriteInv == Inv /\ LocalWrite => Inv'
<1> SUFFICES ASSUME Inv, LocalWrite PROVE Inv'
  OBVIOUS
<1>1. /\ copy' = NoCopy /\ MergeState(copy.last, copy.version)
      /\ UNCHANGED <<server, headers_index, del_up_to, event, chain, failed, history, happened>>
  BY DEF LocalWrite
<1>2. copy.last \in AnyId /\ copy.version \in Nat /\ copy.version <= Len(patches)
  BY DEF Inv, StateInv, CopyState
<1>3. last_msgid' \in AnyId /\ patch_version' \in Nat /\ patch_version' <= Len(patches)
  BY <1>1, <1>2, MergeStateFacts DEF Inv
<1>4. 0 <= Len(patches)
  BY DEF Inv, ServerInv
<1>5. StateInv'
  BY <1>1, <1>3, <1>4, NoCopyFacts DEF Inv, StateInv, server
<1> QED
  BY <1>1, <1>5, SameServer, SameEvent, SameIndex, SameChains, SameHistory DEF Inv

LEMMA IdleChains ==
    ASSUME ServerInv
    PROVE  [c \in Chains |-> Idle] \in [Chains -> ChainState] /\ Idle.version <= Len(patches) /\ ChainOK(Idle)
<1> DEFINE I == [Idle EXCEPT !.stage = "idle"]
<1>1. EmptyChain(I)
  BY IdleFacts
<1>2. I = Idle
  BY DEF Idle
<1> HIDE DEF I
<1>3. Idle \in ChainState /\ Idle.version <= Len(patches) /\ ChainOK(Idle)
  BY <1>1, <1>2 DEF EmptyChain
<1> QED
  BY <1>3

LEMMA CrashInv == Inv /\ Crash => Inv'
<1> SUFFICES ASSUME Inv, Crash PROVE Inv'
  OBVIOUS
<1>1. /\ chain' = [c \in Chains |-> Idle] /\ failed' = NoRequest
      /\ event' = NoEvent /\ copy' = NoCopy /\ wanted' = NoId /\ skipped' = {}
      /\ undone' = undone \cup {i \in Ids : InAnswer(i)}
      /\ UNCHANGED <<server, headers_index, state>>
  BY DEF Crash
<1>2. happened' \in 0 .. MaxHappens
  BY HappensFacts DEF Inv, Crash, Happening
<1>3. EventInv'
  BY <1>1, NoEventIs, EventEnds DEF Inv
<1>4. StateInv'
  <2>1. 0 <= Len(patches)
    BY DEF Inv, ServerInv
  <2> QED
    BY <1>1, <2>1, NoCopyFacts DEF Inv, StateInv, server, state
<1>5. HistoryInv'
  <2>1. NoRequest \in Requests /\ NoId \in AnyId
    BY IdsOfRequests DEF NoRequest, AnyId
  <2>2. NoId <= top'
    BY <1>1 DEF Inv, ServerInv, server, NoId
  <2>3. undone' \subseteq Ids
    BY <1>1 DEF Inv, HistoryInv
  <2> QED
    BY <1>1, <1>2, <2>1, <2>2, <2>3 DEF HistoryInv
<1>6. ChainInv'
  <2>1. [c \in Chains |-> Idle] \in [Chains -> ChainState] /\ Idle.version <= Len(patches) /\ ChainOK(Idle)
    BY IdleChains DEF Inv
  <2>2. UNCHANGED <<live, top, patches>>
    BY <1>1 DEF server
  <2> QED
    BY <1>1, <2>1, <2>2 DEF ChainInv, ChainOK, Oldest
<1>7. UNCHANGED del_up_to
  BY <1>1 DEF state
<1> QED
  BY <1>1, <1>3, <1>4, <1>5, <1>6, <1>7, SameServer, SameIndex DEF Inv

LEMMA InitInv == Init => Inv
<1> SUFFICES ASSUME Init PROVE Inv
  OBVIOUS
<1>1. /\ live = 1 .. StartTop /\ top = StartTop /\ patches = <<>> /\ emptied = NoId
      /\ del_up_to = NoId /\ patch_version = 0
      /\ event = NoEvent /\ copy = NoCopy /\ chain = [c \in Chains |-> Idle]
      /\ failed = NoRequest /\ wanted = NoId /\ skipped = {} /\ undone = {} /\ happened = 0
  BY DEF Init
<1>2. PICK stored \in SUBSET (1 .. StartTop) :
          /\ headers_index = [i \in stored |-> Message(i, IF i = 1 THEN NoId ELSE i - 1, 0)]
          /\ last_msgid = Newest(stored)
  BY DEF Init
<1>3. StartTop \in Nat /\ 1 .. StartTop \subseteq Ids /\ MaxHappens \in Nat
  BY HolesAssumption
<1>4. stored \subseteq Ids /\ \A i \in stored : i \in 1 .. StartTop
  BY <1>2, <1>3
<1>5. ServerInv
  BY <1>1, <1>3, IdsAreNat DEF ServerInv, AnyId, NoId
<1>6. StateInv
  <2>1. last_msgid \in AnyId
    BY <1>2, <1>4, NewestFacts
  <2> QED
    BY <1>1, <2>1, NoCopyFacts DEF StateInv, AnyId, NoId
<1>7. EventInv
  <2> DEFINE e == [NoEvent EXCEPT !.stage = "none"]
  <2>1. e \in EventState /\ e.upTo <= emptied /\ e.block = <<>>
    BY <1>5, NoEventFacts
  <2>2. e = event
    BY <1>1, NoEventIs
  <2> HIDE DEF e
  <2>3. HonestBlock(event.block, live, top)
    BY <2>1, <2>2, NoHeaders
  <2> QED
    BY <2>1, <2>2, <2>3 DEF EventInv
<1>8. ChainInv
  <2>1. [c \in Chains |-> Idle] \in [Chains -> ChainState] /\ Idle.version <= Len(patches) /\ ChainOK(Idle)
    BY <1>5, IdleChains
  <2> QED
    BY <1>1, <2>1 DEF ChainInv
<1>9. IndexInv
  <2>1. DOMAIN headers_index = stored
    BY <1>2
  <2>2. ASSUME NEW i \in stored
        PROVE  /\ headers_index[i] \in Header /\ headers_index[i].id = i
               /\ Honest(headers_index[i], live, Absent, top)
    <3> DEFINE p == IF i = 1 THEN NoId ELSE i - 1
    <3>1. i \in Ids /\ i \in Nat /\ i <= StartTop /\ i > 0 /\ p \in AnyId /\ p \in Int /\ p < i
          /\ (p = NoId \/ p = i - 1) /\ (p = NoId => i = 1)
      BY <1>3, <1>4, IdsAreNat DEF AnyId, NoId
    <3>2. headers_index[i] = Message(i, p, 0)
      BY <1>2
    <3> HIDE DEF p
    <3> DEFINE h == headers_index[i]
    <3>7. h = Message(i, p, 0)
      BY <3>2
    <3>8. /\ Message(i, p, 0) \in Header
          /\ Message(i, p, 0).id = i /\ Message(i, p, 0).prev = p
          /\ Message(i, p, 0).known = TRUE /\ Message(i, p, 0).patch = FALSE
          /\ Message(i, p, 0).deleted = FALSE
      BY <3>1, MessageFacts
    <3> HIDE DEF h
    <3>3. /\ h \in Header /\ h.id = i /\ h.prev = p /\ h.known = TRUE
          /\ h.patch = FALSE /\ h.deleted = FALSE
      BY <3>7, <3>8, Zenon
    <3>4. \A x \in Absent : x \in Nat /\ x > 0
      BY <1>1, <1>5, AbsentIsLive, IdsAreNat
    <3>5. \A x \in Absent : ~(p < x /\ x < i)
      BY <3>1, <3>4
    <3>6. Honest(h, live, Absent, top)
      BY <1>1, <3>1, <3>3, <3>5 DEF Honest
    <3> QED
      BY <3>3, <3>6 DEF h
  <2> QED
    BY <1>4, <2>1, <2>2 DEF IndexInv, HonestIndex
<1>10. HistoryInv
  <2>1. NoRequest \in Requests /\ NoId \in AnyId
    BY IdsOfRequests DEF NoRequest, AnyId
  <2> QED
    BY <1>1, <1>3, <2>1 DEF HistoryInv, NoId
<1> QED
  BY <1>5, <1>6, <1>7, <1>8, <1>9, <1>10 DEF Inv

LEMMA ChainsInv ==
    ASSUME Inv, NEW c \in Chains,
           \/ OpenDialog(c) \/ DownloadFailedHoles(c) \/ EventMerges(c) \/ EventStores(c)
           \/ Begin(c) \/ FindHole(c) \/ CheckHole(c) \/ Answer(c) \/ AskFails(c) \/ AskRefused(c)
           \/ SetState(c) \/ Store(c) \/ Validate(c)
    PROVE  Inv'
BY OpenDialogInv, DownloadFailedHolesInv, EventMergesInv, EventStoresInv, BeginInv, FindHoleInv,
   CheckHoleInv, AnswerInv, AskFailsInv, AskRefusedInv, SetStateInv, StoreInv, ValidateInv

LEMMA StutterInv == Inv /\ UNCHANGED vars => Inv'
<1> SUFFICES ASSUME Inv, UNCHANGED vars PROVE Inv'
  OBVIOUS
<1>1. UNCHANGED <<server, state, copy, event, headers_index, del_up_to, failed, history, happened, chain>>
  BY DEF vars, local, state
<1> QED
  BY <1>1, SameServer, SameState, SameEvent, SameIndex, SameHistory, SameChains DEF Inv

LEMMA NextInv == Inv /\ [Next]_vars => Inv'
<1> SUFFICES ASSUME Inv, [Next]_vars PROVE Inv'
  OBVIOUS
<1>1. CASE NewMessage \/ \E i \in Ids : ServerDeletes(i) \/ ServerDeletesUpTo(i)
  BY <1>1, NewMessageInv, ServerDeletesInv, ServerDeletesUpToInv
<1>2. CASE EventComes \/ EventDeletes \/ LocalRead \/ ClearRead \/ LocalWrite \/ Crash
  BY <1>2, EventComesInv, EventDeletesInv, LocalReadInv, ClearReadInv, LocalWriteInv, CrashInv
<1>3. CASE \E c \in Chains :
             \/ OpenDialog(c) \/ DownloadFailedHoles(c) \/ EventMerges(c) \/ EventStores(c)
             \/ Begin(c) \/ FindHole(c) \/ CheckHole(c) \/ Answer(c) \/ AskFails(c) \/ AskRefused(c)
             \/ SetState(c) \/ Store(c) \/ Validate(c)
  BY <1>3, ChainsInv
<1>4. CASE UNCHANGED vars
  BY <1>4, StutterInv
<1> QED
  BY <1>1, <1>2, <1>3, <1>4 DEF Next

\* The invariant holds in every state: what the archive, the event and the chains hold is honest
\* about the server, and the state is not ahead of it.
THEOREM Invariant == Spec => []Inv
<1>1. Init => Inv
  BY InitInv
<1>2. Inv /\ [Next]_vars => Inv'
  BY NextInv
<1> QED
  BY <1>1, <1>2, PTL DEF Spec

LEMMA TypesHold == Inv => TypeOK
<1> SUFFICES ASSUME Inv PROVE TypeOK
  OBVIOUS
<1>1. /\ live \subseteq 1 .. top /\ top \in Nat /\ patches \in Seq(Ids) /\ emptied \in Ids \cup {NoId}
      /\ Len(patches) \in Nat
  BY DEF Inv, ServerInv, AnyId
<1>2. /\ DOMAIN headers_index \subseteq Ids
      /\ \A i \in DOMAIN headers_index : headers_index[i] \in Header /\ headers_index[i].id = i
  BY DEF Inv, IndexInv, HonestIndex
<1>3. /\ last_msgid \in Ids \cup {NoId} /\ del_up_to \in {NoId} \cup {i \in Ids : i <= emptied}
      /\ patch_version \in 0 .. Len(patches) /\ copy.version \in 0 .. Len(patches)
  BY <1>1 DEF Inv, StateInv, CopyState, AnyId
<1>4. ASSUME NEW c \in Chains
      PROVE  /\ chain[c].stage \in Stages
             /\ chain[c].request \in Requests /\ chain[c].tail \in Int
             /\ chain[c].version \in 0 .. Len(patches)
             /\ chain[c].block # <<>> => chain[c].stage \in {"answered", "store"}
             /\ \A m \in Range(chain[c].block) : m \in Header
             /\ chain[c].stage = "idle" => chain[c] = Idle
  <2>1. /\ chain[c] \in ChainState /\ chain[c].version <= Len(patches) /\ ChainOK(chain[c])
    BY ChainIs DEF Inv
  <2>2. /\ chain[c].stage \in Stages /\ chain[c].request \in Requests /\ chain[c].tail \in Int
        /\ chain[c].version \in Nat /\ chain[c].block \in Seq(Header)
    BY <2>1, ChainFields
  <2>3. \A m \in Range(chain[c].block) : m \in Header
    BY <2>2 DEF Range
  <2>4. chain[c].stage = "idle" => chain[c] = [Idle EXCEPT !.stage = "idle"]
    BY <2>1 DEF ChainOK
  <2>5. [Idle EXCEPT !.stage = "idle"] = Idle
    BY DEF Idle
  <2>6. chain[c].block # <<>> => chain[c].stage \in {"answered", "store"}
    BY <2>1 DEF ChainOK
  <2> QED
    BY <1>1, <2>1, <2>2, <2>3, <2>4, <2>5, <2>6
<1>5. event.block # <<>> => event.stage \in {"merge", "store"}
  BY DEF Inv, EventInv
<1>6. failed \in Requests /\ happened \in 0 .. MaxHappens
  BY DEF Inv, HistoryInv
<1> QED
  BY <1>1, <1>2, <1>3, <1>4, <1>5, <1>6 DEF TypeOK

\* What the chains, the event and the index hold fits, at every stage.
THEOREM TypeCorrect == Spec => []TypeOK
BY Invariant, TypesHold, PTL

-----------------------------------------------------------------------------
(* No gap is forgotten *)

\* A message that lives and is not visible is not in the index: what hides a message is its deletion.
LEMMA MissingIsAbsent == Inv => Missing = Absent
<1> SUFFICES ASSUME Inv, NEW x \in live, x \in DOMAIN headers_index
             PROVE  x \in VisibleIds(headers_index)
  BY DEF Missing, Absent, VisibleIds
<1>1. headers_index[x].id = x /\ Honest(headers_index[x], live, Absent, top)
  BY DEF Inv, IndexInv, HonestIndex
<1>2. ~headers_index[x].deleted /\ ~headers_index[x].patch
  BY <1>1 DEF Honest
<1> QED
  BY <1>2 DEF VisibleIds, Visible

\* the oldest visible message that is newer than x
Above(x, i) ==
    /\ i \in VisibleIds(headers_index) /\ x < i
    /\ Older(headers_index, i) < x
    /\ \A j \in VisibleIds(headers_index) : x < j => i <= j

LEMMA AboveExists ==
    ASSUME Inv, NEW x \in Absent, NEW k \in VisibleIds(headers_index), x < k
    PROVE  \E i : Above(x, i)
<1> DEFINE S == {i \in VisibleIds(headers_index) : x < i}
           m == Min(S)
<1>1. /\ VisibleIds(headers_index) \subseteq Ids /\ DOMAIN headers_index \subseteq Ids
      /\ x \in Nat /\ x \notin VisibleIds(headers_index) /\ x > 0
  BY AbsentIsLive, IdsAreNat DEF Inv, IndexInv, HonestIndex, VisibleIds, Absent
<1>2. S \subseteq Ids /\ S # {}
  BY <1>1
<1>3. m \in S /\ \A y \in S : m <= y
  <2> HIDE DEF S
  <2> QED
    BY <1>2, MinFacts
<1>4. m \in VisibleIds(headers_index) /\ x < m /\ \A j \in VisibleIds(headers_index) : x < j => m <= j
  BY <1>3
<1> HIDE DEF m, S
<1>5. Older(headers_index, m) < x
  <2> DEFINE o == Older(headers_index, m)
  <2>1. o = NoId \/ (o \in VisibleIds(headers_index) /\ o < m)
    BY <1>1, OlderFacts
  <2> HIDE DEF o
  <2>2. CASE o = NoId
    BY <1>1, <2>2 DEF NoId, o
  <2>3. CASE o \in VisibleIds(headers_index) /\ o < m
    <3>1. o \in Nat /\ m \in Nat
      BY <1>1, <1>4, <2>3, IdsAreNat
    <3>2. ~(x < o) /\ o # x
      BY <1>1, <1>4, <2>3, <3>1
    <3> QED
      BY <1>1, <3>1, <3>2 DEF o
  <2> QED
    BY <2>1, <2>2, <2>3
<1> QED
  BY <1>4, <1>5 DEF Above

\* Above a message that is missing the link does not lead to the next one, or nobody told it.
LEMMA LinkShows ==
    ASSUME Inv, NEW x \in Absent, NEW i, Above(x, i)
    PROVE  headers_index[i].prev # Older(headers_index, i) \/ x \in Untold
<1>1. /\ i \in DOMAIN headers_index /\ headers_index[i].id = i
      /\ Honest(headers_index[i], live, Absent, top) /\ x \in Ids
  BY AbsentIsLive DEF Above, VisibleIds, Inv, IndexInv, HonestIndex
<1>2. CASE headers_index[i].known
  BY <1>1, <1>2 DEF Above, Honest
<1>3. CASE ~headers_index[i].known
  BY <1>1, <1>3 DEF Above, Untold
<1> QED
  BY <1>2, <1>3

LEMMA HoleIsShown == ASSUME Inv, NEW x \in Absent PROVE HoleShows(x) \/ x \in Untold
<1>1. CASE \A i \in VisibleIds(headers_index) : i < x
  BY <1>1 DEF HoleShows
<1>2. CASE ~(\A i \in VisibleIds(headers_index) : i < x)
  <2>1. PICK k \in VisibleIds(headers_index) : ~(k < x)
    BY <1>2
  <2>2. k \in Nat /\ x \in Nat /\ k # x
    BY <2>1, AbsentIsLive, IdsAreNat DEF Inv, IndexInv, HonestIndex, VisibleIds, Absent
  <2>3. PICK i : Above(x, i)
    BY <2>1, <2>2, AboveExists
  <2> QED
    BY <2>3, LinkShows DEF Above, HoleShows
<1> QED
  BY <1>1, <1>2

LEMMA NothingCovered ==
    ASSUME NEW r, r \in {NoRequest, Opening}, NEW x PROVE ~Covers(r, x)
BY DEF Covers, NoRequest, Opening

\* What a chain had before it, when it becomes X, is followed some other way.
LEMMA FollowedStep ==
    ASSUME Inv, NEW c \in Chains, NEW X, Becomes(c, X), NEW x,
           Followed(x),
           skipped \subseteq skipped',
           Covers(failed, x) => Covers(failed', x) \/ Ahead(c, x)' \/ x \in skipped',
           Ahead(c, x) => Ahead(c, x)' \/ Covers(failed', x) \/ x \in skipped'
    PROVE  Followed(x)'
<1>1. \A d \in Chains : d # c => chain'[d] = chain[d]
  BY DEF Becomes, Inv, ChainInv
<1>2. \A d \in Chains : d # c /\ Ahead(d, x) => Ahead(d, x)'
  BY <1>1 DEF Ahead, Covers
<1> QED
  BY <1>2 DEF Followed

\* A chain that asked for no history does not matter.
LEMMA FollowedOthers ==
    ASSUME Inv, NEW c \in Chains, NEW X, Becomes(c, X), NEW x, Followed(x),
           skipped \subseteq skipped', UNCHANGED failed, chain[c].request \in {NoRequest, Opening}
    PROVE  Followed(x)'
<1>1. ~Ahead(c, x)
  BY NothingCovered DEF Ahead
<1> QED
  BY <1>1, FollowedStep

LEMMA FollowedSame ==
    ASSUME NEW x, Followed(x), UNCHANGED <<chain, failed, skipped>>
    PROVE  Followed(x)'
BY DEF Followed, Ahead, Covers

\* Nothing more is missing and nothing more is wanted.
LEMMA GapStays ==
    ASSUME GapInv, Absent' \subseteq Absent, UNCHANGED wanted,
           \A x \in Absent' : Followed(x) => Followed(x)'
    PROVE  GapInv'
BY DEF GapInv

\* A search without a limit sees each missing message before it, but those it passes over and those
\* the server never told of.
LEMMA SearchSees ==
    ASSUME Inv, NEW x \in Absent, NEW from \in AnyId, NEW hole,
           FoundHole(hole, headers_index, from, -1), hole.error # "index_not_found",
           from = NoId \/ x <= from
    PROVE  \/ x \in PassedOver(from) \cup Untold
           \/ hole.error = "ok" /\ (hole.from = NoId \/ x < hole.from)
<1> DEFINE s == Start(headers_index, from)
<1>1. /\ DOMAIN headers_index \subseteq Ids /\ VisibleIds(headers_index) \subseteq DOMAIN headers_index
      /\ x \in Ids /\ x \in Nat /\ x > 0 /\ x \notin DOMAIN headers_index
  BY AbsentIsLive, IdsAreNat DEF Inv, IndexInv, HonestIndex, VisibleIds, Absent
<1>2. /\ s \in AnyId /\ s \in Int /\ (s = NoId \/ s \in VisibleIds(headers_index))
      /\ \A i \in VisibleIds(headers_index) : from = NoId \/ i <= from => i <= s
  BY <1>1, StartFacts, AnyIdIsInt
<1>3. hole \in Holes /\ hole.error \in {"ok", "index_not_found", "reached"} /\ hole.from \in AnyId
  BY DEF FoundHole, Holes
<1>4. CASE hole.error = "ok" /\ hole.from = NoId
  BY <1>4
<1>5. CASE hole.error = "reached" \/ hole.from # NoId
  <2>1. /\ from = NoId \/ from \in DOMAIN headers_index
        /\ \A i \in VisibleIds(headers_index) :
              i <= s /\ headers_index[i].prev # Older(headers_index, i) => hole.error = "ok" /\ i <= hole.from
    BY <1>5 DEF FoundHole
  <2>2. CASE x < s
    <3>1. s \in VisibleIds(headers_index)
      BY <1>1, <1>2, <2>2 DEF NoId
    <3> HIDE DEF s
    <3>2. PICK i : Above(x, i)
      BY <2>2, <3>1, AboveExists
    <3>3. i \in VisibleIds(headers_index) /\ i <= s /\ x < i
      BY <2>2, <3>1, <3>2 DEF Above
    <3>4. CASE x \in Untold
      BY <3>4
    <3>5. CASE headers_index[i].prev # Older(headers_index, i)
      <4>1. hole.error = "ok" /\ i <= hole.from
        BY <2>1, <3>3, <3>5
      <4>2. i \in Nat /\ hole.from \in Int
        BY <1>1, <1>3, <3>3, IdsAreNat, AnyIdIsInt
      <4> QED
        BY <1>1, <3>3, <4>1, <4>2
    <3> QED
      BY <3>2, <3>4, <3>5, LinkShows
  <2>3. CASE ~(x < s)
    <3>1. x > s
      <4>1. x # s
        BY <1>1, <1>2 DEF NoId
      <4> HIDE DEF s
      <4> QED
        BY <1>1, <1>2, <2>3, <4>1
    <3>2. CASE from = NoId
      BY <1>1, <3>1, <3>2 DEF PassedOver, Start
    <3>3. CASE from # NoId
      <4> DEFINE o == Older(headers_index, from)
      <4>1. from \in DOMAIN headers_index /\ from \in Nat /\ x < from
        <5>1. from \in DOMAIN headers_index /\ x <= from
          BY <2>1, <3>3
        <5>2. from \in Nat /\ x # from
          BY <1>1, <5>1, IdsAreNat
        <5> QED
          BY <1>1, <5>1, <5>2
      <4>2. from \notin VisibleIds(headers_index)
        BY <1>1, <1>2, <2>3, <4>1
      <4>3. o = NoId \/ (o \in VisibleIds(headers_index) /\ o < from)
        BY <1>1, OlderFacts
      <4> HIDE DEF o
      <4>4. o < x
        <5>1. CASE o = NoId
          BY <1>1, <5>1 DEF NoId
        <5>2. CASE o \in VisibleIds(headers_index) /\ o < from
          <6>1. o \in Nat
            BY <1>1, <5>2, IdsAreNat
          <6>2. o <= s
            BY <1>2, <4>1, <5>2, <6>1
          <6> QED
            BY <1>1, <1>2, <3>1, <6>1, <6>2
        <5> QED
          BY <4>3, <5>1, <5>2
      <4> QED
        BY <1>1, <3>3, <4>1, <4>2, <4>4 DEF PassedOver, o
    <3> QED
      BY <3>2, <3>3
  <2> QED
    BY <2>2, <2>3
<1> QED
  BY <1>3, <1>4, <1>5

LEMMA FindHoleGap == ASSUME Inv, GapInv, NEW c \in Chains, FindHole(c) PROVE GapInv'
<1> DEFINE r == chain[c].request
           hole == FoundFor(chain[c])
           lost == hole.error = "index_not_found"
           nothing == r.recursion > 0 /\ hole.from = NoId
<1>1. /\ wanted' = IF r.depth = -1 /\ ~lost THEN Wanted(r.from) ELSE wanted
      /\ skipped' = IF r.depth # -1 THEN skipped
                    ELSE IF lost THEN skipped \cup {x \in Ids : x <= r.from}
                    ELSE IF nothing /\ hole.error = "ok" THEN Ids
                    ELSE {x \in skipped : ~Covers(r, x)} \cup PassedOver(r.from) \cup Untold
      /\ UNCHANGED <<server, headers_index, state, failed>>
  BY DEF FindHole, FoundFor
<1>2. /\ FoundHole(hole, headers_index, r.from, r.depth)
      /\ r.from \in AnyId /\ r.from \in Int
  BY FindHoleMoves, ChainIs, ChainFields, AnyIdIsInt DEF Inv
<1>3. PICK X : /\ Becomes(c, X)
               /\ \/ X.stage = "check" /\ X.request = r /\ X.hole = hole
                  \/ hole.error # "ok" \/ nothing
  BY FindHoleMoves
<1>4. Absent' = Absent /\ \A x \in Absent : x \in Ids /\ x \in Nat
  BY <1>1, AbsentIsLive, IdsAreNat DEF Absent, server, state, Inv
<1>5. chain'[c] = X /\ \A d \in Chains : d # c => chain'[d] = chain[d]
  BY <1>3 DEF Becomes, Inv, ChainInv
<1> HIDE DEF hole, r
<1>6. CASE r.depth # -1
  <2>1. \A x : ~Ahead(c, x)
    BY <1>6 DEF Ahead, Covers, r
  <2>2. skipped \subseteq skipped' /\ UNCHANGED <<failed, wanted>>
    BY <1>1, <1>6
  <2>3. \A x \in Absent' : Followed(x) => Followed(x)'
    BY <1>3, <2>1, <2>2, FollowedStep
  <2> QED
    BY <1>4, <2>2, <2>3, GapStays
<1>7. CASE r.depth = -1 /\ lost
  <2>1. skipped' = skipped \cup {x \in Ids : x <= r.from} /\ UNCHANGED <<failed, wanted>>
    BY <1>1, <1>7
  <2>2. r.from # NoId
    BY <1>2, <1>7 DEF FoundHole
  <2>3. \A x \in Absent : Ahead(c, x) => x \in skipped'
    BY <1>4, <2>1, <2>2 DEF Ahead, Covers, r
  <2>4. \A x \in Absent' : Followed(x) => Followed(x)'
    BY <1>3, <1>4, <2>1, <2>3, FollowedStep
  <2> QED
    BY <1>4, <2>1, <2>4, GapStays
<1>8. CASE r.depth = -1 /\ ~lost /\ nothing /\ hole.error = "ok"
  <2>1. skipped' = Ids
    BY <1>1, <1>8
  <2> QED
    BY <1>4, <2>1 DEF GapInv, Followed
<1>9. CASE r.depth = -1 /\ ~lost /\ ~(nothing /\ hole.error = "ok")
  <2>1. /\ wanted' = Wanted(r.from) /\ UNCHANGED failed
        /\ skipped' = {x \in skipped : ~Covers(r, x)} \cup PassedOver(r.from) \cup Untold
    BY <1>1, <1>9
  <2>2. SUFFICES ASSUME NEW x \in Absent, x < wanted' PROVE Followed(x)'
    BY <1>4 DEF GapInv
  <2>3. CASE Covers(r, x)
    <3>1. r.from = NoId \/ x <= r.from
      BY <2>3 DEF Covers
    <3>2. FoundHole(hole, headers_index, r.from, -1)
      BY <1>2, <1>9
    <3>3. \/ x \in PassedOver(r.from) \cup Untold
          \/ hole.error = "ok" /\ (hole.from = NoId \/ x < hole.from)
      BY <1>2, <1>9, <3>1, <3>2, SearchSees
    <3>4. CASE x \in PassedOver(r.from) \cup Untold
      BY <2>1, <3>4 DEF Followed
    <3>5. CASE hole.error = "ok" /\ (hole.from = NoId \/ x < hole.from)
      <4>1. X.stage = "check" /\ X.request = r /\ X.hole = hole
        BY <1>3, <1>9, <3>5
      <4>2. Ahead(c, x)'
        BY <1>5, <2>3, <3>5, <4>1 DEF Ahead, Covers
      <4> QED
        BY <4>2 DEF Followed
    <3> QED
      BY <3>3, <3>4, <3>5
  <2>4. CASE ~Covers(r, x)
    <3>1. x < wanted
      <4>1. r.from # NoId /\ ~(x <= r.from)
        BY <1>9, <2>4 DEF Covers
      <4>2. DOMAIN headers_index \subseteq Ids
        BY DEF Inv, IndexInv, HonestIndex
      <4> DEFINE s == Start(headers_index, r.from)
      <4>3. s <= r.from /\ s \in Int
        BY <1>2, <4>1, <4>2, StartFacts, AnyIdIsInt
      <4>4. Wanted(r.from) \in {wanted, s}
        BY <1>2, WantedFacts
      <4> HIDE DEF s
      <4> QED
        BY <1>2, <1>4, <2>1, <2>2, <4>1, <4>3, <4>4
    <3>2. Followed(x) /\ ~Ahead(c, x)
      BY <2>4, <3>1 DEF GapInv, Ahead, r
    <3>3. CASE x \in skipped
      BY <2>1, <2>4, <3>3 DEF Followed
    <3>4. CASE Covers(failed, x)
      BY <2>1, <3>4 DEF Followed, Covers
    <3>5. CASE \E d \in Chains : Ahead(d, x)
      <4>1. PICK d \in Chains : Ahead(d, x) /\ d # c
        BY <3>2, <3>5
      <4>2. Ahead(d, x)'
        BY <1>5, <4>1 DEF Ahead, Covers
      <4> QED
        BY <4>2 DEF Followed
    <3> QED
      BY <3>2, <3>3, <3>4, <3>5 DEF Followed
  <2> QED
    BY <2>3, <2>4
<1> QED
  BY <1>6, <1>7, <1>8, <1>9

LEMMA OthersGap ==
    ASSUME Inv, GapInv, NEW c \in Chains, NEW X, Becomes(c, X), chain[c].stage \in {"idle", "begin"},
           Absent' \subseteq Absent, UNCHANGED <<wanted, skipped, failed>>
    PROVE  GapInv'
<1>1. chain[c].request \in {NoRequest, Opening}
  BY ChainIs DEF Inv
<1>2. \A x \in Absent' : Followed(x) => Followed(x)'
  BY <1>1, FollowedOthers
<1> QED
  BY <1>2, GapStays

LEMMA SameGap ==
    ASSUME GapInv, Absent' \subseteq Absent, UNCHANGED <<wanted, skipped, failed, chain>>
    PROVE  GapInv'
<1>1. \A x \in Absent' : Followed(x) => Followed(x)'
  BY FollowedSame
<1> QED
  BY <1>1, GapStays

LEMMA SameAbsent ==
    ASSUME UNCHANGED <<server, headers_index, del_up_to>> PROVE Absent' \subseteq Absent
BY DEF Absent, server

LEMMA BeforeSearchGap ==
    ASSUME Inv, GapInv, NEW c \in Chains,
           OpenDialog(c) \/ Begin(c) \/ EventMerges(c) \/ EventStores(c)
    PROVE  GapInv'
<1>1. UNCHANGED <<wanted, skipped, failed>>
  BY DEF OpenDialog, Begin, EventMerges, EventStores, UpdateHistory, history
<1>2. Absent' \subseteq Absent
  <2>1. CASE OpenDialog(c) \/ Begin(c)
    BY <2>1, SameAbsent DEF OpenDialog, Begin, state
  <2>2. CASE EventMerges(c)
    BY <2>2, MergeServerStateFacts DEF EventMerges
  <2>3. CASE EventStores(c)
    BY <2>3, EventStoresUpdates
  <2> QED
    BY <2>1, <2>2, <2>3
<1>3. UNCHANGED chain \/ (chain[c].stage \in {"idle", "begin"} /\ \E X : Becomes(c, X))
  BY OpenDialogMoves, BeginMoves, EventMergesMoves, EventStoresMoves
<1> QED
  BY <1>1, <1>2, <1>3, SameGap, OthersGap

LEMMA DownloadFailedHolesGap ==
    ASSUME Inv, GapInv, NEW c \in Chains, DownloadFailedHoles(c) PROVE GapInv'
<1>1. UNCHANGED <<server, headers_index, state, history>>
  BY DEF DownloadFailedHoles
<1>2. Absent' \subseteq Absent /\ UNCHANGED <<wanted, skipped>>
  BY <1>1, SameAbsent DEF state, history
<1>3. PICK X : Becomes(c, X) /\ Begins(X, failed.from, failed.depth)
  BY DownloadFailedHolesMoves
<1>4. chain[c].request \in {NoRequest, Opening}
  BY DownloadFailedHolesMoves, ChainIs DEF Inv
<1>5. chain'[c] = X
  BY <1>3 DEF Becomes, Inv, ChainInv
<1>6. \A x : ~Ahead(c, x)
  BY <1>4, NothingCovered DEF Ahead
<1>7. \A x : Covers(failed, x) => Ahead(c, x)'
  BY <1>3, <1>5 DEF Begins, Ahead, Covers
<1>8. \A x \in Absent' : Followed(x) => Followed(x)'
  BY <1>2, <1>3, <1>6, <1>7, FollowedStep
<1> QED
  BY <1>2, <1>8, GapStays

LEMMA CheckHoleGap == ASSUME Inv, GapInv, NEW c \in Chains, CheckHole(c) PROVE GapInv'
<1> DEFINE r == chain[c].request
           hole == chain[c].hole
           obsolete == \/ hole.from > 0 /\ hole.from <= del_up_to
                       \/ hole.to > 0 /\ hole.to <= del_up_to
           t == IF r.depth = -1 THEN -1 ELSE r.depth - hole.depth + PageSize + 1
<1>1. /\ UNCHANGED <<server, headers_index, state, failed, wanted>>
      /\ Skip(c, IF obsolete THEN Beyond(hole) ELSE {})
      /\ obsolete \/ r.depth # -1 \/
             chain' = [chain EXCEPT ![c].stage = "asked", ![c].version = patch_version, ![c].tail = t]
  BY DEF CheckHole
<1>2. Absent' \subseteq Absent
  BY <1>1, SameAbsent DEF state
<1>3. PICK X : Becomes(c, X)
  BY CheckHoleMoves
<1>4. chain[c].stage = "check" /\ chain \in [Chains -> ChainState] /\ skipped \subseteq Ids
  BY ChainIs DEF CheckHole, Inv, HistoryInv
<1> HIDE DEF obsolete, t
<1>5. /\ skipped \subseteq skipped'
      /\ r.depth = -1 => (IF obsolete THEN Beyond(hole) ELSE {}) \subseteq skipped'
  <2>1. Beyond(hole) \subseteq Ids
    BY DEF Beyond
  <2> QED
    BY <1>1, <1>4, <2>1, SkipFacts
<1>6. ASSUME NEW x \in Absent', Ahead(c, x) PROVE Ahead(c, x)' \/ x \in skipped'
  <2>1. /\ Covers(r, x) /\ r.depth = -1 /\ (hole.from = NoId \/ x < hole.from) /\ x \in Ids
    BY <1>2, <1>4, <1>6, AbsentIsLive DEF Ahead, Covers, Inv
  <2>2. CASE obsolete
    BY <1>5, <2>1, <2>2 DEF Beyond
  <2>3. CASE ~obsolete
    <3>1. chain' = [chain EXCEPT ![c].stage = "asked", ![c].version = patch_version, ![c].tail = t]
      BY <1>1, <2>1, <2>3
    <3> HIDE DEF r, hole
    <3>2. chain'[c].request = r /\ chain'[c].hole = hole
      BY <1>4, <3>1 DEF r, hole, ChainState
    <3> QED
      BY <2>1, <3>2 DEF Ahead, Covers
  <2> QED
    BY <2>2, <2>3
<1>7. \A x \in Absent' : Followed(x) => Followed(x)'
  BY <1>1, <1>3, <1>5, <1>6, FollowedStep
<1> QED
  BY <1>1, <1>2, <1>7, GapStays

LEMMA GoesAhead ==
    ASSUME Inv, NEW c \in Chains, NEW X, Becomes(c, X),
           X.request = chain[c].request, X.hole = chain[c].hole,
           chain[c].stage \in {"check", "asked", "answered", "store", "validate"},
           Absent' \subseteq Absent, UNCHANGED <<wanted, skipped, failed>>, GapInv
    PROVE  GapInv'
<1>1. chain'[c] = X
  BY DEF Becomes, Inv, ChainInv
<1>2. \A x : Ahead(c, x) => Ahead(c, x)'
  BY <1>1 DEF Ahead, Covers
<1>3. \A x \in Absent' : Followed(x) => Followed(x)'
  BY <1>2, FollowedStep
<1> QED
  BY <1>3, GapStays

LEMMA AnswersGap ==
    ASSUME Inv, GapInv, NEW c \in Chains, Answer(c) \/ SetState(c) PROVE GapInv'
<1>1. UNCHANGED <<server, headers_index, del_up_to, wanted, skipped, failed>>
  BY DEF Answer, SetState, state, history
<1>2. Absent' \subseteq Absent
  BY <1>1, SameAbsent
<1>3. /\ chain[c].stage \in {"check", "asked", "answered", "store", "validate"}
      /\ \E X : Becomes(c, X) /\ X.request = chain[c].request /\ X.hole = chain[c].hole
  BY AnswerFacts, SetStateMoves DEF Inv, AnswerTo, Goes
<1> QED
  BY <1>1, <1>2, <1>3, GoesAhead

LEMMA StoreGap == ASSUME Inv, GapInv, NEW c \in Chains, Store(c) PROVE GapInv'
<1>1. UNCHANGED <<wanted, skipped, failed>>
  BY DEF Store
<1>2. Absent' \subseteq Absent
  BY StoreUpdates
<1>3. CASE IsSingle(c)
  <2>1. PICK X : Becomes(c, X)
    BY StoreMoves
  <2>2. chain[c].request \in {NoRequest, Opening}
    BY <1>3 DEF IsSingle
  <2>3. \A x \in Absent' : Followed(x) => Followed(x)'
    BY <1>1, <2>1, <2>2, FollowedOthers
  <2> QED
    BY <1>1, <1>2, <2>3, GapStays
<1>4. CASE ~IsSingle(c)
  <2>1. PICK X : Becomes(c, X) /\ Goes(X, chain[c], "validate")
    BY <1>4, StoreMoves
  <2>2. chain[c].stage = "store"
    BY StoreMoves
  <2> QED
    BY <1>1, <1>2, <2>1, <2>2, GoesAhead DEF Goes
<1> QED
  BY <1>3, <1>4

LEMMA ValidateGap == ASSUME Inv, GapInv, NEW c \in Chains, Validate(c) PROVE GapInv'
<1> DEFINE r == chain[c].request
           hole == chain[c].hole
           from == ValidateHoleRequest(headers_index, hole)
           between == {x \in Ids : from < x /\ x < hole.from}
<1>1. UNCHANGED <<server, headers_index, state, failed, wanted>> /\ Skip(c, between)
  BY DEF Validate
<1>2. Absent' \subseteq Absent
  BY <1>1, SameAbsent DEF state
<1>3. PICK X : Becomes(c, X) /\ Begins(X, from, chain[c].tail)
  BY ValidateMoves
<1>4. /\ chain[c].stage = "validate" /\ chain[c] \in ChainState /\ ChainOK(chain[c]) /\ skipped \subseteq Ids
  BY ChainIs DEF Validate, Inv, HistoryInv
<1>5. skipped \subseteq skipped' /\ (r.depth = -1 => between \subseteq skipped')
  BY <1>1, <1>4, SkipFacts
<1>6. hole.from \in AnyId /\ hole.from \in Int
  BY <1>4, ChainFields, AnyIdIsInt
<1>7. hole.from = NoId => from = NoId
  BY DEF ValidateHoleRequest
<1>8. from \in AnyId /\ from \in Int
  <2>1. Older(headers_index, hole.from) \in AnyId
    BY OlderFacts DEF Inv, IndexInv, HonestIndex
  <2>2. from \in AnyId
    BY <1>6, <2>1 DEF ValidateHoleRequest
  <2> QED
    BY <2>2, AnyIdIsInt
<1>9. chain'[c] = X
  BY <1>3 DEF Becomes, Inv, ChainInv
<1> HIDE DEF from, hole, r
<1>10. ASSUME NEW x \in Absent', Ahead(c, x) PROVE Ahead(c, x)' \/ x \in skipped'
  <2>1. /\ r.depth = -1 /\ (hole.from = NoId \/ x < hole.from) /\ x \in Ids /\ x \in Nat
    BY <1>2, <1>4, <1>10, AbsentIsLive, IdsAreNat DEF Ahead, Covers, Inv, r, hole
  <2>2. CASE from < x /\ hole.from # NoId
    BY <1>5, <2>1, <2>2
  <2>3. CASE x <= from \/ hole.from = NoId
    <3>1. X.stage = "find" /\ X.request.from = from /\ X.request.depth = -1
      BY <1>3, <1>4, <2>1 DEF Begins, ChainOK, r
    <3>2. Covers(X.request, x)
      BY <1>7, <2>3, <3>1 DEF Covers
    <3> QED
      BY <1>9, <3>1, <3>2 DEF Ahead, Covers
  <2> QED
    BY <1>8, <2>1, <2>2, <2>3
<1>11. \A x \in Absent' : Followed(x) => Followed(x)'
  BY <1>1, <1>3, <1>5, <1>10, FollowedStep
<1> QED
  BY <1>1, <1>2, <1>11, GapStays

LEMMA UnlimitedCovers == ASSUME NEW x PROVE Covers(Unlimited, x) /\ ~Covers(NoRequest, x)
BY DEF Covers, Unlimited, NoRequest

LEMMA AskFailsGap == ASSUME Inv, GapInv, NEW c \in Chains, AskFails(c) PROVE GapInv'
<1>1. /\ UNCHANGED <<server, headers_index, state, history>>
      /\ IF IsSingle(c) THEN UNCHANGED failed ELSE AddFailed(chain[c].request)
  BY DEF AskFails
<1>2. Absent' \subseteq Absent /\ UNCHANGED <<wanted, skipped>>
  BY <1>1, SameAbsent DEF state, history
<1>3. PICK X : Becomes(c, X)
  BY AskEndsMoves
<1>4. CASE IsSingle(c)
  <2>1. chain[c].request \in {NoRequest, Opening}
    BY <1>4 DEF IsSingle
  <2>2. \A x \in Absent' : Followed(x) => Followed(x)'
    BY <1>1, <1>2, <1>3, <1>4, <2>1, FollowedOthers
  <2> QED
    BY <1>2, <2>2, GapStays
<1>5. CASE ~IsSingle(c)
  <2>1. failed' = IF failed = NoRequest THEN chain[c].request ELSE Unlimited
    BY <1>1, <1>5 DEF AddFailed
  <2>2. ASSUME NEW x
        PROVE  (Ahead(c, x) => Covers(failed', x)) /\ (Covers(failed, x) => Covers(failed', x))
    <3>1. CASE failed = NoRequest
      BY <2>1, <3>1, UnlimitedCovers DEF Ahead
    <3>2. CASE failed # NoRequest
      BY <2>1, <3>2, UnlimitedCovers
    <3> QED
      BY <3>1, <3>2
  <2>3. \A x \in Absent' : Followed(x) => Followed(x)'
    BY <1>2, <1>3, <2>2, FollowedStep
  <2> QED
    BY <1>2, <2>3, GapStays
<1> QED
  BY <1>4, <1>5

LEMMA AskRefusedGap == ASSUME Inv, GapInv, NEW c \in Chains, AskRefused(c) PROVE GapInv'
<1>1. UNCHANGED <<server, headers_index, state, failed, wanted>> /\ Skip(c, Beyond(chain[c].hole))
  BY DEF AskRefused
<1>2. Absent' \subseteq Absent
  BY <1>1, SameAbsent DEF state
<1>3. PICK X : Becomes(c, X)
  BY AskEndsMoves
<1>4. chain[c].stage = "asked" /\ skipped \subseteq Ids
  BY DEF AskRefused, Inv, HistoryInv
<1>5. /\ skipped \subseteq skipped'
      /\ chain[c].request.depth = -1 => Beyond(chain[c].hole) \subseteq skipped'
  <2>1. Beyond(chain[c].hole) \subseteq Ids
    BY DEF Beyond
  <2> QED
    BY <1>1, <1>4, <2>1, SkipFacts
<1>6. ASSUME NEW x \in Absent', Ahead(c, x) PROVE x \in skipped'
  BY <1>2, <1>4, <1>5, <1>6, AbsentIsLive DEF Ahead, Covers, Beyond, Inv
<1>7. \A x \in Absent' : Followed(x) => Followed(x)'
  BY <1>1, <1>3, <1>5, <1>6, FollowedStep
<1> QED
  BY <1>1, <1>2, <1>7, GapStays

LEMMA EventGap ==
    ASSUME Inv, GapInv, EventComes \/ EventDeletes \/ LocalRead \/ ClearRead \/ LocalWrite PROVE GapInv'
<1>1. UNCHANGED <<wanted, skipped, failed, chain>>
  BY DEF EventComes, EventDeletes, LocalRead, ClearRead, LocalWrite, history
<1>2. Absent' \subseteq Absent
  <2>1. CASE EventDeletes
    BY <2>1, EventDeletesCuts
  <2>2. CASE EventComes \/ LocalRead \/ ClearRead \/ LocalWrite
    BY <2>2, SameAbsent DEF EventComes, LocalRead, ClearRead, LocalWrite, state
  <2> QED
    BY <2>1, <2>2
<1> QED
  BY <1>1, <1>2, SameGap

LEMMA CrashGap == ASSUME Inv, Crash PROVE GapInv'
<1>1. wanted' = NoId /\ Absent' \subseteq Absent
  BY SameAbsent DEF Crash, state
<1>2. \A x \in Absent' : x \in Nat
  BY <1>1, AbsentIsLive, IdsAreNat DEF Inv
<1> QED
  BY <1>1, <1>2 DEF GapInv, NoId

LEMMA ServerGap ==
    ASSUME Inv, GapInv, NewMessage \/ \E i \in Ids : ServerDeletes(i) \/ ServerDeletesUpTo(i) PROVE GapInv'
<1>1. UNCHANGED <<headers_index, state, chain, failed, history>>
  BY DEF NewMessage, ServerDeletes, ServerDeletesUpTo
<1>2. UNCHANGED <<wanted, skipped>> /\ wanted \in Int /\ wanted <= top /\ top \in Nat
  BY <1>1, AnyIdIsInt DEF history, Inv, HistoryInv, ServerInv
<1>3. \A x \in live' : x \in live \/ x = top + 1
  BY DEF NewMessage, ServerDeletes, ServerDeletesUpTo
<1>4. \A x \in Absent' : x \in Absent \/ x = top + 1
  BY <1>1, <1>3 DEF Absent, state
<1>5. ASSUME NEW x \in Absent', x < wanted' PROVE Followed(x)'
  <2>1. x \in Absent
    BY <1>2, <1>4, <1>5
  <2>2. Followed(x)
    BY <1>2, <1>5, <2>1 DEF GapInv
  <2> QED
    BY <1>1, <1>2, <2>2, FollowedSame
<1> QED
  BY <1>5 DEF GapInv

LEMMA NextGap == Inv /\ GapInv /\ [Next]_vars => GapInv'
<1> SUFFICES ASSUME Inv, GapInv, [Next]_vars PROVE GapInv'
  OBVIOUS
<1>1. CASE NewMessage \/ \E i \in Ids : ServerDeletes(i) \/ ServerDeletesUpTo(i)
  BY <1>1, ServerGap
<1>2. CASE EventComes \/ EventDeletes \/ LocalRead \/ ClearRead \/ LocalWrite \/ Crash
  BY <1>2, EventGap, CrashGap
<1>3. ASSUME NEW c \in Chains,
             \/ OpenDialog(c) \/ DownloadFailedHoles(c) \/ EventMerges(c) \/ EventStores(c)
             \/ Begin(c) \/ FindHole(c) \/ CheckHole(c) \/ Answer(c) \/ AskFails(c) \/ AskRefused(c)
             \/ SetState(c) \/ Store(c) \/ Validate(c)
      PROVE  GapInv'
  BY <1>3, BeforeSearchGap, DownloadFailedHolesGap, FindHoleGap, CheckHoleGap, AnswersGap, AskFailsGap,
     AskRefusedGap, StoreGap, ValidateGap
<1>4. CASE UNCHANGED vars
  <2>1. UNCHANGED <<server, headers_index, del_up_to, wanted, skipped, failed, chain>>
    BY <1>4 DEF vars, state, history
  <2> QED
    BY <2>1, SameAbsent, SameGap
<1> QED
  BY <1>1, <1>2, <1>3, <1>4 DEF Next

LEMMA InitGap == Init => GapInv
<1> SUFFICES ASSUME Init PROVE GapInv
  OBVIOUS
<1>1. wanted = NoId /\ \A x \in Absent : x \in Nat
  BY InitInv, AbsentIsLive, IdsAreNat DEF Init, Inv
<1> QED
  BY <1>1 DEF GapInv, NoId

LEMMA NothingForgotten == Inv /\ GapInv => NoGapForgotten
<1> SUFFICES ASSUME Inv, GapInv, NEW x \in Missing
             PROVE  /\ HoleShows(x) \/ x \in Untold
                    /\ x < wanted => \/ \E c \in Chains : Covers(chain[c].request, x)
                                     \/ Covers(failed, x)
                                     \/ x \in skipped
  BY DEF NoGapForgotten
<1>1. x \in Absent
  BY MissingIsAbsent
<1> QED
  BY <1>1, HoleIsShown DEF GapInv, Followed, Ahead

\* No gap is forgotten: a message that is missing shows as a hole of the index, except where a link
\* leads over it that the server never told; and below the message from which a search without a
\* limit began it is before a search, or before one that waits for the connection, or given up.
THEOREM GapsAreFollowed == Spec => []NoGapForgotten
<1>1. Init => Inv /\ GapInv
  BY InitInv, InitGap
<1>2. Inv /\ GapInv /\ [Next]_vars => (Inv /\ GapInv)'
  BY NextInv, NextGap
<1>3. Inv /\ GapInv => NoGapForgotten
  BY NothingForgotten
<1> QED
  BY <1>1, <1>2, <1>3, PTL DEF Spec

-----------------------------------------------------------------------------
(* Deleted messages stay hidden *)

\* what is settled stays so
KeepsDone == \A n \in 1 .. Len(patches) : Done(n) => Done(n)'

\* the deletions of the server stay where they are
PatchesStay == \A n \in 1 .. Len(patches) : patches'[n] = patches[n]

LEMMA DoneKept ==
    ASSUME Inv, PatchesStay, del_up_to' \in Int, del_up_to <= del_up_to',
           \A i \in Ids \ live : i > del_up_to' /\ Settled(i) => Settled(i)'
    PROVE  KeepsDone
<1> SUFFICES ASSUME NEW n \in 1 .. Len(patches), Done(n), NEW i \in Ids,
                    patches'[n] = i, i > del_up_to'
             PROVE  Settled(i)'
  BY DEF KeepsDone, Done
<1>1. patches[n] = i
  BY DEF PatchesStay
<1>2. i \notin live
  BY <1>1 DEF Inv, ServerInv
<1>3. i > del_up_to
  <2>1. i \in Nat /\ del_up_to \in Int
    BY IdsAreNat, AnyIdIsInt DEF Inv, StateInv
  <2> QED
    BY <2>1
<1> QED
  BY <1>1, <1>2, <1>3 DEF Done

\* the chains whose messages are about to be stored stay where they are
StoringStays ==
    \A c \in Chains :
        chain[c].stage = "store" => chain'[c].stage = "store" /\ chain'[c].block = chain[c].block

LEMMA AnswerStays ==
    ASSUME StoringStays, NEW i, InAnswer(i)
    PROVE  InAnswer(i)'
<1>1. PICK c \in Chains : /\ chain[c].stage = "store"
                          /\ \E m \in Range(chain[c].block) : m.patch /\ m.id = i
  BY DEF InAnswer
<1>2. chain'[c].stage = "store" /\ chain'[c].block = chain[c].block
  BY <1>1 DEF StoringStays
<1> QED
  BY <1>1, <1>2 DEF InAnswer

LEMMA SettledStays ==
    ASSUME StoringStays, UNCHANGED headers_index, undone \subseteq undone', NEW i, Settled(i)
    PROVE  Settled(i)'
<1>1. CASE InAnswer(i)
  BY <1>1, AnswerStays DEF Settled
<1>2. CASE i \in undone
  BY <1>2 DEF Settled
<1>3. CASE i \in DOMAIN headers_index /\ headers_index[i].deleted
  BY <1>3 DEF Settled
<1> QED
  BY <1>1, <1>2, <1>3 DEF Settled

LEMMA OtherChain ==
    ASSUME ChainInv, NEW c \in Chains, NEW X, Becomes(c, X), chain[c].stage # "store"
    PROVE  StoringStays
<1>1. \A d \in Chains : d # c => chain'[d] = chain[d]
  BY DEF ChainInv, Becomes
<1> QED
  BY <1>1 DEF StoringStays

LEMMA SameDelUpTo == Inv /\ UNCHANGED del_up_to => del_up_to' \in Int /\ del_up_to <= del_up_to'
BY AnyIdIsInt DEF Inv, StateInv

\* Most steps store nothing.
LEMMA NothingStored ==
    ASSUME Inv, PatchesStay, del_up_to' \in Int, del_up_to <= del_up_to',
           StoringStays, UNCHANGED headers_index, undone \subseteq undone'
    PROVE  KeepsDone
BY DoneKept, SettledStays

LEMMA ToldIs ==
    ASSUME NEW block \in Seq(Header), NEW i
    PROVE  (\E m \in Range(block) : m.patch /\ m.id = i) <=> Told(block, i)
<1>1. DOMAIN block = 1 .. Len(block)
  OBVIOUS
<1>2. Range(block) = {block[k] : k \in 1 .. Len(block)}
  BY <1>1 DEF Range
<1> QED
  BY <1>2 DEF Told

LEMMA StoringTells ==
    ASSUME ChainInv, NEW c \in Chains, chain[c].stage = "store", NEW i, Told(chain[c].block, i)
    PROVE  InAnswer(i)
<1>1. chain[c].block \in Seq(Header)
  BY ChainIs, ChainFields
<1> QED
  BY <1>1, ToldIs DEF InAnswer

\* A deleted message that a block is stored over stays deleted, or its deletion comes to nothing.
LEMMA DeletedUpdates ==
    ASSUME Inv, NEW block, HonestBlock(block, live, top), NEW from, NEW older,
           UpdateHistory(block, from, older),
           StoredIn(headers_index', headers_index, block, Len(block), live, Absent, top),
           NEW i \in Ids, i \notin live, i \in DOMAIN headers_index, headers_index[i].deleted
    PROVE  i \in undone' \/ (i \in DOMAIN headers_index' /\ headers_index'[i].deleted)
<1>1. CASE \A k \in 1 .. Len(block) : block[k].id = i => block[k].deleted
  <2>1. Buried(headers_index, block, Len(block), i)
    BY <1>1 DEF Buried
  <2> QED
    BY <2>1 DEF StoredIn
<1>2. CASE ~\A k \in 1 .. Len(block) : block[k].id = i => block[k].deleted
  <2>1. PICK k \in 1 .. Len(block) : block[k].id = i /\ ~block[k].deleted
    BY <1>2
  <2>2. Honest(block[k], live, live, top) /\ block \in Seq(Header)
    BY DEF HonestBlock
  <2>3. ~block[k].patch
    BY <2>1, <2>2 DEF Honest
  <2>4. block[k] \in Range(block)
    <3>1. DOMAIN block = 1 .. Len(block)
      BY <2>2
    <3> QED
      BY <3>1 DEF Range
  <2>5. \E m \in Range(block) : m.id = i /\ ~m.patch
    BY <2>1, <2>3, <2>4
  <2>6. i \in {x \in DOMAIN headers_index \ live :
                   /\ headers_index[x].deleted
                   /\ \E m \in Range(block) : m.id = x /\ ~m.patch}
    BY <2>5
  <2>7. undone' = undone \cup {x \in DOMAIN headers_index \ live :
                                  /\ headers_index[x].deleted
                                  /\ \E m \in Range(block) : m.id = x /\ ~m.patch}
    BY DEF UpdateHistory
  <2> QED
    BY <2>6, <2>7
<1> QED
  BY <1>1, <1>2

\* What a block says to be deleted is so when it is stored.
LEMMA ToldIsDeleted ==
    ASSUME NEW block, HonestBlock(block, live, top),
           StoredIn(headers_index', headers_index, block, Len(block), live, Absent, top),
           NEW i \in Ids, i > del_up_to, Told(block, i)
    PROVE  i \in DOMAIN headers_index' /\ headers_index'[i].deleted
<1>1. PICK k \in 1 .. Len(block) : block[k].patch /\ block[k].id = i
  BY DEF Told
<1>2. Honest(block[k], live, live, top)
  BY DEF HonestBlock
<1>3. block[k].deleted
  BY <1>1, <1>2 DEF Honest
<1>4. ASSUME NEW j \in 1 .. Len(block), block[j].id = i PROVE block[j].deleted
  BY <1>1, <1>3, <1>4 DEF HonestBlock
<1>5. Buried(headers_index, block, Len(block), i)
  BY <1>1, <1>4 DEF Buried
<1> QED
  BY <1>5 DEF StoredIn

LEMMA StoreKeeps == ASSUME Inv, NEW c \in Chains, Store(c) PROVE KeepsDone
<1> DEFINE block == chain[c].block
           from == chain[c].hole.from
           older == chain[c].older
<1>1. /\ UpdateHistory(block, from, older) /\ chain[c].stage = "store"
      /\ UNCHANGED <<server, state>>
  BY DEF Store
<1>2. PICK X : Becomes(c, X)
  BY StoreMoves
<1>3. /\ StoredIn(headers_index', headers_index, block, Len(block), live, Absent, top)
      /\ HonestBlock(block, live, top) /\ block \in Seq(Header)
  BY StoreUpdates, ChainIs, ChainFields DEF Inv, ChainOK
<1>4. PatchesStay /\ UNCHANGED del_up_to
  BY <1>1 DEF PatchesStay, server, state
<1>5. \A d \in Chains : d # c => chain'[d] = chain[d]
  BY <1>2 DEF Becomes, Inv, ChainInv
<1>6. undone \subseteq undone'
  BY <1>1 DEF UpdateHistory
<1> HIDE DEF block, from, older
<1>7. ASSUME NEW i \in Ids \ live, i > del_up_to', Settled(i) PROVE Settled(i)'
  <2>1. CASE InAnswer(i)
    <3>1. PICK d \in Chains : /\ chain[d].stage = "store"
                              /\ \E m \in Range(chain[d].block) : m.patch /\ m.id = i
      BY <2>1 DEF InAnswer
    <3>2. CASE d # c
      BY <1>5, <3>1, <3>2 DEF InAnswer, Settled
    <3>3. CASE d = c
      <4>1. Told(block, i)
        BY <1>3, <3>1, <3>3, ToldIs DEF block
      <4> QED
        BY <1>3, <1>4, <1>7, <4>1, ToldIsDeleted DEF Settled
    <3> QED
      BY <3>2, <3>3
  <2>2. CASE i \in undone
    BY <1>6, <2>2 DEF Settled
  <2>3. CASE i \in DOMAIN headers_index /\ headers_index[i].deleted
    BY <1>1, <1>3, <1>7, <2>3, DeletedUpdates DEF Settled
  <2> QED
    BY <1>7, <2>1, <2>2, <2>3 DEF Settled
<1> QED
  BY <1>4, <1>7, DoneKept, SameDelUpTo

LEMMA EventStoresKeeps == ASSUME Inv, NEW c \in Chains, EventStores(c) PROVE KeepsDone
<1> DEFINE block == event.block
<1>1. UpdateHistory(block, NoId, 0) /\ UNCHANGED <<server, state>>
  BY DEF EventStores
<1>2. /\ StoredIn(headers_index', headers_index, block, Len(block), live, Absent, top)
      /\ HonestBlock(block, live, top)
  BY EventStoresUpdates DEF Inv, EventInv
<1>3. PatchesStay /\ UNCHANGED del_up_to
  BY <1>1 DEF PatchesStay, server, state
<1>4. StoringStays
  <2>1. UNCHANGED chain \/ (chain[c].stage = "idle" /\ \E X : Becomes(c, X))
    BY EventStoresMoves
  <2>2. CASE UNCHANGED chain
    BY <2>2 DEF StoringStays
  <2> QED
    BY <2>1, <2>2, OtherChain DEF Inv
<1>5. undone \subseteq undone'
  BY <1>1 DEF UpdateHistory
<1> HIDE DEF block
<1>6. ASSUME NEW i \in Ids \ live, Settled(i) PROVE Settled(i)'
  <2>1. CASE InAnswer(i)
    BY <1>4, <2>1, AnswerStays DEF Settled
  <2>2. CASE i \in undone
    BY <1>5, <2>2 DEF Settled
  <2>3. CASE i \in DOMAIN headers_index /\ headers_index[i].deleted
    BY <1>1, <1>2, <2>3, DeletedUpdates DEF Settled
  <2> QED
    BY <1>6, <2>1, <2>2, <2>3 DEF Settled
<1> QED
  BY <1>3, <1>6, DoneKept, SameDelUpTo

LEMMA EventDeletesKeeps == ASSUME Inv, EventDeletes PROVE KeepsDone
<1>1. UNCHANGED <<server, del_up_to, chain, history>>
  BY DEF EventDeletes
<1>2. PatchesStay /\ UNCHANGED <<del_up_to, undone>> /\ StoringStays
  BY <1>1 DEF PatchesStay, StoringStays, server, history
<1>3. CutUpTo(headers_index', headers_index, del_up_to, live, Absent, top)
  BY EventDeletesCuts
<1>4. ASSUME NEW i \in Ids \ live, i > del_up_to', Settled(i) PROVE Settled(i)'
  <2>1. CASE InAnswer(i)
    BY <1>2, <2>1, AnswerStays DEF Settled
  <2>2. CASE i \in undone
    BY <1>2, <2>2 DEF Settled
  <2>3. CASE i \in DOMAIN headers_index /\ headers_index[i].deleted
    <3>1. i \in DOMAIN headers_index' /\ headers_index'[i].deleted = headers_index[i].deleted
      BY <1>2, <1>3, <1>4, <2>3 DEF CutUpTo
    <3>2. headers_index'[i].deleted
      BY <2>3, <3>1, Zenon
    <3> QED
      BY <3>1, <3>2 DEF Settled
  <2> QED
    BY <1>4, <2>1, <2>2, <2>3 DEF Settled
<1> QED
  BY <1>2, <1>4, DoneKept, SameDelUpTo

LEMMA CrashKeeps == ASSUME Inv, Crash PROVE KeepsDone
<1>1. UNCHANGED <<server, headers_index, state>> /\ undone' = undone \cup {i \in Ids : InAnswer(i)}
  BY DEF Crash
<1>2. PatchesStay /\ UNCHANGED del_up_to
  BY <1>1 DEF PatchesStay, server, state
<1>3. ASSUME NEW i \in Ids \ live, Settled(i) PROVE Settled(i)'
  <2>1. CASE InAnswer(i) \/ i \in undone
    BY <1>1, <2>1 DEF Settled
  <2>2. CASE i \in DOMAIN headers_index /\ headers_index[i].deleted
    BY <1>1, <2>2 DEF Settled
  <2> QED
    BY <1>3, <2>1, <2>2 DEF Settled
<1> QED
  BY <1>2, <1>3, DoneKept, SameDelUpTo

LEMMA ServerKeeps ==
    ASSUME Inv, NewMessage \/ \E i \in Ids : ServerDeletes(i) \/ ServerDeletesUpTo(i)
    PROVE  PatchesStay /\ KeepsDone
<1>1. UNCHANGED <<headers_index, state, chain, history>>
  BY DEF NewMessage, ServerDeletes, ServerDeletesUpTo
<1>2. UNCHANGED <<headers_index, del_up_to, undone>> /\ StoringStays
  BY <1>1 DEF state, history, StoringStays
<1>3. patches' = patches \/ \E i \in Ids : patches' = Append(patches, i)
  BY DEF NewMessage, ServerDeletes, ServerDeletesUpTo
<1>4. PatchesStay
  BY <1>3 DEF PatchesStay, Inv, ServerInv
<1> QED
  BY <1>2, <1>4, NothingStored, SameDelUpTo

LEMMA EventKeeps ==
    ASSUME Inv, EventComes \/ LocalRead \/ ClearRead \/ LocalWrite \/ UNCHANGED vars
    PROVE  PatchesStay /\ KeepsDone
<1>1. UNCHANGED <<patches, headers_index, del_up_to, chain, undone>>
  BY DEF EventComes, LocalRead, ClearRead, LocalWrite, vars, server, state, history
<1>2. PatchesStay /\ StoringStays
  BY <1>1 DEF PatchesStay, StoringStays
<1> QED
  BY <1>1, <1>2, NothingStored, SameDelUpTo

LEMMA EventMergesKeeps == ASSUME Inv, NEW c \in Chains, EventMerges(c) PROVE KeepsDone
<1>1. MergeServerState /\ UNCHANGED <<server, headers_index, history>>
  BY DEF EventMerges
<1>2. PatchesStay /\ UNCHANGED <<headers_index, undone>>
  BY <1>1 DEF PatchesStay, server, history
<1>3. del_up_to' \in Int /\ del_up_to <= del_up_to'
  BY <1>1, MergeServerStateFacts, AnyIdIsInt
<1>4. StoringStays
  <2>1. UNCHANGED chain \/ (chain[c].stage = "idle" /\ \E X : Becomes(c, X))
    BY EventMergesMoves
  <2>2. CASE UNCHANGED chain
    BY <2>2 DEF StoringStays
  <2> QED
    BY <2>1, <2>2, OtherChain DEF Inv
<1> QED
  BY <1>2, <1>3, <1>4, NothingStored

LEMMA ChainKeeps ==
    ASSUME Inv, NEW c \in Chains, NEW X, Becomes(c, X), chain[c].stage # "store",
           UNCHANGED <<server, headers_index, del_up_to, undone>>
    PROVE  KeepsDone
<1>1. PatchesStay /\ StoringStays
  BY OtherChain DEF PatchesStay, server, Inv
<1> QED
  BY <1>1, NothingStored, SameDelUpTo

LEMMA VersionKept ==
    ASSUME KeepsDone, NEW v \in Nat, v <= Len(patches), Len(patches) \in Nat, VersionOK(v)
    PROVE  \A n \in 1 .. v : Done(n)'
BY DEF VersionOK, KeepsDone

LEMMA AnswerKept ==
    ASSUME KeepsDone, PatchesStay, Len(patches) \in Nat, NEW ch, ch.version \in Nat,
           ch.version <= Len(patches), AnswerOK(ch)
    PROVE  \A n \in 1 .. ch.version : Done(n)' \/ Told(ch.block, patches'[n])
BY DEF AnswerOK, KeepsDone, PatchesStay

LEMMA SameVersion ==
    Inv /\ DeletedInv /\ KeepsDone /\ UNCHANGED patch_version => VersionOK(patch_version)'
<1> SUFFICES ASSUME Inv, DeletedInv, KeepsDone, UNCHANGED patch_version
             PROVE  VersionOK(patch_version)'
  OBVIOUS
<1>1. patch_version \in Nat /\ patch_version <= Len(patches) /\ Len(patches) \in Nat
  BY DEF Inv, StateInv, ServerInv
<1>2. \A n \in 1 .. patch_version : Done(n)'
  BY <1>1, VersionKept DEF DeletedInv
<1> QED
  BY <1>2 DEF VersionOK

LEMMA SameCopy ==
    Inv /\ DeletedInv /\ KeepsDone /\ UNCHANGED copy => VersionOK(copy.version)'
<1> SUFFICES ASSUME Inv, DeletedInv, KeepsDone, UNCHANGED copy
             PROVE  VersionOK(copy.version)'
  OBVIOUS
<1>1. copy.version \in Nat /\ copy.version <= Len(patches) /\ Len(patches) \in Nat
  BY DEF Inv, StateInv, CopyState, ServerInv
<1>2. \A n \in 1 .. copy.version : Done(n)'
  BY <1>1, VersionKept DEF DeletedInv
<1> QED
  BY <1>2 DEF VersionOK

LEMMA SameChainDeleted ==
    ASSUME Inv, DeletedInv, KeepsDone, PatchesStay, NEW c \in Chains, chain'[c] = chain[c]
    PROVE  ChainDeleted(chain[c])'
<1> DEFINE ch == chain[c]
<1>1. /\ ch \in ChainState /\ ch.version <= Len(patches) /\ ch.version \in Nat
      /\ Len(patches) \in Nat /\ ChainDeleted(ch)
  BY ChainIs, ChainFields DEF Inv, ServerInv, DeletedInv
<1> HIDE DEF ch
<1>2. ch.stage = "asked" => \A n \in 1 .. ch.version : Done(n)'
  BY <1>1, VersionKept DEF ChainDeleted
<1>3. ch.stage = "answered" => \A n \in 1 .. ch.version : Done(n)' \/ Told(ch.block, patches'[n])
  BY <1>1, AnswerKept DEF ChainDeleted
<1>4. chain'[c] = ch
  BY DEF ch
<1> QED
  BY <1>2, <1>3, <1>4 DEF ChainDeleted, VersionOK, AnswerOK, Told

LEMMA ChainsDeleted ==
    ASSUME Inv, DeletedInv, KeepsDone, PatchesStay, NEW c \in Chains, NEW X, Becomes(c, X),
           X.stage = "asked" => \A n \in 1 .. X.version : Done(n)',
           X.stage = "answered" => \A n \in 1 .. X.version : Done(n)' \/ Told(X.block, patches'[n])
    PROVE  \A d \in Chains : ChainDeleted(chain[d])'
<1> TAKE d \in Chains
<1>1. chain'[d] = IF d = c THEN X ELSE chain[d]
  BY DEF Becomes, Inv, ChainInv
<1>2. CASE d = c
  <2>1. chain'[d] = X
    BY <1>1, <1>2
  <2> QED
    BY <2>1 DEF ChainDeleted, VersionOK, AnswerOK, Told
<1>3. CASE d # c
  BY <1>1, <1>3, SameChainDeleted
<1> QED
  BY <1>2, <1>3

LEMMA SameChainsDeleted ==
    ASSUME Inv, DeletedInv, KeepsDone, PatchesStay, UNCHANGED chain
    PROVE  \A d \in Chains : ChainDeleted(chain[d])'
BY SameChainDeleted

\* a chain changes, and the state and its copy stay
LEMMA OnlyChainsDeleted ==
    ASSUME Inv, DeletedInv, NEW c \in Chains, NEW X, Becomes(c, X), chain[c].stage # "store",
           UNCHANGED <<server, headers_index, state, copy, undone>>,
           X.stage = "asked" => X.version = patch_version,
           X.stage = "answered" => AnswerTo(X, chain[c]) /\ chain[c].stage = "asked"
    PROVE  DeletedInv'
<1>1. KeepsDone /\ PatchesStay /\ UNCHANGED <<patch_version, copy, patches>>
  BY ChainKeeps DEF state, server, PatchesStay
<1>2. X.stage = "asked" => \A n \in 1 .. X.version : Done(n)'
  <2>1. patch_version \in Nat /\ patch_version <= Len(patches) /\ Len(patches) \in Nat
    BY DEF Inv, StateInv, ServerInv
  <2> QED
    BY <1>1, <2>1, VersionKept DEF DeletedInv
<1>3. ASSUME X.stage = "answered", NEW n \in 1 .. X.version
      PROVE  Done(n)' \/ Told(X.block, patches'[n])
  <2> DEFINE v == chain[c].version
  <2>1. v \in Nat /\ v <= Len(patches) /\ VersionOK(v) /\ Len(patches) \in Nat
    BY <1>3, ChainIs, ChainFields DEF Inv, ServerInv, DeletedInv, ChainDeleted
  <2>2. /\ X.version = Len(patches)
        /\ \A m \in v + 1 .. Len(patches) :
              \E k \in 1 .. Len(X.block) : X.block[k].patch /\ X.block[k].id = patches[m]
    BY <1>3 DEF AnswerTo
  <2> HIDE DEF v
  <2>3. CASE n <= v
    BY <1>1, <2>1, <2>3, VersionKept
  <2>4. CASE n > v
    BY <1>1, <2>1, <2>2, <2>4 DEF Told
  <2> QED
    BY <2>1, <2>2, <2>3, <2>4
<1> QED
  BY <1>1, <1>2, <1>3, SameVersion, SameCopy, ChainsDeleted DEF DeletedInv

LEMMA SearchDeleted ==
    ASSUME Inv, DeletedInv, NEW c \in Chains,
           \/ OpenDialog(c) \/ DownloadFailedHoles(c) \/ Begin(c) \/ FindHole(c) \/ CheckHole(c)
           \/ Answer(c) \/ AskFails(c) \/ AskRefused(c) \/ Validate(c)
    PROVE  DeletedInv'
<1>1. UNCHANGED <<server, headers_index, state, copy, undone>>
  BY DEF OpenDialog, DownloadFailedHoles, Begin, FindHole, CheckHole, Answer, AskFails, AskRefused,
         Validate, history, local
<1>2. PICK X : /\ Becomes(c, X) /\ chain[c].stage # "store"
               /\ X.stage = "asked" => X.version = patch_version
               /\ X.stage = "answered" => AnswerTo(X, chain[c]) /\ chain[c].stage = "asked"
  <2>1. CASE OpenDialog(c)
    BY <2>1, OpenDialogMoves DEF Asks
  <2>2. CASE DownloadFailedHoles(c)
    BY <2>2, DownloadFailedHolesMoves DEF Begins
  <2>3. CASE Begin(c)
    BY <2>3, BeginMoves DEF Begins
  <2>4. CASE FindHole(c)
    BY <2>4, FindHoleMoves DEF Ended
  <2>5. CASE CheckHole(c)
    BY <2>5, CheckHoleMoves DEF Ended, Goes
  <2>6. CASE Answer(c)
    BY <2>6, AnswerFacts DEF AnswerTo, Inv
  <2>7. CASE AskFails(c) \/ AskRefused(c)
    BY <2>7, AskEndsMoves DEF Ended
  <2>8. CASE Validate(c)
    BY <2>8, ValidateMoves DEF Begins
  <2> QED
    BY <2>1, <2>2, <2>3, <2>4, <2>5, <2>6, <2>7, <2>8
<1> QED
  BY <1>1, <1>2, OnlyChainsDeleted

\* The patch version of an answer is taken over when its deletions are next to be stored.
LEMMA SetStateDeleted == ASSUME Inv, DeletedInv, NEW c \in Chains, SetState(c) PROVE DeletedInv'
<1> DEFINE ch == chain[c]
<1>1. PICK X : Becomes(c, X) /\ X.stage = "store" /\ X.block = ch.block /\ ch.stage = "answered"
  BY SetStateMoves DEF Goes
<1>2. /\ patch_version' \in {ch.version, patch_version}
      /\ UNCHANGED <<server, headers_index, del_up_to, copy, undone, patches>>
  BY DEF SetState, MergeState, history, local, server
<1>3. KeepsDone /\ PatchesStay
  BY <1>1, <1>2, ChainKeeps DEF PatchesStay
<1>4. /\ ch \in ChainState /\ ch.version \in Nat /\ ch.version <= Len(patches)
      /\ ch.block \in Seq(Header) /\ Len(patches) \in Nat /\ AnswerOK(ch)
  BY <1>1, ChainIs, ChainFields DEF Inv, ServerInv, DeletedInv, ChainDeleted
<1>5. chain'[c] = X
  BY <1>1, ChainIs DEF Becomes, Inv
<1> HIDE DEF ch
<1>6. ASSUME NEW n \in 1 .. ch.version PROVE Done(n)'
  <2>1. Done(n)' \/ Told(ch.block, patches'[n])
    BY <1>3, <1>4, AnswerKept
  <2>2. ASSUME Told(ch.block, patches'[n]) PROVE Done(n)'
    <3> SUFFICES ASSUME NEW i \in Ids, patches'[n] = i PROVE InAnswer(i)'
      BY DEF Done, Settled
    <3>1. \E m \in Range(ch.block) : m.patch /\ m.id = i
      BY <1>4, <2>2, ToldIs
    <3> QED
      BY <1>1, <1>5, <3>1 DEF InAnswer
  <2> QED
    BY <2>1, <2>2
<1>7. VersionOK(patch_version)'
  <2>1. \A n \in 1 .. patch_version : Done(n)'
    BY <1>3, VersionKept DEF Inv, StateInv, ServerInv, DeletedInv
  <2> QED
    BY <1>2, <1>6, <2>1 DEF VersionOK
<1>8. \A d \in Chains : ChainDeleted(chain[d])'
  BY <1>1, <1>3, ChainsDeleted
<1> QED
  BY <1>2, <1>3, <1>7, <1>8, SameCopy DEF DeletedInv

LEMMA StoreDeleted ==
    ASSUME Inv, DeletedInv, NEW c \in Chains, Store(c) \/ EventMerges(c) \/ EventStores(c)
    PROVE  DeletedInv'
<1>1. UNCHANGED <<server, patch_version, copy>>
  BY DEF Store, EventMerges, EventStores, state, local
<1>2. KeepsDone /\ PatchesStay
  BY <1>1, StoreKeeps, EventMergesKeeps, EventStoresKeeps DEF PatchesStay, server
<1>3. \/ UNCHANGED chain
      \/ \E X : Becomes(c, X) /\ X.stage # "answered" /\ (X.stage = "asked" => X.version = patch_version)
  <2>1. CASE Store(c)
    BY <2>1, StoreMoves DEF Ended, Goes
  <2>2. CASE EventMerges(c)
    BY <2>2, EventMergesMoves DEF Asks
  <2>3. CASE EventStores(c)
    BY <2>3, EventStoresMoves DEF Begins
  <2> QED
    BY <2>1, <2>2, <2>3
<1>4. \A n \in 1 .. patch_version : Done(n)'
  BY <1>2, VersionKept DEF Inv, StateInv, ServerInv, DeletedInv
<1>5. \A d \in Chains : ChainDeleted(chain[d])'
  BY <1>2, <1>3, <1>4, ChainsDeleted, SameChainsDeleted
<1> QED
  BY <1>1, <1>2, <1>5, SameVersion, SameCopy DEF DeletedInv

LEMMA SameChainStateDeleted ==
    ASSUME Inv, DeletedInv,
           \/ NewMessage \/ \E i \in Ids : ServerDeletes(i) \/ ServerDeletesUpTo(i)
           \/ EventComes \/ EventDeletes \/ UNCHANGED vars
    PROVE  DeletedInv'
<1>1. UNCHANGED <<patch_version, copy, chain>>
  BY DEF NewMessage, ServerDeletes, ServerDeletesUpTo, EventComes, EventDeletes, vars, state, local
<1>2. PatchesStay
  BY ServerKeeps, EventKeeps DEF EventDeletes, PatchesStay, server
<1>3. KeepsDone
  BY ServerKeeps, EventKeeps, EventDeletesKeeps
<1> QED
  BY <1>1, <1>2, <1>3, SameVersion, SameCopy, SameChainsDeleted DEF DeletedInv

\* A copy has the patch version of the state it was read from, and brings it back.
LEMMA CopyDeleted ==
    ASSUME Inv, DeletedInv, LocalRead \/ ClearRead \/ LocalWrite
    PROVE  DeletedInv'
<1>1. UNCHANGED chain /\ PatchesStay /\ KeepsDone
  BY EventKeeps DEF LocalRead, ClearRead, LocalWrite
<1>2. Len(patches) \in Nat /\ patch_version \in Nat /\ patch_version <= Len(patches)
      /\ copy.version \in Nat /\ copy.version <= Len(patches)
  BY DEF Inv, StateInv, CopyState, ServerInv
<1>3. /\ \A n \in 1 .. patch_version : Done(n)'
      /\ \A n \in 1 .. copy.version : Done(n)'
  BY <1>1, <1>2, VersionKept DEF DeletedInv
<1>4. \/ patch_version' = patch_version /\ copy'.version = patch_version
      \/ patch_version' \in {copy.version, patch_version} /\ copy'.version = 0
  <2>1. CASE LocalRead \/ ClearRead
    <3> DEFINE yes == TRUE
    <3>1. copy' = [taken |-> yes, last |-> last_msgid, version |-> patch_version]
      BY <2>1 DEF LocalRead, ClearRead, TakeCopy
    <3>2. UNCHANGED patch_version
      BY <2>1 DEF LocalRead, ClearRead, state
    <3> HIDE DEF yes
    <3> QED
      BY <3>1, <3>2
  <2>2. CASE LocalWrite
    BY <2>2, NoCopyFacts DEF LocalWrite, MergeState
  <2> QED
    BY <2>1, <2>2
<1>5. VersionOK(patch_version)' /\ VersionOK(copy.version)'
  BY <1>3, <1>4 DEF VersionOK
<1> QED
  BY <1>1, <1>5, SameChainsDeleted DEF DeletedInv

LEMMA CrashDeleted == ASSUME Inv, DeletedInv, Crash PROVE DeletedInv'
<1>1. /\ chain' = [c \in Chains |-> Idle] /\ copy' = NoCopy /\ UNCHANGED patch_version
  BY DEF Crash, state
<1>2. VersionOK(patch_version)'
  BY <1>1, CrashKeeps, SameVersion
<1>3. VersionOK(copy.version)'
  <2>1. copy'.version = 0
    BY <1>1, NoCopyFacts
  <2> QED
    BY <2>1 DEF VersionOK
<1>4. ASSUME NEW d \in Chains PROVE ChainDeleted(chain[d])'
  <2>1. chain'[d].stage = "idle"
    BY <1>1 DEF Idle
  <2> QED
    BY <2>1 DEF ChainDeleted
<1> QED
  BY <1>2, <1>3, <1>4 DEF DeletedInv

LEMMA NextDeleted == Inv /\ DeletedInv /\ [Next]_vars => DeletedInv'
<1> SUFFICES ASSUME Inv, DeletedInv, [Next]_vars PROVE DeletedInv'
  OBVIOUS
<1>1. CASE NewMessage \/ \E i \in Ids : ServerDeletes(i) \/ ServerDeletesUpTo(i)
  BY <1>1, SameChainStateDeleted
<1>2. CASE EventComes \/ EventDeletes \/ LocalRead \/ ClearRead \/ LocalWrite \/ Crash
  BY <1>2, SameChainStateDeleted, CopyDeleted, CrashDeleted
<1>3. ASSUME NEW c \in Chains,
             \/ OpenDialog(c) \/ DownloadFailedHoles(c) \/ EventMerges(c) \/ EventStores(c)
             \/ Begin(c) \/ FindHole(c) \/ CheckHole(c) \/ Answer(c) \/ AskFails(c) \/ AskRefused(c)
             \/ SetState(c) \/ Store(c) \/ Validate(c)
      PROVE  DeletedInv'
  BY <1>3, SearchDeleted, SetStateDeleted, StoreDeleted
<1>4. CASE UNCHANGED vars
  BY <1>4, SameChainStateDeleted
<1> QED
  BY <1>1, <1>2, <1>3, <1>4 DEF Next

LEMMA InitDeleted == Init => DeletedInv
<1> SUFFICES ASSUME Init PROVE DeletedInv
  OBVIOUS
<1>1. patch_version = 0 /\ copy = NoCopy /\ chain = [c \in Chains |-> Idle]
  BY DEF Init
<1>2. copy.version = 0 /\ \A c \in Chains : chain[c].stage = "idle"
  BY <1>1, NoCopyFacts DEF Idle
<1> QED
  BY <1>1, <1>2 DEF DeletedInv, VersionOK, ChainDeleted

LEMMA NothingDeletedShows == Inv /\ DeletedInv => DeletedStayHidden
<1> SUFFICES ASSUME Inv, DeletedInv, NEW n \in 1 .. patch_version,
                    patches[n] > del_up_to, patches[n] \in VisibleIds(headers_index)
             PROVE  InAnswer(patches[n]) \/ patches[n] \in undone
  BY DEF DeletedStayHidden
<1>1. patches[n] \in Ids
  BY DEF Inv, IndexInv, HonestIndex, VisibleIds
<1>2. Settled(patches[n])
  BY <1>1 DEF DeletedInv, VersionOK, Done
<1> QED
  BY <1>2 DEF Settled, VisibleIds, Visible

\* Deleted messages stay hidden: a message whose deletion the patch version says is known is not
\* shown, or the deletion is next to be stored, or it came to nothing in one of the ways named: a
\* crash between the state and the messages of an answer, or an older answer stored over it.
THEOREM DeletionsAreKept == Spec => []DeletedStayHidden
<1>1. Init => Inv /\ DeletedInv
  BY InitInv, InitDeleted
<1>2. Inv /\ DeletedInv /\ [Next]_vars => (Inv /\ DeletedInv)'
  BY NextInv, NextDeleted
<1>3. Inv /\ DeletedInv => DeletedStayHidden
  BY NothingDeletedShows
<1> QED
  BY <1>1, <1>2, <1>3, PTL DEF Spec

-----------------------------------------------------------------------------
(* Each answer helps *)

PagesInv == \A c \in Chains : PageOK(chain[c])

\* a chain that has no answer, or that has the one it had
LEMMA PagesStay ==
    ASSUME Inv, PagesInv, NEW c \in Chains, NEW X, Becomes(c, X), PageOK(X)
    PROVE  PagesInv'
<1> SUFFICES ASSUME NEW d \in Chains PROVE PageOK(chain'[d])
  BY DEF PagesInv, PageOK
<1>1. chain'[d] = IF d = c THEN X ELSE chain[d]
  BY DEF Becomes, Inv, ChainInv
<1> QED
  BY <1>1 DEF PagesInv

LEMMA NoPage ==
    ASSUME NEW X, EmptyChain(X) \/ X.stage \notin {"answered", "store"}
    PROVE  PageOK(X)
BY DEF PageOK, EmptyChain

\* An answer is to be stored as it came.
LEMMA SetStatePages == ASSUME Inv, PagesInv, NEW c \in Chains, SetState(c) PROVE PagesInv'
<1>1. PICK X : /\ Becomes(c, X) /\ Goes(X, chain[c], "store") /\ chain[c].stage = "answered"
               /\ X.block = chain[c].block /\ X.older = chain[c].older
  BY SetStateMoves
<1>2. PageOK(chain[c])
  BY DEF PagesInv
<1>3. PageOK(X)
  BY <1>1, <1>2 DEF PageOK, Goes
<1> QED
  BY <1>1, <1>3, PagesStay

LEMMA ChainsPages ==
    ASSUME Inv, PagesInv, NEW c \in Chains,
           \/ OpenDialog(c) \/ DownloadFailedHoles(c) \/ EventMerges(c) \/ EventStores(c)
           \/ Begin(c) \/ FindHole(c) \/ CheckHole(c) \/ Answer(c) \/ AskFails(c) \/ AskRefused(c)
           \/ SetState(c) \/ Store(c) \/ Validate(c)
    PROVE  PagesInv'
<1>1. CASE SetState(c)
  BY <1>1, SetStatePages
<1>2. CASE UNCHANGED chain
  BY <1>2 DEF PagesInv, PageOK
<1>3. CASE ~SetState(c) /\ ~UNCHANGED chain
  <2>1. \E X : Becomes(c, X) /\ PageOK(X)
    <3>1. CASE OpenDialog(c)
      BY <3>1, OpenDialogMoves, NoPage DEF Asks
    <3>2. CASE DownloadFailedHoles(c)
      BY <3>2, DownloadFailedHolesMoves, NoPage DEF Begins
    <3>3. CASE Begin(c)
      BY <3>3, BeginMoves, NoPage DEF Begins
    <3>4. CASE EventMerges(c)
      BY <1>3, <3>4, EventMergesMoves, NoPage DEF Asks
    <3>5. CASE EventStores(c)
      BY <1>3, <3>5, EventStoresMoves, NoPage DEF Begins
    <3>6. CASE FindHole(c)
      BY <3>6, FindHoleMoves, NoPage DEF Ended
    <3>7. CASE CheckHole(c)
      BY <3>7, CheckHoleMoves, NoPage DEF Ended, Goes
    <3>8. CASE Answer(c)
      BY <3>8, AnswerFacts DEF AnswerTo, Inv
    <3>9. CASE AskFails(c) \/ AskRefused(c)
      BY <3>9, AskEndsMoves, NoPage DEF Ended
    <3>10. CASE Store(c)
      BY <3>10, StoreMoves, NoPage DEF Ended, Goes
    <3>11. CASE Validate(c)
      BY <3>11, ValidateMoves, NoPage DEF Begins
    <3> QED
      BY <1>3, <3>1, <3>2, <3>3, <3>4, <3>5, <3>6, <3>7, <3>8, <3>9, <3>10, <3>11
  <2> QED
    BY <2>1, PagesStay
<1> QED
  BY <1>1, <1>2, <1>3

LEMMA IdlePages == ASSUME NEW c \in Chains, chain[c] = Idle PROVE PageOK(chain[c])
BY NoPage DEF Idle

LEMMA NextPages == Inv /\ PagesInv /\ [Next]_vars => PagesInv'
<1> SUFFICES ASSUME Inv, PagesInv, [Next]_vars PROVE PagesInv'
  OBVIOUS
<1>1. CASE UNCHANGED chain
  BY <1>1 DEF PagesInv, PageOK
<1>2. CASE Crash
  <2>1. \A c \in Chains : chain'[c] = Idle
    BY <1>2 DEF Crash
  <2>2. PageOK(Idle)
    BY NoPage DEF Idle
  <2> QED
    BY <2>1, <2>2 DEF PagesInv, PageOK
<1>3. CASE NewMessage \/ \E i \in Ids : ServerDeletes(i) \/ ServerDeletesUpTo(i)
  BY <1>1, <1>3 DEF NewMessage, ServerDeletes, ServerDeletesUpTo
<1>4. CASE EventComes \/ EventDeletes \/ LocalRead \/ ClearRead \/ LocalWrite
  BY <1>1, <1>4 DEF EventComes, EventDeletes, LocalRead, ClearRead, LocalWrite
<1>5. CASE \E c \in Chains :
             \/ OpenDialog(c) \/ DownloadFailedHoles(c) \/ EventMerges(c) \/ EventStores(c)
             \/ Begin(c) \/ FindHole(c) \/ CheckHole(c) \/ Answer(c) \/ AskFails(c) \/ AskRefused(c)
             \/ SetState(c) \/ Store(c) \/ Validate(c)
  BY <1>5, ChainsPages
<1>6. CASE UNCHANGED vars
  BY <1>1, <1>6 DEF vars
<1> QED
  BY <1>2, <1>3, <1>4, <1>5, <1>6 DEF Next

LEMMA InitPages == Init => PagesInv
<1> SUFFICES ASSUME Init, NEW c \in Chains PROVE PageOK(chain[c])
  BY DEF PagesInv
<1>1. chain[c] = Idle
  BY DEF Init
<1> QED
  BY <1>1, IdlePages

LEMMA TrimmedId == ASSUME NEW h \in Header PROVE Trimmed(h).id = h.id
<1>1. h.prev <= del_up_to => Trimmed(h) = [h EXCEPT !.prev = NoId]
  BY DEF Trimmed
<1>2. ~(h.prev <= del_up_to) => Trimmed(h) = h
  BY DEF Trimmed
<1> QED
  BY <1>1, <1>2 DEF Header

LEMMA InsertDomain ==
    ASSUME NEW idx, NEW h PROVE DOMAIN InsertHeader(idx, h) = DOMAIN idx \cup {h.id}
BY DEF InsertHeader

\* Without anything fresh a block leaves the index as it is; what is fresh is in it afterwards.
LEMMA InsertBlockDomain ==
    ASSUME NEW idx, NEW block \in Seq(Header)
    PROVE  /\ (\A n \in 1 .. Len(block) : ~Fresh(idx, block[n])) => InsertBlock(idx, block) = idx
           /\ DOMAIN idx \subseteq DOMAIN InsertBlock(idx, block)
           /\ \A n \in 1 .. Len(block) :
                 Fresh(idx, block[n]) => block[n].id \in DOMAIN InsertBlock(idx, block)
<1> DEFINE N == Len(block)
<1>1. N \in Nat /\ \A n \in 1 .. N : block[n] \in Header
  OBVIOUS
<1>2. PICK f : Inserting(idx, block, N, f) /\ InsertBlock(idx, block) = f[N]
  BY <1>1, InsertBlockIs
<1> DEFINE next(n, h) == IF Fresh(idx, block[n]) THEN InsertHeader(h, Trimmed(block[n])) ELSE h
           P(m) == /\ (\A n \in 1 .. m : ~Fresh(idx, block[n])) => f[m] = idx
                   /\ DOMAIN idx \subseteq DOMAIN f[m]
                   /\ \A n \in 1 .. m : Fresh(idx, block[n]) => block[n].id \in DOMAIN f[m]
           T == {m \in 0 .. N : ~P(m)}
<1>3. f[0] = idx /\ \A n \in 1 .. N : f[n] = next(n, f[n - 1])
  <2>1. f = [n \in 0 .. N |-> IF n = 0 THEN idx ELSE next(n, f[n - 1])]
    BY <1>2 DEF Inserting
  <2> HIDE DEF next
  <2> QED
    BY <1>1, <2>1
<1>4. P(0)
  BY <1>3
<1>5. ASSUME NEW m \in 1 .. N, P(m - 1) PROVE P(m)
  <2> DEFINE g == f[m - 1]
             b == block[m]
             h == Trimmed(b)
  <2>1. CASE Fresh(idx, b)
    <3>1. f[m] = InsertHeader(g, h)
      BY <1>3, <2>1
    <3>2. b \in Header
      BY <1>1
    <3>3. h.id = b.id
      BY <3>2, TrimmedId
    <3>4. DOMAIN f[m] = DOMAIN g \cup {b.id}
      <4> HIDE DEF g, h
      <4> QED
        BY <3>1, <3>3, InsertDomain
    <3> QED
      BY <1>1, <1>5, <2>1, <3>4
  <2>2. CASE ~Fresh(idx, b)
    <3>1. f[m] = g
      BY <1>3, <2>2
    <3> QED
      BY <1>1, <1>5, <2>2, <3>1
  <2> QED
    BY <2>1, <2>2
<1>6. T = {}
  <2> SUFFICES ASSUME T # {} PROVE FALSE
    OBVIOUS
  <2>1. T \subseteq Nat
    BY <1>1
  <2>2. PICK m \in T : \A k \in T : m <= k
    <3> HIDE DEF T
    <3> QED
      BY <2>1, LeastNat
  <2> HIDE DEF P
  <2>3. m \in 1 .. N
    BY <1>1, <1>4, <2>2
  <2>4. m - 1 \in 0 .. N /\ ~(m <= m - 1)
    BY <1>1, <2>3
  <2>5. P(m - 1)
    BY <2>2, <2>4
  <2> QED
    BY <1>5, <2>2, <2>3, <2>5
<1>7. P(N)
  <2> HIDE DEF P
  <2> QED
    BY <1>1, <1>6
<1> QED
  BY <1>2, <1>7

\* where the first message of a dialog is known, its link leads nowhere
LEMMA OldestLink ==
    ASSUME NEW idx, NEW f \in DOMAIN idx, idx[f].id = f, ~idx[f].patch, idx[f] \in Header
    PROVE  InsertHeader(idx, [idx[f] EXCEPT !.prev = NoId, !.known = TRUE])[f].prev = NoId
<1> DEFINE e == idx[f]
           h == [e EXCEPT !.prev = NoId, !.known = TRUE]
<1>1. e \in Header /\ e.id = f /\ ~e.patch
  OBVIOUS
<1> HIDE DEF e
<1>2. h.id = f /\ h.prev = NoId /\ h.patch = e.patch
  BY <1>1 DEF Header
<1> HIDE DEF h
<1>3. InsertHeader(idx, h)[f] = Merge(e, h)
  BY <1>2 DEF InsertHeader, e
<1>4. h.prev # NoId \/ ~h.patch
  BY <1>1, <1>2
<1>5. Merge(e, h).prev = h.prev
  BY <1>4 DEF Merge
<1> QED
  BY <1>2, <1>3, <1>5 DEF h, e

\* the hole that is found is one: above the next message, from which its link does not lead
LEMMA FoundIsHole ==
    ASSUME NEW idx, DOMAIN idx \subseteq Ids, NEW from \in AnyId,
           GetNextHole(idx, from, -1).from # NoId
    PROVE  LET f == GetNextHole(idx, from, -1).from
           IN  /\ f \in VisibleIds(idx) /\ f \in Ids /\ f <= Start(idx, from)
               /\ idx[f].prev # Older(idx, f)
               /\ GetNextHole(idx, from, -1).to = Older(idx, f)
<1> DEFINE start == IF from = NoId THEN Older(idx, LastId(idx) + 1) ELSE Older(idx, from + 1)
           passed(c) == {i \in VisibleIds(idx) : c < i /\ i <= start}
           holes == {c \in VisibleIds(idx) : c <= start /\ idx[c].prev # Older(idx, c)}
           c == Max(holes)
           d == IF Older(idx, c) = NoId THEN 0 ELSE Cardinality(passed(c)) + 1
           hole == GetNextHole(idx, from, -1)
<1>1. hole = IF DOMAIN idx = {} THEN NoHole("ok")
             ELSE IF from > LastId(idx) THEN Hole(NoId, LastId(idx), 0)
             ELSE IF from # NoId /\ from \notin DOMAIN idx THEN NoHole("index_not_found")
             ELSE IF start = NoId THEN NoHole("ok")
             ELSE IF holes = {} THEN NoHole("reached")
             ELSE Hole(c, Older(idx, c), d)
  BY DEF GetNextHole
<1>2. VisibleIds(idx) \subseteq Ids
  BY DEF VisibleIds
<1>3. DOMAIN idx # {} => start = Start(idx, from)
  BY StartFacts DEF Start
<1>4. \A s : NoHole(s).from = NoId
  BY DEF NoHole
<1>5. \A t, e : Hole(NoId, t, e).from = NoId
  BY DEF Hole
<1>6. holes \subseteq Ids /\ \A x \in holes : x \in VisibleIds(idx) /\ x <= start /\ idx[x].prev # Older(idx, x)
  BY <1>2
<1>7. holes # {} => c \in holes
  <2> HIDE DEF holes
  <2> QED
    BY <1>6, MaxFacts
<1> HIDE DEF start, holes, c, d
<1>8. DOMAIN idx # {} /\ holes # {} /\ hole = Hole(c, Older(idx, c), d)
  BY <1>1, <1>4, <1>5
<1>9. hole.from = c /\ hole.to = Older(idx, c)
  BY <1>8 DEF Hole
<1>10. c \in VisibleIds(idx) /\ c \in Ids /\ c <= start /\ idx[c].prev # Older(idx, c)
  BY <1>6, <1>7, <1>8
<1>11. c <= Start(idx, from)
  BY <1>3, <1>8, <1>10
<1> QED
  BY <1>9, <1>10, <1>11

\* what may bring an answer that leads nowhere: a deletion that is news, or a message that is gone
Excused(c) ==
    \E m \in Range(chain[c].block) :
        IF m.patch THEN Fresh(headers_index, m) ELSE m.id \notin live \/ m.id <= del_up_to

\* the hole that the search of the chain c finds after it
NextHole(c) ==
    GetNextHole(headers_index', ValidateHoleRequest(headers_index', chain[c].hole), -1)

\* When the lower end of the hole is a message, the search goes on from there.
LEMMA GoesBelow ==
    ASSUME NEW idx, DOMAIN idx \subseteq Ids, NEW hole \in Holes,
           NEW v \in AnyId, v = ValidateHoleRequest(idx, hole),
           NEW f \in Ids, f = hole.from, f \in VisibleIds(idx), f <= Start(idx, v),
           idx[f].prev # Older(idx, f), hole.to = Older(idx, f)
    PROVE  hole.to = NoId
<1> SUFFICES ASSUME hole.to # NoId PROVE FALSE
  OBVIOUS
<1> DEFINE t == Older(idx, f)
<1>1. t \in AnyId /\ (t = NoId \/ t < f)
  BY OlderFacts
<1>2. f \in DOMAIN idx /\ ~idx[f].patch /\ f # NoId /\ t # NoId
  BY IdsAreNat DEF VisibleIds, Visible
<1>3. v = t
  BY <1>2 DEF ValidateHoleRequest
<1>4. Start(idx, v) <= v
  BY <1>2, <1>3, StartFacts
<1>5. f \in Int /\ t \in Int /\ Start(idx, v) \in Int
  BY <1>1, IdsAreNat, AnyIdIsInt, StartFacts
<1> QED
  BY <1>1, <1>2, <1>3, <1>4, <1>5

\* A message of the answer that lives is in the index, and visible, when it is stored.
LEMMA StoredIsVisible ==
    ASSUME Inv, NEW c \in Chains, Store(c), NEW n \in 1 .. Len(chain[c].block),
           chain[c].block[n].id \in live, chain[c].block[n].id > del_up_to
    PROVE  chain[c].block[n].id \in VisibleIds(headers_index')
<1> DEFINE block == chain[c].block
           i == block[n].id
           idx == headers_index
<1>1. chain[c] \in ChainState /\ block \in Seq(Header) /\ block[n] \in Header
  BY ChainIs, ChainFields DEF Inv
<1>2. del_up_to \in Int /\ i \in Int
  BY <1>1, HeaderFields, AnyIdIsInt DEF Inv, StateInv
<1>3. headers_index' = Stored(idx, block, chain[c].hole.from, chain[c].older) /\ UNCHANGED <<live, top>>
  BY DEF Store, UpdateHistory, server
<1>4. i \in DOMAIN headers_index'
  <2>1. StoredIn(headers_index', idx, block, Len(block), live, Absent, top)
    BY StoreUpdates
  <2>2. CASE ~Fresh(idx, block[n])
    <3>1. i \in DOMAIN idx
      BY <1>1, <1>2, <2>2, NotFresh DEF Inv, StateInv
    <3> QED
      BY <2>1, <3>1 DEF StoredIn
  <2>3. CASE Fresh(idx, block[n])
    <3>1. block[n] \in Range(block)
      BY <1>1 DEF Range
    <3>2. headers_index' = InsertBlock(idx, block)
      BY <1>3, <2>3, <3>1 DEF Stored
    <3> QED
      BY <1>1, <2>3, <3>2, InsertBlockDomain
  <2> QED
    BY <2>2, <2>3
<1>5. HonestIndex(headers_index', live, Absent', top)
  BY <1>3, StoreUpdates DEF IndexInv
<1>6. Honest(headers_index'[i], live, Absent', top) /\ headers_index'[i].id = i
  BY <1>4, <1>5 DEF HonestIndex
<1>7. ~headers_index'[i].deleted
  BY <1>6 DEF Honest
<1>8. ~headers_index'[i].patch
  BY <1>6, <1>7 DEF Honest
<1> QED
  BY <1>4, <1>7, <1>8 DEF VisibleIds, Visible

\* An answer that is not excused leads to another hole.
LEMMA StoreHelps ==
    ASSUME Inv, PagesInv, NEW c \in Chains, Store(c),
           NextHole(c).from # NoId, NextHole(c).from = chain[c].hole.from,
           NextHole(c).to = chain[c].hole.to
    PROVE  Excused(c)
<1> SUFFICES ASSUME ~Excused(c) PROVE FALSE
  OBVIOUS
<1> DEFINE ch == chain[c]
           hole == ch.hole
           block == ch.block
           f == hole.from
           v == ValidateHoleRequest(headers_index', hole)
<1>1. /\ ch \in ChainState /\ hole \in Holes /\ block \in Seq(Header) /\ ch.stage = "store"
      /\ hole.from \in AnyId /\ PageOK(ch)
  BY ChainIs, ChainFields DEF Inv, Store, PagesInv
<1>2. DOMAIN headers_index' \subseteq Ids
  BY StoreUpdates DEF IndexInv, HonestIndex
<1>3. v \in AnyId
  BY <1>1, <1>2, OlderFacts DEF ValidateHoleRequest
<1>4. /\ f \in VisibleIds(headers_index') /\ f \in Ids /\ f <= Start(headers_index', v)
      /\ headers_index'[f].prev # Older(headers_index', f) /\ hole.to = Older(headers_index', f)
  BY <1>2, <1>3, FoundIsHole DEF NextHole
<1>5. hole.to = NoId /\ Older(headers_index', f) = NoId
  BY <1>1, <1>2, <1>3, <1>4, GoesBelow
<1>6. f # NoId /\ f \in Int
  BY <1>4, IdsAreNat
<1>7. \A n \in 1 .. Len(block) :
         IF block[n].patch THEN ~Fresh(headers_index, block[n])
         ELSE block[n].id \in live /\ ~(block[n].id <= del_up_to)
  <2>1. \A n \in 1 .. Len(block) : block[n] \in Range(block)
    BY <1>1 DEF Range
  <2> QED
    BY <2>1 DEF Excused
<1>8. ASSUME NEW n \in 1 .. Len(block), ~block[n].patch PROVE FALSE
  <2>1. block[n].id \in live /\ block[n].id < f
    BY <1>1, <1>6, <1>7, <1>8 DEF PageOK
  <2>2. block[n].id > del_up_to
    <3>1. block[n].id \in Int /\ del_up_to \in Int
      BY <1>1, HeaderFields, AnyIdIsInt DEF Inv, StateInv
    <3> QED
      BY <1>7, <1>8, <3>1
  <2>3. block[n].id \in VisibleIds(headers_index')
    BY <2>1, <2>2, StoredIsVisible
  <2>4. block[n].id <= Older(headers_index', f)
    BY <1>2, <2>1, <2>3, OlderFacts
  <2>5. block[n].id \in Nat
    BY <1>1, HeaderFields
  <2> QED
    BY <1>5, <2>4, <2>5 DEF NoId
<1>9. ch.older = NoId /\ \A n \in 1 .. Len(block) : ~Fresh(headers_index, block[n])
  BY <1>1, <1>5, <1>6, <1>7, <1>8 DEF PageOK
<1>10. \A m \in Range(block) : ~Fresh(headers_index, m)
  BY <1>1, <1>9 DEF Range
<1>11. headers_index' = Stored(headers_index, block, f, ch.older)
  BY DEF Store, UpdateHistory
<1>12. CASE f \in DOMAIN headers_index /\ ~headers_index[f].patch
  <2>1. headers_index' =
          InsertHeader(headers_index, [headers_index[f] EXCEPT !.prev = NoId, !.known = TRUE])
    BY <1>6, <1>9, <1>10, <1>11, <1>12 DEF Stored
  <2>2. headers_index[f] \in Header /\ headers_index[f].id = f
    BY <1>12 DEF Inv, IndexInv, HonestIndex
  <2>3. headers_index'[f].prev = NoId
    BY <1>12, <2>1, <2>2, OldestLink
  <2> QED
    BY <1>4, <1>5, <2>3
<1>13. CASE ~(f \in DOMAIN headers_index /\ ~headers_index[f].patch)
  <2>1. headers_index' = InsertBlock(headers_index, block)
    BY <1>11, <1>13 DEF Stored
  <2>2. headers_index' = headers_index
    BY <1>1, <1>9, <2>1, InsertBlockDomain
  <2> QED
    BY <1>4, <1>13, <2>2 DEF VisibleIds, Visible
<1> QED
  BY <1>12, <1>13

\* Nothing but a stored answer takes a chain from there to the next search.
LEMMA OnlyStoreValidates ==
    ASSUME Inv, [Next]_vars, NEW c \in Chains, chain[c].stage = "store", chain'[c].stage = "validate"
    PROVE  Store(c)
<1>1. ASSUME NEW d \in Chains, NEW X, Becomes(d, X), c # d PROVE FALSE
  <2>1. chain'[c] = chain[c]
    BY <1>1, ChainIs DEF Becomes, Inv
  <2> QED
    BY <2>1
<1>2. ~UNCHANGED chain
  OBVIOUS
<1>3. ~Crash
  BY DEF Crash, Idle
<1>4. PICK d \in Chains :
             \/ OpenDialog(d) \/ DownloadFailedHoles(d) \/ EventMerges(d) \/ EventStores(d)
             \/ Begin(d) \/ FindHole(d) \/ CheckHole(d) \/ Answer(d) \/ AskFails(d) \/ AskRefused(d)
             \/ SetState(d) \/ Store(d) \/ Validate(d)
  <2>1. ~(NewMessage \/ \E i \in Ids : ServerDeletes(i) \/ ServerDeletesUpTo(i))
    BY <1>2 DEF NewMessage, ServerDeletes, ServerDeletesUpTo
  <2>2. ~(EventComes \/ EventDeletes \/ LocalRead \/ ClearRead \/ LocalWrite)
    BY <1>2 DEF EventComes, EventDeletes, LocalRead, ClearRead, LocalWrite
  <2>3. ~UNCHANGED vars
    BY <1>2 DEF vars
  <2> QED
    BY <1>3, <2>1, <2>2, <2>3 DEF Next
<1>5. d = c
  <2>1. \E X : Becomes(d, X)
    BY <1>2, <1>4, OpenDialogMoves, DownloadFailedHolesMoves, EventMergesMoves, EventStoresMoves,
       BeginMoves, FindHoleMoves, CheckHoleMoves, AnswerFacts, AskEndsMoves, SetStateMoves,
       StoreMoves, ValidateMoves DEF Inv
  <2> QED
    BY <1>1, <2>1
<1>6. Store(d)
  <2>1. ~(OpenDialog(d) \/ DownloadFailedHoles(d) \/ Begin(d) \/ FindHole(d) \/ CheckHole(d)
          \/ Answer(d) \/ AskFails(d) \/ AskRefused(d) \/ SetState(d) \/ Validate(d))
    BY <1>5 DEF OpenDialog, DownloadFailedHoles, Begin, FindHole, CheckHole, Answer, AskFails,
                AskRefused, SetState, Validate
  <2>2. ~EventMerges(d) /\ ~EventStores(d)
    BY <1>2, <1>5, EventMergesMoves, EventStoresMoves
  <2> QED
    BY <1>4, <2>1, <2>2
<1> QED
  BY <1>5, <1>6

\* Each answer helps: the search that follows finds another hole, or none, or the answer told a
\* deletion that is news, or messages of it are gone meanwhile; for any number of chains.
THEOREM AnswersHelp == Spec => EachAnswerHelps
<1> DEFINE Helps ==
      \A c \in Chains :
          chain[c].stage = "store" /\ chain'[c].stage = "validate" =>
              LET hole == chain[c].hole
                  next == GetNextHole(headers_index', ValidateHoleRequest(headers_index', hole), -1)
              IN  next.from # NoId /\ next.from = hole.from /\ next.to = hole.to =>
                      \E m \in Range(chain[c].block) :
                          IF m.patch THEN Fresh(headers_index, m)
                          ELSE m.id \notin live \/ m.id <= del_up_to
<1>1. Init => Inv /\ PagesInv
  BY InitInv, InitPages
<1>2. Inv /\ PagesInv /\ [Next]_vars => (Inv /\ PagesInv)'
  BY NextInv, NextPages
<1>3. Inv /\ PagesInv /\ [Next]_vars => Helps
  BY OnlyStoreValidates, StoreHelps DEF NextHole, Excused
<1> QED
  BY <1>1, <1>2, <1>3, PTL DEF Spec, EachAnswerHelps
=============================================================================
