------------------------- MODULE ContactArchive_proofs -------------------------
(***************************************************************************)
(* Proofs about ContactArchive, for any set of ids, any number of jobs and *)
(* of messages and any sizes of blocks and of the index.                   *)
(***************************************************************************)
EXTENDS ContactArchive, TLAPS

(***************************************************************************)
(* The index.  A header is good in a world of live messages L, of a bound  *)
(* t up to which history was trimmed, and of bodies D, if its link hides   *)
(* no live message above t, it is not marked deleted while the message     *)
(* lives, and its offset, if it has one, is that of a body of its own id.  *)
(***************************************************************************)
Fine(h, L, t) ==
    /\ h.prev < h.id
    /\ h.deleted => h.id \notin L
    /\ h.known => \A x \in L : x > t => ~(h.prev < x /\ x < h.id)

Attached(h, D) ==
    h.data \notin {NotStored, Invalidated} => h.data \in 1 .. Len(D) /\ D[h.data].id = h.id

Good(h, L, t, D) == h \in Header /\ Fine(h, L, t) /\ Attached(h, D)

GoodIndex(idx, L, t, D) ==
    /\ DOMAIN idx \subseteq Ids
    /\ \A i \in DOMAIN idx : Good(idx[i], L, t, D) /\ idx[i].id = i

\* a later world: fewer messages live, more is trimmed, bodies were appended
Later(L, t, D, L2, t2, D2) ==
    /\ L2 \subseteq L /\ t \in Int /\ t2 \in Int /\ t <= t2
    /\ Len(D) \in Nat /\ Len(D2) \in Nat /\ Len(D) <= Len(D2)
    /\ \A n \in 1 .. Len(D) : D2[n] = D[n]

LEMMA HeaderFields ==
    ASSUME NEW h \in Header
    PROVE  /\ h.id \in Ids /\ h.id \in Nat /\ h.id > 0
           /\ h.prev \in Ids \cup {NoId} /\ h.prev \in Int /\ h.prev >= -1
           /\ h.known \in BOOLEAN /\ h.data \in Nat \cup {NotStored} /\ h.version \in Versions
           /\ h.patch \in BOOLEAN /\ h.deleted \in BOOLEAN
           /\ h.modified \in BOOLEAN /\ h.updated \in BOOLEAN
<1>1. /\ h.id \in Ids /\ h.prev \in Ids \cup {NoId}
      /\ h.known \in BOOLEAN /\ h.data \in Nat \cup {NotStored} /\ h.version \in Versions
      /\ h.patch \in BOOLEAN /\ h.deleted \in BOOLEAN
      /\ h.modified \in BOOLEAN /\ h.updated \in BOOLEAN
  BY DEF Header
<1>2. \A i \in Ids : i \in Nat /\ i > 0
  BY IndexAssumption
<1>3. h.prev \in Int /\ h.prev >= -1
  BY <1>1, <1>2 DEF NoId
<1> QED
  BY <1>1, <1>2, <1>3

LEMMA OnlyPrevSet ==
    ASSUME NEW h \in Header, NEW p \in Ids \cup {NoId}
    PROVE  LET g == [h EXCEPT !.prev = p] IN
           /\ g \in Header /\ g.id = h.id /\ g.prev = p /\ g.known = h.known /\ g.data = h.data
           /\ g.deleted = h.deleted
BY DEF Header

LEMMA GoodLater ==
    ASSUME NEW h, NEW L, NEW t, NEW D, NEW L2, NEW t2, NEW D2,
           L \subseteq Ids, Later(L, t, D, L2, t2, D2), Good(h, L, t, D)
    PROVE  Good(h, L2, t2, D2)
<1>1. h \in Header
  BY DEF Good
<1>2. Fine(h, L2, t2)
  <2>1. \A x \in L2 : x > t2 => x \in L /\ x > t
    BY IndexAssumption DEF Later
  <2> QED
    BY <2>1 DEF Good, Fine, Later
<1>3. Attached(h, D2)
  BY <1>1, HeaderFields DEF Good, Attached, Later
<1> QED
  BY <1>1, <1>2, <1>3 DEF Good

LEMMA IndexLater ==
    ASSUME NEW idx, NEW L, NEW t, NEW D, NEW L2, NEW t2, NEW D2,
           L \subseteq Ids, Later(L, t, D, L2, t2, D2), GoodIndex(idx, L, t, D)
    PROVE  GoodIndex(idx, L2, t2, D2)
BY GoodLater DEF GoodIndex

LEMMA MergeFields ==
    ASSUME NEW e \in Header, NEW h \in Header
    PROVE  /\ Merge(e, h) \in Header
           /\ Merge(e, h).id = e.id
           /\ Merge(e, h).deleted = h.deleted
           /\ \/ Merge(e, h).prev = h.prev /\ Merge(e, h).known = h.known
              \/ Merge(e, h).prev = e.prev /\ Merge(e, h).known = e.known
           /\ Merge(e, h).data \in {h.data, e.data}
<1> DEFINE carries == h.prev # NoId \/ ~h.patch
<1> DEFINE p == IF carries THEN h.prev ELSE e.prev
           k == IF carries THEN h.known ELSE e.known
           d == IF h.data # NotStored /\ ~h.patch THEN h.data ELSE e.data
           v == IF h.version > e.version THEN h.version ELSE e.version
           a == h.patch /\ e.patch /\ (e.deleted => h.deleted)
           m == h.modified \/ e.modified
           u == h.updated \/ (h.patch /\ e.updated)
<1>1. Merge(e, h) = [id |-> e.id, prev |-> p, known |-> k, data |-> d, version |-> v,
                     patch |-> a, deleted |-> h.deleted, modified |-> m, updated |-> u]
  BY DEF Merge
<1>2. /\ e.id \in Ids /\ p \in Ids \cup {NoId} /\ k \in BOOLEAN /\ d \in Nat \cup {NotStored}
      /\ v \in Versions /\ a \in BOOLEAN /\ h.deleted \in BOOLEAN /\ m \in BOOLEAN /\ u \in BOOLEAN
  BY HeaderFields
<1>3. (p = h.prev /\ k = h.known) \/ (p = e.prev /\ k = e.known)
  OBVIOUS
<1>4. d \in {h.data, e.data}
  OBVIOUS
<1> HIDE DEF p, k, d, v, a, m, u
<1>5. Merge(e, h) \in Header
  BY <1>1, <1>2 DEF Header
<1>6. /\ Merge(e, h).id = e.id /\ Merge(e, h).prev = p /\ Merge(e, h).known = k
      /\ Merge(e, h).data = d /\ Merge(e, h).deleted = h.deleted
  BY <1>1
<1> QED
  BY <1>3, <1>4, <1>5, <1>6

LEMMA MergeGood ==
    ASSUME NEW e, NEW h, NEW L, NEW t, NEW D,
           Good(e, L, t, D), Good(h, L, t, D), e.id = h.id
    PROVE  Good(Merge(e, h), L, t, D) /\ Merge(e, h).id = h.id
<1>1. e \in Header /\ h \in Header
  BY DEF Good
<1> DEFINE m == Merge(e, h)
<1>2. /\ m \in Header /\ m.id = e.id /\ m.deleted = h.deleted /\ m.data \in {h.data, e.data}
      /\ \/ m.prev = h.prev /\ m.known = h.known
         \/ m.prev = e.prev /\ m.known = e.known
  BY <1>1, MergeFields
<1> HIDE DEF m
<1>3. Fine(m, L, t)
  BY <1>2 DEF Good, Fine
<1>4. Attached(m, D)
  BY <1>2 DEF Good, Attached
<1>5. Good(m, L, t, D) /\ m.id = h.id
  BY <1>2, <1>3, <1>4 DEF Good
<1> QED
  BY <1>5 DEF m

LEMMA RelinkedGood ==
    ASSUME NEW idx, NEW h, NEW L, NEW t, NEW D, NEW k \in DOMAIN idx,
           L \subseteq Ids, GoodIndex(idx, L, t, D), Good(h, L, t, D), h.id \in DOMAIN idx
    PROVE  Good(Relinked(idx, idx[h.id], h, k), L, t, D) /\ Relinked(idx, idx[h.id], h, k).id = k
<1> DEFINE e == idx[h.id]
           n == idx[k]
           g == Relinked(idx, e, h, k)
<1>1. /\ Good(n, L, t, D) /\ n.id = k /\ Good(e, L, t, D) /\ e.id = h.id
  BY DEF GoodIndex
<1>2. e \in Header /\ h \in Header /\ n \in Header
  BY <1>1 DEF Good
<1>3. CASE g = n
  BY <1>1, <1>3
<1>4. CASE IsNext(idx, e.id, k) /\ h.deleted /\ n.prev = e.id
           /\ g = [n EXCEPT !.prev = e.prev, !.known = n.known /\ e.known]
  <2>1. /\ e.prev \in Ids \cup {NoId} /\ (n.known /\ e.known) \in BOOLEAN
    BY <1>2, HeaderFields
  <2>2. /\ g \in Header /\ g.id = n.id /\ g.prev = e.prev /\ g.known = (n.known /\ e.known)
        /\ g.data = n.data /\ g.deleted = n.deleted
    <3>1. PICK b \in BOOLEAN : b = (n.known /\ e.known)
      BY <2>1
    <3>2. g = [n EXCEPT !.prev = e.prev, !.known = b]
      BY <1>4, <3>1
    <3> HIDE DEF e, n, g
    <3>3. /\ g \in Header /\ g.id = n.id /\ g.prev = e.prev /\ g.known = b
          /\ g.data = n.data /\ g.deleted = n.deleted
      BY <1>2, <2>1, <3>1, <3>2 DEF Header
    <3> QED
      BY <3>1, <3>3
  <2>3. /\ h.id \notin L /\ k > e.id /\ e.prev < e.id /\ k \in Nat /\ e.id \in Nat /\ e.prev \in Int
    BY <1>1, <1>2, <1>4, HeaderFields DEF Good, Fine, IsNext
  <2>4. Fine(g, L, t)
    <3>1. ASSUME g.known, NEW x \in L, x > t, g.prev < x, x < g.id PROVE FALSE
      <4>1. x \in Nat /\ x # e.id
        BY <1>1, <2>3, IndexAssumption
      <4>2. x < e.id \/ (n.prev < x /\ x < n.id)
        BY <1>1, <1>4, <2>2, <2>3, <3>1, <4>1
      <4> QED
        BY <1>1, <2>2, <3>1, <4>2 DEF Good, Fine
    <3> QED
      BY <1>1, <2>2, <2>3, <3>1 DEF Good, Fine
  <2>5. Attached(g, D)
    BY <1>1, <2>2 DEF Good, Attached
  <2> QED
    BY <1>1, <2>2, <2>4, <2>5 DEF Good
<1>5. CASE IsNext(idx, e.id, k) /\ n.prev = e.prev /\ g = [n EXCEPT !.prev = e.id]
  <2>1. e.id \in Ids \cup {NoId}
    BY <1>2, HeaderFields
  <2>2. /\ g \in Header /\ g.id = n.id /\ g.prev = e.id /\ g.known = n.known
        /\ g.data = n.data /\ g.deleted = n.deleted
    BY <1>2, <1>5, <2>1, OnlyPrevSet
  <2>3. k > e.id /\ e.prev < e.id /\ k \in Nat /\ e.id \in Nat /\ e.prev \in Int
    BY <1>1, <1>2, <1>5, HeaderFields DEF Good, Fine, IsNext
  <2>4. Fine(g, L, t)
    <3>1. \A x \in L : g.prev < x => n.prev < x
      BY <1>5, <2>2, <2>3, IndexAssumption
    <3> QED
      BY <1>1, <2>2, <2>3, <3>1 DEF Good, Fine
  <2>5. Attached(g, D)
    BY <1>1, <2>2 DEF Good, Attached
  <2> QED
    BY <1>1, <2>2, <2>4, <2>5 DEF Good
<1> QED
  BY <1>3, <1>4, <1>5 DEF Relinked

LEMMA InsertGood ==
    ASSUME NEW idx, NEW h, NEW L, NEW t, NEW D,
           L \subseteq Ids, GoodIndex(idx, L, t, D), Good(h, L, t, D)
    PROVE  /\ GoodIndex(InsertHeader(idx, h), L, t, D)
           /\ DOMAIN InsertHeader(idx, h) = DOMAIN idx \cup {h.id}
<1>1. h.id \in Ids
  BY HeaderFields DEF Good
<1>2. CASE h.id \notin DOMAIN idx
  <2> DEFINE new == [k \in DOMAIN idx \cup {h.id} |-> IF k = h.id THEN h ELSE idx[k]]
  <2>1. InsertHeader(idx, h) = new
    BY <1>2 DEF InsertHeader
  <2>2. GoodIndex(new, L, t, D) /\ DOMAIN new = DOMAIN idx \cup {h.id}
    BY <1>1 DEF GoodIndex
  <2> QED
    BY <2>1, <2>2
<1>3. CASE h.id \in DOMAIN idx
  <2> DEFINE new == [k \in DOMAIN idx |-> IF k = h.id THEN Merge(idx[k], h)
                                                     ELSE Relinked(idx, idx[h.id], h, k)]
  <2>1. InsertHeader(idx, h) = new
    BY <1>3 DEF InsertHeader
  <2>2. Good(Merge(idx[h.id], h), L, t, D) /\ Merge(idx[h.id], h).id = h.id
    BY <1>3, MergeGood DEF GoodIndex
  <2>3. \A k \in DOMAIN idx : Good(Relinked(idx, idx[h.id], h, k), L, t, D)
                                  /\ Relinked(idx, idx[h.id], h, k).id = k
    BY <1>3, RelinkedGood
  <2>4. GoodIndex(new, L, t, D) /\ DOMAIN new = DOMAIN idx \cup {h.id}
    BY <1>3, <2>2, <2>3 DEF GoodIndex
  <2> QED
    BY <2>1, <2>4
<1> QED
  BY <1>2, <1>3

LEMMA WrittenGood ==
    ASSUME NEW idx, NEW h, NEW L, NEW t, NEW D,
           GoodIndex(idx, L, t, D), Good(h, L, t, D)
    PROVE  Good(Written(idx, h), L, t, D) /\ Written(idx, h).id = h.id
<1>1. h.id \in DOMAIN idx => Good(Merge(idx[h.id], h), L, t, D) /\ Merge(idx[h.id], h).id = h.id
  BY MergeGood DEF GoodIndex
<1> QED
  BY <1>1 DEF Written

LEMMA MergedCount == ASSUME NEW idx, NEW h PROVE Merged(idx, h) \in {0, 1}
BY DEF Merged

LEMMA DeleteUpToGood ==
    ASSUME NEW idx, NEW L, NEW t, NEW D, NEW to,
           L \subseteq Ids, GoodIndex(idx, L, t, D), \A x \in L : x > to
    PROVE  GoodIndex(DeleteUpTo(idx, to), L, t, D)
<1> DEFINE rest == {k \in DOMAIN idx : k > to}
           new(k) == IF to \in DOMAIN idx /\ IsNext(idx, to, k) /\ idx[k].prev = to
                     THEN [idx[k] EXCEPT !.prev = NoId] ELSE idx[k]
<1>1. ASSUME NEW k \in rest PROVE Good(new(k), L, t, D) /\ new(k).id = k
  <2>1. Good(idx[k], L, t, D) /\ idx[k].id = k /\ idx[k] \in Header
    BY DEF GoodIndex, Good
  <2> DEFINE g == [idx[k] EXCEPT !.prev = NoId]
  <2>2. /\ g \in Header /\ g.id = k /\ g.prev = NoId /\ g.known = idx[k].known
        /\ g.data = idx[k].data /\ g.deleted = idx[k].deleted
    BY <2>1, OnlyPrevSet
  <2>3. ASSUME idx[k].prev = to PROVE Good(g, L, t, D)
    <3>1. g.prev < g.id
      BY <2>1, <2>2, HeaderFields DEF NoId
    <3>2. Fine(g, L, t)
      BY <2>1, <2>2, <2>3, <3>1 DEF Good, Fine
    <3>3. Attached(g, D)
      BY <2>1, <2>2 DEF Good, Attached
    <3> QED
      BY <2>2, <3>2, <3>3 DEF Good
  <2> QED
    BY <2>1, <2>2, <2>3
<1>2. DeleteUpTo(idx, to) = [k \in rest |-> new(k)]
  BY DEF DeleteUpTo
<1>3. rest \subseteq Ids
  BY DEF GoodIndex
<1> HIDE DEF new, rest
<1> QED
  BY <1>1, <1>2, <1>3 DEF GoodIndex

LEMMA KeepNewestGood ==
    ASSUME NEW idx, NEW L, NEW t \in Int, NEW D, NEW size, NEW first, NEW t2 \in Int,
           L \subseteq Ids, GoodIndex(idx, L, t, D), t <= t2,
           first \in DOMAIN KeepNewest(idx, size), first - 1 <= t2,
           \A j \in DOMAIN KeepNewest(idx, size) : first <= j
    PROVE  GoodIndex(KeepNewest(idx, size), L, t2, D)
<1> DEFINE rest == {k \in DOMAIN idx : Cardinality({j \in DOMAIN idx : j > k}) < size}
           new(k) == IF \A j \in rest : k <= j THEN [idx[k] EXCEPT !.prev = NoId] ELSE idx[k]
<1>1. KeepNewest(idx, size) = [k \in rest |-> new(k)]
  BY DEF KeepNewest
<1>2. first \in rest /\ rest \subseteq Ids /\ (\A j \in rest : first <= j) /\ first \in Nat
  BY <1>1, IndexAssumption DEF GoodIndex
<1>3. ASSUME NEW k \in rest PROVE Good(new(k), L, t2, D) /\ new(k).id = k
  <2>1. Good(idx[k], L, t, D) /\ idx[k].id = k /\ idx[k] \in Header
    BY DEF GoodIndex, Good
  <2>2. Fine(idx[k], L, t2)
    <3>1. \A x \in L : x > t2 => x > t
      BY IndexAssumption
    <3> QED
      BY <2>1, <3>1 DEF Good, Fine
  <2> DEFINE g == [idx[k] EXCEPT !.prev = NoId]
  <2>3. /\ g \in Header /\ g.id = k /\ g.prev = NoId /\ g.known = idx[k].known
        /\ g.data = idx[k].data /\ g.deleted = idx[k].deleted
    BY <2>1, OnlyPrevSet
  <2>4. ASSUME \A j \in rest : k <= j PROVE Good(g, L, t2, D)
    <3>1. k = first /\ k \in Nat
      <4>1. k <= first /\ first <= k /\ k \in Ids
        BY <1>2, <2>4
      <4>2. k \in Nat
        BY <4>1, IndexAssumption
      <4> QED
        BY <1>2, <4>1, <4>2
    <3>2. \A x \in L : x > t2 => ~(x < k)
      BY <3>1, IndexAssumption
    <3>3. g.prev < g.id
      BY <2>1, <2>3, HeaderFields DEF NoId
    <3>4. Fine(g, L, t2)
      BY <2>1, <2>3, <3>2, <3>3 DEF Good, Fine
    <3>5. Attached(g, D)
      BY <2>1, <2>3 DEF Good, Attached
    <3> QED
      BY <2>3, <3>4, <3>5 DEF Good
  <2>5. Good(idx[k], L, t2, D)
    BY <2>1, <2>2 DEF Good
  <2> QED
    BY <2>1, <2>3, <2>4, <2>5
<1> HIDE DEF new, rest
<1> QED
  BY <1>1, <1>2, <1>3 DEF GoodIndex

-----------------------------------------------------------------------------
(* The invariant *)

GoodList(s, L, t, D) ==
    s \in Seq(Header) /\ \A n \in 1 .. Len(s) : Good(s[n], L, t, D)

GoodFile(f, L, t, D) ==
    f \in Seq(Seq(Header)) /\ \A n \in 1 .. Len(f) : GoodList(f[n], L, t, D)

GoodBody(b, L, t) == b.id \in Ids => b \in Header /\ Fine(b, L, t) /\ b.data = NotStored

GoodBodies(D, L, t) ==
    D \in Seq(Header \cup {TornData}) /\ \A n \in 1 .. Len(D) : GoodBody(D[n], L, t)

Basics ==
    /\ live \subseteq Ids /\ (\A x \in live : x > del_up_to)
    /\ del_up_to \in Ids \cup {NoId}
    /\ trimmed \in Int /\ trimmed >= -1
    /\ merged_count \in Nat /\ pos \in Nat /\ told \in Nat /\ jobs \in Nat
    /\ local_loaded \in BOOLEAN /\ loaded_from_local \in BOOLEAN
    /\ at \in Stages /\ after \in Stages
    /\ kept \subseteq Ids

\* While the bodies are dropped there is no header anywhere.
Dropping ==
    /\ after = "drop" => at \in {"truncate", "save"}
    /\ after = "drop" \/ at = "drop" =>
          DOMAIN headers_index = {} /\ todo = <<>> /\ out = <<>>
    /\ at = "drop" \/ (after = "drop" /\ at = "save") => index_file = <<>>
    /\ at \notin {"load", "reinsert"} => DOMAIN tmp_headers = {}

Bodies == GoodBodies(data_file, live, trimmed)
File == GoodFile(index_file, live, trimmed, data_file)
Memory == GoodIndex(headers_index, live, trimmed, data_file)
Aside == GoodIndex(tmp_headers, live, trimmed, data_file)
Todo == GoodList(todo, live, trimmed, data_file)
Out == GoodList(out, live, trimmed, data_file)

Inv == Basics /\ Dropping /\ Bodies /\ File /\ Memory /\ Aside /\ Todo /\ Out

-----------------------------------------------------------------------------
(* Lists, files and bodies *)

LEMMA EmptyGood ==
    ASSUME NEW L, NEW t, NEW D
    PROVE  /\ GoodList(<<>>, L, t, D) /\ GoodFile(<<>>, L, t, D)
           /\ GoodIndex(Empty, L, t, D) /\ DOMAIN Empty = {}
<1>1. DOMAIN Empty = {}
  BY DEF Empty
<1> QED
  BY <1>1 DEF GoodList, GoodFile, GoodIndex

LEMMA OneGood ==
    ASSUME NEW h, NEW L, NEW t, NEW D, Good(h, L, t, D)
    PROVE  GoodList(<<h>>, L, t, D)
BY DEF GoodList, Good

LEMMA ListAppend ==
    ASSUME NEW s, NEW h, NEW L, NEW t, NEW D, GoodList(s, L, t, D), Good(h, L, t, D)
    PROVE  GoodList(Append(s, h), L, t, D)
<1>1. h \in Header /\ s \in Seq(Header)
  BY DEF Good, GoodList
<1>2. /\ Append(s, h) \in Seq(Header) /\ Len(Append(s, h)) = Len(s) + 1
      /\ \A n \in 1 .. Len(s) + 1 : Append(s, h)[n] = IF n = Len(s) + 1 THEN h ELSE s[n]
  BY <1>1
<1>3. \A n \in 1 .. Len(s) + 1 : Good(Append(s, h)[n], L, t, D)
  BY <1>1, <1>2 DEF GoodList
<1> QED
  BY <1>2, <1>3 DEF GoodList

LEMMA ListNext ==
    ASSUME NEW s, NEW L, NEW t, NEW D, GoodList(s, L, t, D), s # <<>>
    PROVE  Good(Head(s), L, t, D) /\ GoodList(Tail(s), L, t, D)
<1>1. s \in Seq(Header)
  BY DEF GoodList
<1>2. /\ Head(s) = s[1] /\ 1 \in 1 .. Len(s) /\ Tail(s) \in Seq(Header)
      /\ Len(Tail(s)) = Len(s) - 1 /\ \A n \in 1 .. Len(s) - 1 : Tail(s)[n] = s[n + 1]
  BY <1>1
<1>3. \A n \in 1 .. Len(s) - 1 : n + 1 \in 1 .. Len(s)
  BY <1>1
<1> QED
  BY <1>2, <1>3 DEF GoodList

LEMMA FileAppend ==
    ASSUME NEW f, NEW s, NEW L, NEW t, NEW D, GoodFile(f, L, t, D), GoodList(s, L, t, D)
    PROVE  GoodFile(Append(f, s), L, t, D)
<1>1. s \in Seq(Header) /\ f \in Seq(Seq(Header))
  BY DEF GoodList, GoodFile
<1>2. /\ Append(f, s) \in Seq(Seq(Header)) /\ Len(Append(f, s)) = Len(f) + 1
      /\ \A n \in 1 .. Len(f) + 1 : Append(f, s)[n] = IF n = Len(f) + 1 THEN s ELSE f[n]
  BY <1>1
<1>3. \A n \in 1 .. Len(f) + 1 : GoodList(Append(f, s)[n], L, t, D)
  BY <1>1, <1>2 DEF GoodFile
<1> QED
  BY <1>2, <1>3 DEF GoodFile

LEMMA TornFileGood ==
    ASSUME NEW f, NEW L, NEW t, NEW D, GoodFile(f, L, t, D)
    PROVE  GoodFile(Append(f, Torn), L, t, D)
BY EmptyGood, FileAppend DEF Torn

LEMMA ListLater ==
    ASSUME NEW s, NEW L, NEW t, NEW D, NEW L2, NEW t2, NEW D2,
           L \subseteq Ids, Later(L, t, D, L2, t2, D2), GoodList(s, L, t, D)
    PROVE  GoodList(s, L2, t2, D2)
BY GoodLater DEF GoodList

LEMMA FileLater ==
    ASSUME NEW f, NEW L, NEW t, NEW D, NEW L2, NEW t2, NEW D2,
           L \subseteq Ids, Later(L, t, D, L2, t2, D2), GoodFile(f, L, t, D)
    PROVE  GoodFile(f, L2, t2, D2)
BY ListLater DEF GoodFile

LEMMA BodiesLater ==
    ASSUME NEW D, NEW L, NEW t \in Int, NEW L2, NEW t2 \in Int,
           L \subseteq Ids, L2 \subseteq L, t <= t2, GoodBodies(D, L, t)
    PROVE  GoodBodies(D, L2, t2)
<1>1. \A x \in L2 : x > t2 => x \in L /\ x > t
  BY IndexAssumption
<1> QED
  BY <1>1 DEF GoodBodies, GoodBody, Fine

LEMMA BodiesAppend ==
    ASSUME NEW D, NEW b, NEW L, NEW t, GoodBodies(D, L, t),
           b \in Header \cup {TornData}, GoodBody(b, L, t)
    PROVE  /\ GoodBodies(Append(D, b), L, t)
           /\ Len(D) \in Nat /\ Len(Append(D, b)) = Len(D) + 1
           /\ Append(D, b)[Len(D) + 1] = b
           /\ \A n \in 1 .. Len(D) : Append(D, b)[n] = D[n]
<1>1. D \in Seq(Header \cup {TornData})
  BY DEF GoodBodies
<1>2. /\ Append(D, b) \in Seq(Header \cup {TornData}) /\ Len(Append(D, b)) = Len(D) + 1
      /\ Append(D, b)[Len(D) + 1] = b
      /\ \A n \in 1 .. Len(D) : Append(D, b)[n] = D[n]
  BY <1>1
<1>3. \A n \in 1 .. Len(D) + 1 : GoodBody(Append(D, b)[n], L, t)
  BY <1>1, <1>2 DEF GoodBodies
<1> QED
  BY <1>1, <1>2, <1>3 DEF GoodBodies

LEMMA TornBodyGood == ASSUME NEW L, NEW t PROVE GoodBody(TornData, L, t)
BY IndexAssumption DEF GoodBody, TornData, Message, NoId

\* what the server tells is good, for a message that is not stored has no offset
LEMMA ToldGood ==
    ASSUME NEW m \in Told, Honest(m), NEW D, NEW t
    PROVE  Good(m, live, t, D)
<1>1. m \in Header /\ m.data = NotStored
  <2>1. ASSUME NEW i \in Ids, NEW p \in Ids \cup {NoId}, NEW v \in Versions, m = Message(i, p, v)
        PROVE  m \in Header /\ m.data = NotStored
    BY <2>1 DEF Message, Header, NotStored
  <2>2. ASSUME NEW i \in Ids, NEW kind \in Kinds, m = Patch(i, kind)
        PROVE  m \in Header /\ m.data = NotStored
    BY <2>2, IndexAssumption DEF Patch, Header, NotStored, NoId
  <2> QED
    BY <2>1, <2>2 DEF Told
<1>2. Fine(m, live, t)
  BY DEF Honest, NothingBetween, Fine
<1> QED
  BY <1>1, <1>2 DEF Good, Attached

\* a message whose previous one is at or below everything that lives may become the oldest
LEMMA PrevDropped ==
    ASSUME NEW h, NEW L, NEW t, NEW D, Good(h, L, t, D), \A x \in L : x > h.prev
    PROVE  Good([h EXCEPT !.prev = NoId], L, t, D)
<1>1. h \in Header
  BY DEF Good
<1> DEFINE g == [h EXCEPT !.prev = NoId]
<1>2. /\ g \in Header /\ g.id = h.id /\ g.prev = NoId /\ g.known = h.known /\ g.data = h.data
      /\ g.deleted = h.deleted
  BY <1>1, OnlyPrevSet
<1>3. g.prev < g.id
  BY <1>1, <1>2, HeaderFields DEF NoId
<1> HIDE DEF g
<1>4. Fine(g, L, t) /\ Attached(g, D)
  BY <1>2, <1>3 DEF Good, Fine, Attached
<1>5. Good(g, L, t, D)
  BY <1>2, <1>4 DEF Good
<1> QED
  BY <1>5 DEF g

LEMMA OldestGood ==
    ASSUME NEW h, NEW L, NEW t, NEW D, Good(h, L, t, D), L \subseteq Ids, \A x \in L : x >= h.id
    PROVE  Good([h EXCEPT !.prev = NoId, !.known = TRUE], L, t, D)
<1>1. h \in Header
  BY DEF Good
<1> DEFINE g == [h EXCEPT !.prev = NoId, !.known = TRUE]
<1>2. /\ g \in Header /\ g.id = h.id /\ g.prev = NoId /\ g.data = h.data
      /\ g.deleted = h.deleted
  BY <1>1 DEF Header
<1>3. g.prev < g.id /\ h.id \in Nat
  BY <1>1, <1>2, HeaderFields DEF NoId
<1> HIDE DEF g
<1>4. \A x \in L : ~(x < g.id)
  BY <1>2, <1>3, IndexAssumption
<1>5. Fine(g, L, t) /\ Attached(g, D)
  BY <1>2, <1>3, <1>4 DEF Good, Fine, Attached
<1>6. Good(g, L, t, D)
  BY <1>2, <1>5 DEF Good
<1> QED
  BY <1>6 DEF g

\* a header that lost its body is still good
LEMMA InvalidatedGood ==
    ASSUME NEW idx, NEW L, NEW t, NEW D, GoodIndex(idx, L, t, D), NEW i \in DOMAIN idx
    PROVE  /\ GoodIndex([idx EXCEPT ![i].data = Invalidated], L, t, D)
           /\ GoodIndex([idx EXCEPT ![i].data = Invalidated, ![i].updated = TRUE], L, t, D)
<1> DEFINE h == idx[i]
           a == [h EXCEPT !.data = Invalidated]
           b == [h EXCEPT !.data = Invalidated, !.updated = TRUE]
<1>1. Good(h, L, t, D) /\ h.id = i /\ h \in Header
  BY DEF GoodIndex, Good
<1>2. /\ a \in Header /\ a.id = h.id /\ a.prev = h.prev /\ a.known = h.known
      /\ a.deleted = h.deleted /\ a.data = Invalidated
      /\ b \in Header /\ b.id = h.id /\ b.prev = h.prev /\ b.known = h.known
      /\ b.deleted = h.deleted /\ b.data = Invalidated
  BY <1>1 DEF Header, Invalidated
<1> HIDE DEF a, b, h
<1>3. Good(a, L, t, D) /\ Good(b, L, t, D)
  BY <1>1, <1>2 DEF Good, Fine, Attached
<1>4. /\ [idx EXCEPT ![i].data = Invalidated] = [idx EXCEPT ![i] = a]
      /\ [idx EXCEPT ![i].data = Invalidated, ![i].updated = TRUE] = [idx EXCEPT ![i] = b]
  BY DEF a, b, h
<1>5. GoodIndex([idx EXCEPT ![i] = a], L, t, D) /\ GoodIndex([idx EXCEPT ![i] = b], L, t, D)
  BY <1>1, <1>2, <1>3 DEF GoodIndex
<1> QED
  BY <1>4, <1>5

LEMMA ReadGood ==
    ASSUME NEW h, NEW L, NEW t, NEW D, D = data_file, Good(h, L, t, D), GoodBodies(D, L, t)
    PROVE  Good(Read(h), L, t, D) /\ Read(h).id = h.id
<1>1. h \in Header
  BY DEF Good
<1> DEFINE g == Read(h)
<1>2. CASE HasData(h)
  <2> DEFINE b == D[h.data]
  <2>1. b.id = h.id /\ h.id \in Ids /\ h.deleted \in BOOLEAN
    BY <1>1, <1>2, HeaderFields DEF HasData
  <2>2. b \in Header /\ Fine(b, L, t) /\ b.data = NotStored
    BY <1>2, <2>1 DEF GoodBodies, GoodBody, HasData
  <2>3. g = [b EXCEPT !.deleted = h.deleted]
    BY <1>2 DEF Read
  <2> HIDE DEF b, g
  <2>4. /\ g \in Header /\ g.id = b.id /\ g.prev = b.prev /\ g.known = b.known
        /\ g.data = NotStored /\ g.deleted = h.deleted
    BY <2>1, <2>2, <2>3 DEF Header
  <2>5. Fine(g, L, t) /\ Attached(g, D)
    BY <2>1, <2>2, <2>4 DEF Good, Fine, Attached
  <2>6. Good(g, L, t, D) /\ g.id = h.id
    BY <2>1, <2>4, <2>5 DEF Good
  <2> QED
    BY <2>6 DEF g
<1>3. CASE ~HasData(h)
  <2>1. /\ h.id \in Ids /\ h.prev \in Ids \cup {NoId} /\ h.known \in BOOLEAN /\ h.deleted \in BOOLEAN
    BY <1>1, HeaderFields
  <2>2. g = [Message(h.id, h.prev, 0) EXCEPT !.known = h.known, !.deleted = h.deleted]
    BY <1>3 DEF Read
  <2> HIDE DEF g
  <2>3. /\ g \in Header /\ g.id = h.id /\ g.prev = h.prev /\ g.known = h.known
        /\ g.data = NotStored /\ g.deleted = h.deleted
    BY <2>1, <2>2, IndexAssumption DEF Header, Message, NotStored
  <2>4. Fine(g, L, t) /\ Attached(g, D)
    BY <2>3 DEF Good, Fine, Attached
  <2>5. Good(g, L, t, D) /\ g.id = h.id
    BY <2>3, <2>4 DEF Good
  <2> QED
    BY <2>5 DEF g
<1> QED
  BY <1>2, <1>3

-----------------------------------------------------------------------------
(* The invariant holds *)

LEMMA InitInv == Init => Inv
<1> SUFFICES ASSUME Init PROVE Inv
  OBVIOUS
<1> USE DEF Init
<1>1. Basics
  <2>1. \A i \in Ids : i \in Nat /\ i > 0
    BY IndexAssumption
  <2>2. live \subseteq Ids /\ (\A x \in live : x > del_up_to) /\ del_up_to \in Ids \cup {NoId}
    BY <2>1 DEF NoId
  <2>3. trimmed \in Int /\ trimmed >= -1
    BY DEF NoId
  <2> QED
    BY <2>2, <2>3 DEF Basics, Stages
<1>2. Dropping
  BY EmptyGood DEF Dropping
<1>3. Bodies
  BY DEF Bodies, GoodBodies
<1>4. File /\ Memory /\ Aside /\ Todo /\ Out
  BY EmptyGood DEF File, Memory, Aside, Todo, Out
<1> QED
  BY <1>1, <1>2, <1>3, <1>4 DEF Inv

\* how the goodness of all that there is follows a step of the world
LEMMA WorldLater ==
    ASSUME Inv, Later(live, trimmed, data_file, live', trimmed', data_file'),
           GoodBodies(data_file', live', trimmed')
    PROVE  /\ Bodies'
           /\ GoodFile(index_file, live', trimmed', data_file')
           /\ GoodIndex(headers_index, live', trimmed', data_file')
           /\ GoodIndex(tmp_headers, live', trimmed', data_file')
           /\ GoodList(todo, live', trimmed', data_file')
           /\ GoodList(out, live', trimmed', data_file')
<1>1. live \subseteq Ids
  BY DEF Inv, Basics
<1>2. GoodFile(index_file, live', trimmed', data_file')
  BY <1>1, FileLater DEF Inv, File
<1>3. GoodIndex(headers_index, live', trimmed', data_file')
  BY <1>1, IndexLater DEF Inv, Memory
<1>4. GoodIndex(tmp_headers, live', trimmed', data_file')
  BY <1>1, IndexLater DEF Inv, Aside
<1>5. GoodList(todo, live', trimmed', data_file') /\ GoodList(out, live', trimmed', data_file')
  BY <1>1, ListLater DEF Inv, Todo, Out
<1> QED
  BY <1>2, <1>3, <1>4, <1>5 DEF Bodies

LEMMA SameWorld ==
    ASSUME Inv, UNCHANGED <<live, trimmed, data_file>>
    PROVE  Bodies'
BY DEF Inv, Bodies

LEMMA ServerInv ==
    ASSUME Inv, NEW i \in Ids, ServerDeletes(i) \/ DelUpToChanged(i)
    PROVE  Inv'
<1>1. /\ live' \subseteq live /\ (\A x \in live' : x > del_up_to')
      /\ del_up_to' \in Ids \cup {NoId}
      /\ UNCHANGED <<files, memory, job, history>>
  BY DEF ServerDeletes, DelUpToChanged, Inv, Basics
<1> USE DEF files, memory, job, history
<1>2. Basics'
  BY <1>1 DEF Inv, Basics
<1>3. Dropping'
  BY <1>1 DEF Inv, Dropping
<1>4. trimmed \in Int /\ live \subseteq Ids /\ Len(data_file) \in Nat
  BY DEF Inv, Basics, Bodies, GoodBodies
<1>5. Later(live, trimmed, data_file, live', trimmed', data_file')
  BY <1>1, <1>4 DEF Later
<1>6. GoodBodies(data_file', live', trimmed')
  BY <1>1, <1>4, BodiesLater DEF Inv, Bodies
<1>7. Bodies' /\ File' /\ Memory' /\ Aside' /\ Todo' /\ Out'
  BY <1>1, <1>5, <1>6, WorldLater DEF File, Memory, Aside, Todo, Out
<1> QED
  BY <1>2, <1>3, <1>7 DEF Inv

LEMMA FilterInv ==
    ASSUME Inv, UpdateHistory \/ (\E m \in Told : FilterMessage(m)) \/ EndFilter \/ EndUnchanged
    PROVE  Inv'
<1> USE DEF server, files, memory
<1>1. /\ UNCHANGED <<server, files, memory, tmp_headers, trimmed>>
      /\ at \notin {"load", "reinsert"}
  BY DEF UpdateHistory, FilterMessage, EndFilter, EndUnchanged, Begin, ToStage,
         history
<1>2. Bodies' /\ File' /\ Memory' /\ Aside'
  BY <1>1, SameWorld DEF Inv, File, Memory, Aside
<1>3. CASE UpdateHistory
  <2>1. Basics' /\ Dropping'
    BY <1>1, <1>3 DEF Inv, Basics, Dropping, UpdateHistory, Begin, Stages
  <2>2. Todo' /\ Out'
    BY <1>1, <1>3, EmptyGood DEF Todo, Out, UpdateHistory, Begin
  <2> QED
    BY <1>2, <2>1, <2>2 DEF Inv
<1>4. ASSUME NEW m \in Told, FilterMessage(m) PROVE Inv'
  <2>1. Basics' /\ Dropping'
    BY <1>1, <1>4 DEF Inv, Basics, Dropping, FilterMessage
  <2>2. Todo'
    BY <1>1, <1>4 DEF Inv, Todo, FilterMessage
  <2>3. Good(m, live, trimmed, data_file)
    BY <1>4, ToldGood DEF FilterMessage
  <2>4. m.prev <= del_up_to => Good([m EXCEPT !.prev = NoId], live, trimmed, data_file)
    <3>1. \A x \in live : x > del_up_to /\ x \in Int
      BY IndexAssumption DEF Inv, Basics
    <3>2. m.prev \in Int /\ del_up_to \in Int
      BY <2>3, HeaderFields, IndexAssumption DEF Good, Inv, Basics, NoId
    <3>3. m.prev <= del_up_to => \A x \in live : x > m.prev
      BY <3>1, <3>2
    <3> QED
      BY <2>3, <3>3, PrevDropped
  <2>5. Out'
    <3>1. \/ out' = out
          \/ out' = Append(out, m)
          \/ m.prev <= del_up_to /\ out' = Append(out, [m EXCEPT !.prev = NoId])
      BY <1>4 DEF FilterMessage
    <3> QED
      BY <1>1, <2>3, <2>4, <3>1, ListAppend DEF Inv, Out
  <2> QED
    BY <1>2, <2>1, <2>2, <2>5 DEF Inv
<1>5. CASE EndFilter
  <2>1. Basics' /\ Dropping'
    BY <1>1, <1>5 DEF Inv, Basics, Dropping, EndFilter, ToStage, Stages, history
  <2>2. Todo' /\ Out'
    BY <1>1, <1>5, EmptyGood DEF Inv, Todo, Out, EndFilter, ToStage
  <2> QED
    BY <1>2, <2>1, <2>2 DEF Inv
<1>6. CASE EndUnchanged
  <2>1. Basics' /\ Dropping'
    BY <1>1, <1>6 DEF Inv, Basics, Dropping, EndUnchanged, ToStage, Stages, history
  <2>2. Todo' /\ Out'
    BY <1>1, <1>6, EmptyGood DEF Inv, Todo, Out, EndUnchanged, ToStage
  <2> QED
    BY <1>2, <2>1, <2>2 DEF Inv
<1> QED
  BY <1>3, <1>4, <1>5, <1>6

LEMMA MarkUnreadGood ==
    ASSUME Inv, NEW i \in DOMAIN headers_index, MarkUnread(i)
    PROVE  /\ GoodIndex(headers_index', live, trimmed, data_file)
           /\ DOMAIN headers_index' = DOMAIN headers_index
<1>1. GoodIndex(headers_index, live, trimmed, data_file)
  BY DEF Inv, Memory
<1> QED
  BY <1>1, InvalidatedGood DEF MarkUnread

LEMMA RewriteInv ==
    ASSUME Inv, NEW i \in Ids, NothingOlder(i) \/ UpdateMessageData(i)
    PROVE  Inv'
<1> USE DEF server, files, memory
<1>1. /\ UNCHANGED <<server, files, tmp_headers, trimmed>>
      /\ at \notin {"load", "reinsert"} /\ i \in DOMAIN headers_index
  BY DEF NothingOlder, UpdateMessageData, VisibleIds, history
<1>2. Bodies' /\ File' /\ Aside'
  BY <1>1, SameWorld DEF Inv, File, Aside
<1>3. Good(headers_index[i], live, trimmed, data_file) /\ headers_index[i].id = i
  BY <1>1 DEF Inv, Memory, GoodIndex
<1>4. Good(Read(headers_index[i]), live, trimmed, data_file) /\ Read(headers_index[i]).id = i
  BY <1>3, ReadGood DEF Inv, Bodies
<1>5. CASE NothingOlder(i)
  <2>1. Basics' /\ Dropping'
    <3>1. DOMAIN headers_index # {}
      BY <1>1
    <3> QED
      BY <1>1, <1>5, <3>1 DEF Inv, Basics, Dropping, NothingOlder, ToStage, Stages, history
  <2>2. Good([Read(headers_index[i]) EXCEPT !.prev = NoId, !.known = TRUE], live, trimmed, data_file)
    BY <1>4, <1>5, OldestGood DEF NothingOlder, Inv, Basics
  <2>3. Todo' /\ Out'
    BY <1>1, <1>5, <2>2, EmptyGood, OneGood DEF Todo, Out, NothingOlder, ToStage
  <2>4. Memory'
    BY <1>1, <1>5, MarkUnreadGood DEF NothingOlder, Memory
  <2> QED
    BY <1>2, <2>1, <2>3, <2>4 DEF Inv
<1>6. CASE UpdateMessageData(i)
  <2>1. Basics' /\ Dropping'
    BY <1>1, <1>6 DEF Inv, Basics, Dropping, UpdateMessageData, ToStage, Stages
  <2> DEFINE r == Read(headers_index[i])
             g == [r EXCEPT !.version = 0]
  <2>2. Good(g, live, trimmed, data_file)
    <3>1. r \in Header
      BY <1>4 DEF Good
    <3> HIDE DEF r
    <3>2. /\ g \in Header /\ g.id = r.id /\ g.prev = r.prev /\ g.known = r.known /\ g.data = r.data
          /\ g.deleted = r.deleted
      BY <3>1, IndexAssumption DEF Header
    <3>3. Good(r, live, trimmed, data_file)
      BY <1>4 DEF r
    <3> HIDE DEF g
    <3> QED
      BY <3>2, <3>3 DEF Good, Fine, Attached
  <2>3. Todo' /\ Out'
    BY <1>1, <1>6, <2>2, EmptyGood, OneGood DEF Todo, Out, UpdateMessageData, ToStage
  <2>4. Memory'
    BY <1>1, <1>6 DEF UpdateMessageData, Inv, Memory
  <2> QED
    BY <1>2, <2>1, <2>3, <2>4 DEF Inv
<1> QED
  BY <1>5, <1>6

-----------------------------------------------------------------------------
(* The stages of an update *)

LEMMA WriteDataInv == Inv /\ WriteData => Inv'
<1> SUFFICES ASSUME Inv, WriteData PROVE Inv'
  OBVIOUS
<1> USE DEF server, memory, history
<1> DEFINE h == Head(todo)
           b == [h EXCEPT !.data = NotStored]
           g == [h EXCEPT !.data = Len(data_file) + 1]
<1>1. Good(h, live, trimmed, data_file) /\ GoodList(Tail(todo), live, trimmed, data_file)
  BY ListNext DEF Inv, Todo, WriteData
<1>2. h \in Header /\ Len(data_file) \in Nat
  BY <1>1 DEF Good, Inv, Bodies, GoodBodies
<1>3. /\ b \in Header /\ b.id = h.id /\ b.prev = h.prev /\ b.known = h.known
      /\ b.deleted = h.deleted /\ b.data = NotStored
  BY <1>2 DEF Header
<1>4. /\ g \in Header /\ g.id = h.id /\ g.prev = h.prev /\ g.known = h.known
      /\ g.deleted = h.deleted /\ g.data = Len(data_file) + 1
  BY <1>2 DEF Header
<1>5. UNCHANGED <<live, del_up_to, index_file, headers_index, merged_count, local_loaded,
                  loaded_from_local, at, tmp_headers, pos, after, kept, trimmed, told, jobs>>
      /\ at = "data" /\ data_file' = Append(data_file, b) /\ out' = Append(out, g)
      /\ todo' = Tail(todo)
  BY DEF WriteData
<1> HIDE DEF b, g
<1>6. GoodBody(b, live, trimmed)
  BY <1>1, <1>3 DEF GoodBody, Good, Fine
<1>7. /\ GoodBodies(data_file', live, trimmed)
      /\ Len(data_file') = Len(data_file) + 1 /\ data_file'[Len(data_file) + 1] = b
      /\ \A n \in 1 .. Len(data_file) : data_file'[n] = data_file[n]
  BY <1>3, <1>5, <1>6, BodiesAppend DEF Inv, Bodies
<1>8. Later(live, trimmed, data_file, live', trimmed', data_file')
  BY <1>2, <1>5, <1>7 DEF Later, Inv, Basics
<1>9. /\ Bodies' /\ File' /\ Memory' /\ Aside'
      /\ GoodList(todo, live', trimmed', data_file') /\ GoodList(out, live', trimmed', data_file')
  BY <1>5, <1>7, <1>8, WorldLater DEF File, Memory, Aside
<1>10. Good(g, live, trimmed, data_file')
  BY <1>1, <1>2, <1>3, <1>4, <1>7 DEF Good, Fine, Attached
<1>11. Todo' /\ Out'
  BY <1>1, <1>5, <1>9, <1>10, ListAppend, ListNext DEF Todo, Out, WriteData
<1>12. Basics' /\ Dropping'
  BY <1>5 DEF Inv, Basics, Dropping
<1> QED
  BY <1>9, <1>11, <1>12 DEF Inv

LEMMA EndDataInv == Inv /\ EndData => Inv'
<1> SUFFICES ASSUME Inv, EndData PROVE Inv'
  OBVIOUS
<1> USE DEF server, files, memory, history
<1>1. Bodies' /\ File' /\ Memory' /\ Aside'
  BY SameWorld DEF EndData, Inv, File, Memory, Aside
<1>2. Todo' /\ Out'
  BY EmptyGood DEF EndData, ToStage, Inv, Todo, Out
<1>3. Basics' /\ Dropping'
  BY DEF EndData, ToStage, Stages, Inv, Basics, Dropping
<1> QED
  BY <1>1, <1>2, <1>3 DEF Inv

\* insert_header, for whichever header it is called
LEMMA InsertKeeps ==
    ASSUME Inv, NEW h, Good(h, live, trimmed, data_file), Insert(h)
    PROVE  /\ GoodIndex(headers_index', live, trimmed, data_file)
           /\ DOMAIN headers_index' = DOMAIN headers_index \cup {h.id}
           /\ merged_count' \in Nat
<1>1. Merged(headers_index, h) \in {0, 1} /\ merged_count \in Nat
  BY MergedCount DEF Inv, Basics
<1>2. GoodIndex(headers_index, live, trimmed, data_file) /\ live \subseteq Ids
  BY DEF Inv, Memory, Basics
<1>3. /\ GoodIndex(InsertHeader(headers_index, h), live, trimmed, data_file)
      /\ DOMAIN InsertHeader(headers_index, h) = DOMAIN headers_index \cup {h.id}
  BY <1>2, InsertGood
<1>4. headers_index' = InsertHeader(headers_index, h)
      /\ merged_count' = merged_count + Merged(headers_index, h)
  BY DEF Insert
<1>5. merged_count' \in Nat
  BY <1>1, <1>4
<1> QED
  BY <1>3, <1>4, <1>5

LEMMA InsertNextInv == Inv /\ InsertNext => Inv'
<1> SUFFICES ASSUME Inv, InsertNext PROVE Inv'
  OBVIOUS
<1> USE DEF server, files, history
<1>1. /\ Good(Head(todo), live, trimmed, data_file)
      /\ GoodList(Tail(todo), live, trimmed, data_file)
  BY ListNext DEF Inv, Todo, InsertNext
<1>2. /\ GoodIndex(headers_index', live, trimmed, data_file) /\ merged_count' \in Nat
  BY <1>1, InsertKeeps DEF InsertNext
<1>3. Bodies' /\ File' /\ Memory' /\ Aside'
  BY <1>2, SameWorld DEF InsertNext, Inv, File, Memory, Aside
<1>4. Good(Written(headers_index, Head(todo)), live, trimmed, data_file)
  BY <1>1, WrittenGood DEF Inv, Memory
<1>5. Todo' /\ Out'
  BY <1>1, <1>4, ListAppend DEF InsertNext, Inv, Todo, Out
<1>6. Basics' /\ Dropping'
  BY <1>2 DEF InsertNext, Inv, Basics, Dropping
<1> QED
  BY <1>3, <1>5, <1>6 DEF Inv

LEMMA SaveBlockInv == Inv /\ SaveBlock => Inv'
<1> SUFFICES ASSUME Inv, SaveBlock PROVE Inv'
  OBVIOUS
<1> USE DEF server, memory
<1>1. Bodies' /\ Memory' /\ Aside'
  BY SameWorld DEF SaveBlock, Inv, Memory, Aside
<1>2. File'
  BY FileAppend DEF SaveBlock, Inv, File, Out
<1>3. Todo' /\ Out'
  BY EmptyGood DEF SaveBlock, ToStage, Todo, Out
<1>4. kept' \subseteq Ids
  <2>1. \A n \in DOMAIN out : out[n].id \in Ids
    <3>1. out \in Seq(Header)
      BY DEF Inv, Out, GoodList
    <3> QED
      BY <3>1, HeaderFields
  <2> QED
    BY <2>1 DEF SaveBlock, Inv, Basics
<1>5. Basics' /\ Dropping'
  BY <1>4 DEF SaveBlock, ToStage, Stages, Inv, Basics, Dropping
<1> QED
  BY <1>1, <1>2, <1>3, <1>5 DEF Inv

-----------------------------------------------------------------------------
(* save_all *)

LEMMA TruncateInv == Inv /\ Truncate => Inv'
<1> SUFFICES ASSUME Inv, Truncate PROVE Inv'
  OBVIOUS
<1> USE DEF server, memory, history
<1>1. Bodies' /\ Memory' /\ Aside' /\ Todo' /\ Out'
  BY SameWorld DEF Truncate, Inv, Memory, Aside, Todo, Out
<1>2. File'
  BY EmptyGood DEF Truncate, File
<1>3. Basics' /\ Dropping'
  BY DEF Truncate, Stages, Inv, Basics, Dropping
<1> QED
  BY <1>1, <1>2, <1>3 DEF Inv

LEMMA SaveHeaderInv == ASSUME NEW i \in Ids PROVE Inv /\ SaveHeader(i) => Inv'
<1> SUFFICES ASSUME Inv, SaveHeader(i) PROVE Inv'
  OBVIOUS
<1> USE DEF server, memory, history
<1> DEFINE block == Append(out, headers_index[i])
<1>1. GoodList(block, live, trimmed, data_file)
  BY ListAppend DEF SaveHeader, Inv, Memory, GoodIndex, Out
<1>2. \/ index_file' = Append(index_file, block) /\ out' = <<>>
      \/ index_file' = index_file /\ out' = block
  BY DEF SaveHeader
<1> HIDE DEF block
<1>3. Bodies' /\ Memory' /\ Aside' /\ Todo'
  BY SameWorld DEF SaveHeader, Inv, Memory, Aside, Todo
<1>4. File' /\ Out'
  BY <1>1, <1>2, FileAppend, EmptyGood DEF SaveHeader, Inv, File, Out
<1>5. i \in Nat
  BY IndexAssumption
<1>6. Basics'
  BY <1>5 DEF SaveHeader, Inv, Basics
<1>7. Dropping'
  <2>1. after # "drop" /\ at # "drop"
    BY DEF SaveHeader, Inv, Dropping
  <2> QED
    BY <2>1 DEF SaveHeader, Inv, Dropping
<1> QED
  BY <1>3, <1>4, <1>6, <1>7 DEF Inv

LEMMA EndSaveInv == Inv /\ EndSave => Inv'
<1> SUFFICES ASSUME Inv, EndSave PROVE Inv'
  OBVIOUS
<1> USE DEF server, files, memory, history
<1>1. Bodies' /\ File' /\ Memory' /\ Aside' /\ Todo' /\ Out'
  BY SameWorld DEF EndSave, Inv, File, Memory, Aside, Todo, Out
<1>2. Basics' /\ Dropping'
  BY DEF EndSave, Stages, Inv, Basics, Dropping
<1> QED
  BY <1>1, <1>2 DEF Inv

-----------------------------------------------------------------------------
(* load_from_local *)

LEMMA LoadInv == Inv /\ Load => Inv'
<1> SUFFICES ASSUME Inv, Load PROVE Inv'
  OBVIOUS
<1> USE DEF server, files
<1>1. Bodies' /\ File'
  BY SameWorld DEF Load, Inv, File
<1>2. Memory' /\ Aside' /\ Todo' /\ Out'
  BY EmptyGood DEF Load, ToStage, Inv, Memory, Aside, Todo, Out
<1>3. Basics'
  BY DEF Load, ToStage, Stages, Inv, Basics
<1>4. Dropping'
  BY EmptyGood DEF Load, ToStage, Inv, Dropping
<1> QED
  BY <1>1, <1>2, <1>3, <1>4 DEF Inv

LEMMA ReadBlockInv == Inv /\ ReadBlock => Inv'
<1> SUFFICES ASSUME Inv, ReadBlock PROVE Inv'
  OBVIOUS
<1> USE DEF server, files, memory, history
<1>1. Bodies' /\ File' /\ Memory' /\ Aside' /\ Out'
  BY SameWorld DEF ReadBlock, Inv, File, Memory, Aside, Out
<1>2. pos + 1 \in 1 .. Len(index_file)
  BY DEF ReadBlock, Inv, Basics, File, GoodFile
<1>3. Todo'
  BY <1>2 DEF ReadBlock, Inv, File, GoodFile, Todo
<1>4. Basics' /\ Dropping'
  BY DEF ReadBlock, Inv, Basics, Dropping
<1> QED
  BY <1>1, <1>3, <1>4 DEF Inv

LEMMA LoadNextInv == Inv /\ LoadNext => Inv'
<1> SUFFICES ASSUME Inv, LoadNext PROVE Inv'
  OBVIOUS
<1> USE DEF server, files, history
<1>1. /\ Good(Head(todo), live, trimmed, data_file)
      /\ GoodList(Tail(todo), live, trimmed, data_file)
  BY ListNext DEF Inv, Todo, LoadNext
<1>2. GoodIndex(headers_index', live, trimmed, data_file) /\ merged_count' \in Nat
  BY <1>1, InsertKeeps DEF LoadNext
<1>3. Bodies' /\ File' /\ Memory' /\ Aside' /\ Todo' /\ Out'
  BY <1>1, <1>2, SameWorld DEF LoadNext, Inv, File, Memory, Aside, Todo, Out
<1>4. Basics' /\ Dropping'
  BY <1>2 DEF LoadNext, Inv, Basics, Dropping
<1> QED
  BY <1>3, <1>4 DEF Inv

LEMMA EndLoadInv == Inv /\ EndLoad => Inv'
<1> SUFFICES ASSUME Inv, EndLoad PROVE Inv'
  OBVIOUS
<1> USE DEF server, files, memory, history
<1>1. Bodies' /\ File' /\ Memory' /\ Aside' /\ Todo' /\ Out'
  BY SameWorld DEF EndLoad, Inv, File, Memory, Aside, Todo, Out
<1>2. Basics' /\ Dropping'
  BY DEF EndLoad, Stages, Inv, Basics, Dropping
<1> QED
  BY <1>1, <1>2 DEF Inv

LEMMA ReinsertInv == ASSUME NEW i \in Ids PROVE Inv /\ Reinsert(i) => Inv'
<1> SUFFICES ASSUME Inv, Reinsert(i) PROVE Inv'
  OBVIOUS
<1> USE DEF server, files, history
<1>1. Good(tmp_headers[i], live, trimmed, data_file)
  BY DEF Reinsert, Inv, Aside, GoodIndex
<1>2. GoodIndex(headers_index', live, trimmed, data_file) /\ merged_count' \in Nat
  BY <1>1, InsertKeeps DEF Reinsert
<1>3. Bodies' /\ File' /\ Memory' /\ Aside' /\ Todo' /\ Out'
  BY <1>2, SameWorld DEF Reinsert, Inv, File, Memory, Aside, Todo, Out
<1>4. i \in Nat
  BY IndexAssumption
<1>5. Basics' /\ Dropping'
  BY <1>2, <1>4 DEF Reinsert, Inv, Basics, Dropping
<1> QED
  BY <1>3, <1>5 DEF Inv

LEMMA EndReinsertInv == Inv /\ EndReinsert => Inv'
<1> SUFFICES ASSUME Inv, EndReinsert PROVE Inv'
  OBVIOUS
<1> USE DEF server, files, history
<1>1. Bodies' /\ File' /\ Memory' /\ Todo' /\ Out'
  BY SameWorld DEF EndReinsert, Inv, File, Memory, Todo, Out
<1>2. Aside' /\ DOMAIN tmp_headers' = {}
  BY EmptyGood DEF EndReinsert, Aside
<1>3. loaded_from_local' \in BOOLEAN
  BY DEF EndReinsert
<1>4. Basics' /\ Dropping'
  BY <1>2, <1>3 DEF EndReinsert, Stages, Inv, Basics, Dropping
<1> QED
  BY <1>1, <1>2, <1>4 DEF Inv

-----------------------------------------------------------------------------
(* Removal *)

LEMMA DeleteKeeps ==
    ASSUME Inv, NEW to \in Ids \cup {NoId}, to <= del_up_to, Delete(to)
    PROVE  GoodIndex(headers_index', live, trimmed, data_file) /\ at' \in {"truncate", "idle"}
           /\ kept' \subseteq Ids
<1>1. \A x \in live : x > to
  <2>1. \A x \in live : x > del_up_to /\ x \in Nat
    BY IndexAssumption DEF Inv, Basics
  <2>2. to \in Int /\ del_up_to \in Int
    BY IndexAssumption DEF Inv, Basics, NoId
  <2> QED
    BY <2>1, <2>2
<1>2. GoodIndex(headers_index, live, trimmed, data_file) /\ live \subseteq Ids
  BY DEF Inv, Memory, Basics
<1>3. GoodIndex(DeleteUpTo(headers_index, to), live, trimmed, data_file)
  BY <1>1, <1>2, DeleteUpToGood
<1>4. headers_index' = DeleteUpTo(headers_index, to)
  BY DEF Delete
<1>5. kept' \subseteq Ids /\ at' \in {"truncate", "idle"}
  BY DEF Delete, Inv, Basics
<1> QED
  BY <1>3, <1>4, <1>5

LEMMA TrimInv == Inv /\ Trim => Inv'
<1> SUFFICES ASSUME Inv, Trim PROVE Inv'
  OBVIOUS
<1> USE DEF server, files
<1>1. Bodies' /\ File' /\ Aside' /\ Todo' /\ Out'
  BY SameWorld DEF Trim, Inv, File, Aside, Todo, Out
<1>2. Memory' /\ at' \in {"truncate", "idle"} /\ kept' \subseteq Ids
  <2>1. CASE Delete(del_up_to)
    <3>1. del_up_to \in Ids \cup {NoId} /\ del_up_to <= del_up_to
      BY IndexAssumption DEF Inv, Basics, NoId
    <3>2. GoodIndex(headers_index', live, trimmed, data_file) /\ at' \in {"truncate", "idle"}
          /\ kept' \subseteq Ids
      BY <2>1, <3>1, DeleteKeeps
    <3> QED
      BY <3>2 DEF Trim, Memory
  <2>2. CASE at' = "idle" /\ UNCHANGED <<headers_index, kept>>
    BY <2>2 DEF Trim, Inv, Basics, Memory
  <2> QED
    BY <2>1, <2>2 DEF Trim
<1>3. Basics' /\ Dropping'
  BY <1>2 DEF Trim, Stages, Inv, Basics, Dropping
<1> QED
  BY <1>1, <1>2, <1>3 DEF Inv

LEMMA DeleteMessagesInv == ASSUME NEW i \in Ids PROVE Inv /\ DeleteMessagesUpTo(i) => Inv'
<1> SUFFICES ASSUME Inv, DeleteMessagesUpTo(i) PROVE Inv'
  OBVIOUS
<1> USE DEF server, files
<1>1. Bodies' /\ File' /\ Aside' /\ Todo' /\ Out'
  BY SameWorld DEF DeleteMessagesUpTo, Inv, File, Aside, Todo, Out
<1>2. GoodIndex(headers_index', live, trimmed, data_file) /\ at' \in {"truncate", "idle"}
      /\ kept' \subseteq Ids
  BY DeleteKeeps DEF DeleteMessagesUpTo
<1>3. Memory'
  BY <1>2 DEF DeleteMessagesUpTo, Memory
<1>4. Basics' /\ Dropping'
  BY <1>2 DEF DeleteMessagesUpTo, Stages, Inv, Basics, Dropping
<1> QED
  BY <1>1, <1>3, <1>4 DEF Inv

LEMMA DropHistoryInv == Inv /\ DropHistory => Inv'
<1> SUFFICES ASSUME Inv, DropHistory PROVE Inv'
  OBVIOUS
<1> USE DEF server, files
<1>1. Bodies' /\ File' /\ Aside'
  BY SameWorld DEF DropHistory, Inv, File, Aside
<1>2. Memory' /\ Todo' /\ Out' /\ DOMAIN headers_index' = {}
  BY EmptyGood DEF DropHistory, ToStage, Memory, Todo, Out
<1>3. Basics'
  <2>1. /\ UNCHANGED <<live, del_up_to, local_loaded, trimmed, told>> /\ kept' \subseteq Ids
        /\ jobs' = jobs + 1 /\ merged_count' = 0 /\ loaded_from_local' = FALSE /\ pos' = 0
        /\ at' = "truncate" /\ after' = "drop"
    BY DEF DropHistory, ToStage
  <2>2. local_loaded' \in BOOLEAN /\ loaded_from_local' \in BOOLEAN
    BY <2>1 DEF Inv, Basics
  <2>3. at' \in Stages /\ after' \in Stages
    BY <2>1 DEF Stages
  <2> QED
    BY <2>1, <2>2, <2>3 DEF Inv, Basics
<1>4. Dropping'
  BY <1>2 DEF DropHistory, ToStage, Inv, Dropping
<1> QED
  BY <1>1, <1>2, <1>3, <1>4 DEF Inv

LEMMA DropDataInv == Inv /\ DropData => Inv'
<1> SUFFICES ASSUME Inv, DropData PROVE Inv'
  OBVIOUS
<1> USE DEF server, memory, history
<1>1. /\ DOMAIN headers_index = {} /\ DOMAIN tmp_headers = {} /\ index_file = <<>>
      /\ todo = <<>> /\ out = <<>> /\ after # "drop"
  BY DEF DropData, Inv, Dropping
<1>2. Bodies'
  BY DEF DropData, Bodies, GoodBodies
<1>3. File' /\ Todo' /\ Out'
  BY <1>1, EmptyGood DEF DropData, File, Todo, Out
<1>4. Memory' /\ Aside'
  BY <1>1 DEF DropData, Memory, Aside, GoodIndex
<1>5. Basics' /\ Dropping'
  BY <1>1 DEF DropData, Stages, Inv, Basics, Dropping
<1> QED
  BY <1>2, <1>3, <1>4, <1>5 DEF Inv

LEMMA OptimizeInv == Inv /\ Optimize => Inv'
<1> SUFFICES ASSUME Inv, Optimize PROVE Inv'
  OBVIOUS
<1> USE DEF server, files, BeginSave, Begin
<1>1. /\ UNCHANGED <<live, del_up_to, data_file, index_file, tmp_headers, local_loaded,
                     loaded_from_local, told>>
      /\ at = "idle" /\ at' = "truncate" /\ after' = "idle" /\ todo' = <<>> /\ out' = <<>>
      /\ pos' = 0 /\ jobs' = jobs + 1 /\ merged_count' = 0 /\ kept' \subseteq kept
  BY DEF Optimize
<1>2. trimmed' \in Int /\ trimmed <= trimmed'
      /\ GoodIndex(headers_index', live, trimmed', data_file)
  <2>1. CASE Cardinality(DOMAIN headers_index) > MaxIndexSize
    <3>1. headers_index' = KeepNewest(headers_index, MaxIndexSize)
      BY <2>1 DEF Optimize
    <3>2. PICK first \in DOMAIN headers_index' :
              /\ \A j \in DOMAIN headers_index' : first <= j
              /\ trimmed' = IF first - 1 > trimmed THEN first - 1 ELSE trimmed
      BY <2>1 DEF Optimize
    <3>3. first \in Ids
      BY <3>1, <3>2 DEF KeepNewest, Inv, Memory, GoodIndex
    <3>4. first \in Nat /\ trimmed \in Int /\ live \subseteq Ids
      BY <3>3, IndexAssumption DEF Inv, Basics
    <3>5. trimmed' \in Int /\ trimmed <= trimmed' /\ first - 1 <= trimmed'
      BY <3>2, <3>4
    <3>6. GoodIndex(KeepNewest(headers_index, MaxIndexSize), live, trimmed', data_file)
      BY <3>1, <3>2, <3>4, <3>5, KeepNewestGood DEF Inv, Memory
    <3> QED
      BY <3>1, <3>5, <3>6
  <2>2. CASE ~(Cardinality(DOMAIN headers_index) > MaxIndexSize)
    BY <2>2 DEF Optimize, Inv, Basics, Memory
  <2> QED
    BY <2>1, <2>2
<1>3. live \subseteq Ids /\ trimmed \in Int /\ Len(data_file) \in Nat
  BY DEF Inv, Basics, Bodies, GoodBodies
<1>4. Later(live, trimmed, data_file, live', trimmed', data_file')
  BY <1>1, <1>2, <1>3 DEF Later
<1>5. GoodBodies(data_file', live', trimmed')
  BY <1>1, <1>2, <1>3, BodiesLater DEF Inv, Bodies
<1>6. Bodies' /\ File' /\ Aside'
  BY <1>1, <1>4, <1>5, WorldLater DEF File, Aside
<1>7. Memory' /\ Todo' /\ Out'
  BY <1>1, <1>2, EmptyGood DEF Memory, Todo, Out
<1>8. Basics' /\ Dropping'
  BY <1>1, <1>2 DEF Stages, Inv, Basics, Dropping
<1> QED
  BY <1>6, <1>7, <1>8 DEF Inv

LEMMA InvalidateInv ==
    ASSUME NEW i \in Ids
    PROVE  Inv /\ (InvalidateData(i) \/ ReadMessage(i)) => Inv'
<1> SUFFICES ASSUME Inv, InvalidateData(i) \/ ReadMessage(i) PROVE Inv'
  OBVIOUS
<1> USE DEF server, files, BeginSave, Begin, job, history
<1>1. /\ UNCHANGED <<live, del_up_to, data_file, index_file, tmp_headers, merged_count, local_loaded,
                     loaded_from_local, kept, trimmed, told>>
      /\ at = "idle" /\ i \in DOMAIN headers_index
      /\ \/ UNCHANGED <<at, after, todo, out, pos, jobs>>
         \/ /\ at' = "truncate" /\ after' = "idle" /\ todo' = <<>> /\ out' = <<>>
            /\ pos' = 0 /\ jobs' = jobs + 1
  BY DEF InvalidateData, ReadMessage, VisibleIds
<1>2. GoodIndex(headers_index', live, trimmed, data_file)
      /\ DOMAIN headers_index' = DOMAIN headers_index
  <2>1. CASE InvalidateData(i)
    <3>1. /\ GoodIndex(headers_index, live, trimmed, data_file) /\ i \in DOMAIN headers_index
          /\ headers_index' = [headers_index EXCEPT ![i].data = Invalidated]
      BY <1>1, <2>1 DEF InvalidateData, Inv, Memory
    <3>2. DOMAIN headers_index' = DOMAIN headers_index
      BY <3>1
    <3> QED
      BY <3>1, <3>2, InvalidatedGood
  <2>2. CASE ReadMessage(i)
    BY <1>1, <2>2, MarkUnreadGood DEF ReadMessage
  <2> QED
    BY <2>1, <2>2
<1>3. Bodies' /\ File' /\ Memory' /\ Aside' /\ Todo' /\ Out'
  BY <1>1, <1>2, SameWorld, EmptyGood DEF Inv, File, Memory, Aside, Todo, Out
<1>4. Basics' /\ Dropping'
  BY <1>1, <1>2 DEF Stages, Inv, Basics, Dropping
<1> QED
  BY <1>3, <1>4 DEF Inv

-----------------------------------------------------------------------------
(* Loss of memory, failures *)

LEMMA KeptShrinks == ASSUME Inv, KeptInFile PROVE kept' \subseteq Ids
BY DEF KeptInFile, Inv, Basics

LEMMA FreeInv == Inv /\ Free => Inv'
<1> SUFFICES ASSUME Inv, Free PROVE Inv'
  OBVIOUS
<1> USE DEF server, files, job
<1>1. Bodies' /\ File' /\ Aside' /\ Todo' /\ Out'
  BY SameWorld DEF Free, Inv, File, Aside, Todo, Out
<1>2. Memory' /\ DOMAIN headers_index' = {}
  BY EmptyGood DEF Free, Forget, Memory
<1>3. kept' \subseteq Ids
  BY KeptShrinks DEF Free
<1>4. Basics' /\ Dropping'
  BY <1>2, <1>3 DEF Free, Forget, Inv, Basics, Dropping
<1> QED
  BY <1>1, <1>2, <1>4 DEF Inv

\* a torn block at the end of either file
LEMMA TornFiles ==
    ASSUME Inv, UNCHANGED <<live, trimmed>>,
           \/ UNCHANGED <<data_file, index_file>>
           \/ data_file' = Append(data_file, TornData) /\ UNCHANGED index_file
           \/ index_file' = Append(index_file, Torn) /\ UNCHANGED data_file
    PROVE  /\ Bodies' /\ File'
           /\ Later(live, trimmed, data_file, live', trimmed', data_file')
<1>1. Bodies /\ File /\ trimmed \in Int
  BY DEF Inv, Basics
<1>2. Bodies' /\ Len(data_file) \in Nat /\ Len(data_file') \in Nat
      /\ Len(data_file) <= Len(data_file')
      /\ \A n \in 1 .. Len(data_file) : data_file'[n] = data_file[n]
  <2>1. CASE UNCHANGED data_file
    BY <1>1, <2>1 DEF Bodies, GoodBodies
  <2>2. CASE data_file' = Append(data_file, TornData)
    BY <1>1, <2>2, BodiesAppend, TornBodyGood DEF Bodies
  <2> QED
    BY <2>1, <2>2
<1>3. Later(live, trimmed, data_file, live', trimmed', data_file')
  BY <1>1, <1>2 DEF Later
<1>4. GoodFile(index_file, live', trimmed', data_file')
  BY <1>2, <1>3, WorldLater DEF Bodies
<1>5. File'
  BY <1>4, TornFileGood DEF File
<1> QED
  BY <1>2, <1>3, <1>5

LEMMA WriteFailsInv == Inv /\ WriteFails => Inv'
<1> SUFFICES ASSUME Inv, WriteFails PROVE Inv'
  OBVIOUS
<1> USE DEF server, memory, history
<1>1. Bodies' /\ File' /\ Later(live, trimmed, data_file, live', trimmed', data_file')
  BY TornFiles DEF WriteFails
<1>2. Memory' /\ Aside'
  BY <1>1, WorldLater DEF WriteFails, Bodies, Memory, Aside
<1>3. Todo' /\ Out'
  BY EmptyGood DEF WriteFails, Todo, Out
<1>4. Basics' /\ Dropping'
  <2>1. after # "drop" /\ at \in {"data", "insert", "save"}
    BY DEF WriteFails, WritesData, WritesIndex, Inv, Dropping
  <2> QED
    BY <2>1 DEF WriteFails, Stages, Inv, Basics, Dropping
<1> QED
  BY <1>1, <1>2, <1>3, <1>4 DEF Inv

LEMMA CrashInv == Inv /\ Crash => Inv'
<1> SUFFICES ASSUME Inv, Crash PROVE Inv'
  OBVIOUS
<1> USE DEF server
<1>1. Bodies' /\ File'
  BY TornFiles DEF Crash, files
<1>2. /\ Memory' /\ Aside' /\ Todo' /\ Out'
      /\ DOMAIN headers_index' = {} /\ DOMAIN tmp_headers' = {}
  BY EmptyGood DEF Crash, Forget, ToStage, Memory, Aside, Todo, Out
<1>3. kept' \subseteq Ids
  BY KeptShrinks DEF Crash
<1>4. Basics' /\ Dropping'
  BY <1>2, <1>3 DEF Crash, Forget, ToStage, Stages, Inv, Basics, Dropping
<1> QED
  BY <1>1, <1>2, <1>4 DEF Inv

-----------------------------------------------------------------------------
(* The theorems *)

LEMMA NextInv == Inv /\ [Next]_vars => Inv'
<1> SUFFICES ASSUME Inv, [Next]_vars PROVE Inv'
  OBVIOUS
<1>1. CASE Next
  BY <1>1, ServerInv, FilterInv, RewriteInv, WriteDataInv, EndDataInv, InsertNextInv, SaveBlockInv,
     TruncateInv, SaveHeaderInv, EndSaveInv, LoadInv, ReadBlockInv, LoadNextInv, EndLoadInv,
     ReinsertInv, EndReinsertInv, TrimInv, DeleteMessagesInv, DropHistoryInv, DropDataInv,
     OptimizeInv, InvalidateInv, FreeInv, WriteFailsInv, CrashInv
     DEF Next
<1>2. CASE UNCHANGED vars
  <2> USE <1>2 DEF vars, server, files, memory, job, history
  <2>1. Basics' /\ Dropping'
    BY DEF Inv, Basics, Dropping
  <2>2. Bodies' /\ File' /\ Memory' /\ Aside' /\ Todo' /\ Out'
    BY DEF Inv, Bodies, File, Memory, Aside, Todo, Out
  <2> QED
    BY <2>1, <2>2 DEF Inv
<1> QED
  BY <1>1, <1>2

\* The inductive invariant: whatever there is, in memory, put aside, in work or in the file, is
\* good in the present world, and while drop_history is on its way there are no headers.
THEOREM GoodEverywhere == Spec => []Inv
<1>1. Init => Inv
  BY InitInv
<1>2. Inv /\ [Next]_vars => Inv'
  BY NextInv
<1> QED
  BY <1>1, <1>2, PTL DEF Spec

\* The variables have their types: a header of the index is stored under its own id.
THEOREM TypeCorrect == Spec => []TypeOK
<1>1. Inv => TypeOK
  <2> SUFFICES ASSUME Inv PROVE TypeOK
    OBVIOUS
  <2>1. trimmed \in Nat \cup {NoId}
    BY DEF Inv, Basics, NoId
  <2>2. data_file \in Seq(Header \cup {TornData}) /\ index_file \in Seq(Seq(Header))
        /\ todo \in Seq(Header) /\ out \in Seq(Header)
    BY DEF Inv, Bodies, GoodBodies, File, GoodFile, Todo, Out, GoodList
  <2>3. /\ DOMAIN headers_index \subseteq Ids
        /\ \A i \in DOMAIN headers_index : headers_index[i] \in Header /\ headers_index[i].id = i
        /\ DOMAIN tmp_headers \subseteq Ids
        /\ \A i \in DOMAIN tmp_headers : tmp_headers[i] \in Header /\ tmp_headers[i].id = i
    BY DEF Inv, Memory, Aside, GoodIndex, Good
  <2> QED
    BY <2>1, <2>2, <2>3 DEF TypeOK, Inv, Basics
<1> QED
  BY <1>1, GoodEverywhere, PTL

\* A header leads to the body of its own message, in memory and in the file, whatever crash or
\* failed write came between the two files.
THEOREM HeadersLeadToTheirBodies == Spec => []NoDangling
<1>1. Inv => NoDangling
  <2> SUFFICES ASSUME Inv, NEW h \in AllHeaders, h.data \notin {NotStored, Invalidated}
               PROVE  HasData(h)
    BY DEF NoDangling
  <2>1. CASE \E i \in DOMAIN headers_index : h = headers_index[i]
    BY <2>1 DEF Inv, Memory, GoodIndex, Good, Attached, HasData
  <2>2. CASE \E i \in DOMAIN tmp_headers : h = tmp_headers[i]
    BY <2>2 DEF Inv, Aside, GoodIndex, Good, Attached, HasData
  <2>3. CASE h \in Items(todo)
    <3>1. PICK n \in 1 .. Len(todo) : h = todo[n]
      BY <2>3 DEF Items, Inv, Todo, GoodList
    <3> QED
      BY <3>1 DEF Inv, Todo, GoodList, Good, Attached, HasData
  <2>4. CASE \E n \in DOMAIN index_file : h \in Items(index_file[n])
    <3>1. PICK n \in 1 .. Len(index_file) : h \in Items(index_file[n])
      <4>1. index_file \in Seq(Seq(Header))
        BY DEF Inv, File, GoodFile
      <4>2. DOMAIN index_file = 1 .. Len(index_file)
        BY <4>1
      <4> QED
        BY <2>4, <4>2
    <3>2. GoodList(index_file[n], live, trimmed, data_file)
      BY <3>1 DEF Inv, File, GoodFile
    <3>3. PICK k \in 1 .. Len(index_file[n]) : h = index_file[n][k]
      BY <3>1, <3>2 DEF Items, GoodList
    <3> QED
      BY <3>2, <3>3 DEF GoodList, Good, Attached, HasData
  <2> QED
    BY <2>1, <2>2, <2>3, <2>4 DEF AllHeaders
<1> QED
  BY <1>1, GoodEverywhere, PTL

\* No sequence of merges, patches, deletions, re-loads and trimmings makes a link that the server
\* told jump over a message that lives: get_next_hole finds every gap.
THEOREM LinksHideNothing == Spec => []NoSilentGap
<1>1. Inv => NoSilentGap
  BY DEF Inv, Memory, GoodIndex, Good, Fine, NoSilentGap, VisibleIds
<1> QED
  BY <1>1, GoodEverywhere, PTL

-----------------------------------------------------------------------------
(* What was stored survives.  The invariant says where the kept ids are at each stage: the lists  *)
(* of the job, the memory, or the blocks that a loop over the file has behind it.                 *)

\* the ids of a block
Named(b) == {b[k].id : k \in DOMAIN b}

\* what the stages leave in the lists of the job
StageOK ==
    /\ at \notin {"filter", "data", "insert", "save"} => out = <<>>
    /\ at \in {"data", "insert"} => todo # <<>> \/ out # <<>>
    /\ at = "save" /\ out # <<>> => \E j \in DOMAIN headers_index : j > pos
    /\ at = "save" => Whole(index_file)
    /\ after \in IF at = "reinsert" THEN {"truncate", "trim"} ELSE {"idle", "trim", "drop"}

\* what was kept is in memory when it was loaded, and when the file is about to be rewritten
InMemory ==
    at \in {"truncate", "save"} \/ (local_loaded /\ at \notin {"load", "reinsert"})
        => kept \subseteq DOMAIN headers_index

\* what each loop has behind it
Looped ==
    /\ at = "insert" => Named(out) \subseteq DOMAIN headers_index
    /\ at = "save" => \A i \in DOMAIN headers_index :
                          i <= pos => i \in ReadableIds(index_file) \cup Named(out)
    /\ at = "load" => /\ pos <= Len(index_file)
                      /\ \A n \in 1 .. pos :
                            Named(index_file[n]) \subseteq DOMAIN headers_index \cup Named(todo)
    /\ at = "reinsert" => kept \subseteq DOMAIN headers_index
                                            \cup {i \in DOMAIN tmp_headers : i > pos}

KeptInv == KeptSurvives /\ StageOK /\ InMemory /\ Looped

LEMMA Readable ==
    ASSUME NEW f, NEW i
    PROVE  i \in ReadableIds(f) <=>
              \E n \in DOMAIN f : (\A j \in 1 .. n : f[j] # Torn) /\ i \in Named(f[n])
BY DEF ReadableIds, Named

LEMMA NamedEmpty == Named(<<>>) = {}
BY DEF Named

LEMMA NamedAppend ==
    ASSUME NEW b \in Seq(Header), NEW h \in Header
    PROVE  Named(Append(b, h)) = Named(b) \cup {h.id} /\ Append(b, h) # <<>>
<1>1. /\ DOMAIN Append(b, h) = 1 .. Len(b) + 1 /\ DOMAIN b = 1 .. Len(b) /\ Len(b) \in Nat
      /\ Append(b, h)[Len(b) + 1] = h
      /\ \A k \in 1 .. Len(b) : Append(b, h)[k] = b[k]
      /\ Append(b, h) # <<>>
  OBVIOUS
<1>2. ASSUME NEW i PROVE i \in Named(Append(b, h)) => i \in Named(b) \cup {h.id}
  <2> SUFFICES ASSUME i \in Named(Append(b, h)) PROVE i \in Named(b) \cup {h.id}
    OBVIOUS
  <2>1. PICK k \in 1 .. Len(b) + 1 : i = Append(b, h)[k].id
    BY <1>1 DEF Named
  <2>2. CASE k = Len(b) + 1
    BY <1>1, <2>1, <2>2
  <2>3. CASE k \in 1 .. Len(b)
    BY <1>1, <2>1, <2>3 DEF Named
  <2> QED
    BY <1>1, <2>2, <2>3
<1>3. ASSUME NEW i \in Named(b) PROVE i \in Named(Append(b, h))
  <2>1. PICK k \in 1 .. Len(b) : i = b[k].id
    BY <1>1 DEF Named
  <2>2. k \in 1 .. Len(b) + 1 /\ i = Append(b, h)[k].id
    BY <1>1, <2>1
  <2> QED
    BY <1>1, <2>2 DEF Named
<1>4. h.id \in Named(Append(b, h))
  <2>1. Len(b) + 1 \in 1 .. Len(b) + 1
    BY <1>1
  <2> QED
    BY <1>1, <2>1 DEF Named
<1> QED
  BY <1>1, <1>2, <1>3, <1>4

LEMMA NamedNext ==
    ASSUME NEW b \in Seq(Header), b # <<>>
    PROVE  Named(b) \subseteq {Head(b).id} \cup Named(Tail(b))
<1>1. /\ DOMAIN b = 1 .. Len(b) /\ DOMAIN Tail(b) = 1 .. Len(b) - 1 /\ Len(b) \in Nat
      /\ Head(b) = b[1] /\ \A n \in 1 .. Len(b) - 1 : Tail(b)[n] = b[n + 1]
  OBVIOUS
<1>2. SUFFICES ASSUME NEW i \in Named(b), i # Head(b).id PROVE i \in Named(Tail(b))
  OBVIOUS
<1>3. PICK k \in 1 .. Len(b) : i = b[k].id
  BY <1>1 DEF Named
<1>4. k # 1
  BY <1>1, <1>2, <1>3
<1>5. k - 1 \in 1 .. Len(b) - 1 /\ (k - 1) + 1 = k
  BY <1>1, <1>4
<1>6. Tail(b)[k - 1] = b[k]
  BY <1>1, <1>5
<1> QED
  BY <1>1, <1>3, <1>5, <1>6 DEF Named

\* a block more, torn or not
LEMMA AppendReadable ==
    ASSUME NEW f \in Seq(Seq(Header)), NEW b \in Seq(Header)
    PROVE  /\ ReadableIds(f) \subseteq ReadableIds(Append(f, b))
           /\ Whole(Append(f, b)) <=> Whole(f) /\ b # Torn
           /\ Whole(f) /\ b # Torn => Named(b) \subseteq ReadableIds(Append(f, b))
<1> DEFINE g == Append(f, b)
<1>1. /\ DOMAIN g = 1 .. Len(f) + 1 /\ DOMAIN f = 1 .. Len(f) /\ Len(f) \in Nat
      /\ g[Len(f) + 1] = b
      /\ \A n \in 1 .. Len(f) : g[n] = f[n]
  OBVIOUS
<1> HIDE DEF g
<1>2. ASSUME NEW i \in ReadableIds(f) PROVE i \in ReadableIds(g)
  <2>1. PICK n \in 1 .. Len(f) : (\A j \in 1 .. n : f[j] # Torn) /\ i \in Named(f[n])
    BY <1>1, Readable
  <2>2. n \in 1 .. Len(f) + 1 /\ \A j \in 1 .. n : j \in 1 .. Len(f)
    BY <1>1
  <2>3. (\A j \in 1 .. n : g[j] # Torn) /\ i \in Named(g[n])
    BY <1>1, <2>1, <2>2
  <2> QED
    BY <1>1, <2>2, <2>3, Readable
<1>3. \A n : n \in 1 .. Len(f) + 1 <=> n = Len(f) + 1 \/ n \in 1 .. Len(f)
  BY <1>1
<1>4. Whole(g) <=> Whole(f) /\ b # Torn
  BY <1>1, <1>3 DEF Whole
<1>5. ASSUME Whole(f), b # Torn, NEW i \in Named(b) PROVE i \in ReadableIds(g)
  <2>1. \A j \in 1 .. Len(f) + 1 : g[j] # Torn
    BY <1>1, <1>4, <1>5 DEF Whole
  <2>2. Len(f) + 1 \in DOMAIN g /\ i \in Named(g[Len(f) + 1])
    BY <1>1, <1>3, <1>5
  <2> QED
    BY <2>1, <2>2, Readable
<1>6. /\ ReadableIds(f) \subseteq ReadableIds(g)
      /\ Whole(f) /\ b # Torn => Named(b) \subseteq ReadableIds(g)
  BY <1>2, <1>5
<1> QED
  BY <1>4, <1>6 DEF g

\* the loop of load_from_local that stopped has seen whatever is readable
LEMMA ReadableUpTo ==
    ASSUME NEW f \in Seq(Seq(Header)), NEW p \in Nat, p <= Len(f),
           p < Len(f) => f[p + 1] = Torn, NEW i \in ReadableIds(f)
    PROVE  \E n \in 1 .. p : i \in Named(f[n])
<1>1. DOMAIN f = 1 .. Len(f) /\ Len(f) \in Nat
  OBVIOUS
<1>2. PICK n \in 1 .. Len(f) : (\A j \in 1 .. n : f[j] # Torn) /\ i \in Named(f[n])
  BY <1>1, Readable
<1>3. ASSUME n > p PROVE FALSE
  <2>1. p < Len(f) /\ p + 1 \in 1 .. n
    BY <1>1, <1>3
  <2> QED
    BY <1>2, <2>1
<1>4. n \in 1 .. p
  BY <1>1, <1>3
<1> QED
  BY <1>2, <1>4

LEMMA ListsAreSequences ==
    ASSUME Inv
    PROVE  /\ index_file \in Seq(Seq(Header)) /\ todo \in Seq(Header) /\ out \in Seq(Header)
           /\ DOMAIN headers_index \subseteq Ids /\ DOMAIN tmp_headers \subseteq Ids
           /\ pos \in Nat /\ \A i \in Ids : i \in Nat /\ i > 0
BY IndexAssumption DEF Inv, Basics, File, GoodFile, Todo, Out, GoodList, Memory, Aside, GoodIndex

\* A step of a job between the loops: it leaves the file, the ids in memory and what was kept.
LEMMA QuietStep ==
    ASSUME KeptInv,
           UNCHANGED <<index_file, kept, local_loaded, tmp_headers>>,
           DOMAIN headers_index' = DOMAIN headers_index,
           at \notin {"truncate", "save", "load", "reinsert"},
           \/ at' \in {"idle", "filter", "data", "drop"}
           \/ at' = "insert" /\ out' = <<>>
           \/ at' = "truncate" /\ local_loaded,
           StageOK'
    PROVE  KeptInv'
<1>1. KeptSurvives'
  BY DEF KeptInv, KeptSurvives
<1>2. InMemory'
  BY DEF KeptInv, InMemory
<1>3. Looped'
  BY NamedEmpty DEF Looped
<1> QED
  BY <1>1, <1>2, <1>3 DEF KeptInv

LEMMA ServerKept ==
    ASSUME NEW i \in Ids
    PROVE  KeptInv /\ (ServerDeletes(i) \/ DelUpToChanged(i)) => KeptInv'
<1> SUFFICES ASSUME KeptInv, ServerDeletes(i) \/ DelUpToChanged(i) PROVE KeptInv'
  OBVIOUS
<1>1. at = "idle" /\ UNCHANGED <<files, memory, job, history>>
  BY DEF ServerDeletes, DelUpToChanged
<1>2. StageOK'
  BY <1>1 DEF files, memory, job, KeptInv, StageOK
<1> QED
  BY <1>1, <1>2, QuietStep DEF files, memory, job, history

LEMMA FilterKept ==
    ASSUME KeptInv,
           UpdateHistory \/ (\E m \in Told : FilterMessage(m)) \/ EndFilter \/ EndUnchanged
    PROVE  KeptInv'
<1>1. UNCHANGED <<index_file, kept, local_loaded, tmp_headers, headers_index>>
      /\ at \in {"idle", "filter"}
  BY DEF UpdateHistory, FilterMessage, EndFilter, EndUnchanged, Begin, ToStage, files, memory,
         history
<1>2. StageOK' /\ at' \in {"idle", "filter", "data"}
  <2>1. CASE UpdateHistory
    BY <2>1 DEF UpdateHistory, Begin, StageOK
  <2>2. CASE \E m \in Told : FilterMessage(m)
    BY <2>2 DEF FilterMessage, KeptInv, StageOK
  <2>3. CASE EndFilter \/ EndUnchanged
    BY <2>3 DEF EndFilter, EndUnchanged, ToStage, KeptInv, StageOK
  <2> QED
    BY <2>1, <2>2, <2>3
<1> QED
  BY <1>1, <1>2, QuietStep

LEMMA MarkKeepsIds ==
    ASSUME NEW i, i \in DOMAIN headers_index, MarkUnread(i)
    PROVE  DOMAIN headers_index' = DOMAIN headers_index
BY DEF MarkUnread

LEMMA OneNotEmpty == ASSUME NEW h PROVE <<h>> # <<>>
OBVIOUS

LEMMA RewriteKept ==
    ASSUME KeptInv, NEW i \in Ids, NothingOlder(i) \/ UpdateMessageData(i)
    PROVE  KeptInv'
<1>1. UNCHANGED <<index_file, kept, local_loaded, tmp_headers>>
      /\ at \in {"idle", "filter"} /\ at' = "data" /\ out' = <<>>
      /\ DOMAIN headers_index' = DOMAIN headers_index
  BY MarkKeepsIds DEF NothingOlder, UpdateMessageData, ToStage, files, memory, history
<1>2. todo' # <<>>
  BY OneNotEmpty DEF NothingOlder, UpdateMessageData, ToStage
<1>3. after' \in {"idle", "trim", "drop"}
  BY DEF NothingOlder, UpdateMessageData, KeptInv, StageOK
<1>4. StageOK'
  BY <1>1, <1>2, <1>3 DEF StageOK
<1> QED
  BY <1>1, <1>4, QuietStep

LEMMA WriteDataKept == Inv /\ KeptInv /\ WriteData => KeptInv'
<1> SUFFICES ASSUME Inv, KeptInv, WriteData PROVE KeptInv'
  OBVIOUS
<1>1. UNCHANGED <<index_file, kept, local_loaded, tmp_headers, headers_index, after>>
      /\ at = "data" /\ at' = "data"
  BY DEF WriteData, memory, history
<1>2. out' # <<>>
  <2>1. ASSUME NEW h PROVE Append(out, h) # <<>>
    <3>1. out \in Seq(Header)
      BY ListsAreSequences
    <3>2. out \in Seq(Header \cup {h}) /\ h \in Header \cup {h}
      BY <3>1
    <3> HIDE <3>1
    <3>3. Len(Append(out, h)) = Len(out) + 1 /\ Len(out) \in Nat
      BY <3>2
    <3> QED
      BY <3>3
  <2> QED
    BY <2>1 DEF WriteData
<1>3. StageOK'
  BY <1>1, <1>2 DEF KeptInv, StageOK
<1> QED
  BY <1>1, <1>3, QuietStep

LEMMA EndDataKept == KeptInv /\ EndData => KeptInv'
<1> SUFFICES ASSUME KeptInv, EndData PROVE KeptInv'
  OBVIOUS
<1>1. UNCHANGED <<index_file, kept, local_loaded, tmp_headers, headers_index, after>>
      /\ at = "data" /\ at' = "insert" /\ out' = <<>> /\ todo' = out /\ todo = <<>>
  BY DEF EndData, ToStage, files, memory, history
<1>2. StageOK'
  BY <1>1 DEF KeptInv, StageOK
<1> QED
  BY <1>1, <1>2, QuietStep

LEMMA DropDataKept == KeptInv /\ DropData => KeptInv'
<1> SUFFICES ASSUME KeptInv, DropData PROVE KeptInv'
  OBVIOUS
<1>1. UNCHANGED <<index_file, kept, local_loaded, tmp_headers, headers_index, after, out>>
      /\ at = "drop" /\ at' = "idle"
  BY DEF DropData, memory, history
<1>2. StageOK'
  BY <1>1 DEF KeptInv, StageOK
<1> QED
  BY <1>1, <1>2, QuietStep

LEMMA InvalidateKept ==
    ASSUME KeptInv, NEW i \in Ids, InvalidateData(i) \/ ReadMessage(i)
    PROVE  KeptInv'
<1>1. CASE InvalidateData(i)
  <2>1. UNCHANGED <<index_file, kept, local_loaded, tmp_headers>> /\ local_loaded
        /\ at = "idle" /\ at' = "truncate" /\ out' = <<>> /\ after' = "idle"
        /\ DOMAIN headers_index' = DOMAIN headers_index
    BY <1>1 DEF InvalidateData, BeginSave, Begin, files
  <2>2. StageOK'
    BY <2>1 DEF StageOK
  <2> QED
    BY <2>1, <2>2, QuietStep
<1>2. CASE ReadMessage(i)
  <2>1. UNCHANGED <<index_file, kept, local_loaded, tmp_headers, at, todo, out, pos, after>>
        /\ at = "idle" /\ DOMAIN headers_index' = DOMAIN headers_index
    BY <1>2, MarkKeepsIds DEF ReadMessage, VisibleIds, files, job, history
  <2>2. StageOK'
    BY <2>1 DEF KeptInv, StageOK
  <2> QED
    BY <2>1, <2>2, QuietStep
<1> QED
  BY <1>1, <1>2

\* insertion: the ids in memory grow
LEMMA InsertNextKept == Inv /\ KeptInv /\ InsertNext => KeptInv'
<1> SUFFICES ASSUME Inv, KeptInv, InsertNext PROVE KeptInv'
  OBVIOUS
<1>1. /\ UNCHANGED <<index_file, kept, local_loaded, tmp_headers, after>>
      /\ at = "insert" /\ at' = "insert" /\ todo # <<>>
  BY DEF InsertNext, files, history
<1> DEFINE w == Written(headers_index, Head(todo))
<1>2. Good(Head(todo), live, trimmed, data_file)
  BY <1>1, ListNext DEF Inv, Todo
<1>3. Good(w, live, trimmed, data_file) /\ w.id = Head(todo).id
  BY <1>2, WrittenGood DEF Inv, Memory
<1>4. DOMAIN headers_index' = DOMAIN headers_index \cup {Head(todo).id}
  BY <1>2, InsertKeeps DEF InsertNext
<1>5. out' = Append(out, w)
  BY DEF InsertNext
<1> HIDE DEF w
<1>6. Named(out') = Named(out) \cup {w.id} /\ out' # <<>>
  <2>1. out \in Seq(Header) /\ w \in Header
    BY <1>3, ListsAreSequences DEF Good
  <2>2. Named(Append(out, w)) = Named(out) \cup {w.id} /\ Append(out, w) # <<>>
    BY <2>1, NamedAppend
  <2> QED
    BY <1>5, <2>2
<1>7. KeptSurvives'
  BY <1>1, <1>4 DEF KeptInv, KeptSurvives
<1>8. StageOK'
  BY <1>1, <1>6 DEF KeptInv, StageOK
<1>9. InMemory'
  BY <1>1, <1>4 DEF KeptInv, InMemory
<1>10. Looped'
  BY <1>1, <1>3, <1>4, <1>6 DEF KeptInv, Looped
<1> QED
  BY <1>7, <1>8, <1>9, <1>10 DEF KeptInv

LEMMA SaveBlockKept == Inv /\ KeptInv /\ SaveBlock => KeptInv'
<1> SUFFICES ASSUME Inv, KeptInv, SaveBlock PROVE KeptInv'
  OBVIOUS
<1>1. /\ UNCHANGED <<headers_index, local_loaded, tmp_headers, after>>
      /\ at = "insert" /\ at' = "idle" /\ todo = <<>> /\ out' = <<>>
      /\ index_file' = Append(index_file, out) /\ kept' = kept \cup Named(out)
  BY DEF SaveBlock, ToStage, memory, Named
<1>2. out # <<>>
  BY <1>1 DEF KeptInv, StageOK
<1>3. index_file \in Seq(Seq(Header)) /\ out \in Seq(Header)
  BY ListsAreSequences
<1>4. /\ ReadableIds(index_file) \subseteq ReadableIds(Append(index_file, out))
      /\ Whole(Append(index_file, out)) <=> Whole(index_file)
      /\ Whole(index_file) => Named(out) \subseteq ReadableIds(Append(index_file, out))
  BY <1>2, <1>3, AppendReadable DEF Torn
<1>5. Named(out) \subseteq DOMAIN headers_index
  BY <1>1 DEF KeptInv, Looped
<1>6. KeptSurvives'
  BY <1>1, <1>4, <1>5 DEF KeptInv, KeptSurvives
<1>7. StageOK'
  BY <1>1 DEF KeptInv, StageOK
<1>8. InMemory'
  BY <1>1, <1>5 DEF KeptInv, InMemory
<1>9. Looped'
  BY <1>1 DEF Looped
<1> QED
  BY <1>6, <1>7, <1>8, <1>9 DEF KeptInv

\* save_all: what was kept is in memory, and the loop writes the memory
LEMMA TruncateKept == Inv /\ KeptInv /\ Truncate => KeptInv'
<1> SUFFICES ASSUME Inv, KeptInv, Truncate PROVE KeptInv'
  OBVIOUS
<1>1. /\ UNCHANGED <<headers_index, local_loaded, tmp_headers, after, out, kept>>
      /\ at = "truncate" /\ at' = "save" /\ pos' = 0 /\ index_file' = <<>>
  BY DEF Truncate, memory, history
<1>2. kept \subseteq DOMAIN headers_index /\ out = <<>>
  BY <1>1 DEF KeptInv, InMemory, StageOK
<1>3. Whole(<<>>)
  BY DEF Whole
<1>4. KeptSurvives'
  BY <1>1, <1>2 DEF KeptSurvives
<1>5. StageOK'
  BY <1>1, <1>2, <1>3 DEF KeptInv, StageOK
<1>6. InMemory'
  BY <1>1, <1>2 DEF InMemory
<1>7. Looped'
  <2>1. \A i \in DOMAIN headers_index : ~(i <= 0)
    BY ListsAreSequences
  <2> QED
    BY <1>1, <2>1 DEF Looped
<1> QED
  BY <1>4, <1>5, <1>6, <1>7 DEF KeptInv

LEMMA SaveHeaderKept == ASSUME NEW i \in Ids PROVE Inv /\ KeptInv /\ SaveHeader(i) => KeptInv'
<1> SUFFICES ASSUME Inv, KeptInv, SaveHeader(i) PROVE KeptInv'
  OBVIOUS
<1> DEFINE block == Append(out, headers_index[i])
<1>1. /\ UNCHANGED <<headers_index, local_loaded, tmp_headers, after, kept>>
      /\ at = "save" /\ at' = "save" /\ pos' = i /\ i \in DOMAIN headers_index
      /\ \A j \in DOMAIN headers_index : j > pos => i <= j
      /\ \/ index_file' = Append(index_file, block) /\ out' = <<>>
         \/ /\ index_file' = index_file /\ out' = block
            /\ ~(\A j \in DOMAIN headers_index : j <= i)
  BY DEF SaveHeader, IsNext, memory, history
<1>2. headers_index[i] \in Header /\ headers_index[i].id = i
  BY <1>1 DEF Inv, Memory, GoodIndex, Good
<1>3. index_file \in Seq(Seq(Header)) /\ out \in Seq(Header)
  BY ListsAreSequences
<1>4. Named(block) = Named(out) \cup {i} /\ block # <<>> /\ block \in Seq(Header)
  BY <1>2, <1>3, NamedAppend
<1> HIDE DEF block
<1>5. Whole(index_file) /\ kept \subseteq DOMAIN headers_index
  BY <1>1 DEF KeptInv, StageOK, InMemory
<1>6. \A j \in DOMAIN headers_index :
          j <= i => j \in ReadableIds(index_file) \cup Named(block)
  <2> SUFFICES ASSUME NEW j \in DOMAIN headers_index, j <= i
               PROVE  j \in ReadableIds(index_file) \cup Named(block)
    OBVIOUS
  <2>1. j \in Nat /\ i \in Nat /\ pos \in Nat
    BY ListsAreSequences
  <2>2. CASE j <= pos
    BY <1>1, <1>4, <2>2 DEF KeptInv, Looped
  <2>3. CASE j > pos
    <3>1. j = i
      BY <1>1, <2>1, <2>3
    <3> QED
      BY <1>4, <3>1
  <2> QED
    BY <2>1, <2>2, <2>3
<1>7. /\ ReadableIds(index_file) \subseteq ReadableIds(Append(index_file, block))
      /\ Whole(Append(index_file, block))
      /\ Named(block) \subseteq ReadableIds(Append(index_file, block))
  BY <1>3, <1>4, <1>5, AppendReadable DEF Torn
<1>8. KeptSurvives' /\ InMemory'
  BY <1>1, <1>5 DEF KeptSurvives, InMemory
<1>9. StageOK'
  <2>1. Whole(index_file')
    BY <1>1, <1>5, <1>7
  <2>2. out' # <<>> => \E j \in DOMAIN headers_index : j > i
    <3>1. \A j \in DOMAIN headers_index : j \in Nat /\ i \in Nat
      BY ListsAreSequences
    <3> QED
      BY <1>1, <3>1
  <2> QED
    BY <1>1, <2>1, <2>2 DEF KeptInv, StageOK
<1>10. Looped'
  <2>1. CASE index_file' = Append(index_file, block) /\ out' = <<>>
    BY <1>1, <1>6, <1>7, <2>1 DEF Looped
  <2>2. CASE index_file' = index_file /\ out' = block
    BY <1>1, <1>6, <2>2 DEF Looped
  <2> QED
    BY <1>1, <2>1, <2>2
<1> QED
  BY <1>8, <1>9, <1>10 DEF KeptInv

LEMMA EndSaveKept == Inv /\ KeptInv /\ EndSave => KeptInv'
<1> SUFFICES ASSUME Inv, KeptInv, EndSave PROVE KeptInv'
  OBVIOUS
<1>1. /\ UNCHANGED <<index_file, headers_index, local_loaded, tmp_headers, out, kept>>
      /\ at = "save" /\ at' = after /\ after' = "idle"
      /\ \A j \in DOMAIN headers_index : j <= pos
  BY DEF EndSave, files, memory, history
<1>2. kept \subseteq DOMAIN headers_index /\ after \in {"idle", "trim", "drop"}
  BY <1>1 DEF KeptInv, InMemory, StageOK
<1>3. out = <<>>
  <2>1. \A j \in DOMAIN headers_index : j \in Nat /\ pos \in Nat
    BY ListsAreSequences
  <2>2. ~\E j \in DOMAIN headers_index : j > pos
    BY <1>1, <2>1
  <2> QED
    BY <1>1, <2>2 DEF KeptInv, StageOK
<1>4. DOMAIN headers_index \subseteq ReadableIds(index_file)
  BY <1>1, <1>3, NamedEmpty DEF KeptInv, Looped
<1>5. KeptSurvives'
  BY <1>1, <1>2, <1>4 DEF KeptSurvives
<1>6. StageOK' /\ InMemory' /\ Looped'
  BY <1>1, <1>2, <1>3 DEF StageOK, InMemory, Looped
<1> QED
  BY <1>5, <1>6 DEF KeptInv

\* load_from_local: what the file had is in memory when its loop ends, what memory had stays aside
LEMMA LoadKept == Inv /\ KeptInv /\ Load => KeptInv'
<1> SUFFICES ASSUME Inv, KeptInv, Load PROVE KeptInv'
  OBVIOUS
<1>1. /\ UNCHANGED <<index_file, kept>>
      /\ at = "idle" /\ at' = "load" /\ pos' = 0 /\ out' = <<>> /\ after' = "idle"
      /\ tmp_headers' = headers_index
  BY DEF Load, ToStage, files
<1>2. DOMAIN tmp_headers = {}
  BY <1>1 DEF Inv, Dropping
<1>3. KeptSurvives'
  BY <1>1, <1>2 DEF KeptInv, KeptSurvives
<1>4. StageOK' /\ InMemory'
  BY <1>1 DEF StageOK, InMemory
<1>5. Looped'
  <2>1. index_file \in Seq(Seq(Header))
    BY ListsAreSequences
  <2>2. 0 <= Len(index_file) /\ 1 .. 0 = {}
    BY <2>1
  <2> QED
    BY <1>1, <2>2 DEF Looped
<1> QED
  BY <1>3, <1>4, <1>5 DEF KeptInv

LEMMA ReadBlockKept == Inv /\ KeptInv /\ ReadBlock => KeptInv'
<1> SUFFICES ASSUME Inv, KeptInv, ReadBlock PROVE KeptInv'
  OBVIOUS
<1>1. /\ UNCHANGED <<index_file, kept, headers_index, local_loaded, tmp_headers, out, after>>
      /\ at = "load" /\ at' = "load" /\ todo = <<>> /\ pos < Len(index_file)
      /\ todo' = index_file[pos + 1] /\ pos' = pos + 1
  BY DEF ReadBlock, files, memory, history
<1>2. index_file \in Seq(Seq(Header)) /\ pos \in Nat
  BY ListsAreSequences
<1>3. KeptSurvives' /\ StageOK' /\ InMemory'
  BY <1>1 DEF KeptInv, KeptSurvives, StageOK, InMemory
<1>4. Looped'
  <2>1. pos + 1 <= Len(index_file)
    BY <1>1, <1>2
  <2>2. ASSUME NEW n \in 1 .. pos + 1
        PROVE  Named(index_file[n]) \subseteq DOMAIN headers_index \cup Named(index_file[pos + 1])
    <3>1. CASE n \in 1 .. pos
      BY <1>1, <3>1, NamedEmpty DEF KeptInv, Looped
    <3>2. CASE n = pos + 1
      BY <3>2
    <3> QED
      BY <1>2, <3>1, <3>2
  <2> QED
    BY <1>1, <2>1, <2>2 DEF Looped
<1> QED
  BY <1>3, <1>4 DEF KeptInv

LEMMA LoadNextKept == Inv /\ KeptInv /\ LoadNext => KeptInv'
<1> SUFFICES ASSUME Inv, KeptInv, LoadNext PROVE KeptInv'
  OBVIOUS
<1>1. /\ UNCHANGED <<index_file, kept, local_loaded, tmp_headers, out, after, pos>>
      /\ at = "load" /\ at' = "load" /\ todo # <<>> /\ todo' = Tail(todo)
  BY DEF LoadNext, files, history
<1>2. Good(Head(todo), live, trimmed, data_file)
  BY <1>1, ListNext DEF Inv, Todo
<1>3. DOMAIN headers_index' = DOMAIN headers_index \cup {Head(todo).id}
  BY <1>2, InsertKeeps DEF LoadNext
<1>4. Named(todo) \subseteq {Head(todo).id} \cup Named(todo')
  <2>1. Named(todo) \subseteq {Head(todo).id} \cup Named(Tail(todo))
    BY <1>1, ListsAreSequences, NamedNext
  <2> QED
    BY <1>1, <2>1
<1>5. KeptSurvives' /\ StageOK' /\ InMemory'
  BY <1>1, <1>3 DEF KeptInv, KeptSurvives, StageOK, InMemory
<1>6. Looped'
  <2>1. /\ pos <= Len(index_file)
        /\ \A n \in 1 .. pos : Named(index_file[n]) \subseteq DOMAIN headers_index \cup Named(todo)
    BY <1>1 DEF KeptInv, Looped
  <2>2. \A n \in 1 .. pos : Named(index_file[n]) \subseteq DOMAIN headers_index' \cup Named(todo')
    BY <1>3, <1>4, <2>1
  <2> QED
    BY <1>1, <2>1, <2>2 DEF Looped
<1> QED
  BY <1>5, <1>6 DEF KeptInv

LEMMA EndLoadKept == Inv /\ KeptInv /\ EndLoad => KeptInv'
<1> SUFFICES ASSUME Inv, KeptInv, EndLoad PROVE KeptInv'
  OBVIOUS
<1>1. /\ UNCHANGED <<index_file, kept, headers_index, local_loaded, tmp_headers, out>>
      /\ at = "load" /\ at' = "reinsert" /\ todo = <<>> /\ pos' = 0
      /\ pos < Len(index_file) => index_file[pos + 1] = Torn
      /\ after' \in {"truncate", "trim"}
  BY DEF EndLoad, files, memory, history
<1>2. index_file \in Seq(Seq(Header)) /\ pos \in Nat /\ pos <= Len(index_file)
  BY <1>1, ListsAreSequences DEF KeptInv, Looped
<1>3. ReadableIds(index_file) \subseteq DOMAIN headers_index
  <2> SUFFICES ASSUME NEW i \in ReadableIds(index_file) PROVE i \in DOMAIN headers_index
    OBVIOUS
  <2>1. PICK n \in 1 .. pos : i \in Named(index_file[n])
    BY <1>1, <1>2, ReadableUpTo
  <2> QED
    BY <1>1, <2>1, NamedEmpty DEF KeptInv, Looped
<1>4. KeptSurvives' /\ StageOK' /\ InMemory'
  BY <1>1 DEF KeptInv, KeptSurvives, StageOK, InMemory
<1>5. Looped'
  <2>1. \A i \in DOMAIN tmp_headers : i > 0
    BY ListsAreSequences
  <2> QED
    BY <1>1, <1>3, <2>1 DEF KeptInv, KeptSurvives, Looped
<1> QED
  BY <1>4, <1>5 DEF KeptInv

LEMMA ReinsertKept == ASSUME NEW i \in Ids PROVE Inv /\ KeptInv /\ Reinsert(i) => KeptInv'
<1> SUFFICES ASSUME Inv, KeptInv, Reinsert(i) PROVE KeptInv'
  OBVIOUS
<1>1. /\ UNCHANGED <<index_file, kept, local_loaded, tmp_headers, out, after>>
      /\ at = "reinsert" /\ at' = "reinsert" /\ pos' = i
      /\ i \in DOMAIN tmp_headers /\ \A j \in DOMAIN tmp_headers : j > pos => i <= j
  BY DEF Reinsert, IsNext, files, history
<1>2. Good(tmp_headers[i], live, trimmed, data_file) /\ tmp_headers[i].id = i
  BY <1>1 DEF Inv, Aside, GoodIndex
<1>3. DOMAIN headers_index' = DOMAIN headers_index \cup {i}
  BY <1>2, InsertKeeps DEF Reinsert
<1>4. KeptSurvives' /\ StageOK' /\ InMemory'
  BY <1>1, <1>3 DEF KeptInv, KeptSurvives, StageOK, InMemory
<1>5. Looped'
  <2>1. \A j \in DOMAIN tmp_headers : j > pos => j = i \/ j > i
    <3>1. \A j \in DOMAIN tmp_headers : j \in Nat /\ i \in Nat
      BY ListsAreSequences
    <3> QED
      BY <1>1, <3>1
  <2>2. kept \subseteq DOMAIN headers_index' \cup {j \in DOMAIN tmp_headers : j > i}
    BY <1>1, <1>3, <2>1 DEF KeptInv, Looped
  <2> QED
    BY <1>1, <2>2 DEF Looped
<1> QED
  BY <1>4, <1>5 DEF KeptInv

LEMMA EndReinsertKept == Inv /\ KeptInv /\ EndReinsert => KeptInv'
<1> SUFFICES ASSUME Inv, KeptInv, EndReinsert PROVE KeptInv'
  OBVIOUS
<1>1. /\ UNCHANGED <<index_file, kept, headers_index, local_loaded, out>>
      /\ at = "reinsert" /\ at' = after /\ \A j \in DOMAIN tmp_headers : j <= pos
      /\ after' \in {"trim", "idle"}
  BY DEF EndReinsert, files, history
<1>2. at' \in {"truncate", "trim"} /\ out = <<>>
  BY <1>1 DEF KeptInv, StageOK
<1>3. kept \subseteq DOMAIN headers_index
  <2>1. \A j \in DOMAIN tmp_headers : ~(j > pos)
    <3>1. \A j \in DOMAIN tmp_headers : j \in Nat /\ pos \in Nat
      BY ListsAreSequences
    <3> QED
      BY <1>1, <3>1
  <2> QED
    BY <1>1, <2>1 DEF KeptInv, Looped
<1>4. KeptSurvives' /\ StageOK' /\ InMemory' /\ Looped'
  BY <1>1, <1>2, <1>3 DEF KeptInv, KeptSurvives, StageOK, InMemory, Looped
<1> QED
  BY <1>4 DEF KeptInv

\* removal: the file is rewritten when an id goes, and what goes is not kept
LEMMA DeleteKept ==
    ASSUME Inv, NEW to \in Ids \cup {NoId}, Delete(to)
    PROVE  /\ kept' \subseteq kept /\ at' \in {"truncate", "idle"}
           /\ \A i \in kept' : i \in DOMAIN headers_index => i \in DOMAIN headers_index'
           /\ at' = "truncate" => kept' \subseteq DOMAIN headers_index'
<1>1. /\ headers_index' = DeleteUpTo(headers_index, to)
      /\ at' = IF DeleteRewrites(headers_index, to) THEN "truncate" ELSE "idle"
      /\ kept' = IF DeleteRewrites(headers_index, to) THEN kept \cap DOMAIN headers_index'
                 ELSE kept
  BY DEF Delete
<1>2. DOMAIN DeleteUpTo(headers_index, to) = {k \in DOMAIN headers_index : k > to}
  BY DEF DeleteUpTo
<1>3. CASE DeleteRewrites(headers_index, to)
  BY <1>1, <1>3
<1>4. CASE ~DeleteRewrites(headers_index, to)
  <2>1. \A k \in DOMAIN headers_index : k > to
    <3>1. \A k \in DOMAIN headers_index : k # to /\ ~(k < to)
      BY <1>4 DEF DeleteRewrites
    <3>2. \A k \in DOMAIN headers_index : k \in Int /\ to \in Int
      BY ListsAreSequences DEF NoId
    <3> QED
      BY <3>1, <3>2
  <2> QED
    BY <1>1, <1>2, <1>4, <2>1
<1> QED
  BY <1>3, <1>4

LEMMA RemovalKept ==
    ASSUME Inv, KeptInv, Trim \/ (\E i \in Ids : DeleteMessagesUpTo(i))
    PROVE  KeptInv'
<1>1. /\ UNCHANGED <<index_file, local_loaded, tmp_headers, out>>
      /\ at \in {"trim", "idle"} /\ after' = "idle"
  BY DEF Trim, DeleteMessagesUpTo, files
<1>2. /\ kept' \subseteq kept /\ at' \in {"truncate", "idle"}
      /\ \A i \in kept' : i \in DOMAIN headers_index => i \in DOMAIN headers_index'
      /\ at' = "truncate" => kept' \subseteq DOMAIN headers_index'
  <2>1. CASE \E to \in Ids \cup {NoId} : Delete(to)
    BY <2>1, DeleteKept
  <2>2. CASE at' = "idle" /\ UNCHANGED <<headers_index, kept>>
    BY <2>2
  <2>3. del_up_to \in Ids \cup {NoId}
    BY DEF Inv, Basics
  <2> QED
    BY <2>1, <2>2, <2>3 DEF Trim, DeleteMessagesUpTo
<1>3. kept' \subseteq DOMAIN headers_index' \cup ReadableIds(index_file)
  <2>1. DOMAIN tmp_headers = {}
    BY <1>1 DEF Inv, Dropping
  <2> QED
    BY <1>2, <2>1 DEF KeptInv, KeptSurvives
<1>4. KeptSurvives'
  BY <1>1, <1>2, <1>3 DEF KeptInv, KeptSurvives
<1>5. StageOK' /\ InMemory' /\ Looped'
  BY <1>1, <1>2 DEF KeptInv, StageOK, InMemory, Looped
<1> QED
  BY <1>4, <1>5 DEF KeptInv

LEMMA DropHistoryKept == KeptInv /\ DropHistory => KeptInv'
<1> SUFFICES ASSUME KeptInv, DropHistory PROVE KeptInv'
  OBVIOUS
<1>1. kept' = {} /\ at' = "truncate" /\ out' = <<>> /\ after' = "drop"
  BY DEF DropHistory, ToStage
<1>2. KeptSurvives' /\ StageOK' /\ InMemory' /\ Looped'
  BY <1>1 DEF KeptSurvives, StageOK, InMemory, Looped
<1> QED
  BY <1>2 DEF KeptInv

LEMMA OptimizeKept == KeptInv /\ Optimize => KeptInv'
<1> SUFFICES ASSUME KeptInv, Optimize PROVE KeptInv'
  OBVIOUS
<1>1. /\ kept' = kept \cap DOMAIN headers_index' /\ UNCHANGED index_file
      /\ at = "idle" /\ at' = "truncate" /\ out' = <<>> /\ after' = "idle"
  BY DEF Optimize, BeginSave, Begin, files
<1>2. KeptSurvives' /\ StageOK' /\ InMemory' /\ Looped'
  BY <1>1 DEF KeptInv, KeptSurvives, StageOK, InMemory, Looped
<1> QED
  BY <1>2 DEF KeptInv

\* loss of memory: the file has what was kept, or it is not whole and what it has is what is kept
LEMMA ForgottenKept ==
    ASSUME KeptInv, KeptInFile, Forget,
           \/ UNCHANGED index_file
           \/ ~Whole(index_file'),
           at' = "idle", out' = <<>>, after' \in {"idle", "trim", "drop"}
    PROVE  KeptInv'
<1>1. kept' \subseteq ReadableIds(index_file')
  <2>1. CASE Whole(index_file') /\ at # "save"
    <3>1. index_file' = index_file /\ kept' = kept
      BY <2>1 DEF KeptInFile
    <3> QED
      BY <2>1, <3>1 DEF KeptInv, KeptSurvives
  <2>2. CASE ~(Whole(index_file') /\ at # "save")
    BY <2>2 DEF KeptInFile
  <2> QED
    BY <2>1, <2>2
<1>2. KeptSurvives'
  BY <1>1 DEF KeptSurvives
<1>3. StageOK' /\ InMemory' /\ Looped'
  BY DEF Forget, StageOK, InMemory, Looped
<1> QED
  BY <1>2, <1>3 DEF KeptInv

LEMMA TornIsNotWhole == Inv => ~Whole(Append(index_file, Torn))
<1> SUFFICES ASSUME Inv PROVE ~Whole(Append(index_file, Torn))
  OBVIOUS
<1>1. index_file \in Seq(Seq(Header)) /\ Torn \in Seq(Header)
  BY ListsAreSequences DEF Torn
<1> QED
  BY <1>1, AppendReadable

LEMMA FreeKept == KeptInv /\ Free => KeptInv'
<1> SUFFICES ASSUME KeptInv, Free PROVE KeptInv'
  OBVIOUS
<1>1. UNCHANGED <<index_file, at, out, after>> /\ at = "idle" /\ KeptInFile /\ Forget
  BY DEF Free, files, job
<1>2. out = <<>> /\ after \in {"idle", "trim", "drop"}
  BY <1>1 DEF KeptInv, StageOK
<1>3. at' = "idle" /\ out' = <<>> /\ after' \in {"idle", "trim", "drop"}
  BY <1>1, <1>2
<1> QED
  BY <1>1, <1>3, ForgottenKept

LEMMA CrashKept == Inv /\ KeptInv /\ Crash => KeptInv'
<1> SUFFICES ASSUME Inv, KeptInv, Crash PROVE KeptInv'
  OBVIOUS
<1>1. /\ at' = "idle" /\ out' = <<>> /\ after' = "idle" /\ KeptInFile /\ Forget
      /\ UNCHANGED index_file \/ index_file' = Append(index_file, Torn)
  BY DEF Crash, ToStage, files
<1>2. UNCHANGED index_file \/ ~Whole(index_file')
  BY <1>1, TornIsNotWhole
<1>3. after' \in {"idle", "trim", "drop"}
  BY <1>1
<1> QED
  BY <1>1, <1>2, <1>3, ForgottenKept

LEMMA WriteFailsKept == Inv /\ KeptInv /\ WriteFails => KeptInv'
<1> SUFFICES ASSUME Inv, KeptInv, WriteFails PROVE KeptInv'
  OBVIOUS
<1>1. /\ UNCHANGED <<headers_index, local_loaded, tmp_headers, kept>>
      /\ at' = after /\ out' = <<>>
      /\ after' = IF after = "trim" THEN "idle" ELSE after
      /\ at \in {"data", "insert", "save"}
      /\ \/ index_file' = index_file /\ at = "data"
         \/ index_file' = Append(index_file, Torn)
  BY DEF WriteFails, WritesData, WritesIndex, memory, history
<1>2. at' \in {"idle", "trim", "drop"} /\ after' \in {"idle", "trim", "drop"}
  BY <1>1 DEF KeptInv, StageOK
<1>3. Torn \in Seq(Header) /\ index_file \in Seq(Seq(Header))
  BY ListsAreSequences DEF Torn
<1>4. ReadableIds(index_file) \subseteq ReadableIds(Append(index_file, Torn))
      /\ ~Whole(Append(index_file, Torn))
  BY <1>3, AppendReadable
<1>5. KeptSurvives'
  <2>1. CASE index_file' = index_file /\ at = "data"
    BY <1>1, <2>1 DEF KeptInv, KeptSurvives
  <2>2. CASE index_file' = Append(index_file, Torn)
    BY <1>1, <1>4, <2>2 DEF KeptInv, KeptSurvives
  <2> QED
    BY <1>1, <2>1, <2>2
<1>6. StageOK' /\ InMemory' /\ Looped'
  BY <1>1, <1>2 DEF KeptInv, StageOK, InMemory, Looped
<1> QED
  BY <1>5, <1>6 DEF KeptInv

LEMMA InitKept == Init => KeptInv
<1> SUFFICES ASSUME Init PROVE KeptInv
  OBVIOUS
<1> USE DEF Init
<1>1. KeptSurvives /\ StageOK /\ InMemory /\ Looped
  BY DEF KeptSurvives, StageOK, InMemory, Looped
<1> QED
  BY <1>1 DEF KeptInv

LEMMA NextKept == Inv /\ KeptInv /\ [Next]_vars => KeptInv'
<1> SUFFICES ASSUME Inv, KeptInv, [Next]_vars PROVE KeptInv'
  OBVIOUS
<1>1. CASE Next
  BY <1>1, ServerKept, FilterKept, RewriteKept, WriteDataKept, EndDataKept, InsertNextKept,
     SaveBlockKept, TruncateKept, SaveHeaderKept, EndSaveKept, LoadKept, ReadBlockKept,
     LoadNextKept, EndLoadKept, ReinsertKept, EndReinsertKept, RemovalKept, DropHistoryKept,
     DropDataKept, OptimizeKept, InvalidateKept, FreeKept, WriteFailsKept, CrashKept
     DEF Next
<1>2. CASE UNCHANGED vars
  <2>1. UNCHANGED <<index_file, headers_index, local_loaded, at, todo, out, tmp_headers, pos,
                    after, kept>>
    BY <1>2 DEF vars, files, memory, job, history
  <2>2. KeptSurvives' /\ StageOK' /\ InMemory' /\ Looped'
    BY <2>1 DEF KeptInv, KeptSurvives, StageOK, InMemory, Looped
  <2> QED
    BY <2>2 DEF KeptInv
<1> QED
  BY <1>1, <1>2

\* A message that update_history reported as stored is in memory or in the readable part of the
\* file, and in the file while it is whole and not being rewritten: through re-loads after a torn
\* block, the rewriting by save_all, and any crash or failed write.
THEOREM StoredSurvives == Spec => []KeptSurvives
<1>1. Init => Inv /\ KeptInv
  BY InitInv, InitKept
<1>2. Inv /\ KeptInv /\ [Next]_vars => Inv' /\ KeptInv'
  BY NextInv, NextKept
<1>3. KeptInv => KeptSurvives
  BY DEF KeptInv
<1> QED
  BY <1>1, <1>2, <1>3, PTL DEF Spec

==============================================================================
