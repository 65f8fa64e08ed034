----------------------------- MODULE QueueLemmas ------------------------------
(***************************************************************************)
(* Facts about sequences in which an element occurs once, and about those  *)
(* kept by priority: what an insertion, a removal, a suffix and a          *)
(* concatenation hold.  The send thread and the HTTP engine keep their     *)
(* queues so.                                                              *)
(***************************************************************************)
EXTENDS Naturals, Sequences, SequencesExt, SequenceTheorems, WellFoundedInduction, TLAPS

Distinct(q) == \A i, j \in DOMAIN q : q[i] = q[j] => i = j
In(q, p) == \E i \in DOMAIN q : q[i] = p

(***************************************************************************)
(* Insertion into a sequence.                                              *)
(***************************************************************************)
LEMMA LeastNat ==
  ASSUME NEW T, T \subseteq Nat, T # {}
  PROVE  \E x \in T : \A y \in T : x <= y
<1> DEFINE R == OpToRel(<, Nat)
<1>1. \A x, y \in Nat : <<y, x>> \in R <=> y < x
  BY DEF OpToRel
<1>2. IsWellFoundedOn(R, Nat)
  BY NatLessThanWellFounded
<1> HIDE DEF R
<1>3. PICK x \in T : \A y \in T : ~(<<y, x>> \in R)
  BY <1>2, WFMin, Zenon
<1>4. \A y \in T : ~(y < x)
  BY <1>1, <1>3
<1>5. \A y \in T : x <= y
  BY <1>4
<1> QED
  BY <1>5

Inserted(q, at, e, r) ==
  /\ Len(r) = Len(q) + 1
  /\ \A i \in 1..(Len(q) + 1) : r[i] = IF i < at THEN q[i] ELSE IF i = at THEN e ELSE q[i - 1]

LEMMA InsertAtFacts ==
  ASSUME NEW S, NEW q \in Seq(S), NEW e \in S, NEW at \in 1..(Len(q) + 1)
  PROVE  InsertAt(q, at, e) \in Seq(S) /\ Inserted(q, at, e, InsertAt(q, at, e))
<1> DEFINE a == SubSeq(q, 1, at - 1)
           b == SubSeq(q, at, Len(q))
           c == a \o <<e>>
<1>1. a \in Seq(S) /\ Len(a) = at - 1 /\ \A i \in 1..(at - 1) : a[i] = q[i]
  OBVIOUS
<1>2. b \in Seq(S) /\ Len(b) = Len(q) + 1 - at
      /\ \A i \in 1..(Len(q) + 1 - at) : b[i] = q[at + i - 1]
  OBVIOUS
<1>3. InsertAt(q, at, e) = c \o b
  BY DEF InsertAt
<1> HIDE DEF a, b
<1>4. c \in Seq(S) /\ Len(c) = at /\ c[at] = e /\ \A i \in 1..(at - 1) : c[i] = q[i]
  BY <1>1
<1> HIDE DEF c
<1>5. /\ c \o b \in Seq(S)
      /\ Len(c \o b) = Len(c) + Len(b)
      /\ \A i \in 1..(Len(c) + Len(b)) : (c \o b)[i] = IF i <= Len(c) THEN c[i] ELSE b[i - Len(c)]
  BY <1>2, <1>4, ConcatProperties, Zenon
<1>6. Len(c) + Len(b) = Len(q) + 1
  BY <1>2, <1>4
<1>7. ASSUME NEW i \in 1..(Len(q) + 1)
      PROVE (c \o b)[i] = IF i < at THEN q[i] ELSE IF i = at THEN e ELSE q[i - 1]
  <2>0. i <= at \/ i > at
    OBVIOUS
  <2>1. CASE i <= at
    <3>1. (c \o b)[i] = c[i]
      BY <2>1, <1>4, <1>5, <1>6
    <3>2. i = at \/ i \in 1..(at - 1)
      BY <2>1
    <3> QED
      BY <3>1, <3>2, <1>4
  <2>2. CASE i > at
    <3>1. (c \o b)[i] = b[i - at] /\ i - at \in 1..(Len(q) + 1 - at)
      BY <2>2, <1>4, <1>5, <1>6
    <3>2. at + (i - at) - 1 = i - 1
      OBVIOUS
    <3> QED
      BY <2>2, <3>1, <3>2, <1>2
  <2> QED
    BY <2>0, <2>1, <2>2, Zenon
<1> QED
  BY <1>3, <1>5, <1>6, <1>7 DEF Inserted
\* Where the elements of a sequence are after an insertion.
Shifted(S, q, at, p, r) ==
  /\ r \in Seq(S) /\ Len(r) = Len(q) + 1 /\ r[at] = p
  /\ \A i \in 1..Len(r) : i < at => i \in 1..Len(q) /\ r[i] = q[i]
  /\ \A i \in 1..Len(r) : i > at => i - 1 \in 1..Len(q) /\ r[i] = q[i - 1]
  /\ \A i \in 1..Len(q) : i < at => i \in 1..Len(r) /\ r[i] = q[i]
  /\ \A i \in 1..Len(q) : i >= at => i + 1 \in 1..Len(r) /\ r[i + 1] = q[i]

LEMMA InsertMoves ==
  ASSUME NEW S, NEW q \in Seq(S), NEW p \in S, NEW at \in 1..(Len(q) + 1),
         NEW r, r = InsertAt(q, at, p)
  PROVE  Shifted(S, q, at, p, r)
<1>0. r \in Seq(S) /\ Inserted(q, at, p, r)
  BY InsertAtFacts
<1>1. /\ r \in Seq(S) /\ Len(r) = Len(q) + 1
      /\ \A i \in 1..(Len(q) + 1) : r[i] = IF i < at THEN q[i] ELSE IF i = at THEN p ELSE q[i - 1]
  BY <1>0 DEF Inserted
<1>2. at \in Int /\ Len(q) \in Nat
  OBVIOUS
<1>3. \A i \in 1..Len(r) : i < at => i \in 1..Len(q) /\ r[i] = q[i]
  BY <1>1, <1>2
<1>4. \A i \in 1..Len(r) : i > at => i - 1 \in 1..Len(q) /\ r[i] = q[i - 1]
  BY <1>1, <1>2
<1>5. ASSUME NEW i \in 1..Len(q), i >= at PROVE i + 1 \in 1..Len(r) /\ r[i + 1] = q[i]
  <2>1. i + 1 \in 1..Len(r) /\ i + 1 > at /\ (i + 1) - 1 = i
    BY <1>1, <1>2, <1>5
  <2> QED
    BY <1>4, <2>1
<1>6. \A i \in 1..Len(q) : i < at => i \in 1..Len(r) /\ r[i] = q[i]
  BY <1>1, <1>2
<1> QED
  BY <1>1, <1>3, <1>4, <1>5, <1>6 DEF Shifted

LEMMA InsertKeepsDistinct ==
  ASSUME NEW S, NEW q \in Seq(S), NEW p \in S, NEW at \in 1..(Len(q) + 1),
         NEW r, r = InsertAt(q, at, p), Distinct(q), ~In(q, p)
  PROVE  Distinct(r) /\ \A u \in S : In(r, u) <=> u = p \/ In(q, u)
<1>0. Shifted(S, q, at, p, r)
  BY InsertMoves
<1>1. /\ r \in Seq(S) /\ Len(r) = Len(q) + 1 /\ r[at] = p
      /\ \A i \in 1..Len(r) : i < at => i \in 1..Len(q) /\ r[i] = q[i]
      /\ \A i \in 1..Len(r) : i > at => i - 1 \in 1..Len(q) /\ r[i] = q[i - 1]
      /\ \A i \in 1..Len(q) : i < at => i \in 1..Len(r) /\ r[i] = q[i]
      /\ \A i \in 1..Len(q) : i >= at => i + 1 \in 1..Len(r) /\ r[i + 1] = q[i]
  BY <1>0 DEF Shifted
<1>2. at \in 1..Len(r) /\ DOMAIN r = 1..Len(r) /\ DOMAIN q = 1..Len(q)
  BY <1>1
<1> DEFINE from(i) == IF i < at THEN i ELSE i - 1
<1>3. ASSUME NEW i \in 1..Len(r), i # at
      PROVE  from(i) \in DOMAIN q /\ r[i] = q[from(i)] /\ r[i] # p
  <2>1. CASE i < at
    <3>1. i \in DOMAIN q /\ r[i] = q[i]
      BY <1>1, <1>2, <2>1
    <3> QED
      BY <2>1, <3>1 DEF In
  <2>2. CASE i > at
    <3>1. i - 1 \in DOMAIN q /\ r[i] = q[i - 1] /\ ~(i < at)
      BY <1>1, <1>2, <2>2
    <3> QED
      BY <3>1 DEF In
  <2> QED
    BY <1>2, <1>3, <2>1, <2>2
<1>m. ASSUME NEW i \in 1..Len(r), NEW j \in 1..Len(r), i # at, j # at, from(i) = from(j)
      PROVE  i = j
  <2>1. i \in Int /\ j \in Int /\ at \in Int
    OBVIOUS
  <2> QED
    BY <1>m, <2>1
<1> HIDE DEF from
<1>4. ASSUME NEW i \in 1..Len(r), NEW j \in 1..Len(r), r[i] = r[j] PROVE i = j
  <2>1. CASE i = at \/ j = at
    BY <1>1, <1>3, <1>4, <2>1
  <2>2. CASE i # at /\ j # at
    <3>1. from(i) = from(j)
      BY <1>3, <1>4, <2>2 DEF Distinct
    <3> QED
      BY <1>m, <2>2, <3>1
  <2> QED
    BY <2>1, <2>2
<1>5. ASSUME NEW u \in S, In(r, u) PROVE u = p \/ In(q, u)
  <2>1. PICK i \in 1..Len(r) : r[i] = u
    BY <1>2, <1>5 DEF In
  <2>2. CASE i = at
    BY <1>1, <2>1, <2>2
  <2>3. CASE i # at
    BY <1>3, <2>1, <2>3 DEF In
  <2> QED
    BY <2>2, <2>3
<1>6. ASSUME NEW u \in S, In(q, u) PROVE In(r, u)
  <2>1. PICK i \in 1..Len(q) : q[i] = u
    BY <1>2, <1>6 DEF In
  <2>2. \/ i < at /\ i \in DOMAIN r /\ r[i] = u
        \/ i + 1 \in DOMAIN r /\ r[i + 1] = u
    <3>1. i < at \/ i >= at
      OBVIOUS
    <3> QED
      BY <1>1, <1>2, <2>1, <3>1
  <2> QED
    BY <2>2 DEF In
<1>7. In(r, p)
  BY <1>1, <1>2 DEF In
<1> QED
  BY <1>2, <1>4, <1>5, <1>6, <1>7 DEF Distinct

\* What is left of a list without its head.
LEMMA TailFacts ==
  ASSUME NEW S, NEW q \in Seq(S), q # <<>>, Distinct(q)
  PROVE  /\ Head(q) \in S /\ Tail(q) \in Seq(S) /\ In(q, Head(q))
         /\ Distinct(Tail(q)) /\ \A u \in S : In(Tail(q), u) <=> In(q, u) /\ u # Head(q)
<1> DEFINE p == Head(q)
           r == Tail(q)
<1>1. /\ p \in S /\ r \in Seq(S) /\ Len(r) = Len(q) - 1
      /\ p = q[1] /\ 1 \in DOMAIN q
      /\ \A i \in DOMAIN r : i \in Int /\ i >= 1 /\ i + 1 \in DOMAIN q /\ r[i] = q[i + 1]
      /\ \A i \in DOMAIN q : i # 1 => i - 1 \in DOMAIN r /\ r[i - 1] = q[i]
  OBVIOUS
<1> HIDE DEF p, r
<1>2. ASSUME NEW i \in DOMAIN r, NEW j \in DOMAIN r, r[i] = r[j] PROVE i = j
  <2>1. i + 1 = j + 1
    BY <1>1, <1>2 DEF Distinct
  <2> QED
    BY <1>1, <2>1
<1>3. ASSUME NEW u \in S, In(r, u) PROVE In(q, u) /\ u # p
  <2>1. PICK i \in DOMAIN r : r[i] = u
    BY <1>3 DEF In
  <2>2. i + 1 \in DOMAIN q /\ q[i + 1] = u /\ i + 1 # 1
    BY <1>1, <2>1
  <2> QED
    BY <1>1, <2>2 DEF In, Distinct
<1>4. ASSUME NEW u \in S, In(q, u), u # p PROVE In(r, u)
  BY <1>1, <1>4 DEF In
<1>5. In(q, p)
  BY <1>1 DEF In
<1> QED
  BY <1>1, <1>2, <1>3, <1>4, <1>5 DEF p, r, Distinct

LEMMA AppendFacts ==
  ASSUME NEW S, NEW q \in Seq(S), NEW p \in S, Distinct(q), ~In(q, p)
  PROVE  /\ Append(q, p) \in Seq(S)
         /\ Distinct(Append(q, p)) /\ \A u \in S : In(Append(q, p), u) <=> In(q, u) \/ u = p
<1> DEFINE r == Append(q, p)
<1>1. /\ r \in Seq(S) /\ DOMAIN q = 1..Len(q) /\ DOMAIN r = 1..(Len(q) + 1)
      /\ r[Len(q) + 1] = p /\ \A i \in 1..Len(q) : r[i] = q[i]
  OBVIOUS
<1> HIDE DEF r
<1>2. Len(q) \in Nat /\ Len(q) + 1 \in DOMAIN r /\ \A i \in DOMAIN r : i = Len(q) + 1 \/ i \in DOMAIN q
  BY <1>1
<1>3. \A i \in DOMAIN q : i \in DOMAIN r /\ r[i] = q[i] /\ r[i] # p
  BY <1>1 DEF In
<1>4. Distinct(r)
  BY <1>1, <1>2, <1>3 DEF Distinct
<1>5. \A u \in S : In(r, u) <=> In(q, u) \/ u = p
  BY <1>1, <1>2, <1>3 DEF In
<1> QED
  BY <1>1, <1>4, <1>5 DEF r

LEMMA ConcatFacts ==
  ASSUME NEW S, NEW a \in Seq(S), NEW b \in Seq(S), Distinct(a), Distinct(b),
         \A u \in S : ~(In(a, u) /\ In(b, u))
  PROVE  /\ a \o b \in Seq(S) /\ Distinct(a \o b)
         /\ \A u \in S : In(a \o b, u) <=> In(a, u) \/ In(b, u)
<1> DEFINE c == a \o b
<1>1. /\ c \in Seq(S) /\ Len(c) = Len(a) + Len(b)
      /\ \A i \in 1..(Len(a) + Len(b)) : c[i] = IF i <= Len(a) THEN a[i] ELSE b[i - Len(a)]
  BY ConcatProperties
<1> HIDE DEF c
<1>2. /\ Len(a) \in Nat /\ Len(b) \in Nat
      /\ DOMAIN a = 1..Len(a) /\ DOMAIN b = 1..Len(b) /\ DOMAIN c = 1..(Len(a) + Len(b))
  BY <1>1
<1>3. ASSUME NEW i \in DOMAIN c
      PROVE  \/ i \in DOMAIN a /\ c[i] = a[i] /\ c[i] \in S
             \/ i > Len(a) /\ i - Len(a) \in DOMAIN b /\ c[i] = b[i - Len(a)] /\ c[i] \in S
  BY <1>1, <1>2
<1>4. \A i \in DOMAIN a : i \in DOMAIN c /\ c[i] = a[i]
  BY <1>1, <1>2
<1>5. \A i \in DOMAIN b : i + Len(a) \in DOMAIN c /\ c[i + Len(a)] = b[i]
  BY <1>1, <1>2
<1>6. ASSUME NEW i \in DOMAIN c, NEW j \in DOMAIN c, c[i] = c[j] PROVE i = j
  <2>1. CASE i \in DOMAIN a /\ c[i] = a[i] /\ j \in DOMAIN a /\ c[j] = a[j]
    BY <1>6, <2>1 DEF Distinct
  <2>2. CASE i \in DOMAIN a /\ c[i] = a[i] /\ j - Len(a) \in DOMAIN b /\ c[j] = b[j - Len(a)]
    BY <1>3, <1>6, <2>2 DEF In
  <2>3. CASE j \in DOMAIN a /\ c[j] = a[j] /\ i - Len(a) \in DOMAIN b /\ c[i] = b[i - Len(a)]
    BY <1>3, <1>6, <2>3 DEF In
  <2>4. CASE /\ i - Len(a) \in DOMAIN b /\ c[i] = b[i - Len(a)]
             /\ j - Len(a) \in DOMAIN b /\ c[j] = b[j - Len(a)]
    <3>1. i - Len(a) = j - Len(a)
      BY <1>6, <2>4 DEF Distinct
    <3> QED
      BY <1>2, <3>1
  <2> QED
    BY <1>3, <2>1, <2>2, <2>3, <2>4
<1>7. ASSUME NEW u \in S PROVE In(c, u) <=> In(a, u) \/ In(b, u)
  <2>1. In(c, u) => In(a, u) \/ In(b, u)
    BY <1>3 DEF In
  <2>2. In(a, u) => In(c, u)
    BY <1>4 DEF In
  <2>3. In(b, u) => In(c, u)
    BY <1>5 DEF In
  <2> QED
    BY <2>1, <2>2, <2>3
<1> QED
  BY <1>1, <1>6, <1>7 DEF c, Distinct
(***************************************************************************)
(* Insertion by priority.                                                  *)
(***************************************************************************)
SortedBy(Pri, q) == \A i, j \in 1..Len(q) : i < j => Pri[q[i]] <= Pri[q[j]]

LaterIn(Pri, q, p) == {i \in 1..Len(q) : Pri[p] < Pri[q[i]]}
PlaceIn(Pri, q, p) ==
  IF LaterIn(Pri, q, p) = {} THEN Len(q) + 1
  ELSE CHOOSE i \in LaterIn(Pri, q, p) : \A j \in LaterIn(Pri, q, p) : i <= j

\* An element is inserted before the first less urgent one.
LEMMA InsertPlace ==
  ASSUME NEW S, NEW Pri \in [S -> Nat], NEW q \in Seq(S), NEW p \in S
  PROVE  /\ PlaceIn(Pri, q, p) \in 1..(Len(q) + 1)
         /\ \A i \in 1..Len(q) : i < PlaceIn(Pri, q, p) => Pri[q[i]] <= Pri[p]
         /\ PlaceIn(Pri, q, p) <= Len(q) => Pri[p] < Pri[q[PlaceIn(Pri, q, p)]]
<1>1. Pri[p] \in Nat /\ \A i \in 1..Len(q) : Pri[q[i]] \in Nat
  OBVIOUS
<1>2. CASE LaterIn(Pri, q, p) = {}
  <2>1. PlaceIn(Pri, q, p) = Len(q) + 1
    BY <1>2 DEF PlaceIn
  <2>2. \A i \in 1..Len(q) : Pri[q[i]] <= Pri[p]
    BY <1>1, <1>2 DEF LaterIn
  <2> QED
    BY <2>1, <2>2
<1>3. CASE LaterIn(Pri, q, p) # {}
  <2>1. LaterIn(Pri, q, p) \subseteq Nat
    BY DEF LaterIn
  <2>2. PlaceIn(Pri, q, p) \in LaterIn(Pri, q, p) /\ \A j \in LaterIn(Pri, q, p) : PlaceIn(Pri, q, p) <= j
    BY <1>3, <2>1, LeastNat DEF PlaceIn
  <2>3. PlaceIn(Pri, q, p) \in 1..Len(q) /\ Pri[p] < Pri[q[PlaceIn(Pri, q, p)]]
    BY <2>2 DEF LaterIn
  <2>4. ASSUME NEW i \in 1..Len(q), i < PlaceIn(Pri, q, p) PROVE Pri[q[i]] <= Pri[p]
    <3>1. i \notin LaterIn(Pri, q, p)
      BY <2>2, <2>3, <2>4
    <3> QED
      BY <1>1, <3>1 DEF LaterIn
  <2> QED
    BY <2>3, <2>4
<1> QED
  BY <1>2, <1>3
LEMMA InsertKeepsSorted ==
  ASSUME NEW S, NEW Pri \in [S -> Nat], NEW q \in Seq(S), NEW p \in S, NEW r, r = InsertAt(q, PlaceIn(Pri, q, p), p), SortedBy(Pri, q)
  PROVE  SortedBy(Pri, r)
<1> DEFINE at == PlaceIn(Pri, q, p)
<1>1. /\ at \in 1..(Len(q) + 1)
      /\ \A i \in 1..Len(q) : i < at => Pri[q[i]] <= Pri[p]
      /\ at <= Len(q) => Pri[p] < Pri[q[at]]
  BY InsertPlace
<1>2. Pri[p] \in Nat /\ \A k \in 1..Len(q) : Pri[q[k]] \in Nat
  OBVIOUS
<1> HIDE DEF at
<1>3. r = InsertAt(q, at, p)
  BY DEF at
<1>s. Shifted(S, q, at, p, r)
  BY <1>1, <1>3, InsertMoves
<1>4. /\ r \in Seq(S) /\ Len(r) = Len(q) + 1 /\ r[at] = p
      /\ \A i \in 1..Len(r) : i < at => i \in 1..Len(q) /\ r[i] = q[i]
      /\ \A i \in 1..Len(r) : i > at => i - 1 \in 1..Len(q) /\ r[i] = q[i - 1]
  BY <1>s DEF Shifted
<1>5. ASSUME NEW k \in 1..Len(q), k >= at PROVE Pri[p] <= Pri[q[k]]
  <2>1. at \in 1..Len(q)
    BY <1>1, <1>5
  <2>2. Pri[q[at]] <= Pri[q[k]]
    BY <1>2, <1>5, <2>1 DEF SortedBy
  <2> QED
    BY <1>1, <1>2, <2>1, <2>2
<1>6. SUFFICES ASSUME NEW i \in 1..Len(r), NEW j \in 1..Len(r), i < j
               PROVE  Pri[r[i]] <= Pri[r[j]]
  BY DEF SortedBy
<1>7. CASE j < at
  <2>1. i < at /\ i \in 1..Len(q) /\ j \in 1..Len(q) /\ r[i] = q[i] /\ r[j] = q[j]
    BY <1>1, <1>4, <1>6, <1>7
  <2> QED
    BY <1>6, <2>1 DEF SortedBy
<1>8. CASE j = at
  BY <1>1, <1>4, <1>6, <1>8
<1>9. CASE i = at
  <2>1. j > at /\ j - 1 \in 1..Len(q) /\ j - 1 >= at
    BY <1>1, <1>4, <1>6, <1>9
  <2> QED
    BY <1>4, <1>5, <1>9, <2>1
<1>10. CASE i < at /\ j > at
  <2>1. i \in 1..Len(q) /\ j - 1 \in 1..Len(q) /\ j - 1 >= at
    BY <1>1, <1>4, <1>10
  <2>2. Pri[q[i]] <= Pri[p] /\ Pri[p] <= Pri[q[j - 1]]
    BY <1>1, <1>5, <1>10, <2>1
  <2>3. r[i] = q[i] /\ r[j] = q[j - 1]
    BY <1>4, <1>10
  <2>4. Pri[q[i]] \in Nat /\ Pri[q[j - 1]] \in Nat
    BY <1>2, <2>1
  <2> QED
    BY <1>2, <2>2, <2>3, <2>4
<1>11. CASE i > at
  <2>1. j > at /\ i - 1 \in 1..Len(q) /\ j - 1 \in 1..Len(q) /\ i - 1 < j - 1
    BY <1>1, <1>4, <1>6, <1>11
  <2> QED
    BY <1>4, <1>11, <2>1 DEF SortedBy
<1> QED
  BY <1>1, <1>7, <1>8, <1>9, <1>10, <1>11

(***************************************************************************)
(* Removal.                                                                *)
(***************************************************************************)
SuffixOf(S, q, n, r) ==
  /\ r \in Seq(S) /\ Len(r) = Len(q) - n
  /\ \A i \in DOMAIN r : i \in Nat /\ n + i \in DOMAIN q /\ r[i] = q[n + i]
  /\ \A i \in DOMAIN q : i <= n \/ (i - n \in DOMAIN r /\ r[i - n] = q[i])

\* A suffix keeps what distinguishes and orders its elements, and holds those
\* the prefix does not.
LEMMA SuffixFacts ==
  ASSUME NEW S, NEW q \in Seq(S), NEW n \in 0..Len(q), NEW r, r = SubSeq(q, n + 1, Len(q))
  PROVE  SuffixOf(S, q, n, r)
<1>1. n \in Nat /\ Len(q) \in Nat /\ n <= Len(q) /\ DOMAIN q = 1..Len(q)
  OBVIOUS
<1>2. r \in Seq(S) /\ Len(r) = Len(q) - n
  OBVIOUS
<1>3. DOMAIN r = 1..(Len(q) - n)
  BY <1>2
<1>4. ASSUME NEW i \in DOMAIN r PROVE i \in Nat /\ n + i \in DOMAIN q /\ r[i] = q[n + i]
  <2>1. i \in 1..(Len(q) - n)
    BY <1>3
  <2>2. SubSeq(q, n + 1, Len(q))[i] = q[(n + 1) + i - 1]
    BY <1>1, <2>1
  <2>3. (n + 1) + i - 1 = n + i
    BY <1>1, <2>1
  <2> QED
    BY <1>1, <2>1, <2>2, <2>3
<1>5. ASSUME NEW i \in DOMAIN q, ~(i <= n) PROVE i - n \in DOMAIN r /\ r[i - n] = q[i]
  <2>1. i - n \in DOMAIN r /\ n + (i - n) = i
    BY <1>1, <1>3, <1>5
  <2> QED
    BY <1>4, <2>1
<1> QED
  BY <1>2, <1>4, <1>5 DEF SuffixOf

\* Removing one place of a queue takes its element out.
LEMMA RemoveFacts ==
  ASSUME NEW S, NEW q \in Seq(S), Distinct(q), NEW k \in DOMAIN q, NEW r, r = RemoveAt(q, k)
  PROVE  /\ r \in Seq(S) /\ Distinct(r)
         /\ \A u \in S : In(r, u) <=> In(q, u) /\ u # q[k]
<1> DEFINE a == SubSeq(q, 1, k - 1)
           b == SubSeq(q, k + 1, Len(q))
<1>1. /\ k \in Nat /\ k >= 1 /\ k \in 0..Len(q) /\ DOMAIN q = 1..Len(q) /\ Len(q) \in Nat
      /\ \A i \in DOMAIN q : i \in Nat
  OBVIOUS
<1>2. /\ a \in Seq(S)
      /\ \A i \in DOMAIN a : i \in DOMAIN q /\ i < k /\ a[i] = q[i]
      /\ \A i \in DOMAIN q : i < k => i \in DOMAIN a /\ a[i] = q[i]
  BY <1>1
<1>s. SuffixOf(S, q, k, b)
  BY <1>1, SuffixFacts
<1>3. /\ b \in Seq(S)
      /\ \A i \in DOMAIN b : i \in Nat /\ k + i \in DOMAIN q /\ b[i] = q[k + i]
      /\ \A i \in DOMAIN q : i <= k \/ (i - k \in DOMAIN b /\ b[i - k] = q[i])
  BY <1>s DEF SuffixOf
<1>4. r = a \o b
  BY DEF RemoveAt
<1> HIDE DEF a, b
<1>5. Distinct(a)
  BY <1>2 DEF Distinct
<1>6. ASSUME NEW i \in DOMAIN b, NEW j \in DOMAIN b, b[i] = b[j] PROVE i = j
  <2>1. k + i = k + j
    BY <1>3, <1>6 DEF Distinct
  <2> QED
    BY <1>1, <1>3, <2>1
<1>7. ASSUME NEW i \in DOMAIN a, NEW j \in DOMAIN b PROVE a[i] # b[j]
  <2>1. i \in DOMAIN q /\ i < k /\ a[i] = q[i] /\ k + j \in DOMAIN q /\ b[j] = q[k + j] /\ j \in Nat
    BY <1>2, <1>3
  <2>2. i # k + j
    BY <1>1, <2>1
  <2> QED
    BY <2>1, <2>2 DEF Distinct
<1>8. r \in Seq(S) /\ Distinct(r) /\ \A u \in S : In(r, u) <=> In(a, u) \/ In(b, u)
  <2>1. Distinct(b)
    BY <1>6 DEF Distinct
  <2>2. \A u \in S : ~(In(a, u) /\ In(b, u))
    BY <1>7 DEF In
  <2> QED
    BY <1>2, <1>3, <1>4, <1>5, <2>1, <2>2, ConcatFacts
<1>9. ASSUME NEW u \in S, In(a, u) \/ In(b, u) PROVE In(q, u) /\ u # q[k]
  <2>1. CASE In(a, u)
    <3>1. PICK i \in DOMAIN a : a[i] = u
      BY <2>1 DEF In
    <3>2. i \in DOMAIN q /\ q[i] = u /\ i # k
      BY <1>1, <1>2, <3>1
    <3> QED
      BY <3>2 DEF In, Distinct
  <2>2. CASE In(b, u)
    <3>1. PICK i \in DOMAIN b : b[i] = u
      BY <2>2 DEF In
    <3>2. k + i \in DOMAIN q /\ q[k + i] = u
      BY <1>3, <3>1
    <3>3. i >= 1 /\ i \in Nat
      BY <1>3, <3>1
    <3>4. k + i # k
      BY <1>1, <3>3
    <3> QED
      BY <3>2, <3>4 DEF In, Distinct
  <2> QED
    BY <1>9, <2>1, <2>2
<1>10. ASSUME NEW u \in S, In(q, u), u # q[k] PROVE In(a, u) \/ In(b, u)
  <2>1. PICK i \in DOMAIN q : q[i] = u
    BY <1>10 DEF In
  <2>2. i < k \/ ~(i <= k)
    BY <1>1, <1>10, <2>1
  <2> QED
    BY <1>2, <1>3, <2>1, <2>2 DEF In
<1> QED
  BY <1>8, <1>9, <1>10

\* What is left of a queue in order is in order.
LEMMA RemoveKeepsSorted ==
  ASSUME NEW S, NEW Pri \in [S -> Nat], NEW q \in Seq(S), SortedBy(Pri, q),
         NEW k \in DOMAIN q, NEW r, r = RemoveAt(q, k)
  PROVE  SortedBy(Pri, r)
<1> DEFINE from(i) == IF i < k THEN i ELSE i + 1
           a == SubSeq(q, 1, k - 1)
           b == SubSeq(q, k + 1, Len(q))
<1>1. k \in Nat /\ k >= 1 /\ k <= Len(q) /\ k \in 0..Len(q) /\ Len(q) \in Nat
  OBVIOUS
<1>2. a \in Seq(S) /\ Len(a) = k - 1 /\ \A i \in 1..(k - 1) : a[i] = q[i]
  BY <1>1
<1>s. SuffixOf(S, q, k, b)
  BY <1>1, SuffixFacts
<1>3. b \in Seq(S) /\ Len(b) = Len(q) - k /\ DOMAIN b = 1..(Len(q) - k) /\ \A i \in DOMAIN b : b[i] = q[k + i]
  BY <1>s DEF SuffixOf
<1>r. r = a \o b
  BY DEF RemoveAt
<1> HIDE DEF a, b
<1>c. /\ a \o b \in Seq(S)
      /\ Len(a \o b) = Len(a) + Len(b)
      /\ \A i \in 1..(Len(a) + Len(b)) : (a \o b)[i] = IF i <= Len(a) THEN a[i] ELSE b[i - Len(a)]
  BY <1>2, <1>3, ConcatProperties, Zenon
<1>4. /\ Len(r) = Len(a) + Len(b)
      /\ \A i \in 1..(Len(a) + Len(b)) : r[i] = IF i <= Len(a) THEN a[i] ELSE b[i - Len(a)]
  BY <1>r, <1>c, Zenon
<1>5. ASSUME NEW i \in 1..Len(r) PROVE from(i) \in 1..Len(q) /\ r[i] = q[from(i)]
  <2>1. Len(r) = Len(q) - 1
    BY <1>1, <1>2, <1>3, <1>4
  <2>2. CASE i < k
    <3>1. i <= Len(a) /\ i \in 1..(k - 1) /\ i \in 1..(Len(a) + Len(b))
      BY <1>1, <1>2, <1>4, <2>2
    <3>2. r[i] = q[i]
      BY <1>2, <1>4, <3>1
    <3> QED
      BY <1>1, <2>1, <2>2, <3>2
  <2>3. CASE ~(i < k)
    <3>0. i \in Nat /\ i <= Len(q) - 1 /\ i >= k /\ Len(a) = k - 1 /\ Len(b) = Len(q) - k
      BY <1>1, <1>2, <1>3, <2>1, <2>3
    <3>b. \A x, y, z \in Nat : x >= y /\ x <= z - 1 => x - (y - 1) \in 1..(z - y) /\ y + (x - (y - 1)) = x + 1
      OBVIOUS
    <3>d. i - (k - 1) \in 1..(Len(q) - k) /\ k + (i - (k - 1)) = i + 1
      BY <1>1, <3>0, <3>b, Zenon
    <3>e. i + 1 \in 1..Len(q) /\ ~(i <= k - 1) /\ i \in 1..((k - 1) + (Len(q) - k))
      BY <1>1, <3>0
    <3>1. /\ i - Len(a) \in DOMAIN b /\ k + (i - Len(a)) = i + 1 /\ i + 1 \in 1..Len(q)
          /\ ~(i <= Len(a)) /\ i \in 1..(Len(a) + Len(b))
      BY <1>3, <3>0, <3>d, <3>e, Zenon
    <3>2. r[i] = q[k + (i - Len(a))]
      BY <1>3, <1>4, <3>1
    <3> QED
      BY <2>3, <3>1, <3>2
  <2> QED
    BY <2>2, <2>3
<1>6. ASSUME NEW i \in 1..Len(r), NEW j \in 1..Len(r), i < j PROVE from(i) < from(j)
  BY <1>1, <1>6
<1> HIDE DEF from
<1> QED
  BY <1>5, <1>6 DEF SortedBy
===============================================================================
