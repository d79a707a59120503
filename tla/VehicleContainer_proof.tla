----------------------- MODULE VehicleContainer_proof -----------------------
(***************************************************************************)
(* Proofs about the heap of waiting vehicles, for any vehicles, departures *)
(* and step length: type correctness, the heap order, the window in which  *)
(* a vehicle is delivered, and exactness for aligned departures.           *)
(*                                                                         *)
(* The two percolations and the loop of checkCandidates are recursive.     *)
(* Each is treated in the same way: HoleRecursion and PopsDefined show     *)
(* that the recursive function exists, and a least counterexample (LeastOf)*)
(* shows what it computes.  What the invariant needs of them is only that  *)
(* they rearrange the items and leave a heap behind.                       *)
(***************************************************************************)
EXTENDS VehicleContainer, FiniteSetTheorems, SequenceTheorems, WellFoundedInduction, TLAPS

Ordered(a) == \A i \in 2..Len(a) : a[i \div 2].first <= a[i].first

\* The items of a are apart: no two have the same time or a vehicle in common.
ItemsApart(a) ==
    \A i, j \in DOMAIN a :
        i # j => a[i].first # a[j].first /\ a[i].second \cap a[j].second = {}

\* A vehicle is filed under a time of the window that starts at its departure d[v].
Filed(a, d) == \A i \in DOMAIN a : \A v \in a[i].second :
                  d[v] # NotAdded /\ DepartFinder(a[i], d[v])

\* The time of an item is the departure of some vehicle.
AskedFor(a, d) == \A i \in DOMAIN a : \E v \in Veh : d[v] = a[i].first

ItemsInv(a, d) ==
    /\ a \in Seq(Item) /\ Ordered(a) /\ ItemsApart(a)
    /\ Filed(a, d) /\ AskedFor(a, d)

Aligned(d) == \A v \in Veh : d[v] # NotAdded => d[v] % DELTA_T = 0

HeapInv ==
    /\ TypeOK /\ ItemsInv(array, depart)
    /\ handed \subseteq Stored(array)
    /\ Aligned(depart) => Stored(array) \subseteq handed

-----------------------------------------------------------------------------
(* Least members of sets of natural numbers.                                *)

\* A set of natural numbers that is not empty has a least one.
LEMMA LeastOf ==
  ASSUME NEW n \in Nat, NEW S \in SUBSET (0..n), S # {}
  PROVE \E x \in S : \A y \in S : x <= y
<1> DEFINE Upto == {0..x : x \in S}
<1>1. IsFiniteSet(0..n)
  BY FS_Interval
<1>2. IsWellFoundedOn(StrictSubsetOrdering(0..n), SUBSET (0..n))
  BY <1>1, FS_StrictSubsetOrderingWellFounded, FS_FiniteSubsetsOfFinite
<1>3. Upto \subseteq SUBSET (0..n) /\ Upto # {}
  <2>1. \A x \in S : 0..x \in SUBSET (0..n)
    OBVIOUS
  <2>2. Upto # {}
    OBVIOUS
  <2> QED
    BY <2>1, <2>2
<1>4. \E X \in Upto : \A Y \in Upto : <<Y, X>> \notin StrictSubsetOrdering(0..n)
  <2> HIDE DEF Upto
  <2> QED BY <1>2, <1>3, WFMin
<1>5. PICK x \in S : \A y \in S : <<0..y, 0..x>> \notin StrictSubsetOrdering(0..n)
  BY <1>4
<1>6. ASSUME NEW y \in S PROVE x <= y
  <2> SUFFICES ASSUME y < x PROVE FALSE
    OBVIOUS
  <2>1. 0..y \subseteq 0..x /\ x \notin 0..y /\ x \in 0..x
    OBVIOUS
  <2>2. 0..x \in SUBSET (0..n) /\ 0..y \in SUBSET (0..n)
    OBVIOUS
  <2>3. <<0..y, 0..x>> \in StrictSubsetOrdering(0..n)
    <3> DEFINE X == 0..x
               Y == 0..y
               N == 0..n
    <3>1. X \in SUBSET N /\ Y \in SUBSET N /\ Y \subseteq X /\ Y # X
      BY <2>1, <2>2
    <3> HIDE DEF X, Y, N
    <3>2. <<Y, X>> \in StrictSubsetOrdering(N)
      BY <3>1 DEF StrictSubsetOrdering
    <3> QED
      BY <3>2 DEF X, Y, N
  <2> QED
    BY <1>5, <2>3
<1> QED
  BY <1>6

-----------------------------------------------------------------------------
(* The percolations as recursive functions.                                 *)

\* One turn of a percolation loop for each position of the hole: the hole at h of T is filled
\* and moves to q[h], else the loop ends with base[h].
HoleTurn(f, n, T, q, fill, base) ==
  [h \in 1..n |-> IF h \in T THEN [f[q[h]] EXCEPT ![h] = fill[h]] ELSE base[h]]

\* The hole leaves a position of T for one of a lower rank.
Descends(n, T, q, rank) ==
  /\ T \in SUBSET (1..n)
  /\ \A h \in 1..n : rank[h] \in 0..n
  /\ \A h \in T : q[h] \in 1..n /\ rank[q[h]] < rank[h]

\* A function from the positions of the hole to arrays exists.
LEMMA HoleRecursion ==
  ASSUME NEW n \in Nat, NEW T, NEW q, NEW rank, NEW fill, NEW base, Descends(n, T, q, rank)
  PROVE  \E f : f = HoleTurn(f, n, T, q, fill, base)
<1> SUFFICES ASSUME T \in SUBSET (1..n), \A h \in 1..n : rank[h] \in 0..n,
                    \A h \in T : q[h] \in 1..n /\ rank[q[h]] < rank[h]
             PROVE  \E f : f = HoleTurn(f, n, T, q, fill, base)
  BY DEF Descends
<1> DEFINE Turn(f, h) == IF h \in T THEN [f[q[h]] EXCEPT ![h] = fill[h]] ELSE base[h]
           Known(m) == \E f : \A h \in 1..n : rank[h] <= m => f[h] = Turn(f, h)
           Unknown == {m \in 0..n : ~Known(m)}
<1>1. ASSUME Unknown # {} PROVE FALSE
  <2>1. PICK m \in Unknown : \A k \in Unknown : m <= k
    BY <1>1, LeastOf
  <2>2. CASE m = 0
    <3> DEFINE f == [h \in 1..n |-> base[h]]
    <3>1. \A h \in 1..n : rank[h] <= 0 => h \notin T /\ f[h] = base[h]
      <4>1. \A h \in T : rank[q[h]] \in 0..n /\ rank[h] \in 0..n /\ rank[q[h]] < rank[h]
        OBVIOUS
      <4>2. \A h \in T : ~(rank[h] <= 0)
        BY <4>1
      <4> QED BY <4>2
    <3> QED BY <2>1, <2>2, <3>1
  <2>3. CASE m # 0
    <3>1. m - 1 \in 0..n /\ m \in 0..n
      BY <2>1, <2>3
    <3>2. m - 1 \notin Unknown
      <4> HIDE DEF Unknown
      <4> QED BY <2>1, <3>1
    <3>3. PICK f : \A h \in 1..n : rank[h] <= m - 1 => f[h] = Turn(f, h)
      BY <3>1, <3>2
    <3> DEFINE g == [h \in 1..n |-> IF rank[h] <= m - 1 THEN f[h] ELSE Turn(f, h)]
    <3>4. ASSUME NEW h \in 1..n, rank[h] <= m PROVE g[h] = Turn(g, h)
      <4>1. g[h] = Turn(f, h)
        BY <3>3
      <4>2. h \in T => g[q[h]] = f[q[h]]
        <5> SUFFICES ASSUME h \in T PROVE rank[q[h]] <= m - 1 /\ q[h] \in 1..n
          BY DEF g
        <5>1. q[h] \in 1..n /\ rank[q[h]] < rank[h] /\ rank[h] \in 0..n
          OBVIOUS
        <5>2. rank[q[h]] \in 0..n
          BY <5>1
        <5> HIDE DEF g
        <5> QED BY <3>1, <3>4, <5>1, <5>2
      <4> HIDE DEF g
      <4> QED BY <4>1, <4>2
    <3> HIDE DEF g, Turn
    <3> QED BY <2>1, <3>4
  <2> QED BY <2>2, <2>3
<1>2. n \in 0..n /\ n \notin Unknown
  <2> HIDE DEF Unknown
  <2> QED BY <1>1
<1>3. PICK f : \A h \in 1..n : rank[h] <= n => f[h] = Turn(f, h)
  BY <1>2
<1> DEFINE g == [h \in 1..n |-> f[h]]
<1>4. ASSUME NEW h \in 1..n PROVE g[h] = Turn(g, h)
  <2>1. g[h] = Turn(f, h)
    <3>1. rank[h] <= n
      OBVIOUS
    <3> HIDE DEF Turn
    <3> QED BY <1>3, <3>1
  <2>2. h \in T => g[q[h]] = f[q[h]]
    OBVIOUS
  <2> HIDE DEF g
  <2> QED BY <2>1, <2>2
<1>5. g = [h \in 1..n |-> Turn(g, h)]
  <2> HIDE DEF Turn
  <2>1. DOMAIN g = 1..n /\ g = [h \in 1..n |-> g[h]]
    OBVIOUS
  <2> HIDE DEF g
  <2> QED BY <1>4, <2>1
<1> HIDE DEF g
<1> QED BY <1>5 DEF HoleTurn

\* What up of AddReplacing is at each position.
LEMMA UpDefined ==
  ASSUME NEW a \in Seq(Item), NEW item \in Item
  PROVE  \E up :
           /\ AddReplacing(a, item) = up[Len(Append(a, item))]
           /\ \A h \in 1..Len(Append(a, item)) :
                up[h] = IF h > 1 /\ item.first < Append(a, item)[h \div 2].first
                        THEN [up[h \div 2] EXCEPT ![h] = Append(a, item)[h \div 2]]
                        ELSE [Append(a, item) EXCEPT ![h] = item]
<1> DEFINE last == Append(a, item)
           n == Len(last)
           Moves(h) == h > 1 /\ item.first < last[h \div 2].first
           Turn(f) == [h \in 1..n |-> IF h > 1 /\ item.first < last[h \div 2].first
                                      THEN [f[h \div 2] EXCEPT ![h] = last[h \div 2]]
                                      ELSE [last EXCEPT ![h] = item]]
           up == CHOOSE f : f = Turn(f)
<1>1. AddReplacing(a, item) = up[n]
  BY DEF AddReplacing
<1>2. \E f : f = Turn(f)
  <2> DEFINE T == {h \in 1..n : Moves(h)}
             q == [h \in 1..n |-> h \div 2]
             rank == [h \in 1..n |-> h]
             fill == [h \in 1..n |-> last[h \div 2]]
             base == [h \in 1..n |-> [last EXCEPT ![h] = item]]
  <2>1. n \in Nat
    BY AppendProperties
  <2> HIDE DEF last, n
  <2>2. T \in SUBSET (1..n) /\ \A h \in 1..n : rank[h] \in 0..n
    BY <2>1
  <2>3. \A h \in T : q[h] \in 1..n /\ rank[q[h]] < rank[h]
    BY <2>1
  <2>4. \E f : f = HoleTurn(f, n, T, q, fill, base)
    <3>1. Descends(n, T, q, rank)
      BY <2>2, <2>3 DEF Descends
    <3> HIDE DEF T, q, rank, fill, base, n
    <3> QED BY <2>1, <3>1, HoleRecursion
  <2>5. \A f : HoleTurn(f, n, T, q, fill, base) = Turn(f)
    BY DEF HoleTurn
  <2> HIDE DEF T, q, fill, base, n, Turn
  <2> QED BY <2>4, <2>5
<1>3. up = Turn(up)
  <2> HIDE DEF Turn
  <2> QED BY <1>2
<1> HIDE DEF up
<1> QED BY <1>1, <1>3

LEMMA SmallerChildBounds ==
  ASSUME NEW a \in Seq(Item), NEW h \in 1..Len(a), 2 * h <= Len(a)
  PROVE  /\ SmallerChild(a, h) \in {2 * h, 2 * h + 1}
         /\ SmallerChild(a, h) \in 1..Len(a)
         /\ SmallerChild(a, h) \div 2 = h
BY DEF SmallerChild

\* What down of PercolateDown is at each position.
LEMMA DownDefined ==
  ASSUME NEW a \in Seq(Item)
  PROVE  \E down :
           /\ PercolateDown(a) = down[1]
           /\ \A h \in 1..Len(a) :
                down[h] = IF 2 * h <= Len(a) /\ a[SmallerChild(a, h)].first < a[1].first
                          THEN [down[SmallerChild(a, h)] EXCEPT ![h] = a[SmallerChild(a, h)]]
                          ELSE [a EXCEPT ![h] = a[1]]
<1> DEFINE n == Len(a)
           Moves(h) == 2 * h <= n /\ a[SmallerChild(a, h)].first < a[1].first
           Turn(f) == [h \in 1..n |->
                         IF 2 * h <= n /\ a[SmallerChild(a, h)].first < a[1].first
                         THEN [f[SmallerChild(a, h)] EXCEPT ![h] = a[SmallerChild(a, h)]]
                         ELSE [a EXCEPT ![h] = a[1]]]
           down == CHOOSE f : f = Turn(f)
<1>1. PercolateDown(a) = down[1]
  BY DEF PercolateDown
<1>2. \E f : f = Turn(f)
  <2> DEFINE T == {h \in 1..n : Moves(h)}
             q == [h \in 1..n |-> SmallerChild(a, h)]
             rank == [h \in 1..n |-> n - h]
             fill == [h \in 1..n |-> a[SmallerChild(a, h)]]
             base == [h \in 1..n |-> [a EXCEPT ![h] = a[1]]]
  <2>1. n \in Nat
    OBVIOUS
  <2>2. T \in SUBSET (1..n) /\ \A h \in 1..n : rank[h] \in 0..n
    <3> HIDE DEF n
    <3> QED BY <2>1
  <2>3. \A h \in T : q[h] \in 1..n /\ rank[q[h]] < rank[h]
    <3> SUFFICES ASSUME NEW h \in 1..n, Moves(h) PROVE q[h] \in 1..n /\ rank[q[h]] < rank[h]
      OBVIOUS
    <3>1. q[h] \in {2 * h, 2 * h + 1} /\ q[h] \in 1..n
      BY SmallerChildBounds
    <3>2. rank[h] = n - h /\ rank[q[h]] = n - q[h]
      BY <3>1
    <3> HIDE DEF n, rank, q
    <3> QED BY <2>1, <3>1, <3>2
  <2>4. \E f : f = HoleTurn(f, n, T, q, fill, base)
    <3>1. Descends(n, T, q, rank)
      BY <2>2, <2>3 DEF Descends
    <3> HIDE DEF T, q, rank, fill, base, n
    <3> QED BY <2>1, <3>1, HoleRecursion
  <2>5. \A f : HoleTurn(f, n, T, q, fill, base) = Turn(f)
    BY DEF HoleTurn
  <2> HIDE DEF T, q, fill, base, n, Turn
  <2> QED BY <2>4, <2>5
<1>3. down = Turn(down)
  <2> HIDE DEF Turn
  <2> QED BY <1>2
<1> HIDE DEF down
<1> QED BY <1>1, <1>3

-----------------------------------------------------------------------------
(* The percolations rearrange the array.                                    *)

Permutation(p, n) ==
  /\ p \in [1..n -> 1..n]
  /\ \A i, j \in 1..n : p[i] = p[j] => i = j
  /\ \A j \in 1..n : \E i \in 1..n : p[i] = j

\* r holds the items of b in the order p.
Rearranged(r, b, p, n) == Permutation(p, n) /\ \A i \in 1..n : r[i] = b[p[i]]

\* When a rearrangement r of b with x at q is given, b[q] may be put at h and x at h instead.
MovedBack(p, h, q) == [i \in DOMAIN p |-> IF i = h THEN q ELSE IF p[i] = q THEN h ELSE p[i]]

LEMMA HoleMoves ==
  ASSUME NEW n \in Nat, NEW S, NEW b \in [1..n -> S], NEW r \in [1..n -> S], NEW x \in S,
         NEW h \in 1..n, NEW q \in 1..n, h # q,
         NEW p, Rearranged(r, [b EXCEPT ![q] = x], p, n), p[h] = h
  PROVE  Rearranged([r EXCEPT ![h] = b[q]], [b EXCEPT ![h] = x], MovedBack(p, h, q), n)
<1> DEFINE m == MovedBack(p, h, q)
<1>1. /\ p \in [1..n -> 1..n] /\ DOMAIN p = 1..n
      /\ \A i, j \in 1..n : p[i] = p[j] => i = j
      /\ \A j \in 1..n : \E i \in 1..n : p[i] = j
  BY DEF Rearranged, Permutation
<1>2. \A i \in 1..n : m[i] = IF i = h THEN q ELSE IF p[i] = q THEN h ELSE p[i]
  BY <1>1 DEF MovedBack
<1>3. \A i \in 1..n : i # h => p[i] # h
  BY <1>1
<1>4. m \in [1..n -> 1..n]
  BY <1>1 DEF MovedBack
<1>5. \A i, j \in 1..n : m[i] = m[j] => i = j
  BY <1>1, <1>2, <1>3
<1>6. \A j \in 1..n : \E i \in 1..n : m[i] = j
  <2> SUFFICES ASSUME NEW j \in 1..n PROVE \E i \in 1..n : m[i] = j
    OBVIOUS
  <2>1. CASE j = q
    BY <1>2, <2>1
  <2>2. CASE j = h
    <3>1. PICK i \in 1..n : p[i] = q
      BY <1>1
    <3> QED BY <1>2, <2>2, <3>1
  <2>3. CASE j # q /\ j # h
    <3>1. PICK i \in 1..n : p[i] = j
      BY <1>1
    <3> QED BY <1>2, <2>3, <3>1
  <2> QED BY <2>1, <2>2, <2>3
<1>7. ASSUME NEW i \in 1..n
      PROVE [r EXCEPT ![h] = b[q]][i] = [b EXCEPT ![h] = x][m[i]]
  <2>1. r[i] = [b EXCEPT ![q] = x][p[i]] /\ p[i] \in 1..n
    BY <1>1 DEF Rearranged
  <2>2. CASE i = h
    BY <1>2, <2>2
  <2>3. CASE i # h /\ p[i] = q
    BY <1>2, <2>1, <2>3
  <2>4. CASE i # h /\ p[i] # q
    BY <1>2, <1>3, <2>1, <2>4
  <2> QED BY <2>2, <2>3, <2>4
<1> HIDE DEF m
<1> QED BY <1>4, <1>5, <1>6, <1>7 DEF Rearranged, Permutation, m

LEMMA InPlaceRearranged ==
  ASSUME NEW n \in Nat, NEW b
  PROVE  Rearranged(b, b, [i \in 1..n |-> i], n)
BY DEF Rearranged, Permutation

-----------------------------------------------------------------------------
(* The percolations leave a heap behind.                                    *)

LEMMA ItemTimes == \A item \in Item : item.first \in Nat /\ item.second \subseteq Veh
BY ContainerAssumption DEF Item

\* up[h] once the items behind h are on their final places: r is a heap but for the item that
\* is still at the end, and at h there is nothing later than before.
UpTo(r, h, b, n, item) ==
  /\ r \in [1..n -> Item]
  /\ \A i \in 1..n : i > h => r[i] = b[i]
  /\ h < n => r[h].first <= b[h].first
  /\ \A i \in 2..n : (i = n => h = n) => r[i \div 2].first <= r[i].first
  /\ \E p : Rearranged(r, [b EXCEPT ![h] = item], p, n) /\ \A i \in 1..n : i > h => p[i] = i

\* The loop ends at h.
LEMMA UpEnds ==
  ASSUME NEW n \in Nat \ {0}, NEW b \in [1..n -> Item], NEW item \in Item, NEW h \in 1..n,
         \A i \in 2..n : i < n => b[i \div 2].first <= b[i].first,
         h = n \/ item.first < b[h].first,
         h = 1 \/ b[h \div 2].first <= item.first
  PROVE  UpTo([b EXCEPT ![h] = item], h, b, n, item)
<1> DEFINE r == [b EXCEPT ![h] = item]
<1>1. r \in [1..n -> Item] /\ \A i \in 1..n : r[i] = IF i = h THEN item ELSE b[i]
  OBVIOUS
<1>2. \A i \in 1..n : b[i].first \in Nat
  BY ItemTimes
<1>3. item.first \in Nat
  BY ItemTimes
<1>4. ASSUME NEW i \in 2..n, i = n => h = n PROVE r[i \div 2].first <= r[i].first
  <2>1. i \div 2 \in 1..n /\ i \div 2 < i /\ i \in 1..n
    OBVIOUS
  <2>2. CASE i = h
    BY <1>1, <2>1, <2>2
  <2>3. CASE i # h /\ i \div 2 = h
    <3>1. i < n /\ h < n
      BY <1>4, <2>1, <2>3
    <3>2. b[h].first <= b[i].first /\ item.first < b[h].first
      BY <2>3, <3>1
    <3>3. item.first <= b[i].first
      BY <1>2, <1>3, <2>1, <3>2
    <3> QED BY <1>1, <2>1, <2>3, <3>3
  <2>4. CASE i # h /\ i \div 2 # h
    <3>1. i < n
      BY <1>4, <2>1, <2>4
    <3> QED BY <1>1, <2>1, <2>4, <3>1
  <2> QED BY <2>2, <2>3, <2>4
<1>5. Rearranged(r, r, [i \in 1..n |-> i], n)
  BY InPlaceRearranged
<1>6. h < n => r[h].first <= b[h].first
  BY <1>1, <1>2, <1>3
<1>7. \E p : Rearranged(r, [b EXCEPT ![h] = item], p, n) /\ \A i \in 1..n : i > h => p[i] = i
  <2> DEFINE p == [i \in 1..n |-> i]
  <2>1. \A i \in 1..n : i > h => p[i] = i
    OBVIOUS
  <2> QED BY <1>5, <2>1
<1> HIDE DEF r
<1>8. UpTo(r, h, b, n, item)
  <2>1. r = [b EXCEPT ![h] = item]
    BY DEF r
  <2> QED BY <1>1, <1>4, <1>6, <1>7, <2>1 DEF UpTo
<1> QED BY <1>8 DEF r

\* The hole moves from h to its parent.
LEMMA UpMoves ==
  ASSUME NEW n \in Nat \ {0}, NEW b \in [1..n -> Item], NEW item \in Item, NEW h \in 2..n,
         \A i \in 2..n : i < n => b[i \div 2].first <= b[i].first,
         item.first < b[h \div 2].first,
         NEW r, UpTo(r, h \div 2, b, n, item)
  PROVE  UpTo([r EXCEPT ![h] = b[h \div 2]], h, b, n, item)
<1> DEFINE q == h \div 2
           s == [r EXCEPT ![h] = b[q]]
<1>1. q \in 1..n /\ q < h /\ h \in 1..n /\ q < n
  OBVIOUS
<1>2. r \in [1..n -> Item] /\ \A i \in 1..n : i > q => r[i] = b[i]
  BY DEF UpTo
<1>3. s \in [1..n -> Item] /\ \A i \in 1..n : s[i] = IF i = h THEN b[q] ELSE r[i]
  BY <1>1, <1>2
<1>4. \A i \in 1..n : b[i].first \in Nat /\ r[i].first \in Nat
  BY <1>2, ItemTimes
<1>5. r[q].first <= b[q].first
  BY <1>1 DEF UpTo
<1>6. h < n => b[q].first <= b[h].first
  OBVIOUS
<1>7. ASSUME NEW i \in 2..n, i = n => h = n PROVE s[i \div 2].first <= s[i].first
  <2>1. i \div 2 \in 1..n /\ i \div 2 < i /\ i \in 1..n
    OBVIOUS
  <2>2. CASE i = h
    BY <1>1, <1>3, <1>5, <2>1, <2>2
  <2>3. CASE i # h /\ i \div 2 = h
    <3>1. i < n /\ h < n /\ i > q
      BY <1>1, <1>7, <2>1, <2>3
    <3>2. b[h].first <= b[i].first
      BY <2>3, <3>1
    <3>3. b[q].first <= b[i].first
      BY <1>1, <1>4, <1>6, <2>1, <3>1, <3>2
    <3>4. s[i] = b[i] /\ s[i \div 2] = b[q]
      BY <1>1, <1>2, <1>3, <2>1, <2>3, <3>1
    <3> QED BY <3>3, <3>4
  <2>4. CASE i # h /\ i \div 2 # h
    <3>1. r[i \div 2].first <= r[i].first
      BY <1>1, <1>7, <2>4 DEF UpTo
    <3> QED BY <1>3, <2>1, <2>4, <3>1
  <2> QED BY <2>2, <2>3, <2>4
<1>8. \A i \in 1..n : i > h => s[i] = b[i]
  BY <1>1, <1>2, <1>3
<1>9. h < n => s[h].first <= b[h].first
  BY <1>1, <1>3, <1>6
<1>10. PICK p : Rearranged(r, [b EXCEPT ![q] = item], p, n) /\ \A i \in 1..n : i > q => p[i] = i
  BY DEF UpTo
<1> DEFINE m == MovedBack(p, h, q)
<1>11. Rearranged(s, [b EXCEPT ![h] = item], m, n)
  <2>1. p[h] = h /\ n \in Nat /\ h # q
    BY <1>1, <1>10
  <2> HIDE DEF q
  <2> QED BY <1>1, <1>2, <1>10, <2>1, HoleMoves
<1>12. \A i \in 1..n : i > h => m[i] = i
  <2>1. DOMAIN p = 1..n
    BY <1>10 DEF Rearranged, Permutation
  <2> QED BY <1>1, <1>10, <2>1 DEF MovedBack
<1> HIDE DEF s, m
<1>13. UpTo(s, h, b, n, item)
  BY <1>3, <1>7, <1>8, <1>9, <1>11, <1>12 DEF UpTo
<1> QED BY <1>13 DEF s

\* AddReplacing keeps the heap and adds the item to what is there.
LEMMA AddReplacingHeap ==
  ASSUME NEW a \in Seq(Item), Ordered(a), NEW item \in Item
  PROVE  /\ AddReplacing(a, item) \in [1..(Len(a) + 1) -> Item]
         /\ \A i \in 2..(Len(a) + 1) :
              AddReplacing(a, item)[i \div 2].first <= AddReplacing(a, item)[i].first
         /\ \E p : Rearranged(AddReplacing(a, item), Append(a, item), p, Len(a) + 1)
<1> DEFINE b == Append(a, item)
           n == Len(b)
<1>1. n = Len(a) + 1 /\ n \in Nat \ {0} /\ b \in [1..n -> Item] /\ b[n] = item
      /\ \A i \in 1..Len(a) : b[i] = a[i]
  <2>1. b \in Seq(Item) /\ n = Len(a) + 1 /\ Len(a) \in Nat
    OBVIOUS
  <2>2. b \in [1..n -> Item]
    BY <2>1, LenProperties
  <2>3. \A i \in 1..(Len(a) + 1) : b[i] = IF i = Len(a) + 1 THEN item ELSE a[i]
    BY AppendProperties
  <2> HIDE DEF b, n
  <2> QED BY <2>1, <2>2, <2>3
<1>2. \A i \in 2..n : i < n => b[i \div 2].first <= b[i].first
  <2> SUFFICES ASSUME NEW i \in 2..n, i < n PROVE b[i \div 2].first <= b[i].first
    OBVIOUS
  <2>1. i \in 2..Len(a) /\ i \in 1..Len(a) /\ i \div 2 \in 1..Len(a)
    BY <1>1
  <2> QED BY <1>1, <2>1 DEF Ordered
<1>3. PICK up :
        /\ AddReplacing(a, item) = up[n]
        /\ \A h \in 1..n : up[h] = IF h > 1 /\ item.first < b[h \div 2].first
                                   THEN [up[h \div 2] EXCEPT ![h] = b[h \div 2]]
                                   ELSE [b EXCEPT ![h] = item]
  BY UpDefined
<1> HIDE DEF b, n
<1> DEFINE Settled(h) == (h = n \/ item.first < b[h].first) => UpTo(up[h], h, b, n, item)
           Unsettled == {h \in 1..n : ~Settled(h)}
<1>4. ASSUME Unsettled # {} PROVE FALSE
  <2>1. n \in Nat /\ Unsettled \in SUBSET (0..n)
    BY <1>1
  <2>2. PICK h \in Unsettled : \A k \in Unsettled : h <= k
    <3> HIDE DEF Unsettled
    <3> QED BY <1>4, <2>1, LeastOf
  <2>3. h \in 1..n /\ (h = n \/ item.first < b[h].first) /\ ~UpTo(up[h], h, b, n, item)
    OBVIOUS
  <2>4. CASE h > 1 /\ item.first < b[h \div 2].first
    <3>1. h \div 2 \in 1..n /\ h \div 2 < h /\ h \in 2..n
      BY <1>1, <2>3, <2>4
    <3>2. h \div 2 \notin Unsettled
      <4> HIDE DEF Unsettled
      <4> QED BY <1>1, <2>2, <2>3, <3>1
    <3>3. UpTo(up[h \div 2], h \div 2, b, n, item)
      BY <2>4, <3>1, <3>2
    <3>4. up[h] = [up[h \div 2] EXCEPT ![h] = b[h \div 2]]
      BY <1>3, <2>3, <2>4
    <3>5. UpTo([up[h \div 2] EXCEPT ![h] = b[h \div 2]], h, b, n, item)
      BY <1>1, <1>2, <2>4, <3>1, <3>3, UpMoves
    <3> QED BY <2>3, <3>4, <3>5
  <2>5. CASE ~(h > 1 /\ item.first < b[h \div 2].first)
    <3>1. up[h] = [b EXCEPT ![h] = item]
      BY <1>3, <2>3, <2>5
    <3>2. h = 1 \/ b[h \div 2].first <= item.first
      <4>1. CASE h > 1
        <5>1. h \div 2 \in 1..n
          BY <1>1, <2>3, <4>1
        <5>2. b[h \div 2].first \in Nat /\ item.first \in Nat
          BY <1>1, <5>1, ItemTimes
        <5> QED BY <2>5, <4>1, <5>2
      <4> QED BY <2>3, <4>1
    <3>3. UpTo([b EXCEPT ![h] = item], h, b, n, item)
      BY <1>1, <1>2, <2>3, <3>2, UpEnds
    <3> QED BY <2>3, <3>1, <3>3
  <2> QED BY <2>4, <2>5
<1>5. n \in 1..n /\ n \notin Unsettled
  <2> HIDE DEF Unsettled
  <2> QED BY <1>1, <1>4
<1>6. UpTo(up[n], n, b, n, item)
  BY <1>5
<1>7. [b EXCEPT ![n] = item] = b
  BY <1>1
<1>8. \E p : Rearranged(up[n], b, p, n)
  BY <1>6, <1>7 DEF UpTo
<1>9. \A i \in 2..n : up[n][i \div 2].first <= up[n][i].first
  BY <1>6 DEF UpTo
<1>10. up[n] \in [1..n -> Item]
  BY <1>6 DEF UpTo
<1> QED BY <1>1, <1>3, <1>8, <1>9, <1>10 DEF b

LEMMA SmallerChildLeast ==
  ASSUME NEW a \in Seq(Item), NEW h \in 1..Len(a), 2 * h <= Len(a),
         NEW i \in 2..Len(a), i \div 2 = h
  PROVE  a[SmallerChild(a, h)].first <= a[i].first
<1> DEFINE n == Len(a)
<1>1. n \in Nat /\ a \in [1..n -> Item] /\ h \in Nat \ {0} /\ 2 * h <= n /\ i \in 1..n
  OBVIOUS
<1>2. i \in {2 * h, 2 * h + 1}
  BY <1>1
<1>3. 2 * h \in 1..n /\ (2 * h # n => 2 * h + 1 \in 1..n) /\ (i = 2 * h + 1 => 2 * h # n)
  <2> HIDE DEF n
  <2> QED BY <1>1
<1>4. a[2 * h].first \in Nat /\ (2 * h # n => a[2 * h + 1].first \in Nat)
  <2> HIDE DEF n
  <2> QED BY <1>1, <1>3, ItemTimes
<1> QED BY <1>2, <1>3, <1>4 DEF SmallerChild

\* down[h] once the rest of the loop is done: r is a heap but for the children of the root
\* while the hole was below, and at h there is nothing earlier than before.
DownTo(r, h, a, n) ==
  /\ r \in [1..n -> Item]
  /\ \A i \in 1..n : i < 2 * h /\ i # h => r[i] = a[i]
  /\ h # 1 => a[h].first <= r[h].first
  /\ \A i \in 2..n : (i \div 2 = 1 => h = 1) => r[i \div 2].first <= r[i].first
  /\ \E p : Rearranged(r, [a EXCEPT ![h] = a[1]], p, n) /\ \A i \in 1..n : i < h => p[i] = i

\* The loop ends at h.
LEMMA DownEnds ==
  ASSUME NEW n \in Nat \ {0}, NEW a \in [1..n -> Item], NEW h \in 1..n,
         \A i \in 2..n : i \div 2 # 1 => a[i \div 2].first <= a[i].first,
         h = 1 \/ a[h].first < a[1].first,
         \A i \in 2..n : i \div 2 = h => a[1].first <= a[i].first
  PROVE  DownTo([a EXCEPT ![h] = a[1]], h, a, n)
<1> DEFINE x == a[1]
           r == [a EXCEPT ![h] = x]
<1>1. 1 \in 1..n /\ x \in Item /\ r \in [1..n -> Item]
      /\ \A i \in 1..n : r[i] = IF i = h THEN x ELSE a[i]
  OBVIOUS
<1>2. \A i \in 1..n : a[i].first \in Nat
  BY ItemTimes
<1>3. ASSUME NEW i \in 2..n, i \div 2 = 1 => h = 1 PROVE r[i \div 2].first <= r[i].first
  <2>1. i \div 2 \in 1..n /\ i \div 2 < i /\ i \in 1..n
    OBVIOUS
  <2>2. CASE i = h
    <3>1. i \div 2 # 1 /\ h # 1
      BY <1>3, <2>1, <2>2
    <3>2. a[i \div 2].first <= a[h].first /\ a[h].first < x.first
      BY <2>2, <3>1
    <3>3. a[i \div 2].first <= x.first
      BY <1>1, <1>2, <2>1, <3>2
    <3> QED BY <1>1, <2>1, <2>2, <3>3
  <2>3. CASE i # h /\ i \div 2 = h
    BY <1>1, <2>1, <2>3
  <2>4. CASE i # h /\ i \div 2 # h
    <3>1. i \div 2 # 1
      BY <1>3, <2>4
    <3>2. r[i \div 2] = a[i \div 2] /\ r[i] = a[i]
      BY <1>1, <2>1, <2>4
    <3> HIDE DEF r
    <3> QED BY <3>1, <3>2
  <2> QED BY <2>2, <2>3, <2>4
<1>4. \A i \in 1..n : i < 2 * h /\ i # h => r[i] = a[i]
  BY <1>1
<1>5. h # 1 => a[h].first <= r[h].first
  BY <1>1, <1>2
<1>6. Rearranged(r, r, [i \in 1..n |-> i], n)
  BY InPlaceRearranged
<1>7. \E p : Rearranged(r, [a EXCEPT ![h] = a[1]], p, n) /\ \A i \in 1..n : i < h => p[i] = i
  <2> DEFINE p == [i \in 1..n |-> i]
  <2>1. \A i \in 1..n : i < h => p[i] = i
    OBVIOUS
  <2> QED BY <1>6, <2>1
<1> HIDE DEF r
<1>8. DownTo(r, h, a, n)
  BY <1>1, <1>3, <1>4, <1>5, <1>7 DEF DownTo
<1> QED BY <1>8 DEF r

\* The hole moves from h to its child c with the earlier item.
LEMMA DownMoves ==
  ASSUME NEW n \in Nat \ {0}, NEW a \in [1..n -> Item], NEW h \in 1..n, NEW c \in 1..n,
         c \div 2 = h,
         \A i \in 2..n : i \div 2 # 1 => a[i \div 2].first <= a[i].first,
         \A i \in 2..n : i \div 2 = h => a[c].first <= a[i].first,
         NEW r, DownTo(r, c, a, n)
  PROVE  DownTo([r EXCEPT ![h] = a[c]], h, a, n)
<1> DEFINE s == [r EXCEPT ![h] = a[c]]
<1>1. c \in {2 * h, 2 * h + 1} /\ h < c /\ c # 1 /\ c \in 2..n /\ 1 \in 1..n
  OBVIOUS
<1>2. r \in [1..n -> Item] /\ \A i \in 1..n : i < 2 * c /\ i # c => r[i] = a[i]
  BY DEF DownTo
<1>3. s \in [1..n -> Item] /\ \A i \in 1..n : s[i] = IF i = h THEN a[c] ELSE r[i]
  BY <1>1, <1>2
<1>4. \A i \in 1..n : a[i].first \in Nat /\ r[i].first \in Nat
  BY <1>2, ItemTimes
<1>5. a[c].first <= r[c].first
  BY <1>1 DEF DownTo
<1>6. h # 1 => a[h].first <= a[c].first
  BY <1>1
<1>7. ASSUME NEW i \in 2..n, i \div 2 = 1 => h = 1 PROVE s[i \div 2].first <= s[i].first
  <2>1. i \div 2 \in 1..n /\ i \div 2 < i /\ i \in 1..n
    OBVIOUS
  <2>2. CASE i = h
    <3>1. i \div 2 # 1 /\ h # 1 /\ i \div 2 # h /\ i \div 2 # c /\ i \div 2 < 2 * c
      BY <1>1, <1>7, <2>1, <2>2
    <3>2. r[i \div 2] = a[i \div 2]
      BY <1>2, <2>1, <3>1
    <3>3. a[i \div 2].first <= a[h].first
      BY <2>2, <3>1
    <3>4. a[i \div 2].first <= a[c].first
      BY <1>4, <1>6, <2>1, <3>1, <3>3
    <3>5. s[i \div 2] = a[i \div 2] /\ s[i] = a[c]
      BY <1>3, <2>1, <2>2, <3>1, <3>2
    <3> QED BY <3>4, <3>5
  <2>3. CASE i = c
    <3>1. s[i] = r[c] /\ s[i \div 2] = a[c]
      BY <1>1, <1>3, <2>1, <2>3
    <3> QED BY <1>5, <3>1
  <2>4. CASE i # h /\ i # c /\ i \div 2 = h
    <3>1. i \in {2 * h, 2 * h + 1} /\ i < 2 * c
      BY <1>1, <2>1, <2>4
    <3>2. s[i] = a[i] /\ s[i \div 2] = a[c]
      BY <1>2, <1>3, <2>1, <2>4, <3>1
    <3>3. a[c].first <= a[i].first
      BY <2>4
    <3> QED BY <3>2, <3>3
  <2>5. CASE i # h /\ i # c /\ i \div 2 # h
    <3>1. i \div 2 # 1
      BY <1>7, <2>5
    <3>2. r[i \div 2].first <= r[i].first
      BY <3>1 DEF DownTo
    <3> QED BY <1>3, <2>1, <2>5, <3>2
  <2> QED BY <2>2, <2>3, <2>4, <2>5
<1>8. \A i \in 1..n : i < 2 * h /\ i # h => s[i] = a[i]
  <2> SUFFICES ASSUME NEW i \in 1..n, i < 2 * h, i # h PROVE s[i] = a[i]
    OBVIOUS
  <2>1. i < 2 * c /\ i # c
    BY <1>1
  <2> QED BY <1>2, <1>3, <2>1
<1>9. h # 1 => a[h].first <= s[h].first
  BY <1>3, <1>6
<1>10. PICK p : Rearranged(r, [a EXCEPT ![c] = a[1]], p, n) /\ \A i \in 1..n : i < c => p[i] = i
  BY DEF DownTo
<1> DEFINE m == MovedBack(p, h, c)
<1>11. Rearranged(s, [a EXCEPT ![h] = a[1]], m, n)
  <2>1. p[h] = h /\ n \in Nat /\ h # c /\ a[1] \in Item
    BY <1>1, <1>10
  <2> QED BY <1>1, <1>2, <1>10, <2>1, HoleMoves
<1>12. \A i \in 1..n : i < h => m[i] = i
  <2>1. DOMAIN p = 1..n
    BY <1>10 DEF Rearranged, Permutation
  <2> QED BY <1>1, <1>10, <2>1 DEF MovedBack
<1> HIDE DEF s, m
<1>13. DownTo(s, h, a, n)
  BY <1>3, <1>7, <1>8, <1>9, <1>11, <1>12 DEF DownTo
<1> QED BY <1>13 DEF s

\* PercolateDown repairs a heap whose root alone is out of place.
LEMMA PercolateDownHeap ==
  ASSUME NEW a \in Seq(Item), a # <<>>,
         \A i \in 2..Len(a) : i \div 2 # 1 => a[i \div 2].first <= a[i].first
  PROVE  /\ PercolateDown(a) \in [1..Len(a) -> Item]
         /\ \A i \in 2..Len(a) : PercolateDown(a)[i \div 2].first <= PercolateDown(a)[i].first
         /\ \E p : Rearranged(PercolateDown(a), a, p, Len(a))
<1> DEFINE n == Len(a)
           c(h) == SmallerChild(a, h)
<1>1. n \in Nat \ {0} /\ a \in [1..n -> Item] /\ 1 \in 1..n
  OBVIOUS
<1>2. PICK down :
        /\ PercolateDown(a) = down[1]
        /\ \A h \in 1..n : down[h] = IF 2 * h <= n /\ a[c(h)].first < a[1].first
                                     THEN [down[c(h)] EXCEPT ![h] = a[c(h)]]
                                     ELSE [a EXCEPT ![h] = a[1]]
  BY DownDefined
<1>3. \A h \in 1..n : 2 * h <= n => c(h) \in 1..n /\ c(h) \div 2 = h /\ h < c(h)
  BY <1>1, SmallerChildBounds
<1>4. \A h \in 1..n : 2 * h <= n =>
        \A i \in 2..n : i \div 2 = h => a[c(h)].first <= a[i].first
  BY SmallerChildLeast
<1>5. \A h \in 1..n : a[h].first \in Nat
  BY <1>1, ItemTimes
<1> HIDE DEF n, c
<1> DEFINE Settled(h) == (h = 1 \/ a[h].first < a[1].first) => DownTo(down[h], h, a, n)
           Unsettled == {k \in 0..n : k < n /\ ~Settled(n - k)}
<1>6. ASSUME Unsettled # {} PROVE FALSE
  <2>1. n \in Nat /\ Unsettled \in SUBSET (0..n)
    BY <1>1
  <2>2. PICK k \in Unsettled : \A j \in Unsettled : k <= j
    <3> HIDE DEF Unsettled
    <3> QED BY <1>6, <2>1, LeastOf
  <2> DEFINE h == n - k
  <2>3. h \in 1..n /\ k \in 0..n /\ k = n - h
    BY <1>1
  <2>4. (h = 1 \/ a[h].first < a[1].first) /\ ~DownTo(down[h], h, a, n)
    OBVIOUS
  <2>5. CASE 2 * h <= n /\ a[c(h)].first < a[1].first
    <3>1. c(h) \in 1..n /\ c(h) \div 2 = h /\ h < c(h)
      BY <1>3, <2>3, <2>5
    <3>2. n - c(h) \in 0..n /\ n - c(h) < n /\ ~(k <= n - c(h)) /\ n - (n - c(h)) = c(h)
      <4> HIDE DEF h
      <4> QED BY <1>1, <2>3, <3>1
    <3>3. n - c(h) \notin Unsettled
      <4> HIDE DEF Unsettled
      <4> QED BY <2>2, <3>2
    <3>4. Settled(c(h))
      <4>1. Settled(n - (n - c(h)))
        <5> HIDE DEF Settled, h
        <5> QED BY <3>2, <3>3
      <4> QED BY <3>2, <4>1
    <3>5. DownTo(down[c(h)], c(h), a, n)
      BY <2>5, <3>4
    <3> HIDE DEF h
    <3>6. DownTo([down[c(h)] EXCEPT ![h] = a[c(h)]], h, a, n)
      <4>1. \A i \in 2..n : i \div 2 = h => a[c(h)].first <= a[i].first
        BY <1>4, <2>3, <2>5
      <4>2. \A i \in 2..n : i \div 2 # 1 => a[i \div 2].first <= a[i].first
        BY DEF n
      <4> QED BY <1>1, <2>3, <3>1, <3>5, <4>1, <4>2, DownMoves
    <3>7. down[h] = [down[c(h)] EXCEPT ![h] = a[c(h)]]
      BY <1>2, <2>3, <2>5
    <3> QED BY <2>4, <3>6, <3>7
  <2>6. CASE ~(2 * h <= n /\ a[c(h)].first < a[1].first)
    <3> HIDE DEF h
    <3>1. down[h] = [a EXCEPT ![h] = a[1]]
      BY <1>2, <2>3, <2>6
    <3>2. ASSUME NEW i \in 2..n, i \div 2 = h PROVE a[1].first <= a[i].first
      <4>1. 2 * h <= n /\ i \in 1..n
        BY <1>1, <2>3, <3>2
      <4>2. a[c(h)].first <= a[i].first /\ c(h) \in 1..n
        BY <1>3, <1>4, <2>3, <3>2, <4>1
      <4> QED BY <1>1, <1>5, <2>6, <4>1, <4>2
    <3>3. \A i \in 2..n : i \div 2 # 1 => a[i \div 2].first <= a[i].first
      BY DEF n
    <3>4. DownTo([a EXCEPT ![h] = a[1]], h, a, n)
      BY <1>1, <2>3, <2>4, <3>2, <3>3, DownEnds
    <3> QED BY <2>4, <3>1, <3>4
  <2> QED BY <2>5, <2>6
<1>7. n - 1 \in 0..n /\ n - 1 < n /\ n - 1 \notin Unsettled
  <2> HIDE DEF Unsettled
  <2> QED BY <1>1, <1>6
<1>8. DownTo(down[1], 1, a, n)
  <2>1. Settled(n - (n - 1)) /\ n - (n - 1) = 1
    BY <1>1, <1>7
  <2> QED BY <2>1
<1>9. [a EXCEPT ![1] = a[1]] = a
  BY <1>1
<1>10. \E p : Rearranged(down[1], a, p, n)
  BY <1>8, <1>9 DEF DownTo
<1>11. down[1] \in [1..n -> Item] /\ \A i \in 2..n : down[1][i \div 2].first <= down[1][i].first
  BY <1>8 DEF DownTo
<1> QED BY <1>2, <1>10, <1>11 DEF n

-----------------------------------------------------------------------------
(* Taking items from the heap.                                              *)

LEMMA FunctionIsSeq ==
  ASSUME NEW S, NEW n \in Nat, NEW f \in [1..n -> S]
  PROVE  f \in Seq(S) /\ Len(f) = n /\ DOMAIN f = 1..n
<1>1. f \in Seq(S)
  BY SeqDef
<1>2. DOMAIN f = 1..n /\ DOMAIN f = 1..Len(f) /\ Len(f) \in Nat
  BY <1>1, LenProperties
<1> QED BY <1>1, <1>2

\* r holds items of a, the one at i from position t[i]; those it lacks are positions of gone.
Keeps(r, a, t, gone) ==
  /\ t \in [1..Len(r) -> 1..Len(a)]
  /\ \A i, j \in 1..Len(r) : t[i] = t[j] => i = j
  /\ \A i \in 1..Len(r) : r[i] = a[t[i]]
  /\ \A k \in 1..Len(a) : (\A i \in 1..Len(r) : t[i] # k) => k \in gone

LEMMA KeepsAll ==
  ASSUME NEW a \in Seq(Item), NEW gone
  PROVE  Keeps(a, a, [i \in 1..Len(a) |-> i], gone)
BY DEF Keeps

LEMMA RootLeast ==
  ASSUME NEW a \in Seq(Item), Ordered(a), NEW i \in 1..Len(a)
  PROVE  a[1].first <= a[i].first
<1> DEFINE n == Len(a)
           Earlier == {k \in 1..n : ~(a[1].first <= a[k].first)}
<1>1. n \in Nat /\ a \in [1..n -> Item] /\ 1 \in 1..n
  OBVIOUS
<1>2. \A k \in 1..n : a[k].first \in Nat
  BY <1>1, ItemTimes
<1>3. ASSUME Earlier # {} PROVE FALSE
  <2>1. Earlier \in SUBSET (0..n)
    BY <1>1
  <2>2. PICK k \in Earlier : \A j \in Earlier : k <= j
    <3> HIDE DEF Earlier
    <3> QED BY <1>1, <1>3, <2>1, LeastOf
  <2>3. k \in 1..n /\ ~(a[1].first <= a[k].first)
    OBVIOUS
  <2>4. k \in 2..n /\ k \div 2 \in 1..n /\ k \div 2 < k
    <3> HIDE DEF n
    <3>1. k # 1
      BY <1>1, <1>2, <2>3
    <3> QED BY <1>1, <2>3, <3>1
  <2>5. k \div 2 \notin Earlier
    <3> HIDE DEF Earlier, n
    <3> QED BY <1>1, <2>2, <2>3, <2>4
  <2>6. a[k \div 2].first <= a[k].first
    BY <2>4 DEF Ordered
  <2>7. a[1].first <= a[k \div 2].first
    BY <2>4, <2>5
  <2> QED BY <1>1, <1>2, <2>3, <2>4, <2>6, <2>7
<1> QED BY <1>3

LEMMA PopHeap ==
  ASSUME NEW a \in Seq(Item), a # <<>>, Ordered(a)
  PROVE  /\ Pop(a) \in Seq(Item) /\ Len(Pop(a)) = Len(a) - 1 /\ Ordered(Pop(a))
         /\ \E t : Keeps(Pop(a), a, t, {1})
<1> DEFINE n == Len(a)
<1>1. n \in Nat \ {0} /\ a \in [1..n -> Item]
  OBVIOUS
<1>2. CASE n = 1
  <2>1. Pop(a) = <<>>
    BY <1>2 DEF Pop
  <2>2. <<>> \in Seq(Item) /\ Len(<<>>) = 0
    OBVIOUS
  <2>3. Ordered(<<>>)
    BY <2>2 DEF Ordered
  <2>4. Keeps(<<>>, a, [i \in 1..0 |-> 1], {1})
    <3>1. \A i \in 1..0 : FALSE
      OBVIOUS
    <3> QED BY <1>2, <2>2, <3>1 DEF Keeps
  <2> QED BY <1>2, <2>1, <2>2, <2>3, <2>4
<1>3. CASE n # 1
  <2> DEFINE m == n - 1
             x == [a EXCEPT ![1] = a[n]]
             b == SubSeq(x, 1, m)
  <2>1. Pop(a) = PercolateDown(b)
    BY <1>3 DEF Pop
  <2>2. x \in Seq(Item) /\ Len(x) = n /\ \A i \in 1..n : x[i] = IF i = 1 THEN a[n] ELSE a[i]
    <3>1. 1 \in 1..n /\ n \in 1..n /\ a[n] \in Item
      BY <1>1
    <3> QED BY <3>1, ExceptSeq
  <2>3. m \in Nat \ {0} /\ m < n /\ n = m + 1
    BY <1>1, <1>3
  <2>4. /\ b \in Seq(Item) /\ Len(b) = m
        /\ \A i \in 1..m : b[i] = IF i = 1 THEN a[n] ELSE a[i]
    <3> HIDE DEF n, m, x
    <3>1. \A i \in 1..m : x[i] \in Item
      BY <2>2, <2>3
    <3> QED BY <2>2, <2>3, <3>1, SubSeqProperties
  <2> HIDE DEF b, m, x
  <2>5. \A i \in 2..Len(b) : i \div 2 # 1 => b[i \div 2].first <= b[i].first
    <3> SUFFICES ASSUME NEW i \in 2..m, i \div 2 # 1 PROVE b[i \div 2].first <= b[i].first
      BY <2>4
    <3>1. i \in 2..n /\ i \in 1..m /\ i \div 2 \in 1..m /\ i # 1
      <4> HIDE DEF n
      <4> QED BY <1>1, <2>3
    <3>2. a[i \div 2].first <= a[i].first
      BY <3>1 DEF Ordered
    <3> QED BY <2>4, <3>1, <3>2
  <2> HIDE DEF n
  <2>6. b # <<>>
    BY <2>3, <2>4
  <2>7. /\ PercolateDown(b) \in [1..m -> Item]
        /\ \A i \in 2..m : PercolateDown(b)[i \div 2].first <= PercolateDown(b)[i].first
    BY <2>4, <2>5, <2>6, PercolateDownHeap
  <2>8. PICK p : Rearranged(PercolateDown(b), b, p, m)
    BY <2>4, <2>5, <2>6, PercolateDownHeap
  <2>9. /\ PercolateDown(b) \in Seq(Item) /\ Len(PercolateDown(b)) = m
        /\ Ordered(PercolateDown(b))
    BY <2>3, <2>7, FunctionIsSeq DEF Ordered
  <2> DEFINE t == [i \in 1..m |-> IF p[i] = 1 THEN n ELSE p[i]]
  <2>10. /\ p \in [1..m -> 1..m]
         /\ \A i, j \in 1..m : p[i] = p[j] => i = j
         /\ \A j \in 1..m : \E i \in 1..m : p[i] = j
         /\ \A i \in 1..m : PercolateDown(b)[i] = b[p[i]]
    BY <2>8 DEF Rearranged, Permutation
  <2>11. \A i \in 1..m : t[i] \in 1..n /\ PercolateDown(b)[i] = a[t[i]]
    <3> SUFFICES ASSUME NEW i \in 1..m PROVE t[i] \in 1..n /\ PercolateDown(b)[i] = a[t[i]]
      OBVIOUS
    <3>1. p[i] \in 1..m /\ PercolateDown(b)[i] = b[p[i]]
      BY <2>10
    <3> QED BY <2>3, <2>4, <3>1
  <2>12. \A i, j \in 1..m : t[i] = t[j] => i = j
    <3> SUFFICES ASSUME NEW i \in 1..m, NEW j \in 1..m, t[i] = t[j] PROVE p[i] = p[j]
      BY <2>10
    <3>1. p[i] \in 1..m /\ p[j] \in 1..m
      BY <2>10
    <3> QED BY <2>3, <3>1
  <2>13. \A k \in 1..n : (\A i \in 1..m : t[i] # k) => k = 1
    <3> SUFFICES ASSUME NEW k \in 1..n, k # 1 PROVE \E i \in 1..m : t[i] = k
      OBVIOUS
    <3>1. CASE k = n
      <4>1. 1 \in 1..m
        BY <2>3
      <4> QED BY <2>10, <3>1, <4>1
    <3>2. CASE k # n
      <4>1. k \in 1..m
        BY <2>3, <3>2
      <4>2. PICK i \in 1..m : p[i] = k
        BY <2>10, <4>1
      <4> QED BY <4>2
    <3> QED BY <3>1, <3>2
  <2>14. t \in [1..m -> 1..n]
    BY <2>11
  <2> HIDE DEF t
  <2>15. Keeps(PercolateDown(b), a, t, {1})
    BY <2>9, <2>11, <2>12, <2>13, <2>14 DEF Keeps, n
  <2> QED BY <2>1, <2>3, <2>9, <2>15 DEF n
<1> QED BY <1>2, <1>3

\* The array after each number of pops.
LEMMA PopsDefined ==
  ASSUME NEW a \in Seq(Item)
  PROVE  \E f : f = [k \in 0..Len(a) |-> IF k = 0 THEN a ELSE Pop(f[k - 1])]
<1> DEFINE n == Len(a)
           Turn(f, k) == IF k = 0 THEN a ELSE Pop(f[k - 1])
           Known(m) == \E f : \A k \in 0..m : f[k] = Turn(f, k)
           Unknown == {m \in 0..n : ~Known(m)}
<1>1. n \in Nat
  OBVIOUS
<1> HIDE DEF n
<1>2. ASSUME Unknown # {} PROVE FALSE
  <2>1. PICK m \in Unknown : \A k \in Unknown : m <= k
    <3>1. Unknown \in SUBSET (0..n)
      OBVIOUS
    <3> HIDE DEF Unknown
    <3> QED BY <1>1, <1>2, <3>1, LeastOf
  <2>2. m \in 0..n /\ ~Known(m)
    OBVIOUS
  <2>3. CASE m = 0
    <3> DEFINE f == [k \in 0..0 |-> a]
    <3>1. \A k \in 0..m : f[k] = Turn(f, k)
      BY <2>3
    <3> QED BY <2>2, <3>1
  <2>4. CASE m # 0
    <3>1. m - 1 \in 0..n /\ m - 1 \notin Unknown
      <4> HIDE DEF Unknown
      <4> QED BY <1>1, <2>1, <2>2, <2>4
    <3>2. PICK f : \A k \in 0..(m - 1) : f[k] = Turn(f, k)
      BY <3>1
    <3> DEFINE g == [k \in 0..m |-> IF k = m THEN Pop(f[m - 1]) ELSE f[k]]
    <3>3. ASSUME NEW k \in 0..m PROVE g[k] = Turn(g, k)
      <4>1. CASE k = m
        BY <1>1, <2>2, <2>4, <4>1
      <4>2. CASE k # m
        <5>1. k \in 0..(m - 1)
          BY <1>1, <2>2, <4>2
        <5>2. g[k] = Turn(f, k)
          BY <3>2, <4>2, <5>1
        <5>3. k # 0 => g[k - 1] = f[k - 1]
          BY <1>1, <2>2, <4>2
        <5> HIDE DEF g
        <5> QED BY <5>2, <5>3
      <4> QED BY <4>1, <4>2
    <3> HIDE DEF g, Turn
    <3> QED BY <2>2, <3>3
  <2> QED BY <2>3, <2>4
<1>3. n \in 0..n /\ n \notin Unknown
  <2> HIDE DEF Unknown
  <2> QED BY <1>1, <1>2
<1>4. PICK f : \A k \in 0..n : f[k] = Turn(f, k)
  BY <1>3
<1> DEFINE g == [k \in 0..n |-> f[k]]
<1>5. ASSUME NEW k \in 0..n PROVE g[k] = Turn(g, k)
  <2>1. g[k] = Turn(f, k)
    BY <1>4
  <2>2. k # 0 => g[k - 1] = f[k - 1]
    BY <1>1
  <2> HIDE DEF g
  <2> QED BY <2>1, <2>2
<1>6. g = [k \in 0..n |-> Turn(g, k)]
  <2>1. g = [k \in 0..n |-> g[k]]
    OBVIOUS
  <2> HIDE DEF g, Turn
  <2> QED BY <1>5, <2>1
<1> HIDE DEF g
<1> QED BY <1>6 DEF n

\* After some pops a heap is left, of which the items before t are gone as long as the root
\* was due each time.
Popped(r, a, k, gone) ==
  /\ r \in Seq(Item) /\ Len(r) = Len(a) - k /\ Ordered(r)
  /\ \E t : Keeps(r, a, t, gone)

LEMMA NoPop ==
  ASSUME NEW a \in Seq(Item), Ordered(a), NEW gone
  PROVE  Popped(a, a, 0, gone)
<1>1. Len(a) = Len(a) - 0
  OBVIOUS
<1>2. \E t : Keeps(a, a, t, gone)
  BY KeepsAll
<1> QED BY <1>1, <1>2 DEF Popped

DueIn(a, before) == {x \in 1..Len(a) : a[x].first < before}

LEMMA OnePop ==
  ASSUME NEW a \in Seq(Item), NEW k \in 1..Len(a), NEW gone, NEW r, Popped(r, a, k - 1, gone)
  PROVE  /\ Popped(Pop(r), a, k, 1..Len(a))
         /\ \A before : gone = DueIn(a, before) /\ AnyWaitingBefore(r, before)
                           => Popped(Pop(r), a, k, gone)
<1> DEFINE n == Len(a)
           l == Len(r)
           s == Pop(r)
<1>1. n \in Nat /\ r \in Seq(Item) /\ l = n - (k - 1) /\ Ordered(r) /\ k \in 1..n
  BY DEF Popped
<1>2. l \in 1..n /\ r # <<>>
  BY <1>1
<1>3. s \in Seq(Item) /\ Len(s) = l - 1 /\ Ordered(s)
  BY <1>1, <1>2, PopHeap
<1>4. PICK u : Keeps(s, r, u, {1})
  BY <1>1, <1>2, PopHeap
<1>5. PICK t : Keeps(r, a, t, gone)
  BY DEF Popped
<1> DEFINE m == Len(s)
           v == [i \in 1..m |-> t[u[i]]]
<1>6. /\ u \in [1..m -> 1..l] /\ \A i, j \in 1..m : u[i] = u[j] => i = j
      /\ \A i \in 1..m : s[i] = r[u[i]]
      /\ \A j \in 1..l : (\A i \in 1..m : u[i] # j) => j = 1
  BY <1>4 DEF Keeps
<1>7. /\ t \in [1..l -> 1..n] /\ \A i, j \in 1..l : t[i] = t[j] => i = j
      /\ \A i \in 1..l : r[i] = a[t[i]]
      /\ \A x \in 1..n : (\A i \in 1..l : t[i] # x) => x \in gone
  BY <1>5 DEF Keeps
<1>8. m = n - k
  BY <1>1, <1>3
<1> HIDE DEF l, m, n, s
<1>9. /\ v \in [1..m -> 1..n] /\ \A i, j \in 1..m : v[i] = v[j] => i = j
      /\ \A i \in 1..m : s[i] = a[v[i]]
  BY <1>6, <1>7
<1>10. \A x \in 1..n : (\A i \in 1..m : v[i] # x) => x \in gone \/ (t[1] = x /\ 1 \in 1..l)
  <2> SUFFICES ASSUME NEW x \in 1..n, \A i \in 1..m : v[i] # x, x \notin gone
               PROVE  t[1] = x /\ 1 \in 1..l
    OBVIOUS
  <2>1. PICK j \in 1..l : t[j] = x
    BY <1>7
  <2>2. \A i \in 1..m : u[i] # j
    BY <1>6, <2>1
  <2> QED BY <1>6, <2>1, <2>2
<1> HIDE DEF v
<1>11. Popped(s, a, k, 1..n)
  <2>1. Keeps(s, a, v, 1..n)
    BY <1>9 DEF Keeps, m, n
  <2> QED BY <1>1, <1>3, <1>8, <2>1 DEF Popped, m, n
<1>12. ASSUME NEW before, gone = DueIn(a, before), AnyWaitingBefore(r, before)
       PROVE  Popped(s, a, k, gone)
  <2>1. r[1].first < before
    BY <1>12 DEF AnyWaitingBefore
  <2>2. \A x \in 1..n : t[1] = x /\ 1 \in 1..l => x \in gone
    BY <1>7, <1>12, <2>1 DEF DueIn, n
  <2>3. Keeps(s, a, v, gone)
    BY <1>9, <1>10, <2>2 DEF Keeps, m, n
  <2> QED BY <1>1, <1>3, <1>8, <2>3 DEF Popped, m, n
<1> QED BY <1>11, <1>12 DEF n, s

\* The loop of checkCandidates takes exactly the items that are due.
LEMMA PopDueHeap ==
  ASSUME NEW a \in Seq(Item), Ordered(a), NEW before \in Nat
  PROVE  /\ PopDue(a, before) \in Seq(Item) /\ Ordered(PopDue(a, before))
         /\ \A i \in 1..Len(PopDue(a, before)) : before <= PopDue(a, before)[i].first
         /\ \E t : Keeps(PopDue(a, before), a, t, DueIn(a, before))
<1> DEFINE n == Len(a)
           Turn(f) == [k \in 0..n |-> IF k = 0 THEN a ELSE Pop(f[k - 1])]
           after == CHOOSE f : f = Turn(f)
           Ends(k) == ~AnyWaitingBefore(after[k], before)
           last == CHOOSE k \in 0..n : Ends(k) /\ \A j \in 0..(k - 1) : ~Ends(j)
<1>1. n \in Nat
  OBVIOUS
<1>2. PopDue(a, before) = after[last]
  BY DEF PopDue
<1>3. after = Turn(after)
  <2>1. \E f : f = Turn(f)
    BY PopsDefined
  <2> HIDE DEF Turn
  <2> QED BY <2>1
<1> HIDE DEF n, after
<1>4. \A k \in 0..n : after[k] = IF k = 0 THEN a ELSE Pop(after[k - 1])
  BY <1>3
<1> HIDE DEF Turn
<1>5. \A k \in 0..n : \E gone : Popped(after[k], a, k, gone)
  <2> DEFINE Known(k) == \E gone : Popped(after[k], a, k, gone)
             Unknown == {k \in 0..n : ~Known(k)}
  <2>1. ASSUME Unknown # {} PROVE FALSE
    <3>1. PICK k \in Unknown : \A j \in Unknown : k <= j
      <4>1. Unknown \in SUBSET (0..n)
        OBVIOUS
      <4> HIDE DEF Unknown
      <4> QED BY <1>1, <2>1, <4>1, LeastOf
    <3>2. k \in 0..n /\ ~Known(k)
      OBVIOUS
    <3>3. CASE k = 0
      <4>1. Popped(a, a, 0, {})
        BY NoPop
      <4>2. after[k] = a
        BY <1>4, <3>2, <3>3
      <4> QED BY <3>2, <3>3, <4>1, <4>2
    <3>4. CASE k # 0
      <4>1. k - 1 \in 0..n /\ k \in 1..n /\ k - 1 \notin Unknown
        <5> HIDE DEF Unknown
        <5> QED BY <1>1, <3>1, <3>2, <3>4
      <4>2. PICK gone : Popped(after[k - 1], a, k - 1, gone)
        BY <4>1
      <4>3. Popped(Pop(after[k - 1]), a, k, 1..n)
        BY <4>1, <4>2, OnePop DEF n
      <4>4. after[k] = Pop(after[k - 1])
        BY <1>4, <3>2, <3>4
      <4> QED BY <3>2, <4>3, <4>4
    <3> QED BY <3>3, <3>4
  <2> QED BY <2>1
<1>6. \E k \in 0..n : Ends(k) /\ \A j \in 0..(k - 1) : ~Ends(j)
  <2> DEFINE Ending == {k \in 0..n : Ends(k)}
  <2>1. n \in Ending
    <3>1. PICK gone : Popped(after[n], a, n, gone)
      BY <1>1, <1>5
    <3>2. Len(after[n]) = 0
      BY <1>1, <3>1 DEF Popped, n
    <3>3. Ends(n)
      BY <3>2 DEF AnyWaitingBefore
    <3> HIDE DEF Ends
    <3> QED BY <1>1, <3>3
  <2> HIDE DEF Ends
  <2>2. Ending \in SUBSET (0..n)
    OBVIOUS
  <2>3. PICK k \in Ending : \A j \in Ending : k <= j
    <3> HIDE DEF Ending
    <3> QED BY <1>1, <2>1, <2>2, LeastOf
  <2>4. k \in 0..n /\ Ends(k)
    BY <2>2
  <2>5. ASSUME NEW j \in 0..(k - 1) PROVE ~Ends(j)
    <3>1. j \in 0..n /\ ~(k <= j)
      BY <1>1, <2>4
    <3> QED BY <2>3, <3>1
  <2> QED BY <2>4, <2>5
<1>7. last \in 0..n /\ Ends(last) /\ \A j \in 0..(last - 1) : ~Ends(j)
  <2> HIDE DEF Ends
  <2> QED BY <1>6
<1> HIDE DEF last
<1>8. Popped(after[last], a, last, DueIn(a, before))
  <2> DEFINE Known(k) == k <= last => Popped(after[k], a, k, DueIn(a, before))
             Unknown == {k \in 0..n : ~Known(k)}
  <2>1. ASSUME Unknown # {} PROVE FALSE
    <3>1. PICK k \in Unknown : \A j \in Unknown : k <= j
      <4>1. Unknown \in SUBSET (0..n)
        OBVIOUS
      <4> HIDE DEF Unknown
      <4> QED BY <1>1, <2>1, <4>1, LeastOf
    <3>2. k \in 0..n /\ k <= last /\ ~Popped(after[k], a, k, DueIn(a, before))
      OBVIOUS
    <3>3. CASE k = 0
      <4>1. Popped(a, a, 0, DueIn(a, before))
        BY NoPop
      <4>2. after[k] = a
        BY <1>4, <3>2, <3>3
      <4> QED BY <3>2, <3>3, <4>1, <4>2
    <3>4. CASE k # 0
      <4>1. k - 1 \in 0..n /\ k \in 1..n /\ k - 1 \notin Unknown /\ k - 1 \in 0..(last - 1)
            /\ k - 1 <= last
        <5> HIDE DEF Unknown
        <5> QED BY <1>1, <1>7, <3>1, <3>2, <3>4
      <4>2. Popped(after[k - 1], a, k - 1, DueIn(a, before))
        BY <4>1
      <4>3. AnyWaitingBefore(after[k - 1], before)
        BY <1>7, <4>1
      <4>4. Popped(Pop(after[k - 1]), a, k, DueIn(a, before))
        BY <4>1, <4>2, <4>3, OnePop DEF n
      <4>5. after[k] = Pop(after[k - 1])
        BY <1>4, <3>2, <3>4
      <4> QED BY <3>2, <4>4, <4>5
    <3> QED BY <3>3, <3>4
  <2>2. last \notin Unknown
    <3> HIDE DEF Unknown
    <3> QED BY <2>1
  <2>3. last <= last
    BY <1>7
  <2> QED BY <1>7, <2>2, <2>3
<1>9. ASSUME NEW i \in 1..Len(after[last]) PROVE before <= after[last][i].first
  <2> DEFINE r == after[last]
  <2>1. r \in Seq(Item) /\ Ordered(r) /\ ~AnyWaitingBefore(r, before)
    BY <1>7, <1>8 DEF Popped
  <2> HIDE DEF r
  <2> SUFFICES ASSUME NEW j \in 1..Len(r) PROVE before <= r[j].first
    BY DEF r
  <2>2. r[1].first <= r[j].first
    BY <2>1, RootLeast
  <2>3. Len(r) > 0 /\ 1 \in 1..Len(r) /\ r[1] \in Item /\ r[j] \in Item
    BY <2>1
  <2>4. ~(r[1].first < before)
    BY <2>1, <2>3 DEF AnyWaitingBefore
  <2>5. r[1].first \in Nat /\ r[j].first \in Nat
    BY <2>3, ItemTimes
  <2> QED BY <2>2, <2>4, <2>5
<1> QED BY <1>2, <1>8, <1>9 DEF Popped

-----------------------------------------------------------------------------
(* What the calls do to the items.                                          *)

LEMMA StoredIn ==
  ASSUME NEW a, NEW v
  PROVE  v \in Stored(a) <=> \E i \in DOMAIN a : v \in a[i].second
BY DEF Stored

LEMMA FirstMatchIn ==
  ASSUME NEW a \in Seq(Item), NEW t, Matches(a, t) # {}
  PROVE  FirstMatch(a, t) \in DOMAIN a /\ DepartFinder(a[FirstMatch(a, t)], t)
<1> DEFINE n == Len(a)
           M == Matches(a, t)
<1>1. n \in Nat /\ DOMAIN a = 1..n /\ M \in SUBSET (0..n) /\ M # {}
  BY DEF Matches
<1>2. \E i \in M : \A j \in M : i <= j
  <2> HIDE DEF M, n
  <2> QED BY <1>1, LeastOf
<1>3. FirstMatch(a, t) \in M
  <2> HIDE DEF M
  <2>1. FirstMatch(a, t) = CHOOSE i \in M : \A j \in M : i <= j
    BY DEF FirstMatch, M
  <2> QED BY <1>2, <2>1
<1> QED BY <1>3 DEF Matches

\* a with other vehicles in item f.  That disturbs neither the types nor the order.
Refiled(a, f, vs) == [a EXCEPT ![f].second = vs]

\* b differs from a in the vehicles of item f.
Differs(b, a, f, vs) ==
  /\ b \in Seq(Item) /\ Ordered(b) /\ DOMAIN b = DOMAIN a
  /\ \A i \in DOMAIN a : b[i].first = a[i].first
  /\ \A i \in DOMAIN a : b[i].second = IF i = f THEN vs ELSE a[i].second

LEMMA ChangedItem ==
  ASSUME NEW a \in Seq(Item), Ordered(a), NEW f \in DOMAIN a, NEW vs \in SUBSET Veh
  PROVE  Differs(Refiled(a, f, vs), a, f, vs)
<1> DEFINE n == Len(a)
           b == Refiled(a, f, vs)
<1>1. n \in Nat /\ a \in [1..n -> Item] /\ DOMAIN a = 1..n
  OBVIOUS
<1>2. DOMAIN b = 1..n /\ b = [i \in 1..n |-> b[i]]
      /\ \A i \in 1..n : b[i] = IF i = f THEN [a[i] EXCEPT !.second = vs] ELSE a[i]
  BY <1>1 DEF Refiled
<1> HIDE DEF b
<1>3. \A i \in 1..n : [a[i] EXCEPT !.second = vs] \in Item
                      /\ [a[i] EXCEPT !.second = vs].first = a[i].first
                      /\ [a[i] EXCEPT !.second = vs].second = vs
  BY <1>1 DEF Item
<1>4. b \in [1..n -> Item]
  <2>1. \A i \in 1..n : b[i] \in Item
    BY <1>1, <1>2, <1>3
  <2> QED BY <1>2, <2>1
<1>5. b \in Seq(Item) /\ Len(b) = n /\ DOMAIN b = 1..n
  BY <1>1, <1>4, FunctionIsSeq
<1>6. \A i \in 1..n : b[i].first = a[i].first /\ b[i].second = IF i = f THEN vs ELSE a[i].second
  BY <1>2, <1>3
<1>7. Ordered(b)
  <2> SUFFICES ASSUME NEW i \in 2..n PROVE b[i \div 2].first <= b[i].first
    BY <1>5 DEF Ordered
  <2>1. i \in 1..n /\ i \div 2 \in 1..n
    BY <1>1
  <2> QED BY <1>6, <2>1 DEF Ordered
<1> QED BY <1>1, <1>5, <1>6, <1>7 DEF b, Differs

\* An array that holds the items of another one in a different order.
LEMMA RearrangedItems ==
  ASSUME NEW b \in Seq(Item), NEW r \in [1..Len(b) -> Item], NEW p, Rearranged(r, b, p, Len(b)),
         NEW d, ItemsApart(b), Filed(b, d), AskedFor(b, d)
  PROVE  ItemsApart(r) /\ Filed(r, d) /\ AskedFor(r, d) /\ Stored(r) = Stored(b)
<1> DEFINE n == Len(b)
<1>1. DOMAIN b = 1..n /\ DOMAIN r = 1..n
  OBVIOUS
<1>2. /\ p \in [1..n -> 1..n]
      /\ \A i, j \in 1..n : p[i] = p[j] => i = j
      /\ \A j \in 1..n : \E i \in 1..n : p[i] = j
      /\ \A i \in 1..n : r[i] = b[p[i]]
  BY DEF Rearranged, Permutation
<1> HIDE DEF n
<1>3. ItemsApart(r)
  <2> SUFFICES ASSUME NEW i \in 1..n, NEW j \in 1..n, i # j
               PROVE  r[i].first # r[j].first /\ r[i].second \cap r[j].second = {}
    BY <1>1 DEF ItemsApart
  <2>1. p[i] \in DOMAIN b /\ p[j] \in DOMAIN b /\ p[i] # p[j]
    BY <1>1, <1>2
  <2>2. b[p[i]].first # b[p[j]].first /\ b[p[i]].second \cap b[p[j]].second = {}
    BY <2>1 DEF ItemsApart
  <2> QED BY <1>2, <2>2
<1>4. Filed(r, d) /\ AskedFor(r, d)
  <2>1. ASSUME NEW i \in 1..n
        PROVE  /\ \A v \in r[i].second : d[v] # NotAdded /\ DepartFinder(r[i], d[v])
               /\ \E v \in Veh : d[v] = r[i].first
    <3>1. p[i] \in DOMAIN b /\ r[i] = b[p[i]]
      BY <1>1, <1>2
    <3> QED BY <3>1 DEF Filed, AskedFor
  <2> QED BY <1>1, <2>1 DEF Filed, AskedFor
<1>5. ASSUME NEW v PROVE v \in Stored(r) <=> v \in Stored(b)
  <2>1. ASSUME NEW i \in 1..n, v \in r[i].second PROVE \E j \in 1..n : v \in b[j].second
    BY <1>2, <2>1
  <2>2. ASSUME NEW j \in 1..n, v \in b[j].second PROVE \E i \in 1..n : v \in r[i].second
    BY <1>2, <2>2
  <2> QED BY <1>1, <2>1, <2>2, StoredIn
<1> QED BY <1>3, <1>4, <1>5

\* add files the vehicle, whichever of its two ways it takes.
LEMMA WithVehicleItems ==
  ASSUME NEW a, NEW d \in [Veh -> Departs \cup {NotAdded}], ItemsInv(a, d),
         NEW v \in Veh, NEW t \in Departs, d[v] = NotAdded,
         NEW e, e[v] = t, \A u \in Veh : u # v => e[u] = d[u]
  PROVE  /\ ItemsInv(WithVehicle(a, v, t), e)
         /\ Stored(WithVehicle(a, v, t)) = Stored(a) \cup {v}
<1>1. /\ a \in Seq(Item) /\ Ordered(a) /\ ItemsApart(a) /\ Filed(a, d) /\ AskedFor(a, d)
      /\ DOMAIN a = 1..Len(a) /\ Len(a) \in Nat /\ a \in [1..Len(a) -> Item]
  BY DEF ItemsInv
<1>2. \A i \in DOMAIN a : v \notin a[i].second
  BY <1>1 DEF Filed
<1>3. t \in Nat /\ t # NotAdded /\ e[v] = t /\ \A u \in Veh : u # v => e[u] = d[u]
  BY ContainerAssumption DEF NotAdded
<1>4. \A u \in Veh : d[u] # NotAdded => e[u] = d[u]
  BY <1>3
<1>5. \A i \in DOMAIN a : a[i].first \in Nat /\ a[i].second \subseteq Veh
  BY <1>1, ItemTimes
<1>6. Filed(a, e)
  BY <1>1, <1>4, <1>5 DEF Filed
<1>7. AskedFor(a, e)
  <2> SUFFICES ASSUME NEW i \in DOMAIN a PROVE \E u \in Veh : e[u] = a[i].first
    BY DEF AskedFor
  <2>1. PICK u \in Veh : d[u] = a[i].first
    BY <1>1 DEF AskedFor
  <2>2. d[u] # NotAdded
    BY <1>5, <2>1 DEF NotAdded
  <2> QED BY <1>4, <2>1, <2>2
<1>8. CASE Matches(a, t) # {}
  <2> DEFINE f == FirstMatch(a, t)
  <2>1. f \in DOMAIN a /\ DepartFinder(a[f], t)
    BY <1>1, <1>8, FirstMatchIn
  <2> DEFINE vs == a[f].second \cup {v}
             b == Refiled(a, f, vs)
  <2>2. WithVehicle(a, v, t) = b
    BY <1>8 DEF WithVehicle, Refiled
  <2>3. vs \in SUBSET Veh
    BY <1>5, <2>1
  <2> HIDE DEF f, vs
  <2>4. /\ b \in Seq(Item) /\ Ordered(b) /\ DOMAIN b = DOMAIN a
        /\ \A i \in DOMAIN a : b[i].first = a[i].first
        /\ \A i \in DOMAIN a : b[i].second = IF i = f THEN vs ELSE a[i].second
    <3>1. a \in Seq(Item) /\ Ordered(a)
      BY <1>1
    <3>2. Differs(b, a, f, vs)
      BY <2>1, <2>3, <3>1, ChangedItem
    <3> QED BY <3>2 DEF Differs
  <2> HIDE DEF b
  <2>5. ItemsApart(b)
    BY <1>1, <1>2, <2>4 DEF ItemsApart, vs
  <2>6. Filed(b, e)
    BY <1>3, <1>6, <2>1, <2>4 DEF Filed, DepartFinder, vs
  <2>7. AskedFor(b, e)
    BY <1>7, <2>4 DEF AskedFor
  <2>8. Stored(b) = Stored(a) \cup {v}
    <3>1. ASSUME NEW u PROVE u \in Stored(b) <=> u \in Stored(a) \/ u = v
      BY <2>1, <2>4, StoredIn DEF vs
    <3> QED BY <3>1
  <2> QED BY <2>2, <2>4, <2>5, <2>6, <2>7, <2>8 DEF ItemsInv
<1>9. CASE Matches(a, t) = {}
  <2> DEFINE item == [first |-> t, second |-> {v}]
             b == Append(a, item)
             r == AddReplacing(a, item)
             n == Len(a) + 1
  <2>1. WithVehicle(a, v, t) = r
    BY <1>9 DEF WithVehicle
  <2>2. item \in Item /\ item.first = t /\ item.second = {v}
    BY DEF Item
  <2> HIDE DEF item
  <2>3. /\ b \in Seq(Item) /\ Len(b) = n /\ DOMAIN b = 1..n /\ n \in Nat
        /\ \A i \in 1..n : b[i] = IF i = n THEN item ELSE a[i]
    <3>1. b \in Seq(Item) /\ Len(b) = n
      BY <1>1, <2>2, AppendProperties
    <3>2. \A i \in 1..n : b[i] = IF i = n THEN item ELSE a[i]
      BY <1>1, <2>2, AppendProperties
    <3> QED BY <1>1, <3>1, <3>2, LenProperties
  <2>4. /\ r \in [1..n -> Item]
        /\ \A i \in 2..n : r[i \div 2].first <= r[i].first
        /\ \E p : Rearranged(r, b, p, n)
    BY <1>1, <2>2, AddReplacingHeap
  <2> HIDE DEF b, r
  <2>5. r \in Seq(Item) /\ Ordered(r)
    <3>1. r \in Seq(Item) /\ Len(r) = n
      BY <2>3, <2>4, FunctionIsSeq
    <3> QED BY <2>4, <3>1 DEF Ordered
  <2>6. \A i \in 1..(n - 1) : i \in DOMAIN a /\ a[i].first # t
    <3> SUFFICES ASSUME NEW i \in DOMAIN a PROVE a[i].first # t
      BY <1>1
    <3>1. ~DepartFinder(a[i], t)
      BY <1>9 DEF Matches
    <3> QED BY <1>3, <3>1, ContainerAssumption DEF DepartFinder
  <2>7. \A i \in 1..n : i # n => i \in 1..(n - 1)
    BY <2>3
  <2>8. ItemsApart(b)
    <3> SUFFICES ASSUME NEW i \in 1..n, NEW j \in 1..n, i # j
                 PROVE  b[i].first # b[j].first /\ b[i].second \cap b[j].second = {}
      BY <2>3 DEF ItemsApart
    <3>1. CASE i # n /\ j # n
      <4>1. b[i] = a[i] /\ b[j] = a[j] /\ i \in DOMAIN a /\ j \in DOMAIN a
        BY <2>3, <2>6, <2>7, <3>1
      <4> QED BY <1>1, <4>1 DEF ItemsApart
    <3>2. CASE i = n
      <4>1. b[i] = item /\ b[j] = a[j] /\ j \in DOMAIN a /\ a[j].first # t
        BY <2>3, <2>6, <2>7, <3>2
      <4> QED BY <1>2, <2>2, <4>1
    <3>3. CASE j = n
      <4>1. b[j] = item /\ b[i] = a[i] /\ i \in DOMAIN a /\ a[i].first # t
        BY <2>3, <2>6, <2>7, <3>3
      <4> QED BY <1>2, <2>2, <4>1
    <3> QED BY <3>1, <3>2, <3>3
  <2>9. Filed(b, e) /\ AskedFor(b, e)
    <3>1. ASSUME NEW i \in 1..n
          PROVE  /\ \A u \in b[i].second : e[u] # NotAdded /\ DepartFinder(b[i], e[u])
                 /\ \E u \in Veh : e[u] = b[i].first
      <4>1. CASE i = n
        <5>1. b[i] = item /\ \A u \in b[i].second : u = v
          BY <2>2, <2>3, <4>1
        <5>2. DepartFinder(item, t)
          BY <1>3, <2>2, ContainerAssumption DEF DepartFinder
        <5> QED BY <1>3, <2>2, <5>1, <5>2
      <4>2. CASE i # n
        <5>1. b[i] = a[i] /\ i \in DOMAIN a
          BY <2>3, <2>6, <2>7, <4>2
        <5> QED BY <1>6, <1>7, <5>1 DEF Filed, AskedFor
      <4> QED BY <4>1, <4>2
    <3> QED BY <2>3, <3>1 DEF Filed, AskedFor
  <2>10. Stored(b) = Stored(a) \cup {v}
    <3>1. ASSUME NEW u PROVE u \in Stored(b) <=> u \in Stored(a) \/ u = v
      <4>1. ASSUME NEW i \in 1..n, u \in b[i].second PROVE u \in Stored(a) \/ u = v
        BY <2>2, <2>3, <2>6, <2>7, <4>1, StoredIn
      <4>2. ASSUME NEW i \in DOMAIN a, u \in a[i].second PROVE u \in Stored(b)
        <5>1. i \in 1..n /\ i # n
          BY <1>1, <2>3
        <5> QED BY <2>3, <4>2, <5>1, StoredIn
      <4>3. v \in Stored(b)
        <5>1. n \in 1..n
          BY <1>1
        <5> QED BY <2>2, <2>3, <5>1, StoredIn
      <4> QED BY <2>3, <4>1, <4>2, <4>3, StoredIn
    <3> QED BY <3>1
  <2>11. ItemsApart(r) /\ Filed(r, e) /\ AskedFor(r, e) /\ Stored(r) = Stored(b)
    BY <2>3, <2>4, <2>8, <2>9, RearrangedItems
  <2> QED BY <2>1, <2>5, <2>10, <2>11 DEF ItemsInv
<1> QED BY <1>8, <1>9

\* remove looks into one item; it takes out at most the vehicle, and certainly the vehicle when
\* the item it looks into is the one that holds it.
LEMMA WithoutVehicleItems ==
  ASSUME NEW a, NEW d, ItemsInv(a, d), NEW v \in Veh, NEW t
  PROVE  /\ ItemsInv(WithoutVehicle(a, v, t), d)
         /\ Stored(a) \ {v} \subseteq Stored(WithoutVehicle(a, v, t))
         /\ Stored(WithoutVehicle(a, v, t)) \subseteq Stored(a)
         /\ Matches(a, t) # {} /\ v \in a[FirstMatch(a, t)].second
              => v \notin Stored(WithoutVehicle(a, v, t))
<1>1. /\ a \in Seq(Item) /\ Ordered(a) /\ ItemsApart(a) /\ Filed(a, d) /\ AskedFor(a, d)
      /\ DOMAIN a = 1..Len(a) /\ Len(a) \in Nat /\ a \in [1..Len(a) -> Item]
  BY DEF ItemsInv
<1>2. CASE Matches(a, t) = {}
  <2>1. WithoutVehicle(a, v, t) = a
    BY <1>2 DEF WithoutVehicle
  <2> QED BY <1>2, <2>1
<1>3. CASE Matches(a, t) # {}
  <2> DEFINE f == FirstMatch(a, t)
             vs == a[f].second \ {v}
             b == Refiled(a, f, vs)
  <2>1. f \in DOMAIN a
    BY <1>1, <1>3, FirstMatchIn
  <2>2. WithoutVehicle(a, v, t) = b
    BY <1>3 DEF WithoutVehicle, Refiled
  <2>3. vs \in SUBSET Veh
    BY <1>1, <2>1, ItemTimes
  <2> HIDE DEF f, vs
  <2>4. /\ b \in Seq(Item) /\ Ordered(b) /\ DOMAIN b = DOMAIN a
        /\ \A i \in DOMAIN a : b[i].first = a[i].first
        /\ \A i \in DOMAIN a : b[i].second = IF i = f THEN vs ELSE a[i].second
    <3>1. a \in Seq(Item) /\ Ordered(a)
      BY <1>1
    <3>2. Differs(b, a, f, vs)
      BY <2>1, <2>3, <3>1, ChangedItem
    <3> QED BY <3>2 DEF Differs
  <2> HIDE DEF b
  <2>5. \A i \in DOMAIN a : b[i].second \subseteq a[i].second
    BY <2>4 DEF vs
  <2>6. ItemsApart(b)
    <3> SUFFICES ASSUME NEW i \in DOMAIN a, NEW j \in DOMAIN a, i # j
                 PROVE  b[i].first # b[j].first /\ b[i].second \cap b[j].second = {}
      BY <2>4 DEF ItemsApart
    <3>1. a[i].first # a[j].first /\ a[i].second \cap a[j].second = {}
      BY <1>1 DEF ItemsApart
    <3> QED BY <2>4, <2>5, <3>1
  <2>7. Filed(b, d) /\ AskedFor(b, d)
    <3>1. Filed(b, d)
      BY <1>1, <2>4, <2>5 DEF Filed, DepartFinder
    <3>2. AskedFor(b, d)
      BY <1>1, <2>4 DEF AskedFor
    <3> QED BY <3>1, <3>2
  <2>8. Stored(b) \subseteq Stored(a)
    <3>1. ASSUME NEW u \in Stored(b) PROVE u \in Stored(a)
      BY <2>4, <2>5, StoredIn
    <3> QED BY <3>1
  <2>9. Stored(a) \ {v} \subseteq Stored(b)
    <3>1. ASSUME NEW u \in Stored(a), u # v PROVE u \in Stored(b)
      <4>1. PICK i \in DOMAIN a : u \in a[i].second
        BY StoredIn
      <4>2. u \in b[i].second
        BY <2>4, <3>1, <4>1 DEF vs
      <4> QED BY <2>4, <4>2, StoredIn
    <3> QED BY <3>1
  <2>10. ASSUME v \in a[f].second PROVE v \notin Stored(b)
    <3> SUFFICES ASSUME NEW i \in DOMAIN a, v \in b[i].second PROVE FALSE
      BY <2>4, StoredIn
    <3>1. CASE i = f
      BY <2>4, <3>1 DEF vs
    <3>2. CASE i # f
      BY <1>1, <2>1, <2>5, <2>10, <3>2 DEF ItemsApart
    <3> QED BY <3>1, <3>2
  <2> QED BY <2>2, <2>4, <2>6, <2>7, <2>8, <2>9, <2>10 DEF ItemsInv, f
<1> QED BY <1>2, <1>3

\* checkCandidates keeps what it does not deliver, and delivers in the window.
LEMMA PopDueItems ==
  ASSUME NEW a, NEW d, ItemsInv(a, d), NEW before \in Nat,
         \A v \in Veh : d[v] \in Nat \cup {NotAdded}
  PROVE  /\ ItemsInv(PopDue(a, before), d)
         /\ Stored(PopDue(a, before)) \subseteq Stored(a)
         /\ \A v \in Stored(PopDue(a, before)) : before < d[v] + DELTA_T
         /\ \A v \in Stored(a) \ Stored(PopDue(a, before)) : d[v] < before
<1> DEFINE r == PopDue(a, before)
<1>1. /\ a \in Seq(Item) /\ Ordered(a) /\ ItemsApart(a) /\ Filed(a, d) /\ AskedFor(a, d)
      /\ DOMAIN a = 1..Len(a) /\ Len(a) \in Nat /\ a \in [1..Len(a) -> Item]
  BY DEF ItemsInv
<1>2. r \in Seq(Item) /\ Ordered(r) /\ \A i \in 1..Len(r) : before <= r[i].first
  BY <1>1, PopDueHeap
<1>3. PICK t : Keeps(r, a, t, DueIn(a, before))
  BY <1>1, PopDueHeap
<1> HIDE DEF r
<1>4. DOMAIN r = 1..Len(r) /\ Len(r) \in Nat
  BY <1>2
<1>5. /\ \A i \in DOMAIN r : t[i] \in DOMAIN a /\ r[i] = a[t[i]]
      /\ \A i, j \in DOMAIN r : t[i] = t[j] => i = j
      /\ \A k \in DOMAIN a : (\A i \in DOMAIN r : t[i] # k) => a[k].first < before
  BY <1>1, <1>3, <1>4 DEF Keeps, DueIn
<1>6. ItemsApart(r)
  <2> SUFFICES ASSUME NEW i \in DOMAIN r, NEW j \in DOMAIN r, i # j
               PROVE  r[i].first # r[j].first /\ r[i].second \cap r[j].second = {}
    BY DEF ItemsApart
  <2>1. t[i] \in DOMAIN a /\ t[j] \in DOMAIN a /\ t[i] # t[j]
    BY <1>5
  <2>2. a[t[i]].first # a[t[j]].first /\ a[t[i]].second \cap a[t[j]].second = {}
    BY <1>1, <2>1 DEF ItemsApart
  <2> QED BY <1>5, <2>2
<1>7. Filed(r, d) /\ AskedFor(r, d)
  <2>1. ASSUME NEW i \in DOMAIN r
        PROVE  /\ \A v \in r[i].second : d[v] # NotAdded /\ DepartFinder(r[i], d[v])
               /\ \E v \in Veh : d[v] = r[i].first
    BY <1>1, <1>5 DEF Filed, AskedFor
  <2> QED BY <2>1 DEF Filed, AskedFor
<1>8. Stored(r) \subseteq Stored(a)
  <2>1. ASSUME NEW v \in Stored(r) PROVE v \in Stored(a)
    BY <1>5, StoredIn
  <2> QED BY <2>1
<1>9. \A i \in DOMAIN a : a[i].first \in Nat /\ \A v \in a[i].second :
        d[v] \in Nat /\ d[v] <= a[i].first /\ a[i].first < d[v] + DELTA_T
  <2> SUFFICES ASSUME NEW i \in DOMAIN a, NEW v \in a[i].second
               PROVE  d[v] \in Nat /\ d[v] <= a[i].first /\ a[i].first < d[v] + DELTA_T
    BY <1>1, ItemTimes
  <2>1. v \in Veh /\ d[v] # NotAdded /\ DepartFinder(a[i], d[v])
    BY <1>1, ItemTimes DEF Filed
  <2>2. d[v] \in Nat
    BY <2>1
  <2> QED BY <2>1, <2>2 DEF DepartFinder
<1>10. ASSUME NEW v \in Stored(r) PROVE before < d[v] + DELTA_T
  <2>1. PICK i \in DOMAIN r : v \in r[i].second
    BY StoredIn
  <2>2. before <= r[i].first
    BY <1>2, <1>4
  <2>3. r[i] = a[t[i]] /\ t[i] \in DOMAIN a /\ v \in a[t[i]].second
    BY <1>5, <2>1
  <2>4. r[i].first \in Nat /\ d[v] \in Nat /\ r[i].first < d[v] + DELTA_T
    BY <1>9, <2>3
  <2> QED BY <2>2, <2>4, ContainerAssumption
<1>11. ASSUME NEW v \in Stored(a), v \notin Stored(r) PROVE d[v] < before
  <2>1. PICK k \in DOMAIN a : v \in a[k].second
    BY StoredIn
  <2>2. \A i \in DOMAIN r : t[i] # k
    <3> SUFFICES ASSUME NEW i \in DOMAIN r, t[i] = k PROVE v \in Stored(r)
      BY <1>11
    <3>1. v \in r[i].second
      BY <1>5, <2>1
    <3> QED BY <3>1, StoredIn
  <2>3. a[k].first < before
    BY <1>5, <2>2
  <2>4. a[k].first \in Nat /\ d[v] \in Nat /\ d[v] <= a[k].first
    BY <1>9, <2>1
  <2> QED BY <2>3, <2>4
<1> QED BY <1>2, <1>6, <1>7, <1>8, <1>10, <1>11 DEF ItemsInv, r

-----------------------------------------------------------------------------
(* The invariant.                                                           *)

\* Multiples of the step length less than a step apart are equal.
LEMMA SameMultiple ==
  ASSUME NEW x \in Nat, NEW y \in Nat, x % DELTA_T = 0, y % DELTA_T = 0,
         x <= y, y < x + DELTA_T
  PROVE  x = y
<1>1. DELTA_T \in Nat /\ DELTA_T > 0
  BY ContainerAssumption
<1>2. x = DELTA_T * (x \div DELTA_T) /\ y = DELTA_T * (y \div DELTA_T)
      /\ x \div DELTA_T \in Nat /\ y \div DELTA_T \in Nat
  BY <1>1
<1> DEFINE m == x \div DELTA_T
           n == y \div DELTA_T
<1> HIDE DEF m, n
<1>3. x = DELTA_T * m /\ y = DELTA_T * n /\ m \in Nat /\ n \in Nat
  BY <1>2 DEF m, n
<1>4. CASE n <= m
  <2>1. DELTA_T * n <= DELTA_T * m
    BY <1>1, <1>3, <1>4
  <2> QED BY <1>3, <2>1
<1>5. CASE m + 1 <= n
  <2>1. DELTA_T * (m + 1) <= DELTA_T * n
    BY <1>1, <1>3, <1>5
  <2>2. DELTA_T * (m + 1) = DELTA_T * m + DELTA_T
    BY <1>1, <1>3
  <2> QED BY <1>1, <1>3, <2>1, <2>2
<1> QED BY <1>3, <1>4, <1>5

LEMMA HeapInit == Init => HeapInv
<1> SUFFICES ASSUME Init PROVE HeapInv
  OBVIOUS
<1>1. array = <<>> /\ DOMAIN array = 1..0 /\ Len(array) = 0 /\ array \in Seq(Item)
  BY DEF Init
<1>2. \A i \in 1..0 : FALSE
  OBVIOUS
<1>3. TypeOK
  BY <1>1 DEF Init, TypeOK
<1>4. ItemsInv(array, depart)
  <2>1. Ordered(array)
    BY <1>1 DEF Ordered
  <2> QED BY <1>1, <1>2, <2>1 DEF ItemsInv, ItemsApart, Filed, AskedFor
<1>5. handed = {} /\ Stored(array) = {}
  <2>1. \A v : v \notin Stored(array)
    BY <1>1, <1>2, StoredIn
  <2> QED BY <2>1 DEF Init
<1> QED BY <1>3, <1>4, <1>5 DEF HeapInv

LEMMA AddKeeps ==
  ASSUME HeapInv, NEW v \in Veh, NEW t \in Departs, Add(v, t)
  PROVE  HeapInv'
<1>1. /\ depart[v] = NotAdded /\ array' = WithVehicle(array, v, t)
      /\ depart' = [depart EXCEPT ![v] = t] /\ handed' = handed \cup {v} /\ time' = time
  BY DEF Add
<1>2. TypeOK /\ ItemsInv(array, depart)
  BY DEF HeapInv
<1>3. depart \in [Veh -> Departs \cup {NotAdded}]
  BY <1>2 DEF TypeOK
<1>4. ItemsInv(array', depart') /\ Stored(array') = Stored(array) \cup {v}
  <2>1. /\ ItemsInv(WithVehicle(array, v, t), depart')
        /\ Stored(WithVehicle(array, v, t)) = Stored(array) \cup {v}
    <3>1. depart[v] = NotAdded /\ ItemsInv(array, depart)
      BY <1>1, <1>2
    <3>2. depart'[v] = t /\ \A u \in Veh : u # v => depart'[u] = depart[u]
      BY <1>1, <1>3
    <3> QED BY <1>3, <3>1, <3>2, WithVehicleItems
  <2> QED BY <1>1, <2>1, Zenon
<1>5. TypeOK'
  <2>1. array' \in Seq(Item)
    BY <1>4 DEF ItemsInv
  <2>2. depart' \in [Veh -> Departs \cup {NotAdded}]
    BY <1>1, <1>3
  <2> QED BY <1>1, <1>2, <2>1, <2>2 DEF TypeOK
<1>6. handed' \subseteq Stored(array')
  BY <1>1, <1>4 DEF HeapInv
<1>7. Aligned(depart') => Stored(array') \subseteq handed'
  <2> SUFFICES ASSUME Aligned(depart') PROVE Stored(array') \subseteq handed'
    OBVIOUS
  <2>1. Aligned(depart)
    BY <1>1, <1>3 DEF Aligned
  <2> QED BY <1>1, <1>4, <2>1 DEF HeapInv
<1> QED BY <1>4, <1>5, <1>6, <1>7 DEF HeapInv

LEMMA RemoveKeeps ==
  ASSUME HeapInv, NEW v \in Veh, Remove(v)
  PROVE  HeapInv'
<1> DEFINE t == depart[v]
           f == FirstMatch(array, t)
<1>1. /\ v \in handed /\ array' = WithoutVehicle(array, v, t)
      /\ handed' = handed \ {v} /\ depart' = depart /\ time' = time
  BY DEF Remove
<1>2. TypeOK /\ ItemsInv(array, depart)
  BY DEF HeapInv
<1>3. /\ ItemsInv(array', depart')
      /\ Stored(array) \ {v} \subseteq Stored(array') /\ Stored(array') \subseteq Stored(array)
      /\ Matches(array, t) # {} /\ v \in array[f].second => v \notin Stored(array')
  BY <1>1, <1>2, WithoutVehicleItems
<1>4. TypeOK'
  BY <1>1, <1>2, <1>3 DEF TypeOK, ItemsInv
<1>5. handed' \subseteq Stored(array')
  BY <1>1, <1>3 DEF HeapInv
<1>6. ASSUME Aligned(depart) PROVE Stored(array') \subseteq handed'
  <2>1. PICK i \in DOMAIN array : v \in array[i].second
    BY <1>1, StoredIn DEF HeapInv
  <2>2. depart[v] # NotAdded /\ DepartFinder(array[i], t)
    BY <1>2, <2>1 DEF ItemsInv, Filed
  <2>3. Matches(array, t) # {}
    BY <2>1, <2>2 DEF Matches
  <2>4. f \in DOMAIN array /\ DepartFinder(array[f], t)
    BY <1>2, <2>3, FirstMatchIn DEF ItemsInv
  <2>5. t \in Nat
    BY <1>2, <2>2, ContainerAssumption DEF TypeOK
  <2>6. ASSUME NEW j \in DOMAIN array, DepartFinder(array[j], t) PROVE array[j].first = t
    <3>1. PICK u \in Veh : depart[u] = array[j].first
      BY <1>2 DEF ItemsInv, AskedFor
    <3>2. array[j].first \in Nat
      BY <1>2, ItemTimes DEF ItemsInv
    <3>3. array[j].first % DELTA_T = 0 /\ t % DELTA_T = 0
      BY <1>6, <2>2, <3>1, <3>2 DEF Aligned, NotAdded
    <3> HIDE DEF t
    <3> QED BY <2>5, <2>6, <3>2, <3>3, SameMultiple DEF DepartFinder
  <2>7. i = f
    BY <1>2, <2>1, <2>2, <2>4, <2>6 DEF ItemsInv, ItemsApart
  <2>8. v \notin Stored(array')
    BY <1>3, <2>1, <2>3, <2>7
  <2>9. Stored(array) \subseteq handed
    BY <1>6 DEF HeapInv
  <2> QED BY <1>1, <1>3, <2>8, <2>9
<1> QED BY <1>1, <1>3, <1>4, <1>5, <1>6 DEF HeapInv

\* The delivery of one step, and that it keeps the invariant.
LEMMA CheckCandidatesKeeps ==
  ASSUME HeapInv, CheckCandidates
  PROVE  /\ HeapInv'
         /\ \A v \in Stored(array) :
              IF v \in Stored(array') THEN depart[v] > time ELSE depart[v] < time + DELTA_T
<1> DEFINE before == time + DELTA_T
<1>1. /\ array' = PopDue(array, before) /\ handed' = handed \cap Stored(array')
      /\ depart' = depart /\ time' = before
  BY DEF CheckCandidates
<1>2. TypeOK /\ ItemsInv(array, depart)
  BY DEF HeapInv
<1>3. time \in Nat /\ before \in Nat
  BY <1>2, ContainerAssumption DEF TypeOK
<1>4. \A v \in Veh : depart[v] \in Nat \cup {NotAdded}
  BY <1>2, ContainerAssumption DEF TypeOK
<1> HIDE DEF before
<1>5. /\ ItemsInv(array', depart) /\ Stored(array') \subseteq Stored(array)
      /\ \A v \in Stored(array') : before < depart[v] + DELTA_T
      /\ \A v \in Stored(array) \ Stored(array') : depart[v] < before
  BY <1>1, <1>2, <1>3, <1>4, PopDueItems
<1>6. TypeOK'
  BY <1>1, <1>2, <1>3, <1>5 DEF TypeOK, ItemsInv
<1>7. HeapInv'
  BY <1>1, <1>5, <1>6 DEF HeapInv
<1>8. ASSUME NEW v \in Stored(array')  PROVE depart[v] > time
  <2>1. v \in Veh
    <3>1. PICK i \in DOMAIN array' : v \in array'[i].second
      BY StoredIn
    <3>2. array' \in Seq(Item)
      BY <1>5 DEF ItemsInv
    <3> QED BY <3>1, <3>2, ItemTimes
  <2>2. depart[v] \in Int
    BY <1>4, <2>1 DEF NotAdded
  <2> QED BY <1>3, <1>5, <2>2, ContainerAssumption DEF before
<1> QED BY <1>5, <1>7, <1>8 DEF before

LEMMA HeapNext == HeapInv /\ [Next]_vars => HeapInv'
<1> SUFFICES ASSUME HeapInv, [Next]_vars PROVE HeapInv'
  OBVIOUS
<1>1. ASSUME NEW v \in Veh, NEW t \in Departs, Add(v, t) PROVE HeapInv'
  BY <1>1, AddKeeps
<1>2. ASSUME NEW v \in Veh, Remove(v) PROVE HeapInv'
  BY <1>2, RemoveKeeps
<1>3. CASE CheckCandidates
  BY <1>3, CheckCandidatesKeeps
<1>4. CASE UNCHANGED vars
  BY <1>4 DEF vars, HeapInv, TypeOK
<1> QED BY <1>1, <1>2, <1>3, <1>4 DEF Next

\* HeapInv is an invariant of the container.
THEOREM HeapInvariant == Spec => []HeapInv
BY HeapInit, HeapNext, PTL DEF Spec

\* The array holds items with departures that were asked for, never rounded ones, and vehicles
\* that were added.
THEOREM HeapTypeCorrect == Spec => []TypeOK
<1>1. HeapInv => TypeOK
  BY DEF HeapInv
<1> QED BY <1>1, HeapInvariant, PTL

\* addReplacing, pop and percolateDown keep the heap order whatever is added and removed.
THEOREM HeapOrdered == Spec => []HeapOrder
<1>1. HeapInv => HeapOrder
  BY DEF HeapInv, ItemsInv, Ordered, HeapOrder
<1> QED BY <1>1, HeapInvariant, PTL

\* checkCandidates delivers no vehicle before the step of its departure and none later than
\* the first step at or behind it, also when its item has another vehicle's departure.
THEOREM HeapDeliversInWindow == Spec => DeliveryWindow
<1>1. HeapInv /\ [Next]_vars =>
        [CheckCandidates =>
           \A v \in Stored(array) :
             IF v \in Stored(array') THEN depart[v] > time
             ELSE depart[v] < time + DELTA_T]_vars
  BY CheckCandidatesKeeps
<1> QED BY <1>1, HeapInvariant, PTL DEF Spec, DeliveryWindow

\* With departures on the steps, add and remove always find the item of a vehicle: the heap
\* stores the vehicles handed to it and not yet taken out, each of them once.
THEOREM HeapExactWhenAligned == Spec => []AlignedExact
<1>1. HeapInv => AlignedExact
  <2> SUFFICES ASSUME HeapInv, Aligned(depart)
               PROVE  /\ Stored(array) = handed
                      /\ \A i, j \in DOMAIN array :
                           i # j => array[i].second \cap array[j].second = {}
    BY DEF AlignedExact, Aligned
  <2> QED BY DEF HeapInv, ItemsInv, ItemsApart
<1> QED BY <1>1, HeapInvariant, PTL
=============================================================================
