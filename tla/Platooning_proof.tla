-------------------------- MODULE Platooning_proof --------------------------
(***************************************************************************)
(* Type correctness, the agreement of the three places that know the       *)
(* members of a platoon, that mode NONE is for solitary vehicles, and that *)
(* the real order of a platoon is found when there is one.                 *)
(*                                                                         *)
(* StepInv is inductive.  MembersAgree needs Counted, or a vehicle could   *)
(* depart twice or arrive without being connected, and Visited, or a loop  *)
(* could visit a platoon that is gone; the slots suffice because the lists *)
(* of the platoons have no vehicle in common.                              *)
(***************************************************************************)
EXTENDS Platooning, SequenceTheorems, FiniteSetTheorems, WellFoundedInduction, TLAPS

-----------------------------------------------------------------------------
(* What the operators of Platooning do: cutting, joining and ordering the   *)
(* list of a platoon, and the changes of modes of Platoon.setMode and       *)
(* adviseMemberModes, of which Kept states what the invariant needs.        *)

\* A set of natural numbers that is not empty has a least one.
LEMMA LeastOf ==
  ASSUME NEW n \in Nat, NEW S \in SUBSET (0..n), S # {}
  PROVE \E x \in S : \A y \in S : x <= y
<1> DEFINE Upto == {0..x : x \in S}
<1>1. IsFiniteSet(0..n)
  BY FS_Interval
<1>2. IsWellFoundedOn(StrictSubsetOrdering(0..n), SUBSET (0..n))
  BY <1>1, FS_StrictSubsetOrderingWellFounded, FS_FiniteSubsetsOfFinite
<1>3. Upto \subseteq SUBSET (0..n) /\ Upto # {}
  <2>1. \A x \in S : 0..x \in SUBSET (0..n)
    OBVIOUS
  <2>2. Upto # {}
    OBVIOUS
  <2> QED
    BY <2>1, <2>2
<1>4. \E X \in Upto : \A Y \in Upto : <<Y, X>> \notin StrictSubsetOrdering(0..n)
  <2> HIDE DEF Upto
  <2> QED BY <1>2, <1>3, WFMin
<1>5. PICK x \in S : \A y \in S : <<0..y, 0..x>> \notin StrictSubsetOrdering(0..n)
  BY <1>4
<1>6. ASSUME NEW y \in S PROVE x <= y
  <2> SUFFICES ASSUME y < x PROVE FALSE
    OBVIOUS
  <2>1. 0..y \subseteq 0..x /\ x \notin 0..y /\ x \in 0..x
    OBVIOUS
  <2>2. 0..x \in SUBSET (0..n) /\ 0..y \in SUBSET (0..n)
    OBVIOUS
  <2>3. <<0..y, 0..x>> \in StrictSubsetOrdering(0..n)
    <3> DEFINE X == 0..x
               Y == 0..y
               N == 0..n
    <3>1. X \in SUBSET N /\ Y \in SUBSET N /\ Y \subseteq X /\ Y # X
      BY <2>1, <2>2
    <3> HIDE DEF X, Y, N
    <3>2. <<Y, X>> \in StrictSubsetOrdering(N)
      BY <3>1 DEF StrictSubsetOrdering
    <3> QED
      BY <3>2 DEF X, Y, N
  <2> QED
    BY <1>5, <2>3
<1> QED
  BY <1>6

\* Max of such a set is its greatest member: TrySplit takes the split indices from the last to
\* the first (_platoonmanager.py:341).
LEMMA MaxOf ==
  ASSUME NEW n \in Nat, NEW S \in SUBSET (0..n), S # {}
  PROVE Max(S) \in S /\ \A y \in S : y <= Max(S)
<1> DEFINE T == {n - x : x \in S}
<1>1. T \in SUBSET (0..n) /\ T # {}
  <2>1. \A x \in S : n - x \in 0..n
    OBVIOUS
  <2>2. T # {}
    OBVIOUS
  <2> QED
    BY <2>1, <2>2
<1>2. \E x \in T : \A y \in T : x <= y
  <2> HIDE DEF T
  <2> QED BY <1>1, LeastOf
<1>3. \E m \in S : \A y \in S : m >= y
  <2>1. PICK m \in S : \A y \in T : n - m <= y
    BY <1>2
  <2>2. \A y \in S : n - y \in T /\ y \in 0..n
    OBVIOUS
  <2> HIDE DEF T
  <2>3. \A y \in S : m >= y
    BY <2>1, <2>2
  <2> QED
    BY <2>3
<1> QED
  BY <1>3 DEF Max

\* Cutting a sequence without repetitions in two, as Platoon.split does: what the two parts are
\* and that together they have the same members.
LEMMA SubSeqFacts ==
  ASSUME NEW S, NEW s \in Seq(S), NEW i \in 1..Len(s), IsInjective(s)
  PROVE LET head == SubSeq(s, 1, i - 1)
            tail == SubSeq(s, i, Len(s))
        IN  /\ head \in Seq(S) /\ Len(head) = i - 1 /\ IsInjective(head)
            /\ tail \in Seq(S) /\ Len(tail) = Len(s) - i + 1 /\ IsInjective(tail)
            /\ tail # << >>
            /\ ToSet(head) = ToSet(s) \ ToSet(tail) /\ ToSet(tail) \subseteq ToSet(s)
<1> DEFINE head == SubSeq(s, 1, i - 1)
           tail == SubSeq(s, i, Len(s))
<1>1. \A k \in 1..Len(s) : s[k] \in S
  OBVIOUS
<1>2. head \in Seq(S) /\ Len(head) = i - 1 /\ \A k \in 1..i-1 : head[k] = s[k]
  BY <1>1, SubSeqProperties
<1>3. /\ tail \in Seq(S) /\ Len(tail) = Len(s) - i + 1
      /\ \A k \in 1..Len(s)-i+1 : tail[k] = s[i + k - 1]
  BY <1>1, SubSeqProperties
<1>4. DOMAIN s = 1..Len(s) /\ DOMAIN head = 1..i-1 /\ DOMAIN tail = 1..Len(s)-i+1
  BY <1>2, <1>3
<1> HIDE DEF head, tail
<1>5. IsInjective(head)
  BY <1>2, <1>4 DEF IsInjective
<1>10. ASSUME NEW k \in DOMAIN tail PROVE i + k - 1 \in i..Len(s) /\ tail[k] = s[i + k - 1]
  BY <1>3, <1>4
<1>11. IsInjective(tail)
  <2> SUFFICES ASSUME NEW a \in DOMAIN tail, NEW b \in DOMAIN tail, tail[a] = tail[b]
               PROVE a = b
    BY DEF IsInjective
  <2>1. i + a - 1 = i + b - 1
    BY <1>4, <1>10 DEF IsInjective
  <2> QED
    BY <1>4, <2>1
<1>6. tail # << >>
  BY <1>3
<1>7. ToSet(head) = {s[k] : k \in 1..i-1}
  BY <1>2, <1>4 DEF ToSet
<1>8. ToSet(tail) = {s[k] : k \in i..Len(s)}
  <2>1. ASSUME NEW k \in i..Len(s) PROVE s[k] = tail[k - i + 1] /\ k - i + 1 \in DOMAIN tail
    <3>1. k - i + 1 \in 1..Len(s)-i+1 /\ i + (k - i + 1) - 1 = k
      OBVIOUS
    <3> QED
      BY <1>3, <1>4, <3>1
  <2>3. ASSUME NEW k \in i..Len(s) PROVE s[k] \in ToSet(tail)
    BY <2>1 DEF ToSet
  <2>4. ASSUME NEW k \in DOMAIN tail PROVE tail[k] \in {s[j] : j \in i..Len(s)}
    BY <1>10
  <2>5. ToSet(tail) \subseteq {s[k] : k \in i..Len(s)}
    BY <2>4 DEF ToSet
  <2> QED
    BY <2>3, <2>5
<1>9. ToSet(head) = ToSet(s) \ ToSet(tail) /\ ToSet(tail) \subseteq ToSet(s)
  <2>1. ToSet(s) = {s[k] : k \in 1..Len(s)}
    BY <1>4 DEF ToSet
  <2>2. \A k \in 1..Len(s) : k \in 1..i-1 \/ k \in i..Len(s)
    OBVIOUS
  <2>3. ToSet(tail) \subseteq ToSet(s) /\ ToSet(head) \subseteq ToSet(s)
    BY <1>7, <1>8, <2>1
  <2>4. ToSet(s) \subseteq ToSet(head) \cup ToSet(tail)
    BY <1>7, <1>8, <2>1, <2>2
  <2>5. ToSet(head) \cap ToSet(tail) = {}
    BY <1>4, <1>7, <1>8 DEF IsInjective
  <2> QED
    BY <2>3, <2>4, <2>5
<1> QED
  BY <1>2, <1>3, <1>5, <1>11, <1>6, <1>9 DEF head, tail

\* The members of two platoons put one behind the other, as Platoon.join does.
LEMMA ConcatFacts ==
  ASSUME NEW S, NEW s \in Seq(S), NEW t \in Seq(S), IsInjective(s), IsInjective(t),
         ToSet(s) \cap ToSet(t) = {}
  PROVE s \o t \in Seq(S) /\ IsInjective(s \o t) /\ ToSet(s \o t) = ToSet(s) \cup ToSet(t)
<1> DEFINE c == s \o t
<1>1. /\ c \in Seq(S) /\ Len(c) = Len(s) + Len(t)
      /\ \A i \in 1..Len(s)+Len(t) : c[i] = IF i <= Len(s) THEN s[i] ELSE t[i - Len(s)]
  BY ConcatProperties
<1>2. DOMAIN c = 1..Len(s)+Len(t) /\ DOMAIN s = 1..Len(s) /\ DOMAIN t = 1..Len(t)
  BY <1>1
<1> HIDE DEF c
<1>3. ASSUME NEW i \in DOMAIN c
      PROVE \/ i \in DOMAIN s /\ c[i] = s[i] /\ c[i] \in ToSet(s)
            \/ i - Len(s) \in DOMAIN t /\ c[i] = t[i - Len(s)] /\ c[i] \in ToSet(t)
  BY <1>1, <1>2 DEF ToSet
<1>4. IsInjective(c)
  BY <1>2, <1>3 DEF IsInjective
<1>5. ASSUME NEW i \in DOMAIN s PROVE i \in DOMAIN c /\ c[i] = s[i]
  BY <1>1, <1>2
<1>6. ASSUME NEW i \in DOMAIN t PROVE i + Len(s) \in DOMAIN c /\ c[i + Len(s)] = t[i]
  BY <1>1, <1>2
<1>7. ToSet(c) = ToSet(s) \cup ToSet(t)
  BY <1>3, <1>5, <1>6 DEF ToSet
<1> QED
  BY <1>1, <1>4, <1>7 DEF c

\* What is where after a vehicle has been taken out.
LEMMA RemoveAtValues ==
  ASSUME NEW S, NEW s \in Seq(S), NEW i \in 1..Len(s)
  PROVE /\ RemoveAt(s, i) \in Seq(S) /\ Len(RemoveAt(s, i)) = Len(s) - 1
        /\ \A k \in 1..Len(s)-1 : RemoveAt(s, i)[k] = IF k < i THEN s[k] ELSE s[k + 1]
<1> DEFINE head == SubSeq(s, 1, i - 1)
           tail == SubSeq(s, i + 1, Len(s))
           r == RemoveAt(s, i)
<1>1. \A k \in 1..Len(s) : s[k] \in S
  OBVIOUS
<1>2. head \in Seq(S) /\ Len(head) = i - 1 /\ \A k \in 1..i-1 : head[k] = s[k]
  BY <1>1, SubSeqProperties
<1>3. /\ tail \in Seq(S) /\ Len(tail) = Len(s) - i
      /\ \A k \in 1..Len(s)-i : tail[k] = s[i + k]
  <2>1. \A k \in i+1..Len(s) : s[k] \in S
    BY <1>1
  <2>2. /\ tail \in Seq(S) /\ Len(tail) = IF i + 1 <= Len(s) THEN Len(s) - (i+1) + 1 ELSE 0
        /\ \A k \in 1..Len(s)-(i+1)+1 : tail[k] = s[i + 1 + k - 1]
    BY <2>1, SubSeqProperties
  <2> QED
    BY <2>2
<1> HIDE DEF head, tail
<1>4. /\ r \in Seq(S) /\ Len(r) = Len(s) - 1
      /\ \A k \in 1..Len(s)-1 : r[k] = IF k <= i - 1 THEN head[k] ELSE tail[k - (i - 1)]
  <2>1. /\ head \o tail \in Seq(S) /\ Len(head \o tail) = Len(head) + Len(tail)
        /\ \A k \in 1..Len(head)+Len(tail) :
             (head \o tail)[k] = IF k <= Len(head) THEN head[k] ELSE tail[k - Len(head)]
    BY <1>2, <1>3, ConcatProperties
  <2>2. r = head \o tail
    BY DEF RemoveAt, head, tail
  <2> HIDE DEF r
  <2>3. Len(head) + Len(tail) = Len(s) - 1 /\ Len(head) = i - 1
    BY <1>2, <1>3
  <2> QED
    BY ONLY <2>1, <2>2, <2>3
<1> HIDE DEF r
<1>5. ASSUME NEW k \in 1..Len(s)-1
      PROVE r[k] = IF k < i THEN s[k] ELSE s[k + 1]
  <2>1. CASE k < i
    <3>1. k \in 1..i-1 /\ k <= i - 1
      BY <2>1
    <3> QED
      BY <1>2, <1>4, <2>1, <3>1
  <2>2. CASE ~(k < i)
    <3>1. k - (i - 1) \in 1..Len(s)-i /\ ~(k <= i - 1) /\ i + (k - (i - 1)) = k + 1
      BY <2>2
    <3> QED
      BY <1>3, <1>4, <2>2, <3>1
  <2> QED
    BY <2>1, <2>2
<1> QED
  BY <1>4, <1>5 DEF r

\* Taking one vehicle out of a platoon, as removeVehicles does.
LEMMA RemoveAtFacts ==
  ASSUME NEW S, NEW s \in Seq(S), NEW i \in 1..Len(s), IsInjective(s)
  PROVE /\ RemoveAt(s, i) \in Seq(S) /\ IsInjective(RemoveAt(s, i))
        /\ ToSet(RemoveAt(s, i)) = ToSet(s) \ {s[i]}
        /\ Len(RemoveAt(s, i)) = Len(s) - 1
<1> DEFINE r == RemoveAt(s, i)
<1>1. r \in Seq(S) /\ Len(r) = Len(s) - 1
  BY RemoveAtValues
<1>2. \A k \in 1..Len(s)-1 : r[k] = IF k < i THEN s[k] ELSE s[k + 1]
  BY RemoveAtValues
<1> HIDE DEF r
<1>3. DOMAIN r = 1..Len(s)-1 /\ DOMAIN s = 1..Len(s)
  BY <1>1
<1>4. IsInjective(r)
  BY <1>2, <1>3 DEF IsInjective
<1>5. ASSUME NEW k \in DOMAIN s, k # i PROVE s[k] \in ToSet(r)
  <2>1. CASE k < i
    BY <1>2, <1>3, <2>1 DEF ToSet
  <2>2. CASE k > i
    <3>1. k - 1 \in DOMAIN r /\ r[k - 1] = s[k]
      BY <1>2, <1>3, <2>2
    <3> QED
      BY <3>1 DEF ToSet
  <2> QED
    BY <1>3, <1>5, <2>1, <2>2
<1>6. ASSUME NEW k \in DOMAIN r PROVE r[k] \in ToSet(s) \ {s[i]}
  BY <1>2, <1>3 DEF ToSet, IsInjective
<1>7. ToSet(r) = ToSet(s) \ {s[i]}
  BY <1>5, <1>6 DEF ToSet
<1> QED
  BY <1>1, <1>4, <1>7 DEF r

\* An order of a finite set lists every member once.
LEMMA OrderFacts ==
  ASSUME NEW T, IsFiniteSet(T), NEW s \in SetToSeqs(T)
  PROVE s \in Seq(T) /\ Len(s) = Cardinality(T) /\ IsInjective(s) /\ ToSet(s) = T
<1> DEFINE n == Cardinality(T)
<1>1. n \in Nat
  BY FS_CardinalityType
<1>2. s \in [1..n -> T] /\ \A i, j \in 1..n : i # j => s[i] # s[j]
  BY DEF SetToSeqs
<1> HIDE DEF n
<1>3. s \in Seq(T) /\ Len(s) = n /\ DOMAIN s = 1..n
  BY <1>1, <1>2
<1>4. IsInjective(s)
  BY <1>2, <1>3 DEF IsInjective
<1>5. s \in Injection(1..n, T)
  BY <1>2 DEF Injection, IsInjective
<1>6. IsFiniteSet(1..n) /\ Cardinality(1..n) = n
  BY <1>1, FS_Interval
<1>7. s \in Surjection(1..n, T)
  BY <1>5, <1>6, FS_Injection DEF n
<1>8. ToSet(s) = T
  BY <1>3, <1>7 DEF Surjection, ToSet
<1> QED
  BY <1>3, <1>4, <1>8 DEF n

\* A sequence without repetitions is an order of the set of its members, and no longer than the
\* set they are from.
LEMMA InjectiveIsOrder ==
  ASSUME NEW S, IsFiniteSet(S), NEW s \in Seq(S), IsInjective(s)
  PROVE /\ s \in SetToSeqs(ToSet(s)) /\ ToSet(s) \subseteq S
        /\ IsFiniteSet(ToSet(s)) /\ Cardinality(ToSet(s)) = Len(s) /\ Len(s) <= Cardinality(S)
<1> DEFINE T == ToSet(s)
           n == Len(s)
<1>1. n \in Nat /\ DOMAIN s = 1..n /\ s \in [1..n -> T] /\ T \subseteq S
  BY DEF ToSet
<1>2. s \in Injection(1..n, T) /\ s \in Surjection(1..n, T)
  BY <1>1 DEF Injection, Surjection, IsInjective, ToSet
<1>3. IsFiniteSet(1..n) /\ Cardinality(1..n) = n
  BY <1>1, FS_Interval
<1>4. IsFiniteSet(T) /\ Cardinality(T) <= Cardinality(S)
  BY <1>1, FS_Subset
<1>5. Cardinality(T) = n
  BY <1>2, <1>3, <1>4, FS_Injection
<1>6. s \in SetToSeqs(T)
  <2> HIDE DEF T, n
  <2>1. s \in [1..n -> T] /\ \A i, j \in 1..n : i # j => s[i] # s[j]
    BY <1>1, <1>2 DEF Injection, IsInjective
  <2> QED
    BY <1>5, <2>1 DEF SetToSeqs
<1> QED
  BY <1>1, <1>4, <1>5, <1>6

-----------------------------------------------------------------------------
(* reorderVehicles.  A vehicle is Placed when it has no leader or is right *)
(* behind it.  A pass keeps a vehicle placed whose leader is placed, and   *)
(* places every vehicle whose leader is placed: so, if t is an order with  *)
(* everybody placed, the first n + 1 vehicles of t are placed after n      *)
(* passes.                                                                 *)

\* What holds at 0 and, when at n, at n + 1, holds up to N.
LEMMA Upwards ==
  ASSUME NEW N \in Nat, NEW P \in SUBSET (0..N), 0 \in P, \A n \in P : n < N => n + 1 \in P
  PROVE  P = 0..N
<1> DEFINE Rest == (0..N) \ P
<1>1. ASSUME Rest # {} PROVE FALSE
  <2>1. PICK m \in Rest : \A k \in Rest : m <= k
    <3>1. Rest \in SUBSET (0..N)
      OBVIOUS
    <3> HIDE DEF Rest
    <3> QED BY <1>1, <3>1, LeastOf
  <2>2. m \in 0..N /\ m \notin P /\ m # 0
    OBVIOUS
  <2>3. m - 1 \in 0..N /\ m - 1 \notin Rest
    <3> HIDE DEF Rest
    <3> QED BY <2>1, <2>2
  <2>4. m - 1 \in P /\ m - 1 < N
    BY <2>2, <2>3
  <2> QED
    BY <2>2, <2>4
<1> QED
  BY <1>1

\* A function that is computed from 0 upwards exists.
Iterates(N, X, x, step) ==
  \E f \in [0..N -> X] : f[0] = x /\ \A n \in 1..N : f[n] = step[n][f[n - 1]]

LEMMA Iteration ==
  ASSUME NEW N \in Nat, NEW X, NEW x \in X, NEW step \in [1..N -> [X -> X]]
  PROVE  Iterates(N, X, x, step)
<1> DEFINE Upto(f, m) == f[0] = x /\ \A n \in 1..m : f[n] = step[n][f[n - 1]]
           P == {m \in 0..N : \E f \in [0..m -> X] : Upto(f, m)}
<1>1. 0 \in P
  <2> DEFINE f == [n \in 0..0 |-> x]
  <2>1. 0 \in 0..N /\ f \in [0..0 -> X] /\ Upto(f, 0)
    OBVIOUS
  <2> HIDE DEF f, Upto
  <2> QED BY <2>1
<1>2. ASSUME NEW m \in P, m < N PROVE m + 1 \in P
  <2>1. PICK f \in [0..m -> X] : Upto(f, m)
    OBVIOUS
  <2> DEFINE g == [n \in 0..(m + 1) |-> IF n = m + 1 THEN step[m + 1][f[m]] ELSE f[n]]
  <2>2. m \in 0..N /\ m + 1 \in 1..N
    BY <1>2
  <2>3. g \in [0..(m + 1) -> X]
    BY <2>1, <2>2
  <2>4. g[0] = x
    BY <2>1, <2>2
  <2>5. ASSUME NEW n \in 1..(m + 1) PROVE g[n] = step[n][g[n - 1]]
    <3>1. n \in 0..(m + 1) /\ n - 1 \in 0..m /\ n - 1 # m + 1 /\ n - 1 \in 0..(m + 1)
      BY <2>2
    <3>2. g[n - 1] = f[n - 1]
      BY <3>1
    <3>3. CASE n = m + 1
      <4>1. g[n] = step[m + 1][f[m]] /\ n - 1 = m
        BY <2>2, <3>1, <3>3
      <4> HIDE DEF g
      <4> QED BY <3>2, <3>3, <4>1
    <3>4. CASE n # m + 1
      <4>1. n \in 1..m /\ g[n] = f[n]
        BY <2>2, <3>1, <3>4
      <4> HIDE DEF g
      <4> QED BY <2>1, <3>2, <4>1
    <3> QED BY <3>3, <3>4
  <2> HIDE DEF g
  <2>6. Upto(g, m + 1)
    BY <2>4, <2>5
  <2> HIDE DEF Upto
  <2> QED
    BY ONLY <2>2, <2>3, <2>6 DEF P
<1>3. P = 0..N
  <2>1. P \in SUBSET (0..N) /\ \A m \in P : m < N => m + 1 \in P
    BY <1>2
  <2> HIDE DEF P
  <2> QED BY <1>1, <2>1, Upwards
<1>4. N \in P
  <2> HIDE DEF P
  <2> QED BY <1>3
<1> QED
  BY <1>4 DEF Iterates

\* s lists every vehicle of S once.
IsOrder(s, S) == s \in Seq(S) /\ IsInjective(s) /\ ToSet(s) = S

\* v comes right behind u.
Behind(s, u, v) == \E i \in DOMAIN s : i + 1 \in DOMAIN s /\ s[i] = u /\ s[i + 1] = v

Placed(s, v, lead) == lead[v] = NoLeader \/ Behind(s, lead[v], v)

\* Every vehicle has a position in an order.
LEMMA PositionFacts ==
  ASSUME NEW S, NEW s, IsOrder(s, S), NEW v \in S
  PROVE  Position(s, v) \in 1..Len(s) /\ s[Position(s, v)] = v
<1>1. DOMAIN s = 1..Len(s) /\ \E i \in DOMAIN s : s[i] = v
  BY DEF IsOrder, ToSet
<1> QED
  BY <1>1 DEF Position

\* Everybody is in place when everybody is placed.
LEMMA OrderPlaced ==
  ASSUME NEW S, NEW s, IsOrder(s, S), NEW lead, NoLeader \notin S
  PROVE  /\ \A i \in DOMAIN s : InPlace(s, i, lead) <=> Placed(s, s[i], lead)
         /\ InOrder(s, lead) <=> \A v \in S : Placed(s, v, lead)
<1>1. DOMAIN s = 1..Len(s) /\ Len(s) \in Nat /\ \A i \in DOMAIN s : s[i] \in S
  BY DEF IsOrder
<1>2. ASSUME NEW i \in DOMAIN s PROVE InPlace(s, i, lead) <=> Placed(s, s[i], lead)
  <2>1. CASE lead[s[i]] = NoLeader
    BY <2>1 DEF InPlace, Placed
  <2>2. CASE lead[s[i]] # NoLeader /\ i = 1
    <3>1. ~InPlace(s, i, lead)
      BY <2>2 DEF InPlace, RegisteredLeader
    <3>2. ASSUME Behind(s, lead[s[i]], s[i]) PROVE FALSE
      <4>1. PICK j \in DOMAIN s : j + 1 \in DOMAIN s /\ s[j + 1] = s[i]
        BY <3>2 DEF Behind
      <4>2. j + 1 = i
        BY <4>1 DEF IsOrder, IsInjective
      <4> QED BY <1>1, <2>2, <4>2
    <3> QED BY <2>2, <3>1, <3>2 DEF Placed
  <2>3. CASE lead[s[i]] # NoLeader /\ i # 1
    <3>1. i - 1 \in DOMAIN s /\ (i - 1) + 1 = i
      BY <1>1, <2>3
    <3>2. InPlace(s, i, lead) <=> lead[s[i]] = s[i - 1]
      BY <2>3 DEF InPlace, RegisteredLeader
    <3>3. lead[s[i]] = s[i - 1] => Behind(s, lead[s[i]], s[i])
      BY <3>1 DEF Behind
    <3>4. ASSUME Behind(s, lead[s[i]], s[i]) PROVE lead[s[i]] = s[i - 1]
      <4>1. PICK j \in DOMAIN s : j + 1 \in DOMAIN s /\ s[j] = lead[s[i]] /\ s[j + 1] = s[i]
        BY <3>4 DEF Behind
      <4>2. j + 1 = i
        BY <4>1 DEF IsOrder, IsInjective
      <4>3. j = i - 1
        BY <1>1, <4>2
      <4> QED BY <4>1, <4>3
    <3> QED BY <2>3, <3>2, <3>3, <3>4 DEF Placed
  <2> QED BY <2>1, <2>2, <2>3
<1>3. \A v \in S : \E i \in DOMAIN s : s[i] = v
  BY DEF IsOrder, ToSet
<1> QED
  BY <1>1, <1>2, <1>3 DEF InOrder

\* What is where after a vehicle has been put in at position i.
Inserted(s, i, e, S, q) ==
  /\ q \in Seq(S) /\ Len(q) = Len(s) + 1
  /\ \A k \in 1..Len(s)+1 : q[k] = IF k < i THEN s[k] ELSE IF k = i THEN e ELSE s[k - 1]

LEMMA InsertAtValues ==
  ASSUME NEW S, NEW s \in Seq(S), NEW i \in 1..Len(s)+1, NEW e \in S
  PROVE  Inserted(s, i, e, S, InsertAt(s, i, e))
<1> DEFINE head == SubSeq(s, 1, i - 1)
           tail == SubSeq(s, i, Len(s))
           front == head \o <<e>>
           q == InsertAt(s, i, e)
<1>1. \A k \in 1..Len(s) : s[k] \in S
  OBVIOUS
<1>2. head \in Seq(S) /\ Len(head) = i - 1 /\ \A k \in 1..i-1 : head[k] = s[k]
  BY <1>1, SubSeqProperties
<1>3. /\ tail \in Seq(S) /\ Len(tail) = Len(s) + 1 - i
      /\ \A k \in 1..Len(s)+1-i : tail[k] = s[i + k - 1]
  <2>1. \A k \in i..Len(s) : s[k] \in S
    BY <1>1
  <2>2. /\ tail \in Seq(S) /\ Len(tail) = IF i <= Len(s) THEN Len(s) - i + 1 ELSE 0
        /\ \A k \in 1..Len(s)-i+1 : tail[k] = s[i + k - 1]
    BY <2>1, SubSeqProperties
  <2> QED
    BY <2>2
<1>4. q = front \o tail
  BY DEF InsertAt
<1>5. <<e>> \in Seq(S) /\ Len(<<e>>) = 1 /\ <<e>>[1] = e
  OBVIOUS
<1> HIDE DEF head, tail
<1>6. front \in Seq(S) /\ Len(front) = i /\ \A k \in 1..i : front[k] = IF k < i THEN s[k] ELSE e
  <2> DEFINE one == <<e>>
  <2>1. one \in Seq(S) /\ Len(one) = 1 /\ one[1] = e
    BY <1>5
  <2> HIDE DEF one
  <2>2. /\ head \o one \in Seq(S) /\ Len(head \o one) = Len(head) + Len(one)
        /\ \A k \in 1..Len(head)+Len(one) :
             (head \o one)[k] = IF k <= Len(head) THEN head[k] ELSE one[k - Len(head)]
    BY <1>2, <2>1, ConcatProperties
  <2>3. front = head \o one
    BY DEF one
  <2> HIDE DEF front
  <2>4. ASSUME NEW k \in 1..i PROVE front[k] = IF k < i THEN s[k] ELSE e
    <3>1. CASE k < i
      <4>1. k \in 1..i-1 /\ k <= i - 1 /\ k \in 1..(i - 1) + 1
        BY <3>1
      <4> QED BY <1>2, <2>1, <2>2, <2>3, <3>1, <4>1
    <3>2. CASE k = i
      <4>1. k \in 1..(i - 1) + 1 /\ ~(k <= i - 1) /\ k - (i - 1) = 1
        BY <3>2
      <4> QED BY <1>2, <2>1, <2>2, <2>3, <3>2, <4>1
    <3> QED BY <3>1, <3>2
  <2> QED
    BY <1>2, <2>1, <2>2, <2>3, <2>4
<1> HIDE DEF front
<1>7. /\ q \in Seq(S) /\ Len(q) = Len(s) + 1
      /\ \A k \in 1..Len(s)+1 : q[k] = IF k <= i THEN front[k] ELSE tail[k - i]
  <2>1. /\ front \o tail \in Seq(S) /\ Len(front \o tail) = Len(front) + Len(tail)
        /\ \A k \in 1..Len(front)+Len(tail) :
             (front \o tail)[k] = IF k <= Len(front) THEN front[k] ELSE tail[k - Len(front)]
    BY <1>3, <1>6, ConcatProperties
  <2> QED
    BY <1>3, <1>4, <1>6, <2>1
<1> HIDE DEF q
<1>8. ASSUME NEW k \in 1..Len(s)+1
      PROVE  q[k] = IF k < i THEN s[k] ELSE IF k = i THEN e ELSE s[k - 1]
  <2>1. CASE k <= i
    <3>1. k \in 1..i
      BY <2>1
    <3>2. q[k] = front[k]
      BY ONLY <1>7, <2>1, k \in 1..Len(s)+1
    <3>3. front[k] = IF k < i THEN s[k] ELSE e
      BY ONLY <1>6, <3>1
    <3>4. ~(k < i) => k = i
      BY <2>1
    <3> QED BY ONLY <3>2, <3>3, <3>4
  <2>2. CASE ~(k <= i)
    <3>1. k - i \in 1..Len(s)+1-i /\ i + (k - i) - 1 = k - 1 /\ ~(k < i) /\ k # i
      BY <2>2
    <3>2. q[k] = tail[k - i]
      BY ONLY <1>7, <2>2, k \in 1..Len(s)+1
    <3>3. tail[k - i] = s[k - 1]
      BY ONLY <1>3, <3>1
    <3> QED BY ONLY <3>1, <3>2, <3>3
  <2> QED BY <2>1, <2>2
<1> QED
  BY <1>7, <1>8 DEF q, Inserted

\* A relocated vehicle is right behind u; two others stay together unless it comes between them.
LEMMA RelocateFacts ==
  ASSUME NEW S, NEW s, IsOrder(s, S), NEW v \in S, NEW u \in S, u # v
  PROVE  /\ IsOrder(Relocate(s, v, u), S) /\ Behind(Relocate(s, v, u), u, v)
         /\ \A a, b \in S :
              Behind(s, a, b) /\ a \notin {v, u} /\ b # v => Behind(Relocate(s, v, u), a, b)
<1> DEFINE i == Position(s, v)
           rest == RemoveAt(s, i)
           j == Position(rest, u)
           q == InsertAt(rest, j + 1, v)
<1>1. q = Relocate(s, v, u)
  BY DEF Relocate
<1>2. i \in 1..Len(s) /\ s[i] = v /\ s \in Seq(S) /\ IsInjective(s) /\ ToSet(s) = S
  BY PositionFacts DEF IsOrder
<1> HIDE DEF i
<1>3. IsOrder(rest, S \ {v}) /\ rest \in Seq(S) /\ Len(rest) = Len(s) - 1
  <2>1. /\ rest \in Seq(S) /\ IsInjective(rest) /\ ToSet(rest) = S \ {v} /\ Len(rest) = Len(s) - 1
    BY <1>2, RemoveAtFacts
  <2> HIDE DEF rest
  <2>2. \A k \in 1..Len(rest) : rest[k] \in S \ {v}
    BY <2>1 DEF ToSet
  <2>3. rest \in Seq(S \ {v})
    BY <2>1, <2>2
  <2> QED BY <2>1, <2>3 DEF IsOrder
<1>4. \A k \in 1..Len(s)-1 : rest[k] = IF k < i THEN s[k] ELSE s[k + 1]
  BY <1>2, RemoveAtValues
<1> HIDE DEF rest
<1>5. j \in 1..Len(rest) /\ rest[j] = u
  <2>1. u \in S \ {v}
    OBVIOUS
  <2> QED BY <1>3, <2>1, PositionFacts
<1> HIDE DEF j
<1>6. /\ q \in Seq(S) /\ Len(q) = Len(s)
      /\ \A k \in 1..Len(s) :
           q[k] = IF k < j + 1 THEN rest[k] ELSE IF k = j + 1 THEN v ELSE rest[k - 1]
  <2>1. j + 1 \in 1..Len(rest)+1 /\ Len(rest) + 1 = Len(s)
    BY <1>2, <1>3, <1>5
  <2>2. /\ q \in Seq(S) /\ Len(q) = Len(rest) + 1
        /\ \A k \in 1..Len(rest)+1 :
           q[k] = IF k < j + 1 THEN rest[k] ELSE IF k = j + 1 THEN v ELSE rest[k - 1]
    <3>1. rest \in Seq(S) /\ v \in S
      BY <1>3
    <3> HIDE DEF q
    <3>2. Inserted(rest, j + 1, v, S, InsertAt(rest, j + 1, v))
      BY ONLY <2>1, <3>1, InsertAtValues
    <3> QED BY <3>2 DEF Inserted, q
  <2> HIDE DEF q
  <2> QED BY <2>1, <2>2
<1> HIDE DEF q
<1>7. /\ DOMAIN rest = 1..Len(s)-1 /\ DOMAIN q = 1..Len(s) /\ Len(s) \in Nat
      /\ \A k \in DOMAIN rest : rest[k] \in S \ {v}
      /\ \A k, l \in DOMAIN rest : rest[k] = rest[l] => k = l
  BY <1>2, <1>3, <1>6 DEF IsOrder, IsInjective
<1>8. j \in 1..Len(s)-1 /\ j + 1 \in 1..Len(s)
  BY <1>5, <1>7
<1>9. IsInjective(q)
  <2> SUFFICES ASSUME NEW k \in 1..Len(s), NEW l \in 1..Len(s), q[k] = q[l] PROVE k = l
    BY <1>7 DEF IsInjective
  <2>1. ASSUME NEW m \in 1..Len(s), m # j + 1
        PROVE  /\ (IF m < j + 1 THEN m ELSE m - 1) \in DOMAIN rest
               /\ q[m] = rest[IF m < j + 1 THEN m ELSE m - 1]
    BY <1>6, <1>7, <1>8, <2>1
  <2>2. q[j + 1] = v
    BY <1>6, <1>8
  <2>3. CASE k = j + 1 \/ l = j + 1
    BY <1>7, <2>1, <2>2, <2>3
  <2>4. CASE k # j + 1 /\ l # j + 1
    <3>1. (IF k < j + 1 THEN k ELSE k - 1) = (IF l < j + 1 THEN l ELSE l - 1)
      BY <1>7, <2>1, <2>4
    <3> QED BY <1>8, <2>4, <3>1
  <2> QED BY <2>3, <2>4
<1>10. ToSet(q) = S
  <2>1. \A k \in DOMAIN q : q[k] \in S
    BY <1>6
  <2>2. ASSUME NEW w \in S PROVE \E k \in DOMAIN q : q[k] = w
    <3>1. CASE w = v
      BY <1>6, <1>7, <1>8, <3>1
    <3>2. CASE w # v
      <4>1. PICK k \in DOMAIN rest : rest[k] = w
        BY <1>3, <3>2 DEF IsOrder, ToSet
      <4>2. CASE k < j + 1
        BY <1>6, <1>7, <1>8, <4>1, <4>2
      <4>3. CASE ~(k < j + 1)
        <5>1. k + 1 \in DOMAIN q /\ ~(k + 1 < j + 1) /\ k + 1 # j + 1 /\ (k + 1) - 1 = k
          BY <1>7, <1>8, <4>3
        <5> QED BY <1>6, <1>7, <4>1, <5>1
      <4> QED BY <4>2, <4>3
    <3> QED BY <3>1, <3>2
  <2> QED BY <2>1, <2>2 DEF ToSet
<1>11. Behind(q, u, v)
  <2>1. j \in 1..Len(s) /\ j < j + 1 /\ ~(j + 1 < j + 1)
    BY <1>8
  <2>2. q[j] = u /\ q[j + 1] = v
    BY <1>5, <1>6, <1>8, <2>1
  <2> QED BY <1>7, <1>8, <2>1, <2>2 DEF Behind
<1>12. ASSUME NEW a \in S, NEW b \in S, Behind(s, a, b), a \notin {v, u}, b # v
       PROVE  Behind(q, a, b)
  <2>1. PICK k \in 1..Len(s) : k + 1 \in 1..Len(s) /\ s[k] = a /\ s[k + 1] = b
    BY <1>2, <1>12 DEF Behind
  <2>2. \E l \in DOMAIN rest : l + 1 \in DOMAIN rest /\ rest[l] = a /\ rest[l + 1] = b
    <3>1. k # i /\ k + 1 # i
      BY <1>2, <1>12, <2>1
    <3>2. CASE k < i
      <4>1. k \in DOMAIN rest /\ k + 1 \in DOMAIN rest /\ k + 1 < i
        BY <1>2, <1>7, <2>1, <3>1, <3>2
      <4> QED BY <1>4, <1>7, <2>1, <3>2, <4>1
    <3>3. CASE ~(k < i)
      <4>1. /\ k - 1 \in DOMAIN rest /\ (k - 1) + 1 \in DOMAIN rest
            /\ ~(k - 1 < i) /\ ~((k - 1) + 1 < i) /\ (k - 1) + 1 = k
        BY <1>2, <1>7, <2>1, <3>1, <3>3
      <4>2. rest[k - 1] = a /\ rest[(k - 1) + 1] = b
        BY <1>4, <1>7, <2>1, <4>1
      <4> QED BY <4>1, <4>2
    <3> QED BY <3>2, <3>3
  <2>3. PICK l \in DOMAIN rest : l + 1 \in DOMAIN rest /\ rest[l] = a /\ rest[l + 1] = b
    BY <2>2
  <2>4. l # j
    BY <1>5, <1>12, <2>3
  <2>5. CASE l < j
    <3>1. l \in 1..Len(s) /\ l + 1 \in 1..Len(s) /\ l < j + 1 /\ l + 1 < j + 1
      BY <1>7, <1>8, <2>3, <2>5
    <3> QED BY <1>6, <1>7, <2>3, <3>1 DEF Behind
  <2>6. CASE l > j
    <3>1. /\ l + 1 \in 1..Len(s) /\ (l + 1) + 1 \in 1..Len(s)
          /\ ~(l + 1 < j + 1) /\ l + 1 # j + 1 /\ (l + 1) - 1 = l
          /\ ~((l + 1) + 1 < j + 1) /\ (l + 1) + 1 # j + 1 /\ ((l + 1) + 1) - 1 = l + 1
      BY <1>7, <1>8, <2>3, <2>6
    <3>2. q[l + 1] = a /\ q[(l + 1) + 1] = b
      BY <1>6, <2>3, <3>1
    <3> QED BY <1>7, <3>1, <3>2 DEF Behind
  <2> QED BY <1>7, <1>8, <2>4, <2>5, <2>6
<1>13. IsOrder(q, S)
  BY <1>6, <1>9, <1>10 DEF IsOrder
<1> QED
  BY <1>1, <1>11, <1>12, <1>13

\* Who the vehicles of S have for leaders within the platoon: nobody follows himself.
Leads(lead, S) == \A v \in S : lead[v] \in (S \ {v}) \cup {NoLeader}

\* No two vehicles have the same leader.
OneBehind(lead, S) == \A v, w \in S : lead[v] = lead[w] /\ lead[v] # NoLeader => v = w

LEMMA TurnKeeps ==
  ASSUME NEW S, NoLeader \notin S, NEW lead, Leads(lead, S), NEW s, IsOrder(s, S),
         NEW i \in 1..Len(s), NEW r, IsOrder(r, S)
  PROVE  IsOrder(Turn(s, lead, i, r), S)
<1>1. CASE InPlace(s, i, lead)
  BY <1>1 DEF Turn
<1>2. CASE ~InPlace(s, i, lead)
  <2>1. s[i] \in S /\ lead[s[i]] # NoLeader
    BY <1>2 DEF IsOrder, InPlace
  <2>2. lead[s[i]] \in S /\ lead[s[i]] # s[i]
    BY <2>1 DEF Leads
  <2>3. IsOrder(Relocate(r, s[i], lead[s[i]]), S)
    BY <2>1, <2>2, RelocateFacts
  <2> QED BY <1>2, <2>3 DEF Turn
<1> QED BY <1>1, <1>2

\* f are the orders in the course of a pass: f[n] the one when n vehicles have had their turn.
Course(f, s, lead, S) ==
  /\ f \in [0..Len(s) -> {r \in Seq(S) : IsOrder(r, S)}] /\ f[0] = s
  /\ \A n \in 1..Len(s) : f[n] = Turn(s, lead, Len(s) + 1 - n, f[n - 1])

LEMMA PassCourse ==
  ASSUME NEW S, NoLeader \notin S, NEW lead, Leads(lead, S), NEW s, IsOrder(s, S)
  PROVE  \E f : Course(f, s, lead, S) /\ ReorderPass(s, lead) = f[Len(s)]
<1> DEFINE N == Len(s)
           X == {r \in Seq(S) : IsOrder(r, S)}
           T(n, r) == Turn(s, lead, N + 1 - n, r)
           step == [n \in 1..N |-> [r \in X |-> T(n, r)]]
           Defined(f) == f = [n \in 0..N |-> IF n = 0 THEN s ELSE T(n, f[n - 1])]
           after == CHOOSE f : Defined(f)
<1>1. N \in Nat /\ s \in X /\ \A r \in X : IsOrder(r, S)
  BY DEF IsOrder
<1>2. ReorderPass(s, lead) = after[N]
  BY DEF ReorderPass
<1>3. ASSUME NEW n \in 1..N, NEW r \in X PROVE T(n, r) \in X
  <2>1. N + 1 - n \in 1..N
    BY <1>1
  <2>2. IsOrder(T(n, r), S)
    BY <1>1, <2>1, TurnKeeps
  <2> QED BY <2>2 DEF IsOrder
<1> HIDE DEF N, X, T
<1>4. step \in [1..N -> [X -> X]] /\ \A n \in 1..N : \A r \in X : step[n][r] = T(n, r)
  BY <1>3
<1> HIDE DEF step
<1>5. PICK f \in [0..N -> X] : f[0] = s /\ \A n \in 1..N : f[n] = step[n][f[n - 1]]
  <2>1. step \in [1..N -> [X -> X]] /\ N \in Nat /\ s \in X
    BY <1>1, <1>4
  <2>2. Iterates(N, X, s, step)
    BY ONLY <2>1, Iteration
  <2> QED BY <2>2 DEF Iterates
<1>6. ASSUME NEW n \in 1..N PROVE f[n] = T(n, f[n - 1])
  <2>1. n - 1 \in 0..N
    BY <1>1
  <2> QED BY <1>4, <1>5, <2>1
<1>7. Defined(f)
  <2>1. ASSUME NEW n \in 0..N PROVE f[n] = IF n = 0 THEN s ELSE T(n, f[n - 1])
    BY <1>1, <1>5, <1>6
  <2> QED BY <1>5, <2>1
<1>8. Defined(after)
  <2> HIDE DEF Defined
  <2> QED BY <1>7
<1> HIDE DEF after
<1>9. /\ \A n \in 0..N : after[n] = IF n = 0 THEN s ELSE T(n, after[n - 1])
      /\ after = [n \in 0..N |-> after[n]]
  <2>1. \A n \in 0..N : after[n] = IF n = 0 THEN s ELSE T(n, after[n - 1])
    BY <1>8
  <2>2. after = [n \in 0..N |-> after[n]]
    BY <1>8
  <2> QED BY <2>1, <2>2
<1> HIDE DEF Defined
<1>10. ASSUME NEW n \in 1..N PROVE after[n] = T(n, after[n - 1])
  <2>1. n \in 0..N /\ n # 0
    BY <1>1
  <2> QED BY ONLY <1>9, <2>1
<1>11. after[0] = s
  <2>1. 0 \in 0..N
    BY <1>1
  <2> QED BY ONLY <1>9, <2>1
<1>12. {n \in 0..N : after[n] \in X} = 0..N
  <2> DEFINE P == {n \in 0..N : after[n] \in X}
  <2>1. 0 \in P
    BY <1>1, <1>11
  <2>2. ASSUME NEW n \in P, n < N PROVE n + 1 \in P
    <3>1. n + 1 \in 1..N /\ n + 1 \in 0..N /\ n + 1 # 0 /\ (n + 1) - 1 = n
      BY <1>1, <2>2
    <3>2. after[n + 1] = T(n + 1, after[n])
      BY <1>10, <3>1
    <3> QED BY <1>3, <3>1, <3>2
  <2>3. P \in SUBSET (0..N)
    OBVIOUS
  <2> HIDE DEF P
  <2>4. P = 0..N
    BY <1>1, <2>1, <2>2, <2>3, Upwards
  <2> QED BY <2>4 DEF P
<1>13. after \in [0..N -> X]
  BY <1>9, <1>12
<1>14. Course(after, s, lead, S)
  BY <1>10, <1>11, <1>13 DEF Course, N, X, T
<1> QED
  BY <1>2, <1>14 DEF N

\* A pass keeps the vehicles.
LEMMA PassKeeps ==
  ASSUME NEW S, NoLeader \notin S, NEW lead, Leads(lead, S), NEW s, IsOrder(s, S)
  PROVE  IsOrder(ReorderPass(s, lead), S)
<1>1. PICK f : Course(f, s, lead, S) /\ ReorderPass(s, lead) = f[Len(s)]
  BY PassCourse
<1>2. Len(s) \in 0..Len(s)
  BY DEF IsOrder
<1> QED
  BY <1>1, <1>2 DEF Course

\* A pass places every vehicle without a leader or with one that is placed.
LEMMA PassPlaces ==
  ASSUME NEW S, NoLeader \notin S, NEW lead, Leads(lead, S), OneBehind(lead, S),
         NEW s, IsOrder(s, S), NEW v \in S, lead[v] # NoLeader => Placed(s, lead[v], lead)
  PROVE  Placed(ReorderPass(s, lead), v, lead)
<1> SUFFICES ASSUME lead[v] # NoLeader PROVE Behind(ReorderPass(s, lead), lead[v], v)
  BY DEF Placed
<1> DEFINE u == lead[v]
           N == Len(s)
           p == Position(s, v)
<1>1. u \in S /\ u # v /\ Placed(s, u, lead)
  BY DEF Leads
<1>2. N \in Nat /\ DOMAIN s = 1..N /\ \A i \in 1..N : s[i] \in S
  BY DEF IsOrder
<1>3. p \in 1..N /\ s[p] = v
  BY PositionFacts
<1>4. \A i \in 1..N : InPlace(s, i, lead) <=> Placed(s, s[i], lead)
  BY <1>2, OrderPlaced
<1>5. PICK f : Course(f, s, lead, S) /\ ReorderPass(s, lead) = f[Len(s)]
  BY PassCourse
<1>6. /\ \A n \in 0..N : IsOrder(f[n], S)
      /\ f[0] = s /\ \A n \in 1..N : f[n] = Turn(s, lead, N + 1 - n, f[n - 1])
  BY <1>5 DEF Course
<1>7. ASSUME NEW i \in 1..N, NEW r, IsOrder(r, S), ~InPlace(s, i, lead)
      PROVE  /\ i = p => Behind(Turn(s, lead, i, r), u, v)
             /\ i # p /\ Behind(r, u, v) => Behind(Turn(s, lead, i, r), u, v)
  <2> DEFINE w == s[i]
  <2>1. w \in S /\ lead[w] # NoLeader
    BY <1>2, <1>7 DEF InPlace
  <2>2. lead[w] \in S /\ lead[w] # w
    BY <2>1 DEF Leads
  <2>3. Turn(s, lead, i, r) = Relocate(r, w, lead[w])
    BY <1>7 DEF Turn
  <2>4. w # u
    BY <1>1, <1>4, <1>7
  <2> HIDE DEF w
  <2>5. /\ Behind(Relocate(r, w, lead[w]), lead[w], w)
        /\ \A a, b \in S :
             Behind(r, a, b) /\ a \notin {w, lead[w]} /\ b # w
               => Behind(Relocate(r, w, lead[w]), a, b)
    BY <1>7, <2>1, <2>2, RelocateFacts
  <2>6. i = p => Behind(Turn(s, lead, i, r), u, v)
    BY <1>3, <2>3, <2>5 DEF w
  <2>7. ASSUME i # p PROVE w # v
    BY <1>2, <1>3, <2>7 DEF w, IsOrder, IsInjective
  <2>8. ASSUME w # v PROVE u \notin {w, lead[w]}
    BY <2>1, <2>4, <2>8 DEF OneBehind
  <2> HIDE DEF u
  <2> QED BY <1>1, <2>3, <2>5, <2>6, <2>7, <2>8
<1> DEFINE P == {n \in 0..N : InPlace(s, p, lead) \/ N < p + n => Behind(f[n], u, v)}
<1>8. 0 \in P
  <2>1. InPlace(s, p, lead) => Behind(s, u, v)
    BY <1>3, <1>4 DEF Placed
  <2> HIDE DEF u, N, p
  <2> QED BY <1>2, <1>3, <1>6, <2>1
<1>9. ASSUME NEW n \in P, n < N PROVE n + 1 \in P
  <2> DEFINE i == N - n
  <2>1. /\ n \in 0..N /\ n + 1 \in 1..N /\ n + 1 \in 0..N /\ i \in 1..N
        /\ N + 1 - (n + 1) = i /\ (n + 1) - 1 = n
    BY <1>2, <1>9
  <2>2. f[n + 1] = Turn(s, lead, i, f[n]) /\ IsOrder(f[n], S)
    BY <1>6, <2>1
  <2>3. N < p + (n + 1) /\ i # p => N < p + n
    BY <1>2, <1>3, <2>1
  <2>4. InPlace(s, p, lead) \/ N < p + n => Behind(f[n], u, v)
    BY <1>9
  <2> HIDE DEF i, u, N, p
  <2>5. ASSUME InPlace(s, p, lead) \/ N < p + (n + 1) PROVE Behind(f[n + 1], u, v)
    <3>1. CASE InPlace(s, i, lead)
      <4>1. f[n + 1] = f[n]
        BY <2>2, <3>1 DEF Turn
      <4> QED BY <2>3, <2>4, <2>5, <3>1, <4>1
    <3>2. CASE ~InPlace(s, i, lead)
      BY <1>7, <2>1, <2>2, <2>3, <2>4, <2>5, <3>2
    <3> QED BY <3>1, <3>2
  <2> QED BY <2>1, <2>5
<1>10. P \in SUBSET (0..N)
  OBVIOUS
<1> HIDE DEF P
<1>11. N \in P
  BY <1>2, <1>8, <1>9, <1>10, Upwards
<1>12. Behind(f[N], u, v)
  <2>1. N < p + N
    BY <1>2, <1>3
  <2> HIDE DEF u, N, p
  <2> QED BY <1>11, <2>1 DEF P
<1> QED
  BY <1>5, <1>12

LEMMA NextPassKeeps ==
  ASSUME NEW S, NoLeader \notin S, NEW lead, Leads(lead, S), NEW s, IsOrder(s, S)
  PROVE  IsOrder(NextPass(s, lead), S)
BY PassKeeps DEF NextPass

\* g are the orders the passes lead to: g[n] the one after n passes.
Passes(g, s, lead, S) ==
  /\ g \in [0..Len(s) -> {r \in Seq(S) : IsOrder(r, S)}] /\ g[0] = s
  /\ \A n \in 1..Len(s) : g[n] = NextPass(g[n - 1], lead)

LEMMA AfterPassesCourse ==
  ASSUME NEW S, NoLeader \notin S, NEW lead, Leads(lead, S), NEW s, IsOrder(s, S)
  PROVE  \E g : Passes(g, s, lead, S) /\ AfterPasses(s, lead) = g[Len(s)]
<1> DEFINE N == Len(s)
           X == {r \in Seq(S) : IsOrder(r, S)}
           step == [n \in 1..N |-> [r \in X |-> NextPass(r, lead)]]
           Defined(f) == f = [n \in 0..N |-> IF n = 0 THEN s ELSE NextPass(f[n - 1], lead)]
           after == CHOOSE f : Defined(f)
<1>1. N \in Nat /\ s \in X /\ \A r \in X : IsOrder(r, S)
  BY DEF IsOrder
<1>2. AfterPasses(s, lead) = after[N]
  BY DEF AfterPasses
<1>3. ASSUME NEW r \in X PROVE NextPass(r, lead) \in X
  <2>1. IsOrder(NextPass(r, lead), S)
    BY <1>1, NextPassKeeps
  <2> QED BY <2>1 DEF IsOrder
<1> HIDE DEF N, X
<1>4. step \in [1..N -> [X -> X]] /\ \A n \in 1..N : \A r \in X : step[n][r] = NextPass(r, lead)
  BY <1>3
<1> HIDE DEF step
<1>5. PICK f \in [0..N -> X] : f[0] = s /\ \A n \in 1..N : f[n] = step[n][f[n - 1]]
  <2>1. step \in [1..N -> [X -> X]] /\ N \in Nat /\ s \in X
    BY <1>1, <1>4
  <2>2. Iterates(N, X, s, step)
    BY ONLY <2>1, Iteration
  <2> QED BY <2>2 DEF Iterates
<1>6. ASSUME NEW n \in 1..N PROVE f[n] = NextPass(f[n - 1], lead)
  <2>1. n - 1 \in 0..N
    BY <1>1
  <2> QED BY <1>4, <1>5, <2>1
<1>7. Defined(f)
  <2>1. ASSUME NEW n \in 0..N PROVE f[n] = IF n = 0 THEN s ELSE NextPass(f[n - 1], lead)
    BY <1>1, <1>5, <1>6
  <2> QED BY <1>5, <2>1
<1>8. Defined(after)
  <2> HIDE DEF Defined
  <2> QED BY <1>7
<1> HIDE DEF after
<1>9. /\ \A n \in 0..N : after[n] = IF n = 0 THEN s ELSE NextPass(after[n - 1], lead)
      /\ after = [n \in 0..N |-> after[n]]
  <2>1. \A n \in 0..N : after[n] = IF n = 0 THEN s ELSE NextPass(after[n - 1], lead)
    BY <1>8
  <2>2. after = [n \in 0..N |-> after[n]]
    BY <1>8
  <2> QED BY <2>1, <2>2
<1> HIDE DEF Defined
<1>10. ASSUME NEW n \in 1..N PROVE after[n] = NextPass(after[n - 1], lead)
  <2>1. n \in 0..N /\ n # 0
    BY <1>1
  <2> QED BY ONLY <1>9, <2>1
<1>11. after[0] = s
  <2>1. 0 \in 0..N
    BY <1>1
  <2> QED BY ONLY <1>9, <2>1
<1>12. {n \in 0..N : after[n] \in X} = 0..N
  <2> DEFINE P == {n \in 0..N : after[n] \in X}
  <2>1. 0 \in P
    BY <1>1, <1>11
  <2>2. ASSUME NEW n \in P, n < N PROVE n + 1 \in P
    <3>1. n + 1 \in 1..N /\ n + 1 \in 0..N /\ (n + 1) - 1 = n
      BY <1>1, <2>2
    <3>2. after[n + 1] = NextPass(after[n], lead)
      BY <1>10, <3>1
    <3> QED BY <1>3, <3>1, <3>2
  <2>3. P \in SUBSET (0..N)
    OBVIOUS
  <2> HIDE DEF P
  <2>4. P = 0..N
    BY <1>1, <2>1, <2>2, <2>3, Upwards
  <2> QED BY <2>4 DEF P
<1>13. after \in [0..N -> X]
  BY <1>9, <1>12
<1>14. Passes(after, s, lead, S)
  BY <1>10, <1>11, <1>13 DEF Passes, N, X
<1> QED
  BY <1>2, <1>14 DEF N

\* reorderVehicles neither loses nor doubles a vehicle.
LEMMA ReorderKeeps ==
  ASSUME NEW S, NoLeader \notin S, NEW lead, \A v \in S : lead[v] \in S \cup {NoLeader},
         NEW s, IsOrder(s, S)
  PROVE  IsOrder(ReorderVehicles(s, lead), S)
<1>1. CASE \E i \in DOMAIN s : lead[s[i]] = s[i]
  BY <1>1 DEF ReorderVehicles
<1>2. CASE ~ \E i \in DOMAIN s : lead[s[i]] = s[i]
  <2>1. Leads(lead, S)
    BY <1>2 DEF Leads, IsOrder, ToSet
  <2>2. PICK g : Passes(g, s, lead, S) /\ AfterPasses(s, lead) = g[Len(s)]
    BY <2>1, AfterPassesCourse
  <2>3. Len(s) \in 0..Len(s)
    BY DEF IsOrder
  <2>4. IsOrder(AfterPasses(s, lead), S)
    BY <2>2, <2>3 DEF Passes
  <2> QED BY <1>2, <2>4 DEF ReorderVehicles
<1> QED BY <1>1, <1>2

\* When there is an order with everybody in place, reorderVehicles finds one.
LEMMA ReorderFinds ==
  ASSUME NEW S, IsFiniteSet(S), NoLeader \notin S, NEW lead,
         \A v \in S : lead[v] \in S \cup {NoLeader},
         NEW s, IsOrder(s, S), NEW t, IsOrder(t, S), InOrder(t, lead)
  PROVE  InOrder(ReorderVehicles(s, lead), lead)
<1> DEFINE N == Len(s)
<1>1. N \in Nat /\ DOMAIN s = 1..N /\ DOMAIN t = 1..N /\ \A i \in 1..N : s[i] \in S /\ t[i] \in S
  <2>1. Len(t) = N
    <3>1. s \in Seq(S) /\ t \in Seq(S) /\ IsInjective(s) /\ IsInjective(t)
          /\ ToSet(s) = S /\ ToSet(t) = S
      BY DEF IsOrder
    <3>2. Cardinality(S) = Len(s) /\ Cardinality(S) = Len(t)
      BY <3>1, InjectiveIsOrder
    <3> QED BY <3>2
  <2> QED BY <2>1 DEF IsOrder
<1>2. \A v \in S : \E i \in 1..N : t[i] = v
  BY <1>1 DEF IsOrder, ToSet
<1>3. \A i, j \in 1..N : t[i] = t[j] => i = j
  BY <1>1 DEF IsOrder, IsInjective
<1> HIDE DEF N
<1>4. ASSUME NEW i \in 1..N, lead[t[i]] # NoLeader
      PROVE  i - 1 \in 1..N /\ lead[t[i]] = t[i - 1]
  BY <1>1, <1>4 DEF InOrder, InPlace, RegisteredLeader
<1>5. Leads(lead, S)
  <2> SUFFICES ASSUME NEW v \in S, lead[v] = v PROVE FALSE
    BY DEF Leads
  <2>1. PICK i \in 1..N : t[i] = v
    BY <1>2
  <2>2. i - 1 \in 1..N /\ t[i - 1] = t[i]
    BY <1>4, <2>1
  <2> QED BY <1>1, <1>3, <2>2
<1>6. OneBehind(lead, S)
  <2> SUFFICES ASSUME NEW v \in S, NEW w \in S, lead[v] = lead[w], lead[v] # NoLeader PROVE v = w
    BY DEF OneBehind
  <2>1. PICK i \in 1..N : t[i] = v
    BY <1>2
  <2>2. PICK j \in 1..N : t[j] = w
    BY <1>2
  <2>3. i - 1 \in 1..N /\ j - 1 \in 1..N /\ t[i - 1] = t[j - 1]
    BY <1>4, <2>1, <2>2
  <2>4. i = j
    BY <1>1, <1>3, <2>3
  <2> QED BY <2>1, <2>2, <2>4
<1>7. PICK g : Passes(g, s, lead, S) /\ AfterPasses(s, lead) = g[N]
  BY <1>5, AfterPassesCourse DEF N
<1>8. /\ \A n \in 0..N : IsOrder(g[n], S)
      /\ \A n \in 1..N : g[n] = NextPass(g[n - 1], lead)
  BY <1>7 DEF Passes, N
<1> DEFINE P == {n \in 0..N : \A j \in 1..N : j <= n + 1 => Placed(g[n], t[j], lead)}
<1>9. 0 \in P
  <2>1. ASSUME NEW j \in 1..N, j <= 0 + 1 PROVE lead[t[j]] = NoLeader
    BY <1>1, <1>4, <2>1
  <2> QED BY <1>1, <2>1 DEF Placed
<1>10. ASSUME NEW n \in P, n < N PROVE n + 1 \in P
  <2>1. n \in 0..N /\ n + 1 \in 1..N /\ n + 1 \in 0..N /\ (n + 1) - 1 = n
    BY <1>1, <1>10
  <2>2. g[n + 1] = NextPass(g[n], lead) /\ IsOrder(g[n], S)
    BY <1>8, <2>1
  <2>3. ASSUME NEW j \in 1..N, j <= (n + 1) + 1 PROVE Placed(g[n + 1], t[j], lead)
    <3>1. t[j] \in S
      BY <1>1
    <3>2. CASE InOrder(g[n], lead)
      <4>1. Placed(g[n], t[j], lead)
        BY <2>2, <3>1, <3>2, OrderPlaced
      <4> QED BY <2>2, <3>2, <4>1 DEF NextPass
    <3>3. CASE ~InOrder(g[n], lead)
      <4>1. ASSUME lead[t[j]] # NoLeader PROVE Placed(g[n], lead[t[j]], lead)
        <5>1. j - 1 \in 1..N /\ lead[t[j]] = t[j - 1] /\ j - 1 <= n + 1
          BY <1>4, <2>1, <2>3, <4>1
        <5> QED BY <1>10, <5>1
      <4>2. Placed(ReorderPass(g[n], lead), t[j], lead)
        BY <1>5, <1>6, <2>2, <3>1, <4>1, PassPlaces
      <4> QED BY <2>2, <3>3, <4>2 DEF NextPass
    <3> QED BY <3>2, <3>3
  <2> QED BY <2>1, <2>3
<1>11. N \in P
  <2>1. P \in SUBSET (0..N)
    OBVIOUS
  <2> HIDE DEF P
  <2>2. P = 0..N
    BY <1>1, <1>9, <1>10, <2>1, Upwards
  <2> QED BY <1>1, <2>2
<1>12. InOrder(g[N], lead)
  <2>1. ASSUME NEW v \in S PROVE Placed(g[N], v, lead)
    <3>1. PICK j \in 1..N : t[j] = v
      BY <1>2
    <3>2. j <= N + 1
      BY <1>1
    <3> QED BY <1>11, <3>1, <3>2
  <2>2. N \in 0..N
    BY <1>1
  <2>3. IsOrder(g[N], S)
    BY <1>8, <2>2
  <2> QED BY <2>1, <2>3, OrderPlaced
<1>13. ~ \E i \in DOMAIN s : lead[s[i]] = s[i]
  BY <1>1, <1>5 DEF Leads
<1> QED
  BY <1>7, <1>12, <1>13 DEF ReorderVehicles

-----------------------------------------------------------------------------
(* Modes.                                                                  *)

\* What the control of one vehicle is.
Control == [mode : Modes, left : 0..SplitTime]

\* No vehicle of S is in mode NONE.
NoneFree(c, S) == \A v \in S : c[v].mode # "NONE"

\* What every change of the modes of the members of s keeps: the others keep their modes, and
\* where several members are without NONE they stay so.
Kept(c, d, s) ==
  /\ d \in [Vehicles -> Control]
  /\ \A v \in Vehicles \ ToSet(s) : d[v].mode = c[v].mode
  /\ Len(s) > 1 /\ NoneFree(c, ToSet(s)) => NoneFree(d, ToSet(s))

\* A platoon that is not empty has a leader.
LEMMA HeadListed ==
  ASSUME NEW s \in Seq(Vehicles), s # << >>
  PROVE /\ ToSet(s) \subseteq Vehicles /\ s[1] \in ToSet(s) /\ Len(s) >= 1
        /\ \A i \in DOMAIN s : s[i] \in ToSet(s)
<1>1. 1 \in DOMAIN s /\ DOMAIN s = 1..Len(s) /\ Len(s) >= 1
  OBVIOUS
<1> QED
  BY <1>1 DEF ToSet

\* setPlatoonMode gives the mode it is asked for.
LEMMA SwitchedFacts ==
  ASSUME NEW r \in Control, NEW m \in Modes
  PROVE Switched(r, m) \in Control /\ Switched(r, m).mode = m
BY PlatooningAssumption DEF Switched, Control, PlatooningAssumption

\* Platoon.getMode answers NONE only when the leader is in mode NONE.
LEMMA GetModeFacts ==
  ASSUME NEW c \in [Vehicles -> Control], NEW s \in Seq(Vehicles), s # << >>
  PROVE /\ GetMode(c, s) \in Modes
        /\ GetMode(c, s) = "NONE" <=> c[s[1]].mode = "NONE"
<1>1. c[s[1]] \in Control
  BY HeadListed
<1> QED
  BY <1>1 DEF GetMode, Control, Modes

\* The mode behind a leader is NONE only behind a leader in NONE.
LEMMA BehindLeaderFacts ==
  ASSUME NEW m \in Modes
  PROVE BehindLeader(m) \in Modes /\ (BehindLeader(m) = "NONE" <=> m = "NONE")
BY DEF BehindLeader, Modes

\* Platoon.setMode, once it has accepted the mode, brings NONE to no platoon of several vehicles.
LEMMA ModesFromKeeps ==
  ASSUME NEW c \in [Vehicles -> Control], NEW s \in Seq(Vehicles), s # << >>,
         NEW m \in Modes, NEW safe, m = "NONE" => Len(s) = 1
  PROVE /\ Kept(c, ModesFrom(c, s, m, safe), s)
        /\ ModesFrom(c, s, m, safe)[s[1]].mode = m
<1> DEFINE d == ModesFrom(c, s, m, safe)
<1>1. ToSet(s) \subseteq Vehicles /\ s[1] \in ToSet(s)
  BY HeadListed
<1>2. ASSUME NEW v \in Vehicles
      PROVE /\ d[v] \in Control
            /\ v = s[1] => d[v].mode = m
            /\ v \notin ToSet(s) => d[v] = c[v]
            /\ m # "NONE" /\ c[v].mode # "NONE" => d[v].mode # "NONE"
  <2>1. d[v] = IF v = s[1] THEN Switched(c[v], m)
               ELSE IF v \in ToSet(s) \cap safe THEN Switched(c[v], BehindLeader(m)) ELSE c[v]
    BY DEF ModesFrom
  <2>2. c[v] \in Control
    OBVIOUS
  <2>3. Switched(c[v], m) \in Control /\ Switched(c[v], m).mode = m
    BY <2>2, SwitchedFacts
  <2>4. /\ Switched(c[v], BehindLeader(m)) \in Control
        /\ Switched(c[v], BehindLeader(m)).mode = BehindLeader(m)
    BY <2>2, SwitchedFacts, BehindLeaderFacts
  <2> HIDE DEF d
  <2> QED
    BY <1>1, <2>1, <2>2, <2>3, <2>4, BehindLeaderFacts
<1>3. d \in [Vehicles -> Control]
  <2>1. \E f : d = [v \in Vehicles |-> f[v]]
    <3>1. d = [v \in Vehicles |-> d[v]]
      BY DEF ModesFrom
    <3> QED
      BY <3>1
  <2> HIDE DEF d
  <2> QED
    BY <1>2, <2>1
<1> HIDE DEF d
<1>4. Len(s) > 1 /\ NoneFree(c, ToSet(s)) => NoneFree(d, ToSet(s))
  <2> SUFFICES ASSUME Len(s) > 1, NoneFree(c, ToSet(s)) PROVE NoneFree(d, ToSet(s))
    OBVIOUS
  <2>1. Len(s) \in Nat
    OBVIOUS
  <2>2. m # "NONE"
    <3> SUFFICES ASSUME m = "NONE" PROVE FALSE
      OBVIOUS
    <3>1. Len(s) = 1
      OBVIOUS
    <3> QED
      BY <2>1, <3>1
  <2> QED
    BY <1>1, <1>2, <2>2 DEF NoneFree
<1>5. \A v \in Vehicles \ ToSet(s) : d[v].mode = c[v].mode
  BY <1>2
<1>6. Kept(c, d, s)
  BY <1>3, <1>4, <1>5 DEF Kept
<1> QED
  BY <1>1, <1>2, <1>6 DEF d

\* To change nothing is such a change.
LEMMA KeptItself ==
  ASSUME NEW c \in [Vehicles -> Control], NEW s
  PROVE Kept(c, c, s)
BY DEF Kept

\* Two such changes in a row are one.
LEMMA KeptTwice ==
  ASSUME NEW c, NEW d, NEW e, NEW s, Kept(c, d, s), Kept(d, e, s)
  PROVE Kept(c, e, s)
BY DEF Kept

\* Platoon.setMode is one, whether it accepts the mode or not (_platoon.py:152).
LEMMA SetModeKeeps ==
  ASSUME NEW c \in [Vehicles -> Control], NEW s \in Seq(Vehicles), s # << >>,
         NEW m \in Modes, NEW safe
  PROVE Kept(c, SetMode(c, s, m, safe), s)
<1>1. CASE ModeAccepted(c, s, m, safe)
  BY <1>1, ModesFromKeeps DEF SetMode, ModeAccepted
<1>2. CASE ~ModeAccepted(c, s, m, safe)
  BY <1>2, KeptItself DEF SetMode
<1> QED
  BY <1>1, <1>2

\* Platoon.adviseMemberModes is one.
LEMMA AdviseKeeps ==
  ASSUME NEW c \in [Vehicles -> Control], NEW s \in Seq(Vehicles), s # << >>, NEW safe
  PROVE Kept(c, Advise(c, s, safe), s)
<1> DEFINE d == Advise(c, s, safe)
           m == GetMode(c, s)
<1>1. ToSet(s) \subseteq Vehicles /\ s[1] \in ToSet(s)
  BY HeadListed
<1>2. m \in Modes /\ (m = "NONE" <=> c[s[1]].mode = "NONE")
  BY GetModeFacts
<1>3. ASSUME NEW v \in Vehicles
      PROVE /\ d[v] \in Control
            /\ v \notin ToSet(s) => d[v] = c[v]
            /\ m # "NONE" /\ c[v].mode # "NONE" => d[v].mode # "NONE"
  <2>1. d[v] = IF v \notin ToSet(s) \cap safe THEN c[v]
               ELSE IF v = s[1] THEN Switched(c[v], m) ELSE Switched(c[v], BehindLeader(m))
    BY DEF Advise
  <2>2. c[v] \in Control
    OBVIOUS
  <2>3. Switched(c[v], m) \in Control /\ Switched(c[v], m).mode = m
    BY <1>2, <2>2, SwitchedFacts
  <2>4. /\ Switched(c[v], BehindLeader(m)) \in Control
        /\ Switched(c[v], BehindLeader(m)).mode = BehindLeader(m)
    BY <1>2, <2>2, SwitchedFacts, BehindLeaderFacts
  <2> HIDE DEF d, m
  <2> QED
    BY <1>1, <1>2, <2>1, <2>2, <2>3, <2>4, BehindLeaderFacts
<1>4. d \in [Vehicles -> Control]
  <2>1. d = [v \in Vehicles |-> d[v]]
    BY DEF Advise
  <2>2. \E f : d = [v \in Vehicles |-> f[v]]
    BY <2>1
  <2> HIDE DEF d
  <2> QED
    BY <1>3, <2>2
<1> HIDE DEF d, m
<1>5. Kept(c, d, s)
  BY <1>1, <1>2, <1>3, <1>4 DEF Kept, NoneFree
<1> QED
  BY <1>5 DEF d

\* The first attempt of _manageLeaders to make the leader a leader again is one.
LEMMA ReinstatedKeeps ==
  ASSUME NEW c \in [Vehicles -> Control], NEW s \in Seq(Vehicles), s # << >>, NEW safe
  PROVE Kept(c, Reinstated(c, s, safe), s)
BY SetModeKeeps, GetModeFacts, KeptItself DEF Reinstated

\* A platoon of several vehicles does not return to NONE.
LEMMA RegularModeFacts ==
  ASSUME NEW s
  PROVE RegularMode(s) \in Modes /\ (RegularMode(s) = "NONE" => Len(s) = 1)
BY DEF RegularMode, Modes

\* removeVehicles does not ask for NONE where several vehicles remain.
LEMMA RemainingModeFacts ==
  ASSUME NEW c, NEW s
  PROVE RemainingMode(c, s) \in Modes /\ (RemainingMode(c, s) = "NONE" => Len(s) = 1)
BY DEF RemainingMode, Modes

-----------------------------------------------------------------------------
(* The invariant                                                            *)

\* step() has not been left by an exception and the manager has not been stopped.
Running == phase \notin {"stopped", "failed"}

\* The lists of departed and arrived vehicles and the life of the vehicles agree: between the
\* loops the lists are used up, a vehicle that drives is connected or still to be added, and
\* what has arrived has left.
Counted ==
  /\ phase \notin {"depart", "failed"} => departed = {}
  /\ phase \notin {"depart", "arrive", "failed"} => arrived = {}
  /\ Running =>
       /\ \A v \in connected \cup departed : life[v] # "waiting"
       /\ \A v \in Vehicles : life[v] = "driving" => v \in connected \cup departed
       /\ \A v \in arrived : life[v] = "left"
       /\ connected \cap departed = {}
  /\ phase = "depart" => arrived \subseteq connected \cup departed
  /\ phase = "arrive" => connected \cap arrived = {}

\* What the loops of step() have still to do: the platoon that is emptied or split and the
\* positions where it is split, and that a platoon that joined another one, or was split off, is
\* not visited again.
Visited ==
  /\ phase \notin {"followers", "leaders"} => pending = {}
  /\ phase # "followers" => cuts = {}
  /\ phase = "arrive" => current \in registered \cup {NoPlatoon}
  /\ phase \notin {"arrive", "followers", "failed"} => current = NoPlatoon
  /\ phase = "followers" =>
       /\ pending \cap registered = {} /\ todo \subseteq registered
       /\ cuts # {} => current \in registered /\ cuts \subseteq 2..Len(platoons[current])
  /\ phase = "leaders" => pending \subseteq registered /\ todo \subseteq registered \ pending

\* The invariant that is inductive.
StepInv == TypeOK /\ Counted /\ Visited /\ MembersAgree /\ NoneIsSolitary

\* What TypeOK says of the control.
LEMMA ControlType == TypeOK => control \in [Vehicles -> Control]
BY DEF TypeOK, Control

\* What MembersAgree says of one platoon.
LEMMA ActivePlatoon ==
  ASSUME StepInv, Running, NEW p \in Active
  PROVE /\ p \in Slots /\ platoons[p] \in Seq(Vehicles) /\ IsInjective(platoons[p])
        /\ ToSet(platoons[p]) = {v \in Vehicles : platoonOf[v] = p}
        /\ phase # "arrive" \/ p # current => platoons[p] # << >>
<1>1. p \in Slots
  BY DEF StepInv, TypeOK, Active
<1> QED
  BY <1>1, Zenon DEF StepInv, TypeOK, MembersAgree, Running

\* NoneIsSolitary survives every change Kept allows in one platoon.
LEMMA SolitaryKept ==
  ASSUME StepInv, Running, NEW p \in Active, Kept(control, control', platoons[p]),
         UNCHANGED platoons, Active' \subseteq Active
  PROVE NoneIsSolitary'
<1> SUFFICES ASSUME NEW q \in Active', Len(platoons[q]) > 1, NEW v \in ToSet(platoons[q])
             PROVE control'[v].mode # "NONE"
  BY DEF NoneIsSolitary
<1>1. q \in Active
  OBVIOUS
<1>2. NoneFree(control, ToSet(platoons[q]))
  BY <1>1 DEF StepInv, NoneIsSolitary, Running, NoneFree
<1>3. CASE q = p
  BY <1>2, <1>3 DEF Kept, NoneFree
<1>4. CASE q # p
  BY <1>1, <1>2, <1>4, ActivePlatoon DEF Kept, NoneFree
<1> QED
  BY <1>3, <1>4

\* StepInv survives SimulationStep.
LEMMA SimulationStepKeeps == StepInv /\ SimulationStep => StepInv'
<1> SUFFICES ASSUME StepInv, SimulationStep PROVE StepInv'
  OBVIOUS
<1> USE DEF StepInv, SimulationStep, lifeVars, groupVars, loopVars
<1>1. TypeOK'
  BY DEF TypeOK, Phases
<1>2. Counted'
  BY DEF Counted, Running, TypeOK
<1>3. Visited'
  BY DEF Visited
<1>4. Active' = Active
  BY DEF Active
<1>5. MembersAgree'
  BY <1>4 DEF MembersAgree
<1>6. NoneIsSolitary'
  BY <1>4 DEF NoneIsSolitary
<1> QED
  BY <1>1, <1>2, <1>3, <1>5, <1>6

\* StepInv survives AddVehicle.
LEMMA AddVehicleKeeps == ASSUME NEW v \in Vehicles PROVE StepInv /\ AddVehicle(v) => StepInv'
<1> SUFFICES ASSUME StepInv, AddVehicle(v) PROVE StepInv'
  OBVIOUS
<1>1. PICK p \in Slots :
        /\ NextSlot(p)
        /\ platoons' = [platoons EXCEPT ![p] = <<v>>]
        /\ platoonOf' = [platoonOf EXCEPT ![v] = p]
        /\ registered' = registered \cup {p}
  BY DEF AddVehicle
<1>2. /\ platoons[p] = << >> /\ p \notin registered \cup pending
      /\ \A w \in Vehicles : platoonOf[w] # p
  BY <1>1 DEF NextSlot, Unused
<1>3. /\ phase = "depart" /\ v \in departed /\ life[v] = "driving"
      /\ connected' = connected \cup {v} /\ departed' = departed \ {v}
      /\ UNCHANGED <<life, arrived, control, sight, phase, todo, current, cuts, pending, since>>
  BY DEF AddVehicle, loopVars
<1>4. TypeOK'
  <2>1. <<v>> \in Seq(Vehicles)
    OBVIOUS
  <2> QED
    BY <1>1, <1>3, <2>1 DEF StepInv, TypeOK
<1>5. Counted'
  BY <1>3 DEF StepInv, Counted, Running
<1>6. Visited'
  BY <1>1, <1>3 DEF StepInv, Visited
<1>7. Active = registered /\ Active' = registered \cup {p}
  BY <1>1, <1>3 DEF Active
<1>8. platoonOf[v] = NoPlatoon /\ p # NoPlatoon
  BY <1>3, PlatooningAssumption DEF StepInv, MembersAgree, Counted, Running, PlatooningAssumption
<1>9. MembersAgree'
  <2>1. {w \in Vehicles : platoonOf'[w] # NoPlatoon} = connected'
    BY <1>1, <1>3, <1>8 DEF StepInv, TypeOK, MembersAgree
  <2>2. \A w \in Vehicles : platoonOf'[w] \in Active' \cup {NoPlatoon}
    BY <1>1, <1>3, <1>7 DEF StepInv, TypeOK, MembersAgree
  <2>3. ASSUME NEW q \in Active'
        PROVE /\ ToSet(platoons'[q]) = {w \in Vehicles : platoonOf'[w] = q}
              /\ IsInjective(platoons'[q]) /\ platoons'[q] # << >>
    <3>1. CASE q = p
      <4>1. platoons'[q] = <<v>>
        BY <1>1, <3>1 DEF StepInv, TypeOK
      <4>2. ToSet(<<v>>) = {v} /\ IsInjective(<<v>>) /\ <<v>> # << >>
        BY DEF ToSet, IsInjective
      <4>3. {w \in Vehicles : platoonOf'[w] = p} = {v}
        BY <1>1, <1>2 DEF StepInv, TypeOK
      <4> QED
        BY <3>1, <4>1, <4>2, <4>3
    <3>2. CASE q # p
      <4>1. q \in Active /\ platoons'[q] = platoons[q]
        BY <1>1, <1>7, <3>2 DEF StepInv, TypeOK
      <4>2. {w \in Vehicles : platoonOf'[w] = q} = {w \in Vehicles : platoonOf[w] = q}
        BY <1>1, <1>7, <1>8, <3>2, <4>1, PlatooningAssumption
           DEF StepInv, TypeOK, PlatooningAssumption
      <4>3. Running
        BY <1>3 DEF Running
      <4> QED
        BY <1>3, <4>1, <4>2, <4>3, ActivePlatoon
    <3> QED
      BY <3>1, <3>2
  <2> QED
    BY <1>3, <2>1, <2>2, <2>3, Zenon DEF MembersAgree
<1>10. NoneIsSolitary'
  <2>1. Len(<<v>>) = 1
    OBVIOUS
  <2>2. ASSUME NEW q \in Active', Len(platoons'[q]) > 1
        PROVE q \in Active /\ platoons'[q] = platoons[q]
    BY <1>1, <1>7, <2>1, <2>2 DEF StepInv, TypeOK
  <2> QED
    BY <1>3, <2>2 DEF StepInv, NoneIsSolitary
<1> QED
  BY <1>4, <1>5, <1>6, <1>9, <1>10 DEF StepInv

\* StepInv survives AddVanished.
LEMMA AddVanishedKeeps == ASSUME NEW v \in Vehicles PROVE StepInv /\ AddVanished(v) => StepInv'
<1> SUFFICES ASSUME StepInv, AddVanished(v) PROVE StepInv'
  OBVIOUS
<1>1. /\ phase = "depart" /\ phase' = "failed"
      /\ UNCHANGED <<lifeVars, groupVars, control, sight, loopVars, since>>
  BY DEF AddVanished
<1> USE <1>1 DEF StepInv, lifeVars, groupVars, loopVars
<1>2. TypeOK'
  BY DEF TypeOK, Phases
<1>3. Counted' /\ Visited' /\ MembersAgree'
  BY DEF Counted, Running, Visited, MembersAgree
<1>4. NoneIsSolitary'
  BY DEF NoneIsSolitary, Active
<1> QED
  BY <1>2, <1>3, <1>4

\* StepInv survives DisconnectArrived.
LEMMA DisconnectArrivedKeeps == StepInv /\ DisconnectArrived => StepInv'
<1> SUFFICES ASSUME StepInv, DisconnectArrived PROVE StepInv'
  OBVIOUS
<1> USE DEF StepInv, DisconnectArrived, groupVars, loopVars
<1>1. TypeOK'
  BY DEF TypeOK, Phases
<1>2. Counted'
  BY DEF Counted, Running, TypeOK
<1>3. Visited'
  BY DEF Visited
<1>4. Active' = Active
  BY DEF Active
<1>5. MembersAgree'
  <2>1. connected' \cup arrived' = connected
    BY DEF Counted
  <2> QED
    BY <1>4, <2>1 DEF MembersAgree
<1>6. NoneIsSolitary'
  BY <1>4 DEF NoneIsSolitary
<1> QED
  BY <1>1, <1>2, <1>3, <1>5, <1>6

\* StepInv survives LeavePlatoon.
LEMMA LeavePlatoonKeeps == ASSUME NEW v \in Vehicles PROVE StepInv /\ LeavePlatoon(v) => StepInv'
<1> SUFFICES ASSUME StepInv, LeavePlatoon(v) PROVE StepInv'
  OBVIOUS
<1> DEFINE p == platoonOf[v]
<1>1. /\ phase = "arrive" /\ v \in arrived /\ current \in {NoPlatoon, p} /\ current' = p
      /\ platoonOf' = [platoonOf EXCEPT ![v] = NoPlatoon]
      /\ arrived' = arrived \ {v}
      /\ control' = [control EXCEPT ![v] = Fresh] /\ sight' = [sight EXCEPT ![v] = Nothing]
      /\ UNCHANGED <<life, departed, connected, registered, phase, todo, cuts, pending, since>>
  BY DEF LeavePlatoon
<1>2. PICK i \in DOMAIN platoons[p] :
        platoons[p][i] = v /\ platoons' = [platoons EXCEPT ![p] = RemoveAt(@, i)]
  BY DEF LeavePlatoon
<1>3. Running /\ Active = registered /\ Active' = registered
  BY <1>1 DEF Running, Active
<1>4. p \in registered /\ p # NoPlatoon
  BY <1>1, <1>3 DEF StepInv, MembersAgree, Running
<1>5. /\ p \in Slots /\ platoons[p] \in Seq(Vehicles) /\ IsInjective(platoons[p])
      /\ ToSet(platoons[p]) = {w \in Vehicles : platoonOf[w] = p}
  BY <1>3, <1>4, ActivePlatoon
<1>6. i \in 1..Len(platoons[p])
  BY <1>2, <1>5
<1> HIDE DEF p
<1>7. /\ RemoveAt(platoons[p], i) \in Seq(Vehicles) /\ IsInjective(RemoveAt(platoons[p], i))
      /\ ToSet(RemoveAt(platoons[p], i)) = ToSet(platoons[p]) \ {v}
      /\ Len(RemoveAt(platoons[p], i)) = Len(platoons[p]) - 1
  BY <1>2, <1>5, <1>6, RemoveAtFacts
<1>8. platoons'[p] = RemoveAt(platoons[p], i) /\ \A q \in Slots \ {p} : platoons'[q] = platoons[q]
  BY <1>2, <1>5 DEF StepInv, TypeOK
<1>9. \A w \in Vehicles : platoonOf'[w] = IF w = v THEN NoPlatoon ELSE platoonOf[w]
  BY <1>1 DEF StepInv, TypeOK
<1>10. TypeOK'
  <2>1. Fresh \in [mode : Modes, left : 0..SplitTime]
    BY PlatooningAssumption DEF Fresh, Modes, PlatooningAssumption
  <2>2. platoons' \in [Slots -> Seq(Vehicles)]
    BY <1>2, <1>5, <1>7 DEF StepInv, TypeOK
  <2>3. current' \in Slots
    BY <1>1, <1>5 DEF p
  <2>4. sight' \in [Vehicles -> Sights]
    BY <1>1, PlatooningAssumption DEF StepInv, TypeOK, PlatooningAssumption
  <2>5. control' \in [Vehicles -> [mode : Modes, left : 0..SplitTime]]
    BY <1>1, <2>1 DEF StepInv, TypeOK
  <2> QED
    BY <1>1, <2>2, <2>3, <2>4, <2>5 DEF StepInv, TypeOK
<1>11. Counted'
  BY <1>1 DEF StepInv, Counted, Running
<1>12. Visited'
  BY <1>1, <1>4 DEF StepInv, Visited, p
<1>13. MembersAgree'
  <2>1. {w \in Vehicles : platoonOf'[w] # NoPlatoon} = connected' \cup arrived'
    BY <1>1, <1>3, <1>9 DEF StepInv, MembersAgree, Running, Counted
  <2>2. \A w \in Vehicles : platoonOf'[w] \in Active' \cup {NoPlatoon}
    BY <1>3, <1>9 DEF StepInv, MembersAgree, Running
  <2>3. ASSUME NEW q \in Active'
        PROVE /\ ToSet(platoons'[q]) = {w \in Vehicles : platoonOf'[w] = q}
              /\ IsInjective(platoons'[q]) /\ (q # current' => platoons'[q] # << >>)
    <3>1. q \in Active /\ q # NoPlatoon /\ q \in Slots
      BY <1>3, PlatooningAssumption DEF StepInv, TypeOK, PlatooningAssumption
    <3>2. CASE q = p
      BY <1>1, <1>5, <1>7, <1>8, <1>9, <3>1, <3>2 DEF p
    <3>3. CASE q # p
      <4>1. /\ IsInjective(platoons[q]) /\ platoons[q] # << >>
            /\ ToSet(platoons[q]) = {w \in Vehicles : platoonOf[w] = q}
        BY <1>1, <1>3, <1>4, <3>1, <3>3, ActivePlatoon DEF p
      <4>2. {w \in Vehicles : platoonOf'[w] = q} = {w \in Vehicles : platoonOf[w] = q}
        BY <1>9, <3>1, <3>3 DEF p
      <4> QED
        BY <1>8, <3>1, <3>3, <4>1, <4>2
    <3> QED
      BY <3>2, <3>3
  <2> QED
    BY <1>1, <2>1, <2>2, <2>3, Zenon DEF MembersAgree
<1>14. NoneIsSolitary'
  <2> SUFFICES ASSUME NEW q \in Active', Len(platoons'[q]) > 1, NEW w \in ToSet(platoons'[q])
               PROVE control'[w].mode # "NONE"
    BY DEF NoneIsSolitary
  <2>1. q \in Active /\ q \in Slots /\ q # NoPlatoon
    BY <1>3, PlatooningAssumption DEF StepInv, TypeOK, PlatooningAssumption
  <2>2. ToSet(platoons[q]) = {u \in Vehicles : platoonOf[u] = q} /\ platoons[q] \in Seq(Vehicles)
    BY <1>3, <2>1, ActivePlatoon
  <2>3. Len(platoons[q]) > 1 /\ w \in ToSet(platoons[q]) /\ w # v
    <3>1. CASE q = p
      BY <1>7, <1>8, <2>1, <2>2, <3>1
    <3>2. CASE q # p
      <4>1. platoons'[q] = platoons[q]
        BY <1>8, <2>1, <3>2
      <4> QED
        BY <2>2, <3>2, <4>1 DEF p
    <3> QED
      BY <3>1, <3>2
  <2>4. control[w].mode # "NONE"
    BY <1>3, <2>1, <2>3 DEF StepInv, NoneIsSolitary, Running
  <2> QED
    BY <1>1, <2>2, <2>3, <2>4 DEF StepInv, TypeOK
<1> QED
  BY <1>10, <1>11, <1>12, <1>13, <1>14 DEF StepInv

\* StepInv survives DropEmpty.
LEMMA DropEmptyKeeps == StepInv /\ DropEmpty => StepInv'
<1> SUFFICES ASSUME StepInv, DropEmpty PROVE StepInv'
  OBVIOUS
<1>1. /\ phase = "arrive" /\ AllLeft(current) /\ platoons[current] = << >>
      /\ registered' = registered \ {current} /\ current' = NoPlatoon
      /\ UNCHANGED <<life, departed, arrived, connected, platoons, platoonOf, control, sight, phase,
                     todo, cuts, pending, since>>
  BY DEF DropEmpty, lifeVars
<1>2. Running /\ Active = registered /\ Active' = registered \ {current}
  BY <1>1 DEF Running, Active
<1>3. current \in registered
  BY <1>1 DEF StepInv, Visited, AllLeft
<1>4. \A v \in Vehicles : platoonOf[v] # current
  <2>1. ToSet(platoons[current]) = {v \in Vehicles : platoonOf[v] = current}
    BY <1>2, <1>3, ActivePlatoon
  <2>2. ToSet(<< >>) = {}
    BY DEF ToSet
  <2> QED
    BY <1>1, <2>1, <2>2
<1>5. TypeOK'
  BY <1>1 DEF StepInv, TypeOK
<1>6. Counted' /\ Visited'
  BY <1>1 DEF StepInv, Counted, Visited, Running
<1>7. MembersAgree'
  BY <1>1, <1>2, <1>4 DEF StepInv, MembersAgree
<1>8. NoneIsSolitary'
  BY <1>1, <1>2 DEF StepInv, NoneIsSolitary
<1> QED
  BY <1>5, <1>6, <1>7, <1>8 DEF StepInv

\* StepInv survives AdviseRemaining.
LEMMA AdviseRemainingKeeps == StepInv /\ AdviseRemaining => StepInv'
<1> SUFFICES ASSUME StepInv, AdviseRemaining PROVE StepInv'
  OBVIOUS
<1> DEFINE s == platoons[current]
<1>1. /\ phase = "arrive" /\ AllLeft(current) /\ s # << >> /\ current' = NoPlatoon
      /\ UNCHANGED <<life, departed, arrived, connected, groupVars, sight, phase,
                     todo, cuts, pending, since>>
  BY DEF AdviseRemaining, lifeVars
<1>2. PICK safe \in SUBSET ToSet(s) :
        control' = SetMode(control, s, RemainingMode(control, s), safe)
  BY DEF AdviseRemaining
<1>3. Running /\ Active = registered /\ Active' = registered
  BY <1>1 DEF Running, Active, groupVars
<1>4. current \in registered
  BY <1>1 DEF StepInv, Visited, AllLeft
<1>5. s \in Seq(Vehicles)
  BY <1>3, <1>4, ActivePlatoon
<1> HIDE DEF s
<1>6. Kept(control, control', s)
  BY <1>1, <1>2, <1>5, SetModeKeeps, RemainingModeFacts, ControlType DEF StepInv
<1>7. TypeOK'
  BY <1>1, <1>6 DEF StepInv, TypeOK, groupVars, Kept, Control
<1>8. Counted' /\ Visited'
  BY <1>1 DEF StepInv, Counted, Visited, Running, groupVars
<1>9. MembersAgree'
  BY <1>1, <1>3 DEF StepInv, MembersAgree, groupVars, s
<1>10. NoneIsSolitary'
  BY <1>1, <1>3, <1>4, <1>6, SolitaryKept DEF groupVars, s
<1> QED
  BY <1>7, <1>8, <1>9, <1>10 DEF StepInv

\* StepInv survives LeaderVanished.
LEMMA LeaderVanishedKeeps == StepInv /\ LeaderVanished => StepInv'
<1> SUFFICES ASSUME StepInv, LeaderVanished PROVE StepInv'
  OBVIOUS
<1> DEFINE s == platoons[current]
           m == RemainingMode(control, s)
<1>1. /\ phase = "arrive" /\ AllLeft(current) /\ s # << >> /\ phase' = "failed"
      /\ UNCHANGED <<lifeVars, groupVars, sight, loopVars, since>>
  BY DEF LeaderVanished
<1>2. PICK i \in DOMAIN s, safe \in SUBSET ToSet(s) :
        control' = IF i = 1 THEN control ELSE ModesFrom(control, SubSeq(s, 1, i - 1), m, safe)
  BY DEF LeaderVanished
<1>3. Running /\ Active = registered /\ Active' = registered
  BY <1>1 DEF Running, Active, groupVars, loopVars
<1>4. current \in registered
  BY <1>1 DEF StepInv, Visited, AllLeft
<1>5. s \in Seq(Vehicles) /\ IsInjective(s)
  BY <1>3, <1>4, ActivePlatoon
<1>6. control \in [Vehicles -> Control]
  BY ControlType DEF StepInv
<1>7. m \in Modes /\ (m = "NONE" => Len(s) = 1)
  BY RemainingModeFacts
<1> HIDE DEF s, m
<1>8. Kept(control, control', s)
  <2>1. CASE i = 1
    BY <1>2, <1>6, <2>1, KeptItself
  <2>2. CASE i # 1
    <3> DEFINE h == SubSeq(s, 1, i - 1)
    <3>1. i \in 1..Len(s) /\ i > 1
      BY <1>5, <2>2
    <3>2. /\ h \in Seq(Vehicles) /\ Len(h) = i - 1 /\ ToSet(h) \subseteq ToSet(s)
      BY <1>5, <3>1, SubSeqFacts
    <3>3. h # << >>
      BY <3>1, <3>2
    <3>4. Len(s) # 1
      BY <3>1
    <3> HIDE DEF h
    <3>5. m # "NONE"
      BY <1>7, <3>4
    <3>6. control' = ModesFrom(control, h, m, safe)
      BY <1>2, <2>2 DEF h
    <3>7. Kept(control, control', h) /\ control'[h[1]].mode = m
      BY <1>6, <1>7, <3>2, <3>3, <3>5, <3>6, ModesFromKeeps
    <3>8. ASSUME NoneFree(control, ToSet(s)) PROVE NoneFree(control', ToSet(s))
      <4>1. ASSUME NEW v \in Vehicles, control[v].mode # "NONE" PROVE control'[v].mode # "NONE"
        <5>1. control'[v] = IF v = h[1] THEN Switched(control[v], m)
                  ELSE IF v \in ToSet(h) \cap safe THEN Switched(control[v], BehindLeader(m))
                  ELSE control[v]
          BY <3>6 DEF ModesFrom
        <5>2. control[v] \in Control
          BY <1>6
        <5> QED
          BY <1>7, <3>5, <4>1, <5>1, <5>2, SwitchedFacts, BehindLeaderFacts
      <4> QED
        BY <1>5, <3>8, <4>1, <1>1, HeadListed DEF NoneFree
    <3> QED
      BY <3>2, <3>7, <3>8 DEF Kept
  <2> QED
    BY <2>1, <2>2
<1>9. TypeOK'
  BY <1>1, <1>8 DEF StepInv, TypeOK, lifeVars, groupVars, loopVars, Kept, Control, Phases
<1>10. Counted' /\ Visited' /\ MembersAgree'
  BY <1>1 DEF StepInv, Counted, Visited, Running, MembersAgree, lifeVars, groupVars, loopVars
<1>11. NoneIsSolitary'
  BY <1>1, <1>3, <1>4, <1>8, SolitaryKept DEF groupVars, s
<1> QED
  BY <1>9, <1>10, <1>11 DEF StepInv

\* StepInv survives EndArrivals.
LEMMA EndArrivalsKeeps == StepInv /\ EndArrivals => StepInv'
<1> SUFFICES ASSUME StepInv, EndArrivals PROVE StepInv'
  OBVIOUS
<1>1. /\ phase = "arrive" /\ arrived = {} /\ current = NoPlatoon
      /\ \/ /\ UpdateVehicleStates
            /\ phase' = "followers" /\ todo' = registered /\ since' = since
         \/ /\ since + 1 < ControlEvery /\ since' = since + 1 /\ phase' = "drive"
            /\ UNCHANGED <<sight, todo>>
      /\ UNCHANGED <<life, departed, arrived, connected, platoons, registered, platoonOf, control,
                     current, cuts, pending>>
  BY DEF EndArrivals, lifeVars, groupVars
<1>2. sight' \in [Vehicles -> Sights]
  <2>1. CASE UpdateVehicleStates
    BY <2>1, PlatooningAssumption DEF UpdateVehicleStates, PlatooningAssumption, StepInv, TypeOK
  <2> QED
    BY <1>1, <2>1 DEF StepInv, TypeOK
<1>3. TypeOK'
  <2>1. since' \in 0..ControlEvery
    BY <1>1, PlatooningAssumption DEF StepInv, TypeOK, PlatooningAssumption
  <2> QED
    BY <1>1, <1>2, <2>1 DEF StepInv, TypeOK, Phases
<1>4. Counted' /\ Visited'
  BY <1>1 DEF StepInv, Counted, Visited, Running
<1>5. Active = registered /\ Active' = registered
  BY <1>1 DEF Active, StepInv, Visited
<1>6. MembersAgree'
  <2>1. \A p \in registered : p # current
    BY <1>1, PlatooningAssumption DEF StepInv, TypeOK, PlatooningAssumption
  <2> QED
    BY <1>1, <1>5, <2>1 DEF StepInv, MembersAgree
<1>7. NoneIsSolitary'
  BY <1>1, <1>5 DEF StepInv, NoneIsSolitary
<1> QED
  BY <1>3, <1>4, <1>6, <1>7 DEF StepInv

\* StepInv survives ManageFollowers.
LEMMA ManageFollowersKeeps ==
  ASSUME NEW p \in Slots PROVE StepInv /\ ManageFollowers(p) => StepInv'
<1> SUFFICES ASSUME StepInv, ManageFollowers(p) PROVE StepInv'
  OBVIOUS
<1> DEFINE s == platoons[p]
           counting == {s[i] : i \in {j \in 2..Len(s) : Apart(p, j)}}
           resting == {s[i] : i \in {j \in 2..Len(s) : FollowsRegistered(p, j)}}
<1>1. /\ phase = "followers" /\ cuts = {} /\ p \in todo
      /\ current' = p /\ todo' = todo \ {p}
      /\ UNCHANGED <<life, departed, arrived, connected, platoons, registered, platoonOf, sight,
                     phase, pending, since>>
  BY DEF ManageFollowers, lifeVars, groupVars
<1>0. PICK safe \in SUBSET ToSet(s) :
        \E left :
          /\ left = [v \in Vehicles |->
                       IF v \in counting THEN CountDown(Advise(control, s, safe)[v].left)
                       ELSE IF v \in resting THEN SplitTime ELSE Advise(control, s, safe)[v].left]
          /\ control' = [v \in Vehicles |-> [mode |-> Advise(control, s, safe)[v].mode,
                                             left |-> left[v]]]
          /\ cuts' = SplitIndices(s, counting, left)
  BY DEF ManageFollowers
<1>2. PICK left :
        /\ left = [v \in Vehicles |->
                     IF v \in counting THEN CountDown(Advise(control, s, safe)[v].left)
                     ELSE IF v \in resting THEN SplitTime ELSE Advise(control, s, safe)[v].left]
        /\ control' = [v \in Vehicles |-> [mode |-> Advise(control, s, safe)[v].mode,
                                           left |-> left[v]]]
        /\ cuts' = SplitIndices(s, counting, left)
  BY <1>0
<1>3. Running /\ Active = registered \cup pending /\ Active' = registered \cup pending
  BY <1>1 DEF Running, Active
<1>4. p \in registered
  BY <1>1 DEF StepInv, Visited
<1>5. s \in Seq(Vehicles) /\ IsInjective(s) /\ s # << >>
  BY <1>1, <1>3, <1>4, ActivePlatoon
<1>6. cuts' \subseteq 2..Len(s)
  BY <1>2 DEF SplitIndices
<1> HIDE DEF s, counting, resting
<1>7. Kept(control, Advise(control, s, safe), s)
  BY <1>5, AdviseKeeps, ControlType DEF StepInv
<1>8. Kept(control, control', s)
  <2> DEFINE d == Advise(control, s, safe)
  <2>1. d \in [Vehicles -> Control]
    BY <1>7 DEF Kept
  <2> HIDE DEF d
  <2>2. ASSUME NEW v \in Vehicles PROVE left[v] \in 0..SplitTime
    <3>1. d[v].left \in 0..SplitTime
      BY <2>1 DEF Control
    <3>2. CountDown(d[v].left) \in 0..SplitTime /\ SplitTime \in 0..SplitTime
      BY <3>1, PlatooningAssumption DEF CountDown, PlatooningAssumption
    <3> QED
      BY <1>2, <3>1, <3>2 DEF d
  <2>3. ASSUME NEW v \in Vehicles
        PROVE control'[v] \in Control /\ control'[v].mode = d[v].mode
    <3>1. d[v].mode \in Modes
      BY <2>1 DEF Control
    <3> QED
      BY <1>2, <2>2, <3>1 DEF d, Control
  <2>4. control' \in [Vehicles -> Control]
    BY <1>2, <2>3
  <2>5. ToSet(s) \subseteq Vehicles
    BY <1>5, HeadListed
  <2> QED
    BY <1>7, <2>3, <2>4, <2>5 DEF Kept, NoneFree, d
<1>9. Len(s) <= Cardinality(Vehicles) /\ Len(s) \in Nat
  BY <1>5, InjectiveIsOrder, PlatooningAssumption DEF PlatooningAssumption
<1>10. TypeOK'
  <2>1. cuts' \in SUBSET (Slots \ {1})
    <3>1. Cardinality(Vehicles) \in Nat
      BY FS_CardinalityType, PlatooningAssumption DEF PlatooningAssumption
    <3> QED
      BY <1>6, <1>9, <3>1 DEF Slots
  <2> QED
    BY <1>1, <1>8, <2>1 DEF StepInv, TypeOK, Kept, Control
<1>11. Counted'
  BY <1>1 DEF StepInv, Counted, Running
<1>12. Visited'
  BY <1>1, <1>4, <1>6 DEF StepInv, Visited, s
<1>13. MembersAgree'
  BY <1>1, <1>3 DEF StepInv, MembersAgree
<1>14. NoneIsSolitary'
  BY <1>1, <1>3, <1>4, <1>8, SolitaryKept DEF s
<1> QED
  BY <1>10, <1>11, <1>12, <1>13, <1>14 DEF StepInv

\* StepInv survives TrySplit.
LEMMA TrySplitKeeps == StepInv /\ TrySplit => StepInv'
<1> SUFFICES ASSUME StepInv, TrySplit PROVE StepInv'
  OBVIOUS
<1> DEFINE s == platoons[current]
           i == Max(cuts)
           head == SubSeq(s, 1, i - 1)
           tail == SubSeq(s, i, Len(s))
<1>1. /\ phase = "followers" /\ cuts # {} /\ cuts' = cuts \ {i}
      /\ UNCHANGED <<life, departed, arrived, connected, registered, sight, phase, todo, current,
                     since>>
  BY DEF TrySplit, lifeVars
<1>2. PICK safe \in SUBSET ToSet(s) :
        (\E p \in Slots : NextSlot(p) /\ Split(safe, p)) \/ NoSplit(safe)
  BY DEF TrySplit
<1>3. Running /\ Active = registered \cup pending /\ Active' = registered \cup pending'
  BY <1>1 DEF Running, Active
<1>4. current \in registered /\ cuts \subseteq 2..Len(s)
  BY <1>1 DEF StepInv, Visited
<1>5. /\ current \in Slots /\ s \in Seq(Vehicles) /\ IsInjective(s)
      /\ ToSet(s) = {v \in Vehicles : platoonOf[v] = current}
  BY <1>3, <1>4, ActivePlatoon
<1>6. i \in cuts /\ i \in 2..Len(s) /\ \A j \in cuts : j <= i
  <2>1. Len(s) \in Nat
    BY <1>5
  <2>2. cuts \in SUBSET (0..Len(s))
    BY <1>4, <2>1
  <2> QED
    BY <1>1, <1>4, <2>1, <2>2, MaxOf
<1>7. Counted'
  BY <1>1 DEF StepInv, Counted, Running
<1>8. CASE NoSplit(safe)
  <2>1. UNCHANGED <<control, platoons, platoonOf, pending>>
    BY <1>8 DEF NoSplit
  <2>2. TypeOK'
    BY <1>1, <2>1 DEF StepInv, TypeOK
  <2>3. Visited'
    BY <1>1, <2>1 DEF StepInv, Visited
  <2>4. MembersAgree' /\ NoneIsSolitary'
    BY <1>1, <1>3, <2>1 DEF StepInv, MembersAgree, NoneIsSolitary
  <2> QED
    BY <1>7, <2>2, <2>3, <2>4 DEF StepInv
<1>9. ASSUME NEW p \in Slots, NextSlot(p), Split(safe, p) PROVE StepInv'
  <2>1. /\ platoons' = [platoons EXCEPT ![current] = head, ![p] = tail]
        /\ platoonOf' = [v \in Vehicles |-> IF v \in ToSet(tail) THEN p ELSE platoonOf[v]]
        /\ pending' = pending \cup {p}
    BY <1>9 DEF Split
  <2>2. /\ ModeAccepted(control, tail, RegularMode(tail), safe)
        /\ control' = IF Len(head) = 1
                      THEN SetMode(ModesFrom(control, tail, RegularMode(tail), safe), head,
                                   "NONE", safe)
                      ELSE ModesFrom(control, tail, RegularMode(tail), safe)
    BY <1>9 DEF Split
  <2>3. /\ platoons[p] = << >> /\ p \notin registered \cup pending
        /\ \A v \in Vehicles : platoonOf[v] # p
    BY <1>9 DEF NextSlot, Unused
  <2>4. /\ head \in Seq(Vehicles) /\ Len(head) = i - 1 /\ IsInjective(head)
        /\ tail \in Seq(Vehicles) /\ Len(tail) = Len(s) - i + 1 /\ IsInjective(tail)
        /\ tail # << >>
        /\ ToSet(head) = ToSet(s) \ ToSet(tail) /\ ToSet(tail) \subseteq ToSet(s)
    BY <1>5, <1>6, SubSeqFacts
  <2>5. head # << >> /\ Len(s) > 1
    BY <1>5, <1>6, <2>4
  <2> HIDE DEF s, i, head, tail
  <2>6. p # current
    BY <1>4, <2>3
  <2>7. /\ platoons'[current] = head /\ platoons'[p] = tail
        /\ \A q \in Slots \ {current, p} : platoons'[q] = platoons[q]
    BY <1>5, <2>1, <2>6 DEF StepInv, TypeOK
  <2>8. \A v \in Vehicles : platoonOf'[v] = IF v \in ToSet(tail) THEN p ELSE platoonOf[v]
    BY <2>1
  <2> DEFINE split == ModesFrom(control, tail, RegularMode(tail), safe)
  <2>9. Kept(control, split, tail)
    BY <2>4, ModesFromKeeps, RegularModeFacts, ControlType DEF StepInv
  <2>10. Kept(split, control', head) \/ control' = split
    <3>1. split \in [Vehicles -> Control]
      BY <2>9 DEF Kept
    <3>2. "NONE" \in Modes
      BY DEF Modes
    <3> HIDE DEF split
    <3>3. Kept(split, SetMode(split, head, "NONE", safe), head)
      BY <2>4, <2>5, <3>1, <3>2, SetModeKeeps
    <3> QED
      BY <2>2, <3>3 DEF split
  <2> HIDE DEF split
  <2>11. ToSet(head) \subseteq Vehicles /\ ToSet(tail) \subseteq Vehicles
    BY <2>4, <2>5, HeadListed
  <2>12. control' \in [Vehicles -> Control]
    BY <2>9, <2>10 DEF Kept
  <2>13. \A v \in Vehicles \ ToSet(s) : control'[v].mode = control[v].mode
    BY <2>4, <2>9, <2>10 DEF Kept
  <2>14. TypeOK'
    <3>1. platoons' \in [Slots -> Seq(Vehicles)]
      BY <2>1, <2>4 DEF StepInv, TypeOK
    <3>2. platoonOf' \in [Vehicles -> Slots \cup {NoPlatoon}]
      BY <2>1 DEF StepInv, TypeOK
    <3> QED
      BY <1>1, <2>1, <2>12, <3>1, <3>2 DEF StepInv, TypeOK, Control
  <2>15. Visited'
    <3>1. cuts' \subseteq 2..Len(head)
      BY <1>1, <1>4, <1>6, <2>4
    <3> QED
      BY <1>1, <1>4, <2>1, <2>3, <2>7, <3>1 DEF StepInv, Visited
  <2>16. NoPlatoon \notin Slots /\ Active' = Active \cup {p}
    BY <1>3, <2>1, PlatooningAssumption DEF PlatooningAssumption
  <2>17. MembersAgree'
    <3>1. {v \in Vehicles : platoonOf'[v] # NoPlatoon} = connected'
      BY <1>1, <1>5, <2>4, <2>8, <2>16 DEF StepInv, MembersAgree
    <3>2. \A v \in Vehicles : platoonOf'[v] \in Active' \cup {NoPlatoon}
      BY <1>3, <2>8, <2>16 DEF StepInv, MembersAgree, Running
    <3>3. ASSUME NEW q \in Active'
          PROVE /\ ToSet(platoons'[q]) = {v \in Vehicles : platoonOf'[v] = q}
                /\ IsInjective(platoons'[q]) /\ platoons'[q] # << >>
      <4>1. CASE q = p
        BY <2>3, <2>4, <2>7, <2>8, <2>11, <4>1
      <4>2. CASE q = current
        BY <1>5, <2>4, <2>5, <2>6, <2>7, <2>8, <2>11, <4>2
      <4>3. CASE q # p /\ q # current
        <5>1. q \in Active /\ q \in Slots
          BY <1>3, <2>16, <4>3 DEF StepInv, TypeOK
        <5>2. /\ ToSet(platoons[q]) = {v \in Vehicles : platoonOf[v] = q}
              /\ IsInjective(platoons[q]) /\ platoons[q] # << >>
          BY <1>1, <1>3, <5>1, ActivePlatoon
        <5>3. {v \in Vehicles : platoonOf'[v] = q} = {v \in Vehicles : platoonOf[v] = q}
          BY <1>5, <2>4, <2>8, <4>3
        <5> QED
          BY <2>7, <4>3, <5>1, <5>2, <5>3
      <4> QED
        BY <4>1, <4>2, <4>3
    <3> QED
      BY <1>1, <3>1, <3>2, <3>3, Zenon DEF MembersAgree
  <2>18. NoneIsSolitary'
    <3> SUFFICES ASSUME NEW q \in Active', Len(platoons'[q]) > 1, NEW v \in ToSet(platoons'[q])
                 PROVE control'[v].mode # "NONE"
      BY DEF NoneIsSolitary
    <3>1. NoneFree(control, ToSet(s))
      BY <1>3, <1>4, <2>5 DEF StepInv, NoneIsSolitary, Running, NoneFree, s
    <3>2. CASE q = p
      <4>1. NoneFree(split, ToSet(tail))
        BY <2>4, <2>7, <2>9, <3>1, <3>2 DEF Kept, NoneFree
      <4> QED
        BY <2>4, <2>7, <2>10, <2>11, <3>2, <4>1 DEF Kept, NoneFree
    <3>3. CASE q = current
      <4>1. Len(head) # 1
        BY <2>6, <2>7, <3>3, <2>4
      <4>2. control' = split
        BY <2>2, <4>1 DEF split
      <4> QED
        BY <2>4, <2>6, <2>7, <2>9, <2>11, <3>1, <3>3, <4>2 DEF Kept, NoneFree
    <3>4. CASE q # p /\ q # current
      <4>1. q \in Active /\ q \in Slots /\ platoons'[q] = platoons[q]
        BY <1>3, <2>7, <2>16, <3>4 DEF StepInv, TypeOK
      <4>2. ToSet(platoons[q]) = {w \in Vehicles : platoonOf[w] = q}
        BY <1>3, <4>1, ActivePlatoon
      <4>3. control[v].mode # "NONE"
        BY <1>3, <4>1 DEF StepInv, NoneIsSolitary, Running
      <4> QED
        BY <1>5, <2>13, <3>4, <4>1, <4>2, <4>3
    <3> QED
      BY <3>2, <3>3, <3>4
  <2> QED
    BY <1>7, <2>14, <2>15, <2>17, <2>18 DEF StepInv
<1> QED
  BY <1>2, <1>8, <1>9

\* StepInv survives EndFollowers.
LEMMA EndFollowersKeeps == StepInv /\ EndFollowers => StepInv'
<1> SUFFICES ASSUME StepInv, EndFollowers PROVE StepInv'
  OBVIOUS
<1>1. /\ phase = "followers" /\ todo = {} /\ cuts = {}
      /\ registered' = registered \cup pending /\ pending' = {}
      /\ current' = NoPlatoon /\ phase' = "order"
      /\ UNCHANGED <<life, departed, arrived, connected, platoons, platoonOf, control, sight, todo,
                     cuts, since>>
  BY DEF EndFollowers, lifeVars
<1>2. TypeOK'
  BY <1>1 DEF StepInv, TypeOK, Phases
<1>3. Counted' /\ Visited'
  BY <1>1 DEF StepInv, Counted, Visited, Running
<1>4. Active' = Active
  BY <1>1 DEF Active
<1>5. MembersAgree' /\ NoneIsSolitary'
  BY <1>1, <1>4 DEF StepInv, MembersAgree, NoneIsSolitary
<1> QED
  BY <1>2, <1>3, <1>5 DEF StepInv

\* What _updatePlatoonOrdering hands to reorderVehicles: an order of the members of the platoon
\* and leaders among them.
LEMMA PlatoonToReorder ==
  ASSUME StepInv, Running, NEW p \in Active
  PROVE  LET T == ToSet(platoons[p])
         IN  /\ IsOrder(platoons[p], T) /\ NoLeader \notin T /\ T \subseteq Vehicles
             /\ \A v \in T : IntraPlatoonLeader[v] \in T \cup {NoLeader}
<1> DEFINE T == ToSet(platoons[p])
<1>1. /\ platoons[p] \in Seq(Vehicles) /\ IsInjective(platoons[p])
      /\ T = {v \in Vehicles : platoonOf[v] = p}
  BY ActivePlatoon
<1>2. platoons[p] \in Seq(T)
  <2>1. \A i \in 1..Len(platoons[p]) : platoons[p][i] \in T
    BY <1>1 DEF ToSet
  <2> HIDE DEF T
  <2> QED BY <1>1, <2>1
<1>3. NoLeader \notin T
  BY <1>1, PlatooningAssumption DEF PlatooningAssumption
<1>4. ASSUME NEW v \in T PROVE IntraPlatoonLeader[v] \in T \cup {NoLeader}
  <2>1. v \in Vehicles /\ platoonOf[v] = p
    BY <1>1
  <2>2. IntraPlatoonLeader[v]
          = IF sight[v].front \in connected /\ platoonOf[sight[v].front] = platoonOf[v]
            THEN sight[v].front ELSE NoLeader
    BY <2>1 DEF IntraPlatoonLeader
  <2>3. connected \subseteq Vehicles
    BY DEF StepInv, TypeOK
  <2> QED
    BY <1>1, <2>1, <2>2, <2>3
<1> QED
  BY <1>1, <1>2, <1>3, <1>4 DEF IsOrder

\* StepInv survives UpdatePlatoonOrdering.
LEMMA UpdatePlatoonOrderingKeeps == StepInv /\ UpdatePlatoonOrdering => StepInv'
<1> SUFFICES ASSUME StepInv, UpdatePlatoonOrdering PROVE StepInv'
  OBVIOUS
<1> DEFINE lead == IntraPlatoonLeader
<1>1. /\ phase = "order" /\ phase' = "leaders" /\ todo' = registered
      /\ platoons' = [p \in Slots |->
                        IF p \in registered THEN ReorderVehicles(platoons[p], lead)
                        ELSE platoons[p]]
      /\ UNCHANGED <<life, departed, arrived, connected, registered, platoonOf, control, sight,
                     current, cuts, pending, since>>
  BY DEF UpdatePlatoonOrdering, lifeVars
<1>2. Running /\ Active = registered /\ Active' = registered
  BY <1>1 DEF Running, Active, StepInv, Visited
<1>3. ASSUME NEW p \in registered
      PROVE /\ platoons'[p] \in Seq(Vehicles) /\ Len(platoons'[p]) = Len(platoons[p])
            /\ IsInjective(platoons'[p]) /\ ToSet(platoons'[p]) = ToSet(platoons[p])
  <2> DEFINE s == platoons[p]
             T == ToSet(s)
             r == ReorderVehicles(s, lead)
  <2>1. p \in Slots /\ s \in Seq(Vehicles) /\ IsInjective(s)
    BY <1>2, ActivePlatoon
  <2>2. platoons'[p] = r
    BY <1>1, <2>1
  <2>3. /\ IsOrder(s, T) /\ NoLeader \notin T /\ T \subseteq Vehicles
        /\ \A v \in T : lead[v] \in T \cup {NoLeader}
    BY <1>2, PlatoonToReorder
  <2>4. Cardinality(T) = Len(s)
    BY <2>1, InjectiveIsOrder, PlatooningAssumption DEF PlatooningAssumption
  <2> HIDE DEF s, T, lead
  <2>5. IsOrder(r, T)
    BY <2>3, ReorderKeeps
  <2> HIDE DEF r
  <2>6. r \in Seq(Vehicles) /\ IsInjective(r) /\ ToSet(r) = T
    <3>1. r \in Seq(T) /\ IsInjective(r) /\ ToSet(r) = T
      BY <2>5 DEF IsOrder
    <3> QED BY <2>3, <3>1
  <2>7. Cardinality(T) = Len(r)
    BY <2>6, InjectiveIsOrder, PlatooningAssumption DEF PlatooningAssumption
  <2> QED
    BY <2>2, <2>4, <2>6, <2>7 DEF s, T
<1> HIDE DEF lead
<1>4. TypeOK'
  <2>1. platoons' \in [Slots -> Seq(Vehicles)]
    BY <1>1, <1>3 DEF StepInv, TypeOK
  <2> QED
    BY <1>1, <2>1 DEF StepInv, TypeOK, Phases
<1>5. Counted' /\ Visited'
  BY <1>1 DEF StepInv, Counted, Visited, Running
<1>6. MembersAgree'
  <2>1. ASSUME NEW p \in registered
        PROVE /\ ToSet(platoons'[p]) = {v \in Vehicles : platoonOf[v] = p}
              /\ IsInjective(platoons'[p]) /\ platoons'[p] # << >>
    <3>1. /\ ToSet(platoons[p]) = {v \in Vehicles : platoonOf[v] = p}
          /\ platoons[p] \in Seq(Vehicles) /\ platoons[p] # << >>
      BY <1>1, <1>2, ActivePlatoon
    <3>2. ToSet(platoons[p]) # {}
      BY <3>1, HeadListed
    <3>3. ToSet(<< >>) = {}
      BY DEF ToSet
    <3> QED
      BY <1>3, <3>1, <3>2, <3>3
  <2> QED
    BY <1>1, <1>2, <2>1 DEF StepInv, MembersAgree
<1>7. NoneIsSolitary'
  BY <1>1, <1>2, <1>3 DEF StepInv, NoneIsSolitary
<1> QED
  BY <1>4, <1>5, <1>6, <1>7 DEF StepInv

\* StepInv survives a turn of _manageLeaders that changes only the modes of one platoon.
LEMMA LeaderAdvised ==
  ASSUME StepInv, NEW p \in Slots, phase = "leaders", p \in todo, todo' = todo \ {p},
         UNCHANGED <<lifeVars, groupVars, sight, phase, current, cuts, since, pending>>,
         Kept(control, control', platoons[p])
  PROVE StepInv'
<1> USE DEF lifeVars, groupVars
<1>1. Running /\ Active = registered \ pending /\ Active' = Active /\ p \in Active
  BY DEF Running, Active, StepInv, Visited
<1>2. TypeOK'
  BY DEF StepInv, TypeOK, Kept, Control
<1>3. Counted' /\ Visited'
  BY DEF StepInv, Counted, Visited, Running
<1>4. MembersAgree'
  BY <1>1 DEF StepInv, MembersAgree
<1>5. NoneIsSolitary'
  BY <1>1, SolitaryKept
<1> QED
  BY <1>2, <1>3, <1>4, <1>5 DEF StepInv

\* Platoon.join leaves nobody in mode NONE, whatever the platoons were before: the members that
\* join take another mode than NONE, and so does a solitary vehicle that is joined.
LEMMA JoinedKeeps ==
  ASSUME NEW c \in [Vehicles -> Control], NEW p \in Slots, NEW q \in Slots, NEW safe,
         platoons[p] \in Seq(Vehicles), platoons[q] \in Seq(Vehicles),
         platoons[p] # << >>, platoons[q] # << >>, ToSet(platoons[p]) \cap ToSet(platoons[q]) = {},
         Len(platoons[p]) > 1 => NoneFree(c, ToSet(platoons[p])),
         Len(platoons[q]) > 1 => NoneFree(c, ToSet(platoons[q]))
  PROVE /\ Joined(c, p, q, safe) \in [Vehicles -> Control]
        /\ NoneFree(Joined(c, p, q, safe), ToSet(platoons[p]) \cup ToSet(platoons[q]))
<1> DEFINE s == platoons[p]
           t == platoons[q]
           m == JoiningMode(c, q)
           switched == ModesFrom(c, s, m, safe)
           d == Joined(c, p, q, safe)
<1>1. /\ ToSet(s) \subseteq Vehicles /\ s[1] \in ToSet(s)
      /\ ToSet(t) \subseteq Vehicles /\ t[1] \in ToSet(t)
  BY HeadListed
<1>2. m \in Modes /\ m # "NONE" /\ (m = "CATCHUP" => GetMode(c, t) = "CATCHUP")
  BY DEF JoiningMode, Modes
<1>3. Kept(c, switched, s) /\ switched[s[1]].mode = m
  BY <1>2, ModesFromKeeps
<1>4. switched \in [Vehicles -> Control]
  BY <1>3 DEF Kept
<1>5. ASSUME NEW v \in ToSet(s) PROVE switched[v].mode # "NONE"
  <2>1. CASE Len(s) > 1
    BY <1>3, <2>1 DEF Kept, NoneFree
  <2>2. CASE ~(Len(s) > 1)
    <3>1. v = s[1]
      BY <2>2 DEF ToSet
    <3> QED
      BY <1>2, <1>3, <3>1
  <2> QED
    BY <2>1, <2>2
<1>6. \A v \in Vehicles \ ToSet(s) : switched[v].mode = c[v].mode
  BY <1>3 DEF Kept
<1>7. d = IF m = "CATCHUP" THEN switched
          ELSE [switched EXCEPT ![t[1]] = Switched(switched[t[1]], "LEADER")]
  BY DEF Joined
<1>8. "LEADER" \in Modes
  BY DEF Modes
<1> HIDE DEF s, t, m, switched, d
<1>9. /\ Switched(switched[t[1]], "LEADER") \in Control
      /\ Switched(switched[t[1]], "LEADER").mode = "LEADER"
  BY <1>1, <1>4, <1>8, SwitchedFacts
<1>10. d \in [Vehicles -> Control]
  BY <1>4, <1>7, <1>9
<1>11. \A v \in Vehicles : v # t[1] => d[v] = switched[v]
  BY <1>4, <1>7
<1>12. d[t[1]].mode # "NONE"
  <2>1. CASE m = "CATCHUP"
    <3>1. t \in Seq(Vehicles) /\ t # << >>
      BY DEF t
    <3>2. c[t[1]].mode # "NONE"
      BY <1>2, <2>1, <3>1, GetModeFacts
    <3>3. t[1] \notin ToSet(s)
      BY <1>1 DEF s, t
    <3> QED
      BY <1>1, <1>6, <1>7, <2>1, <3>2, <3>3
  <2>2. CASE m # "CATCHUP"
    BY <1>1, <1>4, <1>7, <1>9, <2>2
  <2> QED
    BY <2>1, <2>2
<1>13. ASSUME NEW v \in ToSet(t), v # t[1] PROVE d[v].mode # "NONE"
  <2>1. Len(t) > 1
    <3> SUFFICES ASSUME ~(Len(t) > 1) PROVE FALSE
      OBVIOUS
    <3>1. t \in Seq(Vehicles)
      BY DEF t
    <3>2. v = t[1]
      BY <3>1 DEF ToSet
    <3> QED
      BY <1>13, <3>2
  <2>2. c[v].mode # "NONE"
    BY <2>1 DEF NoneFree, t
  <2>3. v \notin ToSet(s)
    BY DEF s, t
  <2> QED
    BY <1>1, <1>6, <1>11, <1>13, <2>2, <2>3
<1>14. NoneFree(d, ToSet(s) \cup ToSet(t))
  BY <1>1, <1>5, <1>11, <1>12, <1>13 DEF NoneFree
<1> QED
  BY <1>10, <1>14 DEF d, s, t

\* Platoon.join changes the modes of no vehicle of a third platoon.
LEMMA JoinedSparesOthers ==
  ASSUME NEW c \in [Vehicles -> Control], NEW p \in Slots, NEW q \in Slots, NEW safe,
         platoons[p] \in Seq(Vehicles), platoons[q] \in Seq(Vehicles),
         platoons[p] # << >>, platoons[q] # << >>, ToSet(platoons[p]) \cap ToSet(platoons[q]) = {},
         Len(platoons[p]) > 1 => NoneFree(c, ToSet(platoons[p])),
         Len(platoons[q]) > 1 => NoneFree(c, ToSet(platoons[q])),
         NEW v \in Vehicles, v \notin ToSet(platoons[p]), v \notin ToSet(platoons[q])
  PROVE Joined(c, p, q, safe)[v].mode = c[v].mode
<1>1. /\ platoons[p][1] \in ToSet(platoons[p]) /\ platoons[q][1] \in ToSet(platoons[q])
  BY HeadListed
<1>2. ModesFrom(c, platoons[p], JoiningMode(c, q), safe)[v] = c[v]
  BY <1>1 DEF ModesFrom
<1>3. ModesFrom(c, platoons[p], JoiningMode(c, q), safe) \in [Vehicles -> Control]
  <2>1. JoiningMode(c, q) \in Modes /\ JoiningMode(c, q) # "NONE"
    BY DEF JoiningMode, Modes
  <2> QED
    BY <2>1, ModesFromKeeps DEF Kept
<1>4. Joined(c, p, q, safe)[v] = c[v]
  BY <1>1, <1>2, <1>3 DEF Joined
<1> QED
  BY <1>4

\* StepInv survives ManageLeaders.
LEMMA ManageLeadersKeeps ==
  ASSUME NEW p \in Slots PROVE StepInv /\ ManageLeaders(p) => StepInv'
<1> SUFFICES ASSUME StepInv, ManageLeaders(p) PROVE StepInv'
  OBVIOUS
<1> DEFINE s == platoons[p]
<1>1. /\ phase = "leaders" /\ p \in todo /\ todo' = todo \ {p}
      /\ UNCHANGED <<lifeVars, registered, sight, phase, current, cuts, since>>
  BY DEF ManageLeaders
<1>2. PICK safe1 \in SUBSET ToSet(s), safe2 \in SUBSET Vehicles :
        \/ LeadAlone(p, safe1, safe2) \/ LeadOn(p, safe1)
        \/ CatchUp(p, safe1, safe2) \/ Join(p, safe1, safe2)
  BY DEF ManageLeaders
<1>3. Running /\ Active = registered \ pending /\ p \in Active
  BY <1>1 DEF Running, Active, StepInv, Visited
<1>4. s \in Seq(Vehicles) /\ IsInjective(s) /\ s # << >>
      /\ ToSet(s) = {v \in Vehicles : platoonOf[v] = p}
  BY <1>1, <1>3, ActivePlatoon
<1> DEFINE c == Reinstated(control, s, safe1)
<1>5. Kept(control, c, s) /\ c \in [Vehicles -> Control]
  <2>1. Kept(control, c, s)
    BY <1>4, ReinstatedKeeps, ControlType DEF StepInv
  <2> HIDE DEF c, s
  <2> QED
    BY <2>1 DEF Kept
<1>6. ASSUME NEW m \in Modes PROVE Kept(control, SetMode(c, s, m, safe2), s)
  <2> HIDE DEF c, s
  <2> QED
    BY <1>4, <1>5, SetModeKeeps, KeptTwice
<1>7. CASE LeadAlone(p, safe1, safe2)
  <2>1. /\ control' = SetMode(c, s, RegularMode(s), safe2)
        /\ UNCHANGED <<platoons, platoonOf, pending>>
    BY <1>7 DEF LeadAlone
  <2> QED
    BY <1>1, <1>6, <2>1, LeaderAdvised, RegularModeFacts DEF groupVars
<1>8. CASE LeadOn(p, safe1)
  <2>1. control' = c /\ UNCHANGED <<platoons, platoonOf, pending>>
    BY <1>8 DEF LeadOn
  <2> QED
    BY <1>1, <1>5, <2>1, LeaderAdvised DEF groupVars
<1>9. CASE CatchUp(p, safe1, safe2)
  <2>1. control' = SetMode(c, s, "CATCHUP", safe2) /\ UNCHANGED <<platoons, platoonOf, pending>>
    BY <1>9 DEF CatchUp
  <2>2. "CATCHUP" \in Modes
    BY DEF Modes
  <2> QED
    BY <1>1, <1>6, <2>1, <2>2, LeaderAdvised DEF groupVars
<1>10. CASE Join(p, safe1, safe2)
  <2> DEFINE q == platoonOf[sight[s[1]].front]
             t == platoons[q]
  <2>1. /\ sight[s[1]].front \in connected /\ q # p
        /\ \/ /\ control' = Joined(c, p, q, safe2)
              /\ platoons' = [platoons EXCEPT ![q] = @ \o s]
              /\ platoonOf' = [v \in Vehicles |-> IF v \in ToSet(s) THEN q ELSE platoonOf[v]]
              /\ pending' = pending \cup {p}
           \/ control' = c /\ UNCHANGED <<platoons, platoonOf, pending>>
    BY <1>10 DEF Join
  <2>2. CASE control' = c /\ UNCHANGED <<platoons, platoonOf, pending>>
    BY <1>1, <1>5, <2>2, LeaderAdvised DEF groupVars
  <2>3. CASE /\ control' = Joined(c, p, q, safe2)
             /\ platoons' = [platoons EXCEPT ![q] = @ \o s]
             /\ platoonOf' = [v \in Vehicles |-> IF v \in ToSet(s) THEN q ELSE platoonOf[v]]
             /\ pending' = pending \cup {p}
    <3>1. q \in Active
      <4>1. sight[s[1]].front \in Vehicles /\ sight[s[1]].front \in connected
        BY <2>1 DEF StepInv, TypeOK
      <4>2. \A v \in connected : platoonOf[v] \in Active
        BY <1>3 DEF StepInv, MembersAgree, Running, TypeOK
      <4> QED
        BY <4>1, <4>2
    <3>2. /\ q \in Slots /\ t \in Seq(Vehicles) /\ IsInjective(t) /\ t # << >>
          /\ ToSet(t) = {v \in Vehicles : platoonOf[v] = q}
      BY <1>1, <1>3, <3>1, ActivePlatoon
    <3>3. Active' = Active \ {p} /\ p # q /\ NoPlatoon \notin Slots
      BY <1>1, <1>3, <2>1, <2>3, PlatooningAssumption DEF Active, PlatooningAssumption
    <3> HIDE DEF q
    <3>4. platoons'[q] = t \o s /\ \A r \in Slots \ {q} : platoons'[r] = platoons[r]
      BY <2>3, <3>2 DEF StepInv, TypeOK
    <3>5. \A v \in Vehicles : platoonOf'[v] = IF v \in ToSet(s) THEN q ELSE platoonOf[v]
      BY <2>3
    <3>6. /\ t \o s \in Seq(Vehicles) /\ IsInjective(t \o s)
          /\ ToSet(t \o s) = ToSet(t) \cup ToSet(s)
      <4>1. ToSet(t) \cap ToSet(s) = {}
        BY <1>4, <3>2, <3>3
      <4> HIDE DEF s, t
      <4> QED
        BY <1>4, <3>2, <4>1, ConcatFacts
    <3>7. t \o s # << >>
      <4>1. ToSet(t) # {}
        BY <3>2, HeadListed
      <4>2. ToSet(<< >>) = {}
        BY DEF ToSet
      <4> QED
        BY <3>6, <4>1, <4>2
    <3>8. /\ control' \in [Vehicles -> Control] /\ NoneFree(control', ToSet(s) \cup ToSet(t))
          /\ \A v \in Vehicles \ (ToSet(s) \cup ToSet(t)) : control'[v].mode = control[v].mode
      <4>1. ToSet(s) \cap ToSet(t) = {}
        BY <1>4, <3>2, <3>3
      <4>2. Len(s) > 1 => NoneFree(control, ToSet(s))
        BY <1>3 DEF StepInv, NoneIsSolitary, Running, NoneFree
      <4>3. Len(s) > 1 => NoneFree(c, ToSet(s))
        BY <1>5, <4>2 DEF Kept
      <4>4. Len(t) > 1 => NoneFree(control, ToSet(t))
        BY <1>3, <3>1 DEF StepInv, NoneIsSolitary, Running, NoneFree
      <4>5. \A v \in Vehicles \ ToSet(s) : c[v].mode = control[v].mode
        BY <1>5 DEF Kept
      <4>6. Len(t) > 1 => NoneFree(c, ToSet(t))
        BY <3>2, <3>3, <1>4, <4>4, <4>5 DEF NoneFree
      <4>7. /\ platoons[p] \in Seq(Vehicles) /\ platoons[q] \in Seq(Vehicles)
            /\ platoons[p] # << >> /\ platoons[q] # << >>
            /\ ToSet(platoons[p]) \cap ToSet(platoons[q]) = {}
            /\ Len(platoons[p]) > 1 => NoneFree(c, ToSet(platoons[p]))
            /\ Len(platoons[q]) > 1 => NoneFree(c, ToSet(platoons[q]))
        BY <1>4, <3>2, <4>1, <4>3, <4>6
      <4>8. PICK c0 \in [Vehicles -> Control], q0 \in Slots : c0 = c /\ q0 = q
        BY <1>5, <3>2
      <4>9. /\ Joined(c0, p, q0, safe2) \in [Vehicles -> Control]
            /\ NoneFree(Joined(c0, p, q0, safe2), ToSet(platoons[p]) \cup ToSet(platoons[q0]))
            /\ \A v \in Vehicles \ (ToSet(platoons[p]) \cup ToSet(platoons[q0])) :
                 Joined(c0, p, q0, safe2)[v].mode = c0[v].mode
        <5>1. /\ platoons[p] \in Seq(Vehicles) /\ platoons[q0] \in Seq(Vehicles)
              /\ platoons[p] # << >> /\ platoons[q0] # << >>
              /\ ToSet(platoons[p]) \cap ToSet(platoons[q0]) = {}
              /\ Len(platoons[p]) > 1 => NoneFree(c0, ToSet(platoons[p]))
              /\ Len(platoons[q0]) > 1 => NoneFree(c0, ToSet(platoons[q0]))
          BY <4>7, <4>8
        <5>2. Joined(c0, p, q0, safe2) \in [Vehicles -> Control]
          BY <5>1, JoinedKeeps
        <5>3. NoneFree(Joined(c0, p, q0, safe2), ToSet(platoons[p]) \cup ToSet(platoons[q0]))
          BY <5>1, JoinedKeeps
        <5>4. ASSUME NEW v \in Vehicles \ (ToSet(platoons[p]) \cup ToSet(platoons[q0]))
              PROVE Joined(c0, p, q0, safe2)[v].mode = c0[v].mode
          BY <5>1, JoinedSparesOthers
        <5> QED
          BY <5>2, <5>3, <5>4
      <4>11. control' = Joined(c0, p, q0, safe2)
        <5> HIDE DEF c
        <5> QED
          BY <2>3, <4>8 DEF Joined, JoiningMode
      <4> HIDE DEF c
      <4>10. /\ control' \in [Vehicles -> Control] /\ NoneFree(control', ToSet(s) \cup ToSet(t))
             /\ \A v \in Vehicles \ (ToSet(s) \cup ToSet(t)) : control'[v].mode = c[v].mode
        BY <4>8, <4>9, <4>11
      <4> QED
        BY <4>5, <4>10
    <3> HIDE DEF c, s, t
    <3>9. TypeOK'
      <4>1. platoons' \in [Slots -> Seq(Vehicles)]
        BY <2>3, <3>2, <3>4, <3>6 DEF StepInv, TypeOK, t
      <4>2. platoonOf' \in [Vehicles -> Slots \cup {NoPlatoon}]
        BY <2>3, <3>2 DEF StepInv, TypeOK
      <4> QED
        BY <1>1, <2>3, <3>8, <4>1, <4>2 DEF StepInv, TypeOK, Control, lifeVars
    <3>10. Counted' /\ Visited'
      BY <1>1, <1>3, <2>3 DEF StepInv, Counted, Visited, Running, lifeVars
    <3>11. MembersAgree'
      <4>1. {v \in Vehicles : platoonOf'[v] # NoPlatoon} = connected'
        BY <1>1, <1>4, <3>2, <3>3, <3>5 DEF StepInv, MembersAgree, lifeVars
      <4>2. \A v \in Vehicles : platoonOf'[v] \in Active' \cup {NoPlatoon}
        BY <1>3, <1>4, <3>1, <3>3, <3>5 DEF StepInv, MembersAgree, Running
      <4>3. ASSUME NEW r \in Active'
            PROVE /\ ToSet(platoons'[r]) = {v \in Vehicles : platoonOf'[v] = r}
                  /\ IsInjective(platoons'[r]) /\ platoons'[r] # << >>
        <5>1. r \in Active /\ r # p
          BY <3>3
        <5>2. CASE r = q
          <6>1. {v \in Vehicles : platoonOf'[v] = q} = ToSet(t) \cup ToSet(s)
            BY <1>4, <3>2, <3>5
          <6> QED
            BY <3>4, <3>6, <3>7, <5>2, <6>1
        <5>3. CASE r # q
          <6>1. /\ r \in Slots /\ ToSet(platoons[r]) = {v \in Vehicles : platoonOf[v] = r}
                /\ IsInjective(platoons[r]) /\ platoons[r] # << >>
            BY <1>1, <1>3, <5>1, ActivePlatoon
          <6>2. {v \in Vehicles : platoonOf'[v] = r} = {v \in Vehicles : platoonOf[v] = r}
            BY <1>4, <3>5, <5>1, <5>3
          <6> QED
            BY <3>4, <5>3, <6>1, <6>2
        <5> QED
          BY <5>2, <5>3
      <4> QED
        BY <1>1, <4>1, <4>2, <4>3, Zenon DEF MembersAgree
    <3>12. NoneIsSolitary'
      <4> SUFFICES ASSUME NEW r \in Active', Len(platoons'[r]) > 1, NEW v \in ToSet(platoons'[r])
                   PROVE control'[v].mode # "NONE"
        BY DEF NoneIsSolitary
      <4>1. r \in Active /\ r # p
        BY <3>3
      <4>2. CASE r = q
        BY <3>4, <3>6, <3>8, <4>2 DEF NoneFree
      <4>3. CASE r # q
        <5>1. r \in Slots /\ ToSet(platoons[r]) = {w \in Vehicles : platoonOf[w] = r}
          BY <1>3, <4>1, ActivePlatoon
        <5>2. platoons'[r] = platoons[r]
          BY <3>4, <4>3, <5>1
        <5>3. control[v].mode # "NONE"
          BY <1>3, <4>1, <5>2 DEF StepInv, NoneIsSolitary, Running
        <5> QED
          BY <1>4, <3>2, <3>8, <4>1, <4>3, <5>1, <5>2, <5>3
      <4> QED
        BY <4>2, <4>3
    <3> QED
      BY <3>9, <3>10, <3>11, <3>12 DEF StepInv
  <2> QED
    BY <2>1, <2>2, <2>3
<1> QED
  BY <1>2, <1>7, <1>8, <1>9, <1>10

\* StepInv survives EndLeaders.
LEMMA EndLeadersKeeps == StepInv /\ EndLeaders => StepInv'
<1> SUFFICES ASSUME StepInv, EndLeaders PROVE StepInv'
  OBVIOUS
<1>1. /\ phase = "leaders" /\ todo = {}
      /\ registered' = registered \ pending /\ pending' = {}
      /\ platoons' = [p \in Slots |-> IF p \in pending THEN << >> ELSE platoons[p]]
      /\ since' = 0 /\ phase' = "drive"
      /\ UNCHANGED <<life, departed, arrived, connected, platoonOf, control, sight, todo, current,
                     cuts>>
  BY DEF EndLeaders, lifeVars
<1>2. TypeOK'
  <2>1. << >> \in Seq(Vehicles)
    OBVIOUS
  <2>2. platoons' \in [Slots -> Seq(Vehicles)]
    BY <1>1, <2>1 DEF StepInv, TypeOK
  <2> QED
    BY <1>1, <2>2, PlatooningAssumption DEF StepInv, TypeOK, Phases, PlatooningAssumption
<1>3. Counted' /\ Visited'
  BY <1>1 DEF StepInv, Counted, Visited, Running
<1>4. Active' = Active /\ Active = registered \ pending
  BY <1>1 DEF Active
<1>5. \A p \in Active : platoons'[p] = platoons[p]
  BY <1>1, <1>4 DEF StepInv, TypeOK
<1>6. MembersAgree' /\ NoneIsSolitary'
  BY <1>1, <1>4, <1>5 DEF StepInv, MembersAgree, NoneIsSolitary
<1> QED
  BY <1>2, <1>3, <1>6 DEF StepInv

\* StepInv survives Stop.
LEMMA StopKeeps == StepInv /\ Stop => StepInv'
<1> SUFFICES ASSUME StepInv, Stop PROVE StepInv'
  OBVIOUS
<1>1. /\ phase = "drive" /\ phase' = "stopped" /\ connected' = {}
      /\ control' = [v \in Vehicles |->
                       IF v \in connected THEN Switched(control[v], "NONE") ELSE control[v]]
      /\ UNCHANGED <<life, departed, arrived, platoons, registered, platoonOf, sight, todo, current,
                     cuts, pending, since>>
  BY DEF Stop, groupVars, loopVars
<1>2. TypeOK'
  <2>1. "NONE" \in Modes
    BY DEF Modes
  <2>2. \A v \in Vehicles : control[v] \in Control /\ Switched(control[v], "NONE") \in Control
    BY <2>1, ControlType, SwitchedFacts DEF StepInv
  <2>3. control' \in [Vehicles -> Control]
    BY <1>1, <2>2
  <2> QED
    BY <1>1, <2>3 DEF StepInv, TypeOK, Phases, Control
<1>3. Counted' /\ Visited' /\ MembersAgree' /\ NoneIsSolitary'
  BY <1>1 DEF StepInv, Counted, Visited, Running, MembersAgree, NoneIsSolitary
<1> QED
  BY <1>2, <1>3 DEF StepInv

\* StepInv survives a step that changes nothing.
LEMMA StutterKeeps == StepInv /\ UNCHANGED vars => StepInv'
BY DEF StepInv, TypeOK, Counted, Visited, Running, MembersAgree, NoneIsSolitary, Active,
       vars, lifeVars, groupVars, loopVars

\* StepInv holds initially.
LEMMA InitKeeps == Init => StepInv
<1> SUFFICES ASSUME Init PROVE StepInv
  OBVIOUS
<1> USE DEF Init
<1>1. TypeOK
  <2>1. << >> \in Seq(Vehicles)
    OBVIOUS
  <2>2. Fresh \in [mode : Modes, left : 0..SplitTime] /\ Nothing \in Sights
    BY PlatooningAssumption DEF Fresh, Modes, PlatooningAssumption
  <2>3. ControlEvery \in 0..ControlEvery
    BY PlatooningAssumption DEF PlatooningAssumption
  <2> QED
    BY <2>1, <2>2, <2>3 DEF TypeOK, Phases
<1>2. Counted /\ Visited
  BY DEF Counted, Visited, Running
<1>3. MembersAgree /\ NoneIsSolitary
  BY DEF MembersAgree, NoneIsSolitary, Active
<1> QED
  BY <1>1, <1>2, <1>3 DEF StepInv

\* StepInv survives every step.
LEMMA NextKeeps == StepInv /\ [Next]_vars => StepInv'
<1> SUFFICES ASSUME StepInv, [Next]_vars PROVE StepInv'
  OBVIOUS
<1>1. CASE SimulationStep \/ Stop
  BY <1>1, SimulationStepKeeps, StopKeeps
<1>2. CASE \E v \in Vehicles : AddVehicle(v) \/ AddVanished(v) \/ LeavePlatoon(v)
  BY <1>2, AddVehicleKeeps, AddVanishedKeeps, LeavePlatoonKeeps
<1>3. CASE DisconnectArrived \/ DropEmpty \/ AdviseRemaining \/ LeaderVanished \/ EndArrivals
  BY <1>3, DisconnectArrivedKeeps, DropEmptyKeeps, AdviseRemainingKeeps, LeaderVanishedKeeps,
     EndArrivalsKeeps
<1>4. CASE \E p \in Slots : ManageFollowers(p) \/ ManageLeaders(p)
  BY <1>4, ManageFollowersKeeps, ManageLeadersKeeps
<1>5. CASE TrySplit \/ EndFollowers \/ UpdatePlatoonOrdering \/ EndLeaders
  BY <1>5, TrySplitKeeps, EndFollowersKeeps, UpdatePlatoonOrderingKeeps, EndLeadersKeeps
<1>6. CASE Over \/ UNCHANGED vars
  BY <1>6, StutterKeeps DEF Over
<1> QED
  BY <1>1, <1>2, <1>3, <1>4, <1>5, <1>6 DEF Next, StepOfManager

\* StepInv holds always.
LEMMA Inductive == Spec => []StepInv
BY InitKeeps, NextKeeps, PTL DEF Spec

\* The variables keep their types: in particular every split index is one of a follower, and the
\* slots never run out.
THEOREM PlatoonTypeCorrect == Spec => []TypeOK
<1>1. StepInv => TypeOK
  BY DEF StepInv
<1> QED
  BY <1>1, Inductive, PTL

\* The lists of the platoons, the references of the vehicles and the dictionaries of the manager
\* agree whenever step() reads them (_platoonmanager.py:143-164), for every number of vehicles,
\* every order of the loops and every answer of isSwitchSafe.
THEOREM PlatoonMembersAgree == Spec => []MembersAgree
<1>1. StepInv => MembersAgree
  BY DEF StepInv
<1> QED
  BY <1>1, Inductive, PTL

\* A vehicle in mode NONE is alone in its platoon (_platoon.py:152, 270), for every number of
\* vehicles and every answer of isSwitchSafe.
THEOREM PlatoonNoneIsSolitary == Spec => []NoneIsSolitary
<1>1. StepInv => NoneIsSolitary
  BY DEF StepInv
<1> QED
  BY <1>1, Inductive, PTL

\* Whenever some order has everybody behind the leader they have within the platoon,
\* _updatePlatoonOrdering finds such an order (_platoonmanager.py:487), whatever the number of
\* vehicles, the order they are registered in and their leaders: one pass of reorderVehicles for
\* each vehicle is enough.
THEOREM PlatoonOrderFound == Spec => OrderFound
<1> DEFINE Found ==
      \A p \in registered :
        (\E s \in SetToSeqs(ToSet(platoons[p])) : InRealOrder(s)) => InRealOrder(platoons'[p])
<1>1. ASSUME StepInv, [Next]_vars, phase = "order", ~ UNCHANGED vars PROVE Found
  <2>1. UpdatePlatoonOrdering
    BY <1>1 DEF Next, StepOfManager, SimulationStep, Stop, Over, AddVehicle, AddVanished,
       LeavePlatoon, DisconnectArrived, DropEmpty, AdviseRemaining, LeaderVanished, EndArrivals,
       ManageFollowers, ManageLeaders, TrySplit, EndFollowers, EndLeaders
  <2>2. Running /\ Active = registered /\ registered \subseteq Slots
    BY <1>1 DEF Running, Active, StepInv, TypeOK
  <2>3. ASSUME NEW p \in registered, NEW t \in SetToSeqs(ToSet(platoons[p])), InRealOrder(t)
        PROVE  InRealOrder(platoons'[p])
    <3> DEFINE s == platoons[p]
               T == ToSet(s)
               lead == IntraPlatoonLeader
    <3>1. /\ IsOrder(s, T) /\ NoLeader \notin T /\ T \subseteq Vehicles
          /\ \A v \in T : lead[v] \in T \cup {NoLeader}
      BY <1>1, <2>2, PlatoonToReorder
    <3>2. platoons'[p] = ReorderVehicles(s, lead)
      BY <2>1, <2>2 DEF UpdatePlatoonOrdering
    <3>3. InOrder(t, lead)
      BY <2>3 DEF InRealOrder
    <3>4. t \in SetToSeqs(T)
      OBVIOUS
    <3>5. IsFiniteSet(T)
      BY <3>1, FS_Subset, PlatooningAssumption DEF PlatooningAssumption
    <3> HIDE DEF s, T, lead
    <3>6. IsOrder(t, T)
      BY <3>4, <3>5, OrderFacts DEF IsOrder
    <3>7. InOrder(ReorderVehicles(s, lead), lead)
      BY <3>1, <3>3, <3>5, <3>6, ReorderFinds
    <3> QED
      BY <3>2, <3>7 DEF InRealOrder, lead
  <2> QED BY <2>3
<1>2. StepInv /\ [Next]_vars => [phase = "order" => Found]_vars
  BY <1>1
<1> QED
  BY <1>2, Inductive, PTL DEF Spec, OrderFound
=============================================================================
