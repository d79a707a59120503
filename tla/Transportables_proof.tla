------------------------ MODULE Transportables_proof ------------------------
(***************************************************************************)
(* Proofs about Transportables.                                            *)
(***************************************************************************)
EXTENDS Transportables, FiniteSetTheorems, SequenceTheorems, TLAPS

(* Who is due at a time after an entry is made or dropped.                 *)
LEMMA DuePut ==
  ASSUME NEW map, NEW t, NEW S, NEW u
  PROVE  Due(Put(map, t, S), u) = IF u = t THEN S \cup Due(map, t) ELSE Due(map, u)
BY DEF Due, Put

LEMMA DueWithout ==
  ASSUME NEW map, NEW t, NEW u
  PROVE  Due(Without(map, t), u) = IF u = t THEN {} ELSE Due(map, u)
BY DEF Due, Without

LEMMA PutMap ==
  ASSUME NEW map, IsMap(map), NEW t \in Nat, NEW S \in SUBSET Persons
  PROVE  IsMap(Put(map, t, S))
BY DEF IsMap, Put

LEMMA WithoutMap ==
  ASSUME NEW map, IsMap(map), NEW t
  PROVE  IsMap(Without(map, t))
BY DEF IsMap, Without

LEMMA DueMap ==
  ASSUME NEW map, IsMap(map), NEW t
  PROVE  Due(map, t) \subseteq Persons /\ (Due(map, t) # {} => t \in DOMAIN map /\ t \in Nat)
BY DEF IsMap, Due

(* What is left of a plan is a plan, and the stage a call comes to begins  *)
(* on an edge.                                                             *)
LEMMA StageFacts ==
  ASSUME TypeOK, NEW p \in Persons, NEW k \in Lasting(p)
  PROVE  /\ SubSeq(plan[p], k, Len(plan[p])) \in Seq(Stages)
         /\ plan[p][k] \in Stages
         /\ Len(plan[p]) >= 2
         /\ call # NoCall => Origin(p, k) \in Edges
<1>1. plan[p] \in Seq(Stages) /\ k \in 2..Len(plan[p])
  BY DEF TypeOK, Lasting
<1>2. Len(plan[p]) \in Nat /\ Len(plan[p]) >= 2 /\ k \in 1..Len(plan[p]) /\ k - 1 \in 1..Len(plan[p])
  BY <1>1
<1>3. plan[p][k] \in Stages /\ plan[p][k - 1] \in Stages
  BY <1>1, <1>2
<1>4. SubSeq(plan[p], k, Len(plan[p])) \in Seq(Stages)
  BY <1>1, <1>2
<1>5. call # NoCall => Origin(p, k) \in Edges
  BY <1>3, StagesAssumption DEF Origin, TypeOK
<1> QED BY <1>2, <1>3, <1>4, <1>5

LEMMA WaitEndFacts ==
  ASSUME TypeOK, NEW s \in Stages
  PROVE  WaitEnd(s) \in Nat /\ WaitEnd(s) >= now /\ (WaitEnd(s) = now => s.duration <= 0 /\ s.until <= now)
BY StagesAssumption DEF TypeOK, WaitEnd

(***************************************************************************)
(* The inductive invariant.  A person is in the keeping of at most one     *)
(* departure, wait, queue, vehicle, pedestrian model or call; the loops    *)
(* have only such persons still to proceed; whoever is in the simulation   *)
(* has a plan, and a full one until counted; and the counters agree.       *)
(***************************************************************************)

Waits(q, t) == q \in Due(myWaitingUntil, t)
Queues(q, e) == q \in myWaiting4Vehicle[e]
RidesIn(q, v) == q \in aboard[v]
InCall(q) == call # NoCall /\ call.who = q
FirstCall(q) == InCall(q) /\ call.first

OnePlaceOf(q) ==
  /\ \A t, u \in Nat : StillDeparts(q, t) /\ StillDeparts(q, u) => t = u
  /\ \A t, u \in Nat : Waits(q, t) /\ Waits(q, u) => t = u
  /\ \A e, f \in Edges : Queues(q, e) /\ Queues(q, f) => e = f
  /\ \A v, w \in Vehicles : RidesIn(q, v) /\ RidesIn(q, w) => v = w
  /\ \A t \in Nat : StillDeparts(q, t) =>
       /\ ~InCall(q) /\ q \notin onFoot
       /\ \A u \in Nat : ~Waits(q, u)
       /\ \A e \in Edges : ~Queues(q, e)
       /\ \A v \in Vehicles : ~RidesIn(q, v)
  /\ \A t \in Nat : Waits(q, t) =>
       /\ ~InCall(q) /\ q \notin onFoot
       /\ \A e \in Edges : ~Queues(q, e)
       /\ \A v \in Vehicles : ~RidesIn(q, v)
  /\ \A e \in Edges : Queues(q, e) =>
       /\ ~InCall(q) /\ q \notin onFoot
       /\ \A v \in Vehicles : ~RidesIn(q, v)
  /\ \A v \in Vehicles : RidesIn(q, v) => ~InCall(q) /\ q \notin onFoot
  /\ q \in onFoot => ~InCall(q)

OnlyLiveOf(q) ==
  \/ \E t \in Nat : StillDeparts(q, t) \/ Waits(q, t)
  \/ \E e \in Edges : Queues(q, e)
  \/ \E v \in Vehicles : RidesIn(q, v)
  \/ q \in onFoot
  \/ InCall(q)
  => q \in myTransportables

PlanOf(q) ==
  /\ q \in myTransportables => plan[q] # << >>
  /\ (\E t \in Nat : StillDeparts(q, t)) \/ FirstCall(q) => Len(plan[q]) >= 2

KeptOf(q) ==
  q \in myTransportables =>
    \/ \E t \in Nat : StillDeparts(q, t) \/ StillWakes(q, t)
    \/ \E e \in Edges : Queues(q, e)
    \/ \E v \in Vehicles : RidesIn(q, v)
    \/ q \in onFoot
    \/ InCall(q)
    \/ Brief(Stage(q))

PersonInv(q) == OnePlaceOf(q) /\ OnlyLiveOf(q) /\ PlanOf(q) /\ KeptOf(q)

Loops ==
  /\ phase = "departures" => left \subseteq Due(myWaiting4Departure, now)
  /\ busy # NoVehicle => left \subseteq aboard[busy] /\ phase \in {"vehicles", "after"}
  /\ \A v \in Vehicles : veh[v] = "leaving" => busy = v /\ left = aboard[v]
  /\ \A v \in Vehicles : veh[v] = "gone" => aboard[v] = {}

Counts ==
  /\ myRunningNumber = Cardinality(myTransportables \ ToDepart)
  /\ myWaitingForVehicleNumber = Cardinality(Queued)

Over == call = NoCall /\ myTransportables = {} /\ myRunningNumber = 0

Going == (\A q \in Persons : PersonInv(q)) /\ Loops /\ Counts

Inv == TypeOK /\ (ended => Over) /\ (~ended => Going)

(***************************************************************************)
(* Type correctness.                                                       *)
(***************************************************************************)

LEMMA TypeInit == Init => TypeOK
<1> SUFFICES ASSUME Init PROVE TypeOK
  OBVIOUS
<1>1. IsMap(<< >>)
  BY DEF IsMap
<1>2. << >> \in Seq(Stages)
  OBVIOUS
<1>3. IsMap(myWaiting4Departure) /\ IsMap(myWaitingUntil)
  BY <1>1 DEF Init
<1>4. plan \in [Persons -> Seq(Stages)]
  BY <1>2 DEF Init
<1>5. now \in 0..MaxStep /\ phase \in Phases
  BY TimesAssumption DEF Init, Phases
<1>6. /\ myWaiting4Vehicle \in [Edges -> SUBSET Persons]
      /\ aboard \in [Vehicles -> SUBSET Persons]
      /\ veh \in [Vehicles -> VehicleStates] /\ at \in [Vehicles -> Edges]
  BY DEF Init, VehicleStates
<1>7. ended \in BOOLEAN /\ myHaveNewWaiting \in BOOLEAN
  BY Zenon DEF Init
<1>8. /\ myRunningNumber \in Int /\ myWaitingForVehicleNumber \in Int
      /\ call = NoCall /\ busy = NoVehicle
      /\ left = {} /\ myTransportables = {} /\ onFoot = {}
  BY DEF Init
<1> QED BY <1>3, <1>4, <1>5, <1>6, <1>7, <1>8, Zenon DEF TypeOK

(* What a call of proceed does keeps the types.                            *)
LEMMA TypeProceed ==
  ASSUME TypeOK, NEW p \in Persons, Proceed(p)
  PROVE  TypeOK'
<1> USE DEF loop, maps
<1>0. Counted(p) \in {0, 1}
  BY DEF Counted
<1>1. CASE ProceedOut(p)
  <2>1. << >> \in Seq(Stages)
    OBVIOUS
  <2> QED BY <1>0, <1>1, <2>1 DEF TypeOK, ProceedOut, Called, Erase
<1>2. ASSUME NEW k \in Lasting(p), ProceedWalk(p, k)
      PROVE  TypeOK'
  BY <1>0, <1>2, StageFacts DEF TypeOK, ProceedWalk, Reaches, Called, RemainsIn
<1>3. ASSUME NEW k \in Lasting(p), ProceedRefused(p, k)
      PROVE  TypeOK'
  <2>1. << >> \in Seq(Stages)
    OBVIOUS
  <2> QED BY <1>0, <1>3, <2>1 DEF TypeOK, ProceedRefused, Reaches, Called, Erase
<1>4. ASSUME NEW k \in Lasting(p), ProceedWait(p, k)
      PROVE  TypeOK'
  <2> DEFINE t == WaitEnd(plan[p][k])
  <2>1. t \in Nat
    BY <1>4, StageFacts, WaitEndFacts
  <2>2. IsMap(Put(myWaiting4Departure, t, {})) /\ IsMap(Put(myWaitingUntil, t, {p}))
    BY <2>1, PutMap DEF TypeOK
  <2>3. IsMap(myWaiting4Departure)' /\ IsMap(myWaitingUntil)'
    BY <1>4, <2>2 DEF ProceedWait, setWaitEnd, TypeOK
  <2> QED BY <1>0, <1>4, <2>3, StageFacts DEF TypeOK, ProceedWait, Reaches, Called, RemainsIn
<1>5. ASSUME NEW k \in Lasting(p), NEW v \in Vehicles, ProceedTrigger(p, k, v)
      PROVE  TypeOK'
  BY <1>0, <1>5, StageFacts DEF TypeOK, ProceedTrigger, Reaches, Called, RemainsIn, VehicleStates
<1>6. ASSUME NEW k \in Lasting(p), ProceedQueue(p, k)
      PROVE  TypeOK'
  BY <1>0, <1>6, StageFacts
  DEF TypeOK, ProceedQueue, Reaches, Called, RemainsIn, addWaiting
<1> QED BY <1>1, <1>2, <1>3, <1>4, <1>5, <1>6 DEF Proceed


(* Every step keeps the types.                                             *)
LEMMA TypeStep == Inv /\ [Next]_vars => TypeOK'
<1> SUFFICES ASSUME Inv, [Next]_vars PROVE TypeOK'
  OBVIOUS
<1> USE DEF loop, maps, numbers, people, Phases
<1>t. TypeOK
  BY DEF Inv
<1>0. \A p \in myTransportables : ~ended => p \in Persons /\ Stage(p).to \in Edges
  <2> SUFFICES ASSUME NEW p \in myTransportables, ~ended
               PROVE  p \in Persons /\ Stage(p).to \in Edges
    OBVIOUS
  <2>1. p \in Persons /\ plan[p] \in Seq(Stages)
    BY <1>t DEF TypeOK
  <2>2. plan[p] # << >>
    BY DEF Inv, Going, PersonInv, PlanOf, TypeOK
  <2>3. Head(plan[p]) \in Stages
    BY <2>1, <2>2
  <2> QED BY <2>1, <2>3, StagesAssumption DEF Stage
<1>1. ASSUME NEW p \in Persons, Proceed(p) PROVE TypeOK'
  BY <1>1, <1>t, TypeProceed
<1>2. ASSUME NEW p \in Persons, WalkEnds(p) PROVE TypeOK'
  <2>1. p \in myTransportables
    BY <1>2 DEF Inv, Going, PersonInv, OnlyLiveOf, WalkEnds, Idle
  <2> QED BY <1>2, <1>t, <1>0, <2>1 DEF TypeOK, WalkEnds, Handed, Idle
<1>3. ASSUME NEW p \in Persons, Alight(p) PROVE TypeOK'
  BY <1>3, <1>t DEF TypeOK, Alight, Handed
<1>4. ASSUME NEW p \in Persons, add(p) PROVE TypeOK'
  <2>1. PICK t \in Departs : t >= now /\ myWaiting4Departure' = Put(myWaiting4Departure, t, {p})
    BY <1>4 DEF add
  <2>2. IsMap(myWaiting4Departure)'
    BY <1>t, <2>1, PutMap, TimesAssumption DEF TypeOK
  <2> QED BY <1>4, <1>t, <2>2, PlansAssumption DEF TypeOK, add
<1>5. ASSUME NEW p \in Persons, Depart(p) PROVE TypeOK'
  <2>1. StillDeparts(p, now) /\ now \in Nat
    BY <1>5, <1>t DEF Inv, Going, Loops, Depart, Idle, StillDeparts, TypeOK
  <2>2. p \in myTransportables
    BY <1>5, <2>1 DEF Inv, Going, PersonInv, OnlyLiveOf, Depart, Idle
  <2> QED BY <1>5, <1>t, <1>0, <2>2 DEF TypeOK, Depart, Handed, Idle
<1>6. ASSUME NEW p \in Persons, WaitEnds(p) PROVE TypeOK'
  <2>1. Waits(p, now) /\ now \in Nat
    BY <1>6, <1>t DEF WaitEnds, Waits, TypeOK
  <2>2. p \in myTransportables
    BY <1>6, <2>1 DEF Inv, Going, PersonInv, OnlyLiveOf, WaitEnds, Idle
  <2>3. IsMap(myWaitingUntil)'
    BY <1>6, <1>t DEF WaitEnds, IsMap, TypeOK
  <2> QED BY <1>6, <1>t, <1>0, <2>2, <2>3 DEF TypeOK, WaitEnds, Handed, Idle
<1>7. ASSUME NEW v \in Vehicles, NEW e \in Edges, Stop(v, e) \/ Leave(v, e) PROVE TypeOK'
  <2>1. /\ UNCHANGED <<now, phase, ended, call, maps, numbers, people>>
        /\ at' = [at EXCEPT ![v] = e] /\ busy' = v
        /\ \E s \in {"stopped", "leaving"} : veh' = [veh EXCEPT ![v] = s]
    BY <1>7 DEF Stop, Leave
  <2>2. veh' \in [Vehicles -> VehicleStates] /\ at' \in [Vehicles -> Edges]
    BY <1>t, <2>1 DEF TypeOK, VehicleStates
  <2>3. left' \subseteq Persons
    BY <1>7, <1>t DEF TypeOK, Stop, Leave
  <2> QED BY <1>t, <2>1, <2>2, <2>3 DEF TypeOK
<1>8. ASSUME NEW v \in Vehicles, boardAnyWaiting(v) PROVE TypeOK'
  <2>1. PICK S \in SUBSET {p \in myWaiting4Vehicle[at[v]] : v \in Stage(p).lines} :
          /\ myWaiting4Vehicle' = [myWaiting4Vehicle EXCEPT ![at[v]] = @ \ S]
          /\ myWaitingForVehicleNumber' = myWaitingForVehicleNumber - Cardinality(S)
          /\ aboard' = [aboard EXCEPT ![v] = @ \cup S]
    BY <1>8 DEF boardAnyWaiting
  <2>2. S \subseteq Persons /\ at[v] \in Edges
    BY <1>t, <2>1 DEF TypeOK
  <2>3. Cardinality(S) \in Nat
    BY <2>2, FiniteAssumption, FS_Subset, FS_CardinalityType
  <2> QED BY <1>8, <1>t, <2>1, <2>2, <2>3 DEF TypeOK, boardAnyWaiting, VehicleStates
<1>9. ASSUME NEW v \in Vehicles, StopGoesOn(v) \/ LoadVehicle(v) \/ Insert(v) \/ GiveUp(v)
      PROVE TypeOK'
  BY <1>9, <1>t DEF TypeOK, StopGoesOn, LoadVehicle, Insert, GiveUp, VehicleStates
<1>10. CASE Alighted \/ EndMovements
  BY <1>10, <1>t DEF TypeOK, Alighted, EndMovements, VehicleStates
<1>11. CASE BeginCheck
  <2>1. Due(myWaiting4Departure, now) \subseteq Persons
    BY <1>t, DueMap DEF TypeOK
  <2> QED BY <1>11, <1>t, <2>1 DEF TypeOK, BeginCheck
<1>12. CASE EndDepartures
  BY <1>12, <1>t, WithoutMap DEF TypeOK, EndDepartures
<1>13. CASE EndUntils
  BY <1>13, <1>t, WithoutMap DEF TypeOK, EndUntils
<1>14. CASE EndRun
  <2>1. Cardinality(Queued) \in Nat
    BY <1>t, FiniteAssumption, FS_Subset, FS_CardinalityType DEF TypeOK, Queued
  <2> QED BY <1>14, <1>t, <2>1 DEF TypeOK, EndRun
<1>15. CASE EndStep
  BY <1>15, <1>t, TimesAssumption DEF TypeOK, EndStep
<1>16. CASE UNCHANGED vars
  BY <1>16, <1>t DEF TypeOK, vars
<1> QED BY <1>1, <1>2, <1>3, <1>4, <1>5, <1>6, <1>7, <1>8, <1>9, <1>10, <1>11, <1>12,
           <1>13, <1>14, <1>15, <1>16 DEF Next

(***************************************************************************)
(* What a step leaves as it is.                                            *)
(***************************************************************************)

\* The step does not touch q.
SameFor(q) ==
  /\ \A t \in Nat : /\ StillDeparts(q, t)' <=> StillDeparts(q, t)
                    /\ Waits(q, t)' <=> Waits(q, t)
                    /\ StillWakes(q, t)' <=> StillWakes(q, t)
  /\ \A e \in Edges : Queues(q, e)' <=> Queues(q, e)
  /\ \A v \in Vehicles : RidesIn(q, v)' <=> RidesIn(q, v)
  /\ (q \in onFoot)' <=> q \in onFoot
  /\ InCall(q)' <=> InCall(q)
  /\ FirstCall(q)' <=> FirstCall(q)
  /\ (q \in myTransportables)' <=> q \in myTransportables
  /\ plan'[q] = plan[q]

LEMMA Untouched ==
  ASSUME NEW q \in Persons, PersonInv(q), SameFor(q), now \in Nat, now' \in Nat, now' >= now,
         TypeOK
  PROVE  PersonInv(q)'
<1> USE DEF SameFor, PersonInv
<1>1. OnePlaceOf(q)'
  BY DEF OnePlaceOf
<1>2. OnlyLiveOf(q)'
  BY DEF OnlyLiveOf
<1>3. PlanOf(q)'
  BY DEF PlanOf
<1>4. KeptOf(q)'
  <2>1. ASSUME q \in myTransportables, Brief(Stage(q)) PROVE Brief(Stage(q))'
    <3>1. Stage(q) \in Stages
      <4>1. plan[q] \in Seq(Stages) /\ plan[q] # << >>
        BY <2>1 DEF PlanOf, TypeOK
      <4> QED BY <4>1 DEF Stage
    <3>2. Stage(q)' = Stage(q)
      BY DEF Stage
    <3> QED BY <2>1, <3>1, <3>2, StagesAssumption DEF Brief
  <2> QED BY <2>1 DEF KeptOf
<1> QED BY <1>1, <1>2, <1>3, <1>4

\* Who is counted as running.
Running == myTransportables \ ToDepart

CountedIn(q) ==
  q \in myTransportables /\ (\A t \in Nat : ~StillDeparts(q, t)) /\ ~FirstCall(q)

LEMMA RunningMember == TypeOK => \A q \in Persons : q \in Running <=> CountedIn(q)
BY DueMap DEF Running, CountedIn, ToDepart, StillDeparts, FirstCall, InCall, TypeOK, Due

LEMMA QueuedMember ==
  \A q \in Persons : q \in Queued <=> \E e \in Edges : Queues(q, e)
BY DEF Queued, Queues

LEMMA Finite ==
  TypeOK => /\ Running \subseteq Persons /\ Queued \subseteq Persons
            /\ IsFiniteSet(Running) /\ IsFiniteSet(Queued)
<1>1. TypeOK => Running \subseteq Persons /\ Queued \subseteq Persons
  BY DEF TypeOK, Running, Queued
<1> QED BY <1>1, FiniteAssumption, FS_Subset

(* The same facts after a step.                                            *)
LEMMA RunningAfter == TypeOK' => \A q \in Persons : q \in Running' <=> CountedIn(q)'
<1>1. (\A q \in Persons : q \in Running <=> CountedIn(q))' \/ ~TypeOK'
  BY RunningMember, PTL
<1> QED BY <1>1

LEMMA QueuedAfter ==
  \A q \in Persons : q \in Queued' <=> \E e \in Edges : Queues(q, e)'
BY DEF Queued, Queues

LEMMA FiniteAfter ==
  TypeOK' => /\ Running' \subseteq Persons /\ Queued' \subseteq Persons
             /\ IsFiniteSet(Running') /\ IsFiniteSet(Queued')
<1>1. ~TypeOK' \/ (/\ Running \subseteq Persons /\ Queued \subseteq Persons
                   /\ IsFiniteSet(Running) /\ IsFiniteSet(Queued))'
  BY Finite, PTL
<1> QED BY <1>1

(* A step that touches nobody and no number.                               *)
LEMMA Quiet ==
  ASSUME TypeOK, TypeOK', Going, \A q \in Persons : SameFor(q), now' >= now,
         UNCHANGED <<myRunningNumber, myWaitingForVehicleNumber>>, Loops'
  PROVE  Going'
<1>0. now \in Nat /\ now' \in Nat
  BY DEF TypeOK
<1>1. \A q \in Persons : PersonInv(q)'
  BY <1>0, Untouched DEF Going
<1>2. \A q \in Persons : CountedIn(q)' <=> CountedIn(q)
  BY DEF CountedIn, SameFor
<1>3. Running' = Running
  <2>1. \A q \in Persons : q \in Running' <=> q \in Running
    BY <1>2, RunningMember, RunningAfter
  <2>2. Running' \subseteq Persons /\ Running \subseteq Persons
    BY FiniteAfter, Finite
  <2> QED BY <2>1, <2>2
<1>4. Queued' = Queued
  <2>1. \A q \in Persons : q \in Queued' <=> q \in Queued
    BY QueuedMember, QueuedAfter DEF SameFor
  <2>2. Queued' \subseteq Persons /\ Queued \subseteq Persons
    BY FiniteAfter, Finite
  <2> QED BY <2>1, <2>2
<1> QED BY <1>1, <1>3, <1>4 DEF Going, Counts, Running

(* How the number of a set of persons changes with one of them.            *)
LEMMA CountOne ==
  ASSUME NEW S, NEW T, NEW p, IsFiniteSet(S), IsFiniteSet(T), S \ {p} = T \ {p}
  PROVE  Cardinality(T) = Cardinality(S) + (IF p \in T THEN 1 ELSE 0) - (IF p \in S THEN 1 ELSE 0)
<1> DEFINE R == S \ {p}
<1>1. IsFiniteSet(R) /\ p \notin R
  BY FS_Subset
<1>2. Cardinality(R \cup {p}) = Cardinality(R) + 1 /\ Cardinality(R) \in Nat
  BY <1>1, FS_AddElement, FS_CardinalityType
<1>3. Cardinality(S) = Cardinality(R) + (IF p \in S THEN 1 ELSE 0)
  <2>1. CASE p \in S
    <3>1. S = R \cup {p}
      BY <2>1
    <3> QED BY <1>2, <2>1, <3>1
  <2>2. CASE p \notin S
    <3>1. S = R
      BY <2>2
    <3> QED BY <1>2, <2>2, <3>1
  <2> QED BY <2>1, <2>2
<1>4. Cardinality(T) = Cardinality(R) + (IF p \in T THEN 1 ELSE 0)
  <2>1. CASE p \in T
    <3>1. T = R \cup {p}
      BY <2>1
    <3> QED BY <1>2, <2>1, <3>1
  <2>2. CASE p \notin T
    <3>1. T = R
      BY <2>2
    <3> QED BY <1>2, <2>2, <3>1
  <2> QED BY <2>1, <2>2
<1> QED BY <1>2, <1>3, <1>4

(* A step that touches one person.                                         *)
LEMMA OneTouched ==
  ASSUME TypeOK, TypeOK', Going, NEW p \in Persons,
         \A q \in Persons \ {p} : SameFor(q), now' >= now,
         PersonInv(p)', Loops',
         myRunningNumber' =
           myRunningNumber + (IF CountedIn(p)' THEN 1 ELSE 0) - (IF CountedIn(p) THEN 1 ELSE 0),
         myWaitingForVehicleNumber' =
           myWaitingForVehicleNumber + (IF \E e \in Edges : Queues(p, e)' THEN 1 ELSE 0)
                                     - (IF \E e \in Edges : Queues(p, e) THEN 1 ELSE 0)
  PROVE  Going'
<1>0. now \in Nat /\ now' \in Nat
  BY DEF TypeOK
<1>1. \A q \in Persons : PersonInv(q)'
  BY <1>0, Untouched DEF Going
<1>2. \A q \in Persons \ {p} : CountedIn(q)' <=> CountedIn(q)
  BY DEF CountedIn, SameFor
<1>3. Running' \ {p} = Running \ {p}
  <2>1. \A q \in Persons \ {p} : q \in Running' <=> q \in Running
    BY <1>2, RunningMember, RunningAfter
  <2>2. Running' \subseteq Persons /\ Running \subseteq Persons
    BY FiniteAfter, Finite
  <2> QED BY <2>1, <2>2
<1>4. Queued' \ {p} = Queued \ {p}
  <2>1. \A q \in Persons \ {p} : q \in Queued' <=> q \in Queued
    BY QueuedMember, QueuedAfter DEF SameFor
  <2>2. Queued' \subseteq Persons /\ Queued \subseteq Persons
    BY FiniteAfter, Finite
  <2> QED BY <2>1, <2>2
<1>5. Cardinality(Running') = Cardinality(Running)
        + (IF p \in Running' THEN 1 ELSE 0) - (IF p \in Running THEN 1 ELSE 0)
  BY <1>3, CountOne, Finite, FiniteAfter
<1>6. Cardinality(Queued') = Cardinality(Queued)
        + (IF p \in Queued' THEN 1 ELSE 0) - (IF p \in Queued THEN 1 ELSE 0)
  BY <1>4, CountOne, Finite, FiniteAfter
<1>7. /\ p \in Running' <=> CountedIn(p)'
      /\ p \in Running <=> CountedIn(p)
      /\ p \in Queued' <=> \E e \in Edges : Queues(p, e)'
      /\ p \in Queued <=> \E e \in Edges : Queues(p, e)
  BY RunningMember, RunningAfter, QueuedMember, QueuedAfter
<1>8. myRunningNumber = Cardinality(Running) /\ myWaitingForVehicleNumber = Cardinality(Queued)
  BY DEF Going, Counts, Running
<1>9. myRunningNumber' = Cardinality(Running') /\ myWaitingForVehicleNumber' = Cardinality(Queued')
  BY <1>5, <1>6, <1>7, <1>8
<1> QED BY <1>1, <1>9 DEF Going, Counts, Running

LEMMA GoingInit == Init => Going
<1> SUFFICES ASSUME Init PROVE Going
  OBVIOUS
<1>1. \A t \in Nat : Due(myWaiting4Departure, t) = {} /\ Due(myWaitingUntil, t) = {}
  BY DEF Init, Due
<1>2. \A q \in Persons : PersonInv(q)
  BY <1>1 DEF Init, PersonInv, OnePlaceOf, OnlyLiveOf, PlanOf, KeptOf, StillDeparts, Waits, StillWakes,
              Queues, RidesIn, InCall, FirstCall
<1>3. Loops
  BY DEF Init, Loops
<1>4. Counts
  <2>1. myTransportables \ ToDepart = {} /\ Queued = {}
    BY DEF Init, Queued
  <2> QED BY <2>1, FS_EmptySet DEF Init, Counts
<1> QED BY <1>2, <1>3, <1>4 DEF Going

(***************************************************************************)
(* The steps that touch nobody.                                            *)
(***************************************************************************)

\* When and by whom a person is proceeded depends on the maps, the loop and the call.
Places == <<myWaiting4Departure, myWaitingUntil, myWaiting4Vehicle, aboard, onFoot, call,
            myTransportables, plan>>

LEMMA SamePlaces ==
  ASSUME UNCHANGED Places, NEW q \in Persons,
         \A t \in Nat : StillDeparts(q, t)' <=> StillDeparts(q, t),
         \A t \in Nat : StillWakes(q, t)' <=> StillWakes(q, t)
  PROVE  SameFor(q)
BY DEF Places, SameFor, Waits, Queues, RidesIn, InCall, FirstCall

LEMMA NoneLeaving ==
  ASSUME TypeOK, Loops, busy = NoVehicle
  PROVE  \A v \in Vehicles : veh[v] # "leaving"
BY NamesAssumption DEF Loops, TypeOK

LEMMA VehicleSteps ==
  ASSUME TypeOK, TypeOK', Going, NEW v \in Vehicles, NEW e \in Edges,
         Stop(v, e) \/ Leave(v, e) \/ StopGoesOn(v) \/ LoadVehicle(v) \/ Insert(v) \/ GiveUp(v)
  PROVE  Going'
<1> USE DEF loop, maps, numbers, people
<1>1. UNCHANGED Places /\ UNCHANGED <<now, phase, myRunningNumber, myWaitingForVehicleNumber>>
  BY DEF Places, Stop, Leave, StopGoesOn, LoadVehicle, Insert, GiveUp
<1>2. phase = "departures" => FALSE
  BY DEF Stop, Leave, StopGoesOn, AtStop, LoadVehicle, Insert, GiveUp
<1>3. \A q \in Persons : SameFor(q)
  <2> TAKE q \in Persons
  <2>1. \A t \in Nat : /\ StillDeparts(q, t)' <=> StillDeparts(q, t)
                       /\ StillWakes(q, t)' <=> StillWakes(q, t)
    BY <1>1, <1>2 DEF StillDeparts, StillWakes, BeforeDepartures, BeforeUntils, Places
  <2> QED BY <1>1, <2>1, SamePlaces
<1>4. Loops'
  <2>1. Loops
    BY DEF Going
  <2>2. CASE Stop(v, e) \/ Leave(v, e)
    <3>1. \A w \in Vehicles : veh[w] # "leaving"
      BY <2>1, <2>2, NoneLeaving DEF Stop, Leave
    <3> QED BY <2>1, <2>2, <3>1 DEF Loops, Stop, Leave, TypeOK
  <2>3. CASE StopGoesOn(v) \/ LoadVehicle(v) \/ Insert(v) \/ GiveUp(v)
    <3>1. \A w \in Vehicles : veh'[w] \in {"leaving", "gone"} => veh[w] = veh'[w]
      BY <2>3 DEF StopGoesOn, LoadVehicle, Insert, GiveUp, TypeOK
    <3>2. UNCHANGED <<now, phase, left, busy, myWaiting4Departure, aboard>>
      BY <2>3 DEF StopGoesOn, LoadVehicle, Insert, GiveUp
    <3> QED BY <2>1, <3>1, <3>2 DEF Loops
  <2> QED BY <2>2, <2>3
<1>5. now' >= now
  BY <1>1 DEF TypeOK
<1> QED BY <1>1, <1>3, <1>4, <1>5, Quiet

LEMMA LoopSteps ==
  ASSUME TypeOK, TypeOK', Going,
         Alighted \/ EndMovements \/ BeginCheck \/ EndDepartures \/ EndUntils \/ EndStep
  PROVE  Going'
<1> USE DEF loop, maps, numbers, people
<1>0. now \in Nat /\ Loops
  BY DEF TypeOK, Going
<1>1. UNCHANGED <<myRunningNumber, myWaitingForVehicleNumber>> /\ now' >= now
  BY <1>0 DEF Alighted, EndMovements, BeginCheck, EndDepartures, EndUntils, EndStep
<1>2. ASSUME NEW q \in Persons
      PROVE  SameFor(q)
  <2>1. CASE Alighted \/ EndMovements \/ EndStep
    <3>1. UNCHANGED Places
      BY <2>1 DEF Places, Alighted, EndMovements, EndStep
    <3>2. \A t \in Nat : /\ StillDeparts(q, t)' <=> StillDeparts(q, t)
                         /\ StillWakes(q, t)' <=> StillWakes(q, t)
      BY <1>0, <2>1, <3>1
      DEF StillDeparts, StillWakes, BeforeDepartures, BeforeUntils, Places, Loops,
          Alighted, EndMovements, EndStep
    <3> QED BY <3>1, <3>2, SamePlaces
  <2>2. CASE BeginCheck
    <3>1. UNCHANGED Places
      BY <2>2 DEF Places, BeginCheck
    <3>2. myTransportables = {} => \A t \in Nat : ~StillDeparts(q, t) /\ ~Waits(q, t)
      BY DEF Going, PersonInv, OnlyLiveOf
    <3>3. \A t \in Nat : /\ StillDeparts(q, t)' <=> StillDeparts(q, t)
                         /\ StillWakes(q, t)' <=> StillWakes(q, t)
      BY <1>0, <2>2, <3>1, <3>2
      DEF StillDeparts, StillWakes, Waits, BeforeDepartures, BeforeUntils, Places, BeginCheck
    <3> QED BY <3>1, <3>3, SamePlaces
  <2>3. CASE EndDepartures
    <3>1. \A t \in Nat : Due(myWaiting4Departure, t)' = IF t = now THEN {} ELSE Due(myWaiting4Departure, t)
      BY <2>3, DueWithout DEF EndDepartures
    <3>2. \A t \in Nat : /\ StillDeparts(q, t)' <=> StillDeparts(q, t)
                         /\ StillWakes(q, t)' <=> StillWakes(q, t)
      BY <1>0, <2>3, <3>1
      DEF StillDeparts, StillWakes, BeforeDepartures, BeforeUntils, EndDepartures
    <3> QED BY <2>3, <3>2
        DEF EndDepartures, SameFor, Waits, Queues, RidesIn, InCall, FirstCall
  <2>4. CASE EndUntils
    <3>1. \A t \in Nat : Due(myWaitingUntil, t)' = Due(myWaitingUntil, t)
      BY <2>4, DueWithout DEF EndUntils
    <3>2. \A t \in Nat : /\ StillDeparts(q, t)' <=> StillDeparts(q, t)
                         /\ StillWakes(q, t)' <=> StillWakes(q, t)
      BY <1>0, <2>4, <3>1
      DEF StillDeparts, StillWakes, BeforeDepartures, BeforeUntils, EndUntils
    <3> QED BY <2>4, <3>1, <3>2
        DEF EndUntils, SameFor, Waits, Queues, RidesIn, InCall, FirstCall
  <2> QED BY <2>1, <2>2, <2>3, <2>4
<1>3. Loops'
  <2>1. CASE Alighted
    BY <1>0, <2>1, NamesAssumption DEF Alighted, Loops, TypeOK
  <2>2. CASE EndMovements \/ BeginCheck \/ EndStep
    <3>1. busy = NoVehicle
      BY <1>0, <2>2 DEF EndMovements, BeginCheck, EndStep, Loops
    <3>2. \A v \in Vehicles : veh[v] # "leaving"
      BY <1>0, <3>1, NoneLeaving
    <3>3. Due(myWaiting4Departure, now)' = Due(myWaiting4Departure', now')
      BY DEF Due
    <3> QED BY <1>0, <2>2, <3>1, <3>2, <3>3 DEF EndMovements, BeginCheck, EndStep, Loops
  <2>3. CASE EndDepartures \/ EndUntils
    BY <1>0, <2>3 DEF EndDepartures, EndUntils, Loops
  <2> QED BY <2>1, <2>2, <2>3
<1> QED BY <1>1, <1>2, <1>3, Quiet

(***************************************************************************)
(* The steps that hand a person over to a call.                            *)
(***************************************************************************)

(* After a step that leaves the person in a call and nowhere else, what    *)
(* must hold of the person holds.                                          *)
LEMMA OnlyInCall ==
  ASSUME NEW p \in Persons, InCall(p)', p \in myTransportables',
         \A t \in Nat : ~StillDeparts(p, t)' /\ ~Waits(p, t)',
         \A e \in Edges : ~Queues(p, e)', \A v \in Vehicles : ~RidesIn(p, v)', p \notin onFoot',
         plan'[p] # << >>, FirstCall(p)' => Len(plan'[p]) >= 2
  PROVE  PersonInv(p)'
BY DEF PersonInv, OnePlaceOf, OnlyLiveOf, PlanOf, KeptOf

LEMMA StageOnEdge ==
  ASSUME TypeOK, NEW p \in Persons, plan[p] # << >>
  PROVE  Stage(p) \in Stages /\ Stage(p).to \in Edges
<1>1. plan[p] \in Seq(Stages) /\ plan[p] # << >>
  BY DEF TypeOK
<1>2. Head(plan[p]) \in Stages
  BY <1>1
<1> QED BY <1>2, StagesAssumption DEF Stage

LEMMA CallMade ==
  ASSUME NEW p \in Persons, NEW here \in Edges, NEW first \in BOOLEAN, Handed(p, here, first)
  PROVE  call' # NoCall /\ call'.who = p /\ call'.first = first
BY NamesAssumption DEF Handed

LEMMA WalkEndsKeeps ==
  ASSUME TypeOK, TypeOK', Going, NEW p \in Persons, WalkEnds(p)
  PROVE  Going'
<1> USE DEF loop, maps, numbers
<1>0. PersonInv(p) /\ Loops /\ now \in Nat /\ p \in onFoot /\ call = NoCall
  BY DEF Going, TypeOK, WalkEnds, Idle
<1>1. p \in myTransportables /\ plan[p] # << >>
  BY <1>0 DEF PersonInv, OnlyLiveOf, PlanOf
<1>2. call' # NoCall /\ call'.who = p /\ call'.first = FALSE
  BY <1>1, StageOnEdge, CallMade DEF WalkEnds
<1>3. \A q \in Persons, t \in Nat :
        /\ StillDeparts(q, t)' <=> StillDeparts(q, t)
        /\ StillWakes(q, t)' <=> StillWakes(q, t)
        /\ Waits(q, t)' <=> Waits(q, t)
  BY DEF WalkEnds, StillDeparts, StillWakes, Waits, BeforeDepartures, BeforeUntils
<1>4. \A q \in Persons \ {p} : SameFor(q)
  BY <1>0, <1>2, <1>3 DEF WalkEnds, SameFor, Queues, RidesIn, InCall, FirstCall
<1>5. /\ \A t \in Nat : ~StillDeparts(p, t) /\ ~Waits(p, t)
      /\ \A e \in Edges : ~Queues(p, e)
      /\ \A v \in Vehicles : ~RidesIn(p, v)
  BY <1>0 DEF PersonInv, OnePlaceOf
<1>6. InCall(p)' /\ ~FirstCall(p)'
  BY <1>2 DEF InCall, FirstCall
<1>7. PersonInv(p)'
  <2>1. \A e \in Edges : ~Queues(p, e)'
    BY <1>5 DEF WalkEnds, Queues
  <2>2. \A v \in Vehicles : ~RidesIn(p, v)'
    BY <1>5 DEF WalkEnds, RidesIn
  <2>3. p \in myTransportables' /\ p \notin onFoot' /\ plan'[p] # << >>
    BY <1>1 DEF WalkEnds
  <2>4. \A t \in Nat : ~StillDeparts(p, t)' /\ ~Waits(p, t)'
    BY <1>3, <1>5
  <2> QED BY <1>6, <2>1, <2>2, <2>3, <2>4, OnlyInCall
<1>8. Loops'
  BY <1>0 DEF WalkEnds, Loops
<1>9. /\ CountedIn(p)' <=> CountedIn(p)
      /\ \A e \in Edges : Queues(p, e)' <=> Queues(p, e)
  BY <1>0, <1>1, <1>3, <1>5, <1>6 DEF CountedIn, FirstCall, InCall, WalkEnds, Queues
<1> QED BY <1>0, <1>4, <1>7, <1>8, <1>9, OneTouched DEF WalkEnds, TypeOK

LEMMA AlightKeeps ==
  ASSUME TypeOK, TypeOK', Going, NEW p \in Persons, Alight(p)
  PROVE  Going'
<1> USE DEF loop, maps, numbers
<1>0. /\ PersonInv(p) /\ Loops /\ now \in Nat /\ call = NoCall
      /\ busy \in Vehicles /\ RidesIn(p, busy) /\ phase \in {"vehicles", "after"}
  BY DEF Going, TypeOK, Alight, Idle, Loops, RidesIn
<1>1. p \in myTransportables /\ plan[p] # << >>
  BY <1>0 DEF PersonInv, OnlyLiveOf, PlanOf
<1>2. call' # NoCall /\ call'.who = p /\ call'.first = FALSE
  <2>1. at[busy] \in Edges
    BY <1>0 DEF TypeOK
  <2> QED BY <2>1, CallMade DEF Alight
<1>3. \A q \in Persons, t \in Nat :
        /\ StillDeparts(q, t)' <=> StillDeparts(q, t)
        /\ StillWakes(q, t)' <=> StillWakes(q, t)
        /\ Waits(q, t)' <=> Waits(q, t)
  BY <1>0 DEF Alight, StillDeparts, StillWakes, Waits, BeforeDepartures, BeforeUntils
<1>4. \A q \in Persons \ {p} : SameFor(q)
  <2> TAKE q \in Persons \ {p}
  <2>1. \A v \in Vehicles : RidesIn(q, v)' <=> RidesIn(q, v)
    BY <1>0 DEF Alight, RidesIn, TypeOK
  <2> QED BY <1>0, <1>2, <1>3, <2>1 DEF Alight, SameFor, Queues, InCall, FirstCall
<1>5. /\ \A t \in Nat : ~StillDeparts(p, t) /\ ~Waits(p, t)
      /\ \A e \in Edges : ~Queues(p, e)
      /\ \A v \in Vehicles : RidesIn(p, v) => v = busy
      /\ p \notin onFoot
  BY <1>0 DEF PersonInv, OnePlaceOf
<1>6. InCall(p)' /\ ~FirstCall(p)'
  BY <1>2 DEF InCall, FirstCall
<1>7. PersonInv(p)'
  <2>1. \A e \in Edges : ~Queues(p, e)'
    BY <1>5 DEF Alight, Queues
  <2>2. \A v \in Vehicles : ~RidesIn(p, v)'
    BY <1>5 DEF Alight, RidesIn, TypeOK
  <2>3. p \in myTransportables' /\ p \notin onFoot' /\ plan'[p] # << >>
    BY <1>1, <1>5 DEF Alight
  <2>4. \A t \in Nat : ~StillDeparts(p, t)' /\ ~Waits(p, t)'
    BY <1>3, <1>5
  <2> QED BY <1>6, <2>1, <2>2, <2>3, <2>4, OnlyInCall
<1>8. Loops'
  <2>1. aboard' = [aboard EXCEPT ![busy] = @ \ {p}] /\ left' = left \ {p}
    BY DEF Alight
  <2>2. UNCHANGED <<now, phase, busy, veh, myWaiting4Departure>>
    BY DEF Alight
  <2> QED BY <1>0, <2>1, <2>2 DEF Loops, TypeOK
<1>9. /\ CountedIn(p)' <=> CountedIn(p)
      /\ \A e \in Edges : Queues(p, e)' <=> Queues(p, e)
  BY <1>0, <1>1, <1>3, <1>5, <1>6 DEF CountedIn, FirstCall, InCall, Alight, Queues
<1> QED BY <1>0, <1>4, <1>7, <1>8, <1>9, OneTouched DEF Alight, TypeOK

LEMMA DepartKeeps ==
  ASSUME TypeOK, TypeOK', Going, NEW p \in Persons, Depart(p)
  PROVE  Going'
<1> USE DEF loop, maps, numbers, people
<1>0. /\ PersonInv(p) /\ Loops /\ now \in Nat /\ call = NoCall
      /\ phase = "departures" /\ StillDeparts(p, now)
  BY DEF Going, TypeOK, Depart, Idle, Loops, StillDeparts
<1>1. p \in myTransportables /\ plan[p] # << >> /\ Len(plan[p]) >= 2
  BY <1>0 DEF PersonInv, OnlyLiveOf, PlanOf
<1>2. call' # NoCall /\ call'.who = p /\ call'.first = TRUE
  BY <1>1, StageOnEdge, CallMade DEF Depart
<1>3. \A q \in Persons, t \in Nat :
        /\ q # p => (StillDeparts(q, t)' <=> StillDeparts(q, t))
        /\ StillWakes(q, t)' <=> StillWakes(q, t)
        /\ Waits(q, t)' <=> Waits(q, t)
  BY <1>0 DEF Depart, StillDeparts, StillWakes, Waits, BeforeDepartures, BeforeUntils
<1>4. \A q \in Persons \ {p} : SameFor(q)
  BY <1>0, <1>2, <1>3 DEF Depart, SameFor, Queues, RidesIn, InCall, FirstCall
<1>5. /\ \A t \in Nat : StillDeparts(p, t) => t = now
      /\ \A t \in Nat : ~Waits(p, t)
      /\ \A e \in Edges : ~Queues(p, e)
      /\ \A v \in Vehicles : ~RidesIn(p, v)
      /\ p \notin onFoot
  BY <1>0 DEF PersonInv, OnePlaceOf
<1>6. InCall(p)' /\ FirstCall(p)'
  BY <1>2 DEF InCall, FirstCall
<1>7. PersonInv(p)'
  <2>1. \A e \in Edges : ~Queues(p, e)'
    BY <1>5 DEF Depart, Queues
  <2>2. \A v \in Vehicles : ~RidesIn(p, v)'
    BY <1>5 DEF Depart, RidesIn
  <2>3. p \in myTransportables' /\ p \notin onFoot' /\ plan'[p] # << >> /\ Len(plan'[p]) >= 2
    BY <1>1, <1>5 DEF Depart
  <2>4. \A t \in Nat : ~StillDeparts(p, t)' /\ ~Waits(p, t)'
    <3>1. \A t \in Nat : t # now => ~StillDeparts(p, t)'
      BY <1>0, <1>5 DEF Depart, StillDeparts, BeforeDepartures
    <3>2. \A t \in Nat : t = now => ~StillDeparts(p, t)'
      BY <1>0 DEF Depart, StillDeparts, BeforeDepartures
    <3> QED BY <1>3, <1>5, <3>1, <3>2
  <2> QED BY <1>6, <2>1, <2>2, <2>3, <2>4, OnlyInCall
<1>8. Loops'
  <2>1. left' \subseteq left
    BY DEF Depart
  <2>2. UNCHANGED <<now, phase, busy, veh, myWaiting4Departure, aboard>>
    BY DEF Depart
  <2>3. busy = NoVehicle
    BY <1>0 DEF Loops
  <2>4. \A v \in Vehicles : veh[v] # "leaving"
    BY <1>0, <2>3, NoneLeaving
  <2> QED BY <1>0, <2>1, <2>2, <2>3, <2>4 DEF Loops
<1>9. /\ ~CountedIn(p)' /\ ~CountedIn(p)
      /\ \A e \in Edges : Queues(p, e)' <=> Queues(p, e)
  BY <1>0, <1>6 DEF CountedIn, Depart, Queues
<1> QED BY <1>0, <1>4, <1>7, <1>8, <1>9, OneTouched DEF Depart, TypeOK

LEMMA WaitEndsKeeps ==
  ASSUME TypeOK, TypeOK', Going, NEW p \in Persons, WaitEnds(p)
  PROVE  Going'
<1> USE DEF loop, numbers, people
<1>0. PersonInv(p) /\ Loops /\ now \in Nat /\ call = NoCall /\ phase = "untils" /\ Waits(p, now)
  BY DEF Going, TypeOK, WaitEnds, Idle, Waits
<1>1. p \in myTransportables /\ plan[p] # << >>
  BY <1>0 DEF PersonInv, OnlyLiveOf, PlanOf
<1>2. call' # NoCall /\ call'.who = p /\ call'.first = FALSE
  BY <1>1, StageOnEdge, CallMade DEF WaitEnds
<1>3. \A t \in Nat : Due(myWaitingUntil, t)' =
                       IF t = now THEN Due(myWaitingUntil, t) \ {p} ELSE Due(myWaitingUntil, t)
  BY <1>0 DEF WaitEnds, Due, Waits
<1>4. \A q \in Persons, t \in Nat :
        /\ StillDeparts(q, t)' <=> StillDeparts(q, t)
        /\ q # p => (StillWakes(q, t)' <=> StillWakes(q, t))
        /\ q # p => (Waits(q, t)' <=> Waits(q, t))
  BY <1>0, <1>3 DEF WaitEnds, StillDeparts, StillWakes, Waits, BeforeDepartures, BeforeUntils
<1>5. \A q \in Persons \ {p} : SameFor(q)
  BY <1>0, <1>2, <1>4 DEF WaitEnds, SameFor, Queues, RidesIn, InCall, FirstCall
<1>6. /\ \A t \in Nat : ~StillDeparts(p, t)
      /\ \A t \in Nat : Waits(p, t) => t = now
      /\ \A e \in Edges : ~Queues(p, e)
      /\ \A v \in Vehicles : ~RidesIn(p, v)
      /\ p \notin onFoot
  BY <1>0 DEF PersonInv, OnePlaceOf
<1>7. InCall(p)' /\ ~FirstCall(p)'
  BY <1>2 DEF InCall, FirstCall
<1>8. PersonInv(p)'
  <2>1. \A e \in Edges : ~Queues(p, e)'
    BY <1>6 DEF WaitEnds, Queues
  <2>2. \A v \in Vehicles : ~RidesIn(p, v)'
    BY <1>6 DEF WaitEnds, RidesIn
  <2>3. p \in myTransportables' /\ p \notin onFoot' /\ plan'[p] # << >>
    BY <1>1, <1>6 DEF WaitEnds
  <2>4. \A t \in Nat : ~StillDeparts(p, t)' /\ ~Waits(p, t)'
    BY <1>3, <1>4, <1>6 DEF Waits
  <2> QED BY <1>7, <2>1, <2>2, <2>3, <2>4, OnlyInCall
<1>9. Loops'
  BY <1>0 DEF WaitEnds, Loops
<1>10. /\ CountedIn(p)' <=> CountedIn(p)
       /\ \A e \in Edges : Queues(p, e)' <=> Queues(p, e)
  BY <1>0, <1>1, <1>4, <1>6, <1>7 DEF CountedIn, FirstCall, InCall, WaitEnds, Queues
<1>11. now' = now /\ now \in Nat /\ UNCHANGED <<myRunningNumber, myWaitingForVehicleNumber>>
  BY <1>0 DEF WaitEnds
<1>12. /\ now' >= now
       /\ myRunningNumber' =
            myRunningNumber + (IF CountedIn(p)' THEN 1 ELSE 0) - (IF CountedIn(p) THEN 1 ELSE 0)
       /\ myWaitingForVehicleNumber' =
            myWaitingForVehicleNumber + (IF \E e \in Edges : Queues(p, e)' THEN 1 ELSE 0)
                                      - (IF \E e \in Edges : Queues(p, e) THEN 1 ELSE 0)
  <2>1. myRunningNumber \in Int /\ myWaitingForVehicleNumber \in Int
    BY DEF TypeOK
  <2>2. (\E e \in Edges : Queues(p, e)') <=> (\E e \in Edges : Queues(p, e))
    BY <1>10
  <2> QED BY <1>10, <1>11, <2>1, <2>2
<1> QED BY <1>5, <1>8, <1>9, <1>12, OneTouched

LEMMA AddKeeps ==
  ASSUME TypeOK, TypeOK', Going, NEW p \in Persons, add(p)
  PROVE  Going'
<1> USE DEF loop, numbers
<1>1. PICK t \in Departs : t >= now /\ myWaiting4Departure' = Put(myWaiting4Departure, t, {p})
  BY DEF add
<1>2. PICK pl \in Plans : plan' = [plan EXCEPT ![p] = pl]
  BY DEF add
<1>0. /\ PersonInv(p) /\ Loops /\ now \in Nat /\ t \in Nat /\ call = NoCall /\ phase = "load"
      /\ p \notin myTransportables
  BY TimesAssumption DEF Going, TypeOK, add, Idle
<1>3. pl \in Seq(Stages) /\ Len(pl) >= 2 /\ pl # << >>
  BY PlansAssumption
<1>4. \A u \in Nat : Due(myWaiting4Departure, u)' =
                       IF u = t THEN {p} \cup Due(myWaiting4Departure, t) ELSE Due(myWaiting4Departure, u)
  BY <1>1, DuePut DEF Due
<1>5. \A q \in Persons, u \in Nat :
        /\ StillDeparts(q, u)' <=> (StillDeparts(q, u) \/ (q = p /\ u = t))
        /\ StillWakes(q, u)' <=> StillWakes(q, u)
        /\ Waits(q, u)' <=> Waits(q, u)
  <2> TAKE q \in Persons, u \in Nat
  <2>1. UNCHANGED <<now, phase, left, myWaitingUntil>>
    BY DEF add
  <2>2. StillDeparts(q, u)' <=> (StillDeparts(q, u) \/ (q = p /\ u = t))
    BY <1>0, <1>1, <1>4, <2>1 DEF StillDeparts, BeforeDepartures
  <2>3. (StillWakes(q, u)' <=> StillWakes(q, u)) /\ (Waits(q, u)' <=> Waits(q, u))
    BY <2>1 DEF StillWakes, Waits, BeforeDepartures, BeforeUntils
  <2> QED BY <2>2, <2>3
<1>6. \A q \in Persons \ {p} : SameFor(q)
  <2> TAKE q \in Persons \ {p}
  <2>1. plan'[q] = plan[q]
    BY <1>2 DEF TypeOK
  <2> QED BY <1>0, <1>5, <2>1 DEF add, SameFor, Queues, RidesIn, InCall, FirstCall
<1>7. /\ \A u \in Nat : ~StillDeparts(p, u) /\ ~Waits(p, u)
      /\ \A e \in Edges : ~Queues(p, e)
      /\ \A v \in Vehicles : ~RidesIn(p, v)
      /\ p \notin onFoot
  BY <1>0 DEF PersonInv, OnlyLiveOf
<1>8. /\ \A u \in Nat : StillDeparts(p, u)' <=> u = t
      /\ \A u \in Nat : ~Waits(p, u)'
      /\ \A e \in Edges : ~Queues(p, e)'
      /\ \A v \in Vehicles : ~RidesIn(p, v)'
      /\ p \notin onFoot' /\ p \in myTransportables'
      /\ ~InCall(p)' /\ ~FirstCall(p)'
  BY <1>0, <1>5, <1>7 DEF add, Queues, RidesIn, InCall, FirstCall
<1>9. plan'[p] = pl
  BY <1>2 DEF TypeOK
<1>10. PersonInv(p)'
  BY <1>0, <1>3, <1>8, <1>9 DEF PersonInv, OnePlaceOf, OnlyLiveOf, PlanOf, KeptOf
<1>11. Loops'
  BY <1>0 DEF add, Loops
<1>12. /\ ~CountedIn(p)' /\ ~CountedIn(p)
       /\ \A e \in Edges : Queues(p, e)' <=> Queues(p, e)
  BY <1>0, <1>7, <1>8 DEF CountedIn
<1>13. /\ now' >= now /\ UNCHANGED <<myRunningNumber, myWaitingForVehicleNumber>>
       /\ myRunningNumber \in Int /\ myWaitingForVehicleNumber \in Int
  BY <1>0 DEF add, TypeOK
<1> QED BY <1>6, <1>10, <1>11, <1>12, <1>13, OneTouched

(***************************************************************************)
(* The calls of proceed.                                                   *)
(***************************************************************************)

(* A person in a call is nowhere else.                                     *)
LEMMA CallAlone ==
  ASSUME TypeOK, Going, NEW p \in Persons, Called(p)
  PROVE  /\ PersonInv(p) /\ InCall(p) /\ now \in Nat
         /\ p \in myTransportables /\ plan[p] # << >>
         /\ FirstCall(p) <=> call.first
         /\ CountedIn(p) <=> ~call.first
         /\ Counted(p) = IF call.first THEN 1 ELSE 0
         /\ \A t \in Nat : ~StillDeparts(p, t) /\ ~Waits(p, t)
         /\ \A e \in Edges : ~Queues(p, e)
         /\ \A v \in Vehicles : ~RidesIn(p, v)
         /\ p \notin onFoot
         /\ ~InCall(p)' /\ ~FirstCall(p)'
<1>1. PersonInv(p) /\ InCall(p) /\ now \in Nat
  BY DEF Going, Called, InCall, TypeOK
<1>2. /\ \A t \in Nat : ~StillDeparts(p, t) /\ ~Waits(p, t)
      /\ \A e \in Edges : ~Queues(p, e)
      /\ \A v \in Vehicles : ~RidesIn(p, v)
      /\ p \notin onFoot
  BY <1>1 DEF PersonInv, OnePlaceOf
<1>3. p \in myTransportables /\ plan[p] # << >>
  BY <1>1 DEF PersonInv, OnlyLiveOf, PlanOf
<1>4. /\ FirstCall(p) <=> call.first
      /\ CountedIn(p) <=> ~call.first
  BY <1>1, <1>2, <1>3 DEF CountedIn, FirstCall
<1>5. Counted(p) = IF call.first THEN 1 ELSE 0
  <2>1. FirstCall(p) => Len(plan[p]) >= 2
    BY <1>1 DEF PersonInv, PlanOf
  <2> QED BY <1>4, <2>1 DEF Counted
<1>6. ~InCall(p)' /\ ~FirstCall(p)'
  BY DEF Called, InCall, FirstCall
<1> QED BY <1>1, <1>2, <1>3, <1>4, <1>5, <1>6

LEMMA TailFacts ==
  ASSUME NEW S, NEW s \in Seq(S), NEW k \in 1..Len(s)
  PROVE  SubSeq(s, k, Len(s)) # << >> /\ Head(SubSeq(s, k, Len(s))) = s[k]
<1> DEFINE r == SubSeq(s, k, Len(s))
<1>1. Len(s) \in Nat
  OBVIOUS
<1>2. r \in Seq(S) /\ Len(r) = Len(s) - k + 1 /\ r[1] = s[k]
  BY <1>1
<1> HIDE DEF r
<1>3. Len(r) # 0
  BY <1>1, <1>2
<1>4. r # << >>
  BY <1>3
<1>5. Head(r) = r[1]
  BY <1>2, <1>4
<1> QED BY <1>2, <1>4, <1>5 DEF r

(* What is left of the plan begins with the stage the call comes to.       *)
LEMMA PlanLeft ==
  ASSUME TypeOK, NEW p \in Persons, NEW k \in Lasting(p),
         plan' = [plan EXCEPT ![p] = SubSeq(@, k, Len(@))]
  PROVE  plan'[p] # << >> /\ Stage(p)' = plan[p][k]
<1>1. plan[p] \in Seq(Stages) /\ k \in 2..Len(plan[p])
  BY DEF TypeOK, Lasting
<1>2. plan'[p] = SubSeq(plan[p], k, Len(plan[p]))
  BY DEF TypeOK
<1>3. Len(plan[p]) \in Nat /\ k \in 1..Len(plan[p])
  BY <1>1
<1> QED BY <1>1, <1>2, <1>3, TailFacts DEF Stage

(* A call that erases the person.                                          *)
LEMMA EraseKeeps ==
  ASSUME TypeOK, TypeOK', Going, NEW p \in Persons, Called(p), Erase(p),
         UNCHANGED <<loop, maps, myWaitingForVehicleNumber, myHaveNewWaiting, onFoot, aboard, veh, at>>
  PROVE  Going'
<1> USE DEF loop, maps
<1>0. Loops
  BY DEF Going
<1>1. \A q \in Persons, t \in Nat :
        /\ StillDeparts(q, t)' <=> StillDeparts(q, t)
        /\ StillWakes(q, t)' <=> StillWakes(q, t)
        /\ Waits(q, t)' <=> Waits(q, t)
  BY DEF StillDeparts, StillWakes, Waits, BeforeDepartures, BeforeUntils
<1>2. \A q \in Persons \ {p} : SameFor(q)
  <2> TAKE q \in Persons \ {p}
  <2>1. plan'[q] = plan[q] /\ (q \in myTransportables' <=> q \in myTransportables)
    BY DEF Erase, TypeOK
  <2>2. ~InCall(q) /\ ~InCall(q)' /\ ~FirstCall(q) /\ ~FirstCall(q)'
    BY DEF Called, InCall, FirstCall
  <2> QED BY <1>1, <2>1, <2>2 DEF SameFor, Queues, RidesIn
<1>3. p \notin myTransportables'
  BY DEF Erase
<1>4. /\ \A t \in Nat : ~StillDeparts(p, t)' /\ ~Waits(p, t)'
      /\ \A e \in Edges : ~Queues(p, e)' /\ ~Queues(p, e)
      /\ \A v \in Vehicles : ~RidesIn(p, v)'
      /\ p \notin onFoot' /\ ~InCall(p)' /\ ~FirstCall(p)'
  BY <1>1, CallAlone DEF Queues, RidesIn
<1>5. PersonInv(p)'
  BY <1>3, <1>4 DEF PersonInv, OnePlaceOf, OnlyLiveOf, PlanOf, KeptOf
<1>6. Loops'
  BY <1>0 DEF Loops
<1>7. myRunningNumber' =
        myRunningNumber + (IF CountedIn(p)' THEN 1 ELSE 0) - (IF CountedIn(p) THEN 1 ELSE 0)
  BY <1>3, CallAlone DEF CountedIn, Erase, TypeOK
<1>8. myWaitingForVehicleNumber' =
        myWaitingForVehicleNumber + (IF \E e \in Edges : Queues(p, e)' THEN 1 ELSE 0)
                                  - (IF \E e \in Edges : Queues(p, e) THEN 1 ELSE 0)
  BY <1>4 DEF TypeOK
<1>9. now' >= now
  BY DEF TypeOK
<1> QED BY <1>2, <1>5, <1>6, <1>7, <1>8, <1>9, OneTouched

(* A call after which the person is in stage k: what is left to show.      *)
LEMMA RemainsKeeps ==
  ASSUME TypeOK, TypeOK', Going, NEW p \in Persons, NEW k \in Lasting(p), Called(p), RemainsIn(p, k),
         UNCHANGED now,
         \A q \in Persons, t \in Nat :
           /\ StillDeparts(q, t)' <=> StillDeparts(q, t)
           /\ q # p => (StillWakes(q, t)' <=> StillWakes(q, t))
           /\ q # p => (Waits(q, t)' <=> Waits(q, t)),
         \A q \in Persons \ {p} : /\ \A e \in Edges : Queues(q, e)' <=> Queues(q, e)
                                  /\ \A v \in Vehicles : RidesIn(q, v)' <=> RidesIn(q, v)
                                  /\ q \in onFoot' <=> q \in onFoot,
         OnePlaceOf(p)', KeptOf(p)', Loops',
         myWaitingForVehicleNumber' =
           myWaitingForVehicleNumber + (IF \E e \in Edges : Queues(p, e)' THEN 1 ELSE 0)
  PROVE  Going'
<1>1. \A q \in Persons \ {p} : SameFor(q)
  <2> TAKE q \in Persons \ {p}
  <2>1. plan'[q] = plan[q] /\ (q \in myTransportables' <=> q \in myTransportables)
    BY DEF RemainsIn, TypeOK
  <2>2. ~InCall(q) /\ ~InCall(q)' /\ ~FirstCall(q) /\ ~FirstCall(q)'
    BY DEF Called, InCall, FirstCall
  <2> QED BY <2>1, <2>2 DEF SameFor
<1>2. /\ p \in myTransportables' /\ plan'[p] # << >>
      /\ \A t \in Nat : ~StillDeparts(p, t)'
      /\ ~FirstCall(p)'
  BY CallAlone, PlanLeft DEF RemainsIn
<1>3. PersonInv(p)'
  BY <1>2 DEF PersonInv, OnlyLiveOf, PlanOf
<1>4. myRunningNumber' =
        myRunningNumber + (IF CountedIn(p)' THEN 1 ELSE 0) - (IF CountedIn(p) THEN 1 ELSE 0)
  <2>1. CountedIn(p)' /\ myRunningNumber \in Int
    BY <1>2 DEF CountedIn, TypeOK
  <2>2. myRunningNumber' = myRunningNumber + Counted(p)
    BY DEF RemainsIn
  <2> QED BY <2>1, <2>2, CallAlone
<1>5. myWaitingForVehicleNumber' =
        myWaitingForVehicleNumber + (IF \E e \in Edges : Queues(p, e)' THEN 1 ELSE 0)
                                  - (IF \E e \in Edges : Queues(p, e) THEN 1 ELSE 0)
  BY CallAlone DEF TypeOK
<1>6. now' >= now
  BY DEF TypeOK
<1> QED BY <1>1, <1>3, <1>4, <1>5, <1>6, OneTouched

LEMMA ProceedWalkKeeps ==
  ASSUME TypeOK, TypeOK', Going, NEW p \in Persons, NEW k \in Lasting(p), ProceedWalk(p, k)
  PROVE  Going'
<1> USE DEF loop, maps
<1>0. Called(p) /\ RemainsIn(p, k) /\ Loops
  BY DEF Going, ProceedWalk, Reaches
<1>1. \A q \in Persons, t \in Nat :
        /\ StillDeparts(q, t)' <=> StillDeparts(q, t)
        /\ StillWakes(q, t)' <=> StillWakes(q, t)
        /\ Waits(q, t)' <=> Waits(q, t)
  BY DEF ProceedWalk, StillDeparts, StillWakes, Waits, BeforeDepartures, BeforeUntils
<1>2. /\ \A q \in Persons, e \in Edges : Queues(q, e)' <=> Queues(q, e)
      /\ \A q \in Persons, v \in Vehicles : RidesIn(q, v)' <=> RidesIn(q, v)
      /\ \A q \in Persons : q \in onFoot' <=> (q \in onFoot \/ q = p)
  BY DEF ProceedWalk, Queues, RidesIn
<1>3. OnePlaceOf(p)' /\ KeptOf(p)'
  BY <1>0, <1>1, <1>2, CallAlone DEF OnePlaceOf, KeptOf
<1>4. Loops'
  BY <1>0 DEF ProceedWalk, Loops
<1>5. /\ UNCHANGED <<now, myWaitingForVehicleNumber>>
      /\ \A e \in Edges : ~Queues(p, e)'
      /\ myWaitingForVehicleNumber \in Int
  BY <1>0, <1>2, CallAlone DEF ProceedWalk, TypeOK
<1> QED BY <1>0, <1>1, <1>2, <1>3, <1>4, <1>5, RemainsKeeps

LEMMA ProceedTriggerKeeps ==
  ASSUME TypeOK, TypeOK', Going, NEW p \in Persons, NEW k \in Lasting(p), NEW v \in Vehicles,
         ProceedTrigger(p, k, v)
  PROVE  Going'
<1> USE DEF loop, maps
<1>0. Called(p) /\ RemainsIn(p, k) /\ Loops /\ veh[v] = "triggered"
  BY DEF Going, ProceedTrigger, Reaches
<1>1. \A q \in Persons, t \in Nat :
        /\ StillDeparts(q, t)' <=> StillDeparts(q, t)
        /\ StillWakes(q, t)' <=> StillWakes(q, t)
        /\ Waits(q, t)' <=> Waits(q, t)
  BY DEF ProceedTrigger, StillDeparts, StillWakes, Waits, BeforeDepartures, BeforeUntils
<1>2. /\ \A q \in Persons, e \in Edges : Queues(q, e)' <=> Queues(q, e)
      /\ \A q \in Persons, w \in Vehicles : RidesIn(q, w)' <=> (RidesIn(q, w) \/ (q = p /\ w = v))
      /\ \A q \in Persons : q \in onFoot' <=> q \in onFoot
  BY DEF ProceedTrigger, Queues, RidesIn, TypeOK
<1>3. OnePlaceOf(p)' /\ KeptOf(p)'
  BY <1>0, <1>1, <1>2, CallAlone DEF OnePlaceOf, KeptOf
<1>4. Loops'
  BY <1>0 DEF ProceedTrigger, Loops, TypeOK
<1>5. /\ UNCHANGED <<now, myWaitingForVehicleNumber>>
      /\ \A e \in Edges : ~Queues(p, e)'
      /\ myWaitingForVehicleNumber \in Int
  BY <1>0, <1>2, CallAlone DEF ProceedTrigger, TypeOK
<1> QED BY <1>0, <1>1, <1>2, <1>3, <1>4, <1>5, RemainsKeeps

LEMMA ProceedQueueKeeps ==
  ASSUME TypeOK, TypeOK', Going, NEW p \in Persons, NEW k \in Lasting(p), ProceedQueue(p, k)
  PROVE  Going'
<1> USE DEF loop
<1> DEFINE f == Origin(p, k)
<1>0. Called(p) /\ RemainsIn(p, k) /\ Loops /\ call # NoCall
  BY DEF Going, ProceedQueue, Reaches, Called
<1>1. f \in Edges
  BY <1>0, StageFacts
<1> HIDE DEF f
<1>2. myWaiting4Vehicle' = [myWaiting4Vehicle EXCEPT ![f] = @ \cup {p}]
  BY DEF ProceedQueue, addWaiting, f
<1>3. \A q \in Persons, t \in Nat :
        /\ StillDeparts(q, t)' <=> StillDeparts(q, t)
        /\ StillWakes(q, t)' <=> StillWakes(q, t)
        /\ Waits(q, t)' <=> Waits(q, t)
  BY DEF ProceedQueue, StillDeparts, StillWakes, Waits, BeforeDepartures, BeforeUntils
<1>4. /\ \A q \in Persons, e \in Edges : Queues(q, e)' <=> (Queues(q, e) \/ (q = p /\ e = f))
      /\ \A q \in Persons, w \in Vehicles : RidesIn(q, w)' <=> RidesIn(q, w)
      /\ \A q \in Persons : q \in onFoot' <=> q \in onFoot
  BY <1>1, <1>2 DEF ProceedQueue, Queues, RidesIn, TypeOK
<1>5. OnePlaceOf(p)' /\ KeptOf(p)'
  BY <1>0, <1>1, <1>3, <1>4, CallAlone DEF OnePlaceOf, KeptOf
<1>6. Loops'
  BY <1>0 DEF ProceedQueue, Loops
<1>7. UNCHANGED now /\ myWaitingForVehicleNumber' = myWaitingForVehicleNumber + 1
      /\ \E e \in Edges : Queues(p, e)'
  BY <1>1, <1>4 DEF ProceedQueue, addWaiting
<1> QED BY <1>0, <1>3, <1>4, <1>5, <1>6, <1>7, RemainsKeeps

LEMMA ProceedWaitKeeps ==
  ASSUME TypeOK, TypeOK', Going, NEW p \in Persons, NEW k \in Lasting(p), ProceedWait(p, k)
  PROVE  Going'
<1> USE DEF loop
<1>s. PICK s : s = plan[p][k]
  OBVIOUS
<1>t. PICK t : t = WaitEnd(s)
  OBVIOUS
<1>k. PICK kept \in BOOLEAN : kept <=> p \notin Due(myWaiting4Departure, t)
  OBVIOUS
<1>0. /\ Called(p) /\ RemainsIn(p, k) /\ Loops /\ s.kind = "wait"
      /\ setWaitEnd(t, p) /\ now \in Nat
  BY <1>s, <1>t DEF Going, ProceedWait, Reaches, TypeOK
<1>1. t \in Nat /\ t >= now /\ (t = now => s.duration <= 0 /\ s.until <= now)
  BY <1>s, <1>t, StageFacts, WaitEndFacts
<1>2. Stage(p)' = s
  BY <1>0, <1>s, PlanLeft DEF RemainsIn
<1>3. \A u \in Nat : Due(myWaiting4Departure, u)' = Due(myWaiting4Departure, u)
  <2>1. myWaiting4Departure' = Put(myWaiting4Departure, t, {})
    BY <1>0 DEF setWaitEnd
  <2>2. \A u \in Nat : Due(myWaiting4Departure', u) =
                         IF u = t THEN {} \cup Due(myWaiting4Departure, t) ELSE Due(myWaiting4Departure, u)
    BY <2>1, DuePut
  <2> QED BY <2>2 DEF Due
<1>4. \A u \in Nat : Due(myWaitingUntil, u)' =
                       IF kept /\ u = t THEN {p} \cup Due(myWaitingUntil, u) ELSE Due(myWaitingUntil, u)
  <2>1. CASE kept
    <3>1. myWaitingUntil' = Put(myWaitingUntil, t, {p})
      BY <1>0, <1>k, <2>1 DEF setWaitEnd
    <3>2. \A u \in Nat : Due(myWaitingUntil', u) =
                           IF u = t THEN {p} \cup Due(myWaitingUntil, t) ELSE Due(myWaitingUntil, u)
      BY <3>1, DuePut
    <3> QED BY <2>1, <3>2 DEF Due
  <2>2. CASE ~kept
    <3>1. myWaitingUntil' = myWaitingUntil
      BY <1>0, <1>k, <2>2 DEF setWaitEnd
    <3> QED BY <2>2, <3>1 DEF Due
  <2> QED BY <2>1, <2>2
<1>5. UNCHANGED <<now, phase, left, busy, aboard, veh, myWaiting4Vehicle, onFoot,
                  myWaitingForVehicleNumber>>
  BY DEF ProceedWait
<1>6. \A q \in Persons, u \in Nat :
        /\ StillDeparts(q, u)' <=> StillDeparts(q, u)
        /\ q # p => (StillWakes(q, u)' <=> StillWakes(q, u))
        /\ q # p => (Waits(q, u)' <=> Waits(q, u))
        /\ Waits(p, u)' <=> (Waits(p, u) \/ (kept /\ u = t))
        /\ StillWakes(p, u)' <=> (Waits(p, u)' /\ (u > now \/ (u = now /\ BeforeUntils)))
  BY <1>3, <1>4, <1>5 DEF StillDeparts, StillWakes, Waits, BeforeDepartures, BeforeUntils
<1>7. /\ \A q \in Persons, e \in Edges : Queues(q, e)' <=> Queues(q, e)
      /\ \A q \in Persons, w \in Vehicles : RidesIn(q, w)' <=> RidesIn(q, w)
      /\ \A q \in Persons : q \in onFoot' <=> q \in onFoot
  BY <1>5 DEF Queues, RidesIn
<1>8. OnePlaceOf(p)'
  BY <1>0, <1>1, <1>6, <1>7, CallAlone DEF OnePlaceOf
<1>9. KeptOf(p)'
  <2>1. t > now => kept
    BY <1>0, <1>1, <1>k, CallAlone DEF StillDeparts
  <2>2. t > now => StillWakes(p, t)'
    BY <1>1, <1>6, <2>1
  <2>3. t = now => Brief(Stage(p))'
    BY <1>0, <1>1, <1>2, <1>5 DEF Brief
  <2> QED BY <1>0, <1>1, <2>2, <2>3 DEF KeptOf
<1>10. Loops'
  <2>1. phase = "departures" => left' \subseteq Due(myWaiting4Departure, now)'
    BY <1>0, <1>3, <1>5 DEF Loops
  <2> QED BY <1>0, <1>5, <2>1 DEF Loops
<1>11. /\ UNCHANGED <<now, myWaitingForVehicleNumber>>
       /\ \A e \in Edges : ~Queues(p, e)'
       /\ myWaitingForVehicleNumber \in Int
  BY <1>0, <1>5, <1>7, CallAlone DEF TypeOK
<1> QED BY <1>0, <1>6, <1>7, <1>8, <1>9, <1>10, <1>11, RemainsKeeps

LEMMA ProceedKeeps ==
  ASSUME TypeOK, TypeOK', Going, NEW p \in Persons, Proceed(p)
  PROVE  Going'
<1>1. CASE ProceedOut(p)
  BY <1>1, EraseKeeps DEF ProceedOut
<1>2. ASSUME NEW k \in Lasting(p), ProceedRefused(p, k)
      PROVE  Going'
  BY <1>2, EraseKeeps DEF ProceedRefused, Reaches
<1>3. ASSUME NEW k \in Lasting(p), ProceedWalk(p, k)
      PROVE  Going'
  BY <1>3, ProceedWalkKeeps
<1>4. ASSUME NEW k \in Lasting(p), ProceedWait(p, k)
      PROVE  Going'
  BY <1>4, ProceedWaitKeeps
<1>5. ASSUME NEW k \in Lasting(p), NEW v \in Vehicles, ProceedTrigger(p, k, v)
      PROVE  Going'
  BY <1>5, ProceedTriggerKeeps
<1>6. ASSUME NEW k \in Lasting(p), ProceedQueue(p, k)
      PROVE  Going'
  BY <1>6, ProceedQueueKeeps
<1> QED BY <1>1, <1>2, <1>3, <1>4, <1>5, <1>6 DEF Proceed

(* Several persons board at once.                                          *)
LEMMA BoardKeeps ==
  ASSUME TypeOK, TypeOK', Going, NEW v \in Vehicles, boardAnyWaiting(v)
  PROVE  Going'
<1> USE DEF loop
<1>1. PICK S \in SUBSET {p \in myWaiting4Vehicle[at[v]] : v \in Stage(p).lines} :
        /\ myWaiting4Vehicle' = [myWaiting4Vehicle EXCEPT ![at[v]] = @ \ S]
        /\ myWaitingForVehicleNumber' = myWaitingForVehicleNumber - Cardinality(S)
        /\ aboard' = [aboard EXCEPT ![v] = @ \cup S]
  BY DEF boardAnyWaiting
<1>0. /\ now \in Nat /\ Loops /\ busy = NoVehicle /\ phase \in {"vehicles", "after"}
      /\ at[v] \in Edges /\ veh[v] \in {"stopped", "awaiting"} /\ call = NoCall
  BY DEF Going, TypeOK, boardAnyWaiting, AtStop, Idle
<1>2. S \subseteq Persons /\ \A q \in S : Queues(q, at[v])
  BY <1>0, <1>1 DEF TypeOK, Queues
<1>3. \A q \in Persons, t \in Nat :
        /\ StillDeparts(q, t)' <=> StillDeparts(q, t)
        /\ StillWakes(q, t)' <=> StillWakes(q, t)
        /\ Waits(q, t)' <=> Waits(q, t)
  BY DEF boardAnyWaiting, StillDeparts, StillWakes, Waits, BeforeDepartures, BeforeUntils
<1>4. /\ \A q \in Persons, e \in Edges : Queues(q, e)' <=> (Queues(q, e) /\ ~(q \in S /\ e = at[v]))
      /\ \A q \in Persons, w \in Vehicles : RidesIn(q, w)' <=> (RidesIn(q, w) \/ (q \in S /\ w = v))
      /\ UNCHANGED <<onFoot, call, plan, myTransportables, now>>
  BY <1>0, <1>1 DEF boardAnyWaiting, Queues, RidesIn, TypeOK
<1>5. \A q \in Persons : (InCall(q)' <=> InCall(q)) /\ (FirstCall(q)' <=> FirstCall(q))
  BY <1>4 DEF InCall, FirstCall
<1>6. \A q \in Persons : PersonInv(q)'
  <2> TAKE q \in Persons
  <2>0. PersonInv(q)
    BY DEF Going
  <2>1. CASE q \notin S
    <3>1. SameFor(q)
      BY <1>3, <1>4, <1>5, <2>1 DEF SameFor, InCall, FirstCall
    <3>2. now' \in Nat /\ now' >= now
      BY <1>0, <1>4
    <3> QED BY <1>0, <2>0, <3>1, <3>2, Untouched
  <2>2. CASE q \in S
    <3>1. Queues(q, at[v])
      BY <1>2, <2>2
    <3>2. /\ \A t \in Nat : ~StillDeparts(q, t) /\ ~Waits(q, t)
          /\ \A e \in Edges : Queues(q, e) => e = at[v]
          /\ \A w \in Vehicles : ~RidesIn(q, w)
          /\ q \notin onFoot /\ q \in myTransportables /\ plan[q] # << >>
      BY <1>0, <2>0, <3>1 DEF PersonInv, OnePlaceOf, OnlyLiveOf, PlanOf
    <3>3. /\ \A t \in Nat : ~StillDeparts(q, t)' /\ ~Waits(q, t)'
          /\ \A e \in Edges : ~Queues(q, e)'
          /\ \A w \in Vehicles : RidesIn(q, w)' <=> w = v
          /\ q \notin onFoot' /\ q \in myTransportables' /\ plan'[q] # << >>
          /\ ~InCall(q)' /\ ~FirstCall(q)'
      BY <1>0, <1>3, <1>4, <2>2, <3>2 DEF InCall, FirstCall
    <3> QED BY <3>3 DEF PersonInv, OnePlaceOf, OnlyLiveOf, PlanOf, KeptOf
  <2> QED BY <2>1, <2>2
<1>7. Loops'
  <2>1. \A w \in Vehicles : veh[w] # "leaving"
    BY <1>0, NoneLeaving
  <2>2. \A w \in Vehicles : veh'[w] \in {"leaving", "gone"} => w # v /\ veh[w] = veh'[w]
    BY <1>0 DEF boardAnyWaiting, TypeOK
  <2>3. UNCHANGED <<now, phase, left, busy, myWaiting4Departure>>
    BY DEF boardAnyWaiting
  <2>4. \A w \in Vehicles : w # v => aboard'[w] = aboard[w]
    BY <1>1 DEF TypeOK
  <2> QED BY <1>0, <2>1, <2>2, <2>3, <2>4 DEF Loops
<1>8. Running' = Running
  <2>1. \A q \in Persons : CountedIn(q)' <=> CountedIn(q)
    BY <1>3, <1>4 DEF CountedIn, FirstCall, InCall
  <2>2. \A q \in Persons : q \in Running' <=> q \in Running
    BY <2>1, RunningMember, RunningAfter
  <2>3. Running' \subseteq Persons /\ Running \subseteq Persons
    BY FiniteAfter, Finite
  <2> QED BY <2>2, <2>3
<1>9. Queued' = Queued \ S
  <2>1. \A q \in Persons : q \in Queued' <=> (q \in Queued /\ q \notin S)
    <3> TAKE q \in Persons
    <3>1. q \in S => \A e \in Edges : Queues(q, e) => e = at[v]
      BY <1>0, <1>2 DEF Going, PersonInv, OnePlaceOf
    <3>2. (\E e \in Edges : Queues(q, e)') <=> ((\E e \in Edges : Queues(q, e)) /\ q \notin S)
      BY <1>2, <1>4, <3>1
    <3> QED BY <3>2, QueuedMember, QueuedAfter
  <2>2. Queued' \subseteq Persons /\ Queued \subseteq Persons
    BY FiniteAfter, Finite
  <2> QED BY <2>1, <2>2
<1>10. Cardinality(Queued') = Cardinality(Queued) - Cardinality(S)
  <2>1. S \subseteq Queued /\ IsFiniteSet(Queued)
    BY <1>0, <1>2, QueuedMember, Finite
  <2>2. Queued \cap S = S /\ IsFiniteSet(S)
    BY <2>1, FS_Subset
  <2>3. Cardinality(Queued \ S) = Cardinality(Queued) - Cardinality(Queued \cap S)
    BY <2>1, FS_Difference
  <2> QED BY <1>9, <2>2, <2>3
<1>11. /\ UNCHANGED myRunningNumber
       /\ myRunningNumber = Cardinality(Running) /\ myWaitingForVehicleNumber = Cardinality(Queued)
  BY DEF boardAnyWaiting, Going, Counts, Running
<1>12. Counts'
  BY <1>1, <1>8, <1>10, <1>11 DEF Counts, Running
<1> QED BY <1>6, <1>7, <1>12 DEF Going

(* The end of the run.                                                     *)
LEMMA EndRunOver ==
  ASSUME TypeOK, Going, EndRun
  PROVE  Over'
<1>1. call' = NoCall
  BY DEF EndRun, Idle
<1>a. myRunningNumber = Cardinality(Running) /\ myWaitingForVehicleNumber = Cardinality(Queued)
  BY DEF Going, Counts, Running
<1>b. ~(DOMAIN myWaiting4Departure # {}) /\ ~(myWaitingForVehicleNumber < myRunningNumber)
  BY Zenon DEF EndRun, Finished, hasNonWaiting
<1>2. /\ myRunningNumber = Cardinality(Running) /\ myWaitingForVehicleNumber = Cardinality(Queued)
      /\ myWaitingForVehicleNumber >= myRunningNumber
      /\ DOMAIN myWaiting4Departure = {}
      /\ call = NoCall
  <2>1. call = NoCall
    BY Zenon DEF EndRun, Idle
  <2>2. myRunningNumber \in Int /\ myWaitingForVehicleNumber \in Int
    BY DEF TypeOK
  <2>3. DOMAIN myWaiting4Departure = {}
    BY <1>b, Zenon
  <2>4. myWaitingForVehicleNumber >= myRunningNumber
    BY <1>b, <2>2
  <2> QED BY <1>a, <2>1, <2>3, <2>4, Zenon
<1>3. ToDepart = {} /\ Running = myTransportables
  BY <1>2 DEF ToDepart, StillDeparts, Running
<1>4. Queued \subseteq myTransportables
  <2>1. \A q \in Persons : q \in Queued => q \in myTransportables
    BY QueuedMember DEF Going, PersonInv, OnlyLiveOf
  <2> QED BY <2>1, Finite
<1>5. /\ IsFiniteSet(myTransportables)
      /\ Cardinality(Queued) <= Cardinality(myTransportables)
      /\ Cardinality(Queued) = Cardinality(myTransportables) => Queued = myTransportables
      /\ Cardinality(Queued) \in Nat /\ Cardinality(myTransportables) \in Nat
  BY <1>3, <1>4, Finite, FS_Subset, FS_CardinalityType
<1>6. Queued = myTransportables
  BY <1>2, <1>3, <1>5
<1> QED BY <1>1, <1>2, <1>3, <1>5, <1>6 DEF EndRun, Over

(* Nothing happens after the end, and only EndRun brings it about.         *)
LEMMA NextNotEnded ==
  ASSUME Next
  PROVE  (~ended \/ call # NoCall) /\ (EndRun \/ ended' = ended)
<1> USE DEF loop
<1> DEFINE G == (~ended \/ call # NoCall) /\ (EndRun \/ ended' = ended)
<1>1. ASSUME NEW p \in Persons, Proceed(p) PROVE G
  <2>1. ASSUME Called(p), UNCHANGED loop PROVE G
    BY <2>1 DEF Called
  <2>2. Called(p) /\ UNCHANGED loop
    BY <1>1 DEF Proceed, ProceedOut, ProceedWalk, ProceedRefused, ProceedWait, ProceedTrigger,
                ProceedQueue, Reaches
  <2> QED BY <2>1, <2>2
<1>2. ASSUME NEW p \in Persons, WalkEnds(p) \/ Alight(p) \/ add(p) \/ Depart(p) \/ WaitEnds(p)
      PROVE  G
  BY <1>2 DEF WalkEnds, Alight, add, Depart, WaitEnds, Idle
<1>3. ASSUME NEW v \in Vehicles, NEW e \in Edges, Stop(v, e) \/ Leave(v, e) PROVE G
  BY <1>3 DEF Stop, Leave, Idle
<1>4. ASSUME NEW v \in Vehicles,
             \/ boardAnyWaiting(v) \/ StopGoesOn(v) \/ LoadVehicle(v) \/ Insert(v) \/ GiveUp(v)
      PROVE  G
  BY <1>4 DEF boardAnyWaiting, StopGoesOn, AtStop, LoadVehicle, Insert, GiveUp, Idle
<1>5. CASE Alighted \/ EndMovements \/ BeginCheck \/ EndDepartures \/ EndUntils \/ EndRun \/ EndStep
  BY <1>5 DEF Alighted, EndMovements, BeginCheck, EndDepartures, EndUntils, EndRun, EndStep, Idle
<1> QED BY <1>1, <1>2, <1>3, <1>4, <1>5 DEF Next

LEMMA InvStep == Inv /\ [Next]_vars => Inv'
<1> SUFFICES ASSUME Inv, [Next]_vars PROVE Inv'
  OBVIOUS
<1>1. TypeOK /\ TypeOK'
  BY TypeStep DEF Inv
<1>2. CASE UNCHANGED vars
  <2>1. UNCHANGED Places /\ UNCHANGED <<now, phase, left, busy, veh, ended, myRunningNumber, myWaitingForVehicleNumber>>
    BY <1>2 DEF vars, Places, loop, maps, people, numbers
  <2>2. ~ended => Going'
    <3> SUFFICES ASSUME ~ended PROVE Going'
      OBVIOUS
    <3>1. Going /\ Loops
      BY DEF Inv, Going
    <3>2. \A q \in Persons : SameFor(q)
      <4> TAKE q \in Persons
      <4>1. \A t \in Nat : /\ StillDeparts(q, t)' <=> StillDeparts(q, t)
                           /\ StillWakes(q, t)' <=> StillWakes(q, t)
        BY <2>1 DEF Places, StillDeparts, StillWakes, BeforeDepartures, BeforeUntils
      <4> QED BY <2>1, <4>1, SamePlaces
    <3>3. Loops'
      BY <2>1, <3>1 DEF Loops, Places
    <3>4. now' >= now
      BY <1>1, <2>1 DEF TypeOK
    <3> QED BY <1>1, <2>1, <3>1, <3>2, <3>3, <3>4, Quiet
  <2>3. ended => Over'
    BY <2>1 DEF Inv, Over, Places
  <2> QED BY <1>1, <2>1, <2>2, <2>3, Zenon DEF Inv
<1>3. CASE Next
  <2>1. ~ended
    BY <1>3, NextNotEnded DEF Inv, Over
  <2>2. Going
    BY <2>1 DEF Inv
  <2>3. CASE EndRun
    <3>1. Over' /\ ended'
      BY <1>1, <2>2, <2>3, EndRunOver DEF EndRun
    <3> QED BY <1>1, <3>1 DEF Inv
  <2>4. CASE ~EndRun
    <3>1. ~ended'
      BY <1>3, <2>1, <2>4, NextNotEnded
    <3>2. Going'
      <4>1. ASSUME NEW p \in Persons,
                   Proceed(p) \/ WalkEnds(p) \/ Alight(p) \/ add(p) \/ Depart(p) \/ WaitEnds(p)
            PROVE  Going'
        BY <1>1, <2>2, <4>1, ProceedKeeps, WalkEndsKeeps, AlightKeeps, AddKeeps, DepartKeeps,
           WaitEndsKeeps
      <4>2. ASSUME NEW v \in Vehicles, NEW e \in Edges, Stop(v, e) \/ Leave(v, e)
            PROVE  Going'
        BY <1>1, <2>2, <4>2, VehicleSteps
      <4>3. ASSUME NEW v \in Vehicles, boardAnyWaiting(v)
            PROVE  Going'
        BY <1>1, <2>2, <4>3, BoardKeeps
      <4>4. ASSUME NEW v \in Vehicles, StopGoesOn(v) \/ LoadVehicle(v) \/ Insert(v) \/ GiveUp(v)
            PROVE  Going'
        <5>1. at[v] \in Edges
          BY <1>1 DEF TypeOK
        <5> QED BY <1>1, <2>2, <4>4, <5>1, VehicleSteps
      <4>5. CASE Alighted \/ EndMovements \/ BeginCheck \/ EndDepartures \/ EndUntils \/ EndStep
        BY <1>1, <2>2, <4>5, LoopSteps
      <4> QED BY <1>3, <2>4, <4>1, <4>2, <4>3, <4>4, <4>5 DEF Next
    <3> QED BY <1>1, <3>1, <3>2, Zenon DEF Inv
  <2> QED BY <2>3, <2>4
<1> QED BY <1>2, <1>3

LEMMA Invariance == Spec => []Inv
<1>1. Init => Inv
  BY TypeInit, GoingInit DEF Inv, Init
<1> QED BY <1>1, InvStep, PTL DEF Spec

(***************************************************************************)
(* The theorems.                                                           *)
(***************************************************************************)

(* Every variable keeps its type, for any set of persons, vehicles, edges  *)
(* and plans.                                                              *)
THEOREM PersonsTypeCorrect == Spec => []TypeOK
<1>1. Inv => TypeOK
  BY DEF Inv
<1> QED BY <1>1, Invariance, PTL

(* The numbers that hasNonWaiting compares are those of the persons on     *)
(* their way and of the persons in a queue.                                *)
THEOREM PersonsCountersAgree == Spec => []CountersAgree
<1>1. Inv => CountersAgree
  BY DEF Inv, Going, Counts, CountersAgree
<1> QED BY <1>1, Invariance, PTL

(* A run that ends for want of vehicles leaves nobody in the simulation.   *)
THEOREM PersonsNobodyLeftBehind == Spec => []NobodyLeftBehind
<1>1. Inv => NobodyLeftBehind
  BY DEF Inv, Over, NobodyLeftBehind
<1> QED BY <1>1, Invariance, PTL

(* Whoever is in the simulation is kept by exactly one loop, vehicle,      *)
(* queue, model or call, but for those in a stop that ends as it begins    *)
(* and those aboard a vehicle given up before it departed.                 *)
LEMMA KeepersOf ==
  ASSUME TypeOK, Loops, NEW p \in Persons
  PROVE  \A x : x \in Keepers(p) <=>
           \/ \E t \in Nat : StillDeparts(p, t) /\ x = <<"departure", t>>
           \/ \E t \in Nat : StillWakes(p, t) /\ x = <<"until", t>>
           \/ \E e \in Edges : Queues(p, e) /\ x = <<"queue", e>>
           \/ \E v \in Vehicles : RidesIn(p, v) /\ veh[v] # "discarded" /\ x = <<"vehicle", v>>
           \/ p \in onFoot /\ x = <<"model", p>>
           \/ InCall(p) /\ x = <<"call", p>>
<1>1. \A t : StillDeparts(p, t) => t \in DOMAIN myWaiting4Departure /\ t \in Nat
  BY DueMap DEF StillDeparts, TypeOK
<1>2. \A t : StillWakes(p, t) => t \in DOMAIN myWaitingUntil /\ t \in Nat
  BY DueMap DEF StillWakes, TypeOK
<1>3. \A v \in Vehicles : p \in aboard[v] => veh[v] # "gone"
  BY DEF Loops
<1> QED BY <1>1, <1>2, <1>3 DEF Keepers, Exists, Queues, RidesIn, InCall

THEOREM PersonsEveryoneKept == Spec => []EveryoneKept
<1>1. Inv => EveryoneKept
  <2> SUFFICES ASSUME Inv, ~ended, NEW p \in Persons
               PROVE  IF p \in myTransportables
                      THEN \/ \E k \in Keepers(p) : Keepers(p) = {k}
                           \/ Keepers(p) = {} /\ (Brief(Stage(p)) \/ Stranded(p))
                      ELSE Keepers(p) = {}
    BY DEF EveryoneKept
  <2>1. TypeOK /\ Loops /\ PersonInv(p)
    BY DEF Inv, Going
  <2>2. \A t \in Nat : StillWakes(p, t) => Waits(p, t)
    BY DEF StillWakes, Waits
  <2>3. \A x, y \in Keepers(p) : x = y
    BY <2>1, <2>2, KeepersOf DEF PersonInv, OnePlaceOf
  <2>4. p \notin myTransportables => Keepers(p) = {}
    BY <2>1, <2>2, KeepersOf DEF PersonInv, OnlyLiveOf
  <2>5. p \in myTransportables => Keepers(p) # {} \/ Brief(Stage(p)) \/ Stranded(p)
    <3> SUFFICES ASSUME p \in myTransportables, ~Brief(Stage(p)), ~Stranded(p) PROVE \E x : x \in Keepers(p)
      OBVIOUS
    <3>1. \/ \E t \in Nat : StillDeparts(p, t) \/ StillWakes(p, t)
          \/ \E e \in Edges : Queues(p, e)
          \/ \E v \in Vehicles : RidesIn(p, v) /\ veh[v] # "discarded"
          \/ p \in onFoot
          \/ InCall(p)
      BY <2>1 DEF PersonInv, KeptOf, Stranded, RidesIn
    <3> QED BY <2>1, <3>1, KeepersOf
  <2> QED BY <2>3, <2>4, <2>5
<1> QED BY <1>1, Invariance, PTL

=============================================================================
