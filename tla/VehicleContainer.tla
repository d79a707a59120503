-------------------------- MODULE VehicleContainer --------------------------
(***************************************************************************)
(* MSVehicleContainer: the binary heap in which MSInsertionControl keeps   *)
(* the vehicles that are not yet due (myAllVeh).  A heap item is a pair of *)
(* a departure time and the vehicles filed under it; the items are ordered *)
(* by time.  The vehicles of one item leave together, so their list is a   *)
(* set here.                                                               *)
(*                                                                         *)
(* add and remove look an item up with the same predicate (DepartFinder),  *)
(* which accepts every item of the DELTA_T window that starts at the       *)
(* vehicle's departure, and both take the first match in array order.  The *)
(* array order changes between the two calls.                              *)
(***************************************************************************)
EXTENDS Integers, Sequences, FiniteSets

CONSTANTS
    Veh,        \* the vehicles that may be handed to the container
    Departs,    \* the departure times they may have
    DELTA_T,    \* the length of a simulation step
    EndTime     \* bound of the model: the last step that is checked

ASSUME ContainerAssumption ==
    /\ Departs \subseteq Nat
    /\ DELTA_T \in Nat \ {0}
    /\ EndTime \in Nat

VARIABLES
    array,      \* the heap items in array order: records [first, second]
    depart,     \* depart[v], fixed when v is added; NotAdded before
    handed,     \* the vehicles added and neither removed nor delivered
    time        \* the current simulation time, a multiple of DELTA_T

vars == <<array, depart, handed, time>>

NotAdded == -1

Item == [first : Departs, second : SUBSET Veh]

\* The vehicles of all items.
Stored(a) == UNION {a[i].second : i \in DOMAIN a}

-----------------------------------------------------------------------------
(* The heap. *)

\* DepartFinder: the item's time lies in the DELTA_T window starting at t.
DepartFinder(item, t) == t + DELTA_T > item.first /\ t <= item.first

Matches(a, t) == {i \in DOMAIN a : DepartFinder(a[i], t)}

FirstMatch(a, t) == CHOOSE i \in Matches(a, t) : \A j \in Matches(a, t) : i <= j

\* addReplacing: a new item enters at the end and percolates up.  up[h] is the array once the
\* hole is at position h and the rest of the loop is done.
AddReplacing(a, item) ==
    LET last == Append(a, item)
        up[h \in 1..Len(last)] ==
            IF h > 1 /\ item.first < last[h \div 2].first
            THEN [up[h \div 2] EXCEPT ![h] = last[h \div 2]]
            ELSE [last EXCEPT ![h] = item]
    IN up[Len(last)]

\* A seeded fault: only the left child is considered on the way down.
SmallerChildLeftOnly(a, h) == 2 * h

SmallerChild(a, h) ==
    IF 2 * h # Len(a) /\ a[2 * h + 1].first < a[2 * h].first
    THEN 2 * h + 1 ELSE 2 * h

\* percolateDown from the root, down[h] like up[h].
PercolateDown(a) ==
    LET down[h \in 1..Len(a)] ==
            IF 2 * h <= Len(a) /\ a[SmallerChild(a, h)].first < a[1].first
            THEN [down[SmallerChild(a, h)] EXCEPT ![h] = a[SmallerChild(a, h)]]
            ELSE [a EXCEPT ![h] = a[1]]
    IN down[1]

\* A seeded fault: the last item is dropped instead of moving to the root.
PopDropsLast(a) == SubSeq(a, 1, Len(a) - 1)

\* pop: the last item replaces the root and percolates down.
Pop(a) ==
    IF Len(a) = 1 THEN <<>>
    ELSE PercolateDown(SubSeq([a EXCEPT ![1] = a[Len(a)]], 1, Len(a) - 1))

\* A seeded fault: a new item is filed under the step that follows.
WithVehicleRounded(a, v, t) ==
    IF Matches(a, t) # {}
    THEN [a EXCEPT ![FirstMatch(a, t)].second = @ \cup {v}]
    ELSE AddReplacing(a, [first |-> DELTA_T * (t \div DELTA_T + 1), second |-> {v}])

\* add(SUMOVehicle*): into the first matching item, else into a new one.
WithVehicle(a, v, t) ==
    IF Matches(a, t) # {}
    THEN [a EXCEPT ![FirstMatch(a, t)].second = @ \cup {v}]
    ELSE AddReplacing(a, [first |-> t, second |-> {v}])

\* A seeded fault: only the root item is searched for the vehicle.
WithoutVehicleRootOnly(a, v, t) ==
    IF Len(a) = 0 THEN a
    ELSE [a EXCEPT ![1].second = @ \ {v}]

\* remove(SUMOVehicle*): erased from the first matching item only.
WithoutVehicle(a, v, t) ==
    IF Matches(a, t) = {} THEN a
    ELSE [a EXCEPT ![FirstMatch(a, t)].second = @ \ {v}]

\* A seeded fault: a vehicle is due only once the step has passed its time.
AnyWaitingBeforeLate(a, t) == Len(a) > 0 /\ a[1].first < t - DELTA_T

AnyWaitingBefore(a, t) == Len(a) > 0 /\ a[1].first < t

\* The loop of checkCandidates: pop while an item is due before t.
PopDue(a, t) ==
    LET after[k \in 0..Len(a)] == IF k = 0 THEN a ELSE Pop(after[k - 1])
        done(k) == ~AnyWaitingBefore(after[k], t)
    IN after[CHOOSE k \in 0..Len(a) : done(k) /\ \A j \in 0..(k - 1) : ~done(j)]

-----------------------------------------------------------------------------
(* The calls MSInsertionControl makes. *)

Init ==
    /\ array = <<>>
    /\ depart = [v \in Veh |-> NotAdded]
    /\ handed = {}
    /\ time = 0

\* MSInsertionControl::add for a vehicle with departure time t.
Add(v, t) ==
    /\ depart[v] = NotAdded
    /\ array' = WithVehicle(array, v, t)
    /\ depart' = [depart EXCEPT ![v] = t]
    /\ handed' = handed \cup {v}
    /\ UNCHANGED time

\* MSInsertionControl::alreadyDeparted for a vehicle that is not yet due.
Remove(v) ==
    /\ v \in handed
    /\ array' = WithoutVehicle(array, v, depart[v])
    /\ handed' = handed \ {v}
    /\ UNCHANGED <<depart, time>>

\* checkCandidates(time): what is due leaves for myPendingEmits.
CheckCandidates ==
    /\ time <= EndTime
    /\ array' = PopDue(array, time + DELTA_T)
    /\ handed' = handed \cap Stored(array')
    /\ time' = time + DELTA_T
    /\ UNCHANGED depart

Next ==
    \/ \E v \in Veh, t \in Departs : Add(v, t)
    \/ \E v \in Veh : Remove(v)
    \/ CheckCandidates

Spec == Init /\ [][Next]_vars

-----------------------------------------------------------------------------
(* Properties. *)

\* The shape of the state.  The time of every item is a departure that some
\* vehicle asked for, never a rounded one.
TypeOK ==
    /\ array \in Seq(Item)
    /\ depart \in [Veh -> Departs \cup {NotAdded}]
    /\ handed \subseteq Veh
    /\ time \in Nat

\* The array is a heap: no item is earlier than its parent.  topTime() and
\* with it the loop of checkCandidates rely on the root being the earliest.
HeapOrder == \A i \in 2..Len(array) : array[i \div 2].first <= array[i].first

\* A vehicle is delivered to myPendingEmits neither before the step that
\* contains its departure (the assertion at the head of tryInsert) nor after
\* the first step that starts at or behind it, although its item may carry
\* another vehicle's departure time.
DeliveryWindow ==
    [][CheckCandidates =>
        \A v \in Stored(array) :
            IF v \in Stored(array') THEN depart[v] > time
            ELSE depart[v] < time + DELTA_T]_vars

\* As long as every departure is a multiple of the step length the container
\* is exact: it stores the vehicles that were added and neither removed nor
\* delivered, each of them once.
AlignedExact ==
    (\A v \in Veh : depart[v] # NotAdded => depart[v] % DELTA_T = 0) =>
        /\ Stored(array) = handed
        /\ \A i, j \in DOMAIN array :
              i # j => array[i].second \cap array[j].second = {}
=============================================================================
