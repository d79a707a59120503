--------------------------- MODULE Transportables ---------------------------
(***************************************************************************)
(* Persons of src/src/microsim: their plans (MSPerson, MSTransportable),   *)
(* the control that wakes them (MSTransportableControl), the vehicles they *)
(* ride in (MSDevice_Transportable) and the part of the simulation step    *)
(* and of the end of the run that deals with them (MSNet), without remote  *)
(* control.  One thread does everything; a turn of a loop of the code that *)
(* calls proceed on a person is two steps here: the loop hands the person  *)
(* over (call), and one of the Proceed actions does the call.              *)
(*                                                                         *)
(* Times are whole steps.  The persons of one time or edge are a set: the  *)
(* order within the code's vectors is arbitrary here.  A plan holds what   *)
(* is left of it, the current stage first; the stages that a trip turns    *)
(* into and the access to a stop are part of it from the beginning.        *)
(***************************************************************************)
EXTENDS Integers, Sequences, FiniteSets

CONSTANTS
  Persons, Vehicles, Edges,
  Stages,        \* the stages plans are made of
  Plans,         \* the plans of the route files, the start stage first
  Departs,       \* the departure times of the route files
  Capacity,      \* getPersonCapacity of a vehicle
  GivenUp,       \* the vehicles the insertion may give up
  NoVehicle, NoCall,
  MaxStep        \* bound on the steps of a run

Kinds == {"start", "walk", "hop", "access", "wait", "ride", "trip"}

ASSUME StagesAssumption ==
  \A s \in Stages : /\ s.kind \in Kinds
                    /\ s.to \in Edges /\ s.atStop \in BOOLEAN
                    /\ s.lines \subseteq Vehicles
                    /\ s.duration \in Int
                    /\ s.until \in Int
ASSUME PlansAssumption ==
  \A pl \in Plans : pl \in Seq(Stages) /\ Len(pl) >= 2 /\ pl[Len(pl)].kind # "trip"
ASSUME TimesAssumption ==
  MaxStep \in Nat /\ Departs \subseteq Nat /\ Capacity \in [Vehicles -> Nat]
ASSUME GivenUpAssumption == GivenUp \subseteq Vehicles
ASSUME NamesAssumption ==
  /\ NoVehicle \notin Vehicles
  /\ NoCall \notin [who : Persons, here : Edges, first : BOOLEAN]
ASSUME FiniteAssumption == IsFiniteSet(Persons)

VARIABLES
  now, phase,                \* MSNet::myStep and the part of simulationStep
  call,                      \* the call of proceed in progress
  busy, left,                \* the vehicle being left; who the loop has still to proceed
  myTransportables,          \* the persons in the simulation
  myWaiting4Departure, myWaitingUntil,   \* time -> who is due then
  myWaiting4Vehicle,         \* edge -> who waits for a ride there
  myRunningNumber, myWaitingForVehicleNumber, myHaveNewWaiting,
  plan,                      \* from myStep on, the current stage first
  onFoot,                    \* who a pedestrian model or a ProceedCmd will proceed
  aboard,                    \* myTransportables of a vehicle's device
  veh, at,                   \* what a vehicle does, and its edge
  ended                      \* SIMSTATE_NO_FURTHER_VEHICLES

maps == <<myWaiting4Departure, myWaitingUntil, myWaiting4Vehicle>>
numbers == <<myRunningNumber, myWaitingForVehicleNumber, myHaveNewWaiting>>
people == <<myTransportables, plan, onFoot, aboard>>
loop == <<now, phase, busy, left, ended>>
vars == <<loop, call, maps, numbers, people, veh, at>>

Phases == {"walks", "vehicles", "load", "departures", "untils", "after"}
VehicleStates == {"out", "triggered", "inserting", "driving", "stopped",
                  "awaiting", "leaving", "gone", "discarded"}

Init ==
  /\ now = 0 /\ phase = "walks" /\ call = NoCall /\ busy = NoVehicle /\ left = {}
  /\ myTransportables = {}
  /\ myWaiting4Departure = << >> /\ myWaitingUntil = << >>
  /\ myWaiting4Vehicle = [e \in Edges |-> {}]
  /\ myRunningNumber = 0 /\ myWaitingForVehicleNumber = 0 /\ myHaveNewWaiting = FALSE
  /\ plan = [p \in Persons |-> << >>]
  /\ onFoot = {}
  /\ aboard = [v \in Vehicles |-> {}]
  /\ veh = [v \in Vehicles |-> "out"] /\ at \in [Vehicles -> Edges]
  /\ ended = FALSE

-----------------------------------------------------------------------------
(* Maps from a time to the persons due then.                               *)

\* The map with S added at t; operator[] enters t even when S is empty.
Put(map, t, S) ==
  [u \in DOMAIN map \cup {t} |->
     IF u # t THEN map[u] ELSE S \cup (IF t \in DOMAIN map THEN map[t] ELSE {})]

Without(map, t) == [u \in DOMAIN map \ {t} |-> map[u]]

Due(map, t) == IF t \in DOMAIN map THEN map[t] ELSE {}

IsMap(map) == DOMAIN map \subseteq Nat /\ map \in [DOMAIN map -> SUBSET Persons]

Stage(p) == Head(plan[p])
Queued == UNION {myWaiting4Vehicle[e] : e \in Edges}

-----------------------------------------------------------------------------
(* MSPerson::proceed and what it calls.  Stages that take no time, walks   *)
(* with duration 0 and trips, call it again: it comes to rest in the first *)
(* stage that lasts, or the plan runs out.                                 *)

\* The indices of the stages of a plan that last.
Lasting(p) ==
  {k \in 2..Len(plan[p]) : plan[p][k].kind \in {"walk", "access", "wait", "ride"}}

\* The edge stage k finds the person on: that of the stop, if the stage before it
\* ends at one, else the one the person is on, which after a ride is the vehicle's.
Origin(p, k) ==
  IF k = 2 /\ ~Stage(p).atStop THEN call.here ELSE plan[p][k - 1].to

\* Fault: a person counts as running only when it has a stage that lasts.
CountedIfItLasts(p) == IF call.first /\ Lasting(p) # {} THEN 1 ELSE 0

\* checkWaiting counts a person as running when its first proceed returns true.
Counted(p) == IF call.first /\ Len(plan[p]) >= 2 THEN 1 ELSE 0

Idle == call = NoCall /\ ~ended

\* The call of proceed on p is made and returns.
Called(p) == call # NoCall /\ p = call.who /\ call' = NoCall

\* The person is erased, by the caller or within the call.
Erase(p) ==
  /\ myTransportables' = myTransportables \ {p}
  /\ plan' = [plan EXCEPT ![p] = << >>]
  /\ myRunningNumber' = myRunningNumber + Counted(p) - 1

\* The call comes to stage k, of one of these kinds.
Reaches(p, k, kinds) ==
  /\ Called(p)
  /\ k \in Lasting(p) /\ \A j \in Lasting(p) : k <= j
  /\ plan[p][k].kind \in kinds

\* The person remains, in stage k.
RemainsIn(p, k) ==
  /\ plan' = [plan EXCEPT ![p] = SubSeq(@, k, Len(@))]
  /\ myRunningNumber' = myRunningNumber + Counted(p)
  /\ UNCHANGED myTransportables

ProceedOut(p) ==
  /\ Called(p) /\ Lasting(p) = {}
  /\ Erase(p)
  /\ UNCHANGED <<loop, maps, myWaitingForVehicleNumber, myHaveNewWaiting, onFoot, aboard, veh, at>>

ProceedWalk(p, k) ==
  /\ Reaches(p, k, {"walk", "access"}) /\ RemainsIn(p, k)
  /\ onFoot' = onFoot \cup {p}
  /\ UNCHANGED <<loop, maps, myWaitingForVehicleNumber, myHaveNewWaiting, aboard, veh, at>>

\* The pedestrian model finds no way for the person.
ProceedRefused(p, k) ==
  /\ Reaches(p, k, {"walk"}) /\ Erase(p)
  /\ UNCHANGED <<loop, maps, myWaitingForVehicleNumber, myHaveNewWaiting, onFoot, aboard, veh, at>>

\* Fault: a stop may end before it begins.
WaitEndAnyTime(s) == IF s.duration > 0 THEN now + s.duration ELSE s.until

WaitEnd(s) ==
  LET end == IF s.duration > 0 THEN now + s.duration ELSE now
  IN  IF s.until > end THEN s.until ELSE end

setWaitEnd(t, p) ==
  /\ myWaiting4Departure' = Put(myWaiting4Departure, t, {})
  /\ myWaitingUntil' = IF p \in Due(myWaiting4Departure, t)
                       THEN myWaitingUntil ELSE Put(myWaitingUntil, t, {p})

ProceedWait(p, k) ==
  /\ Reaches(p, k, {"wait"}) /\ RemainsIn(p, k)
  /\ setWaitEnd(WaitEnd(plan[p][k]), p)
  /\ UNCHANGED <<loop, myWaiting4Vehicle, myWaitingForVehicleNumber, myHaveNewWaiting,
                 onFoot, aboard, veh, at>>

\* A vehicle waiting for its first rider takes the person and may be inserted.
ProceedTrigger(p, k, v) ==
  /\ Reaches(p, k, {"ride"}) /\ RemainsIn(p, k)
  /\ veh[v] = "triggered" /\ at[v] = Origin(p, k) /\ v \in plan[p][k].lines
  /\ aboard' = [aboard EXCEPT ![v] = @ \cup {p}]
  /\ veh' = [veh EXCEPT ![v] = "inserting"]
  /\ UNCHANGED <<loop, maps, myWaitingForVehicleNumber, myHaveNewWaiting, onFoot, at>>

addWaiting(e, p) ==
  /\ myWaiting4Vehicle' = [myWaiting4Vehicle EXCEPT ![e] = @ \cup {p}]
  /\ myWaitingForVehicleNumber' = myWaitingForVehicleNumber + 1
  /\ myHaveNewWaiting' = TRUE

\* No such vehicle, or one too far away on the edge.
ProceedQueue(p, k) ==
  /\ Reaches(p, k, {"ride"}) /\ RemainsIn(p, k)
  /\ addWaiting(Origin(p, k), p)
  /\ UNCHANGED <<loop, myWaiting4Departure, myWaitingUntil, onFoot, aboard, veh, at>>

Proceed(p) ==
  \/ ProceedOut(p)
  \/ \E k \in Lasting(p) :
       \/ ProceedWalk(p, k) \/ ProceedRefused(p, k) \/ ProceedWait(p, k)
       \/ (\E v \in Vehicles : ProceedTrigger(p, k, v)) \/ ProceedQueue(p, k)

-----------------------------------------------------------------------------
(* Begin-of-step events and movements.                                     *)

Handed(p, here, first) == call' = [who |-> p, here |-> here, first |-> first]

WalkEnds(p) ==
  /\ Idle /\ phase = "walks" /\ p \in onFoot
  /\ onFoot' = onFoot \ {p}
  /\ Handed(p, Stage(p).to, FALSE)
  /\ UNCHANGED <<loop, maps, numbers, myTransportables, plan, aboard, veh, at>>

\* A vehicle comes to a stop and lets out who wants to get there.
Stop(v, e) ==
  /\ Idle /\ phase = "vehicles" /\ busy = NoVehicle /\ veh[v] = "driving"
  /\ veh' = [veh EXCEPT ![v] = "stopped"] /\ at' = [at EXCEPT ![v] = e]
  /\ busy' = v /\ left' = {p \in aboard[v] : Stage(p).to = e}
  /\ UNCHANGED <<now, phase, ended, call, maps, numbers, people>>

MayLeave(v, e) == veh[v] = "driving" \/ (veh[v] \in {"stopped", "awaiting"} /\ e = at[v])

\* Fault: a vehicle that leaves the net lets out only who wanted to get there.
LeaveAsAtStop(v, e) ==
  /\ Idle /\ phase \in {"vehicles", "after"} /\ busy = NoVehicle /\ MayLeave(v, e)
  /\ veh' = [veh EXCEPT ![v] = "leaving"] /\ at' = [at EXCEPT ![v] = e]
  /\ busy' = v /\ left' = {p \in aboard[v] : Stage(p).to = e}
  /\ UNCHANGED <<now, phase, ended, call, maps, numbers, people>>

\* A vehicle leaves the net, perhaps from its stop, and after a teleport or a
\* collision with an inserted vehicle also late in the step.
Leave(v, e) ==
  /\ Idle /\ phase \in {"vehicles", "after"} /\ busy = NoVehicle /\ MayLeave(v, e)
  /\ veh' = [veh EXCEPT ![v] = "leaving"] /\ at' = [at EXCEPT ![v] = e]
  /\ busy' = v /\ left' = aboard[v]
  /\ UNCHANGED <<now, phase, ended, call, maps, numbers, people>>

Alight(p) ==
  /\ Idle /\ busy # NoVehicle /\ p \in left
  /\ left' = left \ {p}
  /\ aboard' = [aboard EXCEPT ![busy] = @ \ {p}]
  /\ Handed(p, at[busy], FALSE)
  /\ UNCHANGED <<now, phase, busy, ended, maps, numbers, myTransportables, plan, onFoot, veh, at>>

Alighted ==
  /\ Idle /\ busy # NoVehicle /\ left = {}
  /\ busy' = NoVehicle
  /\ veh' = [veh EXCEPT ![busy] = IF @ = "leaving" THEN "gone" ELSE @]
  /\ UNCHANGED <<now, phase, left, ended, call, maps, numbers, people, at>>

\* A vehicle on a lane goes on with its stop when the vehicles move, one that parks
\* when the transfer is checked, late in the step.
AtStop(v) ==
  /\ Idle /\ phase \in {"vehicles", "after"} /\ busy = NoVehicle
  /\ veh[v] \in {"stopped", "awaiting"}

\* boardAnyWaiting: any of those in reach who want this vehicle, while there is room.
boardAnyWaiting(v) ==
  /\ AtStop(v)
  /\ \E S \in SUBSET {p \in myWaiting4Vehicle[at[v]] : v \in Stage(p).lines} :
       /\ S # {} /\ Cardinality(aboard[v] \cup S) <= Capacity[v]
       /\ myWaiting4Vehicle' = [myWaiting4Vehicle EXCEPT ![at[v]] = @ \ S]
       /\ myWaitingForVehicleNumber' = myWaitingForVehicleNumber - Cardinality(S)
       /\ aboard' = [aboard EXCEPT ![v] = @ \cup S]
  /\ veh' = [veh EXCEPT ![v] = "stopped"]
  /\ UNCHANGED <<loop, call, myWaiting4Departure, myWaitingUntil, myRunningNumber,
                 myHaveNewWaiting, myTransportables, plan, onFoot, at>>

\* A stop that waits for a person makes the vehicle inactive.  Any other may end, and that
\* of a full vehicle, which ignores that it should wait but is inactive until it goes on.
StopGoesOn(v) ==
  /\ AtStop(v)
  /\ \/ veh[v] = "stopped" /\ veh' = [veh EXCEPT ![v] = "awaiting"]
     \/ /\ veh[v] = "stopped" \/ Cardinality(aboard[v]) = Capacity[v]
        /\ veh' = [veh EXCEPT ![v] = "driving"]
  /\ UNCHANGED <<loop, call, maps, numbers, people, at>>

-----------------------------------------------------------------------------
(* loadRoutes, checkWaiting, insertion and the end of the step.            *)

add(p) ==
  /\ Idle /\ phase = "load" /\ p \notin myTransportables
  /\ myTransportables' = myTransportables \cup {p}
  /\ \E t \in {t \in Departs : t >= now} :
       myWaiting4Departure' = Put(myWaiting4Departure, t, {p})
  /\ \E pl \in Plans : plan' = [plan EXCEPT ![p] = pl]
  /\ UNCHANGED <<loop, call, myWaitingUntil, myWaiting4Vehicle, numbers, onFoot, aboard, veh, at>>

LoadVehicle(v) ==
  /\ Idle /\ phase = "load" /\ veh[v] = "out"
  /\ \E s \in {"triggered", "inserting"} : veh' = [veh EXCEPT ![v] = s]
  /\ UNCHANGED <<loop, call, maps, numbers, people, at>>

Depart(p) ==
  /\ Idle /\ phase = "departures" /\ p \in left
  /\ left' = left \ {p}
  /\ Handed(p, Stage(p).to, TRUE)
  /\ UNCHANGED <<now, phase, busy, ended, maps, numbers, people, veh, at>>

WaitEnds(p) ==
  /\ Idle /\ phase = "untils" /\ p \in Due(myWaitingUntil, now)
  /\ myWaitingUntil' = [myWaitingUntil EXCEPT ![now] = @ \ {p}]
  /\ Handed(p, Stage(p).to, FALSE)
  /\ UNCHANGED <<loop, myWaiting4Departure, myWaiting4Vehicle, numbers, people, veh, at>>

EndMovements ==
  /\ Idle /\ busy = NoVehicle
  /\ \/ phase = "walks" /\ phase' = "vehicles"
     \/ phase = "vehicles" /\ phase' = "load"
  /\ UNCHANGED <<now, busy, left, ended, call, maps, numbers, people, veh, at>>

BeginCheck ==
  /\ Idle /\ phase = "load"
  /\ IF myTransportables # {}
     THEN /\ phase' = "departures" /\ left' = Due(myWaiting4Departure, now)
          /\ myHaveNewWaiting' = FALSE
     ELSE phase' = "after" /\ UNCHANGED <<left, myHaveNewWaiting>>
  /\ UNCHANGED <<now, busy, ended, call, maps, myRunningNumber, myWaitingForVehicleNumber,
                 people, veh, at>>

EndDepartures ==
  /\ Idle /\ phase = "departures" /\ left = {}
  /\ phase' = "untils"
  /\ myWaiting4Departure' = Without(myWaiting4Departure, now)
  /\ UNCHANGED <<now, busy, left, ended, call, myWaitingUntil, myWaiting4Vehicle, numbers,
                 people, veh, at>>

EndUntils ==
  /\ Idle /\ phase = "untils" /\ Due(myWaitingUntil, now) = {}
  /\ phase' = "after"
  /\ myWaitingUntil' = Without(myWaitingUntil, now)
  /\ UNCHANGED <<now, busy, left, ended, call, myWaiting4Departure, myWaiting4Vehicle, numbers,
                 people, veh, at>>

Insert(v) ==
  /\ Idle /\ phase = "after" /\ busy = NoVehicle /\ veh[v] = "inserting"
  /\ veh' = [veh EXCEPT ![v] = "driving"]
  /\ UNCHANGED <<loop, call, maps, numbers, people, at>>

\* tryInsert deletes the vehicle: it has waited too long, its edge is vaporizing, or its
\* insertion was aborted.  Nobody tells the person aboard.
GiveUp(v) ==
  /\ Idle /\ phase = "after" /\ busy = NoVehicle /\ veh[v] = "inserting" /\ v \in GivenUp
  /\ veh' = [veh EXCEPT ![v] = "discarded"]
  /\ UNCHANGED <<loop, call, maps, numbers, people, at>>

\* Fault: who is still to depart does not keep the run going.
HasNonWaitingOfCounters == myWaitingForVehicleNumber < myRunningNumber \/ myHaveNewWaiting

hasNonWaiting ==
  \/ DOMAIN myWaiting4Departure # {}
  \/ myWaitingForVehicleNumber < myRunningNumber
  \/ myHaveNewWaiting

ActiveVehicles == {v \in Vehicles : veh[v] \in {"inserting", "driving", "stopped"}}
Finished == ActiveVehicles = {} /\ ~hasNonWaiting

\* simulationState ends the run: abortWaitingForVehicle erases who waits for a ride.
EndRun ==
  /\ Idle /\ phase = "after" /\ busy = NoVehicle /\ Finished
  /\ ended' = TRUE
  /\ myTransportables' = myTransportables \ Queued
  /\ myRunningNumber' = myRunningNumber - Cardinality(Queued)
  /\ UNCHANGED <<now, phase, busy, left, call, maps, myWaitingForVehicleNumber,
                 myHaveNewWaiting, plan, onFoot, aboard, veh, at>>

EndStep ==
  /\ Idle /\ phase = "after" /\ busy = NoVehicle /\ ~Finished
  /\ now < MaxStep
  /\ now' = now + 1 /\ phase' = "walks"
  /\ UNCHANGED <<busy, left, ended, call, maps, numbers, people, veh, at>>

Next ==
  \/ \E p \in Persons :
       Proceed(p) \/ WalkEnds(p) \/ Alight(p) \/ add(p) \/ Depart(p) \/ WaitEnds(p)
  \/ \E v \in Vehicles :
       \/ \E e \in Edges : Stop(v, e) \/ Leave(v, e)
       \/ boardAnyWaiting(v) \/ StopGoesOn(v) \/ LoadVehicle(v) \/ Insert(v) \/ GiveUp(v)
  \/ Alighted \/ EndMovements \/ BeginCheck \/ EndDepartures \/ EndUntils \/ EndRun \/ EndStep

Spec == Init /\ [][Next]_vars
-----------------------------------------------------------------------------
(* Properties.                                                             *)

TypeOK ==
  /\ now \in 0..MaxStep /\ phase \in Phases /\ ended \in BOOLEAN
  /\ call \in {NoCall} \cup [who : Persons, here : Edges, first : BOOLEAN]
  /\ busy \in Vehicles \cup {NoVehicle} /\ left \subseteq Persons
  /\ myTransportables \subseteq Persons
  /\ IsMap(myWaiting4Departure) /\ IsMap(myWaitingUntil)
  /\ myWaiting4Vehicle \in [Edges -> SUBSET Persons]
  /\ myRunningNumber \in Int /\ myWaitingForVehicleNumber \in Int
  /\ myHaveNewWaiting \in BOOLEAN
  /\ plan \in [Persons -> Seq(Stages)]
  /\ onFoot \subseteq Persons /\ aboard \in [Vehicles -> SUBSET Persons]
  /\ veh \in [Vehicles -> VehicleStates] /\ at \in [Vehicles -> Edges]

\* Whether the loop of checkWaiting over a map is still to come for the persons of t.
BeforeDepartures == phase \in {"walks", "vehicles", "load"}
BeforeUntils == BeforeDepartures \/ phase \in {"departures", "untils"}

\* Who is still to depart, and when.
StillDeparts(p, t) ==
  /\ p \in Due(myWaiting4Departure, t)
  /\ \/ t > now
     \/ t = now /\ BeforeDepartures
     \/ t = now /\ phase = "departures" /\ p \in left

StillWakes(p, t) ==
  p \in Due(myWaitingUntil, t) /\ (t > now \/ (t = now /\ BeforeUntils))

Exists(v) == veh[v] \notin {"gone", "discarded"}

\* All that will call proceed on the person, now or later.
Keepers(p) ==
  {<<"departure", t>> : t \in {t \in DOMAIN myWaiting4Departure : StillDeparts(p, t)}}
  \cup {<<"until", t>> : t \in {t \in DOMAIN myWaitingUntil : StillWakes(p, t)}}
  \cup {<<"queue", e>> : e \in {e \in Edges : p \in myWaiting4Vehicle[e]}}
  \cup {<<"vehicle", v>> : v \in {v \in Vehicles : p \in aboard[v] /\ Exists(v)}}
  \cup {<<"model", q>> : q \in onFoot \cap {p}}
  \cup {<<"call", c.who>> : c \in {c \in {call} \ {NoCall} : c.who = p}}

\* A stop that needs not last: no duration, and its end is reached.
Brief(s) == s.kind = "wait" /\ s.duration <= 0 /\ s.until <= now

\* The person has boarded a vehicle that was given up before it departed.
Stranded(p) == \E v \in Vehicles : p \in aboard[v] /\ veh[v] = "discarded"

(* Whoever is in the simulation will be proceeded again, by exactly one    *)
(* loop, vehicle, queue or model, and nobody else is: no person is waited  *)
(* for twice and none is lost, but for those in a stop that ends in the    *)
(* step it begins, which setWaitEnd may refuse or checkWaiting have passed,*)
(* and for those stranded by tryInsert, which deletes the vehicle they have*)
(* boarded (MSInsertionControl.cpp:150): nothing ever proceeds them again. *)
EveryoneKept ==
  ~ended => \A p \in Persons :
    IF p \in myTransportables
    THEN \/ \E k \in Keepers(p) : Keepers(p) = {k}
         \/ Keepers(p) = {} /\ (Brief(Stage(p)) \/ Stranded(p))
    ELSE Keepers(p) = {}

(* Nobody at all is lost: that the waiting time of a person is over is     *)
(* noticed for every stop.  The code does not keep to it.                  *)
NobodyLost == ~ended => \A p \in myTransportables : Keepers(p) # {}

\* Who is loaded but not yet counted as running.
ToDepart ==
  {p \in myTransportables :
     \/ \E t \in DOMAIN myWaiting4Departure : StillDeparts(p, t)
     \/ call # NoCall /\ call.first /\ call.who = p}

(* The numbers hasNonWaiting compares are those of the persons on their    *)
(* way and of the persons in a queue, also after walks that end at once,   *)
(* are refused or are followed by nothing, and through every boarding.     *)
CountersAgree ==
  ~ended => /\ myRunningNumber = Cardinality(myTransportables \ ToDepart)
            /\ myWaitingForVehicleNumber = Cardinality(Queued)

\* A run that ends for want of vehicles leaves no person behind in the simulation.
NobodyLeftBehind == ended => myTransportables = {} /\ myRunningNumber = 0
=============================================================================
