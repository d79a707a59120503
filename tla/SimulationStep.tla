--------------------------- MODULE SimulationStep ---------------------------
(***************************************************************************)
(* The life of the vehicles within MSNet::simulationStep: MSVehicleControl *)
(* (the dictionary and the counters), MSInsertionControl (the vehicles     *)
(* that have not departed), MSVehicleTransfer (those that park or teleport)*)
(* and the calls a TraCI client makes between two steps.                   *)
(*                                                                         *)
(* A step runs through the phases of simulationStep in their order.  Every *)
(* loop over vehicles is taken apart into one action per vehicle.  What    *)
(* lane geometry and car following decide (whether a vehicle arrives,      *)
(* stops, is jammed, finds a gap) is chosen freely.                        *)
(***************************************************************************)
EXTENDS Integers, FiniteSets

CONSTANTS
    Veh,                \* all vehicles ever built, by object identity
    Triggered,          \* those that depart when a person boards
    FixedSpeed,         \* those with a given departSpeed and several
                        \* insertion positions to try
    Vaporizing,         \* those whose departure edge may be vaporizing
    Controlled,         \* those a TraCI client may remove or move
    DepartTimes,        \* departure times in steps
    QuotaOf,            \* QuotaOf[v]: what getQuota() may return for v
    FlowVeh,            \* the vehicles of the only flow
    FlowNumber,         \* its number of repetitions
    FlowPeriod,         \* its repetition offset in steps
    MaxDepartDelay,     \* --max-depart-delay in steps, -1 for none
    MaxVehicleNumber,   \* --max-num-vehicles, -1 for none
    PreCheckModes,      \* the values of MSRoutingEngine::isEnabled()
    MaxStep             \* bound of the model on myStep

ASSUME StepAssumption ==
    /\ Triggered \subseteq Veh /\ FixedSpeed \subseteq Veh
    /\ Vaporizing \subseteq Veh
    /\ Controlled \subseteq Veh
    /\ FlowVeh \subseteq Veh \ Triggered
    /\ QuotaOf \in [Veh -> SUBSET {0, 1, 2}]
    /\ DepartTimes \subseteq Nat
    /\ FlowNumber \in Nat /\ FlowPeriod \in Nat
    /\ MaxDepartDelay \in Int /\ MaxVehicleNumber \in Int
    /\ PreCheckModes \subseteq BOOLEAN /\ MaxStep \in Nat
    /\ IsFiniteSet(Veh)

VARIABLES
    myStep, phase,
    todo,               \* the vehicles the loop of this phase has yet to visit
    havePreChecked,     \* MSRoutingEngine::isEnabled()
    built,              \* the vehicles buildVehicle has returned
    myVehicleDict,      \* the vehicles that exist
    departed,           \* hasDeparted()
    depart,             \* the departure parameter
    onRoad,             \* isOnRoad(): the vehicle is in the list of a lane
    stop,               \* the state of the stop the vehicle is at
    transfer,           \* its entry in MSVehicleTransfer::myVehicles
    myWaiting,          \* MSVehicleControl::myWaiting
    myLoadedVehNo, myRunningVehNo, myEndedVehNo, myDiscarded,
    myWaitingForPerson, \* the number of vehicles registered as waiting
    myAllVeh, myPendingEmits, refusedEmits,   \* number of entries per vehicle
    myEmitCandidates, myAbortedEmits,
    repetitionsDone,    \* of the flow
    ended               \* the run was ended because no vehicle is expected

control == <<built, myVehicleDict, departed, depart>>
traffic == <<onRoad, stop, transfer, myWaiting, myWaitingForPerson>>
numbers == <<myLoadedVehNo, myRunningVehNo, myEndedVehNo, myDiscarded>>
inserter == <<myAllVeh, myPendingEmits, refusedEmits, myEmitCandidates, myAbortedEmits>>
steps == <<myStep, phase, todo, havePreChecked, ended>>
vars == <<steps, control, traffic, numbers, inserter, repetitionsDone>>

NoDepart == -1      \* the departure parameter of a triggered vehicle

Phase == {"begin", "move", "load", "persons", "candidates", "emit", "transfer"}
StopState == {"none", "timed", "triggered", "registered", "full"}
TransferState == {"none", "parkingNow", "parking", "teleport"}
NoEntry == [v \in Veh |-> 0]

-----------------------------------------------------------------------------
(* MSVehicleControl, and how a vehicle leaves the network. *)

getActiveVehicleCount == myLoadedVehNo - (myWaitingForPerson + myEndedVehNo)

\* deleteVehicle(veh, true): a vehicle that never departed is given up.
Discard(v) ==
    /\ myVehicleDict' = myVehicleDict \ {v}
    /\ myEndedVehNo' = myEndedVehNo + 1
    /\ myDiscarded' = myDiscarded + 1
    /\ UNCHANGED <<myLoadedVehNo, myRunningVehNo>>

\* A seeded fault: the removed vehicle is still counted as running.
ArrivedStillRunning(v) ==
    /\ myVehicleDict' = myVehicleDict \ {v}
    /\ myEndedVehNo' = myEndedVehNo + 1
    /\ UNCHANGED <<myLoadedVehNo, myRunningVehNo, myDiscarded>>

scheduleVehicleRemoval(v) ==
    /\ myVehicleDict' = myVehicleDict \ {v}
    /\ myEndedVehNo' = myEndedVehNo + 1
    /\ myRunningVehNo' = myRunningVehNo - 1
    /\ UNCHANGED <<myLoadedVehNo, myDiscarded>>

Registrations(v) == IF stop[v] \in {"registered", "full"} THEN 1 ELSE 0

\* A seeded fault: the registration is left behind.
ResumeStillRegistered(v) ==
    /\ stop' = [stop EXCEPT ![v] = "none"]
    /\ myWaiting' = IF stop[v] = "none" THEN myWaiting ELSE myWaiting \ {v}
    /\ UNCHANGED myWaitingForPerson

\* resumeFromStopping(): nothing happens unless a stop has been reached.
resumeFromStopping(v) ==
    /\ stop' = [stop EXCEPT ![v] = "none"]
    /\ myWaiting' = IF stop[v] = "none" THEN myWaiting ELSE myWaiting \ {v}
    /\ myWaitingForPerson' = myWaitingForPerson - Registrations(v)

\* A seeded fault: the transfer keeps its entry.
LeaveStillInTransfer(v) ==
    /\ onRoad' = onRoad \ {v}
    /\ resumeFromStopping(v)
    /\ scheduleVehicleRemoval(v)
    /\ UNCHANGED <<built, departed, depart, transfer>>

\* The vehicle leaves the network for good: onRemovalFromNet takes it out of
\* the transfer and aborts its stop before it is deleted.
Leave(v) ==
    /\ onRoad' = onRoad \ {v}
    /\ transfer' = [transfer EXCEPT ![v] = "none"]
    /\ resumeFromStopping(v)
    /\ scheduleVehicleRemoval(v)
    /\ UNCHANGED <<built, departed, depart>>

-----------------------------------------------------------------------------
(* begin: TraCI commands and the events at the begin of the step. *)

\* alreadyDeparted(veh).  The removal from myAllVeh is exact because all
\* departures are whole steps here (AlignedExact of VehicleContainer).
AlreadyDeparted(v) ==
    /\ myAllVeh' = [myAllVeh EXCEPT ![v] = 0]
    /\ myPendingEmits' = [myPendingEmits EXCEPT ![v] = 0]
    /\ UNCHANGED <<refusedEmits, myEmitCandidates, myAbortedEmits>>

\* Vehicle::remove of a vehicle in the network, and of one that is not.
RemoveDeparted(v) ==
    /\ v \in departed
    /\ Leave(v)
    /\ UNCHANGED inserter

RemoveUndeparted(v) ==
    /\ v \notin departed
    /\ AlreadyDeparted(v)
    /\ Discard(v)
    /\ UNCHANGED <<built, departed, depart, traffic>>

\* Vehicle::moveTo: the vehicle leaves wherever it is, the inserter forgets
\* it, and it is forced onto a lane, departing if it has not done so.
MoveTo(v) ==
    /\ onRoad' = onRoad \cup {v}
    /\ transfer' = [transfer EXCEPT ![v] = "none"]
    /\ resumeFromStopping(v)
    /\ AlreadyDeparted(v)
    /\ departed' = departed \cup {v}
    /\ myRunningVehNo' = myRunningVehNo + (IF v \in departed THEN 0 ELSE 1)
    /\ UNCHANGED <<built, myVehicleDict, depart, myLoadedVehNo, myEndedVehNo, myDiscarded>>

Command(v) ==
    /\ phase = "begin" /\ ~ended
    /\ v \in Controlled \cap myVehicleDict
    /\ RemoveDeparted(v) \/ RemoveUndeparted(v) \/ MoveTo(v)
    /\ UNCHANGED <<steps, repetitionsDone>>

\* A person whose stage begins, at the end of a walk (an event), by leaving
\* another vehicle (move) or by departing (checkWaiting), boards a vehicle
\* that waits for its departure.
BoardTriggered(v) ==
    /\ phase \in {"begin", "move", "persons"} /\ ~ended
    /\ v \in (myWaiting \cap Triggered) \ departed
    /\ myAllVeh' = [myAllVeh EXCEPT ![v] = @ + 1]
    /\ myWaiting' = myWaiting \ {v}
    /\ myWaitingForPerson' = myWaitingForPerson - 1
    /\ UNCHANGED <<steps, control, onRoad, stop, transfer, numbers, myPendingEmits,
                   refusedEmits, myEmitCandidates, myAbortedEmits, repetitionsDone>>

BeginMove ==
    /\ phase = "begin" /\ ~ended /\ myStep < MaxStep
    /\ phase' = "move"
    /\ todo' = onRoad
    /\ UNCHANGED <<myStep, havePreChecked, ended, control, traffic, numbers, inserter,
                   repetitionsDone>>

-----------------------------------------------------------------------------
(* move: MSLane::executeMovements and the collision checks. *)

\* The vehicle ends its route, reaches a vaporizing edge, is removed after a
\* collision, or is teleported beyond its arrival edge.
Arrives(v) == Leave(v)

\* MSVehicleTransfer::add of a jammed or collided vehicle.
StartTeleport(v) ==
    /\ onRoad' = onRoad \ {v}
    /\ transfer' = [transfer EXCEPT ![v] = "teleport"]
    /\ resumeFromStopping(v)
    /\ UNCHANGED <<control, numbers>>

\* processNextStop of a vehicle that has reached its stop: it stays on the
\* lane or parks, for a time or until a person boards.
ReachStop(v) ==
    /\ stop[v] = "none"
    /\ \E kind \in {"timed", "triggered"}, parks \in BOOLEAN :
          /\ stop' = [stop EXCEPT ![v] = kind]
          /\ onRoad' = IF parks THEN onRoad \ {v} ELSE onRoad
          /\ transfer' = IF parks THEN [transfer EXCEPT ![v] = "parkingNow"] ELSE transfer
    /\ myWaiting' = myWaiting \cup {v}
    /\ UNCHANGED <<control, numbers, myWaitingForPerson>>

\* processNextStop one step later: the vehicle registers as waiting.  One
\* that is full ceases to wait for persons but registers as well.
RegisterWaiting(v) ==
    /\ stop[v] = "triggered"
    /\ \E s \in {"registered", "full"} : stop' = [stop EXCEPT ![v] = s]
    /\ myWaitingForPerson' = myWaitingForPerson + 1

\* A seeded fault: boarding releases the vehicle, not its registration.
PersonsBoardStillRegistered(v) ==
    /\ stop[v] \in {"triggered", "registered", "full"}
    /\ stop' = [stop EXCEPT ![v] = "timed"]
    /\ UNCHANGED myWaitingForPerson

\* processNextStop: persons board, which ends the waiting but not the stop.
PersonsBoard(v) ==
    /\ stop[v] \in {"triggered", "registered", "full"}
    /\ stop' = [stop EXCEPT ![v] = "timed"]
    /\ myWaitingForPerson' = myWaitingForPerson - Registrations(v)

\* processNextStop of a vehicle that does not go on.
ProcessNextStop(v) ==
    \/ RegisterWaiting(v)
    \/ PersonsBoard(v)
    \/ stop[v] # "triggered" /\ UNCHANGED <<stop, myWaitingForPerson>>

Stays(v) ==
    /\ ProcessNextStop(v)
    /\ UNCHANGED <<onRoad, transfer, myWaiting, control, numbers>>

\* The stop is over, perhaps because persons have just boarded.
Resume(v) ==
    /\ stop[v] # "none"
    /\ resumeFromStopping(v)
    /\ UNCHANGED <<onRoad, transfer, control, numbers>>

ExecuteMove(v) ==
    /\ phase = "move" /\ v \in todo
    /\ todo' = todo \ {v}
    /\ Arrives(v) \/ StartTeleport(v) \/ ReachStop(v) \/ Stays(v) \/ Resume(v)
    /\ UNCHANGED <<myStep, phase, havePreChecked, ended, inserter, repetitionsDone>>

\* detectCollisions after the events (before the first vehicle moves), after
\* the movements and after the insertions: the vehicle is removed or
\* teleported.
Collide(v) ==
    /\ \/ phase = "move" /\ todo \in {onRoad, {}}
       \/ phase = "emit" /\ myPendingEmits = NoEntry
    /\ v \in onRoad
    /\ todo' = todo \ {v}
    /\ Arrives(v) \/ StartTeleport(v)
    /\ UNCHANGED <<myStep, phase, havePreChecked, ended, inserter, repetitionsDone>>

\* A seeded fault: the phase ends before every vehicle has moved.
EndMoveEarly ==
    /\ phase = "move"
    /\ phase' = "load"
    /\ UNCHANGED <<myStep, todo, havePreChecked, ended, control, traffic, numbers, inserter,
                   repetitionsDone>>

EndMove ==
    /\ phase = "move" /\ todo = {}
    /\ phase' = "load"
    /\ UNCHANGED <<myStep, todo, havePreChecked, ended, control, traffic, numbers, inserter,
                   repetitionsDone>>

-----------------------------------------------------------------------------
(* load: loadRoutes, MSRouteHandler::closeVehicle. *)

\* buildVehicle for every vehicle of the set V.
Build(V) ==
    /\ V \cap built = {}
    /\ built' = built \cup V

\* addVehicle: a triggered vehicle waits for its person from now on.
AddVehicles(V) ==
    /\ myVehicleDict' = myVehicleDict \cup V
    /\ myWaiting' = myWaiting \cup (V \cap Triggered)
    /\ myLoadedVehNo' = myLoadedVehNo + Cardinality(V)
    /\ myWaitingForPerson' = myWaitingForPerson + Cardinality(V \cap Triggered)
    /\ UNCHANGED <<departed, onRoad, stop, transfer, myRunningVehNo, myEndedVehNo, myDiscarded>>

\* The quota is zero: built and deleted at once.
BuildDiscarded(v) ==
    /\ 0 \in QuotaOf[v]
    /\ Build({v})
    /\ myLoadedVehNo' = myLoadedVehNo + 1
    /\ myEndedVehNo' = myEndedVehNo + 1
    /\ myDiscarded' = myDiscarded + 1
    /\ UNCHANGED <<myVehicleDict, departed, depart, traffic, myRunningVehNo, myAllVeh>>

LoadOne(v, t) ==
    /\ 1 \in QuotaOf[v]
    /\ Build({v}) /\ AddVehicles({v})
    /\ IF v \in Triggered
       THEN depart' = [depart EXCEPT ![v] = NoDepart] /\ UNCHANGED myAllVeh
       ELSE depart' = [depart EXCEPT ![v] = t] /\ myAllVeh' = [myAllVeh EXCEPT ![v] = @ + 1]

\* The quota is two: the vehicle itself goes to the inserter whatever its
\* departure procedure, the copy only if its departure time is given.
LoadWithCopy(v, w, t) ==
    /\ 2 \in QuotaOf[v]
    /\ v # w /\ (v \in Triggered <=> w \in Triggered)
    /\ Build({v, w}) /\ AddVehicles({v, w})
    /\ LET d == IF v \in Triggered THEN NoDepart ELSE t IN
       depart' = [depart EXCEPT ![v] = d, ![w] = d]
    /\ myAllVeh' = IF v \in Triggered THEN [myAllVeh EXCEPT ![v] = @ + 1]
                   ELSE [myAllVeh EXCEPT ![v] = @ + 1, ![w] = @ + 1]

CloseVehicle(v) ==
    /\ phase = "load" /\ v \notin FlowVeh
    /\ \/ BuildDiscarded(v)
       \/ \E t \in DepartTimes : t >= myStep /\ LoadOne(v, t)
       \/ \E t \in DepartTimes, w \in Veh \ FlowVeh : t >= myStep /\ LoadWithCopy(v, w, t)
    /\ UNCHANGED <<steps, myPendingEmits, refusedEmits, myEmitCandidates, myAbortedEmits,
                   repetitionsDone>>

EndLoad ==
    /\ phase = "load"
    /\ phase' = "persons"
    /\ UNCHANGED <<myStep, todo, havePreChecked, ended, control, traffic, numbers, inserter,
                   repetitionsDone>>

EndPersons ==
    /\ phase = "persons"
    /\ phase' = "candidates"
    /\ UNCHANGED <<myStep, todo, havePreChecked, ended, control, traffic, numbers, inserter,
                   repetitionsDone>>

-----------------------------------------------------------------------------
(* candidates: determineCandidates and checkCandidates. *)

getPendingFlowCount == IF repetitionsDone < FlowNumber THEN 1 ELSE 0

FlowDepart(k) == k * FlowPeriod

FlowIsDue == repetitionsDone < FlowNumber /\ FlowDepart(repetitionsDone) <= myStep

\* One round of the loop over the repetitions of the flow.  The copies that
\* the demand scaling asks for are given the departure of the repetition
\* after their original's.
EmitFlow(v) ==
    /\ phase = "candidates" /\ FlowIsDue
    /\ v \in FlowVeh
    /\ repetitionsDone' = repetitionsDone + 1
    /\ \/ BuildDiscarded(v)
       \/ LoadOne(v, FlowDepart(repetitionsDone))
       \/ /\ 2 \in QuotaOf[v]
          /\ \E w \in FlowVeh \ {v} :
                /\ Build({v, w}) /\ AddVehicles({v, w})
                /\ depart' = [depart EXCEPT ![v] = FlowDepart(repetitionsDone),
                                            ![w] = FlowDepart(repetitionsDone + 1)]
                /\ myAllVeh' = [myAllVeh EXCEPT ![v] = @ + 1, ![w] = @ + 1]
    /\ UNCHANGED <<steps, myPendingEmits, refusedEmits, myEmitCandidates, myAbortedEmits>>

\* The vehicles of myAllVeh that are due.
Due == {v \in Veh : myAllVeh[v] > 0 /\ depart[v] <= myStep}

\* checkCandidates: due vehicles become pending; with routing devices each
\* pending one is checked for space on its departure edge.
CheckCandidates ==
    /\ phase = "candidates" /\ ~FlowIsDue
    /\ myPendingEmits' = [v \in Veh |-> myPendingEmits[v] + (IF v \in Due THEN myAllVeh[v] ELSE 0)]
    /\ myAllVeh' = [v \in Veh |-> IF v \in Due THEN 0 ELSE myAllVeh[v]]
    /\ IF havePreChecked
       THEN \E C \in SUBSET {v \in Veh : myPendingEmits'[v] > 0} :
               myEmitCandidates' = myEmitCandidates \cup C
       ELSE UNCHANGED myEmitCandidates
    /\ phase' = "emit"
    /\ UNCHANGED <<myStep, todo, havePreChecked, ended, control, traffic, numbers, refusedEmits,
                   myAbortedEmits, repetitionsDone>>

-----------------------------------------------------------------------------
(* emit: emitVehicles and tryInsert. *)

HasCapacity == MaxVehicleNumber < 0 \/ myRunningVehNo < MaxVehicleNumber

\* The loop takes one entry of v from the pending list.
Take(v) == myPendingEmits' = [myPendingEmits EXCEPT ![v] = @ - 1]

\* The entry is kept for the next step.
Refuse(v) ==
    /\ refusedEmits' = [refusedEmits EXCEPT ![v] = @ + 1]
    /\ UNCHANGED <<control, traffic, numbers>>

\* The vehicle did not pass the check for space of this step.
NotACandidate(v) == havePreChecked /\ v \notin myEmitCandidates

\* insertVehicle succeeds.  A vehicle with a given speed may have failed at
\* other positions of the lane before and have been descheduled.
Inserted(v) ==
    /\ HasCapacity
    /\ onRoad' = onRoad \cup {v}
    /\ departed' = departed \cup {v}
    /\ myRunningVehNo' = myRunningVehNo + 1
    /\ \/ UNCHANGED myAbortedEmits
       \/ v \in FixedSpeed /\ myAbortedEmits' = myAbortedEmits \cup {v}
    /\ UNCHANGED <<built, myVehicleDict, depart, stop, transfer, myWaiting,
                   myWaitingForPerson, myLoadedVehNo, myEndedVehNo, myDiscarded, refusedEmits>>

\* A seeded fault: the bound is tested one step late.
DelayExceededLate(v) == MaxDepartDelay >= 0 /\ myStep - depart[v] > MaxDepartDelay + 1

DelayExceeded(v) == MaxDepartDelay >= 0 /\ myStep - depart[v] > MaxDepartDelay

\* The inserter gives the vehicle up.
DiscardPending(v) ==
    /\ Discard(v)
    /\ UNCHANGED <<built, departed, depart, traffic, refusedEmits>>

\* insertVehicle fails, perhaps descheduling the vehicle: it is deleted if it
\* waited too long, else if its edge is vaporizing (then no lane is tried),
\* else if descheduled.
NotInserted(v) ==
    \E vaporizing \in {(v \in Vaporizing), FALSE} :
    \E aborted \in {myAbortedEmits} \cup
             (IF v \in FixedSpeed /\ HasCapacity /\ ~vaporizing
              THEN {myAbortedEmits \cup {v}} ELSE {}) :
          \/ /\ DelayExceeded(v) \/ vaporizing
             /\ myAbortedEmits' = aborted
             /\ DiscardPending(v)
          \/ /\ ~DelayExceeded(v) /\ ~vaporizing /\ v \in aborted
             /\ myAbortedEmits' = aborted \ {v}
             /\ DiscardPending(v)
          \/ /\ ~DelayExceeded(v) /\ ~vaporizing /\ v \notin aborted
             /\ myAbortedEmits' = aborted
             /\ Refuse(v)

\* A vehicle that reached the road by other means just loses its entry.
TryInsert(v) ==
    /\ phase = "emit" /\ myPendingEmits[v] > 0
    /\ Take(v)
    /\ IF NotACandidate(v) THEN Refuse(v) /\ UNCHANGED myAbortedEmits
       ELSE IF v \in onRoad
            THEN UNCHANGED <<control, traffic, numbers, refusedEmits, myAbortedEmits>>
            ELSE Inserted(v) \/ NotInserted(v)
    /\ UNCHANGED <<steps, myAllVeh, myEmitCandidates, repetitionsDone>>

EndEmit ==
    /\ phase = "emit" /\ myPendingEmits = NoEntry
    /\ myPendingEmits' = refusedEmits
    /\ refusedEmits' = NoEntry
    /\ myEmitCandidates' = {}
    /\ phase' = "transfer"
    /\ todo' = {v \in Veh : transfer[v] # "none"}
    /\ UNCHANGED <<myStep, havePreChecked, ended, control, traffic, numbers, myAllVeh,
                   myAbortedEmits, repetitionsDone>>

-----------------------------------------------------------------------------
(* transfer: MSVehicleTransfer::checkInsertions. *)

\* A parking vehicle processes its stop, but not in the step in which it
\* parked, and enters the lane when the stop is over and there is a gap.
HandleParking(v) ==
    /\ transfer[v] \in {"parkingNow", "parking"}
    /\ IF transfer[v] = "parkingNow" THEN UNCHANGED <<stop, myWaitingForPerson>>
       ELSE ProcessNextStop(v)
    /\ \/ /\ transfer' = [transfer EXCEPT ![v] = "parking"]
          /\ UNCHANGED onRoad
       \/ /\ stop'[v] \in {"timed", "full"}
          /\ transfer' = [transfer EXCEPT ![v] = "none"]
          /\ onRoad' = onRoad \cup {v}
    /\ UNCHANGED <<myWaiting, control, numbers>>

\* freeInsertion succeeds.
EndTeleport(v) ==
    /\ transfer[v] = "teleport"
    /\ transfer' = [transfer EXCEPT ![v] = "none"]
    /\ onRoad' = onRoad \cup {v}
    /\ UNCHANGED <<stop, myWaiting, myWaitingForPerson, control, numbers>>

\* It fails: the vehicle waits, proceeds in virtual space, or leaves the
\* network there.
KeepTeleporting(v) ==
    /\ transfer[v] = "teleport"
    /\ UNCHANGED <<traffic, control, numbers>>

TeleportBeyondArrival(v) ==
    /\ transfer[v] = "teleport"
    /\ Leave(v)

CheckInsertions(v) ==
    /\ phase = "transfer" /\ v \in todo
    /\ todo' = todo \ {v}
    /\ HandleParking(v) \/ EndTeleport(v) \/ KeepTeleporting(v) \/ TeleportBeyondArrival(v)
    /\ UNCHANGED <<myStep, phase, havePreChecked, ended, inserter, repetitionsDone>>

EndStep ==
    /\ phase = "transfer" /\ todo = {}
    /\ phase' = "begin"
    /\ myStep' = myStep + 1
    /\ UNCHANGED <<todo, havePreChecked, ended, control, traffic, numbers, inserter,
                   repetitionsDone>>

\* simulationState between two steps, and a client that loops while
\* getMinExpectedNumber() is positive: no more vehicles are expected.  Persons
\* and containers are not modelled: with some on their way the run goes on, so
\* that it ends more easily here than in the program.
Close ==
    /\ phase = "begin" /\ ~ended
    /\ getActiveVehicleCount = 0 /\ getPendingFlowCount = 0
    /\ ended' = TRUE
    /\ UNCHANGED <<myStep, phase, todo, havePreChecked, control, traffic, numbers, inserter,
                   repetitionsDone>>

\* The run is over, or has reached the bound of the model.
Stopped ==
    /\ phase = "begin" /\ (ended \/ myStep = MaxStep)
    /\ UNCHANGED vars

-----------------------------------------------------------------------------

Init ==
    /\ myStep = 0 /\ phase = "begin" /\ todo = {} /\ ended = FALSE
    /\ havePreChecked \in PreCheckModes
    /\ built = {} /\ myVehicleDict = {} /\ departed = {}
    /\ depart = [v \in Veh |-> NoDepart]
    /\ onRoad = {} /\ myWaiting = {}
    /\ stop = [v \in Veh |-> "none"]
    /\ transfer = [v \in Veh |-> "none"]
    /\ myLoadedVehNo = 0 /\ myRunningVehNo = 0 /\ myEndedVehNo = 0 /\ myDiscarded = 0
    /\ myWaitingForPerson = 0
    /\ myAllVeh = NoEntry /\ myPendingEmits = NoEntry /\ refusedEmits = NoEntry
    /\ myEmitCandidates = {} /\ myAbortedEmits = {}
    /\ repetitionsDone = 0

Next ==
    \/ \E v \in Veh : \/ Command(v)
                      \/ BoardTriggered(v)
                      \/ ExecuteMove(v)
                      \/ Collide(v)
                      \/ CloseVehicle(v)
                      \/ EmitFlow(v)
                      \/ TryInsert(v)
                      \/ CheckInsertions(v)
    \/ BeginMove
    \/ EndMove
    \/ EndLoad
    \/ EndPersons
    \/ CheckCandidates
    \/ EndEmit
    \/ EndStep
    \/ Close
    \/ Stopped

Spec == Init /\ [][Next]_vars

-----------------------------------------------------------------------------
(* Properties. *)

StepType ==
    /\ myStep \in Nat /\ phase \in Phase /\ todo \subseteq Veh
    /\ todo # {} => phase \in {"move", "transfer"}
ModeType == havePreChecked \in BOOLEAN /\ ended \in BOOLEAN
ControlType ==
    /\ built \subseteq Veh /\ myVehicleDict \subseteq built /\ departed \subseteq Veh
    /\ depart \in [Veh -> Nat \cup {NoDepart}]
    /\ repetitionsDone \in Nat
TrafficType ==
    /\ onRoad \subseteq Veh /\ myWaiting \subseteq Veh
    /\ stop \in [Veh -> StopState]
    /\ transfer \in [Veh -> TransferState]
NumberType ==
    /\ myLoadedVehNo \in Int /\ myRunningVehNo \in Int /\ myEndedVehNo \in Int
    /\ myDiscarded \in Int /\ myWaitingForPerson \in Int
InserterType ==
    /\ myAllVeh \in [Veh -> Nat]
    /\ myPendingEmits \in [Veh -> Nat]
    /\ refusedEmits \in [Veh -> Nat]
    /\ refusedEmits # NoEntry => phase = "emit"
    /\ myEmitCandidates \subseteq Veh /\ myAbortedEmits \subseteq Veh

\* The shape of the state.  A phase that has no loop has nothing left to do,
\* and the buffer of refused vehicles is empty between two emissions.
TypeOK == StepType /\ ModeType /\ ControlType /\ TrafficType /\ NumberType /\ InserterType

\* v waits in myWaiting for the person it departs with.
WaitsToDepart(v) == v \in (myVehicleDict \cap myWaiting) \ departed

\* The entries the queues of the inserter hold of v.
Entries(v) == myAllVeh[v] + myPendingEmits[v] + refusedEmits[v]

Bit(b) == IF b THEN 1 ELSE 0

Placed(v) ==
    /\ Entries(v) + Bit(v \in onRoad) + Bit(transfer[v] # "none") + Bit(WaitsToDepart(v))
           = Bit(v \in myVehicleDict)
    /\ v \in myVehicleDict => (v \in departed <=> v \in onRoad \/ transfer[v] # "none")

\* Every vehicle that exists is in the charge of exactly one owner: one entry
\* in one queue of the inserter, a lane, the transfer, or the list of those
\* that wait for a person; it has departed iff it is on a lane or in the
\* transfer.  No owner holds a vehicle that was deleted.  (tryInsert,
\* alreadyDeparted, MSVehicleTransfer and MSLane each delete or hand over.)
OnePlace == \A v \in Veh : Placed(v)

\* The counters of MSVehicleControl are what their names say of the vehicles:
\* built, on their way, deleted, and deleted before they departed.
CountersAgree ==
    /\ myLoadedVehNo = Cardinality(built)
    /\ myRunningVehNo = Cardinality(myVehicleDict \cap departed)
    /\ myEndedVehNo = Cardinality(built \ myVehicleDict)
    /\ myDiscarded = Cardinality(built \ (myVehicleDict \cup departed))

\* The vehicles that are registered as waiting for a person.
Registered == {v \in Veh : WaitsToDepart(v) \/ stop[v] \in {"registered", "full"}}

Listed(v) ==
    /\ v \in myWaiting => v \in myVehicleDict
    /\ stop[v] # "none" => v \in myWaiting \cap departed
    /\ v \in myWaiting /\ stop[v] = "none" => v \in Triggered \ departed

\* The counter of waiting vehicles matches the vehicles registered, and
\* myWaiting holds the vehicles at a stop and those that wait to depart,
\* never one that was deleted: persons look their vehicle up there.
WaitingAgrees ==
    /\ myWaitingForPerson = Cardinality(Registered)
    /\ \A v \in Veh : Listed(v)

\* Without the check for space (no routing devices), no vehicle with a given
\* departure outlives an emission more than max-depart-delay behind it.
WaitBounded ==
    (phase = "transfer" /\ ~havePreChecked /\ MaxDepartDelay >= 0) =>
        \A v \in Veh \ Triggered :
            myPendingEmits[v] > 0 => myStep - depart[v] <= MaxDepartDelay

\* The stage of a vehicle, for the abstract specification.
Life(v) ==
    IF v \notin built THEN "unbuilt"
    ELSE IF v \in myVehicleDict
         THEN IF v \in departed THEN "running" ELSE "loaded"
         ELSE IF v \in departed THEN "arrived" ELSE "discarded"

Lifecycle == INSTANCE VehicleLifecycle WITH
    life <- [v \in Veh |-> Life(v)], waits <- Registered, ended <- ended

\* The step loop implements the life cycle: no vehicle departs or leaves
\* twice, and the end is announced only when all that remain wait for persons.
LifecycleSpec == Lifecycle!Spec

\* When no more vehicles are expected, every one in the network waits for a
\* person at its stop.
NoEarlyEnd == ended => \A v \in onRoad : stop[v] = "registered"

\* The environment the theorems assume: the client leaves triggered vehicles
\* alone and the scaling does not double them.
SafeEnvironment ==
    /\ Controlled \cap Triggered = {}
    /\ \A v \in Triggered : 2 \notin QuotaOf[v]

\* The vehicles a loop has yet to visit are where the loop looks for them.
TodoPlaced ==
    /\ phase = "move" => todo \subseteq onRoad
    /\ phase = "transfer" => \A v \in todo : transfer[v] # "none"

\* The inductive strengthening of OnePlace and of the lists of WaitingAgrees.
IInv ==
    /\ TypeOK
    /\ departed \subseteq built
    /\ TodoPlaced
    /\ OnePlace
    /\ \A v \in Veh : Listed(v)
=============================================================================
