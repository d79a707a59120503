--------------------- MODULE SimulationStepPlaces_proof ---------------------
(* The inductive invariant of SimulationStep: every vehicle is in one place, *)
(* and the counters of MSVehicleControl agree with the vehicles.  Then the   *)
(* number of vehicles registered as waiting for a person, and the refinement *)
(* of VehicleLifecycle.                                                      *)
EXTENDS SimulationStep_proof

LEMMA PlacesInit == Init => IInv
<1> SUFFICES ASSUME Init PROVE IInv
    OBVIOUS
<1>1. TypeOK BY TypeInit
<1>2. departed \subseteq built /\ TodoPlaced BY DEF Init, TodoPlaced
<1>3. ASSUME NEW v \in Veh PROVE Placed(v) /\ Listed(v)
    BY DEF Init, Placed, Listed, Entries, Bit, WaitsToDepart, NoEntry
<1> QED BY <1>1, <1>2, <1>3 DEF IInv, OnePlace

\* What the type invariant says of the entries of one vehicle.
LEMMA EntryTypes ==
    ASSUME TypeOK, NEW u \in Veh
    PROVE  /\ myAllVeh[u] \in Nat /\ myPendingEmits[u] \in Nat /\ refusedEmits[u] \in Nat
           /\ phase # "emit" => refusedEmits[u] = 0
BY DEF TypeOK, InserterType, NoEntry

\* A vehicle whose own situation does not change stays in its place.
LEMMA PlaceUnchanged ==
    ASSUME IInv, NEW u \in Veh,
           u \in myVehicleDict' <=> u \in myVehicleDict,
           u \in departed' <=> u \in departed,
           u \in onRoad' <=> u \in onRoad,
           u \in myWaiting' <=> u \in myWaiting,
           stop'[u] = stop[u] \/ (stop'[u] # "none" /\ stop[u] # "none"),
           transfer'[u] = transfer[u],
           Entries(u)' = Entries(u)
    PROVE  Placed(u)' /\ Listed(u)'
<1>1. Placed(u) /\ Listed(u) BY DEF IInv, OnePlace
<1>2. Placed(u)' BY <1>1 DEF Placed, WaitsToDepart, Bit
<1>3. Listed(u)' BY <1>1 DEF Listed
<1> QED BY <1>2, <1>3

\* A vehicle that has departed is on a lane or in the transfer and has no entry;
\* one that has not has an entry or waits for its person.
LEMMA PlacesOf ==
    ASSUME IInv, NEW u \in Veh
    PROVE  /\ u \in myVehicleDict \cap departed =>
                  /\ Entries(u) = 0 /\ ~WaitsToDepart(u)
                  /\ u \in onRoad <=> transfer[u] = "none"
           /\ u \in myVehicleDict \ departed =>
                  /\ u \notin onRoad /\ transfer[u] = "none"
                  /\ Entries(u) = 1 - Bit(u \in myWaiting)
           /\ u \notin myVehicleDict =>
                  /\ Entries(u) = 0 /\ u \notin onRoad /\ transfer[u] = "none"
                  /\ u \notin myWaiting /\ stop[u] = "none"
           /\ Entries(u) \in Nat
<1>1. Placed(u) /\ Listed(u) BY DEF IInv, OnePlace
<1>2. Entries(u) \in Nat BY EntryTypes DEF IInv, Entries
<1> QED BY <1>1, <1>2 DEF Placed, Listed, Bit, WaitsToDepart

\* A vehicle that has left the network has no place.
LEMMA PlacesLeave ==
    ASSUME IInv, NEW v \in Veh, v \in myVehicleDict \cap departed, Leave(v), Entries(v)' = Entries(v)
    PROVE  Placed(v)' /\ Listed(v)'
<1>1. stop'[v] = "none" /\ transfer'[v] = "none" /\ v \notin onRoad' /\ v \notin myVehicleDict'
    BY DEF IInv, TypeOK, TrafficType, Leave, resumeFromStopping, scheduleVehicleRemoval
<1>2. v \notin myWaiting'
    BY DEF IInv, Listed, Leave, resumeFromStopping
<1> QED BY <1>1, <1>2, PlacesOf DEF Placed, Listed, WaitsToDepart, Bit

LEMMA PlacesCommand ==
    ASSUME SafeEnvironment, IInv, NEW v \in Veh, Command(v)
    PROVE  IInv'
<1>1. TypeOK' BY TypeCommand DEF IInv
<1>2. v \in myVehicleDict /\ v \notin Triggered /\ phase = "begin" /\ phase' = "begin"
    BY DEF Command, SafeEnvironment, steps
<1>3. TodoPlaced' BY <1>2 DEF TodoPlaced
<1>4. departed' \subseteq built'
    BY <1>2 DEF IInv, TypeOK, ControlType, Command, RemoveDeparted, Leave, RemoveUndeparted, MoveTo
<1>5. ASSUME NEW u \in Veh PROVE Placed(u)' /\ Listed(u)'
    <2>1. CASE RemoveDeparted(v)
        <3>1. Entries(u)' = Entries(u) BY <2>1 DEF RemoveDeparted, inserter, Entries
        <3>2. CASE u = v BY <1>2, <2>1, <3>1, <3>2, PlacesLeave DEF RemoveDeparted
        <3>3. CASE u # v
            BY <2>1, <3>1, <3>3, PlaceUnchanged
            DEF RemoveDeparted, Leave, resumeFromStopping, scheduleVehicleRemoval, IInv, TypeOK, TrafficType
        <3> QED BY <3>2, <3>3
    <2>2. CASE RemoveUndeparted(v)
        <3>1. CASE u = v
            <4>1. Entries(v)' = 0
                BY <1>2, <2>2, EntryTypes
                DEF RemoveUndeparted, AlreadyDeparted, Entries, IInv, TypeOK, InserterType
            <4>2. v \notin myWaiting BY <1>2, <2>2 DEF RemoveUndeparted, IInv, Listed
            <4> QED BY <1>2, <2>2, <3>1, <4>1, <4>2, PlacesOf
                    DEF RemoveUndeparted, Discard, traffic, Placed, Listed, WaitsToDepart, Bit, IInv
        <3>2. CASE u # v
            BY <2>2, <3>2, PlaceUnchanged
            DEF RemoveUndeparted, AlreadyDeparted, Entries, Discard, traffic, IInv, TypeOK, InserterType
        <3> QED BY <3>1, <3>2
    <2>3. CASE MoveTo(v)
        <3>1. CASE u = v
            <4>1. Entries(v)' = 0
                BY <1>2, <2>3, EntryTypes
                DEF MoveTo, AlreadyDeparted, Entries, IInv, TypeOK, InserterType
            <4>2. v \notin myWaiting' /\ stop'[v] = "none" /\ transfer'[v] = "none"
                BY <1>2, <2>3 DEF MoveTo, resumeFromStopping, IInv, Listed, TypeOK, TrafficType
            <4> QED BY <1>2, <2>3, <3>1, <4>1, <4>2
                    DEF MoveTo, Placed, Listed, WaitsToDepart, Bit
        <3>2. CASE u # v
            BY <2>3, <3>2, PlaceUnchanged
            DEF MoveTo, AlreadyDeparted, Entries, resumeFromStopping, IInv, TypeOK, InserterType, TrafficType
        <3> QED BY <3>1, <3>2
    <2> QED BY <2>1, <2>2, <2>3 DEF Command
<1> QED BY <1>1, <1>3, <1>4, <1>5 DEF IInv, OnePlace

LEMMA PlacesBoardTriggered ==
    ASSUME IInv, NEW v \in Veh, BoardTriggered(v)
    PROVE  IInv'
<1>1. TypeOK' BY TypeBoardTriggered DEF IInv
<1>2. TodoPlaced' /\ departed' \subseteq built'
    BY DEF BoardTriggered, steps, control, TodoPlaced, IInv
<1>3. ASSUME NEW u \in Veh PROVE Placed(u)' /\ Listed(u)'
    <2>1. CASE u = v
        <3>1. v \in myVehicleDict /\ v \notin departed /\ stop[v] = "none"
            BY DEF BoardTriggered, IInv, Listed
        <3>2. Entries(v)' = Entries(v) + 1
            BY EntryTypes DEF BoardTriggered, Entries, IInv, TypeOK, InserterType
        <3>3. v \in myWaiting /\ v \notin myWaiting' BY DEF BoardTriggered
        <3> QED BY <2>1, <3>1, <3>2, <3>3, PlacesOf
                DEF BoardTriggered, control, Placed, Listed, WaitsToDepart, Bit
    <2>2. CASE u # v
        BY <2>2, PlaceUnchanged
        DEF BoardTriggered, control, Entries, IInv, TypeOK, InserterType
    <2> QED BY <2>1, <2>2
<1> QED BY <1>1, <1>2, <1>3 DEF IInv, OnePlace

\* A vehicle on a lane exists and has departed.
LEMMA OnRoadDeparted ==
    ASSUME IInv, NEW v \in onRoad
    PROVE  v \in Veh /\ v \in myVehicleDict \cap departed /\ transfer[v] = "none"
BY PlacesOf DEF IInv, TypeOK, TrafficType

\* A vehicle in the transfer exists, has departed, and is on no lane.
LEMMA InTransferDeparted ==
    ASSUME IInv, NEW v \in Veh, transfer[v] # "none"
    PROVE  v \in myVehicleDict \cap departed /\ v \notin onRoad
BY PlacesOf

\* The places after a vehicle on a lane has left it for the transfer or for good.
LEMMA PlacesArriveOrTeleport ==
    ASSUME IInv, NEW v \in onRoad, Arrives(v) \/ StartTeleport(v), UNCHANGED inserter,
           NEW u \in Veh
    PROVE  Placed(u)' /\ Listed(u)'
<1>1. v \in Veh /\ v \in myVehicleDict \cap departed /\ transfer[v] = "none" BY OnRoadDeparted
<1>2. Entries(u)' = Entries(u) BY DEF inserter, Entries
<1>3. CASE u # v
    BY <1>2, <1>3, PlaceUnchanged
    DEF Arrives, StartTeleport, Leave, control, resumeFromStopping, scheduleVehicleRemoval,
        IInv, TypeOK, TrafficType
<1>4. CASE u = v /\ Arrives(v) BY <1>1, <1>2, <1>4, PlacesLeave DEF Arrives
<1>5. CASE u = v /\ StartTeleport(v)
    <2>1. stop'[v] = "none" /\ transfer'[v] = "teleport" /\ v \notin onRoad'
        BY <1>1, <1>5 DEF StartTeleport, resumeFromStopping, IInv, TypeOK, TrafficType
    <2>2. v \notin myWaiting' BY <1>1, <1>5 DEF StartTeleport, resumeFromStopping, IInv, Listed
    <2> QED BY <1>1, <1>2, <1>5, <2>1, <2>2, PlacesOf
            DEF StartTeleport, control, Placed, Listed, WaitsToDepart, Bit
<1> QED BY <1>3, <1>4, <1>5

LEMMA PlacesExecuteMove ==
    ASSUME IInv, NEW v \in Veh, ExecuteMove(v)
    PROVE  IInv'
<1>1. TypeOK' BY TypeExecuteMove DEF IInv
<1>2. v \in onRoad /\ v \in myVehicleDict \cap departed /\ transfer[v] = "none"
    BY OnRoadDeparted DEF ExecuteMove, IInv, TodoPlaced
<1>3. departed' \subseteq built'
    BY DEF ExecuteMove, Arrives, StartTeleport, ReachStop, Stays, Resume, Leave, control, IInv
<1>4. TodoPlaced'
    BY DEF ExecuteMove, Arrives, StartTeleport, ReachStop, Stays, Resume, Leave, TodoPlaced, IInv
<1>5. ASSUME NEW u \in Veh PROVE Placed(u)' /\ Listed(u)'
    <2>1. Entries(u)' = Entries(u) /\ UNCHANGED inserter BY DEF ExecuteMove, inserter, Entries
    <2>2. CASE Arrives(v) \/ StartTeleport(v) BY <1>2, <2>1, <2>2, PlacesArriveOrTeleport
    <2>3. CASE ReachStop(v)
        <3> USE <2>3 DEF ReachStop, control, IInv, TypeOK, TrafficType
        <3>1. CASE u # v BY <2>1, <3>1, PlaceUnchanged
        <3>2. CASE u = v
            <4>1. v \in myWaiting' /\ stop'[v] # "none" BY <1>2
            <4>2. v \in onRoad' <=> transfer'[v] = "none" BY <1>2
            <4> QED BY <1>2, <2>1, <3>2, <4>1, <4>2, PlacesOf
                    DEF Placed, Listed, WaitsToDepart, Bit
        <3> QED BY <3>1, <3>2
    <2>4. CASE Stays(v)
        BY <2>1, <2>4, PlaceUnchanged
        DEF Stays, ProcessNextStop, RegisterWaiting, PersonsBoard, control, IInv, TypeOK, TrafficType
    <2>5. CASE Resume(v)
        <3>1. CASE u # v
            BY <2>1, <2>5, <3>1, PlaceUnchanged
            DEF Resume, resumeFromStopping, control, IInv, TypeOK, TrafficType
        <3>2. CASE u = v
            <4>1. v \notin myWaiting' /\ stop'[v] = "none"
                BY <2>5 DEF Resume, resumeFromStopping, IInv, TypeOK, TrafficType
            <4> QED BY <1>2, <2>1, <2>5, <3>2, <4>1, PlacesOf
                    DEF Resume, control, Placed, Listed, WaitsToDepart, Bit
        <3> QED BY <3>1, <3>2
    <2> QED BY <2>2, <2>3, <2>4, <2>5 DEF ExecuteMove
<1> QED BY <1>1, <1>3, <1>4, <1>5 DEF IInv, OnePlace

LEMMA PlacesCollide ==
    ASSUME IInv, NEW v \in Veh, Collide(v)
    PROVE  IInv'
<1>1. TypeOK' BY TypeCollide DEF IInv
<1>2. departed' \subseteq built'
    BY DEF Collide, Arrives, StartTeleport, Leave, control, IInv
<1>3. TodoPlaced'
    <2>1. phase' = phase /\ todo' = todo \ {v} BY DEF Collide
    <2>2. CASE phase = "move"
        <3>1. onRoad' = onRoad \ {v}
            BY DEF Collide, Arrives, StartTeleport, Leave
        <3>2. todo \subseteq onRoad BY <2>2 DEF IInv, TodoPlaced
        <3> QED BY <2>1, <2>2, <3>1, <3>2 DEF TodoPlaced
    <2>3. CASE phase = "emit" BY <2>1, <2>3 DEF TodoPlaced
    <2> QED BY <2>2, <2>3 DEF Collide
<1>4. ASSUME NEW u \in Veh PROVE Placed(u)' /\ Listed(u)'
    BY PlacesArriveOrTeleport DEF Collide
<1> QED BY <1>1, <1>2, <1>3, <1>4 DEF IInv, OnePlace

\* The vehicles of a set V are loaded: a triggered one waits for its person,
\* any other has an entry.
LEMMA PlacesLoad ==
    ASSUME IInv, NEW V \in SUBSET Veh, V \cap built = {},
           myVehicleDict' = myVehicleDict \cup V,
           myWaiting' = myWaiting \cup (V \cap Triggered),
           UNCHANGED <<departed, onRoad, stop, transfer, myPendingEmits, refusedEmits>>,
           \A u \in Veh : myAllVeh'[u] = myAllVeh[u] + Bit(u \in V \ Triggered),
           NEW u \in Veh
    PROVE  Placed(u)' /\ Listed(u)'
<1>1. Entries(u)' = Entries(u) + Bit(u \in V \ Triggered)
    BY EntryTypes DEF IInv, Entries, Bit
<1>2. CASE u \notin V BY <1>1, <1>2, PlaceUnchanged DEF Bit, IInv, TypeOK, InserterType, Entries
<1>3. CASE u \in V
    <2>1. u \notin departed /\ u \notin myVehicleDict
        BY <1>3 DEF IInv, TypeOK, ControlType
    <2> QED BY <1>1, <1>3, <2>1, PlacesOf DEF Placed, Listed, WaitsToDepart, Bit
<1> QED BY <1>2, <1>3

\* The parts of the invariant a loading step cannot disturb.
LEMMA PlacesBuildDiscarded ==
    ASSUME IInv, NEW v \in Veh, BuildDiscarded(v), UNCHANGED <<myPendingEmits, refusedEmits>>,
           NEW u \in Veh
    PROVE  Placed(u)' /\ Listed(u)'
BY PlaceUnchanged DEF BuildDiscarded, traffic, Entries

LEMMA PlacesLoadOne ==
    ASSUME IInv, NEW v \in Veh, NEW t \in Nat, LoadOne(v, t),
           UNCHANGED <<myPendingEmits, refusedEmits>>, NEW u \in Veh
    PROVE  Placed(u)' /\ Listed(u)'
<1>1. \A w \in Veh : myAllVeh'[w] = myAllVeh[w] + Bit(w \in {v} \ Triggered)
    BY DEF LoadOne, IInv, TypeOK, InserterType, Bit
<1> QED BY <1>1, PlacesLoad DEF LoadOne, Build, AddVehicles

LEMMA PlacesCloseVehicle ==
    ASSUME SafeEnvironment, IInv, NEW v \in Veh, CloseVehicle(v)
    PROVE  IInv'
<1>1. TypeOK' BY TypeCloseVehicle DEF IInv
<1>2. TodoPlaced' BY DEF CloseVehicle, steps, TodoPlaced
<1>3. departed' \subseteq built'
    BY DEF CloseVehicle, BuildDiscarded, LoadOne, LoadWithCopy, Build, AddVehicles, IInv
<1>4. DepartTimes \subseteq Nat BY StepAssumption DEF StepAssumption
<1>5. ASSUME NEW u \in Veh PROVE Placed(u)' /\ Listed(u)'
    <2>1. UNCHANGED <<myPendingEmits, refusedEmits>> BY DEF CloseVehicle
    <2>2. CASE BuildDiscarded(v) BY <2>1, <2>2, PlacesBuildDiscarded
    <2>3. ASSUME NEW t \in DepartTimes, LoadOne(v, t) PROVE Placed(u)' /\ Listed(u)'
        BY <1>4, <2>1, <2>3, PlacesLoadOne
    <2>4. ASSUME NEW t \in DepartTimes, NEW w \in Veh, LoadWithCopy(v, w, t)
          PROVE  Placed(u)' /\ Listed(u)'
        <3>1. v \notin Triggered /\ w \notin Triggered /\ v # w
            BY <2>4 DEF LoadWithCopy, SafeEnvironment
        <3>2. \A x \in Veh : myAllVeh'[x] = myAllVeh[x] + Bit(x \in {v, w} \ Triggered)
            BY <2>4, <3>1 DEF LoadWithCopy, IInv, TypeOK, InserterType, Bit
        <3> QED BY <2>1, <2>4, <3>2, PlacesLoad DEF LoadWithCopy, Build, AddVehicles
    <2> QED BY <2>2, <2>3, <2>4 DEF CloseVehicle
<1> QED BY <1>1, <1>2, <1>3, <1>5 DEF IInv, OnePlace

LEMMA PlacesEmitFlow ==
    ASSUME IInv, NEW v \in Veh, EmitFlow(v)
    PROVE  IInv'
<1>1. TypeOK' BY TypeEmitFlow DEF IInv
<1>2. TodoPlaced' BY DEF EmitFlow, steps, TodoPlaced
<1>3. departed' \subseteq built'
    BY DEF EmitFlow, BuildDiscarded, LoadOne, Build, AddVehicles, IInv
<1>4. ASSUME NEW u \in Veh PROVE Placed(u)' /\ Listed(u)'
    <2>1. UNCHANGED <<myPendingEmits, refusedEmits>> BY DEF EmitFlow
    <2>2. CASE BuildDiscarded(v) BY <2>1, <2>2, PlacesBuildDiscarded
    <2>3. CASE LoadOne(v, FlowDepart(repetitionsDone))
        BY <2>1, <2>3, PlacesLoadOne, FlowDepartType DEF IInv, TypeOK, ControlType
    <2>4. ASSUME NEW w \in FlowVeh \ {v}, Build({v, w}), AddVehicles({v, w}),
                 myAllVeh' = [myAllVeh EXCEPT ![v] = @ + 1, ![w] = @ + 1]
          PROVE  Placed(u)' /\ Listed(u)'
        <3>1. w \in Veh /\ v \notin Triggered /\ w \notin Triggered /\ v # w
            BY StepAssumption DEF StepAssumption, EmitFlow
        <3>2. \A x \in Veh : myAllVeh'[x] = myAllVeh[x] + Bit(x \in {v, w} \ Triggered)
            BY <2>4, <3>1 DEF IInv, TypeOK, InserterType, Bit
        <3> QED BY <2>1, <2>4, <3>1, <3>2, PlacesLoad DEF Build, AddVehicles
    <2> QED BY <2>2, <2>3, <2>4 DEF EmitFlow
<1> QED BY <1>1, <1>2, <1>3, <1>4 DEF IInv, OnePlace

LEMMA PlacesCheckCandidates ==
    ASSUME IInv, CheckCandidates
    PROVE  IInv'
<1>1. TypeOK' BY TypeCheckCandidates DEF IInv
<1>2. TodoPlaced' /\ departed' \subseteq built'
    BY DEF CheckCandidates, TodoPlaced, IInv, control, traffic
<1>3. ASSUME NEW u \in Veh PROVE Placed(u)' /\ Listed(u)'
    <2>1. Entries(u)' = Entries(u) BY EntryTypes DEF CheckCandidates, Entries, IInv
    <2> QED BY <2>1, PlaceUnchanged DEF CheckCandidates, control, traffic
<1> QED BY <1>1, <1>2, <1>3 DEF IInv, OnePlace

LEMMA PlacesTryInsert ==
    ASSUME IInv, NEW v \in Veh, TryInsert(v)
    PROVE  IInv'
<1>1. TypeOK' BY TypeTryInsert DEF IInv
<1>2. /\ Entries(v) = 1 /\ v \in myVehicleDict \ departed /\ v \notin myWaiting
      /\ v \notin onRoad /\ transfer[v] = "none"
    <2>1. Entries(v) > 0 BY EntryTypes DEF TryInsert, Entries, IInv
    <2> QED BY <2>1, PlacesOf DEF Bit
<1>3. TodoPlaced' BY DEF TryInsert, steps, TodoPlaced
<1>4. Refuse(v) \/ Inserted(v) \/ DiscardPending(v)
    BY <1>2 DEF TryInsert, NotInserted
<1>5. departed' \subseteq built'
    BY <1>2, <1>4 DEF Refuse, Inserted, DiscardPending, control, IInv, TypeOK, ControlType
<1>6. ASSUME NEW u \in Veh PROVE Placed(u)' /\ Listed(u)'
    <2>1. myPendingEmits' = [myPendingEmits EXCEPT ![v] = @ - 1] /\ UNCHANGED myAllVeh
        BY DEF TryInsert, Take
    <2>2. CASE Refuse(v)
        <3>1. Entries(u)' = Entries(u)
            BY <2>1, <2>2, EntryTypes DEF Refuse, Entries, IInv, TypeOK, InserterType
        <3> QED BY <2>2, <3>1, PlaceUnchanged DEF Refuse, control, traffic
    <2>3. CASE Inserted(v) \/ DiscardPending(v)
        <3>1. Entries(u)' = Entries(u) - Bit(u = v)
            BY <2>1, <2>3, EntryTypes
            DEF Inserted, DiscardPending, Entries, IInv, TypeOK, InserterType, Bit
        <3>2. CASE u # v
            BY <2>3, <3>1, <3>2, PlaceUnchanged
            DEF Inserted, DiscardPending, Discard, traffic, Bit, Entries, IInv, TypeOK, InserterType
        <3>3. CASE u = v /\ Inserted(v)
            BY <1>2, <3>1, <3>3 DEF Inserted, Placed, Listed, WaitsToDepart, Bit, IInv
        <3>4. CASE u = v /\ DiscardPending(v)
            BY <1>2, <3>1, <3>4
            DEF DiscardPending, Discard, traffic, Placed, Listed, WaitsToDepart, Bit, IInv
        <3> QED BY <2>3, <3>2, <3>3, <3>4
    <2> QED BY <1>4, <2>2, <2>3
<1> QED BY <1>1, <1>3, <1>5, <1>6 DEF IInv, OnePlace

LEMMA PlacesCheckInsertions ==
    ASSUME IInv, NEW v \in Veh, CheckInsertions(v)
    PROVE  IInv'
<1>1. TypeOK' BY TypeCheckInsertions DEF IInv
<1>2. v \in myVehicleDict \cap departed /\ v \notin onRoad /\ transfer[v] # "none"
    BY InTransferDeparted DEF CheckInsertions, IInv, TodoPlaced
<1>3. departed' \subseteq built'
    BY DEF CheckInsertions, HandleParking, EndTeleport, KeepTeleporting, TeleportBeyondArrival,
           Leave, control, IInv
<1>4. \A u \in Veh \ {v} : transfer'[u] = transfer[u]
    BY DEF CheckInsertions, HandleParking, EndTeleport, KeepTeleporting, TeleportBeyondArrival,
           Leave, traffic, IInv, TypeOK, TrafficType
<1>5. TodoPlaced'
    BY <1>4 DEF CheckInsertions, TodoPlaced, IInv, TypeOK, StepType
<1>6. ASSUME NEW u \in Veh PROVE Placed(u)' /\ Listed(u)'
    <2>1. Entries(u)' = Entries(u) BY DEF CheckInsertions, inserter, Entries
    <2>2. CASE TeleportBeyondArrival(v)
        <3>1. CASE u = v BY <1>2, <2>1, <2>2, <3>1, PlacesLeave DEF TeleportBeyondArrival
        <3>2. CASE u # v
            BY <2>1, <2>2, <3>2, PlaceUnchanged
            DEF TeleportBeyondArrival, Leave, resumeFromStopping, scheduleVehicleRemoval,
                IInv, TypeOK, TrafficType
        <3> QED BY <3>1, <3>2
    <2>3. CASE KeepTeleporting(v)
        BY <2>1, <2>3, PlaceUnchanged DEF KeepTeleporting, traffic, control
    <2>4. CASE EndTeleport(v)
        <3>1. CASE u = v
            BY <1>2, <2>1, <2>4, <3>1, PlacesOf
            DEF EndTeleport, control, Placed, Listed, WaitsToDepart, Bit, IInv, TypeOK, TrafficType
        <3>2. CASE u # v
            BY <2>1, <2>4, <3>2, PlaceUnchanged
            DEF EndTeleport, control, IInv, TypeOK, TrafficType
        <3> QED BY <3>1, <3>2
    <2>5. CASE HandleParking(v)
        <3>1. \A w \in Veh : stop'[w] = stop[w] \/ (stop'[w] # "none" /\ stop[w] # "none")
            BY <2>5 DEF HandleParking, ProcessNextStop, RegisterWaiting, PersonsBoard,
                        IInv, TypeOK, TrafficType
        <3>2. CASE u = v
            <4>1. v \in onRoad' <=> transfer'[v] = "none"
                BY <1>2, <2>5 DEF HandleParking, IInv, TypeOK, TrafficType
            <4>2. Listed(v)'
                BY <2>5, <3>1 DEF HandleParking, control, IInv, Listed
            <4> QED BY <1>2, <2>1, <2>5, <3>2, <4>1, <4>2, PlacesOf
                    DEF HandleParking, control, Placed, WaitsToDepart, Bit
        <3>3. CASE u # v
            BY <2>1, <2>5, <3>1, <3>3, PlaceUnchanged
            DEF HandleParking, control, IInv, TypeOK, TrafficType
        <3> QED BY <3>2, <3>3
    <2> QED BY <2>2, <2>3, <2>4, <2>5 DEF CheckInsertions
<1> QED BY <1>1, <1>3, <1>5, <1>6 DEF IInv, OnePlace

\* The end of the emission moves the refused entries, all of them, to the
\* pending ones; the transfer then visits the vehicles it holds.
LEMMA PlacesEndEmit ==
    ASSUME IInv, EndEmit
    PROVE  IInv'
<1>1. TypeOK' BY TypePhases DEF IInv
<1>2. departed' \subseteq built' BY DEF EndEmit, control, IInv
<1>3. TodoPlaced' BY DEF EndEmit, traffic, TodoPlaced
<1>4. ASSUME NEW u \in Veh PROVE Placed(u)' /\ Listed(u)'
    <2>1. Entries(u)' = Entries(u)
        BY EntryTypes DEF EndEmit, Entries, NoEntry, IInv
    <2> QED BY <2>1, PlaceUnchanged DEF EndEmit, control, traffic
<1> QED BY <1>1, <1>2, <1>3, <1>4 DEF IInv, OnePlace

LEMMA PlacesPhases ==
    ASSUME IInv, BeginMove \/ EndMove \/ EndLoad \/ EndPersons \/ EndStep \/ Close \/ Stopped
                 \/ UNCHANGED vars
    PROVE  IInv'
<1>1. TypeOK' BY TypeNext DEF IInv, Next, Stopped
<1> USE DEF BeginMove, EndMove, EndLoad, EndPersons, EndStep, Close, Stopped, vars, steps
<1>2. departed' \subseteq built' BY DEF control, IInv
<1>3. TodoPlaced' BY DEF traffic, TodoPlaced, IInv
<1>4. ASSUME NEW u \in Veh PROVE Placed(u)' /\ Listed(u)'
    <2>1. Entries(u)' = Entries(u) BY DEF inserter, Entries
    <2> QED BY <2>1, PlaceUnchanged DEF control, traffic
<1> QED BY <1>1, <1>2, <1>3, <1>4 DEF IInv, OnePlace

LEMMA PlacesNext ==
    ASSUME SafeEnvironment, IInv, [Next]_vars
    PROVE  IInv'
<1>1. CASE \E v \in Veh : Command(v) BY <1>1, PlacesCommand
<1>2. CASE \E v \in Veh : BoardTriggered(v) BY <1>2, PlacesBoardTriggered
<1>3. CASE \E v \in Veh : ExecuteMove(v) BY <1>3, PlacesExecuteMove
<1>4. CASE \E v \in Veh : Collide(v) BY <1>4, PlacesCollide
<1>5. CASE \E v \in Veh : CloseVehicle(v) BY <1>5, PlacesCloseVehicle
<1>6. CASE \E v \in Veh : EmitFlow(v) BY <1>6, PlacesEmitFlow
<1>7. CASE \E v \in Veh : TryInsert(v) BY <1>7, PlacesTryInsert
<1>8. CASE \E v \in Veh : CheckInsertions(v) BY <1>8, PlacesCheckInsertions
<1>9. CASE CheckCandidates BY <1>9, PlacesCheckCandidates
<1>10. CASE EndEmit BY <1>10, PlacesEndEmit
<1>11. CASE BeginMove \/ EndMove \/ EndLoad \/ EndPersons \/ EndStep \/ Close \/ Stopped
            \/ UNCHANGED vars
    BY <1>11, PlacesPhases
<1> QED BY <1>1, <1>2, <1>3, <1>4, <1>5, <1>6, <1>7, <1>8, <1>9, <1>10, <1>11 DEF Next

\* The invariant holds in every run whose client and scaling leave triggered
\* vehicles alone.
LEMMA Invariant == ASSUME SafeEnvironment PROVE Spec => []IInv
<1>1. Init => IInv BY PlacesInit
<1>2. IInv /\ [Next]_vars => IInv' BY PlacesNext
<1> QED BY <1>1, <1>2, PTL DEF Spec

\* Every vehicle MSVehicleControl knows is in exactly one place: once in the
\* queues of MSInsertionControl, on a lane, in MSVehicleTransfer, or waiting
\* for the person it departs with; a deleted one is in none.
THEOREM StepOnePlace == ASSUME SafeEnvironment PROVE Spec => []OnePlace
<1>1. IInv => OnePlace BY DEF IInv
<1> QED BY <1>1, Invariant, PTL

-----------------------------------------------------------------------------
(* The counters.                                                             *)

\* Adding and removing one vehicle, or adding vehicles that are not there.
LEMMA CountAdd ==
    ASSUME NEW S \in SUBSET Veh, NEW v \in Veh \ S
    PROVE  Cardinality(S \cup {v}) = Cardinality(S) + 1
BY CardinalityOfVehicles, FS_AddElement

LEMMA CountRemove ==
    ASSUME NEW S \in SUBSET Veh, NEW v \in S
    PROVE  Cardinality(S \ {v}) = Cardinality(S) - 1
BY CardinalityOfVehicles, FS_RemoveElement

LEMMA CountUnion ==
    ASSUME NEW S \in SUBSET Veh, NEW T \in SUBSET Veh, S \cap T = {}
    PROVE  Cardinality(S \cup T) = Cardinality(S) + Cardinality(T)
<1>1. Cardinality(S \cap T) = 0 BY FS_EmptySet
<1>2. Cardinality(S \cup T) = Cardinality(S) + Cardinality(T) - Cardinality(S \cap T)
    BY CardinalityOfVehicles, FS_Union
<1> QED BY <1>1, <1>2, CardinalityOfVehicles

-----------------------------------------------------------------------------
(* CountersAgree: one lemma per way in which a step changes the counters.    *)

LEMMA CountersInit == Init => CountersAgree
BY FS_EmptySet DEF Init, CountersAgree

LEMMA CountersLeave ==
    ASSUME IInv, CountersAgree, NEW v \in myVehicleDict \cap departed,
           scheduleVehicleRemoval(v), UNCHANGED <<built, departed>>
    PROVE  CountersAgree'
<1>1. myVehicleDict \subseteq built /\ built \subseteq Veh /\ departed \subseteq built
    BY DEF IInv, TypeOK, ControlType
<1>2. /\ (myVehicleDict \cap departed)' = (myVehicleDict \cap departed) \ {v}
      /\ (built \ myVehicleDict)' = (built \ myVehicleDict) \cup {v}
      /\ (built \ (myVehicleDict \cup departed))' = built \ (myVehicleDict \cup departed)
    BY <1>1 DEF scheduleVehicleRemoval
<1>3. Cardinality((myVehicleDict \cap departed) \ {v}) = Cardinality(myVehicleDict \cap departed) - 1
    BY <1>1, CountRemove
<1>4. Cardinality((built \ myVehicleDict) \cup {v}) = Cardinality(built \ myVehicleDict) + 1
    BY <1>1, CountAdd
<1> QED BY <1>2, <1>3, <1>4 DEF CountersAgree, scheduleVehicleRemoval

LEMMA CountersDiscard ==
    ASSUME IInv, CountersAgree, NEW v \in myVehicleDict \ departed,
           Discard(v), UNCHANGED <<built, departed>>
    PROVE  CountersAgree'
<1>1. myVehicleDict \subseteq built /\ built \subseteq Veh BY DEF IInv, TypeOK, ControlType
<1>2. /\ (myVehicleDict \cap departed)' = myVehicleDict \cap departed
      /\ (built \ myVehicleDict)' = (built \ myVehicleDict) \cup {v}
      /\ (built \ (myVehicleDict \cup departed))' = (built \ (myVehicleDict \cup departed)) \cup {v}
    BY <1>1 DEF Discard
<1>3. Cardinality((built \ myVehicleDict) \cup {v}) = Cardinality(built \ myVehicleDict) + 1
    BY <1>1, CountAdd
<1>4. Cardinality((built \ (myVehicleDict \cup departed)) \cup {v})
          = Cardinality(built \ (myVehicleDict \cup departed)) + 1
    BY <1>1, CountAdd
<1> QED BY <1>2, <1>3, <1>4 DEF CountersAgree, Discard

LEMMA CountersDepart ==
    ASSUME IInv, CountersAgree, NEW v \in myVehicleDict \ departed,
           departed' = departed \cup {v}, myRunningVehNo' = myRunningVehNo + 1,
           UNCHANGED <<built, myVehicleDict, myLoadedVehNo, myEndedVehNo, myDiscarded>>
    PROVE  CountersAgree'
<1>1. myVehicleDict \subseteq built /\ built \subseteq Veh BY DEF IInv, TypeOK, ControlType
<1>2. /\ (myVehicleDict \cap departed)' = (myVehicleDict \cap departed) \cup {v}
      /\ (built \ (myVehicleDict \cup departed))' = built \ (myVehicleDict \cup departed)
    BY <1>1
<1>3. Cardinality((myVehicleDict \cap departed) \cup {v}) = Cardinality(myVehicleDict \cap departed) + 1
    BY <1>1, CountAdd
<1> QED BY <1>2, <1>3 DEF CountersAgree

LEMMA CountersUnchanged ==
    ASSUME CountersAgree, UNCHANGED <<built, myVehicleDict, departed, numbers>>
    PROVE  CountersAgree'
BY DEF CountersAgree, numbers

LEMMA CountersAdd ==
    ASSUME IInv, CountersAgree, NEW V \in SUBSET Veh, Build(V), AddVehicles(V)
    PROVE  CountersAgree'
<1>1. myVehicleDict \subseteq built /\ built \subseteq Veh /\ departed \subseteq built
    BY DEF IInv, TypeOK, ControlType
<1>2. /\ built' = built \cup V
      /\ (myVehicleDict \cap departed)' = myVehicleDict \cap departed
      /\ (built \ myVehicleDict)' = built \ myVehicleDict
      /\ (built \ (myVehicleDict \cup departed))' = built \ (myVehicleDict \cup departed)
    BY <1>1 DEF Build, AddVehicles
<1>3. Cardinality(built \cup V) = Cardinality(built) + Cardinality(V)
    BY <1>1, CountUnion DEF Build
<1> QED BY <1>2, <1>3 DEF CountersAgree, AddVehicles

LEMMA CountersBuildDiscarded ==
    ASSUME IInv, CountersAgree, NEW v \in Veh, BuildDiscarded(v)
    PROVE  CountersAgree'
<1>1. myVehicleDict \subseteq built /\ built \subseteq Veh /\ departed \subseteq built /\ v \notin built
    BY DEF IInv, TypeOK, ControlType, BuildDiscarded, Build
<1>2. /\ built' = built \cup {v}
      /\ (myVehicleDict \cap departed)' = myVehicleDict \cap departed
      /\ (built \ myVehicleDict)' = (built \ myVehicleDict) \cup {v}
      /\ (built \ (myVehicleDict \cup departed))' = (built \ (myVehicleDict \cup departed)) \cup {v}
    BY <1>1 DEF BuildDiscarded, Build
<1>3. /\ Cardinality(built \cup {v}) = Cardinality(built) + 1
      /\ Cardinality((built \ myVehicleDict) \cup {v}) = Cardinality(built \ myVehicleDict) + 1
      /\ Cardinality((built \ (myVehicleDict \cup departed)) \cup {v})
             = Cardinality(built \ (myVehicleDict \cup departed)) + 1
    BY <1>1, CountAdd
<1> QED BY <1>2, <1>3 DEF CountersAgree, BuildDiscarded

LEMMA CountersNext ==
    ASSUME IInv, CountersAgree, [Next]_vars
    PROVE  CountersAgree'
<1>1. ASSUME NEW v \in Veh, Command(v) PROVE CountersAgree'
    <2>1. v \in myVehicleDict BY <1>1 DEF Command
    <2>2. CASE RemoveDeparted(v) BY <2>1, <2>2, CountersLeave DEF RemoveDeparted, Leave
    <2>3. CASE RemoveUndeparted(v) BY <2>1, <2>3, CountersDiscard DEF RemoveUndeparted
    <2>4. CASE MoveTo(v)
        <3>1. CASE v \notin departed BY <2>1, <2>4, <3>1, CountersDepart DEF MoveTo
        <3>2. CASE v \in departed
            <4>1. departed' = departed /\ myRunningVehNo' = myRunningVehNo
                BY <2>4, <3>2 DEF MoveTo, IInv, TypeOK, NumberType
            <4> QED BY <2>4, <4>1, CountersUnchanged DEF MoveTo, numbers
        <3> QED BY <3>1, <3>2
    <2> QED BY <1>1, <2>2, <2>3, <2>4 DEF Command
<1>2. ASSUME NEW v \in Veh, ExecuteMove(v) \/ Collide(v) PROVE CountersAgree'
    <2>1. v \in myVehicleDict \cap departed
        BY <1>2, OnRoadDeparted DEF ExecuteMove, Collide, IInv, TodoPlaced
    <2>2. CASE Arrives(v) BY <2>1, <2>2, CountersLeave DEF Arrives, Leave
    <2>3. CASE StartTeleport(v) \/ ReachStop(v) \/ Stays(v) \/ Resume(v)
        BY <2>3, CountersUnchanged DEF StartTeleport, ReachStop, Stays, Resume, control
    <2> QED BY <1>2, <2>2, <2>3 DEF ExecuteMove, Collide
<1>3. ASSUME NEW v \in Veh, CloseVehicle(v) \/ EmitFlow(v) PROVE CountersAgree'
    <2>1. CASE BuildDiscarded(v) BY <2>1, CountersBuildDiscarded
    <2>2. ASSUME NEW V \in SUBSET Veh, Build(V), AddVehicles(V) PROVE CountersAgree'
        BY <2>2, CountersAdd
    <2>3. FlowVeh \subseteq Veh BY StepAssumption DEF StepAssumption
    <2>4. BuildDiscarded(v) \/ \E V \in SUBSET Veh : Build(V) /\ AddVehicles(V)
        <3>1. CASE CloseVehicle(v) BY <3>1 DEF CloseVehicle, LoadOne, LoadWithCopy
        <3>2. CASE EmitFlow(v) BY <3>2, <2>3 DEF EmitFlow, LoadOne
        <3> QED BY <1>3, <3>1, <3>2
    <2> QED BY <2>1, <2>2, <2>4
<1>4. ASSUME NEW v \in Veh, TryInsert(v) PROVE CountersAgree'
    <2>1. v \in myVehicleDict \ departed /\ v \notin onRoad
        <3>1. Entries(v) > 0 BY <1>4, EntryTypes DEF TryInsert, Entries, IInv
        <3> QED BY <3>1, PlacesOf DEF Bit
    <2>2. CASE Refuse(v) BY <2>2, CountersUnchanged DEF Refuse, control
    <2>3. CASE Inserted(v) BY <2>1, <2>3, CountersDepart DEF Inserted
    <2>4. CASE DiscardPending(v) BY <2>1, <2>4, CountersDiscard DEF DiscardPending
    <2> QED BY <1>4, <2>1, <2>2, <2>3, <2>4 DEF TryInsert, NotInserted
<1>5. ASSUME NEW v \in Veh, CheckInsertions(v) PROVE CountersAgree'
    <2>1. v \in myVehicleDict \cap departed
        BY <1>5, InTransferDeparted DEF CheckInsertions, IInv, TodoPlaced
    <2>2. CASE TeleportBeyondArrival(v)
        BY <2>1, <2>2, CountersLeave DEF TeleportBeyondArrival, Leave
    <2>3. CASE HandleParking(v) \/ EndTeleport(v) \/ KeepTeleporting(v)
        BY <2>3, CountersUnchanged DEF HandleParking, EndTeleport, KeepTeleporting, control
    <2> QED BY <1>5, <2>2, <2>3 DEF CheckInsertions
<1>6. ASSUME UNCHANGED <<control, numbers>> PROVE CountersAgree'
    BY <1>6, CountersUnchanged DEF control
<1>7. CASE UNCHANGED vars BY <1>6, <1>7 DEF vars
<1>8. CASE (\E v \in Veh : BoardTriggered(v)) \/ CheckCandidates \/ EndEmit
    BY <1>6, <1>8 DEF BoardTriggered, CheckCandidates, EndEmit
<1>9. CASE BeginMove \/ EndMove \/ EndLoad \/ EndPersons \/ EndStep \/ Close \/ Stopped
    BY <1>6, <1>9 DEF BeginMove, EndMove, EndLoad, EndPersons, EndStep, Close, Stopped, vars
<1> QED BY <1>1, <1>2, <1>3, <1>4, <1>5, <1>7, <1>8, <1>9 DEF Next

\* MSVehicleControl's numbers of loaded, running, ended and discarded vehicles
\* are the numbers of the vehicles of which their names tell.
THEOREM StepCountersAgree == ASSUME SafeEnvironment PROVE Spec => []CountersAgree
<1>1. Init => IInv /\ CountersAgree BY PlacesInit, CountersInit
<1>2. IInv /\ CountersAgree /\ [Next]_vars => IInv' /\ CountersAgree'
    BY PlacesNext, CountersNext
<1> QED BY <1>1, <1>2, PTL DEF Spec

-----------------------------------------------------------------------------
(* The number of vehicles registered as waiting, and the refinement.         *)

WaitingCounted == myWaitingForPerson = Cardinality(Registered)

\* Whether v is registered as waiting for a person.
IsRegistered(v) == WaitsToDepart(v) \/ stop[v] \in {"registered", "full"}

LEMMA RegisteredSubset == Registered \subseteq Veh
BY DEF Registered

\* One vehicle changes its situation; every other one keeps its registration.
LEMMA WaitingStep ==
    ASSUME WaitingCounted, NEW v \in Veh,
           \A u \in Veh \ {v} : IsRegistered(u)' <=> IsRegistered(u),
           myWaitingForPerson' = myWaitingForPerson + Bit(IsRegistered(v)') - Bit(IsRegistered(v))
    PROVE  WaitingCounted'
<1>1. Registered \subseteq Veh /\ Registered' \subseteq Veh BY DEF Registered
<1>2. \A u \in Veh : (u \in Registered <=> IsRegistered(u)) /\ (u \in Registered' <=> IsRegistered(u)')
    BY DEF Registered, IsRegistered
<1>3. Cardinality(Registered) \in Nat BY <1>1, CardinalityOfVehicles
<1>4. CASE IsRegistered(v)' <=> IsRegistered(v)
    <2>1. Registered' = Registered BY <1>1, <1>2, <1>4
    <2> QED BY <1>3, <1>4, <2>1 DEF WaitingCounted, Bit
<1>5. CASE IsRegistered(v)' /\ ~IsRegistered(v)
    <2>1. Registered' = Registered \cup {v} BY <1>1, <1>2, <1>5
    <2>2. Cardinality(Registered \cup {v}) = Cardinality(Registered) + 1
        BY <1>1, <1>2, <1>5, CountAdd
    <2> QED BY <1>3, <1>5, <2>1, <2>2 DEF WaitingCounted, Bit
<1>6. CASE ~IsRegistered(v)' /\ IsRegistered(v)
    <2>1. Registered' = Registered \ {v} BY <1>1, <1>2, <1>6
    <2>2. Cardinality(Registered \ {v}) = Cardinality(Registered) - 1
        BY <1>1, <1>2, <1>6, CountRemove
    <2> QED BY <1>3, <1>6, <2>1, <2>2 DEF WaitingCounted, Bit
<1> QED BY <1>4, <1>5, <1>6

LEMMA WaitingUnchanged ==
    ASSUME WaitingCounted, UNCHANGED <<myVehicleDict, departed, stop, myWaiting, myWaitingForPerson>>
    PROVE  WaitingCounted'
BY DEF WaitingCounted, Registered, WaitsToDepart

\* A departed vehicle that resumes or leaves gives up its registration.
LEMMA WaitingResume ==
    ASSUME IInv, WaitingCounted, NEW v \in myVehicleDict \cap departed, resumeFromStopping(v),
           UNCHANGED departed, myVehicleDict' \in {myVehicleDict, myVehicleDict \ {v}}
    PROVE  WaitingCounted'
<1>1. v \in Veh BY DEF IInv, TypeOK, ControlType
<1>2. ~IsRegistered(v)'
    BY <1>1 DEF IsRegistered, WaitsToDepart, resumeFromStopping, IInv, TypeOK, TrafficType
<1>3. \A u \in Veh \ {v} : IsRegistered(u)' <=> IsRegistered(u)
    BY DEF IsRegistered, WaitsToDepart, resumeFromStopping, IInv, TypeOK, TrafficType
<1>4. Registrations(v) = Bit(IsRegistered(v))
    BY DEF Registrations, Bit, IsRegistered, WaitsToDepart
<1>5. myWaitingForPerson' = myWaitingForPerson + Bit(IsRegistered(v)') - Bit(IsRegistered(v))
    BY <1>2, <1>4 DEF resumeFromStopping, Bit, IInv, TypeOK, NumberType
<1> QED BY <1>1, <1>3, <1>5, WaitingStep

\* A departed vehicle processes its stop.
LEMMA WaitingProcessNextStop ==
    ASSUME IInv, WaitingCounted, NEW v \in myVehicleDict \cap departed, ProcessNextStop(v),
           UNCHANGED <<myVehicleDict, departed, myWaiting>>
    PROVE  WaitingCounted'
<1>1. v \in Veh BY DEF IInv, TypeOK, ControlType
<1>2. \A u \in Veh \ {v} : IsRegistered(u)' <=> IsRegistered(u)
    BY DEF IsRegistered, WaitsToDepart, ProcessNextStop, RegisterWaiting, PersonsBoard,
           IInv, TypeOK, TrafficType
<1>3. myWaitingForPerson' = myWaitingForPerson + Bit(IsRegistered(v)') - Bit(IsRegistered(v))
    BY <1>1 DEF ProcessNextStop, RegisterWaiting, PersonsBoard, Registrations, Bit, IsRegistered,
                WaitsToDepart, IInv, TypeOK, TrafficType, NumberType
<1> QED BY <1>1, <1>2, <1>3, WaitingStep

\* The loaded vehicles that wait for a person are registered.
LEMMA WaitingAdd ==
    ASSUME IInv, WaitingCounted, NEW V \in SUBSET Veh, Build(V), AddVehicles(V)
    PROVE  WaitingCounted'
<1>1. \A u \in V : u \notin myVehicleDict /\ u \notin departed /\ stop[u] = "none" /\ u \notin myWaiting
    BY PlacesOf DEF Build, IInv, TypeOK, ControlType
<1>2. Registered' = Registered \cup (V \cap Triggered)
    BY <1>1 DEF Registered, WaitsToDepart, AddVehicles
<1>3. Registered \cap (V \cap Triggered) = {} BY <1>1 DEF Registered, WaitsToDepart
<1>4. Cardinality(Registered \cup (V \cap Triggered))
          = Cardinality(Registered) + Cardinality(V \cap Triggered)
    BY <1>3, RegisteredSubset, CountUnion
<1> QED BY <1>2, <1>4 DEF WaitingCounted, AddVehicles

LEMMA WaitingNext ==
    ASSUME SafeEnvironment, IInv, WaitingCounted, [Next]_vars
    PROVE  WaitingCounted'
<1>1. ASSUME NEW v \in Veh, Command(v) PROVE WaitingCounted'
    <2>1. v \in myVehicleDict /\ v \notin Triggered BY <1>1 DEF Command, SafeEnvironment
    <2>2. CASE RemoveDeparted(v)
        BY <2>1, <2>2, WaitingResume DEF RemoveDeparted, Leave, scheduleVehicleRemoval
    <2>3. CASE RemoveUndeparted(v)
        <3>1. ~WaitsToDepart(v) BY <2>1 DEF WaitsToDepart, IInv, Listed
        <3>2. Registered' = Registered
            BY <2>3, <3>1 DEF Registered, WaitsToDepart, RemoveUndeparted, Discard, traffic
        <3> QED BY <2>3, <3>2 DEF WaitingCounted, RemoveUndeparted, traffic
    <2>4. CASE MoveTo(v)
        <3>1. CASE v \in departed
            <4>1. departed' = departed BY <2>4, <3>1 DEF MoveTo
            <4> QED BY <2>1, <2>4, <3>1, <4>1, WaitingResume DEF MoveTo
        <3>2. CASE v \notin departed
            <4>1. stop[v] = "none" /\ v \notin myWaiting BY <2>1, <3>2 DEF IInv, Listed
            <4>2. ~IsRegistered(v) BY <4>1 DEF IsRegistered, WaitsToDepart
            <4>3. ~IsRegistered(v)'
                BY <2>4 DEF IsRegistered, WaitsToDepart, MoveTo, resumeFromStopping,
                            IInv, TypeOK, TrafficType
            <4>4. \A u \in Veh \ {v} : IsRegistered(u)' <=> IsRegistered(u)
                BY <2>4 DEF IsRegistered, WaitsToDepart, MoveTo, resumeFromStopping,
                            IInv, TypeOK, TrafficType
            <4>5. myWaitingForPerson' = myWaitingForPerson
                BY <2>4, <4>1 DEF MoveTo, resumeFromStopping, Registrations, IInv, TypeOK, NumberType
            <4> QED BY <4>2, <4>3, <4>4, <4>5, WaitingStep DEF Bit, IInv, TypeOK, NumberType
        <3> QED BY <3>1, <3>2
    <2> QED BY <1>1, <2>2, <2>3, <2>4 DEF Command
<1>2. ASSUME NEW v \in Veh, BoardTriggered(v) PROVE WaitingCounted'
    <2>1. IsRegistered(v) /\ ~IsRegistered(v)'
        BY <1>2 DEF BoardTriggered, control, IsRegistered, WaitsToDepart, IInv, Listed
    <2>2. \A u \in Veh \ {v} : IsRegistered(u)' <=> IsRegistered(u)
        BY <1>2 DEF BoardTriggered, control, IsRegistered, WaitsToDepart
    <2> QED BY <1>2, <2>1, <2>2, WaitingStep DEF BoardTriggered, Bit, IInv, TypeOK, NumberType
<1>3. ASSUME NEW v \in Veh, ExecuteMove(v) \/ Collide(v) PROVE WaitingCounted'
    <2>1. v \in myVehicleDict \cap departed
        BY <1>3, OnRoadDeparted DEF ExecuteMove, Collide, IInv, TodoPlaced
    <2>2. CASE Arrives(v) \/ StartTeleport(v) \/ Resume(v)
        BY <2>1, <2>2, WaitingResume
        DEF Arrives, StartTeleport, Resume, Leave, scheduleVehicleRemoval, control
    <2>3. CASE ReachStop(v)
        <3>1. \A u \in Veh : IsRegistered(u)' <=> IsRegistered(u)
            BY <2>1, <2>3 DEF ReachStop, control, IsRegistered, WaitsToDepart, IInv, TypeOK, TrafficType
        <3> QED BY <2>3, <3>1, WaitingStep DEF ReachStop, Bit, IInv, TypeOK, NumberType
    <2>4. CASE Stays(v) BY <2>1, <2>4, WaitingProcessNextStop DEF Stays, control
    <2> QED BY <1>3, <2>2, <2>3, <2>4 DEF ExecuteMove, Collide
<1>4. ASSUME NEW v \in Veh, CloseVehicle(v) \/ EmitFlow(v) PROVE WaitingCounted'
    <2>1. CASE BuildDiscarded(v) BY <2>1, WaitingUnchanged DEF BuildDiscarded, traffic
    <2>2. ASSUME NEW V \in SUBSET Veh, Build(V), AddVehicles(V) PROVE WaitingCounted'
        BY <2>2, WaitingAdd
    <2>3. FlowVeh \subseteq Veh BY StepAssumption DEF StepAssumption
    <2>4. BuildDiscarded(v) \/ \E V \in SUBSET Veh : Build(V) /\ AddVehicles(V)
        <3>1. CASE CloseVehicle(v) BY <3>1 DEF CloseVehicle, LoadOne, LoadWithCopy
        <3>2. CASE EmitFlow(v) BY <3>2, <2>3 DEF EmitFlow, LoadOne
        <3> QED BY <1>4, <3>1, <3>2
    <2> QED BY <2>1, <2>2, <2>4
<1>5. ASSUME NEW v \in Veh, TryInsert(v) PROVE WaitingCounted'
    <2>1. v \notin myWaiting /\ v \notin onRoad
        <3>1. Entries(v) > 0 BY <1>5, EntryTypes DEF TryInsert, Entries, IInv
        <3> QED BY <3>1, PlacesOf DEF Bit
    <2>2. Refuse(v) \/ Inserted(v) \/ DiscardPending(v) BY <1>5, <2>1 DEF TryInsert, NotInserted
    <2>3. UNCHANGED <<stop, myWaiting, myWaitingForPerson>>
        BY <2>2 DEF Refuse, Inserted, DiscardPending, traffic
    <2>4. Registered' = Registered
        BY <2>1, <2>2, <2>3
        DEF Registered, WaitsToDepart, Refuse, Inserted, DiscardPending, Discard, control
    <2> QED BY <2>3, <2>4 DEF WaitingCounted
<1>6. ASSUME NEW v \in Veh, CheckInsertions(v) PROVE WaitingCounted'
    <2>1. v \in myVehicleDict \cap departed
        BY <1>6, InTransferDeparted DEF CheckInsertions, IInv, TodoPlaced
    <2>2. CASE TeleportBeyondArrival(v)
        BY <2>1, <2>2, WaitingResume DEF TeleportBeyondArrival, Leave, scheduleVehicleRemoval
    <2>3. CASE HandleParking(v) /\ ProcessNextStop(v)
        BY <2>1, <2>3, WaitingProcessNextStop DEF HandleParking, control
    <2>4. CASE \/ HandleParking(v) /\ UNCHANGED <<stop, myWaitingForPerson>>
               \/ EndTeleport(v) \/ KeepTeleporting(v)
        BY <2>4, WaitingUnchanged DEF HandleParking, EndTeleport, KeepTeleporting, control, traffic
    <2> QED BY <1>6, <2>2, <2>3, <2>4 DEF CheckInsertions, HandleParking
<1>7. ASSUME UNCHANGED <<control, traffic>> PROVE WaitingCounted'
    BY <1>7, WaitingUnchanged DEF control, traffic
<1>8. CASE UNCHANGED vars \/ CheckCandidates \/ EndEmit
    BY <1>7, <1>8 DEF CheckCandidates, EndEmit, vars
<1>9. CASE BeginMove \/ EndMove \/ EndLoad \/ EndPersons \/ EndStep \/ Close \/ Stopped
    BY <1>7, <1>9 DEF BeginMove, EndMove, EndLoad, EndPersons, EndStep, Close, Stopped, vars
<1> QED BY <1>1, <1>2, <1>3, <1>4, <1>5, <1>6, <1>8, <1>9 DEF Next

LEMMA WaitingInit == Init => WaitingCounted
<1> SUFFICES ASSUME Init PROVE WaitingCounted
    OBVIOUS
<1>1. Registered = {} BY DEF Init, Registered, WaitsToDepart
<1> QED BY <1>1, FS_EmptySet DEF Init, WaitingCounted

LEMMA WaitingInvariant == ASSUME SafeEnvironment PROVE Spec => [](IInv /\ WaitingCounted)
<1>1. Init => IInv /\ WaitingCounted BY PlacesInit, WaitingInit
<1>2. IInv /\ WaitingCounted /\ [Next]_vars => IInv' /\ WaitingCounted'
    BY PlacesNext, WaitingNext
<1> QED BY <1>1, <1>2, PTL DEF Spec

\* registerOneWaiting and unregisterOneWaiting balance: the counter is the
\* number of vehicles that wait, and myWaiting holds no vehicle it should not.
THEOREM StepWaitingAgrees == ASSUME SafeEnvironment PROVE Spec => []WaitingAgrees
<1>1. IInv /\ WaitingCounted => WaitingAgrees BY DEF IInv, WaitingCounted, WaitingAgrees
<1> QED BY <1>1, WaitingInvariant, PTL

-----------------------------------------------------------------------------
(* The step loop implements the life cycle.                                  *)

EndedAtBegin == ended => phase = "begin"

Inv == IInv /\ CountersAgree /\ WaitingCounted /\ EndedAtBegin

LEMMA EndedInit == Init => EndedAtBegin
BY DEF Init, EndedAtBegin

\* Every step but the last leaves the run going, and is not taken after it.
LEMMA EndedNext ==
    ASSUME EndedAtBegin, [Next]_vars
    PROVE  /\ EndedAtBegin'
           /\ UNCHANGED vars \/ Close \/ (~ended /\ ~ended')
<1> USE DEF EndedAtBegin
<1>1. CASE UNCHANGED vars BY <1>1 DEF vars, steps
<1>2. ASSUME NEW v \in Veh,
             \/ Command(v) \/ BoardTriggered(v) \/ CloseVehicle(v) \/ EmitFlow(v)
             \/ TryInsert(v)
      PROVE  ~ended /\ UNCHANGED steps
    BY <1>2 DEF Command, BoardTriggered, CloseVehicle, EmitFlow, TryInsert
<1>3. ASSUME NEW v \in Veh, ExecuteMove(v) \/ Collide(v) \/ CheckInsertions(v)
      PROVE  ~ended /\ UNCHANGED ended
    BY <1>3 DEF ExecuteMove, Collide, CheckInsertions
<1>4. CASE BeginMove \/ EndMove \/ EndLoad \/ EndPersons \/ CheckCandidates \/ EndEmit \/ EndStep
    BY <1>4 DEF BeginMove, EndMove, EndLoad, EndPersons, CheckCandidates, EndEmit, EndStep
<1>5. CASE Close BY <1>5 DEF Close
<1>6. CASE Stopped BY <1>1, <1>6 DEF Stopped
<1> QED BY <1>1, <1>2, <1>3, <1>4, <1>5, <1>6 DEF Next, steps

\* How the sets that make up the life of a vehicle may change.
LifeStep ==
    /\ built \subseteq built' /\ departed \subseteq departed'
    /\ myVehicleDict' \cap built \subseteq myVehicleDict
    /\ departed' \ departed \subseteq myVehicleDict \cap myVehicleDict'

LEMMA LifeStepAdd ==
    ASSUME NEW V \in SUBSET Veh, Build(V), AddVehicles(V)
    PROVE  LifeStep
BY DEF Build, AddVehicles, LifeStep

LEMMA LifeStepNext ==
    ASSUME IInv, [Next]_vars
    PROVE  LifeStep
<1> USE DEF LifeStep
<1>1. ASSUME NEW v \in Veh, Command(v) PROVE LifeStep
    BY <1>1 DEF Command, RemoveDeparted, RemoveUndeparted, MoveTo, Leave, scheduleVehicleRemoval, Discard
<1>2. ASSUME NEW v \in Veh, ExecuteMove(v) \/ Collide(v) PROVE LifeStep
    BY <1>2 DEF ExecuteMove, Collide, Arrives, StartTeleport, ReachStop, Stays, Resume, Leave,
                scheduleVehicleRemoval, control
<1>3. ASSUME NEW v \in Veh, CloseVehicle(v) \/ EmitFlow(v) PROVE LifeStep
    <2>1. CASE BuildDiscarded(v) BY <2>1 DEF BuildDiscarded, Build
    <2>2. FlowVeh \subseteq Veh BY StepAssumption DEF StepAssumption
    <2>3. BuildDiscarded(v) \/ \E V \in SUBSET Veh : Build(V) /\ AddVehicles(V)
        <3>1. CASE CloseVehicle(v) BY <3>1 DEF CloseVehicle, LoadOne, LoadWithCopy
        <3>2. CASE EmitFlow(v) BY <3>2, <2>2 DEF EmitFlow, LoadOne
        <3> QED BY <1>3, <3>1, <3>2
    <2> QED BY <2>1, <2>3, LifeStepAdd
<1>4. ASSUME NEW v \in Veh, TryInsert(v) PROVE LifeStep
    <2>1. v \in myVehicleDict /\ v \notin onRoad
        <3>1. Entries(v) > 0 BY <1>4, EntryTypes DEF TryInsert, Entries, IInv
        <3> QED BY <3>1, PlacesOf DEF Bit
    <2>2. Refuse(v) \/ Inserted(v) \/ DiscardPending(v) BY <1>4, <2>1 DEF TryInsert, NotInserted
    <2> QED BY <2>1, <2>2 DEF Refuse, Inserted, DiscardPending, Discard, control
<1>5. ASSUME NEW v \in Veh, CheckInsertions(v) PROVE LifeStep
    BY <1>5 DEF CheckInsertions, HandleParking, EndTeleport, KeepTeleporting,
                TeleportBeyondArrival, Leave, scheduleVehicleRemoval, control
<1>6. ASSUME UNCHANGED control PROVE LifeStep BY <1>6 DEF control
<1>7. CASE \/ UNCHANGED vars \/ CheckCandidates \/ EndEmit
           \/ \E v \in Veh : BoardTriggered(v)
    BY <1>6, <1>7 DEF CheckCandidates, EndEmit, BoardTriggered, vars
<1>8. CASE BeginMove \/ EndMove \/ EndLoad \/ EndPersons \/ EndStep \/ Close \/ Stopped
    BY <1>6, <1>8 DEF BeginMove, EndMove, EndLoad, EndPersons, EndStep, Close, Stopped, vars
<1> QED BY <1>1, <1>2, <1>3, <1>4, <1>5, <1>7, <1>8 DEF Next

\* Each change of a vehicle's life is a progress of the abstract life cycle.
LEMMA LifeProgress ==
    ASSUME IInv, IInv', LifeStep, NEW v \in Veh, Life(v)' # Life(v)
    PROVE  <<Life(v), Life(v)'>> \in Lifecycle!Progress
<1>1. /\ myVehicleDict \subseteq built /\ departed \subseteq built
      /\ myVehicleDict' \subseteq built' /\ departed' \subseteq built'
    BY DEF IInv, TypeOK, ControlType
<1> QED BY <1>1 DEF LifeStep, Life, Lifecycle!Progress

\* The vehicles present are those MSVehicleControl knows.
LEMMA PresentIsDict ==
    ASSUME IInv
    PROVE  Lifecycle!Present = myVehicleDict /\ Registered \subseteq myVehicleDict
<1>1. myVehicleDict \subseteq built /\ myVehicleDict \subseteq Veh BY DEF IInv, TypeOK, ControlType
<1>2. Lifecycle!Present = myVehicleDict BY <1>1 DEF Lifecycle!Present, Life
<1>3. Registered \subseteq myVehicleDict BY DEF IInv, Listed, Registered, WaitsToDepart
<1> QED BY <1>2, <1>3

LEMMA WaitsArePresent ==
    ASSUME IInv'
    PROVE  Registered' \subseteq (Lifecycle!Present)'
<1>1. myVehicleDict' \subseteq built' /\ myVehicleDict' \subseteq Veh
    BY DEF IInv, TypeOK, ControlType
<1>2. (Lifecycle!Present)' = myVehicleDict' BY <1>1 DEF Lifecycle!Present, Life
<1>3. Registered' \subseteq myVehicleDict' BY DEF IInv, Listed, Registered, WaitsToDepart
<1> QED BY <1>2, <1>3

LEMMA LifecycleInit == Init => Lifecycle!Init
<1> SUFFICES ASSUME Init PROVE Lifecycle!Init
    OBVIOUS
<1>1. Registered = {} BY DEF Init, Registered, WaitsToDepart
<1>2. \A v \in Veh : Life(v) = "unbuilt" BY DEF Init, Life
<1> QED BY <1>1, <1>2 DEF Init, Lifecycle!Init

\* When getActiveVehicleCount is zero every vehicle that exists is registered.
LEMMA NoneActive ==
    ASSUME Inv, getActiveVehicleCount = 0
    PROVE  Registered = myVehicleDict
<1>1. myVehicleDict \subseteq built /\ built \subseteq Veh /\ Registered \subseteq myVehicleDict
    BY PresentIsDict DEF Inv, IInv, TypeOK, ControlType
<1>2. Cardinality(built \ myVehicleDict) = Cardinality(built) - Cardinality(myVehicleDict)
    <2>1. built \cap myVehicleDict = myVehicleDict BY <1>1
    <2> QED BY <1>1, <2>1, CardinalityOfVehicles, FS_Difference
<1>3. IsFiniteSet(myVehicleDict) /\ \A S \in SUBSET Veh : Cardinality(S) \in Nat
    BY <1>1, CardinalityOfVehicles
<1>4. Cardinality(Registered) = Cardinality(myVehicleDict)
    BY <1>1, <1>2, <1>3 DEF Inv, CountersAgree, WaitingCounted, getActiveVehicleCount
<1> QED BY <1>1, <1>3, <1>4, FS_Subset

LEMMA LifecycleNext ==
    ASSUME Inv, Inv', [Next]_vars
    PROVE  [Lifecycle!Next]_(Lifecycle!vars)
<1>1. CASE UNCHANGED vars
    <2>1. Registered' = Registered
        BY <1>1 DEF vars, control, traffic, Registered, WaitsToDepart
    <2>2. \A v \in Veh : Life(v)' = Life(v) BY <1>1 DEF vars, control, traffic, Life
    <2> QED BY <1>1, <2>1, <2>2 DEF Lifecycle!vars, vars, steps
<1>2. CASE Close
    <2>1. Registered' = Registered
        BY <1>2 DEF Close, control, traffic, Registered, WaitsToDepart
    <2>2. \A v \in Veh : Life(v)' = Life(v) BY <1>2 DEF Close, control, traffic, Life
    <2>3. Lifecycle!Present \subseteq Registered
        BY <1>2, NoneActive, PresentIsDict DEF Close, Inv
    <2>4. Lifecycle!End BY <1>2, <2>1, <2>2, <2>3 DEF Lifecycle!End, Close
    <2> QED BY <2>4 DEF Lifecycle!Next
<1>3. CASE ~ended /\ ~ended'
    <2>1. LifeStep BY LifeStepNext DEF Inv
    <2>2. \A v \in Veh : Life(v)' # Life(v) => <<Life(v), Life(v)'>> \in Lifecycle!Progress
        BY <2>1, LifeProgress DEF Inv
    <2>3. Registered' \subseteq (Lifecycle!Present)'
        BY WaitsArePresent DEF Inv
    <2>4. [v \in Veh |-> Life(v)'] \in [Veh -> Lifecycle!Stage]
        BY DEF Life, Lifecycle!Stage
    <2>5. ended' = ended BY <1>3 DEF Inv, IInv, TypeOK, ModeType
    <2>6. Lifecycle!Advance
        BY <1>3, <2>2, <2>3, <2>4, <2>5 DEF Lifecycle!Advance
    <2> QED BY <2>6 DEF Lifecycle!Next
<1> QED BY <1>1, <1>2, <1>3, EndedNext DEF Inv

\* The step loop implements VehicleLifecycle: through all queues, transfers
\* and deletions a vehicle departs at most once and leaves at most once, and
\* the end is reported only when each remaining vehicle waits for a person.
THEOREM StepImplementsLifecycle == ASSUME SafeEnvironment PROVE Spec => LifecycleSpec
<1>1. Init => Inv BY PlacesInit, CountersInit, WaitingInit, EndedInit DEF Inv
<1>2. Inv /\ [Next]_vars => Inv'
    BY PlacesNext, CountersNext, WaitingNext, EndedNext DEF Inv
<1>3. Inv /\ Inv' /\ [Next]_vars => [Lifecycle!Next]_(Lifecycle!vars) BY LifecycleNext
<1> QED BY <1>1, <1>2, <1>3, LifecycleInit, PTL DEF Spec, LifecycleSpec, Lifecycle!Spec
=============================================================================
