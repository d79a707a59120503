------------------------ MODULE SimulationStep_proof ------------------------
(* Theorems about SimulationStep, for all values of its constants.           *)
EXTENDS SimulationStep, FiniteSetTheorems, TLAPS

\* Counting vehicles gives a number.
LEMMA CardinalityOfVehicles ==
    ASSUME NEW S \in SUBSET Veh
    PROVE  IsFiniteSet(S) /\ Cardinality(S) \in Nat
BY StepAssumption, FS_Subset, FS_CardinalityType DEF StepAssumption

\* The departures of the flow are points in time.
LEMMA FlowDepartType ==
    ASSUME NEW k \in Nat
    PROVE  FlowDepart(k) \in Nat
BY StepAssumption DEF FlowDepart, StepAssumption

-----------------------------------------------------------------------------
(* Type correctness. *)

LEMMA TypeInit == Init => TypeOK
<1> SUFFICES ASSUME Init PROVE TypeOK
    OBVIOUS
<1> USE StepAssumption DEF Init, StepAssumption
<1>1. StepType BY DEF StepType, Phase
<1>2. ModeType BY DEF ModeType
<1>3. ControlType BY DEF ControlType, NoDepart
<1>4. TrafficType BY DEF TrafficType, StopState, TransferState
<1>5. NumberType BY DEF NumberType
<1>6. InserterType BY DEF InserterType, NoEntry
<1> QED BY <1>1, <1>2, <1>3, <1>4, <1>5, <1>6 DEF TypeOK

\* The actions that move the step from one phase to the next.
LEMMA TypePhases ==
    ASSUME TypeOK,
           \/ BeginMove \/ EndMove \/ EndLoad \/ EndPersons
           \/ EndEmit \/ EndStep \/ Close \/ Stopped
    PROVE  TypeOK'
<1> USE DEF TypeOK, BeginMove, EndMove, EndLoad, EndPersons, EndEmit, EndStep, Close, Stopped,
            vars, steps
<1>1. StepType' BY DEF StepType, Phase, TrafficType
<1>2. ModeType' BY DEF ModeType
<1>3. ControlType' BY DEF ControlType, control
<1>4. TrafficType' BY DEF TrafficType, traffic
<1>5. NumberType' BY DEF NumberType, numbers, TrafficType, traffic
<1>6. InserterType' BY DEF InserterType, inserter, NoEntry
<1> QED BY <1>1, <1>2, <1>3, <1>4, <1>5, <1>6

LEMMA TypeResume ==
    ASSUME TypeOK, NEW v \in Veh, resumeFromStopping(v)
    PROVE  /\ stop' \in [Veh -> StopState]
           /\ myWaiting' \subseteq Veh
           /\ myWaitingForPerson' \in Int
BY DEF TypeOK, TrafficType, NumberType, resumeFromStopping, Registrations, StopState

LEMMA TypeLeave ==
    ASSUME TypeOK, NEW v \in Veh, Leave(v), UNCHANGED repetitionsDone
    PROVE  ControlType' /\ TrafficType' /\ NumberType'
<1> USE TypeResume DEF TypeOK, Leave, scheduleVehicleRemoval
<1>1. ControlType' BY DEF ControlType
<1>2. TrafficType' BY DEF TrafficType, TransferState
<1>3. NumberType' BY DEF NumberType
<1> QED BY <1>1, <1>2, <1>3

LEMMA TypeCommand ==
    ASSUME TypeOK, NEW v \in Veh, Command(v)
    PROVE  TypeOK'
<1> USE DEF TypeOK, Command
<1>1. StepType' /\ ModeType' BY DEF StepType, ModeType, steps
<1>2. CASE RemoveDeparted(v)
    BY <1>1, <1>2, TypeLeave DEF RemoveDeparted, InserterType, inserter, steps, ControlType
<1>3. CASE RemoveUndeparted(v)
    <2> USE <1>3 DEF RemoveUndeparted, Discard
    <2>1. ControlType' BY DEF ControlType
    <2>2. TrafficType' /\ NumberType' BY DEF TrafficType, NumberType, traffic
    <2>3. InserterType' BY DEF AlreadyDeparted, InserterType, NoEntry, steps
    <2> QED BY <1>1, <2>1, <2>2, <2>3
<1>4. CASE MoveTo(v)
    <2> USE <1>4 DEF MoveTo
    <2>1. ControlType' BY DEF ControlType
    <2>2. TrafficType' /\ NumberType' BY TypeResume DEF TrafficType, NumberType, TransferState
    <2>3. InserterType' BY DEF AlreadyDeparted, InserterType, NoEntry, steps
    <2> QED BY <1>1, <2>1, <2>2, <2>3
<1> QED BY <1>2, <1>3, <1>4

LEMMA TypeBoardTriggered ==
    ASSUME TypeOK, NEW v \in Veh, BoardTriggered(v)
    PROVE  TypeOK'
<1> USE DEF TypeOK, BoardTriggered
<1>1. StepType' /\ ModeType' BY DEF StepType, ModeType, steps
<1>2. ControlType' BY DEF ControlType, control
<1>3. TrafficType' /\ NumberType' BY DEF TrafficType, NumberType, numbers
<1>4. InserterType' BY DEF InserterType, NoEntry, steps
<1> QED BY <1>1, <1>2, <1>3, <1>4

\* Arrival and teleporting, whose outcome ExecuteMove and Collide share.
LEMMA TypeStartTeleport ==
    ASSUME TypeOK, NEW v \in Veh, StartTeleport(v), UNCHANGED repetitionsDone
    PROVE  ControlType' /\ TrafficType' /\ NumberType'
<1> USE DEF TypeOK, StartTeleport
<1>1. ControlType' BY DEF ControlType, control
<1>2. TrafficType' /\ NumberType'
    BY TypeResume DEF TrafficType, NumberType, TransferState, numbers
<1> QED BY <1>1, <1>2

LEMMA TypeProcessNextStop ==
    ASSUME TypeOK, NEW v \in Veh, ProcessNextStop(v)
    PROVE  stop' \in [Veh -> StopState] /\ myWaitingForPerson' \in Int
BY DEF TypeOK, TrafficType, NumberType, ProcessNextStop, RegisterWaiting, PersonsBoard,
       Registrations, StopState

LEMMA TypeExecuteMove ==
    ASSUME TypeOK, NEW v \in Veh, ExecuteMove(v)
    PROVE  TypeOK'
<1> USE DEF TypeOK, ExecuteMove
<1>1. StepType' /\ ModeType' BY DEF StepType, ModeType
<1>2. InserterType' BY DEF InserterType, inserter, NoEntry
<1>3. CASE Arrives(v) BY <1>1, <1>2, <1>3, TypeLeave DEF Arrives
<1>4. CASE StartTeleport(v) BY <1>1, <1>2, <1>4, TypeStartTeleport
<1>5. CASE ReachStop(v)
    BY <1>1, <1>2, <1>5
    DEF ReachStop, ControlType, TrafficType, NumberType, control, numbers, StopState, TransferState
<1>6. CASE Stays(v)
    BY <1>1, <1>2, <1>6, TypeProcessNextStop
    DEF Stays, ControlType, TrafficType, NumberType, control, numbers
<1>7. CASE Resume(v)
    BY <1>1, <1>2, <1>7, TypeResume
    DEF Resume, ControlType, TrafficType, NumberType, control, numbers
<1> QED BY <1>3, <1>4, <1>5, <1>6, <1>7

LEMMA TypeCollide ==
    ASSUME TypeOK, NEW v \in Veh, Collide(v)
    PROVE  TypeOK'
<1> USE DEF TypeOK, Collide
<1>1. StepType' /\ ModeType' BY DEF StepType, ModeType
<1>2. InserterType' BY DEF InserterType, inserter, NoEntry
<1>3. CASE Arrives(v) BY <1>1, <1>2, <1>3, TypeLeave DEF Arrives, ControlType
<1>4. CASE StartTeleport(v) BY <1>1, <1>2, <1>4, TypeStartTeleport
<1> QED BY <1>3, <1>4

\* A set of vehicles that is built and added.
LEMMA TypeAddVehicles ==
    ASSUME TypeOK, NEW V \in SUBSET Veh, Build(V), AddVehicles(V)
    PROVE  /\ built' \subseteq Veh /\ myVehicleDict' \subseteq built' /\ departed' \subseteq Veh
           /\ TrafficType' /\ NumberType'
<1>1. Cardinality(V) \in Nat /\ Cardinality(V \cap Triggered) \in Nat
    BY CardinalityOfVehicles
<1> USE DEF TypeOK, Build, AddVehicles
<1>2. built' \subseteq Veh /\ myVehicleDict' \subseteq built' /\ departed' \subseteq Veh
    BY DEF ControlType
<1>3. TrafficType' BY DEF TrafficType
<1>4. NumberType' BY <1>1 DEF NumberType
<1> QED BY <1>2, <1>3, <1>4

LEMMA TypeBuildDiscarded ==
    ASSUME TypeOK, NEW v \in Veh, BuildDiscarded(v)
    PROVE  /\ built' \subseteq Veh /\ myVehicleDict' \subseteq built' /\ departed' \subseteq Veh
           /\ depart' \in [Veh -> Nat \cup {NoDepart}]
           /\ TrafficType' /\ NumberType'
           /\ myAllVeh' \in [Veh -> Nat]
BY DEF TypeOK, ControlType, TrafficType, NumberType, InserterType, BuildDiscarded, Build, traffic

LEMMA TypeLoadOne ==
    ASSUME TypeOK, NEW v \in Veh, NEW t \in Nat, LoadOne(v, t)
    PROVE  /\ built' \subseteq Veh /\ myVehicleDict' \subseteq built' /\ departed' \subseteq Veh
           /\ depart' \in [Veh -> Nat \cup {NoDepart}]
           /\ TrafficType' /\ NumberType'
           /\ myAllVeh' \in [Veh -> Nat]
<1>1. Build({v}) /\ AddVehicles({v}) BY DEF LoadOne
<1>2. depart' \in [Veh -> Nat \cup {NoDepart}] /\ myAllVeh' \in [Veh -> Nat]
    BY DEF LoadOne, TypeOK, ControlType, InserterType
<1> QED BY <1>1, <1>2, TypeAddVehicles

LEMMA TypeCloseVehicle ==
    ASSUME TypeOK, NEW v \in Veh, CloseVehicle(v)
    PROVE  TypeOK'
<1> USE DEF CloseVehicle
<1>1. StepType' /\ ModeType' BY DEF TypeOK, StepType, ModeType, steps
<1>2. ASSUME /\ built' \subseteq Veh /\ myVehicleDict' \subseteq built' /\ departed' \subseteq Veh
             /\ depart' \in [Veh -> Nat \cup {NoDepart}]
             /\ TrafficType' /\ NumberType'
             /\ myAllVeh' \in [Veh -> Nat]
      PROVE  TypeOK'
    <2>1. ControlType' BY <1>2 DEF TypeOK, ControlType
    <2>2. InserterType' BY <1>2 DEF TypeOK, InserterType, NoEntry, steps
    <2> QED BY <1>1, <1>2, <2>1, <2>2 DEF TypeOK
<1>3. DepartTimes \subseteq Nat BY StepAssumption DEF StepAssumption
<1>4. CASE BuildDiscarded(v) BY <1>2, <1>4, TypeBuildDiscarded
<1>5. ASSUME NEW t \in DepartTimes, LoadOne(v, t) PROVE TypeOK'
    BY <1>2, <1>3, <1>5, TypeLoadOne
<1>6. ASSUME NEW t \in DepartTimes, NEW w \in Veh, LoadWithCopy(v, w, t) PROVE TypeOK'
    <2>1. Build({v, w}) /\ AddVehicles({v, w}) BY <1>6 DEF LoadWithCopy
    <2>2. depart' \in [Veh -> Nat \cup {NoDepart}]
        BY <1>3, <1>6 DEF LoadWithCopy, TypeOK, ControlType
    <2>3. myAllVeh' \in [Veh -> Nat]
        BY <1>6 DEF LoadWithCopy, TypeOK, InserterType
    <2> QED BY <1>2, <2>1, <2>2, <2>3, TypeAddVehicles
<1> QED BY <1>4, <1>5, <1>6

LEMMA TypeEmitFlow ==
    ASSUME TypeOK, NEW v \in Veh, EmitFlow(v)
    PROVE  TypeOK'
<1> USE DEF EmitFlow
<1>1. StepType' /\ ModeType' BY DEF TypeOK, StepType, ModeType, steps
<1>2. repetitionsDone \in Nat /\ repetitionsDone' \in Nat BY DEF TypeOK, ControlType
<1>3. ASSUME /\ built' \subseteq Veh /\ myVehicleDict' \subseteq built' /\ departed' \subseteq Veh
             /\ depart' \in [Veh -> Nat \cup {NoDepart}]
             /\ TrafficType' /\ NumberType'
             /\ myAllVeh' \in [Veh -> Nat]
      PROVE  TypeOK'
    <2>1. ControlType' BY <1>2, <1>3 DEF ControlType
    <2>2. InserterType' BY <1>3 DEF TypeOK, InserterType, NoEntry, steps
    <2> QED BY <1>1, <1>3, <2>1, <2>2 DEF TypeOK
<1>4. CASE BuildDiscarded(v) BY <1>3, <1>4, TypeBuildDiscarded
<1>5. CASE LoadOne(v, FlowDepart(repetitionsDone))
    BY <1>2, <1>3, <1>5, TypeLoadOne, FlowDepartType
<1>6. ASSUME NEW w \in FlowVeh,
             Build({v, w}), AddVehicles({v, w}),
             depart' = [depart EXCEPT ![v] = FlowDepart(repetitionsDone),
                                      ![w] = FlowDepart(repetitionsDone + 1)],
             myAllVeh' = [myAllVeh EXCEPT ![v] = @ + 1, ![w] = @ + 1]
      PROVE  TypeOK'
    <2>1. w \in Veh BY StepAssumption DEF StepAssumption
    <2>2. depart' \in [Veh -> Nat \cup {NoDepart}]
        <3> DEFINE d1 == FlowDepart(repetitionsDone) 
                   d2 == FlowDepart(repetitionsDone + 1)
        <3>1. d1 \in Nat /\ d2 \in Nat BY <1>2, FlowDepartType
        <3> HIDE DEF d1, d2
        <3>2. depart' = [depart EXCEPT ![v] = d1, ![w] = d2] BY <1>6 DEF d1, d2
        <3> QED BY <3>1, <3>2 DEF TypeOK, ControlType
    <2>3. myAllVeh' \in [Veh -> Nat] BY <1>6, <2>1 DEF TypeOK, InserterType
    <2> QED BY <1>3, <1>6, <2>1, <2>2, <2>3, TypeAddVehicles
<1> QED BY <1>4, <1>5, <1>6

LEMMA TypeCheckCandidates ==
    ASSUME TypeOK, CheckCandidates
    PROVE  TypeOK'
<1> USE DEF TypeOK, CheckCandidates
<1>1. StepType' BY DEF StepType, Phase
<1>2. ModeType' BY DEF ModeType
<1>3. ControlType' BY DEF ControlType, control
<1>4. TrafficType' /\ NumberType' BY DEF TrafficType, NumberType, traffic, numbers
<1>5. InserterType'
    <2>1. myAllVeh' \in [Veh -> Nat] /\ myPendingEmits' \in [Veh -> Nat] BY DEF InserterType
    <2>2. refusedEmits' = refusedEmits /\ refusedEmits = NoEntry BY DEF InserterType
    <2>3. myEmitCandidates' \subseteq Veh /\ myAbortedEmits' \subseteq Veh
        <3>1. CASE havePreChecked BY <3>1 DEF InserterType
        <3>2. CASE ~havePreChecked BY <3>2 DEF InserterType
        <3> QED BY <3>1, <3>2
    <2>4. NoEntry' = NoEntry BY DEF NoEntry
    <2> QED BY <2>1, <2>2, <2>3, <2>4 DEF InserterType
<1> QED BY <1>1, <1>2, <1>3, <1>4, <1>5

LEMMA TypeTryInsert ==
    ASSUME TypeOK, NEW v \in Veh, TryInsert(v)
    PROVE  TypeOK'
<1> USE DEF TypeOK, TryInsert
<1>1. StepType' /\ ModeType' BY DEF StepType, ModeType, steps
<1>2. myPendingEmits' \in [Veh -> Nat] BY DEF InserterType, Take
<1>3. ASSUME ControlType', TrafficType', NumberType',
             refusedEmits' \in [Veh -> Nat], myAbortedEmits' \subseteq Veh
      PROVE  TypeOK'
    BY <1>1, <1>2, <1>3 DEF InserterType, steps
<1>4. ASSUME Refuse(v), myAbortedEmits' \subseteq Veh PROVE TypeOK'
    <2>1. ControlType' BY <1>4 DEF Refuse, ControlType, control
    <2>2. TrafficType' /\ NumberType'
        BY <1>4 DEF Refuse, TrafficType, NumberType, traffic, numbers
    <2>3. refusedEmits' \in [Veh -> Nat] BY <1>4 DEF Refuse, InserterType
    <2> QED BY <1>3, <1>4, <2>1, <2>2, <2>3
<1>5. ASSUME DiscardPending(v), myAbortedEmits' \subseteq Veh PROVE TypeOK'
    <2>1. ControlType' BY <1>5 DEF DiscardPending, Discard, ControlType
    <2>2. TrafficType' /\ NumberType'
        BY <1>5 DEF DiscardPending, Discard, TrafficType, NumberType, traffic
    <2>3. refusedEmits' \in [Veh -> Nat] BY <1>5 DEF DiscardPending, InserterType
    <2> QED BY <1>3, <1>5, <2>1, <2>2, <2>3
<1>6. CASE NotACandidate(v) BY <1>4, <1>6 DEF InserterType
<1>7. CASE ~NotACandidate(v) /\ v \in onRoad
    <2>1. ControlType' BY <1>7 DEF ControlType, control
    <2>2. TrafficType' /\ NumberType' BY <1>7 DEF TrafficType, NumberType, traffic, numbers
    <2> QED BY <1>3, <1>7, <2>1, <2>2 DEF InserterType
<1>8. CASE Inserted(v)
    <2>1. ControlType' BY <1>8 DEF Inserted, ControlType
    <2>2. TrafficType' /\ NumberType' BY <1>8 DEF Inserted, TrafficType, NumberType
    <2>3. refusedEmits' \in [Veh -> Nat] /\ myAbortedEmits' \subseteq Veh
        BY <1>8 DEF Inserted, InserterType
    <2> QED BY <1>3, <2>1, <2>2, <2>3
<1>9. CASE NotInserted(v)
    <2>1. PICK aborted \in SUBSET Veh :
              \/ myAbortedEmits' = aborted /\ DiscardPending(v)
              \/ myAbortedEmits' = aborted \ {v} /\ DiscardPending(v)
              \/ myAbortedEmits' = aborted /\ Refuse(v)
        BY <1>9 DEF NotInserted, InserterType
    <2> QED BY <1>4, <1>5, <2>1
<1> QED BY <1>6, <1>7, <1>8, <1>9

LEMMA TypeCheckInsertions ==
    ASSUME TypeOK, NEW v \in Veh, CheckInsertions(v)
    PROVE  TypeOK'
<1> USE DEF TypeOK, CheckInsertions
<1>1. StepType' /\ ModeType' BY DEF StepType, ModeType
<1>2. InserterType' BY DEF InserterType, inserter, NoEntry
<1>3. CASE HandleParking(v)
    <2> USE <1>3 DEF HandleParking
    <2>1. ControlType' BY DEF ControlType, control
    <2>2. stop' \in [Veh -> StopState] /\ myWaitingForPerson' \in Int
        BY TypeProcessNextStop DEF TrafficType, NumberType
    <2>3. TrafficType' /\ NumberType' BY <2>2 DEF TrafficType, NumberType, numbers, TransferState
    <2> QED BY <1>1, <1>2, <2>1, <2>3
<1>4. CASE EndTeleport(v)
    BY <1>1, <1>2, <1>4
    DEF EndTeleport, ControlType, TrafficType, NumberType, control, numbers, TransferState
<1>5. CASE KeepTeleporting(v)
    BY <1>1, <1>2, <1>5
    DEF KeepTeleporting, ControlType, TrafficType, NumberType, control, traffic, numbers
<1>6. CASE TeleportBeyondArrival(v)
    BY <1>1, <1>2, <1>6, TypeLeave DEF TeleportBeyondArrival
<1> QED BY <1>3, <1>4, <1>5, <1>6

LEMMA TypeNext == TypeOK /\ [Next]_vars => TypeOK'
<1> SUFFICES ASSUME TypeOK, [Next]_vars PROVE TypeOK'
    OBVIOUS
<1>1. CASE UNCHANGED vars
    BY <1>1, TypePhases DEF TypeOK, StepType, ModeType, ControlType, TrafficType, NumberType,
       InserterType, NoEntry, vars, steps, control, traffic, numbers, inserter
<1>2. CASE Next
    BY <1>2, TypeCommand, TypeBoardTriggered, TypeExecuteMove, TypeCollide, TypeCloseVehicle,
       TypeEmitFlow, TypeTryInsert, TypeCheckInsertions, TypePhases, TypeCheckCandidates
    DEF Next
<1> QED BY <1>1, <1>2

\* The variables keep their shape in every behaviour, whatever the demand, the
\* options and the client do.
THEOREM StepTypeCorrect == Spec => []TypeOK
BY TypeInit, TypeNext, PTL DEF Spec

-----------------------------------------------------------------------------
(* The bound on the departure delay, without the check for space.            *)

Bounded(v) == myStep - depart[v] <= MaxDepartDelay

\* A vehicle refused in this emission, or pending after it, is within the bound.
DelayInv ==
    (~havePreChecked /\ MaxDepartDelay >= 0) =>
        \A v \in Veh \ Triggered :
            /\ phase = "emit" /\ refusedEmits[v] > 0 => Bounded(v)
            /\ phase = "transfer" /\ myPendingEmits[v] > 0 => Bounded(v)

LEMMA DelayTryInsert ==
    ASSUME TypeOK, DelayInv, NEW v \in Veh, TryInsert(v)
    PROVE  DelayInv'
<1> SUFFICES ASSUME ~havePreChecked, MaxDepartDelay >= 0, NEW u \in Veh \ Triggered,
                    refusedEmits'[u] > 0
             PROVE  Bounded(u)'
    BY DEF DelayInv, TryInsert, steps
<1>1. phase = "emit" /\ myStep' = myStep BY DEF TryInsert, steps
<1>2. depart' = depart
    BY DEF TryInsert, Refuse, Inserted, NotInserted, DiscardPending, control
<1>3. CASE refusedEmits' = refusedEmits
    BY <1>1, <1>2, <1>3 DEF DelayInv, Bounded
<1>4. CASE Refuse(v) /\ ~DelayExceeded(v)
    <2>1. CASE u = v
        BY <1>1, <1>2, <1>4, <2>1, StepAssumption
        DEF DelayExceeded, Bounded, TypeOK, StepType, ControlType, NoDepart, StepAssumption
    <2>2. CASE u # v
        <3>1. refusedEmits'[u] = refusedEmits[u]
            BY <1>4, <2>2 DEF Refuse, TypeOK, InserterType
        <3> QED BY <1>1, <1>2, <3>1 DEF DelayInv, Bounded
    <2> QED BY <2>1, <2>2
<1>5. refusedEmits' = refusedEmits \/ (Refuse(v) /\ ~DelayExceeded(v))
    BY DEF TryInsert, NotACandidate, Inserted, NotInserted, DiscardPending
<1> QED BY <1>3, <1>4, <1>5

LEMMA DelayNext ==
    ASSUME TypeOK, DelayInv, [Next]_vars
    PROVE  DelayInv'
<1> USE DEF DelayInv
<1>1. CASE \E v \in Veh : TryInsert(v) BY <1>1, DelayTryInsert
<1>2. CASE EndEmit BY <1>2 DEF EndEmit, control, Bounded
<1>3. ASSUME NEW v \in Veh, CheckInsertions(v) PROVE DelayInv'
    <2>1. depart' = depart
        BY <1>3 DEF CheckInsertions, HandleParking, EndTeleport, KeepTeleporting,
                    TeleportBeyondArrival, Leave, control
    <2> QED BY <1>3, <2>1 DEF CheckInsertions, inserter, Bounded
<1>4. ASSUME NEW v \in Veh, Collide(v) PROVE DelayInv'
    <2>1. depart' = depart BY <1>4 DEF Collide, Arrives, StartTeleport, Leave, control
    <2> QED BY <1>4, <2>1 DEF Collide, inserter, Bounded
<1>5. ASSUME NEW v \in Veh,
             Command(v) \/ BoardTriggered(v) \/ ExecuteMove(v) \/ CloseVehicle(v) \/ EmitFlow(v)
      PROVE  DelayInv'
    <2>1. phase' \notin {"emit", "transfer"}
        BY <1>5 DEF Command, BoardTriggered, ExecuteMove, CloseVehicle, EmitFlow, steps
    <2> QED BY <2>1
<1>6. CASE CheckCandidates BY <1>6 DEF CheckCandidates, control, TypeOK, InserterType, NoEntry
<1>7. CASE BeginMove \/ EndMove \/ EndLoad \/ EndPersons \/ EndStep \/ Close
    BY <1>7 DEF BeginMove, EndMove, EndLoad, EndPersons, EndStep, Close
<1>8. CASE Stopped \/ UNCHANGED vars
    BY <1>8 DEF Stopped, vars, steps, control, inserter, Bounded
<1> QED BY <1>1, <1>2, <1>3, <1>4, <1>5, <1>6, <1>7, <1>8 DEF Next

\* tryInsert deletes a vehicle it refuses once it is later than
\* max-depart-delay, so without the check for space none stays pending.
THEOREM StepWaitBounded == Spec => []WaitBounded
<1>1. Init => TypeOK /\ DelayInv BY TypeInit DEF Init, DelayInv
<1>2. TypeOK /\ DelayInv /\ [Next]_vars => TypeOK' /\ DelayInv' BY TypeNext, DelayNext
<1>3. TypeOK /\ DelayInv => WaitBounded BY DEF DelayInv, WaitBounded, Bounded
<1> QED BY <1>1, <1>2, <1>3, PTL DEF Spec
=============================================================================
