-------------------------- MODULE RunThread_proof --------------------------
(* A step of the run thread keeps its network, and its events belong to it.  *)
EXTENDS RunThread, SequenceTheorems, TLAPS

\* The networks that wait in the queue to be taken over by the window thread.
Pending == {i \in DOMAIN myEvents : myEvents[i].type = "loaded" /\ myEvents[i].net # NoNet}

\* A pending network is the only one, it is newer than every network the run
\* thread has found, and no report of a step is queued behind it.
FreshNets ==
    /\ myNet <= nets /\ foundNet <= nets
    /\ \A i \in Pending :
           /\ myNet = NoNet
           /\ foundNet < myEvents[i].net /\ myEvents[i].net <= nets
           /\ \A j \in Pending : i = j
           /\ \A j \in DOMAIN myEvents : j > i => myEvents[j].type \notin {"step", "ended"}

\* The run thread halts while there is no network, from deleteSim() on until the
\* window thread has taken over the next one and init() is done with it.
HaltedBefore ==
    /\ myNet = NoNet => myHalting
    /\ pc["window"] = "init" => myHalting /\ (myNet = NoNet \/ myNet # foundNet)
    /\ \A t \in Thread : pc[t] \in {"deleteLock", "deleteWait", "deleteStuck"} => myHalting

\* The run thread deletes its network only when told to quit, after which the
\* window thread takes no more commands or events.
QuitSeen ==
    /\ pc["run"] \in {"deleteLock", "deleteWait", "deleteStuck", "exited"} => myQuit
    /\ myQuit =>
        \/ pc["window"] \in {"join", "destroy", "destroyed", "gone"}
        \/ /\ pc["window"] \in {"deleteLock", "deleteWait", "deleteStuck"}
           /\ next \in {"destroy", "destroyed"}

\* From before it takes the lock until it has reported the end of the step, the
\* flag of the run thread is set.
Flagged ==
    /\ (/\ pc["run"] \in {"lock", "step", "stepped", "state", "ended", "single", "finish", "failed"}
        /\ myNet = foundNet /\ myNet # NoNet)
       => mySimulationInProgress
    /\ pc["run"] = "stepped" => myNet # NoNet

KeepInv ==
    TypeOK /\ FreshNets /\ HaltedBefore /\ QuitSeen /\ Flagged /\ EventsOfLoadedNet

-----------------------------------------------------------------------------
(* The type invariant.                                                      *)

USE RunAssumption DEF Nets, NoNet, Thread

\* The threads, the flags, the network and the lock at the start.
LEMMA TypeInit == Init => TypeOK
<1> SUFFICES ASSUME Init PROVE TypeOK
    OBVIOUS
<1>1. ThreadType /\ LockHeld
    BY DEF Init, ThreadType, LockHeld, RunPlace, WindowPlace, AfterDelete
<1>2. FlagType
    BY Zenon DEF Init, FlagType
<1>3. NetType
    BY DEF Init, NetType
<1> QED BY <1>1, <1>2, <1>3 DEF TypeOK

\* What is appended to the queue, and what is taken from it, is an event.
LEMMA EventsType ==
    ASSUME NetType
    PROVE  /\ \A e \in Events : Append(myEvents, e) \in Seq(Events)
           /\ \A type \in EventType : Queued(type) \in Seq(Events)
           /\ myEvents # <<>> => Tail(myEvents) \in Seq(Events) /\ Head(myEvents) \in Events
<1>1. myEvents \in Seq(Events) BY DEF NetType
<1>2. \A e \in Events : Append(myEvents, e) \in Seq(Events)
    BY <1>1, AppendProperties
<1>3. \A type \in EventType : [type |-> type, net |-> myNet] \in Events
    BY DEF NetType, Events
<1>4. \A type \in EventType : Queued(type) \in Seq(Events)
    BY <1>2, <1>3 DEF Queued
<1>5. myEvents # <<>> => Tail(myEvents) \in Seq(Events) /\ Head(myEvents) \in Events
    BY <1>1, HeadTailProperties
<1> QED BY <1>2, <1>4, <1>5

\* Every flag stays a truth value.
LEMMA FlagStep == FlagType /\ [Next]_vars => FlagType'
<1> SUFFICES ASSUME FlagType, [Next]_vars PROVE FlagType'
    OBVIOUS
<1>1. CASE RunLoop
    BY <1>1, Zenon DEF RunLoop, FlagType, flags, step
<1>2. CASE CheckBreakpoints
    BY <1>2, Zenon DEF CheckBreakpoints, UseNet, FlagType, flags, step
<1>3. CASE MakeStep
    BY <1>3, Zenon DEF MakeStep, FlagType, flags, step
<1>4. CASE LockStep
    BY <1>4, Zenon DEF LockStep, FlagType, flags, step
<1>5. CASE SimulationStep
    BY <1>5, Zenon DEF SimulationStep, UseNet, FlagType, flags, step
<1>6. CASE UnlockStep
    BY <1>6, Zenon DEF UnlockStep, FlagType, flags, step
<1>7. CASE SimulationState
    BY <1>7, Zenon DEF SimulationState, UseNet, FlagType, flags, step
<1>8. CASE HaltAtEnd
    BY <1>8, Zenon DEF HaltAtEnd, FlagType, flags, step
<1>9. CASE HaltAfterSingle
    BY <1>9, Zenon DEF HaltAfterSingle, FlagType, flags, step
<1>10. CASE FinishStep
    BY <1>10, Zenon DEF FinishStep, FlagType, flags, step
<1>11. CASE FailStep
    BY <1>11, Zenon DEF FailStep, FlagType, flags, step
<1>12. CASE ReportFailure
    BY <1>12, Zenon DEF ReportFailure, UseNet, FlagType, flags, step
<1>13. CASE HaltAfterFailure
    BY <1>13, Zenon DEF HaltAfterFailure, FlagType, flags, step
<1>14. CASE WaitForSnapshots
    BY <1>14, Zenon DEF WaitForSnapshots, UseNet, FlagType, flags, step
<1>15. CASE HaltAtBreakpoint
    BY <1>15, Zenon DEF HaltAtBreakpoint, UseNet, FlagType, flags, step
<1>16. CASE RunEnds
    BY <1>16, Zenon DEF RunEnds, DeleteSim, FlagType, flags, step
<1>17. CASE OnCmdStart
    BY <1>17, Zenon DEF OnCmdStart, Resume, User, Begin, FlagType, flags, step
<1>18. CASE OnCmdStep
    BY <1>18, Zenon DEF OnCmdStep, Resume, User, Begin, FlagType, flags, step
<1>19. CASE OnCmdStop
    BY <1>19, Zenon DEF OnCmdStop, User, FlagType, flags, step
<1>20. CASE OnCmdReload
    BY <1>20, Zenon DEF OnCmdReload, User, CloseAllWindows, DeleteSim, FlagType, flags, step
<1>21. CASE OnCmdClose
    BY <1>21, Zenon DEF OnCmdClose, User, CloseAllWindows, DeleteSim, FlagType, flags, step
<1>22. CASE OnCmdQuit
    BY <1>22, Zenon DEF OnCmdQuit, User, Destroy, FlagType, flags, step
<1>23. CASE StartLoading
    BY <1>23, Zenon DEF StartLoading, FlagType, flags, step
<1>24. CASE LoadEnds
    BY <1>24, Zenon DEF LoadEnds, Build, FlagType, flags, step
<1>25. CASE HandleLoadFailed
    BY <1>25, Zenon DEF HandleLoadFailed, Event, CloseAllWindows, DeleteSim, FlagType, flags, step
<1>26. CASE HandleLoaded
    BY <1>26, Zenon DEF HandleLoaded, Event, FlagType, flags, step
<1>27. CASE InitSucceeds
    BY <1>27, Zenon DEF InitSucceeds, FlagType, flags, step
<1>28. CASE InitFails
    BY <1>28, Zenon DEF InitFails, FlagType, flags, step
<1>29. CASE StartAfterLoad
    BY <1>29, Zenon DEF StartAfterLoad, Begin, FlagType, flags, step
<1>30. CASE HandleStep
    BY <1>30, Zenon DEF HandleStep, Event, FlagType, flags, step
<1>31. CASE HandleEnded
    BY <1>31, Zenon DEF HandleEnded, Event, CloseAllWindows, DeleteSim, FlagType, flags, step
<1>32. CASE Exit
    BY <1>32, Zenon DEF Exit, FlagType, flags, step
<1>33. CASE ExitEnds
    BY <1>33, Zenon DEF ExitEnds, Destroy, FlagType, flags, step
<1>34. CASE Joined
    BY <1>34, Zenon DEF Joined, CloseAllWindows, DeleteSim, FlagType, flags, step
<1>35. CASE DestroyRunThread
    BY <1>35, Zenon DEF DestroyRunThread, CloseAllWindows, DeleteSim, FlagType, flags, step
<1>36. CASE WaitForThread
    BY <1>36, Zenon DEF WaitForThread, FlagType, flags, step
<1>37. ASSUME NEW t \in Thread, DeleteSimLock(t) PROVE FlagType'
    BY <1>37, Zenon DEF DeleteSimLock, FlagType, flags, step
<1>38. ASSUME NEW t \in Thread, DeleteSimWait(t) PROVE FlagType'
    BY <1>38, Zenon DEF DeleteSimWait, FlagType, flags, step
<1>39. ASSUME NEW t \in Thread, DeleteSimEnd(t) PROVE FlagType'
    BY <1>39, Zenon DEF DeleteSimEnd, Delete, FlagType, flags, step
<1>40. CASE UNCHANGED vars
    BY <1>40, Zenon DEF FlagType, flags, step, vars
<1> QED
    BY <1>1, <1>2, <1>3, <1>4, <1>5, <1>6, <1>7, <1>8, <1>9, <1>10, <1>11, <1>12, <1>13, <1>14,
        <1>15, <1>16, <1>17, <1>18, <1>19, <1>20, <1>21, <1>22, <1>23, <1>24, <1>25, <1>26,
        <1>27, <1>28, <1>29, <1>30, <1>31, <1>32, <1>33, <1>34, <1>35, <1>36, <1>37, <1>38,
        <1>39, <1>40
    DEF Next, RunThreadNext, MakeStepActions, UserNext, WindowNext, DeleteSimActions

\* Every action moves a thread to a place of its own, and takes or releases
\* mySimulationLock as the place says.
LEMMA PlaceStep ==
    ThreadType /\ NetType /\ LockHeld /\ [Next]_vars
    => (ThreadType /\ NetType /\ LockHeld)'
<1> SUFFICES ASSUME ThreadType, NetType, LockHeld, [Next]_vars
             PROVE  (ThreadType /\ NetType /\ LockHeld)'
    OBVIOUS
<1>1. CASE RunLoop
    BY <1>1, EventsType
    DEF RunLoop, NetType, ThreadType, LockHeld, Goto, RunPlace, WindowPlace, AfterDelete, vars,
        flags, step, window, loader, notes, EventType, Events
<1>2. CASE CheckBreakpoints
  <2>1. UNCHANGED <<myNet, foundNet, nets, loading, time, myEvents, mySimulationLock, next>>
    BY <1>2, Zenon DEF CheckBreakpoints, window, loader
  <2>2. UNCHANGED pc \/ (pc["run"] = "breakpoints" /\ Goto("run", "begin"))
    BY <1>2, Zenon DEF CheckBreakpoints, UseNet
  <2> QED BY <2>1, <2>2 DEF NetType, ThreadType, LockHeld, Goto, RunPlace
<1>3. CASE MakeStep
    BY <1>3, EventsType
    DEF MakeStep, NetType, ThreadType, LockHeld, Goto, RunPlace, WindowPlace, AfterDelete, vars,
        flags, step, window, loader, notes, EventType, Events
<1>4. CASE LockStep
    BY <1>4, EventsType
    DEF LockStep, NetType, ThreadType, LockHeld, Goto, RunPlace, WindowPlace, AfterDelete, vars,
        flags, step, window, loader, notes, EventType, Events
<1>5. CASE SimulationStep
  <2>1. UNCHANGED <<myNet, foundNet, nets, loading, myEvents, mySimulationLock, next>>
    BY <1>5, Zenon DEF SimulationStep, window, loader
  <2>2. /\ \/ UNCHANGED pc
           \/ pc["run"] = "step" /\ (Goto("run", "failed") \/ Goto("run", "stepped"))
        /\ time' = time \/ (myNet # NoNet /\ time' = [time EXCEPT ![myNet] = @ + 1])
    BY <1>5 DEF SimulationStep, UseNet
  <2>3. time' \in [Nets -> Nat]
    BY <2>2 DEF NetType
  <2> QED BY <2>1, <2>2, <2>3 DEF NetType, ThreadType, LockHeld, Goto, RunPlace
<1>6. CASE UnlockStep
    BY <1>6, EventsType
    DEF UnlockStep, NetType, ThreadType, LockHeld, Goto, RunPlace, WindowPlace, AfterDelete,
        vars, flags, step, window, loader, notes, EventType, Events
<1>7. CASE SimulationState
    BY <1>7, EventsType
    DEF SimulationState, UseNet, NetType, ThreadType, LockHeld, Goto, RunPlace, WindowPlace,
        AfterDelete, vars, flags, step, window, loader, notes, EventType, Events
<1>8. CASE HaltAtEnd
    BY <1>8, EventsType
    DEF HaltAtEnd, NetType, ThreadType, LockHeld, Goto, RunPlace, WindowPlace, AfterDelete,
        vars, flags, step, window, loader, notes, EventType, Events
<1>9. CASE HaltAfterSingle
    BY <1>9, EventsType
    DEF HaltAfterSingle, NetType, ThreadType, LockHeld, Goto, RunPlace, WindowPlace,
        AfterDelete, vars, flags, step, window, loader, notes, EventType, Events
<1>10. CASE FinishStep
    BY <1>10, EventsType
    DEF FinishStep, NetType, ThreadType, LockHeld, Goto, RunPlace, WindowPlace, AfterDelete,
        vars, flags, step, window, loader, notes, EventType, Events
<1>11. CASE FailStep
    BY <1>11, EventsType
    DEF FailStep, NetType, ThreadType, LockHeld, Goto, RunPlace, WindowPlace, AfterDelete, vars,
        flags, step, window, loader, notes, EventType, Events
<1>12. CASE ReportFailure
    BY <1>12, EventsType
    DEF ReportFailure, UseNet, NetType, ThreadType, LockHeld, Goto, RunPlace, WindowPlace,
        AfterDelete, vars, flags, step, window, loader, notes, EventType, Events
<1>13. CASE HaltAfterFailure
    BY <1>13, EventsType
    DEF HaltAfterFailure, NetType, ThreadType, LockHeld, Goto, RunPlace, WindowPlace,
        AfterDelete, vars, flags, step, window, loader, notes, EventType, Events
<1>14. CASE WaitForSnapshots
    BY <1>14, EventsType
    DEF WaitForSnapshots, UseNet, NetType, ThreadType, LockHeld, Goto, RunPlace, WindowPlace,
        AfterDelete, vars, flags, step, window, loader, notes, EventType, Events
<1>15. CASE HaltAtBreakpoint
    BY <1>15, EventsType
    DEF HaltAtBreakpoint, UseNet, NetType, ThreadType, LockHeld, Goto, RunPlace, WindowPlace,
        AfterDelete, vars, flags, step, window, loader, notes, EventType, Events
<1>16. CASE RunEnds
    BY <1>16, EventsType
    DEF RunEnds, DeleteSim, NetType, ThreadType, LockHeld, Goto, RunPlace, WindowPlace,
        AfterDelete, vars, flags, step, window, loader, notes, EventType, Events
<1>17. CASE OnCmdStart
    BY <1>17, EventsType
    DEF OnCmdStart, Resume, User, Begin, NetType, ThreadType, LockHeld, Goto, RunPlace,
        WindowPlace, AfterDelete, vars, flags, step, window, loader, notes, EventType, Events
<1>18. CASE OnCmdStep
    BY <1>18, EventsType
    DEF OnCmdStep, Resume, User, Begin, NetType, ThreadType, LockHeld, Goto, RunPlace,
        WindowPlace, AfterDelete, vars, flags, step, window, loader, notes, EventType, Events
<1>19. CASE OnCmdStop
    BY <1>19, EventsType
    DEF OnCmdStop, User, NetType, ThreadType, LockHeld, Goto, RunPlace, WindowPlace,
        AfterDelete, vars, flags, step, window, loader, notes, EventType, Events
<1>20. CASE OnCmdReload
    BY <1>20, EventsType
    DEF OnCmdReload, User, CloseAllWindows, DeleteSim, NetType, ThreadType, LockHeld, Goto,
        RunPlace, WindowPlace, AfterDelete, vars, flags, step, window, loader, notes, EventType,
        Events
<1>21. CASE OnCmdClose
    BY <1>21, EventsType
    DEF OnCmdClose, User, CloseAllWindows, DeleteSim, NetType, ThreadType, LockHeld, Goto,
        RunPlace, WindowPlace, AfterDelete, vars, flags, step, window, loader, notes, EventType,
        Events
<1>22. CASE OnCmdQuit
    BY <1>22, EventsType
    DEF OnCmdQuit, User, Destroy, NetType, ThreadType, LockHeld, Goto, RunPlace, WindowPlace,
        AfterDelete, vars, flags, step, window, loader, notes, EventType, Events
<1>23. CASE StartLoading
    BY <1>23, EventsType
    DEF StartLoading, NetType, ThreadType, LockHeld, Goto, RunPlace, WindowPlace, AfterDelete,
        vars, flags, step, window, loader, notes, EventType, Events
<1>24. CASE LoadEnds
    BY <1>24, EventsType
    DEF LoadEnds, Build, NetType, ThreadType, LockHeld, Goto, RunPlace, WindowPlace,
        AfterDelete, vars, flags, step, window, loader, notes, EventType, Events
<1>25. CASE HandleLoadFailed
  <2>1. /\ UNCHANGED <<myNet, foundNet, nets, loading, time, mySimulationLock>>
        /\ myEvents # <<>> /\ myEvents' = Tail(myEvents)
    BY <1>25, Zenon DEF HandleLoadFailed, CloseAllWindows, Event, step
  <2>2. \/ UNCHANGED <<pc, next>>
        \/ pc["window"] = "ready" /\ Goto("window", "deleteLock") /\ next' = "exit"
    BY <1>25, Zenon DEF HandleLoadFailed, CloseAllWindows, Event, DeleteSim
  <2> QED BY <2>1, <2>2, EventsType
          DEF NetType, ThreadType, LockHeld, Goto, RunPlace, WindowPlace, AfterDelete
<1>26. CASE HandleLoaded
    BY <1>26, EventsType
    DEF HandleLoaded, Event, NetType, ThreadType, LockHeld, Goto, RunPlace, WindowPlace,
        AfterDelete, vars, flags, step, window, loader, notes, EventType, Events
<1>27. CASE InitSucceeds
    BY <1>27, EventsType
    DEF InitSucceeds, NetType, ThreadType, LockHeld, Goto, RunPlace, WindowPlace, AfterDelete,
        vars, flags, step, window, loader, notes, EventType, Events
<1>28. CASE InitFails
    BY <1>28, EventsType
    DEF InitFails, NetType, ThreadType, LockHeld, Goto, RunPlace, WindowPlace, AfterDelete,
        vars, flags, step, window, loader, notes, EventType, Events
<1>29. CASE StartAfterLoad
    BY <1>29, EventsType
    DEF StartAfterLoad, Begin, NetType, ThreadType, LockHeld, Goto, RunPlace, WindowPlace,
        AfterDelete, vars, flags, step, window, loader, notes, EventType, Events
<1>30. CASE HandleStep
    BY <1>30, EventsType
    DEF HandleStep, Event, NetType, ThreadType, LockHeld, Goto, RunPlace, WindowPlace,
        AfterDelete, vars, flags, step, window, loader, notes, EventType, Events
<1>31. CASE HandleEnded
  <2>1. /\ UNCHANGED <<myNet, foundNet, nets, loading, time, mySimulationLock>>
        /\ myEvents # <<>> /\ myEvents' = Tail(myEvents)
    BY <1>31, Zenon DEF HandleEnded, CloseAllWindows, Event, step
  <2>2. \/ UNCHANGED <<pc, next>>
        \/ /\ pc["window"] = "ready" /\ Goto("window", "deleteLock")
           /\ next' \in {"exit", "load", "ready"}
    BY <1>31 DEF HandleEnded, CloseAllWindows, Event, DeleteSim
  <2> QED BY <2>1, <2>2, EventsType
          DEF NetType, ThreadType, LockHeld, Goto, RunPlace, WindowPlace, AfterDelete
<1>32. CASE Exit
    BY <1>32, EventsType
    DEF Exit, NetType, ThreadType, LockHeld, Goto, RunPlace, WindowPlace, AfterDelete, vars,
        flags, step, window, loader, notes, EventType, Events
<1>33. CASE ExitEnds
    BY <1>33, EventsType
    DEF ExitEnds, Destroy, NetType, ThreadType, LockHeld, Goto, RunPlace, WindowPlace,
        AfterDelete, vars, flags, step, window, loader, notes, EventType, Events
<1>34. CASE Joined
    BY <1>34, EventsType
    DEF Joined, CloseAllWindows, DeleteSim, NetType, ThreadType, LockHeld, Goto, RunPlace,
        WindowPlace, AfterDelete, vars, flags, step, window, loader, notes, EventType, Events
<1>35. CASE DestroyRunThread
    BY <1>35, EventsType
    DEF DestroyRunThread, CloseAllWindows, DeleteSim, NetType, ThreadType, LockHeld, Goto,
        RunPlace, WindowPlace, AfterDelete, vars, flags, step, window, loader, notes, EventType,
        Events
<1>36. CASE WaitForThread
    BY <1>36, EventsType
    DEF WaitForThread, NetType, ThreadType, LockHeld, Goto, RunPlace, WindowPlace, AfterDelete,
        vars, flags, step, window, loader, notes, EventType, Events
<1>37. ASSUME NEW t \in Thread, DeleteSimLock(t) PROVE (ThreadType /\ NetType /\ LockHeld)'
    BY <1>37, EventsType
    DEF DeleteSimLock, NetType, ThreadType, LockHeld, Goto, RunPlace, WindowPlace, AfterDelete,
        vars, flags, step, window, loader, notes, EventType, Events
<1>38. ASSUME NEW t \in Thread, DeleteSimWait(t) PROVE (ThreadType /\ NetType /\ LockHeld)'
    BY <1>38, EventsType
    DEF DeleteSimWait, NetType, ThreadType, LockHeld, Goto, RunPlace, WindowPlace, AfterDelete,
        vars, flags, step, window, loader, notes, EventType, Events
<1>39. ASSUME NEW t \in Thread, DeleteSimEnd(t) PROVE (ThreadType /\ NetType /\ LockHeld)'
    BY <1>39, EventsType
    DEF DeleteSimEnd, Delete, NetType, ThreadType, LockHeld, Goto, RunPlace, WindowPlace,
        AfterDelete, vars, flags, step, window, loader, notes, EventType, Events
<1>40. CASE UNCHANGED vars
    BY <1>40, EventsType
    DEF NetType, ThreadType, LockHeld, Goto, RunPlace, WindowPlace, AfterDelete, vars, flags,
        step, window, loader, notes, EventType, Events
<1> QED
    BY <1>1, <1>2, <1>3, <1>4, <1>5, <1>6, <1>7, <1>8, <1>9, <1>10, <1>11, <1>12, <1>13, <1>14,
        <1>15, <1>16, <1>17, <1>18, <1>19, <1>20, <1>21, <1>22, <1>23, <1>24, <1>25, <1>26,
        <1>27, <1>28, <1>29, <1>30, <1>31, <1>32, <1>33, <1>34, <1>35, <1>36, <1>37, <1>38,
        <1>39, <1>40
    DEF Next, RunThreadNext, MakeStepActions, UserNext, WindowNext, DeleteSimActions

\* Every step keeps the shape of the state.
LEMMA TypeStep == TypeOK /\ [Next]_vars => TypeOK'
BY FlagStep, PlaceStep DEF TypeOK

-----------------------------------------------------------------------------
(* The queue of events.                                                     *)

\* What an action that leaves the networks and the queue alone preserves.
LEMMA QueueUnchanged ==
    ASSUME FreshNets, EventsOfLoadedNet, UNCHANGED <<myNet, foundNet, nets, myEvents>>
    PROVE  (FreshNets /\ EventsOfLoadedNet)'
BY DEF FreshNets, EventsOfLoadedNet, Pending

\* A report is queued, and one of a step only while there is a network.
LEMMA QueueReport ==
    ASSUME NetType, FreshNets, EventsOfLoadedNet, NEW type \in {"step", "ended", "failed"},
           type # "failed" => myNet # NoNet,
           myEvents' = Queued(type), UNCHANGED <<myNet, foundNet, nets>>
    PROVE  (FreshNets /\ EventsOfLoadedNet)'
<1>1. /\ DOMAIN myEvents' = DOMAIN myEvents \cup {Len(myEvents) + 1}
      /\ DOMAIN myEvents = 1 .. Len(myEvents) /\ Len(myEvents) \in Nat
      /\ \A i \in DOMAIN myEvents : myEvents'[i] = myEvents[i]
      /\ myEvents'[Len(myEvents) + 1] = [type |-> type, net |-> myNet]
    BY DEF NetType, Queued
<1>2. Pending' = Pending
    BY <1>1 DEF Pending
<1>3. FreshNets'
    BY <1>1, <1>2 DEF FreshNets, Pending
<1>4. EventsOfLoadedNet'
    BY <1>1 DEF EventsOfLoadedNet
<1> QED BY <1>3, <1>4

\* The window thread takes the first event.
LEMMA QueueTaken ==
    ASSUME NetType, FreshNets, EventsOfLoadedNet, myEvents # <<>>, myEvents' = Tail(myEvents),
           UNCHANGED <<foundNet, nets>>, myNet' = myNet \/ (myNet' = myEvents[1].net /\ 1 \in Pending)
    PROVE  (FreshNets /\ EventsOfLoadedNet)'
<1>1. /\ DOMAIN myEvents = 1 .. Len(myEvents) /\ Len(myEvents) \in Nat \ {0}
      /\ DOMAIN myEvents' = 1 .. (Len(myEvents) - 1)
      /\ \A i \in DOMAIN myEvents' : myEvents'[i] = myEvents[i + 1]
    BY DEF NetType
<1>2. \A i \in DOMAIN myEvents' : i + 1 \in DOMAIN myEvents /\ (i \in Pending' <=> i + 1 \in Pending)
    BY <1>1 DEF Pending
<1>3. CASE myNet' = myNet
    BY <1>1, <1>2, <1>3 DEF FreshNets, EventsOfLoadedNet, Pending
<1>4. CASE myNet' = myEvents[1].net /\ 1 \in Pending
    <2>1. Pending' = {}
        BY <1>1, <1>2, <1>4 DEF FreshNets, Pending
    <2>2. \A i \in DOMAIN myEvents' : myEvents'[i].type \notin {"step", "ended"}
        BY <1>1, <1>2, <1>4 DEF FreshNets
    <2> QED BY <2>1, <2>2, <1>4 DEF FreshNets, EventsOfLoadedNet
<1> QED BY <1>3, <1>4

\* The load thread queues the network it has built.
LEMMA QueueLoaded ==
    ASSUME NetType, FreshNets, EventsOfLoadedNet, LoadEnds
    PROVE  (FreshNets /\ EventsOfLoadedNet)'
<1>1. PICK net \in {NoNet, nets + 1} :
          /\ Build(net)
          /\ myEvents' = Append(myEvents, [type |-> "loaded", net |-> net])
    BY DEF LoadEnds
<1>2. UNCHANGED <<myNet, foundNet>>
    BY <1>1 DEF Build, step
<1>3. /\ DOMAIN myEvents' = DOMAIN myEvents \cup {Len(myEvents) + 1}
      /\ DOMAIN myEvents = 1 .. Len(myEvents) /\ Len(myEvents) \in Nat
      /\ \A i \in DOMAIN myEvents : myEvents'[i] = myEvents[i]
      /\ myEvents'[Len(myEvents) + 1] = [type |-> "loaded", net |-> net]
    BY <1>1 DEF NetType
<1>4. CASE net = NoNet
    <2>1. nets' = nets /\ Pending' = Pending
        BY <1>1, <1>3, <1>4 DEF Build, Pending
    <2> QED BY <1>2, <1>3, <2>1 DEF FreshNets, EventsOfLoadedNet, Pending
<1>5. CASE net # NoNet
    <2>1. nets' = net /\ net = nets + 1 /\ Instances \subseteq {NoNet}
        BY <1>1, <1>5 DEF Build
    <2>2. myNet = NoNet /\ Pending = {}
        BY <2>1 DEF Instances, Pending
    <2>3. Pending' = {Len(myEvents) + 1}
        BY <1>3, <1>5, <2>2 DEF Pending
    <2> QED BY <1>2, <1>3, <2>1, <2>2, <2>3 DEF FreshNets, EventsOfLoadedNet, NetType
<1> QED BY <1>4, <1>5

\* Every action treats the queue in one of the ways above.
LEMMA QueueStep ==
    ASSUME KeepInv, [Next]_vars
    PROVE  (FreshNets /\ EventsOfLoadedNet)'
<1> USE DEF KeepInv, TypeOK
<1>1. CASE RunLoop
    BY <1>1 DEF RunLoop, NetType, FreshNets, EventsOfLoadedNet, Pending, window, loader
<1>2. CASE CheckBreakpoints
    BY <1>2, QueueUnchanged DEF CheckBreakpoints, UseNet, step, window, loader
<1>3. CASE MakeStep
    BY <1>3, QueueUnchanged DEF MakeStep, step, window, loader
<1>4. CASE LockStep
    BY <1>4, QueueUnchanged DEF LockStep, step, window, loader
<1>5. CASE SimulationStep
    BY <1>5, QueueUnchanged DEF SimulationStep, UseNet, step, window, loader
<1>6. CASE UnlockStep
  <2>1. myNet # NoNet /\ myEvents' = Queued("step") /\ UNCHANGED <<myNet, foundNet, nets>>
    BY <1>6 DEF UnlockStep, Flagged, step, window, loader
  <2> QED BY <2>1, QueueReport
<1>7. CASE SimulationState
  <2>1. UNCHANGED <<myNet, foundNet, nets>>
    BY <1>7, Zenon DEF SimulationState, window, loader
  <2>2. myEvents' = myEvents \/ (myNet # NoNet /\ myEvents' = Queued("ended"))
    BY <1>7, Zenon DEF SimulationState
  <2> QED BY <2>1, <2>2, QueueReport, QueueUnchanged
<1>8. CASE HaltAtEnd
    BY <1>8, QueueUnchanged DEF HaltAtEnd, step, window, loader
<1>9. CASE HaltAfterSingle
    BY <1>9, QueueUnchanged DEF HaltAfterSingle, step, window, loader
<1>10. CASE FinishStep
    BY <1>10, QueueUnchanged DEF FinishStep, step, window, loader
<1>11. CASE FailStep
    BY <1>11, QueueUnchanged DEF FailStep, step, window, loader
<1>12. CASE ReportFailure
    BY <1>12, QueueUnchanged DEF ReportFailure, UseNet, step, window, loader
<1>13. CASE HaltAfterFailure
  <2>1. myEvents' = Queued("failed") /\ UNCHANGED <<myNet, foundNet, nets>>
    BY <1>13, Zenon DEF HaltAfterFailure, step, window, loader
  <2> QED BY <2>1, QueueReport
<1>14. CASE WaitForSnapshots
    BY <1>14, QueueUnchanged DEF WaitForSnapshots, UseNet, step, window, loader
<1>15. CASE HaltAtBreakpoint
    BY <1>15, QueueUnchanged DEF HaltAtBreakpoint, UseNet, step, window, loader
<1>16. CASE RunEnds
    BY <1>16, QueueUnchanged DEF RunEnds, DeleteSim, step, window, loader
<1>17. CASE OnCmdStart
    BY <1>17, QueueUnchanged DEF OnCmdStart, Resume, User, Begin, step, window, loader
<1>18. CASE OnCmdStep
    BY <1>18, QueueUnchanged DEF OnCmdStep, Resume, User, Begin, step, window, loader
<1>19. CASE OnCmdStop
    BY <1>19, QueueUnchanged DEF OnCmdStop, User, step, window, loader
<1>20. CASE OnCmdReload
    BY <1>20, QueueUnchanged DEF OnCmdReload, User, CloseAllWindows, DeleteSim, step, window, loader
<1>21. CASE OnCmdClose
    BY <1>21, QueueUnchanged DEF OnCmdClose, User, CloseAllWindows, DeleteSim, step, window, loader
<1>22. CASE OnCmdQuit
    BY <1>22, QueueUnchanged DEF OnCmdQuit, User, Destroy, step, window, loader
<1>23. CASE StartLoading
    BY <1>23, QueueUnchanged DEF StartLoading, step, window, loader
<1>24. CASE LoadEnds
    BY <1>24, QueueLoaded
<1>25. CASE HandleLoadFailed
  <2>1. /\ myEvents # <<>> /\ myEvents' = Tail(myEvents)
        /\ UNCHANGED <<myNet, foundNet, nets>>
    BY <1>25, Zenon DEF HandleLoadFailed, Event, CloseAllWindows, step
  <2> QED BY <2>1, QueueTaken
<1>26. CASE HandleLoaded
  <2>1. /\ myEvents # <<>> /\ myEvents' = Tail(myEvents)
        /\ UNCHANGED <<foundNet, nets>>
        /\ myNet' = Head(myEvents).net /\ Head(myEvents).type = "loaded"
        /\ Head(myEvents).net # NoNet
    BY <1>26, Zenon DEF HandleLoaded, Event, step
  <2>2. 1 \in Pending /\ Head(myEvents) = myEvents[1]
    BY <2>1 DEF NetType, Pending
  <2> QED BY <2>1, <2>2, QueueTaken
<1>27. CASE InitSucceeds
    BY <1>27, QueueUnchanged DEF InitSucceeds, step, window, loader
<1>28. CASE InitFails
    BY <1>28, QueueUnchanged DEF InitFails, step, window, loader
<1>29. CASE StartAfterLoad
    BY <1>29, QueueUnchanged DEF StartAfterLoad, Begin, step, window, loader
<1>30. CASE HandleStep
  <2>1. /\ myEvents # <<>> /\ myEvents' = Tail(myEvents)
        /\ UNCHANGED <<myNet, foundNet, nets>>
    BY <1>30, Zenon DEF HandleStep, Event, step, window, loader
  <2> QED BY <2>1, QueueTaken
<1>31. CASE HandleEnded
  <2>1. /\ myEvents # <<>> /\ myEvents' = Tail(myEvents)
        /\ UNCHANGED <<myNet, foundNet, nets>>
    BY <1>31, Zenon DEF HandleEnded, Event, CloseAllWindows, step
  <2> QED BY <2>1, QueueTaken
<1>32. CASE Exit
    BY <1>32, QueueUnchanged DEF Exit, step, window, loader
<1>33. CASE ExitEnds
    BY <1>33, QueueUnchanged DEF ExitEnds, Destroy, step, window, loader
<1>34. CASE Joined
    BY <1>34, QueueUnchanged DEF Joined, CloseAllWindows, DeleteSim, step, window, loader
<1>35. CASE DestroyRunThread
    BY <1>35, QueueUnchanged DEF DestroyRunThread, CloseAllWindows, DeleteSim, step, window, loader
<1>36. CASE WaitForThread
    BY <1>36, QueueUnchanged DEF WaitForThread, step, window, loader
<1>37. ASSUME NEW t \in Thread, DeleteSimLock(t) PROVE (FreshNets /\ EventsOfLoadedNet)'
    BY <1>37, QueueUnchanged DEF DeleteSimLock, step, window, loader
<1>38. ASSUME NEW t \in Thread, DeleteSimWait(t) PROVE (FreshNets /\ EventsOfLoadedNet)'
    BY <1>38, QueueUnchanged DEF DeleteSimWait, step, window, loader
<1>39. ASSUME NEW t \in Thread, DeleteSimEnd(t) PROVE (FreshNets /\ EventsOfLoadedNet)'
    BY <1>39
    DEF DeleteSimEnd, Delete, FreshNets, EventsOfLoadedNet, Pending, NetType, step, window,
        loader
<1>40. CASE UNCHANGED vars
    BY <1>40, QueueUnchanged DEF step, window, loader, vars
<1> QED
    BY <1>1, <1>2, <1>3, <1>4, <1>5, <1>6, <1>7, <1>8, <1>9, <1>10, <1>11, <1>12, <1>13, <1>14,
        <1>15, <1>16, <1>17, <1>18, <1>19, <1>20, <1>21, <1>22, <1>23, <1>24, <1>25, <1>26,
        <1>27, <1>28, <1>29, <1>30, <1>31, <1>32, <1>33, <1>34, <1>35, <1>36, <1>37, <1>38,
        <1>39, <1>40
    DEF Next, RunThreadNext, MakeStepActions, UserNext, WindowNext, DeleteSimActions

-----------------------------------------------------------------------------
(* The flags of the run thread.                                             *)

\* Once told to quit, the window thread only waits and deletes.
LEMMA QuitStep ==
    ASSUME ThreadType, FlagType, QuitSeen, [Next]_vars
    PROVE  QuitSeen'
<1>1. CASE RunLoop
    BY <1>1 DEF RunLoop, QuitSeen, ThreadType, Goto, flags, step, window, loader, notes
<1>2. CASE CheckBreakpoints
    BY <1>2
    DEF CheckBreakpoints, UseNet, QuitSeen, ThreadType, Goto, flags, step, window, loader, notes
<1>3. CASE MakeStep
    BY <1>3 DEF MakeStep, QuitSeen, ThreadType, Goto, flags, step, window, loader, notes
<1>4. CASE LockStep
    BY <1>4 DEF LockStep, QuitSeen, ThreadType, Goto, flags, step, window, loader, notes
<1>5. CASE SimulationStep
    BY <1>5
    DEF SimulationStep, UseNet, QuitSeen, ThreadType, Goto, flags, step, window, loader, notes
<1>6. CASE UnlockStep
    BY <1>6 DEF UnlockStep, QuitSeen, ThreadType, Goto, flags, step, window, loader, notes
<1>7. CASE SimulationState
    BY <1>7
    DEF SimulationState, UseNet, QuitSeen, ThreadType, Goto, flags, step, window, loader, notes
<1>8. CASE HaltAtEnd
    BY <1>8 DEF HaltAtEnd, QuitSeen, ThreadType, Goto, flags, step, window, loader, notes
<1>9. CASE HaltAfterSingle
    BY <1>9 DEF HaltAfterSingle, QuitSeen, ThreadType, Goto, flags, step, window, loader, notes
<1>10. CASE FinishStep
    BY <1>10 DEF FinishStep, QuitSeen, ThreadType, Goto, flags, step, window, loader, notes
<1>11. CASE FailStep
    BY <1>11 DEF FailStep, QuitSeen, ThreadType, Goto, flags, step, window, loader, notes
<1>12. CASE ReportFailure
    BY <1>12
    DEF ReportFailure, UseNet, QuitSeen, ThreadType, Goto, flags, step, window, loader, notes
<1>13. CASE HaltAfterFailure
    BY <1>13 DEF HaltAfterFailure, QuitSeen, ThreadType, Goto, flags, step, window, loader, notes
<1>14. CASE WaitForSnapshots
    BY <1>14
    DEF WaitForSnapshots, UseNet, QuitSeen, ThreadType, Goto, flags, step, window, loader, notes
<1>15. CASE HaltAtBreakpoint
    BY <1>15
    DEF HaltAtBreakpoint, UseNet, QuitSeen, ThreadType, Goto, flags, step, window, loader, notes
<1>16. CASE RunEnds
    BY <1>16 DEF RunEnds, DeleteSim, QuitSeen, ThreadType, Goto, flags, step, window, loader, notes
<1>17. CASE OnCmdStart
    BY <1>17
    DEF OnCmdStart, Resume, User, Begin, QuitSeen, ThreadType, Goto, flags, step, window,
        loader, notes
<1>18. CASE OnCmdStep
    BY <1>18
    DEF OnCmdStep, Resume, User, Begin, QuitSeen, ThreadType, Goto, flags, step, window, loader,
        notes
<1>19. CASE OnCmdStop
    BY <1>19 DEF OnCmdStop, User, QuitSeen, ThreadType, Goto, flags, step, window, loader, notes
<1>20. CASE OnCmdReload
    BY <1>20
    DEF OnCmdReload, User, CloseAllWindows, DeleteSim, QuitSeen, ThreadType, Goto, flags, step,
        window, loader, notes
<1>21. CASE OnCmdClose
    BY <1>21
    DEF OnCmdClose, User, CloseAllWindows, DeleteSim, QuitSeen, ThreadType, Goto, flags, step,
        window, loader, notes
<1>22. CASE OnCmdQuit
    BY <1>22
    DEF OnCmdQuit, User, Destroy, QuitSeen, ThreadType, Goto, flags, step, window, loader, notes
<1>23. CASE StartLoading
    BY <1>23 DEF StartLoading, QuitSeen, ThreadType, Goto, flags, step, window, loader, notes
<1>24. CASE LoadEnds
    BY <1>24 DEF LoadEnds, Build, QuitSeen, ThreadType, Goto, flags, step, window, loader, notes
<1>25. CASE HandleLoadFailed
    BY <1>25
    DEF HandleLoadFailed, Event, CloseAllWindows, DeleteSim, QuitSeen, ThreadType, Goto, flags,
        step, window, loader, notes
<1>26. CASE HandleLoaded
    BY <1>26 DEF HandleLoaded, Event, QuitSeen, ThreadType, Goto, flags, step, window, loader, notes
<1>27. CASE InitSucceeds
    BY <1>27 DEF InitSucceeds, QuitSeen, ThreadType, Goto, flags, step, window, loader, notes
<1>28. CASE InitFails
    BY <1>28 DEF InitFails, QuitSeen, ThreadType, Goto, flags, step, window, loader, notes
<1>29. CASE StartAfterLoad
    BY <1>29
    DEF StartAfterLoad, Begin, QuitSeen, ThreadType, Goto, flags, step, window, loader, notes
<1>30. CASE HandleStep
    BY <1>30 DEF HandleStep, Event, QuitSeen, ThreadType, Goto, flags, step, window, loader, notes
<1>31. CASE HandleEnded
    BY <1>31
    DEF HandleEnded, Event, CloseAllWindows, DeleteSim, QuitSeen, ThreadType, Goto, flags, step,
        window, loader, notes
<1>32. CASE Exit
    BY <1>32 DEF Exit, QuitSeen, ThreadType, Goto, flags, step, window, loader, notes
<1>33. CASE ExitEnds
    BY <1>33 DEF ExitEnds, Destroy, QuitSeen, ThreadType, Goto, flags, step, window, loader, notes
<1>34. CASE Joined
    BY <1>34
    DEF Joined, CloseAllWindows, DeleteSim, QuitSeen, ThreadType, Goto, flags, step, window,
        loader, notes
<1>35. CASE DestroyRunThread
    BY <1>35
    DEF DestroyRunThread, CloseAllWindows, DeleteSim, QuitSeen, ThreadType, Goto, flags, step,
        window, loader, notes
<1>36. CASE WaitForThread
    BY <1>36 DEF WaitForThread, QuitSeen, ThreadType, Goto, flags, step, window, loader, notes
<1>37. ASSUME NEW t \in Thread, DeleteSimLock(t) PROVE QuitSeen'
    BY <1>37 DEF DeleteSimLock, QuitSeen, ThreadType, Goto, flags, step, window, loader, notes
<1>38. ASSUME NEW t \in Thread, DeleteSimWait(t) PROVE QuitSeen'
    BY <1>38 DEF DeleteSimWait, QuitSeen, ThreadType, Goto, flags, step, window, loader, notes
<1>39. ASSUME NEW t \in Thread, DeleteSimEnd(t) PROVE QuitSeen'
    BY <1>39
    DEF DeleteSimEnd, Delete, QuitSeen, ThreadType, Goto, flags, step, window, loader, notes
<1>40. CASE UNCHANGED vars
    BY <1>40 DEF QuitSeen, ThreadType, Goto, flags, step, window, loader, notes, vars
<1> QED
    BY <1>1, <1>2, <1>3, <1>4, <1>5, <1>6, <1>7, <1>8, <1>9, <1>10, <1>11, <1>12, <1>13, <1>14,
        <1>15, <1>16, <1>17, <1>18, <1>19, <1>20, <1>21, <1>22, <1>23, <1>24, <1>25, <1>26,
        <1>27, <1>28, <1>29, <1>30, <1>31, <1>32, <1>33, <1>34, <1>35, <1>36, <1>37, <1>38,
        <1>39, <1>40
    DEF Next, RunThreadNext, MakeStepActions, UserNext, WindowNext, DeleteSimActions

\* Only Begin clears myHalting, when there is a network and nobody deletes it.
LEMMA HaltedStep ==
    ASSUME KeepInv, [Next]_vars
    PROVE  HaltedBefore'
<1> USE DEF KeepInv, TypeOK
<1>1. CASE RunLoop
    BY <1>1
    DEF RunLoop, HaltedBefore, ThreadType, FlagType, Goto, flags, step, window, loader, notes
<1>2. CASE CheckBreakpoints
    BY <1>2
    DEF CheckBreakpoints, UseNet, HaltedBefore, ThreadType, FlagType, Goto, flags, step, window,
        loader, notes
<1>3. CASE MakeStep
    BY <1>3
    DEF MakeStep, HaltedBefore, ThreadType, FlagType, Goto, flags, step, window, loader, notes
<1>4. CASE LockStep
    BY <1>4
    DEF LockStep, HaltedBefore, ThreadType, FlagType, Goto, flags, step, window, loader, notes
<1>5. CASE SimulationStep
    BY <1>5
    DEF SimulationStep, UseNet, HaltedBefore, ThreadType, FlagType, Goto, flags, step, window,
        loader, notes
<1>6. CASE UnlockStep
    BY <1>6
    DEF UnlockStep, HaltedBefore, ThreadType, FlagType, Goto, flags, step, window, loader, notes
<1>7. CASE SimulationState
    BY <1>7
    DEF SimulationState, UseNet, HaltedBefore, ThreadType, FlagType, Goto, flags, step, window,
        loader, notes
<1>8. CASE HaltAtEnd
    BY <1>8
    DEF HaltAtEnd, HaltedBefore, ThreadType, FlagType, Goto, flags, step, window, loader, notes
<1>9. CASE HaltAfterSingle
    BY <1>9
    DEF HaltAfterSingle, HaltedBefore, ThreadType, FlagType, Goto, flags, step, window, loader,
        notes
<1>10. CASE FinishStep
    BY <1>10
    DEF FinishStep, HaltedBefore, ThreadType, FlagType, Goto, flags, step, window, loader, notes
<1>11. CASE FailStep
    BY <1>11
    DEF FailStep, HaltedBefore, ThreadType, FlagType, Goto, flags, step, window, loader, notes
<1>12. CASE ReportFailure
    BY <1>12
    DEF ReportFailure, UseNet, HaltedBefore, ThreadType, FlagType, Goto, flags, step, window,
        loader, notes
<1>13. CASE HaltAfterFailure
    BY <1>13
    DEF HaltAfterFailure, HaltedBefore, ThreadType, FlagType, Goto, flags, step, window, loader,
        notes
<1>14. CASE WaitForSnapshots
    BY <1>14
    DEF WaitForSnapshots, UseNet, HaltedBefore, ThreadType, FlagType, Goto, flags, step, window,
        loader, notes
<1>15. CASE HaltAtBreakpoint
    BY <1>15
    DEF HaltAtBreakpoint, UseNet, HaltedBefore, ThreadType, FlagType, Goto, flags, step, window,
        loader, notes
<1>16. CASE RunEnds
    BY <1>16
    DEF RunEnds, DeleteSim, HaltedBefore, ThreadType, FlagType, Goto, flags, step, window,
        loader, notes
<1>17. CASE OnCmdStart
  <2>1. pc["window"] = "ready" /\ myNet # NoNet /\ UNCHANGED <<pc, myNet, foundNet>>
    BY <1>17, Zenon DEF OnCmdStart, Resume, User, step
  <2>2. ~myQuit
    BY <2>1 DEF QuitSeen
  <2>3. pc["run"] \notin {"deleteLock", "deleteWait", "deleteStuck"}
    BY <2>2, Zenon DEF QuitSeen
  <2> QED BY <2>1, <2>3 DEF HaltedBefore
<1>18. CASE OnCmdStep
  <2>1. pc["window"] = "ready" /\ myNet # NoNet /\ UNCHANGED <<pc, myNet, foundNet>>
    BY <1>18, Zenon DEF OnCmdStep, Resume, User, step
  <2>2. ~myQuit
    BY <2>1 DEF QuitSeen
  <2>3. pc["run"] \notin {"deleteLock", "deleteWait", "deleteStuck"}
    BY <2>2, Zenon DEF QuitSeen
  <2> QED BY <2>1, <2>3 DEF HaltedBefore
<1>19. CASE OnCmdStop
    BY <1>19
    DEF OnCmdStop, User, HaltedBefore, ThreadType, FlagType, Goto, flags, step, window, loader,
        notes
<1>20. CASE OnCmdReload
    BY <1>20
    DEF OnCmdReload, User, CloseAllWindows, DeleteSim, HaltedBefore, ThreadType, FlagType, Goto,
        flags, step, window, loader, notes
<1>21. CASE OnCmdClose
    BY <1>21
    DEF OnCmdClose, User, CloseAllWindows, DeleteSim, HaltedBefore, ThreadType, FlagType, Goto,
        flags, step, window, loader, notes
<1>22. CASE OnCmdQuit
    BY <1>22
    DEF OnCmdQuit, User, Destroy, HaltedBefore, ThreadType, FlagType, Goto, flags, step, window,
        loader, notes
<1>23. CASE StartLoading
    BY <1>23
    DEF StartLoading, HaltedBefore, ThreadType, FlagType, Goto, flags, step, window, loader,
        notes
<1>24. CASE LoadEnds
    BY <1>24
    DEF LoadEnds, Build, HaltedBefore, ThreadType, FlagType, Goto, flags, step, window, loader,
        notes
<1>25. CASE HandleLoadFailed
    BY <1>25
    DEF HandleLoadFailed, Event, CloseAllWindows, DeleteSim, HaltedBefore, ThreadType, FlagType,
        Goto, flags, step, window, loader, notes
<1>26. CASE HandleLoaded
  <2>1. /\ myEvents # <<>> /\ Head(myEvents).type = "loaded" /\ Head(myEvents).net # NoNet
        /\ myNet' = Head(myEvents).net /\ UNCHANGED <<myHalting, mySimulationInProgress, foundNet>>
        /\ pc["window"] = "ready" /\ Goto("window", "init")
    BY <1>26, Zenon DEF HandleLoaded, Event, step
  <2>2. 1 \in Pending /\ Head(myEvents) = myEvents[1]
    BY <2>1 DEF NetType, Pending
  <2>3. myNet = NoNet /\ myNet' # foundNet /\ myNet' # NoNet
    BY <2>1, <2>2 DEF FreshNets, NetType, Events
  <2> QED BY <2>1, <2>3 DEF HaltedBefore, ThreadType, Goto
<1>27. CASE InitSucceeds
    BY <1>27
    DEF InitSucceeds, HaltedBefore, ThreadType, FlagType, Goto, flags, step, window, loader,
        notes
<1>28. CASE InitFails
    BY <1>28
    DEF InitFails, HaltedBefore, ThreadType, FlagType, Goto, flags, step, window, loader, notes
<1>29. CASE StartAfterLoad
  <2>1. /\ pc["window"] = "started" /\ Goto("window", "ready")
        /\ myNet # NoNet \/ UNCHANGED myHalting
        /\ UNCHANGED <<myNet, foundNet>>
    BY <1>29, Zenon DEF StartAfterLoad, step
  <2>2. ~myQuit
    BY <2>1 DEF QuitSeen
  <2>3. pc["run"] \notin {"deleteLock", "deleteWait", "deleteStuck"}
    BY <2>2, Zenon DEF QuitSeen
  <2>4. pc' = [pc EXCEPT !["window"] = "ready"]
    BY <2>1 DEF Goto
  <2> QED BY <2>1, <2>3, <2>4 DEF HaltedBefore, ThreadType
<1>30. CASE HandleStep
    BY <1>30
    DEF HandleStep, Event, HaltedBefore, ThreadType, FlagType, Goto, flags, step, window,
        loader, notes
<1>31. CASE HandleEnded
    BY <1>31
    DEF HandleEnded, Event, CloseAllWindows, DeleteSim, HaltedBefore, ThreadType, FlagType,
        Goto, flags, step, window, loader, notes
<1>32. CASE Exit
    BY <1>32 DEF Exit, HaltedBefore, ThreadType, FlagType, Goto, flags, step, window, loader, notes
<1>33. CASE ExitEnds
    BY <1>33
    DEF ExitEnds, Destroy, HaltedBefore, ThreadType, FlagType, Goto, flags, step, window,
        loader, notes
<1>34. CASE Joined
    BY <1>34
    DEF Joined, CloseAllWindows, DeleteSim, HaltedBefore, ThreadType, FlagType, Goto, flags,
        step, window, loader, notes
<1>35. CASE DestroyRunThread
    BY <1>35
    DEF DestroyRunThread, CloseAllWindows, DeleteSim, HaltedBefore, ThreadType, FlagType, Goto,
        flags, step, window, loader, notes
<1>36. CASE WaitForThread
    BY <1>36
    DEF WaitForThread, HaltedBefore, ThreadType, FlagType, Goto, flags, step, window, loader,
        notes
<1>37. ASSUME NEW t \in Thread, DeleteSimLock(t) PROVE HaltedBefore'
    BY <1>37
    DEF DeleteSimLock, HaltedBefore, ThreadType, FlagType, Goto, flags, step, window, loader,
        notes
<1>38. ASSUME NEW t \in Thread, DeleteSimWait(t) PROVE HaltedBefore'
    BY <1>38
    DEF DeleteSimWait, HaltedBefore, ThreadType, FlagType, Goto, flags, step, window, loader,
        notes
<1>39. ASSUME NEW t \in Thread, DeleteSimEnd(t) PROVE HaltedBefore'
    BY <1>39
    DEF DeleteSimEnd, Delete, HaltedBefore, ThreadType, FlagType, Goto, flags, step, window,
        loader, notes
<1>40. CASE UNCHANGED vars
    BY <1>40 DEF HaltedBefore, ThreadType, FlagType, Goto, flags, step, window, loader, notes, vars
<1> QED
    BY <1>1, <1>2, <1>3, <1>4, <1>5, <1>6, <1>7, <1>8, <1>9, <1>10, <1>11, <1>12, <1>13, <1>14,
        <1>15, <1>16, <1>17, <1>18, <1>19, <1>20, <1>21, <1>22, <1>23, <1>24, <1>25, <1>26,
        <1>27, <1>28, <1>29, <1>30, <1>31, <1>32, <1>33, <1>34, <1>35, <1>36, <1>37, <1>38,
        <1>39, <1>40
    DEF Next, RunThreadNext, MakeStepActions, UserNext, WindowNext, DeleteSimActions

\* Of the three actions that clear the flag, two leave the step, and init() clears
\* it only for a network that the run thread has not found yet.
LEMMA FlaggedStep ==
    ASSUME KeepInv, [Next]_vars
    PROVE  Flagged'
<1> USE DEF KeepInv, TypeOK
<1>1. CASE RunLoop
    BY <1>1 DEF RunLoop, Flagged, ThreadType, FlagType, Goto, flags, step, window, loader, notes
<1>2. CASE CheckBreakpoints
    BY <1>2
    DEF CheckBreakpoints, UseNet, Flagged, ThreadType, FlagType, Goto, flags, step, window,
        loader, notes
<1>3. CASE MakeStep
    BY <1>3 DEF MakeStep, Flagged, ThreadType, FlagType, Goto, flags, step, window, loader, notes
<1>4. CASE LockStep
    BY <1>4 DEF LockStep, Flagged, ThreadType, FlagType, Goto, flags, step, window, loader, notes
<1>5. CASE SimulationStep
    BY <1>5
    DEF SimulationStep, UseNet, Flagged, ThreadType, FlagType, Goto, flags, step, window,
        loader, notes
<1>6. CASE UnlockStep
    BY <1>6 DEF UnlockStep, Flagged, ThreadType, FlagType, Goto, flags, step, window, loader, notes
<1>7. CASE SimulationState
    BY <1>7
    DEF SimulationState, UseNet, Flagged, ThreadType, FlagType, Goto, flags, step, window,
        loader, notes
<1>8. CASE HaltAtEnd
    BY <1>8 DEF HaltAtEnd, Flagged, ThreadType, FlagType, Goto, flags, step, window, loader, notes
<1>9. CASE HaltAfterSingle
    BY <1>9
    DEF HaltAfterSingle, Flagged, ThreadType, FlagType, Goto, flags, step, window, loader, notes
<1>10. CASE FinishStep
    BY <1>10 DEF FinishStep, Flagged, ThreadType, FlagType, Goto, flags, step, window, loader, notes
<1>11. CASE FailStep
    BY <1>11 DEF FailStep, Flagged, ThreadType, FlagType, Goto, flags, step, window, loader, notes
<1>12. CASE ReportFailure
    BY <1>12
    DEF ReportFailure, UseNet, Flagged, ThreadType, FlagType, Goto, flags, step, window, loader,
        notes
<1>13. CASE HaltAfterFailure
    BY <1>13
    DEF HaltAfterFailure, Flagged, ThreadType, FlagType, Goto, flags, step, window, loader,
        notes
<1>14. CASE WaitForSnapshots
    BY <1>14
    DEF WaitForSnapshots, UseNet, Flagged, ThreadType, FlagType, Goto, flags, step, window,
        loader, notes
<1>15. CASE HaltAtBreakpoint
    BY <1>15
    DEF HaltAtBreakpoint, UseNet, Flagged, ThreadType, FlagType, Goto, flags, step, window,
        loader, notes
<1>16. CASE RunEnds
    BY <1>16
    DEF RunEnds, DeleteSim, Flagged, ThreadType, FlagType, Goto, flags, step, window, loader,
        notes
<1>17. CASE OnCmdStart
    BY <1>17
    DEF OnCmdStart, Resume, User, Begin, Flagged, ThreadType, FlagType, Goto, flags, step,
        window, loader, notes
<1>18. CASE OnCmdStep
    BY <1>18
    DEF OnCmdStep, Resume, User, Begin, Flagged, ThreadType, FlagType, Goto, flags, step,
        window, loader, notes
<1>19. CASE OnCmdStop
    BY <1>19
    DEF OnCmdStop, User, Flagged, ThreadType, FlagType, Goto, flags, step, window, loader, notes
<1>20. CASE OnCmdReload
    BY <1>20
    DEF OnCmdReload, User, CloseAllWindows, DeleteSim, Flagged, ThreadType, FlagType, Goto,
        flags, step, window, loader, notes
<1>21. CASE OnCmdClose
    BY <1>21
    DEF OnCmdClose, User, CloseAllWindows, DeleteSim, Flagged, ThreadType, FlagType, Goto,
        flags, step, window, loader, notes
<1>22. CASE OnCmdQuit
    BY <1>22
    DEF OnCmdQuit, User, Destroy, Flagged, ThreadType, FlagType, Goto, flags, step, window,
        loader, notes
<1>23. CASE StartLoading
    BY <1>23
    DEF StartLoading, Flagged, ThreadType, FlagType, Goto, flags, step, window, loader, notes
<1>24. CASE LoadEnds
    BY <1>24
    DEF LoadEnds, Build, Flagged, ThreadType, FlagType, Goto, flags, step, window, loader, notes
<1>25. CASE HandleLoadFailed
    BY <1>25
    DEF HandleLoadFailed, Event, CloseAllWindows, DeleteSim, Flagged, ThreadType, FlagType,
        Goto, flags, step, window, loader, notes
<1>26. CASE HandleLoaded
  <2>1. /\ myEvents # <<>> /\ Head(myEvents).type = "loaded" /\ Head(myEvents).net # NoNet
        /\ myNet' = Head(myEvents).net /\ UNCHANGED <<myHalting, mySimulationInProgress, foundNet>>
        /\ pc["window"] = "ready" /\ Goto("window", "init")
    BY <1>26, Zenon DEF HandleLoaded, Event, step
  <2>2. 1 \in Pending /\ Head(myEvents) = myEvents[1]
    BY <2>1 DEF NetType, Pending
  <2>3. myNet = NoNet /\ myNet' # foundNet /\ myNet' # NoNet
    BY <2>1, <2>2 DEF FreshNets, NetType, Events
  <2> QED BY <2>1, <2>3 DEF Flagged, ThreadType, Goto
<1>27. CASE InitSucceeds
    BY <1>27
    DEF InitSucceeds, Flagged, ThreadType, FlagType, Goto, flags, step, window, loader, notes
<1>28. CASE InitFails
    BY <1>28
    DEF InitFails, Flagged, HaltedBefore, ThreadType, FlagType, Goto, step, window, loader,
        notes
<1>29. CASE StartAfterLoad
    BY <1>29
    DEF StartAfterLoad, Begin, Flagged, ThreadType, FlagType, Goto, flags, step, window, loader,
        notes
<1>30. CASE HandleStep
    BY <1>30
    DEF HandleStep, Event, Flagged, ThreadType, FlagType, Goto, flags, step, window, loader,
        notes
<1>31. CASE HandleEnded
    BY <1>31
    DEF HandleEnded, Event, CloseAllWindows, DeleteSim, Flagged, ThreadType, FlagType, Goto,
        flags, step, window, loader, notes
<1>32. CASE Exit
    BY <1>32 DEF Exit, Flagged, ThreadType, FlagType, Goto, flags, step, window, loader, notes
<1>33. CASE ExitEnds
    BY <1>33
    DEF ExitEnds, Destroy, Flagged, ThreadType, FlagType, Goto, flags, step, window, loader,
        notes
<1>34. CASE Joined
    BY <1>34
    DEF Joined, CloseAllWindows, DeleteSim, Flagged, ThreadType, FlagType, Goto, flags, step,
        window, loader, notes
<1>35. CASE DestroyRunThread
    BY <1>35
    DEF DestroyRunThread, CloseAllWindows, DeleteSim, Flagged, ThreadType, FlagType, Goto,
        flags, step, window, loader, notes
<1>36. CASE WaitForThread
    BY <1>36
    DEF WaitForThread, Flagged, ThreadType, FlagType, Goto, flags, step, window, loader, notes
<1>37. ASSUME NEW t \in Thread, DeleteSimLock(t) PROVE Flagged'
    BY <1>37
    DEF DeleteSimLock, Flagged, ThreadType, FlagType, Goto, flags, step, window, loader, notes
<1>38. ASSUME NEW t \in Thread, DeleteSimWait(t) PROVE Flagged'
    BY <1>38
    DEF DeleteSimWait, Flagged, ThreadType, FlagType, Goto, flags, step, window, loader, notes
<1>39. ASSUME NEW t \in Thread, DeleteSimEnd(t) PROVE Flagged'
    BY <1>39
    DEF DeleteSimEnd, Delete, Flagged, ThreadType, FlagType, LockHeld, Goto, flags, step,
        window, loader, notes
<1>40. CASE UNCHANGED vars
    BY <1>40 DEF Flagged, ThreadType, FlagType, Goto, flags, step, window, loader, notes, vars
<1> QED
    BY <1>1, <1>2, <1>3, <1>4, <1>5, <1>6, <1>7, <1>8, <1>9, <1>10, <1>11, <1>12, <1>13, <1>14,
        <1>15, <1>16, <1>17, <1>18, <1>19, <1>20, <1>21, <1>22, <1>23, <1>24, <1>25, <1>26,
        <1>27, <1>28, <1>29, <1>30, <1>31, <1>32, <1>33, <1>34, <1>35, <1>36, <1>37, <1>38,
        <1>39, <1>40
    DEF Next, RunThreadNext, MakeStepActions, UserNext, WindowNext, DeleteSimActions

-----------------------------------------------------------------------------
(* The theorems.                                                            *)

\* The invariant of the threads holds at the start.
LEMMA KeepInit == Init => KeepInv
<1> SUFFICES ASSUME Init PROVE KeepInv
    OBVIOUS
<1>1. FreshNets /\ EventsOfLoadedNet
    BY DEF Init, FreshNets, EventsOfLoadedNet, Pending
<1>2. HaltedBefore /\ QuitSeen /\ Flagged
    BY DEF Init, HaltedBefore, QuitSeen, Flagged
<1> QED BY <1>1, <1>2, TypeInit DEF KeepInv

\* Every step keeps the invariant of the threads.
LEMMA KeepStep == KeepInv /\ [Next]_vars => KeepInv'
<1> SUFFICES ASSUME KeepInv, [Next]_vars PROVE KeepInv'
    OBVIOUS
<1>1. QuitSeen'
    BY QuitStep DEF KeepInv, TypeOK
<1> QED BY <1>1, TypeStep, QueueStep, HaltedStep, FlaggedStep DEF KeepInv

\* A reachable state has the shape that TypeOK says, and mySimulationLock is held
\* by a thread exactly from where it locks it to where it unlocks it.
THEOREM RunTypeCorrect == Spec => []TypeOK
BY TypeInit, TypeStep, PTL DEF Spec

\* Threads and events as above, in every reachable state.
LEMMA KeepCorrect == Spec => []KeepInv
BY KeepInit, KeepStep, PTL DEF Spec

\* eventOccurred() never takes a report of a step while another network than the
\* one that made the step is loaded.
THEOREM RunEventsOfLoadedNet == Spec => []EventsOfLoadedNet
<1>1. KeepInv => EventsOfLoadedNet
    BY DEF KeepInv
<1> QED BY <1>1, KeepCorrect, PTL

\* A step that takes away the network of the step being made cannot happen: the
\* flag is set, so deleteSim() waits, and no network is taken over meanwhile.
LEMMA StepKeeps ==
    ASSUME KeepInv, [Next]_vars,
           pc["run"] \in {"step", "stepped", "state", "ended", "single", "finish"},
           myNet = foundNet, myNet # NoNet
    PROVE  myNet' = myNet
<1>0. mySimulationInProgress
    BY DEF KeepInv, Flagged
<1>1. CASE RunLoop
    BY <1>1, Zenon DEF RunLoop, window
<1>2. CASE CheckBreakpoints
    BY <1>2, Zenon DEF CheckBreakpoints, UseNet, window
<1>3. CASE MakeStep
    BY <1>3, Zenon DEF MakeStep, window
<1>4. CASE LockStep
    BY <1>4, Zenon DEF LockStep, window
<1>5. CASE SimulationStep
    BY <1>5, Zenon DEF SimulationStep, UseNet, window
<1>6. CASE UnlockStep
    BY <1>6, Zenon DEF UnlockStep, window
<1>7. CASE SimulationState
    BY <1>7, Zenon DEF SimulationState, UseNet, window
<1>8. CASE HaltAtEnd
    BY <1>8, Zenon DEF HaltAtEnd, window
<1>9. CASE HaltAfterSingle
    BY <1>9, Zenon DEF HaltAfterSingle, window
<1>10. CASE FinishStep
    BY <1>10, Zenon DEF FinishStep, window
<1>11. CASE FailStep
    BY <1>11, Zenon DEF FailStep, window
<1>12. CASE ReportFailure
    BY <1>12, Zenon DEF ReportFailure, UseNet, window
<1>13. CASE HaltAfterFailure
    BY <1>13, Zenon DEF HaltAfterFailure, window
<1>14. CASE WaitForSnapshots
    BY <1>14, Zenon DEF WaitForSnapshots, UseNet, window
<1>15. CASE HaltAtBreakpoint
    BY <1>15, Zenon DEF HaltAtBreakpoint, UseNet, window
<1>16. CASE RunEnds
    BY <1>16, Zenon DEF RunEnds, DeleteSim, window
<1>17. CASE OnCmdStart
    BY <1>17, Zenon DEF OnCmdStart, Resume, User, Begin, window
<1>18. CASE OnCmdStep
    BY <1>18, Zenon DEF OnCmdStep, Resume, User, Begin, window
<1>19. CASE OnCmdStop
    BY <1>19, Zenon DEF OnCmdStop, User, window
<1>20. CASE OnCmdReload
    BY <1>20, Zenon DEF OnCmdReload, User, CloseAllWindows, DeleteSim, window
<1>21. CASE OnCmdClose
    BY <1>21, Zenon DEF OnCmdClose, User, CloseAllWindows, DeleteSim, window
<1>22. CASE OnCmdQuit
    BY <1>22, Zenon DEF OnCmdQuit, User, Destroy, window
<1>23. CASE StartLoading
    BY <1>23, Zenon DEF StartLoading, window
<1>24. CASE LoadEnds
    BY <1>24, Zenon DEF LoadEnds, Build, window
<1>25. CASE HandleLoadFailed
    BY <1>25, Zenon DEF HandleLoadFailed, Event, CloseAllWindows, DeleteSim, window
<1>26. CASE HandleLoaded
  <2>1. /\ myEvents # <<>> /\ Head(myEvents).type = "loaded" /\ Head(myEvents).net # NoNet
    BY <1>26, Zenon DEF HandleLoaded, Event
  <2>2. 1 \in Pending
    BY <2>1 DEF Pending, KeepInv, TypeOK, NetType
  <2> QED BY <2>2 DEF KeepInv, FreshNets
<1>27. CASE InitSucceeds
    BY <1>27, Zenon DEF InitSucceeds, window
<1>28. CASE InitFails
    BY <1>28, Zenon DEF InitFails, step, window
<1>29. CASE StartAfterLoad
    BY <1>29, Zenon DEF StartAfterLoad, Begin, window
<1>30. CASE HandleStep
    BY <1>30, Zenon DEF HandleStep, Event, window
<1>31. CASE HandleEnded
    BY <1>31, Zenon DEF HandleEnded, Event, CloseAllWindows, DeleteSim, window
<1>32. CASE Exit
    BY <1>32, Zenon DEF Exit, window
<1>33. CASE ExitEnds
    BY <1>33, Zenon DEF ExitEnds, Destroy, window
<1>34. CASE Joined
    BY <1>34, Zenon DEF Joined, CloseAllWindows, DeleteSim, window
<1>35. CASE DestroyRunThread
    BY <1>35, Zenon DEF DestroyRunThread, CloseAllWindows, DeleteSim, window
<1>36. CASE WaitForThread
    BY <1>36, Zenon DEF WaitForThread, window
<1>37. ASSUME NEW t \in Thread, DeleteSimLock(t) PROVE myNet' = myNet
    BY <1>37, Zenon DEF DeleteSimLock, window
<1>38. ASSUME NEW t \in Thread, DeleteSimWait(t) PROVE myNet' = myNet
    BY <1>38, Zenon DEF DeleteSimWait, window
<1>39. ASSUME NEW t \in Thread, DeleteSimEnd(t) PROVE myNet' = myNet
    BY <1>0, <1>39, Zenon DEF DeleteSimEnd
<1>40. CASE UNCHANGED vars
    BY <1>40, Zenon DEF window, vars, step, flags
<1> QED
    BY <1>1, <1>2, <1>3, <1>4, <1>5, <1>6, <1>7, <1>8, <1>9, <1>10, <1>11, <1>12, <1>13, <1>14,
        <1>15, <1>16, <1>17, <1>18, <1>19, <1>20, <1>21, <1>22, <1>23, <1>24, <1>25, <1>26,
        <1>27, <1>28, <1>29, <1>30, <1>31, <1>32, <1>33, <1>34, <1>35, <1>36, <1>37, <1>38,
        <1>39, <1>40
    DEF Next, RunThreadNext, MakeStepActions, UserNext, WindowNext, DeleteSimActions

\* While makeStep() performs a step and reports its end, neither deleteSim() nor
\* a network that was loaded takes its network away.
THEOREM RunStepKeepsNet == Spec => StepKeepsNet
<1>1. KeepInv /\ [Next]_vars =>
          [/\ pc["run"] \in {"step", "stepped", "state", "ended", "single", "finish"}
           /\ myNet = foundNet /\ myNet # NoNet
           => myNet' = myNet]_vars
    BY StepKeeps
<1> QED BY <1>1, KeepCorrect, PTL DEF Spec, StepKeepsNet
=============================================================================
