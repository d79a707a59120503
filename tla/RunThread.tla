----------------------------- MODULE RunThread -----------------------------
(***************************************************************************)
(* The simulation thread of sumo-gui (GUIRunThread) against the window     *)
(* thread (GUIApplicationWindow) and the thread that loads a network       *)
(* (GUILoadThread).  They share the network, the flags of the run thread,  *)
(* mySimulationLock and the queue of events.                               *)
(*                                                                         *)
(* One action is one access that another thread can come between.  Reads   *)
(* and writes of the flags are atomic, except that a build may read        *)
(* mySimulationInProgress once for the whole loop that waits for it, which *)
(* the data race permits (RereadsFlag).                                    *)
(***************************************************************************)
EXTENDS Naturals, Sequences

CONSTANTS
    EndTime,            \* mySimEndTime
    Breakpoints,        \* myBreakpoints, the times to halt at
    Commands,           \* what the user may do
    Modes,              \* the combinations of --start, --quit-on-end and --demo
    RereadsFlag,        \* whether the build reads the flag again: a set of BOOLEAN
    Outcomes,           \* of a step: TRUE if it throws, FALSE if not
    MaxNets,            \* bound of the model on the networks loaded
    MaxTime             \* bound of the model on the steps of one network

ASSUME RunAssumption ==
    /\ EndTime \in Nat /\ Breakpoints \subseteq Nat
    /\ Commands \subseteq {"start", "stop", "step", "reload", "close", "quit"}
    /\ Modes \subseteq {"manual", "start", "quit", "demo"}
    /\ RereadsFlag \subseteq BOOLEAN /\ Outcomes \subseteq BOOLEAN
    /\ MaxNets \in Nat /\ MaxTime \in Nat

VARIABLES
    pc,                 \* where each thread is
    next,               \* where the window thread goes on after deleteSim
    myNet,              \* the number of the network, or NoNet
    time,               \* the steps each network has made
    myHalting, myQuit, mySimulationInProgress, myOk, mySingle, myHaveSignaledEnd,
    mySimulationLock,   \* the thread that holds it
    haltAfter,          \* local of run()
    foundNet,           \* history: the network the loop of run() last decided to step
    myEvents,           \* the queue towards the window thread
    myAmLoading, myWasStarted, myHaveNotifiedAboutSimEnd,
    loading, nets,      \* load threads at work, and how many networks they built
    exiting,            \* getApp()->exit() was called
    mode,               \* the options in use
    crashed             \* the run thread used a network that no longer exists

flags == <<myHalting, myQuit, myOk, mySingle>>
step == <<mySimulationInProgress, myHaveSignaledEnd, haltAfter, foundNet, time>>
loader == <<myAmLoading, loading, nets>>
notes == <<myWasStarted, myHaveNotifiedAboutSimEnd, exiting, mode>>
window == <<next, loader, notes>>
vars == <<pc, myNet, flags, step, mySimulationLock, myEvents, window, crashed>>

NoNet == 0
Nets == 1 .. MaxNets
Thread == {"run", "window"}

Goto(t, place) == pc' = [pc EXCEPT ![t] = place]
Queued(type) == Append(myEvents, [type |-> type, net |-> myNet])

-----------------------------------------------------------------------------
(* deleteSim(), called by either thread.                                    *)

DeleteSim(t) ==
    /\ Goto(t, "deleteLock")
    /\ myHalting' = TRUE

DeleteSimLock(t) ==
    /\ pc[t] = "deleteLock" /\ mySimulationLock = "free"
    /\ mySimulationLock' = t
    /\ Goto(t, "deleteWait")
    /\ UNCHANGED <<myNet, flags, step, myEvents, window, crashed>>

\* A build that reads the flag once never leaves the loop.
DeleteSimWait(t) ==
    /\ pc[t] = "deleteWait" /\ mySimulationInProgress /\ FALSE \in RereadsFlag
    /\ Goto(t, "deleteStuck")
    /\ UNCHANGED <<myNet, flags, step, mySimulationLock, myEvents, window, crashed>>

Delete(t) ==
    /\ myNet' = NoNet
    /\ mySimulationLock' = "free"
    /\ Goto(t, IF t = "run" THEN "exited" ELSE next)

\* A seeded fault: deleteSim does not wait for the step to end.
DeleteSimAtOnce(t) ==
    /\ pc[t] = "deleteWait"
    /\ Delete(t)
    /\ UNCHANGED <<flags, step, myEvents, window, crashed>>

DeleteSimEnd(t) ==
    /\ pc[t] = "deleteWait" /\ ~mySimulationInProgress
    /\ Delete(t)
    /\ UNCHANGED <<flags, step, myEvents, window, crashed>>

-----------------------------------------------------------------------------
(* The run thread.                                                          *)

\* The run thread uses *myNet on its way from one place to the next.
UseNet(from, to) ==
    /\ pc["run"] = from
    /\ IF myNet = NoNet
       THEN crashed' = TRUE /\ UNCHANGED pc
       ELSE Goto("run", to) /\ UNCHANGED crashed

RunLoop ==
    /\ pc["run"] = "idle" /\ ~myQuit
    /\ ~myHalting /\ myNet # NoNet /\ myOk
    /\ time[myNet] < MaxTime
    /\ foundNet' = myNet
    /\ Goto("run", "breakpoints")
    /\ UNCHANGED <<myNet, flags, mySimulationInProgress, myHaveSignaledEnd, haltAfter, time,
                   mySimulationLock, myEvents, window, crashed>>

CheckBreakpoints ==
    /\ UseNet("breakpoints", "begin")
    /\ haltAfter' = (myNet # NoNet /\ time[myNet] \in Breakpoints)
    /\ UNCHANGED <<myNet, flags, mySimulationInProgress, myHaveSignaledEnd, foundNet, time,
                   mySimulationLock, myEvents, window>>

MakeStep ==
    /\ pc["run"] = "begin"
    /\ mySimulationInProgress' = TRUE
    /\ Goto("run", "lock")
    /\ UNCHANGED <<myNet, flags, myHaveSignaledEnd, haltAfter, foundNet, time,
                   mySimulationLock, myEvents, window, crashed>>

LockStep ==
    /\ pc["run"] = "lock" /\ mySimulationLock = "free"
    /\ mySimulationLock' = "run"
    /\ Goto("run", "step")
    /\ UNCHANGED <<myNet, flags, step, myEvents, window, crashed>>

\* simulationStep() and guiSimulationStep(), which may throw.
SimulationStep ==
    \E throws \in Outcomes :
        /\ UseNet("step", IF throws THEN "failed" ELSE "stepped")
        /\ time' = IF myNet = NoNet \/ throws THEN time
                   ELSE [time EXCEPT ![myNet] = @ + 1]
        /\ UNCHANGED <<myNet, flags, mySimulationInProgress, myHaveSignaledEnd, haltAfter,
                       foundNet, mySimulationLock, myEvents, window>>

UnlockStep ==
    /\ pc["run"] = "stepped"
    /\ mySimulationLock' = "free"
    /\ myEvents' = Queued("step")
    /\ Goto("run", "state")
    /\ UNCHANGED <<myNet, flags, step, window, crashed>>

\* simulationState(): the end step, one of the other reasons to end, or none.
States == {"other"} \cup {IF myNet # NoNet /\ time[myNet] >= EndTime THEN "end" ELSE "running"}

Signals(state) == state = "other" \/ (state = "end" /\ ~myHaveSignaledEnd)

SimulationState ==
    \E state \in States :
        /\ UseNet("state", IF Signals(state) THEN "ended" ELSE "single")
        /\ myEvents' = IF myNet # NoNet /\ Signals(state) THEN Queued("ended") ELSE myEvents
        /\ myHaveSignaledEnd' = (myHaveSignaledEnd \/ (myNet # NoNet /\ Signals(state)))
        /\ UNCHANGED <<myNet, flags, mySimulationInProgress, haltAfter, foundNet, time,
                       mySimulationLock, window>>

HaltAtEnd ==
    /\ pc["run"] = "ended"
    /\ myHalting' = TRUE
    /\ Goto("run", "single")
    /\ UNCHANGED <<myNet, myQuit, myOk, mySingle, step, mySimulationLock, myEvents,
                   window, crashed>>

HaltAfterSingle ==
    /\ pc["run"] = "single"
    /\ myHalting' = (myHalting \/ mySingle)
    /\ Goto("run", "finish")
    /\ UNCHANGED <<myNet, myQuit, myOk, mySingle, step, mySimulationLock, myEvents,
                   window, crashed>>

FinishStep ==
    /\ pc["run"] = "finish"
    /\ mySimulationInProgress' = FALSE
    /\ Goto("run", "snapshots")
    /\ UNCHANGED <<myNet, flags, myHaveSignaledEnd, haltAfter, foundNet, time, mySimulationLock,
                   myEvents, window, crashed>>

\* A seeded fault: the handler of exceptions does not release the lock.
FailStepLocked ==
    /\ pc["run"] = "failed"
    /\ mySimulationInProgress' = FALSE
    /\ Goto("run", "report")
    /\ UNCHANGED <<myNet, flags, myHaveSignaledEnd, haltAfter, foundNet, time,
                   mySimulationLock, myEvents, window, crashed>>

\* The handler of exceptions: the step is over before its end is reported.
FailStep ==
    /\ pc["run"] = "failed"
    /\ mySimulationLock' = "free"
    /\ mySimulationInProgress' = FALSE
    /\ Goto("run", "report")
    /\ UNCHANGED <<myNet, flags, myHaveSignaledEnd, haltAfter, foundNet, time, myEvents, window, crashed>>

ReportFailure ==
    /\ UseNet("report", "reported")
    /\ UNCHANGED <<myNet, flags, step, mySimulationLock, myEvents, window>>

HaltAfterFailure ==
    /\ pc["run"] = "reported"
    /\ myEvents' = Queued("failed")
    /\ myHalting' = TRUE /\ myOk' = FALSE
    /\ Goto("run", "snapshots")
    /\ UNCHANGED <<myNet, myQuit, mySingle, step, mySimulationLock, window, crashed>>

WaitForSnapshots ==
    /\ UseNet("snapshots", "halt")
    /\ UNCHANGED <<myNet, flags, step, mySimulationLock, myEvents, window>>

\* stop() at a breakpoint, and the duration is written to the network.
HaltAtBreakpoint ==
    /\ UseNet("halt", "idle")
    /\ myHalting' = (myHalting \/ haltAfter)
    /\ mySingle' = (mySingle /\ ~haltAfter)
    /\ UNCHANGED <<myNet, myQuit, myOk, step, mySimulationLock, myEvents, window>>

RunEnds ==
    /\ pc["run"] = "idle" /\ myQuit
    /\ DeleteSim("run")
    /\ UNCHANGED <<myNet, myQuit, myOk, mySingle, step, mySimulationLock, myEvents,
                   window, crashed>>

MakeStepActions ==
    \/ MakeStep \/ LockStep \/ SimulationStep \/ UnlockStep \/ SimulationState
    \/ HaltAtEnd \/ HaltAfterSingle \/ FinishStep
    \/ FailStep \/ ReportFailure \/ HaltAfterFailure

DeleteSimActions(t) == DeleteSimLock(t) \/ DeleteSimWait(t) \/ DeleteSimEnd(t)

RunThreadNext ==
    \/ RunLoop \/ CheckBreakpoints \/ MakeStepActions
    \/ WaitForSnapshots \/ HaltAtBreakpoint
    \/ RunEnds \/ DeleteSimActions("run")

-----------------------------------------------------------------------------
(* The window thread, and the load thread.                                  *)

RunAfterLoad == mode # "manual"
QuitOnEnd == mode = "quit"
DemoAutoReload == mode = "demo"

\* closeAllWindows(), after which the window thread goes on at a place.
CloseAllWindows(place) ==
    /\ DeleteSim("window")
    /\ next' = place
    /\ UNCHANGED <<myNet, myQuit, myOk, step, mySimulationLock, crashed>>

User(command) == pc["window"] = "ready" /\ command \in Commands /\ ~exiting

\* begin() once, and then resume() or singleStep().
Begin(single) ==
    /\ myOk' = (myOk \/ ~myWasStarted)
    /\ myWasStarted' = TRUE
    /\ mySingle' = single
    /\ myHalting' = FALSE

Resume(command, single) ==
    /\ User(command) /\ myNet # NoNet
    /\ Begin(single)
    /\ UNCHANGED <<pc, myNet, myQuit, step, mySimulationLock, myEvents, next, loader,
                   myHaveNotifiedAboutSimEnd, exiting, mode, crashed>>

OnCmdStart == Resume("start", FALSE)
OnCmdStep == Resume("step", TRUE)

OnCmdStop ==
    /\ User("stop")
    /\ mySingle' = FALSE /\ myHalting' = TRUE
    /\ UNCHANGED <<pc, myNet, myQuit, myOk, step, mySimulationLock, myEvents, window, crashed>>

OnCmdReload ==
    /\ User("reload") /\ ~myAmLoading
    /\ myAmLoading' = TRUE
    /\ CloseAllWindows("load")
    /\ UNCHANGED <<mySingle, myEvents, loading, nets, notes>>

OnCmdClose ==
    /\ User("close")
    /\ CloseAllWindows("ready")
    /\ UNCHANGED <<mySingle, myEvents, loader, notes>>

StartLoading ==
    /\ pc["window"] = "load"
    /\ loading' = loading + 1
    /\ Goto("window", "ready")
    /\ UNCHANGED <<myNet, flags, step, mySimulationLock, myEvents, next, myAmLoading, nets,
                   notes, crashed>>

\* A second network is refused while one exists (MSNet is a singleton).
Instances ==
    {myNet} \cup
    {myEvents[i].net : i \in {j \in DOMAIN myEvents : myEvents[j].type = "loaded"}}

Build(net) ==
    /\ loading > 0
    /\ net # NoNet => net \in Nets /\ Instances \subseteq {NoNet}
    /\ nets' = IF net = NoNet THEN nets ELSE net
    /\ loading' = loading - 1
    /\ UNCHANGED <<pc, myNet, flags, step, mySimulationLock, next, myAmLoading, notes, crashed>>

\* A seeded fault: the new network overtakes the events of the old one.
LoadEndsFirst ==
    \E net \in {NoNet, nets + 1} :
        /\ Build(net)
        /\ myEvents' = <<[type |-> "loaded", net |-> net]>> \o myEvents

LoadEnds ==
    \E net \in {NoNet, nets + 1} :
        /\ Build(net)
        /\ myEvents' = Append(myEvents, [type |-> "loaded", net |-> net])

\* eventOccurred() takes the next event.
Event(type) ==
    /\ pc["window"] = "ready" /\ myEvents # <<>>
    /\ Head(myEvents).type = type
    /\ myEvents' = Tail(myEvents)

HandleLoadFailed ==
    /\ Event("loaded") /\ Head(myEvents).net = NoNet
    /\ myAmLoading' = FALSE
    /\ IF QuitOnEnd
       THEN CloseAllWindows("exit")
       ELSE UNCHANGED <<pc, myHalting, next, myNet, myQuit, myOk, step, mySimulationLock, crashed>>
    /\ UNCHANGED <<mySingle, loading, nets, notes>>

HandleLoaded ==
    /\ Event("loaded") /\ Head(myEvents).net # NoNet
    /\ myAmLoading' = FALSE
    /\ myOk' = TRUE
    /\ myNet' = Head(myEvents).net
    /\ Goto("window", "init")
    /\ UNCHANGED <<myHalting, myQuit, mySingle, step, mySimulationLock, next, loading, nets,
                   notes, crashed>>

\* The second part of init(), under the lock.
InitSucceeds ==
    /\ pc["window"] = "init" /\ mySimulationLock = "free"
    /\ myWasStarted' = FALSE /\ myHaveNotifiedAboutSimEnd' = FALSE
    /\ Goto("window", "started")
    /\ UNCHANGED <<myNet, flags, step, mySimulationLock, myEvents, next, loader, exiting,
                   mode, crashed>>

InitFails ==
    /\ pc["window"] = "init" /\ mySimulationLock = "free"
    /\ myHalting' = TRUE /\ myOk' = FALSE /\ mySimulationInProgress' = FALSE
    /\ IF QuitOnEnd
       THEN Goto("window", "deleteLock") /\ next' = "exit"
       ELSE Goto("window", "started") /\ UNCHANGED next
    /\ UNCHANGED <<myNet, myQuit, mySingle, myHaveSignaledEnd, haltAfter, foundNet, time,
                   mySimulationLock, myEvents, loader, notes, crashed>>

StartAfterLoad ==
    /\ pc["window"] = "started"
    /\ IF RunAfterLoad /\ myNet # NoNet /\ myHalting
       THEN Begin(FALSE)
       ELSE UNCHANGED <<myOk, mySingle, myHalting, myWasStarted>>
    /\ Goto("window", "ready")
    /\ UNCHANGED <<myNet, myQuit, step, mySimulationLock, myEvents, next, loader,
                   myHaveNotifiedAboutSimEnd, exiting, mode, crashed>>

\* Only the displays change.
HandleStep ==
    /\ Event("step")
    /\ UNCHANGED <<pc, myNet, flags, step, mySimulationLock, window, crashed>>

HandleEnded ==
    /\ Event("ended") \/ Event("failed")
    /\ mySingle' = FALSE
    /\ UNCHANGED <<loading, nets, myWasStarted, exiting, mode>>
    /\ \/ /\ QuitOnEnd
          /\ CloseAllWindows("exit")
          /\ UNCHANGED <<myAmLoading, myHaveNotifiedAboutSimEnd>>
       \/ /\ DemoAutoReload
          /\ myAmLoading' = TRUE
          /\ CloseAllWindows("load")
          /\ UNCHANGED myHaveNotifiedAboutSimEnd
       \/ /\ ~QuitOnEnd /\ ~DemoAutoReload /\ ~myHaveNotifiedAboutSimEnd
          /\ myHaveNotifiedAboutSimEnd' = TRUE
          /\ CloseAllWindows("ready")
          /\ UNCHANGED myAmLoading
       \/ /\ ~QuitOnEnd /\ ~DemoAutoReload
          /\ myHaveNotifiedAboutSimEnd' = TRUE
          /\ myHalting' = TRUE
          /\ UNCHANGED <<pc, next, myNet, myQuit, myOk, step, mySimulationLock, crashed, myAmLoading>>

\* A seeded fault: the window is destroyed without telling the run thread.
DestroyUntold ==
    /\ myHalting' = TRUE
    /\ UNCHANGED myQuit
    /\ Goto("window", "join")

\* ~GUIApplicationWindow() tells the run thread to quit and waits for it.
Destroy ==
    /\ myHalting' = TRUE
    /\ myQuit' = TRUE
    /\ Goto("window", "join")

OnCmdQuit ==
    /\ User("quit")
    /\ Destroy
    /\ UNCHANGED <<myNet, myOk, mySingle, step, mySimulationLock, myEvents, window, crashed>>

Exit ==
    /\ pc["window"] = "exit"
    /\ exiting' = TRUE
    /\ Goto("window", "ready")
    /\ UNCHANGED <<myNet, flags, step, mySimulationLock, myEvents, next, loader, myWasStarted,
                   myHaveNotifiedAboutSimEnd, mode, crashed>>

ExitEnds ==
    /\ pc["window"] = "ready" /\ exiting /\ myEvents = <<>>
    /\ Destroy
    /\ UNCHANGED <<myNet, myOk, mySingle, step, mySimulationLock, myEvents, window, crashed>>

Joined ==
    /\ pc["window"] = "join" /\ pc["run"] = "exited"
    /\ CloseAllWindows("destroy")
    /\ UNCHANGED <<mySingle, myEvents, loader, notes>>

\* ~GUIRunThread()
DestroyRunThread ==
    /\ pc["window"] = "destroy"
    /\ CloseAllWindows("destroyed")
    /\ UNCHANGED <<mySingle, myEvents, loader, notes>>

WaitForThread ==
    /\ pc["window"] = "destroyed"
    /\ ~mySimulationInProgress /\ myNet = NoNet
    /\ Goto("window", "gone")
    /\ UNCHANGED <<myNet, flags, step, mySimulationLock, myEvents, window, crashed>>

UserNext ==
    OnCmdStart \/ OnCmdStep \/ OnCmdStop \/ OnCmdReload \/ OnCmdClose \/ OnCmdQuit

WindowNext ==
    \/ StartLoading \/ HandleLoadFailed \/ HandleLoaded
    \/ InitSucceeds \/ InitFails \/ StartAfterLoad
    \/ HandleStep \/ HandleEnded
    \/ DeleteSimActions("window")
    \/ Exit \/ ExitEnds \/ Joined \/ DestroyRunThread \/ WaitForThread

\* loadOnStartup() has started the load thread.  Two flags have no initial value.
Init ==
    /\ pc = [t \in Thread |-> IF t = "run" THEN "idle" ELSE "ready"]
    /\ next = "ready" /\ myNet = NoNet /\ time = [n \in Nets |-> 0]
    /\ myHalting = TRUE /\ myQuit = FALSE /\ myOk = TRUE /\ mySingle \in BOOLEAN
    /\ mySimulationInProgress = FALSE /\ myHaveSignaledEnd = FALSE /\ haltAfter = FALSE
    /\ foundNet = NoNet
    /\ mySimulationLock = "free" /\ myEvents = <<>>
    /\ myAmLoading = TRUE /\ loading = 1 /\ nets = 0
    /\ myWasStarted \in BOOLEAN /\ myHaveNotifiedAboutSimEnd = FALSE /\ exiting = FALSE
    /\ mode \in Modes /\ crashed = FALSE

Running == ~crashed /\ pc["window"] # "gone"

Next == Running /\ (RunThreadNext \/ UserNext \/ WindowNext \/ LoadEnds)

\* Threads are scheduled; a user need not do anything.
Fairness ==
    /\ WF_vars(Running /\ RunThreadNext)
    /\ WF_vars(Running /\ WindowNext)

Spec == Init /\ [][Next]_vars /\ Fairness

-----------------------------------------------------------------------------
(* Properties.                                                              *)

RunPlace == {"idle", "breakpoints", "begin", "lock", "step", "stepped", "state", "ended",
             "single", "finish", "failed", "report", "reported", "snapshots", "halt",
             "deleteLock", "deleteWait", "deleteStuck", "exited"}
WindowPlace == {"ready", "load", "init", "started", "exit", "join", "destroy", "destroyed",
                "deleteLock", "deleteWait", "deleteStuck", "gone"}
EventType == {"loaded", "step", "ended", "failed"}

AfterDelete == {"ready", "load", "exit", "destroy", "destroyed"}
Events == [type : EventType, net : Nets \cup {NoNet}]

ThreadType ==
    /\ pc \in [Thread -> RunPlace \cup WindowPlace]
    /\ pc["run"] \in RunPlace /\ pc["window"] \in WindowPlace /\ next \in AfterDelete
FlagType ==
    /\ myHalting \in BOOLEAN /\ myQuit \in BOOLEAN /\ myOk \in BOOLEAN /\ mySingle \in BOOLEAN
    /\ mySimulationInProgress \in BOOLEAN /\ myHaveSignaledEnd \in BOOLEAN
    /\ haltAfter \in BOOLEAN
NetType ==
    /\ myNet \in Nets \cup {NoNet} /\ foundNet \in Nets \cup {NoNet}
    /\ nets \in Nets \cup {NoNet} /\ loading \in Nat
    /\ time \in [Nets -> Nat]
    /\ myEvents \in Seq(Events)
LockHeld ==
    /\ mySimulationLock \in Thread \cup {"free"}
    /\ \A t \in Thread : mySimulationLock = t <=>
           pc[t] \in {"step", "stepped", "failed", "deleteWait", "deleteStuck"}

\* The shape of the state; the lock is held exactly where the code holds it.
TypeOK == ThreadType /\ FlagType /\ NetType /\ LockHeld

\* While the run thread performs the step it decided on, until it has reported
\* how the step ended, its network is neither deleted nor replaced.
StepKeepsNet ==
    [][/\ pc["run"] \in {"step", "stepped", "state", "ended", "single", "finish"}
       /\ myNet = foundNet /\ myNet # NoNet
       => myNet' = myNet]_vars

\* What the run thread reported of a step is handled while its network is
\* loaded, or when none is: never when the next one has taken its place, whose
\* run it would stop, restart or close.
EventsOfLoadedNet ==
    \A i \in DOMAIN myEvents :
        myEvents[i].type \in {"step", "ended"} /\ myNet # NoNet => myEvents[i].net = myNet

\* Once the window waits for the run thread, that thread ends, and the window
\* closes.
QuitTerminates == pc["window"] = "join" ~> (pc["window"] = "gone" \/ crashed)

\* "deletes the existing simulation": closing does not last for ever.
DeleteSimReturns ==
    pc["window"] = "deleteLock" ~> (pc["window"] \notin {"deleteLock", "deleteWait"} \/ crashed)
=============================================================================
