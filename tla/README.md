# Verification of the discrete core of SUMO

This directory holds TLA+ models of the discrete core of Eclipse SUMO, the TLC
configurations that check them on small instances, and TLAPS proofs of what
matters most about them. Paths are relative to the source directory of the
repository, `src/`.

SUMO is a time-discrete traffic simulation. Positions and speeds are real
valued and out of scope here. What is in scope is who owns a vehicle at any
time and how it is counted, when the simulation is over, and what runs side by
side with it: the threads of the graphical program, the worker threads that
compute routes, the persons that walk, wait and ride through it, the scripts
that control the simulation over a socket, and simpla, the package that forms
platoons from such a script.

## 1. Inventory

| Component (sources under `src/`) | State | Operations | Talks to | Hard behaviour | What makes it correct |
|---|---|---|---|---|---|
| Heap of waiting vehicles, `microsim/MSVehicleContainer` | binary heap of (departure, vehicles) | add, remove, addReplacing, pop, anyWaitingBefore | insertion | remove after percolation, departures inside one step, growth of the array | heap order; every vehicle delivered in its step; removed vehicles are gone |
| Insertion, `microsim/MSInsertionControl` | the heap, pending and refused lists, candidates, aborted vehicles, flows | add, determineCandidates, checkCandidates, emitVehicles, tryInsert, descheduleDeparture, alreadyDeparted | vehicle register, lanes, routing devices, clients | retries every step, several reasons to give up, commands between the phases | one entry per vehicle; bounded wait; no stale pointers |
| Vehicle register, `microsim/MSVehicleControl` | dictionary, loaded/running/ended/discarded/waiting numbers, `myWaiting` | buildVehicle, addVehicle, vehicleDeparted, scheduleVehicleRemoval, deleteVehicle, registerOneWaiting | everything that creates or ends a vehicle | many paths must each update every counter once; the end of the run is computed from the counters | counters equal the vehicles in each state |
| Transfer, `microsim/MSVehicleTransfer` | list of teleporting and parking vehicles | add, remove, checkInsertions | lanes, register | a vehicle leaves the road and returns, or arrives in between | a vehicle is on a lane or in the list, never both |
| Loop, `microsim/MSNet` | step, phase | simulationStep, simulationState | all above, persons, clients | the order of phases; the verdict that nothing is left to do | the run ends only when every vehicle left waits for a person |
| Life of a vehicle, `MSVehicle`, `MSLane`, `MSRouteHandler`, `MSPerson`, `libsumo/Vehicle` | departed, on road, stop | insert, processNextStop, resumeFromStopping, leaveLane, closeVehicle, proceed, remove, moveTo | all above | stops that wait for persons, teleports from a stop, removal by a client at any time | the life cycle of section 3 |
| Simulation thread of the GUI, `gui/GUIRunThread`, `GUIApplicationWindow`, `GUILoadThread` | network pointer, flags, lock, event queue | run, makeStep, deleteSim, init, commands and events of the window | window, run and load thread | three threads, a lock, a flag that is spun on, exceptions, reload and quit at any time | no step on a deleted network; events belong to the network at hand; closing and quitting end |
| Worker threads, `utils/foxtools/FXWorkerThread`, `microsim/devices/MSRoutingEngine`, `router/RONet` | task lists, counters, conditions, route cache | add, addFinished, waitAll, stop, clear | routing devices, duarouter | lost signals, reset of the counters, tasks discarded by stop, order within one worker | waitAll returns when every task is done; every vehicle gets its own route |
| Persons and containers, `microsim/MSTransportableControl`, `MSTransportable`, `pedestrians/MSPerson`, `devices/MSDevice_Transportable` | three waiting maps, running and waiting numbers, plans, riders of each vehicle | add, checkWaiting, setWaitEnd, boardAnyWaiting, proceed of each stage, abortWaitingForVehicle, erase | vehicles, pedestrian model, loop | maps change while they are walked; a call of proceed may pass several stages or erase its person; vehicles leave with riders | one map, queue, vehicle or model holds each person; numbers agree; the end leaves nobody behind |
| Recurring events, `microsim/MSEventControl` | queue of commands | addEvent, execute | signals, devices, triggers | late and negative times, repeated commands, exceptions | each command runs once per due time |
| Traffic lights, `microsim/traffic_lights` | programs, WAUT switches, reservations | switchTo, addSwitchCommand, setSwitches | events, lanes | switching while a switch is pending | one active program; blocks reserved once |
| Remote control, `traci-server`, `libsumo` | clients, turns, target times, output storage, subscriptions, controlled vehicles | commands, simulation steps of clients, closing | loop, client libraries | clients in order, one output storage for all, connections that end, vehicles gone when used | each answer goes to its call; nobody is left behind; commands act on vehicles that exist |
| TraCI client library, `tools/traci` of the repository | queue and string of commands, subscription results | _sendExact, subscribe, addSubscriptionFilter, simulationStep, close | the server | a failed call leaves the connection usable; filters are sent late | every call returns, with its own answer |
| Platooning, `tools/simpla` of the repository | lists of platoons, mode and countdown of each vehicle | step with its loops, stop | TraCI client | membership is kept three times; switches are refused; information is one pass old | the three agree; modes fit the platoon; membership settles |
| Mesoscopic model, `mesosim` | queues of segments, leader cars | receive, send, checkInsertion, changeSegment | insertion, register | event order, full segments | a vehicle in one queue |
| Parking areas and stopping places | occupied and reserved spaces | enter, leaveFrom, reserve | vehicles | stale reservations | occupancy agrees with vehicles |
| State files, `microsim/MSStateHandler` | all counters | saveState, loadState | register | partial restore | counters agree after loading |

Not examined further: detectors and outputs (they observe only), the take over
control device, the undo list of netedit, netconvert/netgenerate/netedit, what
duarouter, od2trips, marouter, dfrouter, jtrrouter and activitygen compute,
polyconvert, osgview, sumolib, and the contributed Python programs (sumopy).
They are batch or drawing programs or libraries without a life cycle
(`PROJECT.json` says which, under `components`). The
hazards of the code are listed in `PROJECT.json` under `hazards`, each at its
line with the properties that watch it.

## 2. Plan

Done, in this order:

| Modules | Part | Proofs |
|---|---|---|
| `VehicleContainer` | heap of waiting vehicles | `VehicleContainer_proof` |
| `VehicleLifecycle`, `SimulationStep` | abstract life of a vehicle, the step loop that refines it | `SimulationStep_proof`, `SimulationStepPlaces_proof` |
| `RunThread` | threads of the GUI | `RunThread_proof` |
| `PlatoonOrdering`, `Platooning` | simpla; the order of a platoon as a function, the manager as a state machine over it | `Platooning_proof` |
| `TraCISession` | scripts, client library and server loop | `TraCISession_proof` |
| `WorkerBatch`, `WorkerPool` | what a pool promises, the pool and its users that refine it | `WorkerPool_proof` |
| `Transportables` | persons, their control, their vehicles as they see them | `Transportables_proof` |

Left:

1. `SimulationStep` composed with `Transportables`: boardings are a free choice
   of the former and what vehicles do a free choice of the latter.
2. Containers as a second instance of `Transportables`, and the commands of
   clients that abort stages.
3. `EventControl` with a client of it (WAUT switches).
4. State files: a `Restore` action over the counters of `SimulationStep`.

## 3. The vehicle control

### Modules

- `VehicleContainer` translates `MSVehicleContainer.cpp` statement by
  statement on the array of the heap, and the three ways MSInsertionControl
  uses it. The vehicles of an item leave together, so their list is a set. The
  two percolations are recursive functions over the position of the hole.
- `SimulationStep` composes insertion, register, transfer, the life of a
  vehicle and the loop. The container is represented by what the heap run
  shows of it when departures are whole steps (`AlignedExact`): per vehicle the
  number of entries, due when its departure is reached.
- `VehicleLifecycle` is the abstract specification: a vehicle is built, departs
  at most once, leaves at most once, or is discarded, and the end is announced
  only when all that remain wait for a person. `Lifecycle` in `SimulationStep`
  is the refinement mapping.
- `VehicleContainer_proof`, `SimulationStep_proof` and
  `SimulationStepPlaces_proof` (places, counters, waiting numbers, life cycle)
  hold the theorems.
- `MCVehicleContainer` and `MCSimulationStep` name the instances for TLC.

With departures inside a step, `remove` may miss its vehicle: it takes the
first item of the array whose departure matches
(`microsim/MSVehicleContainer.cpp:96`), and after a percolation the vehicle can
be in another one. It then stays in the heap after it was removed. So
`AlignedExact`, exactness of the heap, has whole-step departures as its
premise, and so has `SimulationStep`, which builds on it. `HeapOrder` and
`DeliveryWindow` are claimed for all departures.

### Correspondence

`phase` says where in `MSNet::simulationStep` the loop is: `begin` (client
commands, events), `move` (execution of movements, `todo` the vehicles not yet
visited; collisions), `load` (routes), `persons`, `candidates` (flows, then
`checkCandidates`), `emit` (`emitVehicles`, one vehicle at a time),
`transfer` (`checkInsertions`, one vehicle at a time). `myStep` advances in
`EndStep`, and `Close`/`Stopped` are the verdict of `simulationState`. Each
action of `Next` is one handler at one vehicle: `MoveTo`, `RemoveDeparted`,
`RemoveUndeparted` are client commands, `BoardTriggered` is
`MSPersonStage_Driving::proceed`, `ProcessNextStop` and its branches are
`MSVehicle::processNextStop`, `ExecuteMove` is the end of a vehicle's move in
`MSLane`, `CloseVehicle` is the route handler with the quota of the demand
scaling, `EmitFlow` the flow loop, `TryInsert` with `DiscardPending` and
`NotInserted` is `tryInsert`, `CheckInsertions` is the transfer.

Variables keep the source's names. `myAllVeh`, `myPendingEmits` and
`refusedEmits` count the entries of each vehicle, so that a vehicle queued
twice is visible. `stop` folds reached, triggered, registered and full into
one state. `transfer` is the entry in `MSVehicleTransfer`. `ended` is the
verdict SIMSTATE_NO_FURTHER_VEHICLES.

Free choices stand for dynamics and data: whether a vehicle arrives, teleports,
reaches a stop or collides; whether a lane takes a vehicle; whether persons
board. Times are whole steps. The flow is known from the start with base
departure 0 and a fixed period.

### Runs

| Run | Question | Bound, and why it is enough |
|---|---|---|
| `heap` | order of the heap, exactness with whole-step departures, delivery within a step | five interchangeable vehicles, departures on and between steps: three levels of the heap, a growth of the array, shared items |
| `core` | one place, counters, waiting numbers, life cycle | a plain, a triggered and a flow vehicle, five steps, capacity two, delay limit one: every phase can refuse, delay and abort each vehicle, and every pair of owners can meet |
| `demand` | the counters when the scaling drops or doubles, and the bounded wait | two base vehicles and their copies, three steps |
| `early_end` | does the run end only when all vehicles have left? | one vehicle, three steps |

`early_end` is a violation: a full vehicle at a triggered stop stops waiting
and is registered as waiting in the same branch, so the loop sees no active
vehicle and the run ends (section 9). The vehicle of the trace has no riders,
who would keep the run going, and is full all the same: its type has a person
capacity of 0, or it has the default container capacity of 0 at a stop
triggered by containers.

Only safety is claimed of the step loop. It is sequential, and what must
eventually happen depends on traffic dynamics that the model leaves free; no
fairness is assumed, and the runs have no bound other than `MaxStep`.

### Proofs of the heap

`VehicleContainer_proof` proves the four properties of `heap` from
`ContainerAssumption` alone: any vehicles, any departures, any positive step
length, a heap of any size. A vehicle is added once, as each is built once.

- `HeapInv` is the inductive invariant. The order of the heap (`Ordered`) is
  kept by `AddReplacing` and `PercolateDown` whatever they are given; the other
  properties also need what the lookups rest on. `Filed`: a vehicle is in an
  item whose time lies in the step window that starts at its departure, so it
  is delivered neither early nor late although the item's time may be another
  vehicle's. `ItemsApart`: no two items share a time or a vehicle, so removing a
  vehicle from one item removes it from the heap. `AskedFor`: every time in the
  heap is the departure of some vehicle; for departures on steps a window then
  has one time in it, at most one item matches, and `remove` cannot miss, which
  gives `AlignedExact`.
- The provers have no induction over the recursive functions. That a recursive
  function exists is shown from its table of values (`HoleRecursion`,
  `PopsDefined`), and what it computes by its least counterexample (`LeastOf`,
  from the well-founded order of finite sets): the smallest position of the hole
  where the percolation up goes wrong, the largest where the one down does.
- Both percolations are described by the permutation they apply
  (`Rearranged`), so that what holds of the items and not of their order is
  kept at once; `Keeps` says it of a pop and `Popped` of the loop of
  `checkCandidates`.
- `HeapDeliversInWindow` follows from `HeapInv` and from what the loop leaves:
  the root is the least of an ordered heap, so it stops only when nothing due is
  left.

### Proofs of the step loop

The assumptions are `StepAssumption` (types of the constants, `Veh` finite)
and, except for the first two theorems, `SafeEnvironment`: clients do not
remove or move triggered vehicles, and the scaling does not double them. The
code does not keep to that by itself: a scale above one registers a triggered
vehicle with the inserter and leaves it in `myWaiting`
(`microsim/MSRouteHandler.cpp:681`), so that it may depart before its person
boards, and a client may delete a vehicle that `myWaiting` still points to
(`libsumo/Vehicle.cpp:1390`). Either breaks `OnePlace` or `WaitingAgrees` in the
model. Both are listed as hazards; `core` is run inside the assumption.

- `StepTypeCorrect`: `TypeOK`, inductive as it stands.
- `StepWaitBounded`: without routing devices no vehicle with a given departure
  outlives max-depart-delay; strengthened by what `refusedEmits` holds during
  an emission.
- `StepOnePlace`: from the invariant `IInv`. `OnePlace` alone is not inductive: a vehicle the movement loop has yet to visit must
  still be on a lane (`TodoPlaced`), a vehicle that departed was built, and
  the state of a stop must agree with `myWaiting` (`Listed`), because leaving a
  lane decides by the stop whether `myWaiting` changes.
- `StepCountersAgree`: on top of `IInv`, every counter equals the cardinality
  of the set it stands for; each action moves at most one vehicle between the
  sets, and the cardinality lemmas follow from the library's theorems on finite
  sets.
- `StepWaitingAgrees`: the number waiting for a person is the cardinality of
  the registered vehicles.
- `StepImplementsLifecycle`: `Spec => LifecycleSpec` under the refinement
  mapping. The step that ends the run needs both counter theorems: zero active
  vehicles means that all present vehicles are registered.

## 4. The simulation thread of the GUI

`RunThread` has two threads with a program counter and the load thread. The
places of `run` follow `GUIRunThread::run` and `makeStep`: `idle` (the head of
the loop), `breakpoints`, `begin`, `lock`, `step`, `stepped`, `state`, `ended`,
`single`, `finish`, `snapshots`, `halt`; `failed`, `report`, `reported` are the
handler of exceptions. `deleteLock` and `deleteWait` are `deleteSim`, which both
threads call; `next` says where the window thread goes on after it. The window
thread takes user commands and the events of the queue in `ready`. The two
writes of `resume` are one step: the run thread reads the two flags at
different places, and each interleaving has the outcome of an order of whole
commands. A network is a number, `NoNet` the null pointer; deletion and the
assignment of null are one step, since either makes a use undefined, which the
model ends in `crashed`. `foundNet` is a history variable.

Reads and writes of the flags are atomic, except that a build may hoist the
read of `mySimulationInProgress` out of the waiting loop (`RereadsFlag`), as
the data race permits. `mySingle` and `myWasStarted` have no initial value in
the code and none in `Init`.

| Run | Question | Bound |
|---|---|---|
| `run_thread` | a step keeps its network; no event of an old network after the next one; quitting ends | two networks of two steps, end step 1, all commands, all option modes, failing steps and loads: one reload after each way to end |
| `delete_sim` | does closing return? | one network, start and close; the deadlock does not need a hoisted read |

`RunThread` stops when the window is gone, when the process has crashed, or
when threads wait for each other, so deadlock is not checked there; the
liveness properties say where it must not stop.

Fairness: the operating system schedules both threads (weak fairness of each
thread's steps while the process runs). No fairness is assumed of the user or
of the load thread. `QuitTerminates` holds although closing may deadlock,
because the destructor joins the run thread before it deletes the simulation.
`MaxTime` and `MaxNets` bound the model; a run thread at `MaxTime` idles, as if
halted.

`myHaveSignaledEnd` is set when the end of a run is signalled and never reset
(`gui/GUIRunThread.cpp:192`). A second network that reaches the end step is
therefore not reported: in demo mode it runs on past its end instead of
starting again. The model has this; no document promises otherwise.

`StepKeepsNet` is stated for the network the loop found at its head: when a
run thread is delayed from there until another network is loaded, `init`
clears the flag of the step it then performs if loading the routes fails.

### What is proved

`RunThread_proof` proves, from `RunAssumption` alone, for any number of
networks, steps and breakpoints and any set of commands and options:

- `RunTypeCorrect`: `Spec => []TypeOK`, which includes that the lock is held
  exactly between the places that take and release it. `TypeOK` is inductive.
- `RunEventsOfLoadedNet` and `RunStepKeepsNet`: the invariant
  `EventsOfLoadedNet` and the action property `StepKeepsNet`.

Both rest on `KeepInv`, which is inductive (model checked with the bounds of
`run_thread` before it was proved). Neither property is inductive by itself.
`FreshNets` says that a network that waits in the queue is the only one and
newer than any the run thread has found, so taking it over cannot revive the
step or the reports of an old one. `Flagged` says that the flag is set
from the taking of the lock to the end of the report, so `deleteSim` waits.
`HaltedBefore` covers the one other writer of the flag: `init` clears it when
it fails, but halting from `deleteSim` to `init` keeps the run thread from
finding the new network before that. `QuitSeen` excludes that the window thread
starts a run while the run thread deletes its own network.

## 5. Platooning (simpla)

### Correspondence

`Platooning` models `PlatoonManager.step` of
`tools/simpla/_platoonmanager.py`, which the client library calls after every
simulation step. `phase` is the part of `step` that runs next; a loop over
platoons is one action per platoon, with `todo` the platoons it has still to
visit.

| Phase | Code | Actions |
|---|---|---|
| `drive` | the simulation, `simpla.stop` | `SimulationStep`, `Stop` |
| `depart` | `_addDeparted`, `_addVehicle` | `AddVehicle`; `AddVanished` when the vehicle has left again and the query of its type raises |
| `arrive` | `_removeArrived`, `Platoon.removeVehicles` | `DisconnectArrived`, `LeavePlatoon` (one vehicle), then for its platoon `DropEmpty`, `AdviseRemaining`, or `LeaderVanished`; `EndArrivals` with `_updateVehicleStates` when a control interval has passed |
| `followers` | `_manageFollowers`, `Platoon.split` | `ManageFollowers`, `TrySplit`, `EndFollowers` |
| `order` | `_updatePlatoonOrdering`, `reorderVehicles` | `UpdatePlatoonOrdering` |
| `leaders` | `_manageLeaders`, `Platoon.join` | `ManageLeaders` (`LeadAlone`, `LeadOn`, `CatchUp` or `Join`), `EndLeaders` |

`PlatoonOrdering` is the pure part: `AfterPasses` is the while loop of
`reorderVehicles` and `ReorderPass` the loop over the vehicles in it, each a
recursive function of the number of turns.

Two things are free choices. What every vehicle sees ahead is chosen in each
control pass: nothing, a vehicle that is not connected, or a connected one, and
whether the next connected one is within the platoon gap, within the catch-up
distance, or farther. And whether `isSwitchSafe` says yes is chosen at every
question, since it depends on speeds and gaps. Vehicles depart and arrive at
most once. A platoon has the lowest free slot instead of a running number. A
platoon gap of at most the catch-up distance is assumed. Lane advice, speed
factors, impatience, the time a vehicle waits for a switch and the vehicle
types of the modes are left out: the manager's decisions do not depend on them.

### Runs

| Run | Question | Bound, and why it is enough |
|---|---|---|
| `platoons` | do list, reference and dictionaries agree; is NONE solitary; is a right order found; does membership settle? | three vehicles that see one another directly ahead or nobody, and one that is not connected while at most two have departed; a control pass in each step, countdown of one interval: a split in the middle, a split of a split, a join during the pass that split, arrival of head, middle and tail |

`RoadSights` in `MCPlatooning` states two of these bounds as an action
constraint: when vehicles that are not connected are seen, and that no two
vehicles are directly ahead of each other, which takes a ring no longer than
two platoon gaps. They, the sights without the catch-up distance and the short
countdown are bounds of the run and not of the theorems below, which hold for
every sight, countdown and interval.

`Settles` is conditional: once all vehicles see what they saw in the pass
before, membership stops changing. It needs no fairness, because it says what
must not go on for ever; a behaviour that stops satisfies it.

### Proofs

`Platooning_proof` proves `TypeOK`, `MembersAgree`, `NoneIsSolitary` and
`OrderFound` for any number of vehicles and any countdown and interval, from
`PlatooningAssumption`. The inductive invariant is
`StepInv == TypeOK /\ Counted /\ Visited /\ MembersAgree /\ NoneIsSolitary`.
`MembersAgree` needs `Counted`: a vehicle that departs is not connected yet, and
one that arrives is connected or departing, or its removal would find no
platoon. It needs `Visited` because the loops hold platoons and positions in
`todo`, `cuts` and `pending` that must still be right when they are used: a
platoon that joined another one in this pass must not be visited again, and the
split positions must stay inside the platoon while it is being cut from the
end. (`MembersAgree` is also why the slots suffice: active platoons are disjoint
and not empty, so while one has two members there are fewer platoons than
vehicles.)

`OrderFound` is about what the two loops compute. They end up with the same
vehicles (`ReorderKeeps`), since a relocated vehicle is put back behind another
one. That they find the order is `ReorderFinds`, and the argument is this. Let a
vehicle be `Placed` when it has no leader in the platoon or is right behind it.
If the leader of `v` is placed before a pass, then `v` is placed after it
(`PassPlaces`): the leader is not relocated in that pass, `v` is put behind it
at the latest when `v` has its turn, and nobody is put in between, because no
other vehicle has the same leader. That needs the order `t` looked for to exist:
where two vehicles have one leader, only one of them can be behind it, and the
property says nothing. A pass may tear a placed vehicle from a leader that is
not placed, so the number of placed vehicles need not grow; but the first
`n + 1` vehicles of `t` are placed after `n` passes, and as many passes as there
are vehicles, the code's bound on its while loop, are enough. Both inductions
are over bounded sets of numbers (`Upwards`), whose least members `LeastOf`
gives; that the recursive functions exist at all is `Iteration`.

`Settles` is model-checked only: it is liveness.

## 6. Sessions of remote control (TraCI)

### Correspondence

`TraCISession` has one script per client with the client library inside it, two
channels per client (`request`, `reply`), and the loop of the server.

- `Send` is `_sendExact` of `tools/traci/connection.py` up to the wait; `Get`,
  `Subscribe`, `Step` and `Close` call it, `AddFilter` only adds to `queue` and
  `string`. `Accept`, `Fail` and `Mismatch` are the three ways to read an
  answer: all statuses acknowledge the queue, an error (`TraCIException`, the
  connection goes on), or the status of something else (`FatalTraCIError`).
  `LoseServer` is the closed socket. `ReadResults` is what `domain.py` does with
  subscription results.
- `Receive`, the `Dispatch...` actions and `Respond` are the nested loops of
  `TraCIServer::processCommandsUntilSimStep` and `dispatchCommand`: one message
  of the client whose turn it is, its commands one by one, one shared output
  storage. `HandOn` and `NewRound` say who is next and when the simulation runs
  (`myTargetTime`). `SimulationStep` is the step with the evaluation of the
  subscriptions and `sendOutputToAll`. `LoseClient` is the `SocketException`
  that ends the server.
- The vehicle may arrive in a step, which forgets the subscriptions to it, or be
  removed by a script (`RemoveVehicle`, `DispatchRemove`). A removal is noted as
  an arrival, but the note is deleted at the end of the round
  (`TraCIServer.cpp:638`), before the step looks for it: the subscriptions stay.
  Evaluating a context subscription of a vehicle that is not there raises an
  exception (`Raises`, `findObjectShape` at `TraCIServer.cpp:1188`) that
  `processCommandsUntilSimStep` passes on as a `ProcessError`; `EndServer` ends
  the connections of all clients, and what was composed is not sent. A
  subscription to the vehicle itself is answered with an error status instead.
- `Crash` ends a script at any moment, also while it waits.

`Lax` names habits of scripts beyond what is always safe:

| Habit | What it does | What it shows |
|---|---|---|
| `lone` | a filter without having just subscribed to a context | `CallsReturn` fails: the server neither reads the filter nor leaves its loop (`TraCIServer.cpp:1318`, listed as a hazard) |
| `unsent` | a step while a filter waits to be sent | `traci_lost`: the acknowledgement of the filter is dropped or goes to another client |
| `gone` | subscribing to the context of a vehicle that has left | the server ends for all scripts (`TraCIServer.cpp:1188`, listed as a hazard); in the run |
| `remove` | removing the vehicle, whatever is subscribed to | the same at the next step when a context subscription is there; in the run |
| `invalid` | a filter whose parameters the library refuses | the queue keeps the command, and the next call fails as fatal (`connection.py:278`, listed as a hazard) |

### Run, fairness, proofs

`traci` has two scripts with the habits `gone` and `remove` and without the
others, two time steps, and one filter waiting at most: each script can be ahead of, behind or in step with the other,
can close or crash at each moment, and can hold results while the other moves
the simulation. Weak fairness of the server and of each client library is that
of running processes. Strong fairness of `Advance` is an assumption about the
scripts: one that issues commands for ever and never a step does keep the
simulation, and the other client, waiting.

`AnswersOwn` says that no answer is lost or read by another call, and that, as
long as no process crashes, a call is cut off for one reason only: the server
has ended for all, and the vehicle is not in the simulation
(`EndedWithoutVehicle`). That no call is cut off at all is `NobodyCutOff`; it
holds for scripts that neither remove the vehicle nor ask for the context of
one that has left, and is proved for them. `CallsReturn` holds with both habits:
a script whose call is pending when the server ends gets an error.

`SessionNobodyLeftBehind` holds for scripts of any habits, from `TurnInv`: who
has not had its turn in this round has a target time that is reached, and when
nobody has the turn all have asked for a later time. `SessionTypeCorrect`,
`SessionAnswersOwn` and `SessionResultsOfLastStep` assume that filters are not
sent with a step and not refused (`Lax` without `unsent` and `invalid`), as
they must; `SessionNobodyCutOff` also that `Lax` has neither `gone` nor
`remove`, for then the vehicle leaves in a step only and no context
subscription outlives it. `AnswersOwn` is far from inductive: it follows from `SessionInv`,
which says for each connected client at which of the points of a call it is
(idle, request sent, being served with what is left in `input` and composed in
`output` together matching `queue`, waiting for the step, answer sent) and that
nothing of it is anywhere else. A server that has ended without the vehicle
counts there like a dead process (`SomeDead`). `CallsReturn` is model-checked only.

Not modelled: CMD_LOAD, CMD_SETORDER, the embedded mode, unsubscribing and its
post-processing, a vehicle that the insertion discards before it departs (it
does not count as arrived either), step listeners, several labelled connections of one script, a
send into a socket that is already dead, and the encoding of values.

## 7. Worker threads

### Correspondence

`WorkerPool` is `FXWorkerThread.h` together with three programs that use it
(`program`): `sumo`, the routing devices with the route cache of
MSRoutingEngine; `plain`, duarouter with one task per vehicle; `bulk`, duarouter
with bulk routing, where the vehicles of a departure edge go to one worker
between two tasks that switch its router's bulk mode.

`at` is where each worker is in `run`: `none` (not created), `head` of the loop,
`lock`, `test`, `block`, `asleep` (the list and its condition), `running`,
`cache`, `find`, `insert` (the cache section of `RoutingTask::run`), `report`,
`count` (`addFinished`), `gone`. `main` is where the thread that uses the pool
is: `idle` (nothing since the last wait), `free`, `add`, `push`, `wait`, `test`,
`block`, `asleep` (in `waitAll`), `clear`, `stop`, `join`, `over`. A mutex has
no variable: it is held when some thread is at a place inside one of its
sections (`TasksFree`, `PoolFree`, `SyncFree`). Waiting on a condition is two
places, `block` with the mutex and `asleep` without it, and `Wake`, `WakeMain`
are wake-ups without a signal, which the condition variables allow.

`WorkerBatch` is what a pool promises: tasks are handed over, completed one at a
time in any order, and a wait ends only when nothing is open. `Batch` is the
refinement mapping, with `Open` the tasks being added, queued or taken.

### Run and fairness

`workers`: two threads, two trips, three vehicles, each of the three programs,
and a second network after a completed wait. It asks whether a task is counted
once, the batch keeps its promise, the cache and the routes at the end of a wait
are right, no signal is slept through, and calls return. Two threads and three vehicles make
a worker idle, busy and with a queue, let both race for the cache, and give bulk
routing a group of two and another edge for the other worker. Fairness
is that of the scheduler: every thread is weakly fair where it does not wait for
a mutex, and strongly fair where it does (a mutex that becomes free again and
again is not taken by others for ever). `CallsReturn` holds under it. Nothing is assumed of what the user calls, nor of wake-ups without a
signal.

`Reloads = {"abandoned"}` would load a network also after a run that ended with
tasks in flight. `CallsReturn` then fails: `Pool::clear` deletes the workers with
their lists, but `myRunningIndex` and `myNumFinished` stay in the static pool,
so the next `waitAll` waits for tasks that no longer exist. `CacheHolds` then
fails too: `MSRoutingEngine::cleanup` clears the cache (line 335) before it
stops the workers (line 341), and a task that finishes in between caches the
route of a deleted vehicle. Both are hazards in `PROJECT.json`; the theorems
assume `"abandoned" \notin Reloads`.

### Proofs

`WorkerPool_proof` proves, for any number of threads, trips and vehicles,
`TypeOK`, `Accounted`, the refinement `BatchSpec`, `CacheHolds`, `RoutesReady`
and `SignalsHeard`.

- `PoolInv == ShapeInv /\ CountInv`. `Accounted` alone is not inductive: that an
  index is open or finished, never both, survives a completion only if the
  index was in one place (`Apart`: being added, or queued or taken at one
  worker; `NoTwice`: once in a list), and `myNumFinished` counts the finished
  ones only if they are finitely many.
- The refinement follows from `PoolInv`: the counters are equal in `waitAll`
  exactly when `Open` is empty, which is the guard of the abstract `Return`.
- `CacheInv`: tasks fit what their vehicle asked (`Fitting`), routers of sumo
  are never in bulk mode, so a route is computed for its own trip (`Routed`),
  one worker at a time is between looking into the cache and inserting
  (`OneInserts`), and while a network is being unloaded nothing is open.
- `RoutesInv == InOrder /\ Modes /\ Covered`, for `RoutesReady`. `RoutesReady`
  speaks of the end of a batch only; what holds in between is that each vehicle
  has its route or a task that will compute it (`Covered`), and that the task
  computes it from the right search tree (`Modes`). The second is about what a
  router will do: in bulk mode it keeps its tree, which is the right one only
  if every route it gets until the mode ends has the trip of the tree. `Modes`
  says so of the set of tasks `Ahead(w)` of a worker, those in its list, the
  one it runs and those the user has still to hand to it, each with the index
  it has or will get: of the first of them (`TreeFits`) and of each later start
  of the mode, where the tree will be that of the task just before
  (`GroupFits`). This is inductive because a worker runs its tasks in the order
  of their indices (`InOrder`) and because `createBulkRouteRequests` names one
  worker for a whole group: adding and taking tasks leaves `Ahead(w)` as it is,
  running one takes its first element away (`RouteRun`, `SwitchRun`), and a new
  group is appended as a whole (`GroupAdded`).
- `SignalInv == Exclusive /\ Sleepers`, for `SignalsHeard`. A thread tests and
  falls asleep in two steps. What it found in the first holds in the second and
  while it sleeps (`Sleepers`): nobody else changes what it tested without the
  mutex it has kept in between (`Exclusive`), and who changes it later signals
  in the same section. With `Accounted`, counters that differ mean a task that
  is open.

`CallsReturn` is model-checked only: it is liveness.

Not modelled: exceptions in tasks (they end the process), `descheduleDeparture`
from a worker (a hazard), the read of the cache without the mutex while a worker
writes it, a pool of size zero (`device.rerouting.threads` 0), trips not between
districts, and the users in marouter, in the lookup tables of A* and in
CHRouterWrapper, which each use a pool for one batch.

## 8. Persons

### Correspondence

`Transportables` has the persons of a run, `MSTransportableControl` that wakes
them, and vehicles as far as persons see them. A person is its plan, the
current stage first (`plan`), and whatever will call `proceed` on it next:

| Kept by | Variable | Goes on with | Actions |
|---|---|---|---|
| departures | `myWaiting4Departure` | first loop of `checkWaiting` | `add`, `BeginCheck`, `Depart`, `EndDepartures` |
| ends of stops | `myWaitingUntil` | second loop of `checkWaiting` | `ProceedWait` with `setWaitEnd`, `WaitEnds`, `EndUntils` |
| queue at an edge | `myWaiting4Vehicle` | `boardAnyWaiting` of a stopped vehicle, or the end of the run | `ProceedQueue` with `addWaiting`, `boardAnyWaiting`, `EndRun` |
| vehicle | `aboard` | `notifyMove` at a stop, `notifyLeave` when the vehicle leaves the net | `Stop`, `Leave`, `Alight`, `Alighted` |
| pedestrian model, `ProceedCmd` | `onFoot` | `moveToNextEdge`, `ProceedCmd::execute` | `ProceedWalk`, `WalkEnds` |

A loop hands a person over (`call`) and one of the `Proceed` actions is the
whole call of `MSPerson::proceed`, with every stage it passes: walks of
duration 0 and trips call it again, so it ends in the first stage that lasts
(`Reaches`, `RemainsIn`) or with the erasure of the person (`ProceedOut`, or
`ProceedRefused` when the pedestrian model finds no way). `left` holds who a
loop has still to visit, since the maps and lists change under it. `phase` is
the part of `simulationStep`: `walks` (events and pedestrians), `vehicles`
(planning and execution of movements), `load`, `departures` and `untils` (the
loops of `checkWaiting`), `after` (insertion, transfers, `simulationState`).

What vehicles do is a free choice: when and where they stop, wait for a person
(`awaiting`, then inactive), go on and leave, also from a stop. A vehicle on a
lane serves its stop in `vehicles`, one that parks in `after`, when the transfer
is checked. A full vehicle ignores that it should wait, but is inactive until it
goes on. A vehicle in `GivenUp` may be discarded by `tryInsert` (`GiveUp`). Which of the persons in a queue a
vehicle takes is free up to its line and its capacity, for positions and
boarding times decide it. The order within the code's vectors is arbitrary.
Times are whole steps. Access to a stop and what a trip turns into belong to
the plan from its beginning.

### Runs

| Run | Question | Bound, and why it is enough |
|---|---|---|
| `persons` | one keeper per person; numbers; nobody left behind | two persons, two vehicles of capacity one and two, two edges, three steps, departures 0 and 1, five plans: rides after walks, stops and rides, a trip, an access, walks of duration 0 first and last, stops by duration and by "until", stops that are over as they begin; one of the vehicles may be given up. Two persons can depart together, share or compete for a vehicle, and one can alight while the other departs or waits |
| `lost_person` | is every stop's end noticed? | the same |

Deadlock is not checked: a run ends when `Finished` holds, or at `MaxStep`.

`lost_person` is a violation. `setWaitEnd` refuses to register a person it
finds among the departures of that time, "to avoid double registration"; the
departures of the present step are still in the map while they are processed.
A person whose first lasting stage is a stop with no duration and no later end
is among them, and nothing ever goes on with it. `EveryoneKept` excepts exactly
such stops (`Brief`), and says of everybody else that there is one keeper, not
two and not none.

The other exception is a person that has boarded a vehicle which `tryInsert`
gives up before it departs (`Stranded`): too long a wait, an edge that is to be
vaporized, or an aborted insertion. `deleteVehicle` then destroys the device
that holds the rider without a call of `notifyLeave`
(`microsim/MSInsertionControl.cpp:150`);
nothing proceeds the rider any more, who goes on counting as running, so that
the run does not end for want of vehicles. It is listed as a hazard.

`setWaitEnd` also enters an empty departure for the time it asks for
(`operator[]`). Made while the departures of that time are over, the entry stays
and `hasNonWaiting` stays true: the run goes on until its end time. The
model has it; it does not contradict any document.

Only safety is claimed. That vehicles come and that walks end are dynamics.

### Proofs

`Transportables_proof` proves the four properties of `persons` for any finite
set of persons and any plans, vehicles, edges and departures, from the
assumptions of the module.

- The invariant is `TypeOK`, that after the end of the run nobody is left
  (`Over`), and during it `Going`: `PersonInv` of each person, `Loops` and
  `Counts`.
- `EveryoneKept` is not inductive. It counts only wake-ups that are still to
  come (`StillDeparts`, `StillWakes`), and whether one is depends on `now` and
  `phase`. `PersonInv` states it kind by kind: no two keepers of any kinds
  (`OnePlaceOf`, where a person that `myWaitingUntil` holds at all counts, or an
  old entry could wake it a second time), none of a person that is not in the
  simulation (`OnlyLiveOf`), a plan for everybody that is, with its start stage
  until it is counted (`PlanOf`, which makes the first call of `proceed` count
  it), and a keeper for everybody but in a `Brief` stop (`KeptOf`). `Loops` says
  what `left` holds in each phase, and that a vehicle that is gone holds nobody.
- `Counts` are the two numbers. Each action moves at most one person between
  the sets, but for `boardAnyWaiting`, where the cardinality of the taken set is
  subtracted from disjoint queues.
- `EndRun`: `Finished` makes the departures empty and the running number at
  most the number in the queues; all in queues are running, so the two finite
  sets are equal, and erasing who is in a queue leaves nobody.

Not modelled: containers with `loadAnyWaiting` (they mirror persons), the
commands of clients (`abortWaiting`, `removeStage`, `appendStage`), persons in
state files, `MSEdge::myPersons` and the stopping places' lists, which are for
drawing and for detectors, the mesoscopic model, and the statistics.

## 9. Findings

| Run | Finding |
|---|---|
| `early_end` | A full vehicle without riders (a capacity of 0) at a triggered stop is registered as waiting while it drives on; the run ends, although `tools/traci/_simulation.py:244` guarantees that all vehicles have left when the number is 0. |
| `delete_sim` | `deleteSim` holds the lock and spins on a flag that `makeStep` has set before it waits for the lock. |
| `traci_lost` | A filter that waits to be sent goes out with a step over more than one SUMO step; its acknowledgement is sent to nobody and the call ends with a `FatalTraCIError`. |
| `lost_person` | A person that departs into a stop which is over as it begins is registered in no map and never goes on. |

`PROJECT.json` quotes the lines they contradict.

## 10. What is not modelled

Out of reach of the prover, hence only model-checked: liveness and fairness
(`QuitTerminates`, `Settles`, `CallsReturn`). Every other property of the passing
runs is also a theorem.

Left out of the modelled components of sections 3 and 4: containers and their
loading (they mirror persons), mesoscopic vehicles, state files, vehicle types,
duplicate ids, probabilistic flows, random departure offsets, rerouting, the
loop in `moveTo` that uses a vehicle after its removal (undefined behaviour),
lane positions; `simulationState` is modelled there without persons that move
on their own (`hasNonWaiting` is false; section 8 has it), for runs without
TraCI. In `RunThread`: TraCI, messages, snapshots, views, and modal
dialogs, whose answer is a free choice. What sections 5 to 8 leave out is said
there.

Two hazards are in the models but not in the list of `PROJECT.json`, because no
document says what should happen instead: simpla raises when a vehicle leaves
while candidates are collected (`_platoonmanager.py:609`, `AddVanished`), and the
run thread uses its network outside the lock (`gui/GUIRunThread.cpp:135`, the
state `crashed`). A third, `abortWaiting` leaving a removed person in
`myWaitingUntil` (`microsim/MSTransportableControl.cpp:283`), needs commands of
clients that the model lacks.

The largest part of the repository by lines is not the simulation: the Python
code is mostly sumopy and other contributed programs, readers and batch scripts
under `tools`, and the C++ code of the network tools is geometry and file
formats. None of it has states that several actors share or that outlive a
call; its computations are real valued. The models follow the discrete core,
most of which is C++, and the two Python packages that talk to it while it
runs. Recurring events, traffic lights and state files belong to that core and are
left for the plan of section 2.
