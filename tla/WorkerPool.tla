----------------------------- MODULE WorkerPool -----------------------------
(***************************************************************************)
(* The worker threads of FXWorkerThread.h and the three programs that use  *)
(* them for routing: the rerouting devices of sumo (MSRoutingEngine), and  *)
(* duarouter (RONet) with and without bulk routing.                        *)
(*                                                                         *)
(* The user of the pool and the workers are threads.  `main' is where the  *)
(* user is, `at' where each worker is; a mutex is held by the thread that  *)
(* is at a place inside one of its sections.  A wait on a condition gives  *)
(* the mutex back and sleeps in one step, ends with a signal or for no     *)
(* reason, and then takes the mutex again.                                 *)
(***************************************************************************)
EXTENDS Integers, Sequences, FiniteSets

CONSTANTS
  MaxThreads,   \* device.rerouting.threads, routing-threads
  NumTrips,     \* the pairs of districts, or the departure edges of bulk routing
  MaxRequests,  \* bound on the vehicles routed with one network
  Programs,     \* the programs looked at
  Reloads,      \* "waited", "abandoned": after which cleanup a network is loaded again
  NoTask

Workers == 1..MaxThreads
Trips == 1..NumTrips
NoRoute == 0

VARIABLES
  program,
  \* the pool
  threads,         \* myWorkers.size()
  myRunningIndex, myNumFinished,
  myFinishedTasks,
  \* the workers
  at, myTasks, myStopped,
  current,         \* the task a worker has taken
  router,          \* its router: bulk mode, and the origin of the search tree it holds
  \* the thread that uses the pool
  main,
  plan,            \* the tasks it is about to add
  adding,          \* the task it is adding, and the worker that gets it
  group,           \* bulk routing: the last departure edge and its worker
  victim,          \* the worker that clear is deleting
  \* the vehicles
  asked,           \* the trip of each, in the order they ask for a route
  route,           \* the trip each route was computed for
  cache,           \* myCachedRoutes: the vehicle whose route is cached for a trip
  held             \* the vehicles whose route has a reference from the cache

poolVars   == <<threads, myRunningIndex, myNumFinished, myFinishedTasks>>
workerVars == <<at, myTasks, myStopped, current, router>>
userVars   == <<main, plan, adding, group, victim>>
routeVars  == <<asked, route, cache, held>>
vars == <<program, poolVars, workerVars, userVars, routeVars>>

\* A task before setIndex: a route for a vehicle, or a switch of the bulk mode.
Orders == [kind : {"route"}, trip : Trips, vehicle : Nat \ {0}]
          \cup [kind : {"bulk"}, value : BOOLEAN]
Tasks == [index : Nat, order : Orders]
Additions == [task : Tasks, worker : Workers]

ASSUME PoolAssumption ==
  /\ MaxThreads \in Nat \ {0} /\ NumTrips \in Nat /\ MaxRequests \in Nat
  /\ Programs \subseteq {"sumo", "plain", "bulk"}
  /\ Reloads \subseteq {"waited", "abandoned"}
  /\ NoTask \notin Tasks /\ NoTask \notin Additions

RouteFor(trip, vehicle) == [kind |-> "route", trip |-> trip, vehicle |-> vehicle]
BulkmodeTask(value) == [kind |-> "bulk", value |-> value]

\* The mutex of a worker's list, the mutex of the pool, and the pool mutex for others.
TasksFree(w) == /\ at[w] \notin {"test", "block"}
                /\ ~(main = "push" /\ adding.worker = w)
                /\ ~(main = "stop" /\ victim = w)
PoolFree == main \notin {"test", "block"} /\ \A w \in Workers : at[w] # "count"
SyncFree == \A w \in Workers : at[w] \notin {"find", "insert"}

NewRouter == [bulk |-> FALSE, tree |-> NoRoute]

Init ==
  /\ program \in Programs
  /\ threads = 0 /\ myRunningIndex = 0 /\ myNumFinished = 0 /\ myFinishedTasks = {}
  /\ at = [w \in Workers |-> "none"]
  /\ myTasks = [w \in Workers |-> <<>>]
  /\ myStopped = [w \in Workers |-> FALSE]
  /\ current = [w \in Workers |-> NoTask]
  /\ router = [w \in Workers |-> NewRouter]
  /\ main = "idle" /\ plan = <<>> /\ adding = NoTask /\ victim = 1
  /\ group = [edge |-> 0, worker |-> 0]
  /\ asked = <<>> /\ route = <<>>
  /\ cache = [trip \in Trips |-> NoRoute] /\ held = {}

-----------------------------------------------------------------------------
(* FXWorkerThread: the thread of a worker                                   *)

Go(w, from, to) == at[w] = from /\ at' = [at EXCEPT ![w] = to]
OnlyAt == UNCHANGED <<program, poolVars, myTasks, myStopped, current, router, userVars, routeVars>>

\* The head of the loop reads the flag without the mutex.
Begin(w) == Go(w, "head", IF myStopped[w] THEN "gone" ELSE "lock") /\ OnlyAt

\* Fault: a worker looks into its list without the mutex.
LockTasksNever(w) == Go(w, "lock", "test") /\ OnlyAt

LockTasks(w) == TasksFree(w) /\ Go(w, "lock", "test") /\ OnlyAt

\* Nothing to do: the thread is about to wait, with the mutex held.
FindNothing(w) == ~myStopped[w] /\ myTasks[w] = <<>> /\ Go(w, "test", "block") /\ OnlyAt

WaitForTask(w) == Go(w, "block", "asleep") /\ OnlyAt

Wake(w) == Go(w, "asleep", "lock") /\ OnlyAt

Leave(w) == myStopped[w] /\ Go(w, "test", "gone") /\ OnlyAt

Take(w) ==
  /\ ~myStopped[w] /\ myTasks[w] # <<>>
  /\ Go(w, "test", "running")
  /\ current' = [current EXCEPT ![w] = Head(myTasks[w])]
  /\ myTasks' = [myTasks EXCEPT ![w] = Tail(@)]
  /\ UNCHANGED <<program, poolVars, myStopped, router, userVars, routeVars>>

\* RONet::BulkmodeTask::run
SwitchBulk(w) ==
  LET order == current[w].order IN
  /\ at[w] = "running" /\ order.kind = "bulk"
  /\ Go(w, "running", "report")
  /\ router' = [router EXCEPT ![w].bulk = order.value]
  /\ UNCHANGED <<program, poolVars, myTasks, myStopped, current, userVars, routeVars>>

\* The router starts a new search tree unless it is in bulk mode; the devices of sumo then
\* offer the route of a pair of districts to the cache.
RunRouting(w) ==
  LET order == current[w].order
      tree  == IF router[w].bulk THEN router[w].tree ELSE order.trip
  IN
  /\ at[w] = "running" /\ order.kind = "route"
  /\ Go(w, "running", IF program = "sumo" THEN "cache" ELSE "report")
  /\ router' = [router EXCEPT ![w].tree = tree]
  /\ route' = [route EXCEPT ![order.vehicle] = tree]
  /\ UNCHANGED <<program, poolVars, myTasks, myStopped, current, userVars, asked, cache, held>>

LockSync(w) == SyncFree /\ Go(w, "cache", "find") /\ OnlyAt

\* Fault: a route is cached also when there is one.
FindCachedAlways(w) == Go(w, "find", "insert") /\ OnlyAt

FindCached(w) ==
  /\ Go(w, "find", IF cache[current[w].order.trip] = NoRoute THEN "insert" ELSE "report")
  /\ OnlyAt

InsertCached(w) ==
  LET order == current[w].order IN
  /\ Go(w, "insert", "report")
  /\ cache' = [cache EXCEPT ![order.trip] = order.vehicle]
  /\ held' = held \cup {order.vehicle}
  /\ UNCHANGED <<program, poolVars, myTasks, myStopped, current, router, userVars, asked, route>>

\* Fault: a task is reported without the mutex.
LockPoolNever(w) == Go(w, "report", "count") /\ OnlyAt

LockPool(w) == PoolFree /\ Go(w, "report", "count") /\ OnlyAt

\* Pool::addFinished, with the signal to a user that waits
AddFinished(w) ==
  /\ Go(w, "count", "head")
  /\ myNumFinished' = myNumFinished + 1
  /\ myFinishedTasks' = myFinishedTasks \cup {current[w]}
  /\ current' = [current EXCEPT ![w] = NoTask]
  /\ main' = IF main = "asleep" THEN "wait" ELSE main
  /\ UNCHANGED <<program, threads, myRunningIndex, myTasks, myStopped, router,
                 plan, adding, group, victim, routeVars>>

Locking(w) == LockTasks(w) \/ LockSync(w) \/ LockPool(w)
Working(w) == \/ Begin(w) \/ FindNothing(w) \/ WaitForTask(w) \/ Leave(w) \/ Take(w)
              \/ SwitchBulk(w) \/ RunRouting(w) \/ FindCached(w) \/ InsertCached(w)
              \/ AddFinished(w)

-----------------------------------------------------------------------------
(* The thread that uses the pool                                            *)

isFull == myRunningIndex - myNumFinished >= threads

\* Fault: the thread of a worker is not started.
NewWorkersUnstarted(n) == threads' = n /\ UNCHANGED at

\* The constructor of a worker registers it with the pool and starts its thread.
NewWorkers(n) ==
  /\ threads' = n
  /\ at' = [w \in Workers |-> IF w \in (threads + 1)..n THEN "head" ELSE at[w]]

MayAsk == main \in {"idle", "free"} /\ plan = <<>> /\ Len(asked) < MaxRequests

\* A cached route; one of a vehicle of an earlier network has been deleted.
CachedRoute(trip) == IF cache[trip] \in DOMAIN route THEN route[cache[trip]] ELSE NoRoute

\* MSDevice_Routing::preInsertionReroute takes a cached route, read without the mutex.
UseCached(trip) ==
  /\ program = "sumo" /\ MayAsk /\ cache[trip] # NoRoute
  /\ main' = "free"
  /\ asked' = Append(asked, trip)
  /\ route' = Append(route, CachedRoute(trip))
  /\ UNCHANGED <<program, poolVars, workerVars, plan, adding, group, victim, cache, held>>

\* MSRoutingEngine::reroute and saveAndRemoveRoutesUntil: a worker more while all are busy,
\* then one task.
Reroute(trip) ==
  /\ MayAsk
  /\ program = "sumo" \/ (program = "plain" /\ threads > 0)
  /\ main' = "free"
  /\ asked' = Append(asked, trip)
  /\ route' = Append(route, NoRoute)
  /\ plan' = <<RouteFor(trip, Len(asked) + 1)>>
  /\ IF isFull /\ threads < MaxThreads THEN NewWorkers(threads + 1) ELSE UNCHANGED <<threads, at>>
  /\ UNCHANGED <<program, myRunningIndex, myNumFinished, myFinishedTasks, myTasks, myStopped,
                 current, router, adding, group, victim, cache, held>>

\* The first vehicle of duarouter is routed before there is a worker.
ComputeFirst(trip) ==
  /\ program = "plain" /\ threads = 0 /\ MayAsk
  /\ main' = "free"
  /\ asked' = Append(asked, trip)
  /\ route' = Append(route, trip)
  /\ NewWorkers(1)
  /\ UNCHANGED <<program, myRunningIndex, myNumFinished, myFinishedTasks, myTasks, myStopped,
                 current, router, plan, adding, group, victim, cache, held>>

\* The first of n vehicles of one departure edge, bulk mode on, the others, bulk mode off
BulkOrders(trip, first, n) ==
  <<RouteFor(trip, first), BulkmodeTask(TRUE)>>
  \o [i \in 1..(n - 1) |-> RouteFor(trip, first + i)]
  \o <<BulkmodeTask(FALSE)>>

\* RONet::createBulkRouteRequests: the n vehicles of one departure edge, all for one worker.
BulkGroup(trip, n) ==
  /\ program = "bulk" /\ MayAsk /\ trip > group.edge /\ Len(asked) + n <= MaxRequests
  /\ main' = "free"
  /\ NewWorkers(MaxThreads)
  /\ asked' = asked \o [i \in 1..n |-> trip]
  /\ route' = route \o [i \in 1..n |-> NoRoute]
  /\ plan' = BulkOrders(trip, Len(asked) + 1, n)
  /\ group' = [edge |-> trip, worker |-> (group.worker % MaxThreads) + 1]
  /\ UNCHANGED <<program, myRunningIndex, myNumFinished, myFinishedTasks, myTasks, myStopped,
                 current, router, adding, victim, cache, held>>

\* Fault: bulk routing names no worker.
ChosenInTurn == ((myRunningIndex + 1) % threads) + 1

\* The worker that bulk routing names, or the next in turn
ChosenWorker == IF program = "bulk" THEN group.worker ELSE ((myRunningIndex + 1) % threads) + 1

\* Pool::add
Add ==
  /\ main = "free" /\ plan # <<>>
  /\ main' = "add"
  /\ myRunningIndex' = myRunningIndex + 1
  /\ adding' = [task |-> [index |-> myRunningIndex, order |-> Head(plan)],
                worker |-> ChosenWorker]
  /\ plan' = Tail(plan)
  /\ UNCHANGED <<program, threads, myNumFinished, myFinishedTasks, workerVars, group, victim,
                 routeVars>>

LockToAdd ==
  /\ main = "add" /\ TasksFree(adding.worker)
  /\ main' = "push"
  /\ UNCHANGED <<program, poolVars, workerVars, plan, adding, group, victim, routeVars>>

Signalled(w) == [at EXCEPT ![w] = IF @ = "asleep" THEN "lock" ELSE @]

\* FXWorkerThread::add
Push ==
  LET w == adding.worker IN
  /\ main = "push"
  /\ main' = "free"
  /\ myTasks' = [myTasks EXCEPT ![w] = Append(@, adding.task)]
  /\ at' = Signalled(w)
  /\ adding' = NoTask
  /\ UNCHANGED <<program, poolVars, myStopped, current, router, plan, group, victim, routeVars>>

GoMain(from, to) ==
  /\ main \in from /\ main' = to
  /\ UNCHANGED <<program, poolVars, workerVars, plan, adding, group, victim, routeVars>>

WaitAll == plan = <<>> /\ threads > 0 /\ GoMain({"free"}, "wait")

LockToWait == PoolFree /\ GoMain({"wait"}, "test")

\* Fault: the wait ends one task too early.
AllButOneFinished == myNumFinished + 1 >= myRunningIndex

AllFinished == myNumFinished >= myRunningIndex

FindOpen == ~AllFinished /\ GoMain({"test"}, "block")

WaitForFinished == GoMain({"block"}, "asleep")

WakeMain == GoMain({"asleep"}, "wait")

\* Fault: a wait does not reset the number of finished tasks.
ReturnKeepingFinished ==
  /\ main = "test" /\ AllFinished
  /\ main' = "idle"
  /\ myFinishedTasks' = {} /\ myRunningIndex' = 0
  /\ group' = [edge |-> 0, worker |-> 0]
  /\ UNCHANGED <<program, threads, myNumFinished, workerVars, plan, adding, victim, routeVars>>

\* The end of waitAll: the tasks are deleted and the counters reset.
Return ==
  /\ main = "test" /\ AllFinished
  /\ main' = "idle"
  /\ myFinishedTasks' = {} /\ myRunningIndex' = 0 /\ myNumFinished' = 0
  /\ group' = [edge |-> 0, worker |-> 0]
  /\ UNCHANGED <<program, threads, workerVars, plan, adding, victim, routeVars>>

\* MSRoutingEngine::adaptEdgeEfforts, after the last waitForAll of a step
AdaptEdgeEfforts ==
  /\ program = "sumo" /\ main = "idle"
  /\ cache' = [trip \in Trips |-> NoRoute] /\ held' = {}
  /\ UNCHANGED <<program, poolVars, workerVars, userVars, asked, route>>

\* MSRoutingEngine::cleanup at the end or after an error in a step, and the destructor of
\* RONet; the routes themselves are gone before the cache is cleared.
Cleanup ==
  /\ main = "idle" \/ (program = "sumo" /\ main = "free" /\ plan = <<>>)
  /\ main' = "clear" /\ victim' = 1
  /\ cache' = [trip \in Trips |-> NoRoute] /\ held' = {}
  /\ UNCHANGED <<program, poolVars, workerVars, plan, adding, group, asked, route>>

LockToStop == victim <= threads /\ TasksFree(victim) /\ GoMain({"clear"}, "stop")

\* FXWorkerThread::stop
SetStopped ==
  /\ main = "stop" /\ main' = "join"
  /\ myStopped' = [myStopped EXCEPT ![victim] = TRUE]
  /\ at' = Signalled(victim)
  /\ UNCHANGED <<program, poolVars, myTasks, current, router, plan, adding, group, victim, routeVars>>

Join ==
  /\ main = "join" /\ at[victim] = "gone"
  /\ main' = "clear" /\ victim' = victim + 1
  /\ UNCHANGED <<program, poolVars, workerVars, plan, adding, group, routeVars>>

Reloading == program = "sumo" /\ (IF myRunningIndex = 0 THEN "waited" ELSE "abandoned") \in Reloads

\* The end of Pool::clear.  The workers are gone with their lists; the pool keeps its counters.
Cleared ==
  /\ main = "clear" /\ victim > threads
  /\ threads' = 0
  /\ at' = [w \in Workers |-> "none"]
  /\ myTasks' = [w \in Workers |-> <<>>]
  /\ myStopped' = [w \in Workers |-> FALSE]
  /\ router' = [w \in Workers |-> NewRouter]
  /\ IF Reloading THEN main' = "idle" /\ asked' = <<>> /\ route' = <<>>
                  ELSE main' = "over" /\ UNCHANGED <<asked, route>>
  /\ UNCHANGED <<program, myRunningIndex, myNumFinished, myFinishedTasks, current,
                 plan, adding, group, victim, cache, held>>

Over == main = "over" /\ UNCHANGED vars

LockingMain == LockToAdd \/ LockToWait \/ LockToStop
InCall == Push \/ FindOpen \/ WaitForFinished \/ Return \/ SetStopped \/ Join \/ Cleared
Calls == \/ \E trip \in Trips : UseCached(trip) \/ Reroute(trip) \/ ComputeFirst(trip)
         \/ \E trip \in Trips, n \in 1..MaxRequests : BulkGroup(trip, n)
         \/ Add \/ WaitAll \/ AdaptEdgeEfforts \/ Cleanup

Next == \/ \E w \in Workers : Locking(w) \/ Working(w) \/ Wake(w)
        \/ LockingMain \/ InCall \/ WakeMain \/ Calls \/ Over

\* Every thread is scheduled; a thread that finds a mutex free again and again takes it.
\* Nothing is assumed of what the user calls, nor of a wake-up without a signal.
Fairness ==
  /\ \A w \in Workers : WF_vars(Working(w)) /\ SF_vars(Locking(w))
  /\ WF_vars(InCall) /\ SF_vars(LockingMain)

Spec == Init /\ [][Next]_vars
FairSpec == Spec /\ Fairness

-----------------------------------------------------------------------------
(* Properties                                                               *)

\* Shape of the state.
TypeOK ==
  /\ program \in Programs
  /\ threads \in 0..MaxThreads /\ myRunningIndex \in Nat /\ myNumFinished \in Nat
  /\ myFinishedTasks \subseteq Tasks
  /\ at \in [Workers -> {"none", "head", "lock", "test", "block", "asleep", "running",
                         "cache", "find", "insert", "report", "count", "gone"}]
  /\ \A w \in Workers : at[w] = "none" <=> w > threads
  /\ myTasks \in [Workers -> Seq(Tasks)]
  /\ myStopped \in [Workers -> BOOLEAN]
  /\ current \in [Workers -> Tasks \cup {NoTask}]
  /\ \A w \in Workers :
       current[w] # NoTask
         <=> at[w] \in {"running", "cache", "find", "insert", "report", "count"}
  /\ router \in [Workers -> [bulk : BOOLEAN, tree : Trips \cup {NoRoute}]]
  /\ main \in {"idle", "free", "add", "push", "wait", "test", "block", "asleep",
               "clear", "stop", "join", "over"}
  /\ plan \in Seq(Orders)
  /\ adding \in Additions \cup {NoTask}
  /\ adding # NoTask <=> main \in {"add", "push"}
  /\ group \in [edge : Trips \cup {0}, worker : Workers \cup {0}]
  /\ victim \in 1..(MaxThreads + 1)
  /\ asked \in Seq(Trips) /\ route \in Seq(Trips \cup {NoRoute})
  /\ cache \in [Trips -> Nat]
  /\ held \subseteq Nat

QueuedAt(w) == {myTasks[w][i].index : i \in DOMAIN myTasks[w]}
TakenBy(w) == IF current[w] = NoTask THEN {} ELSE {current[w].index}
Added == IF adding = NoTask THEN {} ELSE {adding.task.index}
Open == Added \cup UNION {QueuedAt(w) \cup TakenBy(w) : w \in Workers}
Finished == {task.index : task \in myFinishedTasks}

\* No task is lost or finished twice, and the two counters that waitAll compares say how
\* many are open: until the pool is cleared, every index given out belongs to a task that
\* is open or to one that is finished, never to both.
Accounted ==
  /\ Open \cap Finished = {}
  /\ main # "over" => Open \cup Finished = 0..(myRunningIndex - 1)
  /\ myNumFinished = Cardinality(Finished)

\* After waitAll every vehicle has a route that was computed from its own trip, also when
\* its router was in bulk mode and continued the search of another vehicle (RONet.cpp:513).
RoutesReady == main = "idle" => route = asked

\* The cache holds a reference for each route in it and for no other, and the route cached
\* for two districts leads from the one to the other (MSRoutingEngine.cpp:371).
CacheHolds ==
  /\ held = {cache[trip] : trip \in Trips} \ {NoRoute}
  /\ \A trip \in Trips : cache[trip] # NoRoute =>
       cache[trip] \in DOMAIN route /\ route[cache[trip]] = trip

\* No thread sleeps through a signal: a worker that sleeps has nothing to do and need not
\* stop, and a user that sleeps in waitAll waits for a task that is open
\* (FXWorkerThread.h:152, 255).
SignalsHeard ==
  /\ \A w \in Workers : at[w] = "asleep" => myTasks[w] = <<>> /\ ~myStopped[w]
  /\ main = "asleep" => Open # {}

\* The pool keeps the promise of WorkerBatch.
Waiting == main \in {"wait", "test", "block", "asleep"}
Batch == INSTANCE WorkerBatch WITH open <- Open, waiting <- Waiting
BatchSpec == Batch!BatchSpec

\* waitAll returns (FXWorkerThread.h:149), and clear stops every worker (line 105).
CallsReturn == main \in {"wait", "clear"} ~> main \in {"idle", "over"}
=============================================================================
