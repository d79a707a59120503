-------------------------- MODULE WorkerPool_proof --------------------------
(***************************************************************************)
(* Proofs about WorkerPool, for any number of threads, trips and requests  *)
(* and for all programs, when no network is loaded after a run that left   *)
(* tasks open.                                                             *)
(*                                                                         *)
(* ShapeInv says what the variables hold, CountInv that each index given   *)
(* out belongs to one task, CacheInv that the routers of sumo compute the  *)
(* trip a vehicle asked for and that one worker at a time inserts, and     *)
(* RoutesInv that a router in bulk mode has only routes of one trip ahead  *)
(* of it until a task ends the mode.  SignalInv is about the two waits:    *)
(* what a thread found before it sleeps is still so.                       *)
(***************************************************************************)
EXTENDS WorkerPool, FiniteSetTheorems, SequenceTheorems, TLAPS

\* What the user is doing: tasks are about to be added only while there are workers, the
\* workers before the victim are gone, and only tasks for a route look at the cache.
InCalls ==
  /\ plan # <<>> => /\ main \in {"free", "add", "push"} /\ threads > 0
                    /\ program = "bulk" => group.worker # 0
  /\ main \in {"clear", "stop", "join"} =>
       \A w \in Workers : w < victim /\ w <= threads => at[w] = "gone"
  /\ main \in {"stop", "join"} => victim <= threads
  /\ \A w \in Workers :
       at[w] \in {"cache", "find", "insert"} => current[w].order.kind = "route"

ShapeInv == TypeOK /\ InCalls

Places == {"none", "head", "lock", "test", "block", "asleep", "running",
           "cache", "find", "insert", "report", "count", "gone"}
Taken == {"running", "cache", "find", "insert", "report", "count"}

LEMMA PairIn ==
  ASSUME NEW S, NEW a \in S, NEW b \in S
  PROVE <<a, b>> \in Seq(S)
<1>1. <<a, b>> = Append(<<a>>, b)
  OBVIOUS
<1> QED BY <1>1

LEMMA SingleIn ==
  ASSUME NEW S, NEW a \in S
  PROVE <<a>> \in Seq(S)
OBVIOUS

LEMMA ExceptIn ==
  ASSUME NEW S, NEW s \in Seq(S), NEW i, NEW x \in S
  PROVE /\ [s EXCEPT ![i] = x] \in Seq(S)
        /\ Len([s EXCEPT ![i] = x]) = Len(s)
<1>1. s \in [1..Len(s) -> S] /\ Len(s) \in Nat
  OBVIOUS
<1>2. [s EXCEPT ![i] = x] \in [1..Len(s) -> S]
  BY <1>1
<1> QED BY <1>1, <1>2, SeqDef

LEMMA ConcatIn ==
  ASSUME NEW S, NEW s \in Seq(S), NEW t \in Seq(S)
  PROVE s \o t \in Seq(S)
OBVIOUS

LEMMA OrderTypes ==
  ASSUME NEW trip \in Trips, NEW vehicle \in Nat \ {0}, NEW value \in BOOLEAN
  PROVE RouteFor(trip, vehicle) \in Orders /\ BulkmodeTask(value) \in Orders
BY DEF RouteFor, BulkmodeTask, Orders

LEMMA RouteOrder ==
  ASSUME NEW order \in Orders, order.kind = "route"
  PROVE order.trip \in Trips /\ order.vehicle \in Nat \ {0}
BY DEF Orders

LEMMA BulkOrder ==
  ASSUME NEW order \in Orders, order.kind = "bulk"
  PROVE order.value \in BOOLEAN
BY DEF Orders

\* A worker that only moves on.
LEMMA MoveShape ==
  ASSUME ShapeInv, NEW w \in Workers, NEW from \in Places, NEW to \in Places,
         Go(w, from, to), OnlyAt,
         from \notin {"none", "gone"}, to # "none", from \in Taken <=> to \in Taken,
         to \in {"cache", "find", "insert"} => from \in {"cache", "find", "insert"}
  PROVE ShapeInv'
<1> USE DEF Go, OnlyAt, poolVars, userVars, routeVars
<1>1. TypeOK'
  BY DEF ShapeInv, TypeOK, Places, Taken
<1>2. InCalls'
  BY DEF ShapeInv, InCalls, TypeOK, Places
<1> QED BY <1>1, <1>2 DEF ShapeInv

\* A user that only moves on.
LEMMA GoMainShape ==
  ASSUME ShapeInv, NEW from, NEW to,
         GoMain(from, to), adding = NoTask <=> to \notin {"add", "push"},
         to \in {"free", "wait", "test", "block", "asleep", "stop", "add", "push"},
         plan # <<>> => to \in {"free", "add", "push"},
         to = "stop" => main = "clear" /\ victim <= threads
  PROVE ShapeInv'
<1> USE DEF GoMain, poolVars, workerVars, routeVars
<1>1. TypeOK'
  BY DEF ShapeInv, TypeOK
<1>2. InCalls'
  BY DEF ShapeInv, InCalls, TypeOK
<1> QED BY <1>1, <1>2 DEF ShapeInv

LEMMA WorkerShape ==
  ASSUME ShapeInv, NEW w \in Workers, Locking(w) \/ Working(w) \/ Wake(w)
  PROVE ShapeInv'
<1> USE DEF Places, Taken
<1>1. CASE Begin(w) \/ LockTasks(w) \/ FindNothing(w) \/ WaitForTask(w) \/ Wake(w) \/ Leave(w)
           \/ LockSync(w) \/ FindCached(w) \/ LockPool(w)
  BY <1>1, MoveShape
     DEF Begin, LockTasks, FindNothing, WaitForTask, Wake, Leave, LockSync, FindCached, LockPool
<1>2. CASE Take(w)
  <2> USE <1>2 DEF Take, Go, poolVars, userVars, routeVars
  <2>1. myTasks[w] \in Seq(Tasks) /\ myTasks[w] # <<>>
    BY DEF ShapeInv, TypeOK
  <2>2. Head(myTasks[w]) \in Tasks /\ Tail(myTasks[w]) \in Seq(Tasks)
    BY <2>1
  <2>3. TypeOK'
    BY <2>2, PoolAssumption DEF ShapeInv, TypeOK
  <2>4. InCalls'
    BY DEF ShapeInv, InCalls, TypeOK
  <2> QED BY <2>3, <2>4 DEF ShapeInv
<1>3. CASE SwitchBulk(w)
  <2> USE <1>3 DEF SwitchBulk, Go, poolVars, userVars, routeVars
  <2>1. current[w] \in Tasks
    BY DEF ShapeInv, TypeOK
  <2>2. current[w].order.value \in BOOLEAN
    BY <2>1, BulkOrder DEF Tasks
  <2>3. TypeOK'
    BY <2>2 DEF ShapeInv, TypeOK
  <2>4. InCalls'
    BY DEF ShapeInv, InCalls, TypeOK
  <2> QED BY <2>3, <2>4 DEF ShapeInv
<1>4. CASE RunRouting(w)
  <2> DEFINE order == current[w].order
             tree == IF router[w].bulk THEN router[w].tree ELSE order.trip
  <2> USE <1>4 DEF RunRouting, Go, poolVars, userVars
  <2>1. current[w] \in Tasks
    BY DEF ShapeInv, TypeOK
  <2>2. order.trip \in Trips /\ order.vehicle \in Nat \ {0}
    BY <2>1, RouteOrder DEF Tasks
  <2>3. tree \in Trips \cup {NoRoute}
    BY <2>2 DEF ShapeInv, TypeOK
  <2>4. /\ route' = [route EXCEPT ![order.vehicle] = tree]
        /\ router' = [router EXCEPT ![w] = [router[w] EXCEPT !.tree = tree]]
    OBVIOUS
  <2> HIDE DEF tree
  <2>5. /\ route' \in Seq(Trips \cup {NoRoute})
        /\ router' \in [Workers -> [bulk : BOOLEAN, tree : Trips \cup {NoRoute}]]
    <3>1. route \in Seq(Trips \cup {NoRoute})
      BY DEF ShapeInv, TypeOK
    <3>2. router \in [Workers -> [bulk : BOOLEAN, tree : Trips \cup {NoRoute}]]
      BY DEF ShapeInv, TypeOK
    <3>3. route' \in Seq(Trips \cup {NoRoute})
      <4>1. ASSUME NEW i PROVE [route EXCEPT ![i] = tree] \in Seq(Trips \cup {NoRoute})
        BY ONLY <2>3, <3>1, ExceptIn
      <4> QED BY <2>4, <4>1
    <3>4. [router[w] EXCEPT !.tree = tree] \in [bulk : BOOLEAN, tree : Trips \cup {NoRoute}]
      BY <2>3, <3>2
    <3> QED BY <2>4, <3>2, <3>3, <3>4
  <2>6. TypeOK'
    BY <2>5 DEF ShapeInv, TypeOK
  <2>7. InCalls'
    BY DEF ShapeInv, InCalls, TypeOK
  <2> QED BY <2>6, <2>7 DEF ShapeInv
<1>5. CASE InsertCached(w)
  <2> USE <1>5 DEF InsertCached, Go, poolVars, userVars
  <2>1. current[w] \in Tasks /\ current[w].order.kind = "route"
    BY DEF ShapeInv, TypeOK, InCalls
  <2>2. current[w].order.trip \in Trips /\ current[w].order.vehicle \in Nat \ {0}
    BY <2>1, RouteOrder DEF Tasks
  <2>3. TypeOK'
    BY <2>2 DEF ShapeInv, TypeOK
  <2>4. InCalls'
    BY DEF ShapeInv, InCalls, TypeOK
  <2> QED BY <2>3, <2>4 DEF ShapeInv
<1>6. CASE AddFinished(w)
  <2> USE <1>6 DEF AddFinished, Go, routeVars
  <2>1. current[w] \in Tasks
    BY DEF ShapeInv, TypeOK
  <2>2. TypeOK'
    BY <2>1 DEF ShapeInv, TypeOK
  <2>3. InCalls'
    BY DEF ShapeInv, InCalls, TypeOK
  <2> QED BY <2>2, <2>3 DEF ShapeInv
<1> QED BY <1>1, <1>2, <1>3, <1>4, <1>5, <1>6 DEF Locking, Working

\* The constructors of workers.
LEMMA NewWorkersShape ==
  ASSUME TypeOK, NEW n \in threads..MaxThreads, NewWorkers(n)
  PROVE /\ threads' \in 0..MaxThreads
        /\ at' \in [Workers -> Places]
        /\ \A w \in Workers : at'[w] = "none" <=> w > n
        /\ \A w \in Workers : at'[w] \in Taken <=> at[w] \in Taken
        /\ \A w \in Workers : at'[w] \in {"cache", "find", "insert"} => at'[w] = at[w]
BY PoolAssumption DEF NewWorkers, TypeOK, Places, Taken, Workers

LEMMA RerouteShape ==
  ASSUME ShapeInv, myNumFinished <= myRunningIndex, NEW trip \in Trips, Reroute(trip)
  PROVE ShapeInv'
<1> USE DEF Reroute, MayAsk
<1> DEFINE n == IF isFull /\ threads < MaxThreads THEN threads + 1 ELSE threads
<1>1. TypeOK /\ InCalls
  BY DEF ShapeInv
<1>2. /\ threads' \in 0..MaxThreads /\ threads' > 0
      /\ at' \in [Workers -> Places]
      /\ \A w \in Workers : at'[w] = "none" <=> w > threads'
      /\ \A w \in Workers : at'[w] \in Taken <=> at[w] \in Taken
      /\ \A w \in Workers : at'[w] \in {"cache", "find", "insert"} => at'[w] = at[w]
  <2>1. CASE isFull /\ threads < MaxThreads
    <3>1. threads + 1 \in threads..MaxThreads /\ NewWorkers(threads + 1)
      BY <1>1, <2>1, PoolAssumption DEF TypeOK
    <3> QED BY <1>1, <3>1, NewWorkersShape, PoolAssumption, SMTT(30) DEF NewWorkers, TypeOK
  <2>2. CASE ~(isFull /\ threads < MaxThreads)
    <3>1. threads > 0
      BY <1>1, <2>2, PoolAssumption DEF isFull, TypeOK
    <3> QED BY <1>1, <2>2, <3>1 DEF TypeOK, Places
  <2> QED BY <2>1, <2>2
<1>3. plan' \in Seq(Orders)
  <2>1. Len(asked) + 1 \in Nat \ {0}
    BY <1>1 DEF TypeOK
  <2>2. RouteFor(trip, Len(asked) + 1) \in Orders
    BY <2>1, OrderTypes
  <2> QED BY <2>2
<1>4. asked' \in Seq(Trips) /\ route' \in Seq(Trips \cup {NoRoute})
  BY <1>1 DEF TypeOK
<1>5. TypeOK'
  BY <1>1, <1>2, <1>3, <1>4 DEF TypeOK, Places, Taken
<1>6. InCalls'
  BY <1>1, <1>2 DEF InCalls
<1> QED BY <1>5, <1>6 DEF ShapeInv

LEMMA ComputeFirstShape ==
  ASSUME ShapeInv, NEW trip \in Trips, ComputeFirst(trip)
  PROVE ShapeInv'
<1> USE DEF ComputeFirst, MayAsk
<1>1. TypeOK /\ InCalls
  BY DEF ShapeInv
<1>2. 1 \in threads..MaxThreads
  BY <1>1, PoolAssumption DEF TypeOK
<1>3. asked' \in Seq(Trips) /\ route' \in Seq(Trips \cup {NoRoute})
  BY <1>1 DEF TypeOK
<1>4. TypeOK'
  BY <1>1, <1>2, <1>3, NewWorkersShape DEF TypeOK, Places, Taken, NewWorkers
<1>5. InCalls'
  BY <1>1, <1>2, NewWorkersShape DEF InCalls
<1> QED BY <1>4, <1>5 DEF ShapeInv

LEMMA BulkGroupShape ==
  ASSUME ShapeInv, NEW trip \in Trips, NEW n \in 1..MaxRequests, BulkGroup(trip, n)
  PROVE ShapeInv'
<1> USE DEF BulkGroup, MayAsk
<1>1. TypeOK /\ InCalls
  BY DEF ShapeInv
<1>2. MaxThreads \in threads..MaxThreads /\ MaxThreads \in Nat \ {0}
  BY <1>1, PoolAssumption DEF TypeOK
<1>3. /\ asked' \in Seq(Trips) /\ route' \in Seq(Trips \cup {NoRoute})
      /\ Len(asked) \in Nat /\ n \in Nat
  <2>1. n \in Nat
    BY PoolAssumption
  <2>2. [i \in 1..n |-> trip] \in Seq(Trips) /\ [i \in 1..n |-> NoRoute] \in Seq(Trips \cup {NoRoute})
    BY <2>1
  <2> QED BY <1>1, <2>1, <2>2 DEF TypeOK
<1>4. plan' \in Seq(Orders)
  <2> DEFINE first == Len(asked) + 1
             tail == [i \in 1..(n - 1) |-> RouteFor(trip, first + i)]
  <2>1. first \in Nat \ {0}
    BY <1>3
  <2>2. RouteFor(trip, first) \in Orders
    BY <2>1, OrderTypes
  <2>3. BulkmodeTask(TRUE) \in Orders /\ BulkmodeTask(FALSE) \in Orders
    BY DEF BulkmodeTask, Orders
  <2>4. tail \in Seq(Orders)
    <3>1. ASSUME NEW i \in 1..(n - 1) PROVE RouteFor(trip, first + i) \in Orders
      <4>1. first + i \in Nat \ {0}
        BY <2>1, <1>3
      <4> QED BY <4>1, OrderTypes
    <3>2. n - 1 \in Nat
      BY PoolAssumption
    <3> HIDE DEF first
    <3> QED BY <3>1, <3>2
  <2>5. plan' = (<<RouteFor(trip, first), BulkmodeTask(TRUE)>> \o tail) \o <<BulkmodeTask(FALSE)>>
    BY DEF BulkOrders
  <2> HIDE DEF tail, first
  <2>6. <<RouteFor(trip, first), BulkmodeTask(TRUE)>> \in Seq(Orders)
    BY <2>2, <2>3, PairIn
  <2>7. <<RouteFor(trip, first), BulkmodeTask(TRUE)>> \o tail \in Seq(Orders)
    BY <2>4, <2>6, ConcatIn
  <2>8. <<BulkmodeTask(FALSE)>> \in Seq(Orders)
    BY ONLY <2>3, SingleIn
  <2> QED BY <2>5, <2>7, <2>8, ConcatIn
<1>5. group' \in [edge : Trips \cup {0}, worker : Workers \cup {0}] /\ group'.worker # 0
  BY <1>1, <1>2 DEF TypeOK, Workers
<1>6. TypeOK'
  BY <1>1, <1>2, <1>3, <1>4, <1>5, NewWorkersShape DEF TypeOK, Places, Taken, NewWorkers
<1>7. InCalls'
  BY <1>1, <1>2, <1>5, NewWorkersShape DEF InCalls, NewWorkers
<1> QED BY <1>6, <1>7 DEF ShapeInv

LEMMA UseCachedShape ==
  ASSUME ShapeInv, NEW trip \in Trips, UseCached(trip)
  PROVE ShapeInv'
<1> USE DEF UseCached, MayAsk, poolVars, workerVars
<1>1. TypeOK /\ InCalls
  BY DEF ShapeInv
<1>2. CachedRoute(trip) \in Trips \cup {NoRoute}
  BY <1>1 DEF TypeOK, CachedRoute
<1>3. asked' \in Seq(Trips) /\ route' \in Seq(Trips \cup {NoRoute})
  BY <1>1, <1>2 DEF TypeOK
<1>4. TypeOK'
  BY <1>1, <1>3 DEF TypeOK
<1>5. InCalls'
  BY <1>1 DEF InCalls
<1> QED BY <1>4, <1>5 DEF ShapeInv

LEMMA AddShape ==
  ASSUME ShapeInv, Add
  PROVE /\ ShapeInv'
        /\ adding' \in Additions
        /\ adding'.task.index = myRunningIndex
<1> USE DEF Add, workerVars, routeVars
<1>1. TypeOK /\ InCalls
  BY DEF ShapeInv
<1>2. plan \in Seq(Orders) /\ plan # <<>>
  BY <1>1 DEF TypeOK
<1>3. Head(plan) \in Orders /\ Tail(plan) \in Seq(Orders)
  BY <1>2
<1>4. threads \in 1..MaxThreads /\ myRunningIndex \in Nat /\ MaxThreads \in Nat
  BY <1>1, <1>2, PoolAssumption DEF TypeOK, InCalls
<1>5. (myRunningIndex + 1) % threads \in 0..(threads - 1)
  BY <1>4
<1>6. ((myRunningIndex + 1) % threads) + 1 \in Workers
  BY <1>4, <1>5 DEF Workers
<1>7. program = "bulk" => group.worker \in Workers
  BY <1>1, <1>2 DEF TypeOK, InCalls
<1>8. adding'.worker \in Workers
  BY <1>6, <1>7 DEF ChosenWorker
<1>9. adding' \in Additions /\ adding'.task.index = myRunningIndex
  BY <1>3, <1>4, <1>8 DEF Additions, Tasks
<1>10. TypeOK'
  BY <1>1, <1>3, <1>4, <1>9, PoolAssumption DEF TypeOK
<1>11. InCalls'
  BY <1>1, <1>2, <1>10 DEF InCalls
<1> QED BY <1>9, <1>10, <1>11 DEF ShapeInv

LEMMA PushShape ==
  ASSUME ShapeInv, Push
  PROVE ShapeInv'
<1> USE DEF Push, Signalled, routeVars, poolVars
<1>1. TypeOK /\ InCalls
  BY DEF ShapeInv
<1>2. adding \in Additions
  BY <1>1 DEF TypeOK
<1>3. adding.worker \in Workers /\ adding.task \in Tasks
  BY <1>2 DEF Additions
<1>4. Append(myTasks[adding.worker], adding.task) \in Seq(Tasks)
  BY <1>1, <1>3 DEF TypeOK
<1>5. myTasks' \in [Workers -> Seq(Tasks)]
  BY <1>1, <1>3, <1>4 DEF TypeOK
<1>6. TypeOK'
  BY <1>1, <1>3, <1>5, PoolAssumption DEF TypeOK
<1>7. InCalls'
  BY <1>1, <1>3 DEF InCalls, TypeOK
<1> QED BY <1>6, <1>7 DEF ShapeInv

LEMMA ReturnShape ==
  ASSUME ShapeInv, Return
  PROVE ShapeInv'
<1> USE DEF Return, workerVars, routeVars
<1>1. TypeOK /\ InCalls
  BY DEF ShapeInv
<1>2. TypeOK'
  BY <1>1, PoolAssumption DEF TypeOK
<1>3. InCalls'
  BY <1>1 DEF InCalls
<1> QED BY <1>2, <1>3 DEF ShapeInv

LEMMA CacheShape ==
  ASSUME ShapeInv, AdaptEdgeEfforts \/ Cleanup
  PROVE ShapeInv'
<1> USE DEF AdaptEdgeEfforts, Cleanup, userVars, workerVars, poolVars
<1>1. TypeOK /\ InCalls
  BY DEF ShapeInv
<1>2. cache' \in [Trips -> Nat] /\ held' \subseteq Nat
  BY DEF NoRoute
<1>3. 1 \in 1..(MaxThreads + 1)
  BY PoolAssumption
<1>4. CASE AdaptEdgeEfforts
  <2>1. TypeOK'
    BY <1>1, <1>2, <1>4 DEF TypeOK
  <2>2. InCalls'
    BY <1>1, <1>4 DEF InCalls
  <2> QED BY <2>1, <2>2 DEF ShapeInv
<1>5. CASE Cleanup
  <2>1. TypeOK'
    BY <1>1, <1>2, <1>3, <1>5 DEF TypeOK
  <2>2. InCalls'
    BY <1>1, <1>5 DEF InCalls, Workers
  <2> QED BY <2>1, <2>2 DEF ShapeInv
<1> QED BY <1>4, <1>5

LEMMA SetStoppedShape ==
  ASSUME ShapeInv, SetStopped
  PROVE ShapeInv'
<1> USE DEF SetStopped, Signalled, poolVars, routeVars
<1>1. TypeOK /\ InCalls
  BY DEF ShapeInv
<1>2. TypeOK'
  BY <1>1 DEF TypeOK
<1>3. InCalls'
  BY <1>1 DEF InCalls, TypeOK
<1> QED BY <1>2, <1>3 DEF ShapeInv

LEMMA JoinShape ==
  ASSUME ShapeInv, Join
  PROVE ShapeInv'
<1> USE DEF Join, poolVars, workerVars, routeVars
<1>1. TypeOK /\ InCalls
  BY DEF ShapeInv
<1>2. victim <= threads
  BY <1>1 DEF InCalls
<1>3. TypeOK'
  BY <1>1, <1>2, PoolAssumption DEF TypeOK
<1>4. InCalls'
  <2>1. ASSUME NEW w \in Workers, w < victim' PROVE at[w] = "gone"
    <3>1. w < victim \/ w = victim
      BY <1>1, <2>1 DEF TypeOK, Workers
    <3>2. w <= threads
      BY <1>1, <1>2, <3>1 DEF TypeOK, Workers
    <3> QED BY <1>1, <3>1, <3>2 DEF InCalls
  <2> QED BY <1>1, <2>1 DEF InCalls
<1> QED BY <1>3, <1>4 DEF ShapeInv

LEMMA ClearedShape ==
  ASSUME ShapeInv, Cleared
  PROVE ShapeInv' /\ \A w \in Workers : current[w] = NoTask
<1> USE DEF Cleared
<1>1. TypeOK /\ InCalls
  BY DEF ShapeInv
<1>2. \A w \in Workers : at[w] \in {"none", "gone"}
  BY <1>1, PoolAssumption DEF TypeOK, InCalls, Workers
<1>3. \A w \in Workers : current[w] = NoTask
  BY <1>1, <1>2 DEF TypeOK
<1>4. /\ asked' \in Seq(Trips) /\ route' \in Seq(Trips \cup {NoRoute})
      /\ main' \in {"idle", "over"}
  <2>1. CASE Reloading
    BY <1>1, <2>1, EmptySeq
  <2>2. CASE ~Reloading
    BY <1>1, <2>2 DEF TypeOK
  <2> QED BY <2>1, <2>2
<1>5. /\ myTasks' \in [Workers -> Seq(Tasks)]
      /\ router' \in [Workers -> [bulk : BOOLEAN, tree : Trips \cup {NoRoute}]]
  BY DEF NewRouter
<1>6. TypeOK'
  <2>1. \A w \in Workers : at'[w] = "none" /\ w > threads'
    BY PoolAssumption DEF Workers
  <2>2. adding' = NoTask /\ adding = NoTask
    BY <1>1 DEF TypeOK
  <2> HIDE DEF Cleared
  <2>3. /\ program' = program /\ myRunningIndex' = myRunningIndex /\ myNumFinished' = myNumFinished
        /\ myFinishedTasks' = myFinishedTasks /\ current' = current /\ plan' = plan
        /\ group' = group /\ victim' = victim /\ cache' = cache /\ held' = held
        /\ threads' = 0 /\ at' = [w \in Workers |-> "none"]
        /\ myStopped' = [w \in Workers |-> FALSE]
    BY DEF Cleared
  <2> QED BY <1>1, <1>3, <1>4, <1>5, <2>1, <2>2, <2>3, PoolAssumption DEF TypeOK
<1>7. InCalls'
  BY <1>1, <1>4, PoolAssumption DEF InCalls, Workers
<1> QED BY <1>3, <1>6, <1>7 DEF ShapeInv

-----------------------------------------------------------------------------
(* The counters: each index given out belongs to one task                    *)

Own(w) == QueuedAt(w) \cup TakenBy(w)

\* No two places hold the same task.
Apart ==
  /\ \A w \in Workers : QueuedAt(w) \cap TakenBy(w) = {}
  /\ \A v, w \in Workers : v # w => Own(v) \cap Own(w) = {}
  /\ \A w \in Workers : Added \cap Own(w) = {}

\* No list holds a task twice.
NoTwice == \A w \in Workers : \A i, j \in DOMAIN myTasks[w] :
             myTasks[w][i].index = myTasks[w][j].index => i = j

CountInv == Accounted /\ Apart /\ NoTwice /\ IsFiniteSet(Finished)

LEMMA OpenIs ==
  ASSUME NEW k
  PROVE k \in Open <=> k \in Added \/ \E w \in Workers : k \in Own(w)
BY DEF Open, Own

LEMMA FinishedBound ==
  ASSUME TypeOK, CountInv, main # "over"
  PROVE /\ myNumFinished <= myRunningIndex
        /\ Finished \subseteq 0..(myRunningIndex - 1)
        /\ myNumFinished >= myRunningIndex => Open = {}
<1>1. myRunningIndex \in Nat /\ 0 \in Int /\ myRunningIndex - 1 \in Int
  BY DEF TypeOK
<1>2. Open \cup Finished = 0..(myRunningIndex - 1) /\ Open \cap Finished = {}
  BY DEF CountInv, Accounted
<1>3. /\ IsFiniteSet(0..(myRunningIndex - 1))
      /\ Cardinality(0..(myRunningIndex - 1)) = myRunningIndex
  BY <1>1, FS_Interval
<1>4. Finished \subseteq 0..(myRunningIndex - 1)
  BY <1>2
<1>5. myNumFinished = Cardinality(Finished)
  BY DEF CountInv, Accounted
<1>6. Cardinality(Finished) <= myRunningIndex
  BY <1>3, <1>4, FS_Subset
<1>7. Cardinality(Finished) >= myRunningIndex => Finished = 0..(myRunningIndex - 1)
  <2>1. Cardinality(Finished) \in Nat
    BY FS_CardinalityType DEF CountInv
  <2>2. ASSUME Cardinality(Finished) >= myRunningIndex PROVE Finished = 0..(myRunningIndex - 1)
    <3>1. Cardinality(0..(myRunningIndex - 1)) = Cardinality(Finished)
      BY <1>1, <1>3, <1>6, <2>1, <2>2
    <3> HIDE DEF Finished
    <3> QED BY <1>3, <1>4, <3>1, FS_Subset
  <2> QED BY <2>2
<1> QED BY <1>2, <1>4, <1>5, <1>6, <1>7

\* A step that moves no task.
LEMMA SameTasks ==
  ASSUME UNCHANGED <<adding, myTasks, current, myFinishedTasks>>
  PROVE /\ Open' = Open /\ Finished' = Finished /\ Added' = Added
        /\ \A w \in Workers : QueuedAt(w)' = QueuedAt(w) /\ TakenBy(w)' = TakenBy(w)
        /\ NoTwice => NoTwice'
        /\ Apart => Apart'
<1>1. Finished' = Finished /\ Added' = Added
  BY DEF Finished, Added
<1>2. \A w \in Workers : QueuedAt(w)' = QueuedAt(w) /\ TakenBy(w)' = TakenBy(w)
  BY DEF QueuedAt, TakenBy
<1>3. Open' = Open
  BY <1>1, <1>2 DEF Open
<1>4. Apart => Apart'
  BY <1>1, <1>2 DEF Apart, Own
<1>5. NoTwice => NoTwice'
  BY DEF NoTwice
<1> QED BY <1>1, <1>2, <1>3, <1>4, <1>5

LEMMA SameCount ==
  ASSUME CountInv, UNCHANGED <<adding, myTasks, current, myFinishedTasks, myRunningIndex, myNumFinished>>,
         main' # "over" => main # "over"
  PROVE CountInv'
<1>1. /\ Open' = Open /\ Finished' = Finished /\ NoTwice' /\ Apart'
  BY SameTasks DEF CountInv
<1> QED BY <1>1 DEF CountInv, Accounted

\* The first task of a list.
LEMMA HeadOfQueue ==
  ASSUME NEW q \in Seq(Tasks), q # <<>>,
         \A i, j \in DOMAIN q : q[i].index = q[j].index => i = j
  PROVE /\ Head(q) \in Tasks
        /\ Head(q).index \in {q[i].index : i \in DOMAIN q}
        /\ {Tail(q)[i].index : i \in DOMAIN Tail(q)}
             = {q[i].index : i \in DOMAIN q} \ {Head(q).index}
        /\ \A i, j \in DOMAIN Tail(q) : Tail(q)[i].index = Tail(q)[j].index => i = j
<1>1. /\ Head(q) \in Tasks /\ Tail(q) \in Seq(Tasks) /\ Head(q) = q[1]
      /\ Len(Tail(q)) = Len(q) - 1 /\ Len(q) \in Nat \ {0}
      /\ \A i \in 1..Len(Tail(q)) : Tail(q)[i] = q[i + 1]
      /\ DOMAIN q = 1..Len(q) /\ DOMAIN Tail(q) = 1..Len(Tail(q))
  OBVIOUS
<1>2. Head(q).index \in {q[i].index : i \in DOMAIN q}
  BY <1>1
<1>3. ASSUME NEW i \in DOMAIN Tail(q)
      PROVE /\ i + 1 \in DOMAIN q /\ Tail(q)[i] = q[i + 1]
            /\ Tail(q)[i].index # Head(q).index
  <2>1. i \in 1..Len(Tail(q)) /\ i + 1 \in 1..Len(q) /\ i + 1 # 1 /\ 1 \in 1..Len(q)
    BY <1>1
  <2>2. q[i + 1].index # q[1].index
    BY <1>1, <2>1
  <2> QED BY <1>1, <2>1, <2>2
<1>4. ASSUME NEW j \in DOMAIN q, q[j].index # Head(q).index
      PROVE \E i \in DOMAIN Tail(q) : Tail(q)[i].index = q[j].index
  <2>1. j # 1 /\ j \in 1..Len(q)
    BY <1>1, <1>4
  <2>2. j - 1 \in 1..Len(Tail(q)) /\ (j - 1) + 1 = j
    BY <1>1, <2>1
  <2>3. Tail(q)[j - 1] = q[j]
    BY <1>1, <2>2
  <2> QED BY <1>1, <2>2, <2>3
<1>5. {Tail(q)[i].index : i \in DOMAIN Tail(q)}
        = {q[i].index : i \in DOMAIN q} \ {Head(q).index}
  <2>1. ASSUME NEW k \in {Tail(q)[i].index : i \in DOMAIN Tail(q)}
        PROVE k \in {q[i].index : i \in DOMAIN q} \ {Head(q).index}
    <3>1. PICK i \in DOMAIN Tail(q) : k = Tail(q)[i].index
      BY <2>1
    <3> QED BY <1>3, <3>1
  <2>2. ASSUME NEW k \in {q[i].index : i \in DOMAIN q} \ {Head(q).index}
        PROVE k \in {Tail(q)[i].index : i \in DOMAIN Tail(q)}
    <3>1. PICK j \in DOMAIN q : k = q[j].index
      BY <2>2
    <3> QED BY <1>4, <2>2, <3>1
  <2> QED BY <2>1, <2>2
<1>6. ASSUME NEW i \in DOMAIN Tail(q), NEW j \in DOMAIN Tail(q),
             Tail(q)[i].index = Tail(q)[j].index
      PROVE i = j
  <2>1. i + 1 = j + 1
    BY <1>3, <1>6
  <2> QED BY <1>1, <2>1
<1> QED BY <1>1, <1>2, <1>5, <1>6

LEMMA TakeCount ==
  ASSUME ShapeInv, CountInv, NEW w \in Workers, Take(w)
  PROVE CountInv' /\ Open' = Open
<1> USE DEF Take, Go, poolVars, userVars, routeVars
<1> DEFINE k == Head(myTasks[w]).index
<1>1. TypeOK
  BY DEF ShapeInv
<1>2. /\ myTasks[w] \in Seq(Tasks) /\ myTasks[w] # <<>>
      /\ \A i, j \in DOMAIN myTasks[w] : myTasks[w][i].index = myTasks[w][j].index => i = j
  BY <1>1 DEF TypeOK, CountInv, NoTwice
<1>3. /\ Head(myTasks[w]) \in Tasks /\ k \in QueuedAt(w)
      /\ {Tail(myTasks[w])[i].index : i \in DOMAIN Tail(myTasks[w])} = QueuedAt(w) \ {k}
      /\ \A i, j \in DOMAIN Tail(myTasks[w]) :
           Tail(myTasks[w])[i].index = Tail(myTasks[w])[j].index => i = j
  BY <1>2, HeadOfQueue DEF QueuedAt
<1>4. current[w] = NoTask /\ current'[w] = Head(myTasks[w]) /\ current'[w] # NoTask
  BY <1>1, <1>3, PoolAssumption DEF TypeOK
<1>5. myTasks'[w] = Tail(myTasks[w])
  BY <1>1 DEF TypeOK
<1>6. QueuedAt(w)' = QueuedAt(w) \ {k} /\ TakenBy(w)' = {k} /\ TakenBy(w) = {}
  <2>1. QueuedAt(w)' = {myTasks'[w][i].index : i \in DOMAIN myTasks'[w]}
    BY DEF QueuedAt
  <2>2. TakenBy(w)' = {current'[w].index}
    BY <1>4 DEF TakenBy
  <2>3. TakenBy(w) = {}
    BY <1>4 DEF TakenBy
  <2>4. QueuedAt(w)' = QueuedAt(w) \ {k}
    BY <1>3, <1>5, <2>1
  <2> QED BY <1>4, <2>2, <2>3, <2>4
<1>7. ASSUME NEW v \in Workers, v # w
      PROVE QueuedAt(v)' = QueuedAt(v) /\ TakenBy(v)' = TakenBy(v)
  BY <1>1, <1>7 DEF TypeOK, QueuedAt, TakenBy
<1>8. \A v \in Workers : Own(v)' = Own(v)
  BY <1>3, <1>6, <1>7 DEF Own
<1>9. Added' = Added /\ Finished' = Finished
  BY DEF Added, Finished
<1>10. Open' = Open
  BY <1>8, <1>9 DEF Open, Own
<1>11. Apart'
  BY <1>6, <1>7, <1>8, <1>9 DEF Apart, CountInv
<1>12. NoTwice'
  <2>1. ASSUME NEW v \in Workers, v # w PROVE myTasks'[v] = myTasks[v]
    BY <1>1, <2>1 DEF TypeOK
  <2> QED BY <1>3, <1>5, <2>1 DEF NoTwice, CountInv
<1> QED BY <1>9, <1>10, <1>11, <1>12 DEF CountInv, Accounted

LEMMA AddFinishedCount ==
  ASSUME ShapeInv, CountInv, NEW w \in Workers, AddFinished(w)
  PROVE CountInv' /\ current[w].index \in Open /\ Open' = Open \ {current[w].index}
<1> USE DEF AddFinished, Go, routeVars
<1> DEFINE k == current[w].index
<1>1. TypeOK
  BY DEF ShapeInv
<1>2. current[w] \in Tasks /\ current[w] # NoTask
  BY <1>1, PoolAssumption DEF TypeOK
<1>3. TakenBy(w) = {k} /\ TakenBy(w)' = {} /\ QueuedAt(w)' = QueuedAt(w)
  BY <1>1, <1>2 DEF TakenBy, QueuedAt, TypeOK
<1>4. ASSUME NEW v \in Workers, v # w
      PROVE QueuedAt(v)' = QueuedAt(v) /\ TakenBy(v)' = TakenBy(v)
  BY <1>1, <1>4 DEF TypeOK, QueuedAt, TakenBy
<1>5. Added' = Added /\ Finished' = Finished \cup {k}
  BY DEF Added, Finished
<1>6. k \in Open
  BY <1>3 DEF Open
<1>7. k \notin QueuedAt(w) /\ k \notin Added /\ \A v \in Workers : v # w => k \notin Own(v)
  BY <1>3 DEF CountInv, Apart, Own
<1>8. Own(w)' = Own(w) \ {k} /\ \A v \in Workers : v # w => Own(v)' = Own(v)
  BY <1>3, <1>4, <1>7 DEF Own
<1>9. Open' = Open \ {k}
  <2>1. \A j : j \in Open' <=> j \in Added' \/ \E v \in Workers : j \in Own(v)'
    BY DEF Open, Own
  <2>2. \A j : j \in Open <=> j \in Added \/ \E v \in Workers : j \in Own(v)
    BY DEF Open, Own
  <2> QED BY <1>5, <1>7, <1>8, <2>1, <2>2
<1>10. Apart'
  BY <1>3, <1>4, <1>5, <1>8 DEF Apart, CountInv
<1>11. NoTwice'
  BY DEF NoTwice, CountInv
<1>12. k \notin Finished
  BY <1>6 DEF CountInv, Accounted
<1>13. IsFiniteSet(Finished') /\ Cardinality(Finished') = Cardinality(Finished) + 1
  BY <1>5, <1>12, FS_AddElement DEF CountInv
<1>14. main' = "over" <=> main = "over"
  OBVIOUS
<1> QED BY <1>5, <1>6, <1>9, <1>10, <1>11, <1>12, <1>13, <1>14 DEF CountInv, Accounted

LEMMA AddCount ==
  ASSUME ShapeInv, CountInv, Add
  PROVE CountInv' /\ myRunningIndex \notin Open /\ Open' = Open \cup {myRunningIndex}
<1> USE DEF Add, workerVars, routeVars
<1>1. TypeOK /\ myRunningIndex \in Nat
  BY DEF ShapeInv, TypeOK
<1>2. adding' \in Additions /\ adding'.task.index = myRunningIndex
  BY AddShape
<1>3. Added = {} /\ Added' = {myRunningIndex}
  BY <1>1, <1>2, PoolAssumption DEF TypeOK, Added
<1>4. /\ Finished' = Finished /\ NoTwice'
      /\ \A w \in Workers : QueuedAt(w)' = QueuedAt(w) /\ TakenBy(w)' = TakenBy(w)
  BY DEF Finished, NoTwice, QueuedAt, TakenBy, CountInv
<1>5. Open' = Open \cup {myRunningIndex}
  BY <1>3, <1>4 DEF Open
<1>6. Open \cup Finished = 0..(myRunningIndex - 1) /\ Open \cap Finished = {}
  BY DEF CountInv, Accounted
<1>7. myRunningIndex \notin Open /\ myRunningIndex \notin Finished
  BY <1>1, <1>6
<1>8. Open' \cup Finished' = 0..(myRunningIndex' - 1)
  <2>1. 0..(myRunningIndex' - 1) = 0..(myRunningIndex - 1) \cup {myRunningIndex}
    BY <1>1
  <2> QED BY <1>4, <1>5, <1>6, <2>1
<1>9. Apart'
  <2>1. \A w \in Workers : Own(w) \subseteq Open /\ Own(w)' = Own(w)
    BY <1>4 DEF Own, Open
  <2> QED BY <1>3, <1>4, <1>7, <2>1 DEF Apart, CountInv
<1> QED BY <1>4, <1>5, <1>6, <1>7, <1>8, <1>9 DEF CountInv, Accounted

LEMMA PushCount ==
  ASSUME ShapeInv, CountInv, Push
  PROVE CountInv' /\ Open' = Open
<1> USE DEF Push, routeVars, poolVars
<1>1. TypeOK
  BY DEF ShapeInv
<1>2. adding \in Additions /\ adding # NoTask
  BY <1>1, PoolAssumption DEF TypeOK
<1>3. adding.worker \in Workers /\ adding.task \in Tasks
  BY <1>2 DEF Additions
<1>4. PICK w \in Workers, t \in Tasks : adding.worker = w /\ adding.task = t
  BY <1>3
<1>5. \E q, k : q = myTasks[w] /\ k = t.index
  OBVIOUS
<1>6. PICK q, k : q = myTasks[w] /\ k = t.index
  BY <1>5
<1>7. q \in Seq(Tasks)
  BY <1>1, <1>6 DEF TypeOK
<1>8. Added = {k} /\ Added' = {} /\ Finished' = Finished
  BY <1>2, <1>4, <1>6 DEF Added, Finished
<1>9. myTasks'[w] = Append(q, t)
  BY <1>1, <1>4, <1>6 DEF TypeOK
<1>10. /\ Len(Append(q, t)) = Len(q) + 1 /\ Len(q) \in Nat
      /\ DOMAIN Append(q, t) = 1..(Len(q) + 1) /\ DOMAIN q = 1..Len(q)
      /\ Append(q, t)[Len(q) + 1] = t
      /\ \A i \in 1..Len(q) : Append(q, t)[i] = q[i]
  BY <1>7
<1>11. QueuedAt(w)' = QueuedAt(w) \cup {k} /\ TakenBy(w)' = TakenBy(w)
  <2>1. 1..(Len(q) + 1) = 1..Len(q) \cup {Len(q) + 1}
    BY <1>10
  <2>2. QueuedAt(w) = {q[i].index : i \in 1..Len(q)}
    BY <1>10, <1>6 DEF QueuedAt
  <2>3. QueuedAt(w)' = {Append(q, t)[i].index : i \in 1..(Len(q) + 1)}
    BY <1>9, <1>10 DEF QueuedAt
  <2>4. {Append(q, t)[i].index : i \in 1..(Len(q) + 1)}
          = {q[i].index : i \in 1..Len(q)} \cup {k}
    BY <1>10, <1>6, <2>1
  <2>5. TakenBy(w)' = TakenBy(w)
    BY DEF TakenBy
  <2> QED BY <2>2, <2>3, <2>4, <2>5
<1>12. ASSUME NEW v \in Workers, v # w
      PROVE /\ QueuedAt(v)' = QueuedAt(v) /\ TakenBy(v)' = TakenBy(v)
            /\ myTasks'[v] = myTasks[v]
  BY <1>1, <1>12, <1>4 DEF TypeOK, QueuedAt, TakenBy
<1>13. k \notin QueuedAt(w) /\ k \notin TakenBy(w) /\ \A v \in Workers : k \notin Own(v)
  BY <1>8 DEF CountInv, Apart, Own
<1>14. Own(w)' = Own(w) \cup {k} /\ \A v \in Workers : v # w => Own(v)' = Own(v)
  BY <1>11, <1>12 DEF Own
<1>15. Open' = Open
  <2>1. \A j : j \in Open' <=> j \in Added' \/ \E v \in Workers : j \in Own(v)'
    BY DEF Open, Own
  <2>2. \A j : j \in Open <=> j \in Added \/ \E v \in Workers : j \in Own(v)
    BY DEF Open, Own
  <2> QED BY <1>8, <1>14, <2>1, <2>2
<1>16. Apart'
  BY <1>8, <1>11, <1>12, <1>13, <1>14 DEF Apart, CountInv
<1>17. NoTwice'
  <2>1. \A i \in 1..Len(q) : q[i].index # k
    BY <1>10, <1>13, <1>6 DEF QueuedAt
  <2>2. \A i, j \in 1..Len(q) : q[i].index = q[j].index => i = j
    BY <1>10, <1>6 DEF CountInv, NoTwice
  <2>3. ASSUME NEW i \in DOMAIN myTasks'[w], NEW j \in DOMAIN myTasks'[w],
               myTasks'[w][i].index = myTasks'[w][j].index
        PROVE i = j
    <3>1. i \in 1..Len(q) \/ i = Len(q) + 1
      BY <1>9, <1>10
    <3>2. j \in 1..Len(q) \/ j = Len(q) + 1
      BY <1>9, <1>10
    <3> QED BY <1>9, <1>10, <2>1, <2>2, <2>3, <3>1, <3>2, <1>6
  <2>4. ASSUME NEW v \in Workers, v # w
        PROVE \A i, j \in DOMAIN myTasks'[v] :
                myTasks'[v][i].index = myTasks'[v][j].index => i = j
    <3>1. myTasks'[v] = myTasks[v]
      BY <1>12, <2>4
    <3>2. \A i, j \in DOMAIN myTasks[v] : myTasks[v][i].index = myTasks[v][j].index => i = j
      BY DEF NoTwice, CountInv
    <3> QED BY ONLY <3>1, <3>2
  <2>5. ASSUME NEW v \in Workers
        PROVE \A i, j \in DOMAIN myTasks'[v] :
                myTasks'[v][i].index = myTasks'[v][j].index => i = j
    BY <2>3, <2>4
  <2> QED BY <2>5 DEF NoTwice
<1> QED BY <1>8, <1>15, <1>16, <1>17 DEF CountInv, Accounted

LEMMA ReturnCount ==
  ASSUME ShapeInv, CountInv, Return
  PROVE CountInv' /\ Open = {} /\ Open' = {}
<1> USE DEF Return, workerVars, routeVars
<1>1. Open = {}
  BY FinishedBound DEF ShapeInv, AllFinished
<1>2. Finished' = {}
  BY DEF Finished
<1>3. Open' = Open /\ Apart' /\ NoTwice'
  <2>1. \A w \in Workers : QueuedAt(w)' = QueuedAt(w) /\ TakenBy(w)' = TakenBy(w)
    BY DEF QueuedAt, TakenBy
  <2>2. Added' = Added
    BY DEF Added
  <2>3. Open' = Open
    BY <2>1, <2>2 DEF Open
  <2>4. Apart'
    BY <2>1, <2>2 DEF Apart, Own, CountInv
  <2> QED BY <2>3, <2>4 DEF NoTwice, CountInv
<1>4. IsFiniteSet({}) /\ Cardinality({}) = 0
  BY FS_EmptySet
<1>5. 0..(0 - 1) = {}
  OBVIOUS
<1> QED BY <1>1, <1>2, <1>3, <1>4, <1>5 DEF CountInv, Accounted

LEMMA ClearedCount ==
  ASSUME ShapeInv, CountInv, Cleared, "abandoned" \notin Reloads
  PROVE CountInv' /\ Open' = {}
<1> USE DEF Cleared
<1>1. TypeOK /\ \A w \in Workers : current[w] = NoTask
  BY ClearedShape DEF ShapeInv
<1>2. adding = NoTask
  BY <1>1 DEF TypeOK
<1>3. \A w \in Workers : QueuedAt(w)' = {} /\ TakenBy(w)' = {}
  <2>1. ASSUME NEW w \in Workers PROVE myTasks'[w] = <<>> /\ current'[w] = NoTask
    BY <1>1
  <2> QED BY <2>1 DEF QueuedAt, TakenBy
<1>4. Added' = {}
  BY <1>2 DEF Added
<1>5. Open' = {}
  BY <1>3, <1>4 DEF Open
<1>6. Finished' = Finished
  BY DEF Finished
<1>7. Apart'
  BY <1>3, <1>4 DEF Apart, Own
<1>8. NoTwice'
  BY DEF NoTwice
<1>9. ASSUME main' # "over" PROVE Open' \cup Finished' = 0..(myRunningIndex' - 1)
  <2>1. myRunningIndex = 0
    BY <1>9 DEF Reloading
  <2>2. Open \cup Finished = {}
    BY <2>1 DEF CountInv, Accounted
  <2> QED BY <1>5, <1>6, <2>1, <2>2
<1> QED BY <1>5, <1>6, <1>7, <1>8, <1>9 DEF CountInv, Accounted

-----------------------------------------------------------------------------
(* Every step                                                                *)

PoolInv == ShapeInv /\ CountInv

LEMMA InitPool == Init => PoolInv
<1> SUFFICES ASSUME Init PROVE PoolInv
  OBVIOUS
<1> USE DEF Init
<1>1. TypeOK
  <2>1. 1 \in 1..(MaxThreads + 1) /\ 0 \in 0..MaxThreads
    BY PoolAssumption
  <2>2. \A w \in Workers : w > 0
    BY PoolAssumption DEF Workers
  <2>3. <<>> \in Seq(Trips) /\ <<>> \in Seq(Trips \cup {NoRoute}) /\ <<>> \in Seq(Orders) /\ <<>> \in Seq(Tasks)
    OBVIOUS
  <2> QED BY <2>1, <2>2, <2>3, PoolAssumption DEF TypeOK, NewRouter, NoRoute
<1>2. InCalls
  BY DEF InCalls
<1>3. /\ \A w \in Workers : QueuedAt(w) = {} /\ TakenBy(w) = {}
      /\ Added = {} /\ Finished = {}
  BY DEF QueuedAt, TakenBy, Added, Finished
<1>4. Open = {}
  BY <1>3 DEF Open
<1>5. IsFiniteSet({}) /\ Cardinality({}) = 0 /\ 0..(0 - 1) = {}
  BY FS_EmptySet
<1>6. Apart /\ NoTwice
  BY <1>3 DEF Apart, Own, NoTwice
<1> QED BY <1>1, <1>2, <1>3, <1>4, <1>5, <1>6 DEF PoolInv, ShapeInv, CountInv, Accounted

\* A step that WorkerBatch allows, or none of its own.
BatchStep == Batch!BatchNext \/ UNCHANGED <<Open, Waiting>>

LEMMA StillCount ==
  ASSUME PoolInv, ShapeInv',
         UNCHANGED <<adding, myTasks, current, myFinishedTasks, myRunningIndex, myNumFinished>>,
         main' # "over" => main # "over", Waiting' = Waiting
  PROVE PoolInv' /\ BatchStep
BY SameCount, SameTasks DEF PoolInv, BatchStep

LEMMA WorkerStep ==
  ASSUME PoolInv, NEW w \in Workers, Locking(w) \/ Working(w) \/ Wake(w)
  PROVE PoolInv' /\ BatchStep
<1>1. ShapeInv'
  BY WorkerShape DEF PoolInv
<1>2. CASE Take(w)
  <2>1. CountInv' /\ Open' = Open
    BY <1>2, TakeCount DEF PoolInv
  <2>2. Waiting' = Waiting
    BY <1>2 DEF Take, userVars, Waiting
  <2> QED BY <1>1, <2>1, <2>2 DEF PoolInv, BatchStep
<1>3. CASE AddFinished(w)
  <2>1. CountInv' /\ current[w].index \in Open /\ Open' = Open \ {current[w].index}
    BY <1>3, AddFinishedCount DEF PoolInv
  <2>2. Waiting' = Waiting
    BY <1>3 DEF AddFinished, Waiting
  <2>3. Batch!Complete
    BY <2>1, <2>2 DEF Batch!Complete
  <2> QED BY <1>1, <2>1, <2>3 DEF PoolInv, BatchStep, Batch!BatchNext
<1>4. CASE Begin(w) \/ LockTasks(w) \/ FindNothing(w) \/ WaitForTask(w) \/ Wake(w) \/ Leave(w)
           \/ LockSync(w) \/ FindCached(w) \/ LockPool(w)
           \/ SwitchBulk(w) \/ RunRouting(w) \/ InsertCached(w)
  <2>1. UNCHANGED <<adding, myTasks, current, myFinishedTasks, myRunningIndex, myNumFinished, main>>
    BY <1>4 DEF Begin, LockTasks, FindNothing, WaitForTask, Wake, Leave, LockSync, FindCached,
         LockPool, SwitchBulk, RunRouting, InsertCached, OnlyAt, poolVars, userVars
  <2>2. Waiting' = Waiting
    BY <2>1 DEF Waiting
  <2> QED BY <1>1, <2>1, <2>2, StillCount
<1> QED BY <1>2, <1>3, <1>4 DEF Locking, Working

LEMMA CallStep ==
  ASSUME PoolInv, Calls
  PROVE PoolInv' /\ BatchStep
<1>1. TypeOK /\ ShapeInv /\ CountInv
  BY DEF PoolInv, ShapeInv
<1>2. ASSUME NEW trip \in Trips, UseCached(trip) \/ Reroute(trip) \/ ComputeFirst(trip)
      PROVE PoolInv' /\ BatchStep
  <2>1. main # "over"
    BY <1>2 DEF UseCached, Reroute, ComputeFirst, MayAsk
  <2>2. myNumFinished <= myRunningIndex
    BY <1>1, <2>1, FinishedBound
  <2>3. ShapeInv'
    BY <1>1, <1>2, <2>2, UseCachedShape, RerouteShape, ComputeFirstShape
  <2>4. UNCHANGED <<adding, myTasks, current, myFinishedTasks, myRunningIndex, myNumFinished>>
    BY <1>2 DEF UseCached, Reroute, ComputeFirst, poolVars, workerVars
  <2>5. Waiting' = Waiting
    BY <1>2 DEF UseCached, Reroute, ComputeFirst, MayAsk, Waiting
  <2> QED BY <2>1, <2>3, <2>4, <2>5, StillCount
<1>3. ASSUME NEW trip \in Trips, NEW n \in 1..MaxRequests, BulkGroup(trip, n)
      PROVE PoolInv' /\ BatchStep
  <2>1. ShapeInv'
    BY <1>1, <1>3, BulkGroupShape
  <2>2. UNCHANGED <<adding, myTasks, current, myFinishedTasks, myRunningIndex, myNumFinished>>
    BY <1>3 DEF BulkGroup
  <2>3. Waiting' = Waiting /\ main # "over"
    BY <1>3 DEF BulkGroup, MayAsk, Waiting
  <2> QED BY <2>1, <2>2, <2>3, StillCount
<1>4. CASE Add
  <2>1. ShapeInv' /\ CountInv' /\ myRunningIndex \notin Open /\ Open' = Open \cup {myRunningIndex}
    BY <1>1, <1>4, AddShape, AddCount
  <2>2. Waiting' = Waiting /\ ~Waiting /\ myRunningIndex \in Nat
    BY <1>1, <1>4 DEF Add, Waiting, TypeOK
  <2>3. Batch!HandOver
    BY <2>1, <2>2 DEF Batch!HandOver
  <2> QED BY <2>1, <2>3 DEF PoolInv, BatchStep, Batch!BatchNext
<1>5. CASE WaitAll
  <2>1. ShapeInv'
    <3>1. adding = NoTask
      BY <1>1, <1>5 DEF TypeOK, WaitAll, GoMain
    <3> QED BY <1>1, <1>5, <3>1, GoMainShape DEF WaitAll
  <2>2. UNCHANGED <<adding, myTasks, current, myFinishedTasks, myRunningIndex, myNumFinished>>
    BY <1>5 DEF WaitAll, GoMain, poolVars, workerVars
  <2>3. main = "free" /\ main' = "wait"
    BY <1>5 DEF WaitAll, GoMain
  <2>4. CountInv' /\ Open' = Open
    BY <1>1, <2>2, <2>3, SameCount, SameTasks
  <2>5. Batch!Wait
    BY <2>3, <2>4 DEF Batch!Wait, Waiting
  <2> QED BY <2>1, <2>4, <2>5 DEF PoolInv, BatchStep, Batch!BatchNext
<1>6. CASE AdaptEdgeEfforts \/ Cleanup
  <2>1. ShapeInv'
    BY <1>1, <1>6, CacheShape
  <2>2. UNCHANGED <<adding, myTasks, current, myFinishedTasks, myRunningIndex, myNumFinished>>
    BY <1>6 DEF AdaptEdgeEfforts, Cleanup, poolVars, workerVars, userVars
  <2>3. Waiting' = Waiting /\ main # "over"
    BY <1>6 DEF AdaptEdgeEfforts, Cleanup, userVars, Waiting
  <2> QED BY <2>1, <2>2, <2>3, StillCount
<1> QED BY <1>2, <1>3, <1>4, <1>5, <1>6 DEF Calls

LEMMA MainStep ==
  ASSUME PoolInv, LockingMain \/ InCall \/ WakeMain, "abandoned" \notin Reloads
  PROVE PoolInv' /\ BatchStep
<1>1. TypeOK /\ ShapeInv /\ CountInv /\ InCalls
  BY DEF PoolInv, ShapeInv
<1>2. CASE LockToAdd
  <2>1. ShapeInv'
    <3> USE <1>2 DEF LockToAdd, poolVars, workerVars, routeVars
    <3>1. TypeOK'
      BY <1>1 DEF TypeOK
    <3>2. InCalls'
      BY <1>1 DEF InCalls
    <3> QED BY <3>1, <3>2 DEF ShapeInv
  <2>2. UNCHANGED <<adding, myTasks, current, myFinishedTasks, myRunningIndex, myNumFinished>>
    BY <1>2 DEF LockToAdd, poolVars, workerVars
  <2>3. Waiting' = Waiting /\ main # "over"
    BY <1>2 DEF LockToAdd, Waiting
  <2> QED BY <2>1, <2>2, <2>3, StillCount
<1>3. CASE LockToWait \/ FindOpen \/ WaitForFinished \/ WakeMain \/ LockToStop
  <2>1. adding = NoTask /\ plan = <<>>
    BY <1>1, <1>3 DEF TypeOK, InCalls, LockToWait, FindOpen, WaitForFinished, WakeMain, LockToStop, GoMain
  <2>2. ShapeInv'
    BY <1>1, <1>3, <2>1, GoMainShape
       DEF LockToWait, FindOpen, WaitForFinished, WakeMain, LockToStop, GoMain
  <2>3. UNCHANGED <<adding, myTasks, current, myFinishedTasks, myRunningIndex, myNumFinished>>
    BY <1>3 DEF LockToWait, FindOpen, WaitForFinished, WakeMain, LockToStop, GoMain, poolVars, workerVars
  <2>4. Waiting' = Waiting /\ main # "over"
    BY <1>3 DEF LockToWait, FindOpen, WaitForFinished, WakeMain, LockToStop, GoMain, Waiting
  <2> QED BY <2>2, <2>3, <2>4, StillCount
<1>4. CASE Push
  <2>1. ShapeInv' /\ CountInv' /\ Open' = Open
    BY <1>1, <1>4, PushShape, PushCount
  <2>2. Waiting' = Waiting
    BY <1>4 DEF Push, Waiting
  <2> QED BY <2>1, <2>2 DEF PoolInv, BatchStep
<1>5. CASE Return
  <2>1. ShapeInv' /\ CountInv' /\ Open = {} /\ Open' = {}
    BY <1>1, <1>5, ReturnShape, ReturnCount
  <2>2. Batch!Return
    BY <1>5, <2>1 DEF Batch!Return, Return, Waiting
  <2> QED BY <2>1, <2>2 DEF PoolInv, BatchStep, Batch!BatchNext
<1>6. CASE SetStopped \/ Join
  <2>1. ShapeInv'
    BY <1>1, <1>6, SetStoppedShape, JoinShape
  <2>2. UNCHANGED <<adding, myTasks, current, myFinishedTasks, myRunningIndex, myNumFinished>>
    BY <1>6 DEF SetStopped, Join, poolVars, workerVars
  <2>3. Waiting' = Waiting /\ main # "over"
    BY <1>6 DEF SetStopped, Join, Waiting
  <2> QED BY <2>1, <2>2, <2>3, StillCount
<1>7. CASE Cleared
  <2>1. ShapeInv' /\ CountInv' /\ Open' = {}
    BY <1>1, <1>7, ClearedShape, ClearedCount
  <2>2. ~Waiting /\ ~Waiting'
    BY <1>7 DEF Cleared, Waiting
  <2>3. Batch!Discard
    BY <2>1, <2>2 DEF Batch!Discard, Waiting
  <2> QED BY <2>1, <2>3 DEF PoolInv, BatchStep, Batch!BatchNext
<1> QED BY <1>2, <1>3, <1>4, <1>5, <1>6, <1>7 DEF LockingMain, InCall

LEMMA NextPool ==
  ASSUME PoolInv, [Next]_vars, "abandoned" \notin Reloads
  PROVE PoolInv' /\ BatchStep
<1>1. CASE UNCHANGED vars
  <2>1. ShapeInv'
    BY <1>1 DEF vars, poolVars, workerVars, userVars, routeVars, PoolInv, ShapeInv, TypeOK, InCalls
  <2>2. /\ UNCHANGED <<adding, myTasks, current, myFinishedTasks, myRunningIndex, myNumFinished>>
        /\ main' = main
    BY <1>1 DEF vars, poolVars, workerVars, userVars
  <2>3. Waiting' = Waiting
    BY <2>2 DEF Waiting
  <2> QED BY <2>1, <2>2, <2>3, StillCount
<1>2. CASE Over
  BY <1>1, <1>2 DEF Over
<1> QED BY <1>1, <1>2, WorkerStep, CallStep, MainStep DEF Next

THEOREM PoolInvariant ==
  ASSUME "abandoned" \notin Reloads
  PROVE Spec => []PoolInv
<1>1. PoolInv /\ [Next]_vars => PoolInv'
  BY NextPool
<1> QED BY <1>1, InitPool, PTL DEF Spec

\* The state keeps its shape (TypeOK).
THEOREM PoolTypeCorrect ==
  ASSUME "abandoned" \notin Reloads
  PROVE Spec => []TypeOK
<1>1. PoolInv => TypeOK
  BY DEF PoolInv, ShapeInv
<1> QED BY <1>1, PoolInvariant, PTL

\* No task is lost or finished twice, and the two counters say how many are open (Accounted).
THEOREM PoolAccounted ==
  ASSUME "abandoned" \notin Reloads
  PROVE Spec => []Accounted
<1>1. PoolInv => Accounted
  BY DEF PoolInv, CountInv
<1> QED BY <1>1, PoolInvariant, PTL

\* The pool keeps the promise of WorkerBatch: a wait ends only when nothing is open.
THEOREM PoolImplementsBatch ==
  ASSUME "abandoned" \notin Reloads
  PROVE Spec => BatchSpec
<1>1. Init => Batch!BatchInit
  <2> SUFFICES ASSUME Init PROVE Batch!BatchInit
    OBVIOUS
  <2>1. /\ \A w \in Workers : QueuedAt(w) = {} /\ TakenBy(w) = {}
        /\ Added = {}
    BY DEF Init, QueuedAt, TakenBy, Added
  <2>2. Open = {}
    BY <2>1 DEF Open
  <2> QED BY <2>2 DEF Batch!BatchInit, Init, Waiting
<1>2. PoolInv /\ [Next]_vars => [Batch!BatchNext]_(Batch!batchVars)
  BY NextPool DEF BatchStep, Batch!batchVars
<1> QED BY <1>1, <1>2, PoolInvariant, PTL DEF Spec, BatchSpec, Batch!BatchSpec

-----------------------------------------------------------------------------
(* The cache of routes                                                       *)

Syncing == {"cache", "find", "insert"}
Clearing == {"clear", "stop", "join"}
NothingCached == \A trip \in Trips : cache[trip] = NoRoute

\* The task is for a vehicle that asked for this trip.
Fits(order) == /\ order.kind = "route" /\ order.vehicle \in DOMAIN asked
               /\ order.trip = asked[order.vehicle]

Fitting == program = "sumo" =>
  /\ \A i \in DOMAIN plan : Fits(plan[i])
  /\ adding # NoTask => Fits(adding.task.order)
  /\ \A w \in Workers : \A i \in DOMAIN myTasks[w] : Fits(myTasks[w][i].order)
  /\ \A w \in Workers : current[w] # NoTask => Fits(current[w].order)
  /\ \A w \in Workers : ~router[w].bulk

\* A vehicle has no route or its own, and a worker looks at the cache with a finished route.
Routed ==
  /\ Len(route) = Len(asked)
  /\ program = "sumo" => \A i \in DOMAIN route : route[i] \in {NoRoute, asked[i]}
  /\ \A w \in Workers : at[w] \in Syncing =>
       program = "sumo" /\ route[current[w].order.vehicle] = current[w].order.trip

\* What a worker found missing is still missing when it inserts.
OneInserts ==
  /\ \A v, w \in Workers : at[v] \in {"find", "insert"} /\ at[w] \in {"find", "insert"} => v = w
  /\ \A w \in Workers : at[w] = "insert" => cache[current[w].order.trip] = NoRoute
  /\ program # "sumo" => NothingCached
  /\ main \in Clearing /\ myRunningIndex = 0 => NothingCached

CacheInv == Fitting /\ Routed /\ OneInserts /\ CacheHolds

LEMMA StillCache ==
  ASSUME CacheInv,
         UNCHANGED <<program, plan, adding, myTasks, current, router, asked, route, cache, held>>,
         \A w \in Workers : at'[w] # at[w] => at[w] \notin Syncing /\ at'[w] \notin Syncing,
         main' \in Clearing => main \in Clearing /\ myRunningIndex' = myRunningIndex
  PROVE CacheInv'
<1>1. Fitting'
  BY DEF CacheInv, Fitting, Fits
<1>2. Routed'
  BY DEF CacheInv, Routed
<1>3. OneInserts'
  BY DEF CacheInv, OneInserts, NothingCached, Syncing
<1>4. CacheHolds'
  BY DEF CacheInv, CacheHolds
<1> QED BY <1>1, <1>2, <1>3, <1>4 DEF CacheInv

LEMMA LookCache ==
  ASSUME ShapeInv, CacheInv, NEW w \in Workers, LockSync(w) \/ FindCached(w)
  PROVE CacheInv'
<1> USE DEF LockSync, FindCached, Go, OnlyAt, poolVars, userVars, routeVars
<1>1. at \in [Workers -> Places]
  BY DEF ShapeInv, TypeOK, Places
<1>2. Fitting'
  BY DEF CacheInv, Fitting, Fits
<1>3. Routed'
  BY <1>1 DEF CacheInv, Routed, Syncing
<1>4. OneInserts'
  BY <1>1 DEF CacheInv, OneInserts, NothingCached, SyncFree
<1>5. CacheHolds'
  BY DEF CacheInv, CacheHolds
<1> QED BY <1>2, <1>3, <1>4, <1>5 DEF CacheInv

LEMMA TakeCache ==
  ASSUME ShapeInv, CacheInv, NEW w \in Workers, Take(w)
  PROVE CacheInv'
<1> USE DEF Take, Go, poolVars, userVars, routeVars
<1>1. TypeOK
  BY DEF ShapeInv
<1>2. myTasks[w] \in Seq(Tasks) /\ myTasks[w] # <<>>
  BY <1>1 DEF TypeOK
<1>3. /\ Head(myTasks[w]) = myTasks[w][1] /\ 1 \in DOMAIN myTasks[w]
      /\ \A i \in DOMAIN Tail(myTasks[w]) :
           i + 1 \in DOMAIN myTasks[w] /\ Tail(myTasks[w])[i] = myTasks[w][i + 1]
  BY <1>2
<1>4. ASSUME NEW v \in Workers, v # w
      PROVE myTasks'[v] = myTasks[v] /\ current'[v] = current[v] /\ at'[v] = at[v]
  BY <1>1, <1>4 DEF TypeOK
<1>5. myTasks'[w] = Tail(myTasks[w]) /\ current'[w] = Head(myTasks[w]) /\ at'[w] = "running"
  BY <1>1 DEF TypeOK
<1>6. Fitting'
  <2> SUFFICES ASSUME program = "sumo" PROVE Fitting'
    BY DEF Fitting
  <2>1. \A order : Fits(order)' <=> Fits(order)
    BY DEF Fits
  <2>2. ASSUME NEW v \in Workers
        PROVE /\ \A i \in DOMAIN myTasks'[v] : Fits(myTasks'[v][i].order)
              /\ current'[v] # NoTask => Fits(current'[v].order)
    <3>1. CASE v = w
      BY <1>3, <1>5, <3>1 DEF CacheInv, Fitting
    <3>2. CASE v # w
      BY <1>4, <3>2 DEF CacheInv, Fitting
    <3> QED BY <3>1, <3>2
  <2> QED BY <2>1, <2>2 DEF CacheInv, Fitting, Fits
<1>7. Routed'
  BY <1>4, <1>5 DEF CacheInv, Routed, Syncing
<1>8. OneInserts'
  BY <1>4, <1>5 DEF CacheInv, OneInserts, NothingCached
<1>9. CacheHolds'
  BY DEF CacheInv, CacheHolds
<1> QED BY <1>6, <1>7, <1>8, <1>9 DEF CacheInv

LEMMA SwitchCache ==
  ASSUME ShapeInv, CacheInv, NEW w \in Workers, SwitchBulk(w)
  PROVE CacheInv'
<1> USE DEF SwitchBulk, Go, poolVars, userVars, routeVars
<1>1. TypeOK
  BY DEF ShapeInv
<1>2. program # "sumo"
  <2>1. current[w] # NoTask
    BY <1>1 DEF TypeOK
  <2> QED BY <2>1 DEF CacheInv, Fitting, Fits
<1>3. Fitting'
  BY <1>2 DEF Fitting
<1>4. Routed'
  BY <1>1 DEF CacheInv, Routed, Syncing, TypeOK
<1>5. OneInserts'
  BY <1>1 DEF CacheInv, OneInserts, NothingCached, TypeOK
<1>6. CacheHolds'
  BY DEF CacheInv, CacheHolds
<1> QED BY <1>3, <1>4, <1>5, <1>6 DEF CacheInv

LEMMA RunCache ==
  ASSUME ShapeInv, CacheInv, NEW w \in Workers, RunRouting(w)
  PROVE CacheInv'
<1> USE DEF Go, poolVars, userVars, routeVars
<1>1. TypeOK
  BY DEF ShapeInv
<1>2. PICK vehicle, trip : vehicle = current[w].order.vehicle /\ trip = current[w].order.trip
  OBVIOUS
<1>3. current[w] # NoTask
  BY <1>1 DEF TypeOK, RunRouting
<1>4. ASSUME NEW v \in Workers, v # w PROVE at'[v] = at[v]
  BY <1>1, <1>4 DEF TypeOK, RunRouting
<1>5. /\ at'[w] = IF program = "sumo" THEN "cache" ELSE "report"
      /\ UNCHANGED <<program, plan, adding, myTasks, current, asked, cache, held, main, myRunningIndex>>
  BY <1>1 DEF TypeOK, RunRouting
<1>6. Len(route') = Len(route) /\ DOMAIN route' = DOMAIN route
  <2>1. \E tree : route' = [route EXCEPT ![current[w].order.vehicle] = tree]
    BY DEF RunRouting
  <2>2. PICK tree : route' = [route EXCEPT ![current[w].order.vehicle] = tree]
    BY <2>1
  <2>3. route \in Seq(Trips \cup {NoRoute})
    BY <1>1 DEF TypeOK
  <2>4. DOMAIN route = 1..Len(route) /\ Len(route) \in Nat
    BY <2>3
  <2>5. DOMAIN route' = 1..Len(route)
    BY <2>2, <2>4
  <2>6. route' \in Seq(Trips \cup {NoRoute})
    BY WorkerShape DEF Working, ShapeInv, TypeOK
  <2>7. DOMAIN route' = 1..Len(route') /\ Len(route') \in Nat
    BY <2>6
  <2> QED BY <2>4, <2>5, <2>7
<1>7. CASE program # "sumo"
  <2>1. Fitting'
    BY <1>5, <1>7 DEF Fitting
  <2>2. Routed'
    BY <1>4, <1>5, <1>6, <1>7 DEF CacheInv, Routed, Syncing
  <2>3. OneInserts'
    BY <1>4, <1>5, <1>7 DEF CacheInv, OneInserts, NothingCached
  <2>4. CacheHolds'
    BY <1>5, <1>7 DEF CacheInv, CacheHolds, OneInserts, NothingCached
  <2> QED BY <2>1, <2>2, <2>3, <2>4 DEF CacheInv
<1>8. CASE program = "sumo"
  <2>1. vehicle \in DOMAIN asked /\ trip = asked[vehicle] /\ ~router[w].bulk
    BY <1>2, <1>3, <1>8 DEF CacheInv, Fitting, Fits
  <2>2. route' = [route EXCEPT ![vehicle] = trip]
    BY <1>2, <2>1 DEF RunRouting
  <2>3. vehicle \in DOMAIN route
    <3>1. DOMAIN asked = 1..Len(asked) /\ DOMAIN route = 1..Len(route)
      BY <1>1 DEF TypeOK
    <3> QED BY <2>1, <3>1 DEF CacheInv, Routed
  <2>4. \A i \in DOMAIN route : route'[i] = IF i = vehicle THEN trip ELSE route[i]
    BY <2>2, <2>3
  <2>5. \A v \in Workers : ~router'[v].bulk
    BY <1>1, <1>8 DEF RunRouting, TypeOK, CacheInv, Fitting
  <2>6. Fitting'
    BY <1>5, <1>8, <2>5 DEF CacheInv, Fitting, Fits
  <2>7. \A i \in DOMAIN route : route'[i] \in {NoRoute, asked[i]}
    BY <1>8, <2>1, <2>4 DEF CacheInv, Routed
  <2>8. ASSUME NEW v \in Workers, at'[v] \in Syncing
        PROVE route'[current[v].order.vehicle] = current[v].order.trip
    <3>1. CASE v = w
      BY <1>2, <2>3, <2>4, <3>1
    <3>2. CASE v # w
      <4>1. at[v] \in Syncing /\ current[v] # NoTask
        BY <1>1, <1>4, <2>8, <3>2 DEF TypeOK, Syncing
      <4>2. /\ route[current[v].order.vehicle] = current[v].order.trip
            /\ current[v].order.vehicle \in DOMAIN asked
            /\ asked[current[v].order.vehicle] = current[v].order.trip
        BY <1>8, <4>1 DEF CacheInv, Routed, Fitting, Fits
      <4>3. current[v].order.vehicle \in DOMAIN route
        <5>1. DOMAIN asked = 1..Len(asked) /\ DOMAIN route = 1..Len(route)
          BY <1>1 DEF TypeOK
        <5> QED BY <4>2, <5>1 DEF CacheInv, Routed
      <4> QED BY <2>1, <2>4, <4>2, <4>3
    <3> QED BY <3>1, <3>2
  <2>9. Routed'
    BY <1>5, <1>6, <1>8, <2>7, <2>8 DEF CacheInv, Routed
  <2>10. OneInserts'
    BY <1>4, <1>5, <1>8 DEF CacheInv, OneInserts, NothingCached
  <2>11. CacheHolds'
    <3>1. ASSUME NEW t \in Trips, cache[t] # NoRoute
          PROVE cache[t] \in DOMAIN route /\ route'[cache[t]] = t
      <4>1. cache[t] \in DOMAIN route /\ route[cache[t]] = t /\ t # NoRoute
        BY <3>1, PoolAssumption DEF CacheInv, CacheHolds, Trips, NoRoute
      <4>2. route[cache[t]] = asked[cache[t]]
        BY <1>8, <4>1 DEF CacheInv, Routed
      <4> QED BY <2>1, <2>4, <4>1, <4>2
    <3> QED BY <1>5, <1>6, <3>1 DEF CacheInv, CacheHolds
  <2> QED BY <2>6, <2>9, <2>10, <2>11 DEF CacheInv
<1> QED BY <1>7, <1>8

LEMMA InsertCache ==
  ASSUME PoolInv, CacheInv, NEW w \in Workers, InsertCached(w)
  PROVE CacheInv'
<1> USE DEF InsertCached, Go, poolVars, userVars
<1>1. TypeOK
  BY DEF PoolInv, ShapeInv
<1>2. current[w] # NoTask /\ current[w] \in Tasks
  BY <1>1 DEF TypeOK
<1>3. PICK vehicle, trip : vehicle = current[w].order.vehicle /\ trip = current[w].order.trip
  OBVIOUS
<1>4. /\ program = "sumo" /\ route[vehicle] = trip /\ cache[trip] = NoRoute
      /\ vehicle \in DOMAIN asked /\ current[w].order.kind = "route"
  BY <1>2, <1>3 DEF CacheInv, Routed, OneInserts, Fitting, Fits, Syncing
<1>5. trip \in Trips /\ vehicle \in Nat \ {0}
  BY <1>2, <1>3, <1>4, RouteOrder DEF Tasks
<1>6. vehicle \in DOMAIN route
  <2>1. DOMAIN asked = 1..Len(asked) /\ DOMAIN route = 1..Len(route)
    BY <1>1 DEF TypeOK
  <2> QED BY <1>4, <2>1 DEF CacheInv, Routed
<1>7. /\ cache' = [cache EXCEPT ![trip] = vehicle] /\ held' = held \cup {vehicle}
      /\ \A v \in Workers : at'[v] = IF v = w THEN "report" ELSE at[v]
  BY <1>1, <1>3 DEF TypeOK
<1>8. \A t \in Trips : cache'[t] = IF t = trip THEN vehicle ELSE cache[t]
  BY <1>1, <1>7 DEF TypeOK
<1>9. Fitting'
  BY DEF CacheInv, Fitting, Fits
<1>10. Routed'
  BY <1>7 DEF CacheInv, Routed, Syncing
<1>11. OneInserts'
  <2>1. \A v \in Workers : at'[v] \notin {"find", "insert"}
    BY <1>7 DEF CacheInv, OneInserts
  <2>2. myRunningIndex # 0 \/ main \notin Clearing
    <3>1. SUFFICES ASSUME main \in Clearing, myRunningIndex = 0 PROVE FALSE
      OBVIOUS
    <3>2. Open \cup Finished = {}
      BY <3>1 DEF PoolInv, CountInv, Accounted, Clearing
    <3>3. TakenBy(w) # {} /\ TakenBy(w) \subseteq Open
      BY <1>2 DEF TakenBy, Open
    <3> QED BY <3>2, <3>3
  <2> QED BY <1>4, <2>1, <2>2 DEF OneInserts
<1>12. CacheHolds'
  <2>1. {cache'[t] : t \in Trips} \ {NoRoute} = ({cache[t] : t \in Trips} \ {NoRoute}) \cup {vehicle}
    BY <1>4, <1>5, <1>8 DEF NoRoute
  <2>2. \A t \in Trips : cache'[t] # NoRoute => cache'[t] \in DOMAIN route /\ route[cache'[t]] = t
    BY <1>4, <1>6, <1>8 DEF CacheInv, CacheHolds
  <2> QED BY <1>7, <2>1, <2>2 DEF CacheInv, CacheHolds
<1> QED BY <1>9, <1>10, <1>11, <1>12 DEF CacheInv

LEMMA FinishCache ==
  ASSUME ShapeInv, CacheInv, NEW w \in Workers, AddFinished(w)
  PROVE CacheInv'
<1> USE DEF AddFinished, Go, routeVars
<1>1. /\ \A v \in Workers : at'[v] = IF v = w THEN "head" ELSE at[v]
      /\ \A v \in Workers : current'[v] = IF v = w THEN NoTask ELSE current[v]
  BY DEF ShapeInv, TypeOK
<1>2. Fitting'
  BY <1>1 DEF CacheInv, Fitting, Fits
<1>3. Routed'
  BY <1>1 DEF CacheInv, Routed, Syncing
<1>4. OneInserts'
  BY <1>1 DEF CacheInv, OneInserts, NothingCached, Clearing
<1>5. CacheHolds'
  BY DEF CacheInv, CacheHolds
<1> QED BY <1>2, <1>3, <1>4, <1>5 DEF CacheInv

LEMMA WorkerCache ==
  ASSUME PoolInv, CacheInv, NEW w \in Workers, Locking(w) \/ Working(w) \/ Wake(w)
  PROVE CacheInv'
<1>1. CASE Begin(w) \/ LockTasks(w) \/ FindNothing(w) \/ WaitForTask(w) \/ Wake(w) \/ Leave(w)
           \/ LockPool(w)
  <2> USE DEF Begin, LockTasks, FindNothing, WaitForTask, Wake, Leave, LockPool, Go, OnlyAt,
              poolVars, userVars, routeVars
  <2>1. at \in [Workers -> Places]
    BY DEF PoolInv, ShapeInv, TypeOK, Places
  <2>2. \A v \in Workers : at'[v] # at[v] => at[v] \notin Syncing /\ at'[v] \notin Syncing
    BY <1>1, <2>1 DEF Syncing
  <2> QED BY <1>1, <2>2, StillCache
<1> QED BY <1>1, LookCache, TakeCache, SwitchCache, RunCache, InsertCache, FinishCache
        DEF PoolInv, Locking, Working

LEMMA AddCache ==
  ASSUME ShapeInv, CacheInv, Add
  PROVE CacheInv'
<1> USE DEF Add, workerVars, routeVars
<1>1. TypeOK
  BY DEF ShapeInv
<1>2. plan \in Seq(Orders) /\ plan # <<>>
  BY <1>1 DEF TypeOK
<1>3. /\ Head(plan) = plan[1] /\ 1 \in DOMAIN plan
      /\ \A i \in DOMAIN Tail(plan) : i + 1 \in DOMAIN plan /\ Tail(plan)[i] = plan[i + 1]
  BY <1>2
<1>4. adding'.task.order = Head(plan)
  OBVIOUS
<1>5. Fitting'
  <2> SUFFICES ASSUME program = "sumo" PROVE Fitting'
    BY DEF Fitting
  <2>1. \A order : Fits(order)' <=> Fits(order)
    BY DEF Fits
  <2>2. \A i \in DOMAIN Tail(plan) : Fits(Tail(plan)[i])
    BY <1>3 DEF CacheInv, Fitting
  <2>3. Fits(Head(plan))
    BY <1>3 DEF CacheInv, Fitting
  <2>4. plan' = Tail(plan)
    OBVIOUS
  <2>5. /\ \A v \in Workers : \A i \in DOMAIN myTasks'[v] : Fits(myTasks'[v][i].order)
        /\ \A v \in Workers : current'[v] # NoTask => Fits(current'[v].order)
        /\ \A v \in Workers : ~router'[v].bulk
    BY DEF CacheInv, Fitting
  <2> QED BY <1>4, <2>1, <2>2, <2>3, <2>4, <2>5 DEF Fitting
<1>6. Routed'
  BY DEF CacheInv, Routed
<1>7. OneInserts'
  BY DEF CacheInv, OneInserts, NothingCached, Clearing
<1>8. CacheHolds'
  BY DEF CacheInv, CacheHolds
<1> QED BY <1>5, <1>6, <1>7, <1>8 DEF CacheInv

LEMMA PushCache ==
  ASSUME ShapeInv, CacheInv, Push
  PROVE CacheInv'
<1> USE DEF Push, Signalled, poolVars, routeVars
<1>1. TypeOK
  BY DEF ShapeInv
<1>2. adding \in Additions /\ adding # NoTask
  BY <1>1, PoolAssumption DEF TypeOK
<1>3. PICK w \in Workers, t \in Tasks : adding.worker = w /\ adding.task = t
  BY <1>2 DEF Additions
<1>4. myTasks[w] \in Seq(Tasks)
  BY <1>1 DEF TypeOK
<1>5. /\ myTasks'[w] = Append(myTasks[w], t)
      /\ \A v \in Workers : v # w => myTasks'[v] = myTasks[v]
      /\ \A v \in Workers : at'[v] # at[v] => at[v] \notin Syncing /\ at'[v] \notin Syncing
  BY <1>1, <1>3 DEF TypeOK, Syncing
<1>6. \A i \in DOMAIN Append(myTasks[w], t) :
        Append(myTasks[w], t)[i] = t \/ (i \in DOMAIN myTasks[w] /\ Append(myTasks[w], t)[i] = myTasks[w][i])
  BY <1>4
<1>7. Fitting'
  <2> SUFFICES ASSUME program = "sumo" PROVE Fitting'
    BY DEF Fitting
  <2>1. \A order : Fits(order)' <=> Fits(order)
    BY DEF Fits
  <2>2. Fits(t.order)
    BY <1>2, <1>3 DEF CacheInv, Fitting
  <2>3. ASSUME NEW v \in Workers
        PROVE \A i \in DOMAIN myTasks'[v] : Fits(myTasks'[v][i].order)
    <3>1. CASE v = w
      BY <1>5, <1>6, <2>2, <3>1 DEF CacheInv, Fitting
    <3>2. CASE v # w
      BY <1>5, <3>2 DEF CacheInv, Fitting
    <3> QED BY <3>1, <3>2
  <2>4. /\ \A i \in DOMAIN plan' : Fits(plan'[i])
        /\ \A v \in Workers : current'[v] # NoTask => Fits(current'[v].order)
        /\ \A v \in Workers : ~router'[v].bulk
        /\ adding' = NoTask
    BY DEF CacheInv, Fitting
  <2> QED BY <2>1, <2>3, <2>4 DEF Fitting
<1>8. Routed'
  BY <1>5 DEF CacheInv, Routed
<1>9. OneInserts'
  BY <1>5 DEF CacheInv, OneInserts, NothingCached, Clearing, Syncing
<1>10. CacheHolds'
  BY DEF CacheInv, CacheHolds
<1> QED BY <1>7, <1>8, <1>9, <1>10 DEF CacheInv

LEMMA ForgetCache ==
  ASSUME ShapeInv, CacheInv, AdaptEdgeEfforts \/ Cleanup
  PROVE CacheInv'
<1> USE DEF AdaptEdgeEfforts, Cleanup, poolVars, workerVars, userVars
<1>1. /\ UNCHANGED <<program, plan, adding, myTasks, current, router, at, asked, route>>
      /\ cache' = [trip \in Trips |-> NoRoute] /\ held' = {}
  OBVIOUS
<1>2. NothingCached'
  BY <1>1 DEF NothingCached
<1>3. Fitting'
  BY <1>1 DEF CacheInv, Fitting, Fits
<1>4. Routed'
  BY <1>1 DEF CacheInv, Routed
<1>5. OneInserts'
  <2>1. ASSUME NEW w \in Workers, at[w] = "insert" PROVE current[w].order.trip \in Trips
    <3>1. current[w] \in Tasks /\ current[w].order.kind = "route"
      BY <2>1 DEF ShapeInv, TypeOK, InCalls
    <3> QED BY <3>1, RouteOrder DEF Tasks
  <2> QED BY <1>1, <1>2, <2>1 DEF CacheInv, OneInserts
<1>6. CacheHolds'
  BY <1>1 DEF CacheHolds
<1> QED BY <1>3, <1>4, <1>5, <1>6 DEF CacheInv

PlanFits == \A i \in DOMAIN plan : Fits(plan[i])

\* A vehicle that asks makes the two lists longer.
LEMMA AskCache ==
  ASSUME ShapeInv, CacheInv, NEW trip \in Trips, NEW answer \in {NoRoute, trip},
         asked' = Append(asked, trip), route' = Append(route, answer),
         UNCHANGED <<program, adding, myTasks, current, router, cache, held>>,
         program = "sumo" => PlanFits',
         \A w \in Workers : at'[w] # at[w] => at[w] \notin Syncing /\ at'[w] \notin Syncing,
         main' \notin Clearing
  PROVE CacheInv'
<1>1. TypeOK
  BY DEF ShapeInv
<1>2. /\ asked \in Seq(Trips) /\ route \in Seq(Trips \cup {NoRoute}) /\ Len(route) = Len(asked)
  BY <1>1 DEF TypeOK, CacheInv, Routed
<1>3. answer \in Trips \cup {NoRoute}
  OBVIOUS
<1>4. /\ Len(asked') = Len(asked) + 1 /\ Len(route') = Len(asked) + 1 /\ Len(asked) \in Nat
      /\ DOMAIN asked = 1..Len(asked) /\ DOMAIN route = 1..Len(asked)
      /\ DOMAIN asked' = 1..(Len(asked) + 1) /\ DOMAIN route' = 1..(Len(asked) + 1)
  BY <1>2, <1>3
<1>5. /\ \A i \in 1..Len(asked) : asked'[i] = asked[i] /\ route'[i] = route[i]
      /\ asked'[Len(asked) + 1] = trip /\ route'[Len(asked) + 1] = answer
  BY <1>2, <1>3
<1>6. \A order : Fits(order) => Fits(order)'
  BY <1>4, <1>5 DEF Fits
<1>7. Fitting'
  <2>1. CASE program = "sumo"
    <3>1. /\ adding # NoTask => Fits(adding.task.order)
          /\ \A w \in Workers : \A i \in DOMAIN myTasks[w] : Fits(myTasks[w][i].order)
          /\ \A w \in Workers : current[w] # NoTask => Fits(current[w].order)
          /\ \A w \in Workers : ~router[w].bulk
      BY <2>1 DEF CacheInv, Fitting
    <3>2. /\ (adding # NoTask => Fits(adding.task.order))'
          /\ (\A w \in Workers : \A i \in DOMAIN myTasks[w] : Fits(myTasks[w][i].order))'
          /\ (\A w \in Workers : current[w] # NoTask => Fits(current[w].order))'
      BY <1>6, <3>1
    <3> QED BY <2>1, <3>1, <3>2 DEF Fitting, PlanFits
  <2>2. CASE program # "sumo"
    BY <2>2 DEF Fitting
  <2> QED BY <2>1, <2>2
<1>8. Routed'
  <2>1. ASSUME program = "sumo", NEW i \in DOMAIN route' PROVE route'[i] \in {NoRoute, asked'[i]}
    <3>1. i \in 1..Len(asked) \/ i = Len(asked) + 1
      BY <1>4
    <3> QED BY <1>4, <1>5, <2>1, <3>1 DEF CacheInv, Routed
  <2>2. ASSUME NEW w \in Workers, at'[w] \in Syncing
        PROVE program = "sumo" /\ route'[current[w].order.vehicle] = current[w].order.trip
    <3>1. at[w] \in Syncing
      BY <2>2
    <3>2. program = "sumo" /\ current[w] # NoTask
      BY <1>1, <3>1 DEF CacheInv, Routed, TypeOK, Syncing
    <3>3. current[w].order.vehicle \in DOMAIN asked
      BY <3>2 DEF CacheInv, Fitting, Fits
    <3> QED BY <1>4, <1>5, <3>1, <3>2, <3>3 DEF CacheInv, Routed
  <2> QED BY <1>4, <2>1, <2>2 DEF Routed
<1>9. OneInserts'
  BY DEF CacheInv, OneInserts, NothingCached, Syncing
<1>10. CacheHolds'
  BY <1>4, <1>5 DEF CacheInv, CacheHolds
<1> QED BY <1>7, <1>8, <1>9, <1>10 DEF CacheInv

LEMMA NewWorkersSync ==
  ASSUME TypeOK, NEW n \in threads..MaxThreads, NewWorkers(n), NEW w \in Workers, at'[w] # at[w]
  PROVE at[w] \notin Syncing /\ at'[w] \notin Syncing
BY PoolAssumption DEF NewWorkers, TypeOK, Workers, Syncing

LEMMA AskingCache ==
  ASSUME ShapeInv, CacheInv, NEW trip \in Trips,
         UseCached(trip) \/ Reroute(trip) \/ ComputeFirst(trip)
  PROVE CacheInv'
<1>1. TypeOK
  BY DEF ShapeInv
<1>2. CASE UseCached(trip)
  <2> USE <1>2 DEF UseCached, MayAsk, poolVars, workerVars
  <2>1. CachedRoute(trip) = trip
    BY DEF CachedRoute, CacheInv, CacheHolds
  <2>2. PlanFits'
    BY DEF PlanFits
  <2> QED BY <2>1, <2>2, AskCache DEF Clearing
<1>3. CASE Reroute(trip)
  <2> USE <1>3 DEF Reroute, MayAsk
  <2>1. \A w \in Workers : at'[w] # at[w] => at[w] \notin Syncing /\ at'[w] \notin Syncing
    <3>1. CASE isFull /\ threads < MaxThreads
      <4>1. threads + 1 \in threads..MaxThreads /\ NewWorkers(threads + 1)
        BY <1>1, <3>1, PoolAssumption DEF TypeOK
      <4> QED BY <1>1, <4>1, NewWorkersSync
    <3>2. CASE ~(isFull /\ threads < MaxThreads)
      BY <3>2
    <3> QED BY <3>1, <3>2
  <2>2. PlanFits'
    <3>1. /\ Len(asked) + 1 \in DOMAIN asked' /\ asked'[Len(asked) + 1] = trip
      BY <1>1 DEF TypeOK
    <3>2. plan' = <<RouteFor(trip, Len(asked) + 1)>>
      OBVIOUS
    <3>3. ASSUME NEW i \in DOMAIN plan' PROVE plan'[i] = RouteFor(trip, Len(asked) + 1)
      BY <3>2, <3>3
    <3> QED BY <3>1, <3>3 DEF PlanFits, Fits, RouteFor
  <2>3. main' \notin Clearing
    BY DEF Clearing
  <2> QED BY <2>1, <2>2, <2>3, AskCache
<1>4. CASE ComputeFirst(trip)
  <2> USE <1>4 DEF ComputeFirst, MayAsk
  <2>1. 1 \in threads..MaxThreads
    BY <1>1, PoolAssumption DEF TypeOK
  <2>2. \A w \in Workers : at'[w] # at[w] => at[w] \notin Syncing /\ at'[w] \notin Syncing
    BY <1>1, <2>1, NewWorkersSync
  <2>3. main' \notin Clearing /\ program # "sumo"
    BY DEF Clearing
  <2> QED BY <2>2, <2>3, AskCache
<1> QED BY <1>2, <1>3, <1>4

LEMMA BulkCache ==
  ASSUME ShapeInv, CacheInv, NEW trip \in Trips, NEW n \in 1..MaxRequests, BulkGroup(trip, n)
  PROVE CacheInv'
<1> USE DEF BulkGroup, MayAsk
<1>1. TypeOK
  BY DEF ShapeInv
<1>2. MaxThreads \in threads..MaxThreads
  BY <1>1, PoolAssumption DEF TypeOK
<1>3. \A w \in Workers : at'[w] # at[w] => at[w] \notin Syncing /\ at'[w] \notin Syncing
  BY <1>1, <1>2, NewWorkersSync
<1>4. \A w \in Workers : at[w] \notin Syncing
  BY DEF CacheInv, Routed
<1>5. /\ program' # "sumo" /\ cache' = cache /\ held' = held /\ main' = "free"
      /\ NothingCached
  BY DEF CacheInv, OneInserts
<1>6. Fitting'
  BY <1>5 DEF Fitting
<1>7. Routed'
  <2>1. n \in Nat /\ asked \in Seq(Trips) /\ route \in Seq(Trips \cup {NoRoute}) /\ Len(route) = Len(asked)
    BY <1>1, PoolAssumption DEF TypeOK, CacheInv, Routed
  <2>2. /\ [i \in 1..n |-> trip] \in Seq(Trips) /\ Len([i \in 1..n |-> trip]) = n
        /\ [i \in 1..n |-> NoRoute] \in Seq(Trips \cup {NoRoute}) /\ Len([i \in 1..n |-> NoRoute]) = n
    BY <2>1
  <2>3. ASSUME NEW S, NEW s \in Seq(S), NEW t \in Seq(S) PROVE Len(s \o t) = Len(s) + Len(t)
    OBVIOUS
  <2>4. Len(asked') = Len(asked) + Len([i \in 1..n |-> trip])
    BY <2>1, <2>2, <2>3
  <2>5. Len(route') = Len(route) + Len([i \in 1..n |-> NoRoute])
    BY <2>1, <2>2, <2>3
  <2>6. Len(route') = Len(asked')
    BY ONLY <2>1, <2>2, <2>4, <2>5
  <2> QED BY <1>3, <1>4, <1>5, <2>6 DEF Routed
<1>8. OneInserts'
  BY <1>3, <1>4, <1>5 DEF OneInserts, NothingCached, Clearing, Syncing
<1>9. CacheHolds'
  BY <1>5 DEF CacheHolds, NothingCached, CacheInv
<1> QED BY <1>6, <1>7, <1>8, <1>9 DEF CacheInv

LEMMA ClearedCache ==
  ASSUME ShapeInv, CacheInv, Cleared, "abandoned" \notin Reloads
  PROVE CacheInv'
<1> USE DEF Cleared
<1>1. /\ adding = NoTask /\ plan = <<>>
      /\ \A w \in Workers : current[w] = NoTask
  BY ClearedShape DEF ShapeInv, TypeOK, InCalls
<1>2. /\ \A w \in Workers : at'[w] = "none" /\ myTasks'[w] = <<>> /\ ~router'[w].bulk
      /\ UNCHANGED <<program, current, plan, adding, cache, held>>
      /\ main' \in {"idle", "over"}
  <2>1. main' \in {"idle", "over"}
    BY DEF Reloading
  <2> QED BY <2>1 DEF NewRouter
<1>3. Fitting'
  BY <1>1, <1>2 DEF Fitting
<1>4. OneInserts'
  BY <1>2 DEF OneInserts, CacheInv, NothingCached, Clearing
<1>5. CASE Reloading
  <2>1. asked' = <<>> /\ route' = <<>>
    BY <1>5
  <2>2. NothingCached
    BY <1>5 DEF Reloading, CacheInv, OneInserts, Clearing
  <2>3. Routed'
    BY <1>2, <2>1 DEF Routed, Syncing
  <2>4. CacheHolds'
    BY <1>2, <2>2 DEF CacheHolds, NothingCached, CacheInv
  <2> QED BY <1>3, <1>4, <2>3, <2>4 DEF CacheInv
<1>6. CASE ~Reloading
  <2>1. asked' = asked /\ route' = route
    BY <1>6
  <2>2. Routed'
    BY <1>2, <2>1 DEF CacheInv, Routed, Syncing
  <2>3. CacheHolds'
    BY <1>2, <2>1 DEF CacheHolds, CacheInv
  <2> QED BY <1>3, <1>4, <2>2, <2>3 DEF CacheInv
<1> QED BY <1>5, <1>6

LEMMA MainCache ==
  ASSUME ShapeInv, CacheInv,
         LockingMain \/ InCall \/ WakeMain \/ WaitAll \/ UNCHANGED vars,
         ~Push, ~Cleared
  PROVE CacheInv'
<1> USE DEF LockToAdd, LockToWait, LockToStop, FindOpen, WaitForFinished, WakeMain, WaitAll, Return,
            SetStopped, Join, GoMain, vars, poolVars, workerVars, userVars, routeVars
<1>1. UNCHANGED <<program, plan, adding, myTasks, current, router, asked, route, cache, held>>
  BY DEF LockingMain, InCall
<1>2. \A w \in Workers : at'[w] # at[w] => at[w] \notin Syncing /\ at'[w] \notin Syncing
  <2>1. CASE SetStopped
    BY <2>1 DEF Signalled, Syncing, ShapeInv, TypeOK
  <2>2. CASE ~SetStopped
    BY <2>2 DEF LockingMain, InCall
  <2> QED BY <2>1, <2>2
<1>3. main' \in Clearing => main \in Clearing /\ myRunningIndex' = myRunningIndex
  BY DEF LockingMain, InCall, Clearing
<1> QED BY <1>1, <1>2, <1>3, StillCache

LEMMA NextCache ==
  ASSUME PoolInv, CacheInv, [Next]_vars, "abandoned" \notin Reloads
  PROVE CacheInv'
<1>1. ShapeInv
  BY DEF PoolInv
<1>2. CASE Calls
  BY <1>1, <1>2, AskingCache, BulkCache, AddCache, ForgetCache, MainCache
     DEF Calls, WaitAll, GoMain, Push, Cleared
<1>3. CASE Push \/ Cleared
  BY <1>1, <1>3, PushCache, ClearedCache
<1>4. CASE ~Push /\ ~Cleared /\ (LockingMain \/ InCall \/ WakeMain \/ UNCHANGED vars)
  BY <1>1, <1>4, MainCache
<1>5. CASE Over
  BY <1>1, <1>3, <1>5, MainCache DEF Over
<1> QED BY <1>2, <1>3, <1>4, <1>5, WorkerCache DEF Next

THEOREM PoolCacheInvariant ==
  ASSUME "abandoned" \notin Reloads
  PROVE Spec => []CacheInv
<1>1. Init => CacheInv
  <2> SUFFICES ASSUME Init PROVE CacheInv
    OBVIOUS
  <2> USE DEF Init
  <2>1. Fitting
    BY DEF Fitting, NewRouter
  <2>2. Routed
    BY DEF Routed, Syncing
  <2>3. OneInserts
    BY DEF OneInserts, NothingCached, Clearing
  <2>4. CacheHolds
    BY DEF CacheHolds
  <2> QED BY <2>1, <2>2, <2>3, <2>4 DEF CacheInv
<1>2. PoolInv /\ CacheInv /\ [Next]_vars => CacheInv'
  BY NextCache
<1> QED BY <1>1, <1>2, PoolInvariant, PTL DEF Spec

\* The cache and its references agree, and each cached route leads where it says (CacheHolds).
THEOREM PoolCacheHolds ==
  ASSUME "abandoned" \notin Reloads
  PROVE Spec => []CacheHolds
<1>1. CacheInv => CacheHolds
  BY DEF CacheInv
<1> QED BY <1>1, PoolCacheInvariant, PTL

-----------------------------------------------------------------------------
(* The routes: bulk routing continues only searches of the same departure edge *)

\* The tasks a worker has, those still to be added, and the tasks ahead of a worker in bulk
\* routing, with the indices they have or will get.
Running(w) == IF at[w] = "running" THEN {current[w]} ELSE {}
Here(w) == {myTasks[w][i] : i \in DOMAIN myTasks[w]} \cup Running(w)
TasksOf(p, first) == {[index |-> first + i - 1, order |-> p[i]] : i \in DOMAIN p}
Planned == TasksOf(plan, myRunningIndex)
Coming == Planned \cup (IF adding = NoTask THEN {} ELSE {adding.task})
Ahead(w) == Here(w) \cup (IF group.worker = w THEN Coming ELSE {})
Todo == Coming \cup UNION {Here(w) : w \in Workers}

IsRoute(task) == task.order.kind = "route"
Starts(task) == task.order = BulkmodeTask(TRUE)
Ends(task) == task.order = BulkmodeTask(FALSE)

EndsBetween(S, x, z) == \E y \in S : Ends(y) /\ x.index < y.index /\ y.index < z.index

\* A router in bulk mode leaves it before it gets a route of another trip.
TreeFits(S, tree) ==
  /\ \E y \in S : Ends(y)
  /\ \A x \in S : IsRoute(x) =>
       x.order.trip = tree \/ \E y \in S : Ends(y) /\ y.index < x.index

\* When x is run the router holds the tree of the trip.
Led(S, tree, x, trip) ==
  IF \E p \in S : p.index < x.index
  THEN \E p \in S : p.index + 1 = x.index /\ IsRoute(p) /\ p.order.trip = trip
  ELSE tree = trip

\* Bulk mode is left again, and the routes until then are of the trip of the one before it.
GroupFits(S, tree, x) ==
  /\ \E y \in S : Ends(y) /\ x.index < y.index
  /\ \A z \in S : IsRoute(z) /\ x.index < z.index =>
       EndsBetween(S, x, z) \/ Led(S, tree, x, z.order.trip)

\* The tasks S ahead of a router in this mode and with this tree.
InGroups(S, bulk, tree) ==
  /\ bulk => TreeFits(S, tree)
  /\ \A x \in S : Starts(x) => GroupFits(S, tree, x)

InOrder ==
  /\ adding # NoTask => /\ adding.task.index = myRunningIndex - 1
                        /\ program = "bulk" => adding.worker = group.worker
  /\ \A w \in Workers :
       /\ \A x \in Here(w) : x.index < myRunningIndex
                             /\ (adding # NoTask => x.index < adding.task.index)
       /\ \A i, j \in DOMAIN myTasks[w] : i < j => myTasks[w][i].index < myTasks[w][j].index
       /\ \A x \in Running(w) : \A i \in DOMAIN myTasks[w] : x.index < myTasks[w][i].index

Modes ==
  /\ program = "bulk" => \A w \in Workers : InGroups(Ahead(w), router[w].bulk, router[w].tree)
  /\ program # "bulk" => (\A x \in Todo : IsRoute(x)) /\ \A w \in Workers : ~router[w].bulk

\* A vehicle has its route or a task that will compute it.
Covered ==
  /\ \A x \in Todo : IsRoute(x) => Fits(x.order)
  /\ main # "over" => \A i \in DOMAIN asked :
       route[i] = asked[i] \/ \E x \in Todo : IsRoute(x) /\ x.order.vehicle = i
  /\ main = "idle" => Todo = {}

RoutesInv == InOrder /\ Modes /\ Covered

\* h is the first of the tasks S.
First(S, h) == h \in S /\ \A y \in S : y = h \/ h.index < y.index

LEMMA OrderKinds ==
  ASSUME NEW x
  PROVE  /\ IsRoute(x) => ~Starts(x) /\ ~Ends(x)
         /\ Starts(x) => ~Ends(x)
BY DEF IsRoute, Starts, Ends, BulkmodeTask

\* After a route: its tree is the one it was computed from.
LEMMA RouteRun ==
  ASSUME NEW S \in SUBSET Tasks, NEW bulk \in BOOLEAN, NEW tree, NEW h, First(S, h),
         IsRoute(h), InGroups(S, bulk, tree)
  PROVE  /\ bulk => tree = h.order.trip
         /\ InGroups(S \ {h}, bulk, h.order.trip)
<1> DEFINE T == S \ {h}
<1>1. \A y \in S : y.index \in Nat
  BY DEF Tasks
<1>2. bulk => tree = h.order.trip
  <2> SUFFICES ASSUME bulk PROVE tree = h.order.trip
    OBVIOUS
  <2>1. h \in S /\ \A y \in S : ~(y.index < h.index)
    BY <1>1 DEF First
  <2> QED BY <2>1 DEF InGroups, TreeFits
<1>3. \A y \in S : Ends(y) => y \in T
  BY OrderKinds
<1>4. bulk => TreeFits(T, h.order.trip)
  BY <1>2, <1>3 DEF InGroups, TreeFits
<1>5. ASSUME NEW x \in T, Starts(x) PROVE GroupFits(T, h.order.trip, x)
  <2>1. GroupFits(S, tree, x)
    BY <1>5 DEF InGroups
  <2>2. \E y \in T : Ends(y) /\ x.index < y.index
    BY <1>3, <2>1 DEF GroupFits
  <2>3. ASSUME NEW z \in T, IsRoute(z), x.index < z.index, ~EndsBetween(T, x, z)
        PROVE  Led(T, h.order.trip, x, z.order.trip)
    <3>1. ~EndsBetween(S, x, z)
      BY <1>3, <2>3 DEF EndsBetween
    <3>2. Led(S, tree, x, z.order.trip)
      BY <2>1, <2>3, <3>1 DEF GroupFits
    <3>3. h.index < x.index /\ h \in S
      BY DEF First
    <3>4. PICK p \in S : p.index + 1 = x.index /\ IsRoute(p) /\ p.order.trip = z.order.trip
      BY <3>2, <3>3 DEF Led
    <3>5. CASE \E q \in T : q.index < x.index
      <4>1. PICK q \in T : q.index < x.index
        BY <3>5
      <4>2. h.index < q.index
        BY <4>1 DEF First
      <4>3. p # h
        BY <1>1, <3>4, <4>1, <4>2
      <4> QED BY <3>4, <3>5, <4>3 DEF Led
    <3>6. CASE ~\E q \in T : q.index < x.index
      <4>1. p.index < x.index
        BY <1>1, <3>4
      <4>2. p = h
        BY <3>6, <4>1
      <4> QED BY <3>4, <3>6, <4>2 DEF Led
    <3> QED BY <3>5, <3>6
  <2> QED BY <2>2, <2>3 DEF GroupFits
<1> QED BY <1>2, <1>4, <1>5 DEF InGroups

\* After a switch of the bulk mode.
LEMMA SwitchRun ==
  ASSUME NEW S \in SUBSET Tasks, NEW bulk \in BOOLEAN, NEW tree, NEW h, First(S, h),
         ~IsRoute(h), InGroups(S, bulk, tree)
  PROVE  InGroups(S \ {h}, h.order.value, tree)
<1> DEFINE T == S \ {h}
<1>1. \A y \in S : y.index \in Nat
  BY DEF Tasks
<1>2. h \in S /\ (h.order.value => Starts(h)) /\ h.order.value \in BOOLEAN
  <2>1. h \in Tasks
    BY DEF First
  <2> QED BY <2>1 DEF First, Tasks, Orders, IsRoute, Starts, BulkmodeTask
<1>3. ASSUME h.order.value PROVE TreeFits(T, tree)
  <2>1. Starts(h) /\ ~Ends(h) /\ GroupFits(S, tree, h)
    BY <1>2, <1>3, OrderKinds DEF InGroups
  <2>2. ASSUME NEW y \in S, Ends(y) PROVE y \in T
    BY <2>1, <2>2
  <2>3. \E y \in T : Ends(y)
    BY <2>1, <2>2 DEF GroupFits
  <2>4. ASSUME NEW z \in T, IsRoute(z), ~\E y \in T : Ends(y) /\ y.index < z.index
        PROVE  z.order.trip = tree
    <3>1. h.index < z.index
      BY DEF First
    <3>2. ~EndsBetween(S, h, z)
      BY <2>2, <2>4 DEF EndsBetween
    <3>3. Led(S, tree, h, z.order.trip)
      BY <2>1, <2>4, <3>1, <3>2 DEF GroupFits
    <3>4. \A p \in S : ~(p.index < h.index)
      BY <1>1, <1>2 DEF First
    <3> QED BY <3>3, <3>4 DEF Led
  <2> QED BY <2>3, <2>4 DEF TreeFits
<1>4. ASSUME NEW x \in T, Starts(x) PROVE GroupFits(T, tree, x)
  <2>1. GroupFits(S, tree, x)
    BY <1>4 DEF InGroups
  <2>2. h.index < x.index
    BY DEF First
  <2>3. ASSUME NEW y \in S, x.index < y.index PROVE y \in T
    BY <1>1, <1>2, <2>2, <2>3
  <2>4. \E y \in T : Ends(y) /\ x.index < y.index
    BY <2>1, <2>3 DEF GroupFits
  <2>5. ASSUME NEW z \in T, IsRoute(z), x.index < z.index, ~EndsBetween(T, x, z)
        PROVE  Led(T, tree, x, z.order.trip)
    <3>1. ~EndsBetween(S, x, z)
      BY <2>3, <2>5 DEF EndsBetween
    <3>2. Led(S, tree, x, z.order.trip)
      BY <2>1, <2>5, <3>1 DEF GroupFits
    <3>3. PICK p \in S : p.index + 1 = x.index /\ IsRoute(p) /\ p.order.trip = z.order.trip
      BY <1>2, <2>2, <3>2 DEF Led
    <3>4. p \in T
      BY <3>3
    <3>5. p.index < x.index
      BY <1>1, <3>3
    <3> QED BY <3>3, <3>4, <3>5 DEF Led
  <2> QED BY <2>4, <2>5 DEF GroupFits
<1> QED BY <1>3, <1>4 DEF InGroups

\* A group as bulk routing plans it, from index n on.
IsGroup(G, n, trip) ==
  /\ \E p \in G : p.index = n /\ IsRoute(p)
  /\ \A x \in G : IsRoute(x) => x.order.trip = trip
  /\ \A x \in G : Starts(x) => x.index = n + 1
  /\ \E y \in G : Ends(y) /\ n + 1 < y.index

LEMMA GroupAdded ==
  ASSUME NEW S \in SUBSET Tasks, NEW G \in SUBSET Tasks, NEW bulk \in BOOLEAN, NEW tree,
         NEW trip, NEW n \in Nat,
         \A x \in S : x.index < n, \A x \in G : n <= x.index,
         IsGroup(G, n, trip), InGroups(S, bulk, tree)
  PROVE  InGroups(S \cup G, bulk, tree)
<1> DEFINE T == S \cup G
<1>1. \A y \in T : y.index \in Nat
  BY DEF Tasks
<1>2. \A x \in S, y \in G : x.index < y.index /\ ~(y.index < x.index)
  BY <1>1
<1>3. bulk => TreeFits(T, tree)
  BY <1>2 DEF InGroups, TreeFits
<1>4. ASSUME NEW x \in S, Starts(x) PROVE GroupFits(T, tree, x)
  <2>1. GroupFits(S, tree, x)
    BY <1>4 DEF InGroups
  <2>2. PICK e \in S : Ends(e) /\ x.index < e.index
    BY <2>1 DEF GroupFits
  <2>3. ASSUME NEW z \in T, IsRoute(z), x.index < z.index, ~EndsBetween(T, x, z)
        PROVE  Led(T, tree, x, z.order.trip)
    <3>1. z \in S
      BY <1>2, <2>2, <2>3 DEF EndsBetween
    <3>2. ~EndsBetween(S, x, z)
      BY <2>3 DEF EndsBetween
    <3>3. Led(S, tree, x, z.order.trip)
      BY <2>1, <2>3, <3>1, <3>2 DEF GroupFits
    <3>4. \A p \in T : p.index < x.index => p \in S
      BY <1>2
    <3> QED BY <3>3, <3>4 DEF Led
  <2> QED BY <2>2, <2>3 DEF GroupFits
<1>5. ASSUME NEW x \in G, Starts(x) PROVE GroupFits(T, tree, x)
  <2>1. x.index = n + 1
    BY <1>5 DEF IsGroup
  <2>2. \E y \in T : Ends(y) /\ x.index < y.index
    BY <2>1 DEF IsGroup
  <2>3. PICK p \in G : p.index = n /\ IsRoute(p)
    BY DEF IsGroup
  <2>4. ASSUME NEW z \in T, IsRoute(z), x.index < z.index
        PROVE  Led(T, tree, x, z.order.trip)
    <3>1. z \in G
      BY <1>1, <1>2, <2>4
    <3>2. z.order.trip = p.order.trip
      BY <2>3, <2>4, <3>1 DEF IsGroup
    <3>3. p.index + 1 = x.index /\ p.index < x.index
      BY <1>1, <2>1, <2>3
    <3> QED BY <2>3, <3>2, <3>3 DEF Led
  <2> QED BY <2>2, <2>4 DEF GroupFits
<1> QED BY <1>3, <1>4, <1>5 DEF InGroups

LEMMA HereType ==
  ASSUME ShapeInv
  PROVE  /\ \A w \in Workers : Here(w) \subseteq Tasks
         /\ Planned \subseteq Tasks
         /\ Coming \subseteq Tasks
         /\ \A w \in Workers : Ahead(w) \subseteq Tasks
         /\ Todo \subseteq Tasks
<1>1. TypeOK
  BY DEF ShapeInv
<1>2. ASSUME NEW w \in Workers PROVE Here(w) \subseteq Tasks
  <2>1. \A i \in DOMAIN myTasks[w] : myTasks[w][i] \in Tasks
    BY <1>1 DEF TypeOK
  <2>2. Running(w) \subseteq Tasks
    BY <1>1 DEF TypeOK, Running
  <2> QED BY <2>1, <2>2 DEF Here
<1>3. Planned \subseteq Tasks
  <2>1. ASSUME NEW i \in DOMAIN plan
        PROVE  [index |-> myRunningIndex + i - 1, order |-> plan[i]] \in Tasks
    BY <1>1 DEF TypeOK, Tasks
  <2> QED BY <2>1 DEF Planned, TasksOf
<1>4. Coming \subseteq Tasks
  BY <1>1, <1>3 DEF TypeOK, Coming, Additions
<1> QED BY <1>2, <1>3, <1>4 DEF Ahead, Todo

\* A running task comes before all others of its worker.
LEMMA RunningFirst ==
  ASSUME ShapeInv, InOrder, NEW w \in Workers, at[w] = "running"
  PROVE  First(Ahead(w), current[w])
<1>1. TypeOK /\ Running(w) = {current[w]} /\ current[w] \in Here(w)
  BY DEF ShapeInv, Running, Here
<1>2. current[w] \in Tasks /\ current[w].index \in Nat /\ current[w].index < myRunningIndex
  BY <1>1, HereType DEF InOrder, Tasks
<1>3. ASSUME NEW y \in Here(w) PROVE y = current[w] \/ current[w].index < y.index
  BY <1>1 DEF Here, InOrder
<1>4. ASSUME NEW y \in Planned PROVE current[w].index < y.index
  <2>1. PICK i \in DOMAIN plan : y = [index |-> myRunningIndex + i - 1, order |-> plan[i]]
    BY DEF Planned, TasksOf
  <2>2. i \in Nat \ {0} /\ myRunningIndex \in Nat
    BY <1>1 DEF TypeOK
  <2> QED BY <1>2, <2>1, <2>2
<1>5. ASSUME adding # NoTask PROVE current[w].index < adding.task.index
  BY <1>1, <1>5 DEF InOrder
<1> QED BY <1>1, <1>3, <1>4, <1>5 DEF First, Ahead, Coming

\* Tasks that only move from one place to the next.
LEMMA SameTodo ==
  ASSUME RoutesInv, UNCHANGED <<program, router, asked, route>>, Todo' = Todo,
         program = "bulk" => \A w \in Workers : Ahead(w)' = Ahead(w),
         main' = "idle" => main = "idle", main' # "over" => main # "over"
  PROVE  Modes' /\ Covered'
<1>1. Modes'
  BY DEF RoutesInv, Modes
<1>2. Covered'
  BY DEF RoutesInv, Covered, Fits
<1> QED BY <1>1, <1>2

LEMMA StillRoutes ==
  ASSUME RoutesInv,
         UNCHANGED <<program, myRunningIndex, plan, adding, group, myTasks, router, asked, route>>,
         \A w \in Workers : Running(w)' = Running(w),
         main' = "idle" => main = "idle", main' # "over" => main # "over"
  PROVE  RoutesInv'
<1>1. \A w \in Workers : Here(w)' = Here(w)
  BY DEF Here
<1>2. Coming' = Coming
  BY DEF Coming, Planned, TasksOf
<1>3. Todo' = Todo /\ \A w \in Workers : Ahead(w)' = Ahead(w)
  BY <1>1, <1>2 DEF Todo, Ahead
<1>4. InOrder'
  BY <1>1 DEF RoutesInv, InOrder
<1> QED BY <1>3, <1>4, SameTodo DEF RoutesInv

LEMMA TakeRoutes ==
  ASSUME ShapeInv, RoutesInv, NEW w \in Workers, Take(w)
  PROVE  RoutesInv'
<1> USE DEF Take, Go, poolVars, userVars, routeVars
<1> DEFINE q == myTasks[w]
<1>1. TypeOK
  BY DEF ShapeInv
<1>2. q \in Seq(Tasks) /\ q # <<>>
  BY <1>1 DEF TypeOK
<1>3. /\ Head(q) = q[1] /\ 1 \in DOMAIN q
      /\ \A i \in DOMAIN Tail(q) : i \in Nat \ {0} /\ i + 1 \in DOMAIN q /\ Tail(q)[i] = q[i + 1]
      /\ \A i \in DOMAIN q : i # 1 => i - 1 \in DOMAIN Tail(q) /\ Tail(q)[i - 1] = q[i]
  BY <1>2
<1>4. myTasks'[w] = Tail(q) /\ current'[w] = Head(q) /\ at'[w] = "running" /\ at[w] = "test"
  BY <1>1 DEF TypeOK
<1>5. ASSUME NEW v \in Workers, v # w
      PROVE  /\ myTasks'[v] = myTasks[v] /\ Running(v)' = Running(v)
             /\ Here(v)' = Here(v)
  BY <1>1, <1>5 DEF TypeOK, Running, Here
<1>6. Running(w) = {} /\ Running(w)' = {q[1]}
  BY <1>3, <1>4 DEF Running
<1>7. Here(w)' = Here(w)
  <2>1. Here(w) = {q[i] : i \in DOMAIN q}
    BY <1>6 DEF Here
  <2>2. Here(w)' = {Tail(q)[i] : i \in DOMAIN Tail(q)} \cup {q[1]}
    BY <1>4, <1>6 DEF Here
  <2>3. {Tail(q)[i] : i \in DOMAIN Tail(q)} \cup {q[1]} \subseteq {q[i] : i \in DOMAIN q}
    BY <1>3
  <2>4. {q[i] : i \in DOMAIN q} \subseteq {Tail(q)[i] : i \in DOMAIN Tail(q)} \cup {q[1]}
    BY <1>3
  <2> QED BY <2>1, <2>2, <2>3, <2>4
<1>8. \A v \in Workers : Here(v)' = Here(v)
  BY <1>5, <1>7
<1>9. Coming' = Coming
  BY DEF Coming, Planned, TasksOf
<1>10. Todo' = Todo /\ \A v \in Workers : Ahead(v)' = Ahead(v)
  BY <1>8, <1>9 DEF Todo, Ahead
<1>11. InOrder'
  <2>1. \A i, j \in DOMAIN q : i < j => q[i].index < q[j].index
    BY DEF RoutesInv, InOrder
  <2>2. ASSUME NEW i \in DOMAIN Tail(q)
        PROVE  q[1].index < Tail(q)[i].index
    <3>1. 1 < i + 1
      BY <1>3
    <3> QED BY <1>3, <2>1, <3>1
  <2>3. ASSUME NEW i \in DOMAIN Tail(q), NEW j \in DOMAIN Tail(q), i < j
        PROVE  Tail(q)[i].index < Tail(q)[j].index
    <3>1. i + 1 < j + 1
      BY <1>3, <2>3
    <3> QED BY <1>3, <2>1, <3>1
  <2>4. ASSUME NEW v \in Workers
        PROVE  /\ \A i, j \in DOMAIN myTasks'[v] :
                    i < j => myTasks'[v][i].index < myTasks'[v][j].index
               /\ \A x \in Running(v)' : \A i \in DOMAIN myTasks'[v] :
                    x.index < myTasks'[v][i].index
    <3>1. CASE v = w
      BY <1>4, <1>6, <2>2, <2>3, <3>1
    <3>2. CASE v # w
      BY <1>5, <3>2 DEF RoutesInv, InOrder
    <3> QED BY <3>1, <3>2
  <2> QED BY <1>8, <2>4 DEF RoutesInv, InOrder
<1> QED BY <1>10, <1>11, SameTodo DEF RoutesInv

\* A worker runs its task: the tasks ahead of it lose their first.
LEMMA RunOrder ==
  ASSUME ShapeInv, RoutesInv, NEW w \in Workers, at[w] = "running",
         UNCHANGED <<program, myRunningIndex, plan, adding, group, myTasks, current>>,
         NEW to, to # "running", at' = [at EXCEPT ![w] = to]
  PROVE  /\ InOrder'
         /\ Todo \ {current[w]} \subseteq Todo' /\ Todo' \subseteq Todo
         /\ Ahead(w)' = Ahead(w) \ {current[w]}
         /\ \A v \in Workers : v # w => Ahead(v)' = Ahead(v)
<1>1. at \in [Workers -> Places]
  BY DEF ShapeInv, TypeOK, Places
<1>2. Running(w) = {current[w]} /\ Running(w)' = {}
  BY <1>1 DEF Running
<1>3. \A v \in Workers : v # w => Running(v)' = Running(v)
  BY <1>1 DEF Running
<1>4. \A v \in Workers : v # w => Here(v)' = Here(v)
  BY <1>3 DEF Here
<1>5. Coming' = Coming
  BY DEF Coming, Planned, TasksOf
<1>6. First(Ahead(w), current[w])
  BY RunningFirst DEF RoutesInv
<1>7. Ahead(w) \subseteq Tasks
  BY HereType
<1>8. current[w].index \in Nat
  BY <1>6, <1>7 DEF First, Tasks
<1>9. \A i \in DOMAIN myTasks[w] : myTasks[w][i] # current[w]
  BY <1>2, <1>8 DEF RoutesInv, InOrder
<1>10. Here(w)' = Here(w) \ {current[w]}
  BY <1>2, <1>9 DEF Here
<1>11. group.worker = w => current[w] \notin Coming
  <2>1. ASSUME NEW y \in Planned PROVE y.index >= myRunningIndex
    <3>1. PICK i \in DOMAIN plan : y = [index |-> myRunningIndex + i - 1, order |-> plan[i]]
      BY DEF Planned, TasksOf
    <3>2. i \in Nat \ {0} /\ myRunningIndex \in Nat
      BY DEF ShapeInv, TypeOK
    <3> QED BY <3>1, <3>2
  <2>2. current[w] \in Here(w)
    BY <1>2 DEF Here
  <2>3. current[w].index < myRunningIndex /\ (adding # NoTask => current[w].index < adding.task.index)
    BY <2>2 DEF RoutesInv, InOrder
  <2>4. myRunningIndex \in Nat
    BY DEF ShapeInv, TypeOK
  <2>5. current[w] \notin Planned
    BY <1>8, <2>1, <2>3, <2>4
  <2>6. adding # NoTask => current[w] # adding.task
    BY <1>8, <2>3
  <2> QED BY <2>5, <2>6 DEF Coming
<1>12. InOrder'
  BY <1>2, <1>3, <1>4, <1>10 DEF RoutesInv, InOrder
<1> QED BY <1>4, <1>5, <1>10, <1>11, <1>12 DEF Todo, Ahead

LEMMA RunningTodo ==
  ASSUME NEW w \in Workers, at[w] = "running"
  PROVE  current[w] \in Todo /\ current[w] \in Ahead(w)
BY DEF Todo, Ahead, Here, Running

LEMMA SwitchRoutes ==
  ASSUME ShapeInv, RoutesInv, NEW w \in Workers, SwitchBulk(w)
  PROVE  RoutesInv'
<1> USE DEF SwitchBulk, Go, poolVars, userVars, routeVars
<1>1. TypeOK
  BY DEF ShapeInv
<1>2. current[w] \in Todo /\ ~IsRoute(current[w])
  BY RunningTodo DEF IsRoute
<1>3. program = "bulk"
  BY <1>2 DEF RoutesInv, Modes
<1>4. /\ InOrder'
      /\ Todo \ {current[w]} \subseteq Todo' /\ Todo' \subseteq Todo
      /\ Ahead(w)' = Ahead(w) \ {current[w]}
      /\ \A v \in Workers : v # w => Ahead(v)' = Ahead(v)
  BY RunOrder
<1>5. /\ router'[w].bulk = current[w].order.value /\ router'[w].tree = router[w].tree
      /\ \A v \in Workers : v # w => router'[v] = router[v]
  BY <1>1 DEF TypeOK
<1>6. InGroups(Ahead(w) \ {current[w]}, current[w].order.value, router[w].tree)
  <2>1. First(Ahead(w), current[w]) /\ Ahead(w) \subseteq Tasks
    BY RunningFirst, HereType DEF RoutesInv
  <2>2. router[w].bulk \in BOOLEAN
    BY <1>1 DEF TypeOK
  <2>3. InGroups(Ahead(w), router[w].bulk, router[w].tree)
    BY <1>3 DEF RoutesInv, Modes
  <2> QED BY <1>2, <2>1, <2>2, <2>3, SwitchRun
<1>7. Modes'
  BY <1>3, <1>4, <1>5, <1>6 DEF RoutesInv, Modes
<1>8. Covered'
  BY <1>2, <1>4 DEF RoutesInv, Covered, Fits
<1> QED BY <1>4, <1>7, <1>8 DEF RoutesInv

LEMMA RunRoutes ==
  ASSUME ShapeInv, RoutesInv, Len(route) = Len(asked), NEW w \in Workers, RunRouting(w)
  PROVE  RoutesInv'
<1> USE DEF Go, poolVars, userVars, routeVars
<1> DEFINE order == current[w].order
<1>1. TypeOK
  BY DEF ShapeInv
<1>2. at[w] = "running" /\ IsRoute(current[w])
  BY DEF RunRouting, IsRoute
<1>3. current[w] \in Todo /\ Fits(order)
  BY <1>2, RunningTodo DEF RoutesInv, Covered
<1>4. /\ InOrder'
      /\ Todo \ {current[w]} \subseteq Todo' /\ Todo' \subseteq Todo
      /\ Ahead(w)' = Ahead(w) \ {current[w]}
      /\ \A v \in Workers : v # w => Ahead(v)' = Ahead(v)
  <2>1. /\ UNCHANGED <<program, myRunningIndex, plan, adding, group, myTasks, current>>
        /\ \E to : to # "running" /\ at' = [at EXCEPT ![w] = to]
    BY DEF RunRouting
  <2> QED BY <1>2, <2>1, RunOrder
<1>5. /\ program = "bulk" => /\ router[w].bulk => router[w].tree = order.trip
                             /\ InGroups(Ahead(w) \ {current[w]}, router[w].bulk, order.trip)
      /\ program # "bulk" => ~router[w].bulk
  <2>1. First(Ahead(w), current[w]) /\ Ahead(w) \in SUBSET Tasks
    BY <1>2, RunningFirst, HereType DEF RoutesInv
  <2>2. router[w].bulk \in BOOLEAN
    BY <1>1 DEF TypeOK
  <2>3. program = "bulk" => InGroups(Ahead(w), router[w].bulk, router[w].tree)
    BY DEF RoutesInv, Modes
  <2>4. program # "bulk" => ~router[w].bulk
    BY DEF RoutesInv, Modes
  <2> QED BY <1>2, <2>1, <2>2, <2>3, <2>4, RouteRun
<1>6. (IF router[w].bulk THEN router[w].tree ELSE order.trip) = order.trip
  BY <1>5
<1>7. /\ route' = [route EXCEPT ![order.vehicle] = order.trip]
      /\ router' = [router EXCEPT ![w].tree = order.trip]
      /\ UNCHANGED <<program, asked, main>>
  BY <1>6 DEF RunRouting
<1>8. /\ router'[w].bulk = router[w].bulk /\ router'[w].tree = order.trip
      /\ \A v \in Workers : v # w => router'[v] = router[v]
  BY <1>1, <1>7 DEF TypeOK
<1>9. Modes'
  BY <1>4, <1>5, <1>7, <1>8 DEF RoutesInv, Modes
<1>10. DOMAIN route = DOMAIN asked
  <2>1. DOMAIN asked = 1..Len(asked) /\ DOMAIN route = 1..Len(route)
    BY <1>1 DEF TypeOK
  <2> QED BY <2>1
<1>11. ASSUME NEW i \in DOMAIN asked
       PROVE  route'[i] = IF i = order.vehicle THEN asked[i] ELSE route[i]
  BY <1>3, <1>7, <1>10 DEF Fits
<1>12. ASSUME NEW i \in DOMAIN asked, route'[i] # asked'[i], main # "over"
       PROVE  \E x \in Todo' : IsRoute(x) /\ x.order.vehicle = i
  <2>1. i # order.vehicle /\ route[i] # asked[i]
    BY <1>7, <1>11, <1>12
  <2>2. PICK x \in Todo : IsRoute(x) /\ x.order.vehicle = i
    BY <1>12, <2>1 DEF RoutesInv, Covered
  <2>3. x # current[w]
    BY <2>1, <2>2
  <2> QED BY <1>4, <2>2, <2>3
<1>13. Covered'
  BY <1>4, <1>7, <1>12 DEF RoutesInv, Covered, Fits
<1> QED BY <1>4, <1>9, <1>13 DEF RoutesInv

LEMMA WorkerRoutes ==
  ASSUME ShapeInv, RoutesInv, Len(route) = Len(asked),
         NEW w \in Workers, Locking(w) \/ Working(w) \/ Wake(w)
  PROVE  RoutesInv'
<1>1. CASE Begin(w) \/ LockTasks(w) \/ FindNothing(w) \/ WaitForTask(w) \/ Wake(w) \/ Leave(w)
           \/ LockPool(w) \/ LockSync(w) \/ FindCached(w)
  <2> USE DEF Begin, LockTasks, FindNothing, WaitForTask, Wake, Leave, LockPool, LockSync,
              FindCached, Go, OnlyAt, poolVars, userVars, routeVars
  <2>1. at \in [Workers -> Places]
    BY DEF ShapeInv, TypeOK, Places
  <2>2. current' = current /\ \A v \in Workers : at'[v] = "running" <=> at[v] = "running"
    BY <1>1, <2>1
  <2>3. \A v \in Workers : Running(v)' = Running(v)
    BY <2>2 DEF Running
  <2> QED BY <1>1, <2>3, StillRoutes
<1>2. CASE InsertCached(w) \/ AddFinished(w)
  <2> USE DEF InsertCached, AddFinished, Go, poolVars, userVars, routeVars
  <2>1. \A v \in Workers : /\ at'[v] = "running" <=> at[v] = "running"
                           /\ at[v] = "running" => current'[v] = current[v]
    BY <1>2 DEF ShapeInv, TypeOK
  <2>2. \A v \in Workers : Running(v)' = Running(v)
    BY <2>1 DEF Running
  <2>3. (main' = "idle" => main = "idle") /\ (main' # "over" => main # "over")
    BY <1>2
  <2> QED BY <1>2, <2>2, <2>3, StillRoutes
<1> QED BY <1>1, <1>2, TakeRoutes, SwitchRoutes, RunRoutes DEF Locking, Working

LEMMA AddRoutes ==
  ASSUME ShapeInv, RoutesInv, Add
  PROVE  RoutesInv'
<1> USE DEF Add, workerVars, routeVars
<1>1. TypeOK
  BY DEF ShapeInv
<1>2. plan \in Seq(Orders) /\ plan # <<>> /\ myRunningIndex \in Nat
  BY <1>1 DEF TypeOK
<1>3. /\ Head(plan) = plan[1] /\ 1 \in DOMAIN plan
      /\ \A i \in DOMAIN Tail(plan) : i \in Nat \ {0} /\ i + 1 \in DOMAIN plan /\ Tail(plan)[i] = plan[i + 1]
      /\ \A i \in DOMAIN plan : i # 1 => i \in Nat /\ i - 1 \in DOMAIN Tail(plan) /\ Tail(plan)[i - 1] = plan[i]
  BY <1>2
<1>4. /\ adding' # NoTask /\ adding = NoTask
      /\ adding'.task = [index |-> myRunningIndex, order |-> plan[1]]
      /\ adding'.worker = ChosenWorker
  BY <1>1, <1>3, AddShape, PoolAssumption DEF TypeOK
<1>5. Planned = Planned' \cup {adding'.task}
  <2>1. ASSUME NEW y \in Planned PROVE y \in Planned' \/ y = adding'.task
    <3>1. PICK i \in DOMAIN plan : y = [index |-> myRunningIndex + i - 1, order |-> plan[i]]
      BY DEF Planned, TasksOf
    <3>2. CASE i = 1
      <4>1. myRunningIndex + i - 1 = myRunningIndex
        BY <1>2, <3>2
      <4> QED BY <1>4, <3>1, <3>2, <4>1
    <3>3. CASE i # 1
      <4>1. i \in Nat /\ myRunningIndex' = myRunningIndex + 1
        BY <1>3, <3>3
      <4>2. myRunningIndex' + (i - 1) - 1 = myRunningIndex + i - 1
        BY ONLY <1>2, <4>1
      <4> QED BY <1>3, <3>1, <3>3, <4>2 DEF Planned, TasksOf
    <3> QED BY <3>2, <3>3
  <2>2. ASSUME NEW y \in Planned' PROVE y \in Planned
    <3>1. PICK i \in DOMAIN Tail(plan) :
            y = [index |-> myRunningIndex' + i - 1, order |-> Tail(plan)[i]]
      BY DEF Planned, TasksOf
    <3>2. myRunningIndex' + i - 1 = myRunningIndex + (i + 1) - 1
      BY <1>2, <1>3
    <3> QED BY <1>3, <3>1, <3>2 DEF Planned, TasksOf
  <2>3. adding'.task \in Planned
    <3>1. myRunningIndex + 1 - 1 = myRunningIndex
      BY <1>2
    <3> QED BY <1>3, <1>4, <3>1 DEF Planned, TasksOf
  <2> QED BY <2>1, <2>2, <2>3
<1>6. Coming' = Coming
  BY <1>4, <1>5 DEF Coming
<1>7. \A w \in Workers : Here(w)' = Here(w) /\ Running(w)' = Running(w)
  BY DEF Here, Running
<1>8. Todo' = Todo /\ \A w \in Workers : Ahead(w)' = Ahead(w)
  BY <1>6, <1>7 DEF Todo, Ahead
<1>9. InOrder'
  <2>1. adding'.task.index = myRunningIndex' - 1 /\ adding'.task.index = myRunningIndex
    BY <1>2, <1>4
  <2>2. program = "bulk" => adding'.worker = group'.worker
    BY <1>4 DEF ChosenWorker
  <2>3. \A w \in Workers : \A x \in Here(w) : x.index < myRunningIndex'
    <3>1. \A w \in Workers : \A x \in Here(w) : x.index < myRunningIndex /\ x.index \in Nat
      BY HereType DEF RoutesInv, InOrder, Tasks
    <3> QED BY <1>2, <3>1
  <2> QED BY <1>7, <2>1, <2>2, <2>3 DEF RoutesInv, InOrder
<1> QED BY <1>8, <1>9, SameTodo DEF RoutesInv

LEMMA PushRoutes ==
  ASSUME ShapeInv, RoutesInv, Push
  PROVE  RoutesInv'
<1> USE DEF Push, routeVars, poolVars
<1>1. TypeOK
  BY DEF ShapeInv
<1>2. adding \in Additions /\ adding # NoTask
  BY <1>1, PoolAssumption DEF TypeOK
<1>3. PICK w \in Workers, t \in Tasks : adding.worker = w /\ adding.task = t
  BY <1>2 DEF Additions
<1>4. PICK q : q = myTasks[w]
  OBVIOUS
<1>5. q \in Seq(Tasks)
  BY <1>1, <1>4 DEF TypeOK
<1>6. myTasks'[w] = Append(q, t)
  BY <1>1, <1>3, <1>4 DEF TypeOK
<1>7. /\ DOMAIN q = 1..Len(q) /\ Len(q) \in Nat /\ DOMAIN Append(q, t) = 1..(Len(q) + 1)
      /\ Append(q, t)[Len(q) + 1] = t
      /\ \A i \in 1..Len(q) : Append(q, t)[i] = q[i]
  BY <1>5
<1>8. \A v \in Workers : v # w => myTasks'[v] = myTasks[v]
  BY <1>1, <1>3 DEF TypeOK
<1>9. \A v \in Workers : Running(v)' = Running(v)
  BY <1>1 DEF Signalled, Running, TypeOK
<1>10. {Append(q, t)[i] : i \in 1..(Len(q) + 1)} = {q[i] : i \in 1..Len(q)} \cup {t}
  <2>1. 1..(Len(q) + 1) = 1..Len(q) \cup {Len(q) + 1}
    BY <1>7
  <2> QED BY <1>7, <2>1
<1>11. Here(w)' = Here(w) \cup {t}
  <2>1. Here(w) = {q[i] : i \in 1..Len(q)} \cup Running(w)
    BY <1>4, <1>7 DEF Here
  <2>2. Here(w)' = {Append(q, t)[i] : i \in 1..(Len(q) + 1)} \cup Running(w)
    BY <1>6, <1>7, <1>9 DEF Here
  <2> QED BY <1>10, <2>1, <2>2
<1>12. \A v \in Workers : v # w => Here(v)' = Here(v)
  BY <1>8, <1>9 DEF Here
<1>13. Coming = Planned \cup {t} /\ Coming' = Planned /\ adding' = NoTask
  BY <1>2, <1>3 DEF Coming, Planned, TasksOf
<1>14. Todo' = Todo
  <2>1. \A x : x \in Todo' <=> x \in Planned \/ \E v \in Workers : x \in Here(v)'
    BY <1>13 DEF Todo
  <2>2. \A x : x \in Todo <=> x \in Planned \/ x = t \/ \E v \in Workers : x \in Here(v)
    BY <1>13 DEF Todo
  <2> QED BY <1>11, <1>12, <2>1, <2>2
<1>15. program = "bulk" => \A v \in Workers : Ahead(v)' = Ahead(v)
  <2>1. program = "bulk" => group.worker = w
    BY <1>2, <1>3 DEF RoutesInv, InOrder
  <2> QED BY <1>11, <1>12, <1>13, <2>1 DEF Ahead
<1>16. InOrder'
  <2>1. t.index < myRunningIndex /\ t.index \in Nat
    <3>1. t.index = myRunningIndex - 1 /\ t.index \in Nat /\ myRunningIndex \in Nat
      BY <1>1, <1>2, <1>3 DEF RoutesInv, InOrder, Tasks, TypeOK
    <3> QED BY <3>1
  <2>2. \A v \in Workers : \A x \in Here(v) : x.index < myRunningIndex /\ x.index < t.index
    BY <1>2, <1>3 DEF RoutesInv, InOrder
  <2>3. \A v \in Workers : \A x \in Here(v)' : x.index < myRunningIndex
    BY <1>11, <1>12, <2>1, <2>2
  <2>4. \A i \in 1..Len(q) : q[i].index < t.index
    BY <1>4, <1>7, <2>2 DEF Here
  <2>5. \A x \in Running(w) : x.index < t.index
    BY <2>2 DEF Here
  <2>6. /\ \A i, j \in DOMAIN q : i < j => q[i].index < q[j].index
        /\ \A x \in Running(w) : \A i \in DOMAIN q : x.index < q[i].index
    BY <1>4 DEF RoutesInv, InOrder
  <2>7. ASSUME NEW i \in 1..(Len(q) + 1), NEW j \in 1..(Len(q) + 1), i < j
        PROVE  Append(q, t)[i].index < Append(q, t)[j].index
    <3>1. i \in 1..Len(q)
      BY <1>7, <2>7
    <3>2. CASE j \in 1..Len(q)
      BY <1>7, <2>6, <2>7, <3>1, <3>2
    <3>3. CASE j = Len(q) + 1
      BY <1>7, <2>4, <3>1, <3>3
    <3> QED BY <1>7, <3>2, <3>3
  <2>8. ASSUME NEW x \in Running(w), NEW i \in 1..(Len(q) + 1)
        PROVE  x.index < Append(q, t)[i].index
    <3>1. i \in 1..Len(q) \/ i = Len(q) + 1
      BY <1>7
    <3> QED BY <1>7, <2>5, <2>6, <3>1
  <2>9. ASSUME NEW v \in Workers
        PROVE  /\ \A i, j \in DOMAIN myTasks'[v] :
                    i < j => myTasks'[v][i].index < myTasks'[v][j].index
               /\ \A x \in Running(v)' : \A i \in DOMAIN myTasks'[v] :
                    x.index < myTasks'[v][i].index
    <3>1. CASE v = w
      BY <1>6, <1>7, <1>9, <2>7, <2>8, <3>1
    <3>2. CASE v # w
      BY <1>8, <1>9, <3>2 DEF RoutesInv, InOrder
    <3> QED BY <3>1, <3>2
  <2> QED BY <1>13, <2>3, <2>9 DEF InOrder
<1>17. main' = "free" /\ main = "push"
  OBVIOUS
<1> QED BY <1>14, <1>15, <1>16, <1>17, SameTodo DEF RoutesInv

\* No task is on its way when the user may ask, and no group is.
LEMMA NothingComing ==
  ASSUME ShapeInv, main \in {"idle", "free"}, plan = <<>>
  PROVE  Planned = {} /\ Coming = {} /\ \A w \in Workers : Ahead(w) = Here(w)
<1>1. adding = NoTask
  BY DEF ShapeInv, TypeOK
<1>2. Planned = {}
  BY DEF Planned, TasksOf
<1> QED BY <1>1, <1>2 DEF Coming, Ahead

\* A vehicle that asks.
LEMMA Longer ==
  ASSUME ShapeInv, Covered, Len(route) = Len(asked), NEW n \in Nat,
         asked' \in Seq(Trips), Len(asked') = Len(asked) + n,
         \A i \in 1..Len(asked) : asked'[i] = asked[i] /\ route'[i] = route[i],
         Todo \subseteq Todo',
         \A x \in Todo' \ Todo : IsRoute(x) => Fits(x.order)',
         \A i \in (Len(asked) + 1)..(Len(asked) + n) :
           route'[i] = asked'[i] \/ \E x \in Todo' : IsRoute(x) /\ x.order.vehicle = i,
         main # "over", main' # "idle"
  PROVE  Covered'
<1>1. /\ asked \in Seq(Trips) /\ Len(asked) \in Nat /\ DOMAIN asked = 1..Len(asked)
      /\ DOMAIN asked' = 1..(Len(asked) + n)
  BY DEF ShapeInv, TypeOK
<1>2. \A order : Fits(order) => Fits(order)'
  BY <1>1 DEF Fits
<1>3. \A x \in Todo' : IsRoute(x) => Fits(x.order)'
  BY <1>2 DEF Covered
<1>4. ASSUME NEW i \in DOMAIN asked'
      PROVE  route'[i] = asked'[i] \/ \E x \in Todo' : IsRoute(x) /\ x.order.vehicle = i
  <2>1. i \in 1..Len(asked) \/ i \in (Len(asked) + 1)..(Len(asked) + n)
    BY <1>1
  <2>2. CASE i \in 1..Len(asked)
    <3>1. route[i] = asked[i] \/ \E x \in Todo : IsRoute(x) /\ x.order.vehicle = i
      BY <1>1, <2>2 DEF Covered
    <3> QED BY <2>2, <3>1
  <2> QED BY <2>1, <2>2
<1> QED BY <1>3, <1>4 DEF Covered

LEMMA OneLonger ==
  ASSUME ShapeInv, Len(route) = Len(asked), NEW trip \in Trips, NEW answer \in {NoRoute, trip},
         asked' = Append(asked, trip), route' = Append(route, answer)
  PROVE  /\ asked' \in Seq(Trips) /\ Len(asked') = Len(asked) + 1 /\ Len(asked) \in Nat
         /\ \A i \in 1..Len(asked) : asked'[i] = asked[i] /\ route'[i] = route[i]
         /\ asked'[Len(asked) + 1] = trip /\ route'[Len(asked) + 1] = answer
<1>1. asked \in Seq(Trips) /\ route \in Seq(Trips \cup {NoRoute})
  BY DEF ShapeInv, TypeOK
<1> QED BY <1>1

LEMMA AnsweredRoutes ==
  ASSUME ShapeInv, RoutesInv, CacheInv, NEW trip \in Trips, UseCached(trip) \/ ComputeFirst(trip)
  PROVE  RoutesInv'
<1> USE DEF UseCached, ComputeFirst, MayAsk, poolVars, workerVars
<1>1. TypeOK /\ Len(route) = Len(asked)
  BY DEF ShapeInv, CacheInv, Routed
<1>2. asked' = Append(asked, trip) /\ route' = Append(route, trip)
  <2>1. CASE UseCached(trip)
    <3>1. CachedRoute(trip) = trip
      BY <2>1 DEF CachedRoute, CacheInv, CacheHolds
    <3> QED BY <2>1, <3>1
  <2> QED BY <2>1
<1>3. \A w \in Workers : Running(w)' = Running(w)
  <2>1. CASE ComputeFirst(trip)
    <3>1. 1 \in threads..MaxThreads
      BY <1>1, <2>1, PoolAssumption DEF TypeOK
    <3>2. \A w \in Workers : at'[w] = "running" <=> at[w] = "running"
      BY <1>1, <2>1, <3>1 DEF NewWorkers, TypeOK
    <3> QED BY <2>1, <3>2 DEF Running
  <2> QED BY <2>1 DEF Running
<1>4. \A w \in Workers : Here(w)' = Here(w)
  BY <1>3 DEF Here
<1>5. Coming' = Coming
  BY DEF Coming, Planned, TasksOf
<1>6. Todo' = Todo /\ \A w \in Workers : Ahead(w)' = Ahead(w)
  BY <1>4, <1>5 DEF Todo, Ahead
<1>7. InOrder'
  BY <1>3, <1>4 DEF RoutesInv, InOrder
<1>8. Modes'
  BY <1>6 DEF RoutesInv, Modes
<1>9. Covered'
  <2>1. /\ asked' \in Seq(Trips) /\ Len(asked') = Len(asked) + 1 /\ Len(asked) \in Nat
        /\ \A i \in 1..Len(asked) : asked'[i] = asked[i] /\ route'[i] = route[i]
        /\ asked'[Len(asked) + 1] = trip /\ route'[Len(asked) + 1] = trip
    BY <1>1, <1>2, OneLonger
  <2>2. \A i \in (Len(asked) + 1)..(Len(asked) + 1) : route'[i] = asked'[i]
    BY <2>1
  <2>3. main # "over" /\ main' # "idle"
    OBVIOUS
  <2> QED BY <1>1, <1>6, <2>1, <2>2, <2>3, Longer DEF RoutesInv
<1> QED BY <1>7, <1>8, <1>9 DEF RoutesInv

LEMMA RerouteRoutes ==
  ASSUME ShapeInv, RoutesInv, Len(route) = Len(asked), NEW trip \in Trips, Reroute(trip)
  PROVE  RoutesInv'
<1> USE DEF Reroute, MayAsk
<1> DEFINE n == Len(asked) + 1
           task == [index |-> myRunningIndex, order |-> RouteFor(trip, n)]
<1>1. TypeOK /\ myRunningIndex \in Nat
  BY DEF ShapeInv, TypeOK
<1>2. /\ asked' \in Seq(Trips) /\ Len(asked') = Len(asked) + 1 /\ Len(asked) \in Nat
      /\ \A i \in 1..Len(asked) : asked'[i] = asked[i] /\ route'[i] = route[i]
      /\ asked'[n] = trip /\ route'[n] = NoRoute
  <2>1. asked' = Append(asked, trip) /\ route' = Append(route, NoRoute)
    OBVIOUS
  <2> QED BY <2>1, OneLonger
<1>3. \A w \in Workers : Running(w)' = Running(w)
  <2>1. \A w \in Workers : at'[w] = "running" <=> at[w] = "running"
    BY <1>1, PoolAssumption DEF NewWorkers, TypeOK
  <2> QED BY <2>1 DEF Running
<1>4. \A w \in Workers : Here(w)' = Here(w)
  BY <1>3 DEF Here
<1>5. Coming = {} /\ adding = NoTask
  BY NothingComing DEF ShapeInv, TypeOK
<1>6. Coming' = {task}
  <2>1. plan' = <<RouteFor(trip, n)>> /\ adding' = NoTask /\ myRunningIndex' = myRunningIndex
    BY <1>5
  <2>2. DOMAIN plan' = {1} /\ plan'[1] = RouteFor(trip, n)
    BY <2>1
  <2>3. myRunningIndex + 1 - 1 = myRunningIndex
    BY <1>1
  <2> QED BY <2>1, <2>2, <2>3 DEF Coming, Planned, TasksOf
<1>7. Todo' = Todo \cup {task}
  BY <1>4, <1>5, <1>6 DEF Todo
<1>8. IsRoute(task) /\ task.order.vehicle = n /\ task.order.trip = trip
  BY DEF IsRoute, RouteFor
<1>9. InOrder'
  BY <1>3, <1>4, <1>5 DEF RoutesInv, InOrder
<1>10. Modes'
  BY <1>7, <1>8 DEF RoutesInv, Modes
<1>11. Covered'
  <2>1. ASSUME NEW order, order = RouteFor(trip, n) PROVE Fits(order)'
    <3>1. n \in DOMAIN asked'
      BY <1>2
    <3> QED BY <1>2, <2>1, <3>1 DEF Fits, RouteFor
  <2>2. \A x \in Todo' \ Todo : IsRoute(x) => Fits(x.order)'
    <3>1. \A x \in Todo' \ Todo : x.order = RouteFor(trip, n)
      BY <1>7
    <3> QED BY <2>1, <3>1
  <2>3. \A i \in n..n : \E x \in Todo' : IsRoute(x) /\ x.order.vehicle = i
    BY <1>2, <1>7, <1>8
  <2>4. main # "over" /\ main' # "idle" /\ Todo \subseteq Todo'
    BY <1>7
  <2> HIDE DEF task
  <2> QED BY <1>2, <2>2, <2>3, <2>4, Longer DEF RoutesInv
<1> QED BY <1>9, <1>10, <1>11 DEF RoutesInv

LEMMA ConcatParts ==
  ASSUME NEW S, NEW s \in Seq(S), NEW t \in Seq(S), NEW r, r = s \o t
  PROVE  /\ r \in Seq(S) /\ Len(r) = Len(s) + Len(t)
         /\ \A i \in 1..Len(s) : r[i] = s[i]
         /\ \A i \in 1..Len(t) : r[Len(s) + i] = t[i]
OBVIOUS

\* The orders of a group of n vehicles of one trip, the first of them the given one.
IsPlan(p, trip, first, n) ==
  /\ p \in Seq(Orders) /\ DOMAIN p = 1..(n + 2)
  /\ p[1] = RouteFor(trip, first) /\ p[2] = BulkmodeTask(TRUE)
  /\ \A i \in 1..(n - 1) : p[i + 2] = RouteFor(trip, first + i)
  /\ p[n + 2] = BulkmodeTask(FALSE)

LEMMA GroupOrders ==
  ASSUME NEW trip \in Trips, NEW n \in Nat \ {0}, NEW first \in Nat \ {0}, NEW p,
         p = BulkOrders(trip, first, n)
  PROVE  IsPlan(p, trip, first, n)
<1> DEFINE head == <<RouteFor(trip, first), BulkmodeTask(TRUE)>>
           rest == [i \in 1..(n - 1) |-> RouteFor(trip, first + i)]
           last == <<BulkmodeTask(FALSE)>>
<1>1. RouteFor(trip, first) \in Orders /\ BulkmodeTask(TRUE) \in Orders /\ BulkmodeTask(FALSE) \in Orders
  BY OrderTypes
<1>2. head \in Seq(Orders) /\ Len(head) = 2 /\ head[1] = RouteFor(trip, first) /\ head[2] = BulkmodeTask(TRUE)
  <2>1. head \in Seq(Orders)
    BY <1>1, PairIn
  <2> QED BY <2>1
<1>3. last \in Seq(Orders) /\ Len(last) = 1 /\ last[1] = BulkmodeTask(FALSE)
  <2>1. last \in Seq(Orders)
    BY ONLY <1>1, SingleIn
  <2> QED BY <2>1
<1>4. rest \in Seq(Orders) /\ Len(rest) = n - 1 /\ \A i \in 1..(n - 1) : rest[i] = RouteFor(trip, first + i)
  <2>1. ASSUME NEW i \in 1..(n - 1) PROVE RouteFor(trip, first + i) \in Orders
    <3>1. first + i \in Nat \ {0}
      OBVIOUS
    <3> QED BY <3>1, OrderTypes
  <2>2. n - 1 \in Nat
    OBVIOUS
  <2>3. rest \in [1..(n - 1) -> Orders]
    BY <2>1
  <2>4. \A i \in 1..(n - 1) : rest[i] = RouteFor(trip, first + i)
    OBVIOUS
  <2> HIDE DEF rest
  <2>5. rest \in Seq(Orders)
    BY <2>2, <2>3
  <2>6. Len(rest) = n - 1
    BY <2>2, <2>3, LenProperties, <2>5
  <2> QED BY <2>4, <2>5, <2>6
<1>5. \E m : m = head \o rest /\ p = m \o last
  BY DEF BulkOrders
<1> HIDE DEF head, rest, last
<1>6. PICK m : m = head \o rest /\ p = m \o last
  BY <1>5
<1>7. /\ m \in Seq(Orders) /\ Len(m) = n + 1
      /\ \A i \in 1..2 : m[i] = head[i]
      /\ \A i \in 1..(n - 1) : m[i + 2] = rest[i]
  <2>1. m \in Seq(Orders) /\ Len(m) = Len(head) + Len(rest)
    BY <1>2, <1>4, <1>6, ConcatProperties
  <2>2. \A i \in 1..(Len(head) + Len(rest)) :
          m[i] = IF i <= Len(head) THEN head[i] ELSE rest[i - Len(head)]
    BY <1>2, <1>4, <1>6, ConcatProperties
  <2>3. ASSUME NEW i \in 1..(n - 1) PROVE m[i + 2] = rest[i]
    <3>1. i + 2 \in 1..(2 + (n - 1)) /\ ~(i + 2 <= 2) /\ (i + 2) - 2 = i
      OBVIOUS
    <3> QED BY <1>2, <1>4, <2>2, <3>1
  <2> QED BY <1>2, <1>4, <2>1, <2>2, <2>3
<1>8. /\ p \in Seq(Orders) /\ Len(p) = Len(m) + Len(last)
      /\ \A i \in 1..Len(m) : p[i] = m[i]
      /\ \A i \in 1..Len(last) : p[Len(m) + i] = last[i]
  <2>1. m \in Seq(Orders) /\ last \in Seq(Orders) /\ p = m \o last
    BY ONLY <1>3, <1>6, <1>7
  <2> QED BY ONLY <2>1, ConcatParts
<1>9. Len(p) = n + 2 /\ Len(m) = n + 1
  BY ONLY <1>3, <1>7, <1>8, n \in Nat \ {0}
<1>10. \A i \in 1..(n + 1) : p[i] = m[i]
  BY ONLY <1>8, <1>9
<1>11. p[n + 2] = BulkmodeTask(FALSE)
  <2>1. 1 \in 1..Len(last) /\ Len(m) + 1 = n + 2
    BY ONLY <1>3, <1>9, n \in Nat \ {0}
  <2>2. p[Len(m) + 1] = last[1]
    BY ONLY <1>8, <2>1
  <2> QED BY ONLY <1>3, <2>1, <2>2
<1>12. \A i \in 1..(n - 1) : i + 2 \in 1..(n + 1) /\ p[i + 2] = rest[i]
  <2>1. \A i \in 1..(n - 1) : i + 2 \in 1..(n + 1)
    BY ONLY n \in Nat \ {0}
  <2> QED BY ONLY <1>7, <1>10, <2>1
<1>13. p[1] = head[1] /\ p[2] = head[2]
  <2>1. 1 \in 1..(n + 1) /\ 2 \in 1..(n + 1) /\ 1 \in 1..2 /\ 2 \in 1..2
    BY ONLY n \in Nat \ {0}
  <2> QED BY ONLY <1>7, <1>10, <2>1
<1>14. DOMAIN p = 1..(n + 2)
  BY ONLY <1>8, <1>9
<1> QED BY ONLY <1>2, <1>4, <1>8, <1>11, <1>12, <1>13, <1>14 DEF IsPlan

\* The routes of the tasks G are those of the n vehicles.
OrdersOf(G, trip, first, n) ==
  /\ \A x \in G : IsRoute(x) => \E i \in 0..(n - 1) : x.order = RouteFor(trip, first + i)
  /\ \A i \in 0..(n - 1) : \E x \in G : x.order = RouteFor(trip, first + i)

LEMMA GroupTasks ==
  ASSUME NEW trip \in Trips, NEW n \in Nat \ {0}, NEW first \in Nat \ {0}, NEW k \in Nat,
         NEW p, IsPlan(p, trip, first, n), NEW G, G = TasksOf(p, k)
  PROVE  /\ G \in SUBSET Tasks /\ IsGroup(G, k, trip) /\ \A x \in G : k <= x.index
         /\ OrdersOf(G, trip, first, n)
<1> DEFINE task(i) == [index |-> k + i - 1, order |-> p[i]]
<1>1. /\ p \in Seq(Orders) /\ DOMAIN p = 1..(n + 2)
      /\ p[1] = RouteFor(trip, first) /\ p[2] = BulkmodeTask(TRUE)
      /\ \A i \in 1..(n - 1) : p[i + 2] = RouteFor(trip, first + i)
      /\ p[n + 2] = BulkmodeTask(FALSE)
  BY DEF IsPlan
<1>2. \A x \in G : \E i \in 1..(n + 2) : x = task(i)
  BY <1>1 DEF TasksOf
<1>3. \A i \in 1..(n + 2) : task(i) \in G
  BY <1>1 DEF TasksOf
<1>4. \A i \in 1..(n + 2) : task(i).order = p[i] /\ task(i).index = k + i - 1 /\ task(i) \in Tasks
  <2>1. ASSUME NEW i \in 1..(n + 2) PROVE k + i - 1 \in Nat /\ p[i] \in Orders
    BY <1>1
  <2> QED BY <2>1 DEF Tasks
<1> HIDE DEF task
<1>5. \A i \in 1..(n + 2) : \/ i = 1 /\ p[i] = RouteFor(trip, first)
                            \/ i = 2 /\ p[i] = BulkmodeTask(TRUE)
                            \/ i = n + 2 /\ p[i] = BulkmodeTask(FALSE)
                            \/ \E j \in 1..(n - 1) : i = j + 2 /\ p[i] = RouteFor(trip, first + j)
  <2>1. ASSUME NEW i \in 1..(n + 2), i # 1, i # 2, i # n + 2
        PROVE  i - 2 \in 1..(n - 1) /\ i = (i - 2) + 2
    BY <2>1
  <2> QED BY <1>1, <2>1
<1>6. /\ \A vehicle : RouteFor(trip, vehicle).kind = "route" /\ RouteFor(trip, vehicle).trip = trip
      /\ \A value : BulkmodeTask(value).kind # "route" /\ BulkmodeTask(value).value = value
  BY DEF RouteFor, BulkmodeTask
<1>7. G \in SUBSET Tasks
  BY <1>2, <1>4
<1>8. \A x \in G : k <= x.index
  BY <1>2, <1>4
<1>9. first + 0 = first
  OBVIOUS
<1>10. ASSUME NEW x \in G, IsRoute(x)
       PROVE  \E i \in 0..(n - 1) : x.order = RouteFor(trip, first + i)
  <2>1. PICK i \in 1..(n + 2) : x = task(i)
    BY <1>2
  <2>2. x.order = p[i] /\ p[i].kind = "route"
    BY <1>4, <1>10, <2>1 DEF IsRoute
  <2>3. p[i] = RouteFor(trip, first) \/ \E j \in 1..(n - 1) : p[i] = RouteFor(trip, first + j)
    BY <1>5, <1>6, <2>2
  <2>4. CASE p[i] = RouteFor(trip, first)
    <3>1. 0 \in 0..(n - 1)
      OBVIOUS
    <3> QED BY ONLY <1>9, <2>2, <2>4, <3>1
  <2>5. CASE \E j \in 1..(n - 1) : p[i] = RouteFor(trip, first + j)
    <3>1. PICK j \in 1..(n - 1) : p[i] = RouteFor(trip, first + j)
      BY ONLY <2>5
    <3>2. j \in 0..(n - 1)
      OBVIOUS
    <3> QED BY ONLY <2>2, <3>1, <3>2
  <2> QED BY <2>3, <2>4, <2>5
<1>11. ASSUME NEW i \in 0..(n - 1) PROVE \E x \in G : x.order = RouteFor(trip, first + i)
  <2>1. CASE i = 0
    <3>1. 1 \in 1..(n + 2)
      OBVIOUS
    <3> QED BY <1>1, <1>3, <1>4, <1>9, <2>1, <3>1
  <2>2. CASE i # 0
    <3>1. i \in 1..(n - 1) /\ i + 2 \in 1..(n + 2)
      BY <2>2
    <3> QED BY <1>1, <1>3, <1>4, <3>1
  <2> QED BY <2>1, <2>2
<1>12. IsGroup(G, k, trip)
  <2>1. \E x \in G : x.index = k /\ IsRoute(x)
    <3>1. 1 \in 1..(n + 2) /\ k + 1 - 1 = k
      OBVIOUS
    <3>2. task(1) \in G /\ task(1).index = k /\ task(1).order = RouteFor(trip, first)
      BY <1>1, <1>3, <1>4, <3>1
    <3> QED BY <1>6, <3>2 DEF IsRoute
  <2>2. \A x \in G : IsRoute(x) => x.order.trip = trip
    BY <1>6, <1>10
  <2>3. ASSUME NEW x \in G, Starts(x) PROVE x.index = k + 1
    <3>1. PICK i \in 1..(n + 2) : x = task(i)
      BY <1>2
    <3>2. p[i] = BulkmodeTask(TRUE)
      BY <1>4, <2>3, <3>1 DEF Starts
    <3>3. /\ BulkmodeTask(TRUE) # BulkmodeTask(FALSE)
          /\ \A vehicle : BulkmodeTask(TRUE) # RouteFor(trip, vehicle)
      <4>1. BulkmodeTask(TRUE).value # BulkmodeTask(FALSE).value
        BY ONLY DEF BulkmodeTask
      <4>2. BulkmodeTask(TRUE) # BulkmodeTask(FALSE)
        BY ONLY <4>1
      <4>3. ASSUME NEW vehicle PROVE BulkmodeTask(TRUE) # RouteFor(trip, vehicle)
        BY ONLY <1>6
      <4> QED BY ONLY <4>2, <4>3
    <3>5. i = 2
      BY ONLY <1>5, <3>2, <3>3
    <3>4. x.index = k + i - 1
      BY <1>4, <3>1
    <3> QED BY <3>4, <3>5
  <2>4. \E y \in G : Ends(y) /\ k + 1 < y.index
    <3>1. n + 2 \in 1..(n + 2)
      OBVIOUS
    <3>2. task(n + 2) \in G /\ task(n + 2).order = BulkmodeTask(FALSE) /\ task(n + 2).index = k + (n + 2) - 1
      BY <1>1, <1>3, <1>4, <3>1
    <3>3. k + 1 < k + (n + 2) - 1
      OBVIOUS
    <3> QED BY ONLY <3>2, <3>3 DEF Ends
  <2> QED BY <2>1, <2>2, <2>3, <2>4 DEF IsGroup
<1> QED BY <1>7, <1>8, <1>10, <1>11, <1>12 DEF OrdersOf

LEMMA BulkRoutes ==
  ASSUME ShapeInv, RoutesInv, Len(route) = Len(asked),
         NEW trip \in Trips, NEW n \in 1..MaxRequests, BulkGroup(trip, n)
  PROVE  RoutesInv'
<1> USE DEF BulkGroup, MayAsk
<1> DEFINE first == Len(asked) + 1
<1>1. TypeOK /\ myRunningIndex \in Nat /\ n \in Nat \ {0}
  BY PoolAssumption DEF ShapeInv, TypeOK
<1>2. asked \in Seq(Trips) /\ route \in Seq(Trips \cup {NoRoute}) /\ Len(asked) \in Nat
  BY <1>1 DEF TypeOK
<1>3. /\ asked' \in Seq(Trips) /\ Len(asked') = Len(asked) + n
      /\ \A i \in 1..Len(asked) : asked'[i] = asked[i] /\ route'[i] = route[i]
      /\ \A i \in first..(Len(asked) + n) : asked'[i] = trip
  <2>1. PICK s, r : s = [i \in 1..n |-> trip] /\ r = [i \in 1..n |-> NoRoute]
    OBVIOUS
  <2>2. /\ s \in Seq(Trips) /\ Len(s) = n /\ \A i \in 1..n : s[i] = trip
        /\ r \in Seq(Trips \cup {NoRoute})
    BY <1>1, <2>1
  <2>3. asked' = asked \o s /\ route' = route \o r
    BY <2>1
  <2>4. /\ asked' \in Seq(Trips) /\ Len(asked') = Len(asked) + Len(s)
        /\ \A i \in 1..(Len(asked) + Len(s)) :
             asked'[i] = IF i <= Len(asked) THEN asked[i] ELSE s[i - Len(asked)]
    BY <1>2, <2>2, <2>3, ConcatProperties
  <2>5. /\ Len(r) \in Nat
        /\ \A i \in 1..(Len(route) + Len(r)) :
             route'[i] = IF i <= Len(route) THEN route[i] ELSE r[i - Len(route)]
    BY <1>2, <2>2, <2>3, ConcatProperties
  <2>6. ASSUME NEW i \in 1..Len(asked) PROVE asked'[i] = asked[i] /\ route'[i] = route[i]
    <3>1. /\ i \in 1..(Len(asked) + Len(s)) /\ i <= Len(asked)
          /\ i \in 1..(Len(route) + Len(r)) /\ i <= Len(route)
      BY <1>1, <1>2, <2>2, <2>5
    <3> QED BY <2>4, <2>5, <3>1
  <2>7. ASSUME NEW i \in first..(Len(asked) + n) PROVE asked'[i] = trip
    <3>1. i \in 1..(Len(asked) + Len(s)) /\ ~(i <= Len(asked)) /\ i - Len(asked) \in 1..n
      BY <1>1, <1>2, <2>2
    <3> QED BY <2>2, <2>4, <3>1
  <2> QED BY <2>2, <2>4, <2>6, <2>7
<1>4. \A w \in Workers : Running(w)' = Running(w)
  <2>1. \A w \in Workers : at'[w] = "running" <=> at[w] = "running"
    BY <1>1, PoolAssumption DEF NewWorkers, TypeOK
  <2> QED BY <2>1 DEF Running
<1>5. \A w \in Workers : Here(w)' = Here(w)
  BY <1>4 DEF Here
<1>6. Coming = {} /\ adding = NoTask /\ \A w \in Workers : Ahead(w) = Here(w)
  BY NothingComing DEF ShapeInv, TypeOK
<1>7. PICK G, p : G = Planned' /\ p = plan'
  OBVIOUS
<1>8. /\ G \in SUBSET Tasks /\ IsGroup(G, myRunningIndex, trip)
      /\ \A x \in G : myRunningIndex <= x.index
      /\ \A x \in G : IsRoute(x) =>
           \E i \in 0..(n - 1) : x.order = RouteFor(trip, first + i)
      /\ \A i \in 0..(n - 1) : \E x \in G : x.order = RouteFor(trip, first + i)
  <2>1. first \in Nat \ {0}
    BY <1>2
  <2>2. G = TasksOf(p, myRunningIndex)
    BY <1>7 DEF Planned
  <2>3. IsPlan(p, trip, first, n)
    BY <1>1, <1>7, <2>1, GroupOrders
  <2> HIDE DEF first
  <2>4. /\ G \in SUBSET Tasks /\ IsGroup(G, myRunningIndex, trip)
        /\ \A x \in G : myRunningIndex <= x.index
        /\ OrdersOf(G, trip, first, n)
    BY ONLY <1>1, <2>1, <2>2, <2>3, trip \in Trips, GroupTasks
  <2> QED BY <2>4 DEF OrdersOf
<1>9. Coming' = G /\ Todo' = Todo \cup G
  BY <1>5, <1>6, <1>7 DEF Coming, Todo
<1>10. ASSUME NEW w \in Workers
       PROVE  Ahead(w)' = Ahead(w) \/ Ahead(w)' = Ahead(w) \cup G
  BY <1>5, <1>6, <1>9 DEF Ahead
<1>11. InOrder'
  BY <1>4, <1>5, <1>6 DEF RoutesInv, InOrder
<1>12. Modes'
  <2>1. ASSUME NEW w \in Workers
        PROVE  InGroups(Ahead(w)', router[w].bulk, router[w].tree)
    <3>1. InGroups(Ahead(w), router[w].bulk, router[w].tree) /\ router[w].bulk \in BOOLEAN
      BY <1>1 DEF RoutesInv, Modes, TypeOK
    <3>2. \A x \in Ahead(w) : x.index < myRunningIndex
      BY <1>6 DEF RoutesInv, InOrder
    <3>3. Ahead(w) \in SUBSET Tasks
      BY HereType
    <3>4. InGroups(Ahead(w) \cup G, router[w].bulk, router[w].tree)
      BY <1>1, <1>8, <3>1, <3>2, <3>3, GroupAdded
    <3> QED BY <1>10, <3>1, <3>4
  <2> QED BY <2>1 DEF Modes
<1>13. Covered'
  <2>1. ASSUME NEW x \in G, IsRoute(x) PROVE Fits(x.order)'
    <3>1. PICK i \in 0..(n - 1) : x.order = RouteFor(trip, first + i)
      BY <1>8, <2>1
    <3>2. first + i \in first..(Len(asked) + n) /\ first + i \in DOMAIN asked'
      BY <1>1, <1>2, <1>3
    <3>3. asked'[first + i] = trip
      BY <1>3, <3>2
    <3> QED BY <3>1, <3>2, <3>3 DEF Fits, RouteFor
  <2>2. ASSUME NEW i \in first..(Len(asked) + n)
        PROVE  \E x \in Todo' : IsRoute(x) /\ x.order.vehicle = i
    <3>1. i - first \in 0..(n - 1) /\ first + (i - first) = i
      BY <1>1, <1>2
    <3>2. PICK x \in G : x.order = RouteFor(trip, i)
      BY <1>8, <3>1
    <3>3. x.order.kind = "route" /\ x.order.vehicle = i
      BY ONLY <3>2 DEF RouteFor
    <3> QED BY ONLY <1>9, <3>2, <3>3 DEF IsRoute
  <2>3. \A x \in Todo' \ Todo : IsRoute(x) => Fits(x.order)'
    BY <1>9, <2>1
  <2>4. main # "over" /\ main' # "idle" /\ Todo \subseteq Todo' /\ n \in Nat
    BY <1>1, <1>9
  <2> QED BY <1>3, <2>2, <2>3, <2>4, Longer DEF RoutesInv
<1> QED BY <1>11, <1>12, <1>13 DEF RoutesInv

\* With nothing open there is nothing to do; then every order of the tasks is kept, and no
\* router is in bulk mode.
NothingOpen == TypeOK /\ Open = {} /\ plan = <<>>
AllDone == Todo = {}
Unbulked == \A w \in Workers : ~router[w].bulk
Settled == AllDone /\ adding = NoTask /\ Unbulked

LEMMA NothingToDo == NothingOpen => AllDone
<1> SUFFICES ASSUME TypeOK, Open = {}, plan = <<>> PROVE Todo = {}
  BY DEF NothingOpen, AllDone
<1>1. adding = NoTask
  BY DEF Open, Added
<1>2. Coming = {}
  BY <1>1 DEF Coming, Planned, TasksOf
<1>3. ASSUME NEW w \in Workers PROVE Here(w) = {}
  <2>1. QueuedAt(w) = {} /\ TakenBy(w) = {}
    BY OpenIs DEF Own
  <2>2. DOMAIN myTasks[w] = {}
    BY <2>1 DEF QueuedAt
  <2>3. Running(w) = {}
    <3>1. current[w] = NoTask
      BY <2>1 DEF TakenBy
    <3> QED BY <3>1 DEF Running, TypeOK
  <2> QED BY <2>2, <2>3 DEF Here
<1> QED BY <1>2, <1>3 DEF Todo

LEMMA NothingToDoNext == NothingOpen' => AllDone'
BY NothingToDo, PTL

LEMMA AheadTodo ==
  ASSUME NEW w \in Workers
  PROVE  Ahead(w) \subseteq Todo
BY DEF Ahead, Todo

LEMMA NothingLeft == Settled => InOrder /\ Modes
<1> SUFFICES ASSUME Todo = {}, adding = NoTask, Unbulked PROVE InOrder /\ Modes
  BY DEF Settled, AllDone
<1>1. \A w \in Workers : Ahead(w) = {} /\ Here(w) = {}
  BY AheadTodo DEF Todo
<1>2. InOrder
  BY <1>1 DEF InOrder, Here
<1>3. \A w \in Workers : InGroups(Ahead(w), router[w].bulk, router[w].tree)
  BY <1>1 DEF InGroups, Unbulked
<1> QED BY <1>2, <1>3 DEF Modes, Unbulked

LEMMA NothingLeftNext == Settled' => InOrder' /\ Modes'
BY NothingLeft, PTL

LEMMA NotInBulk ==
  ASSUME Todo = {}, Modes
  PROVE  Unbulked
<1>1. CASE program = "bulk"
  <2>1. \A w \in Workers : Ahead(w) = {}
    BY AheadTodo
  <2> QED BY <1>1, <2>1 DEF Modes, InGroups, TreeFits, Unbulked
<1>2. CASE program # "bulk"
  BY <1>2 DEF Modes, Unbulked
<1> QED BY <1>1, <1>2

LEMMA ReturnRoutes ==
  ASSUME PoolInv, RoutesInv, Return
  PROVE  RoutesInv'
<1>1. ShapeInv /\ TypeOK /\ TypeOK' /\ Open = {} /\ Open' = {}
  BY ReturnCount, ReturnShape DEF PoolInv, ShapeInv
<1>2. /\ plan = <<>> /\ adding = NoTask
      /\ UNCHANGED <<program, plan, adding, router, asked, route>>
      /\ main # "over" /\ main' = "idle"
  BY <1>1 DEF Return, ShapeInv, TypeOK, InCalls, workerVars, routeVars
<1>3. Todo = {}
  BY <1>1, <1>2, NothingToDo DEF NothingOpen, AllDone
<1>4. plan' = <<>> /\ adding' = NoTask
  BY <1>2
<1>5. Todo' = {}
  BY <1>1, <1>4, NothingToDoNext DEF NothingOpen, AllDone
<1>6. Unbulked'
  BY <1>2, <1>3, NotInBulk DEF RoutesInv, Unbulked
<1>7. InOrder' /\ Modes'
  BY <1>4, <1>5, <1>6, NothingLeftNext DEF Settled, AllDone
<1>8. Covered'
  BY <1>2, <1>3, <1>5 DEF RoutesInv, Covered
<1> QED BY <1>7, <1>8 DEF RoutesInv

LEMMA ClearedRoutes ==
  ASSUME PoolInv, RoutesInv, Cleared, "abandoned" \notin Reloads
  PROVE  RoutesInv'
<1>1. ShapeInv /\ TypeOK' /\ Open' = {}
  BY ClearedCount, ClearedShape DEF PoolInv, ShapeInv
<1>2. plan' = <<>> /\ adding' = NoTask
  BY <1>1 DEF Cleared, ShapeInv, TypeOK, InCalls
<1>3. Todo' = {}
  BY <1>1, <1>2, NothingToDoNext DEF NothingOpen, AllDone
<1>4. Unbulked'
  BY DEF Cleared, NewRouter, Unbulked
<1>5. InOrder' /\ Modes'
  BY <1>2, <1>3, <1>4, NothingLeftNext DEF Settled, AllDone
<1>6. main' # "over" => asked' = <<>>
  BY DEF Cleared
<1>7. Covered'
  BY <1>3, <1>6 DEF Covered
<1> QED BY <1>5, <1>7 DEF RoutesInv

\* The steps of the user that move no task.
LEMMA MainRoutes ==
  ASSUME ShapeInv, RoutesInv,
         LockingMain \/ FindOpen \/ WaitForFinished \/ SetStopped \/ Join \/ WakeMain \/ WaitAll
           \/ AdaptEdgeEfforts \/ Cleanup \/ UNCHANGED vars
  PROVE  RoutesInv'
<1> USE DEF LockingMain, LockToAdd, LockToWait, LockToStop, FindOpen, WaitForFinished, SetStopped,
            Join, WakeMain, WaitAll, AdaptEdgeEfforts, Cleanup, GoMain, vars, poolVars, workerVars,
            userVars, routeVars
<1>1. UNCHANGED <<program, myRunningIndex, plan, adding, group, myTasks, current, router, asked, route>>
  OBVIOUS
<1>2. (main' = "idle" => main = "idle") /\ (main' # "over" => main # "over")
  OBVIOUS
<1>3. \A w \in Workers : at'[w] = "running" <=> at[w] = "running"
  BY DEF Signalled, ShapeInv, TypeOK
<1>4. \A w \in Workers : Running(w)' = Running(w)
  BY <1>1, <1>3 DEF Running
<1> QED BY <1>1, <1>2, <1>4, StillRoutes

LEMMA InitRoutes == Init => RoutesInv
<1> SUFFICES ASSUME Init PROVE RoutesInv
  OBVIOUS
<1>1. /\ plan = <<>> /\ adding = NoTask /\ asked = <<>>
      /\ \A w \in Workers : myTasks[w] = <<>> /\ at[w] = "none" /\ ~router[w].bulk
  BY DEF Init, NewRouter
<1>2. Todo = {}
  <2>1. Coming = {}
    BY <1>1 DEF Coming, Planned, TasksOf
  <2>2. \A w \in Workers : Here(w) = {}
    BY <1>1 DEF Here, Running
  <2> QED BY <2>1, <2>2 DEF Todo
<1>3. Covered
  BY <1>1, <1>2 DEF Covered
<1> QED BY <1>1, <1>2, <1>3, NothingLeft DEF RoutesInv, Settled, AllDone, Unbulked

LEMMA NextRoutes ==
  ASSUME PoolInv, CacheInv, RoutesInv, [Next]_vars, "abandoned" \notin Reloads
  PROVE  RoutesInv'
<1>1. ShapeInv /\ Len(route) = Len(asked)
  BY DEF PoolInv, CacheInv, Routed
<1>2. CASE Calls
  BY <1>1, <1>2, AnsweredRoutes, RerouteRoutes, BulkRoutes, AddRoutes, MainRoutes DEF Calls
<1>3. CASE InCall
  BY <1>1, <1>3, PushRoutes, ReturnRoutes, ClearedRoutes, MainRoutes DEF InCall
<1>4. CASE LockingMain \/ WakeMain \/ UNCHANGED vars
  BY <1>1, <1>4, MainRoutes
<1>5. CASE Over
  BY <1>4, <1>5 DEF Over
<1>6. CASE \E w \in Workers : Locking(w) \/ Working(w) \/ Wake(w)
  BY <1>1, <1>6, WorkerRoutes
<1> QED BY <1>2, <1>3, <1>4, <1>5, <1>6 DEF Next

\* After waitAll every vehicle has a route computed from its own trip, also in bulk routing
\* (RoutesReady).
THEOREM PoolRoutesReady ==
  ASSUME "abandoned" \notin Reloads
  PROVE Spec => []RoutesReady
<1>1. PoolInv /\ CacheInv /\ RoutesInv /\ [Next]_vars => RoutesInv'
  BY NextRoutes
<1>2. PoolInv /\ CacheInv /\ RoutesInv => RoutesReady
  <2> SUFFICES ASSUME PoolInv, CacheInv, RoutesInv, main = "idle" PROVE route = asked
    BY DEF RoutesReady
  <2>1. asked \in Seq(Trips) /\ route \in Seq(Trips \cup {NoRoute}) /\ Len(route) = Len(asked)
    BY DEF PoolInv, ShapeInv, TypeOK, CacheInv, Routed
  <2>2. \A i \in DOMAIN asked : route[i] = asked[i]
    BY DEF RoutesInv, Covered
  <2>3. asked \in Seq(Trips \cup {NoRoute})
    BY <2>1
  <2>4. DOMAIN asked = 1..Len(asked) /\ DOMAIN route = 1..Len(route)
    BY <2>1
  <2> QED BY <2>1, <2>2, <2>3, <2>4, SeqEqual
<1> QED BY <1>1, <1>2, InitRoutes, PoolInvariant, PoolCacheInvariant, PTL DEF Spec

-----------------------------------------------------------------------------
(* The signals: nobody misses one                                            *)

\* One thread at a time has a mutex.
Exclusive ==
  /\ \A w \in Workers : at[w] \in {"test", "block"} =>
       /\ main = "push" => adding.worker # w
       /\ main = "stop" => victim # w
  /\ main \in {"test", "block"} => \A w \in Workers : at[w] # "count"

\* A thread that has found nothing to go on with, and has kept the mutex since, sleeps or is
\* about to.
Sleepers ==
  /\ \A w \in Workers : at[w] \in {"block", "asleep"} => myTasks[w] = <<>> /\ ~myStopped[w]
  /\ main \in {"block", "asleep"} => ~AllFinished

SignalInv == Exclusive /\ Sleepers

\* The places where a worker has the mutex of its list, or sleeps, and where it has that of
\* the pool.
AtTasks(w) == at[w] \in {"test", "block"}
AtSleep(w) == at[w] \in {"block", "asleep"}

LEMMA WorkerSignals ==
  ASSUME ShapeInv, SignalInv, NEW w \in Workers, Locking(w) \/ Working(w) \/ Wake(w)
  PROVE  SignalInv'
<1>1. TypeOK
  BY DEF ShapeInv
<1>2. /\ \A v \in Workers : v # w => /\ at'[v] = at[v] /\ myTasks'[v] = myTasks[v]
                                     /\ myStopped'[v] = myStopped[v]
      /\ UNCHANGED <<myRunningIndex, myStopped, adding, victim>>
  BY <1>1 DEF Locking, Working, Begin, LockTasks, FindNothing, WaitForTask, Wake, Leave, Take,
     SwitchBulk, RunRouting, LockSync, FindCached, InsertCached, LockPool, AddFinished, Go, OnlyAt,
     poolVars, userVars, TypeOK
<1>3. AtTasks(w)' => AtTasks(w) \/ TasksFree(w)
  BY <1>1 DEF Locking, Working, Begin, LockTasks, FindNothing, WaitForTask, Wake, Leave, Take,
     SwitchBulk, RunRouting, LockSync, FindCached, InsertCached, LockPool, AddFinished, Go,
     TypeOK, AtTasks
<1>4. AtSleep(w)' => myTasks'[w] = <<>> /\ ~myStopped'[w]
  BY <1>1 DEF Locking, Working, Begin, LockTasks, FindNothing, WaitForTask, Wake, Leave, Take,
     SwitchBulk, RunRouting, LockSync, FindCached, InsertCached, LockPool, AddFinished, Go, OnlyAt,
     userVars, TypeOK, AtSleep, SignalInv, Sleepers
<1>5. CASE AddFinished(w)
  <2>1. main \notin {"test", "block"} /\ main' = IF main = "asleep" THEN "wait" ELSE main
    BY <1>5 DEF AddFinished, Go, SignalInv, Exclusive
  <2>2. main' \notin {"test", "block", "asleep"} /\ (main' # "wait" => main' = main)
    BY <2>1
  <2>3. Exclusive'
    BY <1>2, <1>3, <2>2 DEF SignalInv, Exclusive, AtTasks, TasksFree
  <2>4. Sleepers'
    BY <1>2, <1>4, <2>2 DEF SignalInv, Sleepers, AtSleep
  <2> QED BY <2>3, <2>4 DEF SignalInv
<1>6. CASE ~AddFinished(w)
  <2>1. main' = main /\ myNumFinished' = myNumFinished /\ (at'[w] = "count" => PoolFree)
    BY <1>1, <1>6 DEF Locking, Working, Begin, LockTasks, FindNothing, WaitForTask, Wake, Leave, Take,
       SwitchBulk, RunRouting, LockSync, FindCached, InsertCached, LockPool, Go, OnlyAt,
       poolVars, userVars, TypeOK
  <2>2. Exclusive'
    <3>1. \A v \in Workers : at'[v] \in {"test", "block"} =>
            /\ main' = "push" => adding'.worker # v
            /\ main' = "stop" => victim' # v
      BY <1>2, <1>3, <2>1 DEF SignalInv, Exclusive, AtTasks, TasksFree
    <3>2. main' \in {"test", "block"} => \A v \in Workers : at'[v] # "count"
      BY <1>2, <2>1 DEF SignalInv, Exclusive, PoolFree
    <3> QED BY <3>1, <3>2 DEF Exclusive
  <2>3. Sleepers'
    BY <1>2, <1>4, <2>1 DEF SignalInv, Sleepers, AtSleep, AllFinished
  <2> QED BY <2>2, <2>3 DEF SignalInv
<1> QED BY <1>5, <1>6

\* Calls, and the end of clear: no thread is signalled and none falls asleep.
LEMMA CallSignals ==
  ASSUME ShapeInv, SignalInv, Calls \/ Return \/ Cleared \/ Join \/ LockToAdd \/ LockToStop
  PROVE  SignalInv'
<1>1. TypeOK
  BY DEF ShapeInv
<1>2. \A w \in Workers : /\ at'[w] \in {"head", "none", at[w]}
                         /\ at'[w] \in {"head", "none"} \/ (myTasks'[w] = myTasks[w]
                                                         /\ myStopped'[w] = myStopped[w])
  BY <1>1 DEF Calls, UseCached, Reroute, ComputeFirst, BulkGroup, Add, WaitAll, AdaptEdgeEfforts,
     Cleanup, Return, Cleared, Join, LockToAdd, LockToStop, GoMain, NewWorkers, TypeOK, workerVars
<1>3. main' \notin {"test", "block", "asleep"}
  BY DEF Calls, UseCached, Reroute, ComputeFirst, BulkGroup, Add, WaitAll, AdaptEdgeEfforts,
     Cleanup, Return, Cleared, Reloading, Join, LockToAdd, LockToStop, GoMain, userVars
<1>4. \A w \in Workers : at'[w] \in {"test", "block"} =>
        /\ main' = "push" => adding'.worker # w
        /\ main' = "stop" => victim' # w
  <2>1. CASE LockToAdd \/ LockToStop
    BY <2>1, <1>2 DEF LockToAdd, LockToStop, GoMain, TasksFree
  <2>2. CASE ~(LockToAdd \/ LockToStop)
    <3>1. main' \notin {"push", "stop"}
      BY <2>2 DEF Calls, MayAsk, UseCached, Reroute, ComputeFirst, BulkGroup, Add, WaitAll,
         AdaptEdgeEfforts, Cleanup, Return, Cleared, Reloading, Join, GoMain, userVars
    <3> QED BY <3>1
  <2> QED BY <2>1, <2>2
<1>5. Sleepers'
  BY <1>2, <1>3 DEF SignalInv, Sleepers
<1> QED BY <1>3, <1>4, <1>5 DEF SignalInv, Exclusive

LEMMA PushSignals ==
  ASSUME ShapeInv, SignalInv, Push \/ SetStopped
  PROVE  SignalInv'
<1>1. TypeOK
  BY DEF ShapeInv
<1>2. PICK w : w = IF main = "push" THEN adding.worker ELSE victim
  OBVIOUS
<1>3. /\ at' = Signalled(w)
      /\ \A v \in Workers : v # w => myTasks'[v] = myTasks[v] /\ myStopped'[v] = myStopped[v]
      /\ main' \in {"free", "join"} /\ main \in {"push", "stop"}
  BY <1>1, <1>2 DEF Push, SetStopped, TypeOK
<1>4. \A v \in Workers : v # w => at'[v] = at[v]
  BY <1>1, <1>3 DEF Signalled, TypeOK
<1>5. w \in Workers => at'[w] \notin {"block", "asleep"}
  <2>1. w \in Workers => at[w] \notin {"test", "block"}
    BY <1>2, <1>3 DEF SignalInv, Exclusive
  <2> QED BY <1>1, <1>3, <2>1 DEF Signalled, TypeOK
<1>6. Exclusive'
  BY <1>3 DEF Exclusive
<1>7. Sleepers'
  BY <1>3, <1>4, <1>5 DEF SignalInv, Sleepers
<1> QED BY <1>6, <1>7 DEF SignalInv

\* The wait of waitAll.
LEMMA WaitSignals ==
  ASSUME SignalInv, LockToWait \/ FindOpen \/ WaitForFinished \/ WakeMain \/ UNCHANGED vars
  PROVE  SignalInv'
<1> USE DEF LockToWait, FindOpen, WaitForFinished, WakeMain, GoMain, vars, poolVars, workerVars,
            userVars
<1>1. /\ UNCHANGED <<at, myTasks, myStopped, myRunningIndex, myNumFinished, adding, victim>>
      /\ main' \in {"test", "block", "asleep", "wait"} \/ main' = main
  OBVIOUS
<1>2. main' \in {"test", "block"} => PoolFree \/ main \in {"test", "block"}
  OBVIOUS
<1>3. main' \in {"block", "asleep"} => ~AllFinished
  BY DEF SignalInv, Sleepers
<1>4. Exclusive'
  BY <1>1, <1>2 DEF SignalInv, Exclusive, PoolFree
<1>5. Sleepers'
  BY <1>1, <1>3 DEF SignalInv, Sleepers, AllFinished
<1> QED BY <1>4, <1>5 DEF SignalInv

LEMMA NextSignals ==
  ASSUME ShapeInv, SignalInv, [Next]_vars
  PROVE  SignalInv'
<1>1. CASE Over
  BY <1>1, WaitSignals DEF Over
<1> QED BY <1>1, WorkerSignals, CallSignals, PushSignals, WaitSignals DEF Next, LockingMain, InCall

\* No thread sleeps through a signal (SignalsHeard): what it waits for has not happened yet.
THEOREM PoolSignalsHeard ==
  ASSUME "abandoned" \notin Reloads
  PROVE Spec => []SignalsHeard
<1>1. Init => SignalInv
  BY DEF Init, SignalInv, Exclusive, Sleepers
<1>2. PoolInv /\ SignalInv /\ [Next]_vars => SignalInv'
  BY NextSignals DEF PoolInv
<1>3. PoolInv /\ SignalInv => SignalsHeard
  <2> SUFFICES ASSUME PoolInv, SignalInv, main = "asleep" PROVE Open # {}
    BY DEF SignalsHeard, SignalInv, Sleepers
  <2>1. TypeOK /\ myRunningIndex \in Nat /\ ~(myNumFinished >= myRunningIndex)
    BY DEF PoolInv, ShapeInv, TypeOK, SignalInv, Sleepers, AllFinished
  <2>2. SUFFICES ASSUME Open = {} PROVE FALSE
    OBVIOUS
  <2>3. Finished = 0..(myRunningIndex - 1) /\ myNumFinished = Cardinality(Finished)
    BY <2>2 DEF PoolInv, CountInv, Accounted
  <2>4. Cardinality(0..(myRunningIndex - 1)) = myRunningIndex
    <3>1. 0 \in Int /\ myRunningIndex - 1 \in Int
      BY <2>1
    <3> QED BY <2>1, <3>1, FS_Interval
  <2> QED BY <2>1, <2>3, <2>4
<1> QED BY <1>1, <1>2, <1>3, PoolInvariant, PTL DEF Spec
=============================================================================
