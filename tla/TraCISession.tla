---------------------------- MODULE TraCISession ----------------------------
(***************************************************************************)
(* Remote control: the Python client of src/tools/traci (connection.py,    *)
(* domain.py), one for every script, and the loop of the server that       *)
(* answers them (TraCIServer.cpp).                                         *)
(*                                                                         *)
(* A script is served in its turn only: between two simulation steps the   *)
(* server visits the clients in their order, answers each one until it     *)
(* asks for a step, and simulates when all have asked for a later time.    *)
(* Requests and answers travel over one ordered channel per client and     *)
(* direction.  There is one vehicle, which may arrive at any step or be    *)
(* removed by a script; commands for it fail from then on, and asking for  *)
(* its context ends the server.  Filters are not sent when they are added  *)
(* but together with the next command.                                     *)
(***************************************************************************)
EXTENDS Naturals, FiniteSets, Sequences, SequencesExt

CONSTANTS
  NumClients,  \* --num-clients, numbered by their order
  MaxTime,     \* no step is asked for beyond it
  MaxQueue,    \* how many filters wait to be sent at most
  Lax          \* the habits of the scripts beyond what is always safe, see below

Clients == 1..NumClients
Times == 0..MaxTime

\* "lone": add a filter other than just after subscribing to the context of a vehicle,
\* "unsent": ask for a step while a filter waits to be sent,
\* "invalid": add a filter whose parameters the client library refuses,
\* "gone": subscribe to the context of a vehicle that is not in the simulation any more,
\* "remove": remove the vehicle, whatever the scripts have subscribed to.
Habits == {"lone", "unsent", "invalid", "gone", "remove"}

ASSUME SessionAssumption ==
  NumClients \in Nat \ {0} /\ MaxTime \in Nat /\ MaxQueue \in Nat /\ Lax \subseteq Habits

VARIABLES
  state,       \* of every script: running freely, waiting in a call, ended in some way
  queue,       \* _queue: the commands the next answer has to acknowledge
  string,      \* _string: the commands to be sent
  results,     \* the SubscriptionResults of every client
  armed,       \* the script has just subscribed to the context of the vehicle
  request,     \* the message a client has sent and the server has not read
  reply,       \* the messages the server has sent to a client that has not read them
  sockets,     \* mySockets: the clients that are connected
  target,      \* targetTime of every client
  until,       \* myTargetTime
  turn,        \* myCurrentSocket; 0 while the simulation runs
  input,       \* myInputStorage: the commands that are not dispatched yet
  output,      \* myOutputStorage
  doClose,     \* myDoCloseConnection, or an exception has ended the simulation
  now,         \* the current time step
  vehicle,     \* the vehicle is in the simulation
  subs,        \* mySubscriptions
  cache,       \* mySubscriptionCache
  lastContext  \* myLastContextSubscription is set

scripts == <<state, queue, string, results, armed>>
channels == <<request, reply>>
loop == <<sockets, target, until, turn, input, output, doClose>>
world == <<now, vehicle, subs, cache, lastContext>>
vars == <<scripts, channels, loop, world>>

\* A subscription to a variable of the vehicle, and one to what is around it.
Subs == {"variable", "context"}
Names == {"get", "remove", "subscribe", "filter", "step", "close"}
Commands == [cmd : {"get", "remove", "filter", "close"}]
              \cup [cmd : {"subscribe"}, of : Subs] \cup [cmd : {"step"}, to : Times]

\* A value of a subscription, known by the time it is from.
Values == [of : Subs, time : Times]
Messages == [status : Seq([cmd : Names, ok : BOOLEAN]), values : SUBSET Values]
Empty == [status |-> << >>, values |-> {}]

TypeOK ==
  /\ state \in [Clients -> {"free", "waiting", "closed", "fatal", "dead"}]
  /\ queue \in [Clients -> Seq(Names)] /\ string \in [Clients -> Seq(Commands)]
  /\ results \in [Clients -> SUBSET Values] /\ armed \in [Clients -> BOOLEAN]
  /\ request \in [Clients -> Seq(Commands)] /\ reply \in [Clients -> Seq(Messages)]
  /\ sockets \in SUBSET Clients /\ target \in [Clients -> Times] /\ until \in Times
  /\ turn \in sockets \cup {0}
  /\ input \in Seq(Commands) /\ output \in Messages /\ doClose \in BOOLEAN
  /\ now \in Times /\ vehicle \in BOOLEAN
  /\ subs \in SUBSET Subs /\ cache \in SUBSET Values /\ lastContext \in BOOLEAN

Init ==
  /\ state = [c \in Clients |-> "free"]
  /\ queue = [c \in Clients |-> << >>] /\ string = [c \in Clients |-> << >>]
  /\ results = [c \in Clients |-> {}] /\ armed = [c \in Clients |-> FALSE]
  /\ request = [c \in Clients |-> << >>] /\ reply = [c \in Clients |-> << >>]
  /\ sockets = Clients /\ target = [c \in Clients |-> 0] /\ until = 0 /\ turn = 1
  /\ input = << >> /\ output = Empty /\ doClose = FALSE
  /\ now = 0 /\ vehicle = TRUE /\ subs = {} /\ cache = {} /\ lastContext = FALSE

-----------------------------------------------------------------------------
(* The client.                                                             *)

\* _sendExact, up to the wait for the answer: all that waits to be sent goes with the command.
Send(c, command) ==
  /\ state[c] = "free"
  /\ queue' = [queue EXCEPT ![c] = Append(@, command.cmd)]
  /\ string' = [string EXCEPT ![c] = Append(@, command)]
  /\ request' = [request EXCEPT ![c] = string'[c]]
  /\ state' = [state EXCEPT ![c] = "waiting"]
  /\ UNCHANGED <<results, reply, loop, world>>

Get(c) == Send(c, [cmd |-> "get"]) /\ UNCHANGED armed

RemoveVehicle(c) == "remove" \in Lax /\ Send(c, [cmd |-> "remove"]) /\ UNCHANGED armed

Subscribe(c, k) ==
  /\ k = "context" => vehicle \/ "gone" \in Lax
  /\ Send(c, [cmd |-> "subscribe", of |-> k])
  /\ armed' = [armed EXCEPT ![c] = k = "context"]

\* _addSubscriptionFilter: parameters are checked after the command has entered the queue.
AddFilter(c) ==
  /\ state[c] = "free" /\ Len(queue[c]) < MaxQueue
  /\ armed[c] \/ "lone" \in Lax
  /\ queue' = [queue EXCEPT ![c] = Append(@, "filter")]
  /\ \E valid \in {TRUE} \cup (IF "invalid" \in Lax THEN {FALSE} ELSE {}) :
       string' = IF valid THEN [string EXCEPT ![c] = Append(@, [cmd |-> "filter"])] ELSE string
  /\ UNCHANGED <<state, results, armed, channels, loop, world>>

\* simulationStep, to a given time or, with 0, one step on.
Step(c, t) ==
  /\ now < MaxTime
  /\ queue[c] = << >> \/ "unsent" \in Lax
  /\ Send(c, [cmd |-> "step", to |-> t])
  /\ armed' = [armed EXCEPT ![c] = FALSE]

Close(c) == Send(c, [cmd |-> "close"]) /\ UNCHANGED armed

\* The process of the script ends.
Crash(c) ==
  /\ state[c] \in {"free", "waiting"}
  /\ state' = [state EXCEPT ![c] = "dead"]
  /\ UNCHANGED <<queue, string, results, armed, channels, loop, world>>

\* Where an answer does not acknowledge the queue: an error, or the status of another command.
Refused(q, status) ==
  {i \in DOMAIN q : i > Len(status) \/ ~status[i].ok \/ status[i].cmd # q[i]}

\* Fault: a step does not forget the results it had.
ReadOver(old, command, values) == {r \in old : \A x \in values : x.of # r.of} \cup values

\* simulationStep forgets the results it had, a subscription adds to them.
ReadResults(old, command, values) ==
  IF command = "step" THEN values ELSE {r \in old : \A x \in values : x.of # r.of} \cup values

\* All commands are acknowledged.
Accept(c) ==
  LET answer == Head(reply[c])
  IN  /\ Refused(queue[c], answer.status) = {}
      /\ results' = [results EXCEPT ![c] = ReadResults(@, Last(queue[c]), answer.values)]
      /\ queue' = [queue EXCEPT ![c] = << >>] /\ string' = [string EXCEPT ![c] = << >>]
      /\ state' = [state EXCEPT ![c] = IF Last(queue[c]) = "close" THEN "closed" ELSE "free"]
      /\ UNCHANGED armed

\* Fault: the commands of a call that has failed stay in the queue.
FailKeepsQueue(c) ==
  LET status == Head(reply[c]).status
      bad    == Refused(queue[c], status)
  IN  /\ bad # {} /\ Min(bad) <= Len(status) /\ ~status[Min(bad)].ok
      /\ string' = [string EXCEPT ![c] = << >>]
      /\ armed' = [armed EXCEPT ![c] = FALSE]
      /\ state' = [state EXCEPT ![c] = "free"]
      /\ UNCHANGED <<queue, results>>

\* A TraCIException: the connection is ready for the next command.
Fail(c) ==
  LET status == Head(reply[c]).status
      bad    == Refused(queue[c], status)
  IN  /\ bad # {} /\ Min(bad) <= Len(status) /\ ~status[Min(bad)].ok
      /\ queue' = [queue EXCEPT ![c] = << >>] /\ string' = [string EXCEPT ![c] = << >>]
      /\ armed' = [armed EXCEPT ![c] = FALSE]
      /\ state' = [state EXCEPT ![c] = "free"]
      /\ UNCHANGED results

\* A FatalTraCIError: the answer is to something else.
Mismatch(c) ==
  LET status == Head(reply[c]).status
      bad    == Refused(queue[c], status)
  IN  /\ bad # {} /\ (Min(bad) <= Len(status) => status[Min(bad)].ok)
      /\ state' = [state EXCEPT ![c] = "fatal"]
      /\ UNCHANGED <<queue, string, results, armed>>

ReadAnswer(c) ==
  /\ state[c] = "waiting" /\ reply[c] # << >>
  /\ Accept(c) \/ Fail(c) \/ Mismatch(c)
  /\ reply' = [reply EXCEPT ![c] = Tail(@)]
  /\ UNCHANGED <<request, loop, world>>

\* The server has closed the connection.
LoseServer(c) ==
  /\ state[c] = "waiting" /\ reply[c] = << >> /\ c \notin sockets
  /\ state' = [state EXCEPT ![c] = "fatal"]
  /\ UNCHANGED <<queue, string, results, armed, channels, loop, world>>

-----------------------------------------------------------------------------
(* The server.                                                             *)

Earliest(S, t) == Min({t[c] : c \in S})

\* The clients that still have their turn in this round: those after c whose time has come.
Waiting(c, S, t, limit) == {d \in S : d > c /\ t[d] <= limit}

\* A round begins with the first client whose time has come, unless all have asked for a later
\* time.
NewRound(S, t, limit) ==
  /\ until' = IF S = {} THEN limit ELSE Earliest(S, t)
  /\ turn' = IF S = {} \/ Earliest(S, t) > now' THEN 0 ELSE Min(Waiting(0, S, t, until'))

\* Fault: the round ends with the first client.
HandOnNobody(c, S, t, limit) == turn' = 0 /\ until' = limit

\* The turn goes to the next client of the round.
HandOn(c, S, t, limit) ==
  IF Waiting(c, S, t, limit) # {}
  THEN turn' = Min(Waiting(c, S, t, limit)) /\ until' = limit
  ELSE NewRound(S, t, limit)

\* What has been composed is sent before the next message is read.
Respond ==
  /\ turn # 0 /\ input = << >> /\ output # Empty
  /\ reply' = [reply EXCEPT ![turn] = Append(@, output)]
  /\ output' = Empty
  /\ UNCHANGED <<scripts, request, sockets, target, until, turn, input, doClose, world>>

Receive ==
  /\ turn # 0 /\ input = << >> /\ output = Empty /\ request[turn] # << >>
  /\ input' = request[turn]
  /\ request' = [request EXCEPT ![turn] = << >>]
  /\ UNCHANGED <<scripts, reply, sockets, target, until, turn, output, doClose, world>>

\* An exception leaves processCommandsUntilSimStep: it ends the simulation, and with it all
\* connections.  What was composed is not sent.
EndServer == sockets' = {} /\ turn' = 0 /\ doClose' = TRUE

\* The connection of the client is gone: a SocketException.
LoseClient ==
  /\ turn # 0 /\ input = << >> /\ output = Empty /\ request[turn] = << >>
  /\ state[turn] \in {"dead", "fatal"}
  /\ EndServer
  /\ UNCHANGED <<scripts, channels, target, until, input, output, world>>

\* The output with one more status.
Status(command, ok) == Append(output.status, [cmd |-> command, ok |-> ok])

\* The server takes the next command of the message.
Dispatch(command) ==
  turn # 0 /\ ~doClose /\ input # << >> /\ Head(input).cmd = command

DispatchGet ==
  /\ Dispatch("get")
  /\ output' = [output EXCEPT !.status = Status("get", vehicle)]
  /\ input' = Tail(input)
  /\ UNCHANGED <<scripts, channels, sockets, target, until, turn, doClose, world>>

\* Vehicle::remove.  The arrival is noted, and forgotten at the end of the round (line 638).
DispatchRemove ==
  /\ Dispatch("remove")
  /\ output' = [output EXCEPT !.status = Status("remove", vehicle)]
  /\ vehicle' = FALSE
  /\ input' = Tail(input)
  /\ UNCHANGED <<scripts, channels, sockets, target, until, turn, doClose, now, subs, cache,
                 lastContext>>

\* findObjectShape: what is around a vehicle that is not there cannot be asked for, a
\* TraCIException that nobody turns into an answer.
Raises(asked) == "context" \in asked /\ ~vehicle'

\* addObjectVariableSubscription: a new subscription is answered at once, and counts for the
\* results of this time step, unless it is the first.
DispatchSubscribe ==
  /\ Dispatch("subscribe")
  /\ vehicle' = vehicle
  /\ LET k == Head(input).of
         value == [of |-> k, time |-> now]
     IN  \/ /\ vehicle
            /\ output' = [status |-> Status("subscribe", TRUE),
                          values |-> output.values \cup {value}]
            /\ subs' = subs \cup {k}
            /\ cache' = IF k \notin subs /\ now > 0 THEN cache \cup {value} ELSE cache
            /\ lastContext' = (k = "context")
            /\ input' = Tail(input) /\ UNCHANGED <<sockets, turn, doClose>>
         \/ /\ ~vehicle /\ ~Raises({k})
            /\ output' = [output EXCEPT !.status = Status("subscribe", FALSE)]
            /\ input' = Tail(input) /\ UNCHANGED <<sockets, turn, doClose, subs, cache, lastContext>>
         \/ /\ Raises({k})
            /\ EndServer /\ UNCHANGED <<input, output, subs, cache, lastContext>>
  /\ UNCHANGED <<scripts, channels, target, until, now>>

\* addSubscriptionFilter.  Without a subscription to filter it does not read its parameters:
\* the connections shall be closed, but the loop that serves this client never ends.
DispatchFilter ==
  /\ Dispatch("filter")
  /\ output' = [output EXCEPT !.status = Status("filter", lastContext)]
  /\ input' = IF lastContext THEN Tail(input) ELSE input
  /\ doClose' = ~lastContext
  /\ UNCHANGED <<scripts, channels, sockets, target, until, turn, world>>

\* Fault: the time is taken as a duration.
NextTargetAfter(old, to) == IF to = 0 THEN old + 1 ELSE old + to

\* The new target time: one step on, or the given time.
NextTarget(old, to) == IF to = 0 THEN old + 1 ELSE to

\* CMD_SIMSTEP: a time that has been reached already is answered from the cache.
DispatchStep ==
  /\ Dispatch("step")
  /\ target' = [target EXCEPT ![turn] = NextTarget(@, Head(input).to)]
  /\ IF target'[turn] <= now
     THEN /\ reply' = [reply EXCEPT ![turn] =
                        Append(@, [status |-> Status("step", TRUE), values |-> cache])]
          /\ output' = Empty
     ELSE UNCHANGED <<reply, output>>
  /\ now' = now
  /\ HandOn(turn, sockets, target', until)
  /\ input' = Tail(input)
  /\ UNCHANGED <<scripts, request, sockets, doClose, vehicle, subs, cache, lastContext>>

\* CMD_CLOSE: the client is answered and removed.
DispatchClose ==
  /\ Dispatch("close")
  /\ reply' = [reply EXCEPT ![turn] =
                 Append(@, [status |-> Status("close", TRUE), values |-> output.values])]
  /\ output' = Empty
  /\ sockets' = sockets \ {turn}
  /\ doClose' = (sockets' = {})
  /\ now' = now
  /\ HandOn(turn, sockets', target, until)
  /\ input' = Tail(input)
  /\ UNCHANGED <<scripts, request, target, vehicle, subs, cache, lastContext>>

\* Fault: the results of a step are sent to the first client only.
DueFirst(t) == {c \in sockets : target[c] <= t /\ \A d \in sockets : target[d] <= t => c <= d}

\* sendOutputToAll: the clients that will act at time t.
Due(t) == {c \in sockets : target[c] <= t}

\* postProcessSimulationStep forgets the subscriptions of vehicles that have arrived since the
\* last round: in this step, that is.
Kept(arrived) == IF arrived THEN {} ELSE subs

\* A simulation step, after which the subscriptions are evaluated and the results go to those
\* who have their turn now.  What else was composed is dropped with them.
SimulationStep ==
  /\ turn = 0 /\ ~doClose
  /\ now' = now + 1
  /\ vehicle' \in {vehicle, FALSE}
  /\ LET kept == Kept(vehicle' # vehicle)
     IN  \/ /\ ~Raises(kept)
            /\ subs' = IF vehicle' THEN kept ELSE {}
            /\ cache' = [of : subs', time : {now'}]
            /\ reply' = [c \in Clients |->
                           IF c \in Due(now')
                           THEN Append(reply[c], [status |-> Status("step", TRUE), values |-> cache'])
                           ELSE reply[c]]
            /\ output' = Empty
            /\ NewRound(sockets, target, until)
            /\ UNCHANGED <<sockets, doClose>>
         \/ /\ Raises(kept)
            /\ cache' = {}
            /\ EndServer /\ UNCHANGED <<reply, until, output, subs>>
  /\ UNCHANGED <<scripts, request, target, input, lastContext>>

Over ==
  /\ \A c \in Clients : state[c] \in {"closed", "fatal", "dead"}
  /\ UNCHANGED vars

Call(c) ==
  \/ Get(c) \/ RemoveVehicle(c) \/ AddFilter(c) \/ Close(c)
  \/ \E k \in Subs : Subscribe(c, k) \/ \E t \in Times : Step(c, t)

Client(c) == ReadAnswer(c) \/ LoseServer(c)

Server ==
  \/ Respond \/ Receive \/ LoseClient \/ SimulationStep
  \/ DispatchGet \/ DispatchRemove \/ DispatchSubscribe \/ DispatchFilter \/ DispatchStep \/ DispatchClose

Next == Server \/ \E c \in Clients : Client(c) \/ Call(c) \/ Crash(c)
        \/ Over

\* The script goes on: it closes the connection or asks for a time that lies ahead.
Advance(c) == Close(c) \/ \E t \in Times : t > now /\ Step(c, t)

Spec == Init /\ [][Next]_vars

\* Server and client library run on by themselves.  Without Advance a script may keep the
\* simulation for itself, by endless commands that need no step.
FairSpec ==
  /\ Spec /\ WF_vars(Server)
  /\ \A c \in Clients : WF_vars(Client(c)) /\ SF_vars(Advance(c))

-----------------------------------------------------------------------------
(* Properties.                                                             *)

\* The server has ended for all, and the vehicle is not in the simulation.
EndedWithoutVehicle == sockets = {} /\ ~vehicle

\* As long as no process ends early, every answer a client reads is the one to what it has
\* asked (connection.py:108, TraCIServer.cpp:562): a failed command leaves the connection
\* intact, no answer is lost or goes to another client.  A call is cut off for one reason only:
\* the server was asked for what is around the vehicle that has left and has ended for all
\* scripts (TraCIServer.cpp:1188 raises what line 644 does not answer).
AnswersOwn ==
  (\A c \in Clients : state[c] # "dead") =>
    \A c \in Clients : state[c] = "fatal" => EndedWithoutVehicle

\* As long as no process ends early, no call is cut off.  It holds only for scripts that do not
\* remove the vehicle and ask for its context while it is there.
NobodyCutOff ==
  (\A c \in Clients : state[c] # "dead") => \A c \in Clients : state[c] # "fatal"

\* What getSubscriptionResults returns to a script that is free to ask is from the last time
\* step (domain.py:153), also when other clients make the simulation proceed.
ResultsOfLastStep ==
  \A c \in sockets : state[c] = "free" => \A r \in results[c] : r.time = now

\* The simulation proceeds when all clients have asked for a later time, and never past the
\* time one of them has asked for.
NobodyLeftBehind == [][now' # now => \A c \in sockets : now < target[c] /\ now' <= target[c]]_vars

\* Every call returns, with its answer or with an error, though the process of another client
\* may end at any time.
CallsReturn == \A c \in Clients : state[c] = "waiting" ~> state[c] # "waiting"
=============================================================================
