------------------------- MODULE TraCISession_proof -------------------------
(***************************************************************************)
(* Proofs about TraCISession, for any number of scripts and any time.      *)
(*                                                                         *)
(* TurnInv is about the turns alone and holds whatever the scripts do; it  *)
(* gives NobodyLeftBehind.  SessionInv follows every command from the      *)
(* queue of its script through the server to the answer: a client is in    *)
(* one of five phases, at most one of them has commands in the server, and *)
(* what the server holds belongs to that one.  It needs scripts that send  *)
(* no filter with a step and add no filter the library refuses, and gives  *)
(* TypeOK and ResultsOfLastStep.  Present adds, for scripts that do not    *)
(* remove the vehicle and ask for its context only while it is there, that *)
(* the server is never asked for what is around a vehicle that has left;   *)
(* the two together give AnswersOwn.                                       *)
(***************************************************************************)
EXTENDS TraCISession, SequenceTheorems, FiniteSetTheorems, WellFoundedInduction, TLAPS

\* The shape of the state without the bounds on time: it needs no assumption on the scripts.
Shaped ==
  /\ string \in [Clients -> Seq(Commands)] /\ request \in [Clients -> Seq(Commands)]
  /\ input \in Seq(Commands)
  /\ sockets \in SUBSET Clients /\ turn \in sockets \cup {0}
  /\ target \in [Clients -> Nat] /\ until \in Nat /\ now \in Nat

\* Between two turns of the clients all of them have asked for a later time.
AllAsked == ~doClose /\ turn = 0 => sockets # {} /\ \A c \in sockets : now < target[c]

\* The client whose turn it is acts now.
OnTime == turn # 0 => until <= now /\ target[turn] <= now

TurnInv == Shaped /\ AllAsked /\ OnTime

-----------------------------------------------------------------------------
\* A queue of commands: all but the last are filters; a step comes alone.
Asked(q) ==
  /\ q # << >> /\ \A i \in 1..Len(q) : q[i] = "filter" <=> i < Len(q)
  /\ q[Len(q)] = "step" => Len(q) = 1

Filters(q) == \A i \in 1..Len(q) : q[i] = "filter"

\* The queue names the commands that are to be sent.
Named(q, s) == Len(s) = Len(q) /\ \A i \in 1..Len(q) : s[i].cmd = q[i]

\* The answers to a queue. Only commands for the vehicle may fail.
Answers(q, st) ==
  /\ Len(st) = Len(q)
  /\ \A i \in 1..Len(q) : st[i].cmd = q[i] /\ (q[i] \in {"filter", "step", "close"} => st[i].ok)

\* The answers to the first commands of a queue and the commands that are left.
Serves(q, st, s) ==
  /\ Len(st) + Len(s) = Len(q)
  /\ \A i \in 1..Len(st) : st[i].cmd = q[i] /\ (q[i] = "filter" => st[i].ok)
  /\ \A i \in 1..Len(s) : s[i].cmd = q[Len(st) + i]

From(values, t) == \A x \in values : x.time = t

\* What a client does: it is free, its request waits to be read, the server has taken it, the
\* step it has asked for lies ahead, or its answer waits to be read.
Idle(c) ==
  /\ state[c] \in {"free", "dead"} /\ request[c] = << >> /\ reply[c] = << >>
  /\ target[c] <= now /\ Filters(queue[c]) /\ Named(queue[c], string[c]) /\ From(results[c], now)

Requested(c) ==
  /\ state[c] \in {"waiting", "dead"} /\ request[c] = string[c] /\ reply[c] = << >>
  /\ target[c] <= now /\ Asked(queue[c]) /\ Named(queue[c], string[c]) /\ From(results[c], now)
  /\ Last(queue[c]) = "step" => now < MaxTime

Taken(c) ==
  /\ state[c] \in {"waiting", "dead"} /\ request[c] = << >> /\ reply[c] = << >>
  /\ target[c] <= now /\ Asked(queue[c]) /\ From(results[c], now)
  /\ Last(queue[c]) = "step" => now < MaxTime

Pending(c) ==
  /\ state[c] \in {"waiting", "dead"} /\ request[c] = << >> /\ reply[c] = << >>
  /\ now < target[c] /\ queue[c] = <<"step">>

Answered(c) ==
  /\ state[c] \in {"waiting", "dead"} /\ request[c] = << >> /\ Len(reply[c]) = 1
  /\ target[c] <= now /\ Asked(queue[c]) /\ Last(queue[c]) # "close"
  /\ Answers(queue[c], reply[c][1].status) /\ From(reply[c][1].values, now)
  /\ Last(queue[c]) # "step" => From(results[c], now)

Phase(c) == Idle(c) \/ Requested(c) \/ Taken(c) \/ Pending(c) \/ Answered(c)

\* A client that is not connected has been told so, unless some process or the server has ended early.
Parted(c) ==
  \/ state[c] = "closed"
  \/ /\ state[c] = "waiting" /\ Len(reply[c]) = 1
     /\ Asked(queue[c]) /\ Last(queue[c]) = "close" /\ Answers(queue[c], reply[c][1].status)

\* The habits by which a script ends the server for all, and the end it comes to.
Careless == Lax \cap {"gone", "remove"} # {}

Cut == Careless /\ EndedWithoutVehicle /\ turn = 0 /\ doClose

SomeDead == Cut \/ \E c \in Clients : state[c] = "dead"

Quiet == input = << >> /\ output = Empty

\* What is left of the message of a client; a step and the end of a connection are answered at once.
ServesNow(c) ==
  /\ Serves(queue[c], output.status, input)
  /\ Last(queue[c]) \in {"step", "close"} => input # << >>

\* The server works for the client whose commands it has taken, and for nobody else.
Serving ==
  /\ \A c \in sockets : Taken(c) =>
       turn = c /\ (~doClose => ServesNow(c))
  /\ (turn = 0 /\ ~doClose) \/ (turn # 0 /\ ~Taken(turn)) => Quiet
  /\ output.status = << >> => output = Empty
  /\ turn # 0 /\ doClose => input # << >>

\* What the server knows of subscriptions is from this time step.
UpToDate == From(cache, now) /\ From(output.values, now)

SessionInv ==
  /\ TypeOK /\ AllAsked /\ Serving /\ OnTime /\ UpToDate
  /\ \A c \in sockets : Phase(c)
  /\ \A c \in Clients \ sockets : Parted(c) \/ SomeDead

\* Commands that do not take the vehicle away, nor ask what is around it when it has left.
Sound(s) ==
  \A i \in 1..Len(s) :
    s[i].cmd # "remove" /\ (s[i].cmd = "subscribe" /\ s[i].of = "context" => vehicle)

\* What the server is asked for, now and after the next step, is around a vehicle that is there.
Present ==
  /\ "context" \in subs => vehicle
  /\ Sound(input) /\ \A c \in sockets : Sound(request[c])

-----------------------------------------------------------------------------
(* Least members, and the turns.                                           *)

\* A set of natural numbers that is not empty has a least one.
LEMMA LeastUpTo ==
  ASSUME NEW n \in Nat, NEW S \in SUBSET (0..n), S # {}
  PROVE \E x \in S : \A y \in S : x <= y
<1> DEFINE Upto == {0..x : x \in S}
<1>1. IsFiniteSet(0..n)
  BY FS_Interval
<1>2. IsWellFoundedOn(StrictSubsetOrdering(0..n), SUBSET (0..n))
  BY <1>1, FS_StrictSubsetOrderingWellFounded, FS_FiniteSubsetsOfFinite
<1>3. Upto \subseteq SUBSET (0..n) /\ Upto # {}
  <2>1. \A x \in S : 0..x \in SUBSET (0..n)
    OBVIOUS
  <2>2. Upto # {}
    OBVIOUS
  <2> QED
    BY <2>1, <2>2
<1>4. \E X \in Upto : \A Y \in Upto : <<Y, X>> \notin StrictSubsetOrdering(0..n)
  <2> HIDE DEF Upto
  <2> QED BY <1>2, <1>3, WFMin
<1>5. PICK x \in S : \A y \in S : <<0..y, 0..x>> \notin StrictSubsetOrdering(0..n)
  BY <1>4
<1>6. ASSUME NEW y \in S PROVE x <= y
  <2> SUFFICES ASSUME y < x PROVE FALSE
    OBVIOUS
  <2>1. 0..y \subseteq 0..x /\ x \notin 0..y /\ x \in 0..x
    OBVIOUS
  <2>2. 0..x \in SUBSET (0..n) /\ 0..y \in SUBSET (0..n)
    OBVIOUS
  <2>3. <<0..y, 0..x>> \in StrictSubsetOrdering(0..n)
    <3> DEFINE X == 0..x
               Y == 0..y
               N == 0..n
    <3>1. X \in SUBSET N /\ Y \in SUBSET N /\ Y \subseteq X /\ Y # X
      BY <2>1, <2>2
    <3> HIDE DEF X, Y, N
    <3>2. <<Y, X>> \in StrictSubsetOrdering(N)
      BY <3>1 DEF StrictSubsetOrdering
    <3> QED
      BY <3>2 DEF X, Y, N
  <2> QED
    BY <1>5, <2>3
<1> QED
  BY <1>6

\* Min of natural numbers, by which the server finds the next target time and the next client.
LEMMA MinOf ==
  ASSUME NEW S \in SUBSET Nat, S # {}
  PROVE Min(S) \in S /\ \A y \in S : Min(S) <= y
<1>1. PICK n \in S : TRUE
  OBVIOUS
<1> DEFINE T == {y \in S : y <= n}
<1>2. T \in SUBSET (0..n) /\ T # {}
  <2>1. n \in T /\ n \in Nat
    BY <1>1
  <2>2. \A y \in T : y \in 0..n
    BY <1>1
  <2> QED BY <2>1, <2>2
<1>3. PICK x \in T : \A y \in T : x <= y
  <2> HIDE DEF T
  <2> QED BY <1>1, <1>2, LeastUpTo
<1>4. x \in S /\ \A y \in S : x <= y
  BY <1>1, <1>3
<1> QED
  BY <1>4 DEF Min

\* The turn in the round: the first waiting client after c (TraCIServer.cpp:534).
LEMMA FirstWaiting ==
  ASSUME NEW S \in SUBSET Clients, NEW t \in [Clients -> Nat], NEW limit \in Nat, NEW c \in Nat,
         Waiting(c, S, t, limit) # {}
  PROVE Min(Waiting(c, S, t, limit)) \in S /\ t[Min(Waiting(c, S, t, limit))] <= limit
<1> DEFINE W == Waiting(c, S, t, limit)
<1>1. W \in SUBSET Nat /\ W \subseteq S /\ W # {} /\ \A d \in W : t[d] <= limit
  <2>1. \A d \in W : d \in S /\ t[d] <= limit
    BY DEF Waiting
  <2>2. \A d \in S : d \in Nat
    BY SessionAssumption DEF Clients
  <2> QED BY <2>1, <2>2
<1>2. Min(W) \in W
  <2> HIDE DEF W
  <2> QED BY <1>1, MinOf
<1> HIDE DEF W
<1>3. Min(W) \in S /\ t[Min(W)] <= limit
  BY <1>1, <1>2
<1> QED
  BY <1>3 DEF W

\* nextTargetTime is the target time of a client, and no client has an earlier one
\* (TraCIServer.cpp:448).
LEMMA EarliestOf ==
  ASSUME NEW S \in SUBSET Clients, S # {}, NEW t \in [Clients -> Nat]
  PROVE /\ Earliest(S, t) \in Nat
        /\ \E c \in S : t[c] = Earliest(S, t)
        /\ \A c \in S : Earliest(S, t) <= t[c]
<1> DEFINE T == {t[c] : c \in S}
<1>1. T \in SUBSET Nat /\ T # {}
  OBVIOUS
<1>2. Min(T) \in T /\ \A y \in T : Min(T) <= y
  <2> HIDE DEF T
  <2> QED BY <1>1, MinOf
<1>3. Earliest(S, t) = Min(T)
  BY DEF Earliest
<1> QED
  BY <1>1, <1>2, <1>3

\* A new round gives the turn to a client whose time has come, if there is one.
LEMMA RoundGiven ==
  ASSUME NEW S \in SUBSET Clients, NEW t \in [Clients -> Nat], NEW limit \in Nat,
         now' \in Nat, NewRound(S, t, limit)
  PROVE /\ turn' \in S \cup {0} /\ until' \in Nat
        /\ turn' # 0 => until' <= now' /\ t[turn'] <= now'
        /\ turn' = 0 => \A c \in S : now' < t[c]
        /\ until' = limit \/ \E c \in S : until' = t[c]
<1>1. CASE S = {}
  <2>1. turn' = 0 /\ until' = limit
    BY <1>1 DEF NewRound
  <2> QED BY <1>1, <2>1
<1>2. CASE S # {} /\ Earliest(S, t) > now'
  <2>1. turn' = 0 /\ until' = Earliest(S, t)
    BY <1>2 DEF NewRound
  <2>2. Earliest(S, t) \in Nat /\ \A c \in S : Earliest(S, t) <= t[c] /\ t[c] \in Nat
    BY <1>2, EarliestOf
  <2>3. \A c \in S : now' < t[c]
    BY <1>2, <2>2
  <2>4. \E c \in S : t[c] = Earliest(S, t)
    BY <1>2, EarliestOf
  <2> QED BY <1>2, <2>1, <2>2, <2>3, <2>4
<1>3. CASE S # {} /\ ~(Earliest(S, t) > now')
  <2>1. until' = Earliest(S, t) /\ turn' = Min(Waiting(0, S, t, until'))
    BY <1>3 DEF NewRound
  <2>2. PICK c \in S : t[c] = Earliest(S, t)
    BY <1>3, EarliestOf
  <2>3. until' \in Nat /\ until' <= now'
    BY <1>3, <2>1, EarliestOf
  <2>4. c \in Waiting(0, S, t, until')
    BY <2>1, <2>2, SessionAssumption DEF Waiting, Clients
  <2>5. turn' \in S /\ t[turn'] <= until'
    BY <2>1, <2>3, <2>4, FirstWaiting
  <2>6. turn' # 0 /\ t[turn'] \in Nat
    BY <2>5, SessionAssumption DEF Clients
  <2> QED BY <2>1, <2>2, <2>3, <2>5, <2>6
<1> QED
  BY <1>1, <1>2, <1>3

\* Handing the turn on passes over nobody: the simulation has it only when all have asked for
\* a later time.
LEMMA TurnGiven ==
  ASSUME NEW S \in SUBSET Clients, NEW t \in [Clients -> Nat], NEW limit \in Nat,
         NEW c \in Clients, limit <= now', now' \in Nat, HandOn(c, S, t, limit)
  PROVE /\ turn' \in S \cup {0} /\ until' \in Nat
        /\ turn' # 0 => until' <= now' /\ t[turn'] <= now'
        /\ turn' = 0 => \A d \in S : now' < t[d]
        /\ until' = limit \/ \E d \in S : until' = t[d]
<1>0. c \in Nat
  BY SessionAssumption DEF Clients
<1>1. CASE Waiting(c, S, t, limit) # {}
  <2>1. turn' = Min(Waiting(c, S, t, limit)) /\ until' = limit
    BY <1>1 DEF HandOn
  <2>2. turn' \in S /\ t[turn'] <= limit
    BY <1>0, <1>1, <2>1, FirstWaiting
  <2>3. turn' # 0 /\ t[turn'] \in Nat
    BY <2>2, SessionAssumption DEF Clients
  <2> QED BY <2>1, <2>2, <2>3
<1>2. CASE Waiting(c, S, t, limit) = {}
  <2>1. NewRound(S, t, limit)
    BY <1>2 DEF HandOn
  <2> QED BY <2>1, RoundGiven
<1> QED
  BY <1>1, <1>2

-----------------------------------------------------------------------------
(* Nobody is left behind, whatever the scripts do.                         *)

\* The commands of the scripts, and the parts of one that the server reads.
LEMMA CommandParts ==
  /\ \A n \in {"get", "remove", "filter", "close"} : [cmd |-> n] \in Commands
  /\ \A k \in Subs : [cmd |-> "subscribe", of |-> k] \in Commands
  /\ \A t \in Times : [cmd |-> "step", to |-> t] \in Commands
  /\ \A x \in Commands : x.cmd \in Names
  /\ \A x \in Commands : x.cmd = "step" => x.to \in Times
  /\ \A x \in Commands : x.cmd = "subscribe" => x.of \in Subs
<1>1. \A n \in {"get", "remove", "filter", "close"} : [cmd |-> n] \in Commands
  BY DEF Commands
<1>2. \A k \in Subs : [cmd |-> "subscribe", of |-> k] \in Commands
  BY DEF Commands
<1>3. \A t \in Times : [cmd |-> "step", to |-> t] \in Commands
  BY DEF Commands
<1>4. \A x \in Commands : x.cmd \in Names
  BY DEF Commands, Names
<1>5. \A x \in Commands : x.cmd = "step" => x.to \in Times
  BY DEF Commands
<1>6. \A x \in Commands : x.cmd = "subscribe" => x.of \in Subs
  BY DEF Commands
<1> QED
  BY <1>1, <1>2, <1>3, <1>4, <1>5, <1>6

\* Sending a command keeps the shape.
LEMMA SendShaped ==
  ASSUME TurnInv, NEW c \in Clients, NEW command \in Commands, Send(c, command)
  PROVE TurnInv'
<1>1. string' = [string EXCEPT ![c] = Append(@, command)]
      /\ request' = [request EXCEPT ![c] = string'[c]] /\ UNCHANGED <<loop, now>>
  BY DEF Send, world
<1>2. string \in [Clients -> Seq(Commands)] /\ request \in [Clients -> Seq(Commands)]
  BY DEF TurnInv, Shaped
<1>3. Append(string[c], command) \in Seq(Commands)
  BY <1>2
<1>4. string' \in [Clients -> Seq(Commands)] /\ request' \in [Clients -> Seq(Commands)]
  BY <1>1, <1>2, <1>3
<1>5. UNCHANGED <<sockets, target, until, turn, input, doClose, now>>
  BY <1>1 DEF loop
<1> QED
  BY <1>4, <1>5 DEF TurnInv, Shaped, AllAsked, OnTime

\* Neither do the other steps of a script, nor what the library reads.
LEMMA ClientShaped ==
  ASSUME TurnInv, NEW c \in Clients, Call(c) \/ Client(c) \/ Crash(c)
  PROVE TurnInv'
<1>1. CASE Get(c) \/ RemoveVehicle(c)
  BY <1>1, SendShaped, CommandParts DEF Get, RemoveVehicle
<1>2. CASE Close(c)
  BY <1>2, SendShaped, CommandParts DEF Close
<1>3. CASE \E k \in Subs : Subscribe(c, k)
  BY <1>3, SendShaped, CommandParts DEF Subscribe
<1>4. CASE \E t \in Times : Step(c, t)
  BY <1>4, SendShaped, CommandParts DEF Step
<1>5. CASE AddFilter(c) \/ Client(c) \/ Crash(c)
  <2>1. UNCHANGED <<sockets, target, until, turn, input, doClose, now, request>>
    BY <1>5 DEF AddFilter, Client, ReadAnswer, LoseServer, Crash, channels, loop, world
  <2>2. string' \in [Clients -> Seq(Commands)]
    <3>1. string \in [Clients -> Seq(Commands)]
      BY DEF TurnInv, Shaped
    <3>2. string' = string \/ \E s \in Seq(Commands) : string' = [string EXCEPT ![c] = s]
      <4>1. CASE AddFilter(c)
        <5>1. string' = string \/ string' = [string EXCEPT ![c] = Append(@, [cmd |-> "filter"])]
          BY <4>1 DEF AddFilter
        <5>2. Append(string[c], [cmd |-> "filter"]) \in Seq(Commands)
          BY <3>1, CommandParts
        <5> QED BY <5>1, <5>2
      <4>2. CASE ReadAnswer(c)
        <5>1. << >> \in Seq(Commands)
          OBVIOUS
        <5>2. string' = string \/ string' = [string EXCEPT ![c] = << >>]
          BY <4>2 DEF ReadAnswer, Accept, Fail, Mismatch
        <5> QED BY <5>1, <5>2
      <4>3. CASE LoseServer(c) \/ Crash(c)
        BY <4>3 DEF LoseServer, Crash
      <4> QED BY <1>5, <4>1, <4>2, <4>3 DEF Client
    <3> QED BY <3>1, <3>2
  <2> QED BY <2>1, <2>2 DEF TurnInv, Shaped, AllAsked, OnTime
<1> QED
  BY <1>1, <1>2, <1>3, <1>4, <1>5 DEF Call

\* What is left of the commands after one of them.
LEMMA TailOfInput ==
  ASSUME input \in Seq(Commands), input # << >>
  PROVE Tail(input) \in Seq(Commands) /\ Head(input) \in Commands
  BY HeadTailProperties

\* A subscription is answered, unless it is to what is around a vehicle that has left.
SubscribeAnswers == DispatchSubscribe /\ ~(Head(input).of = "context" /\ ~vehicle)
SubscribeRaises == DispatchSubscribe /\ Head(input).of = "context" /\ ~vehicle

LEMMA SubscribeParts ==
  /\ DispatchSubscribe =>
       /\ turn # 0 /\ ~doClose /\ input # << >> /\ Head(input).cmd = "subscribe"
       /\ UNCHANGED <<scripts, channels, target, until, now, vehicle>>
  /\ SubscribeAnswers =>
       input' = Tail(input) /\ UNCHANGED <<sockets, turn, doClose>>
  /\ SubscribeRaises =>
       /\ sockets' = {} /\ turn' = 0 /\ doClose' = TRUE
       /\ UNCHANGED <<input, output, subs, cache, lastContext>>
<1>1. DispatchSubscribe =>
        /\ turn # 0 /\ ~doClose /\ input # << >> /\ Head(input).cmd = "subscribe"
        /\ UNCHANGED <<scripts, channels, target, until, now, vehicle>>
  BY DEF DispatchSubscribe, Dispatch
<1> DEFINE k == Head(input).of
<1>0. ASSUME DispatchSubscribe
      PROVE /\ Raises({k}) <=> k = "context" /\ ~vehicle
            /\ \/ input' = Tail(input) /\ UNCHANGED <<sockets, turn, doClose>>
                     /\ (vehicle \/ ~Raises({k}))
               \/ Raises({k}) /\ EndServer /\ UNCHANGED <<input, output, subs, cache, lastContext>>
  <2>1. vehicle' = vehicle
    BY <1>0, <1>1
  <2>2. Raises({k}) <=> k = "context" /\ ~vehicle
    BY <2>1, Zenon DEF Raises
  <2>3. \/ input' = Tail(input) /\ UNCHANGED <<sockets, turn, doClose>>
              /\ (vehicle \/ ~Raises({k}))
        \/ Raises({k}) /\ EndServer /\ UNCHANGED <<input, output, subs, cache, lastContext>>
    BY <1>0 DEF DispatchSubscribe
  <2> QED BY <2>2, <2>3
<1> HIDE DEF k
<1>2. SubscribeAnswers => input' = Tail(input) /\ UNCHANGED <<sockets, turn, doClose>>
  BY <1>0 DEF SubscribeAnswers, k
<1>3. SubscribeRaises =>
        /\ sockets' = {} /\ turn' = 0 /\ doClose' = TRUE
        /\ UNCHANGED <<input, output, subs, cache, lastContext>>
  BY <1>0 DEF SubscribeRaises, EndServer, k
<1> QED
  BY <1>1, <1>2, <1>3

\* A simulation step, unless a subscription is to what is around a vehicle that has left.
StepAnswers == SimulationStep /\ ~Raises(Kept(vehicle' # vehicle))
StepRaises == SimulationStep /\ Raises(Kept(vehicle' # vehicle))

LEMMA StepParts ==
  /\ SimulationStep =>
       /\ turn = 0 /\ ~doClose /\ now' = now + 1 /\ vehicle' \in {vehicle, FALSE}
       /\ UNCHANGED <<scripts, request, target, input, lastContext>>
  /\ StepAnswers =>
       /\ subs' = (IF vehicle' THEN Kept(vehicle' # vehicle) ELSE {})
       /\ cache' = [of : subs', time : {now'}]
       /\ reply' = [c \in Clients |->
                      IF c \in Due(now')
                      THEN Append(reply[c], [status |-> Status("step", TRUE), values |-> cache'])
                      ELSE reply[c]]
       /\ output' = Empty /\ NewRound(sockets, target, until) /\ UNCHANGED <<sockets, doClose>>
  /\ StepRaises =>
       /\ sockets' = {} /\ turn' = 0 /\ doClose' = TRUE /\ cache' = {}
       /\ UNCHANGED <<reply, until, output, subs>>
<1>1. SimulationStep =>
        /\ turn = 0 /\ ~doClose /\ now' = now + 1 /\ vehicle' \in {vehicle, FALSE}
        /\ UNCHANGED <<scripts, request, target, input, lastContext>>
  BY DEF SimulationStep
<1>2. StepAnswers =>
        /\ subs' = (IF vehicle' THEN Kept(vehicle' # vehicle) ELSE {})
        /\ cache' = [of : subs', time : {now'}]
        /\ reply' = [c \in Clients |->
                       IF c \in Due(now')
                       THEN Append(reply[c], [status |-> Status("step", TRUE), values |-> cache'])
                       ELSE reply[c]]
        /\ output' = Empty /\ NewRound(sockets, target, until) /\ UNCHANGED <<sockets, doClose>>
  BY DEF StepAnswers, SimulationStep
<1>3. StepRaises =>
        /\ sockets' = {} /\ turn' = 0 /\ doClose' = TRUE /\ cache' = {}
        /\ UNCHANGED <<reply, until, output, subs>>
  BY DEF StepRaises, SimulationStep, EndServer
<1> QED
  BY <1>1, <1>2, <1>3

\* The steps of the server that keep the turn, or end.
LEMMA ServeShaped ==
  ASSUME TurnInv, Respond \/ Receive \/ LoseClient
                    \/ DispatchGet \/ DispatchRemove \/ DispatchSubscribe \/ DispatchFilter
  PROVE TurnInv'
<1> USE DEF TurnInv, Shaped
<1>1. CASE Respond
  <2>1. UNCHANGED <<string, request, input, sockets, target, until, turn, doClose, now>>
    BY <1>1 DEF Respond, scripts, world
  <2> QED BY <2>1 DEF AllAsked, OnTime
<1>2. CASE Receive
  <2>1. /\ UNCHANGED <<string, sockets, target, until, turn, doClose, now>>
        /\ turn # 0 /\ input' = request[turn] /\ request' = [request EXCEPT ![turn] = << >>]
    BY <1>2 DEF Receive, scripts, world
  <2>2. input' \in Seq(Commands) /\ request' \in [Clients -> Seq(Commands)]
    <3>1. turn \in Clients /\ << >> \in Seq(Commands)
      BY <2>1
    <3> QED BY <2>1, <3>1
  <2> QED BY <2>1, <2>2 DEF AllAsked, OnTime
<1>3. CASE LoseClient
  <2>1. /\ UNCHANGED <<string, request, input, target, until, now>>
        /\ sockets' = {} /\ turn' = 0 /\ doClose' = TRUE
    BY <1>3 DEF LoseClient, EndServer, scripts, channels, world
  <2> QED BY <2>1 DEF AllAsked, OnTime
<1>4. CASE DispatchGet \/ DispatchRemove \/ SubscribeAnswers \/ DispatchFilter
  <2>1. /\ UNCHANGED <<string, request, sockets, target, until, turn, now>>
        /\ turn # 0 /\ input # << >> /\ input' \in {input, Tail(input)}
    <3>1. CASE DispatchGet \/ DispatchRemove \/ DispatchFilter
      BY <3>1 DEF DispatchGet, DispatchRemove, DispatchFilter, Dispatch, scripts, channels, world
    <3>2. CASE SubscribeAnswers
      BY <3>2, SubscribeParts DEF SubscribeAnswers, scripts, channels
    <3> QED BY <1>4, <3>1, <3>2
  <2>2. input' \in Seq(Commands)
    BY <2>1, TailOfInput
  <2> QED BY <2>1, <2>2 DEF AllAsked, OnTime
<1>5. CASE SubscribeRaises
  <2>1. /\ UNCHANGED <<string, request, input, target, until, now>>
        /\ sockets' = {} /\ turn' = 0 /\ doClose' = TRUE
    BY <1>5, SubscribeParts DEF SubscribeRaises, scripts, channels
  <2> QED BY <2>1 DEF AllAsked, OnTime
<1> QED
  BY <1>1, <1>2, <1>3, <1>4, <1>5 DEF SubscribeAnswers, SubscribeRaises

\* The steps of the server that hand the turn on.
LEMMA HandShaped ==
  ASSUME TurnInv, DispatchStep \/ DispatchClose
  PROVE TurnInv'
<1> USE DEF TurnInv, Shaped
<1>1. /\ UNCHANGED <<string, request, now>> /\ input' = Tail(input)
      /\ turn # 0 /\ input # << >> /\ Head(input).cmd \in {"step", "close"} /\ ~doClose
  BY DEF DispatchStep, DispatchClose, Dispatch, scripts
<1>2. input' \in Seq(Commands) /\ Head(input) \in Commands
  BY <1>1, TailOfInput
<1>3. turn \in Clients /\ until <= now
  BY <1>1 DEF OnTime
<1>4. CASE DispatchStep
  <2>1. /\ target' = [target EXCEPT ![turn] = NextTarget(@, Head(input).to)]
        /\ HandOn(turn, sockets, target', until)
        /\ UNCHANGED <<sockets, doClose>> /\ Head(input).cmd = "step"
    BY <1>4 DEF DispatchStep, Dispatch
  <2>2. NextTarget(target[turn], Head(input).to) \in Nat
    <3>1. Head(input).to \in Times
      BY <1>2, <2>1, CommandParts
    <3>2. Head(input).to \in Nat /\ target[turn] \in Nat
      BY <1>3, <3>1, SessionAssumption DEF Times
    <3> QED BY <3>2 DEF NextTarget
  <2>3. target' \in [Clients -> Nat]
    BY <2>1, <2>2
  <2>4. /\ turn' \in sockets \cup {0} /\ until' \in Nat
        /\ turn' # 0 => until' <= now' /\ target'[turn'] <= now'
        /\ turn' = 0 => \A d \in sockets : now' < target'[d]
    BY <1>1, <1>3, <2>1, <2>3, TurnGiven
  <2>5. sockets # {}
    BY <1>1
  <2> QED BY <1>1, <1>2, <2>1, <2>3, <2>4, <2>5 DEF AllAsked, OnTime
<1>5. CASE DispatchClose
  <2>1. /\ sockets' = sockets \ {turn} /\ doClose' = (sockets' = {})
        /\ HandOn(turn, sockets', target, until) /\ UNCHANGED target
    BY <1>5 DEF DispatchClose
  <2>2. /\ turn' \in sockets' \cup {0} /\ until' \in Nat
        /\ turn' # 0 => until' <= now' /\ target[turn'] <= now'
        /\ turn' = 0 => \A d \in sockets' : now' < target[d]
    BY <1>1, <1>3, <2>1, TurnGiven
  <2> QED BY <1>1, <1>2, <2>1, <2>2 DEF AllAsked, OnTime
<1> QED
  BY <1>4, <1>5

\* A simulation step begins a new round.
LEMMA SimulationShaped ==
  ASSUME TurnInv, SimulationStep
  PROVE TurnInv'
<1> USE DEF TurnInv, Shaped
<1>1. /\ UNCHANGED <<string, request, target, input>>
      /\ turn = 0 /\ ~doClose /\ now' = now + 1 /\ now' \in Nat
  BY StepParts DEF scripts
<1>2. CASE StepAnswers
  <2>1. NewRound(sockets, target, until) /\ UNCHANGED <<sockets, doClose>>
    BY <1>2, StepParts
  <2>2. /\ turn' \in sockets \cup {0} /\ until' \in Nat
        /\ turn' # 0 => until' <= now' /\ target[turn'] <= now'
        /\ turn' = 0 => \A d \in sockets : now' < target[d]
    BY <1>1, <2>1, RoundGiven
  <2>3. sockets # {}
    BY <1>1 DEF AllAsked
  <2> QED BY <1>1, <2>1, <2>2, <2>3 DEF AllAsked, OnTime
<1>3. CASE StepRaises
  <2>1. sockets' = {} /\ turn' = 0 /\ doClose' = TRUE /\ until' = until
    BY <1>3, StepParts
  <2> QED BY <1>1, <2>1 DEF AllAsked, OnTime
<1> QED
  BY <1>2, <1>3 DEF StepAnswers, StepRaises

\* The shape of the state and the turns are kept by every step.
LEMMA TurnInvKept ==
  ASSUME TurnInv, [Next]_vars
  PROVE TurnInv'
<1>1. CASE UNCHANGED vars
  BY <1>1 DEF vars, scripts, channels, loop, world, TurnInv, Shaped, AllAsked, OnTime
<1>2. CASE Server
  BY <1>2, ServeShaped, HandShaped, SimulationShaped DEF Server
<1>3. CASE \E c \in Clients : Client(c) \/ Call(c) \/ Crash(c)
  BY <1>3, ClientShaped
<1> QED
  BY <1>1, <1>2, <1>3 DEF Next, Over

\* Initially the first client has the turn.
LEMMA TurnInvInit ==
  Init => TurnInv
<1> SUFFICES ASSUME Init PROVE TurnInv
  OBVIOUS
<1>1. 1 \in Clients
  BY SessionAssumption DEF Clients
<1>2. << >> \in Seq(Commands)
  OBVIOUS
<1>3. Shaped
  BY <1>1, <1>2 DEF Init, Shaped
<1>4. AllAsked /\ OnTime
  BY <1>1 DEF Init, AllAsked, OnTime
<1> QED
  BY <1>3, <1>4 DEF TurnInv

\* Whatever the scripts do, the simulation proceeds only when every connected client has asked
\* for a later time, and not past the time one of them has asked for.
THEOREM SessionNobodyLeftBehind == Spec => NobodyLeftBehind
<1>1. ASSUME TurnInv, [Next]_vars
      PROVE now' # now => \A c \in sockets : now < target[c] /\ now' <= target[c]
  <2> SUFFICES ASSUME now' # now
               PROVE \A c \in sockets : now < target[c] /\ now' <= target[c]
    OBVIOUS
  <2>1. SimulationStep
    <3>1. CASE \E c \in Clients : Client(c) \/ Call(c) \/ Crash(c)
      <4>1. UNCHANGED now
        BY <3>1 DEF Client, ReadAnswer, LoseServer, Call, Get, RemoveVehicle, Subscribe, AddFilter,
          Step, Close, Send, Crash, world
      <4> QED BY <4>1
    <3>2. CASE Server
      BY <3>2 DEF Server, Respond, Receive, LoseClient, DispatchGet, DispatchRemove,
        DispatchSubscribe, DispatchFilter, DispatchStep, DispatchClose, world
    <3>3. CASE UNCHANGED vars
      BY <3>3 DEF vars, world
    <3> QED BY <1>1, <3>1, <3>2, <3>3 DEF Next, Over
  <2>2. turn = 0 /\ ~doClose /\ now' = now + 1
    BY <2>1 DEF SimulationStep
  <2>3. \A c \in sockets : now < target[c] /\ target[c] \in Nat
    BY <1>1, <2>2 DEF TurnInv, Shaped, AllAsked
  <2>4. now \in Nat
    BY <1>1 DEF TurnInv, Shaped
  <2> QED BY <2>2, <2>3, <2>4
<1> QED
  BY <1>1, TurnInvInit, TurnInvKept, PTL DEF Spec, NobodyLeftBehind

-----------------------------------------------------------------------------
(* Queues, commands and statuses.                                          *)

Statuses == [cmd : Names, ok : BOOLEAN]

\* A filter enters a queue of filters.
LEMMA FilterQueued ==
  ASSUME NEW q \in Seq(Names), NEW s \in Seq(Commands), Filters(q), Named(q, s)
  PROVE /\ Filters(Append(q, "filter"))
        /\ Named(Append(q, "filter"), Append(s, [cmd |-> "filter"]))
<1>1. Filters(Append(q, "filter"))
  BY DEF Filters
<1>2. Named(Append(q, "filter"), Append(s, [cmd |-> "filter"]))
  BY DEF Named
<1> QED
  BY <1>1, <1>2

\* The command of a call enters a queue of filters; a step finds the queue empty.
LEMMA CommandQueued ==
  ASSUME NEW q \in Seq(Names), NEW s \in Seq(Commands), Filters(q), Named(q, s),
         NEW x \in Commands, x.cmd # "filter", x.cmd = "step" => q = << >>
  PROVE /\ Append(q, x.cmd) \in Seq(Names) /\ Append(s, x) \in Seq(Commands)
        /\ Asked(Append(q, x.cmd)) /\ Last(Append(q, x.cmd)) = x.cmd
        /\ Named(Append(q, x.cmd), Append(s, x)) /\ Append(s, x) # << >>
<1> DEFINE n == x.cmd
<1>0. n \in Names /\ n # "filter"
  BY CommandParts
<1>1. Append(q, n) \in Seq(Names) /\ Append(s, x) \in Seq(Commands)
  BY <1>0
<1>2. Len(Append(q, n)) = Len(q) + 1 /\ Append(q, n)[Len(q) + 1] = n
  BY <1>0
<1>3. Last(Append(q, n)) = n
  BY <1>2 DEF Last
<1>4. Asked(Append(q, n))
  <2>1. n = "step" => Len(q) = 0
    OBVIOUS
  <2> HIDE DEF n
  <2>2. \A i \in 1..Len(Append(q, n)) :
          Append(q, n)[i] = "filter" <=> i < Len(Append(q, n))
    BY <1>0, <1>2 DEF Filters
  <2>3. Append(q, n) # << >>
    BY <1>0
  <2> QED BY <1>2, <2>1, <2>2, <2>3 DEF Asked
<1>5. Named(Append(q, n), Append(s, x)) /\ Append(s, x) # << >>
  <2>1. Len(Append(s, x)) = Len(s) + 1 /\ Append(s, x)[Len(s) + 1] = x
    OBVIOUS
  <2>2. ASSUME NEW i \in 1..Len(Append(q, n)) PROVE Append(s, x)[i].cmd = Append(q, n)[i]
    <3>1. Len(s) = Len(q)
      BY DEF Named
    <3>2. CASE i = Len(q) + 1
      BY <1>2, <2>1, <3>1, <3>2
    <3>3. CASE i # Len(q) + 1
      <4> HIDE DEF n
      <4>1. i \in 1..Len(q)
        BY <1>2, <3>3
      <4>2. Append(s, x)[i] = s[i] /\ Append(q, n)[i] = q[i]
        BY <1>0, <3>1, <4>1
      <4> QED BY <4>1, <4>2 DEF Named
    <3> QED BY <3>2, <3>3
  <2>3. Len(Append(s, x)) = Len(Append(q, n))
    BY <1>2, <2>1 DEF Named
  <2>4. Append(s, x) # << >>
    BY <2>1
  <2> HIDE DEF n
  <2> QED BY <2>2, <2>3, <2>4 DEF Named
<1> QED
  BY <1>1, <1>3, <1>4, <1>5

\* A queue with a command at its end is no queue of filters, and not empty.
LEMMA AskedLast ==
  ASSUME NEW q \in Seq(Names), Asked(q)
  PROVE /\ Len(q) \in Nat \ {0} /\ ~Filters(q) /\ Last(q) = q[Len(q)]
        /\ Last(q) \in Names /\ Last(q) # "filter"
<1>1. Len(q) \in Nat \ {0}
  BY DEF Asked
<1>2. Last(q) = q[Len(q)] /\ Last(q) \in Names /\ Last(q) # "filter"
  BY <1>1 DEF Asked, Last
<1>3. ~Filters(q)
  BY <1>1, <1>2 DEF Filters
<1> QED
  BY <1>1, <1>2, <1>3

\* The server takes a message of commands.
LEMMA ServesAll ==
  ASSUME NEW q \in Seq(Names), NEW s \in Seq(Commands), Named(q, s)
  PROVE Serves(q, << >>, s)
  BY DEF Serves, Named

\* It answers the first command that is left.
LEMMA ServesNext ==
  ASSUME NEW q \in Seq(Names), NEW st \in Seq(Statuses), NEW s \in Seq(Commands),
         Serves(q, st, s), s # << >>, NEW b \in BOOLEAN, Head(s).cmd = "filter" => b
  PROVE /\ Serves(q, Append(st, [cmd |-> Head(s).cmd, ok |-> b]), Tail(s))
        /\ Append(st, [cmd |-> Head(s).cmd, ok |-> b]) \in Seq(Statuses)
<1> DEFINE n == Head(s).cmd
           a == [cmd |-> n, ok |-> b]
<1>1. Head(s) \in Commands /\ Tail(s) \in Seq(Commands) /\ Len(Tail(s)) = Len(s) - 1
      /\ \A i \in 1..Len(Tail(s)) : Tail(s)[i] = s[i + 1]
  BY HeadTailProperties
<1>2. Head(s) = s[1] /\ Len(s) \in Nat \ {0}
  OBVIOUS
<1>3. a \in Statuses /\ a.cmd = n /\ a.ok = b
  BY <1>1, CommandParts DEF Statuses
<1>4. n = q[Len(st) + 1] /\ (q[Len(st) + 1] = "filter" => b)
  BY <1>2 DEF Serves
<1>5. Len(st) \in Nat /\ Len(Append(st, a)) = Len(st) + 1 /\ Append(st, a) \in Seq(Statuses)
      /\ Append(st, a)[Len(st) + 1] = a /\ \A i \in 1..Len(st) : Append(st, a)[i] = st[i]
  <2> HIDE DEF a
  <2> QED BY <1>3
<1> HIDE DEF n, a
<1>6. Len(Append(st, a)) + Len(Tail(s)) = Len(q)
  BY <1>1, <1>2, <1>5 DEF Serves
<1>7. ASSUME NEW i \in 1..Len(Append(st, a))
      PROVE Append(st, a)[i].cmd = q[i] /\ (q[i] = "filter" => Append(st, a)[i].ok)
  <2>1. CASE i = Len(st) + 1
    BY <1>3, <1>4, <1>5, <2>1
  <2>2. CASE i \in 1..Len(st)
    BY <1>5, <2>2 DEF Serves
  <2> QED BY <1>5, <2>1, <2>2
<1>8. ASSUME NEW i \in 1..Len(Tail(s)) PROVE Tail(s)[i].cmd = q[Len(Append(st, a)) + i]
  <2>1. i + 1 \in 1..Len(s) /\ Tail(s)[i] = s[i + 1]
    BY <1>1, <1>2
  <2>2. s[i + 1].cmd = q[Len(st) + (i + 1)]
    BY <2>1 DEF Serves
  <2>3. Len(st) + (i + 1) = Len(Append(st, a)) + i
    BY <1>5
  <2> QED BY <2>1, <2>2, <2>3
<1> QED
  BY <1>5, <1>6, <1>7, <1>8 DEF Serves, n, a

\* With nothing left the commands are answered.
LEMMA ServesNone ==
  ASSUME NEW q \in Seq(Names), NEW st \in Seq(Statuses), Serves(q, st, << >>), Asked(q),
         Last(q) \notin {"step", "close"}
  PROVE Answers(q, st)
<1>1. Len(st) = Len(q)
  BY DEF Serves
<1>2. \A i \in 1..Len(q) : st[i].cmd = q[i] /\ (q[i] = "filter" => st[i].ok)
  BY <1>1 DEF Serves
<1>3. \A i \in 1..Len(q) : q[i] \notin {"step", "close"}
  <2> TAKE i \in 1..Len(q)
  <2>1. CASE i = Len(q)
    BY <2>1, AskedLast
  <2>2. CASE i < Len(q)
    BY <2>2 DEF Asked
  <2> QED BY <2>1, <2>2
<1> QED
  BY <1>1, <1>2, <1>3 DEF Answers

\* A step or the end of the connection is the last command of its message.
LEMMA ServesLast ==
  ASSUME NEW q \in Seq(Names), NEW st \in Seq(Statuses), NEW s \in Seq(Commands),
         Serves(q, st, s), s # << >>, Asked(q), Head(s).cmd \in {"step", "close"}
  PROVE /\ Tail(s) = << >> /\ Last(q) = Head(s).cmd
        /\ Answers(q, Append(st, [cmd |-> Head(s).cmd, ok |-> TRUE]))
        /\ Head(s).cmd = "step" => q = <<"step">> /\ st = << >>
<1> DEFINE n == Head(s).cmd
           r == Append(st, [cmd |-> n, ok |-> TRUE])
<1>1. Head(s) = s[1] /\ Len(s) \in Nat \ {0} /\ Len(st) \in Nat /\ Len(q) \in Nat
  OBVIOUS
<1>2. n = q[Len(st) + 1] /\ Len(st) + Len(s) = Len(q)
  BY <1>1 DEF Serves
<1>3. Len(st) + 1 = Len(q)
  <2>1. Len(st) + 1 \in 1..Len(q)
    BY <1>1, <1>2
  <2>2. ~(Len(st) + 1 < Len(q))
    BY <1>2, <2>1 DEF Asked
  <2> QED BY <1>1, <2>1, <2>2
<1>4. Tail(s) = << >>
  <2>1. Len(s) = 1
    <3> DEFINE a == Len(st)
               b == Len(s)
    <3>1. a + b = a + 1 /\ b \in Nat /\ a \in Nat
      BY <1>1, <1>2, <1>3
    <3> HIDE DEF a, b
    <3>2. b = 1
      BY <3>1
    <3> QED BY <3>2 DEF b
  <2>2. Tail(s) \in Seq(Commands) /\ Len(Tail(s)) = Len(s) - 1
    BY HeadTailProperties
  <2>3. Len(Tail(s)) = 0
    BY <2>1, <2>2
  <2> DEFINE t == Tail(s)
  <2>4. t \in Seq(Commands) /\ Len(t) = 0
    BY <2>2, <2>3
  <2> HIDE DEF t
  <2>5. t = << >>
    BY <2>4
  <2> QED BY <2>5 DEF t
<1>5. Last(q) = n
  BY <1>2, <1>3, AskedLast
<1>6. Serves(q, r, << >>) /\ r \in Seq(Statuses)
  BY <1>4, ServesNext
<1>7. r[Len(q)].ok
  <2> DEFINE a == [cmd |-> n, ok |-> TRUE]
  <2>1. a.ok
    OBVIOUS
  <2>2. Append(st, a)[Len(st) + 1] = a
    <3> HIDE DEF a
    <3> QED BY <1>1
  <2> HIDE DEF a
  <2>3. Append(st, a)[Len(q)].ok
    BY <1>3, <2>1, <2>2
  <2> QED BY <2>3 DEF a
<1> HIDE DEF r
<1>8. Len(r) = Len(q)
  BY <1>6 DEF Serves
<1>9. ASSUME NEW i \in 1..Len(q)
      PROVE r[i].cmd = q[i] /\ (q[i] \in {"filter", "step", "close"} => r[i].ok)
  <2>1. r[i].cmd = q[i] /\ (q[i] = "filter" => r[i].ok)
    BY <1>6, <1>8 DEF Serves
  <2>2. CASE i = Len(q)
    BY <1>7, <2>1, <2>2
  <2>3. CASE i < Len(q)
    BY <2>1, <2>3 DEF Asked
  <2> QED BY <2>1, <2>2, <2>3
<1>10. Answers(q, r)
  BY <1>8, <1>9 DEF Answers
<1>11. n = "step" => q = <<"step">> /\ st = << >>
  <2> SUFFICES ASSUME n = "step" PROVE q = <<"step">> /\ st = << >>
    OBVIOUS
  <2>1. Len(q) = 1
    BY <1>5, AskedLast DEF Asked
  <2>2. q = <<"step">>
    BY <2>1, <1>5, AskedLast
  <2>3. Len(st) = 0
    BY <1>1, <1>3, <2>1
  <2> QED BY <2>2, <2>3
<1> QED
  BY <1>4, <1>5, <1>10, <1>11 DEF r

\* The last command that is left is the last of the queue.
LEMMA ServesOne ==
  ASSUME NEW q \in Seq(Names), NEW st \in Seq(Statuses), NEW s \in Seq(Commands),
         Serves(q, st, s), s # << >>, Asked(q), Tail(s) = << >>
  PROVE Last(q) = Head(s).cmd
<1>1. Len(s) = 1 /\ Head(s) = s[1]
  <2> DEFINE t == Tail(s)
             n == Len(s)
  <2>1. Len(t) = n - 1 /\ n \in Nat /\ t = << >>
    BY HeadTailProperties
  <2> HIDE DEF t, n
  <2>2. Len(t) = 0
    BY <2>1
  <2>3. n = 1
    BY <2>1, <2>2
  <2>4. Head(s) = s[1]
    OBVIOUS
  <2> QED BY <2>3, <2>4 DEF n
<1>2. s[1].cmd = q[Len(st) + 1] /\ Len(st) + 1 = Len(q)
  BY <1>1 DEF Serves
<1> QED
  BY <1>1, <1>2, AskedLast

\* An answer to the queue is never mistaken for one to something else: what it refuses is a
\* command for the vehicle.
LEMMA AnswerRead ==
  ASSUME NEW q \in Seq(Names), NEW st \in Seq(Statuses), Answers(q, st), Asked(q)
  PROVE /\ Refused(q, st) # {} =>
             Min(Refused(q, st)) <= Len(st) /\ ~st[Min(Refused(q, st))].ok
        /\ Last(q) \in {"step", "close"} => Refused(q, st) = {}
<1> DEFINE bad == Refused(q, st)
<1>1. bad \subseteq 1..Len(q) /\ \A i \in bad : i <= Len(st) /\ ~st[i].ok
  BY DEF Refused, Answers
<1>2. bad # {} => Min(bad) \in bad
  <2>1. bad \in SUBSET Nat
    BY <1>1
  <2> HIDE DEF bad
  <2> QED BY <2>1, MinOf
<1>3. Last(q) \in {"step", "close"} => bad = {}
  <2> SUFFICES ASSUME Last(q) \in {"step", "close"}, NEW i \in bad PROVE FALSE
    OBVIOUS
  <2>1. i \in 1..Len(q) /\ ~st[i].ok
    BY <1>1
  <2>2. q[i] \notin {"filter", "step", "close"}
    BY <2>1 DEF Answers
  <2>3. i = Len(q)
    BY <2>1, <2>2 DEF Asked
  <2> QED BY <2>2, <2>3, AskedLast
<1> QED
  BY <1>1, <1>2, <1>3

-----------------------------------------------------------------------------
(* The calls of the scripts and the library that reads the answers.        *)

\* What the phase of a client depends on, besides the time.
Same(c) ==
  /\ state'[c] = state[c] /\ queue'[c] = queue[c] /\ string'[c] = string[c]
  /\ results'[c] = results[c] /\ request'[c] = request[c] /\ reply'[c] = reply[c]
  /\ target'[c] = target[c]

\* A client that a step leaves alone keeps its phase.
LEMMA SamePhase ==
  ASSUME NEW c \in Clients, Same(c), now' = now
  PROVE (Phase(c)' <=> Phase(c)) /\ (Taken(c)' <=> Taken(c)) /\ (Parted(c)' <=> Parted(c))
<1> USE DEF Same
<1>1. (Taken(c)' <=> Taken(c))
  BY DEF Taken
<1>2. (Idle(c)' <=> Idle(c))
  BY DEF Idle
<1>3. (Requested(c)' <=> Requested(c))
  BY DEF Requested
<1>4. (Pending(c)' <=> Pending(c))
  BY DEF Pending
<1>5. (Answered(c)' <=> Answered(c))
  BY DEF Answered
<1>6. (Parted(c)' <=> Parted(c))
  BY DEF Parted
<1> HIDE DEF Same
<1> QED
  BY <1>1, <1>2, <1>3, <1>4, <1>5, <1>6 DEF Phase

\* A step at the side of a client leaves the server's part of the invariant alone.
LEMMA ClientStep ==
  ASSUME SessionInv, NEW c \in Clients, TypeOK', UNCHANGED <<loop, now, cache>>,
         \A d \in Clients \ {c} : Same(d), SomeDead => SomeDead',
         c \in sockets => Phase(c)' /\ (Taken(c)' <=> Taken(c))
                            /\ (Taken(c) => queue'[c] = queue[c]),
         c \notin sockets => Parted(c)' \/ SomeDead'
  PROVE SessionInv'
<1>1. UNCHANGED <<sockets, target, until, turn, input, output, doClose, now, cache>>
  BY DEF loop
<1>2. \A d \in Clients \ {c} : (Phase(d)' <=> Phase(d)) /\ (Taken(d)' <=> Taken(d))
                                 /\ (Parted(d)' <=> Parted(d)) /\ queue'[d] = queue[d]
  <2> TAKE d \in Clients \ {c}
  <2>1. Same(d) /\ d \in Clients
    OBVIOUS
  <2> QED BY <1>1, <2>1, SamePhase DEF Same
<1>3. sockets \subseteq Clients /\ turn \in sockets \cup {0}
  BY DEF SessionInv, TypeOK
<1>4. AllAsked' /\ OnTime' /\ UpToDate'
  BY <1>1 DEF SessionInv, AllAsked, OnTime, UpToDate
<1>5. \A d \in sockets' : Phase(d)'
  BY <1>1, <1>2, <1>3 DEF SessionInv
<1>6. \A d \in Clients \ sockets' : (Parted(d) \/ SomeDead)'
  BY <1>1, <1>2 DEF SessionInv
<1>7. \A d \in sockets : (Taken(d)' <=> Taken(d)) /\ (Taken(d) => queue'[d] = queue[d])
  BY <1>2, <1>3
<1>8. Serving'
  <2>1. \A d \in sockets' : Taken(d)' =>
          turn' = d /\ (~doClose' => ServesNow(d)')
    BY <1>1, <1>7 DEF SessionInv, Serving, ServesNow
  <2>2. (turn' = 0 /\ ~doClose') \/ (turn' # 0 /\ ~Taken(turn)') => Quiet'
    <3>1. CASE turn = 0
      BY <1>1, <3>1 DEF SessionInv, Serving, Quiet
    <3>2. CASE turn # 0
      <4>1. PICK d \in sockets : d = turn
        BY <1>3, <3>2
      <4>2. ~Taken(d) => Quiet
        BY <3>2, <4>1 DEF SessionInv, Serving
      <4>3. ~Taken(d)' => Quiet'
        BY <1>1, <1>7, <4>2 DEF Quiet
      <4>4. Taken(turn)' <=> Taken(d)'
        BY <1>1, <4>1 DEF Taken
      <4> QED BY <1>1, <3>2, <4>3, <4>4
    <3> QED BY <3>1, <3>2
  <2>3. output'.status = << >> => output' = Empty
    BY <1>1 DEF SessionInv, Serving
  <2>4. turn' # 0 /\ doClose' => input' # << >>
    BY <1>1 DEF SessionInv, Serving
  <2> QED BY <2>1, <2>2, <2>3, <2>4 DEF Serving
<1> QED
  BY <1>4, <1>5, <1>6, <1>8 DEF SessionInv

\* A script that is free to call is idle as long as it is connected.
LEMMA FreeIsIdle ==
  ASSUME SessionInv, NEW c \in sockets, state[c] = "free"
  PROVE Idle(c) /\ ~Taken(c)
<1>1. Phase(c)
  BY DEF SessionInv
<1> QED
  BY <1>1 DEF Phase, Idle, Requested, Taken, Pending, Answered

\* One that is not connected is free only if some script has ended early.
LEMMA FreeIsDead ==
  ASSUME SessionInv, NEW c \in Clients \ sockets, state[c] = "free"
  PROVE SomeDead
  BY DEF SessionInv, Parted

\* A server that has ended stays so.
LEMMA CutStays ==
  ASSUME Cut, UNCHANGED <<sockets, turn, doClose, vehicle>>
  PROVE Cut'
<1>1. Careless' /\ sockets' = {} /\ turn' = 0
  BY DEF Cut, EndedWithoutVehicle, Careless
<1>2. doClose' /\ ~vehicle'
  BY Zenon DEF Cut, EndedWithoutVehicle
<1> QED
  BY <1>1, <1>2, Zenon DEF Cut, EndedWithoutVehicle

\* No step of another script revives one.
LEMMA DeadStays ==
  ASSUME NEW c \in Clients, state[c] # "dead", SomeDead, NEW x,
         state' = [state EXCEPT ![c] = x], UNCHANGED <<sockets, turn, doClose, vehicle>>, TypeOK
  PROVE SomeDead'
<1>1. CASE Cut
  <2>1. Cut'
    BY <1>1, CutStays
  <2> QED BY <2>1 DEF SomeDead
<1>2. CASE ~Cut
  <2>1. PICK d \in Clients : state[d] = "dead"
    BY <1>2 DEF SomeDead
  <2>2. state'[d] = "dead"
    BY <2>1 DEF TypeOK
  <2> QED BY <2>2 DEF SomeDead
<1> QED
  BY <1>1, <1>2

\* Nor does a step of the server, which takes none when it has ended.
LEMMA DeadServed ==
  ASSUME SomeDead, turn # 0 \/ ~doClose, UNCHANGED state
  PROVE SomeDead'
<1>1. ~Cut
  BY DEF Cut
<1>2. PICK d \in Clients : state[d] = "dead"
  BY <1>1 DEF SomeDead
<1> QED
  BY <1>2 DEF SomeDead

\* A call sends its command with all filters that wait.
LEMMA SendKeeps ==
  ASSUME SessionInv, NEW c \in Clients, NEW x \in Commands, Send(c, x), x.cmd # "filter",
         x.cmd = "step" => queue[c] = << >> /\ now < MaxTime,
         armed' \in [Clients -> BOOLEAN]
  PROVE SessionInv'
<1>0. TypeOK
  BY DEF SessionInv
<1>1. /\ state[c] = "free" /\ state' = [state EXCEPT ![c] = "waiting"]
      /\ queue' = [queue EXCEPT ![c] = Append(@, x.cmd)]
      /\ string' = [string EXCEPT ![c] = Append(@, x)]
      /\ request' = [request EXCEPT ![c] = string'[c]]
      /\ UNCHANGED <<results, reply, loop, world>>
  BY DEF Send
<1>2. UNCHANGED <<results, reply, sockets, target, until, turn, input, output, doClose, now,
                  vehicle, subs, cache, lastContext>>
  BY <1>1 DEF loop, world
<1>3. queue[c] \in Seq(Names) /\ string[c] \in Seq(Commands) /\ x.cmd \in Names
  BY <1>0, CommandParts DEF TypeOK
<1>4. Append(queue[c], x.cmd) \in Seq(Names) /\ Append(string[c], x) \in Seq(Commands)
  BY <1>3
<1>5. /\ queue' \in [Clients -> Seq(Names)] /\ string' \in [Clients -> Seq(Commands)]
      /\ request' \in [Clients -> Seq(Commands)]
      /\ state' \in [Clients -> {"free", "waiting", "closed", "fatal", "dead"}]
      /\ queue'[c] = Append(queue[c], x.cmd) /\ string'[c] = Append(string[c], x)
      /\ request'[c] = string'[c] /\ state'[c] = "waiting"
  BY <1>0, <1>1, <1>4 DEF TypeOK
<1>6. TypeOK'
  BY <1>0, <1>2, <1>5 DEF TypeOK
<1>7. \A d \in Clients \ {c} : Same(d)
  BY <1>0, <1>1, <1>2 DEF Same, TypeOK
<1>8. SomeDead => SomeDead'
  BY <1>0, <1>1, <1>2, DeadStays
<1>9. ASSUME c \in sockets
      PROVE Phase(c)' /\ (Taken(c)' <=> Taken(c)) /\ (Taken(c) => queue'[c] = queue[c])
  <2>1. Idle(c) /\ ~Taken(c)
    BY <1>1, <1>9, FreeIsIdle
  <2>2. Filters(queue[c]) /\ Named(queue[c], string[c])
    BY <2>1 DEF Idle
  <2> DEFINE q == queue[c]
             s == string[c]
  <2>3. Asked(Append(q, x.cmd)) /\ Last(Append(q, x.cmd)) = x.cmd
        /\ Named(Append(q, x.cmd), Append(s, x)) /\ Append(s, x) # << >>
    <3>1. q \in Seq(Names) /\ s \in Seq(Commands) /\ Filters(q) /\ Named(q, s)
          /\ (x.cmd = "step" => q = << >>)
      BY <1>3, <2>2
    <3> HIDE DEF q, s
    <3> QED BY <3>1, CommandQueued
  <2>4. Requested(c)'
    BY <1>2, <1>5, <2>1, <2>3 DEF Requested, Idle
  <2>5. ~Taken(c)'
    BY <1>5, <2>3 DEF Taken
  <2> QED BY <2>1, <2>4, <2>5 DEF Phase
<1>10. c \notin sockets => SomeDead
  BY <1>1, FreeIsDead
<1> QED
  BY <1>1, <1>2, <1>6, <1>7, <1>8, <1>9, <1>10, ClientStep

\* The calls of a script.
LEMMA CallKeeps ==
  ASSUME Lax \subseteq {"lone", "gone", "remove"}, SessionInv, NEW c \in Clients, Call(c)
  PROVE SessionInv'
<1>0. TypeOK
  BY DEF SessionInv
<1>1. CASE Get(c)
  <2>1. [cmd |-> "get"] \in Commands
    BY CommandParts
  <2>2. Send(c, [cmd |-> "get"]) /\ armed' \in [Clients -> BOOLEAN]
    BY <1>0, <1>1 DEF Get, TypeOK
  <2> QED BY <2>1, <2>2, SendKeeps
<1>2. CASE Close(c)
  <2>1. [cmd |-> "close"] \in Commands
    BY CommandParts
  <2>2. Send(c, [cmd |-> "close"]) /\ armed' \in [Clients -> BOOLEAN]
    BY <1>0, <1>2 DEF Close, TypeOK
  <2> QED BY <2>1, <2>2, SendKeeps
<1>3. CASE \E k \in Subs : Subscribe(c, k)
  <2>1. PICK k \in Subs : Subscribe(c, k)
    BY <1>3
  <2>2. [cmd |-> "subscribe", of |-> k] \in Commands
    BY CommandParts
  <2>3. Send(c, [cmd |-> "subscribe", of |-> k]) /\ armed' \in [Clients -> BOOLEAN]
    BY <1>0, <2>1 DEF Subscribe, TypeOK
  <2> QED BY <2>2, <2>3, SendKeeps
<1>4. CASE \E t \in Times : Step(c, t)
  <2>1. PICK t \in Times : Step(c, t)
    BY <1>4
  <2>2. [cmd |-> "step", to |-> t] \in Commands
    BY CommandParts
  <2>3. /\ Send(c, [cmd |-> "step", to |-> t]) /\ armed' \in [Clients -> BOOLEAN]
        /\ queue[c] = << >> /\ now < MaxTime
    BY <1>0, <2>1 DEF Step, TypeOK
  <2> QED BY <2>2, <2>3, SendKeeps
<1>5. CASE AddFilter(c)
  <2>1. /\ state[c] = "free" /\ queue' = [queue EXCEPT ![c] = Append(@, "filter")]
        /\ string' = [string EXCEPT ![c] = Append(@, [cmd |-> "filter"])]
        /\ UNCHANGED <<state, results, armed, channels, loop, world>>
    BY <1>5 DEF AddFilter
  <2>2. UNCHANGED <<state, results, armed, request, reply, sockets, target, until, turn, input,
                    output, doClose, now, vehicle, subs, cache, lastContext>>
    BY <2>1 DEF channels, loop, world
  <2>3. queue[c] \in Seq(Names) /\ string[c] \in Seq(Commands)
    BY <1>0 DEF TypeOK
  <2>4. Append(queue[c], "filter") \in Seq(Names)
        /\ Append(string[c], [cmd |-> "filter"]) \in Seq(Commands)
    BY <2>3, CommandParts DEF Names
  <2>5. /\ queue' \in [Clients -> Seq(Names)] /\ string' \in [Clients -> Seq(Commands)]
        /\ queue'[c] = Append(queue[c], "filter")
        /\ string'[c] = Append(string[c], [cmd |-> "filter"])
    BY <1>0, <2>1, <2>4 DEF TypeOK
  <2>6. TypeOK'
    BY <1>0, <2>2, <2>5 DEF TypeOK
  <2>7. \A d \in Clients \ {c} : Same(d)
    BY <1>0, <2>1, <2>2 DEF Same, TypeOK
  <2>8. ASSUME c \in sockets
        PROVE Phase(c)' /\ (Taken(c)' <=> Taken(c)) /\ (Taken(c) => queue'[c] = queue[c])
    <3>1. Idle(c) /\ ~Taken(c)
      BY <2>1, <2>8, FreeIsIdle
    <3>2. Filters(queue[c]) /\ Named(queue[c], string[c])
      BY <3>1 DEF Idle
    <3> DEFINE q == queue[c]
               s == string[c]
    <3>3. Filters(Append(q, "filter")) /\ Named(Append(q, "filter"), Append(s, [cmd |-> "filter"]))
      <4>1. q \in Seq(Names) /\ s \in Seq(Commands) /\ Filters(q) /\ Named(q, s)
        BY <2>3, <3>2
      <4> HIDE DEF q, s
      <4> QED BY <4>1, FilterQueued
    <3>4. Idle(c)'
      BY <2>2, <2>5, <3>1, <3>3 DEF Idle
    <3>5. ~Taken(c)'
      BY <2>1, <2>2 DEF Taken
    <3> QED BY <3>1, <3>4, <3>5 DEF Phase
  <2>9. c \notin sockets => SomeDead
    BY <2>1, FreeIsDead
  <2>10. ASSUME SomeDead PROVE SomeDead'
    <3>1. CASE Cut
      <4>1. Cut'
        BY <2>2, <3>1, CutStays
      <4> QED BY <4>1 DEF SomeDead
    <3>2. CASE ~Cut
      BY <2>2, <2>10, <3>2 DEF SomeDead
    <3> QED BY <3>1, <3>2
  <2> QED BY <2>1, <2>2, <2>6, <2>7, <2>8, <2>9, <2>10, ClientStep
<1>6. CASE RemoveVehicle(c)
  <2>1. [cmd |-> "remove"] \in Commands
    BY CommandParts
  <2>2. Send(c, [cmd |-> "remove"]) /\ armed' \in [Clients -> BOOLEAN]
    BY <1>0, <1>6 DEF RemoveVehicle, TypeOK
  <2> QED BY <2>1, <2>2, SendKeeps
<1> QED
  BY <1>1, <1>2, <1>3, <1>4, <1>5, <1>6 DEF Call

\* The process of a script may end at any time.
LEMMA CrashKeeps ==
  ASSUME SessionInv, NEW c \in Clients, Crash(c)
  PROVE SessionInv'
<1>0. TypeOK
  BY DEF SessionInv
<1>1. /\ state[c] \in {"free", "waiting"} /\ state' = [state EXCEPT ![c] = "dead"]
      /\ UNCHANGED <<queue, string, results, armed, request, reply, sockets, target, until, turn,
                     input, output, doClose, now, vehicle, subs, cache, lastContext>>
  BY DEF Crash, channels, loop, world
<1>2. state' \in [Clients -> {"free", "waiting", "closed", "fatal", "dead"}]
      /\ state'[c] = "dead"
  BY <1>0, <1>1 DEF TypeOK
<1>3. TypeOK'
  BY <1>0, <1>1, <1>2 DEF TypeOK
<1>4. \A d \in Clients \ {c} : Same(d)
  BY <1>0, <1>1 DEF Same, TypeOK
<1>5. SomeDead'
  BY <1>2 DEF SomeDead
<1>6. ASSUME c \in sockets
      PROVE Phase(c)' /\ (Taken(c)' <=> Taken(c)) /\ (Taken(c) => queue'[c] = queue[c])
  <2>1. Phase(c)
    BY <1>6 DEF SessionInv
  <2>2. Idle(c) => Idle(c)'
    BY <1>1, <1>2 DEF Idle
  <2>3. Requested(c) => Requested(c)'
    BY <1>1, <1>2 DEF Requested
  <2>4. Pending(c) => Pending(c)'
    BY <1>1, <1>2 DEF Pending
  <2>5. Answered(c) => Answered(c)'
    BY <1>1, <1>2 DEF Answered
  <2>6. Taken(c) => Taken(c)'
    BY <1>1, <1>2 DEF Taken
  <2>7. Taken(c)' => Taken(c)
    <3> SUFFICES ASSUME Taken(c)' PROVE Taken(c)
      OBVIOUS
    <3>1. Asked(queue[c])
      BY <1>1 DEF Taken
    <3>2. state[c] = "waiting"
      <4> SUFFICES ASSUME state[c] = "free" PROVE FALSE
        BY <1>1
      <4>1. Filters(queue[c])
        BY <1>6, FreeIsIdle DEF Idle
      <4> QED BY <1>0, <3>1, <4>1, AskedLast DEF TypeOK
    <3> QED BY <1>1, <3>2 DEF Taken
  <2> QED BY <1>1, <2>1, <2>2, <2>3, <2>4, <2>5, <2>6, <2>7 DEF Phase
<1> QED
  BY <1>1, <1>3, <1>4, <1>5, <1>6, ClientStep DEF loop

\* The answer a script waits for, connected or told that it is not, is one to its queue.
LEMMA AnswerWaits ==
  ASSUME SessionInv, NEW c \in Clients, state[c] = "waiting", reply[c] # << >>,
         c \in sockets \/ ~SomeDead
  PROVE /\ Len(reply[c]) = 1 /\ Asked(queue[c]) /\ Answers(queue[c], reply[c][1].status)
        /\ c \in sockets => Answered(c)
        /\ c \notin sockets => Last(queue[c]) = "close"
<1>1. CASE c \in sockets
  <2>1. Phase(c)
    BY <1>1 DEF SessionInv
  <2>2. Answered(c)
    BY <2>1 DEF Phase, Idle, Requested, Taken, Pending
  <2> QED BY <1>1, <2>2 DEF Answered
<1>2. CASE c \notin sockets
  BY <1>2 DEF SessionInv, Parted
<1> QED
  BY <1>1, <1>2

\* What a client reads keeps the types.
LEMMA ReadTyped ==
  ASSUME TypeOK, NEW c \in Clients, ReadAnswer(c)
  PROVE /\ TypeOK' /\ reply' = [reply EXCEPT ![c] = Tail(@)]
        /\ UNCHANGED <<request, sockets, target, until, turn, input, output, doClose, now,
                       vehicle, subs, cache, lastContext>>
        /\ \E x \in {"free", "closed", "fatal"} : state' = [state EXCEPT ![c] = x]
        /\ Head(reply[c]) \in Messages
        /\ \A d \in Clients \ {c} : Same(d)
<1>1. /\ state[c] = "waiting" /\ reply[c] # << >> /\ reply' = [reply EXCEPT ![c] = Tail(@)]
      /\ Accept(c) \/ Fail(c) \/ Mismatch(c)
      /\ UNCHANGED <<request, sockets, target, until, turn, input, output, doClose, now,
                     vehicle, subs, cache, lastContext>>
  BY DEF ReadAnswer, loop, world
<1>2. reply[c] \in Seq(Messages)
  BY DEF TypeOK
<1>3. Head(reply[c]) \in Messages /\ Tail(reply[c]) \in Seq(Messages)
  BY <1>1, <1>2, HeadTailProperties
<1>4. reply' \in [Clients -> Seq(Messages)]
  BY <1>1, <1>3 DEF TypeOK
<1>5. \E x \in {"free", "closed", "fatal"} : state' = [state EXCEPT ![c] = x]
  BY <1>1 DEF Accept, Fail, Mismatch
<1>6. state' \in [Clients -> {"free", "waiting", "closed", "fatal", "dead"}]
  BY <1>5 DEF TypeOK
<1>7. armed' \in [Clients -> BOOLEAN]
  <2>1. armed' = armed \/ armed' = [armed EXCEPT ![c] = FALSE]
    BY <1>1 DEF Accept, Fail, Mismatch
  <2> QED BY <2>1 DEF TypeOK
<1>8. queue' = queue \/ queue' = [queue EXCEPT ![c] = << >>]
  BY <1>1 DEF Accept, Fail, Mismatch
<1>9. string' = string \/ string' = [string EXCEPT ![c] = << >>]
  BY <1>1 DEF Accept, Fail, Mismatch
<1>10. queue' \in [Clients -> Seq(Names)] /\ string' \in [Clients -> Seq(Commands)]
  <2>1. << >> \in Seq(Names) /\ << >> \in Seq(Commands)
    OBVIOUS
  <2> QED BY <1>8, <1>9, <2>1 DEF TypeOK
<1>11. \E r \in SUBSET Values : results' = [results EXCEPT ![c] = r]
  <2>1. results[c] \in SUBSET Values /\ results = [results EXCEPT ![c] = results[c]]
    BY DEF TypeOK
  <2>2. CASE Accept(c)
    <3>1. results' = [results EXCEPT ![c] =
                        ReadResults(results[c], Last(queue[c]), Head(reply[c]).values)]
      BY <2>2 DEF Accept
    <3>2. Head(reply[c]).values \in SUBSET Values
      BY <1>3 DEF Messages
    <3>3. ReadResults(results[c], Last(queue[c]), Head(reply[c]).values) \in SUBSET Values
      BY <2>1, <3>2 DEF ReadResults
    <3> QED BY <3>1, <3>3
  <2>3. CASE Fail(c) \/ Mismatch(c)
    BY <2>1, <2>3 DEF Fail, Mismatch
  <2> QED BY <1>1, <2>2, <2>3
<1>12. results' \in [Clients -> SUBSET Values]
  BY <1>11 DEF TypeOK
<1>13. TypeOK'
  BY <1>1, <1>4, <1>6, <1>7, <1>10, <1>12 DEF TypeOK
<1>14. \A d \in Clients \ {c} : Same(d)
  BY <1>1, <1>5, <1>8, <1>9, <1>11 DEF Same, TypeOK
<1> QED
  BY <1>1, <1>3, <1>5, <1>13, <1>14

\* A script that reads its answer is free again, or gone when the connection was closed.
LEMMA ReadKeeps ==
  ASSUME SessionInv, NEW c \in Clients, ReadAnswer(c)
  PROVE SessionInv'
<1>0. TypeOK
  BY DEF SessionInv
<1>1. /\ TypeOK' /\ reply' = [reply EXCEPT ![c] = Tail(@)]
      /\ UNCHANGED <<request, sockets, target, until, turn, input, output, doClose, now,
                     vehicle, subs, cache, lastContext>>
      /\ \E x \in {"free", "closed", "fatal"} : state' = [state EXCEPT ![c] = x]
      /\ Head(reply[c]) \in Messages
      /\ \A d \in Clients \ {c} : Same(d)
  BY <1>0, ReadTyped
<1>2. state[c] = "waiting" /\ reply[c] # << >> /\ (Accept(c) \/ Fail(c) \/ Mismatch(c))
  BY DEF ReadAnswer
<1>3. PICK m \in Messages : m = Head(reply[c])
  BY <1>1
<1>4. PICK q \in Seq(Names) : q = queue[c]
  BY <1>0 DEF TypeOK
<1>5. m.status \in Seq(Statuses)
  BY DEF Messages, Statuses
<1>6. ASSUME c \in sockets \/ ~SomeDead
      PROVE /\ Accept(c) \/ (Fail(c) /\ Refused(q, m.status) # {})
            /\ m = reply[c][1] /\ reply'[c] = << >>
            /\ Last(q) \in {"step", "close"} => Refused(q, m.status) = {}
  <2>1. Len(reply[c]) = 1 /\ Asked(q) /\ Answers(q, reply[c][1].status)
    BY <1>2, <1>4, <1>6, AnswerWaits
  <2>2. m = reply[c][1]
    BY <1>3
  <2>3. /\ Refused(q, m.status) # {} =>
             Min(Refused(q, m.status)) <= Len(m.status)
               /\ ~m.status[Min(Refused(q, m.status))].ok
        /\ Last(q) \in {"step", "close"} => Refused(q, m.status) = {}
    BY <1>5, <2>1, <2>2, AnswerRead
  <2>4. ~Mismatch(c)
    BY <1>3, <1>4, <2>3 DEF Mismatch
  <2>5. Fail(c) => Refused(q, m.status) # {}
    BY <1>3, <1>4 DEF Fail
  <2>6. reply'[c] = << >>
    <3>1. reply[c] \in Seq(Messages) /\ reply'[c] = Tail(reply[c])
      BY <1>0, <1>1 DEF TypeOK
    <3> DEFINE t == Tail(reply[c])
    <3>2. t \in Seq(Messages) /\ Len(t) = 0
      BY <1>2, <2>1, <3>1, HeadTailProperties
    <3> HIDE DEF t
    <3>3. t = << >>
      BY <3>2
    <3> QED BY <3>1, <3>3 DEF t
  <2> QED BY <1>2, <2>1, <2>2, <2>3, <2>4, <2>5, <2>6
<1>7. ASSUME c \in sockets
      PROVE Phase(c)' /\ (Taken(c)' <=> Taken(c)) /\ (Taken(c) => queue'[c] = queue[c])
  <2>1. Answered(c)
    BY <1>2, <1>7, AnswerWaits
  <2>2. /\ target[c] <= now /\ request[c] = << >> /\ Last(q) # "close"
        /\ From(m.values, now) /\ (Last(q) # "step" => From(results[c], now))
    BY <1>4, <1>6, <1>7, <2>1 DEF Answered
  <2>3. state'[c] = "free" /\ queue'[c] = << >> /\ string'[c] = << >> /\ From(results'[c], now)
    <3>1. CASE Accept(c)
      <4>1. state' = [state EXCEPT ![c] = "free"] /\ queue' = [queue EXCEPT ![c] = << >>]
            /\ string' = [string EXCEPT ![c] = << >>]
            /\ results' = [results EXCEPT ![c] = ReadResults(@, Last(q), m.values)]
        BY <1>3, <1>4, <2>2, <3>1 DEF Accept
      <4>2. From(ReadResults(results[c], Last(q), m.values), now)
        BY <2>2 DEF ReadResults, From
      <4> QED BY <1>0, <4>1, <4>2 DEF TypeOK
    <3>2. CASE Fail(c) /\ Refused(q, m.status) # {}
      <4>1. state' = [state EXCEPT ![c] = "free"] /\ queue' = [queue EXCEPT ![c] = << >>]
            /\ string' = [string EXCEPT ![c] = << >>] /\ results' = results
        BY <3>2 DEF Fail
      <4>2. Last(q) # "step"
        BY <1>6, <1>7, <3>2
      <4> QED BY <1>0, <2>2, <4>1, <4>2 DEF TypeOK
    <3> QED BY <1>6, <1>7, <3>1, <3>2
  <2>4. Filters(<< >>) /\ Named(<< >>, << >>)
    BY DEF Filters, Named
  <2>5. Idle(c)'
    BY <1>1, <1>6, <1>7, <2>2, <2>3, <2>4 DEF Idle
  <2>6. ~Taken(c)' /\ ~Taken(c)
    BY <1>2, <2>3 DEF Taken
  <2> QED BY <2>5, <2>6 DEF Phase
<1>8. SomeDead => SomeDead'
  BY <1>0, <1>1, <1>2, DeadStays
<1>9. ASSUME c \notin sockets, ~SomeDead PROVE Parted(c)'
  <2>1. Last(q) = "close"
    BY <1>2, <1>4, <1>9, AnswerWaits
  <2>2. Accept(c)
    BY <1>6, <1>9, <2>1
  <2>3. state' = [state EXCEPT ![c] = "closed"]
    BY <1>4, <2>1, <2>2 DEF Accept
  <2>4. state'[c] = "closed"
    BY <1>0, <2>3 DEF TypeOK
  <2> QED BY <2>4 DEF Parted
<1> QED
  BY <1>1, <1>7, <1>8, <1>9, ClientStep DEF loop

\* The connection of a waiting script is lost only after another script has ended early.
LEMMA LoseServerKeeps ==
  ASSUME SessionInv, NEW c \in Clients, LoseServer(c)
  PROVE SessionInv'
<1>0. TypeOK
  BY DEF SessionInv
<1>1. /\ state[c] = "waiting" /\ reply[c] = << >> /\ c \notin sockets
      /\ state' = [state EXCEPT ![c] = "fatal"]
      /\ UNCHANGED <<queue, string, results, armed, request, reply, sockets, target, until, turn,
                     input, output, doClose, now, vehicle, subs, cache, lastContext>>
  BY DEF LoseServer, channels, loop, world
<1>2. TypeOK'
  BY <1>0, <1>1 DEF TypeOK
<1>3. \A d \in Clients \ {c} : Same(d)
  BY <1>0, <1>1 DEF Same, TypeOK
<1>4. SomeDead
  BY <1>1 DEF SessionInv, Parted
<1>5. SomeDead'
  BY <1>0, <1>1, <1>4, DeadStays
<1> QED
  BY <1>1, <1>2, <1>3, <1>5, ClientStep DEF loop

-----------------------------------------------------------------------------
(* The server.                                                             *)

\* A step in the turn of a client that leaves the turn with it.
LEMMA ServerStep ==
  ASSUME SessionInv, NEW c \in sockets, c = turn, TypeOK',
         UNCHANGED <<sockets, target, until, turn, now, state, queue>>,
         \A d \in Clients \ {c} : Same(d),
         Phase(c)', UpToDate', output'.status = << >> => output' = Empty,
         Taken(c)' /\ ~doClose' => ServesNow(c)', doClose' => input' # << >>,
         ~Taken(c)' => Quiet'
  PROVE SessionInv'
<1>1. sockets \subseteq Clients /\ c \in Clients /\ turn # 0
  <2>1. sockets \subseteq Clients
    BY DEF SessionInv, TypeOK
  <2> QED BY <2>1, SessionAssumption DEF Clients
<1>2. \A d \in Clients \ {c} : (Phase(d)' <=> Phase(d)) /\ (Taken(d)' <=> Taken(d))
                                 /\ (Parted(d)' <=> Parted(d))
  <2> TAKE d \in Clients \ {c}
  <2>1. Same(d) /\ d \in Clients
    OBVIOUS
  <2> QED BY <2>1, SamePhase
<1>3. AllAsked' /\ OnTime'
  BY <1>1 DEF SessionInv, AllAsked, OnTime
<1>4. \A d \in sockets' : Phase(d)'
  BY <1>1, <1>2 DEF SessionInv
<1>5. \A d \in Clients \ sockets' : (Parted(d) \/ SomeDead)'
  <2>1. SomeDead => SomeDead'
    BY <1>1, DeadServed
  <2> QED BY <1>2, <2>1 DEF SessionInv
<1>6. Serving'
  <2>1. \A d \in sockets' : Taken(d)' =>
          turn' = d /\ (~doClose' => ServesNow(d)')
    BY <1>1, <1>2 DEF SessionInv, Serving
  <2>2. (turn' = 0 /\ ~doClose') \/ (turn' # 0 /\ ~Taken(turn)') => Quiet'
    <3>1. Taken(turn)' = Taken(c)'
      BY DEF Taken
    <3> QED BY <1>1, <3>1
  <2> QED BY <2>1, <2>2 DEF Serving
<1> QED
  BY <1>3, <1>4, <1>5, <1>6 DEF SessionInv

\* When the storages are not empty, they belong to the client whose commands were taken.
LEMMA BusyIsTaken ==
  ASSUME SessionInv, turn # 0, ~Quiet
  PROVE turn \in sockets /\ Taken(turn)
  BY DEF SessionInv, Serving, TypeOK

\* The answer to all commands of a message is sent.
LEMMA RespondKeeps ==
  ASSUME SessionInv, Respond
  PROVE SessionInv'
<1>0. TypeOK
  BY DEF SessionInv
<1>1. /\ turn # 0 /\ input = << >> /\ output # Empty
      /\ reply' = [reply EXCEPT ![turn] = Append(@, output)] /\ output' = Empty
      /\ UNCHANGED <<state, queue, string, results, armed, request, sockets, target, until, turn,
                     input, doClose, now, vehicle, subs, cache, lastContext>>
  BY DEF Respond, scripts, world
<1>2. PICK c \in sockets : c = turn
  BY <1>1, BusyIsTaken DEF Quiet
<1>3. Taken(c)
  BY <1>1, <1>2, BusyIsTaken DEF Quiet, Taken
<1>4. c \in Clients /\ queue[c] \in Seq(Names) /\ output \in Messages /\ reply[c] = << >>
  BY <1>0, <1>2, <1>3 DEF TypeOK, Taken
<1>5. PICK q \in Seq(Names) : q = queue[c]
  BY <1>4
<1>6. PICK st \in Seq(Statuses) : st = output.status
  BY <1>4 DEF Messages, Statuses
<1>7. ~doClose
  BY <1>1 DEF SessionInv, Serving
<1>8. Serves(q, st, << >>) /\ Last(q) \notin {"step", "close"}
  BY <1>1, <1>2, <1>3, <1>5, <1>6, <1>7 DEF SessionInv, Serving, ServesNow
<1>9. Asked(q) /\ Answers(q, st)
  <2>1. Asked(q)
    BY <1>3, <1>5 DEF Taken
  <2> QED BY <1>8, <2>1, ServesNone
<1>10. reply' = [reply EXCEPT ![c] = Append(@, output)]
  BY <1>1, <1>2
<1>11. reply'[c] = <<output>> /\ reply' \in [Clients -> Seq(Messages)]
  BY <1>0, <1>4, <1>10 DEF TypeOK
<1>12. Empty \in Messages
  <2>1. << >> \in Seq([cmd : Names, ok : BOOLEAN])
    OBVIOUS
  <2> QED BY <2>1 DEF Messages, Empty
<1>13. TypeOK'
  BY <1>0, <1>1, <1>11, <1>12 DEF TypeOK
<1>14. \A d \in Clients \ {c} : Same(d)
  BY <1>0, <1>1, <1>10 DEF Same, TypeOK
<1>15. Answered(c)'
  <2>1. Len(reply'[c]) = 1 /\ reply'[c][1] = output
    BY <1>11
  <2>2. From(output.values, now)
    BY DEF SessionInv, UpToDate
  <2> QED BY <1>1, <1>3, <1>5, <1>6, <1>8, <1>9, <2>1, <2>2 DEF Answered, Taken
<1>16. ~Taken(c)'
  BY <1>11 DEF Taken
<1>17. Quiet' /\ UpToDate'
  BY <1>1 DEF Quiet, SessionInv, UpToDate, Empty, From
<1> QED
  BY <1>1, <1>2, <1>7, <1>13, <1>14, <1>15, <1>16, <1>17, ServerStep DEF Phase

\* A message of commands is taken.
LEMMA ReceiveKeeps ==
  ASSUME SessionInv, Receive
  PROVE SessionInv'
<1>0. TypeOK
  BY DEF SessionInv
<1>1. /\ turn # 0 /\ input = << >> /\ output = Empty /\ request[turn] # << >>
      /\ input' = request[turn] /\ request' = [request EXCEPT ![turn] = << >>]
      /\ UNCHANGED <<state, queue, string, results, armed, reply, sockets, target, until, turn,
                     output, doClose, now, vehicle, subs, cache, lastContext>>
  BY DEF Receive, scripts, world
<1>2. PICK c \in sockets : c = turn
  BY <1>0, <1>1 DEF TypeOK
<1>3. c \in Clients /\ request' = [request EXCEPT ![c] = << >>] /\ input' = request[c]
      /\ request[c] # << >>
  BY <1>0, <1>1, <1>2 DEF TypeOK
<1>4. Requested(c)
  <2>1. Phase(c)
    BY <1>2 DEF SessionInv
  <2> QED BY <1>3, <2>1 DEF Phase, Idle, Taken, Pending, Answered
<1>5. PICK q \in Seq(Names) : q = queue[c]
  BY <1>0, <1>3 DEF TypeOK
<1>6. PICK s \in Seq(Commands) : s = string[c]
  BY <1>0, <1>3 DEF TypeOK
<1>7. /\ Named(q, s) /\ Asked(q) /\ input' = s
  BY <1>3, <1>4, <1>5, <1>6 DEF Requested
<1>8. Serves(q, << >>, s)
  BY <1>7, ServesAll
<1>9. request'[c] = << >> /\ request' \in [Clients -> Seq(Commands)]
      /\ input' \in Seq(Commands)
  <2>1. << >> \in Seq(Commands)
    OBVIOUS
  <2> QED BY <1>0, <1>3, <1>7, <2>1 DEF TypeOK
<1>10. TypeOK'
  BY <1>0, <1>1, <1>9 DEF TypeOK
<1>11. \A d \in Clients \ {c} : Same(d)
  BY <1>0, <1>1, <1>3 DEF Same, TypeOK
<1>12. Taken(c)'
  BY <1>1, <1>4, <1>9 DEF Taken, Requested
<1>13. ServesNow(c)' /\ input' # << >>
  BY <1>1, <1>3, <1>5, <1>7, <1>8 DEF ServesNow, Empty
<1>14. UpToDate' /\ (output'.status = << >> => output' = Empty)
  BY <1>1 DEF SessionInv, UpToDate
<1> QED
  BY <1>1, <1>2, <1>10, <1>11, <1>12, <1>13, <1>14, ServerStep DEF Phase

\* The end of a script that has the turn ends the simulation.
LEMMA LoseClientKeeps ==
  ASSUME SessionInv, LoseClient
  PROVE SessionInv'
<1>0. TypeOK
  BY DEF SessionInv
<1>1. /\ turn # 0 /\ input = << >> /\ output = Empty
      /\ state[turn] \in {"dead", "fatal"} /\ sockets' = {} /\ turn' = 0 /\ doClose' = TRUE
      /\ UNCHANGED <<state, queue, string, results, armed, request, reply, target, until, input,
                     output, now, vehicle, subs, cache, lastContext>>
  BY DEF LoseClient, EndServer, scripts, channels, world
<1>2. turn \in sockets /\ turn \in Clients
  BY <1>0, <1>1 DEF TypeOK
<1>3. Phase(turn)
  BY <1>2 DEF SessionInv
<1>4. state[turn] = "dead"
  BY <1>1, <1>3 DEF Phase, Idle, Requested, Taken, Pending, Answered
<1>5. SomeDead'
  BY <1>1, <1>2, <1>4 DEF SomeDead
<1>6. TypeOK'
  BY <1>0, <1>1 DEF TypeOK
<1>7. AllAsked' /\ OnTime' /\ UpToDate'
  BY <1>1 DEF SessionInv, AllAsked, OnTime, UpToDate
<1>8. Serving'
  BY <1>1 DEF SessionInv, Serving, Quiet
<1> QED
  BY <1>1, <1>5, <1>6, <1>7, <1>8 DEF SessionInv

\* A status composed by the server keeps the output a message.
LEMMA Composed ==
  ASSUME TypeOK, NEW n \in Names, NEW b \in BOOLEAN
  PROVE /\ Status(n, b) \in Seq(Statuses)
        /\ [output EXCEPT !.status = Status(n, b)] \in Messages
        /\ [output EXCEPT !.status = Status(n, b)].status = Status(n, b)
        /\ [output EXCEPT !.status = Status(n, b)].values = output.values
<1>1. [cmd |-> n, ok |-> b] \in Statuses
  BY DEF Statuses
<1>2. output \in Messages
  BY DEF TypeOK
<1>3. output.status \in Seq(Statuses)
  BY <1>2 DEF Messages, Statuses
<1>4. Status(n, b) \in Seq(Statuses)
  BY <1>1, <1>3 DEF Status
<1> DEFINE x == Status(n, b)
<1>5. x \in Seq(Statuses)
  BY <1>4
<1> HIDE DEF x
<1>6. [output EXCEPT !.status = x] \in Messages
  BY <1>2, <1>5 DEF Messages, Statuses
<1>7. [output EXCEPT !.status = x].status = x /\ [output EXCEPT !.status = x].values = output.values
  BY <1>2 DEF Messages
<1> QED
  BY <1>4, <1>6, <1>7 DEF x

\* A command for the vehicle fails when it has left, a filter has a subscription to filter, and
\* values are from this time step.
LEMMA DispatchAnswers ==
  ASSUME TypeOK, UpToDate,
         DispatchGet \/ DispatchRemove \/ SubscribeAnswers \/ DispatchFilter
  PROVE \E b \in BOOLEAN :
          /\ output'.status = Status(Head(input).cmd, b)
          /\ DispatchFilter => b = lastContext
          /\ output' \in Messages /\ From(output'.values, now)
          /\ subs' \in SUBSET Subs /\ cache' \in SUBSET Values /\ From(cache', now)
          /\ lastContext' \in BOOLEAN /\ vehicle' \in BOOLEAN
<1>1. vehicle \in BOOLEAN /\ lastContext \in BOOLEAN /\ subs \in SUBSET Subs
      /\ cache \in SUBSET Values /\ now \in Times /\ input \in Seq(Commands)
      /\ output \in Messages
  BY DEF TypeOK
<1>2. From(cache, now) /\ From(output.values, now)
  BY DEF UpToDate
<1>3. {"get", "remove", "subscribe", "filter"} \subseteq Names
  BY DEF Names
<1>4. CASE DispatchGet
  <2>1. output' = [output EXCEPT !.status = Status("get", vehicle)] /\ Head(input).cmd = "get"
        /\ UNCHANGED <<subs, cache, lastContext, vehicle>>
    BY <1>4 DEF DispatchGet, Dispatch, world
  <2>2. ~DispatchFilter
    BY <2>1 DEF DispatchFilter, Dispatch
  <2>3. output' \in Messages /\ output'.status = Status("get", vehicle)
        /\ output'.values = output.values
    BY <1>1, <1>3, <2>1, Composed
  <2> QED BY <1>1, <1>2, <2>1, <2>2, <2>3
<1>5. CASE DispatchFilter
  <2>1. output' = [output EXCEPT !.status = Status("filter", lastContext)]
        /\ Head(input).cmd = "filter" /\ UNCHANGED <<subs, cache, lastContext, vehicle>>
    BY <1>5 DEF DispatchFilter, Dispatch, world
  <2>2. output' \in Messages /\ output'.status = Status("filter", lastContext)
        /\ output'.values = output.values
    BY <1>1, <1>3, <2>1, Composed
  <2> QED BY <1>1, <1>2, <2>1, <2>2
<1>6. CASE SubscribeAnswers
  <2>0. DispatchSubscribe
    BY <1>6 DEF SubscribeAnswers
  <2>1. Head(input).cmd = "subscribe" /\ input # << >> /\ vehicle' = vehicle
    BY <2>0, SubscribeParts
  <2>2. ~DispatchFilter
    BY <2>1 DEF DispatchFilter, Dispatch
  <2>3. Head(input) \in Commands
    BY <1>1, <2>1, HeadTailProperties
  <2>4. Head(input).of \in Subs
    BY <2>1, <2>3, CommandParts
  <2>5. CASE vehicle
    <3> DEFINE k == Head(input).of
               value == [of |-> k, time |-> now]
    <3>1. /\ output' = [status |-> Status("subscribe", TRUE),
                        values |-> output.values \cup {value}]
          /\ subs' = subs \cup {k} /\ cache' \in {cache, cache \cup {value}}
          /\ lastContext' = (k = "context")
      BY <2>0, <2>5 DEF DispatchSubscribe, Raises
    <3>2. value \in Values /\ value.time = now
      BY <1>1, <2>4 DEF Values
    <3>3. k \in Subs
      BY <2>4
    <3> HIDE DEF k, value
    <3>4. Status("subscribe", TRUE) \in Seq(Statuses)
      BY <1>3, Composed
    <3>5. output.values \cup {value} \in SUBSET Values
      BY <1>1, <3>2 DEF Messages
    <3>6. output' \in Messages
      BY <3>1, <3>4, <3>5 DEF Messages, Statuses
    <3>7. From(output'.values, now) /\ From(cache', now) /\ cache' \in SUBSET Values
      BY <1>1, <1>2, <3>1, <3>2 DEF From
    <3>8. subs' \in SUBSET Subs /\ lastContext' \in BOOLEAN
      BY <1>1, <3>1, <3>3
    <3>9. output'.status = Status(Head(input).cmd, TRUE)
      BY <2>1, <3>1
    <3> QED BY <1>1, <2>1, <2>2, <3>6, <3>7, <3>8, <3>9
  <2>6. CASE ~vehicle
    <3>1. output' = [output EXCEPT !.status = Status("subscribe", FALSE)]
          /\ UNCHANGED <<subs, cache, lastContext>>
      BY <1>6, <2>6 DEF SubscribeAnswers, DispatchSubscribe, Raises
    <3>2. output' \in Messages /\ output'.status = Status("subscribe", FALSE)
          /\ output'.values = output.values
      BY <1>1, <1>3, <3>1, Composed
    <3> QED BY <1>1, <1>2, <2>1, <2>2, <3>1, <3>2
  <2> QED BY <1>1, <2>5, <2>6
<1>7. CASE DispatchRemove
  <2>1. output' = [output EXCEPT !.status = Status("remove", vehicle)]
        /\ Head(input).cmd = "remove" /\ vehicle' = FALSE /\ UNCHANGED <<subs, cache, lastContext>>
    BY <1>7 DEF DispatchRemove, Dispatch
  <2>2. ~DispatchFilter
    BY <2>1 DEF DispatchFilter, Dispatch
  <2>3. output' \in Messages /\ output'.status = Status("remove", vehicle)
        /\ output'.values = output.values
    BY <1>1, <1>3, <2>1, Composed
  <2> QED BY <1>1, <1>2, <2>1, <2>2, <2>3
<1> QED
  BY <1>4, <1>5, <1>6, <1>7

\* An output with a status is not empty.
LEMMA StatusNotEmpty ==
  ASSUME TypeOK, NEW n \in Names, NEW b \in BOOLEAN
  PROVE Status(n, b) # << >>
<1>1. output.status \in Seq(Statuses) /\ [cmd |-> n, ok |-> b] \in Statuses
  BY DEF TypeOK, Messages, Statuses
<1> QED
  BY <1>1 DEF Status

\* The server answers a command and keeps the turn with the client.
LEMMA DispatchKeeps ==
  ASSUME SessionInv, DispatchGet \/ DispatchRemove \/ SubscribeAnswers \/ DispatchFilter
  PROVE SessionInv'
<1>0. TypeOK /\ UpToDate
  BY DEF SessionInv
<1>1. /\ turn # 0 /\ ~doClose /\ input # << >> /\ input' \in {input, Tail(input)}
      /\ Head(input).cmd \in {"get", "remove", "subscribe", "filter"}
      /\ ~doClose' => input' = Tail(input) /\ (Head(input).cmd = "filter" => lastContext)
      /\ doClose' \in BOOLEAN /\ (doClose' => input' = input)
      /\ UNCHANGED <<state, queue, string, results, armed, request, reply, sockets, target, until,
                     turn, now>>
  <2>1. lastContext \in BOOLEAN
    BY <1>0 DEF TypeOK
  <2>2. CASE DispatchGet \/ DispatchRemove \/ SubscribeAnswers
    <3>1. /\ turn # 0 /\ ~doClose /\ input # << >> /\ input' = Tail(input)
          /\ Head(input).cmd \in {"get", "remove", "subscribe"}
      BY <2>2, SubscribeParts DEF DispatchGet, DispatchRemove, SubscribeAnswers, Dispatch
    <3>2. UNCHANGED <<state, queue, string, results, armed, request, reply, sockets, target, until,
                      turn, now, doClose>>
      <4>1. CASE DispatchGet \/ DispatchRemove
        BY <4>1 DEF DispatchGet, DispatchRemove, scripts, channels, world
      <4>2. CASE SubscribeAnswers
        BY <4>2, SubscribeParts DEF SubscribeAnswers, scripts, channels
      <4> QED BY <2>2, <4>1, <4>2
    <3>3. doClose \in BOOLEAN
      BY <1>0 DEF TypeOK
    <3> QED BY <3>1, <3>2, <3>3
  <2>3. CASE DispatchFilter
    BY <2>1, <2>3 DEF DispatchFilter, Dispatch, scripts, channels, world
  <2> QED BY <2>2, <2>3
<1>2. PICK c \in sockets : c = turn
  BY <1>1, BusyIsTaken DEF Quiet
<1>3. Taken(c)
  BY <1>1, <1>2, BusyIsTaken DEF Quiet, Taken
<1>4. c \in Clients /\ output \in Messages
  BY <1>0, <1>2 DEF TypeOK
<1>5. PICK q \in Seq(Names) : q = queue[c]
  BY <1>0, <1>4 DEF TypeOK
<1>6. PICK st \in Seq(Statuses) : st = output.status
  BY <1>4 DEF Messages, Statuses
<1>7. PICK s \in Seq(Commands) : s = input
  BY <1>0 DEF TypeOK
<1>8. PICK n \in Names : n = Head(s).cmd
  BY <1>1, <1>7, HeadTailProperties, CommandParts
<1>9. Serves(q, st, s) /\ Asked(q)
  BY <1>1, <1>2, <1>3, <1>5, <1>6, <1>7 DEF SessionInv, Serving, ServesNow, Taken
<1>10. PICK b \in BOOLEAN :
         /\ output'.status = Status(n, b) /\ (DispatchFilter => b = lastContext)
         /\ output' \in Messages /\ From(output'.values, now)
         /\ subs' \in SUBSET Subs /\ cache' \in SUBSET Values /\ From(cache', now)
         /\ lastContext' \in BOOLEAN /\ vehicle' \in BOOLEAN
  BY <1>0, <1>7, <1>8, DispatchAnswers
<1>11. output'.status = Append(st, [cmd |-> n, ok |-> b])
  BY <1>6, <1>10 DEF Status
<1>12. Tail(s) \in Seq(Commands)
  BY <1>1, <1>7, HeadTailProperties
<1>13. input' \in Seq(Commands)
  BY <1>1, <1>7, <1>12
<1>14. TypeOK'
  BY <1>0, <1>1, <1>10, <1>13 DEF TypeOK
<1>15. \A d \in Clients : Same(d)
  BY <1>1 DEF Same
<1>16. Taken(c)' /\ Phase(c)'
  <2>1. Taken(c)'
    BY <1>1, <1>3 DEF Taken
  <2> QED BY <2>1 DEF Phase
<1>17. ASSUME ~doClose' PROVE ServesNow(c)'
  <2>1. input' = Tail(s) /\ (n = "filter" => b)
    <3>1. n = "filter" => DispatchFilter
      BY <1>7, <1>8, SubscribeParts DEF DispatchGet, DispatchRemove, SubscribeAnswers, Dispatch
    <3> QED BY <1>1, <1>7, <1>8, <1>10, <1>17, <3>1
  <2>2. Serves(q, Append(st, [cmd |-> n, ok |-> b]), Tail(s))
    BY <1>1, <1>7, <1>8, <1>9, <2>1, ServesNext
  <2>3. Tail(s) = << >> => Last(q) = n
    BY <1>1, <1>7, <1>8, <1>9, ServesOne
  <2>4. n \notin {"step", "close"}
    BY <1>1, <1>7, <1>8
  <2>5. queue'[c] = q
    BY <1>1, <1>5
  <2> QED BY <1>11, <2>1, <2>2, <2>3, <2>4, <2>5 DEF ServesNow
<1>18. UpToDate'
  BY <1>1, <1>10 DEF UpToDate
<1>19. output'.status # << >>
  BY <1>0, <1>10, StatusNotEmpty
<1>20. doClose' => input' # << >>
  BY <1>1
<1> QED
  BY <1>1, <1>2, <1>14, <1>15, <1>16, <1>17, <1>18, <1>19, <1>20, ServerStep

\* When the turn is handed on, nobody's commands are taken any more.
LEMMA HandStep ==
  ASSUME SessionInv, NEW c \in sockets, c = turn, TypeOK', AllAsked', OnTime',
         \A d \in Clients \ {c} : Same(d), UNCHANGED <<now, cache>>, Quiet', ~Taken(c)',
         sockets' = sockets \/ sockets' = sockets \ {c},
         c \in sockets' => Phase(c)', c \notin sockets' => Parted(c)' \/ SomeDead',
         doClose' => turn' = 0, SomeDead => SomeDead'
  PROVE SessionInv'
<1>1. sockets \subseteq Clients /\ turn' \in sockets' \cup {0}
  BY DEF SessionInv, TypeOK
<1>2. \A d \in Clients \ {c} : (Phase(d)' <=> Phase(d)) /\ (Taken(d)' <=> Taken(d))
                                 /\ (Parted(d)' <=> Parted(d))
  <2> TAKE d \in Clients \ {c}
  <2>1. Same(d) /\ d \in Clients
    OBVIOUS
  <2> QED BY <2>1, SamePhase
<1>3. \A d \in sockets' : Phase(d)'
  BY <1>1, <1>2 DEF SessionInv
<1>4. \A d \in Clients \ sockets' : (Parted(d) \/ SomeDead)'
  BY <1>2 DEF SessionInv
<1>5. \A d \in sockets' : ~Taken(d)'
  BY <1>1, <1>2 DEF SessionInv, Serving
<1>6. output'.status = << >> => output' = Empty
  BY DEF Quiet
<1>7. Serving'
  BY <1>5, <1>6 DEF Serving
<1>8. UpToDate'
  BY DEF SessionInv, UpToDate, Quiet, Empty, From
<1> QED
  BY <1>3, <1>4, <1>7, <1>8 DEF SessionInv

\* An answer to the last command is a message.
LEMMA LastAnswer ==
  ASSUME TypeOK, NEW n \in Names, NEW r \in SUBSET Values
  PROVE [status |-> Status(n, TRUE), values |-> r] \in Messages
<1>1. Status(n, TRUE) \in Seq(Statuses)
  BY Composed
<1> QED
  BY <1>1 DEF Messages, Statuses

\* Nothing is composed.
LEMMA EmptyMessage == Empty \in Messages
<1>1. << >> \in Seq([cmd : Names, ok : BOOLEAN])
  OBVIOUS
<1> QED
  BY <1>1 DEF Messages, Empty

\* A command that ends the turn is the last of its message.
LEMMA LastDispatched ==
  ASSUME SessionInv, Dispatch("step") \/ Dispatch("close"), NEW n, n = Head(input).cmd
  PROVE \E c \in sockets, q \in Seq(Names) :
          /\ c = turn /\ c \in Clients /\ Taken(c) /\ q = queue[c] /\ Tail(input) = << >>
          /\ Asked(q) /\ Last(q) = n /\ n \in Names /\ Answers(q, Status(n, TRUE))
          /\ n = "step" => q = <<"step">> /\ output = Empty
<1>1. /\ turn # 0 /\ ~doClose /\ input # << >> /\ n \in {"step", "close"} /\ TypeOK
  BY DEF Dispatch, SessionInv
<1>2. PICK c \in sockets : c = turn
  BY <1>1, BusyIsTaken DEF Quiet
<1>3. Taken(c)
  BY <1>1, <1>2, BusyIsTaken DEF Quiet, Taken
<1>4. c \in Clients /\ output \in Messages
  BY <1>1, <1>2 DEF TypeOK
<1>5. PICK q \in Seq(Names) : q = queue[c]
  BY <1>1, <1>4 DEF TypeOK
<1>6. PICK st \in Seq(Statuses) : st = output.status
  BY <1>4 DEF Messages, Statuses
<1>7. PICK s \in Seq(Commands) : s = input
  BY <1>1 DEF TypeOK
<1>8. Serves(q, st, s) /\ Asked(q)
  BY <1>1, <1>2, <1>3, <1>5, <1>6, <1>7 DEF SessionInv, Serving, ServesNow, Taken
<1>9. /\ Tail(s) = << >> /\ Last(q) = Head(s).cmd
      /\ Answers(q, Append(st, [cmd |-> Head(s).cmd, ok |-> TRUE]))
      /\ Head(s).cmd = "step" => q = <<"step">> /\ st = << >>
  BY <1>1, <1>7, <1>8, ServesLast
<1>10. Head(s).cmd = n
  BY <1>7
<1>11. Answers(q, Status(n, TRUE))
  BY <1>6, <1>9, <1>10 DEF Status
<1>12. n = "step" => output = Empty
  BY <1>6, <1>9, <1>10 DEF SessionInv, Serving
<1>13. n \in Names
  BY <1>1 DEF Names
<1> QED
  BY <1>2, <1>3, <1>4, <1>5, <1>7, <1>8, <1>9, <1>10, <1>11, <1>12, <1>13

\* A step is asked for: it is answered at once or lies ahead.
LEMMA StepKeeps ==
  ASSUME SessionInv, DispatchStep
  PROVE SessionInv'
<1>0. TypeOK /\ Dispatch("step") /\ Head(input).cmd = "step"
  BY DEF SessionInv, DispatchStep, Dispatch
<1>1. PICK c \in sockets, q \in Seq(Names) :
        /\ c = turn /\ c \in Clients /\ Taken(c) /\ q = queue[c] /\ Tail(input) = << >>
        /\ Asked(q) /\ Last(q) = "step" /\ Answers(q, Status("step", TRUE))
        /\ q = <<"step">> /\ output = Empty
  BY <1>0, LastDispatched
<1>2. /\ target' = [target EXCEPT ![c] = NextTarget(@, Head(input).to)] /\ now' = now
      /\ HandOn(c, sockets, target', until) /\ input' = << >>
      /\ UNCHANGED <<state, queue, string, results, armed, request, sockets, doClose, vehicle,
                     subs, cache, lastContext>>
      /\ turn # 0 /\ ~doClose
  BY <1>1 DEF DispatchStep, Dispatch, scripts
<1>3. Head(input) \in Commands /\ input \in Seq(Commands) /\ input # << >>
  BY <1>0, HeadTailProperties DEF TypeOK, Dispatch
<1>4. Head(input).to \in Times
  BY <1>0, <1>3, CommandParts
<1>5. target[c] <= now /\ now < MaxTime /\ until <= now
  BY <1>1, <1>2 DEF Taken, SessionInv, OnTime
<1>6. NextTarget(target[c], Head(input).to) \in Times
  <2>1. target[c] \in Times /\ now \in Times
    BY <1>0, <1>1 DEF TypeOK
  <2>2. target[c] + 1 \in Times
    BY <1>5, <2>1, SessionAssumption DEF Times
  <2> QED BY <1>4, <2>2 DEF NextTarget
<1>7. target' \in [Clients -> Times] /\ target'[c] \in Times
  BY <1>0, <1>1, <1>2, <1>6 DEF TypeOK
<1>8. /\ turn' \in sockets \cup {0} /\ until' \in Nat
      /\ turn' # 0 => until' <= now' /\ target'[turn'] <= now'
      /\ turn' = 0 => \A d \in sockets : now' < target'[d]
      /\ until' = until \/ \E d \in sockets : until' = target'[d]
  <2>1. Times \subseteq Nat
    BY DEF Times
  <2>2. target' \in [Clients -> Nat] /\ until \in Nat /\ now' \in Nat /\ sockets \subseteq Clients
    BY <1>0, <1>2, <1>7, <2>1 DEF TypeOK
  <2>3. until <= now' /\ c \in Clients /\ HandOn(c, sockets, target', until)
    BY <1>1, <1>2, <1>5
  <2> QED BY <2>2, <2>3, TurnGiven
<1>9. until' \in Times
  BY <1>0, <1>7, <1>8 DEF TypeOK
<1>10. AllAsked' /\ OnTime'
  BY <1>1, <1>2, <1>8 DEF AllAsked, OnTime
<1>11. doClose' => turn' = 0
  BY <1>2
<1>12. SomeDead => SomeDead'
  BY <1>2, DeadServed
<1>13. /\ reply[c] = << >> /\ request[c] = << >> /\ state[c] \in {"waiting", "dead"}
       /\ reply \in [Clients -> Seq(Messages)]
  BY <1>0, <1>1 DEF Taken, TypeOK
<1>14. CASE target'[c] <= now
  <2> DEFINE x == [status |-> Status("step", TRUE), values |-> cache]
  <2>1. reply' = [reply EXCEPT ![c] = Append(@, x)] /\ output' = Empty
    BY <1>1, <1>14 DEF DispatchStep
  <2>2. x \in Messages /\ x.status = Status("step", TRUE) /\ x.values = cache
    BY <1>0, LastAnswer DEF TypeOK, Names
  <2> HIDE DEF x
  <2>3. reply' \in [Clients -> Seq(Messages)] /\ reply'[c] = <<x>>
    BY <1>1, <1>13, <2>1, <2>2
  <2>4. \A d \in Clients \ {c} : Same(d)
    BY <1>0, <1>1, <1>2, <1>13, <2>1 DEF Same, TypeOK
  <2>5. TypeOK'
    <3>1. << >> \in Seq(Commands)
      OBVIOUS
    <3> QED BY <1>0, <1>2, <1>7, <1>8, <1>9, <2>1, <2>3, <3>1, EmptyMessage DEF TypeOK
  <2>6. Answered(c)'
    <3>1. Len(reply'[c]) = 1 /\ reply'[c][1] = x
      BY <2>3
    <3>2. From(cache, now)
      BY DEF SessionInv, UpToDate
    <3> QED BY <1>1, <1>2, <1>13, <1>14, <2>2, <3>1, <3>2 DEF Answered
  <2>7. ~Taken(c)' /\ Quiet'
    BY <1>2, <2>1, <2>3 DEF Taken, Quiet
  <2> QED BY <1>1, <1>2, <1>10, <1>11, <1>12, <2>4, <2>5, <2>6, <2>7, HandStep DEF Phase
<1>15. CASE ~(target'[c] <= now)
  <2>1. UNCHANGED <<reply, output>>
    BY <1>1, <1>15 DEF DispatchStep
  <2>2. \A d \in Clients \ {c} : Same(d)
    BY <1>0, <1>1, <1>2, <2>1 DEF Same, TypeOK
  <2>3. TypeOK'
    <3>1. << >> \in Seq(Commands)
      OBVIOUS
    <3> QED BY <1>0, <1>2, <1>7, <1>8, <1>9, <2>1, <3>1 DEF TypeOK
  <2>4. now < target'[c]
    <3>1. now \in Nat /\ target'[c] \in Nat
      BY <1>0, <1>7 DEF TypeOK, Times
    <3> QED BY <1>15, <3>1
  <2>5. Pending(c)'
    BY <1>1, <1>2, <1>13, <2>1, <2>4 DEF Pending
  <2>6. ~Taken(c)' /\ Quiet'
    <3>1. ~(target'[c] <= now')
      BY <1>2, <1>15
    <3> QED BY <1>1, <1>2, <2>1, <3>1 DEF Taken, Quiet
  <2> QED BY <1>1, <1>2, <1>10, <1>11, <1>12, <2>2, <2>3, <2>5, <2>6, HandStep DEF Phase
<1> QED
  BY <1>14, <1>15

\* A client that closes its connection is answered before it is removed.
LEMMA CloseKeeps ==
  ASSUME SessionInv, DispatchClose
  PROVE SessionInv'
<1>0. TypeOK /\ Dispatch("close") /\ Head(input).cmd = "close"
  BY DEF SessionInv, DispatchClose, Dispatch
<1>1. PICK c \in sockets, q \in Seq(Names) :
        /\ c = turn /\ c \in Clients /\ Taken(c) /\ q = queue[c] /\ Tail(input) = << >>
        /\ Asked(q) /\ Last(q) = "close" /\ Answers(q, Status("close", TRUE))
  BY <1>0, LastDispatched
<1> DEFINE x == [status |-> Status("close", TRUE), values |-> output.values]
<1>2. /\ reply' = [reply EXCEPT ![c] = Append(@, x)]
      /\ output' = Empty /\ sockets' = sockets \ {c} /\ doClose' = (sockets' = {}) /\ now' = now
      /\ HandOn(c, sockets', target, until) /\ input' = << >>
      /\ UNCHANGED <<state, queue, string, results, armed, request, target, vehicle, subs, cache,
                     lastContext>>
      /\ turn # 0 /\ ~doClose
  BY <1>1 DEF DispatchClose, Dispatch, scripts
<1>3. x \in Messages /\ x.status = Status("close", TRUE)
  <2>1. output.values \in SUBSET Values
    BY <1>0 DEF TypeOK, Messages
  <2> QED BY <1>0, <2>1, LastAnswer DEF Names
<1> HIDE DEF x
<1>4. /\ reply[c] = << >> /\ request[c] = << >> /\ state[c] \in {"waiting", "dead"}
      /\ reply \in [Clients -> Seq(Messages)]
  BY <1>0, <1>1 DEF Taken, TypeOK
<1>5. reply' \in [Clients -> Seq(Messages)] /\ reply'[c] = <<x>>
  BY <1>1, <1>2, <1>3, <1>4
<1>6. sockets' \subseteq Clients /\ until \in Nat /\ now' \in Nat /\ until <= now'
      /\ target \in [Clients -> Nat]
  <2>1. Times \subseteq Nat
    BY DEF Times
  <2>2. sockets' \subseteq Clients /\ until \in Nat /\ now' \in Nat
        /\ target \in [Clients -> Nat]
    BY <1>0, <1>2, <2>1 DEF TypeOK
  <2>3. until <= now'
    BY <1>2 DEF SessionInv, OnTime
  <2> QED BY <2>2, <2>3
<1>7. /\ turn' \in sockets' \cup {0} /\ until' \in Nat
      /\ turn' # 0 => until' <= now' /\ target[turn'] <= now'
      /\ turn' = 0 => \A d \in sockets' : now' < target[d]
      /\ until' = until \/ \E d \in sockets' : until' = target[d]
  BY <1>1, <1>2, <1>6, TurnGiven
<1>8. until' \in Times
  BY <1>0, <1>6, <1>7 DEF TypeOK
<1>9. AllAsked' /\ OnTime'
  BY <1>2, <1>7 DEF AllAsked, OnTime
<1>10. TypeOK'
  <2>1. << >> \in Seq(Commands)
    OBVIOUS
  <2> QED BY <1>0, <1>2, <1>5, <1>6, <1>7, <1>8, <2>1, EmptyMessage DEF TypeOK
<1>11. \A d \in Clients \ {c} : Same(d)
  BY <1>0, <1>1, <1>2, <1>4 DEF Same, TypeOK
<1>12. SomeDead => SomeDead'
  BY <1>2, DeadServed
<1>13. Parted(c)' \/ SomeDead'
  <2>1. Len(reply'[c]) = 1 /\ reply'[c][1] = x
    BY <1>5
  <2>2. CASE state[c] = "waiting"
    BY <1>1, <1>2, <1>3, <2>1, <2>2 DEF Parted
  <2>3. CASE state[c] = "dead"
    BY <1>1, <1>2, <2>3 DEF SomeDead
  <2> QED BY <1>4, <2>2, <2>3
<1>14. ~Taken(c)' /\ Quiet'
  BY <1>2, <1>5 DEF Taken, Quiet
<1>15. doClose' => turn' = 0
  <2> SUFFICES ASSUME doClose' PROVE turn' = 0
    OBVIOUS
  <2>1. sockets' = {}
    BY <1>2
  <2> QED BY <1>7, <2>1
<1> QED
  BY <1>1, <1>2, <1>9, <1>10, <1>11, <1>12, <1>13, <1>14, <1>15, HandStep

\* While the simulation runs every connected client waits for its step.
LEMMA AllPending ==
  ASSUME SessionInv, turn = 0, ~doClose
  PROVE /\ sockets # {} /\ Quiet
        /\ \A c \in sockets : Pending(c) /\ target[c] \in Times /\ now + 1 <= target[c]
<1>1. TypeOK /\ sockets # {} /\ \A c \in sockets : now < target[c]
  BY DEF SessionInv, AllAsked
<1>2. Quiet
  BY DEF SessionInv, Serving
<1>3. ASSUME NEW c \in sockets PROVE Pending(c) /\ target[c] \in Times /\ now + 1 <= target[c]
  <2>1. now \in Nat /\ target[c] \in Times /\ target[c] \in Nat
    BY <1>1 DEF TypeOK, Times
  <2>2. Phase(c) /\ ~(target[c] <= now) /\ now + 1 <= target[c]
    BY <1>1, <2>1 DEF SessionInv
  <2> QED BY <2>1, <2>2 DEF Phase, Idle, Requested, Taken, Answered
<1> QED
  BY <1>1, <1>2, <1>3

\* A simulation step answers those who have asked for its time.
LEMMA SimulationKeeps ==
  ASSUME SessionInv, StepAnswers
  PROVE SessionInv'
<1>0. TypeOK
  BY DEF SessionInv
<1> DEFINE x == [status |-> Status("step", TRUE), values |-> cache']
<1>1. /\ turn = 0 /\ ~doClose /\ now' = now + 1 /\ vehicle' \in {vehicle, FALSE}
      /\ subs' \subseteq subs /\ cache' = [of : subs', time : {now'}]
      /\ output' = Empty /\ NewRound(sockets, target, until)
      /\ UNCHANGED <<state, queue, string, results, armed, request, sockets, target, input,
                     doClose, lastContext>>
  BY StepParts DEF StepAnswers, Kept, scripts
<1>2. reply' = [c \in Clients |-> IF c \in Due(now') THEN Append(reply[c], x) ELSE reply[c]]
  BY StepParts
<1>3. /\ sockets # {} /\ Quiet /\ sockets \subseteq Clients
      /\ \A c \in sockets : Pending(c) /\ target[c] \in Times /\ now + 1 <= target[c]
  BY <1>0, <1>1, AllPending DEF TypeOK
<1>4. now' \in Times /\ now' \in Nat
  <2>1. PICK c \in sockets : target[c] \in Times /\ now + 1 <= target[c]
    BY <1>3
  <2>2. now \in Nat
    BY <1>0 DEF TypeOK, Times
  <2> QED BY <1>1, <2>1, <2>2, SessionAssumption DEF Times
<1>5. subs' \in SUBSET Subs /\ cache' \in SUBSET Values /\ From(cache', now')
      /\ vehicle' \in BOOLEAN
  <2>1. subs' \in SUBSET Subs /\ vehicle' \in BOOLEAN
    BY <1>0, <1>1 DEF TypeOK
  <2>2. cache' \in SUBSET Values
    BY <1>1, <1>4, <2>1 DEF Values
  <2>3. From(cache', now')
    BY <1>1 DEF From
  <2> QED BY <2>1, <2>2, <2>3
<1>6. x \in Messages /\ x.values = cache' /\ x.status = <<[cmd |-> "step", ok |-> TRUE]>>
  <2>1. x.status = Status("step", TRUE) /\ x.values = cache'
    OBVIOUS
  <2>2. Status("step", TRUE) = <<[cmd |-> "step", ok |-> TRUE]>>
    <3>1. output.status = << >>
      BY <1>3 DEF Quiet, Empty
    <3> DEFINE a == [cmd |-> "step", ok |-> TRUE]
    <3>2. Append(<< >>, a) = <<a>>
      <4> HIDE DEF a
      <4> QED OBVIOUS
    <3> QED BY <3>1, <3>2 DEF Status
  <2>3. x \in Messages
    <3> DEFINE r == cache'
    <3>1. r \in SUBSET Values /\ "step" \in Names
      BY <1>5 DEF Names
    <3> HIDE DEF r
    <3>2. [status |-> Status("step", TRUE), values |-> r] \in Messages
      BY <1>0, <3>1, LastAnswer
    <3> QED BY <3>2 DEF r
  <2> QED BY <2>1, <2>2, <2>3
<1> HIDE DEF x
<1>7. /\ reply' \in [Clients -> Seq(Messages)]
      /\ \A c \in sockets : target[c] <= now' => reply'[c] = <<x>>
      /\ \A c \in sockets : ~(target[c] <= now') => reply'[c] = << >>
      /\ \A c \in Clients \ sockets : reply'[c] = reply[c]
  <2>1. \A c \in sockets : reply[c] = << >>
    BY <1>3 DEF Pending
  <2>2. \A c \in Clients : reply[c] \in Seq(Messages)
    BY <1>0 DEF TypeOK
  <2>3. \A c \in Clients : Append(reply[c], x) \in Seq(Messages)
    BY <1>6, <2>2
  <2>4. reply' \in [Clients -> Seq(Messages)]
    BY <1>2, <2>2, <2>3
  <2>5. \A c \in sockets : target[c] <= now' => reply'[c] = Append(<< >>, x)
    BY <1>2, <1>3, <2>1 DEF Due
  <2>6. Append(<< >>, x) = <<x>>
    OBVIOUS
  <2>7. \A c \in sockets : ~(target[c] <= now') => reply'[c] = << >>
    BY <1>2, <1>3, <2>1 DEF Due
  <2>8. \A c \in Clients \ sockets : reply'[c] = reply[c]
    BY <1>2 DEF Due
  <2> QED BY <2>4, <2>5, <2>6, <2>7, <2>8
<1>8. /\ turn' \in sockets \cup {0} /\ until' \in Nat
      /\ turn' # 0 => until' <= now' /\ target[turn'] <= now'
      /\ turn' = 0 => \A d \in sockets : now' < target[d]
      /\ until' = until \/ \E d \in sockets : until' = target[d]
  <2>1. Times \subseteq Nat
    BY DEF Times
  <2>2. target \in [Clients -> Nat] /\ until \in Nat
    BY <1>0, <2>1 DEF TypeOK
  <2>3. NewRound(sockets, target, until)
    BY <1>1
  <2> QED BY <1>3, <1>4, <2>2, <2>3, RoundGiven
<1>9. until' \in Times
  BY <1>0, <1>3, <1>8 DEF TypeOK
<1>10. TypeOK'
  BY <1>0, <1>1, <1>4, <1>5, <1>7, <1>8, <1>9, EmptyMessage DEF TypeOK
<1>11. AllAsked' /\ OnTime'
  BY <1>1, <1>3, <1>8 DEF AllAsked, OnTime
<1>12. ASSUME NEW c \in sockets PROVE Phase(c)' /\ ~Taken(c)'
  <2>1. /\ state'[c] \in {"waiting", "dead"} /\ request'[c] = << >> /\ queue'[c] = <<"step">>
        /\ target'[c] = target[c] /\ target[c] \in Nat
    BY <1>1, <1>3 DEF Pending, Times
  <2>2. CASE target[c] <= now'
    <3>1. Asked(<<"step">>) /\ Last(<<"step">>) = "step"
      BY DEF Asked, Last
    <3>2. Answers(<<"step">>, <<[cmd |-> "step", ok |-> TRUE]>>)
      BY DEF Answers
    <3>0. reply'[c] = <<x>>
      BY <1>7, <2>2
    <3>3. Len(reply'[c]) = 1 /\ reply'[c][1] = x
      BY <3>0
    <3>4. Answered(c)'
      BY <1>5, <1>6, <2>1, <2>2, <3>1, <3>2, <3>3 DEF Answered
    <3>5. ~Taken(c)'
      BY <3>0 DEF Taken
    <3> QED BY <3>4, <3>5 DEF Phase
  <2>3. CASE ~(target[c] <= now')
    <3>1. now' < target[c] /\ reply'[c] = << >>
      BY <1>4, <1>7, <2>1, <2>3
    <3>2. Pending(c)'
      BY <2>1, <3>1 DEF Pending
    <3>3. ~Taken(c)'
      BY <2>1, <2>3 DEF Taken
    <3> QED BY <3>2, <3>3 DEF Phase
  <2> QED BY <2>2, <2>3
<1>13. \A c \in Clients \ sockets' : (Parted(c) \/ SomeDead)'
  <2> TAKE c \in Clients \ sockets'
  <2>1. Parted(c) => Parted(c)'
    BY <1>1, <1>7 DEF Parted
  <2>2. SomeDead => SomeDead'
    BY <1>1, DeadServed
  <2> QED BY <1>1, <2>1, <2>2 DEF SessionInv
<1>14. UpToDate'
  BY <1>1, <1>5 DEF UpToDate, Empty, From
<1>15. Serving'
  <2>1. Quiet'
    BY <1>1, <1>3 DEF Quiet
  <2> QED BY <1>1, <1>12, <2>1 DEF Serving, Quiet
<1> QED
  BY <1>1, <1>10, <1>11, <1>12, <1>13, <1>14, <1>15 DEF SessionInv

-----------------------------------------------------------------------------
(* What holds for scripts that send no filter with a step.                 *)

\* Initially all clients are idle.
LEMMA SessionInvInit ==
  Init => SessionInv
<1> SUFFICES ASSUME Init PROVE SessionInv
  OBVIOUS
<1>1. 1 \in Clients /\ 0 \in Times
  BY SessionAssumption DEF Clients, Times
<1>2. << >> \in Seq(Commands) /\ << >> \in Seq(Names) /\ << >> \in Seq(Messages)
  OBVIOUS
<1>3. TypeOK
  BY <1>1, <1>2, EmptyMessage DEF Init, TypeOK
<1>4. AllAsked /\ OnTime
  BY <1>1 DEF Init, AllAsked, OnTime
<1>5. ASSUME NEW c \in Clients PROVE Idle(c) /\ ~Taken(c)
  BY <1>5, <1>1 DEF Init, Idle, Taken, Filters, Named, From
<1>6. Serving
  BY <1>1, <1>5 DEF Init, Serving, Quiet
<1>7. UpToDate
  BY DEF Init, UpToDate, From, Empty
<1>8. sockets = Clients
  BY DEF Init
<1> QED
  BY <1>3, <1>4, <1>5, <1>6, <1>7, <1>8 DEF SessionInv, Phase

\* A server that ends because it was asked for what is around a vehicle that has left.
LEMMA RaiseKeeps ==
  ASSUME SessionInv, Careless, SubscribeRaises \/ StepRaises
  PROVE SessionInv'
<1>0. TypeOK
  BY DEF SessionInv
<1>1. /\ sockets' = {} /\ turn' = 0 /\ doClose' = TRUE
      /\ UNCHANGED <<state, queue, string, results, armed, request, target, until, input, output,
                     reply, subs, lastContext>>
  <2>1. CASE SubscribeRaises
    BY <2>1, SubscribeParts DEF SubscribeRaises, scripts, channels
  <2>2. CASE StepRaises
    BY <2>2, StepParts DEF StepRaises, scripts
  <2> QED BY <2>1, <2>2
<1>2. now' \in Times /\ vehicle' \in BOOLEAN /\ cache' \in SUBSET Values /\ UpToDate'
  <2>1. CASE SubscribeRaises
    <3>1. now' = now /\ vehicle' = vehicle /\ cache' = cache
      BY <2>1, SubscribeParts DEF SubscribeRaises
    <3> QED BY <1>0, <1>1, <3>1 DEF TypeOK, SessionInv, UpToDate
  <2>2. CASE StepRaises
    <3>1. /\ turn = 0 /\ ~doClose /\ now' = now + 1 /\ vehicle' \in {vehicle, FALSE}
          /\ cache' = {}
      BY <2>2, StepParts DEF StepRaises
    <3>2. sockets # {} /\ Quiet /\ \A c \in sockets : target[c] \in Times /\ now + 1 <= target[c]
      BY <3>1, AllPending
    <3>3. PICK c \in sockets : target[c] \in Times /\ now + 1 <= target[c]
      BY <3>2
    <3>4. now \in Nat
      BY <1>0 DEF TypeOK, Times
    <3>5. now' \in Times
      BY <3>1, <3>3, <3>4, SessionAssumption DEF Times
    <3>6. UpToDate'
      BY <1>1, <3>1, <3>2 DEF UpToDate, From, Quiet, Empty
    <3>7. vehicle' \in BOOLEAN
      BY <1>0, <3>1 DEF TypeOK
    <3> QED BY <3>1, <3>5, <3>6, <3>7
  <2> QED BY <2>1, <2>2
<1>3. TypeOK'
  BY <1>0, <1>1, <1>2 DEF TypeOK
<1>4. AllAsked' /\ OnTime'
  BY <1>1 DEF AllAsked, OnTime
<1>5. Serving'
  BY <1>1 DEF SessionInv, Serving, Quiet
<1>6. SomeDead'
  <2>1. ~vehicle'
    BY SubscribeParts DEF SubscribeRaises, StepRaises, Raises
  <2>2. Careless' /\ sockets' = {} /\ turn' = 0
    BY <1>1 DEF Careless
  <2>3. doClose'
    BY <1>1
  <2>4. Cut'
    BY <2>1, <2>2, <2>3, Zenon DEF Cut, EndedWithoutVehicle
  <2> QED BY <2>4 DEF SomeDead
<1> QED
  BY <1>1, <1>2, <1>3, <1>4, <1>5, <1>6 DEF SessionInv

\* As long as all that is asked for is there, the server does not end in this way.
LEMMA NothingRaises ==
  ASSUME TypeOK, Present
  PROVE ~SubscribeRaises /\ ~StepRaises
<1>1. ~SubscribeRaises
  <2> SUFFICES ASSUME SubscribeRaises PROVE FALSE
    OBVIOUS
  <2>1. /\ input # << >> /\ Head(input).cmd = "subscribe" /\ Head(input).of = "context" /\ ~vehicle
    BY SubscribeParts DEF SubscribeRaises
  <2>2. input \in Seq(Commands) /\ Sound(input)
    BY DEF TypeOK, Present
  <2>3. 1 \in 1..Len(input) /\ Head(input) = input[1]
    BY <2>1, <2>2
  <2> QED BY <2>1, <2>2, <2>3 DEF Sound
<1>2. ~StepRaises
  <2> SUFFICES ASSUME StepRaises PROVE FALSE
    OBVIOUS
  <2>1. "context" \in Kept(vehicle' # vehicle) /\ ~vehicle'
    BY DEF StepRaises, Raises
  <2>2. vehicle' = vehicle /\ "context" \in subs
    BY <2>1 DEF Kept
  <2>3. ~vehicle
    BY <2>1, <2>2, Zenon
  <2> QED BY <2>2, <2>3 DEF Present
<1> QED
  BY <1>1, <1>2

\* Every step of scripts that send no filter with a step, of the library and of the server keeps
\* the session.
LEMMA SessionInvKept ==
  ASSUME Lax \subseteq {"lone", "gone", "remove"}, SessionInv, Careless \/ Present, [Next]_vars
  PROVE SessionInv'
<1>1. CASE UNCHANGED vars
  <2>1. Cut => Cut'
    BY <1>1, CutStays DEF vars, loop, world
  <2>2. SomeDead => SomeDead'
    BY <1>1, <2>1 DEF SomeDead, vars, scripts
  <2> QED
    BY <1>1, <2>2 DEF vars, scripts, channels, loop, world, SessionInv, TypeOK, AllAsked, Serving,
      OnTime, UpToDate, Phase, Idle, Requested, Taken, Pending, Answered, Parted, Quiet, ServesNow
<1>2. CASE SubscribeRaises \/ StepRaises
  <2>1. Careless
    BY <1>2, NothingRaises DEF SessionInv
  <2> QED BY <1>2, <2>1, RaiseKeeps
<1>3. CASE Server /\ ~SubscribeRaises /\ ~StepRaises
  <2>1. \/ Respond \/ Receive \/ LoseClient \/ StepAnswers
        \/ DispatchGet \/ DispatchRemove \/ SubscribeAnswers \/ DispatchFilter
        \/ DispatchStep \/ DispatchClose
    BY <1>3 DEF Server, SubscribeRaises, SubscribeAnswers, StepRaises, StepAnswers
  <2> QED
    BY <2>1, RespondKeeps, ReceiveKeeps, LoseClientKeeps, SimulationKeeps, DispatchKeeps, StepKeeps,
      CloseKeeps
<1>4. ASSUME NEW c \in Clients, Client(c) \/ Call(c) \/ Crash(c) PROVE SessionInv'
  BY <1>4, ReadKeeps, LoseServerKeeps, CallKeeps, CrashKeeps DEF Client
<1> QED
  BY <1>1, <1>2, <1>3, <1>4 DEF Next, Over

-----------------------------------------------------------------------------
(* What holds for scripts that leave the vehicle alone as well.            *)

\* The commands that are left are sound.
LEMMA SoundTail ==
  ASSUME NEW s \in Seq(Commands), Sound(s), s # << >>
  PROVE Sound(Tail(s))
<1>1. \A i \in 1..Len(Tail(s)) : i + 1 \in 1..Len(s) /\ Tail(s)[i] = s[i + 1]
  OBVIOUS
<1> QED
  BY <1>1 DEF Sound

\* Filters and a sound command are.
LEMMA SoundSent ==
  ASSUME NEW q \in Seq(Names), NEW s \in Seq(Commands), NEW x \in Commands,
         Filters(q), Named(q, s), x.cmd # "remove",
         x.cmd = "subscribe" /\ x.of = "context" => vehicle
  PROVE Sound(Append(s, x))
<1> DEFINE r == Append(s, x)
<1>1. Len(r) = Len(s) + 1 /\ r[Len(s) + 1] = x /\ \A i \in 1..Len(s) : r[i] = s[i]
  OBVIOUS
<1>2. \A i \in 1..Len(s) : s[i].cmd = "filter"
  BY DEF Filters, Named
<1> HIDE DEF r
<1>3. ASSUME NEW i \in 1..Len(r)
      PROVE r[i].cmd # "remove" /\ (r[i].cmd = "subscribe" /\ r[i].of = "context" => vehicle)
  <2>1. CASE i \in 1..Len(s)
    BY <1>1, <1>2, <2>1
  <2>2. CASE i = Len(s) + 1
    BY <1>1, <2>2
  <2>3. i \in 1..Len(s) \/ i = Len(s) + 1
    <3>1. Len(s) \in Nat /\ i \in 1..(Len(s) + 1)
      BY <1>1
    <3> QED BY <3>1
  <2> QED BY <2>1, <2>2, <2>3
<1> QED
  BY <1>3 DEF Sound, r

\* A call of such a script.
LEMMA SendSound ==
  ASSUME SessionInv, Present, NEW c \in Clients, NEW x \in Commands, Send(c, x), x.cmd # "remove",
         x.cmd = "subscribe" /\ x.of = "context" => vehicle
  PROVE Present'
<1>0. TypeOK
  BY DEF SessionInv
<1>1. /\ state[c] = "free" /\ request' = [request EXCEPT ![c] = string'[c]]
      /\ string' = [string EXCEPT ![c] = Append(@, x)]
      /\ UNCHANGED <<sockets, input, subs, vehicle>>
  BY DEF Send, loop, world
<1>2. vehicle => vehicle'
  BY <1>1, Zenon
<1>3. request'[c] = Append(string[c], x) /\ \A d \in Clients \ {c} : request'[d] = request[d]
  BY <1>0, <1>1 DEF TypeOK
<1>4. ASSUME c \in sockets PROVE Sound(Append(string[c], x))
  <2>1. Idle(c)
    BY <1>1, <1>4, FreeIsIdle
  <2>2. /\ queue[c] \in Seq(Names) /\ string[c] \in Seq(Commands)
        /\ Filters(queue[c]) /\ Named(queue[c], string[c])
    BY <1>0, <2>1 DEF Idle, TypeOK
  <2> QED BY ONLY <2>2, SoundSent, x \in Commands, x.cmd # "remove",
       x.cmd = "subscribe" /\ x.of = "context" => vehicle
<1>5. ASSUME NEW d \in sockets' PROVE Sound(request[d])'
  <2>1. d \in sockets /\ d \in Clients
    BY <1>0, <1>1 DEF TypeOK
  <2>2. Sound(request'[d])
    BY <1>3, <1>4, <2>1 DEF Present
  <2> QED BY <1>2, <2>2 DEF Sound
<1>6. Sound(input)'
  BY <1>1, <1>2 DEF Present, Sound
<1>7. ("context" \in subs => vehicle)'
  BY <1>1, <1>2 DEF Present
<1> QED
  BY <1>5, <1>6, <1>7 DEF Present

\* Steps that change neither the vehicle nor the commands on their way.
LEMMA PresentSame ==
  ASSUME Present, UNCHANGED <<vehicle, subs, input, request>>, sockets' \subseteq sockets
  PROVE Present'
<1>1. vehicle => vehicle'
  BY Zenon
<1> QED
  BY <1>1 DEF Present, Sound

\* Steps of the server that take a command.
LEMMA PresentTaken ==
  ASSUME TypeOK, Present, UNCHANGED <<vehicle, request>>, sockets' \subseteq sockets,
         input # << >>, input' \in {input, Tail(input)}, subs' = subs \/ vehicle
  PROVE Present'
<1>1. vehicle => vehicle'
  BY Zenon
<1>2. Sound(input')
  BY SoundTail DEF TypeOK, Present
<1>3. Sound(input)'
  BY <1>1, <1>2 DEF Sound
<1>4. ("context" \in subs => vehicle)'
  BY <1>1 DEF Present
<1> QED
  BY <1>1, <1>3, <1>4 DEF Present, Sound

\* What the scripts ask for stays there.
LEMMA PresentKept ==
  ASSUME Lax \subseteq {"lone"}, SessionInv, Present, [Next]_vars
  PROVE Present'
<1>0. TypeOK /\ "gone" \notin Lax /\ "remove" \notin Lax
  BY DEF SessionInv
<1>1. CASE UNCHANGED vars
  BY <1>1, PresentSame DEF vars, channels, loop, world
<1>2. ASSUME NEW c \in Clients, Client(c) \/ Crash(c) \/ AddFilter(c) PROVE Present'
  <2>1. UNCHANGED <<vehicle, subs, input, request, sockets>>
    BY <1>2 DEF Client, ReadAnswer, LoseServer, Crash, AddFilter, channels, loop, world
  <2> QED BY <2>1, PresentSame
<1>3. ASSUME NEW c \in Clients, Call(c) PROVE Present'
  <2>1. CASE Get(c)
    BY <2>1, SendSound, CommandParts DEF Get
  <2>2. CASE RemoveVehicle(c)
    BY <1>0, <2>2 DEF RemoveVehicle
  <2>3. CASE Close(c)
    BY <2>3, SendSound, CommandParts DEF Close
  <2>4. ASSUME NEW k \in Subs, Subscribe(c, k) PROVE Present'
    <3>1. Send(c, [cmd |-> "subscribe", of |-> k]) /\ (k = "context" => vehicle)
      BY <1>0, <2>4 DEF Subscribe
    <3>2. [cmd |-> "subscribe", of |-> k] \in Commands
      BY CommandParts
    <3> QED BY <3>1, <3>2, SendSound
  <2>5. ASSUME NEW t \in Times, Step(c, t) PROVE Present'
    <3>1. Send(c, [cmd |-> "step", to |-> t])
      BY <2>5 DEF Step
    <3>2. [cmd |-> "step", to |-> t] \in Commands
      BY CommandParts
    <3> QED BY <3>1, <3>2, SendSound
  <2> QED BY <1>2, <1>3, <2>1, <2>2, <2>3, <2>4, <2>5 DEF Call
<1>4. CASE Respond \/ LoseClient
  <2>1. UNCHANGED <<vehicle, subs, input, request>> /\ sockets' \subseteq sockets
    BY <1>4 DEF Respond, LoseClient, EndServer, channels, world
  <2> QED BY <2>1, PresentSame
<1>5. CASE Receive
  <2>1. /\ UNCHANGED <<vehicle, subs, sockets>> /\ turn # 0 /\ input' = request[turn]
        /\ request' = [request EXCEPT ![turn] = << >>]
    BY <1>5 DEF Receive, world
  <2>2. vehicle => vehicle'
    BY <2>1, Zenon
  <2>3. turn \in sockets /\ turn \in Clients /\ request \in [Clients -> Seq(Commands)]
    BY <1>0, <2>1 DEF TypeOK
  <2>5. Sound(input)'
    BY <2>1, <2>2, <2>3 DEF Present, Sound
  <2>6. ASSUME NEW d \in sockets' PROVE Sound(request[d])'
    <3>1. d \in Clients /\ d \in sockets
      BY <1>0, <2>1 DEF TypeOK
    <3>2. request'[d] = << >> \/ request'[d] = request[d]
      BY <2>1, <2>3, <3>1
    <3>3. Sound(request'[d])
      BY <3>1, <3>2 DEF Present, Sound
    <3> QED BY <2>2, <3>3 DEF Sound
  <2>7. ("context" \in subs => vehicle)'
    BY <2>1, <2>2 DEF Present
  <2> QED BY <2>5, <2>6, <2>7 DEF Present
<1>6. CASE DispatchGet \/ DispatchFilter \/ DispatchStep \/ DispatchClose
  <2>1. /\ UNCHANGED <<vehicle, subs, request>> /\ sockets' \subseteq sockets
        /\ input # << >> /\ input' \in {input, Tail(input)}
    BY <1>6 DEF DispatchGet, DispatchFilter, DispatchStep, DispatchClose, Dispatch, channels, world
  <2> QED BY <1>0, <2>1, PresentTaken
<1>7. CASE DispatchRemove
  <2>1. input # << >> /\ Head(input).cmd = "remove"
    BY <1>7 DEF DispatchRemove, Dispatch
  <2>2. input \in Seq(Commands) /\ Sound(input)
    BY <1>0 DEF TypeOK, Present
  <2>3. 1 \in 1..Len(input) /\ Head(input) = input[1]
    BY <2>1, <2>2
  <2> QED BY <2>1, <2>2, <2>3 DEF Sound
<1>8. CASE SubscribeAnswers
  <2>1. /\ UNCHANGED <<vehicle, request, sockets>> /\ input # << >> /\ input' = Tail(input)
    BY <1>8, SubscribeParts DEF SubscribeAnswers, channels
  <2>2. subs' = subs \/ vehicle
    BY <1>8, NothingRaises DEF SubscribeAnswers, DispatchSubscribe, EndServer
  <2> QED BY <1>0, <2>1, <2>2, PresentTaken
<1>9. CASE StepAnswers
  <2>1. /\ turn = 0 /\ ~doClose /\ UNCHANGED <<request, input, sockets>>
        /\ subs' = (IF vehicle' THEN Kept(vehicle' # vehicle) ELSE {})
    BY <1>9, StepParts DEF StepAnswers
  <2>2. input = << >> /\ \A c \in sockets : request[c] = << >>
    BY <2>1, AllPending DEF Quiet, Pending
  <2>3. ("context" \in subs => vehicle)'
    BY <2>1
  <2> QED BY <2>1, <2>2, <2>3 DEF Present, Sound
<1>10. CASE SubscribeRaises \/ StepRaises
  BY <1>0, <1>10, NothingRaises
<1> QED
  BY <1>1, <1>2, <1>3, <1>4, <1>5, <1>6, <1>7, <1>8, <1>9, <1>10
  DEF Next, Over, Server, SubscribeRaises, SubscribeAnswers, StepRaises, StepAnswers

\* Initially nothing is asked for.
LEMMA PresentInit ==
  ASSUME Init
  PROVE Present
  BY DEF Init, Present, Sound

-----------------------------------------------------------------------------
(* The theorems.                                                           *)

\* The invariant holds from the start: with Present unless the scripts are careless.
LEMMA SessionInvariant ==
  ASSUME Lax \subseteq {"lone", "gone", "remove"}
  PROVE Spec => [](SessionInv /\ (Careless \/ Present))
<1> DEFINE I == SessionInv /\ (Careless \/ Present)
<1>1. Init => I
  BY SessionInvInit, PresentInit
<1>2. I /\ [Next]_vars => I'
  <2> SUFFICES ASSUME I, [Next]_vars PROVE I'
    OBVIOUS
  <2>1. SessionInv'
    BY SessionInvKept
  <2>2. CASE Careless
    <3>1. Careless'
      BY <2>2 DEF Careless
    <3> QED BY <2>1, <3>1
  <2>3. CASE ~Careless
    <3>1. Lax \subseteq {"lone"}
      BY <2>3 DEF Careless
    <3>2. Present'
      BY <2>3, <3>1, PresentKept
    <3> QED BY <2>1, <3>2
  <2> QED BY <2>2, <2>3
<1> HIDE DEF I
<1>3. Spec => []I
  BY <1>1, <1>2, PTL DEF Spec
<1> QED
  BY <1>3 DEF I

\* Whatever filters the scripts add, if these are valid and never sent with a step, every
\* variable keeps its type: for any number of scripts the time never passes MaxTime, and nobody
\* has the turn who is not connected. That holds also when the server ends because a script asks
\* for what is around a vehicle that has left.
THEOREM SessionTypeCorrect ==
  ASSUME Lax \subseteq {"lone", "gone", "remove"}
  PROVE Spec => []TypeOK
<1>1. SessionInv => TypeOK
  BY DEF SessionInv
<1> QED
  BY <1>1, SessionInvariant, PTL

\* With scripts that send no filter with a step, every answer a client reads is the one to what
\* it has asked, as long as no process ends early: a call fails as fatal only when the server has
\* ended for all because it was asked for what is around a vehicle that has left.
THEOREM SessionAnswersOwn ==
  ASSUME Lax \subseteq {"lone", "gone", "remove"}
  PROVE Spec => []AnswersOwn
<1>1. SessionInv => AnswersOwn
  <2> SUFFICES ASSUME SessionInv, \A c \in Clients : state[c] # "dead", NEW c \in Clients,
                      state[c] = "fatal"
               PROVE EndedWithoutVehicle
    BY DEF AnswersOwn
  <2>1. c \notin sockets
    BY DEF SessionInv, Phase, Idle, Requested, Taken, Pending, Answered
  <2>2. SomeDead
    BY <2>1 DEF SessionInv, Parted
  <2> QED BY <2>2 DEF SomeDead, Cut
<1> QED
  BY <1>1, SessionInvariant, PTL

\* With scripts that do not remove the vehicle either and ask for its context only while it is
\* there, no call is cut off unless some process has ended early. The server never meets the
\* context subscription of a vehicle that has left (TraCIServer.cpp:1188), since the vehicle
\* arrives in a step only, which forgets its subscriptions.
THEOREM SessionNobodyCutOff ==
  ASSUME Lax \subseteq {"lone"}
  PROVE Spec => []NobodyCutOff
<1>1. SessionInv => NobodyCutOff
  <2> SUFFICES ASSUME SessionInv, \A c \in Clients : state[c] # "dead", NEW c \in Clients
               PROVE state[c] # "fatal"
    BY DEF NobodyCutOff
  <2>1. CASE c \in sockets
    BY <2>1 DEF SessionInv, Phase, Idle, Requested, Taken, Pending, Answered
  <2>2. CASE c \notin sockets
    <3>1. ~Cut
      BY DEF Cut, Careless
    <3> QED BY <2>2, <3>1 DEF SessionInv, Parted, SomeDead
  <2> QED BY <2>1, <2>2
<1>2. Spec => [](SessionInv /\ (Careless \/ Present))
  BY SessionInvariant
<1> QED
  BY <1>1, <1>2, PTL

\* With scripts that send no filter with a step the results a script holds while it is free to
\* ask are from the last step.
THEOREM SessionResultsOfLastStep ==
  ASSUME Lax \subseteq {"lone", "gone", "remove"}
  PROVE Spec => []ResultsOfLastStep
<1>1. SessionInv => ResultsOfLastStep
  BY FreeIsIdle DEF ResultsOfLastStep, Idle, From
<1> QED
  BY <1>1, SessionInvariant, PTL
=============================================================================
