------------------------------ MODULE Platooning ----------------------------
(***************************************************************************)
(* simpla, the platooning package of src/tools/simpla: PlatoonManager.step *)
(* (_platoonmanager.py), which TraCI calls after every simulation step,    *)
(* the Platoon objects (_platoon.py) and the mode and split countdown of   *)
(* each connected vehicle (_pvehicle.py).                                  *)
(*                                                                         *)
(* One behaviour alternates SimulationStep, in which vehicles depart and   *)
(* arrive, with one call of step(), whose loops over the platoons are a    *)
(* sequence of actions, one per platoon, in any order (the order of the    *)
(* dictionary).  What a vehicle sees ahead is chosen anew in every control *)
(* pass, and whether isSwitchSafe answers True (a function of speeds, gaps *)
(* and types) is chosen anew at every question.                            *)
(***************************************************************************)
EXTENDS FiniteSets, PlatoonOrdering

CONSTANTS
  Vehicles,        \* the connected vehicles: each departs and arrives at most once
  SplitTime,       \* PLATOON_SPLIT_TIME, in control intervals
  ControlEvery,    \* the control interval, in simulation steps
  Other,           \* what is ahead: a vehicle that is not connected, or with NoLeader nothing
  Sights,          \* what a vehicle may see ahead: AllSights or fewer
  NoPlatoon        \* not in a platoon

\* A platoon object is known by a slot.  The code numbers platoons with a counter; the
\* model gives a new platoon the lowest slot no platoon has.
Slots == 1..Cardinality(Vehicles)

\* What a vehicle sees: the vehicle directly ahead, and how far the next connected vehicle
\* is, be it that one or one beyond a vehicle that is not connected: within MAX_PLATOON_GAP
\* (only when directly ahead), within CATCHUP_DIST, or farther.
Nothing == [front |-> NoLeader, reach |-> "far"]
AllSights == {Nothing} \cup [front : {Other}, reach : {"catchup", "far"}]
                       \cup [front : Vehicles, reach : {"join", "catchup", "far"}]

ASSUME PlatooningAssumption ==
  /\ IsFiniteSet(Vehicles)
  /\ SplitTime \in Nat \ {0} /\ ControlEvery \in Nat \ {0}
  /\ NoLeader \notin Vehicles /\ Other \notin Vehicles /\ NoLeader # Other
  /\ Nothing \in Sights /\ Sights \subseteq AllSights
  /\ NoPlatoon \notin Slots

VARIABLES
  life,        \* whether a vehicle has still to depart, drives or has left the simulation
  departed,    \* getDepartedIDList: the part step() has still to add
  arrived,     \* getArrivedIDList: the part step() has still to remove
  connected,   \* the keys of _connectedVehicles
  platoons,    \* the _vehicles of every platoon object, the leader first
  registered,  \* the slots of the platoons in _platoons
  platoonOf,   \* _platoon of every vehicle
  control,     \* _currentPlatoonMode and _timeUntilSplit of every vehicle
  sight,       \* state.leaderInfo and connectedVehicleAhead as of the last control pass
  phase,       \* the part of step() that runs next
  todo,        \* the platoons the current loop has still to visit
  current,     \* the platoon that is being emptied or split
  cuts,        \* splitIndices of that platoon: where it has still to be split
  pending,     \* newPlatoons, or the platoons toRemove because they joined another one
  since        \* _timeSinceLastControl, in simulation steps

lifeVars == <<life, departed, arrived, connected>>
groupVars == <<platoons, registered, platoonOf>>
loopVars == <<todo, current, cuts, pending>>
vars == <<lifeVars, groupVars, control, sight, phase, loopVars, since>>

Modes == {"NONE", "LEADER", "FOLLOWER", "CATCHUP", "CATCHUP_FOLLOWER"}
Phases == {"drive", "depart", "arrive", "followers", "order", "leaders", "stopped", "failed"}

TypeOK ==
  /\ life \in [Vehicles -> {"waiting", "driving", "left"}]
  /\ departed \in SUBSET Vehicles /\ arrived \in SUBSET Vehicles
  /\ connected \in SUBSET Vehicles
  /\ platoons \in [Slots -> Seq(Vehicles)]
  /\ registered \in SUBSET Slots
  /\ platoonOf \in [Vehicles -> Slots \cup {NoPlatoon}]
  /\ control \in [Vehicles -> [mode : Modes, left : 0..SplitTime]]
  /\ sight \in [Vehicles -> Sights]
  /\ phase \in Phases
  /\ todo \in SUBSET Slots /\ current \in Slots \cup {NoPlatoon}
  /\ cuts \in SUBSET (Slots \ {1}) /\ pending \in SUBSET Slots
  /\ since \in 0..ControlEvery

Fresh == [mode |-> "NONE", left |-> SplitTime]

\* The manager is created by simpla.load before any connected vehicle has departed.
Init ==
  /\ life = [v \in Vehicles |-> "waiting"]
  /\ departed = {} /\ arrived = {} /\ connected = {}
  /\ platoons = [p \in Slots |-> << >>] /\ registered = {}
  /\ platoonOf = [v \in Vehicles |-> NoPlatoon]
  /\ control = [v \in Vehicles |-> Fresh]
  /\ sight = [v \in Vehicles |-> Nothing]
  /\ phase = "drive" /\ todo = {} /\ current = NoPlatoon /\ cuts = {} /\ pending = {}
  /\ since = ControlEvery

-----------------------------------------------------------------------------
(* The modes of a platoon.  c stands for the control of all vehicles, s    *)
(* for the members of the platoon and safe for the vehicles for which      *)
(* isSwitchSafe answers True although their mode would change.             *)

\* setPlatoonMode, which does nothing when the mode is the current one.
Switched(r, m) == IF r.mode = m THEN r ELSE [mode |-> m, left |-> SplitTime]

\* isSwitchSafe: a vehicle may always stay in its mode.
IsSwitchSafe(c, v, m, safe) == c[v].mode = m \/ v \in safe

\* The mode of the leader, as it would be if it had not been kept in a follower's mode.
GetMode(c, s) ==
  CASE c[s[1]].mode = "FOLLOWER" -> "LEADER"
    [] c[s[1]].mode = "CATCHUP_FOLLOWER" -> "CATCHUP"
    [] OTHER -> c[s[1]].mode

\* The mode of the other members when the leader is in mode m.
BehindLeader(m) ==
  CASE m = "LEADER" -> "FOLLOWER" [] m = "CATCHUP" -> "CATCHUP_FOLLOWER" [] OTHER -> m

\* setMode returns True: NONE is for solitary vehicles, and the leader must be able to switch.
ModeAccepted(c, s, m, safe) == (m = "NONE" => Len(s) = 1) /\ IsSwitchSafe(c, s[1], m, safe)

\* The leader takes mode m, every other member that can switches to the mode behind it.
ModesFrom(c, s, m, safe) ==
  [v \in Vehicles |->
     IF v = s[1] THEN Switched(c[v], m)
     ELSE IF v \in ToSet(s) \cap safe THEN Switched(c[v], BehindLeader(m)) ELSE c[v]]

SetMode(c, s, m, safe) == IF ModeAccepted(c, s, m, safe) THEN ModesFrom(c, s, m, safe) ELSE c

\* adviseMemberModes: as setMode to the present mode, but the others do not wait for the leader.
Advise(c, s, safe) ==
  LET m == GetMode(c, s)
  IN  [v \in Vehicles |->
         IF v \notin ToSet(s) \cap safe THEN c[v]
         ELSE IF v = s[1] THEN Switched(c[v], m) ELSE Switched(c[v], BehindLeader(m))]

\* What a platoon returns to when it has nobody to follow.
RegularMode(s) == IF Len(s) = 1 THEN "NONE" ELSE "LEADER"

-----------------------------------------------------------------------------
(* Departures and arrivals.                                                *)

\* The next simulation step: a vehicle may depart, arrive, or do both in one step, as when
\* it collides at its insertion.
SimulationStep ==
  /\ phase = "drive"
  /\ \E D \in SUBSET {v \in Vehicles : life[v] = "waiting"} :
       \E A \in SUBSET (D \cup {v \in Vehicles : life[v] = "driving"}) :
         /\ life' = [v \in Vehicles |-> IF v \in A THEN "left"
                                       ELSE IF v \in D THEN "driving" ELSE life[v]]
         /\ departed' = D /\ arrived' = A
  /\ phase' = "depart"
  /\ UNCHANGED <<connected, groupVars, control, sight, loopVars, since>>

Unused(p) ==
  /\ platoons[p] = << >> /\ p \notin registered \cup pending
  /\ \A v \in Vehicles : platoonOf[v] # p

NextSlot(p) == Unused(p) /\ \A q \in Slots : q < p => ~Unused(q)

\* _addVehicle: a departed vehicle becomes a platoon of its own.
AddVehicle(v) ==
  /\ phase = "depart" /\ v \in departed /\ life[v] = "driving"
  /\ \E p \in Slots :
       /\ NextSlot(p)
       /\ platoons' = [platoons EXCEPT ![p] = <<v>>]
       /\ platoonOf' = [platoonOf EXCEPT ![v] = p]
       /\ registered' = registered \cup {p}
  /\ connected' = connected \cup {v} /\ departed' = departed \ {v}
  /\ UNCHANGED <<life, arrived, control, sight, phase, loopVars, since>>

\* _hasConnectedType asks for the type of a vehicle that has left again: the TraCIException
\* is not caught, it ends step() and the call of traci.simulationStep.
AddVanished(v) ==
  /\ phase = "depart" /\ v \in departed /\ life[v] = "left"
  /\ phase' = "failed"
  /\ UNCHANGED <<lifeVars, groupVars, control, sight, loopVars, since>>

\* _removeArrived takes all arrived vehicles from _connectedVehicles before it turns to their
\* platoons.
DisconnectArrived ==
  /\ phase = "depart" /\ departed = {}
  /\ connected' = connected \ arrived
  /\ phase' = "arrive"
  /\ UNCHANGED <<life, departed, arrived, groupVars, control, sight, loopVars, since>>

\* removeVehicles takes the arrived vehicles of one platoon out of it, one after the other.
LeavePlatoon(v) ==
  /\ phase = "arrive" /\ v \in arrived
  /\ current \in {NoPlatoon, platoonOf[v]}
  /\ current' = platoonOf[v]
  /\ \E i \in DOMAIN platoons[platoonOf[v]] :
       /\ platoons[platoonOf[v]][i] = v
       /\ platoons' = [platoons EXCEPT ![platoonOf[v]] = RemoveAt(@, i)]
  /\ platoonOf' = [platoonOf EXCEPT ![v] = NoPlatoon]
  /\ arrived' = arrived \ {v}
  /\ control' = [control EXCEPT ![v] = Fresh] /\ sight' = [sight EXCEPT ![v] = Nothing]
  /\ UNCHANGED <<life, departed, connected, registered, phase, todo, cuts, pending, since>>

AllLeft(p) == p # NoPlatoon /\ \A v \in arrived : platoonOf[v] # p

\* A platoon without members is dropped.
DropEmpty ==
  /\ phase = "arrive" /\ AllLeft(current) /\ platoons[current] = << >>
  /\ registered' = registered \ {current}
  /\ current' = NoPlatoon
  /\ UNCHANGED <<lifeVars, platoons, platoonOf, control, sight, phase, todo, cuts, pending,
                 since>>

\* The mode removeVehicles asks for: catching up goes on, a single vehicle is released.
RemainingMode(c, s) ==
  IF Len(s) = 1 THEN "NONE" ELSE IF GetMode(c, s) = "CATCHUP" THEN "CATCHUP" ELSE "LEADER"

AdviseRemaining ==
  /\ phase = "arrive" /\ AllLeft(current) /\ platoons[current] # << >>
  /\ LET s == platoons[current]
     IN  \E safe \in SUBSET ToSet(s) :
           control' = SetMode(control, s, RemainingMode(control, s), safe)
  /\ current' = NoPlatoon
  /\ UNCHANGED <<lifeVars, groupVars, sight, phase, todo, cuts, pending, since>>

\* isSwitchSafe asks for the deceleration of a leader that is not connected and was there at
\* the last control pass; if it has left since, the exception ends step() half way.
LeaderVanished ==
  /\ phase = "arrive" /\ AllLeft(current) /\ platoons[current] # << >>
  /\ LET s == platoons[current]
         m == RemainingMode(control, s)
     IN  \E i \in DOMAIN s, safe \in SUBSET ToSet(s) :
           /\ sight[s[i]].front = Other
           /\ control[s[i]].mode # IF i = 1 THEN m ELSE BehindLeader(m)
           /\ i > 1 => ModeAccepted(control, s, m, safe)
           /\ control' = IF i = 1 THEN control
                         ELSE ModesFrom(control, SubSeq(s, 1, i - 1), m, safe)
  /\ phase' = "failed"
  /\ UNCHANGED <<lifeVars, groupVars, sight, loopVars, since>>

\* The rest of step() runs when a control interval has passed.  _updateVehicleStates looks
\* for the vehicle ahead of every connected vehicle, and beyond one that is not connected.
UpdateVehicleStates ==
  \E seen \in [connected -> {x \in Sights : x.front \in connected \cup {NoLeader, Other}}] :
    /\ \A v \in connected : seen[v].front # v
    /\ sight' = [v \in Vehicles |-> IF v \in connected THEN seen[v] ELSE Nothing]

EndArrivals ==
  /\ phase = "arrive" /\ arrived = {} /\ current = NoPlatoon
  /\ \/ /\ since + 1 >= ControlEvery
        /\ UpdateVehicleStates
        /\ phase' = "followers" /\ todo' = registered /\ since' = since
     \/ /\ since + 1 < ControlEvery
        /\ since' = since + 1 /\ phase' = "drive"
        /\ UNCHANGED <<sight, todo>>
  /\ UNCHANGED <<lifeVars, groupVars, control, current, cuts, pending>>

-----------------------------------------------------------------------------
(* _manageFollowers: the followers are told their mode, and those that     *)
(* have been apart from their platoon for SplitTime are split off.         *)

\* The vehicle v has no connected vehicle directly ahead that allows platooning.
Unled(v) == sight[v].front \notin connected \/ sight[v].reach # "join"

\* Fault: every follower that is not behind its registered leader is split off.
ApartOutOfOrder(p, i) ==
  Unled(platoons[p][i]) \/ sight[platoons[p][i]].front # platoons[p][i - 1]

\* The split conditions of the i-th vehicle of platoon p.
Apart(p, i) ==
  LET v == platoons[p][i] IN Unled(v) \/ platoonOf[sight[v].front] # platoonOf[v]

FollowsRegistered(p, i) ==
  LET v == platoons[p][i] IN ~Unled(v) /\ sight[v].front = platoons[p][i - 1]

\* splitCountDown, by one control interval; below zero it does not matter how far.
CountDown(n) == IF n = 0 THEN 0 ELSE n - 1

\* Fault: the position of the follower in the list of followers, not in the platoon.
SplitIndicesOfFollowers(s, counting, left) ==
  {i - 1 : i \in {j \in 2..Len(s) : s[j] \in counting /\ left[s[j]] = 0}}

\* splitIndices: where the followers are whose countdown has run out.
SplitIndices(s, counting, left) == {i \in 2..Len(s) : s[i] \in counting /\ left[s[i]] = 0}

\* The countdown goes on for a vehicle that is apart, starts anew for one behind its
\* registered leader and halts for one behind another member.  What happens to a platoon
\* here does not depend on the others, so they take their turns in one order.
ManageFollowers(p) ==
  /\ phase = "followers" /\ cuts = {} /\ p \in todo /\ \A q \in todo : p <= q
  /\ LET s == platoons[p]
         followers == 2..Len(s)
     IN  \E safe \in SUBSET ToSet(s) :
           LET advised == Advise(control, s, safe)
               counting == {s[i] : i \in {j \in followers : Apart(p, j)}}
               resting == {s[i] : i \in {j \in followers : FollowsRegistered(p, j)}}
               left == [v \in Vehicles |->
                          IF v \in counting THEN CountDown(advised[v].left)
                          ELSE IF v \in resting THEN SplitTime ELSE advised[v].left]
           IN  /\ control' = [v \in Vehicles |-> [mode |-> advised[v].mode, left |-> left[v]]]
               /\ cuts' = SplitIndices(s, counting, left)
  /\ current' = p /\ todo' = todo \ {p}
  /\ UNCHANGED <<lifeVars, groupVars, sight, phase, pending, since>>

\* Platoon.split at the last of the indices: a platoon of two or more gets a leader, the
\* vehicle that remains alone at the head is released.
Split(safe, p) ==
  LET s == platoons[current]
      i == Max(cuts)
      head == SubSeq(s, 1, i - 1)
      tail == SubSeq(s, i, Len(s))
      split == ModesFrom(control, tail, RegularMode(tail), safe)
  IN  /\ ModeAccepted(control, tail, RegularMode(tail), safe)
      /\ control' = IF Len(head) = 1 THEN SetMode(split, head, "NONE", safe) ELSE split
      /\ platoons' = [platoons EXCEPT ![current] = head, ![p] = tail]
      /\ platoonOf' = [v \in Vehicles |-> IF v \in ToSet(tail) THEN p ELSE platoonOf[v]]
      /\ pending' = pending \cup {p}

\* The new leader could not switch: the platoon stays together.
NoSplit(safe) ==
  LET s == platoons[current]
      tail == SubSeq(s, Max(cuts), Len(s))
  IN  /\ ~ModeAccepted(control, tail, RegularMode(tail), safe)
      /\ UNCHANGED <<control, platoons, platoonOf, pending>>

TrySplit ==
  /\ phase = "followers" /\ cuts # {}
  /\ \E safe \in SUBSET ToSet(platoons[current]) :
       \/ \E p \in Slots : NextSlot(p) /\ Split(safe, p)
       \/ NoSplit(safe)
  /\ cuts' = cuts \ {Max(cuts)}
  /\ UNCHANGED <<lifeVars, registered, sight, phase, todo, current, since>>

\* The platoons that were split off are registered after the loop.
EndFollowers ==
  /\ phase = "followers" /\ todo = {} /\ cuts = {}
  /\ registered' = registered \cup pending /\ pending' = {}
  /\ current' = NoPlatoon /\ phase' = "order"
  /\ UNCHANGED <<lifeVars, platoons, platoonOf, control, sight, todo, cuts, since>>

-----------------------------------------------------------------------------
(* _updatePlatoonOrdering and _manageLeaders.                              *)

\* intraPlatoonLeaders: the leaders the vehicles have within their own platoon.
IntraPlatoonLeader ==
  [v \in Vehicles |->
     IF sight[v].front \in connected /\ platoonOf[sight[v].front] = platoonOf[v]
     THEN sight[v].front ELSE NoLeader]

UpdatePlatoonOrdering ==
  /\ phase = "order"
  /\ platoons' = [p \in Slots |->
                    IF p \in registered THEN ReorderVehicles(platoons[p], IntraPlatoonLeader)
                    ELSE platoons[p]]
  /\ phase' = "leaders" /\ todo' = registered
  /\ UNCHANGED <<lifeVars, registered, platoonOf, control, sight, current, cuts, pending, since>>

\* A leader that was kept in a follower's mode first tries to become a leader again.
Reinstated(c, s, safe) ==
  IF c[s[1]].mode \in {"FOLLOWER", "CATCHUP_FOLLOWER"} THEN SetMode(c, s, GetMode(c, s), safe)
  ELSE c

\* No vehicle ahead within CATCHUP_DIST, or none that is connected.
LeadAlone(p, safe1, safe2) ==
  LET s == platoons[p]
  IN  /\ sight[s[1]].reach = "far"
      /\ control' = SetMode(Reinstated(control, s, safe1), s, RegularMode(s), safe2)
      /\ UNCHANGED <<platoons, platoonOf, pending>>

\* The leader ahead is not on the route (a vehicle on a link), or is of the same platoon.
LeadOn(p, safe1) ==
  LET s == platoons[p]
  IN  /\ sight[s[1]].front \in connected /\ sight[s[1]].reach # "far"
      /\ control' = Reinstated(control, s, safe1)
      /\ UNCHANGED <<platoons, platoonOf, pending>>

\* A connected vehicle is near enough to catch up with.
CatchUp(p, safe1, safe2) ==
  LET s == platoons[p]
  IN  /\ sight[s[1]].reach = "catchup"
      /\ sight[s[1]].front \in connected => platoonOf[sight[s[1]].front] # p
      /\ control' = SetMode(Reinstated(control, s, safe1), s, "CATCHUP", safe2)
      /\ UNCHANGED <<platoons, platoonOf, pending>>

\* The mode the members of a platoon take that joins platoon q.
JoiningMode(c, q) == IF GetMode(c, platoons[q]) = "CATCHUP" THEN "CATCHUP" ELSE "FOLLOWER"

\* Platoon.join of platoon q, with p at its end.  The leader of q must be able to switch when
\* it was solitary; otherwise it is switched to LEADER without a question.
CanJoin(c, p, q, safe) ==
  /\ c[platoons[q][1]].mode = "NONE" => IsSwitchSafe(c, platoons[q][1], "LEADER", safe)
  /\ ModeAccepted(c, platoons[p], JoiningMode(c, q), safe)

\* Fault: the leader of q keeps its mode.
JoinedSilently(c, p, q, safe) == ModesFrom(c, platoons[p], JoiningMode(c, q), safe)

Joined(c, p, q, safe) ==
  LET switched == ModesFrom(c, platoons[p], JoiningMode(c, q), safe)
      leader == platoons[q][1]
  IN  IF JoiningMode(c, q) = "CATCHUP" THEN switched
      ELSE [switched EXCEPT ![leader] = Switched(@, "LEADER")]

Join(p, safe1, safe2) ==
  LET s == platoons[p]
      q == platoonOf[sight[s[1]].front]
      c == Reinstated(control, s, safe1)
  IN  /\ sight[s[1]].front \in connected /\ sight[s[1]].reach = "join" /\ q # p
      /\ \/ /\ CanJoin(c, p, q, safe2)
            /\ control' = Joined(c, p, q, safe2)
            /\ platoons' = [platoons EXCEPT ![q] = @ \o s]
            /\ platoonOf' = [v \in Vehicles |-> IF v \in ToSet(s) THEN q ELSE platoonOf[v]]
            /\ pending' = pending \cup {p}
         \/ /\ ~CanJoin(c, p, q, safe2)
            /\ control' = c
            /\ UNCHANGED <<platoons, platoonOf, pending>>

ManageLeaders(p) ==
  /\ phase = "leaders" /\ p \in todo
  /\ \E safe1 \in SUBSET ToSet(platoons[p]), safe2 \in SUBSET Vehicles :
       \/ LeadAlone(p, safe1, safe2)
       \/ LeadOn(p, safe1)
       \/ CatchUp(p, safe1, safe2)
       \/ Join(p, safe1, safe2)
  /\ todo' = todo \ {p}
  /\ UNCHANGED <<lifeVars, registered, sight, phase, current, cuts, since>>

\* Fault: the platoons that joined another one stay registered.
EndLeadersKeeping ==
  /\ phase = "leaders" /\ todo = {}
  /\ pending' = {} /\ since' = 0 /\ phase' = "drive"
  /\ UNCHANGED <<lifeVars, groupVars, control, sight, todo, current, cuts>>

\* The platoons that joined another one are removed after the loop.
EndLeaders ==
  /\ phase = "leaders" /\ todo = {}
  /\ registered' = registered \ pending /\ pending' = {}
  /\ platoons' = [p \in Slots |-> IF p \in pending THEN << >> ELSE platoons[p]]
  /\ since' = 0 /\ phase' = "drive"
  /\ UNCHANGED <<lifeVars, platoonOf, control, sight, todo, current, cuts>>

\* simpla.stop: all vehicles are released, without a question.
Stop ==
  /\ phase = "drive"
  /\ control' = [v \in Vehicles |->
                   IF v \in connected THEN Switched(control[v], "NONE") ELSE control[v]]
  /\ connected' = {} /\ phase' = "stopped"
  /\ UNCHANGED <<life, departed, arrived, groupVars, sight, loopVars, since>>

Over == phase \in {"stopped", "failed"} /\ UNCHANGED vars

StepOfManager ==
  \/ \E v \in Vehicles : AddVehicle(v) \/ AddVanished(v) \/ LeavePlatoon(v)
  \/ DisconnectArrived \/ DropEmpty \/ AdviseRemaining \/ LeaderVanished \/ EndArrivals
  \/ \E p \in Slots : ManageFollowers(p) \/ ManageLeaders(p)
  \/ TrySplit \/ EndFollowers \/ UpdatePlatoonOrdering \/ EndLeaders

Next == SimulationStep \/ Stop \/ StepOfManager \/ Over

Spec == Init /\ [][Next]_vars

-----------------------------------------------------------------------------
(* Properties.                                                             *)

\* The platoons that have members to manage: the new ones of a split are not registered
\* yet, and those that have joined another one are registered still.
Active ==
  CASE phase = "followers" -> registered \cup pending
    [] phase = "leaders" -> registered \ pending
    [] OTHER -> registered

\* The three places that know who is in a platoon agree whenever step() reads them: the
\* list of every platoon, the reference of every vehicle to its platoon (_platoon.py:57)
\* and the two dictionaries of the manager, whose look-ups in _removeArrived and
\* _manageLeaders fail otherwise.  Nobody is listed twice and no empty platoon is kept.
MembersAgree ==
  phase \notin {"stopped", "failed"} =>
    /\ {v \in Vehicles : platoonOf[v] # NoPlatoon}
         = connected \cup (IF phase = "arrive" THEN arrived ELSE {})
    /\ \A v \in Vehicles : platoonOf[v] \in Active \cup {NoPlatoon}
    /\ \A p \in Active :
         /\ ToSet(platoons[p]) = {v \in Vehicles : platoonOf[v] = p}
         /\ IsInjective(platoons[p])
         /\ phase # "arrive" \/ p # current => platoons[p] # << >>

\* A vehicle in mode NONE is alone in its platoon (_platoon.py:152, 270): join relies on it
\* when it looks at the mode of the platoon ahead.
NoneIsSolitary ==
  phase # "stopped" =>
    \A p \in Active : Len(platoons[p]) > 1 =>
      \A v \in ToSet(platoons[p]) : control[v].mode # "NONE"

\* Whenever some order of a platoon has every vehicle right behind the leader it has within
\* the platoon, _updatePlatoonOrdering finds such an order (_platoonmanager.py:487).
InRealOrder(s) == InOrder(s, IntraPlatoonLeader)

OrderFound ==
  [][phase = "order" =>
       \A p \in registered :
         (\E s \in SetToSeqs(ToSet(platoons[p])) : InRealOrder(s)) => InRealOrder(platoons'[p])]_vars

\* When the traffic no longer changes, that is when every vehicle sees ahead what it saw in
\* the control pass before, the vehicles stop changing platoons, whatever isSwitchSafe
\* answers: joins, splits and new orders do not chase each other.  No fairness is needed.
Settles == <>[][sight' = sight]_sight => <>[][platoonOf' = platoonOf]_platoonOf
=============================================================================
