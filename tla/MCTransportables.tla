-------------------------- MODULE MCTransportables --------------------------
(***************************************************************************)
(* Transportables with two edges and plans of every kind of stage.         *)
(***************************************************************************)
EXTENDS Transportables

CONSTANTS e1, e2, v1, v2

Of(kind, e) == [kind |-> kind, to |-> e, atStop |-> FALSE, lines |-> {}, duration |-> -1, until |-> -1]
Start == Of("start", e1)
Walk == Of("walk", e2)
Ride(e, vs) == [Of("ride", e) EXCEPT !.lines = vs]
Wait(e, d, u) == [Of("wait", e) EXCEPT !.duration = d, !.until = u]

Rides == <<Start, Ride(e2, {v1, v2}), Wait(e2, -1, 2), Ride(e1, {v1})>>
Walks == <<Start, Of("trip", e1), Walk, [Of("access", e1) EXCEPT !.atStop = TRUE], Ride(e2, {v2})>>
Stops == <<Start, Wait(e1, 0, -1), Of("hop", e2)>>
Hops == <<Start, Of("hop", e2)>>
Waits == <<Start, Of("hop", e1), Wait(e1, 1, -1), Wait(e1, 0, 1)>>

MCPlans == {Rides, Walks, Stops, Hops, Waits}
MCStages == UNION {{pl[k] : k \in 1..Len(pl)} : pl \in MCPlans}
MCCapacity == [v \in Vehicles |-> IF v = v1 THEN 1 ELSE 2]
=============================================================================
