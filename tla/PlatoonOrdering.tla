-------------------------- MODULE PlatoonOrdering --------------------------
(***************************************************************************)
(* PlatoonManager.reorderVehicles of src/tools/simpla/_platoonmanager.py:  *)
(* the order in which a platoon registers its vehicles is corrected from   *)
(* the leaders the vehicles really have.  The list actualLeaders of the    *)
(* code is changed together with the list of vehicles, so it stays a       *)
(* function of the vehicle; here it is one.                                *)
(***************************************************************************)
EXTENDS Naturals, SequencesExt

CONSTANT NoLeader    \* no leader within the platoon (None)

\* The vehicle registered before position i, its leader by the order of the platoon.
RegisteredLeader(s, i) == IF i = 1 THEN NoLeader ELSE s[i - 1]

\* The vehicle at position i has no leader within the platoon or the registered one.
InPlace(s, i, lead) == lead[s[i]] \in {NoLeader, RegisteredLeader(s, i)}

InOrder(s, lead) == \A i \in DOMAIN s : InPlace(s, i, lead)

Position(s, v) == CHOOSE i \in DOMAIN s : s[i] = v

\* Fault: v is put before its leader.
RelocateBefore(s, v, u) ==
  LET rest == RemoveAt(s, Position(s, v)) IN InsertAt(rest, Position(rest, u), v)

\* v is taken out of the order and put right behind u.
Relocate(s, v, u) ==
  LET rest == RemoveAt(s, Position(s, v)) IN InsertAt(rest, Position(rest, u) + 1, v)

\* The vehicle at position i of the old order s has its turn, r being the new order so far.
Turn(s, lead, i, r) == IF InPlace(s, i, lead) THEN r ELSE Relocate(r, s[i], lead[s[i]])

\* One pass of the while loop: from the last vehicle to the first, each one that is not
\* behind its actual leader is relocated; who is out of place is read from the old order.
\* after[n] is the new order when n vehicles have had their turn.
ReorderPass(s, lead) ==
  LET after[n \in 0..Len(s)] ==
        IF n = 0 THEN s ELSE Turn(s, lead, Len(s) + 1 - n, after[n - 1])
  IN  after[Len(s)]

NextPass(s, lead) == IF InOrder(s, lead) THEN s ELSE ReorderPass(s, lead)

\* The passes stop as soon as one changes nothing, and after as many as there are vehicles.
AfterPasses(s, lead) ==
  LET after[n \in 0..Len(s)] == IF n = 0 THEN s ELSE NextPass(after[n - 1], lead)
  IN  after[Len(s)]

\* A vehicle found to be its own leader leaves the order as it is.
ReorderVehicles(s, lead) ==
  IF \E i \in DOMAIN s : lead[s[i]] = s[i] THEN s ELSE AfterPasses(s, lead)
=============================================================================
