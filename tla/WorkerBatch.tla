----------------------------- MODULE WorkerBatch -----------------------------
(***************************************************************************)
(* What a pool of workers promises the thread that uses it: tasks are      *)
(* handed over one at a time, completed in any order, and a wait ends only *)
(* when nothing is open.  Clearing the pool discards what is open.         *)
(***************************************************************************)
EXTENDS Naturals

VARIABLES
  open,    \* the tasks handed over and not completed
  waiting  \* the user waits for all of them

batchVars == <<open, waiting>>

BatchInit == open = {} /\ waiting = FALSE

HandOver == /\ ~waiting
            /\ \E task \in open' \ open : task \in Nat /\ open' = open \cup {task}
            /\ UNCHANGED waiting

Complete == /\ \E task \in open : open' = open \ {task}
            /\ UNCHANGED waiting

Wait == ~waiting /\ waiting' = TRUE /\ UNCHANGED open

Return == waiting /\ open = {} /\ waiting' = FALSE /\ UNCHANGED open

Discard == ~waiting /\ open' = {} /\ UNCHANGED waiting

BatchNext == HandOver \/ Complete \/ Wait \/ Return \/ Discard

BatchSpec == BatchInit /\ [][BatchNext]_batchVars
=============================================================================
