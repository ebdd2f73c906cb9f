-------------------------- MODULE ObservedGeneration --------------------------
(***************************************************************************)
(* What the status of a custom resource promises its clients: the          *)
(* generation a status carries was, in one step, the latest one when the   *)
(* status was stored, and a new generation is eventually carried or the    *)
(* resource goes away.  gen is 0 while the resource does not exist.        *)
(***************************************************************************)
EXTENDS Naturals

VARIABLES gen, observed

Init == gen = 0 /\ observed = 0

\* Users create the resource, give it new generations, and delete it.
Create == gen = 0 /\ gen' = 1 /\ observed' = 0
Edit   == gen > 0 /\ gen' = gen + 1 /\ UNCHANGED observed
Remove == gen > 0 /\ gen' = 0 /\ observed' = 0

\* The controller stores a status for the latest generation.
Observe == observed < gen /\ observed' = gen /\ UNCHANGED gen

Next == Create \/ Edit \/ Remove \/ Observe

Spec == Init /\ [][Next]_<<gen, observed>>

\* A generation does not stay unobserved.
Fairness == WF_<<gen, observed>>(observed < gen /\ (Observe \/ Remove))
===============================================================================
