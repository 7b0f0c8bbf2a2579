---------------------------- MODULE CatalogSwitch ----------------------------
(***************************************************************************)
(* What bundle activation promises its readers: one catalogue is current,  *)
(* the one before it is remembered, and what is served from memory is the  *)
(* current one, or nothing, except for the moment between a switch and its *)
(* publication.  A second switch cannot overtake that publication.         *)
(***************************************************************************)
EXTENDS Naturals

VARIABLES
    current,   \* the bundle the installation is switched to, 0 for none
    previous,  \* the bundle that was current before it, 0 for none
    served     \* the bundle queries are answered from, 0 for none

vars == <<current, previous, served>>

Init ==
    /\ current = 0
    /\ previous = 0
    /\ served = 0

Settled == current # 0 => served \in {0, current}

\* A switch starts from a settled catalogue and does not yet serve the new one.
Switch ==
    /\ Settled
    /\ current' \in Nat \ {0}
    /\ previous' = current
    /\ UNCHANGED served

\* The current catalogue is published; with none current any may stand in.
Serve ==
    /\ served' \in IF current = 0 THEN Nat \ {0} ELSE {current}
    /\ UNCHANGED <<current, previous>>

\* The serving process is gone.
Lose ==
    /\ served' = 0
    /\ UNCHANGED <<current, previous>>

Next == Switch \/ Serve \/ Lose

Spec == Init /\ [][Next]_vars
=============================================================================
