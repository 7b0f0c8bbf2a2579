--------------------------- MODULE SingleEndpoint ---------------------------
(***************************************************************************)
(* What the runtime promises of the simulator's UDP endpoint, without      *)
(* calls, tasks or references: the ports it answers on and the one that it *)
(* reports as running.  A replacement binds its port while the old one is  *)
(* still answering, and becomes current only when nothing else answers.    *)
(***************************************************************************)
CONSTANTS Ports, NoPort

VARIABLES
    live,     \* the ports a responder of this process answers on
    current   \* the port reported as running, NoPort when stopped

Init ==
    /\ live = {}
    /\ current = NoPort

\* A replacement binds while at most one endpoint, the current one, answers.
Bind(p) ==
    /\ p \notin live
    /\ \A q, r \in live : q = r
    /\ live' = live \cup {p}
    /\ UNCHANGED current

\* The current endpoint is withdrawn but its socket is not closed yet.
Withdraw ==
    /\ current # NoPort
    /\ current' = NoPort
    /\ UNCHANGED live

\* A socket that is not the current one closes.
Release(p) ==
    /\ p \in live \ {current}
    /\ live' = live \ {p}
    /\ UNCHANGED current

\* The replacement becomes current, alone.
Promote(p) ==
    /\ current = NoPort
    /\ live = {p}
    /\ current' = p
    /\ UNCHANGED live

\* The current endpoint breaks.
Break ==
    /\ current # NoPort
    /\ live' = live \ {current}
    /\ current' = NoPort

\* The process ends.
Exit ==
    /\ live' = {}
    /\ current' = NoPort

Next ==
    \/ \E p \in Ports : Bind(p) \/ Release(p) \/ Promote(p)
    \/ Withdraw \/ Break \/ Exit

vars == <<live, current>>

Spec == Init /\ [][Next]_vars
=============================================================================
