----------------------------- MODULE MCRealtime -----------------------------
(* The instance of Realtime that TLC checks. *)
EXTENDS Realtime
CONSTANTS k1, t1, t2, b1, b2, p1
=============================================================================
