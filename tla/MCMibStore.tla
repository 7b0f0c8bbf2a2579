----------------------------- MODULE MCMibStore -----------------------------
(* MibStore on a small instance.                                           *)
EXTENDS MibStore, TLC

CONSTANTS base, derived

\* derived imports base; uploads come one file at a time or both together.
MCImports == (base :> {}) @@ (derived :> {base})
SmallBatches ==
    {{<<"common", base>>}, {<<"vendor", derived>>}, {<<"common", base>>, <<"vendor", derived>>}}

\* Behaviours of Spec in which nothing but uploads is asked for, and no write
\* fails: the plainest way two uploads can affect each other.
UploadsOnly ==
    Init /\ [][ \/ StartUp \/ JobGoesOn \/ Crash
               \/ \E new \in Batches : UploadBegins(new)
               \/ UploadAnalyses \/ UploadRefused \/ UploadWrites
               \/ UploadCompiles \/ UploadEnds ]_vars
=============================================================================
