---------------------------- MODULE MCMibReaders ----------------------------
(* MibReaders on a small instance.                                         *)
EXTENDS MibReaders, TLC

CONSTANTS base, derived, reader

MCImports == (base :> {}) @@ (derived :> {base})
SmallBatches ==
    {{<<"common", base>>}, {<<"vendor", derived>>}, {<<"common", base>>, <<"vendor", derived>>}}
=============================================================================
