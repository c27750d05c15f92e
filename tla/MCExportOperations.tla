------------------------- MODULE MCExportOperations -------------------------
(* Instances of ExportOperations for TLC.                                  *)
EXTENDS ExportOperations, TLC

CONSTANTS p, q

(* Every operation has a requester of its own, so that the global cap is   *)
(* what limits them.                                                       *)
Own == [o \in Ops |-> o]

(* Own maps with the operations it permutes.                               *)
Sym == Permutations(Ops)
=============================================================================
