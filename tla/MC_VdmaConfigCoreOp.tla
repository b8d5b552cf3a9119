------------------------- MODULE MC_VdmaConfigCoreOp -------------------------
(* Two core ops configured on one device. *)
EXTENDS VdmaConfigCoreOp

CONSTANTS c1, c2

MC_CoreOps == {c1, c2}
=============================================================================
