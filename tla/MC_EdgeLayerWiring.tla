------------------------- MODULE MC_EdgeLayerWiring -------------------------
(***************************************************************************)
(* The network groups tried: up to three contexts, each with or without   *)
(* its own boundary input (stream 10 + c) and output (stream 13 + c), an  *)
(* inter-context edge to the next context (output stream 2 + c, input     *)
(* stream 4 + c + 1), and a DDR pair (output stream 8, input stream 9).   *)
(* Boundary and inter-context edges are on engine 2, the DDR pair of       *)
(* context c on engine c or on engine 0, the latter the placement in    *)
(* which fill_ddr_output_layer's request on dst_context_index picks     *)
(* the wrong engine: with two channels per engine and direction,         *)
(* the boundary leases of two earlier contexts and a third edge exhaust  *)
(* an engine.  Malformed HEFs exercise the CHECKs: a forward-referencing *)
(* inter-context input, a DDR input looking up a pair nobody created, two *)
(* DDR outputs feeding one input, an unmatched DDR input, a boundary     *)
(* layer in two contexts, and four contexts.                             *)
(***************************************************************************)
EXTENDS EdgeLayerWiring

NumContexts == 3

BoundaryIn(c) == Layer("boundary", "h2d", 10 + c, 2, 0, 0, 0)
BoundaryOut(c) == Layer("boundary", "d2h", 13 + c, 2, 0, 0, 0)
InterOut(c) == Layer("inter", "d2h", 2 + c, 2, c + 1, 4 + c + 1, 0)
InterIn(c) == Layer("inter", "h2d", 4 + c, 2, c - 1, 2 + c - 1, 0)
DdrOut(c, e) == Layer("ddr", "d2h", 8, e, c, 9, e)
DdrIn(c, e) == Layer("ddr", "h2d", 9, e, c, 8, e)

Flags == [bin : BOOLEAN, bout : BOOLEAN, inter : BOOLEAN, ddr : BOOLEAN]

ContextLayers(f, c, DdrEngine(_)) ==
  (IF f[c].bin THEN {BoundaryIn(c)} ELSE {})
  \cup (IF f[c].bout THEN {BoundaryOut(c)} ELSE {})
  \cup (IF f[c].inter /\ c < NumContexts - 1 THEN {InterOut(c)} ELSE {})
  \cup (IF c > 0 /\ f[c - 1].inter THEN {InterIn(c)} ELSE {})
  \cup (IF f[c].ddr THEN {DdrOut(c, DdrEngine(c)), DdrIn(c, DdrEngine(c))} ELSE {})

Generated(DdrEngine(_)) ==
  {[i \in 1 .. NumContexts |-> ContextLayers(f, i - 1, DdrEngine)] :
     f \in [0 .. NumContexts - 1 -> Flags]}

Malformed ==
  { <<{BoundaryOut(0), Layer("inter", "h2d", 7, 2, 1, 3, 0)}, {InterOut(1)}>>,
    <<{DdrOut(0, 0), Layer("ddr", "h2d", 9, 0, 0, 7, 0)}>>,
    <<{DdrOut(0, 0), Layer("ddr", "d2h", 10, 0, 0, 9, 0),
       DdrIn(0, 0), Layer("ddr", "h2d", 11, 0, 0, 10, 0)}>>,
    <<{DdrIn(0, 0)}>>,
    <<{BoundaryIn(0)}, {BoundaryIn(0)}>>,
    [i \in 1 .. 4 |-> {BoundaryIn(i - 1)}] }

\* Each DDR pair on the engine numbered like its context.
DdrOnContextEngine(c) == c

\* Every DDR pair on engine 0.
DdrOnEngine0(c) == 0

MC_Programs == Generated(DdrOnContextEngine) \cup Generated(DdrOnEngine0) \cup Malformed

MC_ProgramsEngine0 == Generated(DdrOnEngine0)
=============================================================================
