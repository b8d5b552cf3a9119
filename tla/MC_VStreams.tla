----------------------------- MODULE MC_VStreams -----------------------------
(***************************************************************************)
(* VStreams for two input and two output vstreams.  Nothing tells two     *)
(* vstreams of one direction apart (clear() is given every order of them), *)
(* so permuting the inputs and the outputs is a sound symmetry.           *)
(***************************************************************************)
EXTENDS VStreams

CONSTANTS i1, i2, o1, o2

MC_Inputs == {i1, i2}
MC_Outputs == {o1, o2}

VStreamSymmetry ==
  {a @@ b : a \in Permutations(MC_Inputs), b \in Permutations(MC_Outputs)}
=============================================================================
