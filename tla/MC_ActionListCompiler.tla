------------------------- MODULE MC_ActionListCompiler -------------------------
(***************************************************************************)
(* ActionListCompiler for TLC.  The code's widths are shrunk so that their *)
(* edges are reached by lists of at most four actions: a repeated header   *)
(* holds at most 3 members (255 in the code), so a run of four repeatable *)
(* actions splits into a chunk and a left-over; a channel's burst counter  *)
(* holds at most 2 (65535), so three writes to one channel in one run      *)
(* overflow it.  Each write carries 16 bytes (a CCW header and two data   *)
(* words) into pages of 32, so a channel's total ends mid-page or on a    *)
(* page boundary depending on its number of writes.                       *)
(***************************************************************************)
EXTENDS ActionListCompiler

MC_CfgChannels    == {0, 1}
MC_MaxActions     == 4
MC_MaxRepeatCount == 3
MC_MaxCcwBursts   == 2
MC_MaxDdrPairs    == 2
MC_CfgPageSize    == 32
MC_CcwDataLength  == 16
=============================================================================
