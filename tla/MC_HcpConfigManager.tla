------------------------- MODULE MC_HcpConfigManager -------------------------
(***************************************************************************)
(* HcpConfigManager with network group contents that take each of         *)
(* add_hef's per-group CHECKs both ways: one valid single-context group    *)
(* (a boundary layer name repeated by an inter-context layer, which the    *)
(* uniqueness check ignores, and CCW buffers of an even and an odd word    *)
(* count), and one group per CHECK that fails it.                          *)
(***************************************************************************)
EXTENDS HcpConfigManager

Boundary(t, n) == [connection |-> "BOUNDARY", type |-> t, name |-> n]
InterContext(n) == [connection |-> "INTER_CONTEXT", type |-> "INFO", name |-> n]
Ddr(n) == [connection |-> "DDR", type |-> "INFO", name |-> n]

Act(c) == [case |-> c, address |-> 0, length |-> 0, words_count |-> 0]
WriteData == [case |-> "WRITE_DATA", address |-> 1, length |-> 8, words_count |-> 0]
\* A CCW buffer: the 8-byte header, then its data words, padded to even.
Ccw(len, wc) == [case |-> "WRITE_DATA_CCW", address |-> 2, length |-> len,
                 words_count |-> wc]

Operation(t, as) == [trigger |-> t, actions |-> as]

ValidLayers == <<Boundary("INFO", "a"), Boundary("MUX", "b"), InterContext("a")>>

ValidConfig ==
  << Operation("NONE", <<Act("NONE"), WriteData, Ccw(16, 1), Act("DISABLE_LCU")>>),
     Operation("NONE", <<Ccw(16, 0), Act("ENABLE_LCU"),
                         Act("ALLOW_INPUT_DATAFLOW"),
                         Act("WAIT_FOR_MODULE_CONFIG_DONE")>>) >>

MC_NetworkGroups ==
  { [contexts |-> <<ValidLayers>>, preliminary |-> ValidConfig],
    [contexts |-> <<ValidLayers, ValidLayers>>, preliminary |-> ValidConfig],
    [contexts |-> <<<<Boundary("INFO", "a"), Ddr("d")>>>>, preliminary |-> ValidConfig],
    [contexts |-> <<<<Boundary("INFO", "a"), Boundary("MUX", "a")>>>>,
     preliminary |-> ValidConfig],
    [contexts |-> <<ValidLayers>>,
     preliminary |-> <<Operation("NONE", <<WriteData, Act("ENABLE_SEQUENCER")>>)>>],
    [contexts |-> <<ValidLayers>>,
     preliminary |-> <<Operation("NONE", <<Ccw(12, 1)>>)>>],
    [contexts |-> <<ValidLayers>>,
     preliminary |-> <<Operation("OTHER", <<WriteData>>)>>] }
=============================================================================
