------------------------ MODULE ContextSwitchActions ------------------------
(***************************************************************************)
(* The context-switch configuration actions of hef.cpp, reduced to what    *)
(* the three rewrite passes of parse_actions_in_operation tell apart: the  *)
(* logical Type, the config-channel index of a WriteDataCcw or fetch       *)
(* action, a count (CCW bursts of an AddCcwBurst, members of a repeated     *)
(* header), the sub-action type of a repeated header, and the              *)
(* m_is_in_repeated_block flag.  The proto payloads (cluster, lcu, sys     *)
(* indexes, the CCW data bytes) are left out: no pass reads them.          *)
(***************************************************************************)
EXTENDS Integers, Sequences, SequencesExt

CONSTANTS
  CfgChannels,      \* indexes of the config channels (config_resources)
  MaxActions,       \* length bound of an operation's HEF action list
  MaxRepeatCount,   \* std::numeric_limits<uint8_t>::max() (255 in the code)
  MaxCcwBursts,     \* IS_FIT_IN_UINT16 bound of total_ccw_bursts (65535)
  MaxDdrPairs       \* DDR pairs of a context needing manual credit management

ASSUME CfgChannels \subseteq Nat /\ CfgChannels # {}
ASSUME MaxActions \in Nat
ASSUME MaxRepeatCount \in Nat \ {0, 1}
ASSUME MaxCcwBursts \in Nat \ {0}
ASSUME MaxDdrPairs \in Nat

\* static const uint32_t MIN_REQUIRED_FOR_MERGING = 2
MIN_REQUIRED_FOR_MERGING == 2

\* Logical ContextSwitchConfigAction::Type values the passes meet.
WriteDataCcw                 == "WriteDataCcw"
TriggerNewDataFromDataInput  == "TriggerNewDataFromDataInput"
TriggerNewDataFromDataInputDdr == "TriggerNewDataFromDataInputDdr"
DisableLcu                   == "DisableLcu"
AddCcwBurst                  == "AddCcwBurst"
CreateDescForCcw             == "CreateDescForCcw"
EdgeLayerActivationActionsPositionMarker == "EdgeLayerActivationActionsPositionMarker"
DdrPairInfo                  == "DdrPairInfo"
StartDdrBufferingTask        == "StartDdrBufferingTask"
StartBurstCreditsTask        == "StartBurstCreditsTask"
AddRrepeated                 == "AddRrepeated"

NoSub == "none"

\* The ContextSwitchConfigAction constructor: m_is_in_repeated_block(false).
Action(t, idx, n, sub) == [type |-> t, idx |-> idx, n |-> n, sub |-> sub, rep |-> FALSE]

\* ContextSwitchConfigAction::create: the factory over the proto action case.
\* WriteDataCcwAction::create has already CHECKed cfg_channel_index < config.size().
\* The other action classes stand for their supports_repeated_block() value:
\* DisableLcu for the repeatable ones, the DDR input trigger for the others
\* (wait actions, WriteData, None behave alike in every pass).
HefActions ==
  {Action(WriteDataCcw, c, 0, NoSub) : c \in CfgChannels}
  \cup {Action(t, 0, 0, NoSub) : t \in {TriggerNewDataFromDataInput,
          TriggerNewDataFromDataInputDdr, DisableLcu}}

\* The action lists an operation can hold after the factory loop.
HefActionLists == BoundedSeq(HefActions, MaxActions)

\* supports_repeated_block() of each action class: true for DisableLcu,
\* EnableLcu, EnableSequencer, AllowInputDataflow of a non-DDR edge and
\* DdrPairInfo; false for WriteDataCcw, the fetch actions, wait actions,
\* markers, task starts and RepeatedHeaderAction itself.
RepeatableTypes == {DisableLcu, TriggerNewDataFromDataInput, DdrPairInfo}

supports_repeated_block(a) == a.type \in RepeatableTypes

\* push_fetch_config_actions: AddCcwBurstAction when support_pre_fetch,
\* otherwise CreateConfigDescAndFetchAction (which carries no burst count).
FetchAction(idx, bursts, support_pre_fetch) ==
  IF support_pre_fetch THEN Action(AddCcwBurst, idx, bursts, NoSub)
                       ELSE Action(CreateDescForCcw, idx, 0, NoSub)

\* RepeatedHeaderAction::create(sub_action_type, num_actions)
RepeatedHeader(sub, k) == Action(AddRrepeated, 0, k, sub)

\* The set std::set<uint8_t> iterated in ascending order.
AscendingSeq(S) == SetToSortSeq(S, <)

\* add_ddr_buffers_info: one DdrPairInfoAction per pair needing manual
\* credit management, then a StartDdrBufferingTaskAction if there was any.
DdrBuffersInfo(pairs) ==
  [k \in 1..pairs |-> Action(DdrPairInfo, k, 0, NoSub)]
  \o (IF pairs > 0 THEN <<Action(StartDdrBufferingTask, 0, 0, NoSub)>> ELSE <<>>)

\* get_repreated_actions_boundary_indices: the maximal runs [start, end] of
\* consecutive actions of one Type.
RepeatedBoundaries(s) ==
  {<<a, b>> \in (1..Len(s)) \X (1..Len(s)) :
     /\ a <= b
     /\ \A j \in a..b : s[j].type = s[a].type
     /\ a = 1 \/ s[a - 1].type # s[a].type
     /\ b = Len(s) \/ s[b + 1].type # s[a].type}

\* get_indexes_of_action_type: the runs whose first action has type t.
IndexesOfActionType(s, t) == {r \in RepeatedBoundaries(s) : s[r[1]].type = t}

\* get_end_indexes_of_action_type
EndIndexesOfActionType(s, t) == {r[2] : r \in IndexesOfActionType(s, t)}
=============================================================================
