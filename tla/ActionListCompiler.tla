--------------------------- MODULE ActionListCompiler ---------------------------
(***************************************************************************)
(* parse_actions_in_operation (hef.cpp) step by step: the three rewrite    *)
(* passes add_fetch_config_actions, handle_edge_layer_activation_actions   *)
(* and handle_repeated_actions, each a loop over configuration_actions     *)
(* that builds processed_configuration_actions one action_index at a time  *)
(* and then replaces the list.  One step of this module is one iteration   *)
(* of such a loop, one of its CHECK failures, or the replacement at its    *)
(* end.  The execute loop that follows runs each action's execute() in    *)
(* order; of it, this module keeps what the actions do to the config      *)
(* buffers, the only state of the loop that outlives the operation in     *)
(* this repository.  The operation is its context's only one, so the      *)
(* config buffers' precomputed totals are this operation's writes.        *)
(***************************************************************************)
EXTENDS ContextSwitchActions, FiniteSets

CONSTANTS CfgPageSize,    \* the config channels' descriptor page size, in bytes
          CcwDataLength   \* the data length of every WriteDataCcw action, in bytes

VARIABLES
  input,              \* the list built by the ContextSwitchConfigAction::create loop
  ctx,                \* support_pre_fetch, context flags, DDR pairs of the context
  pc,                 \* "fetch", "edge", "repeat", "done" or "failed"
  acts,               \* configuration_actions
  out,                \* processed_configuration_actions
  i,                  \* action_index (1-based)
  pending,            \* pending_config_stream_indexes
  total_ccw_bursts,   \* total_ccw_bursts, one counter per config channel
  cfg                 \* per cfg channel: bytes written, bytes under programmed descriptors

vars == <<input, ctx, pc, acts, out, i, pending, total_ccw_bursts, cfg>>

Abs == INSTANCE ActionListPasses
         WITH list  <- IF pc = "repeat" THEN [j \in DOMAIN acts |-> [acts[j] EXCEPT !.rep = FALSE]]
                                        ELSE acts,
              phase <- IF pc \in {"execute", "exec_failed"} THEN "done" ELSE pc

NoBursts == [c \in CfgChannels |-> 0]

\* The loop of a pass has run over the whole list: configuration_actions =
\* processed_configuration_actions, and the next pass starts from index 1.
EndOfPass(next) ==
  /\ i > Len(acts)
  /\ acts' = out
  /\ out' = <<>>
  /\ i' = 1
  /\ pc' = next

Init ==
  /\ input \in HefActionLists
  /\ ctx \in Abs!Contexts
  /\ pc = "fetch"
  /\ acts = input
  /\ out = <<>>
  /\ i = 1
  /\ pending = {}
  /\ total_ccw_bursts = NoBursts
  /\ cfg = [c \in CfgChannels |-> [cur |-> 0, programmed |-> 0]]

-----------------------------------------------------------------------------
(* Pass A: add_fetch_config_actions and proccess_write_ccw_action.         *)

CcwAt(k) == acts[k].type = WriteDataCcw

FitsBurstCounterOffByOne(c) == total_ccw_bursts[c] <= MaxCcwBursts

\* CHECK(IS_FIT_IN_UINT16(accum_ccw_bursts)) on total_ccw_bursts[c] + ccw_bursts (1).
FitsBurstCounter(c) == total_ccw_bursts[c] + 1 <= MaxCcwBursts

\* The accumulated burst count does not fit the counter: CHECK fails.
FetchBurstOverflow ==
  /\ pc = "fetch" /\ i <= Len(acts) /\ CcwAt(i)
  /\ ~FitsBurstCounter(acts[i].idx)
  /\ pc' = "failed"
  /\ UNCHANGED <<input, ctx, cfg, acts, out, i, pending, total_ccw_bursts>>

\* A write inside a run: remember the channel and count its burst.
FetchCcwInRun ==
  LET c == acts[i].idx IN
  /\ pc = "fetch" /\ i <= Len(acts) /\ CcwAt(i)
  /\ FitsBurstCounter(c)
  /\ i \notin EndIndexesOfActionType(acts, WriteDataCcw)
  /\ out' = Append(out, acts[i])
  /\ pending' = pending \cup {c}
  /\ total_ccw_bursts' = [total_ccw_bursts EXCEPT ![c] = @ + 1]
  /\ i' = i + 1
  /\ UNCHANGED <<input, ctx, cfg, pc, acts>>

\* push_fetch_config_actions: one fetch per pending channel, ascending.
PushFetchConfigActions(p, bursts) ==
  LET order == AscendingSeq(p)
  IN [k \in 1..Len(order) |-> FetchAction(order[k], bursts[order[k]], ctx.support_pre_fetch)]

CloseCcwRunDroppingWrite(a, p, bursts) == PushFetchConfigActions(p, bursts)

\* The last write of a run goes in first, then the fetch actions.
CloseCcwRun(a, p, bursts) == <<a>> \o PushFetchConfigActions(p, bursts)

KeepPending(p) == p

\* Cleanups: pending_config_stream_indexes.clear() ...
ClearPending(p) == {}

KeepBursts(bursts) == bursts

\* ... and every total_ccw_bursts entry set to 0.
ResetBursts(bursts) == NoBursts

\* The last write of a run: add it, push the fetch actions, clean up.
FetchCcwRunEnd ==
  LET c      == acts[i].idx
      bursts == [total_ccw_bursts EXCEPT ![c] = @ + 1]
  IN
  /\ pc = "fetch" /\ i <= Len(acts) /\ CcwAt(i)
  /\ FitsBurstCounter(c)
  /\ i \in EndIndexesOfActionType(acts, WriteDataCcw)
  /\ out' = out \o CloseCcwRun(acts[i], pending \cup {c}, bursts)
  /\ pending' = ClearPending(pending \cup {c})
  /\ total_ccw_bursts' = ResetBursts(bursts)
  /\ i' = i + 1
  /\ UNCHANGED <<input, ctx, cfg, pc, acts>>

FetchOther ==
  /\ pc = "fetch" /\ i <= Len(acts) /\ ~CcwAt(i)
  /\ out' = Append(out, acts[i])
  /\ i' = i + 1
  /\ UNCHANGED <<input, ctx, cfg, pc, acts, pending, total_ccw_bursts>>

FetchEnd ==
  /\ pc = "fetch"
  /\ EndOfPass("edge")
  /\ UNCHANGED <<input, ctx, cfg, pending, total_ccw_bursts>>

-----------------------------------------------------------------------------
(* Pass B: handle_edge_layer_activation_actions and                        *)
(* proccess_trigger_new_data_input_action.                                 *)

EdgeLayersInOperationFirstReturnOnly ==
  ~(ctx.is_preliminary_context /\ ~ctx.preliminary_run_asap)

\* The two early returns: a preliminary context outside preliminary_run_asap
\* mode, and a dynamic context past its first operation.
EdgeLayersInOperation ==
  /\ ~(ctx.is_preliminary_context /\ ~ctx.preliminary_run_asap)
  /\ ~(~ctx.is_preliminary_context /\ ~ctx.is_first_operation)

TriggerGroup == IndexesOfActionType(acts, TriggerNewDataFromDataInput)

EdgeSkip ==
  /\ pc = "edge" /\ i = 1
  /\ ~EdgeLayersInOperation
  /\ pc' = "repeat"
  /\ UNCHANGED <<input, ctx, cfg, acts, out, i, pending, total_ccw_bursts>>

\* CHECK(trigger_new_data_from_input_group_indexes.size() == 1)
EdgeTriggerGroupCount ==
  /\ pc = "edge" /\ i = 1
  /\ EdgeLayersInOperation
  /\ Cardinality(TriggerGroup) # 1
  /\ pc' = "failed"
  /\ UNCHANGED <<input, ctx, cfg, acts, out, i, pending, total_ccw_bursts>>

EdgeTrigger ==
  LET g == CHOOSE g \in TriggerGroup : TRUE IN
  /\ pc = "edge" /\ i <= Len(acts)
  /\ EdgeLayersInOperation /\ Cardinality(TriggerGroup) = 1
  /\ acts[i].type = TriggerNewDataFromDataInput
  /\ out' = out
          \o (IF i = g[1]
              THEN <<Action(EdgeLayerActivationActionsPositionMarker, 0, 0, NoSub)>>
                   \o DdrBuffersInfo(ctx.ddr_pairs)
              ELSE <<>>)
          \o <<acts[i]>>
          \o (IF i = g[2] THEN <<Action(StartBurstCreditsTask, 0, 0, NoSub)>> ELSE <<>>)
  /\ i' = i + 1
  /\ UNCHANGED <<input, ctx, cfg, pc, acts, pending, total_ccw_bursts>>

EdgeOther ==
  /\ pc = "edge" /\ i <= Len(acts)
  /\ EdgeLayersInOperation /\ Cardinality(TriggerGroup) = 1
  /\ acts[i].type # TriggerNewDataFromDataInput
  /\ out' = Append(out, acts[i])
  /\ i' = i + 1
  /\ UNCHANGED <<input, ctx, cfg, pc, acts, pending, total_ccw_bursts>>

EdgeEnd ==
  /\ pc = "edge"
  /\ EdgeLayersInOperation /\ Cardinality(TriggerGroup) = 1
  /\ EndOfPass("repeat")
  /\ UNCHANGED <<input, ctx, cfg, pending, total_ccw_bursts>>

-----------------------------------------------------------------------------
(* Pass C: handle_repeated_actions and get_start_indexes_of_repeated_actions. *)

\* The while loop over one repeatable run [st, en]: chunks of at most
\* MaxRepeatCount, stopping at the first chunk below MIN_REQUIRED_FOR_MERGING.
RECURSIVE ChunksFrom(_, _)
ChunksFrom(st, en) ==
  IF st < en
  THEN LET k == IF en - st + 1 < MaxRepeatCount THEN en - st + 1 ELSE MaxRepeatCount
       IN IF k < MIN_REQUIRED_FOR_MERGING THEN {}
          ELSE {<<st, k>>} \cup ChunksFrom(st + k, en)
  ELSE {}

\* The map from chunk start to chunk size, as a set of pairs.
StartIndexesOfRepeatedActions(s) ==
  UNION {ChunksFrom(r[1], r[2]) :
           r \in {r \in RepeatedBoundaries(s) : supports_repeated_block(s[r[1]])}}

SetIsInRepeatedBlockThroughEnd(s, st, k) ==
  [j \in DOMAIN s |-> IF st <= j /\ j <= st + k THEN [s[j] EXCEPT !.rep = TRUE] ELSE s[j]]

\* set_is_in_repeated_block(true) on actions st .. st + k - 1.
SetIsInRepeatedBlock(s, st, k) ==
  [j \in DOMAIN s |-> IF st <= j /\ j < st + k THEN [s[j] EXCEPT !.rep = TRUE] ELSE s[j]]

\* A chunk starts here: add a RepeatedHeaderAction, mark the chunk, add the action.
RepeatChunkStart ==
  /\ pc = "repeat" /\ i <= Len(acts)
  /\ \E ch \in StartIndexesOfRepeatedActions(acts) :
       /\ ch[1] = i
       /\ acts' = SetIsInRepeatedBlock(acts, i, ch[2])
       /\ out' = out \o <<RepeatedHeader(acts[i].type, ch[2]), acts'[i]>>
  /\ i' = i + 1
  /\ UNCHANGED <<input, ctx, cfg, pc, pending, total_ccw_bursts>>

RepeatOther ==
  /\ pc = "repeat" /\ i <= Len(acts)
  /\ \A ch \in StartIndexesOfRepeatedActions(acts) : ch[1] # i
  /\ out' = Append(out, acts[i])
  /\ i' = i + 1
  /\ UNCHANGED <<input, ctx, cfg, pc, acts, pending, total_ccw_bursts>>

RepeatEnd ==
  /\ pc = "repeat"
  /\ EndOfPass("execute")
  /\ UNCHANGED <<input, ctx, cfg, pending, total_ccw_bursts>>

-----------------------------------------------------------------------------
(* The execute loop: configuration_action->execute() for each action in   *)
(* order, CHECK_SUCCESS on each.  Only WriteDataCcwAction and             *)
(* CreateConfigDescAndFetchAction touch a config buffer; the others write *)
(* firmware metadata through HEF_METADATA__* functions not in this        *)
(* repository, and succeed here.                                          *)

CCW_HEADER_SIZE == 8

\* pad_with_nops counts NOPs with a uint8_t index: the loop ends only if
\* nop_count < 256, which holds when a page has at most 256 CCW headers.
ASSUME CfgPageSize \div CCW_HEADER_SIZE <= 256

\* get_config_buffer_info with update_parsing_info: the data lengths of the
\* context's WriteDataCcw actions per cfg channel, summed by the resources
\* manager into the ConfigBuffer's total size.
total_cfg_size(c) ==
  CcwDataLength * Cardinality({j \in DOMAIN input : input[j].type = WriteDataCcw /\ input[j].idx = c})

\* ConfigBuffer::write(data, n): n bytes appended.
ConfigWrite(b, n) == [b EXCEPT !.cur = @ + n]

\* ConfigBuffer::program_descriptors(): descriptors over every byte written.
ProgramDescriptors(b) == [b EXCEPT !.programmed = b.cur]

\* A last-write test that leaves out the write's own length.
is_last_ccw_write_without_size(c) == cfg[c].cur = total_cfg_size(c)

\* is_last_ccw_write: this write brings the buffer to its precomputed total.
is_last_ccw_write(c) == CcwDataLength + cfg[c].cur = total_cfg_size(c)

\* pad_with_nops: the residue of the total in its last page must be whole
\* CCW headers (else HAILO_INTERNAL_FAILURE) ...
PadResidueOk(c) == (total_cfg_size(c) % CfgPageSize) % CCW_HEADER_SIZE = 0

\* ... and nop_count CCW_NOPs fill the rest of that page.
nop_count(c) ==
  LET residue == total_cfg_size(c) % CfgPageSize
  IN IF residue = 0 THEN 0 ELSE (CfgPageSize - residue) \div CCW_HEADER_SIZE

\* WriteDataCcwAction::execute: with pre-fetch, the channel's last write is
\* preceded by the NOP padding and followed by program_descriptors().
ExecWriteDataCcw ==
  LET c   == acts[i].idx
      pad == ctx.support_pre_fetch /\ is_last_ccw_write(c)
  IN
  /\ pc = "execute" /\ i <= Len(acts) /\ CcwAt(i)
  /\ IF pad /\ ~PadResidueOk(c)
     THEN /\ pc' = "exec_failed"
          /\ UNCHANGED <<cfg, i>>
     ELSE /\ cfg' = [cfg EXCEPT ![c] =
                       LET padded  == IF pad THEN ConfigWrite(@, nop_count(c) * CCW_HEADER_SIZE) ELSE @
                           written == ConfigWrite(padded, CcwDataLength)
                       IN IF pad THEN ProgramDescriptors(written) ELSE written]
          /\ i' = i + 1
          /\ UNCHANGED pc
  /\ UNCHANGED <<input, ctx, acts, out, pending, total_ccw_bursts>>

\* CreateConfigDescAndFetchAction::execute: program_descriptors() on its
\* channel's buffer (the uint16 CHECK on their count cannot fail for the
\* few pages an operation of MaxActions writes fills).
ExecCreateDescForCcw ==
  /\ pc = "execute" /\ i <= Len(acts) /\ acts[i].type = CreateDescForCcw
  /\ cfg' = [cfg EXCEPT ![acts[i].idx] = ProgramDescriptors(@)]
  /\ i' = i + 1
  /\ UNCHANGED <<input, ctx, pc, acts, out, pending, total_ccw_bursts>>

ExecOther ==
  /\ pc = "execute" /\ i <= Len(acts)
  /\ acts[i].type \notin {WriteDataCcw, CreateDescForCcw}
  /\ i' = i + 1
  /\ UNCHANGED <<input, ctx, cfg, pc, acts, out, pending, total_ccw_bursts>>

\* The loop is over: parse_actions_in_operation returns HAILO_SUCCESS.
ExecEnd ==
  /\ pc = "execute" /\ i > Len(acts)
  /\ pc' = "done"
  /\ UNCHANGED <<input, ctx, cfg, acts, out, i, pending, total_ccw_bursts>>

-----------------------------------------------------------------------------
Next ==
  \/ FetchBurstOverflow \/ FetchCcwInRun \/ FetchCcwRunEnd \/ FetchOther \/ FetchEnd
  \/ EdgeSkip \/ EdgeTriggerGroupCount \/ EdgeTrigger \/ EdgeOther \/ EdgeEnd
  \/ RepeatChunkStart \/ RepeatOther \/ RepeatEnd
  \/ ExecWriteDataCcw \/ ExecCreateDescForCcw \/ ExecOther \/ ExecEnd

Spec == Init /\ [][Next]_vars


-----------------------------------------------------------------------------
(* Properties.                                                             *)

ActionRecords ==
  [type : {WriteDataCcw, TriggerNewDataFromDataInput, TriggerNewDataFromDataInputDdr,
           DisableLcu, AddCcwBurst, CreateDescForCcw,
           EdgeLayerActivationActionsPositionMarker, DdrPairInfo,
           StartDdrBufferingTask, StartBurstCreditsTask, AddRrepeated},
   idx : CfgChannels \cup (0..MaxDdrPairs),
   n : 0..(MaxCcwBursts + MaxRepeatCount),
   sub : RepeatableTypes \cup {NoSub},
   rep : BOOLEAN]

TypeOK ==
  /\ input \in Seq(HefActions) /\ Len(input) <= MaxActions
  /\ ctx \in Abs!Contexts
  /\ pc \in {"fetch", "edge", "repeat", "execute", "done", "failed", "exec_failed"}
  /\ acts \in Seq(ActionRecords) /\ out \in Seq(ActionRecords)
  /\ i \in 1..(Len(acts) + 1)
  /\ pending \subseteq CfgChannels
  /\ total_ccw_bursts \in [CfgChannels -> 0..MaxCcwBursts]
  /\ cfg \in [CfgChannels -> [cur : Nat, programmed : Nat]]

\* The loop-by-loop rewrite in hef.cpp implements the atomic passes of
\* ActionListPasses: same final list, and failure exactly when a pass's
\* CHECK says so (burst overflow in a run, trigger group count # 1).
ImplementsPasses == Abs!Spec

Positions(s, t) == {j \in DOMAIN s : s[j].type = t}

\* With pre-fetch (AddCcwBurstAction), the burst counts handed to firmware
\* for a config channel add up to the number of WriteDataCcw actions of the
\* operation on that channel: no burst is lost or counted twice across runs.
BurstConservation ==
  (pc = "done" /\ ctx.support_pre_fetch) =>
    \A c \in CfgChannels :
      SumFunctionOnSet([j \in DOMAIN acts |-> acts[j].n],
                       {j \in Positions(acts, AddCcwBurst) : acts[j].idx = c})
      = Cardinality({j \in Positions(input, WriteDataCcw) : input[j].idx = c})

\* After all passes, a context with edge layers in this operation has exactly
\* one EdgeLayerActivationActionsPositionMarker, followed only by DDR buffer
\* info and repeated headers up to the first input trigger, and exactly one
\* StartBurstCreditsTask, right after the last input trigger; any other
\* operation has neither.
SingleActivationRun ==
  pc = "done" =>
    LET M == Positions(acts, EdgeLayerActivationActionsPositionMarker)
        S == Positions(acts, StartBurstCreditsTask)
        T == Positions(acts, TriggerNewDataFromDataInput)
    IN IF Abs!Eligible(ctx)
       THEN /\ Cardinality(M) = 1 /\ Cardinality(S) = 1 /\ T # {}
            /\ \A m \in M, s \in S :
                 /\ \A j \in (m + 1)..(Min(T) - 1) :
                      acts[j].type \in {DdrPairInfo, StartDdrBufferingTask, AddRrepeated}
                 /\ s = Max(T) + 1
       ELSE M = {} /\ S = {}

Inserted == {AddCcwBurst, CreateDescForCcw, EdgeLayerActivationActionsPositionMarker,
             DdrPairInfo, StartDdrBufferingTask, StartBurstCreditsTask, AddRrepeated}

\* Removing every action the passes insert, and the repeated flags, gives
\* back the operation's HEF actions in their order: no pass drops,
\* duplicates or reorders an action of the HEF.
RoundTrip ==
  pc = "done" =>
    LET kept == SelectSeq(acts, LAMBDA a : a.type \notin Inserted)
    IN [j \in DOMAIN kept |-> [kept[j] EXCEPT !.rep = FALSE]] = input

\* Every repeated header announces MIN_REQUIRED_FOR_MERGING..MaxRepeatCount
\* members, all directly after it, of its sub-action type and flagged; every
\* flagged action lies in the span of exactly one header.
HeaderWellFormed ==
  pc = "done" =>
    /\ \A h \in Positions(acts, AddRrepeated) :
         /\ acts[h].n \in MIN_REQUIRED_FOR_MERGING..MaxRepeatCount
         /\ h + acts[h].n <= Len(acts)
         /\ \A j \in (h + 1)..(h + acts[h].n) : acts[j].type = acts[h].sub /\ acts[j].rep
    /\ \A j \in DOMAIN acts : acts[j].rep =>
         Cardinality({h \in Positions(acts, AddRrepeated) : h < j /\ j <= h + acts[h].n}) = 1

\* When parse_actions_in_operation returns, every byte the operation wrote
\* into a config buffer lies under programmed descriptors, and with
\* pre-fetch each buffer ends on a page boundary: without pre-fetch a
\* CreateConfigDescAndFetchAction of the fetch pass follows each channel's
\* last write; with pre-fetch the write that is_last_ccw_write finds last,
\* against the total the parsing pre-pass computed, pads with NOPs and
\* programs the buffer.
ConfigBuffersFetched ==
  pc = "done" =>
    \A c \in CfgChannels :
      /\ cfg[c].programmed = cfg[c].cur
      /\ ctx.support_pre_fetch => cfg[c].cur % CfgPageSize = 0

=============================================================================
