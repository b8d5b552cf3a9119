--------------------------- MODULE SerializeActions ---------------------------
(***************************************************************************)
(* The serialize API of the context-switch actions                         *)
(* (context_switch/context_switch_actions.cpp): every action class, its    *)
(* logical Type, the firmware action type it is constructed with (or none: *)
(* ACTION_TYPE_COUNT), supports_repeated_block(), and where                *)
(* serialize_params takes its fields from; ContextSwitchConfigAction::     *)
(* serialize, serialize_header, and RepeatedAction's create and serialize. *)
(*                                                                         *)
(* A buffer is [tag, rep, params]: the CONTROL_PROTOCOL__ACTION_HEADER_t   *)
(* (action_type, is_repeated) and the parameter struct, whose fields are   *)
(* kept only where they come from the context's edge layers; fields copied *)
(* from the create() arguments are the action's idx.  The firmware side,   *)
(* which reads the buffers back, is the reference Exec (spec.md sections   *)
(* 3 and 8, "Wire formats").                                               *)
(***************************************************************************)
EXTENDS Naturals, Sequences, SequencesExt, FiniteSets, Bitwise

CONSTANTS
  Streams,          \* stream (and other create-argument) indexes tried
  MaxGroup,         \* most sub-actions tried in one RepeatedAction
  ENGINE_SHIFT,     \* CONTEXT_SWITCH_DEFS__PACKED_VDMA_CHANNEL_ID__ENGINE_INDEX_SHIFT
  Engines,          \* vDMA engine indexes (MAX_VDMA_ENGINES_COUNT of them)
  SameTypeGroups    \* groups hold actions of one class only, as pass C builds them

VARIABLES
  ctx,      \* the ContextResources: its boundary and inter-context edge layers
  item,     \* the action being serialized: one action or a RepeatedAction
  build,    \* "debug" (assert aborts) or "release" (assert compiled out)
  result    \* what serialize returned, NoResult before

vars == <<ctx, item, build, result>>

\* CONTEXT_SWITCH_DEFS__ACTION_TYPE_COUNT: constructed with a Type only.
NoWire == "ACTION_TYPE_COUNT"

\* params: "members" (the create() arguments), "empty" (Buffer::create(0)),
\* "fetch", "channel", "dma_idle" (the edge layer of m_stream_index in the
\* context), "none" (serialize is overridden to return no buffer).
Class(type, wire, rep, params) == [type |-> type, wire |-> wire, rep |-> rep, params |-> params]

NoneAction == Class("None", NoWire, FALSE, "none")
ActivateConfigChannelAction == Class("ActivateConfigChannel", "ACTIVATE_CFG_CHANNEL", FALSE, "members")
DeactivateConfigChannelAction == Class("DeactivateConfigChannel", "DEACTIVATE_CFG_CHANNEL", FALSE, "members")
WriteDataCcwAction == Class("WriteDataCcw", NoWire, FALSE, "none")
AddCcwBurstAction == Class("AddCcwBurst", "FETCH_CCW_BURSTS", FALSE, "members")
FetchCfgChannelDescriptorsAction == Class("FetchCfgChannelDescriptors", "FETCH_CFG_CHANNEL_DESCRIPTORS", TRUE, "members")
StartBurstCreditsTaskAction == Class("StartBurstCreditsTask", "BURST_CREDITS_TASK_START", FALSE, "empty")
WaitForNetworkGroupChangeAction == Class("WaitForNetworkGroupChange", "APPLICATION_CHANGE_INTERRUPT", FALSE, "empty")
DisableLcuAction == Class("DisableLcu", "DISABLE_LCU", TRUE, "members")
WaitForLcuAction == Class("WaitForLcu", "LCU_INTERRUPT", FALSE, "members")
EnableLcuAction(is_default) ==
  IF is_default THEN Class("EnableLcuDefault", "ENABLE_LCU_DEFAULT", TRUE, "members")
                ELSE Class("EnableLcuNonDefault", "ENABLE_LCU_NON_DEFAULT", TRUE, "members")
EnableSequencerAction == Class("TriggerSequencer", "TRIGGER_SEQUENCER", TRUE, "members")
WaitForSequencerAction == Class("WaitForSequencerDone", "SEQUENCER_DONE_INTERRUPT", FALSE, "members")
\* The constructor always sets Type::TriggerNewDataFromDataInput, so the DDR
\* test of supports_repeated_block is never true.
AllowInputDataflowAction == Class("TriggerNewDataFromDataInput", "FETCH_DATA_FROM_VDMA_CHANNEL", TRUE, "fetch")
WaitForModuleConfigDoneAction == Class("WaitForModuleConfigDone", "MODULE_CONFIG_DONE_INTERRUPT", FALSE, "members")
DdrPairInfoAction == Class("DdrPairInfo", "ADD_DDR_PAIR_INFO", TRUE, "members")
StartDdrBufferingTaskAction == Class("StartDdrBufferingTask", "DDR_BUFFERING_START", FALSE, "empty")
ResetDdrBufferingTaskAction == Class("ResetDdrBufferingTask", "DDR_BUFFERING_RESET", FALSE, "empty")
ChangeVdmaToStreamMapping == Class("ChangeVdmaToStreamMapping", "CHANGE_VDMA_TO_STREAM_MAPPING", TRUE, "members")
WaitOutputTransferDoneAction == Class("WaitOutputTransferDone", "OUTPUT_CHANNEL_TRANSFER_DONE_INTERRUPT", FALSE, "channel")
OpenBoundaryInputChannelAction == Class("OpenBoundaryInputChannel", "OPEN_BOUNDARY_INPUT_CHANNEL", FALSE, "members")
OpenBoundaryOutputChannelAction == Class("OpenBoundaryOutputChannel", "OPEN_BOUNDARY_OUTPUT_CHANNEL", FALSE, "members")
ActivateBoundaryInputChannelAction == Class("ActivateBoundaryInputChannel", "ACTIVATE_BOUNDARY_INPUT", FALSE, "members")
ActivateBoundaryOutputChannelAction == Class("ActivateBoundaryOutputChannel", "ACTIVATE_BOUNDARY_OUTPUT", FALSE, "members")
ActivateInterContextInputChannelAction == Class("ActivateInterContextInputChannel", "ACTIVATE_INTER_CONTEXT_INPUT", FALSE, "members")
ActivateInterContextOutputChannelAction == Class("ActivateInterContextOutputChannel", "ACTIVATE_INTER_CONTEXT_OUTPUT", FALSE, "members")
ActivateDdrInputChannelAction == Class("ActivateDdrInputChannel", "ACTIVATE_DDR_BUFFER_INPUT", FALSE, "members")
ActivateDdrOutputChannelAction == Class("ActivateDdrOutputChannel", "ACTIVATE_DDR_BUFFER_OUTPUT", FALSE, "members")
ValidateChannelAction == Class("ValidateChannel", "VALIDATE_VDMA_CHANNEL", FALSE, "members")
DeactivateChannelAction == Class("DeactivateChannel", "DEACTIVATE_VDMA_CHANNEL", FALSE, "members")
WaitDmaIdleAction == Class("WaitDmaIdle", "WAIT_FOR_DMA_IDLE_ACTION", FALSE, "dma_idle")
WaitNmsIdleAction == Class("WaitNmsIdle", "WAIT_FOR_NMS", FALSE, "members")
EnableNmsAction == Class("EnableNms", "ENABLE_NMS", TRUE, "members")

ActionClasses ==
  {NoneAction, ActivateConfigChannelAction, DeactivateConfigChannelAction,
   WriteDataCcwAction, AddCcwBurstAction, FetchCfgChannelDescriptorsAction,
   StartBurstCreditsTaskAction, WaitForNetworkGroupChangeAction,
   DisableLcuAction, WaitForLcuAction, EnableLcuAction(TRUE), EnableLcuAction(FALSE),
   EnableSequencerAction, WaitForSequencerAction, AllowInputDataflowAction,
   WaitForModuleConfigDoneAction, DdrPairInfoAction, StartDdrBufferingTaskAction,
   ResetDdrBufferingTaskAction, ChangeVdmaToStreamMapping,
   WaitOutputTransferDoneAction, OpenBoundaryInputChannelAction,
   OpenBoundaryOutputChannelAction, ActivateBoundaryInputChannelAction,
   ActivateBoundaryOutputChannelAction, ActivateInterContextInputChannelAction,
   ActivateInterContextOutputChannelAction, ActivateDdrInputChannelAction,
   ActivateDdrOutputChannelAction, ValidateChannelAction, DeactivateChannelAction,
   WaitDmaIdleAction, WaitNmsIdleAction, EnableNmsAction}

Action(cls, idx) == [cls |-> cls, idx |-> idx]

Actions == {Action(c, i) : c \in ActionClasses, i \in Streams}

(***************************************************************************)
(* The context's edge layers: each stream index names at most one layer.   *)
(* A boundary layer keeps periph_bytes_per_buffer (pb) and                 *)
(* periph_buffers_per_frame (ppf); an inter-context layer keeps its        *)
(* buffer's bytes_in_pattern (bip) and desc_page_size (page).              *)
(***************************************************************************)
NoLayer == [kind |-> "none"]

Channels == [engine : Engines, index : Streams]

Layers ==
  [kind : {"boundary"}, channel : Channels, pb : {1, 2}, ppf : {1, 2}]
  \cup [kind : {"inter"}, channel : Channels, bip : 1 .. 3, page : {1, 2}]

Contexts == [Streams -> Layers \cup {NoLayer}]

\* pack_vdma_channel_id: channel_index | (engine_index << ENGINE_SHIFT), as uint8_t.
pack_vdma_channel_id(ch) == (ch.index | (ch.engine * 2 ^ ENGINE_SHIFT)) % 256

\* A search that skips the loop over the inter-context layers.
FindBoundaryLayer(c, s) == IF c[s].kind = "boundary" THEN c[s] ELSE NoLayer

\* The two loops of get_layer_channel_id (and its copies): the boundary
\* layers first, then the inter-context layers; NoLayer: "Stream not found".
FindLayer(c, s) ==
  IF c[s].kind = "boundary" THEN c[s]
  ELSE IF c[s].kind = "inter" THEN c[s]
  ELSE NoLayer

Ok(v) == [ok |-> TRUE, val |-> v]
Err == [ok |-> FALSE, val |-> <<>>]

\* AllowInputDataflowAction::serialize_params: credit in bytes and the
\* periph frame size for a boundary layer, credit in descriptors and the
\* pattern's descriptor count for an inter-context one.
FetchParams(l, s) ==
  [channel |-> pack_vdma_channel_id(l.channel), stream |-> s,
   credit |-> IF l.kind = "boundary" THEN "BYTES" ELSE "DESCRIPTORS",
   frame |-> IF l.kind = "boundary" THEN l.pb * l.ppf
             ELSE ((l.bip - 1) \div l.page) + 1]

\* WaitDmaIdleAction::serialize_params
DmaIdleParams(l, s) ==
  [channel |-> pack_vdma_channel_id(l.channel), is_inter |-> l.kind = "inter", stream |-> s]

\* serialize_params of each class; "none" returns HAILO_NOT_IMPLEMENTED.
serialize_params(a, c) ==
  LET l == FindLayer(c, a.idx) IN
  CASE a.cls.params = "members" -> Ok([members |-> a.idx])
    [] a.cls.params = "empty"   -> Ok([empty |-> TRUE])
    [] a.cls.params = "none"    -> Err
    [] l = NoLayer              -> Err
    [] a.cls.params = "fetch"   -> Ok(FetchParams(l, a.idx))
    [] a.cls.params = "channel" -> Ok([channel |-> pack_vdma_channel_id(l.channel)])
    [] a.cls.params = "dma_idle" -> Ok(DmaIdleParams(l, a.idx))

\* serialize_header leaving is_repeated unset.
serialize_header_unflagged(wire, is_repeated) == [tag |-> wire, rep |-> FALSE]

\* serialize_header: its CHECK is the one serialize made already.
serialize_header(wire, is_repeated) == [tag |-> wire, rep |-> is_repeated]

\* ContextSwitchConfigAction::serialize: the CHECK on the action type, the
\* header then the params in one buffer; NoneAction and WriteDataCcwAction
\* override it to return no buffer.
serialize(a, c, is_repeated) ==
  LET p == serialize_params(a, c) IN
  CASE a.cls.params = "none" -> Ok(<<>>)
    [] a.cls.wire = NoWire   -> Err
    [] ~p.ok                 -> Err
    [] OTHER -> LET h == serialize_header(a.cls.wire, is_repeated)
                IN  Ok(<<[tag |-> h.tag, rep |-> h.rep, params |-> p.val]>>)

(***************************************************************************)
(* RepeatedAction: a header action of type REPEATED_ACTION whose params    *)
(* are CONTEXT_SWITCH_DEFS__repeated_action_header_t, then one buffer per  *)
(* sub-action, serialized with is_repeated.                                *)
(***************************************************************************)
REPEATED_ACTION == "REPEATED_ACTION"

\* RepeatedAction::create: the four CHECKs, all on the list or its first
\* action (IS_FIT_IN_UINT8 on the count).
RepeatedActionCreate(subs) ==
  /\ subs # <<>>
  /\ Len(subs) <= 255
  /\ subs[1].cls.rep
  /\ subs[1].cls.wire # NoWire

\* RepeatedAction::serialize_params: m_sub_action_type is the first
\* action's type; last_executed 0; the count as uint8_t.
RepeatedParams(subs) ==
  [sub |-> subs[1].cls.wire, last_executed |-> 0, count |-> Len(subs) % 256]

\* RepeatedAction::serialize: the header through the base serialize, then
\* each sub-action with is_repeated, CHECKed to give one buffer.  The
\* assert that a sub-action has m_sub_action_type aborts a debug build and
\* is compiled out of a release build.
RECURSIVE SerializeSubs(_, _, _, _)
SerializeSubs(subs, sub_type, c, b) ==
  IF subs = <<>> THEN Ok(<<>>)
  ELSE LET a == Head(subs)
           r == serialize(a, c, TRUE)
           rest == SerializeSubs(Tail(subs), sub_type, c, b)
       IN  IF (b = "debug" /\ a.cls.wire # sub_type) \/ ~r.ok \/ Len(r.val) # 1 \/ ~rest.ok
           THEN Err
           ELSE Ok(r.val \o rest.val)

RepeatedActionSerialize(subs, c, b) ==
  LET header == serialize_header(REPEATED_ACTION, FALSE)
      members == SerializeSubs(subs, subs[1].cls.wire, c, b)
  IN  IF members.ok
      THEN Ok(<<[tag |-> header.tag, rep |-> header.rep, params |-> RepeatedParams(subs)]>>
              \o members.val)
      ELSE Err

(***************************************************************************)
(* What is serialized: one action, or a RepeatedAction over sub-actions    *)
(* create() accepts; with SameTypeGroups, only over actions of one class,  *)
(* the runs pass C of the action-list compiler groups.                     *)
(***************************************************************************)
Single(a) == [group |-> FALSE, subs |-> <<a>>]
Group(subs) == [group |-> TRUE, subs |-> subs]

GroupLists ==
  {s \in BoundedSeq(Actions, MaxGroup) :
     /\ RepeatedActionCreate(s)
     /\ SameTypeGroups => \A k \in 1 .. Len(s) : s[k].cls = s[1].cls}

Items == {Single(a) : a \in Actions} \cup {Group(s) : s \in GroupLists}

SerializeItem(it, c, b) ==
  IF it.group THEN RepeatedActionSerialize(it.subs, c, b)
              ELSE serialize(it.subs[1], c, FALSE)

NoResult == [ok |-> FALSE, val |-> "none"]

Init ==
  /\ ctx \in Contexts
  /\ item \in Items
  /\ build \in {"debug", "release"}
  /\ result = NoResult

Serialize ==
  /\ result = NoResult
  /\ result' = SerializeItem(item, ctx, build)
  /\ UNCHANGED <<ctx, item, build>>

Next == Serialize

Spec == Init /\ [][Next]_vars

-----------------------------------------------------------------------------
(***************************************************************************)
(* The firmware's reading of the buffers (spec.md, "Wire formats"): an     *)
(* action header, or a repeated header whose count following buffers are   *)
(* flagged is_repeated and run as actions of its sub-action type.          *)
(***************************************************************************)
RECURSIVE Exec(_)
Exec(bufs) ==
  IF bufs = <<>> THEN Ok(<<>>)
  ELSE LET h == Head(bufs) IN
    IF h.rep THEN Err
    ELSE IF h.tag # REPEATED_ACTION
    THEN LET rest == Exec(Tail(bufs))
         IN  IF rest.ok THEN Ok(<<[tag |-> h.tag, params |-> h.params]>> \o rest.val) ELSE Err
    ELSE LET k == h.params.count
             members == SubSeq(bufs, 2, k + 1)
             rest == Exec(SubSeq(bufs, k + 2, Len(bufs)))
         IN  IF k = 0 \/ Len(bufs) < k + 1 \/ \E j \in 1 .. k : ~members[j].rep \/ ~rest.ok
             THEN Err
             ELSE Ok([j \in 1 .. k |-> [tag |-> h.params.sub, params |-> members[j].params]]
                     \o rest.val)

\* Reference: the descriptors a pattern of bip bytes takes, whole pages.
PagesFor(bip, page) == CHOOSE n \in 1 .. bip : n * page >= bip /\ (n - 1) * page < bip

RefParams(a, l) ==
  CASE a.cls.params = "members" -> [members |-> a.idx]
    [] a.cls.params = "empty"   -> [empty |-> TRUE]
    [] a.cls.params = "channel" -> [channel |-> l.channel.engine * 32 + l.channel.index]
    [] a.cls.params = "dma_idle" ->
         [channel |-> l.channel.engine * 32 + l.channel.index,
          is_inter |-> l.kind = "inter", stream |-> a.idx]
    [] OTHER ->
         [channel |-> l.channel.engine * 32 + l.channel.index, stream |-> a.idx,
          credit |-> IF l.kind = "boundary" THEN "BYTES" ELSE "DESCRIPTORS",
          frame |-> IF l.kind = "boundary" THEN l.pb * l.ppf ELSE PagesFor(l.bip, l.page)]

\* The actions an item stands for, in order, as the firmware should run them.
Meaning(it, c) ==
  FoldLeft(LAMBDA acc, a :
             IF a.cls.params = "none" THEN acc
             ELSE Append(acc, [tag |-> a.cls.wire, params |-> RefParams(a, c[a.idx])]),
           <<>>, it.subs)

\* Actions whose params need an edge layer the context does not have.
Unresolved(it, c) ==
  {k \in 1 .. Len(it.subs) :
     it.subs[k].cls.params \in {"fetch", "channel", "dma_idle"} /\ c[it.subs[k].idx] = NoLayer}

\* Whatever serialize returns, the firmware reads back exactly the actions
\* the item stands for, in order, each with the type it was created with,
\* its group flagged as repeated, and its edge-layer fields (packed channel
\* id, credit type, frame size) those of the layer of its stream.
SerializedAsMeant ==
  result # NoResult /\ result.ok =>
    LET e == Exec(result.val) IN e.ok /\ e.val = Meaning(item, ctx)

\* serialize fails exactly when an action names a stream that is no edge
\* layer of the context (boundary or inter-context): the error paths of the
\* three layer lookups are the only ones a created action can reach.
FailsOnlyOnMissingLayer ==
  result # NoResult => (result.ok <=> Unresolved(item, ctx) = {})
=============================================================================
