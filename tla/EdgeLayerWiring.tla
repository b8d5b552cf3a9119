---------------------------- MODULE EdgeLayerWiring ----------------------------
(***************************************************************************)
(* The multi-context assembler of hef.cpp (create_resources_manager,       *)
(* fill_preliminary_config_recepies_for_multi_context,                     *)
(* fill_context_recepies_for_multi_context) and its edge-layer wiring      *)
(* (parse_and_fill_edge_layers_mapping and the six fill_*_layer            *)
(* functions): per context, the channel leases taken from the              *)
(* ResourcesManager's allocator, the inter-context buffers and DDR channel *)
(* pairs created and looked up, the channel ids written into the context's *)
(* metadata, and the leases given back at the end of the context.          *)
(*                                                                         *)
(* One step is one loop iteration of parse_and_fill_edge_layers_mapping    *)
(* (one fill_* call, or one free_channel_index round).  The operations of  *)
(* a context (parse_actions_in_operation, modelled in ActionListCompiler)  *)
(* are one step that succeeds or fails.  Compilation is single-threaded    *)
(* and one-shot: the first failure ends it.                                *)
(*                                                                         *)
(* The ResourcesManager is not in this repository; its allocator is       *)
(* modelled from spec.md section 6: acquire_channel returns the lease an  *)
(* identifier already holds, or any free channel of the engine and        *)
(* direction asked for, or fails (ResourceExhausted); release_channel     *)
(* frees an identifier's lease; create_* keeps the buffer or pair under   *)
(* its key and lookup_* finds it.                                          *)
(***************************************************************************)
EXTENDS Naturals, Sequences, SequencesExt, FiniteSets

CONSTANTS
  Engines,               \* the device's DMA engine indexes
  ChannelsPerDirection,  \* channel indexes of one engine and direction
  MAX_CONTEXTS_COUNT,    \* the most dynamic contexts a network group may have
  Programs               \* the HEFs tried: sequences of contexts, each a set of Layers

(***************************************************************************)
(* An edge layer of a context, as the get_*_layer_infos getters give it.   *)
(* kind is "boundary", "inter" or "ddr"; dir is the direction of its      *)
(* channel ("h2d" for an input, "d2h" for an output); engine is            *)
(* dma_engine_index (for a DDR layer, its own edge's engine).  peer_ctx    *)
(* and peer_stream are the connected context and sys index: the producer  *)
(* of an inter-context input, the consumer of an inter-context output,    *)
(* the other side of a DDR pair (in the same context); peer_engine is a   *)
(* DDR layer's connected_context engine_id.                                *)
(***************************************************************************)
Layer(kind, dir, stream, engine, peer_ctx, peer_stream, peer_engine) ==
  [kind |-> kind, dir |-> dir, stream |-> stream, engine |-> engine,
   peer_ctx |-> peer_ctx, peer_stream |-> peer_stream, peer_engine |-> peer_engine]

VARIABLES
  program,      \* the network group's contexts: program[c + 1] is context c
  run_asap,     \* supported_features.preliminary_run_asap
  padded_ddr,   \* supported_features.padded_ddr_buffers
  phase,        \* "parse", "create", "prelim_wire", "prelim_ops", "ctx_wire", "ctx_ops",
                \* "fw_channels", "done" or "failed"
  ctx,          \* the context being compiled (0 for the preliminary one)
  sched,        \* Schedule(ctx), computed when the context starts
  pc,           \* position in sched; 0: the entry CHECKs
  leases,       \* the allocator's leases: a set of [id, ch]
  ic_buffers,   \* keys [src_ctx, stream] of the inter-context buffers created
  ddr_pairs,    \* the DDR channel pairs created: [ctx, h2d_stream, d2h_stream, h2d, d2h]
  written,      \* [id, ch, layer] of every channel id written into this context's metadata
  error         \* why the compile failed: "none", "invalid_hef", "exhausted", "actions"

vars == <<program, run_asap, padded_ddr, phase, ctx, sched, pc, leases, ic_buffers,
          ddr_pairs, written, error>>

Channel(engine, dir, index) == [engine |-> engine, dir |-> dir, index |-> index]

(***************************************************************************)
(* The allocator (ResourcesManager, spec-modelled).                        *)
(***************************************************************************)

\* to_layer_identifier: a boundary layer is named by its stream across all
\* contexts, so its lease is the same in every context; an inter-context
\* or DDR edge is named per context.
LayerIdentifier(l, c, dir) ==
  [kind |-> l.kind, dir |-> dir, ctx |-> IF l.kind = "boundary" THEN 0 ELSE c,
   stream |-> IF l.kind = "ddr" /\ dir # l.dir THEN l.peer_stream ELSE l.stream]

\* get_available_channel_id against the leases ls: the identifier's lease,
\* or the free channels of the engine and direction asked for; {} is a
\* failure.
AvailableChannelsIn(ls, id, dir, engine) ==
  IF \E x \in ls : x.id = id THEN {x.ch : x \in {y \in ls : y.id = id}}
  ELSE IF engine \notin Engines THEN {}
  ELSE {Channel(engine, dir, i) : i \in 1 .. ChannelsPerDirection} \ {x.ch : x \in ls}

AvailableChannels(id, dir, engine) == AvailableChannelsIn(leases, id, dir, engine)

-----------------------------------------------------------------------------
(***************************************************************************)
(* parse_and_fill_edge_layers_mapping: the six fill loops in their order,  *)
(* then the three free loops.                                              *)
(***************************************************************************)
Context(c) == program[c + 1]

LayersOfKind(c, kind, dir) == {l \in Context(c) : l.kind = kind /\ l.dir = dir}

LayersOf(c, kind, dir) == SetToSeq(LayersOfKind(c, kind, dir))

Steps(op, s) == [i \in 1 .. Len(s) |-> [op |-> op, layer |-> s[i]]]

\* The schedule releasing the DDR pair's channels right after the DDR
\* output layers are filled, before the other layers are.
ScheduleFreeingDdrEarly(c) ==
  Steps("fill", LayersOf(c, "ddr", "d2h")) \o Steps("free_ddr", LayersOf(c, "ddr", "d2h"))
  \o Steps("fill", LayersOf(c, "boundary", "d2h")) \o Steps("fill", LayersOf(c, "inter", "d2h"))
  \o Steps("fill", LayersOf(c, "ddr", "h2d")) \o Steps("fill", LayersOf(c, "boundary", "h2d"))
  \o Steps("fill", LayersOf(c, "inter", "h2d"))
  \o Steps("free", LayersOf(c, "inter", "h2d")) \o Steps("free", LayersOf(c, "inter", "d2h"))

\* The schedule without the loop freeing the inter-context output leases.
ScheduleKeepingInterOutputs(c) ==
  Steps("fill", LayersOf(c, "ddr", "d2h")) \o Steps("fill", LayersOf(c, "boundary", "d2h"))
  \o Steps("fill", LayersOf(c, "inter", "d2h")) \o Steps("fill", LayersOf(c, "ddr", "h2d"))
  \o Steps("fill", LayersOf(c, "boundary", "h2d")) \o Steps("fill", LayersOf(c, "inter", "h2d"))
  \o Steps("free", LayersOf(c, "inter", "h2d")) \o Steps("free_ddr", LayersOf(c, "ddr", "d2h"))

\* Outputs first (DDR, boundary, inter-context), then DDR inputs, then the
\* other inputs; then the inter-context input, inter-context output and
\* DDR (both directions) leases are freed.
Schedule(c) ==
  Steps("fill", LayersOf(c, "ddr", "d2h")) \o Steps("fill", LayersOf(c, "boundary", "d2h"))
  \o Steps("fill", LayersOf(c, "inter", "d2h")) \o Steps("fill", LayersOf(c, "ddr", "h2d"))
  \o Steps("fill", LayersOf(c, "boundary", "h2d")) \o Steps("fill", LayersOf(c, "inter", "h2d"))
  \o Steps("free", LayersOf(c, "inter", "h2d")) \o Steps("free", LayersOf(c, "inter", "d2h"))
  \o Steps("free_ddr", LayersOf(c, "ddr", "d2h"))

Current == sched[pc]

Wiring == phase \in {"prelim_wire", "ctx_wire"}

Fail(why) ==
  /\ phase' = "failed"
  /\ error' = why
  /\ UNCHANGED <<program, run_asap, padded_ddr, ctx, sched, pc, leases, ic_buffers, ddr_pairs, written>>

\* The next step of the schedule, with the allocator's state as given.
Advance(ls, ws) ==
  /\ pc' = pc + 1
  /\ leases' = ls
  /\ written' = ws
  /\ UNCHANGED <<program, run_asap, padded_ddr, phase, ctx, sched, error>>

Lease(id, ch) == [id |-> id, ch |-> ch]
Written(id, ch, l) == [id |-> id, ch |-> ch, layer |-> l]

\* The entry CHECKs: a context must have edge layers (their count fitting
\* in uint8_t holds for the contexts tried).
EnterWiring ==
  /\ Wiring /\ pc = 0
  /\ \/ Context(ctx) = {} /\ Fail("invalid_hef")
     \/ /\ Context(ctx) # {}
        /\ pc' = 1
        /\ written' = {}
        /\ UNCHANGED <<program, run_asap, padded_ddr, phase, ctx, sched, leases, ic_buffers, ddr_pairs, error>>

\* A fill step of the schedule for a layer of this kind and direction.
Filling(kind, dir) ==
  /\ Wiring /\ pc \in 1 .. Len(sched)
  /\ Current.op = "fill" /\ Current.layer.kind = kind /\ Current.layer.dir = dir

\* fill_boundary_input_layer / fill_boundary_output_layer: a channel for
\* the layer on its dma_engine_index, then the boundary vDMA channel and
\* the metadata entry naming the channel.
FillBoundaryLayer(dir) ==
  /\ Filling("boundary", dir)
  /\ LET l == Current.layer
         id == LayerIdentifier(l, ctx, dir)
         chs == AvailableChannels(id, dir, l.engine)
     IN  \/ chs = {} /\ Fail("exhausted")
         \/ \E ch \in chs :
              /\ Advance(leases \cup {Lease(id, ch)}, written \cup {Written(id, ch, l)})
              /\ UNCHANGED <<ic_buffers, ddr_pairs>>

FillBoundaryInputLayer == FillBoundaryLayer("h2d")
FillBoundaryOutputLayer == FillBoundaryLayer("d2h")

\* fill_inter_context_input_layer: a channel, then the buffer its
\* producing context created under (src_context_index, src_stream_index).
FillInterContextInputLayer ==
  /\ Filling("inter", "h2d")
  /\ LET l == Current.layer
         id == LayerIdentifier(l, ctx, "h2d")
         chs == AvailableChannels(id, "h2d", l.engine)
         key == [src_ctx |-> l.peer_ctx, stream |-> l.peer_stream]
     IN  \/ chs = {} /\ Fail("exhausted")
         \/ chs # {} /\ key \notin ic_buffers /\ Fail("invalid_hef")
         \/ /\ key \in ic_buffers
            /\ \E ch \in chs :
                 /\ Advance(leases \cup {Lease(id, ch)}, written \cup {Written(id, ch, l)})
                 /\ UNCHANGED <<ic_buffers, ddr_pairs>>

\* fill_inter_context_output_layer: a channel, then the inter-context
\* buffer under (this context, stream_index).
FillInterContextOutputLayer ==
  /\ Filling("inter", "d2h")
  /\ LET l == Current.layer
         id == LayerIdentifier(l, ctx, "d2h")
         chs == AvailableChannels(id, "d2h", l.engine)
     IN  \/ chs = {} /\ Fail("exhausted")
         \/ \E ch \in chs :
              /\ Advance(leases \cup {Lease(id, ch)}, written \cup {Written(id, ch, l)})
              /\ ic_buffers' = ic_buffers \cup {[src_ctx |-> ctx, stream |-> l.stream]}
              /\ UNCHANGED ddr_pairs

\* fill_ddr_output_layer: the padded_ddr_buffers CHECK; a channel for the
\* pair's H2D side on src_dma_engine_index, one for its D2H side on
\* dst_context_index; the pair created under (context_index, the output's
\* stream); the metadata entry naming the D2H channel.
FillDdrOutputLayer ==
  /\ Filling("ddr", "d2h")
  /\ LET l == Current.layer
         h2d_id == LayerIdentifier(l, ctx, "h2d")
         d2h_id == LayerIdentifier(l, ctx, "d2h")
         h2ds == AvailableChannels(h2d_id, "h2d", l.engine)
     IN  \/ ~padded_ddr /\ Fail("invalid_hef")
         \/ padded_ddr /\ h2ds = {} /\ Fail("exhausted")
         \/ \E h2d \in h2ds :
              LET ls == leases \cup {Lease(h2d_id, h2d)}
                  d2hs == AvailableChannelsIn(ls, d2h_id, "d2h", ctx)
              IN  /\ padded_ddr
                  /\ \/ d2hs = {} /\ Fail("exhausted")
                     \/ \E d2h \in d2hs :
                          /\ Advance(ls \cup {Lease(d2h_id, d2h)}, written \cup {Written(d2h_id, d2h, l)})
                          /\ ddr_pairs' = {p \in ddr_pairs : ~(p.ctx = ctx /\ p.d2h_stream = l.stream)}
                                          \cup {[ctx |-> ctx, h2d_stream |-> l.peer_stream,
                                                d2h_stream |-> l.stream, h2d |-> h2d, d2h |-> d2h]}
                          /\ UNCHANGED ic_buffers

\* fill_ddr_input_layer: the pair of (context_index, src_stream_index),
\* the CHECK that its H2D stream is this layer's, and the metadata entry
\* naming both of the pair's channels.
FillDdrInputLayer ==
  /\ Filling("ddr", "h2d")
  /\ LET l == Current.layer
         pairs == {p \in ddr_pairs : p.ctx = ctx /\ p.d2h_stream = l.peer_stream}
     IN  \/ pairs = {} /\ Fail("invalid_hef")
         \/ \E p \in pairs :
              \/ p.h2d_stream # l.stream /\ Fail("invalid_hef")
              \/ /\ p.h2d_stream = l.stream
                 /\ Advance(leases, written \cup {Written(LayerIdentifier(l, ctx, "h2d"), p.h2d, l),
                                                  Written(LayerIdentifier(l, ctx, "d2h"), p.d2h, l)})
                 /\ UNCHANGED <<ic_buffers, ddr_pairs>>

\* The UN-Lock loops: free_channel_index of an inter-context layer, or of
\* both directions of a DDR output layer.
FreeChannels ==
  /\ Wiring /\ pc \in 1 .. Len(sched)
  /\ Current.op \in {"free", "free_ddr"}
  /\ LET l == Current.layer
         ids == IF Current.op = "free" THEN {LayerIdentifier(l, ctx, l.dir)}
                ELSE {LayerIdentifier(l, ctx, "h2d"), LayerIdentifier(l, ctx, "d2h")}
     IN  Advance({x \in leases : x.id \notin ids}, written)
  /\ UNCHANGED <<ic_buffers, ddr_pairs>>

\* parse_and_fill_edge_layers_mapping returns; the context's operations
\* follow.
EndWiring ==
  /\ Wiring /\ pc = Len(sched) + 1
  /\ phase' = IF phase = "prelim_wire" THEN "prelim_ops" ELSE "ctx_ops"
  /\ UNCHANGED <<program, run_asap, padded_ddr, ctx, sched, pc, leases, ic_buffers, ddr_pairs, written, error>>

-----------------------------------------------------------------------------
(***************************************************************************)
(* The assembler, and the layer infos it reads.                            *)
(***************************************************************************)

\* fill_boundary_layers_info: a boundary layer's name is checked against
\* those of every context parsed before it and of its own context.
BoundaryNamesUnique ==
  \A i, j \in DOMAIN program :
    i # j => {l \in program[i] : l.kind = "boundary"} \cap {l \in program[j] : l.kind = "boundary"} = {}

\* get_ddr_layer_info: a DDR layer's connected context is its own.
DdrInOwnContext(c) == \A l \in Context(c) : l.kind = "ddr" => l.peer_ctx = c

\* check_ddr_pairs_match: as many DDR inputs as outputs, and for each
\* output exactly one input whose stream_index is the output's
\* dst_stream_index (the two sides' buffer sizes are not modelled).
check_ddr_pairs_match(c) ==
  LET ins == LayersOfKind(c, "ddr", "h2d")
      outs == LayersOfKind(c, "ddr", "d2h")
  IN  /\ Cardinality(ins) = Cardinality(outs)
      /\ \A o \in outs : Cardinality({i \in ins : i.stream = o.peer_stream}) = 1

LayersInfoValid ==
  /\ BoundaryNamesUnique
  /\ \A c \in 0 .. Len(program) - 1 : DdrInOwnContext(c) /\ check_ddr_pairs_match(c)

\* get_all_layers_info, when the HEF is loaded: every context's edge
\* layers sorted by kind and direction, with the CHECKs above.
ParseLayersInfo ==
  /\ phase = "parse"
  /\ \/ ~LayersInfoValid /\ Fail("invalid_hef")
     \/ /\ LayersInfoValid
        /\ phase' = "create"
        /\ UNCHANGED <<program, run_asap, padded_ddr, ctx, sched, pc, leases, ic_buffers,
                       ddr_pairs, written, error>>

\* Compiling context c starts: its metadata is empty.
StartContext(c) ==
  /\ phase' = "ctx_wire"
  /\ ctx' = c
  /\ sched' = Schedule(c)
  /\ pc' = 0
  /\ written' = {}

\* create_resources_manager: the MAX_CONTEXTS_COUNT CHECK, then the
\* preliminary context, whose edge layers (context 0's) are wired only
\* with preliminary_run_asap.
CreateResourcesManager ==
  /\ phase = "create"
  /\ \/ Len(program) > MAX_CONTEXTS_COUNT /\ Fail("invalid_hef")
     \/ /\ Len(program) <= MAX_CONTEXTS_COUNT
        /\ phase' = IF run_asap THEN "prelim_wire" ELSE "prelim_ops"
        /\ ctx' = 0
        /\ sched' = IF run_asap THEN Schedule(0) ELSE <<>>
        /\ pc' = 0
        /\ written' = {}
        /\ UNCHANGED <<program, run_asap, padded_ddr, leases, ic_buffers, ddr_pairs, error>>

\* The operation loop of the preliminary or of a dynamic context (each
\* operation's trigger, then parse_actions_in_operation, which may fail);
\* then the next context, or the firmware-managed channels after the last.
ParseOperations ==
  /\ phase \in {"prelim_ops", "ctx_ops"}
  /\ \/ Fail("actions")
     \/ /\ LET next == IF phase = "prelim_ops" THEN 0 ELSE ctx + 1
           IN  IF next < Len(program) THEN StartContext(next)
               ELSE phase' = "fw_channels" /\ UNCHANGED <<ctx, sched, pc, written>>
        /\ UNCHANGED <<program, run_asap, padded_ddr, leases, ic_buffers, ddr_pairs, error>>

\* create_fw_managed_vdma_channels, then the ResourcesManager is returned.
CreateFwManagedChannels ==
  /\ phase = "fw_channels"
  /\ phase' = "done"
  /\ UNCHANGED <<program, run_asap, padded_ddr, ctx, sched, pc, leases, ic_buffers, ddr_pairs, written, error>>

Init ==
  /\ program \in Programs
  /\ run_asap \in BOOLEAN
  /\ padded_ddr \in BOOLEAN
  /\ phase = "parse"
  /\ ctx = 0
  /\ sched = <<>>
  /\ pc = 0
  /\ leases = {}
  /\ ic_buffers = {}
  /\ ddr_pairs = {}
  /\ written = {}
  /\ error = "none"

Next ==
  \/ ParseLayersInfo
  \/ CreateResourcesManager
  \/ EnterWiring
  \/ FillBoundaryInputLayer \/ FillBoundaryOutputLayer
  \/ FillInterContextInputLayer \/ FillInterContextOutputLayer
  \/ FillDdrOutputLayer \/ FillDdrInputLayer
  \/ FreeChannels
  \/ EndWiring
  \/ ParseOperations
  \/ CreateFwManagedChannels

Spec == Init /\ [][Next]_vars

-----------------------------------------------------------------------------

TypeOK ==
  /\ phase \in {"parse", "create", "prelim_wire", "prelim_ops", "ctx_wire", "ctx_ops",
                "fw_channels", "done", "failed"}
  /\ error \in {"none", "invalid_hef", "exhausted", "actions"}
  /\ \A x \in leases : x.ch.engine \in Engines /\ x.ch.index \in 1 .. ChannelsPerDirection

\* The engine an edge's channel belongs on: a layer's own dma_engine_index,
\* or for the other side of a DDR pair its connected context's engine_id.
EdgeEngine(l, dir) == IF dir = l.dir THEN l.engine ELSE l.peer_engine

\* Within one context's metadata no channel id is given to two edges: the
\* leases of a context are held until its free loops, boundary leases
\* persist, and a DDR input names the channels its pair took in this
\* context, also when the preliminary context wired context 0 before.
ChannelsDistinctInContext ==
  \A w1, w2 \in written : w1.id # w2.id => w1.ch # w2.ch

\* Every channel a context's metadata names is on the DMA engine of the
\* edge it carries (fill_ddr_output_layer asks for the pair's D2H channel
\* on dst_context_index).
ChannelsOnLayerEngine ==
  \A w \in written : w.ch.engine = EdgeEngine(w.layer, w.id.dir)

\* The contexts whose edge layers were wired before the current one: the
\* earlier dynamic contexts, and context 0 once more under
\* preliminary_run_asap.
WiredBefore ==
  IF phase = "prelim_wire" THEN {}
  ELSE (0 .. ctx - 1) \cup (IF run_asap THEN {0} ELSE {})

\* The boundary leases of the layers of the contexts in cs.
BoundaryLeaseIds(cs) ==
  UNION {{LayerIdentifier(l, k, l.dir) : l \in {m \in Context(k) : m.kind = "boundary"}} : k \in cs}

\* When a context's free loops are done, the allocator holds exactly the
\* boundary leases of the contexts wired so far: every inter-context and
\* DDR lease taken in this context, or in an earlier one or the
\* preliminary wiring of context 0, was given back, whichever engine the
\* DDR pair's channels were asked on, and no boundary lease was lost.
LeasesReturnedAtContextEnd ==
  Wiring /\ pc = Len(sched) + 1 =>
    {x.id : x \in leases} = BoundaryLeaseIds(WiredBefore \cup {ctx})
=============================================================================
