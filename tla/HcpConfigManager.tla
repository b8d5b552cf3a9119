--------------------------- MODULE HcpConfigManager ---------------------------
(***************************************************************************)
(* HcpConfigManager::add_hef (context_switch/hcp_config_manager.cpp): the  *)
(* configuration of a HEF's network groups on a single-context (HCP)       *)
(* device, one iteration of the loop over the HEF's network groups per     *)
(* step.                                                                   *)
(*                                                                         *)
(* A HEF built for HAILO8L carries, per network group, partial network     *)
(* groups for several cluster layouts, and add_hef picks the first one     *)
(* whose layout bitmap is the device's (any one on a HAILO8 device).       *)
(* Network group g is named g; its partial network groups carry its name   *)
(* (fill_networks_metadata keys the HEF's metadata by that name) and, in  *)
(* the HEFs enumerated here, its content.  The per-group CHECKs read that  *)
(* content through hef.cpp's contains_ddr_layers,                          *)
(* validate_net_group_unique_layer_names and                               *)
(* create_single_context_network_group_config, modelled below.  Device    *)
(* controls, allocation, stream creation and the boundary-stream          *)
(* validation either succeed or, when Failures is TRUE, fail.             *)
(***************************************************************************)
EXTENDS Integers, Sequences, FiniteSets, SequencesExt

CONSTANTS
  MaxGroups,     \* network groups in a HEF
  MaxPartials,   \* partial network groups per network group
  Bitmaps,       \* partial clusters layout bitmaps
  NetworkGroups, \* the contents a HEF's network group may have
  Failures       \* whether a device control or a creation may fail

VARIABLES
  hef,          \* [arch, device_arch, device_bitmap, groups, partials,
                \*  content, params]: the HEF, the device and the configure_params map
  pc,           \* where add_hef is: "start", "loop", "end", "done", "failed"
  i,            \* the network group the loop is at
  ptr,          \* network_group_ptr: the group it points to, 0 for nullptr
  params,       \* configure_params_copy: the names not yet consumed
  net_groups,   \* m_net_groups: the group each configured one was built from
  wrappers,     \* m_net_group_wrappers, one per wrapped network group
  added         \* added_network_groups: the groups add_hef returns

vars == <<hef, pc, i, ptr, params, net_groups, wrappers, added>>

Fail == IF Failures THEN {"error"} ELSE {}

\* The HEFs, devices and configure_params add_hef can be given; a HAILO8L
\* HEF has at least one partial network group per network group.
Hefs ==
  {h \in [arch : {"HAILO8", "HAILO8L"}, device_arch : {"HAILO8", "HAILO8L"},
          device_bitmap : Bitmaps, groups : 1..MaxGroups,
          partials : [1..MaxGroups -> UNION {[1..n -> Bitmaps] : n \in 0..MaxPartials}],
          content : [1..MaxGroups -> NetworkGroups], params : SUBSET (0..MaxGroups)] :
     \A g \in 1..MaxGroups :
       IF h.arch = "HAILO8L" THEN h.partials[g] # <<>> ELSE h.partials[g] = <<>>}

\* The loop's choice of network_group_ptr for group g: on a HAILO8L HEF, the
\* first partial network group whose layout is the device's, or any on a
\* HAILO8 device, and the pointer left as it was when none is; otherwise the
\* network group itself.
SelectNetworkGroup(g, p) ==
  IF hef.arch = "HAILO8L"
  THEN IF \E k \in DOMAIN hef.partials[g] :
            hef.partials[g][k] = hef.device_bitmap \/ hef.device_arch = "HAILO8"
       THEN g ELSE p
  ELSE g

(***************************************************************************)
(* A network group's content (ProtoHEFNetworkGroup): its contexts, each a  *)
(* sequence of edge layers [connection, type, name], and its preliminary   *)
(* config, a sequence of operations [trigger, actions].  An action is      *)
(* [case, address, length, words_count]: a WRITE_DATA's data length, or a  *)
(* WRITE_DATA_CCW's buffer length and the words_count of the CcwHeader at  *)
(* its start.  A config result is [status, writes], writes the             *)
(* WriteMemoryInfo buffers built, each [address, length].                  *)
(***************************************************************************)
CCW_BYTES_IN_WORD == 4
CCW_DATA_OFFSET == CCW_BYTES_IN_WORD * 2

\* Hef::Impl::contains_ddr_layers: some edge layer of some context is DDR.
contains_ddr_layers(ng) ==
  \E c \in ToSet(ng.contexts) : \E l \in ToSet(c) : l.connection = "DDR"

\* Hef::Impl::validate_net_group_unique_layer_names: the boundary layers of
\* every context in order; a layer neither INFO nor MUX, or a name already
\* seen, fails with HAILO_INVALID_HEF.
validate_net_group_unique_layer_names(ng) ==
  LET boundary == SelectSeq(FlattenSeq(ng.contexts),
                            LAMBDA l : l.connection = "BOUNDARY")
      check(acc, l) ==
        IF acc.status # "ok" THEN acc
        ELSE IF l.type \notin {"INFO", "MUX"} \/ l.name \in acc.names
             THEN [acc EXCEPT !.status = "invalid_hef"]
             ELSE [acc EXCEPT !.names = @ \cup {l.name}]
  IN FoldLeft(check, [status |-> "ok", names |-> {}], boundary).status

\* parse_ccw_buffer: the buffer must be longer than the header, and what
\* follows the header must be words_count + 1 words, then one padding word
\* when that count is odd.  The expected length is a size_t: short of a
\* padding word it wraps to a value no data length equals, as the negative
\* integer here does.  (words_count + 1 and the data length are uint32
\* values that wrap only for words_count near 2^30, beyond these HEFs.)
parse_ccw_buffer(a) ==
  LET words_count == a.words_count + 1
      data_length == words_count * CCW_BYTES_IN_WORD
      expected == (a.length - CCW_DATA_OFFSET)
                    - (IF words_count % 2 # 0 THEN CCW_BYTES_IN_WORD ELSE 0)
  IN IF a.length <= CCW_DATA_OFFSET \/ data_length # expected
     THEN [status |-> "invalid_hef", writes |-> <<>>]
     ELSE [status |-> "ok",
           writes |-> <<[address |-> a.address, length |-> data_length]>>]

\* One action of create_single_context_network_group_config's switch.
ActionConfig(a) ==
  CASE a.case \in {"NONE", "DISABLE_LCU", "ALLOW_INPUT_DATAFLOW",
                   "WAIT_FOR_MODULE_CONFIG_DONE"} ->
         [status |-> "ok", writes |-> <<>>]
    [] a.case = "WRITE_DATA" ->
         [status |-> "ok", writes |-> <<[address |-> a.address, length |-> a.length]>>]
    [] a.case = "WRITE_DATA_CCW" -> parse_ccw_buffer(a)
    [] a.case = "ENABLE_LCU" ->   \* ENABLE_LCU_CONTROL_WORD, 4 bytes
         [status |-> "ok", writes |-> <<[address |-> a.address, length |-> 4]>>]
    [] a.case \in {"WAIT_FOR_SEQUENCER", "ENABLE_SEQUENCER"} ->
         [status |-> "invalid_hef", writes |-> <<>>]
    [] OTHER -> [status |-> "internal_failure", writes |-> <<>>]

\* Hef::Impl::create_single_context_network_group_config: per operation, a
\* trigger other than none fails; then its actions in order, the first
\* failure ending the whole parse.
create_single_context_network_group_config(config) ==
  LET action(acc, a) ==
        IF acc.status # "ok" THEN acc
        ELSE LET r == ActionConfig(a)
             IN [status |-> r.status, writes |-> acc.writes \o r.writes]
      operation(acc, o) ==
        IF acc.status # "ok" THEN acc
        ELSE IF o.trigger # "NONE" THEN [acc EXCEPT !.status = "internal_failure"]
        ELSE FoldLeft(action, acc, o.actions)
  IN FoldLeft(operation, [status |-> "ok", writes |-> <<>>], config)

\* The loop's per-group CHECKs, in order: one context, no DDR layers,
\* unique boundary layer names, then the preliminary config, whose
\* Buffer::create calls, one per buffer built, may fail.
GroupCheckStatuses(ng) ==
  IF Len(ng.contexts) # 1 \/ contains_ddr_layers(ng)
     \/ validate_net_group_unique_layer_names(ng) # "ok"
  THEN {"error"}
  ELSE LET c == create_single_context_network_group_config(ng.preliminary)
       IN {c.status} \cup (IF c.writes # <<>> THEN Fail ELSE {})

Init ==
  /\ hef \in Hefs
  /\ pc = "start"
  /\ i = 1
  /\ ptr = 0
  /\ params = hef.params
  /\ net_groups = <<>>
  /\ wrappers = <<>>
  /\ added = <<>>

\* get_architecture, get_partial_clusters_layout_bitmap and
\* reset_context_switch_state_machine, each CHECKed.
Start ==
  /\ pc = "start"
  /\ \/ /\ Fail # {} /\ pc' = "failed"
     \/ pc' = "loop"
  /\ UNCHANGED <<hef, i, ptr, params, net_groups, wrappers, added>>

\* The iteration's configure params: the user's for the group's name, which
\* is then erased, or the device's default ones, whose queries may fail.
ParamsOutcomes(g) ==
  IF g \in params THEN {<<"ok", params \ {g}>>}
  ELSE {<<"ok", params>>} \cup {<<e, params>> : e \in Fail}

\* One iteration for network group i: choose the pointer; the nullptr and
\* per-group CHECKs; configure params; HcpConfigNetworkGroup's constructor;
\* m_net_groups.emplace_back; the wrapper's creation; the wrapper appended
\* to m_net_group_wrappers and added_network_groups; then
\* create_streams_from_config_params and the boundary-stream validation.
Iterate ==
  /\ pc = "loop"
  /\ LET g == SelectNetworkGroup(i, ptr) IN
       /\ ptr' = g
       /\ \E c \in IF g = 0 THEN {"error"} ELSE GroupCheckStatuses(hef.content[g]) :
          IF c # "ok"
          THEN /\ pc' = "failed"
               /\ UNCHANGED <<i, params, net_groups, wrappers, added>>
          ELSE \E o \in ParamsOutcomes(g) :
                 /\ params' = o[2]
                 /\ \/ /\ o[1] # "ok" \/ Fail # {}   \* params or constructor
                       /\ pc' = "failed"
                       /\ UNCHANGED <<i, net_groups, wrappers, added>>
                    \/ /\ o[1] = "ok" /\ Fail # {}   \* wrapper creation
                       /\ pc' = "failed"
                       /\ net_groups' = Append(net_groups, g)
                       /\ UNCHANGED <<i, wrappers, added>>
                    \/ /\ o[1] = "ok"
                       /\ net_groups' = Append(net_groups, g)
                       /\ wrappers' = Append(wrappers, g)
                       /\ added' = Append(added, g)
                       /\ \/ /\ Fail # {}            \* streams or validation
                             /\ pc' = "failed" /\ UNCHANGED i
                          \/ /\ i' = i + 1
                             /\ pc' = IF i = hef.groups THEN "end" ELSE "loop"
  /\ UNCHANGED hef

\* After the loop: any configure params name left unmatched fails add_hef.
End ==
  /\ pc = "end"
  /\ pc' = IF params = {} THEN "done" ELSE "failed"
  /\ UNCHANGED <<hef, i, ptr, params, net_groups, wrappers, added>>

Next == Start \/ Iterate \/ End

Spec == Init /\ [][Next]_vars

-----------------------------------------------------------------------------

\* Each network group add_hef configures, and returns, is built from the
\* HEF's network group of its loop iteration: the k-th one configured is
\* network group k, never a group configured before.
ConfiguresEachHefGroup ==
  \A k \in 1..Len(net_groups) : net_groups[k] = k
=============================================================================
