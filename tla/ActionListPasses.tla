--------------------------- MODULE ActionListPasses ---------------------------
(***************************************************************************)
(* What parse_actions_in_operation promises, with each rewrite pass taken  *)
(* as one atomic step and its result given by a declarative definition     *)
(* rather than by the loop that builds it:                                 *)
(*   A  after every maximal run of WriteDataCcw actions, one fetch action  *)
(*      per config channel the run wrote to, in ascending channel order;   *)
(*   B  in an eligible context, the edge-layer activation marker and the   *)
(*      DDR buffer info placed before the unique run of input triggers,    *)
(*      and a StartBurstCreditsTask right after it;                        *)
(*   C  every maximal run of a repeatable type cut into chunks of          *)
(*      MaxRepeatCount, a chunk of two or more preceded by a header.       *)
(* ActionListCompiler refines this module.                                 *)
(***************************************************************************)
EXTENDS ContextSwitchActions, FiniteSets

VARIABLES
  list,   \* configuration_actions as seen between the passes
  ctx,    \* the parameters of the operation being compiled
  phase   \* the pass about to run, "done" or "failed"

Contexts ==
  [support_pre_fetch : BOOLEAN, is_preliminary_context : BOOLEAN,
   is_first_operation : BOOLEAN, preliminary_run_asap : BOOLEAN,
   ddr_pairs : 0..MaxDdrPairs]

\* Number of writes to channel c in positions a..b of s.
WritesTo(s, a, b, c) ==
  Cardinality({j \in a..b : s[j].type = WriteDataCcw /\ s[j].idx = c})

CcwRuns(s) == IndexesOfActionType(s, WriteDataCcw)

\* Pass A fails when some run writes more than MaxCcwBursts times to one channel.
FetchOverflow(s) ==
  \E r \in CcwRuns(s), c \in CfgChannels : WritesTo(s, r[1], r[2], c) > MaxCcwBursts

\* The fetch actions that close the run r.
FetchesAfter(s, r, pf) ==
  LET used == {c \in CfgChannels : WritesTo(s, r[1], r[2], c) > 0}
      order == AscendingSeq(used)
  IN [k \in 1..Len(order) |-> FetchAction(order[k], WritesTo(s, r[1], r[2], order[k]), pf)]

FetchResult(s, pf) ==
  FlattenSeq([j \in 1..Len(s) |->
    <<s[j]>> \o (IF \E r \in CcwRuns(s) : r[2] = j
                 THEN FetchesAfter(s, CHOOSE r \in CcwRuns(s) : r[2] = j, pf)
                 ELSE <<>>)])

Eligible(x) ==
  /\ x.is_preliminary_context => x.preliminary_run_asap
  /\ ~x.is_preliminary_context => x.is_first_operation

TriggerRuns(s) == IndexesOfActionType(s, TriggerNewDataFromDataInput)

EdgeFails(s, x) == Eligible(x) /\ Cardinality(TriggerRuns(s)) # 1

EdgeResult(s, x) ==
  IF ~Eligible(x) THEN s
  ELSE LET r == CHOOSE r \in TriggerRuns(s) : TRUE
       IN  SubSeq(s, 1, r[1] - 1)
           \o <<Action(EdgeLayerActivationActionsPositionMarker, 0, 0, NoSub)>>
           \o DdrBuffersInfo(x.ddr_pairs)
           \o SubSeq(s, r[1], r[2])
           \o <<Action(StartBurstCreditsTask, 0, 0, NoSub)>>
           \o SubSeq(s, r[2] + 1, Len(s))

\* Chunk starts of a repeatable run r: r[1], r[1] + M, r[1] + 2M, ... whose
\* chunk, min(M, rest of the run), has at least two members.
ChunkSize(r, st) ==
  IF r[2] - st + 1 < MaxRepeatCount THEN r[2] - st + 1 ELSE MaxRepeatCount

Chunks(s) ==
  {ch \in UNION {{<<r[1] + q * MaxRepeatCount, ChunkSize(r, r[1] + q * MaxRepeatCount)>> :
                    q \in 0..((r[2] - r[1]) \div MaxRepeatCount)} :
                 r \in {r \in RepeatedBoundaries(s) : supports_repeated_block(s[r[1]])}} :
     ch[2] >= MIN_REQUIRED_FOR_MERGING}

InChunk(s, j) == \E ch \in Chunks(s) : ch[1] <= j /\ j < ch[1] + ch[2]

RepeatResult(s) ==
  FlattenSeq([j \in 1..Len(s) |->
    (IF \E ch \in Chunks(s) : ch[1] = j
     THEN <<RepeatedHeader(s[j].type, (CHOOSE ch \in Chunks(s) : ch[1] = j)[2])>>
     ELSE <<>>)
    \o <<[s[j] EXCEPT !.rep = InChunk(s, j)]>>])

Init ==
  /\ list \in HefActionLists
  /\ ctx \in Contexts
  /\ phase = "fetch"

FetchPass ==
  /\ phase = "fetch"
  /\ phase' = "edge"
  /\ ~FetchOverflow(list)
  /\ list' = FetchResult(list, ctx.support_pre_fetch)
  /\ UNCHANGED ctx

FetchFail ==
  /\ phase = "fetch"
  /\ phase' = "failed"
  /\ FetchOverflow(list)
  /\ UNCHANGED <<list, ctx>>

EdgePass ==
  /\ phase = "edge"
  /\ phase' = "repeat"
  /\ ~EdgeFails(list, ctx)
  /\ list' = EdgeResult(list, ctx)
  /\ UNCHANGED ctx

EdgeFail ==
  /\ phase = "edge"
  /\ phase' = "failed"
  /\ EdgeFails(list, ctx)
  /\ UNCHANGED <<list, ctx>>

RepeatPass ==
  /\ phase = "repeat"
  /\ phase' = "done"
  /\ list' = RepeatResult(list)
  /\ UNCHANGED ctx

Next == FetchPass \/ FetchFail \/ EdgePass \/ EdgeFail \/ RepeatPass

Spec == Init /\ [][Next]_<<list, ctx, phase>>
=============================================================================
