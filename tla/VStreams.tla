------------------------------- MODULE VStreams -------------------------------
(***************************************************************************)
(* The input and output virtual streams of one scheduled, multiplexed      *)
(* network group: BaseVStream, InputVStreamImpl and OutputVStreamImpl      *)
(* (net_flow/pipeline/vstream.cpp); the single pipeline element each one   *)
(* has when no transformation is needed, HwWriteElement and HwReadElement; *)
(* and the streams those elements use,                                     *)
(* VDeviceInputStreamMultiplexerWrapper and                                *)
(* VDeviceOutputStreamMultiplexerWrapper                                   *)
(* (vdevice/vdevice_stream_multiplexer_wrapper.cpp).                       *)
(*                                                                         *)
(* Three layers keep their own abort state: the vstream's m_is_aborted,    *)
(* the wrapper's *m_is_aborted together with the multiplexer's enable      *)
(* flag for the wrapper's handle, and the abort of the VDevice stream      *)
(* under them, reached through the multiplexer's run_once_for_stream       *)
(* callbacks the wrapper's constructor registers.  Each vstream also owns  *)
(* a shutdown event, which its pipeline's elements wait on.                *)
(*                                                                         *)
(* One user thread creates, calls and destroys the vstreams; each call,   *)
(* creation and destruction is one step.                                   *)
(* The multiplexer and the VDevice streams are not in this repository:     *)
(* their calls either succeed, with the effect their names state, or,      *)
(* when Failures is TRUE, fail with no effect; run_once_for_stream         *)
(* returns its callback's status; wait_for_read and wait_for_write refuse  *)
(* a disabled handle with HAILO_STREAM_ABORTED_BY_USER.  The streams being *)
(* scheduled, the vstreams have no core-op activation event and none of    *)
(* their activation checks runs.  Nothing here writes the pipeline status  *)
(* (only elements other than these two do), so it stays HAILO_SUCCESS.    *)
(***************************************************************************)
EXTENDS Naturals, SequencesExt

CONSTANTS
  Inputs,     \* the input vstreams
  Outputs,    \* the output vstreams
  Failures    \* whether a multiplexer, VDevice or event call may fail

VARIABLES
  created,      \* whether the user holds the vstream, per vstream
  activated,    \* BaseVStream::m_is_activated, per vstream
  vs_aborted,   \* BaseVStream::m_is_aborted, per vstream
  pipe,         \* per vstream: [shutdown: its shutdown event, is_aborted: the
                \*  wrapper's flag, enabled: the multiplexer's enable flag for
                \*  its handle, vdevice_aborted: the VDevice stream's abort]
  last          \* the call last returned: on which vstreams, whether it
                \* returned HAILO_SUCCESS and whether it did its work (moved
                \* a frame, or flushed the stream)

vars == <<created, activated, vs_aborted, pipe, last>>

VStream == Inputs \cup Outputs

\* The vectors InputVStream::clear and OutputVStream::clear are given: the
\* user's vstreams of one direction, each at most once, in any order.
ClearVectors ==
  UNION {SetToSeqs(S) : S \in (SUBSET Inputs \cup SUBSET Outputs) \ {{}}}

Pipe == [shutdown : BOOLEAN, is_aborted : BOOLEAN, enabled : BOOLEAN,
         vdevice_aborted : BOOLEAN]

Calls == {"none", "create", "destroy", "start_vstream", "abort", "resume", "stop_vstream",
          "stop_and_clear", "clear", "write", "flush", "read"}

\* The outcomes a multiplexer, VDevice or event call may fail with.
Fail == IF Failures THEN {"error"} ELSE {}

(***************************************************************************)
(* The wrappers' calls, each a set of <<status, pipe'>> pairs.  The input  *)
(* and output wrappers' abort and clear_abort differ only in the input's   *)
(* notify_all, which no model state reflects.                              *)
(***************************************************************************)

\* abort(): return if already aborted; set the flag; disable_stream;
\* run_once_for_stream(ABORT), which aborts the VDevice stream.
WrapperAbort(p) ==
  IF p.is_aborted THEN {<<"ok", p>>}
  ELSE LET flagged == [p EXCEPT !.is_aborted = TRUE]
           disabled == [flagged EXCEPT !.enabled = FALSE]
       IN {<<e, flagged>> : e \in Fail} \cup {<<e, disabled>> : e \in Fail}
          \cup {<<"ok", [disabled EXCEPT !.vdevice_aborted = TRUE]>>}

OutputWrapperAbort(p) == WrapperAbort(p)

\* clear_abort() without its run_once_for_stream(CLEAR_ABORT).
WrapperClearAbortNoRunOnce(p) ==
  IF ~p.is_aborted THEN {<<"ok", p>>}
  ELSE {<<"ok", [p EXCEPT !.is_aborted = FALSE, !.enabled = TRUE]>>}

\* clear_abort(): return if not aborted; clear the flag; enable_stream;
\* run_once_for_stream(CLEAR_ABORT), which clears the VDevice stream's abort.
WrapperClearAbort(p) ==
  IF ~p.is_aborted THEN {<<"ok", p>>}
  ELSE LET cleared == [p EXCEPT !.is_aborted = FALSE]
           enabled == [cleared EXCEPT !.enabled = TRUE]
       IN {<<e, cleared>> : e \in Fail} \cup {<<e, enabled>> : e \in Fail}
          \cup {<<"ok", [enabled EXCEPT !.vdevice_aborted = FALSE]>>}

OutputWrapperClearAbort(p) == WrapperClearAbort(p)

\* flush(): run_once_for_stream(FLUSH): the VDevice stream's flush, which
\* reports HAILO_STREAM_ABORTED_BY_USER on an aborted stream.
WrapperFlush(p) ==
  IF p.vdevice_aborted THEN {"aborted"} ELSE {"ok"} \cup Fail

\* write_impl(): wait_for_write on the multiplexer, the VDevice write,
\* cancelled while the wrapper's flag is set, then signal_write_finish.
WrapperWrite(p) ==
  IF ~p.enabled \/ p.is_aborted \/ p.vdevice_aborted THEN {"aborted"} \cup Fail
  ELSE {"ok"} \cup Fail

\* read(): wait_for_read on the multiplexer, the VDevice reads (the frames
\* to drain and then this one), then signal_read_finish.  Unlike write it
\* does not look at the wrapper's flag.
OutputWrapperRead(p) ==
  IF ~p.enabled \/ p.vdevice_aborted THEN {"aborted"} \cup Fail
  ELSE {"ok"} \cup Fail

(***************************************************************************)
(* The elements' execute_* functions.  The abort and clear_abort CHECKs    *)
(* pass HAILO_SUCCESS (and HAILO_STREAM_NOT_ACTIVATED) and fail on         *)
(* anything else; execute_activate succeeds.                               *)
(***************************************************************************)
execute_abort(v, p) ==
  IF v \in Inputs THEN WrapperAbort(p) ELSE OutputWrapperAbort(p)

execute_clear_abort(v, p) ==
  IF v \in Inputs THEN WrapperClearAbort(p) ELSE OutputWrapperClearAbort(p)

\* HwWriteElement::execute_deactivate: flush; an aborted stream ends it
\* with success; any other flush failure is only logged; then abort.
HwWriteDeactivate(p) ==
  UNION {IF f = "aborted" THEN {<<"ok", p>>} ELSE WrapperAbort(p) :
           f \in WrapperFlush(p)}

\* HwReadElement::execute_deactivate: signal the shutdown event (a failure
\* only logged), abort the stream; an abort failure is returned, else the
\* signal's status.
HwReadDeactivate(p) ==
  LET signalled == {<<"ok", [p EXCEPT !.shutdown = TRUE]>>}
                     \cup {<<e, p>> : e \in Fail}
  IN UNION {{IF a[1] = "ok" THEN <<s[1], a[2]>> ELSE a :
               a \in OutputWrapperAbort(s[2])} : s \in signalled}

execute_deactivate(v, p) ==
  IF v \in Inputs THEN HwWriteDeactivate(p) ELSE HwReadDeactivate(p)

\* execute_post_deactivate: clear the stream's abort when asked to.
execute_post_deactivate(v, p, should_clear_abort) ==
  IF should_clear_abort THEN execute_clear_abort(v, p) ELSE {<<"ok", p>>}

\* HwReadElement::run_pull, scheduled: the buffer pool and the zero-timeout
\* wait on the shutdown event report HAILO_SHUTDOWN_EVENT_SIGNALED once it
\* is signalled; otherwise the stream's read.
HwReadRunPull(p) ==
  IF p.shutdown THEN {"shutdown"} ELSE OutputWrapperRead(p)

ReturnedAll(vs, op, status, done) ==
  last' = [vstreams |-> vs, op |-> op, ok |-> status = "ok", done |-> done]

Returned(v, op, status, done) == ReturnedAll({v}, op, status, done)

(***************************************************************************)
(* BaseVStream.  The wrappers belong to the network group and outlive the  *)
(* vstreams built on them: Init is the wrappers as their constructors      *)
(* leave them, before the user creates any vstream.                        *)
(***************************************************************************)
Init ==
  /\ created = [v \in VStream |-> FALSE]
  /\ activated = [v \in VStream |-> TRUE]
  /\ vs_aborted = [v \in VStream |-> FALSE]
  /\ pipe = [v \in VStream |-> [shutdown |-> FALSE, is_aborted |-> FALSE,
                                enabled |-> TRUE, vdevice_aborted |-> FALSE]]
  /\ last = [vstreams |-> {}, op |-> "none", ok |-> TRUE, done |-> FALSE]

\* A vstream's state after a call, with the call's status: its pipeline p,
\* m_is_activated act and m_is_aborted ab.
Outcome(status, p, act, ab) ==
  [status |-> status, pipe |-> p, activated |-> act, aborted |-> ab]

\* resume() from pipeline state p and m_is_aborted ab: clear_abort on the
\* pipeline, then m_is_aborted = false and, if activated, activate.
ResumeOutcomes(v, p, ab) ==
  {[status |-> o[1], pipe |-> o[2], aborted |-> IF o[1] = "ok" THEN FALSE ELSE ab] :
     o \in execute_clear_abort(v, p)}

\* The vstream v takes outcome o of the call op.
Apply(v, op, o) ==
  /\ pipe' = [pipe EXCEPT ![v] = o.pipe]
  /\ activated' = [activated EXCEPT ![v] = o.activated]
  /\ vs_aborted' = [vs_aborted EXCEPT ![v] = o.aborted]
  /\ Returned(v, op, o.status, FALSE)

Resume(v) ==
  /\ created[v]
  /\ \E o \in ResumeOutcomes(v, pipe[v], vs_aborted[v]) :
       Apply(v, "resume", Outcome(o.status, o.pipe, activated[v], o.aborted))
  /\ UNCHANGED created

\* start_vstream without the reset of the shutdown event.
StartOutcomesWithoutReset(v, p, act, ab) ==
  {Outcome(e, p, act, ab) : e \in Fail}
  \cup {Outcome(o.status, o.pipe, o.status = "ok" \/ act, o.aborted) :
          o \in ResumeOutcomes(v, p, ab)}

\* start_vstream() from pipeline state p, activation act and m_is_aborted
\* ab: reset the shutdown event, resume, activate, set m_is_activated.
StartOutcomes(v, p, act, ab) ==
  {Outcome(e, p, act, ab) : e \in Fail}
  \cup {Outcome(o.status, o.pipe, o.status = "ok" \/ act, o.aborted) :
          o \in ResumeOutcomes(v, [p EXCEPT !.shutdown = FALSE], ab)}

StartFrom(v, op, p, act) ==
  \E o \in StartOutcomes(v, p, act, vs_aborted[v]) : Apply(v, op, o)

StartVStream(v) ==
  /\ created[v]
  /\ StartFrom(v, "start_vstream", pipe[v], activated[v])
  /\ UNCHANGED created

\* abort(): abort on the pipeline, then m_is_aborted = true.
Abort(v) ==
  /\ created[v]
  /\ \E o \in execute_abort(v, pipe[v]) :
       /\ pipe' = [pipe EXCEPT ![v] = o[2]]
       /\ vs_aborted' = [vs_aborted EXCEPT ![v] = (o[1] = "ok" \/ @)]
       /\ Returned(v, "abort", o[1], FALSE)
  /\ UNCHANGED <<created, activated>>

\* stop_vstream clearing the stream's abort whether or not the vstream was
\* aborted.
StopOutcomesClearingAbort(v, p) ==
  IF ~activated[v] THEN {<<"ok", p>>}
  ELSE UNION {execute_post_deactivate(v, d[2], TRUE) :
                d \in execute_deactivate(v, p)}

\* stop_vstream(): when activated, clear m_is_activated, deactivate (its
\* failure only logged), then post_deactivate, clearing the stream's abort
\* only when the vstream was not aborted; returns post_deactivate's status.
\* Not activated: returns HAILO_SUCCESS.
StopOutcomes(v, p) ==
  IF ~activated[v] THEN {<<"ok", p>>}
  ELSE UNION {execute_post_deactivate(v, d[2], ~vs_aborted[v]) :
                d \in execute_deactivate(v, p)}

StopVStream(v, op) ==
  /\ \E o \in StopOutcomes(v, pipe[v]) :
       /\ pipe' = [pipe EXCEPT ![v] = o[2]]
       /\ Returned(v, op, o[1], FALSE)
  /\ activated' = [activated EXCEPT ![v] = FALSE]
  /\ UNCHANGED vs_aborted

\* stop_and_clear(): stop_vstream, then clear (the elements' execute_clear
\* succeeds) and reset the pipeline status to HAILO_SUCCESS.
\* stop_vstream() called by the user.
Stop(v) ==
  /\ created[v]
  /\ StopVStream(v, "stop_vstream")
  /\ UNCHANGED created

StopAndClear(v) ==
  /\ created[v]
  /\ StopVStream(v, "stop_and_clear")
  /\ UNCHANGED created

\* The first loop of clear(): stop_and_clear of each vstream of vs in turn,
\* from s (the pipelines, activations and aborts of every vstream, and the
\* status so far), ending at the first failure.  Each vstream appears once,
\* so StopOutcomes still reads its own m_is_activated and m_is_aborted.
RECURSIVE StopAll(_, _)
StopAll(vs, s) ==
  IF vs = <<>> THEN {s}
  ELSE LET v == Head(vs) IN
       UNION {LET t == [s EXCEPT !.status = o[1], !.pipe[v] = o[2],
                                 !.activated[v] = FALSE]
              IN IF o[1] # "ok" THEN {t} ELSE StopAll(Tail(vs), t) :
                o \in StopOutcomes(v, s.pipe[v])}

\* clear()'s second loop returning after the first start_vstream.
StartAllFirstOnly(vs, s) ==
  IF vs = <<>> THEN {s}
  ELSE LET v == Head(vs) IN
       {[s EXCEPT !.status = o.status, !.pipe[v] = o.pipe,
                  !.activated[v] = o.activated, !.aborted[v] = o.aborted] :
          o \in StartOutcomes(v, s.pipe[v], s.activated[v], s.aborted[v])}

\* The second loop: start_vstream of each in turn, ending at the first
\* failure.
RECURSIVE StartAll(_, _)
StartAll(vs, s) ==
  IF vs = <<>> THEN {s}
  ELSE LET v == Head(vs) IN
       UNION {LET t == [s EXCEPT !.status = o.status, !.pipe[v] = o.pipe,
                                 !.activated[v] = o.activated, !.aborted[v] = o.aborted]
              IN IF o.status # "ok" THEN {t} ELSE StartAll(Tail(vs), t) :
                o \in StartOutcomes(v, s.pipe[v], s.activated[v], s.aborted[v])}

\* clear(vstreams): the stop_and_clear loop, CHECKed, then the start loop.
ClearOutcomes(vs) ==
  LET s == [status |-> "ok", pipe |-> pipe, activated |-> activated,
            aborted |-> vs_aborted]
  IN UNION {IF r.status # "ok" THEN {r} ELSE StartAll(vs, r) :
              r \in StopAll(vs, s)}

\* InputVStream::clear / OutputVStream::clear of the user's vector vs.
Clear(vs) ==
  /\ \A k \in DOMAIN vs : created[vs[k]]
  /\ \E r \in ClearOutcomes(vs) :
       /\ pipe' = r.pipe
       /\ activated' = r.activated
       /\ vs_aborted' = r.aborted
       /\ ReturnedAll(ToSet(vs), "clear", r.status, FALSE)
  /\ UNCHANGED created

\* HwWriteElement::create: the duration collector, m_got_flush_event and
\* the element, each CHECKed.
HwWriteElementCreate == {"ok"} \cup Fail

\* HwReadElement::create, without a transform context: the buffer pool,
\* the duration collector and the element, each CHECKed.
HwReadElementCreate == {"ok"} \cup Fail

\* create_inputs / create_outputs up to the vstream's creation: the
\* CHECKed shutdown event, pipeline status and latency accumulator, and
\* the HW element; the output stream is no mux (no demux) and no
\* transformation is required, so the HW element is the whole pipeline.
BuilderSetup(v) ==
  ({"ok"} \cup Fail)
    \cup (IF v \in Inputs THEN HwWriteElementCreate ELSE HwReadElementCreate)

\* BaseVStream's constructor: m_is_activated and m_is_aborted false and the
\* builder's new, unsignalled shutdown event; then start_vstream, whose
\* status becomes create's.
NewVStream(v) ==
  StartFrom(v, "create", [pipe[v] EXCEPT !.shutdown = FALSE], FALSE)

\* InputVStreamImpl::create: construct; a failed start_vstream fails
\* create, and the object's destructor then finds it not activated.
InputImplCreate(v) ==
  /\ NewVStream(v)
  /\ created' = [created EXCEPT ![v] = last'.ok]

\* OutputVStreamImpl::create: its CHECK that the entry element has one
\* source holds for HwReadElement; the rest is InputVStreamImpl::create's.
OutputImplCreate(v) == InputImplCreate(v)

\* VStreamsBuilderUtils::create_inputs / create_outputs for one stream.
Create(v) ==
  /\ ~created[v]
  /\ \E s \in BuilderSetup(v) :
       IF s = "ok"
       THEN IF v \in Inputs THEN InputImplCreate(v) ELSE OutputImplCreate(v)
       ELSE /\ Returned(v, "create", s, FALSE)
            /\ UNCHANGED <<created, activated, vs_aborted, pipe>>

\* ~InputVStreamImpl / ~OutputVStreamImpl: stop_vstream, whose status is
\* discarded; last records it.
Destroy(v) ==
  /\ created[v]
  /\ StopVStream(v, "destroy")
  /\ created' = [created EXCEPT ![v] = FALSE]

\* write reporting a frame written whatever the stream's write returned.
WriteIgnoringStatus(v) ==
  /\ created[v]
  /\ \E s \in WrapperWrite(pipe[v]) :
       Returned(v, "write", s, TRUE)
  /\ UNCHANGED <<created, activated, vs_aborted, pipe>>

\* HwWriteElement::run_push of a data buffer: the stream's write; an abort
\* is returned as HAILO_STREAM_ABORTED_BY_USER, any other failure CHECKed.
HwWriteRunPush(p) == WrapperWrite(p)

\* InputVStreamImpl::write: run_push of the buffer into HwWriteElement.
Write(v) ==
  /\ created[v]
  /\ \E s \in HwWriteRunPush(pipe[v]) :
       Returned(v, "write", s, s = "ok")
  /\ UNCHANGED <<created, activated, vs_aborted, pipe>>

\* HwWriteElement::run_push of a FLUSH buffer: the stream's flush, whose
\* failure, an abort included, is only logged; then the CHECKed signal of
\* m_got_flush_event.  Pairs of the status and the flush's outcome.
HwWriteRunPushFlush(p) ==
  {<<s, f>> : s \in {"ok"} \cup Fail, f \in WrapperFlush(p)}

\* HwWriteElement::execute_flush: wait for m_got_flush_event, which
\* run_push has just signalled, then reset it; each CHECKed.
HwWriteExecuteFlush == {"ok"} \cup Fail

\* InputVStreamImpl::flush: run_push of a FLUSH buffer, CHECKed, then the
\* element's flush, which runs execute_flush, CHECKed.
Flush(v) ==
  /\ created[v]
  /\ \E r \in HwWriteRunPushFlush(pipe[v]), s \in HwWriteExecuteFlush :
       LET status == IF r[1] # "ok" THEN r[1] ELSE s
       IN Returned(v, "flush", status, status = "ok" /\ r[2] = "ok")
  /\ UNCHANGED <<created, activated, vs_aborted, pipe>>

\* OutputVStreamImpl::read: run_pull from HwReadElement; a shutdown is
\* answered with the pipeline status, HAILO_SUCCESS; an abort waits for
\* the element to finish and returns HAILO_STREAM_ABORTED_BY_USER.
Read(v) ==
  /\ created[v]
  /\ \E s \in HwReadRunPull(pipe[v]) :
       IF s = "shutdown" THEN Returned(v, "read", "ok", FALSE)
       ELSE Returned(v, "read", s, s = "ok")
  /\ UNCHANGED <<created, activated, vs_aborted, pipe>>

Next ==
  \/ \E v \in VStream :
       \/ Create(v) \/ StartVStream(v) \/ Resume(v) \/ Abort(v) \/ Stop(v)
       \/ StopAndClear(v) \/ Destroy(v)
  \/ \E vs \in ClearVectors : Clear(vs)
  \/ \E v \in Inputs : Write(v) \/ Flush(v)
  \/ \E v \in Outputs : Read(v)

Spec == Init /\ [][Next]_vars

-----------------------------------------------------------------------------

\* The vstreams' state is well typed, and a call reports its work done
\* only when it returned HAILO_SUCCESS.
TypeOK ==
  /\ created \in [VStream -> BOOLEAN]
  /\ activated \in [VStream -> BOOLEAN]
  /\ vs_aborted \in [VStream -> BOOLEAN]
  /\ pipe \in [VStream -> Pipe]
  /\ last \in [vstreams : SUBSET VStream, op : Calls, ok : BOOLEAN, done : BOOLEAN]
  /\ last.done => last.ok

\* Between the user's calls the three layers agree on whether each stream
\* is aborted: the vstream's m_is_aborted, while the user holds it, the
\* wrapper's flag, the multiplexer's disabling of the handle and the
\* VDevice stream's abort.  It takes stop_vstream's should_clear_abort to
\* keep an aborted vstream's stream aborted across stop_and_clear, clear
\* and a later start_vstream, and a new vstream's start_vstream to clear
\* the abort a destroyed one left on the wrapper.
StreamAbortStateConsistent ==
  \A v \in VStream :
    /\ created[v] => vs_aborted[v] = pipe[v].is_aborted
    /\ pipe[v].enabled = ~pipe[v].is_aborted
    /\ pipe[v].vdevice_aborted = pipe[v].is_aborted

\* A create, resume(), start_vstream() or clear() that returns HAILO_SUCCESS
\* leaves the stream of every vstream it was called on usable: the wrapper's
\* flag clear, the handle enabled in the multiplexer and the VDevice
\* stream's abort cleared; all but resume() also leave the vstreams
\* activated.  For clear() of several vstreams this takes both loops over
\* the whole vector, a vstream the user aborted included.
ResumeLeavesStreamWritable ==
  [][last'.op \in {"create", "resume", "start_vstream", "clear"} /\ last'.ok =>
       \A v \in last'.vstreams :
         /\ ~pipe'[v].is_aborted /\ pipe'[v].enabled /\ ~pipe'[v].vdevice_aborted
         /\ last'.op # "resume" => activated'[v]]_vars

\* An output vstream's shutdown event is signalled exactly while the
\* vstream is stopped: stop_vstream's HwReadElement::execute_deactivate
\* signals it and start_vstream resets it, including inside clear().
ShutdownWhileStopped ==
  \A v \in Outputs : created[v] => pipe[v].shutdown = ~activated[v]

\* A read() that returns HAILO_SUCCESS has read a frame into the user's
\* buffer.
ReadSucceedsWithFrame ==
  [][last'.op = "read" /\ last'.ok => last'.done]_vars
=============================================================================
