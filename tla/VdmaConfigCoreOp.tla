--------------------------- MODULE VdmaConfigCoreOp ---------------------------
(***************************************************************************)
(* Activation and deactivation of a VdmaConfigCoreOp                       *)
(* (vdma/vdma_config_core_op.cpp), with every callee allowed to fail.      *)
(* activate_impl and deactivate_impl are each a list of calls made in      *)
(* order under CHECK_SUCCESS: a call that fails ends the function, and the *)
(* calls made before it keep their effect (there is no rollback).  One     *)
(* step runs a whole function, up to the call that fails, if any.          *)
(*                                                                         *)
(* Several core ops are configured on one device.  The state each one's   *)
(* callees keep (its ResourcesManager, its streams) is one flag per        *)
(* resource; the device keeps one START_UPDATE_CACHE_OFFSET callback,     *)
(* set and removed by notification id alone, so one core op's unregister  *)
(* removes another's callback.  The caller (CoreOp, outside this file) may *)
(* call activate_impl, deactivate_impl and shutdown in any order.  The     *)
(* device's notification thread runs the callback whenever one is set.     *)
(***************************************************************************)
EXTENDS Naturals, Sequences

CONSTANTS
  CoreOps,   \* the core ops configured on the device
  NoOwner    \* no callback is set

VARIABLES
  cb,           \* the core op whose cache-update callback the device holds
  res,          \* res[c]: [sm, launcher, dispatcher, streams] of core op c
  cache_epoch   \* cache_epoch[c]: c's cache offset, advanced by each update (mod 2)

vars == <<cb, res, cache_epoch>>

Flags == [sm : BOOLEAN, launcher : BOOLEAN, dispatcher : BOOLEAN, streams : BOOLEAN]

AllDown == [sm |-> FALSE, launcher |-> FALSE, dispatcher |-> FALSE, streams |-> FALSE]

\* The state one call of core op c can change: its flags and the device's
\* callback slot.
Current(c) == [sm |-> res[c].sm, launcher |-> res[c].launcher,
               dispatcher |-> res[c].dispatcher, streams |-> res[c].streams, cb |-> cb]

\* A call is <<field, value>>: what it sets when it succeeds.
Set(field, value) == <<field, value>>

\* A call with no effect on the modelled state (a CHECK, a cancel), that
\* may still fail.
NoEffect == <<"check", "none">>

Apply(r, c) == IF c[1] = "check" THEN r ELSE [r EXCEPT ![c[1]] = c[2]]

\* Run the calls in order; the call at position fail fails, and neither
\* it nor any later call takes effect.
RECURSIVE Run(_, _, _)
Run(r, calls, fail) ==
  IF calls = <<>> \/ fail = 1 THEN r
  ELSE Run(Apply(r, Head(calls)), Tail(calls), fail - 1)

\* register_cache_update_callback: set_notification_callback only when the
\* auto-update environment variable is set, not "disabled", and the core op
\* has caches; otherwise it returns success without setting one.
RegisterCall(c, registers) == IF registers THEN Set("cb", c) ELSE NoEffect

\* activate_impl starting the host resources before the state machine.
ActivateCallsHostFirst(c, registers) ==
  <<RegisterCall(c, registers), NoEffect,
    Set("launcher", TRUE), Set("dispatcher", TRUE), Set("streams", TRUE),
    Set("sm", TRUE)>>

\* activate_impl: register the callback, the batch-size CHECK,
\* enable_state_machine, then activate_host_resources: the transfer
\* launcher, the interrupts dispatcher, the low-level streams.
ActivateCalls(c, registers) ==
  <<RegisterCall(c, registers), NoEffect, Set("sm", TRUE),
    Set("launcher", TRUE), Set("dispatcher", TRUE), Set("streams", TRUE)>>

\* deactivate_impl: deactivate_host_resources (streams, dispatcher,
\* launcher), reset_state_machine, cancel_pending_transfers, then
\* unregister_cache_update_callback (remove_notification_callback by id).
DeactivateCalls ==
  <<Set("streams", FALSE), Set("dispatcher", FALSE), Set("launcher", FALSE),
    Set("sm", FALSE), NoEffect, Set("cb", NoOwner)>>

\* fail = Len(calls) + 1: every call succeeds.
FailPoints(calls) == 1 .. Len(calls) + 1

SetState(c, r) ==
  /\ cb' = r.cb
  /\ res' = [res EXCEPT ![c] = [sm |-> r.sm, launcher |-> r.launcher,
                                dispatcher |-> r.dispatcher, streams |-> r.streams]]

Init ==
  /\ cb = NoOwner
  /\ res = [c \in CoreOps |-> AllDown]
  /\ cache_epoch = [c \in CoreOps |-> 0]

ActivateImpl(c) ==
  /\ \E registers \in BOOLEAN, fail \in FailPoints(ActivateCalls(c, TRUE)) :
       SetState(c, Run(Current(c), ActivateCalls(c, registers), fail))
  /\ UNCHANGED cache_epoch

DeactivateImpl(c) ==
  /\ \E fail \in FailPoints(DeactivateCalls) :
       SetState(c, Run(Current(c), DeactivateCalls, fail))
  /\ UNCHANGED cache_epoch

\* shutdown: abort_low_level_streams (its failure is only logged), then
\* deactivate_impl.  Aborting the streams leaves their activation as it is.
Shutdown(c) == DeactivateImpl(c)

\* The notification callback, bound to the core op that set it:
\* update_cache_offset updates the cache manager's offsets and signals the
\* firmware (either may fail; the has_caches CHECK holds, the callback
\* being set only with caches).
CacheUpdateNotification ==
  /\ cb # NoOwner
  /\ cache_epoch' \in {cache_epoch, [cache_epoch EXCEPT ![cb] = 1 - @]}
  /\ UNCHANGED <<cb, res>>

Next ==
  \/ \E c \in CoreOps : ActivateImpl(c) \/ DeactivateImpl(c) \/ Shutdown(c)
  \/ CacheUpdateNotification

Spec == Init /\ [][Next]_vars

-----------------------------------------------------------------------------

TypeOK ==
  /\ cb \in CoreOps \cup {NoOwner}
  /\ res \in [CoreOps -> Flags]
  /\ cache_epoch \in [CoreOps -> {0, 1}]

\* Each core op's host resources are layered and brought down in reverse
\* order even when a call fails half way and the next call starts from
\* what was left: the streams run only while the interrupts dispatcher and
\* the transfer launcher do, and any of them only while the firmware state
\* machine is enabled.
HostResourcesLayered ==
  \A c \in CoreOps :
    /\ res[c].streams => res[c].dispatcher /\ res[c].launcher
    /\ res[c].dispatcher => res[c].launcher
    /\ (res[c].launcher \/ res[c].dispatcher \/ res[c].streams) => res[c].sm
=============================================================================
