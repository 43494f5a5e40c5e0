-------------------------- MODULE RuntimeLifecycle --------------------------
(***************************************************************************)
(* The process-global runtime slot and the life of an OBS actor thread:    *)
(* who may start libobs, who shuts it down, and what a failed start, a     *)
(* panicked actor or the drop of the last handle does to the slot          *)
(* (libobs-wrapper/src/context.rs, libobs-wrapper/src/runtime.rs, built    *)
(* with the feature enable_runtime).                                       *)
(*                                                                         *)
(* A runtime r is one call of ObsContext::new and everything it creates:   *)
(* app[r] is the application side (the thread inside ObsContext::new, then *)
(* the owner of the last ObsRuntime handle), actor[r] the dedicated OBS    *)
(* thread.  The command and cleanup queues are in RuntimeActor.            *)
(***************************************************************************)
EXTENDS Naturals, FiniteSets

CONSTANTS
    Runtimes,     \* the calls of ObsContext::new
    NoThread,     \* "no thread": the slot or the native library has no owner
    Faults,       \* which failures the environment injects
    Sequential    \* TRUE: the application creates a context only after every
                  \* earlier one failed or lost its last handle

AllFaults == {"spawn", "init", "initPanic", "panic"}

ASSUME NoThreadAssumption == NoThread \notin Runtimes
ASSUME FaultsAssumption == Faults \subseteq AllFaults
ASSUME SequentialAssumption == Sequential \in BOOLEAN

VARIABLES
    slot,         \* OBS_RUNTIME_STATE
    app,          \* where the application side of each runtime is
    actor,        \* where the actor thread of each runtime is
    reply,        \* what the actor sent on init_tx
    shutdownSent, \* the shutdown channel holds a message
    obs,          \* whose actor started the native library that is up
    handlers      \* who installed the native log and crash handlers

vars == <<slot, app, actor, reply, shutdownSent, obs, handlers>>

-----------------------------------------------------------------------------
(* Types *)

Phases == {"Idle", "Starting", "Active", "ShuttingDown"}

AppStates == {"idle", "reserving", "waiting", "refused", "reserved", "awaitInit",
              "cancelling", "failed", "held", "sendersGone", "guardBegun", "gone"}

ActorStates == {"none", "spawned", "setup", "obsStarted", "unwound", "running",
                "draining", "recovering", "obsDown", "released", "exited"}

(* ObsRuntimeState: the thread is carried by Active only. *)
SlotStates == {s \in [phase : Phases, tid : Runtimes \cup {NoThread}] :
                  s.phase = "Active" <=> s.tid # NoThread}

Slot(phase) == [phase |-> phase, tid |-> NoThread]
Active(r) == [phase |-> "Active", tid |-> r]

TypeOK ==
    /\ slot \in SlotStates
    /\ app \in [Runtimes -> AppStates]
    /\ actor \in [Runtimes -> ActorStates]
    /\ reply \in [Runtimes -> {"none", "ok", "err"}]
    /\ shutdownSent \in [Runtimes -> BOOLEAN]
    /\ obs \in Runtimes \cup {NoThread}
    /\ handlers \in Runtimes \cup {NoThread}

Finished == {"idle", "refused", "failed", "gone"}

(* No handle of r is left: both senders and, a moment later, the guard. *)
SendersDropped(r) == app[r] \in {"sendersGone", "guardBegun", "gone"}

(* The actor of r stands between taking and giving back the slot. *)
InCharge(r) == actor[r] \in {"setup", "obsStarted", "running", "draining",
                             "recovering", "obsDown"}

(* The native library runs on behalf of r. *)
NativeUp(r) == actor[r] \in {"obsStarted", "running", "draining", "recovering"}

-----------------------------------------------------------------------------
(* Slot operations.  Each runs under the mutex of OBS_RUNTIME_STATE. *)

(* changed.notify_all(): every thread parked on the condition variable     *)
(* looks at the slot again.                                                *)
Woken(a) == [q \in Runtimes |-> IF a[q] = "waiting" THEN "reserving" ELSE a[q]]

(* Mutant: the release forgets changed.notify_all(). *)
ReleaseWithoutNotify(a) ==
    /\ slot' = Slot("Idle")
    /\ app' = a

(* release_runtime_slot: unconditional, whoever calls it.                  *)
ReleaseRuntimeSlot(a) ==
    /\ slot' = Slot("Idle")
    /\ app' = Woken(a)

-----------------------------------------------------------------------------
(* The application side *)

(* ObsContext::new is called. *)
New(r) ==
    /\ app[r] = "idle"
    /\ Sequential => \A q \in Runtimes : app[q] \in Finished
    /\ app' = [app EXCEPT ![r] = "reserving"]
    /\ UNCHANGED <<slot, actor, reply, shutdownSent, obs, handlers>>

(* reserve_runtime_slot: one round of its loop.                            *)
ReserveRuntimeSlot(r) ==
    /\ app[r] = "reserving"
    /\ \/ /\ slot.phase = "Idle"
          /\ slot' = Slot("Starting")
          /\ app' = [app EXCEPT ![r] = "reserved"]
       \/ /\ slot.phase = "ShuttingDown"
          /\ app' = [app EXCEPT ![r] = "waiting"]
          /\ UNCHANGED slot
       \/ /\ slot.phase \in {"Starting", "Active"}
          /\ app' = [app EXCEPT ![r] = "refused"]
          /\ UNCHANGED slot
    /\ UNCHANGED <<actor, reply, shutdownSent, obs, handlers>>

(* Condvar::wait may return without a notification. *)
SpuriousWakeup(r) ==
    /\ app[r] = "waiting"
    /\ app' = [app EXCEPT ![r] = "reserving"]
    /\ UNCHANGED <<slot, actor, reply, shutdownSent, obs, handlers>>

(* init: the actor thread is spawned, or the spawn fails. *)
SpawnActor(r) ==
    /\ app[r] = "reserved"
    /\ \/ /\ app' = [app EXCEPT ![r] = "awaitInit"]
          /\ actor' = [actor EXCEPT ![r] = "spawned"]
       \/ /\ "spawn" \in Faults
          /\ app' = [app EXCEPT ![r] = "cancelling"]
          /\ UNCHANGED actor
    /\ UNCHANGED <<slot, reply, shutdownSent, obs, handlers>>

(* init: init_rx.recv() returns and startup hands out the runtime or goes  *)
(* on to cancel_runtime_start.                                             *)
ReceiveInit(r) ==
    /\ app[r] = "awaitInit"
    /\ reply[r] # "none"
    /\ app' = [app EXCEPT ![r] = IF reply[r] = "ok" THEN "held" ELSE "cancelling"]
    /\ UNCHANGED <<slot, actor, reply, shutdownSent, obs, handlers>>

(* cancel_runtime_start: undoes a reservation, whoever made it. *)
CancelRuntimeStart(r) ==
    /\ app[r] = "cancelling"
    /\ IF slot.phase = "Starting"
       THEN ReleaseRuntimeSlot([app EXCEPT ![r] = "failed"])
       ELSE /\ app' = [app EXCEPT ![r] = "failed"]
            /\ UNCHANGED slot
    /\ UNCHANGED <<actor, reply, shutdownSent, obs, handlers>>

(* The last ObsRuntime is dropped: the fields go in declaration order, so  *)
(* both queues are disconnected before the guard's own Drop runs.          *)
DropSenders(r) ==
    /\ app[r] = "held"
    /\ app' = [app EXCEPT ![r] = "sendersGone"]
    /\ UNCHANGED <<slot, actor, reply, shutdownSent, obs, handlers>>

(* Mutant: the drop of the last handle does not announce the shutdown. *)
BeginShutdownUnannounced(r) ==
    /\ app[r] = "sendersGone"
    /\ app' = [app EXCEPT ![r] = "guardBegun"]
    /\ UNCHANGED <<slot, actor, reply, shutdownSent, obs, handlers>>

(* _ObsRuntimeGuard::drop calls begin_runtime_shutdown, which looks at the *)
(* phase of the slot but not at the thread it names.                       *)
BeginRuntimeShutdown(r) ==
    /\ app[r] = "sendersGone"
    /\ slot' = IF slot.phase = "Active" THEN Slot("ShuttingDown") ELSE slot
    /\ app' = [app EXCEPT ![r] = "guardBegun"]
    /\ UNCHANGED <<actor, reply, shutdownSent, obs, handlers>>

(* _ObsRuntimeGuard::drop: the shutdown message, or, when the actor's      *)
(* receivers are gone, a release of the slot from this thread.             *)
SendShutdown(r) ==
    /\ app[r] = "guardBegun"
    /\ IF actor[r] # "exited"
       THEN /\ shutdownSent' = [shutdownSent EXCEPT ![r] = TRUE]
            /\ app' = [app EXCEPT ![r] = "gone"]
            /\ UNCHANGED slot
       ELSE /\ ReleaseRuntimeSlot([app EXCEPT ![r] = "gone"])
            /\ UNCHANGED shutdownSent
    /\ UNCHANGED <<actor, reply, obs, handlers>>

-----------------------------------------------------------------------------
(* The actor thread *)

(* initialize_inner: activate_runtime_slot and the crash handler. *)
ActivateRuntimeSlot(r) ==
    /\ actor[r] = "spawned"
    /\ IF slot.phase = "Starting"
       THEN /\ slot' = Active(r)
            /\ handlers' = r
            /\ actor' = [actor EXCEPT ![r] = "setup"]
            /\ UNCHANGED reply
       ELSE /\ reply' = [reply EXCEPT ![r] = "err"]
            /\ actor' = [actor EXCEPT ![r] = "exited"]
            /\ UNCHANGED <<slot, handlers>>
    /\ UNCHANGED <<app, shutdownSent, obs>>

(* initialize_inner: obs_startup returns true.  Native: it refuses to run  *)
(* while the library is already up.                                        *)
ObsStartup(r) ==
    /\ actor[r] = "setup"
    /\ obs = NoThread
    /\ obs' = r
    /\ handlers' = r
    /\ actor' = [actor EXCEPT ![r] = "obsStarted"]
    /\ UNCHANGED <<slot, app, reply, shutdownSent>>

(* Mutant: the rollback ignores obs_started. *)
RollbackAlwaysShutsDown(r) ==
    /\ obs' = NoThread
    /\ handlers' = NoThread

(* What InitializationRollback::drop does to the native library: shut it   *)
(* down only if this start brought it up.                                  *)
RollbackNative(r) ==
    /\ obs' = IF actor[r] = "obsStarted" THEN NoThread ELSE obs
    /\ handlers' = NoThread

(* initialize_inner returns an error after the slot was activated: the     *)
(* platform setup or obs_startup failed, or audio or video did not reset.  *)
InitializeFails(r) ==
    /\ actor[r] \in {"setup", "obsStarted"}
    /\ "init" \in Faults \/ (actor[r] = "setup" /\ obs # NoThread)
    /\ RollbackNative(r)
    /\ ReleaseRuntimeSlot(app)
    /\ reply' = [reply EXCEPT ![r] = "err"]
    /\ actor' = [actor EXCEPT ![r] = "exited"]
    /\ UNCHANGED shutdownSent

(* initialize_inner panics.  Unwinding drops the rollback guard, which     *)
(* releases the slot; before the guard exists nothing is undone yet.       *)
InitializePanics(r) ==
    /\ "initPanic" \in Faults
    /\ actor[r] \in {"setup", "obsStarted"}
    /\ \/ /\ RollbackNative(r)
          /\ ReleaseRuntimeSlot(app)
       \/ /\ actor[r] = "setup"
          /\ UNCHANGED <<slot, app, obs, handlers>>
    /\ actor' = [actor EXCEPT ![r] = "unwound"]
    /\ UNCHANGED <<reply, shutdownSent>>

(* Mutant: the caught panic leaves the slot to the rollback guard alone. *)
UnwoundWithoutRelease(r) ==
    /\ actor[r] = "unwound"
    /\ handlers' = NoThread
    /\ reply' = [reply EXCEPT ![r] = "err"]
    /\ actor' = [actor EXCEPT ![r] = "exited"]
    /\ UNCHANGED <<slot, app, shutdownSent, obs>>

(* The catch_unwind around initialize_inner: clear the handlers and        *)
(* release the slot (again), then report RuntimePanicked.                  *)
InitializeUnwound(r) ==
    /\ actor[r] = "unwound"
    /\ handlers' = NoThread
    /\ ReleaseRuntimeSlot(app)
    /\ reply' = [reply EXCEPT ![r] = "err"]
    /\ actor' = [actor EXCEPT ![r] = "exited"]
    /\ UNCHANGED <<shutdownSent, obs>>

(* Startup is complete: the rollback guard is disarmed. *)
InitializeCompletes(r) ==
    /\ actor[r] = "obsStarted"
    /\ reply' = [reply EXCEPT ![r] = "ok"]
    /\ actor' = [actor EXCEPT ![r] = "running"]
    /\ UNCHANGED <<slot, app, shutdownSent, obs, handlers>>

(* The select loop ends: a shutdown message, or a queue without senders. *)
LeaveLoop(r) ==
    /\ actor[r] = "running"
    /\ shutdownSent[r] \/ SendersDropped(r)
    /\ actor' = [actor EXCEPT ![r] = "draining"]
    /\ UNCHANGED <<slot, app, reply, shutdownSent, obs, handlers>>

(* A command panics in the loop or in the final drain. *)
CommandPanics(r) ==
    /\ "panic" \in Faults
    /\ actor[r] \in {"running", "draining"}
    /\ actor' = [actor EXCEPT ![r] = "recovering"]
    /\ UNCHANGED <<slot, app, reply, shutdownSent, obs, handlers>>

(* Mutant: a panicked actor does not go on to shutdown_inner. *)
ShutdownSkippedAfterPanic(r) ==
    /\ actor[r] = "draining"
    /\ obs' = NoThread
    /\ handlers' = NoThread
    /\ actor' = [actor EXCEPT ![r] = "obsDown"]
    /\ UNCHANGED <<slot, app, reply, shutdownSent>>

(* shutdown_inner: obs_shutdown and the handlers. *)
ObsShutdown(r) ==
    /\ actor[r] \in {"draining", "recovering"}
    /\ obs' = NoThread
    /\ handlers' = NoThread
    /\ actor' = [actor EXCEPT ![r] = "obsDown"]
    /\ UNCHANGED <<slot, app, reply, shutdownSent>>

(* Mutant: the slot is released while the library still runs. *)
ReleaseBeforeShutdown(r) ==
    /\ actor[r] \in {"draining", "recovering", "obsDown"}
    /\ ReleaseRuntimeSlot(app)
    /\ actor' = [actor EXCEPT ![r] = "released"]
    /\ UNCHANGED <<reply, shutdownSent, obs, handlers>>

(* shutdown_inner, or the arm that catches its panic: release the slot. *)
ReleaseAfterShutdown(r) ==
    /\ actor[r] = "obsDown"
    /\ ReleaseRuntimeSlot(app)
    /\ actor' = [actor EXCEPT ![r] = "released"]
    /\ UNCHANGED <<reply, shutdownSent, obs, handlers>>

(* The actor closure returns and drops the receivers. *)
ActorExits(r) ==
    /\ actor[r] = "released"
    /\ actor' = [actor EXCEPT ![r] = "exited"]
    /\ UNCHANGED <<slot, app, reply, shutdownSent, obs, handlers>>

-----------------------------------------------------------------------------
Init ==
    /\ slot = Slot("Idle")
    /\ app = [r \in Runtimes |-> "idle"]
    /\ actor = [r \in Runtimes |-> "none"]
    /\ reply = [r \in Runtimes |-> "none"]
    /\ shutdownSent = [r \in Runtimes |-> FALSE]
    /\ obs = NoThread
    /\ handlers = NoThread

AppStep(r) ==
    \/ ReserveRuntimeSlot(r)
    \/ SpawnActor(r)
    \/ ReceiveInit(r)
    \/ CancelRuntimeStart(r)
    \/ BeginRuntimeShutdown(r)
    \/ SendShutdown(r)

ActorStep(r) ==
    \/ ActivateRuntimeSlot(r)
    \/ ObsStartup(r)
    \/ InitializeFails(r)
    \/ InitializePanics(r)
    \/ InitializeUnwound(r)
    \/ InitializeCompletes(r)
    \/ LeaveLoop(r)
    \/ ObsShutdown(r)
    \/ ReleaseAfterShutdown(r)
    \/ ActorExits(r)

Next == \E r \in Runtimes :
    \/ New(r)
    \/ SpuriousWakeup(r)
    \/ DropSenders(r)
    \/ CommandPanics(r)
    \/ AppStep(r)
    \/ ActorStep(r)

Spec == Init /\ [][Next]_vars

(* A thread inside the library is scheduled again; whether the application *)
(* creates a context, ever drops one or submits a command that panics is   *)
(* its own business.                                                       *)
Fairness == \A r \in Runtimes :
    /\ WF_vars(AppStep(r))
    /\ WF_vars(ActorStep(r))

FairSpec == Spec /\ Fairness

-----------------------------------------------------------------------------
(* Properties *)

(* The inductive invariant behind the sequential use of the slot: at most  *)
(* one call is under way, what the two sides of a runtime may be doing at  *)
(* the same time, and what the slot says of the one runtime with a claim.  *)

Live(r) == app[r] \notin Finished

(* The reservation of r is not yet taken up by its actor. *)
Reserved(r) ==
    \/ app[r] = "reserved"
    \/ app[r] = "cancelling" /\ actor[r] = "none"
    \/ actor[r] = "spawned"

Claim(r) == Reserved(r) \/ InCharge(r) \/ actor[r] = "unwound"

PastReservation(r) ==
    app[r] \in {"reserved", "awaitInit", "cancelling", "held", "sendersGone", "guardBegun"}

OneCaller == \A q, r \in Runtimes : Live(q) /\ Live(r) => q = r

ServingStates == {"running", "draining", "recovering", "obsDown", "released", "exited"}

SidesAgree == \A r \in Runtimes :
    /\ app[r] \in {"idle", "reserving", "waiting", "refused", "reserved"} =>
          actor[r] = "none" /\ reply[r] = "none"
    /\ app[r] = "awaitInit" =>
          \/ reply[r] = "none" /\ actor[r] \in {"spawned", "setup", "obsStarted", "unwound"}
          \/ reply[r] = "err" /\ actor[r] = "exited"
          \/ reply[r] = "ok" /\ actor[r] \in ServingStates
    /\ app[r] \in {"cancelling", "failed"} => actor[r] \in {"none", "exited"}
    /\ app[r] \in {"held", "sendersGone", "guardBegun", "gone"} => actor[r] \in ServingStates

ClaimIsExclusive == \A q, r \in Runtimes :
    Claim(q) /\ (Claim(r) \/ PastReservation(r)) => q = r

ClaimMatchesSlot == \A r \in Runtimes :
    /\ Reserved(r) => slot.phase = "Starting"
    /\ InCharge(r) /\ app[r] \in {"awaitInit", "held", "sendersGone"} => slot = Active(r)
    /\ InCharge(r) /\ app[r] \in {"guardBegun", "gone"} => slot.phase = "ShuttingDown"

SlotIsClaimed ==
    /\ slot.phase = "Starting" => \E r \in Runtimes : Reserved(r) /\ Live(r)
    /\ slot.phase = "Active" =>
          /\ app[slot.tid] \in {"awaitInit", "held", "sendersGone"}
          /\ InCharge(slot.tid) \/ actor[slot.tid] = "unwound"

HandlersFollowClaim == \A r \in Runtimes :
    actor[r] \in {"setup", "obsStarted", "running", "draining", "recovering"} => handlers = r

SequentialInv ==
    /\ OneCaller
    /\ SidesAgree
    /\ ClaimIsExclusive
    /\ ClaimMatchesSlot
    /\ SlotIsClaimed
    /\ HandlersFollowClaim

(* "There can be only one ObsContext initialized at a time": between       *)
(* activate_runtime_slot and release_runtime_slot there is one actor.      *)
OneRuntimeAtATime ==
    \A q, r \in Runtimes : InCharge(q) /\ InCharge(r) => q = r

(* Only the actor that brought the native library up uses it and shuts it  *)
(* down, and it does not end with the library up; a start that failed or   *)
(* was rolled back never takes the library from a runtime that works, not  *)
(* even when the slot has been given away twice.                           *)
NativeLibraryIsOwned ==
    \A r \in Runtimes : NativeUp(r) <=> obs = r

(* A runtime that the application holds and whose actor runs has its own   *)
(* log and crash handlers installed: no other start or shutdown clears     *)
(* them behind its back.                                                   *)
HandlersAreOwned ==
    \A r \in Runtimes : actor[r] = "running" => handlers = r

(* Dropping the last handle and then creating a context never fails with   *)
(* ThreadFailure: the new call waits for the shutdown or finds the slot    *)
(* free.                                                                   *)
NeverRefusedInSequence ==
    Sequential => \A r \in Runtimes : app[r] # "refused"

(* Contexts that follow one another do not meet: one actor is in charge,   *)
(* with its own handlers, and none of the calls is refused.                *)
RuntimesTakeTurns ==
    Sequential => OneRuntimeAtATime /\ HandlersAreOwned /\ NeverRefusedInSequence

(* No start, however it fails, strands the slot: once every call has       *)
(* returned, every handle is gone and no actor thread lives, it is Idle.   *)
NoStrandedSlot ==
    (\A r \in Runtimes : app[r] \in Finished /\ actor[r] \in {"none", "exited"})
        => slot.phase = "Idle"

(* A call of ObsContext::new returns: it does not hang in the reservation, *)
(* nor in the wait for its actor.                                          *)
NewReturns ==
    \A r \in Runtimes :
        app[r] = "reserving" ~> app[r] \in {"refused", "failed", "held"}

(* Once the last handle is gone the actor shuts the library down and ends. *)
DroppedRuntimeEnds ==
    \A r \in Runtimes : app[r] = "gone" ~> actor[r] = "exited"

(* In sequence the slot is an exclusive lease on the native library: it is *)
(* given to one actor at a time and comes back with the library down.      *)
Lease == INSTANCE RuntimeLease
    WITH holder <- IF \E r \in Runtimes : InCharge(r)
                   THEN CHOOSE r \in Runtimes : InCharge(r)
                   ELSE NoThread,
         library <- obs

LeaseSpec == Lease!Spec

=============================================================================
