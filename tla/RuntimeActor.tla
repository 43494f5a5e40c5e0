---------------------------- MODULE RuntimeActor ----------------------------
(***************************************************************************)
(* One started runtime: threads that submit work to the OBS actor and drop *)
(* native handles, the bounded command queue, the unbounded cleanup queue, *)
(* the actor's loop, its final drain, and its recovery from a panic        *)
(* (libobs-wrapper/src/runtime.rs, unsafe_send.rs and impl_obs_drop! in    *)
(* macros.rs).  The slot the runtime lives in is in RuntimeLifecycle.      *)
(*                                                                         *)
(* A command is a closure; what matters of it is the wrapper object it     *)
(* captures (a lease on a native object and, with it, a runtime handle)    *)
(* and the native object it creates.  Work submitted on the actor thread   *)
(* itself runs inline, as part of the command that submits it.             *)
(***************************************************************************)
EXTENDS Naturals, FiniteSets, Sequences

CONSTANTS
    Threads,        \* application threads, each starting with a runtime handle
    Objects,        \* native objects
    Commands,       \* closures handed to the actor
    SyncCommands,   \* those whose submitter waits for the result
    NoObject,       \* "no object"
    QueueCapacity   \* RUNTIME_QUEUE_CAPACITY

ASSUME CommandsAssumption == SyncCommands \subseteq Commands
ASSUME NoObjectAssumption == NoObject \notin Objects
ASSUME CapacityAssumption == QueueCapacity \in Nat \ {0}

VARIABLES
    health,     \* the runtime's health flag
    actor,      \* where the actor thread is
    shutdown,   \* the shutdown channel holds a message
    commandQ,   \* the bounded command queue
    cleanupQ,   \* the unbounded cleanup queue
    thread,     \* where each thread is in its call
    call,       \* the command each thread submits or waits for
    outcome,    \* how each thread's last call ended
    command,    \* what became of each command
    captured,   \* the objects whose leases a command's closure owns
    creates,    \* the native object a command creates
    lease,      \* the objects each thread has a handle of
    dropping,   \* the object whose drop guard a thread is running
    object,     \* the life of each native object
    registry,   \* NativeObjectRegistry.entries
    panicSeen   \* history: some work on the actor has panicked

threadVars == <<thread, call, outcome, lease, dropping>>
vars == <<health, actor, shutdown, commandQ, cleanupQ, thread, call, outcome, command,
          captured, creates, lease, dropping, object, registry, panicSeen>>

NoCommand == "no command"

-----------------------------------------------------------------------------
(* Types *)

Healths == {"running", "shuttingDown", "panicked", "stopped"}

ActorStates == {"loop", "drainCommands", "drainCleanups", "unwinding", "dropCommands",
                "recoverCleanups", "shutdown", "obsDown", "exited"}

ThreadStates == {"ready", "checked", "waiting", "dropping", "gone"}

Outcomes == {"none", "ok", "full", "panicked", "unavailable"}

CommandStates == {"unused", "building", "queued", "executed", "panicked", "dropped", "rejected"}

(* raw: created but not yet wrapped; late: released after obs_shutdown. *)
ObjectStates == {"absent", "raw", "live", "retired", "queued", "released", "late", "leaked"}

TypeOK ==
    /\ health \in Healths
    /\ actor \in ActorStates
    /\ shutdown \in BOOLEAN
    /\ commandQ \in Seq(Commands) /\ Len(commandQ) <= QueueCapacity
    /\ cleanupQ \in Seq(Objects)
    /\ thread \in [Threads -> ThreadStates]
    /\ call \in [Threads -> Commands \cup {NoCommand}]
    /\ outcome \in [Threads -> Outcomes]
    /\ command \in [Commands -> CommandStates]
    /\ captured \in [Commands -> SUBSET Objects]
    /\ creates \in [Commands -> Objects \cup {NoObject}]
    /\ lease \in [Threads -> SUBSET Objects]
    /\ dropping \in [Threads -> Objects \cup {NoObject}]
    /\ object \in [Objects -> ObjectStates]
    /\ registry \in SUBSET Objects
    /\ panicSeen \in BOOLEAN

-----------------------------------------------------------------------------
(* Leases and handles *)

(* Mutant: the handles inside closures do not count. *)
LeasedByThreads(o, cs, ts) == \E t \in Threads \ ts : o \in lease[t]

(* Some handle of o is alive outside the closures of cs and off thread t.  *)
LeasedBeyond(o, cs, ts) ==
    \/ \E t \in Threads \ ts : o \in lease[t]
    \/ \E c \in Commands \ cs : o \in captured[c]

(* The objects of which the closures of cs own the last handle.            *)
LastHandles(cs) ==
    {o \in UNION {captured[c] : c \in cs} : ~LeasedBeyond(o, cs, {})}

(* Every ObsRuntime is gone: wrapper objects, and so closures that capture *)
(* one, own a runtime handle too.                                          *)
HandlesGone ==
    /\ \A t \in Threads : thread[t] = "gone"
    /\ \A c \in Commands : captured[c] = {}

(* The objects no command has created or is about to.                      *)
Uncreated == {o \in Objects : object[o] = "absent" /\ \A c \in Commands : creates[c] # o}

(* unavailable_error *)
UnavailableError == IF health = "panicked" THEN "panicked" ELSE "unavailable"

(* Mutant: a closure that ran is never dropped. *)
ClosuresKept(cs, next) ==
    /\ UNCHANGED <<captured, registry>>
    /\ object' = next

(* The actor thread drops the closures of cs.  The drop guard of a last    *)
(* handle runs there, where defer_obs_cleanup calls the native release     *)
(* inline, whether or not libobs is still up.                              *)
DropOnActor(cs, next) ==
    LET last == LastHandles(cs) IN
    /\ captured' = [c \in Commands |-> IF c \in cs THEN {} ELSE captured[c]]
    /\ registry' = registry \ last
    /\ object' = [o \in Objects |->
                    IF o \in last
                    THEN IF actor \in {"obsDown", "exited"} THEN "late" ELSE "released"
                    ELSE next[o]]

-----------------------------------------------------------------------------
(* Threads *)

(* run_with_obs_result / run_with_obs_no_block: the closure is built, with *)
(* a clone of a handle or the handle itself inside, and the health flag is *)
(* looked at.                                                              *)
BeginCall(t, c, o, new) ==
    /\ thread[t] = "ready"
    /\ command[c] = "unused"
    /\ o \in lease[t] \cup {NoObject}
    /\ new \in {NoObject} \cup (IF c \in SyncCommands THEN Uncreated ELSE {})
    /\ IF health = "running"
       THEN /\ thread' = [thread EXCEPT ![t] = "checked"]
            /\ call' = [call EXCEPT ![t] = c]
            /\ command' = [command EXCEPT ![c] = "building"]
            /\ captured' = [captured EXCEPT ![c] = {o} \ {NoObject}]
            /\ creates' = [creates EXCEPT ![c] = new]
            /\ \/ UNCHANGED lease
               \/ /\ c \notin SyncCommands
                  /\ lease' = [lease EXCEPT ![t] = @ \ {o}]
            /\ UNCHANGED outcome
       ELSE /\ outcome' = [outcome EXCEPT ![t] = UnavailableError]
            /\ command' = [command EXCEPT ![c] = "rejected"]
            /\ UNCHANGED <<thread, call, captured, creates, lease>>
    /\ UNCHANGED <<health, actor, shutdown, commandQ, cleanupQ, dropping, object, registry,
                   panicSeen>>

(* A rejected submission hands the closure back; dropping it on thread t   *)
(* may drop the last handle of an object.                                  *)
Reject(t, why) ==
    LET c == call[t]
        last == LastHandles({c})
    IN
    /\ outcome' = [outcome EXCEPT ![t] = why]
    /\ command' = [command EXCEPT ![c] = "rejected"]
    /\ captured' = [captured EXCEPT ![c] = {}]
    /\ creates' = [creates EXCEPT ![c] = NoObject]
    /\ call' = [call EXCEPT ![t] = NoCommand]
    /\ registry' = registry \ last
    /\ object' = [o \in Objects |-> IF o \in last THEN "retired" ELSE object[o]]
    /\ IF last = {}
       THEN /\ thread' = [thread EXCEPT ![t] = "ready"]
            /\ UNCHANGED dropping
       ELSE /\ thread' = [thread EXCEPT ![t] = "dropping"]
            /\ \E o \in last : dropping' = [dropping EXCEPT ![t] = o]
    /\ UNCHANGED <<commandQ>>

(* Mutant: the queue has no capacity. *)
SubmitUnbounded(t) ==
    /\ thread[t] = "checked"
    /\ actor # "exited"
    /\ commandQ' = Append(commandQ, call[t])
    /\ command' = [command EXCEPT ![call[t]] = "queued"]
    /\ thread' = [thread EXCEPT ![t] = "waiting"]
    /\ UNCHANGED <<health, actor, shutdown, cleanupQ, call, outcome, captured, creates, lease,
                   dropping, object, registry, panicSeen>>

(* try_submit_command: full, disconnected, or queued. *)
SubmitCommand(t) ==
    /\ thread[t] = "checked"
    /\ \/ /\ actor = "exited"
          /\ Reject(t, UnavailableError)
       \/ /\ actor # "exited" /\ Len(commandQ) = QueueCapacity
          /\ Reject(t, "full")
       \/ /\ actor # "exited" /\ Len(commandQ) < QueueCapacity
          /\ commandQ' = Append(commandQ, call[t])
          /\ command' = [command EXCEPT ![call[t]] = "queued"]
          /\ IF call[t] \in SyncCommands
             THEN /\ thread' = [thread EXCEPT ![t] = "waiting"]
                  /\ UNCHANGED <<call, outcome>>
             ELSE /\ thread' = [thread EXCEPT ![t] = "ready"]
                  /\ call' = [call EXCEPT ![t] = NoCommand]
                  /\ outcome' = [outcome EXCEPT ![t] = "ok"]
          /\ UNCHANGED <<captured, creates, dropping, object, registry>>
    /\ UNCHANGED <<health, actor, shutdown, cleanupQ, lease, panicSeen>>

(* Mutant: the caller looks at the health flag and not at its result. *)
ReceiveIfRunning(t) ==
    LET c == call[t] IN
    /\ thread[t] = "waiting"
    /\ command[c] \in {"executed", "panicked", "dropped"}
    /\ health # "running"
    /\ thread' = [thread EXCEPT ![t] = "ready"]
    /\ call' = [call EXCEPT ![t] = NoCommand]
    /\ creates' = [creates EXCEPT ![c] = NoObject]
    /\ outcome' = [outcome EXCEPT ![t] = UnavailableError]
    /\ UNCHANGED <<health, actor, shutdown, commandQ, cleanupQ, command, captured, lease,
                   dropping, object, registry, panicSeen>>

(* result_rx.recv(): the result, or the error the health flag says when    *)
(* the closure was dropped with its sender.  A new native object is        *)
(* wrapped: registered, with a lease for this thread.                      *)
ReceiveResult(t) ==
    LET c == call[t] IN
    /\ thread[t] = "waiting"
    /\ command[c] \in {"executed", "panicked", "dropped"}
    /\ thread' = [thread EXCEPT ![t] = "ready"]
    /\ call' = [call EXCEPT ![t] = NoCommand]
    /\ creates' = [creates EXCEPT ![c] = NoObject]
    /\ IF command[c] = "executed"
       THEN /\ outcome' = [outcome EXCEPT ![t] = "ok"]
            /\ IF creates[c] # NoObject
               THEN /\ object' = [object EXCEPT ![creates[c]] = "live"]
                    /\ registry' = registry \cup {creates[c]}
                    /\ lease' = [lease EXCEPT ![t] = @ \cup {creates[c]}]
               ELSE UNCHANGED <<object, registry, lease>>
       ELSE /\ outcome' = [outcome EXCEPT ![t] = UnavailableError]
            /\ UNCHANGED <<object, registry, lease>>
    /\ UNCHANGED <<health, actor, shutdown, commandQ, cleanupQ, command, captured, dropping,
                   panicSeen>>

(* A handle is cloned to another thread. *)
ShareLease(t, u, o) ==
    /\ thread[t] = "ready" /\ thread[u] = "ready"
    /\ o \in lease[t] \ lease[u]
    /\ lease' = [lease EXCEPT ![u] = @ \cup {o}]
    /\ UNCHANGED <<health, actor, shutdown, commandQ, cleanupQ, thread, call, outcome, command,
                   captured, creates, dropping, object, registry, panicSeen>>

(* A handle is dropped.  The last one unregisters the object first         *)
(* (NativeHandleLease::drop), then its fields drop: the drop guard.        *)
DropLease(t, o) ==
    /\ thread[t] = "ready"
    /\ o \in lease[t]
    /\ lease' = [lease EXCEPT ![t] = @ \ {o}]
    /\ IF LeasedBeyond(o, {}, {t})
       THEN UNCHANGED <<thread, dropping, object, registry>>
       ELSE /\ registry' = registry \ {o}
            /\ object' = [object EXCEPT ![o] = "retired"]
            /\ thread' = [thread EXCEPT ![t] = "dropping"]
            /\ dropping' = [dropping EXCEPT ![t] = o]
    /\ UNCHANGED <<health, actor, shutdown, commandQ, cleanupQ, call, outcome, command,
                   captured, creates, panicSeen>>

(* Mutant: a cleanup that cannot be queued is forgotten. *)
DeferUnreported(t) ==
    /\ thread[t] = "dropping"
    /\ cleanupQ' = Append(cleanupQ, dropping[t])
    /\ object' = [object EXCEPT ![dropping[t]] = "queued"]
    /\ thread' = [thread EXCEPT ![t] = "ready"]
    /\ dropping' = [dropping EXCEPT ![t] = NoObject]
    /\ UNCHANGED <<health, actor, shutdown, commandQ, call, outcome, command, captured,
                   creates, lease, registry, panicSeen>>

(* defer_obs_cleanup off the actor: queued, or reported as a leak. *)
DeferCleanup(t) ==
    LET o == dropping[t] IN
    /\ thread[t] = "dropping"
    /\ IF actor = "exited"
       THEN /\ object' = [object EXCEPT ![o] = "leaked"]
            /\ UNCHANGED cleanupQ
       ELSE /\ cleanupQ' = Append(cleanupQ, o)
            /\ object' = [object EXCEPT ![o] = "queued"]
    /\ thread' = [thread EXCEPT ![t] = "ready"]
    /\ dropping' = [dropping EXCEPT ![t] = NoObject]
    /\ UNCHANGED <<health, actor, shutdown, commandQ, call, outcome, command, captured,
                   creates, lease, registry, panicSeen>>

(* A thread drops its last ObsRuntime; it has no wrapper object any more. *)
DropHandle(t) ==
    /\ thread[t] = "ready"
    /\ lease[t] = {}
    /\ thread' = [thread EXCEPT ![t] = "gone"]
    /\ UNCHANGED <<health, actor, shutdown, commandQ, cleanupQ, call, outcome, command, captured,
                   creates, lease, dropping, object, registry, panicSeen>>

(* _ObsRuntimeGuard::drop, on the thread or in the closure that had the    *)
(* last handle.                                                            *)
DropGuard ==
    /\ HandlesGone
    /\ ~shutdown
    /\ health' = "shuttingDown"
    /\ shutdown' = TRUE
    /\ UNCHANGED <<actor, commandQ, cleanupQ, thread, call, outcome, command, captured,
                   creates, lease, dropping, object, registry, panicSeen>>

-----------------------------------------------------------------------------
(* The actor *)

(* A command is taken from the queue, in the loop or in the final drain,   *)
(* and runs to its end.  Its closure is consumed.                          *)
ExecuteCommand ==
    LET c == Head(commandQ)
        created == [o \in Objects |-> IF o = creates[c] THEN "raw" ELSE object[o]]
    IN
    /\ actor \in {"loop", "drainCommands"}
    /\ commandQ # <<>>
    /\ commandQ' = Tail(commandQ)
    /\ command' = [command EXCEPT ![c] = "executed"]
    /\ DropOnActor({c}, created)
    /\ UNCHANGED <<health, actor, shutdown, cleanupQ, creates, threadVars, panicSeen>>

(* A command panics.  Unwinding consumes the closure, and with it the      *)
(* sender of the result, before the panic is caught.                       *)
CommandPanic ==
    LET c == Head(commandQ) IN
    /\ actor \in {"loop", "drainCommands"}
    /\ commandQ # <<>>
    /\ commandQ' = Tail(commandQ)
    /\ command' = [command EXCEPT ![c] = "panicked"]
    /\ actor' = "unwinding"
    /\ DropOnActor({c}, object)
    /\ panicSeen' = TRUE
    /\ UNCHANGED <<health, shutdown, cleanupQ, creates, threadVars>>

(* A deferred cleanup runs, in the loop, in the final drain or in the      *)
(* recovery.                                                               *)
RunCleanup ==
    /\ actor \in {"loop", "drainCleanups", "recoverCleanups"}
    /\ cleanupQ # <<>>
    /\ cleanupQ' = Tail(cleanupQ)
    /\ object' = [object EXCEPT ![Head(cleanupQ)] = "released"]
    /\ UNCHANGED <<health, actor, shutdown, commandQ, command, captured, creates, registry,
                   threadVars, panicSeen>>

(* A deferred cleanup panics before it released the object; during the     *)
(* recovery the panic is contained.                                        *)
CleanupPanic ==
    /\ actor \in {"loop", "drainCleanups", "recoverCleanups"}
    /\ cleanupQ # <<>>
    /\ cleanupQ' = Tail(cleanupQ)
    /\ object' = [object EXCEPT ![Head(cleanupQ)] = "leaked"]
    /\ actor' = IF actor = "recoverCleanups" THEN actor ELSE "unwinding"
    /\ panicSeen' = TRUE
    /\ UNCHANGED <<health, shutdown, commandQ, command, captured, creates, registry, threadVars>>

(* Mutant: commands left in the queue are not drained. *)
LeaveLoopUndrained ==
    /\ actor = "loop"
    /\ shutdown
    /\ actor' = "drainCleanups"
    /\ UNCHANGED <<health, shutdown, commandQ, cleanupQ, command, captured, creates, object,
                   registry, threadVars, panicSeen>>

(* The select loop ends: a shutdown message, or an empty queue without     *)
(* senders.                                                                *)
LeaveLoop ==
    /\ actor = "loop"
    /\ shutdown \/ (HandlesGone /\ (commandQ = <<>> \/ cleanupQ = <<>>))
    /\ actor' = "drainCommands"
    /\ UNCHANGED <<health, shutdown, commandQ, cleanupQ, command, captured, creates, object,
                   registry, threadVars, panicSeen>>

(* Mutant: the actor goes on with its commands after a panic. *)
KeepWorking ==
    /\ actor = "unwinding"
    /\ health' = "panicked"
    /\ actor' = "drainCommands"
    /\ UNCHANGED <<shutdown, commandQ, cleanupQ, command, captured, creates, object, registry,
                   threadVars, panicSeen>>

(* run_actor_work returned: the health flag tells of the panic. *)
StorePanicked ==
    /\ actor = "unwinding"
    /\ health' = "panicked"
    /\ actor' = "dropCommands"
    /\ UNCHANGED <<shutdown, commandQ, cleanupQ, command, captured, creates, object, registry,
                   threadVars, panicSeen>>

(* while command_receiver.try_recv().is_ok() {}: a pending command is      *)
(* dropped unexecuted.                                                     *)
DropCommand ==
    LET c == Head(commandQ) IN
    /\ actor = "dropCommands"
    /\ commandQ # <<>>
    /\ commandQ' = Tail(commandQ)
    /\ command' = [command EXCEPT ![c] = "dropped"]
    /\ DropOnActor({c}, object)
    /\ UNCHANGED <<health, actor, shutdown, cleanupQ, creates, threadVars, panicSeen>>

(* A drain finds its queue empty. *)
DrainEnds ==
    /\ \/ actor = "drainCommands" /\ commandQ = <<>> /\ actor' = "drainCleanups"
       \/ actor = "drainCleanups" /\ cleanupQ = <<>> /\ actor' = "shutdown"
       \/ actor = "dropCommands" /\ commandQ = <<>> /\ actor' = "recoverCleanups"
       \/ actor = "recoverCleanups" /\ cleanupQ = <<>> /\ actor' = "shutdown"
    /\ UNCHANGED <<health, shutdown, commandQ, cleanupQ, command, captured, creates, object,
                   registry, threadVars, panicSeen>>

(* shutdown_inner *)
ObsShutdown ==
    /\ actor = "shutdown"
    /\ actor' = "obsDown"
    /\ UNCHANGED <<health, shutdown, commandQ, cleanupQ, command, captured, creates, object,
                   registry, threadVars, panicSeen>>

(* Mutant: the queues outlive the actor thread. *)
ExitKeepingQueues ==
    /\ actor = "obsDown"
    /\ actor' = "exited"
    /\ health' = IF health = "panicked" THEN health ELSE "stopped"
    /\ UNCHANGED <<shutdown, commandQ, cleanupQ, command, captured, creates, object, registry,
                   threadVars, panicSeen>>

(* The actor thread ends and drops its receivers.  The channel discards    *)
(* what is still queued: commands are dropped with what they captured,     *)
(* cleanups with the bare pointer they would have released.                *)
ActorExits ==
    LET late == {c \in Commands : command[c] = "queued"}
        lost == {o \in Objects : object[o] = "queued"}
        leaked == [o \in Objects |-> IF o \in lost THEN "leaked" ELSE object[o]]
    IN
    /\ actor = "obsDown"
    /\ actor' = "exited"
    /\ health' = IF health = "panicked" THEN health ELSE "stopped"
    /\ commandQ' = <<>> /\ cleanupQ' = <<>>
    /\ command' = [c \in Commands |-> IF c \in late THEN "dropped" ELSE command[c]]
    /\ DropOnActor(late, leaked)
    /\ UNCHANGED <<shutdown, creates, threadVars, panicSeen>>

-----------------------------------------------------------------------------
(* The wrapper objects that exist at the start belong to some thread. *)
Init ==
    /\ health = "running"
    /\ actor = "loop"
    /\ shutdown = FALSE
    /\ commandQ = <<>> /\ cleanupQ = <<>>
    /\ thread = [t \in Threads |-> "ready"]
    /\ call = [t \in Threads |-> NoCommand]
    /\ outcome = [t \in Threads |-> "none"]
    /\ command = [c \in Commands |-> "unused"]
    /\ captured = [c \in Commands |-> {}]
    /\ creates = [c \in Commands |-> NoObject]
    /\ lease = [t \in Threads |-> {}]
    /\ dropping = [t \in Threads |-> NoObject]
    /\ object = [o \in Objects |-> "absent"]
    /\ registry = {}
    /\ panicSeen = FALSE

StartCall == \E t \in Threads, c \in Commands, o, new \in Objects \cup {NoObject} :
    BeginCall(t, c, o, new)

FinishCall(t) == SubmitCommand(t) \/ ReceiveResult(t) \/ DeferCleanup(t)

TakeCommand == ExecuteCommand \/ CommandPanic
TakeCleanup == RunCleanup \/ CleanupPanic

ActorStep ==
    TakeCommand \/ TakeCleanup \/ LeaveLoop \/ StorePanicked \/ DropCommand \/ DrainEnds
    \/ ObsShutdown \/ ActorExits

Next ==
    \/ StartCall
    \/ \E t \in Threads : FinishCall(t)
    \/ \E t, u \in Threads, o \in Objects : ShareLease(t, u, o)
    \/ \E t \in Threads, o \in Objects : DropLease(t, o)
    \/ \E t \in Threads : DropHandle(t)
    \/ DropGuard
    \/ ActorStep

Spec == Init /\ [][Next]_vars

(* A thread inside a call is scheduled again and so is the actor, whose    *)
(* select! picks at random among the queues that are ready; the guard is   *)
(* dropped by whoever drops the last handle.                               *)
Fairness ==
    /\ \A t \in Threads : WF_vars(FinishCall(t))
    /\ WF_vars(DropGuard)
    /\ WF_vars(ActorStep)

FairSpec == Spec /\ Fairness

-----------------------------------------------------------------------------
(* Safety *)

Leased(o) == LeasedBeyond(o, {}, {})

(* The native object under a wrapper is alive and registered exactly as    *)
(* long as some thread or some closure in flight has a handle of it: a     *)
(* drop guard runs once, after the last of them, wherever that one dies    *)
(* (NativeHandleLease::drop and impl_obs_drop!).                           *)
LeaseProtects ==
    \A o \in Objects : /\ Leased(o) <=> object[o] = "live"
                       /\ object[o] = "live" <=> o \in registry

(* A native object that a command created always reaches a wrapper: its    *)
(* pointer is never lost between the actor and the caller, not even when   *)
(* the runtime goes down in between (run_with_obs_result).                 *)
RawIsAwaited ==
    \A o \in Objects : object[o] = "raw" =>
        \E t \in Threads : /\ thread[t] = "waiting"
                           /\ creates[call[t]] = o
                           /\ command[call[t]] = "executed"

(* Every native object has an owner from its creation to its release. *)
ObjectsAreOwned == LeaseProtects /\ RawIsAwaited

(* Without a panic obs_shutdown finds nothing to do: every accepted        *)
(* command has run and every native object has been released, whichever    *)
(* of the two queues it was in and whoever had its last handle.            *)
CleanShutdownDrains ==
    ~panicSeen /\ actor \in {"obsDown", "exited"} =>
        /\ \A c \in Commands : command[c] \in {"unused", "executed", "rejected"}
        /\ \A o \in Objects : object[o] \in {"absent", "released"}

-----------------------------------------------------------------------------
(* Action properties *)

(* Once the runtime is known to have panicked no pending command executes, *)
(* in whatever order it was checked, submitted and drained                 *)
(* (runtime.rs: "Pending normal commands must not execute after an         *)
(* arbitrary command panic").                                              *)
NoWorkAfterPanic ==
    [][health = "panicked" =>
        \A c \in Commands : command[c] = "queued" => command'[c] # "executed"]_vars

-----------------------------------------------------------------------------
(* Liveness *)

(* A synchronous call returns, with a result or with an error, also when   *)
(* its command panics, is dropped by the recovery, or was submitted after  *)
(* the recovery had drained the queue (run_with_obs_result).               *)
SyncCallReturns == \A t \in Threads : thread[t] = "waiting" ~> thread[t] # "waiting"

(* Once the application has dropped its handles the actor runs what is     *)
(* left, which owns handles of its own, drains, shuts libobs down and ends *)
(* (_ObsRuntimeGuard::drop, possibly in a closure on the actor itself).    *)
RuntimeEnds == (\A t \in Threads : thread[t] = "gone") ~> actor = "exited"

(* The native object of a dropped wrapper is released or reported as       *)
(* leaked, whatever the actor is doing (defer_obs_cleanup).                *)
CleanupEnds ==
    \A o \in Objects :
        object[o] \in {"retired", "queued"} ~> object[o] \in {"released", "leaked"}

=============================================================================
