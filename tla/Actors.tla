------------------------------- MODULE Actors -------------------------------
(***************************************************************************)
(* The OBS actor seen from its two sides: one runtime with its queues and  *)
(* handles (RuntimeActor, extended), and in behaviours of their own the    *)
(* lives of the actors of contexts that threads create and drop at once    *)
(* (RuntimeLifecycle, an instance, taken with its theorems).  The          *)
(* component that does not run stays in its initial state and asks for no  *)
(* fairness.                                                               *)
(***************************************************************************)
EXTENDS RuntimeActor

CONSTANTS Runtimes, NoThread, Faults

ASSUME RuntimesAssumption == NoThread \notin Runtimes
ASSUME ActorFaultsAssumption == Faults \subseteq {"spawn", "init", "initPanic", "panic"}

VARIABLES
    component,      \* the one that runs
    slot, app, actors, reply, shutdownSent, obs, handlers

lifeVars == <<slot, app, actors, reply, shutdownSent, obs, handlers>>

Life == INSTANCE RuntimeLifecycle_proofs WITH Sequential <- FALSE, actor <- actors

ActorsInit ==
    /\ component \in {"actor", "lives"}
    /\ Init /\ Life!Init

ActorsNext ==
    \/ component = "actor" /\ Next /\ UNCHANGED <<component, lifeVars>>
    \/ component = "lives" /\ Life!Next /\ UNCHANGED <<component, vars>>

(* The fairness of the component that runs. *)
ActorsFairness ==
    /\ \A t \in Threads : WF_vars(component = "actor" /\ FinishCall(t))
    /\ WF_vars(component = "actor" /\ DropGuard)
    /\ WF_vars(component = "actor" /\ ActorStep)
    /\ \A r \in Runtimes :
        /\ WF_lifeVars(component = "lives" /\ Life!AppStep(r))
        /\ WF_lifeVars(component = "lives" /\ Life!ActorStep(r))

ActorsSpec == ActorsInit /\ [][ActorsNext]_<<component, vars, lifeVars>> /\ ActorsFairness

(* Only the actor that started libobs uses it and shuts it down, however   *)
(* many contexts are created at once (context.rs, runtime.rs).             *)
NativeLibraryIsOwned == Life!NativeLibraryIsOwned

(* No start or panic strands the slot: once no call, handle or actor is    *)
(* left it is Idle (context.rs).                                           *)
NoStrandedSlot == Life!NoStrandedSlot

(* Once its last handle is gone an actor shuts libobs down and ends        *)
(* (runtime.rs).                                                           *)
DroppedRuntimeEnds == Life!DroppedRuntimeEnds
=============================================================================
