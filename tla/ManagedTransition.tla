-------------------------- MODULE ManagedTransition --------------------------
(***************************************************************************)
(* ManagedTransition (libobs-wrapper/src/sources/transition.rs): threads   *)
(* that begin, wait for, interrupt and reconcile transitions of one native *)
(* transition source, whose work ends on a libobs thread that signals the  *)
(* completion a moment after the transition became inactive.               *)
(*                                                                         *)
(* Each call of begin_to has a number, its subscription to the             *)
(* transition_stop signal; at most MaxBegins calls are made.  A call on    *)
(* the OBS actor is one step and may fail without effect (the queue is     *)
(* full or the actor is gone).                                             *)
(***************************************************************************)
EXTENDS Naturals, FiniteSets

CONSTANTS
    Threads,     \* application threads
    Sources,     \* destinations
    None,        \* no source, no subscription, no thread
    MaxBegins,   \* bound: calls of begin_to that reach the subscription
    MaxForces    \* bound: calls of force_stop

VARIABLES
    current,     \* TransitionState.current
    inFlight,    \* TransitionState.in_flight
    completion,  \* TransitionState.completion
    operation,   \* the thread that has the operation mutex
    pc,          \* where each thread is
    arg,         \* the source each thread's call is about
    receiver,    \* the subscription a waiting thread has taken
    begun,       \* the number of subscriptions made
    forced,      \* the number of forced stops
    target,      \* the destination of each begin
    queue,       \* the signals each subscription holds
    active,      \* the begin whose transition is active in libobs
    shown,       \* the source libobs shows
    stopping,    \* finished transitions whose signal is not yet out
    undisturbed  \* history: no call failed and no two calls overlapped

rust == <<current, inFlight, completion>>
native == <<active, shown, stopping>>
vars == <<current, inFlight, completion, operation, pc, arg, receiver, begun, forced,
          target, queue, active, shown, stopping, undisturbed>>

Begins == 1..MaxBegins

Steps == {"idle",
          "set", "setChecked", "setDone",
          "begin", "beginReconcile", "beginIdle", "beginReady", "beginStart", "beginRejected",
          "wait", "waitOk", "waitTimeout",
          "force", "forceCall", "forceDone",
          "reconcile", "reconcileCommit"}

TypeOK ==
    /\ current \in Sources \cup {None} /\ inFlight \in Sources \cup {None}
    /\ completion \in Begins \cup {None}
    /\ operation \in Threads \cup {None}
    /\ pc \in [Threads -> Steps]
    /\ arg \in [Threads -> Sources \cup {None}]
    /\ receiver \in [Threads -> Begins \cup {None}]
    /\ begun \in 0..MaxBegins /\ forced \in 0..MaxForces
    /\ target \in [Begins -> Sources \cup {None}]
    /\ queue \in [Begins -> 0..(MaxBegins + MaxForces)]
    /\ active \in Begins \cup {None}
    /\ shown \in Sources \cup {None}
    /\ stopping \in 0..MaxBegins
    /\ undisturbed \in BOOLEAN

-----------------------------------------------------------------------------
(* Helpers *)

Goto(t, to) == pc' = [pc EXCEPT ![t] = to]

(* The call ends and gives the operation mutex back. *)
Return(t) == Goto(t, "idle") /\ operation' = None

(* SignalHub::publish: every subscription made so far gets the signal. *)
Published == [b \in Begins |-> IF b <= begun THEN queue[b] + 1 ELSE queue[b]]

(* Takes in_flight and makes it current. *)
CommitInFlight ==
    IF inFlight = None
    THEN UNCHANGED <<current, inFlight>>
    ELSE current' = inFlight /\ inFlight' = None

-----------------------------------------------------------------------------
(* Taking the operation mutex *)

Call(t, to) ==
    /\ pc[t] = "idle"
    /\ operation = None
    /\ operation' = t
    /\ Goto(t, to)
    /\ UNCHANGED <<rust, receiver, begun, target, queue, native>>

CallWith(t, src, to) ==
    /\ Call(t, to)
    /\ arg' = [arg EXCEPT ![t] = src]
    /\ UNCHANGED forced

(* Mutant: force_stop does not take the operation mutex. *)
ForceWithoutMutex(t) ==
    /\ forced < MaxForces
    /\ forced' = forced + 1
    /\ pc[t] = "idle"
    /\ Goto(t, "force")
    /\ UNCHANGED <<rust, operation, arg, receiver, begun, target, queue, native>>

ForceStop(t) ==
    /\ forced < MaxForces
    /\ forced' = forced + 1
    /\ Call(t, "force")
    /\ UNCHANGED arg

Reconcile(t) == Call(t, "reconcile") /\ UNCHANGED <<arg, forced>>

-----------------------------------------------------------------------------
(* set_current_source *)

SetCheck(t) ==
    /\ pc[t] = "set"
    /\ IF active # None THEN Return(t) ELSE Goto(t, "setChecked") /\ UNCHANGED operation
    /\ UNCHANGED <<rust, arg, receiver, begun, forced, target, queue, native>>

(* obs_transition_set *)
SetNative(t) ==
    /\ pc[t] = "setChecked"
    /\ active' = None
    /\ shown' = arg[t]
    /\ Goto(t, "setDone")
    /\ UNCHANGED <<rust, operation, arg, receiver, begun, forced, target, queue, stopping>>

SetCommit(t) ==
    /\ pc[t] = "setDone"
    /\ current' = arg[t] /\ inFlight' = None /\ completion' = None
    /\ Return(t)
    /\ UNCHANGED <<arg, receiver, begun, forced, target, queue, native>>

-----------------------------------------------------------------------------
(* reconcile_locked, called by begin_to and reconcile *)

(* Mutant: reconcile does not ask whether the transition is active. *)
ReconcileUnchecked(t) ==
    /\ pc[t] \in {"begin", "reconcile"}
    /\ Goto(t, IF pc[t] = "begin" THEN "beginReconcile" ELSE "reconcileCommit")
    /\ UNCHANGED <<rust, operation, arg, receiver, begun, forced, target, queue, native>>

ReconcileCheck(t) ==
    /\ pc[t] \in {"begin", "reconcile"}
    /\ IF active = None
       THEN /\ Goto(t, IF pc[t] = "begin" THEN "beginReconcile" ELSE "reconcileCommit")
            /\ UNCHANGED operation
       ELSE IF pc[t] = "begin" THEN Goto(t, "beginIdle") /\ UNCHANGED operation
                               ELSE Return(t)
    /\ UNCHANGED <<rust, arg, receiver, begun, forced, target, queue, native>>

ReconcileCommit(t) ==
    /\ pc[t] \in {"beginReconcile", "reconcileCommit"}
    /\ CommitInFlight
    /\ completion' = None
    /\ IF pc[t] = "beginReconcile" THEN Goto(t, "beginIdle") /\ UNCHANGED operation
                                   ELSE Return(t)
    /\ UNCHANGED <<arg, receiver, begun, forced, target, queue, native>>

-----------------------------------------------------------------------------
(* begin_to *)

BeginCheck(t) ==
    /\ pc[t] = "beginIdle"
    /\ IF active # None THEN Return(t) ELSE Goto(t, "beginReady") /\ UNCHANGED operation
    /\ UNCHANGED <<rust, arg, receiver, begun, forced, target, queue, native>>

(* on_transition_stop, then in_flight and completion. *)
BeginSubscribe(t) ==
    /\ pc[t] = "beginReady"
    /\ begun < MaxBegins
    /\ begun' = begun + 1
    /\ target' = [target EXCEPT ![begun + 1] = arg[t]]
    /\ inFlight' = arg[t]
    /\ completion' = begun + 1
    /\ Goto(t, "beginStart")
    /\ UNCHANGED <<current, operation, arg, receiver, forced, queue, native>>

(* obs_transition_start; `begun` is this call's own number as it has the   *)
(* operation mutex.                                                        *)
BeginStart(t) ==
    /\ pc[t] = "beginStart"
    /\ \/ /\ active' = begun
          /\ Return(t)
          /\ UNCHANGED <<rust, arg, receiver, begun, forced, target, queue, shown, stopping>>
       \/ /\ Goto(t, "beginRejected")
          /\ UNCHANGED <<rust, operation, arg, receiver, begun, forced, target, queue, native>>

BeginRejected(t) ==
    /\ pc[t] = "beginRejected"
    /\ inFlight' = None /\ completion' = None
    /\ Return(t)
    /\ UNCHANGED <<current, arg, receiver, begun, forced, target, queue, native>>

-----------------------------------------------------------------------------
(* wait_for_completion: no operation mutex *)

(* The pending completion is taken out of the state. *)
WaitTake(t) ==
    /\ pc[t] = "idle"
    /\ completion # None
    /\ receiver' = [receiver EXCEPT ![t] = completion]
    /\ completion' = None
    /\ Goto(t, "wait")
    /\ UNCHANGED <<current, inFlight, operation, arg, begun, forced, target, queue, native>>

(* recv_timeout *)
WaitReceive(t) ==
    /\ pc[t] = "wait"
    /\ \/ /\ queue[receiver[t]] > 0
          /\ queue' = [queue EXCEPT ![receiver[t]] = @ - 1]
          /\ Goto(t, "waitOk")
       \/ /\ queue[receiver[t]] = 0
          /\ Goto(t, "waitTimeout")
          /\ UNCHANGED queue
    /\ UNCHANGED <<rust, operation, arg, receiver, begun, forced, target, native>>

WaitOk(t) ==
    /\ pc[t] = "waitOk"
    /\ CommitInFlight
    /\ receiver' = [receiver EXCEPT ![t] = None]
    /\ Goto(t, "idle")
    /\ UNCHANGED <<completion, operation, arg, begun, forced, target, queue, native>>

(* Mutant: a timeout loses the subscription. *)
TimeoutForgets(t) ==
    /\ pc[t] = "waitTimeout"
    /\ receiver' = [receiver EXCEPT ![t] = None]
    /\ Goto(t, "idle")
    /\ UNCHANGED <<rust, operation, arg, begun, forced, target, queue, native>>

(* Mutant: a timeout gives the destination up. *)
TimeoutReleases(t) ==
    /\ pc[t] = "waitTimeout"
    /\ completion' = receiver[t]
    /\ inFlight' = None
    /\ receiver' = [receiver EXCEPT ![t] = None]
    /\ Goto(t, "idle")
    /\ UNCHANGED <<current, operation, arg, begun, forced, target, queue, native>>

(* A timeout puts the subscription back. *)
WaitTimeout(t) ==
    /\ pc[t] = "waitTimeout"
    /\ completion' = receiver[t]
    /\ receiver' = [receiver EXCEPT ![t] = None]
    /\ Goto(t, "idle")
    /\ UNCHANGED <<current, inFlight, operation, arg, begun, forced, target, queue, native>>

-----------------------------------------------------------------------------
(* force_stop *)

ForceRead(t) ==
    /\ pc[t] = "force"
    /\ arg' = [arg EXCEPT ![t] = IF inFlight # None THEN inFlight ELSE current]
    /\ Goto(t, "forceCall")
    /\ UNCHANGED <<rust, operation, receiver, begun, forced, target, queue, native>>

(* obs_transition_force_stop signals, obs_transition_set resets.  Nothing  *)
(* is reset that the wrapper does not set again.                           *)
ForceCall(t) ==
    /\ pc[t] = "forceCall"
    /\ queue' = Published
    /\ active' = None
    /\ shown' = arg[t]
    /\ Goto(t, "forceDone")
    /\ UNCHANGED <<rust, operation, arg, receiver, begun, forced, target, stopping>>

ForceCommit(t) ==
    /\ pc[t] = "forceDone"
    /\ current' = arg[t] /\ inFlight' = None /\ completion' = None
    /\ Return(t)
    /\ UNCHANGED <<arg, receiver, begun, forced, target, queue, native>>

-----------------------------------------------------------------------------
(* libobs: the transition ends on a libobs thread, then the signal is sent *)

NativeFinish ==
    /\ active # None
    /\ shown' = target[active]
    /\ active' = None
    /\ stopping' = stopping + 1
    /\ UNCHANGED <<rust, operation, pc, arg, receiver, begun, forced, target, queue>>

NativeSignal ==
    /\ stopping > 0
    /\ stopping' = stopping - 1
    /\ queue' = Published
    /\ UNCHANGED <<rust, operation, pc, arg, receiver, begun, forced, target, active, shown>>

-----------------------------------------------------------------------------
(* A call on the actor fails: `?` returns.  The operation mutex is all     *)
(* that is undone.                                                         *)
CallFails(t) ==
    /\ pc[t] \in {"set", "setChecked", "begin", "reconcile", "beginIdle", "beginStart", "forceCall"}
    /\ Return(t)
    /\ UNCHANGED <<rust, arg, receiver, begun, forced, target, queue, native>>

-----------------------------------------------------------------------------
Init ==
    /\ current = None /\ inFlight = None /\ completion = None
    /\ operation = None
    /\ pc = [t \in Threads |-> "idle"]
    /\ arg = [t \in Threads |-> None]
    /\ receiver = [t \in Threads |-> None]
    /\ begun = 0 /\ forced = 0
    /\ target = [b \in Begins |-> None]
    /\ queue = [b \in Begins |-> 0]
    /\ active = None /\ shown = None /\ stopping = 0
    /\ undisturbed = TRUE

StartOperation(t) ==
    \/ \E src \in Sources : CallWith(t, src, "set") \/ CallWith(t, src, "begin")
    \/ ForceStop(t)
    \/ Reconcile(t)
    \/ WaitTake(t)

ContinueOperation(t) ==
    \/ SetCheck(t) \/ SetNative(t) \/ SetCommit(t)
    \/ ReconcileCheck(t) \/ ReconcileCommit(t)
    \/ BeginCheck(t) \/ BeginSubscribe(t) \/ BeginStart(t) \/ BeginRejected(t)
    \/ WaitReceive(t) \/ WaitOk(t) \/ WaitTimeout(t)
    \/ ForceRead(t) \/ ForceCall(t) \/ ForceCommit(t)

Succeed ==
    \/ \E t \in Threads : StartOperation(t) \/ ContinueOperation(t)
    \/ NativeFinish
    \/ NativeSignal

Fail == \E t \in Threads : CallFails(t)

InsideACall == {t \in Threads : pc[t] # "idle"}

Next ==
    \/ Succeed /\ undisturbed' = (undisturbed /\ Cardinality(InsideACall') <= 1)
    \/ Fail /\ undisturbed' = FALSE

Spec == Init /\ [][Next]_vars

-----------------------------------------------------------------------------
(* Properties *)

Quiet == \A t \in Threads : pc[t] = "idle"

(* "The destination is retained while native transition work is active":   *)
(* whatever waits, forced stops and failing calls overlap, the destination *)
(* of the active transition is owned by the controller.                    *)
DestinationRetained == active # None => target[active] \in {current, inFlight}

(* A forced stop "deterministically snaps to its requested destination":   *)
(* when it, or set_current_source, has returned, libobs shows the current  *)
(* source and nothing is in flight, whatever stale waits ended meanwhile.  *)
SnapsToCurrent ==
    [][\A t \in Threads :
         pc[t] \in {"setDone", "forceDone"} /\ pc'[t] = "idle" =>
            active' = None /\ shown' = current' /\ inFlight' = None]_vars

(* A destination in flight can still be waited for: the subscription is    *)
(* there, and if the transition has ended its signal is in the             *)
(* subscription or on its way, however many waits timed out before, as     *)
(* long as calls follow one another and none fails (wait_for_completion).  *)
CompletionIsNotLost ==
    undisturbed /\ Quiet /\ inFlight # None =>
        /\ completion # None
        /\ active = None => queue[completion] + stopping > 0

(* A source that reconcile, or begin_to on its way, makes current is what  *)
(* libobs shows ("Reconciles retained in-flight state after a timeout/late *)
(* completion", transition.rs:278), as long as calls follow one another    *)
(* and none fails.                                                         *)
ReconciledIsShown ==
    [][\A t \in Threads :
         /\ undisturbed /\ pc[t] \in {"beginReconcile", "reconcileCommit"}
         /\ current' # current
         => current' = shown]_vars

(* "If a bounded wait times out, the destination remains retained in       *)
(* `in_flight` until a later wait, reconcile, or force_stop resolves       *)
(* native state" (transition.rs:29): an active transition is in flight.    *)
InFlightUntilResolved == active # None => inFlight = target[active]
=============================================================================
