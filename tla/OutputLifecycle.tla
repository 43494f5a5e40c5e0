--------------------------- MODULE OutputLifecycle ---------------------------
(***************************************************************************)
(* One output (libobs-wrapper/src/data/output/traits.rs): threads that     *)
(* configure, start, pause and stop it under the lifecycle and the         *)
(* configuration lock, and libobs, which ends it on threads of its own and *)
(* answers with signals.  A call on the OBS actor is one step, taken when  *)
(* no application closure occupies the actor; it may fail without effect.  *)
(*                                                                         *)
(* The encoders and the service of an output are one value, its wiring.    *)
(* Reconnecting counts as active, and force_stop is a stop.                *)
(***************************************************************************)
EXTENDS Naturals, Sequences, FiniteSets

CONSTANTS
    Threads,        \* callers
    Actor,          \* the caller that is a closure on the OBS actor thread
    Wirings,        \* values of the wiring
    None,           \* no wiring, no thread
    MaxStarts,      \* bound: native starts
    MaxPauses,      \* bound: native pause requests not yet answered
    Timeouts,       \* whether deadlines may pass
    StopCodes,      \* what libobs says of an end, in StopSignals
    SelfEnds,       \* whether an output may end without being asked to
    CallsFail,      \* whether calls on the actor may fail
    ActorClosures   \* whether closures on the actor call the output

ASSUME NoneAssumption == None \notin Wirings \cup Threads
ASSUME ActorAssumption == Actor \in Threads
ASSUME BoundsAssumption == MaxStarts \in Nat /\ MaxPauses \in Nat
ASSUME FlagsAssumption == {Timeouts, SelfEnds, CallsFail, ActorClosures} \subseteq BOOLEAN

VARIABLES
    lifecycle,      \* the thread that has the lifecycle lock
    configuration,  \* the thread that has the configuration lock
    slots,          \* the wiring the wrapper retains
    pc,             \* where each thread is
    op,             \* the operation it performs
    arg,            \* the wiring it sets
    heard,          \* what each thread's subscriptions have received
    outcome,        \* how the last operation that returned has ended
    wired,          \* the wiring libobs uses
    phase,          \* what libobs does with the output
    due,            \* signals of ended sessions not yet sent
    stopAsked,      \* a stop has been requested of libobs
    paused,         \* obs_output_paused
    pauseQ,         \* pause requests libobs has not answered
    starts          \* the number of native starts

native == <<wired, phase, due, stopAsked, paused, pauseQ, starts>>
vars == <<lifecycle, configuration, slots, pc, op, arg, heard, outcome,
          wired, phase, due, stopAsked, paused, pauseQ, starts>>

Operations == {"set", "start", "stop", "pause", "unpause"}
Pauses == {"pause", "unpause"}
StopSignals == {"success", "failure"}

ASSUME CodesAssumption == StopCodes \subseteq StopSignals

Signals == StopSignals \cup {"deactivate"} \cup Pauses

Steps == {"idle", "lifecycle", "configuration", "query", "queryPaused", "subscribe", "act", "lastError",
          "commit", "waitStop", "waitDeactivate", "waitPause"}

TypeOK ==
    /\ lifecycle \in Threads \cup {None} /\ configuration \in Threads \cup {None}
    /\ slots \in Wirings \cup {None} /\ wired \in Wirings \cup {None}
    /\ pc \in [Threads -> Steps]
    /\ op \in [Threads -> Operations \cup {"none"}]
    /\ arg \in [Threads -> Wirings \cup {None}]
    /\ heard \in [Threads -> SUBSET Signals]
    /\ outcome \in {"none", "ok", "error", "timeout"}
    /\ phase \in {"inactive", "active", "ending"}
    /\ due \subseteq StopSignals \cup {"deactivate"}
    /\ stopAsked \in BOOLEAN /\ paused \in BOOLEAN
    /\ pauseQ \in Seq(Pauses) /\ Len(pauseQ) <= MaxPauses
    /\ starts \in 0..MaxStarts

-----------------------------------------------------------------------------
(* Helpers *)

IsActive == phase # "inactive"

Goto(t, to) == pc' = [pc EXCEPT ![t] = to]

(* The operation ends: the guards and the receivers of t are dropped. *)
Return(t, how) ==
    /\ Goto(t, "idle")
    /\ outcome' = how
    /\ op' = [op EXCEPT ![t] = "none"]
    /\ arg' = [arg EXCEPT ![t] = None]
    /\ heard' = [heard EXCEPT ![t] = {}]
    /\ lifecycle' = IF lifecycle = t THEN None ELSE lifecycle
    /\ configuration' = IF configuration = t THEN None ELSE configuration

Continue(t, to) ==
    /\ Goto(t, to)
    /\ UNCHANGED <<outcome, op, arg, heard, lifecycle, configuration>>

(* The actor serves t when no closure of the application occupies it. *)
ActorServes(t) == t = Actor \/ pc[Actor] = "idle"

(* Mutant: deactivate is subscribed to after the stop signal came. *)
DeactivateLate(t) ==
    IF pc[t] = "waitPause" THEN {op[t]}
    ELSE IF pc[t] = "waitStop" /\ heard[t] = {} THEN StopSignals
    ELSE IF pc[t] = "waitDeactivate" THEN {"deactivate"}
    ELSE {}

(* The signals that t waits for; of two stop signals the first is read. *)
Awaits(t) ==
    IF pc[t] \notin {"act", "waitStop", "waitDeactivate", "waitPause"} THEN {}
    ELSE IF op[t] \in Pauses THEN {op[t]}
    ELSE IF op[t] # "stop" THEN {}
    ELSE {"deactivate"} \cup (IF heard[t] \cap StopSignals = {} THEN StopSignals ELSE {})

(* SignalHub::publish *)
Publish(s) == heard' = [t \in Threads |-> heard[t] \cup ({s} \cap Awaits(t))]

-----------------------------------------------------------------------------
(* Every operation: its locks, in this order *)

Begin(t, o, w) ==
    /\ pc[t] = "idle"
    /\ t = Actor => ActorClosures
    /\ w = None \/ o = "set"
    /\ IF t = Actor /\ o \in {"stop", "pause", "unpause"}
       THEN Return(t, "error")
       ELSE /\ op' = [op EXCEPT ![t] = o]
            /\ arg' = [arg EXCEPT ![t] = w]
            /\ Goto(t, IF o = "set" THEN "configuration" ELSE "lifecycle")
            /\ UNCHANGED <<outcome, heard, lifecycle, configuration>>
    /\ UNCHANGED <<slots, native>>

LockLifecycle(t) ==
    /\ pc[t] = "lifecycle"
    /\ lifecycle = None
    /\ lifecycle' = t
    /\ Goto(t, IF op[t] \in Pauses THEN "query" ELSE "configuration")
    /\ UNCHANGED <<configuration, slots, op, arg, heard, outcome, native>>

(* Mutant: start does not take the configuration lock. *)
StartLocksNothing(t) ==
    /\ pc[t] = "configuration"
    /\ op[t] = "start" \/ configuration = None
    /\ configuration' = IF op[t] = "start" THEN configuration ELSE t
    /\ Goto(t, "query")
    /\ UNCHANGED <<lifecycle, slots, op, arg, heard, outcome, native>>

LockConfiguration(t) ==
    /\ pc[t] = "configuration"
    /\ configuration = None
    /\ configuration' = t
    /\ Goto(t, "query")
    /\ UNCHANGED <<lifecycle, slots, op, arg, heard, outcome, native>>

(* lock_until and wait_for_completion *)
Deadline(t) ==
    /\ Timeouts
    /\ op[t] \in {"stop", "pause", "unpause"}
    /\ pc[t] \in {"lifecycle", "configuration", "waitStop", "waitDeactivate", "waitPause"}
    /\ Return(t, "timeout")
    /\ UNCHANGED <<slots, native>>

ActorFails(t) ==
    /\ CallsFail
    /\ pc[t] \in {"query", "queryPaused", "act", "lastError"}
    /\ Return(t, "error")
    /\ UNCHANGED <<slots, native>>

-----------------------------------------------------------------------------
(* The queries each operation begins with *)

Query(t) ==
    /\ pc[t] = "query"
    /\ ActorServes(t)
    /\ CASE op[t] \in {"set", "start"} ->
                IF IsActive THEN Return(t, "error") ELSE Continue(t, "act")
         [] op[t] = "stop" ->
                IF IsActive THEN Continue(t, "subscribe") ELSE Return(t, "ok")
         [] op[t] \in Pauses ->
                IF IsActive THEN Continue(t, "queryPaused") ELSE Return(t, "error")
    /\ UNCHANGED <<slots, native>>

QueryPaused(t) ==
    /\ pc[t] = "queryPaused"
    /\ ActorServes(t)
    /\ IF paused = (op[t] = "pause") THEN Return(t, "ok") ELSE Continue(t, "subscribe")
    /\ UNCHANGED <<slots, native>>

Subscribe(t) ==
    /\ pc[t] = "subscribe"
    /\ Continue(t, "act")
    /\ UNCHANGED <<slots, native>>

-----------------------------------------------------------------------------
(* set_service, set_video_encoder, set_audio_encoder_at_slot, the clear_*  *)
(* functions and apply_composition                                         *)

(* Mutant: a setter does not record what it set. *)
SetForgetsSlot(t) ==
    /\ pc[t] = "act" /\ op[t] = "set"
    /\ ActorServes(t)
    /\ wired' = arg[t]
    /\ Return(t, "ok")
    /\ UNCHANGED <<slots, phase, due, stopAsked, paused, pauseQ, starts>>

SetWiring(t) ==
    /\ pc[t] = "act" /\ op[t] = "set"
    /\ ActorServes(t)
    /\ wired' = arg[t]
    /\ Continue(t, "commit")
    /\ UNCHANGED <<slots, phase, due, stopAsked, paused, pauseQ, starts>>

CommitSlots(t) ==
    /\ pc[t] = "commit"
    /\ slots' = arg[t]
    /\ Return(t, "ok")
    /\ UNCHANGED native

-----------------------------------------------------------------------------
(* start *)

StartOutput(t) ==
    /\ pc[t] = "act" /\ op[t] = "start"
    /\ ActorServes(t)
    /\ \/ /\ starts < MaxStarts
          /\ starts' = starts + 1
          /\ phase' = "active"
          /\ Return(t, "ok")
       \/ /\ Continue(t, "lastError")
          /\ UNCHANGED <<starts, phase>>
    /\ UNCHANGED <<slots, wired, due, stopAsked, paused, pauseQ>>

(* obs_output_get_last_error, after a rejected start or pause *)
LastError(t) ==
    /\ pc[t] = "lastError"
    /\ ActorServes(t)
    /\ Return(t, "error")
    /\ UNCHANGED <<slots, native>>

-----------------------------------------------------------------------------
(* stop_impl *)

AskStop(t) ==
    /\ pc[t] = "act" /\ op[t] = "stop"
    /\ ActorServes(t)
    /\ stopAsked' = (stopAsked \/ phase = "active")
    /\ Continue(t, "waitStop")
    /\ UNCHANGED <<slots, wired, phase, due, paused, pauseQ, starts>>

(* Mutant: a stop does not wait for deactivate. *)
StopSignalSuffices(t) ==
    /\ pc[t] = "waitStop"
    /\ heard[t] \cap StopSignals # {}
    /\ Return(t, IF "failure" \in heard[t] THEN "error" ELSE "ok")
    /\ UNCHANGED <<slots, native>>

HearStop(t) ==
    /\ pc[t] = "waitStop"
    /\ heard[t] \cap StopSignals # {}
    /\ IF "failure" \in heard[t] THEN Return(t, "error") ELSE Continue(t, "waitDeactivate")
    /\ UNCHANGED <<slots, native>>

HearDeactivate(t) ==
    /\ pc[t] = "waitDeactivate"
    /\ "deactivate" \in heard[t]
    /\ Return(t, "ok")
    /\ UNCHANGED <<slots, native>>

-----------------------------------------------------------------------------
(* set_paused_with_timeout *)

(* Mutant: a pause does not wait for its signal. *)
PauseWithoutWaiting(t) ==
    /\ pc[t] = "act" /\ op[t] \in Pauses
    /\ ActorServes(t)
    /\ phase = "active" /\ Len(pauseQ) < MaxPauses
    /\ pauseQ' = Append(pauseQ, op[t])
    /\ Return(t, "ok")
    /\ UNCHANGED <<slots, wired, phase, due, stopAsked, paused, starts>>

AskPause(t) ==
    /\ pc[t] = "act" /\ op[t] \in Pauses
    /\ ActorServes(t)
    /\ \/ /\ phase = "active" /\ Len(pauseQ) < MaxPauses
          /\ pauseQ' = Append(pauseQ, op[t])
          /\ Continue(t, "waitPause")
       \/ /\ Continue(t, "lastError")
          /\ UNCHANGED pauseQ
    /\ UNCHANGED <<slots, wired, phase, due, stopAsked, paused, starts>>

HearPause(t) ==
    /\ pc[t] = "waitPause"
    /\ op[t] \in heard[t]
    /\ Return(t, "ok")
    /\ UNCHANGED <<slots, native>>

-----------------------------------------------------------------------------
(* libobs *)

(* The output ends; its stop and deactivate signals follow in any order. *)
NativeEnd ==
    /\ phase = "active"
    /\ stopAsked \/ SelfEnds
    /\ phase' = "ending"
    /\ \E code \in StopCodes : due' = due \cup {code, "deactivate"}
    /\ UNCHANGED <<lifecycle, configuration, slots, pc, op, arg, heard, outcome, wired, stopAsked,
                   paused, pauseQ, starts>>

NativeSignal(s) ==
    /\ s \in due
    /\ due' = due \ {s}
    /\ Publish(s)
    /\ IF s = "deactivate"
       THEN phase' = "inactive" /\ stopAsked' = FALSE /\ paused' = FALSE /\ pauseQ' = <<>>
       ELSE UNCHANGED <<phase, stopAsked, paused, pauseQ>>
    /\ UNCHANGED <<lifecycle, configuration, slots, pc, op, arg, outcome, wired, starts>>

NativePause ==
    /\ pauseQ # <<>>
    /\ paused' = (Head(pauseQ) = "pause")
    /\ pauseQ' = Tail(pauseQ)
    /\ Publish(Head(pauseQ))
    /\ UNCHANGED <<lifecycle, configuration, slots, pc, op, arg, outcome, wired, phase, due,
                   stopAsked, starts>>

-----------------------------------------------------------------------------
Init ==
    /\ lifecycle = None /\ configuration = None
    /\ slots = None /\ wired = None
    /\ pc = [t \in Threads |-> "idle"]
    /\ op = [t \in Threads |-> "none"]
    /\ arg = [t \in Threads |-> None]
    /\ heard = [t \in Threads |-> {}]
    /\ outcome = "none"
    /\ phase = "inactive" /\ due = {}
    /\ stopAsked = FALSE /\ paused = FALSE /\ pauseQ = <<>>
    /\ starts = 0

Step(t) ==
    \/ LockLifecycle(t) \/ LockConfiguration(t) \/ Query(t) \/ QueryPaused(t)
    \/ Subscribe(t)
    \/ SetWiring(t) \/ CommitSlots(t)
    \/ StartOutput(t) \/ LastError(t)
    \/ AskStop(t) \/ HearStop(t) \/ HearDeactivate(t)
    \/ AskPause(t) \/ HearPause(t)

Libobs == NativeEnd \/ (\E s \in due : NativeSignal(s)) \/ NativePause

Next ==
    \/ \E t \in Threads, o \in Operations, w \in Wirings \cup {None} : Begin(t, o, w)
    \/ \E t \in Threads : Step(t) \/ Deadline(t) \/ ActorFails(t)
    \/ Libobs

Spec == Init /\ [][Next]_vars

(* A thread inside an operation runs, also one that other threads keep     *)
(* from a lock for a while; clocks advance; libobs ends an output that it  *)
(* was asked to stop, answers pauses and sends the signals that are due.   *)
(* Nothing makes an output end by itself.                                  *)
Fairness ==
    /\ \A t \in Threads : /\ SF_vars(Step(t))
                          /\ WF_vars(Deadline(t))
    /\ WF_vars(stopAsked /\ NativeEnd)
    /\ WF_vars(\E s \in due : NativeSignal(s))
    /\ WF_vars(NativePause)

FairSpec == Spec /\ Fairness

-----------------------------------------------------------------------------
(* Properties *)

(* The wiring of an output that is in use never changes: no setter slips   *)
(* between a start's query and its native start, nor the other way round   *)
(* ("Serializes output configuration with start/stop", output/mod.rs:98).  *)
WiringFrozen == [][IsActive => wired' = wired]_vars

(* Whenever no operation has the configuration lock the wrapper retains    *)
(* exactly what libobs uses, whichever call on the actor failed and        *)
(* whichever deadline passed (apply_composition, the setters).             *)
SlotsMatchNative == configuration = None => slots = wired

(* A stop that succeeds leaves the output inactive, even if it heard the   *)
(* late stop signal of an earlier session or request (stop_impl waits for  *)
(* stop and for deactivate).                                               *)
StopMeansStopped ==
    [][\A t \in Threads :
         op[t] = "stop" /\ pc[t] # "idle" /\ pc'[t] = "idle" /\ outcome' = "ok"
            => phase' = "inactive"]_vars

(* A pause or resume that succeeds has that effect, unless the output      *)
(* ended meanwhile, however many earlier requests timed out before libobs  *)
(* answered them (set_paused_with_timeout).                                *)
PauseMeansPaused ==
    [][\A t \in Threads :
         op[t] \in Pauses /\ pc[t] # "idle" /\ pc'[t] = "idle" /\ outcome' = "ok"
            => paused' = (op[t] = "pause") \/ ~IsActive]_vars

(* What t waits for has not been heard and is not to come: the output has  *)
(* ended and sends nothing more.                                           *)
Forsaken(t) ==
    /\ \/ pc[t] = "waitStop" /\ heard[t] \cap StopSignals = {}
       \/ pc[t] = "waitDeactivate" /\ "deactivate" \notin heard[t]
       \/ pc[t] = "waitPause" /\ op[t] \notin heard[t]
    /\ phase = "inactive" /\ due = {}

(* Without any deadline an operation returns, also when the output ends    *)
(* with an error, by itself or while it is asked to: a stop that has       *)
(* subscribed before the output ended hears of it (traits.rs:862-871), and *)
(* every other call gets its locks and its answer, unless a stop came too  *)
(* late to hear or the output ended before it answered a pause.            *)
OperationsReturn ==
    \A t \in Threads :
        /\ pc[t] # "idle" ~> pc[t] = "idle" \/ \E u \in Threads : Forsaken(u)
        /\ op[t] = "stop" /\ pc[t] = "act" /\ phase = "active" ~> pc[t] = "idle"

(* "Pause/resume/stop/replay-save waits are bounded and subscribe before   *)
(* the native operation, so synchronous completion cannot be lost"         *)
(* (docs/api_orientation.md:128): what a stop waits for is still to come.  *)
StopsAreHeard == \A t \in Threads : op[t] = "stop" => ~Forsaken(t)

(* "Requests a graceful stop and waits at most one overall `timeout`"      *)
(* (traits.rs:822): a stop returns whatever closures on the actor do.      *)
StopReturns == \A t \in Threads : op[t] = "stop" /\ pc[t] # "idle" ~> pc[t] = "idle"

=============================================================================
