----------------------------- MODULE SignalHub ------------------------------
(***************************************************************************)
(* The events libobs sends to the program (libobs-wrapper/src/signals,     *)
(* hotkeys.rs): a hub with its subscribers, registered with libobs by its  *)
(* address, and the registration's life: a signal manager, a hotkey, a     *)
(* fader or a volume meter of one native object, dropped on any thread     *)
(* while the actor runs, recovers from a panic, shuts libobs down or has   *)
(* exited.  The actor itself is in RuntimeActor; here it is its cleanup    *)
(* queue and its phases.                                                   *)
(***************************************************************************)
EXTENDS Naturals, SequencesExt

CONSTANTS
    Receivers,     \* subscriptions
    Capacity,      \* SIGNAL_QUEUE_CAPACITY
    MaxEvents      \* bound: events libobs sends

VARIABLES
    subscriber,    \* the sender's place in the hub's list, by receiver
    queue,         \* each receiver's queue of events
    received,      \* what each receiver has taken
    since,         \* the events published before it subscribed
    published,     \* the events published
    sent,          \* how many events libobs has sent
    registration,  \* the manager, hotkey, fader or meter
    callback,      \* libobs has the callback, with the hub's address
    handle,        \* the program has a handle of its own on the object
    object,        \* the native object
    actor,
    cleanups       \* the cleanup queue, of [what, lease, hub]

hubVars == <<subscriber, queue, received, since, published, sent>>
lifeVars == <<registration, callback, handle, object, actor, cleanups>>
vars == <<subscriber, queue, received, since, published, sent, registration, callback, handle,
          object, actor, cleanups>>

Events == 1..MaxEvents

TypeOK ==
    /\ subscriber \in [Receivers -> {"none", "listed", "dropped", "unlisted"}]
    /\ queue \in [Receivers -> Seq(Events)]
    /\ received \in [Receivers -> Seq(Events)]
    /\ since \in [Receivers -> Nat]
    /\ published \in Seq(Events) /\ sent \in 0..MaxEvents
    /\ registration \in {"none", "live", "dropped", "gone"}
    /\ callback \in BOOLEAN /\ handle \in BOOLEAN
    /\ object \in {"live", "released"}
    /\ actor \in {"running", "recovering", "down", "exited"}
    /\ cleanups \in Seq([what : {"disconnect", "release"}, lease : BOOLEAN, hub : BOOLEAN])

-----------------------------------------------------------------------------
(* The hub *)

HubAlive == registration = "live" \/ \E k \in DOMAIN cleanups : cleanups[k].hub

(* subscribe, through on_<signal> or events *)
Subscribe(r) ==
    /\ registration = "live"
    /\ subscriber[r] = "none"
    /\ subscriber' = [subscriber EXCEPT ![r] = "listed"]
    /\ since' = [since EXCEPT ![r] = Len(published)]
    /\ UNCHANGED <<queue, received, published, sent, lifeVars>>

(* recv, recv_timeout and try_recv; nothing to take changes nothing. *)
Receive(r) ==
    /\ subscriber[r] = "listed"
    /\ queue[r] # <<>>
    /\ received' = [received EXCEPT ![r] = Append(@, Head(queue[r]))]
    /\ queue' = [queue EXCEPT ![r] = Tail(@)]
    /\ UNCHANGED <<subscriber, since, published, sent, lifeVars>>

DropReceiver(r) ==
    /\ subscriber[r] = "listed"
    /\ subscriber' = [subscriber EXCEPT ![r] = "dropped"]
    /\ UNCHANGED <<queue, received, since, published, sent, lifeVars>>

(* Mutant: a full queue forgets its oldest event. *)
PublishToRing(r, e) ==
    CASE subscriber[r] = "listed" ->
             [state |-> "listed",
              queue |-> IF Len(queue[r]) < Capacity THEN Append(queue[r], e)
                        ELSE Append(Tail(queue[r]), e)]
      [] subscriber[r] = "dropped" -> [state |-> "unlisted", queue |-> <<>>]
      [] OTHER -> [state |-> subscriber[r], queue |-> queue[r]]

(* retain: a full queue misses the event, a dropped receiver is forgotten. *)
PublishTo(r, e) ==
    CASE subscriber[r] = "listed" /\ Len(queue[r]) < Capacity ->
             [state |-> "listed", queue |-> Append(queue[r], e)]
      [] subscriber[r] = "dropped" -> [state |-> "unlisted", queue |-> <<>>]
      [] OTHER -> [state |-> subscriber[r], queue |-> queue[r]]

(* libobs calls the callback; an event that cannot be converted is logged. *)
Callback(converts) ==
    /\ callback /\ actor # "exited"
    /\ sent < MaxEvents
    /\ sent' = sent + 1
    /\ IF converts
       THEN /\ published' = Append(published, sent')
            /\ subscriber' = [r \in Receivers |-> PublishTo(r, sent').state]
            /\ queue' = [r \in Receivers |-> PublishTo(r, sent').queue]
       ELSE UNCHANGED <<published, subscriber, queue>>
    /\ UNCHANGED <<received, since, lifeVars>>

-----------------------------------------------------------------------------
(* The registration *)

(* A manager is connected, a hotkey registered or a fader attached in one  *)
(* call on the actor; libobs may refuse, and then has no callback.         *)
NewRegistration(accepted) ==
    /\ registration = "none"
    /\ handle /\ actor = "running"
    /\ IF accepted THEN registration' = "live" /\ callback' = TRUE
                   ELSE UNCHANGED <<registration, callback>>
    /\ UNCHANGED <<handle, object, actor, cleanups, hubVars>>

(* defer_obs_cleanup off the actor: with the receiver gone it is lost.     *)
Defer(task) == cleanups' = IF actor = "exited" THEN cleanups ELSE Append(cleanups, task)

Release == [what |-> "release", lease |-> FALSE, hub |-> FALSE]

(* Mutant: the cleanup of a manager does not keep the hub. *)
DropWithoutHub ==
    /\ registration = "live"
    /\ registration' = "dropped"
    /\ Defer([what |-> "disconnect", lease |-> TRUE, hub |-> FALSE])
    /\ UNCHANGED <<callback, handle, object, actor, hubVars>>

(* The manager, hotkey, fader or meter is dropped.  The cleanup owns a     *)
(* lease on the object and the hub; lost, it is dropped at once.           *)
DropRegistration ==
    /\ registration = "live"
    /\ registration' = "dropped"
    /\ Defer([what |-> "disconnect", lease |-> TRUE, hub |-> TRUE])
    /\ UNCHANGED <<callback, handle, object, actor, hubVars>>

(* The last lease on the object releases it, on the actor. *)
DropHandle ==
    /\ handle
    /\ handle' = FALSE
    /\ IF registration = "live" \/ \E k \in DOMAIN cleanups : cleanups[k].lease
       THEN UNCHANGED cleanups
       ELSE Defer(Release)
    /\ UNCHANGED <<registration, callback, object, actor, hubVars>>

(* The actor runs the first cleanup, and then drops what it owns: a last   *)
(* lease is released there and then.                                       *)
RunCleanup ==
    /\ actor \in {"running", "recovering"}
    /\ cleanups # <<>>
    /\ cleanups' = Tail(cleanups)
    /\ IF Head(cleanups).what = "disconnect"
       THEN /\ callback' = FALSE
            /\ object' = IF handle THEN object ELSE "released"
            /\ registration' = "gone"
       ELSE object' = "released" /\ UNCHANGED <<callback, registration>>
    /\ UNCHANGED <<handle, actor, hubVars>>

(* A command panics: pending cleanups are run before libobs is shut down.  *)
Panic ==
    /\ actor = "running"
    /\ actor' = "recovering"
    /\ UNCHANGED <<registration, callback, handle, object, cleanups, hubVars>>

(* The last runtime handle is gone, or the recovery found no cleanup.      *)
ShutDown ==
    /\ \/ actor = "running" /\ ~handle /\ registration # "live" /\ cleanups = <<>>
       \/ actor = "recovering" /\ cleanups = <<>>
    /\ actor' = "down"
    /\ UNCHANGED <<registration, callback, handle, object, cleanups, hubVars>>

(* The thread ends after obs_shutdown; the queue is dropped with it.       *)
Exit ==
    /\ actor = "down"
    /\ actor' = "exited"
    /\ cleanups' = <<>>
    /\ UNCHANGED <<registration, callback, handle, object, hubVars>>

-----------------------------------------------------------------------------
Init ==
    /\ subscriber = [r \in Receivers |-> "none"]
    /\ queue = [r \in Receivers |-> <<>>] /\ received = [r \in Receivers |-> <<>>]
    /\ since = [r \in Receivers |-> 0]
    /\ published = <<>> /\ sent = 0
    /\ registration = "none" /\ callback = FALSE
    /\ handle = TRUE /\ object = "live"
    /\ actor = "running" /\ cleanups = <<>>

Next ==
    \/ \E r \in Receivers : Subscribe(r) \/ Receive(r) \/ DropReceiver(r)
    \/ \E b \in BOOLEAN : Callback(b) \/ NewRegistration(b)
    \/ DropRegistration \/ DropHandle \/ RunCleanup
    \/ Panic \/ ShutDown \/ Exit

Spec == Init /\ [][Next]_vars

-----------------------------------------------------------------------------
(* Properties *)

(* Whenever libobs can call back the hub it was given is alive, and the    *)
(* object a queued disconnect works on has not been released, whichever    *)
(* thread drops the registration and whatever the actor is doing           *)
(* ("Dropping them only after unregister prevents callback-after-free",    *)
(* hotkeys.rs:165).                                                        *)
CallbacksAreSafe ==
    /\ callback /\ actor # "exited" => HubAlive
    /\ \A k \in DOMAIN cleanups : cleanups[k].what = "disconnect" => object = "live"

(* A receiver gets events in the order of publication, and the first       *)
(* Capacity events after it subscribed are never lost, however slow it is  *)
(* and whoever else subscribes or goes: a caller that subscribes before it *)
(* asks for something hears of its completion.                             *)
FirstEventsArrive ==
    \A r \in Receivers :
        LET all == received[r] \o queue[r]
            later == SubSeq(published, since[r] + 1, Len(published))
            first == SubSeq(later, 1, IF Len(later) < Capacity THEN Len(later) ELSE Capacity)
        IN  subscriber[r] = "listed" =>
                IsPrefix(first, all) /\ \A i, j \in DOMAIN all : i < j => all[i] < all[j]

=============================================================================
