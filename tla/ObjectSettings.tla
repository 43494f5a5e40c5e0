--------------------------- MODULE ObjectSettings ---------------------------
(***************************************************************************)
(* The settings of a source, output, encoder or service: libobs's own, and *)
(* the copy that settings() returns (libobs-wrapper/src/data/object).  The *)
(* copy starts as libobs's live object; update_settings merges the given   *)
(* keys into libobs's settings and then, in a second step, puts the given  *)
(* data in place of the copy; a property button puts the live object back  *)
(* (settings_actions.rs).                                                  *)
(***************************************************************************)
EXTENDS Naturals

CONSTANTS
    Threads,
    None,        \* no thread
    Keys, Values,
    MaxCalls     \* bound: calls made

VARIABLES
    kind,        \* "source" (or service), "encoder", "output"
    active,      \* the output or encoder is active
    native,      \* libobs's settings
    copy,        \* the copy: [live, values]
    lock,        \* the output's configuration lock
    pc,
    update,      \* the data each thread updates with
    alone,       \* history: no call that could disturb the thread's has overlapped it
    clean,       \* history: no call has overlapped since one that was alone
    calls

vars == <<kind, active, native, copy, lock, pc, update, alone, clean, calls>>

Settings == [Keys -> Values]
(* An updater starts from empty data and sets some keys. *)
Updates == UNION {[K -> Values] : K \in (SUBSET Keys) \ {{}}}

TypeOK ==
    /\ kind \in {"source", "encoder", "output"}
    /\ active \in BOOLEAN
    /\ native \in Settings
    /\ copy \in [live : BOOLEAN, values : Updates \cup Settings]
    /\ lock \in Threads \cup {None}
    /\ pc \in [Threads -> {"idle", "lock", "query", "update", "replace", "refresh"}]
    /\ update \in [Threads -> Updates \cup Settings]
    /\ alone \in [Threads -> BOOLEAN] /\ clean \in BOOLEAN
    /\ calls \in 0..MaxCalls

-----------------------------------------------------------------------------
Goto(t, to) == pc' = [pc EXCEPT ![t] = to]

Merged(u) == [k \in Keys |-> IF k \in DOMAIN u THEN u[k] ELSE native[k]]

(* What settings() reads. *)
Reported == IF copy.live THEN native ELSE copy.values

(* Updates of one output exclude each other. *)
Disturbs(t, button) == pc[t] # "idle" /\ (kind # "output" \/ button \/ pc[t] = "refresh")

Start(t, button, u, to) ==
    /\ pc[t] = "idle"
    /\ calls < MaxCalls
    /\ calls' = calls + 1
    /\ Goto(t, to)
    /\ update' = [update EXCEPT ![t] = u]
    /\ alone' = [v \in Threads |->
                    IF v = t THEN \A w \in Threads : ~Disturbs(w, button)
                             ELSE alone[v] /\ ~Disturbs(v, button)]
    /\ clean' = (clean /\ alone'[t])

Return(t) ==
    /\ Goto(t, "idle")
    /\ lock' = IF lock = t THEN None ELSE lock

UpdateSettings(t, u) ==
    /\ Start(t, FALSE, u, [output |-> "lock", encoder |-> "query", source |-> "update"][kind])
    /\ UNCHANGED <<kind, active, native, copy, lock>>

(* Mutant: the lock is not kept until the update is done. *)
ConfigureUnlocked(t) ==
    /\ pc[t] = "lock"
    /\ lock = None
    /\ Goto(t, "query")
    /\ UNCHANGED <<kind, active, native, copy, lock, update, alone, clean, calls>>

LockConfiguration(t) ==
    /\ pc[t] = "lock"
    /\ lock = None
    /\ lock' = t
    /\ Goto(t, "query")
    /\ UNCHANGED <<kind, active, native, copy, update, alone, clean, calls>>

(* OutputAlreadyActive, EncoderActive *)
QueryActive(t) ==
    /\ pc[t] = "query"
    /\ IF active THEN Return(t) ELSE Goto(t, "update") /\ UNCHANGED lock
    /\ UNCHANGED <<kind, active, native, copy, update, alone, clean, calls>>

(* obs_source_update and its like *)
NativeUpdate(t) ==
    /\ pc[t] = "update"
    /\ native' = Merged(update[t])
    /\ Goto(t, "replace")
    /\ UNCHANGED <<kind, active, copy, lock, update, alone, clean, calls>>

(* The call on the actor is refused. *)
CallFails(t) ==
    /\ pc[t] \in {"query", "update"}
    /\ Return(t)
    /\ UNCHANGED <<kind, active, native, copy, update, alone, clean, calls>>

(* __internal_replace_settings *)
ReplaceSettings(t) ==
    /\ pc[t] = "replace"
    /\ copy' = [live |-> FALSE, values |-> update[t]]
    /\ clean' = (clean \/ alone[t])
    /\ Return(t)
    /\ UNCHANGED <<kind, active, native, update, alone, calls>>

(* The callback of a button may change settings; a property that is no     *)
(* enabled button is refused before.                                       *)
InvokeButton(t) ==
    /\ \E u \in Settings : Start(t, TRUE, u, "refresh") /\ native' = u
    /\ UNCHANGED <<kind, active, copy, lock>>

RefreshSettings(t) ==
    /\ pc[t] = "refresh"
    /\ copy' = [live |-> TRUE, values |-> update[t]]
    /\ clean' = (clean \/ alone[t])
    /\ Return(t)
    /\ UNCHANGED <<kind, active, native, update, alone, calls>>

(* An output is started under its configuration lock. *)
NativeToggle ==
    /\ kind # "source"
    /\ kind = "output" /\ ~active => lock = None
    /\ active' = ~active
    /\ UNCHANGED <<kind, native, copy, lock, pc, update, alone, clean, calls>>

-----------------------------------------------------------------------------
Init ==
    /\ kind \in {"source", "encoder", "output"}
    /\ active = FALSE
    /\ \E v \in Values : native = [k \in Keys |-> v]
    /\ copy = [live |-> TRUE, values |-> native]
    /\ lock = None
    /\ pc = [t \in Threads |-> "idle"]
    /\ update = [t \in Threads |-> native]
    /\ alone = [t \in Threads |-> FALSE]
    /\ clean = TRUE
    /\ calls = 0

Next ==
    \/ \E t \in Threads :
        \/ \E u \in Updates : UpdateSettings(t, u)
        \/ InvokeButton(t)
        \/ LockConfiguration(t) \/ QueryActive(t) \/ NativeUpdate(t) \/ CallFails(t)
        \/ ReplaceSettings(t) \/ RefreshSettings(t)
    \/ NativeToggle

Spec == Init /\ [][Next]_vars

-----------------------------------------------------------------------------
(* Properties *)

AllIdle == \A t \in Threads : pc[t] = "idle"
Holds(u) == \A k \in DOMAIN u : u[k] = native[k]

(* When no call is in progress each value that settings() returns is       *)
(* libobs's, for updates of some keys and of all, failing calls, buttons   *)
(* and an output that is started between them, unless calls that change    *)
(* the settings overlapped and none has been alone since.                  *)
SettingsAreCurrent == clean /\ AllIdle => Holds(Reported)

(* A scene collection is captured from settings()                          *)
(* (scene_collection.rs:903): "persists the managed libobs-rs scene model  *)
(* with ... settings and hotkeys" (libobs-simple/README.md:97).  It has    *)
(* them all, as they are, also after an update of some keys and after      *)
(* updates that overlapped.                                                *)
SettingsAreCaptured == AllIdle => Reported = native

=============================================================================
