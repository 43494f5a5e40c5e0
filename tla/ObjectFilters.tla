--------------------------- MODULE ObjectFilters ----------------------------
(***************************************************************************)
(* The filters of a source or of a scene (libobs-wrapper/src/sources,      *)
(* scenes/filter_traits.rs).  attached_filters pairs a filter with a guard *)
(* that takes it off again: the guard is shared by the clones of its pair, *)
(* and its last drop queues the removal on the actor, which picks commands *)
(* and cleanups in any order.  A scene does not look for duplicates.       *)
(***************************************************************************)
EXTENDS Naturals, FiniteSets, SequencesExt

CONSTANTS
    Threads,
    None,          \* no thread, no filter
    Filters,
    MaxGuards,     \* bound: guards made
    ReAdd          \* whether a filter is added to a scene again while its removal is queued

VARIABLES
    owner,         \* "source" or "scene"
    handle,        \* the program still has the source or scene
    attached,      \* attached_filters: pairs of [filter, guard]
    native,        \* libobs: the filters of the source
    lock,          \* the thread that has attached_filters for writing
    adding,        \* the filter each thread has asked the actor to add
    clones,        \* pairs that get_active_filters gave the program
    cleanups,      \* the removals queued
    guards         \* how many guards there were

vars == <<owner, handle, attached, native, lock, adding, clones, cleanups, guards>>

Pairs == [filter : Filters, guard : 1..MaxGuards]

TypeOK ==
    /\ owner \in {"source", "scene"}
    /\ handle \in BOOLEAN
    /\ attached \subseteq Pairs /\ clones \subseteq Pairs
    /\ native \subseteq Filters
    /\ lock \in Threads \cup {None}
    /\ adding \in [Threads -> Filters \cup {None}]
    /\ cleanups \in Seq(Filters)
    /\ guards \in 0..MaxGuards

FiltersOf(pairs) == {p.filter : p \in pairs}

-----------------------------------------------------------------------------
(* The guards of dropped pairs that have no clone queue their removals, in *)
(* the order in which they were made.                                      *)
DropPairs(pairs, kept) ==
    LET dropped == pairs \ kept
    IN  \E order \in Bijection(1..Cardinality(dropped), dropped) :
            /\ \A m, n \in DOMAIN order : m < n => order[m].guard < order[n].guard
            /\ cleanups' = cleanups \o [k \in DOMAIN order |-> order[k].filter]

(* Mutant: the lock is not kept while the actor adds the filter. *)
AddUnlocked(t, f) ==
    /\ handle
    /\ adding[t] = None
    /\ guards + Cardinality({u \in Threads : adding[u] # None}) < MaxGuards
    /\ owner = "source" => f \notin FiltersOf(attached)
    /\ ReAdd \/ f \notin Range(cleanups)
    /\ adding' = [adding EXCEPT ![t] = f]
    /\ UNCHANGED <<owner, handle, attached, native, lock, clones, cleanups, guards>>

(* apply_filter and add_scene_filter have the lock while the actor adds;   *)
(* a source refuses a filter it has.                                       *)
Add(t, f) ==
    /\ handle
    /\ adding[t] = None
    /\ guards + Cardinality({u \in Threads : adding[u] # None}) < MaxGuards
    /\ lock = None
    /\ owner = "source" => f \notin FiltersOf(attached)
    /\ ReAdd \/ f \notin Range(cleanups)
    /\ lock' = t
    /\ adding' = [adding EXCEPT ![t] = f]
    /\ UNCHANGED <<owner, handle, attached, native, clones, cleanups, guards>>

(* obs_source_filter_add, which ignores a filter that is there. *)
Added(t) ==
    LET f == adding[t]
    IN  /\ f # None
        /\ native' = native \cup {f}
        /\ guards' = guards + 1
        /\ attached' = attached \cup {[filter |-> f, guard |-> guards']}
        /\ adding' = [adding EXCEPT ![t] = None]
        /\ lock' = IF lock = t THEN None ELSE lock
        /\ UNCHANGED <<owner, handle, clones, cleanups>>

(* The command is refused, or the runtime is gone: nothing was added.      *)
AddFails(t) ==
    /\ adding[t] # None
    /\ adding' = [adding EXCEPT ![t] = None]
    /\ lock' = IF lock = t THEN None ELSE lock
    /\ UNCHANGED <<owner, handle, attached, native, clones, cleanups, guards>>

(* remove_scene_filter drops every pair of the filter. *)
RemoveSceneFilter(f) ==
    LET gone == {p \in attached : p.filter = f}
    IN  /\ handle /\ owner = "scene" /\ gone # {}
        /\ lock = None
        /\ attached' = attached \ gone
        /\ DropPairs(gone, clones)
        /\ UNCHANGED <<owner, handle, native, lock, adding, clones, guards>>

(* get_active_filters *)
GetActiveFilters ==
    /\ handle /\ owner = "source"
    /\ lock = None
    /\ clones' = attached
    /\ DropPairs(clones, attached)
    /\ UNCHANGED <<owner, handle, attached, native, lock, adding, guards>>

DropClones ==
    /\ clones # {}
    /\ clones' = {}
    /\ DropPairs(clones, attached)
    /\ UNCHANGED <<owner, handle, attached, native, lock, adding, guards>>

(* The last handle is dropped; no call is in progress on it. *)
DropOwner ==
    /\ handle
    /\ \A t \in Threads : adding[t] = None
    /\ handle' = FALSE
    /\ attached' = {}
    /\ DropPairs(attached, clones)
    /\ UNCHANGED <<owner, native, lock, adding, clones, guards>>

(* obs_source_filter_remove, on the source and filter the guard keeps. *)
RunCleanup ==
    /\ cleanups # <<>>
    /\ cleanups' = Tail(cleanups)
    /\ native' = native \ {Head(cleanups)}
    /\ UNCHANGED <<owner, handle, attached, lock, adding, clones, guards>>

-----------------------------------------------------------------------------
Init ==
    /\ owner \in {"source", "scene"}
    /\ handle = TRUE
    /\ attached = {} /\ clones = {} /\ native = {}
    /\ lock = None
    /\ adding = [t \in Threads |-> None]
    /\ cleanups = <<>>
    /\ guards = 0

Next ==
    \/ \E t \in Threads : (\E f \in Filters : Add(t, f)) \/ Added(t) \/ AddFails(t)
    \/ \E f \in Filters : RemoveSceneFilter(f)
    \/ GetActiveFilters \/ DropClones \/ DropOwner \/ RunCleanup

Spec == Init /\ [][Next]_vars

-----------------------------------------------------------------------------
(* Properties *)

(* "Adds a filter to the given source in this scene" and "Removes a filter *)
(* from the this scene" (filter_traits.rs:12, 15): once the queued         *)
(* removals are done libobs has the filters that are attached and those    *)
(* whose pair the program still has, and no other; and a source never has  *)
(* a filter twice ("FilterAlreadyApplied", apply_filter).                  *)
FiltersAreAttached ==
    /\ (cleanups = <<>> /\ \A t \in Threads : adding[t] = None) =>
           native = FiltersOf(attached \cup clones)
    /\ owner = "source" => \A p, q \in attached : p.filter = q.filter => p = q

=============================================================================
