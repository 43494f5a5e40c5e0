----------------------------- MODULE SceneGraph -----------------------------
(***************************************************************************)
(* A scene, its items and its groups (libobs-wrapper/src/scenes): threads  *)
(* that share clones of the scene change libobs's item lists, one call on  *)
(* the actor at a time, and the registries that map native items back to   *)
(* managed handles.  An item stands for its handle: its native address,    *)
(* its object identity and its removed flag.  A call on the actor fails    *)
(* only when the runtime is gone, and with it the scene.                   *)
(***************************************************************************)
EXTENDS Integers, FiniteSets, SequencesExt

CONSTANTS
    Threads,
    None,        \* no thread, no source, no call
    Sources,
    Scenes,      \* scenes to start in: [scene, inside, sourceOf, registry, groups]
    MaxCalls,    \* bound: calls made
    Apart        \* pairs of calls that callers do not overlap

VARIABLES
    scene,       \* libobs: the top-level items, bottom to top
    inside,      \* libobs: the items of each group, bottom to top
    sourceOf,    \* the source each item shows; a group shows None
    registry,    \* attached_scene_items: the handles of each source
    groups,      \* attached_groups
    removed,     \* handles whose removed flag is set
    registryLock, groupsLock,    \* the threads that have them for writing
    operationLock,               \* of each group
    pc, call,    \* where each thread is, in which call,
    target,      \* on which item,
    list,        \* with which items read from libobs or the registry,
    others,      \* items or groups to remove, or the items before an ungroup,
    calls        \* and how many calls there were

native == <<scene, inside, sourceOf>>
managed == <<registry, groups, removed>>
locks == <<registryLock, groupsLock, operationLock>>
locals == <<pc, call, target, list, others, calls>>
vars == <<scene, inside, sourceOf, registry, groups, removed, registryLock, groupsLock,
          operationLock, pc, call, target, list, others, calls>>

Made == DOMAIN sourceOf
GroupItems == {i \in Made : sourceOf[i] = None}

TypeOK ==
    /\ sourceOf \in Seq(Sources \cup {None})
    /\ scene \in Seq(Made)
    /\ inside \in [GroupItems -> Seq(Made)]
    /\ registry \in [Sources -> SUBSET Made]
    /\ groups \subseteq GroupItems
    /\ removed \subseteq Made
    /\ registryLock \in Threads \cup {None}
    /\ groupsLock \in Threads \cup {None}
    /\ operationLock \in [GroupItems -> Threads \cup {None}]
    /\ target \in [Threads -> Made \cup {0}]
    /\ list \in [Threads -> Seq(Made)]
    /\ others \in [Threads -> SUBSET Made]

-----------------------------------------------------------------------------
(* libobs *)

(* A list has an item once.                                                *)
Without(s, i) == RemoveFirst(s, i)

(* Where libobs puts an item that changes its parent is its own matter.    *)
Ends(s, i) == {Append(s, i), <<i>> \o s}

(* obs_sceneitem_remove; a group takes its items with it. *)
NativeRemove(i) ==
    /\ scene' = Without(scene, i)
    /\ inside' = [g \in GroupItems |-> IF g = i THEN <<>> ELSE Without(inside[g], i)]
    /\ UNCHANGED sourceOf

(* New items for sources, in order. *)
NativeMake(sources) == sourceOf' = sourceOf \o sources

-----------------------------------------------------------------------------
(* Calls *)

Goto(t, to) == pc' = [pc EXCEPT ![t] = to]

Running == {call[t] : t \in Threads} \ {None}

(* A call starts on a handle, or on the scene, which is 0. *)
Enter(t, name, i, handles, set, to) ==
    /\ pc[t] = "idle"
    /\ calls < MaxCalls
    /\ \A pair \in Apart : name \in pair => Running \cap (pair \ {name}) = {}
    /\ calls' = calls + 1
    /\ Goto(t, to)
    /\ call' = [call EXCEPT ![t] = name]
    /\ target' = [target EXCEPT ![t] = i]
    /\ list' = [list EXCEPT ![t] = handles]
    /\ others' = [others EXCEPT ![t] = set]

Unlock(t) ==
    /\ registryLock' = IF registryLock = t THEN None ELSE registryLock
    /\ groupsLock' = IF groupsLock = t THEN None ELSE groupsLock
    /\ operationLock' = [g \in GroupItems |->
                            IF operationLock[g] = t THEN None ELSE operationLock[g]]

(* The call ends: its guards are dropped. *)
Return(t) ==
    /\ Goto(t, "idle")
    /\ call' = [call EXCEPT ![t] = None]
    /\ target' = [target EXCEPT ![t] = 0]
    /\ list' = [list EXCEPT ![t] = <<>>]
    /\ others' = [others EXCEPT ![t] = {}]
    /\ Unlock(t)
    /\ UNCHANGED calls

(* Callers have the handle of i once the call that makes it returns. *)
Known(i) == \A t \in Threads : ~(pc[t] = "register" /\ target[t] = i)

Registered == UNION {registry[s] : s \in Sources}

RegistryWithout(gone) == [s \in Sources |-> registry[s] \ gone]

(* map_native_order: every address has a handle that is not removed. *)
Mapped(addresses) == Range(addresses) \subseteq (Registered \cup groups) \ removed

-----------------------------------------------------------------------------
(* add_source makes the item in a call of its own and then registers it. *)
AddSource(t, s) ==
    LET new == Len(sourceOf) + 1
    IN  /\ Enter(t, "add", new, <<>>, {}, "register")
        /\ NativeMake(<<s>>)
        /\ scene' = Append(scene, new)
        /\ UNCHANGED <<inside, managed, locks>>

Register(t) ==
    /\ pc[t] = "register" /\ call[t] = "add"
    /\ registryLock = None
    /\ registry' = [registry EXCEPT ![sourceOf[target[t]]] = @ \cup {target[t]}]
    /\ Return(t)
    /\ UNCHANGED <<native, groups, removed>>

CreateGroup(t) ==
    LET new == Len(sourceOf) + 1
        Extend(f, v) == [g \in GroupItems \cup {new} |-> IF g = new THEN v ELSE f[g]]
    IN  /\ Enter(t, "createGroup", new, <<>>, {}, "register")
        /\ NativeMake(<<None>>)
        /\ scene' = Append(scene, new)
        /\ inside' = Extend(inside, <<>>)
        /\ operationLock' = Extend(operationLock, None)
        /\ UNCHANGED <<managed, registryLock, groupsLock>>

RegisterGroup(t) ==
    /\ pc[t] = "register" /\ call[t] = "createGroup"
    /\ groupsLock = None
    /\ groups' = groups \cup {target[t]}
    /\ Return(t)
    /\ UNCHANGED <<native, registry, removed>>

-----------------------------------------------------------------------------
(* An item's own remove_from_scene keeps the removed flag locked for the   *)
(* whole call; the scene's remove_item then prunes the registries.         *)
RemoveFromScene(t, i, next) ==
    /\ i \notin GroupItems /\ Known(i)
    /\ IF i \in removed
       THEN UNCHANGED <<native, removed>>
       ELSE NativeRemove(i) /\ removed' = removed \cup {i}
    /\ Enter(t, "removeItem", i, <<>>, {}, next)
    /\ UNCHANGED <<registry, groups, locks>>

RemovedFromScene(t) ==
    /\ pc[t] = "return"
    /\ Return(t)
    /\ UNCHANGED <<native, managed>>

Prune(t) ==
    /\ pc[t] = "prune"
    /\ registryLock = None
    /\ registry' = RegistryWithout({target[t]})
    /\ Goto(t, "pruneGroups")
    /\ UNCHANGED <<native, groups, removed, locks, call, target, list, others, calls>>

PruneGroups(t) ==
    /\ pc[t] = "pruneGroups"
    /\ groupsLock = None
    /\ groups' = groups \ {target[t]}
    /\ Return(t)
    /\ UNCHANGED <<native, registry, removed>>

(* remove_every_item_of_source, remove_all_sources and clear have the      *)
(* registry while they remove one item after the other.                    *)
RemoveSources(t, sources, name) ==
    /\ registryLock = None
    /\ Enter(t, name, 0, <<>>, UNION {registry[s] : s \in sources}, "removing")
    /\ registryLock' = t
    /\ UNCHANGED <<native, managed, groupsLock, operationLock>>

RemoveEach(t) ==
    /\ pc[t] = "removing"
    /\ \E i \in others[t] \ removed :
        /\ NativeRemove(i)
        /\ removed' = removed \cup {i}
    /\ UNCHANGED <<registry, groups, locks, locals>>

RemovedEach(t) ==
    /\ pc[t] = "removing"
    /\ others[t] \subseteq removed
    /\ registry' = RegistryWithout(others[t])
    /\ IF call[t] = "clear"
       THEN /\ Goto(t, "readGroups")
            /\ registryLock' = None
            /\ UNCHANGED <<groupsLock, operationLock, call, target, list, others, calls>>
       ELSE Return(t)
    /\ UNCHANGED <<native, groups, removed>>

(* clear_groups *)
ReadGroups(t) ==
    /\ pc[t] = "readGroups"
    /\ groupsLock = None
    /\ others' = [others EXCEPT ![t] = groups]
    /\ Goto(t, "nextGroup")
    /\ UNCHANGED <<native, managed, locks, call, target, list, calls>>

NextGroup(t) ==
    /\ pc[t] = "nextGroup"
    /\ \E g \in others[t] :
        /\ target' = [target EXCEPT ![t] = g]
        /\ others' = [others EXCEPT ![t] = @ \ {g}]
    /\ Goto(t, "operation")
    /\ UNCHANGED <<native, managed, locks, call, list, calls>>

ClearGroups(t) ==
    /\ pc[t] = "nextGroup"
    /\ others[t] = {}
    /\ groupsLock = None
    /\ groups' = {}
    /\ Return(t)
    /\ UNCHANGED <<native, registry, removed>>

-----------------------------------------------------------------------------
(* Mutant: the scene's remove_item keeps the registry while it calls.      *)
GroupCallInRegistry(t, g, name, handles) ==
    /\ g \in GroupItems /\ Known(g)
    /\ Enter(t, name, g, handles, {}, "operation")
    /\ IF name = "removeGroupItem"
       THEN registryLock = None /\ registryLock' = t /\ UNCHANGED <<groupsLock, operationLock>>
       ELSE UNCHANGED locks
    /\ UNCHANGED <<native, managed>>

(* Calls on a group: add_item and remove_item with an item, ungroup,       *)
(* remove_from_scene, and the scene's remove_item of a group.              *)
GroupCall(t, g, name, handles) ==
    /\ g \in GroupItems /\ Known(g)
    /\ Enter(t, name, g, handles, {}, "operation")
    /\ UNCHANGED <<native, managed, locks>>

(* The group's part of a call is over. *)
Leave(t) ==
    IF call[t] \in {"clear", "removeGroupItem"}
    THEN /\ Goto(t, IF call[t] = "clear" THEN "nextGroup" ELSE "prune")
         /\ list' = [list EXCEPT ![t] = <<>>]
         /\ Unlock(t)
         /\ UNCHANGED <<call, target, others, calls>>
    ELSE Return(t)

TakeOperation(t) ==
    /\ pc[t] = "operation"
    /\ operationLock[target[t]] = None
    /\ IF ({target[t]} \cup Range(list[t])) \cap removed # {}
       THEN Leave(t)
       ELSE /\ operationLock' = [operationLock EXCEPT ![target[t]] = t]
            /\ Goto(t, IF list[t] = <<>> THEN "children" ELSE "reparent")
            /\ UNCHANGED <<registryLock, groupsLock, call, target, list, others, calls>>
    /\ UNCHANGED <<native, managed>>

(* add_item and remove_item look at the parents again in the call. *)
Reparent(t) ==
    LET g == target[t]
        i == list[t][1]
    IN  /\ pc[t] = "reparent"
        /\ IF call[t] = "addItem"
           THEN IF i \in Range(scene) \ GroupItems /\ g \in Range(scene)
                THEN /\ scene' = Without(scene, i)
                     /\ \E end \in Ends(inside[g], i) : inside' = [inside EXCEPT ![g] = end]
                ELSE UNCHANGED <<scene, inside>>
           ELSE IF i \in Range(inside[g])
                THEN /\ scene' \in Ends(scene, i)
                     /\ inside' = [inside EXCEPT ![g] = Without(@, i)]
                ELSE UNCHANGED <<scene, inside>>
        /\ Return(t)
        /\ UNCHANGED <<sourceOf, managed>>

(* items_in_order_unlocked: the addresses, then their handles. *)
ReadChildren(t) ==
    /\ pc[t] = "children"
    /\ list' = [list EXCEPT ![t] = inside[target[t]]]
    /\ Goto(t, "map")
    /\ UNCHANGED <<native, managed, locks, call, target, others, calls>>

MapChildren(t) ==
    /\ pc[t] = "map"
    /\ registryLock = None /\ groupsLock = None
    /\ IF Mapped(list[t])
       THEN Goto(t, "lockRegistry") /\ UNCHANGED <<locks, call, target, list, others, calls>>
       ELSE Return(t)
    /\ UNCHANGED <<native, managed>>

(* Every child must have its one place in the registry. *)
LockRegistry(t) ==
    /\ pc[t] = "lockRegistry"
    /\ registryLock = None
    /\ IF Range(list[t]) \subseteq Registered
       THEN /\ registryLock' = t
            /\ Goto(t, "lockGroups")
            /\ UNCHANGED <<groupsLock, operationLock, call, target, list, others, calls>>
       ELSE Return(t)
    /\ UNCHANGED <<native, managed>>

LockGroups(t) ==
    /\ pc[t] = "lockGroups"
    /\ groupsLock = None
    /\ IF call[t] = "ungroup" /\ target[t] \notin groups
       THEN Return(t)
       ELSE /\ groupsLock' = t
            /\ Goto(t, IF call[t] = "ungroup" THEN "readScene" ELSE "removeGroup")
            /\ UNCHANGED <<registryLock, operationLock, call, target, list, others, calls>>
    /\ UNCHANGED <<native, managed>>

(* Mutant: the children stay in the registry. *)
RemoveGroupAlone(t) ==
    /\ pc[t] = "removeGroup"
    /\ NativeRemove(target[t])
    /\ removed' = removed \cup {target[t]}
    /\ groups' = groups \ {target[t]}
    /\ Leave(t)
    /\ UNCHANGED registry

(* remove_from_scene of a group, with its children. *)
RemoveGroup(t) ==
    LET gone == Range(list[t])
    IN  /\ pc[t] = "removeGroup"
        /\ NativeRemove(target[t])
        /\ removed' = removed \cup gone \cup {target[t]}
        /\ registry' = RegistryWithout(gone)
        /\ groups' = groups \ {target[t]}
        /\ Leave(t)

ReadScene(t) ==
    /\ pc[t] = "readScene"
    /\ others' = [others EXCEPT ![t] = Range(scene)]
    /\ Goto(t, "ungroup")
    /\ UNCHANGED <<native, managed, locks, call, target, list, calls>>

(* obs_sceneitem_group_ungroup2 puts a new item for each child where the   *)
(* group was.  The items that were not there before take, in their order,  *)
(* the places of the children that were there before.                      *)
Ungroup(t) ==
    LET g == target[t]
        children == inside[g]
        new == [k \in DOMAIN children |-> Len(sourceOf) + k]
        at == SelectInSeq(scene, LAMBDA i : i = g)
        fresh == {n \in DOMAIN scene' : scene'[n] \notin others[t]}
        Nth(k) == CHOOSE n \in fresh : Cardinality({m \in fresh : m <= n}) = k
        Place(i) == SelectInSeq(list[t], LAMBDA j : j = i)
        Rebound(i) == IF Place(i) = 0 THEN i ELSE scene'[Nth(Place(i))]
        Rebind(handles) == {Rebound(i) : i \in {h \in handles : Place(h) <= Cardinality(fresh)}}
    IN  /\ pc[t] = "ungroup"
        /\ NativeMake([k \in DOMAIN children |-> sourceOf[children[k]]])
        /\ scene' = SubSeq(scene, 1, at - 1) \o new \o SubSeq(scene, at + 1, Len(scene))
        /\ inside' = [inside EXCEPT ![g] = <<>>]
        /\ registry' = [s \in Sources |-> Rebind(registry[s])]
        /\ removed' = removed \cup Range(list[t]) \cup {g}
        /\ groups' = groups \ {g}
        /\ Return(t)

-----------------------------------------------------------------------------
(* A scene that calls can have built: an item of a source is in the scene  *)
(* or in one group, once, a group is in no other, and those that are in    *)
(* one are the ones with handles.                                          *)
IsScene(s) ==
    LET made == DOMAIN s.sourceOf
        bands == {i \in made : s.sourceOf[i] = None}
        handles == s.groups \cup UNION {s.registry[source] : source \in Sources}
    IN  /\ s.sourceOf \in Seq(Sources \cup {None})
        /\ s.scene \in Seq(made) /\ IsInjective(s.scene)
        /\ s.inside \in [bands -> Seq(made)]
        /\ \A g \in bands :
              /\ IsInjective(s.inside[g])
              /\ Range(s.inside[g]) \cap (Range(s.scene) \cup bands) = {}
              /\ \A h \in bands \ {g} : Range(s.inside[g]) \cap Range(s.inside[h]) = {}
        /\ s.registry \in [Sources -> SUBSET made] /\ s.groups \subseteq bands
        /\ \A source \in Sources : \A i \in s.registry[source] : s.sourceOf[i] = source
        /\ Range(s.scene) \cup UNION {Range(s.inside[g]) : g \in bands} = handles

(* A new scene, or one that earlier calls have built. *)
Init ==
    /\ \E s \in Scenes :
        /\ scene = s.scene /\ inside = s.inside /\ sourceOf = s.sourceOf
        /\ registry = s.registry /\ groups = s.groups
    /\ removed = {}
    /\ registryLock = None /\ groupsLock = None
    /\ operationLock = [g \in GroupItems |-> None]
    /\ pc = [t \in Threads |-> "idle"]
    /\ call = [t \in Threads |-> None]
    /\ target = [t \in Threads |-> 0]
    /\ list = [t \in Threads |-> <<>>]
    /\ others = [t \in Threads |-> {}]
    /\ calls = 0

Start(t) ==
    \/ \E s \in Sources : AddSource(t, s) \/ RemoveSources(t, {s}, "removeSource")
    \/ CreateGroup(t)
    \/ \E i \in Made : RemoveFromScene(t, i, "return") \/ RemoveFromScene(t, i, "prune")
    \/ RemoveSources(t, Sources, "removeSource") \/ RemoveSources(t, Sources, "clear")
    \/ \E g \in GroupItems :
        \/ \E i \in Made, name \in {"addItem", "takeItem"} : Known(i) /\ GroupCall(t, g, name, <<i>>)
        \/ \E name \in {"ungroup", "removeGroup", "removeGroupItem"} : GroupCall(t, g, name, <<>>)

Continue(t) ==
    \/ Register(t) \/ RegisterGroup(t) \/ RemovedFromScene(t) \/ Prune(t) \/ PruneGroups(t)
    \/ RemoveEach(t) \/ RemovedEach(t) \/ ReadGroups(t) \/ NextGroup(t) \/ ClearGroups(t)
    \/ TakeOperation(t) \/ Reparent(t) \/ ReadChildren(t) \/ MapChildren(t)
    \/ LockRegistry(t) \/ LockGroups(t) \/ RemoveGroup(t) \/ ReadScene(t) \/ Ungroup(t)

Next == \E t \in Threads : Start(t) \/ Continue(t)

Spec == Init /\ [][Next]_vars

-----------------------------------------------------------------------------
(* Properties *)

Attached == Range(scene) \cup UNION {Range(inside[g]) : g \in GroupItems}

(* When no call is in progress the registries and libobs agree: every      *)
(* native item has a handle that is not removed, so that items_in_order    *)
(* finds it (map_native_order), every such handle is of a native item, and *)
(* is registered under the source the item shows, also after an ungroup    *)
(* gave the places of children to new items by their position.             *)
SceneIsManaged ==
    (\A t \in Threads : pc[t] = "idle") =>
        /\ Attached = (Registered \cup groups) \ removed
        /\ \A s \in Sources : \A i \in registry[s] : sourceOf[i] = s

(* Calls on a scene never wait for each other in a circle: as long as one  *)
(* is in progress one of them can go on.                                   *)
CallsProgress == (\E t \in Threads : pc[t] # "idle") => ENABLED (\E t \in Threads : Continue(t))

=============================================================================
