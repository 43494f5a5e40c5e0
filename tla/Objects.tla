------------------------------ MODULE Objects -------------------------------
(***************************************************************************)
(* The objects of the wrapper that share no state, side by side: in a      *)
(* behaviour one of them runs and the others stay as they are, so that     *)
(* their states add up and do not multiply.  ManagedTransition is extended *)
(* and the others are instances.                                           *)
(***************************************************************************)
EXTENDS ManagedTransition

CONSTANTS
    Callers, MaxSaves,                              \* ReplaySave
    Scenes, SceneSources, MaxCalls, Apart,          \* SceneGraph
    Receivers, Capacity, MaxEvents,                 \* SignalHub
    Attachable, MaxGuards, ReAdd,                   \* ObjectFilters
    Keys, Values, MaxUpdates,                       \* ObjectSettings
    Idle, MaxHandles                                \* PreviewDisplay

ASSUME NamesAssumption ==
    /\ None \notin Callers \cup Threads \cup Attachable \cup Sources \cup SceneSources
    /\ None \notin {"add", "createGroup", "removeItem", "removeSource", "clear", "addItem",
                    "takeItem", "ungroup", "removeGroup", "removeGroupItem"}
    /\ "display" \notin Sources /\ Idle \notin Sources \cup {None}
ASSUME BoundsAssumption ==
    /\ MaxSaves \in Nat /\ Capacity \in Nat /\ MaxEvents \in Nat
    /\ MaxGuards \in Nat /\ MaxUpdates \in Nat /\ MaxHandles \in Nat \ {0, 1}

VARIABLES
    component,      \* the one that runs
    saveLock, replayPc, request, saved, since, path, buffering, requested, written, timedOut,
    scene, inside, sourceOf, registry, groups, removed, registryLock, groupsLock, operationLock,
    graphPc, call, subject, list, others, calls,
    subscriber, events, received, hubSince, published, sent,
    registration, callback, handle, object, actor, cleanups,
    owner, ownerHandle, attached, sourceFilters, attachedLock, adding, clones, removals, guards,
    kind, objectActive, settings, copy, configurationLock, settingsPc, update, alone, clean,
    updates,
    displayPc, displayHandles, child, address, userData, window, display, drawCallback, previewed,
    drawn, held, previewObject, displayActor, displayCleanups, panicked

replayVars == <<saveLock, replayPc, request, saved, since, path, buffering, requested, written,
                timedOut>>
graphVars == <<scene, inside, sourceOf, registry, groups, removed, registryLock, groupsLock,
               operationLock, graphPc, call, subject, list, others, calls>>
hubVars == <<subscriber, events, received, hubSince, published, sent,
             registration, callback, handle, object, actor, cleanups>>
filterVars == <<owner, ownerHandle, attached, sourceFilters, attachedLock, adding, clones,
                removals, guards>>
settingsVars == <<kind, objectActive, settings, copy, configurationLock, settingsPc, update,
                  alone, clean, updates>>
displayVars == <<displayPc, displayHandles, child, address, userData, window, display, drawCallback,
                 previewed, drawn, held, previewObject, displayActor, displayCleanups, panicked>>

Replay == INSTANCE ReplaySave
    WITH Threads <- Callers, pc <- replayPc, active <- buffering
Graph == INSTANCE SceneGraph
    WITH Sources <- SceneSources, pc <- graphPc, target <- subject
Hub == INSTANCE SignalHub
    WITH queue <- events, since <- hubSince
Filters == INSTANCE ObjectFilters
    WITH Filters <- Attachable, handle <- ownerHandle, native <- sourceFilters,
         lock <- attachedLock, cleanups <- removals
Settings == INSTANCE ObjectSettings
    WITH MaxCalls <- MaxUpdates, active <- objectActive, native <- settings,
         lock <- configurationLock, pc <- settingsPc, calls <- updates
Preview == INSTANCE PreviewDisplay
    WITH Program <- None, pc <- displayPc, handles <- displayHandles, callback <- drawCallback,
         target <- previewed, object <- previewObject, actor <- displayActor,
         cleanups <- displayCleanups

ASSUME ScenesAssumption == \A s \in Scenes : Graph!IsScene(s)

(* A component that does not run has one initial state. *)
ObjectsInit ==
    /\ component \in {"replay", "graph", "hub", "filters", "settings", "transition", "display"}
    /\ component = "filters" \/ owner = "source"
    /\ component = "settings" \/ kind = "source"
    /\ component = "settings" \/ settings = [key \in Keys |-> CHOOSE v \in Values : TRUE]
    /\ component = "display" \/ child = TRUE
    /\ Init /\ Replay!Init /\ Graph!Init /\ Hub!Init /\ Filters!Init /\ Settings!Init
    /\ Preview!Init

ObjectsNext ==
    \/ /\ component = "transition" /\ Next
       /\ UNCHANGED <<component, replayVars, graphVars, hubVars, filterVars,
                        settingsVars, displayVars>>
    \/ /\ component = "replay" /\ Replay!Next
       /\ UNCHANGED <<component, vars, graphVars, hubVars, filterVars,
                        settingsVars, displayVars>>
    \/ /\ component = "graph" /\ Graph!Next
       /\ UNCHANGED <<component, vars, replayVars, hubVars, filterVars,
                        settingsVars, displayVars>>
    \/ /\ component = "hub" /\ Hub!Next
       /\ UNCHANGED <<component, vars, replayVars, graphVars, filterVars,
                        settingsVars, displayVars>>
    \/ /\ component = "filters" /\ Filters!Next
       /\ UNCHANGED <<component, vars, replayVars, graphVars, hubVars,
                        settingsVars, displayVars>>
    \/ /\ component = "settings" /\ Settings!Next
       /\ UNCHANGED <<component, vars, replayVars, graphVars, hubVars,
                        filterVars, displayVars>>
    \/ /\ component = "display" /\ Preview!Next
       /\ UNCHANGED <<component, vars, replayVars, graphVars, hubVars,
                        filterVars, settingsVars>>

ObjectsSpec == ObjectsInit /\ [][ObjectsNext]_<<component, vars, replayVars, graphVars, hubVars,
                                                filterVars, settingsVars, displayVars>>

ObjectsTypeOK ==
    /\ component = "replay" => Replay!TypeOK
    /\ component = "graph" => Graph!TypeOK
    /\ component = "hub" => Hub!TypeOK
    /\ component = "filters" => Filters!TypeOK
    /\ component = "settings" => Settings!TypeOK
    /\ component = "transition" => TypeOK
    /\ component = "display" => Preview!TypeOK

(* The properties of each component, in the behaviours where it runs. *)
SceneIsManaged == component = "graph" => Graph!SceneIsManaged
CallsProgress == component = "graph" => Graph!CallsProgress
CallbacksAreSafe == component = "hub" => Hub!CallbacksAreSafe
FirstEventsArrive == component = "hub" => Hub!FirstEventsArrive
FiltersAreAttached == component = "filters" => Filters!FiltersAreAttached
PreviewIsSafe == component = "display" => Preview!PreviewIsSafe
SettingsAreCurrent == component = "settings" => Settings!SettingsAreCurrent
SavedPathIsRight == Replay!SavedPathIsRight
=============================================================================
