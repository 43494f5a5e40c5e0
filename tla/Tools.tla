------------------------------- MODULE Tools --------------------------------
(***************************************************************************)
(* The components around the wrapper, libobs-simple and the tools that     *)
(* fetch OBS, side by side.  They share no state: in a behaviour one of    *)
(* them runs and the others stay as they are, so that their states add up  *)
(* and do not multiply.  SceneCollectionSave is extended and the others    *)
(* are instances.                                                          *)
(***************************************************************************)
EXTENDS SceneCollectionSave, Integers, FiniteSets

CONSTANTS
    Items, Groups, Sources, Unknown, States, MaxHistory, Rejections,    \* SceneCollectionEditor
    Documents, Plugins,                                                 \* SceneCollectionRestore
    Schemas, Encoders, Others,                                          \* GenericSettings
    Processes, None, ReleaseFiles, MaxBuilds, Disturbances,             \* BuildCache
    Catalogue, OutputTypes, Codec, MaxStarts,                           \* SimpleOutputs
    Versions, Configured, Library, OtherFiles, NoVersion, MaxInstalls   \* Bootstrap

ASSUME DocumentAssumption == IsFiniteSet(Items) /\ States \subseteq Int
ASSUME ProcessesAssumption == None \notin Processes /\ MaxBuilds \in Nat

(* What a schema says of whole numbers, and such values, are integers.     *)
ValueTypes == {"boolean", "integer", "float", "string", "frame rate"}
Elements(list) == {list[i] : i \in DOMAIN list}
Properties(s) ==
    Elements(s) \cup
    UNION {Elements(p.properties) : p \in {q \in Elements(s) : q.kind = "group"}}
ASSUME SettingsAssumption ==
    /\ \A s \in Schemas :
          /\ s \in Seq(Elements(s))
          /\ \A p \in Properties(s) :
                /\ p.kind = "integer" => p.min \in Int /\ p.max \in Int /\ p.step \in Int
                /\ p.kind = "group" => p.properties \in Seq(Elements(p.properties))
    /\ \A e \in Encoders : e.bitrate \in Int /\ (e.crf # <<>> => e.crf[1] \in Int)
    /\ \A list \in Others :
          /\ list \in Seq(Elements(list))
          /\ \A r \in Elements(list) : /\ r.value.type \in ValueTypes
                                       /\ r.value.type = "integer" => r.value.is[1] \in Int

(* A document is valid (validate_references) and lists what it captured in *)
(* the order of the positions (items_in_order).                            *)
Listed(list, ids) ==
    /\ list \in Seq(Elements(list))
    /\ \A i \in DOMAIN list : /\ list[i].id \in Nat /\ list[i].source \in ids
                              /\ list[i].order \in Nat /\ list[i].order >= i - 1
ASSUME RestoreAssumption ==
    \A d \in Documents :
        LET ids == {d.sources[i].id : i \in DOMAIN d.sources}
        IN  /\ d.sources \in Seq(Elements(d.sources))
            /\ \A i, n \in DOMAIN d.sources : d.sources[i].id = d.sources[n].id => i = n
            /\ \A i \in DOMAIN d.sources : d.sources[i].filters \in Seq(Elements(d.sources[i].filters))
            /\ "group" \notin ids
            /\ Listed(d.nodes, ids \cup {"group"})
            /\ \A i \in DOMAIN d.nodes :
                  /\ Listed(d.nodes[i].items, ids)
                  /\ d.nodes[i].source # "group" => d.nodes[i].items = <<>>
ASSUME CatalogueAssumption ==
    Catalogue \in Seq([codec : STRING, hardware : BOOLEAN, hidden : BOOLEAN]) /\ MaxStarts \in Nat
ASSUME VersionsAssumption ==
    Versions \subseteq Nat \X Nat \X Nat /\ Configured \in Versions /\ MaxInstalls \in Nat

VARIABLES
    component,      \* the one that runs
    document, undo, redo,
    saved, strictly, available, gone, restorePc, place, child, sources, filters, scene, failure,
    diagnostics,
    schema, strict, requests, refuses, settingsPc, request, data, report,
    dir, tree, markers, lock, buildPc, verified, rebuild, existed, remains, out, builds, stale,
    holes, missed, steady,
    policy, discovered, outputType, outputPc, at, created, pending, encoder, next,
    attempts, tried, failed, lost, starts,
    published, cached, list, installed, torn, loaded, mode, update, bootstrapPc, target, copied,
    partial, calls

editorVars == <<document, undo, redo>>
restoreVars == <<saved, strictly, available, gone, restorePc, place, child, sources, filters,
                 scene, failure, diagnostics>>
settingsVars == <<schema, strict, requests, refuses, settingsPc, request, data, report>>
buildVars == <<dir, tree, markers, lock, buildPc, verified, rebuild, existed, remains, out, builds,
               stale, holes, missed, steady>>
outputVars == <<policy, discovered, outputType, outputPc, at, created, pending, encoder,
                next, attempts, tried, failed, lost, starts>>
bootstrapVars == <<published, cached, list, installed, torn, loaded, mode, update, bootstrapPc,
                   target, copied, partial, calls>>

-----------------------------------------------------------------------------
Editor == INSTANCE SceneCollectionEditor
Restore == INSTANCE SceneCollectionRestore
    WITH document <- saved, strict <- strictly, pc <- restorePc, k <- place, j <- child
Generic == INSTANCE GenericSettings
    WITH pc <- settingsPc, k <- request
Cache == INSTANCE BuildCache
    WITH Files <- ReleaseFiles, pc <- buildPc
Output == INSTANCE SimpleOutputs
    WITH pc <- outputPc, report <- attempts
Setup == INSTANCE Bootstrap
    WITH Rest <- OtherFiles, Absent <- NoVersion, MaxCalls <- MaxInstalls, pc <- bootstrapPc

Runs(name) == component = name

(* A component that does not run has one initial state. *)
ToolsInit ==
    /\ component \in {"editor", "save", "restore", "generic", "cache", "output", "bootstrap"}
    /\ Runs("editor") \/ document = CHOOSE d \in Editor!Starts : TRUE
    /\ Runs("save") \/ replaces = TRUE
    /\ Runs("save") \/ contents = <<>>
    /\ Runs("save") \/ process = CHOOSE p \in [Threads -> {1, 2}] :
                                \A t, u \in Threads : t # u => (p[t] = p[u]) = Shared
    /\ Runs("restore") \/ saved = CHOOSE d \in Documents : TRUE
    /\ Runs("restore") \/ strictly = TRUE
    /\ Runs("restore") \/ available = {}
    /\ Runs("restore") \/ gone = {}
    /\ Runs("generic") \/ schema = CHOOSE s \in Schemas : TRUE
    /\ Runs("generic") \/ strict = TRUE
    /\ Runs("generic") \/ requests = CHOOSE r \in Others : TRUE
    /\ Runs("generic") \/ refuses = FALSE
    /\ Runs("output") \/ policy = [kind |-> "auto", encoder |-> 0]
    /\ Runs("output") \/ discovered = {}
    /\ Runs("output") \/ outputType = CHOOSE t \in OutputTypes : TRUE
    /\ Runs("bootstrap") \/ published = {Configured}
    /\ Runs("bootstrap") \/ installed = [f \in {Library} \cup OtherFiles |-> NoVersion]
    /\ Init /\ Editor!Init /\ Restore!Init /\ Generic!Init /\ Cache!Init /\ Output!Init
    /\ Setup!Init

ToolsNext ==
    \/ /\ Runs("save") /\ Next
       /\ UNCHANGED <<component, editorVars, restoreVars, settingsVars, buildVars, outputVars, bootstrapVars>>
    \/ /\ Runs("editor") /\ Editor!Next
       /\ UNCHANGED <<component, vars, restoreVars, settingsVars, buildVars, outputVars, bootstrapVars>>
    \/ /\ Runs("restore") /\ Restore!Next
       /\ UNCHANGED <<component, vars, editorVars, settingsVars, buildVars, outputVars, bootstrapVars>>
    \/ /\ Runs("generic") /\ Generic!Next
       /\ UNCHANGED <<component, vars, editorVars, restoreVars, buildVars, outputVars, bootstrapVars>>
    \/ /\ Runs("cache") /\ Cache!Next
       /\ UNCHANGED <<component, vars, editorVars, restoreVars, settingsVars, outputVars, bootstrapVars>>
    \/ /\ Runs("output") /\ Output!Next
       /\ UNCHANGED <<component, vars, editorVars, restoreVars, settingsVars, buildVars, bootstrapVars>>
    \/ /\ Runs("bootstrap") /\ Setup!Next
       /\ UNCHANGED <<component, vars, editorVars, restoreVars, settingsVars, buildVars, outputVars>>

ToolsSpec == ToolsInit /\ [][ToolsNext]_<<component, vars, editorVars, restoreVars, settingsVars,
                                            buildVars, outputVars, bootstrapVars>>

-----------------------------------------------------------------------------
(* The properties of each component, in the behaviours where it runs. *)
ToolsTypeOK ==
    /\ Runs("editor") => Editor!TypeOK
    /\ Runs("save") => TypeOK
    /\ Runs("restore") => Restore!TypeOK
    /\ Runs("generic") => Generic!TypeOK
    /\ Runs("cache") => Cache!TypeOK
    /\ Runs("output") => Output!TypeOK
    /\ Runs("bootstrap") => Setup!TypeOK

ItemsStay == Editor!ItemsStay
History == Editor!History
RestoreIsFaithful == Runs("restore") => Restore!RestoreIsFaithful
SettingsAreExact == Runs("generic") => Generic!SettingsAreExact
CacheIsComplete == Runs("cache") => Cache!CacheIsComplete
FallbackIsSound == Runs("output") => Output!FallbackIsSound
BootstrapIsSound == Runs("bootstrap") => Setup!BootstrapIsSound
=============================================================================
