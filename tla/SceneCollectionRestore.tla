----------------------- MODULE SceneCollectionRestore -----------------------
(***************************************************************************)
(* restore (libobs-simple/src/scene_collection.rs): a document is turned   *)
(* into sources, filters and scenes, one native call after the other, on a *)
(* machine that may lack plugins and files; what was redacted when the     *)
(* document was exported is lacking on every machine.  A document has one  *)
(* scene; a node of it is a source's item or a group of items, and an      *)
(* item's state is its order position.                                     *)
(***************************************************************************)
EXTENDS Integers, FiniteSets, SequencesExt

CONSTANTS
    Documents,      \* [sources : Seq([id, plugin, file, redacted, filters]), nodes : Seq(Node)]
                    \* a filter is [id, plugin, file, redacted]
    Plugins         \* the types of sources and filters a document may name

VARIABLES
    document, strict, available, gone,      \* gone: files that this machine lacks
    pc,
    k,              \* the source or node restored next
    j,              \* its filter or item
    sources,        \* the ids of the sources restored
    filters,        \* the ids of those applied to each
    scene,          \* the native scene, or NoScene
    failure,        \* "missing": what strict refuses; "other": a native call, a value
    diagnostics     \* pairs of a kind and of the object's id

vars == <<document, strict, available, gone, pc, k, j, sources, filters, scene, failure, diagnostics>>
given == <<document, strict, available, gone>>

SavedSources == Range(document.sources)
SourceIds == {s.id : s \in SavedSources}
Files == {o.file : o \in SavedSources \cup UNION {Range(s.filters) : s \in SavedSources}} \ {"none"}
NoScene == <<[id |-> 0, items |-> <<>>]>>
Kinds == {"source plugin", "filter plugin", "file", "redacted", "item"}

TypeOK ==
    /\ document \in Documents /\ strict \in BOOLEAN
    /\ available \subseteq Plugins
    /\ gone \subseteq Files
    /\ pc \in {"source", "filter", "scene", "node", "child", "restored", "failed"}
    /\ k \in 1..(1 + Len(document.sources) + Len(document.nodes)) /\ j \in Nat
    /\ sources \subseteq SourceIds
    /\ DOMAIN filters = SourceIds
    /\ failure \in {"none", "missing", "other"}
    /\ \A d \in diagnostics : d[1] \in Kinds
    /\ scene \in Seq([id : Nat, items : Seq([id : Nat])])

-----------------------------------------------------------------------------
(* The native scene: what is added comes last; set_order_position takes an *)
(* item out and puts it behind as many others as there are.                *)
PlaceLast(list, position) ==
    LET others == Front(list)
        at == IF position < Len(others) THEN position ELSE Len(others)
    IN  InsertAt(others, at + 1, Last(list))

Fail(why) ==
    /\ pc' = "failed" /\ failure' = why
    /\ UNCHANGED <<given, k, j, sources, filters, scene, diagnostics>>

(* A native call fails, or a value is none that libobs has. *)
NativeFails ==
    /\ pc \in {"source", "filter", "scene", "node", "child"}
    /\ Fail("other")

Report(found) == diagnostics' = diagnostics \cup found

-----------------------------------------------------------------------------
Current == document.sources[k]
HasSource == pc = "source" /\ k <= Len(document.sources)

SkipSource ==
    /\ HasSource /\ Current.plugin \notin available
    /\ IF strict
       THEN Fail("missing")
       ELSE /\ Report({<<"source plugin", Current.id>>})
            /\ k' = k + 1
            /\ UNCHANGED <<given, pc, j, sources, filters, scene, failure>>

(* inspect_missing_files, which ends a strict restoration, and then        *)
(* inspect_redacted_fields, which never does, come before the source or    *)
(* the filter is made.                                                     *)
Missing(o) == IF o.file \in gone THEN {<<"file", o.id>>} ELSE {}
Redacted(o) == IF o.redacted THEN {<<"redacted", o.id>>} ELSE {}
Inspect(o) == Report(Missing(o) \cup Redacted(o))

CreateSource ==
    /\ HasSource /\ Current.plugin \in available
    /\ IF strict /\ Current.file \in gone
       THEN Fail("missing")
       ELSE /\ Inspect(Current)
            /\ pc' = "filter" /\ j' = 1
            /\ UNCHANGED <<given, k, sources, filters, scene, failure>>

HasFilter == pc = "filter" /\ j <= Len(Current.filters)
Filter == Current.filters[j]

SkipFilter ==
    /\ HasFilter /\ Filter.plugin \notin available
    /\ IF strict
       THEN Fail("missing")
       ELSE /\ Report({<<"filter plugin", Filter.id>>})
            /\ j' = j + 1
            /\ UNCHANGED <<given, pc, k, sources, filters, scene, failure>>

ApplyFilter ==
    /\ HasFilter /\ Filter.plugin \in available
    /\ IF strict /\ Filter.file \in gone
       THEN Fail("missing")
       ELSE /\ Inspect(Filter)
            /\ filters' = [filters EXCEPT ![Current.id] = Append(@, Filter.id)]
            /\ j' = j + 1
            /\ UNCHANGED <<given, pc, k, sources, scene, failure>>

SourceDone ==
    /\ pc = "filter" /\ j > Len(Current.filters)
    /\ sources' = sources \cup {Current.id}
    /\ pc' = "source" /\ k' = k + 1
    /\ UNCHANGED <<given, j, filters, scene, failure, diagnostics>>

-----------------------------------------------------------------------------
CreateScene ==
    /\ pc = "source" /\ k > Len(document.sources)
    /\ scene' = <<>>
    /\ pc' = "node" /\ k' = 1
    /\ UNCHANGED <<given, j, sources, filters, failure, diagnostics>>

Node == document.nodes[k]
HasNode == pc = "node" /\ k <= Len(document.nodes)
IsGroup(node) == node.source = "group"

(* skip_missing_item. *)
SkipItem ==
    /\ HasNode /\ ~IsGroup(Node) /\ Node.source \notin sources
    /\ IF strict
       THEN Fail("missing")
       ELSE /\ Report({<<"item", Node.id>>})
            /\ k' = k + 1
            /\ UNCHANGED <<given, pc, j, sources, filters, scene, failure>>

AddItem ==
    /\ HasNode /\ ~IsGroup(Node) /\ Node.source \in sources
    /\ scene' = PlaceLast(Append(scene, [id |-> Node.id, items |-> <<>>]), Node.order)
    /\ k' = k + 1
    /\ UNCHANGED <<given, pc, j, sources, filters, failure, diagnostics>>

CreateGroup ==
    /\ HasNode /\ IsGroup(Node)
    /\ scene' = Append(scene, [id |-> Node.id, items |-> <<>>])
    /\ pc' = "child" /\ j' = 1
    /\ UNCHANGED <<given, k, sources, filters, failure, diagnostics>>

HasChild == pc = "child" /\ j <= Len(Node.items)

(* Mutant: the rest of the group is skipped with the item. *)
SkipRestOfGroup ==
    /\ HasChild /\ Node.items[j].source \notin sources
    /\ ~strict
    /\ Report({<<"item", Node.items[i].id>> : i \in j..Len(Node.items)})
    /\ j' = Len(Node.items) + 1
    /\ UNCHANGED <<given, pc, k, sources, filters, scene, failure>>

SkipChild ==
    /\ HasChild /\ Node.items[j].source \notin sources
    /\ IF strict
       THEN Fail("missing")
       ELSE /\ Report({<<"item", Node.items[j].id>>})
            /\ j' = j + 1
            /\ UNCHANGED <<given, pc, k, sources, filters, scene, failure>>

(* The item is added to the scene, moved into the group and placed there. *)
AddChild ==
    LET child == Node.items[j]
        group == Len(scene)
    IN  /\ HasChild /\ child.source \in sources
        /\ scene' = [scene EXCEPT ![group].items =
                        PlaceLast(Append(@, [id |-> child.id]), child.order)]
        /\ j' = j + 1
        /\ UNCHANGED <<given, pc, k, sources, filters, failure, diagnostics>>

GroupDone ==
    /\ pc = "child" /\ j > Len(Node.items)
    /\ scene' = PlaceLast(scene, Node.order)
    /\ pc' = "node" /\ k' = k + 1
    /\ UNCHANGED <<given, j, sources, filters, failure, diagnostics>>

Finish ==
    /\ pc = "node" /\ k > Len(document.nodes)
    /\ pc' = "restored"
    /\ UNCHANGED <<given, k, j, sources, filters, scene, failure, diagnostics>>

-----------------------------------------------------------------------------
Init ==
    /\ document \in Documents /\ strict \in BOOLEAN
    /\ available \in SUBSET Plugins
    /\ gone \in SUBSET Files
    /\ pc = "source" /\ k = 1 /\ j = 1
    /\ sources = {} /\ filters = [id \in SourceIds |-> <<>>]
    /\ scene = NoScene /\ failure = "none" /\ diagnostics = {}

Next ==
    \/ NativeFails
    \/ SkipSource \/ CreateSource \/ SkipFilter \/ ApplyFilter \/ SourceDone
    \/ CreateScene \/ SkipItem \/ AddItem \/ CreateGroup \/ SkipChild \/ AddChild \/ GroupDone
    \/ Finish

Spec == Init /\ [][Next]_vars

-----------------------------------------------------------------------------
(* Properties *)

Working(list) == {i \in DOMAIN list : list[i].plugin \in available}
Usable == {document.sources[i] : i \in Working(document.sources)}
UsableFilters(s) == {s.filters[i] : i \in Working(s.filters)}
Restorable == Usable \cup UNION {UsableFilters(s) : s \in Usable}
UsableIds == {s.id : s \in Usable}
Kept(list) == {i \in DOMAIN list : list[i].source \in UsableIds \cup {"group"}}
ItemsWithout(list) == {list[i].id : i \in (DOMAIN list) \ Kept(list)}

(* The ids of the elements of a list at some places, in their order.       *)
Place(i, places) == Cardinality({n \in places : n <= i})
InOrder(ids, list, places) ==
    /\ Len(ids) = Cardinality(places)
    /\ \A i \in places : ids[Place(i, places)] = list[i].id
Ids(list) == [i \in DOMAIN list |-> list[i].id]

(* "Restore everything possible" (scene_collection.rs:92): the sources     *)
(* whose plugin is there come back with the filters whose plugin is, and   *)
(* the scene has their items in the order of the document, in their        *)
(* groups, although positions in the document count the missing ones.      *)
RestoredAsCaptured ==
    pc = "restored" =>
        LET nodes == document.nodes
            Native(i) == scene[Place(i, Kept(nodes))]
        IN  /\ sources = UsableIds
            /\ \A s \in Usable : InOrder(filters[s.id], s.filters, Working(s.filters))
            /\ InOrder(Ids(scene), nodes, Kept(nodes))
            /\ \A i \in Kept(nodes) :
                  InOrder(Ids(Native(i).items), nodes[i].items, Kept(nodes[i].items))

(* "and return diagnostics for skipped/degraded objects": what was left    *)
(* out, and nothing else, is in them.                                      *)
SkippedAreReported ==
    pc = "restored" =>
        diagnostics =
            {<<"source plugin", s.id>> : s \in SavedSources \ Usable}
            \cup {<<"filter plugin", f.id>> : f \in (UNION {Range(s.filters) : s \in Usable}) \ Restorable}
            \cup {<<"file", o.id>> : o \in {r \in Restorable : r.file \in gone}}
            \cup {<<"redacted", o.id>> : o \in {r \in Restorable : r.redacted}}
            \cup {<<"item", i>> : i \in ItemsWithout(document.nodes)
                                        \cup UNION {ItemsWithout(n.items) : n \in Range(document.nodes)}}

(* Strict: "Abort on missing source/filter plugins and on missing          *)
(* machine-local files" (scene_collection.rs:89): it restores all or no    *)
(* scene at all, unless a native call fails, which leaves the scenes made. *)
(* What it restores may only lack the settings that were redacted.         *)
StrictOrNothing ==
    strict => /\ pc = "restored" => \A d \in diagnostics : d[1] = "redacted"
              /\ failure = "missing" => scene = NoScene

(* What restore promises, in both modes. *)
RestoreIsFaithful == RestoredAsCaptured /\ SkippedAreReported /\ StrictOrNothing

=============================================================================
