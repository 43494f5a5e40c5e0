----------------------- MODULE SceneCollectionEditor -----------------------
(***************************************************************************)
(* The undo and redo editor of a scene collection                          *)
(* (libobs-simple/src/scene_collection.rs), for one scene.  A document is  *)
(* the scene's list of nodes, each a source item or a group of items.  The *)
(* state of a node is its order position, the one part the edits rewrite.  *)
(***************************************************************************)
EXTENDS Integers, FiniteSets, SequencesExt

CONSTANTS
    Items,       \* persistent identities of source items
    Groups,      \* persistent identities of groups, none of them an item's
    Sources,     \* the sources the document has
    Unknown,     \* a source it does not have
    States,      \* order positions a caller may set
    MaxHistory,  \* bound: entries of the undo history
    Rejections   \* whether edits that must be refused are tried

VARIABLES
    document,
    undo,      \* entries [before, after]; the newest is last
    redo

vars == <<document, undo, redo>>

SourceItem == [id : Items, source : Sources \cup {Unknown}, state : Int]
Group == [id : Items \cup Groups, items : Seq(SourceItem), state : Int]
Document == Seq(SourceItem \cup Group)
Entry == [before : Document, after : Document]

TypeOK ==
    /\ document \in Document
    /\ undo \in Seq(Entry)
    /\ redo \in Seq(Entry)

-----------------------------------------------------------------------------
IsGroup(node) == "items" \in DOMAIN node

(* Places of nodes are <<i, 0>> and of a group's items <<i, k>>. *)
Places(doc) ==
    {<<i, 0>> : i \in DOMAIN doc} \cup
    UNION {{<<i, k>> : k \in DOMAIN doc[i].items} : i \in {j \in DOMAIN doc : IsGroup(doc[j])}}

At(doc, p) == IF p[2] = 0 THEN doc[p[1]] ELSE doc[p[1]].items[p[2]]

ItemPlaces(doc) == {p \in Places(doc) : ~IsGroup(At(doc, p))}

ItemIds(doc) == {At(doc, p).id : p \in ItemPlaces(doc)}

(* validate_references *)
Valid(doc) ==
    /\ \A p, q \in Places(doc) : At(doc, p).id = At(doc, q).id => p = q
    /\ \A p \in ItemPlaces(doc) : At(doc, p).source \in Sources

IndexOf(doc, id) == SelectInSeq(doc, LAMBDA node : node.id = id)

(* The nodes at these places, in the order of the document. *)
NodesAt(doc, places) ==
    [k \in 1..Cardinality(places) |->
        doc[CHOOSE i \in places : Cardinality({j \in places : j <= i}) = k]]

Renumber(doc) == [i \in DOMAIN doc |-> [doc[i] EXCEPT !.state = i - 1]]

(* Mutant: an edit keeps what could be redone. *)
TransactKeepsRedo(doc, ok) ==
    LET accepted == ok /\ Valid(doc)
    IN  /\ accepted \/ Rejections
        /\ Len(undo) < MaxHistory
        /\ document' = doc
        /\ undo' = IF accepted THEN Append(undo, [before |-> document, after |-> doc]) ELSE undo
        /\ UNCHANGED redo

(* An edit has made doc of the document and succeeded or not; then the     *)
(* references are checked.                                                 *)
Transact(doc, ok) ==
    LET accepted == ok /\ Valid(doc)
    IN  /\ accepted \/ Rejections
        /\ Len(undo) < MaxHistory
        /\ document' = doc
        /\ undo' = IF accepted THEN Append(undo, [before |-> document, after |-> doc]) ELSE undo
        /\ redo' = IF accepted THEN <<>> ELSE redo

-----------------------------------------------------------------------------
(* The first item with the identity is changed, in a group or not. *)
SetItemState(id, state) ==
    LET found == {p \in ItemPlaces(document) : At(document, p).id = id}
        first == CHOOSE p \in found : \A q \in found : p[1] < q[1] \/ (p[1] = q[1] /\ p[2] <= q[2])
    IN  IF found = {}
        THEN Transact(document, FALSE)
        ELSE Transact(IF first[2] = 0
                      THEN [document EXCEPT ![first[1]].state = state]
                      ELSE [document EXCEPT ![first[1]].items[first[2]].state = state], TRUE)

(* An index past the end and an unknown node are refused. *)
MoveTopLevelItem(id, new) ==
    LET old == IndexOf(document, id)
    IN  IF new > Len(document) \/ old = 0
        THEN Transact(document, FALSE)
        ELSE Transact(Renumber(InsertAt(RemoveAt(document, old), new, document[old])), TRUE)

(* Mutant: the group is inserted without its children. *)
GroupLosesChildren(selected, group) ==
    LET kept == NodesAt(document, {i \in DOMAIN document : document[i].id \notin selected})
    IN  Transact(Renumber(Append(kept, [group EXCEPT !.items = <<>>])), TRUE)

(* The nodes are taken out of the scene before they are looked at. *)
ReplaceItemsWithGroup(selected, group) ==
    LET chosen == {i \in DOMAIN document : document[i].id \in selected}
        kept == NodesAt(document, DOMAIN document \ chosen)
        place == SelectInSeq(document, LAMBDA node : node.id \in selected)
    IN  IF \/ selected = {}
           \/ selected # {group.items[k].id : k \in DOMAIN group.items}
           \/ IndexOf(document, group.id) # 0
        THEN Transact(document, FALSE)
        ELSE IF \/ \E i \in chosen : IsGroup(document[i])
                \/ {document[i].id : i \in chosen} # selected
        THEN Transact(<<>>, FALSE)
        ELSE LET index == IF place <= Len(kept) THEN place ELSE Len(kept) + 1
             IN  Transact(Renumber(InsertAt(kept, index, group)), TRUE)

UngroupWithReplacements(id, replacements) ==
    LET index == IndexOf(document, id)
        Pairs(items) == {<<items[k].id, items[k].source>> : k \in DOMAIN items}
    IN  IF index = 0 \/ ~IsGroup(document[index])
        THEN Transact(document, FALSE)
        ELSE IF Pairs(document[index].items) # Pairs(replacements)
        THEN Transact(document, FALSE)
        ELSE Transact(Renumber(SubSeq(document, 1, index - 1) \o replacements
                               \o SubSeq(document, index + 1, Len(document))), TRUE)

UndoEdit ==
    /\ undo # <<>>
    /\ document' = Last(undo).before
    /\ redo' = Append(redo, Last(undo))
    /\ undo' = Front(undo)

RedoEdit ==
    /\ redo # <<>>
    /\ document' = Last(redo).after
    /\ undo' = Append(undo, Last(redo))
    /\ redo' = Front(redo)

-----------------------------------------------------------------------------
(* Lists of items a caller may pass. *)
Lists == SeqOf([id : Items, source : Sources \cup {Unknown}, state : {0}], Cardinality(Items))

(* Every item once, at the position of its place. *)
Starts ==
    LET n == Cardinality(Items)
        Placed == [id : Items, source : Sources, state : 0..(n - 1)]
    IN  {d \in [1..n -> Placed] : Valid(d) /\ \A i \in 1..n : d[i].state = i - 1}

Init ==
    /\ document \in Starts
    /\ undo = <<>>
    /\ redo = <<>>

Next ==
    \/ \E id \in Items, state \in States : SetItemState(id, state)
    \/ \E id \in Items \cup Groups, new \in 1..Cardinality(Items) : MoveTopLevelItem(id, new)
    \/ \E selected \in SUBSET Items, id \in Items \cup Groups, items \in Lists :
         ReplaceItemsWithGroup(selected, [id |-> id, items |-> items, state |-> 0])
    \/ \E id \in Items \cup Groups, items \in Lists : UngroupWithReplacements(id, items)
    \/ UndoEdit
    \/ RedoEdit

Spec == Init /\ [][Next]_vars

-----------------------------------------------------------------------------
(* Properties *)

(* Undo and redo walk along one line of valid documents, and an edit       *)
(* replaces what lies ahead (undo, redo, transact).                        *)
Line == INSTANCE EditHistory WITH
    Document <- {d \in Document : Valid(d)},
    past <- [i \in DOMAIN undo |-> undo[i].before],
    present <- document,
    future <- [i \in DOMAIN redo |-> redo[i].after]

History == Line!Spec

(* "Item/source/group IDs therefore remain stable across undo/redo"        *)
(* (scene_collection.rs:349): no edit, undo or redo loses an item of the   *)
(* scene, for each edit puts back every item it takes.                     *)
ItemsStay == ItemIds(document) = Items
=============================================================================
