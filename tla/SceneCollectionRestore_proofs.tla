-------------------- MODULE SceneCollectionRestore_proofs --------------------
(***************************************************************************)
(* Proofs about the restoration of scene collections                       *)
(* (SceneCollectionRestore), as the instance of Tools: for every document, *)
(* machine and step at which a native call fails.                          *)
(***************************************************************************)
EXTENDS Tools, FiniteSetTheorems, SequenceTheorems, TLAPS

(* What can be restored of document d where the plugins of av are: the     *)
(* sources or filters of a list, the ids of sources, and the nodes of a    *)
(* list whose source is one of ids.                                        *)
Able(objects, av) == {i \in DOMAIN objects : objects[i].plugin \in av}
AbleIds(d, av, bound) == {d.sources[n].id : n \in {m \in Able(d.sources, av) : m < bound}}
AllAble(d, av) == {d.sources[n].id : n \in Able(d.sources, av)}
Held(nodes, ids) == {i \in DOMAIN nodes : nodes[i].source \in ids \cup {"group"}}

(* What has to be in the diagnostics when sources and nodes up to sb and   *)
(* nb are restored, and of those at sb and nb the filters up to fb and the *)
(* items up to ib; sources up to mb are made.                              *)
Within(outer, lists, ob, ib) ==
    {x \in UNION {Elements(lists[n]) : n \in outer} :
        \E n \in outer : \E i \in DOMAIN lists[n] :
            (n < ob \/ (n = ob /\ i < ib)) /\ x = lists[n][i]}
FiltersOf(d) == [n \in DOMAIN d.sources |-> d.sources[n].filters]
ItemsOf(d) == [n \in DOMAIN d.nodes |-> d.nodes[n].items]
Findings(o, go) ==
    (IF o.file \in go THEN {<<"file", o.id>>} ELSE {}) \cup Restore!Redacted(o)
SourcesSkipped(d, av, sb) ==
    {<<"source plugin", d.sources[n].id>> :
        n \in {m \in DOMAIN d.sources : m < sb /\ d.sources[m].plugin \notin av}}
SourcesLacking(d, av, go, mb) ==
    UNION {Findings(d.sources[n], go) : n \in {m \in Able(d.sources, av) : m < mb}}
FiltersSkipped(passed, av) ==
    {<<"filter plugin", f.id>> : f \in {x \in passed : x.plugin \notin av}}
FiltersLacking(passed, av, go) == UNION {Findings(f, go) : f \in {x \in passed : x.plugin \in av}}
ItemsSkipped(passed, ids) ==
    {<<"item", x.id>> : x \in {y \in passed : y.source \notin ids \cup {"group"}}}
NodesPassed(d, nb) == {d.nodes[n] : n \in {m \in DOMAIN d.nodes : m < nb}}
Reported(d, av, go, sb, mb, fb, nb, ib) ==
    LET applied == Within(Able(d.sources, av), FiltersOf(d), sb, fb)
        added == NodesPassed(d, nb) \cup Within(DOMAIN d.nodes, ItemsOf(d), nb, ib)
    IN  SourcesSkipped(d, av, sb) \cup SourcesLacking(d, av, go, mb)
        \cup FiltersSkipped(applied, av) \cup FiltersLacking(applied, av, go)
        \cup ItemsSkipped(added, AllAble(d, av))

(* ids are those of the elements of a list at the places up to a bound.    *)
Gathered(ids, nodes, places, bound) ==
    /\ ids \in Seq({nodes[i].id : i \in DOMAIN nodes})
    /\ Len(ids) = Cardinality({i \in places : i < bound})
    /\ \A i \in places : i < bound => ids[Restore!Place(i, places)] = nodes[i].id

(* The sources before sb are back with all their filters, and the source   *)
(* at sb has those before fb.                                              *)
Back(d, av, ids, applied, sb, fb) ==
    /\ ids = AbleIds(d, av, sb)
    /\ \A n \in Able(d.sources, av) :
          LET s == d.sources[n]
          IN  Gathered(applied[s.id], s.filters, Able(s.filters, av),
                       IF n < sb THEN Len(s.filters) + 1 ELSE IF n = sb THEN fb ELSE 1)

(* The nodes before gb are in the scene, those before nb with all their    *)
(* items and the one at nb with those before ib.                           *)
Placed(d, av, items, nb, ib, gb) ==
    LET held == Held(d.nodes, AllAble(d, av))
    IN  /\ Gathered(Restore!Ids(items), d.nodes, held, gb)
        /\ \A n \in held : n < gb =>
              LET node == d.nodes[n]
              IN  Gathered(Restore!Ids(items[Restore!Place(n, held)].items), node.items,
                           Held(node.items, AllAble(d, av)),
                           IF n < nb THEN Len(node.items) + 1 ELSE ib)

(* The types. *)
NativeItems == Seq([id : Nat])
NativeScenes == Seq([id : Nat, items : NativeItems])
Places(d) == 1..(1 + Len(d.sources) + Len(d.nodes))
HaveKinds(reports) == \A d \in reports : d[1] \in Restore!Kinds
RestoreTypes ==
    /\ saved \in Documents /\ strictly \in BOOLEAN
    /\ available \subseteq Plugins /\ gone \subseteq Restore!Files
    /\ restorePc \in {"source", "filter", "node", "child", "restored", "failed"}
    /\ place \in Places(saved) /\ child \in Nat \ {0}
    /\ sources \subseteq Restore!SourceIds
    /\ DOMAIN filters = Restore!SourceIds
    /\ failure \in {"none", "missing", "other"}
    /\ scene \in NativeScenes
    /\ HaveKinds(diagnostics)

(* How far a restoration has come that did not fail: where it is, which of *)
(* the sources and of their filters are back, what is in the scene, and    *)
(* what was left out is in the diagnostics.  A strict one has found the    *)
(* plugin of every source that it passed.                                  *)
Plugged(bound) ==
    strictly => \A n \in DOMAIN saved.sources : n < bound => saved.sources[n].plugin \in available
End == Len(saved.sources) + 1
AllBack == Plugged(End) /\ Back(saved, available, sources, filters, End, 1)
Told1(nb, ib) == diagnostics = Reported(saved, available, gone, End, End, 1, nb, ib)

AtSource ==
    /\ place <= Len(saved.sources) + 1
    /\ scene = Restore!NoScene /\ Plugged(place)
    /\ Back(saved, available, sources, filters, place, 1)
    /\ diagnostics = Reported(saved, available, gone, place, place, 1, 1, 1)
AtFilter ==
    /\ place \in Able(saved.sources, available)
    /\ child <= Len(saved.sources[place].filters) + 1
    /\ scene = Restore!NoScene /\ Plugged(place)
    /\ Back(saved, available, sources, filters, place, child)
    /\ diagnostics = Reported(saved, available, gone, place, place + 1, child, 1, 1)
AtNode ==
    /\ place <= Len(saved.nodes) + 1
    /\ AllBack /\ Told1(place, 1)
    /\ Placed(saved, available, scene, place, 1, place)
AtChild ==
    /\ place <= Len(saved.nodes) /\ saved.nodes[place].source = "group"
    /\ child <= Len(saved.nodes[place].items) + 1
    /\ AllBack /\ Told1(place, child)
    /\ place \in Held(saved.nodes, AllAble(saved, available))
    /\ Placed(saved, available, scene, place, child, place + 1)
AtEnd ==
    /\ AllBack /\ Told1(Len(saved.nodes) + 1, 1)
    /\ Placed(saved, available, scene, Len(saved.nodes) + 1, 1, Len(saved.nodes) + 1)

(* What is missing ends a strict restoration before the scene, and what    *)
(* was redacted does not.                                                  *)
OnlyRedacted(reports) == \A d \in reports : d[1] = "redacted"
StrictSoFar ==
    strictly => OnlyRedacted(diagnostics) /\ (failure = "missing" => scene = Restore!NoScene)

RestoreInv ==
    /\ RestoreTypes /\ StrictSoFar
    /\ restorePc # "failed" => failure = "none"
    /\ restorePc = "source" => AtSource
    /\ restorePc = "filter" => AtFilter
    /\ restorePc = "node" => AtNode
    /\ restorePc = "child" => AtChild
    /\ restorePc = "restored" => AtEnd

-----------------------------------------------------------------------------
(* Documents *)

(* A list has the indices up to its length. *)
LEMMA ListIs ==
    ASSUME NEW s, s \in Seq(Elements(s))
    PROVE  Len(s) \in Nat /\ DOMAIN s = 1..Len(s)
<1> DEFINE S == Elements(s)
<1>1. s \in Seq(S)
  OBVIOUS
<1> HIDE DEF S
<1> QED
  BY <1>1

(* What a document has. *)
LEMMA DocumentIs ==
    ASSUME NEW d \in Documents
    PROVE  /\ Len(d.sources) \in Nat /\ DOMAIN d.sources = 1..Len(d.sources)
           /\ \A i, n \in DOMAIN d.sources : d.sources[i].id = d.sources[n].id => i = n
           /\ \A n \in DOMAIN d.sources :
                 /\ Len(d.sources[n].filters) \in Nat
                 /\ DOMAIN d.sources[n].filters = 1..Len(d.sources[n].filters)
           /\ Len(d.nodes) \in Nat /\ DOMAIN d.nodes = 1..Len(d.nodes)
           /\ \A n \in DOMAIN d.nodes :
                 /\ d.nodes[n].id \in Nat /\ d.nodes[n].order \in Nat /\ d.nodes[n].order >= n - 1
                 /\ \/ d.nodes[n].source = "group"
                    \/ d.nodes[n].source \in {d.sources[i].id : i \in DOMAIN d.sources}
                       /\ d.nodes[n].items = <<>>
                 /\ Len(d.nodes[n].items) \in Nat
                 /\ DOMAIN d.nodes[n].items = 1..Len(d.nodes[n].items)
                 /\ \A i \in DOMAIN d.nodes[n].items :
                       LET item == d.nodes[n].items[i]
                       IN  /\ item.id \in Nat /\ item.order \in Nat /\ item.order >= i - 1
                           /\ item.source \in {d.sources[m].id : m \in DOMAIN d.sources}
           /\ "group" \notin {d.sources[i].id : i \in DOMAIN d.sources}
<1> DEFINE ids == {d.sources[i].id : i \in DOMAIN d.sources}
<1>1. /\ d.sources \in Seq(Elements(d.sources))
      /\ \A i, n \in DOMAIN d.sources : d.sources[i].id = d.sources[n].id => i = n
      /\ \A i \in DOMAIN d.sources : d.sources[i].filters \in Seq(Elements(d.sources[i].filters))
      /\ "group" \notin ids
      /\ Listed(d.nodes, ids \cup {"group"})
      /\ \A i \in DOMAIN d.nodes :
            /\ Listed(d.nodes[i].items, ids)
            /\ d.nodes[i].source # "group" => d.nodes[i].items = <<>>
  BY RestoreAssumption, Zenon
<1>2. Len(d.sources) \in Nat /\ DOMAIN d.sources = 1..Len(d.sources)
  BY <1>1, ListIs, Zenon
<1>3. \A n \in DOMAIN d.sources : /\ Len(d.sources[n].filters) \in Nat
                                  /\ DOMAIN d.sources[n].filters = 1..Len(d.sources[n].filters)
  BY <1>1, ListIs, Zenon
<1> HIDE DEF ids
<1>4. \A nodes, all : Listed(nodes, all) =>
         /\ Len(nodes) \in Nat /\ DOMAIN nodes = 1..Len(nodes)
         /\ \A i \in DOMAIN nodes : /\ nodes[i].id \in Nat /\ nodes[i].source \in all
                                    /\ nodes[i].order \in Nat /\ nodes[i].order >= i - 1
  BY ListIs, Zenon DEF Listed
<1>5. /\ Len(d.nodes) \in Nat /\ DOMAIN d.nodes = 1..Len(d.nodes)
      /\ \A i \in DOMAIN d.nodes : /\ d.nodes[i].id \in Nat /\ d.nodes[i].source \in ids \cup {"group"}
                                   /\ d.nodes[i].order \in Nat /\ d.nodes[i].order >= i - 1
  BY <1>1, <1>4, Zenon
<1>6. ASSUME NEW n \in DOMAIN d.nodes
      PROVE  LET items == d.nodes[n].items
             IN  /\ Len(items) \in Nat /\ DOMAIN items = 1..Len(items)
                 /\ \A i \in DOMAIN items : /\ items[i].id \in Nat /\ items[i].source \in ids
                                            /\ items[i].order \in Nat /\ items[i].order >= i - 1
  BY <1>1, <1>4, Zenon
<1>7. \A n \in DOMAIN d.nodes : \/ d.nodes[n].source = "group"
                                \/ d.nodes[n].source \in ids /\ d.nodes[n].items = <<>>
  BY <1>1, <1>5, Zenon
<1> QED
  BY <1>1, <1>2, <1>3, <1>5, <1>6, <1>7, Zenon DEF ids

-----------------------------------------------------------------------------
(* Places *)

(* What the standard operator is inside the instance. *)
LEMMA RestoreCardinality == ASSUME NEW S PROVE Restore!Cardinality(S) = Cardinality(S)
BY DEF Restore!Cardinality, Cardinality

(* The places of a list up to a bound are counted. *)
LEMMA PlacesCounted ==
    ASSUME NEW len \in Nat, NEW places \in SUBSET (1..len), NEW bound \in Nat, bound > 0
    PROVE  LET below == {i \in places : i < bound}
           IN  /\ IsFiniteSet(below) /\ Cardinality(below) \in 0..(bound - 1)
               /\ bound \in places =>
                      Cardinality({i \in places : i < bound + 1}) = Cardinality(below) + 1
               /\ bound \notin places => {i \in places : i < bound + 1} = below
               /\ \A i \in below : Restore!Place(i, places) \in 1..Cardinality(below)
               /\ bound \in places => Restore!Place(bound, places) = Cardinality(below) + 1
<1> DEFINE below(b) == {i \in places : i < b}
<1>0. \A i \in places : i \in Nat /\ i > 0 /\ i \in 1..len
  OBVIOUS
<1>a. \A b, i : i \in below(b) <=> i \in places /\ i < b
  OBVIOUS
<1>b. \A i : Restore!Place(i, places) = Cardinality({n \in places : n <= i})
  BY RestoreCardinality DEF Restore!Place
<1>c. \A i : {n \in places : n <= i} \in SUBSET places /\ \A n : n \in {m \in places : m <= i} <=> n \in places /\ n <= i
  OBVIOUS
<1>d. \A x \in places : x < bound + 1 <=> x < bound \/ x = bound
  BY <1>0
<1> DEFINE upTo(i) == {n \in places : n <= i}
<1>e. /\ \A i : Restore!Place(i, places) = Cardinality(upTo(i))
      /\ \A i, n : n \in upTo(i) <=> n \in places /\ n <= i
      /\ {i \in places : i < bound} = below(bound)
      /\ {i \in places : i < bound + 1} = below(bound + 1)
  BY <1>b, <1>c
<1> SUFFICES /\ IsFiniteSet(below(bound)) /\ Cardinality(below(bound)) \in 0..(bound - 1)
             /\ bound \in places => Cardinality(below(bound + 1)) = Cardinality(below(bound)) + 1
             /\ bound \notin places => below(bound + 1) = below(bound)
             /\ \A i \in below(bound) : Restore!Place(i, places) \in 1..Cardinality(below(bound))
             /\ bound \in places => Restore!Place(bound, places) = Cardinality(below(bound)) + 1
  BY <1>e
<1> HIDE DEF below, upTo
<1>1. ASSUME NEW b \in Nat PROVE IsFiniteSet(below(b)) /\ Cardinality(below(b)) \in Nat
  <2>1. IsFiniteSet(1..len)
    BY FS_Interval
  <2>2. below(b) \in SUBSET (1..len)
    BY <1>a, <1>0
  <2> QED
    BY <2>1, <2>2, FS_Subset, FS_CardinalityType
<1>2. Cardinality(below(bound)) <= bound - 1
  <2>1. IsFiniteSet(1..(bound - 1)) /\ Cardinality(1..(bound - 1)) = bound - 1
    <3>1. bound - 1 \in Nat
      OBVIOUS
    <3>2. Cardinality(1..(bound - 1)) = IF 1 > bound - 1 THEN 0 ELSE (bound - 1) - 1 + 1
      BY <3>1, FS_Interval
    <3>3. IsFiniteSet(1..(bound - 1))
      BY <3>1, FS_Interval
    <3> QED
      BY <3>1, <3>2, <3>3
  <2>2. ASSUME NEW i \in below(bound) PROVE i \in 1..(bound - 1)
    <3>1. i \in places /\ i < bound
      BY <1>a
    <3>2. i \in Nat /\ i > 0
      BY <3>1, <1>0
    <3> QED
      BY <3>1, <3>2
  <2>3. below(bound) \in SUBSET (1..(bound - 1))
    BY <2>2
  <2> QED
    BY <2>1, <2>3, FS_Subset
<1>3. ASSUME bound \in places
      PROVE  Cardinality(below(bound + 1)) = Cardinality(below(bound)) + 1
  <2>1. \A x : x \in below(bound + 1) <=> x \in below(bound) \cup {bound}
    BY <1>a, <1>d, <1>3
  <2>2. below(bound + 1) = below(bound) \cup {bound}
    BY <2>1
  <2>3. bound \notin below(bound)
    BY <1>a
  <2> QED
    BY <1>1, <2>2, <2>3, FS_AddElement
<1>4. ASSUME bound \notin places PROVE below(bound + 1) = below(bound)
  <2>1. \A x : x \in below(bound + 1) <=> x \in below(bound)
    BY <1>a, <1>d, <1>4
  <2> QED
    BY <2>1
<1>6. ASSUME NEW i \in below(bound)
      PROVE  Restore!Place(i, places) \in 1..Cardinality(below(bound))
  <2>0. i \in places /\ i \in Nat /\ i < bound
    BY <1>0, <1>a
  <2>1. ASSUME NEW x \in upTo(i) PROVE x \in below(bound)
    <3>1. x \in places /\ x <= i
      BY <1>e
    <3>2. x \in Nat
      BY <3>1, <1>0
    <3>3. x < bound
      BY <3>1, <3>2, <2>0
    <3> QED
      BY <3>1, <3>3, <1>a
  <2>2. upTo(i) \in SUBSET below(bound) /\ i \in upTo(i)
    BY <2>0, <2>1, <1>e
  <2>3. IsFiniteSet(upTo(i)) /\ Cardinality(upTo(i)) <= Cardinality(below(bound))
    BY <1>1, <2>2, FS_Subset
  <2>4. Cardinality(upTo(i)) \in Nat /\ Cardinality(upTo(i)) # 0
    BY <2>2, <2>3, FS_CardinalityType, FS_EmptySet
  <2>5. Restore!Place(i, places) = Cardinality(upTo(i))
    BY <1>e
  <2> QED
    BY <1>1, <2>3, <2>4, <2>5
<1>7. Restore!Place(bound, places) = Cardinality(below(bound + 1))
  <2>0. \A x \in places : x <= bound <=> x < bound + 1
    BY <1>0
  <2>1. \A x : x \in upTo(bound) <=> x \in below(bound + 1)
    BY <1>a, <1>e, <2>0
  <2>2. upTo(bound) = below(bound + 1)
    BY <2>1
  <2> QED
    BY <2>2, <1>e
<1>8. Cardinality(below(bound)) \in 0..(bound - 1)
  BY <1>1, <1>2
<1>9. IsFiniteSet(below(bound))
  BY <1>1
<1> QED
  BY <1>3, <1>4, <1>6, <1>7, <1>8, <1>9

LEMMA PlaceCounted ==
    ASSUME NEW len \in Nat, NEW places \in SUBSET (1..len), NEW bound \in places
    PROVE  /\ Cardinality({i \in places : i < bound}) \in 0..(bound - 1)
           /\ Cardinality({i \in places : i < bound + 1}) = Cardinality({i \in places : i < bound}) + 1
           /\ \A i \in {i \in places : i < bound} :
                 Restore!Place(i, places) \in 1..Cardinality({n \in places : n < bound})
           /\ Restore!Place(bound, places) = Cardinality({i \in places : i < bound}) + 1
<1>1. bound \in Nat /\ bound > 0
  OBVIOUS
<1> QED
  BY <1>1, PlacesCounted, Zenon

(* The ids of no element are none; those up to a bound stay what they are  *)
(* up to the next one, and one comes last when the bound is a place; up to *)
(* the end they are the ids in order.                                      *)
LEMMA GatheredNone ==
    ASSUME NEW nodes, NEW len \in Nat, NEW places \in SUBSET (1..len)
    PROVE  Gathered(<<>>, nodes, places, 1)
<1>1. \A i \in places : ~(i < 1)
  OBVIOUS
<1>2. Cardinality({i \in places : i < 1}) = 0
  <2>1. {i \in places : i < 1} = {}
    BY <1>1
  <2> QED
    BY <2>1, FS_EmptySet
<1>3. <<>> \in Seq({nodes[i].id : i \in DOMAIN nodes}) /\ Len(<<>>) = 0
  BY EmptySeq
<1> QED
  BY <1>1, <1>2, <1>3 DEF Gathered

LEMMA GatheredPast ==
    ASSUME NEW ids, NEW nodes, NEW len \in Nat, NEW places \in SUBSET (1..len),
           NEW bound \in Nat, bound > 0, bound \notin places, Gathered(ids, nodes, places, bound)
    PROVE  Gathered(ids, nodes, places, bound + 1)
<1>1. {i \in places : i < bound + 1} = {i \in places : i < bound}
  BY PlacesCounted
<1>2. \A i \in places : i < bound + 1 => i < bound
  BY <1>1
<1> QED
  BY <1>1, <1>2, Zenon DEF Gathered

LEMMA GatheredMore ==
    ASSUME NEW ids, NEW nodes, NEW places \in SUBSET (DOMAIN nodes),
           Len(nodes) \in Nat, DOMAIN nodes = 1..Len(nodes),
           NEW bound \in places, Gathered(ids, nodes, places, bound)
    PROVE  /\ Gathered(Append(ids, nodes[bound].id), nodes, places, bound + 1)
           /\ Len(ids) \in 0..(bound - 1)
           /\ Restore!Place(bound, places) = Len(ids) + 1
           /\ \A i \in places : i < bound => Restore!Place(i, places) \in 1..Len(ids)
<1> DEFINE S == {nodes[i].id : i \in DOMAIN nodes}
           more == Append(ids, nodes[bound].id)
<1>0. bound \in Nat /\ bound > 0 /\ bound \in DOMAIN nodes
  OBVIOUS
<1>1. /\ ids \in Seq(S)
      /\ Len(ids) = Cardinality({i \in places : i < bound})
      /\ \A i \in places : i < bound => ids[Restore!Place(i, places)] = nodes[i].id
  BY DEF Gathered
<1>2. /\ Cardinality({i \in places : i < bound}) \in 0..(bound - 1)
      /\ Cardinality({i \in places : i < bound + 1}) = Cardinality({i \in places : i < bound}) + 1
      /\ \A i \in {i \in places : i < bound} :
            Restore!Place(i, places) \in 1..Cardinality({n \in places : n < bound})
      /\ Restore!Place(bound, places) = Cardinality({i \in places : i < bound}) + 1
  <2>1. places \in SUBSET (1..Len(nodes)) /\ Len(nodes) \in Nat
    OBVIOUS
  <2> QED
    BY <2>1, PlaceCounted, Zenon
<1>3. nodes[bound].id \in S
  BY <1>0
<1>4. \A i \in places : i < bound => Restore!Place(i, places) \in 1..Len(ids)
  BY <1>1, <1>2
<1>5. /\ Restore!Place(bound, places) = Len(ids) + 1 /\ Len(ids) \in 0..(bound - 1)
      /\ Cardinality({i \in places : i < bound + 1}) = Len(ids) + 1
  BY <1>1, <1>2
<1> HIDE DEF S
<1>6. more \in Seq(S) /\ Len(more) = Len(ids) + 1 /\ more[Len(ids) + 1] = nodes[bound].id
  BY <1>1, <1>3
<1>7. \A i \in 1..Len(ids) : more[i] = ids[i]
  BY <1>1, <1>3
<1> HIDE DEF more
<1>8. ASSUME NEW i \in places, i < bound + 1
      PROVE  more[Restore!Place(i, places)] = nodes[i].id
  <2>1. CASE i = bound
    BY <2>1, <1>5, <1>6, Zenon
  <2>2. CASE i # bound
    <3>1. i \in Nat /\ bound \in Nat
      BY <1>0
    <3>2. i < bound
      BY <3>1, <1>8, <2>2
    <3> QED
      BY <3>2, <1>1, <1>4, <1>7, Zenon
  <2> QED
    BY <2>1, <2>2
<1>9. Gathered(more, nodes, places, bound + 1)
  BY <1>5, <1>6, <1>8, Zenon DEF Gathered, S
<1> QED
  BY <1>4, <1>5, <1>9, Zenon DEF more

LEMMA GatheredAll ==
    ASSUME NEW ids, NEW nodes, NEW places \in SUBSET (DOMAIN nodes),
           Len(nodes) \in Nat, DOMAIN nodes = 1..Len(nodes),
           Gathered(ids, nodes, places, Len(nodes) + 1)
    PROVE  Restore!InOrder(ids, nodes, places)
<1>1. \A i \in places : i < Len(nodes) + 1
  OBVIOUS
<1>2. {i \in places : i < Len(nodes) + 1} = places
  BY <1>1
<1> QED
  BY <1>1, <1>2, RestoreCardinality, Zenon DEF Gathered, Restore!InOrder

(* What is put behind all the others stays the last. *)
LEMMA PlacedLast ==
    ASSUME NEW S, NEW items \in Seq(S), items # <<>>, NEW position \in Nat, position >= Len(items) - 1
    PROVE  Restore!PlaceLast(items, position) = items
<1> DEFINE others == SubSeq(items, 1, Len(items) - 1)
           n == Len(items)
<1>1. n \in Nat /\ n > 0 /\ n - 1 \in Nat /\ \A i \in 1..n : items[i] \in S
  BY EmptySeq
<1>2. others \in Seq(S) /\ Len(others) = n - 1
  <2>1. 1 \in Int /\ n - 1 \in Int /\ \A i \in 1..(n - 1) : items[i] \in S
    BY <1>1
  <2>2. others \in Seq(S) /\ Len(others) = IF 1 <= n - 1 THEN (n - 1) - 1 + 1 ELSE 0
    BY <2>1, SubSeqProperties
  <2> HIDE DEF others, n
  <2> QED
    BY <1>1, <2>2
<1>3. SubSeq(others, 1, n - 1) = others
  BY <1>2, SubSeqFull
<1>4. SubSeq(others, n, n - 1) = <<>>
  BY <1>1, SubSeqEmpty
<1>5. items = others \o <<items[n]>>
  <2>1. SubSeq(items, 1, n) = SubSeq(items, 1, n - 1) \o <<items[n]>>
    BY <1>1, SubSeqRecursiveSecond
  <2> QED
    BY <2>1, SubSeqFull
<1>6. Restore!PlaceLast(items, position)
          = SubSeq(others, 1, ((n - 1) + 1) - 1) \o <<items[n]>> \o SubSeq(others, (n - 1) + 1, Len(others))
  <2>1. Restore!Front(items) = others /\ Restore!Last(items) = items[n]
    BY DEF Restore!Front, Restore!Last
  <2>2. (IF position < Len(others) THEN position ELSE Len(others)) = n - 1
    BY <1>1, <1>2
  <2>3. Restore!InsertAt(others, (n - 1) + 1, items[n])
          = SubSeq(others, 1, ((n - 1) + 1) - 1) \o <<items[n]>> \o SubSeq(others, (n - 1) + 1, Len(others))
    BY Zenon DEF Restore!InsertAt
  <2> HIDE DEF others, n
  <2> QED
    <3>1. Restore!PlaceLast(items, position)
              = Restore!InsertAt(others, (IF position < Len(others) THEN position ELSE Len(others)) + 1,
                                 items[n])
      BY <2>1 DEF Restore!PlaceLast
    <3> QED
      BY <2>2, <2>3, <3>1, Zenon
<1>7. ((n - 1) + 1) - 1 = n - 1 /\ (n - 1) + 1 = n /\ Len(others) = n - 1
  BY <1>1, <1>2
<1>8. Restore!PlaceLast(items, position) = (others \o <<items[n]>>) \o <<>>
  <2> HIDE DEF others, n
  <2> QED
    BY <1>3, <1>4, <1>6, <1>7
<1> QED
  BY <1>5, <1>8, ConcatEmptySeq

(* What an element that is put last adds to the ids. *)
LEMMA IdsGrow ==
    ASSUME NEW S, NEW items \in Seq(S), NEW x \in S
    PROVE  /\ Restore!Ids(Append(items, x)) = Append(Restore!Ids(items), x.id)
           /\ Len(Restore!Ids(items)) = Len(items)
           /\ Append(items, x) \in Seq(S) /\ Append(items, x) # <<>>
           /\ Len(Append(items, x)) = Len(items) + 1 /\ Append(items, x)[Len(items) + 1] = x
           /\ \A i \in 1..Len(items) : Append(items, x)[i] = items[i]
<1>1. Len(items) \in Nat /\ DOMAIN items = 1..Len(items)
  OBVIOUS
<1>2. /\ Append(items, x) \in Seq(S) /\ Len(Append(items, x)) = Len(items) + 1
      /\ Append(items, x)[Len(items) + 1] = x
      /\ \A i \in 1..Len(items) : Append(items, x)[i] = items[i]
      /\ DOMAIN Append(items, x) = 1..(Len(items) + 1)
  OBVIOUS
<1>3. Append(items, x) # <<>>
  BY <1>1, <1>2, EmptySeq
<1> DEFINE ids == [i \in 1..Len(items) |-> items[i].id]
           more == Append(items, x)
<1>4. Restore!Ids(items) = ids
  BY <1>1 DEF Restore!Ids
<1>5. Restore!Ids(more) = [i \in 1..(Len(items) + 1) |-> more[i].id]
  BY <1>2 DEF Restore!Ids
<1> DEFINE T == {more[i].id : i \in 1..(Len(items) + 1)}
<1>6. ids \in Seq(T) /\ Len(ids) = Len(items) /\ x.id \in T
  <2>1. \A i \in 1..Len(items) : items[i].id \in T
    BY <1>1, <1>2
  <2>2. x.id \in T
    BY <1>1, <1>2
  <2> HIDE DEF T
  <2> QED
    BY <1>1, <2>1, <2>2
<1>7. Append(ids, x.id) = [i \in 1..(Len(items) + 1) |-> more[i].id]
  <2>1. \A i \in 1..Len(items) : ids[i] = more[i].id
    BY <1>2
  <2>2. /\ Append(ids, x.id) = [i \in 1..(Len(items) + 1) |-> Append(ids, x.id)[i]]
        /\ \A i \in 1..Len(items) : Append(ids, x.id)[i] = ids[i]
        /\ Append(ids, x.id)[Len(items) + 1] = x.id
    <3> HIDE DEF ids, T
    <3> QED
      BY <1>6
  <2>3. \A i \in 1..(Len(items) + 1) : Append(ids, x.id)[i] = more[i].id
    <3>1. \A i \in 1..(Len(items) + 1) : i \in 1..Len(items) \/ i = Len(items) + 1
      BY <1>1
    <3> HIDE DEF ids
    <3> QED
      BY <1>2, <2>1, <2>2, <3>1
  <2> HIDE DEF ids, more
  <2> QED
    BY <2>2, <2>3
<1> QED
  BY <1>2, <1>3, <1>4, <1>5, <1>6, <1>7, Zenon

-----------------------------------------------------------------------------
(* Sources and filters *)

(* What is passed when the next element of a list is, when the list ends,  *)
(* and when an outer element has no part in it.                            *)
LEMMA WithinMore ==
    ASSUME NEW outer \in SUBSET Nat, NEW lists, NEW ob \in outer, NEW ib \in DOMAIN lists[ob],
           \A n \in outer : DOMAIN lists[n] \subseteq Nat
    PROVE  Within(outer, lists, ob, ib + 1) = Within(outer, lists, ob, ib) \cup {lists[ob][ib]}
<1> DEFINE passed(n, i) == n < ob \/ (n = ob /\ i < ib)
           next2(n, i) == n < ob \/ (n = ob /\ i < ib + 1)
<1>1. \A n \in outer : \A i \in DOMAIN lists[n] : next2(n, i) <=> passed(n, i) \/ (n = ob /\ i = ib)
  OBVIOUS
<1>2. \A x : x \in UNION {Elements(lists[n]) : n \in outer}
                <=> \E n \in outer : \E i \in DOMAIN lists[n] : x = lists[n][i]
  BY DEF Elements
<1>3. /\ \A x : x \in Within(outer, lists, ob, ib)
                    <=> \E n \in outer : \E i \in DOMAIN lists[n] : passed(n, i) /\ x = lists[n][i]
      /\ \A x : x \in Within(outer, lists, ob, ib + 1)
                    <=> \E n \in outer : \E i \in DOMAIN lists[n] : next2(n, i) /\ x = lists[n][i]
  BY <1>2, Zenon DEF Within
<1> HIDE DEF passed, next2
<1>4. \A x : x \in Within(outer, lists, ob, ib + 1)
                <=> x \in Within(outer, lists, ob, ib) \cup {lists[ob][ib]}
  BY <1>1, <1>3
<1> QED
  BY <1>4, Zenon

LEMMA WithinDone ==
    ASSUME NEW outer \in SUBSET Nat, NEW lists, NEW ob \in outer,
           \A n \in outer : Len(lists[n]) \in Nat /\ DOMAIN lists[n] = 1..Len(lists[n])
    PROVE  Within(outer, lists, ob + 1, 1) = Within(outer, lists, ob, Len(lists[ob]) + 1)
<1> DEFINE passed(n, i) == n < ob \/ (n = ob /\ i < Len(lists[ob]) + 1)
           next2(n, i) == n < ob + 1 \/ (n = ob + 1 /\ i < 1)
<1>1. ASSUME NEW n \in outer, NEW i \in DOMAIN lists[n] PROVE next2(n, i) <=> passed(n, i)
  <2>1. n \in Nat /\ ob \in Nat /\ i \in Nat /\ i > 0 /\ i <= Len(lists[n]) /\ Len(lists[n]) \in Nat
    OBVIOUS
  <2>2. n = ob => i < Len(lists[ob]) + 1
    BY <2>1
  <2> QED
    BY <2>1, <2>2
<1>2. /\ \A x : x \in Within(outer, lists, ob, Len(lists[ob]) + 1)
                    <=> /\ x \in UNION {Elements(lists[n]) : n \in outer}
                        /\ \E n \in outer : \E i \in DOMAIN lists[n] : passed(n, i) /\ x = lists[n][i]
      /\ \A x : x \in Within(outer, lists, ob + 1, 1)
                    <=> /\ x \in UNION {Elements(lists[n]) : n \in outer}
                        /\ \E n \in outer : \E i \in DOMAIN lists[n] : next2(n, i) /\ x = lists[n][i]
  BY Zenon DEF Within
<1> HIDE DEF passed, next2
<1>3. \A x : x \in Within(outer, lists, ob + 1, 1) <=> x \in Within(outer, lists, ob, Len(lists[ob]) + 1)
  BY <1>1, <1>2
<1> QED
  BY <1>3, Zenon

LEMMA WithinPast ==
    ASSUME NEW outer \in SUBSET Nat, NEW lists, NEW ob \in Nat,
           \A n \in outer : DOMAIN lists[n] \subseteq Nat \ {0},
           ob \notin outer \/ lists[ob] = <<>>
    PROVE  Within(outer, lists, ob + 1, 1) = Within(outer, lists, ob, 1)
<1> DEFINE passed(n, i) == n < ob \/ (n = ob /\ i < 1)
           next2(n, i) == n < ob + 1 \/ (n = ob + 1 /\ i < 1)
<1>1. ASSUME NEW n \in outer, NEW i \in DOMAIN lists[n] PROVE next2(n, i) <=> passed(n, i)
  <2>1. n \in Nat /\ ob \in Nat /\ i \in Nat /\ i > 0
    <3>1. i \in Nat \ {0} /\ n \in Nat /\ ob \in Nat
      BY <1>1, Zenon
    <3>2. \A m \in Nat \ {0} : m \in Nat /\ m > 0
      OBVIOUS
    <3> QED
      BY <3>1, <3>2, Zenon
  <2>2. n # ob
    BY <1>1
  <2> QED
    BY <2>1, <2>2
<1>2. /\ \A x : x \in Within(outer, lists, ob, 1)
                    <=> /\ x \in UNION {Elements(lists[n]) : n \in outer}
                        /\ \E n \in outer : \E i \in DOMAIN lists[n] : passed(n, i) /\ x = lists[n][i]
      /\ \A x : x \in Within(outer, lists, ob + 1, 1)
                    <=> /\ x \in UNION {Elements(lists[n]) : n \in outer}
                        /\ \E n \in outer : \E i \in DOMAIN lists[n] : next2(n, i) /\ x = lists[n][i]
  BY Zenon DEF Within
<1> HIDE DEF passed, next2
<1>3. \A x : x \in Within(outer, lists, ob + 1, 1) <=> x \in Within(outer, lists, ob, 1)
  BY <1>1, <1>2
<1> QED
  BY <1>3, Zenon

(* What a document lists in its sources and nodes. *)
LEMMA ListsAre ==
    ASSUME NEW d \in Documents, NEW av
    PROVE  /\ Able(d.sources, av) \in SUBSET Nat /\ DOMAIN d.nodes \in SUBSET Nat
           /\ \A n \in Able(d.sources, av) :
                 /\ FiltersOf(d)[n] = d.sources[n].filters
                 /\ Len(FiltersOf(d)[n]) \in Nat /\ DOMAIN FiltersOf(d)[n] = 1..Len(FiltersOf(d)[n])
           /\ \A n \in DOMAIN d.nodes :
                 /\ ItemsOf(d)[n] = d.nodes[n].items
                 /\ Len(ItemsOf(d)[n]) \in Nat /\ DOMAIN ItemsOf(d)[n] = 1..Len(ItemsOf(d)[n])
<1>1. \A n \in DOMAIN d.sources : FiltersOf(d)[n] = d.sources[n].filters
  BY DEF FiltersOf
<1>2. \A n \in DOMAIN d.nodes : ItemsOf(d)[n] = d.nodes[n].items
  BY DEF ItemsOf
<1>3. Able(d.sources, av) \subseteq DOMAIN d.sources
  BY DEF Able
<1>4. /\ Len(d.sources) \in Nat /\ DOMAIN d.sources = 1..Len(d.sources)
      /\ Len(d.nodes) \in Nat /\ DOMAIN d.nodes = 1..Len(d.nodes)
      /\ \A n \in DOMAIN d.sources :
            /\ Len(d.sources[n].filters) \in Nat
            /\ DOMAIN d.sources[n].filters = 1..Len(d.sources[n].filters)
      /\ \A n \in DOMAIN d.nodes :
            /\ Len(d.nodes[n].items) \in Nat
            /\ DOMAIN d.nodes[n].items = 1..Len(d.nodes[n].items)
  BY DocumentIs, Zenon
<1>5. DOMAIN d.sources \subseteq Nat /\ DOMAIN d.nodes \subseteq Nat
  BY <1>4
<1>6. Able(d.sources, av) \in SUBSET Nat /\ DOMAIN d.nodes \in SUBSET Nat
  BY <1>3, <1>5
<1> QED
  BY <1>1, <1>2, <1>3, <1>4, <1>6, Zenon

(* How the diagnostics grow with one more object. *)
Grows(then, before2, more) == then = before2 \cup more
SkipReport(kind, o) == {<<kind, o.id>>}
Adds(then, passed, x) == then = passed \cup {x}

LEMMA FilterSkipGrows ==
    ASSUME NEW then, NEW passed, NEW x, NEW av, NEW go, Adds(then, passed, x), x.plugin \notin av
    PROVE  /\ Grows(FiltersSkipped(then, av), FiltersSkipped(passed, av), SkipReport("filter plugin", x))
           /\ Grows(FiltersLacking(then, av, go), FiltersLacking(passed, av, go), {})
<1>1. Grows(FiltersSkipped(then, av), FiltersSkipped(passed, av), SkipReport("filter plugin", x))
  BY DEF FiltersSkipped, Adds, SkipReport, Grows
<1>2. Grows(FiltersLacking(then, av, go), FiltersLacking(passed, av, go), {})
  BY DEF FiltersLacking, Adds, Grows
<1> QED
  BY <1>1, <1>2

LEMMA FilterGrows ==
    ASSUME NEW then, NEW passed, NEW x, NEW av, NEW go, Adds(then, passed, x), x.plugin \in av
    PROVE  /\ Grows(FiltersSkipped(then, av), FiltersSkipped(passed, av), {})
           /\ Grows(FiltersLacking(then, av, go), FiltersLacking(passed, av, go), Findings(x, go))
<1>1. Grows(FiltersSkipped(then, av), FiltersSkipped(passed, av), {})
  BY DEF FiltersSkipped, Adds, Grows
<1>2. Grows(FiltersLacking(then, av, go), FiltersLacking(passed, av, go), Findings(x, go))
  BY DEF FiltersLacking, Adds, Grows
<1> QED
  BY <1>1, <1>2

LEMMA ItemsGrow ==
    ASSUME NEW then, NEW passed, NEW x, NEW ids, Adds(then, passed, x)
    PROVE  /\ ~(x.source \in ids \/ x.source = "group") =>
                  Grows(ItemsSkipped(then, ids), ItemsSkipped(passed, ids), SkipReport("item", x))
           /\ x.source \in ids \/ x.source = "group" =>
                  Grows(ItemsSkipped(then, ids), ItemsSkipped(passed, ids), {})
<1>1. ~(x.source \in ids \/ x.source = "group") =>
          Grows(ItemsSkipped(then, ids), ItemsSkipped(passed, ids), SkipReport("item", x))
  BY DEF ItemsSkipped, Adds, SkipReport, Grows
<1>2. x.source \in ids \/ x.source = "group" => Grows(ItemsSkipped(then, ids), ItemsSkipped(passed, ids),
                                                      {})
  BY DEF ItemsSkipped, Adds, SkipReport, Grows
<1> QED
  BY <1>1, <1>2, Zenon

LEMMA SourcesGrow ==
    ASSUME NEW d \in Documents, NEW av, NEW go, NEW n \in DOMAIN d.sources
    PROVE  /\ d.sources[n].plugin \notin av =>
                  /\ Grows(SourcesSkipped(d, av, n + 1), SourcesSkipped(d, av, n),
                           SkipReport("source plugin", d.sources[n]))
                  /\ SourcesLacking(d, av, go, n + 1) = SourcesLacking(d, av, go, n)
           /\ d.sources[n].plugin \in av =>
                  /\ SourcesSkipped(d, av, n + 1) = SourcesSkipped(d, av, n)
                  /\ Grows(SourcesLacking(d, av, go, n + 1), SourcesLacking(d, av, go, n),
                           Findings(d.sources[n], go))
<1>1. \A m \in DOMAIN d.sources : m < n + 1 <=> m < n \/ m = n
  <2>1. DOMAIN d.sources \subseteq Nat
    <3>1. Len(d.sources) \in Nat /\ DOMAIN d.sources = 1..Len(d.sources)
      BY DocumentIs, Zenon
    <3> QED
      BY <3>1
  <2> QED
    BY <2>1
<1>2. d.sources[n].plugin \notin av =>
          Grows(SourcesSkipped(d, av, n + 1), SourcesSkipped(d, av, n),
                SkipReport("source plugin", d.sources[n]))
  BY <1>1 DEF SourcesSkipped, SkipReport, Grows
<1>3. d.sources[n].plugin \in av => SourcesSkipped(d, av, n + 1) = SourcesSkipped(d, av, n)
  BY <1>1 DEF SourcesSkipped
<1>4. ASSUME d.sources[n].plugin \notin av
      PROVE  SourcesLacking(d, av, go, n + 1) = SourcesLacking(d, av, go, n)
  BY <1>1, <1>4 DEF SourcesLacking, Able
<1>5. d.sources[n].plugin \in av =>
          Grows(SourcesLacking(d, av, go, n + 1), SourcesLacking(d, av, go, n),
                Findings(d.sources[n], go))
  BY <1>1 DEF SourcesLacking, Able, Grows
<1> QED
  BY <1>2, <1>3, <1>4, <1>5, Zenon

LEMMA NodesGrow ==
    ASSUME NEW d \in Documents, NEW n \in DOMAIN d.nodes
    PROVE  NodesPassed(d, n + 1) = NodesPassed(d, n) \cup {d.nodes[n]}
<1>1. \A m \in DOMAIN d.nodes : m < n + 1 <=> m < n \/ m = n
  BY ListsAre
<1> QED
  BY <1>1 DEF NodesPassed

(* What a filter or a source that is restored or skipped does to the       *)
(* sources that are back.                                                  *)
LEMMA FiltersHave ==
    ASSUME NEW d \in Documents, NEW av, NEW n \in DOMAIN d.sources
    PROVE  /\ Len(d.sources[n].filters) \in Nat
           /\ DOMAIN d.sources[n].filters = 1..Len(d.sources[n].filters)
           /\ Able(d.sources[n].filters, av) \in SUBSET (1..Len(d.sources[n].filters))
<1>1. /\ Len(d.sources[n].filters) \in Nat
      /\ DOMAIN d.sources[n].filters = 1..Len(d.sources[n].filters)
  BY DocumentIs, Zenon
<1>2. Able(d.sources[n].filters, av) \subseteq DOMAIN d.sources[n].filters
  BY DEF Able
<1> QED
  BY <1>1, <1>2

LEMMA BackFirst ==
    ASSUME NEW d \in Documents, NEW av, NEW applied,
           \A n \in DOMAIN d.sources : applied[d.sources[n].id] = <<>>
    PROVE  Back(d, av, {}, applied, 1, 1)
<1>1. Able(d.sources, av) \subseteq DOMAIN d.sources /\ \A n \in DOMAIN d.sources : n \in Nat /\ ~(n < 1)
  <2>1. Able(d.sources, av) \subseteq DOMAIN d.sources
    BY DEF Able
  <2>2. Len(d.sources) \in Nat /\ DOMAIN d.sources = 1..Len(d.sources)
    BY DocumentIs, Zenon
  <2> QED
    BY <2>1, <2>2
<1>2. AbleIds(d, av, 1) = {}
  BY <1>1 DEF AbleIds
<1>3. ASSUME NEW n \in Able(d.sources, av)
      PROVE  LET s == d.sources[n]
             IN  Gathered(applied[s.id], s.filters, Able(s.filters, av),
                          IF n < 1 THEN Len(s.filters) + 1 ELSE IF n = 1 THEN 1 ELSE 1)
  <2>1. n \in DOMAIN d.sources /\ ~(n < 1) /\ applied[d.sources[n].id] = <<>>
    BY <1>1
  <2>2. Gathered(<<>>, d.sources[n].filters, Able(d.sources[n].filters, av), 1)
    BY <2>1, FiltersHave, GatheredNone, Zenon
  <2>3. (IF n < 1 THEN Len(d.sources[n].filters) + 1 ELSE IF n = 1 THEN 1 ELSE 1) = 1
    BY <2>1
  <2> QED
    BY <2>1, <2>2, <2>3, Zenon
<1> QED
  BY <1>2, <1>3, Zenon DEF Back

LEMMA BackSkip ==
    ASSUME NEW d \in Documents, NEW av, NEW ids, NEW applied, NEW sb \in DOMAIN d.sources,
           d.sources[sb].plugin \notin av, Back(d, av, ids, applied, sb, 1)
    PROVE  Back(d, av, ids, applied, sb + 1, 1)
<1>1. /\ \A n \in Able(d.sources, av) : n \in DOMAIN d.sources /\ n # sb
      /\ \A n \in DOMAIN d.sources : n \in Nat
  <2>1. \A n \in Able(d.sources, av) : n \in DOMAIN d.sources /\ n # sb
    BY DEF Able
  <2>2. Len(d.sources) \in Nat /\ DOMAIN d.sources = 1..Len(d.sources)
    BY DocumentIs, Zenon
  <2> QED
    BY <2>1, <2>2
<1>2. \A n \in Able(d.sources, av) : n < sb + 1 <=> n < sb
  BY <1>1
<1>3. AbleIds(d, av, sb + 1) = AbleIds(d, av, sb)
  BY <1>2 DEF AbleIds
<1> DEFINE upTo(n, b) == IF n < b THEN Len(d.sources[n].filters) + 1 ELSE IF n = b THEN 1 ELSE 1
<1>4. \A n \in Able(d.sources, av) : upTo(n, sb + 1) = upTo(n, sb)
  BY <1>2
<1>5. ids = AbleIds(d, av, sb) /\ \A n \in Able(d.sources, av) :
          Gathered(applied[d.sources[n].id], d.sources[n].filters, Able(d.sources[n].filters, av),
                   upTo(n, sb))
  BY Zenon DEF Back
<1> HIDE DEF upTo
<1>6. \A n \in Able(d.sources, av) :
          Gathered(applied[d.sources[n].id], d.sources[n].filters, Able(d.sources[n].filters, av),
                   upTo(n, sb + 1))
  BY <1>4, <1>5, Zenon
<1>7. ids = AbleIds(d, av, sb + 1)
  BY <1>3, <1>5, Zenon
<1> QED
  BY <1>6, <1>7, Zenon DEF Back, upTo

LEMMA BackPast ==
    ASSUME NEW d \in Documents, NEW av, NEW ids, NEW applied, NEW sb \in Able(d.sources, av),
           NEW fb \in DOMAIN d.sources[sb].filters, d.sources[sb].filters[fb].plugin \notin av,
           Back(d, av, ids, applied, sb, fb)
    PROVE  Back(d, av, ids, applied, sb, fb + 1)
<1> DEFINE filtersOf(n) == d.sources[n].filters
           able(n) == Able(filtersOf(n), av)
           upTo(n, b) == IF n < sb THEN Len(filtersOf(n)) + 1 ELSE IF n = sb THEN b ELSE 1
<1>1. sb \in DOMAIN d.sources /\ sb \in Nat
  BY ListsAre DEF Able
<1>2. fb \in Nat /\ fb > 0
  BY <1>1, FiltersHave
<1>3. fb \notin able(sb)
  BY DEF Able
<1>4. ids = AbleIds(d, av, sb) /\ \A n \in Able(d.sources, av) :
          Gathered(applied[d.sources[n].id], filtersOf(n), able(n), upTo(n, fb))
  BY Zenon DEF Back
<1>5. ASSUME NEW n \in Able(d.sources, av)
      PROVE  Gathered(applied[d.sources[n].id], filtersOf(n), able(n), upTo(n, fb + 1))
  <2>1. CASE n = sb
    <3>1. upTo(n, fb + 1) = fb + 1 /\ upTo(n, fb) = fb
      BY <1>1, <2>1
    <3>2. Gathered(applied[d.sources[n].id], filtersOf(n), able(n), fb)
      BY <1>4, <3>1
    <3> QED
      BY <1>1, <1>2, <1>3, <2>1, <3>1, <3>2, FiltersHave, GatheredPast, Zenon
  <2>2. CASE n # sb
    <3>1. upTo(n, fb + 1) = upTo(n, fb)
      BY <2>2
    <3> HIDE DEF upTo
    <3> QED
      BY <1>4, <3>1
  <2> QED
    BY <2>1, <2>2
<1> QED
  BY <1>4, <1>5, Zenon DEF Back

LEMMA BackApply ==
    ASSUME NEW d \in Documents, NEW av, NEW ids, NEW applied, NEW sb \in Able(d.sources, av),
           NEW fb \in Able(d.sources[sb].filters, av), d.sources[sb].id \in DOMAIN applied,
           Back(d, av, ids, applied, sb, fb)
    PROVE  Back(d, av, ids,
                [applied EXCEPT ![d.sources[sb].id] = Append(@, d.sources[sb].filters[fb].id)], sb, fb + 1)
<1> DEFINE filtersOf(n) == d.sources[n].filters
           able(n) == Able(filtersOf(n), av)
           upTo(n, b) == IF n < sb THEN Len(filtersOf(n)) + 1 ELSE IF n = sb THEN b ELSE 1
           then == [applied EXCEPT ![d.sources[sb].id] = Append(@, filtersOf(sb)[fb].id)]
<1>1. sb \in DOMAIN d.sources /\ sb \in Nat /\ \A n \in Able(d.sources, av) : n \in DOMAIN d.sources
  BY ListsAre DEF Able
<1>4. ids = AbleIds(d, av, sb) /\ \A n \in Able(d.sources, av) :
          Gathered(applied[d.sources[n].id], filtersOf(n), able(n), upTo(n, fb))
  BY Zenon DEF Back
<1>5. ASSUME NEW n \in Able(d.sources, av)
      PROVE  Gathered(then[d.sources[n].id], filtersOf(n), able(n), upTo(n, fb + 1))
  <2>1. CASE n = sb
    <3>1. upTo(n, fb + 1) = fb + 1 /\ upTo(n, fb) = fb
      BY <1>1, <2>1
    <3>2. Gathered(applied[d.sources[sb].id], filtersOf(sb), able(sb), fb)
      BY <1>4, <2>1, <3>1
    <3>3. then[d.sources[sb].id] = Append(applied[d.sources[sb].id], filtersOf(sb)[fb].id)
      OBVIOUS
    <3>4. /\ Len(filtersOf(sb)) \in Nat /\ DOMAIN filtersOf(sb) = 1..Len(filtersOf(sb))
          /\ able(sb) \in SUBSET DOMAIN filtersOf(sb)
      BY <1>1, FiltersHave
    <3>5. Gathered(Append(applied[d.sources[sb].id], filtersOf(sb)[fb].id), filtersOf(sb), able(sb), fb + 1)
      <4> HIDE DEF filtersOf
      <4>1. fb \in able(sb)
        BY DEF filtersOf
      <4> HIDE DEF able
      <4> QED
        BY <3>2, <3>4, <4>1, GatheredMore, Zenon
    <3> HIDE DEF filtersOf, able, upTo, then
    <3> QED
      BY <2>1, <3>1, <3>3, <3>5, Zenon
  <2>2. CASE n # sb
    <3>1. upTo(n, fb + 1) = upTo(n, fb)
      BY <2>2
    <3>2. d.sources[n].id # d.sources[sb].id
      BY <1>1, <2>2, DocumentIs, Zenon
    <3>3. then[d.sources[n].id] = applied[d.sources[n].id]
      BY <3>2
    <3> HIDE DEF filtersOf, able, upTo, then
    <3> QED
      BY <1>4, <3>1, <3>3, Zenon
  <2> QED
    BY <2>1, <2>2
<1> QED
  BY <1>4, <1>5, Zenon DEF Back

LEMMA BackDone ==
    ASSUME NEW d \in Documents, NEW av, NEW ids, NEW applied, NEW sb \in Able(d.sources, av),
           Back(d, av, ids, applied, sb, Len(d.sources[sb].filters) + 1)
    PROVE  Back(d, av, ids \cup {d.sources[sb].id}, applied, sb + 1, 1)
<1> DEFINE lenOf(n) == Len(d.sources[n].filters)
           upTo(n) == IF n < sb THEN lenOf(n) + 1 ELSE IF n = sb THEN lenOf(sb) + 1 ELSE 1
           then(n) == IF n < sb + 1 THEN lenOf(n) + 1 ELSE IF n = sb + 1 THEN 1 ELSE 1
<1>1. \A n \in Able(d.sources, av) : n \in Nat
  BY ListsAre
<1>2. \A n \in Able(d.sources, av) : n < sb + 1 <=> n < sb \/ n = sb
  BY <1>1
<1>3. AbleIds(d, av, sb + 1) = AbleIds(d, av, sb) \cup {d.sources[sb].id}
  BY <1>2 DEF AbleIds
<1>4. \A n \in Able(d.sources, av) : then(n) = upTo(n)
  BY <1>2
<1>5. ids = AbleIds(d, av, sb) /\ \A n \in Able(d.sources, av) :
          Gathered(applied[d.sources[n].id], d.sources[n].filters, Able(d.sources[n].filters, av), upTo(n))
  BY Zenon DEF Back
<1> HIDE DEF upTo
<1>6. \A n \in Able(d.sources, av) :
          Gathered(applied[d.sources[n].id], d.sources[n].filters, Able(d.sources[n].filters, av), then(n))
  BY <1>4, <1>5, Zenon
<1>7. ids \cup {d.sources[sb].id} = AbleIds(d, av, sb + 1)
  BY <1>3, <1>5
<1> QED
  BY <1>6, <1>7, Zenon DEF Back

-----------------------------------------------------------------------------
(* The scene *)


LEMMA NodesHave ==
    ASSUME NEW d \in Documents, NEW ids
    PROVE  /\ Len(d.nodes) \in Nat /\ DOMAIN d.nodes = 1..Len(d.nodes)
           /\ Held(d.nodes, ids) \in SUBSET (DOMAIN d.nodes)
           /\ \A n \in DOMAIN d.nodes :
                 /\ n \in Nat /\ n > 0 /\ d.nodes[n].id \in Nat
                 /\ d.nodes[n].order \in Nat /\ d.nodes[n].order >= n - 1
                 /\ Len(d.nodes[n].items) \in Nat
                 /\ DOMAIN d.nodes[n].items = 1..Len(d.nodes[n].items)
                 /\ Held(d.nodes[n].items, ids) \in SUBSET (DOMAIN d.nodes[n].items)
<1>1. /\ Len(d.nodes) \in Nat /\ DOMAIN d.nodes = 1..Len(d.nodes)
      /\ \A n \in DOMAIN d.nodes :
            /\ d.nodes[n].id \in Nat /\ d.nodes[n].order \in Nat /\ d.nodes[n].order >= n - 1
            /\ Len(d.nodes[n].items) \in Nat
            /\ DOMAIN d.nodes[n].items = 1..Len(d.nodes[n].items)
  BY DocumentIs, Zenon
<1>2. \A n \in DOMAIN d.nodes : n \in Nat /\ n > 0
  BY <1>1
<1>3. \A nodes : Held(nodes, ids) \in SUBSET (DOMAIN nodes)
  BY DEF Held
<1> QED
  BY <1>1, <1>2, <1>3, Zenon

LEMMA PlacedFirst ==
    ASSUME NEW d \in Documents, NEW av
    PROVE  Placed(d, av, <<>>, 1, 1, 1)
<1> DEFINE held == Held(d.nodes, AllAble(d, av))
<1>1. Restore!Ids(<<>>) = <<>>
  BY DEF Restore!Ids
<1>2. held \in SUBSET (1..Len(d.nodes)) /\ Len(d.nodes) \in Nat /\ \A n \in held : ~(n < 1)
  <2>1. held \in SUBSET (DOMAIN d.nodes) /\ Len(d.nodes) \in Nat /\ DOMAIN d.nodes = 1..Len(d.nodes)
    BY NodesHave
  <2> HIDE DEF held
  <2> QED
    BY <2>1
<1>3. Gathered(<<>>, d.nodes, held, 1)
  BY <1>2, GatheredNone, Zenon
<1> QED
  BY <1>1, <1>2, <1>3, Zenon DEF Placed

LEMMA PlacedSkip ==
    ASSUME NEW d \in Documents, NEW av, NEW items, NEW nb \in DOMAIN d.nodes,
           nb \notin Held(d.nodes, AllAble(d, av)), Placed(d, av, items, nb, 1, nb)
    PROVE  Placed(d, av, items, nb + 1, 1, nb + 1)
<1> DEFINE held == Held(d.nodes, AllAble(d, av))
           itemsAt(n) == Restore!Ids(items[Restore!Place(n, held)].items)
           heldAt(n) == Held(d.nodes[n].items, AllAble(d, av))
<1>1. /\ nb \in Nat /\ nb > 0 /\ Len(d.nodes) \in Nat /\ held \in SUBSET (1..Len(d.nodes))
      /\ \A n \in held : n \in Nat /\ n # nb
  BY NodesHave
<1>2. /\ Gathered(Restore!Ids(items), d.nodes, held, nb)
      /\ \A n \in held : n < nb => Gathered(itemsAt(n), d.nodes[n].items, heldAt(n),
                                            IF n < nb THEN Len(d.nodes[n].items) + 1 ELSE 1)
  BY Zenon DEF Placed
<1> HIDE DEF held, itemsAt, heldAt
<1>3. Gathered(Restore!Ids(items), d.nodes, held, nb + 1)
  BY <1>1, <1>2, GatheredPast, Zenon DEF held
<1>4. \A n \in held : n < nb + 1 => n < nb
  BY <1>1
<1>5. ASSUME NEW n \in held, n < nb + 1
      PROVE  Gathered(itemsAt(n), d.nodes[n].items, heldAt(n),
                      IF n < nb + 1 THEN Len(d.nodes[n].items) + 1 ELSE 1)
  <2>1. n < nb
    BY <1>4, <1>5
  <2>2. Gathered(itemsAt(n), d.nodes[n].items, heldAt(n), Len(d.nodes[n].items) + 1)
    BY <1>2, <2>1, Zenon
  <2> QED
    BY <1>5, <2>2, Zenon
<1> QED
  BY <1>3, <1>5, Zenon DEF Placed, held, itemsAt, heldAt

(* How many are in the scene or in its last group. *)
LEMMA PlacedCount ==
    ASSUME NEW d \in Documents, NEW av, NEW items \in NativeScenes,
           NEW nb \in Held(d.nodes, AllAble(d, av)), NEW ib
    PROVE  /\ Placed(d, av, items, nb, ib, nb) =>
                  /\ Len(items) \in 0..(nb - 1)
                  /\ Restore!Place(nb, Held(d.nodes, AllAble(d, av))) = Len(items) + 1
                  /\ \A n \in Held(d.nodes, AllAble(d, av)) :
                        n < nb => Restore!Place(n, Held(d.nodes, AllAble(d, av))) \in 1..Len(items)
           /\ Placed(d, av, items, nb, ib, nb + 1) =>
                  /\ Len(items) \in 1..nb
                  /\ Restore!Place(nb, Held(d.nodes, AllAble(d, av))) = Len(items)
                  /\ \A n \in Held(d.nodes, AllAble(d, av)) :
                        n < nb => Restore!Place(n, Held(d.nodes, AllAble(d, av))) \in 1..(Len(items) - 1)
<1> DEFINE held == Held(d.nodes, AllAble(d, av))
           before2(b) == Cardinality({n \in held : n < b})
<1>1. held \in SUBSET (1..Len(d.nodes)) /\ Len(d.nodes) \in Nat /\ nb \in Nat /\ nb > 0
  <2>1. held \in SUBSET (DOMAIN d.nodes) /\ Len(d.nodes) \in Nat /\ DOMAIN d.nodes = 1..Len(d.nodes)
    BY NodesHave
  <2>2. nb \in held
    OBVIOUS
  <2> HIDE DEF held
  <2> QED
    BY <2>1, <2>2
<1> HIDE DEF held
<1>2. /\ before2(nb) \in 0..(nb - 1) /\ before2(nb + 1) = before2(nb) + 1
      /\ \A n \in {i \in held : i < nb} : Restore!Place(n, held) \in 1..before2(nb)
      /\ Restore!Place(nb, held) = before2(nb) + 1
  <2>1. nb \in held
    BY DEF held
  <2> QED
    BY <1>1, <2>1, PlaceCounted, Zenon
<1>3. \A b : Placed(d, av, items, nb, ib, b) => Len(Restore!Ids(items)) = before2(b)
  BY Zenon DEF Placed, Gathered, held
<1>4. Len(Restore!Ids(items)) = Len(items)
  <2>1. Len(items) \in Nat /\ DOMAIN items = 1..Len(items)
    BY DEF NativeScenes
  <2>2. Restore!Ids(items) = [i \in 1..Len(items) |-> items[i].id]
    BY <2>1 DEF Restore!Ids
  <2> QED
    BY <2>1, <2>2
<1>5. \A n \in held : n < nb => n \in {i \in held : i < nb}
  OBVIOUS
<1> HIDE DEF held, before2
<1>6. ASSUME Placed(d, av, items, nb, ib, nb)
      PROVE  /\ Len(items) \in 0..(nb - 1) /\ Restore!Place(nb, held) = Len(items) + 1
             /\ \A n \in held : n < nb => Restore!Place(n, held) \in 1..Len(items)
  BY <1>2, <1>3, <1>4, <1>5, <1>6
<1>7. ASSUME Placed(d, av, items, nb, ib, nb + 1)
      PROVE  /\ Len(items) \in 1..nb /\ Restore!Place(nb, held) = Len(items)
             /\ \A n \in held : n < nb => Restore!Place(n, held) \in 1..(Len(items) - 1)
  <2>1. Len(items) = before2(nb) + 1 /\ before2(nb) \in Nat /\ before2(nb) <= nb - 1
    BY <1>1, <1>2, <1>3, <1>4, <1>7
  <2>2. Len(items) - 1 = before2(nb) /\ Len(items) \in 1..nb
    BY <1>1, <2>1
  <2> QED
    BY <1>2, <1>5, <2>1, <2>2
<1> QED
  BY <1>6, <1>7 DEF held

LEMMA PlacedOpen ==
    ASSUME NEW d \in Documents, NEW av, NEW items \in NativeScenes,
           NEW nb \in Held(d.nodes, AllAble(d, av)), Placed(d, av, items, nb, 1, nb)
    PROVE  /\ Placed(d, av, Append(items, [id |-> d.nodes[nb].id, items |-> <<>>]), nb, 1, nb + 1)
           /\ Append(items, [id |-> d.nodes[nb].id, items |-> <<>>]) \in NativeScenes
<1> DEFINE held == Held(d.nodes, AllAble(d, av))
           itemsAt(scn, n) == Restore!Ids(scn[Restore!Place(n, held)].items)
           heldAt(n) == Held(d.nodes[n].items, AllAble(d, av))
           new == [id |-> d.nodes[nb].id, items |-> <<>>]
           upTo(n) == IF n < nb THEN Len(d.nodes[n].items) + 1 ELSE 1
<1>1. nb \in DOMAIN d.nodes /\ nb \in Nat /\ \A n \in held : n \in Nat
  <2>1. held \in SUBSET (DOMAIN d.nodes) /\ \A n \in DOMAIN d.nodes : n \in Nat
    BY NodesHave
  <2>2. nb \in held
    OBVIOUS
  <2> HIDE DEF held
  <2> QED
    BY <2>1, <2>2
<1>2. new \in [id : Nat, items : NativeItems]
  <2>1. d.nodes[nb].id \in Nat
    BY <1>1, NodesHave
  <2>2. <<>> \in NativeItems
    BY EmptySeq DEF NativeItems
  <2> HIDE DEF NativeItems
  <2> QED
    BY <2>1, <2>2
<1>3. /\ Restore!Ids(Append(items, new)) = Append(Restore!Ids(items), d.nodes[nb].id)
      /\ Append(items, new) \in NativeScenes
      /\ Append(items, new)[Len(items) + 1] = new
      /\ \A i \in 1..Len(items) : Append(items, new)[i] = items[i]
  <2>1. new.id = d.nodes[nb].id
    OBVIOUS
  <2> DEFINE T == [id : Nat, items : NativeItems]
  <2>2. items \in Seq(T) /\ new \in T
    BY <1>2 DEF NativeScenes
  <2>3. NativeScenes = Seq(T)
    BY DEF NativeScenes
  <2> HIDE DEF new, T
  <2> QED
    <3>1. /\ Restore!Ids(Append(items, new)) = Append(Restore!Ids(items), new.id)
          /\ Append(items, new) \in Seq(T)
          /\ Append(items, new)[Len(items) + 1] = new
          /\ \A i \in 1..Len(items) : Append(items, new)[i] = items[i]
      BY <2>2, IdsGrow
    <3> QED
      BY <2>1, <2>3, <3>1, Zenon
<1>4. /\ Gathered(Restore!Ids(items), d.nodes, held, nb)
      /\ \A n \in held : n < nb => Gathered(itemsAt(items, n), d.nodes[n].items, heldAt(n), upTo(n))
  BY Zenon DEF Placed
<1>5. Gathered(Restore!Ids(Append(items, new)), d.nodes, held, nb + 1)
  <2>1. /\ Len(d.nodes) \in Nat /\ DOMAIN d.nodes = 1..Len(d.nodes) /\ held \in SUBSET (DOMAIN d.nodes)
        /\ nb \in held
    BY NodesHave, Zenon
  <2> HIDE DEF held, new
  <2>2. Gathered(Append(Restore!Ids(items), d.nodes[nb].id), d.nodes, held, nb + 1)
    BY <1>4, <2>1, GatheredMore, Zenon
  <2> QED
    BY <1>3, <2>2, Zenon
<1>6. /\ Restore!Place(nb, held) = Len(items) + 1
      /\ \A n \in held : n < nb => Restore!Place(n, held) \in 1..Len(items)
  BY PlacedCount, Zenon
<1>7. \A n \in held : n < nb + 1 => n < nb \/ n = nb
  BY <1>1
<1>8. ASSUME NEW n \in held, n < nb + 1
      PROVE  Gathered(itemsAt(Append(items, new), n), d.nodes[n].items, heldAt(n), upTo(n))
  <2>1. CASE n < nb
    <3>1. Append(items, new)[Restore!Place(n, held)] = items[Restore!Place(n, held)]
      BY <1>3, <1>6, <2>1, Zenon
    <3> HIDE DEF held, heldAt, upTo, new
    <3> QED
      BY <1>4, <2>1, <3>1, Zenon
  <2>2. CASE n = nb
    <3>1. Append(items, new)[Restore!Place(nb, held)].items = <<>>
      <4>1. new.items = <<>>
        OBVIOUS
      <4> HIDE DEF new, held
      <4> QED
        BY <1>3, <1>6, <4>1, Zenon
    <3>2. itemsAt(Append(items, new), nb) = <<>>
      <4>1. Restore!Ids(<<>>) = <<>>
        BY DEF Restore!Ids
      <4> HIDE DEF held, new
      <4> QED
        BY <3>1, <4>1, Zenon
    <3>3. Gathered(<<>>, d.nodes[nb].items, heldAt(nb), 1)
      <4>1. /\ Len(d.nodes[nb].items) \in Nat
            /\ heldAt(nb) \in SUBSET (1..Len(d.nodes[nb].items))
        BY <1>1, NodesHave
      <4> QED
        BY <4>1, GatheredNone, Zenon
    <3>4. upTo(nb) = 1
      BY <1>1
    <3> HIDE DEF upTo, heldAt, itemsAt
    <3> QED
      BY <2>2, <3>2, <3>3, <3>4, Zenon
  <2> QED
    BY <1>7, <1>8, <2>1, <2>2, Zenon
<1>9. Placed(d, av, Append(items, new), nb, 1, nb + 1)
  BY <1>5, <1>8, Zenon DEF Placed
<1> QED
  BY <1>3, <1>9, Zenon

LEMMA PlacedPast ==
    ASSUME NEW d \in Documents, NEW av, NEW items, NEW nb \in DOMAIN d.nodes,
           NEW ib \in DOMAIN d.nodes[nb].items,
           ib \notin Held(d.nodes[nb].items, AllAble(d, av)), Placed(d, av, items, nb, ib, nb + 1)
    PROVE  Placed(d, av, items, nb, ib + 1, nb + 1)
<1> DEFINE held == Held(d.nodes, AllAble(d, av))
           itemsAt(n) == Restore!Ids(items[Restore!Place(n, held)].items)
           heldAt(n) == Held(d.nodes[n].items, AllAble(d, av))
           upTo(n, b) == IF n < nb THEN Len(d.nodes[n].items) + 1 ELSE b
<1>1. /\ nb \in Nat /\ \A n \in held : n \in Nat /\ n \in DOMAIN d.nodes
      /\ ib \in Nat /\ ib > 0
      /\ Len(d.nodes[nb].items) \in Nat /\ heldAt(nb) \in SUBSET (1..Len(d.nodes[nb].items))
  <2>1. held \in SUBSET (DOMAIN d.nodes) /\ \A n \in DOMAIN d.nodes : n \in Nat
    BY NodesHave
  <2>2. /\ Len(d.nodes[nb].items) \in Nat /\ DOMAIN d.nodes[nb].items = 1..Len(d.nodes[nb].items)
        /\ heldAt(nb) \in SUBSET (DOMAIN d.nodes[nb].items)
    BY NodesHave
  <2> HIDE DEF held, heldAt
  <2>3. ib \in Nat /\ ib > 0
    BY <2>2
  <2> QED
    BY <2>1, <2>2, <2>3
<1>2. /\ Gathered(Restore!Ids(items), d.nodes, held, nb + 1)
      /\ \A n \in held : n < nb + 1 => Gathered(itemsAt(n), d.nodes[n].items, heldAt(n), upTo(n, ib))
  BY Zenon DEF Placed
<1>3. ib \notin heldAt(nb)
  OBVIOUS
<1>4. \A n \in held : n < nb + 1 => n < nb \/ n = nb
  BY <1>1
<1>5. upTo(nb, ib) = ib /\ upTo(nb, ib + 1) = ib + 1 /\ \A n : n < nb => upTo(n, ib) = upTo(n, ib + 1)
  BY <1>1
<1> HIDE DEF held, itemsAt, heldAt, upTo
<1>6. ASSUME NEW n \in held, n < nb + 1
      PROVE  Gathered(itemsAt(n), d.nodes[n].items, heldAt(n), upTo(n, ib + 1))
  <2>1. CASE n < nb
    BY <1>2, <1>5, <1>6, <2>1, Zenon
  <2>2. CASE n = nb
    <3>1. Gathered(itemsAt(nb), d.nodes[nb].items, heldAt(nb), ib)
      BY <1>2, <1>5, <1>6, <2>2, Zenon
    <3>2. Gathered(itemsAt(nb), d.nodes[nb].items, heldAt(nb), ib + 1)
      BY <1>1, <1>3, <3>1, GatheredPast, Zenon
    <3> QED
      BY <1>5, <2>2, <3>2, Zenon
  <2> QED
    BY <1>4, <1>6, <2>1, <2>2, Zenon
<1> QED
  BY <1>2, <1>6, Zenon DEF Placed, held, itemsAt, heldAt, upTo

LEMMA PlacedAdd ==
    ASSUME NEW d \in Documents, NEW av, NEW items \in NativeScenes,
           NEW nb \in Held(d.nodes, AllAble(d, av)),
           NEW ib \in Held(d.nodes[nb].items, AllAble(d, av)), d.nodes[nb].items[ib].id \in Nat,
           Placed(d, av, items, nb, ib, nb + 1)
    PROVE  LET added == Append(items[Len(items)].items, [id |-> d.nodes[nb].items[ib].id])
               after == [items EXCEPT ![Len(items)].items = added]
           IN  /\ Placed(d, av, after, nb, ib + 1, nb + 1)
               /\ after \in NativeScenes /\ added \in NativeItems /\ added # <<>>
               /\ Len(added) \in 1..ib
<1> DEFINE held == Held(d.nodes, AllAble(d, av))
           itemsAt(scn, n) == Restore!Ids(scn[Restore!Place(n, held)].items)
           heldAt(n) == Held(d.nodes[n].items, AllAble(d, av))
           upTo(n, b) == IF n < nb THEN Len(d.nodes[n].items) + 1 ELSE b
           child1 == d.nodes[nb].items[ib]
           last == Len(items)
           new == [id |-> child1.id]
           added == Append(items[last].items, new)
           after == [items EXCEPT ![last].items = added]
<1>1. /\ nb \in DOMAIN d.nodes /\ nb \in Nat /\ \A n \in held : n \in Nat
      /\ ib \in heldAt(nb)
      /\ Len(d.nodes[nb].items) \in Nat /\ DOMAIN d.nodes[nb].items = 1..Len(d.nodes[nb].items)
      /\ heldAt(nb) \in SUBSET (DOMAIN d.nodes[nb].items)
  <2>1. held \in SUBSET (DOMAIN d.nodes) /\ nb \in held
    BY NodesHave
  <2>2. \A n \in held : n \in DOMAIN d.nodes
    BY <2>1
  <2> HIDE DEF held
  <2> QED
    BY <2>1, <2>2, NodesHave
<1>2. /\ Gathered(Restore!Ids(items), d.nodes, held, nb + 1)
      /\ \A n \in held : n < nb + 1 => Gathered(itemsAt(items, n), d.nodes[n].items, heldAt(n), upTo(n, ib))
  BY Zenon DEF Placed
<1>3. /\ last \in Nat /\ last > 0 /\ Restore!Place(nb, held) = last
      /\ \A n \in held : n < nb => Restore!Place(n, held) \in 1..(last - 1)
  <2>1. /\ Len(items) \in 1..nb /\ Restore!Place(nb, held) = Len(items)
        /\ \A n \in held : n < nb => Restore!Place(n, held) \in 1..(Len(items) - 1)
    BY PlacedCount, Zenon
  <2> HIDE DEF held
  <2> QED
    BY <1>1, <2>1
<1>4. /\ items[last] \in [id : Nat, items : NativeItems] /\ items[last].items \in NativeItems
      /\ items \in [1..last -> [id : Nat, items : NativeItems]]
  <2> DEFINE T == [id : Nat, items : NativeItems]
  <2>1. items \in Seq(T)
    BY DEF NativeScenes
  <2>2. items[last] \in T /\ items \in [1..last -> T]
    <3> HIDE DEF T
    <3> QED
      BY <1>3, <2>1
  <2> QED
    BY <2>2
<1>5. new \in [id : Nat] /\ new.id = child1.id
  OBVIOUS
<1>6. /\ Restore!Ids(added) = Append(Restore!Ids(items[last].items), child1.id)
      /\ Len(Restore!Ids(items[last].items)) = Len(items[last].items)
      /\ added \in NativeItems /\ added # <<>> /\ Len(added) = Len(items[last].items) + 1
  <2> DEFINE T == [id : Nat] list2 == items[last].items
  <2>1. list2 \in Seq(T) /\ new \in T /\ NativeItems = Seq(T)
    BY <1>4, <1>5 DEF NativeItems
  <2> HIDE DEF T, list2, new
  <2>2. /\ Restore!Ids(Append(list2, new)) = Append(Restore!Ids(list2), new.id)
        /\ Len(Restore!Ids(list2)) = Len(list2)
        /\ Append(list2, new) \in Seq(T) /\ Append(list2, new) # <<>>
        /\ Len(Append(list2, new)) = Len(list2) + 1
    BY <2>1, IdsGrow
  <2> QED
    BY <1>5, <2>1, <2>2, Zenon DEF list2
<1>7. /\ after \in NativeScenes
      /\ after[last].items = added
      /\ \A i \in 1..(last - 1) : after[i] = items[i]
      /\ DOMAIN after = DOMAIN items /\ \A i \in DOMAIN items : after[i].id = items[i].id
  <2> DEFINE T == [id : Nat, items : NativeItems]
             new2 == [items[last] EXCEPT !.items = added]
  <2>1. new2 \in T /\ new2.items = added /\ new2.id = items[last].id
    <3> HIDE DEF added
    <3> QED
      BY <1>4, <1>6
  <2>2. after = [items EXCEPT ![last] = new2]
    <3> HIDE DEF added
    <3> QED
      OBVIOUS
  <2>3. items \in Seq(T) /\ last = Len(items) /\ NativeScenes = Seq(T)
    BY DEF NativeScenes
  <2> HIDE DEF T, new2, after, added
  <2>4. /\ items \in [1..last -> T] /\ DOMAIN items = 1..last
        /\ after \in Seq(T) /\ after[last] = new2 /\ \A i \in 1..(last - 1) : after[i] = items[i]
        /\ DOMAIN after = DOMAIN items
    BY <1>3, <2>1, <2>2, <2>3, ExceptSeq
  <2>5. \A i \in 1..last : i \in 1..(last - 1) \/ i = last
    BY <1>3
  <2> QED
    BY <2>1, <2>3, <2>4, <2>5
<1>8. Restore!Ids(after) = Restore!Ids(items)
  <2> HIDE DEF after
  <2> QED
    BY <1>7 DEF Restore!Ids
<1>9. Gathered(itemsAt(items, nb), d.nodes[nb].items, heldAt(nb), ib)
  <2>1. nb \in held /\ nb < nb + 1 /\ upTo(nb, ib) = ib
    BY <1>1
  <2> HIDE DEF held, itemsAt, heldAt, upTo
  <2> QED
    BY <1>2, <2>1, Zenon
<1>10. itemsAt(items, nb) = Restore!Ids(items[last].items)
  BY <1>3, Zenon
<1>11. /\ Gathered(Append(itemsAt(items, nb), child1.id), d.nodes[nb].items, heldAt(nb), ib + 1)
       /\ Len(itemsAt(items, nb)) \in 0..(ib - 1)
  <2> HIDE DEF held, itemsAt, heldAt
  <2> QED
    BY <1>1, <1>9, GatheredMore, Zenon
<1>12. Len(added) \in 1..ib
  <2>1. ib \in Nat
    BY <1>1
  <2> HIDE DEF added, itemsAt, held
  <2> QED
    BY <1>6, <1>10, <1>11, <2>1
<1>13. itemsAt(after, nb) = Append(itemsAt(items, nb), child1.id)
  <2>1. itemsAt(after, nb) = Restore!Ids(added)
    <3> HIDE DEF after, added, held
    <3> QED
      BY <1>3, <1>7, Zenon
  <2> HIDE DEF after, added, held
  <2> QED
    BY <1>6, <1>10, <2>1
<1>14. \A n \in held : n < nb + 1 => n < nb \/ n = nb
  BY <1>1
<1>15. upTo(nb, ib + 1) = ib + 1 /\ \A n : n < nb => upTo(n, ib) = upTo(n, ib + 1)
  BY <1>1
<1>16. \A n \in held : n < nb => itemsAt(after, n) = itemsAt(items, n)
  <2> HIDE DEF after, held
  <2> QED
    BY <1>3, <1>7, Zenon
<1> HIDE DEF held, itemsAt, heldAt, upTo, child1, after
<1>17. ASSUME NEW n \in held, n < nb + 1
       PROVE  Gathered(itemsAt(after, n), d.nodes[n].items, heldAt(n), upTo(n, ib + 1))
  <2>1. CASE n < nb
    BY <1>2, <1>15, <1>16, <1>17, <2>1, Zenon
  <2>2. CASE n = nb
    BY <1>11, <1>13, <1>15, <2>2, Zenon
  <2> QED
    BY <1>14, <1>17, <2>1, <2>2, Zenon
<1>18. Placed(d, av, after, nb, ib + 1, nb + 1)
  BY <1>2, <1>8, <1>17, Zenon DEF Placed, held, itemsAt, heldAt, upTo
<1> QED
  BY <1>6, <1>7, <1>12, <1>18, Zenon DEF after, child1

LEMMA PlacedClose ==
    ASSUME NEW d \in Documents, NEW av, NEW items, NEW nb \in DOMAIN d.nodes,
           Placed(d, av, items, nb, Len(d.nodes[nb].items) + 1, nb + 1)
    PROVE  Placed(d, av, items, nb + 1, 1, nb + 1)
<1> DEFINE held == Held(d.nodes, AllAble(d, av))
           itemsAt(n) == Restore!Ids(items[Restore!Place(n, held)].items)
           heldAt(n) == Held(d.nodes[n].items, AllAble(d, av))
           upTo(n) == IF n < nb THEN Len(d.nodes[n].items) + 1 ELSE Len(d.nodes[nb].items) + 1
           then(n) == IF n < nb + 1 THEN Len(d.nodes[n].items) + 1 ELSE 1
<1>1. nb \in Nat /\ \A n \in held : n \in Nat
  BY NodesHave
<1>2. \A n \in held : n < nb + 1 => n < nb \/ n = nb
  BY <1>1
<1>3. \A n \in held : n < nb + 1 => then(n) = upTo(n)
  BY <1>2
<1>4. /\ Gathered(Restore!Ids(items), d.nodes, held, nb + 1)
      /\ \A n \in held : n < nb + 1 => Gathered(itemsAt(n), d.nodes[n].items, heldAt(n), upTo(n))
  BY Zenon DEF Placed
<1> HIDE DEF upTo, held, itemsAt, heldAt
<1>5. \A n \in held : n < nb + 1 => Gathered(itemsAt(n), d.nodes[n].items, heldAt(n), then(n))
  BY <1>3, <1>4, Zenon
<1> QED
  BY <1>4, <1>5, Zenon DEF Placed, held, itemsAt, heldAt

-----------------------------------------------------------------------------
(* The diagnostics *)

LEMMA ReportedFirst ==
    ASSUME NEW d \in Documents, NEW av, NEW go
    PROVE  Reported(d, av, go, 1, 1, 1, 1, 1) = {}
<1>1. \A n \in DOMAIN d.sources : n \in Nat /\ n > 0
  <2>1. Len(d.sources) \in Nat /\ DOMAIN d.sources = 1..Len(d.sources)
    BY DocumentIs, Zenon
  <2> QED
    BY <2>1
<1>2. \A n \in DOMAIN d.nodes : n \in Nat /\ n > 0
  BY NodesHave
<1>3. SourcesSkipped(d, av, 1) = {} /\ SourcesLacking(d, av, go, 1) = {} /\ NodesPassed(d, 1) = {}
  <2>1. \A n \in DOMAIN d.sources : ~(n < 1)
    BY <1>1
  <2>2. \A n \in DOMAIN d.nodes : ~(n < 1)
    BY <1>2
  <2> QED
    BY <2>1, <2>2 DEF SourcesSkipped, SourcesLacking, NodesPassed, Able
<1>4. ASSUME NEW outer \in SUBSET (Nat \ {0}), NEW lists,
             \A n \in outer : DOMAIN lists[n] \subseteq Nat \ {0}
      PROVE  Within(outer, lists, 1, 1) = {}
  <2>1. ASSUME NEW n \in outer, NEW i \in DOMAIN lists[n] PROVE ~(n < 1 \/ (n = 1 /\ i < 1))
    <3>1. n \in Nat \ {0} /\ i \in Nat \ {0}
      BY <1>4
    <3> QED
      BY <3>1
  <2> QED
    BY <2>1, Zenon DEF Within
<1>5. Within(Able(d.sources, av), FiltersOf(d), 1, 1) = {}
  <2>1. Able(d.sources, av) \in SUBSET (Nat \ {0})
    BY <1>1 DEF Able
  <2>2. \A n \in Able(d.sources, av) : DOMAIN FiltersOf(d)[n] \subseteq Nat \ {0}
    <3>1. \A n \in Able(d.sources, av) :
             Len(FiltersOf(d)[n]) \in Nat /\ DOMAIN FiltersOf(d)[n] = 1..Len(FiltersOf(d)[n])
      BY ListsAre, Zenon
    <3> QED
      BY <3>1
  <2> QED
    BY <1>4, <2>1, <2>2, Zenon
<1>6. Within(DOMAIN d.nodes, ItemsOf(d), 1, 1) = {}
  <2>1. DOMAIN d.nodes \in SUBSET (Nat \ {0})
    BY <1>2
  <2>2. \A n \in DOMAIN d.nodes : DOMAIN ItemsOf(d)[n] \subseteq Nat \ {0}
    <3>1. \A n \in DOMAIN d.nodes :
             Len(ItemsOf(d)[n]) \in Nat /\ DOMAIN ItemsOf(d)[n] = 1..Len(ItemsOf(d)[n])
      BY ListsAre, Zenon
    <3> QED
      BY <3>1
  <2> QED
    BY <1>4, <2>1, <2>2, Zenon
<1>7. FiltersSkipped({}, av) = {} /\ FiltersLacking({}, av, go) = {} /\ ItemsSkipped({},
                                                                                     AllAble(d, av)) = {}
  BY DEF FiltersSkipped, FiltersLacking, ItemsSkipped
<1>8. NodesPassed(d, 1) \cup Within(DOMAIN d.nodes, ItemsOf(d), 1, 1) = {}
  BY <1>3, <1>6
<1> QED
  BY <1>3, <1>5, <1>7, <1>8 DEF Reported

LEMMA ReportedSkip ==
    ASSUME NEW d \in Documents, NEW av, NEW go, NEW n \in DOMAIN d.sources, d.sources[n].plugin \notin av
    PROVE  Grows(Reported(d, av, go, n + 1, n + 1, 1, 1, 1), Reported(d, av, go, n, n, 1, 1, 1),
                 SkipReport("source plugin", d.sources[n]))
<1>1. /\ Grows(SourcesSkipped(d, av, n + 1), SourcesSkipped(d, av, n),
               SkipReport("source plugin", d.sources[n]))
      /\ SourcesLacking(d, av, go, n + 1) = SourcesLacking(d, av, go, n)
  BY SourcesGrow, Zenon
<1>2. Within(Able(d.sources, av), FiltersOf(d), n + 1, 1) = Within(Able(d.sources, av), FiltersOf(d), n, 1)
  <2>1. n \notin Able(d.sources, av)
    BY DEF Able
  <2>2. n \in Nat
    <3>1. Len(d.sources) \in Nat /\ DOMAIN d.sources = 1..Len(d.sources)
      BY DocumentIs, Zenon
    <3> QED
      BY <3>1
  <2>3. \A m \in Able(d.sources, av) : DOMAIN FiltersOf(d)[m] \subseteq Nat \ {0}
    <3>1. \A m \in Able(d.sources, av) :
             Len(FiltersOf(d)[m]) \in Nat /\ DOMAIN FiltersOf(d)[m] = 1..Len(FiltersOf(d)[m])
      BY ListsAre, Zenon
    <3> QED
      BY <3>1
  <2>4. Able(d.sources, av) \in SUBSET Nat
    BY ListsAre, Zenon
  <2> QED
    BY <2>1, <2>2, <2>3, <2>4, WithinPast, Zenon
<1> QED
  BY <1>1, <1>2 DEF Reported, Grows

LEMMA ReportedMade ==
    ASSUME NEW d \in Documents, NEW av, NEW go, NEW n \in DOMAIN d.sources, d.sources[n].plugin \in av
    PROVE  Grows(Reported(d, av, go, n, n + 1, 1, 1, 1), Reported(d, av, go, n, n, 1, 1, 1),
                 Findings(d.sources[n], go))
<1>1. Grows(SourcesLacking(d, av, go, n + 1), SourcesLacking(d, av, go, n), Findings(d.sources[n], go))
  BY SourcesGrow, Zenon
<1> QED
  BY <1>1 DEF Reported, Grows

LEMMA ReportedFilter ==
    ASSUME NEW d \in Documents, NEW av, NEW go, NEW n \in Able(d.sources, av),
           NEW fb \in DOMAIN d.sources[n].filters
    PROVE  LET f == d.sources[n].filters[fb]
           IN  /\ f.plugin \notin av =>
                      Grows(Reported(d, av, go, n, n + 1, fb + 1, 1, 1),
                            Reported(d, av, go, n, n + 1, fb, 1, 1), SkipReport("filter plugin", f))
               /\ f.plugin \in av =>
                      Grows(Reported(d, av, go, n, n + 1, fb + 1, 1, 1),
                            Reported(d, av, go, n, n + 1, fb, 1, 1), Findings(f, go))
<1> DEFINE f == d.sources[n].filters[fb]
           passed == Within(Able(d.sources, av), FiltersOf(d), n, fb)
           then == Within(Able(d.sources, av), FiltersOf(d), n, fb + 1)
<1>1. Adds(then, passed, f)
  <2>1. /\ Able(d.sources, av) \in SUBSET Nat
        /\ FiltersOf(d)[n] = d.sources[n].filters
        /\ \A m \in Able(d.sources, av) :
              Len(FiltersOf(d)[m]) \in Nat /\ DOMAIN FiltersOf(d)[m] = 1..Len(FiltersOf(d)[m])
    BY ListsAre, Zenon
  <2>2. \A m \in Able(d.sources, av) : DOMAIN FiltersOf(d)[m] \subseteq Nat
    BY <2>1
  <2>3. fb \in DOMAIN FiltersOf(d)[n] /\ FiltersOf(d)[n][fb] = f
    BY <2>1, Zenon
  <2>4. then = passed \cup {FiltersOf(d)[n][fb]}
    BY <2>1, <2>2, <2>3, WithinMore
  <2> QED
    BY <2>3, <2>4, Zenon DEF Adds
<1>2. /\ f.plugin \notin av =>
             /\ Grows(FiltersSkipped(then, av), FiltersSkipped(passed, av), SkipReport("filter plugin", f))
             /\ Grows(FiltersLacking(then, av, go), FiltersLacking(passed, av, go), {})
      /\ f.plugin \in av =>
             /\ Grows(FiltersSkipped(then, av), FiltersSkipped(passed, av), {})
             /\ Grows(FiltersLacking(then, av, go), FiltersLacking(passed, av, go), Findings(f, go))
  <2> HIDE DEF then, passed, f
  <2>1. ASSUME f.plugin \notin av
        PROVE  /\ Grows(FiltersSkipped(then, av), FiltersSkipped(passed, av),
                        SkipReport("filter plugin", f))
               /\ Grows(FiltersLacking(then, av, go), FiltersLacking(passed, av, go), {})
    <3>1. Grows(FiltersSkipped(then, av), FiltersSkipped(passed, av), SkipReport("filter plugin", f))
      BY <1>1, <2>1, FilterSkipGrows, Zenon
    <3>2. Grows(FiltersLacking(then, av, go), FiltersLacking(passed, av, go), {})
      BY <1>1, <2>1, FilterSkipGrows, Zenon
    <3> QED
      BY <3>1, <3>2
  <2>2. ASSUME f.plugin \in av
        PROVE  /\ Grows(FiltersSkipped(then, av), FiltersSkipped(passed, av), {})
               /\ Grows(FiltersLacking(then, av, go), FiltersLacking(passed, av, go), Findings(f, go))
    BY <1>1, <2>2, FilterGrows, Zenon
  <2> QED
    BY <2>1, <2>2, Zenon
<1>3. \A fb2 : Reported(d, av, go, n, n + 1, fb2, 1, 1)
          = SourcesSkipped(d, av, n) \cup SourcesLacking(d, av, go, n + 1)
            \cup FiltersSkipped(Within(Able(d.sources, av), FiltersOf(d), n, fb2), av)
            \cup FiltersLacking(Within(Able(d.sources, av), FiltersOf(d), n, fb2), av, go)
            \cup ItemsSkipped(NodesPassed(d, 1) \cup Within(DOMAIN d.nodes, ItemsOf(d), 1, 1),
                              AllAble(d, av))
  BY Zenon DEF Reported
<1>4. /\ Reported(d, av, go, n, n + 1, fb, 1, 1)
            = SourcesSkipped(d, av, n) \cup SourcesLacking(d, av, go, n + 1)
              \cup FiltersSkipped(passed, av) \cup FiltersLacking(passed, av, go)
              \cup ItemsSkipped(NodesPassed(d, 1) \cup Within(DOMAIN d.nodes, ItemsOf(d), 1, 1),
                                AllAble(d, av))
      /\ Reported(d, av, go, n, n + 1, fb + 1, 1, 1)
            = SourcesSkipped(d, av, n) \cup SourcesLacking(d, av, go, n + 1)
              \cup FiltersSkipped(then, av) \cup FiltersLacking(then, av, go)
              \cup ItemsSkipped(NodesPassed(d, 1) \cup Within(DOMAIN d.nodes, ItemsOf(d), 1, 1),
                                AllAble(d, av))
  BY <1>3, Zenon
<1> HIDE DEF then, passed, f
<1> QED
  BY <1>2, <1>4 DEF f, Grows

LEMMA ReportedDone ==
    ASSUME NEW d \in Documents, NEW av, NEW go, NEW n \in Able(d.sources, av)
    PROVE  Reported(d, av, go, n + 1, n + 1, 1, 1, 1)
               = Reported(d, av, go, n, n + 1, Len(d.sources[n].filters) + 1, 1, 1)
<1>1. Within(Able(d.sources, av), FiltersOf(d), n + 1, 1)
          = Within(Able(d.sources, av), FiltersOf(d), n, Len(d.sources[n].filters) + 1)
  <2>1. /\ Able(d.sources, av) \in SUBSET Nat
        /\ FiltersOf(d)[n] = d.sources[n].filters
        /\ \A m \in Able(d.sources, av) :
              Len(FiltersOf(d)[m]) \in Nat /\ DOMAIN FiltersOf(d)[m] = 1..Len(FiltersOf(d)[m])
    BY ListsAre, Zenon
  <2>2. Within(Able(d.sources, av), FiltersOf(d), n + 1, 1)
            = Within(Able(d.sources, av), FiltersOf(d), n, Len(FiltersOf(d)[n]) + 1)
    BY <2>1, WithinDone, Zenon
  <2> QED
    BY <2>1, <2>2, Zenon
<1>2. SourcesSkipped(d, av, n + 1) = SourcesSkipped(d, av, n)
  <2>1. n \in DOMAIN d.sources /\ d.sources[n].plugin \in av
    BY DEF Able
  <2>2. SourcesSkipped(d, av, n + 1)
          = SourcesSkipped(d, av, n)
    BY <2>1, SourcesGrow, Zenon
  <2> QED
    BY <2>2
<1> QED
  BY <1>1, <1>2, Zenon DEF Reported

LEMMA ReportedItem ==
    ASSUME NEW d \in Documents, NEW av, NEW go, NEW sb, NEW n \in DOMAIN d.nodes, d.nodes[n].items = <<>>
    PROVE  /\ n \in Held(d.nodes, AllAble(d, av)) =>
                  Reported(d, av, go, sb, sb, 1, n + 1, 1) = Reported(d, av, go, sb, sb, 1, n, 1)
           /\ n \notin Held(d.nodes, AllAble(d, av)) =>
                  Grows(Reported(d, av, go, sb, sb, 1, n + 1, 1), Reported(d, av, go, sb, sb, 1, n, 1),
                        SkipReport("item", d.nodes[n]))
<1> DEFINE below == Within(DOMAIN d.nodes, ItemsOf(d), n, 1)
           passed == NodesPassed(d, n) \cup below
           then == NodesPassed(d, n + 1) \cup Within(DOMAIN d.nodes, ItemsOf(d), n + 1, 1)
<1>1. Adds(then, passed, d.nodes[n])
  <2>1. NodesPassed(d, n + 1) = NodesPassed(d, n) \cup {d.nodes[n]}
    BY NodesGrow, Zenon
  <2>2. Within(DOMAIN d.nodes, ItemsOf(d), n + 1, 1) = below
    <3>1. /\ DOMAIN d.nodes \in SUBSET Nat /\ ItemsOf(d)[n] = <<>>
          /\ \A m \in DOMAIN d.nodes :
                Len(ItemsOf(d)[m]) \in Nat /\ DOMAIN ItemsOf(d)[m] = 1..Len(ItemsOf(d)[m])
      BY ListsAre, Zenon
    <3>2. n \in Nat /\ \A m \in DOMAIN d.nodes : DOMAIN ItemsOf(d)[m] \subseteq Nat \ {0}
      BY <3>1
    <3> QED
      BY <3>1, <3>2, WithinPast, Zenon
  <2> HIDE DEF below
  <2> QED
    BY <2>1, <2>2 DEF Adds
<1>2. /\ d.nodes[n].source \in AllAble(d, av) \/ d.nodes[n].source = "group" =>
             Grows(ItemsSkipped(then, AllAble(d, av)), ItemsSkipped(passed, AllAble(d, av)), {})
      /\ ~(d.nodes[n].source \in AllAble(d, av) \/ d.nodes[n].source = "group") =>
             Grows(ItemsSkipped(then, AllAble(d, av)), ItemsSkipped(passed, AllAble(d, av)),
                   SkipReport("item", d.nodes[n]))
  <2> HIDE DEF then, passed
  <2>1. ASSUME d.nodes[n].source \in AllAble(d, av) \/ d.nodes[n].source = "group"
        PROVE  Grows(ItemsSkipped(then, AllAble(d, av)), ItemsSkipped(passed, AllAble(d, av)), {})
    BY <1>1, <2>1, ItemsGrow, Zenon
  <2>2. ASSUME ~(d.nodes[n].source \in AllAble(d, av) \/ d.nodes[n].source = "group")
        PROVE  Grows(ItemsSkipped(then, AllAble(d, av)), ItemsSkipped(passed, AllAble(d, av)),
                     SkipReport("item", d.nodes[n]))
    BY <1>1, <2>2, ItemsGrow
  <2> QED
    BY <2>1, <2>2, Zenon
<1>3. n \in Held(d.nodes, AllAble(d, av)) <=> d.nodes[n].source \in AllAble(d,
                                                                            av) \/ d.nodes[n].source = "group"
  BY DEF Held
<1>4. /\ Reported(d, av, go, sb, sb, 1, n, 1)
            = SourcesSkipped(d, av, sb) \cup SourcesLacking(d, av, go, sb)
              \cup FiltersSkipped(Within(Able(d.sources, av), FiltersOf(d), sb, 1), av)
              \cup FiltersLacking(Within(Able(d.sources, av), FiltersOf(d), sb, 1), av, go)
              \cup ItemsSkipped(passed, AllAble(d, av))
      /\ Reported(d, av, go, sb, sb, 1, n + 1, 1)
            = SourcesSkipped(d, av, sb) \cup SourcesLacking(d, av, go, sb)
              \cup FiltersSkipped(Within(Able(d.sources, av), FiltersOf(d), sb, 1), av)
              \cup FiltersLacking(Within(Able(d.sources, av), FiltersOf(d), sb, 1), av, go)
              \cup ItemsSkipped(then, AllAble(d, av))
  BY Zenon DEF Reported
<1> HIDE DEF then, passed
<1> QED
  BY <1>2, <1>3, <1>4 DEF Grows

LEMMA ReportedChild ==
    ASSUME NEW d \in Documents, NEW av, NEW go, NEW sb, NEW n \in DOMAIN d.nodes,
           NEW ib \in DOMAIN d.nodes[n].items
    PROVE  /\ ib \in Held(d.nodes[n].items, AllAble(d, av)) =>
                  Reported(d, av, go, sb, sb, 1, n, ib + 1) = Reported(d, av, go, sb, sb, 1, n, ib)
           /\ ib \notin Held(d.nodes[n].items, AllAble(d, av)) =>
                  Grows(Reported(d, av, go, sb, sb, 1, n, ib + 1), Reported(d, av, go, sb, sb, 1, n, ib),
                        SkipReport("item", d.nodes[n].items[ib]))
<1> DEFINE child1 == d.nodes[n].items[ib]
           passed == NodesPassed(d, n) \cup Within(DOMAIN d.nodes, ItemsOf(d), n, ib)
           then == NodesPassed(d, n) \cup Within(DOMAIN d.nodes, ItemsOf(d), n, ib + 1)
<1>1. Adds(then, passed, child1)
  <2>1. /\ DOMAIN d.nodes \in SUBSET Nat /\ ItemsOf(d)[n] = d.nodes[n].items
        /\ \A m \in DOMAIN d.nodes :
              Len(ItemsOf(d)[m]) \in Nat /\ DOMAIN ItemsOf(d)[m] = 1..Len(ItemsOf(d)[m])
    BY ListsAre, Zenon
  <2>2. \A m \in DOMAIN d.nodes : DOMAIN ItemsOf(d)[m] \subseteq Nat
    BY <2>1
  <2>3. ib \in DOMAIN ItemsOf(d)[n] /\ ItemsOf(d)[n][ib] = child1
    BY <2>1, Zenon
  <2>4. Within(DOMAIN d.nodes, ItemsOf(d), n, ib + 1)
            = Within(DOMAIN d.nodes, ItemsOf(d), n, ib) \cup {ItemsOf(d)[n][ib]}
    BY <2>1, <2>2, <2>3, WithinMore
  <2> HIDE DEF child1
  <2> QED
    BY <2>3, <2>4 DEF Adds
<1>2. /\ child1.source \in AllAble(d, av) \/ child1.source = "group" =>
             Grows(ItemsSkipped(then, AllAble(d, av)), ItemsSkipped(passed, AllAble(d, av)), {})
      /\ ~(child1.source \in AllAble(d, av) \/ child1.source = "group") =>
             Grows(ItemsSkipped(then, AllAble(d, av)), ItemsSkipped(passed, AllAble(d, av)),
                   SkipReport("item", child1))
  <2> HIDE DEF then, passed, child1
  <2> QED
    BY <1>1, ItemsGrow
<1>3. ib \in Held(d.nodes[n].items, AllAble(d, av)) <=> child1.source \in AllAble(d,
                                                                                  av) \/ child1.source = "group"
  BY DEF Held
<1>4. /\ Reported(d, av, go, sb, sb, 1, n, ib)
            = SourcesSkipped(d, av, sb) \cup SourcesLacking(d, av, go, sb)
              \cup FiltersSkipped(Within(Able(d.sources, av), FiltersOf(d), sb, 1), av)
              \cup FiltersLacking(Within(Able(d.sources, av), FiltersOf(d), sb, 1), av, go)
              \cup ItemsSkipped(passed, AllAble(d, av))
      /\ Reported(d, av, go, sb, sb, 1, n, ib + 1)
            = SourcesSkipped(d, av, sb) \cup SourcesLacking(d, av, go, sb)
              \cup FiltersSkipped(Within(Able(d.sources, av), FiltersOf(d), sb, 1), av)
              \cup FiltersLacking(Within(Able(d.sources, av), FiltersOf(d), sb, 1), av, go)
              \cup ItemsSkipped(then, AllAble(d, av))
  BY Zenon DEF Reported
<1> HIDE DEF then, passed, child1
<1> QED
  BY <1>2, <1>3, <1>4 DEF child1, Grows

LEMMA ReportedClose ==
    ASSUME NEW d \in Documents, NEW av, NEW go, NEW sb, NEW n \in DOMAIN d.nodes,
           d.nodes[n].source = "group"
    PROVE  Reported(d, av, go, sb, sb, 1, n + 1, 1)
               = Reported(d, av, go, sb, sb, 1, n, Len(d.nodes[n].items) + 1)
<1> DEFINE below == Within(DOMAIN d.nodes, ItemsOf(d), n, Len(d.nodes[n].items) + 1)
           passed == NodesPassed(d, n) \cup below
           then == NodesPassed(d, n + 1) \cup Within(DOMAIN d.nodes, ItemsOf(d), n + 1, 1)
<1>1. Adds(then, passed, d.nodes[n])
  <2>1. NodesPassed(d, n + 1) = NodesPassed(d, n) \cup {d.nodes[n]}
    BY NodesGrow, Zenon
  <2>2. Within(DOMAIN d.nodes, ItemsOf(d), n + 1, 1) = below
    <3>1. /\ DOMAIN d.nodes \in SUBSET Nat /\ ItemsOf(d)[n] = d.nodes[n].items
          /\ \A m \in DOMAIN d.nodes :
                Len(ItemsOf(d)[m]) \in Nat /\ DOMAIN ItemsOf(d)[m] = 1..Len(ItemsOf(d)[m])
      BY ListsAre, Zenon
    <3>2. Within(DOMAIN d.nodes, ItemsOf(d), n + 1, 1)
              = Within(DOMAIN d.nodes, ItemsOf(d), n, Len(ItemsOf(d)[n]) + 1)
      BY <3>1, WithinDone, Zenon
    <3> QED
      BY <3>1, <3>2, Zenon
  <2> HIDE DEF below
  <2> QED
    BY <2>1, <2>2 DEF Adds
<1>2. Grows(ItemsSkipped(then, AllAble(d, av)), ItemsSkipped(passed, AllAble(d, av)), {})
  <2>1. d.nodes[n].source \in AllAble(d, av) \/ d.nodes[n].source = "group"
    OBVIOUS
  <2> HIDE DEF then, passed
  <2> QED
    BY <1>1, <2>1, ItemsGrow
<1> HIDE DEF then, passed
<1>3. ItemsSkipped(then, AllAble(d, av)) = ItemsSkipped(passed, AllAble(d, av))
  BY <1>2 DEF Grows
<1> QED
  BY <1>3, Zenon DEF Reported, then, passed

-----------------------------------------------------------------------------
(* What the properties of the restoration speak of *)

LEMMA RestoredParts ==
    /\ \A objects : Restore!Range(objects) = Elements(objects)
    /\ Restore!SavedSources = Elements(saved.sources)
    /\ Restore!SourceIds = {saved.sources[n].id : n \in DOMAIN saved.sources}
    /\ \A objects : Restore!Working(objects) = Able(objects, available)
    /\ Restore!Usable = {saved.sources[n] : n \in Able(saved.sources, available)}
    /\ Restore!UsableIds = AllAble(saved, available)
    /\ \A nodes : Restore!Kept(nodes) = Held(nodes, AllAble(saved, available))
<1>1. \A objects : Restore!Range(objects) = Elements(objects)
  BY DEF Restore!Range, Elements
<1>2. Restore!SavedSources = Elements(saved.sources)
  BY <1>1 DEF Restore!SavedSources
<1>3. Restore!SourceIds = {saved.sources[n].id : n \in DOMAIN saved.sources}
  BY <1>2 DEF Restore!SourceIds, Elements
<1>4. \A objects : Restore!Working(objects) = Able(objects, available)
  BY DEF Restore!Working, Able
<1>5. Restore!Usable = {saved.sources[n] : n \in Able(saved.sources, available)}
  BY <1>4 DEF Restore!Usable
<1>6. Restore!UsableIds = AllAble(saved, available)
  BY <1>5 DEF Restore!UsableIds, AllAble
<1>7. \A nodes : Restore!Kept(nodes) = Held(nodes, AllAble(saved, available))
  BY <1>6 DEF Restore!Kept, Held
<1> QED
  BY <1>1, <1>2, <1>3, <1>4, <1>5, <1>6, <1>7

(* Up to the end, everything is passed. *)
LEMMA WithinAll ==
    ASSUME NEW outer \in SUBSET Nat, NEW lists, NEW ob \in Nat, NEW ib, \A n \in outer : n < ob
    PROVE  \A x : x \in Within(outer, lists, ob, ib) <=> \E n \in outer : x \in Elements(lists[n])
<1>1. \A x : (\E n \in outer : x \in Elements(lists[n])) => x \in UNION {Elements(lists[n]) : n \in outer}
  OBVIOUS
<1>2. \A n, x : x \in Elements(lists[n]) => \E i \in DOMAIN lists[n] : x = lists[n][i]
  BY DEF Elements
<1>3. \A n, i : i \in DOMAIN lists[n] => lists[n][i] \in Elements(lists[n])
  BY DEF Elements
<1>4. ASSUME NEW x, NEW n \in outer, x \in Elements(lists[n]) PROVE x \in Within(outer, lists, ob, ib)
  <2>1. \E m \in outer : \E i \in DOMAIN lists[m] : (m < ob \/ (m = ob /\ i < ib)) /\ x = lists[m][i]
    <3>1. PICK i \in DOMAIN lists[n] : x = lists[n][i]
      BY <1>2, <1>4, Zenon
    <3> QED
      BY <3>1
  <2> QED
    BY <1>1, <1>4, <2>1, Zenon DEF Within
<1>5. ASSUME NEW x \in Within(outer, lists, ob, ib) PROVE \E n \in outer : x \in Elements(lists[n])
  BY <1>3, <1>5, Zenon DEF Within
<1> QED
  BY <1>4, <1>5, Zenon

LEMMA AllPassed ==
    ASSUME NEW d \in Documents, NEW av
    PROVE  /\ \A n \in DOMAIN d.sources : n < Len(d.sources) + 1
           /\ \A n \in DOMAIN d.nodes : n < Len(d.nodes) + 1
           /\ NodesPassed(d, Len(d.nodes) + 1) = Elements(d.nodes)
           /\ Within(Able(d.sources, av), FiltersOf(d), Len(d.sources) + 1, 1)
                  = UNION {Elements(d.sources[n].filters) : n \in Able(d.sources, av)}
           /\ Within(DOMAIN d.nodes, ItemsOf(d), Len(d.nodes) + 1, 1)
                  = UNION {Elements(d.nodes[n].items) : n \in DOMAIN d.nodes}
<1>1. /\ Len(d.sources) \in Nat /\ DOMAIN d.sources = 1..Len(d.sources)
      /\ Len(d.nodes) \in Nat /\ DOMAIN d.nodes = 1..Len(d.nodes)
  BY DocumentIs, Zenon
<1>2. /\ \A n \in DOMAIN d.sources : n < Len(d.sources) + 1
      /\ \A n \in DOMAIN d.nodes : n < Len(d.nodes) + 1
      /\ Len(d.sources) + 1 \in Nat /\ Len(d.nodes) + 1 \in Nat
  BY <1>1
<1>3. NodesPassed(d, Len(d.nodes) + 1) = Elements(d.nodes)
  BY <1>2 DEF NodesPassed, Elements
<1>4. /\ Able(d.sources, av) \in SUBSET Nat /\ DOMAIN d.nodes \in SUBSET Nat
      /\ \A n \in Able(d.sources, av) : FiltersOf(d)[n] = d.sources[n].filters
      /\ \A n \in DOMAIN d.nodes : ItemsOf(d)[n] = d.nodes[n].items
  BY ListsAre, Zenon
<1>5. Within(Able(d.sources, av), FiltersOf(d), Len(d.sources) + 1, 1)
          = UNION {Elements(d.sources[n].filters) : n \in Able(d.sources, av)}
  <2>1. \A n \in Able(d.sources, av) : n < Len(d.sources) + 1
    BY <1>2 DEF Able
  <2>2. \A x : x \in Within(Able(d.sources, av), FiltersOf(d), Len(d.sources) + 1, 1)
                  <=> \E n \in Able(d.sources, av) : x \in Elements(FiltersOf(d)[n])
    BY <1>2, <1>4, <2>1, WithinAll, Zenon
  <2> QED
    BY <1>4, <2>2
<1>6. Within(DOMAIN d.nodes, ItemsOf(d), Len(d.nodes) + 1, 1)
          = UNION {Elements(d.nodes[n].items) : n \in DOMAIN d.nodes}
  <2>1. \A x : x \in Within(DOMAIN d.nodes, ItemsOf(d), Len(d.nodes) + 1, 1)
                  <=> \E n \in DOMAIN d.nodes : x \in Elements(ItemsOf(d)[n])
    BY <1>2, <1>4, WithinAll, Zenon
  <2> QED
    BY <1>4, <2>1
<1> QED
  BY <1>2, <1>3, <1>5, <1>6

LEMMA AllReported ==
    ASSUME saved \in Documents,
           diagnostics = Reported(saved, available, gone, Len(saved.sources) + 1, Len(saved.sources) + 1, 1,
                                  Len(saved.nodes) + 1, 1)
    PROVE  Restore!SkippedAreReported
<1> DEFINE applied == UNION {Elements(saved.sources[n].filters) : n \in Able(saved.sources, available)}
           added == Elements(saved.nodes) \cup UNION {Elements(saved.nodes[n].items) : n \in DOMAIN saved.nodes}
           usable == {saved.sources[n] : n \in Able(saved.sources, available)}
           ids == AllAble(saved, available)
<1>1. diagnostics = SourcesSkipped(saved, available, Len(saved.sources) + 1)
                    \cup SourcesLacking(saved, available, gone, Len(saved.sources) + 1)
                    \cup FiltersSkipped(applied, available) \cup FiltersLacking(applied, available, gone)
                    \cup ItemsSkipped(added, ids)
  <2>1. /\ NodesPassed(saved, Len(saved.nodes) + 1) = Elements(saved.nodes)
        /\ Within(Able(saved.sources, available), FiltersOf(saved), Len(saved.sources) + 1, 1) = applied
        /\ Within(DOMAIN saved.nodes, ItemsOf(saved), Len(saved.nodes) + 1, 1)
               = UNION {Elements(saved.nodes[n].items) : n \in DOMAIN saved.nodes}
    BY AllPassed, Zenon
  <2> HIDE DEF applied, ids
  <2> QED
    BY <2>1 DEF Reported, ids
<1>2. /\ \A n \in DOMAIN saved.sources : n < Len(saved.sources) + 1
      /\ \A objects : Restore!Range(objects) = Elements(objects)
      /\ Restore!SavedSources = Elements(saved.sources)
      /\ \A objects : Restore!Working(objects) = Able(objects, available)
      /\ Restore!Usable = usable
      /\ Restore!UsableIds = ids
      /\ \A nodes : Restore!Kept(nodes) = Held(nodes, ids)
  BY AllPassed, RestoredParts, Zenon
<1>3. SourcesSkipped(saved, available, Len(saved.sources) + 1)
          = {<<"source plugin", s.id>> : s \in Elements(saved.sources) \ usable}
  BY <1>2 DEF SourcesSkipped, Elements, Able
<1>4. SourcesLacking(saved, available, gone, Len(saved.sources) + 1)
          = UNION {Findings(s, gone) : s \in usable}
  BY <1>2 DEF SourcesLacking, Able
<1>5. UNION {Restore!Range(s.filters) : s \in usable} = applied
  BY <1>2
<1>6. Restore!Restorable = usable \cup {f \in applied : f.plugin \in available}
  <2>1. \A s : Restore!UsableFilters(s) = {f \in Elements(s.filters) : f.plugin \in available}
    BY <1>2 DEF Restore!UsableFilters, Elements, Able
  <2>a. \A f : f \in applied <=> \E s \in usable : f \in Elements(s.filters)
    OBVIOUS
  <2>2. UNION {Restore!UsableFilters(s) : s \in usable} = {f \in applied : f.plugin \in available}
    <3> HIDE DEF usable, applied
    <3> QED
      BY <2>1, <2>a
  <2> HIDE DEF usable, applied
  <2> QED
    BY <1>2, <2>2 DEF Restore!Restorable
<1>7. \A s \in usable : s.plugin \in available
  BY DEF Able
<1>8. FiltersSkipped(applied, available) = {<<"filter plugin", f.id>> : f \in applied \ Restore!Restorable}
  <2> HIDE DEF usable, applied
  <2> QED
    BY <1>6, <1>7 DEF FiltersSkipped
<1> DEFINE found(o) == Findings(o, gone)
           files == UNION {found(s) : s \in usable}
           others == FiltersLacking(applied, available, gone)
           lacking == {<<"file", o.id>> : o \in {r \in Restore!Restorable : r.file \in gone}}
           secret == {<<"redacted", o.id>> : o \in {r \in Restore!Restorable : r.redacted}}
<1>9. files \cup others = lacking \cup secret
  <2> HIDE DEF usable, applied
  <2>1. \A x : x \in files <=> \E s \in usable : x \in found(s)
    <3> HIDE DEF found
    <3> QED
      BY Zenon
  <2>2. \A x : x \in others <=> \E f \in applied : f.plugin \in available /\ x \in found(f)
    <3>1. others = UNION {found(f) : f \in {g \in applied : g.plugin \in available}}
      BY DEF FiltersLacking
    <3> HIDE DEF found, others
    <3> QED
      BY <3>1
  <2>3. \A x : x \in lacking \cup secret <=> \E o \in Restore!Restorable : x \in found(o)
    BY DEF Findings, Restore!Redacted
  <2>4. \A o : o \in Restore!Restorable <=> o \in usable \/ (o \in applied /\ o.plugin \in available)
    BY <1>6
  <2> HIDE DEF found, files, others, lacking, secret
  <2>5. \A x : (\E o \in Restore!Restorable : x \in found(o))
                  <=> \/ \E s \in usable : x \in found(s)
                      \/ \E f \in applied : f.plugin \in available /\ x \in found(f)
    BY <2>4, Zenon
  <2>6. \A x : x \in files \cup others <=> x \in lacking \cup secret
    BY <2>1, <2>2, <2>3, <2>5
  <2> QED
    BY <2>6
<1>10. ItemsSkipped(added, ids)
           = {<<"item", i>> : i \in Restore!ItemsWithout(saved.nodes)
                                    \cup UNION {Restore!ItemsWithout(n.items) : n \in Elements(saved.nodes)}}
  <2>1. \A nodes : Restore!ItemsWithout(nodes)
                       = {x.id : x \in {y \in Elements(nodes) : y.source \notin ids \cup {"group"}}}
    BY <1>2 DEF Restore!ItemsWithout, Held, Elements
  <2>2. \A y : y \in added <=> \/ y \in Elements(saved.nodes)
                               \/ \E n \in Elements(saved.nodes) : y \in Elements(n.items)
    BY DEF Elements
  <2> DEFINE lost1(y) == y.source \notin ids \cup {"group"}
             without(nodes) == {x.id : x \in {y \in Elements(nodes) : lost1(y)}}
             all == without(saved.nodes) \cup UNION {without(n.items) : n \in Elements(saved.nodes)}
  <2>3. \A nodes, i : i \in without(nodes) <=> \E y \in Elements(nodes) : lost1(y) /\ i = y.id
    OBVIOUS
  <2>4. \A i : i \in all <=> \/ i \in without(saved.nodes)
                             \/ \E n \in Elements(saved.nodes) : i \in without(n.items)
    <3> HIDE DEF without
    <3> QED
      OBVIOUS
  <2>5. ItemsSkipped(added, ids) = {<<"item", y.id>> : y \in {x \in added : lost1(x)}}
    BY DEF ItemsSkipped
  <2>6. all = Restore!ItemsWithout(saved.nodes)
              \cup UNION {Restore!ItemsWithout(n.items) : n \in Elements(saved.nodes)}
    <3>1. \A nodes : Restore!ItemsWithout(nodes) = without(nodes)
      BY <2>1
    <3> HIDE DEF without
    <3> QED
      BY <3>1
  <2> HIDE DEF ids, added, lost1, without, all
  <2>7. \A i : i \in all <=> \E y \in added : lost1(y) /\ i = y.id
    <3>1. \A y : y \in added <=> \/ y \in Elements(saved.nodes)
                                 \/ \E n \in Elements(saved.nodes) : y \in Elements(n.items)
      BY <2>2 DEF added
    <3>2. ASSUME NEW i \in all PROVE \E y \in added : lost1(y) /\ i = y.id
      <4>1. CASE i \in without(saved.nodes)
        <5>1. PICK y \in Elements(saved.nodes) : lost1(y) /\ i = y.id
          BY <2>3, <4>1, Zenon
        <5> QED
          BY <3>1, <5>1, Zenon
      <4>2. CASE \E n \in Elements(saved.nodes) : i \in without(n.items)
        <5>1. PICK n \in Elements(saved.nodes) : i \in without(n.items)
          BY <4>2, Zenon
        <5>2. PICK y \in Elements(n.items) : lost1(y) /\ i = y.id
          BY <2>3, <5>1, Zenon
        <5> QED
          BY <3>1, <5>1, <5>2, Zenon
      <4> QED
        BY <2>4, <3>2, <4>1, <4>2, Zenon
    <3>3. ASSUME NEW y \in added, lost1(y) PROVE y.id \in all
      <4>1. CASE y \in Elements(saved.nodes)
        BY <2>3, <2>4, <3>3, <4>1, Zenon
      <4>2. CASE \E n \in Elements(saved.nodes) : y \in Elements(n.items)
        BY <2>3, <2>4, <3>3, <4>2, Zenon
      <4> QED
        BY <3>1, <3>3, <4>1, <4>2, Zenon
    <3> QED
      BY <3>2, <3>3, Zenon
  <2>8. \A x : x \in {<<"item", y.id>> : y \in {z \in added : lost1(z)}} <=> x \in {<<"item",
                                                                                      i>> : i \in all}
    <3>1. \A x : x \in {<<"item", y.id>> : y \in {z \in added : lost1(z)}}
                    <=> \E y \in added : lost1(y) /\ x = <<"item", y.id>>
      OBVIOUS
    <3>2. \A x : x \in {<<"item", i>> : i \in all} <=> \E i \in all : x = <<"item", i>>
      OBVIOUS
    <3> QED
      BY <2>7, <3>1, <3>2, Zenon
  <2>9. ItemsSkipped(added, ids) = {<<"item", i>> : i \in all}
    BY <2>5, <2>8, Zenon
  <2> QED
    BY <2>6, <2>9, Zenon
<1> DEFINE skipped == {<<"source plugin", s.id>> : s \in Elements(saved.sources) \ usable}
           unfiltered == {<<"filter plugin", f.id>> : f \in applied \ Restore!Restorable}
           left == {<<"item", i>> : i \in Restore!ItemsWithout(saved.nodes)
                                          \cup UNION {Restore!ItemsWithout(n.items) : n \in Elements(saved.nodes)}}
<1>11. diagnostics = skipped \cup unfiltered \cup lacking \cup secret \cup left
  <2>1. diagnostics = skipped \cup files \cup unfiltered \cup others \cup left
    <3> HIDE DEF skipped, unfiltered, others, left, found
    <3> QED
      BY <1>1, <1>3, <1>4, <1>8, <1>10 DEF skipped, unfiltered, others, left, found
  <2> HIDE DEF skipped, files, unfiltered, others, left, lacking, secret
  <2> QED
    BY <1>9, <2>1
<1>12. /\ skipped = {<<"source plugin", s.id>> : s \in Restore!SavedSources \ Restore!Usable}
       /\ unfiltered = {<<"filter plugin", f.id>> :
                           f \in (UNION {Restore!Range(s.filters) : s \in Restore!Usable}) \ Restore!Restorable}
       /\ left = {<<"item", i>> :
                     i \in Restore!ItemsWithout(saved.nodes)
                           \cup UNION {Restore!ItemsWithout(n.items) : n \in Restore!Range(saved.nodes)}}
  <2>1. Restore!SavedSources \ Restore!Usable = Elements(saved.sources) \ usable
    BY <1>2, Zenon
  <2>2. UNION {Restore!Range(s.filters) : s \in Restore!Usable} = applied
    <3> HIDE DEF applied, usable
    <3> QED
      BY <1>2, <1>5
  <2>3. {Restore!ItemsWithout(n.items) : n \in Restore!Range(saved.nodes)}
            = {Restore!ItemsWithout(n.items) : n \in Elements(saved.nodes)}
    BY <1>2
  <2>4. skipped = {<<"source plugin", s.id>> : s \in Restore!SavedSources \ Restore!Usable}
    <3> HIDE DEF usable
    <3> QED
      BY <2>1, Zenon
  <2>5. unfiltered = {<<"filter plugin", f.id>> :
                           f \in (UNION {Restore!Range(s.filters) : s \in Restore!Usable}) \ Restore!Restorable}
    <3> DEFINE all == UNION {Restore!Range(s.filters) : s \in Restore!Usable}
    <3>1. all = applied
      BY <2>2
    <3> HIDE DEF applied, all
    <3>2. unfiltered = {<<"filter plugin", f.id>> : f \in all \ Restore!Restorable}
      BY <3>1
    <3> QED
      BY <3>2, Zenon DEF all
  <2>6. left = {<<"item", i>> :
                     i \in Restore!ItemsWithout(saved.nodes)
                           \cup UNION {Restore!ItemsWithout(n.items) : n \in Restore!Range(saved.nodes)}}
    BY <2>3, Zenon
  <2> QED
    BY <2>4, <2>5, <2>6, Zenon
<1> HIDE DEF skipped, unfiltered, left, applied, usable, added, ids
<1> QED
  BY <1>11, <1>12, Zenon DEF Restore!SkippedAreReported

-----------------------------------------------------------------------------
(* The steps of the restoration *)

LEMMA PlacesAre ==
    ASSUME RestoreTypes
    PROVE  /\ Len(saved.sources) \in Nat /\ DOMAIN saved.sources = 1..Len(saved.sources)
           /\ Len(saved.nodes) \in Nat /\ DOMAIN saved.nodes = 1..Len(saved.nodes)
           /\ place \in Nat /\ place > 0 /\ child \in Nat /\ child > 0
           /\ place <= Len(saved.sources) => place \in DOMAIN saved.sources
           /\ place <= Len(saved.nodes) => place \in DOMAIN saved.nodes
<1>1. saved \in Documents /\ place \in 1..(1 + Len(saved.sources) + Len(saved.nodes)) /\ child \in Nat \ {0}
  BY DEF RestoreTypes, Places
<1>2. /\ Len(saved.sources) \in Nat /\ DOMAIN saved.sources = 1..Len(saved.sources)
      /\ Len(saved.nodes) \in Nat /\ DOMAIN saved.nodes = 1..Len(saved.nodes)
  BY <1>1, DocumentIs, Zenon
<1> QED
  BY <1>1, <1>2

(* A failure leaves all as it is. *)
LEMMA RestoreFails ==
    ASSUME RestoreInv, NEW why, Restore!Fail(why),
           why = "other" \/ (why = "missing" /\ scene = Restore!NoScene)
    PROVE  RestoreInv'
<1>1. /\ restorePc' = "failed" /\ failure' = why
      /\ UNCHANGED <<saved, strictly, available, gone, place, child, sources, filters, scene, diagnostics>>
  BY DEF Restore!Fail, Restore!given
<1>2. RestoreTypes'
  BY <1>1 DEF RestoreInv, RestoreTypes, Restore!SourceIds, Restore!SavedSources, Restore!Files,
     Restore!Kinds,
              HaveKinds, Places
<1>3. StrictSoFar'
  BY <1>1 DEF RestoreInv, StrictSoFar, Restore!NoScene
<1> QED
  BY <1>1, <1>2, <1>3 DEF RestoreInv

(* What keeps the types: the document and the machine stay as they are. *)
LEMMA RestoreTypesStay ==
    ASSUME RestoreTypes, UNCHANGED <<saved, strictly, available, gone, failure>>,
           restorePc' \in {"source", "filter", "node", "child", "restored", "failed"},
           place' \in Places(saved), child' \in Nat \ {0},
           sources' \subseteq Restore!SourceIds, DOMAIN filters' = Restore!SourceIds,
           scene' \in NativeScenes,
           HaveKinds(diagnostics')
    PROVE  RestoreTypes'
BY DEF RestoreTypes, Restore!SourceIds, Restore!SavedSources, Restore!Files, Restore!Kinds,
   HaveKinds,
   Places

(* A report has one of the kinds. *)
LEMMA SkipHasKind ==
    ASSUME NEW all, NEW then, NEW kind \in Restore!Kinds, NEW o, Grows(then, all, SkipReport(kind, o)),
           HaveKinds(all)
    PROVE  HaveKinds(then)
<1>1. \A d \in SkipReport(kind, o) : d[1] = kind
  BY DEF SkipReport
<1> QED
  BY <1>1 DEF Grows, HaveKinds

(* All that a strict restoration finds and goes on is what was redacted.   *)
LEMMA FindsOnlyRedacted ==
    ASSUME NEW all, NEW then, NEW o, NEW go, Grows(then, all, Findings(o, go)), o.file \notin go,
           OnlyRedacted(all)
    PROVE  OnlyRedacted(then)
<1>1. \A d \in Findings(o, go) : d[1] = "redacted"
  BY DEF Findings, Restore!Redacted
<1> QED
  BY <1>1 DEF Grows, OnlyRedacted

LEMMA FileHasKind ==
    ASSUME NEW all, NEW then, NEW o, NEW go, Grows(then, all, Findings(o, go)),
           HaveKinds(all)
    PROVE  HaveKinds(then)
<1>1. \A d \in Findings(o, go) : d[1] \in {"file", "redacted"}
  BY DEF Findings, Restore!Redacted
<1>2. {"file", "redacted"} \subseteq Restore!Kinds
  BY DEF Restore!Kinds
<1> QED
  BY <1>1, <1>2 DEF Grows, HaveKinds

(* The next source or node is one, or comes after the last. *)
LEMMA NextPlace ==
    ASSUME NEW d \in Documents, NEW p \in Nat, p > 0, p <= Len(d.sources) \/ p <= Len(d.nodes)
    PROVE  p + 1 \in Places(d)
<1>1. Len(d.sources) \in Nat /\ Len(d.nodes) \in Nat
  BY DocumentIs, Zenon
<1>2. \A m, n \in Nat : p <= m \/ p <= n => p + 1 \in 1..(1 + m + n)
  OBVIOUS
<1> QED
  BY <1>1, <1>2, Zenon DEF Places

LEMMA SkipSourceKeeps == ASSUME RestoreInv, Restore!SkipSource PROVE RestoreInv'
<1> DEFINE report1 == SkipReport("source plugin", saved.sources[place])
<1>1. /\ restorePc = "source" /\ place <= Len(saved.sources) /\ saved.sources[place].plugin \notin available
      /\ strictly => Restore!Fail("missing")
      /\ ~strictly => /\ Grows(diagnostics', diagnostics, report1) /\ place' = place + 1
                      /\ UNCHANGED <<saved, strictly, available, gone, restorePc, child, sources, filters,
                                     scene, failure>>
  BY DEF Restore!SkipSource, Restore!HasSource, Restore!Current, Restore!Report, Restore!given,
     SkipReport, Grows
<1> HIDE DEF report1
<1>2. RestoreTypes /\ StrictSoFar /\ AtSource
  BY <1>1 DEF RestoreInv
<1>3. CASE strictly
  BY <1>1, <1>2, <1>3, RestoreFails, Zenon DEF AtSource
<1>4. CASE ~strictly
  <2>1. /\ Grows(diagnostics', diagnostics, report1)
        /\ place' = place + 1 /\ restorePc' = "source" /\ ~strictly'
        /\ UNCHANGED <<saved, strictly, available, gone, child, sources, filters, scene, failure>>
    BY <1>1, <1>4
  <2>2. /\ place \in DOMAIN saved.sources /\ Len(saved.sources) \in Nat /\ Len(saved.nodes) \in Nat
        /\ place \in Nat /\ place > 0 /\ saved \in Documents
    BY <1>1, <1>2, PlacesAre DEF RestoreTypes
  <2>3. RestoreTypes'
    <3>1. HaveKinds(diagnostics')
      <4>1. "source plugin" \in Restore!Kinds /\ HaveKinds(diagnostics)
        BY <1>2 DEF Restore!Kinds, RestoreTypes
      <4> QED
        BY <2>1, <4>1, SkipHasKind, Zenon DEF report1
    <3>2. place' \in Places(saved)
      <4>1. place + 1 \in Places(saved)
        BY <1>1, <2>2, NextPlace, Zenon
      <4> QED
        BY <2>1, <4>1
    <3> QED
      BY <1>2, <2>1, <3>1, <3>2, RestoreTypesStay DEF RestoreTypes
  <2>4. AtSource'
    <3>1. place + 1 <= Len(saved.sources) + 1
      BY <1>1, <2>2
    <3>2. Back(saved, available, sources, filters, place + 1, 1)
      BY <1>1, <1>2, <2>2, BackSkip, Zenon DEF AtSource
    <3>3. diagnostics' = Reported(saved, available, gone, place + 1, place + 1, 1, 1, 1)
      <4>1. diagnostics = Reported(saved, available, gone, place, place, 1, 1, 1)
        BY <1>2 DEF AtSource
      <4>2. Grows(Reported(saved, available, gone, place + 1, place + 1, 1, 1, 1),
                  Reported(saved, available, gone, place, place, 1, 1, 1), report1)
        BY <1>1, <2>2, ReportedSkip, Zenon DEF report1
      <4> QED
        BY <2>1, <4>1, <4>2 DEF Grows
    <3>4. scene' = Restore!NoScene'
      BY <1>2, <2>1 DEF AtSource, Restore!NoScene
    <3> QED
      BY <2>1, <3>1, <3>2, <3>3, <3>4 DEF AtSource, Plugged
  <2>5. StrictSoFar'
    BY <2>1 DEF StrictSoFar
  <2>6. failure' = "none"
    BY <1>1, <2>1 DEF RestoreInv
  <2> QED
    BY <2>1, <2>3, <2>4, <2>5, <2>6 DEF RestoreInv
<1> QED
  BY <1>3, <1>4

LEMMA NativeFailsKeeps == ASSUME RestoreInv, Restore!NativeFails PROVE RestoreInv'
<1>1. Restore!Fail("other")
  BY DEF Restore!NativeFails
<1> QED
  BY <1>1, RestoreFails

LEMMA CreateSourceKeeps == ASSUME RestoreInv, Restore!CreateSource PROVE RestoreInv'
<1> DEFINE source == saved.sources[place]
<1>1. /\ restorePc = "source" /\ place <= Len(saved.sources) /\ source.plugin \in available
      /\ strictly /\ source.file \in gone => Restore!Fail("missing")
      /\ ~(strictly /\ source.file \in gone) =>
            /\ Grows(diagnostics', diagnostics,
                     Findings(source, gone)) /\ restorePc' = "filter" /\ child' = 1
            /\ UNCHANGED <<saved, strictly, available, gone, place, sources, filters, scene, failure>>
  BY DEF Restore!CreateSource, Restore!HasSource, Restore!Current, Restore!Inspect, Restore!Report,
         Restore!given, Restore!Missing, Findings, Grows
<1>2. RestoreTypes /\ StrictSoFar /\ AtSource
  BY <1>1 DEF RestoreInv
<1>3. CASE strictly /\ source.file \in gone
  BY <1>1, <1>2, <1>3, RestoreFails, Zenon DEF AtSource
<1>4. CASE ~(strictly /\ source.file \in gone)
  <2>1. /\ Grows(diagnostics', diagnostics, Findings(source, gone)) /\ restorePc' = "filter" /\ child' = 1
        /\ UNCHANGED <<saved, strictly, available, gone, place, sources, filters, scene, failure>>
    BY <1>1, <1>4
  <2>2. /\ place \in Able(saved.sources, available) /\ place \in DOMAIN saved.sources /\ saved \in Documents
        /\ Len(source.filters) \in Nat
    <3>1. place \in DOMAIN saved.sources /\ saved \in Documents
      BY <1>1, <1>2, PlacesAre DEF RestoreTypes
    <3> QED
      BY <1>1, <3>1, FiltersHave DEF Able
  <2>3. RestoreTypes'
    <3>1. HaveKinds(diagnostics')
      BY <1>2, <2>1, FileHasKind, Zenon DEF RestoreTypes
    <3>2. child' \in Nat \ {0}
      BY <2>1
    <3> QED
      BY <1>2, <2>1, <3>1, <3>2, RestoreTypesStay DEF RestoreTypes
  <2>4. AtFilter'
    <3>1. diagnostics' = Reported(saved, available, gone, place, place + 1, 1, 1, 1)
      <4>1. diagnostics = Reported(saved, available, gone, place, place, 1, 1, 1)
        BY <1>2 DEF AtSource
      <4>2. Grows(Reported(saved, available, gone, place, place + 1, 1, 1, 1),
                  Reported(saved, available, gone, place, place, 1, 1, 1), Findings(source, gone))
        BY <1>1, <2>2, ReportedMade, Zenon
      <4> QED
        BY <2>1, <4>1, <4>2 DEF Grows
    <3>2. scene' = Restore!NoScene'
      BY <1>2, <2>1 DEF AtSource, Restore!NoScene
    <3> QED
      BY <1>2, <2>1, <2>2, <3>1, <3>2 DEF AtSource, AtFilter, Plugged
  <2>5. StrictSoFar'
    <3>1. strictly => OnlyRedacted(diagnostics')
      BY <1>2, <1>4, <2>1, FindsOnlyRedacted, Zenon DEF StrictSoFar
    <3> QED
      BY <1>2, <2>1, <3>1 DEF StrictSoFar, Restore!NoScene
  <2>6. failure' = "none"
    BY <1>1, <1>2, <2>1 DEF RestoreInv
  <2> QED
    BY <2>1, <2>3, <2>4, <2>5, <2>6 DEF RestoreInv
<1> QED
  BY <1>3, <1>4

LEMMA SkipFilterKeeps == ASSUME RestoreInv, Restore!SkipFilter PROVE RestoreInv'
<1> DEFINE filter == saved.sources[place].filters[child]
           report1 == SkipReport("filter plugin", filter)
<1>1. /\ restorePc = "filter" /\ child <= Len(saved.sources[place].filters) /\ filter.plugin \notin available
      /\ strictly => Restore!Fail("missing")
      /\ ~strictly => /\ Grows(diagnostics', diagnostics, report1) /\ child' = child + 1
                      /\ UNCHANGED <<saved, strictly, available, gone, restorePc, place, sources, filters,
                                     scene, failure>>
  BY DEF Restore!SkipFilter, Restore!HasFilter, Restore!Filter, Restore!Current, Restore!Report,
         Restore!given, SkipReport, Grows
<1> HIDE DEF report1
<1>2. RestoreTypes /\ StrictSoFar /\ AtFilter
  BY <1>1 DEF RestoreInv
<1>3. CASE strictly
  BY <1>1, <1>2, <1>3, RestoreFails, Zenon DEF AtFilter
<1>4. CASE ~strictly
  <2>1. /\ Grows(diagnostics', diagnostics, report1)
        /\ child' = child + 1 /\ restorePc' = "filter" /\ ~strictly'
        /\ UNCHANGED <<saved, strictly, available, gone, place, sources, filters, scene, failure>>
    BY <1>1, <1>4
  <2>2. /\ place \in Able(saved.sources, available) /\ saved \in Documents
        /\ child \in Nat /\ child > 0 /\ child <= Len(saved.sources[place].filters)
        /\ Len(saved.sources[place].filters) \in Nat /\ child \in DOMAIN saved.sources[place].filters
    <3>1. place \in Able(saved.sources, available) /\ place \in DOMAIN saved.sources /\ saved \in Documents
      BY <1>2 DEF RestoreTypes, AtFilter, Able
    <3>2. /\ Len(saved.sources[place].filters) \in Nat
          /\ DOMAIN saved.sources[place].filters = 1..Len(saved.sources[place].filters)
      BY <3>1, FiltersHave, Zenon
    <3>3. child \in Nat /\ child > 0
      BY <1>2, PlacesAre
    <3> QED
      BY <1>1, <3>1, <3>2, <3>3
  <2>3. RestoreTypes'
    <3>1. HaveKinds(diagnostics')
      <4>1. "filter plugin" \in Restore!Kinds /\ HaveKinds(diagnostics)
        BY <1>2 DEF Restore!Kinds, RestoreTypes
      <4> QED
        <5>1. Grows(diagnostics', diagnostics, SkipReport("filter plugin", filter))
          BY <2>1 DEF report1
        <5> HIDE DEF filter
        <5> QED
          BY <4>1, <5>1, SkipHasKind, Zenon
    <3>2. child' \in Nat \ {0}
      BY <2>1, <2>2
    <3> QED
      BY <1>2, <2>1, <3>1, <3>2, RestoreTypesStay DEF RestoreTypes
  <2>4. AtFilter'
    <3>1. child + 1 <= Len(saved.sources[place].filters) + 1
      BY <2>2
    <3>2. Back(saved, available, sources, filters, place, child + 1)
      BY <1>1, <1>2, <2>2, BackPast, Zenon DEF AtFilter
    <3>3. diagnostics' = Reported(saved, available, gone, place, place + 1, child + 1, 1, 1)
      <4>1. diagnostics = Reported(saved, available, gone, place, place + 1, child, 1, 1)
        BY <1>2 DEF AtFilter
      <4>2. Grows(Reported(saved, available, gone, place, place + 1, child + 1, 1, 1),
                  Reported(saved, available, gone, place, place + 1, child, 1, 1), report1)
        BY <1>1, <2>2, ReportedFilter, Zenon DEF report1
      <4> QED
        BY <2>1, <4>1, <4>2 DEF Grows
    <3>4. scene' = Restore!NoScene'
      BY <1>2, <2>1 DEF AtFilter, Restore!NoScene
    <3> QED
      BY <2>1, <2>2, <3>1, <3>2, <3>3, <3>4 DEF AtFilter, Plugged
  <2>5. StrictSoFar'
    BY <2>1 DEF StrictSoFar
  <2>6. failure' = "none"
    BY <1>1, <2>1 DEF RestoreInv
  <2> QED
    BY <2>1, <2>3, <2>4, <2>5, <2>6 DEF RestoreInv
<1> QED
  BY <1>3, <1>4

LEMMA ApplyFilterKeeps == ASSUME RestoreInv, Restore!ApplyFilter PROVE RestoreInv'
<1> DEFINE source == saved.sources[place]
           filter == source.filters[child]
           applied == [filters EXCEPT ![source.id] = Append(@, filter.id)]
<1>1. /\ restorePc = "filter" /\ child <= Len(source.filters) /\ filter.plugin \in available
      /\ strictly /\ filter.file \in gone => Restore!Fail("missing")
      /\ ~(strictly /\ filter.file \in gone) =>
            /\ Grows(diagnostics', diagnostics, Findings(filter, gone)) /\ child' = child + 1
            /\ filters' = applied
            /\ UNCHANGED <<saved, strictly, available, gone, restorePc, place, sources, scene, failure>>
  BY DEF Restore!ApplyFilter, Restore!HasFilter, Restore!Filter, Restore!Current, Restore!Inspect,
         Restore!Report, Restore!given, Restore!Missing, Findings, Grows
<1>2. RestoreTypes /\ StrictSoFar /\ AtFilter
  BY <1>1 DEF RestoreInv
<1> HIDE DEF applied
<1>3. CASE strictly /\ filter.file \in gone
  BY <1>1, <1>2, <1>3, RestoreFails, Zenon DEF AtFilter
<1>4. CASE ~(strictly /\ filter.file \in gone)
  <2>1. /\ Grows(diagnostics', diagnostics, Findings(filter, gone)) /\ child' = child + 1
        /\ filters' = applied /\ restorePc' = "filter"
        /\ UNCHANGED <<saved, strictly, available, gone, place, sources, scene, failure>>
    BY <1>1, <1>4
  <2>2. /\ place \in Able(saved.sources, available) /\ saved \in Documents
        /\ child \in Nat /\ child > 0 /\ child <= Len(source.filters) /\ Len(source.filters) \in Nat
        /\ child \in DOMAIN source.filters /\ child \in Able(source.filters, available)
        /\ source.id \in DOMAIN filters
    <3>1. place \in Able(saved.sources, available) /\ place \in DOMAIN saved.sources /\ saved \in Documents
      BY <1>2 DEF RestoreTypes, AtFilter, Able
    <3>2. Len(source.filters) \in Nat /\ DOMAIN source.filters = 1..Len(source.filters)
      BY <3>1, FiltersHave, Zenon
    <3>3. child \in Nat /\ child > 0
      BY <1>2, PlacesAre
    <3>4. child \in DOMAIN source.filters
      BY <1>1, <3>2, <3>3
    <3>5. child \in Able(source.filters, available)
      BY <1>1, <3>4 DEF Able
    <3>6. source.id \in DOMAIN filters
      BY <1>2, <3>1, RestoredParts DEF RestoreTypes
    <3> QED
      BY <1>1, <3>1, <3>2, <3>3, <3>4, <3>5, <3>6
  <2>3. RestoreTypes'
    <3>1. HaveKinds(diagnostics')
      BY <1>2, <2>1, FileHasKind, Zenon DEF RestoreTypes
    <3>2. child' \in Nat \ {0}
      BY <2>1, <2>2
    <3>3. DOMAIN filters' = Restore!SourceIds
      BY <1>2, <2>1 DEF RestoreTypes, applied
    <3> QED
      BY <1>2, <2>1, <3>1, <3>2, <3>3, RestoreTypesStay DEF RestoreTypes
  <2>4. AtFilter'
    <3>1. child + 1 <= Len(source.filters) + 1
      BY <2>2
    <3>2. Back(saved, available, sources, applied, place, child + 1)
      BY <1>2, <2>2, BackApply, Zenon DEF AtFilter, applied
    <3>3. diagnostics' = Reported(saved, available, gone, place, place + 1, child + 1, 1, 1)
      <4>1. diagnostics = Reported(saved, available, gone, place, place + 1, child, 1, 1)
        BY <1>2 DEF AtFilter
      <4>2. Grows(Reported(saved, available, gone, place, place + 1, child + 1, 1, 1),
                  Reported(saved, available, gone, place, place + 1, child, 1, 1), Findings(filter, gone))
        BY <1>1, <2>2, ReportedFilter, Zenon
      <4> QED
        BY <2>1, <4>1, <4>2 DEF Grows
    <3>4. scene' = Restore!NoScene' /\ Plugged(place)
      BY <1>2, <2>1 DEF AtFilter, Restore!NoScene
    <3> QED
      BY <2>1, <2>2, <3>1, <3>2, <3>3, <3>4 DEF AtFilter, Plugged
  <2>5. StrictSoFar'
    <3>1. strictly => OnlyRedacted(diagnostics')
      BY <1>2, <1>4, <2>1, FindsOnlyRedacted, Zenon DEF StrictSoFar
    <3> QED
      BY <1>2, <2>1, <3>1 DEF StrictSoFar, Restore!NoScene
  <2>6. failure' = "none"
    BY <1>1, <1>2, <2>1 DEF RestoreInv
  <2> QED
    BY <2>1, <2>3, <2>4, <2>5, <2>6 DEF RestoreInv
<1> QED
  BY <1>3, <1>4

LEMMA SourceDoneKeeps == ASSUME RestoreInv, Restore!SourceDone PROVE RestoreInv'
<1> DEFINE source == saved.sources[place]
<1>1. /\ restorePc = "filter" /\ child > Len(source.filters)
      /\ sources' = sources \cup {source.id} /\ restorePc' = "source" /\ place' = place + 1
      /\ UNCHANGED <<saved, strictly, available, gone, child, filters, scene, failure, diagnostics>>
  BY DEF Restore!SourceDone, Restore!Current, Restore!given
<1>2. RestoreTypes /\ StrictSoFar /\ AtFilter
  BY <1>1 DEF RestoreInv
<1>3. /\ place \in Able(saved.sources, available) /\ saved \in Documents /\ place \in DOMAIN saved.sources
      /\ place \in Nat /\ place > 0 /\ place <= Len(saved.sources) /\ Len(saved.sources) \in Nat
      /\ child = Len(source.filters) + 1 /\ source.id \in Restore!SourceIds
  <2>1. place \in Able(saved.sources, available) /\ place \in DOMAIN saved.sources /\ saved \in Documents
    BY <1>2 DEF RestoreTypes, AtFilter, Able
  <2>2. Len(source.filters) \in Nat
    BY <2>1, FiltersHave, Zenon
  <2>3. child \in Nat /\ child <= Len(source.filters) + 1
    BY <1>2, PlacesAre DEF AtFilter
  <2>4. child = Len(source.filters) + 1
    BY <1>1, <2>2, <2>3
  <2>5. Len(saved.sources) \in Nat /\ DOMAIN saved.sources = 1..Len(saved.sources)
    BY <1>2, PlacesAre
  <2>6. source.id \in Restore!SourceIds
    BY <2>1, RestoredParts
  <2> QED
    BY <2>1, <2>4, <2>5, <2>6
<1>4. RestoreTypes'
  <2>1. place + 1 \in Places(saved)
    BY <1>3, NextPlace, Zenon
  <2>2. sources' \subseteq Restore!SourceIds
    BY <1>1, <1>2, <1>3 DEF RestoreTypes
  <2> QED
    BY <1>1, <1>2, <2>1, <2>2, RestoreTypesStay DEF RestoreTypes
<1>5. AtSource'
  <2>1. place + 1 <= Len(saved.sources) + 1
    BY <1>3
  <2>2. Back(saved, available, sources', filters, place + 1, 1)
    BY <1>1, <1>2, <1>3, BackDone, Zenon DEF AtFilter
  <2>3. diagnostics = Reported(saved, available, gone, place + 1, place + 1, 1, 1, 1)
    BY <1>2, <1>3, ReportedDone DEF AtFilter
  <2>4. scene' = Restore!NoScene'
    BY <1>1, <1>2 DEF AtFilter, Restore!NoScene
  <2>5. \A n \in DOMAIN saved.sources : n < place + 1 => n < place \/ n = place
    BY <1>2, <1>3, PlacesAre
  <2>6. Plugged(place + 1)
    BY <1>2, <1>3, <2>5 DEF AtFilter, Plugged, Able
  <2> QED
    BY <1>1, <2>1, <2>2, <2>3, <2>4, <2>6 DEF AtSource, Plugged
<1>6. StrictSoFar'
  BY <1>1, <1>2 DEF StrictSoFar, Restore!NoScene
<1>7. failure' = "none"
  BY <1>1 DEF RestoreInv
<1> QED
  BY <1>1, <1>4, <1>5, <1>6, <1>7 DEF RestoreInv

(* The node that is next. *)
LEMMA NodeHere ==
    ASSUME RestoreTypes, place <= Len(saved.nodes)
    PROVE  /\ saved \in Documents /\ place \in DOMAIN saved.nodes /\ place \in Nat /\ place > 0
           /\ Len(saved.nodes) \in Nat /\ place + 1 <= Len(saved.nodes) + 1 /\ place + 1 \in Places(saved)
           /\ saved.nodes[place].id \in Nat
           /\ saved.nodes[place].order \in Nat /\ saved.nodes[place].order >= place - 1
           /\ Len(saved.nodes[place].items) \in Nat
           /\ DOMAIN saved.nodes[place].items = 1..Len(saved.nodes[place].items)
           /\ \A i \in DOMAIN saved.nodes[place].items :
                 LET item == saved.nodes[place].items[i]
                 IN  item.id \in Nat /\ item.order \in Nat /\ item.order >= i - 1
<1>1. saved \in Documents
  BY DEF RestoreTypes
<1>2. place \in DOMAIN saved.nodes /\ place \in Nat /\ place > 0 /\ Len(saved.nodes) \in Nat
  BY PlacesAre
<1>3. place + 1 \in Places(saved)
  BY <1>1, <1>2, NextPlace, Zenon
<1>4. place + 1 <= Len(saved.nodes) + 1
  BY <1>2
<1> QED
  BY <1>1, <1>2, <1>3, <1>4, DocumentIs, Zenon

(* The sources that a scene's items can be of. *)
LEMMA SourcesAre == ASSUME saved \in Documents, AllBack PROVE sources = AllAble(saved, available)
<1>1. \A n \in DOMAIN saved.sources : n < Len(saved.sources) + 1
  BY AllPassed, Zenon
<1>2. sources = AbleIds(saved, available, Len(saved.sources) + 1)
  BY DEF AllBack, Back, End
<1>3. {n \in Able(saved.sources, available) : n < Len(saved.sources) + 1} = Able(saved.sources, available)
  BY <1>1, Zenon DEF Able
<1> QED
  BY <1>2, <1>3, Zenon DEF AbleIds, AllAble

(* A strict restoration has all of them. *)
LEMMA StrictHasAll ==
    ASSUME saved \in Documents, AllBack, strictly
    PROVE  /\ \A n \in DOMAIN saved.sources : saved.sources[n].id \in sources
           /\ \A n \in DOMAIN saved.nodes :
                 /\ saved.nodes[n].source = "group" \/ saved.nodes[n].source \in sources
                 /\ \A i \in DOMAIN saved.nodes[n].items : saved.nodes[n].items[i].source \in sources
<1>1. \A n \in DOMAIN saved.sources : n < Len(saved.sources) + 1
  BY AllPassed, Zenon
<1>2. \A n \in DOMAIN saved.sources : saved.sources[n].plugin \in available
  BY <1>1 DEF AllBack, Plugged, End
<1>3. \A n \in DOMAIN saved.sources : saved.sources[n].id \in sources
  BY <1>2, SourcesAre DEF AllAble, Able
<1>4. /\ \A n \in DOMAIN saved.nodes :
            /\ \/ saved.nodes[n].source = "group"
               \/ saved.nodes[n].source \in {saved.sources[i].id : i \in DOMAIN saved.sources}
            /\ \A i \in DOMAIN saved.nodes[n].items :
                  saved.nodes[n].items[i].source \in {saved.sources[m].id : m \in DOMAIN saved.sources}
  BY DocumentIs, Zenon
<1> QED
  BY <1>3, <1>4

LEMMA CreateSceneKeeps == ASSUME RestoreInv, Restore!CreateScene PROVE RestoreInv'
<1>1. /\ restorePc = "source" /\ place > Len(saved.sources)
      /\ scene' = <<>> /\ restorePc' = "node" /\ place' = 1
      /\ UNCHANGED <<saved, strictly, available, gone, child, sources, filters, failure, diagnostics>>
  BY DEF Restore!CreateScene, Restore!given
<1>2. RestoreTypes /\ StrictSoFar /\ AtSource /\ failure = "none" /\ saved \in Documents
  BY <1>1 DEF RestoreInv, RestoreTypes
<1>3. place = End /\ Len(saved.nodes) \in Nat /\ Len(saved.sources) \in Nat
  BY <1>1, <1>2, PlacesAre DEF AtSource, End
<1>4. RestoreTypes'
  <2>1. 1 \in Places(saved)
    <3>1. \A m, n \in Nat : 1 \in 1..(1 + m + n)
      OBVIOUS
    <3> QED
      BY <1>3, <3>1, Zenon DEF Places
  <2>2. <<>> \in NativeScenes
    BY DEF NativeScenes
  <2> QED
    BY <1>1, <1>2, <2>1, <2>2, RestoreTypesStay DEF RestoreTypes
<1>5. AtNode'
  <2>1. 1 <= Len(saved.nodes) + 1
    BY <1>3
  <2>2. AllBack /\ Told1(1, 1)
    BY <1>2, <1>3 DEF AtSource, AllBack, Told1
  <2>3. Placed(saved, available, <<>>, 1, 1, 1)
    BY <1>2, PlacedFirst
  <2> QED
    BY <1>1, <2>1, <2>2, <2>3 DEF AtNode, AllBack, Told1, Plugged, End
<1>6. StrictSoFar'
  BY <1>1, <1>2 DEF StrictSoFar
<1> QED
  BY <1>1, <1>2, <1>4, <1>5, <1>6 DEF RestoreInv

LEMMA SkipItemKeeps == ASSUME RestoreInv, Restore!SkipItem PROVE RestoreInv'
<1> DEFINE node == saved.nodes[place]
           report1 == SkipReport("item", node)
<1>1. /\ restorePc = "node" /\ place <= Len(saved.nodes) /\ node.source # "group" /\ node.source \notin sources
      /\ ~strictly => /\ Grows(diagnostics', diagnostics, report1) /\ place' = place + 1
                      /\ UNCHANGED <<saved, strictly, available, gone, restorePc, child, sources, filters,
                                     scene, failure>>
  BY DEF Restore!SkipItem, Restore!HasNode, Restore!Node, Restore!IsGroup, Restore!Report,
     Restore!given,
         SkipReport, Grows
<1>2. RestoreTypes /\ StrictSoFar /\ AtNode /\ failure = "none"
  BY <1>1 DEF RestoreInv
<1>3. /\ saved \in Documents /\ place \in DOMAIN saved.nodes /\ place + 1 <= Len(saved.nodes) + 1
      /\ place + 1 \in Places(saved)
  BY <1>1, <1>2, NodeHere, Zenon
<1>4. ~strictly
  BY <1>1, <1>2, <1>3, StrictHasAll DEF AtNode
<1>5. node.items = <<>> /\ place \notin Held(saved.nodes, AllAble(saved, available))
  <2>1. sources = AllAble(saved, available)
    BY <1>2, <1>3, SourcesAre DEF AtNode
  <2>2. node.items = <<>>
    BY <1>1, <1>3, DocumentIs, Zenon
  <2> QED
    BY <1>1, <2>1, <2>2 DEF Held
<1>6. /\ Grows(diagnostics', diagnostics, report1) /\ place' = place + 1 /\ restorePc' = "node"
      /\ UNCHANGED <<saved, strictly, available, gone, child, sources, filters, scene, failure>>
  BY <1>1, <1>4
<1>7. Told1(place, 1) /\ AllBack /\ Placed(saved, available, scene, place, 1, place)
  BY <1>2 DEF AtNode
<1>8. HaveKinds(diagnostics')
  <2>1. "item" \in Restore!Kinds /\ HaveKinds(diagnostics)
    BY <1>2 DEF Restore!Kinds, RestoreTypes
  <2>2. Grows(diagnostics', diagnostics, SkipReport("item", node))
    BY <1>6
  <2> HIDE DEF node
  <2> QED
    BY <2>1, <2>2, SkipHasKind, Zenon
<1> HIDE DEF report1
<1>9. RestoreTypes'
  BY <1>2, <1>3, <1>6, <1>8, RestoreTypesStay DEF RestoreTypes
<1>10. AtNode'
  <2>1. Placed(saved, available, scene, place + 1, 1, place + 1)
    BY <1>3, <1>5, <1>7, PlacedSkip, Zenon
  <2>2. diagnostics' = Reported(saved, available, gone, End, End, 1, place + 1, 1)
    <3>1. Grows(Reported(saved, available, gone, End, End, 1, place + 1, 1),
                Reported(saved, available, gone, End, End, 1, place, 1), report1)
      BY <1>3, <1>5, ReportedItem, Zenon DEF report1
    <3> QED
      BY <1>6, <1>7, <3>1 DEF Grows, Told1
  <2> QED
    BY <1>3, <1>6, <1>7, <2>1, <2>2 DEF AtNode, AllBack, Told1, Plugged, End
<1>11. StrictSoFar'
  BY <1>4, <1>6 DEF StrictSoFar
<1> QED
  BY <1>2, <1>6, <1>9, <1>10, <1>11 DEF RestoreInv

LEMMA AddItemKeeps == ASSUME RestoreInv, Restore!AddItem PROVE RestoreInv'
<1> DEFINE node == saved.nodes[place]
           items == Append(scene, [id |-> node.id, items |-> <<>>])
<1>1. /\ restorePc = "node" /\ place <= Len(saved.nodes) /\ node.source # "group" /\ node.source \in sources
      /\ scene' = Restore!PlaceLast(items, node.order) /\ place' = place + 1
      /\ UNCHANGED <<saved, strictly, available, gone, restorePc, child, sources, filters, failure,
                     diagnostics>>
  BY DEF Restore!AddItem, Restore!HasNode, Restore!Node, Restore!IsGroup, Restore!given
<1>2. RestoreTypes /\ StrictSoFar /\ AtNode /\ failure = "none"
  BY <1>1 DEF RestoreInv
<1>3. /\ saved \in Documents /\ place \in DOMAIN saved.nodes /\ place + 1 <= Len(saved.nodes) + 1
      /\ place + 1 \in Places(saved) /\ place \in Nat /\ place > 0
      /\ node.id \in Nat /\ node.order \in Nat /\ node.order >= place - 1
  BY <1>1, <1>2, NodeHere, Zenon
<1>4. node.items = <<>> /\ place \in Held(saved.nodes, AllAble(saved, available))
  <2>1. sources = AllAble(saved, available)
    BY <1>2, <1>3, SourcesAre DEF AtNode
  <2>2. node.items = <<>>
    BY <1>1, <1>3, DocumentIs, Zenon
  <2> QED
    BY <1>1, <1>3, <2>1, <2>2 DEF Held
<1>5. /\ Told1(place, 1) /\ AllBack /\ Placed(saved, available, scene, place, 1, place)
      /\ scene \in NativeScenes
  BY <1>2 DEF AtNode, RestoreTypes
<1>6. items \in NativeScenes /\ Placed(saved, available, items, place, 1, place + 1)
  BY <1>3, <1>4, <1>5, PlacedOpen, Zenon
<1>7. scene' = items
  <2>1. Len(scene) \in 0..(place - 1)
    BY <1>3, <1>4, <1>5, PlacedCount, Zenon
  <2>2. /\ Len(items) = Len(scene) + 1 /\ items # <<>>
    <3> DEFINE S == [id : Nat, items : NativeItems]
               x == [id |-> node.id, items |-> <<>>]
    <3>1. scene \in Seq(S) /\ x \in S
      <4>1. <<>> \in NativeItems
        BY DEF NativeItems
      <4> QED
        BY <1>3, <1>5, <4>1 DEF NativeScenes
    <3>2. items = Append(scene, x)
      OBVIOUS
    <3> HIDE DEF S, x, items
    <3>3. Len(Append(scene, x)) = Len(scene) + 1 /\ Append(scene, x) # <<>>
      BY <3>1, AppendProperties, Zenon
    <3> QED
      BY <3>2, <3>3
  <2>3. node.order >= Len(items) - 1
    <3> DEFINE m == Len(scene)
               n == Len(items)
               order == node.order
    <3>1. m \in 0..(place - 1) /\ n = m + 1 /\ place \in Nat /\ order \in Nat /\ order >= place - 1
      BY <1>3, <2>1, <2>2
    <3> HIDE DEF m, n, order
    <3>2. order >= n - 1
      BY <3>1
    <3> QED
      BY <3>2 DEF n, order
  <2> HIDE DEF items
  <2>4. Restore!PlaceLast(items, node.order) = items
    BY <1>3, <1>6, <2>2, <2>3, PlacedLast, Zenon DEF NativeScenes
  <2> QED
    BY <1>1, <2>4
<1> HIDE DEF items
<1>8. RestoreTypes'
  BY <1>1, <1>2, <1>3, <1>6, <1>7, RestoreTypesStay DEF RestoreTypes
<1>9. AtNode'
  <2>1. Placed(saved, available, items, place + 1, 1, place + 1)
    <3>1. Len(node.items) + 1 = 1
      BY <1>4
    <3>2. Placed(saved, available, items, place, Len(node.items) + 1, place + 1)
      BY <1>6, <3>1
    <3> QED
      BY <1>3, <3>2, PlacedClose, Zenon
  <2>2. Told1(place + 1, 1)
    BY <1>3, <1>4, <1>5, ReportedItem DEF Told1
  <2> QED
    BY <1>1, <1>3, <1>5, <1>7, <2>1, <2>2 DEF AtNode, AllBack, Told1, Plugged, End
<1>10. StrictSoFar'
  BY <1>1, <1>2 DEF StrictSoFar
<1> QED
  BY <1>1, <1>2, <1>8, <1>9, <1>10 DEF RestoreInv

LEMMA CreateGroupKeeps == ASSUME RestoreInv, Restore!CreateGroup PROVE RestoreInv'
<1> DEFINE node == saved.nodes[place]
           items == Append(scene, [id |-> node.id, items |-> <<>>])
<1>1. /\ restorePc = "node" /\ place <= Len(saved.nodes) /\ node.source = "group"
      /\ scene' = items /\ restorePc' = "child" /\ child' = 1
      /\ UNCHANGED <<saved, strictly, available, gone, place, sources, filters, failure, diagnostics>>
  BY DEF Restore!CreateGroup, Restore!HasNode, Restore!Node, Restore!IsGroup, Restore!given
<1>2. RestoreTypes /\ StrictSoFar /\ AtNode /\ failure = "none"
  BY <1>1 DEF RestoreInv
<1>3. saved \in Documents /\ place \in DOMAIN saved.nodes /\ Len(node.items) \in Nat
  BY <1>1, <1>2, NodeHere, Zenon
<1>4. place \in Held(saved.nodes, AllAble(saved, available))
  BY <1>1, <1>3 DEF Held
<1>5. /\ Told1(place, 1) /\ AllBack /\ Placed(saved, available, scene, place, 1, place)
      /\ scene \in NativeScenes
  BY <1>2 DEF AtNode, RestoreTypes
<1>6. items \in NativeScenes /\ Placed(saved, available, items, place, 1, place + 1)
  BY <1>3, <1>4, <1>5, PlacedOpen, Zenon
<1> HIDE DEF items
<1>7. RestoreTypes'
  <2>1. child' \in Nat \ {0}
    BY <1>1
  <2> QED
    BY <1>1, <1>2, <1>6, <2>1, RestoreTypesStay DEF RestoreTypes
<1>8. AtChild'
  <2>1. 1 <= Len(node.items) + 1
    BY <1>3
  <2> QED
    BY <1>1, <1>4, <1>5, <1>6, <2>1 DEF AtChild, AllBack, Told1, Plugged, End
<1>9. StrictSoFar'
  BY <1>1, <1>2 DEF StrictSoFar
<1> QED
  BY <1>1, <1>2, <1>7, <1>8, <1>9 DEF RestoreInv

LEMMA SkipChildKeeps == ASSUME RestoreInv, Restore!SkipChild PROVE RestoreInv'
<1> DEFINE node == saved.nodes[place]
           report1 == SkipReport("item", node.items[child])
<1>1. /\ restorePc = "child" /\ child <= Len(node.items) /\ node.items[child].source \notin sources
      /\ ~strictly => /\ Grows(diagnostics', diagnostics, report1) /\ child' = child + 1
                      /\ UNCHANGED <<saved, strictly, available, gone, restorePc, place, sources, filters,
                                     scene, failure>>
  BY DEF Restore!SkipChild, Restore!HasChild, Restore!Node, Restore!Report, Restore!given,
     SkipReport, Grows
<1>2. RestoreTypes /\ StrictSoFar /\ AtChild /\ failure = "none"
  BY <1>1 DEF RestoreInv
<1>3. /\ saved \in Documents /\ place \in DOMAIN saved.nodes /\ node.source = "group"
      /\ Len(node.items) \in Nat /\ DOMAIN node.items = 1..Len(node.items) /\ child \in Nat /\ child > 0
      /\ place \in Held(saved.nodes, AllAble(saved, available))
  <2>1. place <= Len(saved.nodes) /\ node.source = "group"
    BY <1>2 DEF AtChild
  <2>2. place \in Held(saved.nodes, AllAble(saved, available))
    BY <1>2 DEF AtChild
  <2>3. child \in Nat /\ child > 0
    BY <1>2, PlacesAre
  <2> QED
    BY <1>2, <2>1, <2>2, <2>3, NodeHere, Zenon
<1>4. child \in DOMAIN node.items /\ child + 1 <= Len(node.items) + 1 /\ child + 1 \in Nat \ {0}
  <2> DEFINE n == Len(node.items)
             all == DOMAIN node.items
  <2>1. all = 1..n /\ n \in Nat /\ child \in Nat /\ child > 0 /\ child <= n
    BY <1>1, <1>3
  <2> HIDE DEF n, all
  <2>2. child \in all /\ child + 1 <= n + 1 /\ child + 1 \in Nat \ {0}
    BY <2>1
  <2> QED
    BY <2>2 DEF n, all
<1>5. ~strictly
  BY <1>1, <1>2, <1>3, <1>4, StrictHasAll DEF AtChild
<1>6. child \notin Held(node.items, AllAble(saved, available))
  <2>1. sources = AllAble(saved, available)
    BY <1>2, <1>3, SourcesAre DEF AtChild
  <2>2. node.items[child].source # "group"
    <3>1. /\ "group" \notin {saved.sources[m].id : m \in DOMAIN saved.sources}
          /\ node.items[child].source \in {saved.sources[m].id : m \in DOMAIN saved.sources}
      BY <1>3, <1>4, DocumentIs, Zenon
    <3> QED
      BY <3>1
  <2> QED
    BY <1>1, <2>1, <2>2 DEF Held
<1>7. /\ Grows(diagnostics', diagnostics, report1) /\ child' = child + 1 /\ restorePc' = "child"
      /\ UNCHANGED <<saved, strictly, available, gone, place, sources, filters, scene, failure>>
  BY <1>1, <1>5
<1>8. Told1(place, child) /\ AllBack /\ Placed(saved, available, scene, place, child, place + 1)
  BY <1>2 DEF AtChild
<1>9. HaveKinds(diagnostics')
  <2>1. "item" \in Restore!Kinds /\ HaveKinds(diagnostics)
    BY <1>2 DEF Restore!Kinds, RestoreTypes
  <2> DEFINE item == node.items[child]
  <2>2. Grows(diagnostics', diagnostics, SkipReport("item", item))
    BY <1>7
  <2> HIDE DEF item
  <2> QED
    BY <2>1, <2>2, SkipHasKind, Zenon
<1> HIDE DEF report1
<1>10. RestoreTypes'
  BY <1>2, <1>4, <1>7, <1>9, RestoreTypesStay DEF RestoreTypes
<1>11. AtChild'
  <2>1. Placed(saved, available, scene, place, child + 1, place + 1)
    BY <1>3, <1>4, <1>6, <1>8, PlacedPast, Zenon
  <2>2. diagnostics' = Reported(saved, available, gone, End, End, 1, place, child + 1)
    <3>1. Grows(Reported(saved, available, gone, End, End, 1, place, child + 1),
                Reported(saved, available, gone, End, End, 1, place, child), report1)
      BY <1>3, <1>4, <1>6, ReportedChild, Zenon DEF report1
    <3> QED
      BY <1>7, <1>8, <3>1 DEF Grows, Told1
  <2>3. place <= Len(saved.nodes)
    BY <1>2 DEF AtChild
  <2> QED
    BY <1>3, <1>4, <1>7, <1>8, <2>1, <2>2, <2>3 DEF AtChild, AllBack, Told1, Plugged, End
<1>12. StrictSoFar'
  BY <1>5, <1>7 DEF StrictSoFar
<1> QED
  BY <1>2, <1>7, <1>10, <1>11, <1>12 DEF RestoreInv

LEMMA AddChildKeeps == ASSUME RestoreInv, Restore!AddChild PROVE RestoreInv'
<1> DEFINE node == saved.nodes[place]
           item == node.items[child]
           added == Append(scene[Len(scene)].items, [id |-> item.id])
           after == [scene EXCEPT ![Len(scene)].items = added]
<1>1. /\ restorePc = "child" /\ child <= Len(node.items) /\ item.source \in sources
      /\ scene' = [scene EXCEPT ![Len(scene)].items = Restore!PlaceLast(added, item.order)]
      /\ child' = child + 1
      /\ UNCHANGED <<saved, strictly, available, gone, restorePc, place, sources, filters, failure,
                     diagnostics>>
  BY DEF Restore!AddChild, Restore!HasChild, Restore!Node, Restore!given
<1>2. RestoreTypes /\ StrictSoFar /\ AtChild /\ failure = "none"
  BY <1>1 DEF RestoreInv
<1>3. /\ saved \in Documents /\ place \in DOMAIN saved.nodes
      /\ Len(node.items) \in Nat /\ DOMAIN node.items = 1..Len(node.items) /\ child \in Nat /\ child > 0
      /\ place \in Held(saved.nodes, AllAble(saved, available))
  <2>1. place <= Len(saved.nodes)
    BY <1>2 DEF AtChild
  <2>2. place \in Held(saved.nodes, AllAble(saved, available))
    BY <1>2 DEF AtChild
  <2>3. child \in Nat /\ child > 0
    BY <1>2, PlacesAre
  <2> QED
    BY <1>2, <2>1, <2>2, <2>3, NodeHere, Zenon
<1>4. child \in DOMAIN node.items /\ child + 1 <= Len(node.items) + 1 /\ child + 1 \in Nat \ {0}
  <2> DEFINE n == Len(node.items)
             all == DOMAIN node.items
  <2>1. all = 1..n /\ n \in Nat /\ child \in Nat /\ child > 0 /\ child <= n
    BY <1>1, <1>3
  <2> HIDE DEF n, all
  <2>2. child \in all /\ child + 1 <= n + 1 /\ child + 1 \in Nat \ {0}
    BY <2>1
  <2> QED
    BY <2>2 DEF n, all
<1>5. item.id \in Nat /\ item.order \in Nat /\ item.order >= child - 1
  <2>1. place <= Len(saved.nodes)
    BY <1>2 DEF AtChild
  <2> QED
    BY <1>2, <1>4, <2>1, NodeHere, Zenon
<1>6. child \in Held(node.items, AllAble(saved, available))
  <2>1. sources = AllAble(saved, available)
    BY <1>2, <1>3, SourcesAre DEF AtChild
  <2> QED
    BY <1>1, <1>4, <2>1 DEF Held
<1>7. /\ Told1(place, child) /\ AllBack /\ Placed(saved, available, scene, place, child, place + 1)
      /\ scene \in NativeScenes
  BY <1>2 DEF AtChild, RestoreTypes
<1>8. /\ Placed(saved, available, after, place, child + 1, place + 1) /\ after \in NativeScenes
      /\ added \in NativeItems /\ added # <<>> /\ Len(added) \in 1..child
  BY <1>3, <1>5, <1>6, <1>7, PlacedAdd, Zenon
<1>9. scene' = after
  <2>1. item.order >= Len(added) - 1
    <3> DEFINE n == Len(added)
               order == item.order
    <3>1. n \in 1..child /\ child \in Nat /\ order \in Nat /\ order >= child - 1
      BY <1>3, <1>5, <1>8
    <3> HIDE DEF n, order
    <3>2. order >= n - 1
      BY <3>1
    <3> QED
      BY <3>2 DEF n, order
  <2> HIDE DEF added, item
  <2>2. Restore!PlaceLast(added, item.order) = added
    BY <1>5, <1>8, <2>1, PlacedLast, Zenon DEF NativeItems
  <2> QED
    BY <1>1, <2>2
<1> HIDE DEF after, added, item
<1>10. RestoreTypes'
  BY <1>1, <1>2, <1>4, <1>8, <1>9, RestoreTypesStay DEF RestoreTypes
<1>11. AtChild'
  <2>1. Told1(place, child + 1)
    <3>1. Reported(saved, available, gone, End, End, 1, place, child + 1)
              = Reported(saved, available, gone, End, End, 1, place, child)
      <4> HIDE DEF node
      <4>1. saved \in Documents /\ place \in DOMAIN saved.nodes
        BY <1>3
      <4>2. child \in DOMAIN saved.nodes[place].items
        BY <1>4 DEF node
      <4>3. child \in Held(saved.nodes[place].items, AllAble(saved, available))
        BY <1>6 DEF node
      <4> QED
        BY <4>1, <4>2, <4>3, ReportedChild
    <3> QED
      BY <1>7, <3>1 DEF Told1
  <2>2. place <= Len(saved.nodes) /\ node.source = "group"
    BY <1>2 DEF AtChild
  <2> QED
    BY <1>1, <1>3, <1>4, <1>7, <1>8, <1>9, <2>1, <2>2 DEF AtChild, AllBack, Told1, Plugged, End
<1>12. StrictSoFar'
  BY <1>1, <1>2 DEF StrictSoFar
<1> QED
  BY <1>1, <1>2, <1>10, <1>11, <1>12 DEF RestoreInv

LEMMA GroupDoneKeeps == ASSUME RestoreInv, Restore!GroupDone PROVE RestoreInv'
<1> DEFINE node == saved.nodes[place]
<1>1. /\ restorePc = "child" /\ child > Len(node.items)
      /\ scene' = Restore!PlaceLast(scene, node.order) /\ restorePc' = "node" /\ place' = place + 1
      /\ UNCHANGED <<saved, strictly, available, gone, child, sources, filters, failure, diagnostics>>
  BY DEF Restore!GroupDone, Restore!Node, Restore!given
<1>2. RestoreTypes /\ StrictSoFar /\ AtChild /\ failure = "none"
  BY <1>1 DEF RestoreInv
<1>3. /\ saved \in Documents /\ place \in DOMAIN saved.nodes /\ node.source = "group"
      /\ place \in Nat /\ place > 0 /\ place + 1 <= Len(saved.nodes) + 1 /\ place + 1 \in Places(saved)
      /\ node.order \in Nat /\ node.order >= place - 1 /\ Len(node.items) \in Nat
      /\ place \in Held(saved.nodes, AllAble(saved, available))
  <2>1. /\ place <= Len(saved.nodes) /\ node.source = "group"
        /\ place \in Held(saved.nodes, AllAble(saved, available))
    BY <1>2 DEF AtChild
  <2> QED
    BY <1>2, <2>1, NodeHere, Zenon
<1>4. child = Len(node.items) + 1
  <2> DEFINE n == Len(node.items)
  <2>1. child \in Nat /\ n \in Nat /\ child > n /\ child <= n + 1
    BY <1>1, <1>2, <1>3, PlacesAre DEF AtChild
  <2> HIDE DEF n
  <2>2. child = n + 1
    BY <2>1
  <2> QED
    BY <2>2 DEF n
<1>5. /\ Told1(place, child) /\ AllBack /\ Placed(saved, available, scene, place, child, place + 1)
      /\ scene \in NativeScenes
  BY <1>2 DEF AtChild, RestoreTypes
<1>6. scene' = scene
  <2>1. Len(scene) \in 1..place
    BY <1>3, <1>5, PlacedCount, Zenon
  <2>2. scene # <<>>
    BY <2>1
  <2>3. node.order >= Len(scene) - 1
    <3> DEFINE n == Len(scene)
               order == node.order
    <3>1. n \in 1..place /\ place \in Nat /\ order \in Nat /\ order >= place - 1
      BY <1>3, <2>1
    <3> HIDE DEF n, order
    <3>2. order >= n - 1
      BY <3>1
    <3> QED
      BY <3>2 DEF n, order
  <2>4. Restore!PlaceLast(scene, node.order) = scene
    BY <1>3, <1>5, <2>2, <2>3, PlacedLast, Zenon DEF NativeScenes
  <2> QED
    BY <1>1, <2>4
<1>7. RestoreTypes'
  BY <1>1, <1>2, <1>3, <1>6, RestoreTypesStay DEF RestoreTypes
<1>8. AtNode'
  <2>1. Placed(saved, available, scene, place + 1, 1, place + 1)
    BY <1>3, <1>4, <1>5, PlacedClose
  <2>2. Told1(place + 1, 1)
    BY <1>3, <1>4, <1>5, ReportedClose DEF Told1
  <2> QED
    BY <1>1, <1>3, <1>5, <1>6, <2>1, <2>2 DEF AtNode, AllBack, Told1, Plugged, End
<1>9. StrictSoFar'
  BY <1>1, <1>2 DEF StrictSoFar
<1> QED
  BY <1>1, <1>2, <1>7, <1>8, <1>9 DEF RestoreInv

LEMMA FinishKeeps == ASSUME RestoreInv, Restore!Finish PROVE RestoreInv'
<1>1. /\ restorePc = "node" /\ place > Len(saved.nodes) /\ restorePc' = "restored"
      /\ UNCHANGED <<saved, strictly, available, gone, place, child, sources, filters, scene, failure,
                     diagnostics>>
  BY DEF Restore!Finish, Restore!given
<1>2. RestoreTypes /\ StrictSoFar /\ AtNode /\ failure = "none"
  BY <1>1 DEF RestoreInv
<1>3. place = Len(saved.nodes) + 1
  BY <1>1, <1>2, PlacesAre DEF AtNode
<1>4. RestoreTypes'
  BY <1>1, <1>2, RestoreTypesStay DEF RestoreTypes
<1>5. AtEnd'
  BY <1>1, <1>2, <1>3 DEF AtNode, AtEnd, AllBack, Told1, Plugged, End
<1>6. StrictSoFar'
  BY <1>1, <1>2 DEF StrictSoFar
<1> QED
  BY <1>1, <1>2, <1>4, <1>5, <1>6 DEF RestoreInv

LEMMA RestoreFirst == ASSUME Restore!Init PROVE RestoreInv
<1>1. /\ saved \in Documents /\ strictly \in BOOLEAN /\ available \subseteq Plugins /\ gone \subseteq Restore!Files
      /\ restorePc = "source" /\ place = 1 /\ child = 1
      /\ sources = {} /\ filters = [id \in Restore!SourceIds |-> <<>>]
      /\ scene = Restore!NoScene /\ failure = "none" /\ diagnostics = {}
  BY DEF Restore!Init
<1>2. Len(saved.sources) \in Nat /\ Len(saved.nodes) \in Nat
  BY <1>1, DocumentIs, Zenon
<1>3. RestoreTypes
  <2>1. 1 \in Places(saved)
    <3>1. \A m, n \in Nat : 1 \in 1..(1 + m + n)
      OBVIOUS
    <3> QED
      BY <1>2, <3>1, Zenon DEF Places
  <2>2. Restore!NoScene \in NativeScenes
    BY DEF NativeScenes, NativeItems, Restore!NoScene
  <2> QED
    BY <1>1, <2>1, <2>2 DEF RestoreTypes, HaveKinds
<1>4. AtSource
  <2>1. 1 <= Len(saved.sources) + 1
    BY <1>2
  <2>2. Back(saved, available, {}, filters, 1, 1)
    <3>1. \A n \in DOMAIN saved.sources : filters[saved.sources[n].id] = <<>>
      BY <1>1, RestoredParts
    <3> QED
      BY <1>1, <3>1, BackFirst
  <2>3. diagnostics = Reported(saved, available, gone, 1, 1, 1, 1, 1)
    BY <1>1, ReportedFirst
  <2>4. \A n \in DOMAIN saved.sources : ~(n < 1)
    BY <1>1, DocumentIs
  <2> QED
    BY <1>1, <2>1, <2>2, <2>3, <2>4 DEF AtSource, Plugged
<1>5. StrictSoFar
  BY <1>1 DEF StrictSoFar, OnlyRedacted
<1> QED
  BY <1>1, <1>3, <1>4, <1>5 DEF RestoreInv

LEMMA RestoreStep == ASSUME RestoreInv, [Restore!Next]_(Restore!vars) PROVE RestoreInv'
<1>1. CASE Restore!NativeFails
  BY <1>1, NativeFailsKeeps
<1>2. CASE Restore!SkipSource
  BY <1>2, SkipSourceKeeps
<1>3. CASE Restore!CreateSource
  BY <1>3, CreateSourceKeeps
<1>4. CASE Restore!SkipFilter
  BY <1>4, SkipFilterKeeps
<1>5. CASE Restore!ApplyFilter
  BY <1>5, ApplyFilterKeeps
<1>6. CASE Restore!SourceDone
  BY <1>6, SourceDoneKeeps
<1>7. CASE Restore!CreateScene
  BY <1>7, CreateSceneKeeps
<1>8. CASE Restore!SkipItem
  BY <1>8, SkipItemKeeps
<1>9. CASE Restore!AddItem
  BY <1>9, AddItemKeeps
<1>10. CASE Restore!CreateGroup
  BY <1>10, CreateGroupKeeps
<1>11. CASE Restore!SkipChild
  BY <1>11, SkipChildKeeps
<1>12. CASE Restore!AddChild
  BY <1>12, AddChildKeeps
<1>13. CASE Restore!GroupDone
  BY <1>13, GroupDoneKeeps
<1>14. CASE Restore!Finish
  BY <1>14, FinishKeeps
<1>15. CASE UNCHANGED Restore!vars
  <2>1. UNCHANGED <<saved, strictly, available, gone, restorePc, place, child, sources, filters, scene,
                    failure,
                    diagnostics>>
    BY <1>15 DEF Restore!vars
  <2>2. RestoreTypes'
    BY <2>1, RestoreTypesStay DEF RestoreInv, RestoreTypes
  <2>3. StrictSoFar'
    BY <2>1 DEF RestoreInv, StrictSoFar, Restore!NoScene
  <2>4. AtSource => AtSource'
    BY <2>1 DEF AtSource, Plugged, Restore!NoScene
  <2>5. AtFilter => AtFilter'
    BY <2>1 DEF AtFilter, Plugged, Restore!NoScene
  <2>6. AtNode => AtNode'
    BY <2>1 DEF AtNode, AllBack, Told1, Plugged, End
  <2>7. AtChild => AtChild'
    BY <2>1 DEF AtChild, AllBack, Told1, Plugged, End
  <2>8. AtEnd => AtEnd'
    BY <2>1 DEF AtEnd, AllBack, Told1, Plugged, End
  <2> QED
    BY <2>1, <2>2, <2>3, <2>4, <2>5, <2>6, <2>7, <2>8 DEF RestoreInv
<1> QED
  BY <1>1, <1>2, <1>3, <1>4, <1>5, <1>6, <1>7, <1>8, <1>9, <1>10, <1>11, <1>12, <1>13, <1>14, <1>15
     DEF Restore!Next

(* What a restoration that comes to its end has restored. *)
LEMMA RestoredAll == ASSUME saved \in Documents, AtEnd PROVE
    /\ sources = Restore!UsableIds
    /\ \A s \in Restore!Usable : Restore!InOrder(filters[s.id], s.filters, Restore!Working(s.filters))
    /\ Restore!InOrder(Restore!Ids(scene), saved.nodes, Restore!Kept(saved.nodes))
    /\ \A i \in Restore!Kept(saved.nodes) :
          Restore!InOrder(Restore!Ids(scene[Restore!Place(i, Restore!Kept(saved.nodes))].items),
                          saved.nodes[i].items, Restore!Kept(saved.nodes[i].items))
<1> DEFINE held == Held(saved.nodes, AllAble(saved, available))
<1>1. /\ AllBack /\ Back(saved, available, sources, filters, Len(saved.sources) + 1, 1)
      /\ Placed(saved, available, scene, Len(saved.nodes) + 1, 1, Len(saved.nodes) + 1)
  BY DEF AtEnd, AllBack, End
<1>2. /\ \A n \in DOMAIN saved.sources : n < Len(saved.sources) + 1
      /\ \A n \in DOMAIN saved.nodes : n < Len(saved.nodes) + 1
  BY AllPassed, Zenon
<1>3. sources = Restore!UsableIds
  BY <1>1, SourcesAre, RestoredParts
<1>4. ASSUME NEW n \in Able(saved.sources, available)
      PROVE  LET s == saved.sources[n] IN Restore!InOrder(filters[s.id], s.filters,
                                                          Able(s.filters, available))
  <2> DEFINE s == saved.sources[n]
  <2>1. n \in DOMAIN saved.sources
    BY DEF Able
  <2>2. Gathered(filters[s.id], s.filters, Able(s.filters, available), Len(s.filters) + 1)
    BY <1>1, <1>2, <2>1 DEF Back
  <2>3. /\ Len(s.filters) \in Nat /\ DOMAIN s.filters = 1..Len(s.filters)
        /\ Able(s.filters, available) \in SUBSET (DOMAIN s.filters)
    BY <2>1, FiltersHave
  <2> QED
    BY <2>2, <2>3, GatheredAll, Zenon
<1>5. \A s \in Restore!Usable : Restore!InOrder(filters[s.id], s.filters, Restore!Working(s.filters))
  BY <1>4, RestoredParts
<1>6. Restore!InOrder(Restore!Ids(scene), saved.nodes, held)
  <2>1. Gathered(Restore!Ids(scene), saved.nodes, held, Len(saved.nodes) + 1)
    BY <1>1 DEF Placed
  <2> QED
    BY <2>1, NodesHave, GatheredAll, Zenon
<1>7. ASSUME NEW i \in held
      PROVE  Restore!InOrder(Restore!Ids(scene[Restore!Place(i, held)].items), saved.nodes[i].items,
                             Held(saved.nodes[i].items, AllAble(saved, available)))
  <2> DEFINE items == saved.nodes[i].items
  <2>1. i \in DOMAIN saved.nodes
    BY DEF Held
  <2>2. Gathered(Restore!Ids(scene[Restore!Place(i, held)].items), items,
                 Held(items, AllAble(saved, available)), Len(items) + 1)
    BY <1>1, <1>2, <2>1 DEF Placed
  <2> QED
    BY <2>1, <2>2, NodesHave, GatheredAll, Zenon
<1>8. /\ Restore!Kept(saved.nodes) = held
      /\ \A i \in held : Restore!Kept(saved.nodes[i].items) = Held(saved.nodes[i].items,
                                                                   AllAble(saved, available))
  BY RestoredParts
<1> HIDE DEF held
<1> QED
  BY <1>3, <1>5, <1>6, <1>7, <1>8

LEMMA RestoreGives == ASSUME RestoreInv PROVE Restore!TypeOK /\ Restore!RestoreIsFaithful
<1>1. RestoreTypes /\ StrictSoFar /\ saved \in Documents
  BY DEF RestoreInv, RestoreTypes
<1>2. Restore!TypeOK
  BY <1>1 DEF RestoreTypes, Restore!TypeOK, Places, HaveKinds, NativeScenes, NativeItems
<1>3. Restore!RestoredAsCaptured
  <2>1. CASE restorePc = "restored"
    <3>1. AtEnd
      BY <2>1 DEF RestoreInv
    <3> QED
      BY <1>1, <3>1, RestoredAll, Zenon DEF Restore!RestoredAsCaptured
  <2> QED
    BY <2>1 DEF Restore!RestoredAsCaptured
<1>4. Restore!SkippedAreReported
  <2>1. CASE restorePc = "restored"
    <3>1. AtEnd
      BY <2>1 DEF RestoreInv
    <3> QED
      BY <1>1, <3>1, AllReported DEF AtEnd, Told1, End
  <2> QED
    BY <2>1, Zenon DEF Restore!SkippedAreReported
<1>5. Restore!StrictOrNothing
  BY <1>1 DEF StrictSoFar, OnlyRedacted, Restore!StrictOrNothing
<1> QED
  BY <1>2, <1>3, <1>4, <1>5 DEF Restore!RestoreIsFaithful

(* RestoreIsFaithful for every document: what a machine can restore of it  *)
(* comes back, in the order of the document, and the rest is reported; a   *)
(* strict restoration that misses something makes no scene.                *)
THEOREM RestoreAlwaysFaithful == Restore!Spec => [](Restore!TypeOK /\ Restore!RestoreIsFaithful)
<1>1. Restore!Init => RestoreInv
  BY RestoreFirst
<1>2. RestoreInv /\ [Restore!Next]_(Restore!vars) => RestoreInv'
  BY RestoreStep
<1>3. RestoreInv => Restore!TypeOK /\ Restore!RestoreIsFaithful
  BY RestoreGives
<1> QED
  BY <1>1, <1>2, <1>3, PTL DEF Restore!Spec

=============================================================================
