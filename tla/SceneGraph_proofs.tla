------------------------- MODULE SceneGraph_proofs --------------------------
(***************************************************************************)
(* Proofs about a scene, its items and its groups (SceneGraph, as the      *)
(* instance of Objects): when no call is in progress the registries and    *)
(* libobs agree, for any number of threads, calls, sources and items.      *)
(***************************************************************************)
EXTENDS Objects, FiniteSetTheorems, SequenceTheorems, TLAPS

-----------------------------------------------------------------------------
(* x is in the sequence s, which has nothing twice, and comes before y or  *)
(* is y.                                                                   *)
Has(s, x) == \E n \in 1..Len(s) : s[n] = x
Once(s) == \A m, n \in 1..Len(s) : s[m] = s[n] => m = n
Upto(s, x, y) == \E m, n \in 1..Len(s) : m <= n /\ s[m] = x /\ s[n] = y

GraphStages == {"idle", "register", "return", "prune", "pruneGroups", "removing", "readGroups",
                "nextGroup", "operation", "reparent", "children", "map", "lockRegistry",
                "lockGroups", "readScene", "ungroup", "removeGroup"}
GraphCalls == {"add", "createGroup", "removeItem", "removeSource", "clear", "addItem", "takeItem",
               "ungroup", "removeGroup", "removeGroupItem"}

(* What the instances take for granted of the constants: the names of      *)
(* calls are no call's absence, and the calls that must not overlap do not. *)
GraphInstance ==
    /\ None \notin Threads /\ None \notin SceneSources /\ None \notin GraphCalls
    /\ {{"ungroup", "removeItem"}, {"ungroup", "takeItem"}, {"clear", "createGroup"}} \subseteq Apart

(* The stages in which a call has a lock. *)
WithRegistry == {"removing", "lockGroups", "readScene", "ungroup", "removeGroup"}
WithGroups == {"readScene", "ungroup", "removeGroup"}
Reads == {"map", "lockRegistry", "lockGroups", "readScene", "ungroup", "removeGroup"}
WithOperation == Reads \cup {"children", "reparent"}

(* The types, with those of the stages and the calls. *)
GraphTypes ==
    /\ Graph!TypeOK
    /\ graphPc \in [Threads -> GraphStages] /\ call \in [Threads -> GraphCalls \cup {None}]

(* Where an item is, and how it is known. *)
IsAttached(i) == Has(scene, i) \/ \E g \in Graph!GroupItems : Has(inside[g], i)
IsRegistered(i) == \E s \in SceneSources : i \in registry[s]
IsPending(i) == \E t \in Threads : graphPc[t] = "register" /\ subject[t] = i

(* Every item has one place, and only items of sources are inside groups.  *)
OnePlace ==
    /\ Once(scene)
    /\ \A g \in Graph!GroupItems :
          /\ Once(inside[g])
          /\ \A i : Has(inside[g], i) =>
                /\ ~Has(scene, i) /\ i \notin Graph!GroupItems
                /\ \A h \in Graph!GroupItems : Has(inside[h], i) => h = g

(* What is attached is what has a handle that is not removed, or gets one. *)
HandlesMatch ==
    /\ \A i : IsAttached(i) <=> (IsRegistered(i) \/ i \in groups \/ IsPending(i)) /\ i \notin removed
    /\ \A s \in SceneSources : \A i \in registry[s] : sourceOf[i] = s

(* The calls that change the scene in one place at a time.                 *)
ApartAre == \A t, u \in Threads : \A pair \in Apart :
                call[t] \in pair /\ call[u] \in pair /\ call[t] # None /\ call[u] # None => call[t] = call[u]

(* What a call is about, by its stage. *)
InCall(t) ==
    /\ graphPc[t] = "idle" <=> call[t] = None
    /\ graphPc[t] = "register" => call[t] \in {"add", "createGroup"}
    /\ graphPc[t] = "removing" => call[t] \in {"removeSource", "clear"}
    /\ graphPc[t] \in {"readGroups", "nextGroup"} => call[t] = "clear"
    /\ graphPc[t] \in {"removing", "readGroups", "nextGroup"} => list[t] = <<>>
    /\ graphPc[t] \in {"operation"} \cup WithOperation => subject[t] \in Graph!GroupItems
    /\ graphPc[t] = "operation" =>
          IF call[t] \in {"addItem", "takeItem"} THEN Len(list[t]) = 1
          ELSE list[t] = <<>> /\ call[t] \in {"clear", "ungroup", "removeGroup", "removeGroupItem"}
    /\ graphPc[t] = "reparent" => call[t] \in {"addItem", "takeItem"} /\ Len(list[t]) = 1
    /\ graphPc[t] \in Reads \cup {"children"} =>
          call[t] \in {"clear", "ungroup", "removeGroup", "removeGroupItem"}
    /\ graphPc[t] \in {"readScene", "ungroup"} => call[t] = "ungroup"
    /\ graphPc[t] = "removeGroup" => call[t] # "ungroup"

HasLocks(t) ==
    /\ graphPc[t] \in WithRegistry => registryLock = t
    /\ graphPc[t] \in WithGroups => groupsLock = t
    /\ graphPc[t] \in WithOperation => operationLock[subject[t]] = t

(* A new item is not registered yet, and nobody else registers it. *)
Registers(t) ==
    graphPc[t] = "register" =>
        /\ subject[t] \in Graph!Made /\ ~IsRegistered(subject[t])
        /\ call[t] = "add" => sourceOf[subject[t]] \in SceneSources
        /\ call[t] = "createGroup" => subject[t] \in Graph!GroupItems
        /\ \A u \in Threads : graphPc[u] = "register" /\ subject[u] = subject[t] => u = t

(* What a call removes. *)
Removes(t) ==
    /\ graphPc[t] = "removing" => \A i \in others[t] : IsRegistered(i)
    /\ graphPc[t] \in {"prune", "pruneGroups"} => subject[t] \in removed
    /\ call[t] = "clear" /\ graphPc[t] \notin {"removing", "readGroups"} =>
          /\ others[t] \subseteq Graph!GroupItems
          /\ \A g \in groups \ removed :
                g \in others[t] \/ (graphPc[t] # "nextGroup" /\ g = subject[t])

(* A child that a call has read is gone from the registry, or will be when *)
(* the call that removes it has done.                                      *)
Disappears(i) ==
    /\ ~IsPending(i)
    /\ IsRegistered(i) => \E u \in Threads : graphPc[u] = "removing" /\ i \in others[u]

(* The children that a call has read. *)
Children(t) ==
    LET g == subject[t]
    IN  /\ graphPc[t] \in Reads =>
              /\ \A i : Has(inside[g], i) => Has(list[t], i)
              /\ \A i : Has(list[t], i) => Has(inside[g], i) \/ i \in removed
        /\ graphPc[t] \in {"map", "lockRegistry"} /\ call[t] = "ungroup" =>
              list[t] = inside[g] \/ \E i : Has(list[t], i) /\ Disappears(i)
        /\ graphPc[t] \in {"lockGroups", "readScene", "ungroup"} /\ call[t] = "ungroup" =>
              list[t] = inside[g] /\ \A i : Has(list[t], i) => IsRegistered(i)

(* Where the replacements of children will be. *)
Replaces(t) ==
    /\ graphPc[t] \in Reads \cup {"children"} => subject[t] \notin removed
    /\ graphPc[t] \in {"readScene", "ungroup"} => subject[t] \in groups
    /\ graphPc[t] = "ungroup" =>
          /\ others[t] \subseteq Graph!Made
          /\ \A i : Upto(scene, i, subject[t]) => i \in others[t]

(* A call, in every stage. *)
CallSafe(t) ==
    /\ InCall(t) /\ HasLocks(t) /\ Registers(t) /\ Removes(t) /\ Children(t) /\ Replaces(t)

(* What a step of thread t leaves to the others: where they are and their  *)
(* locks.                                                                  *)
LeavesOthers(t) ==
    \A u \in Threads : u # t =>
        /\ graphPc'[u] = graphPc[u] /\ call'[u] = call[u] /\ subject'[u] = subject[u]
        /\ list'[u] = list[u] /\ others'[u] = others[u]
        /\ registryLock = u => registryLock' = u
        /\ groupsLock = u => groupsLock' = u
        /\ \A g \in Graph!GroupItems : operationLock[g] = u => operationLock'[g] = u

(* And what it leaves of the scene: items stay what they are; handles are  *)
(* registered by who made their items, unregistered with the lock; only a  *)
(* group's own calls add to it or end it, and who has read a group's items *)
(* can tell when one disappears, or overlaps with a call that is excluded. *)
Steady(t) ==
    /\ Graph!Made \subseteq Graph!Made' /\ \A i \in Graph!Made : sourceOf'[i] = sourceOf[i]
    /\ \A i \in Graph!Made :
          /\ IsRegistered(i)' => IsRegistered(i) \/ (graphPc[t] = "register" /\ subject[t] = i)
          /\ graphPc'[t] = "register" /\ subject'[t] = i =>
                graphPc[t] = "register" /\ subject[t] = i
    /\ \A i :
          /\ IsRegistered(i) => IsRegistered(i)' \/ registryLock \in {None, t}
          /\ graphPc[t] = "removing" /\ i \in others[t] =>
                (graphPc'[t] = "removing" /\ i \in others'[t]) \/ ~IsRegistered(i)'
          /\ i \in groups' => i \in groups \/ call[t] = "createGroup"
          /\ i \in groups => i \in groups' \/ groupsLock \in {None, t}
          /\ i \in removed => i \in removed'
    /\ \A g \in Graph!GroupItems :
          /\ g \in removed' => g \in removed \/ operationLock[g] = t
          /\ \A i : Upto(scene', i, g) =>
                Upto(scene, i, g) \/ call[t] = "takeItem" \/ groupsLock = t
          /\ operationLock[g] # t =>
                /\ \A i :
                      /\ Has(inside'[g], i) => Has(inside[g], i)
                      /\ Has(inside[g], i) => Has(inside'[g], i) \/ i \in removed'
                /\ \/ inside'[g] = inside[g]
                   \/ call'[t] = "removeItem"
                   \/ registryLock = t /\ (\E i : Has(inside[g], i) /\ Disappears(i)')

(* The inductive invariant. *)
GraphInv ==
    /\ GraphTypes /\ OnePlace /\ HandlesMatch /\ ApartAre
    /\ \A t \in Threads : CallSafe(t)

-----------------------------------------------------------------------------
(* Lists of items *)

(* The elements of a list are of its type. *)
LEMMA HasElement ==
    ASSUME NEW S, NEW s \in Seq(S), NEW x, Has(s, x)
    PROVE  x \in S
BY DEF Has

(* What the range of a list is. *)
LEMMA HasRange ==
    ASSUME NEW S, NEW s \in Seq(S), NEW x
    PROVE  x \in Graph!Range(s) <=> Has(s, x)
<1>1. DOMAIN s = 1..Len(s)
  OBVIOUS
<1> QED
  BY <1>1 DEF Has, Graph!Range

(* What has items in places is a list. *)
LEMMA IsList ==
    ASSUME NEW S, NEW n \in Nat, NEW s \in [1..n -> S]
    PROVE  s \in Seq(S)
OBVIOUS

(* Taking an item out of a list that has it once. *)
LEMMA WithoutPlace ==
    ASSUME NEW S, NEW s \in Seq(S), NEW n \in 1..Len(s), Once(s)
    PROVE  LET w == SubSeq(s, 1, n - 1) \o SubSeq(s, n + 1, Len(s))
           IN  /\ w \in Seq(S) /\ Once(w)
               /\ \A x : Has(w, x) <=> Has(s, x) /\ x # s[n]
               /\ \A x, y : Upto(w, x, y) => Upto(s, x, y)
<1> DEFINE p == SubSeq(s, 1, n - 1)
           q == SubSeq(s, n + 1, Len(s))
           w == p \o q
           From(m) == IF m < n THEN m ELSE m + 1
<1>1. Len(s) \in Nat /\ n \in 1..Len(s)
  OBVIOUS
<1>2. /\ p \in Seq(S) /\ Len(p) = n - 1 /\ \A m \in 1..(n - 1) : p[m] = s[m]
  OBVIOUS
<1>3. /\ q \in Seq(S) /\ Len(q) = Len(s) - n /\ \A m \in 1..(Len(s) - n) : q[m] = s[n + m]
  OBVIOUS
<1> HIDE DEF p, q
<1>4. w \in Seq(S) /\ Len(w) = Len(s) - 1
  <2>1. w \in Seq(S) /\ Len(w) = Len(p) + Len(q)
    BY <1>2, <1>3, ConcatProperties
  <2> QED
    BY <1>1, <1>2, <1>3, <2>1
<1>5. \A m \in 1..(Len(s) - 1) : w[m] = s[From(m)] /\ From(m) \in 1..Len(s) /\ From(m) # n
  <2> SUFFICES ASSUME NEW m \in 1..(Len(s) - 1)
               PROVE  w[m] = s[From(m)] /\ From(m) \in 1..Len(s) /\ From(m) # n
    OBVIOUS
  <2>1. CASE m < n
    BY <1>1, <1>2, <1>3, <2>1
  <2>2. CASE ~(m < n)
    <3>1. m - (n - 1) \in 1..(Len(s) - n) /\ n + (m - (n - 1)) = m + 1
      BY <1>1, <2>2
    <3>2. w[m] = q[m - (n - 1)]
      BY <1>1, <1>2, <1>3, <2>2
    <3> QED
      BY <1>1, <1>3, <2>2, <3>1, <3>2
  <2> QED
    BY <2>1, <2>2
<1>6. \A m \in 1..Len(s) : m # n => \E k \in 1..(Len(s) - 1) : w[k] = s[m]
  <2> SUFFICES ASSUME NEW m \in 1..Len(s), m # n
               PROVE  \E k \in 1..(Len(s) - 1) : w[k] = s[m]
    OBVIOUS
  <2>1. CASE m < n
    <3>1. m \in 1..(Len(s) - 1) /\ From(m) = m
      BY <1>1, <2>1
    <3> QED
      BY <1>5, <3>1
  <2>2. CASE ~(m < n)
    <3>1. m - 1 \in 1..(Len(s) - 1) /\ From(m - 1) = m
      BY <1>1, <2>2
    <3> QED
      BY <1>5, <3>1
  <2> QED
    BY <2>1, <2>2
<1>7. \A k, m \in 1..(Len(s) - 1) : (From(k) = From(m) => k = m) /\ (k <= m => From(k) <= From(m))
  BY <1>1
<1> HIDE DEF w, From
<1>8. Once(w)
  BY <1>4, <1>5, <1>7 DEF Once
<1>9. \A x : Has(w, x) <=> Has(s, x) /\ x # s[n]
  <2>1. ASSUME NEW x, Has(w, x) PROVE Has(s, x) /\ x # s[n]
    BY <1>1, <1>4, <1>5, <2>1 DEF Has, Once
  <2>2. ASSUME NEW x, Has(s, x), x # s[n] PROVE Has(w, x)
    BY <1>4, <1>6, <2>2 DEF Has
  <2> QED
    BY <2>1, <2>2
<1>10. ASSUME NEW x, NEW y, Upto(w, x, y) PROVE Upto(s, x, y)
  <2>1. PICK k, m \in 1..(Len(s) - 1) : k <= m /\ w[k] = x /\ w[m] = y
    BY <1>4, <1>10, Zenon DEF Upto
  <2>2. /\ From(k) <= From(m) /\ From(k) \in 1..Len(s) /\ From(m) \in 1..Len(s)
        /\ s[From(k)] = x /\ s[From(m)] = y
    BY <1>5, <1>7, <2>1, Zenon
  <2> QED
    BY <2>2, Zenon DEF Upto
<1> QED
  BY <1>4, <1>8, <1>9, <1>10 DEF w, p, q

(* The place of an item in a list. *)
At(s, i) == Graph!SelectInSeq(s, LAMBDA j : j = i)

LEMMA AtIs ==
    ASSUME NEW S, NEW s \in Seq(S), Once(s), NEW i
    PROVE  IF Has(s, i) THEN At(s, i) \in 1..Len(s) /\ s[At(s, i)] = i ELSE At(s, i) = 0
<1> DEFINE I == {n \in 1..Len(s) : s[n] = i}
<1>1. At(s, i) = IF I # {} THEN Graph!Min(I) ELSE 0
  BY DEF At, Graph!SelectInSeq
<1>2. ASSUME NEW n \in I PROVE I = {n} /\ Graph!Min(I) = n
  <2>1. I = {n}
    BY DEF Once
  <2>2. n \in Int
    OBVIOUS
  <2> HIDE DEF I
  <2> QED
    BY <2>1, <2>2 DEF Graph!Min
<1>3. CASE Has(s, i)
  <2>1. PICK n \in I : TRUE
    BY <1>3 DEF Has
  <2> QED
    BY <1>1, <1>2, <1>3, <2>1
<1>4. CASE ~Has(s, i)
  <2>1. I = {}
    BY <1>4 DEF Has
  <2> QED
    BY <1>1, <1>4, <2>1
<1> QED
  BY <1>3, <1>4

(* What remains of a list without an item.                                 *)
LEMMA WithoutIs ==
    ASSUME NEW S, NEW s \in Seq(S), Once(s), NEW i
    PROVE  /\ Graph!Without(s, i) \in Seq(S) /\ Once(Graph!Without(s, i))
           /\ \A x : Has(Graph!Without(s, i), x) <=> Has(s, x) /\ x # i
           /\ \A x, y : Upto(Graph!Without(s, i), x, y) => Upto(s, x, y)
           /\ ~Has(s, i) => Graph!Without(s, i) = s
<1>1. CASE Has(s, i)
  <2> DEFINE n == At(s, i)
  <2>1. n \in 1..Len(s) /\ s[n] = i
    BY <1>1, AtIs
  <2>2. Graph!Without(s, i) = SubSeq(s, 1, n - 1) \o SubSeq(s, n + 1, Len(s))
    BY <1>1 DEF At, Graph!Without, Graph!RemoveFirst, Graph!RemoveAt, Has
  <2> HIDE DEF n
  <2>3. /\ SubSeq(s, 1, n - 1) \o SubSeq(s, n + 1, Len(s)) \in Seq(S)
        /\ Once(SubSeq(s, 1, n - 1) \o SubSeq(s, n + 1, Len(s)))
        /\ \A x : Has(SubSeq(s, 1, n - 1) \o SubSeq(s, n + 1, Len(s)), x) <=> Has(s, x) /\ x # s[n]
        /\ \A x, y : Upto(SubSeq(s, 1, n - 1) \o SubSeq(s, n + 1, Len(s)), x, y) => Upto(s, x, y)
    BY <2>1, WithoutPlace, Zenon
  <2>4. /\ Graph!Without(s, i) \in Seq(S) /\ Once(Graph!Without(s, i))
        /\ \A x : Has(Graph!Without(s, i), x) <=> Has(s, x) /\ x # i
        /\ \A x, y : Upto(Graph!Without(s, i), x, y) => Upto(s, x, y)
    BY <2>1, <2>2, <2>3, Zenon
  <2> QED
    BY <1>1, <2>4, Zenon
<1>2. CASE ~Has(s, i)
  <2>1. Graph!Without(s, i) = s
    BY <1>2 DEF Graph!Without, Graph!RemoveFirst, Has
  <2> QED
    BY <1>2, <2>1
<1> QED
  BY <1>1, <1>2

(* A list with a new last item. *)
LEMMA AppendIs ==
    ASSUME NEW S, NEW s \in Seq(S), NEW e \in S, Once(s), ~Has(s, e)
    PROVE  /\ Append(s, e) \in Seq(S) /\ Once(Append(s, e))
           /\ \A x : Has(Append(s, e), x) <=> Has(s, x) \/ x = e
           /\ \A x, y : Upto(Append(s, e), x, y) /\ y # e => Upto(s, x, y)
<1> DEFINE w == Append(s, e)
           n == Len(s)
<1>1. /\ n \in Nat /\ w \in Seq(S) /\ Len(w) = n + 1 /\ w[n + 1] = e
      /\ \A k \in 1..n : w[k] = s[k]
  OBVIOUS
<1> HIDE DEF w
<1>2. \A x : Has(s, x) <=> \E k \in 1..n : s[k] = x
  BY DEF Has
<1>3. \A k \in 1..(n + 1) : k \in 1..n \/ k = n + 1
  BY <1>1
<1>4. \A k \in 1..n : k \in 1..(n + 1) /\ k # n + 1 /\ ~(n + 1 <= k)
  BY <1>1
<1>5. n + 1 \in 1..(n + 1)
  BY <1>1
<1> HIDE DEF n
<1>6. Once(w)
  <2> SUFFICES ASSUME NEW k \in 1..(n + 1), NEW m \in 1..(n + 1), w[k] = w[m] PROVE k = m
    BY <1>1 DEF Once
  <2>1. \A k1, m1 \in 1..n : s[k1] = s[m1] => k1 = m1
    BY DEF Once, n
  <2> QED
    BY <1>1, <1>2, <1>3, <2>1
<1>7. \A x : Has(w, x) <=> Has(s, x) \/ x = e
  <2>1. \A x : Has(w, x) <=> \E k \in 1..(n + 1) : w[k] = x
    BY <1>1 DEF Has
  <2> QED
    BY <1>1, <1>2, <1>3, <1>4, <1>5, <2>1
<1>8. \A x, y : Upto(w, x, y) /\ y # e => Upto(s, x, y)
  <2> SUFFICES ASSUME NEW x, NEW y, Upto(w, x, y), y # e PROVE Upto(s, x, y)
    OBVIOUS
  <2>1. PICK k, m \in 1..(n + 1) : k <= m /\ w[k] = x /\ w[m] = y
    BY <1>1, Zenon DEF Upto
  <2>2. m \in 1..n
    BY <1>1, <1>3, <2>1
  <2>3. k \in 1..n
    BY <1>3, <1>4, <2>1, <2>2
  <2> QED
    BY <1>1, <2>1, <2>2, <2>3 DEF Upto, n
<1> QED
  BY <1>1, <1>6, <1>7, <1>8 DEF w

(* And with a new first one. *)
LEMMA PrependIs ==
    ASSUME NEW S, NEW s \in Seq(S), NEW e \in S, Once(s), ~Has(s, e)
    PROVE  /\ <<e>> \o s \in Seq(S) /\ Once(<<e>> \o s)
           /\ \A x : Has(<<e>> \o s, x) <=> Has(s, x) \/ x = e
<1> DEFINE w == <<e>> \o s
           n == Len(s)
<1>1. n \in Nat /\ w \in Seq(S) /\ Len(w) = n + 1 /\ w[1] = e
  OBVIOUS
<1>2. \A k \in 1..n : w[k + 1] = s[k]
  OBVIOUS
<1> HIDE DEF w
<1>3. \A k \in 1..(n + 1) : k = 1 \/ (k - 1 \in 1..n /\ (k - 1) + 1 = k)
  BY <1>1
<1>4. \A k \in 1..n : k + 1 \in 1..(n + 1)
  BY <1>1
<1>5. \A k \in 1..(n + 1) : k # 1 => w[k] = s[k - 1] /\ k - 1 \in 1..n
  BY <1>2, <1>3
<1>6. Once(w)
  <2> SUFFICES ASSUME NEW k \in 1..(n + 1), NEW m \in 1..(n + 1), w[k] = w[m] PROVE k = m
    BY <1>1 DEF Once
  <2>1. \A k1, m1 \in 1..n : s[k1] = s[m1] => k1 = m1
    BY DEF Once
  <2>2. \A k1 \in 1..n : s[k1] # e
    BY DEF Has
  <2>3. k - 1 = m - 1 => k = m
    BY <1>1
  <2> QED
    BY <1>1, <1>5, <2>1, <2>2, <2>3
<1>7. \A x : Has(w, x) <=> Has(s, x) \/ x = e
  <2>1. \A x : Has(w, x) <=> \E k \in 1..(n + 1) : w[k] = x
    BY <1>1 DEF Has
  <2>2. \A x : Has(s, x) <=> \E k \in 1..n : s[k] = x
    BY DEF Has
  <2>3. 1 \in 1..(n + 1)
    BY <1>1
  <2>4. ASSUME NEW x, NEW k \in 1..(n + 1), w[k] = x PROVE Has(s, x) \/ x = e
    BY <1>1, <1>5, <2>2, <2>4, Zenon
  <2>5. ASSUME NEW x, NEW k \in 1..n, s[k] = x PROVE Has(w, x)
    BY <1>2, <1>4, <2>1, <2>5, Zenon
  <2>6. Has(w, e)
    BY <1>1, <2>1, <2>3, Zenon
  <2> QED
    BY <2>1, <2>2, <2>4, <2>5, <2>6, Zenon
<1> QED
  BY <1>1, <1>6, <1>7 DEF w

-----------------------------------------------------------------------------
(* The parts that steps are made of *)

(* Items are numbered as they are made. *)
LEMMA MadeAre ==
    ASSUME GraphTypes
    PROVE  /\ Len(sourceOf) \in Nat /\ Graph!Made = 1..Len(sourceOf)
           /\ \A i \in Graph!Made : sourceOf[i] \in SceneSources \cup {None}
           /\ \A i : i \in Graph!GroupItems <=> i \in Graph!Made /\ sourceOf[i] = None
BY DEF GraphTypes, Graph!TypeOK, Graph!Made, Graph!GroupItems

(* New items follow those there are. *)
LEMMA MakeIs ==
    ASSUME GraphTypes, NEW new \in Seq(SceneSources \cup {None}), Graph!NativeMake(new)
    PROVE  /\ sourceOf' \in Seq(SceneSources \cup {None})
           /\ Graph!Made' = 1..(Len(sourceOf) + Len(new)) /\ Graph!Made \subseteq Graph!Made'
           /\ \A i \in Graph!Made : sourceOf'[i] = sourceOf[i]
           /\ \A k \in 1..Len(new) : /\ sourceOf'[Len(sourceOf) + k] = new[k]
                                     /\ Len(sourceOf) + k \notin Graph!Made
<1> DEFINE T == SceneSources \cup {None}
<1>1. sourceOf \in Seq(T) /\ new \in Seq(T) /\ sourceOf' = sourceOf \o new
  BY DEF GraphTypes, Graph!TypeOK, Graph!NativeMake
<1> HIDE DEF T
<1>2. /\ sourceOf' \in Seq(T) /\ Len(sourceOf') = Len(sourceOf) + Len(new)
      /\ \A i \in 1..(Len(sourceOf) + Len(new)) :
            sourceOf'[i] = IF i <= Len(sourceOf) THEN sourceOf[i] ELSE new[i - Len(sourceOf)]
  BY <1>1, ConcatProperties
<1>3. Len(sourceOf) \in Nat /\ Len(new) \in Nat /\ Graph!Made = 1..Len(sourceOf)
  BY <1>1, MadeAre, LenProperties
<1>4. Graph!Made' = 1..(Len(sourceOf) + Len(new))
  BY <1>2, LenProperties DEF Graph!Made
<1>5. \A i \in Graph!Made : sourceOf'[i] = sourceOf[i]
  BY <1>2, <1>3
<1>6. ASSUME NEW k \in 1..Len(new)
      PROVE  /\ sourceOf'[Len(sourceOf) + k] = new[k]
             /\ Len(sourceOf) + k \notin Graph!Made
  BY <1>2, <1>3
<1>7. Graph!Made \subseteq Graph!Made'
  BY <1>3, <1>4
<1>8. sourceOf' \in Seq(SceneSources \cup {None})
  BY <1>2 DEF T
<1> QED
  BY <1>4, <1>5, <1>6, <1>7, <1>8

(* Calls that must not overlap do not, when one starts. *)
LEMMA EnterApart ==
    ASSUME GraphInstance, GraphTypes, ApartAre, NEW t \in Threads, NEW name \in GraphCalls,
           NEW i, NEW handles, NEW set, NEW to, Graph!Enter(t, name, i, handles, set, to)
    PROVE  /\ ApartAre'
           /\ \A u \in Threads, pair \in Apart :
                 name \in pair /\ call[u] \in pair /\ call[u] # None => call[u] = name
<1>1. call \in [Threads -> GraphCalls \cup {None}]
  BY DEF GraphTypes
<1>2. call' = [call EXCEPT ![t] = name]
  BY DEF Graph!Enter
<1>3. \A u \in Threads, pair \in Apart :
         name \in pair /\ call[u] \in pair /\ call[u] # None => call[u] = name
  BY DEF Graph!Enter, Graph!Running
<1>4. ApartAre'
  BY <1>1, <1>2, <1>3 DEF ApartAre
<1> QED
  BY <1>3, <1>4

(* A lock that is let go of. *)
LEMMA UnlockIs ==
    ASSUME GraphTypes, NEW t \in Threads, Graph!Unlock(t)
    PROVE  /\ registryLock' \in Threads \cup {None} /\ groupsLock' \in Threads \cup {None}
           /\ operationLock' \in [Graph!GroupItems -> Threads \cup {None}]
           /\ \A u \in Threads : u # t =>
                 /\ registryLock = u => registryLock' = u
                 /\ groupsLock = u => groupsLock' = u
                 /\ \A g \in Graph!GroupItems : operationLock[g] = u => operationLock'[g] = u
BY DEF Graph!Unlock, GraphTypes, Graph!TypeOK

(* A call ends. *)
LEMMA ReturnIs ==
    ASSUME GraphTypes, NEW t \in Threads, Graph!Return(t)
    PROVE  /\ graphPc' \in [Threads -> GraphStages] /\ call' \in [Threads -> GraphCalls \cup {None}]
           /\ subject' \in [Threads -> Graph!Made \cup {0}]
           /\ list' \in [Threads -> Seq(Graph!Made)] /\ others' \in [Threads -> SUBSET Graph!Made]
           /\ registryLock' \in Threads \cup {None} /\ groupsLock' \in Threads \cup {None}
           /\ operationLock' \in [Graph!GroupItems -> Threads \cup {None}]
           /\ graphPc'[t] = "idle" /\ call'[t] = None
           /\ LeavesOthers(t)
<1>1. /\ graphPc \in [Threads -> GraphStages] /\ call \in [Threads -> GraphCalls \cup {None}]
      /\ subject \in [Threads -> Graph!Made \cup {0}] /\ others \in [Threads -> SUBSET Graph!Made]
      /\ list \in [Threads -> Seq(Graph!Made)]
  BY DEF GraphTypes, Graph!TypeOK
<1>2. /\ graphPc' = [graphPc EXCEPT ![t] = "idle"]
      /\ call' = [call EXCEPT ![t] = None] /\ subject' = [subject EXCEPT ![t] = 0]
      /\ list' = [list EXCEPT ![t] = <<>>] /\ others' = [others EXCEPT ![t] = {}]
      /\ Graph!Unlock(t)
  BY DEF Graph!Return, Graph!Goto
<1>3. "idle" \in GraphStages /\ <<>> \in Seq(Graph!Made)
  BY DEF GraphStages
<1> HIDE DEF GraphStages, GraphCalls
<1> QED
  BY <1>1, <1>2, <1>3, UnlockIs DEF LeavesOthers

(* Calls that must not overlap do not when one ends or goes on.            *)
LEMMA ApartStays ==
    ASSUME GraphTypes, ApartAre, NEW t \in Threads, LeavesOthers(t), call'[t] \in {call[t], None}
    PROVE  ApartAre'
BY DEF ApartAre, LeavesOthers

-----------------------------------------------------------------------------
(* The other threads *)

(* The group a call is about, whose lock it has, is not another's. *)
LEMMA OthersInCall ==
    ASSUME GraphInv, NEW t \in Threads, LeavesOthers(t), Steady(t), GraphTypes',
           NEW u \in Threads, u # t
    PROVE  InCall(u)' /\ HasLocks(u)'
<1>1. /\ graphPc'[u] = graphPc[u] /\ call'[u] = call[u] /\ subject'[u] = subject[u]
      /\ list'[u] = list[u] /\ others'[u] = others[u]
      /\ registryLock = u => registryLock' = u
      /\ groupsLock = u => groupsLock' = u
      /\ \A g \in Graph!GroupItems : operationLock[g] = u => operationLock'[g] = u
  BY DEF LeavesOthers
<1>2. InCall(u) /\ HasLocks(u)
  BY DEF GraphInv, CallSafe
<1>3. \A g \in Graph!GroupItems : g \in Graph!GroupItems'
  BY DEF Steady, Graph!GroupItems
<1>4. InCall(u)'
  BY <1>1, <1>2, <1>3 DEF InCall
<1>5. graphPc[u] \in WithOperation => subject[u] \in Graph!GroupItems
  BY <1>2 DEF InCall
<1>6. HasLocks(u)'
  BY <1>1, <1>2, <1>5 DEF HasLocks
<1> QED
  BY <1>4, <1>6

LEMMA OthersRegister ==
    ASSUME GraphInv, NEW t \in Threads, LeavesOthers(t), Steady(t), GraphTypes',
           NEW u \in Threads, u # t
    PROVE  Registers(u)'
<1>1. /\ graphPc'[u] = graphPc[u] /\ call'[u] = call[u] /\ subject'[u] = subject[u]
  BY DEF LeavesOthers
<1>2. Registers(u)
  BY DEF GraphInv, CallSafe
<1>3. \A g \in Graph!GroupItems : g \in Graph!GroupItems'
  BY DEF Steady, Graph!GroupItems
<1> SUFFICES ASSUME graphPc[u] = "register" PROVE Registers(u)'
  BY <1>1 DEF Registers
<1>4. /\ subject[u] \in Graph!Made /\ ~IsRegistered(subject[u])
      /\ call[u] = "add" => sourceOf[subject[u]] \in SceneSources
      /\ call[u] = "createGroup" => subject[u] \in Graph!GroupItems
      /\ \A v \in Threads : graphPc[v] = "register" /\ subject[v] = subject[u] => v = u
  BY <1>2 DEF Registers
<1> DEFINE s == subject[u]
<1>5. s \in Graph!Made' /\ sourceOf'[s] = sourceOf[s]
  BY <1>4 DEF Steady
<1>6. \A v \in Threads : graphPc'[v] = "register" /\ subject'[v] = s => v = u
  <2> SUFFICES ASSUME NEW v \in Threads, graphPc'[v] = "register", subject'[v] = s PROVE v = u
    OBVIOUS
  <2>1. CASE v = t
    BY <1>4, <2>1 DEF Steady
  <2>2. CASE v # t
    BY <1>4, <2>2 DEF LeavesOthers
  <2> QED
    BY <2>1, <2>2
<1>7. ~(graphPc[t] = "register" /\ subject[t] = s)
  BY <1>4
<1>8. \A x : x = s => ~IsRegistered(x)'
  BY <1>4, <1>7 DEF Steady
<1> QED
  BY <1>1, <1>3, <1>4, <1>5, <1>6, <1>8 DEF Registers, IsRegistered

LEMMA OthersRemove ==
    ASSUME GraphInv, ApartAre', GraphInstance, NEW t \in Threads, LeavesOthers(t), Steady(t),
           NEW u \in Threads, u # t
    PROVE  Removes(u)'
<1>1. /\ graphPc'[u] = graphPc[u] /\ call'[u] = call[u] /\ subject'[u] = subject[u]
      /\ others'[u] = others[u]
  BY DEF LeavesOthers
<1>2. Removes(u) /\ HasLocks(u)
  BY DEF GraphInv, CallSafe
<1>3. \A g \in Graph!GroupItems : g \in Graph!GroupItems'
  BY DEF Steady, Graph!GroupItems
<1>4. ASSUME graphPc[u] = "removing", NEW i \in others[u] PROVE IsRegistered(i)'
  <2>1. registryLock = u /\ IsRegistered(i)
    BY <1>2, <1>4 DEF Removes, HasLocks, WithRegistry
  <2> QED
    BY <2>1 DEF Steady, GraphInstance
<1>5. graphPc[u] \in {"prune", "pruneGroups"} => subject[u] \in removed'
  BY <1>2 DEF Removes, Steady
<1>6. ASSUME call[u] = "clear", graphPc[u] \notin {"removing", "readGroups"}
      PROVE  /\ others[u] \subseteq Graph!GroupItems
             /\ \A g \in groups' \ removed' :
                   g \in others[u] \/ (graphPc[u] # "nextGroup" /\ g = subject[u])
  <2>1. call[t] # "createGroup"
    BY <1>6, None \notin GraphCalls DEF GraphInv, ApartAre, GraphInstance, GraphCalls
  <2> QED
    BY <1>2, <1>6, <2>1 DEF Removes, Steady
<1> QED
  <2>1. graphPc'[u] = "removing" => \A i \in others'[u] : IsRegistered(i)'
    BY <1>1, <1>4
  <2> QED
    BY <1>1, <1>3, <1>5, <1>6, <2>1, Zenon DEF Removes

LEMMA OthersReplace ==
    ASSUME GraphInv, GraphInstance, NEW t \in Threads, LeavesOthers(t), Steady(t), ApartAre',
           NEW u \in Threads, u # t
    PROVE  Replaces(u)'
<1>1. /\ graphPc'[u] = graphPc[u] /\ call'[u] = call[u] /\ subject'[u] = subject[u]
      /\ others'[u] = others[u]
  BY DEF LeavesOthers
<1>2. Replaces(u) /\ HasLocks(u) /\ InCall(u)
  BY DEF GraphInv, CallSafe
<1>3. graphPc[u] \in Reads \cup {"children"} => subject[u] \notin removed'
  <2> SUFFICES ASSUME graphPc[u] \in Reads \cup {"children"} PROVE subject[u] \notin removed'
    OBVIOUS
  <2>1. subject[u] \in Graph!GroupItems /\ operationLock[subject[u]] = u /\ subject[u] \notin removed
    BY <1>2 DEF Replaces, HasLocks, InCall, WithOperation
  <2> QED
    BY <2>1 DEF Steady
<1>4. graphPc[u] \in {"readScene", "ungroup"} => subject[u] \in groups'
  <2> SUFFICES ASSUME graphPc[u] \in {"readScene", "ungroup"} PROVE subject[u] \in groups'
    OBVIOUS
  <2>1. groupsLock = u /\ subject[u] \in groups
    BY <1>2 DEF Replaces, HasLocks, WithGroups
  <2> QED
    BY <2>1 DEF Steady, GraphInstance
<1>5. ASSUME graphPc[u] = "ungroup"
      PROVE  /\ others[u] \subseteq Graph!Made'
             /\ \A i : Upto(scene', i, subject[u]) => i \in others[u]
  <2>1. call[u] = "ungroup" /\ groupsLock = u /\ subject[u] \in Graph!GroupItems
    BY <1>2, <1>5 DEF InCall, HasLocks, WithGroups, WithOperation, Reads
  <2>2. call[t] # "takeItem"
    BY <2>1 DEF GraphInv, ApartAre, GraphInstance, GraphCalls
  <2>3. others[u] \subseteq Graph!Made /\ \A i : Upto(scene, i, subject[u]) => i \in others[u]
    BY <1>2, <1>5 DEF Replaces
  <2> QED
    BY <2>1, <2>2, <2>3 DEF Steady
<1> QED
  <2>1. graphPc'[u] = "ungroup" => /\ others'[u] \subseteq Graph!Made'
                                  /\ \A i : Upto(scene', i, subject'[u]) => i \in others'[u]
    BY <1>1, <1>5
  <2> QED
    BY <1>1, <1>3, <1>4, <2>1 DEF Replaces

(* An item that is to disappear stays so. *)
LEMMA StaysDisappearing ==
    ASSUME GraphInv, NEW t \in Threads, LeavesOthers(t), Steady(t),
           NEW i \in Graph!Made, Disappears(i)
    PROVE  Disappears(i)'
<1>1. ~IsPending(i)'
  <2> SUFFICES ASSUME NEW v \in Threads, graphPc'[v] = "register", subject'[v] = i PROVE FALSE
    BY DEF IsPending
  <2>1. graphPc[v] = "register" /\ subject[v] = i
    BY DEF Steady, LeavesOthers
  <2> QED
    BY <2>1 DEF Disappears, IsPending
<1>2. ASSUME IsRegistered(i)' PROVE \E v \in Threads : graphPc'[v] = "removing" /\ i \in others'[v]
  <2>1. ~(graphPc[t] = "register" /\ subject[t] = i)
    BY DEF Disappears, IsPending
  <2>2. IsRegistered(i)
    BY <1>2, <2>1 DEF Steady
  <2>3. PICK v \in Threads : graphPc[v] = "removing" /\ i \in others[v]
    BY <2>2 DEF Disappears
  <2>4. graphPc'[v] = "removing" /\ i \in others'[v]
    <3>1. CASE v = t
      BY <1>2, <2>3, <3>1 DEF Steady
    <3>2. CASE v # t
      BY <2>3, <3>2 DEF LeavesOthers
    <3> QED
      BY <3>1, <3>2
  <2> QED
    BY <2>4
<1> QED
  BY <1>1, <1>2 DEF Disappears

LEMMA OthersChildren ==
    ASSUME GraphInv, GraphInstance, NEW t \in Threads, LeavesOthers(t), Steady(t), ApartAre',
           NEW u \in Threads, u # t
    PROVE  Children(u)'
<1> DEFINE g == subject[u]
<1>1. /\ graphPc'[u] = graphPc[u] /\ call'[u] = call[u] /\ subject'[u] = g
      /\ list'[u] = list[u]
  BY DEF LeavesOthers
<1>2. Children(u) /\ HasLocks(u) /\ InCall(u)
  BY DEF GraphInv, CallSafe
<1>3. \A i : Has(list[u], i) => i \in Graph!Made
  BY HasElement DEF GraphInv, GraphTypes, Graph!TypeOK
<1>4. ASSUME graphPc[u] \in Reads
      PROVE  /\ g \in Graph!GroupItems
             /\ \A i : /\ Has(inside'[g], i) => Has(list[u], i)
                       /\ Has(list[u], i) => Has(inside'[g], i) \/ i \in removed'
             /\ \/ inside'[g] = inside[g]
                \/ call'[t] = "removeItem"
                \/ registryLock = t /\ (\E i : Has(inside[g], i) /\ Disappears(i)')
  <2>1. g \in Graph!GroupItems /\ operationLock[g] # t
    BY <1>2, <1>4 DEF HasLocks, InCall, WithOperation
  <2>2. \A i : /\ Has(inside[g], i) => Has(list[u], i)
               /\ Has(list[u], i) => Has(inside[g], i) \/ i \in removed
    BY <1>2, <1>4 DEF Children
  <2>3. \A i : /\ Has(inside'[g], i) => Has(inside[g], i)
               /\ Has(inside[g], i) => Has(inside'[g], i) \/ i \in removed'
    BY <2>1 DEF Steady
  <2>4. \/ inside'[g] = inside[g]
        \/ call'[t] = "removeItem"
        \/ registryLock = t /\ (\E i : Has(inside[g], i) /\ Disappears(i)')
    BY <2>1 DEF Steady
  <2>5. \A i : i \in removed => i \in removed'
    BY DEF Steady
  <2> QED
    BY <2>1, <2>2, <2>3, <2>4, <2>5
<1>5. ASSUME call[u] = "ungroup" PROVE call'[t] # "removeItem"
  BY <1>1, <1>5 DEF ApartAre, GraphInstance, GraphCalls
<1>6. ASSUME graphPc[u] \in {"map", "lockRegistry"}, call[u] = "ungroup"
      PROVE  list[u] = inside'[g] \/ \E i : Has(list[u], i) /\ Disappears(i)'
  <2>1. \/ inside'[g] = inside[g]
        \/ \E i : Has(inside[g], i) /\ Disappears(i)'
    BY <1>4, <1>5, <1>6 DEF Reads
  <2>2. CASE list[u] = inside[g]
    BY <2>1, <2>2, Zenon
  <2>3. CASE \E i : Has(list[u], i) /\ Disappears(i)
    BY <1>3, <2>3, StaysDisappearing
  <2> QED
    BY <1>2, <1>6, <2>2, <2>3 DEF Children
<1>7. ASSUME graphPc[u] \in {"lockGroups", "readScene", "ungroup"}, call[u] = "ungroup"
      PROVE  list[u] = inside'[g] /\ \A i : Has(list[u], i) => IsRegistered(i)'
  <2>1. registryLock = u /\ registryLock \notin {None, t}
    BY <1>2, <1>7 DEF HasLocks, WithRegistry, GraphInstance
  <2>2. list[u] = inside[g] /\ \A i : Has(list[u], i) => IsRegistered(i)
    BY <1>2, <1>7 DEF Children
  <2>3. inside'[g] = inside[g]
    BY <1>4, <1>5, <1>7, <2>1 DEF Reads
  <2> QED
    BY <2>1, <2>2, <2>3 DEF Steady
<1> QED
  <2>1. /\ graphPc'[u] \in {"map", "lockRegistry"} /\ call'[u] = "ungroup" =>
              list'[u] = inside'[g] \/ \E i : Has(list'[u], i) /\ Disappears(i)'
        /\ graphPc'[u] \in {"lockGroups", "readScene", "ungroup"} /\ call'[u] = "ungroup" =>
              list'[u] = inside'[g] /\ \A i : Has(list'[u], i) => IsRegistered(i)'
    BY <1>1, <1>6, <1>7, Zenon
  <2>2. graphPc'[u] \in Reads =>
           \A i : /\ Has(inside'[g], i) => Has(list'[u], i)
                  /\ Has(list'[u], i) => Has(inside'[g], i) \/ i \in removed'
    BY <1>1, <1>4
  <2> QED
    BY <1>1, <2>1, <2>2 DEF Children

(* A steady step of a thread leaves the calls of the others safe. *)
LEMMA OthersStaySafe ==
    ASSUME GraphInv, GraphInstance, GraphTypes', ApartAre',
           NEW t \in Threads, LeavesOthers(t), Steady(t)
    PROVE  \A u \in Threads : u # t => CallSafe(u)'
BY OthersInCall, OthersRegister, OthersRemove, OthersChildren, OthersReplace, Zenon DEF CallSafe

(* A step that leaves the scene, its groups and the handles alone. *)
LEMMA QuietIs ==
    ASSUME GraphInv, NEW t \in Threads, LeavesOthers(t),
           UNCHANGED <<scene, inside, sourceOf, registry, groups, removed>>,
           graphPc[t] \notin {"register", "removing"}, graphPc'[t] # "register"
    PROVE  OnePlace' /\ HandlesMatch' /\ Steady(t)
<1>1. \A i : /\ IsRegistered(i)' <=> IsRegistered(i)
             /\ IsAttached(i)' <=> IsAttached(i)
             /\ IsPending(i)' <=> IsPending(i)
  <2>1. \A i : IsPending(i)' <=> IsPending(i)
    BY DEF IsPending, LeavesOthers
  <2>2. Graph!GroupItems' = Graph!GroupItems
    BY DEF Graph!GroupItems, Graph!Made
  <2> QED
    BY <2>1, <2>2 DEF IsRegistered, IsAttached
<1>2. OnePlace'
  <2>1. Graph!GroupItems' = Graph!GroupItems
    BY DEF Graph!GroupItems, Graph!Made
  <2> QED
    BY <2>1 DEF GraphInv, OnePlace
<1>3. HandlesMatch'
  BY <1>1 DEF GraphInv, HandlesMatch
<1>4. Steady(t)
  BY <1>1 DEF Steady, Graph!Made
<1> QED
  BY <1>2, <1>3, <1>4

-----------------------------------------------------------------------------
(* Steps that leave the scene alone *)

(* The types of where the threads are and of the locks. *)
LocalTypes ==
    /\ graphPc \in [Threads -> GraphStages] /\ call \in [Threads -> GraphCalls \cup {None}]
    /\ subject \in [Threads -> Graph!Made \cup {0}]
    /\ list \in [Threads -> Seq(Graph!Made)] /\ others \in [Threads -> SUBSET Graph!Made]
    /\ registryLock \in Threads \cup {None} /\ groupsLock \in Threads \cup {None}
    /\ operationLock \in [Graph!GroupItems -> Threads \cup {None}]

LEMMA LocalsAre ==
    /\ GraphTypes => LocalTypes
    /\ UNCHANGED sourceOf => Graph!Made' = Graph!Made /\ Graph!GroupItems' = Graph!GroupItems
BY DEF GraphTypes, LocalTypes, Graph!TypeOK, Graph!Made, Graph!GroupItems

LEMMA QuietTypes ==
    ASSUME GraphTypes, LocalTypes', UNCHANGED <<scene, inside, sourceOf, registry, groups, removed>>
    PROVE  GraphTypes'
BY LocalsAre DEF GraphTypes, LocalTypes, Graph!TypeOK

(* A call that is over is safe. *)
LEMMA IdleIsSafe ==
    ASSUME GraphInstance, NEW t \in Threads, graphPc'[t] = "idle", call'[t] = None
    PROVE  CallSafe(t)'
BY DEF GraphInstance, GraphCalls, CallSafe, InCall, HasLocks, Registers, Removes, Children,
       Replaces, Reads, WithOperation, WithRegistry, WithGroups

LEMMA ReturnIsSafe ==
    ASSUME GraphInstance, GraphInv, NEW t \in Threads, Graph!Return(t), UNCHANGED sourceOf
    PROVE  /\ LocalTypes' /\ LeavesOthers(t) /\ CallSafe(t)' /\ ApartAre'
           /\ graphPc'[t] = "idle" /\ call'[t] = None
<1> USE DEF GraphInv
<1>1. LocalTypes'
  BY ReturnIs, LocalsAre DEF LocalTypes
<1>2. /\ LeavesOthers(t) /\ graphPc'[t] = "idle" /\ call'[t] = None
  BY ReturnIs
<1> QED
  BY <1>1, <1>2, IdleIsSafe, ApartStays

(* A thread goes on. *)
LEMMA GotoIs ==
    ASSUME GraphTypes, NEW t \in Threads, NEW to \in GraphStages, Graph!Goto(t, to)
    PROVE  /\ graphPc' \in [Threads -> GraphStages] /\ graphPc'[t] = to
           /\ \A u \in Threads : u # t => graphPc'[u] = graphPc[u]
<1> HIDE DEF GraphStages
<1> QED
  BY DEF GraphTypes, Graph!Goto

(* After the group's part of a call. *)
LEMMA LeaveIs ==
    ASSUME GraphInstance, GraphInv, NEW t \in Threads, Graph!Leave(t), UNCHANGED sourceOf,
           graphPc[t] \in {"operation", "removeGroup"}, groups' \subseteq groups,
           removed \subseteq removed',
           call[t] \in {"clear", "removeGroupItem"} => subject[t] \in removed'
    PROVE  /\ LocalTypes' /\ LeavesOthers(t) /\ CallSafe(t)' /\ ApartAre'
           /\ graphPc'[t] \in {"idle", "nextGroup", "prune"} /\ call'[t] \in {call[t], None}
<1>1. CASE call[t] \notin {"clear", "removeGroupItem"}
  <2>1. Graph!Return(t)
    BY <1>1 DEF Graph!Leave
  <2> QED
    BY <2>1, ReturnIsSafe
<1>2. CASE call[t] \in {"clear", "removeGroupItem"}
  <2> DEFINE to == IF call[t] = "clear" THEN "nextGroup" ELSE "prune"
  <2>1. /\ Graph!Goto(t, to) /\ list' = [list EXCEPT ![t] = <<>>] /\ Graph!Unlock(t)
        /\ UNCHANGED <<call, subject, others>>
    BY <1>2 DEF Graph!Leave
  <2>2. GraphTypes /\ LocalTypes /\ CallSafe(t) /\ ApartAre
    BY LocalsAre DEF GraphInv
  <2>3. to \in GraphStages
    BY DEF GraphStages
  <2>4. /\ graphPc' \in [Threads -> GraphStages] /\ graphPc'[t] = to
        /\ \A u \in Threads : u # t => graphPc'[u] = graphPc[u]
    BY <2>1, <2>2, <2>3, GotoIs
  <2>5. LocalTypes'
    BY <2>1, <2>2, <2>4, UnlockIs, LocalsAre DEF LocalTypes
  <2>6. LeavesOthers(t)
    BY <2>1, <2>2, <2>4, UnlockIs DEF LeavesOthers, LocalTypes
  <2>7. ApartAre'
    BY <2>1, <2>2, <2>6, ApartStays
  <2>8. call[t] # None
    BY <1>2 DEF GraphInstance, GraphCalls
  <2>9. InCall(t)' /\ HasLocks(t)' /\ Registers(t)' /\ Children(t)' /\ Replaces(t)'
    <3>1. list'[t] = <<>> /\ call'[t] = call[t]
      BY <2>1, <2>2 DEF LocalTypes
    <3>2. InCall(t)'
      BY <1>2, <2>4, <2>8, <3>1 DEF InCall, Reads, WithOperation, WithRegistry, WithGroups
    <3> QED
      BY <1>2, <2>4, <3>1, <3>2
      DEF HasLocks, Registers, Children, Replaces, Reads, WithOperation, WithRegistry, WithGroups
  <2>10. Removes(t)'
    BY <1>2, <2>1, <2>2, <2>4, LocalsAre DEF Removes, CallSafe
  <2> QED
    BY <2>1, <2>4, <2>5, <2>6, <2>7, <2>9, <2>10 DEF CallSafe
<1> QED
  BY <1>1, <1>2

(* What a quiet step must show. *)
LEMMA QuietIsSafe ==
    ASSUME GraphInstance, GraphInv, NEW t \in Threads, LeavesOthers(t), LocalTypes', ApartAre',
           CallSafe(t)', UNCHANGED <<scene, inside, sourceOf, registry, groups, removed>>,
           graphPc[t] \notin {"register", "removing"}, graphPc'[t] # "register"
    PROVE  GraphInv'
<1>1. GraphTypes'
  BY QuietTypes DEF GraphInv
<1>2. OnePlace' /\ HandlesMatch' /\ Steady(t)
  BY QuietIs
<1>3. \A u \in Threads : u # t => CallSafe(u)'
  BY <1>1, <1>2, OthersStaySafe
<1> QED
  BY <1>1, <1>2, <1>3, Zenon DEF GraphInv

(* Where a call starts, on a group or with the registry. *)
LEMMA GroupCallIsSafe ==
    ASSUME GraphInstance, GraphInv, NEW t \in Threads, NEW g \in Graph!GroupItems,
           NEW name \in GraphCalls, NEW handles \in Seq(Graph!Made),
           IF name \in {"addItem", "takeItem"} THEN Len(handles) = 1
           ELSE handles = <<>> /\ name \in {"ungroup", "removeGroup", "removeGroupItem"},
           Graph!GroupCall(t, g, name, handles)
    PROVE  GraphInv'
<1>1. GraphTypes /\ LocalTypes /\ ApartAre /\ g \in Graph!Made
  BY LocalsAre DEF GraphInv, Graph!GroupItems
<1>2. /\ Graph!Enter(t, name, g, handles, {}, "operation")
      /\ UNCHANGED <<scene, inside, sourceOf, registry, groups, removed>>
      /\ UNCHANGED <<registryLock, groupsLock, operationLock>>
  BY DEF Graph!GroupCall, Graph!native, Graph!managed, Graph!locks
<1>3. /\ graphPc' \in [Threads -> GraphStages] /\ call' \in [Threads -> GraphCalls \cup {None}]
      /\ subject' \in [Threads -> Graph!Made \cup {0}]
      /\ list' \in [Threads -> Seq(Graph!Made)] /\ others' \in [Threads -> SUBSET Graph!Made]
      /\ graphPc[t] = "idle" /\ graphPc'[t] = "operation" /\ call'[t] = name /\ subject'[t] = g
      /\ list'[t] = handles /\ others'[t] = {}
      /\ \A u \in Threads : u # t =>
            /\ graphPc'[u] = graphPc[u] /\ call'[u] = call[u] /\ subject'[u] = subject[u]
            /\ list'[u] = list[u] /\ others'[u] = others[u]
  <2>1. /\ "operation" \in GraphStages /\ g \in Graph!Made \cup {0}
        /\ {} \in SUBSET Graph!Made /\ Graph!Made \subseteq Graph!Made
    BY <1>1 DEF GraphStages
  <2> QED
    BY <1>1, <1>2, <2>1 DEF LocalTypes, Graph!Enter, Graph!Goto
<1>4. ApartAre'
  BY <1>1, <1>2, EnterApart
<1>5. LocalTypes' /\ LeavesOthers(t)
  BY <1>1, <1>2, <1>3, LocalsAre DEF LocalTypes, LeavesOthers
<1>6. CallSafe(t)'
  <2>1. name # None /\ name # "clear"
    BY DEF GraphInstance
  <2>2. InCall(t)'
    BY <1>2, <1>3, <2>1, LocalsAre DEF InCall, Reads, WithOperation
  <2> QED
    BY <1>2, <1>3, <2>1, <2>2
    DEF CallSafe, HasLocks, Registers, Removes, Children, Replaces, Reads, WithOperation,
        WithRegistry, WithGroups
<1> QED
  BY <1>2, <1>3, <1>4, <1>5, <1>6, QuietIsSafe

LEMMA RemoveSourcesIsSafe ==
    ASSUME GraphInstance, GraphInv, NEW t \in Threads, NEW from \in SUBSET SceneSources,
           NEW name \in {"removeSource", "clear"}, Graph!RemoveSources(t, from, name)
    PROVE  GraphInv'
<1> DEFINE set == UNION {registry[s] : s \in from}
<1>1. GraphTypes /\ LocalTypes /\ ApartAre
  BY LocalsAre DEF GraphInv
<1>2. /\ Graph!Enter(t, name, 0, <<>>, set, "removing")
      /\ UNCHANGED <<scene, inside, sourceOf, registry, groups, removed>>
      /\ UNCHANGED <<groupsLock, operationLock>> /\ registryLock = None /\ registryLock' = t
  BY DEF Graph!RemoveSources, Graph!native, Graph!managed
<1>3. /\ graphPc' \in [Threads -> GraphStages] /\ call' \in [Threads -> GraphCalls \cup {None}]
      /\ subject' \in [Threads -> Graph!Made \cup {0}]
      /\ list' \in [Threads -> Seq(Graph!Made)] /\ others' \in [Threads -> SUBSET Graph!Made]
      /\ graphPc[t] = "idle" /\ graphPc'[t] = "removing" /\ call'[t] = name /\ subject'[t] = 0
      /\ list'[t] = <<>> /\ others'[t] = set
      /\ \A u \in Threads : u # t =>
            /\ graphPc'[u] = graphPc[u] /\ call'[u] = call[u] /\ subject'[u] = subject[u]
            /\ list'[u] = list[u] /\ others'[u] = others[u]
  <2>1. "removing" \in GraphStages /\ name \in GraphCalls
    BY DEF GraphStages, GraphCalls
  <2>2. set \in SUBSET Graph!Made
    BY <1>1 DEF GraphTypes, Graph!TypeOK
  <2>3. /\ <<>> \in Seq(Graph!Made) /\ 0 \in Graph!Made \cup {0}
        /\ Graph!Made \subseteq Graph!Made
    OBVIOUS
  <2> HIDE DEF set
  <2> QED
    BY <1>1, <1>2, <2>1, <2>2, <2>3 DEF LocalTypes, Graph!Enter, Graph!Goto
<1>4. ApartAre'
  <2>1. name \in GraphCalls
    BY DEF GraphCalls
  <2> QED
    BY <1>1, <1>2, <2>1, EnterApart
<1>5. LocalTypes' /\ LeavesOthers(t)
  <2>1. None # t /\ \A u \in Threads : registryLock # u
    BY <1>2 DEF GraphInstance
  <2> QED
    BY <1>1, <1>2, <1>3, <2>1, LocalsAre DEF LocalTypes, LeavesOthers
<1>6. CallSafe(t)'
  <2>1. name # None
    BY DEF GraphInstance, GraphCalls
  <2>2. InCall(t)'
    BY <1>2, <1>3, <2>1, LocalsAre DEF InCall, Reads, WithOperation
  <2>3. HasLocks(t)'
    BY <1>2, <1>3 DEF HasLocks, WithRegistry, WithGroups, Reads, WithOperation
  <2>4. Removes(t)'
    BY <1>2, <1>3 DEF Removes, IsRegistered
  <2> QED
    BY <1>2, <1>3, <2>1, <2>2, <2>3, <2>4
    DEF CallSafe, Registers, Children, Replaces, Reads
<1> QED
  BY <1>2, <1>3, <1>4, <1>5, <1>6, QuietIsSafe

LEMMA RemovedFromSceneIsSafe ==
    ASSUME GraphInstance, GraphInv, NEW t \in Threads, Graph!RemovedFromScene(t)
    PROVE  GraphInv'
<1>1. /\ graphPc[t] = "return" /\ Graph!Return(t)
      /\ UNCHANGED <<scene, inside, sourceOf, registry, groups, removed>>
  BY DEF Graph!RemovedFromScene, Graph!native, Graph!managed
<1> QED
  BY <1>1, ReturnIsSafe, QuietIsSafe

(* A step that reads, locks or goes on, within a call. *)
LEMMA StepIsSafe ==
    ASSUME GraphInstance, GraphInv, NEW t \in Threads, LeavesOthers(t), LocalTypes',
           CallSafe(t)', UNCHANGED <<scene, inside, sourceOf, registry, groups, removed>>,
           graphPc[t] \notin {"register", "removing"}, graphPc'[t] # "register",
           call'[t] \in {call[t], None}
    PROVE  GraphInv'
BY ApartStays, QuietIsSafe DEF GraphInv

LEMMA ReadGroupsIsSafe ==
    ASSUME GraphInstance, GraphInv, NEW t \in Threads, Graph!ReadGroups(t)
    PROVE  GraphInv'
<1>1. LocalTypes /\ groups \in SUBSET Graph!Made /\ groups \subseteq Graph!GroupItems
      /\ CallSafe(t)
  BY LocalsAre DEF GraphInv, GraphTypes, Graph!TypeOK, Graph!GroupItems
<1>2. /\ graphPc[t] = "readGroups" /\ graphPc' = [graphPc EXCEPT ![t] = "nextGroup"]
      /\ others' = [others EXCEPT ![t] = groups]
      /\ UNCHANGED <<scene, inside, sourceOf, registry, groups, removed>>
      /\ UNCHANGED <<registryLock, groupsLock, operationLock, call, subject, list>>
  BY DEF Graph!ReadGroups, Graph!Goto, Graph!native, Graph!managed, Graph!locks
<1>3. "nextGroup" \in GraphStages
  BY DEF GraphStages
<1>4. LocalTypes' /\ LeavesOthers(t) /\ graphPc'[t] = "nextGroup" /\ others'[t] = groups
  BY <1>1, <1>2, <1>3, LocalsAre DEF LocalTypes, LeavesOthers
<1>5. CallSafe(t)'
  BY <1>1, <1>2, <1>4, LocalsAre
  DEF CallSafe, InCall, HasLocks, Registers, Removes, Children, Replaces, Reads, WithOperation,
      WithRegistry, WithGroups
<1> QED
  BY <1>2, <1>4, <1>5, StepIsSafe

LEMMA NextGroupIsSafe ==
    ASSUME GraphInstance, GraphInv, NEW t \in Threads, Graph!NextGroup(t)
    PROVE  GraphInv'
<1>1. LocalTypes /\ CallSafe(t)
  BY LocalsAre DEF GraphInv
<1>2. PICK g \in others[t] :
         /\ graphPc[t] = "nextGroup" /\ graphPc' = [graphPc EXCEPT ![t] = "operation"]
         /\ subject' = [subject EXCEPT ![t] = g]
         /\ others' = [others EXCEPT ![t] = @ \ {g}]
         /\ UNCHANGED <<scene, inside, sourceOf, registry, groups, removed>>
         /\ UNCHANGED <<registryLock, groupsLock, operationLock, call, list>>
  BY DEF Graph!NextGroup, Graph!Goto, Graph!native, Graph!managed, Graph!locks
<1>3. call[t] = "clear" /\ list[t] = <<>> /\ others[t] \subseteq Graph!GroupItems
  BY <1>1, <1>2 DEF CallSafe, InCall, Removes
<1>4. "operation" \in GraphStages /\ g \in Graph!Made
  BY <1>3 DEF GraphStages, Graph!GroupItems
<1>5. /\ LocalTypes' /\ LeavesOthers(t) /\ graphPc'[t] = "operation" /\ subject'[t] = g
      /\ others'[t] = others[t] \ {g}
  BY <1>1, <1>2, <1>4, LocalsAre DEF LocalTypes, LeavesOthers
<1>6. CallSafe(t)'
  BY <1>1, <1>2, <1>3, <1>5, LocalsAre
  DEF CallSafe, InCall, HasLocks, Registers, Removes, Children, Replaces, Reads, WithOperation,
      WithRegistry, WithGroups
<1> QED
  BY <1>2, <1>5, <1>6, StepIsSafe

LEMMA TakeOperationIsSafe ==
    ASSUME GraphInstance, GraphInv, NEW t \in Threads, Graph!TakeOperation(t)
    PROVE  GraphInv'
<1>1. LocalTypes /\ CallSafe(t)
  BY LocalsAre DEF GraphInv
<1>2. /\ graphPc[t] = "operation" /\ operationLock[subject[t]] = None
      /\ UNCHANGED <<scene, inside, sourceOf, registry, groups, removed>>
  BY DEF Graph!TakeOperation, Graph!native, Graph!managed
<1>3. /\ subject[t] \in Graph!GroupItems
      /\ IF call[t] \in {"addItem", "takeItem"} THEN Len(list[t]) = 1
         ELSE list[t] = <<>> /\ call[t] \in {"clear", "ungroup", "removeGroup", "removeGroupItem"}
  BY <1>1, <1>2 DEF CallSafe, InCall
<1>4. CASE ({subject[t]} \cup Graph!Range(list[t])) \cap removed # {}
  <2>1. Graph!Leave(t)
    BY <1>4 DEF Graph!TakeOperation
  <2>2. call[t] \in {"clear", "removeGroupItem"} => subject[t] \in removed'
    <3>1. Graph!Range(<<>>) = {}
      BY DEF Graph!Range
    <3> QED
      BY <1>2, <1>3, <1>4, <3>1
  <2>3. /\ LocalTypes' /\ LeavesOthers(t) /\ CallSafe(t)' /\ ApartAre'
        /\ graphPc'[t] \in {"idle", "nextGroup", "prune"} /\ call'[t] \in {call[t], None}
    BY <1>2, <2>1, <2>2, LeaveIs
  <2> QED
    BY <1>2, <2>3, QuietIsSafe
<1>5. CASE ({subject[t]} \cup Graph!Range(list[t])) \cap removed = {}
  <2> DEFINE to == IF list[t] = <<>> THEN "children" ELSE "reparent"
  <2>1. /\ operationLock' = [operationLock EXCEPT ![subject[t]] = t]
        /\ graphPc' = [graphPc EXCEPT ![t] = to]
        /\ UNCHANGED <<registryLock, groupsLock, call, subject, list, others>>
    BY <1>5 DEF Graph!TakeOperation, Graph!Goto
  <2>2. to \in GraphStages
    BY DEF GraphStages
  <2>3. subject[t] \notin removed /\ Len(<<>>) = 0
    BY <1>5
  <2>4. /\ LocalTypes' /\ LeavesOthers(t) /\ graphPc'[t] = to /\ operationLock'[subject[t]] = t
    BY <1>1, <1>2, <1>3, <2>1, <2>2, LocalsAre DEF LocalTypes, LeavesOthers, GraphInstance
  <2>5. CallSafe(t)'
    <3>1. call[t] # None
      BY <1>3 DEF GraphInstance, GraphCalls
    <3>2. /\ call'[t] = call[t] /\ subject'[t] = subject[t] /\ list'[t] = list[t]
          /\ subject'[t] \in (Graph!GroupItems)' /\ Len(<<>>) = 0
      BY <1>2, <1>3, <2>1, LocalsAre, Zenon
    <3>3. InCall(t)'
      <4>1. CASE list[t] = <<>>
        <5>1. call[t] \in {"clear", "ungroup", "removeGroup", "removeGroupItem"}
          BY <1>3, <2>3, <4>1, SMT
        <5>2. graphPc'[t] = "children"
          BY <2>4, <4>1, Zenon
        <5> QED
          BY <3>1, <3>2, <5>1, <5>2 DEF InCall, Reads, WithOperation
      <4>2. CASE list[t] # <<>>
        <5>1. call[t] \in {"addItem", "takeItem"} /\ Len(list[t]) = 1
          BY <1>3, <4>2, Zenon
        <5>2. graphPc'[t] = "reparent"
          BY <2>4, <4>2, Zenon
        <5> QED
          BY <3>1, <3>2, <5>1, <5>2 DEF InCall, Reads, WithOperation
      <4> QED
        BY <4>1, <4>2
    <3>4. HasLocks(t)'
      BY <2>4, <3>2 DEF HasLocks, WithRegistry, WithGroups
    <3>5. Registers(t)' /\ Children(t)' /\ Replaces(t)'
      BY <1>2, <2>1, <2>3, <2>4 DEF Registers, Children, Replaces, Reads
    <3>6. Removes(t)'
      BY <1>1, <1>2, <2>1, <2>4, LocalsAre DEF CallSafe, Removes
    <3> QED
      BY <3>3, <3>4, <3>5, <3>6 DEF CallSafe
  <2> QED
    BY <1>2, <2>1, <2>4, <2>5, StepIsSafe
<1> QED
  BY <1>4, <1>5

LEMMA ReadChildrenIsSafe ==
    ASSUME GraphInstance, GraphInv, NEW t \in Threads, Graph!ReadChildren(t)
    PROVE  GraphInv'
<1>1. LocalTypes /\ CallSafe(t) /\ inside \in [Graph!GroupItems -> Seq(Graph!Made)]
  BY LocalsAre DEF GraphInv, GraphTypes, Graph!TypeOK
<1>2. /\ graphPc[t] = "children" /\ graphPc' = [graphPc EXCEPT ![t] = "map"]
      /\ list' = [list EXCEPT ![t] = inside[subject[t]]]
      /\ UNCHANGED <<scene, inside, sourceOf, registry, groups, removed>>
      /\ UNCHANGED <<registryLock, groupsLock, operationLock, call, subject, others>>
  BY DEF Graph!ReadChildren, Graph!Goto, Graph!native, Graph!managed, Graph!locks
<1>3. /\ subject[t] \in Graph!GroupItems /\ operationLock[subject[t]] = t
      /\ call[t] \in {"clear", "ungroup", "removeGroup", "removeGroupItem"}
      /\ subject[t] \notin removed
  BY <1>1, <1>2 DEF CallSafe, InCall, HasLocks, WithOperation, Replaces
<1>4. "map" \in GraphStages /\ call[t] # None
  BY <1>3 DEF GraphStages, GraphInstance, GraphCalls
<1>5. /\ LocalTypes' /\ LeavesOthers(t) /\ graphPc'[t] = "map"
      /\ list'[t] = inside[subject[t]]
  BY <1>1, <1>2, <1>3, <1>4, LocalsAre DEF LocalTypes, LeavesOthers
<1>6. CallSafe(t)'
  <2>1. InCall(t)' /\ HasLocks(t)' /\ Registers(t)'
    BY <1>2, <1>3, <1>4, <1>5, LocalsAre
    DEF InCall, HasLocks, Registers, Reads, WithOperation, WithRegistry, WithGroups
  <2>2. Children(t)' /\ Replaces(t)'
    BY <1>2, <1>3, <1>5 DEF Children, Replaces, Reads
  <2>3. Removes(t)'
    BY <1>1, <1>2, <1>5, LocalsAre DEF CallSafe, Removes
  <2> QED
    BY <2>1, <2>2, <2>3 DEF CallSafe
<1> QED
  BY <1>2, <1>5, <1>6, StepIsSafe

LEMMA MapChildrenIsSafe ==
    ASSUME GraphInstance, GraphInv, NEW t \in Threads, Graph!MapChildren(t)
    PROVE  GraphInv'
<1>1. LocalTypes /\ CallSafe(t)
  BY LocalsAre DEF GraphInv
<1>2. /\ graphPc[t] = "map" /\ UNCHANGED <<scene, inside, sourceOf, registry, groups, removed>>
  BY DEF Graph!MapChildren, Graph!native, Graph!managed
<1>3. CASE Graph!Return(t)
  BY <1>2, <1>3, ReturnIsSafe, QuietIsSafe
<1>4. CASE ~Graph!Return(t)
  <2>1. /\ graphPc' = [graphPc EXCEPT ![t] = "lockRegistry"]
        /\ UNCHANGED <<registryLock, groupsLock, operationLock, call, subject, list, others>>
    BY <1>4 DEF Graph!MapChildren, Graph!Goto, Graph!locks
  <2>2. "lockRegistry" \in GraphStages
    BY DEF GraphStages
  <2>3. LocalTypes' /\ LeavesOthers(t) /\ graphPc'[t] = "lockRegistry"
    BY <1>1, <1>2, <2>1, <2>2, LocalsAre DEF LocalTypes, LeavesOthers
  <2>4. CallSafe(t)'
    <3>1. InCall(t)' /\ HasLocks(t)' /\ Registers(t)' /\ Replaces(t)'
      BY <1>1, <1>2, <2>1, <2>3, LocalsAre
      DEF CallSafe, InCall, HasLocks, Registers, Replaces, Reads, WithOperation, WithRegistry, WithGroups
    <3>2. Removes(t)'
      BY <1>1, <1>2, <2>1, <2>3, LocalsAre DEF CallSafe, Removes
    <3>3. Children(t)'
      <4>1. \A i : Disappears(i) => Disappears(i)'
        BY <1>2, <2>1, <2>3 DEF Disappears, IsPending, IsRegistered, LeavesOthers
      <4> QED
        BY <1>1, <1>2, <2>1, <2>3, <4>1 DEF CallSafe, Children, Reads
    <3> QED
      BY <3>1, <3>2, <3>3 DEF CallSafe
  <2> QED
    BY <1>2, <2>1, <2>3, <2>4, StepIsSafe
<1> QED
  BY <1>3, <1>4

LEMMA LockRegistryIsSafe ==
    ASSUME GraphInstance, GraphInv, NEW t \in Threads, Graph!LockRegistry(t)
    PROVE  GraphInv'
<1>1. LocalTypes /\ CallSafe(t)
  BY LocalsAre DEF GraphInv
<1>2. /\ graphPc[t] = "lockRegistry" /\ registryLock = None
      /\ UNCHANGED <<scene, inside, sourceOf, registry, groups, removed>>
  BY DEF Graph!LockRegistry, Graph!native, Graph!managed
<1>3. CASE Graph!Return(t)
  BY <1>2, <1>3, ReturnIsSafe, QuietIsSafe
<1>4. CASE ~Graph!Return(t)
  <2>1. /\ graphPc' = [graphPc EXCEPT ![t] = "lockGroups"] /\ registryLock' = t
        /\ UNCHANGED <<groupsLock, operationLock, call, subject, list, others>>
        /\ Graph!Range(list[t]) \subseteq Graph!Registered
    BY <1>4 DEF Graph!LockRegistry, Graph!Goto
  <2>2. "lockGroups" \in GraphStages
    BY DEF GraphStages
  <2>3. LocalTypes' /\ LeavesOthers(t) /\ graphPc'[t] = "lockGroups"
    BY <1>1, <1>2, <2>1, <2>2, LocalsAre DEF LocalTypes, LeavesOthers, GraphInstance
  <2>4. \A i : Has(list[t], i) => IsRegistered(i)
    <3>1. list[t] \in Seq(Graph!Made)
      BY <1>1 DEF LocalTypes
    <3>2. \A i : Has(list[t], i) => i \in Graph!Range(list[t])
      BY <3>1, HasRange
    <3> QED
      BY <2>1, <3>2 DEF Graph!Registered, IsRegistered
  <2>5. call[t] = "ungroup" => list[t] = inside[subject[t]]
    <3> SUFFICES ASSUME call[t] = "ungroup", list[t] # inside[subject[t]] PROVE FALSE
      OBVIOUS
    <3>1. PICK i : Has(list[t], i) /\ Disappears(i)
      BY <1>1, <1>2 DEF CallSafe, Children
    <3>2. PICK u \in Threads : graphPc[u] = "removing"
      BY <2>4, <3>1 DEF Disappears
    <3>3. registryLock = u
      BY <3>2 DEF GraphInv, CallSafe, HasLocks, WithRegistry
    <3> QED
      BY <1>2, <3>3 DEF GraphInstance
  <2>6. CallSafe(t)'
    <3>1. InCall(t)' /\ HasLocks(t)' /\ Registers(t)' /\ Replaces(t)'
      BY <1>1, <1>2, <2>1, <2>3, LocalsAre
      DEF CallSafe, InCall, HasLocks, Registers, Replaces, Reads, WithOperation, WithRegistry, WithGroups
    <3>2. Removes(t)'
      BY <1>1, <1>2, <2>1, <2>3, LocalsAre DEF CallSafe, Removes
    <3>3. Children(t)'
      <4>1. \A i : IsRegistered(i) => IsRegistered(i)'
        BY <1>2 DEF IsRegistered
      <4> QED
        BY <1>1, <1>2, <2>1, <2>3, <2>4, <2>5, <4>1 DEF CallSafe, Children, Reads
    <3> QED
      BY <3>1, <3>2, <3>3 DEF CallSafe
  <2> QED
    BY <1>2, <2>1, <2>3, <2>6, StepIsSafe
<1> QED
  BY <1>3, <1>4

LEMMA LockGroupsIsSafe ==
    ASSUME GraphInstance, GraphInv, NEW t \in Threads, Graph!LockGroups(t)
    PROVE  GraphInv'
<1>1. LocalTypes /\ CallSafe(t)
  BY LocalsAre DEF GraphInv
<1>2. /\ graphPc[t] = "lockGroups" /\ groupsLock = None
      /\ UNCHANGED <<scene, inside, sourceOf, registry, groups, removed>>
  BY DEF Graph!LockGroups, Graph!native, Graph!managed
<1>3. CASE Graph!Return(t)
  BY <1>2, <1>3, ReturnIsSafe, QuietIsSafe
<1>4. CASE ~Graph!Return(t)
  <2> DEFINE to == IF call[t] = "ungroup" THEN "readScene" ELSE "removeGroup"
  <2>1. /\ graphPc' = [graphPc EXCEPT ![t] = to] /\ groupsLock' = t
        /\ UNCHANGED <<registryLock, operationLock, call, subject, list, others>>
        /\ call[t] = "ungroup" => subject[t] \in groups
    BY <1>4 DEF Graph!LockGroups, Graph!Goto
  <2>2. to \in GraphStages
    BY DEF GraphStages
  <2>3. LocalTypes' /\ LeavesOthers(t) /\ graphPc'[t] = to
    BY <1>1, <1>2, <2>1, <2>2, LocalsAre DEF LocalTypes, LeavesOthers, GraphInstance
  <2>4. CallSafe(t)'
    <3>1. InCall(t)' /\ HasLocks(t)' /\ Registers(t)'
      BY <1>1, <1>2, <2>1, <2>3, LocalsAre
      DEF CallSafe, InCall, HasLocks, Registers, Reads, WithOperation, WithRegistry, WithGroups
    <3>2. Removes(t)'
      BY <1>1, <1>2, <2>1, <2>3, LocalsAre DEF CallSafe, Removes
    <3>3. Children(t)'
      <4>1. \A i : IsRegistered(i) => IsRegistered(i)'
        BY <1>2 DEF IsRegistered
      <4> QED
        BY <1>1, <1>2, <2>1, <2>3, <4>1 DEF CallSafe, Children, Reads
    <3>4. Replaces(t)'
      BY <1>1, <1>2, <2>1, <2>3 DEF CallSafe, Replaces, Reads
    <3> QED
      BY <3>1, <3>2, <3>3, <3>4 DEF CallSafe
  <2> QED
    BY <1>2, <2>1, <2>3, <2>4, StepIsSafe
<1> QED
  BY <1>3, <1>4

LEMMA ReadSceneIsSafe ==
    ASSUME GraphInstance, GraphInv, NEW t \in Threads, Graph!ReadScene(t)
    PROVE  GraphInv'
<1>1. LocalTypes /\ CallSafe(t) /\ scene \in Seq(Graph!Made)
  BY LocalsAre DEF GraphInv, GraphTypes, Graph!TypeOK
<1>2. /\ graphPc[t] = "readScene" /\ graphPc' = [graphPc EXCEPT ![t] = "ungroup"]
      /\ others' = [others EXCEPT ![t] = Graph!Range(scene)]
      /\ UNCHANGED <<scene, inside, sourceOf, registry, groups, removed>>
      /\ UNCHANGED <<registryLock, groupsLock, operationLock, call, subject, list>>
  BY DEF Graph!ReadScene, Graph!Goto, Graph!native, Graph!managed, Graph!locks
<1>3. /\ Graph!Range(scene) \in SUBSET Graph!Made
      /\ \A i, g : Upto(scene, i, g) => i \in Graph!Range(scene)
  <2>1. \A i : i \in Graph!Range(scene) <=> Has(scene, i)
    BY <1>1, HasRange
  <2>2. \A i : Has(scene, i) => i \in Graph!Made
    BY <1>1, HasElement
  <2> QED
    BY <2>1, <2>2 DEF Upto, Has
<1>4. "ungroup" \in GraphStages
  BY DEF GraphStages
<1>5. /\ LocalTypes' /\ LeavesOthers(t) /\ graphPc'[t] = "ungroup"
      /\ others'[t] = Graph!Range(scene)
  BY <1>1, <1>2, <1>3, <1>4, LocalsAre DEF LocalTypes, LeavesOthers
<1>6. CallSafe(t)'
  <2>1. InCall(t)' /\ HasLocks(t)' /\ Registers(t)'
    BY <1>1, <1>2, <1>5, LocalsAre
    DEF CallSafe, InCall, HasLocks, Registers, Reads, WithOperation, WithRegistry, WithGroups
  <2>2. call[t] = "ungroup"
    BY <1>1, <1>2 DEF CallSafe, InCall
  <2>3. Children(t)'
    <3>1. \A i : IsRegistered(i) => IsRegistered(i)'
      BY <1>2 DEF IsRegistered
    <3> QED
      BY <1>1, <1>2, <1>5, <3>1 DEF CallSafe, Children, Reads
  <2>4. Replaces(t)'
    BY <1>1, <1>2, <1>3, <1>5, LocalsAre DEF CallSafe, Replaces, Reads
  <2>5. Removes(t)'
    BY <1>2, <1>5, <2>2 DEF Removes
  <2> QED
    BY <2>1, <2>3, <2>4, <2>5 DEF CallSafe
<1> QED
  BY <1>2, <1>5, <1>6, StepIsSafe

-----------------------------------------------------------------------------
(* Steps that change the scene *)

(* A step that keeps the invariant's parts about the scene, and is steady. *)
LEMMA SteadyIsSafe ==
    ASSUME GraphInstance, GraphInv, NEW t \in Threads, LeavesOthers(t), Steady(t), GraphTypes',
           ApartAre', OnePlace', HandlesMatch', CallSafe(t)'
    PROVE  GraphInv'
<1>1. \A u \in Threads : u # t => CallSafe(u)'
  BY OthersStaySafe
<1> QED
  BY <1>1, Zenon DEF GraphInv

(* A new item, not yet registered. *)
LEMMA NewItemIsSafe ==
    ASSUME GraphInstance, GraphInv, NEW t \in Threads, NEW new, new = Len(sourceOf) + 1,
           NEW v \in SceneSources \cup {None}, Graph!NativeMake(<<v>>),
           NEW name \in {"add", "createGroup"}, name = "createGroup" <=> v = None,
           Graph!Enter(t, name, new, <<>>, {}, "register"), scene' = Append(scene, new),
           DOMAIN inside' = Graph!GroupItems', DOMAIN operationLock' = Graph!GroupItems',
           inside' = [g \in Graph!GroupItems' |-> IF g = new THEN <<>> ELSE inside[g]],
           operationLock' = [g \in Graph!GroupItems' |-> IF g = new THEN None ELSE operationLock[g]],
           UNCHANGED <<registry, groups, removed, registryLock, groupsLock>>
    PROVE  GraphInv'
<1>1. GraphTypes /\ LocalTypes /\ ApartAre /\ OnePlace /\ HandlesMatch
      /\ \A u \in Threads : CallSafe(u)
  BY LocalsAre DEF GraphInv
<1>2. /\ sourceOf' \in Seq(SceneSources \cup {None})
      /\ Graph!Made' = 1..(Len(sourceOf) + 1) /\ Graph!Made \subseteq Graph!Made'
      /\ \A i \in Graph!Made : sourceOf'[i] = sourceOf[i]
      /\ sourceOf'[new] = v /\ new \notin Graph!Made
      /\ Len(sourceOf) \in Nat /\ Graph!Made = 1..Len(sourceOf)
  <2>1. <<v>> \in Seq(SceneSources \cup {None}) /\ Len(<<v>>) = 1 /\ 1 \in 1..1 /\ <<v>>[1] = v
    OBVIOUS
  <2> QED
    BY <1>1, <2>1, MakeIs, MadeAre
<1>3. /\ \A i \in Graph!Made' : i \in Graph!Made \/ i = new
      /\ new \in Graph!Made'
  BY <1>2
<1>4. /\ \A g : g \in Graph!GroupItems' <=> g \in Graph!GroupItems \/ (g = new /\ v = None)
      /\ new \notin Graph!GroupItems /\ \A g \in Graph!GroupItems : g \in Graph!Made
  BY <1>2, <1>3 DEF Graph!GroupItems
<1>5. /\ graphPc' \in [Threads -> GraphStages] /\ call' \in [Threads -> GraphCalls \cup {None}]
      /\ subject' \in [Threads -> Graph!Made' \cup {0}]
      /\ list' \in [Threads -> Seq(Graph!Made')] /\ others' \in [Threads -> SUBSET Graph!Made']
      /\ graphPc[t] = "idle" /\ graphPc'[t] = "register" /\ call'[t] = name /\ subject'[t] = new
      /\ list'[t] = <<>> /\ others'[t] = {}
      /\ \A u \in Threads : u # t =>
            /\ graphPc'[u] = graphPc[u] /\ call'[u] = call[u] /\ subject'[u] = subject[u]
            /\ list'[u] = list[u] /\ others'[u] = others[u]
  <2>1. "register" \in GraphStages /\ name \in GraphCalls /\ <<>> \in Seq(Graph!Made')
    BY DEF GraphStages, GraphCalls
  <2>2. /\ graphPc[t] = "idle" /\ graphPc' = [graphPc EXCEPT ![t] = "register"]
        /\ call' = [call EXCEPT ![t] = name] /\ subject' = [subject EXCEPT ![t] = new]
        /\ list' = [list EXCEPT ![t] = <<>>] /\ others' = [others EXCEPT ![t] = {}]
    BY DEF Graph!Enter, Graph!Goto
  <2>3. /\ list \in [Threads -> Seq(Graph!Made')] /\ subject \in [Threads -> Graph!Made' \cup {0}]
        /\ others \in [Threads -> SUBSET Graph!Made']
    <3>1. \A s \in Seq(Graph!Made) : s \in Seq(Graph!Made')
      BY <1>2
    <3> QED
      BY <1>1, <1>2, <3>1 DEF LocalTypes
  <2> QED
    BY <1>1, <1>3, <2>1, <2>2, <2>3 DEF LocalTypes
<1>6. GraphTypes'
  <2>1. \A s \in Seq(Graph!Made) : s \in Seq(Graph!Made')
    BY <1>2
  <2>2. scene' \in Seq(Graph!Made')
    <3>1. scene \in Seq(Graph!Made')
      BY <1>1, <2>1 DEF GraphTypes, Graph!TypeOK
    <3> QED
      BY <1>3, <3>1, AppendProperties
  <2>3. inside' \in [Graph!GroupItems' -> Seq(Graph!Made')]
    <3>1. <<>> \in Seq(Graph!Made')
      OBVIOUS
    <3> QED
      BY <1>1, <1>4, <2>1, <3>1 DEF GraphTypes, Graph!TypeOK
  <2>4. operationLock' \in [Graph!GroupItems' -> Threads \cup {None}]
    BY <1>1, <1>4 DEF LocalTypes
  <2>5. /\ registry' \in [SceneSources -> SUBSET Graph!Made'] /\ groups' \subseteq Graph!GroupItems'
        /\ removed' \subseteq Graph!Made'
    BY <1>1, <1>2, <1>4 DEF GraphTypes, Graph!TypeOK
  <2>6. registryLock' \in Threads \cup {None} /\ groupsLock' \in Threads \cup {None}
    BY <1>1 DEF LocalTypes
  <2> QED
    BY <1>2, <1>5, <2>2, <2>3, <2>4, <2>5, <2>6 DEF GraphTypes, Graph!TypeOK
<1>7. LeavesOthers(t)
  BY <1>4, <1>5 DEF LeavesOthers
<1>8. ApartAre'
  <2>1. name \in GraphCalls
    BY DEF GraphCalls
  <2> QED
    BY <1>1, <2>1, EnterApart
<1>9. /\ Once(scene') /\ ~Has(scene, new) /\ \A i : Has(scene', i) <=> Has(scene, i) \/ i = new
      /\ \A i, g : Upto(scene', i, g) /\ g # new => Upto(scene, i, g)
      /\ \A i : Has(scene, i) => i \in Graph!Made
  <2>1. scene \in Seq(Graph!Made) /\ Once(scene)
    BY <1>1 DEF GraphTypes, Graph!TypeOK, OnePlace
  <2>2. scene \in Seq(Graph!Made')
    BY <1>2, <2>1
  <2>3. \A i : Has(scene, i) => i \in Graph!Made
    BY <2>1, HasElement
  <2> QED
    BY <1>2, <1>3, <2>1, <2>2, <2>3, AppendIs
<1>10. /\ \A g \in Graph!GroupItems : inside'[g] = inside[g]
       /\ \A g \in Graph!GroupItems' : \A i : Has(inside'[g], i) =>
             g \in Graph!GroupItems /\ Has(inside[g], i) /\ i \in Graph!Made /\ i # new
  <2>1. \A i : ~Has(<<>>, i)
    BY DEF Has
  <2>2. \A g \in Graph!GroupItems : \A i : Has(inside[g], i) => i \in Graph!Made
    BY <1>1, HasElement DEF GraphTypes, Graph!TypeOK
  <2>3. /\ \A g \in Graph!GroupItems : inside'[g] = inside[g]
        /\ \A g \in Graph!GroupItems' : g \notin Graph!GroupItems => inside'[g] = <<>>
    BY <1>4
  <2> QED
    BY <1>2, <2>1, <2>2, <2>3
<1>11. OnePlace'
  <2>1. \A g \in Graph!GroupItems' : Once(inside'[g])
    <3>1. Once(<<>>)
      BY DEF Once
    <3>2. \A g \in Graph!GroupItems' : g \notin Graph!GroupItems => inside'[g] = <<>>
      BY <1>4
    <3> QED
      BY <1>1, <1>10, <3>1, <3>2 DEF OnePlace
  <2>2. ASSUME NEW g \in Graph!GroupItems', NEW i, Has(inside'[g], i)
        PROVE  /\ ~Has(scene', i) /\ i \notin Graph!GroupItems'
               /\ \A h \in Graph!GroupItems' : Has(inside'[h], i) => h = g
    BY <1>1, <1>4, <1>9, <1>10, <2>2 DEF OnePlace
  <2> QED
    BY <1>9, <2>1, <2>2 DEF OnePlace
<1>12. /\ \A i : IsAttached(i)' <=> IsAttached(i) \/ i = new
       /\ \A i : IsPending(i)' <=> IsPending(i) \/ i = new
       /\ \A i : IsRegistered(i)' <=> IsRegistered(i)
       /\ \A i : IsRegistered(i) => i \in Graph!Made
  <2>1. \A i : IsAttached(i)' <=> IsAttached(i) \/ i = new
    BY <1>4, <1>9, <1>10 DEF IsAttached
  <2>2. \A i : IsPending(i)' <=> IsPending(i) \/ i = new
    BY <1>5 DEF IsPending
  <2>3. \A i : IsRegistered(i)' <=> IsRegistered(i)
    BY DEF IsRegistered
  <2>4. \A i : IsRegistered(i) => i \in Graph!Made
    BY <1>1 DEF IsRegistered, GraphTypes, Graph!TypeOK
  <2> QED
    BY <2>1, <2>2, <2>3, <2>4
<1>13. new \notin removed
  BY <1>1, <1>2 DEF GraphTypes, Graph!TypeOK
<1>14. HandlesMatch'
  <2>1. \A i : IsAttached(i)' <=> (IsRegistered(i)' \/ i \in groups' \/ IsPending(i)') /\ i \notin removed'
    BY <1>1, <1>12, <1>13 DEF HandlesMatch
  <2>2. \A s \in SceneSources : \A i \in registry'[s] : sourceOf'[i] = s
    BY <1>1, <1>2 DEF HandlesMatch, GraphTypes, Graph!TypeOK
  <2> QED
    BY <2>1, <2>2 DEF HandlesMatch
<1>15. Steady(t)
  BY <1>2, <1>4, <1>5, <1>9, <1>10, <1>12 DEF Steady
<1>16. CallSafe(t)'
  <2>1. name # None
    BY DEF GraphInstance, GraphCalls
  <2>2. Registers(t)'
    <3>1. \A u \in Threads : u # t /\ graphPc'[u] = "register" => subject'[u] \in Graph!Made
      BY <1>1, <1>5 DEF CallSafe, Registers
    <3>2. v # None => v \in SceneSources
      OBVIOUS
    <3>3. \A s \in SceneSources : new \notin registry'[s]
      BY <1>2, <1>12 DEF IsRegistered
    <3> QED
      BY <1>2, <1>3, <1>4, <1>5, <3>1, <3>2, <3>3 DEF Registers, IsRegistered
  <2>3. name # "clear"
    OBVIOUS
  <2> QED
    BY <1>5, <2>1, <2>2, <2>3
    DEF CallSafe, InCall, HasLocks, Removes, Children, Replaces, Reads, WithOperation,
        WithRegistry, WithGroups
<1> QED
  BY <1>6, <1>7, <1>8, <1>11, <1>14, <1>15, <1>16, SteadyIsSafe

LEMMA AddSourceIsSafe ==
    ASSUME GraphInstance, GraphInv, NEW t \in Threads, NEW s \in SceneSources, Graph!AddSource(t, s)
    PROVE  GraphInv'
<1> DEFINE new == Len(sourceOf) + 1
<1>1. GraphTypes /\ LocalTypes /\ inside \in [Graph!GroupItems -> Seq(Graph!Made)]
  BY LocalsAre DEF GraphInv, GraphTypes, Graph!TypeOK
<1>2. /\ Graph!Enter(t, "add", new, <<>>, {}, "register")
      /\ Graph!NativeMake(<<s>>) /\ scene' = Append(scene, new)
      /\ UNCHANGED <<inside, registry, groups, removed, registryLock, groupsLock, operationLock>>
  BY DEF Graph!AddSource, Graph!managed, Graph!locks
<1>3. s # None /\ s \in SceneSources \cup {None}
  BY DEF GraphInstance
<1>4. Graph!GroupItems' = Graph!GroupItems /\ new \notin Graph!GroupItems
  <2>1. <<s>> \in Seq(SceneSources \cup {None}) /\ Len(<<s>>) = 1 /\ 1 \in 1..1 /\ <<s>>[1] = s
    BY <1>3
  <2>2. /\ Graph!Made' = 1..(Len(sourceOf) + 1) /\ Graph!Made \subseteq Graph!Made'
        /\ \A i \in Graph!Made : sourceOf'[i] = sourceOf[i]
        /\ sourceOf'[new] = s /\ new \notin Graph!Made
        /\ Len(sourceOf) \in Nat /\ Graph!Made = 1..Len(sourceOf)
    BY <1>1, <1>2, <2>1, MakeIs, MadeAre
  <2>3. \A i \in Graph!Made' : i \in Graph!Made \/ i = new
    BY <2>2
  <2> QED
    BY <1>3, <2>2, <2>3 DEF Graph!GroupItems
<1>5. /\ DOMAIN inside' = Graph!GroupItems' /\ DOMAIN operationLock' = Graph!GroupItems'
      /\ inside' = [g \in Graph!GroupItems' |-> IF g = new THEN <<>> ELSE inside[g]]
      /\ operationLock' = [g \in Graph!GroupItems' |-> IF g = new THEN None ELSE operationLock[g]]
  <2>1. /\ inside' = inside /\ operationLock' = operationLock
        /\ operationLock \in [Graph!GroupItems -> Threads \cup {None}]
    BY <1>1, <1>2 DEF LocalTypes
  <2> QED
    BY <1>1, <1>4, <2>1
<1> QED
  BY <1>2, <1>3, <1>5, NewItemIsSafe

LEMMA CreateGroupIsSafe ==
    ASSUME GraphInstance, GraphInv, NEW t \in Threads, Graph!CreateGroup(t)
    PROVE  GraphInv'
<1> DEFINE new == Len(sourceOf) + 1
           Groups == Graph!GroupItems \cup {new}
<1>1. GraphTypes
  BY DEF GraphInv
<1>2. /\ Graph!Enter(t, "createGroup", new, <<>>, {}, "register")
      /\ Graph!NativeMake(<<None>>) /\ scene' = Append(scene, new)
      /\ inside' = [g \in Groups |-> IF g = new THEN <<>> ELSE inside[g]]
      /\ operationLock' = [g \in Groups |-> IF g = new THEN None ELSE operationLock[g]]
      /\ UNCHANGED <<registry, groups, removed, registryLock, groupsLock>>
  BY DEF Graph!CreateGroup, Graph!managed
<1>3. Graph!GroupItems' = Groups
  <2>1. /\ <<None>> \in Seq(SceneSources \cup {None}) /\ Len(<<None>>) = 1 /\ 1 \in 1..1
        /\ <<None>>[1] = None
    OBVIOUS
  <2>2. /\ Graph!Made' = 1..(Len(sourceOf) + 1) /\ Graph!Made \subseteq Graph!Made'
        /\ \A i \in Graph!Made : sourceOf'[i] = sourceOf[i]
        /\ sourceOf'[new] = None /\ new \notin Graph!Made
        /\ Len(sourceOf) \in Nat /\ Graph!Made = 1..Len(sourceOf)
    BY <1>1, <1>2, <2>1, MakeIs, MadeAre
  <2>3. /\ \A i \in Graph!Made' : i \in Graph!Made \/ i = new
        /\ new \in Graph!Made'
    BY <2>2
  <2> QED
    BY <2>2, <2>3 DEF Graph!GroupItems
<1>4. None \in SceneSources \cup {None}
  OBVIOUS
<1> QED
  BY <1>2, <1>3, <1>4, NewItemIsSafe

(* A new item is registered, under its source or as a group. *)
LEMMA RegisterIsSafe ==
    ASSUME GraphInstance, GraphInv, NEW t \in Threads, graphPc[t] = "register", Graph!Return(t),
           UNCHANGED <<scene, inside, sourceOf, removed>>,
           \/ /\ call[t] = "add" /\ UNCHANGED groups
              /\ registry' = [registry EXCEPT ![sourceOf[subject[t]]] = @ \cup {subject[t]}]
           \/ call[t] = "createGroup" /\ UNCHANGED registry /\ groups' = groups \cup {subject[t]}
    PROVE  GraphInv'
<1> DEFINE new == subject[t]
<1>1. GraphTypes /\ LocalTypes /\ OnePlace /\ HandlesMatch /\ CallSafe(t)
  BY LocalsAre DEF GraphInv
<1>2. /\ LocalTypes' /\ LeavesOthers(t) /\ CallSafe(t)' /\ ApartAre'
      /\ graphPc'[t] = "idle" /\ call'[t] = None
  BY ReturnIsSafe
<1>3. /\ new \in Graph!Made /\ ~IsRegistered(new)
      /\ call[t] = "add" => sourceOf[new] \in SceneSources
      /\ call[t] = "createGroup" => new \in Graph!GroupItems
      /\ \A u \in Threads : graphPc[u] = "register" /\ subject[u] = new => u = t
  BY <1>1 DEF CallSafe, Registers
<1>4. Graph!Made' = Graph!Made /\ Graph!GroupItems' = Graph!GroupItems
  BY LocalsAre
<1>5. /\ registry' \in [SceneSources -> SUBSET Graph!Made] /\ groups' \subseteq Graph!GroupItems
      /\ \A i : IsRegistered(i)' <=> IsRegistered(i) \/ (call[t] = "add" /\ i = new)
      /\ \A i : i \in groups' <=> i \in groups \/ (call[t] = "createGroup" /\ i = new)
      /\ \A s \in SceneSources : \A i \in registry'[s] : i \in registry[s] \/ (i = new /\ s = sourceOf[new])
  <2>1. CASE call[t] = "add"
    <3>1. /\ UNCHANGED groups /\ registry \in [SceneSources -> SUBSET Graph!Made]
          /\ registry' = [registry EXCEPT ![sourceOf[new]] = @ \cup {new}]
          /\ sourceOf[new] \in SceneSources /\ groups \subseteq Graph!GroupItems
      BY <1>1, <1>3, <2>1 DEF GraphTypes, Graph!TypeOK
    <3> HIDE DEF new
    <3>2. /\ registry' \in [SceneSources -> SUBSET Graph!Made]
          /\ \A s \in SceneSources :
                registry'[s] = IF s = sourceOf[new] THEN registry[s] \cup {new} ELSE registry[s]
      BY <1>3, <3>1
    <3>3. \A i : IsRegistered(i)' <=> IsRegistered(i) \/ i = new
      BY <3>1, <3>2 DEF IsRegistered
    <3> QED
      BY <2>1, <3>1, <3>2, <3>3
  <2>2. CASE call[t] = "createGroup"
    <3>1. registry \in [SceneSources -> SUBSET Graph!Made] /\ groups \subseteq Graph!GroupItems
      BY <1>1 DEF GraphTypes, Graph!TypeOK
    <3> QED
      BY <1>3, <2>2, <3>1 DEF IsRegistered
  <2> QED
    BY <2>1, <2>2
<1>6. GraphTypes'
  BY <1>1, <1>2, <1>4, <1>5 DEF GraphTypes, LocalTypes, Graph!TypeOK
<1>7. OnePlace'
  BY <1>1, <1>4 DEF OnePlace
<1>8. HandlesMatch'
  <2>1. \A i : IsAttached(i)' <=> IsAttached(i)
    BY <1>4 DEF IsAttached
  <2>2. \A i : IsPending(i) <=> IsPending(i)' \/ i = new
    BY <1>2, <1>3 DEF IsPending, LeavesOthers
  <2>3. \A i : IsAttached(i)' <=> (IsRegistered(i)' \/ i \in groups' \/ IsPending(i)') /\ i \notin removed'
    <3> HIDE DEF new
    <3> QED
      BY <1>1, <1>5, <2>1, <2>2 DEF HandlesMatch
  <2>4. \A s \in SceneSources : \A i \in registry'[s] : sourceOf'[i] = s
    BY <1>1, <1>5 DEF HandlesMatch
  <2> QED
    BY <2>3, <2>4 DEF HandlesMatch
<1>9. Steady(t)
  BY <1>2, <1>4, <1>5 DEF Steady
<1> QED
  BY <1>2, <1>6, <1>7, <1>8, <1>9, SteadyIsSafe

(* What libobs does when it removes an item. *)
LEMMA NativeRemoveIs ==
    ASSUME GraphTypes, OnePlace, NEW i, Graph!NativeRemove(i)
    PROVE  /\ Graph!Made' = Graph!Made /\ Graph!GroupItems' = Graph!GroupItems
           /\ scene' \in Seq(Graph!Made) /\ inside' \in [Graph!GroupItems -> Seq(Graph!Made)]
           /\ sourceOf' = sourceOf /\ OnePlace'
           /\ \A x : Has(scene', x) <=> Has(scene, x) /\ x # i
           /\ \A x, y : Upto(scene', x, y) => Upto(scene, x, y)
           /\ \A g \in Graph!GroupItems : g # i =>
                 /\ \A x : Has(inside'[g], x) <=> Has(inside[g], x) /\ x # i
                 /\ ~Has(inside[g], i) => inside'[g] = inside[g]
           /\ \A x : i \in Graph!GroupItems => ~Has(inside'[i], x)
           /\ i \in Graph!GroupItems => inside'[i] = <<>>
<1>1. /\ scene \in Seq(Graph!Made) /\ inside \in [Graph!GroupItems -> Seq(Graph!Made)]
      /\ Once(scene) /\ \A g \in Graph!GroupItems : Once(inside[g])
  BY DEF GraphTypes, Graph!TypeOK, OnePlace
<1>2. /\ scene' = Graph!Without(scene, i) /\ sourceOf' = sourceOf
      /\ inside' = [g \in Graph!GroupItems |-> IF g = i THEN <<>> ELSE Graph!Without(inside[g], i)]
  BY DEF Graph!NativeRemove
<1>3. Graph!Made' = Graph!Made /\ Graph!GroupItems' = Graph!GroupItems
  BY <1>2, LocalsAre
<1>4. /\ scene' \in Seq(Graph!Made) /\ Once(scene')
      /\ \A x : Has(scene', x) <=> Has(scene, x) /\ x # i
      /\ \A x, y : Upto(scene', x, y) => Upto(scene, x, y)
  BY <1>1, <1>2, WithoutIs
<1>5. <<>> \in Seq(Graph!Made) /\ Once(<<>>) /\ \A x : ~Has(<<>>, x)
  BY DEF Once, Has
<1>6. ASSUME NEW g \in Graph!GroupItems, g # i
      PROVE  /\ inside'[g] \in Seq(Graph!Made) /\ Once(inside'[g])
             /\ \A x : Has(inside'[g], x) <=> Has(inside[g], x) /\ x # i
             /\ ~Has(inside[g], i) => inside'[g] = inside[g]
  <2>1. inside'[g] = Graph!Without(inside[g], i) /\ inside[g] \in Seq(Graph!Made) /\ Once(inside[g])
    BY <1>1, <1>2, <1>6
  <2> QED
    BY <2>1, WithoutIs
<1>7. i \in Graph!GroupItems => inside'[i] = <<>>
  BY <1>2
<1>8. inside' \in [Graph!GroupItems -> Seq(Graph!Made)]
  <2>1. \A g \in Graph!GroupItems : inside'[g] \in Seq(Graph!Made)
    BY <1>5, <1>6, <1>7
  <2> QED
    BY <1>2, <2>1
<1>9. OnePlace'
  <2>1. \A g \in Graph!GroupItems : Once(inside'[g])
    BY <1>5, <1>6, <1>7
  <2>2. \A g \in Graph!GroupItems : \A x : Has(inside'[g], x) => Has(inside[g], x)
    BY <1>5, <1>6, <1>7
  <2> QED
    BY <1>3, <1>4, <2>1, <2>2 DEF OnePlace
<1> QED
  BY <1>2, <1>3, <1>4, <1>5, <1>6, <1>7, <1>8, <1>9

(* An item that shows a source is removed by its handle. *)
LEMMA RemoveItemIsSafe ==
    ASSUME GraphInstance, GraphInv, NEW t \in Threads, LeavesOthers(t), LocalTypes', ApartAre',
           CallSafe(t)', NEW i \in Graph!Made \ Graph!GroupItems, Graph!NativeRemove(i),
           removed' = removed \cup {i}, UNCHANGED <<registry, groups>>,
           graphPc[t] # "register", graphPc'[t] # "register",
           \/ call'[t] = "removeItem" /\ graphPc[t] = "idle"
           \/ /\ registryLock = t /\ IsRegistered(i) /\ i \in others[t]
              /\ graphPc'[t] = "removing" /\ others'[t] = others[t]
    PROVE  GraphInv'
<1>1. GraphTypes /\ OnePlace /\ HandlesMatch /\ \A u \in Threads : CallSafe(u)
  BY DEF GraphInv
<1>2. /\ Graph!Made' = Graph!Made /\ Graph!GroupItems' = Graph!GroupItems
      /\ scene' \in Seq(Graph!Made) /\ inside' \in [Graph!GroupItems -> Seq(Graph!Made)]
      /\ sourceOf' = sourceOf /\ OnePlace'
      /\ \A x : Has(scene', x) <=> Has(scene, x) /\ x # i
      /\ \A x, y : Upto(scene', x, y) => Upto(scene, x, y)
      /\ \A g \in Graph!GroupItems : /\ \A x : Has(inside'[g], x) <=> Has(inside[g], x) /\ x # i
                                     /\ ~Has(inside[g], i) => inside'[g] = inside[g]
  <2>1. \A g \in Graph!GroupItems : g # i
    OBVIOUS
  <2> QED
    BY <1>1, <2>1, NativeRemoveIs
<1>3. GraphTypes'
  <2>1. removed' \subseteq Graph!Made
    BY <1>1 DEF GraphTypes, Graph!TypeOK
  <2> QED
    BY <1>1, <1>2, <2>1 DEF GraphTypes, LocalTypes, Graph!TypeOK
<1>4. \A x : /\ IsAttached(x)' <=> IsAttached(x) /\ x # i
             /\ IsRegistered(x)' <=> IsRegistered(x)
             /\ IsPending(x)' <=> IsPending(x)
  <2>1. \A x : IsPending(x)' <=> IsPending(x)
    BY DEF IsPending, LeavesOthers
  <2> QED
    BY <1>2, <2>1 DEF IsAttached, IsRegistered
<1>5. HandlesMatch'
  BY <1>1, <1>2, <1>4 DEF HandlesMatch
<1>6. Steady(t)
  <2>1. ASSUME NEW g \in Graph!GroupItems
        PROVE  \/ inside'[g] = inside[g]
               \/ call'[t] = "removeItem"
               \/ registryLock = t /\ (\E x : Has(inside[g], x) /\ Disappears(x)')
    <3>1. CASE ~Has(inside[g], i)
      BY <1>2, <3>1
    <3>2. CASE Has(inside[g], i) /\ call'[t] # "removeItem"
      <4>1. /\ registryLock = t /\ IsRegistered(i) /\ i \in others'[t] /\ graphPc'[t] = "removing"
        BY <3>2
      <4>2. ~IsPending(i)'
        BY <1>1, <1>4, <4>1 DEF IsPending, CallSafe, Registers
      <4>3. Disappears(i)'
        BY <4>1, <4>2 DEF Disappears
      <4> QED
        BY <3>2, <4>1, <4>3
    <3> QED
      BY <3>1, <3>2
  <2>2. \A x : graphPc[t] = "removing" /\ x \in others[t] => graphPc'[t] = "removing" /\ x \in others'[t]
    OBVIOUS
  <2>3. /\ Graph!Made \subseteq Graph!Made' /\ \A x \in Graph!Made : sourceOf'[x] = sourceOf[x]
        /\ \A x : (x \in removed => x \in removed') /\ (x \in groups <=> x \in groups')
        /\ \A g \in Graph!GroupItems : g \in removed' => g \in removed
    BY <1>2
  <2>4. \A g \in Graph!GroupItems : \A x :
           /\ Has(inside'[g], x) => Has(inside[g], x)
           /\ Has(inside[g], x) => Has(inside'[g], x) \/ x \in removed'
    BY <1>2
  <2> QED
    BY <1>2, <1>4, <2>1, <2>2, <2>3, <2>4 DEF Steady
<1> QED
  BY <1>2, <1>3, <1>5, <1>6, SteadyIsSafe

LEMMA RemoveEachIsSafe ==
    ASSUME GraphInstance, GraphInv, NEW t \in Threads, Graph!RemoveEach(t)
    PROVE  GraphInv'
<1>1. GraphTypes /\ LocalTypes /\ HandlesMatch /\ CallSafe(t) /\ ApartAre
  BY LocalsAre DEF GraphInv
<1>2. /\ graphPc[t] = "removing"
      /\ UNCHANGED <<registry, groups, registryLock, groupsLock, operationLock>>
      /\ UNCHANGED <<graphPc, call, subject, list, others>>
  BY DEF Graph!RemoveEach, Graph!locks, Graph!locals
<1>3. PICK i \in others[t] \ removed : Graph!NativeRemove(i) /\ removed' = removed \cup {i}
  BY DEF Graph!RemoveEach
<1>4. registryLock = t /\ IsRegistered(i) /\ call[t] \in {"removeSource", "clear"}
  BY <1>1, <1>2 DEF CallSafe, HasLocks, Removes, InCall, WithRegistry
<1>5. i \in Graph!Made \ Graph!GroupItems
  <2>1. i \in Graph!Made
    BY <1>1 DEF LocalTypes
  <2>2. sourceOf[i] \in SceneSources
    BY <1>1, <1>4 DEF IsRegistered, HandlesMatch
  <2> QED
    BY <2>1, <2>2 DEF GraphInstance, Graph!GroupItems
<1>6. Graph!Made' = Graph!Made /\ Graph!GroupItems' = Graph!GroupItems
  BY <1>3, LocalsAre DEF Graph!NativeRemove
<1>7. LeavesOthers(t) /\ LocalTypes' /\ ApartAre'
  BY <1>1, <1>2, <1>6 DEF LeavesOthers, LocalTypes, ApartAre
<1>8. CallSafe(t)'
  <2>1. InCall(t)' /\ HasLocks(t)'
    BY <1>1, <1>2, <1>6 DEF CallSafe, InCall, HasLocks
  <2>2. Removes(t)'
    BY <1>1, <1>2 DEF CallSafe, Removes, IsRegistered
  <2> QED
    BY <1>2, <2>1, <2>2 DEF CallSafe, Registers, Children, Replaces, Reads
<1> QED
  BY <1>2, <1>3, <1>4, <1>5, <1>7, <1>8, RemoveItemIsSafe

LEMMA RemoveFromSceneIsSafe ==
    ASSUME GraphInstance, GraphInv, NEW t \in Threads, NEW i \in Graph!Made,
           NEW to \in {"return", "prune"}, Graph!RemoveFromScene(t, i, to)
    PROVE  GraphInv'
<1>1. GraphTypes /\ LocalTypes /\ ApartAre
  BY LocalsAre DEF GraphInv
<1>2. /\ Graph!Enter(t, "removeItem", i, <<>>, {}, to) /\ i \notin Graph!GroupItems
      /\ UNCHANGED <<registry, groups, registryLock, groupsLock, operationLock>>
      /\ IF i \in removed THEN UNCHANGED <<scene, inside, sourceOf, removed>>
         ELSE Graph!NativeRemove(i) /\ removed' = removed \cup {i}
  BY DEF Graph!RemoveFromScene, Graph!locks, Graph!native
<1>3. Graph!Made' = Graph!Made /\ Graph!GroupItems' = Graph!GroupItems
  BY <1>2, LocalsAre DEF Graph!NativeRemove
<1>4. /\ graphPc' \in [Threads -> GraphStages] /\ call' \in [Threads -> GraphCalls \cup {None}]
      /\ subject' \in [Threads -> Graph!Made \cup {0}]
      /\ list' \in [Threads -> Seq(Graph!Made)] /\ others' \in [Threads -> SUBSET Graph!Made]
      /\ graphPc[t] = "idle" /\ graphPc'[t] = to /\ call'[t] = "removeItem" /\ subject'[t] = i
      /\ list'[t] = <<>> /\ others'[t] = {}
      /\ \A u \in Threads : u # t =>
            /\ graphPc'[u] = graphPc[u] /\ call'[u] = call[u] /\ subject'[u] = subject[u]
            /\ list'[u] = list[u] /\ others'[u] = others[u]
  <2>1. to \in GraphStages /\ "removeItem" \in GraphCalls /\ <<>> \in Seq(Graph!Made)
    BY DEF GraphStages, GraphCalls
  <2> QED
    BY <1>1, <1>2, <2>1 DEF LocalTypes, Graph!Enter, Graph!Goto
<1>5. LeavesOthers(t) /\ LocalTypes'
  BY <1>1, <1>2, <1>3, <1>4 DEF LeavesOthers, LocalTypes
<1>6. ApartAre'
  <2>1. "removeItem" \in GraphCalls
    BY DEF GraphCalls
  <2> QED
    BY <1>1, <1>2, <2>1, EnterApart
<1>7. CallSafe(t)'
  <2>1. "removeItem" # None
    BY DEF GraphInstance, GraphCalls
  <2>2. i \in removed'
    BY <1>2
  <2> QED
    BY <1>4, <2>1, <2>2
    DEF CallSafe, InCall, HasLocks, Registers, Removes, Children, Replaces, Reads, WithOperation,
        WithRegistry, WithGroups
<1>8. CASE i \in removed
  BY <1>2, <1>4, <1>5, <1>6, <1>7, <1>8, QuietIsSafe
<1>9. CASE i \notin removed
  BY <1>2, <1>4, <1>5, <1>6, <1>7, <1>9, RemoveItemIsSafe
<1> QED
  BY <1>8, <1>9

(* Handles that were removed leave the registries. *)
LEMMA PruneIsSafe ==
    ASSUME GraphInstance, GraphInv, NEW t \in Threads, LeavesOthers(t), LocalTypes', ApartAre',
           CallSafe(t)', UNCHANGED <<scene, inside, sourceOf, removed>>,
           NEW gone \in SUBSET removed, NEW ended \in SUBSET removed,
           registry' = [s \in SceneSources |-> registry[s] \ gone], groups' = groups \ ended,
           gone = {} \/ registryLock \in {None, t}, ended = {} \/ groupsLock \in {None, t},
           graphPc[t] # "register", graphPc'[t] # "register",
           graphPc[t] = "removing" => others[t] \subseteq gone
    PROVE  GraphInv'
<1>1. GraphTypes /\ OnePlace /\ HandlesMatch
  BY DEF GraphInv
<1>2. Graph!Made' = Graph!Made /\ Graph!GroupItems' = Graph!GroupItems
  BY LocalsAre
<1>3. GraphTypes'
  <2>1. registry' \in [SceneSources -> SUBSET Graph!Made] /\ groups' \subseteq Graph!GroupItems
    BY <1>1 DEF GraphTypes, Graph!TypeOK
  <2> QED
    BY <1>1, <1>2, <2>1 DEF GraphTypes, LocalTypes, Graph!TypeOK
<1>4. \A i : /\ IsAttached(i)' <=> IsAttached(i)
             /\ IsRegistered(i)' <=> IsRegistered(i) /\ i \notin gone
             /\ IsPending(i)' <=> IsPending(i)
  <2>1. \A i : IsPending(i)' <=> IsPending(i)
    BY DEF IsPending, LeavesOthers
  <2>2. \A i : IsRegistered(i)' <=> IsRegistered(i) /\ i \notin gone
    BY DEF IsRegistered
  <2> QED
    BY <1>2, <2>1, <2>2 DEF IsAttached
<1>5. OnePlace'
  BY <1>1, <1>2 DEF OnePlace
<1>6. HandlesMatch'
  <2>1. \A i : IsAttached(i)' <=> (IsRegistered(i)' \/ i \in groups' \/ IsPending(i)') /\ i \notin removed'
    BY <1>1, <1>4 DEF HandlesMatch
  <2>2. \A s \in SceneSources : \A i \in registry'[s] : sourceOf'[i] = s
    BY <1>1 DEF HandlesMatch
  <2> QED
    BY <2>1, <2>2 DEF HandlesMatch
<1>7. Steady(t)
  <2>1. \A i : graphPc[t] = "removing" /\ i \in others[t] => ~IsRegistered(i)'
    BY <1>4
  <2> QED
    BY <1>2, <1>4, <2>1 DEF Steady
<1> QED
  BY <1>3, <1>5, <1>6, <1>7, SteadyIsSafe

LEMMA PruneRegistryIsSafe ==
    ASSUME GraphInstance, GraphInv, NEW t \in Threads, Graph!Prune(t)
    PROVE  GraphInv'
<1>1. GraphTypes /\ LocalTypes /\ CallSafe(t) /\ ApartAre
  BY LocalsAre DEF GraphInv
<1>2. /\ graphPc[t] = "prune" /\ registryLock = None
      /\ registry' = [s \in SceneSources |-> registry[s] \ {subject[t]}]
      /\ graphPc' = [graphPc EXCEPT ![t] = "pruneGroups"]
      /\ UNCHANGED <<scene, inside, sourceOf, groups, removed>>
      /\ UNCHANGED <<registryLock, groupsLock, operationLock, call, subject, list, others>>
  BY DEF Graph!Prune, Graph!RegistryWithout, Graph!Goto, Graph!native, Graph!locks
<1>3. "pruneGroups" \in GraphStages /\ subject[t] \in removed
  BY <1>1, <1>2 DEF GraphStages, CallSafe, Removes
<1>4. LocalTypes' /\ LeavesOthers(t) /\ graphPc'[t] = "pruneGroups"
  BY <1>1, <1>2, <1>3, LocalsAre DEF LocalTypes, LeavesOthers
<1>5. ApartAre'
  BY <1>1, <1>2, <1>4, ApartStays
<1>6. CallSafe(t)'
  <2>1. Removes(t)'
    BY <1>1, <1>2, <1>3, <1>4, LocalsAre DEF CallSafe, Removes
  <2>2. InCall(t)'
    BY <1>1, <1>2, <1>4, LocalsAre DEF CallSafe, InCall, Reads, WithOperation
  <2> QED
    BY <1>2, <1>4, <2>1, <2>2
    DEF CallSafe, HasLocks, Registers, Children, Replaces, Reads, WithOperation, WithRegistry, WithGroups
<1>7. groups' = groups \ {} /\ {subject[t]} \in SUBSET removed /\ {} \in SUBSET removed
  BY <1>2, <1>3
<1> QED
  BY <1>2, <1>4, <1>5, <1>6, <1>7, PruneIsSafe

LEMMA PruneGroupsIsSafe ==
    ASSUME GraphInstance, GraphInv, NEW t \in Threads, Graph!PruneGroups(t)
    PROVE  GraphInv'
<1>1. /\ graphPc[t] = "pruneGroups" /\ groupsLock = None /\ Graph!Return(t)
      /\ groups' = groups \ {subject[t]}
      /\ UNCHANGED <<scene, inside, sourceOf, registry, removed>>
  BY DEF Graph!PruneGroups, Graph!native
<1>2. subject[t] \in removed /\ registry \in [SceneSources -> SUBSET Graph!Made]
  BY <1>1 DEF GraphInv, CallSafe, Removes, GraphTypes, Graph!TypeOK
<1>3. /\ LocalTypes' /\ LeavesOthers(t) /\ CallSafe(t)' /\ ApartAre'
      /\ graphPc'[t] = "idle" /\ call'[t] = None
  BY <1>1, ReturnIsSafe
<1>4. registry' = [s \in SceneSources |-> registry[s] \ {}] /\ {} \in SUBSET removed
      /\ {subject[t]} \in SUBSET removed
  BY <1>1, <1>2
<1> QED
  BY <1>1, <1>3, <1>4, PruneIsSafe

LEMMA ClearGroupsIsSafe ==
    ASSUME GraphInstance, GraphInv, NEW t \in Threads, Graph!ClearGroups(t)
    PROVE  GraphInv'
<1>1. /\ graphPc[t] = "nextGroup" /\ others[t] = {} /\ groupsLock = None /\ groups' = {}
      /\ Graph!Return(t) /\ UNCHANGED <<scene, inside, sourceOf, registry, removed>>
  BY DEF Graph!ClearGroups, Graph!native
<1>2. groups \in SUBSET removed /\ registry \in [SceneSources -> SUBSET Graph!Made]
  BY <1>1 DEF GraphInv, CallSafe, InCall, Removes, GraphTypes, Graph!TypeOK
<1>3. /\ LocalTypes' /\ LeavesOthers(t) /\ CallSafe(t)' /\ ApartAre'
      /\ graphPc'[t] = "idle" /\ call'[t] = None
  BY <1>1, ReturnIsSafe
<1>4. registry' = [s \in SceneSources |-> registry[s] \ {}] /\ {} \in SUBSET removed
      /\ groups' = groups \ groups
  BY <1>1, <1>2
<1> QED
  BY <1>1, <1>2, <1>3, <1>4, PruneIsSafe

LEMMA RemovedEachIsSafe ==
    ASSUME GraphInstance, GraphInv, NEW t \in Threads, Graph!RemovedEach(t)
    PROVE  GraphInv'
<1>1. GraphTypes /\ LocalTypes /\ CallSafe(t) /\ ApartAre
  BY LocalsAre DEF GraphInv
<1>2. /\ graphPc[t] = "removing" /\ others[t] \subseteq removed
      /\ registry' = [s \in SceneSources |-> registry[s] \ others[t]]
      /\ UNCHANGED <<scene, inside, sourceOf, groups, removed>>
  BY DEF Graph!RemovedEach, Graph!RegistryWithout, Graph!native
<1>3. /\ registryLock = t /\ call[t] \in {"removeSource", "clear"} /\ list[t] = <<>>
  BY <1>1, <1>2 DEF CallSafe, HasLocks, InCall, WithRegistry
<1>4. /\ LocalTypes' /\ LeavesOthers(t) /\ CallSafe(t)' /\ ApartAre' /\ graphPc'[t] # "register"
  <2>1. CASE call[t] = "clear"
    <3>1. /\ graphPc' = [graphPc EXCEPT ![t] = "readGroups"] /\ registryLock' = None
          /\ UNCHANGED <<groupsLock, operationLock, call, subject, list, others>>
      BY <2>1 DEF Graph!RemovedEach, Graph!Goto
    <3>2. "readGroups" \in GraphStages /\ call[t] # None
      BY <1>3 DEF GraphStages, GraphInstance, GraphCalls
    <3>3. LocalTypes' /\ graphPc'[t] = "readGroups"
      BY <1>1, <1>2, <3>1, <3>2, LocalsAre DEF LocalTypes
    <3>4. LeavesOthers(t)
      BY <1>1, <1>3, <3>1 DEF LeavesOthers, LocalTypes
    <3>5. ApartAre'
      BY <1>1, <3>1, <3>4, ApartStays
    <3>6. CallSafe(t)'
      BY <1>3, <2>1, <3>1, <3>2, <3>3
      DEF CallSafe, InCall, HasLocks, Registers, Removes, Children, Replaces, Reads, WithOperation,
          WithRegistry, WithGroups
    <3> QED
      BY <3>3, <3>4, <3>5, <3>6
  <2>2. CASE call[t] # "clear"
    <3>1. Graph!Return(t)
      BY <2>2 DEF Graph!RemovedEach
    <3> QED
      BY <1>2, <3>1, ReturnIsSafe
  <2> QED
    BY <2>1, <2>2
<1>5. groups' = groups \ {} /\ {} \in SUBSET removed
  BY <1>2
<1> QED
  BY <1>2, <1>3, <1>4, <1>5, PruneIsSafe

(* A list with an item put at one of its ends. *)
LEMMA EndsAre ==
    ASSUME NEW S, NEW s \in Seq(S), NEW e \in S, Once(s), ~Has(s, e), NEW w \in Graph!Ends(s, e)
    PROVE  w \in Seq(S) /\ Once(w) /\ \A x : Has(w, x) <=> Has(s, x) \/ x = e
<1>1. w = Append(s, e) \/ w = <<e>> \o s
  BY DEF Graph!Ends
<1>2. CASE w = Append(s, e)
  BY <1>2, AppendIs
<1>3. CASE w = <<e>> \o s
  BY <1>3, PrependIs
<1> QED
  BY <1>1, <1>2, <1>3

(* An item that changes its parent stays in the scene. *)
LEMMA ReparentIsSafe ==
    ASSUME GraphInstance, GraphInv, NEW t \in Threads, Graph!Reparent(t)
    PROVE  GraphInv'
<1> DEFINE g == subject[t]
           i == list[t][1]
<1>1. GraphTypes /\ LocalTypes /\ OnePlace /\ HandlesMatch /\ CallSafe(t)
  BY LocalsAre DEF GraphInv
<1>2. /\ graphPc[t] = "reparent" /\ Graph!Return(t)
      /\ UNCHANGED <<sourceOf, registry, groups, removed>>
  BY DEF Graph!Reparent, Graph!managed
<1>3. /\ g \in Graph!GroupItems /\ operationLock[g] = t
      /\ call[t] \in {"addItem", "takeItem"} /\ Len(list[t]) = 1
  BY <1>1, <1>2 DEF CallSafe, InCall, HasLocks, WithOperation
<1>4. /\ i \in Graph!Made
      /\ scene \in Seq(Graph!Made) /\ inside \in [Graph!GroupItems -> Seq(Graph!Made)]
      /\ Once(scene) /\ \A h \in Graph!GroupItems : Once(inside[h])
  <2>1. list[t] \in Seq(Graph!Made)
    BY <1>1 DEF LocalTypes
  <2>2. \A S : \A s \in Seq(S) : Len(s) = 1 => s[1] \in S
    OBVIOUS
  <2>3. i \in Graph!Made
    BY <1>3, <2>1, <2>2
  <2> QED
    BY <1>1, <2>3 DEF GraphTypes, Graph!TypeOK, OnePlace
<1>5. Graph!Made' = Graph!Made /\ Graph!GroupItems' = Graph!GroupItems
  BY <1>2, LocalsAre
<1>6. /\ \A x : x \in Graph!Range(scene) <=> Has(scene, x)
      /\ \A x : x \in Graph!Range(inside[g]) <=> Has(inside[g], x)
  BY <1>3, <1>4, HasRange
<1>7. /\ LocalTypes' /\ LeavesOthers(t) /\ CallSafe(t)' /\ ApartAre'
      /\ graphPc'[t] = "idle" /\ call'[t] = None
  BY <1>2, ReturnIsSafe
<1>8. CASE UNCHANGED <<scene, inside>>
  BY <1>2, <1>7, <1>8, QuietIsSafe
<1>9. CASE ~UNCHANGED <<scene, inside>>
  <2>1. /\ scene' \in Seq(Graph!Made) /\ Once(scene')
        /\ inside' \in [Graph!GroupItems -> Seq(Graph!Made)] /\ Once(inside'[g])
        /\ \A h \in Graph!GroupItems : h # g => inside'[h] = inside[h]
        /\ i \notin Graph!GroupItems
        /\ \/ /\ call[t] = "addItem" /\ Has(scene, i)
              /\ \A x : Has(scene', x) <=> Has(scene, x) /\ x # i
              /\ \A x : Has(inside'[g], x) <=> Has(inside[g], x) \/ x = i
              /\ \A x, y : Upto(scene', x, y) => Upto(scene, x, y)
           \/ /\ call[t] = "takeItem" /\ Has(inside[g], i)
              /\ \A x : Has(scene', x) <=> Has(scene, x) \/ x = i
              /\ \A x : Has(inside'[g], x) <=> Has(inside[g], x) /\ x # i
    <3>1. CASE call[t] = "addItem"
      <4>1. /\ Has(scene, i) /\ i \notin Graph!GroupItems /\ scene' = Graph!Without(scene, i)
            /\ \E end \in Graph!Ends(inside[g], i) : inside' = [inside EXCEPT ![g] = end]
        BY <1>6, <1>9, <3>1 DEF Graph!Reparent
      <4>2. PICK end \in Graph!Ends(inside[g], i) : inside' = [inside EXCEPT ![g] = end]
        BY <4>1
      <4>3. ~Has(inside[g], i) /\ inside[g] \in Seq(Graph!Made) /\ Once(inside[g])
        BY <1>1, <1>3, <1>4, <4>1 DEF OnePlace
      <4>4. end \in Seq(Graph!Made) /\ Once(end) /\ \A x : Has(end, x) <=> Has(inside[g], x) \/ x = i
        BY <1>4, <4>2, <4>3, EndsAre
      <4>5. /\ inside' \in [Graph!GroupItems -> Seq(Graph!Made)] /\ inside'[g] = end
            /\ \A h \in Graph!GroupItems : h # g => inside'[h] = inside[h]
        BY <1>3, <1>4, <4>2, <4>4
      <4>6. /\ scene' \in Seq(Graph!Made) /\ Once(scene')
            /\ \A x : Has(scene', x) <=> Has(scene, x) /\ x # i
            /\ \A x, y : Upto(scene', x, y) => Upto(scene, x, y)
        BY <1>4, <4>1, WithoutIs
      <4> QED
        BY <3>1, <4>1, <4>4, <4>5, <4>6
    <3>2. CASE call[t] = "takeItem"
      <4>1. /\ Has(inside[g], i) /\ scene' \in Graph!Ends(scene, i)
            /\ inside' = [inside EXCEPT ![g] = Graph!Without(inside[g], i)]
        BY <1>6, <1>9, <3>2 DEF Graph!Reparent
      <4>2. ~Has(scene, i) /\ i \notin Graph!GroupItems
        BY <1>1, <1>3, <4>1 DEF OnePlace
      <4>3. inside[g] \in Seq(Graph!Made) /\ Once(inside[g])
        BY <1>3, <1>4
      <4>4. /\ Graph!Without(inside[g], i) \in Seq(Graph!Made) /\ Once(Graph!Without(inside[g], i))
            /\ \A x : Has(Graph!Without(inside[g], i), x) <=> Has(inside[g], x) /\ x # i
        BY <4>3, WithoutIs
      <4>5. /\ inside' \in [Graph!GroupItems -> Seq(Graph!Made)]
            /\ inside'[g] = Graph!Without(inside[g], i)
            /\ \A h \in Graph!GroupItems : h # g => inside'[h] = inside[h]
        BY <1>3, <1>4, <4>1, <4>4
      <4>6. /\ scene' \in Seq(Graph!Made) /\ Once(scene')
            /\ \A x : Has(scene', x) <=> Has(scene, x) \/ x = i
        BY <1>4, <4>1, <4>2, EndsAre
      <4> QED
        BY <3>2, <4>1, <4>2, <4>4, <4>5, <4>6
    <3> QED
      BY <1>3, <3>1, <3>2
  <2> HIDE DEF i
  <2>2. GraphTypes'
    BY <1>1, <1>2, <1>5, <1>7, <2>1 DEF GraphTypes, LocalTypes, Graph!TypeOK
  <2>3. OnePlace'
    <3>1. \A h \in Graph!GroupItems : Once(inside'[h])
      BY <1>4, <2>1
    <3>2. ASSUME NEW h \in Graph!GroupItems, NEW x, Has(inside'[h], x)
          PROVE  /\ ~Has(scene', x) /\ x \notin Graph!GroupItems
                 /\ \A k \in Graph!GroupItems : Has(inside'[k], x) => k = h
      <4>1. CASE x = i
        <5>1. \A k \in Graph!GroupItems : k # g => ~Has(inside[k], i)
          BY <1>1, <1>3, <2>1 DEF OnePlace
        <5>2. h = g
          BY <2>1, <3>2, <4>1, <5>1
        <5> QED
          BY <1>3, <2>1, <3>2, <4>1, <5>1, <5>2
      <4>2. CASE x # i
        <5>1. \A k \in Graph!GroupItems : Has(inside'[k], x) <=> Has(inside[k], x)
          BY <2>1, <4>2
        <5> QED
          BY <1>1, <2>1, <3>2, <4>2, <5>1 DEF OnePlace
      <4> QED
        BY <4>1, <4>2
    <3> QED
      BY <1>5, <2>1, <3>1, <3>2 DEF OnePlace
  <2>4. HandlesMatch'
    <3>1. \A x : IsAttached(x)' <=> IsAttached(x)
      BY <1>3, <1>5, <2>1 DEF IsAttached
    <3>2. \A x : IsPending(x)' <=> IsPending(x)
      BY <1>2, <1>7 DEF IsPending, LeavesOthers
    <3>3. \A x : IsRegistered(x)' <=> IsRegistered(x)
      BY <1>2 DEF IsRegistered
    <3> QED
      BY <1>1, <1>2, <3>1, <3>2, <3>3 DEF HandlesMatch
  <2>5. Steady(t)
    <3>1. \A x : IsRegistered(x)' <=> IsRegistered(x)
      BY <1>2 DEF IsRegistered
    <3>2. \A h \in Graph!GroupItems : operationLock[h] # t => inside'[h] = inside[h]
      BY <1>3, <2>1
    <3>3. \A x, y : Upto(scene', x, y) => Upto(scene, x, y) \/ call[t] = "takeItem"
      BY <2>1
    <3> QED
      BY <1>2, <1>5, <1>7, <3>1, <3>2, <3>3 DEF Steady
  <2> QED
    BY <1>7, <2>2, <2>3, <2>4, <2>5, SteadyIsSafe
<1> QED
  BY <1>8, <1>9

(* A group goes with its children. *)
LEMMA RemoveGroupIsSafe ==
    ASSUME GraphInstance, GraphInv, NEW t \in Threads, Graph!RemoveGroup(t)
    PROVE  GraphInv'
<1> DEFINE g == subject[t]
           gone == Graph!Range(list[t])
<1>1. GraphTypes /\ LocalTypes /\ OnePlace /\ HandlesMatch /\ CallSafe(t)
  BY LocalsAre DEF GraphInv
<1>2. /\ graphPc[t] = "removeGroup" /\ Graph!NativeRemove(g) /\ Graph!Leave(t)
      /\ removed' = removed \cup gone \cup {g} /\ groups' = groups \ {g}
      /\ registry' = [s \in SceneSources |-> registry[s] \ gone]
  BY DEF Graph!RemoveGroup, Graph!RegistryWithout
<1>3. /\ g \in Graph!GroupItems /\ operationLock[g] = t /\ registryLock = t /\ groupsLock = t
      /\ g \notin removed
      /\ \A x : Has(inside[g], x) => Has(list[t], x)
      /\ \A x : Has(list[t], x) => Has(inside[g], x) \/ x \in removed
  BY <1>1, <1>2 DEF CallSafe, InCall, HasLocks, Children, Replaces, Reads, WithOperation,
                    WithRegistry, WithGroups
<1>4. /\ Graph!Made' = Graph!Made /\ Graph!GroupItems' = Graph!GroupItems
      /\ scene' \in Seq(Graph!Made) /\ inside' \in [Graph!GroupItems -> Seq(Graph!Made)]
      /\ sourceOf' = sourceOf /\ OnePlace'
      /\ \A x : Has(scene', x) <=> Has(scene, x) /\ x # g
      /\ \A x, y : Upto(scene', x, y) => Upto(scene, x, y)
      /\ \A h \in Graph!GroupItems : h # g =>
            /\ \A x : Has(inside'[h], x) <=> Has(inside[h], x) /\ x # g
            /\ ~Has(inside[h], g) => inside'[h] = inside[h]
      /\ \A x : ~Has(inside'[g], x)
  BY <1>1, <1>2, <1>3, NativeRemoveIs
<1>5. /\ \A x : x \in gone <=> Has(list[t], x)
      /\ \A x : Has(list[t], x) => x \in Graph!Made
  <2>1. list[t] \in Seq(Graph!Made)
    BY <1>1 DEF LocalTypes
  <2> QED
    BY <2>1, HasRange, HasElement
<1> HIDE DEF gone
<1>6. /\ LocalTypes' /\ LeavesOthers(t) /\ CallSafe(t)' /\ ApartAre'
      /\ graphPc'[t] \in {"idle", "nextGroup", "prune"} /\ call'[t] \in {call[t], None}
  BY <1>2, <1>4, LeaveIs
<1>7. GraphTypes'
  <2>1. removed' \subseteq Graph!Made /\ groups' \subseteq Graph!GroupItems
    BY <1>1, <1>2, <1>3, <1>5 DEF GraphTypes, Graph!TypeOK, Graph!GroupItems
  <2>2. registry' \in [SceneSources -> SUBSET Graph!Made]
    BY <1>1, <1>2 DEF GraphTypes, Graph!TypeOK
  <2> QED
    BY <1>1, <1>4, <1>6, <2>1, <2>2 DEF GraphTypes, LocalTypes, Graph!TypeOK
<1>8. \A x : /\ IsAttached(x)' <=> IsAttached(x) /\ x # g /\ ~Has(inside[g], x)
             /\ IsRegistered(x)' <=> IsRegistered(x) /\ x \notin gone
             /\ IsPending(x)' <=> IsPending(x)
  <2>1. \A x : IsPending(x)' <=> IsPending(x)
    BY <1>2, <1>6 DEF IsPending, LeavesOthers
  <2>2. \A x : IsRegistered(x)' <=> IsRegistered(x) /\ x \notin gone
    BY <1>2 DEF IsRegistered
  <2>3. \A x : Has(inside[g], x) => ~Has(scene, x) /\ \A h \in Graph!GroupItems : Has(inside[h], x) => h = g
    BY <1>1, <1>3 DEF OnePlace
  <2>4. \A x : IsAttached(x)' <=> IsAttached(x) /\ x # g /\ ~Has(inside[g], x)
    <3>1. \A x : IsAttached(x)' <=> Has(scene', x) \/ \E h \in Graph!GroupItems : Has(inside'[h], x)
      BY <1>4 DEF IsAttached
    <3>2. \A x : IsAttached(x) <=> Has(scene, x) \/ \E h \in Graph!GroupItems : Has(inside[h], x)
      BY DEF IsAttached
    <3>3. \A h \in Graph!GroupItems : ~Has(inside[h], g)
      BY <1>1, <1>3 DEF OnePlace
    <3> QED
      BY <1>3, <1>4, <2>3, <3>1, <3>2, <3>3
  <2> QED
    BY <2>1, <2>2, <2>4
<1>9. HandlesMatch'
  <2>1. \A x : IsAttached(x)' <=> (IsRegistered(x)' \/ x \in groups' \/ IsPending(x)') /\ x \notin removed'
    BY <1>1, <1>2, <1>3, <1>5, <1>8 DEF HandlesMatch
  <2>2. \A s \in SceneSources : \A x \in registry'[s] : sourceOf'[x] = s
    BY <1>1, <1>2, <1>4 DEF HandlesMatch
  <2> QED
    BY <2>1, <2>2 DEF HandlesMatch
<1>10. Steady(t)
  <2>1. \A h \in Graph!GroupItems : ~Has(inside[h], g) /\ ~Has(inside[g], h)
    BY <1>1, <1>3 DEF OnePlace
  <2>2. \A h \in Graph!GroupItems : operationLock[h] # t => inside'[h] = inside[h]
    BY <1>3, <1>4, <2>1
  <2>3. \A h \in Graph!GroupItems : h \in removed' => h \in removed \/ operationLock[h] = t
    BY <1>2, <1>3, <1>5, <2>1
  <2> QED
    BY <1>2, <1>3, <1>4, <1>6, <1>8, <2>2, <2>3 DEF Steady
<1> QED
  BY <1>4, <1>6, <1>7, <1>9, <1>10, SteadyIsSafe

(* Other items in the place of one. *)
Spliced(s, at, new) == SubSeq(s, 1, at - 1) \o new \o SubSeq(s, at + 1, Len(s))

IsSplice(w, s, l, at, new, n) ==
    /\ Len(w) = l + n - 1
    /\ \A p \in 1..(at - 1) : w[p] = s[p]
    /\ \A k \in 1..n : w[at + k - 1] = new[k]
    /\ \A p \in (at + n)..(l + n - 1) : w[p] = s[p - n + 1]

LEMMA SplicePlaces ==
    ASSUME NEW S, NEW s \in Seq(S), NEW at \in 1..Len(s), NEW new \in Seq(S), NEW l, NEW n,
           l = Len(s), n = Len(new)
    PROVE  Spliced(s, at, new) \in Seq(S) /\ IsSplice(Spliced(s, at, new), s, l, at, new, n)
<1> DEFINE a == SubSeq(s, 1, at - 1)
           b == SubSeq(s, at + 1, Len(s))
           ab == a \o new
           w == ab \o b
<1>1. l \in Nat /\ n \in Nat /\ at \in Int /\ 1 <= at /\ at <= l /\ n >= 0 /\ l \in Int /\ n \in Int
  OBVIOUS
<1>s. /\ (at - 1 + n) + (l - at) = l + n - 1
      /\ \A p \in 1..(at - 1) : p <= at - 1 /\ p \in 1..(at - 1 + n) /\ p <= at - 1 + n
      /\ \A k \in 1..n :
            /\ at + k - 1 \in 1..(at - 1 + n) /\ at + k - 1 \in 1..(l + n - 1)
            /\ ~(at + k - 1 <= at - 1) /\ (at + k - 1) - (at - 1) = k /\ at + k - 1 <= at - 1 + n
      /\ \A p \in (at + n)..(l + n - 1) :
            /\ p \in 1..(l + n - 1) /\ ~(p <= at - 1 + n)
            /\ p - (at - 1 + n) \in 1..(l - at) /\ at + (p - (at - 1 + n)) = p - n + 1
  <2> HIDE DEF a, b, ab, w
  <2> QED
    BY <1>1
<1>2. /\ a \in Seq(S) /\ Len(a) = at - 1 /\ \A p \in 1..(at - 1) : a[p] = s[p]
  OBVIOUS
<1>3. /\ b \in Seq(S) /\ Len(b) = l - at /\ \A p \in 1..(l - at) : b[p] = s[at + p]
  OBVIOUS
<1> HIDE DEF a, b
<1>4. /\ ab \in Seq(S) /\ Len(ab) = at - 1 + n
      /\ \A p \in 1..(at - 1 + n) : ab[p] = IF p <= at - 1 THEN a[p] ELSE new[p - (at - 1)]
  <2>1. /\ ab \in Seq(S) /\ Len(ab) = Len(a) + Len(new)
        /\ \A p \in 1..(Len(a) + Len(new)) : ab[p] = IF p <= Len(a) THEN a[p] ELSE new[p - Len(a)]
    BY <1>2, ConcatProperties
  <2> QED
    BY <1>2, <2>1
<1> HIDE DEF ab
<1>5. ab \in Seq(S) /\ b \in Seq(S)
  BY <1>3, <1>4
<1>6. /\ w \in Seq(S) /\ Len(w) = Len(ab) + Len(b)
      /\ \A p \in 1..(Len(ab) + Len(b)) : w[p] = IF p <= Len(ab) THEN ab[p] ELSE b[p - Len(ab)]
  BY <1>5, ConcatProperties
<1> HIDE DEF w
<1>7. /\ Len(ab) + Len(b) = l + n - 1
      /\ \A p \in 1..(l + n - 1) : w[p] = IF p <= at - 1 + n THEN ab[p] ELSE b[p - (at - 1 + n)]
  <2>1. Len(ab) + Len(b) = l + n - 1
    BY <1>s, <1>3, <1>4, Zenon
  <2> QED
    BY <1>4, <1>6, <2>1, Zenon
<1>8. ASSUME NEW p \in 1..(at - 1) PROVE w[p] = s[p]
  <2>1. p <= at - 1 /\ p \in 1..(at - 1 + n) /\ p <= at - 1 + n
    BY <1>s, Zenon
  <2>2. p \in 1..(l + n - 1)
    BY <1>1, <2>1
  <2> QED
    BY <1>2, <1>4, <1>7, <2>1, <2>2, Zenon
<1>9. ASSUME NEW k \in 1..n PROVE w[at + k - 1] = new[k]
  <2>1. /\ at + k - 1 \in 1..(at - 1 + n) /\ at + k - 1 \in 1..(l + n - 1)
        /\ ~(at + k - 1 <= at - 1) /\ (at + k - 1) - (at - 1) = k /\ at + k - 1 <= at - 1 + n
    BY <1>s, Zenon
  <2> QED
    BY <1>4, <1>7, <2>1, Zenon
<1>10. ASSUME NEW p \in (at + n)..(l + n - 1) PROVE w[p] = s[p - n + 1]
  <2>1. /\ p \in 1..(l + n - 1) /\ ~(p <= at - 1 + n)
        /\ p - (at - 1 + n) \in 1..(l - at) /\ at + (p - (at - 1 + n)) = p - n + 1
    BY <1>s, Zenon
  <2> QED
    BY <1>3, <1>7, <2>1, Zenon
<1>11. Spliced(s, at, new) = w
  BY DEF Spliced, w, ab, a, b
<1> QED
  BY <1>6, <1>7, <1>8, <1>9, <1>10, <1>11, Zenon DEF IsSplice

LEMMA SpliceIs ==
    ASSUME NEW S, NEW l \in Nat, NEW n \in Nat, NEW at \in Nat, 1 <= at, at <= l,
           NEW s \in Seq(S), NEW new \in Seq(S), NEW w \in Seq(S),
           Len(s) = l, Len(new) = n, Once(s), Once(new), \A x : Has(new, x) => ~Has(s, x),
           IsSplice(w, s, l, at, new, n)
    PROVE  /\ Once(w)
           /\ \A x : Has(w, x) <=> (Has(s, x) /\ x # s[at]) \/ Has(new, x)
<1> DEFINE Old(p) == IF p < at THEN p ELSE p - n + 1
<1>8. \A p \in 1..(at - 1) : w[p] = s[p] /\ p \in 1..(l + n - 1) /\ p \in 1..l /\ p # at
  BY DEF IsSplice
<1>9. \A k \in 1..n : w[at + k - 1] = new[k] /\ at + k - 1 \in 1..(l + n - 1)
  BY DEF IsSplice
<1>10. \A p \in (at + n)..(l + n - 1) :
          w[p] = s[p - n + 1] /\ p - n + 1 \in 1..l /\ p - n + 1 # at /\ p \in 1..(l + n - 1)
  BY DEF IsSplice
<1>11. \A p \in 1..(l + n - 1) :
          \/ p \in 1..(at - 1) /\ p < at
          \/ \E k \in 1..n : p = at + k - 1 /\ ~(p < at)
          \/ p \in (at + n)..(l + n - 1) /\ ~(p < at)
  <2> SUFFICES ASSUME NEW p \in 1..(l + n - 1)
               PROVE  \/ p \in 1..(at - 1) /\ p < at
                      \/ \E k \in 1..n : p = at + k - 1 /\ ~(p < at)
                      \/ p \in (at + n)..(l + n - 1) /\ ~(p < at)
    OBVIOUS
  <2>1. CASE p < at
    BY <2>1
  <2>2. CASE at <= p /\ p < at + n
    <3>1. p - at + 1 \in 1..n /\ p = at + (p - at + 1) - 1
      BY <2>2
    <3> QED
      BY <2>2, <3>1
  <2>3. CASE at + n <= p
    BY <2>3
  <2> QED
    BY <2>1, <2>2, <2>3
<1>12. \A m \in 1..l : m # at => \E p \in 1..(l + n - 1) : w[p] = s[m]
  <2> SUFFICES ASSUME NEW m \in 1..l, m # at PROVE \E p \in 1..(l + n - 1) : w[p] = s[m]
    OBVIOUS
  <2>1. CASE m < at
    <3>1. m \in 1..(at - 1)
      BY <2>1
    <3> QED
      BY <1>8, <3>1, Zenon
  <2>2. CASE m > at
    <3>1. m + n - 1 \in (at + n)..(l + n - 1) /\ (m + n - 1) - n + 1 = m
      BY <2>2
    <3> QED
      BY <1>10, <3>1
  <2> QED
    BY <2>1, <2>2
<1>7. Len(w) = l + n - 1
  BY DEF IsSplice
<1>13. \A x : Has(w, x) <=> (Has(s, x) /\ x # s[at]) \/ Has(new, x)
  <2>1. /\ \A x : Has(w, x) <=> \E p \in 1..(l + n - 1) : w[p] = x
        /\ \A x : Has(s, x) <=> \E p \in 1..l : s[p] = x
        /\ \A x : Has(new, x) <=> \E k \in 1..n : new[k] = x
    BY <1>7 DEF Has
  <2>2. \A p, q \in 1..l : s[p] = s[q] => p = q
    BY DEF Once
  <2>3. ASSUME NEW x, Has(w, x) PROVE (Has(s, x) /\ x # s[at]) \/ Has(new, x)
    <3>1. PICK p \in 1..(l + n - 1) : w[p] = x
      BY <2>1, <2>3
    <3>2. CASE p \in 1..(at - 1)
      BY <1>8, <2>1, <2>2, <3>1, <3>2
    <3>3. CASE \E k \in 1..n : p = at + k - 1
      <4>1. PICK k \in 1..n : p = at + k - 1
        BY <3>3
      <4>2. new[k] = x
        BY <1>9, <3>1, <4>1
      <4> QED
        BY <2>1, <4>2, Zenon
    <3>4. CASE p \in (at + n)..(l + n - 1)
      BY <1>10, <2>1, <2>2, <3>1, <3>4
    <3> QED
      BY <1>11, <3>2, <3>3, <3>4
  <2>4. ASSUME NEW x, Has(s, x), x # s[at] PROVE Has(w, x)
    <3>1. PICK m \in 1..l : s[m] = x
      BY <2>1, <2>4, Zenon
    <3>2. PICK p \in 1..(l + n - 1) : w[p] = s[m]
      BY <1>12, <2>4, <3>1, Zenon
    <3> QED
      BY <2>1, <3>1, <3>2, Zenon
  <2>5. ASSUME NEW x, Has(new, x) PROVE Has(w, x)
    <3>1. PICK k \in 1..n : new[k] = x
      BY <2>1, <2>5, Zenon
    <3>2. w[at + k - 1] = new[k] /\ at + k - 1 \in 1..(l + n - 1)
      BY <1>9, Zenon
    <3> QED
      BY <2>1, <3>1, <3>2, Zenon
  <2> QED
    BY <2>3, <2>4, <2>5
<1>14. Once(w)
  <2> SUFFICES ASSUME NEW p \in 1..(l + n - 1), NEW q \in 1..(l + n - 1), w[p] = w[q] PROVE p = q
    BY <1>7 DEF Once
  <2>1. \A c, d \in 1..l : s[c] = s[d] => c = d
    BY DEF Once
  <2>2. \A c, d \in 1..n : new[c] = new[d] => c = d
    BY DEF Once
  <2>3. \A c \in 1..n, d \in 1..l : new[c] # s[d]
    BY DEF Has
  <2>4. \A r \in 1..(l + n - 1) :
           \/ /\ Old(r) \in 1..l /\ w[r] = s[Old(r)] /\ (r < at \/ r >= at + n)
           \/ \E k \in 1..n : r = at + k - 1 /\ w[r] = new[k]
    <3> SUFFICES ASSUME NEW r \in 1..(l + n - 1)
                 PROVE  \/ /\ Old(r) \in 1..l /\ w[r] = s[Old(r)] /\ (r < at \/ r >= at + n)
                        \/ \E k \in 1..n : r = at + k - 1 /\ w[r] = new[k]
      OBVIOUS
    <3>1. CASE r \in 1..(at - 1) /\ r < at
      BY <1>8, <3>1
    <3>2. CASE \E k \in 1..n : r = at + k - 1
      BY <1>9, <3>2
    <3>3. CASE r \in (at + n)..(l + n - 1) /\ ~(r < at)
      BY <1>10, <3>3
    <3> QED
      BY <1>11, <3>1, <3>2, <3>3
  <2>5. CASE \E k \in 1..n : p = at + k - 1 /\ w[p] = new[k]
    <3>1. PICK k \in 1..n : p = at + k - 1 /\ w[p] = new[k]
      BY <2>5, Zenon
    <3>2. CASE Old(q) \in 1..l /\ w[q] = s[Old(q)]
      <4>1. new[k] = s[Old(q)]
        BY <3>1, <3>2
      <4> HIDE DEF Old
      <4> QED
        BY <2>3, <3>2, <4>1, Zenon
    <3>3. CASE \E m \in 1..n : q = at + m - 1 /\ w[q] = new[m]
      <4>1. PICK m \in 1..n : q = at + m - 1 /\ w[q] = new[m]
        BY <3>3, Zenon
      <4>2. new[k] = new[m]
        BY <3>1, <4>1
      <4>3. k = m
        BY <2>2, <4>2, Zenon
      <4> QED
        BY <3>1, <4>1, <4>3
    <3> QED
      BY <2>4, <3>2, <3>3, Zenon
  <2>6. CASE \E k \in 1..n : q = at + k - 1 /\ w[q] = new[k]
    <3>1. PICK k \in 1..n : q = at + k - 1 /\ w[q] = new[k]
      BY <2>6, Zenon
    <3>2. CASE Old(p) \in 1..l /\ w[p] = s[Old(p)]
      <4>1. new[k] = s[Old(p)]
        BY <3>1, <3>2
      <4> HIDE DEF Old
      <4> QED
        BY <2>3, <3>2, <4>1, Zenon
    <3> QED
      BY <2>4, <2>5, <3>2, Zenon
  <2>7. CASE /\ Old(p) \in 1..l /\ w[p] = s[Old(p)] /\ (p < at \/ p >= at + n)
             /\ Old(q) \in 1..l /\ w[q] = s[Old(q)] /\ (q < at \/ q >= at + n)
    <3>1. Old(p) = Old(q)
      <4> HIDE DEF Old
      <4> QED
        BY <2>1, <2>7, Zenon
    <3> QED
      BY <2>7, <3>1
  <2> QED
    BY <2>4, <2>5, <2>6, <2>7
<1> QED
  BY <1>13, <1>14

(* The places of new items among those not seen before: they come first. *)
LEMMA GraphCardinality == ASSUME NEW S PROVE Graph!Cardinality(S) = Cardinality(S)
BY DEF Graph!Cardinality, Cardinality

Nth(fresh, k) == CHOOSE p \in fresh : Graph!Cardinality({m \in fresh : m <= p}) = k
StartsWith(fresh, at, n, N) ==
    /\ fresh \in SUBSET (1..N) /\ \A p \in fresh : p >= at
    /\ \A p \in 1..N : at <= p /\ p < at + n => p \in fresh
    /\ n = 0 \/ at + n - 1 <= N

LEMMA FreshAre ==
    ASSUME NEW N \in Nat, NEW at \in Nat \ {0}, NEW n \in Nat, NEW fresh,
           StartsWith(fresh, at, n, N)
    PROVE  /\ Graph!Cardinality(fresh) \in Nat /\ Graph!Cardinality(fresh) >= n
           /\ \A k \in 1..n : Nth(fresh, k) = at + k - 1
<1>0. /\ fresh \in SUBSET (1..N) /\ \A p \in fresh : p >= at
      /\ \A p \in 1..N : at <= p /\ p < at + n => p \in fresh
      /\ n = 0 \/ at + n - 1 <= N
  BY DEF StartsWith
<1> DEFINE Upward(p) == {m \in fresh : m <= p}
<1>1. IsFiniteSet(1..N)
  BY FS_Interval
<1>2. \A T \in SUBSET fresh : IsFiniteSet(T) /\ Cardinality(T) \in Nat
  BY <1>0, <1>1, FS_Subset, FS_CardinalityType
<1>3. ASSUME NEW k \in Nat, k <= n
      PROVE  Cardinality(at..(at + k - 1)) = k /\ at..(at + k - 1) \subseteq fresh
  <2>1. Cardinality(at..(at + k - 1)) = IF at > at + k - 1 THEN 0 ELSE at + k - 1 - at + 1
    BY FS_Interval
  <2>2. Cardinality(at..(at + k - 1)) = k
    BY <1>3, <2>1
  <2>3. at..(at + k - 1) \subseteq fresh
    BY <1>0, <1>3
  <2> QED
    BY <2>2, <2>3
<1>4. Cardinality(fresh) \in Nat /\ Cardinality(fresh) >= n
  <2>1. at..(at + n - 1) \subseteq fresh /\ Cardinality(at..(at + n - 1)) = n /\ IsFiniteSet(fresh)
    BY <1>2, <1>3
  <2>2. Cardinality(at..(at + n - 1)) <= Cardinality(fresh)
    BY <2>1, FS_Subset
  <2> QED
    BY <1>2, <2>1, <2>2
<1>5. ASSUME NEW k \in 1..n
      PROVE  /\ at + k - 1 \in fresh /\ Cardinality(Upward(at + k - 1)) = k
             /\ \A p \in fresh : Cardinality(Upward(p)) = k => p = at + k - 1
  <2>1. at + k - 1 \in fresh /\ k <= n /\ k \in Nat
    BY <1>3
  <2>2. Upward(at + k - 1) = at..(at + k - 1)
    <3>1. \A m \in fresh : m \in Int /\ at <= m
      BY <1>0
    <3>2. at..(at + k - 1) \subseteq fresh
      BY <1>3, <2>1
    <3>3. \A m \in Int : m \in at..(at + k - 1) <=> at <= m /\ m <= at + k - 1
      OBVIOUS
    <3>4. \A m \in at..(at + k - 1) : m \in Int
      OBVIOUS
    <3> QED
      BY <3>1, <3>2, <3>3, <3>4, Zenon
  <2>3. Cardinality(Upward(at + k - 1)) = k
    BY <1>3, <2>1, <2>2
  <2>4. ASSUME NEW p \in fresh, Cardinality(Upward(p)) = k PROVE p = at + k - 1
    <3>1. p \in Nat /\ p >= at
      BY <1>0
    <3>2. CASE p < at + k - 1
      <4> DEFINE A == Upward(at + k - 1)
                 B == Upward(p)
                 a == at + k - 1
      <4>1. B \subseteq A \ {a}
        <5>1. \A m \in Int : m <= p => m <= a /\ m # a
          BY <3>1, <3>2
        <5>2. \A m \in fresh : m \in Int
          BY <1>0
        <5> HIDE DEF a
        <5>3. A = {m \in fresh : m <= a}
          BY DEF a
        <5> QED
          BY <5>1, <5>2, <5>3, Zenon
      <4>2. a \in A /\ A \in SUBSET fresh /\ Cardinality(A) = k
        <5>1. a <= a /\ a \in fresh
          BY <2>1
        <5> QED
          BY <2>3, <5>1, Zenon
      <4> HIDE DEF A, B, a
      <4>3. Cardinality(A \ {a}) = k - 1 /\ IsFiniteSet(A \ {a})
        BY <1>2, <4>2, FS_RemoveElement
      <4>4. Cardinality(B) <= k - 1
        BY <4>1, <4>3, FS_Subset
      <4>5. Cardinality(B) = k
        BY <2>4 DEF B
      <4> QED
        BY <4>4, <4>5
    <3>3. CASE p > at + k - 1
      <4> DEFINE A == Upward(at + k - 1)
                 B == Upward(p)
      <4>1. A \subseteq B \ {p}
        <5>1. \A m \in Int : m <= at + k - 1 => m <= p /\ m # p
          BY <3>1, <3>3
        <5>2. \A m \in fresh : m \in Int
          BY <1>0
        <5> QED
          BY <5>1, <5>2, Zenon
      <4>2. p \in B /\ B \in SUBSET fresh /\ Cardinality(B) = k
        <5>1. p <= p
          BY <3>1
        <5> QED
          BY <2>4, <5>1, Zenon
      <4>3. Cardinality(A) = k
        BY <2>3
      <4> HIDE DEF A, B
      <4>4. Cardinality(B \ {p}) = k - 1 /\ IsFiniteSet(B \ {p})
        BY <1>2, <4>2, FS_RemoveElement
      <4>5. k <= k - 1
        BY <4>1, <4>3, <4>4, FS_Subset
      <4> QED
        BY <4>5
    <3> QED
      BY <2>1, <3>1, <3>2, <3>3
  <2> QED
    BY <2>1, <2>3, <2>4
<1>6. ASSUME NEW k \in 1..n
      PROVE  Nth(fresh, k) = at + k - 1
  <2>1. \A p : Graph!Cardinality({m \in fresh : m <= p}) = Cardinality(Upward(p))
    BY GraphCardinality
  <2> DEFINE P(p) == Graph!Cardinality({m \in fresh : m <= p}) = k
  <2>2. /\ at + k - 1 \in fresh /\ P(at + k - 1)
        /\ \A p \in fresh : P(p) => p = at + k - 1
    BY <1>5, <2>1
  <2> HIDE DEF P
  <2>3. (CHOOSE p \in fresh : P(p)) = at + k - 1
    BY <2>2
  <2> QED
    BY <2>3 DEF P, Nth
<1> QED
  BY <1>4, <1>6, GraphCardinality

(* The items that take the place of a group's children, one after the other. *)
Ungroups(w, s, at, C, n, M, O, T, seen) ==
    /\ M \in Nat /\ O = 1..M /\ s \in Seq(O) /\ Once(s) /\ at \in 1..Len(s)
    /\ C \in Seq(O) /\ n = Len(C) /\ T = 1..(M + n) /\ seen \in SUBSET O
    /\ \A p \in 1..at : s[p] \in seen
    /\ w = Spliced(s, at, [k \in DOMAIN C |-> M + k])
TakeOver(w, s, at, n, M, seen) ==
    LET fresh == {p \in DOMAIN w : w[p] \notin seen}
    IN  /\ Once(w)
        /\ \A x : Has(w, x) <=> (Has(s, x) /\ x # s[at]) \/ \E k \in 1..n : x = M + k
        /\ Graph!Cardinality(fresh) \in Nat /\ Graph!Cardinality(fresh) >= n
        /\ \A k \in 1..n : w[Nth(fresh, k)] = M + k

LEMMA UngroupedAre ==
    ASSUME NEW w, NEW s, NEW at, NEW C, NEW n, NEW M, NEW O, NEW T, NEW seen,
           Ungroups(w, s, at, C, n, M, O, T, seen)
    PROVE  w \in Seq(T) /\ TakeOver(w, s, at, n, M, seen)
<1>0. /\ M \in Nat /\ O = 1..M /\ s \in Seq(O) /\ Once(s) /\ at \in 1..Len(s)
      /\ C \in Seq(O) /\ n = Len(C) /\ T = 1..(M + n) /\ seen \in SUBSET O
      /\ \A p \in 1..at : s[p] \in seen
  BY DEF Ungroups
<1> DEFINE new == [k \in DOMAIN C |-> M + k]
           l == Len(s)
           fresh == {p \in DOMAIN w : w[p] \notin seen}
<1>1. n \in Nat /\ l \in Nat /\ at \in Nat /\ 1 <= at /\ at <= l /\ DOMAIN C = 1..n
  BY <1>0
<1>2. /\ new \in Seq(T) /\ Len(new) = n /\ \A k \in 1..n : new[k] = M + k
  <2>1. \A k \in 1..n : M + k \in T
    BY <1>0, <1>1
  <2>2. new = [k \in 1..n |-> M + k]
    BY <1>1
  <2> HIDE DEF new
  <2>3. new \in [1..n -> T]
    BY <2>1, <2>2
  <2>4. new \in Seq(T)
    BY <1>1, <2>3, IsList
  <2> QED
    BY <1>1, <2>2, <2>4
<1>3. s \in Seq(T) /\ \A x : Has(s, x) => x \in O
  <2>1. O \subseteq T
    BY <1>0, <1>1
  <2>2. s \in Seq(T)
    BY <1>0, <2>1, SeqMonotonic
  <2> QED
    BY <1>0, <2>2, HasElement
<1> HIDE DEF new, l
<1>4. \A x : Has(new, x) <=> \E k \in 1..n : x = M + k
  BY <1>2 DEF Has
<1>5. /\ Once(new) /\ \A x : Has(new, x) => ~Has(s, x)
  <2>1. \A i, k \in 1..n : M + i = M + k => i = k
    BY <1>0, <1>1
  <2>2. \A k \in 1..n : M + k \notin O
    BY <1>0, <1>1
  <2> QED
    BY <1>2, <1>3, <1>4, <2>1, <2>2 DEF Once
<1>6. w \in Seq(T) /\ IsSplice(w, s, l, at, new, n)
  <2>1. s \in Seq(T) /\ at \in 1..Len(s) /\ new \in Seq(T) /\ l = Len(s) /\ n = Len(new)
    BY <1>0, <1>2, <1>3 DEF l
  <2>2. w = Spliced(s, at, new)
    BY DEF new, Ungroups
  <2> QED
    BY <2>1, <2>2, SplicePlaces, Zenon
<1>7. /\ Once(w)
      /\ \A x : Has(w, x) <=> (Has(s, x) /\ x # s[at]) \/ Has(new, x)
  <2>1. /\ s \in Seq(T) /\ new \in Seq(T) /\ w \in Seq(T) /\ Len(s) = l /\ Len(new) = n
        /\ IsSplice(w, s, l, at, new, n) /\ Once(s)
    BY <1>0, <1>2, <1>3, <1>6 DEF l
  <2> QED
    BY <1>1, <1>5, <2>1, SpliceIs, Zenon
<1>s. /\ Len(w) = l + n - 1 /\ \A p \in 1..(at - 1) : w[p] = s[p]
      /\ \A k \in 1..n : w[at + k - 1] = new[k]
  BY <1>6 DEF IsSplice
<1>8. DOMAIN w = 1..(l + n - 1)
  BY <1>6, <1>s
<1>9. /\ fresh \in SUBSET (1..(l + n - 1)) /\ l + n - 1 \in Nat /\ at \in Nat \ {0}
      /\ n = 0 \/ at + n - 1 <= l + n - 1
  <2>1. l + n - 1 \in Nat /\ at \in Nat \ {0} /\ (n = 0 \/ at + n - 1 <= l + n - 1)
    BY <1>1
  <2> QED
    BY <1>8, <2>1
<1>10. \A p \in fresh : p >= at
  <2>1. \A p \in 1..(l + n - 1) : ~(p >= at) => p \in 1..(at - 1) /\ p \in 1..at
    BY <1>1
  <2>2. \A p \in 1..(at - 1) : p \in 1..at => w[p] \in seen
    BY <1>0, <1>s
  <2> QED
    BY <1>0, <1>8, <2>1, <2>2, Zenon
<1>11. \A p \in 1..(l + n - 1) : at <= p /\ p < at + n => p \in fresh
  <2> SUFFICES ASSUME NEW p \in 1..(l + n - 1), at <= p, p < at + n PROVE p \in fresh
    OBVIOUS
  <2>1. p - at + 1 \in 1..n /\ p = at + (p - at + 1) - 1
    BY <1>1
  <2>2. w[p] = M + (p - at + 1)
    BY <1>2, <1>s, <2>1
  <2>3. M + (p - at + 1) \notin O
    BY <1>0, <1>1, <2>1
  <2> QED
    BY <1>0, <1>8, <2>2, <2>3
<1> HIDE DEF fresh
<1>12. /\ Graph!Cardinality(fresh) \in Nat /\ Graph!Cardinality(fresh) >= n
       /\ \A k \in 1..n : Nth(fresh, k) = at + k - 1
  <2> DEFINE N == l + n - 1
  <2>1. N \in Nat /\ at \in Nat \ {0} /\ n \in Nat /\ StartsWith(fresh, at, n, N)
    BY <1>1, <1>9, <1>10, <1>11 DEF StartsWith
  <2> HIDE DEF N
  <2> QED
    BY <2>1, FreshAre
<1>13. \A k \in 1..n : w[Nth(fresh, k)] = M + k
  BY <1>2, <1>s, <1>12, Zenon
<1>14. \A x : Has(w, x) <=> (Has(s, x) /\ x # s[at]) \/ \E k \in 1..n : x = M + k
  BY <1>4, <1>7, Zenon
<1>15. w \in Seq(T) /\ Once(w)
  BY <1>6, <1>7
<1> QED
  BY <1>12, <1>13, <1>14, <1>15 DEF fresh, TakeOver

(* What a thread has when it ungroups: the locks, the children and the     *)
(* items up to the group. *)
LEMMA UngroupStart ==
    ASSUME GraphInstance, GraphInv, NEW t \in Threads, graphPc[t] = "ungroup"
    PROVE  LET g == subject[t]
               at == At(scene, g)
           IN  /\ call[t] = "ungroup" /\ g \in Graph!GroupItems /\ g \notin removed
               /\ g \in groups /\ operationLock[g] = t /\ registryLock = t /\ groupsLock = t
               /\ list[t] = inside[g] /\ inside[g] \in Seq(Graph!Made) /\ Once(inside[g])
               /\ \A i : Has(inside[g], i) =>
                     /\ IsRegistered(i) /\ i \in Graph!Made /\ i \notin Graph!GroupItems
                     /\ sourceOf[i] \in SceneSources
               /\ scene \in Seq(Graph!Made) /\ Once(scene) /\ at \in 1..Len(scene) /\ scene[at] = g
               /\ others[t] \subseteq Graph!Made /\ \A p \in 1..at : scene[p] \in others[t]
<1> DEFINE g == subject[t]
           at == At(scene, g)
<1>1. GraphTypes /\ OnePlace /\ HandlesMatch /\ CallSafe(t)
  BY DEF GraphInv
<1>2. /\ call[t] = "ungroup" /\ g \in Graph!GroupItems /\ g \notin removed /\ g \in groups
      /\ operationLock[g] = t /\ registryLock = t /\ groupsLock = t
  BY <1>1 DEF CallSafe, InCall, HasLocks, Replaces, Reads, WithOperation, WithRegistry, WithGroups
<1>3. list[t] = inside[g] /\ \A i : Has(list[t], i) => IsRegistered(i)
  BY <1>1, <1>2 DEF CallSafe, Children
<1>4. /\ inside[g] \in Seq(Graph!Made) /\ Once(inside[g]) /\ scene \in Seq(Graph!Made)
      /\ Once(scene)
  BY <1>1, <1>2 DEF GraphTypes, Graph!TypeOK, OnePlace
<1>5. \A i : Has(inside[g], i) => /\ IsRegistered(i) /\ i \in Graph!Made
                                  /\ i \notin Graph!GroupItems /\ sourceOf[i] \in SceneSources
  <2>1. \A i : Has(inside[g], i) => IsRegistered(i) /\ i \in Graph!Made /\ i \notin Graph!GroupItems
    BY <1>1, <1>2, <1>3, <1>4, HasElement DEF OnePlace
  <2>2. \A i : IsRegistered(i) => sourceOf[i] \in SceneSources
    BY <1>1 DEF IsRegistered, HandlesMatch
  <2> QED
    BY <2>1, <2>2, Zenon
<1>6. Has(scene, g)
  <2>1. IsAttached(g)
    BY <1>1, <1>2 DEF HandlesMatch
  <2> QED
    BY <1>1, <1>2, <2>1 DEF IsAttached, OnePlace
<1>7. at \in 1..Len(scene) /\ scene[at] = g
  BY <1>4, <1>6, AtIs
<1>8. others[t] \subseteq Graph!Made /\ \A i : Upto(scene, i, g) => i \in others[t]
  BY <1>1 DEF CallSafe, Replaces
<1> HIDE DEF at
<1>9. \A p \in 1..at : scene[p] \in others[t]
  <2> SUFFICES ASSUME NEW p \in 1..at PROVE Upto(scene, scene[p], g)
    BY <1>8
  <2>1. p \in 1..Len(scene) /\ p <= at
    BY <1>4, <1>7
  <2> QED
    BY <1>7, <2>1 DEF Upto
<1> QED
  BY <1>2, <1>3, <1>4, <1>5, <1>7, <1>8, <1>9 DEF at

(* A group gives its place to new items, which take over the registry      *)
(* entries of its children: each the one of the child it stands for.       *)
Ungrouped(M, C, n, g) ==
    /\ sourceOf' \in Seq(SceneSources \cup {None}) /\ Graph!Made' = 1..(M + n)
    /\ Graph!Made \subseteq Graph!Made' /\ Graph!GroupItems' = Graph!GroupItems
    /\ \A i \in Graph!Made : sourceOf'[i] = sourceOf[i]
    /\ \A k \in 1..n : M + k \notin Graph!Made /\ M + k \in Graph!Made'
    /\ \A k \in 1..n : sourceOf'[M + k] = sourceOf[C[k]]
    /\ scene' \in Seq(Graph!Made') /\ Once(scene')
    /\ \A x : Has(scene', x) <=> (Has(scene, x) /\ x # g) \/ \E k \in 1..n : x = M + k
    /\ \A s \in SceneSources : \A x : x \in registry'[s] <=>
          (x \in registry[s] /\ ~Has(C, x)) \/ \E k \in 1..n : x = M + k /\ C[k] \in registry[s]
    /\ DOMAIN registry' = SceneSources

LEMMA UngroupIs ==
    ASSUME GraphInstance, GraphInv, NEW t \in Threads, Graph!Ungroup(t),
           NEW M, M = Len(sourceOf), NEW C, C = list[t], NEW n, n = Len(C), NEW g, g = subject[t]
    PROVE  Ungrouped(M, C, n, g)
<1> DEFINE at == At(scene, g)
           shows == [k \in DOMAIN C |-> sourceOf[C[k]]]
           fresh == {p \in DOMAIN scene' : scene'[p] \notin others[t]}
           Rebound(i) == IF At(C, i) = 0 THEN i ELSE scene'[Nth(fresh, At(C, i))]
           Known(s) == {h \in registry[s] : At(C, h) <= Graph!Cardinality(fresh)}
<1>1. GraphTypes /\ HandlesMatch
  BY DEF GraphInv
<1>2. /\ M \in Nat /\ Graph!Made = 1..M /\ C = inside[g] /\ C \in Seq(Graph!Made) /\ Once(C)
      /\ \A i : Has(C, i) =>
            /\ IsRegistered(i) /\ i \in Graph!Made /\ i \notin Graph!GroupItems
            /\ sourceOf[i] \in SceneSources
      /\ scene \in Seq(Graph!Made) /\ Once(scene) /\ at \in 1..Len(scene) /\ scene[at] = g
      /\ others[t] \in SUBSET Graph!Made /\ \A p \in 1..at : scene[p] \in others[t]
  <2>1. graphPc[t] = "ungroup"
    BY DEF Graph!Ungroup
  <2>2. M \in Nat /\ Graph!Made = 1..M
    BY <1>1, MadeAre
  <2> QED
    BY <2>1, <2>2, UngroupStart
<1>3. /\ Graph!NativeMake(shows) /\ scene' = Spliced(scene, at, [k \in DOMAIN C |-> M + k])
      /\ registry' = [s \in SceneSources |-> {Rebound(i) : i \in Known(s)}]
  <2>1. /\ Graph!NativeMake([k \in DOMAIN inside[subject[t]] |-> sourceOf[inside[subject[t]][k]]])
        /\ scene' = Spliced(scene, At(scene, subject[t]),
                            [k \in DOMAIN inside[subject[t]] |-> Len(sourceOf) + k])
    BY DEF Graph!Ungroup, Spliced, At
  <2>2. registry' = [s \in SceneSources |->
            {IF At(list[t], i) = 0 THEN i
             ELSE scene'[Nth({p \in DOMAIN scene' : scene'[p] \notin others[t]}, At(list[t], i))] :
             i \in {h \in registry[s] :
                        At(list[t], h) <= Graph!Cardinality({p \in DOMAIN scene' : scene'[p] \notin others[t]})}}]
    BY Zenon DEF Graph!Ungroup, At, Nth
  <2> QED
    BY <1>2, <2>1, <2>2
<1> HIDE DEF at
<1>4. n \in Nat /\ DOMAIN C = 1..n /\ \A k \in 1..n : Has(C, C[k])
  BY <1>2 DEF Has
<1>5. /\ shows \in Seq(SceneSources \cup {None}) /\ Len(shows) = n
      /\ \A k \in 1..n : shows[k] = sourceOf[C[k]] /\ shows[k] \in SceneSources
  <2>1. \A k \in 1..n : sourceOf[C[k]] \in SceneSources
    BY <1>2, <1>4
  <2> DEFINE T == SceneSources \cup {None}
  <2>2. shows \in [1..n -> T]
    BY <1>4, <2>1
  <2> HIDE DEF T, shows
  <2>3. shows \in Seq(T)
    BY <1>4, <2>2, IsList
  <2>4. Len(shows) = n
    BY <1>4, <2>2, <2>3
  <2> QED
    BY <1>4, <2>1, <2>3, <2>4 DEF T, shows
<1> HIDE DEF shows
<1>6. /\ sourceOf' \in Seq(SceneSources \cup {None}) /\ Graph!Made' = 1..(M + n)
      /\ Graph!Made \subseteq Graph!Made' /\ \A i \in Graph!Made : sourceOf'[i] = sourceOf[i]
      /\ \A k \in 1..n : sourceOf'[M + k] = sourceOf[C[k]] /\ M + k \notin Graph!Made
      /\ \A k \in 1..n : sourceOf'[M + k] \in SceneSources
  <2>1. /\ sourceOf' \in Seq(SceneSources \cup {None})
        /\ Graph!Made' = 1..(Len(sourceOf) + Len(shows)) /\ Graph!Made \subseteq Graph!Made'
        /\ \A i \in Graph!Made : sourceOf'[i] = sourceOf[i]
        /\ \A k \in 1..Len(shows) : /\ sourceOf'[Len(sourceOf) + k] = shows[k]
                                     /\ Len(sourceOf) + k \notin Graph!Made
    BY <1>1, <1>3, <1>5, MakeIs
  <2> QED
    BY <1>5, <2>1, Zenon
<1>7. Graph!GroupItems' = Graph!GroupItems
  <2>1. \A i \in 1..(M + n) : i \in 1..M \/ \E k \in 1..n : i = M + k
    <3> SUFFICES ASSUME NEW i \in 1..(M + n), i \notin 1..M PROVE \E k \in 1..n : i = M + k
      OBVIOUS
    <3>1. i - M \in 1..n /\ i = M + (i - M)
      BY <1>2, <1>4
    <3> QED
      BY <3>1
  <2>2. None \notin SceneSources
    BY DEF GraphInstance
  <2>3. \A i \in Graph!Made' : i \in Graph!Made \/ sourceOf'[i] # None
    <3> SUFFICES ASSUME NEW i \in Graph!Made', i \notin Graph!Made PROVE sourceOf'[i] # None
      OBVIOUS
    <3>1. i \in 1..(M + n) /\ i \notin 1..M
      BY <1>2, <1>6
    <3>2. PICK k \in 1..n : i = M + k
      BY <2>1, <3>1, Zenon
    <3> QED
      BY <1>6, <2>2, <3>2, Zenon
  <2> QED
    BY <1>6, <2>3, Zenon DEF Graph!GroupItems
<1>8. \A k \in 1..n : M + k \in Graph!Made'
  <2>1. \A k \in 1..n : M + k \in 1..(M + n)
    BY <1>2, <1>4
  <2> QED
    BY <1>6, <2>1, Zenon
<1>9. /\ scene' \in Seq(Graph!Made') /\ Once(scene')
      /\ \A x : Has(scene', x) <=> (Has(scene, x) /\ x # g) \/ \E k \in 1..n : x = M + k
      /\ Graph!Cardinality(fresh) \in Nat /\ Graph!Cardinality(fresh) >= n
      /\ \A k \in 1..n : scene'[Nth(fresh, k)] = M + k
  <2> DEFINE O == Graph!Made
             T == Graph!Made'
             w == scene'
             seen == others[t]
  <2>1. Ungroups(w, scene, at, C, n, M, O, T, seen)
    BY <1>2, <1>3, <1>6 DEF Ungroups
  <2>2. fresh = {p \in DOMAIN w : w[p] \notin seen}
    OBVIOUS
  <2> HIDE DEF O, T, w, seen, fresh
  <2>3. w \in Seq(T) /\ TakeOver(w, scene, at, n, M, seen)
    BY <2>1, UngroupedAre
  <2>4. /\ w \in Seq(T) /\ Once(w)
        /\ \A x : Has(w, x) <=> (Has(scene, x) /\ x # g) \/ \E k \in 1..n : x = M + k
        /\ Graph!Cardinality(fresh) \in Nat /\ Graph!Cardinality(fresh) >= n
        /\ \A k \in 1..n : w[Nth(fresh, k)] = M + k
    BY <1>2, <2>2, <2>3, Zenon DEF TakeOver
  <2> QED
    BY <2>4 DEF T, w
<1> HIDE DEF fresh
<1>10. \A i : IF Has(C, i) THEN At(C, i) \in 1..n /\ C[At(C, i)] = i ELSE At(C, i) = 0
  BY <1>2, AtIs
<1>11. \A i : At(C, i) <= Graph!Cardinality(fresh)
  BY <1>4, <1>9, <1>10
<1>12. /\ \A i : ~Has(C, i) => Rebound(i) = i
       /\ \A k \in 1..n : Rebound(C[k]) = M + k
  <2>1. \A k \in 1..n : At(C, C[k]) = k /\ At(C, C[k]) # 0
    <3>1. \A k, m \in 1..n : C[k] = C[m] => k = m
      BY <1>2, <1>4 DEF Once
    <3>2. \A k \in 1..n : k # 0
      BY <1>4
    <3> QED
      BY <1>4, <1>10, <3>1, <3>2
  <2> QED
    BY <1>9, <1>10, <2>1
<1>13. ASSUME NEW s \in SceneSources, NEW x
       PROVE  x \in registry'[s] <=>
                 (x \in registry[s] /\ ~Has(C, x)) \/ \E k \in 1..n : x = M + k /\ C[k] \in registry[s]
  <2>1. x \in registry'[s] <=> \E i \in registry[s] : x = Rebound(i)
    <3> HIDE DEF Rebound
    <3> QED
      BY <1>3, <1>11
  <2> HIDE DEF Rebound
  <2>2. ASSUME NEW i \in registry[s], x = Rebound(i)
        PROVE  (x \in registry[s] /\ ~Has(C, x)) \/ \E k \in 1..n : x = M + k /\ C[k] \in registry[s]
    BY <1>10, <1>12, <2>2
  <2>3. ASSUME NEW k \in 1..n, x = M + k, C[k] \in registry[s]
        PROVE  \E i \in registry[s] : x = Rebound(i)
    BY <1>12, <2>3
  <2> QED
    BY <1>12, <2>1, <2>2, <2>3
<1>14. DOMAIN registry' = SceneSources
  BY <1>3
<1>15. /\ scene' \in Seq(Graph!Made') /\ Once(scene')
       /\ \A x : Has(scene', x) <=> (Has(scene, x) /\ x # g) \/ \E k \in 1..n : x = M + k
  BY <1>9
<1>16. \A k \in 1..n : M + k \notin Graph!Made /\ M + k \in Graph!Made'
  BY <1>6, <1>8
<1>17. \A k \in 1..n : sourceOf'[M + k] = sourceOf[C[k]]
  BY <1>6
<1> QED
  BY <1>6, <1>7, <1>13, <1>14, <1>15, <1>16, <1>17 DEF Ungrouped

LEMMA UngroupIsSafe ==
    ASSUME GraphInstance, GraphInv, NEW t \in Threads, Graph!Ungroup(t)
    PROVE  GraphInv'
<1>0. SUFFICES ASSUME NEW M, M = Len(sourceOf), NEW C, C = list[t], NEW n, n = Len(C),
                      NEW g, g = subject[t]
               PROVE  GraphInv'
  OBVIOUS
<1>1. GraphTypes /\ LocalTypes /\ OnePlace /\ HandlesMatch /\ ApartAre
  BY LocalsAre DEF GraphInv
<1>2. /\ graphPc[t] = "ungroup" /\ Graph!Return(t) /\ inside' = [inside EXCEPT ![g] = <<>>]
      /\ removed' = removed \cup Graph!Range(C) \cup {g} /\ groups' = groups \ {g}
  BY <1>0, Zenon DEF Graph!Ungroup
<1>3. /\ call[t] = "ungroup" /\ g \in Graph!GroupItems /\ g \notin removed /\ g \in groups
      /\ operationLock[g] = t /\ registryLock = t /\ groupsLock = t
      /\ C = inside[g] /\ C \in Seq(Graph!Made) /\ Once(C)
      /\ \A i : Has(C, i) => /\ IsRegistered(i) /\ i \in Graph!Made /\ i \notin Graph!GroupItems
  BY <1>0, <1>2, UngroupStart
<1>4. Ungrouped(M, C, n, g)
  BY <1>0, UngroupIs
<1>5. /\ sourceOf' \in Seq(SceneSources \cup {None})
      /\ Graph!Made \subseteq Graph!Made' /\ Graph!GroupItems' = Graph!GroupItems
      /\ \A i \in Graph!Made : sourceOf'[i] = sourceOf[i]
      /\ \A k \in 1..n : M + k \notin Graph!Made /\ M + k \in Graph!Made'
      /\ \A k \in 1..n : sourceOf'[M + k] = sourceOf[C[k]]
  BY <1>4 DEF Ungrouped
<1>6. /\ scene' \in Seq(Graph!Made') /\ Once(scene')
      /\ \A x : Has(scene', x) <=> (Has(scene, x) /\ x # g) \/ \E k \in 1..n : x = M + k
  BY <1>4 DEF Ungrouped
<1>7. /\ \A s \in SceneSources : \A x : x \in registry'[s] <=>
            (x \in registry[s] /\ ~Has(C, x)) \/ \E k \in 1..n : x = M + k /\ C[k] \in registry[s]
  BY <1>4 DEF Ungrouped
<1>8. \A x : x \in Graph!Range(C) <=> Has(C, x)
  BY <1>3, HasRange
<1>9. \A k \in 1..n : Has(C, C[k])
  BY <1>0 DEF Has
<1> DEFINE IsNew(x) == \E k \in 1..n : x = M + k
<1>10. /\ LeavesOthers(t) /\ graphPc'[t] = "idle" /\ call'[t] = None /\ ApartAre' /\ CallSafe(t)'
       /\ graphPc' \in [Threads -> GraphStages] /\ call' \in [Threads -> GraphCalls \cup {None}]
       /\ subject' \in [Threads -> Graph!Made \cup {0}]
       /\ list' \in [Threads -> Seq(Graph!Made)] /\ others' \in [Threads -> SUBSET Graph!Made]
       /\ registryLock' \in Threads \cup {None} /\ groupsLock' \in Threads \cup {None}
       /\ operationLock' \in [Graph!GroupItems -> Threads \cup {None}]
  <2>1. /\ LeavesOthers(t) /\ graphPc'[t] = "idle" /\ call'[t] = None
        /\ graphPc' \in [Threads -> GraphStages] /\ call' \in [Threads -> GraphCalls \cup {None}]
        /\ subject' \in [Threads -> Graph!Made \cup {0}]
        /\ list' \in [Threads -> Seq(Graph!Made)] /\ others' \in [Threads -> SUBSET Graph!Made]
        /\ registryLock' \in Threads \cup {None} /\ groupsLock' \in Threads \cup {None}
        /\ operationLock' \in [Graph!GroupItems -> Threads \cup {None}]
    BY <1>1, <1>2, ReturnIs
  <2>2. ApartAre'
    BY <1>1, <2>1, ApartStays
  <2> QED
    BY <2>1, <2>2, IdleIsSafe
<1>11. /\ inside \in [Graph!GroupItems -> Seq(Graph!Made)] /\ removed \subseteq Graph!Made
       /\ groups \subseteq Graph!GroupItems /\ registry \in [SceneSources -> SUBSET Graph!Made]
       /\ scene \in Seq(Graph!Made)
       /\ \A h \in Graph!GroupItems : h \in Graph!Made
  BY <1>1 DEF GraphTypes, Graph!TypeOK, Graph!GroupItems
<1>12. /\ \A h \in Graph!GroupItems : h # g => inside'[h] = inside[h]
       /\ \A i : ~Has(inside'[g], i)
       /\ \A h \in Graph!GroupItems : \A i : Has(inside'[h], i) <=> h # g /\ Has(inside[h], i)
       /\ \A h \in Graph!GroupItems : \A i : Has(inside[h], i) => i \in Graph!Made
       /\ \A h \in Graph!GroupItems : Once(inside'[h])
  <2>1. /\ \A h \in Graph!GroupItems : h # g => inside'[h] = inside[h]
        /\ inside'[g] = <<>>
    BY <1>2, <1>3, <1>11
  <2>2. \A i : ~Has(<<>>, i)
    BY DEF Has
  <2>3. Once(<<>>)
    BY DEF Once
  <2>4. \A h \in Graph!GroupItems : \A i : Has(inside[h], i) => i \in Graph!Made
    BY <1>11, HasElement
  <2> QED
    BY <1>1, <2>1, <2>2, <2>3, <2>4 DEF OnePlace
<1>13. GraphTypes'
  <2>1. \A s \in Seq(Graph!Made) : s \in Seq(Graph!Made')
    BY <1>5, SeqMonotonic
  <2>2. inside' \in [Graph!GroupItems' -> Seq(Graph!Made')]
    <3>1. <<>> \in Seq(Graph!Made')
      OBVIOUS
    <3>2. inside \in [Graph!GroupItems -> Seq(Graph!Made')]
      BY <1>11, <2>1
    <3> QED
      BY <1>2, <1>5, <3>1, <3>2
  <2>3. /\ subject' \in [Threads -> Graph!Made' \cup {0}] /\ list' \in [Threads -> Seq(Graph!Made')]
        /\ others' \in [Threads -> SUBSET Graph!Made']
    BY <1>5, <1>10, <2>1
  <2>4. removed' \subseteq Graph!Made' /\ groups' \subseteq Graph!GroupItems'
    BY <1>2, <1>3, <1>5, <1>8, <1>11
  <2>5. registry' \in [SceneSources -> SUBSET Graph!Made']
    <3>1. registry' = [s \in SceneSources |-> registry'[s]]
      BY DEF Graph!Ungroup
    <3>2. \A s \in SceneSources : registry'[s] \subseteq Graph!Made'
      BY <1>5, <1>7, <1>11
    <3> QED
      BY <3>1, <3>2
  <2> QED
    BY <1>5, <1>6, <1>10, <2>2, <2>3, <2>4, <2>5 DEF GraphTypes, Graph!TypeOK
<1>14. OnePlace'
  <2>1. ASSUME NEW h \in Graph!GroupItems, NEW i, Has(inside'[h], i)
        PROVE  /\ ~Has(scene', i) /\ i \notin Graph!GroupItems
               /\ \A f \in Graph!GroupItems : Has(inside'[f], i) => f = h
    <3>1. Has(inside[h], i) /\ i \in Graph!Made /\ ~IsNew(i)
      BY <1>5, <1>12, <2>1
    <3> QED
      BY <1>1, <1>6, <1>12, <3>1 DEF OnePlace
  <2> QED
    BY <1>5, <1>6, <1>12, <2>1 DEF OnePlace
<1>15. \A x : IsRegistered(x)' <=> (IsRegistered(x) /\ ~Has(C, x)) \/ IsNew(x)
  <2>1. ASSUME NEW x, IsRegistered(x)' PROVE (IsRegistered(x) /\ ~Has(C, x)) \/ IsNew(x)
    BY <1>7, <2>1 DEF IsRegistered
  <2>2. ASSUME NEW x, IsRegistered(x), ~Has(C, x) PROVE IsRegistered(x)'
    BY <1>7, <2>2 DEF IsRegistered
  <2>3. ASSUME NEW x, IsNew(x) PROVE IsRegistered(x)'
    <3>1. PICK k \in 1..n : x = M + k
      BY <2>3
    <3>2. PICK s \in SceneSources : C[k] \in registry[s]
      BY <1>3, <1>9 DEF IsRegistered
    <3> QED
      BY <1>7, <3>1, <3>2 DEF IsRegistered
  <2> QED
    BY <2>1, <2>2, <2>3
<1>16. \A x : IsPending(x)' <=> IsPending(x)
  BY <1>2, <1>10 DEF IsPending, LeavesOthers
<1>17. \A x : IsAttached(x)' <=> (IsAttached(x) /\ x # g /\ ~Has(C, x)) \/ IsNew(x)
  <2>1. \A x : IsAttached(x)' <=> Has(scene', x) \/ \E h \in Graph!GroupItems : Has(inside'[h], x)
    BY <1>5 DEF IsAttached
  <2>2. \A x : IsAttached(x) <=> Has(scene, x) \/ \E h \in Graph!GroupItems : Has(inside[h], x)
    BY DEF IsAttached
  <2>3. /\ \A h \in Graph!GroupItems : ~Has(inside[h], g)
        /\ \A x : Has(C, x) => ~Has(scene, x) /\ \A h \in Graph!GroupItems : Has(inside[h], x) => h = g
    BY <1>1, <1>3 DEF OnePlace
  <2> QED
    BY <1>3, <1>6, <1>12, <2>1, <2>2, <2>3
<1>18. \A x : IsNew(x) => x \notin Graph!Made /\ ~Has(C, x) /\ x # g /\ x \notin removed /\ x \notin removed'
  <2>1. \A x : IsNew(x) => x \notin Graph!Made
    BY <1>5
  <2> QED
    BY <1>2, <1>3, <1>8, <1>11, <2>1
<1> HIDE DEF IsNew
<1>19. HandlesMatch'
  <2>1. \A x : IsAttached(x)' <=> (IsRegistered(x)' \/ x \in groups' \/ IsPending(x)') /\ x \notin removed'
    <3>1. \A x : IsAttached(x) <=> (IsRegistered(x) \/ x \in groups \/ IsPending(x)) /\ x \notin removed
      BY <1>1 DEF HandlesMatch
    <3>2. \A x : x \in removed' <=> x \in removed \/ Has(C, x) \/ x = g
      BY <1>2, <1>8
    <3>3. \A x : x \in groups' <=> x \in groups /\ x # g
      BY <1>2
    <3> QED
      BY <1>15, <1>16, <1>17, <1>18, <3>1, <3>2, <3>3
  <2>2. ASSUME NEW s \in SceneSources, NEW x \in registry'[s] PROVE sourceOf'[x] = s
    <3>1. CASE x \in registry[s] /\ ~Has(C, x)
      BY <1>1, <1>5, <1>11, <3>1 DEF HandlesMatch
    <3>2. CASE \E k \in 1..n : x = M + k /\ C[k] \in registry[s]
      BY <1>1, <1>5, <3>2 DEF HandlesMatch
    <3> QED
      BY <1>7, <3>1, <3>2
  <2> QED
    BY <2>1, <2>2 DEF HandlesMatch
<1>20. Steady(t)
  <2>1. \A i \in Graph!Made : IsRegistered(i)' => IsRegistered(i)
    BY <1>15, <1>18
  <2>2. \A h \in Graph!GroupItems :
           /\ h \in removed' => h \in removed \/ operationLock[h] = t
           /\ operationLock[h] # t => inside'[h] = inside[h]
    BY <1>2, <1>3, <1>8, <1>12
  <2>3. /\ \A i : i \in groups' => i \in groups
        /\ \A i : i \in removed => i \in removed'
    BY <1>2
  <2> QED
    BY <1>2, <1>3, <1>5, <1>10, <2>1, <2>2, <2>3 DEF Steady
<1> QED
  BY <1>10, <1>13, <1>14, <1>19, <1>20, SteadyIsSafe

-----------------------------------------------------------------------------
(* The invariant *)

(* Calls that start. *)
LEMMA StartIsSafe ==
    ASSUME GraphInstance, GraphInv, NEW t \in Threads, Graph!Start(t)
    PROVE  GraphInv'
<1> DEFINE Begin(g, name, handles) == Graph!GroupCall(t, g, name, handles)
           OnGroup(g) ==
               \/ \E i \in Graph!Made, name \in {"addItem", "takeItem"} : Begin(g, name, <<i>>)
               \/ \E name \in {"ungroup", "removeGroup", "removeGroupItem"} : Begin(g, name, <<>>)
<1>1. \/ \E s \in SceneSources : Graph!AddSource(t, s)
      \/ \E s \in SceneSources : Graph!RemoveSources(t, {s}, "removeSource")
      \/ Graph!CreateGroup(t)
      \/ \E i \in Graph!Made : \/ Graph!RemoveFromScene(t, i, "return")
                               \/ Graph!RemoveFromScene(t, i, "prune")
      \/ Graph!RemoveSources(t, SceneSources, "removeSource")
      \/ Graph!RemoveSources(t, SceneSources, "clear")
      \/ \E g \in Graph!GroupItems : OnGroup(g)
  BY Zenon DEF Graph!Start
<1>2. ASSUME NEW g \in Graph!GroupItems, OnGroup(g) PROVE GraphInv'
  <2>1. ASSUME NEW i \in Graph!Made, NEW name \in {"addItem", "takeItem"}, Begin(g, name, <<i>>)
        PROVE  GraphInv'
    <3>1. name \in GraphCalls /\ <<i>> \in Seq(Graph!Made) /\ Len(<<i>>) = 1
      BY DEF GraphCalls
    <3> DEFINE handles == <<i>>
    <3> HIDE DEF handles
    <3>2. handles \in Seq(Graph!Made) /\ Len(handles) = 1 /\ Graph!GroupCall(t, g, name, handles)
      BY <2>1, <3>1 DEF handles
    <3> QED
      BY <3>1, <3>2, GroupCallIsSafe
  <2>2. ASSUME NEW name \in {"ungroup", "removeGroup", "removeGroupItem"}, Begin(g, name, <<>>)
        PROVE  GraphInv'
    <3>1. name \in GraphCalls /\ <<>> \in Seq(Graph!Made) /\ name \notin {"addItem", "takeItem"}
      BY DEF GraphCalls
    <3> QED
      BY <2>2, <3>1, GroupCallIsSafe
  <2> QED
    BY <1>2, <2>1, <2>2
<1> HIDE DEF OnGroup
<1>3. ASSUME NEW from \in SUBSET SceneSources, NEW name \in {"removeSource", "clear"},
             Graph!RemoveSources(t, from, name)
      PROVE  GraphInv'
  BY <1>3, RemoveSourcesIsSafe
<1>4. ASSUME NEW i \in Graph!Made, NEW to \in {"return", "prune"}, Graph!RemoveFromScene(t, i, to)
      PROVE  GraphInv'
  BY <1>4, RemoveFromSceneIsSafe
<1>5. ASSUME NEW s \in SceneSources, Graph!AddSource(t, s) PROVE GraphInv'
  BY <1>5, AddSourceIsSafe
<1>6. CASE Graph!CreateGroup(t)
  BY <1>6, CreateGroupIsSafe
<1> QED
  BY <1>1, <1>2, <1>3, <1>4, <1>5, <1>6, Zenon

(* A new item becomes a registered one. *)
LEMMA RegistersAreSafe ==
    ASSUME GraphInstance, GraphInv, NEW t \in Threads, Graph!Register(t) \/ Graph!RegisterGroup(t)
    PROVE  GraphInv'
<1>1. CASE Graph!Register(t)
  BY <1>1, RegisterIsSafe DEF Graph!Register, Graph!native
<1>2. CASE Graph!RegisterGroup(t)
  BY <1>2, RegisterIsSafe DEF Graph!RegisterGroup, Graph!native
<1> QED
  BY <1>1, <1>2

(* Every step keeps the invariant. *)
LEMMA GraphStep == GraphInstance /\ GraphInv /\ [Graph!Next]_Graph!vars => GraphInv'
<1> SUFFICES ASSUME GraphInstance, GraphInv, [Graph!Next]_Graph!vars PROVE GraphInv'
  OBVIOUS
<1>1. ASSUME NEW t \in Threads, Graph!Continue(t) PROVE GraphInv'
  <2>1. CASE Graph!Register(t) \/ Graph!RegisterGroup(t)
    BY <2>1, RegistersAreSafe
  <2>2. CASE Graph!RemovedFromScene(t) \/ Graph!Prune(t) \/ Graph!PruneGroups(t)
    BY <2>2, RemovedFromSceneIsSafe, PruneRegistryIsSafe, PruneGroupsIsSafe
  <2>3. CASE Graph!RemoveEach(t) \/ Graph!RemovedEach(t)
    BY <2>3, RemoveEachIsSafe, RemovedEachIsSafe
  <2>4. CASE Graph!ReadGroups(t) \/ Graph!NextGroup(t) \/ Graph!ClearGroups(t)
    BY <2>4, ReadGroupsIsSafe, NextGroupIsSafe, ClearGroupsIsSafe
  <2>5. CASE Graph!TakeOperation(t) \/ Graph!Reparent(t) \/ Graph!ReadChildren(t)
    BY <2>5, TakeOperationIsSafe, ReparentIsSafe, ReadChildrenIsSafe
  <2>6. CASE Graph!MapChildren(t) \/ Graph!LockRegistry(t) \/ Graph!LockGroups(t)
    BY <2>6, MapChildrenIsSafe, LockRegistryIsSafe, LockGroupsIsSafe
  <2>7. CASE Graph!RemoveGroup(t) \/ Graph!ReadScene(t) \/ Graph!Ungroup(t)
    BY <2>7, RemoveGroupIsSafe, ReadSceneIsSafe, UngroupIsSafe
  <2> QED
    BY <1>1, <2>1, <2>2, <2>3, <2>4, <2>5, <2>6, <2>7 DEF Graph!Continue
<1>2. CASE UNCHANGED Graph!vars
  <2>1. UNCHANGED <<scene, inside, sourceOf, registry, groups, removed, registryLock, groupsLock,
                    operationLock, graphPc, call, subject, list, others, calls>>
    BY <1>2 DEF Graph!vars
  <2>2. GraphTypes' /\ ApartAre'
    BY <2>1 DEF GraphInv, GraphTypes, ApartAre, Graph!TypeOK, Graph!Made, Graph!GroupItems
  <2>3. OnePlace' /\ HandlesMatch'
    BY <2>1 DEF GraphInv, OnePlace, HandlesMatch, IsAttached, IsRegistered, IsPending, Graph!Made,
                Graph!GroupItems
  <2>4. ASSUME NEW t \in Threads PROVE CallSafe(t)'
    <3>1. CallSafe(t)
      BY DEF GraphInv
    <3>2. (\A i : IsRegistered(i)' <=> IsRegistered(i)) /\ (\A i : IsPending(i)' <=> IsPending(i))
      BY <2>1 DEF IsRegistered, IsPending
    <3>3. \A i : Disappears(i)' <=> Disappears(i)
      BY <2>1, <3>2 DEF Disappears
    <3>4. Graph!Made' = Graph!Made /\ Graph!GroupItems' = Graph!GroupItems
      BY <2>1 DEF Graph!Made, Graph!GroupItems
    <3>5. InCall(t)' /\ HasLocks(t)' /\ Removes(t)' /\ Replaces(t)'
      BY <2>1, <3>1, <3>2, <3>4 DEF CallSafe, InCall, HasLocks, Removes, Replaces
    <3>6. Registers(t)'
      BY <2>1, <3>1, <3>2, <3>4 DEF CallSafe, Registers
    <3>7. Children(t)'
      BY <2>1, <3>1, <3>2, <3>3, <3>4 DEF CallSafe, Children
    <3> QED
      BY <3>5, <3>6, <3>7 DEF CallSafe
  <2> QED
    BY <2>2, <2>3, <2>4 DEF GraphInv
<1> QED
  BY <1>1, <1>2, StartIsSafe DEF Graph!Next

(* It holds in the scenes that there are at the start. *)
LEMMA GraphFirst ==
    ASSUME GraphInstance, Graph!Init
    PROVE  GraphInv
<1>1. PICK s \in Scenes :
        /\ scene = s.scene /\ inside = s.inside /\ sourceOf = s.sourceOf
        /\ registry = s.registry /\ groups = s.groups
  BY DEF Graph!Init
<1>2. /\ sourceOf \in Seq(SceneSources \cup {None})
      /\ scene \in Seq(Graph!Made) /\ Graph!IsInjective(scene)
      /\ inside \in [Graph!GroupItems -> Seq(Graph!Made)]
      /\ \A g \in Graph!GroupItems :
            /\ Graph!IsInjective(inside[g])
            /\ Graph!Range(inside[g]) \cap (Graph!Range(scene) \cup Graph!GroupItems) = {}
            /\ \A h \in Graph!GroupItems \ {g} : Graph!Range(inside[g]) \cap Graph!Range(inside[h]) = {}
      /\ registry \in [SceneSources -> SUBSET Graph!Made] /\ groups \subseteq Graph!GroupItems
      /\ \A source \in SceneSources : \A i \in registry[source] : sourceOf[i] = source
  <2>1. Graph!IsScene(s)
    BY <1>1, ScenesAssumption
  <2> QED
    <3>1. /\ sourceOf \in Seq(SceneSources \cup {None})
          /\ scene \in Seq(Graph!Made) /\ Graph!IsInjective(scene)
          /\ inside \in [Graph!GroupItems -> Seq(Graph!Made)]
      BY <1>1, <2>1 DEF Graph!IsScene, Graph!Made, Graph!GroupItems
    <3>2. ASSUME NEW g \in Graph!GroupItems
          PROVE  /\ Graph!IsInjective(inside[g])
                 /\ Graph!Range(inside[g]) \cap (Graph!Range(scene) \cup Graph!GroupItems) = {}
                 /\ \A h \in Graph!GroupItems \ {g} :
                       Graph!Range(inside[g]) \cap Graph!Range(inside[h]) = {}
      BY <1>1, <2>1 DEF Graph!IsScene, Graph!Made, Graph!GroupItems
    <3>3. /\ registry \in [SceneSources -> SUBSET Graph!Made] /\ groups \subseteq Graph!GroupItems
          /\ \A source \in SceneSources : \A i \in registry[source] : sourceOf[i] = source
      BY <1>1, <2>1 DEF Graph!IsScene, Graph!Made, Graph!GroupItems
    <3> QED
      BY <3>1, <3>2, <3>3
<1>h. Graph!Range(scene) \cup UNION {Graph!Range(inside[g]) : g \in Graph!GroupItems}
         = groups \cup UNION {registry[source] : source \in SceneSources}
  <2>1. Graph!IsScene(s)
    BY <1>1, ScenesAssumption
  <2>2. Graph!Range(s.scene) \cup
           UNION {Graph!Range(s.inside[g]) : g \in {i \in DOMAIN s.sourceOf : s.sourceOf[i] = None}}
           = s.groups \cup UNION {s.registry[source] : source \in SceneSources}
    BY <2>1, Zenon DEF Graph!IsScene
  <2> QED
    BY <1>1, <2>2, Zenon DEF Graph!Made, Graph!GroupItems
<1>3. /\ removed = {} /\ registryLock = None /\ groupsLock = None
      /\ operationLock = [g \in Graph!GroupItems |-> None]
      /\ graphPc = [t \in Threads |-> "idle"] /\ call = [t \in Threads |-> None]
      /\ subject = [t \in Threads |-> 0] /\ list = [t \in Threads |-> <<>>]
      /\ others = [t \in Threads |-> {}]
  BY DEF Graph!Init
<1>4. GraphTypes
  <2>1. "idle" \in GraphStages /\ <<>> \in Seq(Graph!Made)
    BY DEF GraphStages
  <2> HIDE DEF GraphStages
  <2> QED
    BY <1>2, <1>3, <2>1 DEF GraphTypes, Graph!TypeOK
<1>5. /\ \A x : x \in Graph!Range(scene) <=> Has(scene, x)
      /\ \A g \in Graph!GroupItems : \A x : x \in Graph!Range(inside[g]) <=> Has(inside[g], x)
  BY <1>2, HasRange
<1>6. Once(scene) /\ \A g \in Graph!GroupItems : Once(inside[g])
  <2>1. \A q \in Seq(Graph!Made) : Graph!IsInjective(q) => Once(q)
    BY DEF Graph!IsInjective, Once
  <2> QED
    BY <1>2, <2>1
<1>7. OnePlace
  BY <1>2, <1>5, <1>6 DEF OnePlace
<1>8. HandlesMatch
  <2>1. \A i : IsAttached(i) <=> i \in Graph!Range(scene) \cup
                                       UNION {Graph!Range(inside[g]) : g \in Graph!GroupItems}
    BY <1>5 DEF IsAttached
  <2>2. \A i : IsRegistered(i) <=> i \in UNION {registry[source] : source \in SceneSources}
    BY DEF IsRegistered
  <2>3. (\A i : ~IsPending(i)) /\ removed = {}
    BY <1>3 DEF IsPending
  <2>4. \A i : IsAttached(i) <=> IsRegistered(i) \/ i \in groups
    <3> DEFINE A == Graph!Range(scene) \cup UNION {Graph!Range(inside[g]) : g \in Graph!GroupItems}
               B == UNION {registry[source] : source \in SceneSources}
    <3>1. A = groups \cup B
      BY <1>h, Zenon
    <3> HIDE DEF A, B
    <3>2. (\A i : IsAttached(i) <=> i \in A) /\ (\A i : IsRegistered(i) <=> i \in B)
      BY <2>1, <2>2 DEF A, B
    <3> QED
      BY <3>1, <3>2
  <2>5. \A source \in SceneSources : \A i \in registry[source] : sourceOf[i] = source
    BY <1>2
  <2> QED
    BY <2>3, <2>4, <2>5 DEF HandlesMatch
<1>9. ApartAre
  BY <1>3 DEF ApartAre
<1>10. ASSUME NEW t \in Threads PROVE CallSafe(t)
  <2>1. graphPc[t] = "idle" /\ call[t] = None /\ None \notin GraphCalls
    BY <1>3 DEF GraphInstance
  <2> QED
    BY <2>1 DEF GraphCalls, CallSafe, InCall, HasLocks, Registers, Removes, Children, Replaces,
                Reads, WithOperation, WithRegistry, WithGroups
<1> QED
  BY <1>4, <1>7, <1>8, <1>9, <1>10 DEF GraphInv

(* When no call is in progress, no new item is waiting for its handle.     *)
LEMMA GraphInvManaged == ASSUME GraphInv PROVE Graph!TypeOK /\ Graph!SceneIsManaged
<1>1. GraphTypes /\ HandlesMatch
  BY DEF GraphInv
<1>2. ASSUME \A t \in Threads : graphPc[t] = "idle"
      PROVE  Graph!Attached = (Graph!Registered \cup groups) \ removed
  <2>1. /\ scene \in Seq(Graph!Made) /\ \A g \in Graph!GroupItems : inside[g] \in Seq(Graph!Made)
    BY <1>1 DEF GraphTypes, Graph!TypeOK
  <2>2. \A i : i \in Graph!Attached <=> IsAttached(i)
    BY <2>1, HasRange DEF Graph!Attached, IsAttached
  <2>3. \A i : i \in Graph!Registered <=> IsRegistered(i)
    BY DEF Graph!Registered, IsRegistered
  <2>4. \A i : ~IsPending(i)
    BY <1>2 DEF IsPending
  <2> QED
    BY <1>1, <2>2, <2>3, <2>4 DEF HandlesMatch
<1> QED
  BY <1>1, <1>2 DEF HandlesMatch, GraphTypes, Graph!SceneIsManaged

(* Whatever calls any number of threads make on a scene, at the end of     *)
(* them every item of libobs has its handle and every handle that is not   *)
(* removed its item, under the source that it shows: as long as callers    *)
(* do not remove an item, or take it from its group, while that group is   *)
(* ungrouped, and do not clear a scene while a group is made.              *)
THEOREM SceneAlwaysManaged ==
    ASSUME GraphInstance
    PROVE  Graph!Spec => [](Graph!TypeOK /\ Graph!SceneIsManaged)
<1>1. Graph!Init => GraphInv
  BY GraphFirst
<1>2. GraphInv /\ [Graph!Next]_Graph!vars => GraphInv'
  BY GraphStep
<1>3. GraphInv => Graph!TypeOK /\ Graph!SceneIsManaged
  BY GraphInvManaged
<1> QED
  BY <1>1, <1>2, <1>3, PTL DEF Graph!Spec

=============================================================================
