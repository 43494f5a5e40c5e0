----------------------------- MODULE MCObjects ------------------------------
(* Instances of Objects for TLC. *)
EXTENDS Objects, TLC

CONSTANTS t1, t2, t3, a, b, r1, r2, f1, f2, s1, s2

ThreeThreads == {t1, t2, t3}
TwoThreads == {t1, t2}
TwoSources == {a, b}
TwoReceivers == {r1, r2}
TwoFilters == {f1, f2}
TwoDestinations == {s1, s2}
TwoKeys == {"key", "other"}
TwoValues == 1..2

(* In the scene a has two items and b one. *)
Symmetry == Permutations(TwoThreads) \cup Permutations(TwoReceivers)
                \cup Permutations(TwoFilters) \cup Permutations(TwoDestinations)

(* A scene whose items are reparented while they are removed, or whose     *)
(* clear overlaps with a new group, is outside what SceneGraph promises.   *)
CallsApart == {{"ungroup", "removeItem"}, {"ungroup", "takeItem"}, {"clear", "createGroup"}}

(* Three items of two sources in two groups. *)
OneScene ==
    {[scene |-> <<4, 5>>, inside |-> (4 :> <<1, 2>> @@ 5 :> <<3>>),
      sourceOf |-> <<a, b, a, None, None>>,
      registry |-> (a :> {1, 3} @@ b :> {2}), groups |-> {4, 5}]}
=============================================================================
