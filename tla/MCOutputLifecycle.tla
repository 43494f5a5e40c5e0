------------------------- MODULE MCOutputLifecycle --------------------------
(* Instances of OutputLifecycle for TLC. *)
EXTENDS OutputLifecycle, TLC

CONSTANTS t1, t2, actor, w1

ThreeCallers == {t1, t2, actor}
TwoCallers == {t1, actor}
OneWiring == {w1}

(* The callers that are not closures on the actor are alike. *)
Symmetry == Permutations({t1, t2})
=============================================================================
