------------------------ MODULE MCRuntimeLifecycle -------------------------
(* Instances of RuntimeLifecycle for TLC. *)
EXTENDS RuntimeLifecycle, TLC

CONSTANTS r1, r2, r3

TwoRuntimes == {r1, r2}
ThreeRuntimes == {r1, r2, r3}

NoFaults == {}

RuntimeSymmetry == Permutations(Runtimes)
=============================================================================
