------------------------ MODULE MCManagedTransition -------------------------
(* Instances of ManagedTransition for TLC. *)
EXTENDS ManagedTransition

CONSTANTS t1, t2, a, b

TwoThreads == {t1, t2}
TwoSources == {a, b}
=============================================================================
