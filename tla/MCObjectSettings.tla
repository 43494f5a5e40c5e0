-------------------------- MODULE MCObjectSettings --------------------------
(* Instances of ObjectSettings for TLC. *)
EXTENDS ObjectSettings

CONSTANTS t1, t2

TwoThreads == {t1, t2}
TwoKeys == {"key", "other"}
TwoValues == 1..2
=============================================================================
