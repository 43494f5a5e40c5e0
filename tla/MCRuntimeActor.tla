--------------------------- MODULE MCRuntimeActor ---------------------------
(***************************************************************************)
(* The instance of Actors for TLC.                                         *)
(***************************************************************************)
EXTENDS Actors

CONSTANTS t1, t2, o1, o2, c1, c2, c3, noObject, r1, r2, r3

TwoThreads == {t1, t2}
TwoObjects == {o1, o2}
ThreeCommands == {c1, c2, c3}
TwoSyncCommands == {c1, c2}
ThreeRuntimes == {r1, r2, r3}
EveryFault == {"spawn", "init", "initPanic", "panic"}
=============================================================================
