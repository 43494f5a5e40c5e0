----------------------------- MODULE MCBootstrap ----------------------------
(* Instances of Bootstrap by itself for TLC. *)
EXTENDS Bootstrap

FourVersions == {<<31, 1, 0>>, <<32, 0, 0>>, <<32, 0, 1>>, <<32, 1, 0>>}
Pinned == <<32, 0, 0>>
NotInstalled == <<0, 0, 0>>
=============================================================================
