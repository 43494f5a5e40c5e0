---------------------------- MODULE RuntimeLease ----------------------------
(***************************************************************************)
(* What the runtime slot promises: an exclusive lease on the process-wide  *)
(* native library.  An actor holds the lease from activate_runtime_slot to *)
(* release_runtime_slot; only the holder starts and stops the library, and *)
(* the lease comes back with the library down.                             *)
(***************************************************************************)
CONSTANTS Runtimes, NoThread

VARIABLES holder,    \* the runtime that has the lease
          library    \* the runtime that brought the library up

vars == <<holder, library>>

Init == holder = NoThread /\ library = NoThread

Acquire(r) ==
    /\ holder = NoThread
    /\ holder' = r
    /\ UNCHANGED library

Startup(r) ==
    /\ holder = r
    /\ library = NoThread
    /\ library' = r
    /\ UNCHANGED holder

Shutdown(r) ==
    /\ holder = r
    /\ library = r
    /\ library' = NoThread
    /\ UNCHANGED holder

(* A start that fails shuts the library down in the same breath. *)
Release(r) ==
    /\ holder = r
    /\ holder' = NoThread
    /\ library' = NoThread

Next == \E r \in Runtimes : Acquire(r) \/ Startup(r) \/ Shutdown(r) \/ Release(r)

Spec == Init /\ [][Next]_vars
=============================================================================
