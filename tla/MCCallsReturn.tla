--------------------------- MODULE MCCallsReturn ----------------------------
(***************************************************************************)
(* Instances for TLC of the calls that wait without a deadline: those of   *)
(* RuntimeLifecycle, one after the other, and in behaviours of its own     *)
(* those of OutputLifecycle.  The component that does not run stays in its *)
(* initial state, where no action that has fairness is enabled.  Setters   *)
(* only clear the wiring: its value decides nothing about who waits.       *)
(***************************************************************************)
EXTENDS RuntimeLifecycle

CONSTANTS r1, r2, r3, t1, t2, t3, none

ThreeRuntimes == {r1, r2, r3}

VARIABLES
    component,      \* the one that runs
    lifecycle, configuration, slots, pc, op, arg, heard, outcome, wired, phase, due, stopAsked,
    paused, pauseQ, starts

outputVars == <<lifecycle, configuration, slots, pc, op, arg, heard, outcome, wired, phase, due,
                stopAsked, paused, pauseQ, starts>>

Output == INSTANCE OutputLifecycle
    WITH Threads <- {t1, t2, t3}, Actor <- t3, Wirings <- {}, None <- none,
         MaxStarts <- 2, MaxPauses <- 1, Timeouts <- FALSE, StopCodes <- {"success", "failure"},
         SelfEnds <- TRUE, CallsFail <- TRUE, ActorClosures <- FALSE

CallsInit ==
    /\ component \in {"runtime", "output"}
    /\ Init /\ Output!Init

CallsNext ==
    \/ component = "runtime" /\ Next /\ UNCHANGED <<component, outputVars>>
    \/ component = "output" /\ Output!Next /\ UNCHANGED <<component, vars>>

CallsSpec ==
    /\ CallsInit /\ [][CallsNext]_<<component, vars, outputVars>>
    /\ Fairness /\ Output!Fairness

(* The property of OutputLifecycle. *)
OperationsReturn == Output!OperationsReturn
=============================================================================
