----------------------------- MODULE ReplaySave -----------------------------
(***************************************************************************)
(* save_buffer of the replay buffer                                        *)
(* (libobs-wrapper/src/data/output/replay_buffer.rs): threads that take    *)
(* the save lock, subscribe to the saved signal, ask libobs to save, wait, *)
(* and then ask for the path of the last replay.  A call on the actor is   *)
(* refused at once, so a caller is a thread.  libobs writes the files in   *)
(* the order of the requests, may answer several with one file, and takes  *)
(* none while it is inactive; a file is known by its request's number.     *)
(***************************************************************************)
EXTENDS Naturals, FiniteSets

CONSTANTS
    Threads,    \* callers
    None,       \* no thread
    MaxSaves    \* bound: requests libobs is given

VARIABLES
    saveLock,    \* the thread that has the save lock
    pc,          \* where each thread is
    request,     \* the number of the request each thread has made
    saved,       \* whether its subscription has received a signal
    since,       \* the files there were when it subscribed
    path,        \* the file its last successful save returned
    active,      \* the replay buffer is active
    requested,   \* the requests made of libobs
    written,     \* the requests libobs has written; the last is get_last_replay
    timedOut     \* history: a deadline has passed

vars == <<saveLock, pc, request, saved, since, path, active, requested, written, timedOut>>

Saves == 1..MaxSaves

TypeOK ==
    /\ saveLock \in Threads \cup {None}
    /\ pc \in [Threads -> {"idle", "lock", "query", "subscribe", "save", "wait", "lastReplay"}]
    /\ request \in [Threads -> 0..requested]
    /\ saved \in [Threads -> BOOLEAN]
    /\ since \in [Threads -> 0..MaxSaves]
    /\ path \in [Threads -> 0..MaxSaves]
    /\ active \in BOOLEAN
    /\ requested \in 0..MaxSaves
    /\ written \in 0..requested
    /\ timedOut \in BOOLEAN

-----------------------------------------------------------------------------
Goto(t, to) == pc' = [pc EXCEPT ![t] = to]

(* The call ends: the guard and the receiver are dropped. *)
Return(t) ==
    /\ Goto(t, "idle")
    /\ saveLock' = IF saveLock = t THEN None ELSE saveLock
    /\ request' = [request EXCEPT ![t] = 0]
    /\ saved' = [saved EXCEPT ![t] = FALSE]
    /\ since' = [since EXCEPT ![t] = 0]

Save(t) ==
    /\ pc[t] = "idle"
    /\ Goto(t, "lock")
    /\ path' = [path EXCEPT ![t] = 0]
    /\ UNCHANGED <<saveLock, request, saved, since, active, requested, written, timedOut>>

(* Mutant: saves are not serialized. *)
LockIgnored(t) ==
    /\ pc[t] = "lock"
    /\ Goto(t, "query")
    /\ UNCHANGED <<saveLock, request, saved, since, path, active, requested, written, timedOut>>

LockSave(t) ==
    /\ pc[t] = "lock"
    /\ saveLock = None
    /\ saveLock' = t
    /\ Goto(t, "query")
    /\ UNCHANGED <<request, saved, since, path, active, requested, written, timedOut>>

(* lock_until looks at the clock when the lock is taken, and               *)
(* wait_for_completion also when the signal is already there.              *)
Deadline(t) ==
    /\ (pc[t] = "lock" /\ saveLock # None) \/ pc[t] = "wait"
    /\ Return(t)
    /\ timedOut' = TRUE
    /\ UNCHANGED <<path, active, requested, written>>

(* A call on the actor fails, or the procedure handler is null. *)
CallFails(t) ==
    /\ pc[t] \in {"query", "subscribe", "save", "lastReplay"}
    /\ Return(t)
    /\ UNCHANGED <<path, active, requested, written, timedOut>>

QueryActive(t) ==
    /\ pc[t] = "query"
    /\ IF active
       THEN Goto(t, "subscribe") /\ UNCHANGED <<saveLock, request, saved, since>>
       ELSE Return(t)
    /\ UNCHANGED <<path, active, requested, written, timedOut>>

(* on_saved *)
Subscribe(t) ==
    /\ pc[t] = "subscribe"
    /\ since' = [since EXCEPT ![t] = written]
    /\ Goto(t, "save")
    /\ UNCHANGED <<saveLock, request, saved, path, active, requested, written, timedOut>>

(* Mutant: a request that an inactive output did not take is counted on. *)
CallSaveUntaken(t) ==
    /\ pc[t] = "save"
    /\ active => requested < MaxSaves
    /\ requested' = IF active THEN requested + 1 ELSE requested
    /\ request' = [request EXCEPT ![t] = requested + 1]
    /\ Goto(t, "wait")
    /\ UNCHANGED <<saveLock, saved, since, path, active, written, timedOut>>

(* The save procedure. *)
CallSave(t) ==
    /\ pc[t] = "save"
    /\ active => requested < MaxSaves
    /\ requested' = IF active THEN requested + 1 ELSE requested
    /\ request' = [request EXCEPT ![t] = requested']
    /\ Goto(t, "wait")
    /\ UNCHANGED <<saveLock, saved, since, path, active, written, timedOut>>

WaitSaved(t) ==
    /\ pc[t] = "wait"
    /\ saved[t]
    /\ Goto(t, "lastReplay")
    /\ UNCHANGED <<saveLock, request, saved, since, path, active, requested, written, timedOut>>

(* The get_last_replay procedure; no path, which is 0, is an error. *)
CallLastReplay(t) ==
    /\ pc[t] = "lastReplay"
    /\ path' = [path EXCEPT ![t] = written]
    /\ Return(t)
    /\ UNCHANGED <<active, requested, written, timedOut>>

-----------------------------------------------------------------------------
(* libobs *)

NativeSaved ==
    \E r \in (written + 1)..requested :
        /\ written' = r
        /\ saved' = [t \in Threads |-> saved[t] \/ pc[t] \in {"save", "wait"}]
        /\ UNCHANGED <<saveLock, pc, request, since, path, active, requested, timedOut>>

(* The output is stopped or started, by its own lifecycle. *)
NativeToggle ==
    /\ active' = ~active
    /\ UNCHANGED <<saveLock, pc, request, saved, since, path, requested, written, timedOut>>

-----------------------------------------------------------------------------
Init ==
    /\ saveLock = None
    /\ pc = [t \in Threads |-> "idle"]
    /\ request = [t \in Threads |-> 0]
    /\ saved = [t \in Threads |-> FALSE]
    /\ since = [t \in Threads |-> 0]
    /\ path = [t \in Threads |-> 0]
    /\ active = TRUE
    /\ requested = 0 /\ written = 0
    /\ timedOut = FALSE

Step(t) ==
    \/ LockSave(t) \/ QueryActive(t) \/ Subscribe(t) \/ CallSave(t) \/ WaitSaved(t)
    \/ CallLastReplay(t)

Next ==
    \/ \E t \in Threads : Save(t) \/ Step(t) \/ Deadline(t) \/ CallFails(t)
    \/ NativeSaved
    \/ NativeToggle

Spec == Init /\ [][Next]_vars

-----------------------------------------------------------------------------
(* Properties *)

(* "Serializing saves is therefore required to correlate a completion/path *)
(* with the request that initiated it" (replay_buffer.rs:38): as long as   *)
(* no deadline has passed a successful save returns the file of its own    *)
(* request, whichever calls fail and whenever the output stops.  (After a  *)
(* timeout it may return the file of the request that timed out.)          *)
PathIsOfTheRequest ==
    [][\A t \in Threads :
         ~timedOut /\ path'[t] \notin {0, path[t]} => path'[t] = request[t]]_vars

(* A successful save returns a file that was finished after the call       *)
(* subscribed, never the one an earlier call returned, also when late      *)
(* completions of saves that timed out are about (save_buffer).            *)
PathIsNew ==
    [][\A t \in Threads :
         path'[t] \notin {0, path[t]} => path'[t] > since[t]]_vars

(* Both: the path is new, and that of the request as long as no deadline   *)
(* has passed (save_buffer).                                               *)
SavedPathIsRight == PathIsOfTheRequest /\ PathIsNew

=============================================================================
