------------------------ MODULE SceneCollectionSave -------------------------
(***************************************************************************)
(* save_atomic (libobs-simple/src/scene_collection.rs) on a file system:   *)
(* names lead to files, a file is written through the handle that opened   *)
(* it, and what was not synchronised is lost with the power.  The          *)
(* temporary and the backup file have the number of the process in their   *)
(* names.  A document is the number of the save that writes it, and 0      *)
(* stands for no file and for contents that are not a document.            *)
(***************************************************************************)
EXTENDS Naturals, Sequences

CONSTANTS
    Threads,
    Shared,         \* whether the threads are of one process
    Replaces,       \* what rename does to a name that exists: replace it, or fail
    MaxSaves, MaxFaults, MaxCrashes     \* bounds: calls, operations that fail, ends of processes

VARIABLES
    replaces,       \* the platform
    path,           \* the file that the collection's name leads to
    temp, backup,   \* those of the names of each process
    contents,       \* of every file there was
    synced,         \* the files whose contents are on the disk
    process,        \* of each thread
    pc,
    doc, file,      \* what a thread saves, and the temporary file it opened
    alone, before,  \* history: the save overlaps with no other; the collection before it
    kept,           \* history: there has been a collection
    saves, faults, crashes

vars == <<replaces, path, temp, backup, contents, synced, process, pc, doc, file, alone, before,
          kept, saves, faults, crashes>>

Numbers == 1..(2 + MaxCrashes * 2)      \* of processes

TypeOK ==
    /\ replaces \in BOOLEAN
    /\ path \in 0..Len(contents)
    /\ temp \in [Numbers -> 0..Len(contents)] /\ backup \in [Numbers -> 0..Len(contents)]
    /\ contents \in Seq(0..MaxSaves)
    /\ synced \subseteq DOMAIN contents
    /\ process \in [Threads -> Numbers]
    /\ pc \in [Threads -> {"idle", "create", "write", "sync", "rename", "exists", "moveAway",
                           "replace", "discard", "putBack", "cleanUp", "saved", "failed"}]
    /\ doc \in [Threads -> 0..MaxSaves] /\ file \in [Threads -> 0..Len(contents)]
    /\ alone \in [Threads -> BOOLEAN] /\ before \in [Threads -> 0..MaxSaves]
    /\ kept \in BOOLEAN
    /\ saves \in 0..MaxSaves /\ faults \in 0..MaxFaults /\ crashes \in 0..MaxCrashes

Holds(f) == IF f = 0 THEN 0 ELSE contents[f]
Goto(t, to) == pc' = [pc EXCEPT ![t] = to]
Files == <<path, temp, backup, contents, synced>>
Rest == <<replaces, process, doc, file, alone, before, kept, saves, crashes>>

Fault == faults < MaxFaults /\ faults' = faults + 1
NoFault == UNCHANGED faults

-----------------------------------------------------------------------------
(* The document has been exported: save_atomic calls atomic_write. *)
Save(t) ==
    /\ pc[t] = "idle"
    /\ saves < MaxSaves
    /\ saves' = saves + 1
    /\ doc' = [doc EXCEPT ![t] = saves + 1]
    /\ LET overlaps == {u \in Threads \ {t} : pc[u] # "idle"}
       IN  alone' = [u \in Threads |-> IF u = t THEN overlaps = {}
                                       ELSE alone[u] /\ u \notin overlaps]
    /\ before' = [before EXCEPT ![t] = Holds(path)]
    /\ Goto(t, "create")
    /\ UNCHANGED <<replaces, Files, process, file, kept, faults, crashes>>

(* File::create empties a file that is there. *)
Create(t) ==
    LET p == process[t]
        opened == IF temp[p] = 0 THEN Len(contents) + 1 ELSE temp[p]
    IN  /\ pc[t] = "create"
        /\ contents' = IF temp[p] = 0 THEN Append(contents, 0) ELSE [contents EXCEPT ![opened] = 0]
        /\ synced' = synced \ {opened}
        /\ temp' = [temp EXCEPT ![p] = opened]
        /\ file' = [file EXCEPT ![t] = opened]
        /\ Goto(t, "write") /\ NoFault
        /\ UNCHANGED <<replaces, path, backup, process, doc, alone, before, kept, saves, crashes>>

(* Over what another handle has written, the end of a longer text remains. *)
Write(t) ==
    /\ pc[t] = "write"
    /\ \E whole \in BOOLEAN :
           /\ whole \/ Holds(file[t]) # 0
           /\ contents' = [contents EXCEPT ![file[t]] = IF whole THEN doc[t] ELSE 0]
    /\ synced' = synced \ {file[t]}
    /\ Goto(t, "sync") /\ NoFault
    /\ UNCHANGED <<path, temp, backup, Rest>>

(* Mutant: sync_all is left out. *)
SyncNothing(t) ==
    /\ pc[t] = "sync"
    /\ Goto(t, "rename") /\ NoFault
    /\ UNCHANGED <<Files, Rest>>

Sync(t) ==
    /\ pc[t] = "sync"
    /\ synced' = synced \cup {file[t]}
    /\ Goto(t, "rename") /\ NoFault
    /\ UNCHANGED <<path, temp, backup, contents, Rest>>

(* An operation on the open file has failed. *)
WriteFails(t) ==
    /\ pc[t] \in {"create", "write", "sync"}
    /\ Fault
    /\ contents' = IF pc[t] = "write" THEN [contents EXCEPT ![file[t]] = 0] ELSE contents
    /\ Goto(t, "cleanUp")
    /\ UNCHANGED <<path, temp, backup, synced, Rest>>

-----------------------------------------------------------------------------
(* What the system lets rename do. *)
CanRename(from, to) == from # 0 /\ (to = 0 \/ replaces)

Rename(t) ==
    LET p == process[t]
    IN  /\ pc[t] = "rename"
        /\ \/ /\ CanRename(temp[p], path) /\ NoFault
              /\ path' = temp[p] /\ temp' = [temp EXCEPT ![p] = 0]
              /\ kept' = TRUE
              /\ Goto(t, "saved")
           \/ /\ IF CanRename(temp[p], path) THEN Fault ELSE NoFault
              /\ Goto(t, "exists")
              /\ UNCHANGED <<path, temp, kept>>
        /\ UNCHANGED <<replaces, backup, contents, synced, process, doc, file, alone, before, saves,
                       crashes>>

Exists(t) ==
    /\ pc[t] = "exists"
    /\ Goto(t, IF path # 0 THEN "moveAway" ELSE "cleanUp")
    /\ NoFault
    /\ UNCHANGED <<Files, Rest>>

(* Mutant: the old file is deleted to make room. *)
DeleteOld(t) ==
    /\ pc[t] = "moveAway"
    /\ path' = 0
    /\ Goto(t, "replace") /\ NoFault
    /\ UNCHANGED <<temp, backup, contents, synced, Rest>>

(* An error here leaves the temporary file. *)
MoveAway(t) ==
    LET p == process[t]
    IN  /\ pc[t] = "moveAway"
        /\ \/ /\ CanRename(path, backup[p]) /\ NoFault
              /\ backup' = [backup EXCEPT ![p] = path] /\ path' = 0
              /\ Goto(t, "replace")
           \/ /\ IF CanRename(path, backup[p]) THEN Fault ELSE NoFault
              /\ Goto(t, "failed")
              /\ UNCHANGED <<path, backup>>
        /\ UNCHANGED <<temp, contents, synced, Rest>>

Replace(t) ==
    LET p == process[t]
    IN  /\ pc[t] = "replace"
        /\ \/ /\ CanRename(temp[p], path) /\ NoFault
              /\ path' = temp[p] /\ temp' = [temp EXCEPT ![p] = 0]
              /\ Goto(t, "discard")
           \/ /\ IF CanRename(temp[p], path) THEN Fault ELSE NoFault
              /\ Goto(t, "putBack")
              /\ UNCHANGED <<path, temp>>
        /\ UNCHANGED <<backup, contents, synced, Rest>>

(* Errors of these removals and of this rename are ignored. *)
Discard(t) ==
    /\ pc[t] = "discard"
    /\ \/ backup' = [backup EXCEPT ![process[t]] = 0] /\ NoFault
       \/ UNCHANGED backup /\ Fault
    /\ Goto(t, "saved")
    /\ UNCHANGED <<path, temp, contents, synced, Rest>>

PutBack(t) ==
    LET p == process[t]
    IN  /\ pc[t] = "putBack"
        /\ \/ /\ CanRename(backup[p], path) /\ NoFault
              /\ path' = backup[p] /\ backup' = [backup EXCEPT ![p] = 0]
           \/ /\ IF CanRename(backup[p], path) THEN Fault ELSE NoFault
              /\ UNCHANGED <<path, backup>>
        /\ Goto(t, "cleanUp")
        /\ UNCHANGED <<temp, contents, synced, Rest>>

CleanUp(t) ==
    /\ pc[t] = "cleanUp"
    /\ \/ temp' = [temp EXCEPT ![process[t]] = 0] /\ NoFault
       \/ UNCHANGED temp /\ Fault
    /\ Goto(t, "failed")
    /\ UNCHANGED <<path, backup, contents, synced, Rest>>

Return(t) ==
    /\ pc[t] \in {"saved", "failed"}
    /\ Goto(t, "idle") /\ NoFault
    /\ doc' = [doc EXCEPT ![t] = 0] /\ file' = [file EXCEPT ![t] = 0]
    /\ UNCHANGED <<replaces, Files, process, alone, before, kept, saves, crashes>>

-----------------------------------------------------------------------------
(* Processes end and others come, with numbers of their own. *)
Restart(ended) ==
    /\ crashes < MaxCrashes
    /\ crashes' = crashes + 1
    /\ process' = [t \in Threads |-> IF process[t] \in ended THEN process[t] + 2 ELSE process[t]]
    /\ LET Of(old, value) == [t \in Threads |-> IF process[t] \in ended THEN value ELSE old[t]]
       IN  /\ pc' = Of(pc, "idle")
           /\ doc' = Of(doc, 0) /\ file' = Of(file, 0)
           /\ alone' = Of(alone, FALSE) /\ before' = Of(before, 0)
    /\ UNCHANGED <<replaces, path, temp, backup, kept, saves, faults>>

Crash(t) ==
    /\ pc[t] # "idle"
    /\ Restart({process[t]})
    /\ UNCHANGED <<contents, synced>>

PowerLoss ==
    /\ \E t \in Threads : pc[t] # "idle"
    /\ Restart({process[t] : t \in Threads})
    /\ contents' = [f \in DOMAIN contents |-> IF f \in synced THEN contents[f] ELSE 0]
    /\ synced' = DOMAIN contents

-----------------------------------------------------------------------------
Init ==
    /\ replaces \in Replaces
    /\ contents \in {<<>>, <<1>>}
    /\ path = Len(contents) /\ saves = Len(contents) /\ kept = (contents # <<>>)
    /\ synced = DOMAIN contents
    /\ temp = [p \in Numbers |-> 0] /\ backup = [p \in Numbers |-> 0]
    /\ process \in [Threads -> {1, 2}]
    /\ \A t, u \in Threads : t # u => (process[t] = process[u]) = Shared
    /\ pc = [t \in Threads |-> "idle"]
    /\ doc = [t \in Threads |-> 0] /\ file = [t \in Threads |-> 0]
    /\ alone = [t \in Threads |-> FALSE] /\ before = [t \in Threads |-> 0]
    /\ faults = 0 /\ crashes = 0

Next ==
    \/ \E t \in Threads :
        \/ Save(t) \/ Create(t) \/ Write(t) \/ Sync(t) \/ WriteFails(t) \/ Rename(t) \/ Exists(t)
        \/ MoveAway(t) \/ Replace(t) \/ Discard(t) \/ PutBack(t) \/ CleanUp(t) \/ Return(t)
        \/ Crash(t)
    \/ PowerLoss

Spec == Init /\ [][Next]_vars

-----------------------------------------------------------------------------
(* Properties *)

(* "Serialization/write failures never truncate an existing collection.    *)
(* [Where rename does not replace], the old file is first moved to a       *)
(* backup" (scene_collection.rs:743): whatever fails, and wherever         *)
(* processes end, the name leads to a whole document or to none, and then, *)
(* once there was a collection, a backup has one.                          *)
CollectionSurvives ==
    /\ path # 0 => Holds(path) # 0
    /\ kept => path # 0 \/ \E p \in Numbers : Holds(backup[p]) # 0

(* A save that overlaps with no other and succeeds is what load reads; one *)
(* that fails leaves the collection there was: where it was or, if it      *)
(* could not be put back, in the backup.                                   *)
OutcomeIsTrue ==
    \A t \in Threads : alone[t] =>
        /\ pc[t] = "saved" => Holds(path) = doc[t]
        /\ pc[t] = "failed" => before[t] \in {Holds(path), Holds(backup[process[t]])}

(* What save_atomic promises: to readers of the file and to its caller.    *)
SaveIsAtomic == CollectionSurvives /\ OutcomeIsTrue

(* "Serialization/write failures never truncate an existing collection"    *)
(* (scene_collection.rs:743): when every save has returned, also one that  *)
(* could not write, a collection that exists is whole.                     *)
WriteFailuresTruncateNothing ==
    (\A t \in Threads : pc[t] \in {"idle", "saved", "failed"}) /\ path # 0 => Holds(path) # 0

=============================================================================
