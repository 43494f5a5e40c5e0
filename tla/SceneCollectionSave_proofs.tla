--------------------- MODULE SceneCollectionSave_proofs ----------------------
(***************************************************************************)
(* Proofs about save_atomic by threads of processes of their own, for any  *)
(* number of saves, of operations that fail, and of ends of processes and  *)
(* of the power, wherever rename replaces a name and where it does not.    *)
(***************************************************************************)
EXTENDS SceneCollectionSave, TLAPS

Instance ==
    /\ Shared = FALSE /\ Replaces \subseteq BOOLEAN
    /\ MaxSaves \in Nat \ {0} /\ MaxFaults \in Nat /\ MaxCrashes \in Nat

SaveSteps == {"idle", "create", "write", "sync", "rename", "exists", "moveAway",
              "replace", "discard", "putBack", "cleanUp", "saved", "failed"}

Files0 == 0..Len(contents)

Disk ==
    /\ contents \in Seq(0..MaxSaves) /\ synced \subseteq 1..Len(contents)
    /\ path \in Files0
    /\ temp \in [Numbers -> Files0] /\ backup \in [Numbers -> Files0]
    /\ file \in [Threads -> Files0]

Local ==
    /\ process \in [Threads -> Numbers] /\ pc \in [Threads -> SaveSteps]
    /\ doc \in [Threads -> 0..MaxSaves] /\ before \in [Threads -> 0..MaxSaves]

Flags == replaces \in BOOLEAN /\ kept \in BOOLEAN /\ alone \in [Threads -> BOOLEAN]

Counts == saves \in 0..MaxSaves /\ faults \in 0..MaxFaults /\ crashes \in 0..MaxCrashes

Types == Disk /\ Local /\ Flags /\ Counts

(* A process that ends is followed by one with a number nobody has had. *)
NumbersApart ==
    /\ \A t \in Threads : process[t] <= 2 + crashes * 2
    /\ \A t, u \in Threads : t # u => process[t] % 2 # process[u] % 2

(* No two names lead to one file. *)
Names ==
    \A p \in Numbers :
        /\ temp[p] # 0 => temp[p] # path
        /\ backup[p] # 0 => backup[p] # path
        /\ \A q \in Numbers :
              /\ temp[p] # 0 => temp[p] # backup[q]
              /\ p # q => (temp[p] # 0 => temp[p] # temp[q])
              /\ p # q => (backup[p] # 0 => backup[p] # backup[q])

Opened == {"write", "sync", "rename", "exists", "moveAway", "replace"}
Written == Opened \ {"write"}
Synced == Written \ {"sync"}

(* A thread writes the file of its process and renames it when its         *)
(* contents are on the disk.                                               *)
OwnFile ==
    \A t \in Threads :
        /\ pc[t] # "idle" => doc[t] # 0
        /\ pc[t] \in Opened => file[t] = temp[process[t]] /\ file[t] # 0
        /\ pc[t] = "write" => contents[file[t]] = 0
        /\ pc[t] \in Written => contents[file[t]] = doc[t]
        /\ pc[t] \in Synced => file[t] \in synced

(* What the name and the backups lead to is whole and on the disk. *)
Durable(f) == f # 0 => contents[f] # 0 /\ f \in synced

Whole == Durable(path) /\ \A p \in Numbers : Durable(backup[p])

(* A backup that nobody is about to remove stands in for the collection. *)
StandIn(p) == backup[p] # 0 /\ \A t \in Threads : pc[t] = "discard" => process[t] # p

Kept == kept => path # 0 \/ \E p \in Numbers : StandIn(p)

(* Where a save without company finds the collection there was, and its own. *)
Outcome ==
    \A t \in Threads : alone[t] /\ pc[t] # "idle" =>
        /\ \A u \in Threads : u # t => pc[u] = "idle"
        /\ pc[t] \in {"create", "write", "sync", "rename", "exists", "moveAway"} =>
              before[t] = Holds(path)
        /\ pc[t] \in {"replace", "putBack"} => before[t] = Holds(backup[process[t]])
        /\ pc[t] \in {"cleanUp", "failed"} => before[t] \in {Holds(path), Holds(backup[process[t]])}
        /\ pc[t] \in {"discard", "saved"} => Holds(path) = doc[t]

(* The inductive invariant. *)
Inv == Types /\ NumbersApart /\ Names /\ OwnFile /\ Whole /\ Kept /\ Outcome

(* A thread's step, and the end of processes. *)
SaveStep(t) ==
    \/ Save(t) \/ Create(t) \/ Write(t) \/ Sync(t) \/ WriteFails(t) \/ Rename(t) \/ Exists(t)
    \/ MoveAway(t) \/ Replace(t) \/ Discard(t) \/ PutBack(t) \/ CleanUp(t) \/ Return(t)

ProcessesEnd == (\E t \in Threads : Crash(t)) \/ PowerLoss

(* What a file holds is the number of a save, or 0. *)
LEMMA HoldsType ==
    ASSUME Instance, Types, NEW f \in 0..Len(contents)
    PROVE  Holds(f) \in 0..MaxSaves
BY DEF Instance, Types, Disk, Holds

(* Two processes have two numbers. *)
LEMMA OwnNumbers ==
    ASSUME Types, NumbersApart, NEW t \in Threads, NEW u \in Threads, t # u
    PROVE  process[t] # process[u]
BY DEF NumbersApart

(* The attempt to rename has the effect, or none: its two outcomes. *)
LEMMA RenameCases ==
    ASSUME NEW t \in Threads, Rename(t)
    PROVE  /\ pc[t] = "rename"
           /\ UNCHANGED <<replaces, backup, contents, synced, process, doc, file, alone, before,
                          saves, crashes>>
           /\ \/ /\ temp[process[t]] # 0
                 /\ path' = temp[process[t]] /\ temp' = [temp EXCEPT ![process[t]] = 0]
                 /\ kept' = TRUE /\ pc' = [pc EXCEPT ![t] = "saved"] /\ faults' = faults
              \/ /\ UNCHANGED <<path, temp, kept>> /\ pc' = [pc EXCEPT ![t] = "exists"]
                 /\ faults' = faults \/ (faults < MaxFaults /\ faults' = faults + 1)
BY DEF Rename, CanRename, Goto, Fault, NoFault

(* So has the attempt to move the old file away. *)
LEMMA MoveAwayCases ==
    ASSUME NEW t \in Threads, MoveAway(t)
    PROVE  /\ pc[t] = "moveAway"
           /\ UNCHANGED <<temp, contents, synced, Rest>>
           /\ \/ /\ path # 0
                 /\ backup' = [backup EXCEPT ![process[t]] = path] /\ path' = 0
                 /\ pc' = [pc EXCEPT ![t] = "replace"] /\ faults' = faults
              \/ /\ UNCHANGED <<path, backup>> /\ pc' = [pc EXCEPT ![t] = "failed"]
                 /\ faults' = faults \/ (faults < MaxFaults /\ faults' = faults + 1)
BY DEF MoveAway, CanRename, Goto, Fault, NoFault

(* And the attempt to replace it. *)
LEMMA ReplaceCases ==
    ASSUME NEW t \in Threads, Replace(t)
    PROVE  /\ pc[t] = "replace"
           /\ UNCHANGED <<backup, contents, synced, Rest>>
           /\ \/ /\ temp[process[t]] # 0
                 /\ path' = temp[process[t]] /\ temp' = [temp EXCEPT ![process[t]] = 0]
                 /\ pc' = [pc EXCEPT ![t] = "discard"] /\ faults' = faults
              \/ /\ UNCHANGED <<path, temp>> /\ pc' = [pc EXCEPT ![t] = "putBack"]
                 /\ faults' = faults \/ (faults < MaxFaults /\ faults' = faults + 1)
BY DEF Replace, CanRename, Goto, Fault, NoFault

(* And the attempt to put it back. *)
LEMMA PutBackCases ==
    ASSUME NEW t \in Threads, PutBack(t)
    PROVE  /\ pc[t] = "putBack"
           /\ UNCHANGED <<temp, contents, synced, Rest>>
           /\ pc' = [pc EXCEPT ![t] = "cleanUp"]
           /\ \/ /\ backup[process[t]] # 0
                 /\ path' = backup[process[t]] /\ backup' = [backup EXCEPT ![process[t]] = 0]
                 /\ faults' = faults
              \/ /\ UNCHANGED <<path, backup>>
                 /\ faults' = faults \/ (faults < MaxFaults /\ faults' = faults + 1)
BY DEF PutBack, CanRename, Goto, Fault, NoFault

(* The file of the temporary name is f, empty. *)
Opens(t, f) ==
    /\ f = temp[process[t]] \/ (f = Len(contents) + 1 /\ temp[process[t]] = 0)
    /\ temp' = [temp EXCEPT ![process[t]] = f] /\ file' = [file EXCEPT ![t] = f]
    /\ contents'[f] = 0 /\ synced' = synced \ {f}
    /\ \A g \in 1..Len(contents) : g # f => contents'[g] = contents[g]

(* A file is opened empty, a new one or the one the name led to. *)
LEMMA CreateCases ==
    ASSUME Instance, Types, NEW t \in Threads, Create(t)
    PROVE  /\ pc[t] = "create" /\ pc' = [pc EXCEPT ![t] = "write"] /\ faults' = faults
           /\ UNCHANGED <<replaces, path, backup, process, doc, alone, before, kept, saves, crashes>>
           /\ contents' \in Seq(0..MaxSaves) /\ Len(contents) \in Nat /\ Len(contents') \in Nat
           /\ Len(contents) <= Len(contents')
           /\ \E f \in 1..Len(contents') : Opens(t, f)
<1>0. /\ pc[t] = "create" /\ pc' = [pc EXCEPT ![t] = "write"] /\ faults' = faults
      /\ UNCHANGED <<replaces, path, backup, process, doc, alone, before, kept, saves, crashes>>
  BY DEF Create, Goto, NoFault
<1>1. process[t] \in Numbers /\ temp[process[t]] \in 0..Len(contents) /\ Len(contents) \in Nat
  BY DEF Types, Disk, Local, Files0
<1>2. CASE temp[process[t]] = 0
  <2>1. /\ contents' = Append(contents, 0) /\ 0 \in 0..MaxSaves
        /\ synced' = synced \ {Len(contents) + 1}
        /\ temp' = [temp EXCEPT ![process[t]] = Len(contents) + 1]
        /\ file' = [file EXCEPT ![t] = Len(contents) + 1]
    BY <1>2 DEF Create, Instance
  <2>2. /\ contents' \in Seq(0..MaxSaves) /\ Len(contents') = Len(contents) + 1
        /\ contents'[Len(contents) + 1] = 0
        /\ \A g \in 1..Len(contents) : contents'[g] = contents[g]
    BY <1>1, <2>1 DEF Types, Disk
  <2>3. Len(contents) + 1 \in 1..Len(contents')
    BY <1>1, <2>2
  <2>4. Opens(t, Len(contents) + 1)
    BY <1>2, <2>1, <2>2 DEF Opens
  <2> QED
    BY <1>0, <1>1, <2>2, <2>3, <2>4
<1>3. CASE temp[process[t]] # 0
  <2>1. /\ contents' = [contents EXCEPT ![temp[process[t]]] = 0] /\ 0 \in 0..MaxSaves
        /\ synced' = synced \ {temp[process[t]]}
        /\ temp' = [temp EXCEPT ![process[t]] = temp[process[t]]]
        /\ file' = [file EXCEPT ![t] = temp[process[t]]]
    BY <1>3 DEF Create, Instance
  <2>2. temp[process[t]] \in 1..Len(contents)
    BY <1>1, <1>3
  <2>3. /\ contents' \in Seq(0..MaxSaves) /\ Len(contents') = Len(contents)
        /\ contents'[temp[process[t]]] = 0
        /\ \A g \in 1..Len(contents) : g # temp[process[t]] => contents'[g] = contents[g]
    BY <1>1, <2>1, <2>2 DEF Types, Disk
  <2>4. Opens(t, temp[process[t]])
    BY <2>1, <2>3 DEF Opens
  <2> QED
    BY <1>0, <1>1, <2>2, <2>3, <2>4
<1> QED
  BY <1>2, <1>3

(* A file is written, or its writing fails half-way. *)
LEMMA WriteCases ==
    ASSUME Types, NEW t \in Threads, file[t] # 0, NEW n \in 0..MaxSaves,
           contents' = [contents EXCEPT ![file[t]] = n]
    PROVE  /\ contents' \in Seq(0..MaxSaves) /\ Len(contents') = Len(contents)
           /\ contents'[file[t]] = n
           /\ \A g \in 1..Len(contents) : g # file[t] => contents'[g] = contents[g]
<1>1. file[t] \in 1..Len(contents)
  BY DEF Types, Disk, Files0
<1> QED
  BY <1>1 DEF Types, Disk

(* A new save begins. *)
LEMMA SaveCases ==
    ASSUME Instance, Types, NEW t \in Threads, Save(t)
    PROVE  /\ pc[t] = "idle" /\ pc' = [pc EXCEPT ![t] = "create"]
           /\ UNCHANGED <<replaces, Files, process, file, kept, faults, crashes>>
           /\ saves' \in 0..MaxSaves /\ saves' # 0 /\ doc' = [doc EXCEPT ![t] = saves']
           /\ before' = [before EXCEPT ![t] = Holds(path)]
           /\ alone' \in [Threads -> BOOLEAN]
           /\ alone'[t] => \A u \in Threads : u # t => pc[u] = "idle"
           /\ \A u \in Threads : u # t /\ alone'[u] => alone[u] /\ pc[u] = "idle"
<1>1. saves \in Nat /\ saves < MaxSaves /\ saves' = saves + 1
  BY DEF Save, Types, Counts, Instance
<1>2. alone' = [u \in Threads |-> IF u = t THEN {v \in Threads \ {t} : pc[v] # "idle"} = {}
                                  ELSE alone[u] /\ u \notin {v \in Threads \ {t} : pc[v] # "idle"}]
  BY DEF Save
<1>3. alone' \in [Threads -> BOOLEAN]
  BY <1>2, Zenon DEF Types, Flags
<1>4. alone'[t] => {v \in Threads \ {t} : pc[v] # "idle"} = {}
  BY <1>2, Zenon
<1>5. ASSUME NEW u \in Threads, u # t, alone'[u]
      PROVE  alone[u] /\ u \notin {v \in Threads \ {t} : pc[v] # "idle"}
  BY <1>2, <1>5, Zenon
<1>6. saves' \in 0..MaxSaves /\ saves' # 0
  BY <1>1 DEF Instance
<1> QED
  BY <1>1, <1>3, <1>4, <1>5, <1>6 DEF Save, Goto

-----------------------------------------------------------------------------
(* An operation that fails is counted. *)
LEMMA FaultType ==
    ASSUME Instance, Counts,
           faults' = faults \/ (faults < MaxFaults /\ faults' = faults + 1)
    PROVE  faults' \in 0..MaxFaults
BY DEF Instance, Counts

(* Every variable keeps its type. *)
LEMMA StepTypes ==
    ASSUME Instance, Types, OwnFile, NEW t \in Threads, SaveStep(t)
    PROVE  Types'
<1> USE DEF Types
<1> DEFINE p == process[t]
<1>0. /\ p \in Numbers /\ temp[p] \in Files0 /\ backup[p] \in Files0 /\ 0 \in Files0
      /\ Len(contents) \in Nat
  BY DEF Disk, Local, Files0
<1>1. CASE Save(t)
  <2>1. Holds(path) \in 0..MaxSaves
    BY HoldsType DEF Disk, Files0
  <2>2. Disk'
    BY <1>1, SaveCases DEF Disk, Files0, Files
  <2>3. Local'
    BY <1>1, <2>1, SaveCases DEF Local, SaveSteps
  <2>4. Flags'
    BY <1>1, SaveCases, Zenon DEF Flags
  <2>5. Counts'
    BY <1>1, SaveCases DEF Counts
  <2> QED
    BY <2>2, <2>3, <2>4, <2>5
<1>2. CASE Create(t)
  <2>1. PICK f \in 1..Len(contents') :
              /\ temp' = [temp EXCEPT ![p] = f] /\ file' = [file EXCEPT ![t] = f]
              /\ synced' = synced \ {f}
    BY <1>2, CreateCases, Zenon DEF Opens
  <2>2. Files0 \subseteq Files0' /\ 1..Len(contents) \subseteq 1..Len(contents') /\ f \in Files0'
    BY <1>2, CreateCases DEF Files0
  <2>3. temp' \in [Numbers -> Files0'] /\ file' \in [Threads -> Files0']
    BY <2>1, <2>2, Zenon DEF Disk
  <2>4. backup' \in [Numbers -> Files0'] /\ path' \in Files0' /\ synced' \subseteq 1..Len(contents')
    BY <1>2, <2>1, <2>2, CreateCases, Zenon DEF Disk
  <2>5. Disk'
    BY <1>2, <2>3, <2>4, CreateCases DEF Disk
  <2>6. Local'
    BY <1>2 DEF Create, Local, SaveSteps, Goto
  <2>7. Flags' /\ Counts'
    BY <1>2, Zenon DEF Create, Flags, Counts, NoFault
  <2> QED
    BY <2>5, <2>6, <2>7
<1>3. CASE Write(t)
  <2>1. PICK whole \in BOOLEAN : contents' = [contents EXCEPT ![file[t]] = IF whole THEN doc[t] ELSE 0]
    BY <1>3 DEF Write
  <2>2. doc[t] \in 0..MaxSaves /\ 0 \in 0..MaxSaves /\ file[t] # 0
    BY <1>3 DEF Write, Local, Instance, OwnFile, Opened
  <2>3. (IF whole THEN doc[t] ELSE 0) \in 0..MaxSaves
    BY <2>2
  <2>4. contents' \in Seq(0..MaxSaves) /\ Len(contents') = Len(contents)
    BY <1>3, <2>1, <2>2, <2>3, WriteCases
  <2>5. UNCHANGED <<path, temp, backup, file>> /\ synced' = synced \ {file[t]}
    BY <1>3 DEF Write, Rest
  <2>6. Disk'
    BY <2>4, <2>5 DEF Disk, Files0
  <2>7. Local'
    BY <1>3 DEF Write, Local, Rest, SaveSteps, Goto
  <2>8. Flags' /\ Counts'
    BY <1>3, Zenon DEF Write, Flags, Counts, Rest, NoFault
  <2> QED
    BY <2>6, <2>7, <2>8
<1>4. CASE Sync(t)
  <2>1. file[t] \in 1..Len(contents)
    BY <1>0, <1>4 DEF Sync, OwnFile, Opened, Disk, Files0
  <2>2. Disk'
    BY <1>4, <2>1 DEF Sync, Disk, Files0, Rest
  <2>3. Local'
    BY <1>4 DEF Sync, Local, SaveSteps, Goto, Rest
  <2>4. Flags' /\ Counts'
    BY <1>4, Zenon DEF Sync, Flags, Counts, NoFault, Rest
  <2> QED
    BY <2>2, <2>3, <2>4
<1>5. CASE WriteFails(t)
  <2>1. UNCHANGED <<path, temp, backup, synced, Rest>> /\ pc' = [pc EXCEPT ![t] = "cleanUp"]
        /\ faults < MaxFaults /\ faults' = faults + 1
    BY <1>5 DEF WriteFails, Fault, Goto
  <2>2. contents' \in Seq(0..MaxSaves) /\ Len(contents') = Len(contents)
    <3>1. CASE pc[t] = "write"
      <4>1. contents' = [contents EXCEPT ![file[t]] = 0] /\ 0 \in 0..MaxSaves /\ file[t] # 0
        BY <1>5, <3>1 DEF WriteFails, Instance, OwnFile, Opened
      <4> QED
        BY <4>1, WriteCases
    <3>2. CASE pc[t] # "write"
      BY <1>5, <3>2 DEF WriteFails, Disk
    <3> QED
      BY <3>1, <3>2
  <2>3. Disk'
    BY <2>1, <2>2 DEF Disk, Files0, Rest
  <2>4. Local'
    BY <2>1 DEF Local, SaveSteps, Rest
  <2>5. Flags'
    BY <2>1, Zenon DEF Flags, Rest
  <2>6. Counts'
    BY <2>1, FaultType DEF Counts, Rest
  <2> QED
    BY <2>3, <2>4, <2>5, <2>6
<1>6. CASE Rename(t)
  <2>1. path' \in Files0 /\ temp' \in [Numbers -> Files0]
    BY <1>0, <1>6, RenameCases DEF Disk
  <2>2. Disk'
    BY <1>6, <2>1, RenameCases DEF Disk, Files0
  <2>3. Local'
    BY <1>6, RenameCases DEF Local, SaveSteps
  <2>4. Flags'
    BY <1>6, RenameCases, Zenon DEF Flags
  <2>5. Counts'
    BY <1>6, RenameCases, FaultType DEF Counts
  <2> QED
    BY <2>2, <2>3, <2>4, <2>5
<1>7. CASE Exists(t)
  <2>1. Disk'
    BY <1>7 DEF Exists, Disk, Files0, Files, Rest
  <2>2. Local'
    BY <1>7 DEF Exists, Local, SaveSteps, Goto, Rest
  <2>3. Flags' /\ Counts'
    BY <1>7, Zenon DEF Exists, Flags, Counts, NoFault, Rest
  <2> QED
    BY <2>1, <2>2, <2>3
<1>8. CASE MoveAway(t)
  <2>1. path' \in Files0 /\ backup' \in [Numbers -> Files0]
    BY <1>0, <1>8, MoveAwayCases DEF Disk
  <2>2. Disk'
    BY <1>8, <2>1, MoveAwayCases DEF Disk, Files0, Rest
  <2>3. Local'
    BY <1>8, MoveAwayCases DEF Local, SaveSteps, Rest
  <2>4. Flags'
    BY <1>8, MoveAwayCases, Zenon DEF Flags, Rest
  <2>5. Counts'
    BY <1>8, MoveAwayCases, FaultType DEF Counts, Rest
  <2> QED
    BY <2>2, <2>3, <2>4, <2>5
<1>9. CASE Replace(t)
  <2>1. path' \in Files0 /\ temp' \in [Numbers -> Files0]
    BY <1>0, <1>9, ReplaceCases DEF Disk
  <2>2. Disk'
    BY <1>9, <2>1, ReplaceCases DEF Disk, Files0, Rest
  <2>3. Local'
    BY <1>9, ReplaceCases DEF Local, SaveSteps, Rest
  <2>4. Flags'
    BY <1>9, ReplaceCases, Zenon DEF Flags, Rest
  <2>5. Counts'
    BY <1>9, ReplaceCases, FaultType DEF Counts, Rest
  <2> QED
    BY <2>2, <2>3, <2>4, <2>5
<1>10. CASE Discard(t)
  <2>1. Disk'
    BY <1>0, <1>10 DEF Discard, Disk, Files0, Rest
  <2>2. Local'
    BY <1>10 DEF Discard, Local, SaveSteps, Goto, Rest
  <2>3. Flags'
    BY <1>10, Zenon DEF Discard, Flags, Rest
  <2>4. Fault \/ NoFault
    BY <1>10, Zenon DEF Discard
  <2>5. Counts'
    BY <1>10, <2>4, FaultType DEF Discard, Counts, Rest, Fault, NoFault
  <2> QED
    BY <2>1, <2>2, <2>3, <2>5
<1>11. CASE PutBack(t)
  <2>1. path' \in Files0 /\ backup' \in [Numbers -> Files0]
    BY <1>0, <1>11, PutBackCases DEF Disk
  <2>2. Disk'
    BY <1>11, <2>1, PutBackCases DEF Disk, Files0, Rest
  <2>3. Local'
    BY <1>11, PutBackCases DEF Local, SaveSteps, Rest
  <2>4. Flags'
    BY <1>11, PutBackCases, Zenon DEF Flags, Rest
  <2>5. Counts'
    BY <1>11, PutBackCases, FaultType DEF Counts, Rest
  <2> QED
    BY <2>2, <2>3, <2>4, <2>5
<1>12. CASE CleanUp(t)
  <2>1. Disk'
    BY <1>0, <1>12 DEF CleanUp, Disk, Files0, Rest
  <2>2. Local'
    BY <1>12 DEF CleanUp, Local, SaveSteps, Goto, Rest
  <2>3. Flags'
    BY <1>12, Zenon DEF CleanUp, Flags, Rest
  <2>4. Fault \/ NoFault
    BY <1>12, Zenon DEF CleanUp
  <2>5. Counts'
    BY <1>12, <2>4, FaultType DEF CleanUp, Counts, Rest, Fault, NoFault
  <2> QED
    BY <2>1, <2>2, <2>3, <2>5
<1>13. CASE Return(t)
  <2>1. Disk'
    BY <1>0, <1>13 DEF Return, Disk, Files0, Files
  <2>2. Local'
    BY <1>13 DEF Return, Local, SaveSteps, Goto, Instance
  <2>3. Flags' /\ Counts'
    BY <1>13, Zenon DEF Return, Flags, Counts, NoFault
  <2> QED
    BY <2>1, <2>2, <2>3
<1> QED
  BY <1>1, <1>2, <1>3, <1>4, <1>5, <1>6, <1>7, <1>8, <1>9, <1>10, <1>11, <1>12, <1>13, Zenon DEF
     SaveStep

-----------------------------------------------------------------------------
(* A step keeps names apart: only Create makes a name lead to a file, one  *)
(* that is new, and a rename moves a file from one name to another.        *)
LEMMA StepNames ==
    ASSUME Instance, Types, NumbersApart, Names, NEW t \in Threads, SaveStep(t)
    PROVE  Names'
<1> DEFINE p == process[t]
<1>0. /\ p \in Numbers /\ temp \in [Numbers -> Files0] /\ backup \in [Numbers -> Files0]
      /\ path \in Files0 /\ Len(contents) \in Nat
  BY DEF Types, Disk, Local
<1>1. CASE Create(t)
  <2>1. PICK f \in 1..Len(contents') : Opens(t, f)
    BY <1>1, CreateCases
  <2>2. /\ f # 0 /\ f # path /\ \A q \in Numbers : f # backup[q] /\ (q # p => f # temp[q])
    <3>1. CASE f = temp[p]
      BY <1>0, <1>1, <2>1, <3>1, CreateCases DEF Names
    <3>2. CASE f = Len(contents) + 1
      BY <1>0, <3>2 DEF Files0
    <3> QED
      BY <2>1, <3>1, <3>2 DEF Opens
  <2>3. UNCHANGED <<path, backup>> /\ temp' = [temp EXCEPT ![p] = f]
    BY <1>1, <2>1, CreateCases DEF Opens
  <2> QED
    BY <1>0, <2>2, <2>3 DEF Names
<1>2. CASE Rename(t)
  <2>0. UNCHANGED backup
    BY <1>2 DEF Rename
  <2>1. CASE temp[p] # 0 /\ path' = temp[p] /\ temp' = [temp EXCEPT ![p] = 0]
    BY <1>0, <2>0, <2>1 DEF Names
  <2>2. CASE UNCHANGED <<path, temp>>
    BY <1>2, <2>2, RenameCases DEF Names
  <2> QED
    BY <1>2, <2>1, <2>2, RenameCases
<1>3. CASE MoveAway(t)
  <2>1. CASE path # 0 /\ path' = 0 /\ backup' = [backup EXCEPT ![p] = path]
    BY <1>0, <1>3, <2>1, MoveAwayCases DEF Names
  <2>2. CASE UNCHANGED <<path, backup>>
    BY <1>3, <2>2, MoveAwayCases DEF Names
  <2> QED
    BY <1>3, <2>1, <2>2, MoveAwayCases
<1>4. CASE Replace(t)
  <2>1. CASE temp[p] # 0 /\ path' = temp[p] /\ temp' = [temp EXCEPT ![p] = 0]
    BY <1>0, <1>4, <2>1, ReplaceCases DEF Names
  <2>2. CASE UNCHANGED <<path, temp>>
    BY <1>4, <2>2, ReplaceCases DEF Names
  <2> QED
    BY <1>4, <2>1, <2>2, ReplaceCases
<1>5. CASE PutBack(t)
  <2>1. CASE backup[p] # 0 /\ path' = backup[p] /\ backup' = [backup EXCEPT ![p] = 0]
    BY <1>0, <1>5, <2>1, PutBackCases DEF Names
  <2>2. CASE UNCHANGED <<path, backup>>
    BY <1>5, <2>2, PutBackCases DEF Names
  <2> QED
    BY <1>5, <2>1, <2>2, PutBackCases
<1>6. CASE Discard(t)
  BY <1>0, <1>6 DEF Discard, Names
<1>7. CASE CleanUp(t)
  BY <1>0, <1>7 DEF CleanUp, Names
<1>8. CASE Save(t) \/ Write(t) \/ Sync(t) \/ WriteFails(t) \/ Exists(t) \/ Return(t)
  <2>1. UNCHANGED <<path, temp, backup>>
    BY <1>8 DEF Save, Write, Sync, WriteFails, Exists, Return, Files
  <2> QED
    BY <2>1 DEF Names
<1> QED
  BY <1>1, <1>2, <1>3, <1>4, <1>5, <1>6, <1>7, <1>8, Zenon DEF SaveStep

(* A step leaves alone every file but the temporary one of its process. *)
LEMMA StepFile ==
    ASSUME Instance, Types, OwnFile, NEW t \in Threads, SaveStep(t),
           NEW f \in 1..Len(contents), f # temp[process[t]]
    PROVE  contents'[f] = contents[f] /\ (f \in synced => f \in synced')
<1>1. CASE Create(t)
  <2>1. PICK g \in 1..Len(contents') : Opens(t, g)
    BY <1>1, CreateCases
  <2>2. f # g
    BY <2>1 DEF Opens, Types, Disk
  <2> QED
    BY <2>1, <2>2 DEF Opens
<1>2. CASE Write(t)
  <2>1. file[t] = temp[process[t]] /\ synced' = synced \ {file[t]}
        /\ \E n : contents' = [contents EXCEPT ![file[t]] = n]
    BY <1>2 DEF Write, OwnFile, Opened
  <2> QED
    BY <2>1 DEF Types, Disk
<1>3. CASE WriteFails(t)
  <2>1. UNCHANGED synced
    BY <1>3 DEF WriteFails
  <2>2. CASE pc[t] = "write"
    <3>1. file[t] = temp[process[t]] /\ contents' = [contents EXCEPT ![file[t]] = 0]
      BY <1>3, <2>2 DEF WriteFails, OwnFile, Opened
    <3> QED
      BY <2>1, <3>1 DEF Types, Disk
  <2>3. CASE pc[t] # "write"
    BY <1>3, <2>1, <2>3 DEF WriteFails
  <2> QED
    BY <2>2, <2>3
<1>4. CASE Sync(t)
  BY <1>4 DEF Sync
<1>5. CASE Save(t) \/ Rename(t) \/ Exists(t) \/ MoveAway(t) \/ Replace(t) \/ Discard(t)
           \/ PutBack(t) \/ CleanUp(t) \/ Return(t)
  <2>1. UNCHANGED <<contents, synced>>
    BY <1>5 DEF Save, Rename, Exists, MoveAway, Replace, Discard, PutBack, CleanUp, Return, Files
  <2> QED
    BY <2>1
<1> QED
  BY <1>1, <1>2, <1>3, <1>4, <1>5, Zenon DEF SaveStep

(* A step of one thread leaves alone what another relies on. *)
LEMMA StepOthers ==
    ASSUME Instance, Types, NumbersApart, Names, OwnFile, NEW t \in Threads, SaveStep(t),
           NEW u \in Threads, u # t
    PROVE  /\ pc'[u] = pc[u] /\ doc'[u] = doc[u] /\ file'[u] = file[u] /\ process' = process
           /\ temp'[process[u]] = temp[process[u]]
           /\ pc[u] \in Opened => /\ contents'[file[u]] = contents[file[u]]
                                  /\ file[u] \in synced => file[u] \in synced'
<1>0. process[t] \in Numbers /\ process[u] \in Numbers /\ process[t] # process[u]
  BY OwnNumbers DEF Types, Local
<1>1. pc'[u] = pc[u] /\ doc'[u] = doc[u] /\ process' = process
  BY DEF SaveStep, Save, Create, Write, Sync, WriteFails, Rename, Exists, MoveAway, Replace,
     Discard,
         PutBack, CleanUp, Return, Goto, Rest, Types, Local
<1>2. file'[u] = file[u]
  BY DEF SaveStep, Save, Create, Write, Sync, WriteFails, Rename, Exists, MoveAway, Replace,
     Discard,
         PutBack, CleanUp, Return, Rest, Types, Disk
<1>3. temp'[process[u]] = temp[process[u]]
  BY <1>0 DEF SaveStep, Save, Create, Write, Sync, WriteFails, Rename, Exists, MoveAway, Replace,
     Discard,
         PutBack, CleanUp, Return, Files, Rest, Types, Disk
<1>4. ASSUME pc[u] \in Opened
      PROVE  contents'[file[u]] = contents[file[u]] /\ (file[u] \in synced => file[u] \in synced')
  <2>1. file[u] = temp[process[u]] /\ file[u] # 0
    BY <1>4 DEF OwnFile
  <2>2. file[u] \in 1..Len(contents)
    BY <2>1 DEF Types, Disk, Files0
  <2>3. file[u] # temp[process[t]]
    BY <1>0, <2>1 DEF Names
  <2> QED
    BY <2>2, <2>3, StepFile
<1> QED
  BY <1>1, <1>2, <1>3, <1>4

(* A step keeps the temporary file of every save in order. *)
LEMMA StepOwnFile ==
    ASSUME Instance, Types, NumbersApart, Names, OwnFile, NEW t \in Threads, SaveStep(t)
    PROVE  OwnFile'
<1> DEFINE p == process[t]
<1>0. /\ p \in Numbers /\ pc \in [Threads -> SaveSteps] /\ doc \in [Threads -> 0..MaxSaves]
      /\ temp \in [Numbers -> Files0] /\ file \in [Threads -> Files0]
      /\ Opened = {"write", "sync", "rename", "exists", "moveAway", "replace"}
      /\ Written = {"sync", "rename", "exists", "moveAway", "replace"}
      /\ Synced = {"rename", "exists", "moveAway", "replace"}
  BY DEF Types, Disk, Local, Opened, Written, Synced
<1>1. SUFFICES ASSUME NEW u \in Threads
               PROVE  /\ pc'[u] # "idle" => doc'[u] # 0
                      /\ pc'[u] \in Opened => file'[u] = temp'[process'[u]] /\ file'[u] # 0
                      /\ pc'[u] = "write" => contents'[file'[u]] = 0
                      /\ pc'[u] \in Written => contents'[file'[u]] = doc'[u]
                      /\ pc'[u] \in Synced => file'[u] \in synced'
  BY DEF OwnFile
<1>2. CASE u # t
  BY <1>0, <1>2, StepOthers DEF OwnFile
<1>3. CASE u = t
  <2>1. CASE Save(t)
    BY <1>0, <1>3, <2>1, SaveCases
  <2>2. CASE Create(t)
    <3>1. PICK f \in 1..Len(contents') : Opens(t, f)
      BY <2>2, CreateCases
    <3>2. pc'[t] = "write" /\ doc'[t] = doc[t] /\ process' = process /\ pc[t] # "idle"
      BY <1>0, <2>2, CreateCases
    <3>3. file'[t] = f /\ temp'[p] = f /\ contents'[f] = 0 /\ f # 0
      BY <1>0, <3>1 DEF Opens
    <3> QED
      BY <1>0, <1>3, <3>2, <3>3 DEF OwnFile
  <2>3. CASE Write(t)
    <3>1. /\ pc[t] = "write" /\ pc'[t] = "sync" /\ UNCHANGED <<temp, file, process, doc>>
          /\ file[t] # 0 /\ file[t] = temp[p] /\ doc[t] # 0 /\ contents[file[t]] = 0
      BY <1>0, <2>3 DEF Write, OwnFile, Goto, Rest
    <3>2. contents' = [contents EXCEPT ![file[t]] = doc[t]]
      BY <2>3, <3>1 DEF Write, Holds
    <3>3. contents'[file[t]] = doc[t]
      BY <3>1, <3>2 DEF Types, Disk, Files0
    <3> QED
      BY <1>0, <1>3, <3>1, <3>3
  <2>4. CASE Sync(t)
    BY <1>0, <1>3, <2>4 DEF Sync, OwnFile, Goto, Rest
  <2>5. CASE WriteFails(t)
    <3>1. pc'[t] = "cleanUp" /\ pc[t] # "idle" /\ doc' = doc
      BY <1>0, <2>5 DEF WriteFails, Goto, Rest
    <3> QED
      BY <1>0, <1>3, <3>1 DEF OwnFile
  <2>6. CASE Rename(t)
    <3>1. pc[t] = "rename" /\ UNCHANGED <<contents, synced, process, doc, file>>
      BY <2>6 DEF Rename
    <3>2. CASE pc' = [pc EXCEPT ![t] = "saved"]
      BY <1>0, <1>3, <3>1, <3>2 DEF OwnFile
    <3>3. CASE pc' = [pc EXCEPT ![t] = "exists"] /\ temp' = temp
      BY <1>0, <1>3, <3>1, <3>3 DEF OwnFile
    <3> QED
      BY <2>6, <3>2, <3>3, RenameCases
  <2>7. CASE Exists(t)
    BY <1>0, <1>3, <2>7 DEF Exists, OwnFile, Goto, Files, Rest
  <2>8. CASE MoveAway(t)
    <3>1. pc[t] = "moveAway" /\ UNCHANGED <<temp, contents, synced, process, doc, file>>
      BY <2>8 DEF MoveAway, Rest
    <3>2. pc' = [pc EXCEPT ![t] = "replace"] \/ pc' = [pc EXCEPT ![t] = "failed"]
      BY <2>8, MoveAwayCases
    <3> QED
      BY <1>0, <1>3, <3>1, <3>2 DEF OwnFile
  <2>9. CASE Replace(t)
    <3>1. pc[t] = "replace" /\ UNCHANGED <<contents, synced, process, doc, file>>
      BY <2>9 DEF Replace, Rest
    <3>2. pc' = [pc EXCEPT ![t] = "discard"] \/ pc' = [pc EXCEPT ![t] = "putBack"]
      BY <2>9, ReplaceCases
    <3> QED
      BY <1>0, <1>3, <3>1, <3>2 DEF OwnFile
  <2>10. CASE Discard(t) \/ CleanUp(t)
    <3>1. pc[t] # "idle" /\ pc'[t] \in {"saved", "failed"} /\ doc' = doc
      BY <1>0, <2>10 DEF Discard, CleanUp, Goto, Rest
    <3> QED
      BY <1>0, <1>3, <3>1 DEF OwnFile
  <2>11. CASE PutBack(t)
    <3>1. pc[t] # "idle" /\ pc'[t] = "cleanUp" /\ doc' = doc
      BY <1>0, <2>11 DEF PutBack, Goto, Rest
    <3> QED
      BY <1>0, <1>3, <3>1 DEF OwnFile
  <2>12. CASE Return(t)
    <3>1. pc'[t] = "idle"
      BY <1>0, <2>12 DEF Return, Goto
    <3> QED
      BY <1>0, <1>3, <3>1
  <2> QED
    BY <2>1, <2>2, <2>3, <2>4, <2>5, <2>6, <2>7, <2>8, <2>9, <2>10, <2>11, <2>12, Zenon DEF SaveStep
<1> QED
  BY <1>2, <1>3

(* A step makes a name lead to what another name led to, or to a file that *)
(* is on the disk.                                                         *)
LEMMA StepWhole ==
    ASSUME Instance, Types, NumbersApart, Names, OwnFile, Whole, NEW t \in Threads, SaveStep(t)
    PROVE  Whole'
<1> DEFINE p == process[t]
           After(f) == f # 0 => contents'[f] # 0 /\ f \in synced'
<1>0. /\ p \in Numbers /\ temp \in [Numbers -> Files0] /\ backup \in [Numbers -> Files0]
      /\ path \in Files0 /\ Len(contents) \in Nat
  BY DEF Types, Disk, Local
<1>1. ASSUME NEW f \in Files0, f # 0 => f # temp[p], Durable(f) PROVE After(f)
  <2>1. CASE f # 0
    <3>1. f \in 1..Len(contents)
      BY <1>0, <2>1 DEF Files0
    <3> QED
      BY <1>1, <2>1, <3>1, StepFile DEF Durable
  <2>2. CASE f = 0
    BY <2>2
  <2> QED
    BY <2>1, <2>2
<1>2. After(path) /\ \A q \in Numbers : After(backup[q])
  <2>1. path # 0 => path # temp[p]
    BY <1>0 DEF Names
  <2>2. \A q \in Numbers : backup[q] # 0 => backup[q] # temp[p]
    BY <1>0 DEF Names
  <2>3. /\ Durable(path) /\ \A q \in Numbers : Durable(backup[q])
        /\ \A q \in Numbers : backup[q] \in Files0
    BY <1>0 DEF Whole
  <2> HIDE DEF After
  <2> QED
    BY <1>0, <1>1, <2>1, <2>2, <2>3
<1>3. After(0)
  OBVIOUS
<1>4. ASSUME pc[t] \in Synced, UNCHANGED <<contents, synced>> PROVE After(temp[p])
  BY <1>4 DEF OwnFile, Synced, Written, Opened
<1>5. After(path') /\ \A q \in Numbers : After(backup'[q])
  <2> HIDE DEF After
  <2>1. CASE Rename(t)
    <3>1. backup' = backup /\ pc[t] = "rename" /\ UNCHANGED <<contents, synced>>
      BY <2>1 DEF Rename
    <3>2. path' = path \/ path' = temp[p]
      BY <2>1, RenameCases
    <3> QED
      BY <1>2, <1>4, <3>1, <3>2 DEF Synced, Written, Opened
  <2>2. CASE Replace(t)
    <3>1. backup' = backup /\ pc[t] = "replace" /\ UNCHANGED <<contents, synced>>
      BY <2>2 DEF Replace
    <3>2. path' = path \/ path' = temp[p]
      BY <2>2, ReplaceCases
    <3> QED
      BY <1>2, <1>4, <3>1, <3>2 DEF Synced, Written, Opened
  <2>3. CASE MoveAway(t)
    <3>1. \/ path' = 0 /\ backup' = [backup EXCEPT ![p] = path]
          \/ UNCHANGED <<path, backup>>
      BY <2>3, MoveAwayCases
    <3> QED
      BY <1>0, <1>2, <1>3, <3>1
  <2>4. CASE PutBack(t)
    <3>1. \/ path' = backup[p] /\ backup' = [backup EXCEPT ![p] = 0]
          \/ UNCHANGED <<path, backup>>
      BY <2>4, PutBackCases
    <3> QED
      BY <1>0, <1>2, <1>3, <3>1
  <2>5. CASE Discard(t)
    <3>1. path' = path /\ (backup' = [backup EXCEPT ![p] = 0] \/ UNCHANGED backup)
      BY <2>5, Zenon DEF Discard
    <3> QED
      BY <1>0, <1>2, <1>3, <3>1
  <2>6. CASE Save(t) \/ Create(t) \/ Write(t) \/ Sync(t) \/ WriteFails(t) \/ Exists(t)
             \/ CleanUp(t) \/ Return(t)
    <3>1. UNCHANGED <<path, backup>>
      BY <2>6 DEF Save, Create, Write, Sync, WriteFails, Exists, CleanUp, Return, Files
    <3> QED
      BY <1>2, <3>1
  <2> QED
    BY <2>1, <2>2, <2>3, <2>4, <2>5, <2>6, Zenon DEF SaveStep
<1> QED
  BY <1>5 DEF Whole, Durable

(* Where there was a collection, the name or a backup leads to it. *)
LEMMA StepKept ==
    ASSUME Instance, Types, NumbersApart, Kept, NEW t \in Threads, SaveStep(t)
    PROVE  Kept'
<1> DEFINE p == process[t]
<1>0. /\ p \in Numbers /\ temp \in [Numbers -> Files0] /\ backup \in [Numbers -> Files0]
      /\ pc \in [Threads -> SaveSteps]
  BY DEF Types, Disk, Local
<1>p. process' = process
  BY DEF SaveStep, Save, Create, Write, Sync, WriteFails, Rename, Exists, MoveAway, Replace,
     Discard,
         PutBack, CleanUp, Return, Rest
<1>1. ASSUME NEW q \in Numbers, StandIn(q), backup'[q] = backup[q], pc'[t] # "discard",
             \A u \in Threads : u # t => pc'[u] = pc[u]
      PROVE  StandIn(q)'
  BY <1>1, <1>p DEF StandIn
<1>2. CASE Rename(t)
  <2>1. CASE path' # 0
    BY <2>1 DEF Kept
  <2>2. CASE path' = 0
    <3>1. UNCHANGED <<path, kept, backup>> /\ pc' = [pc EXCEPT ![t] = "exists"]
      BY <1>2, <2>2, RenameCases
    <3> QED
      BY <1>0, <1>1, <3>1 DEF Kept
  <2> QED
    BY <2>1, <2>2
<1>3. CASE Replace(t)
  <2>1. CASE path' # 0
    BY <2>1 DEF Kept
  <2>2. CASE path' = 0
    <3>1. UNCHANGED <<path, kept, backup>> /\ pc' = [pc EXCEPT ![t] = "putBack"]
      BY <1>3, <2>2, ReplaceCases DEF Rest
    <3> QED
      BY <1>0, <1>1, <3>1 DEF Kept
  <2> QED
    BY <2>1, <2>2
<1>4. CASE MoveAway(t)
  <2>1. CASE path # 0 /\ backup' = [backup EXCEPT ![p] = path] /\ pc' = [pc EXCEPT ![t] = "replace"]
    <3>1. backup'[p] # 0 /\ pc'[t] # "discard"
      BY <1>0, <2>1
    <3>2. ASSUME NEW u \in Threads, pc'[u] = "discard" PROVE process[u] # p
      BY <3>1, <3>2, OwnNumbers
    <3>3. \E q \in Numbers : backup'[q] # 0 /\ \A u \in Threads : pc'[u] = "discard" => process'[u] # q
      BY <1>0, <1>p, <3>1, <3>2
    <3> QED
      BY <3>3 DEF Kept, StandIn
  <2>2. CASE UNCHANGED <<path, backup>> /\ pc' = [pc EXCEPT ![t] = "failed"]
    <3>1. kept' = kept
      BY <1>4 DEF MoveAway, Rest
    <3> QED
      BY <1>0, <1>1, <2>2, <3>1 DEF Kept
  <2> QED
    BY <1>4, <2>1, <2>2, MoveAwayCases
<1>5. CASE PutBack(t)
  <2>1. CASE path' # 0
    BY <2>1 DEF Kept
  <2>2. CASE path' = 0
    <3>1. UNCHANGED <<path, backup, kept>> /\ pc' = [pc EXCEPT ![t] = "cleanUp"]
      BY <1>5, <2>2, PutBackCases DEF Rest
    <3> QED
      BY <1>0, <1>1, <3>1 DEF Kept
  <2> QED
    BY <2>1, <2>2
<1>6. CASE Discard(t)
  <2>1. /\ UNCHANGED <<path, kept>> /\ pc[t] = "discard" /\ pc' = [pc EXCEPT ![t] = "saved"]
        /\ backup' = [backup EXCEPT ![p] = 0] \/ UNCHANGED backup
    BY <1>6, Zenon DEF Discard, Goto, Rest
  <2>2. ASSUME NEW q \in Numbers, StandIn(q) PROVE StandIn(q)'
    <3>1. q # p
      BY <2>1, <2>2 DEF StandIn
    <3> QED
      BY <1>0, <1>1, <2>1, <2>2, <3>1
  <2> QED
    BY <2>1, <2>2 DEF Kept
<1>7. CASE Save(t) \/ Create(t) \/ Write(t) \/ Sync(t) \/ WriteFails(t) \/ Exists(t)
           \/ CleanUp(t) \/ Return(t)
  <2>1. UNCHANGED <<path, backup, kept>>
    BY <1>7 DEF Save, Create, Write, Sync, WriteFails, Exists, CleanUp, Return, Files, Rest
  <2>2. pc'[t] # "discard" /\ \A u \in Threads : u # t => pc'[u] = pc[u]
    BY <1>0, <1>7 DEF Save, Create, Write, Sync, WriteFails, Exists, CleanUp, Return, Goto
  <2> QED
    BY <1>1, <2>1, <2>2 DEF Kept
<1> QED
  BY <1>2, <1>3, <1>4, <1>5, <1>6, <1>7, Zenon DEF SaveStep

(* A save without company finds what it left, and its own document.        *)
LEMMA StepOutcome ==
    ASSUME Instance, Types, NumbersApart, Names, OwnFile, Outcome, NEW t \in Threads, SaveStep(t)
    PROVE  Outcome'
<1> DEFINE p == process[t]
           Reads(f) == IF f = 0 THEN 0 ELSE contents'[f]
<1>0. /\ p \in Numbers /\ temp \in [Numbers -> Files0] /\ backup \in [Numbers -> Files0]
      /\ path \in Files0 /\ pc \in [Threads -> SaveSteps] /\ before \in [Threads -> 0..MaxSaves]
      /\ doc \in [Threads -> 0..MaxSaves] /\ alone \in [Threads -> BOOLEAN]
  BY DEF Types, Disk, Local, Flags
<1>1. ASSUME NEW f \in Files0, f # 0 => f # temp[p] PROVE Reads(f) = Holds(f)
  <2>1. CASE f # 0
    <3>1. f \in 1..Len(contents)
      BY <2>1 DEF Files0, Types, Disk
    <3> QED
      BY <1>1, <2>1, <3>1, StepFile DEF Holds
  <2>2. CASE f = 0
    BY <2>2 DEF Holds
  <2> QED
    BY <2>1, <2>2
<1>2. Reads(path) = Holds(path) /\ Reads(backup[p]) = Holds(backup[p])
  <2>1. (path # 0 => path # temp[p]) /\ (backup[p] # 0 => backup[p] # temp[p])
    BY <1>0 DEF Names
  <2> HIDE DEF Reads
  <2> QED
    BY <1>0, <1>1, <2>1
<1>3. process' = process /\ \A u \in Threads : u # t => pc'[u] = pc[u]
  BY StepOthers, <1>0 DEF SaveStep, Save, Create, Write, Sync, WriteFails, Rename, Exists,
     MoveAway, Replace, Discard,
         PutBack, CleanUp, Return, Rest
<1>4. CASE Save(t)
  <2>1. SUFFICES ASSUME NEW u \in Threads, alone'[u], pc'[u] # "idle"
                 PROVE  u = t
    <3>1. \A v \in Threads : v # t /\ alone'[t] => pc'[v] = "idle"
      BY <1>3, <1>4, SaveCases
    <3>2. pc'[t] = "create" /\ before'[t] = Holds(path) /\ path' = path /\ contents' = contents
      BY <1>0, <1>4, SaveCases DEF Files
    <3>3. Holds(path)' = before'[t]
      BY <3>2 DEF Holds
    <3> QED
      BY <2>1, <3>1, <3>2, <3>3 DEF Outcome
  <2> QED
    BY <1>3, <1>4, <2>1, SaveCases
<1>5. ASSUME ~ Save(t), alone[t]
      PROVE  \A u \in Threads : u # t => pc[u] = "idle"
  <2>1. pc[t] # "idle"
    BY <1>5 DEF SaveStep, Create, Write, Sync, WriteFails, Rename, Exists, MoveAway, Replace,
       Discard,
         PutBack, CleanUp, Return
  <2> QED
    BY <1>5, <2>1 DEF Outcome
<1>6. ASSUME ~ Save(t) PROVE UNCHANGED <<alone, before>>
  BY <1>6 DEF SaveStep, Create, Write, Sync, WriteFails, Rename, Exists, MoveAway, Replace, Discard,
         PutBack, CleanUp, Return, Rest
<1>7. CASE ~ Save(t)
  <2>1. SUFFICES ASSUME alone[t], pc'[t] # "idle"
                 PROVE  /\ pc'[t] \in {"create", "write", "sync", "rename", "exists", "moveAway"} =>
                              before[t] = Reads(path')
                        /\ pc'[t] \in {"replace", "putBack"} => before[t] = Reads(backup'[p])
                        /\ pc'[t] \in {"cleanUp", "failed"} =>
                              before[t] \in {Reads(path'), Reads(backup'[p])}
                        /\ pc'[t] \in {"discard", "saved"} => Reads(path') = doc'[t]
    <3>1. SUFFICES ASSUME NEW u \in Threads, alone[u], pc'[u] # "idle"
                   PROVE  u = t
      BY <1>3, <1>5, <1>6, <1>7, <2>1 DEF Outcome, Holds
    <3>2. pc[t] # "idle"
      BY <1>7 DEF SaveStep, Create, Write, Sync, WriteFails, Rename, Exists, MoveAway, Replace,
         Discard,
           PutBack, CleanUp, Return
    <3> QED
      BY <1>3, <3>1, <3>2 DEF Outcome
  <2> HIDE DEF Reads
  <2>0. /\ pc[t] \in {"create", "write", "sync", "rename", "exists", "moveAway"} => before[t] = Holds(path)
        /\ pc[t] \in {"replace", "putBack"} => before[t] = Holds(backup[p])
        /\ pc[t] \in {"cleanUp", "failed"} => before[t] \in {Holds(path), Holds(backup[p])}
        /\ pc[t] \in {"discard", "saved"} => Holds(path) = doc[t]
    BY <2>1 DEF Outcome
  <2>s. ASSUME pc[t] \in Synced, UNCHANGED contents PROVE Reads(temp[p]) = doc[t]
    BY <2>s DEF OwnFile, Synced, Written, Opened, Reads
  <2>2. CASE Create(t) \/ Write(t) \/ Sync(t) \/ WriteFails(t)
    <3>1. path' = path /\ pc[t] \in {"create", "write", "sync"}
          /\ pc'[t] \in {"write", "sync", "rename", "cleanUp"}
      BY <1>0, <2>2 DEF Create, Write, Sync, WriteFails, Goto
    <3> QED
      BY <1>2, <2>0, <3>1
  <2>3. CASE Exists(t)
    <3>1. path' = path /\ pc[t] = "exists" /\ pc'[t] \in {"moveAway", "cleanUp"}
      BY <1>0, <2>3 DEF Exists, Goto, Files
    <3> QED
      BY <1>2, <2>0, <3>1
  <2>4. CASE Rename(t)
    <3>1. pc[t] = "rename" /\ UNCHANGED <<contents, doc>>
      BY <2>4 DEF Rename
    <3>2. \/ path' = temp[p] /\ pc'[t] = "saved"
          \/ path' = path /\ pc'[t] = "exists"
      BY <1>0, <2>4, RenameCases
    <3> QED
      BY <1>2, <2>0, <2>s, <3>1, <3>2 DEF Synced, Written, Opened
  <2>5. CASE MoveAway(t)
    <3>1. \/ backup' = [backup EXCEPT ![p] = path] /\ pc'[t] = "replace"
          \/ path' = path /\ pc'[t] = "failed"
      BY <1>0, <2>5, MoveAwayCases
    <3>2. pc[t] = "moveAway"
      BY <2>5, MoveAwayCases
    <3> QED
      BY <1>0, <1>2, <2>0, <3>1, <3>2
  <2>6. CASE Replace(t)
    <3>1. pc[t] = "replace" /\ UNCHANGED <<contents, doc, backup>>
      BY <2>6 DEF Replace, Rest
    <3>2. \/ path' = temp[p] /\ pc'[t] = "discard"
          \/ pc'[t] = "putBack"
      BY <1>0, <2>6, ReplaceCases
    <3> QED
      BY <1>2, <2>0, <2>s, <3>1, <3>2 DEF Synced, Written, Opened
  <2>7. CASE Discard(t)
    <3>1. path' = path /\ doc' = doc /\ pc[t] = "discard" /\ pc'[t] = "saved"
      BY <1>0, <2>7 DEF Discard, Goto, Rest
    <3> QED
      BY <1>2, <2>0, <3>1
  <2>8. CASE PutBack(t)
    <3>1. pc[t] = "putBack" /\ pc'[t] = "cleanUp"
      BY <1>0, <2>8, PutBackCases
    <3>2. path' = backup[p] \/ backup' = backup
      BY <2>8, PutBackCases
    <3> QED
      BY <1>2, <2>0, <3>1, <3>2
  <2>9. CASE CleanUp(t)
    <3>1. UNCHANGED <<path, backup>> /\ pc[t] = "cleanUp" /\ pc'[t] = "failed"
      BY <1>0, <2>9 DEF CleanUp, Goto
    <3> QED
      BY <1>2, <2>0, <3>1
  <2>10. CASE Return(t)
    BY <1>0, <2>1, <2>10 DEF Return, Goto
  <2> QED
    BY <1>7, <2>2, <2>3, <2>4, <2>5, <2>6, <2>7, <2>8, <2>9, <2>10, Zenon DEF SaveStep
<1> QED
  BY <1>4, <1>7

-----------------------------------------------------------------------------
(* What a sequence holds is of its type.                                   *)
LEMMA SeqElements ==
    ASSUME NEW S, NEW s \in Seq(S), NEW i \in 1..Len(s)
    PROVE  s[i] \in S
OBVIOUS

(* An array with the numbers up to n for its indices is a sequence.       *)
LEMMA ArrayIsSeq ==
    ASSUME NEW n \in Nat, NEW S, NEW f \in [1..n -> S]
    PROVE  f \in Seq(S) /\ Len(f) = n
OBVIOUS

(* The end of a process, or of all of them: their threads are those of new *)
(* processes, whose temporary and backup names nobody has used.            *)
LEMMA EndSafe ==
    ASSUME Instance, Inv, ProcessesEnd
    PROVE  Inv'
<1>1. PICK ended \in SUBSET Numbers :
        /\ Restart(ended)
        /\ \E t \in Threads : pc[t] # "idle" /\ process[t] \in ended
        /\ \/ UNCHANGED <<contents, synced>>
           \/ /\ contents' = [f \in DOMAIN contents |-> IF f \in synced THEN contents[f] ELSE 0]
              /\ synced' = DOMAIN contents
              /\ \A t \in Threads : process[t] \in ended
  <2>1. CASE \E t \in Threads : Crash(t)
    <3>1. PICK t \in Threads : Crash(t)
      BY <2>1
    <3>2. {process[t]} \in SUBSET Numbers
      BY DEF Inv, Types, Local
    <3> QED
      BY <3>1, <3>2 DEF Crash
  <2>2. CASE PowerLoss
    <3>1. {process[t] : t \in Threads} \in SUBSET Numbers
      BY DEF Inv, Types, Local
    <3> QED
      BY <2>2, <3>1 DEF PowerLoss
  <2> QED
    BY <2>1, <2>2 DEF ProcessesEnd
<1> USE DEF Inv
<1>0. /\ process \in [Threads -> Numbers] /\ pc \in [Threads -> SaveSteps]
      /\ doc \in [Threads -> 0..MaxSaves] /\ before \in [Threads -> 0..MaxSaves]
      /\ file \in [Threads -> Files0] /\ 0 \in 0..MaxSaves /\ 0 \in Files0
      /\ contents \in Seq(0..MaxSaves) /\ DOMAIN contents = 1..Len(contents)
      /\ Len(contents) \in Nat /\ synced \subseteq 1..Len(contents)
      /\ crashes \in Nat /\ MaxCrashes \in Nat
  BY DEF Types, Disk, Local, Counts, Files0, Instance
<1>2. /\ UNCHANGED <<replaces, path, temp, backup, kept, saves, faults>>
      /\ crashes < MaxCrashes /\ crashes' = crashes + 1
      /\ process' = [t \in Threads |-> IF process[t] \in ended THEN process[t] + 2 ELSE process[t]]
      /\ pc' = [t \in Threads |-> IF process[t] \in ended THEN "idle" ELSE pc[t]]
      /\ doc' = [t \in Threads |-> IF process[t] \in ended THEN 0 ELSE doc[t]]
      /\ file' = [t \in Threads |-> IF process[t] \in ended THEN 0 ELSE file[t]]
      /\ alone' = [t \in Threads |-> IF process[t] \in ended THEN FALSE ELSE alone[t]]
      /\ before' = [t \in Threads |-> IF process[t] \in ended THEN 0 ELSE before[t]]
  BY <1>1 DEF Restart
<1>3. /\ contents' \in Seq(0..MaxSaves) /\ Len(contents') = Len(contents)
      /\ synced' \subseteq 1..Len(contents') /\ synced \subseteq synced'
      /\ \A f \in synced : contents'[f] = contents[f]
  <2>1. CASE UNCHANGED <<contents, synced>>
    BY <1>0, <2>1
  <2>2. CASE /\ contents' = [f \in DOMAIN contents |-> IF f \in synced THEN contents[f] ELSE 0]
             /\ synced' = DOMAIN contents
    <3>1. contents' = [f \in 1..Len(contents) |-> IF f \in synced THEN contents[f] ELSE 0]
      BY <1>0, <2>2
    <3>2. \A f \in 1..Len(contents) : contents[f] \in 0..MaxSaves
      BY <1>0, SeqElements
    <3>3. contents' \in [1..Len(contents) -> 0..MaxSaves]
      BY <1>0, <3>1, <3>2
    <3>4. contents' \in Seq(0..MaxSaves) /\ Len(contents') = Len(contents)
      BY <1>0, <3>3, ArrayIsSeq
    <3> QED
      BY <1>0, <2>2, <3>1, <3>4
  <2> QED
    BY <1>1, <2>1, <2>2
<1>4. /\ \A t \in Threads : process'[t] \in Numbers /\ process'[t] <= 2 + crashes' * 2
      /\ \A t \in Threads : process'[t] % 2 = process[t] % 2
  <2>1. SUFFICES ASSUME NEW t \in Threads
                 PROVE  /\ process'[t] \in Numbers /\ process'[t] <= 2 + crashes' * 2
                        /\ process'[t] % 2 = process[t] % 2
    OBVIOUS
  <2>2. process[t] \in Nat /\ process[t] >= 1 /\ process[t] <= 2 + crashes * 2
        /\ process[t] \in Numbers
    BY <1>0 DEF NumbersApart, Numbers
  <2>3. process'[t] = process[t] \/ process'[t] = process[t] + 2
    BY <1>2
  <2> QED
    BY <1>0, <1>2, <2>2, <2>3 DEF Numbers
<1>5. Types'
  <2>1. Disk'
    BY <1>0, <1>2, <1>3 DEF Types, Disk, Files0
  <2>2. Local'
    BY <1>0, <1>2, <1>4 DEF Local, SaveSteps
  <2>3. Flags'
    BY <1>2, Zenon DEF Types, Flags
  <2>4. Counts'
    BY <1>0, <1>2 DEF Types, Counts
  <2> QED
    BY <2>1, <2>2, <2>3, <2>4 DEF Types
<1>6. NumbersApart'
  BY <1>4 DEF NumbersApart
<1>7. Names'
  BY <1>2 DEF Names
<1>8. ASSUME NEW t \in Threads
      PROVE  \/ process[t] \in ended /\ pc'[t] = "idle" /\ ~ alone'[t]
             \/ /\ pc'[t] = pc[t] /\ process'[t] = process[t] /\ doc'[t] = doc[t]
                /\ file'[t] = file[t] /\ alone'[t] = alone[t] /\ before'[t] = before[t]
                /\ UNCHANGED <<contents, synced>> /\ process[t] \notin ended
  <2>1. CASE process[t] \in ended
    <3>1. pc'[t] = "idle"
      BY <1>2, <2>1
    <3>2. alone'[t] = FALSE
      BY <1>2, <2>1, Zenon
    <3> QED
      BY <2>1, <3>1, <3>2
  <2>2. CASE process[t] \notin ended
    <3>1. /\ pc'[t] = pc[t] /\ process'[t] = process[t] /\ doc'[t] = doc[t]
          /\ file'[t] = file[t] /\ before'[t] = before[t]
      BY <1>2, <2>2
    <3>2. alone'[t] = alone[t]
      BY <1>2, <2>2, Zenon
    <3>3. UNCHANGED <<contents, synced>>
      BY <1>1, <2>2
    <3> QED
      BY <2>2, <3>1, <3>2, <3>3, Zenon
  <2> QED
    BY <2>1, <2>2
<1>9. OwnFile'
  <2>1. ASSUME NEW t \in Threads
        PROVE  /\ pc'[t] # "idle" => doc'[t] # 0
               /\ pc'[t] \in Opened => file'[t] = temp'[process'[t]] /\ file'[t] # 0
               /\ pc'[t] = "write" => contents'[file'[t]] = 0
               /\ pc'[t] \in Written => contents'[file'[t]] = doc'[t]
               /\ pc'[t] \in Synced => file'[t] \in synced'
    <3>1. CASE pc'[t] = "idle"
      BY <3>1 DEF Opened, Written, Synced
    <3>2. CASE pc'[t] # "idle"
      <4>1. /\ pc'[t] = pc[t] /\ process'[t] = process[t] /\ doc'[t] = doc[t] /\ file'[t] = file[t]
            /\ UNCHANGED <<contents, synced, temp>>
        BY <1>2, <1>8, <3>2
      <4> QED
        BY <4>1 DEF OwnFile
    <3> QED
      BY <3>1, <3>2
  <2> QED
    BY <2>1 DEF OwnFile
<1>10. Whole'
  BY <1>2, <1>3 DEF Whole, Durable
<1>11. Kept'
  BY <1>2, <1>8 DEF Kept, StandIn
<1>12. Outcome'
  <2>1. ASSUME NEW t \in Threads, alone'[t], pc'[t] # "idle" PROVE FALSE
    <3>1. process[t] \notin ended /\ alone[t] /\ pc[t] # "idle"
      BY <1>8, <2>1
    <3>2. PICK u \in Threads : pc[u] # "idle" /\ process[u] \in ended
      BY <1>1
    <3> QED
      BY <3>1, <3>2 DEF Outcome
  <2> QED
    BY <2>1 DEF Outcome
<1> QED
  BY <1>5, <1>6, <1>7, <1>9, <1>10, <1>11, <1>12

(* It holds at the beginning, with a collection and without one. *)
LEMMA InitSafe ==
    ASSUME Instance, Init
    PROVE  Inv
<1>1. /\ contents = <<>> \/ contents = <<1>>
      /\ path = Len(contents) /\ saves = Len(contents) /\ synced = DOMAIN contents
  BY DEF Init
<1>2. /\ contents \in Seq(0..MaxSaves) /\ Len(contents) \in 0..1 /\ DOMAIN contents = 1..Len(contents)
      /\ \A f \in 1..Len(contents) : contents[f] = 1
      /\ contents # <<>> => Len(contents) = 1
  <2>1. CASE contents = <<>>
    BY <1>1, <2>1
  <2>2. CASE contents = <<1>>
    <3>1. 1 \in 0..MaxSaves
      BY DEF Instance
    <3> QED
      BY <2>2, <3>1
  <2> QED
    BY <1>1, <2>1, <2>2
<1>3. process \in [Threads -> {1, 2}] /\ 1 \in Numbers /\ 2 \in Numbers
  BY DEF Init, Numbers, Instance
<1>4. Types
  <2>1. Disk
    BY <1>1, <1>2 DEF Init, Disk, Files0
  <2>2. Local
    BY <1>3 DEF Init, Local, SaveSteps, Instance
  <2>3. Flags
    BY Zenon DEF Init, Flags, Instance
  <2>4. Counts
    BY <1>1, <1>2 DEF Init, Counts, Instance
  <2> QED
    BY <2>1, <2>2, <2>3, <2>4 DEF Types
<1>5. NumbersApart
  <2>1. \A t, u \in Threads : t # u => process[t] # process[u]
    BY DEF Init, Instance
  <2>2. \A t \in Threads : process[t] = 1 \/ process[t] = 2
    BY <1>3
  <2> QED
    BY <2>1, <2>2 DEF NumbersApart, Init
<1>6. Names
  BY DEF Init, Names
<1>7. OwnFile
  BY DEF Init, OwnFile, Opened, Written, Synced
<1>8. Whole
  BY <1>1, <1>2 DEF Init, Whole, Durable
<1>9. Kept
  <2>1. kept <=> contents # <<>>
    BY DEF Init
  <2> QED
    BY <1>1, <1>2, <2>1 DEF Kept
<1>10. Outcome
  BY DEF Init, Outcome
<1> QED
  BY <1>4, <1>5, <1>6, <1>7, <1>8, <1>9, <1>10 DEF Inv

(* Whatever fails, and wherever processes end, every step keeps the        *)
(* invariant.                                                              *)
LEMMA NextSafe ==
    ASSUME Instance, Inv, [Next]_vars
    PROVE  Inv'
<1>1. CASE \E t \in Threads : SaveStep(t)
  <2>1. PICK t \in Threads : SaveStep(t)
    BY <1>1
  <2>2. Types' /\ Names' /\ OwnFile' /\ Whole' /\ Kept' /\ Outcome'
    BY <2>1, StepTypes, StepNames, StepOwnFile, StepWhole, StepKept, StepOutcome DEF Inv
  <2>3. process' = process /\ crashes' = crashes
    BY <2>1 DEF SaveStep, Save, Create, Write, Sync, WriteFails, Rename, Exists, MoveAway, Replace,
       Discard,
           PutBack, CleanUp, Return, Rest
  <2> QED
    BY <2>2, <2>3 DEF Inv, NumbersApart
<1>2. CASE ProcessesEnd
  BY <1>2, EndSafe
<1>3. CASE UNCHANGED vars
  <2>1. Types' /\ NumbersApart'
    BY <1>3 DEF vars, Inv, Types, Disk, Files0, Local, Flags, Counts, NumbersApart
  <2>2. Names' /\ OwnFile' /\ Whole' /\ Kept'
    BY <1>3 DEF vars, Inv, Names, OwnFile, Whole, Durable, Kept, StandIn
  <2>3. Outcome'
    BY <1>3 DEF vars, Inv, Outcome, Holds
  <2> QED
    BY <2>1, <2>2, <2>3 DEF Inv
<1> QED
  BY <1>1, <1>2, <1>3 DEF Next, SaveStep, ProcessesEnd

(* What it says is at least what save_atomic promises. *)
LEMMA InvPromises ==
    ASSUME Instance, Inv
    PROVE  TypeOK /\ SaveIsAtomic
<1>1. TypeOK
  <2>1. DOMAIN contents = 1..Len(contents)
    BY DEF Inv, Types, Disk
  <2> QED
    BY <2>1 DEF Inv, Types, Disk, Files0, Local, Flags, Counts, SaveSteps, TypeOK
<1>2. CollectionSurvives
  BY DEF Inv, Whole, Durable, Kept, StandIn, CollectionSurvives, Holds
<1>3. OutcomeIsTrue
  BY DEF Inv, Outcome, OutcomeIsTrue
<1> QED
  BY <1>1, <1>2, <1>3 DEF SaveIsAtomic

(* save_atomic keeps its promises, to whoever reads the file and to whoever *)
(* called it, when the threads that save are of different processes.        *)
THEOREM SaveAlwaysAtomic ==
    ASSUME Instance
    PROVE  Spec => [](TypeOK /\ SaveIsAtomic)
<1>1. Init => Inv
  BY InitSafe
<1>2. Inv /\ [Next]_vars => Inv'
  BY NextSafe
<1>3. Inv => TypeOK /\ SaveIsAtomic
  BY InvPromises
<1> QED
  BY <1>1, <1>2, <1>3, PTL DEF Spec

=============================================================================
