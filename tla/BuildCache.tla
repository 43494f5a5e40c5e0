----------------------------- MODULE BuildCache -----------------------------
(***************************************************************************)
(* build_obs_binaries (cargo-obs-build/src/lib.rs, lock.rs, util.rs):      *)
(* processes that share a cache directory prepare OBS in it once, under    *)
(* the lock of a file, and then copy it, without the lock, to where they   *)
(* need it.  A call may end at any step, killed or with an error; the      *)
(* system releases its lock.  A walk over a directory passes over the      *)
(* entries that it cannot read, and says nothing.                          *)
(***************************************************************************)
EXTENDS Naturals, FiniteSets

CONSTANTS
    Processes,
    None,           \* no process
    Files,          \* the files of a release
    MaxBuilds,      \* bound: calls made
    Disturbances    \* those to look at, of "replace": a finished tree is built again;
                    \* "interrupt": calls end early; "skip": entries cannot be read

VARIABLES
    dir,            \* repo_dir exists
    tree,           \* build_out: each file is "plain", "verified", or "none": not there, or in part
    markers,        \* those of "success" and "verified" that exist
    lock,           \* the process that has the lock
    pc,
    verified,       \* require_checksum
    rebuild,
    existed,        \* repo_exists
    remains,        \* what each process has still to remove: markers and the "tree"
    out,            \* out_dir of each process: the files it has copied
    builds,
    stale,          \* history: markers that a preparation after theirs has not removed
    holes,          \* history: the files that the last extraction passed over
    missed,         \* history: the files that the copy of a process passed over
    steady          \* history: processes whose tree was marked by the preparation that made
                    \* it, and that no other has touched since they released the lock

call == <<verified, rebuild, existed, builds>>
history == <<stale, holes, missed, steady>>
vars == <<dir, tree, markers, lock, pc, remains, out, call, history>>

Absent == [f \in Files |-> "none"]
Skips == "skip" \in Disturbances

TypeOK ==
    /\ dir \in BOOLEAN
    /\ tree \in [Files -> {"none", "plain", "verified"}]
    /\ markers \subseteq {"success", "verified"}
    /\ lock \in Processes \cup {None}
    /\ pc \in [Processes -> {"idle", "create", "lock", "check", "clean", "build", "mark",
                             "markVerified", "copy", "installed"}]
    /\ verified \in [Processes -> BOOLEAN] /\ rebuild \in [Processes -> BOOLEAN]
    /\ existed \in [Processes -> BOOLEAN]
    /\ remains \in [Processes -> SUBSET {"success", "verified", "tree"}]
    /\ out \in [Processes -> [Files -> {"none", "plain", "verified"}]]
    /\ builds \in 0..MaxBuilds
    /\ stale \subseteq markers /\ holes \subseteq Files
    /\ missed \in [Processes -> SUBSET Files] /\ steady \subseteq Processes

Goto(p, to) == pc' = [pc EXCEPT ![p] = to]

-----------------------------------------------------------------------------
(* The directory is looked for before the lock is taken.  Without          *)
(* "replace" every process asks for the same.                              *)
Begin(p, check, again) ==
    /\ pc[p] = "idle"
    /\ builds < MaxBuilds
    /\ "replace" \in Disturbances \/ (~check /\ ~again)
    /\ builds' = builds + 1
    /\ verified' = [verified EXCEPT ![p] = check]
    /\ rebuild' = [rebuild EXCEPT ![p] = again]
    /\ existed' = [existed EXCEPT ![p] = dir]
    /\ Goto(p, IF dir THEN "lock" ELSE "create")
    /\ UNCHANGED <<dir, tree, markers, lock, remains, out, history>>

CreateDir(p) ==
    /\ pc[p] = "create"
    /\ dir' = TRUE
    /\ Goto(p, "lock")
    /\ UNCHANGED <<tree, markers, lock, remains, out, call, history>>

(* Mutant: the pathname is the lock, which exists already. *)
AcquireNothing(p) ==
    /\ pc[p] = "lock"
    /\ lock' = p
    /\ Goto(p, "check")
    /\ UNCHANGED <<dir, tree, markers, remains, out, call, history>>

AcquireLock(p) ==
    /\ pc[p] = "lock"
    /\ lock = None
    /\ lock' = p
    /\ Goto(p, "check")
    /\ UNCHANGED <<dir, tree, markers, remains, out, call, history>>

(* The markers that a process needs. *)
Needed(p) == {"success"} \cup {m \in {"verified"} : verified[p]}

Hit(p) == ~rebuild[p] /\ Needed(p) \subseteq markers

UseTree(p) ==
    /\ pc[p] = "check" /\ Hit(p)
    /\ Goto(p, "copy") /\ lock' = None
    /\ steady' = steady \cup {q \in {p} : Needed(p) \cap stale = {}}
    /\ UNCHANGED <<dir, tree, markers, remains, out, call, stale, holes, missed>>

(* delete_all_except reads the directory: the tree is one entry of it. *)
StartToClean(p) ==
    /\ pc[p] = "check" /\ ~Hit(p) /\ (existed[p] \/ rebuild[p])
    /\ \E unread \in IF Skips THEN SUBSET (markers \cup {"tree"}) ELSE {{}} :
          remains' = [remains EXCEPT ![p] = (markers \cup {"tree"}) \ unread]
    /\ Goto(p, "clean")
    /\ steady' = {}
    /\ UNCHANGED <<dir, tree, markers, lock, out, call, stale, holes, missed>>

StartToBuild(p) ==
    /\ pc[p] = "check" /\ ~Hit(p) /\ ~existed[p] /\ ~rebuild[p]
    /\ Goto(p, "build")
    /\ steady' = {}
    /\ UNCHANGED <<dir, tree, markers, lock, remains, out, call, stale, holes, missed>>

(* The entries are removed in the order of the directory. *)
CleanMarker(p) ==
    /\ pc[p] = "clean"
    /\ \E m \in remains[p] \ {"tree"} :
          /\ markers' = markers \ {m} /\ stale' = stale \ {m}
          /\ remains' = [remains EXCEPT ![p] = @ \ {m}]
    /\ UNCHANGED <<dir, tree, lock, pc, out, call, holes, missed, steady>>

CleanFile(p) ==
    /\ pc[p] = "clean" /\ "tree" \in remains[p]
    /\ \E f \in Files : tree[f] # "none" /\ tree' = [tree EXCEPT ![f] = "none"]
    /\ UNCHANGED <<dir, markers, lock, pc, remains, out, call, history>>

Cleaned(p) ==
    /\ pc[p] = "clean"
    /\ remains[p] \subseteq {"tree"}
    /\ "tree" \in remains[p] => tree = Absent
    /\ remains' = [remains EXCEPT ![p] = {}]
    /\ stale' = markers
    /\ Goto(p, "build")
    /\ UNCHANGED <<dir, tree, markers, lock, out, call, holes, missed, steady>>

Made(p) == IF verified[p] THEN "verified" ELSE "plain"

(* build_obs downloads and extracts; files that are there are overwritten. *)
(* The files of bin are moved by a walk, which may pass over some.         *)
Extract(p) ==
    /\ pc[p] = "build"
    /\ \E f \in Files : tree[f] # Made(p) /\ tree' = [tree EXCEPT ![f] = Made(p)]
    /\ UNCHANGED <<dir, markers, lock, pc, remains, out, call, history>>

Extracted(p) ==
    /\ pc[p] = "build"
    /\ holes' = {f \in Files : tree[f] # Made(p)}
    /\ Skips \/ holes' = {}
    /\ Goto(p, "mark")
    /\ UNCHANGED <<dir, tree, markers, lock, remains, out, call, stale, missed, steady>>

Release(p) ==
    /\ Goto(p, "copy") /\ lock' = None
    /\ steady' = steady \cup {p}

Mark(p) ==
    /\ pc[p] = "mark"
    /\ markers' = markers \cup {"success"} /\ stale' = stale \ {"success"}
    /\ IF verified[p] THEN Goto(p, "markVerified") /\ UNCHANGED <<lock, steady>> ELSE Release(p)
    /\ UNCHANGED <<dir, tree, remains, out, call, holes, missed>>

MarkVerified(p) ==
    /\ pc[p] = "markVerified"
    /\ markers' = markers \cup {"verified"} /\ stale' = stale \ {"verified"}
    /\ Release(p)
    /\ UNCHANGED <<dir, tree, remains, out, call, holes, missed>>

(* copy_to_dir takes the files that are there, and passes over an entry    *)
(* that it cannot read.                                                    *)
CopyFile(p) ==
    /\ pc[p] = "copy"
    /\ \E f \in Files : out[p][f] # tree[f] /\ tree[f] # "none" /\ out' = [out EXCEPT ![p][f] = tree[f]]
    /\ UNCHANGED <<dir, tree, markers, lock, pc, remains, call, history>>

Copied(p) ==
    /\ pc[p] = "copy"
    /\ LET left == {f \in Files : tree[f] \notin {"none", out[p][f]}}
       IN  /\ Skips \/ left = {}
           /\ missed' = [missed EXCEPT ![p] = left]
    /\ Goto(p, "installed")
    /\ UNCHANGED <<dir, tree, markers, lock, remains, out, call, stale, holes, steady>>

(* A preparation that ends early leaves a file in part, and the markers    *)
(* that it found and has not removed.                                      *)
Abandon(p) ==
    IF pc[p] \in {"clean", "build"}
    THEN /\ stale' = markers
         /\ tree' \in {tree} \cup {[tree EXCEPT ![f] = "none"] : f \in {e \in Files : pc[p] = "build"}}
    ELSE UNCHANGED <<stale, tree>>

(* The call ends: it is done, or it fails or is killed. *)
Exit(p) ==
    /\ pc[p] = "installed" \/ (pc[p] # "idle" /\ "interrupt" \in Disturbances)
    /\ Abandon(p)
    /\ Goto(p, "idle")
    /\ lock' = IF lock = p THEN None ELSE lock
    /\ remains' = [remains EXCEPT ![p] = {}]
    /\ out' = [out EXCEPT ![p] = Absent] /\ missed' = [missed EXCEPT ![p] = {}]
    /\ steady' = steady \ {p}
    /\ verified' = [verified EXCEPT ![p] = FALSE]
    /\ rebuild' = [rebuild EXCEPT ![p] = FALSE]
    /\ existed' = [existed EXCEPT ![p] = FALSE]
    /\ UNCHANGED <<dir, markers, holes, builds>>

-----------------------------------------------------------------------------
Init ==
    /\ dir = FALSE /\ tree = Absent /\ markers = {}
    /\ lock = None
    /\ pc = [p \in Processes |-> "idle"]
    /\ verified = [p \in Processes |-> FALSE]
    /\ rebuild = [p \in Processes |-> FALSE]
    /\ existed = [p \in Processes |-> FALSE]
    /\ remains = [p \in Processes |-> {}]
    /\ out = [p \in Processes |-> Absent]
    /\ builds = 0
    /\ stale = {} /\ holes = {} /\ missed = [p \in Processes |-> {}] /\ steady = {}

Next == \E p \in Processes :
    \/ \E check, again \in BOOLEAN : Begin(p, check, again)
    \/ CreateDir(p) \/ AcquireLock(p) \/ UseTree(p) \/ StartToClean(p) \/ StartToBuild(p)
    \/ CleanMarker(p) \/ CleanFile(p) \/ Cleaned(p)
    \/ Extract(p) \/ Extracted(p) \/ Mark(p) \/ MarkVerified(p)
    \/ CopyFile(p) \/ Copied(p) \/ Exit(p)

Spec == Init /\ [][Next]_vars

-----------------------------------------------------------------------------
(* Properties *)

(* "Serialize preparation across processes" (lib.rs:342): when nobody      *)
(* prepares, a tree that its preparation has marked has every file that    *)
(* the extraction has not passed over, and verified ones if it is marked   *)
(* so, although the directory was looked for before the lock, and whatever *)
(* calls that failed or were killed have left, except for a marker that    *)
(* such a call, or a directory it could not read, has kept from an earlier *)
(* tree.                                                                   *)
MarkedIsComplete ==
    lock = None =>
        \A f \in Files \ holes :
            /\ "success" \in markers \ stale => tree[f] # "none"
            /\ {"success", "verified"} \subseteq markers \ stale => tree[f] = "verified"

(* A call that succeeds has copied every file, with the checksums it       *)
(* requires, that neither the extraction nor its own copy has passed over, *)
(* if no other call has prepared the tree again while it copied: the lock  *)
(* is released before.                                                     *)
InstalledIsComplete ==
    \A p \in steady : pc[p] = "installed" =>
        \A f \in Files \ (holes \cup missed[p]) :
            out[p][f] # "none" /\ (verified[p] => out[p][f] = "verified")

(* A build hands out a whole release, or no success. *)
CacheIsComplete == MarkedIsComplete /\ InstalledIsComplete

=============================================================================
