----------------------------- MODULE Bootstrap ------------------------------
(***************************************************************************)
(* ObsBootstrapper (libobs-bootstrapper/src/lib.rs): before its first OBS  *)
(* call a program makes sure that the runtime it wants is installed.  What *)
(* is installed is told by the version of one file, the library; a release *)
(* is copied over it file by file from the cache, whose preparation is     *)
(* BuildCache.  The copy says nothing of entries that it cannot read.  A   *)
(* version is <<major, minor, patch>>.                                     *)
(***************************************************************************)
EXTENDS Naturals, FiniteSets

CONSTANTS
    Versions,       \* releases there may be
    Configured,     \* target_version
    Library, Rest,  \* the library, and the other files of a release
    Absent,         \* the version of a file that is not there
    MaxCalls        \* bound: calls of bootstrap

VARIABLES
    published,      \* stable releases
    cached, list,   \* for which lines the list of releases is on the disk, and the lists
    installed,      \* the version of each file
    torn,           \* files that are copied in part
    loaded,         \* the process has made its first OBS call
    mode, update,   \* UpdateTargetMode; whether updates are allowed
    pc,
    target,
    copied,
    partial,        \* history: the last copy did not write every file
    calls

vars == <<published, cached, list, installed, torn, loaded, mode, update, pc, target, copied,
          partial, calls>>
options == <<mode, update, calls>>
world == <<published, cached, list>>
disk == <<installed, torn, copied, partial>>

Files == {Library} \cup Rest
Modes == {"exact", "major", "majorMinor"}
Lines == Modes \ {"exact"}

TypeOK ==
    /\ published \subseteq Versions
    /\ cached \subseteq Lines /\ list \in [Lines -> SUBSET Versions]
    /\ installed \in [Files -> Versions \cup {Absent}]
    /\ torn \subseteq Files /\ copied \subseteq Files
    /\ loaded \in BOOLEAN /\ update \in BOOLEAN /\ partial \in BOOLEAN
    /\ mode \in Modes
    /\ pc \in {"idle", "resolve", "inspect", "prepare", "copy", "verify",
               "none", "provisioned", "failed"}
    /\ target \in Versions \cup {Absent}
    /\ calls \in 0..MaxCalls

Less(v, w) ==
    \E i \in 1..3 : v[i] < w[i] /\ \A j \in 1..(i - 1) : v[j] = w[j]

(* The compatibility line of a mode. *)
InLine(v, w, m) == v[1] = w[1] /\ (m = "majorMinor" => v[2] = w[2])

-----------------------------------------------------------------------------
Publish ==
    /\ pc = "idle"
    /\ \E v \in Versions \ published : published' = published \cup {v}
    /\ UNCHANGED <<cached, list, disk, loaded, options, pc, target>>

(* ensure_obs_not_loaded: RuntimeAlreadyLoaded. *)
Call(m, u) ==
    /\ pc = "idle"
    /\ calls < MaxCalls
    /\ calls' = calls + 1
    /\ mode' = m /\ update' = u
    /\ pc' = IF loaded THEN "failed" ELSE "resolve"
    /\ UNCHANGED <<world, disk, loaded, target>>

Fail ==
    /\ pc' = "failed"
    /\ UNCHANGED <<disk, loaded, options, target>>

ResolveExact ==
    /\ pc = "resolve" /\ mode = "exact"
    /\ target' = Configured
    /\ pc' = "inspect"
    /\ UNCHANGED <<world, disk, loaded, options>>

(* parse_releases_for_latest_compatible: the newest of the line. *)
Choose(releases) ==
    LET line == {v \in releases : InLine(v, Configured, mode)}
    IN  IF line = {}
        THEN Fail
        ELSE /\ \E v \in line : (\A w \in line : ~Less(v, w)) /\ target' = v
             /\ pc' = "inspect"
             /\ UNCHANGED <<disk, loaded, options>>

(* fetch_latest_compatible_release: a list on the disk does not get old;   *)
(* that a list could not be kept is no failure.                            *)
ResolveFromList ==
    /\ pc = "resolve" /\ mode \in cached
    /\ Choose(list[mode])
    /\ UNCHANGED world

ResolveFromServer ==
    /\ pc = "resolve" /\ mode \in Lines \ cached
    /\ \/ Fail /\ UNCHANGED world
       \/ /\ Choose(published)
          /\ \/ cached' = cached \cup {mode} /\ list' = [list EXCEPT ![mode] = published]
             \/ UNCHANGED <<cached, list>>
          /\ UNCHANGED published

-----------------------------------------------------------------------------
(* Mutant: any version but the target is replaced. *)
SatisfiesExactly(v) == v = target

(* installation_satisfies_policy. *)
Satisfies(v) ==
    IF mode = "exact" THEN v = target ELSE InLine(v, target, mode) /\ ~Less(v, target)

(* needs_provision; a library that cannot be read is replaced, if updates  *)
(* are allowed.                                                            *)
Inspect ==
    /\ pc = "inspect"
    /\ pc' = CASE Library \in torn                 -> IF update THEN "prepare" ELSE "failed"
               [] Library \notin torn /\ installed[Library] = Absent -> "prepare"
               [] OTHER -> IF Satisfies(installed[Library]) THEN "none"
                           ELSE IF update THEN "prepare" ELSE "failed"
    /\ UNCHANGED <<world, disk, loaded, options, target>>

(* build_obs_binaries_verified: the release is fetched, or is in the cache. *)
Prepare ==
    /\ pc = "prepare"
    /\ \/ Fail
       \/ /\ target \in published
          /\ pc' = "copy" /\ copied' = {}
          /\ UNCHANGED <<installed, torn, partial, loaded, options, target>>
    /\ UNCHANGED world

(* copy_to_dir, in the order of the directory; a file that is being        *)
(* written is in part until it is whole.                                   *)
Copy(f) ==
    /\ pc = "copy" /\ f \notin copied
    /\ installed' = [installed EXCEPT ![f] = target]
    /\ torn' = torn \ {f}
    /\ copied' = copied \cup {f}
    /\ UNCHANGED <<world, partial, loaded, options, pc, target>>

(* A copy that is broken off can leave a part of a file. *)
BreakOff ==
    IF pc = "copy"
    THEN /\ torn' \in {torn} \cup {torn \cup {f} : f \in Files \ copied}
         /\ partial' = TRUE
    ELSE UNCHANGED <<torn, partial>>

(* A directory cannot be made, or a file not be written. *)
CopyFails ==
    /\ pc = "copy"
    /\ BreakOff
    /\ pc' = "failed"
    /\ UNCHANGED <<world, installed, copied, loaded, options, target>>

(* The walk comes to its end; it passes over an entry that it cannot read  *)
(* and goes on.                                                            *)
Copied ==
    /\ pc = "copy"
    /\ pc' = "verify"
    /\ partial' = (copied # Files)
    /\ UNCHANGED <<world, installed, torn, copied, loaded, options, target>>

(* The version of the library is read again.  The status handler, told     *)
(* after that, may abort the call.                                         *)
Verify ==
    /\ pc = "verify"
    /\ pc' \in IF Library \notin torn /\ installed[Library] = target
               THEN {"provisioned", "failed"} ELSE {"failed"}
    /\ UNCHANGED <<world, disk, loaded, options, target>>

-----------------------------------------------------------------------------
NoCall ==
    /\ pc' = "idle" /\ mode' = "exact" /\ update' = TRUE
    /\ target' = Absent /\ copied' = {}

(* The program makes its first OBS call, or not. *)
Return ==
    /\ pc \in {"none", "provisioned", "failed"}
    /\ NoCall
    /\ IF pc = "failed" THEN UNCHANGED loaded ELSE loaded' \in {loaded, TRUE}
    /\ UNCHANGED <<world, installed, torn, partial, calls>>

(* The process ends at any point and another is started. *)
Exit ==
    /\ pc # "idle" \/ loaded
    /\ BreakOff
    /\ NoCall /\ loaded' = FALSE
    /\ UNCHANGED <<world, installed, calls>>

Init ==
    /\ published \in {{Configured}, {v \in Versions : ~Less(Configured, v)}}
    /\ cached = {} /\ list = [l \in Lines |-> {}]
    /\ \E v \in Versions \cup {Absent} : installed = [f \in Files |-> v]
    /\ torn = {} /\ copied = {} /\ partial = FALSE
    /\ loaded = FALSE /\ mode = "exact" /\ update = TRUE /\ calls = 0
    /\ pc = "idle" /\ target = Absent

Next ==
    \/ Publish
    \/ \E m \in Modes, u \in BOOLEAN : Call(m, u)
    \/ ResolveExact \/ ResolveFromList \/ ResolveFromServer \/ Inspect \/ Prepare
    \/ \E f \in Files : Copy(f)
    \/ CopyFails \/ Copied \/ Verify \/ Return \/ Exit

Spec == Init /\ [][Next]_vars

-----------------------------------------------------------------------------
(* Properties *)

IsWhole == torn = {} /\ \A f \in Files : installed[f] = installed[Library]

(* A call that provisions leaves the version it was to find, in every file *)
(* that its copy has not passed over, also where an earlier copy was       *)
(* broken off; one that does nothing leaves a library of the line asked    *)
(* for ("The already-installed runtime satisfied the configured            *)
(* requirement", lib.rs:307), and all of it, if the last copy wrote every  *)
(* file; and an update never puts an older release of the line in the      *)
(* place of a newer.                                                       *)
BootstrapIsSound ==
    /\ pc = "provisioned" => \A f \in copied \cup {Library} : f \notin torn /\ installed[f] = target
    /\ pc = "none" => /\ Library \notin torn
                      /\ InLine(installed[Library], Configured, mode) /\ ~Less(installed[Library], target)
                      /\ partial \/ IsWhole
    /\ (pc = "prepare" /\ mode # "exact" /\ Library \notin torn /\ installed[Library] # Absent) =>
           ~(InLine(installed[Library], target, mode) /\ Less(target, installed[Library]))

(* "It is now safe to make the first OBS call" (README.md:48), whether the  *)
(* call provisioned or found nothing to do: every file is of one version   *)
(* and whole.  Only the version of the library is looked at, before a copy *)
(* and after it.                                                           *)
SafeToCall == pc \in {"none", "provisioned"} => IsWhole

=============================================================================
