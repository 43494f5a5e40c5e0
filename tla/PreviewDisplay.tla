--------------------------- MODULE PreviewDisplay ---------------------------
(***************************************************************************)
(* A preview display (libobs-wrapper/src/display): libobs's graphics       *)
(* thread draws it through a callback that has the raw address of its      *)
(* DisplayRenderState; on Windows the thread of its child window tells     *)
(* libobs of color spaces through the raw address of the display.  What    *)
(* is shown is retained by the state, the display by its handles.  Sizes,  *)
(* positions, visibility and scaling change nothing the other threads rely *)
(* on.  The actor is here its cleanup queue and its phases, as in          *)
(* SignalHub.                                                              *)
(***************************************************************************)
EXTENDS Naturals, SequencesExt

CONSTANTS
    Sources,       \* sources and scenes to preview
    Program,       \* PreviewTarget::Program
    Idle,          \* the callback does not run
    MaxHandles     \* bound: handles of the display

VARIABLES
    pc,            \* what ObsDisplayRef::new and the last handle's drop have come to
    handles,       \* ObsDisplayRefs of the program and of the context's list
    child,         \* the display has a child window
    address,       \* display_address is set
    userData,      \* the window has the address of its WindowUserData
    window,        \* the window's thread: "none", "loop", "found" or "update" a message, "ended"
    display,       \* the native display
    callback,      \* libobs has render_display and the address of the state
    target,        \* the state's target
    drawn,         \* what the callback draws
    held,          \* sources the program has a handle of
    object,        \* the native sources
    actor,
    cleanups,      \* the cleanup queue: "display", or a source
    panicked       \* history

vars == <<pc, handles, child, address, userData, window, display, callback, target, drawn, held,
          object, actor, cleanups, panicked>>
windowVars == <<child, address, userData, window>>
actorVars == <<actor, panicked>>

Targets == Sources \cup {Program}

TypeOK ==
    /\ pc \in {"new", "create", "lease", "callback", "shown", "clear", "detach", "release", "gone"}
    /\ handles \in 0..MaxHandles
    /\ child \in BOOLEAN /\ address \in BOOLEAN /\ userData \in BOOLEAN
    /\ window \in {"none", "loop", "found", "update", "ended"}
    /\ display \in {"none", "live", "destroyed"}
    /\ callback \in BOOLEAN
    /\ target \in Targets /\ drawn \in Targets \cup {Idle}
    /\ held \subseteq Sources
    /\ object \in [Sources -> {"live", "released"}]
    /\ actor \in {"running", "recovering", "down", "exited"}
    /\ cleanups \in Seq(Sources \cup {"display"})
    /\ panicked \in BOOLEAN

Defer(task) == cleanups' = IF actor = "exited" THEN cleanups ELSE Append(cleanups, task)

-----------------------------------------------------------------------------
(* ObsDisplayRef::new *)

(* new_child: the thread of the window creates it and runs its messages,   *)
(* or nothing is made.                                                     *)
NewWindow ==
    /\ pc = "new"
    /\ \/ ~child /\ pc' = "create" /\ UNCHANGED <<userData, window>>
       \/ child /\ pc' = "create" /\ userData' = TRUE /\ window' = "loop"
       \/ child /\ pc' = "gone" /\ UNCHANGED <<userData, window>>
    /\ UNCHANGED <<handles, child, address, display, callback, target, drawn, held, object,
                   cleanups, actorVars>>

(* obs_display_create on the actor; a null display ends the child window.  *)
Create ==
    /\ pc = "create"
    /\ \/ actor = "running" /\ display' = "live" /\ pc' = "lease"
       \/ pc' = (IF child THEN "clear" ELSE "gone") /\ UNCHANGED display
    /\ UNCHANGED <<handles, windowVars, callback, target, drawn, held, object, cleanups, actorVars>>

(* The drop guard, and set_display_handle for the window's thread. *)
Lease ==
    /\ pc = "lease"
    /\ window # "update"
    /\ address' = child
    /\ pc' = "callback"
    /\ UNCHANGED <<handles, child, userData, window, display, callback, target, drawn, held, object,
                   cleanups, actorVars>>

(* obs_display_add_draw_callback on the actor.  The context keeps a handle *)
(* and returns one; without the actor the new handle is dropped.           *)
AddCallback ==
    /\ pc = "callback"
    /\ \/ actor = "running" /\ callback' = TRUE /\ handles' = 2 /\ pc' = "shown"
       \/ actor # "running" /\ pc' = (IF child THEN "clear" ELSE "release")
                            /\ UNCHANGED <<callback, handles>>
    /\ UNCHANGED <<windowVars, display, target, drawn, held, object, cleanups, actorVars>>

-----------------------------------------------------------------------------
(* Calls of the program *)

(* clone, and get_display_by_id *)
CloneHandle ==
    /\ handles \in 1..(MaxHandles - 1)
    /\ handles' = handles + 1
    /\ UNCHANGED <<pc, windowVars, display, callback, target, drawn, held, object, cleanups,
                   actorVars>>

(* A handle is dropped, or remove_display drops the context's.  The last   *)
(* one drops its fields in their order, the window's handler first.        *)
DropHandle ==
    /\ handles > 0
    /\ handles' = handles - 1
    /\ pc' = IF handles > 1 THEN pc ELSE IF child THEN "clear" ELSE "release"
    /\ UNCHANGED <<windowVars, display, callback, target, drawn, held, object, cleanups, actorVars>>

(* set_target, under the state's lock: what was shown before is dropped.   *)
SetTarget(t) ==
    /\ handles > 0
    /\ t \in held \cup {Program}
    /\ drawn = Idle
    /\ target' = t
    /\ IF target \in Sources \ (held \cup {t}) THEN Defer(target) ELSE UNCHANGED cleanups
    /\ UNCHANGED <<pc, handles, windowVars, display, callback, drawn, held, object, actorVars>>

(* target, and preview_geometry for its duration *)
CloneTarget ==
    /\ handles > 0
    /\ target \in Sources
    /\ held' = held \cup {target}
    /\ UNCHANGED <<pc, handles, windowVars, display, callback, target, drawn, object, cleanups,
                   actorVars>>

DropSource(s) ==
    /\ s \in held
    /\ held' = held \ {s}
    /\ IF target = s THEN UNCHANGED cleanups ELSE Defer(s)
    /\ UNCHANGED <<pc, handles, windowVars, display, callback, target, drawn, object, actorVars>>

-----------------------------------------------------------------------------
(* The last handle's drop *)

(* Mutant: the address is taken without the mutex. *)
ClearAtOnce ==
    /\ pc = "clear"
    /\ address' = FALSE
    /\ pc' = "detach"
    /\ UNCHANGED <<handles, child, userData, window, display, callback, target, drawn, held, object,
                   cleanups, actorVars>>

(* The handler's drop takes the address when no message uses it.           *)
ClearAddress ==
    /\ pc = "clear"
    /\ window # "update"
    /\ address' = FALSE
    /\ pc' = "detach"
    /\ UNCHANGED <<handles, child, userData, window, display, callback, target, drawn, held, object,
                   cleanups, actorVars>>

(* The window loses its user data and is asked to end; nobody waits.       *)
DetachWindow ==
    /\ pc = "detach"
    /\ userData' = FALSE
    /\ pc' = IF display = "none" THEN "gone" ELSE "release"
    /\ UNCHANGED <<handles, child, address, window, display, callback, target, drawn, held, object,
                   cleanups, actorVars>>

(* A lost cleanup drops the state, and with it the target. *)
ReleaseDisplay ==
    /\ pc = "release"
    /\ pc' = "gone"
    /\ Defer("display")
    /\ target' = IF actor = "exited" THEN Program ELSE target
    /\ UNCHANGED <<handles, windowVars, display, callback, drawn, held, object, actorVars>>

-----------------------------------------------------------------------------
(* The other threads *)

(* render_display has the lock of the target while it draws. *)
Draw ==
    /\ callback /\ actor \notin {"down", "exited"}
    /\ drawn = Idle
    /\ drawn' = target
    /\ UNCHANGED <<pc, handles, windowVars, display, callback, target, held, object, cleanups,
                   actorVars>>

Drawn ==
    /\ drawn # Idle
    /\ drawn' = Idle
    /\ UNCHANGED <<pc, handles, windowVars, display, callback, target, held, object, cleanups,
                   actorVars>>

(* wndproc: the user data is found, then the address under its mutex, then *)
(* it is used.                                                             *)
Message ==
    /\ \/ window = "loop" /\ userData /\ window' = "found"
       \/ window = "found" /\ window' = (IF address THEN "update" ELSE "loop")
       \/ window = "update" /\ window' = "loop"
       \/ window = "loop" /\ pc \in {"release", "gone"} /\ window' = "ended"
    /\ UNCHANGED <<pc, handles, child, address, userData, display, callback, target, drawn, held,
                   object, cleanups, actorVars>>

(* The actor runs a cleanup.  Removing the callback waits for the graphics *)
(* thread; what the state drops is released there and then.                *)
RunCleanup ==
    /\ actor \in {"running", "recovering"}
    /\ cleanups # <<>>
    /\ cleanups' = Tail(cleanups)
    /\ IF Head(cleanups) = "display"
       THEN /\ drawn = Idle
            /\ callback' = FALSE /\ display' = "destroyed"
            /\ target' = Program
            /\ object' = IF target \in Sources \ held
                         THEN [object EXCEPT ![target] = "released"] ELSE object
       ELSE /\ object' = [object EXCEPT ![Head(cleanups)] = "released"]
            /\ UNCHANGED <<callback, display, target>>
    /\ UNCHANGED <<pc, handles, windowVars, drawn, held, actorVars>>

(* A command panics: the cleanups are run before libobs is shut down.      *)
Panic ==
    /\ actor = "running"
    /\ actor' = "recovering" /\ panicked' = TRUE
    /\ UNCHANGED <<pc, handles, windowVars, display, callback, target, drawn, held, object,
                   cleanups>>

(* obs_shutdown, after the last handle of the runtime is gone or a panic:  *)
(* libobs stops drawing and frees what is left.                            *)
ShutDown ==
    /\ \/ actor = "running" /\ pc = "gone" /\ held = {} /\ cleanups = <<>>
       \/ actor = "recovering" /\ cleanups = <<>>
    /\ drawn = Idle
    /\ actor' = "down"
    /\ callback' = FALSE
    /\ display' = IF display = "live" THEN "destroyed" ELSE display
    /\ object' = [s \in Sources |-> "released"]
    /\ UNCHANGED <<pc, handles, windowVars, target, drawn, held, cleanups, panicked>>

Exit ==
    /\ actor = "down"
    /\ actor' = "exited"
    /\ cleanups' = <<>>
    /\ target' = IF Contains(cleanups, "display") THEN Program ELSE target
    /\ UNCHANGED <<pc, handles, windowVars, display, callback, drawn, held, object, panicked>>

-----------------------------------------------------------------------------
Init ==
    /\ pc = "new" /\ handles = 0
    /\ child \in BOOLEAN
    /\ address = FALSE /\ userData = FALSE /\ window = "none"
    /\ display = "none" /\ callback = FALSE
    /\ target = Program /\ drawn = Idle
    /\ held = Sources /\ object = [s \in Sources |-> "live"]
    /\ actor = "running" /\ cleanups = <<>> /\ panicked = FALSE

Next ==
    \/ NewWindow \/ Create \/ Lease \/ AddCallback
    \/ CloneHandle \/ DropHandle \/ CloneTarget
    \/ \E t \in Targets : SetTarget(t)
    \/ \E s \in Sources : DropSource(s)
    \/ ClearAddress \/ DetachWindow \/ ReleaseDisplay
    \/ Draw \/ Drawn \/ Message
    \/ RunCleanup \/ Panic \/ ShutDown \/ Exit

Spec == Init /\ [][Next]_vars

-----------------------------------------------------------------------------
(* Properties *)

(* The state that render_display is given by address.                      *)
StateIsAlive ==
    pc \in {"lease", "callback", "shown", "clear", "detach", "release"}
        \/ Contains(cleanups, "display")

(* Whatever the order in which handles, targets and sources are dropped    *)
(* and the actor runs their cleanups: while libobs can call render_display *)
(* its state and the display exist, what it draws has not been released    *)
(* ("retain their native source/scene lifetime while selected, including   *)
(* while the graphics callback is executing", display/mod.rs:56), and the  *)
(* window's thread uses no display that is destroyed ("teardown cannot     *)
(* race this call", windows/mod.rs:58), unless libobs was shut down by a   *)
(* panic under the program's handles.                                      *)
PreviewIsSafe ==
    /\ callback => display = "live" /\ StateIsAlive
    /\ drawn \in Sources => object[drawn] = "live"
    /\ (window = "update" /\ ~panicked) => display = "live"

=============================================================================
