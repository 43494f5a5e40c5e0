# libobs-rs in TLA+

Models, model-checking runs and machine-checked proofs for the wrapper around
libobs in this repository, the crate of simple outputs and scene collections
built on it, and the tools that install OBS. Paths are relative to the
repository's root; `wrapper` stands for `libobs-wrapper/src`, `simple` for
`libobs-simple/src`.

## The system

libobs is a C library with global state that must be used from one thread. The
wrapper gives it a dedicated thread, the *OBS actor*; every other part reaches
libobs by sending closures to it, and libobs answers some requests on threads
of its own with signals. What is hard in this code follows from that: any
number of application threads hold handles, the actor is asynchronous to all of
them, libobs is asynchronous to the actor, waits have deadlines, a closure may
panic, and the process has a single slot for a running libobs. Above it are
files that several threads or processes write, documents that are restored on
another machine, and fallbacks that must try the right thing next.

| Component | State | Operations | What makes it correct |
|---|---|---|---|
| Runtime slot (`wrapper/context.rs`) | `OBS_RUNTIME_STATE`: Idle, Starting, Active(thread), ShuttingDown | reserve, cancel, activate, begin shutdown, release | one libobs at a time, never stranded, callers that wait are woken |
| Actor life (`wrapper/runtime.rs`) | thread, rollback guard, log and crash handlers | start, roll back, run, recover from a panic, shut down | libobs is shut down once, by the actor that started it |
| Actor queues (`wrapper/runtime.rs`) | bounded command queue, unbounded cleanup queue, health flag | blocking and fire-and-forget submission, drain, recovery | a caller is answered, accepted work runs or is dropped, nothing runs after a panic |
| Native handles (`wrapper/unsafe_send.rs`, `macros.rs`) | lease counts, registry | clone, drop, deferred release | an object lives exactly as long as a handle, is released once |
| Managed transitions (`wrapper/sources/transition.rs`) | current, in flight, completion | begin, wait, force stop, reconcile | the destination of an active transition is retained, the books agree with what is shown |
| Outputs (`wrapper/data/output/traits.rs`) | encoder and service slots, lifecycle and configuration lock | configure, start, pause, stop | no change of an output in use, success means the effect |
| Replay buffer (`wrapper/data/output/replay_buffer.rs`) | save lock | save | the path is that of the request |
| Signals, hotkeys, faders and meters (`wrapper/signals/`, `hotkeys.rs`, `sources/audio.rs`) | hubs of bounded queues, native callbacks | connect, subscribe, publish, disconnect | no callback after its hub is gone, a slow receiver harms only itself and misses only late events |
| Scenes and groups (`wrapper/scenes/`) | registry of items, groups, removed flags | add, remove, take, clear, group, ungroup | registry and native scene agree, locks are never taken in a circle |
| Filters (`wrapper/sources/mod.rs`, `scenes/filter_traits.rs`) | pairs of filter and guard | add, list, remove, drop | libobs has the filters that are attached |
| Settings of objects (`wrapper/data/object/`, `settings_actions.rs`) | libobs's settings and a copy | update, button, read | the copy is what libobs has |
| Discovered settings (`wrapper/settings.rs`, `simple/output/configure.rs`) | schema, report | validate, set and report | only legal values are set, the report is true |
| Simple outputs (`simple/output/simple.rs`, `wrapper/capabilities.rs`, `data/output/pipeline.rs`) | configured output, next candidate, report | plan, create, build, start with fallback | hardware first, every candidate once, every attempt reported |
| Scene collections (`simple/scene_collection.rs`) | document, undo and redo history, file | edits, undo, redo, save, restore | identities survive, undo and redo are inverse, a file is never truncated, restore is what was captured |
| Build cache (`cargo-obs-build`) | a directory shared by processes, its lock and markers | lock, clean, extract, mark, copy | a marked cache has what its preparation made |
| Bootstrapper (`libobs-bootstrapper`) | installed files, list of releases | resolve, inspect, prepare, copy, verify | what is reported installed is of the line asked for, and nothing newer is replaced |
| Displays (`wrapper/display/`) | render state, handles, child window | create, set target, drop | neither the graphics nor the window thread uses what is released |
| Statistics (`wrapper/data/output/stats.rs`) | last sample | sample | no rate from counters that restarted |
| Sources, encoders, services, properties | single native values | one actor call each | - |

Interaction: a component calls another through closures on the actor (one step
of the actor, unless the actor thread itself calls, which runs it inline);
libobs calls back through a signal hub, to which an operation subscribes before
it makes its request; and components share the locks named above. All native
objects are released through the cleanup queue. Simple outputs and restored
collections are sequences of calls of the wrapper; the bootstrapper installs
from the build cache.

## Modules

| Module | Models |
|---|---|
| `RuntimeLifecycle` | the slot and the life of every actor thread |
| `RuntimeLease` | abstract: an exclusive lease on the native library |
| `RuntimeLifecycle_proofs` | the theorems about the two |
| `RuntimeActor`, `RuntimeActor_proofs` | one runtime: submission, queues, drain, recovery, handles and native objects, and the theorems about it and about `Actors` |
| `Actors` | `RuntimeActor`, and apart from it `RuntimeLifecycle` with contexts created at once |
| `ManagedTransition` | one transition source |
| `OutputLifecycle`, `OutputLifecycle_proofs` | one output, and the theorems about it |
| `ReplaySave` | `save_buffer` of one replay buffer |
| `SceneGraph`, `SceneGraph_proofs` | one scene with its items and groups, and the theorem about it |
| `SignalHub` | the hub of one signal and the registration behind it: a signal manager, hotkey, fader or meter |
| `PreviewDisplay` | one preview display, its child window and what it shows |
| `ObjectFilters` | the filters of one source or scene |
| `ObjectSettings` | the settings of one source, service, encoder or output |
| `GenericSettings` | validation against a schema, and setting with a report |
| `EncoderSchemas` | schemas and requests for its instances |
| `SimpleOutputs` | one managed recording |
| `SceneCollectionEditor` | the editor of one scene of a collection |
| `EditHistory` | abstract: an editor with undo and redo |
| `SceneCollectionSave`, `SceneCollectionSave_proofs` | the file of a collection |
| `SceneCollectionRestore`, `SceneCollectionRestore_proofs` | the restoration of a document |
| `BuildCache` | the cache of one release |
| `Bootstrap` | one installation of OBS and the programs that use it |
| `Objects` | the objects of the wrapper side by side: transition, replay buffer, scene, hub, filters, settings, display |
| `Tools` | what is around the wrapper, side by side: editor, save, restore, generic settings, build cache, simple outputs, bootstrap |
| `Objects_proofs` | the theorems about transitions, signal hubs, displays, replay buffers, filters and settings, and about `Objects` |
| `Tools_proofs` | the theorems about the build cache, the bootstrap, the editor, simple outputs and generic settings, and about `Tools` |
| `MC...` | the instances that TLC checks |

`Objects`, `Tools`, `Actors` and `MCCallsReturn` instantiate several components that
share no state. A variable `component` says which of them runs in a behaviour;
the others stay in one initial state. So their state spaces add up and do not
multiply, and the properties of a component are asked for in the behaviours in
which it runs.

A definition that starts with the comment `Mutant:` is a plausible bug, a
variant of the definition below it. Put in its place it breaks a property: that
shows that the property says something about the code. Nothing else uses it.

### RuntimeLifecycle

A runtime `r` is one call of `ObsContext::new` and all it creates: `app[r]` is
the thread inside `new` and later the owner of the last handle, `actor[r]` the
OBS thread. `slot` is `OBS_RUNTIME_STATE`; every operation on it is one step,
under its mutex. `obs` and `handlers` name the actor that brought libobs up and
the one whose log and crash handlers are installed. `reserve_runtime_slot` is
`ReserveRuntimeSlot` with `waiting` for the condition variable (which may wake
spuriously); `init` is `SpawnActor` and `ReceiveInit`; `initialize_inner` is
`ActivateRuntimeSlot`, `ObsStartup`, `InitializeCompletes`, with
`InitializeFails` and `InitializePanics` for an error or a panic before and
after `obs_startup`, what the rollback guard does then, and the second release
in the arm that catches the panic. The drop of the last handle is three steps,
because the fields of `ObsRuntime` drop in declaration order: the senders
(`DropSenders`), `begin_runtime_shutdown`, the shutdown message or the release.
The feature `enable_runtime` is assumed; without it there is no actor.

### RuntimeActor

Threads own handles (`lease[t]`), closures in flight own the handles they
captured (`captured[c]`), and whichever is the last one runs the drop guard: on
a thread it queues a cleanup, on the actor it releases inline. A submission is
three steps: the health check, `try_submit` and the wait for the result. The
actor is `loop`, a final drain of commands and of cleanups, `shutdown`; or, when
a command or a cleanup panics, `unwinding` (the closure and its result sender
are dropped first), the health flag, the drop of pending commands, the contained
cleanups. `ActorExits` drops the receivers; the channel then discards what is
still queued. Work submitted on the actor itself runs inline and is part of
the command that submits it.

### ManagedTransition

Each call is one step per call on the actor and one per visit of the state
mutex; `operation` is the mutex that serializes everything but
`wait_for_completion`. `completion` holds a subscription, known by the number of
the `begin_to` that made it; `queue[b]` counts the signals it has received.
libobs ends a transition in two steps: it becomes inactive and shows the
destination (`NativeFinish`), then it signals (`NativeSignal`). `start_to` is
`begin_to` and `wait_for_completion`. `undisturbed` is history: no call has
failed and no two calls have overlapped.

### OutputLifecycle

An operation takes its locks, queries libobs, subscribes, requests and waits;
each call on the actor is a step that may fail and that waits while a closure of
the application occupies the actor (`ActorServes`). That closure is one of the
callers (`Actor`); the operations that check `is_actor_thread` refuse it. The
encoders and the service are one value, `slots` in the wrapper and `wired` in
libobs. libobs ends an output with a stop and a deactivate signal in any order,
and is active until deactivate; reconnecting counts as active. With `SelfEnds`
it may end at any time, with any of `StopCodes`. `Forsaken(t)` says that what a
call waits for has not been heard and will not come.

### ReplaySave

Files are known by the number of their request. libobs writes them in the order
of the requests, may answer several with one, and takes none while the output
is inactive, which may change at any time. `timedOut` is history.

### SceneGraph

A scene is the list `scene` of libobs's items and the lists `inside` of its
groups; `registry` and `groups` are the wrapper's `attached_scene_items` and
`attached_groups`, and `removed` the flags of handles. An item stands for its
native address, its identity and its handle at once, except in `Ungroup`: there
libobs makes new items, and the registry's handles of the children are bound to
them by position. Every call is cut where the code is: at each lock and at each
call on the actor, so that another thread may come between the reading of
addresses (`ReadChildren`), their mapping to handles (`MapChildren`) and the
change (`Ungroup`, `RemoveGroup`). A call on the actor fails only when the
runtime is gone, and the scene with it, so these failures are left out.

`Apart` names pairs of calls the program keeps from overlapping. The
instance needs three, because outside of them the code promises nothing:
ungrouping while an item of the scene is removed or taken out of the group (the
docs of `ungroup` map replacements by position, `wrapper/scenes/group.rs:166`,
and a child that leaves meanwhile shifts it), and `clear` while a group is being
created (its registration may come between the reading of the groups and the
clearing of their registry, which drops a group that libobs still shows).

### SignalHub

The hub's list of senders (`subscriber`), the bounded queues and `published`
are `SignalDispatcher`; `registration`, `callback` and `cleanups` are a signal
manager, a hotkey registration, a fader or a volume meter: one actor call makes
it, and its drop queues a disconnect that owns a lease on the object and the hub. The actor of
`RuntimeActor` appears here by its phases only. `Callback` is libobs calling at
any time until its thread has exited.

### PreviewDisplay

`pc` follows `ObsDisplayRef::new` and, after the last of `handles`, the drop of
its fields in their order. Three threads that are not the program's use raw
addresses: the graphics thread draws (`Draw`, `Drawn`) what `target` says, whose
lock it holds meanwhile; the window's thread reads the user data, then the
address, then uses it (`Message`); the actor runs the cleanup that removes the
callback and destroys the display. `held` are the program's own handles of what
can be shown: a source is released when neither it nor the state has one. The
locks of `SetTarget`, `Lease` and `ClearAddress` are their waiting for `drawn`
and `window`. A display without a child window (Linux, or by choice) has
`child = FALSE`.

### ObjectFilters

`attached` is `attached_filters`, pairs of a filter and the guard that takes it
off again; `clones` are pairs that `get_active_filters` gave away. Dropping the
last owner of a guard queues a removal (`DropPairs`). Commands and cleanups are
taken in any order (`RunCleanup` and `Added` interleave), as `select!` does.

### ObjectSettings

`native` is libobs's settings, `copy` what `settings()` returns: either libobs's
live object or the data of the last update, which has the keys the updater has
set (`Updates`): libobs merges them, the copy has no others. The three `kind`s
differ in what comes before the native update: nothing (sources, services), a
query (encoders), a lock and a query (outputs). `alone` and `clean` are history:
`SettingsAreCurrent` says of the values that the copy has that they are libobs's
when calls that disturb each other do not overlap, or one has been alone since.
`SettingsAreCaptured` says what a captured collection needs, every key and at any
time; the code violates it (`settings_captured`).

### GenericSettings and EncoderSchemas

A schema is a sequence of properties with nested groups; `Validate` is
`SettingsSchema::validate`, kind by kind, with a text as a number and the value
of a float that is not finite as an empty sequence. `SetReported` is
`set_reported` and `Refuse` the refusal of a CRF by an encoder other than x264.
`EncoderSchemas` has values below, at, inside and above the limits and on and
off the steps. Numbers stay far from the width of `i64`, where no property of
OBS has its limits.

### SimpleOutputs

`Candidates` is the list of `video_encoder_candidates`: those of the codec,
hardware first, then by identifier, or the one asked for. A build plans
(`Planned`, from `best_output_plan`), creates the encoders from `next` on, each
attempt noted in `pending`, and validates the graph; it becomes the configured
output (`GraphBuilt`) or is given up (`BuildFails`). `start` is a loop of
`StartOutput` and builds. A build may fail over a setting in both modes
(`ConfigureFails`); which are rejected in which is in `GenericSettings`.

### SceneCollectionEditor

A document is a list of nodes, items and groups of items, with the order
position that `renumber` rewrites. Each edit is one step, a call of `transact`:
it keeps a copy, edits, validates the references and pushes the history. An
edit that must be refused is tried only with `Rejections`.

### SceneCollectionSave

Files are numbers; `path`, `temp` and `backup` are names, and a handle stays
with its file when the file is renamed. A document is the number of its save.
Each system call of `atomic_write` is a step that may fail (`MaxFaults`); a
process may be killed between any two, and the power may fail, which empties
every file that was not synchronised. Removing a name may fail too, which the code
ignores, and the file stays. `replaces` says what the platform's rename
does to a name that exists. The directory is not synchronised by the code, and
the model assumes that a rename is on the disk when it returns.

### SceneCollectionRestore

A document has one scene with items and groups of items; an item's state is its
order position, which libobs applies by moving the item (`PlaceLast`). A machine
is the set of plugins it has and of files it lacks; a source or filter may have a
field that was redacted when the document was exported. Before each is made it is
inspected (`Inspect`): a missing file ends a strict restoration, a redacted field
is reported in both modes and ends neither. Any native call may fail
(`NativeFails`), which leaves what was made.

### BuildCache

Each process is one run of `build_obs_binaries`. `tree` is the prepared
directory by file, `markers` the two marker files, `lock` the lock of a file,
which the system releases when its process ends. Extraction, cleaning and
copying go file by file in any order; the copy has no lock, and takes the files
that are there. `disturbances` says what may happen, all at once in the run:
finished trees are built again, calls end at any step, with an error or killed,
and a walk over a directory passes over entries that it cannot read, in silence,
as `util.rs:11` and `util.rs:36` do.

What the code promises under all of them is less than one would like, and the
history variables say how much: `stale` are markers that a cleaning has left from
an earlier tree (it was killed before it came to them, or could not read them),
`holes` and `missed` the files that an extraction and a copy passed over, and
`steady` the processes whose tree no other has prepared again since they released
the lock. `CacheIsComplete` is what holds of everything else.

### Bootstrap

The installation is the version of each of its files, of which `Library` is the
one that is looked at; `torn` are files that a copy left in part, `partial` is
history: the last copy did not write every file, because it was broken off or
passed over an entry that it could not read (`Copied` ends with whatever was
copied). A call resolves a target (from the list on the disk or from the server),
inspects, prepares (`BuildCache`, here one step that may fail), copies, verifies.
The process may end at any step and another may start; OBS publishes releases
between calls. `BootstrapIsSound` is what holds of the files that were copied;
that all files are of one version when the program is told to go on the code
violates (`bootstrap_safe`).

## Runs

| Run | Instance | Shows |
|---|---|---|
| `calls_return` | 3 contexts one after another, all faults; and, apart, an output with 3 callers, 2 starts, no deadlines, that may end by itself and with a failure | contexts take turns, `new` returns, the slot implements `RuntimeLease`; every output operation returns, unless it came too late to hear |
| `actor` | 2 threads, 2 objects, 3 commands (2 awaited), capacity 1, panics anywhere; and, apart, 3 contexts at once, all faults | what a pointer is used for is leased; calls, cleanups and the actor end; libobs is up exactly while its actor uses it, the slot is not stranded, a dropped runtime ends |
| `output_safety` | 2 threads and a closure on the actor, 2 starts, 2 unanswered pauses, failures, deadlines | configuration is never raced, success means the effect |
| `objects` | replay saving: 3 threads, 4 requests. Scene: 2 threads, 3 calls, starting from 3 items of 2 sources in 2 groups. Signals: 2 receivers, capacity 2, 4 events. Filters: 2 threads, 2 filters, 4 guards. Settings: 2 threads, 2 keys of 2 values, 3 calls, updates of either or both. Transition: 2 threads, 2 destinations, 2 begins, 1 forced stop. Display: 2 sources, 3 handles, with and without a window, a panic | the wrapper's objects under concurrent use |
| `tools` | editor: 2 items, 1 group, history of 3. Save: 2 processes, 3 saves, 1 failing operation, 1 crash, both kinds of rename. Restore: 2 documents of 3 sources, every subset of 5 plugins and 3 files, redacted fields. Settings: 2 schemas, 192 encoder requests, pairs of other requests. Cache: 2 processes, 3 builds, 2 files, all disturbances at once. Outputs: 5 encoder types, every subset discovered, 3 output types, 2 starts. Bootstrap: 4 versions, 2 files, 2 calls | what is built on the wrapper, and the tools |
| `runtime_overlap` | 3 contexts at once, no fault | violated: two actors in charge |
| `transition_in_flight` | as in `objects` | violated: an active transition is not in flight |
| `output_actor_deadlock` | a thread and a closure on the actor | violated: a stop waits for ever |
| `stop_missed_end` | 2 callers, 1 start, no failing call, an output that ends by itself | violated: a stop waits for signals that were sent before it subscribed |
| `settings_captured` | 2 threads, 2 keys of 2 values, 3 calls | violated: settings without keys that libobs has |
| `save_shared_temp` | 2 threads of one process, 3 saves, 1 failing operation | violated: a failed write truncates the collection |
| `bootstrap_safe` | as in `tools` | violated: an update succeeds with files of two versions |

The bounds and why they suffice:

- *Three runtimes*: the slot can be given to the wrong runtime only if one has
  released it, one has it and one comes for it.
- *Two threads, one of them awaited or not, and a queue of one*: the queue is
  full while the other submits, and each of the places where the last handle can
  die (thread, rejected closure, executed closure, dropped closure, discarded
  queue) is reached. Commands are single use, so three bound a behaviour.
- *Two starts and two unanswered pauses*: late signals of an earlier session
  and a late answer to an earlier request.
- *Two begins and a forced stop*: one transition to be late and one to be
  mistaken for it.
- *Four requests and three callers*: one that holds the lock, one that waits
  and one whose deadline has passed.
- *A populated scene and three calls of two threads*: one call to change what
  the other has read, and one to use the result; the groups have one and two
  items, so that an ungroup maps several by position.
- *Capacity two and four events*: a queue that is full, misses an event, is
  drained and takes another. The code's capacity is 32, a number no step
  depends on.
- *Two filters and four guards*: a filter twice on a scene, and one whose
  removal is queued while the other is added.
- *Two sources and three handles*: the context's handle, the program's and a
  clone; a source that is shown while another takes its place.
- *Two settings updates at once, and one alone after them*, for each kind, with
  one key of two and with both.
- *Setters that only clear the wiring* in `calls_return`: which encoder is set
  decides nothing about who waits.
- *Three saves of two processes*: an existing collection, one save that fails
  or is cut off, one after it, one beside it.
- *Two documents*: one without and one with gaps in its positions, groups at
  every place, a missing source before and after a present one, redacted sources
  and filters.
- *Three builds of two processes*: one that ends early or passes over a file, one
  that waited for it or rebuilds, and one that finds what they left; two files
  tell a partial tree from a whole.
- *Five encoder types*: two eligible hardware encoders, one software, one
  hidden and one of another codec.
- *Four versions*: the configured one, a patch, a minor and an older major; two
  files tell a whole installation from a mixed one.
- *Two items and one group*: a group in first and in last place, with one item
  or both. `MaxHistory` bounds the undo list; the redo list follows.

`CHECK_DEADLOCK FALSE` stands where a system may really stop, because the
application has done all it wants, every handle is gone, or a bound is reached.
That the threads of a scene never wait for each other is the invariant
`CallsProgress` instead. Symmetry is used in `output_safety`, `objects` and
`tools`, between callers, receivers, filters, destinations and processes: no
property there names one of them and none is a liveness property. Versions,
identifiers, documents and the items of the populated scene are told apart and
have none. In `tools` the processes of `SceneCollectionSave` have numbers, but
its initial states are symmetric in the threads that carry them.

### Fairness

- `RuntimeLifecycle`: weak fairness of the steps of a thread inside `new` or
  inside the guard's drop, and of the actor's. Whether the application creates
  or drops a context is its own affair and not fair. `wait` needs no more: whoever frees
  the slot notifies all.
- `RuntimeActor`: weak fairness of a thread inside a call, of the guard's drop
  and of the actor as a whole. Within the actor, `select!` chooses at random
  among ready queues; with finitely many commands no stronger assumption is
  needed for either queue.
- `OutputLifecycle`: strong fairness of a thread inside an operation, since
  another thread may take a lock in between (mutexes are not queues, but every
  waiter gets them eventually), weak fairness of clocks and, each by itself, of
  what libobs does: it ends an output that it was asked to stop, sends each signal
  that is due, and answers pauses. Nothing makes an output end by itself or a
  program ask for a stop: a call that waits for either has to be explained by
  `Forsaken`.

## What is proved

Eight modules hold the theorems; their proofs use the modules as TLC checks
them and assume nothing of the constants but the named hypotheses. Every
inductive invariant was checked by TLC on a small instance before it was proved.

`RuntimeLifecycle_proofs`, for any set of runtimes and of faults:

1. `TypeCorrect`.
2. `SidesAlwaysAgree` and `NativeLibraryOwnership`: the two sides of a runtime
   agree on how far start and shutdown are, and libobs belongs to exactly one
   actor while it is up. The argument does not use the slot: `obs_startup`
   refuses a second start, and the actor's own state decides whether it shuts
   down or rolls back. It therefore holds also where creations race.
3. `SequentialInvariant`: when the application drops a context before it creates
   the next (`Sequential`), `SequentialInv` is inductive. The slot alone does not
   say which runtime has a claim to it, so the invariant names the claim
   (reserved, in charge, or unwinding), says it is exclusive, what the slot shows
   of it, and what the thread and the actor may be doing at once under it.
4. From it `OneRuntime`, `HandlersOwnership` and `NeverRefused`, together
   `TurnsAreTaken`, which is the property `RuntimesTakeTurns` of `calls_return`;
   and `SlotImplementsLease`: under the refinement mapping (holder is the runtime
   whose actor is in charge, library the one that brought libobs up) every step
   is a step of `RuntimeLease` or stutters.
5. `SlotNeverStranded`, which needs no turns: every slot
   that is not idle is owed (`SlotIsOwed`), a reservation by a call that has not
   failed or an actor that has not looked, everything later by an actor that
   leaves only with a release. Once nobody is left to owe it, it is Idle.

`OutputLifecycle_proofs`, for any callers, configurations and deadlines:

1. `StepsAlwaysMatch` and `TypeCorrect`; the types are proved in three parts.
2. `LockAlwaysHeld`: the owner of the configuration lock is exactly the thread
   past taking it.
3. `OwnerAlwaysKnows`: a setter past its query of `active` finds the output
   inactive, and a stop that heard the deactivation finds it inactive until it
   returns, because nobody can start the output while the lock is held.
4. From it `SlotsAlwaysMatch`, `WiringAlwaysFrozen` and `StopAlwaysStops`.
5. `PausesAlwaysKnown`, hence `PauseAlwaysPauses`, the property
   `PauseMeansPaused`: the lifecycle lock lets one pause settle at a time. A
   request may outlive its caller, so libobs may owe several answers; the
   invariant says that the oldest of them first repeat the state libobs has, and
   then change it at most once, to what the settling pause asks.

`RuntimeActor_proofs`, for any threads, commands, objects and queue capacity:

1. `TypeCorrect` and `OwnershipInvariant`. The types say nothing of who looks
   after what, so the invariant adds it: every command under way has one thread
   (`ThreadsAgree`), the queues are sets of distinct elements
   (`QueuesAgree`), a retired object is in the hands of one thread
   (`DropsAgree`), a closure or thread that is gone owns nothing
   (`ClosuresAgree`), a native object is created by one command
   (`CreationsAgree`), and a lease protects its object.
2. From it `ObjectsAlwaysOwned`; with `DrainAgrees` (handles are gone before the
   loop is left, then one queue is emptied after the other)
   `ShutdownAlwaysDrains`; and `NothingAfterPanic`.
3. `NativeLibraryStaysOwned` and `SlotStaysFree`, about `Actors`: its behaviours
   are behaviours of `RuntimeLifecycle` (`LivesImplementLifecycle`), for which
   `NativeLibraryOwnership` and `SlotNeverStranded` hold, cited from the instance.

`Objects_proofs`, about managed transitions, for any threads and sources:

1. `TransitionInvariant`. The mutex has one owner (`LockIsHeld`); an operation
   that has seen or made the transition inactive is right about it, because
   nobody can begin one while it has the mutex (`Destinations`); every begin and
   every forced stop accounts for one signal, still to come or out (`Signals`);
   and as long as calls follow one another and none fails, what is in flight has
   a subscription that learns of its end (`Alone`).
2. From it `TypeCorrect`, `DestinationAlwaysRetained`, `AlwaysSnaps`,
   `CompletionNeverLost` and `ReconciledAlwaysShown`.

Also `Objects_proofs`, about the instances of `Objects`:

1. `CallbacksAlwaysSafe`. A dropped registration is in the cleanup queue exactly
   once until its disconnect has run or the actor has exited, and its lease keeps
   the object until then (`LifeInv`).
2. `FirstEventsAlwaysArrive`, for any receivers and capacity. What a receiver has
   heard of, taken or still in its queue, is one sequence (`Item`, `Heard`) that
   taking an event leaves alone. Up to `Capacity` events since it subscribed the
   sequence has them all, and after that at least the first `Capacity`
   (`FirstAreHeard`); events have numbers in order (`EventsGrow`, `HeardGrows`).
3. `PreviewAlwaysSafe`, for any sources and handles. The display is made and
   taken apart in one order (`DisplayIsMade`), destroyed only by its cleanup or
   after a panic (`DisplayStays`), drawn only while the state is there
   (`StateIsKept`), and what is held or shown is not queued to be released
   (`SourcesAreKept`).
4. Saves, for any callers: `PathAlwaysNew` (the file a save returns was signalled
   after its request), which needs `SignalsAreNew` and no lock; `SaveLockAlwaysHeld`
   and `AlwaysInOrder`: until a deadline passes, libobs owes at most the file of
   the one caller that waits; hence `PathOfTheRequest`. Together
   `SavedPathsAreRight`.
5. `FiltersAlwaysAttached`, for any threads and filters. Adds are exclusive
   (`AddsAreExclusive`), only a source gives pairs away (`PairsAreShared`), a
   source has a filter once (`FiltersAreOnce`), and a filter is retained or queued
   to be removed and never both, which with the native list makes the claim
   (`NativeIsRetained`). For scenes it needs `~ReAdd`: see below.
6. `SettingsAlwaysCurrent`, for any threads, keys and values and updates of any of
   the keys. The history variables promise what the proof needs: a
   call that is alone, or any call while `clean`, overlaps with none that disturbs
   it (`CallsAreAlone`), so between its two steps libobs has what it wrote
   (`UpdateIsNative`), and otherwise the copy is current (`CopyIsNative`). For
   outputs the configuration lock does it (`ConfiguredByOne`).
7. `ObjectsImplementComponents`: `ObjectsSpec` implies the specification of each
   component, a step of another being a stutter. With it each of these theorems
   becomes one about the property that the run `objects` checks, and
   `ObjectsStayTyped` puts the types of the seven objects together.

`SceneGraph_proofs`: `SceneAlwaysManaged`, for any threads, sources, items, groups
and number of calls, and from it `SceneStaysManaged` about the property of the run
`objects`. `GraphInv` is inductive:

1. An item has one place, in the scene or in one group (`OnePlace`), and what is
   attached is exactly what has a handle that is not removed or is about to get
   one (`HandlesMatch`). That is the claim, once nobody is about to register.
2. `CallSafe` says of each call what it knows in the stage it is in: the locks it
   has, what it is about, which items it has taken off the scene and not yet off
   the registry, and what a list that it has read is worth. The difficult call is
   `ungroup`: a list of children read without the registry's lock is the group's,
   or names an item that is disappearing from the registry (`Children`), so that
   mapping it to handles fails; once mapped under the lock, it is the group's. The
   items before the group in the scene are among those that were read before
   (`Replaces`), so that the first ones that were not are the replacements, by
   position.
3. A step of one thread is shown to keep `CallSafe` of that thread, and to be
   `Steady`: what the others rely on stays, by the locks, or the two calls are a
   pair of `Apart` (`ApartAre`). `StepIsSafe` joins the two, so that each of the
   actions needs one lemma and no argument about pairs of actions.

It assumes the three pairs of `Apart` and, of the scenes at the start, that calls
can have built them (`ScenesAssumption`, which TLC evaluates on those of the run).
`SceneGraph` numbers fresh items by their place instead of filtering a sequence,
as the prover knows nothing of `SelectSeq`; the handles of a source are a set,
for their order is seen by the getter `items_for_source` only.

`Tools_proofs`:

1. `CacheAlwaysComplete`, for any processes and release, with every disturbance at
   once. Whoever looks at the tree or changes it has the lock (`CacheLockIsHeld`);
   a marker that is not stale is true whenever nobody writes (`MarkersAreTrue`), for
   it is written after what it marks was made, by the process that made it
   (`MarkedIsMade`); and a steady process finds the tree as it was when it released
   the lock (`SteadyIsTrue`). Together `CacheInv`.
2. `BootstrapAlwaysSound`, for any versions and files. The target is of the line
   asked for once it is resolved (`TargetIsOfLine`), what was copied is the target
   (`CopiedIsTarget`), and files of two versions mean a copy that was broken off or
   passed over some (`NeverBrokenOff`). `VersionsAreOrdered` says that the
   comparison of versions, part by part, is a strict order.
3. `ItemsAlwaysStay` and `EditorKeepsOneLine`, for any items and groups and any
   length of the history, for edits that are not refused (`~Rejections`; a
   refused one may empty the scene, see the disagreements). `EditorInv`: every document
   of the history is valid and has every item (`Complete`), and the entries of
   both lists form chains that meet at the present document (`LeadsTo`,
   `LeadsFrom`). Each edit is shown to keep the items from what its operations do
   to a sequence (`Inserted`, `Removed`, `Joined`, `NodesAtPlaces`, ...). The
   refinement mapping takes the documents before the entries of `undo` for the
   past and those after the entries of `redo` for the future of `EditHistory`.
4. `FallbackAlwaysSound`, for any catalogue of encoders. A ranking is a
   permutation of what it ranks, hardware first (`RankIs`, from `Ranked`: the
   elements of a finite set are numbered by how many come up to each). The search
   goes down the candidates: those before the one in use have failed
   (`SearchIsInOrder`), a call asks for them in order (`CallsAdvance`), and every
   failure is in the report or in the one that is about to be added to it, unless
   a build that failed took it along (`ReportIsComplete`). Together `FallbackInv`.
5. `SettingsAlwaysExact`, for any schemas and settings asked for. A name leads to
   the first property that has it (`PropertyIs`), a value that validation finds
   right is one OBS takes (`RightIsLegal`, with `StepsFrom` for whole numbers),
   and each setting is what the report calls applied last (`ReportIsTrue`, kept
   by `ReportAdded`). `SettingsInv` adds that every request passed is in the
   report (`ReportIsWhole`) and why permissive settings fail (`FailureIsKnown`).
6. `ToolsImplementComponents`, as for the objects; hence the theorems about the
   properties of the run `tools`: `CacheStaysComplete`, `BootstrapStaysSound`,
   `ItemsKeepStaying`, `EditorImplementsHistory`, `SettingsStayExact`,
   `FallbackStaysSound`, `RestoreStaysFaithful`, `SaveStaysAtomic`, and
   `ToolsStayTyped`, which puts the types of the seven components together
   (those of the cache are in `CacheAlwaysTyped`).

`SceneCollectionRestore_proofs`: `RestoreAlwaysFaithful`, for any documents whose
sources have names of their own, any plugins and files. `RestoreInv` says of each
place the restoration can be at what is there already (`AtSource`, `AtFilter`,
`AtNode`, `AtChild`, `AtEnd`): the sources before it and their filters that have
a plugin, in order (`Back`), the items and children before it whose source is
there (`Placed`, from `Gathered`: the things a list holds at a set of places, each
at the number of its place in the set), and in the diagnostics exactly what was
passed over and what was redacted in what was looked at (`Reported`). A strict
restoration has passed over nothing, and its diagnostics are of redacted fields
(`StrictSoFar`). `SceneCollectionRestore` speaks of sets of places where a fold or
`SelectSeq` would be shorter, as the prover knows nothing of those.

`SceneCollectionSave_proofs`: `SaveAlwaysAtomic`, for threads of different
processes. No two names lead to one file (`Names`), a thread renames only its
own, synchronised file (`OwnFile`), what the name or a backup leads to is whole
and on the disk (`Whole`), a backup nobody is about to remove stands in for a
collection that was moved away (`Kept`), and a save without company knows where
the earlier one is (`Outcome`). Numbers of processes are never used again
(`NumbersApart`). Threads of one process share the temporary file, and the run
`save_shared_temp` shows what then happens.

The assumptions on the constants are `NamesAssumption`, `BoundsAssumption`,
`DocumentAssumption`, `ProcessesAssumption`, `SettingsAssumption`,
`RestoreAssumption`, `CatalogueAssumption`, `VersionsAssumption` and
`ScenesAssumption` of `Objects` and `Tools` and those of the other modules: names
that are distinct, bounds that are numbers, scenes that calls can have built, a document
with finitely many items, one whose sources have different ids, a schema whose
whole numbers are integers, a catalogue that is a list. Where a theorem holds in a
part of the instances only (`~ReAdd`, `~Rejections`, the pairs in `Apart`),
that is a hypothesis of the theorem, and the property is false outside of it, as
described under the disagreements.

Only model-checked:

- Liveness under fairness, and `CallsProgress`, which speaks of ENABLED: out of
  the prover's reach.

Every other invariant and action property that a passing run checks is stated by a
theorem.

## Assumptions about what is not in this repository

What libobs, the standard library and crates do is modelled from how the code
uses them:

- `obs_startup` fails while libobs is up; `obs_shutdown` ends what was started.
- A channel of crossbeam discards its content when its receiver is dropped, and
  a send fails exactly after that.
- libobs ends a transition first and signals after; a forced stop signals at once.
- libobs sends `stop` and `deactivate` from threads of its own, in either order;
  an output is active until `deactivate`. Pause requests are answered in order,
  save requests too, possibly several with one file.
- `obs_source_filter_add` ignores a filter that is there already.
- New scene items come last; ungrouping puts the children in the group's place,
  in their order. `obs_source_update` merges keys.
- The system releases a file lock when its process ends. A rename is atomic, and
  `sync_all` has put what it renames on the disk.

## Disagreements between the code and its documentation

Seven runs show one each; `findings` in PROJECT.json quotes both sides.

| run | the documentation | the code |
| --- | --- | --- |
| `runtime_overlap` | only one context at a time (`context.rs:252`) | a guard's drop frees the slot of whoever has it (`context.rs:122`, `runtime.rs:803`) |
| `transition_in_flight` | a destination stays in flight until its transition is resolved (`transition.rs:29`) | a late wait resolves the destination of a later transition (`transition.rs:203`) |
| `output_actor_deadlock` | a stop waits at most its timeout (`traits.rs:822`) | start and the setters, called on the actor, wait for a lock whose owner waits for the actor (`traits.rs:653`) |
| `stop_missed_end` | waits subscribe before the native operation, so completion cannot be lost (`docs/api_orientation.md:128`) | an output that ends between the query and the subscription is waited for until the deadline (`traits.rs:856-871`) |
| `settings_captured` | a collection has the settings of its sources (`libobs-simple/README.md:97`) | after an update of some keys the copy has only these (`libobs-simple-macro/src/lib.rs:87`), and of two that overlap libobs keeps one and the copy the other (`macros.rs:15`) |
| `save_shared_temp` | a failed write truncates nothing (`scene_collection.rs:743`) | two threads of a process share the temporary file (`:1266`) |
| `bootstrap_safe` | after either outcome it is safe to call OBS (bootstrapper `README.md:48`, `lib.rs:307-310`) | the version of one file is looked at (`lib.rs:240`, `:292`), and a copy passes over entries that it cannot read (`util.rs:11`) or was broken off |

Met while modelling, without a run of their own:

- A refused group edit leaves the scene empty (`scene_collection.rs:497`), and the
  next edit records that in a history that is said to keep whole documents
  (`:348`): with `Rejections = TRUE` the editor violates `ItemsStay`.
- A rejected choice keeps the plugin's default in permissive mode
  (`simple.rs:609`), but a number out of range fails the build
  (`configure.rs:132`): the last clause of `SettingsAreExact`.
- The prepared tree is copied without the lock (`cargo-obs-build/src/lib.rs:375`):
  a build that rebuilds it meanwhile makes the copy succeed with files missing,
  although concurrent builds are not to interfere (its `README.md:107`). Without
  `steady` in `InstalledIsComplete` the model violates it.
- The newest stable release of a line (`options.rs:18`) is taken from a list on the
  disk that has no expiry (`git.rs:233`): `ResolveFromList`.
- A caller whose closure panics is told that the runtime is unavailable
  (`runtime.rs:305`): it is disconnected before the health flag says why.
- A command submitted after the recovery's drain is discarded after
  `obs_shutdown` (`runtime.rs:311`).
- `cancel_runtime_start` may cancel a reservation of another (`runtime.rs:201`).
- `begin_to` loses the destination on failure (`transition.rs:132`), and a
  failed start leaves its destination in flight (`transition.rs:162`);
  `ReconciledIsShown` therefore speaks of successful calls.
- After a save timed out, the next one may return its file
  (`replay_buffer.rs:172`).
- `ReAdd = TRUE` in `ObjectFilters`: a filter is added again while its removal
  is queued, the removal runs after, and `FiltersAreAttached` is violated.
- Markers are cleaned with the other entries in the directory's order, so a
  rebuild that is killed, or a marker that cannot be read, can leave a marked tree
  without its files: the markers that are `stale` in `BuildCache`. An extraction
  that passes over a file of `bin` marks a tree that lacks it (`holes`). `browser`
  and `remove_pdbs` are not part of the cache's key.
- After a panic libobs is shut down under the handles of a display, and the
  window's thread may still tell the destroyed display of a color space:
  `PreviewIsSafe` speaks of it only without a panic (`windows/mod.rs:58`).
- A stop that hears a failure returns before `deactivate` (`traits.rs:886`); a
  second one then finds the output active, asks and waits until its deadline:
  another case of `StopsAreHeard`.
- `save_atomic` ignores that the temporary file or the backup could not be removed
  (`scene_collection.rs:1286`, `:1291`), and it stays.
- The attempts of a failed replacement are missing from the report
  (`simple.rs:474`), and the failed output stays first in the registry.
- A restored order depends on positions that increase; a native failure leaves a
  partial scene; an edit during a capture may be half in it.
- `reset_video` says that it gives the video encoders the main video output
  again (`context.rs:338-341`) and does not. `any_output_active` is asked in
  calls of its own before the reset, so an output may start in between.
- The pairs of calls in `Apart` (see SceneGraph) violate `SceneIsManaged` when
  they overlap.

## Plan

Done: the runtime's slot and actor, its queues, transitions, outputs and their
configuration, replay saving, scenes and groups, signal hubs and what registers
them, preview displays, filters, settings of objects, generic settings, simple
outputs with fallback, the scene collection's editor, save and restore, the
build cache, provisioning at run time.

Next, in this order:

1. The Context's resets against running outputs; its registries of outputs.
2. The builders of streaming and replay outputs.
3. Abstract specifications: a first-in first-out server with cancellation for
   RuntimeActor, a register file for SceneCollectionSave.
4. Theorems: the two abstract specifications above, implemented.

## Not modelled

- The bindings and other generated code, some 17,000 of the implementation's
  lines: declarations without control.
- Logging, formatting and the texts of errors; geometry and floating point.
- The Windows helper and the procedure of a display's window.
- Native calls of one value each: sources, encoders, services, properties,
  conversions, sizes and visibility of displays. They hold no state here and
  have no order to get wrong.
- The rate of two byte counters (`stats.rs:170`), a pure function that its unit
  tests exercise.
- Item transforms and visibility; the Context's resets.
- Downloads, checksums and the layout of archives; the directory's own sync.
- The builders in `streaming.rs` and `replay.rs`, and the macros, except what
  the updaters' data starts from.

`PROJECT.json` lists each part with its reason.
