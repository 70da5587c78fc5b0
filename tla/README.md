# VynexOS: TLA+ models, model checking and proofs

VynexOS is a C++23 desktop runtime: a process that builds its services in one
place (the composition root), runs a frame loop on the main thread, and handles
every input event and notification on the threads of a task scheduler. This
directory holds TLA+ specifications of that core, configurations that check
them with TLC on small instances, and proofs that TLAPS checks for instances of
every size. `PROJECT.json` lists the components, the runs, the source lines of
each definition, the hazards each property is for, the findings and the
theorems.

Paths below are relative to the root of the repository.

## 1. The system

### Components, their state and their operations

| Component | Source | State | Operations |
|---|---|---|---|
| Task scheduler | `src/core/basic_task_scheduler.*` | queue, `is_running_`, mutex and condition variable, workers with stop tokens | `enqueue`, `worker_loop`, `shutdown` |
| Event bus | `src/core/in_memory_event_bus.hpp` | handlers by topic, shared mutex | `subscribe`, `publish` |
| Window manager | `src/desktop/basic_window_manager.*` | windows by id, z-order, focus, next id, last mouse state | `create_`, `destroy_`, `focus_`, `move_`, `resize_window`, surface, visibility, mouse handler, `build_scene` |
| Desktop shell | `src/apps/desktop_shell.*` | ids and surfaces of its three windows, launcher flag, notifications it draws, last mouse state | `launch`, `update_frame`, three event handlers |
| Notification service | `src/desktop/basic_notification_service.*` | next id, active notifications | `notify`, `dismiss` |
| Composition root | `src/bootstrap/` | a shared pointer to every component, `m_is_running` | constructor, `initialize`, `run`, `request_stop`, `shutdown`, destructor |
| Input drivers | `src/hal/sdl2_input_driver.cpp`, `mock_input_driver.cpp` | button mask, quit flag | `poll`, `is_shutdown_requested` |
| Plugin manager | `src/core/basic_plugin_manager.cpp`, `loaded_plugin.cpp`, `plugin_context*.cpp` | plugins by name, a life-cycle state each | `load_plugin`, `unload_plugin`, the callbacks of the ABI |
| Memory file system | `src/core/memory_file_system.cpp`, `memory_file_handle.cpp`, `vnode.hpp` | a tree of nodes, a lock for the tree and one per node, handles with cursors | `open`, `create`, `remove`, `stat`, `list_directory`, `create_directory`, `read`, `write`, `seek` |
| Virtual path | `src/core/virtual_path.cpp` | none (values) | normalisation, `parent`, `append` |
| File explorer | `src/apps/basic_file_explorer.cpp` | current path, listing, selected row | clicks on rows and on "Up", refresh |
| Application registry | `src/apps/application_registry.cpp` | factories, running applications | `register_application`, `launch`, `terminate`, `terminate_all` |
| Service manager | `src/core/basic_service_manager.hpp` | registered services | `register_service`, `start_all`, `stop_all` |
| IPC, configuration, logger, frame clock | `src/core/` | one map or one file each, under one lock | single critical sections |
| Display backends | `src/desktop/sdl2_display_backend.cpp`, `mock_display_backend.cpp` | an initialized flag; subsystem, window, renderer and texture of SDL | `initialize`, `flush_buffer`, `shutdown`, destructor |
| Compositor and surfaces | `src/desktop/basic_compositor.cpp`, `software_surface.cpp` | the framebuffer; pixels of a surface | `create_surface`, `render_frame`, `blend_surface` |
| Widget toolkit | `src/desktop/basic_widget_toolkit.cpp` | none | `draw_rect`, `_char`, `_text`, `_button`, `_panel` |
| HAL devices | `src/hal/mock_*.cpp` | a ramdisk; counters | `read_blocks`, `write_blocks`; constants |
| Library loaders | `src/hal/*_library_loader.cpp` | none | wrappers of `dlopen`, `LoadLibrary` |
| Terminal, demo application | `src/apps/` | a window each | `launch`, drawing |
| AI runtime, SDK, application manager | `include/vynexos/` | interfaces without an implementation | |
| Documentation generator, scripts | `tools/docs/`, `scripts/` | | build time only |

### How they interact

- The main thread polls the input driver, which calls `publish()` for each
  mouse event; `publish()` enqueues the dispatch as a task and returns.
- A worker runs the dispatch: with the bus locked shared it calls the handlers
  of the topic in the order they subscribed. For a mouse event that is the
  window manager (focus) and then the desktop shell (launcher button), which
  calls back into the window manager with its own mutex held.
- The main thread draws in `update_frame()`, under the mutex of the shell, and
  reads the windows in `build_scene()`, under the mutex of the window manager. The
  compositor blends the surfaces of that scene into its framebuffer, which the
  display backend presents. Applications paint their surfaces with the toolkit.
- `initialize()` registers and launches the file explorer with the application
  registry, which owns the instance; the root keeps a bare pointer to it for the
  frame loop. `run()` starts the services and `shutdown()` stops them.
- `load_plugin()` opens a shared library and calls its functions; these may
  schedule tasks that run later on the workers.
- The file explorer calls the file system, which any number of clients may use
  at the same time.
- The composition root holds every component by shared pointer; components
  hold each other by shared pointer, by reference or by bare pointer, and the
  closures given to `subscribe()` hold bare `this` pointers.

### What is hard

Workers run handlers of different events at the same time and may overtake each
other between taking a task and taking a lock; some fields are touched outside
every lock (`m_last_mouse_state` of window manager and shell, `is_running_`);
wakeups can be lost around a condition variable; shutdown races enqueue, is
called twice, and drains tasks while components go down; counters wrap around;
exceptions cross a loop over handlers; plugins fail half way through nine
steps and leave tasks behind; services and the display start half way; a
listing is stale before it is complete; the hit test and the compositor decide
separately which window is on top; rows are copied by computed indices.
Nothing is persisted and no message is lost or duplicated, so there is no
recovery to model. `PROJECT.json` lists each
hazard at its line.

## 2. The modules

    TaskPool            what the scheduler promises; every other module stands on it
    TaskScheduler       the scheduler, implements TaskPool
    TaskScheduler_proofs
    EventBus            the bus on TaskPool
    EventBus_proofs
    WindowStack         what the window manager promises
    WindowManager       the window manager, implements WindowStack
    WindowManager_proofs  of the window manager and of DesktopShell
    WidgetToolkit       drawing operations, symbolic pixels, surfaces
    Compositor          extends WindowManager with pictures and frames
    Compositor_proofs
    DesktopShell        extends WindowManager with shell, driver, frame loop and workers
    Notifications       service and shell on TaskPool
    Notifications_proofs
    PluginManager       loading, failing, unloading; plugin tasks on TaskPool
    PluginManager_proofs
    VirtualPath         paths as values: normalisation, parent, append
    FileTree            what the file system promises
    MemoryFileSystem    tree, nodes and handles; paths from VirtualPath; implements FileTree
    FileExplorer        extends MemoryFileSystem with one explorer
    FileExplorer_proofs   of paths, of the file system and of the explorer
    ServiceManager      starting and stopping the services
    ApplicationRegistry factories and instances
    DisplayBackend      what SDL gave and has to get back
    CompositionRoot     the three above, life times, frame loop and teardown on TaskPool
    CompositionRoot_proofs
    MC*                 constants for TLC

**TaskPool** is the abstract specification: a sequence of pending tasks and sets
of active, finished and refused ones; a task is accepted until the pool closes,
started in order, and the pool stops when it is closed and nothing is left.

**TaskScheduler** follows the code at the grain of its synchronisation. Each
caller has a counter `epc` (lock, the read of `is_running_`, push, notify after
unlock), each worker `wpc` (lock, take, asleep, run, exit), each `shutdown()` call
`spc` (compare-and-exchange, `request_stop()` per worker with the stop callback
of `condition_variable_any` as a step of its own, notify all, join). Waiting is
the set of workers that are asleep; spurious wakeups are a step. Tasks may call
`enqueue()` themselves. Standard-library behaviour (mutex, condition variable,
stop token) is modelled as documented by its users here.

**EventBus**: one dispatch per event, with `dpc` at the shared lock, in the loop or
in a handler; `subscribe()` waits for the exclusive lock; a handler may throw, and
the worker of the scheduler catches. Event payloads are left out.

**WindowManager** has one action per operation; the mouse handler is three steps,
since it reads and writes `m_last_mouse_state` before it takes the mutex. Windows
have title, position, size, visibility and surface. `m_next_id` counts modulo
`IdModulus` (2^32 in the code). `Scene` is `build_scene()`, the loop over the z-order, and
`IsLayer` its tests. `std::find` plus `erase` is the operator `Erase`.

**WindowStack** is one sequence: windows are opened on top, closed, raised. The map
of `ImplementsStack` is the z-order.

**WidgetToolkit**: a widget is the sequence of the calls of `draw_rect()` and
`draw_char()` it is made of, with the coordinates of the code. A pixel is
symbolic: the names of the colours mixed in it, topmost first, and whether its
alpha is 0, 255 or between, which is all the code tells apart. The font is a
constant.

**Compositor** blends the scene row by row with the index arithmetic and the fast
path of `blend_surface()`. Next to it stands the reference: what each pixel of the
display shows is determined directly from the drawings (`Drawn`, `Shown`), with no
rows, indices or clipping. Surfaces are painted once; which of them a window
shows, where and in which order is what the operations of WindowManager change.

**DesktopShell** runs on one main thread and a set of workers. The main thread
launches the desktop (three windows of the shell and one application), polls
mouse events, draws under `m_mutex` and then renders the scene as it is by that
time; workers take events and run the two
handlers, the one of the shell again step by step. Coordinates are those of
the code; `presses` counts where the driver's button goes down within the bounds of
the Vynex button, `toggles` what the handler makes of the events. `painted` are the
surfaces that are not blank, `blank` the frames in a row that showed a blank launcher.

**Notifications**: service and shell have one mutex each and every critical section
is one step; the events between them are tasks of the pool, handled in any
order the workers allow.

**CompositionRoot**: `refs` are the members that are not null, `Holds` the shared
pointers, `Uses` the references that components keep as members, and `Alive` the closure
of `refs` under `Holds`, with the share of the IPC framework that `run()` keeps in a local
variable. `Captured` are the subscribers whose bare `this` is in the closures of the bus.
`run()` is a counter `rpc`; the two ways down are `ShutdownOrder` and
`DestructionOrder`, followed one reset at a time; the scheduler drains at the end.
`shutdown()` has no guard in the code: in the model it is called by `main()` after `run()`
returned (`BeginTeardown`) or by another thread while `run()` is in its loop
(`ShutdownElsewhere`), as two tests do. A frame whose member is gone would go through a null
pointer; `FrameSafe` is where its behaviour is defined, and `run()` is followed that far.
Its parts are instances that work on variables of the root: **ServiceManager**
(a service is one step of the loop, and starts, fails or is stopped; the tree
registers none yet, so the list is a constant), **ApplicationRegistry** (`phase` is
the history of each application; `terminate()` has no caller and is left out) and
**DisplayBackend** (`resources` grow along `Chain`; `initialize()` fails after any
part of it). The calls `shutdown()` makes before a reset are actions of their own
that `CallsMade` waits for; the destructor makes only those of the members'
destructors.

**PluginManager**: `op` is the call that holds `m_mutex`, `subject` the plugin it works
on and `inside` the plugin function it is in; the transitions of `LoadedPlugin` are the
tables `Up` and `Down`. An operation is many steps, since plugin functions schedule
tasks and tasks run meanwhile. `zombie` are plugins that a client still holds after
they were unloaded. The plugin itself is external: its functions succeed or fail, and
anything of it schedules tasks from the call of `initialize()` on, which gives it the
context, for as long as its object lives (`HasContext`).

**VirtualPath**: a raw path is the sequence of its parts between separators and
whether it starts with '/'. `Normalize`, `Parent`, `AppendComponent` follow the code branch by
branch, as loops over the parts.

**MemoryFileSystem**: nodes are places that exist while a directory or a handle refers
to them (`InUse`), as the shared pointers of the code make them. Tree operations hold
the tree lock and handle operations the lock of their node from end to end, and
`create()` on an existing file takes both, the tree first: each is one step. `written` is a history
variable: which byte was written where since the file was last emptied.
`FsSpec` is the file system under any clients.

**FileTree** knows no nodes: directories are places (sequences of names from the root),
files are places with contents, and an open handle is at the place of its file, or at
none once the file was removed. Each operation touches one place. `ImplementsTree` maps
a place to the node a walk ends at, and a handle to the place its node has.

**FileExplorer** extends it: each call of the explorer into the file system is a step
(`xpc`), and any client may change the tree before the next one. A click is a point; `RowAt` is the
row the handler computes from it, `RowTop` where `render()` draws the row, and `Picture`
all that is drawn.

Definitions with a comment that starts with "Mutant" are faults put next to the
definition they would replace; each property of a run has one that it catches.

## 3. What the runs check

| Run | Instance | Shows |
|---|---|---|
| `scheduler` | 2 workers, 1 outside caller, 3 tasks, 2 `shutdown()` calls | order of execution (`Fifo`), nothing left after shutdown (`Drained`), refusals only when closing, no lost wakeup, silence after `shutdown()` returned, execution and termination under fairness, refinement of `TaskPool` |
| `bus` | 3 events on 2 topics, 3 subscriptions, 2 workers | handlers are called in order, from a vector that stays as it is under the loop (`LoopUndisturbed`), and none is missed (`NoSubscriberMissed`), dispatches and `subscribe()` complete |
| `windows` | 3 windows with 3 pictures over the edges of a display of 2 by 2 pixels, 1 mouse handler | map and z-order agree after any interleaving, refinement of `WindowStack`, whose topmost window has the focus; rows stay in the buffers and frames show each pixel of the scene (`FrameAgrees`), clicks go to the window shown (`ClickHitsWhatIsShown`) |
| `desktop` | 2 workers, 3 events at 3 places | events handled one by one toggle once per press and never on a drag (`TogglesFollowPresses`), `LauncherAgrees`, wallpaper and taskbar are drawn in every frame and the launcher is blank in no two in a row (`ShownIsDrawn`), the wallpaper stays at the bottom and the focus goes to no hidden window (`BackgroundStays`), `EventsHandled` |
| `notifications` | 3 notifications, 2 workers | no active notification is lost, a shown one that is dismissed goes away for good |
| `root` | 1 event, 2 services, 1 application, 2 workers, with and without SDL, both ways down, `shutdown()` also during `run()` | members that are references or bare pointers stay valid (`ReferencesLive`), resets destroy (`ResetDestroys`), the scheduler closes last (`NothingRefused`), services are stopped and their cleanup tasks executed (`ServicesStopped`), the display gives back what it took (`DisplayReleased`), applications end in order (`AppsEndInOrder`), quit and stop are obeyed |
| `plugins` | 2 libraries of one name, 1 unfit, 1 task each, 1 worker | every plugin lives one of the lives of the framework document (`LifecycleKept`), failed loads are undone (`NothingLeftBehind`), no two plugins of one name live at once (`OneOfAName`), operations end though plugin functions may wait for tasks |
| `files` | 2 names, 2 nodes below the root, 2 handles, files of 2 bytes, 1 explorer | the tree stays a tree and loses leaves only (`TreeKept`), spellings of a path agree (`PathsAgree`, against a walk by parts) and `parent()` is one more "..", erased bytes stay erased and gaps are empty (`NothingResurrected`), refinement of `FileTree` (`ImplementsTree`), rows belong to the directory shown (`RowsBelong`) and are clicked where they are drawn, and are exact if nobody interferes (`QuietRowsExact`) |

### Findings

These runs check a sentence of the repository that the code does not keep, and
TLC prints the behaviour.

- `bus_throw`: `event_bus.hpp:29` says the bus continues with the other handlers
  when one throws; the exception leaves the loop.
- `desktop_drag`: `INC-0003_Runtime_Rendering_Defect.md:30` says toggles only
  happen on the press; with two workers a press and a motion of the same drag
  can both read the old state and both toggle.
- `root_drain`: `Event Bus.md:23` asks subscribers to outlive their closures;
  `shutdown()` destroys shell, window manager and bus before the scheduler drains
  the dispatches that point to them.
- `plugins_tasks`: `0.3.0_Extension_Framework.md:39` says a failed start-up safely
  tears down the partial state; a task that the plugin scheduled runs after its
  library is gone. `unload_plugin()` does the same.

Remarks without a run: ids are not "unique, monotonically increasing" (`Window
Manager.md:12`) once the 32-bit counter wraps to 0 and to ids in use; `subscribe()` waits
for running handlers although `event_bus.hpp:19` calls it non-blocking; `test_desktop_shell.cpp:86-94`
publishes a second event with the button down and no release between, and asserts that it
toggles; the code takes it for a drag, as `INC-0003_Runtime_Rendering_Defect.md:30` and
`v0.6.0_Phase_3_Verification.md:14` want it, and `TogglesFollowPresses` is what these two
say. The bounds of the button are inclusive, so that a press at x = 90 or y = 1075 toggles
one pixel outside of what is drawn. `test_sdl_integration.cpp:232` and
`test_runtime_bug.cpp:39` call `shutdown()` while `run()` may be in a frame, and the frame
then goes through a member that was reset: `FrameSafe` is no invariant. What the teardown
promises holds then too and is checked with that step; `QuitEndsProgram` and `StopEndsRun`
except such a frame. Only `shutdown()` stops services: a root that is destroyed without it leaves them
as they are. The hit test counts the right and bottom edge of a window as
inside, where nothing of it is drawn, and it goes by the size of the window, where the
compositor draws the whole surface, which may be larger; `ClickHitsWhatIsShown` leaves
these places out. For a window that lies wholly beside the display `end_x - start_x` is negative and the row
counts as opaque, so that `memcpy` gets a huge length: no window is created there
and nothing calls `move_window()`, which is the assumption `WindowsReachDisplay`. A
translucent colour on a transparent surface is weighted with its alpha by the
toolkit and once more by the compositor; nothing in the tree draws one. The
status bar of the explorer covers most of the fourteenth row and the surface ends
there, while rows further down can still be clicked. `terminate()` of the registry would leave the pointer the frame
loop keeps dangling; nothing calls it. The bounds check of the block device
wraps around for blocks next to 2^64, and nothing reads the device. A
dismissal that overtakes its show event leaves the notification on the screen:
`ShownGoesAway` therefore speaks of notifications that are shown.

### Bounds

`MaxCreates`, `MaxEvents`, `MaxNotifications`, `IdModulus` and the sets of tasks and events
bound what is finite in a run; every one is a constant of its module. Two
workers are enough for each race above, which are all between two threads;
three tasks let one wait, one run and one be enqueued by another; three windows
let the middle one be raised or closed; three mouse events are a press, a motion
and a release. The id counter of `windows` does not wrap; its display of 2 by 2 pixels and the
windows that reach over its left, right, top and bottom edge have every kind of
clipped row, with one, two or no opaque pixels in it; one picture is larger than its
window and one smaller. The three places of `desktop` are the last pixel that counts as
button, one on the launcher and one on the wallpaper. One event of the driver is enough
for `root`, whose tasks do nothing to the members (`root_drain` has two); one task per
plugin and one worker for `plugins`, where two libraries share a name (`plugins_tasks`
has two). Two services let
the first or the second fail; one application is what the tree launches. Two nodes below the root are
a directory with a file in it, two entries of one directory, or a file that was removed
while open and its successor; two handles let one empty the file under the other. What is
in the files does not concern the explorer and its calls do not touch the files, so
`files` explores contents and cursors until the explorer has started, and the explorer
among clients that write nothing after that (`WrittenBeforeStart`). Only `files` uses
symmetry, of nodes and of handles; it checks no liveness.
Deadlock is checked everywhere; finished behaviours stutter by an action `Terminated` where the system ends.

### Fairness

Workers, callers inside `enqueue()`, and threads inside `shutdown()` keep running
when they can (weak fairness of their steps): they are operating-system
threads. Nothing obliges anyone to publish, to call `shutdown()` or to move the
mouse. A function of a plugin may wait for tasks of the plugin, so it is certain to return
only once there are none (weak fairness of `OperationGoesOn`). Locks held for a bounded time need no more, except one: `Toggle` has
strong fairness, since the main thread takes the same mutex in each frame; it
sleeps outside the lock for the rest of the frame (`FrameClock`), which is when a
waiting worker gets it. `SubscribeCompletes` depends on the events being finitely
many: `std::shared_mutex` promises a writer nothing against new readers.

## 4. What is proved

`TaskScheduler_proofs` proves for any finite or infinite set of tasks, callers and
stoppers and any `thread_count`, 0 included:

- `Invariance`: `Spec => []Inv`. `Inv` is the inductive invariant. The safety
  properties alone are not inductive: that no wakeup is lost depends on who owns
  the mutex while a worker is between its test and its sleep (`MutexInv`,
  `ArgInv`), on which worker executes which job (`JobInv`), on workers leaving only
  with their stop requested and the queue empty (`ExitInv`), and on which of the
  `shutdown()` calls won and how far it is (`StopperInv`).
- from it `TypeCorrect`, `FifoOrder`, `ExecutedOnce`, `DrainGuarantee`, `RefusalIsFinal`,
  `WakeupsArrive`, `StopsArrive` and `QuietThereafter`;
- `Refinement`: `Spec => Pool!Spec`, step by step, each step of the scheduler being
  one of `TaskPool` or a stutter.

`EventBus_proofs` proves for any events, topics, subscriptions, throwing handlers and
number of workers: `Invariance`, `TypeCorrect`, `HandlersHeld` (`LoopUndisturbed`) and
`NobodyMissed` (`NoSubscriberMissed`). `NoSubscriberMissed` alone is not inductive: a
dispatch that ends has called all handlers of the vector as it is then, so the
invariant adds that the vector is at least as long as when the event was published
(`KnownInv`), that a task waits in the queue once and is not running, and that only
running dispatches are in the loop or in a handler (`DispatchInv`). `InOrder`, a part of the
invariant, rests on `HandlersGrow` (whatever step, the old vector is a prefix of the new
one) and on `NextOfPrefix`; that no vector changes under a loop, on `readers` being the
dispatches in their loops.

`WindowManager_proofs` proves for any titles, positions, sizes, events and number of
concurrent handlers, under the assumption `NoWrap` that fewer windows are created
than there are ids: `Invariance`, `TypeCorrect`, `ZOrderCorrect` and `FocusCorrect`
(`FocusOnTop`, which no run checks by itself: `ImplementsStack` contains it). The
invariant adds that live ids are those handed out and lie below the counter. The
z-order lemmas (`OccursOnce`, `EraseShape`, `Raised`, `AppendNew` and the ones on
`Stacked`) say what find-erase-append does to a sequence of distinct ids; the steps
of `create_window`, `destroy_window`, `focus_window` and of a click follow from them.
`Refinement` is `Spec => ImplementsStack`: the order relation that a sequence stands
for (`Order`) gains a maximum by an append and loses the pairs of an element by an
erase (`AppendOrder`, `EraseOrder`), so each step opens, closes or raises a window
of `WindowStack` or is a stutter.

The same module proves the desktop shell, which runs on these operations:
`LauncherAgreement`, `FramesAreDrawn`, `WallpaperStays`, `DesktopTypeCorrect` and
`PressesToggle`. The invariant `DesktopInv` says how far `launch()` is and which ids it got
(`LaunchInv`), that who stands between the two assignments of a toggle holds the
mutex and that the launcher is shown after an odd number of toggles (`LauncherInv`), what
`update_frame()` has drawn before the frame that shows it, and that a launcher which was
blank in a frame is drawn before the next (`FrameInv`), and that the wallpaper is at the
bottom. `WallpaperStays` is the action property `BackgroundStays`: the focus changes only by
a click, which goes to a window that is shown (`FocusIsShown`). `PressesToggle` counts: the
toggles made and the presses still queued or under way are the presses published
(`PressInv`), which only holds while events are handled one after the other.

`Notifications_proofs` proves `NoNotificationLost` (`NoneLost`) and `DismissedForGood`, an
action property: what left the screen does not come back. An event is handled
once (`EventInv`), carries an id that was given and, if it is a dismissal, one that is
no longer active (`PublishedInv`), and what is drawn was shown (`ShownInv`). The erase
keeps the order by dense ranks (`RanksAreDense`, `WithoutElems`).

`PluginManager_proofs` proves for any libraries, defects, workers and plugin tasks
`OrderOfCalls` (`LifecycleKept`), `PartialStateUndone` (`NothingLeftBehind`) and
`NamesLiveOnce` (`OneOfAName`). The invariant: each plugin is in a state that fits
the operation under way (`PhaseInv`), the function being called is the next one of that state
(`InsideInv`), what was called and what is still to be called make up a
life (`LifeInv`, the core of it). `NamesLiveOnce` follows since who lives is registered or
worked on, no two of one name are registered, and a load goes on only where the name is
free.

`CompositionRoot_proofs` proves `FoundationsOutlive` (`ReferencesLive`), `OrderOfDestruction`
(`ResetDestroys`), `SchedulerClosesLast` (`NothingRefused`), `ServicesAreStopped`, `DisplayIsReleased` and the action
property `AppsEnd` (`AppsEndInOrder`) for any events, services, applications and workers,
with and without SDL, and whether `shutdown()` is called after `run()` or by another thread
during it. `ReferencesLive` is about references and bare pointers kept as members; the
closures of the bus are not among them, and `root_drain` shows that theirs dangle. That the
two orders of teardown are sound is a fact about the lists
of members alone: everything that holds a member goes before it (`Sound`), hence what is
left after any prefix is closed under what it uses (`Left`, `Closed`). The rest of the
invariant ties `rpc`, the pool, the services, the applications and the display to how
far `initialize()`, `run()` and the teardown have come (`RunInv`, `ResetInv`, `PoolInv`, `StopInv`,
`AppInv`).

`FileExplorer_proofs` proves the paths, the file system and the explorer, for any names,
paths, nodes, handles, clients and clicks:

- `NormalFormsStay`, `NormalizeWalks`, `SpellingsAgree`: `normalize()` is idempotent and names
  the place where a walk by the parts ends, and `parent()` is what one more ".." makes of a
  path that is not empty, also of a relative one (`ParentIsUp`). The loops of the code are recursive
  functions; `LoopExists` and `UpTo` give their values iteration by iteration.
- `ParentHolds`: `resolve_parent_internal()` and `resolve_node_internal()` agree.
- `ContentsHonest` (`NothingResurrected`) and `TreeStays` (`TreeKept`), from `FsInv`. A tree is not
  inductive as "everything is reachable"; `FsInv` says instead that an unused place is blank,
  only directories hold nodes, each node is held once, and no set of nodes hangs
  on itself (`Rooted`). That as many iterations as there are nodes reach everything
  follows by counting (`AllReached`).
- `Refinement` is `FsSpec => ImplementsTree`. Every walk by names ends where the one
  without its last name has that child, or nowhere (`Steps`); no two walks end at the same
  node (`WaysDiffer`), since each node is held once and the root by none; so the nodes along
  a walk differ, and no walk is as long as there are nodes (`WaysEnd`). When one directory
  gets a child or loses one that holds nothing, one walk changes its end (`OnePlaceChanges`).
  Every spelling of a path leads to a place and its parent to the place before
  (`PathPlace`, `ParentPlace`). With these each operation is shown to be one of
  `FileTree` or a stutter: a new node has no place before, since a node that a handle still
  holds is not taken for it, and what the last reference takes along had no place.
- `ClientsUseTree`: `Spec => FsSpec`. The explorer only reads, so all of this holds below it.
- `RowsAreOfOneDirectory` (`RowsBelong`), `QuietListing` (`QuietRowsExact`), from `ExplorerInv`:
  current path and target are normal forms (`SettledInv`), so a row is the directory's
  path with a name added, whatever the others do to the tree (`ListedInv`); rows and
  names still to be looked at are in order until the sort (`WaitingInv`, `SortedIs`);
  and as long as nobody changes the tree they make up the directory (`QuietInv`). Handles
  that are closed may take nodes with them, but none the explorer can see (`EndsStay`).
  Of the picture, only the bar of the selected row has its colour (`LitPicture`), and a
  click anywhere on it is a click on that row (`RowAtTop`).

`Compositor_proofs` proves three theorems, for a display of any size, surfaces of any
sizes with any drawings, and any calls and clicks:

- `CopiesInside`: no row of a window is read or written outside the buffers and none is
  copied with a negative length (`CopiesFit`). It rests on the invariant of the window
  manager, which keeps every window at one of `Positions`, on `WindowsReachDisplay`, on
  what clipping leaves (`ClippedInside`) and on the order of rows in a buffer
  (`RowInBuffer`, `StretchInBuffer`).
- `FramesShowWindows` (`FrameAgrees`): each pixel of a frame is what the windows there
  show. The argument follows the code from the inside out: a pixel has one number
  (`NumberOnce`), so `draw_rect()` and `draw_char()` change the pixels they cover and no
  other (`DrawRectIs`, `DrawCharIs`), and a painted surface is, pixel by pixel, what the
  calls drew there (`PaintIs`); copying an opaque row is blending it (`OpaqueOver`), so
  a blended row, and a blended surface, lays its pixels over those it covers and leaves
  the others (`BlendRowIs`, `BlendSurfaceIs`); the scene is the z-order without the
  windows that are no layers, in the same order (`SceneIs`), so blending the scene and
  going through the z-order at one pixel are the same (`FrameIs`).
- `ClicksHitTheirTarget` (`ClickHitsWhatIsShown`): the window the hit test stops at is
  opaque at the pixel and no layer above it has the pixel (`HitIsShown`).

The named assumptions on constants (`...Assumption`) are evaluated by every run of a
module that extends theirs. The type invariant of every component is proved with its
inductive invariant; the runs check deeper invariants, which would fail or not
evaluate on a state of the wrong type.

Only model-checked: all liveness (fairness and `ENABLED` are outside the prover),
such as `ShownGoesAway`. Facts that need induction over data with an operator as
parameter, or recursive
operators, are outside the prover, as is the expansion of `SelectSeq` and `FoldLeft`; loops
that proofs are about are therefore written as recursive functions.

## 5. Not modelled, and the plan

Left out for good: what colours look like and how they are rounded, the table of
the font, the text of labels and logs, the frame clock's sleep, the stubs (IPC, audio,
network, compute, AI), the block device that nothing reads, the wrappers of the
dynamic loader, interfaces without code, and build-time Python. Left out because
nothing calls it: `terminate()` of the registry, `extension()` of a path.

Nothing of the plan is left. Worth adding are promises of other components in the form of
`TaskPool`, `WindowStack` and `FileTree`: of the bus, a sequence of handlers that each event
is delivered to; of the plugin manager, a life for each plugin.
