--------------------------- MODULE CompositionRoot ---------------------------
(***************************************************************************)
(* CompositionRoot: it constructs the components, runs the frame loop on   *)
(* the main thread and takes the components down, either in the order of   *)
(* shutdown() or, when that was never called, in reverse order of          *)
(* declaration.  Members are shared pointers: a component lives as long as *)
(* the root or a living component holds it.  The scheduler's workers run   *)
(* the dispatches of the events the driver published; a dispatch uses the  *)
(* bus and the objects that subscribed by their bare addresses.  Another   *)
(* thread may call shutdown() while run() is in its loop; run() is followed *)
(* until it would use a member that was reset.  What the root does with    *)
(* three of the components is in modules of their own: the service         *)
(* manager, the application registry and the display backend.              *)
(***************************************************************************)
EXTENDS Integers, Sequences, FiniteSets

CONSTANTS
  Events,      \* mouse events the driver can find in poll()
  ThreadCount, \* workers of the scheduler
  Registered   \* the services registered with the service manager, in order

RegisteredSet == {Registered[i] : i \in DOMAIN Registered}

ASSUME CompositionRootAssumption ==
  /\ ThreadCount \in Nat \ {0}
  /\ Registered \in Seq(RegisteredSet)
  /\ Events \cap RegisteredSet = {}

VARIABLES
  pending, active, finished, refused, closing, stopped,  \* the scheduler
  refs,            \* the members of the root that are not null
  m_is_running,
  quit,            \* the driver's m_shutdown_requested
  rpc,             \* where run() is
  teardown,        \* the order being followed, <<>> before any
  down,            \* how many of its components are reset
  stop_seen,       \* history: request_stop() found the loop running
  service, visited,                    \* the service manager
  m_factories, m_running_apps, phase,  \* the application registry
  app_desc,        \* the root's own m_running_apps: bare pointers
  sdl, m_initialized, resources        \* the display backend

\* What initialize() registers and launches.
AppNames == {"BasicFileExplorer"}

\* A service may leave a cleanup task when it is stopped; it goes by its name.
Pool == INSTANCE TaskPool WITH Tasks <- Events \cup RegisteredSet
Manager == INSTANCE ServiceManager WITH m_services <- Registered
Registry == INSTANCE ApplicationRegistry WITH Apps <- AppNames
Display == INSTANCE DisplayBackend

poolVars == <<pending, active, finished, refused, closing, stopped>>
runVars == <<m_is_running, quit, rpc, stop_seen>>
downVars == <<teardown, down>>
serviceVars == <<service, visited>>
appVars == <<m_factories, m_running_apps, phase, app_desc>>
displayVars == <<sdl, m_initialized, resources>>
partVars == <<serviceVars, appVars, displayVars>>
vars == <<poolVars, refs, runVars, downVars, partVars>>

\* The members, in order of declaration.
Members ==
  << "logger", "task_scheduler", "event_bus", "config_manager",
     "service_manager", "ipc_framework", "display_backend", "compositor",
     "window_manager", "widget_toolkit", "input_driver", "demo_app",
     "desktop_shell", "terminal", "plugin_manager", "audio_driver",
     "compute_driver", "network_adapter", "block_device", "hardware_clock",
     "notification_service", "vfs", "app_registry", "running_apps" >>

Components == {Members[i] : i \in DOMAIN Members}

\* The shared pointers of a component.
Holds(c) ==
  CASE c \in {"display_backend", "audio_driver", "compute_driver",
              "network_adapter", "block_device", "hardware_clock",
              "service_manager"} -> {"logger"}
    [] c \in {"window_manager", "input_driver", "notification_service"} ->
         {"event_bus", "logger"}
    [] c = "compositor" -> {"display_backend", "logger"}
    [] c \in {"demo_app", "terminal"} ->
         {"window_manager", "compositor", "widget_toolkit"}
    [] c = "desktop_shell" ->
         {"window_manager", "compositor", "widget_toolkit", "event_bus"}
    [] c = "plugin_manager" -> {"logger", "event_bus", "config_manager"}
    [] c = "app_registry" -> {"vfs", "widget_toolkit"}
    [] OTHER -> {}

\* The references and bare pointers a component keeps as members: they keep
\* nothing alive.
Uses(c) ==
  CASE c = "task_scheduler" -> {"logger"}
    [] c \in {"event_bus", "plugin_manager"} -> {"task_scheduler"}
    [] OTHER -> {}

\* What a component keeps alive: no chain of shared pointers is longer than
\* three.
WithHeld(cs) == cs \cup UNION {Holds(c) : c \in cs}
KeptAlive == [c \in Components |-> WithHeld(WithHeld(WithHeld({c})))]

\* run() keeps a share of the IPC framework in a local variable.
Looping == {"loop", "poll", "update", "render"}
RunHolds == IF rpc \in Looping THEN {"ipc_framework"} ELSE {}
Alive == UNION {KeptAlive[c] : c \in refs \cup RunHolds}

\* The closures subscribed to HAL_INPUT_MOUSE capture a bare "this"; a dispatch
\* runs them in the bus.
Captured == {"window_manager", "desktop_shell"}
DispatchUses == {"event_bus"} \cup Captured

\* The members a frame uses, by the stage it is in.
FrameUses ==
  [poll |-> {"input_driver"},
   update |-> {"desktop_shell", "terminal", "demo_app", "running_apps"},
   render |-> {"window_manager", "compositor"}]

\* The frame finds what it uses.  Where it does not, run() calls through a null
\* pointer: its behaviour is undefined and it is followed no further.
FrameSafe == rpc \in DOMAIN FrameUses => FrameUses[rpc] \subseteq refs

\* Mutant: the toolkit goes before the applications.
ShutdownOrderToolkitFirst ==
  << "service_manager", "notification_service", "hardware_clock",
     "block_device", "network_adapter", "compute_driver", "audio_driver",
     "plugin_manager", "widget_toolkit", "running_apps", "app_registry",
     "terminal", "desktop_shell", "demo_app", "vfs", "window_manager",
     "input_driver", "compositor", "display_backend", "ipc_framework",
     "config_manager", "event_bus", "task_scheduler", "logger" >>

\* Mutant: the logger goes before the scheduler.
ShutdownOrderLoggerFirst ==
  << "service_manager", "notification_service", "hardware_clock",
     "block_device", "network_adapter", "compute_driver", "audio_driver",
     "plugin_manager", "running_apps", "app_registry", "terminal",
     "desktop_shell", "demo_app", "vfs", "widget_toolkit", "window_manager",
     "input_driver", "compositor", "display_backend", "ipc_framework",
     "config_manager", "event_bus", "logger", "task_scheduler" >>

\* Mutant: the service manager goes after the scheduler.
ShutdownOrderServicesLast ==
  << "notification_service", "hardware_clock", "block_device",
     "network_adapter", "compute_driver", "audio_driver", "plugin_manager",
     "running_apps", "app_registry", "terminal", "desktop_shell", "demo_app",
     "vfs", "widget_toolkit", "window_manager", "input_driver", "compositor",
     "display_backend", "ipc_framework", "config_manager", "event_bus",
     "task_scheduler", "service_manager", "logger" >>

ShutdownOrder ==
  << "service_manager", "notification_service", "hardware_clock",
     "block_device", "network_adapter", "compute_driver", "audio_driver",
     "plugin_manager", "running_apps", "app_registry", "terminal",
     "desktop_shell", "demo_app", "vfs", "widget_toolkit", "window_manager",
     "input_driver", "compositor", "display_backend", "ipc_framework",
     "config_manager", "event_bus", "task_scheduler", "logger" >>

\* The destructor, with no shutdown() before it.
DestructionOrder ==
  [i \in DOMAIN Members |-> Members[Len(Members) + 1 - i]]

Gone == teardown # <<>> /\ down = Len(teardown)
Falling == teardown[down + 1]

TypeOK ==
  /\ Pool!Known \subseteq Events \cup RegisteredSet
  /\ pending \in Seq(Events \cup RegisteredSet)
  /\ closing \in BOOLEAN /\ stopped \in BOOLEAN
  /\ refs \subseteq Components
  /\ m_is_running \in BOOLEAN /\ quit \in BOOLEAN /\ stop_seen \in BOOLEAN
  /\ rpc \in {"new", "display", "apps", "ready", "started", "loop", "poll",
              "update", "render", "returned"}
  /\ teardown \in {<<>>, ShutdownOrder, DestructionOrder}
  /\ down \in 0 .. Len(teardown)
  /\ service \in [Manager!Places -> {"registered", "running", "failed", "stopped"}]
  /\ visited \in 0 .. Len(Registered)
  /\ m_factories \subseteq AppNames /\ app_desc \subseteq AppNames
  /\ m_running_apps \in Seq(AppNames)
  /\ phase \in [AppNames -> {"none", "rejected", "started", "shutdown", "destroyed"}]
  /\ sdl \in BOOLEAN /\ m_initialized \in BOOLEAN

\* The constructor.
Init ==
  /\ Pool!Init
  /\ refs = Components
  /\ Manager!ServiceInit /\ Registry!RegistryInit /\ app_desc = {}
  /\ Display!DisplayInit
  /\ m_is_running = FALSE /\ quit = FALSE /\ stop_seen = FALSE
  /\ rpc = "new"
  /\ teardown = <<>> /\ down = 0

-----------------------------------------------------------------------------
(* initialize() and run() *)

\* A display or driver that fails to initialize is logged and kept.
InitializeDisplay ==
  /\ rpc = "new" /\ teardown = <<>>
  /\ Display!InitializeDisplay
  /\ rpc' = "display"
  /\ UNCHANGED <<poolVars, refs, m_is_running, quit, stop_seen, downVars,
                 serviceVars, appVars>>

RegisterApps ==
  /\ rpc = "display"
  /\ Registry!RegisterApplication("BasicFileExplorer")
  /\ rpc' = "apps"
  /\ UNCHANGED <<poolVars, refs, m_is_running, quit, stop_seen, downVars,
                 serviceVars, app_desc, displayVars>>

\* The frame loop will use the last application launched, if there is one.
LaunchApps ==
  /\ rpc = "apps"
  /\ \/ /\ Registry!Launch("BasicFileExplorer")
        /\ app_desc' = {m_running_apps'[Len(m_running_apps')]}
     \/ Registry!LaunchFails("BasicFileExplorer") /\ UNCHANGED app_desc
  /\ rpc' = "ready"
  /\ UNCHANGED <<poolVars, refs, m_is_running, quit, stop_seen, downVars,
                 serviceVars, displayVars>>

\* start_all() succeeds, or run() returns at the first service that fails.
StartServices ==
  /\ rpc = "ready" /\ teardown = <<>>
  /\ \/ Manager!AllStarted /\ rpc' = "started" /\ UNCHANGED serviceVars
     \/ Manager!StartService /\ UNCHANGED rpc
     \/ Manager!StartFails /\ rpc' = "returned"
  /\ UNCHANGED <<poolVars, refs, m_is_running, quit, stop_seen, downVars,
                 appVars, displayVars>>

\* A request_stop() that came before is overwritten.
RunActive ==
  /\ rpc = "started"
  /\ m_is_running' = TRUE
  /\ rpc' = "loop"
  /\ UNCHANGED <<poolVars, refs, quit, stop_seen, downVars,
                 partVars>>

\* Mutant: the loop runs until the driver reports the shutdown.
LoopTestQuit ==
  /\ rpc = "loop"
  /\ rpc' = "poll"
  /\ UNCHANGED <<poolVars, refs, m_is_running, quit, stop_seen, downVars,
                 partVars>>

LoopTest ==
  /\ rpc = "loop"
  /\ rpc' = IF m_is_running THEN "poll" ELSE "returned"
  /\ UNCHANGED <<poolVars, refs, m_is_running, quit, stop_seen, downVars,
                 partVars>>

\* The driver finds a mouse event, which the bus turns into a task ...
PollMouse(e) ==
  /\ rpc = "poll" /\ FrameSafe
  /\ Pool!Accept(e) \/ Pool!Refuse(e)
  /\ UNCHANGED <<refs, runVars, downVars, partVars>>

\* ... or the request to shut down.
PollQuit ==
  /\ rpc = "poll" /\ FrameSafe /\ ~quit
  /\ quit' = TRUE
  /\ UNCHANGED <<poolVars, refs, m_is_running, rpc, stop_seen, downVars,
                 partVars>>

\* Mutant: the request to shut down does not end the loop.
PollReturnsDeaf ==
  /\ rpc = "poll" /\ FrameSafe
  /\ rpc' = "update"
  /\ UNCHANGED <<poolVars, refs, m_is_running, quit, stop_seen, downVars,
                 partVars>>

PollReturns ==
  /\ rpc = "poll" /\ FrameSafe
  /\ rpc' = IF quit THEN "returned" ELSE "update"
  /\ UNCHANGED <<poolVars, refs, m_is_running, quit, stop_seen, downVars,
                 partVars>>

\* The frames of the shell and of the applications; then the scene is drawn and
\* presented, or dropped.
Update ==
  /\ rpc = "update" /\ FrameSafe
  /\ rpc' = "render"
  /\ UNCHANGED <<poolVars, refs, m_is_running, quit, stop_seen, downVars,
                 partVars>>

Render ==
  /\ rpc = "render" /\ FrameSafe
  /\ Display!Flush \/ Display!FlushFails
  /\ rpc' = "loop"
  /\ UNCHANGED <<poolVars, refs, m_is_running, quit, stop_seen, downVars,
                 serviceVars, appVars>>

\* By any thread, as long as there is a root and a logger to write to.
RequestStop ==
  /\ "logger" \in refs /\ teardown # DestructionOrder
  /\ stop_seen' = (stop_seen \/ m_is_running)
  /\ m_is_running' = FALSE
  /\ UNCHANGED <<poolVars, refs, quit, rpc, downVars, partVars>>

-----------------------------------------------------------------------------
(* shutdown(), the destructor, and the workers *)

\* main() calls initialize(), run() and shutdown() one after the other; a root
\* that leaves its scope is destroyed.
BeginTeardown ==
  /\ teardown = <<>>
  /\ \/ rpc = "returned" /\ teardown' = ShutdownOrder /\ Manager!StopBegins
     \/ /\ rpc \in {"new", "ready", "returned"}
        /\ teardown' = DestructionOrder /\ UNCHANGED serviceVars
  /\ UNCHANGED <<poolVars, refs, runVars, down, appVars, displayVars>>

\* Another thread calls shutdown() while run() is in its loop.
ShutdownElsewhere ==
  /\ teardown = <<>> /\ rpc \in Looping
  /\ teardown' = ShutdownOrder /\ Manager!StopBegins
  /\ UNCHANGED <<poolVars, refs, runVars, down, appVars, displayVars>>

InShutdown == teardown = ShutdownOrder /\ ~Gone
Reaches(c) == teardown # <<>> /\ ~Gone /\ Falling = c

\* stop_all(), before the first reset of shutdown(): a service may enqueue a
\* last task.
StopServices ==
  /\ InShutdown /\ Reaches("service_manager")
  /\ Manager!StopService
  /\ LET s == Registered[visited]
     IN Pool!Accept(s) \/ Pool!Refuse(s) \/ UNCHANGED poolVars
  /\ UNCHANGED <<refs, runVars, downVars, appVars, displayVars>>

\* terminate_all(), called by shutdown() or by the destructor of the registry.
TerminateApps ==
  /\ Reaches("app_registry") /\ m_running_apps # <<>>
  /\ Registry!ShutdownApp \/ Registry!ClearApps
  /\ UNCHANGED <<poolVars, refs, runVars, downVars, serviceVars, app_desc,
                 displayVars>>

ShutdownDisplay ==
  /\ InShutdown /\ Reaches("display_backend") /\ m_initialized
  /\ Display!ShutdownDisplay
  /\ UNCHANGED <<poolVars, refs, runVars, downVars, serviceVars, appVars>>

\* The calls that come before the reset of c have been made.
CallsMade(c) ==
  CASE c = "service_manager" -> InShutdown => Manager!AllStopped
    [] c = "app_registry" -> m_running_apps = <<>>
    [] c = "display_backend" -> InShutdown => ~m_initialized
    [] OTHER -> TRUE

\* The shutdown() of the other devices only logs.
Reset ==
  /\ teardown # <<>> /\ ~Gone /\ Falling # "task_scheduler"
  /\ CallsMade(Falling)
  /\ refs' = refs \ {Falling}
  /\ down' = down + 1
  /\ app_desc' = IF Falling = "running_apps" THEN {} ELSE app_desc
  /\ UNCHANGED <<poolVars, runVars, teardown, serviceVars, m_factories,
                 m_running_apps, phase>>
  /\ IF "display_backend" \in Alive /\ "display_backend" \notin Alive'
       THEN Display!DestroyDisplay ELSE UNCHANGED displayVars

\* The scheduler refuses tasks, drains its queue, joins its workers and goes.
CloseScheduler ==
  /\ Reaches("task_scheduler")
  /\ Pool!Close
  /\ UNCHANGED <<refs, runVars, downVars, partVars>>

StopScheduler ==
  /\ Pool!Stop
  /\ refs' = refs \ {"task_scheduler"}
  /\ down' = down + 1
  /\ UNCHANGED <<runVars, teardown, partVars>>

StartDispatch ==
  /\ Cardinality(active) < ThreadCount
  /\ Pool!Start
  /\ UNCHANGED <<refs, runVars, downVars, partVars>>

FinishDispatch(t) ==
  Pool!Finish(t) /\ UNCHANGED <<refs, runVars, downVars, partVars>>

Terminated == Gone /\ UNCHANGED vars

-----------------------------------------------------------------------------
Tasks == Events \cup RegisteredSet

Run ==
  \/ InitializeDisplay \/ RegisterApps \/ LaunchApps \/ StartServices
  \/ RunActive \/ LoopTest \/ PollReturns \/ Update \/ Render

TearDown ==
  \/ BeginTeardown \/ Reset \/ CloseScheduler \/ StopScheduler
  \/ StopServices \/ TerminateApps \/ ShutdownDisplay

Environment ==
  \/ RequestStop \/ ShutdownElsewhere
  \/ PollQuit \/ \E e \in Events : PollMouse(e)

Work == StartDispatch \/ \E t \in Tasks : FinishDispatch(t)

Next == Run \/ TearDown \/ Environment \/ Work \/ Terminated

Spec == Init /\ [][Next]_vars

\* The main thread goes on; workers take what is queued and finish it.
FairSpec ==
  /\ Spec
  /\ WF_vars(Run) /\ WF_vars(TearDown)
  /\ WF_vars(StartDispatch) /\ \A t \in Tasks : WF_vars(FinishDispatch(t))

-----------------------------------------------------------------------------
(* Properties *)

\* The logger and the scheduler outlive what keeps a reference to them, and the
\* root's list has bare pointers to applications that are started and not yet
\* shut down only: on both ways down, whoever calls shutdown(), and also while
\* run() is still in its loop.  The "this" in the closures of the bus is not
\* spoken of here: HandlersOutlived says what becomes of it.
ReferencesLive ==
  /\ \A c \in Alive : Uses(c) \subseteq Alive
  /\ app_desc \subseteq {a \in Registry!Owned : phase[a] = "started"}

\* Each reset destroys its component there and then, but for the share run() has
\* in the IPC framework: nothing that goes down later holds it, so the order of
\* the resets is the order of destruction.
ResetDestroys == teardown # <<>> => Alive \subseteq refs \cup RunHolds

\* "The Task Scheduler terminates ONLY AFTER all components capable of enqueueing
\* work have completed their shutdown": nothing is handed to a scheduler that is
\* closed, and when it closes only it, the logger and the share of run() are
\* left.
NothingRefused ==
  /\ refused = {}
  /\ closing => Alive \subseteq {"logger", "task_scheduler"} \cup RunHolds

\* Services are stopped in reverse order, and a shutdown() stops each of them,
\* also when start_all() had failed half way; the cleanup tasks they enqueue
\* ("they may enqueue final cleanup tasks") are all executed.
ServicesStopped ==
  /\ \A i, j \in DOMAIN service :
       i < j /\ service[i] = "stopped" => service[j] = "stopped"
  /\ Gone /\ teardown = ShutdownOrder =>
       /\ \A i \in DOMAIN service : service[i] = "stopped"
       /\ Pool!Known \cap RegisteredSet \subseteq finished

\* What SDL gave is in use in the order it was made and all given back with the
\* backend, whichever step of initialize() or flush_buffer() failed and on
\* both ways down; a frame that is presented has a window and a renderer.
DisplayReleased ==
  /\ \E n \in 0 .. 4 : resources = Display!UpTo(n)
  /\ m_initialized /\ sdl => Display!UpTo(3) \subseteq resources
  /\ "display_backend" \notin Alive => resources = {}

\* An application that was started is shut down before it is destroyed, and
\* none outlives the root.
AppsEndInOrder ==
  [][\A a \in DOMAIN phase :
       /\ phase'[a] = "destroyed" /\ phase[a] # "destroyed" =>
            phase[a] = "shutdown" /\ {"vfs", "widget_toolkit"} \subseteq Alive
       /\ ~Gone /\ Gone' => phase[a] \in {"none", "rejected", "destroyed"}]_vars

\* "Any objects referenced within their EventHandler closures outlive the
\* subscription": no dispatch runs once the bus or a subscriber is gone.
HandlersOutlived == active \cap Events # {} => DispatchUses \subseteq Alive

\* A shutdown request of the driver ends the program, tasks and all, unless the
\* shutdown() of another thread takes a member from under a frame.
QuitEndsProgram == quit ~> Gone \/ ~FrameSafe

\* A request_stop() that finds the loop running ends it, with the same exception.
StopEndsRun == stop_seen ~> rpc = "returned" \/ ~FrameSafe

-----------------------------------------------------------------------------
(* The inductive invariant. *)

\* The components go down when initialize() and the start of the services are
\* done with: run() may be in its loop.
RunInv == teardown # <<>> => rpc \in {"new", "ready", "returned"} \cup Looping

\* The members that are left are those whose turn has not come.
ResetInv ==
  refs = IF teardown = <<>> THEN Components
         ELSE {teardown[i] : i \in down + 1 .. Len(teardown)}

\* The scheduler closes when its turn comes, after the service manager, and has
\* stopped when it is gone; it refused nothing.
PoolInv ==
  /\ closing => teardown # <<>> /\ "service_manager" \notin refs
  /\ closing /\ ~stopped => Reaches("task_scheduler")
  /\ stopped => pending = <<>> /\ active = {} /\ closing
  /\ "task_scheduler" \notin refs <=> stopped
  /\ refused = {}

\* A service is stopped by shutdown() only, the last one first.
StopInv ==
  IF teardown = ShutdownOrder
    THEN /\ \A i \in DOMAIN service : service[i] = "stopped" <=> i > visited
         /\ "service_manager" \notin refs => visited = 0
    ELSE \A i \in DOMAIN service : service[i] # "stopped"

\* An application the registry owns was started, and is not shut down before
\* the registry goes; the root's list of applications goes before it.
AppInv ==
  /\ rpc \in {"new", "display", "apps"} => m_running_apps = <<>>
  /\ \A a \in AppNames :
       IF a \in Registry!Owned THEN phase[a] \in {"started", "shutdown"}
                               ELSE phase[a] \in {"none", "rejected", "destroyed"}
  /\ teardown = <<>> => \A a \in Registry!Owned : phase[a] = "started"
  /\ app_desc \subseteq {a \in Registry!Owned : phase[a] = "started"}
  /\ app_desc # {} => "running_apps" \in refs
  /\ "app_registry" \notin refs => m_running_apps = <<>>

Inv ==
  /\ TypeOK /\ RunInv /\ ResetInv /\ PoolInv /\ StopInv /\ AppInv
  /\ DisplayReleased
=============================================================================
