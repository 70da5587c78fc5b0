----------------------------- MODULE DesktopShell -----------------------------
(***************************************************************************)
(* The desktop at run time: the main thread launches the shell and an      *)
(* application, then polls the input driver once a frame and publishes the *)
(* mouse events it finds; the workers of the task scheduler dispatch these *)
(* events, each to the handler of BasicWindowManager and then to that of   *)
(* DesktopShell.  Events are taken from the queue in the order they were   *)
(* published; with more than one worker their handlers interleave.         *)
(*                                                                         *)
(* The window manager is the module WindowManager: its handlers are the    *)
(* workers, its operations are called by launch() and by the shell.        *)
(***************************************************************************)
EXTENDS WindowManager, FiniteSets

CONSTANTS
  None,        \* no thread
  Main,        \* the main thread
  MaxEvents    \* bound on the mouse events that are published

ASSUME DesktopShellAssumption ==
  /\ {None, Main} \cap Handlers = {} /\ None # Main /\ MaxEvents \in Nat
  /\ {"Wallpaper", "Taskbar", "Launcher", "Terminal"} \subseteq Titles
  /\ {<<0, 0>>, <<0, 1040>>, <<10, 640>>, <<100, 100>>} \subseteq Positions
  /\ {<<1920, 1080>>, <<1920, 40>>, <<300, 400>>, <<600, 400>>} \subseteq Sizes

Workers == Handlers

VARIABLES
  m_wallpaper_id, m_taskbar_id, m_launcher_id,
  m_launcher_visible,
  shell_last_mouse_state,  \* DesktopShell::m_last_mouse_state
  m_mutex,                 \* DesktopShell::m_mutex: the thread that holds it
  mpc,                     \* main thread: calls of launch() made, then frames
  painted,                 \* the surfaces of the shell that are not blank
  blank,                   \* history: frames that showed a blank launcher since
                           \* it was hidden or drawn
  buttons,                 \* the driver's m_mouse_button_state
  queue,                   \* published events whose dispatch has not started
  wpc, wev,                \* each worker: where it is, its event
  wclick,                  \* its `clicked`, then the argument of its call
  published, presses, toggles, \* history: counts of events, of presses on the
                               \* Vynex button and of toggles of the launcher
  overlap                      \* history: two events were handled at once

shellVars == <<m_wallpaper_id, m_taskbar_id, m_launcher_id, m_launcher_visible,
               shell_last_mouse_state, m_mutex, toggles>>
mainVars == <<mpc, buttons, published, presses>>
frameVars == <<painted, blank>>
workerVars == <<wpc, wev, wclick, overlap>>
desktopVars == <<shellVars, mainVars, frameVars, queue, workerVars>>

\* The bounds of the button, inclusive: "x in [10, 90], y in [1045, 1075]".
OnVynexButton(ev) ==
  10 <= ev.x /\ ev.x <= 90 /\ 1045 <= ev.y /\ ev.y <= 1075

\* launch() of the shell, then of the applications.
LaunchCalls == 9
Launched == mpc >= LaunchCalls
Polling == mpc = LaunchCalls
Drawing == mpc = LaunchCalls + 1
Rendering == mpc = LaunchCalls + 2

DesktopTypeOK ==
  /\ TypeOK
  /\ {m_wallpaper_id, m_taskbar_id, m_launcher_id} \subseteq WindowIds \cup {0}
  /\ m_launcher_visible \in BOOLEAN
  /\ shell_last_mouse_state \in Nat
  /\ m_mutex \in Workers \cup {None, Main}
  /\ painted \subseteq {"wallpaper", "taskbar", "launcher"}
  /\ blank \in Nat
  /\ mpc \in 0 .. LaunchCalls + 2 /\ (Drawing <=> m_mutex = Main)
  /\ buttons \in Nat
  /\ queue \in Seq(MouseEvents)
  /\ wpc \in [Workers -> {"idle", "wm", "read", "write", "lock", "show"}]
  /\ wev \in [Workers -> MouseEvents \cup {NoEvent}]
  /\ wclick \in [Workers -> BOOLEAN]
  /\ published \in 0 .. MaxEvents
  /\ presses \in Nat /\ toggles \in Nat
  /\ overlap \in BOOLEAN

DesktopInit ==
  /\ Init
  /\ m_wallpaper_id = 0 /\ m_taskbar_id = 0 /\ m_launcher_id = 0
  /\ m_launcher_visible = FALSE
  /\ shell_last_mouse_state = 0
  /\ m_mutex = None
  /\ painted = {} /\ blank = 0
  /\ mpc = 0 /\ buttons = 0 /\ queue = <<>>
  /\ wpc = [w \in Workers |-> "idle"]
  /\ wev = [w \in Workers |-> NoEvent]
  /\ wclick = [w \in Workers |-> FALSE]
  /\ published = 0 /\ presses = 0 /\ toggles = 0 /\ overlap = FALSE

-----------------------------------------------------------------------------
(* Main thread: initialize() *)

\* One call of launch() to the window manager.
LaunchCall ==
  \/ /\ mpc = 0 /\ CreateWindow("Wallpaper", <<0, 0>>, <<1920, 1080>>)
     /\ m_wallpaper_id' = m_next_id
     /\ UNCHANGED <<m_taskbar_id, m_launcher_id>>
  \/ /\ mpc = 1 /\ SetWindowSurface(m_wallpaper_id, TRUE)
     /\ UNCHANGED <<m_wallpaper_id, m_taskbar_id, m_launcher_id>>
  \/ /\ mpc = 2 /\ CreateWindow("Taskbar", <<0, 1040>>, <<1920, 40>>)
     /\ m_taskbar_id' = m_next_id
     /\ UNCHANGED <<m_wallpaper_id, m_launcher_id>>
  \/ /\ mpc = 3 /\ SetWindowSurface(m_taskbar_id, TRUE)
     /\ UNCHANGED <<m_wallpaper_id, m_taskbar_id, m_launcher_id>>
  \/ /\ mpc = 4 /\ CreateWindow("Launcher", <<10, 640>>, <<300, 400>>)
     /\ m_launcher_id' = m_next_id
     /\ UNCHANGED <<m_wallpaper_id, m_taskbar_id>>
  \/ /\ mpc = 5 /\ SetWindowSurface(m_launcher_id, TRUE)
     /\ UNCHANGED <<m_wallpaper_id, m_taskbar_id, m_launcher_id>>
  \/ /\ mpc = 6 /\ SetWindowVisibility(m_launcher_id, FALSE)
     /\ UNCHANGED <<m_wallpaper_id, m_taskbar_id, m_launcher_id>>

\* The launch() of the terminal, which stands for the applications.  No event
\* is published yet: the focus is still on the window just created.
LaunchApp ==
  /\ \/ mpc = 7 /\ CreateWindow("Terminal", <<100, 100>>, <<600, 400>>)
     \/ mpc = 8 /\ SetWindowSurface(m_focused_window, TRUE)
  /\ UNCHANGED <<m_wallpaper_id, m_taskbar_id, m_launcher_id>>

Launch ==
  /\ LaunchCall \/ LaunchApp
  /\ mpc' = mpc + 1
  /\ painted' = IF mpc = 0 THEN {"wallpaper"} ELSE painted
  /\ UNCHANGED <<m_launcher_visible, shell_last_mouse_state, m_mutex, toggles,
                 blank, buttons, published, presses, queue, workerVars>>

-----------------------------------------------------------------------------
(* Main thread: a frame *)

\* The driver publishes the state of the buttons with every event: a press, a
\* release, or a motion that leaves it as it was.
Poll(ev) ==
  /\ Polling /\ published < MaxEvents
  /\ buttons' = ev.button_state
  /\ queue' = Append(queue, ev)
  /\ published' = published + 1
  /\ presses' = IF buttons = 0 /\ ev.button_state # 0 /\ OnVynexButton(ev)
                THEN presses + 1 ELSE presses
  /\ UNCHANGED <<vars, shellVars, mpc, frameVars, workerVars>>

\* Mutant: the launcher is drawn again only if it has been drawn before.
UpdateFrameRedraw ==
  /\ Polling /\ m_mutex = None
  /\ m_wallpaper_id # 0 /\ m_taskbar_id # 0
  /\ painted' = painted \cup {"wallpaper", "taskbar"}
  /\ m_mutex' = Main /\ mpc' = mpc + 1
  /\ UNCHANGED <<vars, m_wallpaper_id, m_taskbar_id, m_launcher_id,
                 m_launcher_visible, shell_last_mouse_state, toggles, buttons,
                 published, presses, blank, queue, workerVars>>

\* update_frame() clears and draws taskbar and wallpaper; then, under m_mutex,
\* the notifications and, if it is visible, the launcher.
UpdateFrame ==
  /\ Polling /\ m_mutex = None
  /\ m_wallpaper_id # 0 /\ m_taskbar_id # 0
  /\ painted' = painted \cup {"wallpaper", "taskbar"}
                \cup (IF m_launcher_visible THEN {"launcher"} ELSE {})
  /\ m_mutex' = Main /\ mpc' = mpc + 1
  /\ UNCHANGED <<vars, m_wallpaper_id, m_taskbar_id, m_launcher_id,
                 m_launcher_visible, shell_last_mouse_state, toggles, buttons,
                 published, presses, blank, queue, workerVars>>

EndUpdate ==
  /\ Drawing
  /\ m_mutex' = None /\ mpc' = mpc + 1
  /\ UNCHANGED <<vars, m_wallpaper_id, m_taskbar_id, m_launcher_id,
                 m_launcher_visible, shell_last_mouse_state, toggles, buttons,
                 published, presses, frameVars, queue, workerVars>>

\* The frame is composed of the scene as it is now; then the thread waits for
\* the next frame.
RenderFrame ==
  /\ Rendering
  /\ mpc' = LaunchCalls
  /\ blank' = IF m_windows[m_launcher_id].visible /\ "launcher" \notin painted
              THEN blank + 1 ELSE 0
  /\ UNCHANGED <<vars, shellVars, buttons, published, presses, painted, queue,
                 workerVars>>

-----------------------------------------------------------------------------
(* Workers: the dispatch of one event *)

Dispatch(w) ==
  /\ wpc[w] = "idle" /\ queue # <<>>
  /\ MouseArrives(w, Head(queue))
  /\ queue' = Tail(queue)
  /\ wpc' = [wpc EXCEPT ![w] = "wm"]
  /\ wev' = [wev EXCEPT ![w] = Head(queue)]
  /\ overlap' = (overlap \/ \E v \in Workers : wpc[v] # "idle")
  /\ UNCHANGED <<shellVars, mainVars, frameVars, wclick>>

\* The handler of the window manager; it returns when hpc[w] is "idle".
HandleFocus(w) ==
  /\ wpc[w] = "wm"
  /\ MouseRead(w) \/ MouseWrite(w) \/ MouseClick(w)
  /\ wpc' = [wpc EXCEPT ![w] = IF hpc'[w] = "idle" THEN "read" ELSE "wm"]
  /\ UNCHANGED <<shellVars, mainVars, frameVars, queue, wev, wclick, overlap>>

\* Mutant: any event with a button down is a click.
ShellReadDrag(w) ==
  /\ wpc[w] = "read"
  /\ wclick' = [wclick EXCEPT ![w] = wev[w].button_state # 0]
  /\ wpc' = [wpc EXCEPT ![w] = "write"]
  /\ UNCHANGED <<vars, shellVars, mainVars, frameVars, queue, wev, overlap>>

\* As in the window manager, m_last_mouse_state is read and written unlocked.
ShellRead(w) ==
  /\ wpc[w] = "read"
  /\ wclick' = [wclick EXCEPT ![w] =
       wev[w].button_state # 0 /\ shell_last_mouse_state = 0]
  /\ wpc' = [wpc EXCEPT ![w] = "write"]
  /\ UNCHANGED <<vars, shellVars, mainVars, frameVars, queue, wev, overlap>>

ShellWrite(w) ==
  /\ wpc[w] = "write"
  /\ shell_last_mouse_state' = wev[w].button_state
  /\ wpc' = [wpc EXCEPT ![w] =
       IF wclick[w] /\ OnVynexButton(wev[w]) THEN "lock" ELSE "idle"]
  /\ UNCHANGED <<vars, m_wallpaper_id, m_taskbar_id, m_launcher_id,
                 m_launcher_visible, m_mutex, toggles, mainVars, frameVars, queue, wev,
                 wclick, overlap>>

\* Mutant: the lock covers the flag and not the call that follows.
ToggleUnlocked(w) ==
  /\ wpc[w] = "lock" /\ m_mutex = None
  /\ m_launcher_visible' = ~m_launcher_visible
  /\ toggles' = toggles + 1
  /\ wpc' = [wpc EXCEPT ![w] = "show"]
  /\ wclick' = [wclick EXCEPT ![w] = m_launcher_visible']
  /\ UNCHANGED <<vars, m_wallpaper_id, m_taskbar_id, m_launcher_id, m_mutex,
                 shell_last_mouse_state, mainVars, frameVars, queue, wev, overlap>>

\* Under m_mutex; the argument of the call that follows is evaluated.
Toggle(w) ==
  /\ wpc[w] = "lock" /\ m_mutex = None
  /\ m_mutex' = w
  /\ m_launcher_visible' = ~m_launcher_visible
  /\ toggles' = toggles + 1
  /\ wpc' = [wpc EXCEPT ![w] = "show"]
  /\ wclick' = [wclick EXCEPT ![w] = m_launcher_visible']
  /\ UNCHANGED <<vars, m_wallpaper_id, m_taskbar_id, m_launcher_id,
                 shell_last_mouse_state, mainVars, frameVars, queue, wev, overlap>>

\* Mutant: m_mutex is not released.
ShowLauncherHolding(w) ==
  /\ wpc[w] = "show"
  /\ SetWindowVisibility(m_launcher_id, wclick[w])
  /\ wpc' = [wpc EXCEPT ![w] = "idle"]
  /\ UNCHANGED <<shellVars, mainVars, frameVars, queue, wev, wclick, overlap>>

\* set_window_visibility(), and the release of m_mutex.
ShowLauncher(w) ==
  /\ wpc[w] = "show"
  /\ SetWindowVisibility(m_launcher_id, wclick[w])
  /\ m_mutex' = None
  /\ blank' = IF wclick[w] THEN blank ELSE 0
  /\ wpc' = [wpc EXCEPT ![w] = "idle"]
  /\ UNCHANGED <<m_wallpaper_id, m_taskbar_id, m_launcher_id, toggles,
                 m_launcher_visible, shell_last_mouse_state, mainVars, painted, queue,
                 wev, wclick, overlap>>
-----------------------------------------------------------------------------
Work(w) ==
  \/ Dispatch(w) \/ HandleFocus(w)
  \/ ShellRead(w) \/ ShellWrite(w) \/ Toggle(w) \/ ShowLauncher(w)

DesktopNext ==
  \/ Launch \/ \E ev \in MouseEvents : Poll(ev)
  \/ UpdateFrame \/ EndUpdate \/ RenderFrame
  \/ \E w \in Workers : Work(w)

DesktopSpec == DesktopInit /\ [][DesktopNext]_<<vars, desktopVars>>

\* Threads that can run do; a thread that waits for m_mutex, which is free
\* while the main thread sleeps at the end of a frame, gets it in the end.
DesktopFairSpec ==
  /\ DesktopSpec
  /\ WF_<<vars, desktopVars>>(Launch) /\ WF_<<vars, desktopVars>>(EndUpdate)
  /\ \A w \in Workers :
       /\ WF_<<vars, desktopVars>>(Work(w))
       /\ SF_<<vars, desktopVars>>(Toggle(w))

-----------------------------------------------------------------------------
(* Properties *)

Quiet == queue = <<>> /\ \A w \in Workers : wpc[w] = "idle"

\* The shell and the window manager agree on whether the launcher is shown,
\* except while a worker is between the two assignments: workers that toggle
\* at the same time do not cross.
LauncherAgrees ==
  Launched /\ (\A w \in Workers : wpc[w] # "show")
    => m_windows[m_launcher_id].visible = m_launcher_visible

\* What a frame shows of the shell is drawn: the wallpaper and the taskbar
\* always.  The launcher may be shown by a click that comes after update_frame()
\* looked at it; it is then blank in that frame, and never in the next one that
\* still shows it.
ShownIsDrawn ==
  /\ Rendering => {"wallpaper", "taskbar"} \subseteq painted
  /\ blank <= 1

WallpaperAtBottom ==
  m_wallpaper_id # 0 =>
    m_z_order[1] = m_wallpaper_id
    /\ (m_focused_window = m_wallpaper_id => Len(m_z_order) = 1)

\* "Background elements remain permanently at the bottom": no click raises the
\* wallpaper, which would cover every window; nor does one give the focus to a
\* window that is not shown, such as the launcher over the windows below it.
BackgroundStays ==
  [][/\ WallpaperAtBottom'
     /\ Launched /\ m_focused_window' # m_focused_window
          => m_windows[m_focused_window'].visible]_<<vars, desktopVars>>

\* "One click reliably produces exactly one visibility state transition": as
\* long as events are handled one after the other, there are never more toggles
\* than presses on the button, a press being an event with a button down after
\* one with none, and once all events are handled every press has toggled the
\* launcher once and it is shown after an odd number of them.
TogglesFollowPresses ==
  ~overlap =>
    /\ toggles <= presses
    /\ Quiet => /\ toggles = presses
                /\ Launched => m_windows[m_launcher_id].visible = (presses % 2 = 1)

\* Toggles "only trigger on the actual MouseDown event, not on drag": there are
\* never more toggles than presses on the button.
ToggleOnlyOnPress == toggles <= presses

\* Every event that is published is handled in the end: the nested locks of the
\* shell and of the window manager, and the frame loop, do not block a worker
\* for good.
EventsHandled == <>[]Quiet

-----------------------------------------------------------------------------
(* The inductive invariant. *)

Busy == {w \in Workers : wpc[w] # "idle"}

\* launch() creates the windows in this order, and nobody destroys one; no
\* event is published before it is done.
LaunchInv ==
  /\ created = IF mpc = 0 THEN 0 ELSE IF mpc <= 2 THEN 1
               ELSE IF mpc <= 4 THEN 2 ELSE IF mpc <= 7 THEN 3 ELSE 4
  /\ WindowIds = 1 .. created
  /\ m_wallpaper_id = IF mpc = 0 THEN 0 ELSE 1
  /\ m_taskbar_id = IF mpc <= 2 THEN 0 ELSE 2
  /\ m_launcher_id = IF mpc <= 4 THEN 0 ELSE 3
  /\ mpc # 0 => m_windows[1].title = "Wallpaper"
  /\ ~Launched => queue = <<>> /\ Busy = {} /\ ~m_launcher_visible

\* Who toggles holds m_mutex, alone, from one assignment to the other.
LauncherInv ==
  /\ m_launcher_visible = (toggles % 2 = 1)
  /\ \A w \in Workers : wpc[w] = "show" <=> m_mutex = w
  /\ \A w \in Workers : wpc[w] = "show" => wclick[w] = m_launcher_visible
  /\ mpc >= 7 /\ (\A w \in Workers : wpc[w] # "show")
       => m_windows[m_launcher_id].visible = m_launcher_visible

\* What update_frame() has drawn by the end of its locked part; a launcher that
\* was blank in a frame and is shown since is drawn before the next one.
FrameInv ==
  /\ Drawing => /\ {"wallpaper", "taskbar"} \subseteq painted
                /\ m_launcher_visible => "launcher" \in painted
  /\ blank = 1 => /\ Launched /\ m_windows[m_launcher_id].visible
                  /\ Polling \/ "launcher" \in painted
  /\ ShownIsDrawn

DesktopInv ==
  /\ Inv /\ DesktopTypeOK
  /\ LaunchInv /\ LauncherInv /\ FrameInv /\ WallpaperAtBottom

\* The presses on the button in a queue, when the buttons were in state b
\* before.
ButtonsBefore(q, b, i) == IF i = 1 THEN b ELSE q[i - 1].button_state
PressesIn(q, b) ==
  {i \in DOMAIN q : /\ q[i].button_state # 0 /\ ButtonsBefore(q, b, i) = 0
                    /\ OnVynexButton(q[i])}

\* Workers whose event the shell has not remembered yet, and the buttons as
\* they will then be.
Ahead == {w \in Workers : wpc[w] \in {"wm", "read", "write"}}
Remembered ==
  IF Ahead = {} THEN shell_last_mouse_state
  ELSE wev[CHOOSE w \in Ahead : TRUE].button_state

\* Workers that are going to toggle the launcher.
Toggling ==
  {w \in Workers :
     \/ /\ wpc[w] \in {"wm", "read"}
        /\ shell_last_mouse_state = 0 /\ wev[w].button_state # 0
        /\ OnVynexButton(wev[w])
     \/ wpc[w] = "write" /\ wclick[w] /\ OnVynexButton(wev[w])
     \/ wpc[w] = "lock"}

\* With one event handled at a time, every press has toggled the launcher, is
\* about to, or is still in the queue.
PressInv ==
  ~overlap =>
    /\ \A v, w \in Busy : v = w
    /\ buttons = IF queue = <<>> THEN Remembered ELSE Back(queue).button_state
    /\ presses = toggles + Cardinality(Toggling)
                 + Cardinality(PressesIn(queue, Remembered))
=============================================================================
