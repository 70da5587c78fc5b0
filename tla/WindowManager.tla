---------------------------- MODULE WindowManager ----------------------------
(***************************************************************************)
(* BasicWindowManager: window states, the z-order (front is bottom, back   *)
(* is top) and the focused window, all under m_mutex, and the handler of   *)
(* HAL_INPUT_MOUSE events, which reads and writes m_last_mouse_state       *)
(* before it takes m_mutex.  Handlers run on worker threads, one for each  *)
(* event being dispatched; the operations of the interface are called from *)
(* the main thread and from applications.  A method whose id names no      *)
(* window does nothing.                                                    *)
(***************************************************************************)
EXTENDS Integers, Sequences

CONSTANTS
  Titles,       \* window titles; "Wallpaper" is the one the code tells apart
  Positions,    \* the <<x, y>> windows are created at and moved to
  Sizes,        \* the <<width, height>> windows are created with and resized to
  MouseEvents,  \* hal::MouseEvent: [x, y, button_state]
  Handlers,     \* concurrent invocations of the mouse handler
  IdModulus,    \* 2^32: m_next_id is a uint32_t
  MaxCreates    \* bound on the calls of create_window()

ASSUME WindowManagerAssumption ==
  /\ Positions \subseteq Int \X Int /\ Sizes \subseteq Nat \X Nat
  /\ MouseEvents \subseteq [x : Int, y : Int, button_state : Nat]
  /\ IdModulus \in Nat /\ IdModulus > 1
  /\ MaxCreates \in Nat

VARIABLES
  m_next_id,
  m_windows,           \* the map of window states, a function on the live ids
  m_z_order,
  m_focused_window,    \* 0: none
  m_last_mouse_state,
  hpc, hev, hclick,    \* each handler: where it is, its event, its `clicked`
  created,             \* history: the number of windows created so far
  ever                 \* history: the ids create_window() has returned

stackVars == <<m_windows, m_z_order, m_focused_window>>
idVars == <<m_next_id, created, ever>>
handlerVars == <<m_last_mouse_state, hpc, hev, hclick>>
vars == <<stackVars, idVars, handlerVars>>

Ids == 0 .. IdModulus - 1
WindowIds == DOMAIN m_windows
\* WindowGeometry is the pair of pos and size.
WindowState == [title : Titles, pos : Positions, size : Sizes,
                surface : BOOLEAN, visible : BOOLEAN]

\* A handler that is not running has no event.
NoEvent == [x |-> 0, y |-> 0, button_state |-> 0]

\* std::find and erase: the first occurrence of the id goes.
Occurs(s, id) == {i \in DOMAIN s : s[i] = id}
First(s, id) == CHOOSE i \in Occurs(s, id) : \A j \in Occurs(s, id) : i <= j
Erase(s, id) ==
  IF Occurs(s, id) = {} THEN s
  ELSE [j \in 1 .. Len(s) - 1 |-> IF j < First(s, id) THEN s[j] ELSE s[j + 1]]

Back(s) == s[Len(s)]

\* The inclusive hit test of handle_mouse_event().
Encloses(win, ev) ==
  /\ win.pos[1] <= ev.x /\ ev.x <= win.pos[1] + win.size[1]
  /\ win.pos[2] <= ev.y /\ ev.y <= win.pos[2] + win.size[2]

\* Mutant: a window that is not shown takes clicks.
ClickableHidden(id, ev) ==
  m_windows[id].title # "Wallpaper" /\ Encloses(m_windows[id], ev)

Clickable(id, ev) ==
  /\ m_windows[id].visible
  /\ m_windows[id].title # "Wallpaper"
  /\ Encloses(m_windows[id], ev)

\* Indices of the z-order under the mouse, and the window the loop stops at.
Under(ev) == {i \in DOMAIN m_z_order : Clickable(m_z_order[i], ev)}

\* Mutant: the loop starts at the bottom.
BottomHit(ev) == m_z_order[CHOOSE i \in Under(ev) : \A j \in Under(ev) : i <= j]

TopHit(ev) == m_z_order[CHOOSE i \in Under(ev) : \A j \in Under(ev) : j <= i]

TypeOK ==
  /\ m_next_id \in Ids
  /\ WindowIds \subseteq Ids
  /\ m_windows \in [WindowIds -> WindowState]
  /\ m_z_order \in Seq(Ids)
  /\ m_focused_window \in Ids
  /\ m_last_mouse_state \in Nat
  /\ hpc \in [Handlers -> {"idle", "read", "write", "lock"}]
  /\ hev \in [Handlers -> MouseEvents \cup {NoEvent}]
  /\ hclick \in [Handlers -> BOOLEAN]
  /\ created \in 0 .. MaxCreates
  /\ ever \subseteq Ids

Init ==
  /\ m_next_id = 1
  /\ m_windows = [id \in {} |-> {}]
  /\ m_z_order = <<>> /\ m_focused_window = 0
  /\ m_last_mouse_state = 0
  /\ hpc = [h \in Handlers |-> "idle"]
  /\ hev = [h \in Handlers |-> NoEvent]
  /\ hclick = [h \in Handlers |-> FALSE]
  /\ created = 0 /\ ever = {}

-----------------------------------------------------------------------------
(* The interface *)

CreateWindow(title, pos, size) ==
  LET id == m_next_id
  IN /\ created < MaxCreates
     /\ m_next_id' = (m_next_id + 1) % IdModulus
     /\ m_windows' = [w \in WindowIds \cup {id} |->
          IF w = id THEN [title |-> title, pos |-> pos, size |-> size,
                          surface |-> FALSE, visible |-> TRUE]
          ELSE m_windows[w]]
     /\ m_z_order' = Append(m_z_order, id)
     /\ m_focused_window' = id
     /\ created' = created + 1 /\ ever' = ever \cup {id}
     /\ UNCHANGED handlerVars

DestroyWindow(id) ==
  /\ id \in WindowIds
  /\ m_windows' = [w \in WindowIds \ {id} |-> m_windows[w]]
  /\ m_z_order' = Erase(m_z_order, id)
  /\ m_focused_window' =
       IF m_focused_window # id THEN m_focused_window
       ELSE IF m_z_order' = <<>> THEN 0 ELSE Back(m_z_order')
  /\ UNCHANGED <<idVars, handlerVars>>

FocusWindow(id) ==
  /\ id \in WindowIds
  /\ m_z_order' = IF Occurs(m_z_order, id) = {} THEN m_z_order
                  ELSE Append(Erase(m_z_order, id), id)
  /\ m_focused_window' = id
  /\ UNCHANGED <<m_windows, idVars, handlerVars>>

MoveWindow(id, pos) ==
  /\ id \in WindowIds
  /\ m_windows' = [m_windows EXCEPT ![id].pos = pos]
  /\ UNCHANGED <<m_z_order, m_focused_window, idVars, handlerVars>>

ResizeWindow(id, size) ==
  /\ id \in WindowIds
  /\ m_windows' = [m_windows EXCEPT ![id].size = size]
  /\ UNCHANGED <<m_z_order, m_focused_window, idVars, handlerVars>>

\* A surface, or the null pointer.
SetWindowSurface(id, surface) ==
  /\ id \in WindowIds
  /\ m_windows' = [m_windows EXCEPT ![id].surface = surface]
  /\ UNCHANGED <<m_z_order, m_focused_window, idVars, handlerVars>>

SetWindowVisibility(id, visible) ==
  /\ id \in WindowIds
  /\ m_windows' = [m_windows EXCEPT ![id].visible = visible]
  /\ UNCHANGED <<m_z_order, m_focused_window, idVars, handlerVars>>

\* build_scene(): the layers, bottom to top.
IsLayer(id) ==
  id \in WindowIds /\ m_windows[id].surface /\ m_windows[id].visible
Scene ==
  LET layers[n \in 0 .. Len(m_z_order)] ==
        IF n = 0 THEN <<>>
        ELSE IF IsLayer(m_z_order[n]) THEN Append(layers[n - 1], m_z_order[n])
        ELSE layers[n - 1]
  IN  layers[Len(m_z_order)]

-----------------------------------------------------------------------------
(* handle_mouse_event() *)

MouseArrives(h, ev) ==
  /\ hpc[h] = "idle"
  /\ hpc' = [hpc EXCEPT ![h] = "read"]
  /\ hev' = [hev EXCEPT ![h] = ev]
  /\ UNCHANGED <<stackVars, idVars, m_last_mouse_state, hclick>>

\* The read and the write of m_last_mouse_state race with those of the other
\* handlers: no lock is held.
MouseRead(h) ==
  /\ hpc[h] = "read"
  /\ hclick' = [hclick EXCEPT ![h] =
       hev[h].button_state # 0 /\ m_last_mouse_state = 0]
  /\ hpc' = [hpc EXCEPT ![h] = "write"]
  /\ UNCHANGED <<stackVars, idVars, m_last_mouse_state, hev>>

MouseWrite(h) ==
  /\ hpc[h] = "write"
  /\ m_last_mouse_state' = hev[h].button_state
  /\ hpc' = [hpc EXCEPT ![h] = IF hclick[h] THEN "lock" ELSE "idle"]
  /\ hev' = [hev EXCEPT ![h] = IF hclick[h] THEN @ ELSE NoEvent]
  /\ hclick' = [hclick EXCEPT ![h] = FALSE]
  /\ UNCHANGED <<stackVars, idVars>>

\* Mutant: the window is raised without being taken from its old place.
MouseClickTwice(h) ==
  /\ hpc[h] = "lock"
  /\ hpc' = [hpc EXCEPT ![h] = "idle"] /\ hev' = [hev EXCEPT ![h] = NoEvent]
  /\ IF Under(hev[h]) = {} \/ TopHit(hev[h]) = m_focused_window
       THEN UNCHANGED <<m_z_order, m_focused_window>>
       ELSE /\ m_z_order' = Append(m_z_order, TopHit(hev[h]))
            /\ m_focused_window' = TopHit(hev[h])
  /\ UNCHANGED <<m_windows, idVars, m_last_mouse_state, hclick>>

\* Mutant: the clicked window trades places with the top one.
MouseClickSwap(h) ==
  /\ hpc[h] = "lock"
  /\ hpc' = [hpc EXCEPT ![h] = "idle"] /\ hev' = [hev EXCEPT ![h] = NoEvent]
  /\ IF Under(hev[h]) = {} \/ TopHit(hev[h]) = m_focused_window
       THEN UNCHANGED <<m_z_order, m_focused_window>>
       ELSE /\ m_z_order' = [m_z_order EXCEPT
                 ![First(m_z_order, TopHit(hev[h]))] = Back(m_z_order),
                 ![Len(m_z_order)] = TopHit(hev[h])]
            /\ m_focused_window' = TopHit(hev[h])
  /\ UNCHANGED <<m_windows, idVars, m_last_mouse_state, hclick>>

\* Under m_mutex: the topmost window under the mouse gets the focus.
MouseClick(h) ==
  /\ hpc[h] = "lock"
  /\ hpc' = [hpc EXCEPT ![h] = "idle"] /\ hev' = [hev EXCEPT ![h] = NoEvent]
  /\ IF Under(hev[h]) = {} \/ TopHit(hev[h]) = m_focused_window
       THEN UNCHANGED <<m_z_order, m_focused_window>>
       ELSE /\ m_z_order' = Append(Erase(m_z_order, TopHit(hev[h])),
                                 TopHit(hev[h]))
            /\ m_focused_window' = TopHit(hev[h])
  /\ UNCHANGED <<m_windows, idVars, m_last_mouse_state, hclick>>

-----------------------------------------------------------------------------
Call ==
  \/ \E t \in Titles, p \in Positions, d \in Sizes : CreateWindow(t, p, d)
  \/ \E id \in WindowIds :
       \/ DestroyWindow(id) \/ FocusWindow(id)
       \/ \E p \in Positions : MoveWindow(id, p)
       \/ \E d \in Sizes : ResizeWindow(id, d)
       \/ \E b \in BOOLEAN : SetWindowSurface(id, b) \/ SetWindowVisibility(id, b)

Handle(h) ==
  \/ \E ev \in MouseEvents : MouseArrives(h, ev)
  \/ MouseRead(h) \/ MouseWrite(h) \/ MouseClick(h)

Next == Call \/ \E h \in Handlers : Handle(h)

Spec == Init /\ [][Next]_vars

-----------------------------------------------------------------------------
(* Properties *)

\* The z-order lists every live window once and nothing else, whatever calls
\* and clicks came before: the loop over it never meets a dead id, for which
\* m_windows[win_id] would create a window.
ZOrderIsPermutation ==
  /\ {m_z_order[i] : i \in DOMAIN m_z_order} = WindowIds
  /\ \A i, j \in DOMAIN m_z_order : m_z_order[i] = m_z_order[j] => i = j

\* The focused window is the top of the z-order, and there is none only when
\* there is no window: five methods and a handler maintain the two separately.
FocusOnTop ==
  m_focused_window = IF m_z_order = <<>> THEN 0 ELSE Back(m_z_order)

-----------------------------------------------------------------------------
(* The inductive invariant, as long as m_next_id does not wrap around. *)

\* Ids are handed out in order from 1 on; the live windows are among them.
IdInv ==
  /\ created + 1 <= IdModulus
  /\ m_next_id = (created + 1) % IdModulus
  /\ ever = 1 .. created
  /\ WindowIds \subseteq ever

\* Types, the bookkeeping of ids, and the agreement of the map, the z-order and
\* the focus, after every call and every click.
Inv == TypeOK /\ IdInv /\ ZOrderIsPermutation /\ FocusOnTop

-----------------------------------------------------------------------------
(* BasicWindowManager implements the promise of IWindowManager. *)

Below == {p \in WindowIds \X WindowIds :
            \E i, j \in DOMAIN m_z_order :
               i < j /\ m_z_order[i] = p[1] /\ m_z_order[j] = p[2]}

Stack == INSTANCE WindowStack WITH
  open <- WindowIds, over <- Below, focus <- m_focused_window, used <- ever

\* Every call and every click opens, closes or raises one window, keeps the
\* others in their order and leaves the focus on the top one, or changes none
\* of this.
ImplementsStack == Stack!Spec
=============================================================================
