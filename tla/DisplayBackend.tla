---------------------------- MODULE DisplayBackend ----------------------------
(***************************************************************************)
(* SDL2DisplayBackend and MockDisplayBackend.  The first holds resources   *)
(* of SDL in an SDLContext: the video subsystem, a window, a renderer and, *)
(* from the first frame on, a texture; the second holds nothing.  Every    *)
(* frame has the same size.                                                *)
(***************************************************************************)
EXTENDS Naturals

VARIABLES
  sdl,            \* the build has SDL2
  m_initialized,
  resources       \* what SDL has given and not got back

displayVars == <<sdl, m_initialized, resources>>

\* Each resource is made from those before it.
Chain == <<"video", "window", "renderer", "texture">>
UpTo(n) == {Chain[i] : i \in 1 .. n}

DisplayInit ==
  /\ sdl \in BOOLEAN
  /\ m_initialized = FALSE /\ resources = {}

\* initialize() fails at the subsystem, the window or the renderer and keeps
\* what it has, or succeeds.
InitializeDisplay ==
  /\ ~m_initialized
  /\ \E n \in IF sdl THEN 0 .. 3 ELSE {0} :
       /\ resources' = UpTo(n)
       /\ m_initialized' = (sdl => n = 3)
  /\ UNCHANGED sdl

\* flush_buffer() presents the frame, with a texture it creates if it has none.
Flush ==
  /\ m_initialized
  /\ resources' = IF sdl THEN resources \cup {"texture"} ELSE {}
  /\ UNCHANGED <<sdl, m_initialized>>

\* The frame is dropped: no display, or no texture.
FlushFails ==
  /\ m_initialized => sdl /\ "texture" \notin resources
  /\ UNCHANGED displayVars

\* ~SDLContext(): texture, renderer, window and subsystem, whichever there are.
ReleaseContext == resources' = {}

\* shutdown() of a backend that was not initialized does nothing.
ShutdownDisplay ==
  /\ IF m_initialized THEN ReleaseContext ELSE UNCHANGED resources
  /\ m_initialized' = FALSE
  /\ UNCHANGED sdl

\* Mutant: the context is not destroyed, only shut down.
DestroyByShutdown == ShutdownDisplay

\* The destructor calls shutdown() and then destroys the context that is left.
DestroyDisplay ==
  /\ m_initialized' = FALSE
  /\ ReleaseContext
  /\ UNCHANGED sdl
=============================================================================
