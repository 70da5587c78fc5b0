----------------------- MODULE CompositionRoot_proofs -----------------------
(***************************************************************************)
(* The composition root, for any mouse events, services and workers.       *)
(***************************************************************************)
EXTENDS CompositionRoot, TLAPS

-----------------------------------------------------------------------------
(* The two orders *)

\* At which place of shutdown(), and of the destructor, a member is reset.
ShutdownPlace ==
  [logger |-> 24, task_scheduler |-> 23, event_bus |-> 22,
   config_manager |-> 21, service_manager |-> 1, ipc_framework |-> 20,
   display_backend |-> 19, compositor |-> 18, window_manager |-> 16,
   widget_toolkit |-> 15, input_driver |-> 17, demo_app |-> 13,
   desktop_shell |-> 12, terminal |-> 11, plugin_manager |-> 8,
   audio_driver |-> 7, compute_driver |-> 6, network_adapter |-> 5,
   block_device |-> 4, hardware_clock |-> 3, notification_service |-> 2,
   vfs |-> 14, app_registry |-> 10, running_apps |-> 9]

DestructionPlace ==
  [logger |-> 24, task_scheduler |-> 23, event_bus |-> 22,
   config_manager |-> 21, service_manager |-> 20, ipc_framework |-> 19,
   display_backend |-> 18, compositor |-> 17, window_manager |-> 16,
   widget_toolkit |-> 15, input_driver |-> 14, demo_app |-> 13,
   desktop_shell |-> 12, terminal |-> 11, plugin_manager |-> 10,
   audio_driver |-> 9, compute_driver |-> 8, network_adapter |-> 7,
   block_device |-> 6, hardware_clock |-> 5, notification_service |-> 4,
   vfs |-> 3, app_registry |-> 2, running_apps |-> 1]

\* t resets every member once, at its place, those that hold or use a component
\* before that component.
Sound(t, place) ==
  /\ Len(t) = 24 /\ DOMAIN t = 1 .. 24
  /\ \A i \in 1 .. 24 : t[i] \in Components /\ place[t[i]] = i
  /\ \A c \in Components : place[c] \in 1 .. 24 /\ t[place[c]] = c
  /\ \A c \in Components : \A x \in Holds(c) \cup Uses(c) :
       x \in Components /\ place[c] < place[x]
  /\ place["running_apps"] < place["app_registry"]
  /\ place["service_manager"] < place["task_scheduler"]

LEMMA ComponentsAre == Components = DOMAIN ShutdownPlace
BY DEF ShutdownPlace, Members, Components

LEMMA HoldsComponents ==
  \A c \in Components : /\ Holds(c) \subseteq Components
                        /\ Uses(c) \subseteq Components
<1>1. \A c \in DOMAIN ShutdownPlace : \A x \in Holds(c) \cup Uses(c) :
        x \in DOMAIN ShutdownPlace
  BY DEF ShutdownPlace, Holds, Uses
<1> QED
  BY <1>1, ComponentsAre

LEMMA ShutdownSound == Sound(ShutdownOrder, ShutdownPlace)
<1>1. Len(ShutdownOrder) = 24 /\ DOMAIN ShutdownOrder = 1 .. 24
  BY DEF ShutdownOrder
<1>2. \A i \in 1 .. 24 : ShutdownOrder[i] \in DOMAIN ShutdownPlace
                         /\ ShutdownPlace[ShutdownOrder[i]] = i
  BY DEF ShutdownOrder, ShutdownPlace
<1>3. \A c \in DOMAIN ShutdownPlace : ShutdownPlace[c] \in 1 .. 24
                                      /\ ShutdownOrder[ShutdownPlace[c]] = c
  BY DEF ShutdownOrder, ShutdownPlace
<1>4. \A c \in DOMAIN ShutdownPlace : \A x \in Holds(c) \cup Uses(c) :
        ShutdownPlace[c] < ShutdownPlace[x]
  BY DEF ShutdownPlace, Holds, Uses
<1>5. /\ ShutdownPlace["running_apps"] < ShutdownPlace["app_registry"]
      /\ ShutdownPlace["service_manager"] < ShutdownPlace["task_scheduler"]
  BY DEF ShutdownPlace
<1> QED
  BY <1>1, <1>2, <1>3, <1>4, <1>5, ComponentsAre, HoldsComponents DEF Sound

LEMMA DestructionSound == Sound(DestructionOrder, DestructionPlace)
<1>1. Len(Members) = 24 /\ DOMAIN Members = 1 .. 24
  BY DEF Members
<1>2. /\ Len(DestructionOrder) = 24 /\ DOMAIN DestructionOrder = 1 .. 24
      /\ \A i \in 1 .. 24 : DestructionOrder[i] = Members[25 - i]
  BY <1>1 DEF DestructionOrder
<1>3. \A i \in 1 .. 24 : Members[25 - i] \in DOMAIN ShutdownPlace
                         /\ DestructionPlace[Members[25 - i]] = i
  BY DEF Members, ShutdownPlace, DestructionPlace
<1>4. \A c \in DOMAIN ShutdownPlace : DestructionPlace[c] \in 1 .. 24
                                      /\ Members[25 - DestructionPlace[c]] = c
  BY DEF Members, ShutdownPlace, DestructionPlace
<1>5. \A c \in DOMAIN ShutdownPlace : \A x \in Holds(c) \cup Uses(c) :
        DestructionPlace[c] < DestructionPlace[x]
  BY DEF ShutdownPlace, DestructionPlace, Holds, Uses
<1>6. /\ DestructionPlace["running_apps"] < DestructionPlace["app_registry"]
      /\ DestructionPlace["service_manager"] < DestructionPlace["task_scheduler"]
  BY DEF DestructionPlace
<1> QED
  BY <1>2, <1>3, <1>4, <1>5, <1>6, ComponentsAre, HoldsComponents DEF Sound

\* The two orders are not each other, and not empty.
LEMMA OrdersDiffer ==
  /\ ShutdownOrder # <<>> /\ DestructionOrder # <<>>
  /\ ShutdownOrder # DestructionOrder
<1>1. ShutdownOrder[1] = "service_manager" /\ Members[24] = "running_apps"
      /\ Len(Members) = 24 /\ DOMAIN Members = 1 .. 24
  BY DEF ShutdownOrder, Members
<1>2. DestructionOrder[1] = "running_apps"
  BY <1>1 DEF DestructionOrder
<1>3. DOMAIN ShutdownOrder = 1 .. 24 /\ DOMAIN DestructionOrder = 1 .. 24
  BY ShutdownSound, DestructionSound DEF Sound
<1> QED
  BY <1>1, <1>2, <1>3

\* Whichever order is followed, there is one and it is sound.
LEMMA Followed ==
  ASSUME TypeOK, teardown # <<>>
  PROVE  \E place : Sound(teardown, place)
BY ShutdownSound, DestructionSound DEF TypeOK

-----------------------------------------------------------------------------
(* What is left while the members go down *)

\* The members whose turn has not come.
After(t, d) == {t[i] : i \in d + 1 .. 24}

LEMMA Rest ==
  ASSUME NEW t, NEW place, Sound(t, place), NEW d \in 0 .. 24
  PROVE  /\ After(t, d) \subseteq Components
         /\ \A c \in Components : c \in After(t, d) <=> place[c] > d
         /\ \A c \in After(t, d) : /\ Holds(c) \subseteq After(t, d)
                                    /\ Uses(c) \subseteq After(t, d)
<1> DEFINE R == After(t, d)
<1>1. \A c \in Components : c \in R <=> place[c] > d
  <2> SUFFICES ASSUME NEW c \in Components PROVE c \in R <=> place[c] > d
    OBVIOUS
  <2>1. place[c] \in 1 .. 24 /\ t[place[c]] = c
    BY DEF Sound
  <2>2. \A i \in d + 1 .. 24 : t[i] = c => place[c] = i
    BY DEF Sound
  <2> QED
    BY <2>1, <2>2 DEF After
<1>2. R \subseteq Components
  BY DEF Sound, After
<1>3. ASSUME NEW c \in R, NEW x \in Holds(c) \cup Uses(c) PROVE x \in R
  <2>1. c \in Components /\ place[c] > d
    BY <1>1, <1>2
  <2>2. x \in Components /\ place[c] < place[x] /\ place[c] \in Nat /\ place[x] \in Nat
    BY <2>1 DEF Sound
  <2> QED
    BY <1>1, <2>1, <2>2
<1> QED
  BY <1>1, <1>2, <1>3

LEMMA Left ==
  ASSUME TypeOK, ResetInv
  PROVE  /\ refs \subseteq Components
         /\ teardown = <<>> => refs = Components /\ down = 0
         /\ \A c \in refs : Holds(c) \subseteq refs /\ Uses(c) \subseteq refs
         /\ \A c : Reaches(c) => c \in refs
         /\ Reaches("app_registry") => "running_apps" \notin refs
         /\ Reaches("task_scheduler") => "service_manager" \notin refs
         /\ Gone => refs = {}
<1>1. CASE teardown = <<>>
  BY <1>1, HoldsComponents DEF TypeOK, ResetInv, Reaches, Gone
<1>2. CASE teardown # <<>>
  <2>1. PICK place : Sound(teardown, place)
    BY <1>2, Followed
  <2>2. /\ Len(teardown) = 24 /\ down \in 0 .. 24
        /\ refs = After(teardown, down)
    BY <1>2, <2>1 DEF TypeOK, ResetInv, Sound, After
  <2>3. /\ refs \subseteq Components
        /\ \A c \in Components : c \in refs <=> place[c] > down
        /\ \A c \in refs : Holds(c) \subseteq refs /\ Uses(c) \subseteq refs
    BY <2>1, <2>2, Rest
  <2>4. ASSUME NEW c, Reaches(c) PROVE c \in Components /\ place[c] = down + 1
    <3>1. down + 1 \in 1 .. 24 /\ c = teardown[down + 1]
      BY <2>2, <2>4 DEF Reaches, Gone, Falling
    <3> QED
      BY <2>1, <3>1 DEF Sound
  <2>5. {"running_apps", "service_manager", "app_registry", "task_scheduler"}
          \subseteq Components
    BY ComponentsAre DEF ShutdownPlace
  <2>6. Reaches("app_registry") => "running_apps" \notin refs
    <3>1. place["running_apps"] < place["app_registry"] /\ place["running_apps"] \in Nat
      BY <2>1, <2>5 DEF Sound
    <3> QED
      BY <2>2, <2>3, <2>4, <2>5, <3>1
  <2>7. Reaches("task_scheduler") => "service_manager" \notin refs
    <3>1. place["service_manager"] < place["task_scheduler"] /\ place["service_manager"] \in Nat
      BY <2>1, <2>5 DEF Sound
    <3> QED
      BY <2>2, <2>3, <2>4, <2>5, <3>1
  <2>8. Gone => refs = {}
    BY <2>2 DEF Gone, After
  <2>9. \A c : Reaches(c) => c \in refs
    BY <2>2, <2>3, <2>4
  <2> QED
    BY <1>2, <2>3, <2>6, <2>7, <2>8, <2>9
<1> QED
  BY <1>1, <1>2

\* What is held goes after what holds it: what lives is what is left.
LEMMA Closed ==
  ASSUME NEW R, R \subseteq Components, \A c \in R : Holds(c) \subseteq R
  PROVE  UNION {KeptAlive[c] : c \in R} = R
<1>1. \A cs : cs \subseteq R => WithHeld(cs) \subseteq R
  BY DEF WithHeld
<1>2. \A cs : cs \subseteq WithHeld(cs)
  BY DEF WithHeld
<1>3. \A c \in R : c \in KeptAlive[c] /\ KeptAlive[c] \subseteq R
  <2> SUFFICES ASSUME NEW c \in R PROVE c \in KeptAlive[c] /\ KeptAlive[c] \subseteq R
    OBVIOUS
  <2>1. KeptAlive[c] = WithHeld(WithHeld(WithHeld({c})))
    BY DEF KeptAlive
  <2>2. WithHeld({c}) \subseteq R /\ c \in WithHeld({c})
    BY <1>1, <1>2
  <2>3. WithHeld(WithHeld({c})) \subseteq R /\ c \in WithHeld(WithHeld({c}))
    BY <1>1, <1>2, <2>2
  <2> QED
    BY <1>1, <1>2, <2>1, <2>3
<1> QED
  BY <1>3

LEMMA RunHoldsIpc ==
  RunHolds \in {{}, {"ipc_framework"}} /\ RunHolds' \in {{}, {"ipc_framework"}}
  /\ Holds("ipc_framework") = {} /\ Uses("ipc_framework") = {}
  /\ "ipc_framework" \in Components
BY ComponentsAre DEF RunHolds, Holds, Uses, ShutdownPlace

LEMMA AliveIsLeft ==
  ASSUME TypeOK, ResetInv
  PROVE  Alive = refs \cup RunHolds
<1> DEFINE R == refs \cup RunHolds
<1>1. R \subseteq Components /\ \A c \in R : Holds(c) \subseteq R
  BY Left, RunHoldsIpc
<1> QED
  BY <1>1, Closed DEF Alive

\* Taking the one whose turn it is off leaves those whose turn has not come.
LEMMA OneGoes ==
  ASSUME TypeOK, ResetInv, teardown # <<>>, ~Gone, UNCHANGED teardown,
         refs' = refs \ {Falling}, down' = down + 1
  PROVE  /\ ResetInv' /\ refs' \subseteq Components
         /\ down' \in 0 .. Len(teardown') /\ Alive' = refs' \cup RunHolds'
<1>1. PICK place : Sound(teardown, place)
  BY Followed
<1>2. /\ Len(teardown) = 24 /\ down \in 0 .. 23
      /\ refs = {teardown[i] : i \in down + 1 .. 24}
  BY <1>1 DEF TypeOK, ResetInv, Sound, Gone
<1>3. \A i \in down + 1 .. 24 : teardown[i] = teardown[down + 1] => i = down + 1
  <2>1. \A i \in 1 .. 24 : place[teardown[i]] = i
    BY <1>1 DEF Sound
  <2>2. \A i \in down + 1 .. 24 : i \in 1 .. 24
    BY <1>2
  <2>3. down + 1 \in 1 .. 24
    BY <1>2
  <2> QED
    BY <2>1, <2>2, <2>3
<1>4. refs' = {teardown[i] : i \in (down + 1) + 1 .. 24}
  BY <1>2, <1>3 DEF Falling
<1>5. down + 1 \in 0 .. 24
  BY <1>2
<1>6. /\ refs' \subseteq Components
      /\ \A c \in refs' : Holds(c) \subseteq refs'
  <2>1. refs' = After(teardown, down + 1)
    BY <1>4 DEF After
  <2> QED
    BY <1>1, <1>5, <2>1, Rest
<1>7. Alive' = refs' \cup RunHolds'
  <2> DEFINE R == refs' \cup RunHolds'
  <2>1. R \subseteq Components /\ \A c \in R : Holds(c) \subseteq R
    BY <1>6, RunHoldsIpc
  <2>2. UNION {KeptAlive[c] : c \in R} = R
    BY <2>1, Closed
  <2> QED
    BY <2>2 DEF Alive
<1> QED
  BY <1>2, <1>4, <1>5, <1>6, <1>7 DEF ResetInv

-----------------------------------------------------------------------------
(* Which step changes what *)

LEMMA Keeps ==
  ASSUME [Next]_vars
  PROVE  /\ \/ UNCHANGED <<refs, downVars>>
            \/ BeginTeardown \/ ShutdownElsewhere \/ Reset \/ StopScheduler
         /\ \/ UNCHANGED poolVars
            \/ StopServices \/ CloseScheduler \/ StopScheduler \/ StartDispatch
            \/ \E t \in Tasks : FinishDispatch(t)
            \/ \E e \in Events : PollMouse(e)
         /\ \/ UNCHANGED serviceVars
            \/ StartServices \/ BeginTeardown \/ ShutdownElsewhere \/ StopServices
         /\ \/ UNCHANGED appVars
            \/ RegisterApps \/ LaunchApps \/ TerminateApps \/ Reset
         /\ \/ UNCHANGED displayVars
            \/ InitializeDisplay \/ Render \/ ShutdownDisplay \/ Reset
         /\ UNCHANGED rpc \/ Run
<1>1. CASE Run
  BY <1>1 DEF Run, InitializeDisplay, RegisterApps, LaunchApps, StartServices,
     RunActive, LoopTest, PollReturns, Update, Render, downVars, partVars
<1>2. CASE TearDown
  BY <1>2 DEF TearDown, BeginTeardown, Reset, CloseScheduler, StopScheduler,
     StopServices, TerminateApps, ShutdownDisplay, downVars, partVars, runVars
<1>3. CASE Environment
  BY <1>3 DEF Environment, RequestStop, ShutdownElsewhere, PollQuit, PollMouse,
     partVars, runVars
<1>4. CASE Work
  BY <1>4 DEF Work, StartDispatch, FinishDispatch, partVars, runVars
<1>5. CASE Terminated \/ UNCHANGED vars
  BY <1>5 DEF Terminated, vars, partVars, runVars
<1> QED
  BY <1>1, <1>2, <1>3, <1>4, <1>5 DEF Next

\* initialize() and run() leave the members, the teardown and the scheduler
\* alone; outside its loop run() is under way only as long as nothing goes down.
LEMMA RunsUp ==
  ASSUME RunInv, Run
  PROVE  /\ UNCHANGED <<refs, downVars, poolVars>>
         /\ teardown = <<>> \/ rpc \in Looping
BY DEF Run, RunInv, InitializeDisplay, RegisterApps, LaunchApps, StartServices,
   RunActive, LoopTest, PollReturns, Update, Render, Looping

LEMMA RunStep ==
  ASSUME TypeOK, RunInv, [Next]_vars
  PROVE  /\ RunInv'
         /\ rpc' \in {"new", "display", "apps", "ready", "started", "loop",
                      "poll", "update", "render", "returned"}
         /\ m_is_running' \in BOOLEAN /\ quit' \in BOOLEAN /\ stop_seen' \in BOOLEAN
<1>1. CASE Run
  <2>1. teardown' = <<>> \/ rpc \in Looping
    BY <1>1, RunsUp DEF downVars
  <2> QED
    BY <1>1, <2>1 DEF TypeOK, RunInv, Looping, Run, InitializeDisplay, RegisterApps, LaunchApps,
       StartServices, RunActive, LoopTest, PollReturns, Update, Render
<1>2. CASE TearDown
  <2>1. UNCHANGED runVars
    BY <1>2 DEF TearDown, BeginTeardown, Reset, CloseScheduler, StopScheduler,
       StopServices, TerminateApps, ShutdownDisplay
  <2>2. UNCHANGED teardown \/ BeginTeardown
    BY <1>2 DEF TearDown, Reset, CloseScheduler, StopScheduler,
       StopServices, TerminateApps, ShutdownDisplay, downVars
  <2> QED
    BY <2>1, <2>2 DEF TypeOK, RunInv, BeginTeardown, runVars
<1>3. CASE Environment
  BY <1>3 DEF TypeOK, RunInv, Environment, RequestStop, ShutdownElsewhere, PollQuit,
     PollMouse, runVars, downVars
<1>4. CASE Work
  BY <1>4 DEF TypeOK, RunInv, Work, StartDispatch, FinishDispatch, runVars, downVars
<1>5. CASE Terminated \/ UNCHANGED vars
  BY <1>5 DEF TypeOK, RunInv, Terminated, vars, runVars, downVars
<1> QED
  BY <1>1, <1>2, <1>3, <1>4, <1>5 DEF Next

-----------------------------------------------------------------------------
(* The members *)

\* The scheduler closes only while it is its turn.
LEMMA StopsInTurn ==
  ASSUME PoolInv, StopScheduler
  PROVE  Reaches("task_scheduler") /\ Falling = "task_scheduler"
         /\ teardown # <<>> /\ ~Gone
BY DEF PoolInv, StopScheduler, Pool!Stop, Reaches

LEMMA DownStep ==
  ASSUME TypeOK, ResetInv, PoolInv, [Next]_vars
  PROVE  /\ ResetInv' /\ refs' \subseteq Components
         /\ Alive' = refs' \cup RunHolds'
         /\ teardown' \in {<<>>, ShutdownOrder, DestructionOrder}
         /\ down' \in 0 .. Len(teardown')
<1>0. ASSUME UNCHANGED refs PROVE Alive' = refs' \cup RunHolds'
  <2> DEFINE R == refs' \cup RunHolds'
  <2>1. R \subseteq Components /\ \A c \in R : Holds(c) \subseteq R
    BY <1>0, Left, RunHoldsIpc
  <2>2. UNION {KeptAlive[c] : c \in R} = R
    BY <2>1, Closed
  <2> QED
    BY <2>2 DEF Alive
<1>1. CASE UNCHANGED <<refs, downVars>>
  BY <1>0, <1>1 DEF TypeOK, ResetInv, downVars
<1>2. CASE BeginTeardown \/ ShutdownElsewhere
  <2>1. teardown' \in {ShutdownOrder, DestructionOrder} /\ UNCHANGED <<refs, down>>
        /\ teardown = <<>>
    BY <1>2 DEF BeginTeardown, ShutdownElsewhere
  <2>2. refs = Components /\ down = 0
    BY <2>1, Left
  <2>3. PICK place : Sound(teardown', place)
    BY <2>1, ShutdownSound, DestructionSound
  <2>4. Components = {teardown'[i] : i \in 1 .. 24} /\ Len(teardown') = 24
    <3>1. \A c \in Components : place[c] \in 1 .. 24 /\ teardown'[place[c]] = c
      BY <2>3 DEF Sound
    <3>2. \A i \in 1 .. 24 : teardown'[i] \in Components
      BY <2>3 DEF Sound
    <3>3. Len(teardown') = 24
      BY <2>3 DEF Sound
    <3> QED
      BY <3>1, <3>2, <3>3
  <2>5. teardown' # <<>>
    BY <2>1, OrdersDiffer
  <2> QED
    BY <1>0, <2>1, <2>2, <2>4, <2>5 DEF ResetInv
<1>3. CASE Reset
  BY <1>3, OneGoes DEF Reset, TypeOK
<1>4. CASE StopScheduler
  BY <1>4, StopsInTurn, OneGoes DEF StopScheduler, TypeOK
<1> QED
  BY <1>1, <1>2, <1>3, <1>4, Keeps

-----------------------------------------------------------------------------
(* The scheduler *)

\* When the scheduler's turn comes, and after it, the other components are gone.
LEMMA OthersGone ==
  ASSUME TypeOK, ResetInv, PoolInv, closing
  PROVE  refs \subseteq {"logger", "task_scheduler"}
<1>1. teardown # <<>>
  BY DEF PoolInv
<1>2. PICK place : Sound(teardown, place) /\ place["task_scheduler"] = 23
                   /\ place["logger"] = 24
  <2>1. /\ ShutdownPlace["task_scheduler"] = 23 /\ ShutdownPlace["logger"] = 24
        /\ DestructionPlace["task_scheduler"] = 23 /\ DestructionPlace["logger"] = 24
    BY DEF ShutdownPlace, DestructionPlace
  <2> QED
    BY <1>1, <2>1, ShutdownSound, DestructionSound DEF TypeOK
<1>3. /\ Len(teardown) = 24 /\ down \in 0 .. 24 /\ refs = After(teardown, down)
  BY <1>1, <1>2 DEF TypeOK, ResetInv, Sound, After
<1>4. \A c \in Components : c \in refs <=> place[c] > down
  BY <1>2, <1>3, Rest
<1>5. {"task_scheduler", "logger"} \subseteq Components
  BY ComponentsAre DEF ShutdownPlace
<1>6. down \in {22, 23, 24}
  <2>1. CASE Reaches("task_scheduler")
    <3>1. down + 1 \in 1 .. 24 /\ teardown[down + 1] = "task_scheduler"
      BY <2>1, <1>3 DEF Reaches, Gone, Falling
    <3> QED
      BY <3>1, <1>2, <1>3 DEF Sound
  <2>2. CASE stopped /\ "task_scheduler" \notin refs
    BY <1>2, <1>3, <1>4, <1>5, <2>2
  <2> QED
    BY <2>1, <2>2 DEF PoolInv, TypeOK
<1>7. \A c \in refs : c = "task_scheduler" \/ c = "logger"
  <2> SUFFICES ASSUME NEW c \in refs PROVE c = "task_scheduler" \/ c = "logger"
    OBVIOUS
  <2>1. c \in Components /\ place[c] \in 1 .. 24 /\ place[c] > down
    BY <1>2, <1>3, <1>4, Rest DEF Sound
  <2>2. place[c] \in {23, 24}
    BY <1>6, <2>1
  <2> QED
    BY <1>2, <1>5, <2>1, <2>2 DEF Sound
<1> QED
  BY <1>7

LEMMA PoolStep ==
  ASSUME TypeOK, ResetInv, PoolInv, RunInv, [Next]_vars
  PROVE  /\ PoolInv'
         /\ Pool!Known' \subseteq Tasks /\ pending' \in Seq(Tasks)
         /\ closing' \in BOOLEAN /\ stopped' \in BOOLEAN
<1>a. /\ pending \in Seq(Tasks) /\ Pool!Known \subseteq Tasks
      /\ closing \in BOOLEAN /\ stopped \in BOOLEAN
  BY DEF TypeOK, Tasks
<1>b. \A t \in RegisteredSet : t \in Tasks /\ t \notin Events
  BY CompositionRootAssumption DEF Tasks
<1> DEFINE Typed == /\ Pool!Known' \subseteq Tasks /\ pending' \in Seq(Tasks)
                    /\ closing' \in BOOLEAN /\ stopped' \in BOOLEAN
\* As long as the scheduler accepts, a task that is handed in is queued.
<1>c. ASSUME NEW t \in Tasks, Pool!Accept(t), UNCHANGED <<refs, downVars>>
      PROVE  PoolInv' /\ Typed
  <2>1. /\ pending' = Append(pending, t) /\ ~stopped
        /\ UNCHANGED <<active, finished, refused, closing, stopped>>
    BY <1>c DEF Pool!Accept
  <2>2. pending' \in Seq(Tasks)
    BY <1>a, <2>1
  <2>3. Pool!Known' \subseteq Tasks
    <3>1. \A i \in DOMAIN pending' : pending'[i] \in Tasks
      BY <2>2
    <3> QED
      BY <1>a, <2>1, <3>1 DEF Pool!Known, Pool!PendingSet
  <2> QED
    BY <1>a, <1>c, <2>1, <2>2, <2>3 DEF PoolInv, Reaches, Gone, Falling, downVars
<1>1. CASE UNCHANGED poolVars /\ UNCHANGED <<refs, downVars>>
  BY <1>1, <1>a DEF poolVars, downVars, PoolInv, Reaches, Gone, Falling,
     Pool!Known, Pool!PendingSet
<1>2. CASE BeginTeardown \/ ShutdownElsewhere
  <2>1. /\ UNCHANGED poolVars /\ UNCHANGED refs /\ teardown = <<>>
    BY <1>2 DEF BeginTeardown, ShutdownElsewhere
  <2>2. ~closing /\ ~stopped
    BY <1>a, <2>1 DEF PoolInv
  <2> QED
    BY <1>a, <2>1, <2>2 DEF PoolInv, poolVars, Pool!Known, Pool!PendingSet
<1>3. CASE Reset
  <2>1. /\ UNCHANGED poolVars /\ UNCHANGED teardown /\ Falling # "task_scheduler"
        /\ refs' = refs \ {Falling}
    BY <1>3 DEF Reset
  <2>2. closing => stopped
    BY <1>a, <2>1 DEF PoolInv, Reaches
  <2> QED
    BY <1>a, <2>1, <2>2 DEF PoolInv, poolVars, Pool!Known, Pool!PendingSet
<1>4. CASE StopScheduler
  <2>1. /\ closing /\ ~stopped /\ pending = <<>> /\ active = {} /\ stopped' = TRUE
        /\ UNCHANGED <<pending, active, finished, refused, closing, teardown>>
        /\ refs' = refs \ {"task_scheduler"}
    BY <1>4 DEF StopScheduler, Pool!Stop
  <2> QED
    BY <1>a, <2>1 DEF PoolInv, Pool!Known, Pool!PendingSet
<1>5. CASE CloseScheduler
  <2>1. /\ Reaches("task_scheduler") /\ closing' = TRUE
        /\ UNCHANGED <<pending, active, finished, refused, stopped, refs, downVars>>
    BY <1>5 DEF CloseScheduler, Pool!Close
  <2>2. "service_manager" \notin refs /\ teardown # <<>>
    BY <2>1, Left DEF Reaches
  <2> QED
    BY <1>a, <2>1, <2>2 DEF PoolInv, Pool!Known, Pool!PendingSet, downVars, Reaches, Gone, Falling
<1>6. CASE StopServices
  <2>1. /\ Reaches("service_manager") /\ UNCHANGED <<refs, downVars>>
        /\ visited > 0
    BY <1>6 DEF StopServices, Manager!StopService
  <2>2. ~closing
    BY <2>1, Left DEF PoolInv
  <2>3. Registered[visited] \in RegisteredSet
    BY <2>1, CompositionRootAssumption DEF TypeOK, RegisteredSet
  <2>4. CASE Pool!Accept(Registered[visited])
    BY <1>b, <1>c, <2>1, <2>3, <2>4
  <2>5. CASE Pool!Refuse(Registered[visited])
    BY <2>2, <2>5 DEF Pool!Refuse
  <2> QED
    BY <1>1, <1>6, <2>1, <2>4, <2>5 DEF StopServices
<1>7. ASSUME NEW e \in Events, PollMouse(e) PROVE PoolInv' /\ Typed
  <2>1. UNCHANGED <<refs, downVars>> /\ "input_driver" \in refs /\ e \in Tasks
    BY <1>7 DEF PollMouse, Tasks, FrameSafe, FrameUses
  <2>2. ~closing
    BY <2>1, OthersGone DEF PoolInv
  <2> QED
    BY <1>7, <1>c, <2>1, <2>2 DEF PollMouse, Pool!Refuse
<1>8. CASE StartDispatch
  <2>1. /\ pending # <<>> /\ pending' = Tail(pending)
        /\ active' = active \cup {Head(pending)}
        /\ UNCHANGED <<finished, refused, closing, stopped, refs, downVars>>
    BY <1>8 DEF StartDispatch, Pool!Start
  <2>2. pending' \in Seq(Tasks) /\ Head(pending) \in Tasks
    BY <1>a, <2>1
  <2>3. Pool!Known' \subseteq Tasks
    <3>1. \A i \in DOMAIN pending' : pending'[i] \in Tasks
      BY <2>2
    <3> QED
      BY <1>a, <2>1, <2>2, <3>1 DEF Pool!Known, Pool!PendingSet
  <2> QED
    BY <1>a, <2>1, <2>2, <2>3 DEF PoolInv, downVars, Reaches, Gone, Falling
<1>9. ASSUME NEW t \in Tasks, FinishDispatch(t) PROVE PoolInv' /\ Typed
  <2>1. /\ t \in active /\ active' = active \ {t} /\ finished' = finished \cup {t}
        /\ UNCHANGED <<pending, refused, closing, stopped, refs, downVars>>
    BY <1>9 DEF FinishDispatch, Pool!Finish
  <2> QED
    BY <1>a, <2>1 DEF PoolInv, downVars, Reaches, Gone, Falling, Pool!Known, Pool!PendingSet
<1> QED
  <2>1. UNCHANGED poolVars \/ UNCHANGED <<refs, downVars>> \/ StopScheduler
    BY Keeps DEF BeginTeardown, ShutdownElsewhere, Reset
  <2> QED
    BY <1>1, <1>2, <1>3, <1>4, <1>5, <1>6, <1>7, <1>8, <1>9, <2>1, Keeps

-----------------------------------------------------------------------------
(* The services *)

LEMMA ServiceStep ==
  ASSUME TypeOK, RunInv, ResetInv, PoolInv, StopInv, [Next]_vars
  PROVE  /\ StopInv'
         /\ service' \in [Manager!Places -> {"registered", "running", "failed", "stopped"}]
         /\ visited' \in 0 .. Len(Registered)
<1>a. /\ Len(Registered) \in Nat /\ Manager!Places = 1 .. Len(Registered)
      /\ DOMAIN service = Manager!Places /\ visited \in 0 .. Len(Registered)
      /\ service \in [Manager!Places -> {"registered", "running", "failed", "stopped"}]
  BY CompositionRootAssumption DEF TypeOK, Manager!Places
<1>b. /\ ResetInv' /\ teardown' \in {<<>>, ShutdownOrder, DestructionOrder}
  BY DownStep
<1>1. CASE UNCHANGED serviceVars /\ UNCHANGED <<refs, downVars>>
  BY <1>1, <1>a DEF StopInv, serviceVars, downVars
<1>2. CASE UNCHANGED serviceVars /\ UNCHANGED teardown /\ (Reset \/ StopScheduler)
  <2>1. CASE teardown = ShutdownOrder /\ "service_manager" \in refs
              /\ "service_manager" \notin refs'
    <3>1. CASE Reset
      <4>1. Falling = "service_manager" /\ CallsMade(Falling)
        BY <2>1, <3>1 DEF Reset
      <4>2. InShutdown
        BY <2>1, <3>1 DEF Reset, InShutdown
      <4>3. visited = 0
        BY <4>1, <4>2 DEF CallsMade, Manager!AllStopped
      <4> QED
        BY <1>2, <1>a, <2>1, <4>3 DEF StopInv, serviceVars
    <3>2. CASE StopScheduler
      BY <2>1, <3>2 DEF StopScheduler
    <3> QED
      BY <1>2, <3>1, <3>2
  <2>2. refs' \subseteq refs
    BY <1>2 DEF Reset, StopScheduler
  <2> QED
    BY <1>2, <1>a, <2>1, <2>2 DEF StopInv, serviceVars
<1>3. CASE StartServices
  <2>1. teardown = <<>> /\ UNCHANGED <<refs, downVars>>
    BY <1>3 DEF StartServices
  <2>2. \A i \in DOMAIN service : service[i] # "stopped"
    BY <2>1, OrdersDiffer DEF StopInv
  <2>3. CASE UNCHANGED serviceVars
    BY <1>1, <2>1, <2>3
  <2>4. CASE Manager!StartService
    BY <1>a, <2>1, <2>2, <2>4, OrdersDiffer DEF Manager!StartService, StopInv, downVars
  <2>5. CASE Manager!StartFails
    BY <1>a, <2>1, <2>2, <2>5, OrdersDiffer DEF Manager!StartFails, StopInv, downVars
  <2> QED
    BY <1>3, <2>3, <2>4, <2>5 DEF StartServices, serviceVars
<1>4. CASE BeginTeardown \/ ShutdownElsewhere
  <2>1. teardown = <<>> /\ UNCHANGED <<refs, service>>
    BY <1>4 DEF BeginTeardown, ShutdownElsewhere, Manager!StopBegins, serviceVars
  <2>2. \A i \in DOMAIN service : service[i] # "stopped"
    BY <2>1, OrdersDiffer DEF StopInv
  <2>3. refs' = Components /\ "service_manager" \in Components
    BY <2>1, Left, ComponentsAre DEF ShutdownPlace
  <2>4. CASE teardown' = ShutdownOrder /\ Manager!StopBegins
    BY <1>a, <2>1, <2>2, <2>3, <2>4 DEF StopInv, Manager!StopBegins
  <2>5. CASE teardown' = DestructionOrder /\ UNCHANGED serviceVars
    BY <1>a, <2>1, <2>2, <2>5, OrdersDiffer DEF StopInv, serviceVars
  <2> QED
    BY <1>4, <2>4, <2>5 DEF BeginTeardown, ShutdownElsewhere
<1>5. CASE StopServices
  <2>1. /\ teardown = ShutdownOrder /\ Reaches("service_manager") /\ visited > 0
        /\ service' = [service EXCEPT ![visited] = "stopped"]
        /\ visited' = visited - 1
        /\ UNCHANGED <<refs, downVars>>
    BY <1>5 DEF StopServices, InShutdown, Manager!StopService
  <2>2. "service_manager" \in refs
    BY <2>1, Left
  <2>3. \A i \in DOMAIN service : service[i] = "stopped" <=> i > visited
    BY <2>1 DEF StopInv
  <2>4. \A i \in DOMAIN service' : service'[i] = "stopped" <=> i > visited - 1
    BY <1>a, <2>1, <2>3
  <2>5. /\ service' \in [Manager!Places -> {"registered", "running", "failed", "stopped"}]
        /\ visited' \in 0 .. Len(Registered)
    BY <1>a, <2>1
  <2> QED
    BY <2>1, <2>2, <2>4, <2>5 DEF StopInv, downVars
<1> QED
  <2>1. \/ UNCHANGED serviceVars \/ UNCHANGED <<refs, downVars>>
        \/ BeginTeardown \/ ShutdownElsewhere
    BY Keeps DEF StartServices, StopServices
  <2>2. (Reset \/ StopScheduler) => UNCHANGED serviceVars /\ UNCHANGED teardown
    BY DEF Reset, StopScheduler, partVars
  <2> QED
    BY <1>1, <1>2, <1>3, <1>4, <1>5, <2>1, <2>2, Keeps

-----------------------------------------------------------------------------
(* The applications *)

LEMMA AppStep ==
  ASSUME TypeOK, RunInv, ResetInv, PoolInv, AppInv, [Next]_vars
  PROVE  /\ AppInv'
         /\ m_factories' \subseteq AppNames /\ app_desc' \subseteq AppNames
         /\ m_running_apps' \in Seq(AppNames)
         /\ phase' \in [AppNames -> {"none", "rejected", "started", "shutdown", "destroyed"}]
<1> DEFINE Phases == {"none", "rejected", "started", "shutdown", "destroyed"}
           Typed == /\ m_factories' \subseteq AppNames /\ app_desc' \subseteq AppNames
                    /\ m_running_apps' \in Seq(AppNames)
                    /\ phase' \in [AppNames -> Phases]
<1>a. /\ m_factories \subseteq AppNames /\ app_desc \subseteq AppNames
      /\ m_running_apps \in Seq(AppNames) /\ phase \in [AppNames -> Phases]
  BY DEF TypeOK
<1>b. Registry!Owned \subseteq AppNames
      /\ (m_running_apps = <<>> => Registry!Owned = {})
  BY <1>a DEF Registry!Owned
\* What run() does between the launch and the teardown leaves rpc past it.
<1>c. rpc' \in {"new", "display", "apps"} =>
        \/ rpc' = rpc
        \/ InitializeDisplay \/ RegisterApps
  BY Keeps DEF Run, LaunchApps, StartServices, RunActive, LoopTest, PollReturns,
     Update, Render
<1>d. UNCHANGED <<m_running_apps, phase>> => UNCHANGED Registry!Owned
  BY DEF Registry!Owned
<1>1. CASE UNCHANGED appVars /\ UNCHANGED <<refs, downVars>>
  <2>1. rpc' \in {"new", "display", "apps"} => rpc \in {"new", "display", "apps"}
    BY <1>c DEF InitializeDisplay, RegisterApps
  <2> QED
    BY <1>1, <1>a, <1>d, <2>1 DEF AppInv, appVars, downVars
<1>2. CASE UNCHANGED appVars /\ UNCHANGED <<refs, rpc>>
            /\ (BeginTeardown \/ ShutdownElsewhere)
  <2>1. teardown' # <<>>
    BY <1>2, OrdersDiffer DEF BeginTeardown, ShutdownElsewhere
  <2> QED
    BY <1>2, <1>a, <1>d, <2>1 DEF AppInv, appVars
<1>3. CASE UNCHANGED <<rpc, m_factories, m_running_apps, phase, teardown>> /\ Reset
  <2>1. /\ refs' = refs \ {Falling} /\ teardown # <<>> /\ CallsMade(Falling)
        /\ app_desc' = IF Falling = "running_apps" THEN {} ELSE app_desc
    BY <1>3 DEF Reset
  <2>2. "app_registry" \notin refs' => m_running_apps = <<>>
    BY <2>1 DEF AppInv, CallsMade
  <2> QED
    BY <1>3, <1>a, <1>d, <2>1, <2>2 DEF AppInv
<1>4. CASE UNCHANGED appVars /\ UNCHANGED <<rpc, teardown>> /\ StopScheduler
  <2>1. refs' = refs \ {"task_scheduler"} /\ teardown # <<>>
    BY <1>4, StopsInTurn DEF StopScheduler
  <2> QED
    BY <1>4, <1>a, <1>d, <2>1 DEF AppInv, appVars
<1>5. CASE RegisterApps
  <2>1. /\ m_factories' = m_factories \cup {"BasicFileExplorer"}
        /\ UNCHANGED <<m_running_apps, phase, app_desc, refs, downVars>>
        /\ rpc = "display"
    BY <1>5 DEF RegisterApps, Registry!RegisterApplication
  <2> QED
    BY <1>a, <1>d, <2>1 DEF AppInv, AppNames, downVars
<1>6. CASE LaunchApps
  <2>1. /\ rpc = "apps" /\ rpc' = "ready" /\ UNCHANGED <<refs, downVars>>
        /\ m_running_apps = <<>> /\ teardown = <<>>
    BY <1>6 DEF LaunchApps, AppInv, RunInv, Looping
  <2>2. CASE /\ Registry!Launch("BasicFileExplorer")
             /\ app_desc' = {m_running_apps'[Len(m_running_apps')]}
    <3>1. /\ m_running_apps' = Append(m_running_apps, "BasicFileExplorer")
          /\ phase' = [phase EXCEPT !["BasicFileExplorer"] = "started"]
          /\ UNCHANGED m_factories
      BY <2>2 DEF Registry!Launch
    <3>2. /\ m_running_apps' \in Seq(AppNames) /\ Len(m_running_apps') = 1
          /\ m_running_apps'[1] = "BasicFileExplorer"
      BY <1>a, <2>1, <3>1 DEF AppNames
    <3>3. Registry!Owned' = AppNames /\ app_desc' = AppNames
      BY <2>2, <3>2 DEF Registry!Owned, AppNames
    <3>4. phase' \in [AppNames -> Phases] /\ \A a \in AppNames : phase'[a] = "started"
      BY <1>a, <3>1 DEF AppNames
    <3>5. {"running_apps", "app_registry"} \subseteq refs'
      BY <2>1, Left, ComponentsAre DEF ShutdownPlace
    <3> QED
      BY <1>a, <2>1, <3>1, <3>2, <3>3, <3>4, <3>5 DEF AppInv
  <2>3. CASE Registry!LaunchFails("BasicFileExplorer") /\ UNCHANGED app_desc
    <3>1. /\ phase' = [phase EXCEPT !["BasicFileExplorer"] =
                         IF "BasicFileExplorer" \in m_factories THEN "rejected" ELSE @]
          /\ UNCHANGED <<m_factories, m_running_apps>>
      BY <2>3 DEF Registry!LaunchFails
    <3>2. Registry!Owned = {} /\ Registry!Owned' = {} /\ app_desc = {}
      BY <1>b, <2>1, <3>1 DEF AppInv, Registry!Owned
    <3>3. /\ phase' \in [AppNames -> Phases]
          /\ \A a \in AppNames : phase[a] \in {"none", "rejected", "destroyed"}
          /\ \A a \in AppNames : phase'[a] \in {"none", "rejected", "destroyed"}
      BY <1>a, <3>1, <3>2 DEF AppInv, AppNames
    <3> QED
      BY <1>a, <2>1, <2>3, <3>1, <3>2, <3>3 DEF AppInv
  <2> QED
    BY <1>6, <2>2, <2>3 DEF LaunchApps
<1>7. CASE TerminateApps
  <2>1. /\ Reaches("app_registry") /\ teardown # <<>>
        /\ UNCHANGED <<refs, downVars, rpc, app_desc>>
    BY <1>7 DEF TerminateApps, Reaches, runVars
  <2>2. app_desc = {}
    BY <2>1, Left DEF AppInv
  <2>3. CASE Registry!ShutdownApp
    <3>1. PICK i \in DOMAIN m_running_apps :
            /\ phase' = [phase EXCEPT ![m_running_apps[i]] = "shutdown"]
            /\ UNCHANGED <<m_factories, m_running_apps>>
      BY <2>3 DEF Registry!ShutdownApp
    <3>2. m_running_apps[i] \in Registry!Owned /\ UNCHANGED Registry!Owned
      BY <3>1 DEF Registry!Owned
    <3>3. phase' \in [AppNames -> Phases]
      BY <1>a, <1>b, <3>1, <3>2
    <3>4. \A a \in AppNames : a # m_running_apps[i] => phase'[a] = phase[a]
      BY <1>a, <3>1
    <3>5. phase'[m_running_apps[i]] = "shutdown"
      BY <1>a, <1>b, <3>1, <3>2
    <3> QED
      BY <1>a, <2>1, <2>2, <3>1, <3>2, <3>3, <3>4, <3>5 DEF AppInv, downVars
  <2>4. CASE Registry!ClearApps
    <3>1. /\ phase' = [a \in AppNames |-> IF a \in Registry!Owned THEN "destroyed" ELSE phase[a]]
          /\ m_running_apps' = <<>> /\ UNCHANGED m_factories
      BY <2>4 DEF Registry!ClearApps
    <3>2. Registry!Owned' = {}
      BY <3>1 DEF Registry!Owned
    <3>3. /\ phase' \in [AppNames -> Phases]
          /\ \A a \in AppNames : phase'[a] \in {"none", "rejected", "destroyed"}
      BY <1>a, <3>1 DEF AppInv
    <3> QED
      BY <1>a, <2>1, <2>2, <3>1, <3>2, <3>3 DEF AppInv, downVars
  <2> QED
    BY <1>7, <2>3, <2>4 DEF TerminateApps
<1> QED
  <2>1. UNCHANGED appVars \/ UNCHANGED <<refs, downVars>> \/ Reset
    BY Keeps DEF RegisterApps, LaunchApps, TerminateApps
  <2>2. BeginTeardown \/ ShutdownElsewhere => UNCHANGED appVars /\ UNCHANGED <<refs, rpc>>
    BY DEF BeginTeardown, ShutdownElsewhere, runVars
  <2>3. Reset => UNCHANGED <<rpc, m_factories, m_running_apps, phase, teardown>>
    BY DEF Reset, runVars
  <2>4. StopScheduler => UNCHANGED appVars /\ UNCHANGED <<rpc, teardown>>
    BY DEF StopScheduler, runVars, partVars
  <2> QED
    BY <1>1, <1>2, <1>3, <1>4, <1>5, <1>6, <1>7, <2>1, <2>2, <2>3, <2>4, Keeps

-----------------------------------------------------------------------------
(* The display *)

\* SDL's resources are made in a row, the texture last.
LEMMA Chained ==
  /\ Display!UpTo(0) = {}
  /\ Display!UpTo(4) = Display!UpTo(3) \cup {"texture"} /\ "texture" \in Display!UpTo(4)
  /\ \A n \in 0 .. 4 : Display!UpTo(3) \subseteq Display!UpTo(n) => n \in {3, 4}
<1>1. Display!UpTo(0) = {}
  BY DEF Display!UpTo
<1>2. Display!UpTo(1) = {"video"} /\ Display!UpTo(2) = {"video", "window"}
  BY DEF Display!UpTo, Display!Chain
<1>3. /\ Display!UpTo(3) = {"video", "window", "renderer"}
      /\ Display!UpTo(4) = {"video", "window", "renderer", "texture"}
  BY DEF Display!UpTo, Display!Chain
<1> QED
  BY <1>1, <1>2, <1>3

LEMMA DisplayStep ==
  ASSUME TypeOK, RunInv, ResetInv, PoolInv, DisplayReleased, [Next]_vars
  PROVE  DisplayReleased' /\ sdl' \in BOOLEAN /\ m_initialized' \in BOOLEAN
<1> DEFINE Resources == /\ \E n \in 0 .. 4 : resources = Display!UpTo(n)
                        /\ m_initialized /\ sdl => Display!UpTo(3) \subseteq resources
                        /\ "display_backend" \notin refs => resources = {}
           Typed == sdl' \in BOOLEAN /\ m_initialized' \in BOOLEAN
<1>a. sdl \in BOOLEAN /\ m_initialized \in BOOLEAN
  BY DEF TypeOK
<1>b. /\ "display_backend" \in Alive <=> "display_backend" \in refs
      /\ "display_backend" \in Alive' <=> "display_backend" \in refs'
  BY AliveIsLeft, DownStep, RunHoldsIpc
<1>c. Resources
  BY <1>b DEF DisplayReleased
<1>d. Resources' => DisplayReleased'
  BY <1>b DEF DisplayReleased
<1>f. resources' = {} => \E n \in 0 .. 4 : resources' = Display!UpTo(n)
  BY Chained
\* As long as nothing goes down, the backend is there.
<1>e. teardown = <<>> /\ UNCHANGED refs => "display_backend" \in refs'
  BY Left, ComponentsAre DEF ShutdownPlace
<1>1. CASE UNCHANGED displayVars /\ refs' \subseteq refs
            /\ ("display_backend" \in refs /\ "display_backend" \notin refs' => resources = {})
  BY <1>1, <1>a, <1>c, <1>d DEF displayVars
<1>2. CASE InitializeDisplay
  <2>1. teardown = <<>> /\ UNCHANGED <<refs, sdl>>
        /\ Display!InitializeDisplay
    BY <1>2 DEF InitializeDisplay, Display!InitializeDisplay
  <2>2. PICK n \in IF sdl THEN 0 .. 3 ELSE {0} :
          resources' = Display!UpTo(n) /\ m_initialized' = (sdl => n = 3)
    BY <2>1 DEF Display!InitializeDisplay
  <2>3. n \in 0 .. 4
    BY <2>2
  <2>4. m_initialized' \in BOOLEAN
    BY <1>a, <2>2
  <2>5. m_initialized' /\ sdl => n = 3
    BY <1>a, <2>2
  <2> QED
    BY <1>a, <1>d, <1>e, <2>1, <2>2, <2>3, <2>4, <2>5
<1>3. CASE Render
  <2>1. UNCHANGED refs /\ "display_backend" \in refs
    <3>1. UNCHANGED refs /\ "compositor" \in refs
      BY <1>3 DEF Render, FrameSafe, FrameUses
    <3>2. "display_backend" \in Holds("compositor")
      BY DEF Holds
    <3> QED
      BY <3>1, <3>2, Left
  <2>2. CASE Display!Flush
    <3>1. /\ m_initialized /\ UNCHANGED <<sdl, m_initialized>>
          /\ resources' = IF sdl THEN resources \cup {"texture"} ELSE {}
      BY <2>2 DEF Display!Flush
    <3>2. CASE sdl
      <4>1. PICK n \in 0 .. 4 : resources = Display!UpTo(n)
        BY <1>c
      <4>2. n \in {3, 4}
        BY <1>c, <3>1, <3>2, <4>1, Chained
      <4>3. resources' = Display!UpTo(4) /\ Display!UpTo(3) \subseteq Display!UpTo(4)
        BY <3>1, <3>2, <4>1, <4>2, Chained
      <4>4. \E m \in 0 .. 4 : resources' = Display!UpTo(m)
        BY <4>3
      <4> QED
        BY <1>a, <1>d, <1>e, <2>1, <3>1, <4>3, <4>4
    <3>3. CASE ~sdl
      BY <1>a, <1>d, <1>e, <1>f, <2>1, <3>1, <3>3
    <3> QED
      BY <1>a, <3>2, <3>3
  <2>3. CASE Display!FlushFails
    BY <1>1, <2>1, <2>3 DEF Display!FlushFails, Display!displayVars, displayVars
  <2> QED
    BY <1>3, <2>2, <2>3 DEF Render
<1>4. CASE ShutdownDisplay
  <2>1. /\ resources' = {} /\ m_initialized' = FALSE /\ UNCHANGED <<sdl, refs>>
    BY <1>4 DEF ShutdownDisplay, Display!ShutdownDisplay, Display!ReleaseContext
  <2> QED
    BY <1>a, <1>d, <1>f, <2>1
<1>5. CASE Reset
  <2>1. refs' \subseteq refs
    BY <1>5 DEF Reset
  <2>2. CASE "display_backend" \in Alive /\ "display_backend" \notin Alive'
    <3>1. resources' = {} /\ m_initialized' = FALSE /\ UNCHANGED sdl
      BY <1>5, <2>2 DEF Reset, Display!DestroyDisplay, Display!ReleaseContext
    <3> QED
      BY <1>a, <1>d, <1>f, <3>1
  <2>3. CASE ~("display_backend" \in Alive /\ "display_backend" \notin Alive')
    <3>1. UNCHANGED displayVars
      BY <1>5, <2>3 DEF Reset
    <3> QED
      BY <1>1, <1>b, <2>1, <2>3, <3>1
  <2> QED
    BY <2>2, <2>3
<1>6. CASE UNCHANGED displayVars /\ ~Reset
  <2>1. refs' \subseteq refs /\ ("display_backend" \in refs => "display_backend" \in refs')
    BY <1>6, Keeps DEF BeginTeardown, ShutdownElsewhere, StopScheduler
  <2> QED
    BY <1>1, <1>6, <2>1
<1> QED
  BY <1>2, <1>3, <1>4, <1>5, <1>6, Keeps

-----------------------------------------------------------------------------
(* The invariant *)

LEMMA InitInv == Init => Inv
<1> SUFFICES ASSUME Init PROVE Inv
  OBVIOUS
<1> USE DEF Init, Pool!Init, Manager!ServiceInit, Registry!RegistryInit, Display!DisplayInit
<1>1. Pool!Known = {} /\ pending = <<>> /\ Registry!Owned = {}
  BY DEF Pool!Known, Pool!PendingSet, Registry!Owned
<1>2. Len(Registered) \in Nat
  BY CompositionRootAssumption
<1>3. TypeOK
  <2>1. /\ service \in [Manager!Places -> {"registered", "running", "failed", "stopped"}]
        /\ visited \in 0 .. Len(Registered)
    BY <1>2
  <2>2. /\ m_factories \subseteq AppNames /\ app_desc \subseteq AppNames
        /\ m_running_apps \in Seq(AppNames)
        /\ phase \in [AppNames -> {"none", "rejected", "started", "shutdown", "destroyed"}]
    OBVIOUS
  <2>3. /\ down \in 0 .. Len(teardown)
        /\ teardown \in {<<>>, ShutdownOrder, DestructionOrder}
    OBVIOUS
  <2>4. /\ Pool!Known \subseteq Events \cup RegisteredSet
        /\ pending \in Seq(Events \cup RegisteredSet)
    BY <1>1
  <2>5. /\ refs \subseteq Components
        /\ m_is_running \in BOOLEAN /\ quit \in BOOLEAN /\ stop_seen \in BOOLEAN
        /\ rpc = "new" /\ sdl \in BOOLEAN /\ m_initialized \in BOOLEAN
    OBVIOUS
  <2>6. closing \in BOOLEAN /\ stopped \in BOOLEAN
    OBVIOUS
  <2> QED
    BY <2>1, <2>2, <2>3, <2>4, <2>5, <2>6 DEF TypeOK
<1>4. ResetInv /\ RunInv
  BY DEF ResetInv, RunInv
<1>5. PoolInv
  <2>1. "task_scheduler" \in refs
    BY ComponentsAre DEF ShutdownPlace
  <2> QED
    BY <2>1 DEF PoolInv
<1>6. StopInv
  BY OrdersDiffer DEF StopInv
<1>7. AppInv
  BY <1>1 DEF AppInv
<1>8. DisplayReleased
  BY <1>3, <1>4, Chained DEF DisplayReleased
<1> QED
  BY <1>3, <1>4, <1>5, <1>6, <1>7, <1>8 DEF Inv

LEMMA Induction == Inv /\ [Next]_vars => Inv'
<1> SUFFICES ASSUME Inv, [Next]_vars PROVE Inv'
  OBVIOUS
<1> USE DEF Inv
<1>1. RunInv' /\ ResetInv' /\ PoolInv' /\ StopInv' /\ AppInv' /\ DisplayReleased'
  BY RunStep, DownStep, PoolStep, ServiceStep, AppStep, DisplayStep
<1>2. TypeOK'
  <2>1. Pool!Known' \subseteq Events \cup RegisteredSet
        /\ pending' \in Seq(Events \cup RegisteredSet)
    BY PoolStep DEF Tasks
  <2> QED
    BY <2>1, RunStep, DownStep, PoolStep, ServiceStep, AppStep, DisplayStep DEF TypeOK
<1> QED
  BY <1>1, <1>2

\* Whatever fails and whichever way down is taken, these hold.
THEOREM Invariance == Spec => []Inv
BY InitInv, Induction, PTL DEF Spec

-----------------------------------------------------------------------------
(* What follows *)

\* The state of the root and of the components in its hands keeps its types.
THEOREM TypeCorrect == Spec => []TypeOK
<1>1. Inv => TypeOK
  BY DEF Inv
<1> QED
  BY <1>1, Invariance, PTL

\* The logger and the scheduler outlive what keeps a reference to them, and the
\* root's list points to started applications only, in both orders.
THEOREM FoundationsOutlive == Spec => []ReferencesLive
<1>1. Inv => ReferencesLive
  BY AliveIsLeft, Left, RunHoldsIpc DEF Inv, ReferencesLive, AppInv
<1> QED
  BY <1>1, Invariance, PTL

\* Each reset destroys its component there and then, but for run()'s share.
THEOREM OrderOfDestruction == Spec => []ResetDestroys
<1>1. Inv => ResetDestroys
  BY AliveIsLeft DEF Inv, ResetDestroys
<1> QED
  BY <1>1, Invariance, PTL

\* Nothing is handed to a scheduler that is closed: it closes last.
THEOREM SchedulerClosesLast == Spec => []NothingRefused
<1>1. Inv => NothingRefused
  BY OthersGone, AliveIsLeft DEF Inv, NothingRefused, PoolInv
<1> QED
  BY <1>1, Invariance, PTL

\* shutdown() stops every service, in reverse order, and their last tasks run.
THEOREM ServicesAreStopped == Spec => []ServicesStopped
<1>1. Inv => ServicesStopped
  <2> SUFFICES ASSUME Inv PROVE ServicesStopped
    OBVIOUS
  <2>1. /\ DOMAIN service = 1 .. Len(Registered) /\ visited \in 0 .. Len(Registered)
        /\ Len(Registered) \in Nat
    BY CompositionRootAssumption DEF Inv, TypeOK, Manager!Places
  <2>2. \A i, j \in DOMAIN service :
          i < j /\ service[i] = "stopped" => service[j] = "stopped"
    BY <2>1 DEF Inv, StopInv
  <2>3. ASSUME Gone, teardown = ShutdownOrder
        PROVE  /\ \A i \in DOMAIN service : service[i] = "stopped"
               /\ Pool!Known \cap RegisteredSet \subseteq finished
    <3>1. refs = {}
      BY <2>3, Left DEF Inv
    <3>2. visited = 0 /\ stopped
      BY <2>3, <3>1 DEF Inv, StopInv, PoolInv
    <3>3. \A i \in DOMAIN service : service[i] = "stopped"
      BY <2>1, <2>3, <3>2 DEF Inv, StopInv
    <3>4. Pool!Known \cap RegisteredSet \subseteq finished
      BY <3>2 DEF Inv, PoolInv, Pool!Known, Pool!PendingSet
    <3> QED
      BY <3>3, <3>4
  <2> QED
    BY <2>2, <2>3 DEF ServicesStopped
<1> QED
  BY <1>1, Invariance, PTL

\* What SDL gave is given back, whichever step failed and on both ways down.
THEOREM DisplayIsReleased == Spec => []DisplayReleased
<1>1. Inv => DisplayReleased
  BY DEF Inv
<1> QED
  BY <1>1, Invariance, PTL

\* Applications are shut down before they are destroyed, and in time.
THEOREM AppsEnd == Spec => AppsEndInOrder
<1> DEFINE InOrder ==
      \A a \in DOMAIN phase :
        /\ phase'[a] = "destroyed" /\ phase[a] # "destroyed" =>
             phase[a] = "shutdown" /\ {"vfs", "widget_toolkit"} \subseteq Alive
        /\ ~Gone /\ Gone' => phase[a] \in {"none", "rejected", "destroyed"}
<1>1. Inv /\ [Next]_vars => [InOrder]_vars
  <2> SUFFICES ASSUME Inv, Next, NEW a \in DOMAIN phase
               PROVE  /\ phase'[a] = "destroyed" /\ phase[a] # "destroyed" =>
                           phase[a] = "shutdown" /\ {"vfs", "widget_toolkit"} \subseteq Alive
                      /\ ~Gone /\ Gone' => phase[a] \in {"none", "rejected", "destroyed"}
    OBVIOUS
  <2>1. ASSUME phase'[a] = "destroyed", phase[a] # "destroyed"
        PROVE  phase[a] = "shutdown" /\ {"vfs", "widget_toolkit"} \subseteq Alive
    <3>1. a \in AppNames
      BY DEF Inv, TypeOK
    <3>2. TerminateApps
      <4>1. ~(UNCHANGED phase)
        BY <2>1
      <4>2. ~RegisterApps /\ ~Reset /\ ~UNCHANGED appVars
        BY <4>1 DEF RegisterApps, Registry!RegisterApplication, Reset, appVars
      <4>3. ~LaunchApps
        BY <2>1 DEF LaunchApps, Registry!Launch, Registry!LaunchFails, Inv, TypeOK
      <4> QED
        BY <4>2, <4>3, Keeps
    <3>3. phase[a] = "shutdown"
      BY <2>1, <3>1, <3>2
         DEF TerminateApps, Registry!ShutdownApp, Registry!ClearApps, Inv, TypeOK
    <3>4. "app_registry" \in refs
      BY <3>2, Left DEF TerminateApps, Inv
    <3>5. Holds("app_registry") = {"vfs", "widget_toolkit"}
      BY DEF Holds
    <3> QED
      BY <3>3, <3>4, <3>5, Left, AliveIsLeft DEF Inv
  <2>2. ASSUME ~Gone, Gone'
        PROVE  phase[a] \in {"none", "rejected", "destroyed"}
    <3>1. a \in AppNames
      BY DEF Inv, TypeOK
    <3>2. BeginTeardown \/ ShutdownElsewhere \/ Reset \/ StopScheduler
      BY <2>2, Keeps DEF Gone, downVars
    <3>3. UNCHANGED <<m_running_apps, phase>>
      BY <3>2 DEF BeginTeardown, ShutdownElsewhere, Reset, StopScheduler, partVars, appVars
    <3>4. m_running_apps = <<>>
      <4>1. ResetInv' /\ AppInv' /\ teardown' \in {<<>>, ShutdownOrder, DestructionOrder}
        BY DownStep, AppStep DEF Inv
      <4>2. teardown' # <<>> /\ down' = Len(teardown') /\ Len(teardown') \in Nat
        BY <2>2, <4>1, ShutdownSound, DestructionSound DEF Gone, Sound
      <4>3. refs' = {}
        BY <4>1, <4>2 DEF ResetInv
      <4> QED
        BY <3>3, <4>1, <4>3 DEF AppInv
    <3> QED
      BY <3>1, <3>4 DEF Inv, AppInv, Registry!Owned
  <2> QED
    BY <2>1, <2>2
<1> QED
  BY <1>1, Invariance, PTL DEF Spec, AppsEndInOrder
=============================================================================
