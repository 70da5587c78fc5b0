---------------------------- MODULE PluginManager ----------------------------
(***************************************************************************)
(* BasicPluginManager, its LoadedPlugin objects and the plugins behind     *)
(* them.  load_plugin(), unload_plugin() and the destructor hold m_mutex   *)
(* from end to end, so there is one operation at a time; what interleaves  *)
(* with it are the tasks plugins gave to the scheduler (TaskPool).  A task *)
(* is code of the library: it needs the library mapped when it runs.       *)
(*                                                                         *)
(* A library is mapped as long as an object holds it: the LoadedPlugin of  *)
(* the manager, or a destroyed one that a client still has a shared        *)
(* pointer to.                                                             *)
(***************************************************************************)
EXTENDS Integers, Sequences, FiniteSets

CONSTANTS
  Libraries,     \* paths given to load_plugin()
  PluginName,    \* the name in the manifest of a library
  Defect,        \* why a library is not fit to be loaded, or "none"
  MaxTasks,      \* bound on the tasks a library schedules
  ThreadCount,   \* workers of the scheduler
  None

PluginFunctions ==
  {"create", "initialize", "register_services", "start", "stop", "shutdown",
   "destroy"}

ASSUME PluginManagerAssumption ==
  /\ None \notin Libraries \cup PluginFunctions
  /\ \A p \in Libraries :
       Defect[p] \in {"none", "FileNotFound", "InvalidABI", "VersionMismatch"}
  /\ MaxTasks \in Nat /\ ThreadCount \in Nat \ {0}

Names == {PluginName[p] : p \in Libraries}
Tasks == Libraries \X (1 .. MaxTasks)

VARIABLES
  pending, active, finished, refused, closing, stopped,  \* the scheduler
  m_plugins,  \* name -> library, or None
  m_state,    \* PluginState of the LoadedPlugin of a library, "none" without
  op,         \* "idle", "load", "abort", "unload", "destructor" or "gone"
  subject,    \* the library the operation works on, or None
  inside,     \* the function of the plugin being called, or None
  client,     \* libraries whose plugin a client has a shared pointer to
  zombie,     \* the same, for plugins that were unloaded since
  calls       \* history: the calls of the plugin functions since the load

Pool == INSTANCE TaskPool

poolVars == <<pending, active, finished, refused, closing, stopped>>
managerVars == <<m_plugins, m_state, op, subject, inside, calls>>
clientVars == <<client, zombie>>
vars == <<poolVars, managerVars, clientVars>>

PluginStates ==
  {"Loaded", "Created", "Initialized", "ServicesRegistered", "Started",
   "Running", "Stopped", "Shutdown", "Destroyed"}

Registered == {p \in Libraries : \E n \in Names : m_plugins[n] = p}
Mapped(p) == m_state[p] # "none" \/ p \in zombie
TasksOf(p) == {t \in active \cup Pool!PendingSet : t[1] = p}

TypeOK ==
  /\ Pool!Known \subseteq Tasks /\ pending \in Seq(Tasks)
  /\ m_plugins \in [Names -> Libraries \cup {None}]
  /\ m_state \in [Libraries -> PluginStates \cup {"none"}]
  /\ op \in {"idle", "load", "abort", "unload", "destructor", "gone"}
  /\ subject \in Libraries \cup {None}
  /\ inside \in PluginFunctions \cup {None}
  /\ client \subseteq Registered /\ zombie \subseteq Libraries
  /\ \A n \in Names : m_plugins[n] # None => PluginName[m_plugins[n]] = n
  /\ calls \in [Libraries -> Seq(PluginFunctions \cup {"failed"})]

Init ==
  /\ Pool!Init
  /\ m_plugins = [n \in Names |-> None]
  /\ m_state = [p \in Libraries |-> "none"]
  /\ op = "idle" /\ subject = None /\ inside = None
  /\ client = {} /\ zombie = {}
  /\ calls = [p \in Libraries |-> <<>>]

-----------------------------------------------------------------------------
(* load_plugin() *)

\* The library is opened, the manifest read, version, name and symbols checked.
\* A library that fails one of the checks is closed again and nothing changes.
Load(p) ==
  /\ op = "idle"
  /\ Defect[p] = "none" /\ m_plugins[PluginName[p]] = None
  /\ op' = "load" /\ subject' = p
  /\ m_state' = [m_state EXCEPT ![p] = "Loaded"]
  /\ calls' = [calls EXCEPT ![p] = <<>>]
  /\ UNCHANGED <<poolVars, m_plugins, inside, clientVars>>

\* transition_create(), _initialize(), _register_services() and _start(): the
\* state each expects, the function it calls and the state it leads to.
Up == [Loaded |-> <<"create", "Created">>,
       Created |-> <<"initialize", "Initialized">>,
       Initialized |-> <<"register_services", "ServicesRegistered">>,
       ServicesRegistered |-> <<"start", "Started">>]

\* Mutant: a plugin that never started is destroyed without its shutdown.
DownWithoutShutdown(s) ==
  CASE s \in {"Started", "Running"} -> <<"stop", "Stopped">>
    [] s = "Stopped" -> <<"shutdown", "Shutdown">>
    [] s \in {"Created", "Initialized", "ServicesRegistered", "Shutdown"} ->
         <<"destroy", "Destroyed">>

\* transition_stop(), _shutdown() and _destroy(), of which those that do not
\* expect the state do nothing.
Down(s) ==
  CASE s \in {"Started", "Running"} -> <<"stop", "Stopped">>
    [] s \in {"Initialized", "ServicesRegistered", "Stopped"} ->
         <<"shutdown", "Shutdown">>
    [] s \in {"Created", "Shutdown"} -> <<"destroy", "Destroyed">>

\* The plugin function that the operation calls next.
Call(f) ==
  /\ inside = None
  /\ inside' = f
  /\ calls' = [calls EXCEPT ![subject] = Append(@, f)]
  /\ UNCHANGED <<poolVars, m_plugins, m_state, op, subject, clientVars>>

CallUp ==
  /\ op = "load" /\ m_state[subject] \in DOMAIN Up
  /\ Call(Up[m_state[subject]][1])

UpSucceeds ==
  /\ op = "load" /\ inside # None
  /\ m_state' = [m_state EXCEPT ![subject] = Up[@][2]]
  /\ inside' = None
  /\ UNCHANGED <<poolVars, m_plugins, op, subject, calls, clientVars>>

\* Mutant: the plugin is dropped without its destructor.
UpFailsLeaking ==
  /\ op = "load" /\ inside # None
  /\ m_state' = [m_state EXCEPT ![subject] = "none"]
  /\ op' = "idle" /\ subject' = None /\ inside' = None
  /\ UNCHANGED <<poolVars, m_plugins, calls, clientVars>>

\* InitFailed: the local shared pointer goes, still under m_mutex.
UpFails ==
  /\ op = "load" /\ inside # None
  /\ op' = "abort" /\ inside' = None
  /\ calls' = [calls EXCEPT ![subject] = Append(@, "failed")]
  /\ UNCHANGED <<poolVars, m_plugins, m_state, subject, clientVars>>

\* transition_to_running(); the caller may keep the shared pointer it gets.
Register(keep) ==
  /\ op = "load" /\ m_state[subject] = "Started"
  /\ m_state' = [m_state EXCEPT ![subject] = "Running"]
  /\ m_plugins' = [m_plugins EXCEPT ![PluginName[subject]] = subject]
  /\ client' = IF keep THEN client \cup {subject} ELSE client
  /\ op' = "idle" /\ subject' = None
  /\ UNCHANGED <<poolVars, inside, calls, zombie>>

-----------------------------------------------------------------------------
(* The way down: ~LoadedPlugin(), unload_plugin(), ~BasicPluginManager() *)

\* A state that no transition expects ends the destructor.
Over(p) == m_state[p] \in {"Loaded", "Destroyed"}

CallDown ==
  /\ op \in {"abort", "unload", "destructor"} /\ subject # None
  /\ ~Over(subject)
  /\ Call(Down(m_state[subject])[1])

DownReturns ==
  /\ op \in {"abort", "unload", "destructor"} /\ inside # None
  /\ m_state' = [m_state EXCEPT ![subject] = Down(@)[2]]
  /\ inside' = None
  /\ UNCHANGED <<poolVars, m_plugins, op, subject, calls, clientVars>>

\* The last shared pointer inside the manager goes, and with it the object
\* unless a client still holds it.
Discard(ps) ==
  /\ m_state' = [p \in Libraries |-> IF p \in ps THEN "none" ELSE m_state[p]]
  /\ client' = client \ ps
  /\ zombie' = zombie \cup (client \cap ps)

AbortEnds ==
  /\ op = "abort" /\ inside = None /\ Over(subject)
  /\ Discard({subject})
  /\ op' = "idle" /\ subject' = None
  /\ UNCHANGED <<poolVars, m_plugins, inside, calls>>

\* An unknown name changes nothing.
Unload(n) ==
  /\ op = "idle" /\ m_plugins[n] # None
  /\ op' = "unload" /\ subject' = m_plugins[n]
  /\ UNCHANGED <<poolVars, m_plugins, m_state, inside, calls, clientVars>>

\* Mutant: unloading leaves it to ~LoadedPlugin() to take the plugin down, which
\* does not run while a client has a pointer to the object.
UnloadEndsEarly ==
  /\ op = "unload" /\ inside = None /\ (Over(subject) \/ subject \in client)
  /\ m_plugins' = [m_plugins EXCEPT ![PluginName[subject]] = None]
  /\ Discard({subject})
  /\ op' = "idle" /\ subject' = None
  /\ UNCHANGED <<poolVars, inside, calls>>

UnloadEnds ==
  /\ op = "unload" /\ inside = None /\ Over(subject)
  /\ m_plugins' = [m_plugins EXCEPT ![PluginName[subject]] = None]
  /\ Discard({subject})
  /\ op' = "idle" /\ subject' = None
  /\ UNCHANGED <<poolVars, inside, calls>>

\* The destructor takes the plugins down in no particular order and clears the
\* map when it is through with all of them.
Destruct(p) ==
  /\ \/ op = "idle" /\ inside = None
     \/ op = "destructor" /\ inside = None
        /\ (subject = None \/ Over(subject))
  /\ p \in Registered /\ ~Over(p)
  /\ op' = "destructor" /\ subject' = p
  /\ UNCHANGED <<poolVars, m_plugins, m_state, inside, calls, clientVars>>

DestructEnds ==
  /\ op \in {"idle", "destructor"} /\ inside = None
  /\ \A p \in Registered : Over(p)
  /\ m_plugins' = [n \in Names |-> None]
  /\ Discard(Registered)
  /\ op' = "gone" /\ subject' = None
  /\ UNCHANGED <<poolVars, inside, calls>>
-----------------------------------------------------------------------------
(* Clients, plugins and the scheduler *)

\* get_active_plugins().
GetActive(p) ==
  /\ op = "idle" /\ p \in Registered \ client
  /\ client' = client \cup {p}
  /\ UNCHANGED <<poolVars, managerVars, zombie>>

\* A client lets go.  Only of a plugin that was unloaded it is the last to.
Release(p) ==
  /\ p \in client \cup zombie
  /\ client' = client \ {p} /\ zombie' = zombie \ {p}
  /\ UNCHANGED <<poolVars, managerVars>>

\* The context that initialize() was given lives as long as the object.
HasContext(p) ==
  \/ p \in zombie
  \/ m_state[p] # "none" /\ \E i \in DOMAIN calls[p] : calls[p][i] = "initialize"

\* PluginContext::schedule_task(): from a function of the plugin, from one of its
\* tasks or from a thread of its own.
Schedule(t) ==
  /\ HasContext(t[1])
  /\ Pool!Accept(t) \/ Pool!Refuse(t)
  /\ UNCHANGED <<managerVars, clientVars>>

StartTask ==
  /\ Cardinality(active) < ThreadCount
  /\ Pool!Start
  /\ UNCHANGED <<managerVars, clientVars>>

\* Mutant: tasks call the manager and wait for m_mutex.
FinishTaskLocking(t) ==
  op \in {"idle", "gone"} /\ Pool!Finish(t) /\ UNCHANGED <<managerVars, clientVars>>

FinishTask(t) == Pool!Finish(t) /\ UNCHANGED <<managerVars, clientVars>>

\* The composition root destroys the manager before the scheduler.
Close == op = "gone" /\ Pool!Close /\ UNCHANGED <<managerVars, clientVars>>
Stop == Pool!Stop /\ UNCHANGED <<managerVars, clientVars>>

Terminated == stopped /\ client \cup zombie = {} /\ UNCHANGED vars

-----------------------------------------------------------------------------
Operation ==
  \/ CallUp \/ UpSucceeds \/ UpFails \/ \E k \in BOOLEAN : Register(k)
  \/ CallDown \/ DownReturns \/ AbortEnds \/ UnloadEnds
  \/ op = "destructor" /\ (DestructEnds \/ \E p \in Libraries : Destruct(p))

Next ==
  \/ \E p \in Libraries : Load(p) \/ Destruct(p) \/ GetActive(p) \/ Release(p)
  \/ \E n \in Names : Unload(n)
  \/ CallUp \/ UpSucceeds \/ UpFails \/ \E k \in BOOLEAN : Register(k)
  \/ CallDown \/ DownReturns \/ AbortEnds \/ UnloadEnds \/ DestructEnds
  \/ \E t \in Tasks : Schedule(t) \/ FinishTask(t)
  \/ StartTask \/ Close \/ Stop \/ Terminated

Spec == Init /\ [][Next]_vars

\* A function of a plugin may wait for the tasks of the plugin: it is certain to
\* return only once none is left.
OperationGoesOn == (inside # None => TasksOf(subject) = {}) /\ Operation

\* The thread of an operation goes on, and workers take what is queued and finish
\* it.
FairSpec ==
  /\ Spec
  /\ WF_vars(OperationGoesOn)
  /\ WF_vars(StartTask) /\ \A t \in Tasks : WF_vars(FinishTask(t))

-----------------------------------------------------------------------------
(* Properties *)

\* The lives of a plugin that the framework document allows: the functions of
\* the start-up phase in order up to the first that fails, then those of the
\* shutdown phase that undo what was done.
Lives ==
  { <<"create", "initialize", "register_services", "start",
      "stop", "shutdown", "destroy">>,
    <<"create", "failed">>,
    <<"create", "initialize", "failed", "destroy">>,
    <<"create", "initialize", "register_services", "failed",
      "shutdown", "destroy">>,
    <<"create", "initialize", "register_services", "start", "failed",
      "shutdown", "destroy">> }

\* Whatever fails, and whoever takes the plugin down, its functions are called
\* in the order of one of these lives and none of them twice.
LifecycleKept ==
  \A p \in Libraries :
    \E l \in Lives : /\ Len(calls[p]) <= Len(l)
                    /\ calls[p] = SubSeq(l, 1, Len(calls[p]))

\* "Any failure during the startup phase immediately triggers the shutdown
\* phase": a plugin that is neither registered nor being worked on has lived
\* its life to the end, or was never called.
NothingLeftBehind ==
  \A p \in Libraries \ (Registered \cup {subject}) :
    calls[p] \in Lives \cup {<<>>}

\* A plugin lives from its first function to the last of its life.
Living(p) == calls[p] # <<>> /\ calls[p] \notin Lives

\* A name is taken by one plugin: of two libraries of one name, one does not
\* begin to live before the other has lived to the end, though clients hold on to
\* plugins that were unloaded and loads fail half way.
OneOfAName ==
  \A p, q \in Libraries :
    p # q /\ PluginName[p] = PluginName[q] => ~(Living(p) /\ Living(q))

\* An operation holds m_mutex and calls into plugins that may wait for workers:
\* it ends all the same, and m_mutex is free again.
OperationsEnd == op # "idle" ~> op \in {"idle", "gone"}

\* "Any failure ... safely tears down the partial state" and unloading is safe:
\* the code and the context of a plugin are there while its tasks run.
TasksMapped == \A t \in active : Mapped(t[1])

-----------------------------------------------------------------------------
(* The inductive invariant. *)

\* The states an operation finds and leaves the plugin in that it works on.
Phase ==
  [load |-> {"Loaded", "Created", "Initialized", "ServicesRegistered", "Started"},
   abort |-> {"Loaded", "Created", "Initialized", "ServicesRegistered",
              "Shutdown", "Destroyed"},
   unload |-> {"Running", "Stopped", "Shutdown", "Destroyed"},
   destructor |-> {"Running", "Stopped", "Shutdown", "Destroyed"}]

\* Registered plugins run unless they are worked on, or the destructor is
\* through with them; a plugin that is neither registered nor worked on has no
\* object.
PhaseInv ==
  /\ op \in {"idle", "gone"} <=> subject = None
  /\ subject = None => inside = None
  /\ subject # None => m_state[subject] \in Phase[op]
  /\ op \in {"load", "abort"} => m_plugins[PluginName[subject]] = None
  /\ op \in {"unload", "destructor"} => subject \in Registered
  /\ \A p \in Registered \ {subject} :
       \/ m_state[p] = "Running"
       \/ op = "destructor" /\ m_state[p] = "Destroyed"
  /\ \A p \in Libraries \ (Registered \cup {subject}) : m_state[p] = "none"

\* The function being called is the one the state of the plugin calls for.
InsideInv ==
  inside # None =>
    IF op = "load"
      THEN m_state[subject] \in DOMAIN Up /\ inside = Up[m_state[subject]][1]
      ELSE ~Over(subject) /\ inside = Down(m_state[subject])[1]

\* The life of a plugin that nothing goes wrong with.
FullLife ==
  <<"create", "initialize", "register_services", "start", "stop", "shutdown",
    "destroy">>

From(k) == SubSeq(FullLife, k, Len(FullLife))

\* Where in the full life a state goes on: on the way up, if all goes well, and
\* on the way down.
Coming ==
  [Loaded |-> 1, Created |-> 2, Initialized |-> 3, ServicesRegistered |-> 4,
   Started |-> 5]

Remaining ==
  [Running |-> 5, Initialized |-> 6, ServicesRegistered |-> 6, Stopped |-> 6,
   Created |-> 7, Shutdown |-> 7, Loaded |-> 8, Destroyed |-> 8]

\* What is still to be called of the plugin worked on: the function it is in was
\* called already.
AheadUp == From(Coming[m_state[subject]] + (IF inside = None THEN 0 ELSE 1))
AheadDown == From(Remaining[m_state[subject]] + (IF inside = None THEN 0 ELSE 1))

\* What was called of a plugin and what is still to be called make up a life.
LifeInv ==
  /\ op = "load" => calls[subject] \o AheadUp = FullLife
  /\ op \in {"abort", "unload", "destructor"} => calls[subject] \o AheadDown \in Lives
  /\ \A p \in Registered \ {subject} : calls[p] \o From(Remaining[m_state[p]]) \in Lives
  /\ \A p \in Libraries \ (Registered \cup {subject}) :
       calls[p] \in Lives \cup {<<>>}

Inv == TypeOK /\ PhaseInv /\ InsideInv /\ LifeInv
=============================================================================
