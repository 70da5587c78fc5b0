------------------------- MODULE ApplicationRegistry -------------------------
(***************************************************************************)
(* ApplicationRegistry: factories by name and the instances it owns, in    *)
(* the order they were launched.  Nothing in the repository launches an    *)
(* application twice, so an instance goes by its name.                     *)
(***************************************************************************)
EXTENDS Integers, Sequences

CONSTANT Apps

VARIABLES
  m_factories,
  m_running_apps,  \* the instances owned
  phase            \* history: the last thing that was done with an instance

registryVars == <<m_factories, m_running_apps, phase>>

Owned == {m_running_apps[i] : i \in DOMAIN m_running_apps}

RegistryInit ==
  /\ m_factories = {} /\ m_running_apps = <<>>
  /\ phase = [a \in Apps |-> "none"]

RegisterApplication(a) ==
  /\ a \notin m_factories
  /\ m_factories' = m_factories \cup {a}
  /\ UNCHANGED <<m_running_apps, phase>>

Launch(a) ==
  /\ a \in m_factories
  /\ phase' = [phase EXCEPT ![a] = "started"]
  /\ m_running_apps' = Append(m_running_apps, a)
  /\ UNCHANGED m_factories

\* No factory, a factory that returns nothing, or an instance that fails to
\* initialize and is destroyed at once.
LaunchFails(a) ==
  /\ phase' = [phase EXCEPT ![a] = IF a \in m_factories THEN "rejected" ELSE @]
  /\ UNCHANGED <<m_factories, m_running_apps>>

\* terminate_all(): every instance is shut down ...
ShutdownApp ==
  \E i \in DOMAIN m_running_apps :
    /\ \A j \in DOMAIN m_running_apps :
         j < i => phase[m_running_apps[j]] = "shutdown"
    /\ phase[m_running_apps[i]] = "started"
    /\ phase' = [phase EXCEPT ![m_running_apps[i]] = "shutdown"]
    /\ UNCHANGED <<m_factories, m_running_apps>>

\* Mutant: the instances are destroyed without having been shut down.
ClearAppsEarly ==
  /\ phase' = [a \in Apps |-> IF a \in Owned THEN "destroyed" ELSE phase[a]]
  /\ m_running_apps' = <<>>
  /\ UNCHANGED m_factories

\* ... and then all are destroyed.
ClearApps ==
  /\ \A a \in Owned : phase[a] = "shutdown"
  /\ phase' = [a \in Apps |-> IF a \in Owned THEN "destroyed" ELSE phase[a]]
  /\ m_running_apps' = <<>>
  /\ UNCHANGED m_factories
=============================================================================
