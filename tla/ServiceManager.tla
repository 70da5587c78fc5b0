---------------------------- MODULE ServiceManager ----------------------------
(***************************************************************************)
(* BasicServiceManager: start_all() starts the registered services in      *)
(* order and gives up at the first that fails; stop_all() stops all of     *)
(* them in reverse order, those that never started included.  Both hold    *)
(* m_mutex throughout; a service is one step of the loop.                  *)
(***************************************************************************)
EXTENDS Integers, Sequences

CONSTANT m_services  \* the services registered, in order

VARIABLES
  service,  \* what became of each service
  visited   \* how far the loop of start_all(), then of stop_all(), has come

serviceVars == <<service, visited>>

Places == DOMAIN m_services

ServiceInit ==
  /\ service = [i \in Places |-> "registered"]
  /\ visited = 0

StartService ==
  /\ visited < Len(m_services)
  /\ service' = [service EXCEPT ![visited + 1] = "running"]
  /\ visited' = visited + 1

\* start_all() returns the error; the services before this one are running.
StartFails ==
  /\ visited < Len(m_services)
  /\ service' = [service EXCEPT ![visited + 1] = "failed"]
  /\ UNCHANGED visited

AllStarted == visited = Len(m_services)

\* stop_all() starts from the last service, whatever start_all() has done.
StopBegins == visited' = Len(m_services) /\ UNCHANGED service

StopService ==
  /\ visited > 0
  /\ service' = [service EXCEPT ![visited] = "stopped"]
  /\ visited' = visited - 1

AllStopped == visited = 0
=============================================================================
