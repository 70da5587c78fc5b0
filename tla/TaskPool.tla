------------------------------ MODULE TaskPool ------------------------------
(***************************************************************************)
(* What ITaskScheduler promises to the components that enqueue work: the   *)
(* abstract specification BasicTaskScheduler (module TaskScheduler)        *)
(* implements.  A task handed in is either accepted, once, and then run to *)
(* its end, once, in the order of acceptance, or refused, which happens    *)
(* only while the pool is closing; and when shutdown() has returned        *)
(* nothing is pending, nothing is running and nothing is accepted again.   *)
(***************************************************************************)
EXTENDS Sequences

CONSTANT Tasks

VARIABLES
  pending,     \* accepted tasks that no worker has started, oldest first
  active,      \* tasks some worker is executing
  finished,    \* tasks executed to their end
  refused,     \* tasks whose enqueue() returned false
  closing,     \* shutdown() has been called
  stopped      \* the call of shutdown() that closed the pool has returned

vars == <<pending, active, finished, refused, closing, stopped>>

PendingSet == {pending[i] : i \in DOMAIN pending}
Known == PendingSet \cup active \cup finished \cup refused

Init ==
  /\ pending = <<>>
  /\ active = {} /\ finished = {} /\ refused = {}
  /\ closing = FALSE /\ stopped = FALSE

Accept(t) ==
  /\ ~stopped
  /\ t \notin Known
  /\ pending' = Append(pending, t)
  /\ UNCHANGED <<active, finished, refused, closing, stopped>>

Refuse(t) ==
  /\ closing
  /\ t \notin Known
  /\ refused' = refused \cup {t}
  /\ UNCHANGED <<pending, active, finished, closing, stopped>>

Start ==
  /\ pending # <<>>
  /\ pending' = Tail(pending)
  /\ active' = active \cup {Head(pending)}
  /\ UNCHANGED <<finished, refused, closing, stopped>>

Finish(t) ==
  /\ t \in active
  /\ active' = active \ {t}
  /\ finished' = finished \cup {t}
  /\ UNCHANGED <<pending, refused, closing, stopped>>

Close ==
  /\ ~closing
  /\ closing' = TRUE
  /\ UNCHANGED <<pending, active, finished, refused, stopped>>

Stop ==
  /\ closing /\ ~stopped
  /\ pending = <<>> /\ active = {}
  /\ stopped' = TRUE
  /\ UNCHANGED <<pending, active, finished, refused, closing>>

Next ==
  \/ \E t \in Tasks : Accept(t) \/ Refuse(t) \/ Finish(t)
  \/ Start \/ Close \/ Stop

Spec == Init /\ [][Next]_vars
=============================================================================
