---------------------------- MODULE TaskScheduler ----------------------------
(***************************************************************************)
(* BasicTaskScheduler: a fixed pool of worker threads (std::jthread) that  *)
(* take closures from one FIFO queue under mutex_, sleep on the            *)
(* stop-aware condition variable cv_, and drain the queue before they obey *)
(* a stop request.  enqueue() may be called by any thread, a worker in the *)
(* middle of a task included; shutdown() may be called by several threads, *)
(* and only the first one does anything.                                   *)
(*                                                                         *)
(* One action is one step between two points where another thread can      *)
(* interfere: acquiring mutex_, reading the atomic is_running_, the        *)
(* critical sections, each notification and each request_stop().           *)
(***************************************************************************)
EXTENDS Integers, Sequences

CONSTANTS
  Tasks,        \* the closures handed to enqueue(), each one once
  Clients,      \* threads outside the pool that call enqueue()
  Stoppers,     \* threads that call shutdown()
  ThreadCount,  \* the constructor's thread_count
  None          \* no task, no owner

Workers == 1 .. (IF ThreadCount = 0 THEN 1 ELSE ThreadCount)
Callers == Clients \cup Workers

ASSUME ThreadCountAssumption == ThreadCount \in Nat
ASSUME ThreadsAssumption ==
  /\ Clients \cap Workers = {}
  /\ None \notin Tasks \cup Callers

VARIABLES
  is_running,   \* is_running_
  tasks,        \* tasks_
  owner,        \* the thread inside mutex_, or None
  stop,         \* the workers whose stop_token has been triggered
  wpc,          \* where each worker is in worker_loop()
  job,          \* the task each worker has popped, or None
  epc,          \* where each caller is in enqueue()
  arg,          \* the task each caller is enqueueing, or None
  spc,          \* where each stopper is in shutdown()
  snext,        \* the worker a stopper's loop has reached
  accepted,     \* history: the tasks pushed, in order
  started,      \* history: the tasks popped, in order
  finished,     \* history: the tasks executed to their end
  refused       \* history: the tasks enqueue() returned false for

workerVars == <<wpc, job>>
callerVars == <<epc, arg>>
stopperVars == <<spc, snext>>
vars == <<is_running, tasks, owner, stop, workerVars, callerVars, stopperVars,
          accepted, started, finished, refused>>

Elems(s) == {s[i] : i \in DOMAIN s}
Asleep == {w \in Workers : wpc[w] = "asleep"}
Fresh == Tasks \ (Elems(accepted) \cup refused \cup {arg[p] : p \in Callers})

TypeOK ==
  /\ is_running \in BOOLEAN
  /\ tasks \in Seq(Tasks)
  /\ owner \in Callers \cup {None}
  /\ stop \subseteq Workers
  /\ wpc \in [Workers -> {"lock", "wait", "asleep", "run", "exited"}]
  /\ job \in [Workers -> Tasks \cup {None}]
  /\ epc \in [Callers -> {"idle", "check", "push", "notify"}]
  /\ arg \in [Callers -> Tasks \cup {None}]
  /\ spc \in [Stoppers -> {"idle", "stop", "callback", "notify", "join",
                           "returned", "late"}]
  /\ snext \in [Stoppers -> Workers]
  /\ accepted \in Seq(Tasks) /\ started \in Seq(Tasks)
  /\ finished \subseteq Tasks /\ refused \subseteq Tasks

Init ==
  /\ is_running = TRUE
  /\ tasks = <<>> /\ owner = None /\ stop = {}
  /\ wpc = [w \in Workers |-> "lock"] /\ job = [w \in Workers |-> None]
  /\ epc = [p \in Callers |-> "idle"] /\ arg = [p \in Callers |-> None]
  /\ spc = [s \in Stoppers |-> "idle"] /\ snext = [s \in Stoppers |-> 1]
  /\ accepted = <<>> /\ started = <<>> /\ finished = {} /\ refused = {}

-----------------------------------------------------------------------------
(* enqueue() *)

\* Only a task's own body can call enqueue() on a worker thread.
MayEnqueue(p) == epc[p] = "idle" /\ (p \in Workers => wpc[p] = "run")

EnqueueLock(p, t) ==
  /\ MayEnqueue(p) /\ t \in Fresh
  /\ owner = None
  /\ owner' = p
  /\ epc' = [epc EXCEPT ![p] = "check"]
  /\ arg' = [arg EXCEPT ![p] = t]
  /\ UNCHANGED <<is_running, tasks, stop, workerVars, stopperVars,
                 accepted, started, finished, refused>>

\* Mutant: mutex_ is released between the check and the push.
EnqueueAdmitUnlocked(p) ==
  /\ epc[p] = "check" /\ is_running
  /\ owner' = None
  /\ epc' = [epc EXCEPT ![p] = "push"]
  /\ UNCHANGED <<is_running, tasks, stop, workerVars, arg, stopperVars,
                 accepted, started, finished, refused>>

\* The read of is_running_: shutdown() writes it without taking mutex_.
EnqueueAdmit(p) ==
  /\ epc[p] = "check" /\ is_running
  /\ epc' = [epc EXCEPT ![p] = "push"]
  /\ UNCHANGED <<is_running, tasks, owner, stop, workerVars, arg, stopperVars,
                 accepted, started, finished, refused>>

EnqueueReject(p) ==
  /\ epc[p] = "check" /\ ~is_running
  /\ owner' = None
  /\ refused' = refused \cup {arg[p]}
  /\ epc' = [epc EXCEPT ![p] = "idle"]
  /\ arg' = [arg EXCEPT ![p] = None]
  /\ UNCHANGED <<is_running, tasks, stop, workerVars, stopperVars,
                 accepted, started, finished>>

\* Mutant: no notification follows the push.
EnqueuePushSilent(p) ==
  /\ epc[p] = "push"
  /\ tasks' = Append(tasks, arg[p])
  /\ accepted' = Append(accepted, arg[p])
  /\ owner' = None
  /\ epc' = [epc EXCEPT ![p] = "idle"]
  /\ arg' = [arg EXCEPT ![p] = None]
  /\ UNCHANGED <<is_running, stop, workerVars, stopperVars,
                 started, finished, refused>>

EnqueuePush(p) ==
  /\ epc[p] = "push"
  /\ tasks' = Append(tasks, arg[p])
  /\ accepted' = Append(accepted, arg[p])
  /\ owner' = None
  /\ epc' = [epc EXCEPT ![p] = "notify"]
  /\ arg' = [arg EXCEPT ![p] = None]
  /\ UNCHANGED <<is_running, stop, workerVars, stopperVars,
                 started, finished, refused>>

\* notify_one() wakes one sleeper if there is one; none is queued up otherwise.
EnqueueNotify(p) ==
  /\ epc[p] = "notify"
  /\ epc' = [epc EXCEPT ![p] = "idle"]
  /\ \/ Asleep = {} /\ wpc' = wpc
     \/ \E w \in Asleep : wpc' = [wpc EXCEPT ![w] = "lock"]
  /\ UNCHANGED <<is_running, tasks, owner, stop, job, arg, stopperVars,
                 accepted, started, finished, refused>>

-----------------------------------------------------------------------------
(* worker_loop() *)

WorkerLock(w) ==
  /\ wpc[w] = "lock" /\ owner = None
  /\ owner' = w
  /\ wpc' = [wpc EXCEPT ![w] = "wait"]
  /\ UNCHANGED <<is_running, tasks, stop, job, callerVars, stopperVars,
                 accepted, started, finished, refused>>

\* Mutant: the newest task is taken.
WorkerTakeLast(w) ==
  /\ wpc[w] = "wait" /\ tasks # <<>>
  /\ job' = [job EXCEPT ![w] = tasks[Len(tasks)]]
  /\ tasks' = SubSeq(tasks, 1, Len(tasks) - 1)
  /\ started' = Append(started, tasks[Len(tasks)])
  /\ owner' = None
  /\ wpc' = [wpc EXCEPT ![w] = "run"]
  /\ UNCHANGED <<is_running, stop, callerVars, stopperVars,
                 accepted, finished, refused>>

\* cv_.wait() returns because its predicate holds, whether or not a stop has
\* been requested: the queue is drained before a stop is obeyed.
WorkerTake(w) ==
  /\ wpc[w] = "wait" /\ tasks # <<>>
  /\ job' = [job EXCEPT ![w] = Head(tasks)]
  /\ tasks' = Tail(tasks)
  /\ started' = Append(started, Head(tasks))
  /\ owner' = None
  /\ wpc' = [wpc EXCEPT ![w] = "run"]
  /\ UNCHANGED <<is_running, stop, callerVars, stopperVars,
                 accepted, finished, refused>>

\* Mutant: the stop request is obeyed before the queue is drained.
WorkerExitUndrained(w) ==
  /\ wpc[w] = "wait" /\ w \in stop
  /\ owner' = None
  /\ wpc' = [wpc EXCEPT ![w] = "exited"]
  /\ UNCHANGED <<is_running, tasks, stop, job, callerVars, stopperVars,
                 accepted, started, finished, refused>>

WorkerExit(w) ==
  /\ wpc[w] = "wait" /\ tasks = <<>> /\ w \in stop
  /\ owner' = None
  /\ wpc' = [wpc EXCEPT ![w] = "exited"]
  /\ UNCHANGED <<is_running, tasks, stop, job, callerVars, stopperVars,
                 accepted, started, finished, refused>>

\* The stop check and the block are one step: condition_variable_any holds its
\* internal mutex over both, and every notification takes that mutex.
WorkerSleep(w) ==
  /\ wpc[w] = "wait" /\ tasks = <<>> /\ w \notin stop
  /\ owner' = None
  /\ wpc' = [wpc EXCEPT ![w] = "asleep"]
  /\ UNCHANGED <<is_running, tasks, stop, job, callerVars, stopperVars,
                 accepted, started, finished, refused>>

SpuriousWakeup(w) ==
  /\ wpc[w] = "asleep"
  /\ wpc' = [wpc EXCEPT ![w] = "lock"]
  /\ UNCHANGED <<is_running, tasks, owner, stop, job, callerVars, stopperVars,
                 accepted, started, finished, refused>>

\* Mutant: an exception of the task ends the worker.
WorkerFinishUncaught(w) ==
  /\ wpc[w] = "run" /\ epc[w] = "idle"
  /\ finished' = finished \cup {job[w]}
  /\ job' = [job EXCEPT ![w] = None]
  /\ wpc' = [wpc EXCEPT ![w] = "exited"]
  /\ UNCHANGED <<is_running, tasks, owner, stop, callerVars, stopperVars,
                 accepted, started, refused>>

\* The task returns or throws: worker_loop() catches everything it throws.
WorkerFinish(w) ==
  /\ wpc[w] = "run" /\ epc[w] = "idle"
  /\ finished' = finished \cup {job[w]}
  /\ job' = [job EXCEPT ![w] = None]
  /\ wpc' = [wpc EXCEPT ![w] = "lock"]
  /\ UNCHANGED <<is_running, tasks, owner, stop, callerVars, stopperVars,
                 accepted, started, refused>>

-----------------------------------------------------------------------------
(* shutdown() *)

WakeAll == [w \in Workers |-> IF wpc[w] = "asleep" THEN "lock" ELSE wpc[w]]

\* The compare-exchange: the first caller goes on, any other returns at once.
ShutdownWin(s) ==
  /\ spc[s] = "idle" /\ is_running
  /\ is_running' = FALSE
  /\ spc' = [spc EXCEPT ![s] = "stop"]
  /\ UNCHANGED <<tasks, owner, stop, workerVars, callerVars, snext,
                 accepted, started, finished, refused>>

ShutdownLose(s) ==
  /\ spc[s] = "idle" /\ ~is_running
  /\ spc' = [spc EXCEPT ![s] = "late"]
  /\ UNCHANGED <<is_running, tasks, owner, stop, workerVars, callerVars, snext,
                 accepted, started, finished, refused>>

RequestStop(s) ==
  /\ spc[s] = "stop"
  /\ stop' = stop \cup {snext[s]}
  /\ spc' = [spc EXCEPT ![s] = "callback"]
  /\ UNCHANGED <<is_running, tasks, owner, workerVars, callerVars, snext,
                 accepted, started, finished, refused>>

\* Mutant: the loop over the workers ends one short.
StopCallbackShort(s) ==
  /\ spc[s] = "callback"
  /\ wpc' = IF wpc[snext[s]] = "asleep" THEN WakeAll ELSE wpc
  /\ IF snext[s] + 2 \in Workers
       THEN /\ snext' = [snext EXCEPT ![s] = @ + 1]
            /\ spc' = [spc EXCEPT ![s] = "stop"]
       ELSE /\ snext' = [snext EXCEPT ![s] = 1]
            /\ spc' = [spc EXCEPT ![s] = "notify"]
  /\ UNCHANGED <<is_running, tasks, owner, stop, job, callerVars,
                 accepted, started, finished, refused>>

\* The worker's stop_callback, if it is inside cv_.wait(), notifies everyone.
StopCallback(s) ==
  /\ spc[s] = "callback"
  /\ wpc' = IF wpc[snext[s]] = "asleep" THEN WakeAll ELSE wpc
  /\ IF snext[s] + 1 \in Workers
       THEN /\ snext' = [snext EXCEPT ![s] = @ + 1]
            /\ spc' = [spc EXCEPT ![s] = "stop"]
       ELSE /\ snext' = [snext EXCEPT ![s] = 1]
            /\ spc' = [spc EXCEPT ![s] = "notify"]
  /\ UNCHANGED <<is_running, tasks, owner, stop, job, callerVars,
                 accepted, started, finished, refused>>

\* Mutant: the workers are detached instead of joined.
ShutdownDetach(s) ==
  /\ spc[s] = "notify"
  /\ wpc' = WakeAll
  /\ spc' = [spc EXCEPT ![s] = "returned"]
  /\ UNCHANGED <<is_running, tasks, owner, stop, job, callerVars, snext,
                 accepted, started, finished, refused>>

ShutdownNotifyAll(s) ==
  /\ spc[s] = "notify"
  /\ wpc' = WakeAll
  /\ spc' = [spc EXCEPT ![s] = "join"]
  /\ UNCHANGED <<is_running, tasks, owner, stop, job, callerVars, snext,
                 accepted, started, finished, refused>>

\* workers_.clear(): each jthread's destructor joins its thread.
Join(s) ==
  /\ spc[s] = "join" /\ wpc[snext[s]] = "exited"
  /\ IF snext[s] + 1 \in Workers
       THEN snext' = [snext EXCEPT ![s] = @ + 1] /\ spc' = spc
       ELSE snext' = snext /\ spc' = [spc EXCEPT ![s] = "returned"]
  /\ UNCHANGED <<is_running, tasks, owner, stop, workerVars, callerVars,
                 accepted, started, finished, refused>>

-----------------------------------------------------------------------------
Enqueue(p) ==
  \/ \E t \in Tasks : EnqueueLock(p, t)
  \/ EnqueueAdmit(p) \/ EnqueueReject(p) \/ EnqueuePush(p) \/ EnqueueNotify(p)

WorkerStep(w) ==
  \/ WorkerLock(w) \/ WorkerTake(w) \/ WorkerExit(w) \/ WorkerSleep(w)
  \/ WorkerFinish(w)

Shutdown(s) ==
  \/ ShutdownWin(s) \/ ShutdownLose(s) \/ RequestStop(s) \/ StopCallback(s)
  \/ ShutdownNotifyAll(s) \/ Join(s)

\* Every thread is through and every task was offered: the program has ended.
Terminated ==
  /\ \A s \in Stoppers : spc[s] \in {"returned", "late"}
  /\ \A w \in Workers : wpc[w] = "exited"
  /\ \A p \in Callers : epc[p] = "idle"
  /\ Fresh = {}
  /\ UNCHANGED vars

Next ==
  \/ \E p \in Callers : Enqueue(p)
  \/ \E w \in Workers : WorkerStep(w) \/ SpuriousWakeup(w)
  \/ \E s \in Stoppers : Shutdown(s)
  \/ Terminated

Spec == Init /\ [][Next]_vars

\* A runnable thread is eventually scheduled and a task's body returns.  Nothing
\* forces a client to call enqueue(), nor a stopper to call shutdown().
Fairness ==
  /\ \A w \in Workers : WF_vars(WorkerStep(w))
  /\ \A p \in Callers : WF_vars(EnqueueAdmit(p) \/ EnqueueReject(p)
                                \/ EnqueuePush(p) \/ EnqueueNotify(p))
  /\ \A s \in Stoppers : WF_vars(RequestStop(s) \/ StopCallback(s)
                                 \/ ShutdownNotifyAll(s) \/ Join(s))

FairSpec == Spec /\ Fairness

-----------------------------------------------------------------------------
(* Properties *)

\* Tasks leave the queue in the order enqueue() accepted them, none lost and
\* none duplicated on the way: what was popped followed by what is queued is
\* what was pushed (tasks_ is a std::queue shared by every worker).
Fifo == accepted = started \o tasks

\* A task is executed at most once, although several workers are woken for it
\* and all of them go through the same wait loop.
AtMostOnce ==
  /\ \A i, j \in DOMAIN started : started[i] = started[j] => i = j
  /\ \A v, w \in Workers : job[v] = job[w] /\ job[v] # None => v = w

\* When the shutdown() that closed the pool has returned, every task for which
\* enqueue() returned true has been executed to its end, although is_running_
\* is cleared outside mutex_ and may change while an enqueue() holds it.
Drained ==
  (\E s \in Stoppers : spc[s] = "returned") => Elems(accepted) \subseteq finished

\* A task for which enqueue() returned false is never run, and enqueue()
\* returns false only once somebody has called shutdown().
RefusedMeansClosing ==
  /\ refused # {} => ~is_running
  /\ refused \cap (Elems(accepted) \cup finished) = {}

\* notify_one() is called after mutex_ is released, so a pushed task may be
\* announced late; but all workers are never asleep over a non-empty queue
\* unless an enqueue() is still to notify.
NoLostWakeup ==
  (tasks # <<>> /\ Asleep = Workers) => \E p \in Callers : epc[p] = "notify"

\* A worker asleep with its stop token triggered is about to be woken: the
\* stopper is still inside request_stop() for that very worker, its callback to
\* come.  (The notify_all() that follows the loop is not needed for this.)
NoLostStop ==
  \A w \in Workers : w \in stop /\ wpc[w] = "asleep" =>
    \E s \in Stoppers : spc[s] = "callback" /\ snext[s] = w

\* After the closing shutdown() has returned no worker starts, runs or finishes
\* anything and nothing is accepted.
QuietAfterShutdown ==
  [][(\E s \in Stoppers : spc[s] = "returned") =>
        UNCHANGED <<started, finished, accepted>>]_vars

\* An accepted task is eventually executed, shutdown or not.
AcceptedIsExecuted ==
  \A t \in Tasks : t \in Elems(accepted) ~> t \in finished

\* A shutdown() that has begun returns: no worker misses the stop request and
\* sleeps for ever, and none is left waiting for work.
ShutdownReturns ==
  \A s \in Stoppers : spc[s] = "stop" ~> spc[s] = "returned"

-----------------------------------------------------------------------------
(* The inductive invariant behind them. *)

\* Whoever is inside a critical section owns mutex_, and a worker calls
\* enqueue() only from the body of a task.
MutexInv ==
  /\ \A p \in Callers : epc[p] \in {"check", "push"} => owner = p
  /\ \A w \in Workers : wpc[w] = "wait" => owner = w
  /\ \A w \in Workers : epc[w] # "idle" => wpc[w] = "run"

\* The closure an enqueue() carries was handed in for the first time.
ArgInv ==
  /\ \A p \in Callers : arg[p] # None <=> epc[p] \in {"check", "push"}
  /\ \A p \in Callers : arg[p] \notin Elems(accepted) \cup refused
  /\ refused \cap Elems(accepted) = {}
  /\ \A i, j \in DOMAIN accepted : accepted[i] = accepted[j] => i = j

\* Where a task is once it has been popped: with one worker, or finished.
JobInv ==
  /\ \A w \in Workers : job[w] # None <=> wpc[w] = "run"
  /\ \A w \in Workers : job[w] # None => job[w] \in Elems(started) \ finished
  /\ \A v, w \in Workers : job[v] = job[w] /\ job[v] # None => v = w
  /\ \A t \in Elems(started) : t \in finished \/ \E w \in Workers : job[w] = t
  /\ finished \subseteq Elems(started)

\* A worker exits only when the pool is closed and the queue is empty for good:
\* the enqueue() that saw is_running_ set still held mutex_ when it pushed.
ExitInv ==
  \A w \in Workers : wpc[w] = "exited" =>
    /\ ~is_running /\ tasks = <<>>
    /\ \A p \in Callers : epc[p] # "push"

\* What the progress of shutdown() says of the workers.
StopperInv ==
  /\ stop # {} \/ refused # {} => ~is_running
  /\ \A s \in Stoppers : spc[s] # "idle" => ~is_running
  /\ \A s \in Stoppers : spc[s] = "notify" => snext[s] = 1
  /\ \A s \in Stoppers : spc[s] = "join" =>
       \A w \in Workers : w < snext[s] => wpc[w] = "exited"
  /\ \A s \in Stoppers : spc[s] = "returned" =>
       \A w \in Workers : wpc[w] = "exited"

\* Every reachable state satisfies all of them, and they are inductive.
Inv ==
  TypeOK /\ Fifo /\ MutexInv /\ ArgInv /\ JobInv /\ ExitInv /\ StopperInv

-----------------------------------------------------------------------------
(* BasicTaskScheduler implements the promise of ITaskScheduler. *)

Pool == INSTANCE TaskPool WITH
  pending <- tasks,
  active  <- {job[w] : w \in {v \in Workers : wpc[v] = "run"}},
  closing <- ~is_running,
  stopped <- \E s \in Stoppers : spc[s] = "returned"

\* Every step of the scheduler is a step of the abstract task pool or leaves
\* it unchanged.
ImplementsPool == Pool!Spec
=============================================================================
