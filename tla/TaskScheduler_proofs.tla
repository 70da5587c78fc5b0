------------------------ MODULE TaskScheduler_proofs ------------------------
(***************************************************************************)
(* Proofs about TaskScheduler, for any set of tasks, clients and stoppers  *)
(* and any thread_count: the type invariant, the inductive invariant Inv,  *)
(* the safety properties that follow from it, and the refinement of        *)
(* TaskPool.                                                               *)
(***************************************************************************)
EXTENDS TaskScheduler, TLAPS

\* Appending to a sequence adds exactly that element.
LEMMA ElemsAppend ==
  ASSUME NEW S, NEW q \in Seq(S), NEW e \in S
  PROVE  /\ Append(q, e) \in Seq(S)
         /\ Elems(Append(q, e)) = Elems(q) \cup {e}
         /\ DOMAIN Append(q, e) = DOMAIN q \cup {Len(q) + 1}
         /\ \A i \in DOMAIN q : Append(q, e)[i] = q[i]
         /\ Append(q, e)[Len(q) + 1] = e
<1>1. /\ Append(q, e) \in Seq(S)
      /\ DOMAIN Append(q, e) = DOMAIN q \cup {Len(q) + 1}
      /\ \A i \in DOMAIN q : Append(q, e)[i] = q[i]
      /\ Append(q, e)[Len(q) + 1] = e
  OBVIOUS
<1>2. QED  BY <1>1 DEF Elems

\* The elements of a sequence are in the set it ranges over.
LEMMA ElemsType ==
  ASSUME NEW S, NEW q \in Seq(S)
  PROVE  Elems(q) \subseteq S
BY DEF Elems

\* Moving the head of the queue to the end of what precedes it changes nothing.
LEMMA MoveHead ==
  ASSUME NEW S, NEW p \in Seq(S), NEW q \in Seq(S), q # <<>>
  PROVE  /\ Head(q) \in S /\ Tail(q) \in Seq(S)
         /\ p \o q = Append(p, Head(q)) \o Tail(q)
         /\ Len(p) + 1 \in DOMAIN (p \o q)
         /\ (p \o q)[Len(p) + 1] = Head(q)
         /\ \A i \in DOMAIN p : i \in DOMAIN (p \o q) /\ (p \o q)[i] = p[i]
<1>1. /\ Head(q) \in S /\ Tail(q) \in Seq(S)
      /\ Len(p) + 1 \in DOMAIN (p \o q)
      /\ (p \o q)[Len(p) + 1] = Head(q)
      /\ \A i \in DOMAIN p : i \in DOMAIN (p \o q) /\ (p \o q)[i] = p[i]
  OBVIOUS
<1>2. p \o q = Append(p, Head(q)) \o Tail(q)
  OBVIOUS
<1>3. QED  BY <1>1, <1>2

\* The constructor's fallback leaves at least one worker.
LEMMA WorkersNonEmpty == 1 \in Workers
BY ThreadCountAssumption DEF Workers

-----------------------------------------------------------------------------
(* The inductive invariant: one lemma for each of its parts. *)

\* Types.  That a rejected or finished task is a task needs ArgInv and JobInv.
LEMMA TypeStep ==
  ASSUME TypeOK, ArgInv, JobInv, [Next]_vars
  PROVE  TypeOK'
<1> USE DEF TypeOK, workerVars, callerVars, stopperVars
<1>1. ASSUME NEW p \in Callers, NEW t \in Tasks, EnqueueLock(p, t) PROVE TypeOK'
  BY <1>1 DEF EnqueueLock
<1>2. ASSUME NEW p \in Callers, EnqueueAdmit(p) PROVE TypeOK'
  BY <1>2 DEF EnqueueAdmit
<1>3. ASSUME NEW p \in Callers, EnqueueReject(p) PROVE TypeOK'
  BY <1>3 DEF EnqueueReject, ArgInv
<1>4. ASSUME NEW p \in Callers, EnqueuePush(p) PROVE TypeOK'
  BY <1>4 DEF EnqueuePush, ArgInv
<1>5. ASSUME NEW p \in Callers, EnqueueNotify(p) PROVE TypeOK'
  BY <1>5 DEF EnqueueNotify, Asleep
<1>6. ASSUME NEW w \in Workers, WorkerLock(w) PROVE TypeOK'
  BY <1>6 DEF WorkerLock, Callers
<1>7. ASSUME NEW w \in Workers, WorkerTake(w) PROVE TypeOK'
  BY <1>7 DEF WorkerTake
<1>8. ASSUME NEW w \in Workers, WorkerExit(w) PROVE TypeOK'
  BY <1>8 DEF WorkerExit
<1>9. ASSUME NEW w \in Workers, WorkerSleep(w) PROVE TypeOK'
  BY <1>9 DEF WorkerSleep
<1>10. ASSUME NEW w \in Workers, SpuriousWakeup(w) PROVE TypeOK'
  BY <1>10 DEF SpuriousWakeup
<1>11. ASSUME NEW w \in Workers, WorkerFinish(w) PROVE TypeOK'
  BY <1>11 DEF WorkerFinish, JobInv
<1>12. ASSUME NEW s \in Stoppers, ShutdownWin(s) PROVE TypeOK'
  BY <1>12 DEF ShutdownWin
<1>13. ASSUME NEW s \in Stoppers, ShutdownLose(s) PROVE TypeOK'
  BY <1>13 DEF ShutdownLose
<1>14. ASSUME NEW s \in Stoppers, RequestStop(s) PROVE TypeOK'
  BY <1>14 DEF RequestStop
<1>15. ASSUME NEW s \in Stoppers, StopCallback(s) PROVE TypeOK'
  <2>1. WakeAll \in [Workers -> {"lock", "wait", "asleep", "run", "exited"}]
    BY DEF WakeAll
  <2>2. wpc' \in [Workers -> {"lock", "wait", "asleep", "run", "exited"}]
    BY <1>15, <2>1 DEF StopCallback
  <2>3. snext' \in [Stoppers -> Workers]
    BY <1>15, WorkersNonEmpty DEF StopCallback
  <2>4. spc' \in [Stoppers -> {"idle", "stop", "callback", "notify", "join",
                               "returned", "late"}]
    BY <1>15 DEF StopCallback
  <2> QED
    BY <1>15, <2>2, <2>3, <2>4 DEF StopCallback
<1>16. ASSUME NEW s \in Stoppers, ShutdownNotifyAll(s) PROVE TypeOK'
  BY <1>16 DEF ShutdownNotifyAll, WakeAll
<1>17. ASSUME NEW s \in Stoppers, Join(s) PROVE TypeOK'
  BY <1>17 DEF Join
<1>18. CASE UNCHANGED vars
  BY <1>18 DEF vars
<1> QED
  BY <1>1, <1>2, <1>3, <1>4, <1>5, <1>6, <1>7, <1>8, <1>9, <1>10, <1>11, <1>12, <1>13, <1>14, <1>15, <1>16, <1>17, <1>18
     DEF Next, Enqueue, WorkerStep, Shutdown, Terminated

\* The queue is what was pushed and not yet popped.
LEMMA FifoStep ==
  ASSUME TypeOK, ArgInv, Fifo, [Next]_vars
  PROVE  Fifo'
<1> USE DEF vars
<1>1. ASSUME NEW p \in Callers, EnqueuePush(p) PROVE Fifo'
  <2>1. arg[p] \in Tasks
    BY <1>1 DEF EnqueuePush, ArgInv, TypeOK
  <2>2. started \in Seq(Tasks) /\ tasks \in Seq(Tasks)
    BY DEF TypeOK
  <2>3. Append(started \o tasks, arg[p]) = started \o Append(tasks, arg[p])
    BY <2>1, <2>2
  <2> QED
    BY <1>1, <2>3 DEF Fifo, EnqueuePush, workerVars
<1>2. ASSUME NEW w \in Workers, WorkerTake(w) PROVE Fifo'
  <2>1. started \in Seq(Tasks) /\ tasks \in Seq(Tasks)
    BY DEF TypeOK
  <2>2. started \o tasks = Append(started, Head(tasks)) \o Tail(tasks)
    BY <1>2, <2>1, MoveHead DEF WorkerTake
  <2> QED
    BY <1>2, <2>2 DEF Fifo, WorkerTake
<1>3. CASE UNCHANGED <<tasks, accepted, started>>
  BY <1>3 DEF Fifo
<1> QED
  BY <1>1, <1>2, <1>3
     DEF vars, workerVars, callerVars, stopperVars, Next, Enqueue,
     WorkerStep, Shutdown, Terminated, EnqueueLock, EnqueueAdmit,
     EnqueueReject, EnqueueNotify, WorkerLock, WorkerExit, WorkerSleep,
     SpuriousWakeup, WorkerFinish, ShutdownWin, ShutdownLose, RequestStop,
     StopCallback, ShutdownNotifyAll, Join

\* Mutual exclusion, and who may be inside enqueue().
LEMMA MutexStep ==
  ASSUME TypeOK, MutexInv, [Next]_vars
  PROVE  MutexInv'
<1> USE DEF MutexInv, TypeOK, workerVars, callerVars, stopperVars, Callers
<1>1. ASSUME NEW p \in Callers, NEW t \in Tasks, EnqueueLock(p, t) PROVE MutexInv'
  BY <1>1, ThreadsAssumption DEF EnqueueLock, MayEnqueue
<1>2. ASSUME NEW p \in Callers, EnqueueAdmit(p) PROVE MutexInv'
  BY <1>2 DEF EnqueueAdmit
<1>3. ASSUME NEW p \in Callers, EnqueueReject(p) PROVE MutexInv'
  BY <1>3, ThreadsAssumption DEF EnqueueReject
<1>4. ASSUME NEW p \in Callers, EnqueuePush(p) PROVE MutexInv'
  BY <1>4, ThreadsAssumption DEF EnqueuePush
<1>5. ASSUME NEW p \in Callers, EnqueueNotify(p) PROVE MutexInv'
  BY <1>5 DEF EnqueueNotify, Asleep
<1>6. ASSUME NEW w \in Workers, WorkerLock(w) PROVE MutexInv'
  BY <1>6, ThreadsAssumption DEF WorkerLock
<1>7. ASSUME NEW w \in Workers, WorkerTake(w) PROVE MutexInv'
  BY <1>7 DEF WorkerTake
<1>8. ASSUME NEW w \in Workers, WorkerExit(w) PROVE MutexInv'
  BY <1>8 DEF WorkerExit
<1>9. ASSUME NEW w \in Workers, WorkerSleep(w) PROVE MutexInv'
  BY <1>9 DEF WorkerSleep
<1>10. ASSUME NEW w \in Workers, SpuriousWakeup(w) PROVE MutexInv'
  BY <1>10 DEF SpuriousWakeup
<1>11. ASSUME NEW w \in Workers, WorkerFinish(w) PROVE MutexInv'
  BY <1>11 DEF WorkerFinish
<1>12. ASSUME NEW s \in Stoppers, StopCallback(s) PROVE MutexInv'
  BY <1>12 DEF StopCallback, WakeAll
<1>13. ASSUME NEW s \in Stoppers, ShutdownNotifyAll(s) PROVE MutexInv'
  BY <1>13 DEF ShutdownNotifyAll, WakeAll
<1>14. CASE UNCHANGED <<owner, wpc, epc>>
  BY <1>14 DEF MutexInv
<1> QED
  BY <1>1, <1>2, <1>3, <1>4, <1>5, <1>6, <1>7, <1>8, <1>9, <1>10, <1>11, <1>12, <1>13, <1>14
     DEF vars, workerVars, callerVars, stopperVars, Next, Enqueue,
     WorkerStep, Shutdown, Terminated, ShutdownWin, ShutdownLose,
     RequestStop, Join

\* A closure is handed in once.
LEMMA ArgStep ==
  ASSUME TypeOK, MutexInv, ArgInv, [Next]_vars
  PROVE  ArgInv'
<1> USE DEF ArgInv, TypeOK, workerVars, callerVars, stopperVars
<1>1. ASSUME NEW p \in Callers, NEW t \in Tasks, EnqueueLock(p, t) PROVE ArgInv'
  BY <1>1, ThreadsAssumption DEF EnqueueLock, Fresh, MayEnqueue
<1>2. ASSUME NEW p \in Callers, EnqueueAdmit(p) PROVE ArgInv'
  BY <1>2 DEF EnqueueAdmit
<1>3. ASSUME NEW p \in Callers, EnqueueReject(p) PROVE ArgInv'
  <2>1. None \notin Elems(accepted) \cup refused \cup {arg[p]}
    BY <1>3, ElemsType, ThreadsAssumption DEF EnqueueReject
  <2>2. \A q \in Callers : q # p => arg[q] = None
    BY <1>3 DEF EnqueueReject, MutexInv
  <2>3. \A q \in Callers : arg'[q] = None
    BY <1>3, <2>2 DEF EnqueueReject
  <2>4. \A q \in Callers : epc'[q] \notin {"check", "push"}
    BY <1>3, <2>2 DEF EnqueueReject
  <2> QED
    BY <1>3, <2>1, <2>3, <2>4 DEF EnqueueReject
<1>4. ASSUME NEW p \in Callers, EnqueuePush(p) PROVE ArgInv'
  <2>1. arg[p] \in Tasks /\ arg[p] \notin Elems(accepted) \cup refused
    BY <1>4 DEF EnqueuePush
  <2>2. Elems(accepted') = Elems(accepted) \cup {arg[p]}
    BY <1>4, <2>1, ElemsAppend DEF EnqueuePush
  <2>3. \A q \in Callers : q # p => arg[q] = None
    BY <1>4 DEF EnqueuePush, MutexInv
  <2>4. \A q \in Callers : arg'[q] = None /\ epc'[q] \notin {"check", "push"}
    BY <1>4, <2>3 DEF EnqueuePush
  <2>5. None \notin Elems(accepted') \cup refused
    BY <2>1, <2>2, ElemsType, ThreadsAssumption
  <2>6. \A i, j \in DOMAIN accepted' : accepted'[i] = accepted'[j] => i = j
    BY <1>4, <2>1, ElemsAppend DEF EnqueuePush, Elems
  <2> QED
    BY <1>4, <2>1, <2>2, <2>4, <2>5, <2>6 DEF EnqueuePush
<1>5. ASSUME NEW p \in Callers, EnqueueNotify(p) PROVE ArgInv'
  BY <1>5 DEF EnqueueNotify
<1>6. CASE UNCHANGED <<epc, arg, accepted, refused>>
  BY <1>6 DEF ArgInv
<1> QED
  BY <1>1, <1>2, <1>3, <1>4, <1>5, <1>6
     DEF vars, workerVars, callerVars, stopperVars, Next, Enqueue,
     WorkerStep, Shutdown, Terminated, WorkerLock, WorkerTake, WorkerExit,
     WorkerSleep, SpuriousWakeup, WorkerFinish, ShutdownWin, ShutdownLose,
     RequestStop, StopCallback, ShutdownNotifyAll, Join

\* A popped task is in exactly one worker's hands until it is finished.
LEMMA JobStep ==
  ASSUME TypeOK, Fifo, ArgInv, MutexInv, JobInv, [Next]_vars
  PROVE  JobInv'
<1> USE DEF JobInv, TypeOK
<1>1. ASSUME NEW p \in Callers, EnqueueNotify(p) PROVE JobInv'
  BY <1>1 DEF EnqueueNotify, Asleep
<1>2. ASSUME NEW w \in Workers, WorkerLock(w) PROVE JobInv'
  BY <1>2 DEF WorkerLock
<1>3. ASSUME NEW w \in Workers, WorkerTake(w) PROVE JobInv'
  <2> DEFINE h == Head(tasks)
  <2>1. started \in Seq(Tasks) /\ tasks \in Seq(Tasks) /\ tasks # <<>>
    BY <1>3 DEF WorkerTake
  <2>2. h \in Tasks /\ h # None
    BY <2>1, MoveHead, ThreadsAssumption
  <2>3. Elems(started') = Elems(started) \cup {h}
    BY <1>3, <2>1, <2>2, ElemsAppend DEF WorkerTake
  <2>4. h \notin Elems(started)
    <3>1. \A i \in DOMAIN started : i \in DOMAIN accepted /\ accepted[i] = started[i]
      BY <2>1, MoveHead DEF Fifo
    <3>2. Len(started) + 1 \in DOMAIN accepted /\ accepted[Len(started) + 1] = h
      BY <2>1, MoveHead DEF Fifo
    <3>3. Len(started) + 1 \notin DOMAIN started
      BY <2>1
    <3> QED
      BY <3>1, <3>2, <3>3 DEF ArgInv, Elems
  <2>5. job' = [job EXCEPT ![w] = h] /\ wpc' = [wpc EXCEPT ![w] = "run"]
        /\ finished' = finished /\ job[w] = None
    BY <1>3 DEF WorkerTake
  <2>6. \A v \in Workers : job'[v] = IF v = w THEN h ELSE job[v]
    BY <2>5
  <2>7. \A v \in Workers : wpc'[v] = IF v = w THEN "run" ELSE wpc[v]
    BY <2>5
  <2>8. h \notin finished
    BY <2>4
  <2>9. \A v \in Workers : job'[v] # None <=> wpc'[v] = "run"
    BY <2>2, <2>6, <2>7
  <2>10. \A v \in Workers : job'[v] # None => job'[v] \in Elems(started') \ finished'
    BY <2>3, <2>5, <2>6, <2>8
  <2>11. \A u, v \in Workers : job'[u] = job'[v] /\ job'[u] # None => u = v
    BY <2>4, <2>6
  <2>12. \A t \in Elems(started') : t \in finished' \/ \E v \in Workers : job'[v] = t
    BY <2>1, <2>2, <2>3, <2>5, <2>6, ElemsType, ThreadsAssumption
  <2>13. finished' \subseteq Elems(started')
    BY <2>3, <2>5
  <2> QED
    BY <2>9, <2>10, <2>11, <2>12, <2>13
<1>4. ASSUME NEW w \in Workers, WorkerExit(w) PROVE JobInv'
  BY <1>4 DEF WorkerExit
<1>5. ASSUME NEW w \in Workers, WorkerSleep(w) PROVE JobInv'
  BY <1>5 DEF WorkerSleep
<1>6. ASSUME NEW w \in Workers, SpuriousWakeup(w) PROVE JobInv'
  BY <1>6 DEF SpuriousWakeup
<1>7. ASSUME NEW w \in Workers, WorkerFinish(w) PROVE JobInv'
  BY <1>7, ThreadsAssumption DEF WorkerFinish
<1>8. ASSUME NEW s \in Stoppers, StopCallback(s) PROVE JobInv'
  BY <1>8 DEF StopCallback, WakeAll
<1>9. ASSUME NEW s \in Stoppers, ShutdownNotifyAll(s) PROVE JobInv'
  BY <1>9 DEF ShutdownNotifyAll, WakeAll
<1>10. CASE UNCHANGED <<wpc, job, started, finished>>
  BY <1>10 DEF JobInv
<1> QED
  BY <1>1, <1>2, <1>3, <1>4, <1>5, <1>6, <1>7, <1>8, <1>9, <1>10
     DEF vars, workerVars, callerVars, stopperVars, Next, Enqueue,
     WorkerStep, Shutdown, Terminated, EnqueueLock, EnqueueAdmit,
     EnqueueReject, EnqueuePush, ShutdownWin, ShutdownLose, RequestStop,
     Join

\* Once a worker has exited the queue stays empty.
LEMMA ExitStep ==
  ASSUME TypeOK, MutexInv, StopperInv, ExitInv, [Next]_vars
  PROVE  ExitInv'
<1> USE DEF ExitInv, TypeOK, workerVars, callerVars, stopperVars
<1>1. ASSUME NEW p \in Callers, NEW t \in Tasks, EnqueueLock(p, t) PROVE ExitInv'
  BY <1>1 DEF EnqueueLock
<1>2. ASSUME NEW p \in Callers, EnqueueAdmit(p) PROVE ExitInv'
  BY <1>2 DEF EnqueueAdmit
<1>3. ASSUME NEW p \in Callers, EnqueueReject(p) PROVE ExitInv'
  BY <1>3 DEF EnqueueReject
<1>4. ASSUME NEW p \in Callers, EnqueuePush(p) PROVE ExitInv'
  BY <1>4 DEF EnqueuePush
<1>5. ASSUME NEW p \in Callers, EnqueueNotify(p) PROVE ExitInv'
  BY <1>5 DEF EnqueueNotify, Asleep
<1>6. ASSUME NEW w \in Workers, WorkerLock(w) PROVE ExitInv'
  BY <1>6 DEF WorkerLock
<1>7. ASSUME NEW w \in Workers, WorkerTake(w) PROVE ExitInv'
  BY <1>7 DEF WorkerTake
<1>8. ASSUME NEW w \in Workers, WorkerExit(w) PROVE ExitInv'
  BY <1>8 DEF WorkerExit, StopperInv, MutexInv, Callers
<1>9. ASSUME NEW w \in Workers, WorkerSleep(w) PROVE ExitInv'
  BY <1>9 DEF WorkerSleep
<1>10. ASSUME NEW w \in Workers, SpuriousWakeup(w) PROVE ExitInv'
  BY <1>10 DEF SpuriousWakeup
<1>11. ASSUME NEW w \in Workers, WorkerFinish(w) PROVE ExitInv'
  BY <1>11 DEF WorkerFinish
<1>12. ASSUME NEW s \in Stoppers, ShutdownWin(s) PROVE ExitInv'
  BY <1>12 DEF ShutdownWin
<1>13. ASSUME NEW s \in Stoppers, StopCallback(s) PROVE ExitInv'
  BY <1>13 DEF StopCallback, WakeAll
<1>14. ASSUME NEW s \in Stoppers, ShutdownNotifyAll(s) PROVE ExitInv'
  BY <1>14 DEF ShutdownNotifyAll, WakeAll
<1>15. CASE UNCHANGED <<is_running, tasks, epc, wpc>>
  BY <1>15 DEF ExitInv
<1> QED
  BY <1>1, <1>2, <1>3, <1>4, <1>5, <1>6, <1>7, <1>8, <1>9, <1>10, <1>11, <1>12, <1>13, <1>14, <1>15
     DEF vars, workerVars, callerVars, stopperVars, Next, Enqueue,
     WorkerStep, Shutdown, Terminated, ShutdownLose, RequestStop, Join

\* shutdown() joins the workers one after the other.
LEMMA StopperStep ==
  ASSUME TypeOK, StopperInv, [Next]_vars
  PROVE  StopperInv'
<1> USE DEF StopperInv, TypeOK, workerVars, callerVars, stopperVars
<1>1. ASSUME NEW p \in Callers, EnqueueReject(p) PROVE StopperInv'
  BY <1>1 DEF EnqueueReject
<1>2. ASSUME NEW p \in Callers, EnqueueNotify(p) PROVE StopperInv'
  BY <1>2 DEF EnqueueNotify, Asleep
<1>3. ASSUME NEW w \in Workers, WorkerLock(w) PROVE StopperInv'
  BY <1>3 DEF WorkerLock
<1>4. ASSUME NEW w \in Workers, WorkerTake(w) PROVE StopperInv'
  BY <1>4 DEF WorkerTake
<1>5. ASSUME NEW w \in Workers, WorkerExit(w) PROVE StopperInv'
  BY <1>5 DEF WorkerExit
<1>6. ASSUME NEW w \in Workers, WorkerSleep(w) PROVE StopperInv'
  BY <1>6 DEF WorkerSleep
<1>7. ASSUME NEW w \in Workers, SpuriousWakeup(w) PROVE StopperInv'
  BY <1>7 DEF SpuriousWakeup
<1>8. ASSUME NEW w \in Workers, WorkerFinish(w) PROVE StopperInv'
  BY <1>8 DEF WorkerFinish
<1>9. ASSUME NEW s \in Stoppers, ShutdownWin(s) PROVE StopperInv'
  BY <1>9 DEF ShutdownWin
<1>10. ASSUME NEW s \in Stoppers, ShutdownLose(s) PROVE StopperInv'
  BY <1>10 DEF ShutdownLose
<1>11. ASSUME NEW s \in Stoppers, RequestStop(s) PROVE StopperInv'
  BY <1>11 DEF RequestStop
<1>12. ASSUME NEW s \in Stoppers, StopCallback(s) PROVE StopperInv'
  <2>1. \A w \in Workers : wpc[w] = "exited" => wpc'[w] = "exited"
    BY <1>12 DEF StopCallback, WakeAll
  <2>2. \A r \in Stoppers : r # s => spc'[r] = spc[r] /\ snext'[r] = snext[r]
    BY <1>12 DEF StopCallback
  <2>3. spc'[s] = "stop" \/ (spc'[s] = "notify" /\ snext'[s] = 1)
    BY <1>12 DEF StopCallback
  <2>4. UNCHANGED <<is_running, stop, refused>> /\ ~is_running
    BY <1>12 DEF StopCallback
  <2> QED
    BY <2>1, <2>2, <2>3, <2>4
<1>13. ASSUME NEW s \in Stoppers, ShutdownNotifyAll(s) PROVE StopperInv'
  BY <1>13 DEF ShutdownNotifyAll, WakeAll, Workers
<1>14. ASSUME NEW s \in Stoppers, Join(s) PROVE StopperInv'
  <2>1. \A w \in Workers : w <= snext[s] => wpc[w] = "exited"
    BY <1>14 DEF Join, Workers
  <2>2. CASE snext[s] + 1 \in Workers
    <3>1. \A w \in Workers : w < snext[s] + 1 => w <= snext[s]
      BY DEF Workers
    <3> QED
      BY <1>14, <2>1, <2>2, <3>1 DEF Join
  <2>3. CASE snext[s] + 1 \notin Workers
    <3>1. \A w \in Workers : w <= snext[s]
      BY <2>3, ThreadCountAssumption DEF Workers
    <3> QED
      BY <1>14, <2>1, <2>3, <3>1 DEF Join
  <2> QED
    BY <2>2, <2>3
<1>15. CASE UNCHANGED <<is_running, stop, refused, wpc, spc, snext>>
  BY <1>15 DEF StopperInv
<1> QED
  BY <1>1, <1>2, <1>3, <1>4, <1>5, <1>6, <1>7, <1>8, <1>9, <1>10, <1>11, <1>12, <1>13, <1>14, <1>15
     DEF vars, workerVars, callerVars, stopperVars, Next, Enqueue,
     WorkerStep, Shutdown, Terminated, EnqueueLock, EnqueueAdmit,
     EnqueuePush

\* Whoever pushes on a queue over which all workers sleep still has to notify.
LEMMA WakeupStep ==
  ASSUME TypeOK, MutexInv, NoLostWakeup, [Next]_vars
  PROVE  NoLostWakeup'
<1> USE DEF NoLostWakeup, TypeOK, Asleep, workerVars, callerVars, stopperVars
<1>1. ASSUME NEW p \in Callers, NEW t \in Tasks, EnqueueLock(p, t) PROVE NoLostWakeup'
  BY <1>1 DEF EnqueueLock, MayEnqueue
<1>2. ASSUME NEW p \in Callers, EnqueueAdmit(p) PROVE NoLostWakeup'
  BY <1>2 DEF EnqueueAdmit
<1>3. ASSUME NEW p \in Callers, EnqueueReject(p) PROVE NoLostWakeup'
  BY <1>3 DEF EnqueueReject
<1>4. ASSUME NEW p \in Callers, EnqueuePush(p) PROVE NoLostWakeup'
  BY <1>4 DEF EnqueuePush
<1>5. ASSUME NEW p \in Callers, EnqueueNotify(p) PROVE NoLostWakeup'
  BY <1>5, WorkersNonEmpty DEF EnqueueNotify
<1>6. ASSUME NEW w \in Workers, WorkerLock(w) PROVE NoLostWakeup'
  BY <1>6 DEF WorkerLock
<1>7. ASSUME NEW w \in Workers, WorkerTake(w) PROVE NoLostWakeup'
  BY <1>7 DEF WorkerTake
<1>8. ASSUME NEW w \in Workers, WorkerExit(w) PROVE NoLostWakeup'
  BY <1>8 DEF WorkerExit
<1>9. ASSUME NEW w \in Workers, WorkerSleep(w) PROVE NoLostWakeup'
  BY <1>9 DEF WorkerSleep
<1>10. ASSUME NEW w \in Workers, SpuriousWakeup(w) PROVE NoLostWakeup'
  BY <1>10 DEF SpuriousWakeup
<1>11. ASSUME NEW w \in Workers, WorkerFinish(w) PROVE NoLostWakeup'
  BY <1>11 DEF WorkerFinish
<1>12. ASSUME NEW s \in Stoppers, StopCallback(s) PROVE NoLostWakeup'
  BY <1>12, WorkersNonEmpty DEF StopCallback, WakeAll
<1>13. ASSUME NEW s \in Stoppers, ShutdownNotifyAll(s) PROVE NoLostWakeup'
  BY <1>13, WorkersNonEmpty DEF ShutdownNotifyAll, WakeAll
<1>14. CASE UNCHANGED <<tasks, wpc, epc>>
  BY <1>14 DEF NoLostWakeup
<1> QED
  BY <1>1, <1>2, <1>3, <1>4, <1>5, <1>6, <1>7, <1>8, <1>9, <1>10, <1>11, <1>12, <1>13, <1>14
     DEF vars, workerVars, callerVars, stopperVars, Next, Enqueue,
     WorkerStep, Shutdown, Terminated, ShutdownWin, ShutdownLose,
     RequestStop, Join

\* A stop request reaches a sleeping worker through its callback.
LEMMA LostStopStep ==
  ASSUME TypeOK, NoLostStop, [Next]_vars
  PROVE  NoLostStop'
<1> USE DEF NoLostStop, TypeOK, workerVars, callerVars, stopperVars
<1>1. ASSUME NEW p \in Callers, EnqueueNotify(p) PROVE NoLostStop'
  BY <1>1 DEF EnqueueNotify, Asleep
<1>2. ASSUME NEW w \in Workers, WorkerLock(w) PROVE NoLostStop'
  BY <1>2 DEF WorkerLock
<1>3. ASSUME NEW w \in Workers, WorkerTake(w) PROVE NoLostStop'
  BY <1>3 DEF WorkerTake
<1>4. ASSUME NEW w \in Workers, WorkerExit(w) PROVE NoLostStop'
  BY <1>4 DEF WorkerExit
<1>5. ASSUME NEW w \in Workers, WorkerSleep(w) PROVE NoLostStop'
  BY <1>5 DEF WorkerSleep
<1>6. ASSUME NEW w \in Workers, SpuriousWakeup(w) PROVE NoLostStop'
  BY <1>6 DEF SpuriousWakeup
<1>7. ASSUME NEW w \in Workers, WorkerFinish(w) PROVE NoLostStop'
  BY <1>7 DEF WorkerFinish
<1>8. ASSUME NEW s \in Stoppers, ShutdownWin(s) PROVE NoLostStop'
  BY <1>8 DEF ShutdownWin
<1>9. ASSUME NEW s \in Stoppers, ShutdownLose(s) PROVE NoLostStop'
  BY <1>9 DEF ShutdownLose
<1>10. ASSUME NEW s \in Stoppers, RequestStop(s) PROVE NoLostStop'
  BY <1>10 DEF RequestStop
<1>11. ASSUME NEW s \in Stoppers, StopCallback(s) PROVE NoLostStop'
  BY <1>11 DEF StopCallback, WakeAll
<1>12. ASSUME NEW s \in Stoppers, ShutdownNotifyAll(s) PROVE NoLostStop'
  BY <1>12 DEF ShutdownNotifyAll, WakeAll
<1>13. ASSUME NEW s \in Stoppers, Join(s) PROVE NoLostStop'
  BY <1>13 DEF Join
<1>14. CASE UNCHANGED <<stop, wpc, spc, snext>>
  BY <1>14 DEF NoLostStop
<1> QED
  BY <1>1, <1>2, <1>3, <1>4, <1>5, <1>6, <1>7, <1>8, <1>9, <1>10, <1>11, <1>12, <1>13, <1>14
     DEF vars, workerVars, callerVars, stopperVars, Next, Enqueue,
     WorkerStep, Shutdown, Terminated, EnqueueLock, EnqueueAdmit,
     EnqueueReject, EnqueuePush

-----------------------------------------------------------------------------
(* The theorems. *)

\* A scheduler whose workers have just been started, with nothing enqueued.
LEMMA InitInv == Init => Inv
<1> SUFFICES ASSUME Init PROVE Inv
  OBVIOUS
<1>1. TypeOK
  BY WorkersNonEmpty DEF Init, TypeOK
<1>2. Fifo
  BY DEF Init, Fifo
<1>3. MutexInv /\ ArgInv /\ JobInv
  BY ThreadsAssumption DEF Init, MutexInv, ArgInv, JobInv, Elems, Callers
<1>4. ExitInv /\ StopperInv
  BY DEF Init, ExitInv, StopperInv
<1> QED
  BY <1>1, <1>2, <1>3, <1>4 DEF Inv

\* No step of a caller, a worker or a shutdown() call breaks the invariant.
LEMMA NextInv == Inv /\ [Next]_vars => Inv'
BY TypeStep, FifoStep, MutexStep, ArgStep, JobStep, ExitStep, StopperStep
   DEF Inv

\* The inductive invariant: mutual exclusion, one owner per popped task, and a
\* worker exits only over a queue that stays empty.
THEOREM Invariance == Spec => []Inv
BY InitInv, NextInv, PTL DEF Spec

\* Every variable keeps its type in every behaviour of the scheduler.
THEOREM TypeCorrect == Spec => []TypeOK
<1>1. Inv => TypeOK
  BY DEF Inv
<1> QED
  BY <1>1, Invariance, PTL

\* Tasks leave the queue in the order they were accepted, none lost.
THEOREM FifoOrder == Spec => []Fifo
<1>1. Inv => Fifo
  BY DEF Inv
<1> QED
  BY <1>1, Invariance, PTL

\* No task is popped twice and no two workers hold the same task.
THEOREM ExecutedOnce == Spec => []AtMostOnce
<1>1. Inv => AtMostOnce
  <2> SUFFICES ASSUME Inv, NEW i \in DOMAIN started, NEW j \in DOMAIN started,
                      started[i] = started[j]
               PROVE  i = j
    BY DEF Inv, JobInv, AtMostOnce
  <2>1. started \in Seq(Tasks) /\ tasks \in Seq(Tasks)
    BY DEF Inv, TypeOK
  <2>2. \A k \in DOMAIN started : k \in DOMAIN (started \o tasks)
                                  /\ (started \o tasks)[k] = started[k]
    BY <2>1
  <2> QED
    BY <2>2 DEF Inv, Fifo, ArgInv
<1> QED
  BY <1>1, Invariance, PTL

\* The drain guarantee: when shutdown() has returned to the thread that closed
\* the pool, every task enqueue() accepted has been executed to its end.
THEOREM DrainGuarantee == Spec => []Drained
<1>1. Inv => Drained
  <2> SUFFICES ASSUME Inv, NEW s \in Stoppers, spc[s] = "returned"
               PROVE  Elems(accepted) \subseteq finished
    BY DEF Drained
  <2>1. \A w \in Workers : wpc[w] = "exited"
    BY DEF Inv, StopperInv
  <2>2. tasks = <<>>
    BY <2>1, WorkersNonEmpty DEF Inv, ExitInv
  <2>3. \A w \in Workers : job[w] = None
    BY <2>1 DEF Inv, JobInv
  <2>4. accepted = started
    <3>1. started \in Seq(Tasks)
      BY DEF Inv, TypeOK
    <3>2. started \o <<>> = started
      BY <3>1
    <3> QED
      BY <2>2, <3>2 DEF Inv, Fifo
  <2>5. None \notin Elems(started)
    BY ElemsType, ThreadsAssumption DEF Inv, TypeOK
  <2> QED
    BY <2>3, <2>4, <2>5 DEF Inv, JobInv
<1> QED
  BY <1>1, Invariance, PTL

\* A refused task is never executed, and refusal means that shutdown() began.
THEOREM RefusalIsFinal == Spec => []RefusedMeansClosing
<1>1. Inv => RefusedMeansClosing
  <2> SUFFICES ASSUME Inv PROVE RefusedMeansClosing
    OBVIOUS
  <2>1. started \in Seq(Tasks) /\ tasks \in Seq(Tasks)
    BY DEF Inv, TypeOK
  <2>2. \A k \in DOMAIN started : k \in DOMAIN (started \o tasks)
                                  /\ (started \o tasks)[k] = started[k]
    BY <2>1
  <2>3. Elems(started) \subseteq Elems(accepted)
    BY <2>2 DEF Inv, Fifo, Elems
  <2> QED
    BY <2>3 DEF Inv, ArgInv, JobInv, StopperInv, RefusedMeansClosing
<1> QED
  BY <1>1, Invariance, PTL

\* No wakeup is lost between the unlock of mutex_ and notify_one().
THEOREM WakeupsArrive == Spec => []NoLostWakeup
<1>1. Init => NoLostWakeup
  BY DEF Init, NoLostWakeup
<1>2. Inv /\ NoLostWakeup /\ [Next]_vars => NoLostWakeup'
  BY WakeupStep DEF Inv
<1> QED
  BY <1>1, <1>2, Invariance, PTL DEF Spec

\* No stop request is lost on a worker that is going to sleep.
THEOREM StopsArrive == Spec => []NoLostStop
<1>1. Init => NoLostStop
  BY DEF Init, NoLostStop
<1>2. Inv /\ NoLostStop /\ [Next]_vars => NoLostStop'
  BY LostStopStep DEF Inv
<1> QED
  BY <1>1, <1>2, Invariance, PTL DEF Spec

\* Nothing is started, finished or accepted once the closing shutdown() has
\* returned.
THEOREM QuietThereafter == Spec => QuietAfterShutdown
<1>1. Inv /\ [Next]_vars =>
        [(\E s \in Stoppers : spc[s] = "returned") =>
            UNCHANGED <<started, finished, accepted>>]_vars
  <2> SUFFICES ASSUME Inv, [Next]_vars, NEW s \in Stoppers, spc[s] = "returned"
               PROVE  UNCHANGED <<started, finished, accepted>>
    OBVIOUS
  <2>1. \A w \in Workers : wpc[w] = "exited"
    BY DEF Inv, StopperInv
  <2>2. \A p \in Callers : epc[p] # "push"
    BY <2>1, WorkersNonEmpty DEF Inv, ExitInv
  <2> QED
    BY <2>1, <2>2 DEF Next, Enqueue, WorkerStep, Shutdown, Terminated, vars,
       EnqueueLock, EnqueueAdmit, EnqueueReject, EnqueuePush, EnqueueNotify,
       WorkerLock, WorkerTake, WorkerExit, WorkerSleep, SpuriousWakeup,
       WorkerFinish, ShutdownWin, ShutdownLose, RequestStop, StopCallback,
       ShutdownNotifyAll, Join
<1> QED
  BY <1>1, Invariance, PTL DEF Spec, QuietAfterShutdown

-----------------------------------------------------------------------------
(* Refinement of TaskPool. *)

Running == {job[w] : w \in {v \in Workers : wpc[v] = "run"}}
Returned == \E s \in Stoppers : spc[s] = "returned"

\* A popped or queued task is known to the abstract pool as an accepted one.
LEMMA KnownAccepted ==
  ASSUME Inv
  PROVE  /\ Elems(tasks) \subseteq Elems(accepted)
         /\ Running \subseteq Elems(accepted)
         /\ finished \subseteq Elems(accepted)
<1>1. started \in Seq(Tasks) /\ tasks \in Seq(Tasks)
  BY DEF Inv, TypeOK
<1>2. \A k \in DOMAIN started : k \in DOMAIN (started \o tasks)
                                /\ (started \o tasks)[k] = started[k]
  BY <1>1
<1>3. \A k \in DOMAIN tasks : Len(started) + k \in DOMAIN (started \o tasks)
                              /\ (started \o tasks)[Len(started) + k] = tasks[k]
  BY <1>1
<1>4. Elems(started) \subseteq Elems(accepted)
  BY <1>2 DEF Inv, Fifo, Elems
<1>5. Elems(tasks) \subseteq Elems(accepted)
  BY <1>3 DEF Inv, Fifo, Elems
<1> QED
  BY <1>4, <1>5 DEF Inv, JobInv, Running

\* A step that moves no worker into or out of a task runs the same tasks.
LEMMA SameRunning ==
  ASSUME job' = job,
         \A w \in Workers : wpc[w] = "run" <=> wpc'[w] = "run"
  PROVE  Running' = Running
BY DEF Running

\* The scheduler starts as an empty, open pool.
LEMMA PoolInit == Init => Pool!Init
BY DEF Init, Pool!Init

\* Every step under the invariant is a step of the pool, or changes nothing of it:
\* a push accepts, a pop starts, an admission that fails refuses.
LEMMA PoolStep ==
  ASSUME Inv, Inv', [Next]_vars
  PROVE  [Pool!Next]_(Pool!vars)
<1> USE DEF workerVars, callerVars, stopperVars
<1>t. TypeOK
  BY DEF Inv
<1>1. ASSUME NEW p \in Callers, EnqueuePush(p) PROVE Pool!Next
  <2>1. ~Returned
    BY <1>1, WorkersNonEmpty DEF Inv, StopperInv, ExitInv, EnqueuePush, Returned
  <2>2. arg[p] \in Tasks /\ arg[p] \notin Elems(accepted) \cup refused
    BY <1>1, <1>t DEF EnqueuePush, Inv, ArgInv, TypeOK
  <2>3. arg[p] \notin Elems(tasks) \cup Running \cup finished \cup refused
    BY <2>2, KnownAccepted
  <2>4. Running' = Running /\ Returned' = Returned
    BY <1>1 DEF EnqueuePush, Running, Returned
  <2>5. Pool!Accept(arg[p])
    BY <1>1, <2>1, <2>3, <2>4
       DEF EnqueuePush, Pool!Accept, Pool!Known, Pool!PendingSet, Elems,
           Running, Returned
  <2> QED
    BY <2>2, <2>5 DEF Pool!Next
<1>2. ASSUME NEW p \in Callers, EnqueueReject(p) PROVE Pool!Next
  <2>1. arg[p] \in Tasks /\ arg[p] \notin Elems(accepted) \cup refused
    BY <1>2, <1>t DEF EnqueueReject, Inv, ArgInv, TypeOK
  <2>2. arg[p] \notin Elems(tasks) \cup Running \cup finished \cup refused
    BY <2>1, KnownAccepted
  <2>3. Pool!Refuse(arg[p])
    BY <1>2, <2>2
       DEF EnqueueReject, Pool!Refuse, Pool!Known, Pool!PendingSet, Elems,
           Running
  <2> QED
    BY <2>1, <2>3 DEF Pool!Next
<1>3. ASSUME NEW w \in Workers, WorkerTake(w) PROVE Pool!Next
  <2>1. job' = [job EXCEPT ![w] = Head(tasks)] /\ wpc' = [wpc EXCEPT ![w] = "run"]
        /\ wpc[w] # "run"
    BY <1>3 DEF WorkerTake
  <2>2. \A v \in Workers : job'[v] = IF v = w THEN Head(tasks) ELSE job[v]
    BY <2>1, <1>t DEF TypeOK
  <2>3. \A v \in Workers : wpc'[v] = IF v = w THEN "run" ELSE wpc[v]
    BY <2>1, <1>t DEF TypeOK
  <2>4. Running' = Running \cup {Head(tasks)}
    BY <2>1, <2>2, <2>3 DEF Running
  <2>5. Pool!Start
    BY <1>3, <2>4 DEF WorkerTake, Pool!Start, Running
  <2> QED
    BY <2>5 DEF Pool!Next
<1>4. ASSUME NEW w \in Workers, WorkerFinish(w) PROVE Pool!Next
  <2>1. job' = [job EXCEPT ![w] = None] /\ wpc' = [wpc EXCEPT ![w] = "lock"]
        /\ wpc[w] = "run" /\ finished' = finished \cup {job[w]}
    BY <1>4 DEF WorkerFinish
  <2>2. \A v \in Workers : v # w => job'[v] = job[v] /\ wpc'[v] = wpc[v]
    BY <2>1, <1>t DEF TypeOK
  <2>3. wpc'[w] = "lock"
    BY <2>1, <1>t DEF TypeOK
  <2>4. job[w] \in Running /\ job[w] # None /\ job[w] \in Tasks
    BY <2>1, <1>t DEF Running, Inv, JobInv, TypeOK
  <2>5. \A v \in Workers : job[v] = job[w] => v = w
    BY <2>4 DEF Inv, JobInv
  <2>6. Running' = Running \ {job[w]}
    BY <2>1, <2>2, <2>3, <2>5 DEF Running
  <2>7. PICK t \in Tasks : t = job[w]
    BY <2>4
  <2>8. Pool!Finish(t)
    BY <1>4, <2>4, <2>6, <2>7 DEF WorkerFinish, Pool!Finish, Running
  <2> QED
    BY <2>8 DEF Pool!Next
<1>5. ASSUME NEW s \in Stoppers, ShutdownWin(s) PROVE Pool!Next
  <2>1. Returned' = Returned
    BY <1>5, <1>t DEF ShutdownWin, TypeOK, Returned
  <2>2. Pool!Close
    BY <1>5, <2>1 DEF ShutdownWin, Pool!Close, Returned
  <2> QED
    BY <2>2 DEF Pool!Next
<1>6. ASSUME NEW s \in Stoppers, Join(s) PROVE [Pool!Next]_(Pool!vars)
  <2>1. CASE Returned' = Returned
    BY <1>6, <2>1 DEF Join, Pool!vars, Returned
  <2>2. CASE Returned' # Returned
    <3>1. ~Returned /\ Returned'
      BY <1>6, <2>2, <1>t DEF Join, Returned, TypeOK
    <3>2. \A w \in Workers : wpc'[w] = "exited"
      BY <3>1 DEF Inv, StopperInv, Returned
    <3>3. UNCHANGED <<tasks, job, wpc, finished, refused, is_running>>
      BY <1>6 DEF Join
    <3>4. tasks = <<>> /\ ~is_running
      BY <3>2, <3>3, WorkersNonEmpty DEF Inv, ExitInv
    <3>5. Running = {}
      BY <3>2, <3>3 DEF Running
    <3>6. Pool!Stop
      BY <3>1, <3>3, <3>4, <3>5 DEF Pool!Stop, Running, Returned
    <3> QED
      BY <3>6 DEF Pool!Next
  <2> QED
    BY <2>1, <2>2
<1>7. ASSUME UNCHANGED <<tasks, job, finished, refused, is_running>>,
             \A w \in Workers : wpc[w] = "run" <=> wpc'[w] = "run",
             \A s \in Stoppers : spc[s] = "returned" <=> spc'[s] = "returned"
      PROVE  UNCHANGED Pool!vars
  <2>1. Running' = Running
    BY <1>7, SameRunning
  <2>2. Returned' = Returned
    BY <1>7 DEF Returned
  <2> QED
    BY <1>7, <2>1, <2>2 DEF Pool!vars, Running, Returned
<1>8. ASSUME NEW p \in Callers,
             (\E t \in Tasks : EnqueueLock(p, t)) \/ EnqueueAdmit(p) \/ EnqueueNotify(p)
      PROVE  UNCHANGED Pool!vars
  BY <1>7, <1>8, <1>t
     DEF EnqueueLock, EnqueueAdmit, EnqueueNotify, Asleep, TypeOK
<1>9. ASSUME NEW w \in Workers,
             WorkerLock(w) \/ WorkerExit(w) \/ WorkerSleep(w) \/ SpuriousWakeup(w)
      PROVE  UNCHANGED Pool!vars
  BY <1>7, <1>9, <1>t
     DEF WorkerLock, WorkerExit, WorkerSleep, SpuriousWakeup, TypeOK
<1>10. ASSUME NEW s \in Stoppers,
              ShutdownLose(s) \/ RequestStop(s) \/ StopCallback(s) \/ ShutdownNotifyAll(s)
       PROVE  UNCHANGED Pool!vars
  BY <1>7, <1>10, <1>t
     DEF ShutdownLose, RequestStop, StopCallback, ShutdownNotifyAll, WakeAll,
         TypeOK
<1>11. ASSUME UNCHANGED vars PROVE UNCHANGED Pool!vars
  BY <1>7, <1>11 DEF vars
<1> QED
  BY <1>1, <1>2, <1>3, <1>4, <1>5, <1>6, <1>8, <1>9, <1>10, <1>11
     DEF Next, Enqueue, WorkerStep, Shutdown, Terminated

\* The thread pool implements the promise of ITaskScheduler: tasks are accepted
\* or refused, run once and in order, and gone when shutdown() has returned.
THEOREM Refinement == Spec => ImplementsPool
<1>1. Init => Pool!Init
  BY PoolInit
<1>2. Inv /\ Inv' /\ [Next]_vars => [Pool!Next]_(Pool!vars)
  BY PoolStep
<1> QED
  BY <1>1, <1>2, Invariance, PTL DEF Spec, ImplementsPool, Pool!Spec

=============================================================================
