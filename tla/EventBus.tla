------------------------------- MODULE EventBus -------------------------------
(***************************************************************************)
(* InMemoryEventBus on top of the task scheduler's promise (TaskPool).     *)
(* publish() wraps the dispatch of an event in a task and enqueues it; the *)
(* worker that runs the task holds m_sub_mutex shared for the whole        *)
(* dispatch and calls the topic's handlers in subscription order.          *)
(* subscribe() takes m_sub_mutex exclusively, on the caller's thread.      *)
(*                                                                         *)
(* The tasks of the pool are the events themselves.  publish() touches no  *)
(* lock of the bus, so a publish() made by a handler and one made by any   *)
(* other thread are the same step.                                         *)
(***************************************************************************)
EXTENDS Integers, Sequences, FiniteSets

CONSTANTS
  Events,         \* published events, each one instance
  Subscriptions,  \* calls of subscribe(), each with the closure it registers
  Topics,
  EventTopic,     \* Event::topic
  SubTopic,       \* the topic a subscription names
  MayThrow,       \* subscriptions whose handler may throw (bad_any_cast)
  ThreadCount     \* workers of the scheduler

ASSUME EventBusAssumption ==
  /\ EventTopic \in [Events -> Topics]
  /\ SubTopic \in [Subscriptions -> Topics]
  /\ MayThrow \subseteq Subscriptions
  /\ ThreadCount \in Nat \ {0}

VARIABLES
  pending, active, finished, refused, closing, stopped,  \* the scheduler
  m_subscribers,  \* m_subscribers: topic -> vector of handlers
  readers,        \* the dispatches that hold m_sub_mutex shared
  dpc,            \* where the dispatch of each event is
  delivered,      \* the handlers the dispatch of an event has called
  sub_pc,         \* where each call of subscribe() is
  known,          \* history: subscriptions complete when an event was published
  thrown          \* history: the events whose dispatch a handler cut short

Pool == INSTANCE TaskPool WITH Tasks <- Events

poolVars == <<pending, active, finished, refused, closing, stopped>>
busVars == <<m_subscribers, readers, dpc, delivered, sub_pc, known, thrown>>
vars == <<poolVars, busVars>>

Handlers(e) == m_subscribers[EventTopic[e]]
IsPrefix(s, t) == Len(s) <= Len(t) /\ \A i \in DOMAIN s : s[i] = t[i]

TypeOK ==
  /\ Pool!Known \subseteq Events /\ pending \in Seq(Events)
  /\ m_subscribers \in [Topics -> Seq(Subscriptions)]
  /\ readers = {e \in Events : dpc[e] \in {"loop", "handler"}}
  /\ dpc \in [Events -> {"no", "lock", "loop", "handler"}]
  /\ delivered \in [Events -> Seq(Subscriptions)]
  /\ sub_pc \in [Subscriptions -> {"idle", "waiting", "done"}]
  /\ known \in [Events -> Nat]
  /\ thrown \subseteq Events

Init ==
  /\ Pool!Init
  /\ m_subscribers = [t \in Topics |-> <<>>]
  /\ readers = {}
  /\ dpc = [e \in Events |-> "no"]
  /\ delivered = [e \in Events |-> <<>>]
  /\ sub_pc = [s \in Subscriptions |-> "idle"]
  /\ known = [e \in Events |-> 0]
  /\ thrown = {}

-----------------------------------------------------------------------------
(* publish() *)

\* enqueue() accepted the dispatch.
Publish(e) ==
  /\ Pool!Accept(e)
  /\ known' = [known EXCEPT ![e] = Len(Handlers(e))]
  /\ UNCHANGED <<m_subscribers, readers, dpc, delivered, sub_pc, thrown>>

\* enqueue() returned false: the event is discarded.
Discard(e) == Pool!Refuse(e) /\ UNCHANGED busVars

-----------------------------------------------------------------------------
(* The dispatch task *)

StartDispatch ==
  /\ Cardinality(active) < ThreadCount
  /\ Pool!Start
  /\ dpc' = [dpc EXCEPT ![Head(pending)] = "lock"]
  /\ UNCHANGED <<m_subscribers, readers, delivered, sub_pc, known, thrown>>

\* No writer stays inside between two steps, so the lock is always free to a
\* reader (glibc's reader-preferring rwlock lets readers pass waiting writers).
LockShared(e) ==
  /\ dpc[e] = "lock"
  /\ readers' = readers \cup {e}
  /\ dpc' = [dpc EXCEPT ![e] = "loop"]
  /\ UNCHANGED <<poolVars, m_subscribers, delivered, sub_pc, known, thrown>>

CallHandler(e) ==
  /\ dpc[e] = "loop" /\ Len(delivered[e]) < Len(Handlers(e))
  /\ delivered' = [delivered EXCEPT ![e] = Append(@, Handlers(e)[Len(@) + 1])]
  /\ dpc' = [dpc EXCEPT ![e] = "handler"]
  /\ UNCHANGED <<poolVars, m_subscribers, readers, sub_pc, known, thrown>>

\* Mutant: the loop ends after the first handler.
HandlerReturnsLast(e) ==
  /\ dpc[e] = "handler"
  /\ dpc' = [dpc EXCEPT ![e] = "no"]
  /\ readers' = readers \ {e}
  /\ Pool!Finish(e)
  /\ UNCHANGED <<m_subscribers, delivered, sub_pc, known, thrown>>

HandlerReturns(e) ==
  /\ dpc[e] = "handler"
  /\ dpc' = [dpc EXCEPT ![e] = "loop"]
  /\ UNCHANGED <<poolVars, m_subscribers, readers, delivered, sub_pc, known,
                 thrown>>

\* Mutant: m_sub_mutex stays locked when the exception unwinds.
HandlerThrowsHolding(e) ==
  /\ dpc[e] = "handler"
  /\ delivered[e][Len(delivered[e])] \in MayThrow
  /\ dpc' = [dpc EXCEPT ![e] = "no"]
  /\ thrown' = thrown \cup {e}
  /\ Pool!Finish(e)
  /\ UNCHANGED <<m_subscribers, readers, delivered, sub_pc, known>>

\* Mutant: the worker does not survive the exception.
HandlerThrowsKills(e) ==
  /\ dpc[e] = "handler"
  /\ delivered[e][Len(delivered[e])] \in MayThrow
  /\ dpc' = [dpc EXCEPT ![e] = "no"]
  /\ readers' = readers \ {e}
  /\ thrown' = thrown \cup {e}
  /\ UNCHANGED <<poolVars, m_subscribers, delivered, sub_pc, known>>

\* Nothing in the task catches: the exception leaves the loop, the shared_lock
\* is released and the worker loop of the scheduler swallows it.
HandlerThrows(e) ==
  /\ dpc[e] = "handler"
  /\ delivered[e][Len(delivered[e])] \in MayThrow
  /\ dpc' = [dpc EXCEPT ![e] = "no"]
  /\ readers' = readers \ {e}
  /\ thrown' = thrown \cup {e}
  /\ Pool!Finish(e)
  /\ UNCHANGED <<m_subscribers, delivered, sub_pc, known>>

EndDispatch(e) ==
  /\ dpc[e] = "loop" /\ Len(delivered[e]) = Len(Handlers(e))
  /\ dpc' = [dpc EXCEPT ![e] = "no"]
  /\ readers' = readers \ {e}
  /\ Pool!Finish(e)
  /\ UNCHANGED <<m_subscribers, delivered, sub_pc, known, thrown>>

-----------------------------------------------------------------------------
(* subscribe() *)

SubscribeCall(s) ==
  /\ sub_pc[s] = "idle"
  /\ sub_pc' = [sub_pc EXCEPT ![s] = "waiting"]
  /\ UNCHANGED <<poolVars, m_subscribers, readers, dpc, delivered, known, thrown>>

\* Mutant: the lock is taken as the dispatches take it, shared.
SubscribeAppendShared(s) ==
  /\ sub_pc[s] = "waiting"
  /\ m_subscribers' = [m_subscribers EXCEPT ![SubTopic[s]] = Append(@, s)]
  /\ sub_pc' = [sub_pc EXCEPT ![s] = "done"]
  /\ UNCHANGED <<poolVars, readers, dpc, delivered, known, thrown>>

SubscribeAppend(s) ==
  /\ sub_pc[s] = "waiting" /\ readers = {}
  /\ m_subscribers' = [m_subscribers EXCEPT ![SubTopic[s]] = Append(@, s)]
  /\ sub_pc' = [sub_pc EXCEPT ![s] = "done"]
  /\ UNCHANGED <<poolVars, readers, dpc, delivered, known, thrown>>

-----------------------------------------------------------------------------
(* The scheduler is shut down by its owner. *)

Close == Pool!Close /\ UNCHANGED busVars
Stop == Pool!Stop /\ UNCHANGED busVars

Dispatch(e) ==
  LockShared(e) \/ CallHandler(e) \/ HandlerReturns(e) \/ HandlerThrows(e)
    \/ EndDispatch(e)

Terminated ==
  /\ stopped /\ Pool!Known = Events
  /\ \A s \in Subscriptions : sub_pc[s] = "done"
  /\ UNCHANGED vars

Next ==
  \/ \E e \in Events : Publish(e) \/ Discard(e) \/ Dispatch(e)
  \/ StartDispatch
  \/ \E s \in Subscriptions : SubscribeCall(s) \/ SubscribeAppend(s)
  \/ Close \/ Stop
  \/ Terminated

Spec == Init /\ [][Next]_vars

\* Workers run, handlers return or throw, and a lock that stays free is taken.
\* Nobody is obliged to publish, to subscribe or to shut down.
Fairness ==
  /\ WF_vars(StartDispatch)
  /\ \A e \in Events : WF_vars(Dispatch(e))
  /\ \A s \in Subscriptions : WF_vars(SubscribeAppend(s))

FairSpec == Spec /\ Fairness

-----------------------------------------------------------------------------
(* Properties *)

InOrder == \A e \in Events : IsPrefix(delivered[e], Handlers(e))
Looping(e) == dpc[e] \in {"loop", "handler"}

\* An event reaches every handler at most once and in subscription order, with
\* subscribe() and the dispatch of other events interleaved: what a dispatch has
\* called is a prefix of the topic's vector, and the map and the vector it loops
\* over do not change, nor move, under it, however long a handler takes.
LoopUndisturbed ==
  [][/\ InOrder'
     /\ (\E e \in Events : Looping(e)) => UNCHANGED m_subscribers]_vars

\* A subscribe() that returned before publish() was called gets the event,
\* unless a handler before it throws; it is not enough that the vector is read
\* when the task runs, it must not have lost anybody since.
NoSubscriberMissed ==
  \A e \in finished \ thrown : Len(delivered[e]) >= known[e]

\* Every accepted event is eventually dispatched to the end.
DispatchCompletes ==
  \A e \in Events : e \in Pool!PendingSet ~> e \in finished

\* subscribe() returns once the running dispatches are over, a dispatch that a
\* handler cut short with an exception included.
SubscribeCompletes ==
  \A s \in Subscriptions : sub_pc[s] = "waiting" ~> sub_pc[s] = "done"

\* What event_bus.hpp says of a throwing handler: the bus "catches and logs the
\* exception but continues dispatching", so the other handlers get the event.
ThrowDoesNotSkip ==
  \A e \in finished : Len(delivered[e]) >= known[e]

-----------------------------------------------------------------------------
(* The inductive invariant. *)

\* A task waits once and is not running; only running dispatches do anything.
DispatchInv ==
  /\ \A i, j \in DOMAIN pending : pending[i] = pending[j] => i = j
  /\ Pool!PendingSet \cap active = {}
  /\ \A e \in Events : dpc[e] # "no" => e \in active

\* Handlers are only ever added.
KnownInv == \A e \in Events : known[e] <= Len(Handlers(e))

Inv == TypeOK /\ DispatchInv /\ InOrder /\ KnownInv /\ NoSubscriberMissed
=============================================================================
