--------------------------- MODULE EventBus_proofs ---------------------------
(***************************************************************************)
(* The event bus, for any events, topics, subscriptions and workers.       *)
(***************************************************************************)
EXTENDS EventBus, TLAPS

-----------------------------------------------------------------------------
(* The tasks of the scheduler *)

\* Publishing puts an event nobody knew of at the end of the queue.
LEMMA Accepted ==
  ASSUME pending \in Seq(Events), NEW e \in Events, Pool!Accept(e)
  PROVE  /\ pending' \in Seq(Events)
         /\ Len(pending') = Len(pending) + 1 /\ pending'[Len(pending')] = e
         /\ \A i \in DOMAIN pending : pending'[i] = pending[i]
         /\ Pool!PendingSet' = Pool!PendingSet \cup {e}
         /\ e \notin Pool!PendingSet /\ e \notin active /\ e \notin finished
         /\ UNCHANGED <<active, finished, refused>>
BY DEF Pool!Accept, Pool!Known, Pool!PendingSet

\* Starting a dispatch takes the oldest event.
LEMMA Started ==
  ASSUME pending \in Seq(Events), Pool!Start
  PROVE  /\ pending' \in Seq(Events) /\ Head(pending) \in Pool!PendingSet
         /\ Head(pending) = pending[1] /\ Head(pending) \in Events
         /\ Len(pending') = Len(pending) - 1
         /\ \A i \in DOMAIN pending' :
              i + 1 \in DOMAIN pending /\ pending'[i] = pending[i + 1]
         /\ Pool!PendingSet' \subseteq Pool!PendingSet
         /\ active' = active \cup {Head(pending)}
         /\ UNCHANGED <<finished, refused>>
<1>1. pending # <<>> /\ pending' = Tail(pending)
  BY DEF Pool!Start
<1>2. /\ pending' \in Seq(Events) /\ Len(pending') = Len(pending) - 1
      /\ \A i \in DOMAIN pending' :
           i + 1 \in DOMAIN pending /\ pending'[i] = pending[i + 1]
      /\ Head(pending) = pending[1] /\ 1 \in DOMAIN pending
  BY <1>1
<1>3. Pool!PendingSet' \subseteq Pool!PendingSet
  BY <1>2 DEF Pool!PendingSet
<1> QED
  BY <1>2, <1>3 DEF Pool!Start, Pool!PendingSet

\* Shutting down changes nothing of the dispatches.
LEMMA Shut ==
  ASSUME Close \/ Stop \/ Terminated \/ UNCHANGED vars
  PROVE  UNCHANGED <<pending, active, finished, refused, busVars>>
BY DEF Close, Stop, Terminated, vars, poolVars, Pool!Close, Pool!Stop

\* The handlers of an event are those of the topic it names.
LEMMA HandlersTyped ==
  ASSUME m_subscribers \in [Topics -> Seq(Subscriptions)], NEW e \in Events
  PROVE  EventTopic[e] \in Topics /\ Handlers(e) \in Seq(Subscriptions)
BY EventBusAssumption DEF Handlers

-----------------------------------------------------------------------------
(* Each part of the invariant is preserved. *)

LEMMA TypeStep ==
  ASSUME TypeOK, DispatchInv, [Next]_vars
  PROVE  TypeOK'
<1> USE DEF TypeOK, busVars
<1>1. ASSUME NEW e \in Events, Publish(e) PROVE TypeOK'
  <2>1. Pool!Known' \subseteq Events /\ pending' \in Seq(Events)
    BY <1>1, Accepted DEF Publish, Pool!Known
  <2>2. known' \in [Events -> Nat]
    <3>1. Len(Handlers(e)) \in Nat
      BY HandlersTyped
    <3> QED
      BY <1>1, <3>1 DEF Publish
  <2> QED
    BY <1>1, <2>1, <2>2 DEF Publish
<1>2. ASSUME NEW e \in Events, Discard(e) PROVE TypeOK'
  BY <1>2 DEF Discard, Pool!Refuse, Pool!Known, Pool!PendingSet
<1>3. ASSUME StartDispatch PROVE TypeOK'
  <2>1. Pool!Known' \subseteq Events /\ pending' \in Seq(Events)
    BY <1>3, Started DEF StartDispatch, Pool!Known
  <2>2. Head(pending) \in Events /\ dpc[Head(pending)] = "no"
    BY <1>3, Started DEF StartDispatch, DispatchInv
  <2> QED
    BY <1>3, <2>1, <2>2 DEF StartDispatch
<1>4. ASSUME NEW e \in Events, LockShared(e) \/ HandlerReturns(e) PROVE TypeOK'
  <2>1. Pool!Known' \subseteq Events /\ pending' \in Seq(Events)
    BY <1>4 DEF LockShared, HandlerReturns, poolVars, Pool!Known, Pool!PendingSet
  <2> QED
    BY <1>4, <2>1 DEF LockShared, HandlerReturns
<1>5. ASSUME NEW e \in Events, CallHandler(e) PROVE TypeOK'
  <2>1. Pool!Known' \subseteq Events /\ pending' \in Seq(Events)
    BY <1>5 DEF CallHandler, poolVars, Pool!Known, Pool!PendingSet
  <2>2. Handlers(e)[Len(delivered[e]) + 1] \in Subscriptions
    <3>1. Handlers(e) \in Seq(Subscriptions) /\ delivered[e] \in Seq(Subscriptions)
      BY HandlersTyped
    <3> QED
      BY <1>5, <3>1 DEF CallHandler
  <2>3. delivered' \in [Events -> Seq(Subscriptions)]
    BY <1>5, <2>2 DEF CallHandler
  <2> QED
    BY <1>5, <2>1, <2>3 DEF CallHandler
<1>6. ASSUME NEW e \in Events, HandlerThrows(e) \/ EndDispatch(e) PROVE TypeOK'
  <2>1. Pool!Known' \subseteq Events /\ pending' \in Seq(Events)
    BY <1>6 DEF HandlerThrows, EndDispatch, Pool!Finish, Pool!Known, Pool!PendingSet
  <2> QED
    BY <1>6, <2>1 DEF HandlerThrows, EndDispatch
<1>7. ASSUME NEW s \in Subscriptions, SubscribeCall(s) \/ SubscribeAppend(s)
      PROVE TypeOK'
  <2>1. Pool!Known' \subseteq Events /\ pending' \in Seq(Events)
    BY <1>7
       DEF SubscribeCall, SubscribeAppend, poolVars, Pool!Known, Pool!PendingSet
  <2>2. m_subscribers' \in [Topics -> Seq(Subscriptions)]
    <3>1. SubTopic[s] \in Topics
      BY EventBusAssumption
    <3>2. Append(m_subscribers[SubTopic[s]], s) \in Seq(Subscriptions)
      BY <3>1
    <3> QED
      BY <1>7, <3>2 DEF SubscribeCall, SubscribeAppend
  <2>3. sub_pc' \in [Subscriptions -> {"idle", "waiting", "done"}]
    BY <1>7 DEF SubscribeCall, SubscribeAppend
  <2>4. UNCHANGED <<readers, dpc, delivered, known, thrown>>
    BY <1>7 DEF SubscribeCall, SubscribeAppend
  <2> QED
    BY <2>1, <2>2, <2>3, <2>4
<1>8. ASSUME Close \/ Stop \/ Terminated \/ UNCHANGED vars PROVE TypeOK'
  BY <1>8, Shut DEF Pool!Known, Pool!PendingSet
<1> QED
  BY <1>1, <1>2, <1>3, <1>4, <1>5, <1>6, <1>7, <1>8 DEF Next, Dispatch

LEMMA DispatchStep ==
  ASSUME TypeOK, DispatchInv, [Next]_vars
  PROVE  DispatchInv'
<1> USE DEF TypeOK, DispatchInv, busVars
<1>1. ASSUME NEW e \in Events, Publish(e) PROVE DispatchInv'
  <2>1. \A i, j \in DOMAIN pending' : pending'[i] = pending'[j] => i = j
    <3>1. /\ Len(pending') = Len(pending) + 1 /\ pending'[Len(pending')] = e
          /\ pending \in Seq(Events) /\ pending' \in Seq(Events)
          /\ \A i \in DOMAIN pending : pending'[i] = pending[i] /\ pending[i] # e
      BY <1>1, Accepted DEF Publish, Pool!PendingSet
    <3>2. \A i \in DOMAIN pending' : i \in DOMAIN pending \/ i = Len(pending')
      BY <3>1
    <3> QED
      BY <3>1, <3>2
  <2>2. Pool!PendingSet' \cap active' = {}
    BY <1>1, Accepted DEF Publish
  <2>3. \A d \in Events : dpc'[d] # "no" => d \in active'
    BY <1>1, Accepted DEF Publish
  <2> QED
    BY <2>1, <2>2, <2>3
<1>2. ASSUME NEW e \in Events, Discard(e) PROVE DispatchInv'
  BY <1>2 DEF Discard, Pool!Refuse, Pool!PendingSet
<1>3. ASSUME StartDispatch PROVE DispatchInv'
  <2>1. \A i, j \in DOMAIN pending' : pending'[i] = pending'[j] => i = j
    BY <1>3, Started DEF StartDispatch
  <2>2. Head(pending) \notin Pool!PendingSet'
    <3> SUFFICES ASSUME NEW i \in DOMAIN pending', pending'[i] = Head(pending)
                 PROVE  FALSE
      BY DEF Pool!PendingSet
    <3>1. /\ pending[i + 1] = pending[1] /\ i + 1 \in DOMAIN pending
          /\ 1 \in DOMAIN pending /\ i \in 1 .. Len(pending')
      BY <1>3, Started DEF StartDispatch
    <3> QED
      BY <3>1
  <2>3. Pool!PendingSet' \cap active' = {}
    BY <1>3, <2>2, Started DEF StartDispatch
  <2>4. \A e \in Events : dpc'[e] # "no" => e \in active'
    BY <1>3, Started DEF StartDispatch
  <2> QED
    BY <2>1, <2>3, <2>4
<1>4. ASSUME NEW e \in Events, LockShared(e) \/ HandlerReturns(e) \/ CallHandler(e)
      PROVE DispatchInv'
  BY <1>4
     DEF LockShared, HandlerReturns, CallHandler, poolVars, Pool!PendingSet
<1>5. ASSUME NEW e \in Events, HandlerThrows(e) \/ EndDispatch(e)
      PROVE DispatchInv'
  <2>1. /\ UNCHANGED pending /\ active' = active \ {e}
        /\ dpc' = [dpc EXCEPT ![e] = "no"]
    BY <1>5 DEF HandlerThrows, EndDispatch, Pool!Finish
  <2>2. \A d \in Events : dpc'[d] # "no" => d \in active'
    BY <2>1
  <2> QED
    BY <2>1, <2>2 DEF Pool!PendingSet
<1>6. ASSUME NEW s \in Subscriptions, SubscribeCall(s) \/ SubscribeAppend(s)
      PROVE DispatchInv'
  BY <1>6 DEF SubscribeCall, SubscribeAppend, poolVars, Pool!PendingSet
<1>7. ASSUME Close \/ Stop \/ Terminated \/ UNCHANGED vars PROVE DispatchInv'
  BY <1>7, Shut DEF Pool!PendingSet
<1> QED
  BY <1>1, <1>2, <1>3, <1>4, <1>5, <1>6, <1>7 DEF Next, Dispatch

-----------------------------------------------------------------------------
(* The vectors of handlers only grow. *)

\* What was in a topic's vector stays there, at its place.
LEMMA HandlersGrow ==
  ASSUME TypeOK, [Next]_vars, NEW e \in Events
  PROVE  /\ Handlers(e) \in Seq(Subscriptions) /\ Handlers(e)' \in Seq(Subscriptions)
         /\ IsPrefix(Handlers(e), Handlers(e)')
<1>1. EventTopic[e] \in Topics /\ Handlers(e) \in Seq(Subscriptions)
  BY HandlersTyped DEF TypeOK
<1>2. ASSUME NEW s \in Subscriptions, SubscribeAppend(s)
      PROVE /\ Handlers(e)' \in Seq(Subscriptions)
            /\ IsPrefix(Handlers(e), Handlers(e)')
  <2>1. UNCHANGED Handlers(e) \/ Handlers(e)' = Append(Handlers(e), s)
    BY <1>2, <1>1 DEF SubscribeAppend, TypeOK, Handlers
  <2> QED
    BY <2>1, <1>1 DEF IsPrefix
<1>3. ASSUME UNCHANGED m_subscribers
      PROVE /\ Handlers(e)' \in Seq(Subscriptions)
            /\ IsPrefix(Handlers(e), Handlers(e)')
  <2>1. UNCHANGED Handlers(e)
    BY <1>3 DEF Handlers
  <2> QED
    BY <2>1, <1>1 DEF IsPrefix
<1>4. UNCHANGED m_subscribers \/ \E s \in Subscriptions : SubscribeAppend(s)
  BY DEF Next, Dispatch, Publish, Discard, LockShared, CallHandler, HandlerReturns,
         HandlerThrows, EndDispatch, StartDispatch, SubscribeCall, Close, Stop,
         Terminated, vars, busVars
<1> QED
  BY <1>2, <1>3, <1>4, <1>1

\* A dispatch calls the next handler of the vector, or none.
LEMMA DeliveredGrows ==
  ASSUME TypeOK, [Next]_vars, NEW e \in Events
  PROVE  \/ delivered'[e] = delivered[e]
         \/ /\ Len(delivered[e]) < Len(Handlers(e))
            /\ delivered'[e] = Append(delivered[e], Handlers(e)[Len(delivered[e]) + 1])
<1>1. UNCHANGED delivered \/ \E d \in Events : CallHandler(d)
  BY DEF Next, Dispatch, Publish, Discard, LockShared, HandlerReturns, HandlerThrows,
         EndDispatch, StartDispatch, SubscribeCall, SubscribeAppend, Close, Stop,
         Terminated, vars, busVars
<1> QED
  BY <1>1 DEF CallHandler, TypeOK

\* A prefix of what grew is a prefix of what it has become.
LEMMA PrefixOfLonger ==
  ASSUME NEW S, NEW s \in Seq(S), NEW t \in Seq(S), NEW u \in Seq(S),
         IsPrefix(s, t), IsPrefix(t, u)
  PROVE  IsPrefix(s, u)
BY DEF IsPrefix

\* A prefix grows by the element that comes next.
LEMMA NextOfPrefix ==
  ASSUME NEW S, NEW s \in Seq(S), NEW t \in Seq(S), IsPrefix(s, t), Len(s) < Len(t)
  PROVE  /\ Append(s, t[Len(s) + 1]) \in Seq(S)
         /\ IsPrefix(Append(s, t[Len(s) + 1]), t)
<1>1. t[Len(s) + 1] \in S
  OBVIOUS
<1>2. PICK x \in S : x = t[Len(s) + 1]
  BY <1>1
<1>3. Append(s, x) \in Seq(S) /\ Len(Append(s, x)) = Len(s) + 1
  OBVIOUS
<1>4. ASSUME NEW i \in 1 .. Len(s) + 1 PROVE Append(s, x)[i] = t[i]
  BY <1>2 DEF IsPrefix
<1> QED
  BY <1>2, <1>3, <1>4 DEF IsPrefix

LEMMA OrderStep ==
  ASSUME TypeOK, TypeOK', InOrder, [Next]_vars
  PROVE  InOrder'
<1> SUFFICES ASSUME NEW e \in Events PROVE IsPrefix(delivered'[e], Handlers(e)')
  BY DEF InOrder
<1>1. /\ Handlers(e) \in Seq(Subscriptions) /\ Handlers(e)' \in Seq(Subscriptions)
      /\ IsPrefix(Handlers(e), Handlers(e)')
  BY HandlersGrow
<1>2. delivered[e] \in Seq(Subscriptions) /\ IsPrefix(delivered[e], Handlers(e))
  BY DEF TypeOK, InOrder
<1>3. CASE delivered'[e] = delivered[e]
  BY <1>1, <1>2, <1>3, PrefixOfLonger
<1>4. CASE /\ Len(delivered[e]) < Len(Handlers(e))
           /\ delivered'[e] = Append(delivered[e], Handlers(e)[Len(delivered[e]) + 1])
  <2>1. delivered'[e] \in Seq(Subscriptions) /\ IsPrefix(delivered'[e], Handlers(e))
    BY <1>1, <1>2, <1>4, NextOfPrefix
  <2> QED
    BY <1>1, <2>1, PrefixOfLonger
<1> QED
  BY <1>3, <1>4, DeliveredGrows

LEMMA KnownStep ==
  ASSUME TypeOK, KnownInv, [Next]_vars
  PROVE  KnownInv'
<1> SUFFICES ASSUME NEW e \in Events PROVE known'[e] <= Len(Handlers(e)')
  BY DEF KnownInv
<1>1. /\ Len(Handlers(e)) \in Nat /\ Len(Handlers(e)') \in Nat
      /\ Len(Handlers(e)) <= Len(Handlers(e)')
  BY HandlersGrow DEF IsPrefix
<1>2. known'[e] = known[e] \/ known'[e] = Len(Handlers(e))
  <2>1. UNCHANGED known \/ \E d \in Events : Publish(d)
    BY DEF Next, Dispatch, Discard, LockShared, CallHandler, HandlerReturns,
           HandlerThrows, EndDispatch, StartDispatch, SubscribeCall, SubscribeAppend,
           Close, Stop, Terminated, vars, busVars
  <2> QED
    BY <2>1 DEF Publish, TypeOK
<1> QED
  BY <1>1, <1>2 DEF KnownInv, TypeOK

LEMMA MissedStep ==
  ASSUME TypeOK, KnownInv, NoSubscriberMissed, [Next]_vars
  PROVE  NoSubscriberMissed'
<1> SUFFICES ASSUME NEW e \in finished' \ thrown'
             PROVE  Len(delivered'[e]) >= known'[e]
  BY DEF NoSubscriberMissed
<1>t. /\ \A d \in Events : delivered[d] \in Seq(Subscriptions)
      /\ known \in [Events -> Nat] /\ finished \subseteq Events
  BY DEF TypeOK, Pool!Known
<1>1. CASE e \in finished
  <2>1. e \in Events /\ e \notin thrown
    BY <1>1, <1>t DEF Next, Dispatch, Publish, Discard, LockShared, CallHandler,
       HandlerReturns, HandlerThrows, EndDispatch, StartDispatch, SubscribeCall,
       SubscribeAppend, Close, Stop, Terminated, vars, busVars
  <2>2. known'[e] = known[e]
    <3>1. UNCHANGED known \/ \E d \in Events : Publish(d)
      BY DEF Next, Dispatch, Discard, LockShared, CallHandler, HandlerReturns,
             HandlerThrows, EndDispatch, StartDispatch, SubscribeCall,
             SubscribeAppend, Close, Stop, Terminated, vars, busVars
    <3>2. ASSUME NEW d \in Events, Publish(d) PROVE d # e
      BY <1>1, <3>2 DEF Publish, Pool!Accept, Pool!Known
    <3> QED
      BY <2>1, <3>1, <3>2, <1>t DEF Publish
  <2>3. Len(delivered[e]) >= known[e]
    BY <1>1, <2>1 DEF NoSubscriberMissed
  <2>4. /\ Len(delivered[e]) \in Nat /\ Len(delivered'[e]) \in Nat
        /\ Len(delivered'[e]) >= Len(delivered[e])
    <3>1. CASE delivered'[e] = delivered[e]
      BY <2>1, <1>t, <3>1
    <3>2. CASE /\ Len(delivered[e]) < Len(Handlers(e))
               /\ delivered'[e] =
                    Append(delivered[e], Handlers(e)[Len(delivered[e]) + 1])
      <4>1. Handlers(e)[Len(delivered[e]) + 1] \in Subscriptions
        BY <2>1, <1>t, <3>2, HandlersGrow
      <4> QED
        BY <2>1, <1>t, <3>2, <4>1
    <3> QED
      BY <2>1, <3>1, <3>2, DeliveredGrows
  <2> QED
    BY <2>1, <2>2, <2>3, <2>4, <1>t
<1>2. CASE e \notin finished
  <2>1. UNCHANGED finished \/ \E d \in Events : HandlerThrows(d) \/ EndDispatch(d)
    BY DEF Next, Dispatch, Publish, Discard, LockShared, CallHandler, HandlerReturns,
           StartDispatch, SubscribeCall, SubscribeAppend, Close, Stop, Terminated,
           vars, poolVars, Pool!Accept, Pool!Refuse, Pool!Start, Pool!Close, Pool!Stop
  <2>2. PICK d \in Events : HandlerThrows(d) \/ EndDispatch(d)
    BY <1>2, <2>1
  <2>3. finished' = finished \cup {d}
    BY <2>2 DEF HandlerThrows, EndDispatch, Pool!Finish
  <2>4. e = d
    BY <1>2, <2>3
  <2>5. EndDispatch(e)
    BY <2>2, <2>4 DEF HandlerThrows
  <2> QED
    BY <2>4, <2>5 DEF EndDispatch, KnownInv
<1> QED
  BY <1>1, <1>2

-----------------------------------------------------------------------------
(* The theorems. *)

LEMMA InitInv ==
  ASSUME Init
  PROVE  Inv
<1>1. TypeOK
  BY DEF Init, TypeOK, Pool!Init, Pool!Known, Pool!PendingSet
<1>2. DispatchInv
  BY DEF Init, DispatchInv, Pool!Init, Pool!PendingSet
<1>3. InOrder /\ KnownInv /\ NoSubscriberMissed
  BY DEF Init, InOrder, KnownInv, NoSubscriberMissed, IsPrefix, Handlers, Pool!Init
<1> QED
  BY <1>1, <1>2, <1>3 DEF Inv

\* The inductive invariant.
THEOREM Invariance == Spec => []Inv
<1>1. Init => Inv
  BY InitInv
<1>2. Inv /\ [Next]_vars => Inv'
  BY TypeStep, DispatchStep, OrderStep, KnownStep, MissedStep DEF Inv
<1> QED
  BY <1>1, <1>2, PTL DEF Spec

\* Types; in particular m_sub_mutex is held by exactly the dispatches that are
\* in their loop or in a handler.
THEOREM TypeCorrect == Spec => []TypeOK
<1>1. Inv => TypeOK
  BY DEF Inv
<1> QED
  BY <1>1, Invariance, PTL

\* What a dispatch has called is a prefix of the handlers of the topic, and these
\* stay as they are while it calls them.
THEOREM HandlersHeld == Spec => LoopUndisturbed
<1>1. /\ Inv /\ Inv' /\ [Next]_vars
      => [/\ InOrder'
          /\ (\E e \in Events : Looping(e)) => UNCHANGED m_subscribers]_vars
  <2> SUFFICES ASSUME Inv, [Next]_vars, NEW e \in Events, Looping(e)
               PROVE  UNCHANGED m_subscribers
    BY DEF Inv
  <2>1. readers # {}
    BY DEF Inv, TypeOK, Looping
  <2>2. \A s \in Subscriptions : ~SubscribeAppend(s)
    BY <2>1 DEF SubscribeAppend
  <2> QED
    BY <2>2 DEF Next, Dispatch, Publish, Discard, LockShared, CallHandler,
       HandlerReturns, HandlerThrows, EndDispatch, StartDispatch, SubscribeCall,
       Close, Stop, Terminated, vars, busVars
<1> QED
  BY <1>1, Invariance, PTL DEF Spec, LoopUndisturbed

\* A dispatch no handler cut short has called every handler that had subscribed
\* by the time of publish().
THEOREM NobodyMissed == Spec => []NoSubscriberMissed
<1>1. Inv => NoSubscriberMissed
  BY DEF Inv
<1> QED
  BY <1>1, Invariance, PTL
=============================================================================
