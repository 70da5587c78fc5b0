------------------------- MODULE Notifications_proofs -------------------------
(***************************************************************************)
(* Notifications, for any number of them and any number of workers.        *)
(***************************************************************************)
EXTENDS Notifications, FiniteSetTheorems, TLAPS

-----------------------------------------------------------------------------
(* Erasing from a sequence *)

\* The places that are kept are numbered without gaps.
LEMMA RanksAreDense ==
  ASSUME NEW K, K \subseteq Nat, IsFiniteSet(K)
  PROVE  /\ Cardinality(K) \in Nat
         /\ \A i \in K : Rank(K, i) \in 1 .. Cardinality(K)
         /\ \A i, j \in K : Rank(K, i) = Rank(K, j) => i = j
         /\ \A n \in 1 .. Cardinality(K) : \E i \in K : Rank(K, i) = n
<1> DEFINE Upto(i) == {k \in K : k <= i}
           f == [i \in K |-> Rank(K, i)]
           C == Cardinality(K)
<1>1. C \in Nat
  BY FS_CardinalityType
<1>2. \A i \in K : Rank(K, i) \in 1 .. C
  <2> SUFFICES ASSUME NEW i \in K PROVE Cardinality(Upto(i)) \in 1 .. C
    BY DEF Rank
  <2>1. IsFiniteSet(Upto(i)) /\ Cardinality(Upto(i)) <= C
    BY FS_Subset
  <2>2. i \in Upto(i)
    OBVIOUS
  <2>3. Cardinality(Upto(i)) \in Nat /\ Cardinality(Upto(i)) # 0
    BY <2>1, <2>2, FS_CardinalityType, FS_EmptySet
  <2> QED
    BY <1>1, <2>1, <2>3
<1>3. ASSUME NEW i \in K, NEW j \in K, i < j PROVE Rank(K, i) # Rank(K, j)
  <2>1. i \in Nat /\ j \in Nat /\ \A k \in K : k \in Nat
    OBVIOUS
  <2>2. Upto(i) \subseteq Upto(j) /\ j \in Upto(j) /\ j \notin Upto(i)
    <3>1. \A k \in K : k <= i => k <= j
      BY <1>3, <2>1
    <3>2. j <= j /\ ~(j <= i)
      BY <1>3, <2>1
    <3> QED
      BY <3>1, <3>2
  <2>3. IsFiniteSet(Upto(j))
    BY FS_Subset
  <2>4. Cardinality(Upto(j)) # Cardinality(Upto(i))
    BY <2>2, <2>3, FS_Subset
  <2> QED
    BY <2>4 DEF Rank
<1>4. \A i, j \in K : Rank(K, i) = Rank(K, j) => i = j
  <2> SUFFICES ASSUME NEW i \in K, NEW j \in K, Rank(K, i) = Rank(K, j), i # j
               PROVE  FALSE
    OBVIOUS
  <2>1. i < j \/ j < i
    OBVIOUS
  <2> QED
    BY <1>3, <2>1
<1>5. f \in Injection(K, 1 .. C)
  BY <1>2, <1>4 DEF Injection, IsInjective
<1>6. IsFiniteSet(1 .. C) /\ Cardinality(1 .. C) = C
  BY <1>1, FS_Interval
<1>7. f \in Surjection(K, 1 .. C)
  BY <1>5, <1>6, FS_Injection
<1>8. \A n \in 1 .. C : \E i \in K : Rank(K, i) = n
  BY <1>7 DEF Surjection
<1> QED
  BY <1>1, <1>2, <1>4, <1>8

Elements(s) == {s[i] : i \in DOMAIN s}

\* push_back adds one element.
LEMMA Appended ==
  ASSUME NEW S, NEW s \in Seq(S), NEW x
  PROVE  Elements(Append(s, x)) = Elements(s) \cup {x}
<1>1. /\ DOMAIN Append(s, x) = DOMAIN s \cup {Len(s) + 1}
      /\ \A i \in DOMAIN s : Append(s, x)[i] = s[i]
      /\ Append(s, x)[Len(s) + 1] = x
  OBVIOUS
<1> QED
  BY <1>1 DEF Elements

\* erase_if leaves everything but the id, all of its occurrences.
LEMMA WithoutElems ==
  ASSUME NEW S, NEW s \in Seq(S), NEW id
  PROVE  /\ Without(s, id) \in Seq(S)
         /\ Elements(Without(s, id)) = Elements(s) \ {id}
<1> DEFINE K == Kept(s, id)
           t == Without(s, id)
           C == Cardinality(K)
<1>1. K \subseteq 1 .. Len(s) /\ K \subseteq Nat
  BY DEF Kept
<1>2. IsFiniteSet(K)
  BY <1>1, FS_Interval, FS_Subset
<1>3. /\ C \in Nat
      /\ \A i \in K : Rank(K, i) \in 1 .. C
      /\ \A i, j \in K : Rank(K, i) = Rank(K, j) => i = j
      /\ \A n \in 1 .. C : \E i \in K : Rank(K, i) = n
  BY <1>1, <1>2, RanksAreDense
<1>4. t = [n \in 1 .. C |-> s[CHOOSE i \in K : Rank(K, i) = n]]
  BY DEF Without
<1> HIDE DEF K, t, C
<1>5. ASSUME NEW n \in 1 .. C
      PROVE  \E i \in K : Rank(K, i) = n /\ t[n] = s[i]
  <2> DEFINE i == CHOOSE i \in K : Rank(K, i) = n
  <2>1. i \in K /\ Rank(K, i) = n
    BY <1>3
  <2> QED
    BY <1>4, <2>1
<1>6. ASSUME NEW i \in K PROVE t[Rank(K, i)] = s[i]
  <2>1. Rank(K, i) \in 1 .. C
    BY <1>3
  <2>2. PICK j \in K : Rank(K, j) = Rank(K, i) /\ t[Rank(K, i)] = s[j]
    BY <1>5, <2>1
  <2> QED
    BY <1>3, <2>2
<1>7. \A i \in K : i \in DOMAIN s /\ s[i] \in S /\ s[i] # id
  BY DEF K, Kept
<1>8. \A i \in DOMAIN s : s[i] # id => i \in K
  BY DEF K, Kept
<1>9. DOMAIN t = 1 .. C /\ \A n \in 1 .. C : t[n] \in S
  BY <1>4, <1>5, <1>7
<1>10. t \in Seq(S)
  BY <1>3, <1>4, <1>9
<1>11. {t[n] : n \in DOMAIN t} \subseteq {s[i] : i \in DOMAIN s} \ {id}
  BY <1>5, <1>7, <1>9
<1>12. ASSUME NEW i \in DOMAIN s, s[i] # id PROVE s[i] \in {t[n] : n \in DOMAIN t}
  BY <1>3, <1>6, <1>8, <1>9, <1>12
<1> QED
  BY <1>10, <1>11, <1>12 DEF t, Elements

-----------------------------------------------------------------------------
(* The events *)

\* Publishing makes one event known that nobody knew of: it waits at the end of
\* the queue or is refused.
LEMMA Published ==
  ASSUME pending \in Seq(Events), NEW e \in Events, Publish(e)
  PROVE  /\ pending' \in Seq(Events)
         /\ Pool!Known' = Pool!Known \cup {e} /\ e \notin Pool!Known
         /\ UNCHANGED <<active, finished>>
         /\ InFlight(e)' \/ e \in refused'
         /\ \A f \in Events : /\ InFlight(f) => InFlight(f)'
                              /\ f \in refused => f \in refused'
         /\ EventInv => EventInv'
<1>1. CASE Pool!Accept(e)
  <2>1. /\ Len(pending') = Len(pending) + 1 /\ pending'[Len(pending')] = e
        /\ \A i \in DOMAIN pending : pending'[i] = pending[i]
        /\ DOMAIN pending' = DOMAIN pending \cup {Len(pending')}
        /\ pending' \in Seq(Events)
        /\ e \notin Pool!Known /\ UNCHANGED <<active, finished, refused>>
    BY <1>1 DEF Pool!Accept
  <2>2. Pool!PendingSet' = Pool!PendingSet \cup {e}
    BY <2>1 DEF Pool!PendingSet
  <2>3. EventInv => EventInv'
    <3> SUFFICES ASSUME EventInv PROVE EventInv'
      OBVIOUS
    <3>1. \A i \in DOMAIN pending : pending[i] # e
      BY <2>1 DEF Pool!Known, Pool!PendingSet
    <3>2. \A i, j \in DOMAIN pending' : pending'[i] = pending'[j] => i = j
      BY <2>1, <3>1 DEF EventInv
    <3> QED
      BY <2>1, <2>2, <3>2 DEF EventInv, Pool!Known
  <2> QED
    BY <2>1, <2>2, <2>3 DEF Pool!Known, InFlight
<1>2. CASE Pool!Refuse(e)
  BY <1>2 DEF Pool!Refuse, Pool!Known, Pool!PendingSet, InFlight, EventInv
<1> QED
  BY <1>1, <1>2 DEF Publish

\* Starting a dispatch takes an event from the queue.
LEMMA Started ==
  ASSUME pending \in Seq(Events), Pool!Start
  PROVE  /\ pending' \in Seq(Events)
         /\ Pool!Known' = Pool!Known
         /\ UNCHANGED <<finished, refused>>
         /\ \A f \in Events : InFlight(f) => InFlight(f)'
         /\ EventInv => EventInv'
<1>1. pending # <<>> /\ pending' = Tail(pending) /\ active' = active \cup {Head(pending)}
      /\ UNCHANGED <<finished, refused>>
  BY DEF Pool!Start
<1>2. /\ pending' \in Seq(Events) /\ Len(pending') = Len(pending) - 1
      /\ \A i \in DOMAIN pending' :
           i + 1 \in DOMAIN pending /\ pending'[i] = pending[i + 1]
      /\ Head(pending) = pending[1] /\ 1 \in DOMAIN pending
  BY <1>1
<1>3. \A i \in DOMAIN pending : i # 1 => i - 1 \in DOMAIN pending' /\ pending'[i - 1] = pending[i]
  BY <1>1
<1>4. Pool!PendingSet = Pool!PendingSet' \cup {Head(pending)}
  <2>1. Pool!PendingSet' \cup {Head(pending)} \subseteq Pool!PendingSet
    BY <1>2 DEF Pool!PendingSet
  <2>2. ASSUME NEW i \in DOMAIN pending
        PROVE  pending[i] \in Pool!PendingSet' \cup {Head(pending)}
    BY <1>2, <1>3 DEF Pool!PendingSet
  <2> QED
    BY <2>1, <2>2 DEF Pool!PendingSet
<1>5. EventInv => EventInv'
  <2> SUFFICES ASSUME EventInv PROVE EventInv'
    OBVIOUS
  <2>1. ASSUME NEW i \in DOMAIN pending', NEW j \in DOMAIN pending', pending'[i] = pending'[j]
        PROVE  i = j
    <3>1. i + 1 = j + 1
      BY <1>2, <2>1 DEF EventInv
    <3> QED
      BY <1>2, <3>1
  <2>2. Head(pending) \notin Pool!PendingSet'
    <3> SUFFICES ASSUME NEW i \in DOMAIN pending', pending'[i] = pending[1] PROVE FALSE
      BY <1>2 DEF Pool!PendingSet
    <3>1. i + 1 = 1
      BY <1>2 DEF EventInv
    <3> QED
      BY <1>2, <3>1
  <2> QED
    BY <1>1, <1>4, <2>1, <2>2 DEF EventInv
<1>6. \A f \in Events : InFlight(f) <=> f \in active \/ f \in Pool!PendingSet
  BY DEF InFlight, Pool!PendingSet
<1>7. \A f \in Events : InFlight(f)' <=> f \in active' \/ f \in Pool!PendingSet'
  BY DEF InFlight, Pool!PendingSet
<1> QED
  BY <1>1, <1>2, <1>4, <1>5, <1>6, <1>7 DEF Pool!Known

\* Handling an event ends it.
LEMMA Handled ==
  ASSUME pending \in Seq(Events), NEW e, Pool!Finish(e)
  PROVE  /\ UNCHANGED <<pending, refused>>
         /\ Pool!Known' = Pool!Known /\ e \in Pool!Known
         /\ finished' = finished \cup {e}
         /\ \A f \in Events : f # e /\ InFlight(f) => InFlight(f)'
         /\ EventInv => EventInv'
BY DEF Pool!Finish, Pool!Known, Pool!PendingSet, InFlight, EventInv

\* Shutting down touches no event and no notification.
LEMMA Shut ==
  ASSUME Close \/ Stop \/ Terminated \/ UNCHANGED vars
  PROVE  UNCHANGED <<pending, active, finished, refused, serviceVars, m_notifications>>
BY DEF Close, Stop, Terminated, vars, poolVars, Pool!Close, Pool!Stop

-----------------------------------------------------------------------------
(* The inductive invariant *)

LEMMA InitInv == Init => Inv
<1> SUFFICES ASSUME Init PROVE Inv
  OBVIOUS
<1>1. Pool!Known = {} /\ pending = <<>> /\ Displayed = {}
  BY DEF Init, Pool!Init, Pool!Known, Pool!PendingSet, Displayed
<1>2. EventInv
  BY <1>1 DEF Init, Pool!Init, EventInv, Pool!PendingSet
<1> QED
  BY <1>1, <1>2, NotificationsAssumption
     DEF Init, Inv, TypeOK, PublishedInv, ShownInv, NoneLost

\* notify() gives an id that no event has yet.
LEMMA NotifyStep ==
  ASSUME Inv, Notify
  PROVE  Inv'
<1> USE NotificationsAssumption DEF Inv
<1>0. PICK id : id = m_next_id + 1
  OBVIOUS
<1>1. /\ m_next_id \in Nat /\ id = m_next_id + 1
      /\ m_next_id' = id /\ id \in NotificationIds
      /\ m_active_notifications' = m_active_notifications \cup {id}
      /\ UNCHANGED m_notifications /\ Publish(Show(id))
  BY <1>0 DEF Notify, TypeOK, NotificationIds
<1>2. Show(id) \in Events /\ Show(id).id = id /\ Show(id).topic = "notification_show"
  BY <1>1 DEF Show, Events
<1>3. /\ pending' \in Seq(Events)
      /\ Pool!Known' = Pool!Known \cup {Show(id)}
      /\ UNCHANGED <<active, finished>>
      /\ InFlight(Show(id))' \/ Show(id) \in refused'
      /\ \A f \in Events : /\ InFlight(f) => InFlight(f)'
                           /\ f \in refused => f \in refused'
      /\ EventInv'
  BY <1>1, <1>2, Published DEF TypeOK
<1>4. TypeOK'
  <2>1. 1 .. m_next_id \subseteq 1 .. m_next_id'
    BY <1>1
  <2>2. m_notifications' \in Seq(1 .. m_next_id')
    BY <1>1, <2>1 DEF TypeOK
  <2>3. m_next_id' \in 0 .. MaxNotifications /\ m_active_notifications' \subseteq 1 .. m_next_id'
    BY <1>1, <2>1 DEF TypeOK, NotificationIds
  <2> QED
    BY <1>2, <1>3, <2>2, <2>3 DEF TypeOK
<1>5. PublishedInv'
  <2> SUFFICES ASSUME NEW e \in Pool!Known'
               PROVE  /\ e.id <= m_next_id'
                      /\ e.topic = "notification_dismiss" => e.id \notin m_active_notifications'
    BY DEF PublishedInv
  <2>1. CASE e = Show(id)
    BY <1>1, <1>2, <2>1
  <2>2. CASE e \in Pool!Known
    <3>1. e.id <= m_next_id /\ e.id \in Nat
      BY <2>2 DEF PublishedInv, TypeOK, Events, NotificationIds
    <3>2. e.topic = "notification_dismiss" => e.id \notin m_active_notifications
      BY <2>2 DEF PublishedInv
    <3> QED
      BY <1>1, <3>1, <3>2
  <2> QED
    BY <1>3, <2>1, <2>2
<1>6. ShownInv'
  BY <1>1, <1>3 DEF ShownInv, Displayed
<1>7. NoneLost'
  <2> SUFFICES ASSUME NEW i \in m_active_notifications'
               PROVE  i \in Displayed' \/ InFlight(Show(i))' \/ Show(i) \in refused'
    BY DEF NoneLost
  <2>1. CASE i = id
    BY <1>3, <2>1
  <2>2. CASE i \in m_active_notifications
    <3>1. Show(i) \in Events
      BY <2>2 DEF TypeOK, Show, Events, NotificationIds
    <3> QED
      BY <1>1, <1>3, <2>2, <3>1 DEF NoneLost, Displayed
  <2> QED
    BY <1>1, <2>1, <2>2
<1> QED
  BY <1>3, <1>4, <1>5, <1>6, <1>7

\* dismiss() publishes for a notification that was active, and no longer is.
LEMMA DismissStep ==
  ASSUME Inv, NEW id \in NotificationIds, Dismiss(id)
  PROVE  Inv'
<1> USE NotificationsAssumption DEF Inv
<1>1. /\ m_active_notifications' = m_active_notifications \ {id}
      /\ id \in 1 .. m_next_id /\ m_next_id \in Nat
      /\ UNCHANGED <<m_next_id, m_notifications>> /\ Publish(Dismissal(id))
  BY DEF Dismiss, TypeOK
<1>2. Dismissal(id) \in Events /\ Dismissal(id).id = id
  BY DEF Dismissal, Events
<1>3. /\ pending' \in Seq(Events)
      /\ Pool!Known' = Pool!Known \cup {Dismissal(id)}
      /\ UNCHANGED <<active, finished>>
      /\ \A f \in Events : /\ InFlight(f) => InFlight(f)'
                           /\ f \in refused => f \in refused'
      /\ EventInv'
  BY <1>1, <1>2, Published DEF TypeOK
<1>4. TypeOK'
  BY <1>1, <1>2, <1>3 DEF TypeOK
<1>5. PublishedInv'
  BY <1>1, <1>2, <1>3 DEF PublishedInv
<1>6. ShownInv'
  BY <1>1, <1>3 DEF ShownInv, Displayed
<1>7. NoneLost'
  <2> SUFFICES ASSUME NEW i \in m_active_notifications'
               PROVE  i \in Displayed' \/ InFlight(Show(i))' \/ Show(i) \in refused'
    BY DEF NoneLost
  <2>1. Show(i) \in Events
    BY <1>1 DEF TypeOK, Show, Events, NotificationIds
  <2> QED
    BY <1>1, <1>3, <2>1 DEF NoneLost, Displayed
<1> QED
  BY <1>3, <1>4, <1>5, <1>6, <1>7

\* The handler draws the notification; its event is over.
LEMMA ShowStep ==
  ASSUME Inv, NEW e \in Events, HandleShow(e)
  PROVE  Inv'
<1> USE NotificationsAssumption DEF Inv
<1>1. /\ m_notifications' = Append(m_notifications, e.id)
      /\ UNCHANGED <<m_next_id, m_active_notifications>> /\ Pool!Finish(e)
      /\ e = Show(e.id)
  BY DEF HandleShow, serviceVars, Show, Events
<1>2. /\ UNCHANGED <<pending, refused>>
      /\ Pool!Known' = Pool!Known /\ e \in Pool!Known
      /\ finished' = finished \cup {e}
      /\ \A f \in Events : f # e /\ InFlight(f) => InFlight(f)'
      /\ EventInv'
  BY <1>1, Handled DEF TypeOK
<1>3. e.id \in 1 .. m_next_id
  BY <1>2 DEF PublishedInv, TypeOK, Events, NotificationIds
<1>4. Displayed' = Displayed \cup {e.id}
  <2>1. m_notifications \in Seq(1 .. m_next_id)
    BY DEF TypeOK
  <2> QED
    BY <1>1, <2>1, Appended DEF Displayed, Elements
<1>5. TypeOK'
  BY <1>1, <1>2, <1>3 DEF TypeOK
<1>6. PublishedInv'
  BY <1>1, <1>2 DEF PublishedInv
<1>7. ShownInv'
  BY <1>1, <1>2, <1>4 DEF ShownInv
<1>8. NoneLost'
  <2> SUFFICES ASSUME NEW i \in m_active_notifications
               PROVE  i \in Displayed' \/ InFlight(Show(i))' \/ Show(i) \in refused'
    BY <1>1 DEF NoneLost
  <2>1. Show(i) \in Events /\ Show(i).id = i
    BY DEF TypeOK, Show, Events, NotificationIds
  <2> QED
    BY <1>2, <1>4, <2>1 DEF NoneLost
<1> QED
  BY <1>2, <1>5, <1>6, <1>7, <1>8

\* The handler takes a notification off the screen that is not active.
LEMMA DismissedStep ==
  ASSUME Inv, NEW e \in Events, HandleDismiss(e)
  PROVE  Inv'
<1> USE NotificationsAssumption DEF Inv
<1>1. /\ m_notifications' = Without(m_notifications, e.id)
      /\ UNCHANGED <<m_next_id, m_active_notifications>> /\ Pool!Finish(e)
      /\ e.topic = "notification_dismiss"
  BY DEF HandleDismiss, serviceVars
<1>2. /\ UNCHANGED <<pending, refused>>
      /\ Pool!Known' = Pool!Known /\ e \in Pool!Known
      /\ finished' = finished \cup {e}
      /\ \A f \in Events : f # e /\ InFlight(f) => InFlight(f)'
      /\ EventInv'
  BY <1>1, Handled DEF TypeOK
<1>3. e.id \notin m_active_notifications
  BY <1>1, <1>2 DEF PublishedInv
<1>4. m_notifications' \in Seq(1 .. m_next_id) /\ Displayed' = Displayed \ {e.id}
  <2>1. m_notifications \in Seq(1 .. m_next_id)
    BY DEF TypeOK
  <2>2. /\ Without(m_notifications, e.id) \in Seq(1 .. m_next_id)
        /\ Elements(Without(m_notifications, e.id)) = Elements(m_notifications) \ {e.id}
    BY <2>1, WithoutElems
  <2> QED
    BY <1>1, <2>2 DEF Displayed, Elements
<1>5. TypeOK'
  BY <1>1, <1>2, <1>4 DEF TypeOK
<1>6. PublishedInv'
  BY <1>1, <1>2 DEF PublishedInv
<1>7. ShownInv'
  BY <1>1, <1>2, <1>4 DEF ShownInv
<1>8. NoneLost'
  <2> SUFFICES ASSUME NEW i \in m_active_notifications
               PROVE  i \in Displayed' \/ InFlight(Show(i))' \/ Show(i) \in refused'
    BY <1>1 DEF NoneLost
  <2>1. Show(i) \in Events /\ Show(i) # e
    BY <1>1 DEF TypeOK, Show, Events, NotificationIds
  <2> QED
    BY <1>2, <1>3, <1>4, <2>1 DEF NoneLost
<1> QED
  BY <1>2, <1>5, <1>6, <1>7, <1>8

LEMMA StartStep ==
  ASSUME Inv, StartDispatch
  PROVE  Inv'
<1> USE DEF Inv
<1>1. UNCHANGED <<m_next_id, m_active_notifications, m_notifications>> /\ Pool!Start
  BY DEF StartDispatch, serviceVars
<1>2. /\ pending' \in Seq(Events)
      /\ Pool!Known' = Pool!Known
      /\ UNCHANGED <<finished, refused>>
      /\ \A f \in Events : InFlight(f) => InFlight(f)'
      /\ EventInv'
  BY <1>1, Started DEF TypeOK
<1>3. TypeOK' /\ PublishedInv' /\ ShownInv'
  BY <1>1, <1>2 DEF TypeOK, PublishedInv, ShownInv, Displayed
<1>4. NoneLost'
  <2> SUFFICES ASSUME NEW i \in m_active_notifications
               PROVE  i \in Displayed' \/ InFlight(Show(i))' \/ Show(i) \in refused'
    BY <1>1 DEF NoneLost
  <2>1. Show(i) \in Events
    BY NotificationsAssumption DEF TypeOK, Show, Events, NotificationIds
  <2> QED
    BY <1>1, <1>2, <2>1 DEF NoneLost, Displayed
<1> QED
  BY <1>2, <1>3, <1>4

LEMMA Induction == Inv /\ [Next]_vars => Inv'
<1> SUFFICES ASSUME Inv, [Next]_vars PROVE Inv'
  OBVIOUS
<1>1. CASE Notify
  BY <1>1, NotifyStep
<1>2. ASSUME NEW id \in NotificationIds, Dismiss(id) PROVE Inv'
  BY <1>2, DismissStep
<1>3. CASE StartDispatch
  BY <1>3, StartStep
<1>4. ASSUME NEW e \in Events, HandleShow(e) PROVE Inv'
  BY <1>4, ShowStep
<1>5. ASSUME NEW e \in Events, HandleDismiss(e) PROVE Inv'
  BY <1>5, DismissedStep
<1>6. CASE Close \/ Stop \/ Terminated \/ UNCHANGED vars
  <2>1. UNCHANGED <<pending, active, finished, refused, serviceVars, m_notifications>>
    BY <1>6, Shut
  <2> QED
    BY <2>1 DEF Inv, TypeOK, PublishedInv, EventInv, ShownInv, NoneLost, Displayed,
               InFlight, Pool!Known, Pool!PendingSet, serviceVars
<1> QED
  BY <1>1, <1>2, <1>3, <1>4, <1>5, <1>6 DEF Next, Handle

\* Whatever the order in which events are handled, these hold.
THEOREM Invariance == Spec => []Inv
BY InitInv, Induction, PTL DEF Spec

-----------------------------------------------------------------------------
(* What follows *)

\* The state of the service and of the shell keeps its types.
THEOREM TypeCorrect == Spec => []TypeOK
<1>1. Inv => TypeOK
  BY DEF Inv
<1> QED
  BY <1>1, Invariance, PTL

\* However the handlers overtake each other, no active notification is lost.
THEOREM NoNotificationLost == Spec => []NoneLost
<1>1. Inv => NoneLost
  BY DEF Inv
<1> QED
  BY <1>1, Invariance, PTL

\* A notification that left the screen does not come back.
THEOREM DismissedForGood == Spec => NeverBack
<1> DEFINE Back == \A id \in NotificationIds :
                     Show(id) \in finished /\ id \notin Displayed => id \notin Displayed'
<1>1. Inv /\ [Next]_vars => [Back]_vars
  <2> SUFFICES ASSUME Inv, Next, NEW id \in NotificationIds,
                      Show(id) \in finished, id \notin Displayed
               PROVE  id \notin Displayed'
    OBVIOUS
  <2>t. m_notifications \in Seq(1 .. m_next_id)
    BY DEF Inv, TypeOK
  <2>1. CASE UNCHANGED m_notifications
    BY <2>1 DEF Displayed
  <2>2. ASSUME NEW e \in Events, HandleShow(e) PROVE id \notin Displayed'
    <3>1. e = Show(e.id) /\ e \in active /\ m_notifications' = Append(m_notifications, e.id)
      BY <2>2 DEF HandleShow, Events, Show
    <3>2. e.id # id
      BY <3>1 DEF Inv, EventInv
    <3>3. e.id \in NotificationIds
      BY DEF Events
    <3>4. Displayed' = Displayed \cup {e.id}
      BY <2>t, <3>1, <3>3, Appended DEF Displayed, Elements
    <3> QED
      BY <3>2, <3>4
  <2>3. ASSUME NEW e \in Events, HandleDismiss(e) PROVE id \notin Displayed'
    <3>1. m_notifications' = Without(m_notifications, e.id)
      BY <2>3 DEF HandleDismiss
    <3>2. Elements(Without(m_notifications, e.id)) = Elements(m_notifications) \ {e.id}
      BY <2>t, WithoutElems
    <3> QED
      BY <3>1, <3>2 DEF Displayed, Elements
  <2> QED
    BY <2>1, <2>2, <2>3, Shut
       DEF Next, Handle, Notify, Dismiss, StartDispatch
<1> QED
  BY <1>1, Invariance, PTL DEF Spec, NeverBack
=============================================================================
