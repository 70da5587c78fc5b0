---------------------------- MODULE Notifications ----------------------------
(***************************************************************************)
(* Notifications on their way to the desktop: BasicNotificationService     *)
(* keeps the active ones and publishes, under its m_mutex, an event for    *)
(* each that is shown or dismissed; DesktopShell keeps the list it draws   *)
(* and changes it, under its own m_mutex, in the handlers of these events, *)
(* which the workers of the scheduler run concurrently.                    *)
(*                                                                         *)
(* The scheduler and the bus are TaskPool: a task is the dispatch of one   *)
(* event.  Between taking an event and the lock a worker may be overtaken. *)
(***************************************************************************)
EXTENDS Integers, Sequences, FiniteSets

CONSTANTS
  MaxNotifications,  \* bound on the calls of notify()
  ThreadCount        \* workers of the scheduler

ASSUME NotificationsAssumption ==
  MaxNotifications \in Nat /\ ThreadCount \in Nat \ {0}

NotificationIds == 1 .. MaxNotifications
Events == [topic : {"notification_show", "notification_dismiss"},
           id : NotificationIds]

VARIABLES
  pending, active, finished, refused, closing, stopped,  \* the scheduler
  m_next_id, m_active_notifications,                     \* the service
  m_notifications                \* the shell: the ids it draws, oldest first

Pool == INSTANCE TaskPool WITH Tasks <- Events

poolVars == <<pending, active, finished, refused, closing, stopped>>
serviceVars == <<m_next_id, m_active_notifications>>
vars == <<poolVars, serviceVars, m_notifications>>

Show(id) == [topic |-> "notification_show", id |-> id]
Dismissal(id) == [topic |-> "notification_dismiss", id |-> id]

Displayed == {m_notifications[i] : i \in DOMAIN m_notifications}

\* std::erase_if: the notifications with another id close ranks.
Kept(s, id) == {i \in DOMAIN s : s[i] # id}
Rank(kept, i) == Cardinality({j \in kept : j <= i})
Without(s, id) ==
  LET kept == Kept(s, id)
  IN [n \in 1 .. Cardinality(kept) |->
        s[CHOOSE i \in kept : Rank(kept, i) = n]]

\* Published, and neither handled nor discarded yet.
InFlight(e) == e \in active \/ \E i \in DOMAIN pending : pending[i] = e

TypeOK ==
  /\ Pool!Known \subseteq Events /\ pending \in Seq(Events)
  /\ m_next_id \in 0 .. MaxNotifications
  /\ m_active_notifications \subseteq 1 .. m_next_id
  /\ m_notifications \in Seq(1 .. m_next_id)

Init ==
  /\ Pool!Init
  /\ m_next_id = 0 /\ m_active_notifications = {}
  /\ m_notifications = <<>>

-----------------------------------------------------------------------------
(* BasicNotificationService, called by any thread *)

\* publish() gives the event to the scheduler, which may be closing.
Publish(e) == Pool!Accept(e) \/ Pool!Refuse(e)

Notify ==
  LET id == m_next_id + 1
  IN /\ m_next_id < MaxNotifications
     /\ m_next_id' = id
     /\ m_active_notifications' = m_active_notifications \cup {id}
     /\ Publish(Show(id))
     /\ UNCHANGED m_notifications

\* A second dismissal, or one of an id that was never given, does nothing.
Dismiss(id) ==
  /\ id \in m_active_notifications
  /\ m_active_notifications' = m_active_notifications \ {id}
  /\ Publish(Dismissal(id))
  /\ UNCHANGED <<m_next_id, m_notifications>>

-----------------------------------------------------------------------------
(* The scheduler and the handlers of DesktopShell *)

StartDispatch ==
  /\ Cardinality(active) < ThreadCount
  /\ Pool!Start
  /\ UNCHANGED <<serviceVars, m_notifications>>

HandleShow(e) ==
  /\ e.topic = "notification_show" /\ e \in active
  /\ m_notifications' = Append(m_notifications, e.id)
  /\ Pool!Finish(e)
  /\ UNCHANGED serviceVars

\* Mutant: only the newest notification can be dismissed.
HandleDismissNewest(e) ==
  /\ e.topic = "notification_dismiss" /\ e \in active
  /\ m_notifications' =
       IF m_notifications # <<>> /\ m_notifications[Len(m_notifications)] = e.id
         THEN SubSeq(m_notifications, 1, Len(m_notifications) - 1)
         ELSE m_notifications
  /\ Pool!Finish(e)
  /\ UNCHANGED serviceVars

\* Mutant: the notifications up to the dismissed one are dropped with it.
HandleDismissOlder(e) ==
  /\ e.topic = "notification_dismiss" /\ e \in active
  /\ m_notifications' = SelectSeq(m_notifications, LAMBDA id : id > e.id)
  /\ Pool!Finish(e)
  /\ UNCHANGED serviceVars

HandleDismiss(e) ==
  /\ e.topic = "notification_dismiss" /\ e \in active
  /\ m_notifications' = Without(m_notifications, e.id)
  /\ Pool!Finish(e)
  /\ UNCHANGED serviceVars

\* Every call has been made and every thread has ended.
Terminated ==
  /\ stopped /\ m_next_id = MaxNotifications /\ m_active_notifications = {}
  /\ UNCHANGED vars

Close == Pool!Close /\ UNCHANGED <<serviceVars, m_notifications>>
Stop == Pool!Stop /\ UNCHANGED <<serviceVars, m_notifications>>

-----------------------------------------------------------------------------
Handle(e) == HandleShow(e) \/ HandleDismiss(e)

Next ==
  \/ Notify \/ \E id \in NotificationIds : Dismiss(id)
  \/ StartDispatch \/ \E e \in Events : Handle(e)
  \/ Close \/ Stop \/ Terminated

Spec == Init /\ [][Next]_vars

\* Workers take what is queued and finish what they run.
FairSpec ==
  /\ Spec
  /\ WF_vars(StartDispatch)
  /\ \A e \in Events : WF_vars(Handle(e))

-----------------------------------------------------------------------------
(* Properties *)

\* No active notification is lost: it is drawn, or its event is on its way or
\* was discarded by a scheduler that shuts down.  Dismissals of others that
\* are handled meanwhile do not take it away.
NoneLost ==
  \A id \in m_active_notifications :
    id \in Displayed \/ InFlight(Show(id)) \/ Show(id) \in refused

\* A notification that is on the screen when its dismissal is published leaves
\* it and never comes back, however the handlers of other events overtake.
ShownGoesAway ==
  \A id \in NotificationIds :
    id \in Displayed /\ InFlight(Dismissal(id)) ~> [](id \notin Displayed)

\* What left the screen never comes back: the event that showed it is not
\* handled a second time, and its id is not given again.
NeverBack ==
  [][\A id \in NotificationIds :
       Show(id) \in finished /\ id \notin Displayed => id \notin Displayed']_vars

-----------------------------------------------------------------------------
(* The inductive invariant. *)

\* What is published has an id that was given, and what was dismissed is no
\* longer active.
PublishedInv ==
  \A e \in Pool!Known :
    /\ e.id <= m_next_id
    /\ e.topic = "notification_dismiss" => e.id \notin m_active_notifications

\* An event waits in the queue at most once, and is not known otherwise then;
\* what was handled is over.
EventInv ==
  /\ \A i, j \in DOMAIN pending : pending[i] = pending[j] => i = j
  /\ Pool!PendingSet \cap (active \cup finished) = {}
  /\ active \cap finished = {}

\* What is drawn was shown by a handler that has ended.
ShownInv == \A id \in Displayed : Show(id) \in finished

Inv == TypeOK /\ PublishedInv /\ EventInv /\ ShownInv /\ NoneLost
=============================================================================
