------------------------ MODULE PluginManager_proofs ------------------------
(***************************************************************************)
(* Proofs about PluginManager, for any libraries, names, defects, tasks    *)
(* and workers.                                                            *)
(***************************************************************************)
EXTENDS PluginManager, SequenceTheorems, TLAPS

-----------------------------------------------------------------------------
(* Sequences *)

\* Calling the next function moves it from what is ahead to what was called.
LEMMA NextCalled ==
  ASSUME NEW S, NEW c \in Seq(S), NEW r \in Seq(S), r # <<>>
  PROVE  Append(c, r[1]) \o Tail(r) = c \o r
<1>1. r[1] \in S /\ Tail(r) \in Seq(S) /\ <<r[1]>> \in Seq(S)
  OBVIOUS
<1>2. Append(c, r[1]) = c \o <<r[1]>>
  BY <1>1, AppendIsConcat
<1>3. <<r[1]>> \o Tail(r) = r
  <2>1. Len(r) \in Nat \ {0}
    BY EmptySeq
  <2>2. r = SubSeq(r, 1, Len(r)) /\ Tail(r) = SubSeq(r, 2, Len(r))
    BY SubSeqFull, TailIsSubSeq
  <2> QED
    BY <2>1, <2>2, SubSeqRecursiveFirst
<1> QED
  BY <1>1, <1>2, <1>3, ConcatAssociative

\* The first of two sequences is the beginning of both together.
LEMMA FirstPart ==
  ASSUME NEW S, NEW c \in Seq(S), NEW r \in Seq(S)
  PROVE  Len(c) <= Len(c \o r) /\ c = SubSeq(c \o r, 1, Len(c))
<1>1. /\ c \o r \in Seq(S) /\ Len(c \o r) = Len(c) + Len(r)
      /\ \A i \in 1 .. Len(c) : c[i] = (c \o r)[i]
  BY ConcatProperties
<1>2. Len(c) \in Nat /\ Len(r) \in Nat
  OBVIOUS
<1>3. \A i \in 1 .. Len(c) : (c \o r)[i] \in S
  BY <1>1
<1>4. /\ SubSeq(c \o r, 1, Len(c)) \in Seq(S)
      /\ Len(SubSeq(c \o r, 1, Len(c))) = Len(c)
      /\ \A i \in 1 .. Len(c) : SubSeq(c \o r, 1, Len(c))[i] = c[i]
  BY <1>1, <1>2, <1>3, SubSeqProperties
<1>5. c = SubSeq(c \o r, 1, Len(c))
  BY <1>4, SeqEqual
<1> QED
  BY <1>1, <1>2, <1>5

-----------------------------------------------------------------------------
(* The tables of transitions *)

\* What transition_create() to _start() expect, call and lead to.
LEMMA UpTable ==
  ASSUME NEW s \in DOMAIN Up
  PROVE  /\ s \in PluginStates /\ s \in Phase["load"] /\ s \in Phase["abort"]
         /\ Up[s][1] \in PluginFunctions /\ Up[s][2] \in PluginStates
         /\ Up[s][2] \in Phase["load"]
         /\ Up[s][1] = "start" <=> Up[s][2] = "Started"
         /\ Up[s][1] = FullLife[Coming[s]] /\ Coming[s] \in 1 .. 4
         /\ Coming[Up[s][2]] = Coming[s] + 1
BY DEF Up, Phase, PluginFunctions, PluginStates, FullLife, Coming

\* What transition_stop(), _shutdown() and _destroy() call and lead to.
LEMMA DownTable ==
  ASSUME NEW o \in {"abort", "unload", "destructor"}, NEW s \in Phase[o],
         s \notin {"Loaded", "Destroyed"}
  PROVE  /\ Down(s)[1] \in PluginFunctions /\ Down(s)[2] \in PluginStates
         /\ Down(s)[2] \in Phase[o]
         /\ s \in {"Started", "Running"} => Down(s)[1] = "stop"
         /\ Down(s)[1] = FullLife[Remaining[s]] /\ Remaining[s] \in 5 .. 7
         /\ Remaining[Down(s)[2]] = Remaining[s] + 1
BY DEF Down, Phase, PluginFunctions, PluginStates, FullLife, Remaining

\* What is ahead from one function on.
LEMMA FromShape ==
  ASSUME NEW k \in 1 .. 8
  PROVE  /\ From(k) \in Seq(PluginFunctions) /\ Len(From(k)) = 8 - k
         /\ \A i \in 1 .. 8 - k : From(k)[i] = FullLife[k + i - 1]
<1>1. Len(FullLife) = 7 /\ \A i \in 1 .. 7 : FullLife[i] \in PluginFunctions
  BY DEF FullLife, PluginFunctions
<1>2. \A i \in k .. 7 : FullLife[i] \in PluginFunctions
  BY <1>1
<1>3. /\ SubSeq(FullLife, k, 7) \in Seq(PluginFunctions)
      /\ Len(SubSeq(FullLife, k, 7)) = IF k <= 7 THEN 7 - k + 1 ELSE 0
      /\ \A i \in 1 .. 7 - k + 1 : SubSeq(FullLife, k, 7)[i] = FullLife[k + i - 1]
  BY <1>2, SubSeqProperties
<1> QED
  BY <1>1, <1>3 DEF From

LEMMA FromNext ==
  ASSUME NEW k \in 1 .. 7
  PROVE  /\ From(k) # <<>> /\ From(k)[1] = FullLife[k]
         /\ From(k + 1) = Tail(From(k))
<1>0. k \in 1 .. 8 /\ k + 1 \in 1 .. 8
  OBVIOUS
<1>1. /\ From(k) \in Seq(PluginFunctions) /\ Len(From(k)) = 8 - k
      /\ \A i \in 1 .. 8 - k : From(k)[i] = FullLife[k + i - 1]
  BY <1>0, FromShape
<1>2. /\ From(k + 1) \in Seq(PluginFunctions) /\ Len(From(k + 1)) = 7 - k
      /\ \A i \in 1 .. 7 - k : From(k + 1)[i] = FullLife[k + i]
  <2>1. /\ From(k + 1) \in Seq(PluginFunctions) /\ Len(From(k + 1)) = 8 - (k + 1)
        /\ \A i \in 1 .. 8 - (k + 1) : From(k + 1)[i] = FullLife[(k + 1) + i - 1]
    BY <1>0, FromShape
  <2> QED
    BY <2>1
<1>3. /\ Tail(From(k)) \in Seq(PluginFunctions) /\ Len(Tail(From(k))) = 7 - k
      /\ \A i \in 1 .. 7 - k : Tail(From(k))[i] = From(k)[i + 1]
  BY <1>1, HeadTailProperties
<1>4. From(k + 1) = Tail(From(k))
  BY <1>1, <1>2, <1>3, SeqEqual
<1> QED
  BY <1>1, <1>4

\* The whole life is ahead in the beginning, and nothing at the end.
LEMMA FromEnds ==
  From(1) = FullLife /\ From(8) = <<>>
<1>1. FullLife \in Seq(PluginFunctions) /\ Len(FullLife) = 7
  BY DEF FullLife, PluginFunctions
<1>2. From(1) = FullLife
  BY <1>1, SubSeqFull DEF From
<1>3. From(8) = <<>>
  BY <1>1, SubSeqEmpty DEF From
<1> QED
  BY <1>2, <1>3

\* A function that fails cuts the way up short: what was called, the failure and
\* what remains to be undone make up one of the other lives.
LEMMA FailedLife ==
  ASSUME NEW s \in DOMAIN Up, NEW c \in Seq(PluginFunctions \cup {"failed"}),
         c \o From(Coming[s] + 1) = FullLife
  PROVE  Append(c, "failed") \o From(Remaining[s]) \in Lives
<1> DEFINE n == Coming[s]
           k == Remaining[s]
           l == Append(c, "failed") \o From(k)
           F == PluginFunctions \cup {"failed"}
<1>1. /\ n \in 1 .. 4 /\ n + 1 \in 1 .. 8 /\ k \in 6 .. 8 /\ k \in 1 .. 8
      /\ \/ s = "Loaded" /\ n = 1 /\ k = 8
         \/ s = "Created" /\ n = 2 /\ k = 7
         \/ s = "Initialized" /\ n = 3 /\ k = 6
         \/ s = "ServicesRegistered" /\ n = 4 /\ k = 6
  BY DEF Up, Coming, Remaining
<1>c. c \o From(n + 1) = FullLife /\ "failed" \in F
  OBVIOUS
<1>s. SUFFICES l \in Lives
  OBVIOUS
<1> HIDE DEF n, k
<1>2. /\ From(n + 1) \in Seq(F) /\ Len(From(n + 1)) = 7 - n
      /\ From(k) \in Seq(F) /\ Len(From(k)) = 8 - k
      /\ \A i \in 1 .. 8 - k :
            From(k)[i] = FullLife[k + i - 1]
  <2>1. /\ From(n + 1) \in Seq(PluginFunctions) /\ Len(From(n + 1)) = 8 - (n + 1)
        /\ From(k) \in Seq(PluginFunctions) /\ Len(From(k)) = 8 - k
        /\ \A i \in 1 .. 8 - k : From(k)[i] = FullLife[k + i - 1]
    BY <1>1, FromShape
  <2>2. PluginFunctions \subseteq F
    OBVIOUS
  <2>3. From(n + 1) \in Seq(F) /\ From(k) \in Seq(F)
    BY <2>1, <2>2, SeqMonotonic
  <2>4. 8 - (n + 1) = 7 - n
    BY <1>1
  <2> QED
    BY <2>1, <2>3, <2>4
<1>3. Len(c) = n /\ \A i \in 1 .. n : c[i] = FullLife[i]
  <2>1. /\ Len(c \o From(n + 1)) = Len(c) + Len(From(n + 1))
        /\ \A i \in 1 .. Len(c) + Len(From(n + 1)) :
             (c \o From(n + 1))[i] =
                IF i <= Len(c) THEN c[i] ELSE From(n + 1)[i - Len(c)]
    BY <1>2, ConcatProperties
  <2>2. Len(FullLife) = 7 /\ Len(c) \in Nat
    BY DEF FullLife
  <2>3. Len(c) = n
    <3>1. 7 = Len(c) + (7 - n)
      BY <1>2, <1>c, <2>1, <2>2
    <3> QED
      BY <1>1, <2>2, <3>1
  <2> QED
    BY <1>1, <1>2, <1>c, <2>1, <2>3
<1>4. /\ l \in Seq(F) /\ Len(l) = n + 9 - k
      /\ \A i \in 1 .. n : l[i] = FullLife[i]
      /\ l[n + 1] = "failed"
      /\ \A i \in n + 2 .. n + 9 - k :
            l[i] = FullLife[k + i - n - 2]
  <2> DEFINE d == Append(c, "failed")
  <2>1. /\ d \in Seq(F) /\ Len(d) = n + 1
        /\ \A i \in 1 .. n : d[i] = FullLife[i] /\ d[n + 1] = "failed"
    BY <1>1, <1>3, <1>c, AppendProperties
  <2> HIDE DEF d
  <2>2. /\ l \in Seq(F) /\ Len(l) = Len(d) + Len(From(k))
        /\ \A i \in 1 .. Len(d) + Len(From(k)) :
             l[i] = IF i <= Len(d) THEN d[i] ELSE From(k)[i - Len(d)]
    BY <1>2, <2>1, ConcatProperties DEF d
  <2> HIDE DEF l
  <2>3. \A i \in n + 2 .. n + 9 - k :
          i - n - 1 \in 1 .. 8 - k
    BY <1>1
  <2>4. \A i \in n + 2 .. n + 9 - k :
          l[i] = From(k)[i - n - 1]
    BY <1>1, <1>2, <2>1, <2>2
  <2> QED
    BY <1>1, <1>2, <2>1, <2>2, <2>3, <2>4
<1> HIDE DEF l
<1>5. CASE s = "Loaded"
  <2> DEFINE m == <<"create", "failed">>
  <2>1. m \in Seq(F) /\ Len(m) = Len(l) /\ \A i \in 1 .. Len(m) : l[i] = m[i]
    BY <1>1, <1>4, <1>5 DEF FullLife, PluginFunctions
  <2>2. l = m
    BY <1>4, <2>1, SeqEqual
  <2> QED
    BY <2>2 DEF Lives
<1>6. CASE s = "Created"
  <2> DEFINE m == <<"create", "initialize", "failed", "destroy">>
  <2>1. m \in Seq(F) /\ Len(m) = Len(l) /\ \A i \in 1 .. Len(m) : l[i] = m[i]
    BY <1>1, <1>4, <1>6 DEF FullLife, PluginFunctions
  <2>2. l = m
    BY <1>4, <2>1, SeqEqual
  <2> QED
    BY <2>2 DEF Lives
<1>7. CASE s = "Initialized"
  <2> DEFINE m == <<"create", "initialize", "register_services", "failed",
                    "shutdown", "destroy">>
  <2>1. m \in Seq(F) /\ Len(m) = Len(l) /\ \A i \in 1 .. Len(m) : l[i] = m[i]
    BY <1>1, <1>4, <1>7 DEF FullLife, PluginFunctions
  <2>2. l = m
    BY <1>4, <2>1, SeqEqual
  <2> QED
    BY <2>2 DEF Lives
<1>8. CASE s = "ServicesRegistered"
  <2> DEFINE m == <<"create", "initialize", "register_services", "start",
                    "failed", "shutdown", "destroy">>
  <2>1. m \in Seq(F) /\ Len(m) = Len(l) /\ \A i \in 1 .. Len(m) : l[i] = m[i]
    BY <1>1, <1>4, <1>8 DEF FullLife, PluginFunctions
  <2>2. l = m
    BY <1>4, <2>1, SeqEqual
  <2> QED
    BY <2>2 DEF Lives
<1> QED
  BY <1>1, <1>5, <1>6, <1>7, <1>8

-----------------------------------------------------------------------------
(* Tasks and names *)

\* What a step of the scheduler leaves of the types of its variables.
LEMMA PoolTypes ==
  ASSUME Pool!Known \subseteq Tasks, pending \in Seq(Tasks), NEW t \in Tasks,
         \/ Pool!Accept(t) \/ Pool!Refuse(t) \/ Pool!Start \/ Pool!Finish(t)
         \/ Pool!Close \/ Pool!Stop \/ UNCHANGED poolVars
  PROVE  Pool!Known' \subseteq Tasks /\ pending' \in Seq(Tasks)
<1>1. CASE Pool!Accept(t)
  BY <1>1 DEF Pool!Accept, Pool!Known, Pool!PendingSet
<1>2. CASE Pool!Start
  <2>1. pending' \in Seq(Tasks) /\ Head(pending) \in Tasks
    BY <1>2 DEF Pool!Start
  <2> QED
    BY <1>2, <2>1 DEF Pool!Start, Pool!Known, Pool!PendingSet
<1>3. CASE Pool!Refuse(t) \/ Pool!Finish(t) \/ Pool!Close \/ Pool!Stop
           \/ UNCHANGED poolVars
  BY <1>3 DEF Pool!Refuse, Pool!Finish, Pool!Close, Pool!Stop, poolVars, Pool!Known,
              Pool!PendingSet
<1> QED
  BY <1>1, <1>2, <1>3

\* A name is taken by one library at a time.
LEMMA RegisteredOne ==
  ASSUME TypeOK, NEW p \in Libraries
  PROVE  p \in Registered <=> m_plugins[PluginName[p]] = p
BY PluginManagerAssumption DEF TypeOK, Registered, Names

LEMMA RegisteredAre == Registered \subseteq Libraries
BY DEF Registered

LEMMA RegisteredMore ==
  ASSUME TypeOK, NEW p \in Libraries, m_plugins[PluginName[p]] = None,
         m_plugins' = [m_plugins EXCEPT ![PluginName[p]] = p]
  PROVE  Registered' = Registered \cup {p} /\ p \notin Registered
<1>1. PluginName[p] \in Names /\ p # None /\ m_plugins \in [Names -> Libraries \cup {None}]
  BY PluginManagerAssumption DEF TypeOK, Names
<1>2. \A n \in Names : m_plugins'[n] = IF n = PluginName[p] THEN p ELSE m_plugins[n]
  BY <1>1
<1>3. \A q \in Libraries : q # None
  BY PluginManagerAssumption
<1>4. Registered' = Registered \cup {p}
  BY <1>1, <1>2, <1>3 DEF Registered
<1> QED
  BY <1>3, <1>4, RegisteredOne

LEMMA RegisteredLess ==
  ASSUME TypeOK, NEW p \in Registered,
         m_plugins' = [m_plugins EXCEPT ![PluginName[p]] = None]
  PROVE  Registered' = Registered \ {p}
<1>1. /\ p \in Libraries /\ PluginName[p] \in Names
      /\ m_plugins \in [Names -> Libraries \cup {None}]
  BY DEF TypeOK, Names, Registered
<1>2. \A n \in Names : m_plugins'[n] = IF n = PluginName[p] THEN None ELSE m_plugins[n]
  BY <1>1
<1>3. \A q \in Libraries : q # None
  BY PluginManagerAssumption
<1>4. \A n \in Names : m_plugins[n] = p => n = PluginName[p]
  BY <1>1, <1>3 DEF TypeOK
<1>5. m_plugins[PluginName[p]] = p
  BY <1>1, RegisteredOne
<1> QED
  BY <1>1, <1>2, <1>3, <1>4, <1>5 DEF Registered

LEMMA RegisteredNone ==
  ASSUME m_plugins' = [n \in Names |-> None]
  PROVE  Registered' = {}
BY PluginManagerAssumption DEF Registered

-----------------------------------------------------------------------------
(* Each part of the invariant is preserved. *)

\* Steps of clients, plugins' tasks and the scheduler: the manager is unchanged.
Outside ==
  \/ \E p \in Libraries : GetActive(p) \/ Release(p)
  \/ \E t \in Tasks : Schedule(t) \/ FinishTask(t)
  \/ StartTask \/ Close \/ Stop \/ Terminated \/ UNCHANGED vars

\* The plugin an operation works on.
LEMMA SubjectIs ==
  ASSUME TypeOK, PhaseInv, op \notin {"idle", "gone"}
  PROVE  /\ subject \in Libraries /\ subject # None
         /\ m_state[subject] \in Phase[op] /\ m_state[subject] \in PluginStates
         /\ op \in {"load", "abort", "unload", "destructor"}
<1>1. op \in {"load", "abort", "unload", "destructor"} /\ subject # None
  BY DEF TypeOK, PhaseInv
<1>2. subject \in Libraries /\ m_state[subject] \in Phase[op]
  BY <1>1 DEF TypeOK, PhaseInv
<1>3. m_state[subject] \in PluginStates
  BY <1>1, <1>2 DEF Phase, PluginStates
<1> QED
  BY <1>1, <1>2, <1>3

LEMMA OutsideKeeps ==
  ASSUME Outside
  PROVE  UNCHANGED managerVars
BY DEF Outside, GetActive, Release, Schedule, FinishTask, StartTask, Close, Stop,
       Terminated, vars

\* What the next function of the plugin is, and what it leads to.
LEMMA UpStep ==
  ASSUME TypeOK, PhaseInv, op = "load", m_state[subject] \in DOMAIN Up
  PROVE  /\ Up[m_state[subject]][1] \in PluginFunctions
         /\ Up[m_state[subject]][2] \in PluginStates
         /\ Up[m_state[subject]][2] \in Phase["load"]
BY UpTable

LEMMA DownStep ==
  ASSUME TypeOK, PhaseInv, op \in {"abort", "unload", "destructor"},
         ~Over(subject)
  PROVE  /\ Down(m_state[subject])[1] \in PluginFunctions
         /\ Down(m_state[subject])[2] \in PluginStates
         /\ Down(m_state[subject])[2] \in Phase[op]
<1>1. m_state[subject] \in Phase[op]
  BY SubjectIs
<1> QED
  BY <1>1, DownTable DEF Over

LEMMA TypeStep ==
  ASSUME TypeOK, PhaseInv, InsideInv, [Next]_vars
  PROVE  TypeOK'
<1> USE DEF managerVars, clientVars
<1>p. \A f \in PluginFunctions \cup {"failed"} : \A p \in Libraries :
        [calls EXCEPT ![p] = Append(@, f)]
           \in [Libraries -> Seq(PluginFunctions \cup {"failed"})]
  BY DEF TypeOK
<1>1. ASSUME NEW p \in Libraries, Load(p) PROVE TypeOK'
  <2>1. Pool!Known' \subseteq Tasks
    BY <1>1 DEF Load, poolVars, Pool!Known, Pool!PendingSet, TypeOK
  <2>2. UNCHANGED Registered
    BY <1>1 DEF Load, Registered
  <2> QED
    BY <1>1, <2>1, <2>2 DEF Load, TypeOK, poolVars, PluginStates
<1>2. ASSUME CallUp PROVE TypeOK'
  BY <1>2, <1>p, UpStep, SubjectIs
     DEF CallUp, Call, TypeOK, poolVars, Pool!Known, Pool!PendingSet, Registered
<1>3. ASSUME CallDown PROVE TypeOK'
  BY <1>3, <1>p, DownStep, SubjectIs
     DEF CallDown, Call, TypeOK, poolVars, Pool!Known, Pool!PendingSet, Registered
<1>4. ASSUME UpSucceeds PROVE TypeOK'
  BY <1>4, UpStep, SubjectIs
     DEF UpSucceeds, InsideInv, TypeOK, poolVars, Pool!Known, Pool!PendingSet,
         Registered
<1>5. ASSUME UpFails PROVE TypeOK'
  BY <1>5, <1>p, SubjectIs
     DEF UpFails, TypeOK, poolVars, Pool!Known, Pool!PendingSet, Registered
<1>6. ASSUME NEW k \in BOOLEAN, Register(k) PROVE TypeOK'
  <2>1. Registered' = Registered \cup {subject} /\ subject \in Libraries
    BY <1>6, SubjectIs, RegisteredMore DEF Register, PhaseInv
  <2>2. PluginName[subject] \in Names
    BY <2>1 DEF Names
  <2>3. /\ m_plugins' \in [Names -> Libraries \cup {None}]
        /\ \A n \in Names : m_plugins'[n] # None => PluginName[m_plugins'[n]] = n
    BY <1>6, <2>1, <2>2 DEF Register, TypeOK
  <2>4. m_state' \in [Libraries -> PluginStates \cup {"none"}]
    BY <1>6 DEF Register, TypeOK, PluginStates
  <2>5. client' \subseteq Registered'
    BY <1>6, <2>1 DEF Register, TypeOK
  <2> QED
    BY <1>6, <2>3, <2>4, <2>5
       DEF Register, TypeOK, poolVars, Pool!Known, Pool!PendingSet
<1>7. ASSUME DownReturns PROVE TypeOK'
  BY <1>7, DownStep, SubjectIs
     DEF DownReturns, InsideInv, TypeOK, poolVars, Pool!Known, Pool!PendingSet,
         Registered
<1>8. ASSUME AbortEnds PROVE TypeOK'
  BY <1>8, SubjectIs
     DEF AbortEnds, Discard, TypeOK, poolVars, Pool!Known, Pool!PendingSet, Registered
<1>9. ASSUME UnloadEnds PROVE TypeOK'
  <2>1. Registered' = Registered \ {subject} /\ subject \in Libraries
    BY <1>9, SubjectIs, RegisteredLess DEF UnloadEnds, PhaseInv
  <2>2. /\ m_plugins' \in [Names -> Libraries \cup {None}]
        /\ \A n \in Names : m_plugins'[n] # None => PluginName[m_plugins'[n]] = n
    BY <1>9 DEF UnloadEnds, TypeOK
  <2>3. /\ m_state' \in [Libraries -> PluginStates \cup {"none"}]
        /\ client' \subseteq Registered' /\ zombie' \subseteq Libraries
    BY <1>9, <2>1, RegisteredAre DEF UnloadEnds, Discard, TypeOK
  <2> QED
    BY <1>9, <2>2, <2>3
       DEF UnloadEnds, TypeOK, poolVars, Pool!Known, Pool!PendingSet
<1>10. ASSUME DestructEnds PROVE TypeOK'
  <2>1. Registered' = {}
    BY <1>10, RegisteredNone DEF DestructEnds
  <2>2. client' = {}
    BY <1>10 DEF DestructEnds, Discard, TypeOK
  <2>3. m_state' \in [Libraries -> PluginStates \cup {"none"}]
        /\ zombie' \subseteq Libraries
    BY <1>10, RegisteredAre DEF DestructEnds, Discard, TypeOK
  <2>4. /\ m_plugins' \in [Names -> Libraries \cup {None}]
        /\ \A n \in Names : m_plugins'[n] = None
    BY <1>10 DEF DestructEnds
  <2> QED
    BY <1>10, <2>2, <2>3, <2>4
       DEF DestructEnds, TypeOK, poolVars, Pool!Known, Pool!PendingSet
<1>11. ASSUME NEW p \in Libraries, Destruct(p) PROVE TypeOK'
  BY <1>11 DEF Destruct, TypeOK, poolVars, Pool!Known, Pool!PendingSet, Registered
<1>12. ASSUME NEW n \in Names, Unload(n) PROVE TypeOK'
  BY <1>12 DEF Unload, TypeOK, poolVars, Pool!Known, Pool!PendingSet, Registered
<1>13. ASSUME Outside PROVE TypeOK'
  <2>1. Pool!Known' \subseteq Tasks /\ pending' \in Seq(Tasks)
    <3>1. ASSUME NEW t \in Tasks, Schedule(t) \/ FinishTask(t)
          PROVE  Pool!Known' \subseteq Tasks /\ pending' \in Seq(Tasks)
      BY <3>1, PoolTypes DEF Schedule, FinishTask, TypeOK
    <3>2. ASSUME StartTask
          PROVE  Pool!Known' \subseteq Tasks /\ pending' \in Seq(Tasks)
      <4>1. pending # <<>> /\ Head(pending) \in Tasks
        BY <3>2 DEF StartTask, Pool!Start, TypeOK
      <4> QED
        BY <3>2, <4>1, PoolTypes DEF StartTask, TypeOK
    <3>3. ASSUME \/ \E p \in Libraries : GetActive(p) \/ Release(p)
                 \/ Close \/ Stop \/ Terminated \/ UNCHANGED vars
          PROVE  Pool!Known' \subseteq Tasks /\ pending' \in Seq(Tasks)
      BY <3>3 DEF GetActive, Release, Close, Stop, Terminated, vars, poolVars,
                  Pool!Close, Pool!Stop, Pool!Known, Pool!PendingSet, TypeOK
    <3> QED
      BY <1>13, <3>1, <3>2, <3>3 DEF Outside
  <2>2. UNCHANGED managerVars
    BY <1>13, OutsideKeeps
  <2>3. client' \subseteq Registered /\ zombie' \subseteq Libraries
    BY <1>13 DEF Outside, GetActive, Release, Schedule, FinishTask, StartTask, Close,
                 Stop, Terminated, vars, TypeOK
  <2> QED
    BY <2>1, <2>2, <2>3 DEF TypeOK, Registered
<1> QED
  BY <1>1, <1>2, <1>3, <1>4, <1>5, <1>6, <1>7, <1>8, <1>9, <1>10, <1>11, <1>12, <1>13
     DEF Next, Outside

LEMMA PhaseStep ==
  ASSUME TypeOK, PhaseInv, InsideInv, [Next]_vars
  PROVE  PhaseInv'
<1> USE PluginManagerAssumption
<1>1. ASSUME NEW p \in Libraries, Load(p) PROVE PhaseInv'
  <2>1. p \notin Registered /\ p # None /\ UNCHANGED Registered
    BY <1>1, RegisteredOne DEF Load, Registered
  <2>2. "Loaded" \in Phase["load"]
    BY DEF Phase
  <2> QED
    BY <1>1, <2>1, <2>2, RegisteredAre DEF Load, PhaseInv, TypeOK
<1>2. ASSUME CallUp \/ CallDown PROVE PhaseInv'
  <2>1. op \notin {"idle", "gone"} /\ UNCHANGED <<m_plugins, m_state, op, subject>>
    BY <1>2 DEF CallUp, CallDown, Call
  <2>2. subject # None
    BY <2>1, SubjectIs
  <2> QED
    BY <2>1, <2>2 DEF PhaseInv, Registered
<1>3. ASSUME UpSucceeds PROVE PhaseInv'
  <2>1. m_state[subject] \in DOMAIN Up /\ subject \in Libraries
    BY <1>3, SubjectIs DEF UpSucceeds, InsideInv
  <2>2. UNCHANGED <<Registered, op, subject, m_plugins>>
    BY <1>3 DEF UpSucceeds, Registered
  <2>3. /\ m_state'[subject] \in Phase["load"]
        /\ \A p \in Libraries \ {subject} : m_state'[p] = m_state[p]
    BY <1>3, <2>1, UpStep DEF UpSucceeds, TypeOK
  <2> QED
    BY <1>3, <2>1, <2>2, <2>3, RegisteredAre DEF UpSucceeds, PhaseInv
<1>4. ASSUME UpFails PROVE PhaseInv'
  <2>1. m_state[subject] \in Phase["abort"] /\ subject # None
    BY <1>4, UpTable, SubjectIs DEF UpFails, InsideInv
  <2> QED
    BY <1>4, <2>1 DEF UpFails, PhaseInv, Registered
<1>5. ASSUME NEW k \in BOOLEAN, Register(k) PROVE PhaseInv'
  <2>1. Registered' = Registered \cup {subject} /\ subject \in Libraries
    BY <1>5, SubjectIs, RegisteredMore DEF Register, PhaseInv
  <2>2. /\ m_state'[subject] = "Running" /\ op' = "idle" /\ subject' = None
        /\ \A p \in Libraries \ {subject} : m_state'[p] = m_state[p]
        /\ op = "load" /\ UNCHANGED inside
    BY <1>5, <2>1 DEF Register, TypeOK
  <2>3. inside = None
    BY <1>5 DEF Register, InsideInv, Up
  <2>4. ASSUME NEW p \in Registered' \ {subject'} PROVE m_state'[p] = "Running"
    <3>1. CASE p = subject
      BY <2>2, <3>1
    <3>2. CASE p # subject
      <4>1. p \in Registered \ {subject} /\ p \in Libraries
        BY <2>1, <3>2, RegisteredAre
      <4> QED
        BY <2>2, <4>1 DEF PhaseInv
    <3> QED
      BY <3>1, <3>2
  <2>5. ASSUME NEW p \in Libraries \ (Registered' \cup {subject'})
        PROVE  m_state'[p] = "none"
    BY <2>1, <2>2 DEF PhaseInv
  <2> QED
    BY <2>2, <2>3, <2>4, <2>5 DEF PhaseInv
<1>6. ASSUME DownReturns PROVE PhaseInv'
  <2>1. ~Over(subject) /\ subject \in Libraries
    BY <1>6, SubjectIs DEF DownReturns, InsideInv
  <2>2. UNCHANGED <<Registered, op, subject, m_plugins>>
    BY <1>6 DEF DownReturns, Registered
  <2>3. /\ m_state'[subject] \in Phase[op]
        /\ \A p \in Libraries \ {subject} : m_state'[p] = m_state[p]
    BY <1>6, <2>1, DownStep DEF DownReturns, TypeOK
  <2> QED
    BY <1>6, <2>1, <2>2, <2>3 DEF DownReturns, PhaseInv, Registered
<1>7. ASSUME AbortEnds PROVE PhaseInv'
  <2>1. subject \in Libraries /\ subject \notin Registered
    BY <1>7, SubjectIs, RegisteredOne DEF AbortEnds, PhaseInv
  <2>2. /\ \A p \in Libraries : m_state'[p] = IF p = subject THEN "none" ELSE m_state[p]
        /\ op = "abort" /\ op' = "idle" /\ subject' = None /\ inside' = None
        /\ UNCHANGED Registered
    BY <1>7 DEF AbortEnds, Discard, Registered
  <2> QED
    BY <2>1, <2>2 DEF PhaseInv, Registered
<1>8. ASSUME UnloadEnds PROVE PhaseInv'
  <2>1. Registered' = Registered \ {subject} /\ subject \in Libraries
    BY <1>8, SubjectIs, RegisteredLess DEF UnloadEnds, PhaseInv
  <2>2. /\ \A p \in Libraries : m_state'[p] = IF p = subject THEN "none" ELSE m_state[p]
        /\ op = "unload" /\ op' = "idle" /\ subject' = None /\ inside' = None
    BY <1>8 DEF UnloadEnds, Discard
  <2> QED
    BY <2>1, <2>2 DEF PhaseInv, Registered
<1>9. ASSUME DestructEnds PROVE PhaseInv'
  <2>1. Registered' = {}
    BY <1>9, RegisteredNone DEF DestructEnds
  <2>2. \A p \in Libraries :
          m_state'[p] = IF p \in Registered THEN "none" ELSE m_state[p]
    BY <1>9 DEF DestructEnds, Discard
  <2>3. subject \in Registered \/ subject = None
    BY <1>9 DEF DestructEnds, PhaseInv
  <2>4. op' = "gone" /\ subject' = None /\ inside' = None
    BY <1>9 DEF DestructEnds
  <2> QED
    BY <2>1, <2>2, <2>3, <2>4 DEF PhaseInv
<1>10. ASSUME NEW p \in Libraries, Destruct(p) PROVE PhaseInv'
  <2>1. /\ p \in Registered /\ op' = "destructor" /\ subject' = p /\ p # None
        /\ UNCHANGED <<m_plugins, m_state, Registered, inside>> /\ inside = None
    BY <1>10 DEF Destruct, Registered
  <2>2. m_state[p] \in Phase["destructor"]
    BY <1>10, SubjectIs DEF Destruct, Over, PhaseInv, Phase
  <2>3. ASSUME NEW q \in Registered \ {p}
        PROVE  m_state[q] \in {"Running", "Destroyed"}
    <3>1. CASE op = "idle"
      BY <3>1, <2>3, RegisteredAre DEF PhaseInv
    <3>2. CASE op = "destructor" /\ q = subject
      BY <1>10, <3>2, SubjectIs DEF Destruct, Over, Phase
    <3>3. CASE op = "destructor" /\ q # subject
      BY <3>3, <2>3 DEF PhaseInv
    <3> QED
      BY <1>10, <3>1, <3>2, <3>3 DEF Destruct
  <2>4. ASSUME NEW q \in Libraries \ (Registered \cup {p})
        PROVE  m_state[q] = "none"
    BY <1>10 DEF Destruct, PhaseInv
  <2> QED
    BY <2>1, <2>2, <2>3, <2>4 DEF PhaseInv
<1>11. ASSUME NEW n \in Names, Unload(n) PROVE PhaseInv'
  <2>1. /\ subject' \in Registered /\ op' = "unload" /\ subject = None /\ op = "idle"
        /\ UNCHANGED <<m_plugins, m_state, Registered, inside>>
    BY <1>11 DEF Unload, Registered, PhaseInv, TypeOK
  <2>2. subject' # None /\ m_state[subject'] \in Phase["unload"]
    BY <2>1 DEF PhaseInv, Phase, Registered
  <2> QED
    BY <2>1, <2>2 DEF PhaseInv, Registered
<1>12. ASSUME Outside PROVE PhaseInv'
  BY <1>12, OutsideKeeps DEF managerVars, PhaseInv, Registered
<1> QED
  BY <1>1, <1>2, <1>3, <1>4, <1>5, <1>6, <1>7, <1>8, <1>9, <1>10, <1>11, <1>12
     DEF Next, Outside

LEMMA InsideStep ==
  ASSUME TypeOK, PhaseInv, InsideInv, [Next]_vars
  PROVE  InsideInv'
<1>1. ASSUME CallUp PROVE InsideInv'
  BY <1>1 DEF CallUp, Call, InsideInv
<1>2. ASSUME CallDown PROVE InsideInv'
  BY <1>2, SubjectIs DEF CallDown, Call, InsideInv, Over
<1>3. ASSUME UpSucceeds \/ UpFails \/ DownReturns PROVE InsideInv'
  BY <1>3 DEF UpSucceeds, UpFails, DownReturns, InsideInv
<1>4. ASSUME NEW k \in BOOLEAN, Register(k) PROVE InsideInv'
  BY <1>4 DEF Register, InsideInv, Up
<1>5. ASSUME NEW p \in Libraries, Load(p) \/ Destruct(p) PROVE InsideInv'
  BY <1>5 DEF Load, Destruct, InsideInv, PhaseInv
<1>6. ASSUME NEW n \in Names, Unload(n) PROVE InsideInv'
  BY <1>6 DEF Unload, InsideInv, PhaseInv
<1>7. ASSUME AbortEnds \/ UnloadEnds \/ DestructEnds PROVE InsideInv'
  BY <1>7 DEF AbortEnds, UnloadEnds, DestructEnds, InsideInv
<1>8. ASSUME Outside PROVE InsideInv'
  BY <1>8, OutsideKeeps DEF managerVars, InsideInv, Over
<1> QED
  BY <1>1, <1>2, <1>3, <1>4, <1>5, <1>6, <1>7, <1>8 DEF Next, Outside

\* Where the states stand in the full life.
LEMMA Places ==
  /\ \A s \in Phase["load"] : Coming[s] \in 1 .. 5
  /\ \A o \in {"abort", "unload", "destructor"} : \A s \in Phase[o] :
       Remaining[s] \in 5 .. 8
  /\ Remaining["Loaded"] = 8 /\ Remaining["Destroyed"] = 8
  /\ Remaining["Running"] = 5 /\ Coming["Started"] = 5 /\ Coming["Loaded"] = 1
BY DEF Phase, Coming, Remaining

LEMMA CallsAre ==
  ASSUME TypeOK, NEW p \in Libraries
  PROVE  calls[p] \in Seq(PluginFunctions \cup {"failed"})
BY DEF TypeOK

\* Calling the function that comes next leaves the life as it is.
LEMMA CallKeepsLife ==
  ASSUME NEW c \in Seq(PluginFunctions \cup {"failed"}), NEW k \in 1 .. 7
  PROVE  Append(c, FullLife[k]) \o From(k + 1) = c \o From(k)
<1>1. From(k) \in Seq(PluginFunctions)
  <2>1. k \in 1 .. 8
    OBVIOUS
  <2> QED
    BY <2>1, FromShape
<1>2. From(k) \in Seq(PluginFunctions \cup {"failed"})
  BY <1>1, SeqMonotonic
<1> QED
  BY <1>2, FromNext, NextCalled

\* When nothing is ahead the life is over.
LEMMA EndOfLife ==
  ASSUME TypeOK, NEW p \in Libraries
  PROVE  calls[p] \o From(8) = calls[p]
BY CallsAre, FromEnds, ConcatEmptySeq

\* What is ahead of the plugin worked on, by where the operation is.
LEMMA AheadIs ==
  ASSUME TypeOK, PhaseInv, InsideInv
  PROVE  /\ op = "load" /\ inside = None => AheadUp = From(Coming[m_state[subject]])
         /\ inside # None => /\ AheadUp = From(Coming[m_state[subject]] + 1)
                            /\ AheadDown = From(Remaining[m_state[subject]] + 1)
         /\ op \in {"abort", "unload", "destructor"} /\ inside = None =>
              AheadDown = From(Remaining[m_state[subject]])
<1>1. op = "load" => Coming[m_state[subject]] + 0 = Coming[m_state[subject]]
  BY SubjectIs, Places
<1>2. op \in {"abort", "unload", "destructor"} =>
        Remaining[m_state[subject]] + 0 = Remaining[m_state[subject]]
  BY SubjectIs, Places
<1> QED
  BY <1>1, <1>2 DEF AheadUp, AheadDown

\* A plugin that is registered, or was, and is not worked on.
Resting ==
  /\ \A p \in Registered \ {subject} : calls[p] \o From(Remaining[m_state[p]]) \in Lives
  /\ \A p \in Libraries \ (Registered \cup {subject}) : calls[p] \in Lives \cup {<<>>}

LEMMA RestingStep ==
  ASSUME TypeOK, Resting, UNCHANGED <<m_plugins, subject>>, NEW c, NEW s,
         calls' = [calls EXCEPT ![subject] = c],
         m_state' = [m_state EXCEPT ![subject] = s]
  PROVE  Resting'
<1>1. UNCHANGED Registered
  BY DEF Registered
<1>2. \A p \in Libraries \ {subject} : calls'[p] = calls[p] /\ m_state'[p] = m_state[p]
  BY DEF TypeOK
<1> QED
  BY <1>1, <1>2, RegisteredAre DEF Resting

LEMMA LifeStep ==
  ASSUME TypeOK, PhaseInv, InsideInv, LifeInv, [Next]_vars,
         TypeOK', PhaseInv', InsideInv'
  PROVE  LifeInv'
<1> USE PluginManagerAssumption
<1>r. /\ LifeInv <=>
           /\ op = "load" => calls[subject] \o AheadUp = FullLife
           /\ op \in {"abort", "unload", "destructor"} =>
                calls[subject] \o AheadDown \in Lives
           /\ Resting
      /\ LifeInv' <=>
           /\ op' = "load" => calls'[subject'] \o AheadUp' = FullLife
           /\ op' \in {"abort", "unload", "destructor"} =>
                calls'[subject'] \o AheadDown' \in Lives
           /\ Resting'
  BY DEF LifeInv, Resting
<1> DEFINE s == m_state[subject]
<1>1. ASSUME NEW p \in Libraries, Load(p) PROVE LifeInv'
  <2>1. /\ subject' = p /\ op' = "load" /\ m_state'[p] = "Loaded" /\ calls'[p] = <<>>
        /\ inside' = None /\ UNCHANGED Registered /\ subject = None
        /\ \A q \in Libraries \ {p} : calls'[q] = calls[q] /\ m_state'[q] = m_state[q]
    BY <1>1 DEF Load, TypeOK, PhaseInv, Registered
  <2>2. AheadUp' = FullLife
    BY <2>1, AheadIs, Places, FromEnds DEF AheadUp
  <2>3. FullLife \in Seq(PluginFunctions)
    BY FromShape, FromEnds
  <2>4. calls'[p] \o AheadUp' = FullLife
    BY <2>1, <2>2, <2>3, ConcatEmptySeq
  <2>5. p \notin Registered
    BY <1>1, RegisteredOne DEF Load
  <2>6. Resting'
    BY <1>r, <2>1, <2>5, RegisteredAre DEF Resting
  <2> QED
    BY <1>r, <2>1, <2>4, <2>6
<1>2. ASSUME CallUp PROVE LifeInv'
  <2>1. /\ inside = None /\ inside' # None /\ op = "load" /\ s \in DOMAIN Up
        /\ UNCHANGED <<m_plugins, m_state, op, subject>> /\ subject \in Libraries
        /\ calls' = [calls EXCEPT ![subject] = Append(@, Up[s][1])]
    BY <1>2, UpTable, SubjectIs DEF CallUp, Call
  <2>2. AheadUp = From(Coming[s]) /\ AheadUp' = From(Coming[s] + 1)
    BY <2>1, AheadIs DEF AheadUp
  <2>3. calls'[subject] = Append(calls[subject], FullLife[Coming[s]])
        /\ Coming[s] \in 1 .. 7
    BY <2>1, UpTable DEF TypeOK
  <2>4. calls'[subject] \o AheadUp' = calls[subject] \o AheadUp
    BY <2>1, <2>2, <2>3, CallsAre, CallKeepsLife
  <2>5. m_state' = [m_state EXCEPT ![subject] = s]
    BY <2>1 DEF TypeOK
  <2>6. Resting'
    BY <1>r, <2>1, <2>5, RestingStep
  <2> QED
    BY <1>r, <2>1, <2>4, <2>6
<1>3. ASSUME CallDown PROVE LifeInv'
  <2>1. /\ inside = None /\ op \in {"abort", "unload", "destructor"}
        /\ s \notin {"Loaded", "Destroyed"} /\ s \in Phase[op] /\ subject \in Libraries
        /\ UNCHANGED <<m_plugins, m_state, op, subject>>
        /\ calls' = [calls EXCEPT ![subject] = Append(@, Down(s)[1])]
    BY <1>3, SubjectIs DEF CallDown, Call, Over
  <2>2. inside' # None
    BY <1>3, <2>1, DownTable DEF CallDown, Call
  <2>3. AheadDown = From(Remaining[s]) /\ AheadDown' = From(Remaining[s] + 1)
    BY <2>1, <2>2, AheadIs DEF AheadDown
  <2>4. calls'[subject] = Append(calls[subject], FullLife[Remaining[s]])
        /\ Remaining[s] \in 1 .. 7
    BY <2>1, DownTable DEF TypeOK
  <2>5. calls'[subject] \o AheadDown' = calls[subject] \o AheadDown
    BY <2>1, <2>3, <2>4, CallsAre, CallKeepsLife
  <2>6. m_state' = [m_state EXCEPT ![subject] = s]
    BY <2>1 DEF TypeOK
  <2>7. Resting'
    BY <1>r, <2>1, <2>6, RestingStep
  <2> QED
    BY <1>r, <2>1, <2>5, <2>7
<1>4. ASSUME UpSucceeds PROVE LifeInv'
  <2>1. /\ inside # None /\ inside' = None /\ op = "load" /\ s \in DOMAIN Up
        /\ UNCHANGED <<m_plugins, calls, op, subject>> /\ subject \in Libraries
        /\ m_state' = [m_state EXCEPT ![subject] = Up[s][2]]
    BY <1>4, SubjectIs DEF UpSucceeds, InsideInv
  <2>2. m_state'[subject] = Up[s][2]
    BY <2>1 DEF TypeOK
  <2>3. AheadUp = From(Coming[s] + 1)
    BY <2>1, AheadIs
  <2>4. AheadUp' = From(Coming[s] + 1)
    BY <2>1, <2>2, UpTable DEF AheadUp
  <2>5. calls' = [calls EXCEPT ![subject] = calls[subject]]
    BY <2>1 DEF TypeOK
  <2>6. Resting'
    BY <1>r, <2>1, <2>5, RestingStep
  <2> QED
    BY <1>r, <2>1, <2>3, <2>4, <2>6
<1>5. ASSUME UpFails PROVE LifeInv'
  <2>1. /\ inside # None /\ inside' = None /\ op = "load" /\ op' = "abort"
        /\ s \in DOMAIN Up /\ subject \in Libraries
        /\ UNCHANGED <<m_plugins, m_state, subject>>
        /\ calls' = [calls EXCEPT ![subject] = Append(@, "failed")]
    BY <1>5, SubjectIs DEF UpFails, InsideInv
  <2>2. AheadUp = From(Coming[s] + 1)
    BY <2>1, AheadIs
  <2>3. Append(calls[subject], "failed") \o From(Remaining[s]) \in Lives
    BY <1>r, <2>1, <2>2, CallsAre, FailedLife
  <2>4. AheadDown' = From(Remaining[s])
    <3>1. Remaining[s] + 0 = Remaining[s]
      BY <2>1, UpTable, Places
    <3> QED
      BY <2>1, <3>1 DEF AheadDown
  <2>5. calls'[subject] = Append(calls[subject], "failed")
    BY <2>1 DEF TypeOK
  <2>6. m_state' = [m_state EXCEPT ![subject] = s]
    BY <2>1 DEF TypeOK
  <2>7. Resting'
    BY <1>r, <2>1, <2>6, RestingStep
  <2> QED
    BY <1>r, <2>1, <2>3, <2>4, <2>5, <2>7
<1>6. ASSUME NEW k \in BOOLEAN, Register(k) PROVE LifeInv'
  <2>1. /\ op = "load" /\ s = "Started" /\ op' = "idle" /\ subject' = None
        /\ subject \in Libraries /\ UNCHANGED calls /\ m_state'[subject] = "Running"
        /\ \A q \in Libraries \ {subject} : m_state'[q] = m_state[q]
    BY <1>6, SubjectIs DEF Register, TypeOK
  <2>2. inside = None
    BY <1>6 DEF Register, InsideInv, Up
  <2>3. calls[subject] \o From(5) = FullLife
    BY <1>r, <2>1, <2>2, AheadIs, Places
  <2>4. FullLife \in Lives
    BY DEF FullLife, Lives
  <2>5. Registered' = Registered \cup {subject}
    BY <1>6, <2>1, RegisteredMore DEF Register, PhaseInv
  <2>6. calls'[subject] \o From(Remaining[m_state'[subject]]) \in Lives
    BY <2>1, <2>3, <2>4, Places
  <2>7. Resting'
    BY <1>r, <2>1, <2>5, <2>6, RegisteredAre DEF Resting
  <2> QED
    BY <1>r, <2>1, <2>7
<1>7. ASSUME DownReturns PROVE LifeInv'
  <2>1. /\ inside # None /\ inside' = None /\ op \in {"abort", "unload", "destructor"}
        /\ s \notin {"Loaded", "Destroyed"} /\ s \in Phase[op]
        /\ UNCHANGED <<m_plugins, calls, op, subject>> /\ subject \in Libraries
        /\ m_state' = [m_state EXCEPT ![subject] = Down(s)[2]]
    BY <1>7, SubjectIs DEF DownReturns, InsideInv, Over
  <2>2. m_state'[subject] = Down(s)[2]
    BY <2>1 DEF TypeOK
  <2>3. AheadDown = From(Remaining[s] + 1)
    BY <2>1, AheadIs
  <2>4. AheadDown' = From(Remaining[s] + 1)
    BY <2>1, <2>2, DownTable DEF AheadDown
  <2>5. calls' = [calls EXCEPT ![subject] = calls[subject]]
    BY <2>1 DEF TypeOK
  <2>6. Resting'
    BY <1>r, <2>1, <2>5, RestingStep
  <2> QED
    BY <1>r, <2>1, <2>3, <2>4, <2>6
<1>8. ASSUME AbortEnds \/ UnloadEnds PROVE LifeInv'
  <2>1. /\ op \in {"abort", "unload"} /\ inside = None /\ op' = "idle"
        /\ subject' = None /\ UNCHANGED calls /\ subject \in Libraries
        /\ s \in {"Loaded", "Destroyed"}
        /\ \A q \in Libraries \ {subject} : m_state'[q] = m_state[q]
    BY <1>8, SubjectIs DEF AbortEnds, UnloadEnds, Discard, Over
  <2>2. Registered' = Registered \ {subject}
    <3>1. CASE AbortEnds
      BY <2>1, <3>1, RegisteredOne DEF AbortEnds, PhaseInv, Registered
    <3>2. CASE UnloadEnds
      BY <3>2, RegisteredLess DEF UnloadEnds, PhaseInv
    <3> QED
      BY <1>8, <3>1, <3>2
  <2>3. calls[subject] \in Lives
    <3>1. Remaining[s] = 8
      BY <2>1, Places
    <3>2. calls[subject] \o From(8) \in Lives
      BY <1>r, <2>1, <3>1, AheadIs
    <3> QED
      BY <2>1, <3>2, EndOfLife
  <2>4. Resting'
    BY <1>r, <2>1, <2>2, <2>3, RegisteredAre DEF Resting
  <2> QED
    BY <1>r, <2>1, <2>4
<1>9. ASSUME DestructEnds PROVE LifeInv'
  <2>1. /\ Registered' = {} /\ op' = "gone" /\ subject' = None /\ UNCHANGED calls
        /\ inside = None /\ op \in {"idle", "destructor"}
    BY <1>9, RegisteredNone DEF DestructEnds
  <2>2. ASSUME NEW p \in Registered PROVE calls[p] \in Lives
    <3>1. p \in Libraries /\ m_state[p] \in {"Loaded", "Destroyed"}
      BY <1>9, RegisteredAre DEF DestructEnds, Over
    <3>2. calls[p] \o From(8) \in Lives
      <4>1. CASE p = subject
        BY <1>r, <2>1, <3>1, <4>1, AheadIs, Places DEF PhaseInv
      <4>2. CASE p # subject
        BY <1>r, <3>1, <4>2, Places DEF Resting
      <4> QED
        BY <4>1, <4>2
    <3> QED
      BY <3>1, <3>2, EndOfLife
  <2>3. subject \in Registered \/ subject = None
    BY <2>1 DEF PhaseInv
  <2>4. Resting'
    BY <1>r, <2>1, <2>2, <2>3 DEF Resting
  <2> QED
    BY <1>r, <2>1, <2>4
<1>10. ASSUME \/ \E p \in Libraries : Destruct(p)
              \/ \E n \in Names : Unload(n)
       PROVE  LifeInv'
  <2>1. /\ op' \in {"unload", "destructor"} /\ inside = None /\ inside' = None
        /\ op \in {"idle", "destructor"} /\ subject' \in Registered
        /\ UNCHANGED <<m_plugins, m_state, calls, Registered>>
        /\ subject # None => Over(subject) /\ ~Over(subject')
    BY <1>10 DEF Destruct, Unload, PhaseInv, Registered, TypeOK
  <2>2. subject' # subject
    BY <2>1, RegisteredAre DEF Over
  <2>3. calls[subject'] \o From(Remaining[m_state[subject']]) \in Lives
    BY <1>r, <2>1, <2>2 DEF Resting
  <2>4. AheadDown' = From(Remaining[m_state[subject']])
    <3>1. m_state[subject'] \in Phase[op']
      BY <2>1, RegisteredAre DEF PhaseInv
    <3>2. Remaining[m_state[subject']] + 0 = Remaining[m_state[subject']]
      BY <2>1, <3>1, Places
    <3> QED
      BY <2>1, <3>2 DEF AheadDown
  <2>5. subject \in Registered \/ subject = None
    BY <2>1 DEF PhaseInv
  <2>6. subject # None => calls[subject] \o From(Remaining[m_state[subject]]) \in Lives
    BY <1>r, <2>1, AheadIs DEF PhaseInv
  <2>7. Resting'
    BY <1>r, <2>1, <2>5, <2>6, RegisteredAre DEF Resting
  <2> QED
    BY <1>r, <2>1, <2>3, <2>4, <2>7
<1>11. ASSUME Outside PROVE LifeInv'
  BY <1>11, OutsideKeeps DEF managerVars, LifeInv, AheadUp, AheadDown, Registered
<1> QED
  BY <1>1, <1>2, <1>3, <1>4, <1>5, <1>6, <1>7, <1>8, <1>9, <1>10, <1>11
     DEF Next, Outside

LEMMA InitInv ==
  ASSUME Init
  PROVE  Inv
<1> USE PluginManagerAssumption
<1>1. Registered = {} /\ \A p : TasksOf(p) = {}
  BY DEF Init, Pool!Init, Registered, TasksOf, Pool!PendingSet
<1>2. TypeOK
  BY <1>1 DEF Init, Pool!Init, TypeOK, Pool!Known, Pool!PendingSet
<1>3. PhaseInv /\ InsideInv
  BY <1>1 DEF Init, PhaseInv, InsideInv
<1>4. LifeInv
  BY <1>1 DEF Init, LifeInv
<1> QED
  BY <1>2, <1>3, <1>4 DEF Inv

-----------------------------------------------------------------------------
(* The theorems. *)

\* The inductive invariant.
THEOREM Invariance == Spec => []Inv
<1>1. Init => Inv
  BY InitInv
<1>2. Inv /\ [Next]_vars => Inv'
  BY TypeStep, PhaseStep, InsideStep, LifeStep DEF Inv
<1> QED
  BY <1>1, <1>2, PTL DEF Spec

\* Types; in particular a name leads to a plugin of that name, and clients hold
\* registered plugins only.
THEOREM TypeCorrect == Spec => []TypeOK
<1>1. Inv => TypeOK
  BY DEF Inv
<1> QED
  BY <1>1, Invariance, PTL

\* Whatever fails, and whoever takes a plugin down, its functions are called in
\* the order of one of the lives of the framework document.
THEOREM OrderOfCalls == Spec => []LifecycleKept
<1>1. Inv => LifecycleKept
  <2> SUFFICES ASSUME Inv, NEW p \in Libraries
               PROVE  \E l \in Lives : /\ Len(calls[p]) <= Len(l)
                                       /\ calls[p] = SubSeq(l, 1, Len(calls[p]))
    BY DEF LifecycleKept
  <2> DEFINE F == PluginFunctions \cup {"failed"}
             Begins(l) == /\ Len(calls[p]) <= Len(l)
                          /\ calls[p] = SubSeq(l, 1, Len(calls[p]))
  <2>1. TypeOK /\ PhaseInv /\ InsideInv /\ LifeInv
    BY DEF Inv
  <2>2. calls[p] \in Seq(F)
    BY <2>1, CallsAre
  <2>3. \A k \in 1 .. 8 : calls[p] \o From(k) \in Lives => \E l \in Lives : Begins(l)
    <3>1. ASSUME NEW k \in 1 .. 8 PROVE Begins(calls[p] \o From(k))
      <4>1. From(k) \in Seq(PluginFunctions) /\ PluginFunctions \subseteq F
        BY FromShape
      <4>2. From(k) \in Seq(F)
        BY <4>1, SeqMonotonic
      <4> QED
        BY <2>2, <4>2, FirstPart
    <3> QED
      BY <3>1
  <2>4. FullLife \in Lives
    BY DEF FullLife, Lives
  <2>5. CASE p = subject
    <3>1. op \notin {"idle", "gone"}
      BY <2>1, <2>5, PluginManagerAssumption DEF PhaseInv
    <3>2. CASE op = "load"
      <4>1. PICK k \in 1 .. 8 : AheadUp = From(k)
        <5>1. CASE inside = None
          BY <2>1, <3>2, <5>1, AheadIs, SubjectIs, Places
        <5>2. CASE inside # None
          <6>1. Coming[m_state[subject]] + 1 \in 1 .. 8
            BY <2>1, <3>2, <5>2, UpTable DEF InsideInv
          <6> QED
            BY <2>1, <5>2, <6>1, AheadIs
        <5> QED
          BY <5>1, <5>2
      <4> QED
        BY <2>1, <2>3, <2>4, <2>5, <3>2, <4>1 DEF LifeInv
    <3>3. CASE op # "load"
      <4>0. op \in {"abort", "unload", "destructor"}
        BY <2>1, <3>1, <3>3, SubjectIs
      <4>1. PICK k \in 1 .. 8 : AheadDown = From(k)
        <5>1. CASE inside = None
          BY <2>1, <4>0, <5>1, AheadIs, SubjectIs, Places
        <5>2. CASE inside # None
          <6>1. Remaining[m_state[subject]] + 1 \in 1 .. 8
            BY <2>1, <4>0, <5>2, SubjectIs, DownTable DEF InsideInv, Over
          <6> QED
            BY <2>1, <5>2, <6>1, AheadIs
        <5> QED
          BY <5>1, <5>2
      <4> QED
        BY <2>1, <2>3, <2>5, <4>0, <4>1 DEF LifeInv
    <3> QED
      BY <3>2, <3>3
  <2>6. CASE p \in Registered \ {subject}
    <3>1. Remaining[m_state[p]] \in 1 .. 8
      BY <2>1, <2>6, Places DEF PhaseInv
    <3> QED
      BY <2>1, <2>3, <2>6, <3>1 DEF LifeInv
  <2>7. CASE p \in Libraries \ (Registered \cup {subject})
    <3>1. CASE calls[p] = <<>>
      <4>1. calls[p] \o From(1) = FullLife
        BY <3>1, FromEnds, FromShape, ConcatEmptySeq
      <4>2. calls[p] \o From(1) \in Lives
        BY <2>4, <4>1
      <4> QED
        BY <2>3, <4>2
    <3>2. CASE calls[p] \in Lives
      <4>1. calls[p] \o From(8) = calls[p]
        BY <2>1, EndOfLife
      <4> QED
        BY <2>3, <3>2, <4>1
    <3> QED
      BY <2>1, <2>7, <3>1, <3>2 DEF LifeInv
  <2> QED
    BY <2>5, <2>6, <2>7
<1> QED
  BY <1>1, Invariance, PTL

\* A plugin that is neither registered nor worked on has lived to the end.
THEOREM PartialStateUndone == Spec => []NothingLeftBehind
<1>1. Inv => NothingLeftBehind
  BY DEF Inv, LifeInv, NothingLeftBehind
<1> QED
  BY <1>1, Invariance, PTL

\* Two libraries of one name do not live at the same time.
THEOREM NamesLiveOnce == Spec => []OneOfAName
<1>1. Inv => OneOfAName
  <2> SUFFICES ASSUME Inv, NEW p \in Libraries, NEW q \in Libraries, p # q,
                      PluginName[p] = PluginName[q], Living(p), Living(q)
               PROVE  FALSE
    BY DEF OneOfAName
  <2>1. TypeOK /\ PhaseInv /\ LifeInv
    BY DEF Inv
  <2>2. {p, q} \subseteq Registered \cup {subject}
    BY <2>1 DEF Living, LifeInv
  <2>3. ~(p \in Registered /\ q \in Registered)
    BY <2>1, RegisteredOne
  <2>4. ASSUME NEW r \in {p, q}, r \notin Registered
        PROVE  op \in {"load", "abort"} /\ m_plugins[PluginName[r]] = None
    <3>1. subject = r /\ subject # None
      BY <2>2, <2>4, PluginManagerAssumption
    <3>2. op \notin {"idle", "gone", "unload", "destructor"}
      BY <2>1, <2>4, <3>1 DEF PhaseInv
    <3> QED
      BY <2>1, <3>1, <3>2 DEF PhaseInv, TypeOK
  <2>5. p \notin Registered /\ q \notin Registered
    BY <2>1, <2>3, <2>4, RegisteredOne, PluginManagerAssumption
  <2> QED
    BY <2>2, <2>5
<1> QED
  BY <1>1, Invariance, PTL
=============================================================================
