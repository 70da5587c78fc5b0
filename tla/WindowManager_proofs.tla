------------------------ MODULE WindowManager_proofs ------------------------
(***************************************************************************)
(* Proofs about WindowManager, for any titles, geometries, mouse events    *)
(* and number of concurrent handlers, and about DesktopShell, which runs   *)
(* on it, as long as fewer windows are created than m_next_id can count.   *)
(***************************************************************************)
EXTENDS DesktopShell, FiniteSetTheorems, WellFoundedInduction, TLAPS

Elems(s) == {s[i] : i \in DOMAIN s}
Injective(s) == \A i, j \in DOMAIN s : s[i] = s[j] => i = j

-----------------------------------------------------------------------------
(* std::find and erase on a vector of distinct ids. *)

\* In a sequence of distinct ids the first occurrence is the only one.
LEMMA OccursOnce ==
  ASSUME NEW S, NEW s \in Seq(S), Injective(s), NEW k \in DOMAIN s
  PROVE  Occurs(s, s[k]) = {k} /\ First(s, s[k]) = k
<1>1. Occurs(s, s[k]) = {k}
  BY DEF Occurs, Injective
<1>2. First(s, s[k]) = k
  BY <1>1 DEF First
<1> QED
  BY <1>1, <1>2

\* What erasing the k-th of n elements does to the indices.
Up(k, j) == IF j < k THEN j ELSE j + 1

\* std::find plus erase leaves the ids before and behind the one erased, in order.
LEMMA EraseShape ==
  ASSUME NEW S, NEW s \in Seq(S), Injective(s), NEW k \in DOMAIN s
  PROVE  /\ Erase(s, s[k]) \in Seq(S)
         /\ Len(Erase(s, s[k])) = Len(s) - 1
         /\ \A j \in 1 .. Len(s) - 1 : Up(k, j) \in DOMAIN s \ {k}
                                       /\ Erase(s, s[k])[j] = s[Up(k, j)]
<1> DEFINE e == [j \in 1 .. Len(s) - 1 |-> IF j < k THEN s[j] ELSE s[j + 1]]
<1>1. Erase(s, s[k]) = e
  BY OccursOnce DEF Erase
<1>2. Len(s) \in Nat /\ k \in 1 .. Len(s) /\ Len(s) - 1 \in Nat
  OBVIOUS
<1>3. \A j \in 1 .. Len(s) - 1 : Up(k, j) \in DOMAIN s \ {k} /\ e[j] = s[Up(k, j)]
  BY <1>2 DEF Up
<1>4. \A j \in 1 .. Len(s) - 1 : e[j] \in S
  BY <1>3
<1>5. e \in Seq(S) /\ Len(e) = Len(s) - 1
  BY <1>2, <1>4
<1> QED
  BY <1>1, <1>3, <1>5

\* The remaining ids are distinct, and are the ones that were not erased.
LEMMA EraseElems ==
  ASSUME NEW S, NEW s \in Seq(S), Injective(s), NEW k \in DOMAIN s
  PROVE  /\ Elems(Erase(s, s[k])) = Elems(s) \ {s[k]}
         /\ Injective(Erase(s, s[k]))
<1> DEFINE e == Erase(s, s[k])
<1>1. e \in Seq(S) /\ DOMAIN e = 1 .. Len(s) - 1
  BY EraseShape
<1>2. \A j \in DOMAIN e : Up(k, j) \in DOMAIN s \ {k} /\ e[j] = s[Up(k, j)]
  BY <1>1, EraseShape
<1>3. \A i, j \in DOMAIN e : Up(k, i) = Up(k, j) => i = j
  BY <1>1 DEF Up
<1>4. Injective(e)
  BY <1>2, <1>3 DEF Injective
<1>5. \A i \in DOMAIN s \ {k} : \E j \in DOMAIN e : Up(k, j) = i
  <2> TAKE i \in DOMAIN s \ {k}
  <2>1. CASE i < k
    BY <1>1, <2>1 DEF Up
  <2>2. CASE i > k
    <3>1. i - 1 \in DOMAIN e /\ ~(i - 1 < k) /\ (i - 1) + 1 = i
      BY <1>1, <2>2
    <3> QED
      BY <3>1 DEF Up
  <2> QED
    BY <2>1, <2>2
<1>6. Elems(e) \subseteq Elems(s) \ {s[k]}
  BY <1>2 DEF Elems, Injective
<1>7. Elems(s) \ {s[k]} \subseteq Elems(e)
  BY <1>2, <1>5 DEF Elems
<1> QED
  BY <1>4, <1>6, <1>7

\* Appending a new id keeps the ids distinct.
LEMMA AppendNew ==
  ASSUME NEW S, NEW s \in Seq(S), Injective(s), NEW w \in S, w \notin Elems(s)
  PROVE  /\ Append(s, w) \in Seq(S) /\ Injective(Append(s, w))
         /\ Elems(Append(s, w)) = Elems(s) \cup {w}
         /\ Append(s, w) # <<>> /\ Back(Append(s, w)) = w
<1>1. /\ Append(s, w) \in Seq(S)
      /\ DOMAIN Append(s, w) = DOMAIN s \cup {Len(s) + 1}
      /\ \A i \in DOMAIN s : Append(s, w)[i] = s[i]
      /\ Append(s, w)[Len(s) + 1] = w
      /\ Len(Append(s, w)) = Len(s) + 1
  OBVIOUS
<1>2. Injective(Append(s, w))
  BY <1>1 DEF Injective, Elems
<1>3. Elems(Append(s, w)) = Elems(s) \cup {w}
  BY <1>1 DEF Elems
<1>4. Append(s, w) # <<>> /\ Back(Append(s, w)) = w
  BY <1>1 DEF Back
<1> QED
  BY <1>1, <1>2, <1>3, <1>4

\* Raising a window keeps the windows and puts it on top.
LEMMA Raised ==
  ASSUME NEW S, NEW s \in Seq(S), Injective(s), NEW w \in Elems(s)
  PROVE  /\ Append(Erase(s, w), w) \in Seq(S)
         /\ Injective(Append(Erase(s, w), w))
         /\ Elems(Append(Erase(s, w), w)) = Elems(s)
         /\ Append(Erase(s, w), w) # <<>> /\ Back(Append(Erase(s, w), w)) = w
         /\ Occurs(s, w) # {}
<1>1. PICK k \in DOMAIN s : s[k] = w
  BY DEF Elems
<1>2. /\ Erase(s, w) \in Seq(S) /\ Injective(Erase(s, w))
      /\ Elems(Erase(s, w)) = Elems(s) \ {w}
  BY <1>1, EraseShape, EraseElems
<1>3. w \in S /\ w \notin Elems(Erase(s, w))
  BY <1>1, <1>2
<1>4. Occurs(s, w) # {}
  BY <1>1 DEF Occurs
<1> DEFINE e == Erase(s, w)
<1> HIDE DEF e
<1>5. /\ Append(e, w) \in Seq(S) /\ Injective(Append(e, w))
      /\ Elems(Append(e, w)) = Elems(e) \cup {w}
      /\ Append(e, w) # <<>> /\ Back(Append(e, w)) = w
  BY <1>2, <1>3, AppendNew DEF e
<1> QED
  BY <1>2, <1>4, <1>5 DEF e

-----------------------------------------------------------------------------
(* The inductive invariant. *)

\* A non-empty set of indices has a largest one.
LEMMA LargestIndex ==
  ASSUME NEW n \in Nat, NEW U, U \subseteq 1 .. n, U # {}
  PROVE  \E i \in U : \A j \in U : j <= i
<1> DEFINE T == {n - j : j \in U}
<1>1. T \subseteq Nat /\ T # {}
  <2>1. \A j \in U : n - j \in Nat
    OBVIOUS
  <2>2. T \subseteq Nat
    BY <2>1
  <2>3. PICK u \in U : TRUE
    OBVIOUS
  <2>4. n - u \in T
    BY <2>3
  <2> QED
    BY <2>2, <2>4
<1>2. PICK x \in T : \A y \in T : ~(<<y, x>> \in OpToRel(<, Nat))
  BY <1>1, NatLessThanWellFounded, WFMin
<1>3. \A y \in T : ~(y < x)
  BY <1>1, <1>2 DEF OpToRel
<1>4. PICK i \in U : x = n - i
  OBVIOUS
<1>5. \A j \in U : ~(n - j < n - i)
  BY <1>3, <1>4
<1> QED
  BY <1>4, <1>5

\* The window the hit test picks is a live one.
LEMMA TopHitLive ==
  ASSUME TypeOK, NEW ev, Under(ev) # {}
  PROVE  TopHit(ev) \in Elems(m_z_order)
<1>1. Under(ev) \subseteq DOMAIN m_z_order
  BY DEF Under
<1>2. Len(m_z_order) \in Nat /\ Under(ev) \subseteq 1 .. Len(m_z_order)
  BY <1>1 DEF TypeOK
<1>3. \E i \in Under(ev) : \A j \in Under(ev) : j <= i
  BY <1>2, LargestIndex
<1> QED
  BY <1>1, <1>3 DEF TopHit, Elems

\* One property of a restacked z-order at a time: the ids are distinct and are
\* those of the map, and the focus is on top.
Stacked(ids, z, f) ==
  /\ z \in Seq(Ids) /\ Injective(z) /\ Elems(z) = ids
  /\ f = IF z = <<>> THEN 0 ELSE Back(z)

\* Stacked is what the invariant says of map, z-order and focus.
LEMMA StackedInv ==
  ASSUME TypeOK
  PROVE  Stacked(WindowIds, m_z_order, m_focused_window)
           <=> ZOrderIsPermutation /\ FocusOnTop
BY DEF Stacked, TypeOK, ZOrderIsPermutation, FocusOnTop, Injective, Elems

\* Restacking: what focus_window() and a click make of a good z-order is one.
LEMMA OnTopStacked ==
  ASSUME Inv, NEW w \in WindowIds
  PROVE  /\ Stacked(WindowIds, Append(Erase(m_z_order, w), w), w)
         /\ Occurs(m_z_order, w) # {}
<1>1. Stacked(WindowIds, m_z_order, m_focused_window)
  BY StackedInv DEF Inv
<1>2. m_z_order \in Seq(Ids) /\ Injective(m_z_order) /\ w \in Elems(m_z_order)
  BY <1>1 DEF Stacked
<1> QED
  BY <1>1, <1>2, Raised DEF Stacked

\* create_window(): a new id on top.
LEMMA OpenStacked ==
  ASSUME Inv, NEW w \in Ids \ WindowIds
  PROVE  Stacked(WindowIds \cup {w}, Append(m_z_order, w), w)
<1>1. Stacked(WindowIds, m_z_order, m_focused_window)
  BY StackedInv DEF Inv
<1> QED
  BY <1>1, AppendNew DEF Stacked

\* destroy_window(): one id less, and the focus on what is then the top.
LEMMA CloseStacked ==
  ASSUME Inv, NEW w \in WindowIds,
         NEW f, f = IF m_focused_window # w THEN m_focused_window
                    ELSE IF Erase(m_z_order, w) = <<>> THEN 0
                    ELSE Back(Erase(m_z_order, w))
  PROVE  Stacked(WindowIds \ {w}, Erase(m_z_order, w), f)
<1> DEFINE e == Erase(m_z_order, w)
<1>1. Stacked(WindowIds, m_z_order, m_focused_window)
  BY StackedInv DEF Inv
<1>2. PICK k \in DOMAIN m_z_order : m_z_order[k] = w
  BY <1>1 DEF Stacked, Elems
<1>z. m_z_order \in Seq(Ids) /\ Injective(m_z_order)
  BY <1>1 DEF Stacked
<1>3. /\ e \in Seq(Ids) /\ Len(e) = Len(m_z_order) - 1
      /\ \A j \in 1 .. Len(m_z_order) - 1 : e[j] = m_z_order[Up(k, j)]
      /\ Injective(e) /\ Elems(e) = Elems(m_z_order) \ {w}
  <2>1. /\ Erase(m_z_order, m_z_order[k]) \in Seq(Ids)
        /\ Len(Erase(m_z_order, m_z_order[k])) = Len(m_z_order) - 1
        /\ \A j \in 1 .. Len(m_z_order) - 1 :
              Erase(m_z_order, m_z_order[k])[j] = m_z_order[Up(k, j)]
    BY <1>z, EraseShape
  <2>2. /\ Elems(Erase(m_z_order, m_z_order[k])) = Elems(m_z_order) \ {m_z_order[k]}
        /\ Injective(Erase(m_z_order, m_z_order[k]))
    BY <1>z, EraseElems
  <2> QED
    BY <1>2, <2>1, <2>2
<1>4. CASE m_focused_window = w
  BY <1>1, <1>3, <1>4 DEF Stacked
<1>5. CASE m_focused_window # w
  <2> DEFINE n == Len(m_z_order)
  <2>1. n \in Nat /\ n >= 1 /\ m_focused_window = m_z_order[n] /\ k \in 1 .. n
    BY <1>1, <1>2 DEF Stacked, Back
  <2>2. k < n
    BY <1>2, <1>5, <2>1
  <2>3. n - 1 \in 1 .. n - 1 /\ Up(k, n - 1) = n
    BY <2>1, <2>2 DEF Up
  <2>4. e # <<>> /\ e[Len(e)] = m_focused_window
    BY <1>3, <2>1, <2>3
  <2> QED
    BY <1>1, <1>3, <1>5, <2>4 DEF Stacked, Back
<1> QED
  BY <1>4, <1>5

\* uint32_t arithmetic below the modulus.
LEMMA ModSmall ==
  ASSUME NEW a \in Nat, NEW m \in Nat \ {0}
  PROVE  /\ a % m \in 0 .. m - 1
         /\ a < m => a % m = a
OBVIOUS

NoWrap == MaxCreates < IdModulus

\* What every step leaves of the invariant when it touches neither ids nor map
\* keys: it suffices that the z-order and the focus agree and the types hold.
LEMMA InvFromStacked ==
  ASSUME Inv, TypeOK', UNCHANGED idVars, WindowIds' \subseteq WindowIds,
         Stacked(WindowIds', m_z_order', m_focused_window')
  PROVE  Inv'
<1>1. IdInv'
  BY DEF Inv, IdInv, idVars
<1>2. ZOrderIsPermutation' /\ FocusOnTop'
  BY DEF Stacked, ZOrderIsPermutation, FocusOnTop, Injective, Elems
<1> QED
  BY <1>1, <1>2 DEF Inv

\* create_window() keeps the invariant as long as the counter does not wrap.
LEMMA CreateStep ==
  ASSUME NoWrap, Inv, NEW title \in Titles, NEW pos \in Positions,
         NEW size \in Sizes, CreateWindow(title, pos, size)
  PROVE  Inv' /\ m_next_id \notin ever \cup {0}
<1> DEFINE id == m_next_id
<1>1. created \in Nat /\ created < MaxCreates /\ MaxCreates < IdModulus
      /\ IdModulus \in Nat \ {0} /\ MaxCreates \in Nat
  BY WindowManagerAssumption DEF CreateWindow, Inv, TypeOK, NoWrap
<1>2. id = created + 1
  <2>1. created + 1 \in Nat /\ created + 1 < IdModulus
    BY <1>1
  <2>2. (created + 1) % IdModulus = created + 1
    BY <1>1, <2>1, ModSmall
  <2> QED
    BY <2>2 DEF Inv, IdInv
<1>3. id \in Ids \ WindowIds /\ id \notin ever \cup {0}
  BY <1>1, <1>2 DEF Inv, IdInv, Ids
<1>4. Stacked(WindowIds \cup {id}, Append(m_z_order, id), id)
  BY <1>3, OpenStacked
<1>5. /\ WindowIds' = WindowIds \cup {id}
      /\ m_z_order' = Append(m_z_order, id) /\ m_focused_window' = id
      /\ created' = created + 1 /\ ever' = ever \cup {id}
      /\ m_next_id' = (created + 2) % IdModulus
  <2>1. m_next_id + 1 = created + 2
    BY <1>1, <1>2
  <2> QED
    BY <2>1 DEF CreateWindow, WindowIds
<1>6. ZOrderIsPermutation' /\ FocusOnTop'
  BY <1>4, <1>5 DEF Stacked, ZOrderIsPermutation, FocusOnTop, Injective, Elems
<1>7. IdInv'
  <2>1. ever' = 1 .. created'
    BY <1>1, <1>2, <1>5 DEF Inv, IdInv
  <2>2. WindowIds' \subseteq ever'
    BY <1>5 DEF Inv, IdInv
  <2>3. created' + 1 <= IdModulus /\ m_next_id' = (created' + 1) % IdModulus
    BY <1>1, <1>5
  <2> QED
    BY <2>1, <2>2, <2>3 DEF IdInv
<1>8. TypeOK'
  <2>1. m_next_id' \in Ids
    BY <1>1, <1>5, ModSmall DEF Ids
  <2> DEFINE ws == [title |-> title, pos |-> pos, size |-> size,
                    surface |-> FALSE, visible |-> TRUE]
  <2>2. ws \in WindowState
    BY DEF WindowState
  <2>3. m_windows' = [w \in WindowIds \cup {id} |->
                        IF w = id THEN ws ELSE m_windows[w]]
    BY DEF CreateWindow
  <2> HIDE DEF ws
  <2>4. m_windows' \in [WindowIds' -> WindowState]
    BY <1>5, <2>2, <2>3 DEF Inv, TypeOK
  <2>5. m_z_order' \in Seq(Ids) /\ m_focused_window' \in Ids
    BY <1>3, <1>4, <1>5 DEF Stacked
  <2>6. created' \in 0 .. MaxCreates /\ ever' \subseteq Ids
        /\ WindowIds' \subseteq Ids
    BY <1>1, <1>3, <1>5 DEF Inv, TypeOK
  <2>7. UNCHANGED handlerVars
    BY DEF CreateWindow
  <2> QED
    BY <2>1, <2>4, <2>5, <2>6, <2>7 DEF Inv, TypeOK, handlerVars
<1> QED
  BY <1>3, <1>6, <1>7, <1>8 DEF Inv

\* destroy_window() keeps the invariant, also for an id that is unknown.
LEMMA DestroyStep ==
  ASSUME Inv, NEW id \in WindowIds, DestroyWindow(id)
  PROVE  Inv'
<1>1. /\ WindowIds' = WindowIds \ {id}
      /\ m_windows' = [w \in WindowIds \ {id} |-> m_windows[w]]
      /\ m_z_order' = Erase(m_z_order, id)
      /\ UNCHANGED <<idVars, handlerVars>>
  BY DEF DestroyWindow, WindowIds
<1>2. m_focused_window' =
        IF m_focused_window # id THEN m_focused_window
        ELSE IF m_z_order' = <<>> THEN 0 ELSE Back(m_z_order')
  BY DEF DestroyWindow
<1>3. Stacked(WindowIds', m_z_order', m_focused_window')
  BY <1>1, <1>2, StackedInv, CloseStacked DEF Inv
<1>4. m_focused_window' \in Ids
  <2>1. 0 \in Ids /\ m_focused_window \in Ids
    BY WindowManagerAssumption DEF Ids, Inv, TypeOK
  <2>2. m_z_order' \in Seq(Ids)
    BY <1>3 DEF Stacked
  <2>3. m_z_order' # <<>> => Back(m_z_order') \in Ids
    BY <2>2 DEF Back
  <2> QED
    BY <1>2, <2>1, <2>3
<1>5. TypeOK'
  <2>1. m_windows' \in [WindowIds' -> WindowState] /\ WindowIds' \subseteq Ids
    BY <1>1 DEF Inv, TypeOK
  <2>2. m_z_order' \in Seq(Ids)
    BY <1>3 DEF Stacked
  <2> QED
    BY <1>1, <1>4, <2>1, <2>2 DEF Inv, TypeOK, idVars, handlerVars
<1> QED
  BY <1>1, <1>3, <1>5, InvFromStacked

\* Raising a live window keeps the invariant.
LEMMA RaiseStep ==
  ASSUME Inv, NEW w \in WindowIds, UNCHANGED <<m_windows, idVars>>,
         m_z_order' = Append(Erase(m_z_order, w), w), m_focused_window' = w,
         TypeOK'
  PROVE  Inv'
<1>1. Stacked(WindowIds, m_z_order', m_focused_window')
  BY OnTopStacked, StackedInv DEF Inv
<1>2. WindowIds' = WindowIds
  BY DEF WindowIds
<1> QED
  BY <1>1, <1>2, InvFromStacked DEF idVars

\* focus_window() keeps the invariant, also for an id that is unknown.
LEMMA FocusStep ==
  ASSUME Inv, NEW id \in WindowIds, FocusWindow(id)
  PROVE  Inv'
<1>1. m_z_order' = Append(Erase(m_z_order, id), id)
  BY OnTopStacked, StackedInv DEF FocusWindow, Inv
<1>2. m_z_order' \in Seq(Ids)
  BY <1>1, OnTopStacked, StackedInv DEF Stacked, Inv
<1>3. TypeOK'
  BY <1>2 DEF FocusWindow, Inv, TypeOK, WindowIds, idVars, handlerVars
<1> QED
  BY <1>1, <1>3, RaiseStep DEF FocusWindow

\* Replacing the state of a live window keeps the invariant.
LEMMA UpdateStep ==
  ASSUME Inv, NEW id \in WindowIds, NEW ws \in WindowState,
         m_windows' = [m_windows EXCEPT ![id] = ws],
         UNCHANGED <<m_z_order, m_focused_window, idVars, handlerVars>>
  PROVE  Inv'
<1>1. WindowIds' = WindowIds
  BY DEF WindowIds
<1>2. m_windows' \in [WindowIds' -> WindowState]
  BY <1>1 DEF Inv, TypeOK
<1>3. TypeOK'
  BY <1>1, <1>2 DEF Inv, TypeOK, idVars, handlerVars
<1>4. Stacked(WindowIds', m_z_order', m_focused_window')
  BY <1>1, StackedInv DEF Inv
<1> QED
  BY <1>1, <1>3, <1>4, InvFromStacked

\* Every operation of the interface keeps the invariant.
LEMMA CallStep ==
  ASSUME NoWrap, Inv, Call
  PROVE  Inv'
<1>t. \A id \in WindowIds : m_windows[id] \in WindowState
  BY DEF Inv, TypeOK
<1>1. ASSUME NEW id \in WindowIds, NEW p \in Positions, MoveWindow(id, p)
      PROVE  Inv'
  <2> DEFINE ws == [m_windows[id] EXCEPT !.pos = p]
  <2>1. ws \in WindowState
    BY <1>t DEF WindowState
  <2>2. m_windows' = [m_windows EXCEPT ![id] = ws]
    BY <1>1, <1>t DEF MoveWindow, Inv, TypeOK
  <2> HIDE DEF ws
  <2> QED
    BY <1>1, <2>1, <2>2, UpdateStep DEF MoveWindow
<1>2. ASSUME NEW id \in WindowIds, NEW d \in Sizes, ResizeWindow(id, d)
      PROVE  Inv'
  <2> DEFINE ws == [m_windows[id] EXCEPT !.size = d]
  <2>1. ws \in WindowState
    BY <1>t DEF WindowState
  <2>2. m_windows' = [m_windows EXCEPT ![id] = ws]
    BY <1>2, <1>t DEF ResizeWindow, Inv, TypeOK
  <2> HIDE DEF ws
  <2> QED
    BY <1>2, <2>1, <2>2, UpdateStep DEF ResizeWindow
<1>3. ASSUME NEW id \in WindowIds, NEW b \in BOOLEAN, SetWindowSurface(id, b)
      PROVE  Inv'
  <2> DEFINE ws == [m_windows[id] EXCEPT !.surface = b]
  <2>1. ws \in WindowState
    BY <1>t DEF WindowState
  <2>2. m_windows' = [m_windows EXCEPT ![id] = ws]
    BY <1>3, <1>t DEF SetWindowSurface, Inv, TypeOK
  <2> HIDE DEF ws
  <2> QED
    BY <1>3, <2>1, <2>2, UpdateStep DEF SetWindowSurface
<1>4. ASSUME NEW id \in WindowIds, NEW b \in BOOLEAN, SetWindowVisibility(id, b)
      PROVE  Inv'
  <2> DEFINE ws == [m_windows[id] EXCEPT !.visible = b]
  <2>1. ws \in WindowState
    BY <1>t DEF WindowState
  <2>2. m_windows' = [m_windows EXCEPT ![id] = ws]
    BY <1>4, <1>t DEF SetWindowVisibility, Inv, TypeOK
  <2> HIDE DEF ws
  <2> QED
    BY <1>4, <2>1, <2>2, UpdateStep DEF SetWindowVisibility
<1> QED
  BY <1>1, <1>2, <1>3, <1>4, CreateStep, DestroyStep, FocusStep DEF Call

\* A step of a mouse handler that does not restack.
LEMMA QuietStep ==
  ASSUME Inv, TypeOK', UNCHANGED <<stackVars, idVars>>
  PROVE  Inv'
BY StackedInv, InvFromStacked DEF Inv, stackVars, WindowIds

\* The three steps of a mouse handler keep the invariant, whatever was called
\* between them.
LEMMA HandleStep ==
  ASSUME Inv, NEW h \in Handlers, Handle(h)
  PROVE  Inv'
<1> USE DEF handlerVars, stackVars, idVars, WindowIds
<1>e. \A ev \in MouseEvents \cup {NoEvent} : ev.button_state \in Nat
  BY WindowManagerAssumption DEF NoEvent
<1>1. ASSUME NEW ev \in MouseEvents, MouseArrives(h, ev) PROVE Inv'
  <2>1. TypeOK'
    BY <1>1 DEF MouseArrives, Inv, TypeOK
  <2> QED
    BY <1>1, <2>1, QuietStep DEF MouseArrives
<1>2. ASSUME MouseRead(h) PROVE Inv'
  <2>1. TypeOK'
    BY <1>2 DEF MouseRead, Inv, TypeOK
  <2> QED
    BY <1>2, <2>1, QuietStep DEF MouseRead
<1>3. ASSUME MouseWrite(h) PROVE Inv'
  <2>1. TypeOK'
    BY <1>3, <1>e DEF MouseWrite, Inv, TypeOK
  <2> QED
    BY <1>3, <2>1, QuietStep DEF MouseWrite
<1>4. ASSUME MouseClick(h) PROVE Inv'
  <2>1. CASE UNCHANGED <<m_z_order, m_focused_window>>
    <3>1. TypeOK'
      BY <1>4, <2>1 DEF MouseClick, Inv, TypeOK
    <3> QED
      BY <1>4, <2>1, <3>1, QuietStep DEF MouseClick
  <2>2. CASE Under(hev[h]) # {} /\ ~UNCHANGED <<m_z_order, m_focused_window>>
    <3> DEFINE w == TopHit(hev[h])
    <3>1. w \in WindowIds
      BY <2>2, TopHitLive, StackedInv DEF Inv, Stacked
    <3>2. m_z_order' = Append(Erase(m_z_order, w), w) /\ m_focused_window' = w
      BY <1>4, <2>2 DEF MouseClick
    <3>3. m_z_order' \in Seq(Ids)
      BY <3>1, <3>2, OnTopStacked DEF Stacked
    <3>4. TypeOK'
      BY <1>4, <3>1, <3>2, <3>3 DEF MouseClick, Inv, TypeOK
    <3> QED
      BY <1>4, <3>1, <3>2, <3>4, RaiseStep DEF MouseClick
  <2> QED
    BY <1>4, <2>1, <2>2 DEF MouseClick
<1> QED
  BY <1>1, <1>2, <1>3, <1>4 DEF Handle

\* A window manager without windows.
LEMMA InitInv ==
  ASSUME NoWrap, Init
  PROVE  Inv
<1>1. TypeOK
  BY WindowManagerAssumption DEF Init, TypeOK, Ids, WindowIds
<1>2. ZOrderIsPermutation /\ FocusOnTop
  BY DEF Init, ZOrderIsPermutation, FocusOnTop, WindowIds
<1>3. IdInv
  <2>1. 1 % IdModulus = 1
    BY WindowManagerAssumption, ModSmall
  <2> QED
    BY <2>1, WindowManagerAssumption DEF Init, IdInv, WindowIds
<1> QED
  BY <1>1, <1>2, <1>3 DEF Inv

\* No call and no step of a handler breaks the invariant.
LEMMA NextInv ==
  ASSUME NoWrap, Inv, [Next]_vars
  PROVE  Inv'
<1>1. CASE UNCHANGED vars
  <2>1. TypeOK'
    BY <1>1 DEF Inv, TypeOK, vars, stackVars, idVars, handlerVars, WindowIds
  <2> QED
    BY <1>1, <2>1, QuietStep DEF vars
<1> QED
  BY <1>1, CallStep, HandleStep DEF Next

-----------------------------------------------------------------------------
(* The theorems. *)

\* The inductive invariant, as long as the ids do not wrap around.
THEOREM Invariance == NoWrap => (Spec => []Inv)
<1> SUFFICES ASSUME NoWrap PROVE Spec => []Inv
  OBVIOUS
<1>1. Init => Inv
  BY InitInv
<1>2. Inv /\ [Next]_vars => Inv'
  BY NextInv
<1> QED
  BY <1>1, <1>2, PTL DEF Spec

\* Types.
THEOREM TypeCorrect == NoWrap => (Spec => []TypeOK)
<1>1. Inv => TypeOK
  BY DEF Inv
<1> QED
  BY <1>1, Invariance, PTL

\* After any calls and clicks the z-order lists each live window exactly once.
THEOREM ZOrderCorrect == NoWrap => (Spec => []ZOrderIsPermutation)
<1>1. Inv => ZOrderIsPermutation
  BY DEF Inv
<1> QED
  BY <1>1, Invariance, PTL

\* After any calls and clicks the focus is on the top of the z-order.
THEOREM FocusCorrect == NoWrap => (Spec => []FocusOnTop)
<1>1. Inv => FocusOnTop
  BY DEF Inv
<1> QED
  BY <1>1, Invariance, PTL

-----------------------------------------------------------------------------
(* The refinement of WindowStack *)

\* Which ids of a sequence come before which.
Order(s) ==
  {p \in Elems(s) \X Elems(s) :
     \E i, j \in DOMAIN s : i < j /\ s[i] = p[1] /\ s[j] = p[2]}

\* The pairs that w is no part of.
Others(order, w) == {p \in order : p[1] # w /\ p[2] # w}

\* A pair of places is ordered like the ids there.
LEMMA OrderOfPlaces ==
  ASSUME NEW S, NEW s \in Seq(S), Injective(s), NEW i \in DOMAIN s, NEW j \in DOMAIN s
  PROVE  <<s[i], s[j]>> \in Order(s) <=> i < j
<1>1. <<s[i], s[j]>> \in Elems(s) \X Elems(s)
  BY DEF Elems
<1>2. ASSUME NEW k \in DOMAIN s, NEW l \in DOMAIN s, k < l, s[k] = s[i], s[l] = s[j]
      PROVE  i < j
  BY <1>2 DEF Injective
<1> QED
  BY <1>1, <1>2 DEF Order

\* Two orders on ids agree if they agree pair by pair.
LEMMA OrderOfIds ==
  ASSUME NEW s, NEW p \in Order(s)
  PROVE  \E i, j \in DOMAIN s : i < j /\ p = <<s[i], s[j]>>
BY DEF Order

\* A new id on top lies over all others, whose order stays.
LEMMA AppendOrder ==
  ASSUME NEW S, NEW s \in Seq(S), Injective(s), NEW w \in S, w \notin Elems(s)
  PROVE  Order(Append(s, w)) = Order(s) \cup (Elems(s) \X {w})
<1> DEFINE t == Append(s, w)
           n == Len(s) + 1
<1>1. /\ t \in Seq(S) /\ DOMAIN t = 1 .. n /\ DOMAIN s = 1 .. n - 1 /\ n \in Nat \ {0}
      /\ \A i \in 1 .. n - 1 : t[i] = s[i]
      /\ t[n] = w
  OBVIOUS
<1>2. Injective(t)
  BY AppendNew
<1> HIDE DEF t, n
<1>3. ASSUME NEW p \in Order(t) PROVE p \in Order(s) \cup (Elems(s) \X {w})
  <2>1. PICK i \in DOMAIN t, j \in DOMAIN t : i < j /\ p = <<t[i], t[j]>>
    BY OrderOfIds
  <2>2. i \in 1 .. n - 1 /\ t[i] = s[i] /\ s[i] \in Elems(s)
    <3>1. i \in 1 .. n - 1
      BY <1>1, <2>1
    <3> QED
      BY <1>1, <3>1 DEF Elems
  <2>3. CASE j = n
    BY <1>1, <2>1, <2>2, <2>3
  <2>4. CASE j # n
    <3>1. j \in 1 .. n - 1 /\ t[j] = s[j]
      BY <1>1, <2>4
    <3>2. <<s[i], s[j]>> \in Order(s)
      BY <1>1, <2>1, <2>2, <3>1, OrderOfPlaces
    <3> QED
      BY <2>1, <2>2, <3>1, <3>2
  <2> QED
    BY <2>3, <2>4
<1>4. ASSUME NEW p \in Order(s) PROVE p \in Order(t)
  <2>1. PICK i \in DOMAIN s, j \in DOMAIN s : i < j /\ p = <<s[i], s[j]>>
    BY OrderOfIds
  <2>2. i \in DOMAIN t /\ j \in DOMAIN t /\ t[i] = s[i] /\ t[j] = s[j]
    BY <1>1
  <2> QED
    BY <1>1, <1>2, <2>1, <2>2, OrderOfPlaces
<1>5. ASSUME NEW p \in Elems(s) \X {w} PROVE p \in Order(t)
  <2>1. PICK i \in DOMAIN s : p[1] = s[i]
    BY DEF Elems
  <2>2. p = <<t[i], t[n]>> /\ i \in DOMAIN t /\ n \in DOMAIN t /\ i < n
    BY <1>1, <2>1
  <2> QED
    BY <1>1, <1>2, <2>2, OrderOfPlaces
<1> QED
  BY <1>3, <1>4, <1>5 DEF t

\* Erasing an id leaves the order of the others.
LEMMA EraseOrder ==
  ASSUME NEW S, NEW s \in Seq(S), Injective(s), NEW w \in Elems(s)
  PROVE  Order(Erase(s, w)) = Others(Order(s), w)
<1> DEFINE e == Erase(s, w)
<1>1. PICK k \in DOMAIN s : s[k] = w
  BY DEF Elems
<1>2. /\ e \in Seq(S) /\ DOMAIN e = 1 .. Len(s) - 1
      /\ \A j \in DOMAIN e : Up(k, j) \in DOMAIN s \ {k} /\ e[j] = s[Up(k, j)]
      /\ Injective(e)
  BY <1>1, EraseShape, EraseElems
<1>3. \A i \in DOMAIN s \ {k} : \E j \in DOMAIN e : Up(k, j) = i
  <2> TAKE i \in DOMAIN s \ {k}
  <2>1. CASE i < k
    BY <1>2, <2>1 DEF Up
  <2>2. CASE i > k
    <3>1. i - 1 \in DOMAIN e /\ ~(i - 1 < k) /\ (i - 1) + 1 = i
      BY <1>2, <2>2
    <3> QED
      BY <3>1 DEF Up
  <2> QED
    BY <2>1, <2>2
<1>4. \A i, j \in DOMAIN e : i < j <=> Up(k, i) < Up(k, j)
  BY <1>2 DEF Up
<1> HIDE DEF e
<1>5. ASSUME NEW p \in Order(e) PROVE p \in Others(Order(s), w)
  <2>1. PICK i \in DOMAIN e, j \in DOMAIN e : i < j /\ p = <<e[i], e[j]>>
    BY OrderOfIds
  <2>2. /\ Up(k, i) \in DOMAIN s \ {k} /\ Up(k, j) \in DOMAIN s \ {k}
        /\ Up(k, i) < Up(k, j) /\ p = <<s[Up(k, i)], s[Up(k, j)]>>
    BY <1>2, <1>4, <2>1
  <2>3. p \in Order(s)
    BY <2>2, OrderOfPlaces
  <2>4. p[1] # w /\ p[2] # w
    BY <1>1, <2>2 DEF Injective
  <2> QED
    BY <2>3, <2>4 DEF Others
<1>6. ASSUME NEW p \in Others(Order(s), w) PROVE p \in Order(e)
  <2>1. p \in Order(s) /\ p[1] # w /\ p[2] # w
    BY DEF Others
  <2>2. PICK i \in DOMAIN s, j \in DOMAIN s : i < j /\ p = <<s[i], s[j]>>
    BY <2>1, OrderOfIds
  <2>3. i # k /\ j # k
    BY <1>1, <2>1, <2>2
  <2>4. PICK a \in DOMAIN e, b \in DOMAIN e : Up(k, a) = i /\ Up(k, b) = j
    BY <1>3, <2>3
  <2>5. a < b /\ p = <<e[a], e[b]>>
    BY <1>2, <1>4, <2>2, <2>4
  <2> QED
    BY <1>2, <2>5, OrderOfPlaces
<1> QED
  BY <1>5, <1>6 DEF e

\* The top of a sequence lies over the others.
LEMMA TopOverAll ==
  ASSUME NEW S, NEW s \in Seq(S), Injective(s), s # <<>>
  PROVE  /\ Back(s) \in Elems(s)
         /\ \A v \in Elems(s) \ {Back(s)} : <<v, Back(s)>> \in Order(s)
<1>1. Len(s) \in DOMAIN s
  OBVIOUS
<1>2. ASSUME NEW v \in Elems(s) \ {Back(s)} PROVE <<v, Back(s)>> \in Order(s)
  <2>1. PICK i \in DOMAIN s : v = s[i]
    BY DEF Elems
  <2>2. i < Len(s)
    BY <2>1 DEF Back
  <2> QED
    BY <1>1, <2>1, <2>2, OrderOfPlaces DEF Back
<1> QED
  BY <1>1, <1>2 DEF Back, Elems

\* Below is the order of the z-order.
LEMMA BelowIs == ZOrderIsPermutation => Below = Order(m_z_order)
BY DEF ZOrderIsPermutation, Below, Order, Elems

\* The order after the invariant has been kept.
LEMMA StackIs ==
  ASSUME Inv
  PROVE  /\ m_z_order \in Seq(Ids) /\ Injective(m_z_order)
         /\ Elems(m_z_order) = WindowIds /\ Below = Order(m_z_order)
BY StackedInv, BelowIs DEF Inv, Stacked

\* create_window() opens a window.
LEMMA CreateOpens ==
  ASSUME NoWrap, Inv, NEW title \in Titles, NEW pos \in Positions,
         NEW size \in Sizes, CreateWindow(title, pos, size)
  PROVE  Stack!Next
<1> DEFINE w == m_next_id
<1>1. w \notin ever \cup {0} /\ w \in Ids /\ WindowIds \subseteq ever /\ Inv'
  BY CreateStep DEF Inv, TypeOK, IdInv
<1>2. /\ WindowIds' = WindowIds \cup {w} /\ m_focused_window' = w
      /\ ever' = ever \cup {w} /\ m_z_order' = Append(m_z_order, w)
  BY DEF CreateWindow, WindowIds
<1>3. Order(m_z_order') = Order(m_z_order) \cup (Elems(m_z_order) \X {w})
  BY <1>1, <1>2, StackIs, AppendOrder
<1>4. Below' = Order(m_z_order')
  BY <1>1, BelowIs DEF Inv, ZOrderIsPermutation, Below, Order, Elems
<1>5. Below' = Below \cup (WindowIds \X {w})
  BY <1>3, <1>4, StackIs
<1>6. Stack!Open(w)
  BY <1>1, <1>2, <1>5 DEF Stack!Open
<1> QED
  BY <1>1, <1>6 DEF Stack!Next

\* focus_window() and a click raise a window.
LEMMA RaiseRaises ==
  ASSUME Inv, Inv', NEW w \in WindowIds, UNCHANGED <<m_windows, ever>>,
         m_z_order' = Append(Erase(m_z_order, w), w), m_focused_window' = w
  PROVE  Stack!Next
<1> DEFINE e == Erase(m_z_order, w)
<1>1. w \in Ids /\ WindowIds' = WindowIds
  BY DEF Inv, TypeOK, WindowIds
<1>2. Below' = Order(m_z_order')
  BY DEF Inv, ZOrderIsPermutation, Below, Order, Elems
<1>3. /\ e \in Seq(Ids) /\ Injective(e) /\ Elems(e) = WindowIds \ {w}
      /\ Order(e) = Others(Below, w)
  <2>1. PICK k \in DOMAIN m_z_order : m_z_order[k] = w
    BY StackIs DEF Elems
  <2>2. /\ Erase(m_z_order, m_z_order[k]) \in Seq(Ids)
        /\ Injective(Erase(m_z_order, m_z_order[k]))
        /\ Elems(Erase(m_z_order, m_z_order[k])) = Elems(m_z_order) \ {m_z_order[k]}
    BY StackIs, EraseShape, EraseElems
  <2>3. Order(e) = Others(Order(m_z_order), w)
    BY StackIs, EraseOrder
  <2> QED
    BY <2>1, <2>2, <2>3, StackIs
<1> HIDE DEF e
<1>4. Order(Append(e, w)) = Order(e) \cup (Elems(e) \X {w})
  BY <1>1, <1>3, AppendOrder
<1>5. Below' = Others(Below, w) \cup ((WindowIds \ {w}) \X {w})
  BY <1>2, <1>3, <1>4 DEF e
<1>6. Stack!Raise(w)
  BY <1>1, <1>5 DEF Stack!Raise, Stack!Without, Others
<1> QED
  BY <1>1, <1>6 DEF Stack!Next

\* destroy_window() closes a window.
LEMMA DestroyCloses ==
  ASSUME Inv, NEW w \in WindowIds, DestroyWindow(w)
  PROVE  Stack!Next
<1>0. Inv'
  BY DestroyStep
<1>1. /\ w \in Ids /\ WindowIds' = WindowIds \ {w} /\ UNCHANGED ever
      /\ m_z_order' = Erase(m_z_order, w)
  BY DEF DestroyWindow, WindowIds, Inv, TypeOK, idVars
<1>2. Below' = Order(m_z_order')
  BY <1>0 DEF Inv, ZOrderIsPermutation, Below, Order, Elems
<1>3. Below' = Others(Below, w)
  BY <1>1, <1>2, StackIs, EraseOrder
<1>4. /\ m_z_order' \in Seq(Ids) /\ Injective(m_z_order')
      /\ Elems(m_z_order') = WindowIds \ {w}
      /\ m_focused_window' = IF m_z_order' = <<>> THEN 0 ELSE Back(m_z_order')
  BY <1>0, <1>1 DEF Inv, TypeOK, ZOrderIsPermutation, FocusOnTop, Injective, Elems
<1>5. m_focused_window' \in Stack!FocusOn(WindowIds \ {w}, Others(Below, w))
  <2>1. CASE m_z_order' = <<>>
    <3>1. WindowIds \ {w} = {}
      BY <1>4, <2>1 DEF Elems
    <3> QED
      BY <1>4, <2>1, <3>1 DEF Stack!FocusOn
  <2>2. CASE m_z_order' # <<>>
    <3>1. /\ Back(m_z_order') \in Elems(m_z_order')
          /\ \A v \in Elems(m_z_order') \ {Back(m_z_order')} :
               <<v, Back(m_z_order')>> \in Order(m_z_order')
      BY <1>4, <2>2, TopOverAll
    <3>2. WindowIds \ {w} # {}
      BY <1>4, <3>1
    <3> QED
      BY <1>2, <1>3, <1>4, <2>2, <3>1, <3>2 DEF Stack!FocusOn
  <2> QED
    BY <2>1, <2>2
<1>6. Stack!Close(w)
  BY <1>1, <1>3, <1>5 DEF Stack!Close, Stack!Without, Others
<1> QED
  BY <1>1, <1>6 DEF Stack!Next

\* What touches neither the map's keys nor the z-order nor the focus is no step
\* of the stack.
LEMMA Stutters ==
  ASSUME WindowIds' = WindowIds, UNCHANGED <<m_z_order, m_focused_window, ever>>
  PROVE  UNCHANGED Stack!vars
BY DEF Stack!vars, Below

\* Every call and every step of a handler is one of the stack, or none.
LEMMA StepMaps ==
  ASSUME NoWrap, Inv, [Next]_vars
  PROVE  [Stack!Next]_(Stack!vars)
<1>0. Inv'
  BY NextInv
<1>1. CASE UNCHANGED vars
  BY <1>1, Stutters DEF vars, stackVars, idVars, WindowIds
<1>2. ASSUME NEW t \in Titles, NEW p \in Positions, NEW d \in Sizes, CreateWindow(t, p, d)
      PROVE  Stack!Next
  BY <1>2, CreateOpens
<1>3. ASSUME NEW id \in WindowIds, DestroyWindow(id) PROVE Stack!Next
  BY <1>3, DestroyCloses
<1>4. ASSUME NEW id \in WindowIds, FocusWindow(id) PROVE Stack!Next
  <2>1. m_z_order' = Append(Erase(m_z_order, id), id)
    BY <1>4, OnTopStacked DEF FocusWindow
  <2> QED
    BY <1>0, <1>4, <2>1, RaiseRaises DEF FocusWindow, idVars
<1>5. ASSUME NEW id \in WindowIds,
             \/ \E p \in Positions : MoveWindow(id, p)
             \/ \E d \in Sizes : ResizeWindow(id, d)
             \/ \E b \in BOOLEAN : SetWindowSurface(id, b) \/ SetWindowVisibility(id, b)
      PROVE  UNCHANGED Stack!vars
  BY <1>5, Stutters DEF MoveWindow, ResizeWindow, SetWindowSurface,
     SetWindowVisibility, idVars, WindowIds
<1>6. ASSUME NEW h \in Handlers, Handle(h) PROVE [Stack!Next]_(Stack!vars)
  <2>1. CASE UNCHANGED stackVars /\ UNCHANGED idVars
    BY <2>1, Stutters DEF stackVars, idVars, WindowIds
  <2>2. CASE MouseClick(h) /\ Under(hev[h]) # {} /\ TopHit(hev[h]) # m_focused_window
    <3>1. TopHit(hev[h]) \in WindowIds
      BY <2>2, TopHitLive, StackIs DEF Inv
    <3> QED
      BY <1>0, <2>2, <3>1, RaiseRaises DEF MouseClick, idVars
  <2> QED
    BY <1>6, <2>1, <2>2 DEF Handle, MouseArrives, MouseRead, MouseWrite, MouseClick,
       stackVars
<1> QED
  BY <1>1, <1>2, <1>3, <1>4, <1>5, <1>6 DEF Next, Call

\* The window manager keeps the promise of IWindowManager, as long as the ids do
\* not wrap around: every call and every click opens, closes or raises one
\* window, or changes nothing of the stack.
THEOREM Refinement == NoWrap => (Spec => ImplementsStack)
<1> SUFFICES ASSUME NoWrap PROVE Spec => ImplementsStack
  OBVIOUS
<1>1. Init => Stack!Init
  BY DEF Init, Stack!Init, WindowIds, Below
<1>2. Inv /\ [Next]_vars => [Stack!Next]_(Stack!vars)
  BY StepMaps
<1> QED
  BY <1>1, <1>2, Invariance, PTL DEF Spec, ImplementsStack, Stack!Spec

-----------------------------------------------------------------------------
(* The desktop shell on the window manager. *)

\* What lies at the bottom stays there when another id is put on top.
LEMMA BottomStays ==
  ASSUME NEW S, NEW s \in Seq(S), Injective(s), s # <<>>
  PROVE  /\ \A w \in S : Append(s, w)[1] = s[1] /\ Append(s, w) # <<>>
         /\ \A w \in Elems(s) \ {s[1]} : Append(Erase(s, w), w)[1] = s[1]
<1>0. Len(s) \in Nat /\ 1 \in DOMAIN s /\ Len(s) >= 1
  OBVIOUS
<1>1. \A w \in S : Append(s, w)[1] = s[1] /\ Append(s, w) # <<>>
  BY <1>0
<1>2. ASSUME NEW w \in Elems(s) \ {s[1]} PROVE Append(Erase(s, w), w)[1] = s[1]
  <2>1. PICK k \in DOMAIN s : s[k] = w
    BY DEF Elems
  <2> DEFINE e == Erase(s, w)
  <2>2. e \in Seq(S) /\ Len(e) = Len(s) - 1
        /\ \A j \in 1 .. Len(s) - 1 : e[j] = s[Up(k, j)]
    <3>1. /\ Erase(s, s[k]) \in Seq(S) /\ Len(Erase(s, s[k])) = Len(s) - 1
          /\ \A j \in 1 .. Len(s) - 1 : Erase(s, s[k])[j] = s[Up(k, j)]
      BY EraseShape
    <3> QED
      BY <2>1, <3>1
  <2>3. k # 1 /\ k \in 1 .. Len(s)
    BY <2>1
  <2>4. 1 \in 1 .. Len(s) - 1 /\ Up(k, 1) = 1
    BY <1>0, <2>3 DEF Up
  <2>5. e[1] = s[1] /\ 1 \in 1 .. Len(e)
    BY <2>2, <2>4
  <2> HIDE DEF e
  <2> QED
    BY <2>2, <2>5 DEF e
<1> QED
  BY <1>1, <1>2

\* The window the hit test picks takes clicks.
LEMMA TopHitClickable ==
  ASSUME TypeOK, NEW ev, Under(ev) # {}
  PROVE  TopHit(ev) \in Elems(m_z_order) /\ Clickable(TopHit(ev), ev)
<1>1. Under(ev) \subseteq DOMAIN m_z_order
  BY DEF Under
<1>2. Len(m_z_order) \in Nat /\ Under(ev) \subseteq 1 .. Len(m_z_order)
  BY <1>1 DEF TypeOK
<1>3. PICK i \in Under(ev) : \A j \in Under(ev) : j <= i
  BY <1>2, LargestIndex
<1>4. \E k \in Under(ev) : TopHit(ev) = m_z_order[k]
  BY <1>3 DEF TopHit
<1> QED
  BY <1>4 DEF Elems, Under

\* A step of the desktop is one of the window manager, or none.
LEMMA DesktopCalls ==
  ASSUME DesktopInv, [DesktopNext]_<<vars, desktopVars>>
  PROVE  [Next]_vars
<1>1. ASSUME Launch PROVE [Next]_vars
  <2>1. ASSUME LaunchCall PROVE Call
    <3> USE DEF SetWindowSurface, SetWindowVisibility
    <3>1. /\ SetWindowSurface(m_wallpaper_id, TRUE) => Call
          /\ SetWindowSurface(m_taskbar_id, TRUE) => Call
          /\ SetWindowSurface(m_launcher_id, TRUE) => Call
          /\ SetWindowVisibility(m_launcher_id, FALSE) => Call
      BY DEF Call
    <3>2. CASE mpc \in {0, 2, 4}
      BY <2>1, <3>2, DesktopShellAssumption DEF LaunchCall, Call
    <3> QED
      BY <2>1, <3>1, <3>2 DEF LaunchCall
  <2>2. ASSUME LaunchApp PROVE Call
    <3>1. ASSUME CreateWindow("Terminal", <<100, 100>>, <<600, 400>>)
          PROVE  Call
      BY <3>1, DesktopShellAssumption DEF Call
    <3>2. ASSUME SetWindowSurface(m_focused_window, TRUE)
          PROVE  Call
      BY <3>2 DEF Call, SetWindowSurface
    <3> QED
      BY <2>2, <3>1, <3>2 DEF LaunchApp
  <2> QED
    BY <1>1, <2>1, <2>2 DEF Launch, Next
<1>2. ASSUME NEW w \in Workers, Work(w) PROVE [Next]_vars
  <2> USE DEF Workers
  <2>1. ASSUME Dispatch(w) PROVE Handle(w)
    <3>1. Head(queue) \in MouseEvents /\ MouseArrives(w, Head(queue))
      BY <2>1 DEF Dispatch, DesktopInv, DesktopTypeOK
    <3> QED
      BY <3>1 DEF Handle
  <2>2. ASSUME HandleFocus(w) PROVE Handle(w)
    BY <2>2 DEF HandleFocus, Handle
  <2>3. ASSUME ShowLauncher(w) PROVE Call
    <3>1. wclick[w] \in BOOLEAN
      BY DEF DesktopInv, DesktopTypeOK
    <3>2. SetWindowVisibility(m_launcher_id, wclick[w]) /\ m_launcher_id \in WindowIds
      BY <2>3 DEF ShowLauncher, SetWindowVisibility
    <3> QED
      BY <3>1, <3>2 DEF Call
  <2>4. ASSUME ShellRead(w) \/ ShellWrite(w) \/ Toggle(w) PROVE UNCHANGED vars
    BY <2>4 DEF ShellRead, ShellWrite, Toggle
  <2> QED
    BY <1>2, <2>1, <2>2, <2>3, <2>4 DEF Work, Next
<1>3. ASSUME \/ \E ev \in MouseEvents : Poll(ev)
             \/ UpdateFrame \/ EndUpdate \/ RenderFrame
      PROVE  UNCHANGED vars
  BY <1>3 DEF Poll, UpdateFrame, EndUpdate, RenderFrame
<1> QED
  BY <1>1, <1>2, <1>3 DEF DesktopNext

\* What a step other than launch() leaves of the windows: their number, their
\* titles, and what is at the bottom.
LEMMA WindowsStay ==
  ASSUME DesktopInv, NEW w \in Workers, Work(w)
  PROVE  /\ UNCHANGED <<idVars, m_wallpaper_id, m_taskbar_id, m_launcher_id, mpc>>
         /\ WindowIds' = WindowIds
         /\ \A id \in WindowIds : m_windows'[id].title = m_windows[id].title
         /\ ~ShowLauncher(w) => m_windows' = m_windows
<1> USE DEF vars, stackVars, idVars, shellVars, mainVars, WindowIds
<1>1. CASE Dispatch(w)
  BY <1>1 DEF Dispatch, MouseArrives
<1>2. CASE HandleFocus(w)
  BY <1>2 DEF HandleFocus, MouseRead, MouseWrite, MouseClick
<1>3. CASE ShowLauncher(w)
  <2>1. /\ m_windows' = [m_windows EXCEPT ![m_launcher_id].visible = wclick[w]]
        /\ UNCHANGED idVars
    BY <1>3 DEF ShowLauncher, SetWindowVisibility
  <2>2. m_windows \in [WindowIds -> WindowState]
    BY DEF DesktopInv, Inv, TypeOK
  <2>3. \A id \in WindowIds : m_windows'[id].title = m_windows[id].title
    BY <2>1, <2>2 DEF WindowState
  <2> QED
    BY <1>3, <2>1, <2>2, <2>3 DEF ShowLauncher
<1>4. CASE ShellRead(w) \/ ShellWrite(w) \/ Toggle(w)
  BY <1>4 DEF ShellRead, ShellWrite, Toggle
<1> QED
  BY <1>1, <1>2, <1>3, <1>4 DEF Work

\* What create_window() does to the windows when the new one is ws.
Creating(ws) ==
  /\ created < MaxCreates /\ created' = created + 1
  /\ m_windows' = [w \in WindowIds \cup {m_next_id} |->
                    IF w = m_next_id THEN ws ELSE m_windows[w]]
  /\ m_z_order' = Append(m_z_order, m_next_id)

\* create_window() in launch(): the next number, and a title.
LEMMA Creates ==
  ASSUME NoWrap, Inv, NEW ws, Creating(ws)
  PROVE  /\ m_next_id = created + 1 /\ created' = created + 1 /\ created \in Nat
         /\ WindowIds' = WindowIds \cup {created + 1}
         /\ m_windows'[created + 1] = ws
         /\ \A id \in WindowIds \ {created + 1} : m_windows'[id] = m_windows[id]
         /\ m_z_order' = Append(m_z_order, created + 1)
<1>1. created \in Nat /\ created < MaxCreates /\ MaxCreates < IdModulus
      /\ IdModulus \in Nat \ {0} /\ MaxCreates \in Nat
  BY WindowManagerAssumption DEF Creating, Inv, TypeOK, NoWrap
<1>2. m_next_id = created + 1
  <2>1. created + 1 \in Nat /\ created + 1 < IdModulus
    BY <1>1
  <2>2. (created + 1) % IdModulus = created + 1
    BY <1>1, <2>1, ModSmall
  <2> QED
    BY <2>2 DEF Inv, IdInv
<1>3. WindowIds' = WindowIds \cup {created + 1}
  BY <1>2 DEF Creating, WindowIds
<1> QED
  BY <1>1, <1>2, <1>3 DEF Creating

\* A change of the surface or of the visibility leaves the rest.
LEMMA Sets ==
  ASSUME Inv, NEW id, NEW b,
         SetWindowSurface(id, b) \/ SetWindowVisibility(id, b)
  PROVE  /\ id \in WindowIds /\ WindowIds' = WindowIds
         /\ \A i \in WindowIds : m_windows'[i].title = m_windows[i].title
         /\ \A i \in WindowIds \ {id} : m_windows'[i] = m_windows[i]
         /\ UNCHANGED <<m_z_order, m_focused_window, idVars>>
<1>1. m_windows \in [WindowIds -> WindowState]
  BY DEF Inv, TypeOK
<1>2. \/ m_windows' = [m_windows EXCEPT ![id].surface = b]
      \/ m_windows' = [m_windows EXCEPT ![id].visible = b]
  BY DEF SetWindowSurface, SetWindowVisibility
<1> QED
  BY <1>1, <1>2 DEF SetWindowSurface, SetWindowVisibility, WindowIds, WindowState

\* Each call of launch() creates the next window, or changes the surface or the
\* visibility of one.
LEMMA LaunchShape ==
  ASSUME NoWrap, DesktopInv, Launch
  PROVE  LaunchInv'
<1> USE DEF Launched, LaunchCalls
<1>0. /\ mpc \in 0 .. 8 /\ mpc' = mpc + 1
      /\ UNCHANGED <<queue, wpc, m_launcher_visible>>
  BY DEF Launch, LaunchCall, LaunchApp, workerVars, SetWindowSurface, SetWindowVisibility
<1>1. Busy' = Busy
  BY <1>0 DEF Busy
<1>2. Inv /\ LaunchInv
  BY DEF DesktopInv
<1>3. ~Launched /\ queue = <<>> /\ Busy = {} /\ ~m_launcher_visible
  BY <1>0, <1>2 DEF LaunchInv
<1>4. CASE mpc = 0
  <2> DEFINE ws == [title |-> "Wallpaper", pos |-> <<0, 0>>,
                    size |-> <<1920, 1080>>, surface |-> FALSE, visible |-> TRUE]
  <2>1. /\ Creating(ws) /\ ws.title = "Wallpaper"
        /\ m_wallpaper_id' = m_next_id /\ UNCHANGED <<m_taskbar_id, m_launcher_id>>
    BY <1>4 DEF Launch, LaunchCall, LaunchApp, SetWindowSurface, SetWindowVisibility,
       CreateWindow, Creating
  <2> HIDE DEF ws
  <2>2. /\ m_next_id = created + 1 /\ created' = created + 1
        /\ WindowIds' = WindowIds \cup {created + 1}
        /\ m_windows'[created + 1] = ws
        /\ \A id \in WindowIds \ {created + 1} : m_windows'[id] = m_windows[id]
    BY <1>2, <2>1, Creates
  <2> QED
    BY <1>0, <1>1, <1>2, <1>3, <1>4, <2>1, <2>2 DEF LaunchInv
<1>5. CASE mpc = 2
  <2> DEFINE ws == [title |-> "Taskbar", pos |-> <<0, 1040>>,
                    size |-> <<1920, 40>>, surface |-> FALSE, visible |-> TRUE]
  <2>1. /\ Creating(ws) /\ ws.title = "Taskbar"
        /\ m_taskbar_id' = m_next_id /\ UNCHANGED <<m_wallpaper_id, m_launcher_id>>
    BY <1>5 DEF Launch, LaunchCall, LaunchApp, SetWindowSurface, SetWindowVisibility,
       CreateWindow, Creating
  <2> HIDE DEF ws
  <2>2. /\ m_next_id = created + 1 /\ created' = created + 1
        /\ WindowIds' = WindowIds \cup {created + 1}
        /\ m_windows'[created + 1] = ws
        /\ \A id \in WindowIds \ {created + 1} : m_windows'[id] = m_windows[id]
    BY <1>2, <2>1, Creates
  <2> QED
    BY <1>0, <1>1, <1>2, <1>3, <1>5, <2>1, <2>2 DEF LaunchInv
<1>6. CASE mpc = 4
  <2> DEFINE ws == [title |-> "Launcher", pos |-> <<10, 640>>,
                    size |-> <<300, 400>>, surface |-> FALSE, visible |-> TRUE]
  <2>1. /\ Creating(ws) /\ ws.title = "Launcher"
        /\ m_launcher_id' = m_next_id /\ UNCHANGED <<m_wallpaper_id, m_taskbar_id>>
    BY <1>6 DEF Launch, LaunchCall, LaunchApp, SetWindowSurface, SetWindowVisibility,
       CreateWindow, Creating
  <2> HIDE DEF ws
  <2>2. /\ m_next_id = created + 1 /\ created' = created + 1
        /\ WindowIds' = WindowIds \cup {created + 1}
        /\ m_windows'[created + 1] = ws
        /\ \A id \in WindowIds \ {created + 1} : m_windows'[id] = m_windows[id]
    BY <1>2, <2>1, Creates
  <2> QED
    BY <1>0, <1>1, <1>2, <1>3, <1>6, <2>1, <2>2 DEF LaunchInv
<1>7. CASE mpc = 7
  <2> DEFINE ws == [title |-> "Terminal", pos |-> <<100, 100>>,
                    size |-> <<600, 400>>, surface |-> FALSE, visible |-> TRUE]
  <2>1. /\ Creating(ws) /\ ws.title = "Terminal"
        /\ UNCHANGED <<m_wallpaper_id, m_taskbar_id, m_launcher_id>>
    BY <1>7 DEF Launch, LaunchCall, LaunchApp, SetWindowSurface, SetWindowVisibility,
       CreateWindow, Creating
  <2> HIDE DEF ws
  <2>2. /\ created' = created + 1
        /\ WindowIds' = WindowIds \cup {created + 1}
        /\ \A id \in WindowIds \ {created + 1} : m_windows'[id] = m_windows[id]
    BY <1>2, <2>1, Creates
  <2> QED
    BY <1>0, <1>1, <1>2, <1>3, <1>7, <2>1, <2>2 DEF LaunchInv
<1>8. CASE mpc \in {1, 3, 5, 6, 8}
  <2>1. UNCHANGED <<m_wallpaper_id, m_taskbar_id, m_launcher_id>>
    BY <1>8 DEF Launch, LaunchCall, LaunchApp, SetWindowSurface, SetWindowVisibility
  <2>2. \E id, b : SetWindowSurface(id, b) \/ SetWindowVisibility(id, b)
    BY <1>8 DEF Launch, LaunchCall, LaunchApp, SetWindowSurface, SetWindowVisibility
  <2>3. /\ WindowIds' = WindowIds /\ UNCHANGED created
        /\ \A i \in WindowIds : m_windows'[i].title = m_windows[i].title
    BY <1>2, <2>2, Sets DEF idVars
  <2> QED
    BY <1>0, <1>1, <1>2, <1>3, <1>8, <2>1, <2>3 DEF LaunchInv
<1> QED
  BY <1>0, <1>4, <1>5, <1>6, <1>7, <1>8

\* launch() creates a window in these calls.
LEMMA LaunchCreates ==
  ASSUME Launch, mpc \in {0, 2, 4, 7}
  PROVE  \E ws : Creating(ws)
<1>1. CASE mpc = 0
  <2> DEFINE ws == [title |-> "Wallpaper", pos |-> <<0, 0>>,
                    size |-> <<1920, 1080>>, surface |-> FALSE, visible |-> TRUE]
  <2>1. Creating(ws)
    BY <1>1 DEF Launch, LaunchCall, LaunchApp, SetWindowSurface, SetWindowVisibility,
       CreateWindow, Creating
  <2> QED
    BY <2>1
<1>2. CASE mpc = 2
  <2> DEFINE ws == [title |-> "Taskbar", pos |-> <<0, 1040>>,
                    size |-> <<1920, 40>>, surface |-> FALSE, visible |-> TRUE]
  <2>1. Creating(ws)
    BY <1>2 DEF Launch, LaunchCall, LaunchApp, SetWindowSurface, SetWindowVisibility,
       CreateWindow, Creating
  <2> QED
    BY <2>1
<1>3. CASE mpc = 4
  <2> DEFINE ws == [title |-> "Launcher", pos |-> <<10, 640>>,
                    size |-> <<300, 400>>, surface |-> FALSE, visible |-> TRUE]
  <2>1. Creating(ws)
    BY <1>3 DEF Launch, LaunchCall, LaunchApp, SetWindowSurface, SetWindowVisibility,
       CreateWindow, Creating
  <2> QED
    BY <2>1
<1>4. CASE mpc = 7
  <2> DEFINE ws == [title |-> "Terminal", pos |-> <<100, 100>>,
                    size |-> <<600, 400>>, surface |-> FALSE, visible |-> TRUE]
  <2>1. Creating(ws)
    BY <1>4 DEF Launch, LaunchCall, LaunchApp, SetWindowSurface, SetWindowVisibility,
       CreateWindow, Creating
  <2> QED
    BY <2>1
<1> QED
  BY <1>1, <1>2, <1>3, <1>4

\* The focus is at the bottom only when the bottom is the top.
LEMMA BottomFocus ==
  ASSUME NEW z \in Seq(Ids), Injective(z), z # <<>>
  PROVE  Back(z) = z[1] => Len(z) = 1
<1>1. Len(z) \in Nat /\ 1 \in DOMAIN z /\ Len(z) \in DOMAIN z
  OBVIOUS
<1> QED
  BY <1>1 DEF Injective, Back

\* The wallpaper is the first window, and so at the bottom of the others.
LEMMA LaunchBottom ==
  ASSUME NoWrap, DesktopInv, Launch
  PROVE  WallpaperAtBottom'
<1> USE DEF Launched, LaunchCalls
<1>0. mpc \in 0 .. 8 /\ mpc' = mpc + 1
  BY DEF Launch, LaunchCall, LaunchApp, SetWindowSurface, SetWindowVisibility
<1>1. LaunchInv' /\ Inv'
  BY LaunchShape, DesktopCalls, NextInv DEF DesktopInv, DesktopNext
<1>2. m_wallpaper_id' = 1
  BY <1>0, <1>1 DEF LaunchInv
<1>3. /\ m_z_order' \in Seq(Ids) /\ Injective(m_z_order')
      /\ m_z_order' # <<>> => m_focused_window' = Back(m_z_order')
  BY <1>1 DEF Inv, TypeOK, ZOrderIsPermutation, FocusOnTop, Injective
<1>4. /\ Inv /\ LaunchInv /\ WallpaperAtBottom
      /\ m_z_order \in Seq(Ids) /\ Injective(m_z_order)
      /\ Elems(m_z_order) = WindowIds
  BY StackIs DEF DesktopInv
<1>5. m_z_order' # <<>> /\ m_z_order'[1] = 1
  <2>1. CASE mpc \in {0, 2, 4, 7}
    <3>1. \E ws : Creating(ws)
      BY <2>1, LaunchCreates
    <3>2. m_z_order' = Append(m_z_order, created + 1) /\ m_next_id = created + 1
      BY <1>4, <3>1, Creates
    <3>3. m_next_id \in Ids
      BY <1>4 DEF Inv, TypeOK
    <3>4. CASE mpc = 0
      <4>1. created = 0 /\ WindowIds = {}
        BY <1>4, <3>4 DEF LaunchInv
      <4>2. m_z_order = <<>>
        BY <1>4, <4>1 DEF Elems
      <4> QED
        BY <3>2, <3>3, <4>1, <4>2
    <3>5. CASE mpc # 0
      <4>1. 1 \in WindowIds /\ m_wallpaper_id = 1
        BY <1>0, <1>4, <3>5 DEF LaunchInv
      <4>2. m_z_order # <<>> /\ m_z_order[1] = 1
        BY <1>4, <4>1 DEF Elems, WallpaperAtBottom
      <4> QED
        BY <1>4, <3>2, <3>3, <4>2, BottomStays
    <3> QED
      BY <3>4, <3>5
  <2>2. CASE mpc \in {1, 3, 5, 6, 8}
    <3>1. UNCHANGED m_z_order
      BY <2>2 DEF Launch, LaunchCall, LaunchApp, SetWindowSurface, SetWindowVisibility
    <3>2. 1 \in WindowIds /\ m_wallpaper_id = 1
      BY <1>0, <1>4, <2>2 DEF LaunchInv
    <3> QED
      BY <1>4, <3>1, <3>2 DEF Elems, WallpaperAtBottom
  <2> QED
    BY <1>0, <2>1, <2>2
<1>6. m_focused_window' = 1 => Len(m_z_order') = 1
  BY <1>3, <1>5, BottomFocus
<1> QED
  BY <1>2, <1>5, <1>6 DEF WallpaperAtBottom

\* The launcher is created, hidden, and left alone.
LEMMA LaunchHides ==
  ASSUME NoWrap, DesktopInv, Launch
  PROVE  LauncherInv' /\ FrameInv'
<1> USE DEF Launched, LaunchCalls
<1>0. /\ mpc \in 0 .. 8 /\ mpc' = mpc + 1
      /\ UNCHANGED <<m_launcher_visible, m_mutex, wpc, wclick, toggles, blank>>
  BY DEF Launch, LaunchCall, LaunchApp, workerVars, SetWindowSurface, SetWindowVisibility
<1>1. LaunchInv /\ LaunchInv' /\ LauncherInv /\ Inv
  BY LaunchShape DEF DesktopInv
<1>2. ~m_launcher_visible /\ \A w \in Workers : wpc[w] = "idle"
  BY <1>0, <1>1 DEF LaunchInv, Busy
<1>3. FrameInv'
  BY <1>0 DEF DesktopInv, FrameInv, ShownIsDrawn, Drawing, Rendering
<1>4. mpc' >= 7 => m_windows'[3].visible = m_launcher_visible
  <2>w. m_windows \in [WindowIds -> WindowState]
    BY <1>1 DEF Inv, TypeOK
  <2>1. CASE mpc = 6
    <3>1. 3 \in WindowIds /\ m_launcher_id = 3
      BY <1>1, <2>1 DEF LaunchInv
    <3>2. m_windows' = [m_windows EXCEPT ![3].visible = FALSE]
      BY <2>1, <3>1 DEF Launch, LaunchCall, LaunchApp, SetWindowSurface, SetWindowVisibility
    <3>3. m_windows'[3].visible = FALSE
      BY <2>w, <3>1, <3>2 DEF WindowState
    <3> QED
      BY <1>0, <1>2, <3>3 DEF DesktopInv, DesktopTypeOK
  <2>2. CASE mpc = 7
    <3>1. \E ws : Creating(ws)
      BY <2>2, LaunchCreates
    <3>2. created = 3 /\ 3 \in WindowIds /\ m_launcher_id = 3
      BY <1>1, <2>2 DEF LaunchInv
    <3>3. m_windows'[3] = m_windows[3]
      BY <1>1, <3>1, <3>2, Creates
    <3> QED
      BY <1>0, <1>1, <1>2, <2>2, <3>2, <3>3 DEF LauncherInv
  <2>3. CASE mpc = 8
    <3>1. 3 \in WindowIds /\ m_launcher_id = 3
      BY <1>1, <2>3 DEF LaunchInv
    <3>2. m_windows' = [m_windows EXCEPT ![m_focused_window].surface = TRUE]
      BY <2>3 DEF Launch, LaunchCall, LaunchApp, SetWindowSurface, SetWindowVisibility
    <3>3. m_windows'[3].visible = m_windows[3].visible
      BY <2>w, <3>1, <3>2 DEF WindowState
    <3> QED
      BY <1>0, <1>1, <1>2, <2>3, <3>1, <3>3 DEF LauncherInv
  <2> QED
    BY <1>0, <2>1, <2>2, <2>3
<1>5. mpc' >= 7 => m_launcher_id' = 3
  BY <1>0, <1>1 DEF LaunchInv
<1> QED
  BY <1>0, <1>1, <1>3, <1>4, <1>5 DEF LauncherInv

\* What the main thread does after launch() leaves the windows alone; it holds
\* m_mutex from the moment it looks at m_launcher_visible to the end of the
\* drawing.
LEMMA FrameStep ==
  ASSUME DesktopInv, \/ \E ev \in MouseEvents : Poll(ev)
                     \/ UpdateFrame \/ EndUpdate \/ RenderFrame
  PROVE  LaunchInv' /\ WallpaperAtBottom' /\ LauncherInv' /\ FrameInv'
<1> USE DEF Launched, LaunchCalls, Polling, Drawing, Rendering
<1>0. /\ UNCHANGED <<vars, m_wallpaper_id, m_taskbar_id, m_launcher_id,
                     m_launcher_visible, wpc, wclick, toggles>>
      /\ mpc \in 9 .. 11 /\ mpc' \in 9 .. 11
  BY DEF Poll, UpdateFrame, EndUpdate, RenderFrame, shellVars, workerVars
<1>1. LaunchInv /\ LauncherInv /\ FrameInv /\ WallpaperAtBottom
      /\ (mpc = 10 <=> m_mutex = Main)
  BY DEF DesktopInv, DesktopTypeOK
<1>2. None \notin Workers /\ Main \notin Workers /\ None # Main
  BY DesktopShellAssumption DEF Workers
<1>3. UNCHANGED <<created, m_windows, WindowIds, m_z_order, m_focused_window>>
  BY <1>0 DEF vars, stackVars, idVars, WindowIds
<1>4. LaunchInv'
  BY <1>0, <1>1, <1>3 DEF LaunchInv
<1>5. WallpaperAtBottom'
  BY <1>0, <1>1, <1>3 DEF WallpaperAtBottom
<1>6. LauncherInv'
  <2>1. \/ m_mutex' = m_mutex
        \/ m_mutex \in {None, Main} /\ m_mutex' \in {None, Main}
    BY <1>1 DEF Poll, UpdateFrame, EndUpdate, RenderFrame, shellVars
  <2>2. \A w \in Workers : wpc[w] = "show" <=> m_mutex' = w
    BY <1>1, <1>2, <2>1 DEF LauncherInv
  <2> QED
    BY <1>0, <1>1, <1>3, <2>2 DEF LauncherInv
<1>7. FrameInv'
  <2>1. CASE \E ev \in MouseEvents : Poll(ev)
    BY <2>1, <1>0, <1>1, <1>3 DEF Poll, FrameInv, ShownIsDrawn, frameVars
  <2>2. CASE UpdateFrame
    <3>1. \A w \in Workers : wpc[w] # "show"
      BY <1>1, <1>2, <2>2 DEF UpdateFrame, LauncherInv
    <3>2. m_windows[m_launcher_id].visible = m_launcher_visible
      BY <1>0, <1>1, <3>1 DEF LauncherInv
    <3>3. /\ painted' = painted \cup {"wallpaper", "taskbar"}
                        \cup (IF m_launcher_visible THEN {"launcher"} ELSE {})
          /\ UNCHANGED blank /\ mpc' = 10
      BY <2>2 DEF UpdateFrame
    <3> QED
      BY <1>0, <1>1, <1>3, <3>2, <3>3 DEF FrameInv, ShownIsDrawn
  <2>3. CASE EndUpdate
    <3>1. \A w \in Workers : wpc[w] # "show"
      BY <1>1, <1>2, <2>3 DEF EndUpdate, LauncherInv
    <3>2. mpc >= 7
      BY <1>0
    <3>3. m_windows[m_launcher_id].visible = m_launcher_visible
      BY <1>1, <3>1, <3>2 DEF LauncherInv
    <3>4. painted' = painted /\ blank' = blank /\ mpc = 10 /\ mpc' = 11
      BY <2>3 DEF EndUpdate, frameVars
    <3> QED
      BY <1>0, <1>1, <1>3, <3>3, <3>4 DEF FrameInv, ShownIsDrawn
  <2>4. CASE RenderFrame
    <3>1. /\ mpc = 11 /\ mpc' = 9 /\ painted' = painted
          /\ blank' = IF m_windows[m_launcher_id].visible /\ "launcher" \notin painted
                      THEN blank + 1 ELSE 0
      BY <2>4 DEF RenderFrame
    <3>2. blank \in Nat /\ blank <= 1
      BY <1>1 DEF DesktopInv, DesktopTypeOK, FrameInv, ShownIsDrawn
    <3>3. blank = 1 => "launcher" \in painted
      BY <1>1, <3>1 DEF FrameInv
    <3>4. blank' \in {0, 1} /\ (blank' = 1 => m_windows[m_launcher_id].visible)
      BY <3>1, <3>2, <3>3
    <3> QED
      BY <1>0, <1>3, <3>1, <3>4 DEF FrameInv, ShownIsDrawn
  <2> QED
    BY <2>1, <2>2, <2>3, <2>4
<1> QED
  BY <1>4, <1>5, <1>6, <1>7

\* A worker runs only once something was published.
LEMMA WorkLaunched ==
  ASSUME DesktopInv, NEW w \in Workers, Work(w)
  PROVE  Launched
<1>1. wpc[w] # "idle" \/ queue # <<>>
  BY DEF Work, Dispatch, HandleFocus, ShellRead, ShellWrite, Toggle, ShowLauncher
<1> QED
  BY <1>1 DEF DesktopInv, LaunchInv, Busy

\* A click raises no window but one that is not the wallpaper.
LEMMA WorkBottom ==
  ASSUME DesktopInv, Inv', NEW w \in Workers, Work(w)
  PROVE  WallpaperAtBottom'
<1> USE DEF Launched, LaunchCalls
<1>1. /\ Inv /\ LaunchInv /\ WallpaperAtBottom
      /\ m_z_order \in Seq(Ids) /\ Injective(m_z_order)
      /\ Elems(m_z_order) = WindowIds
  BY StackIs DEF DesktopInv
<1>2. /\ m_wallpaper_id = 1 /\ 1 \in WindowIds /\ m_windows[1].title = "Wallpaper"
      /\ UNCHANGED m_wallpaper_id
  BY <1>1, WorkLaunched, WindowsStay DEF LaunchInv
<1>3. m_z_order # <<>> /\ m_z_order[1] = 1
  BY <1>1, <1>2 DEF WallpaperAtBottom, Elems
<1>4. m_z_order' # <<>> /\ m_z_order'[1] = 1
  <2>1. CASE UNCHANGED m_z_order
    BY <1>3, <2>1
  <2>2. CASE ~UNCHANGED m_z_order
    <3>1. HandleFocus(w)
      BY <2>2 DEF Work, Dispatch, MouseArrives, ShellRead, ShellWrite, Toggle,
         ShowLauncher, SetWindowVisibility, vars, stackVars
    <3>2. MouseClick(w)
      BY <2>2, <3>1 DEF HandleFocus, MouseRead, MouseWrite, stackVars
    <3> DEFINE t == TopHit(hev[w])
    <3>3. m_z_order' = Append(Erase(m_z_order, t), t) /\ Under(hev[w]) # {}
      BY <2>2, <3>2 DEF MouseClick
    <3>4. t \in Elems(m_z_order) /\ Clickable(t, hev[w])
      BY <1>1, <3>3, TopHitClickable DEF Inv
    <3>5. t # m_z_order[1]
      BY <1>2, <1>3, <3>4 DEF Clickable
    <3> HIDE DEF t
    <3>6. Append(Erase(m_z_order, t), t)[1] = m_z_order[1]
      BY <1>1, <1>3, <3>4, <3>5, BottomStays
    <3>7. Append(Erase(m_z_order, t), t) # <<>>
      BY <1>1, <3>4, Raised
    <3> QED
      BY <1>3, <3>3, <3>6, <3>7
  <2> QED
    BY <2>1, <2>2
<1>5. /\ m_z_order' \in Seq(Ids) /\ Injective(m_z_order')
      /\ m_focused_window' = Back(m_z_order')
  BY <1>4 DEF Inv, TypeOK, ZOrderIsPermutation, FocusOnTop, Injective
<1>6. m_focused_window' = 1 => Len(m_z_order') = 1
  BY <1>4, <1>5, BottomFocus
<1> QED
  BY <1>2, <1>4, <1>6 DEF WallpaperAtBottom

\* The windows of launch() stay, and so does the order of the first event.
LEMMA WorkShape ==
  ASSUME DesktopInv, NEW w \in Workers, Work(w)
  PROVE  LaunchInv'
<1> USE DEF Launched, LaunchCalls
<1>1. LaunchInv /\ mpc >= 9
  BY WorkLaunched DEF DesktopInv
<1>2. UNCHANGED <<created, mpc, m_wallpaper_id, m_taskbar_id, m_launcher_id>>
  BY WindowsStay DEF idVars
<1>3. /\ WindowIds' = WindowIds
      /\ \A id \in WindowIds : m_windows'[id].title = m_windows[id].title
  BY WindowsStay
<1>4. mpc \in 9 .. 11 /\ 1 \in WindowIds
  BY <1>1 DEF LaunchInv, DesktopInv, DesktopTypeOK
<1> QED
  BY <1>1, <1>2, <1>3, <1>4 DEF LaunchInv

\* One worker at a time is between the two assignments; the others, and the
\* main thread when it draws, wait.
LEMMA WorkLauncher ==
  ASSUME DesktopInv, NEW w \in Workers, Work(w)
  PROVE  LauncherInv' /\ FrameInv'
<1> USE DEF Launched, LaunchCalls, Polling, Drawing, Rendering
<1>1. /\ LauncherInv /\ FrameInv /\ LaunchInv /\ mpc \in 9 .. 11
      /\ (mpc = 10 <=> m_mutex = Main)
  BY WorkLaunched DEF DesktopInv, DesktopTypeOK
<1>2. /\ wpc \in [Workers -> {"idle", "wm", "read", "write", "lock", "show"}]
      /\ wclick \in [Workers -> BOOLEAN]
      /\ m_windows \in [WindowIds -> WindowState]
      /\ m_launcher_visible \in BOOLEAN /\ blank \in Nat /\ toggles \in Nat
  BY DEF DesktopInv, DesktopTypeOK, Inv, TypeOK
<1>3. None \notin Workers /\ Main \notin Workers /\ None # Main
  BY DesktopShellAssumption DEF Workers
<1>4. /\ m_launcher_id = 3 /\ 3 \in WindowIds
      /\ UNCHANGED <<m_launcher_id, mpc>>
  BY <1>1, WindowsStay DEF LaunchInv
<1>5. CASE Dispatch(w) \/ HandleFocus(w) \/ ShellRead(w) \/ ShellWrite(w)
  <2>1. m_windows' = m_windows
    BY <1>5 DEF Dispatch, MouseArrives, HandleFocus, MouseRead, MouseWrite, MouseClick,
       ShellRead, ShellWrite, vars, stackVars
  <2>2. UNCHANGED <<m_mutex, m_launcher_visible, toggles, painted, blank>>
    BY <1>5 DEF Dispatch, HandleFocus, ShellRead, ShellWrite, shellVars, frameVars
  <2>3. \A v \in Workers : wpc'[v] = "show" <=> wpc[v] = "show"
    BY <1>2, <1>5 DEF Dispatch, HandleFocus, ShellRead, ShellWrite
  <2>4. \A v \in Workers : wpc[v] = "show" => wclick'[v] = wclick[v]
    BY <1>2, <1>5 DEF Dispatch, HandleFocus, ShellRead, ShellWrite
  <2>5. LauncherInv'
    BY <1>1, <1>4, <2>1, <2>2, <2>3, <2>4 DEF LauncherInv
  <2>6. FrameInv'
    BY <1>1, <1>4, <2>1, <2>2 DEF FrameInv, ShownIsDrawn
  <2> QED
    BY <2>5, <2>6
<1>6. CASE Toggle(w)
  <2>1. /\ m_mutex = None /\ m_mutex' = w
        /\ m_launcher_visible' = ~m_launcher_visible
        /\ wpc' = [wpc EXCEPT ![w] = "show"]
        /\ wclick' = [wclick EXCEPT ![w] = m_launcher_visible']
        /\ toggles' = toggles + 1
        /\ UNCHANGED <<m_windows, painted, blank>>
    BY <1>6 DEF Toggle, vars, stackVars, frameVars
  <2>2. \A v \in Workers : wpc[v] # "show"
    BY <1>1, <1>3, <2>1 DEF LauncherInv
  <2>3. \A v \in Workers : wpc'[v] = "show" <=> v = w
    BY <1>2, <2>1, <2>2
  <2>4. wclick'[w] = m_launcher_visible'
    BY <1>2, <2>1
  <2>p. m_launcher_visible' = (toggles' % 2 = 1)
    <3>1. m_launcher_visible = (toggles % 2 = 1)
      BY <1>1 DEF LauncherInv
    <3>2. ~(toggles % 2 = 1) <=> (toggles + 1) % 2 = 1
      BY <1>2
    <3> QED
      BY <1>2, <2>1, <3>1, <3>2
  <2>5. LauncherInv'
    BY <2>1, <2>3, <2>4, <2>p DEF LauncherInv
  <2>6. FrameInv'
    BY <1>1, <1>3, <1>4, <2>1 DEF FrameInv, ShownIsDrawn
  <2> QED
    BY <2>5, <2>6
<1>7. CASE ShowLauncher(w)
  <2>1. /\ m_windows' = [m_windows EXCEPT ![3].visible = wclick[w]]
        /\ m_mutex' = None /\ wpc' = [wpc EXCEPT ![w] = "idle"]
        /\ wpc[w] = "show"
        /\ UNCHANGED <<m_launcher_visible, toggles, wclick, painted>>
    BY <1>4, <1>7 DEF ShowLauncher, SetWindowVisibility
  <2>2. m_mutex = w /\ wclick[w] = m_launcher_visible
    BY <1>1, <2>1 DEF LauncherInv
  <2>3. \A v \in Workers : wpc'[v] # "show"
    BY <1>1, <1>2, <2>1, <2>2 DEF LauncherInv
  <2>4. m_windows'[3].visible = m_launcher_visible
    BY <1>2, <1>4, <2>1, <2>2 DEF WindowState
  <2>5. LauncherInv'
    BY <1>1, <1>3, <1>4, <2>1, <2>3, <2>4 DEF LauncherInv
  <2>6. FrameInv'
    <3>1. blank' = IF wclick[w] THEN blank ELSE 0
      BY <1>7 DEF ShowLauncher
    <3>2. mpc # 10
      BY <1>1, <1>3, <2>2
    <3> QED
      BY <1>1, <1>2, <1>4, <2>1, <2>2, <2>4, <3>1, <3>2 DEF FrameInv, ShownIsDrawn
  <2> QED
    BY <2>5, <2>6
<1> QED
  BY <1>5, <1>6, <1>7 DEF Work

\* Types.
LEMMA DesktopTypes ==
  ASSUME NoWrap, DesktopInv, [DesktopNext]_<<vars, desktopVars>>, Inv', LaunchInv'
  PROVE  DesktopTypeOK'
<1> USE DEF Launched, LaunchCalls, Polling, Drawing, Rendering
<1>0. DesktopTypeOK /\ LaunchInv
  BY DEF DesktopInv
<1>a. None \notin Workers /\ Main \notin Workers /\ None # Main /\ MaxEvents \in Nat
  BY DesktopShellAssumption DEF Workers
<1>b. \A ev \in MouseEvents : ev.button_state \in Nat
  BY WindowManagerAssumption
<1>c. NoEvent.button_state = 0
  BY DEF NoEvent
<1>1. mpc' \in 0 .. 11 =>
        {m_wallpaper_id', m_taskbar_id', m_launcher_id'} \subseteq WindowIds' \cup {0}
  BY DEF LaunchInv
<1>2. CASE Launch
  <2>1. /\ mpc \in 0 .. 8 /\ mpc' = mpc + 1
        /\ painted' \in {painted, {"wallpaper"}}
        /\ UNCHANGED <<m_launcher_visible, shell_last_mouse_state, m_mutex, toggles,
                       blank, buttons, published, presses, queue, workerVars>>
    BY <1>2 DEF Launch, LaunchCall, LaunchApp, SetWindowSurface, SetWindowVisibility
  <2>2. mpc' \in 0 .. 11 /\ ~(mpc = 10) /\ ~(mpc' = 10)
    BY <2>1
  <2> QED
    BY <1>0, <1>1, <2>1, <2>2 DEF DesktopTypeOK, Inv, workerVars
<1>3. CASE \E ev \in MouseEvents : Poll(ev)
  <2>1. PICK ev \in MouseEvents : Poll(ev)
    BY <1>3
  <2>2. /\ queue' \in Seq(MouseEvents) /\ buttons' \in Nat
        /\ published' \in 0 .. MaxEvents /\ presses' \in Nat
    BY <1>0, <1>a, <1>b, <2>1 DEF Poll, DesktopTypeOK
  <2>3. UNCHANGED <<vars, shellVars, mpc, frameVars, workerVars>>
    BY <2>1 DEF Poll
  <2>4. mpc' \in 0 .. 11
    BY <1>0, <2>3 DEF DesktopTypeOK
  <2> QED
    BY <1>0, <1>1, <2>2, <2>3, <2>4
       DEF DesktopTypeOK, Inv, shellVars, frameVars, workerVars
<1>4. CASE UpdateFrame \/ EndUpdate \/ RenderFrame
  <2>1. /\ mpc' \in 0 .. 11 /\ (mpc' = 10 <=> m_mutex' = Main)
        /\ m_mutex' \in Workers \cup {None, Main}
    BY <1>0, <1>a, <1>4 DEF UpdateFrame, EndUpdate, RenderFrame, DesktopTypeOK, shellVars
  <2>2. /\ painted' \subseteq {"wallpaper", "taskbar", "launcher"}
        /\ blank' \in Nat
    <3>1. blank' \in {blank, blank + 1, 0}
      BY <1>4 DEF UpdateFrame, EndUpdate, RenderFrame, frameVars
    <3>2. blank' \in Nat
      BY <1>0, <3>1 DEF DesktopTypeOK
    <3>3. painted' \in {painted, painted \cup {"wallpaper", "taskbar"},
                       painted \cup {"wallpaper", "taskbar", "launcher"}}
      BY <1>4 DEF UpdateFrame, EndUpdate, RenderFrame, frameVars
    <3> QED
      BY <1>0, <3>2, <3>3 DEF DesktopTypeOK
  <2>3. UNCHANGED <<m_launcher_visible, shell_last_mouse_state, toggles, buttons,
                    published, presses, queue, workerVars>>
    BY <1>4 DEF UpdateFrame, EndUpdate, RenderFrame, shellVars
  <2> QED
    BY <1>0, <1>1, <2>1, <2>2, <2>3 DEF DesktopTypeOK, Inv, workerVars
<1>5. ASSUME NEW w \in Workers, Work(w) PROVE DesktopTypeOK'
  <2>0. wev[w] \in MouseEvents \cup {NoEvent} /\ wev[w].button_state \in Nat
    BY <1>0, <1>b, <1>c DEF DesktopTypeOK
  <2>1. UNCHANGED mpc /\ mpc' \in 0 .. 11
    BY <1>0, <1>5, WindowsStay DEF DesktopTypeOK
  <2>2. CASE Dispatch(w)
    <3>1. Head(queue) \in MouseEvents /\ Tail(queue) \in Seq(MouseEvents)
      BY <1>0, <2>2 DEF Dispatch, DesktopTypeOK
    <3>2. /\ queue' \in Seq(MouseEvents) /\ overlap' \in BOOLEAN
          /\ wpc' \in [Workers -> {"idle", "wm", "read", "write", "lock", "show"}]
          /\ wev' \in [Workers -> MouseEvents \cup {NoEvent}]
          /\ UNCHANGED <<shellVars, mainVars, frameVars, wclick>>
      BY <1>0, <2>2, <3>1 DEF Dispatch, DesktopTypeOK
    <3> QED
      BY <1>0, <1>1, <2>1, <3>2 DEF DesktopTypeOK, Inv, shellVars, mainVars, frameVars
  <2>3. CASE HandleFocus(w)
    <3>1. /\ wpc' \in [Workers -> {"idle", "wm", "read", "write", "lock", "show"}]
          /\ UNCHANGED <<shellVars, mainVars, frameVars, queue, wev, wclick, overlap>>
      BY <1>0, <2>3 DEF HandleFocus, DesktopTypeOK
    <3> QED
      BY <1>0, <1>1, <2>1, <3>1 DEF DesktopTypeOK, Inv, shellVars, mainVars, frameVars
  <2>4. CASE ShellRead(w) \/ ShellWrite(w)
    <3>1. /\ wpc' \in [Workers -> {"idle", "wm", "read", "write", "lock", "show"}]
          /\ wclick' \in [Workers -> BOOLEAN]
          /\ shell_last_mouse_state' \in Nat
          /\ UNCHANGED <<m_mutex, m_launcher_visible, toggles, mainVars, frameVars, queue,
                         wev, overlap>>
      BY <1>0, <2>0, <2>4 DEF ShellRead, ShellWrite, DesktopTypeOK, shellVars
    <3> QED
      BY <1>0, <1>1, <2>1, <3>1 DEF DesktopTypeOK, Inv, mainVars, frameVars
  <2>5. CASE Toggle(w) \/ ShowLauncher(w)
    <3>1. /\ wpc' \in [Workers -> {"idle", "wm", "read", "write", "lock", "show"}]
          /\ toggles' \in Nat
      BY <1>0, <2>5 DEF Toggle, ShowLauncher, DesktopTypeOK
    <3>v. m_launcher_visible' \in BOOLEAN
      BY <1>0, <2>5 DEF Toggle, ShowLauncher, DesktopTypeOK
    <3>c. wclick' \in [Workers -> BOOLEAN]
      BY <1>0, <2>5, <3>v DEF Toggle, ShowLauncher, DesktopTypeOK
    <3>s. blank' \in Nat
      BY <1>0, <2>5 DEF Toggle, ShowLauncher, DesktopTypeOK, frameVars
    <3>2. /\ m_mutex' \in Workers \cup {None, Main}
          /\ m_mutex # Main /\ m_mutex' # Main
      BY <1>a, <2>5 DEF Toggle, ShowLauncher, DesktopInv, LauncherInv
    <3>3. UNCHANGED <<shell_last_mouse_state, mainVars, painted, queue, wev, overlap>>
      BY <2>5 DEF Toggle, ShowLauncher, frameVars
    <3> QED
      BY <1>0, <1>1, <2>1, <3>1, <3>v, <3>c, <3>s, <3>2, <3>3 DEF DesktopTypeOK, Inv, mainVars
  <2> QED
    BY <1>5, <2>2, <2>3, <2>4, <2>5 DEF Work
<1>6. CASE UNCHANGED <<vars, desktopVars>>
  BY <1>0, <1>6 DEF DesktopTypeOK, Inv, desktopVars, shellVars, mainVars, frameVars,
     workerVars, vars, stackVars, WindowIds
<1> QED
  BY <1>2, <1>3, <1>4, <1>5, <1>6 DEF DesktopNext

\* No step of the main thread or of a worker breaks the invariant.
LEMMA DesktopStep ==
  ASSUME NoWrap, DesktopInv, [DesktopNext]_<<vars, desktopVars>>
  PROVE  DesktopInv'
<1>1. Inv'
  BY DesktopCalls, NextInv DEF DesktopInv
<1>2. LaunchInv' /\ LauncherInv' /\ FrameInv' /\ WallpaperAtBottom'
  <2>1. CASE Launch
    BY <2>1, LaunchShape, LaunchBottom, LaunchHides
  <2>2. CASE \/ \E ev \in MouseEvents : Poll(ev)
             \/ UpdateFrame \/ EndUpdate \/ RenderFrame
    BY <2>2, FrameStep
  <2>3. ASSUME NEW w \in Workers, Work(w)
        PROVE  LaunchInv' /\ LauncherInv' /\ FrameInv' /\ WallpaperAtBottom'
    BY <1>1, <2>3, WorkShape, WorkLauncher, WorkBottom
  <2>4. CASE UNCHANGED <<vars, desktopVars>>
    BY <2>4 DEF DesktopInv, LaunchInv, LauncherInv, FrameInv, ShownIsDrawn,
       WallpaperAtBottom, Busy, Launched, Polling, Drawing, Rendering, vars, stackVars, idVars,
       WindowIds, desktopVars, shellVars, mainVars, frameVars, workerVars
  <2> QED
    BY <2>1, <2>2, <2>3, <2>4 DEF DesktopNext
<1> QED
  BY <1>1, <1>2, DesktopTypes DEF DesktopInv

\* A desktop before launch().
LEMMA DesktopInitInv ==
  ASSUME NoWrap, DesktopInit
  PROVE  DesktopInv
<1> USE DEF Launched, LaunchCalls, Drawing, Rendering
<1>1. Inv /\ created = 0 /\ m_windows = [id \in {} |-> {}]
  BY InitInv DEF DesktopInit, Init
<1>2. None \notin Workers /\ Main \notin Workers /\ None # Main /\ MaxEvents \in Nat
  BY DesktopShellAssumption DEF Workers
<1>3. WindowIds = {} /\ mpc = 0
  BY <1>1 DEF WindowIds, DesktopInit
<1>4. DesktopTypeOK
  <2>1. /\ queue \in Seq(MouseEvents)
        /\ wpc \in [Workers -> {"idle", "wm", "read", "write", "lock", "show"}]
        /\ wev \in [Workers -> MouseEvents \cup {NoEvent}]
        /\ wclick \in [Workers -> BOOLEAN]
    BY DEF DesktopInit
  <2>2. /\ published \in 0 .. MaxEvents /\ mpc \in 0 .. 11
        /\ m_mutex \in Workers \cup {None, Main} /\ ~(mpc = 10) /\ m_mutex # Main
    BY <1>2 DEF DesktopInit
  <2>3. /\ m_launcher_visible \in BOOLEAN /\ blank = 0 /\ overlap \in BOOLEAN
        /\ painted = {} /\ shell_last_mouse_state = 0 /\ buttons = 0
        /\ presses = 0 /\ toggles = 0
        /\ m_wallpaper_id = 0 /\ m_taskbar_id = 0 /\ m_launcher_id = 0
    BY DEF DesktopInit
  <2> QED
    BY <1>1, <2>1, <2>2, <2>3 DEF DesktopTypeOK, Inv
<1>5. LaunchInv
  BY <1>1, <1>3 DEF DesktopInit, LaunchInv, Busy
<1>6. LauncherInv /\ FrameInv /\ WallpaperAtBottom
  <2>1. ~(toggles % 2 = 1) /\ m_launcher_visible = FALSE
    BY DEF DesktopInit
  <2>2. ~(mpc >= 7) /\ mpc # 10 /\ mpc # 11 /\ blank = 0 /\ m_wallpaper_id = 0
    BY <1>3 DEF DesktopInit
  <2>3. \A w \in Workers : wpc[w] # "show" /\ m_mutex # w
    BY <1>2 DEF DesktopInit
  <2>4. LauncherInv
    BY <2>1, <2>2, <2>3 DEF LauncherInv
  <2>5. FrameInv
    BY <2>2 DEF FrameInv, ShownIsDrawn
  <2> QED
    BY <2>2, <2>4, <2>5 DEF WallpaperAtBottom
<1> QED
  BY <1>1, <1>4, <1>5, <1>6 DEF DesktopInv

\* The inductive invariant of the desktop, as long as the ids do not wrap around.
THEOREM DesktopInvariance == NoWrap => (DesktopSpec => []DesktopInv)
<1> SUFFICES ASSUME NoWrap PROVE DesktopSpec => []DesktopInv
  OBVIOUS
<1>1. DesktopInit => DesktopInv
  BY DesktopInitInv
<1>2. DesktopInv /\ [DesktopNext]_<<vars, desktopVars>> => DesktopInv'
  BY DesktopStep
<1> QED
  BY <1>1, <1>2, PTL DEF DesktopSpec

\* Types.
THEOREM DesktopTypeCorrect == NoWrap => (DesktopSpec => []DesktopTypeOK)
<1>1. DesktopInv => DesktopTypeOK
  BY DEF DesktopInv
<1> QED
  BY <1>1, DesktopInvariance, PTL

\* Whatever the workers interleave, the shell and the window manager agree on
\* whether the launcher is shown when no worker is between the two assignments.
THEOREM LauncherAgreement == NoWrap => (DesktopSpec => []LauncherAgrees)
<1>1. DesktopInv => LauncherAgrees
  BY DEF DesktopInv, DesktopTypeOK, LauncherInv, LauncherAgrees, Launched, LaunchCalls
<1> QED
  BY <1>1, DesktopInvariance, PTL

\* Wallpaper and taskbar are drawn in every frame, and the launcher is never blank
\* in two frames in a row that show it.
THEOREM FramesAreDrawn == NoWrap => (DesktopSpec => []ShownIsDrawn)
<1>1. DesktopInv => ShownIsDrawn
  BY DEF DesktopInv, FrameInv
<1> QED
  BY <1>1, DesktopInvariance, PTL

\* A click gives the focus to a window that is shown, or leaves it.
LEMMA FocusIsShown ==
  ASSUME NoWrap, DesktopInv, DesktopNext, Launched, m_focused_window' # m_focused_window
  PROVE  m_windows[m_focused_window'].visible
<1> USE DEF Launched, LaunchCalls
<1>1. mpc >= 9
  OBVIOUS
<1>2. PICK w \in Workers : Work(w)
  <2>1. mpc \in 9 .. 11
    BY <1>1 DEF DesktopInv, DesktopTypeOK
  <2>0. mpc # 0 /\ mpc # 1 /\ mpc # 2 /\ mpc # 3 /\ mpc # 4 /\ mpc # 5 /\ mpc # 6 /\ mpc # 7 /\ mpc # 8
    BY <2>1
  <2>4. ~LaunchCall /\ ~LaunchApp
    <3>1. LaunchCall => mpc \in 0 .. 6
      BY DEF LaunchCall, SetWindowSurface, SetWindowVisibility
    <3>2. LaunchApp => mpc \in 7 .. 8
      BY DEF LaunchApp, SetWindowSurface, SetWindowVisibility
    <3> QED
      BY <2>1, <3>1, <3>2
  <2>5. ~Launch
    BY <2>4 DEF Launch
  <2>2. ~(UNCHANGED vars)
    BY DEF vars, stackVars
  <2>3. ~UpdateFrame /\ ~EndUpdate /\ ~RenderFrame /\ \A ev \in MouseEvents : ~Poll(ev)
    BY <2>2 DEF Poll, UpdateFrame, EndUpdate, RenderFrame
  <2> QED
    BY <2>5, <2>3 DEF DesktopNext
<1>3. MouseClick(w)
  BY <1>2 DEF Work, Dispatch, MouseArrives, HandleFocus, MouseRead, MouseWrite, ShellRead,
     ShellWrite, Toggle, ShowLauncher, SetWindowVisibility, vars, stackVars
<1> DEFINE t == TopHit(hev[w])
<1>4. m_focused_window' = t /\ Under(hev[w]) # {}
  BY <1>3 DEF MouseClick
<1>5. Clickable(t, hev[w])
  BY <1>4, StackIs, TopHitClickable DEF DesktopInv, Inv
<1> QED
  BY <1>4, <1>5 DEF Clickable

\* No click brings the wallpaper in front of anything, nor gives the focus to a
\* window that is not shown.
THEOREM WallpaperStays == NoWrap => (DesktopSpec => BackgroundStays)
<1> SUFFICES ASSUME NoWrap PROVE DesktopSpec => BackgroundStays
  OBVIOUS
<1>1. /\ DesktopInv /\ DesktopInv' /\ [DesktopNext]_<<vars, desktopVars>>
      => [/\ WallpaperAtBottom'
          /\ Launched /\ m_focused_window' # m_focused_window
               => m_windows[m_focused_window'].visible]_<<vars, desktopVars>>
  BY FocusIsShown DEF DesktopInv
<1> QED
  BY <1>1, DesktopInvariance, PTL DEF DesktopSpec, BackgroundStays

-----------------------------------------------------------------------------
(* Every press toggles the launcher once, one event at a time. *)

\* A first press in a queue, after the buttons were in state b.
Presses(ev, b) == ev.button_state # 0 /\ b = 0 /\ OnVynexButton(ev)
StateAfter(q, b) == IF q = <<>> THEN b ELSE Back(q).button_state

\* The presses of a queue are finitely many places in it.
LEMMA PressesFinite ==
  ASSUME NEW q \in Seq(MouseEvents), NEW b
  PROVE  /\ IsFiniteSet(PressesIn(q, b)) /\ Cardinality(PressesIn(q, b)) \in Nat
         /\ PressesIn(q, b) \subseteq 1 .. Len(q)
<1>1. PressesIn(q, b) \subseteq 1 .. Len(q)
  BY DEF PressesIn
<1>2. Len(q) \in Nat /\ 1 \in Int
  OBVIOUS
<1>3. IsFiniteSet(1 .. Len(q))
  BY <1>2, FS_Interval
<1> QED
  BY <1>1, <1>3, FS_Subset, FS_CardinalityType

\* One more event in the queue is one more press, or none.
LEMMA PressesAppend ==
  ASSUME NEW q \in Seq(MouseEvents), NEW b, NEW ev \in MouseEvents
  PROVE  /\ Cardinality(PressesIn(Append(q, ev), b)) =
              IF Presses(ev, StateAfter(q, b)) THEN Cardinality(PressesIn(q, b)) + 1
              ELSE Cardinality(PressesIn(q, b))
         /\ StateAfter(Append(q, ev), b) = ev.button_state
<1> DEFINE n == Len(q)
           t == Append(q, ev)
           P == PressesIn(q, b)
<1>1. /\ n \in Nat /\ DOMAIN q = 1 .. n /\ DOMAIN t = 1 .. n + 1 /\ Len(t) = n + 1
      /\ t[n + 1] = ev /\ \A i \in 1 .. n : t[i] = q[i]
      /\ t # <<>> /\ (q = <<>> <=> n = 0)
  OBVIOUS
<1>2. \A i \in 1 .. n : ButtonsBefore(t, b, i) = ButtonsBefore(q, b, i)
  <2> TAKE i \in 1 .. n
  <2>1. i # 1 => i - 1 \in 1 .. n
    BY <1>1
  <2> QED
    BY <1>1, <2>1 DEF ButtonsBefore
<1>3. ButtonsBefore(t, b, n + 1) = StateAfter(q, b)
  <2>1. CASE n = 0
    BY <1>1, <2>1 DEF ButtonsBefore, StateAfter
  <2>2. CASE n # 0
    <3>1. n \in 1 .. n /\ n + 1 # 1 /\ (n + 1) - 1 = n
      BY <1>1, <2>2
    <3> QED
      BY <1>1, <2>2, <3>1 DEF ButtonsBefore, StateAfter, Back
  <2> QED
    BY <2>1, <2>2
<1> HIDE DEF n, t
<1>4. PressesIn(t, b) = IF Presses(ev, StateAfter(q, b)) THEN P \cup {n + 1} ELSE P
  BY <1>1, <1>2, <1>3 DEF PressesIn, Presses
<1>5. n + 1 \notin P
  BY <1>1 DEF PressesIn
<1>6. IsFiniteSet(P)
  BY PressesFinite
<1> HIDE DEF P
<1>7. Cardinality(P \cup {n + 1}) = Cardinality(P) + 1
  BY <1>5, <1>6, FS_AddElement
<1>8. StateAfter(t, b) = ev.button_state
  BY <1>1 DEF StateAfter, Back
<1> QED
  BY <1>4, <1>7, <1>8 DEF P, t

\* The first event of a queue is a press, or not; the others are as they were.
LEMMA PressesTail ==
  ASSUME NEW q \in Seq(MouseEvents), q # <<>>, NEW b
  PROVE  /\ Cardinality(PressesIn(q, b)) =
              IF Presses(Head(q), b)
              THEN Cardinality(PressesIn(Tail(q), Head(q).button_state)) + 1
              ELSE Cardinality(PressesIn(Tail(q), Head(q).button_state))
         /\ StateAfter(Tail(q), Head(q).button_state) = StateAfter(q, b)
<1> DEFINE n == Len(q)
           t == Tail(q)
           c == Head(q).button_state
           P == PressesIn(q, b)
           R == PressesIn(t, c)
<1>1. /\ n \in Nat /\ n >= 1 /\ DOMAIN q = 1 .. n /\ Len(t) = n - 1
      /\ DOMAIN t = 1 .. n - 1 /\ Head(q) = q[1] /\ t \in Seq(MouseEvents)
      /\ \A i \in 1 .. n - 1 : t[i] = q[i + 1]
  OBVIOUS
<1>2. \A i \in 1 .. n - 1 : ButtonsBefore(t, c, i) = ButtonsBefore(q, b, i + 1)
  <2> TAKE i \in 1 .. n - 1
  <2>1. i # 1 => i - 1 \in 1 .. n - 1 /\ (i - 1) + 1 = i
    BY <1>1
  <2>2. i + 1 # 1 /\ (i + 1) - 1 = i
    BY <1>1
  <2> QED
    BY <1>1, <2>1, <2>2 DEF ButtonsBefore
<1>3. 1 \in P <=> Presses(Head(q), b)
  BY <1>1 DEF PressesIn, Presses, ButtonsBefore
<1>4. StateAfter(t, c) = StateAfter(q, b)
  <2>1. CASE n = 1
    BY <1>1, <2>1 DEF StateAfter, Back
  <2>2. CASE n # 1
    <3> HIDE DEF n, t, c
    <3>1. n - 1 \in 1 .. n - 1 /\ (n - 1) + 1 = n /\ t # <<>>
      BY <1>1, <2>2
    <3> QED
      BY <1>1, <3>1 DEF StateAfter, Back, n, t, c
  <2> QED
    BY <2>1, <2>2
<1>5. P \subseteq 1 .. n /\ IsFiniteSet(P) /\ Cardinality(P) \in Nat
  BY PressesFinite
<1>6. R \subseteq 1 .. n - 1 /\ IsFiniteSet(R) /\ Cardinality(R) \in Nat
  BY <1>1, PressesFinite
<1> HIDE DEF n, t, c
<1>7. \A i \in 1 .. n - 1 : i \in R <=> i + 1 \in P
  <2> TAKE i \in 1 .. n - 1
  <2>1. i + 1 \in 1 .. n
    BY <1>1
  <2> QED
    BY <1>1, <1>2, <2>1 DEF PressesIn
<1> HIDE DEF P, R
<1>8. Cardinality(R) = Cardinality(P \ {1})
  <2> DEFINE f == [i \in R |-> i + 1]
  <2>1. \A i \in R : i + 1 \in P \ {1}
    BY <1>1, <1>6, <1>7
  <2>2. \A i, j \in R : i + 1 = j + 1 => i = j
    BY <1>1, <1>6
  <2>3. \A k \in P \ {1} : k - 1 \in R /\ k = (k - 1) + 1
    BY <1>1, <1>5, <1>7
  <2>4. f \in Injection(R, P \ {1})
    BY <2>1, <2>2 DEF Injection, IsInjective
  <2>5. f \in Surjection(R, P \ {1})
    BY <2>1, <2>3 DEF Surjection
  <2>6. IsFiniteSet(P \ {1})
    BY <1>5, FS_RemoveElement
  <2> HIDE DEF f
  <2> QED
    BY <2>4, <2>5, <2>6, FS_Injection
<1>9. Cardinality(P \ {1}) = IF 1 \in P THEN Cardinality(P) - 1 ELSE Cardinality(P)
  BY <1>5, FS_RemoveElement
<1> QED
  BY <1>3, <1>4, <1>5, <1>6, <1>8, <1>9 DEF P, R, t, c

\* Will the event of a worker toggle the launcher?
WillToggle(pc, click, last, ev) ==
  \/ pc \in {"wm", "read"} /\ Presses(ev, last)
  \/ pc = "write" /\ click /\ OnVynexButton(ev)
  \/ pc = "lock"

\* With no worker but w at work, what is about to happen is up to w.
LEMMA Alone ==
  ASSUME NEW w \in Workers, Busy \subseteq {w}
  PROVE  /\ Remembered = IF wpc[w] \in {"wm", "read", "write"}
                         THEN wev[w].button_state ELSE shell_last_mouse_state
         /\ Cardinality(Toggling) =
              IF WillToggle(wpc[w], wclick[w], shell_last_mouse_state, wev[w])
              THEN 1 ELSE 0
<1>1. Ahead = IF wpc[w] \in {"wm", "read", "write"} THEN {w} ELSE {}
  BY DEF Ahead, Busy
<1>2. Toggling = IF WillToggle(wpc[w], wclick[w], shell_last_mouse_state, wev[w])
                 THEN {w} ELSE {}
  BY DEF Toggling, Busy, WillToggle, Presses
<1>3. Cardinality({w}) = 1 /\ Cardinality({}) = 0
  BY FS_Singleton, FS_EmptySet
<1> QED
  BY <1>1, <1>2, <1>3 DEF Remembered

\* The same after a step.
LEMMA AloneNext ==
  ASSUME NEW w \in Workers, Busy' \subseteq {w}
  PROVE  /\ Remembered' = IF wpc'[w] \in {"wm", "read", "write"}
                          THEN wev'[w].button_state ELSE shell_last_mouse_state'
         /\ Cardinality(Toggling)' =
              IF WillToggle(wpc'[w], wclick'[w], shell_last_mouse_state', wev'[w])
              THEN 1 ELSE 0
<1>1. Ahead' = IF wpc'[w] \in {"wm", "read", "write"} THEN {w} ELSE {}
  BY DEF Ahead, Busy
<1>2. Toggling' = IF WillToggle(wpc'[w], wclick'[w], shell_last_mouse_state', wev'[w])
                 THEN {w} ELSE {}
  BY DEF Toggling, Busy, WillToggle, Presses
<1>3. Cardinality({w}) = 1 /\ Cardinality({}) = 0
  BY FS_Singleton, FS_EmptySet
<1> QED
  BY <1>1, <1>2, <1>3 DEF Remembered

\* A step of a worker hands a press on, from the queue to the handler, from its
\* read of m_last_mouse_state to the lock, from the lock to the toggle.
LEMMA WorkPresses ==
  ASSUME DesktopInv, PressInv, NEW w \in Workers, Work(w)
  PROVE  PressInv'
<1> DEFINE last == shell_last_mouse_state
           Will == WillToggle(wpc[w], wclick[w], last, wev[w])
           WillNext == WillToggle(wpc'[w], wclick'[w], last', wev'[w])
<1>t. /\ wpc \in [Workers -> {"idle", "wm", "read", "write", "lock", "show"}]
      /\ wev \in [Workers -> MouseEvents \cup {NoEvent}]
      /\ wclick \in [Workers -> BOOLEAN]
      /\ queue \in Seq(MouseEvents) /\ overlap \in BOOLEAN
      /\ presses \in Nat /\ toggles \in Nat
  BY DEF DesktopInv, DesktopTypeOK
<1>u. UNCHANGED <<presses, buttons>>
  BY DEF Work, Dispatch, HandleFocus, ShellRead, ShellWrite, Toggle, ShowLauncher, mainVars
<1> SUFFICES ASSUME ~overlap'
             PROVE  /\ \A v, x \in Busy' : v = x
                    /\ buttons' = StateAfter(queue', Remembered')
                    /\ presses' = toggles' + Cardinality(Toggling)'
                                  + Cardinality(PressesIn(queue', Remembered'))
  BY DEF PressInv, StateAfter
<1>1. ~overlap /\ Busy \subseteq {w} /\ Busy' \subseteq {w}
  <2>1. CASE Dispatch(w)
    <3>1. ~overlap /\ \A v \in Workers : wpc[v] = "idle"
      BY <2>1 DEF Dispatch
    <3> QED
      BY <1>t, <2>1, <3>1 DEF Dispatch, Busy
  <2>2. CASE ~Dispatch(w)
    <3>1. ~overlap /\ wpc[w] # "idle" /\ \A v \in Workers \ {w} : wpc'[v] = wpc[v]
      BY <1>t, <2>2 DEF Work, HandleFocus, ShellRead, ShellWrite, Toggle, ShowLauncher
    <3>2. \A v, x \in Busy : v = x
      BY <3>1 DEF PressInv
    <3> QED
      BY <1>t, <3>1, <3>2 DEF Busy
  <2> QED
    BY <2>1, <2>2
<1>2. /\ buttons = StateAfter(queue, Remembered)
      /\ presses = toggles + Cardinality(Toggling)
                   + Cardinality(PressesIn(queue, Remembered))
  BY <1>1 DEF PressInv, StateAfter
<1>3. /\ Remembered = IF wpc[w] \in {"wm", "read", "write"} THEN wev[w].button_state
                      ELSE last
      /\ Cardinality(Toggling) = IF Will THEN 1 ELSE 0
  BY <1>1, Alone
<1>4. /\ Remembered' = IF wpc'[w] \in {"wm", "read", "write"} THEN wev'[w].button_state
                       ELSE last'
      /\ Cardinality(Toggling)' = IF WillNext THEN 1 ELSE 0
  BY <1>1, AloneNext
<1>5. CASE Dispatch(w)
  <2>1. /\ queue # <<>> /\ queue' = Tail(queue) /\ wpc[w] = "idle" /\ wpc'[w] = "wm"
        /\ wev'[w] = Head(queue) /\ last' = last /\ toggles' = toggles
    BY <1>t, <1>5 DEF Dispatch, shellVars
  <2>2. Remembered = last /\ Remembered' = Head(queue).button_state
    BY <1>3, <1>4, <2>1
  <2>3. ~Will /\ (WillNext <=> Presses(Head(queue), last))
    BY <2>1 DEF WillToggle
  <2>4. /\ Cardinality(PressesIn(queue, last)) =
             IF Presses(Head(queue), last)
             THEN Cardinality(PressesIn(Tail(queue), Head(queue).button_state)) + 1
             ELSE Cardinality(PressesIn(Tail(queue), Head(queue).button_state))
        /\ StateAfter(Tail(queue), Head(queue).button_state) = StateAfter(queue, last)
    BY <1>t, <2>1, PressesTail
  <2>5. Cardinality(PressesIn(queue', Remembered')) \in Nat /\ queue' \in Seq(MouseEvents)
    <3>1. queue' \in Seq(MouseEvents)
      BY <1>t, <2>1
    <3> QED
      BY <3>1, PressesFinite
  <2>6. buttons' = StateAfter(queue', Remembered')
    BY <1>2, <1>u, <2>1, <2>2, <2>4
  <2> HIDE DEF last, Will, WillNext
  <2>7. presses' = toggles' + Cardinality(Toggling)'
                   + Cardinality(PressesIn(queue', Remembered'))
    BY <1>t, <1>2, <1>3, <1>4, <1>u, <2>1, <2>2, <2>3, <2>4, <2>5
  <2> QED
    BY <1>1, <2>6, <2>7
<1>6. CASE ~Dispatch(w)
  <2>1. queue' = queue /\ wev' = wev
    BY <1>6 DEF Work, HandleFocus, ShellRead, ShellWrite, Toggle, ShowLauncher
  <2>2. Remembered' = Remembered
    BY <1>3, <1>4, <1>6, <1>t, <2>1
       DEF Work, HandleFocus, ShellRead, ShellWrite, Toggle, ShowLauncher, shellVars
  <2>3. \/ toggles' = toggles /\ (WillNext <=> Will)
        \/ toggles' = toggles + 1 /\ Will /\ ~WillNext
    <3>1. CASE HandleFocus(w)
      BY <1>t, <2>1, <3>1 DEF HandleFocus, shellVars, WillToggle
    <3>2. CASE ShellRead(w)
      <4>1. /\ wpc[w] = "read" /\ wpc'[w] = "write" /\ UNCHANGED <<last, toggles>>
            /\ wclick'[w] = (wev[w].button_state # 0 /\ last = 0)
        BY <1>t, <3>2 DEF ShellRead, shellVars
      <4> QED
        BY <2>1, <4>1 DEF WillToggle, Presses
    <3>3. CASE ShellWrite(w)
      <4>1. /\ wpc[w] = "write" /\ UNCHANGED <<wclick, toggles>>
            /\ wpc'[w] = IF wclick[w] /\ OnVynexButton(wev[w]) THEN "lock" ELSE "idle"
        BY <1>t, <3>3 DEF ShellWrite
      <4> QED
        BY <2>1, <4>1 DEF WillToggle
    <3>4. CASE Toggle(w)
      BY <1>t, <3>4 DEF Toggle, WillToggle
    <3>5. CASE ShowLauncher(w)
      BY <1>t, <3>5 DEF ShowLauncher, WillToggle
    <3> QED
      BY <1>6, <3>1, <3>2, <3>3, <3>4, <3>5 DEF Work
  <2>4. Cardinality(PressesIn(queue, Remembered)) \in Nat
    BY <1>t, PressesFinite
  <2>5. buttons' = StateAfter(queue', Remembered')
    BY <1>2, <1>u, <2>1, <2>2
  <2> HIDE DEF last, Will, WillNext
  <2>6. presses' = toggles' + Cardinality(Toggling)'
                   + Cardinality(PressesIn(queue', Remembered'))
    BY <1>t, <1>2, <1>3, <1>4, <1>u, <2>1, <2>2, <2>3, <2>4
  <2> QED
    BY <1>1, <2>5, <2>6
<1> QED
  BY <1>5, <1>6

\* Nothing that counts changes but what is listed.
LEMMA SamePresses ==
  ASSUME PressInv, UNCHANGED <<presses, toggles, buttons, queue, overlap, wpc, wev, wclick,
                               shell_last_mouse_state>>
  PROVE  PressInv'
BY DEF PressInv, Busy, Remembered, Ahead, Toggling

\* The driver counts a press when it publishes one.
LEMMA PollPresses ==
  ASSUME DesktopInv, PressInv, NEW ev \in MouseEvents, Poll(ev)
  PROVE  PressInv'
<1>t. queue \in Seq(MouseEvents) /\ presses \in Nat /\ toggles \in Nat
  BY DEF DesktopInv, DesktopTypeOK
<1>1. UNCHANGED <<Busy, Remembered, Toggling, overlap, toggles>>
  BY DEF Poll, Busy, Remembered, Ahead, Toggling, workerVars, shellVars
<1>2. /\ queue' = Append(queue, ev) /\ buttons' = ev.button_state
      /\ presses' = IF Presses(ev, buttons) THEN presses + 1 ELSE presses
  BY DEF Poll, Presses
<1>3. /\ Cardinality(PressesIn(Append(queue, ev), Remembered)) =
           IF Presses(ev, StateAfter(queue, Remembered))
           THEN Cardinality(PressesIn(queue, Remembered)) + 1
           ELSE Cardinality(PressesIn(queue, Remembered))
      /\ StateAfter(Append(queue, ev), Remembered) = ev.button_state
  BY <1>t, PressesAppend
<1>4. SUFFICES ASSUME ~overlap'
               PROVE  /\ \A v, x \in Busy' : v = x
                      /\ buttons' = StateAfter(queue', Remembered')
                      /\ presses' = toggles' + Cardinality(Toggling')
                                    + Cardinality(PressesIn(queue', Remembered'))
  BY DEF PressInv, StateAfter
<1>5. /\ \A v, x \in Busy : v = x
      /\ buttons = StateAfter(queue, Remembered)
      /\ presses = toggles + Cardinality(Toggling)
                   + Cardinality(PressesIn(queue, Remembered))
  BY <1>1, <1>4 DEF PressInv, StateAfter
<1>6. Cardinality(PressesIn(queue, Remembered)) \in Nat
  BY <1>t, PressesFinite
<1>7. Busy = {} \/ \E w \in Workers : Busy \subseteq {w}
  BY <1>5 DEF Busy
<1>8. Cardinality(Toggling) \in Nat
  <2>1. CASE Busy = {}
    <3>1. Toggling = {}
      BY <2>1 DEF Toggling, Busy
    <3> QED
      BY <3>1, FS_EmptySet
  <2>2. ASSUME NEW w \in Workers, Busy \subseteq {w} PROVE Cardinality(Toggling) \in Nat
    BY <2>2, Alone
  <2> QED
    BY <1>7, <2>1, <2>2
<1> QED
  BY <1>t, <1>1, <1>2, <1>3, <1>5, <1>6, <1>8

\* No step of the main thread or of a worker loses a press.
LEMMA PressStep ==
  ASSUME DesktopInv, PressInv, [DesktopNext]_<<vars, desktopVars>>
  PROVE  PressInv'
<1>1. CASE \/ Launch \/ UpdateFrame \/ EndUpdate \/ RenderFrame
           \/ UNCHANGED <<vars, desktopVars>>
  <2>1. UNCHANGED <<presses, toggles, buttons, queue, overlap, wpc, wev, wclick,
                    shell_last_mouse_state>>
    BY <1>1 DEF Launch, UpdateFrame, EndUpdate, RenderFrame, desktopVars, shellVars,
       mainVars, workerVars, LaunchCall, LaunchApp, SetWindowSurface, SetWindowVisibility
  <2> QED
    BY <2>1, SamePresses
<1> QED
  BY <1>1, PollPresses, WorkPresses DEF DesktopNext

\* Nothing was pressed yet.
LEMMA PressInit == DesktopInit => PressInv
<1> SUFFICES ASSUME DesktopInit PROVE PressInv
  OBVIOUS
<1>1. Busy = {} /\ Ahead = {} /\ Toggling = {} /\ queue = <<>>
  BY DEF DesktopInit, Busy, Ahead, Toggling
<1>2. PressesIn(queue, Remembered) = {}
  BY <1>1 DEF PressesIn
<1>3. Cardinality({}) = 0
  BY FS_EmptySet
<1>4. Cardinality(Toggling) = 0 /\ Cardinality(PressesIn(queue, Remembered)) = 0
  BY <1>1, <1>2, <1>3
<1>5. buttons = 0 /\ Remembered = 0 /\ presses = 0 /\ toggles = 0
  BY <1>1 DEF Remembered, DesktopInit
<1> QED
  BY <1>1, <1>4, <1>5 DEF PressInv

\* As long as events are handled one after the other, the launcher is toggled
\* at most as often as the button was pressed, and once all events are handled
\* exactly as often: it is shown after an odd number of presses.
THEOREM PressesToggle == NoWrap => (DesktopSpec => []TogglesFollowPresses)
<1> SUFFICES ASSUME NoWrap PROVE DesktopSpec => []TogglesFollowPresses
  OBVIOUS
<1>1. DesktopInit => PressInv
  BY PressInit
<1>2. DesktopInv /\ PressInv /\ [DesktopNext]_<<vars, desktopVars>> => PressInv'
  BY PressStep
<1>3. DesktopInv /\ PressInv => TogglesFollowPresses
  <2> SUFFICES ASSUME DesktopInv, PressInv, ~overlap
               PROVE  /\ toggles <= presses /\ (Quiet => toggles = presses)
                      /\ Quiet /\ Launched =>
                           m_windows[m_launcher_id].visible = (toggles % 2 = 1)
    BY DEF TogglesFollowPresses
  <2>1. /\ toggles \in Nat /\ presses \in Nat /\ queue \in Seq(MouseEvents)
        /\ presses = toggles + Cardinality(Toggling)
                     + Cardinality(PressesIn(queue, Remembered))
        /\ \A v, w \in Busy : v = w
    BY DEF DesktopInv, DesktopTypeOK, PressInv
  <2>2. Cardinality(PressesIn(queue, Remembered)) \in Nat
    BY <2>1, PressesFinite
  <2>3. Busy = {} => Cardinality(Toggling) = 0
    <3>1. Busy = {} => Toggling = {}
      BY DEF Toggling, Busy
    <3> QED
      BY <3>1, FS_EmptySet
  <2>4. Cardinality(Toggling) \in Nat
    <3>1. CASE Busy = {}
      BY <2>3, <3>1
    <3>2. ASSUME NEW w \in Workers, Busy \subseteq {w} PROVE Cardinality(Toggling) \in Nat
      BY <3>2, Alone
    <3> QED
      BY <2>1, <3>1, <3>2 DEF Busy
  <2>5. Quiet => Busy = {} /\ PressesIn(queue, Remembered) = {}
    BY DEF Quiet, Busy, PressesIn
  <2>6. Quiet => Cardinality(PressesIn(queue, Remembered)) = 0
    BY <2>5, FS_EmptySet
  <2>7. Quiet /\ Launched => m_windows[m_launcher_id].visible = (toggles % 2 = 1)
    <3>1. mpc >= 9 => mpc >= 7
      BY DEF DesktopInv, DesktopTypeOK, LaunchCalls
    <3>2. Quiet => \A w \in Workers : wpc[w] # "show"
      BY DEF Quiet
    <3> QED
      BY <3>1, <3>2 DEF Launched, LaunchCalls, DesktopInv, LauncherInv
  <2> QED
    BY <2>1, <2>2, <2>3, <2>4, <2>5, <2>6, <2>7
<1> QED
  BY <1>1, <1>2, <1>3, DesktopInvariance, PTL DEF DesktopSpec
=============================================================================
