----------------------------- MODULE WindowStack -----------------------------
(***************************************************************************)
(* What IWindowManager promises to applications and to the compositor: a   *)
(* set of open windows, totally ordered by which lies over which, whose    *)
(* topmost one has the focus.  Opening puts a window on top, raising moves *)
(* exactly one window to the top, closing takes exactly one out; the order *)
(* of the others never changes, and an id is never used again.             *)
(***************************************************************************)
EXTENDS Integers

CONSTANT Ids

VARIABLES
  open,    \* ids of the open windows
  over,    \* pairs <<a, b>>: window b lies over window a
  focus,   \* the focused window, 0 if none is open
  used     \* every id handed out so far

vars == <<open, over, focus, used>>

\* The order on the windows other than w.
Without(w) == {p \in over : p[1] # w /\ p[2] # w}

FocusOn(ws, order) ==
  IF ws = {} THEN {0} ELSE {w \in ws : \A v \in ws \ {w} : <<v, w>> \in order}

Init == open = {} /\ over = {} /\ focus = 0 /\ used = {}

Open(w) ==
  /\ w \notin used \cup {0}
  /\ open' = open \cup {w}
  /\ over' = over \cup (open \X {w})
  /\ focus' = w
  /\ used' = used \cup {w}

Close(w) ==
  /\ w \in open
  /\ open' = open \ {w}
  /\ over' = Without(w)
  /\ focus' \in FocusOn(open \ {w}, Without(w))
  /\ UNCHANGED used

Raise(w) ==
  /\ w \in open
  /\ over' = Without(w) \cup ((open \ {w}) \X {w})
  /\ focus' = w
  /\ UNCHANGED <<open, used>>

Next == \E w \in Ids : Open(w) \/ Close(w) \/ Raise(w)

Spec == Init /\ [][Next]_vars
=============================================================================
