---------------------------- MODULE MCCompositor ----------------------------
(* Instances of Compositor for TLC: windows over the edges of the display. *)
EXTENDS Compositor

CONSTANTS h1

OneTitle == {"App"}
\* Over the left and bottom edge, and over the right and top edge.
MCPositions == {<<-1, 0>>, <<1, -1>>}
MCSizes == {<<2, 2>>}
\* A release and a press, inside one position and on the right edge of the
\* other: the hit test is inclusive.
MCMouseEvents == {[x |-> 1, y |-> 0, button_state |-> b] : b \in {0, 1}}
MCHandlers == {h1}

\* One character with two pixels, on a diagonal.
MCFont == [c \in {"A"} |-> {<<0, 0>>, <<1, 1>>}]

\* An opaque picture with a text that leaves the surface, which is larger than
\* its window; translucent, opaque and clear pixels side by side; a surface
\* smaller than its window.
MCDrawings ==
  << [width |-> 3, height |-> 2, calls |->
       << Rect(-1, -1, 5, 4, Color("one", Opaque)) >>
       \o DrawText(-6, 0, <<"A", "A", "?">>, Color("ink", Opaque))],
     [width |-> 3, height |-> 2, calls |->
       << Rect(0, 0, 1, 2, Color("two", Translucent)),
          Rect(1, 0, 1, 2, Color("dark", Opaque)),
          Rect(0, 1, 2, 1, Color("glass", Translucent)) >>],
     [width |-> 2, height |-> 1, calls |->
       << Rect(0, 0, 2, 1, Color("three", Opaque)) >>] >>
=============================================================================
