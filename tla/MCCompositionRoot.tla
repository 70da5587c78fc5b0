-------------------------- MODULE MCCompositionRoot --------------------------
(* Instances of CompositionRoot for TLC. *)
EXTENDS CompositionRoot

CONSTANTS e1, e2, s1, s2

OneEvent == {e1}
TwoEvents == {e1, e2}
TwoServices == <<s1, s2>>
NoServices == <<>>

\* Three links reach everything that is held.
ASSUME ChainsAreShort ==
  \A c \in Components : WithHeld(KeptAlive[c]) = KeptAlive[c]
=============================================================================
