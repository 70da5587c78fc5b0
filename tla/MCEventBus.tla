------------------------------ MODULE MCEventBus ------------------------------
(* Instances of EventBus for TLC: two topics, one of them with two handlers. *)
EXTENDS EventBus, TLC

CONSTANTS e1, e2, e3, a1, a2, b1, mouse, notify

MCEvents == {e1, e2, e3}
MCSubscriptions == {a1, a2, b1}
MCTopics == {mouse, notify}
MCEventTopic == (e1 :> mouse) @@ (e2 :> mouse) @@ (e3 :> notify)
MCSubTopic == (a1 :> mouse) @@ (a2 :> mouse) @@ (b1 :> notify)
MCMayThrow == {a1, b1}
=============================================================================
