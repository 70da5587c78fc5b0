--------------------------- MODULE MCPluginManager ---------------------------
(* Instances of PluginManager for TLC: two libraries with one name between    *)
(* them, and one of another name that does not fit.                          *)
EXTENDS PluginManager, TLC

CONSTANTS p1, p2, p3

MCLibraries == {p1, p2, p3}
MCPluginName == (p1 :> "A") @@ (p2 :> "A") @@ (p3 :> "B")
MCDefect == (p1 :> "none") @@ (p2 :> "none") @@ (p3 :> "VersionMismatch")
=============================================================================
