--------------------------- MODULE MCTaskScheduler ---------------------------
(* Instances of TaskScheduler for TLC. *)
EXTENDS TaskScheduler

CONSTANTS t1, t2, t3, c1, s1, s2

ThreeTasks == {t1, t2, t3}
OneClient == {c1}
TwoStoppers == {s1, s2}
=============================================================================
