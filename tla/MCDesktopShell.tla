---------------------------- MODULE MCDesktopShell ----------------------------
(* Instances of DesktopShell for TLC: the geometry of the code. *)
EXTENDS DesktopShell

CONSTANTS w1, w2

MCTitles == {"Wallpaper", "Taskbar", "Launcher", "Terminal"}
MCPositions == {<<0, 0>>, <<0, 1040>>, <<10, 640>>, <<100, 100>>}
MCSizes == {<<1920, 1080>>, <<1920, 40>>, <<300, 400>>, <<600, 400>>}
\* A corner of the Vynex button; on the launcher; on the wallpaper.
MCPoints == {<<90, 1075>>, <<60, 700>>, <<1000, 900>>}
MCMouseEvents ==
  {[x |-> p[1], y |-> p[2], button_state |-> b] : p \in MCPoints, b \in {0, 1}}
ButtonEvents == {[x |-> 90, y |-> 1075, button_state |-> b] : b \in {0, 1}}
TwoWorkers == {w1, w2}
=============================================================================
