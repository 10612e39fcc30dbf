--------------------------- MODULE MCHudRenderer ---------------------------
(***************************************************************************)
(* HudRenderer for TLC: two swapchains of one device, the second of equal  *)
(* area, one with a page flip thread and one without, one image each.      *)
(***************************************************************************)
EXTENDS HudRenderer

CONSTANTS s1, s2

EqualAreas == [s \in Swapchains |-> 1]
OneQueue == [s \in Swapchains |-> "m_queue"]
=============================================================================
