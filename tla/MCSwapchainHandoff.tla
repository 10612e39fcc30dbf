------------------------- MODULE MCSwapchainHandoff -------------------------
(* Instances of the handoff; the cfg files choose the length of the chain  *)
(* and what the application does.                                          *)
EXTENDS SwapchainHandoff
=============================================================================
