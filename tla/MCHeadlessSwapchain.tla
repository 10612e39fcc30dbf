------------------------- MODULE MCHeadlessSwapchain -------------------------
(* Instances of the headless swapchain; the cfg files choose the mode, the *)
(* number of images and the failures.                                      *)
EXTENDS HeadlessSwapchain
=============================================================================
