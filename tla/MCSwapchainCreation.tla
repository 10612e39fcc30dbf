------------------------ MODULE MCSwapchainCreation ------------------------
(* Instances of the creation of swapchains: the cfg chooses the displays.  *)
EXTENDS SwapchainCreation

AllDisplays == {"headless", "wayland", "x11"}
=============================================================================
