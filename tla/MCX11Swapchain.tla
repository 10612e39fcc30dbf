---------------------------- MODULE MCX11Swapchain ----------------------------
(* Instances of the X11 swapchain: the cfg chooses the paths and failures. *)
EXTENDS X11Swapchain
=============================================================================
