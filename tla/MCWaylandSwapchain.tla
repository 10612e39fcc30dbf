-------------------------- MODULE MCWaylandSwapchain --------------------------
(* Instances of the Wayland swapchain: the cfg chooses the failures. *)
EXTENDS WaylandSwapchain
=============================================================================
