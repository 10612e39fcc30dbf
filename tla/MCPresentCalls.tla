--------------------------- MODULE MCPresentCalls ---------------------------
(* Two swapchains, one with a page flip thread and one without. *)
EXTENDS PresentCalls

CONSTANTS fifo, mailbox
=============================================================================
