----------------------------- MODULE ImageFormats -----------------------------
(***************************************************************************)
(* Which DRM format modifier the images of a swapchain are created with.   *)
(* The Wayland back end and the two dma-buf paths of the X11 back end ask  *)
(* the driver which modifiers it can import, keep the ones the display     *)
(* server takes, order them by preference and let wsialloc pick the first  *)
(* one it can allocate.  The image of every later frame has that modifier. *)
(*                                                                         *)
(* The only allocator that is built lays out linear images (see            *)
(* WsiallocPicks), so the order of the candidates does not matter and they *)
(* are a set.  A modifier is "linear", "tiled" (any the driver defines) or *)
(* "implicit" (DRM_FORMAT_MOD_INVALID).                                    *)
(***************************************************************************)
EXTENDS Naturals

Modifiers == {"linear", "tiled", "implicit"}
DriverModifiers == {"linear", "tiled"}      \* no driver lists the implicit one
NoModifier == "none"

(* What the driver says of images of the wanted format, size and usage.    *)
DriverAnswers == {"rejected", "too_small", "export_only", "importable"}

(* get_surface_compatible_formats(): "taken" are the modifiers that the    *)
(* compositor announced (Wayland), or all of them (X11).                   *)
Importable(driver, taken) ==
    {m \in DriverModifiers \cap taken : driver[m] = "importable"}

(* x11_dri3_format_for_depth() knows depth 30 too, but the tables have no  *)
(* DRM format for the Vulkan format that it names.                         *)
DepthHasFormat(depth) == depth \in {16, 24, 32}

Dri3FallbackModifiers == {"linear", "implicit"}

(* query_dri3_supported_modifiers(): a server older than DRI3 1.2, or one  *)
(* that does not reply, is not asked.                                      *)
Dri3Modifiers(server) == IF server = {} THEN Dri3FallbackModifiers ELSE server

(* filter_dri3_importable_formats(), a second time with the fallback when  *)
(* driver and server have no modifier in common.                           *)
Dri3Candidates(importable, server) ==
    LET common == importable \cap Dri3Modifiers(server)
    IN  IF common # {} THEN common ELSE importable \cap Dri3FallbackModifiers

(* The bridge prefers tiled images unless the environment asks for linear  *)
(* ones, and takes what there is when it finds none of the kind it prefers.*)
BridgeCandidates(importable, preferLinear) ==
    LET preferred == IF preferLinear THEN importable \cap {"linear"}
                                     ELSE importable \ {"linear"}
    IN  IF preferred # {} THEN preferred ELSE importable

Candidates(path, importable, server, preferLinear) ==
    CASE path = "dri3"    -> Dri3Candidates(importable, server)
      [] path = "bridge"  -> BridgeCandidates(importable, preferLinear)
      [] path = "wayland" -> importable

(* wsiallocp_alloc() goes through the formats until one can be laid out:   *)
(* calculate_format_properties() takes no modifier but the linear one.     *)
WsiallocPicks(formats) == IF "linear" \in formats THEN "linear" ELSE NoModifier
=============================================================================
