---------------------------- MODULE MCHandleKeys ----------------------------
(* Three devices on two instances, in some order of creation and           *)
(* destruction; the driver has swapchains of its own.                      *)
EXTENDS HandleKeys, TLC

DriverHas == SwapchainCommands \union DeviceWrappers \union EmulationHooks \union Withheld
             \union {"vkReleaseSwapchainImagesEXT", "vkCmdDraw"}

Symmetry == Permutations(Instances) \union Permutations(Queues)
            \union Permutations(Words) \union Permutations(Blocks)
=============================================================================
