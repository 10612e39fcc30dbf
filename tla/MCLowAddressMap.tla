--------------------------- MODULE MCLowAddressMap ---------------------------
(* Instances of the low-address mapping: two allocations, each of a device *)
(* of its own.                                                             *)
EXTENDS LowAddressMap, TLC

CONSTANTS m1, m2, d1, d2

MCDeviceOf == m1 :> d1 @@ m2 :> d2

Symmetry == Permutations(Threads) \union Permutations(Regions)
=============================================================================
