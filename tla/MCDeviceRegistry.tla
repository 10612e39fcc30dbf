-------------------------- MODULE MCDeviceRegistry --------------------------
(* Instances of the registries; the cfg files bound what is created.  The  *)
(* threads, like the handles, are interchangeable: no definition orders    *)
(* them.                                                                   *)
EXTENDS DeviceRegistry, TLC

Symmetry == Permutations(Threads) \union Permutations(Instances) \union Permutations(Devices)
=============================================================================
