---------------------------- MODULE VulkanHandles ----------------------------
(* The handles the driver gives out, in every module that speaks of them.  *)
CONSTANTS
    None,       \* a null handle, key or pointer
    Instances,  \* handles the driver may give an instance
    Devices     \* handles the driver may give a device
=============================================================================
