---------------------------- MODULE EntryPoints -----------------------------
(***************************************************************************)
(* Which function a command name stands for: the wrapper has its own of    *)
(* some (core/mali_wrapper_icd.cpp), the WSI layer of others               *)
(* (core/wsi_manager.cpp), an active compatibility profile of a few more,  *)
(* and the rest is the driver's.                                           *)
(***************************************************************************)
EXTENDS FiniteSets

CONSTANTS
    DriverCommands,   \* the commands the driver has
    Emulated,         \* the devices with an active compatibility profile
    Unsafe            \* those of them whose profile emulates sparse resources

-----------------------------------------------------------------------------
(* WSIManager::is_wsi_function(). *)
SurfaceCommands ==
    {"vkCreateXlibSurfaceKHR", "vkCreateXcbSurfaceKHR", "vkCreateWaylandSurfaceKHR",
     "vkCreateDisplaySurfaceKHR", "vkCreateHeadlessSurfaceEXT", "vkDestroySurfaceKHR",
     "vkGetPhysicalDeviceSurfaceSupportKHR", "vkGetPhysicalDeviceSurfaceCapabilitiesKHR",
     "vkGetPhysicalDeviceSurfaceCapabilities2KHR", "vkGetPhysicalDeviceSurfaceFormatsKHR",
     "vkGetPhysicalDeviceSurfaceFormats2KHR", "vkGetPhysicalDeviceSurfacePresentModesKHR",
     "vkGetPhysicalDeviceWaylandPresentationSupportKHR",
     "vkGetPhysicalDeviceXcbPresentationSupportKHR",
     "vkGetPhysicalDeviceXlibPresentationSupportKHR"}
SwapchainCommands ==
    {"vkCreateSwapchainKHR", "vkDestroySwapchainKHR", "vkGetSwapchainImagesKHR",
     "vkAcquireNextImageKHR", "vkAcquireNextImage2KHR", "vkQueuePresentKHR",
     "vkGetSwapchainStatusKHR"}
GroupCommands ==
    {"vkGetDeviceGroupPresentCapabilitiesKHR", "vkGetDeviceGroupSurfacePresentModesKHR",
     "vkGetPhysicalDevicePresentRectanglesKHR"}
WsiFunctions == SurfaceCommands \union SwapchainCommands \union GroupCommands

(* WSIManager::get_function_pointer() has less than is_wsi_function(). *)
FunctionPointers == WsiFunctions \ (GroupCommands \union {"vkCreateDisplaySurfaceKHR"})

(* The wrapper's own device commands, and what a profile replaces. *)
MapCommands == {"vkMapMemory", "vkUnmapMemory", "vkMapMemory2", "vkMapMemory2KHR",
                "vkUnmapMemory2", "vkUnmapMemory2KHR"}
DeviceWrappers == MapCommands \union
    {"vkDestroyDevice", "vkAllocateMemory", "vkCreateImage", "vkCreateGraphicsPipelines",
     "vkFreeMemory", "vkFlushMappedMemoryRanges", "vkInvalidateMappedMemoryRanges",
     "vkQueueSubmit", "vkQueueSubmit2", "vkQueueSubmit2KHR", "vkGetDeviceQueue",
     "vkGetDeviceQueue2", "vkGetDeviceProcAddr"}
EmulationHooks ==
    {"vkCreateQueryPool", "vkDestroyQueryPool", "vkGetQueryPoolResults", "vkCmdBeginQuery",
     "vkCmdEndQuery", "vkCmdResetQueryPool", "vkResetQueryPool", "vkResetQueryPoolEXT",
     "vkCmdCopyQueryPoolResults"}
SparseCommands ==
    {"vkCreateBuffer", "vkDestroyBuffer", "vkCreateImage", "vkDestroyImage",
     "vkGetImageSparseMemoryRequirements", "vkGetImageSparseMemoryRequirements2",
     "vkGetImageSparseMemoryRequirements2KHR", "vkGetDeviceImageSparseMemoryRequirements",
     "vkGetDeviceImageSparseMemoryRequirementsKHR", "vkGetDeviceBufferMemoryRequirements",
     "vkGetDeviceBufferMemoryRequirementsKHR", "vkGetDeviceImageMemoryRequirements",
     "vkGetDeviceImageMemoryRequirementsKHR", "vkQueueBindSparse"}
Hooks(d) == {c \in EmulationHooks : d \in Emulated} \union {c \in SparseCommands : d \in Unsafe}

(* What the name of a command may not contain: "RayTracing", "MeshTask". *)
Withheld == {"vkCreateRayTracingPipelinesKHR", "vkCmdDrawMeshTasksEXT"}

FromDriver(c) == IF c \in DriverCommands THEN "driver" ELSE "none"

(* The wrapper's own instance commands. *)
InstanceWrappers ==
    {"vkGetInstanceProcAddr", "vkCreateInstance", "vkDestroyInstance", "vkDestroyDevice",
     "vkEnumerateInstanceExtensionProperties", "vkEnumeratePhysicalDevices",
     "vkEnumeratePhysicalDeviceGroups", "vkEnumeratePhysicalDeviceGroupsKHR",
     "vkEnumerateDeviceExtensionProperties", "vkGetDeviceProcAddr", "vkCreateDevice",
     "vkGetPhysicalDeviceFeatures", "vkGetPhysicalDeviceFeatures2",
     "vkGetPhysicalDeviceFeatures2KHR", "vkGetPhysicalDeviceProperties",
     "vkGetPhysicalDeviceProperties2", "vkGetPhysicalDeviceProperties2KHR",
     "vkGetPhysicalDeviceQueueFamilyProperties", "vkGetPhysicalDeviceQueueFamilyProperties2",
     "vkGetPhysicalDeviceQueueFamilyProperties2KHR",
     "vkGetPhysicalDeviceSparseImageFormatProperties",
     "vkGetPhysicalDeviceSparseImageFormatProperties2",
     "vkGetPhysicalDeviceSparseImageFormatProperties2KHR"}

(* vk_icdGetInstanceProcAddr(): what the layer is said to have and has no  *)
(* function for is the driver's here.                                      *)
ResolveInstance(c) ==
    IF c \in InstanceWrappers THEN "wrapper"
    ELSE IF c \in FunctionPointers THEN "layer" ELSE FromDriver(c)

(* vkGetDeviceProcAddr(); a device the wrapper does not manage has no      *)
(* command of the driver.                                                  *)
Resolve(d, c, managed) ==
    CASE c \in Hooks(d) -> "emulation"
      [] c \in DeviceWrappers \ Hooks(d) -> "wrapper"
      [] c \in WsiFunctions -> IF c \in FunctionPointers THEN "layer" ELSE "none"
      [] c \in Withheld -> "none"
      [] OTHER -> IF managed THEN FromDriver(c) ELSE "none"
=============================================================================
