---------------------------- MODULE VulkanSetup ----------------------------
(***************************************************************************)
(* How a Vulkan device comes up and goes away (vulkan/DeviceVk.cpp,        *)
(* VulkanInfo.cpp, VulkanFunctions.cpp), with its memory types             *)
(* (MemoryAllocator.cpp) and its native swap chain                         *)
(* (NativeSwapChainImplVk.cpp).                                            *)
(*                                                                         *)
(* The driver of the machine is data: layers, extensions and GPUs.  Every  *)
(* call to it and every load of entry points may fail.  A failure stops a  *)
(* build with assertions ("aborted"); otherwise the constructor returns,   *)
(* and CreateDevice hands out the half-made device all the same            *)
(* ("failed").  A layer, an extension and the knob that says it is used    *)
(* have one name.  Entry points are loaded, and called, by group.          *)
(* A definition named X_Fault is X with a plausible bug: nothing uses it.  *)
(***************************************************************************)
EXTENDS Naturals, Sequences, FiniteSets, SequencesExt, FiniteSetsExt

CONSTANTS
  Drivers,        \* the Vulkan installations to run on
  Builds,         \* sets of "asserts", "useVktrace" and "useRenderdoc"
  Requirements,   \* the instance extensions applications ask CreateDevice for
  Requests,       \* sets of memory types a resource may live in
  Careful         \* the application drops a device that failed and configures
                  \* a native swap chain once, on a device that has swap chains

(* What Vulkan promises of an installation: every type of memory has a heap,*)
(* and the extension of devices for swap chains needs that of instances for *)
(* surfaces.                                                               *)
GPUs == [extensions : SUBSET STRING, families : Seq(SUBSET STRING),
         types : Seq([visible : BOOLEAN, local : BOOLEAN, heap : Nat]), heaps : Seq(Nat)]
ASSUME DriversAssumption ==
  \A d \in Drivers : d.gpus \in Seq(GPUs) /\
    \A k \in DOMAIN d.gpus :
      /\ \A t \in DOMAIN d.gpus[k].types : d.gpus[k].types[t].heap \in DOMAIN d.gpus[k].heaps
      /\ "swapchain" \in d.gpus[k].extensions => "surface" \in d.extensions
ASSUME RequirementsAssumption == Requirements \subseteq Seq(STRING)

Universal == {"graphics", "compute", "transfer"}
NoAllocation == [allowed |-> {}, mappable |-> FALSE, type |-> 0]

VARIABLES
  driver, build, required,
  at,             \* the next step of Device::Device, or what became of it
  info,           \* the knobs GatherGlobalInfo and GatherDeviceInfo found
  used,           \* the knobs in use, which replace those of info
  layersToRequest, extensionsToRequest, deviceExtensions,
  mQueueFamily,
  loaded,         \* groups of entry points that VulkanFunctions has
  unloaded,       \* groups called while they were not loaded
  made,           \* Vulkan objects that exist
  gone,           \* those destroyed, in order
  deleting,       \* what waits in FencedDeleter
  allocation      \* the last result of MemoryAllocator::Allocate

machine == <<driver, build, required>>
requests == <<layersToRequest, extensionsToRequest, deviceExtensions, mQueueFamily>>
knobs == <<info, used>>
objects == <<made, gone, deleting, allocation>>
vars == <<machine, at, requests, knobs, loaded, unloaded, objects>>

Init ==
  /\ driver \in Drivers /\ build \in Builds /\ required \in Requirements
  /\ at = "globalProcs" /\ info = {} /\ used = {}
  /\ layersToRequest = <<>> /\ extensionsToRequest = <<>> /\ deviceExtensions = <<>>
  /\ mQueueFamily = 0 /\ loaded = {} /\ unloaded = {}
  /\ made = {} /\ gone = <<>> /\ deleting = {} /\ allocation = NoAllocation

Calls(groups) == unloaded' = unloaded \cup (groups \ loaded)
Failed == at' = IF "asserts" \in build THEN "aborted" ELSE "failed"
gpu == driver.gpus[1]

-----------------------------------------------------------------------------
(* The steps of Device::Device.  A load stops at the first entry point     *)
(* that is missing; the groups before it stay loaded.                      *)

Load(here, groups, there) ==
  /\ at = here
  /\ \E n \in 0..Len(groups) :
       /\ loaded' = loaded \cup ToSet(SubSeq(groups, 1, n))
       /\ IF n = Len(groups) THEN at' = there ELSE Failed
  /\ UNCHANGED <<machine, requests, knobs, unloaded, objects>>

LoadGlobalProcs == Load("globalProcs", <<"global">>, "globalInfo")

(* Other layers may come and go between the two calls of an enumeration,   *)
(* which then fails with VK_INCOMPLETE.                                    *)
Gather(here, group, found, there) ==
  /\ at = here
  /\ Calls({group})
  /\ \/ at' = there /\ info' = info \cup found
     \/ Failed /\ UNCHANGED info
  /\ UNCHANGED <<machine, requests, used, loaded, objects>>

GatherGlobalInfo ==
  Gather("globalInfo", "global",
         (driver.layers \cap {"standardValidation", "vktrace", "renderDocCapture"})
           \cup (driver.extensions \cap {"debugReport", "surface"}), "instance")

(* push_back, under a condition.                                           *)
Pushed(x, condition) == IF condition THEN <<x>> ELSE <<>>

(* The layers in the order they are asked for: vktrace goes first, so that *)
(* it does not see the calls other layers insert.                          *)
UsedLayers ==
  Pushed("vktrace", "vktrace" \in info /\ "useVktrace" \in build)
    \o Pushed("renderDocCapture", "renderDocCapture" \in info /\ "useRenderdoc" \in build)
    \o Pushed("standardValidation", "standardValidation" \in info /\ "asserts" \in build)

UsableExtensions == {"surface"} \cup (IF "asserts" \in build THEN {"debugReport"} ELSE {})
UsedExtensions_FaultRequired == (info \cap UsableExtensions) \ ToSet(required)
UsedExtensions == info \cap UsableExtensions

AddExtensionIfNotPresent(extensions, extension) ==
  IF Contains(extensions, extension) THEN extensions ELSE Append(extensions, extension)

ExtensionsToRequest ==
  LET Added(extensions, knob) == IF knob \in UsedExtensions
                                 THEN AddExtensionIfNotPresent(extensions, knob)
                                 ELSE extensions
  IN  Added(Added(required, "debugReport"), "surface")

CreateInstance ==
  /\ at = "instance"
  /\ Calls({"global"})
  /\ layersToRequest' = UsedLayers /\ extensionsToRequest' = ExtensionsToRequest
  /\ \/ /\ ToSet(extensionsToRequest') \subseteq driver.extensions
        /\ at' = "instanceProcs" /\ made' = made \cup {"instance"}
        /\ used' = ToSet(UsedLayers) \cup UsedExtensions
     \/ Failed /\ UNCHANGED <<made, used>>
  /\ UNCHANGED <<machine, deviceExtensions, mQueueFamily, info, loaded, gone, deleting,
                 allocation>>

(* DestroyInstance comes first, "so that we can destroy the instance even  *)
(* if some other GET_INSTANCE_PROC fails".                                 *)
LoadInstanceProcs ==
  Load("instanceProcs",
       <<"destroyInstance", "instance">>
         \o Pushed("debugReport", "debugReport" \in used)
         \o Pushed("surface", "surface" \in used),
       IF "debugReport" \in used THEN "registerDebugReport" ELSE "physicalDevices")

RegisterDebugReport ==
  /\ at = "registerDebugReport"
  /\ Calls({"debugReport"})
  /\ \/ at' = "physicalDevices" /\ made' = made \cup {"debugReport"}
     \/ Failed /\ UNCHANGED made
  /\ UNCHANGED <<machine, requests, knobs, loaded, gone, deleting, allocation>>

GetPhysicalDevices ==
  /\ at = "physicalDevices"
  /\ Calls({"instance"})
  /\ \/ driver.gpus # <<>> /\ at' = "deviceInfo"
     \/ Failed
  /\ UNCHANGED <<machine, requests, knobs, loaded, objects>>

GatherDeviceInfo ==
  /\ driver.gpus # <<>>
  /\ Gather("deviceInfo", "instance", gpu.extensions \cap {"swapchain"}, "device")

UniversalFamilies == {i \in DOMAIN gpu.families : Universal \subseteq gpu.families[i]}

CreateDevice ==
  /\ at = "device"
  /\ Calls(IF UniversalFamilies = {} THEN {} ELSE {"instance"})
  /\ deviceExtensions' = Pushed("swapchain", "swapchain" \in info)
  /\ mQueueFamily' = IF UniversalFamilies = {} THEN 0 ELSE Min(UniversalFamilies)
  /\ \/ /\ UniversalFamilies # {}
        /\ at' = "deviceProcs" /\ made' = made \cup {"device"}
        /\ used' = used \cup (info \cap {"swapchain"})
     \/ Failed /\ UNCHANGED <<made, used>>
  /\ UNCHANGED <<machine, layersToRequest, extensionsToRequest, info, loaded, gone,
                 deleting, allocation>>

(* GatherQueueFromDevice and the services of the device follow, which      *)
(* cannot fail.                                                            *)
LoadDeviceProcs ==
  Load("deviceProcs",
       <<"device">> \o Pushed("swapchain", "swapchain" \in used), "ready")

-----------------------------------------------------------------------------
(* The services in use. *)

(* Those of three kinds of objects that are there, in order.               *)
InTurn(order, there) ==
  Pushed(order[1], order[1] \in there) \o Pushed(order[2], order[2] \in there)
    \o Pushed(order[3], order[3] \in there)

(* What FencedDeleter::Tick destroys of these, in its order. *)
DeletionOrder_FaultSurfaceFirst == <<"memory", "surface", "swapchain">>
DeletionOrder == <<"memory", "swapchain", "surface">>

EntryPointOf(object) == CASE object = "memory" -> "device"
                          [] object = "swapchain" -> "swapchain"
                          [] object = "surface" -> "surface"

Deletes == InTurn(DeletionOrder, deleting)

(* Everything released has one serial here: VulkanDevice is about serials. *)
Tick ==
  /\ at = "ready" /\ deleting # {}
  /\ Calls({EntryPointOf(object) : object \in deleting})
  /\ made' = made \ deleting /\ gone' = gone \o Deletes /\ deleting' = {}
  /\ UNCHANGED <<machine, at, requests, knobs, loaded, allocation>>

(* The window system makes a surface with the application's instance; the  *)
(* native swap chain implementation takes it over.                         *)
CreateSurface ==
  /\ at = "ready" /\ Contains(extensionsToRequest, "surface")
  /\ "surface" \notin ToSet(gone) \cup made
  /\ Careful => "swapchain" \in used
  /\ made' = made \cup {"surface"}
  /\ UNCHANGED <<machine, at, requests, knobs, loaded, unloaded, gone, deleting, allocation>>

(* Init gathers what the surface supports, Configure makes the swap chain  *)
(* and its images.  A second Configure would forget the first swap chain.  *)
Configure ==
  /\ at = "ready" /\ "surface" \in made \ deleting
  /\ Careful => "swapchain" \notin made
  /\ Calls({"surface", "swapchain"})
  /\ \/ made' = made \cup (IF "swapchain" \in made THEN {"forgotten"} ELSE {"swapchain"})
        /\ UNCHANGED at
     \/ Failed /\ UNCHANGED made
  /\ UNCHANGED <<machine, requests, knobs, loaded, gone, deleting, allocation>>

DestroySwapChain ==
  /\ at = "ready" /\ "surface" \in made \ deleting
  /\ deleting' = deleting \cup (made \cap {"surface", "swapchain"})
  /\ UNCHANGED <<machine, at, requests, knobs, loaded, unloaded, made, gone, allocation>>

Candidate(i, allowed, mappable) == i \in allowed /\ (mappable => gpu.types[i].visible)

(* Both sizes are read from the heap of the best type so far, so that the  *)
(* biggest heap is never favored: of equal types the first one stays.      *)
CandidateHeap_FaultFavored(best, i) == i
CandidateHeap(best, i) == best
HeapSize(type) == gpu.heaps[gpu.types[type].heap]

BestType(allowed, mappable) ==
  LET bestType[i \in 0..Len(gpu.types)] ==
        IF i = 0 THEN 0
        ELSE LET best == bestType[i - 1]
             IN  IF ~Candidate(i, allowed, mappable) THEN best
                 ELSE IF best = 0 THEN i
                 ELSE IF ~mappable /\ ~gpu.types[best].local /\ gpu.types[i].local THEN i
                 ELSE IF HeapSize(CandidateHeap(best, i)) > HeapSize(best) THEN i
                 ELSE best
  IN  bestType[Len(gpu.types)]

(* When MapMemory fails the memory stays allocated and nobody knows it.    *)
Allocate ==
  /\ at = "ready" /\ "memory" \notin ToSet(gone) \cup made
  /\ \E allowed \in Requests \cap SUBSET DOMAIN gpu.types, mappable \in BOOLEAN :
       LET type == BestType(allowed, mappable)
       IN  IF type = 0
           THEN Failed /\ UNCHANGED <<unloaded, made, allocation>>
           ELSE /\ Calls({"device"})
                /\ \/ /\ made' = made \cup {"memory"} /\ UNCHANGED at
                      /\ allocation' =
                           [allowed |-> allowed, mappable |-> mappable, type |-> type]
                   \/ Failed /\ UNCHANGED <<made, allocation>>
                   \/ /\ mappable /\ Failed /\ made' = made \cup {"memory"}
                      /\ UNCHANGED allocation
  /\ UNCHANGED <<machine, requests, knobs, loaded, gone, deleting>>

Free ==
  /\ at = "ready" /\ "memory" \in made \ deleting
  /\ deleting' = deleting \cup {"memory"} /\ allocation' = NoAllocation
  /\ UNCHANGED <<machine, at, requests, knobs, loaded, unloaded, made, gone>>

-----------------------------------------------------------------------------
(* ~Device: Tick, now that all serials look finished, and then the device, *)
(* the callback and the instance.  The application has released what it    *)
(* made with the device.  It would wait for the queue of a failed device   *)
(* before anything else.                                                   *)

DestructionOrder == <<"device", "debugReport", "instance">>

Destroys == InTurn(DestructionOrder, made)

DestroyDevice ==
  /\ at = "ready" \/ (~Careful /\ at = "failed")
  /\ made \ deleting \subseteq ToSet(DestructionOrder) \cup {"forgotten"}
  /\ Calls({EntryPointOf(object) : object \in deleting}
             \cup {"device", "instance", "destroyInstance"} \cup (made \cap {"debugReport"}))
  /\ at' = "destroyed" /\ gone' = gone \o Deletes \o Destroys
  /\ made' = made \ (deleting \cup ToSet(DestructionOrder)) /\ deleting' = {}
  /\ UNCHANGED <<machine, requests, knobs, loaded, allocation>>

Startup == LoadGlobalProcs \/ GatherGlobalInfo \/ CreateInstance \/ LoadInstanceProcs
             \/ RegisterDebugReport \/ GetPhysicalDevices \/ GatherDeviceInfo
             \/ CreateDevice \/ LoadDeviceProcs
Use == Tick \/ CreateSurface \/ Configure \/ DestroySwapChain \/ Allocate \/ Free
Next == Startup \/ Use \/ DestroyDevice
Spec == Init /\ [][Next]_vars

-----------------------------------------------------------------------------
(* No entry point is called before it was loaded: knobs that say what was  *)
(* requested, not what the driver has, decide which ones are loaded.       *)
NothingCalledUnloaded == unloaded = {}

(* Layers and extensions that are asked for exist, once each, unless the   *)
(* application asked for them; vktrace is the first layer; a device        *)
(* extension comes with the instance extension it needs.                   *)
RequestsAreAvailable ==
  /\ ToSet(layersToRequest) \subseteq driver.layers
  /\ ToSet(extensionsToRequest) \subseteq driver.extensions \cup ToSet(required)
  /\ IsInjective(required) => IsInjective(extensionsToRequest)
  /\ Contains(layersToRequest, "vktrace") => Head(layersToRequest) = "vktrace"
  /\ Contains(deviceExtensions, "swapchain") => Contains(extensionsToRequest, "surface")

(* The two together: only loaded entry points are called, and only what is *)
(* there is requested.                                                     *)
OnlyWhatIsThere == NothingCalledUnloaded /\ RequestsAreAvailable

(* An object goes before the one it was made from, and a device that is    *)
(* destroyed leaves nothing behind.                                        *)
ChildrenFirst ==
  LET Before(child, parent) ==
        \A i \in DOMAIN gone : gone[i] = parent =>
          child \notin made /\ \A j \in DOMAIN gone : gone[j] = child => j < i
  IN  /\ Before("swapchain", "surface") /\ Before("swapchain", "device")
      /\ Before("forgotten", "surface") /\ Before("memory", "device")
      /\ \A child \in {"surface", "debugReport", "device"} : Before(child, "instance")
      /\ at = "destroyed" => made = {}

(* Memory is of a type the resource allows, visible to the host if it has  *)
(* to be mapped, and else local to the GPU whenever such a type is         *)
(* allowed.                                                                *)
MemoryIsSuitable ==
  allocation.type # 0 =>
    /\ allocation.type \in allocation.allowed
    /\ allocation.mappable => gpu.types[allocation.type].visible
    /\ (~allocation.mappable /\ \E i \in allocation.allowed : gpu.types[i].local)
         => gpu.types[allocation.type].local
=============================================================================
