----------------------------- MODULE MCBackends -----------------------------
(* Four parts of the backends, of which a behaviour is about one: texture  *)
(* copies, barriers and render passes, how a Vulkan device comes up, and   *)
(* the Metal device.  The variables of the others are idle.                *)
EXTENDS VulkanSetup, Barriers, TLC

CONSTANTS
  b1, b2,      \* Metal's buffers
  ApiSerials,
  APIs, Word, RowPitchAlignment, Textures, BufferSize, Offsets, RowPitches,
  Origins, Extents   \* of TextureCopies

VARIABLES
  subject,
  texture, copy, api, status, regions, moved,
  mFinishedCommandSerial, mPendingCommandSerial, mPendingCommands, committed,
  mInflightRequests, mInflightUploadBuffers, appRefs, finishedSerial, fired, pc, cont

copyVars == <<texture, copy, api, status, regions, moved>>
metalVars ==
  <<mFinishedCommandSerial, mPendingCommandSerial, mPendingCommands, committed,
    mInflightRequests, mInflightUploadBuffers, appRefs, finishedSerial, fired, pc, cont>>

T == INSTANCE TextureCopies WITH Backends <- APIs, backend <- api
M == INSTANCE MetalDevice WITH Buffers <- {b1, b2}
ASSUME T!CopiesAssumption
ASSUME NoHoles

CopyIdle == texture = {} /\ copy = {} /\ api = {} /\ status = {} /\ regions = {} /\ moved = {}
BarrierIdle ==
  /\ backend = "none" /\ kind = "none" /\ allowed = {} /\ using = {} /\ swap = "none"
  /\ lastUsage = {} /\ native = {} /\ PassesInit
SetupIdle ==
  /\ Init /\ driver = (CHOOSE d \in Drivers : TRUE)
  /\ build = (CHOOSE b \in Builds : TRUE) /\ required = (CHOOSE r \in Requirements : TRUE)
MetalIdle ==
  /\ mFinishedCommandSerial = 0 /\ mPendingCommandSerial = 1
  /\ mPendingCommands = <<>> /\ committed = <<>> /\ finishedSerial = 0 /\ fired = {}
  /\ mInflightRequests = {} /\ mInflightUploadBuffers = {} /\ appRefs = {}
  /\ pc = "destroyed" /\ cont = "app"

BackendsInit ==
  \/ subject = "copies" /\ T!Init /\ BarrierIdle /\ SetupIdle /\ MetalIdle
  \/ subject = "barriers" /\ BarriersInit /\ CopyIdle /\ SetupIdle /\ MetalIdle
  \/ subject = "setup" /\ Init /\ CopyIdle /\ BarrierIdle /\ MetalIdle
  \/ subject = "metal" /\ M!Init /\ CopyIdle /\ BarrierIdle /\ SetupIdle
BackendsNext ==
  /\ UNCHANGED subject
  /\ \/ subject = "copies" /\ T!Next /\ UNCHANGED <<barrierVars, vars, metalVars>>
     \/ subject = "barriers" /\ BarriersNext /\ UNCHANGED <<copyVars, vars, metalVars>>
     \/ subject = "setup" /\ Next /\ UNCHANGED <<copyVars, barrierVars, metalVars>>
     \/ subject = "metal" /\ M!Next /\ UNCHANGED <<copyVars, barrierVars, vars>>

(* Metal's fairness asks for nothing while the Metal device is idle.       *)
BackendsSpec ==
  /\ BackendsInit
  /\ [][BackendsNext]_<<subject, copyVars, barrierVars, vars, metalVars>>
  /\ M!Fairness

-----------------------------------------------------------------------------
(* Copies (TextureCopies): a copy that is accepted moves, on each backend, *)
(* exactly the texels and bytes of its region, within the texture and the  *)
(* buffer.                                                                 *)
CopiesAreRight == subject = "copies" => T!BackendsCopyTheSame /\ T!StaysInBounds

(* Metal (MetalDevice): callbacks and upload buffers come back only after  *)
(* the GPU has finished what came before them, every request is answered   *)
(* and ~Device comes to its end.                                           *)
EverythingEnds == []M!CallbacksSeeFinishedWork /\ M!EverythingEnds

-----------------------------------------------------------------------------
(* Textures with one and two byte texels, several levels and layers; the   *)
(* offsets of the .cfg leave every kind of remainder by the scaled         *)
(* alignments 4 and 8.                                                     *)
MCTextures ==
    {[width |-> 5, height |-> 3, arrayLayer |-> 1, mipLevel |-> 2, texel |-> 1],
     [width |-> 4, height |-> 2, arrayLayer |-> 2, mipLevel |-> 2, texel |-> 2],
     [width |-> 4, height |-> 1, arrayLayer |-> 3, mipLevel |-> 1, texel |-> 2],
     [width |-> 4, height |-> 0, arrayLayer |-> 1, mipLevel |-> 1, texel |-> 1]}

Color(format, loadOp) == [format |-> format, loadOp |-> loadOp]
DepthStencil(depthLoadOp, stencilLoadOp) ==
  <<[format |-> "D32FloatS8Uint", depthLoadOp |-> depthLoadOp, stencilLoadOp |-> stencilLoadOp]>>
Descriptor(colors, depthStencil) == [colors |-> colors, depthStencil |-> depthStencil]

(* Descriptors that differ in one respect.                                 *)
MCDescriptors ==
  {Descriptor(<<>>, DepthStencil("Clear", "Load")), Descriptor(<<>>, DepthStencil("Clear", "Clear"))}
    \cup {Descriptor(0 :> Color("R8Unorm", op), <<>>) : op \in {"Clear", "Load"}}
    \cup {Descriptor(0 :> Color("R8Unorm", "Load") @@ 1 :> Color(f, "Load"), ds)
            : f \in {"R8Unorm", "R8G8Unorm"}, ds \in {<<>>, DepthStencil("Clear", "Load")}}

(* Machines: two GPUs and every layer, a GPU with little memory of its     *)
(* own, a software driver without windows, a GPU without a universal       *)
(* queue, and a loader without drivers.                                    *)
AllQueues == {"graphics", "compute", "transfer"}
Type(visible, local, heap) == [visible |-> visible, local |-> local, heap |-> heap]
Discrete == [extensions |-> {"swapchain", "other"},
             families |-> <<{"transfer"}, AllQueues, AllQueues>>,
             types |-> <<Type(TRUE, FALSE, 1), Type(FALSE, TRUE, 2), Type(TRUE, TRUE, 3)>>,
             heaps |-> <<4, 8, 1>>]
Small == [extensions |-> {"swapchain"}, families |-> <<AllQueues>>,
          types |-> <<Type(FALSE, TRUE, 1), Type(TRUE, FALSE, 2)>>, heaps |-> <<1, 4>>]
Software == [extensions |-> {}, families |-> <<AllQueues>>,
             types |-> <<Type(TRUE, FALSE, 1)>>, heaps |-> <<4>>]
Compute == [extensions |-> {}, families |-> <<{"transfer"}, {"compute", "transfer"}>>,
            types |-> <<Type(TRUE, TRUE, 1)>>, heaps |-> <<4>>]

Machine(layers, extensions, gpus) ==
  [layers |-> layers, extensions |-> extensions, gpus |-> gpus]
AllLayers == {"standardValidation", "vktrace", "renderDocCapture", "other"}
MCDrivers ==
  {Machine(AllLayers, {"debugReport", "surface", "xcb"}, <<Discrete, Small>>),
   Machine({"vktrace"}, {"surface", "xcb"}, <<Small>>),
   Machine({}, {"debugReport"}, <<Software>>),
   Machine({"renderDocCapture"}, {"debugReport", "surface"}, <<Compute>>),
   Machine({}, {"surface", "xcb"}, <<>>)}
MCBuilds == {{}, {"asserts"}, {"useVktrace", "useRenderdoc"},
             {"asserts", "useVktrace", "useRenderdoc"}}
MCRequirements == {<<>>, <<"surface", "xcb">>, <<"debugReport">>}
MCRequests == {{1}, {2}, {1, 2}, {1, 3}, {1, 2, 3}}
=============================================================================
