--------------------------- MODULE DescriptorHeaps ---------------------------
(***************************************************************************)
(* Descriptors on Direct3D 12                                              *)
(* (src/src/dawn_native/d3d12/DescriptorHeapAllocator.cpp,                 *)
(* RenderPassDescriptorD3D12.cpp, CommandBufferD3D12.cpp), and the COM     *)
(* objects that the device keeps until the GPU is done with them.          *)
(*                                                                         *)
(* A heap is an array of descriptors; it exists while a handle refers to   *)
(* it: the pool it is allocated from, what was released but not ticked     *)
(* away, or a render pass.  The GPU reads tables of the heaps while it     *)
(* executes, long after they were recorded.  A descriptor is what it       *)
(* describes: a binding of a bind group, or an attachment.                 *)
(***************************************************************************)
EXTENDS Integers, Sequences, FiniteSets, SerialQueue

CONSTANTS
  BindGroups,
  DescriptorCount,  \* of a group, per binding type: those of its layout
  Pipelines,
  RenderPasses,     \* attachments of render passes: [mask, depth]
  CpuHeapSize, GpuHeapSize,   \* per type; 8192 and 2048, and 1000000 and 2048
  Word,             \* stands for 2^32
  ApiSerials,       \* bound: API calls happen while mSerial <= this
  MaxHeaps,         \* bound: no allocation begins with this many heaps made
  Careful           \* color attachments leave no slot out, nothing is dropped
                    \* in callbacks of ~Device, descriptors fit the CPU heaps,
                    \* command buffers of a Submit share no bind group

BindingTypes == {"views", "samplers"}
HeapTypes == BindingTypes \cup {"rtv", "dsv"}
ASSUME SizesAssumption ==
  /\ Word \in Nat /\ Word > 1
  /\ \A t \in BindingTypes :
       /\ CpuHeapSize[t] \in Nat \ {0} /\ GpuHeapSize[t] \in Nat
       /\ CpuHeapSize[t] <= GpuHeapSize[t] /\ GpuHeapSize[t] < Word
       /\ \A g \in BindGroups : DescriptorCount[g][t] \in Nat
ASSUME PassesAssumption ==
  \A pass \in RenderPasses : /\ pass.mask \subseteq Nat /\ IsFiniteSet(pass.mask)
                             /\ Cardinality(pass.mask) < Word /\ pass.depth \in BOOLEAN

VARIABLES
  mSerial, completed,
  heaps,            \* contents of all heaps so far
  infos,            \* the pools: heap, size and what remains of it
  mReleasedHandles, \* heaps: a SerialQueue
  mUsedComObjectRefs,         \* pipeline states: a SerialQueue
  renderPasses,     \* descriptors that exist (bound: one at a time)
  pipelines,        \* pipelines that exist
  mHeapSerial,      \* of a group: when its descriptors were last recorded
  mHeapOffset,      \* of a group, per type: where in the heap of that recording
  cpuHeap,          \* the BindGroupStateTracker of the command buffer that is
  descriptorIndex,  \* recorded: its CPU heaps, how many descriptors are in them,
  bindGroups,       \* and the groups it sets
  gpuQueue,         \* submissions that the GPU has not finished
  lastCompletedSerial, pc, cont

groupVars == <<mHeapSerial, mHeapOffset, cpuHeap, descriptorIndex, bindGroups>>
heapVars == <<heaps, infos, mReleasedHandles, groupVars>>
vars == <<mSerial, completed, heapVars, mUsedComObjectRefs, renderPasses, pipelines,
          gpuQueue, lastCompletedSerial, pc, cont>>

Garbage == <<"garbage">>
NullHandle == [heap |-> 0, offset |-> 0]

Init ==
  /\ mSerial = 1 /\ completed = 0
  /\ heaps = <<>>
  /\ infos = [p \in {"cpu", "gpu"} \X HeapTypes |-> [heap |-> 0, size |-> 0, remaining |-> 0]]
  /\ mReleasedHandles = {} /\ mUsedComObjectRefs = {}
  /\ renderPasses = {} /\ pipelines = Pipelines
  /\ mHeapSerial = [g \in BindGroups |-> 0]
  /\ mHeapOffset = [g \in BindGroups |-> [t \in BindingTypes |-> 0]]
  /\ cpuHeap = [t \in BindingTypes |-> NullHandle]
  /\ descriptorIndex = [t \in BindingTypes |-> 0] /\ bindGroups = {}
  /\ gpuQueue = {}
  /\ lastCompletedSerial = 0 /\ pc = "app" /\ cont = "app"

-----------------------------------------------------------------------------
(* The allocator; a is a record of heapVars and of the last handle.  A     *)
(* definition named X_Fault is X with a plausible bug: nothing uses it, it *)
(* serves to see that a property notices the bug.                          *)
allocator == [heaps |-> heaps, infos |-> infos, released |-> mReleasedHandles,
              handle |-> NullHandle]

ReleaseSerial_FaultPrevious == mSerial - 1
ReleaseSerial == mSerial

(* Linear allocation from the heap of the pool, or a new heap for it.      *)
Allocate(a, pool, count, allocationSize) ==
  LET info == a.infos[pool]
      fits == info.remaining >= count
      heap == IF fits THEN info.heap ELSE Len(a.heaps) + 1
      handle == [heap |-> heap, offset |-> IF fits THEN info.size - info.remaining ELSE 0]
  IN IF count = 0 THEN [a EXCEPT !.handle = NullHandle]
     ELSE [heaps |-> IF fits THEN a.heaps
                     ELSE Append(a.heaps, [i \in 0..allocationSize - 1 |-> Garbage]),
           infos |-> [a.infos EXCEPT ![pool] =
                        IF fits THEN [info EXCEPT !.remaining = @ - count]
                        ELSE [heap |-> heap, size |-> allocationSize,
                              remaining |-> (allocationSize - count) % Word]],
           released |-> Enqueue(a.released, {handle.heap}, ReleaseSerial),
           handle |-> handle]

AllocateCPUHeap(a, type, count) == Allocate(a, <<"cpu", type>>, count, count)
AllocateGPUHeap(a, type, count) == Allocate(a, <<"gpu", type>>, count, GpuHeapSize[type])

(* Descriptors written at index from of a handle; what is past the end of  *)
(* the heap is written to nobody knows where.                              *)
Write(a, handle, from, descriptors) ==
  LET start == handle.offset + from
      written(i) == i >= start /\ i < start + Len(descriptors)
  IN [a EXCEPT !.heaps[handle.heap] =
        [i \in DOMAIN @ |-> IF written(i) THEN descriptors[i - start + 1] ELSE @[i]]]

WriteColors(a, handle, pass, mask) ==
  LET slot(i) == i - handle.offset
  IN [a EXCEPT !.heaps[handle.heap] =
        [i \in DOMAIN @ |-> IF slot(i) \in mask THEN <<"color", pass, slot(i)>> ELSE @[i]]]

Read(a, handle, count) ==
  [k \in 1..count |-> LET i == handle.offset + k - 1
                      IN IF i \in DOMAIN a.heaps[handle.heap]
                         THEN a.heaps[handle.heap][i] ELSE Garbage]

TakeAllocator(a) ==
  heaps' = a.heaps /\ infos' = a.infos /\ mReleasedHandles' = a.released

-----------------------------------------------------------------------------
(* The API, also from map callbacks in the middle of a tick.               *)
InApp == pc \in {"app", "callback"} /\ mSerial <= ApiSerials

(* Descriptors of the color attachments, at the index of their slot in a   *)
(* heap for as many as there are, and one of the depth stencil attachment. *)
CreateRenderPass(mask, hasDepthStencil) ==
  /\ InApp /\ Len(heaps) < MaxHeaps /\ renderPasses = {}
  /\ Careful => mask = 0..Cardinality(mask) - 1
  /\ LET pass == Len(heaps)  \* names the pass
         rtv == AllocateCPUHeap(allocator, "rtv", Cardinality(mask))
         colored == IF mask = {} THEN rtv ELSE WriteColors(rtv, rtv.handle, pass, mask)
         dsv == AllocateCPUHeap(colored, "dsv", IF hasDepthStencil THEN 1 ELSE 0)
         filled == IF hasDepthStencil THEN Write(dsv, dsv.handle, 0, <<<<"depth", pass>>>>)
                                      ELSE dsv
     IN /\ TakeAllocator(filled)
        /\ renderPasses' =
             renderPasses \cup {[name |-> pass, mask |-> mask, depth |-> hasDepthStencil,
                                 rtv |-> rtv.handle, dsv |-> dsv.handle]}
  /\ UNCHANGED <<mSerial, completed, mUsedComObjectRefs, pipelines, groupVars, gpuQueue,
                 lastCompletedSerial, pc, cont>>

ReleaseRenderPass(pass) ==
  /\ InApp
  /\ renderPasses' = renderPasses \ {pass}
  /\ UNCHANGED <<mSerial, completed, heapVars, mUsedComObjectRefs, pipelines, gpuQueue,
                 lastCompletedSerial, pc, cont>>

(* ~ComputePipeline and ~RenderPipeline: ReferenceUntilUnused.             *)
ReleasePipeline(p) ==
  /\ InApp \/ (pc = "callback" /\ cont = "destroyed" /\ ~Careful)
  /\ pipelines' = pipelines \ {p}
  /\ mUsedComObjectRefs' = Enqueue(mUsedComObjectRefs, {p}, mSerial)
  /\ UNCHANGED <<mSerial, completed, heapVars, renderPasses, gpuQueue,
                 lastCompletedSerial, pc, cont>>

-----------------------------------------------------------------------------
(* RecordCommands goes through the commands twice.  First the descriptors  *)
(* of the bind groups are recorded into CPU heaps, and copied to GPU heaps *)
(* of as many: where those of a group are is kept in the group itself.     *)
(* Then the tables of the groups are set at these offsets.                 *)
Bindings(g, type) == [k \in 1..DescriptorCount[g][type] |-> <<type, g, k>>]

(* A group that was recorded at the current serial is not recorded again,  *)
(* be it by an earlier command buffer of the same Submit.                  *)
NeedsRecording(g) == mHeapSerial[g] # mSerial
RecordDescriptors(a, g, type) ==
  Write(a, cpuHeap[type], descriptorIndex[type], Bindings(g, type))

CopyToGPUHeap(a, type) ==
  LET count == descriptorIndex[type]
      gpu == AllocateGPUHeap(a, type, count)
  IN IF count = 0 THEN gpu ELSE Write(gpu, gpu.handle, 0, Read(a, cpuHeap[type], count))

Table(handle, g, type) ==
  [handle |-> [heap |-> handle.heap, offset |-> handle.offset + mHeapOffset[g][type]],
   descriptors |-> Bindings(g, type)]
Tables(handle, type) ==
  {Table(handle, g, type) : g \in {h \in bindGroups : DescriptorCount[h][type] > 0}}

(* Queue::SubmitImpl: a tick, the commands, and the next serial.           *)
Submit ==
  /\ pc = "app" /\ InApp
  /\ pc' = "tick" /\ cont' = "submit"
  /\ UNCHANGED <<mSerial, completed, heapVars, mUsedComObjectRefs, renderPasses, pipelines,
                 gpuQueue, lastCompletedSerial>>

(* Both CPU heaps are of a fixed size.                                     *)
BeginRecording ==
  /\ pc = "submit" /\ Len(heaps) < MaxHeaps
  /\ LET views == AllocateCPUHeap(allocator, "views", CpuHeapSize["views"])
         samplers == AllocateCPUHeap(views, "samplers", CpuHeapSize["samplers"])
     IN /\ TakeAllocator(samplers)
        /\ cpuHeap' = [t \in BindingTypes |->
                         IF t = "views" THEN views.handle ELSE samplers.handle]
  /\ pc' = "recording"
  /\ UNCHANGED <<mSerial, completed, mHeapSerial, mHeapOffset, descriptorIndex, bindGroups,
                 mUsedComObjectRefs, renderPasses, pipelines, gpuQueue,
                 lastCompletedSerial, cont>>

(* A group of the command buffer: one it sets or inherits.                 *)
TrackSetBindGroup(g) ==
  /\ pc = "recording"
  /\ Careful => \/ g \in bindGroups
                \/ /\ NeedsRecording(g)
                   /\ \A t \in BindingTypes :
                        descriptorIndex[t] + DescriptorCount[g][t] <= CpuHeapSize[t]
  /\ bindGroups' = bindGroups \cup {g}
  /\ \/ /\ NeedsRecording(g)
        /\ TakeAllocator(RecordDescriptors(RecordDescriptors(allocator, g, "views"),
                                           g, "samplers"))
        /\ mHeapSerial' = [mHeapSerial EXCEPT ![g] = mSerial]
        /\ mHeapOffset' = [mHeapOffset EXCEPT ![g] = descriptorIndex]
        /\ descriptorIndex' =
             [t \in BindingTypes |-> descriptorIndex[t] + DescriptorCount[g][t]]
     \/ /\ ~NeedsRecording(g)
        /\ UNCHANGED <<heaps, infos, mReleasedHandles, mHeapSerial, mHeapOffset,
                       descriptorIndex>>
  /\ UNCHANGED <<mSerial, completed, cpuHeap, mUsedComObjectRefs, renderPasses, pipelines,
                 gpuQueue, lastCompletedSerial, pc, cont>>

(* The passes of a command buffer read their views while it is recorded.   *)
RecordCommands(p) ==
  /\ pc = "recording" /\ p \in pipelines
  /\ LET views == CopyToGPUHeap(allocator, "views")
         samplers == CopyToGPUHeap(views, "samplers")
     IN /\ TakeAllocator(samplers)
        /\ gpuQueue' = gpuQueue \cup
             {[serial |-> mSerial, pipeline |-> p,
               tables |-> Tables(views.handle, "views")
                            \cup Tables(samplers.handle, "samplers")]}
  /\ cpuHeap' = [t \in BindingTypes |-> NullHandle]
  /\ descriptorIndex' = [t \in BindingTypes |-> 0] /\ bindGroups' = {}
  /\ pc' = "submit"
  /\ UNCHANGED <<mSerial, completed, mHeapSerial, mHeapOffset, mUsedComObjectRefs,
                 renderPasses, pipelines, lastCompletedSerial, cont>>

NextSerial == mSerial' = mSerial + 1

EndSubmit ==
  /\ pc = "submit" /\ NextSerial /\ pc' = "app"
  /\ UNCHANGED <<completed, heapVars, mUsedComObjectRefs, renderPasses, pipelines, gpuQueue,
                 lastCompletedSerial, cont>>

-----------------------------------------------------------------------------
(* TickImpl: heaps before the map callbacks, COM objects after them.       *)
Tick ==
  /\ pc = "app" /\ InApp
  /\ pc' = "tick" /\ cont' = "app"
  /\ UNCHANGED <<mSerial, completed, heapVars, mUsedComObjectRefs, renderPasses, pipelines,
                 gpuQueue, lastCompletedSerial>>

TickHeaps ==
  /\ pc = "tick"
  /\ lastCompletedSerial' = completed
  /\ mReleasedHandles' = ClearUpTo(mReleasedHandles, completed)
  /\ pc' = "callback"
  /\ UNCHANGED <<mSerial, completed, heaps, infos, groupVars, mUsedComObjectRefs,
                 renderPasses, pipelines, gpuQueue, cont>>

FinishTick ==
  /\ pc = "callback"
  /\ mUsedComObjectRefs' = ClearUpTo(mUsedComObjectRefs, lastCompletedSerial)
  /\ NextSerial /\ pc' = cont
  /\ UNCHANGED <<completed, heapVars, renderPasses, pipelines, gpuQueue,
                 lastCompletedSerial, cont>>

(* ~Device, when all objects of the device are gone.                       *)
DestroyDevice ==
  /\ pc = "app" /\ renderPasses = {}
  /\ Careful => pipelines = {}
  /\ NextSerial /\ pc' = "waiting"
  /\ UNCHANGED <<completed, heapVars, mUsedComObjectRefs, renderPasses, pipelines, gpuQueue,
                 lastCompletedSerial, cont>>

LastSignalPassed ==
  /\ pc = "waiting" /\ completed >= mSerial - 1
  /\ pc' = "tick" /\ cont' = "destroyed"
  /\ UNCHANGED <<mSerial, completed, heapVars, mUsedComObjectRefs, renderPasses, pipelines,
                 gpuQueue, lastCompletedSerial>>

(* The GPU signals the next serial when it has finished all before it.     *)
GpuSignals ==
  /\ completed < mSerial - 1
  /\ completed' = completed + 1
  /\ gpuQueue' = {s \in gpuQueue : s.serial > completed + 1}
  /\ UNCHANGED <<mSerial, heapVars, mUsedComObjectRefs, renderPasses, pipelines,
                 lastCompletedSerial, pc, cont>>

Next ==
  \/ \E pass \in RenderPasses : CreateRenderPass(pass.mask, pass.depth)
  \/ \E pass \in renderPasses : ReleaseRenderPass(pass)
  \/ \E p \in pipelines : ReleasePipeline(p)
  \/ Submit
  \/ BeginRecording
  \/ \E g \in BindGroups : TrackSetBindGroup(g)
  \/ \E p \in Pipelines : RecordCommands(p)
  \/ EndSubmit
  \/ Tick
  \/ TickHeaps
  \/ FinishTick
  \/ DestroyDevice
  \/ LastSignalPassed
  \/ GpuSignals

Spec == Init /\ [][Next]_vars
-----------------------------------------------------------------------------
Exists(h) ==
  /\ h # NullHandle.heap
  /\ \/ \E pool \in DOMAIN infos : infos[pool].heap = h
     \/ h \in Items(mReleasedHandles)
     \/ \E pass \in renderPasses : h \in {pass.rtv.heap, pass.dsv.heap}
Holds(handle, descriptors) ==
  Exists(handle.heap) /\ Read(allocator, handle, Len(descriptors)) = descriptors

(* DescriptorHeapAllocator.cpp, TickImpl: the tables of a command buffer   *)
(* the GPU has not finished are in heaps that exist, and hold the          *)
(* descriptors of its bind groups, whatever else was recorded since; its   *)
(* pipelines exist too.                                                    *)
InFlightIsIntact ==
  \A s \in gpuQueue :
    /\ \A t \in s.tables : Holds(t.handle, t.descriptors)
    /\ s.pipeline \in pipelines \cup Items(mUsedComObjectRefs)

(* RenderPassDescriptorD3D12.cpp: a render pass finds the view of each of  *)
(* its attachments, in a heap of its own.                                  *)
PassesFindTheirViews ==
  \A pass \in renderPasses :
    /\ \A i \in pass.mask :
         Holds([pass.rtv EXCEPT !.offset = @ + i], <<<<"color", pass.name, i>>>>)
    /\ pass.depth => Holds(pass.dsv, <<<<"depth", pass.name>>>>)

(* DeviceD3D12.cpp, ASSERT(mUsedComObjectRefs.Empty()) of ~Device.         *)
NothingIsKept == pc = "destroyed" => mUsedComObjectRefs = {}

(* The three together.                                                     *)
DescriptorsAreIntact == InFlightIsIntact /\ PassesFindTheirViews /\ NothingIsKept
=============================================================================
