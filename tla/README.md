# TLA+ models and proofs for nxt-standalone (Dawn)

This directory holds TLA+ specifications of the parts of the repository in
which order, time or sharing matter, configurations that check them with TLC
on small instances, and theorems that TLAPS proves for every instance.  The
models are translated from the code under `src/`; `PROJECT.json` maps each
definition to the lines it stands for.

## 1. The system

Dawn implements a WebGPU-like API.  A C entry point generated from `dawn.json`
(`generator/templates/dawn_native/ProcTable.cpp`) validates its arguments and
calls the frontend (`src/dawn_native/*.cpp`), which validates the rest and
calls a backend (`vulkan`, `d3d12`, `metal`, `opengl`, `null`).  A program may
instead speak to `dawn_wire`: a client that serializes the calls and a server
that replays them on a native device in another process.

| component | state it keeps | operations | talks to |
|---|---|---|---|
| Vulkan device (`vulkan/DeviceVk.cpp` and its services) | next and completed serial, fences in flight and unused, command pools pending, in flight and unused, wait semaphores; queues by serial of map requests (`MapRequestTracker`) and of native objects to delete (`FencedDeleter`) | record into the pending commands, submit, tick, delete when unused, upload, map, destroy | the GPU (fences), map callbacks of the application, every Vulkan object |
| D3D12 device (`d3d12/DeviceD3D12.cpp` and its services) | serial and fence, open pending list, command allocators free and in flight, released resources, map requests; serial of each back buffer | the same, on one fence | the GPU (signals), callbacks, native swap chain |
| Metal device (`metal/DeviceMTL.mm`) | pending and finished serial | the same | completion handlers on a thread of the driver |
| Buffer mapping (`Buffer.cpp`) | mapped or not, map serial, the two callbacks | map, unmap, complete, destroy | callbacks of the application, the backend |
| Builders (`Builder.cpp`, `ProcTable.cpp`) | status, callback, consumed or not | set, set callback, `GetResult`, destroy | callbacks, errors of the device |
| Command buffer validation (`CommandBuffer.cpp`, `CommandBufferStateTracker.cpp`) | aspects, bind groups, inputs and pipeline of the pass; usages of each resource in it | one step for each command | what passes use goes to the backends |
| Replays (`CommandBufferVk/GL/D3D12/MTL`) | trackers of dirty bind groups, inputs, push constants; what the context or command list remembers | replay of a validated list; copies; barriers | relies on the validation, numbers what shaders read |
| Pipeline states and samplers of the backends | one native state for each object; OpenGL's cache of what the context has | creation, application | the context |
| Resource usages (`BufferVk/D3D12`, `TextureVk/D3D12`) | last usage or state of each resource, images' layouts | transitions before passes, copies, mapping, presentation | usages declared by the validation |
| Descriptor heaps (`DescriptorHeapAllocator.cpp`) | positions in CPU and GPU heaps, released handles by serial | allocate, record, release, tick | D3D12 device, command buffers |
| Vulkan instance, device creation, memory types, native swap chain | what was loaded, found, made | load, gather, request, create, destroy | the driver |
| Wire (`dawn_wire/WireClient.cpp`, `WireServer.cpp`, `WireCmd.cpp`) | ids with serials on both sides, map requests with serials, the pointer of mapped data, reference counts, builder callbacks | calls, commands, returned commands, serialization | two FIFO channels, the native objects |
| Command storage (`CommandAllocator.cpp`) | blocks, current position, references | allocate, iterate, free | command buffers |
| `SerialQueue` | vector of serials with items | enqueue, iterate, clear up to | every device |
| References and caches (`RefCounted.cpp`, `Device.cpp`) | internal and external counts, the set of bind group layouts | reference, release, get or create | every object |
| Objects of the frontend (layouts, pipelines, views, ...) | what they were made from | creation with validation | each other, builders |
| Errors (`Result.h`, `Error.h`, `Device.cpp`) | error data with a backtrace, the error callback | make, pass on, consume | every entry point |

What is hard in this code:

* **The GPU is a second actor.**  Anything a command refers to (native objects,
  memory, command pools, fences, semaphores, upload buffers) must outlive
  commands that finish at an unknown time.  All of it hangs on serials that
  are compared with one value, the last serial known to be completed, and the
  serials also move when no work is submitted.
* **Callbacks re-enter.**  Map callbacks run in the middle of `Tick`, `Unmap`
  or a destructor, and may release, upload, map and unmap.
* **Late answers.**  `Unmap` cancels a request that the backend completes all
  the same; over the wire the answer to a request crosses the `Unmap` or the
  `Release` on its way, and ids are reused.
* **Destruction.**  A device goes away with work recorded, submitted and
  requested.
* **Validation with a memory.**  The validation of draws keeps what it has
  found valid, until something invalidates it; the backends keep their own
  idea of which descriptor sets are bound.
* **State that outlives its pass.**  A graphics context remembers more than a
  list of commands says: what an earlier pass or pipeline has set must not
  reach a later draw, on none of four backends.
* **One of several steps fails.**  Devices come up in many steps; errors travel
  through `Result`s in every function on the way; a dropped call of the wire must
  still consume its data.

`PROJECT.json` lists these hazards line by line, with the properties that
would notice them.

## 2. The modules

| module | models | form |
|---|---|---|
| **Devices** | | |
| `SerialQueue` | what `src/common/SerialQueue.h` promises, as the set of the queue's entries | operators |
| `SerialQueueStorage` | how it does: the vector of (serial, items), its iterators, `ClearUpTo`; the loops of its users | state machine beside the queue of `SerialQueue` it stands for |
| `GpuResources` | what every device promises: an object that commands refer to exists until they are finished | abstract specification |
| `VulkanDevice` | `DeviceVk.cpp`, `FencedDeleter.cpp`, `BufferUploader.cpp`, the tracker of `BufferVk.cpp`, `QueueVk.cpp` | state machine; implements `GpuResources` |
| `VulkanDevice_proofs` | - | theorems about `VulkanDevice` |
| `D3D12Device` | `DeviceD3D12.cpp`, `CommandAllocatorManager.cpp`, `ResourceAllocator.cpp`, `ResourceUploader.cpp`, the tracker of `BufferD3D12.cpp`, `QueueD3D12.cpp`, `NativeSwapChainImplD3D12.cpp` | state machine; implements `GpuResources` |
| `D3D12Device_proofs` | - | theorems about `D3D12Device` |
| `MetalDevice` | `DeviceMTL.mm`, `ResourceUploader.mm`, the tracker of `BufferMTL.mm`, `QueueMTL.mm`; completion handlers on their own thread | state machine |
| `DescriptorHeaps` | `DescriptorHeapAllocator.cpp` and its users: `CommandBufferD3D12.cpp`, `RenderPassDescriptorD3D12.cpp`, `ReferenceUntilUnused` | state machine |
| `Containers_proofs` | - | theorems about `DescriptorHeaps`, `SerialQueueStorage` and `ErrorHandling` |
| `VulkanSetup` | constructor and destructor of `DeviceVk.cpp`, `VulkanInfo.cpp`, `VulkanFunctions.cpp`, `MemoryAllocator.cpp`, `NativeSwapChainImplVk.cpp`, each step of which may fail | state machine |
| **Frontend** | | |
| `MapPromise` | what the mapping of a buffer promises: one answer to each request, and before the next mapping | abstract specification |
| `BufferMapping` | `Buffer.cpp`, over any backend | state machine; implements `MapPromise` |
| `BufferMapping_proofs` | - | theorems about `BufferMapping` |
| `Builder` | `Builder.h`, `Builder.cpp` and the entry points of builders (`ProcTable.cpp`) | state machine, used by `WireObjects` as the native builders |
| `ErrorHandling` | `Result.h`, `Error.h`, `ErrorData.cpp`, `ConsumedError` and the entry points that create or operate | state machine over calls and the temporaries that hold Results |
| `RefCounted` | `RefCounted.cpp`, `RefCounted.h`, the cache of bind group layouts | operators on a memory of objects |
| `FrontendObjects` | layouts, bind groups, shaders, pipelines, states, views, render passes, textures, samplers, swap chain, queue, with their builders | state machine over a `RefCounted` memory |
| `CommandStorage` | `CommandAllocator.cpp`, the recording methods, `Commands.cpp` | state machine |
| `CommandStream` | an accepted list of commands, as backends may rely on it | abstract specification |
| `CommandBuffer` | `ValidateGetResult` and its two trackers | state machine, one action for each command; implements `CommandStream` |
| `CommandBuffer_proofs` | - | theorems about `CommandBuffer` and `CommandStorage` |
| **Backends** | | |
| `Recording` | the list that is replayed: `CommandStream` with push constants and dynamic state, and what a draw reads | extends `CommandStream` |
| `VulkanReplay`, `OpenGLReplay`, `D3D12Replay`, `MetalReplay` | the passes of `CommandBufferVk/GL/D3D12/MTL` with their trackers and the numbering of binding points | one state machine for each backend, over `Recording` |
| `Replay` | - | composes the four: `backend` says which one replays |
| `Replay_proofs` | - | theorems about the four replays |
| `PipelineStates` | depth, stencil, blend and input states and samplers of Vulkan, D3D12 and OpenGL, `PersistentPipelineStateGL.cpp` | state machine; the graphics API's meaning of the enumerators beside the code's translation |
| `TextureCopies` | recording and validation of copies, `TextureCopySplitter.cpp`, and the regions of each backend | state machine that executes a copy on a small texture |
| `ResourceUsages` | who uses a resource how, in which order the GPU runs it | operators and variables |
| `VulkanBarriers`, `D3D12Barriers` | `TransitionUsageNow` of buffers and textures, the passes and copies that call it | state machines over `ResourceUsages` |
| `VulkanRenderPasses` | `RenderPassCache.cpp`, `RenderPassDescriptorVk` | state machine |
| `Barriers` | - | composes the three |
| `Backends_proofs` | - | theorems about `VulkanSetup`, `Barriers` and `MetalDevice` |
| **Wire** | | |
| `WireMapping` | map requests through client, channels and server | state machine, composes both sides |
| `WireMapping_proofs` | - | theorems about `WireMapping` |
| `WireCmd` | `WireCmd.cpp`: serialization and deserialization of a call | operators |
| `WireObjects` | ids, serials, reference counts, builders, errors, on both sides, with calls that travel as `WireCmd` serializes them | state machine, composes `WireCmd` and `Builder` |
| **`MC*`** | the instances that TLC checks; `vk`, `d3d12`, `map`, `wire_map` and `wire_objects` need none, their `.cfg` gives the component's constants | |

How they correspond to the code:

* *Variables* have the names of the members they stand for.  What the code
  does not have and a property needs (`asked`, `vkQueue`, `accesses`,
  `answer`, `calls`, ...) is said to be so where it is declared.
* *Atomicity.*  The code is single-threaded apart from the GPU and Metal's
  handlers, so an API call is one action unless one of these or a callback can
  come in between.  `Tick` of each device is split at each of its parts
  (variable `pc`), because the GPU makes progress between them and the callbacks
  of the trackers run in the middle.  Where a callback runs inside a call, the
  call is split around it (`stack` in `BufferMapping` and `ErrorHandling`).
* *Data.*  Serials are numbers; buffers, pools, fences, bind groups, pipelines
  are model values; sizes, formats and contents are left out where no property
  tells them apart.  A call that can fail for such a reason may fail at any time.
  `mMapSerial` keeps its wrap-around modulo `SerialModulus`; copies and stencil
  references keep theirs modulo `Word`.  Alignments, block and heap sizes are
  scaled down (see Bounds).
* *Queues by serial* are sets of entries: `Enqueue` asserts that serials never
  decrease, and nobody depends on the order within one serial.
  `SerialQueueStorage` has both, and shows that the vectors hold just these entries
  (`StorageHoldsTheQueue`) and loops see them (`IteratesUpTo`).
* *Command lists* are not stored by the validation and the replays: each reads a
  command once, so the next command is any command.  `CommandStorage` shows that
  what is read is what was recorded (`CommandsAreReadBack`).
* *Careful.*  `Careful = TRUE` (and `ReleaseUnderWrite`, `AbandonRecording`,
  `DataOnErrorObjects`, `RemapInUnmap`, `Reentrant` = FALSE, `UnsetMatches` =
  {FALSE}) keeps applications and drivers away from the steps at which the code
  is known to go wrong; each such step is named by a guard in the module and
  listed under `findings` in `PROJECT.json`, and the properties are checked for
  everything else.  Without `Careful` the replays and the descriptor heaps take
  these steps as the code does (an assertion or a null sets `failed`), and the
  properties fail.

A definition called `X_Fault...` is its neighbour `X` with a plausible bug.  No
specification uses it; replacing `X` by it makes the property that `PROJECT.json`
names fail.

## 3. What the runs show

An MC module with a variable `subject` holds several instances, of which a
behaviour is about one; the variables of the others are idle.  `MCBackends` extends
`VulkanSetup` and `Barriers`, which have theorems, and instantiates `TextureCopies`
and `MetalDevice`.

Runs expected to pass:

| run | instance | shows |
|---|---|---|
| `vk` | 2 buffers, 1 semaphore, 3 pools, 2 fences, API calls in serials 1-2, ticks up to serial 5 | nothing is destroyed while commands being recorded or unfinished use it (`NoUseAfterDestroy`); the completed serial never passes the GPU; pools and fences are reused only when their work is finished; map callbacks see finished work; `~Device` finds what it asserts (`NothingLeftInFlight`); deletions and map requests happen in the end (`EverythingEnds`); `VulkanDevice` implements `GpuResources` |
| `d3d12` | 2 resources, 2 allocators, both back buffers, API calls in serials 1-3, ticks up to 7 | allocators and back buffers are reused when idle (`ReuseIsSafe`); no wait is for a serial that nobody will signal, and what was deferred happens (`EverythingEnds`); `D3D12Device` implements `GpuResources` |
| `map` | 4 requests, callbacks nested 3 deep, serials modulo 4 | no request is lost or gets the data of a cancelled one, the buffer outlives the calls on it (`RequestsAreServed`); it implements `MapPromise`, with its liveness |
| `wire_map` | 2 ids, each used twice, 2 requests of either kind, 2 commands on the way | answers reach their own request once (`AnswersAreOwn`); neither side refuses what the other sends, and both agree on what is mapped (`SidesAgree`); every request is answered |
| `wire_objects` | 2 builders, one with a callback, 2 objects, counts up to 2, 2 calls on the way | the server makes the calls the client made, whatever data they carry, and goes on with the next command after a call without data that it drops (`CallsArriveIntact`); both sides agree on the ids (`TablesAgree`); each builder hears of its own object, and native builders call back once (`BuildersAreAnswered`) |
| `objects` | six scenarios: bind groups with compute pipelines, layouts, render pipelines, render passes, textures and samplers, swap chain | the two counters of each object are its users, the cache of layouts is exact (`CountsMatchHolders`); what the four checks of the frontend let through gives shaders their inputs (`ShadersGetTheirInputs`) |
| `commands` | 2 buffers, 1 texture, 3 bind groups, 4 pipelines on 3 layouts, 1 pass | accepted draws find their pipeline and buffers; the usages given to the backends cover every access; passes have no conflicting accesses; the validation implements `CommandStream` |
| `containers` | commands in blocks of two sizes; a queue of 5 items; 3 calls of 7 entry points; 3 command buffers on small heaps | commands are read as recorded and hold their references (`ReadsWhatWasRecorded`, `ReferencesAreHeld`); loops over serial queues see what they should (`IteratesUpTo`); each error has one owner and is reported once (`ErrorsAreHandledOnce`); descriptors stay where command buffers in flight read them (`DescriptorsAreIntact`) |
| `replay` | lists of four kinds, passes without bound, on four backends; or any two of the pipelines of `MCPipelineStates` on three backends | what a draw reads through the trackers and binding numbers of each backend is what the list has set (`VulkanDrawsRight`, ...); draws test, blend, fetch and sample as their pipeline asks (`DrawsAreAsAsked`) |
| `backends` | copies; barriers and render passes of 4 kinds of resources; a Vulkan device on several drivers; a Metal device with 2 buffers and serials 1-2 | accepted copies move the same bytes everywhere (`CopiesAreRight`); barriers order all conflicting accesses and cached render passes fit (`BarriersSuffice`); only loaded functions are called and what was made goes in order (`OnlyWhatIsThere`, `ChildrenFirst`); memory types suit (`MemoryIsSuitable`); on Metal, callbacks see finished work and everything ends (`EverythingEnds`) |

Runs that are expected to find a violation of what a comment or a test says:

| run | shows |
|---|---|
| `map_remap` | a request made in the callback of `Unmap` loses its callback when `Unmap` goes on |
| `commands_stale_group` | a bind group of another layout is accepted after one valid draw |

The other disagreements met while modelling are under `findings` in
`PROJECT.json`, each with its line, the guard that keeps the model away from it
and, where a property sees it, the property that fails without the guard:

* devices: `~Device` of Vulkan with a wait semaphore that no submit has
  consumed; `~Device` of D3D12 that frees what its open list uses; D3D12 state
  objects dropped by its last callbacks; a Vulkan device whose constructor failed
  is handed out; a second `Configure` of a native swap chain; memory lost when
  mapping it fails; the choice of the biggest heap, which never happens;
* frontend: layouts with null groups and one binding too many, compatibility
  that reads uninitialized entries, two errors of one pipeline builder, a leaked
  blend state builder, the dangling texture of a swap chain, the assignment of
  `Result`, loops over serial queues whose body enqueues, the size of a copy
  modulo 2^32, copies without extent;
* replays: bind groups set before the first pipeline (never bound on Vulkan, null
  on the others) and dropped when a pipeline of another layout inherits them
  before a draw (Vulkan); index and vertex buffers set before a pipeline, which the
  validation accepts although a test says that it does not (Vulkan, D3D12); the
  index format (Vulkan, D3D12) and the strides (D3D12) of the pipeline at the time
  the buffer is set, not of the one that draws, which is the case of the test
  `ChangePipelineAfterSetIndexBuffer` that both skip; slots that the input state
  lacks, inherited groups that nobody set or that an earlier pass left, layouts that
  all agree, groups skipped although their tables are gone, the stencil reference
  of an earlier pass, registers of shaders that leave out a binding (D3D12);
* backends: a bind group shared by two command buffers of one Submit, whose
  descriptors are recorded for the first only (D3D12); a one-row copy
  across a pitch (D3D12), attachments with holes (Vulkan, D3D12), full descriptor
  heaps, alpha factors and strip cut value (D3D12), the winding of front faces
  (Vulkan), strides of zero and integer attributes (OpenGL);
* wire: a buffer released under `MapWriteAsync`, data that follows an error
  object, the callback of an answered builder, the flush of
  `TerribleCommandBuffer`.

Some quirks of the OpenGL replay have a guard and no finding, because no text of
the repository says otherwise: it numbers texture units by pipeline and clears
before it resets scissor and masks, and push constants look at the first element's
mask.

### Bounds

* Devices: two buffers are enough for one to be released, mapped or uploaded
  while the other is used by commands in flight, and for a staging buffer to
  be reused; three pools and two fences let a submission be in flight, one be
  recorded and one be recycled.  API calls stop after `ApiSerials` so that
  `Tick` can bring everything to its end before `MaxSerial`: the liveness
  properties are checked on behaviours that run to completion.
* `map`: four requests are the least with which two cancelled requests are in
  flight beside the current one; the modulus is larger than the number of
  requests in flight, which `AcceptMapAsync` says as a guard.
* `wire_map`, `wire_objects`: an id must be given out twice for an answer to meet
  the wrong object, and a second id for the tables to have two entries; two
  commands on the way let each kind cross each other.
* `objects`: each scenario has the kinds of objects that meet in one check, with
  two values of what the check compares, and arrays of one or two entries
  (`kMax...`) that can be full.  A blend state builder that leaks may use up the
  ids, so deadlock is not checked.
* `commands`: pipeline layouts that share a prefix, a bind group with two
  bindings, a texture that is both attachment and sampled, and an input that
  only one of two pipelines reads.  The trackers are locals of a pass, and the
  proofs cover any number of passes.
* `containers`: blocks of 16 and 64 bytes stand for 2048 and 16384: commands of 1
  to 40 bytes with data fit, just fit and do not fit them.  Five items with three
  serials give queues with equal and different serials.  `MaxCalls` = 3 lets an
  error callback make a call of its own between two others.  CPU heaps of 3 views and 2
  samplers stand for 8192 and 2048, GPU heaps of 4 and 2 for 1,000,000 and 2048: one
  or two command buffers fill them.  Two bind groups are set by command buffers
  of one Submit or of several, together or one by one, and `MaxHeaps` = 7 allows
  for three command buffers or render passes.  The D3D12 device may abort, so deadlock is not checked.
* `replay`: the state of the trackers is finite, so that lists are not bounded;
  four kinds of lists keep apart what does not interact.  Index and vertex buffers
  may come before a pipeline, and pipelines differ in index format, strides and
  slots, within what `Careful` admits on each backend (OpenGL and Metal: all of it).  Pipelines vary one
  aspect at a time; two of them are set one after the other because the context
  remembers one.  Stencil values have 2 bits for 8 (masks 3 for 32), and there are
  2 color attachments.
* `backends`: alignments of 4 and 8 bytes stand for 256 and 512, `Word` = 64 for
  2^32, with every kind of remainder among the offsets, textures of up to two
  levels and layers, and texels of 1 and 2 bytes.  The sizes of these copies stay
  below `Word`: that a size wraps around modulo 2^32 (a finding) does not happen in
  the run, and `StaysInBounds` grants the bytes that adding a width to a pitch
  forgets.  The driver of `VulkanSetup` has
  or lacks each extension and layer that the code asks for.

### Fairness

* `VulkanDevice`, `D3D12Device`, `MetalDevice`: the application calls `Tick` again
  and again (the API requires it), its callbacks return, the GPU finishes what it
  was given, and Metal runs its handlers.  Nothing is assumed about API calls.
* `BufferMapping`: the backend completes its requests, which is what the device
  models show (`EverythingEnds`), and callbacks return.
* `WireMapping`: both sides handle what arrives, and `HandleCommands` ticks the
  native device.  The client is free to stop calling.
* The others: none; safety only.  `WireObjects` states that no answer is lost in
  its safety form: what a builder waits for is on its way.

`CHECK_DEADLOCK FALSE` stands where an application may stop calling, or the
program has ended or aborted.

## 4. What is proved

`VulkanDevice_proofs`, for any sets of buffers, semaphores, pools and fences and
any bounds: `Spec => []` of `TypeOK`, `CompletedIsFinished`,
`FencesPassInOrder`, `RecycledOnlyWhenFinished`, `MemoryOutlivesBuffer`,
`MappedBufferAlive`, `NoUseAfterDestroy`, `MapSeesFinishedWork`,
`NothingLeftInFlight` and of the parts of the invariant about serials, pools,
deletions and waits, and the refinement `Spec => ImplementsGpuResources`.  None is
inductive alone.  The invariant behind them is `IndInv`, at the end of
`VulkanDevice`:

* `PhaseInv`: what can be in progress at each `pc`; `~Device` forces the
  completed serial only when the queue is idle and nothing is recorded;
* `FenceInv`: each unfinished submission has the one fence with its serial, and
  each fence that is signaled is still tracked, so that the completed serial
  is taken from finished submissions only;
* `PoolInv`: a pool is in flight at the serial of its submission or unused,
  never both;
* `DeletionInv`: a buffer is queued for deletion once, at a serial not below
  that of any command that uses it, and only when nobody refers to it; the
  queue of handles is the queue of memories, or, between the two steps of
  `FencedDeleter::Tick`, what is left of it;
* `SemaphoreInv`, `RequestInv`: the same for semaphores and fired requests;
* `LeftInv`: every memory is referred to or queued, nothing is queued behind the
  next submit, and the `Tick` of `~Device`, at which everything has completed,
  empties the queues one after the other although its callbacks may let go of
  more buffers.

For the refinement, `Live`, `Retired`, `BeingRecorded` and `Batches` say which
state of `GpuResources` a state of the device stands for: a batch is a submission
with the semaphores and buffers it uses.  `DeleteOthers` is the step that needs
the invariant: what it destroys was let go of, and `DeletionInv` and
`SemaphoreInv` put it behind every batch and every pending command that used it.
The only assumptions are that `NoPool` is no pool, that a buffer is not a
semaphore and that the bounds are numbers.

`BufferMapping_proofs`, for any set of requests and any bounds: `TypeOK`,
`RequestsAreServed`, `AnsweredOnce`, and that `BufferMapping` implements
`MapPromise` without its fairness (`PromiseRefinement`).  The assumption is
`~RemapInUnmap`: no callback of `Unmap` maps the buffer again, since the run
`map_remap` shows the promise broken by one that does.  The invariant `IInv` adds
that the callback the buffer holds is that of the last request, still waiting
(`HolderInv`), that requests in flight have serials of their own (`FlightInv`),
and that each callback on the stack is an answered request in flight, once
(`StackInv`).  Together they say that `CallMapReadCallback` finds a callback under
a serial only if it is the one of that request.

`CommandBuffer_proofs`, first part, for any resources, bind groups, layouts, pipelines and
number of passes: `TypeOK`, `PassUsagesCoverAccesses`, `PassesAreRaceFree`,
`DrawsAreComplete`, and that `CommandBuffer` implements `CommandStream`
(`StreamRefinement`), on which all four replays start.  The invariant `IInv` says
that what a draw could access through what is bound now is already among
`mUsages` (`Covered`), that an aspect implies what it was computed from
(`AspectsHold`), that pipelines and accesses are those of the kind of pass
(`PassKinds`), and that `mStorageUsedMultipleTimes` is set when two bindings have
ever named the same storage (`OneBinding`).  With these, the checks of
`ValidateUsages` at the end of a pass carry over to its accesses.  For the
refinement, a state of `CommandBuffer` is mapped to what the commands of its pass
have set; a list that is refused is over for `CommandStream` too, and each valid
draw is one of a complete state because `AspectsHold` says so.  The assumptions
say that buffers and textures are different, that a binding's usage is one that
its kind of resource can have, that layouts and inputs stay within their limits.

Second part, for any commands with any additional data, any sizes and alignments
of their structures and any number of blocks of any size: everyone who reads the
commands finds what was recorded (`CommandsAreReadBack`), and the references they
hold are given back once (`CommandsHoldReferences`).  `SizeAssumption` says what the
compiler guarantees (an id has four bytes, alignments are 1, 4 or 8) and that the ids
of commands are neither `EndOfBlock` nor `AdditionalData`; `CommandAssumption` that
the method that records a command passes the data that the type of the command has.
The invariant is `CommandInv`:

* `PlacesInv` says that each piece that was allocated has a *place*, a block and an
  offset: its id and its contents are in the cells there, and the next piece follows
  at the next aligned offset, or the block is ended there and the next piece begins the
  next one (`Placed`).  The places are not part of the state: the invariant says that
  they exist.  The allocator is behind the last place, or at the start of a block made
  for the next piece, which fits (`AllocatorAt`); the last block is ended before anyone
  reads (`Closed`); the iterator is at the next place or at the end of a block
  (`ReaderAt`);
* `MemoryInv` says that the cells of a block are inside of it and apart from each
  other, and that commands come in whole, each followed by its own data
  (`WellFormed`);
* `ReadInv` says that what was read is a prefix of what was recorded, and that the data
  the reader expects is the data that comes (`Expects`);
* `Counted` says that the references are those of the pieces from `FirstHeld` on: all
  of them, or those that `FreeCommands` has not read yet.

What is written behind everything else changes nothing that has a place
(`PlacesStay`), which is all that the allocator's operations need; that a new block
is large enough (`NewBlockHasRoom`) rests on `FitsAtStart`: at the start of a block a
piece needs at most four bytes more than where it did not fit.

`D3D12Device_proofs`, for any resources, allocators, back buffers and bounds:
`TypeOK`; command allocators are free only when the GPU has finished with them
(`AllocatorsIdle`), back buffers come back only when they are idle
(`BackBuffersIdle`), together `ReuseIsSafe` (`SafeReuse`); what a recorded or
unfinished list uses exists (`ResourcesHeld`); every wait is for a signal that
is on its way (`WaitsAreServed`); and the refinement `ImplementsGpuResources`
(`ResourceRefinement`).  The invariant is `IndInv`, at the start of the module:

* `QueueInv`: in the GPU's queue each list is followed by the signal of its
  serial, signals come in order and up to the last serial submitted.  It was the
  lemma that everything waited for: a completed serial says something about
  lists only because of it;
* `AllocatorInv`: an allocator in flight is queued at the serial of its list, is
  not the one being recorded with, and is queued once;
* `ReleaseInv`: a resource that a list uses is referred to, or waits in
  `mReleasedResources` or in the uploader at a serial not below that list's;
* `FrameInv`: the serial of a back buffer is not below that of any list that
  uses it;
* `PhaseInv`: what can be in progress at each `pc`.

With `AbandonRecording` the last `Tick` of `~Device` frees the allocator and the
uploads of a list that is still open, which is one of the findings.  `SafeReuse`
and `ResourceRefinement` therefore assume `~AbandonRecording`; the theorems about
states say `Orderly`, that is, not a device that does so and is ending.  Neither
`BackBuffersIdle` nor `WaitsAreServed` needs it.

`WireMapping_proofs`, for any buffer ids, requests and bounds on what is
underway: answers reach the request they are for, once, with what the native
buffer gave for it (`AnswersAreOwn`), with or without buffers released under a
`MapWriteAsync`; and, without these (`~ReleaseUnderWrite`, a finding), neither side
refuses what the other sends and both agree on what is mapped (`SidesAgree`).
The hard part is that the state of each side is the state of the other some
commands ago.  The invariant `QueueInv` says it as a trace: the commands underway,
run one by one on the server's view of a client's buffer, end in the client's
view of it.  `ClientInv`, `NativeInv`, `HeldInv` and `GrantedInv` say what each
side's own records imply, and tie serials of requests to the handles under
which the server keeps what is mapped for writing.

`Replay_proofs`, for any layouts, pipelines, groups and buffers: what a draw
reads is what the list has set, on Vulkan (`VulkanReplayRight`), Metal
(`MetalReplayRight`), OpenGL (`OpenGLReplayRight`) and D3D12
(`D3D12ReplayRight`).  `RecInv` is what an accepted list guarantees at any
point (`ListIsAccepted`); `VkInv`, `MetalInv`, `GlInv` and `D3Inv` say for each
backend what its trackers hold in terms of what the list has set: a bit that
is not dirty means that the API's state is right for the pipeline that is set,
and state that outlives a pipeline is right for every pipeline that inherits it.
The rest of the proof is about numbering.  `MetalDrawsRight`, `OpenGLDrawsRight` and
`D3D12DrawsRight` need that two bindings never share a number and that the
backend's two ways to compute one (layout and pipeline) agree, for layouts with any
number of bindings of any types; TLC's instances have few of them.  The
theorems assume what the frontend validates (`ValidatePipelineLayoutDescriptor`:
no holes; `IsCompatibleWithPipelineLayout`: shaders use bindings of their layout;
the limits `kMax...`), and say as hypotheses what it does not:

* `Careful`, on all backends: bind groups are set after a pipeline whose layout
  they fit.  On Vulkan also: no pipeline of another layout comes between a group that
  it inherits and the first draw with it; the index buffer is set after a pipeline,
  and again after one of another index format.  On OpenGL: a pipeline uses the units
  of the last one for what it inherits; no earlier pass left a scissor or mask that
  cuts a clear.  On D3D12: no group was recorded for an earlier command buffer of the
  Submit; a group that the tracker skips has its tables set; each index that a
  pipeline inherits has a group with no table that the layout lacks, and not all
  `kMaxBindGroups` layouts agree; index and vertex buffers are set after a pipeline
  whose input state has the slots, and again after one of another format or other
  strides; no earlier pass left a stencil reference.  The frontend ensures none of
  these;
* `NumbersFit` (Metal): a stage's bindings of a kind, over all groups, are fewer
  than `kMaxBindingsPerGroup`, from where on vertex buffers are numbered;
* `UnitsFit` (OpenGL): likewise for texture units and buffer bindings, which the
  model bounds and the code does not;
* `NoArrays` (OpenGL): no push constant is an array, for which the code looks at
  the mask's first element only;
* `RegistersMatch` (D3D12): a shader leaves out no binding of a type below one
  that it uses.  HLSL registers are numbered among the bindings that a shader uses
  (`ShaderModuleD3D12.cpp:63-78`), descriptors among those of the layout.

`Backends_proofs`, first part, for any Vulkan installation, build, requested
extensions and memory requirements: no entry point is called that is not loaded
and nothing is requested that is not there (`OnlyWhatIsThereAlways`), objects go
before what they were made from (`ChildrenGoFirst`), and the type of memory that
is chosen suits (`MemorySuits`).  The hypothesis is `Careful` (a device that
failed is dropped, and a native swap chain is configured once, on a device that
has swap chains: two findings); `DriversAssumption` is what Vulkan promises of an
installation, `RequirementsAssumption` that extensions have names.  The invariant
`SetupInv` says what each step of the constructor has left behind: knobs stand for
what the machine has (`KnobsInv`), what is requested is there (`RequestsInv`), what
later steps and existing objects need is loaded (`LoadedInv`), and surfaces take
their swap chains along in the order of destruction (`ObjectsInv`, `OrderInv`).

The lists of layers and extensions are built by pushing names one after the other,
and `FindBestTypeIndex` is a loop over the types of memory, a recursive function
in the model.  That such a loop computes something, and keeps what it has found
while it goes on, is shown by the least number for which it would not
(`LeastNumber`, `LoopComputes`): the one form of induction the provers can do.

Second part, for any kinds of resources and any render pass descriptors:
`BarriersSufficeAlways`.  The hypothesis is `NoHoles`: color attachments leave out
no slot, since otherwise output `i` of a shader does not reach attachment `i`, a
finding.  `KindsAssumption` and `DescriptorsAssumption` say what the two constants
are.  The invariant has four parts:

* `UsageInv`: a buffer is used in a set of usages that it was created with, a
  texture in one at a time; the image of a swap chain starts over when it is
  acquired, and rests when it is presented;
* `VkInv`: each access that a later command may conflict with is *fresh*, so that
  the next barrier names its stage and, if it wrote, its access; or it is
  *chained*: all barriers since, each for another usage, have made what comes now
  wait for it and see it.  `AfterChains` shows that a barrier chains what is
  fresh or chained, whatever the usages.  A barrier is skipped only for a
  resource that is read and goes on being read, and then what was written is
  chained already (`WritesAreChained`).  The second transition of a copy from a
  buffer to itself keeps visible what the read needs (`VkCopiesItself`).  The layout
  is the one of the last usage, except for an image of a swap chain that comes with
  one and gets its first use;
* `D3Inv`: the state of a resource is the one computed from its last usage; a
  buffer in a heap that the host maps is never asked for another state than the
  heap's (`FixedIsAskedFor`, from the validation of its usages);
* `PassInv`: a render pass in the cache was created for its own query, and
  `SameQuerySamePass` shows that queries that compare equal create equal passes, so
  that `CacheFuncs` leaves out nothing that goes into one.

Third part, for any buffers and serials and whenever handlers run:
`MetalCallbacksSeeFinishedWork`, the part of `EverythingEnds` that is not liveness, with
no hypothesis.  The handler's thread writes `mFinishedCommandSerial` while `TickImpl` is
between its two reads.  `HandlersInOrder` says that what waits for its handler has serials
above the finished and below the pending one, each above the one before, so that a
handler that writes its own serial passes none that waits (`MetalHandler`); and
`FiredAreFinished` that the serial read for the map requests stays a finished one, however
old it is when the callbacks run.

Every hypothesis and assumption holds in TLC's instances, where `ASSUME`s are
evaluated and the invariants were checked before they were proved.

`Containers_proofs`, first part, for any command buffers, render passes, pipelines and
sizes of heaps: what the GPU and render passes read of descriptors, and the pipelines
that command buffers use, stay what they were (`DescriptorsStayIntact`).  The
hypothesis is `Careful`: attachments leave out no slot, the bindings of a command
buffer fit the CPU heaps, no two command buffers of a Submit share a bind group, and a
callback of `~Device` drops no pipeline, four findings.  A bind group keeps the
offset of its last recording: `NeedsRecording` and `mHeapOffset` are the code's
check of the heap's serial, and the invariant says that the groups of the command
buffer being recorded were recorded for it (`InCpuHeap`).  `SizesAssumption` says that a GPU heap has room for what a CPU heap
holds, and that sizes do not wrap around.  The operations of the allocator are
proved about as operations on a record: `Sound` says that a pool's heap is its own
and what remains is its end, `Intact` that descriptors lie in a part that was handed
out, `Handed` that a region is new, apart from all that is intact.  Each operation
then *extends* what was there (`Extends`): `AllocateHands`, `WriteFills` and
`TablesAreRecorded` follow one from the other, and no table can overwrite another
one.  The invariant `Inv` adds the clock: everything is released at the serial of
its submission or later, the completed serial is below that of a submission in
flight, and `~Device` has dropped its pipelines before the last serial.

Second part, for any serials and any number of items: a loop over a serial queue
sees the items that are due, each once and in order (`LoopsSeeTheirItems`), and the
vector of pairs is the queue that the models of the devices use
(`StorageHoldsTheQueue`), so that what is proved of those holds for the real
container.  The hypothesis is `~Reentrant`: the body of a loop enqueues nothing, a
finding otherwise.  `QueueInv` says that serials in the vector increase and no pair is
empty (`Ordered`), that its pairs are the entries of the queue (`Stores`), and that the
items a loop has seen are those before the place of its iterator (`Looping`).

Third part, for any calls and any nesting of error callbacks: each error has one
owner and is told once (`ErrorsAreHandled`).  `EntryPointsAssumption` names the entry
points that are modelled.  The invariant `ErrorInv` is about the stack:

* `StackOK`: below a function is its caller, at a statement that calls it; below an
  entry point is the application or its error callback, and below the callback a call
  that reports.  So of the calls on the stack all but the topmost one report, and each
  has failed for a reason of its own, which is what makes `told` and `failed` right;
* `TempOK`: the Result in transit is empty unless a callee has just returned; then it has
  the callee's type and either an error whose backtrace ends there or, when the
  callee makes objects, the object that its caller is to return;
* `HeldOnce`: of the Result in transit and the frames that report, exactly one holds an
  error.

The argument takes from the functions only what all of them have in common
(`Obeys`): entry points consume and the others try, what is assigned comes from a
function that makes the same kind of object, and only what returns a Result of a
pointer is assigned.  `BodyObeys` checks this for the functions of the model, and
`PushKeeps`, `ReturnKeeps`, `TopKeeps` and `EndKeeps` say once what a call, a return, a
statement and the end of a call do to any stack.

What stays with TLC, and why:

* liveness under fairness, out of the prover's reach:
  `EverythingEnds` of the devices, `EveryRequestAnswered` of `WireMapping` and the
  fairness of `MapPromise`;
* modules with `RECURSIVE` operators: `WireCmd` and with it `WireObjects`
  (`CallsArriveIntact`, `TablesAgree`, `BuildersAreAnswered`), `RefCounted` and with it
  `FrontendObjects` (`CountsMatchHolders`, `ShadersGetTheirInputs`), whose recursion
  goes over trees of values and references, not over numbers;
* `PipelineStates` (`DrawsAreAsAsked`), whose stencil arithmetic takes `Bitwise`;
* induction over data: `CopiesAreRight` of `TextureCopies`, which compares what all
  backends make of a region by arithmetic with division and remainder in products of
  variables;
* not proved: the `TypeOK`s of the modules that have no theorems, which are not
  properties of a run.

## 5. What is not modelled

* The driver and the GPU beyond the order in which they finish work; formatting
  of errors and labels; the translation of shaders (SPIRV-Cross); the code
  generator; samples, bindings, tests and third-party code; stateless utilities
  (`Math.cpp`, `BitSetIterator.h`) with tests of their own.
* Frontend: push constants and attachment formats of pipelines in
  `FrontendObjects`; checks of a single value (zero sizes, an extent out of
  bounds, unknown enumerators); bounds of `SetSubData`.
* Map requests made in a map callback, which on Vulkan and D3D12 push into the
  vector that `Tick` iterates over; two loops at once over one queue.
* Wire: the transport's buffers and the deserialization allocator;
  `ClearMapRequests` that is re-entered.  Native builders with errors leak in the
  server (`WireServer.cpp:517`), which no property of `WireObjects` excludes.
* Vulkan and D3D12 barriers: the host's accesses to mapped memory while work
  is submitted, use of a swap chain image after `Present`, implicit state decay and
  promotion of D3D12, barriers between two unordered accesses (a TODO of the
  code), the hash of the render pass cache.
* Copies: formats with more than two bytes per texel and textures with three
  dimensions (the frontend has none).
* Pipelines: topology, primitive restart, the rasterizer's constants, Metal's
  pipeline states; OpenGL buffers that are mapped twice; the null backend's
  submission, which copies nothing.
* Native swap chains: surface formats, extents, present modes and queue families,
  which the code hard-codes or ignores.
