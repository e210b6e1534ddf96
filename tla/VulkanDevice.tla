---------------------------- MODULE VulkanDevice ----------------------------
(***************************************************************************)
(* The Vulkan device (src/src/dawn_native/vulkan/DeviceVk.cpp) and the     *)
(* services that hang off its serials: the FencedDeleter, the              *)
(* MapRequestTracker and the BufferUploader.                               *)
(*                                                                         *)
(* Every submit to the VkQueue is tied to the serial mNextSerial and to a  *)
(* VkFence.  What must wait for the GPU (the reuse of a command pool, the  *)
(* destruction of a native object, the answer to a map request) is queued  *)
(* at mNextSerial and done by a Tick once mCompletedSerial has caught up.  *)
(*                                                                         *)
(* Two actors run: the application's thread, which calls the API and Tick  *)
(* (the variable pc says where inside Tick, a map callback or ~Device it   *)
(* is), and the GPU, which finishes submissions in order at any time.      *)
(*                                                                         *)
(* mFencesInFlight (a std::queue filled in the order of mNextSerial) and   *)
(* the VkQueue are sets of entries with serials, like the SerialQueues.  A *)
(* buffer stands for the pair of its VkBuffer (in handles) and its         *)
(* VkDeviceMemory (in memories).  A definition named X_Fault is X with a   *)
(* plausible bug: nothing uses it, it serves to see that a property        *)
(* notices the bug.                                                        *)
(***************************************************************************)
EXTENDS Naturals, FiniteSets, SerialQueue

CONSTANTS Buffers,     \* buffers, those of the application and staging ones
          Semaphores,  \* semaphores created by swap chains
          Pools,       \* VkCommandPools, each with its one VkCommandBuffer
          Fences,      \* VkFences
          NoPool,      \* VK_NULL_HANDLE in mPendingCommands.pool
          ApiSerials,  \* bound: API calls happen while mNextSerial <= this
          MaxSerial    \* bound: Tick is called while mNextSerial < this

ASSUME NoPoolAssumption == NoPool \notin Pools
ASSUME KindsAssumption == Buffers \cap Semaphores = {}
ASSUME BoundsAssumption == ApiSerials \in Nat /\ MaxSerial \in Nat

VARIABLES
  mNextSerial,        \* the serial of the next submit
  mCompletedSerial,   \* the last serial known to be finished on the GPU
  mFencesInFlight,    \* fences of the submits not yet seen to have passed
  mUnusedFences,
  mPendingCommands,   \* the pool being recorded into, or NoPool
  mCommandsInFlight,  \* SerialQueue of the submitted pools
  mUnusedCommands,    \* reset pools
  mWaitSemaphores,    \* semaphores the next submit will wait for
  mInflightRequests,  \* MapRequestTracker: SerialQueue of buffers
  fired,              \* requests called back by the running tracker Tick
  mBuffersToDelete,   \* FencedDeleter: SerialQueues of native objects
  mMemoriesToDelete,
  mSemaphoresToDelete,
  appRefs,            \* buffers the application or a command buffer refers to
  handles,            \* buffers whose VkBuffer exists
  memories,           \* buffers whose VkDeviceMemory exists
  semaphores,         \* semaphores that exist
  recorded,           \* the buffers that the commands in each pool use
  vkQueue,            \* submissions the GPU has not finished
  signaled,           \* fences in the signaled state
  pc,                 \* where the application's thread is
  destroying          \* whether ~Device has called Tick

deviceVars == <<mNextSerial, mCompletedSerial>>
fenceVars == <<mFencesInFlight, mUnusedFences, signaled>>
commandVars == <<mPendingCommands, mCommandsInFlight, mUnusedCommands, recorded>>
deleterVars == <<mBuffersToDelete, mMemoriesToDelete, mSemaphoresToDelete>>
requestVars == <<mInflightRequests, fired>>
nativeVars == <<handles, memories, semaphores>>
controlVars == <<pc, destroying>>
vars == <<deviceVars, fenceVars, commandVars, deleterVars, requestVars,
          nativeVars, controlVars, mWaitSemaphores, appRefs, vkQueue>>

-----------------------------------------------------------------------------
Init ==
  /\ mNextSerial = 1
  /\ mCompletedSerial = 0
  /\ mFencesInFlight = {} /\ mUnusedFences = {} /\ signaled = {}
  /\ mPendingCommands = NoPool
  /\ mCommandsInFlight = {} /\ mUnusedCommands = {}
  /\ recorded = [p \in Pools |-> {}]
  /\ mBuffersToDelete = {} /\ mMemoriesToDelete = {} /\ mSemaphoresToDelete = {}
  /\ mInflightRequests = {} /\ fired = {}
  /\ handles = {} /\ memories = {} /\ semaphores = {}
  /\ mWaitSemaphores = {} /\ appRefs = {} /\ vkQueue = {}
  /\ pc = "app" /\ destroying = FALSE

(* The application's code runs: between API calls, or in a map callback.   *)
InApp == /\ pc \in {"app", "callback"}
         /\ mNextSerial <= ApiSerials \/ destroying

(* Calls that start GPU work.  A callback of ~Device's own Tick is assumed *)
(* not to make them: the device is already being destroyed.                *)
InLiveApp == InApp /\ ~destroying

(* GetPendingCommandBuffer returns p and the caller records commands that  *)
(* use the buffers in uses.                                                *)
GetPendingCommandBuffer(p) ==
  IF mPendingCommands # NoPool THEN p = mPendingCommands
  ELSE IF mUnusedCommands # {} THEN p \in mUnusedCommands
  ELSE p \in Pools \ Items(mCommandsInFlight)

RecordInto(p, uses) ==
  recorded' = [recorded EXCEPT
                 ![p] = IF mPendingCommands = NoPool THEN uses ELSE @ \cup uses]

GetUnusedFence(f) ==
  IF mUnusedFences # {} THEN f \in mUnusedFences
  ELSE f \in Fences \ Items(mFencesInFlight)

(* SubmitPendingCommands, p being the pool of the pending commands. *)
SubmitPendingCommands(p) ==
  \E f \in Fences :
    /\ GetUnusedFence(f)
    /\ vkQueue' = vkQueue \cup {[pool |-> p, fence |-> f, serial |-> mNextSerial,
                                 waits |-> mWaitSemaphores]}
    /\ mUnusedFences' = mUnusedFences \ {f}
    /\ mFencesInFlight' = Enqueue(mFencesInFlight, {f}, mNextSerial)
    /\ mCommandsInFlight' = Enqueue(mCommandsInFlight, {p}, mNextSerial)
    /\ mPendingCommands' = NoPool
    /\ mSemaphoresToDelete' = Enqueue(mSemaphoresToDelete, mWaitSemaphores, mNextSerial)
    /\ mWaitSemaphores' = {}
    /\ mNextSerial' = mNextSerial + 1

DeleteWhenUnused_FaultEarly(bs) ==
  /\ mMemoriesToDelete' = Enqueue(mMemoriesToDelete, bs, mNextSerial - 1)
  /\ mBuffersToDelete' = Enqueue(mBuffersToDelete, bs, mNextSerial - 1)

(* ~Buffer for the buffers bs: their memory, then their handle, is given   *)
(* to the FencedDeleter.                                                   *)
DeleteWhenUnused(bs) ==
  /\ mMemoriesToDelete' = Enqueue(mMemoriesToDelete, bs, mNextSerial)
  /\ mBuffersToDelete' = Enqueue(mBuffersToDelete, bs, mNextSerial)

-----------------------------------------------------------------------------
(* The API. *)

CreateBuffer(b) ==
  /\ InLiveApp
  /\ b \notin handles \cup memories
  /\ handles' = handles \cup {b}
  /\ memories' = memories \cup {b}
  /\ appRefs' = appRefs \cup {b}
  /\ UNCHANGED <<deviceVars, fenceVars, commandVars, deleterVars, requestVars,
                 controlVars, semaphores, mWaitSemaphores, vkQueue>>

(* A request of the tracker holds a Ref<Buffer>. *)
HeldByTracker(b) == b \in Items(mInflightRequests)

(* The last reference outside the tracker goes away. *)
ReleaseBuffer(b) ==
  /\ InApp
  /\ b \in appRefs
  /\ appRefs' = appRefs \ {b}
  /\ IF HeldByTracker(b) THEN UNCHANGED deleterVars
     ELSE DeleteWhenUnused({b}) /\ UNCHANGED mSemaphoresToDelete
  /\ UNCHANGED <<deviceVars, fenceVars, commandVars, requestVars, nativeVars,
                 controlVars, mWaitSemaphores, vkQueue>>

(* SetSubData copies the data to a new staging buffer, records a copy from *)
(* it to b and lets go of the staging buffer.                              *)
SetSubData(b, staging) ==
  /\ InLiveApp
  /\ b \in appRefs
  /\ staging \notin handles \cup memories
  /\ handles' = handles \cup {staging}
  /\ memories' = memories \cup {staging}
  /\ \E p \in Pools : /\ GetPendingCommandBuffer(p)
                      /\ RecordInto(p, {b, staging})
                      /\ mPendingCommands' = p
                      /\ mUnusedCommands' = mUnusedCommands \ {p}
  /\ DeleteWhenUnused({staging})
  /\ UNCHANGED <<deviceVars, fenceVars, requestVars, controlVars, semaphores,
                 mCommandsInFlight, mSemaphoresToDelete, mWaitSemaphores,
                 appRefs, vkQueue>>

(* MapReadAsync and MapWriteAsync: a barrier on b is recorded and the      *)
(* request is tracked.  Not called from a callback of the tracker's Tick:  *)
(* Track would grow the vector that Tick is iterating over.                *)
MapAsync(b) ==
  /\ InLiveApp /\ pc = "app"
  /\ b \in appRefs
  /\ \E p \in Pools : /\ GetPendingCommandBuffer(p)
                      /\ RecordInto(p, {b})
                      /\ mPendingCommands' = p
                      /\ mUnusedCommands' = mUnusedCommands \ {p}
  /\ mInflightRequests' = Enqueue(mInflightRequests, {b}, mNextSerial)
  /\ UNCHANGED <<deviceVars, fenceVars, deleterVars, nativeVars, controlVars,
                 fired, mCommandsInFlight, mWaitSemaphores, appRefs, vkQueue>>

(* Queue::Submit of command buffers that use the buffers in uses. *)
QueueSubmit(uses) ==
  /\ InLiveApp
  /\ \E p \in Pools : /\ GetPendingCommandBuffer(p)
                      /\ RecordInto(p, uses)
                      /\ mUnusedCommands' = mUnusedCommands \ {p}
                      /\ SubmitPendingCommands(p)
  /\ UNCHANGED <<requestVars, nativeVars, controlVars, mCompletedSerial, signaled,
                 mBuffersToDelete, mMemoriesToDelete, appRefs>>

(* SwapChain::GetNextTexture: the next submit must wait for the image. *)
GetNextTexture(s) ==
  /\ InLiveApp
  /\ s \notin semaphores
  /\ semaphores' = semaphores \cup {s}
  /\ mWaitSemaphores' = mWaitSemaphores \cup {s}
  /\ UNCHANGED <<deviceVars, fenceVars, commandVars, deleterVars, requestVars,
                 controlVars, handles, memories, appRefs, vkQueue>>

-----------------------------------------------------------------------------
(* Tick, in the order of TickImpl. *)

Tick ==
  /\ pc = "app" /\ mNextSerial < MaxSerial
  /\ pc' = "fences"
  /\ UNCHANGED <<deviceVars, fenceVars, commandVars, deleterVars, requestVars,
                 nativeVars, destroying, mWaitSemaphores, appRefs, vkQueue>>

IsNextFence(e) == IsFront(e, mFencesInFlight)

ResetFence_FaultNoReset(f) == signaled' = signaled
ResetFence(f) == signaled' = signaled \ {f}

(* One turn of the loop in CheckPassedFences, called by Tick and ~Device.  *)
PassFence ==
  /\ pc \in {"fences", "lastFences"}
  /\ \E e \in mFencesInFlight :
       /\ IsNextFence(e)
       /\ e.item \in signaled
       /\ ResetFence(e.item)
       /\ mUnusedFences' = mUnusedFences \cup {e.item}
       /\ mFencesInFlight' = mFencesInFlight \ {e}
       /\ mCompletedSerial' = e.serial
  /\ UNCHANGED <<commandVars, deleterVars, requestVars, nativeVars, controlVars,
                 mNextSerial, mWaitSemaphores, appRefs, vkQueue>>

NoFencePassed ==
  \A e \in mFencesInFlight : IsNextFence(e) => e.item \notin signaled

(* The loop ends and RecycleCompletedCommands resets the finished pools. *)
RecycleCompletedCommands ==
  /\ pc = "fences" /\ NoFencePassed
  /\ LET done == Items(UpTo(mCommandsInFlight, mCompletedSerial)) IN
       /\ recorded' = [p \in Pools |-> IF p \in done THEN {} ELSE recorded[p]]
       /\ mUnusedCommands' = mUnusedCommands \cup done
  /\ mCommandsInFlight' = ClearUpTo(mCommandsInFlight, mCompletedSerial)
  /\ pc' = "map"
  /\ UNCHANGED <<deviceVars, fenceVars, deleterVars, requestVars, nativeVars,
                 destroying, mPendingCommands, mWaitSemaphores, appRefs, vkQueue>>

RequestsToFire_FaultEarly == UpTo(mInflightRequests, mNextSerial) \ fired
RequestsToFire == UpTo(mInflightRequests, mCompletedSerial) \ fired

(* MapRequestTracker::Tick calls the application back, oldest first. *)
FireMapCallback ==
  /\ pc = "map"
  /\ \E r \in RequestsToFire : IsFront(r, RequestsToFire) /\ fired' = fired \cup {r}
  /\ pc' = "callback"
  /\ UNCHANGED <<deviceVars, fenceVars, commandVars, deleterVars, nativeVars,
                 mInflightRequests, destroying, mWaitSemaphores, appRefs, vkQueue>>

CallbackReturns ==
  /\ pc = "callback"
  /\ pc' = "map"
  /\ UNCHANGED <<deviceVars, fenceVars, commandVars, deleterVars, requestVars,
                 nativeVars, destroying, mWaitSemaphores, appRefs, vkQueue>>

(* The buffers whose last Ref went away with the cleared requests. *)
LastRefs(cleared) == cleared \ (appRefs \cup Items(mInflightRequests'))

(* The tracker clears what it fired: the Ref<Buffer>s of these requests go *)
(* away, and with them the buffers that nothing else refers to.            *)
ClearMapRequests ==
  /\ pc = "map" /\ RequestsToFire = {}
  /\ mInflightRequests' = ClearUpTo(mInflightRequests, mCompletedSerial)
  /\ fired' = {}
  /\ DeleteWhenUnused(LastRefs(Items(UpTo(mInflightRequests, mCompletedSerial))))
  /\ pc' = "deleteBuffers"
  /\ UNCHANGED <<deviceVars, fenceVars, commandVars, nativeVars, destroying,
                 mSemaphoresToDelete, mWaitSemaphores, appRefs, vkQueue>>

(* FencedDeleter::Tick destroys the buffers first ... *)
DeleteBuffers ==
  /\ pc = "deleteBuffers"
  /\ handles' = handles \ Items(UpTo(mBuffersToDelete, mCompletedSerial))
  /\ mBuffersToDelete' = ClearUpTo(mBuffersToDelete, mCompletedSerial)
  /\ pc' = "deleteOthers"
  /\ UNCHANGED <<deviceVars, fenceVars, commandVars, requestVars, memories, semaphores,
                 mMemoriesToDelete, mSemaphoresToDelete, destroying, mWaitSemaphores,
                 appRefs, vkQueue>>

(* ... then the memories and the other objects. *)
DeleteOthers ==
  /\ pc = "deleteOthers"
  /\ memories' = memories \ Items(UpTo(mMemoriesToDelete, mCompletedSerial))
  /\ semaphores' = semaphores \ Items(UpTo(mSemaphoresToDelete, mCompletedSerial))
  /\ mMemoriesToDelete' = ClearUpTo(mMemoriesToDelete, mCompletedSerial)
  /\ mSemaphoresToDelete' = ClearUpTo(mSemaphoresToDelete, mCompletedSerial)
  /\ pc' = "submit"
  /\ UNCHANGED <<deviceVars, fenceVars, commandVars, requestVars, handles,
                 mBuffersToDelete, destroying, mWaitSemaphores, appRefs, vkQueue>>

AfterTick == IF destroying THEN "asserts" ELSE "app"

(* The end of Tick: pending commands are submitted; without them and with  *)
(* nothing in flight both serials move on so that nobody waits forever.    *)
TickSubmits ==
  /\ pc = "submit" /\ mPendingCommands # NoPool
  /\ SubmitPendingCommands(mPendingCommands)
  /\ pc' = AfterTick
  /\ UNCHANGED <<requestVars, nativeVars, destroying, mCompletedSerial, signaled,
                 mUnusedCommands, recorded, mBuffersToDelete, mMemoriesToDelete, appRefs>>

NothingInFlight_FaultAlways == TRUE
NothingInFlight_FaultNever == FALSE
NothingInFlight == mCompletedSerial = mNextSerial - 1

TickMovesOn ==
  /\ pc = "submit" /\ mPendingCommands = NoPool
  /\ IF NothingInFlight
     THEN /\ mCompletedSerial' = mCompletedSerial + 1
          /\ mNextSerial' = mNextSerial + 1
     ELSE UNCHANGED deviceVars
  /\ pc' = AfterTick
  /\ UNCHANGED <<fenceVars, commandVars, deleterVars, requestVars, nativeVars,
                 destroying, mWaitSemaphores, appRefs, vkQueue>>

-----------------------------------------------------------------------------
(* ~Device. *)

(* FreeCommands(&mPendingCommands), then vkQueueWaitIdle is called. *)
DestroyDevice ==
  /\ pc = "app"
  /\ recorded' = [p \in Pools |-> IF p = mPendingCommands THEN {} ELSE recorded[p]]
  /\ mPendingCommands' = NoPool
  /\ pc' = "waitIdle"
  /\ UNCHANGED <<deviceVars, fenceVars, deleterVars, requestVars, nativeVars,
                 mCommandsInFlight, mUnusedCommands, destroying, mWaitSemaphores,
                 appRefs, vkQueue>>

QueueIsIdle ==
  /\ pc = "waitIdle" /\ vkQueue = {}
  /\ pc' = "lastFences"
  /\ UNCHANGED <<deviceVars, fenceVars, commandVars, deleterVars, requestVars,
                 nativeVars, destroying, mWaitSemaphores, appRefs, vkQueue>>

ForcedSerial_FaultLastSubmit == mNextSerial - 1
ForcedSerial == mNextSerial

(* CheckPassedFences is done: everything is forced to look completed. *)
ForceCompletion ==
  /\ pc = "lastFences" /\ NoFencePassed
  /\ mCompletedSerial' = ForcedSerial
  /\ destroying' = TRUE
  /\ pc' = "fences"
  /\ UNCHANGED <<fenceVars, commandVars, deleterVars, requestVars, nativeVars,
                 mNextSerial, mWaitSemaphores, appRefs, vkQueue>>

(* The assertions of ~Device and of its services, then vkDestroyDevice. *)
DestroyVkDevice ==
  /\ pc = "asserts"
  /\ mUnusedCommands' = {} /\ mUnusedFences' = {}
  /\ pc' = "gone"
  /\ UNCHANGED <<deviceVars, deleterVars, requestVars, nativeVars, destroying,
                 mFencesInFlight, signaled, mPendingCommands, mCommandsInFlight,
                 recorded, mWaitSemaphores, appRefs, vkQueue>>

Terminated == pc = "gone" /\ UNCHANGED vars

-----------------------------------------------------------------------------
(* The GPU finishes its oldest submission and signals the fence. *)
GpuFinish ==
  /\ \E s \in vkQueue : /\ IsFront(s, vkQueue)
                        /\ vkQueue' = vkQueue \ {s}
                        /\ signaled' = signaled \cup {s.fence}
  /\ UNCHANGED <<deviceVars, commandVars, deleterVars, requestVars, nativeVars,
                 controlVars, mFencesInFlight, mUnusedFences, mWaitSemaphores, appRefs>>

Api == \/ \E b \in Buffers : CreateBuffer(b) \/ ReleaseBuffer(b) \/ MapAsync(b)
       \/ \E b, staging \in Buffers : SetSubData(b, staging)
       \/ \E uses \in SUBSET appRefs : QueueSubmit(uses)
       \/ \E s \in Semaphores : GetNextTexture(s)

TickStep == \/ PassFence \/ RecycleCompletedCommands \/ FireMapCallback
            \/ CallbackReturns \/ ClearMapRequests \/ DeleteBuffers
            \/ DeleteOthers \/ TickSubmits \/ TickMovesOn

Destruction == DestroyDevice \/ QueueIsIdle \/ ForceCompletion \/ DestroyVkDevice

Next == Api \/ Tick \/ TickStep \/ Destruction \/ GpuFinish \/ Terminated

Spec == Init /\ [][Next]_vars

(* The application calls Tick again and again and its callbacks return;    *)
(* Tick and ~Device run to their end; the GPU finishes what it was given.  *)
Fairness == /\ WF_vars(Tick)
            /\ WF_vars(TickStep)
            /\ WF_vars(QueueIsIdle \/ ForceCompletion \/ DestroyVkDevice)
            /\ WF_vars(GpuFinish)

FairSpec == Spec /\ Fairness

-----------------------------------------------------------------------------
(* Properties. *)

Serials == Nat
Entries(items) == [item : items, serial : Serials]

(* Every variable has the shape of the member of the code it stands for. *)
TypeOK ==
  /\ mNextSerial \in Serials /\ mCompletedSerial \in Serials
  /\ mFencesInFlight \subseteq Entries(Fences)
  /\ mUnusedFences \subseteq Fences /\ signaled \subseteq Fences
  /\ mPendingCommands \in Pools \cup {NoPool}
  /\ mCommandsInFlight \subseteq Entries(Pools)
  /\ mUnusedCommands \subseteq Pools
  /\ recorded \in [Pools -> SUBSET Buffers]
  /\ mWaitSemaphores \subseteq Semaphores
  /\ mInflightRequests \subseteq Entries(Buffers) /\ fired \subseteq mInflightRequests
  /\ mBuffersToDelete \subseteq Entries(Buffers)
  /\ mMemoriesToDelete \subseteq Entries(Buffers)
  /\ mSemaphoresToDelete \subseteq Entries(Semaphores)
  /\ appRefs \subseteq Buffers /\ handles \subseteq Buffers
  /\ memories \subseteq Buffers /\ semaphores \subseteq Semaphores
  /\ vkQueue \subseteq [pool : Pools, fence : Fences, serial : Serials,
                        waits : SUBSET Semaphores]
  /\ pc \in {"app", "callback", "fences", "map", "deleteBuffers", "deleteOthers",
             "submit", "waitIdle", "lastFences", "asserts", "gone"}
  /\ destroying \in BOOLEAN

(* The buffers that commands being recorded or not yet finished use. *)
BuffersInUse ==
  UNION {recorded[p] : p \in {s.pool : s \in vkQueue}
                              \cup ({mPendingCommands} \ {NoPool})}

(* No native object is destroyed while commands that are being recorded or  *)
(* that the GPU has not finished refer to it: what DeleteWhenUnused is for. *)
NoUseAfterDestroy ==
  /\ BuffersInUse \subseteq handles \cap memories
  /\ mWaitSemaphores \subseteq semaphores
  /\ \A s \in vkQueue : s.waits \subseteq semaphores

(* mCompletedSerial never runs ahead of the GPU, although Tick also moves it *)
(* without a fence; it stays behind mNextSerial until ~Device forces it.     *)
CompletedIsFinished ==
  /\ \A s \in vkQueue : mCompletedSerial < s.serial /\ s.serial < mNextSerial
  /\ mCompletedSerial < mNextSerial \/ destroying

(* ASSERT(fenceSerial > mCompletedSerial) in CheckPassedFences: fences pass  *)
(* in the order of their serials and never after the serial has moved on.    *)
FencesPassInOrder == \A e \in mFencesInFlight : mCompletedSerial < e.serial

(* A command pool is recycled, and a fence handed out again, only when the   *)
(* submission that used it is finished, and the fence has been reset.        *)
RecycledOnlyWhenFinished ==
  \A s \in vkQueue :
    /\ s.pool \notin mUnusedCommands \cup {mPendingCommands}
    /\ s.fence \notin mUnusedFences \cup signaled
    /\ \A t \in vkQueue : (s.pool = t.pool \/ s.fence = t.fence) => s = t

(* "Buffers and images must be deleted before memories": no memory is freed  *)
(* while the buffer bound to it still exists.                                *)
MemoryOutlivesBuffer == handles \subseteq memories

(* When a map request is called back, every command on the buffer recorded   *)
(* before the request was made has been submitted and finished.              *)
MapSeesFinishedWork ==
  \A r \in fired :
    /\ \A s \in vkQueue : r.item \in recorded[s.pool] => r.serial < s.serial
    /\ mPendingCommands # NoPool /\ r.item \in recorded[mPendingCommands]
         => r.serial < mNextSerial

(* The buffer of a request stays alive until its request is cleared, however *)
(* early the application lets go of it.                                      *)
MappedBufferAlive == Items(mInflightRequests) \subseteq handles \ Items(mBuffersToDelete)

(* What ~Device and the destructors of its services assert after the last    *)
(* Tick: nothing is left in flight, tracked or to be deleted.  Nor does any  *)
(* native buffer outlive the device, but those the application still holds.  *)
NothingLeftInFlight ==
  pc = "asserts" =>
    /\ mFencesInFlight = {} /\ mCommandsInFlight = {} /\ mInflightRequests = {}
    /\ mBuffersToDelete = {} /\ mMemoriesToDelete = {} /\ mSemaphoresToDelete = {}
    /\ handles \cup memories \subseteq appRefs

(* ASSERT(mWaitSemaphores.empty()) in ~Device. *)
WaitSemaphoresConsumed == pc = "asserts" => mWaitSemaphores = {}

(* Every buffer given to the FencedDeleter is destroyed in the end. *)
DeletionHappens ==
  \A b \in Buffers : b \in Items(mMemoriesToDelete) ~> b \notin handles \cup memories

(* Every tracked map request is called back in the end, even when nothing is *)
(* ever submitted after it.                                                  *)
RequestsFire ==
  \A b \in Buffers : b \in Items(mInflightRequests) ~> b \in Items(fired)

(* What waits for a serial does not wait forever: the serials pass without   *)
(* further submissions.                                                      *)
EverythingEnds == DeletionHappens /\ RequestsFire

(* The state of GpuResources that a state of the device stands for. *)
Live == handles \cup memories \cup semaphores
Retired == Items(mMemoriesToDelete) \cup Items(mSemaphoresToDelete)
PendingUses == IF mPendingCommands = NoPool THEN {} ELSE recorded[mPendingCommands]
BeingRecorded == mWaitSemaphores \cup PendingUses
Batches == {[id |-> s.serial, uses |-> s.waits \cup recorded[s.pool]] : s \in vkQueue}

(* The device implements the promise of GpuResources. *)
Resource == INSTANCE GpuResources WITH
  Resources <- Buffers \cup Semaphores, live <- Live, retired <- Retired,
  recording <- BeingRecorded, batches <- Batches

ImplementsGpuResources == Resource!AbsSpec

-----------------------------------------------------------------------------
(* The inductive invariant behind the safety properties. *)

(* Where the thread of the application is decides what can be in progress. *)
PhaseInv ==
  /\ destroying => /\ pc \notin {"app", "waitIdle", "lastFences"}
                   /\ vkQueue = {} /\ mFencesInFlight = {}
                   /\ mCompletedSerial = mNextSerial
  /\ ~destroying => /\ pc \notin {"asserts", "gone"}
                    /\ mCompletedSerial < mNextSerial
  /\ destroying \/ pc \in {"waitIdle", "lastFences"} => mPendingCommands = NoPool
  /\ pc = "lastFences" => vkQueue = {}

(* Fences in flight and submissions correspond; a fence is in one place.    *)
FenceInv ==
  /\ \A e \in mFencesInFlight :
       /\ mCompletedSerial < e.serial /\ e.serial < mNextSerial
       /\ e.item \notin mUnusedFences
       /\ e.item \in signaled \/ \E s \in vkQueue : s.fence = e.item
  /\ \A e, g \in mFencesInFlight : e.item = g.item \/ e.serial = g.serial => e = g
  /\ \A f \in signaled : \E e \in mFencesInFlight : e.item = f
  /\ \A s \in vkQueue :
       /\ s.fence \notin signaled
       /\ \E e \in mFencesInFlight : e.item = s.fence /\ e.serial = s.serial
  /\ \A s, t \in vkQueue : s.serial = t.serial => s = t

(* A command pool is in one place, and stays in flight until finished. *)
PoolInv ==
  /\ \A e \in mCommandsInFlight :
       /\ e.serial < mNextSerial
       /\ e.item \notin mUnusedCommands \cup {mPendingCommands}
  /\ \A e, g \in mCommandsInFlight : e.item = g.item => e = g
  /\ mPendingCommands \notin mUnusedCommands
  /\ \A s \in vkQueue :
       \E e \in mCommandsInFlight : e.item = s.pool /\ e.serial = s.serial

(* A buffer is referred to or queued for deletion, once, and not both; what *)
(* is queued is queued behind the commands that use it.                     *)
DeletionInv ==
  /\ mBuffersToDelete = IF pc = "deleteOthers"
                        THEN ClearUpTo(mMemoriesToDelete, mCompletedSerial)
                        ELSE mMemoriesToDelete
  /\ \A e \in mMemoriesToDelete :
       /\ e.item \in memories \ (appRefs \cup Items(mInflightRequests))
       /\ e.item \in handles <=> e \in mBuffersToDelete
       /\ e.serial <= mNextSerial
       /\ \A s \in vkQueue : e.item \in recorded[s.pool] => s.serial <= e.serial
       /\ mPendingCommands # NoPool /\ e.item \in recorded[mPendingCommands]
            => mNextSerial <= e.serial
  /\ \A e, g \in mMemoriesToDelete : e.item = g.item => e = g
  /\ appRefs \cup Items(mInflightRequests) \subseteq handles
  /\ \A s \in vkQueue : recorded[s.pool] \subseteq handles
  /\ mPendingCommands # NoPool => recorded[mPendingCommands] \subseteq handles
  /\ handles \subseteq memories

(* Semaphores are queued for deletion behind the submit that waits for them. *)
SemaphoreInv ==
  /\ \A e \in mSemaphoresToDelete : e.item \in semaphores \ mWaitSemaphores
  /\ \A e, g \in mSemaphoresToDelete : e.item = g.item => e = g
  /\ mWaitSemaphores \subseteq semaphores
  /\ \A s \in vkQueue : \A w \in s.waits :
       \E e \in mSemaphoresToDelete : e.item = w /\ e.serial = s.serial

RequestInv == \A r \in fired : r \in mInflightRequests /\ r.serial <= mCompletedSerial

MemoriesKnown ==
  memories \subseteq appRefs \cup Items(mInflightRequests) \cup Items(mMemoriesToDelete)

(* Nothing is queued behind the next submit, every memory is referred to or  *)
(* queued for deletion, and ~Device's own Tick empties queue after queue.    *)
LeftInv ==
  /\ \A e \in mInflightRequests \cup mSemaphoresToDelete : e.serial <= mNextSerial
  /\ MemoriesKnown
  /\ destroying /\ pc # "fences" => mCommandsInFlight = {}
  /\ destroying /\ pc \notin {"fences", "map", "callback"} => mInflightRequests = {}
  /\ destroying /\ pc \in {"submit", "asserts"} =>
       mMemoriesToDelete = {} /\ mSemaphoresToDelete = {}

IndInv == TypeOK /\ PhaseInv /\ FenceInv /\ PoolInv /\ DeletionInv
            /\ SemaphoreInv /\ RequestInv /\ LeftInv
=============================================================================
