---------------------------- MODULE D3D12Device ----------------------------
(***************************************************************************)
(* The Direct3D 12 device (src/src/dawn_native/d3d12/DeviceD3D12.cpp) with *)
(* its CommandAllocatorManager, ResourceAllocator, ResourceUploader and    *)
(* MapRequestTracker, the queue and the native swap chain.                 *)
(*                                                                         *)
(* There is one fence.  NextSerial makes the GPU signal it with mSerial    *)
(* when it gets there, and what must wait for the GPU is queued at the     *)
(* mSerial of its day.  Two actors run: the application's thread (pc says  *)
(* where inside TickImpl, Queue::Submit or ~Device it is) and the GPU,     *)
(* which works through its queue of executions and signals in order.       *)
(*                                                                         *)
(* A resource is kept alive by ComPtrs: it exists while a buffer object or *)
(* mReleasedResources refers to it.  Map callbacks make no calls that tick *)
(* the device again, and none that start GPU work while ~Device runs.      *)
(* A definition named X_Fault is X with a plausible bug: nothing uses it.  *)
(***************************************************************************)
EXTENDS Naturals, Sequences, SerialQueue

CONSTANTS Resources,        \* the native resources of buffers
          Allocators,       \* the kMaxCommandAllocators command allocators
          NoAllocator,      \* no pending command list is open
          AbandonRecording, \* may the device be destroyed while it has an
                            \* open pending command list?
          ApiSerials,       \* bound: API calls happen while mSerial <= this
          MaxSerial         \* bound: from then to this serial, Tick is called
                            \* only when the GPU has nothing left to do

ASSUME AllocatorAssumption == NoAllocator \notin Allocators /\ Allocators # {}
ASSUME BoundsAssumption == ApiSerials \in Nat /\ MaxSerial \in Nat

kFrameCount == 2
Frames == 0 .. kFrameCount - 1  \* back buffers of the swap chain

ASSUME FramesAssumption == Resources \cap Frames = {}

VARIABLES
  mSerial,            \* what the next NextSerial signals
  completed,          \* mFence's completed value
  gpuQueue,           \* executions and signals the GPU has not reached
  mPendingCommands,   \* [allocator, uses] of the open pending list
  mFreeAllocators,
  mInFlightCommandAllocators,  \* SerialQueues
  mReleasedResources,
  mInflightRequests,
  appRefs,            \* resources of buffers that the application or a
                      \* command buffer refers to
  lastCompletedSerial, fired,  \* of the TickImpl that runs
  mBufferSerials, mCurrentBuffer, acquired,  \* the swap chain
  pc, cont            \* where the thread is, and where TickImpl returns to

allocatorVars == <<mFreeAllocators, mInFlightCommandAllocators>>
bufferVars == <<mReleasedResources, mInflightRequests, appRefs>>
tickVars == <<lastCompletedSerial, fired>>
frameVars == <<mBufferSerials, mCurrentBuffer, acquired>>
controlVars == <<pc, cont>>
vars == <<mSerial, completed, gpuQueue, mPendingCommands, allocatorVars,
          bufferVars, tickVars, frameVars, controlVars>>

Closed == [allocator |-> NoAllocator, uses |-> {}]
IsOpen == mPendingCommands.allocator # NoAllocator

(* The constructor has signaled serial 0. *)
Init ==
  /\ mSerial = 1 /\ completed = 0 /\ gpuQueue = <<>>
  /\ mPendingCommands = Closed
  /\ mFreeAllocators = Allocators /\ mInFlightCommandAllocators = {}
  /\ mReleasedResources = {} /\ mInflightRequests = {} /\ appRefs = {}
  /\ lastCompletedSerial = 0 /\ fired = {}
  /\ mBufferSerials = [f \in Frames |-> 0]
  /\ mCurrentBuffer = 0 /\ acquired = FALSE
  /\ pc = "app" /\ cont = "app"

-----------------------------------------------------------------------------
(* The helpers of the device. *)

Live == appRefs \cup Items(mInflightRequests) \cup Items(mReleasedResources)

Execution(lists) == [op |-> "execute", allocators |-> {l.allocator : l \in lists},
                     uses |-> UNION {l.uses : l \in lists}]
Signal(serial) == [op |-> "signal", serial |-> serial]

(* ExecuteCommandLists puts the pending list, if it is open, before lists. *)
Executed(pending, lists) ==
  LET all == lists \cup ({pending} \ {Closed}) IN
  IF all = {} THEN gpuQueue ELSE Append(gpuQueue, Execution(all))

FirstSerial == CHOOSE s \in {e.serial : e \in mInFlightCommandAllocators} :
                 \A e \in mInFlightCommandAllocators : s <= e.serial

ReserveSerial == mSerial

(* ReserveCommandAllocator returns a.  Without a free allocator the thread *)
(* waits for the oldest serial in flight and resets what it has freed.     *)
ReserveCommandAllocator(a) ==
  LET freed == IF mFreeAllocators # {} THEN {}
               ELSE UpTo(mInFlightCommandAllocators, FirstSerial)
  IN /\ IF mFreeAllocators = {} THEN FirstSerial <= completed ELSE TRUE
     /\ a \in mFreeAllocators \cup Items(freed)
     /\ mFreeAllocators' = (mFreeAllocators \cup Items(freed)) \ {a}
     /\ mInFlightCommandAllocators' =
          Enqueue(mInFlightCommandAllocators \ freed, {a}, ReserveSerial)

(* GetPendingCommandList, and commands on it that use the resources uses. *)
RecordPending(uses) ==
  IF IsOpen
  THEN /\ mPendingCommands' = [mPendingCommands EXCEPT !.uses = @ \cup uses]
       /\ UNCHANGED allocatorVars
  ELSE \E a \in Allocators :
         /\ ReserveCommandAllocator(a)
         /\ mPendingCommands' = [allocator |-> a, uses |-> uses]

ReleaseSerial_FaultPrevious == mSerial - 1
ReleaseSerial == mSerial

(* ResourceAllocator::Release. *)
Released(rs) == Enqueue(mReleasedResources, rs, ReleaseSerial)

-----------------------------------------------------------------------------
(* The API. *)

InApp == /\ \/ pc = "app"
            \/ pc = "callback" /\ cont # "destroyed"
         /\ mSerial <= ApiSerials

CreateBuffer(r) ==
  /\ InApp /\ r \notin Live
  /\ appRefs' = appRefs \cup {r}
  /\ UNCHANGED <<mSerial, completed, gpuQueue, mPendingCommands, allocatorVars,
                 mReleasedResources, mInflightRequests, tickVars, frameVars, controlVars>>

(* The last reference but those of map requests: ~Buffer, unless one is left. *)
ReleaseBuffer(r) ==
  /\ InApp /\ r \in appRefs
  /\ appRefs' = appRefs \ {r}
  /\ mReleasedResources' = IF r \in Items(mInflightRequests) THEN mReleasedResources
                           ELSE Released({r})
  /\ UNCHANGED <<mSerial, completed, gpuQueue, mPendingCommands, allocatorVars,
                 mInflightRequests, tickVars, frameVars, controlVars>>

(* SetSubData: BufferSubData copies from a new upload resource. *)
SetSubData(r, upload) ==
  /\ InApp /\ r \in appRefs /\ upload \notin Live
  /\ RecordPending({r, upload})
  /\ mReleasedResources' = Released({upload})
  /\ UNCHANGED <<mSerial, completed, gpuQueue, mInflightRequests, appRefs,
                 tickVars, frameVars, controlVars>>

(* MapReadAsync and MapWriteAsync.  Not in a callback: Track would grow    *)
(* the vector that MapRequestTracker::Tick iterates over.                  *)
MapAsync(r) ==
  /\ InApp /\ pc = "app" /\ r \in appRefs
  /\ mInflightRequests' = Enqueue(mInflightRequests, {r}, mSerial)
  /\ UNCHANGED <<mSerial, completed, gpuQueue, mPendingCommands, allocatorVars,
                 mReleasedResources, appRefs, tickVars, frameVars, controlVars>>

BeginTick(returnTo) ==
  /\ pc' = "tick" /\ cont' = returnTo
  /\ UNCHANGED <<completed, mPendingCommands, allocatorVars, bufferVars, tickVars,
                 frameVars>>

Tick == /\ pc = "app"
        /\ mSerial <= ApiSerials \/ (mSerial <= MaxSerial /\ gpuQueue = <<>>)
        /\ BeginTick("app")
        /\ UNCHANGED <<mSerial, gpuQueue>>

(* Queue::Submit ticks the device first ... *)
QueueSubmit == /\ InApp /\ pc = "app"
               /\ BeginTick("submit")
               /\ UNCHANGED <<mSerial, gpuQueue>>

(* ... and then executes a list, which uses the resources in uses and the  *)
(* acquired back buffer.                                                   *)
SubmitLists(uses) ==
  /\ pc = "submit"
  /\ \E a \in Allocators :
       /\ ReserveCommandAllocator(a)
       /\ gpuQueue' = Append(Executed(mPendingCommands,
                               {[allocator |-> a, uses |-> uses]}), Signal(mSerial))
  /\ mPendingCommands' = Closed
  /\ mSerial' = mSerial + 1
  /\ pc' = "app"
  /\ UNCHANGED <<completed, bufferVars, tickVars, frameVars, cont>>

(* The native swap chain waits until the GPU is done with the back buffer. *)
GetNextTexture ==
  /\ InApp /\ ~acquired
  /\ mBufferSerials[mCurrentBuffer] <= completed
  /\ acquired' = TRUE
  /\ UNCHANGED <<mSerial, completed, gpuQueue, mPendingCommands, allocatorVars,
                 bufferVars, tickVars, mBufferSerials, mCurrentBuffer, controlVars>>

PresentSerial_FaultBefore == mSerial - 1
PresentSerial == mSerial + 1

(* SwapChain::OnBeforePresent executes a transition of the back buffer;    *)
(* NativeSwapChainImpl::Present then moves the serial on.                  *)
Present ==
  /\ InApp /\ acquired
  /\ LET transition == {mCurrentBuffer} IN
     IF IsOpen
     THEN /\ UNCHANGED allocatorVars
          /\ gpuQueue' = Append(Executed([mPendingCommands EXCEPT !.uses = @ \cup transition],
                                         {}), Signal(mSerial))
     ELSE \E a \in Allocators :
            /\ ReserveCommandAllocator(a)
            /\ gpuQueue' = Append(Executed([allocator |-> a, uses |-> transition], {}),
                                  Signal(mSerial))
  /\ mPendingCommands' = Closed
  /\ mSerial' = mSerial + 1
  /\ mBufferSerials' = [mBufferSerials EXCEPT ![mCurrentBuffer] = PresentSerial]
  /\ mCurrentBuffer' = (mCurrentBuffer + 1) % kFrameCount
  /\ acquired' = FALSE
  /\ UNCHANGED <<completed, bufferVars, tickVars, controlVars>>

-----------------------------------------------------------------------------
(* TickImpl. *)

(* The fence is read once; resources and allocators up to it are freed. *)
FreeCompleted ==
  /\ pc = "tick"
  /\ lastCompletedSerial' = completed
  /\ mReleasedResources' = ClearUpTo(mReleasedResources, completed)
  /\ mFreeAllocators' =
       mFreeAllocators \cup Items(UpTo(mInFlightCommandAllocators, completed))
  /\ mInFlightCommandAllocators' = ClearUpTo(mInFlightCommandAllocators, completed)
  /\ pc' = "map"
  /\ UNCHANGED <<mSerial, completed, gpuQueue, mPendingCommands, mInflightRequests,
                 appRefs, fired, frameVars, cont>>

RequestsToFire_FaultStrict ==
  UpTo(mInflightRequests, lastCompletedSerial - 1) \ fired
RequestsToFire == UpTo(mInflightRequests, lastCompletedSerial) \ fired

FireMapCallback ==
  /\ pc = "map"
  /\ \E r \in RequestsToFire : IsFront(r, RequestsToFire) /\ fired' = fired \cup {r}
  /\ pc' = "callback"
  /\ UNCHANGED <<mSerial, completed, gpuQueue, mPendingCommands, allocatorVars,
                 bufferVars, lastCompletedSerial, frameVars, cont>>

CallbackReturns ==
  /\ pc = "callback"
  /\ pc' = "map"
  /\ UNCHANGED <<mSerial, completed, gpuQueue, mPendingCommands, allocatorVars,
                 bufferVars, tickVars, frameVars, cont>>

(* The tracker clears what it has fired, and with it the last references   *)
(* to some buffers; pending commands are executed and the serial moves on. *)
FinishTick ==
  /\ pc = "map" /\ RequestsToFire = {}
  /\ LET cleared == UpTo(mInflightRequests, lastCompletedSerial)
         left == mInflightRequests \ cleared
     IN /\ mInflightRequests' = left
        /\ mReleasedResources' = Released(Items(cleared) \ (appRefs \cup Items(left)))
  /\ fired' = {}
  /\ gpuQueue' = Append(Executed(mPendingCommands, {}), Signal(mSerial))
  /\ mPendingCommands' = Closed
  /\ mSerial' = mSerial + 1
  /\ pc' = cont
  /\ UNCHANGED <<completed, allocatorVars, appRefs, lastCompletedSerial, frameVars, cont>>

-----------------------------------------------------------------------------
(* ~Device: the serial is moved on and waited for; then one more TickImpl. *)

DestroyDevice ==
  /\ pc = "app"
  /\ AbandonRecording \/ ~IsOpen
  /\ gpuQueue' = Append(gpuQueue, Signal(mSerial))
  /\ mSerial' = mSerial + 1
  /\ pc' = "waiting"
  /\ UNCHANGED <<completed, mPendingCommands, allocatorVars, bufferVars, tickVars,
                 frameVars, cont>>

LastSignalPassed ==
  /\ pc = "waiting" /\ completed >= mSerial - 1
  /\ BeginTick("destroyed")
  /\ UNCHANGED <<mSerial, gpuQueue>>

Terminated == pc = "destroyed" /\ UNCHANGED vars

-----------------------------------------------------------------------------
(* The GPU reaches the next execution's end, or the next signal. *)
GpuStep ==
  /\ gpuQueue # <<>>
  /\ gpuQueue' = Tail(gpuQueue)
  /\ completed' = IF Head(gpuQueue).op = "signal" THEN Head(gpuQueue).serial ELSE completed
  /\ UNCHANGED <<mSerial, mPendingCommands, allocatorVars, bufferVars, tickVars,
                 frameVars, controlVars>>

Api == \/ \E r \in Resources : CreateBuffer(r) \/ ReleaseBuffer(r) \/ MapAsync(r)
       \/ \E r, upload \in Resources : SetSubData(r, upload)
       \/ QueueSubmit \/ GetNextTexture \/ Present

Submission == \E uses \in SUBSET (appRefs \cup (IF acquired THEN {mCurrentBuffer} ELSE {})) :
                SubmitLists(uses)

TickStep == FreeCompleted \/ FireMapCallback \/ CallbackReturns \/ FinishTick

Next == Api \/ Tick \/ Submission \/ TickStep \/ DestroyDevice \/ LastSignalPassed
          \/ GpuStep \/ Terminated

Spec == Init /\ [][Next]_vars

(* The application keeps calling Tick and its callbacks return, the thread *)
(* goes on with what it has begun and the GPU works.                       *)
FairSpec == /\ Spec
            /\ WF_vars(Tick) /\ WF_vars(TickStep) /\ WF_vars(Submission)
            /\ WF_vars(LastSignalPassed) /\ WF_vars(GpuStep)

-----------------------------------------------------------------------------
(* Properties *)

Used == Resources \cup Frames
Executions == {gpuQueue[i] : i \in {j \in DOMAIN gpuQueue : gpuQueue[j].op = "execute"}}
Signals == {gpuQueue[i].serial : i \in {j \in DOMAIN gpuQueue : gpuQueue[j].op = "signal"}}
Entries(items) == [item : items, serial : Nat]

(* Every variable has its type. *)
TypeOK ==
  /\ {mSerial, completed, lastCompletedSerial} \subseteq Nat
  /\ gpuQueue \in Seq([op : {"execute"}, allocators : SUBSET Allocators, uses : SUBSET Used]
                        \cup [op : {"signal"}, serial : Nat])
  /\ mPendingCommands \in [allocator : Allocators \cup {NoAllocator}, uses : SUBSET Used]
  /\ mFreeAllocators \subseteq Allocators
  /\ mInFlightCommandAllocators \subseteq Entries(Allocators)
  /\ mReleasedResources \subseteq Entries(Resources)
  /\ mInflightRequests \subseteq Entries(Resources) /\ fired \subseteq mInflightRequests
  /\ appRefs \subseteq Resources
  /\ mBufferSerials \in [Frames -> Nat] /\ mCurrentBuffer \in Frames
  /\ acquired \in BOOLEAN
  /\ pc \in {"app", "tick", "map", "callback", "submit", "waiting", "destroyed"}
  /\ cont \in {"app", "submit", "destroyed"}

ResourcesInUse ==
  (mPendingCommands.uses \cup UNION {x.uses : x \in Executions}) \ Frames

(* "Resources may still be in use on the GPU. Enqueue them so that we hold *)
(* onto them until GPU execution has completed" (ResourceAllocator.cpp):   *)
(* no resource goes away under commands that use it.                       *)
NoUseAfterRelease == ResourcesInUse \subseteq Live

(* A command allocator that is free, and so may be reset and handed out,   *)
(* is used neither by the open list nor by the GPU                         *)
(* (CommandAllocatorManager.h:32-33).                                      *)
AllocatorsFreeWhenIdle ==
  mFreeAllocators \cap ({mPendingCommands.allocator}
                          \cup UNION {x.allocators : x \in Executions}) = {}

(* WaitForSerial never waits for a serial that nobody has asked the GPU to *)
(* signal: neither for a command allocator, with as few of these as there  *)
(* are ("at least 2", CommandAllocatorManager.h:40), nor for a back        *)
(* buffer, whose serial is still to be signaled when Present stores it.    *)
WaitsEnd ==
  /\ pc \in {"app", "submit"} /\ ~IsOpen /\ mFreeAllocators = {}
       => FirstSerial < mSerial
  /\ pc = "app" /\ ~acquired => mBufferSerials[mCurrentBuffer] < mSerial
  /\ \A s \in 1 .. mSerial - 1 : s <= completed \/ s \in Signals

(* A back buffer is handed out again only when the GPU is done with what   *)
(* was rendered to it.                                                     *)
BackBufferIdle ==
  [][acquired' /\ ~acquired =>
       \A x \in Executions : mCurrentBuffer \notin x.uses]_vars

(* What is used in turns, command allocators and back buffers, is handed   *)
(* out only when the GPU is done with it.                                  *)
ReuseIsSafe == []AllocatorsFreeWhenIdle /\ BackBufferIdle

(* Every map request is called back in the end, and every resource that    *)
(* was released is freed, if only by the end of the device; no wait on the *)
(* way is for nothing.                                                     *)
EverythingEnds ==
  /\ []WaitsEnd
  /\ \A r \in Resources :
       /\ r \in Items(mInflightRequests) ~> r \in Items(fired)
       /\ r \in Items(mReleasedResources)
            ~> r \notin Items(mReleasedResources) \/ pc = "destroyed"

(* The executions that the GPU has not reached, each with the serial that  *)
(* the GPU signals right after it.                                         *)
WorkOf(q) == {[serial |-> q[i + 1].serial, uses |-> q[i].uses, allocators |-> q[i].allocators] :
                i \in {j \in DOMAIN q : q[j].op = "execute"}}
Work == WorkOf(gpuQueue)

(* The device implements the promise of GpuResources. *)
Retired == Items(mReleasedResources) \ (appRefs \cup Items(mInflightRequests))
Recorded == mPendingCommands.uses \ Frames
Batches == {[id |-> w.serial, uses |-> w.uses \ Frames] : w \in Work}

Resource == INSTANCE GpuResources WITH
  live <- Live, retired <- Retired, recording <- Recorded, batches <- Batches

ImplementsGpuResources == Resource!AbsSpec
=============================================================================
