---------------------------- MODULE MetalDevice ----------------------------
(***************************************************************************)
(* The Metal device (src/src/dawn_native/metal/DeviceMTL.mm) with its      *)
(* MapRequestTracker, ResourceUploader and queue.                          *)
(*                                                                         *)
(* Three actors run: the application's thread (pc says where inside        *)
(* TickImpl, Queue::Submit or ~Device it is), the GPU, which completes     *)
(* command buffers in the order they were committed, and the thread on     *)
(* which Metal calls the completion handlers, in that order too.  A        *)
(* handler writes mFinishedCommandSerial while the application's thread    *)
(* reads it, twice in each TickImpl and again and again in ~Device.        *)
(*                                                                         *)
(* A command buffer retains the buffers it uses until its handler ran, so  *)
(* ~Buffer releases its MTLBuffer at once.  Map callbacks make no calls    *)
(* that tick the device, and none that start GPU work while ~Device runs.  *)
(* A definition named X_Fault is X with a plausible bug: nothing uses it.  *)
(***************************************************************************)
EXTENDS Naturals, Sequences, FiniteSets, SequencesExt, SerialQueue

CONSTANTS
  Buffers,
  ApiSerials     \* bound: API calls, except for Tick, happen while
                 \* mPendingCommandSerial <= this

VARIABLES
  mFinishedCommandSerial, mPendingCommandSerial,
  mPendingCommands,        \* <<>>, or the buffers the open command buffer uses
  committed,               \* [serial, uses, completed], handler not yet run
  mInflightRequests, mInflightUploadBuffers,    \* SerialQueues
  appRefs,                 \* buffers with a reference other than a map request
  finishedSerial, fired,   \* of the MapRequestTracker::Tick that runs
  pc, cont                 \* where the thread is, and where TickImpl returns to

queueVars == <<mInflightRequests, mInflightUploadBuffers, appRefs>>
tickVars == <<finishedSerial, fired>>
controlVars == <<pc, cont>>
commandVars == <<mPendingCommandSerial, mPendingCommands, committed>>
vars == <<mFinishedCommandSerial, commandVars, queueVars, tickVars, controlVars>>

Init ==
  /\ mFinishedCommandSerial = 0 /\ mPendingCommandSerial = 1
  /\ mPendingCommands = <<>> /\ committed = <<>>
  /\ mInflightRequests = {} /\ mInflightUploadBuffers = {} /\ appRefs = {}
  /\ finishedSerial = 0 /\ fired = {}
  /\ pc = "app" /\ cont = "app"

Recorded(uses) == <<(UNION ToSet(mPendingCommands)) \cup uses>>
GetPendingCommandBuffer == mPendingCommands' = Recorded({})

(* Whoever asks for the serial will wait for it, so there has to be a      *)
(* command buffer that a later Tick submits.                               *)
GetPendingCommandSerial_FaultNoCommands == UNCHANGED mPendingCommands
GetPendingCommandSerial == GetPendingCommandBuffer

(* commands is mPendingCommands with what the caller has added.            *)
SubmitPendingCommandBuffer(commands) ==
  IF commands = <<>> THEN UNCHANGED commandVars
  ELSE /\ committed' = Append(committed, [serial |-> mPendingCommandSerial,
                                          uses |-> commands[1], completed |-> FALSE])
       /\ mPendingCommands' = <<>>
       /\ mPendingCommandSerial' = mPendingCommandSerial + 1
-----------------------------------------------------------------------------
(* The API *)

InApp == /\ pc = "app" \/ (pc = "callback" /\ cont # "destroyed")
         /\ mPendingCommandSerial <= ApiSerials

CreateBuffer(b) ==
  /\ InApp /\ b \notin appRefs \cup Items(mInflightRequests) \cup Items(mInflightUploadBuffers)
  /\ appRefs' = appRefs \cup {b}
  /\ UNCHANGED <<mFinishedCommandSerial, commandVars, mInflightRequests, mInflightUploadBuffers,
                 tickVars, controlVars>>

ReleaseBuffer(b) ==
  /\ InApp /\ b \in appRefs /\ appRefs' = appRefs \ {b}
  /\ UNCHANGED <<mFinishedCommandSerial, commandVars, mInflightRequests, mInflightUploadBuffers,
                 tickVars, controlVars>>

(* A blit from a new upload buffer.                                        *)
SetSubData(b, upload) ==
  /\ InApp /\ b \in appRefs
  /\ upload \notin appRefs \cup Items(mInflightRequests) \cup Items(mInflightUploadBuffers)
  /\ mPendingCommands' = Recorded({b, upload})
  /\ mInflightUploadBuffers' = Enqueue(mInflightUploadBuffers, {upload}, mPendingCommandSerial)
  /\ UNCHANGED <<mFinishedCommandSerial, mPendingCommandSerial, committed, mInflightRequests,
                 appRefs, tickVars, controlVars>>

(* Not in a callback: Track would grow the vector that Tick iterates over. *)
MapAsync(b) ==
  /\ InApp /\ pc = "app" /\ b \in appRefs
  /\ GetPendingCommandSerial
  /\ mInflightRequests' = Enqueue(mInflightRequests, {b}, mPendingCommandSerial)
  /\ UNCHANGED <<mFinishedCommandSerial, mPendingCommandSerial, committed,
                 mInflightUploadBuffers, appRefs, tickVars, controlVars>>

BeginTick(returnTo) == pc' = "tick" /\ cont' = returnTo

Tick ==
  /\ pc = "app" /\ BeginTick("app")
  /\ UNCHANGED <<mFinishedCommandSerial, commandVars, queueVars, tickVars>>

QueueSubmit ==
  /\ InApp /\ pc = "app" /\ BeginTick("submit")
  /\ UNCHANGED <<mFinishedCommandSerial, commandVars, queueVars, tickVars>>

FillCommands(uses) ==
  /\ pc = "submit" /\ pc' = "app"
  /\ SubmitPendingCommandBuffer(Recorded(uses))
  /\ UNCHANGED <<mFinishedCommandSerial, queueVars, tickVars, cont>>
-----------------------------------------------------------------------------
(* TickImpl *)

(* ResourceUploader::Tick.                                                 *)
TickUploads ==
  /\ pc = "tick" /\ pc' = "uploaded"
  /\ mInflightUploadBuffers' = ClearUpTo(mInflightUploadBuffers, mFinishedCommandSerial)
  /\ UNCHANGED <<mFinishedCommandSerial, commandVars, mInflightRequests, appRefs, tickVars, cont>>

(* MapRequestTracker::Tick gets the serial that is the last one by now.    *)
TickMaps ==
  /\ pc = "uploaded" /\ pc' = "map"
  /\ finishedSerial' = mFinishedCommandSerial
  /\ UNCHANGED <<mFinishedCommandSerial, commandVars, queueVars, fired, cont>>

RequestsToFire == UpTo(mInflightRequests, finishedSerial) \ fired
FireMapCallback ==
  /\ pc = "map" /\ pc' = "callback"
  /\ \E e \in RequestsToFire : IsFront(e, RequestsToFire) /\ fired' = fired \cup {e}
  /\ UNCHANGED <<mFinishedCommandSerial, commandVars, queueVars, finishedSerial, cont>>

CallbackReturns ==
  /\ pc = "callback" /\ pc' = "map"
  /\ UNCHANGED <<mFinishedCommandSerial, commandVars, queueVars, tickVars, cont>>

FinishTick ==
  /\ pc = "map" /\ RequestsToFire = {} /\ pc' = cont
  /\ mInflightRequests' = ClearUpTo(mInflightRequests, finishedSerial) /\ fired' = {}
  /\ SubmitPendingCommandBuffer(mPendingCommands)
  /\ UNCHANGED <<mFinishedCommandSerial, mInflightUploadBuffers, appRefs, finishedSerial, cont>>
-----------------------------------------------------------------------------
(* ~Device: what is pending is submitted and waited for, then one last     *)
(* Tick.                                                                   *)
DestroyDevice ==
  /\ pc = "app" /\ pc' = "waiting"
  /\ SubmitPendingCommandBuffer(mPendingCommands)
  /\ UNCHANGED <<mFinishedCommandSerial, queueVars, tickVars, cont>>

WaitedFor == mFinishedCommandSerial = mPendingCommandSerial - 1
EndOfWait ==
  /\ pc = "waiting" /\ WaitedFor /\ BeginTick("destroyed")
  /\ UNCHANGED <<mFinishedCommandSerial, commandVars, queueVars, tickVars>>

Terminated == pc = "destroyed" /\ UNCHANGED vars
-----------------------------------------------------------------------------
(* The GPU, and the thread of the completion handlers *)

GpuCompletes ==
  /\ \E i \in DOMAIN committed :
       /\ ~committed[i].completed /\ \A j \in 1 .. i - 1 : committed[j].completed
       /\ committed' = [committed EXCEPT ![i].completed = TRUE]
  /\ UNCHANGED <<mFinishedCommandSerial, mPendingCommandSerial, mPendingCommands, queueVars,
                 tickVars, controlVars>>

(* The block has a copy of the serial its command buffer had.              *)
CapturedSerial(commands) == commands.serial
CompletedHandler ==
  /\ committed # <<>> /\ Head(committed).completed
  /\ mFinishedCommandSerial' = CapturedSerial(Head(committed))
  /\ committed' = Tail(committed)
  /\ UNCHANGED <<mPendingCommandSerial, mPendingCommands, queueVars, tickVars, controlVars>>

Api == \/ \E b \in Buffers : CreateBuffer(b) \/ ReleaseBuffer(b) \/ MapAsync(b)
       \/ \E b, upload \in Buffers : SetSubData(b, upload)
       \/ QueueSubmit
Submission == \E uses \in SUBSET appRefs : FillCommands(uses)
TickStep == TickUploads \/ TickMaps \/ FireMapCallback \/ CallbackReturns \/ FinishTick

Next == Api \/ Tick \/ Submission \/ TickStep \/ DestroyDevice \/ EndOfWait
          \/ GpuCompletes \/ CompletedHandler \/ Terminated
Spec == Init /\ [][Next]_vars

(* The application keeps calling Tick and its callbacks return; the thread *)
(* goes on with what it began, and the GPU and the handlers run.           *)
Fairness ==
  /\ WF_vars(Tick) /\ WF_vars(TickStep) /\ WF_vars(Submission) /\ WF_vars(EndOfWait)
  /\ WF_vars(GpuCompletes) /\ WF_vars(CompletedHandler)
FairSpec == Spec /\ Fairness
-----------------------------------------------------------------------------
Unfinished == {c \in ToSet(committed) : ~c.completed}

(* A map callback runs only when everything that was recorded or submitted *)
(* before the request has been completed by the GPU, and an upload buffer  *)
(* is given back only then, whenever the handlers run between the reads of *)
(* mFinishedCommandSerial.                                                 *)
CallbacksSeeFinishedWork ==
  /\ \A e \in fired : /\ e.serial < mPendingCommandSerial
                      /\ \A c \in Unfinished : c.serial > e.serial
  /\ \A c \in Unfinished : mFinishedCommandSerial < c.serial

(* Each map request is called back and each upload buffer is given back,   *)
(* and ~Device comes to its end with nothing left in the trackers, as      *)
(* their destructors assert, and no handler left that would write to the   *)
(* device when it is gone.                                                 *)
EverythingEnds ==
  /\ \A b \in Buffers :
       /\ b \in Items(mInflightRequests) ~> b \in Items(fired)
       /\ b \in Items(mInflightUploadBuffers) ~> b \notin Items(mInflightUploadBuffers)
  /\ pc = "waiting" ~> pc = "destroyed" /\ committed = <<>> /\ mPendingCommands = <<>>
                         /\ mInflightRequests = {} /\ mInflightUploadBuffers = {}
=============================================================================
