--------------------------- MODULE BufferMapping ---------------------------
(***************************************************************************)
(* The mapping interface of one buffer (src/src/dawn_native/Buffer.cpp),   *)
(* for any backend.                                                        *)
(*                                                                         *)
(* A backend takes a request together with the buffer's mMapSerial, keeps  *)
(* a Ref<Buffer> with it, and completes it at any later time: the Null     *)
(* backend in Queue::Submit, Vulkan, Metal and D3D12 in Device::Tick,      *)
(* OpenGL at once.  It never forgets a request that Unmap has cancelled.   *)
(*                                                                         *)
(* Callbacks are code of the application and call back into the buffer.    *)
(* The stack holds the calls that are waiting for a callback to return     *)
(* ("unmap" for Unmap, a request for the backend that answers it SUCCESS); *)
(* the application runs in the innermost callback, or outside of all when  *)
(* the stack is empty.  An ERROR callback is the last thing MapReadAsync   *)
(* does and ~Buffer's leaves no buffer to call, so they need no frame.     *)
(*                                                                         *)
(* ValidateBufferDescriptor lets a buffer be mapped for reading or for     *)
(* writing, never both: mMapCallback is the one of mMapReadCallback and    *)
(* mMapWriteCallback that the buffer can use, and MapAsync its request.    *)
(***************************************************************************)
EXTENDS Naturals, Sequences

CONSTANTS Requests,       \* calls of MapReadAsync or MapWriteAsync
          NoRequest,      \* nullptr in mMapCallback
          SerialModulus,  \* 2^32: mMapSerial is a uint32_t
          MaxDepth,       \* bound on the depth of nested callbacks
          RemapInUnmap    \* does the application map in Unmap's callback?

ASSUME NoRequestAssumption == NoRequest \notin Requests /\ "unmap" \notin Requests
ASSUME SerialAssumption == SerialModulus \in Nat \ {0}
ASSUME DepthAssumption == MaxDepth \in Nat

VARIABLES
  mIsMapped,
  mMapSerial,
  mMapCallback,  \* the request whose callback the buffer has still to call
  lastRequest,   \* the request of the last accepted MapAsync
  inFlight,      \* the backend's [request, serial], with a Ref<Buffer> each
  stack,         \* calls waiting for a callback to return, innermost last
  appRef,        \* whether the application refers to the buffer
  alive,         \* whether the buffer exists
  answer,        \* the status each request's callback was last called with
  calls,         \* how many times it was called
  data           \* the backend's request whose data it was called with

bufferVars == <<mIsMapped, mMapSerial, mMapCallback, lastRequest>>
answerVars == <<answer, calls, data>>
refVars == <<appRef, alive>>
vars == <<bufferVars, answerVars, refVars, inFlight, stack>>

-----------------------------------------------------------------------------
Init ==
  /\ mIsMapped = FALSE
  /\ mMapSerial = 0
  /\ mMapCallback = NoRequest /\ lastRequest = NoRequest
  /\ inFlight = {}
  /\ stack = <<>>
  /\ appRef = TRUE /\ alive = TRUE
  /\ answer = [r \in Requests |-> "unused"]
  /\ calls = [r \in Requests |-> 0]
  /\ data = [r \in Requests |-> NoRequest]

(* The callback of request r is called. A definition named X_Fault is X    *)
(* with a plausible bug: nothing uses it, it serves to see that a property *)
(* notices the bug.                                                        *)
Call(r, status, from) ==
  /\ answer' = [answer EXCEPT ![r] = status]
  /\ calls' = [calls EXCEPT ![r] = @ + 1]
  /\ data' = [data EXCEPT ![r] = from]

InUnmap == \E i \in 1..Len(stack) : stack[i] = "unmap"
MayNest == Len(stack) < MaxDepth

Push(frame) == stack' = Append(stack, frame)
Top == stack[Len(stack)]
Pop == stack' = SubSeq(stack, 1, Len(stack) - 1)

-----------------------------------------------------------------------------
(* The application's calls. *)

ValidateMap_FaultAlways == TRUE
ValidateMap_FaultAnswered == mMapCallback = NoRequest
ValidateMap == ~mIsMapped

(* A call that is out of range, has the wrong usage or finds the buffer    *)
(* mapped is answered with ERROR.                                          *)
RejectMapAsync(r) ==
  /\ appRef
  /\ answer[r] = "unused"
  /\ Call(r, "ERROR", NoRequest)
  /\ UNCHANGED <<bufferVars, refVars, inFlight, stack>>

NextSerial == (mMapSerial + 1) % SerialModulus

(* Bound: SerialModulus requests are never in flight at once, so the       *)
(* backend has none left with the new serial.                              *)
AcceptMapAsync(r) ==
  /\ appRef
  /\ answer[r] = "unused"
  /\ ValidateMap
  /\ InUnmap => RemapInUnmap
  /\ \A q \in inFlight : q.serial # (mMapSerial + 1) % SerialModulus
  /\ mMapSerial' = NextSerial
  /\ mMapCallback' = r
  /\ lastRequest' = r
  /\ mIsMapped' = TRUE
  /\ inFlight' = inFlight \cup {[request |-> r, serial |-> NextSerial]}
  /\ answer' = [answer EXCEPT ![r] = "waiting"]
  /\ UNCHANGED <<refVars, stack, calls, data>>

(* mMapCallback while the callback runs: tagged as fired before the call.  *)
Fired == NoRequest

(* Unmap of a buffer whose request was not completed calls its callback    *)
(* with UNKNOWN, and goes on when the callback returns.                    *)
UnmapPending ==
  /\ appRef /\ mIsMapped /\ MayNest
  /\ mMapCallback # NoRequest
  /\ Call(mMapCallback, "UNKNOWN", NoRequest)
  /\ mMapCallback' = Fired
  /\ Push("unmap")
  /\ UNCHANGED <<refVars, inFlight, mIsMapped, mMapSerial, lastRequest>>

(* The rest of Unmap: UnmapImpl, then the buffer is not mapped any more. *)
FinishUnmap ==
  /\ mIsMapped' = FALSE
  /\ mMapCallback' = NoRequest
  /\ UNCHANGED <<mMapSerial, lastRequest>>

UnmapCompleted ==
  /\ appRef /\ mIsMapped
  /\ mMapCallback = NoRequest
  /\ FinishUnmap
  /\ UNCHANGED <<answerVars, refVars, inFlight, stack>>

ReturnToUnmap ==
  /\ stack # <<>> /\ Top = "unmap"
  /\ Pop
  /\ FinishUnmap
  /\ UNCHANGED <<answerVars, refVars, inFlight>>

-----------------------------------------------------------------------------
(* References.  The buffer is deleted with its last one, and ~BufferBase   *)
(* calls the callback of a request that was never completed.               *)

IsReferenced(byApp, requests) == byApp \/ requests # {}

DestroyBuffer ==
  /\ alive' = FALSE
  /\ mMapCallback' = NoRequest
  /\ IF mIsMapped /\ mMapCallback # NoRequest
       THEN Call(mMapCallback, "UNKNOWN", NoRequest)
       ELSE UNCHANGED answerVars
  /\ UNCHANGED <<mIsMapped, mMapSerial, lastRequest>>

(* The references become byApp and requests. *)
SetReferences(byApp, requests) ==
  /\ appRef' = byApp
  /\ inFlight' = requests
  /\ IF alive /\ ~IsReferenced(byApp, requests) THEN DestroyBuffer
     ELSE UNCHANGED <<alive, answerVars, bufferVars>>

(* The application's last reference.  A caller of Unmap keeps one until    *)
(* Unmap returns.                                                          *)
Release ==
  /\ appRef /\ ~InUnmap
  /\ SetReferences(FALSE, inFlight)
  /\ UNCHANGED stack

-----------------------------------------------------------------------------
(* The backend. *)

IsCurrent(q) == mMapCallback # NoRequest /\ q.serial = mMapSerial

Executing(q) == \E i \in 1..Len(stack) : stack[i] = q.request

(* CallMapReadCallback or CallMapWriteCallback with SUCCESS. *)
CompleteCurrent(q) ==
  /\ ~Executing(q) /\ MayNest
  /\ IsCurrent(q)
  /\ Call(mMapCallback, "SUCCESS", q.request)
  /\ mMapCallback' = Fired
  /\ Push(q.request)
  /\ UNCHANGED <<refVars, inFlight, mIsMapped, mMapSerial, lastRequest>>

(* A cancelled request: nothing is called, its Ref<Buffer> goes away. *)
CompleteCancelled(q) ==
  /\ ~Executing(q)
  /\ ~IsCurrent(q)
  /\ SetReferences(appRef, inFlight \ {q})
  /\ UNCHANGED stack

(* The SUCCESS callback returns and the request's Ref<Buffer> goes away.   *)
ReturnToBackend ==
  /\ stack # <<>> /\ Top # "unmap"
  /\ SetReferences(appRef, {q \in inFlight : q.request # Top})
  /\ Pop

(* The Null device is destroyed, after the application's objects, with its *)
(* pending operations.  The other backends complete theirs first.          *)
DropPendingOperations ==
  /\ ~appRef /\ alive /\ stack = <<>>
  /\ SetReferences(FALSE, {})
  /\ UNCHANGED stack

-----------------------------------------------------------------------------
BackendCompletes == \E q \in inFlight : CompleteCurrent(q) \/ CompleteCancelled(q)

CallbackReturns == ReturnToUnmap \/ ReturnToBackend

Next ==
  \/ \E r \in Requests : RejectMapAsync(r) \/ AcceptMapAsync(r)
  \/ UnmapPending \/ UnmapCompleted \/ Release
  \/ BackendCompletes \/ DropPendingOperations
  \/ CallbackReturns

Spec == Init /\ [][Next]_vars

(* The application keeps submitting and ticking, so that the backend       *)
(* completes its requests, and its callbacks return.                       *)
FairSpec == Spec /\ WF_vars(BackendCompletes) /\ WF_vars(CallbackReturns)

-----------------------------------------------------------------------------
(* Properties *)

InFlightType == [request : Requests, serial : 0..(SerialModulus - 1)]

(* Every variable has its type; the serial stays within its 32 bits. *)
TypeOK ==
  /\ mIsMapped \in BOOLEAN
  /\ mMapSerial \in 0..(SerialModulus - 1)
  /\ mMapCallback \in Requests \cup {NoRequest}
  /\ lastRequest \in Requests \cup {NoRequest}
  /\ inFlight \subseteq InFlightType
  /\ stack \in Seq(Requests \cup {"unmap"})
  /\ appRef \in BOOLEAN /\ alive \in BOOLEAN
  /\ answer \in [Requests -> {"unused", "waiting", "SUCCESS", "UNKNOWN", "ERROR"}]
  /\ calls \in [Requests -> Nat]
  /\ data \in [Requests -> Requests \cup {NoRequest}]

(* The callback of a request is called at most once, whatever the          *)
(* callbacks do (Buffer.cpp:84-90), and not before the request has left    *)
(* the waiting state.                                                      *)
AnsweredOnce ==
  \A r \in Requests : calls[r] = IF answer[r] \in {"unused", "waiting"} THEN 0 ELSE 1

(* A request that follows a cancelled one never gets the cancelled one's   *)
(* data, although the backend still completes the latter (the serial check *)
(* of CallMapReadCallback and CallMapWriteCallback).                       *)
NoCancelledData == \A r \in Requests : answer[r] = "SUCCESS" => data[r] = r

(* An accepted request that was not answered is the one whose callback the *)
(* buffer holds, and the backend has it with the buffer's serial: its      *)
(* answer cannot be lost.                                                  *)
NothingLost ==
  \A r \in Requests : answer[r] = "waiting" =>
     /\ alive /\ mIsMapped /\ mMapCallback = r
     /\ [request |-> r, serial |-> mMapSerial] \in inFlight

(* No call of the buffer is active, and the backend holds no request of    *)
(* it, once the buffer is deleted (the Ref<Buffer> of map requests).       *)
UsedWhileAlive == ~alive => stack = <<>> /\ inFlight = {} /\ ~appRef

(* A request gets its own answer, with its own data, from a buffer that is *)
(* there, however requests, callbacks, Unmap and Release interleave.       *)
RequestsAreServed == NothingLost /\ NoCancelledData /\ UsedWhileAlive

(* The buffer keeps the promise of MapPromise: one answer for each         *)
(* request, eventually, and before the buffer can be mapped again.         *)
Promise == INSTANCE MapPromise
             WITH mapper <- IF mIsMapped THEN lastRequest ELSE NoRequest
ImplementsMapPromise == Promise!PromiseSpec

(* Every accepted request is eventually answered, also when the request    *)
(* was made from the callback of Unmap: a cancelled request may still be in*)
(* flight when a new one is made (BufferValidationTests.cpp:325-326).      *)
EveryRequestAnswered ==
  \A r \in Requests : answer[r] = "waiting" ~> answer[r] # "waiting"

-----------------------------------------------------------------------------
(* The inductive invariant of BufferMapping_proofs.                        *)

(* The callback that the buffer holds is the one of the request that       *)
(* mapped it, and waits for its answer.  Unmap gave up the callback before *)
(* it called it, and keeps the caller's reference.                         *)
HolderInv ==
  /\ mMapCallback # NoRequest =>
       alive /\ mIsMapped /\ lastRequest = mMapCallback /\ answer[mMapCallback] = "waiting"
  /\ mIsMapped => lastRequest # NoRequest
  /\ InUnmap => mMapCallback = NoRequest /\ appRef

(* Requests in flight were made, and have serials of their own.            *)
FlightInv ==
  /\ \A q \in inFlight : answer[q.request] # "unused"
  /\ \A p, q \in inFlight : p.request = q.request \/ p.serial = q.serial => p = q

(* A request whose callback runs is in flight and answered, and runs once. *)
StackInv ==
  \A i \in 1..Len(stack) : stack[i] # "unmap" =>
    /\ \E q \in inFlight : q.request = stack[i]
    /\ answer[stack[i]] # "waiting"
    /\ \A j \in 1..Len(stack) : stack[j] = stack[i] => j = i

IInv ==
  TypeOK /\ RequestsAreServed /\ AnsweredOnce /\ HolderInv /\ FlightInv /\ StackInv
=============================================================================
