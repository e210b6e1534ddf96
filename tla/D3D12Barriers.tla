---------------------------- MODULE D3D12Barriers ----------------------------
(***************************************************************************)
(* D3D12: the transition barriers that Buffer and Texture record when      *)
(* their usage changes (BufferD3D12.cpp, TextureD3D12.cpp,                 *)
(* CommandBufferD3D12.cpp, SwapChainD3D12.cpp in                           *)
(* src/src/dawn_native/d3d12).  native.state is the state that the         *)
(* resource is in on the GPU, {} being COMMON or PRESENT.                  *)
(***************************************************************************)
EXTENDS ResourceUsages

GenericRead == {"COPY_SOURCE", "VERTEX_AND_CONSTANT_BUFFER", "INDEX_BUFFER", "SHADER_RESOURCE"}

(* The state in which D3D12 lets a command use a resource.                 *)
NeededState(usage) ==
  CASE usage = "TransferSrc" -> {"COPY_SOURCE"}
    [] usage = "TransferDst" -> {"COPY_DEST"}
    [] usage \in {"Vertex", "Uniform"} -> {"VERTEX_AND_CONSTANT_BUFFER"}
    [] usage = "Index" -> {"INDEX_BUFFER"}
    [] usage = "Storage" -> {"UNORDERED_ACCESS"}
    [] usage = "Sampled" -> {"SHADER_RESOURCE"}
    [] usage = "OutputAttachment" -> IF kind = "depth" THEN {"DEPTH_WRITE"} ELSE {"RENDER_TARGET"}
    [] usage \in {"MapRead", "MapWrite", "Present"} -> {}

D3D12BufferState(usage) ==
  CASE usage = "TransferSrc" -> {"COPY_SOURCE"}
    [] usage = "TransferDst" -> {"COPY_DEST"}
    [] usage \in {"Vertex", "Uniform"} -> {"VERTEX_AND_CONSTANT_BUFFER"}
    [] usage = "Index" -> {"INDEX_BUFFER"}
    [] usage = "Storage" -> {"UNORDERED_ACCESS"}
    [] usage \in {"MapRead", "MapWrite"} -> {}
D3D12TextureState(usage) ==
  CASE usage = "TransferSrc" -> {"COPY_SOURCE"}
    [] usage = "TransferDst" -> {"COPY_DEST"}
    [] usage = "Sampled" -> {"SHADER_RESOURCE"}
    [] usage = "OutputAttachment" -> IF kind = "depth" THEN {"DEPTH_WRITE"} ELSE {"RENDER_TARGET"}
D3D12BufferUsage(usages) == UNION {D3D12BufferState(u) : u \in usages}
D3D12TextureUsage(usages) ==
  IF "Present" \in usages THEN {} ELSE UNION {D3D12TextureState(u) : u \in usages}
StateOf(usages) == IF kind = "buffer" THEN D3D12BufferUsage(usages) ELSE D3D12TextureUsage(usages)
-----------------------------------------------------------------------------
D3D12HeapType ==
  IF "MapRead" \in allowed THEN "READBACK"
  ELSE IF "MapWrite" \in allowed THEN "UPLOAD" ELSE "DEFAULT"
mFixedResourceState == kind = "buffer" /\ D3D12HeapType # "DEFAULT"

(* Buffers in the heaps that the host maps stay in one state.              *)
InitialUsage ==
  IF kind # "buffer" \/ D3D12HeapType = "DEFAULT" THEN {}
  ELSE IF D3D12HeapType = "READBACK" THEN {"TransferDst"} ELSE {"TransferSrc"}
InitialState ==
  IF kind # "buffer" \/ D3D12HeapType = "DEFAULT" THEN {}
  ELSE IF D3D12HeapType = "READBACK" THEN {"COPY_DEST"} ELSE GenericRead
D3Start == [state |-> InitialState, faults |-> {}]

NeedsBarrier(usage) ==
  ~ (IF kind = "buffer" THEN usage \subseteq lastUsage ELSE usage = lastUsage)

(* The state before has to be the one the resource is in.                  *)
AfterBarrierD3D12(usage) ==
  [state |-> StateOf(usage),
   faults |-> IF StateOf(lastUsage) = native.state THEN native.faults
              ELSE native.faults \cup {"state before"}]
D3TransitionUsageNow(usage) ==
  IF mFixedResourceState
  THEN /\ native' = [native EXCEPT !.faults = IF usage = lastUsage THEN @ ELSE @ \cup {"assert"}]
       /\ UNCHANGED lastUsage
  ELSE IF NeedsBarrier(usage)
       THEN lastUsage' = usage /\ native' = AfterBarrierD3D12(usage)
       ELSE UNCHANGED <<lastUsage, native>>

D3Transition(usage) ==
  Usable /\ Keeps(D3TransitionUsageNow(usage)) /\ using' = usage /\ UNCHANGED swap
D3TransitionForPass == \E usage \in PassUsages : D3Transition(usage)
D3TransitionForCopy == \E usage \in CopyUsages : D3Transition(usage)

(* A copy from a buffer to itself reads it in the state of the destination,*)
(* which D3D12 does not allow.                                             *)
D3TransitionDestination ==
  /\ kind = "buffer" /\ using = {"TransferSrc"} /\ "TransferDst" \in allowed
  /\ Keeps(D3TransitionUsageNow({"TransferDst"}))
  /\ using' = {"TransferSrc", "TransferDst"} /\ UNCHANGED swap

(* The host maps a buffer in whatever state it is.                         *)
D3MapAsync ==
  /\ Usable /\ \E usage \in MapUsages : using' = usage
  /\ Keeps(UNCHANGED <<lastUsage, swap, native>>)

D3Use ==
  /\ using \notin {{}, {"Present"}} /\ using' = {}
  /\ Keeps(UNCHANGED <<lastUsage, swap, native>>)

D3Configure ==
  swap = "created" /\ swap' = "configured" /\ Keeps(UNCHANGED <<lastUsage, using, native>>)
D3GetNextTexture ==
  /\ swap \in {"configured", "presented"} /\ swap' = "acquired"
  /\ lastUsage' = {} /\ Keeps(UNCHANGED <<using, native>>)
D3OnBeforePresent == swap = "acquired" /\ D3Transition({"Present"})
D3Present ==
  /\ using = {"Present"} /\ using' = {} /\ swap' = "presented"
  /\ Keeps(UNCHANGED <<lastUsage, native>>)

D3Next ==
  \/ D3TransitionForPass \/ D3TransitionForCopy \/ D3TransitionDestination \/ D3MapAsync
  \/ D3Use \/ D3Configure \/ D3GetNextTexture \/ D3OnBeforePresent \/ D3Present
-----------------------------------------------------------------------------
(* A barrier starts from the state the resource is in, a buffer that has   *)
(* to stay in the state of its heap is never asked to leave it, and every  *)
(* command and presentation finds the resource in a state that allows all  *)
(* it does, except for the source of a copy from a buffer to itself.       *)
D3D12StateAllows ==
  backend = "d3d12" =>
    /\ native.faults = {}
    /\ \A u \in using :
         NeededState(u) \subseteq native.state \/ (u = "TransferSrc" /\ "TransferDst" \in using)
    /\ using = {"Present"} => native.state = {}
=============================================================================
