--------------------------- MODULE CommandBuffer ---------------------------
(***************************************************************************)
(* The validation of a recorded command buffer                             *)
(* (src/src/dawn_native/CommandBuffer.cpp, ValidateGetResult) with the     *)
(* CommandBufferStateTracker and the PassResourceUsageTracker of each      *)
(* pass.                                                                   *)
(*                                                                         *)
(* The commands are read once and in order, so the list is not stored:     *)
(* each action reads one command, and the application may have recorded    *)
(* any command next.  pass says which function is reading.  Commands that  *)
(* change no state of the validation when they are allowed (the dynamic    *)
(* state, push constants, debug markers) only appear where they are        *)
(* refused.  The resources that draws and dispatches access are written    *)
(* down in accesses and passAccesses, which the code does not have.        *)
(* A definition named X_Fault is X with a plausible bug: nothing uses it.  *)
(***************************************************************************)
EXTENDS Naturals, Sequences, FiniteSets

CONSTANTS
  Buffers, Textures,
  Usage,             \* what each buffer and texture was created to be used as
  Groups,            \* bind groups, with their layout and, by binding
  GroupLayout,       \* number, their resources and the usage that the type
  Bindings,          \* of the binding makes of them
  PipelineLayouts,
  SetLayouts,        \* the bind group layouts of each pipeline layout
  ComputePipelines, RenderPipelines,
  PipelineLayout,    \* of each pipeline
  Inputs,            \* the vertex inputs of each render pipeline
  RenderPasses,      \* render pass descriptors
  Attachments,       \* of each render pass descriptor
  CompatibleWith,    \* the render pass descriptors that a pipeline fits
  None,
  kMaxBindGroups, kMaxVertexInputs,
  MaxPasses          \* bound: passes in a command buffer

Resources == Buffers \cup Textures
Pipelines == ComputePipelines \cup RenderPipelines
GroupIndices == 0 .. kMaxBindGroups - 1
VertexSlots == 0 .. kMaxVertexInputs - 1
BufferUsages == {"TransferSrc", "TransferDst", "Index", "Vertex", "Uniform", "Storage"}
TextureUsages == {"TransferSrc", "TransferDst", "Sampled", "OutputAttachment"}
Usages == BufferUsages \cup TextureUsages

kReadOnlyBufferUsages_FaultStorage == {"TransferSrc", "Index", "Vertex", "Uniform", "Storage"}
kReadOnlyBufferUsages == {"TransferSrc", "Index", "Vertex", "Uniform"}

ASSUME MaxAssumption == kMaxBindGroups \in Nat /\ kMaxVertexInputs \in Nat
ASSUME ResourceAssumption ==
  /\ Buffers \cap Textures = {}
  /\ Usage \in [Resources -> SUBSET Usages]
ASSUME GroupAssumption ==
  /\ None \notin Groups \cup Pipelines \cup RenderPasses \cup Resources
  /\ \A g \in Groups : \A n \in DOMAIN Bindings[g] : Bindings[g][n] \in
       [resource : Buffers, usage : {"Uniform", "Storage"}]
         \cup [resource : Textures, usage : {"Sampled"}]
ASSUME PipelineAssumption ==
  /\ PipelineLayout \in [Pipelines -> PipelineLayouts]
  /\ \A l \in PipelineLayouts : DOMAIN SetLayouts[l] \subseteq GroupIndices
  /\ Inputs \in [RenderPipelines -> SUBSET VertexSlots]
  /\ Attachments \in [RenderPasses -> SUBSET Textures]

VARIABLES
  pass,              \* the function that reads the next command, or the result
  renderPass,        \* descriptor of the render pass
  mAspects, mBindgroups, mInputsSet, mLastPipeline,  \* the state tracker
  mUsages, mStorageUsedMultipleTimes,                \* the usage tracker
  mPassResourceUsages,
  vertexBuffers, indexBuffer,  \* what the commands of the pass have set
  accesses,          \* what the draws and dispatches of the pass access
  passAccesses,      \* accesses of the passes that have ended
  mismatched         \* has a draw used a bind group of another layout?

stateTracker == <<mAspects, mBindgroups, mInputsSet, mLastPipeline>>
usageTracker == <<mUsages, mStorageUsedMultipleTimes>>
bindings == <<vertexBuffers, indexBuffer>>
ended == <<mPassResourceUsages, passAccesses>>
vars == <<pass, renderPass, stateTracker, usageTracker, bindings, accesses, ended, mismatched>>

kLazyAspects == {"BIND_GROUPS", "VERTEX_BUFFERS"}
Aspects == {"PIPELINE", "BIND_GROUPS", "VERTEX_BUFFERS", "INDEX_BUFFER"}

NoUsages == [r \in Resources |-> {}]
NoGroups == [i \in GroupIndices |-> None]
NoVertexBuffers == [s \in VertexSlots |-> None]

Init ==
  /\ pass = "outside" /\ renderPass = None
  /\ mAspects = {} /\ mBindgroups = NoGroups /\ mInputsSet = {} /\ mLastPipeline = None
  /\ mUsages = NoUsages /\ mStorageUsedMultipleTimes = FALSE
  /\ vertexBuffers = NoVertexBuffers /\ indexBuffer = None
  /\ mPassResourceUsages = <<>> /\ passAccesses = <<>>
  /\ accesses = {} /\ mismatched = FALSE

InPass_FaultAnywhere == pass \in {"outside", "compute", "render"}
InPass == pass \in {"compute", "render"}

(* The locals of ValidateComputePass and ValidateRenderPass go away. *)
Return(to) ==
  /\ pass' = to /\ renderPass' = None
  /\ mAspects' = {} /\ mBindgroups' = NoGroups /\ mInputsSet' = {} /\ mLastPipeline' = None
  /\ mUsages' = NoUsages /\ mStorageUsedMultipleTimes' = FALSE
  /\ vertexBuffers' = NoVertexBuffers /\ indexBuffer' = None
  /\ accesses' = {}

(* DAWN_TRY: the command buffer is refused.  "crashed" is what the code    *)
(* does when it follows a null pointer or gets an exception from a bitset. *)
Fail(how) == Return(how) /\ UNCHANGED <<ended, mismatched>>
-----------------------------------------------------------------------------
(* The usage tracker *)

BufferUsedAs_FaultOverwrites(usages, r, u) == [usages EXCEPT ![r] = {u}]
BufferUsedAs(usages, r, u) == [usages EXCEPT ![r] = @ \cup {u}]

GroupUses(g) == {Bindings[g][n] : n \in DOMAIN Bindings[g]}

StorageUsedAgain(g) ==
  \E n \in DOMAIN Bindings[g] :
    /\ Bindings[g][n].usage = "Storage"
    /\ \/ "Storage" \in mUsages[Bindings[g][n].resource]
       \/ \E m \in DOMAIN Bindings[g] \ {n} : Bindings[g][m] = Bindings[g][n]

TrackBindGroupResourceUsage(g) ==
  /\ mUsages' = [r \in Resources |->
       mUsages[r] \cup {use.usage : use \in {v \in GroupUses(g) : v.resource = r}}]
  /\ mStorageUsedMultipleTimes' = (mStorageUsedMultipleTimes \/ StorageUsedAgain(g))

HasZeroOrOneBits(usages) == \A u, v \in usages : u = v

ValidateUsages ==
  /\ pass = "compute" => ~mStorageUsedMultipleTimes
  /\ \A r \in Resources : mUsages[r] \subseteq Usage[r]
  /\ \A b \in Buffers : mUsages[b] \subseteq kReadOnlyBufferUsages \/ HasZeroOrOneBits(mUsages[b])
  /\ \A t \in Textures : HasZeroOrOneBits(mUsages[t])
-----------------------------------------------------------------------------
(* The state tracker *)

LastSetLayouts == SetLayouts[PipelineLayout[mLastPipeline]]

Matches(i) == mBindgroups[i] # None /\ GroupLayout[mBindgroups[i]] = LastSetLayouts[i]

(* The loop over the layouts stops at the first group that does not match, *)
(* and asks a group that was never set for its layout.                     *)
ReadsNullGroup ==
  \E i \in DOMAIN LastSetLayouts :
    mBindgroups[i] = None /\ \A j \in DOMAIN LastSetLayouts : j < i => Matches(j)

HasLazyAspect(aspect) ==
  CASE aspect = "BIND_GROUPS" -> \A i \in DOMAIN LastSetLayouts : Matches(i)
    [] aspect = "VERTEX_BUFFERS" -> Inputs[mLastPipeline] \subseteq mInputsSet

ValidateOperation(required) ==
  LET missing == required \ mAspects
      found == mAspects \cup {a \in missing : HasLazyAspect(a)}
  IN IF missing = {} THEN [result |-> "valid", aspects |-> mAspects]
     ELSE IF ~(missing \subseteq kLazyAspects) THEN [result |-> "error", aspects |-> mAspects]
     ELSE IF "BIND_GROUPS" \in missing /\ ReadsNullGroup
       THEN [result |-> "crashed", aspects |-> mAspects]
     ELSE [result |-> IF required \subseteq found THEN "valid" ELSE "error", aspects |-> found]

ResetAspects_FaultInputsKept == {"BIND_GROUPS"}
ResetAspects == kLazyAspects
SetPipelineCommon(p) ==
  /\ mLastPipeline' = p
  /\ mAspects' = (mAspects \cup {"PIPELINE"}) \ ResetAspects
  /\ UNCHANGED <<mBindgroups, mInputsSet>>
-----------------------------------------------------------------------------
(* Commands outside of passes *)

BeginComputePass ==
  /\ pass = "outside" /\ Len(mPassResourceUsages) < MaxPasses
  /\ pass' = "compute"
  /\ UNCHANGED <<renderPass, stateTracker, usageTracker, bindings, accesses, ended, mismatched>>

AttachmentUses(rp) ==
  {[resource |-> t, usage |-> "OutputAttachment", at |-> <<>>] : t \in Attachments[rp]}

BeginRenderPass(rp) ==
  /\ pass = "outside" /\ Len(mPassResourceUsages) < MaxPasses
  /\ pass' = "render" /\ renderPass' = rp
  /\ mUsages' = [r \in Resources |-> IF r \in Attachments[rp] THEN {"OutputAttachment"} ELSE {}]
  /\ accesses' = AttachmentUses(rp)
  /\ UNCHANGED <<stateTracker, mStorageUsedMultipleTimes, bindings, ended, mismatched>>

(* Copies are refused when they do not fit in their resources or use one   *)
(* that was not created for it, and change nothing otherwise.              *)
CopyIsValid(src, dst, fits) == fits /\ "TransferSrc" \in Usage[src] /\ "TransferDst" \in Usage[dst]
Copy(src, dst, fits) ==
  /\ pass = "outside"
  /\ src \in Buffers \/ dst \in Buffers
  /\ IF CopyIsValid(src, dst, fits) THEN UNCHANGED vars ELSE Fail("error")

(* A command that is not allowed where it is, push constants for stages    *)
(* that the pass does not have, or the end of the list inside of a pass.   *)
Disallowed == (pass = "outside" \/ InPass) /\ Fail("error")

EndOfList == pass = "outside" /\ Return("valid") /\ UNCHANGED <<ended, mismatched>>
-----------------------------------------------------------------------------
(* Commands inside of passes *)

EndPass ==
  /\ InPass
  /\ IF ValidateUsages
     THEN /\ mPassResourceUsages' = Append(mPassResourceUsages, mUsages)
          /\ passAccesses' = Append(passAccesses, [pass |-> pass, accesses |-> accesses])
          /\ Return("outside") /\ UNCHANGED mismatched
     ELSE Fail("error")

SetPipeline(p) ==
  /\ \/ pass = "compute" /\ p \in ComputePipelines
     \/ pass = "render" /\ p \in RenderPipelines
  /\ IF pass = "render" => renderPass \in CompatibleWith[p]
     THEN /\ SetPipelineCommon(p)
          /\ UNCHANGED <<pass, renderPass, usageTracker, bindings, accesses, ended, mismatched>>
     ELSE Fail("error")

(* An index of kMaxBindGroups or more is an error of the builder and is    *)
(* never recorded.                                                         *)
SetBindGroup(i, g) ==
  /\ InPass
  /\ TrackBindGroupResourceUsage(g)
  /\ mBindgroups' = [mBindgroups EXCEPT ![i] = g]
  /\ UNCHANGED <<pass, renderPass, mAspects, mInputsSet, mLastPipeline, bindings, accesses,
                 ended, mismatched>>

SetIndexBuffer(b) ==
  /\ pass = "render"
  /\ mUsages' = BufferUsedAs(mUsages, b, "Index")
  /\ mAspects' = mAspects \cup {"INDEX_BUFFER"}
  /\ indexBuffer' = b
  /\ UNCHANGED <<pass, renderPass, mBindgroups, mInputsSet, mLastPipeline,
                 mStorageUsedMultipleTimes, vertexBuffers, accesses, ended, mismatched>>

SlotExists(s) == s \in VertexSlots

(* Binds bufs to the vertex inputs from start on: mInputsSet throws for a  *)
(* slot that does not exist.                                               *)
SetVertexBuffers(start, bufs) ==
  LET slots == {start + k : k \in DOMAIN bufs} IN
  /\ pass = "render"
  /\ IF \A s \in slots : SlotExists(s)
     THEN /\ mUsages' = [r \in Resources |->
               IF \E k \in DOMAIN bufs : bufs[k] = r
               THEN BufferUsedAs(mUsages, r, "Vertex")[r] ELSE mUsages[r]]
          /\ mInputsSet' = mInputsSet \cup slots
          /\ vertexBuffers' = [s \in VertexSlots |->
               IF s \in slots THEN bufs[s - start] ELSE vertexBuffers[s]]
          /\ UNCHANGED <<pass, renderPass, mAspects, mBindgroups, mLastPipeline,
                         mStorageUsedMultipleTimes, indexBuffer, accesses, ended, mismatched>>
     ELSE Fail("crashed")

BoundAt(i) ==
  {[resource |-> Bindings[mBindgroups[i]][n].resource,
    usage |-> Bindings[mBindgroups[i]][n].usage, at |-> <<i, n>>]
    : n \in DOMAIN Bindings[mBindgroups[i]]}
GroupAccesses ==
  UNION {BoundAt(i) : i \in {j \in DOMAIN LastSetLayouts : mBindgroups[j] # None}}
VertexAccesses ==
  {[resource |-> vertexBuffers[s], usage |-> "Vertex", at |-> <<>>] : s \in Inputs[mLastPipeline]}
IndexAccesses == {[resource |-> indexBuffer, usage |-> "Index", at |-> <<>>]}

Operate(required, extra) ==
  LET outcome == ValidateOperation(required)
  IN IF outcome.result = "valid"
     THEN /\ mAspects' = outcome.aspects
          /\ accesses' = accesses \cup GroupAccesses \cup extra
          /\ mismatched' = (mismatched \/ ~HasLazyAspect("BIND_GROUPS"))
          /\ UNCHANGED <<pass, renderPass, mBindgroups, mInputsSet, mLastPipeline,
                         usageTracker, bindings, ended>>
     ELSE Fail(outcome.result)

Dispatch == pass = "compute" /\ Operate({"PIPELINE", "BIND_GROUPS"}, {})
DrawArrays ==
  pass = "render" /\ Operate({"PIPELINE", "BIND_GROUPS", "VERTEX_BUFFERS"}, VertexAccesses)
DrawElements ==
  pass = "render" /\ Operate(Aspects, VertexAccesses \cup IndexAccesses)

Next ==
  \/ BeginComputePass \/ EndPass \/ Dispatch \/ DrawArrays \/ DrawElements
  \/ EndOfList \/ Disallowed
  \/ \E rp \in RenderPasses : BeginRenderPass(rp)
  \/ \E src, dst \in Resources, fits \in BOOLEAN : Copy(src, dst, fits)
  \/ \E p \in Pipelines : SetPipeline(p)
  \/ \E i \in GroupIndices, g \in Groups : SetBindGroup(i, g)
  \/ \E b \in Buffers : SetIndexBuffer(b)
  \/ \E start \in 0 .. kMaxVertexInputs, count \in 0 .. kMaxVertexInputs :
       \E bufs \in [0 .. count - 1 -> Buffers] : SetVertexBuffers(start, bufs)

Spec == Init /\ [][Next]_vars
-----------------------------------------------------------------------------
(* Properties *)

Places == {<<>>} \cup (GroupIndices \X UNION {DOMAIN Bindings[g] : g \in Groups})
Access == [resource : Resources \cup {None}, usage : Usages, at : Places]

TypeOK ==
  /\ pass \in {"outside", "compute", "render", "valid", "error", "crashed"}
  /\ renderPass \in RenderPasses \cup {None}
  /\ mAspects \subseteq Aspects
  /\ mBindgroups \in [GroupIndices -> Groups \cup {None}]
  /\ mInputsSet \subseteq VertexSlots
  /\ mLastPipeline \in Pipelines \cup {None}
  /\ mUsages \in [Resources -> SUBSET Usages]
  /\ mStorageUsedMultipleTimes \in BOOLEAN
  /\ mPassResourceUsages \in Seq([Resources -> SUBSET Usages])
  /\ vertexBuffers \in [VertexSlots -> Buffers \cup {None}]
  /\ indexBuffer \in Buffers \cup {None}
  /\ accesses \subseteq Access
  /\ passAccesses \in Seq([pass : {"compute", "render"}, accesses : SUBSET Access])
  /\ mismatched \in BOOLEAN

(* Whatever is recorded, the backends get a list of commands as            *)
(* CommandStream describes it.                                             *)
StreamPass == IF pass \in {"valid", "error", "crashed"} THEN "end" ELSE pass
Stream == INSTANCE CommandStream
  WITH pass <- StreamPass, pipeline <- mLastPipeline, groups <- mBindgroups
ImplementsCommandStream == Stream!Spec

(* Draws and dispatches are only accepted where CommandStream has them:    *)
(* the pipeline, a group for each of its layouts, a buffer for each of its *)
(* vertex inputs, whichever pipeline was set when they were set, and the   *)
(* index buffer are there.                                                 *)
DrawsAreComplete ==
  [][/\ Dispatch /\ pass' = "compute" => Stream!CanDispatch
     /\ DrawArrays /\ pass' = "render" => Stream!CanDrawArrays
     /\ DrawElements /\ pass' = "render" => Stream!CanDrawElements]_vars

(* The usages that backends turn into barriers before a pass cover every   *)
(* access that its draws and dispatches make, pass by pass.                *)
PassUsagesCoverAccesses ==
  /\ Len(passAccesses) = Len(mPassResourceUsages)
  /\ \A k \in 1 .. Len(passAccesses) : \A a \in passAccesses[k].accesses :
       a.usage \in mPassResourceUsages[k][a.resource]

(* In a pass that was accepted, a resource that something writes to is     *)
(* used for nothing else, in a compute pass not even by another binding    *)
(* ("Buffers can only be used as single-write or multiple read").          *)
Writes(a) == a.usage \in {"Storage", "OutputAttachment", "TransferDst"}
PassesAreRaceFree ==
  \A k \in 1 .. Len(passAccesses) : \A a, b \in passAccesses[k].accesses :
    a.resource = b.resource /\ Writes(a) =>
      IF passAccesses[k].pass = "compute" THEN a = b ELSE a.usage = b.usage

(* A bind group that a draw or dispatch of an accepted command buffer uses *)
(* has the layout that the pipeline was made for.                          *)
GroupsMatchPipelines == pass = "valid" => ~mismatched
=============================================================================
