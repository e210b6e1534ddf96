--------------------------- MODULE CommandStream ---------------------------
(***************************************************************************)
(* A list of commands that the frontend has accepted, as the backends may  *)
(* rely on it: passes are not nested, what belongs into a pass is in one   *)
(* of the right kind, and a draw or dispatch finds a pipeline, a bind      *)
(* group for each layout of the pipeline, a buffer for each vertex input   *)
(* and, when it needs one, an index buffer.                                *)
(*                                                                         *)
(* CommandBuffer implements this specification; the replays of the         *)
(* backends start from it.  The variables are what the commands so far     *)
(* have set; draws and dispatches change none of them.                     *)
(***************************************************************************)
EXTENDS Naturals, Sequences, FiniteSets

CONSTANTS
  Buffers,
  Groups, SetLayouts,          \* the bind group layouts of each pipeline layout
  ComputePipelines, RenderPipelines, PipelineLayout,
  Inputs,                      \* the vertex inputs of each render pipeline
  None, kMaxBindGroups, kMaxVertexInputs

VARIABLES pass, pipeline, groups, vertexBuffers, indexBuffer

streamVars == <<pass, pipeline, groups, vertexBuffers, indexBuffer>>

Pipelines == ComputePipelines \cup RenderPipelines
GroupIndices == 0 .. kMaxBindGroups - 1
VertexSlots == 0 .. kMaxVertexInputs - 1
InPass == pass \in {"compute", "render"}
UsedGroups(p) == DOMAIN SetLayouts[PipelineLayout[p]]

NoGroups == [i \in GroupIndices |-> None]
NoVertexBuffers == [s \in VertexSlots |-> None]

Init ==
  /\ pass = "outside" /\ pipeline = None /\ indexBuffer = None
  /\ groups = NoGroups /\ vertexBuffers = NoVertexBuffers

Begin(kind) ==
  /\ pass = "outside" /\ pass' = kind
  /\ UNCHANGED <<pipeline, groups, vertexBuffers, indexBuffer>>

(* The end of a pass, of the list, or of its validation. *)
End(to) ==
  /\ pass' = to /\ pipeline' = None /\ indexBuffer' = None
  /\ groups' = NoGroups /\ vertexBuffers' = NoVertexBuffers

SetPipeline(p) ==
  /\ \/ pass = "compute" /\ p \in ComputePipelines
     \/ pass = "render" /\ p \in RenderPipelines
  /\ pipeline' = p
  /\ UNCHANGED <<pass, groups, vertexBuffers, indexBuffer>>

SetBindGroup(i, g) ==
  /\ InPass
  /\ groups' = [groups EXCEPT ![i] = g]
  /\ UNCHANGED <<pass, pipeline, vertexBuffers, indexBuffer>>

SetIndexBuffer(b) ==
  /\ pass = "render"
  /\ indexBuffer' = b
  /\ UNCHANGED <<pass, pipeline, groups, vertexBuffers>>

SetVertexBuffers(start, bufs) ==
  /\ pass = "render" /\ \A k \in DOMAIN bufs : start + k \in VertexSlots
  /\ vertexBuffers' = [s \in VertexSlots |->
       IF s - start \in DOMAIN bufs THEN bufs[s - start] ELSE vertexBuffers[s]]
  /\ UNCHANGED <<pass, pipeline, groups, indexBuffer>>

CanDispatch ==
  /\ pass = "compute" /\ pipeline \in ComputePipelines
  /\ \A i \in UsedGroups(pipeline) : groups[i] # None
CanDrawArrays ==
  /\ pass = "render" /\ pipeline \in RenderPipelines
  /\ \A i \in UsedGroups(pipeline) : groups[i] # None
  /\ \A s \in Inputs[pipeline] : vertexBuffers[s] # None
CanDrawElements == CanDrawArrays /\ indexBuffer # None

BufferLists == UNION {[0 .. n - 1 -> Buffers] : n \in 0 .. kMaxVertexInputs}

Next ==
  \/ Begin("compute") \/ Begin("render")
  \/ End("outside") \/ End("end")
  \/ \E p \in Pipelines : SetPipeline(p)
  \/ \E i \in GroupIndices, g \in Groups : SetBindGroup(i, g)
  \/ \E b \in Buffers : SetIndexBuffer(b)
  \/ \E start \in 0 .. kMaxVertexInputs, bufs \in BufferLists : SetVertexBuffers(start, bufs)

Spec == Init /\ [][Next]_streamVars
=============================================================================
