-------------------------- MODULE MCCommandBuffer --------------------------
(* A small instance of CommandBuffer: bind groups of every type of         *)
(* binding, pipelines whose layouts share a prefix, a texture that one     *)
(* pass renders to and others sample.                                      *)
EXTENDS CommandBuffer, TLC

CONSTANTS vb, sb, tex,                   \* two buffers and a texture
          uniform, storage, both,        \* bind groups; both also has the
                                         \* texture
          one, two, three,                \* pipeline layouts
          compute, computeMore, draw, drawMore, target

MCUsage == vb :> {"Uniform", "Vertex", "Index", "TransferDst"}
           @@ sb :> {"Storage", "Vertex", "TransferSrc"}
           @@ tex :> {"Sampled", "OutputAttachment", "TransferDst"}
Entry(r, u) == [resource |-> r, usage |-> u]
MCBindings == uniform :> <<Entry(vb, "Uniform")>> @@ storage :> <<Entry(sb, "Storage")>>
              @@ both :> <<Entry(sb, "Storage"), Entry(tex, "Sampled")>>
MCGroupLayout == [g \in Groups |-> g]
MCSetLayouts == one :> (0 :> uniform @@ 1 :> storage)
                @@ two :> (0 :> both) @@ three :> (0 :> both @@ 1 :> storage)
MCPipelineLayout == draw :> one @@ drawMore :> one @@ compute :> two @@ computeMore :> three
MCInputs == draw :> {} @@ drawMore :> {0}
MCAttachments == target :> {tex}
MCCompatibleWith == [p \in RenderPipelines |-> {target}]
=============================================================================
