---------------------------- MODULE MCContainers ----------------------------
(* Four containers that everything else is built on: the storage of the    *)
(* commands, the one of a SerialQueue, the Results that carry errors, and  *)
(* the descriptor heaps of Direct3D 12.  A behaviour is about one.         *)
EXTENDS DescriptorHeaps, CommandStorage, SerialQueueStorage, ErrorHandling, TLC

CONSTANTS b1, b2

VARIABLE subject

(* Sizes and alignments on a 64-bit machine. *)
MCTypes == {"EndRenderPass", "Dispatch", "SetBindGroup", "CopyBufferToBuffer",
            "SetPushConstants", "SetVertexBuffers"}
MCSizeOf ==
  "EndRenderPass" :> 1 @@ "Dispatch" :> 12 @@ "SetBindGroup" :> 16 @@ "CopyBufferToBuffer" :> 40
    @@ "SetPushConstants" :> 12 @@ "SetVertexBuffers" :> 8 @@ "uint32" :> 4 @@ "Ref" :> 8
MCAlignOf ==
  "EndRenderPass" :> 1 @@ "Dispatch" :> 4 @@ "SetBindGroup" :> 8 @@ "CopyBufferToBuffer" :> 8
    @@ "SetPushConstants" :> 4 @@ "SetVertexBuffers" :> 4 @@ "uint32" :> 4 @@ "Ref" :> 8
MCDataOf ==
  [t \in MCTypes |-> CASE t = "SetPushConstants" -> <<"uint32">>
                       [] t = "SetVertexBuffers" -> <<"Ref", "uint32">>
                       [] OTHER -> <<>>]

Plain(type, refs) == [type |-> type, refs |-> refs, data |-> <<>>]
PushConstants(values) ==
  [type |-> "SetPushConstants", refs |-> <<>>, data |-> <<[of |-> "uint32", values |-> values]>>]
VertexBuffers(buffers, offsets) ==
  [type |-> "SetVertexBuffers", refs |-> <<>>,
   data |-> <<[of |-> "Ref", values |-> buffers], [of |-> "uint32", values |-> offsets]>>]
MCCommands ==
  {Plain("EndRenderPass", <<>>), Plain("Dispatch", <<>>), Plain("SetBindGroup", <<b1>>),
   Plain("CopyBufferToBuffer", <<b1, b2>>), PushConstants(<<>>), PushConstants(<<7, 8, 9>>),
   VertexBuffers(<<>>, <<>>), VertexBuffers(<<b1>>, <<3>>), VertexBuffers(<<b2, b2>>, <<4, 5>>)}

StorageInit ==
  /\ subject \in {"commands", "queue", "errors", "descriptors"}
  /\ CommandInit /\ QueueInit /\ ErrorInit /\ Init
  /\ subject # "commands" => mCurrentPtr = 0
StorageNext ==
  /\ UNCHANGED subject
  /\ \/ subject = "commands" /\ CommandNext /\ UNCHANGED <<queueVars, errorVars, vars>>
     \/ subject = "queue" /\ QueueNext /\ UNCHANGED <<commandVars, errorVars, vars>>
     \/ subject = "errors" /\ ErrorNext /\ UNCHANGED <<commandVars, queueVars, vars>>
     \/ subject = "descriptors" /\ Next /\ UNCHANGED <<commandVars, queueVars, errorVars>>
StorageSpec ==
  StorageInit /\ [][StorageNext]_<<subject, commandVars, queueVars, errorVars, vars>>

(* CPU heaps that the two groups together fill exactly, and GPU heaps that *)
(* are full after one or two command buffers.                              *)
MCDescriptorCount ==
  b1 :> [views |-> 2, samplers |-> 0] @@ b2 :> [views |-> 1, samplers |-> 2]
MCRenderPasses ==
  {[mask |-> {0}, depth |-> TRUE], [mask |-> {0, 1}, depth |-> FALSE],
   [mask |-> {1}, depth |-> FALSE]}
MCCpuHeapSize == [views |-> 3, samplers |-> 2]
MCGpuHeapSize == [views |-> 4, samplers |-> 2]
=============================================================================
