-------------------------- MODULE VulkanRenderPasses --------------------------
(***************************************************************************)
(* Vulkan's render passes: the RenderPassCache, which creates one          *)
(* VkRenderPass for all descriptors that ask for the same, and what        *)
(* RenderPassDescriptor::RecordBeginRenderPass makes of it                 *)
(* (RenderPassCache.cpp and RenderPassDescriptorVk.cpp in                  *)
(* src/src/dawn_native/vulkan).                                            *)
(*                                                                         *)
(* A descriptor has color attachments [format, loadOp] by slot, and at     *)
(* most one depth stencil attachment [format, depthLoadOp, stencilLoadOp]. *)
(***************************************************************************)
EXTENDS FiniteSets, Sequences, SequencesExt, Integers

CONSTANT Descriptors     \* [colors, depthStencil]: a function and a sequence

kMaxColorAttachments == 4
ASSUME DescriptorsAssumption ==
  \A d \in Descriptors :
    /\ DOMAIN d.colors \subseteq 0 .. kMaxColorAttachments - 1
    /\ d.depthStencil \in Seq([format : STRING, depthLoadOp : STRING, stencilLoadOp : STRING])
    /\ Len(d.depthStencil) <= 1

VARIABLES
  mCache,    \* the queries for which there is a render pass, with it
  begun      \* descriptor, render pass and views of the last pass

passVars == <<mCache, begun>>

ColorMask(d) == DOMAIN d.colors
InOrder(slots) ==
  [k \in 1 .. Cardinality(slots) |->
     CHOOSE i \in slots : Cardinality({j \in slots : j < i}) = k - 1]

(* SetColor and SetDepthStencil.                                           *)
Query(d) ==
  [colorMask |-> ColorMask(d),
   colorFormats |-> [i \in ColorMask(d) |-> d.colors[i].format],
   colorLoadOp |-> [i \in ColorMask(d) |-> d.colors[i].loadOp],
   depthStencil |-> d.depthStencil]

(* The attachments are numbered without the slots that are not used.       *)
ColorDescs(query) ==
  [k \in 1 .. Cardinality(query.colorMask) |->
     LET i == InOrder(query.colorMask)[k]
     IN [format |-> query.colorFormats[i], loadOps |-> <<query.colorLoadOp[i]>>,
         layout |-> "COLOR_ATTACHMENT"]]
DepthStencilDesc(query) ==
  [k \in DOMAIN query.depthStencil |->
     [format |-> query.depthStencil[k].format, layout |-> "DEPTH_ATTACHMENT",
      loadOps |-> <<query.depthStencil[k].depthLoadOp, query.depthStencil[k].stencilLoadOp>>]]
CreateRenderPassForQuery(query) ==
  [attachments |-> ColorDescs(query) \o DepthStencilDesc(query),
   colorAttachmentCount |-> Cardinality(query.colorMask)]

SameQuery(a, b) ==
  /\ a.colorMask = b.colorMask
  /\ \A i \in a.colorMask : /\ a.colorFormats[i] = b.colorFormats[i]
                            /\ a.colorLoadOp[i] = b.colorLoadOp[i]
  /\ Len(a.depthStencil) = Len(b.depthStencil)
  /\ \A k \in DOMAIN a.depthStencil :
       \A op \in {"format", "depthLoadOp", "stencilLoadOp"} :
         a.depthStencil[k][op] = b.depthStencil[k][op]

Cached(query) == {entry \in mCache : SameQuery(entry.query, query)}
GetRenderPass(query) ==
  IF Cached(query) # {} THEN (CHOOSE entry \in Cached(query) : TRUE).renderPass
  ELSE CreateRenderPassForQuery(query)

(* The views of the framebuffer, by slot, the depth stencil view last.     *)
DepthView == -1
Views(d) == InOrder(ColorMask(d)) \o [k \in DOMAIN d.depthStencil |-> DepthView]

RecordBeginRenderPass(d) ==
  /\ mCache' = mCache \cup {[query |-> Query(d), renderPass |-> GetRenderPass(Query(d))]}
  /\ begun' = <<[descriptor |-> d, renderPass |-> GetRenderPass(Query(d)), views |-> Views(d)]>>

PassesInit == mCache = {} /\ begun = <<>>
-----------------------------------------------------------------------------
(* Nothing keeps an application from leaving out a slot, but then output i *)
(* does not reach attachment i.                                            *)
NoHoles == \A d \in Descriptors : \E n \in 0 .. kMaxColorAttachments : ColorMask(d) = 0 .. n - 1

(* What a descriptor wants of the attachment for a view.                   *)
Wanted(d, view) ==
  IF view = DepthView
  THEN [format |-> d.depthStencil[1].format, layout |-> "DEPTH_ATTACHMENT",
        loadOps |-> <<d.depthStencil[1].depthLoadOp, d.depthStencil[1].stencilLoadOp>>]
  ELSE [format |-> d.colors[view].format, layout |-> "COLOR_ATTACHMENT",
        loadOps |-> <<d.colors[view].loadOp>>]

(* A render pass that was created for another descriptor, and found in the *)
(* cache, still has for each view the format, the layout and the load      *)
(* operations of this descriptor, and the fragment shader's output i goes  *)
(* to the color attachment in slot i.                                      *)
CachedPassFits ==
  \A b \in ToSet(begun) :
    /\ [k \in DOMAIN b.views |-> Wanted(b.descriptor, b.views[k])] = b.renderPass.attachments
    /\ \A i \in ColorMask(b.descriptor) :
         i < b.renderPass.colorAttachmentCount /\ b.views[i + 1] = i
=============================================================================
