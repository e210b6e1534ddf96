--------------------------- MODULE ResourceUsages ---------------------------
(***************************************************************************)
(* The usages in which the commands of the application need one resource,  *)
(* a buffer, a texture or an image of a swap chain, one after another      *)
(* (src/src/dawn_native/Buffer.cpp, Texture.h, SwapChain.cpp).  Resources  *)
(* do not influence one another's transitions, so one is enough.           *)
(*                                                                         *)
(* A usage is a set of dawn usage bits.  A request first makes the backend *)
(* change the usage of the resource (Transition), then records the command *)
(* that needs it (Use).  What the commands do and what they validate       *)
(* otherwise is CommandBuffer's matter.                                    *)
(***************************************************************************)
EXTENDS FiniteSets, Integers

CONSTANTS Backends, Kinds

ASSUME KindsAssumption == Kinds \subseteq {"buffer", "color", "depth", "swapchain"}

VARIABLES
  backend, kind,
  allowed,     \* GetUsage()
  lastUsage,   \* mLastUsage
  using,       \* the usages the next command needs, {} between requests
  swap,        \* the swap chain: "none", "configured", "acquired", "presented"
  native       \* what the backend told the graphics API

usageVars == <<backend, kind, allowed, lastUsage, using, swap, native>>

BufferUsages == {"MapRead", "MapWrite", "TransferSrc", "TransferDst", "Index", "Vertex",
                 "Uniform", "Storage"}
TextureUsages == {"TransferSrc", "TransferDst", "Sampled", "OutputAttachment"}
kReadOnlyBufferUsages == {"MapRead", "TransferSrc", "Index", "Vertex", "Uniform"}
kReadOnlyTextureUsages == {"TransferSrc", "Sampled", "Present"}

ValidateBufferDescriptor(usage) ==
  /\ "MapWrite" \in usage => usage \subseteq {"MapWrite", "TransferSrc"}
  /\ "MapRead" \in usage => usage \subseteq {"MapRead", "TransferDst"}

(* The usages a resource is created with.  Only usages that no valid one   *)
(* contains are of interest: a smaller set allows fewer requests.          *)
ValidUsages ==
  IF kind = "buffer" THEN {u \in SUBSET BufferUsages : ValidateBufferDescriptor(u)}
  ELSE IF kind = "swapchain" THEN {TextureUsages \cup {"Present"}} ELSE {TextureUsages}
Creatable == {u \in ValidUsages : \A v \in ValidUsages : u \subseteq v => u = v}

(* A pass needs the resource in several usages only to read it             *)
(* (UsageValidationTracker, see CommandBuffer).                            *)
PassUsages ==
  LET reads == allowed \cap {"Index", "Vertex", "Uniform", "Sampled"}
      writes == allowed \cap {"Storage", "OutputAttachment"}
  IN ((SUBSET reads) \ {{}}) \cup {{w} : w \in writes}
CopyUsages == {{u} : u \in allowed \cap {"TransferSrc", "TransferDst"}}
MapUsages == {{u} : u \in allowed \cap {"MapRead", "MapWrite"}}

(* A texture of a swap chain is only used until it is presented, which the *)
(* application has to see to.                                              *)
Usable == using = {} /\ swap \in {"none", "acquired"}

Keeps(changes) == changes /\ UNCHANGED <<backend, kind, allowed>>
=============================================================================
