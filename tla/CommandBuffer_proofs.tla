------------------------ MODULE CommandBuffer_proofs ------------------------
(***************************************************************************)
(* Proofs about CommandBuffer, for any resources, bind groups, pipelines   *)
(* and any number of passes, and about CommandStorage, for any commands,   *)
(* any sizes of their structures and any number of blocks.                 *)
(*                                                                         *)
(* The argument: everything that a draw could access through what is bound *)
(* now is already in mUsages (Covered), so that what ValidateUsages says   *)
(* of mUsages at the end of the pass holds of the accesses of the pass.    *)
(* For compute passes mStorageUsedMultipleTimes must also tell whether two *)
(* bindings ever named the same storage (OneBinding).                      *)
(*                                                                         *)
(* For the storage it is that each piece that was allocated has a place:   *)
(* its id and its contents are in the cells there, and the next id follows *)
(* or the block is ended and the next one begins (Placed).  The allocator  *)
(* stays behind the last place, and the iterator, which has no copy of the *)
(* places, is always at the next of them or at the end of a block.         *)
(***************************************************************************)
EXTENDS CommandBuffer, CommandStorage, TLAPS, FiniteSetTheorems, SequenceTheorems

Fresh ==
  /\ mAspects = {} /\ mBindgroups = NoGroups /\ mInputsSet = {} /\ mLastPipeline = None
  /\ mUsages = NoUsages /\ mStorageUsedMultipleTimes = FALSE
  /\ vertexBuffers = NoVertexBuffers /\ indexBuffer = None
  /\ accesses = {}

Current == UNION {BoundAt(i) : i \in {j \in GroupIndices : mBindgroups[j] # None}}

(* Each pass starts with trackers of its own, and has its kind of          *)
(* pipeline and of accesses.                                               *)
PassKinds ==
  /\ ~InPass => Fresh
  /\ pass = "render" => mLastPipeline \in RenderPipelines \cup {None}
  /\ pass = "compute" =>
       /\ mLastPipeline \in ComputePipelines \cup {None}
       /\ \A a \in accesses : a.usage \in {"Uniform", "Storage", "Sampled"}

UsedGroupsAreBound == \A i \in DOMAIN LastSetLayouts : mBindgroups[i] # None

(* An aspect that is set stands for what it was computed from.             *)
AspectsHold ==
  /\ "PIPELINE" \in mAspects => mLastPipeline # None
  /\ "BIND_GROUPS" \in mAspects => mLastPipeline \in Pipelines /\ UsedGroupsAreBound
  /\ "VERTEX_BUFFERS" \in mAspects =>
       mLastPipeline \in RenderPipelines /\ Inputs[mLastPipeline] \subseteq mInputsSet
  /\ "INDEX_BUFFER" \in mAspects => indexBuffer # None
  /\ \A s \in mInputsSet : vertexBuffers[s] # None

(* Accesses that were made or could be made are among the usages.          *)
Covered ==
  /\ \A a \in accesses \cup Current :
       a.resource \in Resources /\ a.usage \in mUsages[a.resource]
  /\ \A s \in VertexSlots : vertexBuffers[s] # None => "Vertex" \in mUsages[vertexBuffers[s]]
  /\ indexBuffer # None => "Index" \in mUsages[indexBuffer]

OneBinding ==
  ~mStorageUsedMultipleTimes =>
    \A a, b \in accesses \cup Current :
      a.resource = b.resource /\ a.usage = "Storage" /\ b.usage = "Storage" => a = b

Local == TypeOK /\ PassKinds /\ AspectsHold /\ Covered /\ OneBinding
IInv == Local /\ PassUsagesCoverAccesses /\ PassesAreRaceFree
-----------------------------------------------------------------------------
(* Nothing is bound when a pass starts.                                    *)
LEMMA FreshCurrent ==
  ASSUME mBindgroups = NoGroups PROVE Current = {}
<1>1. \A j \in GroupIndices : mBindgroups[j] = None BY DEF NoGroups
<1> QED BY <1>1 DEF Current

(* What the groups that are bound may access is well typed.                *)
LEMMA CurrentType ==
  ASSUME mBindgroups \in [GroupIndices -> Groups \cup {None}]
  PROVE \A a \in Current :
          /\ a \in Access /\ a.resource \in Resources
          /\ a.usage \in {"Uniform", "Storage", "Sampled"}
<1> SUFFICES ASSUME NEW a \in Current
    PROVE /\ a \in Access /\ a.resource \in Resources
          /\ a.usage \in {"Uniform", "Storage", "Sampled"}
    OBVIOUS
<1>1. PICK i \in GroupIndices : mBindgroups[i] # None /\ a \in BoundAt(i)
  BY DEF Current
<1>2. PICK n \in DOMAIN Bindings[mBindgroups[i]] :
        a = [resource |-> Bindings[mBindgroups[i]][n].resource,
             usage |-> Bindings[mBindgroups[i]][n].usage, at |-> <<i, n>>]
  BY <1>1 DEF BoundAt
<1>3. mBindgroups[i] \in Groups BY <1>1
<1>4. <<i, n>> \in Places BY <1>2, <1>3 DEF Places
<1>5. /\ Bindings[mBindgroups[i]][n].resource \in Resources
      /\ Bindings[mBindgroups[i]][n].usage \in {"Uniform", "Storage", "Sampled"}
  BY <1>2, <1>3, GroupAssumption DEF Resources
<1> QED BY <1>2, <1>4, <1>5 DEF Access, Usages, BufferUsages, TextureUsages

(* Leaving a pass, or failing, leaves nothing behind of its trackers.      *)
LEMMA ReturnKeepsLocal ==
  ASSUME Local, NEW to \in {"outside", "valid", "error", "crashed"}, Return(to),
         mPassResourceUsages' \in Seq([Resources -> SUBSET Usages]),
         passAccesses' \in Seq([pass : {"compute", "render"}, accesses : SUBSET Access]),
         mismatched' \in BOOLEAN
  PROVE Local'
<1>1. TypeOK' BY DEF Local, TypeOK, Return, NoGroups, NoUsages, NoVertexBuffers
<1>2. Fresh' /\ ~InPass' BY DEF Return, Fresh, InPass
<1>3. PassKinds' BY <1>2 DEF PassKinds, InPass
<1>4. AspectsHold' BY <1>2 DEF AspectsHold, Fresh
<1>5. Current' = {}
  <2>1. \A j \in GroupIndices : mBindgroups'[j] = None BY <1>2 DEF Fresh, NoGroups
  <2> QED BY <2>1 DEF Current
<1>6. Covered' BY <1>2, <1>5 DEF Covered, Fresh, NoVertexBuffers
<1>7. OneBinding' BY <1>2, <1>5 DEF OneBinding, Fresh
<1> QED BY <1>1, <1>3, <1>4, <1>6, <1>7 DEF Local
-----------------------------------------------------------------------------
(* What a command leaves alone stays as it was.                            *)
LEMMA SameCurrent ==
  ASSUME UNCHANGED mBindgroups PROVE Current' = Current
BY DEF Current, BoundAt

(* A compute pass begins with trackers that know nothing.                  *)
LEMMA BeginComputePassKeepsLocal ==
  ASSUME Local, BeginComputePass PROVE Local'
<1> USE DEF BeginComputePass, stateTracker, usageTracker, bindings, ended
<1>1. Current' = Current BY SameCurrent
<1>2. TypeOK' BY DEF Local, TypeOK
<1>3. PassKinds' BY DEF Local, PassKinds, InPass, Fresh
<1>4. AspectsHold' BY DEF Local, AspectsHold, UsedGroupsAreBound, LastSetLayouts
<1>5. Covered' BY <1>1 DEF Local, Covered
<1>6. OneBinding' BY <1>1 DEF Local, OneBinding
<1> QED BY <1>2, <1>3, <1>4, <1>5, <1>6 DEF Local

(* A render pass begins with its attachments used and accessed.            *)
LEMMA BeginRenderPassKeepsLocal ==
  ASSUME Local, NEW rp \in RenderPasses, BeginRenderPass(rp) PROVE Local'
<1> USE DEF BeginRenderPass, stateTracker, usageTracker, bindings, ended
<1>1. Fresh BY DEF Local, PassKinds, InPass
<1>2. Current' = {} BY <1>1, FreshCurrent, SameCurrent DEF Fresh
<1>3. \A a \in accesses' : \E t \in Attachments[rp] :
        a = [resource |-> t, usage |-> "OutputAttachment", at |-> <<>>]
  BY DEF AttachmentUses
<1>4. Attachments[rp] \subseteq Resources BY PipelineAssumption DEF Resources
<1>5. accesses' \subseteq Access
  BY <1>3, <1>4 DEF Access, Places, Usages, TextureUsages
<1>6. TypeOK' BY <1>5 DEF Local, TypeOK, Usages, TextureUsages
<1>7. PassKinds' BY <1>1 DEF PassKinds, InPass, Fresh
<1>8. AspectsHold' BY <1>1 DEF AspectsHold, Fresh
<1>9. Covered' BY <1>1, <1>2, <1>3, <1>4 DEF Covered, Fresh, NoVertexBuffers
<1>10. OneBinding' BY <1>2, <1>3 DEF OneBinding
<1> QED BY <1>6, <1>7, <1>8, <1>9, <1>10 DEF Local

(* A new pipeline takes the aspects away that depended on the old one.     *)
LEMMA SetPipelineKeepsLocal ==
  ASSUME Local, NEW p \in Pipelines, SetPipeline(p) PROVE Local'
<1>1. CASE ~(pass = "render" => renderPass \in CompatibleWith[p])
  <2>1. Fail("error") BY <1>1 DEF SetPipeline
  <2> QED BY <2>1, ReturnKeepsLocal DEF Fail, ended, Local, TypeOK
<1>2. CASE pass = "render" => renderPass \in CompatibleWith[p]
  <2> USE DEF stateTracker, usageTracker, bindings, ended
  <2>1. /\ SetPipelineCommon(p)
        /\ UNCHANGED <<pass, renderPass, usageTracker, bindings, accesses, ended, mismatched>>
    BY <1>2 DEF SetPipeline
  <2>2. /\ mLastPipeline' = p
        /\ mAspects' = (mAspects \cup {"PIPELINE"}) \ kLazyAspects
        /\ UNCHANGED <<mBindgroups, mInputsSet>>
    BY <2>1 DEF SetPipelineCommon, ResetAspects
  <2>3. p # None BY GroupAssumption
  <2>4. Current' = Current BY <2>2, SameCurrent
  <2>5. TypeOK' BY <2>1, <2>2 DEF Local, TypeOK, Aspects
  <2>6. PassKinds' BY <2>1, <2>2 DEF Local, PassKinds, InPass, SetPipeline
  <2>7. AspectsHold' BY <2>1, <2>2, <2>3 DEF Local, AspectsHold, kLazyAspects
  <2>8. Covered' BY <2>1, <2>4 DEF Local, Covered
  <2>9. OneBinding' BY <2>1, <2>4 DEF Local, OneBinding
  <2> QED BY <2>5, <2>6, <2>7, <2>8, <2>9 DEF Local
<1> QED BY <1>1, <1>2

(* Binding a group adds its entries to what can be accessed.               *)
LEMMA BindCurrent ==
  ASSUME NEW i \in GroupIndices, NEW g \in Groups,
         mBindgroups \in [GroupIndices -> Groups \cup {None}],
         mBindgroups' = [mBindgroups EXCEPT ![i] = g]
  PROVE \A a \in Current' : a \in Current \/ \E n \in DOMAIN Bindings[g] :
          a = [resource |-> Bindings[g][n].resource, usage |-> Bindings[g][n].usage,
               at |-> <<i, n>>]
<1> SUFFICES ASSUME NEW a \in Current', a \notin Current
    PROVE \E n \in DOMAIN Bindings[g] :
            a = [resource |-> Bindings[g][n].resource, usage |-> Bindings[g][n].usage,
                 at |-> <<i, n>>]
    OBVIOUS
<1>1. PICK j \in GroupIndices : mBindgroups'[j] # None /\ a \in BoundAt(j)'
  BY DEF Current
<1>2. PICK n \in DOMAIN Bindings[mBindgroups'[j]] :
        a = [resource |-> Bindings[mBindgroups'[j]][n].resource,
             usage |-> Bindings[mBindgroups'[j]][n].usage, at |-> <<j, n>>]
  BY <1>1 DEF BoundAt
<1>3. ASSUME j # i PROVE FALSE
  <2>1. mBindgroups'[j] = mBindgroups[j] BY <1>3
  <2>2. a \in BoundAt(j) BY <1>2, <2>1 DEF BoundAt
  <2> QED BY <1>1, <2>1, <2>2 DEF Current
<1> QED BY <1>2, <1>3

(* A bind group is bound with its usages recorded first.                   *)
LEMMA SetBindGroupKeepsLocal ==
  ASSUME Local, NEW i \in GroupIndices, NEW g \in Groups, SetBindGroup(i, g) PROVE Local'
<1> USE DEF bindings, ended
<1> DEFINE New(n) == [resource |-> Bindings[g][n].resource,
                      usage |-> Bindings[g][n].usage, at |-> <<i, n>>]
<1>1. /\ InPass
      /\ mBindgroups' = [mBindgroups EXCEPT ![i] = g]
      /\ mUsages' = [r \in Resources |->
           mUsages[r] \cup {use.usage : use \in {v \in GroupUses(g) : v.resource = r}}]
      /\ mStorageUsedMultipleTimes' = (mStorageUsedMultipleTimes \/ StorageUsedAgain(g))
      /\ UNCHANGED <<pass, renderPass, mAspects, mInputsSet, mLastPipeline, bindings, accesses,
                     ended, mismatched>>
  BY DEF SetBindGroup, TrackBindGroupResourceUsage
<1>2. \A n \in DOMAIN Bindings[g] :
        /\ Bindings[g][n].resource \in Resources
        /\ Bindings[g][n].usage \in {"Uniform", "Storage", "Sampled"}
        /\ Bindings[g][n] = [resource |-> Bindings[g][n].resource,
                             usage |-> Bindings[g][n].usage]
        /\ Bindings[g][n] \in GroupUses(g)
  BY GroupAssumption DEF Resources, GroupUses
<1>3. \A a \in Current' : a \in Current \/ \E n \in DOMAIN Bindings[g] : a = New(n)
  BY <1>1, BindCurrent DEF Local, TypeOK
<1>4. \A r \in Resources : mUsages[r] \subseteq mUsages'[r] BY <1>1
<1>5. \A n \in DOMAIN Bindings[g] : Bindings[g][n].usage \in mUsages'[Bindings[g][n].resource]
  BY <1>1, <1>2
<1>6. TypeOK'
  <2>1. \A r \in Resources :
          {use.usage : use \in {v \in GroupUses(g) : v.resource = r}} \subseteq Usages
    BY <1>2 DEF GroupUses, Usages, BufferUsages, TextureUsages
  <2>2. mUsages' \in [Resources -> SUBSET Usages] BY <1>1, <2>1 DEF Local, TypeOK
  <2>3. mStorageUsedMultipleTimes' \in BOOLEAN BY <1>1 DEF Local, TypeOK, StorageUsedAgain
  <2>4. mBindgroups' \in [GroupIndices -> Groups \cup {None}] BY <1>1 DEF Local, TypeOK
  <2> QED BY <1>1, <2>2, <2>3, <2>4 DEF Local, TypeOK
<1>7. PassKinds' BY <1>1 DEF Local, PassKinds, InPass
<1>8. AspectsHold'
  <2>1. g # None BY GroupAssumption
  <2>2. UsedGroupsAreBound /\ mLastPipeline \in Pipelines => UsedGroupsAreBound'
    <3>1. LastSetLayouts' = LastSetLayouts BY <1>1 DEF LastSetLayouts
    <3>2. mLastPipeline \in Pipelines => DOMAIN LastSetLayouts \subseteq GroupIndices
      BY PipelineAssumption DEF LastSetLayouts
    <3> QED BY <1>1, <2>1, <3>1, <3>2 DEF UsedGroupsAreBound, Local, TypeOK
  <2> QED BY <1>1, <2>2 DEF Local, AspectsHold
<1>9. Covered'
  <2>1. ASSUME NEW a \in (accesses \cup Current)'
        PROVE a.resource \in Resources /\ a.usage \in mUsages'[a.resource]
    <3>1. CASE a \in accesses \cup Current BY <3>1, <1>4 DEF Local, Covered
    <3>2. CASE \E n \in DOMAIN Bindings[g] : a = New(n)
      <4>1. PICK n \in DOMAIN Bindings[g] : a = New(n) BY <3>2
      <4>2. a.resource = Bindings[g][n].resource /\ a.usage = Bindings[g][n].usage BY <4>1
      <4> QED BY <4>2, <1>2, <1>5
    <3> QED BY <1>1, <1>3, <2>1, <3>1, <3>2
  <2>2. \A b \in Buffers : b \in Resources BY DEF Resources
  <2> QED BY <1>1, <1>4, <2>1, <2>2 DEF Local, Covered, TypeOK
<1>10. OneBinding'
  <2> SUFFICES ASSUME ~mStorageUsedMultipleTimes',
                      NEW a \in (accesses \cup Current)', NEW b \in (accesses \cup Current)',
                      a.resource = b.resource, a.usage = "Storage", b.usage = "Storage"
               PROVE a = b
    BY DEF OneBinding
  <2>1. ~mStorageUsedMultipleTimes /\ ~StorageUsedAgain(g) BY <1>1
  <2>2. ASSUME NEW n \in DOMAIN Bindings[g], Bindings[g][n].usage = "Storage",
               NEW c \in accesses \cup Current, c.usage = "Storage",
               c.resource = Bindings[g][n].resource
        PROVE FALSE
    <3>1. "Storage" \in mUsages[Bindings[g][n].resource] BY <2>2 DEF Local, Covered
    <3> QED BY <2>1, <2>2, <3>1 DEF StorageUsedAgain
  <2>3. CASE a \in accesses \cup Current /\ b \in accesses \cup Current
    BY <2>1, <2>3 DEF Local, OneBinding
  <2>4. CASE a \in accesses \cup Current /\ \E n \in DOMAIN Bindings[g] : b = New(n)
    BY <2>2, <2>4
  <2>5. CASE b \in accesses \cup Current /\ \E n \in DOMAIN Bindings[g] : a = New(n)
    BY <2>2, <2>5
  <2>6. CASE \E n, m \in DOMAIN Bindings[g] : a = New(n) /\ b = New(m)
    <3>1. PICK n \in DOMAIN Bindings[g], m \in DOMAIN Bindings[g] : a = New(n) /\ b = New(m)
      BY <2>6
    <3>2. Bindings[g][n].usage = "Storage" /\ Bindings[g][m] = Bindings[g][n] BY <3>1, <1>2
    <3>3. n = m BY <2>1, <3>2 DEF StorageUsedAgain
    <3> QED BY <3>1, <3>3
  <2> QED BY <1>1, <1>3, <2>3, <2>4, <2>5, <2>6
<1> QED BY <1>6, <1>7, <1>8, <1>9, <1>10 DEF Local

(* An index buffer is bound with its usage recorded.                       *)
LEMMA SetIndexBufferKeepsLocal ==
  ASSUME Local, NEW b \in Buffers, SetIndexBuffer(b) PROVE Local'
<1> USE DEF SetIndexBuffer, BufferUsedAs, ended
<1>1. b # None /\ b \in Resources BY GroupAssumption DEF Resources
<1>2. Current' = Current BY SameCurrent
<1>3. /\ \A r \in Resources : mUsages[r] \subseteq mUsages'[r]
      /\ "Index" \in mUsages'[b]
  BY <1>1 DEF Local, TypeOK
<1>4. TypeOK' BY <1>1 DEF Local, TypeOK, Aspects, Usages, BufferUsages
<1>5. PassKinds' BY DEF Local, PassKinds, InPass
<1>6. AspectsHold' BY <1>1 DEF Local, AspectsHold, UsedGroupsAreBound, LastSetLayouts
<1>7. Covered' BY <1>2, <1>3, GroupAssumption DEF Local, Covered, TypeOK, Resources
<1>8. OneBinding' BY <1>2 DEF Local, OneBinding
<1> QED BY <1>4, <1>5, <1>6, <1>7, <1>8 DEF Local

(* Vertex buffers are bound with their usages recorded.                    *)
LEMMA SetVertexBuffersKeepsLocal ==
  ASSUME Local, NEW start \in 0 .. kMaxVertexInputs, NEW count \in 0 .. kMaxVertexInputs,
         NEW bufs \in [0 .. count - 1 -> Buffers], SetVertexBuffers(start, bufs)
  PROVE Local'
<1> DEFINE slots == {start + k : k \in DOMAIN bufs}
<1>1. CASE ~(\A s \in slots : SlotExists(s))
  <2>1. Fail("crashed") BY <1>1 DEF SetVertexBuffers
  <2> QED BY <2>1, ReturnKeepsLocal DEF Fail, ended, Local, TypeOK
<1>2. CASE \A s \in slots : SlotExists(s)
  <2> USE DEF ended
  <2>1. /\ pass = "render"
        /\ mUsages' = [r \in Resources |->
             IF \E k \in DOMAIN bufs : bufs[k] = r THEN mUsages[r] \cup {"Vertex"}
             ELSE mUsages[r]]
        /\ mInputsSet' = mInputsSet \cup slots
        /\ vertexBuffers' = [s \in VertexSlots |->
             IF s \in slots THEN bufs[s - start] ELSE vertexBuffers[s]]
        /\ UNCHANGED <<pass, renderPass, mAspects, mBindgroups, mLastPipeline,
                       mStorageUsedMultipleTimes, indexBuffer, accesses, ended, mismatched>>
    BY <1>2 DEF SetVertexBuffers, BufferUsedAs, Local, TypeOK
  <2>2. slots \subseteq VertexSlots BY <1>2 DEF SlotExists
  <2>3. \A s \in slots : s - start \in DOMAIN bufs /\ bufs[s - start] \in Buffers
    BY MaxAssumption
  <2>4. Buffers \subseteq Resources /\ None \notin Buffers
    BY GroupAssumption DEF Resources
  <2>5. Current' = Current BY <2>1, SameCurrent
  <2>6. \A r \in Resources : mUsages[r] \subseteq mUsages'[r] BY <2>1
  <2>7. \A s \in slots : vertexBuffers'[s] \in Buffers /\ "Vertex" \in mUsages'[vertexBuffers'[s]]
    BY <2>1, <2>2, <2>3, <2>4
  <2>8. TypeOK' BY <2>1, <2>2, <2>3 DEF Local, TypeOK, Usages, BufferUsages
  <2>9. PassKinds' BY <2>1 DEF Local, PassKinds, InPass
  <2>10. \A s \in VertexSlots \ slots : vertexBuffers'[s] = vertexBuffers[s] BY <2>1
  <2>11. AspectsHold'
    BY <2>1, <2>2, <2>4, <2>7, <2>10
    DEF Local, TypeOK, AspectsHold, UsedGroupsAreBound, LastSetLayouts
  <2>12. Covered'
    BY <2>1, <2>4, <2>5, <2>6, <2>7, <2>10 DEF Local, Covered, TypeOK
  <2>13. OneBinding' BY <2>1, <2>5 DEF Local, OneBinding
  <2> QED BY <2>8, <2>9, <2>11, <2>12, <2>13 DEF Local
<1> QED BY <1>1, <1>2

(* When an operation is allowed the pipeline is there, and the aspects     *)
(* that are new have been computed.                                        *)
LEMMA OperationIsValid ==
  ASSUME Local, NEW required \in SUBSET Aspects, "PIPELINE" \in required,
         ValidateOperation(required).result = "valid"
  PROVE /\ mLastPipeline \in Pipelines
        /\ required \subseteq ValidateOperation(required).aspects
        /\ ValidateOperation(required).aspects \subseteq Aspects
        /\ \A a \in ValidateOperation(required).aspects :
             a \in mAspects \/ (a \in required \cap kLazyAspects /\ HasLazyAspect(a))
        /\ mAspects \subseteq ValidateOperation(required).aspects
<1> DEFINE missing == required \ mAspects
           found == mAspects \cup {a \in missing : HasLazyAspect(a)}
<1>1. CASE missing = {}
  <2>1. ValidateOperation(required).aspects = mAspects BY <1>1 DEF ValidateOperation
  <2> QED BY <1>1, <2>1 DEF Local, TypeOK, AspectsHold
<1>2. CASE missing # {}
  <2>1. /\ missing \subseteq kLazyAspects
        /\ required \subseteq found
        /\ ValidateOperation(required).aspects = found
    BY <1>2 DEF ValidateOperation
  <2>2. "PIPELINE" \in mAspects BY <2>1 DEF kLazyAspects
  <2> QED BY <2>1, <2>2 DEF Local, TypeOK, AspectsHold
<1> QED BY <1>1, <1>2

(* The groups that an operation reads are among those that are bound.      *)
LEMMA GroupAccessesAreCurrent ==
  ASSUME mLastPipeline \in Pipelines PROVE GroupAccesses \subseteq Current
<1>1. DOMAIN LastSetLayouts \subseteq GroupIndices BY PipelineAssumption DEF LastSetLayouts
<1> QED BY <1>1 DEF GroupAccesses, Current

(* A draw or dispatch accesses only what was covered already.              *)
LEMMA OperateKeepsLocal ==
  ASSUME Local, InPass, NEW required \in SUBSET Aspects, "PIPELINE" \in required,
         "VERTEX_BUFFERS" \in required => pass = "render",
         NEW extra, pass = "compute" => extra = {},
         ValidateOperation(required).result = "valid" =>
           \A a \in extra : /\ a \in Access /\ a.resource \in Resources
                            /\ a.usage \in mUsages[a.resource] /\ a.usage # "Storage",
         Operate(required, extra)
  PROVE Local'
<1>1. CASE ValidateOperation(required).result # "valid"
  <2>1. Fail(ValidateOperation(required).result) BY <1>1 DEF Operate
  <2>2. ValidateOperation(required).result \in {"error", "crashed"}
    BY <1>1 DEF ValidateOperation
  <2> QED BY <2>1, <2>2, ReturnKeepsLocal DEF Fail, ended, Local, TypeOK
<1>2. CASE ValidateOperation(required).result = "valid"
  <2> USE DEF usageTracker, bindings, ended
  <2> DEFINE now == ValidateOperation(required).aspects
  <2>1. /\ mAspects' = now
        /\ accesses' = accesses \cup GroupAccesses \cup extra
        /\ mismatched' = (mismatched \/ ~HasLazyAspect("BIND_GROUPS"))
        /\ UNCHANGED <<pass, renderPass, mBindgroups, mInputsSet, mLastPipeline,
                       usageTracker, bindings, ended>>
    BY <1>2 DEF Operate
  <2>2. /\ mLastPipeline \in Pipelines /\ now \subseteq Aspects /\ mAspects \subseteq now
        /\ \A a \in now : a \in mAspects \/ (a \in required \cap kLazyAspects /\ HasLazyAspect(a))
    BY <1>2, OperationIsValid
  <2> HIDE DEF now
  <2>3. Current' = Current BY <2>1, SameCurrent
  <2>4. accesses' \subseteq accesses \cup Current \cup extra
    BY <2>1, <2>2, GroupAccessesAreCurrent
  <2>5. \A a \in Current : /\ a \in Access /\ a.resource \in Resources
                           /\ a.usage \in {"Uniform", "Storage", "Sampled"}
    BY CurrentType DEF Local, TypeOK
  <2>6. accesses' \subseteq Access BY <1>2, <2>4, <2>5 DEF Local, TypeOK
  <2>7. HasLazyAspect("BIND_GROUPS") \in BOOLEAN BY DEF HasLazyAspect
  <2>8. TypeOK' BY <2>1, <2>2, <2>6, <2>7 DEF Local, TypeOK
  <2>9. PassKinds' BY <2>1, <2>4, <2>5 DEF Local, PassKinds, InPass
  <2>10. AspectsHold'
    <3>1. "VERTEX_BUFFERS" \in now =>
            mLastPipeline \in RenderPipelines /\ Inputs[mLastPipeline] \subseteq mInputsSet
      <4>1. CASE "VERTEX_BUFFERS" \in mAspects BY <4>1 DEF Local, AspectsHold
      <4>2. CASE "VERTEX_BUFFERS" \in required /\ HasLazyAspect("VERTEX_BUFFERS")
        <5>1. mLastPipeline \in RenderPipelines
          BY <4>2, <2>2, GroupAssumption DEF Local, PassKinds, Pipelines
        <5>2. Inputs[mLastPipeline] \subseteq mInputsSet BY <4>2 DEF HasLazyAspect
        <5> QED BY <5>1, <5>2
      <4> QED BY <2>2, <4>1, <4>2
    <3>2. "INDEX_BUFFER" \in now => "INDEX_BUFFER" \in mAspects BY <2>2 DEF kLazyAspects
    <3>3. mLastPipeline # None BY <2>2, GroupAssumption
    <3>4. "BIND_GROUPS" \in now => UsedGroupsAreBound
      BY <2>2 DEF Local, AspectsHold, HasLazyAspect, Matches, UsedGroupsAreBound
    <3>5. UsedGroupsAreBound' <=> UsedGroupsAreBound
      BY <2>1 DEF UsedGroupsAreBound, LastSetLayouts
    <3> QED BY <2>1, <2>2, <3>1, <3>2, <3>3, <3>4, <3>5 DEF Local, AspectsHold
  <2>11. Covered' BY <1>2, <2>1, <2>3, <2>4 DEF Local, Covered
  <2>12. OneBinding' BY <1>2, <2>1, <2>3, <2>4 DEF Local, OneBinding
  <2> QED BY <2>8, <2>9, <2>10, <2>11, <2>12 DEF Local
<1> QED BY <1>1, <1>2

(* The buffers that a draw reads its vertices from have been set.          *)
LEMMA VertexBuffersAreSet ==
  ASSUME Local, pass = "render", NEW required \in SUBSET Aspects,
         {"PIPELINE", "VERTEX_BUFFERS"} \subseteq required,
         ValidateOperation(required).result = "valid"
  PROVE /\ mLastPipeline \in RenderPipelines
        /\ \A s \in Inputs[mLastPipeline] : s \in VertexSlots /\ vertexBuffers[s] \in Buffers
        /\ \A a \in VertexAccesses :
             /\ a \in Access /\ a.resource \in Resources
             /\ a.usage \in mUsages[a.resource] /\ a.usage = "Vertex"
<1>1. /\ mLastPipeline \in Pipelines
      /\ "VERTEX_BUFFERS" \in mAspects \/ HasLazyAspect("VERTEX_BUFFERS")
  BY OperationIsValid
<1>2. mLastPipeline \in RenderPipelines
  BY <1>1, GroupAssumption DEF Local, PassKinds, Pipelines
<1>3. Inputs[mLastPipeline] \subseteq mInputsSet
  BY <1>1 DEF HasLazyAspect, Local, AspectsHold
<1>4. \A s \in Inputs[mLastPipeline] : /\ s \in VertexSlots /\ vertexBuffers[s] \in Buffers
                                       /\ "Vertex" \in mUsages[vertexBuffers[s]]
  BY <1>3 DEF Local, TypeOK, AspectsHold, Covered
<1>5. \A a \in VertexAccesses : \E s \in Inputs[mLastPipeline] :
        a = [resource |-> vertexBuffers[s], usage |-> "Vertex", at |-> <<>>]
  BY DEF VertexAccesses
<1>6. \A a \in VertexAccesses :
        /\ a \in Access /\ a.resource \in Resources
        /\ a.usage \in mUsages[a.resource] /\ a.usage = "Vertex"
  BY <1>4, <1>5 DEF Access, Places, Usages, BufferUsages, Resources
<1> QED BY <1>2, <1>4, <1>6

(* The buffer that a draw reads its indices from has been set.             *)
LEMMA IndexBufferIsSet ==
  ASSUME Local, ValidateOperation(Aspects).result = "valid"
  PROVE \A a \in IndexAccesses :
          /\ a \in Access /\ a.resource \in Resources
          /\ a.usage \in mUsages[a.resource] /\ a.usage = "Index"
<1>1. "INDEX_BUFFER" \in mAspects BY OperationIsValid DEF Aspects, kLazyAspects
<1>2. indexBuffer \in Buffers /\ "Index" \in mUsages[indexBuffer]
  BY <1>1 DEF Local, TypeOK, AspectsHold, Covered
<1> QED BY <1>2 DEF IndexAccesses, Access, Places, Usages, BufferUsages, Resources

(* The end of a pass discards its trackers, accepted or not.               *)
LEMMA EndPassKeepsLocal ==
  ASSUME Local, EndPass PROVE Local'
<1>1. CASE ~ValidateUsages
  <2>1. Fail("error") BY <1>1 DEF EndPass
  <2> QED BY <2>1, ReturnKeepsLocal DEF Fail, ended, Local, TypeOK
<1>2. CASE ValidateUsages
  <2>1. /\ mPassResourceUsages' = Append(mPassResourceUsages, mUsages)
        /\ passAccesses' = Append(passAccesses, [pass |-> pass, accesses |-> accesses])
        /\ Return("outside") /\ UNCHANGED mismatched
    BY <1>2 DEF EndPass
  <2>2. [pass |-> pass, accesses |-> accesses]
          \in [pass : {"compute", "render"}, accesses : SUBSET Access]
    BY DEF EndPass, InPass, Local, TypeOK
  <2> QED BY <2>1, <2>2, ReturnKeepsLocal DEF Local, TypeOK
<1> QED BY <1>1, <1>2

(* Each command keeps the trackers in step with what is bound.             *)
LEMMA LocalInductive ==
  ASSUME Local, [Next]_vars PROVE Local'
<1>1. CASE BeginComputePass BY <1>1, BeginComputePassKeepsLocal
<1>2. CASE EndPass BY <1>2, EndPassKeepsLocal
<1>3. CASE Dispatch
  <2> DEFINE required == {"PIPELINE", "BIND_GROUPS"}
  <2>1. pass = "compute" /\ Operate(required, {}) BY <1>3 DEF Dispatch
  <2>2. required \in SUBSET Aspects BY DEF Aspects
  <2> QED BY <2>1, <2>2, OperateKeepsLocal DEF InPass
<1>4. CASE DrawArrays
  <2> DEFINE required == {"PIPELINE", "BIND_GROUPS", "VERTEX_BUFFERS"}
  <2>1. pass = "render" /\ Operate(required, VertexAccesses) BY <1>4 DEF DrawArrays
  <2>2. required \in SUBSET Aspects /\ {"PIPELINE", "VERTEX_BUFFERS"} \subseteq required
    BY DEF Aspects
  <2> HIDE DEF required
  <2>3. ValidateOperation(required).result = "valid" =>
          \A a \in VertexAccesses : /\ a \in Access /\ a.resource \in Resources
                                   /\ a.usage \in mUsages[a.resource] /\ a.usage # "Storage"
    BY <2>1, <2>2, VertexBuffersAreSet
  <2> QED BY <2>1, <2>2, <2>3, OperateKeepsLocal DEF InPass
<1>5. CASE DrawElements
  <2> DEFINE extra == VertexAccesses \cup IndexAccesses
  <2>1. pass = "render" /\ Operate(Aspects, extra) BY <1>5 DEF DrawElements
  <2>2. Aspects \in SUBSET Aspects /\ {"PIPELINE", "VERTEX_BUFFERS"} \subseteq Aspects
    BY DEF Aspects
  <2>3. ValidateOperation(Aspects).result = "valid" =>
          \A a \in extra : /\ a \in Access /\ a.resource \in Resources
                          /\ a.usage \in mUsages[a.resource] /\ a.usage # "Storage"
    BY <2>1, <2>2, VertexBuffersAreSet, IndexBufferIsSet
  <2> HIDE DEF extra
  <2> QED BY <2>1, <2>2, <2>3, OperateKeepsLocal DEF InPass
<1>6. CASE EndOfList
  BY <1>6, ReturnKeepsLocal DEF EndOfList, ended, Local, TypeOK
<1>7. CASE Disallowed
  BY <1>7, ReturnKeepsLocal DEF Disallowed, Fail, ended, Local, TypeOK
<1>8. CASE \E rp \in RenderPasses : BeginRenderPass(rp) BY <1>8, BeginRenderPassKeepsLocal
<1>9. ASSUME UNCHANGED vars PROVE Local'
  <2> USE DEF vars, stateTracker, usageTracker, bindings, ended
  <2>1. Current' = Current BY <1>9, SameCurrent
  <2>2. TypeOK' BY <1>9 DEF Local, TypeOK
  <2>3. PassKinds' BY <1>9 DEF Local, PassKinds, InPass, Fresh
  <2>4. AspectsHold' BY <1>9 DEF Local, AspectsHold, UsedGroupsAreBound, LastSetLayouts
  <2>5. Covered' BY <1>9, <2>1 DEF Local, Covered
  <2>6. OneBinding' BY <1>9, <2>1 DEF Local, OneBinding
  <2> QED BY <2>2, <2>3, <2>4, <2>5, <2>6 DEF Local
<1>10. CASE \E src, dst \in Resources, fits \in BOOLEAN : Copy(src, dst, fits)
  <2>1. PICK src \in Resources, dst \in Resources, fits \in BOOLEAN : Copy(src, dst, fits)
    BY <1>10
  <2>2. UNCHANGED vars \/ Fail("error") BY <2>1 DEF Copy
  <2>3. CASE Fail("error")
    BY <2>3, ReturnKeepsLocal DEF Fail, ended, Local, TypeOK
  <2> QED BY <2>2, <2>3, <1>9
<1>11. CASE \E p \in Pipelines : SetPipeline(p) BY <1>11, SetPipelineKeepsLocal
<1>12. CASE \E i \in GroupIndices, g \in Groups : SetBindGroup(i, g)
  BY <1>12, SetBindGroupKeepsLocal
<1>13. CASE \E b \in Buffers : SetIndexBuffer(b) BY <1>13, SetIndexBufferKeepsLocal
<1>14. CASE \E start \in 0 .. kMaxVertexInputs, count \in 0 .. kMaxVertexInputs :
              \E bufs \in [0 .. count - 1 -> Buffers] : SetVertexBuffers(start, bufs)
  BY <1>14, SetVertexBuffersKeepsLocal
<1> QED
  BY <1>1, <1>2, <1>3, <1>4, <1>5, <1>6, <1>7, <1>8, <1>9, <1>10, <1>11, <1>12, <1>13, <1>14
  DEF Next

(* The passes that have ended: nothing but EndPass adds to them, and what  *)
(* it adds has been validated.                                             *)
LEMMA EndedPassesInductive ==
  ASSUME IInv, [Next]_vars PROVE PassUsagesCoverAccesses' /\ PassesAreRaceFree'
<1>1. CASE UNCHANGED ended
  BY <1>1 DEF IInv, PassUsagesCoverAccesses, PassesAreRaceFree, ended
<1>2. CASE EndPass /\ ValidateUsages
  <2> DEFINE done == Len(passAccesses)
             last == [pass |-> pass, accesses |-> accesses]
  <2>1. /\ mPassResourceUsages' = Append(mPassResourceUsages, mUsages)
        /\ passAccesses' = Append(passAccesses, last)
    BY <1>2 DEF EndPass
  <2>2. /\ passAccesses \in Seq([pass : {"compute", "render"}, accesses : SUBSET Access])
        /\ mPassResourceUsages \in Seq([Resources -> SUBSET Usages])
        /\ last \in [pass : {"compute", "render"}, accesses : SUBSET Access]
        /\ mUsages \in [Resources -> SUBSET Usages]
        /\ Len(mPassResourceUsages) = done
    BY <1>2 DEF IInv, Local, TypeOK, EndPass, InPass, PassUsagesCoverAccesses
  <2>3. /\ Len(passAccesses') = done + 1 /\ Len(mPassResourceUsages') = done + 1
        /\ passAccesses'[done + 1] = last /\ mPassResourceUsages'[done + 1] = mUsages
        /\ \A k \in 1 .. done : /\ passAccesses'[k] = passAccesses[k]
                                /\ mPassResourceUsages'[k] = mPassResourceUsages[k]
        /\ done \in Nat
    BY <2>1, <2>2
  <2>4. last.pass = pass /\ last.accesses = accesses OBVIOUS
  <2> HIDE DEF done, last
  <2>5. \A a \in accesses : a.resource \in Resources /\ a.usage \in mUsages[a.resource]
    BY DEF IInv, Local, Covered
  <2>6. PassUsagesCoverAccesses'
    <3>1. ASSUME NEW k \in 1 .. done + 1, NEW a \in passAccesses'[k].accesses
          PROVE a.usage \in mPassResourceUsages'[k][a.resource]
      <4>1. CASE k = done + 1 BY <3>1, <4>1, <2>3, <2>4, <2>5
      <4>2. CASE k \in 1 .. done
        BY <3>1, <4>2, <2>2, <2>3 DEF IInv, PassUsagesCoverAccesses, done
      <4> QED BY <4>1, <4>2, <2>3
    <3> QED BY <3>1, <2>3 DEF PassUsagesCoverAccesses
  <2>7. ASSUME NEW a \in accesses, NEW b \in accesses, a.resource = b.resource, Writes(a)
        PROVE IF pass = "compute" THEN a = b ELSE a.usage = b.usage
    <3>1. /\ a.resource \in Resources /\ a.usage \in mUsages[a.resource]
          /\ b.usage \in mUsages[a.resource]
      BY <2>5, <2>7
    <3>2. HasZeroOrOneBits(mUsages[a.resource])
      BY <1>2, <2>7, <3>1
      DEF ValidateUsages, Writes, kReadOnlyBufferUsages, Resources
    <3>3. a.usage = b.usage BY <3>1, <3>2 DEF HasZeroOrOneBits
    <3>4. CASE pass = "compute"
      <4>1. a.usage = "Storage" BY <2>7, <3>4 DEF IInv, Local, PassKinds, Writes
      <4>2. ~mStorageUsedMultipleTimes BY <1>2, <3>4 DEF ValidateUsages
      <4>3. a = b BY <2>7, <3>3, <4>1, <4>2 DEF IInv, Local, OneBinding
      <4> QED BY <3>4, <4>3
    <3> QED BY <3>3, <3>4
  <2>8. PassesAreRaceFree'
    <3>1. ASSUME NEW k \in 1 .. done + 1,
                 NEW a \in passAccesses'[k].accesses, NEW b \in passAccesses'[k].accesses,
                 a.resource = b.resource /\ Writes(a)
          PROVE IF passAccesses'[k].pass = "compute" THEN a = b ELSE a.usage = b.usage
      <4>1. CASE k = done + 1 BY <3>1, <4>1, <2>3, <2>4, <2>7
      <4>2. CASE k \in 1 .. done
        BY <3>1, <4>2, <2>3 DEF IInv, PassesAreRaceFree, done
      <4> QED BY <4>1, <4>2, <2>3
    <3> QED BY <3>1, <2>3 DEF PassesAreRaceFree, Writes
  <2> QED BY <2>6, <2>8
<1>3. UNCHANGED ended \/ (EndPass /\ ValidateUsages)
  <2> USE DEF vars, ended, Fail
  <2>1. CASE BeginComputePass BY <2>1 DEF BeginComputePass
  <2>2. CASE EndPass BY <2>2 DEF EndPass
  <2>3. CASE Dispatch \/ DrawArrays \/ DrawElements
    BY <2>3 DEF Dispatch, DrawArrays, DrawElements, Operate
  <2>4. CASE EndOfList \/ Disallowed BY <2>4 DEF EndOfList, Disallowed
  <2>5. CASE \E rp \in RenderPasses : BeginRenderPass(rp) BY <2>5 DEF BeginRenderPass
  <2>6. CASE \E src, dst \in Resources, fits \in BOOLEAN : Copy(src, dst, fits)
    BY <2>6 DEF Copy
  <2>7. CASE \E p \in Pipelines : SetPipeline(p) BY <2>7 DEF SetPipeline
  <2>8. CASE \E i \in GroupIndices, g \in Groups : SetBindGroup(i, g)
    BY <2>8 DEF SetBindGroup
  <2>9. CASE \E b \in Buffers : SetIndexBuffer(b) BY <2>9 DEF SetIndexBuffer
  <2>10. CASE \E start \in 0 .. kMaxVertexInputs, count \in 0 .. kMaxVertexInputs :
               \E bufs \in [0 .. count - 1 -> Buffers] : SetVertexBuffers(start, bufs)
    BY <2>10 DEF SetVertexBuffers
  <2>11. CASE UNCHANGED vars BY <2>11
  <2> QED BY <2>1, <2>2, <2>3, <2>4, <2>5, <2>6, <2>7, <2>8, <2>9, <2>10, <2>11 DEF Next
<1> QED BY <1>1, <1>2, <1>3
-----------------------------------------------------------------------------
(* The invariant holds before the first command,                           *)
LEMMA IInvInit == ASSUME Init PROVE IInv
<1>1. Fresh /\ ~InPass /\ passAccesses = <<>> /\ mPassResourceUsages = <<>>
  BY DEF Init, Fresh, InPass
<1>2. Current = {} BY <1>1, FreshCurrent DEF Fresh
<1>3. TypeOK
  <2>1. /\ mPassResourceUsages \in Seq([Resources -> SUBSET Usages])
        /\ passAccesses \in Seq([pass : {"compute", "render"}, accesses : SUBSET Access])
    BY <1>1
  <2>2. NoUsages \in [Resources -> SUBSET Usages] BY DEF NoUsages
  <2> QED BY <2>1, <2>2 DEF Init, TypeOK, NoGroups, NoVertexBuffers
<1>4. PassKinds BY <1>1 DEF PassKinds, InPass
<1>5. AspectsHold BY <1>1 DEF AspectsHold, Fresh
<1>6. Covered BY <1>1, <1>2 DEF Covered, Fresh, NoVertexBuffers
<1>7. OneBinding BY <1>1, <1>2 DEF OneBinding, Fresh
<1>8. PassUsagesCoverAccesses /\ PassesAreRaceFree
  BY <1>1 DEF PassUsagesCoverAccesses, PassesAreRaceFree
<1> QED BY <1>3, <1>4, <1>5, <1>6, <1>7, <1>8 DEF IInv, Local

(* and each command keeps it.                                              *)
LEMMA IInvInductive == ASSUME IInv, [Next]_vars PROVE IInv'
BY LocalInductive, EndedPassesInductive DEF IInv

(* The state of the validation is always well typed.                       *)
THEOREM TypeCorrect == Spec => []TypeOK
<1>1. IInv => TypeOK BY DEF IInv, Local
<1> QED BY <1>1, IInvInit, IInvInductive, PTL DEF Spec

(* What a command buffer tells a backend about a pass covers everything    *)
(* that the draws and dispatches of the pass access.                       *)
THEOREM UsagesCover == Spec => []PassUsagesCoverAccesses
<1>1. IInv => PassUsagesCoverAccesses BY DEF IInv
<1> QED BY <1>1, IInvInit, IInvInductive, PTL DEF Spec

(* No pass that is accepted reads or writes in two ways a resource that it *)
(* writes to.                                                              *)
THEOREM RaceFreedom == Spec => []PassesAreRaceFree
<1>1. IInv => PassesAreRaceFree BY DEF IInv
<1> QED BY <1>1, IInvInit, IInvInductive, PTL DEF Spec

-----------------------------------------------------------------------------
(* An operation that is allowed finds a bind group for each layout of its  *)
(* pipeline.                                                               *)
LEMMA GroupsAreSet ==
  ASSUME Local, NEW required \in SUBSET Aspects, {"PIPELINE", "BIND_GROUPS"} \subseteq required,
         ValidateOperation(required).result = "valid"
  PROVE mLastPipeline \in Pipelines /\ UsedGroupsAreBound
<1>1. /\ mLastPipeline \in Pipelines
      /\ "BIND_GROUPS" \in mAspects \/ HasLazyAspect("BIND_GROUPS")
  BY OperationIsValid
<1> QED BY <1>1 DEF HasLazyAspect, Matches, UsedGroupsAreBound, Local, AspectsHold

(* What the state tracker accepts is what CommandStream has.               *)
LEMMA DispatchIsComplete ==
  ASSUME IInv, Dispatch, pass' = "compute" PROVE Stream!CanDispatch
<1> DEFINE required == {"PIPELINE", "BIND_GROUPS"}
<1>1. pass = "compute" /\ Operate(required, {}) BY DEF Dispatch
<1>2. ValidateOperation(required).result = "valid"
  BY <1>1 DEF Operate, Fail, Return, ValidateOperation
<1>3. mLastPipeline \in Pipelines /\ UsedGroupsAreBound
  BY <1>2, GroupsAreSet DEF IInv, Aspects
<1>4. mLastPipeline \in ComputePipelines
  BY <1>1, <1>3, GroupAssumption DEF IInv, Local, PassKinds
<1> QED
  BY <1>1, <1>3, <1>4
  DEF Stream!CanDispatch, Stream!UsedGroups, StreamPass, UsedGroupsAreBound, LastSetLayouts

(* A draw that is accepted finds a complete state.                         *)
LEMMA DrawArraysIsComplete ==
  ASSUME IInv, NEW required \in SUBSET Aspects, pass = "render",
         {"PIPELINE", "BIND_GROUPS", "VERTEX_BUFFERS"} \subseteq required,
         ValidateOperation(required).result = "valid"
  PROVE Stream!CanDrawArrays
<1>1. UsedGroupsAreBound BY GroupsAreSet DEF IInv
<1>2. /\ mLastPipeline \in RenderPipelines
      /\ \A s \in Inputs[mLastPipeline] : vertexBuffers[s] \in Buffers
  BY VertexBuffersAreSet DEF IInv
<1>3. None \notin Buffers BY GroupAssumption DEF Resources
<1> QED
  BY <1>1, <1>2, <1>3
  DEF Stream!CanDrawArrays, Stream!UsedGroups, StreamPass, UsedGroupsAreBound, LastSetLayouts

(* A draw or dispatch that is allowed finds everything it reads.           *)
THEOREM CompleteDraws == Spec => DrawsAreComplete
<1>1. ASSUME IInv, DrawArrays, pass' = "render" PROVE Stream!CanDrawArrays
  <2> DEFINE required == {"PIPELINE", "BIND_GROUPS", "VERTEX_BUFFERS"}
  <2>1. pass = "render" /\ Operate(required, VertexAccesses) BY <1>1 DEF DrawArrays
  <2>2. ValidateOperation(required).result = "valid"
    BY <1>1, <2>1 DEF Operate, Fail, Return, ValidateOperation
  <2>3. required \in SUBSET Aspects BY DEF Aspects
  <2> QED BY <1>1, <2>1, <2>2, <2>3, DrawArraysIsComplete
<1>2. ASSUME IInv, DrawElements, pass' = "render" PROVE Stream!CanDrawElements
  <2>1. pass = "render" /\ Operate(Aspects, VertexAccesses \cup IndexAccesses)
    BY <1>2 DEF DrawElements
  <2>2. ValidateOperation(Aspects).result = "valid"
    BY <1>2, <2>1 DEF Operate, Fail, Return, ValidateOperation
  <2>3. Stream!CanDrawArrays
    BY <1>2, <2>1, <2>2, DrawArraysIsComplete DEF Aspects
  <2>4. "INDEX_BUFFER" \in mAspects
    BY <1>2, <2>2, OperationIsValid DEF IInv, Aspects, kLazyAspects
  <2> QED BY <1>2, <2>3, <2>4 DEF Stream!CanDrawElements, IInv, Local, AspectsHold
<1>3. IInv /\ [Next]_vars =>
        [/\ Dispatch /\ pass' = "compute" => Stream!CanDispatch
         /\ DrawArrays /\ pass' = "render" => Stream!CanDrawArrays
         /\ DrawElements /\ pass' = "render" => Stream!CanDrawElements]_vars
  BY <1>1, <1>2, DispatchIsComplete
<1> QED BY <1>3, IInvInit, IInvInductive, PTL DEF Spec, DrawsAreComplete

(* Whatever is recorded, backends see a list as CommandStream has it.      *)
LEMMA StreamInit == ASSUME Init PROVE Stream!Init
BY DEF Init, Stream!Init, StreamPass, NoGroups, NoVertexBuffers, Stream!NoGroups,
       Stream!NoVertexBuffers, Stream!GroupIndices, Stream!VertexSlots, GroupIndices, VertexSlots

(* Where a pass or the list ends, so does that of CommandStream.           *)
LEMMA StreamEnd ==
  ASSUME NEW to \in {"outside", "valid", "error", "crashed"}, Return(to) PROVE Stream!Next
<1>1. Stream!End("outside") \/ Stream!End("end")
  BY DEF Return, Stream!End, StreamPass, NoGroups, NoVertexBuffers, Stream!NoGroups,
         Stream!NoVertexBuffers, Stream!GroupIndices, Stream!VertexSlots, GroupIndices, VertexSlots
<1> QED BY <1>1 DEF Stream!Next

(* Setting vertex buffers implements that of CommandStream.                *)
LEMMA StreamSetVertexBuffers ==
  ASSUME Local, NEW start \in 0 .. kMaxVertexInputs, NEW count \in 0 .. kMaxVertexInputs,
         NEW bufs \in [0 .. count - 1 -> Buffers], SetVertexBuffers(start, bufs)
  PROVE Stream!Next
<1> DEFINE slots == {start + k : k \in DOMAIN bufs}
<1>1. CASE ~(\A s \in slots : SlotExists(s))
  <2>1. Fail("crashed") BY <1>1 DEF SetVertexBuffers
  <2> QED BY <2>1, StreamEnd DEF Fail
<1>2. CASE \A s \in slots : SlotExists(s)
  <2>1. /\ pass = "render"
        /\ vertexBuffers' = [s \in VertexSlots |->
             IF s \in slots THEN bufs[s - start] ELSE vertexBuffers[s]]
        /\ UNCHANGED <<pass, mBindgroups, mLastPipeline, indexBuffer>>
    BY <1>2 DEF SetVertexBuffers
  <2>2. \A k \in DOMAIN bufs : start + k \in VertexSlots BY <1>2 DEF SlotExists
  <2>3. \A s \in VertexSlots : s \in slots <=> s - start \in DOMAIN bufs
    <3>1. DOMAIN bufs = 0 .. count - 1 OBVIOUS
    <3>2. \A s \in VertexSlots : s - start \in DOMAIN bufs => s = start + (s - start)
      BY MaxAssumption DEF VertexSlots
    <3>3. \A k \in DOMAIN bufs : (start + k) - start = k BY <3>1, MaxAssumption
    <3> QED BY <3>2, <3>3
  <2>4. vertexBuffers' = [s \in VertexSlots |->
          IF s - start \in DOMAIN bufs THEN bufs[s - start] ELSE vertexBuffers[s]]
    BY <2>1, <2>3
  <2>5. Stream!SetVertexBuffers(start, bufs)
    BY <2>1, <2>2, <2>4
    DEF Stream!SetVertexBuffers, StreamPass, Stream!VertexSlots, VertexSlots
  <2>6. bufs \in Stream!BufferLists BY DEF Stream!BufferLists
  <2> QED BY <2>5, <2>6 DEF Stream!Next
<1> QED BY <1>1, <1>2

(* Every step implements a step of CommandStream.                          *)
LEMMA StreamStep ==
  ASSUME IInv, [Next]_vars PROVE [Stream!Next]_(Stream!streamVars)
<1> USE DEF Stream!streamVars
<1>1. CASE BeginComputePass
  <2>1. Stream!Begin("compute")
    BY <1>1 DEF BeginComputePass, Stream!Begin, StreamPass, stateTracker, bindings
  <2> QED BY <2>1 DEF Stream!Next
<1>2. CASE EndPass BY <1>2, StreamEnd DEF EndPass, Fail
<1>3. CASE Dispatch \/ DrawArrays \/ DrawElements
  <2>1. PICK required, extra : Operate(required, extra)
    BY <1>3 DEF Dispatch, DrawArrays, DrawElements
  <2>2. CASE ValidateOperation(required).result = "valid"
    BY <2>1, <2>2 DEF Operate, StreamPass, bindings
  <2>3. CASE ValidateOperation(required).result \in {"error", "crashed"}
    BY <2>1, <2>3, StreamEnd DEF Operate, Fail
  <2> QED BY <2>2, <2>3 DEF ValidateOperation
<1>4. CASE EndOfList BY <1>4, StreamEnd DEF EndOfList
<1>5. CASE Disallowed BY <1>5, StreamEnd DEF Disallowed, Fail
<1>6. CASE \E rp \in RenderPasses : BeginRenderPass(rp)
  <2>1. Stream!Begin("render")
    BY <1>6 DEF BeginRenderPass, Stream!Begin, StreamPass, stateTracker, bindings
  <2> QED BY <2>1 DEF Stream!Next
<1>7. CASE \E src, dst \in Resources, fits \in BOOLEAN : Copy(src, dst, fits)
  BY <1>7, StreamEnd DEF Copy, Fail, vars, stateTracker, bindings, StreamPass
<1>8. CASE \E p \in Pipelines : SetPipeline(p)
  <2>1. PICK p \in Pipelines : SetPipeline(p) BY <1>8
  <2>2. CASE pass = "render" => renderPass \in CompatibleWith[p]
    <3>1. Stream!SetPipeline(p)
      BY <2>1, <2>2, GroupAssumption
      DEF SetPipeline, SetPipelineCommon, Stream!SetPipeline, StreamPass, bindings
    <3> QED BY <3>1 DEF Stream!Next, Stream!Pipelines, Pipelines
  <2>3. CASE ~(pass = "render" => renderPass \in CompatibleWith[p])
    BY <2>1, <2>3, StreamEnd DEF SetPipeline, Fail
  <2> QED BY <2>2, <2>3
<1>9. CASE \E i \in GroupIndices, g \in Groups : SetBindGroup(i, g)
  <2>1. PICK i \in GroupIndices, g \in Groups : SetBindGroup(i, g) BY <1>9
  <2>2. Stream!SetBindGroup(i, g)
    BY <2>1 DEF SetBindGroup, Stream!SetBindGroup, Stream!InPass, InPass, StreamPass, bindings
  <2> QED BY <2>2 DEF Stream!Next, Stream!GroupIndices, GroupIndices
<1>10. CASE \E b \in Buffers : SetIndexBuffer(b)
  <2>1. PICK b \in Buffers : SetIndexBuffer(b) BY <1>10
  <2>2. Stream!SetIndexBuffer(b)
    BY <2>1 DEF SetIndexBuffer, Stream!SetIndexBuffer, StreamPass
  <2> QED BY <2>2 DEF Stream!Next
<1>11. CASE \E start \in 0 .. kMaxVertexInputs, count \in 0 .. kMaxVertexInputs :
              \E bufs \in [0 .. count - 1 -> Buffers] : SetVertexBuffers(start, bufs)
  BY <1>11, StreamSetVertexBuffers DEF IInv
<1>12. CASE UNCHANGED vars BY <1>12 DEF vars, stateTracker, bindings, StreamPass
<1> QED
  BY <1>1, <1>2, <1>3, <1>4, <1>5, <1>6, <1>7, <1>8, <1>9, <1>10, <1>11, <1>12 DEF Next

(* The validation implements CommandStream.                                *)
THEOREM StreamRefinement == Spec => ImplementsCommandStream
BY StreamInit, StreamStep, IInvInit, IInvInductive, PTL
DEF Spec, ImplementsCommandStream, Stream!Spec
-----------------------------------------------------------------------------
(* The commands and their memory.                                          *)

(* What is asked of the allocator, and what memory may hold.               *)
PieceSet == UNION {{Pieces(c)[i] : i \in DOMAIN Pieces(c)} : c \in Commands}
Structures == Types \cup {"uint32", "Ref"}
Contents == Types \cup {"AdditionalData", "EndOfBlock"} \cup {p.value : p \in PieceSet}
Cell == [holds : {"id", "piece"}, bytes : Nat \ {0}, value : Contents]
CellSet == UNION {[offsets -> Cell] : offsets \in SUBSET Nat}
Block == [size : Nat, cells : CellSet]

(* The pieces of a command: its structure, then its additional data.       *)
LEMMA PiecesOfCommand ==
  ASSUME NEW c \in Commands
  PROVE  LET D == DataOf[c.type]
             s == Pieces(c)
         IN  /\ Len(D) \in Nat /\ DOMAIN D = 1..Len(D) /\ DOMAIN c.data = 1..Len(D)
             /\ s \in Seq(PieceSet) /\ Len(s) = Len(D) + 1 /\ DOMAIN s = 1..Len(s)
             /\ s[1].id = c.type /\ s[1].of = c.type /\ s[1].count = 1
             /\ s[1].value.refs = c.refs
             /\ s[1] = [id |-> s[1].id, of |-> s[1].of, count |-> s[1].count,
                        value |-> s[1].value]
             /\ \A k \in 1..Len(D) :
                  /\ s[k + 1] = [id |-> "AdditionalData", of |-> D[k],
                                 count |-> Len(c.data[k].values), value |-> c.data[k].values]
                  /\ s[k + 1].count = s[1].value.count
<1> DEFINE D == DataOf[c.type]
           n == Len(D)
           value == [refs |-> c.refs,
                     count |-> IF c.data = <<>> THEN 0 ELSE Len(c.data[1].values)]
           first == [id |-> c.type, of |-> c.type, count |-> 1, value |-> value]
           Data(k) == [id |-> "AdditionalData", of |-> c.data[k].of,
                       count |-> Len(c.data[k].values), value |-> c.data[k].values]
           rest == [k \in DOMAIN c.data |-> Data(k)]
           s == Pieces(c)
           Some == {first} \cup {Data(k) : k \in DOMAIN c.data}
<1>1. /\ D \in Seq({"uint32", "Ref"}) /\ DOMAIN c.data = DOMAIN D
      /\ \A k \in DOMAIN c.data :
           c.data[k].of = D[k] /\ Len(c.data[k].values) = Len(c.data[1].values)
  BY SizeAssumption, CommandAssumption
<1>2. n \in Nat /\ DOMAIN D = 1..n /\ DOMAIN c.data = 1..n
  <2> HIDE DEF D
  <2>1. QED
    BY <1>1, LenProperties
<1>3. s = <<first>> \o rest
  BY DEF Pieces
<1>4. rest \in Seq(Some) /\ Len(rest) = n
  <2> HIDE DEF n, Data, first
  <2>1. rest \in [1..n -> Some]
    BY <1>2
  <2>2. QED
    BY <1>2, <2>1
<1>5. <<first>> \in Seq(Some) /\ Len(<<first>>) = 1 /\ <<first>>[1] = first
  <2> HIDE DEF first
  <2>1. QED
    OBVIOUS
<1>6. /\ s \in Seq(Some) /\ Len(s) = 1 + n
      /\ \A i \in 1..1 + n : s[i] = IF i <= 1 THEN <<first>>[i] ELSE rest[i - 1]
  <2> HIDE DEF Some, first, rest, n, s
  <2>1. QED
    BY <1>3, <1>4, <1>5, ConcatProperties
<1>7. DOMAIN s = 1..Len(s) /\ Len(s) = n + 1
  <2> HIDE DEF Some, s, n
  <2>1. QED
    BY <1>2, <1>6, LenProperties
<1>8. s[1] = first
  <2> HIDE DEF first, rest, s, n
  <2>1. QED
    BY <1>2, <1>5, <1>6
<1>9. \A k \in 1..n : s[k + 1] = Data(k)
  <2> HIDE DEF first, Data, s, n
  <2>1. \A k \in 1..n : k + 1 \in 1..1 + n /\ ~ (k + 1 <= 1) /\ (k + 1) - 1 = k
    BY <1>2
  <2>2. \A k \in 1..n : s[k + 1] = rest[k]
    BY <1>6, <2>1
  <2>3. QED
    BY <1>2, <2>2
<1>10. s \in Seq(PieceSet)
  <2> HIDE DEF s, Some
  <2>1. \A i \in 1..Len(s) : s[i] \in PieceSet
    BY <1>7 DEF PieceSet, s
  <2>2. s \in [1..Len(s) -> PieceSet]
    BY <1>6, <2>1, LenProperties
  <2>3. Len(s) \in Nat
    BY <1>6, LenProperties
  <2>4. QED
    BY <2>2, <2>3
<1>11. /\ s[1].id = c.type /\ s[1].of = c.type /\ s[1].count = 1 /\ s[1].value = value
       /\ s[1] = [id |-> s[1].id, of |-> s[1].of, count |-> s[1].count, value |-> s[1].value]
  <2> HIDE DEF s, value
  <2>1. QED
    BY <1>8
<1>12. \A k \in 1..n : /\ s[k + 1] = [id |-> "AdditionalData", of |-> D[k],
                                      count |-> Len(c.data[k].values),
                                      value |-> c.data[k].values]
                       /\ s[k + 1].count = value.count
  <2> HIDE DEF s, D, n
  <2>1. TAKE k \in 1..n
  <2>2. k \in DOMAIN c.data /\ c.data # <<>>
    BY <1>2
  <2>3. s[k + 1] = Data(k) /\ c.data[k].of = D[k]
    BY <1>1, <1>9, <2>2
  <2>4. value.count = Len(c.data[k].values)
    BY <1>1, <2>2
  <2>5. QED
    BY <2>3, <2>4
<1>13. value.refs = c.refs
  OBVIOUS
<1> HIDE DEF D, value, s
<1>14. QED
  BY <1>2, <1>7, <1>10, <1>11, <1>12, <1>13 DEF D, s

(* What can be said of any piece.                                          *)
LEMMA PieceFacts ==
  ASSUME NEW p \in PieceSet
  PROVE  /\ p = [id |-> p.id, of |-> p.of, count |-> p.count, value |-> p.value]
         /\ p.id \in Types \/ p.id = "AdditionalData"
         /\ p.of \in Structures /\ p.count \in Nat
         /\ p.id \in Types => p.of = p.id /\ p.count = 1
         /\ p.id = "AdditionalData" /\ p.count = 0 => p.value = <<>>
         /\ p.value \in Contents /\ p.id \in Contents
         /\ RefsIn(p) \in Seq(Objects)
<1>1. PICK c \in Commands : \E i \in DOMAIN Pieces(c) : p = Pieces(c)[i]
  BY DEF PieceSet
<1> DEFINE D == DataOf[c.type]
           s == Pieces(c)
<1>2. PICK i \in DOMAIN s : p = s[i]
  BY <1>1
<1>3. /\ Len(D) \in Nat /\ DOMAIN D = 1..Len(D) /\ DOMAIN c.data = 1..Len(D)
      /\ Len(s) = Len(D) + 1 /\ DOMAIN s = 1..Len(s)
      /\ s[1].id = c.type /\ s[1].of = c.type /\ s[1].count = 1 /\ s[1].value.refs = c.refs
      /\ s[1] = [id |-> s[1].id, of |-> s[1].of, count |-> s[1].count, value |-> s[1].value]
      /\ \A k \in 1..Len(D) :
           s[k + 1] = [id |-> "AdditionalData", of |-> D[k],
                       count |-> Len(c.data[k].values), value |-> c.data[k].values]
  BY PiecesOfCommand
<1>4. c.type \in Types /\ c.refs \in Seq(Objects) /\ "AdditionalData" \notin Types
  BY CommandAssumption, SizeAssumption
<1>5. p.value \in Contents
  BY DEF Contents
<1>6. CASE i = 1
  BY <1>2, <1>3, <1>4, <1>5, <1>6 DEF RefsIn, Contents, Structures
<1>7. CASE i # 1
  <2>1. i - 1 \in 1..Len(D) /\ (i - 1) + 1 = i
    BY <1>2, <1>3, <1>7
  <2> DEFINE values == c.data[i - 1].values
  <2>2. p = [id |-> "AdditionalData", of |-> D[i - 1], count |-> Len(values), value |-> values]
    BY <1>2, <1>3, <2>1
  <2>3. /\ values \in Seq(IF D[i - 1] = "Ref" THEN Objects ELSE Nat)
        /\ D[i - 1] \in {"uint32", "Ref"}
    <3>1. D \in Seq({"uint32", "Ref"})
      BY SizeAssumption, <1>4
    <3>2. D[i - 1] \in {"uint32", "Ref"}
      BY <2>1, <3>1, ElementOfSeq
    <3>3. i - 1 \in DOMAIN c.data
      BY <1>3, <2>1
    <3>4. /\ values \in Seq(IF c.data[i - 1].of = "Ref" THEN Objects ELSE Nat)
          /\ c.data[i - 1].of = D[i - 1]
      BY <3>3, CommandAssumption
    <3>5. QED
      BY <3>2, <3>4
  <2> HIDE DEF values, D
  <2>4. Len(values) \in Nat /\ (Len(values) = 0 => values = <<>>)
    BY <2>3, LenProperties, EmptySeq
  <2>5. /\ p.id = "AdditionalData" /\ p.of = D[i - 1] /\ p.count = Len(values)
        /\ p.value = values
    BY <2>2
  <2>6. RefsIn(p) \in Seq(Objects)
    <3>1. CASE D[i - 1] = "Ref"
      BY <2>3, <2>5, <3>1 DEF RefsIn
    <3>2. CASE D[i - 1] # "Ref"
      BY <2>5, <3>2, EmptySeq DEF RefsIn
    <3>3. QED
      BY <3>1, <3>2
  <2>7. p = [id |-> p.id, of |-> p.of, count |-> p.count, value |-> p.value]
    BY <2>2, <2>5
  <2>8. QED
    BY <1>4, <1>5, <2>3, <2>4, <2>5, <2>6, <2>7 DEF Structures, Contents
<1>8. QED
  BY <1>6, <1>7

(* Commands come in whole: each is followed by its own data, then by the   *)
(* next one.                                                               *)
WellFormed(s) ==
  /\ s \in Seq(PieceSet)
  /\ Len(s) > 0 => s[1].id \in Types
  /\ \A i \in 1..Len(s) : s[i].id \in Types =>
       /\ i + Len(DataOf[s[i].id]) <= Len(s)
       /\ \A j \in 1..Len(DataOf[s[i].id]) :
            /\ s[i + j].id = "AdditionalData" /\ s[i + j].of = DataOf[s[i].id][j]
            /\ s[i + j].count = s[i].value.count
       /\ i + Len(DataOf[s[i].id]) < Len(s) => s[i + Len(DataOf[s[i].id]) + 1].id \in Types

(* They still do when one more is recorded.                                *)
LEMMA RecordKeepsWhole ==
  ASSUME NEW s, WellFormed(s), NEW c \in Commands
  PROVE  LET t == s \o Pieces(c)
         IN  /\ WellFormed(t) /\ Len(t) \in Nat /\ Len(t) > Len(s)
             /\ \A i \in 1..Len(s) : i \in 1..Len(t) /\ t[i] = s[i]
<1> DEFINE p == Pieces(c)
           t == s \o p
           D == DataOf[c.type]
           n == Len(s)
           m == Len(D)
<1>1. /\ m \in Nat /\ p \in Seq(PieceSet) /\ Len(p) = m + 1
      /\ p[1].id = c.type
      /\ \A k \in 1..m : p[k + 1].id = "AdditionalData" /\ p[k + 1].of = D[k]
                         /\ p[k + 1].count = p[1].value.count
  <2>1. /\ m \in Nat /\ p \in Seq(PieceSet) /\ Len(p) = m + 1 /\ p[1].id = c.type
        /\ \A k \in 1..m :
             /\ p[k + 1] = [id |-> "AdditionalData", of |-> D[k],
                            count |-> Len(c.data[k].values), value |-> c.data[k].values]
             /\ p[k + 1].count = p[1].value.count
    BY PiecesOfCommand
  <2> HIDE DEF p, m, D
  <2>2. ASSUME NEW k \in 1..m
        PROVE  /\ p[k + 1].id = "AdditionalData" /\ p[k + 1].of = D[k]
               /\ p[k + 1].count = p[1].value.count
    <3>1. /\ p[k + 1] = [id |-> "AdditionalData", of |-> D[k],
                         count |-> Len(c.data[k].values), value |-> c.data[k].values]
          /\ p[k + 1].count = p[1].value.count
      BY <2>1
    <3>2. p[k + 1].id = "AdditionalData" /\ p[k + 1].of = D[k]
      BY <3>1
    <3>3. QED
      BY <3>1, <3>2
  <2>3. m \in Nat /\ p \in Seq(PieceSet) /\ Len(p) = m + 1 /\ p[1].id = c.type
    BY <2>1
  <2>4. \A k \in 1..m : /\ p[k + 1].id = "AdditionalData" /\ p[k + 1].of = D[k]
                        /\ p[k + 1].count = p[1].value.count
    BY <2>2
  <2>5. QED
    BY <2>3, <2>4
<1>2. s \in Seq(PieceSet) /\ n \in Nat
  BY LenProperties DEF WellFormed
<1> HIDE DEF p
<1>3. /\ t \in Seq(PieceSet) /\ Len(t) = n + (m + 1)
      /\ \A i \in 1..n + (m + 1) : t[i] = IF i <= n THEN s[i] ELSE p[i - n]
  <2> HIDE DEF n, m, t
  <2>1. QED
    BY <1>1, <1>2, ConcatProperties DEF t, n
<1> HIDE DEF t
<1>4. c.type \in Types /\ "AdditionalData" \notin Types
      /\ \A type \in Types : Len(DataOf[type]) \in Nat
  <2>1. \A type \in Types : DataOf[type] \in Seq({"uint32", "Ref"})
    BY SizeAssumption
  <2>2. QED
    BY <2>1, SizeAssumption, CommandAssumption, LenProperties
<1> HIDE DEF n, m
<1>5. \A i \in 1..n : i \in 1..Len(t) /\ t[i] = s[i]
  BY <1>1, <1>2, <1>3
<1>6. t[n + 1] = p[1] /\ n + 1 \in 1..Len(t)
  <2>1. n + 1 \in 1..n + (m + 1) /\ ~ (n + 1 <= n) /\ (n + 1) - n = 1
    BY <1>1, <1>2
  <2>2. QED
    BY <1>3, <2>1
<1>7. \A k \in 1..m : t[n + 1 + k] = p[k + 1]
  <2>1. TAKE k \in 1..m
  <2>2. n + 1 + k \in 1..n + (m + 1) /\ ~ (n + 1 + k <= n) /\ (n + 1 + k) - n = k + 1
    BY <1>1, <1>2
  <2>3. QED
    BY <1>3, <2>2
<1>8. t[1].id \in Types
  <2>1. CASE n = 0
    BY <1>1, <1>4, <1>6, <2>1
  <2>2. CASE n > 0
    <3>1. 1 \in 1..n
      BY <1>2, <2>2
    <3>2. QED
      BY <1>5, <2>2, <3>1 DEF WellFormed, n
  <2>3. QED
    BY <1>2, <2>1, <2>2
<1>9. ASSUME NEW i \in 1..Len(t), t[i].id \in Types
      PROVE  /\ i + Len(DataOf[t[i].id]) <= Len(t)
             /\ \A j \in 1..Len(DataOf[t[i].id]) :
                  /\ t[i + j].id = "AdditionalData" /\ t[i + j].of = DataOf[t[i].id][j]
                  /\ t[i + j].count = t[i].value.count
             /\ i + Len(DataOf[t[i].id]) < Len(t) => t[i + Len(DataOf[t[i].id]) + 1].id \in Types
  <2>1. CASE i <= n
    <3> DEFINE l == Len(DataOf[s[i].id])
    <3>1. i \in 1..n /\ t[i] = s[i]
      BY <1>2, <1>5, <2>1
    <3>2. /\ i + l <= n
          /\ \A j \in 1..l : /\ s[i + j].id = "AdditionalData"
                             /\ s[i + j].of = DataOf[s[i].id][j]
                             /\ s[i + j].count = s[i].value.count
          /\ i + l < n => s[i + l + 1].id \in Types
      BY <1>9, <3>1 DEF WellFormed, n
    <3>3. l \in Nat
      BY <1>4, <1>9, <3>1
    <3> HIDE DEF l
    <3>4. \A j \in 1..l : i + j \in 1..n
      BY <1>2, <3>1, <3>2, <3>3
    <3>5. \A j \in 1..l : t[i + j] = s[i + j]
      BY <1>5, <3>4
    <3>6. i + l <= Len(t)
      BY <1>1, <1>2, <1>3, <3>1, <3>2, <3>3
    <3>7. t[i + l + 1].id \in Types
      <4>1. CASE i + l < n
        <5>1. i + l + 1 \in 1..n
          BY <1>2, <3>1, <3>3, <4>1
        <5>2. QED
          BY <1>5, <3>2, <4>1, <5>1
      <4>2. CASE i + l = n
        BY <1>1, <1>4, <1>6, <4>2
      <4>3. i + l < n \/ i + l = n
        BY <1>2, <3>1, <3>2, <3>3
      <4>4. QED
        BY <4>1, <4>2, <4>3
    <3>8. QED
      BY <3>1, <3>2, <3>5, <3>6, <3>7 DEF l
  <2>2. CASE i = n + 1
    <3>1. t[i].id = c.type /\ t[i] = p[1]
      BY <1>1, <1>6, <2>2
    <3>2. \A j \in 1..m : /\ t[i + j].id = "AdditionalData" /\ t[i + j].of = D[j]
                          /\ t[i + j].count = t[i].value.count
      BY <1>1, <1>7, <2>2, <3>1
    <3>3. i + m <= Len(t) /\ ~ (i + m < Len(t))
      BY <1>1, <1>2, <1>3, <2>2
    <3>4. QED
      BY <3>1, <3>2, <3>3 DEF m
  <2>3. CASE i > n + 1
    <3>1. i - n - 1 \in 1..m /\ n + 1 + (i - n - 1) = i
      <4>1. i \in 1..n + (m + 1) /\ m \in Nat
        BY <1>1, <1>3
      <4>2. QED
        BY <1>2, <2>3, <4>1
    <3>2. t[i].id = "AdditionalData"
      BY <1>1, <1>7, <3>1
    <3>3. QED
      BY <1>4, <1>9, <3>2
  <2>4. QED
    BY <1>2, <1>3, <1>1, <2>1, <2>2, <2>3
<1>10. WellFormed(t)
  BY <1>3, <1>8, <1>9 DEF WellFormed
<1>11. Len(t) \in Nat /\ Len(t) > n
  BY <1>1, <1>2, <1>3
<1>12. QED
  BY <1>5, <1>10, <1>11 DEF t, n, p

(* Aligning a pointer moves it forward by less than the alignment.         *)
LEMMA AlignFacts ==
  ASSUME NEW x \in Nat, NEW a \in {1, 4, 8}
  PROVE  /\ Align(x, a) \in Nat /\ x <= Align(x, a) /\ Align(x, a) < x + a
         /\ Align(x, 4) % 4 = 0 /\ Align(x, 4) \in Nat /\ x <= Align(x, 4)
         /\ x % 4 = 0 => Align(x, 4) = x
<1>1. CASE a = 1
  BY <1>1 DEF Align
<1>2. CASE a = 4
  BY <1>2 DEF Align
<1>3. CASE a = 8
  BY <1>3 DEF Align
<1>4. QED
  BY <1>1, <1>2, <1>3

(* Pointers of a piece: its id, its contents and the next id follow each   *)
(* other.                                                                  *)
LEMMA PointersOfPiece ==
  ASSUME NEW ptr \in Nat, NEW p \in PieceSet
  PROVE  /\ PieceSize(p) \in Nat /\ (p.count > 0 => PieceSize(p) > 0)
         /\ CommandPtr(ptr, p.of) \in Nat /\ ptr + 4 <= CommandPtr(ptr, p.of)
         /\ NextPtr(ptr, p) \in Nat /\ NextPtr(ptr, p) % 4 = 0
         /\ CommandPtr(ptr, p.of) + PieceSize(p) <= NextPtr(ptr, p)
<1>1. p.of \in Structures /\ p.count \in Nat
  BY PieceFacts
<1>2. SizeOf[p.of] \in Nat \ {0} /\ AlignOf[p.of] \in {1, 4, 8} /\ kId = 4
  BY <1>1, SizeAssumption DEF Structures
<1>3. PieceSize(p) \in Nat /\ (p.count > 0 => PieceSize(p) > 0)
  <2> DEFINE size == SizeOf[p.of]
             count == p.count
  <2>1. size \in Nat /\ size > 0 /\ count \in Nat
    BY <1>1, <1>2
  <2> HIDE DEF size, count
  <2>2. size * count \in Nat /\ (count > 0 => size * count > 0)
    BY <2>1
  <2>3. QED
    BY <2>2 DEF PieceSize, size, count
<1> DEFINE align == AlignOf[p.of]
<1>4. align \in {1, 4, 8} /\ ptr + kId = ptr + 4 /\ ptr + 4 \in Nat
  BY <1>2
<1>5. CommandPtr(ptr, p.of) = Align(ptr + 4, align)
  BY <1>4 DEF CommandPtr
<1> HIDE DEF align
<1>6. CommandPtr(ptr, p.of) \in Nat /\ ptr + 4 <= CommandPtr(ptr, p.of)
  BY <1>4, <1>5, AlignFacts
<1>7. CommandPtr(ptr, p.of) + PieceSize(p) \in Nat
  BY <1>3, <1>6
<1>8. NextPtr(ptr, p) = Align(CommandPtr(ptr, p.of) + PieceSize(p), 4)
  BY <1>2 DEF NextPtr
<1>9. /\ NextPtr(ptr, p) \in Nat /\ NextPtr(ptr, p) % 4 = 0
      /\ CommandPtr(ptr, p.of) + PieceSize(p) <= NextPtr(ptr, p)
  BY <1>7, <1>8, AlignFacts
<1>10. QED
  BY <1>3, <1>6, <1>9

(* A piece needs at most four bytes more at the start of a block than it   *)
(* needed where it did not fit.                                            *)
LEMMA FitsAtStart ==
  ASSUME NEW ptr \in Nat, ptr % 4 = 0, NEW p \in PieceSet
  PROVE  NextPtr(0, p) <= NextPtr(ptr, p) - ptr + 4
<1> DEFINE size == PieceSize(p)
           a == AlignOf[p.of]
<1>1. size \in Nat
  BY PointersOfPiece
<1>2. a \in {1, 4, 8} /\ kId = 4
  <2>1. p.of \in Structures
    BY PieceFacts
  <2>2. QED
    BY <2>1, SizeAssumption DEF Structures
<1>3. NextPtr(0, p) = Align(Align(4, a) + size, 4)
  BY <1>2 DEF NextPtr, CommandPtr
<1>4. NextPtr(ptr, p) = Align(Align(ptr + 4, a) + size, 4)
  BY <1>2 DEF NextPtr, CommandPtr
<1> HIDE DEF size, a
<1>5. CASE a \in {1, 4}
  <2>1. Align(4, a) = 4 /\ Align(ptr + 4, a) = ptr + 4
    BY <1>5 DEF Align
  <2>2. Align(4 + size, 4) <= Align(ptr + 4 + size, 4) - ptr + 4
    BY <1>1 DEF Align
  <2>3. QED
    BY <1>3, <1>4, <2>1, <2>2
<1>6. CASE a = 8
  <2>1. Align(4, a) = 8
    BY <1>6 DEF Align
  <2>2. Align(ptr + 4, a) \in Nat /\ ptr + 4 <= Align(ptr + 4, a)
    <3>1. ptr + 4 \in Nat
      OBVIOUS
    <3>2. QED
      BY <1>2, <3>1, AlignFacts
  <2> DEFINE start == Align(ptr + 4, a)
  <2> HIDE DEF start
  <2>3. start \in Nat /\ ptr + 4 <= start
    BY <2>2 DEF start
  <2>4. Align(8 + size, 4) <= Align(start + size, 4) - ptr + 4
    BY <1>1, <2>3 DEF Align
  <2>5. QED
    BY <1>3, <1>4, <2>1, <2>4 DEF start
<1>7. QED
  BY <1>2, <1>5, <1>6

(* The cells of a block are inside of it and apart from each other.        *)
Apart(cells, size) ==
  \A o \in DOMAIN cells :
    /\ o + cells[o].bytes <= size
    /\ \A q \in DOMAIN cells \ {o} : q < o \/ o + cells[o].bytes <= q

(* Cells are at offsets and have a size.                                   *)
LEMMA CellsAre ==
  ASSUME NEW cells \in CellSet
  PROVE  /\ DOMAIN cells \subseteq Nat
         /\ \A o \in DOMAIN cells : /\ o \in Nat /\ cells[o] \in Cell
                                    /\ cells[o].bytes \in Nat /\ cells[o].bytes > 0
<1>1. PICK offsets \in SUBSET Nat : cells \in [offsets -> Cell]
  BY DEF CellSet
<1>2. QED
  BY <1>1 DEF Cell

(* Writing behind what there is in a block.                                *)
LEMMA WriteAppends ==
  ASSUME NEW cells \in CellSet, NEW size \in Nat, Apart(cells, size),
         NEW at \in Nat, NEW cell \in Cell, at + cell.bytes <= size,
         \A o \in DOMAIN cells : o + cells[o].bytes <= at
  PROVE  LET new == WriteCell(cells, at, cell)
         IN  /\ new \in CellSet /\ Apart(new, size)
             /\ DOMAIN new = DOMAIN cells \cup {at} /\ new[at] = cell
             /\ \A o \in DOMAIN cells : new[o] = cells[o]
             /\ \A o \in DOMAIN new : o + new[o].bytes <= at + cell.bytes
<1> DEFINE new == WriteCell(cells, at, cell)
<1>1. cell.bytes \in Nat /\ cell.bytes > 0
  BY DEF Cell
<1>2. /\ DOMAIN cells \subseteq Nat /\ \A o \in DOMAIN cells : cells[o] \in Cell
      /\ \A o \in DOMAIN cells : cells[o].bytes \in Nat /\ cells[o].bytes > 0
      /\ cell.bytes \in Nat /\ cell.bytes > 0
  BY <1>1, CellsAre
<1>3. at \notin DOMAIN cells
  BY <1>2
<1>4. /\ DOMAIN new = DOMAIN cells \cup {at} /\ new[at] = cell
      /\ \A o \in DOMAIN cells : new[o] = cells[o]
  BY <1>3 DEF WriteCell
<1>5. new \in [DOMAIN cells \cup {at} -> Cell]
  BY <1>2 DEF WriteCell
<1>6. new \in CellSet
  <2>1. DOMAIN cells \cup {at} \in SUBSET Nat
    BY <1>2
  <2> HIDE DEF new
  <2>2. QED
    BY <1>5, <2>1 DEF CellSet
<1> HIDE DEF new
<1>7. \A o \in DOMAIN new : o + new[o].bytes <= at + cell.bytes
  <2>1. ASSUME NEW o \in DOMAIN cells
        PROVE  o + new[o].bytes <= at + cell.bytes
    BY <1>2, <1>4
  <2>2. at + new[at].bytes <= at + cell.bytes
    BY <1>2, <1>4
  <2>3. QED
    BY <1>4, <2>1, <2>2
<1>8. Apart(new, size)
  <2>1. ASSUME NEW o \in DOMAIN new
        PROVE  o + new[o].bytes <= size
    <3>1. o + new[o].bytes <= at + cell.bytes /\ o \in Nat /\ new[o].bytes \in Nat
      BY <1>2, <1>4, <1>7
    <3>2. QED
      BY <1>2, <3>1
  <2>2. ASSUME NEW o \in DOMAIN new, NEW q \in DOMAIN new \ {o}
        PROVE  q < o \/ o + new[o].bytes <= q
    <3>1. CASE o = at
      <4>1. q \in DOMAIN cells /\ q \in Nat /\ cells[q].bytes \in Nat /\ cells[q].bytes > 0
            /\ q + cells[q].bytes <= at
        BY <1>2, <1>4, <3>1
      <4>2. QED
        BY <3>1, <4>1
    <3>2. CASE o # at
      <4>1. o \in DOMAIN cells /\ new[o] = cells[o]
        BY <1>4, <3>2
      <4>2. CASE q = at
        BY <4>1, <4>2
      <4>3. CASE q # at
        <5>1. q \in DOMAIN cells \ {o}
          BY <1>4, <4>3
        <5>2. QED
          BY <4>1, <5>1 DEF Apart
      <4>4. QED
        BY <4>2, <4>3
    <3>3. QED
      BY <3>1, <3>2
  <2>3. QED
    BY <2>1, <2>2 DEF Apart
<1>9. QED
  BY <1>4, <1>6, <1>7, <1>8 DEF new

(* Other cells for the last block.                                         *)
LEMMA ReplaceInLast ==
  ASSUME NEW b \in Seq(Block), b # <<>>, NEW cells \in CellSet
  PROVE  LET n == Len(b)
             new == [b EXCEPT ![n].cells = cells]
         IN  /\ n \in Nat /\ n > 0 /\ new \in Seq(Block) /\ Len(new) = n
             /\ new[n].cells = cells /\ new[n].size = b[n].size
             /\ \A i \in 1..n : i # n => new[i] = b[i]
             /\ b[n].cells \in CellSet /\ b[n].size \in Nat
<1> DEFINE n == Len(b)
           new == [b EXCEPT ![n].cells = cells]
           last == [size |-> b[n].size, cells |-> cells]
<1>1. n \in Nat /\ n > 0 /\ n \in 1..n
  BY EmptySeq
<1>2. b[n] \in Block
  <2> HIDE DEF n
  <2>1. QED
    BY <1>1, ElementOfSeq DEF n
<1>3. last \in Block /\ last = [b[n] EXCEPT !.cells = cells]
  BY <1>2 DEF Block
<1>4. new = [b EXCEPT ![n] = last]
  BY <1>3
<1>5. b[n].cells \in CellSet /\ b[n].size \in Nat /\ last.cells = cells
      /\ last.size = b[n].size
  BY <1>2 DEF Block
<1> HIDE DEF new, last
<1>6. /\ new \in Seq(Block) /\ Len(new) = n
      /\ \A i \in 1..n : new[i] = IF i = n THEN last ELSE b[i]
  <2> HIDE DEF n
  <2>1. n = Len(b)
    BY DEF n
  <2>2. QED
    BY <1>1, <1>3, <1>4, <2>1, ExceptSeq
<1>7. QED
  BY <1>1, <1>5, <1>6 DEF new

(* What a cell holds, and where pieces are: the id, the contents unless    *)
(* there are none, and then the next piece or the end of the block.        *)
CellIs(b, i, o, holds, value) ==
  /\ i \in 1..Len(b) /\ o \in DOMAIN b[i].cells
  /\ b[i].cells[o].holds = holds /\ b[i].cells[o].value = value
Tagged(b, i, o) == CellIs(b, i, o, "id", "EndOfBlock")
Stored(b, place, p) ==
  /\ CellIs(b, place.block, place.at, "id", p.id)
  /\ p.count > 0 => CellIs(b, place.block, CommandPtr(place.at, p.of), "piece", p.value)
After(place, p) == NextPtr(place.at, p)
NextIs(b, place, p, next) ==
  \/ next = [block |-> place.block, at |-> After(place, p)]
  \/ next = [block |-> place.block + 1, at |-> 0] /\ Tagged(b, place.block, After(place, p))
Place == [block : Nat, at : Nat]
Placed(b, s, places) ==
  /\ places \in Seq(Place) /\ Len(places) <= Len(s)
  /\ \A i \in 1..Len(places) : places[i].at % 4 = 0 /\ Stored(b, places[i], s[i])
  /\ \A i \in 1..Len(places) :
       i < Len(places) => NextIs(b, places[i], s[i], places[i + 1])
  /\ Len(places) > 0 => places[1] = [block |-> 1, at |-> 0]

(* Nothing that was written is lost.                                       *)
BlocksGrow(a, b) ==
  /\ Len(a) \in Nat /\ Len(b) \in Nat /\ Len(a) <= Len(b)
  /\ \A i \in 1..Len(a) : \A o \in DOMAIN a[i].cells :
       o \in DOMAIN b[i].cells /\ b[i].cells[o] = a[i].cells[o]

(* What has a place keeps it.                                              *)
LEMMA PlacesStay ==
  ASSUME NEW a, NEW b, BlocksGrow(a, b), NEW s, NEW t, NEW places, Placed(a, s, places),
         Len(s) \in Nat, Len(t) \in Nat, Len(s) <= Len(t), \A i \in 1..Len(s) : t[i] = s[i]
  PROVE  Placed(b, t, places)
<1>1. \A i, o, holds, value : CellIs(a, i, o, holds, value) => CellIs(b, i, o, holds, value)
  BY DEF BlocksGrow, CellIs
<1>2. \A place, p : Stored(a, place, p) => Stored(b, place, p)
  BY <1>1 DEF Stored
<1>3. \A place, p, next : NextIs(a, place, p, next) => NextIs(b, place, p, next)
  BY <1>1 DEF NextIs, Tagged
<1>4. Len(places) \in Nat /\ Len(places) <= Len(s) /\ places \in Seq(Place)
  BY LenProperties DEF Placed
<1>5. \A i \in 1..Len(places) : t[i] = s[i]
  BY <1>4
<1>6. QED
  BY <1>2, <1>3, <1>4, <1>5 DEF Placed

(* Where the allocator is while commands are recorded: behind all that it  *)
(* wrote, or at the start of a block that was made for the next piece.     *)
AllocatorAt(places) ==
  LET n == Len(mBlocks)
      cells == mBlocks[n].cells
  IN  /\ mCurrentPtr % 4 = 0 /\ mCurrentPtr + 4 <= mEndPtr
      /\ mBlocks = <<>> => allocated = 0 /\ mEndPtr = mCurrentPtr + 4
      /\ mBlocks # <<>> =>
           /\ mEndPtr = mBlocks[n].size
           /\ \A o \in DOMAIN cells : o + cells[o].bytes <= mCurrentPtr
           /\ DOMAIN cells = {} =>
                /\ mCurrentPtr = 0 /\ Pending /\ Fits(NextPiece)
                /\ allocated = 0 => n = 1
                /\ allocated > 0 =>
                     /\ n = places[allocated].block + 1
                     /\ Tagged(mBlocks, places[allocated].block,
                               After(places[allocated], asked[allocated]))
           /\ DOMAIN cells # {} =>
                /\ allocated > 0 /\ places[allocated].block = n
                /\ After(places[allocated], asked[allocated]) = mCurrentPtr

(* The blocks once the iterator has them.                                  *)
Closed(places) ==
  /\ allocated = Len(asked)
  /\ mBlocks = <<>> => allocated = 0
  /\ mBlocks # <<>> =>
       /\ allocated > 0 /\ places[allocated].block = Len(mBlocks)
       /\ Tagged(mBlocks, Len(mBlocks), After(places[allocated], asked[allocated]))

(* Where the iterator is when it has read r pieces: at the next one, or at *)
(* the end of the block of the last one.                                   *)
AtPiece(places, r) ==
  r < allocated /\ mCurrentBlock = places[r + 1].block /\ IdPtr = places[r + 1].at
AtTag(places, r) ==
  /\ r > 0 /\ mCurrentBlock = places[r].block
  /\ IdPtr = After(places[r], asked[r]) /\ Tagged(mBlocks, mCurrentBlock, IdPtr)
  /\ r = allocated => mCurrentBlock = Len(mBlocks)
  /\ r < allocated => places[r + 1] = [block |-> mCurrentBlock + 1, at |-> 0]
ReaderAt(places, r) ==
  /\ mCurrentBlock \in Nat /\ readPtr \in Nat
  /\ mBlocks # <<>> => AtPiece(places, r) \/ AtTag(places, r)

(* The data that it expects is the data that comes.                        *)
Expects(r) ==
  LET n == Len(reading)
  IN  /\ reading \in Seq([of : Structures, count : Nat]) /\ r + n <= Len(asked)
      /\ \A j \in 1..n : /\ asked[r + j].id = "AdditionalData"
                         /\ asked[r + j].of = reading[j].of
                         /\ asked[r + j].count = reading[j].count
      /\ r + n < Len(asked) => asked[r + n + 1].id \in Types

(* References that commands have taken and not given back.                 *)
FirstHeld == IF stage \in {"freeing", "freed"} THEN Len(seen) + 1 ELSE 1
Counted ==
  /\ references = [o \in Objects |-> references[o]]
  /\ \A o \in Objects :
       /\ IsFiniteSet(PlacesOf(o, 1..allocated))
       /\ references[o] = Cardinality(PlacesOf(o, FirstHeld..allocated))

HolderInv ==
  /\ stage \in {"recording", "validating", "refused", "ready", "executing", "freeing", "freed",
                "crashed"}
  /\ stage \in {"recording", "validating", "refused", "crashed"} => holder = "builder"
  /\ stage \in {"ready", "executing"} => holder = "buffer"
  /\ stage \in {"freeing", "freed"} => /\ holder \in {"builder", "nobody"}
                                       /\ holder = "builder" => ~builderAlive
MemoryInv ==
  /\ WellFormed(asked) /\ allocated \in 0..Len(asked)
  /\ mBlocks \in Seq(Block) /\ mCurrentPtr \in Nat /\ mEndPtr \in Nat
  /\ mLastAllocationSize \in Nat
  /\ \A i \in 1..Len(mBlocks) : Apart(mBlocks[i].cells, mBlocks[i].size)
  /\ stage = "crashed" /\ mBlocks # <<>> => DOMAIN mBlocks[Len(mBlocks)].cells # {}
PlacesInv ==
  stage # "crashed" =>
    \E places :
      /\ Placed(mBlocks, asked, places) /\ Len(places) = allocated
      /\ stage = "recording" => AllocatorAt(places)
      /\ stage # "recording" => Closed(places)
      /\ Iterating => ReaderAt(places, Len(seen))
ReadInv ==
  /\ seen \in Seq(PieceSet) /\ Len(seen) <= allocated
  /\ \A k \in 1..Len(seen) : seen[k] = asked[k]
  /\ Iterating => Expects(Len(seen))
  /\ stage = "ready" => mCurrentBlock = 1 /\ readPtr = 0 /\ reading = <<>>
  /\ stage \in {"ready", "freed"} => Len(seen) = Len(asked)
CommandInv == HolderInv /\ MemoryInv /\ PlacesInv /\ ReadInv /\ Counted

(* A new list of commands.                                                 *)
LEMMA CommandInvInit == CommandInit => CommandInv
<1> SUFFICES ASSUME CommandInit
             PROVE  CommandInv
  OBVIOUS
<1> USE DEF CommandInit
<1>1. HolderInv
  BY DEF HolderInv
<1>2. \A S : <<>> \in Seq(S) /\ Len(<<>>) = 0
  BY EmptySeq
<1>3. kId = 4 /\ kFirstBlock \in Nat
  BY SizeAssumption
<1>4. MemoryInv
  BY <1>2, <1>3 DEF MemoryInv, WellFormed
<1>5. PlacesInv
  <2> DEFINE places == <<>>
  <2>1. Placed(mBlocks, asked, places) /\ Len(places) = allocated
    BY <1>2 DEF Placed
  <2>2. AllocatorAt(places)
    BY <1>3 DEF AllocatorAt
  <2> HIDE DEF places
  <2>3. QED
    BY <2>1, <2>2 DEF PlacesInv, Iterating
<1>6. ReadInv
  BY <1>2 DEF ReadInv, Iterating
<1>7. Counted
  <2>1. ASSUME NEW o \in Objects
        PROVE  PlacesOf(o, 1..0) = {}
    BY DEF PlacesOf
  <2>2. QED
    BY <2>1, FS_EmptySet DEF Counted, FirstHeld
<1>8. QED
  BY <1>1, <1>4, <1>5, <1>6, <1>7 DEF CommandInv

(* The references of one more piece.                                       *)
LEMMA OnePieceMore ==
  ASSUME NEW o \in Objects, NEW pieces, NEW n, n \notin pieces, asked[n] \in PieceSet,
         IsFiniteSet(PlacesOf(o, pieces))
  PROVE  /\ IsFiniteSet(PlacesOf(o, pieces \cup {n}))
         /\ Cardinality(PlacesOf(o, pieces)) \in Nat
         /\ References(asked[n])[o] \in Nat
         /\ Cardinality(PlacesOf(o, pieces \cup {n})) =
              Cardinality(PlacesOf(o, pieces)) + References(asked[n])[o]
<1> DEFINE K == {k \in DOMAIN RefsIn(asked[n]) : RefsIn(asked[n])[k] = o}
           Old == PlacesOf(o, pieces)
           More == {n} \X K
<1>1. IsFiniteSet(K)
  <2>1. RefsIn(asked[n]) \in Seq(Objects)
    BY PieceFacts
  <2>2. DOMAIN RefsIn(asked[n]) = 1..Len(RefsIn(asked[n])) /\ Len(RefsIn(asked[n])) \in Nat
    BY <2>1, LenProperties
  <2>3. IsFiniteSet(1..Len(RefsIn(asked[n])))
    BY <2>2, FS_Interval
  <2>4. K \in SUBSET (1..Len(RefsIn(asked[n])))
    BY <2>2
  <2> HIDE DEF K
  <2>5. QED
    BY <2>3, <2>4, FS_Subset
<1>2. PlacesOf(o, pieces \cup {n}) = Old \cup More
  BY DEF PlacesOf
<1>3. Old \cap More = {}
  BY DEF PlacesOf
<1>4. References(asked[n])[o] = Cardinality(K)
  BY DEF References
<1> HIDE DEF K, Old
<1>5. Cardinality(K) \in Nat
  BY <1>1, FS_CardinalityType
<1>6. IsFiniteSet({n}) /\ Cardinality({n}) = 1
  BY FS_Singleton
<1>7. IsFiniteSet(More) /\ Cardinality(More) = Cardinality({n}) * Cardinality(K)
  BY <1>1, <1>6, FS_Product
<1> HIDE DEF More
<1>8. Cardinality(More) = Cardinality(K)
  BY <1>5, <1>6, <1>7
<1>9. IsFiniteSet(Old) /\ Cardinality(Old) \in Nat
  BY FS_CardinalityType DEF Old
<1>10. IsFiniteSet(Old \cup More)
       /\ Cardinality(Old \cup More) =
            Cardinality(Old) + Cardinality(More) - Cardinality(Old \cap More)
  BY <1>7, <1>9, FS_Union
<1>11. Cardinality(Old \cap More) = 0
  BY <1>3, FS_EmptySet
<1>12. Cardinality(Old \cup More) = Cardinality(Old) + Cardinality(K)
  BY <1>5, <1>8, <1>9, <1>10, <1>11
<1>13. QED
  BY <1>2, <1>4, <1>5, <1>9, <1>10, <1>12 DEF Old

(* Blocks that stay as they are.                                           *)
LEMMA BlocksStay ==
  ASSUME NEW b \in Seq(Block)
  PROVE  BlocksGrow(b, b) /\ Len(b) \in Nat
BY LenProperties DEF BlocksGrow

(* A command is recorded: its pieces are asked for.                        *)
LEMMA RecordKeeps ==
  ASSUME CommandInv, NEW c \in Commands, Record(c)
  PROVE  CommandInv'
<1>1. /\ stage = "recording" /\ ~Pending /\ asked' = asked \o Pieces(c)
      /\ UNCHANGED <<stage, holder, builderAlive, mBlocks, mCurrentPtr, mEndPtr,
                     mLastAllocationSize, allocated, mCurrentBlock, readPtr, reading, seen, reads,
                     references>>
  BY DEF Record, iterator
<1>2. HolderInv /\ MemoryInv /\ PlacesInv /\ ReadInv /\ Counted
  BY DEF CommandInv
<1>3. WellFormed(asked) /\ Len(asked) \in Nat /\ allocated = Len(asked)
  BY <1>1, <1>2, LenProperties DEF MemoryInv, WellFormed, Pending
<1>4. /\ WellFormed(asked') /\ Len(asked') \in Nat /\ Len(asked') > Len(asked)
      /\ \A i \in 1..Len(asked) : i \in 1..Len(asked') /\ asked'[i] = asked[i]
  BY <1>1, <1>3, RecordKeepsWhole
<1>5. HolderInv'
  BY <1>1, <1>2 DEF HolderInv
<1>6. MemoryInv'
  BY <1>1, <1>2, <1>3, <1>4 DEF MemoryInv
<1>7. PlacesInv'
  <2>1. PICK places : Placed(mBlocks, asked, places) /\ Len(places) = allocated
                      /\ AllocatorAt(places)
    BY <1>1, <1>2 DEF PlacesInv
  <2>2. Placed(mBlocks, asked', places)
    <3>1. BlocksGrow(mBlocks, mBlocks)
      BY <1>2, BlocksStay DEF MemoryInv
    <3>2. QED
      BY <1>3, <1>4, <2>1, <3>1, PlacesStay
  <2>3. AllocatorAt(places)'
    <3>1. allocated > 0 => asked'[allocated] = asked[allocated]
      BY <1>3, <1>4
    <3>2. QED
      BY <1>1, <2>1, <3>1 DEF AllocatorAt
  <2>4. ~Iterating'
    BY <1>1 DEF Iterating
  <2>5. QED
    BY <1>1, <2>1, <2>2, <2>3, <2>4 DEF PlacesInv
<1>8. ReadInv'
  <2>1. ~Iterating' /\ stage' = "recording"
    BY <1>1 DEF Iterating
  <2>2. \A k \in 1..Len(seen) : k \in 1..Len(asked)
    BY <1>2, <1>3, LenProperties DEF ReadInv
  <2>3. QED
    BY <1>1, <1>2, <1>4, <2>1, <2>2 DEF ReadInv
<1>9. Counted'
  <2>1. FirstHeld' = 1 /\ FirstHeld = 1
    BY <1>1 DEF FirstHeld
  <2>2. \A o \in Objects : PlacesOf(o, 1..allocated)' = PlacesOf(o, 1..allocated)
    BY <1>1, <1>3, <1>4 DEF PlacesOf
  <2>3. QED
    BY <1>1, <1>2, <2>1, <2>2 DEF Counted
<1>10. QED
  BY <1>5, <1>6, <1>7, <1>8, <1>9 DEF CommandInv

(* What Allocate writes of a piece that fits.                              *)
LEMMA PieceIsWritten ==
  ASSUME NEW cells \in CellSet, NEW size \in Nat, Apart(cells, size), NEW p \in PieceSet,
         NEW ptr \in Nat, NextPtr(ptr, p) + 4 <= size,
         \A o \in DOMAIN cells : o + cells[o].bytes <= ptr,
         NEW withId, withId = WriteCell(cells, ptr, Id(p.id)),
         NEW piece, piece = [holds |-> "piece", bytes |-> PieceSize(p), value |-> p.value],
         NEW new, new = IF p.count = 0 THEN withId
                        ELSE WriteCell(withId, CommandPtr(ptr, p.of), piece)
  PROVE  /\ new \in CellSet /\ Apart(new, size)
         /\ \A o \in DOMAIN cells : o \in DOMAIN new /\ new[o] = cells[o]
         /\ ptr \in DOMAIN new /\ new[ptr].holds = "id" /\ new[ptr].value = p.id
         /\ p.count > 0 =>
              /\ CommandPtr(ptr, p.of) \in DOMAIN new
              /\ new[CommandPtr(ptr, p.of)].holds = "piece"
              /\ new[CommandPtr(ptr, p.of)].value = p.value
         /\ \A o \in DOMAIN new : o + new[o].bytes <= NextPtr(ptr, p)
<1> DEFINE id == Id(p.id)
           start == CommandPtr(ptr, p.of)
           next == NextPtr(ptr, p)
           full == WriteCell(withId, start, piece)
<1>1. p.id \in Contents /\ p.value \in Contents /\ p.count \in Nat /\ kId = 4
  BY PieceFacts, SizeAssumption
<1>2. /\ PieceSize(p) \in Nat /\ (p.count > 0 => PieceSize(p) > 0)
      /\ start \in Nat /\ ptr + 4 <= start /\ next \in Nat /\ start + PieceSize(p) <= next
  BY PointersOfPiece
<1>3. id \in Cell /\ id.bytes = 4 /\ id.holds = "id" /\ id.value = p.id
  BY <1>1 DEF Id, Cell
<1>4. p.count > 0 => piece \in Cell /\ piece.bytes = PieceSize(p) /\ piece.holds = "piece"
                     /\ piece.value = p.value
  BY <1>1, <1>2 DEF Cell
<1> HIDE DEF id, start, next
<1>5. ptr + 4 <= next /\ next <= size /\ ptr + id.bytes <= size
  BY <1>2, <1>3 DEF next
<1>6. /\ withId \in CellSet /\ Apart(withId, size)
      /\ DOMAIN withId = DOMAIN cells \cup {ptr} /\ withId[ptr] = id
      /\ \A o \in DOMAIN cells : withId[o] = cells[o]
      /\ \A o \in DOMAIN withId : o + withId[o].bytes <= ptr + id.bytes
  <2>1. withId = WriteCell(cells, ptr, id)
    BY DEF id
  <2> DEFINE written == WriteCell(cells, ptr, id)
  <2>2. /\ written \in CellSet /\ Apart(written, size)
        /\ DOMAIN written = DOMAIN cells \cup {ptr} /\ written[ptr] = id
        /\ \A o \in DOMAIN cells : written[o] = cells[o]
        /\ \A o \in DOMAIN written : o + written[o].bytes <= ptr + id.bytes
    BY <1>3, <1>5, WriteAppends
  <2> HIDE DEF written
  <2>3. withId = written
    BY <2>1 DEF written
  <2>4. QED
    BY <2>2, <2>3
<1>7. \A o \in DOMAIN withId : o \in Nat /\ withId[o].bytes \in Nat
  BY <1>6, CellsAre
<1>8. CASE p.count = 0
  <2>1. new = withId
    BY <1>8
  <2>2. \A o \in DOMAIN withId : o + withId[o].bytes <= next
    BY <1>3, <1>5, <1>6, <1>7, <1>2
  <2>3. QED
    BY <1>3, <1>6, <1>8, <2>1, <2>2 DEF start, next
<1>9. CASE p.count # 0
  <2>1. p.count > 0
    BY <1>1, <1>9
  <2>2. start + piece.bytes <= size /\ piece \in Cell /\ start \in Nat /\ piece.bytes \in Nat
        /\ start + piece.bytes <= next /\ size \in Nat
    BY <1>2, <1>4, <1>5, <2>1
  <2>3. \A o \in DOMAIN withId : o + withId[o].bytes <= start
    BY <1>2, <1>3, <1>6, <1>7
  <2>4. /\ full \in CellSet /\ Apart(full, size)
        /\ DOMAIN full = DOMAIN withId \cup {start} /\ full[start] = piece
        /\ \A o \in DOMAIN withId : full[o] = withId[o]
        /\ \A o \in DOMAIN full : o + full[o].bytes <= start + piece.bytes
    BY ONLY <1>6, <2>2, <2>3, WriteAppends
  <2> HIDE DEF full
  <2>5. \A o \in DOMAIN full : o + full[o].bytes <= next
    <3>1. \A o \in DOMAIN full : o \in Nat /\ full[o].bytes \in Nat
      BY <2>4, CellsAre
    <3>2. QED
      BY <2>2, <2>4, <3>1, <1>2
  <2>6. new = full
    BY <1>9 DEF full, start
  <2>7. QED
    BY <1>3, <1>4, <1>6, <2>1, <2>4, <2>5, <2>6 DEF start, next
<1>10. QED
  BY <1>8, <1>9

(* The next piece is one, and where the allocator is there is a block if   *)
(* it fits.                                                                *)
LEMMA NextPieceFacts ==
  ASSUME CommandInv, Pending
  PROVE  /\ NextPiece \in PieceSet /\ allocated + 1 \in 1..Len(asked) /\ Len(asked) \in Nat
         /\ stage = "recording" /\ Fits(NextPiece) => mBlocks # <<>>
<1>1. MemoryInv /\ PlacesInv /\ kId = 4
  BY SizeAssumption DEF CommandInv
<1>2. /\ asked \in Seq(PieceSet) /\ Len(asked) \in Nat /\ allocated \in Nat
      /\ allocated < Len(asked) /\ mCurrentPtr \in Nat
  BY <1>1, LenProperties DEF MemoryInv, WellFormed, Pending
<1>3. allocated + 1 \in 1..Len(asked)
  BY <1>2
<1>4. NextPiece \in PieceSet
  BY <1>2, <1>3, ElementOfSeq DEF NextPiece
<1>5. ASSUME stage = "recording", Fits(NextPiece), mBlocks = <<>>
      PROVE  FALSE
  <2>1. mEndPtr = mCurrentPtr + 4
    BY <1>1, <1>5 DEF PlacesInv, AllocatorAt
  <2> DEFINE p == NextPiece
  <2>2. p \in PieceSet
    BY <1>4
  <2>3. NextPtr(mCurrentPtr, p) + 4 <= mCurrentPtr + 4
    BY <1>1, <1>5, <2>1 DEF Fits
  <2> HIDE DEF p
  <2>4. /\ NextPtr(mCurrentPtr, p) \in Nat /\ CommandPtr(mCurrentPtr, p.of) \in Nat
        /\ mCurrentPtr + 4 <= CommandPtr(mCurrentPtr, p.of) /\ PieceSize(p) \in Nat
        /\ CommandPtr(mCurrentPtr, p.of) + PieceSize(p) <= NextPtr(mCurrentPtr, p)
    BY <1>2, <2>2, PointersOfPiece
  <2>5. QED
    BY <1>2, <2>3, <2>4
<1>6. QED
  BY <1>2, <1>3, <1>4, <1>5

(* A piece has a place behind the others.                                  *)
LEMMA PlaceMore ==
  ASSUME NEW b, NEW s, NEW places, Placed(b, s, places), NEW place \in Place,
         Len(s) \in Nat, Len(places) < Len(s), place.at % 4 = 0,
         Stored(b, place, s[Len(places) + 1]),
         Len(places) = 0 => place = [block |-> 1, at |-> 0],
         Len(places) > 0 => NextIs(b, places[Len(places)], s[Len(places)], place)
  PROVE  LET more == Append(places, place)
         IN  /\ Placed(b, s, more) /\ Len(more) = Len(places) + 1
             /\ more[Len(places) + 1] = place
<1> DEFINE more == Append(places, place)
           n == Len(places)
<1>1. places \in Seq(Place) /\ n \in Nat
  BY LenProperties DEF Placed
<1>2. /\ more \in Seq(Place) /\ Len(more) = n + 1
      /\ \A i \in 1..n : more[i] = places[i]
      /\ more[n + 1] = place
  <2> HIDE DEF n
  <2>1. QED
    BY <1>1, AppendProperties DEF n
<1> HIDE DEF more
<1>3. \A i \in 1..Len(more) : i \in 1..n \/ i = n + 1
  BY <1>1, <1>2
<1>4. \A i \in 1..Len(more) : more[i].at % 4 = 0 /\ Stored(b, more[i], s[i])
  <2>1. \A i \in 1..n : places[i].at % 4 = 0 /\ Stored(b, places[i], s[i])
    BY DEF Placed
  <2>2. QED
    BY <1>2, <1>3, <2>1
<1>5. ASSUME NEW i \in 1..Len(more), i < Len(more)
      PROVE  NextIs(b, more[i], s[i], more[i + 1])
  <2>1. i \in 1..n
    BY <1>1, <1>2, <1>5
  <2>2. CASE i < n
    <3>1. i + 1 \in 1..n
      BY <1>1, <2>1, <2>2
    <3>2. NextIs(b, places[i], s[i], places[i + 1])
      BY <2>1, <2>2 DEF Placed
    <3>3. QED
      BY <1>2, <2>1, <3>1, <3>2
  <2>3. CASE i = n
    BY <1>1, <1>2, <2>1, <2>3
  <2>4. QED
    BY <1>1, <2>1, <2>2, <2>3
<1>6. more[1] = [block |-> 1, at |-> 0]
  <2>1. CASE n = 0
    BY <1>2, <2>1
  <2>2. CASE n > 0
    BY <1>1, <1>2, <2>2 DEF Placed
  <2>3. QED
    BY <1>1, <2>1, <2>2
<1>7. Len(more) <= Len(s)
  BY <1>1, <1>2
<1>8. QED
  BY <1>2, <1>4, <1>5, <1>6, <1>7 DEF Placed, more

(* A block with more in it than before.                                    *)
LEMMA LastGrows ==
  ASSUME NEW b \in Seq(Block), b # <<>>, NEW cells \in CellSet,
         \A i \in 1..Len(b) : Apart(b[i].cells, b[i].size), Apart(cells, b[Len(b)].size),
         \A o \in DOMAIN b[Len(b)].cells : o \in DOMAIN cells /\ cells[o] = b[Len(b)].cells[o]
  PROVE  LET n == Len(b)
             new == [b EXCEPT ![n].cells = cells]
         IN  /\ n \in Nat /\ n > 0 /\ n \in 1..n /\ new \in Seq(Block) /\ Len(new) = n
             /\ new[n].cells = cells /\ new[n].size = b[n].size
             /\ \A i \in 1..n : Apart(new[i].cells, new[i].size)
             /\ BlocksGrow(b, new) /\ new # <<>>
<1> DEFINE n == Len(b)
           new == [b EXCEPT ![n].cells = cells]
<1>1. /\ n \in Nat /\ n > 0 /\ new \in Seq(Block) /\ Len(new) = n
      /\ new[n].cells = cells /\ new[n].size = b[n].size
      /\ \A i \in 1..n : i # n => new[i] = b[i]
  BY ReplaceInLast
<1> HIDE DEF new
<1>2. \A i \in 1..n : Apart(new[i].cells, new[i].size)
  <2>1. TAKE i \in 1..n
  <2>2. CASE i = n
    BY <1>1, <2>2
  <2>3. CASE i # n
    BY <1>1, <2>3
  <2>4. QED
    BY <2>2, <2>3
<1>3. BlocksGrow(b, new)
  <2>1. ASSUME NEW i \in 1..n, NEW o \in DOMAIN b[i].cells
        PROVE  o \in DOMAIN new[i].cells /\ new[i].cells[o] = b[i].cells[o]
    <3>1. CASE i = n
      BY <1>1, <3>1
    <3>2. CASE i # n
      BY <1>1, <3>2
    <3>3. QED
      BY <3>1, <3>2
  <2>2. QED
    BY <1>1, <2>1 DEF BlocksGrow
<1>4. new # <<>>
  BY <1>1, EmptySeq
<1>5. QED
  BY <1>1, <1>2, <1>3, <1>4 DEF new

(* A piece is allocated, in the last block.                                *)
LEMMA AllocateKeeps ==
  ASSUME CommandInv, AllocatePiece
  PROVE  CommandInv'
<1> DEFINE p == NextPiece
           n == Len(mBlocks)
           cells == mBlocks[n].cells
           size == mBlocks[n].size
           withId == WriteCell(cells, mCurrentPtr, Id(p.id))
           piece == [holds |-> "piece", bytes |-> PieceSize(p), value |-> p.value]
           new == IF p.count = 0 THEN withId
                  ELSE WriteCell(withId, CommandPtr(mCurrentPtr, p.of), piece)
           place == [block |-> n, at |-> mCurrentPtr]
<1>1. /\ stage = "recording" /\ Pending /\ Fits(p)
      /\ mBlocks' = [mBlocks EXCEPT ![n].cells = new]
      /\ mCurrentPtr' = NextPtr(mCurrentPtr, p)
      /\ references' = Plus(references, References(p))
      /\ allocated' = allocated + 1
      /\ UNCHANGED <<stage, holder, builderAlive, mEndPtr, mLastAllocationSize, asked,
                     mCurrentBlock, readPtr, reading, seen, reads>>
  BY DEF AllocatePiece, iterator
<1>2. HolderInv /\ MemoryInv /\ PlacesInv /\ ReadInv /\ Counted /\ kId = 4
  BY SizeAssumption DEF CommandInv
<1>3. /\ p \in PieceSet /\ allocated + 1 \in 1..Len(asked) /\ Len(asked) \in Nat
      /\ mBlocks # <<>>
  BY <1>1, NextPieceFacts
<1>4. PICK places : Placed(mBlocks, asked, places) /\ Len(places) = allocated
                    /\ AllocatorAt(places)
  BY <1>1, <1>2 DEF PlacesInv
<1>5. /\ mBlocks \in Seq(Block) /\ mCurrentPtr \in Nat /\ mEndPtr \in Nat /\ allocated \in Nat
      /\ \A i \in 1..n : Apart(mBlocks[i].cells, mBlocks[i].size)
  BY <1>2 DEF MemoryInv
<1>6. /\ cells \in CellSet /\ size \in Nat /\ n \in Nat /\ n > 0 /\ Apart(cells, size)
  <2>1. {} \in SUBSET Nat /\ [o \in {} |-> 0] \in [{} -> Cell]
    OBVIOUS
  <2>2. [o \in {} |-> 0] \in CellSet
    BY <2>1 DEF CellSet
  <2>3. cells \in CellSet /\ size \in Nat /\ n \in Nat /\ n > 0
    BY <1>3, <1>5, <2>2, ReplaceInLast
  <2>4. QED
    BY <1>5, <2>3
<1>7. /\ mEndPtr = size /\ mCurrentPtr % 4 = 0
      /\ \A o \in DOMAIN cells : o + cells[o].bytes <= mCurrentPtr
  BY <1>3, <1>4 DEF AllocatorAt
<1>8. NextPtr(mCurrentPtr, p) + 4 <= size
  BY <1>1, <1>2, <1>7 DEF Fits
<1>9. /\ new \in CellSet /\ Apart(new, size)
      /\ \A o \in DOMAIN cells : o \in DOMAIN new /\ new[o] = cells[o]
      /\ mCurrentPtr \in DOMAIN new /\ new[mCurrentPtr].holds = "id"
      /\ new[mCurrentPtr].value = p.id
      /\ p.count > 0 =>
           /\ CommandPtr(mCurrentPtr, p.of) \in DOMAIN new
           /\ new[CommandPtr(mCurrentPtr, p.of)].holds = "piece"
           /\ new[CommandPtr(mCurrentPtr, p.of)].value = p.value
      /\ \A o \in DOMAIN new : o + new[o].bytes <= NextPtr(mCurrentPtr, p)
  <2>1. /\ p \in PieceSet /\ mCurrentPtr \in Nat /\ cells \in CellSet /\ size \in Nat
        /\ Apart(cells, size) /\ NextPtr(mCurrentPtr, p) + 4 <= size
        /\ \A o \in DOMAIN cells : o + cells[o].bytes <= mCurrentPtr
    BY <1>3, <1>5, <1>6, <1>7, <1>8
  <2>2. /\ withId = WriteCell(cells, mCurrentPtr, Id(p.id))
        /\ piece = [holds |-> "piece", bytes |-> PieceSize(p), value |-> p.value]
        /\ new = IF p.count = 0 THEN withId
                 ELSE WriteCell(withId, CommandPtr(mCurrentPtr, p.of), piece)
    OBVIOUS
  <2> HIDE DEF cells, size, p, withId, piece, new
  <2>3. QED
    BY <2>1, <2>2, PieceIsWritten
<1>10. NextPtr(mCurrentPtr, p) \in Nat /\ NextPtr(mCurrentPtr, p) % 4 = 0
  <2> HIDE DEF p
  <2>1. QED
    BY <1>3, <1>5, PointersOfPiece
<1> HIDE DEF new
<1>11. /\ mBlocks' \in Seq(Block) /\ Len(mBlocks') = n /\ n \in 1..n
       /\ mBlocks'[n].cells = new /\ mBlocks'[n].size = size
       /\ \A i \in 1..n : Apart(mBlocks'[i].cells, mBlocks'[i].size)
       /\ BlocksGrow(mBlocks, mBlocks') /\ mBlocks' # <<>>
  BY <1>1, <1>3, <1>5, <1>9, LastGrows
<1>12. HolderInv'
  BY <1>1, <1>2 DEF HolderInv
<1>13. MemoryInv'
  <2>1. allocated' \in 0..Len(asked)
    BY <1>1, <1>3, <1>5
  <2>2. stage' = "recording" /\ mCurrentPtr' \in Nat /\ asked' = asked
    BY <1>1, <1>10
  <2>3. QED
    BY <1>1, <1>2, <1>11, <2>1, <2>2 DEF MemoryInv
<1>14. PlacesInv'
  <2> DEFINE appended == Append(places, place)
  <2>1. Placed(mBlocks', asked, places)
    BY <1>3, <1>4, <1>11, PlacesStay
  <2>2. place \in Place /\ place.at % 4 = 0 /\ place.at = mCurrentPtr /\ place.block = n
    BY <1>5, <1>6, <1>7 DEF Place
  <2>3. Stored(mBlocks', place, p)
    <3> HIDE DEF p, place
    <3>1. QED
      BY <1>9, <1>11, <2>2 DEF Stored, CellIs
  <2>4. Len(places) = 0 => place = [block |-> 1, at |-> 0]
    <3>1. ASSUME Len(places) = 0
          PROVE  n = 1 /\ mCurrentPtr = 0
      <4>1. DOMAIN cells = {}
        BY <1>3, <1>4, <3>1 DEF AllocatorAt
      <4>2. QED
        BY <1>3, <1>4, <3>1, <4>1 DEF AllocatorAt
    <3>2. QED
      BY <3>1
  <2>5. Len(places) > 0 => NextIs(mBlocks', places[allocated], asked[allocated], place)
    <3>1. ASSUME Len(places) > 0, DOMAIN cells = {}
          PROVE  NextIs(mBlocks', places[allocated], asked[allocated], place)
      <4>1. /\ mCurrentPtr = 0 /\ n = places[allocated].block + 1
            /\ Tagged(mBlocks, places[allocated].block,
                      After(places[allocated], asked[allocated]))
        BY <1>3, <1>4, <3>1 DEF AllocatorAt
      <4>2. Tagged(mBlocks', places[allocated].block,
                   After(places[allocated], asked[allocated]))
        BY <1>11, <4>1 DEF Tagged, CellIs, BlocksGrow
      <4>3. QED
        BY <4>1, <4>2 DEF NextIs
    <3>2. ASSUME Len(places) > 0, DOMAIN cells # {}
          PROVE  NextIs(mBlocks', places[allocated], asked[allocated], place)
      <4>1. places[allocated].block = n
            /\ After(places[allocated], asked[allocated]) = mCurrentPtr
        BY <1>3, <1>4, <3>2 DEF AllocatorAt
      <4>2. QED
        BY <4>1 DEF NextIs
    <3>3. QED
      BY <3>1, <3>2
  <2> HIDE DEF place, appended
  <2>6. PICK more : /\ Placed(mBlocks', asked, more) /\ Len(more) = allocated + 1
                    /\ more[allocated + 1] = place
    <3>1. Len(places) < Len(asked) /\ Len(places) + 1 = allocated + 1
          /\ asked[Len(places) + 1] = p
      BY <1>1, <1>4, <1>5 DEF Pending, NextPiece
    <3> HIDE DEF p
    <3>2. Stored(mBlocks', place, asked[Len(places) + 1])
      BY <2>3, <3>1
    <3>3. Len(places) > 0 =>
            NextIs(mBlocks', places[Len(places)], asked[Len(places)], place)
      BY <1>4, <2>5
    <3>4. /\ Placed(mBlocks', asked, appended) /\ Len(appended) = Len(places) + 1
          /\ appended[Len(places) + 1] = place
      BY <1>3, <2>1, <2>2, <2>4, <3>1, <3>2, <3>3, PlaceMore DEF appended
    <3>5. QED
      BY <1>4, <3>4
  <2>7. AllocatorAt(more)'
    <3>1. asked'[allocated'] = p /\ allocated' > 0 /\ more[allocated'] = place
      BY <1>1, <1>5, <2>6 DEF NextPiece
    <3>2. After(place, p) = mCurrentPtr'
      BY <1>1, <2>2 DEF After
    <3>3. mCurrentPtr' % 4 = 0 /\ mCurrentPtr' + 4 <= mEndPtr' /\ mEndPtr' = size
      BY <1>1, <1>7, <1>8, <1>10
    <3>4. DOMAIN new # {} /\ \A o \in DOMAIN new : o + new[o].bytes <= mCurrentPtr'
      BY <1>1, <1>9
    <3> HIDE DEF p, size, n, cells
    <3>5. Len(mBlocks') = n /\ mBlocks'[n].cells = new /\ mBlocks'[n].size = size
          /\ mBlocks' # <<>>
      BY <1>11
    <3>6. more[allocated'].block = n /\ After(more[allocated'], asked'[allocated']) = mCurrentPtr'
      BY <2>2, <3>1, <3>2
    <3>7. /\ mEndPtr' = mBlocks'[Len(mBlocks')].size
          /\ \A o \in DOMAIN mBlocks'[Len(mBlocks')].cells :
               o + mBlocks'[Len(mBlocks')].cells[o].bytes <= mCurrentPtr'
          /\ DOMAIN mBlocks'[Len(mBlocks')].cells # {}
          /\ more[allocated'].block = Len(mBlocks')
      BY <3>3, <3>4, <3>5, <3>6
    <3>8. QED
      BY <3>1, <3>3, <3>5, <3>6, <3>7 DEF AllocatorAt
  <2>8. stage' = "recording" /\ ~Iterating' /\ asked' = asked /\ allocated' = allocated + 1
    BY <1>1 DEF Iterating
  <2>9. QED
    BY <2>6, <2>7, <2>8 DEF PlacesInv
<1>15. ReadInv'
  <2>1. stage' = "recording" /\ ~Iterating'
    BY <1>1 DEF Iterating
  <2>2. Len(seen) <= allocated + 1
    BY <1>2, <1>5, LenProperties DEF ReadInv
  <2>3. QED
    BY <1>1, <1>2, <2>1, <2>2 DEF ReadInv
<1>16. Counted'
  <2>1. FirstHeld = 1 /\ FirstHeld' = 1
    BY <1>1 DEF FirstHeld
  <2>2. 1..allocated' = (1..allocated) \cup {allocated + 1} /\ allocated + 1 \notin 1..allocated
    BY <1>1, <1>5
  <2>3. ASSUME NEW o \in Objects
        PROVE  /\ IsFiniteSet(PlacesOf(o, 1..allocated)')
               /\ references'[o] = Cardinality(PlacesOf(o, 1..allocated)')
    <3>1. IsFiniteSet(PlacesOf(o, 1..allocated))
          /\ references[o] = Cardinality(PlacesOf(o, 1..allocated))
      BY <1>2, <2>1 DEF Counted
    <3> DEFINE q == allocated + 1
               old == 1..allocated
    <3>2. asked[q] = p /\ asked[q] \in PieceSet
      BY <1>3 DEF NextPiece
    <3> HIDE DEF q, old, p
    <3>3. /\ IsFiniteSet(PlacesOf(o, old \cup {q}))
          /\ Cardinality(PlacesOf(o, old)) \in Nat
          /\ References(asked[q])[o] \in Nat
          /\ Cardinality(PlacesOf(o, old \cup {q})) =
               Cardinality(PlacesOf(o, old)) + References(asked[q])[o]
      <4>1. q \notin old /\ IsFiniteSet(PlacesOf(o, old))
        BY <2>2, <3>1 DEF q, old
      <4>2. QED
        BY <3>2, <4>1, OnePieceMore
    <3>4. PlacesOf(o, 1..allocated)' = PlacesOf(o, old \cup {q})
      BY <1>1, <2>2 DEF PlacesOf, q, old
    <3>5. references'[o] = references[o] + References(p)[o]
      BY <1>1 DEF Plus
    <3>6. QED
      BY <3>1, <3>2, <3>3, <3>4, <3>5 DEF old
  <2>4. references' = [o \in Objects |-> references'[o]]
    BY <1>1 DEF Plus
  <2>5. QED
    BY <2>1, <2>3, <2>4 DEF Counted
<1>17. QED
  BY <1>12, <1>13, <1>14, <1>15, <1>16 DEF CommandInv

(* What marks the end of a block is written behind the rest.               *)
LEMMA TagAppends ==
  ASSUME NEW cells \in CellSet, NEW size \in Nat, Apart(cells, size), NEW ptr \in Nat,
         ptr + 4 <= size, \A o \in DOMAIN cells : o + cells[o].bytes <= ptr,
         NEW tagged, tagged = WriteCell(cells, ptr, Tag)
  PROVE  /\ tagged \in CellSet /\ Apart(tagged, size)
         /\ \A o \in DOMAIN cells : o \in DOMAIN tagged /\ tagged[o] = cells[o]
         /\ ptr \in DOMAIN tagged
         /\ tagged[ptr].holds = "id" /\ tagged[ptr].value = "EndOfBlock"
<1> DEFINE tag == Tag
           written == WriteCell(cells, ptr, tag)
<1>1. tag.bytes = 4 /\ tag.holds = "id" /\ tag.value = "EndOfBlock"
  BY SizeAssumption DEF Tag, Id
<1>2. tag \in Cell
  BY SizeAssumption DEF Tag, Id, Cell, Contents
<1>3. tagged = WriteCell(cells, ptr, tag)
  OBVIOUS
<1> HIDE DEF tag
<1>4. ptr + tag.bytes <= size
  BY <1>1
<1>5. /\ written \in CellSet /\ Apart(written, size)
      /\ DOMAIN written = DOMAIN cells \cup {ptr} /\ written[ptr] = tag
      /\ \A o \in DOMAIN cells : written[o] = cells[o]
      /\ \A o \in DOMAIN written : o + written[o].bytes <= ptr + tag.bytes
  BY <1>2, <1>4, WriteAppends
<1> HIDE DEF written
<1>6. tagged = written
  BY <1>3 DEF written
<1>7. QED
  BY <1>1, <1>5, <1>6

(* The end of the last block is marked.                                    *)
LEMMA TagIsWritten ==
  ASSUME CommandInv, stage = "recording"
  PROVE  LET new == WriteInLast(mCurrentPtr, Tag)
             n == Len(mBlocks)
         IN  /\ new \in Seq(Block) /\ Len(new) = n /\ n \in Nat
             /\ \A i \in 1..n : Apart(new[i].cells, new[i].size)
             /\ BlocksGrow(mBlocks, new)
             /\ mBlocks = <<>> => new = <<>>
             /\ mBlocks # <<>> => new # <<>> /\ Tagged(new, n, mCurrentPtr)
<1> DEFINE n == Len(mBlocks)
           cells == mBlocks[n].cells
           size == mBlocks[n].size
           tagged == WriteCell(cells, mCurrentPtr, Tag)
           new == WriteInLast(mCurrentPtr, Tag)
<1>1. MemoryInv /\ PlacesInv /\ kId = 4
  BY SizeAssumption DEF CommandInv
<1>2. /\ mBlocks \in Seq(Block) /\ mCurrentPtr \in Nat /\ n \in Nat
      /\ \A i \in 1..n : Apart(mBlocks[i].cells, mBlocks[i].size)
  BY <1>1, LenProperties DEF MemoryInv
<1>3. CASE mBlocks = <<>>
  <2>1. new = mBlocks
    BY <1>3 DEF WriteInLast
  <2> HIDE DEF new, n
  <2>2. BlocksGrow(mBlocks, mBlocks)
    BY <1>2, BlocksStay
  <2>3. QED
    BY <1>2, <1>3, <2>1, <2>2 DEF n, new
<1>4. CASE mBlocks # <<>>
  <2>1. PICK places : AllocatorAt(places)
    BY <1>1 DEF PlacesInv
  <2>2. /\ mEndPtr = size /\ mCurrentPtr + 4 <= size
        /\ \A o \in DOMAIN cells : o + cells[o].bytes <= mCurrentPtr
    BY <1>4, <2>1 DEF AllocatorAt
  <2>3. /\ cells \in CellSet /\ size \in Nat /\ n > 0 /\ Apart(cells, size)
    <3>1. {} \in SUBSET Nat /\ [o \in {} |-> 0] \in [{} -> Cell]
      OBVIOUS
    <3>2. [o \in {} |-> 0] \in CellSet
      BY <3>1 DEF CellSet
    <3>3. cells \in CellSet /\ size \in Nat /\ n \in Nat /\ n > 0
      BY <1>2, <1>4, <3>2, ReplaceInLast
    <3>4. QED
      BY <1>2, <3>3
  <2>4. /\ tagged \in CellSet /\ Apart(tagged, size)
        /\ \A o \in DOMAIN cells : o \in DOMAIN tagged /\ tagged[o] = cells[o]
        /\ mCurrentPtr \in DOMAIN tagged
        /\ tagged[mCurrentPtr].holds = "id" /\ tagged[mCurrentPtr].value = "EndOfBlock"
    <3> HIDE DEF cells, size
    <3>1. tagged = WriteCell(cells, mCurrentPtr, Tag)
      OBVIOUS
    <3>2. /\ cells \in CellSet /\ size \in Nat /\ Apart(cells, size) /\ mCurrentPtr \in Nat
          /\ mCurrentPtr + 4 <= size
          /\ \A o \in DOMAIN cells : o + cells[o].bytes <= mCurrentPtr
      BY <1>2, <2>2, <2>3
    <3> HIDE DEF tagged
    <3>3. QED
      BY ONLY <3>1, <3>2, TagAppends
  <2>5. new = [mBlocks EXCEPT ![n].cells = tagged]
    BY <1>4 DEF WriteInLast
  <2> HIDE DEF tagged, new
  <2>6. /\ n \in 1..n /\ new \in Seq(Block) /\ Len(new) = n
        /\ new[n].cells = tagged
        /\ \A i \in 1..n : Apart(new[i].cells, new[i].size)
        /\ BlocksGrow(mBlocks, new) /\ new # <<>>
    BY <1>2, <1>4, <2>3, <2>4, <2>5, LastGrows
  <2>7. Tagged(new, n, mCurrentPtr)
    <3> HIDE DEF n
    <3>1. QED
      BY <2>4, <2>6 DEF Tagged, CellIs
  <2>8. QED
    BY <1>2, <1>4, <2>6, <2>7 DEF new
<1>5. QED
  BY <1>3, <1>4

(* An empty block after the others.                                        *)
LEMMA BlockIsAdded ==
  ASSUME NEW b \in Seq(Block), \A i \in 1..Len(b) : Apart(b[i].cells, b[i].size),
         NEW size \in Nat
  PROVE  LET new == Append(b, [size |-> size, cells |-> <<>>])
             n == Len(b)
         IN  /\ n \in Nat /\ new \in Seq(Block) /\ Len(new) = n + 1 /\ new # <<>>
             /\ \A i \in 1..n + 1 : Apart(new[i].cells, new[i].size)
             /\ BlocksGrow(b, new) /\ DOMAIN new[n + 1].cells = {}
             /\ new[n + 1].size = size
<1> DEFINE n == Len(b)
           block == [size |-> size, cells |-> <<>>]
           new == Append(b, block)
<1>1. <<>> \in CellSet /\ DOMAIN <<>> = {}
  <2>1. <<>> \in Seq(Cell) /\ Len(<<>>) = 0
    BY EmptySeq
  <2>2. <<>> \in [1..0 -> Cell] /\ DOMAIN <<>> = 1..0
    BY <2>1, LenProperties
  <2>3. 1..0 \in SUBSET Nat /\ 1..0 = {}
    OBVIOUS
  <2>4. QED
    BY <2>2, <2>3 DEF CellSet
<1>2. block \in Block /\ DOMAIN block.cells = {} /\ block.size = size
  BY <1>1 DEF Block
<1> HIDE DEF block
<1>3. /\ n \in Nat /\ new \in Seq(Block) /\ Len(new) = n + 1 /\ new # <<>>
      /\ \A i \in 1..n : new[i] = b[i]
      /\ new[n + 1] = block
  <2>1. n \in Nat
    BY LenProperties
  <2>2. QED
    BY <1>2, <2>1, AppendProperties
<1> HIDE DEF new
<1>4. ASSUME NEW i \in 1..n + 1
      PROVE  Apart(new[i].cells, new[i].size)
  <2>1. CASE i \in 1..n
    BY <1>3, <2>1
  <2>2. CASE i = n + 1
    BY <1>2, <1>3, <2>2 DEF Apart
  <2>3. QED
    BY <1>3, <2>1, <2>2
<1>5. BlocksGrow(b, new)
  <2>1. Len(new) \in Nat /\ Len(b) \in Nat /\ Len(b) <= Len(new)
    BY <1>3
  <2>2. QED
    BY <1>3, <2>1 DEF BlocksGrow
<1>6. QED
  BY <1>2, <1>3, <1>4, <1>5 DEF new, block

(* What grows and grows again has grown.                                   *)
LEMMA GrowsTwice ==
  ASSUME NEW a, NEW b, NEW c, BlocksGrow(a, b), BlocksGrow(b, c)
  PROVE  BlocksGrow(a, c)
<1>1. ASSUME NEW i \in 1..Len(a), NEW o \in DOMAIN a[i].cells
      PROVE  o \in DOMAIN c[i].cells /\ c[i].cells[o] = a[i].cells[o]
  <2>1. i \in 1..Len(b) /\ o \in DOMAIN b[i].cells /\ b[i].cells[o] = a[i].cells[o]
    BY DEF BlocksGrow
  <2>2. QED
    BY <2>1 DEF BlocksGrow
<1>2. Len(a) \in Nat /\ Len(c) \in Nat /\ Len(a) <= Len(c)
  BY DEF BlocksGrow
<1>3. QED
  BY <1>1, <1>2 DEF BlocksGrow

(* The block that is made for a piece has room for it.                     *)
LEMMA NewBlockHasRoom ==
  ASSUME NEW p \in PieceSet, mCurrentPtr \in Nat, mCurrentPtr % 4 = 0,
         mLastAllocationSize \in Nat
  PROVE  NewBlockSize(p) \in Nat /\ NextPtr(0, p) + 4 <= NewBlockSize(p)
<1> DEFINE least == MinimumSize(p)
           other == MinOf(mLastAllocationSize * 2, kMaxBlock)
<1>1. kId = 4 /\ kMaxBlock \in Nat
  BY SizeAssumption
<1>2. other \in Nat
  BY <1>1 DEF MinOf
<1>3. /\ NextPtr(0, p) \in Nat /\ NextPtr(mCurrentPtr, p) \in Nat
      /\ CommandPtr(mCurrentPtr, p.of) \in Nat /\ mCurrentPtr + 4 <= CommandPtr(mCurrentPtr, p.of)
      /\ CommandPtr(mCurrentPtr, p.of) + PieceSize(p) <= NextPtr(mCurrentPtr, p)
      /\ PieceSize(p) \in Nat
  BY PointersOfPiece
<1>4. NextPtr(0, p) <= NextPtr(mCurrentPtr, p) - mCurrentPtr + 4
  BY FitsAtStart
<1>5. least = NextPtr(mCurrentPtr, p) - mCurrentPtr + 4 + 4
  BY <1>1 DEF MinimumSize
<1>6. NewBlockSize(p) = IF least >= other THEN least ELSE other
  BY DEF NewBlockSize, MaxOf
<1> HIDE DEF least, other
<1>7. least \in Nat /\ NextPtr(0, p) + 4 <= least
  BY <1>3, <1>4, <1>5
<1>8. QED
  BY <1>2, <1>3, <1>6, <1>7

(* The piece does not fit: the block is ended and there is a new one.      *)
LEMMA NewBlockKeeps ==
  ASSUME CommandInv, GetNewBlock
  PROVE  CommandInv'
<1> DEFINE p == NextPiece
           n == Len(mBlocks)
           size == NewBlockSize(p)
           tagged == WriteInLast(mCurrentPtr, Tag)
<1>1. /\ stage = "recording" /\ Pending /\ ~Fits(p)
      /\ mLastAllocationSize' = size
      /\ mBlocks' = Append(tagged, [size |-> size, cells |-> <<>>])
      /\ mCurrentPtr' = 0 /\ mEndPtr' = size
      /\ UNCHANGED <<stage, holder, builderAlive, asked, allocated, mCurrentBlock, readPtr,
                     reading, seen, reads, references>>
  BY DEF GetNewBlock, iterator
<1>2. HolderInv /\ MemoryInv /\ PlacesInv /\ ReadInv /\ Counted /\ kId = 4
  BY SizeAssumption DEF CommandInv
<1>3. p \in PieceSet /\ Len(asked) \in Nat
  BY <1>1, NextPieceFacts
<1>4. PICK places : Placed(mBlocks, asked, places) /\ Len(places) = allocated
                    /\ AllocatorAt(places)
  BY <1>1, <1>2 DEF PlacesInv
<1>5. /\ mCurrentPtr \in Nat /\ mCurrentPtr % 4 = 0 /\ mLastAllocationSize \in Nat
      /\ allocated \in Nat
  BY <1>2, <1>4 DEF MemoryInv, AllocatorAt
<1>6. size \in Nat /\ NextPtr(0, p) + 4 <= size
  <2> HIDE DEF p
  <2>1. QED
    BY <1>3, <1>5, NewBlockHasRoom
<1>7. /\ tagged \in Seq(Block) /\ Len(tagged) = n /\ n \in Nat
      /\ \A i \in 1..n : Apart(tagged[i].cells, tagged[i].size)
      /\ BlocksGrow(mBlocks, tagged)
      /\ mBlocks = <<>> => tagged = <<>>
      /\ mBlocks # <<>> => Tagged(tagged, n, mCurrentPtr)
  BY <1>1, TagIsWritten
<1> HIDE DEF size, tagged
<1>8. /\ mBlocks' \in Seq(Block) /\ Len(mBlocks') = n + 1 /\ mBlocks' # <<>>
      /\ \A i \in 1..n + 1 : Apart(mBlocks'[i].cells, mBlocks'[i].size)
      /\ BlocksGrow(tagged, mBlocks') /\ DOMAIN mBlocks'[n + 1].cells = {}
      /\ mBlocks'[n + 1].size = size
  BY <1>1, <1>6, <1>7, BlockIsAdded
<1>9. BlocksGrow(mBlocks, mBlocks')
  BY <1>7, <1>8, GrowsTwice
<1>10. HolderInv'
  BY <1>1, <1>2 DEF HolderInv
<1>11. MemoryInv'
  BY <1>1, <1>2, <1>6, <1>8 DEF MemoryInv
<1>12. PlacesInv'
  <2>1. Placed(mBlocks', asked, places)
    BY <1>3, <1>4, <1>9, PlacesStay
  <2>2. n = 0 => allocated = 0 /\ mBlocks = <<>>
    <3>1. n = 0 => mBlocks = <<>>
      BY <1>2, EmptySeq DEF MemoryInv
    <3>2. QED
      BY <1>4, <3>1 DEF AllocatorAt
  <2>3. n > 0 => mBlocks # <<>>
    BY EmptySeq
  <2>4. n > 0 => DOMAIN mBlocks[n].cells # {}
    BY <1>1, <1>4, <2>3 DEF AllocatorAt
  <2>5. n > 0 => /\ allocated > 0 /\ places[allocated].block = n
                 /\ After(places[allocated], asked[allocated]) = mCurrentPtr
    BY <1>4, <2>3, <2>4 DEF AllocatorAt
  <2>6. n > 0 => Tagged(mBlocks', n, mCurrentPtr)
    BY <1>7, <1>8, <2>3 DEF Tagged, CellIs, BlocksGrow
  <2>7. Pending' /\ NextPiece' = p
    BY <1>1 DEF Pending, NextPiece
  <2>8. Fits(NextPiece)'
    <3>1. Fits(NextPiece)' <=> NextPtr(mCurrentPtr', NextPiece') + kId <= mEndPtr'
      BY DEF Fits
    <3> HIDE DEF p
    <3>2. QED
      BY <1>1, <1>2, <1>6, <2>7, <3>1
  <2>9. AllocatorAt(places)'
    <3>1. /\ mCurrentPtr' % 4 = 0 /\ mCurrentPtr' + 4 <= mEndPtr'
      <4>1. NextPtr(0, p) \in Nat
        BY <1>3, PointersOfPiece
      <4>2. QED
        BY <1>1, <1>6, <4>1
    <3>2. mEndPtr' = mBlocks'[Len(mBlocks')].size /\ DOMAIN mBlocks'[Len(mBlocks')].cells = {}
      BY <1>1, <1>8
    <3>3. allocated' = 0 => Len(mBlocks') = 1
      BY <1>1, <1>7, <1>8, <2>5
    <3>4. allocated' > 0 =>
            /\ Len(mBlocks') = places[allocated'].block + 1
            /\ Tagged(mBlocks', places[allocated'].block,
                      After(places[allocated'], asked'[allocated']))
      BY <1>1, <1>5, <1>7, <1>8, <2>2, <2>5, <2>6
    <3> HIDE DEF n, p
    <3>5. QED
      BY <1>1, <1>8, <2>7, <2>8, <3>1, <3>2, <3>3, <3>4 DEF AllocatorAt
  <2>10. stage' = "recording" /\ ~Iterating' /\ asked' = asked /\ allocated' = allocated
    BY <1>1 DEF Iterating
  <2>11. QED
    BY <1>4, <2>1, <2>9, <2>10 DEF PlacesInv
<1>13. ReadInv'
  BY <1>1, <1>2 DEF ReadInv, Iterating
<1>14. Counted'
  <2>1. FirstHeld' = FirstHeld
    BY <1>1 DEF FirstHeld
  <2>2. \A o \in Objects : \A pieces : PlacesOf(o, pieces)' = PlacesOf(o, pieces)
    BY <1>1 DEF PlacesOf
  <2>3. QED
    BY <1>1, <1>2, <2>1, <2>2 DEF Counted
<1>15. QED
  BY <1>10, <1>11, <1>12, <1>13, <1>14 DEF CommandInv

(* There is no memory for one.                                             *)
LEMMA OutOfMemoryKeeps ==
  ASSUME CommandInv, OutOfMemory
  PROVE  CommandInv'
<1> DEFINE n == Len(mBlocks)
           tagged == WriteInLast(mCurrentPtr, Tag)
<1>1. /\ stage = "recording" /\ Pending /\ stage' = "crashed"
      /\ mLastAllocationSize' = NewBlockSize(NextPiece)
      /\ mBlocks' = tagged
      /\ UNCHANGED <<holder, builderAlive, mCurrentPtr, mEndPtr, asked, allocated, mCurrentBlock,
                     readPtr, reading, seen, reads, references>>
  BY DEF OutOfMemory, iterator
<1>2. HolderInv /\ MemoryInv /\ PlacesInv /\ ReadInv /\ Counted /\ kId = 4
  BY SizeAssumption DEF CommandInv
<1>3. NextPiece \in PieceSet
  BY <1>1, NextPieceFacts
<1>4. /\ tagged \in Seq(Block) /\ Len(tagged) = n /\ n \in Nat
      /\ \A i \in 1..n : Apart(tagged[i].cells, tagged[i].size)
      /\ mBlocks = <<>> => tagged = <<>>
      /\ mBlocks # <<>> => Tagged(tagged, n, mCurrentPtr)
  BY <1>1, TagIsWritten
<1> HIDE DEF tagged
<1>5. NewBlockSize(NextPiece) \in Nat
  <2>1. mCurrentPtr \in Nat /\ mCurrentPtr % 4 = 0 /\ mLastAllocationSize \in Nat
    BY <1>1, <1>2 DEF MemoryInv, PlacesInv, AllocatorAt
  <2>2. QED
    BY <1>3, <2>1, NewBlockHasRoom
<1>6. HolderInv'
  BY <1>1, <1>2 DEF HolderInv
<1>7. MemoryInv'
  <2>1. mBlocks' # <<>> => DOMAIN mBlocks'[Len(mBlocks')].cells # {}
    BY <1>1, <1>4 DEF Tagged, CellIs
  <2>2. QED
    BY <1>1, <1>2, <1>4, <1>5, <2>1 DEF MemoryInv
<1>8. PlacesInv'
  BY <1>1 DEF PlacesInv
<1>9. ReadInv'
  BY <1>1, <1>2 DEF ReadInv, Iterating
<1>10. Counted'
  <2>1. FirstHeld' = 1 /\ FirstHeld = 1
    BY <1>1 DEF FirstHeld
  <2>2. \A o \in Objects : \A pieces : PlacesOf(o, pieces)' = PlacesOf(o, pieces)
    BY <1>1 DEF PlacesOf
  <2>3. QED
    BY <1>1, <1>2, <2>1, <2>2 DEF Counted
<1>11. QED
  BY <1>6, <1>7, <1>8, <1>9, <1>10 DEF CommandInv

(* The iterator takes the blocks and goes to the first command.            *)
LEMMA BlocksAreClosed ==
  ASSUME CommandInv, stage \in {"recording", "refused", "ready"}, ~Pending, MoveToIterator,
         Reset, UNCHANGED <<asked, allocated>>
  PROVE  /\ mBlocks' \in Seq(Block)
         /\ \A i \in 1..Len(mBlocks') : Apart(mBlocks'[i].cells, mBlocks'[i].size)
         /\ \E places : /\ Placed(mBlocks', asked, places) /\ Len(places) = allocated
                        /\ Closed(places)' /\ ReaderAt(places, 0)'
<1>1. MemoryInv /\ PlacesInv /\ ReadInv /\ kId = 4
  BY SizeAssumption DEF CommandInv
<1>2. /\ mBlocks \in Seq(Block) /\ Len(asked) \in Nat /\ allocated = Len(asked)
      /\ \A i \in 1..Len(mBlocks) : Apart(mBlocks[i].cells, mBlocks[i].size)
  BY <1>1, LenProperties DEF MemoryInv, WellFormed, Pending
<1>3. PICK places : /\ Placed(mBlocks, asked, places) /\ Len(places) = allocated
                    /\ stage = "recording" => AllocatorAt(places)
                    /\ stage # "recording" => Closed(places)
  BY <1>1 DEF PlacesInv
<1>4. /\ mBlocks' \in Seq(Block)
      /\ \A i \in 1..Len(mBlocks') : Apart(mBlocks'[i].cells, mBlocks'[i].size)
      /\ BlocksGrow(mBlocks, mBlocks') /\ Closed(places)'
  <2>1. CASE stage = "recording"
    <3> DEFINE tagged == WriteInLast(mCurrentPtr, Tag)
               n == Len(mBlocks)
    <3>1. /\ tagged \in Seq(Block) /\ Len(tagged) = n
          /\ \A i \in 1..n : Apart(tagged[i].cells, tagged[i].size)
          /\ BlocksGrow(mBlocks, tagged)
          /\ mBlocks = <<>> => tagged = <<>>
          /\ mBlocks # <<>> => Tagged(tagged, n, mCurrentPtr)
      BY <2>1, TagIsWritten
    <3> HIDE DEF tagged
    <3>2. mBlocks' = tagged
      BY <2>1 DEF MoveToIterator, tagged
    <3>3. mBlocks = <<>> => allocated = 0
      BY <1>3, <2>1 DEF AllocatorAt
    <3>4. mBlocks # <<>> => /\ allocated > 0 /\ places[allocated].block = n
                            /\ After(places[allocated], asked[allocated]) = mCurrentPtr
      BY <1>3, <2>1 DEF AllocatorAt
    <3>5. Closed(places)'
      <4>1. mBlocks' = <<>> => mBlocks = <<>>
        BY <1>2, <3>1, <3>2, EmptySeq
      <4>2. QED
        BY <1>2, <3>1, <3>2, <3>3, <3>4, <4>1 DEF Closed
    <3>6. QED
      BY <3>1, <3>2, <3>5
  <2>2. CASE stage # "recording"
    <3>1. mBlocks' = mBlocks
      BY <2>2 DEF MoveToIterator
    <3>2. BlocksGrow(mBlocks, mBlocks)
      BY <1>2, BlocksStay
    <3>3. Closed(places)'
      BY <1>3, <2>2, <3>1 DEF Closed
    <3>4. QED
      BY <1>2, <3>1, <3>2, <3>3
  <2>3. QED
    BY <2>1, <2>2
<1>5. Placed(mBlocks', asked, places)
  BY <1>2, <1>3, <1>4, PlacesStay
<1>6. ReaderAt(places, 0)'
  <2>1. mCurrentBlock' = 1 /\ readPtr' = 0
    BY DEF Reset
  <2>2. IdPtr' = 0
    BY <1>1, <2>1 DEF IdPtr, Align
  <2>3. ASSUME mBlocks' # <<>>
        PROVE  AtPiece(places, 0)'
    <3>1. allocated' > 0
      BY <1>4, <2>3 DEF Closed
    <3>2. places[1].block = 1 /\ places[1].at = 0
      BY <1>3, <1>5, <3>1 DEF Placed
    <3>3. QED
      BY <2>1, <2>2, <3>1, <3>2 DEF AtPiece
  <2>4. QED
    BY <2>1, <2>3 DEF ReaderAt
<1>7. QED
  BY <1>3, <1>4, <1>5, <1>6

(* The commands are about to be validated, executed or freed.              *)
LEMMA ReadingStarts ==
  ASSUME CommandInv, stage \in {"recording", "refused", "ready"}, ~Pending, MoveToIterator,
         Reset, stage' \in {"validating", "executing", "freeing"}, HolderInv',
         UNCHANGED <<mCurrentPtr, mEndPtr, mLastAllocationSize, asked, allocated, references>>
  PROVE  CommandInv'
<1>1. MemoryInv /\ ReadInv /\ Counted
  BY DEF CommandInv
<1>2. /\ mBlocks' \in Seq(Block)
      /\ \A i \in 1..Len(mBlocks') : Apart(mBlocks'[i].cells, mBlocks'[i].size)
      /\ \E places : /\ Placed(mBlocks', asked, places) /\ Len(places) = allocated
                     /\ Closed(places)' /\ ReaderAt(places, 0)'
  BY BlocksAreClosed
<1>3. seen' = <<>> /\ reading' = <<>> /\ Len(<<>>) = 0
  BY DEF Reset
<1>4. MemoryInv'
  BY <1>1, <1>2 DEF MemoryInv
<1>5. PlacesInv'
  <2>1. PICK places : /\ Placed(mBlocks', asked, places) /\ Len(places) = allocated
                      /\ Closed(places)' /\ ReaderAt(places, 0)'
    BY <1>2
  <2>2. ReaderAt(places, Len(seen))'
    BY <1>3, <2>1
  <2>3. stage' # "recording" /\ asked' = asked /\ allocated' = allocated
    OBVIOUS
  <2>4. QED
    BY <2>1, <2>2, <2>3 DEF PlacesInv
<1>6. ReadInv'
  <2>1. /\ allocated \in Nat /\ Len(asked) \in Nat
        /\ Len(asked) > 0 => asked[1].id \in Types
    BY <1>1, LenProperties DEF MemoryInv, WellFormed
  <2>2. \A S : <<>> \in Seq(S)
    BY EmptySeq
  <2>3. Expects(Len(seen))'
    BY <1>3, <2>1, <2>2 DEF Expects
  <2>4. seen' \in Seq(PieceSet) /\ Len(seen') <= allocated'
    BY <1>3, <2>1, <2>2
  <2>5. QED
    BY <1>3, <2>3, <2>4 DEF ReadInv
<1>7. Counted'
  <2>1. FirstHeld = 1 /\ FirstHeld' = 1
    BY <1>3 DEF FirstHeld
  <2>2. \A o \in Objects : \A pieces : PlacesOf(o, pieces)' = PlacesOf(o, pieces)
    BY DEF PlacesOf
  <2>3. QED
    BY <1>1, <2>1, <2>2 DEF Counted
<1>8. QED
  BY <1>4, <1>5, <1>6, <1>7 DEF CommandInv

(* A command buffer is made of a builder.                                  *)
LEMMA GetResultKeeps ==
  ASSUME CommandInv, GetResult
  PROVE  CommandInv'
<1>1. /\ stage = "recording" /\ ~Pending /\ MoveToIterator /\ Reset /\ stage' = "validating"
      /\ UNCHANGED <<holder, builderAlive, mCurrentPtr, mEndPtr, mLastAllocationSize, asked,
                     allocated, references>>
  BY DEF GetResult
<1>2. HolderInv'
  BY <1>1 DEF CommandInv, HolderInv
<1>3. QED
  BY <1>1, <1>2, ReadingStarts

(* It is executed.                                                         *)
LEMMA ExecuteKeeps ==
  ASSUME CommandInv, Execute
  PROVE  CommandInv'
<1>1. /\ stage = "ready" /\ stage' = "executing" /\ seen' = <<>>
      /\ UNCHANGED <<holder, builderAlive, mBlocks, mCurrentPtr, mEndPtr, mLastAllocationSize,
                     asked, allocated, mCurrentBlock, readPtr, reading, references>>
  BY DEF Execute, commandAllocator
<1>2. HolderInv'
  BY <1>1 DEF CommandInv, HolderInv
<1>3. MoveToIterator /\ Reset
  BY <1>1 DEF CommandInv, ReadInv, MoveToIterator, Reset
<1>4. ~Pending
  BY <1>1 DEF CommandInv, PlacesInv, MemoryInv, Closed, Pending
<1>5. QED
  BY <1>1, <1>2, <1>3, <1>4, ReadingStarts

(* The validation stops at an error.                                       *)
LEMMA RefuseKeeps ==
  ASSUME CommandInv, Refuse
  PROVE  CommandInv'
<1>1. /\ stage = "validating" /\ stage' = "refused"
      /\ UNCHANGED <<holder, builderAlive, mBlocks, mCurrentPtr, mEndPtr, mLastAllocationSize,
                     asked, allocated, mCurrentBlock, readPtr, reading, seen, references>>
  BY DEF Refuse, commandAllocator, iterator
<1>2. HolderInv /\ MemoryInv /\ PlacesInv /\ ReadInv /\ Counted
  BY DEF CommandInv
<1>3. HolderInv' /\ MemoryInv' /\ ReadInv'
  BY <1>1, <1>2 DEF HolderInv, MemoryInv, ReadInv, Iterating
<1>4. PlacesInv'
  BY <1>1, <1>2 DEF PlacesInv, Closed, Iterating
<1>5. Counted'
  <2>1. FirstHeld = 1 /\ FirstHeld' = 1
    BY <1>1 DEF FirstHeld
  <2>2. \A o \in Objects : \A pieces : PlacesOf(o, pieces)' = PlacesOf(o, pieces)
    BY <1>1 DEF PlacesOf
  <2>3. QED
    BY <1>1, <1>2, <2>1, <2>2 DEF Counted
<1>6. QED
  BY <1>3, <1>4, <1>5 DEF CommandInv

(* The builder is destroyed, and the commands if it still has them.        *)
LEMMA DestroyBuilderKeeps ==
  ASSUME CommandInv, DestroyBuilder
  PROVE  CommandInv'
<1>1. HolderInv /\ MemoryInv /\ PlacesInv /\ ReadInv /\ Counted
  BY DEF CommandInv
<1>2. CASE WasAcquired
  <2>1. /\ holder # "builder" /\ builderAlive' = FALSE
        /\ UNCHANGED <<holder, stage, mBlocks, mCurrentPtr, mEndPtr, mLastAllocationSize, asked,
                       allocated, mCurrentBlock, readPtr, reading, seen, references>>
    BY <1>2 DEF DestroyBuilder, WasAcquired, commandAllocator, iterator
  <2>2. HolderInv' /\ MemoryInv' /\ ReadInv'
    BY <1>1, <2>1 DEF HolderInv, MemoryInv, ReadInv, Iterating, Expects
  <2>3. PlacesInv'
    <3>1. \A places : /\ AllocatorAt(places)' <=> AllocatorAt(places)
                      /\ Closed(places)' <=> Closed(places)
      BY <2>1 DEF AllocatorAt, Closed, Pending, NextPiece, Fits
    <3>2. \A places, r : ReaderAt(places, r)' <=> ReaderAt(places, r)
      BY <2>1 DEF ReaderAt, AtPiece, AtTag, IdPtr
    <3>3. QED
      BY <1>1, <2>1, <3>1, <3>2 DEF PlacesInv, Iterating
  <2>4. Counted'
    <3>1. FirstHeld' = FirstHeld
      BY <2>1 DEF FirstHeld
    <3>2. \A o \in Objects : \A pieces : PlacesOf(o, pieces)' = PlacesOf(o, pieces)
      BY <2>1 DEF PlacesOf
    <3>3. QED
      BY <1>1, <2>1, <3>1, <3>2 DEF Counted
  <2>5. QED
    BY <2>2, <2>3, <2>4 DEF CommandInv
<1>3. CASE ~WasAcquired
  <2>1. /\ builderAlive /\ stage \in {"recording", "refused", "ready", "freed"} /\ ~Pending
        /\ holder = "builder" /\ builderAlive' = FALSE /\ UNCHANGED holder
        /\ stage' = "freeing" /\ MoveToIterator /\ Reset
        /\ UNCHANGED <<mCurrentPtr, mEndPtr, mLastAllocationSize, asked, allocated, references>>
    BY <1>3 DEF DestroyBuilder, WasAcquired, FreeCommands
  <2>2. stage \in {"recording", "refused"} /\ HolderInv'
    BY <1>1, <2>1 DEF HolderInv
  <2>3. QED
    BY <2>1, <2>2, ReadingStarts
<1>4. QED
  BY <1>2, <1>3

(* The command buffer is destroyed, and the commands with it.              *)
LEMMA DestroyCommandBufferKeeps ==
  ASSUME CommandInv, DestroyCommandBuffer
  PROVE  CommandInv'
<1>1. /\ stage = "ready" /\ holder' = "nobody" /\ stage' = "freeing" /\ MoveToIterator /\ Reset
      /\ UNCHANGED <<mCurrentPtr, mEndPtr, mLastAllocationSize, asked, allocated, references>>
  BY DEF DestroyCommandBuffer, FreeCommands
<1>2. HolderInv'
  BY <1>1 DEF HolderInv
<1>3. ~Pending
  BY <1>1 DEF CommandInv, PlacesInv, MemoryInv, Closed, Pending
<1>4. QED
  BY <1>1, <1>2, <1>3, ReadingStarts

(* What the iterator finds where it is: the id of the next piece and the   *)
(* piece, or the end of the block.                                         *)
LEMMA WhatIsNext ==
  ASSUME CommandInv, Iterating
  PROVE  LET r == Len(seen)
         IN  /\ allocated = Len(asked) /\ Len(asked) \in Nat /\ r \in Nat /\ r <= allocated
             /\ Expects(r)
             /\ \E places :
                  /\ Placed(mBlocks, asked, places) /\ Len(places) = allocated
                  /\ Closed(places) /\ ReaderAt(places, r)
                  /\ \/ mBlocks = <<>> /\ allocated = 0 /\ NextId = "EndOfBlock"
                     \/ mBlocks # <<>> /\ AtTag(places, r) /\ NextId = "EndOfBlock"
                     \/ /\ AtPiece(places, r) /\ mCurrentBlock \in 1..Len(mBlocks)
                        /\ NextId = asked[r + 1].id /\ NextId # "EndOfBlock"
                        /\ asked[r + 1] \in PieceSet
                        /\ IdPtr = places[r + 1].at /\ IdPtr \in Nat
                        /\ asked[r + 1].count > 0 =>
                             /\ CellHolds(CommandPtr(IdPtr, asked[r + 1].of), "piece")
                             /\ Cells[CommandPtr(IdPtr, asked[r + 1].of)].value =
                                  asked[r + 1].value
<1> DEFINE r == Len(seen)
           p == asked[r + 1]
<1>1. MemoryInv /\ PlacesInv /\ ReadInv /\ stage \notin {"recording", "crashed"}
  BY DEF CommandInv, Iterating
<1>2. PICK places : /\ Placed(mBlocks, asked, places) /\ Len(places) = allocated
                    /\ Closed(places) /\ ReaderAt(places, r)
  BY <1>1 DEF PlacesInv
<1>3. /\ allocated = Len(asked) /\ Len(asked) \in Nat /\ r \in Nat /\ r <= allocated
      /\ Expects(r) /\ asked \in Seq(PieceSet)
  BY <1>1, <1>2, LenProperties DEF Closed, MemoryInv, WellFormed, ReadInv
<1>4. CASE mBlocks = <<>>
  <2>1. allocated = 0 /\ NextId = "EndOfBlock"
    BY <1>2, <1>4 DEF Closed, NextId, AtEnd
  <2>2. QED
    BY <1>2, <1>3, <1>4, <2>1
<1>5. CASE mBlocks # <<>> /\ AtTag(places, r)
  <2>1. NextId = "EndOfBlock"
    BY <1>5 DEF AtTag, Tagged, CellIs, NextId, AtEnd, CellHolds, Cells
  <2>2. QED
    BY <1>2, <1>3, <1>5, <2>1
<1>6. CASE mBlocks # <<>> /\ AtPiece(places, r)
  <2> DEFINE place == places[r + 1]
  <2>1. /\ r + 1 \in 1..Len(places) /\ r + 1 \in 1..Len(asked) /\ mCurrentBlock = place.block
        /\ IdPtr = place.at
    BY <1>2, <1>3, <1>6 DEF AtPiece
  <2>2. Stored(mBlocks, place, p)
    BY <1>2, <2>1 DEF Placed
  <2>3. p \in PieceSet
    BY <1>3, <2>1, ElementOfSeq
  <2>4. p.id # "EndOfBlock"
    BY <2>3, PieceFacts, SizeAssumption
  <2>5. place \in Place
    <3>1. places \in Seq(Place)
      BY <1>2 DEF Placed
    <3>2. QED
      BY <2>1, <3>1, ElementOfSeq
  <2>6. IdPtr \in Nat
    BY <2>1, <2>5 DEF Place
  <2> HIDE DEF p, place, r
  <2>7. mCurrentBlock \in 1..Len(mBlocks) /\ NextId = p.id
    BY <1>6, <2>1, <2>2 DEF Stored, CellIs, NextId, AtEnd, CellHolds, Cells
  <2>8. p.count > 0 => /\ CellHolds(CommandPtr(IdPtr, p.of), "piece")
                       /\ Cells[CommandPtr(IdPtr, p.of)].value = p.value
    BY <2>1, <2>2 DEF Stored, CellIs, CellHolds, Cells
  <2>9. QED
    BY <1>2, <1>3, <1>6, <2>1, <2>3, <2>4, <2>6, <2>7, <2>8 DEF p, r, place
<1>7. mBlocks # <<>> => AtPiece(places, r) \/ AtTag(places, r)
  BY <1>2 DEF ReaderAt
<1>8. QED
  BY <1>4, <1>5, <1>6, <1>7

(* The end of a block is reached: there is the next one, or all was read.  *)
LEMMA NextBlockKeeps ==
  ASSUME CommandInv, NextBlock
  PROVE  CommandInv'
<1> DEFINE r == Len(seen)
<1>1. HolderInv /\ MemoryInv /\ PlacesInv /\ ReadInv /\ Counted /\ kId = 4
  BY SizeAssumption DEF CommandInv
<1>2. /\ Iterating /\ NextId = "EndOfBlock" /\ (reading = <<>> \/ mCurrentBlock < Len(mBlocks))
      /\ UNCHANGED <<builderAlive, mBlocks, mCurrentPtr, mEndPtr, mLastAllocationSize, asked,
                     allocated, seen, references>>
  BY DEF NextBlock, AtEndOfBlock, commandAllocator
<1>3. PICK places :
        /\ Placed(mBlocks, asked, places) /\ Len(places) = allocated
        /\ Closed(places) /\ ReaderAt(places, r)
        /\ \/ mBlocks = <<>> /\ allocated = 0
           \/ mBlocks # <<>> /\ AtTag(places, r)
  BY <1>2, WhatIsNext
<1>4. /\ allocated = Len(asked) /\ Len(asked) \in Nat /\ r \in Nat /\ r <= allocated
      /\ Expects(r)
  BY <1>2, WhatIsNext
<1>5. mBlocks = <<>> => Len(mBlocks) = 0
  BY EmptySeq
<1>6. mCurrentBlock \in Nat /\ Len(mBlocks) \in Nat
  BY <1>1, <1>3, LenProperties DEF ReaderAt, MemoryInv
<1>7. MemoryInv'
  BY <1>1, <1>2 DEF MemoryInv, NextBlock, Iterating, AfterLastCommand
<1>8. \A o \in Objects : \A pieces : PlacesOf(o, pieces)' = PlacesOf(o, pieces)
  BY <1>2 DEF PlacesOf
<1>9. CASE mCurrentBlock < Len(mBlocks)
  <2>1. /\ mCurrentBlock' = mCurrentBlock + 1 /\ readPtr' = 0
        /\ UNCHANGED <<stage, holder, reading>>
    BY <1>9 DEF NextBlock
  <2>2. HolderInv'
    BY <1>1, <1>2, <2>1 DEF HolderInv
  <2>3. AtPiece(places, r)'
    <3>1. r < allocated /\ places[r + 1] = [block |-> mCurrentBlock + 1, at |-> 0]
      BY <1>3, <1>4, <1>5, <1>6, <1>9 DEF AtTag
    <3>2. IdPtr' = 0
      BY <1>1, <2>1 DEF IdPtr, Align
    <3>3. r' = r
      BY <1>2
    <3>4. QED
      BY <1>2, <2>1, <3>1, <3>2, <3>3 DEF AtPiece
  <2>4. PlacesInv'
    <3>1. ReaderAt(places, Len(seen))'
      BY <1>2, <1>6, <2>1, <2>3 DEF ReaderAt
    <3>2. Closed(places)'
      BY <1>2, <1>3 DEF Closed
    <3>3. stage' # "recording"
      BY <1>2, <2>1 DEF Iterating
    <3>4. QED
      BY <1>2, <1>3, <3>1, <3>2, <3>3 DEF PlacesInv
  <2>5. ReadInv'
    <3>1. Expects(Len(seen))'
      BY <1>2, <1>4, <2>1 DEF Expects
    <3>2. stage' \notin {"ready", "freed"}
      BY <1>2, <2>1 DEF Iterating
    <3>3. QED
      BY <1>1, <1>2, <3>1, <3>2 DEF ReadInv
  <2>6. Counted'
    <3>1. FirstHeld' = FirstHeld
      BY <1>2, <2>1 DEF FirstHeld
    <3>2. QED
      BY <1>1, <1>2, <1>8, <3>1 DEF Counted
  <2>7. QED
    BY <1>7, <2>2, <2>4, <2>5, <2>6 DEF CommandInv
<1>10. CASE ~ (mCurrentBlock < Len(mBlocks))
  <2>1. /\ mCurrentBlock' = 1 /\ readPtr' = 0 /\ reading' = <<>>
        /\ stage' = AfterLastCommand[stage]
        /\ holder' = IF stage = "validating" THEN "buffer" ELSE holder
    BY <1>10 DEF NextBlock
  <2>2. \/ stage \in {"validating", "executing"} /\ stage' = "ready"
        \/ stage = "freeing" /\ stage' = "freed"
    BY <1>2, <2>1 DEF Iterating, AfterLastCommand
  <2>3. HolderInv'
    BY <1>1, <1>2, <2>1, <2>2 DEF HolderInv
  <2>4. r = allocated
    <3>1. ASSUME mBlocks # <<>>, AtTag(places, r), r < allocated
          PROVE  FALSE
      <4>1. places[r + 1].block = mCurrentBlock + 1
        BY <3>1 DEF AtTag
      <4>2. r + 1 \in 1..Len(places)
        BY <1>3, <1>4, <3>1
      <4>3. places[r + 1].block \in 1..Len(mBlocks)
        BY <1>3, <4>2 DEF Placed, Stored, CellIs
      <4>4. QED
        BY <1>6, <1>10, <4>1, <4>3
    <3>2. QED
      BY <1>3, <1>4, <3>1
  <2>5. PlacesInv'
    <3>1. Closed(places)'
      BY <1>2, <1>3 DEF Closed
    <3>2. stage' # "recording" /\ ~Iterating'
      BY <2>2 DEF Iterating
    <3>3. QED
      BY <1>2, <1>3, <3>1, <3>2 DEF PlacesInv
  <2>6. ReadInv'
    <3>1. ~Iterating'
      BY <2>2 DEF Iterating
    <3>2. QED
      BY <1>1, <1>2, <1>4, <2>1, <2>4, <3>1 DEF ReadInv
  <2>7. Counted'
    <3>1. FirstHeld' = FirstHeld
      BY <1>2, <2>2 DEF FirstHeld
    <3>2. QED
      BY <1>1, <1>2, <1>8, <3>1 DEF Counted
  <2>8. QED
    BY <1>7, <2>3, <2>5, <2>6, <2>7 DEF CommandInv
<1>11. QED
  BY <1>9, <1>10

(* After a piece comes the next one, or the end of the block.              *)
LEMMA ReaderMoves ==
  ASSUME CommandInv, NEW places, NEW r \in Nat, AtPiece(places, r), mBlocks # <<>>,
         Placed(mBlocks, asked, places), Len(places) = allocated, Closed(places),
         mCurrentBlock \in Nat, IdPtr \in Nat, asked[r + 1] \in PieceSet,
         readPtr' = CommandPtr(IdPtr, asked[r + 1].of) + PieceSize(asked[r + 1]),
         UNCHANGED <<mBlocks, mCurrentBlock, asked, allocated>>
  PROVE  ReaderAt(places, r + 1)'
<1> DEFINE p == asked[r + 1]
           place == places[r + 1]
<1>1. kId = 4 /\ allocated \in Nat
  BY SizeAssumption DEF CommandInv, MemoryInv
<1>2. r + 1 \in 1..allocated /\ mCurrentBlock = place.block /\ IdPtr = place.at
  BY <1>1 DEF AtPiece
<1>3. /\ PieceSize(p) \in Nat /\ CommandPtr(IdPtr, p.of) \in Nat
      /\ NextPtr(IdPtr, p) = Align(CommandPtr(IdPtr, p.of) + PieceSize(p), kId)
  <2> HIDE DEF p
  <2>1. p \in PieceSet
    BY DEF p
  <2>2. QED
    BY <2>1, PointersOfPiece DEF NextPtr
<1>4. readPtr' \in Nat /\ IdPtr' = After(place, p)
  <2>1. readPtr' = CommandPtr(IdPtr, p.of) + PieceSize(p)
    OBVIOUS
  <2>2. IdPtr' = Align(readPtr', kId)
    BY DEF IdPtr
  <2> HIDE DEF p, place
  <2>3. readPtr' \in Nat
    BY <1>3, <2>1
  <2>4. IdPtr' = NextPtr(IdPtr, p)
    BY <1>3, <2>1, <2>2
  <2>5. QED
    BY <1>2, <2>3, <2>4 DEF After
<1>5. CASE r + 1 < allocated
  <2> DEFINE next == places[r + 2]
  <2>1. NextIs(mBlocks, place, p, next)
    <3>1. /\ r + 1 \in 1..Len(places) /\ r + 1 < Len(places)
          /\ next = places[(r + 1) + 1]
      BY <1>2, <1>5
    <3> HIDE DEF next
    <3>2. QED
      BY <3>1 DEF Placed
  <2>2. CASE next = [block |-> place.block, at |-> After(place, p)]
    <3>1. (r + 1) + 1 = r + 2 /\ next.block = place.block /\ next.at = After(place, p)
      BY <2>2
    <3>2. AtPiece(places, r + 1)'
      BY <1>2, <1>4, <1>5, <3>1 DEF AtPiece
    <3>3. QED
      BY <1>4, <3>2 DEF ReaderAt
  <2>3. CASE /\ next = [block |-> place.block + 1, at |-> 0]
             /\ Tagged(mBlocks, place.block, After(place, p))
    <3>1. (r + 1) + 1 = r + 2 /\ r + 1 > 0 /\ r + 1 # allocated
      BY <1>1, <1>5
    <3>2. AtTag(places, r + 1)'
      BY <1>2, <1>4, <1>5, <2>3, <3>1 DEF AtTag
    <3>3. QED
      BY <1>4, <3>2 DEF ReaderAt
  <2>4. QED
    BY <2>1, <2>2, <2>3 DEF NextIs
<1>6. CASE r + 1 = allocated
  <2>1. place.block = Len(mBlocks) /\ Tagged(mBlocks, Len(mBlocks), After(place, p))
    BY <1>6 DEF Closed
  <2>2. AtTag(places, r + 1)'
    BY <1>2, <1>4, <1>6, <2>1 DEF AtTag
  <2>3. QED
    BY <1>4, <2>2 DEF ReaderAt
<1>7. QED
  BY <1>1, <1>2, <1>5, <1>6

(* When commands are freed, a piece gives back what it holds.              *)
LEMMA PieceGivesBack ==
  ASSUME Counted, NEW r \in Nat, allocated \in Nat, r < allocated, r = Len(seen),
         asked[r + 1] \in PieceSet, stage = "freeing", Len(seen') = r + 1,
         references' = Minus(references, References(asked[r + 1])),
         UNCHANGED <<stage, asked, allocated>>
  PROVE  Counted'
<1> DEFINE q == r + 1
           rest == r + 2 .. allocated
<1>1. FirstHeld = q /\ FirstHeld' = r + 2
  BY DEF FirstHeld
<1>2. \A o \in Objects : \A pieces : PlacesOf(o, pieces)' = PlacesOf(o, pieces)
  BY DEF PlacesOf
<1>3. q..allocated = rest \cup {q} /\ q \notin rest
  OBVIOUS
<1> HIDE DEF q, rest
<1>4. ASSUME NEW o \in Objects
      PROVE  references'[o] = Cardinality(PlacesOf(o, rest))
  <2>1. /\ IsFiniteSet(PlacesOf(o, 1..allocated))
        /\ references[o] = Cardinality(PlacesOf(o, rest \cup {q}))
    BY <1>1, <1>3 DEF Counted
  <2>2. IsFiniteSet(PlacesOf(o, rest))
    <3>1. PlacesOf(o, rest) \in SUBSET PlacesOf(o, 1..allocated)
      BY DEF PlacesOf, rest
    <3>2. QED
      BY <2>1, <3>1, FS_Subset
  <2>3. asked[q] \in PieceSet
    BY DEF q
  <2>4. /\ IsFiniteSet(PlacesOf(o, rest \cup {q}))
        /\ Cardinality(PlacesOf(o, rest)) \in Nat
        /\ References(asked[q])[o] \in Nat
        /\ Cardinality(PlacesOf(o, rest \cup {q})) =
             Cardinality(PlacesOf(o, rest)) + References(asked[q])[o]
    BY <1>3, <2>2, <2>3, OnePieceMore
  <2>5. references'[o] = references[o] - References(asked[q])[o]
    BY DEF Minus, q
  <2>6. QED
    BY <2>1, <2>4, <2>5
<1>5. references' = [o \in Objects |-> references'[o]]
  BY DEF Minus
<1>6. QED
  BY <1>1, <1>2, <1>4, <1>5 DEF Counted, rest

(* A piece is read, and what follows is what is expected.                  *)
LEMMA ReadKeeps ==
  ASSUME CommandInv, Iterating, NEW places, NEW r, r = Len(seen), AtPiece(places, r),
         mBlocks # <<>>, Placed(mBlocks, asked, places), Len(places) = allocated, Closed(places),
         ReaderAt(places, r), IdPtr \in Nat, asked[r + 1] \in PieceSet,
         ReadPiece(asked[r + 1], CommandPtr(IdPtr, asked[r + 1].of)),
         reading' \in Seq([of : Structures, count : Nat]), r + 1 + Len(reading') <= Len(asked),
         \A j \in 1..Len(reading') : /\ asked[r + 1 + j].id = "AdditionalData"
                                     /\ asked[r + 1 + j].of = reading'[j].of
                                     /\ asked[r + 1 + j].count = reading'[j].count,
         r + 1 + Len(reading') < Len(asked) => asked[r + 1 + Len(reading') + 1].id \in Types,
         UNCHANGED <<stage, holder, builderAlive, commandAllocator, mCurrentBlock, reads>>
  PROVE  CommandInv'
<1> DEFINE p == asked[r + 1]
<1>1. HolderInv /\ MemoryInv /\ ReadInv /\ Counted
  BY DEF CommandInv
<1>2. UNCHANGED <<mBlocks, mCurrentPtr, mEndPtr, mLastAllocationSize, asked, allocated>>
  BY DEF commandAllocator
<1>3. /\ seen' = Append(seen, p)
      /\ readPtr' = CommandPtr(IdPtr, p.of) + PieceSize(p)
      /\ references' = IF stage = "freeing" THEN Minus(references, References(p))
                       ELSE references
  BY DEF ReadPiece
<1>4. r \in Nat /\ allocated \in Nat /\ r + 1 <= allocated /\ seen \in Seq(PieceSet)
  BY <1>1, LenProperties DEF AtPiece, MemoryInv, ReadInv
<1>5. /\ seen' \in Seq(PieceSet) /\ Len(seen') = r + 1 /\ seen'[r + 1] = p
      /\ \A k \in 1..r : seen'[k] = seen[k]
  <2> HIDE DEF p
  <2>1. p \in PieceSet
    BY DEF p
  <2>2. QED
    BY <1>3, <1>4, <2>1, AppendProperties
<1>6. HolderInv' /\ MemoryInv'
  BY <1>1, <1>2 DEF HolderInv, MemoryInv
<1>7. PlacesInv'
  <2>1. ReaderAt(places, r + 1)'
    BY <1>2, <1>3, <1>4, ReaderMoves DEF ReaderAt
  <2>2. ReaderAt(places, Len(seen))'
    BY <1>5, <2>1
  <2>3. Closed(places)'
    BY <1>2 DEF Closed
  <2>4. stage' # "recording"
    BY DEF Iterating
  <2>5. QED
    BY <1>2, <2>2, <2>3, <2>4 DEF PlacesInv
<1>8. ReadInv'
  <2>1. Expects(Len(seen))'
    BY <1>2, <1>5 DEF Expects
  <2>2. ASSUME NEW k \in 1..Len(seen')
        PROVE  seen'[k] = asked[k]
    <3>1. CASE k \in 1..r
      BY <1>1, <1>5, <3>1 DEF ReadInv
    <3>2. CASE k = r + 1
      BY <1>5, <3>2
    <3>3. QED
      BY <1>4, <1>5, <3>1, <3>2
  <2>3. stage' \notin {"ready", "freed"}
    BY DEF Iterating
  <2>4. QED
    BY <1>2, <1>4, <1>5, <2>1, <2>2, <2>3 DEF ReadInv
<1>9. Counted'
  <2>1. CASE stage = "freeing"
    BY <1>1, <1>2, <1>3, <1>4, <1>5, <2>1, PieceGivesBack
  <2>2. CASE stage # "freeing"
    <3>1. FirstHeld = 1 /\ FirstHeld' = 1
      BY <2>2 DEF FirstHeld, Iterating
    <3>2. \A o \in Objects : \A pieces : PlacesOf(o, pieces)' = PlacesOf(o, pieces)
      BY <1>2 DEF PlacesOf
    <3>3. references' = references
      BY <1>3, <2>2
    <3>4. QED
      BY <1>1, <1>2, <3>1, <3>2, <3>3 DEF Counted
  <2>3. QED
    BY <2>1, <2>2
<1>10. QED
  BY <1>6, <1>7, <1>8, <1>9 DEF CommandInv

(* A command is read: its data comes next.                                 *)
LEMMA NextCommandKeeps ==
  ASSUME CommandInv, NextCommand
  PROVE  CommandInv'
<1> DEFINE r == Len(seen)
           p == asked[r + 1]
           D == DataOf[p.id]
           m == Len(D)
           ptr == CommandPtr(IdPtr, NextId)
           value == Cells[ptr].value
<1>1. /\ Iterating /\ reading = <<>> /\ NextId \in Types
      /\ ReadPiece([id |-> NextId, of |-> NextId, count |-> 1, value |-> value], ptr)
      /\ reading' = [k \in DOMAIN DataOf[NextId] |->
                       [of |-> DataOf[NextId][k], count |-> value.count]]
      /\ UNCHANGED <<stage, holder, builderAlive, commandAllocator, mCurrentBlock, reads>>
  BY DEF NextCommand, AtCommand
<1>2. NextId # "EndOfBlock"
  BY <1>1, SizeAssumption
<1>3. PICK places :
        /\ Placed(mBlocks, asked, places) /\ Len(places) = allocated
        /\ Closed(places) /\ ReaderAt(places, r)
        /\ AtPiece(places, r) /\ mCurrentBlock \in 1..Len(mBlocks)
        /\ NextId = p.id /\ p \in PieceSet /\ IdPtr \in Nat
        /\ p.count > 0 => Cells[CommandPtr(IdPtr, p.of)].value = p.value
  BY <1>1, <1>2, WhatIsNext
<1>4. /\ allocated = Len(asked) /\ Len(asked) \in Nat /\ r \in Nat /\ r <= allocated
  BY <1>1, WhatIsNext
<1>5. mBlocks # <<>>
  BY <1>3, EmptySeq
<1>6. p.of = p.id /\ p.count = 1
      /\ p = [id |-> p.id, of |-> p.of, count |-> p.count, value |-> p.value]
  <2> HIDE DEF p
  <2>1. p.id \in Types
    BY <1>1, <1>3
  <2>2. QED
    BY <1>3, <2>1, PieceFacts
<1>7. value = p.value /\ ptr = CommandPtr(IdPtr, p.of)
  BY <1>3, <1>6
<1>8. ReadPiece(p, CommandPtr(IdPtr, p.of))
  <2> HIDE DEF p, value, ptr
  <2>1. [id |-> NextId, of |-> NextId, count |-> 1, value |-> value] = p
    BY <1>3, <1>6, <1>7
  <2>2. QED
    BY <1>1, <1>7, <2>1
<1>9. D \in Seq({"uint32", "Ref"}) /\ m \in Nat /\ DOMAIN D = 1..m
  <2>1. D \in Seq({"uint32", "Ref"})
    BY <1>1, <1>3, SizeAssumption
  <2> HIDE DEF D
  <2>2. QED
    BY <2>1, LenProperties
<1>10. r + 1 \in 1..Len(asked)
  BY <1>3, <1>4 DEF AtPiece
<1>11. /\ r + 1 + m <= Len(asked)
       /\ \A j \in 1..m : /\ asked[r + 1 + j].id = "AdditionalData"
                          /\ asked[r + 1 + j].of = D[j]
                          /\ asked[r + 1 + j].count = p.value.count
       /\ r + 1 + m < Len(asked) => asked[r + 1 + m + 1].id \in Types
  <2>1. WellFormed(asked) /\ p.id \in Types
    BY <1>1, <1>3 DEF CommandInv, MemoryInv
  <2>2. QED
    BY <1>10, <2>1 DEF WellFormed
<1>12. reading' = [k \in 1..m |-> [of |-> D[k], count |-> p.value.count]]
  <2> HIDE DEF p, m, value
  <2>1. QED
    BY <1>1, <1>3, <1>7, <1>9 DEF D
<1> HIDE DEF D, m, value, ptr, p
<1>13. \A k \in 1..m : D[k] \in Structures /\ p.value.count \in Nat
  <2>1. TAKE k \in 1..m
  <2>2. D[k] \in Structures
    BY <1>9, ElementOfSeq DEF Structures, m
  <2>3. asked \in Seq(PieceSet)
    BY DEF CommandInv, MemoryInv, WellFormed
  <2>4. r + 1 + k \in 1..Len(asked)
    BY <1>4, <1>9, <1>11
  <2>5. asked[r + 1 + k] \in PieceSet
    BY <2>3, <2>4, ElementOfSeq
  <2>6. QED
    BY <1>11, <2>2, <2>5, PieceFacts
<1>14. reading' \in Seq([of : Structures, count : Nat]) /\ Len(reading') = m
  <2>1. reading' \in [1..m -> [of : Structures, count : Nat]]
    BY <1>12, <1>13
  <2>2. QED
    BY <1>9, <1>12, <2>1
<1>15. \A j \in 1..m : reading'[j].of = D[j] /\ reading'[j].count = p.value.count
  BY <1>12
<1>16. \A j \in 1..Len(reading') : /\ asked[r + 1 + j].id = "AdditionalData"
                                   /\ asked[r + 1 + j].of = reading'[j].of
                                   /\ asked[r + 1 + j].count = reading'[j].count
  BY <1>11, <1>14, <1>15
<1>17. /\ r + 1 + Len(reading') <= Len(asked)
       /\ r + 1 + Len(reading') < Len(asked) => asked[r + 1 + Len(reading') + 1].id \in Types
  BY <1>11, <1>14
<1>18. asked[r + 1] \in PieceSet /\ ReadPiece(asked[r + 1], CommandPtr(IdPtr, asked[r + 1].of))
  BY <1>3, <1>8 DEF p
<1> HIDE DEF r
<1>19. r = Len(seen)
  BY DEF r
<1>20. QED
  BY <1>1, <1>3, <1>5, <1>14, <1>16, <1>17, <1>18, <1>19, ReadKeeps

(* The data of a command is read.                                          *)
LEMMA NextDataKeeps ==
  ASSUME CommandInv, NextData
  PROVE  CommandInv'
<1> DEFINE r == Len(seen)
           p == asked[r + 1]
           of == Head(reading).of
           count == Head(reading).count
           ptr == CommandPtr(IdPtr, of)
           value == IF count = 0 THEN <<>> ELSE Cells[ptr].value
<1>1. /\ Iterating /\ reading # <<>> /\ NextId = "AdditionalData"
      /\ ReadPiece([id |-> "AdditionalData", of |-> of, count |-> count, value |-> value], ptr)
      /\ reading' = Tail(reading)
      /\ UNCHANGED <<stage, holder, builderAlive, commandAllocator, mCurrentBlock, reads>>
  BY DEF NextData, AtData
<1>2. PICK places :
        /\ Placed(mBlocks, asked, places) /\ Len(places) = allocated
        /\ Closed(places) /\ ReaderAt(places, r)
        /\ AtPiece(places, r) /\ mCurrentBlock \in 1..Len(mBlocks)
        /\ NextId = p.id /\ p \in PieceSet /\ IdPtr \in Nat
        /\ p.count > 0 => Cells[CommandPtr(IdPtr, p.of)].value = p.value
  BY <1>1, WhatIsNext
<1>3. /\ allocated = Len(asked) /\ Len(asked) \in Nat /\ r \in Nat /\ Expects(r)
  BY <1>1, WhatIsNext
<1>4. mBlocks # <<>>
  BY <1>2, EmptySeq
<1>5. /\ reading \in Seq([of : Structures, count : Nat]) /\ Len(reading) \in Nat
      /\ Len(reading) > 0 /\ Head(reading) = reading[1] /\ r + Len(reading) <= Len(asked)
      /\ Tail(reading) \in Seq([of : Structures, count : Nat])
      /\ Len(Tail(reading)) = Len(reading) - 1
      /\ \A j \in 1..Len(Tail(reading)) : Tail(reading)[j] = reading[j + 1]
  <2>1. reading \in Seq([of : Structures, count : Nat]) /\ r + Len(reading) <= Len(asked)
    BY <1>3 DEF Expects
  <2>2. QED
    BY <1>1, <2>1, EmptySeq, HeadTailProperties
<1>6. p.id = "AdditionalData" /\ p.of = of /\ p.count = count
  <2>1. 1 \in 1..Len(reading)
    BY <1>5
  <2>2. QED
    BY <1>3, <1>5, <2>1 DEF Expects
<1>7. /\ p = [id |-> p.id, of |-> p.of, count |-> p.count, value |-> p.value]
      /\ p.count \in Nat /\ (p.count = 0 => p.value = <<>>)
  <2> HIDE DEF p
  <2>1. QED
    BY <1>2, <1>6, PieceFacts
<1>8. value = p.value /\ ptr = CommandPtr(IdPtr, p.of)
  <2> HIDE DEF p, of, count
  <2>1. QED
    BY <1>2, <1>6, <1>7
<1>9. ReadPiece(p, CommandPtr(IdPtr, p.of))
  <2> HIDE DEF p, value, ptr, of, count
  <2>1. [id |-> "AdditionalData", of |-> of, count |-> count, value |-> value] = p
    BY <1>6, <1>7, <1>8
  <2>2. QED
    BY <1>1, <1>8, <2>1
<1>10. asked[r + 1] \in PieceSet /\ ReadPiece(asked[r + 1], CommandPtr(IdPtr, asked[r + 1].of))
  BY <1>2, <1>9
<1> HIDE DEF p, value, ptr, of, count
<1>11. /\ reading' \in Seq([of : Structures, count : Nat]) /\ Len(reading') = Len(reading) - 1
       /\ \A j \in 1..Len(reading') : reading'[j] = reading[j + 1]
  BY <1>1, <1>5
<1>12. ASSUME NEW j \in 1..Len(reading')
       PROVE  /\ asked[r + 1 + j].id = "AdditionalData"
              /\ asked[r + 1 + j].of = reading'[j].of
              /\ asked[r + 1 + j].count = reading'[j].count
  <2>1. j + 1 \in 1..Len(reading) /\ r + (j + 1) = r + 1 + j
    BY <1>3, <1>5, <1>11
  <2>2. /\ asked[r + (j + 1)].id = "AdditionalData"
        /\ asked[r + (j + 1)].of = reading[j + 1].of
        /\ asked[r + (j + 1)].count = reading[j + 1].count
    BY <1>3, <2>1 DEF Expects
  <2>3. QED
    BY <1>11, <2>1, <2>2
<1>13. /\ r + 1 + Len(reading') <= Len(asked)
       /\ r + 1 + Len(reading') < Len(asked) => asked[r + 1 + Len(reading') + 1].id \in Types
  <2>1. r + 1 + Len(reading') = r + Len(reading)
    BY <1>3, <1>5, <1>11
  <2>2. QED
    BY <1>3, <1>5, <2>1 DEF Expects
<1> HIDE DEF r
<1>14. r = Len(seen)
  BY DEF r
<1>15. QED
  BY <1>1, <1>2, <1>4, <1>10, <1>11, <1>12, <1>13, <1>14, ReadKeeps

(* Nothing changes.                                                        *)
LEMMA CommandsStutter ==
  ASSUME CommandInv, UNCHANGED commandVars
  PROVE  CommandInv'
<1>1. /\ UNCHANGED <<stage, holder, builderAlive, mBlocks, mCurrentPtr, mEndPtr,
                     mLastAllocationSize, asked, allocated, mCurrentBlock, readPtr, reading, seen,
                     references>>
  BY DEF commandVars, commandAllocator, iterator
<1>2. HolderInv /\ MemoryInv /\ PlacesInv /\ ReadInv /\ Counted
  BY DEF CommandInv
<1>3. HolderInv' /\ MemoryInv'
  BY <1>1, <1>2 DEF HolderInv, MemoryInv
<1>4. PlacesInv'
  <2>1. \A places : /\ AllocatorAt(places)' <=> AllocatorAt(places)
                    /\ Closed(places)' <=> Closed(places)
    BY <1>1 DEF AllocatorAt, Closed, Pending, NextPiece, Fits
  <2>2. \A places, r : ReaderAt(places, r)' <=> ReaderAt(places, r)
    BY <1>1 DEF ReaderAt, AtPiece, AtTag, IdPtr
  <2>3. QED
    BY <1>1, <1>2, <2>1, <2>2 DEF PlacesInv, Iterating
<1>5. ReadInv'
  BY <1>1, <1>2 DEF ReadInv, Iterating, Expects
<1>6. Counted'
  <2>1. FirstHeld' = FirstHeld
    BY <1>1 DEF FirstHeld
  <2>2. \A o \in Objects : \A pieces : PlacesOf(o, pieces)' = PlacesOf(o, pieces)
    BY <1>1 DEF PlacesOf
  <2>3. QED
    BY <1>1, <1>2, <2>1, <2>2 DEF Counted
<1>7. QED
  BY <1>3, <1>4, <1>5, <1>6 DEF CommandInv

(* Every step keeps the invariant.                                         *)
LEMMA CommandInvNext ==
  ASSUME CommandInv, [CommandNext]_commandVars
  PROVE  CommandInv'
<1>1. CASE CommandNext
  <2>1. CASE \E c \in Commands : Record(c)
    BY <2>1, RecordKeeps
  <2>2. CASE AllocatePiece \/ GetNewBlock \/ OutOfMemory
    BY <2>2, AllocateKeeps, NewBlockKeeps, OutOfMemoryKeeps
  <2>3. CASE GetResult \/ Refuse \/ Execute
    BY <2>3, GetResultKeeps, RefuseKeeps, ExecuteKeeps
  <2>4. CASE DestroyBuilder \/ DestroyCommandBuffer
    BY <2>4, DestroyBuilderKeeps, DestroyCommandBufferKeeps
  <2>5. CASE NextBlock \/ NextCommand \/ NextData
    BY <2>5, NextBlockKeeps, NextCommandKeeps, NextDataKeeps
  <2>6. QED
    BY <1>1, <2>1, <2>2, <2>3, <2>4, <2>5 DEF CommandNext
<1>2. CASE UNCHANGED commandVars
  BY <1>2, CommandsStutter
<1>3. QED
  BY <1>1, <1>2

(* Where the iterator is there is always something to read, until the end. *)
LEMMA SomethingIsNext ==
  ASSUME CommandInv, Iterating
  PROVE  AtEndOfBlock \/ AtCommand \/ AtData
<1> DEFINE r == Len(seen)
           p == asked[r + 1]
<1>1. /\ allocated = Len(asked) /\ Len(asked) \in Nat /\ r \in Nat /\ r <= allocated
      /\ Expects(r)
  BY WhatIsNext
<1>2. PICK places :
        /\ Placed(mBlocks, asked, places) /\ Len(places) = allocated
        /\ Closed(places) /\ ReaderAt(places, r)
        /\ \/ mBlocks = <<>> /\ allocated = 0 /\ NextId = "EndOfBlock"
           \/ mBlocks # <<>> /\ AtTag(places, r) /\ NextId = "EndOfBlock"
           \/ /\ AtPiece(places, r) /\ NextId = p.id /\ p \in PieceSet
              /\ p.count > 0 => CellHolds(CommandPtr(IdPtr, p.of), "piece")
  BY WhatIsNext
<1>3. /\ Len(reading) \in Nat /\ r + Len(reading) <= Len(asked)
      /\ Len(reading) = 0 => reading = <<>>
  BY <1>1, LenProperties, EmptySeq DEF Expects
<1>4. CASE r = allocated /\ NextId = "EndOfBlock"
  <2>1. reading = <<>>
    BY <1>1, <1>3, <1>4
  <2>2. QED
    BY <1>4, <2>1 DEF AtEndOfBlock
<1>5. CASE r < allocated /\ mBlocks # <<>> /\ AtTag(places, r) /\ NextId = "EndOfBlock"
  <2>1. places[r + 1].block = mCurrentBlock + 1
    BY <1>5 DEF AtTag
  <2>2. r + 1 \in 1..Len(places)
    BY <1>1, <1>2, <1>5
  <2>3. places[r + 1].block \in 1..Len(mBlocks)
    BY <1>2, <2>2 DEF Placed, Stored, CellIs
  <2>4. mCurrentBlock \in Nat
    BY <1>2 DEF ReaderAt
  <2>5. Len(mBlocks) \in Nat
    BY LenProperties DEF CommandInv, MemoryInv
  <2>6. mCurrentBlock < Len(mBlocks)
    BY <2>1, <2>3, <2>4, <2>5
  <2>7. QED
    BY <1>5, <2>6 DEF AtEndOfBlock
<1>6. CASE /\ AtPiece(places, r) /\ NextId = p.id /\ p \in PieceSet
           /\ p.count > 0 => CellHolds(CommandPtr(IdPtr, p.of), "piece")
  <2>1. CASE reading = <<>>
    <3>1. Len(reading) = 0 /\ r < allocated
      BY <1>6, <2>1, EmptySeq DEF AtPiece
    <3>2. p.id \in Types
      BY <1>1, <3>1 DEF Expects
    <3> HIDE DEF p
    <3>3. p.of = p.id /\ p.count = 1
      BY <1>6, <3>2, PieceFacts
    <3>4. QED
      BY <1>6, <2>1, <3>2, <3>3 DEF AtCommand
  <2>2. CASE reading # <<>>
    <3>1. reading \in Seq([of : Structures, count : Nat]) /\ Len(reading) > 0
      BY <1>1, <1>3, <2>2 DEF Expects
    <3>2. Head(reading) = reading[1] /\ 1 \in 1..Len(reading)
      BY <1>3, <2>2, <3>1, HeadTailProperties
    <3>3. p.id = "AdditionalData" /\ p.of = Head(reading).of /\ p.count = Head(reading).count
      BY <1>1, <3>2 DEF Expects
    <3> HIDE DEF p
    <3>4. p.count \in Nat
      BY <1>6, PieceFacts
    <3>5. QED
      BY <1>6, <2>2, <3>3, <3>4 DEF AtData
  <2>3. QED
    BY <2>1, <2>2
<1>7. QED
  BY <1>1, <1>2, <1>4, <1>5, <1>6

(* What is read is what was recorded.                                      *)
LEMMA ReadsAreRight == CommandInv => ReadsWhatWasRecorded
<1> SUFFICES ASSUME CommandInv
             PROVE  ReadsWhatWasRecorded
  OBVIOUS
<1>1. HolderInv /\ MemoryInv /\ PlacesInv /\ ReadInv
  BY DEF CommandInv
<1>2. /\ mBlocks \in Seq(Block) /\ DOMAIN mBlocks = 1..Len(mBlocks)
      /\ \A i \in 1..Len(mBlocks) : Apart(mBlocks[i].cells, mBlocks[i].size)
      /\ seen \in Seq(PieceSet) /\ DOMAIN seen = 1..Len(seen) /\ Len(seen) \in Nat
      /\ allocated \in Nat /\ Len(asked) \in Nat /\ allocated <= Len(asked)
  BY <1>1, LenProperties DEF MemoryInv, ReadInv, WellFormed
<1>3. PiecesAreApart
  BY <1>2 DEF PiecesAreApart, Apart
<1>4. FreshBlockFits
  <2>1. CASE stage = "recording"
    BY <1>1, <2>1 DEF PlacesInv, AllocatorAt, FreshBlockFits
  <2>2. CASE stage = "crashed"
    BY <1>1, <2>2 DEF MemoryInv, FreshBlockFits
  <2>3. CASE stage \notin {"recording", "crashed"}
    <3>1. ~Pending
      BY <1>1, <1>2, <2>3 DEF PlacesInv, Closed, Pending
    <3>2. QED
      BY <3>1 DEF FreshBlockFits
  <2>4. QED
    BY <2>1, <2>2, <2>3
<1>5. Iterating => AtEndOfBlock \/ AtCommand \/ AtData
  BY SomethingIsNext
<1>6. /\ Len(seen) <= Len(asked) /\ \A k \in DOMAIN seen : seen[k] = asked[k]
      /\ stage \in {"ready", "freed"} => Len(seen) = Len(asked)
  BY <1>1, <1>2 DEF ReadInv
<1>7. QED
  BY <1>3, <1>4, <1>5, <1>6 DEF ReadsWhatWasRecorded

(* The references are the ones of the commands.                            *)
LEMMA ReferencesAreRight == CommandInv => ReferencesAreHeld
<1> SUFFICES ASSUME CommandInv, NEW o \in Objects
             PROVE  /\ stage = "freed" => references[o] = 0
                    /\ holder = "buffer"
                       \/ (stage \in {"recording", "validating", "refused"} /\ ~Pending) =>
                         references[o] = Cardinality(PlacesOf(o, DOMAIN asked))
  BY DEF ReferencesAreHeld
<1>1. HolderInv /\ MemoryInv /\ PlacesInv /\ ReadInv /\ Counted
  BY DEF CommandInv
<1>2. /\ allocated \in Nat /\ Len(asked) \in Nat /\ allocated <= Len(asked)
      /\ DOMAIN asked = 1..Len(asked) /\ Len(seen) \in Nat
  BY <1>1, LenProperties DEF MemoryInv, ReadInv, WellFormed
<1>3. references[o] = Cardinality(PlacesOf(o, FirstHeld..allocated))
  BY <1>1 DEF Counted
<1>4. ASSUME stage = "freed"
      PROVE  references[o] = 0
  <2>1. FirstHeld = Len(seen) + 1 /\ Len(seen) = Len(asked)
    BY <1>1, <1>4 DEF FirstHeld, ReadInv
  <2>2. FirstHeld..allocated = {}
    BY <1>2, <2>1
  <2>3. PlacesOf(o, {}) = {}
    BY DEF PlacesOf
  <2>4. QED
    BY <1>3, <2>2, <2>3, FS_EmptySet
<1>5. ASSUME holder = "buffer"
             \/ (stage \in {"recording", "validating", "refused"} /\ ~Pending)
      PROVE  references[o] = Cardinality(PlacesOf(o, DOMAIN asked))
  <2>1. FirstHeld = 1
    BY <1>1, <1>5 DEF HolderInv, FirstHeld
  <2>2. allocated = Len(asked)
    <3>1. CASE stage \in {"recording", "validating", "refused"} /\ ~Pending
      <4>1. ~ (allocated < Len(asked))
        BY <3>1 DEF Pending
      <4>2. allocated \in Nat /\ Len(asked) \in Nat /\ allocated <= Len(asked)
        BY <1>2
      <4>3. QED
        BY ONLY <4>1, <4>2
    <3>2. CASE holder = "buffer"
      <4>1. stage \notin {"recording", "crashed"}
        BY <1>1, <3>2 DEF HolderInv
      <4>2. QED
        BY <1>1, <4>1 DEF PlacesInv, Closed
    <3>3. QED
      BY <1>5, <3>1, <3>2
  <2>3. QED
    BY <1>2, <1>3, <2>1, <2>2
<1>6. QED
  BY <1>4, <1>5

(* The invariant of the stored commands.                                   *)
THEOREM CommandsInvariant == CommandSpec => []CommandInv
<1>1. CommandInv /\ [CommandNext]_commandVars => CommandInv'
  BY CommandInvNext
<1>2. QED
  BY <1>1, CommandInvInit, PTL DEF CommandSpec

(* Whatever is recorded, for whatever sizes of structures and blocks, is   *)
(* read back by the validation, by the backends and by FreeCommands.       *)
THEOREM CommandsAreReadBack == CommandSpec => []ReadsWhatWasRecorded
<1>1. QED
  BY CommandsInvariant, ReadsAreRight, PTL

(* The commands hold the references that they took until they are freed,   *)
(* each once.                                                              *)
THEOREM CommandsHoldReferences == CommandSpec => []ReferencesAreHeld
<1>1. QED
  BY CommandsInvariant, ReferencesAreRight, PTL
=============================================================================
