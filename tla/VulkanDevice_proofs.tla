------------------------ MODULE VulkanDevice_proofs ------------------------
(* Theorems about VulkanDevice, for every value of its constants. *)
EXTENDS VulkanDevice, TLAPS, WellFoundedInduction

USE DEF Serials

(* Every step keeps the type invariant. *)
LEMMA TypeStep == TypeOK /\ [Next]_vars => TypeOK'
<1> SUFFICES ASSUME TypeOK, [Next]_vars PROVE TypeOK'
  OBVIOUS
<1> USE DEF TypeOK, deviceVars, fenceVars, commandVars, deleterVars, requestVars,
            nativeVars, controlVars
<1>1. ASSUME NEW b \in Buffers, CreateBuffer(b) PROVE TypeOK'
  BY <1>1 DEF CreateBuffer
<1>2. ASSUME NEW b \in Buffers, ReleaseBuffer(b) PROVE TypeOK'
  BY <1>2 DEF ReleaseBuffer, DeleteWhenUnused, Entries, Enqueue, UpTo, ClearUpTo, Items
<1>3. ASSUME NEW b \in Buffers, NEW staging \in Buffers, SetSubData(b, staging)
      PROVE  TypeOK'
  BY <1>3 DEF SetSubData, DeleteWhenUnused, RecordInto, Entries, Enqueue, UpTo, ClearUpTo, Items
<1>4. ASSUME NEW b \in Buffers, MapAsync(b) PROVE TypeOK'
  BY <1>4 DEF MapAsync, RecordInto, Entries, Enqueue, UpTo, ClearUpTo, Items
<1>5. ASSUME NEW uses \in SUBSET appRefs, QueueSubmit(uses) PROVE TypeOK'
  BY <1>5 DEF QueueSubmit, RecordInto, SubmitPendingCommands, Entries, Enqueue, UpTo, ClearUpTo, Items
<1>6. ASSUME NEW s \in Semaphores, GetNextTexture(s) PROVE TypeOK'
  BY <1>6 DEF GetNextTexture
<1>7. CASE Tick
  BY <1>7 DEF Tick
<1>8. CASE PassFence
  BY <1>8 DEF PassFence, ResetFence, Entries
<1>9. CASE RecycleCompletedCommands
  BY <1>9 DEF RecycleCompletedCommands, Entries, Enqueue, UpTo, ClearUpTo, Items
<1>10. CASE FireMapCallback
  BY <1>10 DEF FireMapCallback, RequestsToFire, Entries, Enqueue, UpTo, ClearUpTo, Items
<1>11. CASE CallbackReturns
  BY <1>11 DEF CallbackReturns
<1>12. CASE ClearMapRequests
  BY <1>12 DEF ClearMapRequests, DeleteWhenUnused, LastRefs, Entries, Enqueue, UpTo, ClearUpTo, Items
<1>13. CASE DeleteBuffers
  BY <1>13 DEF DeleteBuffers, Entries, Enqueue, UpTo, ClearUpTo, Items
<1>14. CASE DeleteOthers
  BY <1>14 DEF DeleteOthers, Entries, Enqueue, UpTo, ClearUpTo, Items
<1>15. CASE TickSubmits
  BY <1>15 DEF TickSubmits, SubmitPendingCommands, AfterTick, Entries, Enqueue, UpTo, ClearUpTo, Items
<1>16. CASE TickMovesOn
  BY <1>16 DEF TickMovesOn, AfterTick
<1>17. CASE DestroyDevice
  BY <1>17 DEF DestroyDevice
<1>18. CASE QueueIsIdle
  BY <1>18 DEF QueueIsIdle
<1>19. CASE ForceCompletion
  BY <1>19 DEF ForceCompletion, ForcedSerial
<1>20. CASE DestroyVkDevice
  BY <1>20 DEF DestroyVkDevice
<1>21. CASE GpuFinish
  BY <1>21 DEF GpuFinish
<1>22. CASE UNCHANGED vars
  BY <1>22 DEF vars
<1> HIDE DEF TypeOK, deviceVars, fenceVars, commandVars, deleterVars, requestVars,
             nativeVars, controlVars
<1>23. QED
  BY <1>1, <1>2, <1>3, <1>4, <1>5, <1>6, <1>7, <1>8, <1>9, <1>10, <1>11, <1>12,
     <1>13, <1>14, <1>15, <1>16, <1>17, <1>18, <1>19, <1>20, <1>21, <1>22
     DEF Next, Api, TickStep, Destruction, Terminated

(* Every variable keeps the shape of the member it stands for: TypeOK is      *)
(* inductive by itself.                                                       *)
THEOREM TypeCorrect == Spec => []TypeOK
<1>1. Init => TypeOK
  <2> SUFFICES ASSUME Init PROVE TypeOK
    OBVIOUS
  <2>1. recorded \in [Pools -> SUBSET Buffers]
    BY DEF Init
  <2>2. QED
    BY <2>1 DEF Init, TypeOK
<1>2. QED
  BY <1>1, TypeStep, PTL DEF Spec

-----------------------------------------------------------------------------
(* A queue that is not empty has a front. *)
LEMMA LeastNat ==
  ASSUME NEW T \in SUBSET Nat, T # {}
  PROVE  \E m \in T : \A k \in T : m <= k
<1> DEFINE R == OpToRel(<, Nat)
<1>1. PICK m \in T : \A k \in T : ~ (<<k, m>> \in R)
  <2> HIDE DEF R
  <2>1. IsWellFoundedOn(R, Nat)
    BY NatLessThanWellFounded DEF R
  <2>2. QED
    BY <2>1, WFMin
<1>2. \A k \in T : ~ (k < m)
  BY <1>1 DEF OpToRel
<1>3. QED
  BY <1>2

(* A queue that is not empty has a front: an entry with the least serial.     *)
LEMMA FrontExists ==
  ASSUME NEW S, NEW q \in SUBSET Entries(S), q # {}
  PROVE  \E e \in q : IsFront(e, q)
<1> DEFINE T == {e.serial : e \in q}
<1>1. T \in SUBSET Nat /\ T # {}
  BY DEF Entries
<1>2. PICK m \in T : \A k \in T : m <= k
  <2> HIDE DEF T
  <2>1. QED
    BY <1>1, LeastNat
<1>3. QED
  BY <1>2 DEF IsFront

-----------------------------------------------------------------------------
(* Fences and serials. *)

(* The steps that the fences and serials take part in. *)
LEMMA FenceFrame ==
  ASSUME TypeOK, PhaseInv, [Next]_vars
  PROVE  \/ UNCHANGED <<deviceVars, fenceVars, vkQueue>>
         \/ PassFence
         \/ /\ ~destroying
            /\ \E p \in Pools : SubmitPendingCommands(p)
            /\ UNCHANGED <<mCompletedSerial, signaled>>
         \/ TickMovesOn
         \/ ForceCompletion
         \/ GpuFinish
         \/ DestroyVkDevice
<1> USE DEF deviceVars, fenceVars
<1>1. CASE Api
  BY <1>1 DEF Api, CreateBuffer, ReleaseBuffer, SetSubData, MapAsync, QueueSubmit,
              GetNextTexture, InLiveApp
<1>2. CASE Tick \/ TickStep
  BY <1>2 DEF TypeOK, PhaseInv, Tick, TickStep, RecycleCompletedCommands, FireMapCallback,
              CallbackReturns, ClearMapRequests, DeleteBuffers, DeleteOthers, TickSubmits
<1>3. CASE Destruction
  BY <1>3 DEF Destruction, DestroyDevice, QueueIsIdle
<1>4. CASE UNCHANGED vars
  BY <1>4 DEF vars
<1>5. QED
  BY <1>1, <1>2, <1>3, <1>4 DEF Next, Terminated

(* ~Device has waited for the queue: every fence has passed. *)
LEMMA AllFencesPassed ==
  ASSUME TypeOK, PhaseInv, FenceInv, pc = "lastFences", NoFencePassed
  PROVE  mFencesInFlight = {}
<1>1. \A e \in mFencesInFlight : e.item \in signaled
  BY DEF PhaseInv, FenceInv
<1>2. \A e \in mFencesInFlight : ~ IsFront(e, mFencesInFlight)
  BY <1>1 DEF NoFencePassed, IsNextFence
<1>3. QED
  BY <1>2, FrontExists DEF TypeOK

(* Every step keeps fences in flight and GPU submissions in correspondence.    *)
LEMMA FenceStep ==
  ASSUME TypeOK, PhaseInv, FenceInv, [Next]_vars
  PROVE  FenceInv'
<1> USE DEF TypeOK, Entries
<1>1. CASE UNCHANGED <<deviceVars, fenceVars, vkQueue>>
  BY <1>1 DEF FenceInv, deviceVars, fenceVars
<1>2. CASE PassFence
  <2>1. PICK e \in mFencesInFlight :
          /\ IsFront(e, mFencesInFlight)
          /\ e.item \in signaled
          /\ signaled' = signaled \ {e.item}
          /\ mUnusedFences' = mUnusedFences \cup {e.item}
          /\ mFencesInFlight' = mFencesInFlight \ {e}
          /\ mCompletedSerial' = e.serial
    BY <1>2 DEF PassFence, IsNextFence, ResetFence
  <2>2. UNCHANGED <<mNextSerial, vkQueue>>
    BY <1>2 DEF PassFence
  <2>3. \A g \in mFencesInFlight' : e.serial < g.serial /\ g.item # e.item
    BY <2>1 DEF FenceInv, IsFront
  <2>4. QED
    BY <2>1, <2>2, <2>3 DEF FenceInv
<1>3. ASSUME ~destroying, NEW p \in Pools, SubmitPendingCommands(p),
             UNCHANGED <<mCompletedSerial, signaled>>
      PROVE  FenceInv'
  <2>1. PICK f \in Fences :
          /\ GetUnusedFence(f)
          /\ vkQueue' = vkQueue \cup {[pool |-> p, fence |-> f, serial |-> mNextSerial,
                                       waits |-> mWaitSemaphores]}
          /\ mUnusedFences' = mUnusedFences \ {f}
          /\ mFencesInFlight' = mFencesInFlight \cup
                                  {[item |-> f, serial |-> mNextSerial]}
          /\ mNextSerial' = mNextSerial + 1
    BY <1>3 DEF SubmitPendingCommands, Enqueue
  <2>2. f \notin signaled /\ \A e \in mFencesInFlight : e.item # f
    BY <2>1 DEF GetUnusedFence, FenceInv, Items
  <2>3. \A s \in vkQueue : s.serial < mNextSerial
    BY DEF FenceInv
  <2>4. \A e \in mFencesInFlight : mCompletedSerial < e.serial /\ e.serial < mNextSerial
    BY DEF FenceInv
  <2>5. mCompletedSerial < mNextSerial
    BY <1>3 DEF PhaseInv
  <2>6. QED
    <3> DEFINE ent == [item |-> f, serial |-> mNextSerial]
               sub == [pool |-> p, fence |-> f, serial |-> mNextSerial,
                       waits |-> mWaitSemaphores]
    <3>a. /\ ent \in mFencesInFlight' /\ ent.item = f /\ ent.serial = mNextSerial
          /\ sub \in vkQueue' /\ sub.fence = f /\ sub.serial = mNextSerial
          /\ mFencesInFlight' = mFencesInFlight \cup {ent}
          /\ vkQueue' = vkQueue \cup {sub}
      BY <2>1
    <3> HIDE DEF ent, sub
    <3>1. \A e \in mFencesInFlight' : mCompletedSerial < e.serial /\ e.serial < mNextSerial + 1
      BY <2>1, <2>4, <2>5
    <3>2. \A e \in mFencesInFlight' :
            /\ e.item \notin mUnusedFences'
            /\ e.item \in signaled \/ \E s \in vkQueue' : s.fence = e.item
      BY <2>1, <2>2, <3>a DEF FenceInv
    <3>3. \A e, g \in mFencesInFlight' : e.item = g.item \/ e.serial = g.serial => e = g
      BY <2>1, <2>2, <2>4 DEF FenceInv
    <3>4. \A s \in vkQueue' :
            /\ s.fence \notin signaled
            /\ \E e \in mFencesInFlight' : e.item = s.fence /\ e.serial = s.serial
      BY <2>1, <2>2, <3>a DEF FenceInv
    <3>5. \A s, t \in vkQueue' : s.serial = t.serial => s = t
      BY <2>1, <2>3 DEF FenceInv
    <3>6. \A g \in signaled : \E e \in mFencesInFlight' : e.item = g
      BY <2>1 DEF FenceInv
    <3>7. QED
      BY <1>3, <2>1, <3>1, <3>2, <3>3, <3>4, <3>5, <3>6 DEF FenceInv
<1>4. CASE TickMovesOn
  <2>1. CASE NothingInFlight /\ ~destroying
    <3>1. mFencesInFlight = {} /\ vkQueue = {}
      BY <2>1 DEF NothingInFlight, FenceInv
    <3>2. QED
      BY <1>4, <3>1 DEF TickMovesOn, FenceInv, fenceVars
  <2>2. CASE ~ NothingInFlight
    BY <1>4, <2>2 DEF TickMovesOn, FenceInv, fenceVars, deviceVars
  <2>3. CASE destroying
    BY <1>4, <2>3 DEF TickMovesOn, FenceInv, PhaseInv, fenceVars, deviceVars
  <2>4. QED
    BY <2>1, <2>2, <2>3
<1>5. CASE ForceCompletion
  <2>1. mFencesInFlight = {} /\ vkQueue = {}
    BY <1>5, AllFencesPassed DEF ForceCompletion, PhaseInv
  <2>2. QED
    BY <1>5, <2>1 DEF ForceCompletion, FenceInv, fenceVars
<1>6. CASE GpuFinish
  <2>1. PICK s \in vkQueue : /\ IsFront(s, vkQueue)
                             /\ vkQueue' = vkQueue \ {s}
                             /\ signaled' = signaled \cup {s.fence}
    BY <1>6 DEF GpuFinish
  <2>2. UNCHANGED <<mFencesInFlight, mUnusedFences, deviceVars>>
    BY <1>6 DEF GpuFinish
  <2>3. \A t \in vkQueue : t.fence = s.fence => t = s
    BY DEF FenceInv
  <2>4. QED
    BY <2>1, <2>2, <2>3 DEF FenceInv, deviceVars
<1>7. CASE DestroyVkDevice
  BY <1>7 DEF DestroyVkDevice, FenceInv, deviceVars
<1>8. QED
  BY <1>1, <1>2, <1>3, <1>4, <1>5, <1>6, <1>7, FenceFrame

(* Every step keeps what the place of the thread in Tick or ~Device implies.   *)
LEMMA PhaseStep ==
  ASSUME TypeOK, PhaseInv, FenceInv, [Next]_vars
  PROVE  PhaseInv'
<1> USE DEF PhaseInv, deviceVars, fenceVars, commandVars, controlVars
<1>1. CASE Api
  <2> USE DEF InLiveApp, InApp
  <2>1. ASSUME NEW b \in Buffers, CreateBuffer(b) \/ ReleaseBuffer(b) \/ MapAsync(b)
        PROVE  PhaseInv'
    BY <2>1 DEF CreateBuffer, ReleaseBuffer, MapAsync
  <2>2. ASSUME NEW b \in Buffers, NEW staging \in Buffers, SetSubData(b, staging)
        PROVE  PhaseInv'
    BY <2>2 DEF SetSubData
  <2>3. ASSUME NEW uses \in SUBSET appRefs, QueueSubmit(uses)
        PROVE  PhaseInv'
    BY <2>3 DEF QueueSubmit, SubmitPendingCommands, TypeOK
  <2>4. ASSUME NEW s \in Semaphores, GetNextTexture(s)
        PROVE  PhaseInv'
    BY <2>4 DEF GetNextTexture
  <2>5. QED
    BY <1>1, <2>1, <2>2, <2>3, <2>4 DEF Api
<1>2. CASE Tick
  BY <1>2 DEF Tick
<1>3. CASE PassFence
  BY <1>3 DEF PassFence, FenceInv, TypeOK, Entries
<1>4. CASE RecycleCompletedCommands \/ FireMapCallback \/ CallbackReturns
             \/ ClearMapRequests \/ DeleteBuffers \/ DeleteOthers
  BY <1>4 DEF RecycleCompletedCommands, FireMapCallback, CallbackReturns,
              ClearMapRequests, DeleteBuffers, DeleteOthers
<1>5. CASE TickSubmits
  BY <1>5 DEF TickSubmits, SubmitPendingCommands, AfterTick, TypeOK
<1>6. CASE TickMovesOn
  BY <1>6 DEF TickMovesOn, NothingInFlight, AfterTick, TypeOK
<1>7. CASE DestroyDevice \/ QueueIsIdle \/ DestroyVkDevice
  BY <1>7 DEF DestroyDevice, QueueIsIdle, DestroyVkDevice
<1>8. CASE ForceCompletion
  BY <1>8, AllFencesPassed DEF ForceCompletion, ForcedSerial
<1>9. CASE GpuFinish
  BY <1>9 DEF GpuFinish
<1>10. CASE UNCHANGED vars
  BY <1>10 DEF vars
<1>11. QED
  BY <1>1, <1>2, <1>3, <1>4, <1>5, <1>6, <1>7, <1>8, <1>9, <1>10
     DEF Next, TickStep, Destruction, Terminated

(* Serials, fences and submissions agree: mCompletedSerial stays behind every  *)
(* submission and every fence in flight, and in ~Device nothing is in flight   *)
(* any more when completion is forced.                                         *)
THEOREM SerialsCorrect == Spec => [](PhaseInv /\ FenceInv)
<1>1. Init => PhaseInv /\ FenceInv
  BY DEF Init, PhaseInv, FenceInv
<1>2. QED
  BY <1>1, TypeCorrect, PhaseStep, FenceStep, PTL DEF Spec

(* mCompletedSerial never runs ahead of the GPU. *)
THEOREM CompletedFinished == Spec => []CompletedIsFinished
<1>1. TypeOK /\ PhaseInv /\ FenceInv => CompletedIsFinished
  BY DEF PhaseInv, FenceInv, CompletedIsFinished, TypeOK, Entries
<1>2. QED
  BY <1>1, TypeCorrect, SerialsCorrect, PTL

(* The assertion of CheckPassedFences holds. *)
THEOREM FencesOrdered == Spec => []FencesPassInOrder
<1>1. FenceInv => FencesPassInOrder
  BY DEF FenceInv, FencesPassInOrder
<1>2. QED
  BY <1>1, SerialsCorrect, PTL

-----------------------------------------------------------------------------
(* Command pools. *)

(* The pool that GetPendingCommandBuffer returns is not in flight. *)
LEMMA PendingPoolIsFree ==
  ASSUME PoolInv, NEW p \in Pools, GetPendingCommandBuffer(p)
  PROVE  \A e \in mCommandsInFlight : e.item # p
BY DEF PoolInv, GetPendingCommandBuffer, Items

(* Recording more commands. *)
LEMMA PoolRecord ==
  ASSUME PoolInv, NEW p \in Pools, GetPendingCommandBuffer(p),
         mPendingCommands' = p, mUnusedCommands' = mUnusedCommands \ {p},
         UNCHANGED <<mNextSerial, mCommandsInFlight, vkQueue>>
  PROVE  PoolInv'
BY PendingPoolIsFree DEF PoolInv

(* Submitting them. *)
LEMMA PoolSubmit ==
  ASSUME TypeOK, PoolInv, FenceInv, NEW p \in Pools,
         \A e \in mCommandsInFlight : e.item # p,
         SubmitPendingCommands(p), mUnusedCommands' = mUnusedCommands \ {p}
  PROVE  PoolInv'
<1> DEFINE ent == [item |-> p, serial |-> mNextSerial]
<1>1. /\ mCommandsInFlight' = mCommandsInFlight \cup {ent}
      /\ mNextSerial' = mNextSerial + 1
      /\ mPendingCommands' = NoPool
  BY DEF SubmitPendingCommands, Enqueue
<1>2. ent.item = p /\ ent.serial = mNextSerial
  OBVIOUS
<1>3. \E f \in Fences :
        vkQueue' = vkQueue \cup {[pool |-> p, fence |-> f, serial |-> mNextSerial,
                                 waits |-> mWaitSemaphores]}
  BY DEF SubmitPendingCommands
<1> HIDE DEF ent
<1>4. \A e \in mCommandsInFlight' :
        e.serial < mNextSerial' /\ e.item \notin mUnusedCommands' \cup {mPendingCommands'}
  BY <1>1, <1>2, NoPoolAssumption DEF PoolInv, TypeOK, Entries
<1>5. \A e, g \in mCommandsInFlight' : e.item = g.item => e = g
  BY <1>1, <1>2 DEF PoolInv
<1>6. \A s \in vkQueue' : \E e \in mCommandsInFlight' : e.item = s.pool /\ e.serial = s.serial
  BY <1>1, <1>2, <1>3 DEF PoolInv
<1>7. mPendingCommands' \notin mUnusedCommands'
  BY <1>1, NoPoolAssumption DEF TypeOK
<1>8. QED
  BY <1>4, <1>5, <1>6, <1>7 DEF PoolInv

(* Every step keeps a command pool in one place.                              *)
LEMMA PoolStep ==
  ASSUME TypeOK, PhaseInv, FenceInv, PoolInv, [Next]_vars
  PROVE  PoolInv'
<1> USE DEF deviceVars, commandVars
<1>1. CASE UNCHANGED <<mNextSerial, mPendingCommands, mCommandsInFlight,
                       mUnusedCommands, vkQueue>>
  BY <1>1 DEF PoolInv
<1>2. ASSUME NEW b \in Buffers, MapAsync(b) PROVE PoolInv'
  BY <1>2, PoolRecord DEF MapAsync
<1>3. ASSUME NEW b \in Buffers, NEW staging \in Buffers, SetSubData(b, staging)
      PROVE  PoolInv'
  BY <1>3, PoolRecord DEF SetSubData
<1>4. ASSUME NEW uses \in SUBSET appRefs, QueueSubmit(uses) PROVE PoolInv'
  BY <1>4, PoolSubmit, PendingPoolIsFree DEF QueueSubmit
<1>5. CASE TickSubmits
  <2>1. mPendingCommands \in Pools /\ mUnusedCommands' = mUnusedCommands \ {mPendingCommands}
    BY <1>5 DEF TickSubmits, TypeOK, PoolInv
  <2>2. \A e \in mCommandsInFlight : e.item # mPendingCommands
    BY DEF PoolInv
  <2>3. QED
    BY <1>5, <2>1, <2>2, PoolSubmit DEF TickSubmits
<1>6. CASE RecycleCompletedCommands
  <2> DEFINE left == {e \in mCommandsInFlight : ~ (e.serial <= mCompletedSerial)}
  <2>1. /\ mCommandsInFlight' = left
        /\ UNCHANGED <<mNextSerial, mPendingCommands, vkQueue>>
        /\ mUnusedCommands' = mUnusedCommands \cup
             {e.item : e \in mCommandsInFlight \ left}
    BY <1>6 DEF RecycleCompletedCommands, ClearUpTo, UpTo, Items
  <2>2. \A s \in vkQueue : mCompletedSerial < s.serial /\ s.serial \in Nat
    BY DEF FenceInv, TypeOK
  <2>3. \A s \in vkQueue : \E e \in left : e.item = s.pool /\ e.serial = s.serial
    BY <2>2 DEF PoolInv, TypeOK
  <2>4. QED
    BY <2>1, <2>3 DEF PoolInv
<1>7. CASE TickMovesOn
  BY <1>7 DEF TickMovesOn, PoolInv, TypeOK, Entries
<1>8. CASE DestroyDevice
  BY <1>8, NoPoolAssumption DEF DestroyDevice, PoolInv, TypeOK, Entries
<1>9. CASE DestroyVkDevice
  BY <1>9 DEF DestroyVkDevice, PoolInv
<1>10. CASE GpuFinish
  BY <1>10 DEF GpuFinish, PoolInv
<1>11. CASE Api
  BY <1>1, <1>2, <1>3, <1>4, <1>11 DEF Api, CreateBuffer, ReleaseBuffer, GetNextTexture
<1>12. CASE Tick \/ TickStep
  BY <1>1, <1>5, <1>6, <1>7, <1>12
     DEF Tick, TickStep, PassFence, FireMapCallback, CallbackReturns,
         ClearMapRequests, DeleteBuffers, DeleteOthers
<1>13. CASE Destruction
  BY <1>1, <1>8, <1>9, <1>13 DEF Destruction, QueueIsIdle, ForceCompletion
<1>14. CASE UNCHANGED vars
  BY <1>1, <1>14 DEF vars
<1>15. QED
  BY <1>10, <1>11, <1>12, <1>13, <1>14 DEF Next, Terminated

(* A command pool is being recorded, in flight or unused, and only one of      *)
(* these: GetPendingCommandBuffer never takes a pool that the GPU still reads. *)
THEOREM PoolsCorrect == Spec => []PoolInv
<1>1. Init => PoolInv
  BY NoPoolAssumption DEF Init, PoolInv
<1>2. QED
  BY <1>1, TypeCorrect, SerialsCorrect, PoolStep, PTL DEF Spec

(* Pools and fences are reused only when the submission is finished. *)
THEOREM RecyclingSafe == Spec => []RecycledOnlyWhenFinished
<1>1. TypeOK /\ FenceInv /\ PoolInv => RecycledOnlyWhenFinished
  BY DEF FenceInv, PoolInv, RecycledOnlyWhenFinished
<1>2. QED
  BY <1>1, TypeCorrect, SerialsCorrect, PoolsCorrect, PTL

-----------------------------------------------------------------------------
(* Deferred deletion. *)

(* Recording changes the contents of no pool that the GPU executes. *)
LEMMA RecordEffect ==
  ASSUME TypeOK, PoolInv, NEW p \in Pools, NEW uses \in SUBSET Buffers,
         GetPendingCommandBuffer(p), RecordInto(p, uses)
  PROVE  /\ \A s \in vkQueue : recorded'[s.pool] = recorded[s.pool] /\ s.pool # p
         /\ recorded'[p] = uses \cup
              (IF mPendingCommands = NoPool THEN {} ELSE recorded[mPendingCommands])
<1>1. \A s \in vkQueue : s.pool # p /\ s.pool \in Pools
  BY PendingPoolIsFree DEF PoolInv, TypeOK
<1>2. mPendingCommands # NoPool => p = mPendingCommands
  BY DEF GetPendingCommandBuffer
<1>3. QED
  BY <1>1, <1>2 DEF RecordInto, TypeOK

(* Giving the buffers bs, of which nobody holds a reference any more, to    *)
(* the deleter keeps both queues alike and every entry behind its uses.     *)
LEMMA EnqueueDeletions ==
  ASSUME TypeOK, FenceInv, DeletionInv, pc # "deleteOthers",
         NEW bs \in SUBSET Buffers, DeleteWhenUnused(bs),
         \A e \in mMemoriesToDelete : e.item \notin bs
  PROVE  /\ mBuffersToDelete' = mMemoriesToDelete'
         /\ \A e \in mMemoriesToDelete' :
              \/ e \in mMemoriesToDelete
              \/ e.item \in bs /\ e.serial = mNextSerial
         /\ \A e, g \in mMemoriesToDelete' : e.item = g.item => e = g
BY DEF DeletionInv, DeleteWhenUnused, Enqueue

(* Every step keeps buffers to delete queued behind the commands that use them *)
(* and apart from the buffers that the application or the tracker refers to.   *)
LEMMA DeletionStep ==
  ASSUME TypeOK, PhaseInv, FenceInv, PoolInv, DeletionInv, [Next]_vars
  PROVE  DeletionInv'
<1> USE DEF deviceVars, commandVars, deleterVars, requestVars, nativeVars, controlVars,
            fenceVars
<1>0. \A s \in vkQueue : /\ s.serial \in Nat /\ s.serial < mNextSerial
                         /\ mCompletedSerial < s.serial
  BY DEF TypeOK, FenceInv
<1>1. CASE /\ UNCHANGED <<mNextSerial, mPendingCommands, recorded, deleterVars, handles,
                          memories, appRefs, mInflightRequests, vkQueue>>
           /\ pc # "deleteOthers" /\ pc' # "deleteOthers"
  BY <1>1 DEF DeletionInv, Items
<1>2. ASSUME NEW b \in Buffers, CreateBuffer(b) PROVE DeletionInv'
  BY <1>2 DEF CreateBuffer, DeletionInv, InLiveApp, InApp, TypeOK, Items
<1>3. ASSUME NEW b \in Buffers, ReleaseBuffer(b) PROVE DeletionInv'
  <2>1. CASE HeldByTracker(b)
    BY <1>3, <2>1 DEF ReleaseBuffer, DeletionInv, InApp, TypeOK, Items
  <2>2. CASE ~ HeldByTracker(b)
    <3>1. DeleteWhenUnused({b}) /\ pc # "deleteOthers"
      BY <1>3, <2>2 DEF ReleaseBuffer, InApp
    <3>2. \A e \in mMemoriesToDelete : e.item # b
      BY <1>3 DEF ReleaseBuffer, DeletionInv
    <3>3. UNCHANGED <<mNextSerial, mPendingCommands, recorded, handles, memories,
                      mInflightRequests, vkQueue, pc>> /\ appRefs' = appRefs \ {b}
      BY <1>3 DEF ReleaseBuffer
    <3>4. b \in appRefs /\ b \notin Items(mInflightRequests)
      BY <1>3, <2>2 DEF ReleaseBuffer, HeldByTracker
    <3>5. QED
      BY <1>0, <3>1, <3>2, <3>3, <3>4, EnqueueDeletions DEF DeletionInv, TypeOK, Items
  <2>3. QED
    BY <2>1, <2>2
<1>4. ASSUME NEW b \in Buffers, NEW staging \in Buffers, SetSubData(b, staging)
      PROVE  DeletionInv'
  <2>1. PICK p \in Pools : /\ GetPendingCommandBuffer(p)
                           /\ RecordInto(p, {b, staging})
                           /\ mPendingCommands' = p
    BY <1>4 DEF SetSubData
  <2>2. /\ UNCHANGED <<mNextSerial, mInflightRequests, vkQueue, pc, appRefs>>
        /\ handles' = handles \cup {staging} /\ memories' = memories \cup {staging}
        /\ b \in appRefs /\ staging \notin handles \cup memories
        /\ DeleteWhenUnused({staging}) /\ pc # "deleteOthers"
    BY <1>4 DEF SetSubData, InLiveApp, InApp
  <2>3. \A e \in mMemoriesToDelete : e.item # staging
    BY <2>2 DEF DeletionInv
  <2>4. /\ \A s \in vkQueue : recorded'[s.pool] = recorded[s.pool]
        /\ recorded'[p] = {b, staging} \cup
             (IF mPendingCommands = NoPool THEN {} ELSE recorded[mPendingCommands])
    BY <2>1, RecordEffect
  <2>5. QED
    BY <1>0, <2>1, <2>2, <2>3, <2>4, EnqueueDeletions, NoPoolAssumption
       DEF DeletionInv, TypeOK, Items
<1>5. ASSUME NEW b \in Buffers, MapAsync(b) PROVE DeletionInv'
  <2>1. PICK p \in Pools : /\ GetPendingCommandBuffer(p)
                           /\ RecordInto(p, {b})
                           /\ mPendingCommands' = p
    BY <1>5 DEF MapAsync
  <2>2. /\ UNCHANGED <<mNextSerial, deleterVars, vkQueue, pc, appRefs, handles, memories>>
        /\ b \in appRefs /\ pc # "deleteOthers"
        /\ Items(mInflightRequests') \subseteq Items(mInflightRequests) \cup {b}
    BY <1>5 DEF MapAsync, InLiveApp, Items, Enqueue
  <2>3. /\ \A s \in vkQueue : recorded'[s.pool] = recorded[s.pool]
        /\ recorded'[p] = {b} \cup
             (IF mPendingCommands = NoPool THEN {} ELSE recorded[mPendingCommands])
    BY <2>1, RecordEffect
  <2>4. QED
    BY <2>1, <2>2, <2>3, NoPoolAssumption DEF DeletionInv, TypeOK
<1>6. ASSUME NEW uses \in SUBSET appRefs, QueueSubmit(uses) PROVE DeletionInv'
  <2>1. PICK p \in Pools : /\ GetPendingCommandBuffer(p)
                           /\ RecordInto(p, uses)
                           /\ SubmitPendingCommands(p)
    BY <1>6 DEF QueueSubmit
  <2>2. /\ UNCHANGED <<mBuffersToDelete, mMemoriesToDelete, pc, appRefs, handles,
                       memories, mInflightRequests>>
        /\ pc # "deleteOthers"
    BY <1>6 DEF QueueSubmit, InLiveApp, InApp
  <2>3. /\ \A s \in vkQueue : recorded'[s.pool] = recorded[s.pool]
        /\ recorded'[p] = uses \cup
             (IF mPendingCommands = NoPool THEN {} ELSE recorded[mPendingCommands])
    BY <2>1, RecordEffect DEF TypeOK
  <2>4. /\ mPendingCommands' = NoPool
        /\ mNextSerial' = mNextSerial + 1
        /\ \A s \in vkQueue' : s \in vkQueue \/ (s.pool = p /\ s.serial = mNextSerial)
    BY <2>1 DEF SubmitPendingCommands
  <2>5. QED
    BY <2>2, <2>3, <2>4 DEF DeletionInv, TypeOK, Entries
<1>7. CASE TickSubmits
  <2>1. /\ mPendingCommands' = NoPool
        /\ mNextSerial' = mNextSerial + 1
        /\ \A s \in vkQueue' :
             s \in vkQueue \/ (s.pool = mPendingCommands /\ s.serial = mNextSerial)
        /\ UNCHANGED <<mBuffersToDelete, mMemoriesToDelete, appRefs, handles, memories,
                       mInflightRequests, recorded>>
        /\ pc # "deleteOthers" /\ pc' # "deleteOthers" /\ mPendingCommands # NoPool
    BY <1>7 DEF TickSubmits, SubmitPendingCommands, AfterTick
  <2>2. QED
    BY <2>1 DEF DeletionInv, TypeOK, Entries
<1>8. CASE TickMovesOn
  BY <1>8 DEF TickMovesOn, AfterTick, DeletionInv, TypeOK, Entries
<1>9. CASE RecycleCompletedCommands
  <2>1. \A p \in Pools : recorded'[p] \subseteq recorded[p]
    BY <1>9 DEF RecycleCompletedCommands
  <2>2. QED
    BY <1>9, <2>1 DEF RecycleCompletedCommands, DeletionInv, TypeOK
<1>10. CASE ClearMapRequests
  <2> DEFINE bs == LastRefs(Items(UpTo(mInflightRequests, mCompletedSerial)))
  <2>1. /\ bs \subseteq Items(mInflightRequests)
        /\ bs \cap (appRefs \cup Items(mInflightRequests')) = {}
        /\ Items(mInflightRequests') \subseteq Items(mInflightRequests)
        /\ bs \in SUBSET Buffers
    BY <1>10 DEF ClearMapRequests, LastRefs, Items, UpTo, ClearUpTo, TypeOK, Entries
  <2>2. /\ UNCHANGED <<mNextSerial, mPendingCommands, recorded, handles, memories,
                       appRefs, vkQueue>>
        /\ DeleteWhenUnused(bs)
        /\ pc # "deleteOthers" /\ pc' # "deleteOthers"
    BY <1>10 DEF ClearMapRequests
  <2> HIDE DEF bs
  <2>3. \A e \in mMemoriesToDelete : e.item \notin bs
    BY <2>1 DEF DeletionInv
  <2>4. QED
    BY <1>0, <2>1, <2>2, <2>3, EnqueueDeletions DEF DeletionInv, TypeOK
<1>11. CASE DeleteBuffers
  <2>1. /\ UNCHANGED <<mNextSerial, mPendingCommands, recorded, memories, appRefs,
                       vkQueue, mInflightRequests, mMemoriesToDelete, mCompletedSerial>>
        /\ pc' = "deleteOthers" /\ mBuffersToDelete = mMemoriesToDelete
        /\ mBuffersToDelete' = ClearUpTo(mMemoriesToDelete, mCompletedSerial)
        /\ handles' = handles \ Items(UpTo(mMemoriesToDelete, mCompletedSerial))
    BY <1>11 DEF DeleteBuffers, DeletionInv
  <2>2. \A e \in mMemoriesToDelete :
          e.serial <= mCompletedSerial =>
            /\ \A s \in vkQueue : e.item \notin recorded[s.pool]
            /\ mPendingCommands # NoPool => e.item \notin recorded[mPendingCommands]
    BY <1>0 DEF DeletionInv, PhaseInv, TypeOK, Entries
  <2>3. QED
    BY <2>1, <2>2 DEF DeletionInv, Items, UpTo, ClearUpTo
<1>12. CASE DeleteOthers
  <2>1. /\ UNCHANGED <<mNextSerial, mPendingCommands, recorded, handles, appRefs,
                       vkQueue, mInflightRequests, mBuffersToDelete>>
        /\ pc' # "deleteOthers"
        /\ mBuffersToDelete = ClearUpTo(mMemoriesToDelete, mCompletedSerial)
        /\ mMemoriesToDelete' = ClearUpTo(mMemoriesToDelete, mCompletedSerial)
        /\ memories' = memories \ Items(UpTo(mMemoriesToDelete, mCompletedSerial))
    BY <1>12 DEF DeleteOthers, DeletionInv
  <2>2. \A e \in UpTo(mMemoriesToDelete, mCompletedSerial) : e.item \notin handles
    BY <2>1 DEF DeletionInv, UpTo, ClearUpTo
  <2>3. QED
    BY <2>1, <2>2 DEF DeletionInv, Items, UpTo, ClearUpTo
<1>13. CASE DestroyDevice
  <2>1. \A p \in Pools : recorded'[p] \subseteq recorded[p]
    BY <1>13 DEF DestroyDevice
  <2>2. QED
    BY <1>13, <2>1 DEF DestroyDevice, DeletionInv, TypeOK
<1>14. CASE GpuFinish
  <2>1. vkQueue' \subseteq vkQueue
    BY <1>14 DEF GpuFinish
  <2>2. QED
    BY <1>14, <2>1 DEF GpuFinish, DeletionInv
<1>15. CASE Api
  BY <1>1, <1>2, <1>3, <1>4, <1>5, <1>6, <1>15 DEF Api, GetNextTexture, InLiveApp, InApp
<1>16. CASE Tick \/ TickStep
  BY <1>1, <1>7, <1>8, <1>9, <1>10, <1>11, <1>12, <1>16
     DEF Tick, TickStep, PassFence, FireMapCallback, CallbackReturns
<1>17. CASE Destruction
  BY <1>1, <1>13, <1>17 DEF Destruction, QueueIsIdle, ForceCompletion, DestroyVkDevice
<1>18. CASE UNCHANGED vars
  BY <1>18 DEF vars, DeletionInv, Items
<1>19. QED
  BY <1>14, <1>15, <1>16, <1>17, <1>18 DEF Next, Terminated

(* A buffer is given to the FencedDeleter once, at a serial no smaller than    *)
(* that of any commands using it, and only when nobody refers to it.           *)
THEOREM DeletionCorrect == Spec => []DeletionInv
<1>1. Init => DeletionInv
  BY DEF Init, DeletionInv, Items
<1>2. QED
  BY <1>1, TypeCorrect, SerialsCorrect, PoolsCorrect, DeletionStep, PTL DEF Spec

(* Memory is freed only after the buffer that is bound to it. *)
THEOREM MemorySafe == Spec => []MemoryOutlivesBuffer
<1>1. DeletionInv => MemoryOutlivesBuffer
  BY DEF DeletionInv, MemoryOutlivesBuffer
<1>2. QED
  BY <1>1, DeletionCorrect, PTL

(* A tracked request keeps its buffer alive. *)
THEOREM MappedAlive == Spec => []MappedBufferAlive
<1>1. DeletionInv => MappedBufferAlive
  <2> SUFFICES ASSUME DeletionInv, NEW x \in Items(mInflightRequests)
               PROVE  x \in handles \ Items(mBuffersToDelete)
    BY DEF MappedBufferAlive
  <2>1. \A e \in mBuffersToDelete : e \in mMemoriesToDelete
    BY DEF DeletionInv, ClearUpTo
  <2>2. QED
    BY <2>1 DEF DeletionInv, Items
<1>2. QED
  BY <1>1, DeletionCorrect, PTL

-----------------------------------------------------------------------------
(* Semaphores and map requests. *)

(* Every step keeps semaphores alive for the submissions that wait for them.   *)
LEMMA SemaphoreStep ==
  ASSUME TypeOK, PhaseInv, FenceInv, SemaphoreInv, [Next]_vars
  PROVE  SemaphoreInv'
<1> USE DEF deviceVars, commandVars, deleterVars, nativeVars
<1>1. CASE UNCHANGED <<mSemaphoresToDelete, semaphores, mWaitSemaphores, vkQueue>>
  BY <1>1 DEF SemaphoreInv
<1>2. ASSUME NEW s \in Semaphores, GetNextTexture(s) PROVE SemaphoreInv'
  BY <1>2 DEF GetNextTexture, SemaphoreInv
<1>3. ASSUME NEW p \in Pools, SubmitPendingCommands(p), UNCHANGED semaphores
      PROVE  SemaphoreInv'
  <2>1. \A e \in mSemaphoresToDelete' :
          e \in mSemaphoresToDelete \/ e.item \in mWaitSemaphores
    BY <1>3 DEF SubmitPendingCommands, Enqueue
  <2>2. \A w \in mWaitSemaphores :
          \E e \in mSemaphoresToDelete' : e.item = w /\ e.serial = mNextSerial
    <3>1. \A w \in mWaitSemaphores :
            [item |-> w, serial |-> mNextSerial] \in mSemaphoresToDelete'
      BY <1>3 DEF SubmitPendingCommands, Enqueue
    <3>2. QED
      BY <3>1
  <2>3. \A e, g \in mSemaphoresToDelete' : e.item = g.item => e = g
    BY <1>3 DEF SubmitPendingCommands, Enqueue, SemaphoreInv
  <2>4. /\ \A s \in vkQueue' :
             s \in vkQueue \/ (s.serial = mNextSerial /\ s.waits = mWaitSemaphores)
        /\ mWaitSemaphores' = {}
        /\ mSemaphoresToDelete \subseteq mSemaphoresToDelete'
    BY <1>3 DEF SubmitPendingCommands, Enqueue
  <2>5. QED
    BY <1>3, <2>1, <2>2, <2>3, <2>4 DEF SemaphoreInv
<1>4. CASE DeleteOthers
  <2>1. /\ UNCHANGED <<mWaitSemaphores, vkQueue>>
        /\ mSemaphoresToDelete' = ClearUpTo(mSemaphoresToDelete, mCompletedSerial)
        /\ semaphores' = semaphores \ Items(UpTo(mSemaphoresToDelete, mCompletedSerial))
    BY <1>4 DEF DeleteOthers
  <2>2. \A s \in vkQueue : mCompletedSerial < s.serial /\ s.serial \in Nat
    BY DEF FenceInv, TypeOK
  <2>3. \A s \in vkQueue : \A w \in s.waits :
          \E e \in mSemaphoresToDelete' : e.item = w /\ e.serial = s.serial
    BY <2>1, <2>2 DEF SemaphoreInv, ClearUpTo, UpTo, TypeOK
  <2>4. \A e \in mSemaphoresToDelete' : e.item \in semaphores' \ mWaitSemaphores
    BY <2>1 DEF SemaphoreInv, Items, ClearUpTo, UpTo
  <2>5. mWaitSemaphores \subseteq semaphores'
    BY <2>1 DEF SemaphoreInv, Items, UpTo
  <2>6. QED
    BY <2>1, <2>3, <2>4, <2>5 DEF SemaphoreInv, ClearUpTo
<1>5. CASE GpuFinish
  BY <1>5 DEF GpuFinish, SemaphoreInv
<1>6. CASE Api
  BY <1>1, <1>2, <1>3, <1>6
     DEF Api, CreateBuffer, ReleaseBuffer, SetSubData, MapAsync, QueueSubmit
<1>7. CASE Tick \/ TickStep
  <2>1. CASE TickSubmits
    BY <1>3, <2>1 DEF TickSubmits, TypeOK
  <2>2. QED
    BY <1>1, <1>4, <1>7, <2>1
       DEF Tick, TickStep, PassFence, RecycleCompletedCommands, FireMapCallback,
           CallbackReturns, ClearMapRequests, DeleteBuffers, TickMovesOn
<1>8. CASE Destruction
  BY <1>1, <1>8 DEF Destruction, DestroyDevice, QueueIsIdle, ForceCompletion, DestroyVkDevice
<1>9. CASE UNCHANGED vars
  BY <1>1, <1>9 DEF vars
<1>10. QED
  BY <1>5, <1>6, <1>7, <1>8, <1>9 DEF Next, Terminated

(* Requests are fired only at serials that have completed.                     *)
LEMMA RequestStep ==
  ASSUME TypeOK, PhaseInv, FenceInv, RequestInv, [Next]_vars
  PROVE  RequestInv'
<1> USE DEF deviceVars, requestVars
<1>1. CASE UNCHANGED <<requestVars, mCompletedSerial>>
  BY <1>1 DEF RequestInv
<1>2. ASSUME NEW b \in Buffers, MapAsync(b) PROVE RequestInv'
  BY <1>2 DEF MapAsync, RequestInv, Enqueue
<1>3. CASE PassFence
  BY <1>3 DEF PassFence, RequestInv, FenceInv, TypeOK, Entries
<1>4. CASE FireMapCallback
  BY <1>4 DEF FireMapCallback, RequestInv, RequestsToFire, UpTo
<1>5. CASE ClearMapRequests
  BY <1>5 DEF ClearMapRequests, RequestInv
<1>6. CASE TickMovesOn
  BY <1>6 DEF TickMovesOn, RequestInv, TypeOK, Entries
<1>7. CASE ForceCompletion
  BY <1>7 DEF ForceCompletion, ForcedSerial, RequestInv, TypeOK, Entries, PhaseInv
<1>8. CASE Api
  BY <1>1, <1>2, <1>8 DEF Api, CreateBuffer, ReleaseBuffer, SetSubData, QueueSubmit,
                          GetNextTexture
<1>9. CASE Tick \/ TickStep
  BY <1>1, <1>3, <1>4, <1>5, <1>6, <1>9
     DEF Tick, TickStep, RecycleCompletedCommands, CallbackReturns, DeleteBuffers,
         DeleteOthers, TickSubmits
<1>10. CASE Destruction \/ GpuFinish
  BY <1>1, <1>7, <1>10
     DEF Destruction, DestroyDevice, QueueIsIdle, DestroyVkDevice, GpuFinish
<1>11. CASE UNCHANGED vars
  BY <1>1, <1>11 DEF vars
<1>12. QED
  BY <1>8, <1>9, <1>10, <1>11 DEF Next, Terminated

(* Semaphores outlive the submissions that wait for them, and only completed   *)
(* map requests are fired.                                                     *)
THEOREM WaitsCorrect == Spec => [](SemaphoreInv /\ RequestInv)
<1>1. Init => SemaphoreInv /\ RequestInv
  BY DEF Init, SemaphoreInv, RequestInv
<1>2. QED
  BY <1>1, TypeCorrect, SerialsCorrect, SemaphoreStep, RequestStep, PTL DEF Spec

(* No native object is destroyed while GPU commands refer to it. *)
THEOREM DestructionSafe == Spec => []NoUseAfterDestroy
<1>1. DeletionInv /\ SemaphoreInv => NoUseAfterDestroy
  <2> SUFFICES ASSUME DeletionInv, SemaphoreInv PROVE NoUseAfterDestroy
    OBVIOUS
  <2>1. BuffersInUse \subseteq handles \cap memories
    BY DEF BuffersInUse, DeletionInv
  <2>2. \A s \in vkQueue : s.waits \subseteq semaphores
    BY DEF SemaphoreInv
  <2>3. QED
    BY <2>1, <2>2 DEF NoUseAfterDestroy, SemaphoreInv
<1>2. QED
  BY <1>1, DeletionCorrect, WaitsCorrect, PTL

(* A map request is called back only after the work it had to wait for. *)
THEOREM MapWaits == Spec => []MapSeesFinishedWork
<1>1. TypeOK /\ PhaseInv /\ FenceInv /\ RequestInv => MapSeesFinishedWork
  BY DEF TypeOK, PhaseInv, FenceInv, RequestInv, MapSeesFinishedWork, Entries
<1>2. QED
  BY <1>1, TypeCorrect, SerialsCorrect, WaitsCorrect, PTL

-----------------------------------------------------------------------------
(* The refinement of GpuResources. *)

(* What the invariants say in the terms of GpuResources: nothing that is let  *)
(* go of has gone already, and the resources an unfinished batch or the       *)
(* pending commands use are neither destroyed nor due for destruction.        *)
LEMMA AbstractState ==
  ASSUME TypeOK, PhaseInv, FenceInv, DeletionInv, SemaphoreInv
  PROVE  /\ Live \subseteq Buffers \cup Semaphores
         /\ Retired \subseteq Live
         /\ (appRefs \cup Items(mInflightRequests)) \subseteq Live \ Retired
<1>1. Live \subseteq Buffers \cup Semaphores
  BY DEF TypeOK, Live
<1>2. Items(mMemoriesToDelete) \subseteq memories
  BY DEF DeletionInv, Items
<1>3. Items(mSemaphoresToDelete) \subseteq semaphores
  BY DEF SemaphoreInv, Items
<1>4. appRefs \cup Items(mInflightRequests) \subseteq handles
  BY DEF DeletionInv
<1>5. (appRefs \cup Items(mInflightRequests)) \cap Items(mMemoriesToDelete) = {}
  BY DEF DeletionInv, Items
<1>6. handles \cap semaphores = {}
  BY KindsAssumption DEF TypeOK
<1>7. QED
  BY <1>1, <1>2, <1>3, <1>4, <1>5, <1>6 DEF Live, Retired

(* The batches change only with the submissions and what their pools record.  *)
LEMMA SameBatches ==
  ASSUME vkQueue' = vkQueue, \A s \in vkQueue : recorded'[s.pool] = recorded[s.pool]
  PROVE  Batches' = Batches
BY DEF Batches

(* A submission is a new batch with everything recorded for it. *)
LEMMA SubmittedBatch ==
  ASSUME TypeOK, FenceInv, NEW p \in Pools, NEW U \in SUBSET Buffers,
         SubmitPendingCommands(p),
         \A s \in vkQueue : recorded'[s.pool] = recorded[s.pool],
         recorded'[p] = U \cup PendingUses
  PROVE  /\ BeingRecorded' = {}
         /\ \E id \in {b.id : b \in Batches'} :
              /\ \A b \in Batches : b.id # id
              /\ Batches' = Batches \cup {[id |-> id, uses |-> BeingRecorded \cup U]}
<1>1. PICK f \in Fences :
        vkQueue' = vkQueue \cup {[pool |-> p, fence |-> f, serial |-> mNextSerial,
                                  waits |-> mWaitSemaphores]}
  BY DEF SubmitPendingCommands
<1> DEFINE sub == [pool |-> p, fence |-> f, serial |-> mNextSerial,
                   waits |-> mWaitSemaphores]
           new == [id |-> mNextSerial, uses |-> BeingRecorded \cup U]
           Batch(s) == [id |-> s.serial, uses |-> s.waits \cup recorded[s.pool]]
           BatchAfter(s) == [id |-> s.serial, uses |-> s.waits \cup recorded'[s.pool]]
<1>2. BatchAfter(sub) = new
  <2>1. mWaitSemaphores \cup (U \cup PendingUses) = BeingRecorded \cup U
    BY DEF BeingRecorded
  <2>2. QED
    BY <2>1
<1>3. \A s \in vkQueue : BatchAfter(s) = Batch(s)
  OBVIOUS
<1>4. Batches = {Batch(s) : s \in vkQueue} /\ Batches' = {BatchAfter(s) : s \in vkQueue'}
  BY DEF Batches
<1>5. vkQueue' = vkQueue \cup {sub}
  BY <1>1
<1> HIDE DEF sub, Batch, BatchAfter
<1>6. Batches' = Batches \cup {new}
  BY <1>2, <1>3, <1>4, <1>5
<1>7. \A b \in Batches : b.id # mNextSerial
  <2>1. \A s \in vkQueue : s.serial # mNextSerial
    BY DEF FenceInv, TypeOK
  <2>2. QED
    BY <2>1 DEF Batches
<1>8. new \in Batches' /\ new.id = mNextSerial
  BY <1>6
<1>9. BeingRecorded' = {}
  BY DEF SubmitPendingCommands, BeingRecorded, PendingUses
<1>10. QED
  BY <1>6, <1>7, <1>8, <1>9

(* Recording into the pool of the pending commands. *)
LEMMA RecordedUses ==
  ASSUME TypeOK, PoolInv, NEW p \in Pools, NEW U \in SUBSET Buffers,
         GetPendingCommandBuffer(p), RecordInto(p, U), mPendingCommands' = p,
         UNCHANGED <<vkQueue, mWaitSemaphores>>
  PROVE  Batches' = Batches /\ BeingRecorded' = BeingRecorded \cup U
<1>1. Batches' = Batches
  BY RecordEffect, SameBatches
<1>2. PendingUses' = U \cup PendingUses
  BY RecordEffect, NoPoolAssumption DEF PendingUses
<1>3. QED
  BY <1>1, <1>2 DEF BeingRecorded

(* A call that only creates and lets go of resources. *)
LEMMA RecordsNothing ==
  ASSUME Live \subseteq Live', Live' \subseteq Buffers \cup Semaphores,
         Retired \subseteq Retired', Retired' \subseteq Live',
         BeingRecorded' = BeingRecorded, Batches' = Batches
  PROVE  Resource!AbsNext
<1>1. Resource!Record({})
  BY DEF Resource!Record
<1>2. {} \in SUBSET (Buffers \cup Semaphores)
  OBVIOUS
<1>3. QED
  BY <1>1, <1>2 DEF Resource!AbsNext

(* A call that also records commands that use the resources in U. *)
LEMMA RecordsUses ==
  ASSUME Live \subseteq Live', Live' \subseteq Buffers \cup Semaphores,
         Retired \subseteq Retired', Retired' \subseteq Live',
         NEW U, U \subseteq Live' \ Retired,
         BeingRecorded' = BeingRecorded \cup U, Batches' = Batches
  PROVE  Resource!AbsNext
<1>1. Resource!Record(U)
  BY DEF Resource!Record
<1>2. U \in SUBSET (Buffers \cup Semaphores)
  OBVIOUS
<1>3. QED
  BY <1>1, <1>2 DEF Resource!AbsNext

(* Every step of the API implements a step of GpuResources. *)
LEMMA ApiImplements ==
  ASSUME TypeOK, PhaseInv, FenceInv, PoolInv, DeletionInv, SemaphoreInv, Api,
         (Live \subseteq Buffers \cup Semaphores)', (Retired \subseteq Live)'
  PROVE  Resource!AbsNext
<1> USE DEF deviceVars, fenceVars, commandVars, deleterVars, requestVars, nativeVars,
            controlVars
<1>1. appRefs \subseteq Live \ Retired /\ appRefs \subseteq Buffers
  BY AbstractState DEF TypeOK
<1>2. ASSUME NEW b \in Buffers, CreateBuffer(b) PROVE Resource!AbsNext
  <2>1. Live \subseteq Live' /\ Retired' = Retired
    BY <1>2 DEF CreateBuffer, Live, Retired, Items
  <2>2. BeingRecorded' = BeingRecorded /\ Batches' = Batches
    BY <1>2 DEF CreateBuffer, BeingRecorded, PendingUses, Batches
  <2>3. QED
    BY <2>1, <2>2, RecordsNothing
<1>3. ASSUME NEW b \in Buffers, ReleaseBuffer(b) PROVE Resource!AbsNext
  <2>1. Live \subseteq Live' /\ Retired \subseteq Retired'
    BY <1>3 DEF ReleaseBuffer, DeleteWhenUnused, Enqueue, Live, Retired, Items
  <2>2. BeingRecorded' = BeingRecorded /\ Batches' = Batches
    BY <1>3 DEF ReleaseBuffer, BeingRecorded, PendingUses, Batches
  <2>3. QED
    BY <2>1, <2>2, RecordsNothing
<1>4. ASSUME NEW b \in Buffers, MapAsync(b) PROVE Resource!AbsNext
  <2>1. Live' = Live /\ Retired' = Retired /\ {b} \subseteq appRefs
    BY <1>4 DEF MapAsync, Live, Retired, Items
  <2>2. BeingRecorded' = BeingRecorded \cup {b} /\ Batches' = Batches
    BY <1>4, RecordedUses DEF MapAsync
  <2>3. QED
    BY <1>1, <2>1, <2>2, RecordsUses
<1>5. ASSUME NEW b \in Buffers, NEW staging \in Buffers, SetSubData(b, staging)
      PROVE  Resource!AbsNext
  <2>1. Live \subseteq Live' /\ Retired \subseteq Retired' /\ staging \in Live'
    BY <1>5 DEF SetSubData, DeleteWhenUnused, Enqueue, Live, Retired, Items
  <2>2. staging \notin Retired
    <3>1. staging \notin handles \cup memories
      BY <1>5 DEF SetSubData
    <3>2. staging \notin Semaphores
      BY KindsAssumption
    <3>3. staging \notin Items(mMemoriesToDelete)
      BY <3>1 DEF DeletionInv, Items
    <3>4. staging \notin Items(mSemaphoresToDelete)
      BY <3>2 DEF TypeOK, Entries, Items
    <3>5. QED
      BY <3>3, <3>4 DEF Retired
  <2>3. b \in appRefs
    BY <1>5 DEF SetSubData
  <2>4. {b, staging} \subseteq Live' \ Retired
    BY <1>1, <2>1, <2>2, <2>3
  <2>5. BeingRecorded' = BeingRecorded \cup {b, staging} /\ Batches' = Batches
    BY <1>5, RecordedUses DEF SetSubData
  <2>6. QED
    BY <2>1, <2>4, <2>5, RecordsUses
<1>6. ASSUME NEW uses \in SUBSET appRefs, QueueSubmit(uses) PROVE Resource!AbsNext
  <2>1. PICK p \in Pools : /\ GetPendingCommandBuffer(p)
                           /\ RecordInto(p, uses)
                           /\ SubmitPendingCommands(p)
    BY <1>6 DEF QueueSubmit
  <2>2. /\ \A s \in vkQueue : recorded'[s.pool] = recorded[s.pool]
        /\ recorded'[p] = uses \cup PendingUses
    BY <1>1, <2>1, RecordEffect DEF PendingUses
  <2>3. Live' = Live /\ Retired \subseteq Retired'
    BY <1>6, <2>1 DEF QueueSubmit, SubmitPendingCommands, Enqueue, Live, Retired, Items
  <2>4. uses \in SUBSET Buffers
    BY <1>1
  <2>5. Resource!Submit(uses)
    BY <1>1, <2>1, <2>2, <2>3, <2>4, SubmittedBatch DEF Resource!Submit
  <2>6. QED
    BY <2>4, <2>5 DEF Resource!AbsNext
<1>7. ASSUME NEW s \in Semaphores, GetNextTexture(s) PROVE Resource!AbsNext
  <2>1. Live \subseteq Live' /\ Retired' = Retired /\ {s} \subseteq Live'
    BY <1>7 DEF GetNextTexture, Live, Retired, Items
  <2>2. s \notin Retired
    <3>1. s \notin Items(mSemaphoresToDelete)
      BY <1>7 DEF GetNextTexture, SemaphoreInv, Items
    <3>2. s \notin Items(mMemoriesToDelete)
      BY KindsAssumption DEF TypeOK, Entries, Items
    <3>3. QED
      BY <3>1, <3>2 DEF Retired
  <2>3. BeingRecorded' = BeingRecorded \cup {s} /\ Batches' = Batches
    BY <1>7 DEF GetNextTexture, BeingRecorded, PendingUses, Batches
  <2>4. QED
    BY <2>1, <2>2, <2>3, RecordsUses
<1>8. QED
  BY <1>2, <1>3, <1>4, <1>5, <1>6, <1>7 DEF Api

(* The destruction of completed objects destroys only what is out of use. *)
LEMMA DestroyImplements ==
  ASSUME TypeOK, PhaseInv, FenceInv, DeletionInv, SemaphoreInv, DeleteOthers
  PROVE  Resource!Destroy
<1> DEFINE gone == Items(UpTo(mMemoriesToDelete, mCompletedSerial))
           goneToo == Items(UpTo(mSemaphoresToDelete, mCompletedSerial))
<1>1. /\ memories' = memories \ gone /\ semaphores' = semaphores \ goneToo
      /\ mMemoriesToDelete' = ClearUpTo(mMemoriesToDelete, mCompletedSerial)
      /\ mSemaphoresToDelete' = ClearUpTo(mSemaphoresToDelete, mCompletedSerial)
      /\ mBuffersToDelete = mMemoriesToDelete'
      /\ UNCHANGED <<handles, recorded, mPendingCommands, mWaitSemaphores, vkQueue>>
  BY DEF DeleteOthers, DeletionInv, commandVars
<1>2. gone \subseteq Items(mMemoriesToDelete) /\ goneToo \subseteq Items(mSemaphoresToDelete)
  BY DEF Items, UpTo
<1>3. gone \cap handles = {}
  BY <1>1 DEF DeletionInv, Items, UpTo, ClearUpTo
<1>4. gone \cap semaphores = {} /\ goneToo \cap memories = {} /\ goneToo \cap handles = {}
  BY <1>2, KindsAssumption DEF TypeOK, Entries, Items
<1>5. \A s \in vkQueue : /\ mCompletedSerial < s.serial /\ s.serial \in Nat
                         /\ s.waits \subseteq Semaphores /\ recorded[s.pool] \subseteq Buffers
  BY DEF TypeOK, FenceInv
<1>6. ASSUME NEW s \in vkQueue
      PROVE  (s.waits \cup recorded[s.pool]) \cap (gone \cup goneToo) = {}
  <2>1. recorded[s.pool] \cap gone = {}
    <3>1. \A e \in mMemoriesToDelete : e.item \in recorded[s.pool] => s.serial <= e.serial
      BY DEF DeletionInv
    <3>2. QED
      BY <1>5, <3>1 DEF Items, UpTo, TypeOK, Entries
  <2>2. s.waits \cap goneToo = {}
    <3>1. \A w \in s.waits : \E e \in mSemaphoresToDelete : e.item = w /\ e.serial = s.serial
      BY DEF SemaphoreInv
    <3>2. \A e, g \in mSemaphoresToDelete : e.item = g.item => e = g
      BY DEF SemaphoreInv
    <3>3. QED
      BY <1>5, <3>1, <3>2 DEF Items, UpTo, TypeOK, Entries
  <2>3. gone \subseteq Buffers /\ goneToo \subseteq Semaphores
    BY <1>2 DEF TypeOK, Entries, Items
  <2>4. QED
    BY <1>5, <2>1, <2>2, <2>3, KindsAssumption
<1>7. BeingRecorded \cap (gone \cup goneToo) = {}
  <2>1. mWaitSemaphores \cap goneToo = {}
    BY <1>2 DEF SemaphoreInv, Items
  <2>2. PendingUses \cap gone = {}
    BY DEF PendingUses, DeletionInv, PhaseInv, TypeOK, Entries, Items, UpTo
  <2>3. /\ gone \subseteq Buffers /\ goneToo \subseteq Semaphores
        /\ mWaitSemaphores \subseteq Semaphores /\ PendingUses \subseteq Buffers
    BY <1>2 DEF TypeOK, Entries, Items, PendingUses
  <2>4. QED
    BY <2>1, <2>2, <2>3, KindsAssumption DEF BeingRecorded
<1>8. BeingRecorded' = BeingRecorded /\ Batches' = Batches
  BY <1>1 DEF BeingRecorded, PendingUses, Batches
<1>9. \A b \in Batches : b.uses \cap (gone \cup goneToo) = {}
  BY <1>6 DEF Batches
<1>10. Live' = Live \ (gone \cup goneToo)
  BY <1>1, <1>3, <1>4 DEF Live
<1>11. Retired' = Retired \ (gone \cup goneToo)
  <2>1. Items(mMemoriesToDelete') = Items(mMemoriesToDelete) \ gone
    BY <1>1 DEF DeletionInv, Items, UpTo, ClearUpTo
  <2>2. Items(mSemaphoresToDelete') = Items(mSemaphoresToDelete) \ goneToo
    BY <1>1 DEF SemaphoreInv, Items, UpTo, ClearUpTo
  <2>3. /\ gone \subseteq Buffers /\ goneToo \subseteq Semaphores
        /\ Items(mMemoriesToDelete) \subseteq Buffers
        /\ Items(mSemaphoresToDelete) \subseteq Semaphores
    BY <1>2 DEF TypeOK, Entries, Items
  <2>4. QED
    BY <2>1, <2>2, <2>3, KindsAssumption DEF Retired
<1>12. gone \cup goneToo \subseteq Retired
  BY <1>2 DEF Retired
<1>13. Retired \subseteq Live
  BY AbstractState
<1> HIDE DEF gone, goneToo
<1>14. QED
  BY <1>7, <1>8, <1>9, <1>10, <1>11, <1>12, <1>13 DEF Resource!Destroy, Resource!InUse

(* The steps of Tick implement steps of GpuResources or leave it alone. *)
LEMMA TickImplements ==
  ASSUME TypeOK, PhaseInv, FenceInv, PoolInv, DeletionInv, SemaphoreInv, Tick \/ TickStep,
         (Live \subseteq Buffers \cup Semaphores)', (Retired \subseteq Live)'
  PROVE  [Resource!AbsNext]_(Resource!absVars)
<1> USE DEF deviceVars, fenceVars, commandVars, deleterVars, requestVars, nativeVars,
            controlVars
<1>1. CASE UNCHANGED <<commandVars, deleterVars, nativeVars, mWaitSemaphores, vkQueue>>
  BY <1>1 DEF Resource!absVars, Live, Retired, Items, BeingRecorded, PendingUses, Batches
<1>2. CASE RecycleCompletedCommands
  <2>1. UNCHANGED <<deleterVars, nativeVars, mPendingCommands, mWaitSemaphores, vkQueue>>
    BY <1>2 DEF RecycleCompletedCommands
  <2>2. \A p \in Pools :
          p \notin Items(UpTo(mCommandsInFlight, mCompletedSerial)) => recorded'[p] = recorded[p]
    BY <1>2 DEF RecycleCompletedCommands
  <2>3. \A s \in vkQueue : recorded'[s.pool] = recorded[s.pool]
    <3>1. \A s \in vkQueue : /\ mCompletedSerial < s.serial /\ s.serial \in Nat
                             /\ s.pool \in Pools
      BY DEF TypeOK, FenceInv
    <3>2. QED
      BY <2>2, <3>1 DEF PoolInv, Items, UpTo, TypeOK
  <2>4. PendingUses' = PendingUses
    <3>1. mPendingCommands \notin Items(UpTo(mCommandsInFlight, mCompletedSerial))
      BY DEF PoolInv, Items, UpTo
    <3>2. QED
      BY <2>1, <2>2, <3>1 DEF PendingUses, TypeOK
  <2>5. Batches' = Batches
    BY <2>1, <2>3, SameBatches
  <2>6. QED
    BY <2>1, <2>4, <2>5 DEF Resource!absVars, Live, Retired, Items, BeingRecorded
<1>3. CASE ClearMapRequests
  <2>1. Live \subseteq Live' /\ Retired \subseteq Retired'
    BY <1>3 DEF ClearMapRequests, DeleteWhenUnused, Enqueue, Live, Retired, Items
  <2>2. BeingRecorded' = BeingRecorded /\ Batches' = Batches
    BY <1>3 DEF ClearMapRequests, BeingRecorded, PendingUses, Batches
  <2>3. QED
    BY <2>1, <2>2, RecordsNothing
<1>4. CASE DeleteBuffers
  <2>1. handles' \subseteq handles /\ handles \subseteq memories
    BY <1>4 DEF DeleteBuffers, DeletionInv
  <2>2. UNCHANGED <<memories, semaphores, mMemoriesToDelete, mSemaphoresToDelete,
                    recorded, mPendingCommands, mWaitSemaphores, vkQueue>>
    BY <1>4 DEF DeleteBuffers
  <2>3. Live' = Live
    BY <2>1, <2>2 DEF Live
  <2>4. QED
    BY <2>2, <2>3 DEF Resource!absVars, Retired, Items, BeingRecorded, PendingUses, Batches
<1>5. CASE DeleteOthers
  BY <1>5, DestroyImplements DEF Resource!AbsNext
<1>6. CASE TickSubmits
  <2>1. mPendingCommands \in Pools /\ recorded'[mPendingCommands] = {} \cup PendingUses
    BY <1>6 DEF TickSubmits, TypeOK, PendingUses
  <2>2. /\ SubmitPendingCommands(mPendingCommands) /\ recorded' = recorded
        /\ Live' = Live /\ Retired \subseteq Retired'
    BY <1>6 DEF TickSubmits, SubmitPendingCommands, Enqueue, Live, Retired, Items
  <2>3. {} \in SUBSET Buffers /\ {} \in SUBSET (Buffers \cup Semaphores)
    OBVIOUS
  <2>4. Resource!Submit({})
    BY <2>1, <2>2, <2>3, SubmittedBatch DEF Resource!Submit
  <2>5. QED
    BY <2>3, <2>4 DEF Resource!AbsNext
<1>7. QED
  BY <1>1, <1>2, <1>3, <1>4, <1>5, <1>6
     DEF Tick, TickStep, PassFence, FireMapCallback, CallbackReturns, TickMovesOn

(* So do the steps of ~Device and those of the GPU. *)
LEMMA OthersImplement ==
  ASSUME TypeOK, FenceInv, PoolInv, Destruction \/ GpuFinish \/ Terminated
  PROVE  [Resource!AbsNext]_(Resource!absVars)
<1> USE DEF deviceVars, fenceVars, commandVars, deleterVars, requestVars, nativeVars,
            controlVars
<1>1. CASE UNCHANGED <<mPendingCommands, recorded, deleterVars, nativeVars,
                       mWaitSemaphores, vkQueue>>
  BY <1>1 DEF Resource!absVars, Live, Retired, Items, BeingRecorded, PendingUses, Batches
<1>2. CASE DestroyDevice
  <2>1. \A s \in vkQueue : s.pool \in Pools /\ s.pool # mPendingCommands
    BY DEF TypeOK, PoolInv
  <2>2. \A s \in vkQueue : recorded'[s.pool] = recorded[s.pool]
    BY <1>2, <2>1 DEF DestroyDevice
  <2>3. UNCHANGED <<deleterVars, nativeVars, mWaitSemaphores, vkQueue>>
    BY <1>2 DEF DestroyDevice
  <2>4. BeingRecorded' \subseteq BeingRecorded
    BY <1>2 DEF DestroyDevice, BeingRecorded, PendingUses
  <2>5. Resource!Abandon
    BY <2>2, <2>3, <2>4, SameBatches DEF Resource!Abandon, Live, Retired, Items
  <2>6. QED
    BY <2>5 DEF Resource!AbsNext
<1>3. CASE GpuFinish
  <2>1. PICK s \in vkQueue : vkQueue' = vkQueue \ {s}
    BY <1>3 DEF GpuFinish
  <2>2. UNCHANGED <<mPendingCommands, recorded, deleterVars, nativeVars, mWaitSemaphores>>
    BY <1>3 DEF GpuFinish
  <2> DEFINE b == [id |-> s.serial, uses |-> s.waits \cup recorded[s.pool]]
  <2>3. b \in Batches
    BY DEF Batches
  <2>4. Batches' = Batches \ {b}
    BY <2>1, <2>2 DEF Batches, FenceInv
  <2>5. Resource!Finish
    BY <2>2, <2>3, <2>4
       DEF Resource!Finish, Live, Retired, Items, BeingRecorded, PendingUses
  <2>6. QED
    BY <2>5 DEF Resource!AbsNext
<1>4. QED
  BY <1>1, <1>2, <1>3
     DEF Destruction, QueueIsIdle, ForceCompletion, DestroyVkDevice, Terminated, vars

(* The device keeps the promise of GpuResources: its serials, fences and      *)
(* queues of deletions implement "kept until no command uses it, then gone".  *)
THEOREM ResourceRefinement == Spec => ImplementsGpuResources
<1> DEFINE Inv == TypeOK /\ PhaseInv /\ FenceInv /\ PoolInv /\ DeletionInv /\ SemaphoreInv
<1>1. Spec => []Inv
  BY TypeCorrect, SerialsCorrect, PoolsCorrect, DeletionCorrect, WaitsCorrect, PTL
<1>2. Inv => (Live \subseteq Buffers \cup Semaphores) /\ (Retired \subseteq Live)
  BY AbstractState
<1>3. Init => Resource!AbsInit
  BY DEF Init, Resource!AbsInit, Live, Retired, Items, BeingRecorded, PendingUses, Batches
<1>4. Inv /\ (Live \subseteq Buffers \cup Semaphores)' /\ (Retired \subseteq Live)'
        /\ [Next]_vars => [Resource!AbsNext]_(Resource!absVars)
  <2>1. ASSUME Inv, UNCHANGED vars PROVE UNCHANGED (Resource!absVars)
    BY <2>1 DEF vars, commandVars, deleterVars, nativeVars, Resource!absVars, Live, Retired,
                Items, BeingRecorded, PendingUses, Batches
  <2>2. QED
    BY <2>1, ApiImplements, TickImplements, OthersImplement DEF Next
<1>5. QED
  BY <1>1, <1>2, <1>3, <1>4, PTL DEF Spec, ImplementsGpuResources, Resource!AbsSpec

-----------------------------------------------------------------------------
(* What ~Device leaves. *)

(* Enqueue adds just its items.                                            *)
LEMMA ItemsEnqueue ==
  ASSUME NEW q, NEW items, NEW n
  PROVE  Items(Enqueue(q, items, n)) = Items(q) \cup items
<1>1. \A i \in items : [item |-> i, serial |-> n] \in Enqueue(q, items, n)
  BY DEF Enqueue
<1>2. \A i \in items : i \in Items(Enqueue(q, items, n))
  <2>1. \A i \in items : [item |-> i, serial |-> n].item = i
    OBVIOUS
  <2>2. QED
    BY <1>1, <2>1 DEF Items
<1>3. Items(q) \subseteq Items(Enqueue(q, items, n))
  BY DEF Items, Enqueue
<1>4. \A e \in Enqueue(q, items, n) : e \in q \/ e.item \in items
  BY DEF Enqueue
<1>5. Items(Enqueue(q, items, n)) \subseteq Items(q) \cup items
  BY <1>4 DEF Items
<1>6. QED
  BY <1>2, <1>3, <1>5

(* Nothing is queued behind the next submit. *)
LEMMA QueuedSerialsStep ==
  ASSUME TypeOK, LeftInv, [Next]_vars
  PROVE  \A e \in mInflightRequests' \cup mSemaphoresToDelete' : e.serial <= mNextSerial'
<1> USE DEF deviceVars, requestVars, deleterVars
<1>1. mNextSerial' \in {mNextSerial, mNextSerial + 1}
  BY DEF Next, Api, TickStep, Destruction, Tick, CreateBuffer, ReleaseBuffer, SetSubData,
         MapAsync, QueueSubmit, SubmitPendingCommands, GetNextTexture, PassFence,
         RecycleCompletedCommands, FireMapCallback, CallbackReturns, ClearMapRequests,
         DeleteBuffers, DeleteOthers, TickSubmits, TickMovesOn, DestroyDevice, QueueIsIdle,
         ForceCompletion, DestroyVkDevice, GpuFinish, Terminated, vars
<1>2. \A e \in mInflightRequests' : e \in mInflightRequests \/ e.serial = mNextSerial
  <2>1. ASSUME NEW b \in Buffers, MapAsync(b)
        PROVE  \A e \in mInflightRequests' : e \in mInflightRequests \/ e.serial = mNextSerial
    BY <2>1 DEF MapAsync, Enqueue
  <2>2. CASE mInflightRequests' \subseteq mInflightRequests
    BY <2>2
  <2>3. QED
    BY <2>1, <2>2
       DEF Next, Api, TickStep, Destruction, Tick, CreateBuffer, ReleaseBuffer, SetSubData,
           QueueSubmit, GetNextTexture, PassFence, RecycleCompletedCommands,
           FireMapCallback, CallbackReturns, ClearMapRequests, DeleteBuffers, DeleteOthers,
           TickSubmits, TickMovesOn, DestroyDevice, QueueIsIdle, ForceCompletion,
           DestroyVkDevice, GpuFinish, Terminated, vars, ClearUpTo, UpTo
<1>3. \A e \in mSemaphoresToDelete' : e \in mSemaphoresToDelete \/ e.serial = mNextSerial
  <2>1. ASSUME NEW p, SubmitPendingCommands(p)
        PROVE  \A e \in mSemaphoresToDelete' : e \in mSemaphoresToDelete
                                                \/ e.serial = mNextSerial
    BY <2>1 DEF SubmitPendingCommands, Enqueue
  <2>2. CASE mSemaphoresToDelete' \subseteq mSemaphoresToDelete
    BY <2>2
  <2>3. ASSUME NEW uses \in SUBSET appRefs, QueueSubmit(uses)
        PROVE  \A e \in mSemaphoresToDelete' : e \in mSemaphoresToDelete
                                                \/ e.serial = mNextSerial
    BY <2>1, <2>3 DEF QueueSubmit
  <2>4. ASSUME NEW b \in Buffers, ReleaseBuffer(b)
        PROVE  mSemaphoresToDelete' \subseteq mSemaphoresToDelete
    BY <2>4 DEF ReleaseBuffer
  <2>5. CASE Api
    BY <2>2, <2>3, <2>4, <2>5
       DEF Api, CreateBuffer, SetSubData, MapAsync, GetNextTexture
  <2>6. CASE Tick \/ TickStep
    BY <2>1, <2>2, <2>6
       DEF Tick, TickStep, PassFence, RecycleCompletedCommands, FireMapCallback,
           CallbackReturns, ClearMapRequests, DeleteBuffers, DeleteOthers, TickSubmits,
           TickMovesOn, ClearUpTo, UpTo
  <2>7. CASE Destruction \/ GpuFinish \/ Terminated \/ UNCHANGED vars
    BY <2>2, <2>7
       DEF Destruction, DestroyDevice, QueueIsIdle, ForceCompletion, DestroyVkDevice,
           GpuFinish, Terminated, vars
  <2>8. QED
    BY <2>5, <2>6, <2>7 DEF Next
<1>4. QED
  BY <1>1, <1>2, <1>3 DEF LeftInv, TypeOK, Entries

(* No memory is forgotten. *)
LEMMA MemoriesAccounted ==
  ASSUME TypeOK, PhaseInv, DeletionInv, LeftInv, [Next]_vars
  PROVE  MemoriesKnown'
<1> USE DEF requestVars, deleterVars, nativeVars
<1>1. CASE UNCHANGED <<memories, appRefs, mInflightRequests, mMemoriesToDelete>>
  BY <1>1 DEF LeftInv, MemoriesKnown, Items
<1>2. ASSUME NEW b \in Buffers, CreateBuffer(b) PROVE MemoriesKnown'
  BY <1>2 DEF CreateBuffer, LeftInv, MemoriesKnown, Items
<1>3. ASSUME NEW b \in Buffers, ReleaseBuffer(b) PROVE MemoriesKnown'
  <2>1. CASE HeldByTracker(b)
    BY <1>3, <2>1 DEF ReleaseBuffer, HeldByTracker, LeftInv, MemoriesKnown, Items
  <2>2. CASE ~ HeldByTracker(b)
    BY <1>3, <2>2, ItemsEnqueue DEF ReleaseBuffer, DeleteWhenUnused, LeftInv, MemoriesKnown
  <2>3. QED
    BY <2>1, <2>2
<1>4. ASSUME NEW b \in Buffers, NEW staging \in Buffers, SetSubData(b, staging)
      PROVE  MemoriesKnown'
  BY <1>4, ItemsEnqueue DEF SetSubData, DeleteWhenUnused, LeftInv, MemoriesKnown
<1>5. ASSUME NEW b \in Buffers, MapAsync(b) PROVE MemoriesKnown'
  BY <1>5 DEF MapAsync, Enqueue, LeftInv, MemoriesKnown, Items
<1>6. CASE ClearMapRequests
  <2> DEFINE cleared == Items(UpTo(mInflightRequests, mCompletedSerial))
  <2>1. DeleteWhenUnused(LastRefs(cleared)) /\ UNCHANGED <<memories, appRefs>>
    BY <1>6 DEF ClearMapRequests
  <2>2. Items(mInflightRequests) \subseteq cleared \cup Items(mInflightRequests')
    BY <1>6 DEF ClearMapRequests, Items, UpTo, ClearUpTo
  <2>3. Items(mMemoriesToDelete') = Items(mMemoriesToDelete) \cup LastRefs(cleared)
    BY <2>1, ItemsEnqueue DEF DeleteWhenUnused
  <2>4. QED
    BY <2>1, <2>2, <2>3 DEF LastRefs, LeftInv, MemoriesKnown
<1>7. CASE DeleteOthers
  <2>1. /\ memories' = memories \ Items(UpTo(mMemoriesToDelete, mCompletedSerial))
        /\ mMemoriesToDelete' = ClearUpTo(mMemoriesToDelete, mCompletedSerial)
        /\ UNCHANGED <<appRefs, mInflightRequests>>
    BY <1>7 DEF DeleteOthers
  <2>2. QED
    BY <2>1 DEF LeftInv, MemoriesKnown, Items, UpTo, ClearUpTo
<1>8. QED
  BY <1>1, <1>2, <1>3, <1>4, <1>5, <1>6, <1>7
     DEF Next, Api, TickStep, Destruction, Tick, QueueSubmit, GetNextTexture, PassFence,
         RecycleCompletedCommands, FireMapCallback, CallbackReturns, DeleteBuffers,
         TickSubmits, SubmitPendingCommands, TickMovesOn, DestroyDevice, QueueIsIdle,
         ForceCompletion, DestroyVkDevice, GpuFinish, Terminated, vars, LeftInv, MemoriesKnown

(* ~Device's Tick empties the queues one after the other: everything has      *)
(* completed, and its callbacks cannot queue anything behind that.            *)
LEMMA QueuesEmptied ==
  ASSUME TypeOK, PhaseInv, FenceInv, PoolInv, DeletionInv, LeftInv, [Next]_vars
  PROVE  /\ destroying' /\ pc' # "fences" => mCommandsInFlight' = {}
         /\ destroying' /\ pc' \notin {"fences", "map", "callback"}
              => mInflightRequests' = {}
         /\ destroying' /\ pc' \in {"submit", "asserts"}
              => mMemoriesToDelete' = {} /\ mSemaphoresToDelete' = {}
<1> DEFINE Emptied ==
      /\ destroying /\ pc # "fences" => mCommandsInFlight = {}
      /\ destroying /\ pc \notin {"fences", "map", "callback"} => mInflightRequests = {}
      /\ destroying /\ pc \in {"submit", "asserts"} =>
           mMemoriesToDelete = {} /\ mSemaphoresToDelete = {}
<1> SUFFICES Emptied'
  OBVIOUS
<1> USE DEF deviceVars, commandVars, deleterVars, requestVars, controlVars
<1>0. destroying => mCompletedSerial = mNextSerial
  BY DEF PhaseInv
<1>1. CASE ~destroying'
  BY <1>1
<1>2. CASE /\ UNCHANGED <<controlVars, mCommandsInFlight, mInflightRequests>>
           /\ pc \in {"submit", "asserts"} => UNCHANGED deleterVars
  BY <1>2 DEF LeftInv
<1>3. CASE RecycleCompletedCommands
  <2>1. destroying => \A e \in mCommandsInFlight : e.serial <= mCompletedSerial
    BY <1>0 DEF PoolInv, TypeOK, Entries
  <2>2. destroying => mCommandsInFlight' = {}
    BY <1>3, <2>1 DEF RecycleCompletedCommands, ClearUpTo, UpTo
  <2>3. QED
    BY <1>3, <2>2 DEF RecycleCompletedCommands
<1>4. CASE FireMapCallback \/ CallbackReturns
  BY <1>4 DEF FireMapCallback, CallbackReturns, LeftInv
<1>5. CASE ClearMapRequests
  <2>1. destroying => \A e \in mInflightRequests : e.serial <= mCompletedSerial
    BY <1>0 DEF LeftInv
  <2>2. destroying => mInflightRequests' = {}
    BY <1>5, <2>1 DEF ClearMapRequests, ClearUpTo, UpTo
  <2>3. QED
    BY <1>5, <2>2 DEF ClearMapRequests, LeftInv
<1>6. CASE DeleteBuffers
  BY <1>6 DEF DeleteBuffers, LeftInv
<1>7. CASE DeleteOthers
  <2>1. destroying => /\ \A e \in mMemoriesToDelete : e.serial <= mCompletedSerial
                      /\ \A e \in mSemaphoresToDelete : e.serial <= mCompletedSerial
    BY <1>0 DEF LeftInv, DeletionInv
  <2>2. destroying => mMemoriesToDelete' = {} /\ mSemaphoresToDelete' = {}
    BY <1>7, <2>1 DEF DeleteOthers, ClearUpTo, UpTo
  <2>3. QED
    BY <1>7, <2>2 DEF DeleteOthers, LeftInv
<1>8. CASE TickMovesOn
  BY <1>8 DEF TickMovesOn, AfterTick, LeftInv
<1>9. CASE TickSubmits
  BY <1>1, <1>9 DEF TickSubmits, PhaseInv
<1>10. CASE DestroyVkDevice
  BY <1>10 DEF DestroyVkDevice, LeftInv
<1>11. CASE ForceCompletion
  BY <1>11 DEF ForceCompletion
<1>12. CASE Api
  <2>1. ASSUME NEW b \in Buffers, ReleaseBuffer(b) PROVE Emptied'
    BY <1>2, <2>1 DEF ReleaseBuffer, InApp
  <2>2. CASE ~ (\E b \in Buffers : ReleaseBuffer(b))
    BY <1>1, <1>12, <2>2
       DEF Api, CreateBuffer, MapAsync, SetSubData, QueueSubmit, GetNextTexture, InLiveApp
  <2>3. QED
    BY <2>1, <2>2
<1>13. CASE Tick \/ PassFence \/ GpuFinish \/ Terminated \/ UNCHANGED vars
  BY <1>1, <1>2, <1>13 DEF Tick, PassFence, GpuFinish, Terminated, vars, PhaseInv
<1>14. CASE DestroyDevice \/ QueueIsIdle
  BY <1>1, <1>14 DEF DestroyDevice, QueueIsIdle, PhaseInv
<1>15. QED
  BY <1>3, <1>4, <1>5, <1>6, <1>7, <1>8, <1>9, <1>10, <1>11, <1>12, <1>13, <1>14
     DEF Next, TickStep, Destruction

(* Every queue is empty and every memory accounted for when ~Device asserts.  *)
THEOREM NothingForgotten == Spec => []LeftInv
<1>1. Init => LeftInv
  BY DEF Init, LeftInv, MemoriesKnown, Items
<1>2. TypeOK /\ PhaseInv /\ FenceInv /\ PoolInv /\ DeletionInv /\ LeftInv /\ [Next]_vars
        => LeftInv'
  BY QueuedSerialsStep, MemoriesAccounted, QueuesEmptied DEF LeftInv
<1>3. QED
  BY <1>1, <1>2, TypeCorrect, SerialsCorrect, PoolsCorrect, DeletionCorrect, PTL DEF Spec

(* The assertions of ~Device and of the destructors of its services hold, and *)
(* only buffers that the application still holds are left.                    *)
THEOREM CleanDestruction == Spec => []NothingLeftInFlight
<1>1. TypeOK /\ PhaseInv /\ DeletionInv /\ LeftInv => NothingLeftInFlight
  <2> SUFFICES ASSUME TypeOK, PhaseInv, DeletionInv, LeftInv, pc = "asserts"
               PROVE  NothingLeftInFlight
    BY DEF NothingLeftInFlight
  <2>1. destroying /\ mFencesInFlight = {}
    BY DEF PhaseInv
  <2>2. /\ mCommandsInFlight = {} /\ mInflightRequests = {}
        /\ mMemoriesToDelete = {} /\ mSemaphoresToDelete = {}
    BY <2>1 DEF LeftInv
  <2>3. mBuffersToDelete = {} /\ handles \subseteq memories
    BY <2>2 DEF DeletionInv
  <2>4. memories \subseteq appRefs
    BY <2>2 DEF LeftInv, MemoriesKnown, Items
  <2>5. QED
    BY <2>1, <2>2, <2>3, <2>4 DEF NothingLeftInFlight
<1>2. QED
  BY <1>1, TypeCorrect, SerialsCorrect, DeletionCorrect, NothingForgotten, PTL
=============================================================================
