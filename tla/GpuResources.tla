---------------------------- MODULE GpuResources ----------------------------
(***************************************************************************)
(* What every backend promises about the native resources (buffers, their  *)
(* memory, semaphores) that GPU commands refer to.  The program records    *)
(* commands, submits them in batches that the GPU finishes later, and may  *)
(* let go of a resource (retire it) at any time, even while commands that  *)
(* use it are being recorded or executed.  The backend keeps the native    *)
(* object until no such command is left, and then destroys it.             *)
(*                                                                         *)
(* There is no serial, fence or queue of deletions here: those are the     *)
(* means of one backend.  VulkanDevice implements this specification.      *)
(***************************************************************************)
EXTENDS Naturals

CONSTANT Resources

VARIABLES live,       \* resources whose native object exists
          retired,    \* live resources that the program has let go of
          recording,  \* resources used by the commands being recorded
          batches     \* submitted, unfinished batches: [id, uses] records

absVars == <<live, retired, recording, batches>>

InUse == recording \cup UNION {b.uses : b \in batches}

AbsInit == /\ live = {}
           /\ retired = {}
           /\ recording = {}
           /\ batches = {}

(* One call of the program: it may create resources, record commands that  *)
(* use the resources in U and let go of resources.                         *)
Record(U) == /\ live \subseteq live'
             /\ live' \subseteq Resources
             /\ retired \subseteq retired'
             /\ retired' \subseteq live'
             /\ U \subseteq live' \ retired
             /\ recording' = recording \cup U
             /\ UNCHANGED batches

(* The commands recorded so far become a batch; the resources that only    *)
(* this batch needed may be let go of in the same call.                    *)
Submit(U) == /\ live' = live
             /\ retired \subseteq retired'
             /\ retired' \subseteq live
             /\ U \subseteq live \ retired
             /\ recording' = {}
             /\ \E id \in {b.id : b \in batches'} :
                  /\ \A b \in batches : b.id # id
                  /\ batches' = batches \cup
                                  {[id |-> id, uses |-> recording \cup U]}

(* The GPU finishes a batch. *)
Finish == /\ \E b \in batches : batches' = batches \ {b}
          /\ UNCHANGED <<live, retired, recording>>

(* Native objects are destroyed only once let go of and out of use. *)
Destroy == /\ live' \subseteq live
           /\ live \ live' \subseteq retired \ InUse
           /\ retired' = retired \cap live'
           /\ UNCHANGED <<recording, batches>>

(* The device is being destroyed: commands not yet submitted are dropped.  *)
Abandon == /\ recording' \subseteq recording
           /\ UNCHANGED <<live, retired, batches>>

AbsNext == \/ \E U \in SUBSET Resources : Record(U) \/ Submit(U)
           \/ Finish
           \/ Destroy
           \/ Abandon

AbsSpec == AbsInit /\ [][AbsNext]_absVars
=============================================================================
