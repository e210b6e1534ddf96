----------------------------- MODULE MapPromise -----------------------------
(***************************************************************************)
(* What the mapping interface of a buffer promises to the application that *)
(* calls MapReadAsync, MapWriteAsync and Unmap: each call is answered once,*)
(* and the buffer is mapped by one accepted request at a time, which is    *)
(* answered before the buffer is free for another.                         *)
(***************************************************************************)
CONSTANTS Requests,  \* calls of MapReadAsync and MapWriteAsync
          NoRequest

VARIABLES answer,    \* what each request was answered, if it was made
          mapper     \* the request by which the buffer is mapped

vars == <<answer, mapper>>

Init == /\ answer = [r \in Requests |-> "unused"]
        /\ mapper = NoRequest

(* A request that is not valid, or comes while the buffer is mapped. *)
Reject(r) == /\ answer[r] = "unused"
             /\ answer' = [answer EXCEPT ![r] = "ERROR"]
             /\ UNCHANGED mapper

Accept(r) == /\ answer[r] = "unused" /\ mapper = NoRequest
             /\ answer' = [answer EXCEPT ![r] = "waiting"]
             /\ mapper' = r

(* The data is there, or the buffer is unmapped or destroyed before that.  *)
Answer(r, status) == /\ answer[r] = "waiting" /\ mapper = r
                     /\ answer' = [answer EXCEPT ![r] = status]
                     /\ UNCHANGED mapper

Unmap == /\ mapper # NoRequest /\ answer[mapper] # "waiting"
         /\ mapper' = NoRequest
         /\ UNCHANGED answer

Conclude(r) == Answer(r, "SUCCESS") \/ Answer(r, "UNKNOWN")

Next == \/ \E r \in Requests : Reject(r) \/ Accept(r) \/ Conclude(r)
        \/ Unmap

Spec == Init /\ [][Next]_vars
PromiseSpec == Spec /\ \A r \in Requests : WF_vars(Conclude(r))
=============================================================================
