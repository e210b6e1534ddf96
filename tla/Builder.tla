------------------------------ MODULE Builder ------------------------------
(***************************************************************************)
(* The builders (src/src/dawn_native/Builder.h, Builder.cpp) behind the    *)
(* entry points generated for them                                         *)
(* (src/generator/templates/dawn_native/ProcTable.cpp): the status, the    *)
(* error callback and the result of GetResult.                             *)
(*                                                                         *)
(* A builder promises that its callback is called exactly once: with a     *)
(* success, with an error, or with unknown when the builder is destroyed   *)
(* before GetResult.  An error that finds no callback becomes an error of  *)
(* the device.  What the builders build and what their functions set are   *)
(* left out: a call may be valid or not.                                   *)
(***************************************************************************)
EXTENDS Naturals, Sequences, SequencesExt

CONSTANT Builders

VARIABLES
  created,      \* builders that were created
  alive,        \* builders that exist
  mCallback,    \* builders that have their callback
  mGotStatus,   \* builders with an error status
  mIsConsumed,  \* builders whose HandleResult was called
  erred,        \* builders with a failed call
  callbacks,    \* what the callback of each builder was called with
  deviceErrors, \* builders whose error became one of the device
  objects,      \* builders whose result exists
  received      \* builders whose GetResult returned an object

vars == <<created, alive, mCallback, mGotStatus, mIsConsumed, erred,
          callbacks, deviceErrors, objects, received>>

Init ==
  /\ created = {} /\ alive = {}
  /\ mCallback = {} /\ mGotStatus = {} /\ mIsConsumed = {}
  /\ erred = {} /\ deviceErrors = {}
  /\ objects = {} /\ received = {}
  /\ callbacks = [b \in Builders |-> <<>>]

Call(b, status) == callbacks' = [callbacks EXCEPT ![b] = Append(@, status)]

-----------------------------------------------------------------------------
(* The entry points refuse a builder that cannot be used.                  *)
CanBeUsed(b) == b \notin mIsConsumed \cup mGotStatus

(* A new builder; SetErrorCallback, which is refused once the builder has  *)
(* an error, is called first or never.                                     *)
Create(b, withCallback) ==
  /\ b \notin created
  /\ created' = created \cup {b} /\ alive' = alive \cup {b}
  /\ mCallback' = IF withCallback THEN mCallback \cup {b} ELSE mCallback
  /\ UNCHANGED <<mGotStatus, mIsConsumed, erred, callbacks, deviceErrors,
                 objects, received>>

(* A set function of the builder that fails: HandleError. *)
SetFails(b) ==
  /\ b \in alive /\ CanBeUsed(b)
  /\ mGotStatus' = mGotStatus \cup {b}
  /\ erred' = erred \cup {b}
  /\ UNCHANGED <<created, alive, mCallback, mIsConsumed, callbacks, deviceErrors,
                 objects, received>>

(* The part of HandleResult that drops an object which failed, so that the *)
(* application does not see it.                                            *)
Kept(b, built, failed) == IF failed THEN objects ELSE objects \cup built

Promoted(b) == IF b \in mCallback THEN deviceErrors ELSE deviceErrors \cup {b}

(* HandleResult for a result that is {b}, or {} for nullptr. *)
HandleResult(b, built, failed) ==
  /\ mIsConsumed' = mIsConsumed \cup {b}
  /\ objects' = Kept(b, built, failed)
  /\ received' = IF failed THEN received ELSE received \cup {b}
  /\ deviceErrors' = IF failed THEN Promoted(b) ELSE deviceErrors
  /\ IF b \in mCallback THEN Call(b, IF failed THEN "ERROR" ELSE "SUCCESS")
     ELSE UNCHANGED callbacks

(* GetResult on a builder that can be used: GetResultImpl and, for command *)
(* buffers, the validation before it may fail, the former also after it    *)
(* has made an object.                                                     *)
GetResult(b) ==
  /\ b \in alive /\ CanBeUsed(b)
  /\ \E fails \in BOOLEAN, makes \in BOOLEAN :
       /\ fails \/ makes
       /\ mGotStatus' = IF fails THEN mGotStatus \cup {b} ELSE mGotStatus
       /\ erred' = IF fails THEN erred \cup {b} ELSE erred
       /\ HandleResult(b, IF makes THEN {b} ELSE {}, fails)
  /\ UNCHANGED <<created, alive, mCallback>>

(* GetResult on a builder with an error still calls HandleResult, with     *)
(* nullptr, so that its callback gets the stored status.                   *)
GetResultOfUnusable(b) ==
  /\ b \in alive /\ b \in mGotStatus \ mIsConsumed
  /\ HandleResult(b, {}, TRUE)
  /\ UNCHANGED <<created, alive, mCallback, mGotStatus, erred>>

CalledOnDestruction(b) == b \in mCallback \ mIsConsumed

(* The last reference goes away: ~BuilderBase. *)
Release(b) ==
  /\ b \in alive
  /\ alive' = alive \ {b}
  /\ IF CalledOnDestruction(b) THEN Call(b, "UNKNOWN") ELSE UNCHANGED callbacks
  /\ UNCHANGED <<created, mCallback, mGotStatus, mIsConsumed, erred, deviceErrors,
                 objects, received>>

-----------------------------------------------------------------------------
(* Properties *)

Status == {"SUCCESS", "ERROR", "UNKNOWN"}
Done(b) == b \in mIsConsumed \cup (created \ alive)

(* The callback of a builder is called exactly once, not before GetResult  *)
(* or the destruction of the builder (Builder.h:30-32), when the           *)
(* application calls GetResult once, as HandleResult asserts.              *)
CalledExactlyOnce ==
  \A b \in Builders :
    Len(callbacks[b]) = IF Done(b) /\ b \in mCallback THEN 1 ELSE 0

(* A success goes with an object, an error or unknown with nullptr, and    *)
(* no object exists that the application did not get (Builder.h:77-79).    *)
ResultMatchesStatus ==
  /\ objects = received
  /\ \A b \in Builders :
       /\ "SUCCESS" \in ToSet(callbacks[b]) => b \in received
       /\ "ERROR" \in ToSet(callbacks[b]) => b \in erred \ received
       /\ "UNKNOWN" \in ToSet(callbacks[b]) => b \notin received

(* Every error reaches either the callback or the device once the result   *)
(* is asked for, and never both.                                           *)
ErrorReportedOnce ==
  \A b \in Builders : b \in mIsConsumed =>
    /\ b \in erred <=> ("ERROR" \in ToSet(callbacks[b]) \/ b \in deviceErrors)
    /\ ~("ERROR" \in ToSet(callbacks[b]) /\ b \in deviceErrors)
=============================================================================
