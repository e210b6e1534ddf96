------------------------ MODULE BufferMapping_proofs ------------------------
(***************************************************************************)
(* Theorems about BufferMapping, for any requests, any width of the serial *)
(* and any depth of callbacks, of applications that do not map again from  *)
(* a callback of Unmap: the exception is real, see EveryRequestAnswered.   *)
(***************************************************************************)
EXTENDS BufferMapping, TLAPS, SequenceTheorems

(* A buffer starts unmapped, with every request unused.                    *)
LEMMA IInvInit == Init => IInv
<1> SUFFICES ASSUME Init PROVE IInv OBVIOUS
<1>1. TypeOK
  <2>1. mMapSerial \in 0..(SerialModulus - 1) BY SerialAssumption DEF Init
  <2>2. stack \in Seq(Requests \cup {"unmap"}) BY DEF Init
  <2> QED BY <2>1, <2>2 DEF Init, TypeOK
<1>2. RequestsAreServed /\ AnsweredOnce
  BY DEF Init, RequestsAreServed, NothingLost, NoCancelledData, UsedWhileAlive, AnsweredOnce
<1>3. HolderInv BY NoRequestAssumption DEF Init, HolderInv, InUnmap
<1>4. FlightInv /\ StackInv BY DEF Init, FlightInv, StackInv
<1> QED BY <1>1, <1>2, <1>3, <1>4 DEF IInv

(* The request of the held callback is the only one of its serial.         *)
LEMMA CurrentIsHeld ==
  ASSUME IInv, NEW q \in inFlight, IsCurrent(q)
  PROVE  q.request = mMapCallback /\ mMapCallback \in Requests
<1>1. mMapCallback \in Requests BY DEF IInv, TypeOK, IsCurrent
<1>2. [request |-> mMapCallback, serial |-> mMapSerial] \in inFlight
  BY <1>1 DEF IInv, RequestsAreServed, NothingLost, HolderInv, IsCurrent
<1> QED BY <1>1, <1>2 DEF IInv, FlightInv, IsCurrent

(* A callback is called of a request that has not been answered.           *)
LEMMA AnswersOnce ==
  ASSUME AnsweredOnce, TypeOK, NEW r \in Requests, answer[r] \in {"unused", "waiting"},
         NEW status \in {"SUCCESS", "UNKNOWN", "ERROR"}, NEW from \in Requests \cup {NoRequest},
         status = "SUCCESS" => from = r, NoCancelledData,
         Call(r, status, from)
  PROVE  /\ AnsweredOnce' /\ NoCancelledData'
         /\ answer' \in [Requests -> {"unused", "waiting", "SUCCESS", "UNKNOWN", "ERROR"}]
         /\ calls' \in [Requests -> Nat]
         /\ data' \in [Requests -> Requests \cup {NoRequest}]
         /\ answer'[r] = status
         /\ \A s \in Requests \ {r} : answer'[s] = answer[s]
<1>1. calls[r] = 0 BY DEF AnsweredOnce
<1>2. /\ answer'[r] = status /\ calls'[r] = 1 /\ data'[r] = from
      /\ \A s \in Requests \ {r} :
           answer'[s] = answer[s] /\ calls'[s] = calls[s] /\ data'[s] = data[s]
  BY <1>1 DEF Call, TypeOK
<1>3. AnsweredOnce' BY <1>2 DEF AnsweredOnce
<1>4. NoCancelledData' BY <1>2 DEF NoCancelledData
<1> QED BY <1>1, <1>2, <1>3, <1>4 DEF Call, TypeOK

(* A request that is rejected is answered at once.                         *)
LEMMA RejectKeeps ==
  ASSUME IInv, NEW r \in Requests, RejectMapAsync(r)
  PROVE  IInv'
<1>1. /\ AnsweredOnce' /\ NoCancelledData'
      /\ answer' \in [Requests -> {"unused", "waiting", "SUCCESS", "UNKNOWN", "ERROR"}]
      /\ calls' \in [Requests -> Nat] /\ data' \in [Requests -> Requests \cup {NoRequest}]
      /\ answer'[r] = "ERROR" /\ \A s \in Requests \ {r} : answer'[s] = answer[s]
  BY AnswersOnce DEF RejectMapAsync, IInv, RequestsAreServed
<1>2. answer[r] = "unused" /\ UNCHANGED <<bufferVars, refVars, inFlight, stack>>
  BY DEF RejectMapAsync
<1>3. TypeOK' BY <1>1, <1>2 DEF IInv, TypeOK, bufferVars, refVars
<1>4. NothingLost' /\ UsedWhileAlive'
  BY <1>1, <1>2
  DEF IInv, RequestsAreServed, NothingLost, UsedWhileAlive, bufferVars, refVars
<1>5. HolderInv'
  <2>1. mMapCallback \in Requests => answer'[mMapCallback] = answer[mMapCallback]
    BY <1>1, <1>2, NoRequestAssumption DEF IInv, HolderInv, TypeOK
  <2> QED
    BY <2>1, <1>2 DEF IInv, HolderInv, InUnmap, TypeOK, bufferVars, refVars
<1>6. FlightInv'
  BY <1>1, <1>2 DEF IInv, FlightInv, TypeOK, InFlightType
<1>7. StackInv'
  <2>1. \A i \in 1..Len(stack) : stack[i] # "unmap" => stack[i] \in Requests
    BY DEF IInv, TypeOK
  <2> QED BY <2>1, <1>1, <1>2 DEF IInv, StackInv
<1> QED BY <1>1, <1>3, <1>4, <1>5, <1>6, <1>7 DEF IInv, RequestsAreServed

(* A request that is accepted is held under the next serial.               *)
LEMMA AcceptKeeps ==
  ASSUME IInv, ~RemapInUnmap, NEW r \in Requests, AcceptMapAsync(r)
  PROVE  IInv'
<1> DEFINE q == [request |-> r, serial |-> NextSerial]
<1>1. /\ appRef /\ alive /\ answer[r] = "unused" /\ ~mIsMapped /\ ~InUnmap
      /\ \A p \in inFlight : p.serial # NextSerial /\ p.request # r
  BY DEF AcceptMapAsync, ValidateMap, NextSerial, IInv, RequestsAreServed, UsedWhileAlive,
         FlightInv
<1>2. /\ mMapSerial' = NextSerial /\ mMapCallback' = r /\ lastRequest' = r /\ mIsMapped'
      /\ inFlight' = inFlight \cup {q}
      /\ answer' = [answer EXCEPT ![r] = "waiting"]
      /\ UNCHANGED <<appRef, alive, stack, calls, data>>
  BY DEF AcceptMapAsync, refVars
<1>3. NextSerial \in 0..(SerialModulus - 1)
  BY SerialAssumption DEF NextSerial, IInv, TypeOK
<1>4. /\ answer'[r] = "waiting" /\ \A s \in Requests \ {r} : answer'[s] = answer[s]
      /\ answer' \in [Requests -> {"unused", "waiting", "SUCCESS", "UNKNOWN", "ERROR"}]
  BY <1>2 DEF IInv, TypeOK
<1>5. TypeOK'
  <2>1. inFlight' \subseteq InFlightType BY <1>2, <1>3 DEF IInv, TypeOK, InFlightType
  <2>2. mMapSerial' \in 0..(SerialModulus - 1) BY <1>2, <1>3
  <2> QED BY <1>2, <1>4, <2>1, <2>2 DEF IInv, TypeOK
<1>6. RequestsAreServed'
  <2>1. \A s \in Requests : answer[s] # "waiting"
    BY <1>1 DEF IInv, RequestsAreServed, NothingLost
  <2>2. NothingLost' BY <1>1, <1>2, <1>4, <2>1 DEF NothingLost
  <2>3. NoCancelledData' BY <1>2, <1>4 DEF IInv, RequestsAreServed, NoCancelledData
  <2> QED BY <1>1, <1>2, <2>2, <2>3 DEF RequestsAreServed, UsedWhileAlive
<1>7. AnsweredOnce' BY <1>1, <1>2, <1>4 DEF IInv, AnsweredOnce
<1>8. HolderInv' BY <1>1, <1>2, <1>4, NoRequestAssumption DEF HolderInv, InUnmap
<1>9. FlightInv'
  BY <1>1, <1>2, <1>4 DEF IInv, FlightInv, TypeOK, InFlightType
<1>10. StackInv'
  <2>1. \A i \in 1..Len(stack) : stack[i] # "unmap" =>
          stack[i] \in Requests /\ stack[i] # r
    BY <1>1 DEF IInv, StackInv, TypeOK
  <2> QED BY <2>1, <1>2, <1>4 DEF IInv, StackInv
<1> QED BY <1>5, <1>6, <1>7, <1>8, <1>9, <1>10 DEF IInv

(* Unmap of a pending request answers it first.                            *)
LEMMA UnmapPendingKeeps ==
  ASSUME IInv, UnmapPending
  PROVE  IInv'
<1> DEFINE r == mMapCallback
<1>1. r \in Requests /\ appRef /\ alive /\ mIsMapped /\ answer[r] = "waiting"
  BY DEF UnmapPending, IInv, HolderInv, TypeOK
<1>2. /\ mMapCallback' = NoRequest /\ stack' = Append(stack, "unmap")
      /\ UNCHANGED <<appRef, alive, inFlight, mIsMapped, mMapSerial, lastRequest>>
  BY DEF UnmapPending, Fired, Push, refVars
<1>3. /\ AnsweredOnce' /\ NoCancelledData'
      /\ answer' \in [Requests -> {"unused", "waiting", "SUCCESS", "UNKNOWN", "ERROR"}]
      /\ calls' \in [Requests -> Nat] /\ data' \in [Requests -> Requests \cup {NoRequest}]
      /\ answer'[r] = "UNKNOWN" /\ \A s \in Requests \ {r} : answer'[s] = answer[s]
  BY <1>1, AnswersOnce DEF UnmapPending, IInv, RequestsAreServed
<1>4. stack \in Seq(Requests \cup {"unmap"}) BY DEF IInv, TypeOK
<1>5. TypeOK' BY <1>2, <1>3, <1>4 DEF IInv, TypeOK
<1>6. RequestsAreServed'
  <2>1. NothingLost' BY <1>1, <1>2, <1>3 DEF IInv, RequestsAreServed, NothingLost
  <2> QED BY <1>1, <1>2, <1>3, <2>1 DEF RequestsAreServed, UsedWhileAlive
<1>7. HolderInv' BY <1>1, <1>2 DEF IInv, HolderInv
<1>8. FlightInv' BY <1>1, <1>2, <1>3 DEF IInv, FlightInv, TypeOK, InFlightType
<1>9. StackInv'
  <2>1. /\ Len(stack') = Len(stack) + 1 /\ stack'[Len(stack) + 1] = "unmap"
        /\ \A i \in 1..Len(stack) : stack'[i] = stack[i]
    BY <1>2, <1>4
  <2>2. \A i \in 1..Len(stack) : stack[i] # "unmap" => stack[i] \in Requests BY <1>4
  <2>3. ASSUME NEW i \in 1..Len(stack'), stack'[i] # "unmap"
        PROVE  i \in 1..Len(stack) /\ stack'[i] = stack[i] /\ stack[i] \in Requests
    BY <2>1, <2>2, <2>3, <1>4
  <2>4. ASSUME NEW i \in 1..Len(stack'), stack'[i] # "unmap"
        PROVE  /\ \E q \in inFlight' : q.request = stack'[i]
               /\ answer'[stack'[i]] # "waiting"
               /\ \A j \in 1..Len(stack') : stack'[j] = stack'[i] => j = i
    <3>1. i \in 1..Len(stack) /\ stack'[i] = stack[i] /\ stack[i] \in Requests
      BY <2>3, <2>4
    <3>2. \A j \in 1..Len(stack') : stack'[j] = stack'[i] =>
            j \in 1..Len(stack) /\ stack[j] = stack[i]
      BY <2>3, <2>4, <3>1
    <3> QED BY <1>2, <1>3, <2>4, <3>1, <3>2 DEF IInv, StackInv
  <2> QED BY <2>4 DEF StackInv
<1> QED BY <1>3, <1>5, <1>6, <1>7, <1>8, <1>9 DEF IInv

(* Unmap of a buffer whose callback is not held any more changes nothing   *)
(* that a request waits for.                                               *)
LEMMA FinishUnmapKeeps ==
  ASSUME IInv, mMapCallback = NoRequest, FinishUnmap,
         UNCHANGED <<answerVars, refVars, inFlight>>,
         stack' \in Seq(Requests \cup {"unmap"}), Len(stack') \in 0..Len(stack),
         \A i \in 1..Len(stack') : stack'[i] = stack[i]
  PROVE  IInv'
<1>1. /\ mIsMapped' = FALSE /\ mMapCallback' = NoRequest
      /\ UNCHANGED <<mMapSerial, lastRequest, answer, calls, data, appRef, alive, inFlight>>
  BY DEF FinishUnmap, answerVars, refVars
<1>2. TypeOK' BY <1>1 DEF IInv, TypeOK
<1>3. stack = <<>> => stack' = <<>> BY DEF IInv, TypeOK
<1>4. \A r \in Requests : answer[r] # "waiting"
  BY NoRequestAssumption DEF IInv, RequestsAreServed, NothingLost
<1>5. RequestsAreServed' /\ AnsweredOnce'
  BY <1>1, <1>3, <1>4
  DEF IInv, RequestsAreServed, NothingLost, NoCancelledData, UsedWhileAlive, AnsweredOnce
<1>6. HolderInv'
  <2>1. InUnmap' => InUnmap BY DEF InUnmap, IInv, TypeOK
  <2> QED BY <1>1, <2>1 DEF IInv, HolderInv
<1>7. FlightInv' BY <1>1 DEF IInv, FlightInv
<1>8. StackInv'
  <2>1. \A i \in 1..Len(stack') : i \in 1..Len(stack) BY DEF IInv, TypeOK
  <2> QED BY <1>1, <2>1 DEF IInv, StackInv
<1> QED BY <1>2, <1>5, <1>6, <1>7, <1>8 DEF IInv

(* A callback that returns leaves the rest of the stack as it was.         *)
LEMMA PopFacts ==
  ASSUME TypeOK, stack # <<>>, Pop
  PROVE  /\ stack' \in Seq(Requests \cup {"unmap"})
         /\ Len(stack) \in Nat \ {0} /\ Len(stack') = Len(stack) - 1
         /\ \A i \in 1..Len(stack') : stack'[i] = stack[i]
<1>1. stack \in Seq(Requests \cup {"unmap"}) /\ Len(stack) \in Nat \ {0} BY DEF TypeOK
<1>2. stack' = SubSeq(stack, 1, Len(stack) - 1) BY DEF Pop
<1> DEFINE n == Len(stack) - 1
<1>3. n \in Nat /\ \A i \in 1..n : stack[i] \in Requests \cup {"unmap"} BY <1>1
<1>4. /\ SubSeq(stack, 1, n) \in Seq(Requests \cup {"unmap"})
      /\ Len(SubSeq(stack, 1, n)) = n
      /\ \A i \in 1..n : SubSeq(stack, 1, n)[i] = stack[i]
  <2> HIDE DEF n
  <2>1. /\ SubSeq(stack, 1, n) \in Seq(Requests \cup {"unmap"})
        /\ Len(SubSeq(stack, 1, n)) = IF 1 <= n THEN n - 1 + 1 ELSE 0
        /\ \A i \in 1..n - 1 + 1 : SubSeq(stack, 1, n)[i] = stack[1 + i - 1]
    BY <1>3, SubSeqProperties
  <2>2. (IF 1 <= n THEN n - 1 + 1 ELSE 0) = n BY <1>3
  <2>3. \A i \in 1..n : i \in 1..n - 1 + 1 /\ 1 + i - 1 = i BY <1>3
  <2> QED BY <2>1, <2>2, <2>3
<1> QED BY <1>1, <1>2, <1>4

(* References go away, and the buffer with the last one; requests that     *)
(* wait keep theirs, unless all go, and so do callbacks that run.          *)
LEMMA ReferencesKeep ==
  ASSUME IInv, NEW byApp \in BOOLEAN, NEW requests \in SUBSET inFlight,
         SetReferences(byApp, requests), byApp => appRef,
         (requests = {} /\ ~byApp) \/
           \A r \in Requests : answer[r] = "waiting" =>
             [request |-> r, serial |-> mMapSerial] \in requests,
         stack' \in Seq(Requests \cup {"unmap"}), Len(stack') \in 0..Len(stack),
         \A i \in 1..Len(stack') :
           /\ stack'[i] = stack[i]
           /\ stack[i] = "unmap" => byApp
           /\ stack[i] # "unmap" => \E q \in requests : q.request = stack[i]
  PROVE  IInv'
<1>1. appRef' = byApp /\ inFlight' = requests BY DEF SetReferences
<1>2. stack = <<>> => stack' = <<>> BY DEF IInv, TypeOK
<1>3. requests = {} /\ ~byApp => stack' = <<>>
  <2>1. requests = {} /\ ~byApp => ~(1 \in 1..Len(stack')) OBVIOUS
  <2> QED BY <2>1
<1>4. \A i \in 1..Len(stack') : i \in 1..Len(stack) BY DEF IInv, TypeOK
<1>5. InUnmap' => InUnmap /\ byApp BY <1>4 DEF InUnmap
<1>6. requests \subseteq InFlightType BY DEF IInv, TypeOK
<1>7. CASE alive /\ ~IsReferenced(byApp, requests)
  <2>1. /\ alive' = FALSE /\ mMapCallback' = NoRequest /\ requests = {} /\ ~byApp
        /\ UNCHANGED <<mIsMapped, mMapSerial, lastRequest>>
        /\ IF mIsMapped /\ mMapCallback # NoRequest
             THEN Call(mMapCallback, "UNKNOWN", NoRequest) ELSE UNCHANGED answerVars
    BY <1>7 DEF SetReferences, DestroyBuffer, IsReferenced
  <2>2. /\ AnsweredOnce' /\ NoCancelledData'
        /\ answer' \in [Requests -> {"unused", "waiting", "SUCCESS", "UNKNOWN", "ERROR"}]
        /\ calls' \in [Requests -> Nat]
        /\ data' \in [Requests -> Requests \cup {NoRequest}]
        /\ \A r \in Requests : answer'[r] # "waiting"
    <3>1. CASE mMapCallback # NoRequest
      <4>1. mMapCallback \in Requests /\ mIsMapped /\ answer[mMapCallback] = "waiting"
        BY <3>1 DEF IInv, HolderInv, TypeOK
      <4>2. \A r \in Requests \ {mMapCallback} : answer[r] # "waiting"
        BY DEF IInv, RequestsAreServed, NothingLost
      <4> QED BY <2>1, <3>1, <4>1, <4>2, AnswersOnce DEF IInv, RequestsAreServed
    <3>2. CASE mMapCallback = NoRequest
      <4>1. \A r \in Requests : answer[r] # "waiting"
        BY <3>2, NoRequestAssumption DEF IInv, RequestsAreServed, NothingLost
      <4>2. UNCHANGED <<answer, calls, data>> BY <2>1, <3>2 DEF answerVars
      <4> QED BY <4>1, <4>2
           DEF IInv, RequestsAreServed, AnsweredOnce, NoCancelledData, TypeOK
    <3> QED BY <3>1, <3>2
  <2>3. TypeOK' BY <1>1, <2>1, <2>2 DEF IInv, TypeOK
  <2>4. RequestsAreServed'
    BY <1>1, <1>3, <2>1, <2>2 DEF RequestsAreServed, NothingLost, UsedWhileAlive
  <2>5. HolderInv' BY <1>5, <2>1 DEF IInv, HolderInv
  <2>6. FlightInv' /\ StackInv' BY <1>1, <1>3, <2>1 DEF FlightInv, StackInv
  <2> QED BY <2>2, <2>3, <2>4, <2>5, <2>6 DEF IInv
<1>8. CASE ~(alive /\ ~IsReferenced(byApp, requests))
  <2>1. UNCHANGED <<alive, answer, calls, data, mIsMapped, mMapSerial, mMapCallback,
                    lastRequest>>
    BY <1>8 DEF SetReferences, answerVars, bufferVars
  <2>2. TypeOK' BY <1>1, <1>6, <2>1 DEF IInv, TypeOK
  <2>3. NothingLost'
    BY <1>1, <1>8, <2>1 DEF IInv, RequestsAreServed, NothingLost, IsReferenced
  <2>4. UsedWhileAlive'
    BY <1>1, <1>2, <2>1 DEF IInv, RequestsAreServed, UsedWhileAlive
  <2>5. NoCancelledData' /\ AnsweredOnce'
    BY <2>1 DEF IInv, RequestsAreServed, NoCancelledData, AnsweredOnce
  <2>6. HolderInv' BY <1>1, <1>5, <2>1 DEF IInv, HolderInv
  <2>7. FlightInv' BY <1>1, <2>1 DEF IInv, FlightInv
  <2>8. StackInv' BY <1>1, <1>4, <2>1 DEF IInv, StackInv
  <2> QED BY <2>2, <2>3, <2>4, <2>5, <2>6, <2>7, <2>8 DEF IInv, RequestsAreServed
<1> QED BY <1>7, <1>8

(* The backend answers the request that the buffer holds.                  *)
LEMMA CompleteCurrentKeeps ==
  ASSUME IInv, NEW q \in inFlight, CompleteCurrent(q)
  PROVE  IInv'
<1> DEFINE r == mMapCallback
<1>1. r \in Requests /\ q.request = r /\ alive /\ answer[r] = "waiting" /\ ~InUnmap
  BY CurrentIsHeld DEF CompleteCurrent, IsCurrent, IInv, HolderInv
<1>2. /\ mMapCallback' = NoRequest /\ stack' = Append(stack, r)
      /\ UNCHANGED <<appRef, alive, inFlight, mIsMapped, mMapSerial, lastRequest>>
  BY <1>1 DEF CompleteCurrent, Fired, Push, refVars
<1>3. /\ AnsweredOnce' /\ NoCancelledData'
      /\ answer' \in [Requests -> {"unused", "waiting", "SUCCESS", "UNKNOWN", "ERROR"}]
      /\ calls' \in [Requests -> Nat] /\ data' \in [Requests -> Requests \cup {NoRequest}]
      /\ answer'[r] = "SUCCESS" /\ \A s \in Requests \ {r} : answer'[s] = answer[s]
  <2>1. Call(r, "SUCCESS", r) BY <1>1 DEF CompleteCurrent
  <2> QED BY <1>1, <2>1, AnswersOnce DEF IInv, RequestsAreServed
<1>4. stack \in Seq(Requests \cup {"unmap"}) BY DEF IInv, TypeOK
<1>5. TypeOK' BY <1>1, <1>2, <1>3, <1>4 DEF IInv, TypeOK
<1>6. RequestsAreServed'
  <2>1. NothingLost' BY <1>1, <1>2, <1>3 DEF IInv, RequestsAreServed, NothingLost
  <2> QED BY <1>1, <1>2, <1>3, <2>1 DEF RequestsAreServed, UsedWhileAlive
<1>7. /\ Len(stack') = Len(stack) + 1 /\ stack'[Len(stack) + 1] = r
      /\ \A i \in 1..Len(stack) : stack'[i] = stack[i]
  BY <1>1, <1>2, <1>4
<1>8. HolderInv'
  <2>1. ~InUnmap' BY <1>1, <1>4, <1>7, NoRequestAssumption DEF InUnmap
  <2> QED BY <1>2, <2>1 DEF IInv, HolderInv
<1>9. FlightInv' BY <1>1, <1>2, <1>3 DEF IInv, FlightInv, TypeOK, InFlightType
<1>10. StackInv'
  <2>1. \A i \in 1..Len(stack) : stack[i] # r
    BY <1>1 DEF CompleteCurrent, Executing
  <2>2. \A i \in 1..Len(stack) : stack[i] \in Requests
    BY <1>1, <1>4 DEF InUnmap
  <2>3. ASSUME NEW i \in 1..Len(stack'), stack'[i] # "unmap"
        PROVE  /\ \E p \in inFlight' : p.request = stack'[i]
               /\ answer'[stack'[i]] # "waiting"
               /\ \A j \in 1..Len(stack') : stack'[j] = stack'[i] => j = i
    <3>1. CASE i = Len(stack) + 1
      <4>1. \A j \in 1..Len(stack') : j # i => j \in 1..Len(stack) BY <1>4, <1>7, <3>1
      <4> QED BY <1>1, <1>2, <1>3, <1>7, <2>1, <3>1, <4>1
    <3>2. CASE i \in 1..Len(stack)
      <4>1. \A j \in 1..Len(stack') : j \in 1..Len(stack) \/ stack'[j] = r
        BY <1>4, <1>7
      <4>2. stack'[i] = stack[i] /\ stack[i] \in Requests \ {r} BY <1>7, <2>1, <2>2, <3>2
      <4>3. stack[i] # "unmap" BY <2>3, <4>2
      <4>4. /\ \E p \in inFlight : p.request = stack[i]
            /\ answer[stack[i]] # "waiting"
            /\ \A j \in 1..Len(stack) : stack[j] = stack[i] => j = i
        BY <3>2, <4>3 DEF IInv, StackInv
      <4>5. \A j \in 1..Len(stack') : stack'[j] = stack'[i] => j = i
        BY <1>7, <4>1, <4>2, <4>4
      <4> QED BY <1>2, <1>3, <4>2, <4>4, <4>5
    <3> QED BY <1>4, <1>7, <3>1, <3>2
  <2> QED BY <2>3 DEF StackInv
<1> QED BY <1>3, <1>5, <1>6, <1>8, <1>9, <1>10 DEF IInv

(* The backend is done with a request that was cancelled.                  *)
LEMMA CompleteCancelledKeeps ==
  ASSUME IInv, NEW q \in inFlight, CompleteCancelled(q)
  PROVE  IInv'
<1> DEFINE requests == inFlight \ {q}
<1>1. SetReferences(appRef, requests) /\ stack' = stack BY DEF CompleteCancelled
<1>2. ASSUME NEW r \in Requests, answer[r] = "waiting"
      PROVE  [request |-> r, serial |-> mMapSerial] \in requests
  BY <1>2, NoRequestAssumption
  DEF IInv, RequestsAreServed, NothingLost, CompleteCancelled, IsCurrent
<1>3. ASSUME NEW i \in 1..Len(stack)
      PROVE  /\ stack[i] = "unmap" => appRef
             /\ stack[i] # "unmap" => \E p \in requests : p.request = stack[i]
  BY <1>3 DEF IInv, HolderInv, InUnmap, StackInv, CompleteCancelled, Executing
<1>4. stack \in Seq(Requests \cup {"unmap"}) /\ appRef \in BOOLEAN BY DEF IInv, TypeOK
<1>5. Len(stack) \in 0..Len(stack) BY <1>4
<1> HIDE DEF requests
<1>6. requests \in SUBSET inFlight BY DEF requests
<1> QED BY <1>1, <1>2, <1>3, <1>4, <1>5, <1>6, ReferencesKeep

(* A callback returns to the backend, which lets go of the request.        *)
LEMMA ReturnToBackendKeeps ==
  ASSUME IInv, ReturnToBackend
  PROVE  IInv'
<1> DEFINE requests == {q \in inFlight : q.request # Top}
<1>1. stack # <<>> /\ Top # "unmap" /\ SetReferences(appRef, requests) /\ Pop
  BY DEF ReturnToBackend
<1>2. /\ stack' \in Seq(Requests \cup {"unmap"})
      /\ Len(stack) \in Nat \ {0} /\ Len(stack') = Len(stack) - 1
      /\ \A i \in 1..Len(stack') : stack'[i] = stack[i]
  BY <1>1, PopFacts DEF IInv
<1>3. Len(stack) \in 1..Len(stack) /\ Top = stack[Len(stack)] BY <1>2 DEF Top
<1>4. ASSUME NEW r \in Requests, answer[r] = "waiting"
      PROVE  [request |-> r, serial |-> mMapSerial] \in requests
  <2>1. answer[Top] # "waiting" BY <1>1, <1>3 DEF IInv, StackInv
  <2> QED BY <1>4, <2>1 DEF IInv, RequestsAreServed, NothingLost
<1>5. ASSUME NEW i \in 1..Len(stack')
      PROVE  /\ stack'[i] = stack[i]
             /\ stack[i] = "unmap" => appRef
             /\ stack[i] # "unmap" => \E q \in requests : q.request = stack[i]
  <2>1. i \in 1..Len(stack) /\ i # Len(stack) BY <1>2, <1>5
  <2>2. stack[i] # "unmap" => stack[i] # Top BY <1>1, <1>3, <2>1 DEF IInv, StackInv
  <2> QED BY <1>2, <1>5, <2>1, <2>2 DEF IInv, HolderInv, InUnmap, StackInv
<1>6. Len(stack') \in 0..Len(stack) BY <1>2
<1>7. appRef \in BOOLEAN /\ requests \in SUBSET inFlight BY DEF IInv, TypeOK
<1> HIDE DEF requests
<1> QED BY <1>1, <1>2, <1>4, <1>5, <1>6, <1>7, ReferencesKeep

(* Every step keeps the invariant.                                         *)
THEOREM IInvInductive ==
  ASSUME IInv, ~RemapInUnmap, [Next]_vars
  PROVE  IInv'
<1>1. ASSUME NEW r \in Requests, RejectMapAsync(r) PROVE IInv' BY <1>1, RejectKeeps
<1>2. ASSUME NEW r \in Requests, AcceptMapAsync(r) PROVE IInv' BY <1>2, AcceptKeeps
<1>3. CASE UnmapPending BY <1>3, UnmapPendingKeeps
<1>4. CASE UnmapCompleted
  <2>1. stack' = stack /\ stack \in Seq(Requests \cup {"unmap"})
    BY <1>4 DEF UnmapCompleted, IInv, TypeOK
  <2>2. Len(stack) \in 0..Len(stack) BY <2>1
  <2> QED BY <1>4, <2>1, <2>2, FinishUnmapKeeps DEF UnmapCompleted
<1>5. CASE Release
  <2>1. stack' = stack /\ stack \in Seq(Requests \cup {"unmap"})
    BY <1>5 DEF Release, IInv, TypeOK
  <2>2. Len(stack) \in 0..Len(stack) BY <2>1
  <2>3. \A r \in Requests : answer[r] = "waiting" =>
          [request |-> r, serial |-> mMapSerial] \in inFlight
    BY DEF IInv, RequestsAreServed, NothingLost
  <2>4. \A i \in 1..Len(stack) :
          stack[i] # "unmap" /\ \E q \in inFlight : q.request = stack[i]
    BY <1>5 DEF Release, InUnmap, IInv, StackInv
  <2>5. SetReferences(FALSE, inFlight) BY <1>5 DEF Release
  <2> QED BY <2>1, <2>2, <2>3, <2>4, <2>5, ReferencesKeep
<1>6. ASSUME NEW q \in inFlight, CompleteCurrent(q) PROVE IInv'
  BY <1>6, CompleteCurrentKeeps
<1>7. ASSUME NEW q \in inFlight, CompleteCancelled(q) PROVE IInv'
  BY <1>7, CompleteCancelledKeeps
<1>8. CASE DropPendingOperations
  <2>1. stack' = <<>> /\ stack = <<>> /\ SetReferences(FALSE, {})
    BY <1>8 DEF DropPendingOperations
  <2>2. /\ stack' \in Seq(Requests \cup {"unmap"}) /\ Len(stack') \in 0..Len(stack)
        /\ \A i \in 1..Len(stack') : FALSE
    BY <2>1
  <2> QED BY <2>1, <2>2, ReferencesKeep
<1>9. CASE ReturnToUnmap
  <2>1. stack # <<>> /\ Top = "unmap" /\ Pop /\ FinishUnmap
        /\ UNCHANGED <<answerVars, refVars, inFlight>>
    BY <1>9 DEF ReturnToUnmap
  <2>2. /\ stack' \in Seq(Requests \cup {"unmap"})
        /\ Len(stack) \in Nat \ {0} /\ Len(stack') = Len(stack) - 1
        /\ \A i \in 1..Len(stack') : stack'[i] = stack[i]
    BY <2>1, PopFacts DEF IInv
  <2>3. Len(stack') \in 0..Len(stack) /\ Len(stack) \in 1..Len(stack) BY <2>2
  <2>4. mMapCallback = NoRequest BY <2>1, <2>3 DEF IInv, HolderInv, InUnmap, Top
  <2> QED BY <2>1, <2>2, <2>3, <2>4, FinishUnmapKeeps
<1>10. CASE ReturnToBackend BY <1>10, ReturnToBackendKeeps
<1>11. CASE UNCHANGED vars
  BY <1>11 DEF vars, bufferVars, answerVars, refVars, IInv, TypeOK, RequestsAreServed,
               NothingLost, NoCancelledData, UsedWhileAlive, AnsweredOnce, HolderInv,
               InUnmap, FlightInv, StackInv
<1> QED
  BY <1>1, <1>2, <1>3, <1>4, <1>5, <1>6, <1>7, <1>8, <1>9, <1>10, <1>11
  DEF Next, BackendCompletes, CallbackReturns

(* The invariant holds in every behaviour.                                 *)
LEMMA InvariantHolds ==
  ASSUME ~RemapInUnmap
  PROVE  Spec => []IInv
<1>1. IInv /\ [Next]_vars => IInv' BY IInvInductive
<1> QED BY <1>1, IInvInit, PTL DEF Spec

(* Every variable keeps its type. *)
THEOREM TypeCorrect ==
  ASSUME ~RemapInUnmap
  PROVE  Spec => []TypeOK
<1>1. IInv => TypeOK BY DEF IInv
<1> QED BY <1>1, InvariantHolds, PTL

(* An accepted request is never forgotten, no request gets the data of one *)
(* that was cancelled, and the buffer is there as long as a call or the    *)
(* backend uses it.                                                        *)
THEOREM RequestsServed ==
  ASSUME ~RemapInUnmap
  PROVE  Spec => []RequestsAreServed
<1>1. IInv => RequestsAreServed BY DEF IInv
<1> QED BY <1>1, InvariantHolds, PTL

(* No callback is called twice. *)
THEOREM OneAnswer ==
  ASSUME ~RemapInUnmap
  PROVE  Spec => []AnsweredOnce
<1>1. IInv => AnsweredOnce BY DEF IInv
<1> QED BY <1>1, InvariantHolds, PTL

-----------------------------------------------------------------------------
(* BufferMapping keeps the promise of MapPromise, as far as safety goes.   *)

(* A buffer starts where MapPromise does.                                  *)
LEMMA PromiseInit == Init => Promise!Init
BY DEF Init, Promise!Init

(* The callback held is called: the promise is concluded.                  *)
LEMMA ConcludeHeld ==
  ASSUME IInv, mMapCallback # NoRequest, NEW status \in {"SUCCESS", "UNKNOWN"},
         NEW from, Call(mMapCallback, status, from), UNCHANGED <<mIsMapped, lastRequest>>
  PROVE  Promise!Next
<1>1. /\ mMapCallback \in Requests /\ answer[mMapCallback] = "waiting"
      /\ mIsMapped /\ lastRequest = mMapCallback
  BY DEF IInv, HolderInv, TypeOK
<1>2. Promise!Answer(mMapCallback, status) BY <1>1 DEF Promise!Answer, Call
<1> QED BY <1>1, <1>2 DEF Promise!Next, Promise!Conclude

(* The end of Unmap frees a buffer whose last request is answered.         *)
LEMMA UnmapKeepsPromise ==
  ASSUME IInv, mMapCallback = NoRequest, FinishUnmap, UNCHANGED answer
  PROVE  [Promise!Next]_Promise!vars
<1>1. CASE mIsMapped
  <2>1. lastRequest \in Requests /\ lastRequest # NoRequest /\ answer[lastRequest] # "waiting"
    BY <1>1, NoRequestAssumption
    DEF IInv, HolderInv, TypeOK, RequestsAreServed, NothingLost
  <2>2. Promise!Unmap BY <1>1, <2>1 DEF FinishUnmap, Promise!Unmap
  <2> QED BY <2>2 DEF Promise!Next
<1>2. CASE ~mIsMapped BY <1>2 DEF FinishUnmap, Promise!vars
<1> QED BY <1>1, <1>2

(* With the last reference goes the buffer, and answers what it held.      *)
LEMMA ReferencesKeepPromise ==
  ASSUME IInv, NEW byApp, NEW requests, SetReferences(byApp, requests)
  PROVE  [Promise!Next]_Promise!vars
<1>1. CASE /\ alive /\ ~IsReferenced(byApp, requests)
           /\ mIsMapped /\ mMapCallback # NoRequest
  <2>1. Call(mMapCallback, "UNKNOWN", NoRequest) /\ UNCHANGED <<mIsMapped, lastRequest>>
    BY <1>1 DEF SetReferences, DestroyBuffer
  <2> QED BY <1>1, <2>1, ConcludeHeld
<1>2. CASE ~(/\ alive /\ ~IsReferenced(byApp, requests)
             /\ mIsMapped /\ mMapCallback # NoRequest)
  <2>1. UNCHANGED <<answer, mIsMapped, lastRequest>>
    BY <1>2 DEF SetReferences, DestroyBuffer, answerVars, bufferVars
  <2> QED BY <2>1 DEF Promise!vars
<1> QED BY <1>1, <1>2

(* Every step implements a step of MapPromise or leaves it alone.          *)
LEMMA PromiseStep ==
  ASSUME IInv, ~RemapInUnmap, [Next]_vars
  PROVE  [Promise!Next]_Promise!vars
<1>1. ASSUME NEW r \in Requests, RejectMapAsync(r) PROVE Promise!Next
  <2>1. Promise!Reject(r)
    BY <1>1 DEF RejectMapAsync, Call, Promise!Reject, bufferVars
  <2> QED BY <2>1 DEF Promise!Next
<1>2. ASSUME NEW r \in Requests, AcceptMapAsync(r) PROVE Promise!Next
  <2>1. Promise!Accept(r)
    BY <1>2 DEF AcceptMapAsync, ValidateMap, Promise!Accept
  <2> QED BY <2>1 DEF Promise!Next
<1>3. CASE UnmapPending
  BY <1>3, ConcludeHeld DEF UnmapPending
<1>4. CASE UnmapCompleted
  BY <1>4, UnmapKeepsPromise DEF UnmapCompleted, answerVars
<1>5. CASE Release BY <1>5, ReferencesKeepPromise DEF Release
<1>6. ASSUME NEW q \in inFlight, CompleteCurrent(q) PROVE Promise!Next
  BY <1>6, ConcludeHeld DEF CompleteCurrent, IsCurrent
<1>7. ASSUME NEW q \in inFlight, CompleteCancelled(q) PROVE [Promise!Next]_Promise!vars
  BY <1>7, ReferencesKeepPromise DEF CompleteCancelled
<1>8. CASE DropPendingOperations
  BY <1>8, ReferencesKeepPromise DEF DropPendingOperations
<1>9. CASE ReturnToUnmap
  <2>1. mMapCallback = NoRequest
    <3>1. stack # <<>> /\ stack[Len(stack)] = "unmap" BY <1>9 DEF ReturnToUnmap, Top
    <3>2. Len(stack) \in 1..Len(stack) BY <3>1 DEF IInv, TypeOK
    <3> QED BY <3>1, <3>2 DEF IInv, HolderInv, InUnmap
  <2> QED BY <1>9, <2>1, UnmapKeepsPromise DEF ReturnToUnmap, answerVars
<1>10. CASE ReturnToBackend BY <1>10, ReferencesKeepPromise DEF ReturnToBackend
<1>11. CASE UNCHANGED vars
  BY <1>11 DEF vars, bufferVars, answerVars, Promise!vars
<1> QED
  BY <1>1, <1>2, <1>3, <1>4, <1>5, <1>6, <1>7, <1>8, <1>9, <1>10, <1>11
  DEF Next, BackendCompletes, CallbackReturns

(* BufferMapping implements MapPromise without its fairness: requests are  *)
(* accepted while nothing is mapped, answered once and by the request that *)
(* mapped the buffer, and the buffer is free only after the answer.        *)
THEOREM PromiseRefinement ==
  ASSUME ~RemapInUnmap
  PROVE  Spec => Promise!Spec
<1>1. IInv /\ [Next]_vars => [Promise!Next]_Promise!vars BY PromiseStep
<1> QED BY <1>1, PromiseInit, InvariantHolds, PTL DEF Spec, Promise!Spec
=============================================================================
