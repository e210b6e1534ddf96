------------------------- MODULE D3D12Device_proofs -------------------------
(* Theorems about D3D12Device, for every value of its constants.  A device  *)
(* that is destroyed while its pending list is open (AbandonRecording) is   *)
(* left out from then on: its last TickImpl frees what that list uses.      *)
EXTENDS D3D12Device, TLAPS, SequenceTheorems, WellFoundedInduction

Command == [op : {"execute"}, allocators : SUBSET Allocators, uses : SUBSET Used]
             \cup [op : {"signal"}, serial : Nat]

Ending == pc \in {"waiting", "destroyed"} \/ cont = "destroyed"
Orderly == ~ (AbandonRecording /\ Ending)

(* The inductive invariant: where the thread is, ... *)
PhaseInv ==
  /\ pc \in {"app", "submit", "waiting"} => cont # "destroyed"
  /\ Orderly /\ Ending => ~IsOpen
  /\ ~IsOpen => mPendingCommands = Closed

(* ... that the GPU's queue is executions, each followed by its signal, and *)
(* the signals of all serials that have not passed, in order, ...           *)
Paired(q) == \A i \in DOMAIN q : q[i].op = "execute" =>
                                   i + 1 \in DOMAIN q /\ q[i + 1].op = "signal"
SignalsOf(q) == {q[i].serial : i \in {j \in DOMAIN q : q[j].op = "signal"}}
InOrder(q) == \A i, j \in DOMAIN q :
                q[i].op = "signal" /\ q[j].op = "signal" /\ i < j => q[i].serial < q[j].serial
QueueInv ==
  /\ Paired(gpuQueue) /\ InOrder(gpuQueue)
  /\ completed < mSerial
  /\ \A s \in SignalsOf(gpuQueue) : completed < s /\ s < mSerial
  /\ \A s \in 1 .. mSerial - 1 : s <= completed \/ s \in SignalsOf(gpuQueue)

(* ... that a command allocator is in flight under the serial of its work   *)
(* and under no other, ...                                                  *)
AllocatorInv ==
  /\ Allocators = mFreeAllocators \cup Items(mInFlightCommandAllocators)
  /\ mFreeAllocators \cap Items(mInFlightCommandAllocators) = {}
  /\ \A e, f \in mInFlightCommandAllocators : e.item = f.item => e = f
  /\ \A e \in mInFlightCommandAllocators :
       \/ e.serial < mSerial
       \/ IsOpen /\ e.serial = mSerial /\ e.item = mPendingCommands.allocator
  /\ IsOpen => [item |-> mPendingCommands.allocator, serial |-> mSerial]
                 \in mInFlightCommandAllocators
  /\ \A w \in Work : \A a \in w.allocators :
       [item |-> a, serial |-> w.serial] \in mInFlightCommandAllocators

(* ... that a resource somebody's commands use is held until their serial,  *)
Held(r, serial) == \/ r \in appRefs \cup Items(mInflightRequests)
                   \/ \E e \in mReleasedResources : e.item = r /\ serial <= e.serial
ReleaseInv ==
  /\ (appRefs \cup Items(mInflightRequests)) \cap Items(mReleasedResources) = {}
  /\ \A r \in mPendingCommands.uses : Held(r, mSerial)
  /\ \A w \in Work : \A r \in w.uses \ Frames : Held(r, w.serial)

(* and a back buffer under the serial of the last commands that use it.     *)
FrameInv ==
  /\ mPendingCommands.uses \subseteq Resources
  /\ \A f \in Frames : mBufferSerials[f] <= mSerial
  /\ mBufferSerials[mCurrentBuffer] < mSerial
  /\ \A w \in Work : \A f \in w.uses \cap Frames :
       w.serial <= mBufferSerials[f] \/ (acquired /\ f = mCurrentBuffer)

IndInv == PhaseInv /\ QueueInv /\ (Orderly => AllocatorInv /\ ReleaseInv) /\ FrameInv

-----------------------------------------------------------------------------
(* Enqueue and the items of a queue. *)
LEMMA ItemsEnqueue ==
  ASSUME NEW q, NEW items, NEW n
  PROVE  Items(Enqueue(q, items, n)) = Items(q) \cup items
<1>1. \A i \in items : [item |-> i, serial |-> n] \in Enqueue(q, items, n)
  BY DEF Enqueue
<1>2. \A i \in items : i \in Items(Enqueue(q, items, n))
  <2>1. \A i \in items : [item |-> i, serial |-> n].item = i
    OBVIOUS
  <2>2. QED
    BY <1>1, <2>1 DEF Items
<1>3. Items(q) \subseteq Items(Enqueue(q, items, n))
  BY DEF Items, Enqueue
<1>4. \A e \in Enqueue(q, items, n) : e \in q \/ e.item \in items
  BY DEF Enqueue
<1>5. Items(Enqueue(q, items, n)) \subseteq Items(q) \cup items
  BY <1>4 DEF Items
<1>6. QED
  BY <1>2, <1>3, <1>5

(* What a queue clears and what it keeps are all it had. *)
LEMMA ItemsClear ==
  ASSUME NEW q, NEW n
  PROVE  Items(q) = Items(UpTo(q, n)) \cup Items(ClearUpTo(q, n))
BY DEF Items, UpTo, ClearUpTo

(* A set of serials has a least one. *)
LEMMA LeastNat ==
  ASSUME NEW T \in SUBSET Nat, T # {}
  PROVE  \E m \in T : \A k \in T : m <= k
<1> DEFINE R == OpToRel(<, Nat)
<1>1. PICK m \in T : \A k \in T : ~ (<<k, m>> \in R)
  <2> HIDE DEF R
  <2>1. IsWellFoundedOn(R, Nat)
    BY NatLessThanWellFounded DEF R
  <2>2. QED
    BY <2>1, WFMin
<1>2. \A k \in T : ~ (k < m)
  BY <1>1 DEF OpToRel
<1>3. QED
  BY <1>2

(* A signal at the end of the GPU's queue. *)
LEMMA PushSignal ==
  ASSUME NEW q \in Seq(Command), NEW s \in Nat, Paired(q), InOrder(q),
         \A t \in SignalsOf(q) : t < s
  PROVE  /\ Append(q, Signal(s)) \in Seq(Command)
         /\ Paired(Append(q, Signal(s))) /\ InOrder(Append(q, Signal(s)))
         /\ SignalsOf(Append(q, Signal(s))) = SignalsOf(q) \cup {s}
         /\ WorkOf(Append(q, Signal(s))) = WorkOf(q)
<1> DEFINE n == Len(q)
           p == Append(q, Signal(s))
<1>1. Signal(s) \in Command /\ Signal(s).op = "signal" /\ Signal(s).serial = s
  BY DEF Signal, Command
<1>2. /\ p \in Seq(Command) /\ Len(p) = n + 1 /\ DOMAIN p = 1 .. n + 1
      /\ n \in Nat /\ DOMAIN q = 1 .. n
      /\ \A i \in 1 .. n : p[i] = q[i]
      /\ p[n + 1] = Signal(s)
  BY <1>1, AppendProperties, LenProperties
<1> HIDE DEF p, n
<1>3. DOMAIN p = DOMAIN q \cup {n + 1} /\ n + 1 \notin DOMAIN q
  BY <1>2
<1>4. Paired(p)
  BY <1>1, <1>2, <1>3 DEF Paired
<1>5. SignalsOf(p) = SignalsOf(q) \cup {s}
  BY <1>1, <1>2, <1>3 DEF SignalsOf
<1>6. InOrder(p)
  <2> SUFFICES ASSUME NEW i \in DOMAIN p, NEW j \in DOMAIN p,
                      p[i].op = "signal", p[j].op = "signal", i < j
               PROVE  p[i].serial < p[j].serial
    BY DEF InOrder
  <2>1. i \in DOMAIN q /\ p[i] = q[i]
    BY <1>2
  <2>2. CASE j = n + 1
    BY <2>1, <2>2, <1>1, <1>2 DEF SignalsOf
  <2>3. CASE j \in DOMAIN q
    BY <2>1, <2>3, <1>2 DEF InOrder
  <2>4. QED
    BY <2>2, <2>3, <1>3
<1>7. WorkOf(p) = WorkOf(q)
  <2>1. {j \in DOMAIN p : p[j].op = "execute"} = {j \in DOMAIN q : q[j].op = "execute"}
    BY <1>1, <1>2, <1>3
  <2>2. \A i \in {j \in DOMAIN q : q[j].op = "execute"} : p[i] = q[i] /\ p[i + 1] = q[i + 1]
    BY <1>2 DEF Paired
  <2>3. QED
    BY <2>1, <2>2 DEF WorkOf
<1>8. QED
  BY <1>2, <1>4, <1>5, <1>6, <1>7 DEF p

(* An execution and its signal at the end of the GPU's queue. *)
LEMMA PushWork ==
  ASSUME NEW q \in Seq(Command), NEW x \in Command, x.op = "execute", NEW s \in Nat,
         Paired(q), InOrder(q), \A t \in SignalsOf(q) : t < s
  PROVE  LET p == Append(Append(q, x), Signal(s)) IN
         /\ p \in Seq(Command) /\ Paired(p) /\ InOrder(p)
         /\ SignalsOf(p) = SignalsOf(q) \cup {s}
         /\ WorkOf(p) = WorkOf(q) \cup
              {[serial |-> s, uses |-> x.uses, allocators |-> x.allocators]}
<1> DEFINE n == Len(q)
           m == Append(q, x)
           p == Append(m, Signal(s))
<1>1. Signal(s) \in Command /\ Signal(s).op = "signal" /\ Signal(s).serial = s
  BY DEF Signal, Command
<1>2. /\ m \in Seq(Command) /\ Len(m) = n + 1 /\ n \in Nat /\ DOMAIN q = 1 .. n
      /\ \A i \in 1 .. n : m[i] = q[i]
      /\ m[n + 1] = x
  BY AppendProperties, LenProperties
<1>3. /\ p \in Seq(Command) /\ Len(p) = Len(m) + 1
      /\ \A i \in 1 .. Len(m) : p[i] = m[i]
      /\ p[Len(m) + 1] = Signal(s)
  <2> HIDE DEF m
  <2>1. QED
    BY <1>1, <1>2, AppendProperties
<1>4. /\ DOMAIN p = 1 .. n + 2
      /\ \A i \in 1 .. n : p[i] = q[i]
      /\ p[n + 1] = x /\ p[n + 2] = Signal(s)
  <2> HIDE DEF m, p, n
  <2>1. DOMAIN p = 1 .. Len(p)
    BY <1>3, LenProperties
  <2>2. QED
    BY <2>1, <1>2, <1>3
<1>5. x.op # "signal"
  OBVIOUS
<1> HIDE DEF p, m, n
<1>6. DOMAIN p = DOMAIN q \cup {n + 1, n + 2} /\ n + 1 \notin DOMAIN q /\ n + 2 \notin DOMAIN q
      /\ (n + 1) + 1 = n + 2
  BY <1>2, <1>4
<1>7. Paired(p)
  BY <1>1, <1>2, <1>4, <1>6 DEF Paired
<1>8. {j \in DOMAIN p : p[j].op = "signal"} = {j \in DOMAIN q : q[j].op = "signal"} \cup {n + 2}
  BY <1>1, <1>2, <1>4, <1>5, <1>6
<1>9. SignalsOf(p) = SignalsOf(q) \cup {s}
  BY <1>1, <1>2, <1>4, <1>8 DEF SignalsOf
<1>10. InOrder(p)
  <2> SUFFICES ASSUME NEW i \in DOMAIN p, NEW j \in DOMAIN p,
                      p[i].op = "signal", p[j].op = "signal", i < j
               PROVE  p[i].serial < p[j].serial
    BY DEF InOrder
  <2>1. i \in DOMAIN q /\ p[i] = q[i]
    BY <1>2, <1>4, <1>5, <1>6
  <2>2. CASE j = n + 2
    BY <2>1, <2>2, <1>1, <1>4 DEF SignalsOf
  <2>3. CASE j \in DOMAIN q
    BY <2>1, <2>3, <1>2, <1>4 DEF InOrder
  <2>4. QED
    BY <2>2, <2>3, <1>4, <1>5, <1>6
<1>11. WorkOf(p) = WorkOf(q) \cup
         {[serial |-> s, uses |-> x.uses, allocators |-> x.allocators]}
  <2>1. {j \in DOMAIN p : p[j].op = "execute"}
          = {j \in DOMAIN q : q[j].op = "execute"} \cup {n + 1}
    BY <1>1, <1>2, <1>4, <1>6
  <2>2. \A i \in {j \in DOMAIN q : q[j].op = "execute"} : p[i] = q[i] /\ p[i + 1] = q[i + 1]
    BY <1>2, <1>4 DEF Paired
  <2>3. p[n + 1] = x /\ p[(n + 1) + 1].serial = s
    BY <1>1, <1>4, <1>6
  <2>4. QED
    BY <2>1, <2>2, <2>3 DEF WorkOf
<1>12. QED
  BY <1>3, <1>7, <1>9, <1>10, <1>11 DEF p, m

(* What an execution in the GPU's queue is for: its serial is one that the  *)
(* GPU has still to signal, and no other execution has it.                  *)
LEMMA WorkFacts ==
  ASSUME NEW q \in Seq(Command), Paired(q), InOrder(q)
  PROVE  /\ \A w \in WorkOf(q) : w.serial \in SignalsOf(q) /\ w.serial \in Nat
         /\ \A v, w \in WorkOf(q) : v.serial = w.serial => v = w
         /\ \A w \in WorkOf(q) : w.uses \subseteq Used /\ w.allocators \subseteq Allocators
<1> DEFINE X == {j \in DOMAIN q : q[j].op = "execute"}
           W(i) == [serial |-> q[i + 1].serial, uses |-> q[i].uses,
                    allocators |-> q[i].allocators]
<1>1. DOMAIN q \subseteq Nat /\ \A i \in DOMAIN q : q[i] \in Command
  BY LenProperties
<1>2. \A w \in WorkOf(q) : \E i \in X : w = W(i)
  BY DEF WorkOf
<1>3. \A i \in X : /\ i \in Nat /\ i + 1 \in DOMAIN q /\ q[i + 1].op = "signal"
                   /\ W(i).serial = q[i + 1].serial /\ W(i).uses = q[i].uses
                   /\ W(i).allocators = q[i].allocators
  BY <1>1 DEF Paired
<1>4. \A i \in X : /\ q[i + 1].serial \in Nat
                   /\ q[i].uses \subseteq Used /\ q[i].allocators \subseteq Allocators
  <2> TAKE i \in X
  <2>1. q[i] \in Command /\ q[i].op = "execute" /\ q[i + 1] \in Command /\ q[i + 1].op = "signal"
    BY <1>1, <1>3
  <2>2. QED
    BY <2>1 DEF Command
<1>5. \A i, j \in X : i < j => W(i).serial # W(j).serial
  <2> SUFFICES ASSUME NEW i \in X, NEW j \in X, i < j PROVE W(i).serial < W(j).serial
    BY <1>3, <1>4
  <2>1. i + 1 < j + 1
    BY <1>3
  <2> HIDE DEF X
  <2>2. q[i + 1].serial < q[j + 1].serial
    BY <1>3, <2>1 DEF InOrder
  <2>3. QED
    BY <1>3, <2>2
<1>6. \A i \in X : W(i).serial \in SignalsOf(q) /\ W(i).serial \in Nat
  BY <1>3, <1>4 DEF SignalsOf
<1>7. \A i, j \in X : W(i).serial = W(j).serial => i = j
  <2> HIDE DEF W
  <2>1. QED
    BY <1>3, <1>5
<1> HIDE DEF X, W
<1>8. QED
  BY <1>2, <1>3, <1>4, <1>6, <1>7

(* The GPU gets on with its queue. *)
LEMMA PopCommand ==
  ASSUME NEW q \in Seq(Command), q # <<>>, Paired(q), InOrder(q)
  PROVE  /\ Tail(q) \in Seq(Command) /\ Paired(Tail(q)) /\ InOrder(Tail(q))
         /\ Head(q).op = "signal" =>
              /\ Head(q).serial \in Nat
              /\ SignalsOf(q) = SignalsOf(Tail(q)) \cup {Head(q).serial}
              /\ \A t \in SignalsOf(Tail(q)) : Head(q).serial < t
              /\ WorkOf(Tail(q)) = WorkOf(q)
         /\ Head(q).op # "signal" =>
              /\ SignalsOf(Tail(q)) = SignalsOf(q)
              /\ \E w \in WorkOf(q) : WorkOf(Tail(q)) = WorkOf(q) \ {w}
<1> DEFINE n == Len(q)
           p == Tail(q)
           h == q[1]
<1>1. /\ n \in Nat /\ n > 0 /\ DOMAIN q = 1 .. n /\ \A i \in 1 .. n : q[i] \in Command
      /\ h \in Command
  BY LenProperties, EmptySeq
<1>2. Head(q) = h
  OBVIOUS
<1>3. p \in Seq(Command) /\ Len(p) = n - 1 /\ \A i \in 1 .. Len(p) : p[i] = q[i + 1]
  BY HeadTailProperties
<1>4. DOMAIN p = 1 .. n - 1 /\ \A i \in 1 .. n - 1 : p[i] = q[i + 1]
  <2>1. DOMAIN p = 1 .. Len(p)
    <3> HIDE DEF p
    <3>1. QED
      BY <1>3, LenProperties
  <2>2. QED
    BY <2>1, <1>3
<1> HIDE DEF p, n, h
<1>5. \A i \in Nat : i + 1 \in DOMAIN q /\ i # 0 <=> i \in DOMAIN p
  BY <1>1, <1>4
<1>6. \A i \in DOMAIN p : i \in Nat /\ i + 1 \in DOMAIN q /\ p[i] = q[i + 1]
  BY <1>1, <1>4
<1>7. \A j \in DOMAIN q : j = 1 \/ \E i \in DOMAIN p : j = i + 1
  <2> TAKE j \in DOMAIN q
  <2>1. j \in Nat /\ j >= 1
    BY <1>1
  <2>2. CASE j # 1
    <3>1. j - 1 \in DOMAIN p /\ j = (j - 1) + 1
      BY <1>1, <1>4, <2>1, <2>2
    <3>2. QED
      BY <3>1
  <2>3. QED
    BY <2>2
<1>8. Paired(p)
  <2> SUFFICES ASSUME NEW i \in DOMAIN p, p[i].op = "execute"
               PROVE  i + 1 \in DOMAIN p /\ p[i + 1].op = "signal"
    BY DEF Paired
  <2>1. (i + 1) + 1 \in DOMAIN q /\ q[(i + 1) + 1].op = "signal"
    BY <1>6 DEF Paired
  <2>2. i + 1 \in DOMAIN p
    BY <2>1, <1>5, <1>6
  <2>3. QED
    BY <2>1, <2>2, <1>6
<1>9. InOrder(p)
  <2> SUFFICES ASSUME NEW i \in DOMAIN p, NEW j \in DOMAIN p,
                      p[i].op = "signal", p[j].op = "signal", i < j
               PROVE  p[i].serial < p[j].serial
    BY DEF InOrder
  <2>1. i + 1 < j + 1
    BY <1>6
  <2>2. QED
    BY <2>1, <1>6 DEF InOrder
<1>10. SignalsOf(p) = {q[j].serial : j \in {k \in DOMAIN q : q[k].op = "signal" /\ k # 1}}
  <2>1. \A i \in DOMAIN p : i + 1 # 1
    BY <1>6
  <2>2. SignalsOf(p) \subseteq {q[j].serial : j \in {k \in DOMAIN q : q[k].op = "signal" /\ k # 1}}
    BY <1>6, <2>1 DEF SignalsOf
  <2>3. {q[j].serial : j \in {k \in DOMAIN q : q[k].op = "signal" /\ k # 1}} \subseteq SignalsOf(p)
    <3> SUFFICES ASSUME NEW j \in DOMAIN q, q[j].op = "signal", j # 1
                 PROVE  q[j].serial \in SignalsOf(p)
      OBVIOUS
    <3>1. PICK i \in DOMAIN p : j = i + 1
      BY <1>7
    <3>2. QED
      BY <3>1, <1>6 DEF SignalsOf
  <2>4. QED
    BY <2>2, <2>3
<1>11. WorkOf(p) = {[serial |-> q[j + 1].serial, uses |-> q[j].uses,
                     allocators |-> q[j].allocators]
                      : j \in {k \in DOMAIN q : q[k].op = "execute" /\ k # 1}}
  <2> DEFINE W(j) == [serial |-> q[j + 1].serial, uses |-> q[j].uses,
                      allocators |-> q[j].allocators]
             V(i) == [serial |-> p[i + 1].serial, uses |-> p[i].uses,
                      allocators |-> p[i].allocators]
             Y == {k \in DOMAIN q : q[k].op = "execute" /\ k # 1}
             X == {k \in DOMAIN p : p[k].op = "execute"}
  <2>1. \A i \in X : i + 1 \in Y /\ V(i) = W(i + 1)
    <3> TAKE i \in X
    <3>1. i \in DOMAIN p /\ i + 1 \in DOMAIN p /\ i + 1 # 1
      BY <1>1, <1>4, <1>8 DEF Paired
    <3>2. QED
      BY <3>1, <1>6
  <2>2. \A j \in Y : \E i \in X : j = i + 1
    BY <1>6, <1>7
  <2>3. WorkOf(p) = {V(i) : i \in X}
    BY DEF WorkOf
  <2> HIDE DEF W, V, X, Y
  <2>4. {V(i) : i \in X} = {W(j) : j \in Y}
    BY <2>1, <2>2
  <2>5. QED
    BY <2>3, <2>4 DEF W, Y
<1>12. 1 \in DOMAIN q
  BY <1>1
<1>13. ASSUME h.op = "signal"
       PROVE  /\ h.serial \in Nat
              /\ SignalsOf(q) = SignalsOf(p) \cup {h.serial}
              /\ \A t \in SignalsOf(p) : h.serial < t
              /\ WorkOf(p) = WorkOf(q)
  <2>1. h.serial \in Nat
    BY <1>1, <1>13 DEF Command
  <2>2. SignalsOf(q) = SignalsOf(p) \cup {h.serial}
    BY <1>10, <1>12, <1>13 DEF SignalsOf, h
  <2>3. \A k \in DOMAIN q : k # 1 => 1 < k
    BY <1>1
  <2>4. \A t \in SignalsOf(p) : h.serial < t
    BY <1>10, <1>12, <1>13, <2>3 DEF InOrder, h
  <2>5. {k \in DOMAIN q : q[k].op = "execute" /\ k # 1} = {k \in DOMAIN q : q[k].op = "execute"}
    BY <1>13 DEF h
  <2>6. WorkOf(p) = WorkOf(q)
    BY <1>11, <2>5 DEF WorkOf
  <2>7. QED
    BY <2>1, <2>2, <2>4, <2>6
<1>14. ASSUME h.op # "signal"
       PROVE  /\ SignalsOf(p) = SignalsOf(q)
              /\ \E w \in WorkOf(q) : WorkOf(p) = WorkOf(q) \ {w}
  <2>1. h.op = "execute"
    BY <1>1, <1>14 DEF Command
  <2>2. {k \in DOMAIN q : q[k].op = "signal" /\ k # 1} = {k \in DOMAIN q : q[k].op = "signal"}
    BY <1>14 DEF h
  <2>3. SignalsOf(p) = SignalsOf(q)
    BY <1>10, <2>2 DEF SignalsOf
  <2> DEFINE W(j) == [serial |-> q[j + 1].serial, uses |-> q[j].uses,
                      allocators |-> q[j].allocators]
             X == {k \in DOMAIN q : q[k].op = "execute"}
  <2>4. \A j \in X : W(j) = W(1) => j = 1
    <3> SUFFICES ASSUME NEW j \in X, j # 1 PROVE W(1).serial < W(j).serial
      <4>1. \A j \in X : W(j).serial \in Nat
        BY WorkFacts DEF WorkOf
      <4>2. \A j \in X : W(j) = W(1) => W(j).serial = W(1).serial
        OBVIOUS
      <4>3. 1 \in X
        BY <1>12, <2>1 DEF h
      <4> HIDE DEF W, X
      <4>4. QED
        BY <4>1, <4>2, <4>3
    <3>1. 1 + 1 < j + 1 /\ 1 \in X
      BY <1>1, <1>12, <2>1 DEF h
    <3>2. /\ 1 + 1 \in DOMAIN q /\ q[1 + 1].op = "signal"
          /\ j + 1 \in DOMAIN q /\ q[j + 1].op = "signal"
      BY <3>1 DEF Paired
    <3>3. q[1 + 1].serial < q[j + 1].serial
      BY <3>1, <3>2 DEF InOrder
    <3>4. QED
      BY <3>3
  <2>5. WorkOf(q) = {W(j) : j \in X} /\ 1 \in X
    BY <1>12, <2>1 DEF WorkOf, h
  <2>6. WorkOf(p) = {W(j) : j \in X \ {1}}
    <3>1. {k \in DOMAIN q : q[k].op = "execute" /\ k # 1} = X \ {1}
      OBVIOUS
    <3> HIDE DEF X
    <3>2. QED
      BY <1>11, <3>1
  <2> HIDE DEF W, X
  <2>7. WorkOf(p) = WorkOf(q) \ {W(1)} /\ W(1) \in WorkOf(q)
    BY <2>4, <2>5, <2>6
  <2>8. QED
    BY <2>3, <2>7
<1>15. QED
  BY <1>2, <1>3, <1>8, <1>9, <1>13, <1>14 DEF p

-----------------------------------------------------------------------------
(* Types *)

(* The lists that ExecuteCommandLists is called with. *)
Lists == [allocator : Allocators, uses : SUBSET Used]

(* What a call that executes lists and moves the serial on adds to Work. *)
AddedWork(pending, lists) ==
  LET all == lists \cup ({pending} \ {Closed}) IN
  IF all = {} THEN {}
  ELSE {[serial |-> mSerial, uses |-> UNION {l.uses : l \in all},
         allocators |-> {l.allocator : l \in all}]}

(* The GPU's queue after such a call. *)
LEMMA ExecuteAndSignal ==
  ASSUME mSerial \in Nat, gpuQueue \in Seq(Command), QueueInv,
         NEW lists \in SUBSET Lists, NEW pending \in Lists \cup {Closed}
  PROVE  LET q == Append(Executed(pending, lists), Signal(mSerial)) IN
         /\ q \in Seq(Command) /\ Paired(q) /\ InOrder(q)
         /\ SignalsOf(q) = SignalsOf(gpuQueue) \cup {mSerial}
         /\ WorkOf(q) = Work \cup AddedWork(pending, lists)
<1> DEFINE all == lists \cup ({pending} \ {Closed})
<1>1. \A t \in SignalsOf(gpuQueue) : t < mSerial
  BY DEF QueueInv
<1>2. CASE all = {}
  BY <1>1, <1>2, PushSignal DEF Executed, AddedWork, QueueInv, Work
<1>3. CASE all # {}
  <2>1. all \subseteq Lists
    OBVIOUS
  <2> HIDE DEF all
  <2>2. /\ Execution(all) \in Command /\ Execution(all).op = "execute"
        /\ Execution(all).uses = UNION {l.uses : l \in all}
        /\ Execution(all).allocators = {l.allocator : l \in all}
    <3>1. UNION {l.uses : l \in all} \subseteq Used
      BY <2>1 DEF Lists
    <3>2. {l.allocator : l \in all} \subseteq Allocators
      BY <2>1 DEF Lists
    <3>3. QED
      BY <3>1, <3>2 DEF Execution, Command
  <2>3. Executed(pending, lists) = Append(gpuQueue, Execution(all))
    BY <1>3 DEF Executed, all
  <2>4. AddedWork(pending, lists) =
          {[serial |-> mSerial, uses |-> Execution(all).uses,
            allocators |-> Execution(all).allocators]}
    BY <1>3, <2>2 DEF AddedWork, all
  <2> DEFINE x == Execution(all)
             q == Append(Append(gpuQueue, x), Signal(mSerial))
  <2>5. /\ q \in Seq(Command) /\ Paired(q) /\ InOrder(q)
        /\ SignalsOf(q) = SignalsOf(gpuQueue) \cup {mSerial}
        /\ WorkOf(q) = WorkOf(gpuQueue) \cup
              {[serial |-> mSerial, uses |-> x.uses, allocators |-> x.allocators]}
    <3>1. x \in Command /\ x.op = "execute" /\ Paired(gpuQueue) /\ InOrder(gpuQueue)
      BY <2>2 DEF QueueInv
    <3> HIDE DEF x
    <3>2. QED
      BY <1>1, <3>1, PushWork
  <2>6. QED
    BY <2>3, <2>4, <2>5 DEF Work
<1>4. QED
  BY <1>2, <1>3

(* An open pending list is one that can be executed; a closed one is none. *)
LEMMA PendingList ==
  ASSUME TypeOK, PhaseInv
  PROVE  /\ mPendingCommands \in Lists \cup {Closed}
         /\ IsOpen => mPendingCommands \in Lists /\ mPendingCommands # Closed
         /\ gpuQueue \in Seq(Command)
BY DEF TypeOK, PhaseInv, IsOpen, Lists, Closed, Command

(* ReserveCommandAllocator keeps the types of its queues. *)
LEMMA ReserveTypes ==
  ASSUME TypeOK, NEW a \in Allocators, ReserveCommandAllocator(a)
  PROVE  /\ mFreeAllocators' \subseteq Allocators
         /\ mInFlightCommandAllocators' \subseteq Entries(Allocators)
<1>1. \A f \in SUBSET mInFlightCommandAllocators : Items(f) \subseteq Allocators
  BY DEF TypeOK, Items, Entries
<1>2. \A n : UpTo(mInFlightCommandAllocators, n) \subseteq mInFlightCommandAllocators
  BY DEF UpTo
<1>3. \A f \in SUBSET mInFlightCommandAllocators :
        Enqueue(mInFlightCommandAllocators \ f, {a}, mSerial) \subseteq Entries(Allocators)
  BY DEF TypeOK, Enqueue, Entries
<1>4. QED
  BY <1>1, <1>2, <1>3 DEF ReserveCommandAllocator, ReserveSerial, TypeOK

(* Recording into the pending list keeps the types. *)
LEMMA RecordTypes ==
  ASSUME TypeOK, NEW uses \in SUBSET Used, RecordPending(uses)
  PROVE  /\ mPendingCommands' \in [allocator : Allocators \cup {NoAllocator},
                                   uses : SUBSET Used]
         /\ mFreeAllocators' \subseteq Allocators
         /\ mInFlightCommandAllocators' \subseteq Entries(Allocators)
<1>1. CASE IsOpen
  BY <1>1 DEF RecordPending, allocatorVars, TypeOK
<1>2. CASE ~IsOpen
  BY <1>2, ReserveTypes DEF RecordPending
<1>3. QED
  BY <1>1, <1>2

(* The list that Present executes: the open list, or a new one, with the    *)
(* transition of the back buffer.                                           *)
PresentsWith(list) ==
  /\ gpuQueue' = Append(Executed(list, {}), Signal(mSerial))
  /\ \/ /\ IsOpen /\ UNCHANGED allocatorVars
        /\ list = [mPendingCommands EXCEPT !.uses = @ \cup {mCurrentBuffer}]
     \/ /\ ~IsOpen
        /\ ReserveCommandAllocator(list.allocator)
        /\ list.uses = {mCurrentBuffer}

(* Present executes such a list. *)
LEMMA PresentList ==
  ASSUME TypeOK, PhaseInv, Present
  PROVE  \E list \in Lists : PresentsWith(list) /\ list # Closed
<1>1. mCurrentBuffer \in Used
  BY DEF TypeOK, Used
<1>2. CASE IsOpen
  <2> DEFINE list == [mPendingCommands EXCEPT !.uses = @ \cup {mCurrentBuffer}]
  <2>1. list \in Lists /\ list # Closed
    BY <1>1, <1>2, PendingList DEF Lists, Closed, IsOpen
  <2>2. PresentsWith(list)
    BY <1>2 DEF Present, PresentsWith
  <2>3. QED
    BY <2>1, <2>2
<1>3. CASE ~IsOpen
  <2>1. PICK a \in Allocators :
          /\ ReserveCommandAllocator(a)
          /\ gpuQueue' = Append(Executed([allocator |-> a, uses |-> {mCurrentBuffer}], {}),
                                Signal(mSerial))
    BY <1>3 DEF Present
  <2> DEFINE list == [allocator |-> a, uses |-> {mCurrentBuffer}]
  <2>2. list \in Lists /\ list # Closed
    BY <1>1 DEF Lists, Closed
  <2>3. PresentsWith(list)
    BY <1>3, <2>1 DEF PresentsWith
  <2>4. QED
    BY <2>2, <2>3
<1>4. QED
  BY <1>2, <1>3

(* Every step keeps the type invariant. *)
LEMMA TypeStep == TypeOK /\ PhaseInv /\ QueueInv /\ [Next]_vars => TypeOK'
<1> SUFFICES ASSUME TypeOK, PhaseInv, QueueInv, [Next]_vars PROVE TypeOK'
  OBVIOUS
<1> USE DEF allocatorVars, bufferVars, tickVars, frameVars, controlVars
<1>0. /\ mSerial \in Nat /\ mSerial + 1 \in Nat
      /\ mPendingCommands \in Lists \cup {Closed} /\ gpuQueue \in Seq(Command)
  BY PendingList DEF TypeOK
<1>a. /\ Closed \in [allocator : Allocators \cup {NoAllocator}, uses : SUBSET Used]
      /\ Command = [op : {"execute"}, allocators : SUBSET Allocators, uses : SUBSET Used]
                     \cup [op : {"signal"}, serial : Nat]
  BY DEF Closed, Command
<1>b. \A rs \in SUBSET Resources : Released(rs) \subseteq Entries(Resources)
  BY <1>0 DEF TypeOK, Released, ReleaseSerial, Enqueue, Entries
<1>c. \A q \in SUBSET mInflightRequests : Items(q) \subseteq Resources
  BY DEF TypeOK, Items, Entries
<1>d. \A q, n : UpTo(q, n) \subseteq q /\ ClearUpTo(q, n) \subseteq q
  BY DEF UpTo, ClearUpTo
<1>1. ASSUME NEW r \in Resources, CreateBuffer(r) PROVE TypeOK'
  BY <1>1 DEF CreateBuffer, TypeOK
<1>2. ASSUME NEW r \in Resources, ReleaseBuffer(r) PROVE TypeOK'
  BY <1>2, <1>b DEF ReleaseBuffer, TypeOK
<1>3. ASSUME NEW r \in Resources, MapAsync(r) PROVE TypeOK'
  BY <1>3 DEF MapAsync, TypeOK, Enqueue, Entries
<1>4. ASSUME NEW r \in Resources, NEW upload \in Resources, SetSubData(r, upload)
      PROVE  TypeOK'
  <2>1. {r, upload} \in SUBSET Used
    BY DEF Used
  <2>2. RecordPending({r, upload})
    BY <1>4 DEF SetSubData
  <2>3. QED
    BY <1>4, <1>b, <2>1, <2>2, RecordTypes DEF SetSubData, TypeOK
<1>5. CASE QueueSubmit \/ Tick \/ LastSignalPassed
  BY <1>5 DEF QueueSubmit, Tick, LastSignalPassed, BeginTick, TypeOK
<1>6. CASE GetNextTexture
  BY <1>6 DEF GetNextTexture, TypeOK
<1>7. CASE Present
  <2>1. PICK list \in Lists : PresentsWith(list)
    BY <1>7, PresentList
  <2>2. gpuQueue' \in Seq(Command)
    <3>1. {} \in SUBSET Lists /\ list \in Lists \cup {Closed}
      OBVIOUS
    <3>2. QED
      BY <1>0, <2>1, <3>1, ExecuteAndSignal DEF PresentsWith
  <2>3. /\ mFreeAllocators' \subseteq Allocators
        /\ mInFlightCommandAllocators' \subseteq Entries(Allocators)
    BY <2>1, ReserveTypes DEF PresentsWith, TypeOK, Lists
  <2>4. (mCurrentBuffer + 1) % kFrameCount \in Frames /\ PresentSerial \in Nat
    BY DEF Frames, kFrameCount, PresentSerial, TypeOK
  <2>5. QED
    BY <1>7, <1>0, <1>a, <2>2, <2>3, <2>4 DEF Present, TypeOK
<1>8. ASSUME NEW uses \in SUBSET (appRefs \cup (IF acquired THEN {mCurrentBuffer} ELSE {})),
             SubmitLists(uses)
      PROVE  TypeOK'
  <2>1. PICK a \in Allocators :
          /\ ReserveCommandAllocator(a)
          /\ gpuQueue' = Append(Executed(mPendingCommands,
                                  {[allocator |-> a, uses |-> uses]}), Signal(mSerial))
    BY <1>8 DEF SubmitLists
  <2>2. {[allocator |-> a, uses |-> uses]} \in SUBSET Lists
    BY DEF Lists, TypeOK, Used
  <2>3. gpuQueue' \in Seq(Command)
    BY <1>0, <2>1, <2>2, ExecuteAndSignal
  <2>4. QED
    BY <1>8, <1>0, <1>a, <2>1, <2>3, ReserveTypes DEF SubmitLists, TypeOK
<1>9. CASE FreeCompleted
  <2>1. Items(UpTo(mInFlightCommandAllocators, completed)) \subseteq Allocators
    BY DEF TypeOK, Items, UpTo, Entries
  <2>2. QED
    BY <1>9, <1>d, <2>1 DEF FreeCompleted, TypeOK
<1>10. CASE FireMapCallback
  BY <1>10 DEF FireMapCallback, RequestsToFire, UpTo, TypeOK
<1>11. CASE CallbackReturns
  BY <1>11 DEF CallbackReturns, TypeOK
<1>12. CASE FinishTick
  <2>1. gpuQueue' \in Seq(Command)
    <3>1. {} \in SUBSET Lists
      OBVIOUS
    <3>2. QED
      BY <1>12, <1>0, <3>1, ExecuteAndSignal DEF FinishTick
  <2>2. mReleasedResources' \subseteq Entries(Resources)
    <3> DEFINE cleared == UpTo(mInflightRequests, lastCompletedSerial)
    <3>1. Items(cleared) \subseteq Resources
      BY <1>c, <1>d
    <3>2. QED
      BY <1>12, <1>b, <3>1 DEF FinishTick
  <2>3. mInflightRequests' \subseteq mInflightRequests
    BY <1>12 DEF FinishTick
  <2>4. QED
    BY <1>12, <1>0, <1>a, <2>1, <2>2, <2>3 DEF FinishTick, TypeOK
<1>13. CASE DestroyDevice
  <2>1. gpuQueue' \in Seq(Command)
    BY <1>13, <1>0, PushSignal DEF DestroyDevice, QueueInv
  <2>2. QED
    BY <1>13, <1>0, <1>a, <2>1 DEF DestroyDevice, TypeOK
<1>14. CASE GpuStep
  <2>1. gpuQueue' \in Seq(Command) /\ completed' \in Nat
    BY <1>14, <1>0, PopCommand DEF GpuStep, QueueInv, TypeOK
  <2>2. QED
    BY <1>14, <1>a, <2>1 DEF GpuStep, TypeOK
<1>15. CASE UNCHANGED vars
  BY <1>15 DEF vars, TypeOK
<1>16. QED
  BY <1>1, <1>2, <1>3, <1>4, <1>5, <1>6, <1>7, <1>8, <1>9, <1>10, <1>11, <1>12, <1>13,
     <1>14, <1>15 DEF Next, Api, Submission, TickStep, Terminated

-----------------------------------------------------------------------------
(* The thread and the GPU's queue *)

(* Every step keeps the phases of the thread. *)
LEMMA PhaseStep == TypeOK /\ PhaseInv /\ [Next]_vars => PhaseInv'
<1> SUFFICES ASSUME TypeOK, PhaseInv, [Next]_vars PROVE PhaseInv'
  OBVIOUS
<1> USE DEF allocatorVars, bufferVars, tickVars, frameVars, controlVars, PhaseInv, Orderly,
            Ending, IsOpen
<1>0. Closed.allocator = NoAllocator
  BY DEF Closed
<1>1. CASE UNCHANGED <<pc, cont, mPendingCommands>>
  BY <1>1
<1>2. ASSUME NEW r \in Resources, NEW upload \in Resources, SetSubData(r, upload)
      PROVE  PhaseInv'
  <2>1. ~Ending /\ UNCHANGED <<pc, cont>>
    BY <1>2 DEF SetSubData, InApp
  <2>2. RecordPending({r, upload})
    BY <1>2 DEF SetSubData
  <2>3. mPendingCommands'.allocator # NoAllocator
    <3>1. CASE IsOpen
      BY <2>2, <3>1 DEF RecordPending, TypeOK
    <3>2. CASE ~IsOpen
      BY <2>2, <3>2, AllocatorAssumption DEF RecordPending
    <3>3. QED
      BY <3>1, <3>2
  <2>4. QED
    BY <2>1, <2>3
<1>3. CASE QueueSubmit \/ Tick \/ LastSignalPassed
  BY <1>3 DEF QueueSubmit, Tick, LastSignalPassed, BeginTick
<1>4. CASE Present
  BY <1>4, <1>0 DEF Present, InApp
<1>5. ASSUME NEW uses, SubmitLists(uses) PROVE PhaseInv'
  BY <1>5, <1>0 DEF SubmitLists
<1>6. CASE FreeCompleted \/ FireMapCallback \/ CallbackReturns
  BY <1>6 DEF FreeCompleted, FireMapCallback, CallbackReturns
<1>7. CASE FinishTick
  BY <1>7, <1>0 DEF FinishTick, TypeOK
<1>8. CASE DestroyDevice
  BY <1>8 DEF DestroyDevice
<1>9. QED
  BY <1>1, <1>2, <1>3, <1>4, <1>5, <1>6, <1>7, <1>8
     DEF Next, Api, Submission, TickStep, Terminated, CreateBuffer, ReleaseBuffer,
         MapAsync, GetNextTexture, GpuStep, vars

(* Once the device is being destroyed it is so for good. *)
LEMMA EndingStep ==
  ASSUME TypeOK, PhaseInv, [Next]_vars, Ending
  PROVE  Ending'
<1> USE DEF Ending, PhaseInv, controlVars
<1>1. CASE UNCHANGED <<pc, cont>>
  BY <1>1
<1>2. CASE Api
  BY <1>2 DEF Api, InApp, CreateBuffer, ReleaseBuffer, MapAsync, SetSubData, QueueSubmit,
              GetNextTexture, Present
<1>3. CASE Tick \/ Submission \/ DestroyDevice
  BY <1>3 DEF Tick, Submission, SubmitLists, DestroyDevice
<1>4. CASE TickStep \/ LastSignalPassed
  BY <1>4 DEF TickStep, FreeCompleted, FireMapCallback, CallbackReturns, FinishTick,
              LastSignalPassed, BeginTick
<1>5. QED
  BY <1>1, <1>2, <1>3, <1>4 DEF Next, Terminated, GpuStep, vars

(* The calls that move the serial on signal it behind what they execute. *)
MovesOn(pending, lists) ==
  /\ mSerial' = mSerial + 1 /\ completed' = completed
  /\ gpuQueue' = Append(Executed(pending, lists), Signal(mSerial))

(* The steps that the serials and the GPU's queue take part in. *)
LEMMA QueueFrame ==
  ASSUME TypeOK, PhaseInv, QueueInv, [Next]_vars
  PROVE  \/ UNCHANGED <<mSerial, completed, gpuQueue>>
         \/ GpuStep
         \/ \E pending \in Lists \cup {Closed}, lists \in SUBSET Lists : MovesOn(pending, lists)
<1> USE DEF allocatorVars, bufferVars, tickVars, frameVars, controlVars
<1>0. mPendingCommands \in Lists \cup {Closed} /\ {} \in SUBSET Lists
  BY PendingList
<1>1. CASE Present
  <2>1. PICK list \in Lists : PresentsWith(list)
    BY <1>1, PresentList
  <2>2. MovesOn(list, {})
    BY <1>1, <2>1 DEF Present, PresentsWith, MovesOn
  <2>3. QED
    BY <2>2, <1>0
<1>2. ASSUME NEW uses \in SUBSET (appRefs \cup (IF acquired THEN {mCurrentBuffer} ELSE {})),
             SubmitLists(uses)
      PROVE  \E pending \in Lists \cup {Closed}, lists \in SUBSET Lists : MovesOn(pending, lists)
  <2>1. PICK a \in Allocators :
          gpuQueue' = Append(Executed(mPendingCommands, {[allocator |-> a, uses |-> uses]}),
                             Signal(mSerial))
    BY <1>2 DEF SubmitLists
  <2>2. {[allocator |-> a, uses |-> uses]} \in SUBSET Lists
    BY DEF Lists, TypeOK, Used
  <2>3. MovesOn(mPendingCommands, {[allocator |-> a, uses |-> uses]})
    BY <1>2, <2>1 DEF SubmitLists, MovesOn
  <2>4. QED
    BY <1>0, <2>2, <2>3
<1>3. CASE FinishTick
  <2>1. MovesOn(mPendingCommands, {})
    BY <1>3 DEF FinishTick, MovesOn
  <2>2. QED
    BY <1>0, <2>1
<1>4. CASE DestroyDevice
  <2>1. MovesOn(Closed, {})
    BY <1>4 DEF DestroyDevice, MovesOn, Executed
  <2>2. QED
    BY <1>0, <2>1
<1>5. QED
  BY <1>1, <1>2, <1>3, <1>4
     DEF Next, Api, Tick, Submission, TickStep, LastSignalPassed, Terminated, CreateBuffer,
         ReleaseBuffer, MapAsync, SetSubData, QueueSubmit, GetNextTexture, BeginTick,
         FreeCompleted, FireMapCallback, CallbackReturns, vars

(* Every step keeps the GPU's queue in order. *)
LEMMA QueueStep ==
  ASSUME TypeOK, PhaseInv, QueueInv, [Next]_vars
  PROVE  QueueInv'
<1>0. /\ mSerial \in Nat /\ completed \in Nat /\ gpuQueue \in Seq(Command)
      /\ \A s \in SignalsOf(gpuQueue) : s \in Nat
  <2>1. gpuQueue \in Seq(Command)
    BY PendingList
  <2>2. \A i \in DOMAIN gpuQueue : gpuQueue[i] \in Command
    BY <2>1, LenProperties
  <2>3. QED
    BY <2>1, <2>2 DEF TypeOK, SignalsOf, Command
<1>1. CASE UNCHANGED <<mSerial, completed, gpuQueue>>
  BY <1>1 DEF QueueInv
<1>2. CASE GpuStep
  <2> DEFINE h == Head(gpuQueue)
  <2>1. /\ gpuQueue # <<>> /\ mSerial' = mSerial /\ gpuQueue' = Tail(gpuQueue)
        /\ completed' = IF h.op = "signal" THEN h.serial ELSE completed
    BY <1>2 DEF GpuStep
  <2>2. /\ Paired(gpuQueue') /\ InOrder(gpuQueue')
        /\ h.op = "signal" =>
              /\ h.serial \in Nat
              /\ SignalsOf(gpuQueue) = SignalsOf(gpuQueue') \cup {h.serial}
              /\ \A t \in SignalsOf(gpuQueue') : h.serial < t
        /\ h.op # "signal" => SignalsOf(gpuQueue') = SignalsOf(gpuQueue)
    BY <1>0, <2>1, PopCommand DEF QueueInv
  <2> HIDE DEF h
  <2>3. CASE h.op = "signal"
    BY <1>0, <2>1, <2>2, <2>3 DEF QueueInv
  <2>4. CASE h.op # "signal"
    BY <1>0, <2>1, <2>2, <2>4 DEF QueueInv
  <2>5. QED
    BY <2>3, <2>4
<1>3. ASSUME NEW pending \in Lists \cup {Closed}, NEW lists \in SUBSET Lists,
             MovesOn(pending, lists)
      PROVE  QueueInv'
  <2>1. /\ Paired(gpuQueue') /\ InOrder(gpuQueue')
        /\ SignalsOf(gpuQueue') = SignalsOf(gpuQueue) \cup {mSerial}
    BY <1>0, <1>3, ExecuteAndSignal DEF MovesOn
  <2>2. mSerial' = mSerial + 1 /\ completed' = completed
    BY <1>3 DEF MovesOn
  <2>3. QED
    BY <1>0, <2>1, <2>2 DEF QueueInv
<1>4. QED
  BY <1>1, <1>2, <1>3, QueueFrame

(* Serials that are being worked on lie between what has completed and the  *)
(* next one.                                                                *)
LEMMA WorkInFlight ==
  ASSUME TypeOK, PhaseInv, QueueInv
  PROVE  /\ \A w \in Work : w.serial \in Nat /\ completed < w.serial /\ w.serial < mSerial
         /\ \A v, w \in Work : v.serial = w.serial => v = w
         /\ \A w \in Work : w.uses \subseteq Used /\ w.allocators \subseteq Allocators
<1>1. gpuQueue \in Seq(Command)
  BY PendingList
<1>2. QED
  BY <1>1, WorkFacts DEF Work, QueueInv

(* Work grows only when the serial moves on. *)
LEMMA WorkFrame ==
  ASSUME TypeOK, PhaseInv, QueueInv
  PROVE  /\ UNCHANGED gpuQueue => Work' = Work
         /\ GpuStep => Work' = Work \/ \E w \in Work : Work' = Work \ {w}
         /\ \A pending \in Lists \cup {Closed}, lists \in SUBSET Lists :
              MovesOn(pending, lists) => Work' = Work \cup AddedWork(pending, lists)
<1>0. gpuQueue \in Seq(Command) /\ mSerial \in Nat
  BY PendingList DEF TypeOK
<1>1. UNCHANGED gpuQueue => Work' = Work
  BY DEF Work
<1>2. ASSUME GpuStep PROVE Work' = Work \/ \E w \in Work : Work' = Work \ {w}
  BY <1>0, <1>2, PopCommand DEF GpuStep, Work, QueueInv
<1>3. ASSUME NEW pending \in Lists \cup {Closed}, NEW lists \in SUBSET Lists,
             MovesOn(pending, lists)
      PROVE  Work' = Work \cup AddedWork(pending, lists)
  <2>1. WorkOf(gpuQueue') = Work \cup AddedWork(pending, lists)
    BY <1>0, <1>3, ExecuteAndSignal DEF MovesOn
  <2>2. QED
    BY <2>1 DEF Work
<1>4. QED
  BY <1>1, <1>2, <1>3

(* Every variable has its type, and the GPU signals the serials in order.   *)
THEOREM TypeCorrect == Spec => [](TypeOK /\ PhaseInv /\ QueueInv)
<1>1. Init => TypeOK /\ PhaseInv /\ QueueInv
  <2> SUFFICES ASSUME Init PROVE TypeOK /\ PhaseInv /\ QueueInv
    OBVIOUS
  <2>1. gpuQueue \in Seq(Command) /\ DOMAIN gpuQueue = {}
    BY EmptySeq DEF Init
  <2>2. TypeOK
    BY <2>1 DEF Init, TypeOK, Command, Closed, Frames, kFrameCount
  <2>3. PhaseInv
    BY DEF Init, PhaseInv, Ending, IsOpen, Closed
  <2>4. QueueInv
    BY <2>1 DEF Init, QueueInv, Paired, InOrder, SignalsOf
  <2>5. QED
    BY <2>2, <2>3, <2>4
<1>2. QED
  BY <1>1, TypeStep, PhaseStep, QueueStep, PTL DEF Spec

-----------------------------------------------------------------------------
(* Command allocators *)

(* FirstSerial is the least serial in flight. *)
LEMMA FirstSerialIsLeast ==
  ASSUME TypeOK, mInFlightCommandAllocators # {}
  PROVE  /\ FirstSerial \in {e.serial : e \in mInFlightCommandAllocators}
         /\ \A e \in mInFlightCommandAllocators : FirstSerial <= e.serial
         /\ FirstSerial \in Nat
<1> DEFINE T == {e.serial : e \in mInFlightCommandAllocators}
<1>1. T \in SUBSET Nat /\ T # {}
  BY DEF TypeOK, Entries
<1>2. PICK m \in T : \A k \in T : m <= k
  <2> HIDE DEF T
  <2>1. QED
    BY <1>1, LeastNat
<1>3. \A e \in mInFlightCommandAllocators : m <= e.serial
  BY <1>2
<1>4. FirstSerial \in T /\ \A e \in mInFlightCommandAllocators : FirstSerial <= e.serial
  BY <1>2, <1>3 DEF FirstSerial
<1>5. QED
  BY <1>1, <1>4

(* A reserved allocator was in use by nobody, and those that are freed on   *)
(* the way are the GPU's no more.                                           *)
LEMMA ReserveKeeps ==
  ASSUME TypeOK, PhaseInv, QueueInv, AllocatorInv,
         NEW a \in Allocators, ReserveCommandAllocator(a)
  PROVE  LET new == [item |-> a, serial |-> mSerial] IN
         /\ Allocators = mFreeAllocators' \cup Items(mInFlightCommandAllocators')
         /\ mFreeAllocators' \cap Items(mInFlightCommandAllocators') = {}
         /\ \A e, f \in mInFlightCommandAllocators' : e.item = f.item => e = f
         /\ new \in mInFlightCommandAllocators'
         /\ \A e \in mInFlightCommandAllocators' : e \in mInFlightCommandAllocators \/ e = new
         /\ \A e \in mInFlightCommandAllocators :
              completed < e.serial => e \in mInFlightCommandAllocators'
<1> DEFINE new == [item |-> a, serial |-> mSerial]
           freed == IF mFreeAllocators # {} THEN {}
                    ELSE UpTo(mInFlightCommandAllocators, FirstSerial)
           left == mInFlightCommandAllocators \ freed
<1>1. /\ a \in mFreeAllocators \cup Items(freed)
      /\ mFreeAllocators' = (mFreeAllocators \cup Items(freed)) \ {a}
      /\ mInFlightCommandAllocators' = Enqueue(left, {a}, mSerial)
      /\ mFreeAllocators = {} => FirstSerial <= completed
  BY DEF ReserveCommandAllocator, ReserveSerial
<1>2. freed \subseteq mInFlightCommandAllocators
  BY DEF UpTo
<1>3. \A e \in freed : e.serial <= completed
  <2> SUFFICES ASSUME NEW e \in freed PROVE e.serial <= completed
    OBVIOUS
  <2>1. /\ mFreeAllocators = {} /\ e \in mInFlightCommandAllocators
        /\ e.serial <= FirstSerial
    BY DEF UpTo
  <2>2. FirstSerial \in Nat /\ FirstSerial <= completed /\ e.serial \in Nat /\ completed \in Nat
    BY <1>1, <2>1, FirstSerialIsLeast DEF TypeOK, Entries
  <2>3. QED
    BY <2>1, <2>2
<1>4. mInFlightCommandAllocators' = left \cup {new}
  BY <1>1 DEF Enqueue
<1>5. /\ Items(mInFlightCommandAllocators) = Items(freed) \cup Items(left)
      /\ Items(mInFlightCommandAllocators') = Items(left) \cup {a}
  <2>1. Items(mInFlightCommandAllocators') = Items(left) \cup {a}
    BY <1>1, ItemsEnqueue
  <2>2. Items(mInFlightCommandAllocators) = Items(freed) \cup Items(left)
    BY <1>2 DEF Items
  <2>3. QED
    BY <2>1, <2>2
<1>6. Items(freed) \cap Items(left) = {}
  BY <1>2 DEF Items, AllocatorInv
<1>7. a \notin Items(left)
  BY <1>1, <1>5, <1>6 DEF AllocatorInv
<1>8. \A e \in left : e.item # a
  BY <1>7 DEF Items
<1> HIDE DEF freed
<1>9. \A e, f \in mInFlightCommandAllocators' : e.item = f.item => e = f
  BY <1>4, <1>8 DEF AllocatorInv
<1>10. /\ Allocators = mFreeAllocators' \cup Items(mInFlightCommandAllocators')
       /\ mFreeAllocators' \cap Items(mInFlightCommandAllocators') = {}
  BY <1>1, <1>5, <1>6, <1>7 DEF AllocatorInv
<1>11. \A e \in mInFlightCommandAllocators :
         completed < e.serial => e \in mInFlightCommandAllocators'
  BY <1>3, <1>4 DEF TypeOK, Entries
<1>12. QED
  BY <1>4, <1>9, <1>10, <1>11

(* What is said of the open list and of the serial in flight, between the   *)
(* reservation of an allocator and the end of the call.                     *)
AllocatorSets ==
  /\ Allocators = mFreeAllocators \cup Items(mInFlightCommandAllocators)
  /\ mFreeAllocators \cap Items(mInFlightCommandAllocators) = {}
  /\ \A e, f \in mInFlightCommandAllocators : e.item = f.item => e = f

(* Executing the lists whose allocators are in flight under this serial     *)
(* keeps the allocators in their place.                                     *)
LEMMA ExecuteKeepsAllocators ==
  ASSUME TypeOK, PhaseInv, QueueInv, AllocatorInv, AllocatorSets', ~IsOpen',
         NEW pending \in Lists \cup {Closed}, NEW lists \in SUBSET Lists,
         MovesOn(pending, lists),
         mInFlightCommandAllocators' \subseteq Entries(Allocators),
         \A e \in mInFlightCommandAllocators' :
           e \in mInFlightCommandAllocators \/ e.serial = mSerial,
         \A e \in mInFlightCommandAllocators :
           completed < e.serial => e \in mInFlightCommandAllocators',
         \A l \in lists \cup ({pending} \ {Closed}) :
           [item |-> l.allocator, serial |-> mSerial] \in mInFlightCommandAllocators'
  PROVE  AllocatorInv'
<1>1. mSerial' = mSerial + 1 /\ mSerial \in Nat
  BY DEF MovesOn, TypeOK
<1>2. \A e \in mInFlightCommandAllocators' : e.serial < mSerial'
  BY <1>1 DEF AllocatorInv, Entries
<1>3. \A w \in Work' : w \in Work \/ w \in AddedWork(pending, lists)
  BY WorkFrame
<1>4. \A w \in Work : \A a \in w.allocators :
        [item |-> a, serial |-> w.serial] \in mInFlightCommandAllocators'
  <2> TAKE w \in Work
  <2> TAKE a \in w.allocators
  <2>1. completed < w.serial
    BY WorkInFlight
  <2>2. [item |-> a, serial |-> w.serial] \in mInFlightCommandAllocators
    BY DEF AllocatorInv
  <2>3. QED
    BY <2>1, <2>2
<1>5. \A w \in AddedWork(pending, lists) : \A a \in w.allocators :
        [item |-> a, serial |-> w.serial] \in mInFlightCommandAllocators'
  BY DEF AddedWork
<1>6. QED
  BY <1>2, <1>3, <1>4, <1>5 DEF AllocatorInv, AllocatorSets

(* Every orderly step keeps the allocators in their place. *)
LEMMA AllocatorStep ==
  ASSUME TypeOK, TypeOK', PhaseInv, PhaseInv', QueueInv, AllocatorInv, Orderly', [Next]_vars
  PROVE  AllocatorInv'
<1> USE DEF allocatorVars, bufferVars, tickVars, frameVars, controlVars
<1>0. /\ mPendingCommands \in Lists \cup {Closed} /\ {} \in SUBSET Lists
      /\ mInFlightCommandAllocators' \subseteq Entries(Allocators)
      /\ mSerial \in Nat
  BY PendingList DEF TypeOK
<1>1. CASE UNCHANGED <<allocatorVars, mPendingCommands, mSerial, gpuQueue>>
  BY <1>1, WorkFrame DEF AllocatorInv, IsOpen
<1>2. ASSUME NEW r \in Resources, NEW upload \in Resources, SetSubData(r, upload)
      PROVE  AllocatorInv'
  <2>1. RecordPending({r, upload}) /\ mSerial' = mSerial /\ Work' = Work
    BY <1>2, WorkFrame DEF SetSubData
  <2>2. CASE IsOpen
    <3>1. /\ UNCHANGED allocatorVars /\ mPendingCommands'.allocator = mPendingCommands.allocator
      BY <2>1, <2>2 DEF RecordPending, TypeOK
    <3>2. QED
      BY <2>1, <2>2, <3>1 DEF AllocatorInv, IsOpen
  <2>3. CASE ~IsOpen
    <3>1. PICK a \in Allocators : /\ ReserveCommandAllocator(a)
                                  /\ mPendingCommands'.allocator = a
      BY <2>1, <2>3 DEF RecordPending
    <3>2. IsOpen'
      BY <3>1, AllocatorAssumption DEF IsOpen
    <3> DEFINE new == [item |-> a, serial |-> mSerial]
    <3>3. /\ Allocators = mFreeAllocators' \cup Items(mInFlightCommandAllocators')
          /\ mFreeAllocators' \cap Items(mInFlightCommandAllocators') = {}
          /\ \A e, f \in mInFlightCommandAllocators' : e.item = f.item => e = f
          /\ new \in mInFlightCommandAllocators'
          /\ \A e \in mInFlightCommandAllocators' : e \in mInFlightCommandAllocators \/ e = new
          /\ \A e \in mInFlightCommandAllocators :
               completed < e.serial => e \in mInFlightCommandAllocators'
      BY <3>1, ReserveKeeps
    <3>4. \A e \in mInFlightCommandAllocators' : e.serial < mSerial \/ e = new
      BY <2>3, <3>3 DEF AllocatorInv
    <3>5. \A w \in Work : \A x \in w.allocators :
            [item |-> x, serial |-> w.serial] \in mInFlightCommandAllocators'
      <4> TAKE w \in Work
      <4> TAKE x \in w.allocators
      <4>1. completed < w.serial
        BY WorkInFlight
      <4>2. [item |-> x, serial |-> w.serial] \in mInFlightCommandAllocators
        BY DEF AllocatorInv
      <4>3. QED
        BY <3>3, <4>1, <4>2
    <3>6. new.item = a /\ new.serial = mSerial
      OBVIOUS
    <3>7. QED
      BY <2>1, <3>1, <3>2, <3>3, <3>4, <3>5, <3>6 DEF AllocatorInv
  <2>4. QED
    BY <2>2, <2>3
<1>3. CASE Present
  <2>1. PICK list \in Lists : PresentsWith(list) /\ list # Closed
    BY <1>3, PresentList
  <2>2. MovesOn(list, {}) /\ ~IsOpen'
    BY <1>3, <2>1 DEF Present, PresentsWith, MovesOn, IsOpen, Closed
  <2>3. CASE IsOpen
    <3>1. UNCHANGED allocatorVars /\ list.allocator = mPendingCommands.allocator
      BY <2>1, <2>3 DEF PresentsWith, TypeOK
    <3>2. AllocatorSets'
      BY <3>1 DEF AllocatorInv, AllocatorSets
    <3>3. \A l \in {} \cup ({list} \ {Closed}) :
            [item |-> l.allocator, serial |-> mSerial] \in mInFlightCommandAllocators'
      BY <2>3, <3>1 DEF AllocatorInv
    <3>4. QED
      BY <1>0, <2>2, <3>1, <3>2, <3>3, ExecuteKeepsAllocators
  <2>4. CASE ~IsOpen
    <3>1. ReserveCommandAllocator(list.allocator) /\ list.allocator \in Allocators
      BY <2>1, <2>4 DEF PresentsWith, Lists
    <3> DEFINE new == [item |-> list.allocator, serial |-> mSerial]
    <3>2. /\ AllocatorSets'
          /\ new \in mInFlightCommandAllocators'
          /\ \A e \in mInFlightCommandAllocators' : e \in mInFlightCommandAllocators \/ e = new
          /\ \A e \in mInFlightCommandAllocators :
               completed < e.serial => e \in mInFlightCommandAllocators'
      BY <3>1, ReserveKeeps DEF AllocatorSets
    <3>3. \A e \in mInFlightCommandAllocators' :
            e \in mInFlightCommandAllocators \/ e.serial = mSerial
      BY <3>2
    <3>4. \A l \in {} \cup ({list} \ {Closed}) :
            [item |-> l.allocator, serial |-> mSerial] \in mInFlightCommandAllocators'
      BY <3>2
    <3>5. QED
      BY <1>0, <2>2, <3>2, <3>3, <3>4, ExecuteKeepsAllocators
  <2>5. QED
    BY <2>3, <2>4
<1>4. ASSUME NEW uses \in SUBSET (appRefs \cup (IF acquired THEN {mCurrentBuffer} ELSE {})),
             SubmitLists(uses)
      PROVE  AllocatorInv'
  <2>1. PICK a \in Allocators :
          /\ ReserveCommandAllocator(a)
          /\ gpuQueue' = Append(Executed(mPendingCommands,
                                  {[allocator |-> a, uses |-> uses]}), Signal(mSerial))
    BY <1>4 DEF SubmitLists
  <2> DEFINE list == [allocator |-> a, uses |-> uses]
             new == [item |-> a, serial |-> mSerial]
  <2>2. {list} \in SUBSET Lists /\ list.allocator = a
    BY DEF Lists, TypeOK, Used
  <2>3. MovesOn(mPendingCommands, {list}) /\ ~IsOpen'
    BY <1>4, <2>1 DEF SubmitLists, MovesOn, IsOpen, Closed
  <2>4. /\ AllocatorSets'
        /\ new \in mInFlightCommandAllocators'
        /\ \A e \in mInFlightCommandAllocators' : e \in mInFlightCommandAllocators \/ e = new
        /\ \A e \in mInFlightCommandAllocators :
             completed < e.serial => e \in mInFlightCommandAllocators'
    BY <2>1, ReserveKeeps DEF AllocatorSets
  <2>5. \A e \in mInFlightCommandAllocators' :
          e \in mInFlightCommandAllocators \/ e.serial = mSerial
    BY <2>4
  <2>6. completed < mSerial
    BY DEF QueueInv
  <2>7. mPendingCommands # Closed =>
          [item |-> mPendingCommands.allocator, serial |-> mSerial]
            \in mInFlightCommandAllocators'
    <3> SUFFICES ASSUME mPendingCommands # Closed
                 PROVE  [item |-> mPendingCommands.allocator, serial |-> mSerial]
                          \in mInFlightCommandAllocators'
      OBVIOUS
    <3>1. IsOpen
      BY DEF PhaseInv
    <3>2. [item |-> mPendingCommands.allocator, serial |-> mSerial]
            \in mInFlightCommandAllocators
      BY <3>1 DEF AllocatorInv
    <3>3. QED
      BY <2>4, <2>6, <3>2
  <2>8. \A l \in {list} \cup ({mPendingCommands} \ {Closed}) :
          [item |-> l.allocator, serial |-> mSerial] \in mInFlightCommandAllocators'
    BY <2>2, <2>4, <2>7
  <2> HIDE DEF list
  <2>9. QED
    BY <1>0, <2>2, <2>3, <2>4, <2>5, <2>8, ExecuteKeepsAllocators
<1>5. CASE FreeCompleted
  <2> DEFINE freed == UpTo(mInFlightCommandAllocators, completed)
  <2>1. /\ mFreeAllocators' = mFreeAllocators \cup Items(freed)
        /\ mInFlightCommandAllocators' = ClearUpTo(mInFlightCommandAllocators, completed)
        /\ UNCHANGED <<mSerial, completed, mPendingCommands, gpuQueue>>
    BY <1>5 DEF FreeCompleted
  <2>2. Work' = Work /\ IsOpen' = IsOpen
    BY <2>1, WorkFrame DEF IsOpen
  <2>3. /\ mInFlightCommandAllocators' \subseteq mInFlightCommandAllocators
        /\ mInFlightCommandAllocators' = mInFlightCommandAllocators \ freed
        /\ freed \subseteq mInFlightCommandAllocators
        /\ \A e \in mInFlightCommandAllocators :
             completed < e.serial => e \in mInFlightCommandAllocators'
    BY <2>1 DEF ClearUpTo, UpTo, TypeOK, Entries
  <2>4. Items(freed) \cap Items(mInFlightCommandAllocators') = {}
    BY <2>3 DEF Items, AllocatorInv
  <2>5. Items(mInFlightCommandAllocators) = Items(freed) \cup Items(mInFlightCommandAllocators')
    BY <2>1, ItemsClear
  <2>6. \A w \in Work : \A x \in w.allocators :
          [item |-> x, serial |-> w.serial] \in mInFlightCommandAllocators'
    <3> TAKE w \in Work
    <3> TAKE x \in w.allocators
    <3>1. completed < w.serial
      BY WorkInFlight
    <3>2. [item |-> x, serial |-> w.serial] \in mInFlightCommandAllocators
      BY DEF AllocatorInv
    <3>3. QED
      BY <2>3, <3>1, <3>2
  <2>7. completed < mSerial
    BY DEF QueueInv
  <2> HIDE DEF freed
  <2>8. /\ Allocators = mFreeAllocators' \cup Items(mInFlightCommandAllocators')
        /\ mFreeAllocators' \cap Items(mInFlightCommandAllocators') = {}
    BY <2>1, <2>4, <2>5 DEF AllocatorInv
  <2>9. IsOpen' => [item |-> mPendingCommands'.allocator, serial |-> mSerial']
                     \in mInFlightCommandAllocators'
    BY <2>1, <2>2, <2>3, <2>7 DEF AllocatorInv
  <2>10. QED
    BY <2>1, <2>2, <2>3, <2>6, <2>8, <2>9 DEF AllocatorInv
<1>6. CASE FinishTick
  <2>1. MovesOn(mPendingCommands, {}) /\ ~IsOpen' /\ UNCHANGED allocatorVars
    BY <1>6 DEF FinishTick, MovesOn, IsOpen, Closed
  <2>2. AllocatorSets'
    BY <2>1 DEF AllocatorInv, AllocatorSets
  <2>3. \A l \in {} \cup ({mPendingCommands} \ {Closed}) :
          [item |-> l.allocator, serial |-> mSerial] \in mInFlightCommandAllocators'
    BY <2>1 DEF AllocatorInv, PhaseInv
  <2>4. QED
    BY <1>0, <2>1, <2>2, <2>3, ExecuteKeepsAllocators
<1>7. CASE DestroyDevice
  <2>1. MovesOn(Closed, {}) /\ UNCHANGED <<allocatorVars, mPendingCommands>>
    BY <1>7 DEF DestroyDevice, MovesOn, Executed
  <2>2. ~IsOpen'
    BY <1>7 DEF DestroyDevice, PhaseInv, Ending
  <2>3. AllocatorSets'
    BY <2>1 DEF AllocatorInv, AllocatorSets
  <2>4. \A l \in {} \cup ({Closed} \ {Closed}) :
          [item |-> l.allocator, serial |-> mSerial] \in mInFlightCommandAllocators'
    OBVIOUS
  <2>5. QED
    BY <1>0, <2>1, <2>2, <2>3, <2>4, ExecuteKeepsAllocators
<1>8. CASE GpuStep
  <2>1. Work' \subseteq Work
    BY <1>8, WorkFrame
  <2>2. UNCHANGED <<allocatorVars, mPendingCommands, mSerial>>
    BY <1>8 DEF GpuStep
  <2>3. QED
    BY <2>1, <2>2 DEF AllocatorInv, IsOpen
<1>9. QED
  BY <1>1, <1>2, <1>3, <1>4, <1>5, <1>6, <1>7, <1>8
     DEF Next, Api, Tick, Submission, TickStep, LastSignalPassed, Terminated, CreateBuffer,
         ReleaseBuffer, MapAsync, QueueSubmit, GetNextTexture, BeginTick,
         FireMapCallback, CallbackReturns, vars

-----------------------------------------------------------------------------
(* Resources *)

(* Commands that are executed and held for their serial are held from then  *)
(* on.                                                                      *)
LEMMA ExecuteKeepsHolds ==
  ASSUME TypeOK, PhaseInv, QueueInv, ReleaseInv,
         NEW pending \in Lists \cup {Closed}, NEW lists \in SUBSET Lists,
         MovesOn(pending, lists), mPendingCommands'.uses = {},
         ((appRefs \cup Items(mInflightRequests)) \cap Items(mReleasedResources))' = {},
         \A r, n : n \in Nat /\ n <= mSerial /\ Held(r, n) => Held(r, n)',
         \A l \in lists \cup ({pending} \ {Closed}) : \A r \in l.uses \ Frames : Held(r, mSerial)
  PROVE  ReleaseInv'
<1>1. mSerial \in Nat
  BY DEF TypeOK
<1>2. \A w \in Work : \A r \in w.uses \ Frames : Held(r, w.serial)'
  <2> SUFFICES ASSUME NEW w \in Work, NEW r \in w.uses \ Frames PROVE Held(r, w.serial)'
    OBVIOUS
  <2>1. w.serial \in Nat /\ w.serial <= mSerial
    BY WorkInFlight, <1>1
  <2>2. Held(r, w.serial)
    BY DEF ReleaseInv
  <2>3. QED
    BY <2>1, <2>2
<1>3. \A w \in AddedWork(pending, lists) : \A r \in w.uses \ Frames : Held(r, w.serial)'
  <2> SUFFICES ASSUME NEW w \in AddedWork(pending, lists), NEW r \in w.uses \ Frames
               PROVE  Held(r, w.serial)'
    OBVIOUS
  <2>1. /\ w.serial = mSerial
        /\ w.uses = UNION {l.uses : l \in lists \cup ({pending} \ {Closed})}
    BY DEF AddedWork
  <2>2. Held(r, mSerial)
    BY <2>1
  <2>3. QED
    BY <1>1, <2>1, <2>2
<1>4. Work' = Work \cup AddedWork(pending, lists)
  BY WorkFrame
<1>5. QED
  BY <1>2, <1>3, <1>4 DEF ReleaseInv

(* Where nothing is executed, holding on is enough. *)
LEMMA HoldsKept ==
  ASSUME TypeOK, PhaseInv, QueueInv, ReleaseInv, Work' \subseteq Work, mSerial' = mSerial,
         ((appRefs \cup Items(mInflightRequests)) \cap Items(mReleasedResources))' = {},
         \A r, n : n \in Nat /\ completed < n /\ n <= mSerial /\ Held(r, n) => Held(r, n)',
         \A r \in mPendingCommands'.uses : r \in mPendingCommands.uses \/ Held(r, mSerial)'
  PROVE  ReleaseInv'
<1>1. mSerial \in Nat /\ completed < mSerial
  BY DEF TypeOK, QueueInv
<1>2. \A w \in Work : \A r \in w.uses \ Frames : Held(r, w.serial)'
  <2> SUFFICES ASSUME NEW w \in Work, NEW r \in w.uses \ Frames PROVE Held(r, w.serial)'
    OBVIOUS
  <2>1. w.serial \in Nat /\ completed < w.serial /\ w.serial <= mSerial
    BY WorkInFlight, <1>1
  <2>2. Held(r, w.serial)
    BY DEF ReleaseInv
  <2>3. QED
    BY <2>1, <2>2
<1>3. \A r \in mPendingCommands'.uses : Held(r, mSerial)'
  BY <1>1 DEF ReleaseInv
<1>4. QED
  BY <1>2, <1>3 DEF ReleaseInv

(* What is released now is held for all that has been recorded. *)
LEMMA ReleasedIsHeld ==
  ASSUME mSerial \in Nat, NEW rs, mReleasedResources' = Released(rs)
  PROVE  /\ Items(mReleasedResources') = Items(mReleasedResources) \cup rs
         /\ \A r \in rs, n \in Nat : n <= mSerial => Held(r, n)'
         /\ mReleasedResources \subseteq mReleasedResources'
<1>1. \A r \in rs : [item |-> r, serial |-> mSerial] \in mReleasedResources'
  BY DEF Released, ReleaseSerial, Enqueue
<1>2. \A r \in rs, n \in Nat : n <= mSerial => Held(r, n)'
  BY <1>1 DEF Held
<1>3. Items(mReleasedResources') = Items(mReleasedResources) \cup rs
  BY ItemsEnqueue DEF Released
<1>4. mReleasedResources \subseteq mReleasedResources'
  BY DEF Released, Enqueue
<1>5. QED
  BY <1>2, <1>3, <1>4

(* Every orderly step keeps the resources that commands use held. *)
LEMMA ReleaseStep ==
  ASSUME TypeOK, PhaseInv, QueueInv, ReleaseInv, Orderly', [Next]_vars
  PROVE  ReleaseInv'
<1> USE DEF allocatorVars, bufferVars, tickVars, frameVars, controlVars
<1>0. /\ mPendingCommands \in Lists \cup {Closed} /\ {} \in SUBSET Lists
      /\ mSerial \in Nat /\ Closed.uses = {}
  BY PendingList DEF TypeOK, Closed
<1>a. ASSUME UNCHANGED bufferVars PROVE \A r, n : Held(r, n) => Held(r, n)'
  BY <1>a DEF Held
<1>b. \A r \in mPendingCommands.uses : Held(r, mSerial)
  BY DEF ReleaseInv
<1>1. CASE UNCHANGED <<bufferVars, mPendingCommands, mSerial, gpuQueue>>
  BY <1>1, <1>a, WorkFrame DEF ReleaseInv
<1>2. ASSUME NEW r \in Resources, CreateBuffer(r) PROVE ReleaseInv'
  <2>1. /\ r \notin Live /\ appRefs' = appRefs \cup {r}
        /\ UNCHANGED <<mSerial, gpuQueue, mPendingCommands, mReleasedResources,
                       mInflightRequests>>
    BY <1>2 DEF CreateBuffer
  <2>2. \A s, n : Held(s, n) => Held(s, n)'
    BY <2>1 DEF Held
  <2>3. ((appRefs \cup Items(mInflightRequests)) \cap Items(mReleasedResources))' = {}
    BY <2>1 DEF Live, ReleaseInv
  <2>4. QED
    BY <2>1, <2>2, <2>3, HoldsKept, WorkFrame
<1>3. ASSUME NEW r \in Resources, ReleaseBuffer(r) PROVE ReleaseInv'
  <2>1. /\ r \in appRefs /\ appRefs' = appRefs \ {r}
        /\ mReleasedResources' = IF r \in Items(mInflightRequests) THEN mReleasedResources
                                 ELSE Released({r})
        /\ UNCHANGED <<mSerial, gpuQueue, mPendingCommands, mInflightRequests>>
    BY <1>3 DEF ReleaseBuffer
  <2>2. CASE r \in Items(mInflightRequests)
    <3>1. \A s, n : Held(s, n) => Held(s, n)'
      BY <2>1, <2>2 DEF Held
    <3>2. ((appRefs \cup Items(mInflightRequests)) \cap Items(mReleasedResources))' = {}
      BY <2>1, <2>2 DEF ReleaseInv
    <3>3. QED
      BY <2>1, <3>1, <3>2, HoldsKept, WorkFrame
  <2>3. CASE r \notin Items(mInflightRequests)
    <3>1. /\ Items(mReleasedResources') = Items(mReleasedResources) \cup {r}
          /\ \A n \in Nat : n <= mSerial => Held(r, n)'
          /\ mReleasedResources \subseteq mReleasedResources'
      BY <1>0, <2>1, <2>3, ReleasedIsHeld
    <3>2. \A s, n : n \in Nat /\ n <= mSerial /\ Held(s, n) => Held(s, n)'
      BY <2>1, <3>1 DEF Held
    <3>3. ((appRefs \cup Items(mInflightRequests)) \cap Items(mReleasedResources))' = {}
      BY <2>1, <2>3, <3>1 DEF ReleaseInv
    <3>4. QED
      BY <2>1, <3>2, <3>3, HoldsKept, WorkFrame
  <2>4. QED
    BY <2>2, <2>3
<1>4. ASSUME NEW r \in Resources, MapAsync(r) PROVE ReleaseInv'
  <2>1. /\ r \in appRefs /\ mInflightRequests' = Enqueue(mInflightRequests, {r}, mSerial)
        /\ UNCHANGED <<mSerial, gpuQueue, mPendingCommands, appRefs, mReleasedResources>>
    BY <1>4 DEF MapAsync
  <2>2. Items(mInflightRequests') = Items(mInflightRequests) \cup {r}
    BY <2>1, ItemsEnqueue
  <2>3. \A s, n : Held(s, n) => Held(s, n)'
    BY <2>1, <2>2 DEF Held
  <2>4. ((appRefs \cup Items(mInflightRequests)) \cap Items(mReleasedResources))' = {}
    BY <2>1, <2>2 DEF ReleaseInv
  <2>5. QED
    BY <2>1, <2>3, <2>4, HoldsKept, WorkFrame
<1>5. ASSUME NEW r \in Resources, NEW upload \in Resources, SetSubData(r, upload)
      PROVE  ReleaseInv'
  <2>1. /\ r \in appRefs /\ upload \notin Live
        /\ RecordPending({r, upload})
        /\ mReleasedResources' = Released({upload})
        /\ UNCHANGED <<mSerial, gpuQueue, mInflightRequests, appRefs>>
    BY <1>5 DEF SetSubData
  <2>2. /\ Items(mReleasedResources') = Items(mReleasedResources) \cup {upload}
        /\ \A n \in Nat : n <= mSerial => Held(upload, n)'
        /\ mReleasedResources \subseteq mReleasedResources'
    BY <1>0, <2>1, ReleasedIsHeld
  <2>3. \A s, n : Held(s, n) => Held(s, n)'
    BY <2>1, <2>2 DEF Held
  <2>4. ((appRefs \cup Items(mInflightRequests)) \cap Items(mReleasedResources))' = {}
    BY <2>1, <2>2 DEF Live, ReleaseInv
  <2>5. mPendingCommands'.uses \subseteq mPendingCommands.uses \cup {r, upload}
    BY <2>1 DEF RecordPending, TypeOK
  <2>6. Held(r, mSerial)' /\ Held(upload, mSerial)'
    <3>1. Held(r, mSerial)'
      BY <2>1 DEF Held
    <3>2. mSerial' = mSerial
      BY <2>1
    <3>3. QED
      BY <1>0, <2>2, <3>1, <3>2
  <2>7. QED
    BY <2>1, <2>3, <2>4, <2>5, <2>6, HoldsKept, WorkFrame
<1>6. CASE Present
  <2>1. PICK list \in Lists : PresentsWith(list) /\ list # Closed
    BY <1>6, PresentList
  <2>2. MovesOn(list, {}) /\ mPendingCommands' = Closed /\ UNCHANGED bufferVars
    BY <1>6, <2>1 DEF Present, PresentsWith, MovesOn
  <2>3. list.uses \subseteq mPendingCommands.uses \cup Frames
    BY <2>1 DEF PresentsWith, TypeOK
  <2>4. \A r \in list.uses \ Frames : Held(r, mSerial)
    BY <1>b, <2>3
  <2>5. ((appRefs \cup Items(mInflightRequests)) \cap Items(mReleasedResources))' = {}
    BY <2>2 DEF ReleaseInv
  <2>6. mPendingCommands'.uses = {}
    BY <1>0, <2>2
  <2>7. QED
    BY <1>0, <1>a, <2>2, <2>4, <2>5, <2>6, ExecuteKeepsHolds
<1>7. ASSUME NEW uses \in SUBSET (appRefs \cup (IF acquired THEN {mCurrentBuffer} ELSE {})),
             SubmitLists(uses)
      PROVE  ReleaseInv'
  <2>1. PICK a \in Allocators :
          gpuQueue' = Append(Executed(mPendingCommands, {[allocator |-> a, uses |-> uses]}),
                             Signal(mSerial))
    BY <1>7 DEF SubmitLists
  <2> DEFINE list == [allocator |-> a, uses |-> uses]
  <2>2. {list} \in SUBSET Lists /\ list.uses = uses
    BY DEF Lists, TypeOK, Used
  <2>3. MovesOn(mPendingCommands, {list}) /\ mPendingCommands' = Closed /\ UNCHANGED bufferVars
    BY <1>7, <2>1 DEF SubmitLists, MovesOn
  <2>4. \A r \in uses \ Frames : Held(r, mSerial)
    BY DEF Held, TypeOK
  <2>5. \A l \in {list} \cup ({mPendingCommands} \ {Closed}) :
          \A r \in l.uses \ Frames : Held(r, mSerial)
    BY <1>b, <2>2, <2>4
  <2>6. ((appRefs \cup Items(mInflightRequests)) \cap Items(mReleasedResources))' = {}
    BY <2>3 DEF ReleaseInv
  <2>7. mPendingCommands'.uses = {}
    BY <1>0, <2>3
  <2> HIDE DEF list
  <2>8. QED
    BY <1>0, <1>a, <2>2, <2>3, <2>5, <2>6, <2>7, ExecuteKeepsHolds
<1>8. CASE FreeCompleted
  <2>1. /\ mReleasedResources' = ClearUpTo(mReleasedResources, completed)
        /\ UNCHANGED <<mSerial, completed, gpuQueue, mPendingCommands, mInflightRequests,
                       appRefs>>
    BY <1>8 DEF FreeCompleted
  <2>2. \A e \in mReleasedResources : completed < e.serial => e \in mReleasedResources'
    BY <2>1 DEF ClearUpTo, UpTo, TypeOK, Entries
  <2>3. \A r, n : n \in Nat /\ completed < n /\ Held(r, n) => Held(r, n)'
    <3> SUFFICES ASSUME NEW r, NEW n \in Nat, completed < n, Held(r, n) PROVE Held(r, n)'
      OBVIOUS
    <3>1. CASE r \in appRefs \cup Items(mInflightRequests)
      BY <2>1, <3>1 DEF Held
    <3>2. ASSUME NEW e \in mReleasedResources, e.item = r, n <= e.serial
          PROVE  Held(r, n)'
      <4>1. completed < e.serial
        BY <3>2 DEF TypeOK, Entries
      <4>2. QED
        BY <2>2, <3>2, <4>1 DEF Held
    <3>3. QED
      BY <3>1, <3>2 DEF Held
  <2>4. ((appRefs \cup Items(mInflightRequests)) \cap Items(mReleasedResources))' = {}
    BY <2>1 DEF ReleaseInv, ClearUpTo, Items
  <2>5. QED
    BY <2>1, <2>3, <2>4, HoldsKept, WorkFrame
<1>9. CASE FinishTick
  <2> DEFINE cleared == UpTo(mInflightRequests, lastCompletedSerial)
             left == mInflightRequests \ cleared
             gone == Items(cleared) \ (appRefs \cup Items(left))
  <2>1. /\ mInflightRequests' = left /\ mReleasedResources' = Released(gone)
        /\ MovesOn(mPendingCommands, {}) /\ mPendingCommands' = Closed
        /\ appRefs' = appRefs
    BY <1>9 DEF FinishTick, MovesOn
  <2>2. Items(mInflightRequests) = Items(cleared) \cup Items(left)
    BY ItemsClear DEF ClearUpTo
  <2> HIDE DEF cleared
  <2>3. Items(left) \subseteq Items(mInflightRequests)
    BY DEF Items
  <2> HIDE DEF left, gone
  <2>4. /\ Items(mReleasedResources') = Items(mReleasedResources) \cup gone
        /\ \A r \in gone, n \in Nat : n <= mSerial => Held(r, n)'
        /\ mReleasedResources \subseteq mReleasedResources'
    BY <1>0, <2>1, ReleasedIsHeld
  <2>5. \A r, n : n \in Nat /\ n <= mSerial /\ Held(r, n) => Held(r, n)'
    <3> SUFFICES ASSUME NEW r, NEW n \in Nat, n <= mSerial, Held(r, n) PROVE Held(r, n)'
      OBVIOUS
    <3>1. CASE r \in appRefs \cup Items(left)
      BY <2>1, <3>1 DEF Held
    <3>2. CASE \E e \in mReleasedResources : e.item = r /\ n <= e.serial
      BY <2>4, <3>2 DEF Held
    <3>3. CASE r \in gone
      BY <2>4, <3>3
    <3>4. QED
      BY <2>2, <3>1, <3>2, <3>3 DEF Held, gone
  <2>6. ((appRefs \cup Items(mInflightRequests)) \cap Items(mReleasedResources))' = {}
    BY <2>1, <2>3, <2>4 DEF ReleaseInv, gone
  <2>7. mPendingCommands'.uses = {}
    BY <1>0, <2>1
  <2>8. QED
    BY <1>0, <1>b, <2>1, <2>5, <2>6, <2>7, ExecuteKeepsHolds
<1>10. CASE DestroyDevice
  <2>1. MovesOn(Closed, {}) /\ UNCHANGED <<bufferVars, mPendingCommands>>
    BY <1>10 DEF DestroyDevice, MovesOn, Executed
  <2>2. ~IsOpen
    BY <1>10 DEF DestroyDevice, Orderly, Ending
  <2>3. mPendingCommands'.uses = {}
    BY <1>0, <2>1, <2>2 DEF PhaseInv
  <2>4. ((appRefs \cup Items(mInflightRequests)) \cap Items(mReleasedResources))' = {}
    BY <2>1 DEF ReleaseInv
  <2>5. \A l \in {} \cup ({Closed} \ {Closed}) : \A r \in l.uses \ Frames : Held(r, mSerial)
    OBVIOUS
  <2>6. QED
    BY <1>0, <1>a, <2>1, <2>3, <2>4, <2>5, ExecuteKeepsHolds
<1>11. CASE GpuStep
  <2>1. Work' \subseteq Work
    BY <1>11, WorkFrame
  <2>2. UNCHANGED <<bufferVars, mPendingCommands, mSerial>>
    BY <1>11 DEF GpuStep
  <2>3. QED
    BY <1>a, <2>1, <2>2 DEF ReleaseInv
<1>12. QED
  BY <1>1, <1>2, <1>3, <1>4, <1>5, <1>6, <1>7, <1>8, <1>9, <1>10, <1>11
     DEF Next, Api, Tick, Submission, TickStep, LastSignalPassed, Terminated,
         QueueSubmit, GetNextTexture, BeginTick, FireMapCallback, CallbackReturns, vars

-----------------------------------------------------------------------------
(* Back buffers *)

(* Every step keeps the serials of the back buffers. *)
LEMMA FrameStep ==
  ASSUME TypeOK, PhaseInv, QueueInv, FrameInv, [Next]_vars
  PROVE  FrameInv'
<1> USE DEF allocatorVars, bufferVars, tickVars, frameVars, controlVars
<1>0. /\ mPendingCommands \in Lists \cup {Closed} /\ {} \in SUBSET Lists
      /\ mSerial \in Nat /\ mBufferSerials \in [Frames -> Nat] /\ mCurrentBuffer \in Frames
      /\ Closed.uses = {} /\ Resources \cap Frames = {}
  BY PendingList, FramesAssumption DEF TypeOK, Closed
<1>1. CASE UNCHANGED <<frameVars, mPendingCommands, mSerial, gpuQueue>>
  BY <1>1, WorkFrame DEF FrameInv
<1>2. ASSUME NEW r \in Resources, NEW upload \in Resources, SetSubData(r, upload)
      PROVE  FrameInv'
  <2>1. RecordPending({r, upload}) /\ UNCHANGED <<frameVars, mSerial, gpuQueue>>
    BY <1>2 DEF SetSubData
  <2>2. mPendingCommands'.uses \subseteq mPendingCommands.uses \cup {r, upload}
    BY <2>1 DEF RecordPending, TypeOK
  <2>3. QED
    BY <2>1, <2>2, WorkFrame DEF FrameInv
<1>3. CASE GetNextTexture
  <2>1. /\ UNCHANGED <<mSerial, gpuQueue, mPendingCommands, mBufferSerials, mCurrentBuffer>>
        /\ ~acquired /\ acquired'
    BY <1>3 DEF GetNextTexture
  <2>2. QED
    BY <2>1, WorkFrame DEF FrameInv
<1>4. CASE Present
  <2>1. PICK list \in Lists : PresentsWith(list) /\ list # Closed
    BY <1>4, PresentList
  <2>2. /\ MovesOn(list, {}) /\ mPendingCommands' = Closed /\ acquired' = FALSE
        /\ mBufferSerials' = [mBufferSerials EXCEPT ![mCurrentBuffer] = mSerial + 1]
        /\ mCurrentBuffer' = (mCurrentBuffer + 1) % 2
        /\ mSerial' = mSerial + 1
    BY <1>4, <2>1 DEF Present, PresentsWith, MovesOn, kFrameCount, PresentSerial
  <2>3. list.uses \cap Frames \subseteq {mCurrentBuffer}
    BY <1>0, <2>1 DEF PresentsWith, TypeOK, FrameInv
  <2>4. \A f \in Frames : mBufferSerials'[f] <= mSerial'
    BY <1>0, <2>2 DEF FrameInv
  <2>5. mCurrentBuffer' \in Frames /\ mCurrentBuffer' # mCurrentBuffer
    BY <1>0, <2>2 DEF Frames, kFrameCount
  <2>6. mBufferSerials'[mCurrentBuffer'] < mSerial'
    BY <1>0, <2>2, <2>5 DEF FrameInv
  <2>7. \A w \in Work : \A f \in w.uses \cap Frames : w.serial <= mBufferSerials'[f]
    <3> SUFFICES ASSUME NEW w \in Work, NEW f \in w.uses \cap Frames
                 PROVE  w.serial <= mBufferSerials'[f]
      OBVIOUS
    <3>1. w.serial \in Nat /\ w.serial < mSerial
      BY WorkInFlight
    <3>2. w.serial <= mBufferSerials[f] \/ f = mCurrentBuffer
      BY DEF FrameInv
    <3>3. QED
      BY <1>0, <2>2, <3>1, <3>2
  <2>8. \A w \in AddedWork(list, {}) : \A f \in w.uses \cap Frames :
          w.serial <= mBufferSerials'[f]
    <3> SUFFICES ASSUME NEW w \in AddedWork(list, {}), NEW f \in w.uses \cap Frames
                 PROVE  w.serial <= mBufferSerials'[f]
      OBVIOUS
    <3>1. w.serial = mSerial /\ w.uses = UNION {l.uses : l \in {list}}
      BY <2>1 DEF AddedWork
    <3>2. f = mCurrentBuffer
      BY <2>3, <3>1
    <3>3. QED
      BY <1>0, <2>2, <3>1, <3>2
  <2>9. Work' = Work \cup AddedWork(list, {})
    BY <1>0, <2>2, WorkFrame
  <2>10. mPendingCommands'.uses \subseteq Resources
    BY <1>0, <2>2
  <2>11. QED
    BY <2>4, <2>6, <2>7, <2>8, <2>9, <2>10 DEF FrameInv
<1>5. ASSUME NEW pending \in Lists \cup {Closed}, NEW lists \in SUBSET Lists,
             MovesOn(pending, lists), UNCHANGED frameVars,
             mPendingCommands'.uses \subseteq Resources,
             \A l \in lists \cup ({pending} \ {Closed}) :
               l.uses \cap Frames \subseteq IF acquired THEN {mCurrentBuffer} ELSE {}
      PROVE  FrameInv'
  <2>1. mSerial' = mSerial + 1 /\ Work' = Work \cup AddedWork(pending, lists)
    BY <1>5, WorkFrame DEF MovesOn
  <2>2. \A w \in AddedWork(pending, lists) : \A f \in w.uses \cap Frames :
          acquired /\ f = mCurrentBuffer
    <3> SUFFICES ASSUME NEW w \in AddedWork(pending, lists), NEW f \in w.uses \cap Frames
                 PROVE  acquired /\ f = mCurrentBuffer
      OBVIOUS
    <3>1. w.uses = UNION {l.uses : l \in lists \cup ({pending} \ {Closed})}
      BY DEF AddedWork
    <3>2. QED
      BY <1>5, <3>1
  <2>3. \A f \in Frames : mBufferSerials[f] <= mSerial + 1
    BY <1>0 DEF FrameInv
  <2>4. mBufferSerials[mCurrentBuffer] < mSerial + 1
    BY <1>0 DEF FrameInv
  <2>5. QED
    BY <1>5, <2>1, <2>2, <2>3, <2>4 DEF FrameInv
<1>6. mPendingCommands.uses \cap Frames = {}
  BY <1>0 DEF FrameInv
<1>7. ASSUME NEW uses \in SUBSET (appRefs \cup (IF acquired THEN {mCurrentBuffer} ELSE {})),
             SubmitLists(uses)
      PROVE  FrameInv'
  <2>1. PICK a \in Allocators :
          gpuQueue' = Append(Executed(mPendingCommands, {[allocator |-> a, uses |-> uses]}),
                             Signal(mSerial))
    BY <1>7 DEF SubmitLists
  <2> DEFINE list == [allocator |-> a, uses |-> uses]
  <2>2. {list} \in SUBSET Lists /\ list.uses = uses
    BY DEF Lists, TypeOK, Used
  <2>3. MovesOn(mPendingCommands, {list}) /\ mPendingCommands' = Closed /\ UNCHANGED frameVars
    BY <1>7, <2>1 DEF SubmitLists, MovesOn
  <2>4. uses \cap Frames \subseteq IF acquired THEN {mCurrentBuffer} ELSE {}
    BY <1>0 DEF TypeOK
  <2> HIDE DEF list
  <2>5. \A l \in {list} \cup ({mPendingCommands} \ {Closed}) :
          l.uses \cap Frames \subseteq IF acquired THEN {mCurrentBuffer} ELSE {}
    BY <1>6, <2>2, <2>4
  <2>6. mPendingCommands'.uses \subseteq Resources
    BY <1>0, <2>3
  <2>7. QED
    BY <1>0, <1>5, <2>2, <2>3, <2>5, <2>6
<1>8. CASE FinishTick \/ DestroyDevice
  <2>1. /\ MovesOn(mPendingCommands, {}) \/ MovesOn(Closed, {})
        /\ UNCHANGED frameVars
        /\ mPendingCommands' = Closed \/ mPendingCommands' = mPendingCommands
    BY <1>8 DEF FinishTick, DestroyDevice, MovesOn, Executed
  <2>2. mPendingCommands'.uses \subseteq Resources
    BY <1>0, <2>1 DEF FrameInv
  <2>3. \A p \in {mPendingCommands, Closed} : \A l \in {} \cup ({p} \ {Closed}) :
          l.uses \cap Frames \subseteq IF acquired THEN {mCurrentBuffer} ELSE {}
    BY <1>6
  <2>4. QED
    BY <1>0, <1>5, <2>1, <2>2, <2>3
<1>9. CASE GpuStep
  <2>1. Work' \subseteq Work
    BY <1>9, WorkFrame
  <2>2. UNCHANGED <<frameVars, mPendingCommands, mSerial>>
    BY <1>9 DEF GpuStep
  <2>3. QED
    BY <2>1, <2>2 DEF FrameInv
<1>10. QED
  BY <1>1, <1>2, <1>3, <1>4, <1>7, <1>8, <1>9
     DEF Next, Api, Tick, Submission, TickStep, LastSignalPassed, Terminated, CreateBuffer,
         ReleaseBuffer, MapAsync, QueueSubmit, BeginTick, FreeCompleted,
         FireMapCallback, CallbackReturns, vars

-----------------------------------------------------------------------------
(* Theorems *)

(* The inductive invariant holds. *)
THEOREM Inductive == Spec => []IndInv
<1>1. Init => IndInv
  <2> SUFFICES ASSUME Init PROVE IndInv
    OBVIOUS
  <2>1. gpuQueue = <<>> /\ DOMAIN gpuQueue = {}
    BY EmptySeq DEF Init
  <2>2. Work = {}
    BY <2>1 DEF Work, WorkOf
  <2>3. PhaseInv
    BY DEF Init, PhaseInv, Ending, IsOpen, Closed
  <2>4. QueueInv
    BY <2>1 DEF Init, QueueInv, Paired, InOrder, SignalsOf
  <2>5. AllocatorInv
    BY <2>2 DEF Init, AllocatorInv, Items, IsOpen, Closed
  <2>6. ReleaseInv
    BY <2>2 DEF Init, ReleaseInv, Items, Closed
  <2>7. FrameInv
    BY <2>2 DEF Init, FrameInv, Closed, Frames, kFrameCount
  <2>8. QED
    BY <2>3, <2>4, <2>5, <2>6, <2>7 DEF IndInv
<1>2. TypeOK /\ TypeOK' /\ IndInv /\ [Next]_vars => IndInv'
  <2> SUFFICES ASSUME TypeOK, TypeOK', IndInv, [Next]_vars PROVE IndInv'
    OBVIOUS
  <2>1. PhaseInv /\ PhaseInv' /\ QueueInv /\ QueueInv' /\ FrameInv /\ FrameInv'
    BY PhaseStep, QueueStep, FrameStep DEF IndInv
  <2>2. Orderly' => Orderly
    BY <2>1, EndingStep DEF Orderly
  <2>3. Orderly' => AllocatorInv' /\ ReleaseInv'
    BY <2>1, <2>2, AllocatorStep, ReleaseStep DEF IndInv
  <2>4. QED
    BY <2>1, <2>3 DEF IndInv
<1>3. QED
  BY <1>1, <1>2, TypeCorrect, PTL DEF Spec

(* An execution in the queue is Work. *)
LEMMA ExecutionIsWork ==
  ASSUME NEW x \in Executions
  PROVE  \E w \in Work : w.uses = x.uses /\ w.allocators = x.allocators
<1>1. PICK i \in DOMAIN gpuQueue : gpuQueue[i].op = "execute" /\ x = gpuQueue[i]
  BY DEF Executions
<1> DEFINE w == [serial |-> gpuQueue[i + 1].serial, uses |-> gpuQueue[i].uses,
                 allocators |-> gpuQueue[i].allocators]
<1>2. w \in Work
  BY <1>1 DEF Work, WorkOf
<1>3. w.uses = x.uses /\ w.allocators = x.allocators
  BY <1>1
<1>4. QED
  BY <1>2, <1>3

(* Until a device is destroyed with an open list, a command allocator that  *)
(* is free is used neither by the open list nor by the GPU.                 *)
THEOREM AllocatorsIdle == Spec => [](Orderly => AllocatorsFreeWhenIdle)
<1>1. IndInv /\ Orderly => AllocatorsFreeWhenIdle
  <2> SUFFICES ASSUME AllocatorInv, PhaseInv, NEW a \in mFreeAllocators
               PROVE  /\ a # mPendingCommands.allocator
                      /\ \A x \in Executions : a \notin x.allocators
    BY DEF IndInv, AllocatorsFreeWhenIdle
  <2>1. a \in Allocators /\ a \notin Items(mInFlightCommandAllocators)
    BY DEF AllocatorInv
  <2>2. \A e \in mInFlightCommandAllocators : e.item # a
    BY <2>1 DEF Items
  <2>3. a # mPendingCommands.allocator
    BY <2>1, <2>2, AllocatorAssumption DEF AllocatorInv, IsOpen
  <2>4. ASSUME NEW x \in Executions PROVE a \notin x.allocators
    <3>1. PICK w \in Work : w.allocators = x.allocators
      BY ExecutionIsWork
    <3>2. \A b \in w.allocators : b # a
      BY <2>2 DEF AllocatorInv
    <3>3. QED
      BY <3>1, <3>2
  <2>5. QED
    BY <2>3, <2>4
<1>2. QED
  BY <1>1, Inductive, PTL

(* A back buffer is handed out again only when the GPU is done with it.     *)
THEOREM BackBuffersIdle == Spec => BackBufferIdle
<1>1. TypeOK /\ IndInv /\ [Next]_vars =>
        [acquired' /\ ~acquired => \A x \in Executions : mCurrentBuffer \notin x.uses]_vars
  <2> SUFFICES ASSUME TypeOK, IndInv, [Next]_vars, acquired', ~acquired,
                      NEW x \in Executions, mCurrentBuffer \in x.uses
               PROVE  FALSE
    OBVIOUS
  <2>1. mBufferSerials[mCurrentBuffer] <= completed
    BY DEF Next, Api, Tick, Submission, TickStep, LastSignalPassed, Terminated, CreateBuffer,
           ReleaseBuffer, MapAsync, SetSubData, QueueSubmit, BeginTick, SubmitLists,
           GetNextTexture, Present, FreeCompleted, FireMapCallback, CallbackReturns,
           FinishTick, DestroyDevice, GpuStep, frameVars, vars
  <2>2. PICK w \in Work : w.uses = x.uses
    BY ExecutionIsWork
  <2>3. w.serial <= mBufferSerials[mCurrentBuffer]
    BY <2>2 DEF IndInv, FrameInv, TypeOK
  <2>4. w.serial \in Nat /\ completed < w.serial
    BY WorkInFlight DEF IndInv
  <2>5. mBufferSerials[mCurrentBuffer] \in Nat /\ completed \in Nat
    BY DEF TypeOK
  <2>6. QED
    BY <2>1, <2>3, <2>4, <2>5
<1>2. QED
  BY <1>1, Inductive, TypeCorrect, PTL DEF Spec, BackBufferIdle

(* Command allocators and back buffers are handed out only when the GPU is  *)
(* done with them, if no device is destroyed with an open list.             *)
THEOREM SafeReuse == ~AbandonRecording => (Spec => ReuseIsSafe)
<1> SUFFICES ASSUME ~AbandonRecording PROVE Spec => ReuseIsSafe
  OBVIOUS
<1>1. Orderly
  BY DEF Orderly
<1>2. Spec => []AllocatorsFreeWhenIdle
  BY <1>1, AllocatorsIdle, PTL
<1>3. QED
  BY <1>2, BackBuffersIdle, PTL DEF ReuseIsSafe

(* A resource that commands use exists until the GPU is done with them.     *)
THEOREM ResourcesHeld == Spec => [](Orderly => NoUseAfterRelease)
<1>1. IndInv /\ Orderly => NoUseAfterRelease
  <2> SUFFICES ASSUME ReleaseInv, NEW r \in ResourcesInUse PROVE r \in Live
    BY DEF IndInv, NoUseAfterRelease
  <2>1. \A n : Held(r, n) => r \in Live
    BY DEF Held, Live, Items
  <2>2. CASE r \in mPendingCommands.uses
    BY <2>1, <2>2 DEF ReleaseInv
  <2>3. ASSUME NEW x \in Executions, r \in x.uses \ Frames PROVE r \in Live
    BY <2>1, <2>3, ExecutionIsWork DEF ReleaseInv
  <2>4. QED
    BY <2>2, <2>3 DEF ResourcesInUse
<1>2. QED
  BY <1>1, Inductive, PTL

(* No wait of the device is for a serial that the GPU was not asked for.    *)
THEOREM WaitsAreServed == Spec => []WaitsEnd
<1>1. TypeOK /\ IndInv => WaitsEnd
  <2> SUFFICES ASSUME TypeOK, IndInv PROVE WaitsEnd
    OBVIOUS
  <2>1. ASSUME pc \in {"app", "submit"}, ~IsOpen, mFreeAllocators = {}
        PROVE  FirstSerial < mSerial
    <3>1. AllocatorInv
      BY <2>1 DEF IndInv, PhaseInv, Orderly, Ending
    <3>2. mInFlightCommandAllocators # {}
      BY <2>1, <3>1, AllocatorAssumption DEF AllocatorInv, Items
    <3>3. QED
      BY <2>1, <3>1, <3>2, FirstSerialIsLeast DEF AllocatorInv
  <2>2. SignalsOf(gpuQueue) = Signals
    BY DEF SignalsOf, Signals
  <2>3. QED
    BY <2>1, <2>2 DEF WaitsEnd, IndInv, QueueInv, FrameInv
<1>2. QED
  BY <1>1, TypeCorrect, Inductive, PTL

-----------------------------------------------------------------------------
(* The promise of GpuResources *)

(* The state of GpuResources that a state of the device stands for. *)
Promised == Live \subseteq Resources /\ Retired = Items(mReleasedResources) /\ Retired \subseteq Live

(* It is one of GpuResources' states. *)
LEMMA AbstractState == TypeOK /\ ReleaseInv => Promised
<1> SUFFICES ASSUME TypeOK, ReleaseInv PROVE Promised
  OBVIOUS
<1>1. Retired = Items(mReleasedResources)
  BY DEF ReleaseInv, Retired
<1>2. Items(mReleasedResources) \subseteq Resources /\ Items(mInflightRequests) \subseteq Resources
  BY DEF TypeOK, Items, Entries
<1>3. QED
  BY <1>1, <1>2 DEF Live, TypeOK, Promised

(* A call that adds resources and releases some implements Record. *)
LEMMA RecordImplements ==
  ASSUME (Live \subseteq Resources)', (Retired \subseteq Live)',
         NEW U \in SUBSET Resources, Live \subseteq Live', Retired \subseteq Retired',
         U \subseteq Live' \ Retired, Recorded' = Recorded \cup U, Batches' = Batches
  PROVE  Resource!AbsNext
BY DEF Resource!AbsNext, Resource!Record

(* A call that executes lists implements Submit. *)
LEMMA SubmitImplements ==
  ASSUME TypeOK, PhaseInv, QueueInv,
         NEW pending \in Lists \cup {Closed}, NEW lists \in SUBSET Lists,
         MovesOn(pending, lists), lists \cup ({pending} \ {Closed}) # {},
         NEW U \in SUBSET Resources, U \subseteq Live \ Retired,
         (UNION {l.uses : l \in lists \cup ({pending} \ {Closed})}) \ Frames = Recorded \cup U,
         Live' = Live, Retired \subseteq Retired', (Retired \subseteq Live)', Recorded' = {}
  PROVE  Resource!AbsNext
<1> DEFINE all == lists \cup ({pending} \ {Closed})
           batch == [id |-> mSerial, uses |-> Recorded \cup U]
<1>1. Work' = Work \cup AddedWork(pending, lists)
  BY WorkFrame
<1>2. AddedWork(pending, lists) = {[serial |-> mSerial, uses |-> UNION {l.uses : l \in all},
                                    allocators |-> {l.allocator : l \in all}]}
  BY DEF AddedWork
<1>3. {[id |-> w.serial, uses |-> w.uses \ Frames] : w \in AddedWork(pending, lists)} = {batch}
  BY <1>2
<1>4. Batches' = Batches \cup {batch}
  BY <1>1, <1>3 DEF Batches
<1>5. \A b \in Batches : b.id # mSerial
  <2>1. \A w \in Work : w.serial \in Nat /\ w.serial < mSerial
    BY WorkInFlight
  <2>2. QED
    BY <2>1 DEF Batches, TypeOK
<1>6. mSerial \in {b.id : b \in Batches'}
  BY <1>4
<1>7. Resource!Submit(U)
  BY <1>4, <1>5, <1>6 DEF Resource!Submit
<1>8. QED
  BY <1>7 DEF Resource!AbsNext

(* TickImpl destroys only what is let go of and out of use. *)
LEMMA DestroyImplements ==
  ASSUME TypeOK, PhaseInv, QueueInv, ReleaseInv, Promised, Promised', FreeCompleted
  PROVE  Resource!AbsNext
<1>1. /\ mReleasedResources' = ClearUpTo(mReleasedResources, completed)
      /\ UNCHANGED <<mSerial, gpuQueue, mPendingCommands, mInflightRequests, appRefs>>
  BY DEF FreeCompleted
<1>2. mReleasedResources' \subseteq mReleasedResources
      /\ \A e \in mReleasedResources : completed < e.serial => e \in mReleasedResources'
  BY <1>1 DEF ClearUpTo, UpTo, TypeOK, Entries
<1>3. Retired = Items(mReleasedResources) /\ Retired' = Items(mReleasedResources')
  BY DEF Promised
<1>4. Batches' = Batches /\ Recorded' = Recorded
  BY <1>1, WorkFrame DEF Batches, Recorded
<1>5. /\ Live = appRefs \cup Items(mInflightRequests) \cup Retired
      /\ Live' = appRefs \cup Items(mInflightRequests) \cup Retired'
      /\ Retired' \subseteq Retired
  BY <1>1, <1>2, <1>3 DEF Live, Items
<1>6. \A r, n : n \in Nat /\ completed < n /\ Held(r, n) => r \in Live'
  <2> SUFFICES ASSUME NEW r, NEW n \in Nat, completed < n, Held(r, n) PROVE r \in Live'
    OBVIOUS
  <2>1. CASE r \in appRefs \cup Items(mInflightRequests)
    BY <1>5, <2>1
  <2>2. ASSUME NEW e \in mReleasedResources, e.item = r, n <= e.serial
        PROVE  r \in Live'
    <3>1. completed < e.serial
      BY <2>2 DEF TypeOK, Entries
    <3>2. QED
      BY <1>2, <1>3, <1>5, <2>2, <3>1 DEF Items
  <2>3. QED
    BY <2>1, <2>2 DEF Held
<1>7. Resource!InUse \subseteq Live'
  <2>1. Recorded \subseteq Live'
    BY <1>6 DEF Recorded, ReleaseInv, QueueInv, TypeOK
  <2>2. \A w \in Work : w.uses \ Frames \subseteq Live'
    <3>1. \A w \in Work : w.serial \in Nat /\ completed < w.serial
      BY WorkInFlight
    <3>2. QED
      BY <1>6, <3>1 DEF ReleaseInv
  <2>3. QED
    BY <2>1, <2>2 DEF Resource!InUse, Batches
<1>8. Resource!Destroy
  <2>1. Live \ Live' \subseteq Retired \ Resource!InUse
    BY <1>5, <1>7
  <2>2. Live' \subseteq Live
    BY <1>5
  <2>3. Retired' = Retired \cap Live'
    <3>1. (appRefs \cup Items(mInflightRequests)) \cap Retired = {}
      BY DEF Retired
    <3>2. QED
      BY <1>5, <3>1
  <2>4. QED
    BY <1>4, <2>1, <2>2, <2>3 DEF Resource!Destroy
<1>9. QED
  BY <1>8 DEF Resource!AbsNext

(* The end of an execution implements Finish. *)
LEMMA FinishImplements ==
  ASSUME TypeOK, PhaseInv, QueueInv, GpuStep
  PROVE  [Resource!AbsNext]_(Resource!absVars)
<1>1. Live' = Live /\ Retired' = Retired /\ Recorded' = Recorded
  BY DEF GpuStep, bufferVars, Live, Retired, Recorded
<1>2. CASE Work' = Work
  BY <1>1, <1>2 DEF Resource!absVars, Batches
<1>3. ASSUME NEW w \in Work, Work' = Work \ {w} PROVE Resource!AbsNext
  <2> DEFINE b == [id |-> w.serial, uses |-> w.uses \ Frames]
  <2>1. b \in Batches
    BY DEF Batches
  <2>2. \A v \in Work : v # w => [id |-> v.serial, uses |-> v.uses \ Frames] # b
    <3>1. \A v \in Work : v # w => v.serial # w.serial
      BY WorkInFlight
    <3>2. QED
      BY <3>1
  <2>3. Batches' = Batches \ {b}
    BY <1>3, <2>2 DEF Batches
  <2>4. Resource!Finish
    BY <1>1, <2>1, <2>3 DEF Resource!Finish
  <2>5. QED
    BY <2>4 DEF Resource!AbsNext
<1>4. QED
  BY <1>2, <1>3, WorkFrame

(* Calls of the API implement Record and Submit, or nothing at all. *)
LEMMA ApiImplements ==
  ASSUME TypeOK, PhaseInv, QueueInv, ReleaseInv, Promised, Promised', Api
  PROVE  [Resource!AbsNext]_(Resource!absVars)
<1> USE DEF bufferVars
<1>0. /\ Live \subseteq Resources /\ Retired = Items(mReleasedResources) /\ Retired \subseteq Live
      /\ (Live \subseteq Resources)' /\ Retired' = Items(mReleasedResources')
      /\ (Retired \subseteq Live)'
  BY DEF Promised
<1>a. {} \in SUBSET Resources /\ mSerial \in Nat
  BY DEF TypeOK
<1>1. ASSUME NEW r \in Resources, CreateBuffer(r) PROVE Resource!AbsNext
  <2>1. Live \subseteq Live' /\ Retired' = Retired /\ Recorded' = Recorded /\ Batches' = Batches
    BY <1>0, <1>1, WorkFrame DEF CreateBuffer, Live, Recorded, Batches
  <2>2. QED
    BY <1>0, <1>a, <2>1, RecordImplements
<1>2. ASSUME NEW r \in Resources, ReleaseBuffer(r) PROVE Resource!AbsNext
  <2>1. /\ r \in appRefs /\ appRefs' = appRefs \ {r}
        /\ mReleasedResources' = IF r \in Items(mInflightRequests) THEN mReleasedResources
                                 ELSE Released({r})
        /\ mInflightRequests' = mInflightRequests
    BY <1>2 DEF ReleaseBuffer
  <2>2. Recorded' = Recorded /\ Batches' = Batches
    BY <1>2, WorkFrame DEF ReleaseBuffer, Recorded, Batches
  <2>3. Live \subseteq Live' /\ Retired \subseteq Retired'
    <3>1. CASE r \in Items(mInflightRequests)
      BY <1>0, <2>1, <3>1 DEF Live
    <3>2. CASE r \notin Items(mInflightRequests)
      <4>1. Items(mReleasedResources') = Items(mReleasedResources) \cup {r}
        BY <1>a, <2>1, <3>2, ReleasedIsHeld
      <4>2. QED
        BY <1>0, <2>1, <4>1 DEF Live
    <3>3. QED
      BY <3>1, <3>2
  <2>4. QED
    BY <1>0, <1>a, <2>2, <2>3, RecordImplements
<1>3. ASSUME NEW r \in Resources, MapAsync(r) PROVE Resource!AbsNext
  <2>1. Items(mInflightRequests') = Items(mInflightRequests) \cup {r}
    BY <1>3, ItemsEnqueue DEF MapAsync
  <2>2. Live \subseteq Live' /\ Retired' = Retired /\ Recorded' = Recorded /\ Batches' = Batches
    BY <1>0, <1>3, <2>1, WorkFrame DEF MapAsync, Live, Recorded, Batches
  <2>3. QED
    BY <1>0, <1>a, <2>2, RecordImplements
<1>4. ASSUME NEW r \in Resources, NEW upload \in Resources, SetSubData(r, upload)
      PROVE  Resource!AbsNext
  <2>1. /\ r \in appRefs /\ upload \notin Live /\ RecordPending({r, upload})
        /\ mReleasedResources' = Released({upload})
        /\ UNCHANGED <<mInflightRequests, appRefs>>
    BY <1>4 DEF SetSubData
  <2>2. Items(mReleasedResources') = Items(mReleasedResources) \cup {upload}
    BY <1>a, <2>1, ReleasedIsHeld
  <2>3. Live' = Live \cup {upload} /\ Retired' = Retired \cup {upload}
    BY <1>0, <2>1, <2>2 DEF Live
  <2>4. {r, upload} \in SUBSET Resources /\ {r, upload} \subseteq Live' \ Retired
    BY <1>0, <2>1, <2>3 DEF Live, ReleaseInv
  <2>5. mPendingCommands'.uses = mPendingCommands.uses \cup {r, upload}
    <3>1. CASE IsOpen
      BY <2>1, <3>1 DEF RecordPending, TypeOK
    <3>2. CASE ~IsOpen
      BY <2>1, <3>2 DEF RecordPending, PhaseInv, Closed
    <3>3. QED
      BY <3>1, <3>2
  <2>6. Recorded' = Recorded \cup {r, upload}
    BY <2>5, FramesAssumption DEF Recorded
  <2>7. Batches' = Batches
    BY <1>4, WorkFrame DEF SetSubData, Batches
  <2>8. QED
    BY <1>0, <2>3, <2>4, <2>6, <2>7, RecordImplements
<1>5. CASE QueueSubmit \/ GetNextTexture
  <2>1. UNCHANGED <<bufferVars, mPendingCommands, gpuQueue>>
    BY <1>5 DEF QueueSubmit, BeginTick, GetNextTexture
  <2>2. QED
    BY <2>1, WorkFrame DEF Resource!absVars, Live, Retired, Recorded, Batches
<1>6. CASE Present
  <2>1. PICK list \in Lists : PresentsWith(list) /\ list # Closed
    BY <1>6, PresentList
  <2>2. MovesOn(list, {}) /\ mPendingCommands' = Closed /\ UNCHANGED bufferVars
    BY <1>6, <2>1 DEF Present, PresentsWith, MovesOn
  <2>3. list.uses \ Frames = Recorded
    <3>1. CASE IsOpen
      BY <2>1, <3>1 DEF PresentsWith, TypeOK, Recorded
    <3>2. CASE ~IsOpen
      BY <2>1, <3>2 DEF PresentsWith, TypeOK, Recorded, PhaseInv, Closed
    <3>3. QED
      BY <3>1, <3>2
  <2>4. (UNION {l.uses : l \in {} \cup ({list} \ {Closed})}) \ Frames = Recorded \cup {}
    BY <2>1, <2>3
  <2>5. Live' = Live /\ Retired' = Retired /\ Recorded' = {}
    BY <2>2 DEF Live, Retired, Recorded, Closed
  <2>6. {} \cup ({list} \ {Closed}) # {} /\ {} \in SUBSET Lists
    BY <2>1
  <2>7. QED
    BY <1>0, <1>a, <2>2, <2>4, <2>5, <2>6, SubmitImplements
<1>7. QED
  BY <1>1, <1>2, <1>3, <1>4, <1>5, <1>6 DEF Api

(* Queue::Submit implements Submit. *)
LEMMA SubmissionImplements ==
  ASSUME TypeOK, PhaseInv, QueueInv, ReleaseInv, Promised, Promised',
         NEW uses \in SUBSET (appRefs \cup (IF acquired THEN {mCurrentBuffer} ELSE {})),
         SubmitLists(uses)
  PROVE  Resource!AbsNext
<1>0. /\ Live \subseteq Resources /\ Retired = Items(mReleasedResources) /\ (Retired \subseteq Live)'
      /\ mPendingCommands \in Lists \cup {Closed}
  BY PendingList DEF Promised
<1>1. PICK a \in Allocators :
        gpuQueue' = Append(Executed(mPendingCommands, {[allocator |-> a, uses |-> uses]}),
                           Signal(mSerial))
  BY DEF SubmitLists
<1> DEFINE list == [allocator |-> a, uses |-> uses]
           all == {list} \cup ({mPendingCommands} \ {Closed})
           U == uses \ Frames
<1>2. {list} \in SUBSET Lists /\ list.uses = uses /\ list \in all
  BY DEF Lists, TypeOK, Used
<1>3. /\ MovesOn(mPendingCommands, {list}) /\ mPendingCommands' = Closed
      /\ UNCHANGED bufferVars
  BY <1>1 DEF SubmitLists, MovesOn
<1>4. U \in SUBSET Resources /\ U \subseteq Live \ Retired
  <2>1. U \subseteq appRefs
    BY DEF TypeOK
  <2>2. appRefs \cap Items(mReleasedResources) = {}
    BY DEF ReleaseInv
  <2>3. QED
    BY <1>0, <2>1, <2>2 DEF Live
<1>5. (UNION {l.uses : l \in all}) \ Frames = Recorded \cup U
  <2> HIDE DEF list
  <2>1. CASE mPendingCommands = Closed
    BY <1>2, <2>1 DEF Recorded, Closed
  <2>2. CASE mPendingCommands # Closed
    <3>1. UNION {l.uses : l \in all} = uses \cup mPendingCommands.uses
      BY <1>2, <2>2
    <3>2. QED
      BY <3>1 DEF Recorded
  <2>3. QED
    BY <2>1, <2>2
<1>6. Live' = Live /\ Retired' = Retired /\ Recorded' = {}
  BY <1>3 DEF bufferVars, Live, Retired, Recorded, Closed
<1>7. all # {}
  BY <1>2
<1> HIDE DEF list, U
<1>8. QED
  BY <1>0, <1>2, <1>3, <1>4, <1>5, <1>6, <1>7, SubmitImplements

(* The end of a TickImpl implements Submit, or Record with no list open. *)
LEMMA FinishTickImplements ==
  ASSUME TypeOK, PhaseInv, QueueInv, ReleaseInv, Promised, Promised', FinishTick
  PROVE  Resource!AbsNext
<1> DEFINE cleared == UpTo(mInflightRequests, lastCompletedSerial)
           left == mInflightRequests \ cleared
           gone == Items(cleared) \ (appRefs \cup Items(left))
<1>0. /\ Live \subseteq Resources /\ Retired = Items(mReleasedResources)
      /\ (Live \subseteq Resources)' /\ Retired' = Items(mReleasedResources')
      /\ (Retired \subseteq Live)'
      /\ mPendingCommands \in Lists \cup {Closed}
  BY PendingList DEF Promised
<1>a. {} \in SUBSET Resources /\ {} \in SUBSET Lists /\ mSerial \in Nat
  BY DEF TypeOK
<1>1. /\ mInflightRequests' = left /\ mReleasedResources' = Released(gone)
      /\ MovesOn(mPendingCommands, {}) /\ mPendingCommands' = Closed
      /\ appRefs' = appRefs
  BY DEF FinishTick, MovesOn
<1>2. Items(mInflightRequests) = Items(cleared) \cup Items(left)
  BY ItemsClear DEF ClearUpTo
<1> HIDE DEF cleared, left
<1>3. Items(mReleasedResources') = Items(mReleasedResources) \cup gone
  <2> HIDE DEF gone
  <2>1. QED
    BY <1>a, <1>1, ReleasedIsHeld
<1>4. Live' = Live
  BY <1>1, <1>2, <1>3 DEF Live
<1>5. Retired \subseteq Retired'
  BY <1>0, <1>3
<1>6. Recorded' = {}
  BY <1>1 DEF Recorded, Closed
<1>7. CASE mPendingCommands = Closed
  <2>1. Recorded = {}
    BY <1>7 DEF Recorded, Closed
  <2>2. Work' = Work \cup AddedWork(mPendingCommands, {})
    BY <1>0, <1>a, <1>1, WorkFrame
  <2>3. Batches' = Batches
    BY <1>7, <2>2 DEF AddedWork, Batches
  <2>4. QED
    BY <1>0, <1>a, <1>4, <1>5, <1>6, <2>1, <2>3, RecordImplements
<1>8. CASE mPendingCommands # Closed
  <2>1. (UNION {l.uses : l \in {} \cup ({mPendingCommands} \ {Closed})}) \ Frames
          = Recorded \cup {}
    BY <1>8 DEF Recorded
  <2>2. {} \cup ({mPendingCommands} \ {Closed}) # {}
    BY <1>8
  <2>3. QED
    BY <1>0, <1>a, <1>1, <1>4, <1>5, <1>6, <2>1, <2>2, SubmitImplements
<1>9. QED
  BY <1>7, <1>8

(* The device keeps the promise of GpuResources, if it is not destroyed     *)
(* while commands are being recorded.                                       *)
THEOREM ResourceRefinement == ~AbandonRecording => (Spec => ImplementsGpuResources)
<1> SUFFICES ASSUME ~AbandonRecording PROVE Spec => ImplementsGpuResources
  OBVIOUS
<1>1. Orderly
  BY DEF Orderly
<1> DEFINE Inv == TypeOK /\ PhaseInv /\ QueueInv /\ ReleaseInv /\ Promised
<1>2. IndInv /\ TypeOK => Inv
  BY <1>1, AbstractState DEF IndInv
<1>3. Spec => []Inv
  BY <1>2, TypeCorrect, Inductive, PTL
<1>4. Init => Resource!AbsInit
  <2> SUFFICES ASSUME Init PROVE Resource!AbsInit
    OBVIOUS
  <2>1. Work = {}
    <3>1. gpuQueue = <<>> /\ DOMAIN gpuQueue = {}
      BY EmptySeq DEF Init
    <3>2. QED
      BY <3>1 DEF Work, WorkOf
  <2>2. QED
    BY <2>1 DEF Init, Resource!AbsInit, Live, Retired, Items, Recorded, Batches, Closed
<1>5. Inv /\ Inv' /\ [Next]_vars => [Resource!AbsNext]_(Resource!absVars)
  <2> SUFFICES ASSUME Inv, Inv', [Next]_vars
               PROVE  [Resource!AbsNext]_(Resource!absVars)
    OBVIOUS
  <2>1. CASE UNCHANGED <<bufferVars, mPendingCommands, gpuQueue>>
    BY <2>1, WorkFrame DEF Resource!absVars, bufferVars, Live, Retired, Recorded, Batches
  <2>2. CASE DestroyDevice
    <3>1. MovesOn(Closed, {}) /\ UNCHANGED <<bufferVars, mPendingCommands>>
      BY <2>2 DEF DestroyDevice, MovesOn, Executed
    <3>2. AddedWork(Closed, {}) = {}
      BY DEF AddedWork
    <3>3. Work' = Work
      BY <3>1, <3>2, WorkFrame
    <3>4. QED
      BY <3>1, <3>3 DEF Resource!absVars, bufferVars, Live, Retired, Recorded, Batches
  <2>3. CASE Api
    BY <2>3, ApiImplements
  <2>4. CASE Submission
    BY <2>4, SubmissionImplements DEF Submission
  <2>5. CASE FreeCompleted
    BY <2>5, DestroyImplements
  <2>6. CASE FinishTick
    BY <2>6, FinishTickImplements
  <2>7. CASE GpuStep
    BY <2>7, FinishImplements
  <2>8. QED
    BY <2>1, <2>2, <2>3, <2>4, <2>5, <2>6, <2>7
       DEF Next, Tick, TickStep, LastSignalPassed, BeginTick, FireMapCallback,
           CallbackReturns, Terminated, vars
<1>6. QED
  BY <1>3, <1>4, <1>5, PTL DEF Spec, ImplementsGpuResources, Resource!AbsSpec
=============================================================================
