-------------------------- MODULE Containers_proofs --------------------------
(* Theorems about DescriptorHeaps, for any bind groups, render passes,     *)
(* pipelines and sizes of heaps; about SerialQueueStorage, for any serials *)
(* and any number of items; and about ErrorHandling, for any calls.        *)
EXTENDS DescriptorHeaps, SerialQueueStorage, ErrorHandling, TLAPS, FiniteSetTheorems,
        SequenceTheorems, WellFoundedInduction

(* What a heap may hold.                                                   *)
Descriptor ==
  {Garbage} \cup {<<type, g, k>> : type \in BindingTypes, g \in BindGroups, k \in Nat}
            \cup {<<"color", n, k>> : n \in Nat, k \in Nat}
            \cup {<<"depth", n>> : n \in Nat}
Pools == {"cpu", "gpu"} \X HeapTypes
Info == [heap : Nat, size : Nat, remaining : Nat]

(* The allocator: a pool hands out the end of its heap, which is its own.  *)
Sound(a) ==
  /\ a = [heaps |-> a.heaps, infos |-> a.infos, released |-> a.released, handle |-> a.handle]
  /\ a.heaps \in Seq(UNION {[0..n - 1 -> Descriptor] : n \in Nat})
  /\ a.infos \in [Pools -> Info]
  /\ \A p \in Pools :
       /\ a.infos[p].heap \in 0..Len(a.heaps)
       /\ a.infos[p].remaining <= a.infos[p].size
       /\ a.infos[p].heap = 0 => a.infos[p].size = 0
       /\ a.infos[p].heap # 0 => DOMAIN a.heaps[a.infos[p].heap] = 0..a.infos[p].size - 1
  /\ \A p, q \in Pools : p # q /\ a.infos[p].heap = a.infos[q].heap => a.infos[p].heap = 0

(* Descriptors are where they were recorded, in a part of the heap that    *)
(* its pool has handed out.                                                *)
Intact(a, handle, descriptors) ==
  /\ handle = [heap |-> handle.heap, offset |-> handle.offset]
  /\ handle.heap \in 1..Len(a.heaps) /\ handle.offset \in Nat
  /\ \A k \in 1..Len(descriptors) :
       /\ handle.offset + k - 1 \in DOMAIN a.heaps[handle.heap]
       /\ a.heaps[handle.heap][handle.offset + k - 1] = descriptors[k]
  /\ \A p \in Pools : a.infos[p].heap = handle.heap =>
       handle.offset + Len(descriptors) <= a.infos[p].size - a.infos[p].remaining

(* What an operation on the allocator may do to what was handed out: it    *)
(* stays where it is, and nothing that was released is forgotten.          *)
Extends(b, a) ==
  /\ \A handle, descriptors :
       descriptors \in Seq(Descriptor) /\ Intact(a, handle, descriptors) =>
         Intact(b, handle, descriptors)
  /\ a.released \subseteq b.released

(* A region that has just been handed out, in which nothing is yet: what   *)
(* is intact is elsewhere.                                                 *)
Handed(b, a, count) ==
  /\ Sound(b) /\ Extends(b, a)
  /\ b.handle = [heap |-> b.handle.heap, offset |-> b.handle.offset]
  /\ b.handle.heap \in 1..Len(b.heaps) /\ b.handle.offset \in Nat
  /\ \A i \in 0..count - 1 : b.handle.offset + i \in DOMAIN b.heaps[b.handle.heap]
  /\ \A p \in Pools : b.infos[p].heap = b.handle.heap =>
       b.handle.offset + count <= b.infos[p].size - b.infos[p].remaining
  /\ [item |-> b.handle.heap, serial |-> mSerial] \in b.released
  /\ \A handle, descriptors :
       /\ descriptors \in Seq(Descriptor) /\ Intact(a, handle, descriptors)
       /\ handle.heap = b.handle.heap
       => handle.offset + Len(descriptors) <= b.handle.offset

(* Allocate hands out a region of the pool's heap, or of a new one.        *)
LEMMA AllocateHands ==
  ASSUME NEW a, Sound(a), NEW pool \in Pools, NEW count \in Nat \ {0}, NEW allocationSize \in Nat,
         count <= allocationSize, allocationSize < Word
  PROVE  Handed(Allocate(a, pool, count, allocationSize), a, count)
<1> DEFINE info == a.infos[pool]
           b == Allocate(a, pool, count, allocationSize)
<1>1. /\ info \in Info /\ info.heap \in 0..Len(a.heaps) /\ info.remaining <= info.size
      /\ info.heap = 0 => info.size = 0
      /\ info.heap # 0 => DOMAIN a.heaps[info.heap] = 0..info.size - 1
      /\ Len(a.heaps) \in Nat
  BY DEF Sound
<1>2. CASE info.remaining >= count
  <2> DEFINE new == [info EXCEPT !.remaining = @ - count]
  <2>1. b = [heaps |-> a.heaps, infos |-> [a.infos EXCEPT ![pool] = new],
             released |-> a.released \cup {[item |-> info.heap, serial |-> mSerial]},
             handle |-> [heap |-> info.heap, offset |-> info.size - info.remaining]]
    <3>1. Enqueue(a.released, {info.heap}, ReleaseSerial)
            = a.released \cup {[item |-> info.heap, serial |-> mSerial]}
      BY DEF Enqueue, ReleaseSerial
    <3>2. QED
      BY <1>2, <3>1 DEF Allocate
  <2>2. /\ new \in Info /\ new.heap = info.heap /\ new.size = info.size
        /\ new.remaining = info.remaining - count /\ info.heap # 0
    BY <1>1, <1>2 DEF Info
  <2>3. /\ b.infos \in [Pools -> Info] /\ b.infos[pool] = new
        /\ \A p \in Pools : p # pool => b.infos[p] = a.infos[p]
        /\ b.heaps = a.heaps /\ b.handle.heap = info.heap
        /\ b.handle.offset = info.size - info.remaining
    BY <2>1, <2>2 DEF Sound
  <2> HIDE DEF new
  <2>4. Sound(b)
    <3>1. \A p \in Pools : b.infos[p].heap = a.infos[p].heap /\ b.infos[p].size = a.infos[p].size
            /\ b.infos[p].remaining <= a.infos[p].remaining
      <4>1. ASSUME NEW p \in Pools, p = pool
            PROVE  b.infos[p].heap = a.infos[p].heap /\ b.infos[p].size = a.infos[p].size
                   /\ b.infos[p].remaining <= a.infos[p].remaining
        BY <1>1, <2>2, <2>3, <4>1 DEF Info
      <4>2. \A p \in Pools : a.infos[p].remaining \in Nat
        BY DEF Sound, Info
      <4>3. QED
        BY <2>3, <4>1, <4>2
    <3>2. b = [heaps |-> b.heaps, infos |-> b.infos, released |-> b.released, handle |-> b.handle]
      BY <2>1
    <3> HIDE DEF b, info
    <3>3. \A p \in Pools : b.infos[p] \in Info /\ a.infos[p] \in Info
      BY <2>3 DEF Sound
    <3>4. \A p \in Pools : b.infos[p].remaining <= b.infos[p].size
      BY <3>1, <3>3 DEF Sound, Info
    <3>5. QED
      <4>1. \A p \in Pools : /\ b.infos[p].heap \in 0..Len(b.heaps)
                             /\ b.infos[p].heap = 0 => b.infos[p].size = 0
                             /\ b.infos[p].heap # 0 =>
                                  DOMAIN b.heaps[b.infos[p].heap] = 0..b.infos[p].size - 1
        BY <2>3, <3>1 DEF Sound
      <4>2. \A p, q \in Pools :
              p # q /\ b.infos[p].heap = b.infos[q].heap => b.infos[p].heap = 0
        BY <3>1 DEF Sound
      <4>3. QED
        BY <2>3, <3>2, <3>4, <4>1, <4>2 DEF Sound
  <2> HIDE DEF b, info
  <2>5. ASSUME NEW handle, NEW descriptors \in Seq(Descriptor), Intact(a, handle, descriptors)
        PROVE  /\ Intact(b, handle, descriptors)
               /\ handle.heap = info.heap =>
                    handle.offset + Len(descriptors) <= info.size - info.remaining
    <3>1. Len(descriptors) \in Nat /\ handle.offset \in Nat
      BY <2>5 DEF Intact
    <3>2. handle.heap = info.heap => handle.offset + Len(descriptors) <= info.size - info.remaining
      BY <2>5 DEF Intact, info
    <3>3. \A p \in Pools : b.infos[p].heap = handle.heap =>
            handle.offset + Len(descriptors) <= b.infos[p].size - b.infos[p].remaining
      <4>1. ASSUME NEW p \in Pools, p = pool, b.infos[p].heap = handle.heap
            PROVE  handle.offset + Len(descriptors) <= b.infos[p].size - b.infos[p].remaining
        <5>1. handle.offset + Len(descriptors) <= info.size - info.remaining
          BY <2>2, <2>3, <3>2, <4>1
        <5>2. b.infos[p].size = info.size /\ b.infos[p].remaining = info.remaining - count
          BY <2>2, <2>3, <4>1
        <5>3. QED
          BY <1>1, <3>1, <5>1, <5>2 DEF Info
      <4>2. QED
        BY <2>3, <2>5, <4>1 DEF Intact
    <3>4. QED
      BY <2>3, <2>5, <3>2, <3>3 DEF Intact
  <2>6. \A i \in 0..count - 1 : b.handle.offset + i \in DOMAIN b.heaps[b.handle.heap]
    BY <1>1, <1>2, <2>2, <2>3 DEF Info
  <2>7. \A p \in Pools : b.infos[p].heap = b.handle.heap =>
          b.handle.offset + count <= b.infos[p].size - b.infos[p].remaining
    <3>1. \A p \in Pools : b.infos[p].heap = info.heap => p = pool
      BY <2>2, <2>3, <2>4 DEF Sound
    <3>2. QED
      BY <1>1, <2>2, <2>3, <3>1 DEF Info
  <2>8. /\ a.released \subseteq b.released
        /\ [item |-> info.heap, serial |-> mSerial] \in b.released
        /\ b.handle = [heap |-> b.handle.heap, offset |-> b.handle.offset]
    BY <2>1
  <2>9. info.heap \in 1..Len(b.heaps) /\ info.size - info.remaining \in Nat
    BY <1>1, <2>2, <2>3 DEF Info
  <2>10. Extends(b, a)
    BY <1>1, <2>3, <2>5, <2>8 DEF Extends
  <2>11. Handed(b, a, count)
    BY <2>3, <2>4, <2>5, <2>6, <2>7, <2>8, <2>9, <2>10 DEF Handed
  <2>12. QED
    BY <2>11 DEF b
<1>3. CASE ~(info.remaining >= count)
  <2> DEFINE h == Len(a.heaps) + 1
             content == [i \in 0..allocationSize - 1 |-> Garbage]
             new == [heap |-> h, size |-> allocationSize, remaining |-> allocationSize - count]
  <2>0. (allocationSize - count) % Word = allocationSize - count
    BY SizesAssumption
  <2>1. b = [heaps |-> Append(a.heaps, content), infos |-> [a.infos EXCEPT ![pool] = new],
             released |-> a.released \cup {[item |-> h, serial |-> mSerial]},
             handle |-> [heap |-> h, offset |-> 0]]
    BY <1>3, <2>0 DEF Allocate, Enqueue, ReleaseSerial
  <2>2. content \in UNION {[0..n - 1 -> Descriptor] : n \in Nat}
    BY DEF Descriptor
  <2>3. /\ new \in Info /\ new.heap = h /\ new.size = allocationSize
        /\ new.remaining = allocationSize - count /\ DOMAIN content = 0..allocationSize - 1
    BY <1>1 DEF Info
  <2> HIDE DEF new, content
  <2>4. /\ b.infos \in [Pools -> Info] /\ b.infos[pool] = new
        /\ \A p \in Pools : p # pool => b.infos[p] = a.infos[p]
        /\ b.handle.heap = h /\ b.handle.offset = 0
    BY <2>1, <2>3 DEF Sound
  <2>5. /\ b.heaps \in Seq(UNION {[0..n - 1 -> Descriptor] : n \in Nat}) /\ Len(b.heaps) = h
        /\ b.heaps[h] = content /\ \A i \in 1..Len(a.heaps) : b.heaps[i] = a.heaps[i]
    BY <2>1, <2>2 DEF Sound
  <2>6. b = [heaps |-> b.heaps, infos |-> b.infos, released |-> b.released, handle |-> b.handle]
    BY <2>1
  <2>7. /\ a.released \subseteq b.released /\ [item |-> h, serial |-> mSerial] \in b.released
        /\ b.handle = [heap |-> b.handle.heap, offset |-> b.handle.offset]
    BY <2>1
  <2> HIDE DEF b, info
  <2>8. \A p \in Pools : /\ a.infos[p] \in Info /\ b.infos[p] \in Info
                         /\ a.infos[p].heap \in 0..Len(a.heaps)
                         /\ a.infos[p].heap # h
    BY <1>1, <2>4 DEF Sound
  <2>9. Sound(b)
    <3>1. \A p \in Pools :
            /\ b.infos[p].heap \in 0..Len(b.heaps)
            /\ b.infos[p].remaining <= b.infos[p].size
            /\ b.infos[p].heap = 0 => b.infos[p].size = 0
            /\ b.infos[p].heap # 0 => DOMAIN b.heaps[b.infos[p].heap] = 0..b.infos[p].size - 1
      <4>1. ASSUME NEW p \in Pools, p # pool
            PROVE  /\ b.infos[p].heap \in 0..Len(b.heaps)
                   /\ b.infos[p].remaining <= b.infos[p].size
                   /\ b.infos[p].heap = 0 => b.infos[p].size = 0
                   /\ b.infos[p].heap # 0 =>
                        DOMAIN b.heaps[b.infos[p].heap] = 0..b.infos[p].size - 1
        <5>1. /\ b.infos[p] = a.infos[p] /\ a.infos[p].heap \in 0..Len(a.heaps)
              /\ a.infos[p].remaining <= a.infos[p].size
              /\ a.infos[p].heap = 0 => a.infos[p].size = 0
              /\ a.infos[p].heap # 0 =>
                   DOMAIN a.heaps[a.infos[p].heap] = 0..a.infos[p].size - 1
          BY <2>4, <4>1 DEF Sound
        <5>2. a.infos[p].heap # 0 =>
                b.heaps[a.infos[p].heap] = a.heaps[a.infos[p].heap]
          BY <1>1, <2>5, <5>1, SMTT(30)
        <5>3. a.infos[p].heap \in 0..Len(b.heaps)
          BY <1>1, <2>5, <5>1
        <5>4. QED
          BY <5>1, <5>2, <5>3
      <4>2. allocationSize - count <= allocationSize
        OBVIOUS
      <4>3. QED
        <5>1. /\ b.infos[pool].heap = h /\ b.infos[pool].size = allocationSize
              /\ b.infos[pool].remaining <= allocationSize /\ Len(b.heaps) = h /\ h # 0
              /\ h \in 0..Len(b.heaps)
              /\ DOMAIN b.heaps[h] = 0..allocationSize - 1
          BY <1>1, <2>3, <2>4, <2>5, <4>2
        <5> HIDE DEF h
        <5>2. QED
          BY <4>1, <5>1
    <3>2. \A p, q \in Pools : p # q /\ b.infos[p].heap = b.infos[q].heap => b.infos[p].heap = 0
      BY <2>3, <2>4, <2>8 DEF Sound
    <3>3. QED
      BY <2>4, <2>5, <2>6, <3>1, <3>2 DEF Sound
  <2>10. ASSUME NEW handle, NEW descriptors \in Seq(Descriptor), Intact(a, handle, descriptors)
         PROVE  Intact(b, handle, descriptors) /\ handle.heap # h
    <3>1. handle.heap \in 1..Len(a.heaps) /\ handle.heap # h /\ handle.heap \in 1..Len(b.heaps)
      BY <1>1, <2>5, <2>10 DEF Intact
    <3>2. \A p \in Pools : b.infos[p].heap = handle.heap => b.infos[p] = a.infos[p]
      BY <2>3, <2>4, <3>1
    <3>3. b.heaps[handle.heap] = a.heaps[handle.heap]
      BY <2>5, <3>1
    <3>4. QED
      BY <2>10, <3>1, <3>2, <3>3 DEF Intact
  <2>11. \A i \in 0..count - 1 : b.handle.offset + i \in DOMAIN b.heaps[b.handle.heap]
    BY <2>3, <2>4, <2>5
  <2>12. \A p \in Pools : b.infos[p].heap = b.handle.heap =>
           b.handle.offset + count <= b.infos[p].size - b.infos[p].remaining
    BY <2>3, <2>4, <2>8
  <2>13. b.handle.heap \in 1..Len(b.heaps) /\ b.handle.offset \in Nat
    BY <1>1, <2>4, <2>5
  <2>14. Extends(b, a)
    BY <1>1, <2>5, <2>7, <2>10 DEF Extends
  <2>15. Handed(b, a, count)
    BY <2>4, <2>7, <2>9, <2>10, <2>11, <2>12, <2>13, <2>14 DEF Handed
  <2>16. QED
    BY <2>15 DEF b
<1>4. QED
  BY <1>2, <1>3

(* Nothing is handed out for no descriptors.                               *)
LEMMA AllocateNothing ==
  ASSUME NEW a, Sound(a), NEW pool \in Pools, NEW allocationSize
  PROVE  LET b == Allocate(a, pool, 0, allocationSize)
         IN Sound(b) /\ Extends(b, a) /\ b.released = a.released /\ b.handle = NullHandle
<1> DEFINE b == Allocate(a, pool, 0, allocationSize)
<1>1. b = [heaps |-> a.heaps, infos |-> a.infos, released |-> a.released, handle |-> NullHandle]
  BY DEF Allocate, Sound
<1>2. /\ b.heaps = a.heaps /\ b.infos = a.infos /\ b.released = a.released
      /\ b.handle = NullHandle
      /\ b = [heaps |-> b.heaps, infos |-> b.infos, released |-> b.released, handle |-> b.handle]
  BY <1>1
<1> HIDE DEF b
<1>3. Sound(b)
  BY <1>2 DEF Sound
<1>4. Extends(b, a)
  BY <1>2 DEF Extends, Intact
<1>5. QED
  BY <1>2, <1>3, <1>4 DEF b

(* What one operation leaves intact, the next one does too.                *)
LEMMA ExtendsTransitive ==
  ASSUME NEW a, NEW b, NEW c, Extends(b, a), Extends(c, b)
  PROVE  Extends(c, a)
BY DEF Extends

(* Where two regions lie: not one in the other.                            *)
Apart(handle, size, other, otherSize) ==
  handle.heap = other.heap =>
    handle.offset + size <= other.offset \/ other.offset + otherSize <= handle.offset

(* A part of what is intact is.                                            *)
LEMMA PartIsIntact ==
  ASSUME NEW a, Sound(a), NEW handle, NEW content \in Seq(Descriptor),
         Intact(a, handle, content), NEW from \in Nat, NEW part \in Seq(Descriptor),
         from + Len(part) <= Len(content),
         \A k \in 1..Len(part) : part[k] = content[from + k]
  PROVE  Intact(a, [heap |-> handle.heap, offset |-> handle.offset + from], part)
<1> DEFINE new == [heap |-> handle.heap, offset |-> handle.offset + from]
<1>1. /\ new = [heap |-> new.heap, offset |-> new.offset]
      /\ new.heap = handle.heap /\ new.offset = handle.offset + from
      /\ handle.heap \in 1..Len(a.heaps) /\ handle.offset \in Nat
      /\ Len(part) \in Nat /\ Len(content) \in Nat
  BY DEF Intact
<1> HIDE DEF new
<1>2. ASSUME NEW k \in 1..Len(part)
      PROVE  /\ new.offset + k - 1 \in DOMAIN a.heaps[new.heap]
             /\ a.heaps[new.heap][new.offset + k - 1] = part[k]
  <2>1. from + k \in 1..Len(content) /\ new.offset + k - 1 = handle.offset + (from + k) - 1
    <3>1. \A o, m, n \in Nat : k \in 1..n /\ from + n <= m =>
            from + k \in 1..m /\ o + from + k - 1 = o + (from + k) - 1
      OBVIOUS
    <3>2. QED
      BY <1>1, <3>1
  <2>2. /\ handle.offset + (from + k) - 1 \in DOMAIN a.heaps[handle.heap]
        /\ a.heaps[handle.heap][handle.offset + (from + k) - 1] = content[from + k]
    BY <2>1 DEF Intact
  <2>3. QED
    BY <1>1, <2>1, <2>2
<1>3. ASSUME NEW p \in Pools, a.infos[p].heap = new.heap
      PROVE  new.offset + Len(part) <= a.infos[p].size - a.infos[p].remaining
  <2>1. handle.offset + Len(content) <= a.infos[p].size - a.infos[p].remaining
    BY <1>1, <1>3 DEF Intact
  <2>2. a.infos[p].size \in Nat /\ a.infos[p].remaining \in Nat
    BY DEF Sound, Info
  <2>3. \A o, m, n, size, remaining \in Nat :
          o + m <= size - remaining /\ from + n <= m => o + from + n <= size - remaining
    OBVIOUS
  <2>4. QED
    BY <1>1, <2>1, <2>2, <2>3
<1>4. Intact(a, new, part)
  BY <1>1, <1>2, <1>3 DEF Intact
<1>5. QED
  BY <1>4 DEF new

(* Something is in a region that has been handed out, and what is intact   *)
(* is apart from it.                                                       *)
LEMMA HandedHolds ==
  ASSUME NEW a, NEW b, NEW count \in Nat, Handed(b, a, count)
  PROVE  /\ \E content \in Seq(Descriptor) :
              Len(content) = count /\ Intact(b, b.handle, content)
         /\ \A handle, descriptors :
              descriptors \in Seq(Descriptor) /\ Intact(a, handle, descriptors) =>
                Apart(handle, Len(descriptors), b.handle, count)
<1> DEFINE heap == b.heaps[b.handle.heap]
           content == [k \in 1..count |-> heap[b.handle.offset + k - 1]]
<1>1. /\ b.handle.offset \in Nat /\ b.handle.heap \in 1..Len(b.heaps)
      /\ b.heaps \in Seq(UNION {[0..n - 1 -> Descriptor] : n \in Nat})
  BY DEF Handed, Sound
<1>2. heap \in UNION {[0..n - 1 -> Descriptor] : n \in Nat}
  BY <1>1
<1>3. \A i \in DOMAIN heap : heap[i] \in Descriptor
  BY <1>2
<1>4. ASSUME NEW k \in 1..count
      PROVE  b.handle.offset + k - 1 \in DOMAIN heap
  <2>1. k - 1 \in 0..count - 1 /\ b.handle.offset + (k - 1) = b.handle.offset + k - 1
    BY <1>1
  <2>2. QED
    BY <2>1 DEF Handed
<1>5. content \in Seq(Descriptor) /\ Len(content) = count
  BY <1>3, <1>4
<1>6. \A k \in 1..count : content[k] = heap[b.handle.offset + k - 1]
  OBVIOUS
<1> HIDE DEF content
<1>7. Intact(b, b.handle, content)
  BY <1>1, <1>4, <1>5, <1>6 DEF Intact, Handed
<1>8. \A handle, descriptors :
        descriptors \in Seq(Descriptor) /\ Intact(a, handle, descriptors) =>
          Apart(handle, Len(descriptors), b.handle, count)
  BY DEF Handed, Apart
<1>9. QED
  BY <1>5, <1>7, <1>8

(* Writing into a region changes that part of what is in it, and nothing   *)
(* that is apart from it.                                                  *)
Overwritten(content, from, written) ==
  [k \in 1..Len(content) |->
     IF k \in from + 1..from + Len(written) THEN written[k - from] ELSE content[k]]
LEMMA WriteInto ==
  ASSUME NEW a, Sound(a), NEW handle, NEW content \in Seq(Descriptor),
         Intact(a, handle, content), NEW from \in Nat, NEW written \in Seq(Descriptor),
         from + Len(written) <= Len(content)
  PROVE  LET w == Write(a, handle, from, written)
         IN /\ Sound(w) /\ w.released = a.released /\ w.handle = a.handle
            /\ Intact(w, handle, Overwritten(content, from, written))
            /\ \A other, descriptors :
                 /\ descriptors \in Seq(Descriptor) /\ Intact(a, other, descriptors)
                 /\ Apart(other, Len(descriptors), handle, Len(content))
                 => Intact(w, other, descriptors)
<1> DEFINE w == Write(a, handle, from, written)
           h == handle.heap
           start == handle.offset + from
           heap == [i \in DOMAIN a.heaps[h] |->
                      IF i >= start /\ i < start + Len(written)
                      THEN written[i - start + 1] ELSE a.heaps[h][i]]
           new == Overwritten(content, from, written)
<1>1. /\ h \in 1..Len(a.heaps) /\ handle.offset \in Nat /\ start \in Nat
      /\ Len(written) \in Nat /\ Len(content) \in Nat
      /\ a.heaps \in Seq(UNION {[0..n - 1 -> Descriptor] : n \in Nat})
  BY DEF Intact, Sound
<1>2. PICK n \in Nat : a.heaps[h] \in [0..n - 1 -> Descriptor]
  <2>1. a.heaps[h] \in UNION {[0..n - 1 -> Descriptor] : n \in Nat}
    BY <1>1
  <2>2. QED
    BY <2>1
<1>3. heap \in [0..n - 1 -> Descriptor]
  <2>1. \A i \in 0..n - 1 : i >= start /\ i < start + Len(written) =>
          written[i - start + 1] \in Descriptor
    <3> HIDE DEF start
    <3>1. \A i \in 0..n - 1 : i >= start /\ i < start + Len(written) =>
            i - start + 1 \in 1..Len(written)
      BY <1>1
    <3>2. QED
      BY <1>1, <3>1
  <2>2. \A i \in 0..n - 1 : a.heaps[h][i] \in Descriptor
    BY <1>2
  <2>3. DOMAIN a.heaps[h] = 0..n - 1
    BY <1>2
  <2>4. QED
    BY <2>1, <2>2, <2>3
<1>4. w = [heaps |-> [a.heaps EXCEPT ![h] = heap], infos |-> a.infos,
           released |-> a.released, handle |-> a.handle]
  <2>1. a = [heaps |-> a.heaps, infos |-> a.infos, released |-> a.released, handle |-> a.handle]
    BY DEF Sound
  <2>2. w = [a EXCEPT !.heaps = [a.heaps EXCEPT ![h] = heap]]
    BY <1>1 DEF Write
  <2> HIDE DEF heap, w, h
  <2>3. QED
    BY <2>1, <2>2
<1>5. heap \in UNION {[0..m - 1 -> Descriptor] : m \in Nat}
  BY <1>3
<1>6. /\ DOMAIN heap = DOMAIN a.heaps[h] /\ DOMAIN heap \subseteq Int
      /\ \A i \in DOMAIN heap :
           heap[i] = IF i >= start /\ i < start + Len(written)
                     THEN written[i - start + 1] ELSE a.heaps[h][i]
  BY <1>2
<1> HIDE DEF heap
<1>7. /\ w.infos = a.infos /\ w.released = a.released /\ w.handle = a.handle
      /\ w.heaps = [a.heaps EXCEPT ![h] = heap]
      /\ w = [heaps |-> w.heaps, infos |-> w.infos, released |-> w.released, handle |-> w.handle]
  BY <1>4
<1> HIDE DEF w
<1>8. /\ w.heaps \in Seq(UNION {[0..m - 1 -> Descriptor] : m \in Nat})
      /\ Len(w.heaps) = Len(a.heaps) /\ w.heaps[h] = heap
      /\ \A i \in 1..Len(a.heaps) : i # h => w.heaps[i] = a.heaps[i]
      /\ \A i \in 1..Len(a.heaps) : DOMAIN w.heaps[i] = DOMAIN a.heaps[i]
  BY <1>1, <1>5, <1>6, <1>7, SMTT(30)
<1>9. Sound(w)
  <2>1. \A p \in Pools : a.infos[p].heap # 0 =>
          DOMAIN w.heaps[a.infos[p].heap] = DOMAIN a.heaps[a.infos[p].heap]
    <3>1. \A p \in Pools : a.infos[p].heap \in 0..Len(a.heaps)
      BY DEF Sound
    <3>2. Len(a.heaps) \in Nat /\ \A l \in Nat : \A i \in 0..l : i # 0 => i \in 1..l
      BY <1>1
    <3>3. \A i \in 1..Len(a.heaps) : DOMAIN w.heaps[i] = DOMAIN a.heaps[i]
      BY <1>8
    <3>4. QED
      BY <3>1, <3>2, <3>3
  <2>2. QED
    BY <1>7, <1>8, <2>1, SMTT(20) DEF Sound
<1>10. Intact(w, handle, new)
  <2>1. /\ Len(new) = Len(content) /\ \A k \in 1..Len(content) :
             new[k] = IF k \in from + 1..from + Len(written) THEN written[k - from] ELSE content[k]
    BY <1>1 DEF Overwritten
  <2> HIDE DEF new
  <2>2. ASSUME NEW k \in 1..Len(content)
        PROVE  /\ handle.offset + k - 1 \in DOMAIN w.heaps[h]
               /\ w.heaps[h][handle.offset + k - 1] = new[k]
    <3> DEFINE i == handle.offset + k - 1
    <3>1. i \in DOMAIN a.heaps[h] /\ a.heaps[h][i] = content[k]
      BY DEF Intact
    <3>2. /\ i >= start /\ i < start + Len(written) <=> k \in from + 1..from + Len(written)
          /\ i - start + 1 = k - from
      <4>1. \A o, m, c \in Nat : k \in 1..c =>
              /\ /\ o + k - 1 >= o + from /\ o + k - 1 < o + from + m
                 <=> k \in from + 1..from + m
              /\ o + k - 1 - (o + from) + 1 = k - from
        OBVIOUS
      <4>2. /\ handle.offset \in Nat /\ from \in Nat /\ Len(written) \in Nat
            /\ Len(content) \in Nat
        BY <1>1
      <4>3. QED
        BY <4>1, <4>2
    <3> HIDE DEF i
    <3>3. QED
      BY <1>6, <1>8, <2>1, <3>1, <3>2 DEF i
  <2>3. QED
    BY <1>1, <1>7, <1>8, <2>1, <2>2 DEF Intact
<1>11. ASSUME NEW other, NEW descriptors \in Seq(Descriptor), Intact(a, other, descriptors),
              Apart(other, Len(descriptors), handle, Len(content))
       PROVE  Intact(w, other, descriptors)
  <2>1. /\ other.heap \in 1..Len(a.heaps) /\ other.offset \in Nat /\ Len(descriptors) \in Nat
    BY <1>11 DEF Intact
  <2>2. ASSUME NEW k \in 1..Len(descriptors)
        PROVE  /\ other.offset + k - 1 \in DOMAIN w.heaps[other.heap]
               /\ w.heaps[other.heap][other.offset + k - 1] = descriptors[k]
    <3> DEFINE i == other.offset + k - 1
    <3>1. i \in DOMAIN a.heaps[other.heap] /\ a.heaps[other.heap][i] = descriptors[k]
      BY <1>11 DEF Intact
    <3>2. other.heap = h => ~(i >= start /\ i < start + Len(written))
      <4>1. \A o, m, c, d, e \in Nat :
              /\ k \in 1..e /\ from + m <= c
              /\ d + e <= o \/ o + c <= d
              => ~(d + k - 1 >= o + from /\ d + k - 1 < o + from + m)
        OBVIOUS
      <4>2. PICK o, m, c, d, e \in Nat :
              /\ o = handle.offset /\ m = Len(written) /\ c = Len(content)
              /\ d = other.offset /\ e = Len(descriptors)
        BY <1>1, <2>1
      <4>3. other.heap = h => d + e <= o \/ o + c <= d
        BY <1>11, <4>2 DEF Apart
      <4>4. k \in 1..e /\ from + m <= c
        BY <4>2
      <4>5. other.heap = h => ~(d + k - 1 >= o + from /\ d + k - 1 < o + from + m)
        BY <4>1, <4>3, <4>4
      <4>6. QED
        BY <4>2, <4>5
    <3> HIDE DEF i
    <3>3. QED
      BY <1>6, <1>8, <2>1, <3>1, <3>2 DEF i
  <2>3. QED
    BY <1>7, <1>8, <1>11, <2>1, <2>2 DEF Intact
<1>12. QED
  BY <1>7, <1>9, <1>10, <1>11 DEF w

(* Writing into a region that has been handed out fills it, and changes    *)
(* nothing that is intact.                                                 *)
LEMMA WriteFills ==
  ASSUME NEW a, NEW b, NEW count \in Nat, Handed(b, a, count),
         NEW written \in Seq(Descriptor), Len(written) <= count
  PROVE  LET w == Write(b, b.handle, 0, written)
         IN /\ Sound(w) /\ Extends(w, a) /\ Intact(w, b.handle, written)
            /\ w.handle = b.handle /\ w.released = b.released
<1> DEFINE w == Write(b, b.handle, 0, written)
<1>1. PICK content \in Seq(Descriptor) : Len(content) = count /\ Intact(b, b.handle, content)
  BY HandedHolds
<1>2. /\ Sound(b) /\ Extends(b, a) /\ b.handle.offset \in Nat
      /\ b.handle = [heap |-> b.handle.heap, offset |-> b.handle.offset]
  BY DEF Handed
<1> DEFINE new == Overwritten(content, 0, written)
<1>3. 0 \in Nat /\ Len(written) \in Nat /\ 0 + Len(written) <= Len(content)
  BY <1>1
<1>4. /\ Sound(w) /\ w.released = b.released /\ w.handle = b.handle /\ Intact(w, b.handle, new)
      /\ \A other, descriptors :
           /\ descriptors \in Seq(Descriptor) /\ Intact(b, other, descriptors)
           /\ Apart(other, Len(descriptors), b.handle, Len(content))
           => Intact(w, other, descriptors)
  BY ONLY <1>1, <1>2, <1>3, WriteInto, written \in Seq(Descriptor)
<1>5. /\ new \in Seq(Descriptor) /\ Len(new) = Len(content)
      /\ \A k \in 1..Len(written) : new[0 + k] = written[k]
  <2>1. \A k \in 1..Len(written) : k \in 1..Len(content) /\ k - 0 = k /\ 0 + k = k
    BY <1>3
  <2>2. \A k \in 1..Len(content) :
          (IF k \in 0 + 1..0 + Len(written) THEN written[k - 0] ELSE content[k]) \in Descriptor
    BY <1>3
  <2>3. QED
    BY <1>3, <2>1, <2>2 DEF Overwritten
<1> HIDE DEF w, new
<1>6. Intact(w, [heap |-> b.handle.heap, offset |-> b.handle.offset + 0], written)
  BY <1>3, <1>4, <1>5, PartIsIntact
<1>7. [heap |-> b.handle.heap, offset |-> b.handle.offset + 0] = b.handle
  BY <1>2
<1>8. ASSUME NEW other, NEW descriptors \in Seq(Descriptor), Intact(a, other, descriptors)
      PROVE  Intact(w, other, descriptors)
  <2>1. Intact(b, other, descriptors)
    BY <1>2, <1>8 DEF Extends
  <2>2. Apart(other, Len(descriptors), b.handle, Len(content))
    BY <1>1, <1>8, HandedHolds
  <2>3. QED
    BY <1>4, <2>1, <2>2
<1>9. Extends(w, a)
  BY <1>2, <1>4, <1>8 DEF Extends
<1>10. QED
  BY <1>4, <1>6, <1>7, <1>9 DEF w

(* Bindings are descriptors.                                               *)
LEMMA BindingsAreDescriptors ==
  ASSUME NEW g \in BindGroups, NEW type \in BindingTypes
  PROVE  /\ Bindings(g, type) \in Seq(Descriptor)
         /\ Len(Bindings(g, type)) = DescriptorCount[g][type]
<1>1. DescriptorCount[g][type] \in Nat
  BY SizesAssumption
<1>2. \A k \in Nat : <<type, g, k>> \in Descriptor
  BY DEF Descriptor
<1>3. QED
  BY <1>1, <1>2 DEF Bindings

(* What is intact is read.                                                 *)
LEMMA ReadIntact ==
  ASSUME NEW a, NEW handle, NEW descriptors \in Seq(Descriptor), Intact(a, handle, descriptors)
  PROVE  Read(a, handle, Len(descriptors)) = descriptors
<1>1. descriptors = [k \in 1..Len(descriptors) |-> descriptors[k]]
  OBVIOUS
<1>2. \A k \in 1..Len(descriptors) :
        (IF handle.offset + k - 1 \in DOMAIN a.heaps[handle.heap]
         THEN a.heaps[handle.heap][handle.offset + k - 1] ELSE Garbage) = descriptors[k]
  BY DEF Intact
<1>3. QED
  BY <1>1, <1>2 DEF Read

(* The descriptors of the bind groups so far, in the CPU heap of a type.   *)
InCpuHeap(a, type, content) ==
  /\ content \in Seq(Descriptor) /\ Len(content) = CpuHeapSize[type]
  /\ Intact(a, cpuHeap[type], content)
  /\ \A g \in bindGroups :
       /\ mHeapOffset[g][type] + DescriptorCount[g][type] <= descriptorIndex[type]
       /\ \A k \in 1..DescriptorCount[g][type] :
            content[mHeapOffset[g][type] + k] = <<type, g, k>>
GroupsType ==
  /\ mHeapOffset \in [BindGroups -> [BindingTypes -> Nat]]
  /\ descriptorIndex \in [BindingTypes -> Nat] /\ bindGroups \subseteq BindGroups

(* They end up in tables of the GPU heap.                                  *)
LEMMA TablesAreRecorded ==
  ASSUME NEW a, Sound(a), NEW type \in BindingTypes, GroupsType,
         descriptorIndex[type] <= CpuHeapSize[type], NEW content, InCpuHeap(a, type, content)
  PROVE  LET w == CopyToGPUHeap(a, type)
         IN /\ Sound(w) /\ Extends(w, a)
            /\ \A t \in Tables(w.handle, type) :
                 /\ t.descriptors \in Seq(Descriptor) /\ Intact(w, t.handle, t.descriptors)
                 /\ [item |-> t.handle.heap, serial |-> mSerial] \in w.released
<1> DEFINE count == descriptorIndex[type]
           gpu == AllocateGPUHeap(a, type, count)
           w == CopyToGPUHeap(a, type)
           copied == [k \in 1..count |-> content[k]]
<1>1. /\ count \in Nat /\ count <= GpuHeapSize[type] /\ CpuHeapSize[type] \in Nat
      /\ GpuHeapSize[type] \in Nat /\ GpuHeapSize[type] < Word
      /\ <<"gpu", type>> \in Pools
  BY SizesAssumption DEF Pools, HeapTypes, GroupsType
<1>2. /\ copied \in Seq(Descriptor) /\ Len(copied) = count
      /\ \A k \in 1..count : copied[k] = content[k]
  <2> HIDE DEF count
  <2>1. content \in Seq(Descriptor) /\ count \in Nat /\ count <= Len(content)
    BY <1>1 DEF InCpuHeap, count
  <2>2. \A k \in 1..count : content[k] \in Descriptor
    BY <2>1
  <2>3. QED
    BY <2>1, <2>2
<1>3. Read(a, cpuHeap[type], count) = copied
  <2>1. ASSUME NEW k \in 1..count
        PROVE  (IF cpuHeap[type].offset + k - 1 \in DOMAIN a.heaps[cpuHeap[type].heap]
                THEN a.heaps[cpuHeap[type].heap][cpuHeap[type].offset + k - 1]
                ELSE Garbage) = content[k]
    <3>1. k \in 1..Len(content)
      BY <1>1 DEF InCpuHeap
    <3>2. QED
      BY <3>1 DEF InCpuHeap, Intact
  <2>2. QED
    BY <2>1 DEF Read
<1>4. w = IF count = 0 THEN gpu ELSE Write(gpu, gpu.handle, 0, copied)
  BY <1>3 DEF CopyToGPUHeap
<1> HIDE DEF copied, w
<1>5. ASSUME NEW t \in Tables(w.handle, type)
      PROVE  \E g \in bindGroups :
               /\ DescriptorCount[g][type] > 0
               /\ t.handle = [heap |-> w.handle.heap,
                              offset |-> w.handle.offset + mHeapOffset[g][type]]
               /\ t.descriptors = Bindings(g, type)
  BY DEF Tables, Table
<1>6. CASE count = 0
  <2>1. gpu = Allocate(a, <<"gpu", type>>, 0, GpuHeapSize[type])
    BY <1>6 DEF AllocateGPUHeap
  <2>2. w = gpu
    BY <1>4, <1>6
  <2> HIDE DEF gpu
  <2>3. Sound(w) /\ Extends(w, a)
    BY <1>1, <2>1, <2>2, AllocateNothing
  <2>4. \A g \in bindGroups : ~(DescriptorCount[g][type] > 0)
    <3>1. \A g \in bindGroups : /\ mHeapOffset[g][type] \in Nat /\ DescriptorCount[g][type] \in Nat
                                /\ mHeapOffset[g][type] + DescriptorCount[g][type] <= 0
      BY <1>6, SizesAssumption DEF InCpuHeap, GroupsType
    <3>2. QED
      BY <3>1
  <2>5. QED
    BY <1>5, <2>3, <2>4 DEF w
<1>7. CASE count # 0
  <2>1. Handed(gpu, a, count)
    BY <1>1, <1>7, AllocateHands DEF AllocateGPUHeap
  <2>2. w = Write(gpu, gpu.handle, 0, copied)
    BY <1>4, <1>7
  <2> HIDE DEF gpu
  <2>3. /\ Sound(w) /\ Extends(w, a) /\ Intact(w, w.handle, copied)
        /\ w.handle = gpu.handle /\ w.released = gpu.released
    <3>1. Len(copied) <= count
      BY <1>1, <1>2
    <3>2. QED
      BY <1>1, <1>2, <2>1, <2>2, <3>1, WriteFills
  <2>4. [item |-> w.handle.heap, serial |-> mSerial] \in w.released
    BY <2>1, <2>3 DEF Handed
  <2>5. ASSUME NEW t \in Tables(w.handle, type)
        PROVE  /\ t.descriptors \in Seq(Descriptor) /\ Intact(w, t.handle, t.descriptors)
               /\ [item |-> t.handle.heap, serial |-> mSerial] \in w.released
    <3>1. PICK g \in bindGroups :
            /\ t.handle = [heap |-> w.handle.heap,
                           offset |-> w.handle.offset + mHeapOffset[g][type]]
            /\ t.descriptors = Bindings(g, type)
      BY <1>5
    <3>2. /\ mHeapOffset[g][type] \in Nat /\ g \in BindGroups
          /\ DescriptorCount[g][type] \in Nat
          /\ mHeapOffset[g][type] + DescriptorCount[g][type] <= count
          /\ \A k \in 1..DescriptorCount[g][type] :
               content[mHeapOffset[g][type] + k] = <<type, g, k>>
      BY SizesAssumption DEF InCpuHeap, GroupsType
    <3>3. Bindings(g, type) \in Seq(Descriptor) /\ Len(Bindings(g, type)) = DescriptorCount[g][type]
      BY <3>2, BindingsAreDescriptors
    <3>4. ASSUME NEW k \in 1..DescriptorCount[g][type]
          PROVE  Bindings(g, type)[k] = copied[mHeapOffset[g][type] + k]
      <4>1. mHeapOffset[g][type] + k \in 1..count
        BY <1>1, <3>2
      <4>2. QED
        BY <1>2, <3>2, <4>1 DEF Bindings
    <3>5. Intact(w, t.handle, Bindings(g, type))
      <4>1. /\ mHeapOffset[g][type] + Len(Bindings(g, type)) <= Len(copied)
            /\ \A k \in 1..Len(Bindings(g, type)) :
                 Bindings(g, type)[k] = copied[mHeapOffset[g][type] + k]
        BY <1>2, <3>2, <3>3, <3>4
      <4>2. Intact(w, [heap |-> w.handle.heap,
                       offset |-> w.handle.offset + mHeapOffset[g][type]], Bindings(g, type))
        BY ONLY <1>2, <2>3, <3>2, <3>3, <4>1, PartIsIntact
      <4>3. QED
        BY <3>1, <4>2
    <3>6. t.handle.heap = w.handle.heap
      BY <3>1
    <3>7. QED
      BY <2>4, <3>1, <3>3, <3>5, <3>6
  <2>6. QED
    BY <2>3, <2>5 DEF w
<1>8. QED
  BY <1>6, <1>7
(* The views of a render pass whose color attachments leave no slot out:   *)
(* the view of slot i is the i-th descriptor.                              *)
Colors(pass, n) == [k \in 1..n |-> <<"color", pass, k - 1>>]

(* WriteColors writes these views.                                         *)
LEMMA ColorsAreWritten ==
  ASSUME NEW a, NEW b, NEW n \in Nat, Handed(b, a, n), NEW pass \in Nat
  PROVE  /\ WriteColors(b, b.handle, pass, 0..n - 1) = Write(b, b.handle, 0, Colors(pass, n))
         /\ Colors(pass, n) \in Seq(Descriptor) /\ Len(Colors(pass, n)) = n
<1> DEFINE h == b.handle.heap
           start == b.handle.offset
<1>1. Colors(pass, n) \in Seq(Descriptor) /\ Len(Colors(pass, n)) = n
  <2>1. \A k \in 1..n : k - 1 \in Nat /\ <<"color", pass, k - 1>> \in Descriptor
    BY DEF Descriptor
  <2>2. QED
    BY <2>1 DEF Colors
<1>2. /\ b.heaps \in Seq(UNION {[0..m - 1 -> Descriptor] : m \in Nat}) /\ start \in Nat
      /\ h \in 1..Len(b.heaps)
  BY DEF Handed, Sound
<1>3. DOMAIN b.heaps[h] \subseteq Int
  <2>1. b.heaps[h] \in UNION {[0..m - 1 -> Descriptor] : m \in Nat}
    BY <1>2
  <2>2. PICK m \in Nat : b.heaps[h] \in [0..m - 1 -> Descriptor]
    BY <2>1
  <2>3. QED
    BY <2>2
<1>4. [i \in DOMAIN b.heaps[h] |->
         IF i - start \in 0..n - 1 THEN <<"color", pass, i - start>> ELSE b.heaps[h][i]]
      = [i \in DOMAIN b.heaps[h] |->
           IF i >= start + 0 /\ i < start + 0 + Len(Colors(pass, n))
           THEN Colors(pass, n)[i - (start + 0) + 1] ELSE b.heaps[h][i]]
  <2>1. ASSUME NEW i \in DOMAIN b.heaps[h]
        PROVE  /\ i - start \in 0..n - 1 <=> i >= start + 0 /\ i < start + 0 + n
               /\ i - start \in 0..n - 1 => /\ i - (start + 0) + 1 \in 1..n
                                            /\ i - (start + 0) + 1 - 1 = i - start
    <3>1. i \in Int /\ start \in Nat
      BY <1>2, <1>3
    <3> HIDE DEF start
    <3>2. QED
      BY <3>1
  <2>2. \A k \in 1..n : Colors(pass, n)[k] = <<"color", pass, k - 1>>
    BY DEF Colors
  <2>3. ASSUME NEW i \in DOMAIN b.heaps[h]
        PROVE  (IF i - start \in 0..n - 1
                THEN <<"color", pass, i - start>> ELSE b.heaps[h][i])
               = (IF i >= start + 0 /\ i < start + 0 + Len(Colors(pass, n))
                  THEN Colors(pass, n)[i - (start + 0) + 1] ELSE b.heaps[h][i])
    <3>1. CASE i - start \in 0..n - 1
      <4>1. Colors(pass, n)[i - (start + 0) + 1] = <<"color", pass, i - start>>
        <5> DEFINE k == i - (start + 0) + 1
        <5>1. k \in 1..n /\ k - 1 = i - start
          <6>1. i \in Int /\ start \in Nat
            BY <1>2, <1>3
          <6> HIDE DEF start
          <6>2. QED
            BY <3>1, <6>1
        <5> HIDE DEF k
        <5>2. Colors(pass, n)[k] = <<"color", pass, k - 1>>
          BY <2>2, <5>1
        <5>3. QED
          BY <5>1, <5>2 DEF k
      <4>2. QED
        BY <1>1, <2>1, <3>1, <4>1
    <3>2. CASE ~(i - start \in 0..n - 1)
      BY <1>1, <2>1, <3>2
    <3>3. QED
      BY <3>1, <3>2
  <2> HIDE DEF start
  <2>4. QED
    BY <2>3
<1>5. QED
  BY <1>1, <1>4 DEF WriteColors, Write

(* The heaps of a render pass hold the views of all of its attachments.    *)
LEMMA PassIsWritten ==
  ASSUME NEW a, Sound(a), NEW pass \in Nat, NEW mask, Cardinality(mask) \in Nat,
         Cardinality(mask) < Word, mask = 0..Cardinality(mask) - 1, NEW depth \in BOOLEAN
  PROVE  LET n == Cardinality(mask)
             rtv == AllocateCPUHeap(a, "rtv", n)
             colored == IF mask = {} THEN rtv ELSE WriteColors(rtv, rtv.handle, pass, mask)
             dsv == AllocateCPUHeap(colored, "dsv", IF depth THEN 1 ELSE 0)
             filled == IF depth THEN Write(dsv, dsv.handle, 0, <<<<"depth", pass>>>>) ELSE dsv
         IN /\ Sound(filled) /\ Extends(filled, a)
            /\ mask # {} => Intact(filled, rtv.handle, Colors(pass, n))
            /\ depth => Intact(filled, dsv.handle, <<<<"depth", pass>>>>)
<1> DEFINE n == Cardinality(mask)
           rtv == AllocateCPUHeap(a, "rtv", n)
           colored == IF mask = {} THEN rtv ELSE WriteColors(rtv, rtv.handle, pass, mask)
           dsv == AllocateCPUHeap(colored, "dsv", IF depth THEN 1 ELSE 0)
           view == <<<<"depth", pass>>>>
           filled == IF depth THEN Write(dsv, dsv.handle, 0, view) ELSE dsv
<1>1. <<"cpu", "rtv">> \in Pools /\ <<"cpu", "dsv">> \in Pools
  BY DEF Pools, HeapTypes
<1>2. mask = {} <=> n = 0
  <2> HIDE DEF n
  <2>1. n \in Nat /\ mask = 0..n - 1
    BY DEF n
  <2>2. QED
    BY <2>1
<1>3. /\ Sound(colored) /\ Extends(colored, a)
      /\ mask # {} => Intact(colored, rtv.handle, Colors(pass, n))
                      /\ Colors(pass, n) \in Seq(Descriptor)
  <2>1. CASE n = 0
    <3>1. rtv = Allocate(a, <<"cpu", "rtv">>, 0, 0) /\ colored = rtv
      BY <1>2, <2>1 DEF AllocateCPUHeap
    <3> HIDE DEF rtv, colored
    <3>2. Sound(rtv) /\ Extends(rtv, a)
      BY <1>1, <3>1, AllocateNothing
    <3>3. QED
      BY <1>2, <2>1, <3>1, <3>2
  <2>2. CASE n # 0
    <3>1. rtv = Allocate(a, <<"cpu", "rtv">>, n, n)
      BY DEF AllocateCPUHeap
    <3>2. colored = WriteColors(rtv, rtv.handle, pass, 0..n - 1)
      BY <1>2, <2>2
    <3>3. n \in Nat \ {0} /\ n <= n /\ n < Word
      BY <2>2
    <3> HIDE DEF rtv, colored, n
    <3>4. Handed(rtv, a, n)
      BY <1>1, <3>1, <3>3, AllocateHands
    <3>5. /\ colored = Write(rtv, rtv.handle, 0, Colors(pass, n))
          /\ Colors(pass, n) \in Seq(Descriptor) /\ Len(Colors(pass, n)) = n
      BY <3>2, <3>3, <3>4, ColorsAreWritten
    <3>6. Len(Colors(pass, n)) <= n
      BY <3>3, <3>5
    <3>7. QED
      BY <3>3, <3>4, <3>5, <3>6, WriteFills
  <2>3. QED
    BY <2>1, <2>2
<1> HIDE DEF rtv, colored, n
<1>4. CASE depth
  <2>1. dsv = Allocate(colored, <<"cpu", "dsv">>, 1, 1)
    BY <1>4 DEF AllocateCPUHeap
  <2>2. 1 \in Nat \ {0} /\ 1 <= 1 /\ 1 < Word
    BY SizesAssumption
  <2>3. filled = Write(dsv, dsv.handle, 0, view)
    BY <1>4
  <2>4. view \in Seq(Descriptor) /\ Len(view) <= 1
    BY DEF Descriptor
  <2> HIDE DEF dsv, filled, view
  <2>5. Handed(dsv, colored, 1)
    BY <1>1, <1>3, <2>1, <2>2, AllocateHands
  <2>6. Sound(filled) /\ Extends(filled, colored) /\ Intact(filled, dsv.handle, view)
    BY <2>2, <2>3, <2>4, <2>5, WriteFills
  <2>7. mask # {} => Intact(filled, rtv.handle, Colors(pass, n))
    BY <1>3, <2>6 DEF Extends
  <2>8. Extends(filled, a)
    BY <1>3, <2>6, ExtendsTransitive
  <2>9. QED
    BY <2>6, <2>7, <2>8 DEF dsv, filled, view, rtv, colored, n
<1>5. CASE ~depth
  <2>1. dsv = Allocate(colored, <<"cpu", "dsv">>, 0, 0)
    BY <1>5 DEF AllocateCPUHeap
  <2>2. filled = dsv
    BY <1>5
  <2> HIDE DEF dsv, filled
  <2>3. Sound(filled) /\ Extends(filled, colored)
    BY <1>1, <1>3, <2>1, <2>2, AllocateNothing
  <2>4. mask # {} => Intact(filled, rtv.handle, Colors(pass, n))
    BY <1>3, <2>3 DEF Extends
  <2>5. Extends(filled, a)
    BY <1>3, <2>3, ExtendsTransitive
  <2>6. QED
    BY <1>5, <2>3, <2>4, <2>5 DEF dsv, filled, view, rtv, colored, n
<1>6. QED
  BY <1>4, <1>5

-----------------------------------------------------------------------------
(* The serials, and what has been dropped when ~Device waits and ticks.    *)
Ending == pc = "waiting" \/ (pc \in {"tick", "callback"} /\ cont = "destroyed")
ClockInv ==
  /\ mSerial \in Nat /\ completed \in Nat /\ lastCompletedSerial \in Nat
  /\ lastCompletedSerial <= completed /\ completed < mSerial
  /\ pc \in {"app", "submit", "recording", "tick", "callback", "waiting",
             "destroyed"}
  /\ cont \in {"app", "submit", "destroyed"}
  /\ \A e \in mUsedComObjectRefs : e.serial \in Nat /\ e.serial <= mSerial
  /\ Ending => pipelines = {} /\ \A e \in mUsedComObjectRefs : e.serial < mSerial
  /\ pc = "tick" /\ cont = "destroyed" => completed >= mSerial - 1
  /\ pc = "callback" /\ cont = "destroyed" => lastCompletedSerial >= mSerial - 1
  /\ NothingIsKept

(* The tables of a submission are intact, and what it uses is released     *)
(* with its serial or later.                                               *)
Flies(s) ==
  /\ s.serial \in Nat /\ completed < s.serial /\ s.serial <= mSerial
  /\ s.pipeline \in pipelines
     \/ \E e \in mUsedComObjectRefs : e.item = s.pipeline /\ e.serial >= s.serial
TablesFly(s) ==
  \A t \in s.tables : /\ t.descriptors \in Seq(Descriptor)
                       /\ Intact(allocator, t.handle, t.descriptors)
                       /\ [item |-> t.handle.heap, serial |-> s.serial] \in mReleasedHandles
Viewed(pass) ==
  LET n == Cardinality(pass.mask)
  IN /\ pass.name \in Nat /\ n \in Nat /\ pass.mask = 0..n - 1
     /\ pass.mask # {} => Intact(allocator, pass.rtv, Colors(pass.name, n))
     /\ pass.depth => Intact(allocator, pass.dsv, <<<<"depth", pass.name>>>>)

(* What must stay intact.                                                  *)
Kept(handle, descriptors) ==
  \/ \E s \in gpuQueue : \E t \in s.tables :
       handle = t.handle /\ descriptors = t.descriptors
  \/ \E pass \in renderPasses :
       \/ /\ pass.mask # {} /\ handle = pass.rtv
          /\ descriptors = Colors(pass.name, Cardinality(pass.mask))
       \/ pass.depth /\ handle = pass.dsv /\ descriptors = <<<<"depth", pass.name>>>>

(* While a command buffer is recorded its CPU heaps hold the bindings of   *)
(* its groups, apart from everything that must stay intact.                *)
CpuInv ==
  /\ GroupsType /\ mHeapSerial \in [BindGroups -> Nat] /\ mSerial \in Nat
  /\ \A g \in bindGroups : mHeapSerial[g] = mSerial
  /\ pc # "recording" => bindGroups = {} /\ \A t \in BindingTypes : descriptorIndex[t] = 0
  /\ pc = "recording" =>
       /\ \A t \in BindingTypes :
            /\ descriptorIndex[t] <= CpuHeapSize[t]
            /\ \E content : InCpuHeap(allocator, t, content)
            /\ \A handle, descriptors : Kept(handle, descriptors) =>
                 Apart(handle, Len(descriptors), cpuHeap[t], CpuHeapSize[t])
       /\ Apart(cpuHeap["views"], CpuHeapSize["views"],
                cpuHeap["samplers"], CpuHeapSize["samplers"])

(* The inductive invariant.                                                *)
FlightInv == \A s \in gpuQueue : Flies(s)
HeapsInv == /\ Sound(allocator)
            /\ \A s \in gpuQueue : TablesFly(s)
            /\ \A pass \in renderPasses : Viewed(pass)
Inv == ClockInv /\ FlightInv /\ HeapsInv /\ CpuInv

(* The initial states satisfy it.                                          *)
LEMMA InvInit ==
  Init => Inv
<1> SUFFICES ASSUME Init PROVE Inv
  OBVIOUS
<1>1. ClockInv /\ FlightInv
  BY DEF Init, ClockInv, FlightInv, Ending, NothingIsKept
<1>2. Sound(allocator)
  <2>1. /\ allocator = [heaps |-> <<>>, infos |-> infos, released |-> {}, handle |-> NullHandle]
        /\ infos = [p \in Pools |-> [heap |-> 0, size |-> 0, remaining |-> 0]]
    BY DEF Init, allocator, Pools
  <2>2. infos \in [Pools -> Info] /\ \A p \in Pools : infos[p].heap = 0 /\ infos[p].size = 0
                                                    /\ infos[p].remaining = 0
    BY <2>1 DEF Info
  <2>3. QED
    BY <2>1, <2>2 DEF Sound
<1>3. CpuInv
  BY DEF Init, CpuInv, GroupsType
<1>4. QED
  BY <1>1, <1>2, <1>3 DEF Init, Inv, HeapsInv

(* No step breaks the order of the serials; ~Device has dropped its        *)
(* pipelines before the serial it waits for, so its tick empties the queue.*)
LEMMA ClockStep ==
  ASSUME Careful, ClockInv, [Next]_vars
  PROVE  ClockInv'
<1> USE DEF ClockInv, Ending, NothingIsKept
<1>1. ASSUME NEW pass \in RenderPasses, CreateRenderPass(pass.mask, pass.depth)
      PROVE  ClockInv'
  BY <1>1 DEF CreateRenderPass, InApp
<1>2. ASSUME NEW pass \in renderPasses, ReleaseRenderPass(pass)
      PROVE  ClockInv'
  BY <1>2 DEF ReleaseRenderPass, heapVars
<1>3. ASSUME NEW p \in pipelines, ReleasePipeline(p)
      PROVE  ClockInv'
  <2>1. /\ InApp /\ ~Ending
        /\ mUsedComObjectRefs' = mUsedComObjectRefs \cup {[item |-> p, serial |-> mSerial]}
        /\ UNCHANGED <<mSerial, completed, lastCompletedSerial, pc, cont>>
    BY <1>3 DEF ReleasePipeline, InApp, Enqueue, heapVars
  <2>2. \A e \in mUsedComObjectRefs' : e.serial \in Nat /\ e.serial <= mSerial
    BY <2>1
  <2>3. QED
    BY <2>1, <2>2 DEF InApp
<1>4. CASE Submit
  BY <1>4 DEF Submit, InApp, heapVars
<1>5. ASSUME BeginRecording \/ (\E g \in BindGroups : TrackSetBindGroup(g))
             \/ \E p \in Pipelines : RecordCommands(p)
      PROVE  ClockInv'
  BY <1>5 DEF BeginRecording, TrackSetBindGroup, RecordCommands
<1>6. CASE EndSubmit
  BY <1>6 DEF EndSubmit, NextSerial, heapVars
<1>7. CASE Tick
  BY <1>7 DEF Tick, InApp, heapVars
<1>8. CASE TickHeaps
  BY <1>8 DEF TickHeaps
<1>9. CASE FinishTick
  <2>1. /\ mUsedComObjectRefs' = {e \in mUsedComObjectRefs : ~(e.serial <= lastCompletedSerial)}
        /\ mSerial' = mSerial + 1 /\ pc = "callback" /\ pc' = cont
        /\ UNCHANGED <<completed, lastCompletedSerial, pipelines, cont>>
    BY <1>9 DEF FinishTick, ClearUpTo, UpTo, NextSerial, heapVars
  <2>2. cont = "destroyed" => mUsedComObjectRefs' = {}
    BY <2>1
  <2>3. QED
    BY <2>1, <2>2
<1>10. CASE DestroyDevice
  BY <1>10 DEF DestroyDevice, NextSerial, heapVars
<1>11. CASE LastSignalPassed
  BY <1>11 DEF LastSignalPassed, heapVars
<1>12. CASE GpuSignals
  BY <1>12 DEF GpuSignals, heapVars
<1>13. CASE UNCHANGED vars
  BY <1>13 DEF vars, heapVars
<1>14. QED
  BY <1>1, <1>2, <1>3, <1>4, <1>5, <1>6, <1>7, <1>8, <1>9, <1>10, <1>11, <1>12, <1>13 DEF Next

(* A submission that the GPU has not finished keeps its serial ahead of    *)
(* everything that is cleared.                                             *)
LEMMA FlightStep ==
  ASSUME Careful, ClockInv, FlightInv, [Next]_vars
  PROVE  FlightInv'
<1>1. ASSUME NEW p \in pipelines, ReleasePipeline(p)
      PROVE  FlightInv'
  <2>1. /\ mUsedComObjectRefs' = mUsedComObjectRefs \cup {[item |-> p, serial |-> mSerial]}
        /\ pipelines' = pipelines \ {p} /\ UNCHANGED <<mSerial, completed, gpuQueue>>
    BY <1>1 DEF ReleasePipeline, Enqueue
  <2>2. ASSUME NEW s \in gpuQueue
        PROVE  Flies(s)'
    <3>1. s.pipeline = p => /\ [item |-> p, serial |-> mSerial].item = s.pipeline
                            /\ [item |-> p, serial |-> mSerial].serial >= s.serial
      BY DEF ClockInv, FlightInv, Flies
    <3>2. QED
      BY <2>1, <3>1 DEF FlightInv, Flies
  <2>3. QED
    BY <2>1, <2>2 DEF FlightInv
<1>2. ASSUME NEW p \in Pipelines, RecordCommands(p)
      PROVE  FlightInv'
  <2>1. PICK tables : gpuQueue' = gpuQueue \cup
                        {[serial |-> mSerial, pipeline |-> p, tables |-> tables]}
    BY <1>2 DEF RecordCommands
  <2>2. p \in pipelines /\ UNCHANGED <<mSerial, completed, pipelines, mUsedComObjectRefs>>
    BY <1>2 DEF RecordCommands
  <2>3. \A s \in gpuQueue' : s \in gpuQueue \/ (s.serial = mSerial /\ s.pipeline = p)
    BY <2>1
  <2>4. QED
    BY <2>2, <2>3 DEF FlightInv, Flies, ClockInv
<1>3. CASE FinishTick
  <2>1. /\ mUsedComObjectRefs' = {e \in mUsedComObjectRefs : ~(e.serial <= lastCompletedSerial)}
        /\ mSerial' = mSerial + 1 /\ UNCHANGED <<completed, pipelines, gpuQueue>>
    BY <1>3 DEF FinishTick, ClearUpTo, UpTo, NextSerial
  <2>2. ASSUME NEW s \in gpuQueue
        PROVE  Flies(s)'
    <3>1. \A e \in mUsedComObjectRefs : e.serial >= s.serial => e \in mUsedComObjectRefs'
      BY <2>1 DEF FlightInv, Flies, ClockInv
    <3>2. QED
      BY <2>1, <3>1 DEF FlightInv, Flies, ClockInv
  <2>3. QED
    BY <2>1, <2>2 DEF FlightInv
<1>4. CASE GpuSignals
  BY <1>4 DEF GpuSignals, FlightInv, Flies, ClockInv
<1>5. CASE EndSubmit \/ DestroyDevice
  BY <1>5 DEF EndSubmit, DestroyDevice, NextSerial, FlightInv, Flies, ClockInv
<1>6. ASSUME UNCHANGED <<mSerial, completed, mUsedComObjectRefs, pipelines, gpuQueue>>
      PROVE  FlightInv'
  BY <1>6 DEF FlightInv, Flies
<1>7. QED
  BY <1>1, <1>2, <1>3, <1>4, <1>5, <1>6
  DEF Next, CreateRenderPass, ReleaseRenderPass, Submit, BeginRecording, TrackSetBindGroup, Tick,
      TickHeaps, LastSignalPassed, vars

(* What is intact in the allocator that is taken is.                       *)
LEMMA AllocatorBecomes ==
  ASSUME NEW w, Sound(w), TakeAllocator(w)
  PROVE  /\ Sound(allocator)' /\ mReleasedHandles' = w.released
         /\ \A handle, descriptors : Intact(w, handle, descriptors) =>
              Intact(allocator', handle, descriptors)
<1>1. /\ allocator' = [heaps |-> w.heaps, infos |-> w.infos, released |-> w.released,
                       handle |-> NullHandle]
      /\ mReleasedHandles' = w.released
  BY DEF TakeAllocator, allocator
<1>2. allocator'.heaps = w.heaps /\ allocator'.infos = w.infos
  BY <1>1
<1>3. Sound(allocator')
  BY <1>1, <1>2 DEF Sound
<1>4. \A handle, descriptors : Intact(w, handle, descriptors) =>
        Intact(allocator', handle, descriptors)
  BY <1>2 DEF Intact
<1>5. QED
  BY <1>1, <1>3, <1>4

(* An operation on the allocator that extends it keeps what is intact.     *)
LEMMA AllocatorTaken ==
  ASSUME NEW w, Sound(w), Extends(w, allocator), TakeAllocator(w)
  PROVE  /\ Sound(allocator)' /\ mReleasedHandles \subseteq mReleasedHandles'
         /\ mReleasedHandles' = w.released
         /\ \A handle, descriptors : Intact(w, handle, descriptors) =>
              Intact(allocator', handle, descriptors)
         /\ \A handle, descriptors :
              descriptors \in Seq(Descriptor) /\ Intact(allocator, handle, descriptors) =>
                Intact(allocator', handle, descriptors)
BY AllocatorBecomes DEF Extends, allocator

(* What must stay intact is.                                               *)
LEMMA KeptIsIntact ==
  ASSUME HeapsInv, NEW handle, NEW descriptors, Kept(handle, descriptors)
  PROVE  descriptors \in Seq(Descriptor) /\ Intact(allocator, handle, descriptors)
<1>1. ASSUME NEW pass \in renderPasses
      PROVE  /\ Viewed(pass)
             /\ Colors(pass.name, Cardinality(pass.mask)) \in Seq(Descriptor)
             /\ <<<<"depth", pass.name>>>> \in Seq(Descriptor)
  <2>1. Viewed(pass)
    BY DEF HeapsInv
  <2>2. /\ pass.name \in Nat /\ Cardinality(pass.mask) \in Nat
        /\ \A k \in 1..Cardinality(pass.mask) : <<"color", pass.name, k - 1>> \in Descriptor
        /\ <<"depth", pass.name>> \in Descriptor
    BY <2>1 DEF Viewed, Descriptor
  <2>3. QED
    BY <2>1, <2>2 DEF Colors
<1>2. QED
  BY <1>1 DEF Kept, HeapsInv, TablesFly, Viewed

(* What holds of tables and views as long as that stays intact.            *)
LEMMA HeldStays ==
  ASSUME HeapsInv, mReleasedHandles \subseteq mReleasedHandles',
         \A handle, descriptors :
           Kept(handle, descriptors) => Intact(allocator', handle, descriptors)
  PROVE  /\ \A s \in gpuQueue : TablesFly(s)'
         /\ \A pass \in renderPasses : Viewed(pass)'
<1>1. ASSUME NEW s \in gpuQueue
      PROVE  TablesFly(s)'
  <2>1. \A t \in s.tables : Kept(t.handle, t.descriptors)
    BY DEF Kept
  <2>2. QED
    BY <2>1 DEF HeapsInv, TablesFly
<1>2. ASSUME NEW pass \in renderPasses
      PROVE  Viewed(pass)'
  <2>1. /\ pass.mask # {} => Kept(pass.rtv, Colors(pass.name, Cardinality(pass.mask)))
        /\ pass.depth => Kept(pass.dsv, <<<<"depth", pass.name>>>>)
    BY DEF Kept
  <2>2. QED
    BY <2>1 DEF HeapsInv, Viewed
<1>3. QED
  BY <1>1, <1>2

(* What holds of tables and views after such an operation.                 *)
LEMMA HeldIsKept ==
  ASSUME HeapsInv, NEW w, Sound(w), Extends(w, allocator), TakeAllocator(w)
  PROVE  /\ \A s \in gpuQueue : TablesFly(s)'
         /\ \A pass \in renderPasses : Viewed(pass)'
<1>1. /\ mReleasedHandles \subseteq mReleasedHandles'
      /\ \A handle, descriptors :
           Kept(handle, descriptors) => Intact(allocator', handle, descriptors)
  BY AllocatorTaken, KeptIsIntact
<1>2. QED
  BY <1>1, HeldStays

(* Creating a render pass fills the views of its attachments in.           *)
LEMMA CreateRenderPassStep ==
  ASSUME Careful, HeapsInv, NEW pass \in RenderPasses, CreateRenderPass(pass.mask, pass.depth)
  PROVE  HeapsInv'
<1> DEFINE mask == pass.mask
           n == Cardinality(mask)
           name == Len(heaps)
           rtv == AllocateCPUHeap(allocator, "rtv", n)
           colored == IF mask = {} THEN rtv ELSE WriteColors(rtv, rtv.handle, name, mask)
           dsv == AllocateCPUHeap(colored, "dsv", IF pass.depth THEN 1 ELSE 0)
           filled == IF pass.depth THEN Write(dsv, dsv.handle, 0, <<<<"depth", name>>>>) ELSE dsv
           created == [name |-> name, mask |-> mask, depth |-> pass.depth,
                       rtv |-> rtv.handle, dsv |-> dsv.handle]
<1>1. /\ TakeAllocator(filled) /\ renderPasses' = renderPasses \cup {created}
      /\ mask = 0..n - 1 /\ gpuQueue' = gpuQueue
  BY DEF CreateRenderPass
<1>2. n \in Nat /\ n < Word /\ pass.depth \in BOOLEAN
  BY PassesAssumption, FS_CardinalityType
<1>3. Sound(allocator) /\ name \in Nat
  BY DEF HeapsInv, Sound, allocator
<1>4. /\ Sound(filled) /\ Extends(filled, allocator)
      /\ mask # {} => Intact(filled, rtv.handle, Colors(name, n))
      /\ pass.depth => Intact(filled, dsv.handle, <<<<"depth", name>>>>)
  <2> HIDE DEF mask, name
  <2>1. QED
    BY <1>1, <1>2, <1>3, PassIsWritten
<1>5. /\ created.name = name /\ created.mask = mask /\ created.depth = pass.depth
      /\ created.rtv = rtv.handle /\ created.dsv = dsv.handle
  OBVIOUS
<1> HIDE DEF mask, n, name, rtv, colored, dsv, filled, created
<1>6. /\ Sound(allocator)'
      /\ \A handle, descriptors : Intact(filled, handle, descriptors) =>
           Intact(allocator', handle, descriptors)
  BY <1>1, <1>4, AllocatorTaken
<1>7. ASSUME NEW new, new = created
      PROVE  Viewed(new)'
  BY <1>7, <1>1, <1>2, <1>3, <1>4, <1>5, <1>6 DEF Viewed, n
<1>8. /\ \A s \in gpuQueue : TablesFly(s)'
      /\ \A other \in renderPasses : Viewed(other)'
  BY <1>1, <1>4, HeldIsKept
<1>9. QED
  BY <1>1, <1>6, <1>7, <1>8 DEF HeapsInv
(* Overwriting the descriptors at the index with those of a group puts     *)
(* them there, and leaves the ones before them.                            *)
LEMMA OverwrittenRecords ==
  ASSUME NEW g \in BindGroups, NEW type \in BindingTypes, NEW content \in Seq(Descriptor),
         NEW index \in Nat, index + DescriptorCount[g][type] <= Len(content)
  PROVE  /\ Overwritten(content, index, Bindings(g, type)) \in Seq(Descriptor)
         /\ Len(Overwritten(content, index, Bindings(g, type))) = Len(content)
         /\ \A k \in 1..DescriptorCount[g][type] :
              Overwritten(content, index, Bindings(g, type))[index + k] = <<type, g, k>>
         /\ \A k \in 1..index : k <= Len(content) =>
              Overwritten(content, index, Bindings(g, type))[k] = content[k]
<1> DEFINE count == DescriptorCount[g][type]
           written == Bindings(g, type)
<1>1. written \in Seq(Descriptor) /\ Len(written) = count /\ count \in Nat /\ Len(content) \in Nat
  BY BindingsAreDescriptors, SizesAssumption
<1>2. \A k \in 1..count : written[k] = <<type, g, k>>
  BY DEF Bindings
<1> HIDE DEF written, count
<1>3. \A k \in 1..Len(content) :
        (IF k \in index + 1..index + Len(written) THEN written[k - index] ELSE content[k])
          \in Descriptor
  BY <1>1
<1>4. \A k \in 1..count : /\ index + k \in 1..Len(content) /\ (index + k) - index = k
                          /\ index + k \in index + 1..index + Len(written)
  BY <1>1 DEF count
<1>5. \A k \in 1..index : ~(k \in index + 1..index + Len(written))
  BY <1>1
<1>6. QED
  BY <1>1, <1>2, <1>3, <1>4, <1>5 DEF Overwritten, count, written

(* Recording a group puts its bindings in both CPU heaps, behind those of  *)
(* the groups before it, and touches no table in flight.                   *)
LEMMA TrackSetBindGroupStep ==
  ASSUME Careful, HeapsInv, CpuInv, NEW g \in BindGroups, TrackSetBindGroup(g)
  PROVE  HeapsInv' /\ CpuInv'
<1>1. CASE ~NeedsRecording(g)
  <2>1. /\ g \in bindGroups /\ UNCHANGED <<heaps, infos, mReleasedHandles, mHeapSerial, mHeapOffset,
                                           descriptorIndex>>
        /\ UNCHANGED <<mSerial, cpuHeap, renderPasses, gpuQueue, pc>>
    BY <1>1 DEF TrackSetBindGroup
  <2>2. bindGroups' = bindGroups /\ allocator' = allocator
    BY <2>1 DEF TrackSetBindGroup, allocator
  <2>3. HeapsInv'
    BY <2>1, <2>2 DEF HeapsInv, TablesFly, Viewed
  <2>4. CpuInv'
    <3>1. \A t, content : InCpuHeap(allocator, t, content) => InCpuHeap(allocator, t, content)'
      BY <2>1, <2>2 DEF InCpuHeap
    <3>2. \A handle, descriptors : Kept(handle, descriptors)' => Kept(handle, descriptors)
      BY <2>1 DEF Kept
    <3>3. QED
      BY <2>1, <2>2, <3>1, <3>2 DEF CpuInv, GroupsType
  <2>5. QED
    BY <2>3, <2>4
<1>2. CASE NeedsRecording(g)
  <2> DEFINE viewed == RecordDescriptors(allocator, g, "views")
             sampled == RecordDescriptors(viewed, g, "samplers")
             Views == cpuHeap["views"]
             Samplers == cpuHeap["samplers"]
  <2>1. /\ TakeAllocator(sampled) /\ bindGroups' = bindGroups \cup {g}
        /\ mHeapSerial' = [mHeapSerial EXCEPT ![g] = mSerial]
        /\ mHeapOffset' = [mHeapOffset EXCEPT ![g] = descriptorIndex]
        /\ descriptorIndex' = [t \in BindingTypes |-> descriptorIndex[t] + DescriptorCount[g][t]]
        /\ pc = "recording"
        /\ UNCHANGED <<mSerial, cpuHeap, renderPasses, gpuQueue, pc>>
    BY <1>2 DEF TrackSetBindGroup
  <2>2. /\ g \notin bindGroups /\ GroupsType /\ mHeapSerial \in [BindGroups -> Nat]
        /\ mSerial \in Nat /\ \A h \in bindGroups : mHeapSerial[h] = mSerial
    BY <1>2 DEF CpuInv, NeedsRecording
  <2>3. \A t \in BindingTypes : /\ descriptorIndex[t] \in Nat /\ DescriptorCount[g][t] \in Nat
                                /\ descriptorIndex[t] + DescriptorCount[g][t] <= CpuHeapSize[t]
    BY <2>2, SizesAssumption DEF TrackSetBindGroup, GroupsType
  <2>4. "views" \in BindingTypes /\ "samplers" \in BindingTypes
    BY DEF BindingTypes
  <2>5. PICK views, samplers :
          InCpuHeap(allocator, "views", views) /\ InCpuHeap(allocator, "samplers", samplers)
    BY <2>1, <2>4 DEF CpuInv
  <2>6. /\ views \in Seq(Descriptor) /\ Len(views) = CpuHeapSize["views"]
        /\ samplers \in Seq(Descriptor) /\ Len(samplers) = CpuHeapSize["samplers"]
        /\ Intact(allocator, Views, views) /\ Intact(allocator, Samplers, samplers)
        /\ Apart(Views, Len(views), Samplers, Len(samplers))
        /\ Apart(Samplers, Len(samplers), Views, Len(views))
        /\ Sound(allocator)
    BY <2>1, <2>5 DEF CpuInv, InCpuHeap, HeapsInv, Apart
  <2>7. \A h, d : Kept(h, d) => /\ d \in Seq(Descriptor) /\ Intact(allocator, h, d)
                                /\ Apart(h, Len(d), Views, Len(views))
                                /\ Apart(h, Len(d), Samplers, Len(samplers))
    BY <2>1, <2>4, <2>6, KeptIsIntact DEF CpuInv
  <2> DEFINE newViews == Overwritten(views, descriptorIndex["views"], Bindings(g, "views"))
             newSamplers ==
               Overwritten(samplers, descriptorIndex["samplers"], Bindings(g, "samplers"))
  <2>8. /\ Bindings(g, "views") \in Seq(Descriptor) /\ Bindings(g, "samplers") \in Seq(Descriptor)
        /\ descriptorIndex["views"] + Len(Bindings(g, "views")) <= Len(views)
        /\ descriptorIndex["samplers"] + Len(Bindings(g, "samplers")) <= Len(samplers)
    BY <2>3, <2>4, <2>6, BindingsAreDescriptors
  <2>9. /\ newViews \in Seq(Descriptor) /\ Len(newViews) = Len(views)
        /\ newSamplers \in Seq(Descriptor) /\ Len(newSamplers) = Len(samplers)
    BY <2>3, <2>4, <2>6, OverwrittenRecords
  <2>10. /\ viewed = Write(allocator, Views, descriptorIndex["views"], Bindings(g, "views"))
         /\ sampled = Write(viewed, Samplers, descriptorIndex["samplers"], Bindings(g, "samplers"))
    BY DEF RecordDescriptors
  <2> HIDE DEF newViews, newSamplers, viewed, sampled, Views, Samplers
  <2>11. /\ Sound(viewed) /\ viewed.released = allocator.released
         /\ Intact(viewed, Views, newViews) /\ Intact(viewed, Samplers, samplers)
         /\ \A h, d : Kept(h, d) => Intact(viewed, h, d)
    <3>1. descriptorIndex["views"] \in Nat
      BY <2>3, <2>4
    <3>2. /\ Sound(viewed) /\ viewed.released = allocator.released
          /\ viewed.handle = allocator.handle
          /\ Intact(viewed, Views, newViews)
          /\ \A h, d : /\ d \in Seq(Descriptor) /\ Intact(allocator, h, d)
                       /\ Apart(h, Len(d), Views, Len(views))
                       => Intact(viewed, h, d)
      BY <2>6, <2>8, <2>10, <3>1, WriteInto DEF newViews
    <3>3. QED
      BY <2>6, <2>7, <3>2
  <2>12. /\ Sound(sampled) /\ sampled.released = allocator.released
         /\ Intact(sampled, Views, newViews) /\ Intact(sampled, Samplers, newSamplers)
         /\ \A h, d : Kept(h, d) => Intact(sampled, h, d)
    <3>1. descriptorIndex["samplers"] \in Nat
      BY <2>3, <2>4
    <3>2. /\ Sound(sampled) /\ sampled.released = viewed.released
          /\ sampled.handle = viewed.handle
          /\ Intact(sampled, Samplers, newSamplers)
          /\ \A h, d : /\ d \in Seq(Descriptor) /\ Intact(viewed, h, d)
                       /\ Apart(h, Len(d), Samplers, Len(samplers))
                       => Intact(sampled, h, d)
      BY <2>6, <2>8, <2>10, <2>11, <3>1, WriteInto DEF newSamplers
    <3>3. QED
      BY <2>6, <2>7, <2>9, <2>11, <3>2
  <2>13. /\ Sound(allocator)' /\ mReleasedHandles' = sampled.released
         /\ \A h, d : Intact(sampled, h, d) => Intact(allocator', h, d)
    BY <2>1, <2>12, AllocatorBecomes
  <2>14. HeapsInv'
    <3>1. mReleasedHandles \subseteq mReleasedHandles'
      BY <2>12, <2>13 DEF allocator
    <3>2. /\ \A s \in gpuQueue : TablesFly(s)'
          /\ \A pass \in renderPasses : Viewed(pass)'
      BY <2>12, <2>13, <3>1, HeldStays
    <3>3. QED
      BY <2>1, <2>13, <3>2 DEF HeapsInv
  <2>15. /\ GroupsType' /\ mHeapSerial' \in [BindGroups -> Nat]
         /\ \A h \in bindGroups' : mHeapSerial'[h] = mSerial'
         /\ \A t \in BindingTypes : /\ descriptorIndex'[t] <= CpuHeapSize[t]
                                    /\ mHeapOffset'[g][t] = descriptorIndex[t]
                                    /\ descriptorIndex'[t]
                                         = descriptorIndex[t] + DescriptorCount[g][t]
         /\ \A h \in bindGroups : mHeapOffset'[h] = mHeapOffset[h]
    <3>1. descriptorIndex \in [BindingTypes -> Nat] /\ mHeapOffset \in [BindGroups -> [BindingTypes -> Nat]]
          /\ bindGroups \subseteq BindGroups
      BY <2>2 DEF GroupsType
    <3>2. descriptorIndex' \in [BindingTypes -> Nat]
      BY <2>1, <2>3
    <3>3. mHeapOffset' \in [BindGroups -> [BindingTypes -> Nat]]
      BY <2>1, <3>1
    <3>4. GroupsType'
      BY <2>1, <3>1, <3>2, <3>3 DEF GroupsType
    <3>5. mHeapSerial' \in [BindGroups -> Nat] /\ \A h \in bindGroups' : mHeapSerial'[h] = mSerial'
      BY <2>1, <2>2, <3>1
    <3>6. /\ mHeapOffset'[g] = descriptorIndex
          /\ \A h \in bindGroups : mHeapOffset'[h] = mHeapOffset[h]
      BY <2>1, <2>2, <3>1
    <3>7. QED
      BY <2>1, <2>3, <3>4, <3>5, <3>6
  <2>16. ASSUME NEW type \in BindingTypes, NEW content, InCpuHeap(allocator, type, content),
                NEW new, new = Overwritten(content, descriptorIndex[type], Bindings(g, type)),
                Intact(sampled, cpuHeap[type], new)
         PROVE  InCpuHeap(allocator, type, new)'
    <3> DEFINE index == descriptorIndex[type]
    <3>1. /\ index \in Nat /\ index + DescriptorCount[g][type] <= Len(content)
          /\ content \in Seq(Descriptor) /\ Len(content) = CpuHeapSize[type]
          /\ DescriptorCount[g][type] \in Nat /\ Len(content) \in Nat
      BY <2>3, <2>16 DEF InCpuHeap
    <3>2. /\ new \in Seq(Descriptor) /\ Len(new) = Len(content)
          /\ \A k \in 1..DescriptorCount[g][type] : new[index + k] = <<type, g, k>>
          /\ \A k \in 1..index : k <= Len(content) => new[k] = content[k]
      <4> HIDE DEF index
      <4>1. /\ Overwritten(content, index, Bindings(g, type)) \in Seq(Descriptor)
            /\ Len(Overwritten(content, index, Bindings(g, type))) = Len(content)
            /\ \A k \in 1..DescriptorCount[g][type] :
                 Overwritten(content, index, Bindings(g, type))[index + k] = <<type, g, k>>
            /\ \A k \in 1..index : k <= Len(content) =>
                 Overwritten(content, index, Bindings(g, type))[k] = content[k]
        BY <3>1, OverwrittenRecords
      <4>2. QED
        BY <2>16, <4>1 DEF index
    <3>3. Intact(allocator', cpuHeap[type], new)
      BY <2>13, <2>16
    <3>4. ASSUME NEW h \in bindGroups
          PROVE  /\ mHeapOffset[h][type] + DescriptorCount[h][type]
                      <= index + DescriptorCount[g][type]
                 /\ \A k \in 1..DescriptorCount[h][type] :
                      new[mHeapOffset[h][type] + k] = <<type, h, k>>
      <4>1. /\ mHeapOffset[h][type] \in Nat /\ DescriptorCount[h][type] \in Nat
            /\ mHeapOffset[h][type] + DescriptorCount[h][type] <= index
            /\ \A k \in 1..DescriptorCount[h][type] :
                 content[mHeapOffset[h][type] + k] = <<type, h, k>>
        BY <2>2, <2>16, SizesAssumption DEF InCpuHeap, GroupsType
      <4> HIDE DEF index
      <4>2. \A k \in 1..DescriptorCount[h][type] :
              mHeapOffset[h][type] + k \in 1..index /\ mHeapOffset[h][type] + k <= Len(content)
        <5>1. \A o, n, m, i, l \in Nat : \A k \in 1..n :
                o + n <= i /\ i + m <= l => o + k \in 1..i /\ o + k <= l
          OBVIOUS
        <5>2. QED
          BY <3>1, <4>1, <5>1
      <4>3. \A k \in 1..DescriptorCount[h][type] :
              new[mHeapOffset[h][type] + k] = <<type, h, k>>
        BY <3>2, <4>1, <4>2
      <4>4. \A o, n, m, i \in Nat : o + n <= i => o + n <= i + m
        OBVIOUS
      <4>5. QED
        BY <3>1, <4>1, <4>3, <4>4
    <3>5. ASSUME NEW h \in bindGroups'
          PROVE  /\ mHeapOffset'[h][type] + DescriptorCount[h][type] <= descriptorIndex'[type]
                 /\ \A k \in 1..DescriptorCount[h][type] :
                      new[mHeapOffset'[h][type] + k] = <<type, h, k>>
      <4>1. CASE h = g
        <5>1. /\ mHeapOffset'[h][type] = index
              /\ descriptorIndex'[type] = index + DescriptorCount[h][type]
          BY <2>15, <4>1
        <5> HIDE DEF index
        <5>2. mHeapOffset'[h][type] + DescriptorCount[h][type] <= descriptorIndex'[type]
          BY <3>1, <4>1, <5>1
        <5>3. QED
          BY <3>2, <4>1, <5>1, <5>2
      <4>2. CASE h \in bindGroups
        <5>1. /\ mHeapOffset'[h] = mHeapOffset[h]
              /\ descriptorIndex'[type] = index + DescriptorCount[g][type]
          BY <2>15, <4>2
        <5> HIDE DEF index
        <5>2. QED
          BY <3>4, <4>2, <5>1
      <4>3. QED
        BY <2>1, <4>1, <4>2
    <3>6. QED
      BY <2>1, <3>1, <3>2, <3>3, <3>5 DEF InCpuHeap
  <2>17. ASSUME NEW type \in BindingTypes
         PROVE  \E content : InCpuHeap(allocator, type, content)'
    <3>1. CASE type = "views"
      BY <2>5, <2>12, <2>16, <3>1 DEF newViews, Views
    <3>2. CASE type = "samplers"
      BY <2>5, <2>12, <2>16, <3>2 DEF newSamplers, Samplers
    <3>3. QED
      BY <3>1, <3>2 DEF BindingTypes
  <2>18. CpuInv'
    <3>1. \A h, d : Kept(h, d)' => Kept(h, d)
      BY <2>1 DEF Kept
    <3>2. \A t \in BindingTypes : \A h, d : Kept(h, d)' =>
            Apart(h, Len(d), cpuHeap'[t], CpuHeapSize[t])
      BY <2>1, <3>1 DEF CpuInv
    <3>3. Apart(cpuHeap'["views"], CpuHeapSize["views"], cpuHeap'["samplers"],
                CpuHeapSize["samplers"])
      BY <2>1 DEF CpuInv
    <3>4. QED
      BY <2>1, <2>2, <2>15, <2>17, <3>2, <3>3 DEF CpuInv
  <2>19. QED
    BY <2>14, <2>18
<1>3. QED
  BY <1>1, <1>2

(* The CPU heaps of a command buffer are apart from all there is.          *)
LEMMA BeginRecordingStep ==
  ASSUME HeapsInv, CpuInv, BeginRecording
  PROVE  HeapsInv' /\ CpuInv'
<1> DEFINE views == AllocateCPUHeap(allocator, "views", CpuHeapSize["views"])
           samplers == AllocateCPUHeap(views, "samplers", CpuHeapSize["samplers"])
<1>1. /\ TakeAllocator(samplers) /\ pc = "submit" /\ pc' = "recording"
      /\ cpuHeap' = [t \in BindingTypes |-> IF t = "views" THEN views.handle ELSE samplers.handle]
      /\ UNCHANGED <<mSerial, mHeapSerial, mHeapOffset, descriptorIndex, bindGroups,
                     renderPasses, gpuQueue>>
  BY DEF BeginRecording
<1>2. \A t \in BindingTypes : /\ CpuHeapSize[t] \in Nat \ {0} /\ CpuHeapSize[t] \in Nat
                              /\ CpuHeapSize[t] <= CpuHeapSize[t] /\ CpuHeapSize[t] < Word
  BY SizesAssumption
<1>3. /\ "views" \in BindingTypes /\ "samplers" \in BindingTypes
      /\ <<"cpu", "views">> \in Pools /\ <<"cpu", "samplers">> \in Pools
  BY DEF BindingTypes, Pools, HeapTypes
<1>4. cpuHeap'["views"] = views.handle /\ cpuHeap'["samplers"] = samplers.handle
  BY <1>1, <1>3
<1>5. Handed(views, allocator, CpuHeapSize["views"])
  BY <1>2, <1>3, AllocateHands DEF AllocateCPUHeap, HeapsInv
<1>6. Handed(samplers, views, CpuHeapSize["samplers"])
  <2>1. Sound(views)
    BY <1>5 DEF Handed
  <2> HIDE DEF views
  <2>2. QED
    BY <1>2, <1>3, <2>1, AllocateHands DEF AllocateCPUHeap
<1> HIDE DEF views, samplers
<1>7. /\ Sound(samplers) /\ Extends(views, allocator) /\ Extends(samplers, views)
      /\ Extends(samplers, allocator)
  BY <1>5, <1>6, ExtendsTransitive DEF Handed
<1>8. PICK inViews \in Seq(Descriptor) :
        Len(inViews) = CpuHeapSize["views"] /\ Intact(views, views.handle, inViews)
  BY <1>2, <1>3, <1>5, HandedHolds
<1>9. PICK inSamplers \in Seq(Descriptor) :
        Len(inSamplers) = CpuHeapSize["samplers"] /\ Intact(samplers, samplers.handle, inSamplers)
  BY <1>2, <1>3, <1>6, HandedHolds
<1>10. \A h, d : d \in Seq(Descriptor) /\ Intact(views, h, d) =>
         Apart(h, Len(d), samplers.handle, CpuHeapSize["samplers"])
  BY <1>2, <1>3, <1>6, HandedHolds
<1>11. \A h, d : d \in Seq(Descriptor) /\ Intact(allocator, h, d) =>
         Apart(h, Len(d), views.handle, CpuHeapSize["views"])
  BY <1>2, <1>3, <1>5, HandedHolds
<1>12. /\ Sound(allocator)'
       /\ \A h, d : Intact(samplers, h, d) => Intact(allocator', h, d)
  BY <1>1, <1>7, AllocatorTaken
<1>13. HeapsInv'
  BY <1>1, <1>7, <1>12, HeldIsKept DEF HeapsInv
<1>14. \A h, d : Kept(h, d)' => d \in Seq(Descriptor) /\ Intact(allocator, h, d)
  BY <1>1, KeptIsIntact DEF Kept
<1>15. bindGroups = {} /\ \A t \in BindingTypes : descriptorIndex[t] = 0
  BY <1>1 DEF CpuInv
<1>16. ASSUME NEW type \in BindingTypes
       PROVE  /\ \E content : InCpuHeap(allocator, type, content)'
              /\ \A h, d : Kept(h, d)' => Apart(h, Len(d), cpuHeap'[type], CpuHeapSize[type])
              /\ descriptorIndex'[type] <= CpuHeapSize[type]
  <2>1. CASE type = "views"
    <3>1. Intact(allocator', cpuHeap'["views"], inViews)
      BY <1>4, <1>7, <1>8, <1>12 DEF Extends
    <3>2. InCpuHeap(allocator, type, inViews)'
      BY <1>1, <1>8, <1>15, <2>1, <3>1 DEF InCpuHeap
    <3>3. QED
      BY <1>1, <1>2, <1>4, <1>11, <1>14, <1>15, <2>1, <3>2
  <2>2. CASE type = "samplers"
    <3>1. Intact(allocator', cpuHeap'["samplers"], inSamplers)
      BY <1>4, <1>9, <1>12
    <3>2. InCpuHeap(allocator, type, inSamplers)'
      BY <1>1, <1>9, <1>15, <2>2, <3>1 DEF InCpuHeap
    <3>3. \A h, d : Kept(h, d)' => Intact(views, h, d) /\ d \in Seq(Descriptor)
      BY <1>7, <1>14 DEF Extends
    <3>4. QED
      BY <1>1, <1>2, <1>4, <1>10, <1>15, <2>2, <3>2, <3>3
  <2>3. QED
    BY <2>1, <2>2 DEF BindingTypes
<1>17. Apart(cpuHeap'["views"], CpuHeapSize["views"], cpuHeap'["samplers"],
             CpuHeapSize["samplers"])
  BY <1>4, <1>8, <1>10
<1>18. CpuInv'
  BY <1>1, <1>15, <1>16, <1>17 DEF CpuInv, GroupsType
<1>19. QED
  BY <1>13, <1>18

(* The tables of a command buffer are filled from its CPU heaps.           *)
LEMMA RecordCommandsStep ==
  ASSUME HeapsInv, CpuInv, NEW p \in Pipelines, RecordCommands(p)
  PROVE  HeapsInv' /\ CpuInv'
<1> DEFINE views == CopyToGPUHeap(allocator, "views")
           samplers == CopyToGPUHeap(views, "samplers")
           tables == Tables(views.handle, "views") \cup Tables(samplers.handle, "samplers")
           submission == [serial |-> mSerial, pipeline |-> p, tables |-> tables]
<1>1. /\ TakeAllocator(samplers) /\ renderPasses' = renderPasses
      /\ gpuQueue' = gpuQueue \cup {submission} /\ pc = "recording" /\ pc' = "submit"
      /\ bindGroups' = {} /\ descriptorIndex' = [t \in BindingTypes |-> 0]
      /\ UNCHANGED <<mSerial, mHeapSerial, mHeapOffset>>
  BY DEF RecordCommands
<1>2. "views" \in BindingTypes /\ "samplers" \in BindingTypes
  BY DEF BindingTypes
<1>3. /\ Sound(allocator) /\ GroupsType
      /\ \A t \in BindingTypes : descriptorIndex[t] <= CpuHeapSize[t]
  BY <1>1 DEF HeapsInv, CpuInv
<1>4. PICK inViews, inSamplers :
        InCpuHeap(allocator, "views", inViews) /\ InCpuHeap(allocator, "samplers", inSamplers)
  BY <1>1, <1>2 DEF CpuInv
<1>5. submission.serial = mSerial /\ submission.tables = tables
  OBVIOUS
<1>6. /\ Sound(views) /\ Extends(views, allocator)
      /\ \A t \in Tables(views.handle, "views") :
           /\ t.descriptors \in Seq(Descriptor) /\ Intact(views, t.handle, t.descriptors)
           /\ [item |-> t.handle.heap, serial |-> mSerial] \in views.released
  BY <1>2, <1>3, <1>4, TablesAreRecorded
<1>7. /\ Sound(samplers) /\ Extends(samplers, views)
      /\ \A t \in Tables(samplers.handle, "samplers") :
           /\ t.descriptors \in Seq(Descriptor) /\ Intact(samplers, t.handle, t.descriptors)
           /\ [item |-> t.handle.heap, serial |-> mSerial] \in samplers.released
  <2> HIDE DEF views
  <2>1. InCpuHeap(views, "samplers", inSamplers)
    BY <1>4, <1>6 DEF InCpuHeap, Extends
  <2>2. QED
    BY <1>2, <1>3, <1>6, <2>1, TablesAreRecorded
<1> HIDE DEF views, samplers, tables, submission
<1>8. Extends(samplers, allocator)
  BY <1>6, <1>7, ExtendsTransitive
<1>9. /\ Sound(allocator)' /\ mReleasedHandles' = samplers.released
      /\ \A handle, descriptors : Intact(samplers, handle, descriptors) =>
           Intact(allocator', handle, descriptors)
  BY <1>1, <1>7, <1>8, AllocatorTaken
<1>10. ASSUME NEW t \in tables
       PROVE  /\ t.descriptors \in Seq(Descriptor)
              /\ Intact(allocator', t.handle, t.descriptors)
              /\ [item |-> t.handle.heap, serial |-> mSerial] \in mReleasedHandles'
  <2>1. CASE t \in Tables(views.handle, "views")
    BY <1>6, <1>7, <1>9, <2>1 DEF Extends
  <2>2. CASE t \in Tables(samplers.handle, "samplers")
    BY <1>7, <1>9, <2>2
  <2>3. QED
    BY <2>1, <2>2 DEF tables
<1>11. ASSUME NEW new, new = submission
       PROVE  TablesFly(new)'
  BY <1>5, <1>10, <1>11 DEF TablesFly
<1>12. /\ \A s \in gpuQueue : TablesFly(s)'
       /\ \A pass \in renderPasses : Viewed(pass)'
  BY <1>1, <1>7, <1>8, HeldIsKept
<1>13. HeapsInv'
  BY <1>1, <1>9, <1>11, <1>12 DEF HeapsInv
<1>14. CpuInv'
  BY <1>1 DEF CpuInv, GroupsType
<1>15. QED
  BY <1>13, <1>14

(* A tick lets go of heaps that no submission needs any more.              *)
LEMMA TickHeapsStep ==
  ASSUME ClockInv, FlightInv, HeapsInv, TickHeaps
  PROVE  HeapsInv'
<1>1. /\ mReleasedHandles' = {e \in mReleasedHandles : ~(e.serial <= completed)}
      /\ UNCHANGED <<heaps, infos, renderPasses, gpuQueue>>
  BY DEF TickHeaps, ClearUpTo, UpTo
<1>2. /\ allocator' = [heaps |-> heaps, infos |-> infos, released |-> mReleasedHandles',
                       handle |-> NullHandle]
      /\ allocator = [heaps |-> heaps, infos |-> infos, released |-> mReleasedHandles,
                      handle |-> NullHandle]
  BY <1>1 DEF allocator
<1>3. allocator'.heaps = allocator.heaps /\ allocator'.infos = allocator.infos
  BY <1>2
<1>4. Sound(allocator')
  BY <1>2, <1>3 DEF HeapsInv, Sound
<1>5. \A handle, descriptors : Intact(allocator, handle, descriptors) =>
        Intact(allocator', handle, descriptors)
  BY <1>3 DEF Intact
<1>6. ASSUME NEW s \in gpuQueue
      PROVE  TablesFly(s)'
  <2>1. s.serial \in Nat /\ ~(s.serial <= completed) /\ TablesFly(s)
    BY DEF FlightInv, Flies, ClockInv, HeapsInv
  <2>2. ASSUME NEW t \in s.tables
        PROVE  [item |-> t.handle.heap, serial |-> s.serial] \in mReleasedHandles'
    BY <1>1, <2>1 DEF TablesFly
  <2>3. QED
    BY <1>5, <2>1, <2>2 DEF TablesFly
<1>7. ASSUME NEW pass \in renderPasses
      PROVE  Viewed(pass)'
  BY <1>5 DEF HeapsInv, Viewed
<1>8. QED
  BY <1>1, <1>4, <1>6, <1>7 DEF HeapsInv

(* No step breaks it.                                                      *)
LEMMA InvStep ==
  ASSUME Careful, Inv, [Next]_vars
  PROVE  Inv'
<1>1. ClockInv' /\ FlightInv'
  BY ClockStep, FlightStep DEF Inv
<1>2. ASSUME UNCHANGED heapVars, renderPasses' \subseteq renderPasses, gpuQueue' \subseteq gpuQueue
      PROVE  HeapsInv'
  <2>1. allocator' = allocator /\ mReleasedHandles' = mReleasedHandles
    BY <1>2 DEF allocator, heapVars
  <2>2. QED
    BY <1>2, <2>1 DEF Inv, HeapsInv, TablesFly, Viewed
<1>3. ASSUME UNCHANGED groupVars, pc # "recording", pc' # "recording"
      PROVE  CpuInv'
  <2>1. mSerial' \in Nat
    BY <1>1 DEF ClockInv
  <2>2. QED
    BY <1>3, <2>1 DEF Inv, CpuInv, GroupsType, groupVars
<1>4. ASSUME UNCHANGED <<heapVars, mSerial, renderPasses, pc>>, gpuQueue' \subseteq gpuQueue
      PROVE  CpuInv'
  <2>1. allocator' = allocator /\ UNCHANGED groupVars
    BY <1>4 DEF allocator, heapVars
  <2>2. \A handle, descriptors : Kept(handle, descriptors)' => Kept(handle, descriptors)
    BY <1>4 DEF Kept
  <2>3. UNCHANGED <<mHeapSerial, mHeapOffset, cpuHeap, descriptorIndex, bindGroups>>
    BY <2>1 DEF groupVars
  <2>4. \A t, content : InCpuHeap(allocator, t, content) => InCpuHeap(allocator, t, content)'
    BY <2>1, <2>3 DEF InCpuHeap
  <2>5. QED
    BY <1>4, <2>2, <2>3, <2>4 DEF Inv, CpuInv, GroupsType
<1>5. ASSUME NEW pass \in RenderPasses, CreateRenderPass(pass.mask, pass.depth)
      PROVE  HeapsInv' /\ CpuInv'
  BY <1>3, <1>5, CreateRenderPassStep DEF Inv, CreateRenderPass, InApp
<1>6. BeginRecording => HeapsInv' /\ CpuInv'
  BY BeginRecordingStep DEF Inv
<1>7. ASSUME NEW g \in BindGroups, TrackSetBindGroup(g)
      PROVE  HeapsInv' /\ CpuInv'
  BY <1>7, TrackSetBindGroupStep DEF Inv
<1>8. ASSUME NEW p \in Pipelines, RecordCommands(p)
      PROVE  HeapsInv' /\ CpuInv'
  BY <1>8, RecordCommandsStep DEF Inv
<1>9. TickHeaps => HeapsInv' /\ CpuInv'
  BY <1>3, TickHeapsStep DEF Inv, TickHeaps
<1>10. GpuSignals \/ UNCHANGED vars => HeapsInv' /\ CpuInv'
  BY <1>2, <1>4 DEF GpuSignals, vars
<1>11. ASSUME \/ \E pass \in renderPasses : ReleaseRenderPass(pass)
              \/ \E p \in pipelines : ReleasePipeline(p)
              \/ Submit \/ EndSubmit \/ Tick \/ FinishTick \/ DestroyDevice \/ LastSignalPassed
       PROVE  HeapsInv' /\ CpuInv'
  <2>1. UNCHANGED heapVars /\ renderPasses' \subseteq renderPasses /\ gpuQueue' = gpuQueue
    BY <1>11 DEF ReleaseRenderPass, ReleasePipeline, Submit, EndSubmit, Tick, FinishTick,
                 DestroyDevice, LastSignalPassed
  <2>2. pc # "recording" /\ pc' # "recording"
    BY <1>11 DEF Inv, ClockInv, ReleaseRenderPass, ReleasePipeline, Submit, EndSubmit, Tick,
                 FinishTick, DestroyDevice, LastSignalPassed, InApp
  <2>3. UNCHANGED groupVars
    BY <2>1 DEF heapVars
  <2>4. QED
    BY <1>2, <1>3, <2>1, <2>2, <2>3
<1>12. HeapsInv' /\ CpuInv'
  BY <1>5, <1>6, <1>7, <1>8, <1>9, <1>10, <1>11 DEF Next
<1>13. QED
  BY <1>1, <1>12 DEF Inv

(* It says what the GPU and the render passes find.                        *)
LEMMA InvIntact ==
  Inv => DescriptorsAreIntact
<1> SUFFICES ASSUME Inv PROVE DescriptorsAreIntact
  OBVIOUS
<1>1. InFlightIsIntact
  <2>1. ASSUME NEW s \in gpuQueue, NEW t \in s.tables
        PROVE  Holds(t.handle, t.descriptors)
    <3>1. /\ t.descriptors \in Seq(Descriptor)
          /\ Intact(allocator, t.handle, t.descriptors)
          /\ [item |-> t.handle.heap, serial |-> s.serial] \in mReleasedHandles
      BY DEF Inv, HeapsInv, TablesFly
    <3>2. t.handle.heap \in Items(mReleasedHandles)
      <4>1. [item |-> t.handle.heap, serial |-> s.serial].item = t.handle.heap
        OBVIOUS
      <4>2. QED
        BY <3>1, <4>1 DEF Items
    <3>3. Read(allocator, t.handle, Len(t.descriptors)) = t.descriptors
      BY <3>1, ReadIntact
    <3>4. t.handle.heap # NullHandle.heap
      BY <3>1 DEF Intact, NullHandle
    <3>5. QED
      BY <3>2, <3>3, <3>4 DEF Holds, Exists
  <2>2. ASSUME NEW s \in gpuQueue
        PROVE  s.pipeline \in pipelines \cup Items(mUsedComObjectRefs)
    BY DEF Inv, FlightInv, Flies, Items
  <2>3. QED
    BY <2>1, <2>2 DEF InFlightIsIntact
<1>2. ASSUME NEW pass \in renderPasses, NEW i \in pass.mask
      PROVE  Holds([pass.rtv EXCEPT !.offset = @ + i], <<<<"color", pass.name, i>>>>)
  <2> DEFINE n == Cardinality(pass.mask)
             heap == pass.rtv.heap
             start == pass.rtv.offset
             view == <<"color", pass.name, i>>
             handle == [heap |-> heap, offset |-> start + i]
  <2>1. /\ n \in Nat /\ pass.mask = 0..n - 1 /\ pass.rtv = [heap |-> heap, offset |-> start]
        /\ heap \in 1..Len(heaps) /\ start \in Nat
        /\ Intact(allocator, pass.rtv, Colors(pass.name, n))
    BY <1>2 DEF Inv, HeapsInv, Viewed, Intact, allocator
  <2>2. i \in Nat /\ i + 1 \in 1..n /\ i + 1 - 1 = i /\ start + (i + 1) - 1 = start + i
    <3> HIDE DEF n, start
    <3>1. i \in 0..n - 1
      BY <1>2, <2>1
    <3>2. QED
      BY <2>1, <3>1
  <2>3. Len(Colors(pass.name, n)) = n /\ Colors(pass.name, n)[i + 1] = view
    BY <2>1, <2>2 DEF Colors
  <2>4. /\ start + i \in DOMAIN allocator.heaps[heap]
        /\ allocator.heaps[heap][start + i] = view
    <3>1. /\ start + (i + 1) - 1 \in DOMAIN allocator.heaps[heap]
          /\ allocator.heaps[heap][start + (i + 1) - 1] = Colors(pass.name, n)[i + 1]
      BY <2>1, <2>2, <2>3 DEF Intact
    <3>2. QED
      BY <2>2, <2>3, <3>1
  <2>5. [pass.rtv EXCEPT !.offset = @ + i] = handle
    BY <2>1
  <2>6. Read(allocator, handle, 1) = <<view>>
    <3> HIDE DEF view, start
    <3>1. \A k \in 1..1 : start + i + k - 1 = start + i
      BY <2>1, <2>2
    <3>2. Read(allocator, handle, 1) = [k \in 1..1 |-> view]
      BY <2>4, <3>1 DEF Read
    <3>3. QED
      BY <3>2
  <2>7. Exists(handle.heap)
    BY <1>2, <2>1 DEF Exists, NullHandle
  <2>8. Len(<<view>>) = 1
    OBVIOUS
  <2> HIDE DEF handle, view
  <2>9. Holds(handle, <<view>>)
    BY <2>6, <2>7, <2>8 DEF Holds
  <2>10. QED
    BY <2>5, <2>9 DEF view
<1>3. ASSUME NEW pass \in renderPasses, pass.depth
      PROVE  Holds(pass.dsv, <<<<"depth", pass.name>>>>)
  <2>1. /\ Intact(allocator, pass.dsv, <<<<"depth", pass.name>>>>)
        /\ <<<<"depth", pass.name>>>> \in Seq(Descriptor)
    BY <1>3 DEF Inv, HeapsInv, Viewed, Descriptor
  <2>2. Read(allocator, pass.dsv, Len(<<<<"depth", pass.name>>>>)) = <<<<"depth", pass.name>>>>
    BY <2>1, ReadIntact
  <2>3. pass.dsv.heap # NullHandle.heap
    BY <2>1 DEF Intact, NullHandle
  <2>4. QED
    BY <1>3, <2>2, <2>3 DEF Holds, Exists
<1>4. NothingIsKept
  BY DEF Inv, ClockInv
<1>5. QED
  BY <1>1, <1>2, <1>3, <1>4 DEF DescriptorsAreIntact, PassesFindTheirViews
(* The tables the GPU has yet to read hold what was recorded for them in   *)
(* heaps that exist, their pipelines exist, every render pass finds its    *)
(* views, and ~Device leaves nothing behind: whatever is recorded, created *)
(* and released, and whatever the sizes of the heaps.  Careful names four  *)
(* assumptions, none of which the frontend ensures: the color attachments  *)
(* of a render pass leave no slot out; the bindings of a command buffer    *)
(* fit its CPU heaps; no two command buffers of a Submit share a bind      *)
(* group; no map callback of ~Device drops the last pipeline.              *)
(* (DescriptorHeapAllocator.cpp, CommandBufferD3D12.cpp, DeviceD3D12.cpp.) *)
THEOREM DescriptorsStayIntact ==
  Careful => (Spec => []DescriptorsAreIntact)
<1> SUFFICES ASSUME Careful PROVE Spec => []DescriptorsAreIntact
  OBVIOUS
<1>1. Init => Inv
  BY InvInit
<1>2. Inv /\ [Next]_vars => Inv'
  BY InvStep
<1>3. Inv => DescriptorsAreIntact
  BY InvIntact
<1>4. QED
  BY <1>1, <1>2, <1>3, PTL DEF Spec

-----------------------------------------------------------------------------
(* A vector of pairs: no pair is empty, serials do not decrease and items  *)
(* increase.                                                               *)
Ordered(s) ==
  /\ s \in Seq([serial : Nat, items : Seq(Nat)])
  /\ \A p \in 1..Len(s) : Len(s[p].items) > 0
  /\ \A p \in 1..Len(s) : \A k, l \in 1..Len(s[p].items) :
       k < l => s[p].items[k] < s[p].items[l]
  /\ \A p, q \in 1..Len(s) : p < q => s[p].serial <= s[q].serial
  /\ \A p, q \in 1..Len(s) : p < q =>
       \A k \in 1..Len(s[p].items), l \in 1..Len(s[q].items) : s[p].items[k] < s[q].items[l]

(* The entry of an item of a vector, and what all of them are.             *)
Entry(s, p, k) == [item |-> s[p].items[k], serial |-> s[p].serial]
Stores(s, c) ==
  /\ \A p \in 1..Len(s) : \A k \in 1..Len(s[p].items) : Entry(s, p, k) \in c
  /\ \A e \in c : \E p \in 1..Len(s) : \E k \in 1..Len(s[p].items) : e = Entry(s, p, k)

(* An iterator that has come to an item of a pair; the body of the loop is *)
(* at the item itself, the test before it.                                 *)
Seen(it, p, k) ==
  p < it.storage \/ (p = it.storage /\ k <= it.item + (IF it.at = "body" THEN 1 ELSE 0))

(* The loop is somewhere before its end.                                   *)
Within(s, it) ==
  /\ it.serial \in Nat /\ it.item \in Nat
  /\ it.storage \in 1..Len(s) + 1 /\ it.end \in 1..Len(s) + 1
  /\ it.end <= Len(s) => s[it.end].serial > it.serial
  /\ \A p \in 1..it.end - 1 : s[p].serial <= it.serial
  /\ it.storage <= it.end
  /\ it.storage = it.end => it.item = 0 /\ it.at = "test"
  /\ it.storage < it.end => it.item < Len(s[it.storage].items)

(* The loop's body saw what its iterator has passed, in order.             *)
Saw(s, it, v) ==
  /\ v \in Seq(Nat)
  /\ \A i, j \in 1..Len(v) : i < j => v[i] < v[j]
  /\ \A i \in 1..Len(v) : \E p \in 1..Len(s) : \E k \in 1..Len(s[p].items) :
       Seen(it, p, k) /\ v[i] = s[p].items[k]
  /\ \A p \in 1..Len(s) : \A k \in 1..Len(s[p].items) :
       Seen(it, p, k) => \E i \in 1..Len(v) : v[i] = s[p].items[k]

Looping(s, it, v) ==
  /\ it = [at |-> it.at, storage |-> it.storage, item |-> it.item, end |-> it.end,
           serial |-> it.serial]
  /\ it.at \in {"none", "test", "body"}
  /\ it.at # "none" => Within(s, it) /\ Saw(s, it, v)

QueueInv ==
  /\ Ordered(mStorage)
  /\ Stores(mStorage, contents)
  /\ Looping(mStorage, iteration, visited)
  /\ moved = {}

(* What the types of a vector say of its parts.                            *)
LEMMA OrderedTypes ==
  ASSUME NEW s, Ordered(s)
  PROVE  /\ Len(s) \in Nat
         /\ \A p \in 1..Len(s) :
              /\ s[p].serial \in Nat /\ s[p].items \in Seq(Nat)
              /\ Len(s[p].items) \in Nat
              /\ \A k \in 1..Len(s[p].items) : s[p].items[k] \in Nat
<1> DEFINE Pair == [serial : Nat, items : Seq(Nat)]
<1>1. s \in Seq(Pair) /\ Len(s) \in Nat
  BY DEF Ordered
<1>2. ASSUME NEW p \in 1..Len(s)
      PROVE  /\ s[p].serial \in Nat /\ s[p].items \in Seq(Nat)
             /\ Len(s[p].items) \in Nat
             /\ \A k \in 1..Len(s[p].items) : s[p].items[k] \in Nat
  <2>1. s[p] \in Pair
    <3> HIDE DEF Pair
    <3>1. QED
      BY <1>1, ElementOfSeq
  <2>2. QED
    BY <2>1
<1>3. QED
  BY <1>1, <1>2

(* A set of numbers that is not empty has a least one.                     *)
LEMMA LeastNumber ==
  ASSUME NEW T \in SUBSET Nat, T # {}
  PROVE  \E m \in T : \A k \in T : m <= k
<1> DEFINE R == OpToRel(<, Nat)
<1>1. PICK m \in T : \A k \in T : ~ (<<k, m>> \in R)
  <2> HIDE DEF R
  <2>1. IsWellFoundedOn(R, Nat)
    BY NatLessThanWellFounded DEF R
  <2>2. QED
    BY <2>1, WFMin
<1>2. \A k \in T : ~ (k < m)
  BY <1>1 DEF OpToRel
<1>3. QED
  BY <1>2

(* Items increase through a vector.                                        *)
LEMMA InOrder ==
  ASSUME NEW s, Ordered(s), NEW p \in 1..Len(s), NEW q \in 1..Len(s),
         NEW k \in 1..Len(s[p].items), NEW l \in 1..Len(s[q].items),
         p < q \/ (p = q /\ k < l)
  PROVE  s[p].items[k] < s[q].items[l]
<1>1. CASE p < q
  <2>1. \A i \in 1..Len(s[p].items), j \in 1..Len(s[q].items) : s[p].items[i] < s[q].items[j]
    BY <1>1 DEF Ordered
  <2>2. QED
    BY <2>1
<1>2. CASE p = q /\ k < l
  <2>1. \A i, j \in 1..Len(s[p].items) : i < j => s[p].items[i] < s[p].items[j]
    BY DEF Ordered
  <2>2. QED
    BY <1>2, <2>1
<1>3. QED
  BY <1>1, <1>2

(* FindUpTo finds the first pair with a bigger serial, or the end.         *)
LEMMA FindUpToFinds ==
  ASSUME Ordered(mStorage), NEW serial \in Nat
  PROVE  /\ FindUpTo(serial) \in 1..Len(mStorage) + 1
         /\ IsUpTo(FindUpTo(serial), serial)
<1> DEFINE T == {i \in 1..Len(mStorage) + 1 : i <= Len(mStorage) => mStorage[i].serial > serial}
<1>1. Len(mStorage) \in Nat /\ \A i \in 1..Len(mStorage) : mStorage[i].serial \in Nat
  BY OrderedTypes
<1>2. T \in SUBSET Nat /\ Len(mStorage) + 1 \in T
  BY <1>1
<1>3. PICK m \in T : \A k \in T : m <= k
  <2> HIDE DEF T
  <2>1. QED
    BY <1>2, LeastNumber
<1>4. ASSUME NEW j \in 1..m - 1 PROVE mStorage[j].serial <= serial
  <2>1. j \in 1..Len(mStorage) /\ ~ (m <= j)
    BY <1>1, <1>3
  <2>2. j \notin T
    BY <1>3, <2>1
  <2>3. QED
    BY <1>1, <2>1, <2>2
<1>5. m \in 1..Len(mStorage) + 1 /\ IsUpTo(m, serial)
  BY <1>3, <1>4 DEF IsUpTo
<1>6. QED
  BY <1>5 DEF FindUpTo

(* What follows the vectors' order: entries up to a serial are before the  *)
(* place that FindUpTo finds, the others after it.                         *)
LEMMA UpToIsBefore ==
  ASSUME Ordered(mStorage), NEW serial \in Nat, NEW f \in 1..Len(mStorage) + 1,
         IsUpTo(f, serial), NEW p \in 1..Len(mStorage)
  PROVE  mStorage[p].serial <= serial <=> p < f
<1>1. Len(mStorage) \in Nat /\ \A i \in 1..Len(mStorage) : mStorage[i].serial \in Nat
  BY OrderedTypes
<1>2. CASE p < f
  BY <1>1, <1>2 DEF IsUpTo
<1>3. CASE p >= f
  <2>1. f \in 1..Len(mStorage) /\ mStorage[f].serial > serial
    BY <1>1, <1>3 DEF IsUpTo
  <2>2. mStorage[f].serial <= mStorage[p].serial
    <3>1. CASE f = p
      BY <1>1, <3>1
    <3>2. CASE f < p
      BY <2>1, <3>2 DEF Ordered
    <3>3. QED
      BY <1>3, <3>1, <3>2
  <2>3. QED
    BY <1>1, <1>3, <2>1, <2>2
<1>4. QED
  BY <1>2, <1>3, <1>1

(* The vectors and the loop's place in them make IteratesUpTo true.        *)
LEMMA QueueInvImplies ==
  QueueInv => IteratesUpTo
<1> DEFINE it == iteration
           expected == Items(UpTo(contents, it.serial))
<1>1. SUFFICES ASSUME QueueInv, iteration.at # "none"
               PROVE  /\ \A i, j \in DOMAIN visited : i < j => visited[i] < visited[j]
                      /\ \A i \in DOMAIN visited :
                           /\ visited[i] \in expected
                           /\ \A item \in expected : item < visited[i] =>
                                \E j \in DOMAIN visited : visited[j] = item
                      /\ (it.at = "test" /\ LoopIsOver) =>
                           \A item \in expected : \E j \in DOMAIN visited : visited[j] = item
  BY DEF IteratesUpTo
<1>2. /\ Ordered(mStorage) /\ Stores(mStorage, contents)
      /\ Within(mStorage, it) /\ Saw(mStorage, it, visited)
      /\ it.at \in {"test", "body"}
  BY <1>1 DEF QueueInv, Looping
<1>3. DOMAIN visited = 1..Len(visited) /\ Len(visited) \in Nat
  BY <1>2 DEF Saw
<1>4. Len(mStorage) \in Nat /\ \A p \in 1..Len(mStorage) :
        /\ mStorage[p].serial \in Nat /\ mStorage[p].items \in Seq(Nat)
        /\ Len(mStorage[p].items) \in Nat
        /\ \A k \in 1..Len(mStorage[p].items) : mStorage[p].items[k] \in Nat
  BY <1>2, OrderedTypes
<1>5. IsUpTo(it.end, it.serial) /\ it.serial \in Nat /\ it.end \in 1..Len(mStorage) + 1
  BY <1>2 DEF Within, IsUpTo
<1>6. ASSUME NEW p \in 1..Len(mStorage), NEW k \in 1..Len(mStorage[p].items)
      PROVE  mStorage[p].items[k] \in expected <=> mStorage[p].serial <= it.serial
  <2>1. Entry(mStorage, p, k) \in contents
    BY <1>2 DEF Stores
  <2>2. ASSUME mStorage[p].serial <= it.serial PROVE mStorage[p].items[k] \in expected
    BY <2>1, <2>2 DEF Items, UpTo, Entry
  <2>3. ASSUME mStorage[p].items[k] \in expected PROVE mStorage[p].serial <= it.serial
    <3>1. PICK e \in contents : e.serial <= it.serial /\ e.item = mStorage[p].items[k]
      BY <2>3 DEF Items, UpTo
    <3>2. PICK q \in 1..Len(mStorage) : \E l \in 1..Len(mStorage[q].items) :
            e = Entry(mStorage, q, l)
      BY <1>2 DEF Stores
    <3>3. PICK l \in 1..Len(mStorage[q].items) : e = Entry(mStorage, q, l)
      BY <3>2
    <3>4. mStorage[q].items[l] = mStorage[p].items[k] /\ mStorage[q].serial <= it.serial
      BY <3>1, <3>3 DEF Entry
    <3>5. ~ (q < p) /\ ~ (p < q)
      <4>1. mStorage[q].items[l] \in Nat /\ mStorage[p].items[k] \in Nat /\ Ordered(mStorage)
        BY <1>2, <1>4
      <4>2. p < q => mStorage[p].items[k] < mStorage[q].items[l]
        BY <4>1, InOrder
      <4>3. q < p => mStorage[q].items[l] < mStorage[p].items[k]
        BY <4>1, InOrder
      <4>4. QED
        BY <3>4, <4>1, <4>2, <4>3
    <3>6. QED
      BY <3>4, <3>5
  <2>4. QED
    BY <2>2, <2>3
<1>7. ASSUME NEW item \in expected
      PROVE  \E p \in 1..Len(mStorage) : \E k \in 1..Len(mStorage[p].items) :
               item = mStorage[p].items[k] /\ p < it.end
  <2>1. PICK e \in contents : e.serial <= it.serial /\ e.item = item
    BY DEF Items, UpTo
  <2>2. PICK p \in 1..Len(mStorage) : \E k \in 1..Len(mStorage[p].items) :
          e = Entry(mStorage, p, k)
    BY <1>2 DEF Stores
  <2>3. PICK k \in 1..Len(mStorage[p].items) : e = Entry(mStorage, p, k)
    BY <2>2
  <2>4. item = mStorage[p].items[k] /\ mStorage[p].serial <= it.serial
    BY <2>1, <2>3 DEF Entry
  <2>5. p < it.end
    BY <1>2, <1>5, <2>4, UpToIsBefore
  <2>6. QED
    BY <2>4, <2>5
<1> HIDE DEF expected
<1>8. ASSUME NEW i \in DOMAIN visited
      PROVE  /\ visited[i] \in expected
             /\ \A item \in expected : item < visited[i] =>
                  \E j \in DOMAIN visited : visited[j] = item
  <2>1. PICK p \in 1..Len(mStorage) : \E k \in 1..Len(mStorage[p].items) :
          Seen(it, p, k) /\ visited[i] = mStorage[p].items[k]
    BY <1>2, <1>3 DEF Saw
  <2>2. PICK k \in 1..Len(mStorage[p].items) : Seen(it, p, k) /\ visited[i] = mStorage[p].items[k]
    BY <2>1
  <2>3. p < it.end
    BY <1>2, <1>4, <2>2 DEF Seen, Within
  <2>4. visited[i] \in expected
    BY <1>2, <1>5, <1>6, <2>2, <2>3, UpToIsBefore
  <2>5. ASSUME NEW item \in expected, item < visited[i]
        PROVE  \E j \in DOMAIN visited : visited[j] = item
    <3>1. PICK q \in 1..Len(mStorage) : \E l \in 1..Len(mStorage[q].items) :
            item = mStorage[q].items[l] /\ q < it.end
      BY <1>7
    <3>2. PICK l \in 1..Len(mStorage[q].items) : item = mStorage[q].items[l]
      BY <3>1
    <3>3. mStorage[q].items[l] < mStorage[p].items[k]
      BY <2>2, <2>5, <3>2
    <3>8. mStorage[q].items[l] \in Nat /\ mStorage[p].items[k] \in Nat
      BY <1>4
    <3>9. Ordered(mStorage)
      BY <1>2
    <3>10. p < q \/ (p = q /\ k < l) => mStorage[p].items[k] < mStorage[q].items[l]
      BY <3>9, InOrder
    <3>4. ~ (p < q)
      BY <3>3, <3>8, <3>10
    <3>5. p = q => ~ (k < l) /\ k # l
      BY <3>3, <3>8, <3>10
    <3>6. Seen(it, q, l)
      <4>1. Len(mStorage[p].items) \in Nat /\ Len(mStorage[q].items) \in Nat
        BY <1>4
      <4>2. it.item \in Nat /\ it.storage \in Nat
        BY <1>2 DEF Within
      <4>3. Seen(it, p, k)
        BY <2>2
      <4>4. CASE q < p
        BY <4>2, <4>3, <4>4 DEF Seen
      <4>5. CASE q = p
        <5>1. l <= k /\ l \in Nat /\ k \in Nat
          BY <3>5, <4>1, <4>5
        <5>2. QED
          BY <4>2, <4>3, <4>5, <5>1 DEF Seen
      <4>6. q < p \/ q = p
        BY <3>4, <1>4
      <4>7. QED
        BY <4>4, <4>5, <4>6
    <3>7. QED
      BY <1>2, <1>3, <3>2, <3>6 DEF Saw
  <2>6. QED
    BY <2>4, <2>5
<1>9. ASSUME LoopIsOver, NEW item \in expected
      PROVE  \E j \in DOMAIN visited : visited[j] = item
  <2>1. PICK p \in 1..Len(mStorage) : \E k \in 1..Len(mStorage[p].items) :
          item = mStorage[p].items[k] /\ p < it.end
    BY <1>7
  <2>2. PICK k \in 1..Len(mStorage[p].items) : item = mStorage[p].items[k]
    BY <2>1
  <2>3. Seen(it, p, k)
    BY <1>9, <2>1 DEF Seen, LoopIsOver
  <2>4. QED
    BY <1>2, <1>3, <2>2, <2>3 DEF Saw
<1>10. \A i, j \in DOMAIN visited : i < j => visited[i] < visited[j]
  BY <1>2, <1>3 DEF Saw
<1>11. QED
  BY <1>8, <1>9, <1>10

(* Items for a queue: increasing, and greater than all that it has.        *)
Follow(items, s) ==
  /\ items \in Seq(Nat) /\ Len(items) > 0
  /\ \A k, l \in 1..Len(items) : k < l => items[k] < items[l]
  /\ \A p \in 1..Len(s) : \A k \in 1..Len(s[p].items), l \in 1..Len(items) :
       s[p].items[k] < items[l]

(* The numbers of new items.                                               *)
LEMMA NewItemsFollow ==
  ASSUME Ordered(mStorage), NEW n \in Nat, n > 0
  PROVE  Follow(NewItems(n), mStorage)
<1> DEFINE last == IF mStorage = <<>> THEN 0 ELSE back.items[Len(back.items)]
           items == [i \in 1..n |-> last + i]
<1>1. Len(mStorage) \in Nat /\ mStorage \in Seq([serial : Nat, items : Seq(Nat)])
  BY OrderedTypes DEF Ordered
<1>2. ASSUME mStorage # <<>>
      PROVE  /\ Len(mStorage) \in 1..Len(mStorage)
             /\ Len(back.items) \in 1..Len(back.items) /\ last \in Nat
  <2>1. Len(mStorage) \in 1..Len(mStorage)
    BY <1>1, <1>2, EmptySeq
  <2>2. Len(back.items) > 0 /\ Len(back.items) \in Nat
    BY <2>1, OrderedTypes DEF Ordered, back
  <2>3. back.items[Len(back.items)] \in Nat
    BY <2>1, <2>2, OrderedTypes DEF back
  <2>4. QED
    BY <1>2, <2>1, <2>2, <2>3
<1>3. last \in Nat
  BY <1>2
<1>4. ASSUME NEW p \in 1..Len(mStorage), NEW k \in 1..Len(mStorage[p].items)
      PROVE  mStorage[p].items[k] <= last
  <2>1. mStorage # <<>>
    BY <1>1, EmptySeq
  <2>2. Len(mStorage) \in 1..Len(mStorage) /\ Len(back.items) \in 1..Len(back.items)
    BY <2>1, <1>2
  <2>3. last = mStorage[Len(mStorage)].items[Len(back.items)]
    BY <2>1 DEF back
  <2>4. CASE p = Len(mStorage) /\ k = Len(back.items)
    BY <2>3, <2>4, <1>3
  <2>5. CASE p < Len(mStorage) \/ (p = Len(mStorage) /\ k < Len(back.items))
    <3>1. mStorage[p].items[k] < mStorage[Len(mStorage)].items[Len(back.items)]
      BY <2>2, <2>5, InOrder DEF back
    <3>2. mStorage[p].items[k] \in Nat
      BY OrderedTypes
    <3>3. QED
      BY <2>3, <3>1, <3>2, <1>3
  <2>6. Len(mStorage[p].items) \in Nat
    BY OrderedTypes
  <2>7. QED
    BY <1>1, <2>2, <2>4, <2>5, <2>6 DEF back
<1>5. ASSUME NEW p \in 1..Len(mStorage), NEW k \in 1..Len(mStorage[p].items)
      PROVE  mStorage[p].items[k] \in Nat
  BY OrderedTypes
<1> HIDE DEF last
<1>6. items \in Seq(Nat) /\ Len(items) = n
  BY <1>3
<1>7. Follow(items, mStorage)
  BY <1>3, <1>4, <1>5, <1>6 DEF Follow
<1>8. QED
  BY <1>7 DEF last, NewItems

(* A pair more at the end.                                                 *)
LEMMA AppendKeeps ==
  ASSUME NEW s, NEW c, Ordered(s), Stores(s, c), NEW items, Follow(items, s), NEW serial \in Nat,
         \A p \in 1..Len(s) : s[p].serial <= serial,
         NEW new, new = Append(s, [serial |-> serial, items |-> items])
  PROVE  Ordered(new) /\ Stores(new, Enqueue(c, {items[i] : i \in DOMAIN items}, serial))
<1> DEFINE pair == [serial |-> serial, items |-> items]
           Pair == [serial : Nat, items : Seq(Nat)]
           d == Enqueue(c, {items[i] : i \in DOMAIN items}, serial)
<1>1. pair \in Pair /\ s \in Seq(Pair) /\ Len(s) \in Nat
  BY DEF Follow, Ordered
<1>2. /\ new \in Seq(Pair) /\ Len(new) = Len(s) + 1
      /\ \A p \in 1..Len(s) : new[p] = s[p]
      /\ new[Len(s) + 1] = pair
  <2> HIDE DEF Pair, pair
  <2>1. new = Append(s, pair)
    BY DEF pair
  <2>2. QED
    BY <2>1, <1>1, AppendProperties
<1>3. \A p \in 1..Len(new) : p \in 1..Len(s) \/ p = Len(s) + 1
  BY <1>1, <1>2
<1>4. \A p \in 1..Len(new) : Len(new[p].items) > 0
  BY <1>2, <1>3 DEF Follow, Ordered
<1>5. \A p \in 1..Len(new) : \A k, l \in 1..Len(new[p].items) :
        k < l => new[p].items[k] < new[p].items[l]
  <2> SUFFICES ASSUME NEW p \in 1..Len(new), NEW k \in 1..Len(new[p].items),
                      NEW l \in 1..Len(new[p].items), k < l
               PROVE  new[p].items[k] < new[p].items[l]
    OBVIOUS
  <2>1. CASE p \in 1..Len(s)
    <3>1. new[p] = s[p]
      BY <1>2, <2>1
    <3>2. QED
      BY <2>1, <3>1, InOrder
  <2>2. CASE p = Len(s) + 1
    <3>1. new[p].items = items
      BY <1>2, <2>2
    <3>2. QED
      BY <3>1 DEF Follow
  <2>3. QED
    BY <1>3, <2>1, <2>2
<1>6. ASSUME NEW p \in 1..Len(new), NEW q \in 1..Len(new), p < q
      PROVE  /\ new[p].serial <= new[q].serial
             /\ \A k \in 1..Len(new[p].items), l \in 1..Len(new[q].items) :
                  new[p].items[k] < new[q].items[l]
  <2>1. p \in 1..Len(s)
    BY <1>1, <1>2, <1>6
  <2>2. CASE q \in 1..Len(s)
    <3>1. s[p].serial <= s[q].serial
      BY <1>6, <2>1, <2>2 DEF Ordered
    <3>2. \A k \in 1..Len(s[p].items), l \in 1..Len(s[q].items) : s[p].items[k] < s[q].items[l]
      BY <1>6, <2>1, <2>2 DEF Ordered
    <3>3. QED
      BY <1>2, <2>1, <2>2, <3>1, <3>2
  <2>3. CASE q = Len(s) + 1
    <3>1. new[p] = s[p] /\ new[q].serial = serial /\ new[q].items = items
      BY <1>2, <2>1, <2>3
    <3>2. s[p].serial <= serial
      BY <2>1
    <3>3. \A k \in 1..Len(s[p].items), l \in 1..Len(items) : s[p].items[k] < items[l]
      BY <2>1 DEF Follow
    <3>4. QED
      BY <3>1, <3>2, <3>3
  <2>4. QED
    BY <1>3, <2>2, <2>3
<1>7. Ordered(new)
  <2>1. \A p, q \in 1..Len(new) : p < q => new[p].serial <= new[q].serial
    BY <1>6
  <2>2. \A p, q \in 1..Len(new) : p < q =>
          \A k \in 1..Len(new[p].items), l \in 1..Len(new[q].items) :
            new[p].items[k] < new[q].items[l]
    BY <1>6
  <2>3. QED
    BY <1>2, <1>4, <1>5, <2>1, <2>2 DEF Ordered
<1>8. DOMAIN items = 1..Len(items)
  BY DEF Follow
<1>9. ASSUME NEW p \in 1..Len(new), NEW k \in 1..Len(new[p].items)
      PROVE  Entry(new, p, k) \in d
  <2>1. CASE p \in 1..Len(s)
    BY <1>2, <2>1 DEF Stores, Entry, Enqueue
  <2>2. CASE p = Len(s) + 1
    <3>1. k \in DOMAIN items /\ Entry(new, p, k) = [item |-> items[k], serial |-> serial]
      BY <1>2, <1>8, <2>2 DEF Entry
    <3>2. QED
      BY <3>1 DEF Enqueue
  <2>3. QED
    BY <1>3, <2>1, <2>2
<1>10. ASSUME NEW e \in d
       PROVE  \E p \in 1..Len(new) : \E k \in 1..Len(new[p].items) : e = Entry(new, p, k)
  <2>1. CASE e \in c
    <3>1. PICK p \in 1..Len(s) : \E k \in 1..Len(s[p].items) : e = Entry(s, p, k)
      BY <2>1 DEF Stores
    <3>2. p \in 1..Len(new) /\ new[p] = s[p]
      BY <1>1, <1>2
    <3>3. QED
      BY <3>1, <3>2 DEF Entry
  <2>2. CASE e \notin c
    <3>1. PICK i \in 1..Len(items) : e = [item |-> items[i], serial |-> serial]
      BY <1>8, <2>2 DEF Enqueue
    <3>2. Len(s) + 1 \in 1..Len(new)
      BY <1>1, <1>2
    <3>3. i \in 1..Len(new[Len(s) + 1].items) /\ e = Entry(new, Len(s) + 1, i)
      BY <1>2, <3>1 DEF Entry
    <3>4. QED
      BY <3>2, <3>3
  <2>3. QED
    BY <2>1, <2>2
<1>11. QED
  BY <1>7, <1>9, <1>10 DEF Stores

(* The last pair becomes longer.                                           *)
LEMMA ExtendKeeps ==
  ASSUME NEW s, NEW c, Ordered(s), Stores(s, c), NEW items, Follow(items, s), s # <<>>,
         NEW new, new = [s EXCEPT ![Len(s)].items = @ \o items]
  PROVE  Ordered(new) /\
         Stores(new, Enqueue(c, {items[i] : i \in DOMAIN items}, s[Len(s)].serial))
<1> DEFINE n == Len(s)
           old == s[n].items
           joined == old \o items
           Pair == [serial : Nat, items : Seq(Nat)]
           serial == s[n].serial
           d == Enqueue(c, {items[i] : i \in DOMAIN items}, serial)
<1>1. s \in Seq(Pair) /\ n \in Nat /\ n \in 1..n /\ DOMAIN s = 1..n
  BY EmptySeq, LenProperties DEF Ordered
<1>2. s[n] \in Pair /\ serial \in Nat /\ old \in Seq(Nat) /\ items \in Seq(Nat)
      /\ Len(old) \in Nat /\ Len(items) \in Nat
  <2>1. s[n] \in Pair
    BY <1>1, ElementOfSeq
  <2>2. QED
    BY <2>1 DEF Follow
<1>3. /\ joined \in Seq(Nat) /\ Len(joined) = Len(old) + Len(items)
      /\ \A k \in 1..Len(joined) :
           joined[k] = IF k <= Len(old) THEN old[k] ELSE items[k - Len(old)]
  <2> HIDE DEF old
  <2>1. QED
    BY <1>2, ConcatProperties
<1>4. \A k \in 1..Len(joined) : \/ k \in 1..Len(old) /\ joined[k] = old[k]
                               \/ /\ k - Len(old) \in 1..Len(items)
                                  /\ joined[k] = items[k - Len(old)]
  BY <1>2, <1>3
<1>5. /\ new \in Seq(Pair) /\ Len(new) = n
      /\ \A p \in 1..n : p # n => new[p] = s[p]
      /\ new[n].serial = serial /\ new[n].items = joined
  <2> DEFINE pair == [s[n] EXCEPT !.items = joined]
  <2>1. pair \in Pair /\ pair.serial = serial /\ pair.items = joined
    BY <1>2, <1>3
  <2>2. new = [s EXCEPT ![n] = pair]
    OBVIOUS
  <2> HIDE DEF pair, Pair, joined
  <2>3. new \in Seq(Pair) /\ Len(new) = n
    <3>1. s \in Seq(Pair) /\ n \in 1..Len(s) /\ pair \in Pair
      BY <1>1, <2>1
    <3> HIDE DEF n
    <3>2. [s EXCEPT ![n] = pair] \in Seq(Pair) /\ Len([s EXCEPT ![n] = pair]) = Len(s)
      BY <3>1, ExceptSeq
    <3>3. QED
      BY <2>2, <3>2 DEF n
  <2>4. \A p \in 1..n : p # n => new[p] = s[p]
    BY <1>1, <2>2
  <2>5. new[n] = pair
    BY <1>1, <2>2
  <2>6. QED
    BY <2>1, <2>3, <2>4, <2>5
<1> HIDE DEF joined
<1>6. \A p \in 1..Len(new) : new[p].serial = s[p].serial
  BY <1>5
<1>7. \A p \in 1..Len(new) : Len(new[p].items) > 0
  BY <1>2, <1>3, <1>5 DEF Follow, Ordered
<1>8. \A p \in 1..Len(new) : \A k, l \in 1..Len(new[p].items) :
        k < l => new[p].items[k] < new[p].items[l]
  <2> SUFFICES ASSUME NEW p \in 1..Len(new), NEW k \in 1..Len(new[p].items),
                      NEW l \in 1..Len(new[p].items), k < l
               PROVE  new[p].items[k] < new[p].items[l]
    OBVIOUS
  <2>1. CASE p # n
    BY <1>5, <2>1, InOrder
  <2>2. CASE p = n
    <3>1. k \in 1..Len(joined) /\ l \in 1..Len(joined)
      BY <1>5, <2>2
    <3>2. CASE k \in 1..Len(old) /\ l \in 1..Len(old)
      <4>1. joined[k] = old[k] /\ joined[l] = old[l]
        BY <1>3, <3>1, <3>2
      <4>2. old[k] < old[l]
        BY <1>1, <3>2, InOrder
      <4>3. QED
        BY <1>5, <2>2, <4>1, <4>2
    <3>3. CASE k \in 1..Len(old) /\ l \notin 1..Len(old)
      <4>1. joined[k] = old[k]
        BY <1>3, <3>1, <3>3
      <4>2. l - Len(old) \in 1..Len(items) /\ joined[l] = items[l - Len(old)]
        BY <1>4, <3>1, <3>3
      <4>3. old[k] < items[l - Len(old)]
        BY <1>1, <3>3, <4>2 DEF Follow
      <4>4. QED
        BY <1>5, <2>2, <4>1, <4>2, <4>3
    <3>4. CASE k \notin 1..Len(old)
      <4>1. k - Len(old) \in 1..Len(items) /\ joined[k] = items[k - Len(old)]
        BY <1>4, <3>1, <3>4
      <4>2. l \notin 1..Len(old)
        BY <1>2, <1>3, <3>1, <3>4
      <4>3. l - Len(old) \in 1..Len(items) /\ joined[l] = items[l - Len(old)]
        BY <1>4, <3>1, <4>2
      <4>4. k - Len(old) < l - Len(old)
        BY <1>2, <1>3, <3>1
      <4>5. items[k - Len(old)] < items[l - Len(old)]
        BY <4>1, <4>3, <4>4 DEF Follow
      <4>6. QED
        BY <1>5, <2>2, <4>1, <4>3, <4>5
    <3>5. QED
      BY <3>2, <3>3, <3>4
  <2>3. QED
    BY <2>1, <2>2
<1>9. ASSUME NEW p \in 1..Len(new), NEW q \in 1..Len(new), p < q,
             NEW k \in 1..Len(new[p].items), NEW l \in 1..Len(new[q].items)
      PROVE  new[p].items[k] < new[q].items[l]
  <2>1. p # n /\ p \in 1..n /\ q \in 1..n
    BY <1>1, <1>5, <1>9
  <2>2. new[p] = s[p] /\ k \in 1..Len(s[p].items)
    BY <1>5, <2>1
  <2>3. CASE q # n
    BY <1>5, <1>9, <2>1, <2>2, <2>3, InOrder
  <2>4. CASE q = n
    <3>1. l \in 1..Len(joined)
      BY <1>5, <2>4
    <3>2. CASE l \in 1..Len(old)
      <4>1. s[p].items[k] < old[l]
        BY <1>9, <2>1, <2>2, <2>4, <3>2, InOrder
      <4>2. joined[l] = old[l]
        BY <1>3, <3>1, <3>2
      <4>3. QED
        BY <1>5, <2>2, <2>4, <4>1, <4>2
    <3>3. CASE l \notin 1..Len(old)
      <4>1. l - Len(old) \in 1..Len(items) /\ joined[l] = items[l - Len(old)]
        BY <1>4, <3>1, <3>3
      <4>2. s[p].items[k] < items[l - Len(old)]
        BY <2>1, <2>2, <4>1 DEF Follow
      <4>3. QED
        BY <1>5, <2>2, <2>4, <4>1, <4>2
    <3>4. QED
      BY <3>2, <3>3
  <2>5. QED
    BY <2>3, <2>4
<1>10. Ordered(new)
  <2>1. \A p, q \in 1..Len(new) : p < q => new[p].serial <= new[q].serial
    BY <1>5, <1>6 DEF Ordered
  <2>2. \A p, q \in 1..Len(new) : p < q =>
          \A k \in 1..Len(new[p].items), l \in 1..Len(new[q].items) :
            new[p].items[k] < new[q].items[l]
    BY <1>9
  <2>3. QED
    BY <1>5, <1>7, <1>8, <2>1, <2>2 DEF Ordered
<1>11. DOMAIN items = 1..Len(items)
  BY DEF Follow
<1>12. ASSUME NEW p \in 1..Len(new), NEW k \in 1..Len(new[p].items)
       PROVE  Entry(new, p, k) \in d
  <2>1. CASE p # n
    BY <1>5, <2>1 DEF Stores, Entry, Enqueue
  <2>2. CASE p = n
    <3>1. k \in 1..Len(joined) /\ Entry(new, p, k) = [item |-> joined[k], serial |-> serial]
      BY <1>5, <2>2 DEF Entry
    <3>2. CASE k \in 1..Len(old)
      <4>1. Entry(new, p, k) = Entry(s, n, k)
        BY <1>3, <3>1, <3>2, SMTT(30) DEF Entry
      <4>2. Entry(s, n, k) \in c
        BY <1>1, <3>2 DEF Stores
      <4>3. QED
        BY <4>1, <4>2 DEF Enqueue
    <3>3. CASE k \notin 1..Len(old)
      <4>1. k - Len(old) \in DOMAIN items /\ joined[k] = items[k - Len(old)]
        BY <1>4, <1>11, <3>1, <3>3
      <4>2. QED
        BY <3>1, <4>1 DEF Enqueue
    <3>4. QED
      BY <3>2, <3>3
  <2>3. QED
    BY <2>1, <2>2
<1>13. ASSUME NEW e \in d
       PROVE  \E p \in 1..Len(new) : \E k \in 1..Len(new[p].items) : e = Entry(new, p, k)
  <2>1. CASE e \in c
    <3>1. PICK p \in 1..Len(s) : \E k \in 1..Len(s[p].items) : e = Entry(s, p, k)
      BY <2>1 DEF Stores
    <3>2. PICK k \in 1..Len(s[p].items) : e = Entry(s, p, k)
      BY <3>1
    <3>3. CASE p # n
      BY <1>5, <3>2, <3>3 DEF Entry
    <3>4. CASE p = n
      <4>1. k \in 1..Len(joined) /\ joined[k] = old[k]
        <5>1. k \in 1..Len(old)
          BY <3>4
        <5>2. k \in 1..Len(joined) /\ k <= Len(old)
          BY <1>2, <1>3, <5>1
        <5>3. QED
          BY <1>3, <5>2
      <4>2. k \in 1..Len(new[n].items) /\ e = Entry(new, n, k)
        BY <1>5, <3>2, <3>4, <4>1 DEF Entry
      <4>3. QED
        BY <1>1, <1>5, <4>2
    <3>5. QED
      BY <3>3, <3>4
  <2>2. CASE e \notin c
    <3>1. PICK i \in 1..Len(items) : e = [item |-> items[i], serial |-> serial]
      BY <1>11, <2>2 DEF Enqueue
    <3>2. Len(old) + i \in 1..Len(joined) /\ joined[Len(old) + i] = items[i]
      <4>1. Len(old) + i \in 1..Len(joined) /\ ~ (Len(old) + i <= Len(old))
            /\ Len(old) + i - Len(old) = i
        BY <1>2, <1>3, SMTT(30)
      <4>2. QED
        BY <1>3, <4>1, SMTT(30)
    <3>3. e = Entry(new, n, Len(old) + i) /\ Len(old) + i \in 1..Len(new[n].items)
      BY <1>5, <3>1, <3>2 DEF Entry
    <3>4. QED
      BY <1>1, <1>5, <3>3
  <2>3. QED
    BY <2>1, <2>2
<1>14. QED
  BY <1>10, <1>12, <1>13 DEF Stores

(* The pairs of serials up to one are gone.                                *)
LEMMA SuffixKeeps ==
  ASSUME Ordered(mStorage), Stores(mStorage, contents), NEW serial \in Nat, NEW new,
         new = SubSeq(mStorage, FindUpTo(serial), Len(mStorage))
  PROVE  Ordered(new) /\ Stores(new, ClearUpTo(contents, serial))
<1> DEFINE s == mStorage
           Pair == [serial : Nat, items : Seq(Nat)]
           f == FindUpTo(serial)
           n == Len(s)
           d == ClearUpTo(contents, serial)
<1>1. s \in Seq(Pair) /\ n \in Nat
  BY OrderedTypes DEF Ordered
<1>2. f \in 1..n + 1 /\ IsUpTo(f, serial)
  BY FindUpToFinds
<1>3. new = SubSeq(s, f, n)
  OBVIOUS
<1> HIDE DEF Pair, f
<1>4. /\ new \in Seq(Pair) /\ Len(new) = n - f + 1
      /\ \A p \in 1..Len(new) : new[p] = s[f + p - 1]
  <2>1. \A i \in f..n : s[i] \in Pair
    BY <1>1, <1>2, ElementOfSeq
  <2>2. f \in Int /\ n \in Int
    BY <1>1, <1>2
  <2> HIDE DEF s, n
  <2>3. /\ SubSeq(s, f, n) \in Seq(Pair)
        /\ Len(SubSeq(s, f, n)) = IF f <= n THEN n - f + 1 ELSE 0
        /\ \A i \in 1..(n - f + 1) : SubSeq(s, f, n)[i] = s[f + i - 1]
    BY <2>1, <2>2, SubSeqProperties
  <2>4. f <= n \/ n - f + 1 = 0
    BY <1>1, <1>2
  <2>5. Len(new) = n - f + 1
    BY <1>3, <2>3, <2>4
  <2>6. QED
    BY <1>3, <2>3, <2>5
<1>5. \A p \in 1..Len(new) : f + p - 1 \in 1..n
  BY <1>1, <1>2, <1>4
<1>6. ASSUME NEW p \in 1..Len(new)
      PROVE  /\ Len(new[p].items) > 0
             /\ \A k, l \in 1..Len(new[p].items) : k < l => new[p].items[k] < new[p].items[l]
  <2>1. f + p - 1 \in 1..n /\ new[p] = s[f + p - 1]
    BY <1>4, <1>5
  <2>2. Len(s[f + p - 1].items) > 0
    BY <2>1 DEF Ordered
  <2>3. \A k, l \in 1..Len(s[f + p - 1].items) :
          k < l => s[f + p - 1].items[k] < s[f + p - 1].items[l]
    BY <2>1 DEF Ordered
  <2>4. QED
    BY <2>1, <2>2, <2>3
<1>7. ASSUME NEW p \in 1..Len(new), NEW q \in 1..Len(new), p < q
      PROVE  /\ new[p].serial <= new[q].serial
             /\ \A k \in 1..Len(new[p].items), l \in 1..Len(new[q].items) :
                  new[p].items[k] < new[q].items[l]
  <2>1. PICK i, j \in 1..n : i = f + p - 1 /\ j = f + q - 1
    BY <1>5
  <2>2. i < j /\ new[p] = s[i] /\ new[q] = s[j]
    BY <1>1, <1>2, <1>4, <1>7, <2>1
  <2>3. s[i].serial <= s[j].serial
    BY <2>2 DEF Ordered
  <2>4. \A k \in 1..Len(s[i].items), l \in 1..Len(s[j].items) : s[i].items[k] < s[j].items[l]
    BY <2>2 DEF Ordered
  <2>5. QED
    BY <2>2, <2>3, <2>4
<1>8. Ordered(new)
  <2>1. \A p, q \in 1..Len(new) : p < q => new[p].serial <= new[q].serial
    BY <1>7
  <2>2. \A p, q \in 1..Len(new) : p < q =>
          \A k \in 1..Len(new[p].items), l \in 1..Len(new[q].items) :
            new[p].items[k] < new[q].items[l]
    BY <1>7
  <2>3. QED
    BY <1>4, <1>6, <2>1, <2>2 DEF Ordered, Pair
<1>9. \A p \in 1..n : s[p].serial <= serial <=> p < f
  BY <1>2, UpToIsBefore
<1>10. ASSUME NEW p \in 1..Len(new), NEW k \in 1..Len(new[p].items)
       PROVE  Entry(new, p, k) \in d
  <2>1. PICK i \in 1..n : i = f + p - 1 /\ new[p] = s[i]
    BY <1>4, <1>5
  <2>2. Entry(new, p, k) \in contents /\ Entry(new, p, k).serial = s[i].serial
    BY <2>1 DEF Stores, Entry
  <2>3. ~ (i < f)
    BY <1>1, <1>2, <2>1
  <2>4. ~ (s[i].serial <= serial)
    BY <1>9, <2>3
  <2>5. QED
    BY <2>2, <2>4 DEF ClearUpTo, UpTo
<1>11. ASSUME NEW e \in d
       PROVE  \E p \in 1..Len(new) : \E k \in 1..Len(new[p].items) : e = Entry(new, p, k)
  <2>1. e \in contents /\ ~ (e.serial <= serial)
    BY DEF ClearUpTo, UpTo
  <2>2. PICK i \in 1..n : \E k \in 1..Len(s[i].items) : e = Entry(s, i, k)
    BY <2>1 DEF Stores
  <2>3. PICK k \in 1..Len(s[i].items) : e = Entry(s, i, k)
    BY <2>2
  <2>4. ~ (i < f)
    BY <1>9, <2>1, <2>3 DEF Entry
  <2>5. i - f + 1 \in 1..Len(new) /\ f + (i - f + 1) - 1 = i
    BY <1>1, <1>2, <1>4, <2>4, SMTT(30)
  <2>6. new[i - f + 1] = s[i]
    BY <1>4, <2>5
  <2>7. k \in 1..Len(new[i - f + 1].items) /\ e = Entry(new, i - f + 1, k)
    BY <2>3, <2>6 DEF Entry
  <2>8. QED
    BY <2>5, <2>7
<1>12. QED
  BY <1>8, <1>10, <1>11 DEF Stores

(* Nothing is in a vector without pairs.                                   *)
LEMMA EmptyKeeps ==
  Ordered(<<>>) /\ Stores(<<>>, {})
<1>1. \A p \in 1..Len(<<>>) : FALSE
  OBVIOUS
<1>2. <<>> \in Seq([serial : Nat, items : Seq(Nat)])
  OBVIOUS
<1>3. QED
  BY <1>1, <1>2 DEF Ordered, Stores

(* A loop begins, with its end where FindUpTo finds it.                    *)
LEMMA LoopBegins ==
  ASSUME QueueInv, IterateUpTo
  PROVE  QueueInv'
<1>1. PICK serial \in Serials :
        /\ iteration' = [at |-> "test", storage |-> 1, item |-> 0, end |-> FindUpTo(serial),
                         serial |-> serial]
        /\ visited' = <<>>
        /\ UNCHANGED <<mStorage, contents, moved, undefined>>
  BY DEF IterateUpTo
<1> DEFINE f == FindUpTo(serial)
           it == [at |-> "test", storage |-> 1, item |-> 0, end |-> f, serial |-> serial]
<1>2. Ordered(mStorage) /\ Stores(mStorage, contents) /\ moved = {} /\ serial \in Nat
  BY SerialsAssumption DEF QueueInv
<1>3. f \in 1..Len(mStorage) + 1 /\ IsUpTo(f, serial) /\ Len(mStorage) \in Nat
  BY <1>2, FindUpToFinds, OrderedTypes
<1> HIDE DEF f
<1>4. Within(mStorage, it)
  <2>1. 1 < f => 0 < Len(mStorage[1].items)
    BY <1>2, <1>3 DEF Ordered
  <2>2. QED
    BY <1>2, <1>3, <2>1 DEF Within, IsUpTo
<1>5. Saw(mStorage, it, <<>>)
  <2>1. \A p \in 1..Len(mStorage) : \A k \in 1..Len(mStorage[p].items) : ~ Seen(it, p, k)
    <3> SUFFICES ASSUME NEW p \in 1..Len(mStorage), NEW k \in 1..Len(mStorage[p].items)
                 PROVE  ~ Seen(it, p, k)
      OBVIOUS
    <3>1. it.storage = 1 /\ it.item = 0 /\ it.at = "test"
      OBVIOUS
    <3> HIDE DEF it
    <3>2. QED
      BY <1>2, <1>3, <3>1, OrderedTypes DEF Seen
  <2>2. <<>> \in Seq(Nat) /\ \A i \in 1..Len(<<>>) : FALSE
    OBVIOUS
  <2>3. QED
    BY <2>1, <2>2 DEF Saw
<1>6. Looping(mStorage, it, <<>>)
  <2>1. it.at = "test"
    OBVIOUS
  <2>2. QED
    BY <1>4, <1>5, <2>1 DEF Looping
<1>7. iteration' = it /\ visited' = <<>> /\ mStorage' = mStorage /\ contents' = contents
      /\ moved' = moved
  BY <1>1 DEF f
<1> HIDE DEF it
<1>8. QED
  BY <1>2, <1>6, <1>7 DEF QueueInv

(* The body of the loop sees the next item.                                *)
LEMMA LoopDereferences ==
  ASSUME QueueInv, Dereference
  PROVE  QueueInv'
<1> DEFINE s == mStorage
           it == iteration
           new == [it EXCEPT !.at = "body"]
           item == s[it.storage].items[it.item + 1]
<1>1. /\ Ordered(s) /\ Stores(s, contents) /\ moved = {}
      /\ Looping(s, it, visited) /\ Within(s, it) /\ Saw(s, it, visited) /\ it.at = "test"
      /\ Len(s) \in Nat
  BY OrderedTypes DEF QueueInv, Looping, Dereference
<1>2. /\ new = [at |-> "body", storage |-> it.storage, item |-> it.item, end |-> it.end,
                serial |-> it.serial]
      /\ new.at = "body" /\ new.storage = it.storage /\ new.item = it.item
      /\ new.end = it.end /\ new.serial = it.serial
  BY <1>1 DEF Looping
<1>3. it.storage \in 1..Len(s) /\ it.storage < it.end
  BY <1>1 DEF Dereference, LoopIsOver, Within
<1>4. it.item \in Nat /\ it.item + 1 \in 1..Len(s[it.storage].items)
  BY <1>1, <1>3, OrderedTypes DEF Within
<1>5. visited \in Seq(Nat) /\ Len(visited) \in Nat /\ item \in Nat
  BY <1>1, <1>3, <1>4, OrderedTypes, SMTT(30) DEF Saw
<1> HIDE DEF new
<1>6. Within(s, new)
  BY <1>1, <1>2, <1>3 DEF Within
<1>7. ASSUME NEW p \in 1..Len(s), NEW k \in 1..Len(s[p].items)
      PROVE  Seen(new, p, k) <=> Seen(it, p, k) \/ (p = it.storage /\ k = it.item + 1)
  <2>1. Len(s[p].items) \in Nat
    BY <1>1, OrderedTypes
  <2>2. QED
    BY <1>1, <1>2, <1>3, <1>4, <2>1 DEF Seen
<1>8. ASSUME NEW p \in 1..Len(s), NEW k \in 1..Len(s[p].items), Seen(it, p, k)
      PROVE  s[p].items[k] < item
  <2>1. p < it.storage \/ (p = it.storage /\ k < it.item + 1)
    <3>1. Len(s[p].items) \in Nat
      BY <1>1, OrderedTypes
    <3>2. QED
      BY <1>1, <1>4, <1>8, <3>1 DEF Seen
  <2>2. QED
    BY <1>1, <1>3, <1>4, <2>1, InOrder
<1> DEFINE v == Append(visited, item)
           n == Len(visited)
<1>9. v \in Seq(Nat) /\ Len(v) = n + 1 /\ v[n + 1] = item /\ \A i \in 1..n : v[i] = visited[i]
  <2> HIDE DEF item
  <2>1. QED
    BY <1>5
<1> HIDE DEF v, item
<1>10. \A i \in 1..Len(v) : i \in 1..n \/ i = n + 1
  BY <1>5, <1>9
<1>11. \A i, j \in 1..Len(v) : i < j => v[i] < v[j]
  <2> SUFFICES ASSUME NEW i \in 1..Len(v), NEW j \in 1..Len(v), i < j PROVE v[i] < v[j]
    OBVIOUS
  <2>1. i \in 1..n /\ v[i] = visited[i]
    BY <1>5, <1>9
  <2>2. CASE j \in 1..n
    BY <1>1, <1>9, <2>1, <2>2 DEF Saw
  <2>3. CASE j = n + 1
    <3>1. PICK p \in 1..Len(s) : \E k \in 1..Len(s[p].items) :
            Seen(it, p, k) /\ visited[i] = s[p].items[k]
      BY <1>1, <2>1 DEF Saw
    <3>2. QED
      BY <1>8, <1>9, <2>1, <2>3, <3>1
  <2>4. QED
    BY <1>10, <2>2, <2>3
<1>12. ASSUME NEW i \in 1..Len(v)
       PROVE  \E p \in 1..Len(s) : \E k \in 1..Len(s[p].items) :
                Seen(new, p, k) /\ v[i] = s[p].items[k]
  <2>1. CASE i \in 1..n
    <3>1. PICK p \in 1..Len(s) : \E k \in 1..Len(s[p].items) :
            Seen(it, p, k) /\ visited[i] = s[p].items[k]
      BY <1>1, <2>1 DEF Saw
    <3>2. QED
      BY <1>7, <1>9, <2>1, <3>1
  <2>2. CASE i = n + 1
    <3>1. Seen(new, it.storage, it.item + 1)
      BY <1>3, <1>4, <1>7
    <3>2. QED
      BY <1>3, <1>4, <1>9, <2>2, <3>1 DEF item
  <2>3. QED
    BY <1>10, <2>1, <2>2
<1>13. ASSUME NEW p \in 1..Len(s), NEW k \in 1..Len(s[p].items), Seen(new, p, k)
       PROVE  \E i \in 1..Len(v) : v[i] = s[p].items[k]
  <2>1. CASE Seen(it, p, k)
    <3>1. PICK i \in 1..n : visited[i] = s[p].items[k]
      BY <1>1, <2>1 DEF Saw
    <3>2. i \in 1..Len(v) /\ v[i] = visited[i]
      BY <1>5, <1>9
    <3>3. QED
      BY <3>1, <3>2
  <2>2. CASE p = it.storage /\ k = it.item + 1
    <3>1. n + 1 \in 1..Len(v)
      BY <1>5, <1>9
    <3>2. QED
      BY <1>9, <2>2, <3>1 DEF item
  <2>3. QED
    BY <1>7, <1>13, <2>1, <2>2
<1>14. Saw(s, new, v)
  BY <1>9, <1>11, <1>12, <1>13 DEF Saw
<1>15. Looping(s, new, v)
  BY <1>2, <1>6, <1>14 DEF Looping
<1>16. iteration' = new /\ visited' = v /\ mStorage' = s /\ contents' = contents
       /\ moved' = moved
  BY DEF Dereference, new, v, item
<1>17. QED
  BY <1>1, <1>15, <1>16 DEF QueueInv

(* The iterator goes to the next item, of the same pair or of the next.    *)
LEMMA LoopAdvances ==
  ASSUME QueueInv, Advance
  PROVE  QueueInv'
<1> DEFINE s == mStorage
           it == iteration
           last == it.item + 1 >= Len(s[it.storage].items)
           new == IF last THEN [it EXCEPT !.at = "test", !.storage = @ + 1, !.item = 0]
                  ELSE [it EXCEPT !.at = "test", !.item = @ + 1]
<1>1. /\ Ordered(s) /\ Stores(s, contents) /\ moved = {}
      /\ Looping(s, it, visited) /\ Within(s, it) /\ Saw(s, it, visited) /\ it.at = "body"
      /\ Len(s) \in Nat
  BY OrderedTypes DEF QueueInv, Looping, Advance
<1>2. /\ it.storage \in 1..Len(s) /\ it.storage < it.end /\ it.item \in Nat
      /\ it.item < Len(s[it.storage].items) /\ it.end \in 1..Len(s) + 1
      /\ it.storage + 1 \in 1..Len(s) + 1
  BY <1>1 DEF Within
<1>3. \A p \in 1..Len(s) : Len(s[p].items) \in Nat /\ Len(s[p].items) > 0
  BY <1>1, OrderedTypes DEF Ordered
<1>4. /\ new = [at |-> new.at, storage |-> new.storage, item |-> new.item, end |-> new.end,
                serial |-> new.serial]
      /\ new.at = "test" /\ new.end = it.end /\ new.serial = it.serial
      /\ new.storage = (IF last THEN it.storage + 1 ELSE it.storage)
      /\ new.item = (IF last THEN 0 ELSE it.item + 1)
  BY <1>1 DEF Looping
<1>5. iteration' = new /\ visited' = visited /\ mStorage' = s /\ contents' = contents
       /\ moved' = {}
  BY <1>1 DEF Advance
<1> HIDE DEF new
<1>6. Within(s, new)
  <2>1. new.storage < new.end => new.item < Len(s[new.storage].items)
    BY <1>2, <1>3, <1>4
  <2>2. new.storage = new.end => new.item = 0
    BY <1>2, <1>4
  <2>3. new.storage \in 1..Len(s) + 1 /\ new.item \in Nat /\ new.storage <= new.end
    BY <1>2, <1>4
  <2>4. QED
    BY <1>1, <1>4, <2>1, <2>2, <2>3 DEF Within
<1>7. ASSUME NEW p \in 1..Len(s), NEW k \in 1..Len(s[p].items)
      PROVE  Seen(new, p, k) <=> Seen(it, p, k)
  <2>1. CASE last
    BY <1>1, <1>2, <1>3, <1>4, <2>1 DEF Seen
  <2>2. CASE ~ last
    BY <1>1, <1>2, <1>3, <1>4, <2>2 DEF Seen
  <2>3. QED
    BY <2>1, <2>2
<1>8. Saw(s, new, visited)
  BY <1>1, <1>7 DEF Saw
<1>9. Looping(s, new, visited)
  BY <1>4, <1>6, <1>8 DEF Looping
<1>10. QED
  BY <1>1, <1>5, <1>9 DEF QueueInv

(* Without a loop, there is nothing to say of one.                         *)
LEMMA NoLoop ==
  ASSUME NEW s, NEW it, NEW v, it = NotIterating
  PROVE  Looping(s, it, v)
BY DEF Looping, NotIterating

(* Enqueueing, when the bodies of loops do not.                            *)
LEMMA GrowKeeps ==
  ASSUME QueueInv, ~Reentrant, NEW n \in Nat, NEW serial \in Serials, MayEnqueue(n, serial),
         NEW storage, NEW items, NEW grows, Grow(storage, items, serial, grows),
         Ordered(storage),
         Stores(storage, Enqueue(contents, {items[i] : i \in DOMAIN items}, serial))
  PROVE  QueueInv'
<1>1. iteration.at = "none" /\ Looping(mStorage, iteration, visited) /\ moved = {}
  BY DEF MayEnqueue, QueueInv
<1>2. /\ mStorage' = storage
      /\ contents' = Enqueue(contents, {items[i] : i \in DOMAIN items}, serial)
      /\ iteration' = iteration /\ visited' = visited
  BY DEF Grow
<1>3. moved' = {}
  BY <1>1 DEF Grow, PointedTo
<1>4. Looping(storage, iteration, visited)
  BY <1>1 DEF Looping
<1>5. QED
  BY <1>2, <1>3, <1>4 DEF QueueInv

(* Every serial of a queue that may get another one is at most that.       *)
LEMMA SerialsGrow ==
  ASSUME Ordered(mStorage), NEW n, NEW serial \in Nat, MayEnqueue(n, serial),
         NEW p \in 1..Len(mStorage)
  PROVE  mStorage[p].serial <= serial
<1>1. Len(mStorage) \in Nat /\ mStorage \in Seq([serial : Nat, items : Seq(Nat)])
  BY OrderedTypes DEF Ordered
<1>2. Len(mStorage) \in 1..Len(mStorage) /\ mStorage # <<>>
  BY <1>1, EmptySeq
<1>3. mStorage[Len(mStorage)].serial <= serial
  BY <1>2 DEF MayEnqueue, back
<1>4. p = Len(mStorage) \/ mStorage[p].serial <= mStorage[Len(mStorage)].serial
  <2>1. p = Len(mStorage) \/ p < Len(mStorage)
    BY <1>1
  <2>2. QED
    BY <1>2, <2>1 DEF Ordered
<1>5. mStorage[p].serial \in Nat /\ mStorage[Len(mStorage)].serial \in Nat
  BY <1>2, OrderedTypes
<1>6. QED
  BY <1>3, <1>4, <1>5

(* Every step of a queue whose loops do not enqueue keeps its vectors and  *)
(* the loop's place in them right.                                         *)
LEMMA QueueStep ==
  ASSUME QueueInv, ~Reentrant, [QueueNext]_queueVars
  PROVE  QueueInv'
<1>1. Ordered(mStorage) /\ Stores(mStorage, contents) /\ moved = {}
      /\ Len(mStorage) \in Nat /\ mStorage \in Seq([serial : Nat, items : Seq(Nat)])
  BY OrderedTypes DEF QueueInv, Ordered
<1>2. CASE EnqueueValue
  <2> DEFINE items == NewItems(1)
  <2>1. PICK serial \in Serials :
          /\ MayEnqueue(1, serial)
          /\ IF NeedsPair(serial)
             THEN Grow(Append(mStorage, [serial |-> serial, items |-> items]), items, serial,
                       {"storage"})
             ELSE Grow([mStorage EXCEPT ![Len(mStorage)].items = @ \o items], items, serial,
                       {"items"})
    BY <1>2 DEF EnqueueValue
  <2>2. Follow(items, mStorage) /\ serial \in Nat
    BY <1>1, NewItemsFollow, SerialsAssumption
  <2> HIDE DEF items
  <2>3. CASE NeedsPair(serial)
    <3> DEFINE new == Append(mStorage, [serial |-> serial, items |-> items])
    <3>1. Grow(new, items, serial, {"storage"})
      BY <2>1, <2>3
    <3>2. \A p \in 1..Len(mStorage) : mStorage[p].serial <= serial
      BY <1>1, <2>1, <2>2, SerialsGrow
    <3>3. Ordered(new) /\ Stores(new, Enqueue(contents, {items[i] : i \in DOMAIN items}, serial))
      BY <1>1, <2>2, <3>2, AppendKeeps
    <3> HIDE DEF new
    <3>4. QED
      BY <2>1, <3>1, <3>3, GrowKeeps
  <2>4. CASE ~NeedsPair(serial)
    <3> DEFINE new == [mStorage EXCEPT ![Len(mStorage)].items = @ \o items]
    <3>1. Grow(new, items, serial, {"items"})
      BY <2>1, <2>4
    <3>2. mStorage # <<>> /\ mStorage[Len(mStorage)].serial = serial
      <4>1. mStorage # <<>> /\ ~ (back.serial < serial) /\ back.serial <= serial
        BY <2>1, <2>4 DEF NeedsPair, MayEnqueue
      <4>2. Len(mStorage) \in 1..Len(mStorage)
        BY <1>1, <4>1, EmptySeq
      <4>3. back.serial \in Nat
        BY <1>1, <4>2, OrderedTypes DEF back
      <4>4. QED
        BY <2>2, <4>1, <4>3 DEF back
    <3>3. Ordered(new) /\ Stores(new, Enqueue(contents, {items[i] : i \in DOMAIN items}, serial))
      BY <1>1, <2>2, <3>2, ExtendKeeps
    <3> HIDE DEF new
    <3>4. QED
      BY <2>1, <3>1, <3>3, GrowKeeps
  <2>5. QED
    BY <2>3, <2>4
<1>3. CASE EnqueueValues
  <2>1. PICK serial \in Serials, n \in 1..2 :
          /\ MayEnqueue(n, serial)
          /\ Grow(Append(mStorage, [serial |-> serial, items |-> NewItems(n)]), NewItems(n),
                  serial, {"storage"})
    BY <1>3 DEF EnqueueValues
  <2> DEFINE items == NewItems(n)
             new == Append(mStorage, [serial |-> serial, items |-> items])
  <2>2. Follow(items, mStorage) /\ serial \in Nat
    BY <1>1, NewItemsFollow, SerialsAssumption
  <2>3. Grow(new, items, serial, {"storage"})
    BY <2>1
  <2> HIDE DEF items
  <2>4. \A p \in 1..Len(mStorage) : mStorage[p].serial <= serial
    BY <1>1, <2>1, <2>2, SerialsGrow
  <2>5. Ordered(new) /\ Stores(new, Enqueue(contents, {items[i] : i \in DOMAIN items}, serial))
    BY <1>1, <2>2, <2>4, AppendKeeps
  <2> HIDE DEF new
  <2>6. QED
    BY <2>1, <2>3, <2>5, GrowKeeps
<1>4. CASE IterateUpTo
  BY <1>4, LoopBegins
<1>5. CASE Dereference
  BY <1>5, LoopDereferences
<1>6. CASE Advance
  BY <1>6, LoopAdvances
<1>7. CASE ClearStorageUpTo
  <2>1. PICK serial \in Serials :
          /\ iteration' = NotIterating
          /\ mStorage' = SubSeq(mStorage, FindUpTo(serial), Len(mStorage))
          /\ contents' = ClearUpTo(contents, serial)
          /\ UNCHANGED <<moved, undefined>>
    BY <1>7 DEF ClearStorageUpTo
  <2>2. Ordered(mStorage') /\ Stores(mStorage', contents')
    <3> DEFINE new == SubSeq(mStorage, FindUpTo(serial), Len(mStorage))
    <3>1. serial \in Nat
      BY SerialsAssumption
    <3>2. Ordered(new) /\ Stores(new, ClearUpTo(contents, serial))
      BY <1>1, <3>1, SuffixKeeps
    <3>3. QED
      BY <2>1, <3>2
  <2>3. Looping(mStorage', iteration', visited')
    BY <2>1, NoLoop
  <2>4. moved' = {}
    BY <1>1, <2>1
  <2>5. QED
    BY <2>2, <2>3, <2>4 DEF QueueInv
<1>8. CASE ClearStorage
  <2>1. /\ mStorage' = <<>> /\ contents' = {}
        /\ UNCHANGED <<iteration, visited, moved, undefined>> /\ iteration.at = "none"
    BY <1>8 DEF ClearStorage
  <2>2. Ordered(mStorage') /\ Stores(mStorage', contents')
    BY <2>1, EmptyKeeps
  <2>3. Looping(mStorage', iteration', visited')
    BY <2>1 DEF QueueInv, Looping
  <2>4. moved' = {}
    BY <1>1, <2>1
  <2>5. QED
    BY <2>2, <2>3, <2>4 DEF QueueInv
<1>9. CASE UNCHANGED queueVars
  BY <1>9 DEF queueVars, QueueInv
<1>10. QED
  BY <1>2, <1>3, <1>4, <1>5, <1>6, <1>7, <1>8, <1>9 DEF QueueNext, Loop

(* SerialQueue.h: a loop over a queue sees exactly what the devices        *)
(* enqueued for serials up to its own, in order, for every serial and      *)
(* however the values were enqueued and cleared, as long as its body does  *)
(* not enqueue.                                                            *)
THEOREM LoopsSeeTheirItems ==
  ~Reentrant => (QueueSpec => []IteratesUpTo)
<1> SUFFICES ASSUME ~Reentrant PROVE QueueSpec => []IteratesUpTo
  OBVIOUS
<1>1. QueueInit => QueueInv
  <2>1. SUFFICES ASSUME QueueInit PROVE QueueInv
    OBVIOUS
  <2>2. Looping(mStorage, iteration, visited)
    BY <2>1, NoLoop DEF QueueInit
  <2>3. QED
    BY <2>1, <2>2, EmptyKeeps DEF QueueInit, QueueInv
<1>2. QueueInv /\ [QueueNext]_queueVars => QueueInv'
  BY QueueStep
<1>3. QueueInv => IteratesUpTo
  BY QueueInvImplies
<1>4. QED
  BY <1>1, <1>2, <1>3, PTL DEF QueueSpec

(* SerialQueue.h: the vector of pairs holds exactly the entries of the     *)
(* queue that the devices' models use, in the order of their serials, and  *)
(* no iterator is used after what it points into moved.                    *)
THEOREM StorageHoldsTheQueue ==
  ~Reentrant =>
    (QueueSpec => [](Ordered(mStorage) /\ Stores(mStorage, contents) /\ IteratorsStayValid))
<1> SUFFICES ASSUME ~Reentrant
             PROVE  QueueSpec => [](Ordered(mStorage) /\ Stores(mStorage, contents)
                                    /\ IteratorsStayValid)
  OBVIOUS
<1> DEFINE WholeInv == QueueInv /\ IteratorsStayValid
<1>1. QueueInit => WholeInv
  <2>1. SUFFICES ASSUME QueueInit PROVE WholeInv
    OBVIOUS
  <2>2. Looping(mStorage, iteration, visited)
    BY <2>1, NoLoop DEF QueueInit
  <2>3. QED
    BY <2>1, <2>2, EmptyKeeps DEF QueueInit, QueueInv, IteratorsStayValid
<1>2. WholeInv /\ [QueueNext]_queueVars => WholeInv'
  <2>1. SUFFICES ASSUME WholeInv, [QueueNext]_queueVars PROVE WholeInv'
    OBVIOUS
  <2>2. QueueInv'
    BY <2>1, QueueStep
  <2>3. ~undefined /\ moved = {}
    BY <2>1 DEF IteratorsStayValid, QueueInv
  <2>4. ~undefined'
    BY <2>1, <2>3 DEF QueueNext, Loop, EnqueueValue, EnqueueValues, Grow, IterateUpTo, Dereference,
                      Advance, ClearStorageUpTo, ClearStorage, queueVars
  <2>5. QED
    BY <2>2, <2>4 DEF IteratorsStayValid
<1>3. WholeInv => Ordered(mStorage) /\ Stores(mStorage, contents) /\ IteratorsStayValid
  BY DEF QueueInv
<1>4. QED
  BY <1>1, <1>2, <1>3, PTL DEF QueueSpec

-----------------------------------------------------------------------------
(* The functions, and for those of a creation the function that makes the  *)
(* object they return.                                                     *)
ApiNames == {"CreateTexture", "CreateQueue", "CreateBindGroupLayout", "CreateBlendStateBuilder",
             "SetSubData", "Submit", "Device"}
Internal ==
  {"CreateTextureInternal", "CreateQueueInternal", "CreateBindGroupLayoutInternal",
   "GetOrCreateBindGroupLayout", "CreateTextureImpl", "CreateQueueImpl",
   "CreateBindGroupLayoutImpl", "ValidateTextureDescriptor",
   "ValidateBindGroupLayoutDescriptor", "ValidateTextureUsageBit", "ValidateTextureFormat",
   "ValidateShaderStageBit", "ValidateBindingType", "ValidateSetSubData", "ValidateSubmit",
   "LoadFunctions", "LoadD3D12", "LoadDXGI", "LoadD3DCompiler"}
Functions == ApiNames \cup Internal
MadeBy ==
  [CreateTextureImpl |-> "CreateTextureImpl", CreateTextureInternal |-> "CreateTextureImpl",
   CreateQueueImpl |-> "CreateQueueImpl", CreateQueueInternal |-> "CreateQueueImpl",
   CreateBindGroupLayoutImpl |-> "CreateBindGroupLayoutImpl",
   GetOrCreateBindGroupLayout |-> "CreateBindGroupLayoutImpl",
   CreateBindGroupLayoutInternal |-> "CreateBindGroupLayoutImpl"]
CallOps == {"try", "assign", "consume", "require"}
Ops == CallOps \cup {"check", "find", "make", "new"}

(* What the statements of all functions have in common.                    *)
StatementSet == [op : Ops, callee : Internal \cup {""}]
ObeysAt(fn, st) ==
  /\ st.op \in CallOps => st.callee \in Internal
  /\ st.op \in {"try", "consume", "require"} => st.callee \notin Makers
  /\ st.op = "assign" =>
       /\ st.callee \in Makers
       /\ fn \in DOMAIN MadeBy => MadeBy[fn] = MadeBy[st.callee]
  /\ st.op \in {"consume", "require", "new"} <=> fn \in ApiNames
  /\ st.op \in {"consume", "require"} /\ fn \in DOMAIN MakerOf =>
       st.callee \in DOMAIN MadeBy /\ MakerOf[fn] = MadeBy[st.callee]
  /\ st.op = "new" => fn = "CreateBlendStateBuilder"
  /\ st.op = "make" => fn \in DOMAIN MadeBy /\ MadeBy[fn] = fn
  /\ st.op = "find" => fn = "GetOrCreateBindGroupLayout"

Obeys(fn, body) ==
  /\ body \in Seq(StatementSet)
  /\ fn \in DOMAIN MadeBy => Len(body) > 0 /\ body[Len(body)].op \in {"assign", "make"}
  /\ \A k \in 1..Len(body) : ObeysAt(fn, body[k])

AllObey(f) == \A fn \in DOMAIN f : fn \in Functions /\ Obeys(fn, f[fn])

(* Two groups of functions together.                                       *)
LEMMA MergeObeys ==
  ASSUME NEW f, NEW g, AllObey(f), AllObey(g)
  PROVE  AllObey(f ++ g) /\ DOMAIN (f ++ g) = DOMAIN f \cup DOMAIN g
BY DEF ++, AllObey

(* Each kind of statement, in the functions it may be in.                  *)
Of(st, fn) == st \in StatementSet /\ ObeysAt(fn, st)
LEMMA StatementsObey ==
  /\ \A fn \in Internal : Of(Check, fn)
  /\ Of(Find, "GetOrCreateBindGroupLayout")
  /\ Of(New, "CreateBlendStateBuilder")
  /\ Make.op = "make" /\ \A fn \in DOMAIN MadeBy : MadeBy[fn] = fn => Of(Make, fn)
  /\ \A fn, callee \in Internal : callee \notin Makers => Of(Try(callee), fn)
  /\ \A fn \in Internal, callee \in Makers :
       /\ TryAssign(callee).op = "assign"
       /\ (fn \in DOMAIN MadeBy => MadeBy[fn] = MadeBy[callee]) => Of(TryAssign(callee), fn)
  /\ \A fn \in ApiNames, callee \in Internal :
       callee \notin Makers
       /\ (fn \in DOMAIN MakerOf => callee \in DOMAIN MadeBy /\ MakerOf[fn] = MadeBy[callee])
       => Of(Consume(callee), fn) /\ Of(Require(callee), fn)
<1> USE DEF Of, StatementSet, ObeysAt, Statement, CallOps, Ops
<1>1. Makers \subseteq Internal /\ \A fn \in Internal : fn \notin ApiNames
  BY DEF Internal, ApiNames, Makers
<1>2. \A fn \in Internal : Of(Check, fn)
  BY <1>1 DEF Check
<1>3. Of(Find, "GetOrCreateBindGroupLayout")
  BY DEF Find, ApiNames
<1>4. Of(New, "CreateBlendStateBuilder")
  BY DEF New, ApiNames
<1>5. Make.op = "make" /\ \A fn \in DOMAIN MadeBy : MadeBy[fn] = fn => Of(Make, fn)
  BY DEF Make, MadeBy, ApiNames
<1>6. \A fn, callee \in Internal : callee \notin Makers => Of(Try(callee), fn)
  BY <1>1 DEF Try
<1>7. \A fn \in Internal, callee \in Makers :
       /\ TryAssign(callee).op = "assign"
       /\ (fn \in DOMAIN MadeBy => MadeBy[fn] = MadeBy[callee]) => Of(TryAssign(callee), fn)
  BY <1>1 DEF TryAssign
<1>8. \A fn \in ApiNames, callee \in Internal :
       callee \notin Makers
       /\ (fn \in DOMAIN MakerOf => callee \in DOMAIN MadeBy /\ MakerOf[fn] = MadeBy[callee])
       => Of(Consume(callee), fn) /\ Of(Require(callee), fn)
  <2> SUFFICES ASSUME NEW fn \in ApiNames, NEW callee \in Internal, callee \notin Makers,
                      fn \in DOMAIN MakerOf =>
                        callee \in DOMAIN MadeBy /\ MakerOf[fn] = MadeBy[callee]
               PROVE  Of(Consume(callee), fn) /\ Of(Require(callee), fn)
    OBVIOUS
  <2>1. Of(Consume(callee), fn)
    BY DEF Consume
  <2>2. Of(Require(callee), fn)
    BY DEF Require
  <2>3. QED
    BY <2>1, <2>2
<1> HIDE DEF Of, StatementSet, ObeysAt, Statement, CallOps, Ops
<1>9. QED
  BY <1>2, <1>3, <1>4, <1>5, <1>6, <1>7, <1>8

(* The entry points of the device that create obey what all functions do.  *)
LEMMA CreationObeys == AllObey(Creation)
<1>1. "CreateTexture" \in Functions /\ Obeys("CreateTexture", <<Consume("CreateTextureInternal")>>)
  BY StatementsObey DEF Obeys, Of, Functions, Internal, ApiNames, Makers, MakerOf, MadeBy
<1>2. "CreateQueue" \in Functions /\ Obeys("CreateQueue", <<Consume("CreateQueueInternal")>>)
  BY StatementsObey DEF Obeys, Of, Functions, Internal, ApiNames, Makers, MakerOf, MadeBy
<1>3. "CreateBindGroupLayout" \in Functions
      /\ Obeys("CreateBindGroupLayout", <<Consume("CreateBindGroupLayoutInternal")>>)
  BY StatementsObey DEF Obeys, Of, Functions, Internal, ApiNames, Makers, MakerOf, MadeBy
<1>4. "CreateBlendStateBuilder" \in Functions /\ Obeys("CreateBlendStateBuilder", <<New>>)
  BY StatementsObey DEF Obeys, Of, Functions, Internal, ApiNames, Makers, MakerOf, MadeBy
<1>5. QED
  BY <1>1, <1>2, <1>3, <1>4 DEF AllObey, Creation

(* Their ...Internal functions obey what all functions do.                 *)
LEMMA InternalsObeys == AllObey(Internals)
<1>1. "CreateTextureInternal" \in Functions
      /\ Obeys("CreateTextureInternal",
               <<Try("ValidateTextureDescriptor"), TryAssign("CreateTextureImpl")>>)
  BY StatementsObey DEF Obeys, Of, Functions, Internal, ApiNames, Makers, MakerOf, MadeBy
<1>2. "CreateQueueInternal" \in Functions
      /\ Obeys("CreateQueueInternal", <<TryAssign("CreateQueueImpl")>>)
  BY StatementsObey DEF Obeys, Of, Functions, Internal, ApiNames, Makers, MakerOf, MadeBy
<1>3. "CreateBindGroupLayoutInternal" \in Functions
      /\ Obeys("CreateBindGroupLayoutInternal",
               <<Try("ValidateBindGroupLayoutDescriptor"),
                 TryAssign("GetOrCreateBindGroupLayout")>>)
  BY StatementsObey DEF Obeys, Of, Functions, Internal, ApiNames, Makers, MakerOf, MadeBy
<1>4. QED
  BY <1>1, <1>2, <1>3 DEF AllObey, Internals

(* The function that looks into the cache of layouts obeys what all functions do. *)
LEMMA GetOrCreateObeys == AllObey(GetOrCreate)
<1>1. "GetOrCreateBindGroupLayout" \in Functions
      /\ Obeys("GetOrCreateBindGroupLayout", <<Find, TryAssign("CreateBindGroupLayoutImpl")>>)
  BY StatementsObey DEF Obeys, Of, Functions, Internal, ApiNames, Makers, MakerOf, MadeBy
<1>2. QED
  BY <1>1 DEF AllObey, GetOrCreate

(* The backend's functions obey what all functions do.                     *)
LEMMA ImplsObeys == AllObey(Impls)
<1>1. "CreateTextureImpl" \in Functions /\ Obeys("CreateTextureImpl", <<Make>>)
  BY StatementsObey DEF Obeys, Of, Functions, Internal, ApiNames, Makers, MakerOf, MadeBy
<1>2. "CreateQueueImpl" \in Functions /\ Obeys("CreateQueueImpl", <<Make>>)
  BY StatementsObey DEF Obeys, Of, Functions, Internal, ApiNames, Makers, MakerOf, MadeBy
<1>3. "CreateBindGroupLayoutImpl" \in Functions /\ Obeys("CreateBindGroupLayoutImpl", <<Make>>)
  BY StatementsObey DEF Obeys, Of, Functions, Internal, ApiNames, Makers, MakerOf, MadeBy
<1>4. QED
  BY <1>1, <1>2, <1>3 DEF AllObey, Impls

(* The checks of textures obey what all functions do.                      *)
LEMMA TextureChecksObeys == AllObey(TextureChecks)
<1>1. "ValidateTextureDescriptor" \in Functions
      /\ Obeys("ValidateTextureDescriptor",
               <<Check, Try("ValidateTextureUsageBit"), Try("ValidateTextureFormat"), Check>>)
  BY StatementsObey DEF Obeys, Of, Functions, Internal, ApiNames, Makers, MakerOf, MadeBy
<1>2. QED
  BY <1>1 DEF AllObey, TextureChecks

(* The checks of layouts obey what all functions do.                       *)
LEMMA LayoutChecksObeys == AllObey(LayoutChecks)
<1>1. "ValidateBindGroupLayoutDescriptor" \in Functions
      /\ Obeys("ValidateBindGroupLayoutDescriptor",
               <<Check, Try("ValidateShaderStageBit"), Try("ValidateBindingType"), Check>>)
  BY StatementsObey DEF Obeys, Of, Functions, Internal, ApiNames, Makers, MakerOf, MadeBy
<1>2. QED
  BY <1>1 DEF AllObey, LayoutChecks

(* The generated checks obey what all functions do.                        *)
LEMMA EnumChecksObeys == AllObey(EnumChecks)
<1>1. "ValidateTextureUsageBit" \in Functions /\ Obeys("ValidateTextureUsageBit", <<Check>>)
  BY StatementsObey DEF Obeys, Of, Functions, Internal, ApiNames, Makers, MakerOf, MadeBy
<1>2. "ValidateTextureFormat" \in Functions /\ Obeys("ValidateTextureFormat", <<Check>>)
  BY StatementsObey DEF Obeys, Of, Functions, Internal, ApiNames, Makers, MakerOf, MadeBy
<1>3. "ValidateShaderStageBit" \in Functions /\ Obeys("ValidateShaderStageBit", <<Check>>)
  BY StatementsObey DEF Obeys, Of, Functions, Internal, ApiNames, Makers, MakerOf, MadeBy
<1>4. "ValidateBindingType" \in Functions /\ Obeys("ValidateBindingType", <<Check>>)
  BY StatementsObey DEF Obeys, Of, Functions, Internal, ApiNames, Makers, MakerOf, MadeBy
<1>5. QED
  BY <1>1, <1>2, <1>3, <1>4 DEF AllObey, EnumChecks

(* SetSubData and its check obey what all functions do.                    *)
LEMMA SetSubDataObeys == AllObey(SetSubData)
<1>1. "SetSubData" \in Functions /\ Obeys("SetSubData", <<Consume("ValidateSetSubData")>>)
  BY StatementsObey DEF Obeys, Of, Functions, Internal, ApiNames, Makers, MakerOf, MadeBy
<1>2. "ValidateSetSubData" \in Functions /\ Obeys("ValidateSetSubData", <<Check, Check>>)
  BY StatementsObey DEF Obeys, Of, Functions, Internal, ApiNames, Makers, MakerOf, MadeBy
<1>3. QED
  BY <1>1, <1>2 DEF AllObey, SetSubData

(* Submit and its check obey what all functions do.                        *)
LEMMA QueueSubmitObeys == AllObey(QueueSubmit)
<1>1. "Submit" \in Functions /\ Obeys("Submit", <<Consume("ValidateSubmit")>>)
  BY StatementsObey DEF Obeys, Of, Functions, Internal, ApiNames, Makers, MakerOf, MadeBy
<1>2. "ValidateSubmit" \in Functions /\ Obeys("ValidateSubmit", <<>>)
  BY StatementsObey DEF Obeys, Of, Functions, Internal, ApiNames, Makers, MakerOf, MadeBy
<1>3. QED
  BY <1>1, <1>2 DEF AllObey, QueueSubmit

(* The constructor of the D3D12 device obeys what all functions do.        *)
LEMMA DeviceObeys == AllObey(Device)
<1>1. "Device" \in Functions /\ Obeys("Device", <<Require("LoadFunctions")>>)
  BY StatementsObey DEF Obeys, Of, Functions, Internal, ApiNames, Makers, MakerOf, MadeBy
<1>2. QED
  BY <1>1 DEF AllObey, Device

(* The functions that load its libraries obey what all functions do.       *)
LEMMA PlatformFunctionsObeys == AllObey(PlatformFunctions)
<1>1. "LoadFunctions" \in Functions
      /\ Obeys("LoadFunctions", <<Try("LoadD3D12"), Try("LoadDXGI"), Try("LoadD3DCompiler")>>)
  BY StatementsObey DEF Obeys, Of, Functions, Internal, ApiNames, Makers, MakerOf, MadeBy
<1>2. "LoadD3D12" \in Functions /\ Obeys("LoadD3D12", <<Check>>)
  BY StatementsObey DEF Obeys, Of, Functions, Internal, ApiNames, Makers, MakerOf, MadeBy
<1>3. "LoadDXGI" \in Functions /\ Obeys("LoadDXGI", <<Check>>)
  BY StatementsObey DEF Obeys, Of, Functions, Internal, ApiNames, Makers, MakerOf, MadeBy
<1>4. "LoadD3DCompiler" \in Functions /\ Obeys("LoadD3DCompiler", <<Check>>)
  BY StatementsObey DEF Obeys, Of, Functions, Internal, ApiNames, Makers, MakerOf, MadeBy
<1>5. QED
  BY <1>1, <1>2, <1>3, <1>4 DEF AllObey, PlatformFunctions

(* So all functions obey.                                                  *)
LEMMA BodyObeys == DOMAIN Body = Functions /\ \A fn \in Functions : Obeys(fn, Body[fn])
<1> DEFINE b1 == Creation ++ Internals
           b2 == b1 ++ GetOrCreate
           b3 == b2 ++ Impls
           b4 == b3 ++ TextureChecks
           b5 == b4 ++ LayoutChecks
           b6 == b5 ++ EnumChecks
           b7 == b6 ++ SetSubData
           b8 == b7 ++ QueueSubmit
           b9 == b8 ++ Device
           b10 == b9 ++ PlatformFunctions
<1>1. AllObey(b1) /\ DOMAIN b1 = DOMAIN Creation \cup DOMAIN Internals
  BY MergeObeys, CreationObeys, InternalsObeys
<1> HIDE DEF b1
<1>2. AllObey(b2) /\ DOMAIN b2 = DOMAIN b1 \cup DOMAIN GetOrCreate
  BY <1>1, MergeObeys, GetOrCreateObeys
<1> HIDE DEF b2
<1>3. AllObey(b3) /\ DOMAIN b3 = DOMAIN b2 \cup DOMAIN Impls
  BY <1>2, MergeObeys, ImplsObeys
<1> HIDE DEF b3
<1>4. AllObey(b4) /\ DOMAIN b4 = DOMAIN b3 \cup DOMAIN TextureChecks
  BY <1>3, MergeObeys, TextureChecksObeys
<1> HIDE DEF b4
<1>5. AllObey(b5) /\ DOMAIN b5 = DOMAIN b4 \cup DOMAIN LayoutChecks
  BY <1>4, MergeObeys, LayoutChecksObeys
<1> HIDE DEF b5
<1>6. AllObey(b6) /\ DOMAIN b6 = DOMAIN b5 \cup DOMAIN EnumChecks
  BY <1>5, MergeObeys, EnumChecksObeys
<1> HIDE DEF b6
<1>7. AllObey(b7) /\ DOMAIN b7 = DOMAIN b6 \cup DOMAIN SetSubData
  BY <1>6, MergeObeys, SetSubDataObeys
<1> HIDE DEF b7
<1>8. AllObey(b8) /\ DOMAIN b8 = DOMAIN b7 \cup DOMAIN QueueSubmit
  BY <1>7, MergeObeys, QueueSubmitObeys
<1> HIDE DEF b8
<1>9. AllObey(b9) /\ DOMAIN b9 = DOMAIN b8 \cup DOMAIN Device
  BY <1>8, MergeObeys, DeviceObeys
<1> HIDE DEF b9
<1>10. AllObey(b10) /\ DOMAIN b10 = DOMAIN b9 \cup DOMAIN PlatformFunctions
  BY <1>9, MergeObeys, PlatformFunctionsObeys
<1>11. Body = b10
  BY DEF Body, b1, b2, b3, b4, b5, b6, b7, b8, b9
<1> HIDE DEF b10
<1>12. Functions \subseteq DOMAIN b10
  BY <1>1, <1>2, <1>3, <1>4, <1>5, <1>6, <1>7, <1>8, <1>9, <1>10
     DEF Functions, ApiNames, Internal, Creation, Internals, GetOrCreate, Impls, TextureChecks,
         LayoutChecks, EnumChecks, SetSubData, QueueSubmit, Device, PlatformFunctions
<1>13. QED
  BY <1>10, <1>11, <1>12 DEF AllObey

-----------------------------------------------------------------------------
(* Addresses, and the Results that are made of them.                       *)
Address == {4 * k : k \in Nat \ {0}}
ResultSet == [type : {"void", "pointer"}, payload : Nat]

(* A Result made of an error.                                              *)
LEMMA ErrorResults ==
  ASSUME NEW e \in Address, NEW type \in {"void", "pointer"}
  PROVE  /\ FromError(type, e) \in ResultSet
         /\ FromError(type, e).type = type
         /\ IsError(FromError(type, e)) /\ ErrorOf(FromError(type, e)) = e
BY DEF Address, ResultSet, FromError, Result, MakePayload, IsError, ErrorOf, GetPayloadType,
       GetErrorFromPayload, Error

(* A Result made of an object, or of nothing.                              *)
LEMMA SuccessResults ==
  ASSUME NEW a \in Nat, NEW type \in {"void", "pointer"}, type = "pointer" => a \in Address
  PROVE  /\ FromSuccess(type, a) \in ResultSet
         /\ FromSuccess(type, a).type = type
         /\ FromSuccess(type, a).payload = IF type = "void" THEN 0 ELSE a
         /\ ~IsError(FromSuccess(type, a))
BY DEF Address, ResultSet, FromSuccess, Result, MakePayload, IsError, GetPayloadType,
       Success, Error

(* A Result that was moved from, or acquired, is empty.                    *)
LEMMA EmptyResults ==
  ASSUME NEW r \in ResultSet
  PROVE  /\ MovedFrom(r) \in ResultSet /\ IsEmpty(MovedFrom(r)) /\ IsEmpty(Acquired(r))
         /\ IsEmpty(r) => ~IsError(r)
         /\ r.type = "void" /\ ~IsError(r) => IsEmpty(r)
BY DEF ResultSet, MovedFrom, Acquired, Result, IsEmpty, IsError, kEmptyPayload, GetPayloadType,
       Error, Empty

(* malloc finds a free address: there are more of them than are in use.    *)
LEMMA NewAddressIsFree ==
  ASSUME IsFiniteSet(Used)
  PROVE  NewAddress \in Address /\ NewAddress \notin Used
<1> DEFINE n == Cardinality(Used)
           T == {k \in 1..n + 1 : 4 * k \notin Used}
<1>1. n \in Nat
  BY FS_CardinalityType
<1> HIDE DEF n
<1>2. T # {}
  <2> SUFFICES ASSUME T = {} PROVE FALSE
    OBVIOUS
  <2> DEFINE f == [k \in 1..n + 1 |-> 4 * k]
  <2>1. f \in [1..n + 1 -> Used]
    OBVIOUS
  <2>2. IsFiniteSet(1..n + 1) /\ Cardinality(1..n + 1) = n + 1
    BY <1>1, FS_Interval
  <2>3. Cardinality(Used) < Cardinality(1..n + 1)
    BY <1>1, <2>2 DEF n
  <2>4. \E x, y \in 1..n + 1 : x # y /\ f[x] = f[y]
    <3> DEFINE S == 1..n + 1
    <3>1. IsFiniteSet(S) /\ Cardinality(Used) < Cardinality(S) /\ f \in [S -> Used]
      BY <2>1, <2>2, <2>3
    <3> HIDE DEF f, S
    <3>2. \E x, y \in S : x # y /\ f[x] = f[y]
      BY <3>1, FS_PigeonHole
    <3>3. QED
      BY <3>2 DEF S
  <2>5. QED
    BY <1>1, <2>4
<1>3. T \in SUBSET Nat
  BY <1>1
<1>4. PICK m \in T : \A k \in T : m <= k
  <2> HIDE DEF T
  <2>1. QED
    BY <1>2, <1>3, LeastNumber
<1>5. \A j \in 1..m - 1 : 4 * j \in Used
  BY <1>1, <1>4
<1>6. m \in 1..n + 1 /\ 4 * m \notin Used
  BY <1>4
<1>7. PICK k \in 1..n + 1 : k > 0 /\ 4 * k \notin Used /\ NewAddress = 4 * k
  BY <1>1, <1>5, <1>6 DEF NewAddress, n
<1>8. QED
  BY <1>1, <1>7 DEF Address

(* What the stack, and the Result that a function has returned, look like. *)
Phases == {"running", "returned", "reporting"}
FrameSet ==
  [fn : Functions \cup {"ErrorCallback"}, at : Nat \ {0}, phase : Phases, error : Nat,
   result : Nat, failed : BOOLEAN, told : {0, 1}]
Made(objs, address, fn) == address \in DOMAIN objs /\ objs[address] = fn
Callee(f) == Body[f.fn][f.at].callee
Calls(f, callee) ==
  /\ f.fn \in Functions /\ f.at \in 1..Len(Body[f.fn])
  /\ Body[f.fn][f.at].op \in CallOps /\ Callee(f) = callee

(* The backtrace of an error that has come as far as a function.           *)
Trace(trace, fn) ==
  /\ trace \in Seq(Functions) /\ Len(trace) > 0 /\ trace[Len(trace)] = fn
  /\ \A k \in 2..Len(trace) : CalledBy(trace[k - 1], trace[k])

(* Only calls of entry points report, and those that do not have failed    *)
(* when the error that was found is still on its way.                      *)
FrameOK(f, errs, objs, bad) ==
  /\ f.fn \in EntryPoints \cup Internal \cup {"ErrorCallback"}
  /\ f.fn = "ErrorCallback" => f.phase = "running"
  /\ f.phase = "reporting" =>
       /\ f.fn \in EntryPoints /\ f.failed
       /\ f.error \in DOMAIN errs
       /\ \E callee \in Internal : Trace(errs[f.error], callee) /\ CalledBy(callee, f.fn)
  /\ f.phase # "reporting" => f.told = 0 /\ (f.fn \in EntryPoints => (f.failed <=> bad))
  /\ f.phase # "running" => Calls(f, Callee(f))
  /\ f.fn \in DOMAIN MadeBy /\ f.at > Len(Body[f.fn]) => Made(objs, f.result, MadeBy[f.fn])

(* Who may be below whom.                                                  *)
Linked(below, f) ==
  /\ f.fn \in EntryPoints => below.fn \in {"Application", "ErrorCallback"}
  /\ f.fn = "ErrorCallback" => below.phase = "reporting"
  /\ f.fn \in Internal => below.phase = "running" /\ Calls(below, f.fn)
Below(s, i) == IF i = 1 THEN Frame("Application") ELSE s[i - 1]
Top(s) == IF s = <<>> THEN Frame("Application") ELSE s[Len(s)]

StackOK(s, errs, objs, bad) ==
  /\ s \in Seq(FrameSet)
  /\ \A i \in 1..Len(s) : FrameOK(s[i], errs, objs, bad)
  /\ \A i \in 1..Len(s) : Linked(Below(s, i), s[i])
  /\ \A i, j \in 1..Len(s) :
       i < j /\ s[i].fn \in EntryPoints /\ s[i].phase # "reporting" => s[j].fn \in Internal

(* The Result is what the callee of the top's statement returned.          *)
TempOK(t, tmp, errs, objs) ==
  /\ tmp \in ResultSet
  /\ t.phase # "returned" => IsEmpty(tmp)
  /\ t.phase = "returned" =>
       /\ tmp.type = TypeOf(Callee(t))
       /\ IsError(tmp) => ErrorOf(tmp) \in DOMAIN errs /\ Trace(errs[ErrorOf(tmp)], Callee(t))
       /\ ~IsError(tmp) =>
            /\ tmp.type = "pointer" => Made(objs, tmp.payload, MadeBy[Callee(t)])
            /\ t.fn \in DOMAIN MakerOf => Made(objs, t.result, MakerOf[t.fn])

(* Every error is held once: h is a frame that reports it, or 0 for temp.  *)
HeldBy(s, tmp, e, h) ==
  \/ h \in 1..Len(s) /\ s[h].phase = "reporting" /\ s[h].error = e
  \/ h = 0 /\ IsError(tmp) /\ ErrorOf(tmp) = e
HeldOnce(s, tmp, errs) ==
  \A e \in DOMAIN errs :
    /\ \E h \in Nat : HeldBy(s, tmp, e, h)
    /\ \A h, i \in Nat : HeldBy(s, tmp, e, h) /\ HeldBy(s, tmp, e, i) => h = i

ErrorInv ==
  /\ StackOK(stack, errors, objects, IsError(temp))
  /\ TempOK(Top(stack), temp, errors, objects)
  /\ HeldOnce(stack, temp, errors)
  /\ DOMAIN errors \subseteq Address /\ DOMAIN objects \subseteq Address
  /\ IsFiniteSet(DOMAIN errors) /\ IsFiniteSet(DOMAIN objects)
  /\ \A r \in destroyed : IsEmpty(r)
  /\ CallersAreTold

-----------------------------------------------------------------------------
(* The top of a stack.                                                     *)
LEMMA TopIs ==
  ASSUME NEW s \in Seq(FrameSet)
  PROVE  /\ Len(s) \in Nat /\ DOMAIN s = 1..Len(s)
         /\ \A i \in 1..Len(s) : s[i] \in FrameSet
         /\ s = <<>> => Len(s) = 0 /\ Top(s) = Frame("Application")
         /\ s # <<>> => Len(s) \in 1..Len(s) /\ Top(s) = s[Len(s)]
<1>1. Len(s) \in Nat /\ DOMAIN s = 1..Len(s)
  BY LenProperties
<1>2. \A i \in 1..Len(s) : s[i] \in FrameSet
  <2> HIDE DEF FrameSet
  <2>1. QED
    BY ElementOfSeq
<1>3. s = <<>> <=> Len(s) = 0
  BY EmptySeq
<1>4. QED
  BY <1>1, <1>2, <1>3 DEF Top

(* The names of the frames that are not functions.                         *)
LEMMA NamesDiffer ==
  /\ "Application" \notin Functions /\ "ErrorCallback" \notin Functions
  /\ "Application" # "ErrorCallback"
  /\ EntryPoints \subseteq ApiNames /\ ApiNames \subseteq Functions /\ Internal \subseteq Functions
  /\ \A fn \in Internal : fn \notin ApiNames
  /\ DOMAIN MadeBy \subseteq Internal /\ DOMAIN MakerOf \subseteq ApiNames
  /\ Makers \subseteq DOMAIN MadeBy
BY EntryPointsAssumption DEF Functions, ApiNames, Internal, MadeBy, MakerOf, Makers

(* What stands below all calls is no function.                             *)
LEMMA ApplicationFrame ==
  LET f == Frame("Application")
  IN  /\ f.fn = "Application" /\ f.phase = "running"
      /\ \A callee : ~Calls(f, callee)
BY NamesDiffer DEF Frame, Calls

(* The frame of a call that begins.                                        *)
LEMMA NewFrame ==
  ASSUME NEW fn \in EntryPoints \cup Internal \cup {"ErrorCallback"}
  PROVE  /\ Frame(fn) \in FrameSet
         /\ Frame(fn).fn = fn /\ Frame(fn).phase = "running"
         /\ \A errs, objs : FrameOK(Frame(fn), errs, objs, FALSE)
         /\ fn \notin EntryPoints => \A errs, objs, bad : FrameOK(Frame(fn), errs, objs, bad)
<1>1. Frame(fn) \in FrameSet /\ Frame(fn).fn = fn /\ Frame(fn).phase = "running"
      /\ Frame(fn).at = 1 /\ Frame(fn).told = 0 /\ Frame(fn).failed = FALSE
  BY NamesDiffer DEF Frame, FrameSet, Phases
<1>2. fn \in DOMAIN MadeBy => ~ (1 > Len(Body[fn]))
  <2>1. ASSUME fn \in DOMAIN MadeBy PROVE Len(Body[fn]) > 0 /\ Len(Body[fn]) \in Nat
    BY <2>1, NamesDiffer, BodyObeys, LenProperties DEF Obeys
  <2>2. QED
    BY <2>1
<1>3. QED
  BY <1>1, <1>2 DEF FrameOK

(* A statement of a function obeys what all of them do.                    *)
LEMMA CallsObey ==
  ASSUME NEW f, NEW callee, Calls(f, callee)
  PROVE  /\ ObeysAt(f.fn, Body[f.fn][f.at]) /\ callee = Callee(f) /\ callee \in Internal
         /\ CalledBy(callee, f.fn)
         /\ f.fn \in ApiNames => callee \notin Makers
         /\ f.fn \in DOMAIN MakerOf => callee \in DOMAIN MadeBy /\ MakerOf[f.fn] = MadeBy[callee]
<1>1. Obeys(f.fn, Body[f.fn])
  BY BodyObeys DEF Calls
<1>2. ObeysAt(f.fn, Body[f.fn][f.at])
  BY <1>1 DEF Obeys, Calls
<1>3. DOMAIN Body[f.fn] = 1..Len(Body[f.fn])
  BY <1>1, LenProperties DEF Obeys
<1>4. CalledBy(callee, f.fn)
  BY <1>3 DEF CalledBy, Calls, Callee
<1>5. QED
  BY <1>2, <1>4, NamesDiffer DEF Calls, ObeysAt, CallOps, Callee

(* Frames stay right when objects are made and other errors change.        *)
Grows(objs, more) == \A a \in DOMAIN objs : a \in DOMAIN more /\ more[a] = objs[a]
Stays(e, errs, new) == e \in DOMAIN new /\ new[e] = errs[e]
LEMMA FrameStays ==
  ASSUME NEW f, NEW errs, NEW objs, NEW bad, FrameOK(f, errs, objs, bad),
         NEW new, NEW more, Grows(objs, more), f.phase = "reporting" => Stays(f.error, errs, new)
  PROVE  FrameOK(f, new, more, bad)
BY DEF FrameOK, Grows, Stays, Made

(* Below a function that is not an entry point is its caller.              *)
LEMMA CallerIsBelow ==
  ASSUME NEW s, NEW errs, NEW objs, NEW bad, StackOK(s, errs, objs, bad),
         s # <<>>, s[Len(s)].fn \in Internal
  PROVE  /\ Len(s) \in Nat /\ Len(s) > 1 /\ Len(s) - 1 \in 1..Len(s)
         /\ s[Len(s) - 1].phase = "running" /\ Calls(s[Len(s) - 1], s[Len(s)].fn)
<1> DEFINE n == Len(s)
<1>1. n \in Nat /\ n \in 1..n
  BY TopIs DEF StackOK
<1>2. Below(s, n).phase = "running" /\ Calls(Below(s, n), s[n].fn)
  BY <1>1 DEF StackOK, Linked
<1>3. n # 1
  BY <1>2, ApplicationFrame DEF Below
<1>4. Below(s, n) = s[n - 1]
  BY <1>3 DEF Below
<1>5. n > 1 /\ n - 1 \in 1..n
  <2> HIDE DEF n
  <2>1. QED
    BY <1>1, <1>3
<1>6. QED
  BY <1>1, <1>2, <1>4, <1>5

(* No call but the one that is executed can be one that does not report.   *)
LEMMA OthersReport ==
  ASSUME NEW s, NEW errs, NEW objs, NEW bad, StackOK(s, errs, objs, bad), s # <<>>,
         s[Len(s)].fn \notin Internal, NEW i \in 1..Len(s), i < Len(s), s[i].fn \in EntryPoints
  PROVE  s[i].phase = "reporting"
<1>1. Len(s) \in 1..Len(s)
  BY TopIs DEF StackOK
<1>2. QED
  BY <1>1 DEF StackOK

(* A call begins: of an entry point by the application, of a function by   *)
(* its caller, or of the error callback by the call that reports.          *)
LEMMA PushKeeps ==
  ASSUME NEW s, NEW errs, NEW objs, NEW bad, StackOK(s, errs, objs, bad),
         NEW fn \in EntryPoints \cup Internal \cup {"ErrorCallback"},
         Linked(Top(s), Frame(fn)), bad => fn \notin EntryPoints, bad \in BOOLEAN
  PROVE  /\ StackOK(Append(s, Frame(fn)), errs, objs, bad)
         /\ Top(Append(s, Frame(fn))) = Frame(fn)
<1> DEFINE f == Frame(fn)
           q == Append(s, f)
           n == Len(s)
<1>1. /\ f \in FrameSet /\ f.fn = fn /\ f.phase = "running" /\ FrameOK(f, errs, objs, bad)
  <2>1. bad = FALSE \/ fn \notin EntryPoints
    OBVIOUS
  <2>2. QED
    BY <2>1, NewFrame
<1>2. n \in Nat /\ s \in Seq(FrameSet)
  BY TopIs DEF StackOK
<1> HIDE DEF f
<1>3. q \in Seq(FrameSet) /\ Len(q) = n + 1 /\ q[n + 1] = f /\ \A i \in 1..n : q[i] = s[i]
  BY <1>1, <1>2, AppendProperties
<1> HIDE DEF q
<1>4. \A i \in 1..Len(q) : i \in 1..n \/ i = n + 1
  BY <1>2, <1>3
<1>5. Top(q) = f
  BY <1>2, <1>3, EmptySeq DEF Top
<1>6. \A i \in 1..Len(q) : FrameOK(q[i], errs, objs, bad)
  BY <1>1, <1>3, <1>4 DEF StackOK
<1>7. ASSUME NEW i \in 1..Len(q) PROVE Linked(Below(q, i), q[i])
  <2>1. CASE i \in 1..n
    <3>1. i # 1 => i - 1 \in 1..n
      BY <1>2, <2>1
    <3>2. Below(q, i) = Below(s, i)
      BY <1>3, <3>1 DEF Below
    <3>3. QED
      BY <1>3, <2>1, <3>2 DEF StackOK
  <2>2. CASE i = n + 1
    <3>1. Below(q, i) = Top(s)
      <4>1. CASE n = 0
        BY <1>2, <2>2, <4>1, EmptySeq DEF Below, Top
      <4>2. CASE n # 0
        <5>1. i # 1 /\ i - 1 = n /\ n \in 1..n /\ s # <<>>
          BY <1>2, <2>2, <4>2, EmptySeq
        <5>2. QED
          BY <1>3, <5>1 DEF Below, Top
      <4>3. QED
        BY <4>1, <4>2
    <3>2. QED
      BY <1>3, <2>2, <3>1 DEF f
  <2>3. QED
    BY <1>4, <2>1, <2>2
<1>8. ASSUME NEW i \in 1..n, s[i].fn \in EntryPoints, s[i].phase # "reporting"
      PROVE  fn \in Internal
  <2> SUFFICES ASSUME fn \notin Internal PROVE FALSE
    OBVIOUS
  <2>1. n \in 1..n /\ s # <<>> /\ Top(s) = s[n]
    BY <1>2, TopIs, EmptySeq
  <2>2. i # n => s[n].fn \in Internal
    BY <1>2, <1>8, <2>1 DEF StackOK
  <2>3. CASE fn \in EntryPoints
    <3>1. s[n].fn \in {"Application", "ErrorCallback"}
      BY <1>1, <2>1, <2>3 DEF Linked, f
    <3>2. QED
      BY <1>8, <2>2, <3>1, NamesDiffer
  <2>4. CASE fn = "ErrorCallback"
    <3>1. s[n].phase = "reporting"
      BY <1>1, <2>1, <2>4 DEF Linked, f
    <3>2. s[n].fn \in EntryPoints
      BY <2>1, <3>1 DEF StackOK, FrameOK
    <3>3. QED
      BY <1>8, <2>2, <3>1, <3>2, NamesDiffer
  <2>5. QED
    BY <2>3, <2>4
<1>9. ASSUME NEW i \in 1..Len(q), NEW j \in 1..Len(q), i < j, q[i].fn \in EntryPoints,
             q[i].phase # "reporting"
      PROVE  q[j].fn \in Internal
  <2>1. i \in 1..n /\ q[i] = s[i]
    BY <1>2, <1>3, <1>4, <1>9
  <2>2. CASE j \in 1..n
    BY <1>3, <1>9, <2>1, <2>2 DEF StackOK
  <2>3. CASE j = n + 1
    BY <1>1, <1>3, <1>8, <1>9, <2>1, <2>3
  <2>4. QED
    BY <1>4, <2>2, <2>3
<1>10. StackOK(q, errs, objs, bad)
  BY <1>3, <1>6, <1>7, <1>9 DEF StackOK
<1>11. QED
  BY <1>5, <1>10 DEF q, f

(* A function returns: its caller is told, and the call that is executed   *)
(* has failed if the function had, or found, an error.                     *)
Returns(s, q, bad) ==
  /\ q \in Seq(FrameSet) /\ Len(q) = Len(s) - 1
  /\ \A i \in 1..Len(s) - 1 :
       /\ q[i].fn = s[i].fn /\ q[i].at = s[i].at /\ q[i].error = s[i].error
       /\ q[i].told = s[i].told
       /\ q[i].phase = IF i = Len(s) - 1 THEN "returned" ELSE s[i].phase
       /\ q[i].fn \in Internal => q[i].result = s[i].result
       /\ q[i].fn \in EntryPoints => (q[i].failed <=> s[i].phase = "reporting" \/ bad)
LEMMA ReturnKeeps ==
  ASSUME NEW s, NEW errs, NEW objs, NEW bad, StackOK(s, errs, objs, bad),
         s # <<>>, s[Len(s)].fn \in Internal,
         NEW q, NEW now \in BOOLEAN, Returns(s, q, now), NEW new,
         \A i \in 1..Len(s) : s[i].phase = "reporting" => Stays(s[i].error, errs, new)
  PROVE  /\ StackOK(q, new, objs, now)
         /\ Top(q) = q[Len(q)] /\ Len(q) \in 1..Len(q)
         /\ Top(q).phase = "returned" /\ Calls(Top(q), s[Len(s)].fn)
         /\ \A h \in 1..Len(q) : q[h].phase = "reporting" <=> s[h].phase = "reporting"
         /\ s[Len(s)].phase # "reporting"
<1> DEFINE n == Len(s)
           m == n - 1
<1>1. /\ n \in Nat /\ n > 1 /\ m \in 1..n /\ m \in 1..m
      /\ s[m].phase = "running" /\ Calls(s[m], s[n].fn) /\ n \in 1..n
  <2>1. n \in Nat /\ n > 1 /\ m \in 1..n /\ s[m].phase = "running" /\ Calls(s[m], s[n].fn)
    BY CallerIsBelow
  <2>2. QED
    BY <2>1
<1>2. /\ q \in Seq(FrameSet) /\ Len(q) = m
      /\ \A i \in 1..m :
           /\ q[i].fn = s[i].fn /\ q[i].at = s[i].at /\ q[i].error = s[i].error
           /\ q[i].told = s[i].told
           /\ q[i].phase = IF i = m THEN "returned" ELSE s[i].phase
           /\ q[i].fn \in Internal => q[i].result = s[i].result
           /\ q[i].fn \in EntryPoints => (q[i].failed <=> s[i].phase = "reporting" \/ now)
  BY DEF Returns
<1>3. Top(q) = q[m] /\ q # <<>>
  BY <1>1, <1>2, TopIs
<1>4. \A i \in 1..m : i \in 1..n /\ (i # m => i < m)
  BY <1>1
<1>5. s[n].phase # "reporting"
  <2>1. FrameOK(s[n], errs, objs, bad)
    BY <1>1 DEF StackOK
  <2>2. QED
    BY <2>1, NamesDiffer DEF FrameOK
<1>6. \A h \in 1..m : q[h].phase = "reporting" <=> s[h].phase = "reporting"
  BY <1>1, <1>2
<1>7. Calls(q[m], s[n].fn) /\ Callee(q[m]) = s[n].fn
  BY <1>1, <1>2 DEF Calls, Callee
<1>8. ASSUME NEW i \in 1..m PROVE FrameOK(q[i], new, objs, now)
  <2>1. FrameOK(s[i], errs, objs, bad) /\ i \in 1..n
    BY <1>4 DEF StackOK
  <2>2. s[i].phase = "reporting" => Stays(s[i].error, errs, new)
    BY <2>1
  <2>3. CASE i = m
    <3>1. q[i].phase = "returned" /\ s[i].phase = "running"
      BY <1>1, <1>2, <2>3
    <3>2. q[i].fn # "ErrorCallback" /\ q[i].fn \in EntryPoints \cup Internal
      BY <1>1, <1>2, <2>1, <2>3, NamesDiffer DEF Calls, FrameOK
    <3>3. q[i].fn \in DOMAIN MadeBy => q[i].result = s[i].result
      BY <1>2, NamesDiffer
    <3>4. Calls(q[i], Callee(q[i]))
      BY <1>7, <2>3
    <3>5. q[i].told = 0
      BY <1>2, <2>1, <3>1 DEF FrameOK
    <3>6. q[i].fn \in EntryPoints => (q[i].failed <=> now)
      BY <1>2, <3>1
    <3>7. q[i].fn \in DOMAIN MadeBy /\ q[i].at > Len(Body[q[i].fn]) =>
            Made(objs, q[i].result, MadeBy[q[i].fn])
      BY <1>2, <2>1, <3>3 DEF FrameOK
    <3>8. QED
      BY <3>1, <3>2, <3>4, <3>5, <3>6, <3>7 DEF FrameOK
  <2>4. CASE i # m
    <3>1. q[i].phase = s[i].phase
      BY <1>2, <2>4
    <3>2. q[i].fn \in DOMAIN MadeBy => q[i].result = s[i].result
      BY <1>2, NamesDiffer
    <3>3. /\ q[i].fn \in EntryPoints \cup Internal \cup {"ErrorCallback"}
          /\ q[i].fn = "ErrorCallback" => q[i].phase = "running"
      BY <1>2, <2>1, <3>1 DEF FrameOK
    <3>4. q[i].phase = "reporting" =>
            /\ q[i].fn \in EntryPoints /\ q[i].failed
            /\ q[i].error \in DOMAIN new
            /\ \E callee \in Internal :
                 Trace(new[q[i].error], callee) /\ CalledBy(callee, q[i].fn)
      BY <1>2, <2>1, <2>2, <3>1 DEF FrameOK, Stays
    <3>5. q[i].phase # "reporting" =>
            q[i].told = 0 /\ (q[i].fn \in EntryPoints => (q[i].failed <=> now))
      BY <1>2, <2>1, <3>1 DEF FrameOK
    <3>6. q[i].phase # "running" => Calls(q[i], Callee(q[i]))
      BY <1>2, <2>1, <3>1 DEF FrameOK, Calls, Callee
    <3>7. q[i].fn \in DOMAIN MadeBy /\ q[i].at > Len(Body[q[i].fn]) =>
            Made(objs, q[i].result, MadeBy[q[i].fn])
      BY <1>2, <2>1, <3>2 DEF FrameOK
    <3>8. QED
      BY <3>3, <3>4, <3>5, <3>6, <3>7 DEF FrameOK
  <2>5. QED
    BY <2>3, <2>4
<1>9. ASSUME NEW i \in 1..m PROVE Linked(Below(q, i), q[i])
  <2>1. Linked(Below(s, i), s[i])
    BY <1>4 DEF StackOK
  <2>2. i # 1 => i - 1 \in 1..m /\ i - 1 # m
    BY <1>1
  <2>3. /\ Below(q, i).fn = Below(s, i).fn /\ Below(q, i).phase = Below(s, i).phase
        /\ Below(q, i).at = Below(s, i).at
    BY <1>2, <2>2 DEF Below
  <2>4. q[i].fn = s[i].fn
    BY <1>2
  <2>5. QED
    BY <2>1, <2>3, <2>4 DEF Linked, Calls, Callee
<1>10. ASSUME NEW i \in 1..m, NEW j \in 1..m, i < j, q[i].fn \in EntryPoints,
              q[i].phase # "reporting"
       PROVE  q[j].fn \in Internal
  <2>1. i \in 1..n /\ j \in 1..n /\ s[i].fn \in EntryPoints /\ s[i].phase # "reporting"
    BY <1>2, <1>4, <1>6, <1>10
  <2>2. s[j].fn \in Internal
    BY <1>10, <2>1 DEF StackOK
  <2>3. QED
    BY <1>2, <2>2
<1>11. StackOK(q, new, objs, now)
  BY <1>2, <1>8, <1>9, <1>10 DEF StackOK
<1>12. Top(q).phase = "returned"
  BY <1>1, <1>2, <1>3
<1>13. QED
  BY <1>1, <1>2, <1>3, <1>5, <1>6, <1>7, <1>11, <1>12

(* The top goes on, or begins to report.                                   *)
LEMMA TopKeeps ==
  ASSUME NEW s, NEW errs, NEW objs, NEW bad, StackOK(s, errs, objs, bad), s # <<>>,
         NEW f \in FrameSet, f.fn = s[Len(s)].fn, NEW now, NEW more, Grows(objs, more),
         FrameOK(f, errs, more, now),
         now # bad => f.fn \in EntryPoints,
         f.phase = "reporting" \/ s[Len(s)].phase # "reporting"
  PROVE  LET q == [s EXCEPT ![Len(s)] = f]
         IN  /\ StackOK(q, errs, more, now) /\ Len(q) = Len(s)
             /\ Top(q) = f /\ q # <<>> /\ q[Len(s)] = f
             /\ \A i \in 1..Len(s) : i # Len(s) => q[i] = s[i]
<1> DEFINE n == Len(s)
           q == [s EXCEPT ![n] = f]
<1>1. n \in Nat /\ n \in 1..n /\ s \in Seq(FrameSet) /\ DOMAIN s = 1..n
  BY TopIs DEF StackOK
<1>2. q \in Seq(FrameSet) /\ Len(q) = n /\ q[n] = f /\ \A i \in 1..n : i # n => q[i] = s[i]
  <2>1. s \in Seq(FrameSet) /\ n \in 1..Len(s) /\ f \in FrameSet
    BY <1>1
  <2> HIDE DEF FrameSet, n
  <2>2. q \in Seq(FrameSet) /\ Len(q) = Len(s)
    BY <2>1, ExceptSeq
  <2>3. q[n] = f /\ \A i \in 1..n : i # n => q[i] = s[i]
    BY <1>1
  <2>4. QED
    BY <2>2, <2>3 DEF n
<1> HIDE DEF q
<1>3. Top(q) = f /\ q # <<>>
  <2> HIDE DEF n
  <2>1. q # <<>>
    BY <1>1, <1>2, TopIs
  <2>2. QED
    BY <1>2, <2>1 DEF Top
<1>4. ASSUME NEW i \in 1..n PROVE FrameOK(q[i], errs, more, now)
  <2>1. CASE i = n
    BY <1>2, <2>1
  <2>2. CASE i # n
    <3>1. FrameOK(s[i], errs, objs, bad)
      BY DEF StackOK
    <3>2. FrameOK(s[i], errs, more, bad)
      BY <1>1, <3>1, FrameStays DEF StackOK, FrameOK, Stays
    <3>3. now # bad /\ s[i].fn \in EntryPoints => s[i].phase = "reporting"
      <4>1. ASSUME now # bad, s[i].fn \in EntryPoints PROVE s[i].phase = "reporting"
        <5>1. s[n].fn \notin Internal
          BY <4>1, NamesDiffer
        <5>2. i < n
          <6> HIDE DEF n
          <6>1. QED
            BY <1>1, <2>2
        <5>3. QED
          BY <4>1, <5>1, <5>2, OthersReport
      <4>2. QED
        BY <4>1
    <3>4. FrameOK(s[i], errs, more, now)
      BY <3>2, <3>3 DEF FrameOK
    <3>5. QED
      BY <1>2, <2>2, <3>4
  <2>3. QED
    BY <2>1, <2>2
<1>5. ASSUME NEW i \in 1..n PROVE Linked(Below(q, i), q[i])
  <2>1. Linked(Below(s, i), s[i])
    BY DEF StackOK
  <2>2. i # 1 => i - 1 \in 1..n /\ i - 1 # n
    BY <1>1
  <2>3. Below(q, i) = Below(s, i)
    BY <1>2, <2>2 DEF Below
  <2>4. q[i].fn = s[i].fn
    BY <1>2
  <2>5. QED
    BY <2>1, <2>3, <2>4 DEF Linked
<1>6. ASSUME NEW i \in 1..n, NEW j \in 1..n, i < j, q[i].fn \in EntryPoints,
             q[i].phase # "reporting"
      PROVE  q[j].fn \in Internal
  <2>1. CASE i = n
    <3> HIDE DEF n
    <3>1. QED
      BY <1>1, <1>6, <2>1
  <2>2. CASE i # n
    <3>1. q[i] = s[i] /\ s[j].fn \in Internal
      BY <1>2, <1>6, <2>2 DEF StackOK
    <3>2. q[j].fn = s[j].fn
      BY <1>2
    <3>3. QED
      BY <3>1, <3>2
  <2>3. QED
    BY <2>1, <2>2
<1>7. StackOK(q, errs, more, now)
  BY <1>2, <1>4, <1>5, <1>6 DEF StackOK
<1>8. QED
  BY <1>2, <1>3, <1>7 DEF q

(* A call ends: the application goes on below it, or the call that reports *)
(* below the error callback.                                               *)
LEMMA EndKeeps ==
  ASSUME NEW s, NEW errs, NEW objs, NEW bad, StackOK(s, errs, objs, bad), s # <<>>,
         s[Len(s)].fn \notin Internal, NEW new, NEW more, Grows(objs, more),
         \A i \in 1..Len(s) - 1 : s[i].phase = "reporting" => Stays(s[i].error, errs, new)
  PROVE  LET q == Front(s)
         IN  /\ StackOK(q, new, more, FALSE) /\ Len(q) = Len(s) - 1
             /\ Top(q).phase # "returned"
             /\ \A i \in 1..Len(q) : i \in 1..Len(s) /\ q[i] = s[i]
<1> DEFINE n == Len(s)
           m == n - 1
           q == Front(s)
<1>1. n \in Nat /\ n \in 1..n /\ s \in Seq(FrameSet) /\ m \in Nat
      /\ \A i \in 1..m : i \in 1..n /\ i < n
  <2>1. n \in Nat /\ n \in 1..n /\ s \in Seq(FrameSet)
    BY TopIs DEF StackOK
  <2>2. QED
    BY <2>1
<1>2. q \in Seq(FrameSet) /\ Len(q) = m /\ \A i \in 1..m : q[i] = s[i]
  <2>1. \A i \in 1..m : s[i] \in FrameSet
    BY <1>1, TopIs
  <2>2. 1 \in Int /\ m \in Int
    BY <1>1
  <2> HIDE DEF FrameSet, m
  <2>3. /\ SubSeq(s, 1, m) \in Seq(FrameSet)
        /\ Len(SubSeq(s, 1, m)) = IF 1 <= m THEN m - 1 + 1 ELSE 0
        /\ \A i \in 1..(m - 1 + 1) : SubSeq(s, 1, m)[i] = s[1 + i - 1]
    BY <2>1, <2>2, SubSeqProperties
  <2>4. q = SubSeq(s, 1, m)
    BY DEF Front, m
  <2>5. Len(q) = m
    BY <1>1, <2>3, <2>4
  <2>6. \A i \in 1..m : i \in 1..(m - 1 + 1) /\ 1 + i - 1 = i
    BY <1>1
  <2>7. QED
    BY <2>3, <2>4, <2>5, <2>6
<1> HIDE DEF q
<1>3. ASSUME NEW i \in 1..m PROVE FrameOK(q[i], new, more, FALSE)
  <2>1. FrameOK(s[i], errs, objs, bad) /\ i \in 1..n /\ i < n
    BY <1>1 DEF StackOK
  <2>2. FrameOK(s[i], new, more, bad)
    BY <2>1, FrameStays
  <2>3. s[i].fn \in EntryPoints => s[i].phase = "reporting"
    BY <2>1, OthersReport
  <2>4. FrameOK(s[i], new, more, FALSE)
    BY <2>2, <2>3 DEF FrameOK
  <2>5. QED
    BY <1>2, <2>4
<1>4. ASSUME NEW i \in 1..m PROVE Linked(Below(q, i), q[i])
  <2>1. Linked(Below(s, i), s[i])
    BY <1>1 DEF StackOK
  <2>2. i # 1 => i - 1 \in 1..m
    BY <1>1
  <2>3. Below(q, i) = Below(s, i)
    BY <1>2, <2>2 DEF Below
  <2>4. QED
    BY <1>2, <2>1, <2>3
<1>5. ASSUME NEW i \in 1..m, NEW j \in 1..m, i < j, q[i].fn \in EntryPoints,
             q[i].phase # "reporting"
      PROVE  q[j].fn \in Internal
  BY <1>1, <1>2, <1>5 DEF StackOK
<1>6. StackOK(q, new, more, FALSE)
  BY <1>2, <1>3, <1>4, <1>5 DEF StackOK
<1>7. Top(q).phase # "returned"
  <2>1. CASE m = 0
    <3> HIDE DEF m
    <3>1. q = <<>>
      BY <1>2, <2>1, TopIs
    <3>2. QED
      BY <3>1, ApplicationFrame DEF Top
  <2>2. CASE m # 0
    <3>1. m \in 1..m /\ q # <<>> /\ m \in 1..n /\ n # 1
      BY <1>1, <1>2, <2>2, TopIs
    <3>2. Top(q) = s[m] /\ Below(s, n) = s[m]
      BY <1>2, <3>1, TopIs DEF Below
    <3>3. Linked(s[m], s[n]) /\ FrameOK(s[n], errs, objs, bad) /\ FrameOK(s[m], errs, objs, bad)
      BY <1>1, <3>1, <3>2 DEF StackOK
    <3>4. s[m].fn \in Functions \cup {"ErrorCallback"}
      BY <3>3, NamesDiffer DEF FrameOK
    <3>5. QED
      BY <3>2, <3>3, <3>4, NamesDiffer DEF Linked, FrameOK
  <2>3. QED
    BY <2>1, <2>2
<1>8. QED
  BY <1>1, <1>2, <1>6, <1>7 DEF q

-----------------------------------------------------------------------------
(* Errors stay held once when the same frames report them, and the Result  *)
(* in transit has the error it had.                                        *)
LEMMA SameReports ==
  ASSUME NEW s, NEW tmp, NEW errs, HeldOnce(s, tmp, errs), NEW q, NEW t, NEW new,
         DOMAIN new = DOMAIN errs,
         \A h \in Nat : h \in 1..Len(q) /\ q[h].phase = "reporting" <=>
                        h \in 1..Len(s) /\ s[h].phase = "reporting",
         \A h \in 1..Len(s) : s[h].phase = "reporting" => q[h].error = s[h].error,
         IsError(t) <=> IsError(tmp), IsError(tmp) => ErrorOf(t) = ErrorOf(tmp)
  PROVE  HeldOnce(q, t, new)
<1>1. ASSUME NEW e, NEW h \in Nat PROVE HeldBy(q, t, e, h) <=> HeldBy(s, tmp, e, h)
  BY DEF HeldBy
<1>2. QED
  BY <1>1 DEF HeldOnce

(* What calls have told the application stays true as objects are made.    *)
LEMMA ToldStill ==
  ASSUME CallersAreTold, Grows(objects, objects'), outcome' = outcome \/ outcome' = {}
  PROVE  CallersAreTold'
BY DEF CallersAreTold, Grows

(* A function or the application runs: the Result in transit is empty.     *)
LEMMA EmptyInTransit ==
  ASSUME ErrorInv, Top(stack).phase # "returned"
  PROVE  temp \in ResultSet /\ IsEmpty(temp) /\ IsError(temp) = FALSE
<1>1. temp \in ResultSet /\ IsEmpty(temp)
  BY DEF ErrorInv, TempOK
<1>2. QED
  BY <1>1, EmptyResults DEF IsError

(* The statement that runs.                                                *)
LEMMA Running ==
  ASSUME ErrorInv, NEW op, Runs(op)
  PROVE  /\ stack # <<>> /\ Len(stack) \in Nat /\ Len(stack) \in 1..Len(stack)
         /\ top = stack[Len(stack)] /\ top = Top(stack) /\ top \in FrameSet
         /\ FrameOK(top, errors, objects, IsError(temp))
         /\ top.fn \in Functions /\ top.fn \in EntryPoints \cup Internal
         /\ top.at \in 1..Len(Body[top.fn]) /\ statement.op = op /\ op \in Ops
         /\ ObeysAt(top.fn, statement)
         /\ op \in CallOps => Calls(top, statement.callee) /\ statement.callee = Callee(top)
         /\ op \in {"consume", "require", "new"} <=> top.fn \in EntryPoints
         /\ op \notin CallOps => top.phase = "running"
         /\ top.fn \in Internal => top.phase # "reporting"
<1>1. top = Top(stack) /\ top.fn \in Functions
  BY BodyObeys DEF top, Top, Runs
<1>2. stack # <<>>
  BY <1>1, ApplicationFrame, NamesDiffer DEF Top
<1>3. stack \in Seq(FrameSet)
  BY DEF ErrorInv, StackOK
<1>4. Len(stack) \in Nat /\ Len(stack) \in 1..Len(stack) /\ top = stack[Len(stack)]
      /\ top \in FrameSet
  BY <1>1, <1>2, <1>3, TopIs
<1>5. FrameOK(top, errors, objects, IsError(temp))
  BY <1>4 DEF ErrorInv, StackOK
<1>6. top.fn \in EntryPoints \cup Internal
  BY <1>1, <1>5, NamesDiffer DEF FrameOK
<1>7. Obeys(top.fn, Body[top.fn])
  BY <1>1, BodyObeys
<1>8. Len(Body[top.fn]) \in Nat
  BY <1>7, LenProperties DEF Obeys
<1>9. top.at \in Nat \ {0}
  BY <1>4 DEF FrameSet
<1>10. ~ (top.at > Len(Body[top.fn])) /\ statement.op = op /\ statement = Body[top.fn][top.at]
  BY DEF Runs, done, statement
<1>11. top.at \in 1..Len(Body[top.fn])
  BY <1>8, <1>9, <1>10
<1>12. ObeysAt(top.fn, statement)
  BY <1>7, <1>10, <1>11 DEF Obeys
<1>13. statement \in StatementSet
  <2>1. Body[top.fn] \in Seq(StatementSet)
    BY <1>7 DEF Obeys
  <2> HIDE DEF StatementSet
  <2>2. QED
    BY <1>10, <1>11, <2>1, ElementOfSeq
<1>14. op \in Ops
  BY <1>10, <1>13 DEF StatementSet
<1>15. op \in CallOps => Calls(top, statement.callee) /\ statement.callee = Callee(top)
  BY <1>1, <1>10, <1>11 DEF Calls, Callee
<1>16. op \in {"consume", "require", "new"} <=> top.fn \in EntryPoints
  BY <1>6, <1>10, <1>12, NamesDiffer DEF ObeysAt
<1>17. op \notin CallOps => top.phase = "running"
  BY <1>5, <1>10 DEF FrameOK, Calls
<1>18. top.fn \in Internal => top.phase # "reporting"
  BY <1>5, NamesDiffer DEF FrameOK
<1>19. QED
  BY <1>1, <1>2, <1>4, <1>5, <1>6, <1>10, <1>11, <1>12, <1>14, <1>15, <1>16, <1>17, <1>18

(* A call begins that finds nothing in transit.                            *)
LEMMA Begins ==
  ASSUME ErrorInv, Top(stack).phase # "returned",
         NEW fn \in EntryPoints \cup Internal \cup {"ErrorCallback"},
         Linked(Top(stack), Frame(fn)), stack' = Append(stack, Frame(fn)),
         UNCHANGED <<temp, errors, objects>>, destroyed' = {}, outcome' = {}
  PROVE  ErrorInv'
<1> DEFINE n == Len(stack)
           f == Frame(fn)
<1>1. temp \in ResultSet /\ IsEmpty(temp) /\ IsError(temp) = FALSE
  BY EmptyInTransit
<1>2. StackOK(stack, errors, objects, FALSE)
  BY <1>1 DEF ErrorInv
<1>3. StackOK(stack', errors, objects, FALSE) /\ Top(stack') = Frame(fn)
  BY <1>2, PushKeeps
<1>4. f \in FrameSet /\ f.phase = "running"
  BY NewFrame
<1>5. TempOK(Top(stack'), temp, errors, objects)
  BY <1>1, <1>3, <1>4 DEF TempOK
<1>6. HeldOnce(stack', temp, errors)
  <2>1. stack \in Seq(FrameSet) /\ n \in Nat
    BY <1>2, TopIs DEF StackOK
  <2> HIDE DEF f
  <2>2. stack' = Append(stack, f)
    BY DEF f
  <2>3. Len(stack') = n + 1 /\ stack'[n + 1] = f /\ \A i \in 1..n : stack'[i] = stack[i]
    <3> HIDE DEF FrameSet
    <3>1. QED
      BY <1>4, <2>1, <2>2, AppendProperties
  <2>4. \A h \in Nat : h \in 1..Len(stack') <=> h \in 1..n \/ h = n + 1
    BY <2>1, <2>3
  <2>5. n + 1 \notin 1..n
    BY <2>1
  <2>6. HeldOnce(stack, temp, errors)
    BY DEF ErrorInv
  <2>7. \A h \in Nat : h \in 1..Len(stack') /\ stack'[h].phase = "reporting" <=>
                       h \in 1..Len(stack) /\ stack[h].phase = "reporting"
    BY <1>4, <2>3, <2>4
  <2>8. \A h \in 1..Len(stack) : stack[h].phase = "reporting" => stack'[h].error = stack[h].error
    BY <2>3
  <2>9. QED
    BY <2>6, <2>7, <2>8, SameReports
<1>7. CallersAreTold'
  BY ToldStill DEF ErrorInv, Grows
<1>8. QED
  BY <1>1, <1>3, <1>5, <1>6, <1>7 DEF ErrorInv

(* The application calls an entry point.                                   *)
LEMMA CallKeeps ==
  ASSUME ErrorInv, NEW fn \in EntryPoints, Call(fn)
  PROVE  ErrorInv'
<1>1. top = Top(stack) /\ top.fn \in {"Application", "ErrorCallback"}
  BY DEF Call, AppRuns, top, Top
<1>2. Top(stack).phase = "running"
  <2>1. CASE stack = <<>>
    BY <2>1, ApplicationFrame DEF Top
  <2>2. CASE stack # <<>>
    <3>1. Len(stack) \in 1..Len(stack) /\ Top(stack) = stack[Len(stack)]
      BY <2>2, TopIs DEF ErrorInv, StackOK
    <3>2. FrameOK(Top(stack), errors, objects, IsError(temp))
      BY <3>1 DEF ErrorInv, StackOK
    <3>3. QED
      BY <1>1, <3>2, NamesDiffer DEF FrameOK
  <2>3. QED
    BY <2>1, <2>2
<1>3. Linked(Top(stack), Frame(fn))
  <2>1. Frame(fn).fn = fn
    BY NewFrame
  <2>2. QED
    BY <1>1, <2>1, NamesDiffer DEF Linked
<1>4. stack' = Append(stack, Frame(fn)) /\ UNCHANGED <<temp, errors, objects>>
      /\ destroyed' = {} /\ outcome' = {}
  BY DEF Call
<1>5. QED
  BY <1>2, <1>3, <1>4, Begins

(* A function calls another.                                               *)
LEMMA EnterKeeps ==
  ASSUME ErrorInv, Enter
  PROVE  ErrorInv'
<1>1. PICK op \in CallOps : Runs(op)
  BY DEF Enter, CallOps
<1>2. Calls(top, statement.callee) /\ top = Top(stack)
  BY <1>1, Running
<1>3. statement.callee \in Internal
  BY <1>2, CallsObey
<1>4. Top(stack).phase = "running"
  BY <1>2 DEF Enter
<1>5. Linked(Top(stack), Frame(statement.callee))
  <2>1. Frame(statement.callee).fn = statement.callee
    BY <1>3, NewFrame
  <2>2. QED
    BY <1>2, <1>3, <1>4, <2>1, NamesDiffer DEF Linked
<1>6. stack' = Append(stack, Frame(statement.callee)) /\ UNCHANGED <<temp, errors, objects>>
      /\ destroyed' = {} /\ outcome' = {}
  BY DEF Enter
<1>7. QED
  BY <1>3, <1>4, <1>5, <1>6, Begins

(* The frame of a function that goes on.                                   *)
LEMMA NextFrame ==
  ASSUME NEW t \in FrameSet, NEW object \in Nat
  PROVE  LET f == [t EXCEPT !.at = @ + 1, !.phase = "running", !.result = object]
         IN  f \in FrameSet
<1>1. t.at + 1 \in Nat \ {0}
  BY DEF FrameSet
<1>2. QED
  BY <1>1 DEF FrameSet, Phases

(* A function goes on with its next statement.                             *)
LEMMA Continues ==
  ASSUME ErrorInv, NEW op, Runs(op), top.fn \in Internal, IsError(temp) = FALSE,
         NEW object \in Nat, stack' = Continue(object), errors' = errors,
         temp' \in ResultSet, IsEmpty(temp'), Grows(objects, objects'),
         op \in {"assign", "make"} /\ top.fn \in DOMAIN MadeBy =>
           Made(objects', object, MadeBy[top.fn]),
         DOMAIN objects' \subseteq Address, IsFiniteSet(DOMAIN objects'),
         \A r \in destroyed' : IsEmpty(r), outcome' = outcome
  PROVE  ErrorInv'
<1> DEFINE n == Len(stack)
           f == [top EXCEPT !.at = @ + 1, !.phase = "running", !.result = object]
<1>1. /\ stack # <<>> /\ n \in Nat /\ n \in 1..n /\ top = stack[n] /\ top \in FrameSet
      /\ FrameOK(top, errors, objects, FALSE)
      /\ top.fn \in Functions /\ top.at \in 1..Len(Body[top.fn]) /\ statement.op = op
      /\ top.phase # "reporting"
  BY Running
<1>2. f \in FrameSet
  BY <1>1, NextFrame
<1>3. f.fn = top.fn /\ f.at = top.at + 1 /\ f.phase = "running" /\ f.result = object
      /\ f.told = top.told /\ f.failed = top.failed
  BY <1>1 DEF FrameSet
<1>4. stack' = [stack EXCEPT ![n] = f]
  BY DEF Continue, SetTop
<1> HIDE DEF f
<1>5. f.fn \in DOMAIN MadeBy /\ f.at > Len(Body[f.fn]) => Made(objects', f.result, MadeBy[f.fn])
  <2> SUFFICES ASSUME f.fn \in DOMAIN MadeBy, f.at > Len(Body[f.fn])
               PROVE  Made(objects', f.result, MadeBy[f.fn])
    OBVIOUS
  <2>1. Obeys(top.fn, Body[top.fn])
    BY <1>1, BodyObeys
  <2>2. Len(Body[top.fn]) \in Nat
    BY <2>1, LenProperties DEF Obeys
  <2>3. top.at = Len(Body[top.fn])
    BY <1>1, <1>3, <2>2
  <2>4. op \in {"assign", "make"}
    BY <1>1, <1>3, <2>1, <2>3 DEF Obeys, statement
  <2>5. QED
    BY <1>3, <2>4
<1>6. FrameOK(f, errors, objects', FALSE)
  BY <1>1, <1>3, <1>5, NamesDiffer DEF FrameOK
<1>7. StackOK(stack, errors, objects, FALSE)
  BY DEF ErrorInv
<1>8. /\ StackOK(stack', errors, objects', FALSE) /\ Len(stack') = n /\ Top(stack') = f
      /\ stack'[n] = f /\ \A i \in 1..n : i # n => stack'[i] = stack[i]
  <2>1. f.fn = stack[Len(stack)].fn /\ stack[Len(stack)].phase # "reporting"
        /\ stack # <<>> /\ f \in FrameSet /\ Grows(objects, objects')
    BY <1>1, <1>2, <1>3
  <2>4. PICK b : /\ b = FALSE /\ StackOK(stack, errors, objects, b)
                 /\ FrameOK(f, errors, objects', b)
    BY <1>6, <1>7
  <2> DEFINE q == [stack EXCEPT ![Len(stack)] = f]
  <2>2. /\ StackOK(q, errors, objects', b) /\ Len(q) = Len(stack) /\ Top(q) = f
        /\ q[Len(stack)] = f /\ \A i \in 1..Len(stack) : i # Len(stack) => q[i] = stack[i]
    BY <2>1, <2>4, TopKeeps
  <2>3. stack' = q
    BY <1>4
  <2>5. QED
    BY <2>2, <2>3, <2>4
<1>9. IsError(temp') = FALSE
  BY EmptyResults DEF IsError
<1>10. TempOK(Top(stack'), temp', errors', objects')
  BY <1>3, <1>8 DEF TempOK
<1>11. HeldOnce(stack', temp', errors')
  <2>1. HeldOnce(stack, temp, errors)
    BY DEF ErrorInv
  <2>2. \A h \in 1..n : stack'[h].phase = "reporting" <=> stack[h].phase = "reporting"
    BY <1>1, <1>3, <1>8
  <2>3. \A h \in 1..n : stack[h].phase = "reporting" => stack'[h].error = stack[h].error
    BY <1>1, <1>8
  <2>4. QED
    BY <1>8, <1>9, <2>1, <2>2, <2>3, SameReports
<1>12. CallersAreTold'
  BY ToldStill DEF ErrorInv
<1>13. QED
  BY <1>8, <1>9, <1>10, <1>11, <1>12 DEF ErrorInv

(* A check passes.                                                         *)
LEMMA CheckPassesKeeps ==
  ASSUME ErrorInv, CheckPasses
  PROVE  ErrorInv'
<1>1. Runs("check") /\ stack' = Continue(0) /\ destroyed' = {}
      /\ UNCHANGED <<temp, errors, objects, outcome>>
  BY DEF CheckPasses
<1>2. top = Top(stack) /\ top.phase = "running" /\ top.fn \in Internal
  BY <1>1, Running DEF CallOps
<1>3. temp \in ResultSet /\ IsEmpty(temp) /\ IsError(temp) = FALSE
  BY <1>2, EmptyInTransit
<1>4. Grows(objects, objects') /\ DOMAIN objects' \subseteq Address
      /\ IsFiniteSet(DOMAIN objects')
  BY <1>1 DEF ErrorInv, Grows
<1>5. temp' \in ResultSet /\ IsEmpty(temp')
  BY <1>1, <1>3
<1>6. 0 \in Nat /\ "check" \notin {"assign", "make"} /\ \A r \in destroyed' : IsEmpty(r)
  BY <1>1
<1>7. QED
  BY <1>1, <1>2, <1>3, <1>4, <1>5, <1>6, Continues

(* The addresses of what exists, and the next one.                         *)
LEMMA FreeAddress ==
  ASSUME ErrorInv
  PROVE  /\ NewAddress \in Address /\ NewAddress \in Nat
         /\ NewAddress \notin DOMAIN errors /\ NewAddress \notin DOMAIN objects
<1>1. IsFiniteSet(Used)
  BY FS_Union DEF Used, ErrorInv
<1>2. QED
  BY <1>1, NewAddressIsFree DEF Used, Address

(* An object is made.                                                      *)
LEMMA MakeObjectKeeps ==
  ASSUME ErrorInv, MakeObject
  PROVE  ErrorInv'
<1> DEFINE a == NewAddress
<1>1. /\ Runs("make") /\ stack' = Continue(a) /\ objects' = With(objects, a, top.fn)
      /\ destroyed' = {} /\ UNCHANGED <<temp, errors, outcome>>
  BY DEF MakeObject
<1>2. top = Top(stack) /\ top.phase = "running" /\ top.fn \in Internal
      /\ top.fn \in DOMAIN MadeBy /\ MadeBy[top.fn] = top.fn
  BY <1>1, Running DEF CallOps, ObeysAt
<1>3. temp \in ResultSet /\ IsEmpty(temp) /\ IsError(temp) = FALSE
  BY <1>2, EmptyInTransit
<1>4. a \in Address /\ a \in Nat /\ a \notin DOMAIN objects
  BY FreeAddress
<1> HIDE DEF a
<1>5. /\ DOMAIN objects' = DOMAIN objects \cup {a} /\ objects'[a] = top.fn
      /\ Grows(objects, objects')
  BY <1>1, <1>4 DEF With, Grows
<1>6. DOMAIN objects' \subseteq Address /\ IsFiniteSet(DOMAIN objects')
  BY <1>4, <1>5, FS_AddElement DEF ErrorInv
<1>7. Made(objects', a, MadeBy[top.fn])
  BY <1>2, <1>5 DEF Made
<1>8. QED
  BY <1>1, <1>2, <1>3, <1>4, <1>5, <1>6, <1>7, Continues DEF ErrorInv

(* DAWN_TRY goes on without an error, DAWN_TRY_ASSIGN with an object.      *)
LEMMA ProceedKeeps ==
  ASSUME ErrorInv, Proceed
  PROVE  ErrorInv'
<1>1. PICK op \in {"try", "assign"} : Runs(op)
  BY DEF Proceed
<1>2. /\ top.phase = "returned" /\ ~IsError(temp) /\ temp' = MovedFrom(temp)
      /\ UNCHANGED <<errors, objects, outcome>>
  BY DEF Proceed
<1>3. /\ top = Top(stack) /\ statement.op = op /\ ObeysAt(top.fn, statement)
      /\ Calls(top, statement.callee) /\ statement.callee = Callee(top)
      /\ top.fn \in Internal
  BY <1>1, Running DEF CallOps
<1>4. temp \in ResultSet /\ IsError(temp) = FALSE
  BY <1>2 DEF ErrorInv, TempOK, IsError
<1>5. temp.type = TypeOf(statement.callee)
      /\ (temp.type = "pointer" => Made(objects, temp.payload, MadeBy[statement.callee]))
  BY <1>2, <1>3 DEF ErrorInv, TempOK
<1>6. temp' \in ResultSet /\ IsEmpty(temp') /\ IsEmpty(Acquired(temp))
      /\ (temp.type = "void" => IsEmpty(temp))
  BY <1>2, <1>4, EmptyResults
<1>7. Grows(objects, objects') /\ DOMAIN objects' \subseteq Address
      /\ IsFiniteSet(DOMAIN objects')
  BY <1>2 DEF ErrorInv, Grows
<1>8. CASE op = "assign"
  <2>1. /\ stack' = Continue(GetSuccessFromPayload(temp.payload))
        /\ destroyed' = {MovedFrom(temp), Acquired(temp)}
    BY <1>3, <1>8 DEF Proceed
  <2>2. \A r \in destroyed' : IsEmpty(r)
    BY <1>2, <1>6, <2>1
  <2>3. temp.payload \in Nat /\ GetSuccessFromPayload(temp.payload) = temp.payload
    BY <1>4 DEF ResultSet, GetSuccessFromPayload
  <2>4. statement.callee \in Makers
        /\ (top.fn \in DOMAIN MadeBy => MadeBy[top.fn] = MadeBy[statement.callee])
    BY <1>3, <1>8 DEF ObeysAt
  <2>5. Made(objects', temp.payload, MadeBy[statement.callee])
    BY <1>2, <1>5, <2>4 DEF TypeOf
  <2>6. QED
    BY <1>1, <1>2, <1>3, <1>4, <1>6, <1>7, <2>1, <2>2, <2>3, <2>4, <2>5, Continues
<1>9. CASE op = "try"
  <2>1. stack' = Continue(0) /\ destroyed' = {MovedFrom(temp), temp}
    BY <1>3, <1>9 DEF Proceed
  <2>2. statement.callee \notin Makers
    BY <1>3, <1>9 DEF ObeysAt
  <2>3. \A r \in destroyed' : IsEmpty(r)
    BY <1>2, <1>5, <1>6, <2>1, <2>2 DEF TypeOf
  <2>4. 0 \in Nat /\ op \notin {"assign", "make"}
    BY <1>9
  <2>5. QED
    BY <1>1, <1>2, <1>3, <1>4, <1>6, <1>7, <2>1, <2>3, <2>4, Continues
<1>10. QED
  BY <1>8, <1>9

(* The stack without its top, and the frame below it told.                 *)
LEMMA PoppedIs ==
  ASSUME NEW s \in Seq(FrameSet), Len(s) > 1
  PROVE  LET q == Popped(Front(s))
         IN  /\ q \in Seq(FrameSet) /\ Len(q) = Len(s) - 1
             /\ \A i \in 1..Len(s) - 1 :
                  /\ q[i].fn = s[i].fn /\ q[i].at = s[i].at /\ q[i].error = s[i].error
                  /\ q[i].told = s[i].told /\ q[i].result = s[i].result
                  /\ q[i].failed = s[i].failed
                  /\ q[i].phase = IF i = Len(s) - 1 THEN "returned" ELSE s[i].phase
<1> DEFINE n == Len(s)
           m == n - 1
           t == Front(s)
           q == Popped(t)
<1>1. n \in Nat /\ m \in Nat /\ m \in 1..m /\ \A i \in 1..m : i \in 1..n /\ s[i] \in FrameSet
  <2>1. n \in Nat /\ n > 1 /\ \A i \in 1..n : s[i] \in FrameSet
    BY TopIs
  <2>2. QED
    BY <2>1
<1>2. t \in Seq(FrameSet) /\ Len(t) = m /\ \A i \in 1..m : t[i] = s[i]
  <2>1. 1 \in Int /\ m \in Int
    BY <1>1
  <2> HIDE DEF FrameSet, m
  <2>2. /\ SubSeq(s, 1, m) \in Seq(FrameSet)
        /\ Len(SubSeq(s, 1, m)) = IF 1 <= m THEN m - 1 + 1 ELSE 0
        /\ \A i \in 1..(m - 1 + 1) : SubSeq(s, 1, m)[i] = s[1 + i - 1]
    BY <1>1, <2>1, SubSeqProperties
  <2>3. t = SubSeq(s, 1, m)
    BY DEF Front, m
  <2>4. Len(t) = m /\ \A i \in 1..m : i \in 1..(m - 1 + 1) /\ 1 + i - 1 = i
    BY <1>1, <2>2, <2>3
  <2>5. QED
    BY <2>2, <2>3, <2>4
<1> HIDE DEF t
<1>3. t # <<>>
  BY <1>1, <1>2, TopIs
<1> DEFINE f == [t[m] EXCEPT !.phase = "returned"]
<1>4. q = [t EXCEPT ![m] = f]
  BY <1>2, <1>3 DEF Popped
<1>5. f \in FrameSet
  <2>1. t[m] \in FrameSet
    BY <1>1, <1>2
  <2>2. QED
    BY <2>1 DEF FrameSet, Phases
<1>6. DOMAIN t = 1..m
  BY <1>2, TopIs
<1>7. q \in Seq(FrameSet) /\ Len(q) = m
  <2>1. m \in 1..Len(t) /\ q = [t EXCEPT ![m] = f]
    BY <1>1, <1>2, <1>4
  <2> HIDE DEF FrameSet, f, q, m
  <2>2. QED
    BY <1>2, <1>5, <2>1, ExceptSeq
<1>8. \A i \in 1..m : q[i] = IF i = m THEN f ELSE s[i]
  BY <1>2, <1>4, <1>6
<1>9. /\ f.fn = s[m].fn /\ f.at = s[m].at /\ f.error = s[m].error /\ f.told = s[m].told
      /\ f.result = s[m].result /\ f.failed = s[m].failed /\ f.phase = "returned"
  BY <1>1, <1>2 DEF FrameSet
<1> HIDE DEF f
<1>10. QED
  BY <1>7, <1>8, <1>9 DEF q, t

(* A function hands its Result to its caller.                              *)
LEMMA GivesBack ==
  ASSUME ErrorInv, stack # <<>>, top.fn \in Internal, NEW now \in BOOLEAN,
         Returns(stack, stack', now), now <=> IsError(temp'),
         \A i \in 1..Len(stack) :
           stack[i].phase = "reporting" => Stays(stack[i].error, errors, errors'),
         HeldOnce(stack, temp', errors'),
         temp' \in ResultSet, temp'.type = TypeOf(top.fn),
         IsError(temp') => ErrorOf(temp') \in DOMAIN errors'
                           /\ Trace(errors'[ErrorOf(temp')], top.fn),
         ~IsError(temp') /\ temp'.type = "pointer" =>
           Made(objects, temp'.payload, MadeBy[top.fn]),
         ~IsError(temp') =>
           \A t : t = Top(stack') /\ Calls(t, top.fn) /\ t.fn \in DOMAIN MakerOf =>
             Made(objects, t.result, MakerOf[t.fn]),
         DOMAIN errors' \subseteq Address, IsFiniteSet(DOMAIN errors'),
         UNCHANGED <<objects, outcome>>, \A r \in destroyed' : IsEmpty(r)
  PROVE  ErrorInv'
<1>1. top = stack[Len(stack)] /\ StackOK(stack, errors, objects, IsError(temp))
      /\ Len(stack) \in Nat
  BY TopIs DEF ErrorInv, StackOK, top
<1>2. /\ StackOK(stack', errors', objects, now)
      /\ Top(stack').phase = "returned" /\ Calls(Top(stack'), top.fn)
      /\ \A h \in 1..Len(stack') : stack'[h].phase = "reporting" <=> stack[h].phase = "reporting"
      /\ top.phase # "reporting"
  BY <1>1, ReturnKeeps, SMTT(30)
<1>3. StackOK(stack', errors', objects', IsError(temp'))
  <2>1. now = IsError(temp')
    BY DEF IsError
  <2>2. QED
    BY <1>2, <2>1
<1>4. Callee(Top(stack')) = top.fn
  BY <1>2 DEF Calls
<1>5. TempOK(Top(stack'), temp', errors', objects')
  BY <1>2, <1>4 DEF TempOK
<1>6. HeldOnce(stack', temp', errors')
  <2>1. Len(stack') = Len(stack) - 1
        /\ \A i \in 1..Len(stack) - 1 : stack'[i].error = stack[i].error
    BY DEF Returns
  <2>2. \A h \in Nat : h \in 1..Len(stack) <=> h \in 1..Len(stack') \/ h = Len(stack)
    BY <1>1, <2>1
  <2>3. \A h \in Nat : h \in 1..Len(stack') /\ stack'[h].phase = "reporting" <=>
                       h \in 1..Len(stack) /\ stack[h].phase = "reporting"
    BY <1>1, <1>2, <2>2
  <2>4. \A h \in 1..Len(stack) : stack[h].phase = "reporting" => stack'[h].error = stack[h].error
    BY <1>1, <1>2, <2>1, <2>2
  <2>5. QED
    BY <2>3, <2>4, SameReports
<1>7. CallersAreTold'
  BY ToldStill DEF ErrorInv, Grows
<1>8. QED
  BY <1>3, <1>5, <1>6, <1>7 DEF ErrorInv

(* What the running function has below it.                                 *)
LEMMA RunningInternal ==
  ASSUME ErrorInv, stack # <<>>, top.fn \in Internal
  PROVE  /\ stack \in Seq(FrameSet) /\ Len(stack) > 1 /\ Len(stack) \in Nat
         /\ \A i \in 1..Len(stack) - 1 : i \in 1..Len(stack)
         /\ \A i \in 1..Len(stack) : FrameOK(stack[i], errors, objects, IsError(temp))
<1>1. stack \in Seq(FrameSet) /\ top = stack[Len(stack)]
      /\ StackOK(stack, errors, objects, IsError(temp))
  BY TopIs DEF ErrorInv, StackOK, top
<1>2. Len(stack) > 1 /\ Len(stack) \in Nat
  BY <1>1, CallerIsBelow
<1>3. \A i \in 1..Len(stack) - 1 : i \in 1..Len(stack)
  BY <1>2
<1>4. \A i \in 1..Len(stack) : FrameOK(stack[i], errors, objects, IsError(temp))
  BY <1>1 DEF StackOK
<1>5. QED
  BY <1>1, <1>2, <1>3, <1>4

(* The stack from which the function that runs returns.                    *)
LEMMA PoppedReturns ==
  ASSUME ErrorInv, stack # <<>>, top.fn \in Internal
  PROVE  Returns(stack, Popped(Front(stack)), IsError(temp))
<1> DEFINE q == Popped(Front(stack))
<1>1. /\ stack \in Seq(FrameSet) /\ Len(stack) > 1
      /\ \A i \in 1..Len(stack) - 1 : FrameOK(stack[i], errors, objects, IsError(temp))
  BY RunningInternal
<1>2. /\ q \in Seq(FrameSet) /\ Len(q) = Len(stack) - 1
      /\ \A i \in 1..Len(stack) - 1 :
           /\ q[i].fn = stack[i].fn /\ q[i].at = stack[i].at /\ q[i].error = stack[i].error
           /\ q[i].told = stack[i].told /\ q[i].result = stack[i].result
           /\ q[i].failed = stack[i].failed
           /\ q[i].phase = IF i = Len(stack) - 1 THEN "returned" ELSE stack[i].phase
  BY <1>1, PoppedIs
<1> HIDE DEF q
<1>3. \A i \in 1..Len(stack) - 1 :
        q[i].fn \in EntryPoints =>
          (q[i].failed <=> stack[i].phase = "reporting" \/ IsError(temp))
  BY <1>1, <1>2 DEF FrameOK
<1>4. QED
  BY <1>2, <1>3 DEF Returns, q

(* A layout of the cache is returned, or none is found.                    *)
LEMMA FindObjectKeeps ==
  ASSUME ErrorInv, FindObject
  PROVE  ErrorInv'
<1>1. Runs("find") /\ destroyed' = {} /\ UNCHANGED <<errors, objects, outcome>>
  BY DEF FindObject
<1>2. /\ stack # <<>> /\ top = Top(stack) /\ top.phase = "running" /\ top.fn \in Internal
      /\ top.fn = "GetOrCreateBindGroupLayout"
  BY <1>1, Running DEF CallOps, ObeysAt
<1>3. temp \in ResultSet /\ IsEmpty(temp) /\ IsError(temp) = FALSE
  BY <1>2, EmptyInTransit
<1>4. Grows(objects, objects') /\ DOMAIN objects' \subseteq Address
      /\ IsFiniteSet(DOMAIN objects') /\ DOMAIN errors' \subseteq Address
      /\ IsFiniteSet(DOMAIN errors') /\ \A r \in destroyed' : IsEmpty(r)
  BY <1>1 DEF ErrorInv, Grows
<1>5. CASE stack' = Continue(0) /\ UNCHANGED temp
  <2>1. 0 \in Nat /\ "find" \notin {"assign", "make"}
    OBVIOUS
  <2>2. temp' \in ResultSet /\ IsEmpty(temp')
    BY <1>3, <1>5
  <2>3. QED
    BY <1>1, <1>2, <1>3, <1>4, <1>5, <2>1, <2>2, Continues
<1>6. ASSUME NEW o \in DOMAIN objects, objects[o] = "CreateBindGroupLayoutImpl",
             stack' = Popped(Front(stack)), temp' = FromSuccess("pointer", o)
      PROVE  ErrorInv'
  <2>1. TypeOf(top.fn) = "pointer" /\ top.fn \in Makers
        /\ MadeBy[top.fn] = "CreateBindGroupLayoutImpl"
    BY <1>2 DEF TypeOf, Makers, MadeBy
  <2>2. o \in Address /\ o \in Nat
    BY DEF ErrorInv, Address
  <2>3. temp' \in ResultSet /\ temp'.type = "pointer" /\ temp'.payload = o /\ ~IsError(temp')
    BY <1>6, <2>2, SuccessResults
  <2>4. Returns(stack, stack', FALSE)
    BY <1>2, <1>3, <1>6, PoppedReturns
  <2>5. HeldOnce(stack, temp', errors')
    BY <1>1, <1>3, <2>3, SameReports DEF ErrorInv
  <2>6. \A i \in 1..Len(stack) :
          stack[i].phase = "reporting" => Stays(stack[i].error, errors, errors')
    BY <1>1, <1>2, RunningInternal DEF Stays, FrameOK
  <2>7. \A t : ~ (Calls(t, top.fn) /\ t.fn \in DOMAIN MakerOf)
    BY <2>1, CallsObey, NamesDiffer
  <2>8. Made(objects, temp'.payload, MadeBy[top.fn])
    BY <1>6, <2>1, <2>3 DEF Made
  <2>9. PICK now \in BOOLEAN : now = FALSE /\ Returns(stack, stack', now)
    BY <2>4
  <2>10. QED
    BY <1>1, <1>2, <1>4, <2>1, <2>3, <2>5, <2>6, <2>7, <2>8, <2>9, GivesBack
<1>7. QED
  BY <1>5, <1>6 DEF FindObject

(* DAWN_TRY hands an error to the caller of the function.                  *)
LEMMA PropagateKeeps ==
  ASSUME ErrorInv, Propagate
  PROVE  ErrorInv'
<1> DEFINE e == ErrorOf(temp)
           trace == errors[e]
<1>1. PICK op \in {"try", "assign"} : Runs(op)
  BY DEF Propagate
<1>2. /\ top.phase = "returned" /\ IsError(temp) /\ UNCHANGED <<objects, outcome>>
      /\ errors' = [errors EXCEPT ![e] = Append(errors[e], top.fn)]
      /\ temp' = FromError(TypeOf(top.fn), e)
      /\ destroyed' = {MovedFrom(temp), Acquired(temp)}
      /\ stack' = Popped(Front(stack))
  BY DEF Propagate
<1>3. /\ stack # <<>> /\ top = Top(stack) /\ top.fn \in Internal
      /\ Calls(top, statement.callee) /\ statement.callee = Callee(top)
  BY <1>1, Running DEF CallOps
<1>4. temp \in ResultSet /\ e \in DOMAIN errors /\ Trace(trace, statement.callee)
  BY <1>2, <1>3 DEF ErrorInv, TempOK
<1>5. e \in Address
  BY <1>4 DEF ErrorInv
<1>6. TypeOf(top.fn) \in {"void", "pointer"}
  BY DEF TypeOf
<1>7. temp' \in ResultSet /\ temp'.type = TypeOf(top.fn) /\ IsError(temp') /\ ErrorOf(temp') = e
  <2> HIDE DEF e
  <2>1. QED
    BY <1>2, <1>5, <1>6, ErrorResults
<1>8. IsError(temp') = IsError(temp)
  BY <1>2, <1>7 DEF IsError
<1>9. Returns(stack, stack', IsError(temp'))
  BY <1>2, <1>3, <1>8, PoppedReturns
<1>10. DOMAIN errors' = DOMAIN errors /\ errors'[e] = Append(trace, top.fn)
       /\ \A a \in DOMAIN errors : a # e => errors'[a] = errors[a]
  <2> HIDE DEF e
  <2>1. QED
    BY <1>2, <1>4
<1>11. Trace(errors'[e], top.fn)
  <2>1. top.fn \in Functions /\ CalledBy(statement.callee, top.fn)
    BY <1>3, CallsObey, NamesDiffer
  <2>2. trace \in Seq(Functions) /\ Len(trace) > 0 /\ trace[Len(trace)] = statement.callee
        /\ \A k \in 2..Len(trace) : CalledBy(trace[k - 1], trace[k])
    BY <1>4 DEF Trace
  <2> HIDE DEF trace, e
  <2> DEFINE more == Append(trace, top.fn)
             m == Len(trace)
  <2>3. m \in Nat
    BY <2>2, LenProperties
  <2>4. more \in Seq(Functions) /\ Len(more) = m + 1 /\ more[m + 1] = top.fn
        /\ \A k \in 1..m : more[k] = trace[k]
    BY <2>1, <2>2, AppendProperties
  <2> HIDE DEF more
  <2>5. ASSUME NEW k \in 2..Len(more) PROVE CalledBy(more[k - 1], more[k])
    <3>1. k \in 2..m \/ k = m + 1
      BY <2>3, <2>4
    <3>2. CASE k \in 2..m
      <4>1. k \in 1..m /\ k - 1 \in 1..m
        BY <2>3, <3>2
      <4>2. QED
        BY <2>2, <2>4, <3>2, <4>1
    <3>3. CASE k = m + 1
      <4>1. k - 1 = m /\ m \in 1..m
        BY <2>2, <2>3, <3>3
      <4>2. QED
        BY <2>1, <2>2, <2>4, <3>3, <4>1
    <3>4. QED
      BY <3>1, <3>2, <3>3
  <2>6. Len(more) > 0 /\ more[Len(more)] = top.fn
    BY <2>3, <2>4
  <2>7. QED
    BY <1>10, <2>4, <2>5, <2>6 DEF Trace, more
<1>12. \A i \in 1..Len(stack) :
         stack[i].phase = "reporting" => Stays(stack[i].error, errors, errors')
  <2> SUFFICES ASSUME NEW i \in 1..Len(stack), stack[i].phase = "reporting"
               PROVE  Stays(stack[i].error, errors, errors')
    OBVIOUS
  <2>1. stack[i].error \in DOMAIN errors
    BY <1>3, RunningInternal DEF FrameOK
  <2>2. i \in Nat /\ i # 0
    BY <1>3, RunningInternal
  <2>3. stack[i].error # e
    <3> SUFFICES ASSUME stack[i].error = e PROVE FALSE
      OBVIOUS
    <3>1. HeldBy(stack, temp, e, i) /\ HeldBy(stack, temp, e, 0)
      BY <1>2 DEF HeldBy
    <3>2. QED
      BY <1>4, <2>2, <3>1 DEF ErrorInv, HeldOnce
  <2>4. QED
    BY <1>10, <2>1, <2>3 DEF Stays
<1>13. HeldOnce(stack, temp', errors')
  BY <1>2, <1>7, <1>10, SameReports DEF ErrorInv
<1>14. DOMAIN errors' \subseteq Address /\ IsFiniteSet(DOMAIN errors')
  BY <1>10 DEF ErrorInv
<1>15. \A r \in destroyed' : IsEmpty(r)
  BY <1>2, <1>4, EmptyResults
<1>16. ErrorOf(temp') \in DOMAIN errors' /\ Trace(errors'[ErrorOf(temp')], top.fn)
  BY <1>4, <1>7, <1>10, <1>11
<1>17. PICK now \in BOOLEAN : now = TRUE /\ Returns(stack, stack', now)
  <2>1. IsError(temp') = TRUE
    BY <1>7 DEF IsError
  <2>2. QED
    BY <1>9, <2>1
<1> HIDE DEF e, trace
<1>18. QED
  BY <1>2, <1>3, <1>7, <1>12, <1>13, <1>14, <1>15, <1>16, <1>17, GivesBack

(* A check fails, or an object cannot be made: the call that is executed   *)
(* has failed, and the error is on its way.                                *)
LEMMA MakeErrorKeeps ==
  ASSUME ErrorInv, MakeError
  PROVE  ErrorInv'
<1> DEFINE a == NewAddress
           marked == [i \in DOMAIN stack |->
                        IF IsCurrent(i) THEN [stack[i] EXCEPT !.failed = TRUE] ELSE stack[i]]
           n == Len(stack)
<1>1. PICK op \in {"check", "make"} : Runs(op)
  BY DEF MakeError
<1>2. /\ stack' = Popped(Front(marked)) /\ errors' = With(errors, a, <<top.fn>>)
      /\ temp' = FromError(TypeOf(top.fn), a) /\ destroyed' = {}
      /\ UNCHANGED <<objects, outcome>>
  BY DEF MakeError
<1>3. /\ stack # <<>> /\ top = Top(stack) /\ top.phase = "running" /\ top.fn \in Internal
      /\ top.fn \in Functions
  BY <1>1, Running DEF CallOps
<1>4. temp \in ResultSet /\ IsError(temp) = FALSE
  BY <1>3, EmptyInTransit
<1>5. /\ stack \in Seq(FrameSet) /\ n > 1 /\ n \in Nat /\ DOMAIN stack = 1..n
      /\ \A i \in 1..n : FrameOK(stack[i], errors, objects, FALSE) /\ stack[i] \in FrameSet
      /\ \A i \in 1..n - 1 : i \in 1..n
  BY <1>3, <1>4, RunningInternal, TopIs
<1>6. a \in Address /\ a \in Nat /\ a \notin DOMAIN errors
  BY FreeAddress
<1> HIDE DEF a
<1>7. \A i \in 1..n : stack[i].fn \in EntryPoints /\ stack[i].phase # "reporting" => IsCurrent(i)
  <2> SUFFICES ASSUME NEW i \in 1..n, stack[i].fn \in EntryPoints,
                      stack[i].phase # "reporting"
               PROVE  IsCurrent(i)
    OBVIOUS
  <2>1. \A j \in i + 1..n : j \in 1..n /\ i < j
    BY <1>5
  <2>2. \A j \in i + 1..n : stack[j].fn \in Internal
    BY <2>1 DEF ErrorInv, StackOK
  <2>3. QED
    BY <2>2, NamesDiffer DEF IsCurrent, IsApi
<1>8. \A i \in 1..n :
        /\ marked[i] \in FrameSet
        /\ marked[i].fn = stack[i].fn /\ marked[i].at = stack[i].at
        /\ marked[i].error = stack[i].error /\ marked[i].told = stack[i].told
        /\ marked[i].result = stack[i].result /\ marked[i].phase = stack[i].phase
        /\ stack[i].fn \in EntryPoints => marked[i].failed = TRUE
  <2> SUFFICES ASSUME NEW i \in 1..n
               PROVE  /\ marked[i] \in FrameSet
                      /\ marked[i].fn = stack[i].fn /\ marked[i].at = stack[i].at
                      /\ marked[i].error = stack[i].error /\ marked[i].told = stack[i].told
                      /\ marked[i].result = stack[i].result /\ marked[i].phase = stack[i].phase
                      /\ stack[i].fn \in EntryPoints => marked[i].failed = TRUE
    OBVIOUS
  <2>1. marked[i] = IF IsCurrent(i) THEN [stack[i] EXCEPT !.failed = TRUE] ELSE stack[i]
    BY <1>5
  <2>2. stack[i] \in FrameSet /\ FrameOK(stack[i], errors, objects, FALSE)
    BY <1>5
  <2>3. stack[i].failed \in BOOLEAN
    BY <2>2 DEF FrameSet
  <2> HIDE DEF marked
  <2>4. CASE IsCurrent(i)
    BY <2>1, <2>2, <2>4 DEF FrameSet
  <2>5. CASE ~IsCurrent(i)
    BY <1>7, <2>1, <2>2, <2>3, <2>5 DEF FrameOK
  <2>6. QED
    BY <2>4, <2>5
<1>9. marked \in Seq(FrameSet) /\ Len(marked) = n
  <2>1. marked \in [1..n -> FrameSet]
    BY <1>5, <1>8
  <2> HIDE DEF marked, FrameSet
  <2>2. QED
    BY <1>5, <2>1, IsASeq, LenProperties
<1> HIDE DEF marked
<1>10. /\ stack' \in Seq(FrameSet) /\ Len(stack') = n - 1
       /\ \A i \in 1..n - 1 :
            /\ stack'[i].fn = marked[i].fn /\ stack'[i].at = marked[i].at
            /\ stack'[i].error = marked[i].error
            /\ stack'[i].told = marked[i].told /\ stack'[i].result = marked[i].result
            /\ stack'[i].failed = marked[i].failed
            /\ stack'[i].phase = IF i = n - 1 THEN "returned" ELSE marked[i].phase
  <2> DEFINE q == Popped(Front(marked))
  <2>1. /\ q \in Seq(FrameSet) /\ Len(q) = Len(marked) - 1
        /\ \A i \in 1..Len(marked) - 1 :
             /\ q[i].fn = marked[i].fn /\ q[i].at = marked[i].at
             /\ q[i].error = marked[i].error
             /\ q[i].told = marked[i].told /\ q[i].result = marked[i].result
             /\ q[i].failed = marked[i].failed
             /\ q[i].phase = IF i = Len(marked) - 1 THEN "returned" ELSE marked[i].phase
    BY <1>5, <1>9, PoppedIs
  <2>2. stack' = q
    BY <1>2
  <2> HIDE DEF q
  <2>3. QED
    BY <1>9, <2>1, <2>2
<1>11. PICK now \in BOOLEAN : now = TRUE /\ Returns(stack, stack', now)
  <2>1. Returns(stack, stack', TRUE)
    <3>1. ASSUME NEW i \in 1..n - 1
          PROVE  /\ stack'[i].fn = stack[i].fn /\ stack'[i].at = stack[i].at
                 /\ stack'[i].error = stack[i].error /\ stack'[i].told = stack[i].told
                 /\ stack'[i].phase = IF i = n - 1 THEN "returned" ELSE stack[i].phase
                 /\ stack'[i].result = stack[i].result
                 /\ stack'[i].fn \in EntryPoints => stack'[i].failed = TRUE
      BY <1>5, <1>8, <1>10
    <3>2. QED
      BY <1>10, <3>1 DEF Returns
  <2>2. QED
    BY <2>1
<1>12. TypeOf(top.fn) \in {"void", "pointer"}
  BY DEF TypeOf
<1>13. temp' \in ResultSet /\ temp'.type = TypeOf(top.fn) /\ IsError(temp') /\ ErrorOf(temp') = a
  BY <1>2, <1>6, <1>12, ErrorResults
<1>14. /\ DOMAIN errors' = DOMAIN errors \cup {a} /\ errors'[a] = <<top.fn>>
       /\ \A e \in DOMAIN errors : errors'[e] = errors[e]
  BY <1>2, <1>6 DEF With
<1>15. Trace(errors'[a], top.fn)
  <2>1. <<top.fn>> \in Seq(Functions) /\ Len(<<top.fn>>) = 1 /\ <<top.fn>>[1] = top.fn
    BY <1>3
  <2>2. \A k : k \notin 2..1
    OBVIOUS
  <2>3. QED
    BY <1>14, <2>1, <2>2 DEF Trace
<1>16. \A i \in 1..n : stack[i].phase = "reporting" =>
         stack[i].error \in DOMAIN errors /\ Stays(stack[i].error, errors, errors')
  BY <1>5, <1>14 DEF Stays, FrameOK
<1>17. HeldOnce(stack, temp', errors')
  <2> SUFFICES ASSUME NEW e \in DOMAIN errors'
               PROVE  /\ \E h \in Nat : HeldBy(stack, temp', e, h)
                      /\ \A h, i \in Nat : HeldBy(stack, temp', e, h)
                                           /\ HeldBy(stack, temp', e, i) => h = i
    BY DEF HeldOnce
  <2>1. CASE e = a
    <3>1. \A h \in Nat : HeldBy(stack, temp', e, h) <=> h = 0
      BY <1>6, <1>13, <1>16, <2>1 DEF HeldBy
    <3>2. QED
      BY <3>1
  <2>2. CASE e # a
    <3>1. e \in DOMAIN errors
      BY <1>14, <2>2
    <3>2. \A h \in Nat : HeldBy(stack, temp', e, h) <=> HeldBy(stack, temp, e, h)
      BY <1>4, <1>13, <2>2 DEF HeldBy
    <3>3. QED
      BY <3>1, <3>2 DEF ErrorInv, HeldOnce
  <2>3. QED
    BY <2>1, <2>2
<1>18. DOMAIN errors' \subseteq Address /\ IsFiniteSet(DOMAIN errors')
  BY <1>6, <1>14, FS_AddElement DEF ErrorInv
<1>19. ErrorOf(temp') \in DOMAIN errors' /\ Trace(errors'[ErrorOf(temp')], top.fn)
  BY <1>13, <1>14, <1>15
<1>20. \A r \in destroyed' : IsEmpty(r)
  BY <1>2
<1>21. QED
  BY <1>2, <1>3, <1>11, <1>13, <1>16, <1>17, <1>18, <1>19, <1>20, GivesBack

(* A function returns its object, or nothing.                              *)
LEMMA ReturnStepKeeps ==
  ASSUME ErrorInv, Return
  PROVE  ErrorInv'
<1> DEFINE n == Len(stack)
           m == n - 1
           below == Popped(Front(stack))
<1>1. /\ top.fn \in Functions /\ done /\ ~IsApi(top.fn)
      /\ temp' = FromSuccess(TypeOf(top.fn), top.result)
      /\ stack' = IF IsApi(stack[m].fn) THEN [below EXCEPT ![m].result = top.result] ELSE below
      /\ destroyed' = {} /\ UNCHANGED <<errors, objects, outcome>>
  BY BodyObeys DEF Return
<1>2. /\ stack # <<>> /\ top = Top(stack) /\ n \in 1..n /\ top = stack[n] /\ top \in FrameSet
      /\ FrameOK(top, errors, objects, IsError(temp))
  <2>1. top = Top(stack)
    BY DEF top, Top
  <2>2. stack # <<>>
    BY <1>1, <2>1, ApplicationFrame, NamesDiffer DEF Top
  <2>3. n \in 1..n /\ top = stack[n] /\ top \in FrameSet
    BY <2>1, <2>2, TopIs DEF ErrorInv, StackOK
  <2>4. QED
    BY <2>1, <2>2, <2>3 DEF ErrorInv, StackOK
<1>3. top.fn \in Internal
  BY <1>1, <1>2, NamesDiffer DEF FrameOK, IsApi
<1>4. top.phase = "running"
  <2>1. top.at > Len(Body[top.fn]) /\ top.at \in Nat
    BY <1>1, <1>2 DEF done, FrameSet
  <2>2. Len(Body[top.fn]) \in Nat
    BY <1>1, BodyObeys, LenProperties DEF Obeys
  <2>3. top.at \notin 1..Len(Body[top.fn])
    BY <2>1, <2>2
  <2>4. QED
    BY <1>2, <2>3 DEF FrameOK, Calls
<1>5. temp \in ResultSet /\ IsError(temp) = FALSE
  BY <1>2, <1>4, EmptyInTransit
<1>6. top.fn \in DOMAIN MadeBy => Made(objects, top.result, MadeBy[top.fn])
  BY <1>1, <1>2 DEF FrameOK, done
<1>7. top.result \in Nat
  BY <1>2 DEF FrameSet
<1>8. /\ temp' \in ResultSet /\ temp'.type = TypeOf(top.fn) /\ ~IsError(temp')
      /\ temp'.type = "pointer" => temp'.payload = top.result /\ top.fn \in Makers
  <2>1. TypeOf(top.fn) \in {"void", "pointer"} /\ (TypeOf(top.fn) = "pointer" => top.fn \in Makers)
    BY DEF TypeOf
  <2>2. TypeOf(top.fn) = "pointer" => top.result \in Address
    BY <1>6, <2>1, NamesDiffer DEF ErrorInv, Made
  <2>3. QED
    BY <1>1, <1>7, <2>1, <2>2, SuccessResults
<1>9. n > 1 /\ n \in Nat /\ m \in 1..n /\ m \in 1..m /\ m \in Nat
      /\ \A i \in 1..n : FrameOK(stack[i], errors, objects, IsError(temp))
  <2>1. n > 1 /\ n \in Nat /\ \A i \in 1..n : FrameOK(stack[i], errors, objects, IsError(temp))
    BY <1>2, <1>3, RunningInternal
  <2>2. QED
    BY <2>1
<1>10. Returns(stack, below, FALSE)
  BY <1>2, <1>3, <1>5, PoppedReturns
<1> HIDE DEF below
<1>11. below \in Seq(FrameSet) /\ Len(below) = m /\ DOMAIN below = 1..m
       /\ \A i \in 1..m : below[i] \in FrameSet
  BY <1>10, TopIs DEF Returns
<1>12. /\ stack' \in Seq(FrameSet) /\ Len(stack') = m
       /\ \A i \in 1..m :
            /\ stack'[i].fn = below[i].fn /\ stack'[i].at = below[i].at
            /\ stack'[i].error = below[i].error /\ stack'[i].told = below[i].told
            /\ stack'[i].phase = below[i].phase /\ stack'[i].failed = below[i].failed
            /\ stack'[i].fn \in Internal => stack'[i].result = below[i].result
       /\ IsApi(stack[m].fn) => stack'[m].result = top.result
  <2>1. CASE IsApi(stack[m].fn)
    <3> DEFINE f == [below[m] EXCEPT !.result = top.result]
    <3>1. stack' = [below EXCEPT ![m] = f]
      BY <1>1, <1>11, <2>1
    <3>2. /\ f \in FrameSet /\ f.fn = below[m].fn /\ f.at = below[m].at
          /\ f.error = below[m].error /\ f.told = below[m].told
          /\ f.phase = below[m].phase /\ f.failed = below[m].failed /\ f.result = top.result
      <4>1. below[m] \in FrameSet
        BY <1>9, <1>11
      <4>2. QED
        BY <1>7, <4>1 DEF FrameSet
    <3> HIDE DEF f
    <3>3. stack' \in Seq(FrameSet) /\ Len(stack') = m
      <4>1. m \in 1..Len(below)
        BY <1>9, <1>11
      <4> HIDE DEF FrameSet, m
      <4>2. QED
        BY <1>11, <3>1, <3>2, <4>1, ExceptSeq
    <3>4. \A i \in 1..m : stack'[i] = IF i = m THEN f ELSE below[i]
      BY <1>11, <3>1
    <3>5. below[m].fn \notin Internal
      <4>1. below[m].fn = stack[m].fn
        BY <1>9, <1>10 DEF Returns
      <4>2. QED
        BY <2>1, <4>1, NamesDiffer DEF IsApi
    <3>6. stack'[m] = f
      BY <1>9, <3>4
    <3>7. QED
      BY <3>2, <3>3, <3>4, <3>5, <3>6
  <2>2. CASE ~IsApi(stack[m].fn)
    BY <1>1, <1>11, <2>2
  <2>3. QED
    BY <2>1, <2>2
<1>13. PICK now \in BOOLEAN : now = FALSE /\ Returns(stack, stack', now)
  <2>1. Returns(stack, stack', FALSE)
    <3>1. ASSUME NEW i \in 1..m
          PROVE  /\ stack'[i].fn = stack[i].fn /\ stack'[i].at = stack[i].at
                 /\ stack'[i].error = stack[i].error /\ stack'[i].told = stack[i].told
                 /\ stack'[i].phase = IF i = m THEN "returned" ELSE stack[i].phase
                 /\ stack'[i].fn \in Internal => stack'[i].result = stack[i].result
                 /\ stack'[i].fn \in EntryPoints =>
                      (stack'[i].failed <=> stack[i].phase = "reporting" \/ FALSE)
      <4>1. /\ below[i].fn = stack[i].fn /\ below[i].at = stack[i].at
            /\ below[i].error = stack[i].error /\ below[i].told = stack[i].told
            /\ below[i].phase = IF i = m THEN "returned" ELSE stack[i].phase
            /\ below[i].fn \in Internal => below[i].result = stack[i].result
            /\ below[i].fn \in EntryPoints =>
                 (below[i].failed <=> stack[i].phase = "reporting" \/ FALSE)
        BY <1>10 DEF Returns
      <4>2. /\ stack'[i].fn = below[i].fn /\ stack'[i].at = below[i].at
            /\ stack'[i].error = below[i].error /\ stack'[i].told = below[i].told
            /\ stack'[i].phase = below[i].phase /\ stack'[i].failed = below[i].failed
            /\ stack'[i].fn \in Internal => stack'[i].result = below[i].result
        BY <1>12
      <4>3. QED
        BY <4>1, <4>2
    <3>2. QED
      BY <1>12, <3>1 DEF Returns
  <2>2. QED
    BY <2>1
<1>14. \A i \in 1..n : stack[i].phase = "reporting" => Stays(stack[i].error, errors, errors')
  BY <1>1, <1>9 DEF Stays, FrameOK
<1>15. HeldOnce(stack, temp', errors')
  BY <1>1, <1>5, <1>8, SameReports DEF ErrorInv
<1>16. DOMAIN errors' \subseteq Address /\ IsFiniteSet(DOMAIN errors')
       /\ \A r \in destroyed' : IsEmpty(r)
  BY <1>1 DEF ErrorInv
<1>17. temp'.type = "pointer" => Made(objects, temp'.payload, MadeBy[top.fn])
  BY <1>6, <1>8, NamesDiffer
<1>18. ASSUME NEW t, t = Top(stack'), Calls(t, top.fn), t.fn \in DOMAIN MakerOf
       PROVE  Made(objects, t.result, MakerOf[t.fn])
  <2>1. t = stack'[m]
    <3>1. stack' # <<>>
      BY <1>9, <1>12, TopIs
    <3>2. QED
      BY <1>12, <1>18, <3>1 DEF Top
  <2>2. t.fn = stack[m].fn
    BY <1>9, <1>13, <2>1 DEF Returns
  <2>3. FrameOK(stack[m], errors, objects, IsError(temp))
    BY <1>9
  <2>4. IsApi(stack[m].fn)
    BY <1>18, <2>2, <2>3, NamesDiffer DEF FrameOK, IsApi
  <2>5. t.result = top.result
    BY <1>12, <2>1, <2>4
  <2>6. top.fn \in DOMAIN MadeBy /\ MakerOf[t.fn] = MadeBy[top.fn]
    BY <1>18, CallsObey
  <2>7. QED
    BY <1>6, <2>5, <2>6
<1>19. QED
  BY <1>1, <1>2, <1>3, <1>8, <1>13, <1>14, <1>15, <1>16, <1>17, <1>18, GivesBack

(* The frame of a call that has the error its callee returned.             *)
LEMMA ReportingFrame ==
  ASSUME NEW t \in FrameSet, NEW e \in Nat, t.told = 0, NEW told \in {0, 1}
  PROVE  LET f == [t EXCEPT !.phase = "reporting", !.error = e, !.told = told]
         IN  f \in FrameSet
BY DEF FrameSet, Phases

(* ConsumedError takes the error; the application is told of it.           *)
LEMMA ConsumeErrorKeeps ==
  ASSUME ErrorInv, ConsumeError
  PROVE  ErrorInv'
<1> DEFINE n == Len(stack)
           e == ErrorOf(temp)
           told == IF mErrorCallback THEN top.told + 1 ELSE top.told
           f == [top EXCEPT !.phase = "reporting", !.error = e, !.told = told]
           q == [stack EXCEPT ![n] = f]
<1>1. /\ Runs("consume") /\ top.phase = "returned" /\ IsError(temp)
      /\ stack' = IF mErrorCallback THEN Append(q, Frame("ErrorCallback")) ELSE q
      /\ temp' = MovedFrom(temp) /\ destroyed' = {MovedFrom(temp), Acquired(temp)}
      /\ UNCHANGED <<errors, objects, outcome>>
  BY DEF ConsumeError, SetTop
<1>2. /\ stack # <<>> /\ n \in Nat /\ n \in 1..n /\ top = stack[n] /\ top = Top(stack)
      /\ top \in FrameSet /\ FrameOK(top, errors, objects, IsError(temp))
      /\ top.fn \in EntryPoints
      /\ Calls(top, statement.callee) /\ statement.callee = Callee(top)
  BY <1>1, Running DEF CallOps
<1>3. temp \in ResultSet /\ e \in DOMAIN errors /\ Trace(errors[e], statement.callee)
  BY <1>1, <1>2 DEF ErrorInv, TempOK
<1>4. temp' \in ResultSet /\ IsEmpty(temp') /\ IsError(temp') = FALSE
      /\ \A r \in destroyed' : IsEmpty(r)
  BY <1>1, <1>3, EmptyResults DEF IsError
<1>5. e \in Nat
  BY <1>3 DEF ErrorInv, Address
<1>6. top.told = 0 /\ top.failed = TRUE
  BY <1>1, <1>2 DEF FrameOK, FrameSet
<1>7. told \in {0, 1}
  BY <1>6
<1> HIDE DEF e, told
<1>8. f \in FrameSet
  BY <1>2, <1>5, <1>6, <1>7, ReportingFrame
<1>9. f.fn = top.fn /\ f.at = top.at /\ f.phase = "reporting" /\ f.error = e /\ f.failed = TRUE
  BY <1>2, <1>6 DEF FrameSet
<1> HIDE DEF f
<1>10. FrameOK(f, errors, objects, FALSE)
  <2>1. statement.callee \in Internal /\ CalledBy(statement.callee, top.fn)
    BY <1>2, CallsObey
  <2>2. f.fn \notin DOMAIN MadeBy
    BY <1>2, <1>9, NamesDiffer
  <2>3. Calls(f, Callee(f))
    BY <1>2, <1>9 DEF Calls, Callee
  <2>4. QED
    BY <1>2, <1>3, <1>9, <2>1, <2>2, <2>3, NamesDiffer DEF FrameOK
<1>11. PICK bad, now : /\ bad = TRUE /\ now = FALSE
                       /\ StackOK(stack, errors, objects, bad)
                       /\ FrameOK(f, errors, objects, now)
  <2>1. IsError(temp) = TRUE
    BY <1>1 DEF IsError
  <2>2. StackOK(stack, errors, objects, TRUE)
    BY <2>1 DEF ErrorInv
  <2>3. QED
    BY <1>10, <2>2
<1>12. /\ StackOK(q, errors, objects, now) /\ Len(q) = n /\ Top(q) = f /\ q # <<>> /\ q[n] = f
       /\ \A i \in 1..n : i # n => q[i] = stack[i]
  <2>1. Grows(objects, objects) /\ f.fn = stack[Len(stack)].fn /\ stack # <<>>
        /\ f \in FrameSet /\ f.fn \in EntryPoints /\ f.phase = "reporting"
    BY <1>2, <1>8, <1>9 DEF Grows
  <2> DEFINE p == [stack EXCEPT ![Len(stack)] = f]
  <2>2. /\ StackOK(p, errors, objects, now) /\ Len(p) = Len(stack) /\ Top(p) = f /\ p # <<>>
        /\ p[Len(stack)] = f /\ \A i \in 1..Len(stack) : i # Len(stack) => p[i] = stack[i]
    <3>1. StackOK(stack, errors, objects, bad) /\ FrameOK(f, errors, objects, now)
          /\ (now # bad => f.fn \in EntryPoints)
      BY <1>11, <2>1
    <3>2. QED
      BY <2>1, <3>1, TopKeeps
  <2>3. q = p
    BY DEF q
  <2>4. QED
    BY <2>2, <2>3
<1> HIDE DEF q
<1>13. HeldOnce(q, temp', errors)
  <2>1. HeldOnce(stack, temp, errors)
    BY DEF ErrorInv
  <2> SUFFICES ASSUME NEW a \in DOMAIN errors
               PROVE  /\ \E h \in Nat : HeldBy(q, temp', a, h)
                      /\ \A h, i \in Nat : HeldBy(q, temp', a, h) /\ HeldBy(q, temp', a, i) => h = i
    BY DEF HeldOnce
  <2>2. /\ \E h \in Nat : HeldBy(stack, temp, a, h)
        /\ \A h, i \in Nat : HeldBy(stack, temp, a, h) /\ HeldBy(stack, temp, a, i) => h = i
    BY <2>1 DEF HeldOnce
  <2>3. \A h \in Nat : h \in 1..n => h # 0
    OBVIOUS
  <2> HIDE DEF n
  <2>4. \A h \in Nat : HeldBy(q, temp', a, h) <=>
          h \in 1..n /\ IF h = n THEN a = e ELSE HeldBy(stack, temp, a, h)
    <3> SUFFICES ASSUME NEW h \in Nat
                 PROVE  HeldBy(q, temp', a, h) <=>
                        h \in 1..n /\ IF h = n THEN a = e ELSE HeldBy(stack, temp, a, h)
      OBVIOUS
    <3>1. HeldBy(q, temp', a, h) <=> h \in 1..n /\ q[h].phase = "reporting" /\ q[h].error = a
      BY <1>4, <1>12 DEF HeldBy
    <3>2. CASE h = n
      <4>1. q[h] = f /\ h \in 1..n
        BY <1>2, <1>12, <3>2
      <4>2. f.phase = "reporting" /\ f.error = e
        BY <1>9
      <4>3. HeldBy(q, temp', a, h) <=> a = e
        BY <3>1, <4>1, <4>2
      <4>4. QED
        BY <3>2, <4>1, <4>3
    <3>3. CASE h # n
      BY <1>12, <2>3, <3>1, <3>3 DEF HeldBy, n
    <3>4. QED
      BY <3>2, <3>3
  <2>5. HeldBy(stack, temp, a, 0) <=> a = e
    BY <1>1, <2>3 DEF HeldBy, e
  <2>6. ~HeldBy(stack, temp, a, n)
    BY <1>1, <1>2, <2>3 DEF HeldBy
  <2>7. \A h \in Nat : HeldBy(stack, temp, a, h) => h = 0 \/ h \in 1..n
    BY DEF HeldBy, n
  <2>8. CASE a = e
    <3>1. \A h \in Nat : HeldBy(stack, temp, a, h) => h = 0
      BY <2>2, <2>5, <2>8
    <3>2. \A h \in Nat : HeldBy(q, temp', a, h) <=> h = n
      <4>1. n \in 1..n
        BY <1>2
      <4>2. QED
        <5> SUFFICES ASSUME NEW h \in Nat
                     PROVE  HeldBy(q, temp', a, h) <=> h = n
          OBVIOUS
        <5>1. CASE h = n
          BY <2>4, <2>8, <4>1, <5>1
        <5>2. CASE h # n
          BY <2>3, <2>4, <3>1, <5>2
        <5>3. QED
          BY <5>1, <5>2
    <3>3. QED
      BY <1>2, <3>2
  <2>9. CASE a # e
    <3>1. \A h \in Nat : HeldBy(q, temp', a, h) <=> HeldBy(stack, temp, a, h)
      BY <2>3, <2>4, <2>5, <2>6, <2>7, <2>9
    <3>2. QED
      BY <2>2, <3>1
  <2>10. QED
    BY <2>8, <2>9
<1>14. CallersAreTold'
  BY <1>1, ToldStill DEF ErrorInv, Grows
<1>15. ASSUME StackOK(stack', errors', objects', IsError(temp')),
              Top(stack').phase # "returned", HeldOnce(stack', temp', errors')
       PROVE  ErrorInv'
  <2>1. TempOK(Top(stack'), temp', errors', objects')
    BY <1>4, <1>15 DEF TempOK
  <2>2. QED
    BY <1>1, <1>4, <1>14, <1>15, <2>1 DEF ErrorInv
<1>16. CASE mErrorCallback
  <2> DEFINE g == Frame("ErrorCallback")
  <2>1. g \in FrameSet /\ g.phase = "running" /\ g.fn = "ErrorCallback"
    BY NewFrame
  <2>2. Linked(Top(q), g)
    BY <1>9, <1>12, <2>1, NamesDiffer DEF Linked
  <2>3. stack' = Append(q, Frame("ErrorCallback"))
    BY <1>1, <1>16
  <2>4. StackOK(stack', errors, objects, now) /\ Top(stack') = g
    BY <1>11, <1>12, <2>2, <2>3, PushKeeps
  <2> HIDE DEF g
  <2>5. Len(stack') = n + 1 /\ stack'[n + 1] = g /\ \A i \in 1..n : stack'[i] = q[i]
    <3>1. q \in Seq(FrameSet)
      BY <1>12 DEF StackOK
    <3>2. stack' = Append(q, g)
      BY <2>3 DEF g
    <3> HIDE DEF FrameSet
    <3>3. QED
      BY <1>12, <2>1, <3>1, <3>2, AppendProperties
  <2>6. \A h \in Nat : h \in 1..Len(stack') <=> h \in 1..n \/ h = n + 1
    BY <1>2, <2>5
  <2>7. \A h \in Nat : h \in 1..Len(stack') /\ stack'[h].phase = "reporting" <=>
                       h \in 1..Len(q) /\ q[h].phase = "reporting"
    <3>1. n + 1 \notin 1..n
      BY <1>2
    <3>2. QED
      BY <1>12, <2>1, <2>5, <2>6, <3>1
  <2>8. \A h \in 1..Len(q) : q[h].phase = "reporting" => stack'[h].error = q[h].error
    BY <1>12, <2>5
  <2>9. HeldOnce(stack', temp', errors')
    BY <1>1, <1>13, <2>7, <2>8, SameReports
  <2>10. QED
    BY <1>1, <1>4, <1>11, <1>15, <2>1, <2>4, <2>9
<1>17. CASE ~mErrorCallback
  <2>1. stack' = q
    BY <1>1, <1>17
  <2>2. QED
    BY <1>1, <1>4, <1>9, <1>11, <1>12, <1>13, <1>15, <2>1
<1>18. QED
  BY <1>16, <1>17

(* A call, or the error callback, ends.                                    *)
LEMMA Ended ==
  ASSUME ErrorInv, stack # <<>>, top.fn \notin Internal, stack' = Front(stack),
         IsEmpty(temp), temp' = temp,
         \A i \in 1..Len(stack) - 1 :
           stack[i].phase = "reporting" => Stays(stack[i].error, errors, errors'),
         HeldOnce(stack', temp', errors'), Grows(objects, objects'),
         DOMAIN errors' \subseteq Address, DOMAIN objects' \subseteq Address,
         IsFiniteSet(DOMAIN errors'), IsFiniteSet(DOMAIN objects'),
         \A r \in destroyed' : IsEmpty(r), CallersAreTold'
  PROVE  ErrorInv'
<1>1. stack \in Seq(FrameSet) /\ StackOK(stack, errors, objects, IsError(temp))
      /\ temp \in ResultSet
  BY DEF ErrorInv, StackOK, TempOK
<1>2. top = stack[Len(stack)]
  BY DEF top
<1>3. StackOK(stack', errors', objects', FALSE) /\ Top(stack').phase # "returned"
  BY <1>1, <1>2, EndKeeps
<1>4. IsError(temp') = FALSE
  BY <1>1, EmptyResults DEF IsError
<1>5. TempOK(Top(stack'), temp', errors', objects')
  BY <1>1, <1>3 DEF TempOK
<1>6. QED
  BY <1>1, <1>3, <1>4, <1>5 DEF ErrorInv

(* Errors stay held once when a frame goes that does not report.           *)
LEMMA FrontReports ==
  ASSUME ErrorInv, stack # <<>>, top.phase # "reporting"
  PROVE  HeldOnce(Front(stack), temp, errors)
<1> DEFINE n == Len(stack)
           q == Front(stack)
<1>1. stack \in Seq(FrameSet) /\ n \in Nat /\ n \in 1..n /\ top = stack[n]
  BY TopIs DEF ErrorInv, StackOK, top
<1>2. Len(q) = n - 1 /\ \A i \in 1..n - 1 : q[i] = stack[i]
  <2>1. n - 1 \in Nat /\ \A i \in 1..n - 1 : i \in 1..n
    BY <1>1
  <2>2. q = SubSeq(stack, 1, n - 1) /\ Len(q) = n - 1
    <3>1. q = SubSeq(stack, 1, n - 1)
      BY DEF Front
    <3>2. \A i \in 1..n - 1 : stack[i] \in FrameSet
      BY <1>1, <2>1, TopIs
    <3> HIDE DEF FrameSet, n, q
    <3> DEFINE m == n - 1
    <3>3. 1 \in Int /\ m \in Int
      BY <2>1
    <3> HIDE DEF m
    <3>4. Len(SubSeq(stack, 1, m)) = IF 1 <= m THEN m - 1 + 1 ELSE 0
      BY <3>2, <3>3, SubSeqProperties DEF m
    <3>5. QED
      BY <2>1, <3>1, <3>4 DEF m
  <2> HIDE DEF n, q
  <2>3. \A i \in 1..n - 1 : q[i] = stack[i]
    BY <1>1, <2>1, <2>2
  <2>4. QED
    BY <2>2, <2>3
<1> HIDE DEF q
<1>3. \A h \in Nat : h \in 1..Len(q) /\ q[h].phase = "reporting" <=>
                     h \in 1..n /\ stack[h].phase = "reporting"
  <2>1. \A h \in Nat : h \in 1..n <=> h \in 1..n - 1 \/ h = n
    BY <1>1
  <2>2. n \notin 1..n - 1
    BY <1>1
  <2>3. QED
    BY <1>1, <1>2, <2>1, <2>2
<1>4. \A h \in 1..n : stack[h].phase = "reporting" => q[h].error = stack[h].error
  <2>1. \A h \in 1..n : h # n => h \in 1..n - 1
    BY <1>1
  <2>2. QED
    BY <1>1, <1>2, <2>1
<1>5. QED
  BY <1>3, <1>4, SameReports DEF q, ErrorInv

(* A call that found no error ends: ConsumedError, or the assertion, sees  *)
(* an empty Result.                                                        *)
LEMMA SuccessEnds ==
  ASSUME ErrorInv, NEW op \in {"consume", "require"}, Runs(op), top.phase = "returned",
         ~IsError(temp), Ends(top), stack' = Front(stack), destroyed' = {temp},
         UNCHANGED <<temp, errors, objects>>
  PROVE  ErrorInv'
<1>1. /\ stack # <<>> /\ top = Top(stack) /\ top \in FrameSet
      /\ FrameOK(top, errors, objects, IsError(temp))
      /\ top.fn \in EntryPoints /\ Calls(top, statement.callee)
      /\ statement.callee = Callee(top)
      /\ \A i \in 1..Len(stack) - 1 : i \in 1..Len(stack)
  BY Running DEF CallOps
<1>2. temp \in ResultSet /\ temp.type = TypeOf(statement.callee)
      /\ (top.fn \in DOMAIN MakerOf => Made(objects, top.result, MakerOf[top.fn]))
  BY <1>1 DEF ErrorInv, TempOK
<1>3. temp.type = "void" /\ IsEmpty(temp)
  <2>1. statement.callee \notin Makers
    BY <1>1, CallsObey, NamesDiffer
  <2>2. QED
    BY <1>2, <2>1, EmptyResults DEF TypeOf
<1>4. HeldOnce(stack', temp', errors')
  BY <1>1, FrontReports
<1>5. IsError(temp) = FALSE
  BY DEF IsError
<1>6. top.told = 0 /\ top.failed = FALSE
  <2>1. FrameOK(top, errors, objects, FALSE) /\ top.failed \in BOOLEAN
    BY <1>1, <1>5 DEF FrameSet
  <2>2. QED
    BY <1>1, <2>1 DEF FrameOK
<1>7. CallersAreTold'
  <2> SUFFICES ASSUME NEW o \in outcome'
               PROVE  /\ o.failed => o.result = 0
                      /\ o.told <= 1 /\ (o.told = 1 => o.failed)
                      /\ ~o.failed /\ o.fn \in DOMAIN MakerOf =>
                           o.result \in DOMAIN objects' /\ objects'[o.result] = MakerOf[o.fn]
    BY DEF CallersAreTold
  <2>1. o = [fn |-> top.fn, failed |-> top.failed, told |-> top.told, result |-> top.result]
    BY DEF Ends
  <2>2. QED
    BY <1>2, <1>6, <2>1 DEF Made
<1>8. \A i \in 1..Len(stack) - 1 :
        stack[i].phase = "reporting" => Stays(stack[i].error, errors, errors')
  BY <1>1 DEF ErrorInv, StackOK, FrameOK, Stays
<1>9. top.fn \notin Internal
  BY <1>1, NamesDiffer
<1>10. Grows(objects, objects') /\ \A r \in destroyed' : IsEmpty(r)
  BY <1>3 DEF Grows
<1>11. /\ DOMAIN errors' \subseteq Address /\ DOMAIN objects' \subseteq Address
       /\ IsFiniteSet(DOMAIN errors') /\ IsFiniteSet(DOMAIN objects')
  BY DEF ErrorInv
<1>12. QED
  BY <1>1, <1>3, <1>4, <1>7, <1>8, <1>9, <1>10, <1>11, Ended

(* A builder is returned.                                                  *)
LEMMA NewBuilderKeeps ==
  ASSUME ErrorInv, NewBuilder
  PROVE  ErrorInv'
<1> DEFINE a == NewAddress
<1>1. /\ Runs("new") /\ objects' = With(objects, a, top.fn)
      /\ outcome' = {[fn |-> top.fn, failed |-> top.failed, told |-> top.told, result |-> a]}
      /\ stack' = Front(stack) /\ destroyed' = {} /\ UNCHANGED <<temp, errors>>
  <2>1. Runs("new")
    BY DEF NewBuilder
  <2>2. top \in FrameSet
    BY <2>1, Running
  <2>3. QED
    BY <2>1, <2>2 DEF NewBuilder, Ends, FrameSet
<1>2. /\ stack # <<>> /\ top = Top(stack) /\ top \in FrameSet
      /\ FrameOK(top, errors, objects, IsError(temp))
      /\ top.fn \in EntryPoints /\ top.fn = "CreateBlendStateBuilder" /\ top.phase = "running"
      /\ \A i \in 1..Len(stack) - 1 : i \in 1..Len(stack)
  BY <1>1, Running DEF CallOps, ObeysAt
<1>3. temp \in ResultSet /\ IsEmpty(temp) /\ IsError(temp) = FALSE
  BY <1>2, EmptyInTransit
<1>4. a \in Address /\ a \in Nat /\ a \notin DOMAIN objects
  BY FreeAddress
<1> HIDE DEF a
<1>5. /\ DOMAIN objects' = DOMAIN objects \cup {a} /\ objects'[a] = top.fn
      /\ Grows(objects, objects')
  BY <1>1, <1>4 DEF With, Grows
<1>6. DOMAIN objects' \subseteq Address /\ IsFiniteSet(DOMAIN objects')
  BY <1>4, <1>5, FS_AddElement DEF ErrorInv
<1>7. top.told = 0 /\ top.failed = FALSE
  <2>1. FrameOK(top, errors, objects, FALSE) /\ top.failed \in BOOLEAN
    BY <1>2, <1>3 DEF FrameSet
  <2>2. QED
    BY <1>2, <2>1 DEF FrameOK
<1>8. CallersAreTold'
  <2> SUFFICES ASSUME NEW o \in outcome'
               PROVE  /\ o.failed => o.result = 0
                      /\ o.told <= 1 /\ (o.told = 1 => o.failed)
                      /\ ~o.failed /\ o.fn \in DOMAIN MakerOf =>
                           o.result \in DOMAIN objects' /\ objects'[o.result] = MakerOf[o.fn]
    BY DEF CallersAreTold
  <2>1. o = [fn |-> top.fn, failed |-> top.failed, told |-> top.told, result |-> a]
    BY <1>1
  <2>2. QED
    BY <1>2, <1>5, <1>7, <2>1 DEF MakerOf
<1>9. HeldOnce(stack', temp', errors')
  BY <1>1, <1>2, FrontReports
<1>10. \A i \in 1..Len(stack) - 1 :
        stack[i].phase = "reporting" => Stays(stack[i].error, errors, errors')
  BY <1>1, <1>2 DEF ErrorInv, StackOK, FrameOK, Stays
<1>11. top.fn \notin Internal
  BY <1>2, NamesDiffer
<1>12. \A r \in destroyed' : IsEmpty(r)
  BY <1>1
<1>13. DOMAIN errors' \subseteq Address /\ IsFiniteSet(DOMAIN errors')
  BY <1>1 DEF ErrorInv
<1>14. QED
  BY <1>1, <1>2, <1>3, <1>5, <1>6, <1>8, <1>9, <1>10, <1>11, <1>12, <1>13, Ended

(* The error callback returns to the call that reports.                    *)
LEMMA ErrorCallbackReturnsKeeps ==
  ASSUME ErrorInv, ErrorCallbackReturns
  PROVE  ErrorInv'
<1>1. /\ top.fn = "ErrorCallback" /\ stack' = Front(stack) /\ destroyed' = {} /\ outcome' = {}
      /\ UNCHANGED <<temp, errors, objects>>
  BY DEF ErrorCallbackReturns
<1>2. top = Top(stack) /\ stack # <<>>
  BY <1>1, ApplicationFrame DEF top, Top
<1>3. /\ \A i \in 1..Len(stack) - 1 : i \in 1..Len(stack)
      /\ FrameOK(top, errors, objects, IsError(temp))
  <2>1. Len(stack) \in Nat /\ Len(stack) \in 1..Len(stack) /\ top = stack[Len(stack)]
    BY <1>2, TopIs DEF ErrorInv, StackOK
  <2>2. QED
    BY <2>1 DEF ErrorInv, StackOK
<1>4. top.phase = "running"
  BY <1>1, <1>3 DEF FrameOK
<1>5. temp \in ResultSet /\ IsEmpty(temp)
  BY <1>2, <1>4, EmptyInTransit
<1>6. HeldOnce(stack', temp', errors')
  BY <1>1, <1>2, <1>4, FrontReports
<1>7. \A i \in 1..Len(stack) - 1 :
        stack[i].phase = "reporting" => Stays(stack[i].error, errors, errors')
  BY <1>1, <1>3 DEF ErrorInv, StackOK, FrameOK, Stays
<1>8. top.fn \notin Internal
  BY <1>1, NamesDiffer
<1>9. /\ DOMAIN errors' \subseteq Address /\ DOMAIN objects' \subseteq Address
      /\ IsFiniteSet(DOMAIN errors') /\ IsFiniteSet(DOMAIN objects')
      /\ Grows(objects, objects') /\ \A r \in destroyed' : IsEmpty(r)
  BY <1>1 DEF ErrorInv, Grows
<1>10. CallersAreTold'
  BY <1>1 DEF CallersAreTold
<1>11. QED
  BY <1>1, <1>2, <1>5, <1>6, <1>7, <1>8, <1>9, <1>10, Ended

(* ConsumeError deletes the error that it reported, and the call ends.     *)
LEMMA EndWithErrorKeeps ==
  ASSUME ErrorInv, EndWithError
  PROVE  ErrorInv'
<1> DEFINE e == top.error
           n == Len(stack)
           q == Front(stack)
<1>1. top = Top(stack) /\ stack # <<>>
  BY ApplicationFrame DEF EndWithError, top, Top
<1>2. /\ stack \in Seq(FrameSet) /\ n \in Nat /\ n \in 1..n /\ top = stack[n] /\ top \in FrameSet
      /\ \A i \in 1..n - 1 : i \in 1..n /\ i # n
      /\ \A i \in 1..n : FrameOK(stack[i], errors, objects, IsError(temp))
  <2>1. stack \in Seq(FrameSet) /\ n \in Nat /\ n \in 1..n /\ top = stack[n] /\ top \in FrameSet
    BY <1>1, TopIs DEF ErrorInv, StackOK
  <2>2. QED
    BY <2>1 DEF ErrorInv, StackOK
<1>3. /\ top.phase = "reporting" /\ errors' = Deleted(e)
      /\ outcome' = {[fn |-> top.fn, failed |-> top.failed, told |-> top.told, result |-> 0]}
      /\ stack' = q /\ destroyed' = {} /\ UNCHANGED <<temp, objects>>
  BY <1>2 DEF EndWithError, Ends, FrameSet
<1>4. top.fn \in EntryPoints /\ top.failed /\ e \in DOMAIN errors
  BY <1>2, <1>3 DEF FrameOK
<1>5. temp \in ResultSet /\ IsEmpty(temp) /\ IsError(temp) = FALSE
  BY <1>1, <1>3, EmptyInTransit
<1>6. DOMAIN errors' = DOMAIN errors \ {e} /\ \A a \in DOMAIN errors' : errors'[a] = errors[a]
  BY <1>3 DEF Deleted
<1>7. \A i \in 1..n : stack[i].phase = "reporting" /\ stack[i].error = e => i = n
  <2> SUFFICES ASSUME NEW i \in 1..n, stack[i].phase = "reporting", stack[i].error = e
               PROVE  i = n
    OBVIOUS
  <2>1. HeldBy(stack, temp, e, i) /\ HeldBy(stack, temp, e, n)
    BY <1>2, <1>3 DEF HeldBy
  <2>2. i \in Nat
    OBVIOUS
  <2> HIDE DEF e, n
  <2>3. QED
    BY <1>2, <1>4, <2>1, <2>2 DEF ErrorInv, HeldOnce
<1>8. \A i \in 1..n - 1 :
        stack[i].phase = "reporting" => Stays(stack[i].error, errors, errors')
  BY <1>2, <1>6, <1>7 DEF FrameOK, Stays
<1>9. Len(q) = n - 1 /\ \A i \in 1..n - 1 : q[i] = stack[i]
  <2>1. top.fn \notin Internal
    BY <1>4, NamesDiffer
  <2>2. StackOK(stack, errors, objects, IsError(temp))
    BY DEF ErrorInv
  <2>3. stack[Len(stack)].fn \notin Internal /\ Grows(objects, objects)
        /\ \A i \in 1..Len(stack) - 1 :
             stack[i].phase = "reporting" => Stays(stack[i].error, errors, errors')
    BY <1>2, <1>8, <2>1 DEF Grows
  <2>4. Len(q) = Len(stack) - 1 /\ \A i \in 1..Len(q) : q[i] = stack[i]
    BY <1>1, <2>2, <2>3, EndKeeps
  <2>5. QED
    BY <2>4
<1>10. HeldOnce(stack', temp', errors')
  <2> SUFFICES ASSUME NEW a \in DOMAIN errors'
               PROVE  /\ \E h \in Nat : HeldBy(q, temp, a, h)
                      /\ \A h, i \in Nat : HeldBy(q, temp, a, h) /\ HeldBy(q, temp, a, i) => h = i
    BY <1>3 DEF HeldOnce
  <2>1. a \in DOMAIN errors /\ a # e
    BY <1>6
  <2>2. /\ \E h \in Nat : HeldBy(stack, temp, a, h)
        /\ \A h, i \in Nat : HeldBy(stack, temp, a, h) /\ HeldBy(stack, temp, a, i) => h = i
    BY <2>1 DEF ErrorInv, HeldOnce
  <2> HIDE DEF q, n
  <2>3. ASSUME NEW h \in Nat PROVE HeldBy(q, temp, a, h) <=> HeldBy(stack, temp, a, h)
    <3>1. h \in 1..n <=> h \in 1..n - 1 \/ h = n
      BY <1>2
    <3>2. h = n => ~HeldBy(stack, temp, a, h)
      BY <1>2, <1>5, <2>1 DEF HeldBy
    <3>3. h = n => ~HeldBy(q, temp, a, h)
      BY <1>2, <1>5, <1>9 DEF HeldBy
    <3>4. h # n => (HeldBy(q, temp, a, h) <=> HeldBy(stack, temp, a, h))
      BY <1>9, <3>1 DEF HeldBy, n
    <3>5. QED
      BY <3>2, <3>3, <3>4
  <2>4. QED
    BY <2>2, <2>3
<1>11. DOMAIN errors' \subseteq Address /\ IsFiniteSet(DOMAIN errors')
  BY <1>6, FS_RemoveElement DEF ErrorInv
<1>12. Grows(objects, objects') /\ DOMAIN objects' \subseteq Address
       /\ IsFiniteSet(DOMAIN objects') /\ \A r \in destroyed' : IsEmpty(r)
  BY <1>3 DEF ErrorInv, Grows
<1>13. CallersAreTold'
  <2> SUFFICES ASSUME NEW o \in outcome'
               PROVE  /\ o.failed => o.result = 0
                      /\ o.told <= 1 /\ (o.told = 1 => o.failed)
                      /\ ~o.failed /\ o.fn \in DOMAIN MakerOf =>
                           o.result \in DOMAIN objects' /\ objects'[o.result] = MakerOf[o.fn]
    BY DEF CallersAreTold
  <2>1. o = [fn |-> top.fn, failed |-> top.failed, told |-> top.told, result |-> 0]
    BY <1>3
  <2>2. top.told \in {0, 1}
    BY <1>2 DEF FrameSet
  <2>3. QED
    BY <1>4, <2>1, <2>2
<1>14. top.fn \notin Internal
  BY <1>4, NamesDiffer
<1>15. QED
  BY <1>1, <1>3, <1>5, <1>8, <1>10, <1>11, <1>12, <1>13, <1>14, Ended

(* The invariant implies the property that is checked: the set of holders  *)
(* of an error has one member.                                             *)
LEMMA ErrorInvImplies ==
  ASSUME ErrorInv
  PROVE  ErrorsAreHandledOnce
<1>1. /\ stack \in Seq(FrameSet) /\ DOMAIN stack = 1..Len(stack) /\ Len(stack) \in Nat
      /\ \A i \in DOMAIN stack : FrameOK(stack[i], errors, objects, IsError(temp))
  BY TopIs DEF ErrorInv, StackOK
<1>2. ASSUME NEW e \in DOMAIN errors PROVE Cardinality(Holders(e)) = 1
  <2>1. PICK h \in Nat : HeldBy(stack, temp, e, h)
    BY DEF ErrorInv, HeldOnce
  <2>2. \A i \in Nat : HeldBy(stack, temp, e, i) => i = h
    BY <2>1 DEF ErrorInv, HeldOnce
  <2>3. \A i : i \in Holders(e) <=> i \in Nat /\ HeldBy(stack, temp, e, i)
    <3>1. \A i \in 1..Len(stack) : i \in Nat
      OBVIOUS
    <3>2. QED
      BY <1>1, <3>1 DEF Holders, HeldBy
  <2>4. Holders(e) = {h}
    BY <2>1, <2>2, <2>3
  <2>5. QED
    BY <2>4, FS_Singleton
<1>3. IsError(temp) => ErrorOf(temp) \in DOMAIN errors
  BY DEF ErrorInv, TempOK, IsEmpty, IsError, kEmptyPayload, ResultSet, GetPayloadType, Error,
         Empty
<1>4. \A i \in DOMAIN stack : stack[i].phase = "reporting" => stack[i].error \in DOMAIN errors
  BY <1>1 DEF FrameOK
<1>5. HaveOneOwner
  BY <1>2, <1>3, <1>4 DEF HaveOneOwner, ErrorInv
<1>6. HaveTheirBacktrace
  BY <1>1 DEF HaveTheirBacktrace, FrameOK, Trace
<1>7. QED
  BY <1>5, <1>6 DEF ErrorsAreHandledOnce, ErrorInv

(* Nothing runs at first.                                                  *)
LEMMA ErrorInvInit ==
  ASSUME ErrorInit
  PROVE  ErrorInv
<1>1. /\ stack = <<>> /\ temp = Result("void", 0) /\ errors = <<>> /\ objects = <<>>
      /\ destroyed = {} /\ outcome = {}
  BY DEF ErrorInit
<1>2. stack \in Seq(FrameSet) /\ Len(stack) = 0 /\ \A i : i \notin 1..0
  <2> HIDE DEF FrameSet
  <2>1. QED
    BY <1>1, EmptySeq
<1>3. StackOK(stack, errors, objects, IsError(temp))
  BY <1>2 DEF StackOK
<1>4. temp \in ResultSet /\ IsEmpty(temp) /\ ~IsError(temp)
  BY <1>1 DEF Result, ResultSet, IsEmpty, IsError, kEmptyPayload
<1>5. Top(stack).phase = "running"
  BY <1>1, ApplicationFrame DEF Top
<1>6. TempOK(Top(stack), temp, errors, objects)
  BY <1>4, <1>5 DEF TempOK
<1>7. DOMAIN errors = {} /\ DOMAIN objects = {}
  BY <1>1
<1>8. QED
  BY <1>1, <1>3, <1>6, <1>7, FS_EmptySet DEF ErrorInv, HeldOnce, CallersAreTold

(* A step of the application or of a function keeps the invariant.         *)
LEMMA ErrorInvStep ==
  ASSUME ErrorInv, [ErrorNext]_errorVars
  PROVE  ErrorInv'
<1>1. CASE UNCHANGED errorVars
  BY <1>1 DEF errorVars, ErrorInv, CallersAreTold
<1>2. ASSUME NEW fn \in EntryPoints, Call(fn) PROVE ErrorInv'
  BY <1>2, CallKeeps
<1>3. ASSUME NEW isSet \in BOOLEAN, SetErrorCallback(isSet) PROVE ErrorInv'
  BY <1>3 DEF SetErrorCallback, ErrorInv, CallersAreTold
<1>4. CASE Enter
  BY <1>4, EnterKeeps
<1>5. CASE CheckPasses
  BY <1>5, CheckPassesKeeps
<1>6. CASE MakeError
  BY <1>6, MakeErrorKeeps
<1>7. CASE MakeObject
  BY <1>7, MakeObjectKeeps
<1>8. CASE FindObject
  BY <1>8, FindObjectKeeps
<1>9. CASE Propagate
  BY <1>9, PropagateKeeps
<1>10. CASE Proceed
  BY <1>10, ProceedKeeps
<1>11. CASE Return
  BY <1>11, ReturnStepKeeps
<1>12. CASE ConsumeError
  BY <1>12, ConsumeErrorKeeps
<1>13. CASE ErrorCallbackReturns
  BY <1>13, ErrorCallbackReturnsKeeps
<1>14. CASE EndWithError
  BY <1>14, EndWithErrorKeeps
<1>15. CASE EndWithSuccess
  BY <1>15, SuccessEnds DEF EndWithSuccess
<1>16. CASE NewBuilder
  BY <1>16, NewBuilderKeeps
<1>17. CASE EndOfConstructor
  BY <1>17, SuccessEnds DEF EndOfConstructor
<1>18. QED
  BY <1>1, <1>2, <1>3, <1>4, <1>5, <1>6, <1>7, <1>8, <1>9, <1>10, <1>11, <1>12, <1>13, <1>14,
     <1>15, <1>16, <1>17 DEF ErrorNext

(* Result.h, Error.h and ConsumedError of Device.h: at all times each      *)
(* ErrorData is held exactly once, by the Result in transit or by an entry *)
(* point that reports it, with the backtrace of the functions it came      *)
(* through; no Result is destroyed with something in it; and a call that   *)
(* fails returns nothing and tells the application at most once, however   *)
(* deep the calls that error callbacks make are nested.                    *)
THEOREM ErrorsAreHandled == ErrorSpec => []ErrorsAreHandledOnce
<1>1. ErrorInit => ErrorInv
  BY ErrorInvInit
<1>2. ErrorInv /\ [ErrorNext]_errorVars => ErrorInv'
  BY ErrorInvStep
<1>3. ErrorInv => ErrorsAreHandledOnce
  BY ErrorInvImplies
<1>4. QED
  BY <1>1, <1>2, <1>3, PTL DEF ErrorSpec
=============================================================================
