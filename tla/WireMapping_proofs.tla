------------------------- MODULE WireMapping_proofs -------------------------
(* Theorems about WireMapping, for every value of its constants.  Those     *)
(* about the server are for applications that do not release a buffer while *)
(* a MapWriteAsync of it is not answered (ReleaseUnderWrite).               *)
EXTENDS WireMapping, TLAPS, SequenceTheorems

Ids == 1 .. MaxIds
Used(r) == answer[r] # "unused"
UsedTags == {tag[r] : r \in {s \in Requests : Used(s)}}
WaitingTags == {tag[r] : r \in requests}

(* The client: the requests that wait are those of live buffers, and a tag  *)
(* is given only once.                                                      *)
ClientInv ==
  /\ requests = {r \in Requests : answer[r] = "waiting"}
  /\ \A r \in requests : /\ Live(tag[r].id)
                         /\ tag[r].serial = mObjects[tag[r].id].serial
  /\ \A r \in Requests : Used(r) =>
       /\ tag[r].id \in DOMAIN mObjects
       /\ tag[r].serial <= mObjects[tag[r].id].serial
       /\ tag[r].serial = mObjects[tag[r].id].serial
            => tag[r].number < mObjects[tag[r].id].requestSerial
  /\ \A r, s \in Requests :
       /\ Used(r) /\ Used(s) /\ r # s
       /\ tag[r].id = tag[s].id /\ tag[r].serial = tag[s].serial
       => tag[r].number # tag[s].number

-----------------------------------------------------------------------------
(* What one side knows of the ids: how many there are, which are allocated, *)
(* with which serials.                                                      *)
View == [size : Nat, known : SUBSET Ids, serial : [Ids -> 0..MaxSerial]]
ServerView ==
  [size |-> Len(mKnown), known |-> {id \in Ids : Known(id)},
   serial |-> [id \in Ids |-> IF id \in DOMAIN mKnown THEN mKnown[id].serial ELSE 0]]
ClientView ==
  [size |-> Len(mObjects), known |-> {id \in Ids : Live(id)},
   serial |-> [id \in Ids |-> IF id \in DOMAIN mObjects THEN mObjects[id].serial ELSE 0]]

(* A command that is right under the view v, and the view after it. *)
ViewStep(v, c, w) ==
  IF c.op = "create"
  THEN /\ c.id <= v.size + 1 /\ c.id \notin v.known
       /\ c.id <= v.size => v.serial[c.id] < c.arg
       /\ w.size = IF c.id > v.size THEN c.id ELSE v.size
       /\ w.known = v.known \cup {c.id}
       /\ w.serial = [v.serial EXCEPT ![c.id] = c.arg]
  ELSE /\ c.id \in v.known
       /\ w.size = v.size /\ w.serial = v.serial
       /\ w.known = IF c.op = "destroy" THEN v.known \ {c.id} ELSE v.known

IsLife(c, id) == c.id = id /\ c.op \in {"create", "destroy"}

(* The commands q lead, view by view, from what the server knows to what    *)
(* the client knows.                                                        *)
Trace(q, v, server, client) ==
  /\ v \in Seq(View) /\ Len(v) = Len(q) + 1
  /\ v[1] = server /\ v[Len(q) + 1] = client
  /\ \A i \in DOMAIN q : ViewStep(v[i], q[i], v[i + 1])
  /\ \A i \in DOMAIN v : v[i].size <= client.size
  /\ \A i \in DOMAIN v, id \in Ids :
       (\A j \in DOMAIN q : j >= i => ~IsLife(q[j], id)) =>
         /\ id \in v[i].known <=> id \in client.known
         /\ v[i].serial[id] = client.serial[id]

IsMap(c) == c.op \in {"mapRead", "mapWrite"}
EndsMapping(c, id) == c.id = id /\ c.op \in {"create", "unmap", "destroy"}

(* The tag that the server will give to a map command. *)
MapTag(q, v, i) == Tag(q[i].id, v[i].serial[q[i].id], q[i].arg, q[i].op = "mapWrite")

(* Every tag on its way is that of a request that was used, and is in one   *)
(* place: in the queue q, in the mappings ms or in the answers ret.         *)
TagsInv(q, v, ms, ret, used) ==
  /\ \A i \in DOMAIN q : IsMap(q[i]) =>
       /\ MapTag(q, v, i) \in used
       /\ \A m \in ms : m.tag # MapTag(q, v, i)
       /\ \A k \in DOMAIN ret : ret[k].tag # MapTag(q, v, i)
       /\ \A j \in DOMAIN q : IsMap(q[j]) /\ MapTag(q, v, j) = MapTag(q, v, i) => j = i
  /\ \A m \in ms : m.tag \in used
  /\ \A k \in DOMAIN ret : /\ ret[k].tag \in used
                           /\ \A m \in ms : m.waiting => m.tag # ret[k].tag

(* A request that waits was sent after all that ends a mapping. *)
AfterEnds(q, v, waiting) ==
  \A t \in waiting, i \in DOMAIN q : EndsMapping(q[i], t.id) =>
    \E j \in DOMAIN q : i < j /\ IsMap(q[j]) /\ MapTag(q, v, j) = t

(* A write that the client does not wait for has an Unmap behind it. *)
UnmapBehind(q, j, t) ==
  \E i \in DOMAIN q :
    /\ j < i /\ q[i].op = "unmap" /\ q[i].id = t.id
    /\ \A k \in DOMAIN q : j < k /\ k < i => ~IsLife(q[k], t.id)
Covered(q, j, t, waiting) == t \in waiting \/ UnmapBehind(q, j, t)
WritesInv(q, v, ms, waiting) ==
  /\ \A m \in ms : m.waiting /\ m.tag.write =>
       /\ m.tag.id \in v[1].known /\ v[1].serial[m.tag.id] = m.tag.serial
       /\ Covered(q, 0, m.tag, waiting)
  /\ \A j \in DOMAIN q : q[j].op = "mapWrite" => Covered(q, j, MapTag(q, v, j), waiting)

(* What the application wrote finds the mapping it was written to. *)
UpdatesInv(q, known) ==
  \A i \in DOMAIN q : q[i].op = "update" =>
    /\ \A j \in DOMAIN q : j < i => ~EndsMapping(q[j], q[i].id)
    /\ q[i].id \in DOMAIN known /\ known[q[i].id].allocated
    /\ known[q[i].id].mappedData # NoTag
    /\ known[q[i].id].mappedData.number = q[i].arg

Queue(q, v, server, client, ms, ret, used, waiting, known) ==
  /\ Trace(q, v, server, client)
  /\ TagsInv(q, v, ms, ret, used) /\ AfterEnds(q, v, waiting)
  /\ WritesInv(q, v, ms, waiting) /\ UpdatesInv(q, known)

QueueInv ==
  \E v \in Seq(View) : Queue(commands, v, ServerView, ClientView, maps, returns,
                            UsedTags, WaitingTags, mKnown)

-----------------------------------------------------------------------------
(* Native buffers: one mapping at a time, of buffers that are there. *)
NativeInv ==
  /\ \A m \in maps : /\ m.tag.id \in DOMAIN mKnown
                     /\ m.tag.serial <= mKnown[m.tag.id].serial
                     /\ Known(m.tag.id) /\ m.tag.serial = mKnown[m.tag.id].serial
                          => mKnown[m.tag.id].valid
  /\ \A m, n \in maps : m.tag.id = n.tag.id /\ m.tag.serial = n.tag.serial => m = n
  /\ PointerIsMapped

(* The server has the buffer of r mapped by r. *)
OnServer(r) ==
  /\ [tag |-> tag[r], waiting |-> FALSE] \in maps
  /\ Known(tag[r].id) /\ mKnown[tag[r].id].serial = tag[r].serial
  /\ tag[r].write => mKnown[tag[r].id].mappedData = tag[r]

(* What the client holds mapped is mapped by the server. *)
HeldInv ==
  \A id \in DOMAIN mObjects, r \in Requests :
    mObjects[id].mapped = r =>
      /\ Used(r) /\ r \notin requests
      /\ tag[r].id = id /\ tag[r].serial = mObjects[id].serial /\ Live(id)
      /\ OnServer(r)
      /\ \A i \in DOMAIN commands : ~EndsMapping(commands[i], id)

(* And what it is to be told is mapped, while it holds nothing. *)
GrantedInv ==
  \A k \in DOMAIN returns, r \in requests :
    returns[k].status = "SUCCESS" /\ returns[k].tag = tag[r] =>
      OnServer(r) /\ mObjects[tag[r].id].mapped = NoRequest

IndInv == failed = "none" /\ NativeInv /\ HeldInv /\ GrantedInv /\ QueueInv

-----------------------------------------------------------------------------
(* Sequences *)

(* Replacing an element. *)
LEMMA Replaced ==
  ASSUME NEW S, NEW q \in Seq(S), NEW i \in DOMAIN q, NEW e \in S
  PROVE  LET p == [q EXCEPT ![i] = e] IN
         /\ p \in Seq(S) /\ Len(p) = Len(q) /\ DOMAIN p = DOMAIN q
         /\ p[i] = e /\ \A j \in DOMAIN q : j # i => p[j] = q[j]
<1>1. i \in 1 .. Len(q) /\ DOMAIN q = 1 .. Len(q)
  BY LenProperties
<1>2. QED
  BY <1>1, ExceptSeq, LenProperties

(* Adding an element. *)
LEMMA Appended ==
  ASSUME NEW S, NEW q \in Seq(S), NEW e \in S
  PROVE  LET p == Append(q, e) IN
         /\ p \in Seq(S) /\ Len(p) = Len(q) + 1 /\ Len(q) \in Nat
         /\ DOMAIN q = 1 .. Len(q) /\ DOMAIN p = DOMAIN q \cup {Len(q) + 1}
         /\ Len(q) + 1 \notin DOMAIN q
         /\ p[Len(q) + 1] = e /\ \A j \in DOMAIN q : p[j] = q[j]
<1> DEFINE p == Append(q, e)
<1>1. /\ p \in Seq(S) /\ Len(p) = Len(q) + 1 /\ Len(q) \in Nat
      /\ DOMAIN q = 1 .. Len(q)
      /\ p[Len(q) + 1] = e /\ \A j \in 1 .. Len(q) : p[j] = q[j]
  BY AppendProperties, LenProperties
<1>2. DOMAIN p = 1 .. Len(p)
  <2> HIDE DEF p
  <2>1. QED
    BY <1>1, LenProperties
<1> HIDE DEF p
<1>3. DOMAIN p = DOMAIN q \cup {Len(q) + 1} /\ Len(q) + 1 \notin DOMAIN q
  BY <1>1, <1>2
<1>4. QED
  BY <1>1, <1>3 DEF p

(* Removing the first element. *)
LEMMA Popped ==
  ASSUME NEW S, NEW q \in Seq(S), q # <<>>
  PROVE  LET p == Tail(q) IN
         /\ p \in Seq(S) /\ Len(q) = Len(p) + 1 /\ Len(p) \in Nat
         /\ DOMAIN q = 1 .. Len(q) /\ 1 \in DOMAIN q
         /\ Head(q) = q[1] /\ Head(q) \in S
         /\ \A i \in DOMAIN p : i \in Nat /\ 0 < i /\ i + 1 \in DOMAIN q /\ p[i] = q[i + 1]
         /\ \A j \in DOMAIN q : j # 1 => j - 1 \in DOMAIN p /\ (j - 1) + 1 = j
<1> DEFINE p == Tail(q)
           n == Len(q)
<1>1. /\ p \in Seq(S) /\ Len(p) = n - 1 /\ n \in Nat /\ n > 0
      /\ DOMAIN q = 1 .. n /\ Head(q) \in S
      /\ \A i \in 1 .. Len(p) : p[i] = q[i + 1]
  BY HeadTailProperties, LenProperties, EmptySeq
<1>2. Head(q) = q[1]
  OBVIOUS
<1>3. DOMAIN p = 1 .. Len(p) /\ Len(p) \in Nat
  <2> HIDE DEF p
  <2>1. QED
    BY <1>1, LenProperties
<1> HIDE DEF p, n
<1>4. \A i \in DOMAIN p : i \in Nat /\ 0 < i /\ i + 1 \in DOMAIN q /\ p[i] = q[i + 1]
  BY <1>1, <1>3
<1>5. \A j \in DOMAIN q : j # 1 => j - 1 \in DOMAIN p /\ (j - 1) + 1 = j
  BY <1>1, <1>3
<1>6. 1 \in DOMAIN q /\ n = Len(p) + 1
  BY <1>1
<1>7. QED
  BY <1>1, <1>2, <1>3, <1>4, <1>5, <1>6 DEF p, n

-----------------------------------------------------------------------------
(* Types *)

(* What the client sends are commands. *)
LEMMA SentTypes ==
  ASSUME TypeOK
  PROVE  /\ \A id \in Ids, op \in {"mapRead", "mapWrite", "update", "unmap", "destroy"},
               arg \in Nat : Command(op, id, arg) \in Commands
         /\ \A id \in Ids, arg \in 0 .. MaxSerial : Command("create", id, arg) \in Commands
         /\ \A c \in Commands : commands \o <<c>> = Append(commands, c)
         /\ \A c, d \in Commands : commands \o <<c, d>> = Append(Append(commands, c), d)
         /\ \A c, d \in Commands : <<c>> \o <<d>> = <<c, d>>
<1>1. /\ \A id \in Ids, op \in {"mapRead", "mapWrite", "update", "unmap", "destroy"},
             arg \in Nat : Command(op, id, arg) \in Commands
      /\ \A id \in Ids, arg \in 0 .. MaxSerial : Command("create", id, arg) \in Commands
  BY DEF Command, Commands, Ids
<1>2. commands \in Seq(Commands)
  BY DEF TypeOK
<1>3. \A c \in Commands : commands \o <<c>> = Append(commands, c)
  BY <1>2, AppendIsConcat
<1>4. ASSUME NEW c \in Commands, NEW d \in Commands
      PROVE  /\ <<c>> \o <<d>> = <<c, d>>
             /\ commands \o <<c, d>> = Append(Append(commands, c), d)
  <2>1. <<c>> \in Seq(Commands) /\ <<d>> \in Seq(Commands) /\ <<c, d>> \in Seq(Commands)
    OBVIOUS
  <2>2. <<c>> \o <<d>> = <<c, d>>
    <3>1. <<c>> \o <<d>> = Append(<<c>>, d)
      BY <2>1, AppendIsConcat
    <3>2. Append(<<c>>, d) = <<c, d>>
      <4>1. /\ Append(<<c>>, d) \in Seq(Commands)
            /\ Len(Append(<<c>>, d)) = 2
            /\ Append(<<c>>, d)[1] = c /\ Append(<<c>>, d)[2] = d
        BY <2>1, AppendProperties
      <4>2. \A i \in 1 .. 2 : Append(<<c>>, d)[i] = <<c, d>>[i]
        BY <4>1
      <4>3. Len(<<c, d>>) = 2
        OBVIOUS
      <4>4. QED
        BY <2>1, <4>1, <4>2, <4>3, SeqEqual
    <3>3. QED
      BY <3>1, <3>2
  <2>3. Append(commands, c) \in Seq(Commands)
    BY <1>2, AppendProperties
  <2>4. Append(Append(commands, c), d) = Append(commands, c) \o <<d>>
    BY <2>3, AppendIsConcat
  <2>5. QED
    BY <1>2, <1>3, <2>1, <2>2, <2>4, ConcatAssociative
<1>5. QED
  BY <1>1, <1>3, <1>4

(* What the client sends and how its objects change, call by call. *)
Sent(c) == commands' = Append(commands, c) /\ c \in Commands
ObjectsSet(id, object) ==
  /\ object \in Objects /\ id \in DOMAIN mObjects
  /\ mObjects' \in Seq(Objects) /\ Len(mObjects') = Len(mObjects)
  /\ DOMAIN mObjects' = DOMAIN mObjects /\ mObjects'[id] = object
  /\ \A j \in DOMAIN mObjects : j # id => mObjects'[j] = mObjects[j]

(* A recycled or a new id. *)
LEMMA CreateFacts ==
  ASSUME TypeOK, CreateBuffer
  PROVE  \/ \E id \in DOMAIN mObjects :
              /\ id \in Ids /\ ~mObjects[id].live
              /\ ObjectsSet(id, NewObject(mObjects[id].serial + 1))
              /\ Sent(Command("create", id, mObjects[id].serial + 1))
         \/ /\ Len(mObjects) + 1 \in Ids
            /\ mObjects' = Append(mObjects, NewObject(0)) /\ NewObject(0) \in Objects
            /\ Sent(Command("create", Len(mObjects) + 1, 0))
<1>0. \A serial \in 0 .. MaxSerial : NewObject(serial) \in Objects
  BY DEF NewObject, Objects
<1>1. DOMAIN mObjects = 1 .. Len(mObjects) /\ Len(mObjects) \in Nat /\ Len(mObjects) <= MaxIds
      /\ MaxIds \in Nat /\ MaxSerial \in Nat
  BY LenProperties, BoundAssumption DEF TypeOK
<1>2. CASE FreeIds # {}
  <2>1. PICK id \in FreeIds :
          /\ mObjects[id].serial < MaxSerial
          /\ mObjects' = [mObjects EXCEPT ![id] = NewObject(RecycledSerial(id))]
          /\ Send(<<Command("create", id, mObjects'[id].serial)>>)
    BY <1>2 DEF CreateBuffer
  <2>2. id \in DOMAIN mObjects /\ id \in Ids /\ ~mObjects[id].live
    BY <1>1 DEF FreeIds, Ids
  <2>3. mObjects[id].serial + 1 \in 0 .. MaxSerial
    <3>1. mObjects[id] \in Objects
      BY <1>1, <2>2, ElementOfSeq DEF TypeOK
    <3>2. QED
      BY <1>1, <2>1, <3>1 DEF Objects
  <2>4. ObjectsSet(id, NewObject(mObjects[id].serial + 1))
    BY <1>0, <2>1, <2>2, <2>3, Replaced DEF ObjectsSet, RecycledSerial, TypeOK
  <2>5. mObjects'[id].serial = mObjects[id].serial + 1
    BY <2>4 DEF ObjectsSet, NewObject
  <2>6. Sent(Command("create", id, mObjects[id].serial + 1))
    BY <2>1, <2>2, <2>3, <2>5, SentTypes DEF Send, Sent
  <2>7. QED
    BY <2>2, <2>4, <2>6
<1>3. CASE FreeIds = {}
  <2>1. /\ Len(mObjects) < MaxIds
        /\ mObjects' = Append(mObjects, NewObject(0))
        /\ Send(<<Command("create", Len(mObjects'), 0)>>)
    BY <1>3 DEF CreateBuffer
  <2>2. NewObject(0) \in Objects /\ 0 \in 0 .. MaxSerial
    BY <1>0, <1>1
  <2>3. Len(mObjects') = Len(mObjects) + 1 /\ Len(mObjects) + 1 \in Ids
    BY <1>1, <2>1, <2>2, AppendProperties DEF TypeOK, Ids
  <2>4. Sent(Command("create", Len(mObjects) + 1, 0))
    BY <2>1, <2>2, <2>3, SentTypes DEF Send, Sent
  <2>5. QED
    BY <2>1, <2>2, <2>3, <2>4
<1>4. QED
  BY <1>2, <1>3

(* A live object, and its members. *)
LEMMA LiveFacts ==
  ASSUME TypeOK, NEW id, Live(id)
  PROVE  /\ id \in DOMAIN mObjects /\ id \in Ids /\ mObjects[id] \in Objects
         /\ mObjects[id].live = TRUE
         /\ mObjects[id].serial \in 0 .. MaxSerial /\ mObjects[id].requestSerial \in Nat
         /\ mObjects[id].mapped \in Requests \cup {NoRequest}
<1>1. DOMAIN mObjects = 1 .. Len(mObjects) /\ Len(mObjects) \in Nat /\ Len(mObjects) <= MaxIds
      /\ MaxIds \in Nat
  BY LenProperties, BoundAssumption DEF TypeOK
<1>2. id \in 1 .. Len(mObjects) /\ mObjects[id].live
  BY <1>1 DEF Live
<1>3. mObjects[id] \in Objects
  BY <1>2, ElementOfSeq DEF TypeOK
<1>4. QED
  BY <1>1, <1>2, <1>3 DEF Ids, Objects

(* A map request. *)
LEMMA MapFacts ==
  ASSUME TypeOK, NEW id \in Ids, NEW r \in Requests, NEW write \in BOOLEAN,
         MapAsync(id, r, write)
  PROVE  LET o == mObjects[id] IN
         /\ Live(id) /\ answer[r] = "unused"
         /\ tag' = [tag EXCEPT ![r] = Tag(id, o.serial, o.requestSerial, write)]
         /\ tag' \in [Requests -> Tags]
         /\ ObjectsSet(id, [o EXCEPT !.requestSerial = @ + 1])
         /\ Sent(Command(IF write THEN "mapWrite" ELSE "mapRead", id, o.requestSerial))
<1> DEFINE o == mObjects[id]
<1>1. Live(id) /\ id \in DOMAIN mObjects /\ o \in Objects /\ o.serial \in 0 .. MaxSerial
      /\ o.requestSerial \in Nat
  BY LiveFacts DEF MapAsync
<1>2. tag' = [tag EXCEPT ![r] = Tag(id, o.serial, o.requestSerial, write)]
  BY DEF MapAsync
<1>3. Tag(id, o.serial, o.requestSerial, write) \in Tags
  BY <1>1, BoundAssumption DEF Tag, Tags, Ids
<1>4. tag' \in [Requests -> Tags]
  BY <1>2, <1>3 DEF TypeOK
<1>5. [o EXCEPT !.requestSerial = @ + 1] \in Objects
  BY <1>1 DEF Objects
<1>6. mObjects' = [mObjects EXCEPT ![id] = [o EXCEPT !.requestSerial = @ + 1]]
  BY DEF MapAsync
<1>7. ObjectsSet(id, [o EXCEPT !.requestSerial = @ + 1])
  BY <1>1, <1>5, <1>6, Replaced DEF ObjectsSet, TypeOK
<1>8. Sent(Command(IF write THEN "mapWrite" ELSE "mapRead", id, o.requestSerial))
  BY <1>1, SentTypes DEF MapAsync, Send, Sent
<1>9. QED
  BY <1>1, <1>2, <1>4, <1>7, <1>8 DEF MapAsync

(* Unmap, with what the application wrote before it. *)
LEMMA UnmapFacts ==
  ASSUME TypeOK, NEW id \in Ids, Unmap(id)
  PROVE  LET o == mObjects[id]
             unmap == Command("unmap", id, 0)
             update == Command("update", id, tag[o.mapped].number)
         IN
         /\ Live(id) /\ ObjectsSet(id, [o EXCEPT !.mapped = NoRequest])
         /\ unmap \in Commands
         /\ \/ commands' = Append(commands, unmap)
            \/ /\ o.mapped # NoRequest /\ o.mapped \in Requests /\ tag[o.mapped].write
               /\ update \in Commands
               /\ commands' = Append(Append(commands, update), unmap)
<1> DEFINE o == mObjects[id]
           unmap == Command("unmap", id, 0)
           update == Command("update", id, tag[o.mapped].number)
<1>1. Live(id) /\ id \in DOMAIN mObjects /\ o \in Objects
      /\ o.mapped \in Requests \cup {NoRequest}
  BY LiveFacts DEF Unmap
<1>2. [o EXCEPT !.mapped = NoRequest] \in Objects
  BY <1>1 DEF Objects
<1>3. mObjects' = [mObjects EXCEPT ![id] = [o EXCEPT !.mapped = NoRequest]]
  BY DEF Unmap
<1>4. ObjectsSet(id, [o EXCEPT !.mapped = NoRequest])
  BY <1>1, <1>2, <1>3, Replaced DEF ObjectsSet, TypeOK
<1>5. unmap \in Commands
  BY SentTypes
<1>6. commands' = commands \o (Update(id) \o <<unmap>>)
  BY DEF Unmap, Send, UnmapCommands
<1>7. CASE o.mapped # NoRequest /\ tag[o.mapped].write
  <2>1. o.mapped \in Requests
    BY <1>1, <1>7
  <2>2. tag[o.mapped].number \in Nat
    BY <2>1 DEF TypeOK, Tags
  <2>3. update \in Commands
    BY <2>2, SentTypes
  <2>4. Update(id) = <<update>>
    BY <1>7 DEF Update
  <2>5. Update(id) \o <<unmap>> = <<update, unmap>>
    BY <1>5, <2>3, <2>4, SentTypes
  <2>6. commands' = Append(Append(commands, update), unmap)
    BY <1>5, <1>6, <2>3, <2>5, SentTypes
  <2>7. QED
    BY <1>1, <1>4, <1>5, <1>7, <2>1, <2>3, <2>6
<1>8. CASE ~ (o.mapped # NoRequest /\ tag[o.mapped].write)
  <2>1. Update(id) = <<>>
    BY <1>8 DEF Update
  <2>2. Update(id) \o <<unmap>> = <<unmap>>
    BY <1>5, <2>1
  <2>3. commands' = Append(commands, unmap)
    BY <1>5, <1>6, <2>2, SentTypes
  <2>4. QED
    BY <1>1, <1>4, <1>5, <2>3
<1>9. QED
  BY <1>7, <1>8

(* Release. *)
LEMMA ReleaseFacts ==
  ASSUME TypeOK, NEW id \in Ids, Release(id)
  PROVE  /\ Live(id)
         /\ ObjectsSet(id, [mObjects[id] EXCEPT !.live = FALSE, !.mapped = NoRequest])
         /\ Sent(Command("destroy", id, 0))
<1> DEFINE o == mObjects[id]
<1>1. Live(id) /\ id \in DOMAIN mObjects /\ o \in Objects
  BY LiveFacts DEF Release
<1>2. [o EXCEPT !.live = FALSE, !.mapped = NoRequest] \in Objects
  BY <1>1 DEF Objects
<1>3. mObjects' = [mObjects EXCEPT ![id] = [o EXCEPT !.live = FALSE, !.mapped = NoRequest]]
  BY <1>1 DEF Release, TypeOK
<1>4. ObjectsSet(id, [o EXCEPT !.live = FALSE, !.mapped = NoRequest])
  BY <1>1, <1>2, <1>3, Replaced DEF ObjectsSet, TypeOK
<1>5. Sent(Command("destroy", id, 0))
  BY SentTypes DEF Release, Send, Sent
<1>6. QED
  BY <1>1, <1>4, <1>5

(* The members of what the server has. *)
LEMMA ServerTypes ==
  ASSUME TypeOK
  PROVE  /\ DOMAIN mKnown = 1 .. Len(mKnown) /\ Len(mKnown) \in Nat
         /\ \A id \in DOMAIN mKnown : mKnown[id] \in ObjectData
         /\ NoTag \in Tags
         /\ \A m \in maps : /\ m.tag \in Tags /\ m.waiting \in BOOLEAN
                            /\ m = [tag |-> m.tag, waiting |-> m.waiting]
         /\ \A k \in DOMAIN returns : returns[k] \in Returns
<1>1. DOMAIN mKnown = 1 .. Len(mKnown) /\ Len(mKnown) \in Nat
      /\ \A id \in DOMAIN mKnown : mKnown[id] \in ObjectData
  BY LenProperties, ElementOfSeq DEF TypeOK
<1>2. NoTag \in Tags
  BY BoundAssumption DEF NoTag, Tag, Tags
<1>3. \A k \in DOMAIN returns : returns[k] \in Returns
  BY LenProperties, ElementOfSeq DEF TypeOK
<1>4. \A m \in maps : /\ m.tag \in Tags /\ m.waiting \in BOOLEAN
                      /\ m = [tag |-> m.tag, waiting |-> m.waiting]
  BY DEF TypeOK
<1>5. QED
  BY <1>1, <1>2, <1>3, <1>4

(* The server's handlers keep the types. *)
LEMMA ServerTypeStep == TypeOK /\ ServerHandles => TypeOK'
<1> SUFFICES ASSUME TypeOK, ServerHandles PROVE TypeOK'
  OBVIOUS
<1> DEFINE c == Head(commands)
<1>1. c \in Commands /\ commands' \in Seq(Commands)
  BY Popped DEF ServerHandles, TypeOK
<1>2. UNCHANGED <<clientVars, answerVars>>
  BY DEF ServerHandles
<1>3. SUFFICES ASSUME \/ HandleCreate(c) \/ HandleMapAsync(c) \/ HandleUpdateMappedData(c)
                      \/ HandleUnmap(c) \/ HandleDestroy(c)
               PROVE  /\ mKnown' \in Seq(ObjectData)
                      /\ maps' \subseteq [tag : Tags, waiting : BOOLEAN]
                      /\ returns' \in Seq(Returns)
                      /\ failed' \in {"none", "server", "client", "assertion"}
  BY <1>1, <1>2 DEF ServerHandles, TypeOK, clientVars, answerVars
<1> DEFINE TypesKept == /\ mKnown' \in Seq(ObjectData)
                        /\ maps' \subseteq [tag : Tags, waiting : BOOLEAN]
                        /\ returns' \in Seq(Returns)
                        /\ failed' \in {"none", "server", "client", "assertion"}
<1> HIDE DEF c
<1> SUFFICES TypesKept
  OBVIOUS
<1>4. c.id \in 1 .. MaxIds /\ c.arg \in Nat /\ (c.op = "create" => c.arg \in 0 .. MaxSerial)
  BY <1>1 DEF Commands
<1>5. CASE Fail("server")
  BY <1>5 DEF Fail, serverVars, TypeOK
<1>6. ASSUME NEW t \in Tags, NEW status \in {"SUCCESS", "UNKNOWN", "ERROR"}, Reply(t, status)
      PROVE  returns' \in Seq(Returns)
  BY <1>6, AppendProperties DEF Reply, Returns, TypeOK
<1>7. CASE HandleCreate(c) /\ ~Fail("server")
  <2>1. PICK valid \in BOOLEAN :
          /\ c.op = "create"
          /\ ~ (c.id > Len(mKnown) + 1 \/ Known(c.id))
          /\ mKnown' = Allocate(c.id, [allocated |-> TRUE, serial |-> c.arg, valid |-> valid,
                                       mappedData |-> NoTag])
          /\ UNCHANGED <<maps, returns, failed>>
    BY <1>7 DEF HandleCreate
  <2> DEFINE data == [allocated |-> TRUE, serial |-> c.arg, valid |-> valid,
                      mappedData |-> NoTag]
  <2>2. data \in ObjectData
    BY <1>4, <2>1, ServerTypes DEF ObjectData
  <2> HIDE DEF data
  <2>3. mKnown' \in Seq(ObjectData)
    <3>1. CASE c.id > Len(mKnown)
      BY <2>1, <2>2, <3>1, AppendProperties DEF Allocate, TypeOK, data
    <3>2. CASE ~ (c.id > Len(mKnown))
      <4>1. c.id \in DOMAIN mKnown
        BY <1>4, <3>2, ServerTypes
      <4>2. QED
        BY <2>1, <2>2, <3>2, <4>1, Replaced DEF Allocate, TypeOK, data
    <3>3. QED
      BY <3>1, <3>2
  <2>4. QED
    BY <2>1, <2>3 DEF TypeOK
<1>8. CASE HandleMapAsync(c) /\ ~Fail("server")
  <2> DEFINE t == Tag(c.id, mKnown[c.id].serial, c.arg, c.op = "mapWrite")
  <2>1. /\ Known(c.id) /\ UNCHANGED <<mKnown, failed>>
        /\ \/ Reply(t, "ERROR") /\ UNCHANGED maps
           \/ maps' = maps \cup {[tag |-> t, waiting |-> TRUE]} /\ UNCHANGED returns
    BY <1>8 DEF HandleMapAsync, Refuse
  <2>2. t \in Tags
    <3>1. mKnown[c.id] \in ObjectData
      BY <2>1, ServerTypes DEF Known
    <3>2. QED
      BY <1>4, <3>1, BoundAssumption DEF Tag, Tags, ObjectData
  <2> HIDE DEF t
  <2>3. [tag |-> t, waiting |-> TRUE] \in [tag : Tags, waiting : BOOLEAN]
    BY <2>2
  <2>4. maps' \subseteq [tag : Tags, waiting : BOOLEAN]
    <3> DEFINE e == [tag |-> t, waiting |-> TRUE]
               M == [tag : Tags, waiting : BOOLEAN]
    <3>1. maps \subseteq M /\ e \in M
      BY <2>3 DEF TypeOK
    <3>2. maps' = maps \/ maps' = maps \cup {e}
      BY <2>1
    <3> HIDE DEF e, M
    <3>3. maps' \subseteq M
      BY <3>1, <3>2
    <3>4. QED
      BY <3>3 DEF M
  <2>5. returns' \in Seq(Returns)
    <3>1. CASE Reply(t, "ERROR")
      BY <1>6, <2>2, <3>1
    <3>2. CASE UNCHANGED returns
      BY <3>2 DEF TypeOK
    <3>3. QED
      BY <2>1, <3>1, <3>2
  <2>6. QED
    BY <2>1, <2>4, <2>5 DEF TypeOK
<1>9. CASE HandleUpdateMappedData(c) /\ ~Fail("server")
  BY <1>9 DEF HandleUpdateMappedData, serverVars, TypeOK
<1>10. CASE HandleUnmap(c) /\ ~Fail("server")
  <2>1. /\ Known(c.id) /\ mKnown' = [mKnown EXCEPT ![c.id].mappedData = NoTag]
        /\ maps' \subseteq maps
        /\ \/ UNCHANGED returns
           \/ \E m \in maps : Reply(m.tag, "UNKNOWN")
        /\ UNCHANGED failed
    BY <1>10 DEF HandleUnmap, ResetMappedData, NativeMaps
  <2>2. c.id \in DOMAIN mKnown /\ mKnown[c.id] \in ObjectData /\ NoTag \in Tags
    BY <2>1, ServerTypes DEF Known
  <2>3. [mKnown[c.id] EXCEPT !.mappedData = NoTag] \in ObjectData
    BY <2>2 DEF ObjectData
  <2>4. mKnown' \in Seq(ObjectData)
    BY <2>1, <2>2, <2>3, Replaced DEF TypeOK
  <2>5. returns' \in Seq(Returns)
    BY <1>6, <2>1, ServerTypes DEF TypeOK
  <2>6. QED
    BY <2>1, <2>4, <2>5 DEF TypeOK
<1>11. CASE HandleDestroy(c) /\ ~Fail("server")
  <2>1. /\ Known(c.id) /\ mKnown' = [mKnown EXCEPT ![c.id].allocated = FALSE]
        /\ maps' \subseteq maps
        /\ UNCHANGED <<returns, failed>>
    BY <1>11 DEF HandleDestroy
  <2>2. c.id \in DOMAIN mKnown /\ mKnown[c.id] \in ObjectData
    BY <2>1, ServerTypes DEF Known
  <2>3. [mKnown[c.id] EXCEPT !.allocated = FALSE] \in ObjectData
    BY <2>2 DEF ObjectData
  <2>4. mKnown' \in Seq(ObjectData)
    BY <2>1, <2>2, <2>3, Replaced DEF TypeOK
  <2>5. QED
    BY <2>1, <2>4 DEF TypeOK
<1>12. QED
  BY <1>3, <1>5, <1>7, <1>8, <1>9, <1>10, <1>11

(* The answers that the client takes, and what becomes of them. *)
LEMMA AnswerFacts ==
  ASSUME TypeOK, ClientHandles
  PROVE  LET a == Head(returns) IN
         /\ a \in Returns /\ a = returns[1] /\ 1 \in DOMAIN returns
         /\ returns' = Tail(returns) /\ returns' \in Seq(Returns)
         /\ UNCHANGED <<serverVars, tag, commands>>
         /\ \/ UNCHANGED <<mObjects, requests, answerVars, failed>>
            \/ \E r \in requests :
                 /\ Live(a.tag.id) /\ mObjects[a.tag.id].serial = a.tag.serial
                 /\ tag[r].id = a.tag.id /\ tag[r].number = a.tag.number
                 /\ \/ /\ \/ tag[r].write # a.tag.write
                          \/ a.status = "SUCCESS" /\ mObjects[a.tag.id].mapped # NoRequest
                       /\ failed' = "client"
                       /\ UNCHANGED <<mObjects, requests, answerVars>>
                    \/ /\ tag[r].write = a.tag.write
                       /\ requests' = requests \ {r}
                       /\ Call({r}, a.status, a.tag)
                       /\ UNCHANGED failed
                       /\ \/ a.status # "SUCCESS" /\ UNCHANGED mObjects
                          \/ /\ a.status = "SUCCESS"
                             /\ mObjects[a.tag.id].mapped = NoRequest
                             /\ ObjectsSet(a.tag.id,
                                           [mObjects[a.tag.id] EXCEPT !.mapped = r])
<1> DEFINE a == Head(returns)
<1>1. a \in Returns /\ a = returns[1] /\ 1 \in DOMAIN returns
      /\ returns' = Tail(returns) /\ returns' \in Seq(Returns)
  BY Popped DEF ClientHandles, TypeOK
<1>2. UNCHANGED <<serverVars, tag, commands>>
  BY DEF ClientHandles
<1> DEFINE found == {r \in RequestsOf(a.tag.id) : tag[r].number = a.tag.number}
<1>3. CASE ~SameBuffer(a.tag) \/ found = {}
  BY <1>1, <1>2, <1>3 DEF ClientHandles
<1>4. CASE SameBuffer(a.tag) /\ found # {}
  <2>1. PICK r \in found :
          IF \/ tag[r].write # a.tag.write
             \/ a.status = "SUCCESS" /\ mObjects[a.tag.id].mapped # NoRequest
          THEN /\ failed' = "client"
               /\ UNCHANGED <<mObjects, requests, answerVars>>
          ELSE /\ requests' = Remaining(r)
               /\ Call({r}, a.status, a.tag)
               /\ mObjects' = IF a.status # "SUCCESS" THEN mObjects
                              ELSE [mObjects EXCEPT ![a.tag.id].mapped = r]
               /\ UNCHANGED failed
    BY <1>4 DEF ClientHandles
  <2>2. /\ r \in requests /\ r \in Requests
        /\ tag[r].id = a.tag.id /\ tag[r].number = a.tag.number
        /\ Live(a.tag.id) /\ mObjects[a.tag.id].serial = a.tag.serial
    BY <1>4 DEF RequestsOf, SameBuffer, TypeOK
  <2>3. a.tag.id \in DOMAIN mObjects /\ mObjects[a.tag.id] \in Objects
    BY <2>2, LiveFacts
  <2>4. [mObjects[a.tag.id] EXCEPT !.mapped = r] \in Objects
    BY <2>2, <2>3 DEF Objects
  <2>5. mObjects' = [mObjects EXCEPT ![a.tag.id].mapped = r] =>
          ObjectsSet(a.tag.id, [mObjects[a.tag.id] EXCEPT !.mapped = r])
    BY <2>3, <2>4, Replaced DEF ObjectsSet, TypeOK
  <2> HIDE DEF a, found
  <2>6. QED
    BY <1>1, <1>2, <2>1, <2>2, <2>5 DEF Remaining, a
<1>5. QED
  BY <1>3, <1>4

(* A completed request. *)
LEMMA BackendFacts ==
  ASSUME TypeOK, NEW m \in maps, BackendCompletes(m)
  PROVE  LET t == m.tag IN
         /\ failed = "none" /\ m.waiting = TRUE
         /\ returns' = Append(returns, [tag |-> t, status |-> "SUCCESS"])
         /\ [tag |-> t, status |-> "SUCCESS"] \in Returns
         /\ maps' = (maps \ {m}) \cup
                      (IF Released(t) THEN {} ELSE {[tag |-> t, waiting |-> FALSE]})
         /\ \/ /\ t.write /\ Known(t.id)
               /\ mKnown' = [mKnown EXCEPT ![t.id] = [mKnown[t.id] EXCEPT !.mappedData = t]]
               /\ mKnown' \in Seq(ObjectData) /\ DOMAIN mKnown' = DOMAIN mKnown
            \/ ~ (t.write /\ Known(t.id)) /\ UNCHANGED mKnown
         /\ failed' = IF t.write /\ ~Known(t.id) THEN "assertion" ELSE failed
         /\ UNCHANGED <<clientVars, answerVars, commands>>
<1> DEFINE t == m.tag
<1>1. t \in Tags /\ m.waiting = TRUE /\ m = [tag |-> t, waiting |-> m.waiting]
  BY ServerTypes DEF BackendCompletes
<1>2. [tag |-> t, status |-> "SUCCESS"] \in Returns
  BY <1>1 DEF Returns
<1>3. [m EXCEPT !.waiting = FALSE] = [tag |-> t, waiting |-> FALSE]
  <2> DEFINE e == [m EXCEPT !.waiting = FALSE]
  <2>1. m \in [tag : Tags, waiting : BOOLEAN]
    BY DEF TypeOK
  <2>2. e \in [tag : Tags, waiting : BOOLEAN]
    BY <2>1
  <2>3. e.tag = t /\ e.waiting = FALSE
    BY <2>1
  <2> HIDE DEF e
  <2>4. e = [tag |-> e.tag, waiting |-> e.waiting]
    BY <2>2
  <2>5. QED
    BY <2>3, <2>4 DEF e
<1>4. CASE t.write /\ Known(t.id)
  <2>1. t.id \in DOMAIN mKnown /\ mKnown[t.id] \in ObjectData
    BY <1>4, ServerTypes DEF Known
  <2>2. [mKnown[t.id] EXCEPT !.mappedData = t] \in ObjectData
    BY <1>1, <2>1 DEF ObjectData
  <2>3. mKnown' = [mKnown EXCEPT ![t.id] = [mKnown[t.id] EXCEPT !.mappedData = t]]
    BY <1>4 DEF BackendCompletes
  <2>4. mKnown' \in Seq(ObjectData) /\ DOMAIN mKnown' = DOMAIN mKnown
    BY <2>1, <2>2, <2>3, Replaced DEF TypeOK
  <2>5. QED
    BY <1>1, <1>2, <1>3, <1>4, <2>3, <2>4 DEF BackendCompletes, Reply
<1>5. CASE ~ (t.write /\ Known(t.id))
  BY <1>1, <1>2, <1>3, <1>5 DEF BackendCompletes, Reply
<1>6. QED
  BY <1>4, <1>5

(* Answering requests keeps the types of the answers. *)
LEMMA CallTypes ==
  ASSUME TypeOK, NEW rs, NEW status \in {"SUCCESS", "UNKNOWN", "ERROR"}, NEW from \in Tags,
         Call(rs, status, from)
  PROVE  /\ answer' \in [Requests -> {"unused", "waiting", "SUCCESS", "UNKNOWN", "ERROR"}]
         /\ calls' \in [Requests -> Nat]
         /\ source' \in [Requests -> Tags]
<1> USE DEF Call, TypeOK
<1>1. answer' \in [Requests -> {"unused", "waiting", "SUCCESS", "UNKNOWN", "ERROR"}]
  OBVIOUS
<1>2. calls' \in [Requests -> Nat]
  OBVIOUS
<1>3. source' \in [Requests -> Tags]
  OBVIOUS
<1>4. QED
  BY <1>1, <1>2, <1>3

(* The calls of the application keep the types. *)
LEMMA ClientTypeStep == TypeOK /\ ClientCalls => TypeOK'
<1> SUFFICES ASSUME TypeOK, ClientCalls PROVE TypeOK'
  OBVIOUS
<1>1. UNCHANGED failed /\ NoTag \in Tags /\ commands \in Seq(Commands)
  BY ServerTypes DEF ClientCalls, TypeOK
<1>2. ASSUME NEW c, Sent(c) PROVE commands' \in Seq(Commands)
  BY <1>1, <1>2, AppendProperties DEF Sent
<1>3. ASSUME NEW id, NEW o, ObjectsSet(id, o)
      PROVE  mObjects' \in Seq(Objects) /\ Len(mObjects') <= MaxIds
  BY <1>3 DEF ObjectsSet, TypeOK
<1>4. CASE CreateBuffer
  <2>1. UNCHANGED <<serverVars, answerVars, requests, tag, returns>>
    BY <1>4 DEF CreateBuffer
  <2>2. mObjects' \in Seq(Objects) /\ Len(mObjects') <= MaxIds /\ commands' \in Seq(Commands)
    <3>1. CASE /\ Len(mObjects) + 1 \in Ids
               /\ mObjects' = Append(mObjects, NewObject(0)) /\ NewObject(0) \in Objects
               /\ Sent(Command("create", Len(mObjects) + 1, 0))
      BY <1>2, <3>1, AppendProperties DEF TypeOK, Ids
    <3>2. QED
      BY <1>2, <1>3, <1>4, <3>1, CreateFacts
  <2>3. QED
    BY <1>1, <2>1, <2>2 DEF TypeOK, serverVars, answerVars
<1>5. ASSUME NEW id \in Ids, NEW r \in Requests, NEW write \in BOOLEAN,
             MapAsync(id, r, write)
      PROVE  TypeOK'
  <2>1. /\ UNCHANGED <<serverVars, calls, source, returns>>
        /\ requests' = requests \cup {r} /\ answer' = [answer EXCEPT ![r] = "waiting"]
    BY <1>5 DEF MapAsync
  <2>2. tag' \in [Requests -> Tags] /\ commands' \in Seq(Commands)
        /\ mObjects' \in Seq(Objects) /\ Len(mObjects') <= MaxIds
    BY <1>2, <1>3, <1>5, MapFacts
  <2>3. requests' \subseteq Requests
    BY <2>1 DEF TypeOK
  <2>4. answer' \in [Requests -> {"unused", "waiting", "SUCCESS", "UNKNOWN", "ERROR"}]
    BY <2>1 DEF TypeOK
  <2>5. QED
    BY <1>1, <2>1, <2>2, <2>3, <2>4 DEF TypeOK, serverVars
<1>6. ASSUME NEW id \in Ids, ClearMapRequests(id)
      PROVE  /\ requests' \subseteq Requests
             /\ answer' \in [Requests -> {"unused", "waiting", "SUCCESS", "UNKNOWN", "ERROR"}]
             /\ calls' \in [Requests -> Nat]
             /\ source' \in [Requests -> Tags]
  BY <1>1, <1>6, CallTypes DEF ClearMapRequests, TypeOK
<1>7. ASSUME NEW id \in Ids, Unmap(id) PROVE TypeOK'
  <2>1. UNCHANGED <<serverVars, tag, returns>> /\ ClearMapRequests(id)
    BY <1>7 DEF Unmap
  <2> DEFINE unmap == Command("unmap", id, 0)
             update == Command("update", id, tag[mObjects[id].mapped].number)
  <2>2. mObjects' \in Seq(Objects) /\ Len(mObjects') <= MaxIds
    BY <1>3, <1>7, UnmapFacts
  <2>3. commands' \in Seq(Commands)
    <3>1. /\ unmap \in Commands
          /\ \/ commands' = Append(commands, unmap)
             \/ /\ update \in Commands
                /\ commands' = Append(Append(commands, update), unmap)
      BY <1>7, UnmapFacts
    <3> HIDE DEF unmap, update
    <3>2. QED
      BY <1>1, <3>1, AppendProperties
  <2>4. QED
    BY <1>1, <1>6, <2>1, <2>2, <2>3 DEF TypeOK, serverVars
<1>8. ASSUME NEW id \in Ids, Release(id) PROVE TypeOK'
  <2>1. UNCHANGED <<serverVars, tag, returns>> /\ ClearMapRequests(id)
    BY <1>8 DEF Release
  <2>2. mObjects' \in Seq(Objects) /\ Len(mObjects') <= MaxIds /\ commands' \in Seq(Commands)
    BY <1>2, <1>3, <1>8, ReleaseFacts
  <2>3. QED
    BY <1>1, <1>6, <2>1, <2>2 DEF TypeOK, serverVars
<1>9. QED
  BY <1>4, <1>5, <1>7, <1>8 DEF ClientCalls, Ids

(* The backend and the client's handler keep the types. *)
LEMMA AnswerTypeStep == TypeOK /\ (BackendWorks \/ ClientHandles) => TypeOK'
<1> SUFFICES ASSUME TypeOK, BackendWorks \/ ClientHandles PROVE TypeOK'
  OBVIOUS
<1>1. ASSUME NEW m \in maps, BackendCompletes(m) PROVE TypeOK'
  <2> DEFINE t == m.tag
             e == [tag |-> t, waiting |-> FALSE]
             M == [tag : Tags, waiting : BOOLEAN]
             ok == [tag |-> t, status |-> "SUCCESS"]
  <2>1. UNCHANGED <<clientVars, answerVars, commands>>
    BY <1>1 DEF BackendCompletes
  <2>2. e \in M /\ maps \subseteq M
    BY ServerTypes DEF TypeOK
  <2>3. maps' \subseteq maps \cup {e}
    BY <1>1, BackendFacts
  <2>4. maps' \subseteq M
    <3> HIDE DEF e, M
    <3>1. QED
      BY <2>2, <2>3
  <2>5. returns' \in Seq(Returns)
    <3>1. returns' = Append(returns, ok) /\ ok \in Returns
      BY <1>1, BackendFacts
    <3> HIDE DEF ok
    <3>2. QED
      BY <3>1, AppendProperties DEF TypeOK
  <2>6. mKnown' \in Seq(ObjectData)
    BY <1>1, BackendFacts DEF TypeOK
  <2>7. failed' \in {"none", "server", "client", "assertion"}
    BY <1>1, BackendFacts
  <2> HIDE DEF M
  <2>8. QED
    BY <2>1, <2>4, <2>5, <2>6, <2>7 DEF TypeOK, clientVars, answerVars, M
<1>2. CASE ClientHandles
  <2> DEFINE a == Head(returns)
  <2>1. /\ a \in Returns /\ returns' \in Seq(Returns)
        /\ UNCHANGED <<serverVars, tag, commands>>
    BY <1>2, AnswerFacts
  <2>2. a.tag \in Tags /\ a.status \in {"SUCCESS", "UNKNOWN", "ERROR"}
    BY <2>1 DEF Returns
  <2>3. CASE UNCHANGED <<mObjects, requests, answerVars>> /\ failed' \in {failed, "client"}
    BY <2>1, <2>3 DEF TypeOK, serverVars, answerVars
  <2>4. ASSUME NEW r \in requests,
               requests' = requests \ {r}, Call({r}, a.status, a.tag), UNCHANGED failed,
               \/ UNCHANGED mObjects
               \/ \E id, o : ObjectsSet(id, o)
        PROVE  TypeOK'
    <3> HIDE DEF a
    <3>1. requests' \subseteq Requests
      BY <2>4 DEF TypeOK
    <3>2. mObjects' \in Seq(Objects) /\ Len(mObjects') <= MaxIds
      BY <2>4 DEF ObjectsSet, TypeOK
    <3>3. /\ answer' \in [Requests -> {"unused", "waiting", "SUCCESS", "UNKNOWN", "ERROR"}]
          /\ calls' \in [Requests -> Nat] /\ source' \in [Requests -> Tags]
      BY <2>2, <2>4, CallTypes
    <3>4. QED
      BY <2>1, <2>4, <3>1, <3>2, <3>3 DEF TypeOK, serverVars
  <2>5. QED
    <3>1. \/ UNCHANGED <<mObjects, requests, answerVars>> /\ failed' \in {failed, "client"}
          \/ \E r \in requests :
               /\ requests' = requests \ {r} /\ Call({r}, a.status, a.tag) /\ UNCHANGED failed
               /\ \/ UNCHANGED mObjects
                  \/ ObjectsSet(a.tag.id, [mObjects[a.tag.id] EXCEPT !.mapped = r])
      BY <1>2, AnswerFacts
    <3> HIDE DEF a
    <3>2. QED
      BY <2>3, <2>4, <3>1
<1>3. QED
  BY <1>1, <1>2 DEF BackendWorks

(* Every variable has its type, whatever the application does. *)
THEOREM TypeCorrect == Spec => []TypeOK
<1>1. Init => TypeOK
  <2> SUFFICES ASSUME Init PROVE TypeOK
    OBVIOUS
  <2>1. NoTag \in Tags /\ MaxIds \in Nat
    BY BoundAssumption DEF NoTag, Tag, Tags
  <2>2. QED
    BY <2>1 DEF Init, TypeOK
<1>2. TypeOK /\ [Next]_vars => TypeOK'
  <2>1. TypeOK /\ UNCHANGED vars => TypeOK'
    BY DEF TypeOK, vars, channelVars, clientVars, serverVars, answerVars
  <2>2. QED
    BY <2>1, ClientTypeStep, ServerTypeStep, AnswerTypeStep DEF Next
<1>3. QED
  BY <1>1, <1>2, PTL DEF Spec

-----------------------------------------------------------------------------
(* The client: answers are those of the requests they are given to *)

(* The members of the tag of a request. *)
LEMMA TagTypes ==
  ASSUME TypeOK, NEW r \in Requests
  PROVE  /\ tag[r] \in Tags /\ tag[r].id \in 0 .. MaxIds /\ tag[r].serial \in 0 .. MaxSerial
         /\ tag[r].number \in Nat /\ tag[r].write \in BOOLEAN
<1>1. tag[r] \in Tags
  BY DEF TypeOK
<1>2. \A t \in Tags : /\ t.id \in 0 .. MaxIds /\ t.serial \in 0 .. MaxSerial
                     /\ t.number \in Nat /\ t.write \in BOOLEAN
  BY DEF Tags
<1>3. QED
  BY <1>1, <1>2

(* Tags with the same members are the same. *)
LEMMA SameTags ==
  \A t, u \in Tags : /\ t.id = u.id /\ t.serial = u.serial
                    /\ t.number = u.number /\ t.write = u.write => t = u
<1>1. \A t \in Tags : t = [id |-> t.id, serial |-> t.serial, number |-> t.number,
                          write |-> t.write]
  BY DEF Tags
<1>2. QED
  BY <1>1

(* Answering requests of the client. *)
LEMMA CallsFacts ==
  ASSUME TypeOK, ClientInv, AnswersAreOwn, NEW rs \in SUBSET requests,
         NEW status \in {"SUCCESS", "UNKNOWN", "ERROR"}, NEW from \in Tags,
         requests' = requests \ rs, Call(rs, status, from), UNCHANGED tag,
         status # "UNKNOWN" => \A r \in rs : tag[r] = from
  PROVE  /\ requests' = {r \in Requests : answer'[r] = "waiting"}
         /\ \A r \in Requests : Used(r)' <=> Used(r)
         /\ AnswersAreOwn'
<1>1. \A r \in Requests :
        /\ answer'[r] = IF r \in rs THEN status ELSE answer[r]
        /\ calls'[r] = IF r \in rs THEN calls[r] + 1 ELSE calls[r]
        /\ source'[r] = IF r \in rs THEN from ELSE source[r]
  BY DEF Call
<1>2. \A r \in rs : r \in Requests /\ answer[r] = "waiting"
  BY DEF ClientInv, TypeOK
<1>3. requests' = {r \in Requests : answer'[r] = "waiting"}
  BY <1>1 DEF ClientInv
<1>4. \A r \in Requests : Used(r)' <=> Used(r)
  BY <1>1, <1>2 DEF Used
<1>5. AnsweredOnce'
  <2> SUFFICES ASSUME NEW r \in Requests
               PROVE  calls'[r] = IF answer'[r] \in {"unused", "waiting"} THEN 0 ELSE 1
    BY DEF AnsweredOnce
  <2>1. calls[r] = IF answer[r] \in {"unused", "waiting"} THEN 0 ELSE 1
    BY DEF AnswersAreOwn, AnsweredOnce
  <2>2. QED
    BY <1>1, <1>2, <2>1
<1>6. OwnAnswer'
  <2> SUFFICES ASSUME NEW r \in Requests, answer'[r] \in {"SUCCESS", "ERROR"}
               PROVE  source'[r] = tag[r]
    BY DEF OwnAnswer
  <2>1. answer[r] \in {"SUCCESS", "ERROR"} => source[r] = tag[r]
    BY DEF AnswersAreOwn, OwnAnswer
  <2>2. QED
    BY <1>1, <2>1
<1>7. QED
  BY <1>3, <1>4, <1>5, <1>6 DEF AnswersAreOwn

(* Steps that give no tag. *)
LEMMA ClientKept ==
  ASSUME TypeOK, TypeOK', ClientInv, UNCHANGED tag,
         requests' = {r \in Requests : answer'[r] = "waiting"}, requests' \subseteq requests,
         \A r \in Requests : Used(r)' <=> Used(r),
         \A id \in DOMAIN mObjects :
           /\ id \in DOMAIN mObjects'
           /\ \/ /\ mObjects'[id].serial = mObjects[id].serial
                 /\ mObjects'[id].requestSerial = mObjects[id].requestSerial
              \/ mObjects[id].serial < mObjects'[id].serial,
         \A r \in requests' : /\ Live(tag[r].id)'
                              /\ mObjects'[tag[r].id].serial = mObjects[tag[r].id].serial
  PROVE  ClientInv'
<1>1. \A r \in requests' : Live(tag[r].id)' /\ tag[r].serial = mObjects'[tag[r].id].serial
  BY DEF ClientInv
<1>2. ASSUME NEW r \in Requests, Used(r)'
      PROVE  /\ tag[r].id \in DOMAIN mObjects'
             /\ tag[r].serial <= mObjects'[tag[r].id].serial
             /\ tag[r].serial = mObjects'[tag[r].id].serial
                  => tag[r].number < mObjects'[tag[r].id].requestSerial
  <2> DEFINE id == tag[r].id
  <2>1. /\ id \in DOMAIN mObjects
        /\ tag[r].serial <= mObjects[id].serial
        /\ tag[r].serial = mObjects[id].serial => tag[r].number < mObjects[id].requestSerial
    BY <1>2 DEF ClientInv
  <2>2. tag[r].serial \in Nat /\ mObjects[id].serial \in Nat /\ mObjects'[id].serial \in Nat
    <3>1. id \in DOMAIN mObjects'
      BY <2>1
    <3>2. mObjects[id] \in Objects /\ mObjects'[id] \in Objects
      BY <2>1, <3>1, ElementOfSeq, LenProperties DEF TypeOK
    <3>3. QED
      BY <3>2, TagTypes, BoundAssumption DEF Objects
  <2> HIDE DEF id
  <2>3. /\ id \in DOMAIN mObjects'
        /\ \/ /\ mObjects'[id].serial = mObjects[id].serial
              /\ mObjects'[id].requestSerial = mObjects[id].requestSerial
           \/ mObjects[id].serial < mObjects'[id].serial
    BY <2>1
  <2>4. QED
    BY <2>1, <2>2, <2>3 DEF id
<1>3. \A r, s \in Requests :
       /\ Used(r)' /\ Used(s)' /\ r # s
       /\ tag[r].id = tag[s].id /\ tag[r].serial = tag[s].serial
       => tag[r].number # tag[s].number
  BY DEF ClientInv
<1>4. QED
  BY <1>1, <1>2, <1>3 DEF ClientInv

ClientSafe == ClientInv /\ AnswersAreOwn

(* Creating a buffer. *)
LEMMA CreateClientStep ==
  ASSUME TypeOK, TypeOK', ClientSafe, CreateBuffer
  PROVE  ClientSafe'
<1>1. UNCHANGED <<answerVars, requests, tag>>
  BY DEF CreateBuffer
<1>2. AnswersAreOwn'
  BY <1>1 DEF ClientSafe, AnswersAreOwn, AnsweredOnce, OwnAnswer, answerVars
<1>3. /\ requests' = {r \in Requests : answer'[r] = "waiting"}
      /\ \A r \in Requests : Used(r)' <=> Used(r)
  BY <1>1 DEF ClientSafe, ClientInv, Used, answerVars
<1>4. \A r \in requests : tag[r].id \in DOMAIN mObjects /\ mObjects[tag[r].id].live
  BY DEF ClientSafe, ClientInv, Live
<1>5. ASSUME NEW id \in DOMAIN mObjects, ~mObjects[id].live,
             ObjectsSet(id, NewObject(mObjects[id].serial + 1))
      PROVE  ClientInv'
  <2>1. mObjects[id].serial < mObjects'[id].serial
    <3>1. mObjects[id] \in Objects
      BY ElementOfSeq, LenProperties DEF TypeOK
    <3>2. QED
      BY <1>5, <3>1, BoundAssumption DEF ObjectsSet, NewObject, Objects
  <2>2. \A r \in requests : tag[r].id # id
    BY <1>4, <1>5
  <2>3. \A j \in DOMAIN mObjects : j \in DOMAIN mObjects' /\ (j # id => mObjects'[j] = mObjects[j])
    BY <1>5 DEF ObjectsSet
  <2>4. \A r \in requests : Live(tag[r].id)' /\ mObjects'[tag[r].id] = mObjects[tag[r].id]
    BY <1>1, <1>4, <2>2, <2>3 DEF Live
  <2>5. QED
    BY <1>1, <1>3, <2>1, <2>3, <2>4, ClientKept DEF ClientSafe
<1>6. ASSUME NewObject(0) \in Objects, mObjects' = Append(mObjects, NewObject(0))
      PROVE  ClientInv'
  <2>1. \A j \in DOMAIN mObjects : j \in DOMAIN mObjects' /\ mObjects'[j] = mObjects[j]
    BY <1>6, Appended DEF TypeOK
  <2>2. \A r \in requests : Live(tag[r].id)' /\ mObjects'[tag[r].id] = mObjects[tag[r].id]
    BY <1>1, <1>4, <2>1 DEF Live
  <2>3. QED
    BY <1>1, <1>3, <2>1, <2>2, ClientKept DEF ClientSafe
<1>7. ClientInv'
  BY <1>5, <1>6, CreateFacts
<1>8. QED
  BY <1>2, <1>7 DEF ClientSafe

(* Requesting a mapping gives a tag that no request has. *)
LEMMA MapClientStep ==
  ASSUME TypeOK, TypeOK', ClientSafe, NEW id \in Ids, NEW r \in Requests,
         NEW write \in BOOLEAN, MapAsync(id, r, write)
  PROVE  ClientSafe'
<1> DEFINE o == mObjects[id]
           t == Tag(id, o.serial, o.requestSerial, write)
<1>1. /\ Live(id) /\ answer[r] = "unused"
      /\ tag' = [tag EXCEPT ![r] = t]
      /\ ObjectsSet(id, [o EXCEPT !.requestSerial = @ + 1])
  BY MapFacts
<1>2. /\ requests' = requests \cup {r}
      /\ answer' = [answer EXCEPT ![r] = "waiting"]
      /\ UNCHANGED <<calls, source>>
  BY DEF MapAsync
<1>3. /\ o \in Objects /\ o.serial \in Nat /\ o.requestSerial \in Nat /\ o.live
      /\ id \in DOMAIN mObjects
  <2>1. /\ o \in Objects /\ o.serial \in 0 .. MaxSerial /\ o.requestSerial \in Nat
        /\ o.live = TRUE /\ id \in DOMAIN mObjects
    BY <1>1, LiveFacts
  <2>2. QED
    BY <2>1, BoundAssumption
<1>4. \A s \in Requests : /\ tag'[s] = IF s = r THEN t ELSE tag[s]
                          /\ answer'[s] = IF s = r THEN "waiting" ELSE answer[s]
                          /\ Used(s)' <=> s = r \/ Used(s)
  BY <1>1, <1>2 DEF TypeOK, Used
<1>5. DOMAIN mObjects' = DOMAIN mObjects
      /\ \A j \in DOMAIN mObjects :
           /\ mObjects'[j].live = mObjects[j].live /\ mObjects'[j].serial = mObjects[j].serial
           /\ mObjects'[j].requestSerial = IF j = id THEN o.requestSerial + 1
                                           ELSE mObjects[j].requestSerial
  BY <1>1, <1>3 DEF ObjectsSet, Objects
<1>6. t.id = id /\ t.serial = o.serial /\ t.number = o.requestSerial
  BY DEF Tag
<1> HIDE DEF t, o
<1>7. requests' = {s \in Requests : answer'[s] = "waiting"}
  BY <1>2, <1>4 DEF ClientSafe, ClientInv
<1>8. \A s \in requests' : Live(tag[s].id)' /\ tag'[s].serial = mObjects'[tag'[s].id].serial
  <2> SUFFICES ASSUME NEW s \in requests'
               PROVE  Live(tag[s].id)' /\ tag'[s].serial = mObjects'[tag'[s].id].serial
    OBVIOUS
  <2>1. s \in Requests
    BY <1>7
  <2>2. CASE s = r
    BY <1>1, <1>3, <1>4, <1>5, <1>6, <2>1, <2>2 DEF Live, o
  <2>3. CASE s # r
    <3>1. s \in requests /\ tag'[s] = tag[s]
      BY <1>2, <1>4, <2>1, <2>3
    <3>2. QED
      BY <1>5, <3>1 DEF Live, ClientSafe, ClientInv
  <2>4. QED
    BY <2>2, <2>3
<1>9. ASSUME NEW s \in Requests, Used(s)'
      PROVE  /\ tag'[s].id \in DOMAIN mObjects'
             /\ tag'[s].serial <= mObjects'[tag'[s].id].serial
             /\ tag'[s].serial = mObjects'[tag'[s].id].serial
                  => tag'[s].number < mObjects'[tag'[s].id].requestSerial
  <2>1. CASE s = r
    BY <1>3, <1>4, <1>5, <1>6, <2>1 DEF o
  <2>2. CASE s # r
    <3>1. /\ tag'[s] = tag[s] /\ tag[s].id \in DOMAIN mObjects
          /\ tag[s].serial <= mObjects[tag[s].id].serial
          /\ tag[s].serial = mObjects[tag[s].id].serial
               => tag[s].number < mObjects[tag[s].id].requestSerial
      BY <1>4, <1>9, <2>2 DEF ClientSafe, ClientInv
    <3>2. tag[s].number \in Nat
      BY TagTypes
    <3>3. CASE tag[s].id = id
      BY <1>3, <1>5, <3>1, <3>2, <3>3 DEF o
    <3>4. CASE tag[s].id # id
      BY <1>5, <3>1, <3>4
    <3>5. QED
      BY <3>3, <3>4
  <2>3. QED
    BY <2>1, <2>2
<1>10. ASSUME NEW s \in Requests, Used(s), tag[s].id = id, tag[s].serial = o.serial
       PROVE  tag[s].number < o.requestSerial /\ tag[s].number \in Nat
  BY <1>10, TagTypes DEF ClientSafe, ClientInv, o
<1>11. ASSUME NEW s \in Requests, NEW u \in Requests, Used(s)', Used(u)', s # u,
              tag'[s].id = tag'[u].id, tag'[s].serial = tag'[u].serial
       PROVE  tag'[s].number # tag'[u].number
  <2>1. CASE s = r
    <3>1. /\ Used(u) /\ tag'[u] = tag[u] /\ tag[u].id = id /\ tag[u].serial = o.serial
          /\ tag'[s].number = o.requestSerial
      BY <1>4, <1>6, <1>11, <2>1
    <3>2. QED
      BY <1>3, <1>10, <3>1
  <2>2. CASE u = r
    <3>1. /\ Used(s) /\ tag'[s] = tag[s] /\ tag[s].id = id /\ tag[s].serial = o.serial
          /\ tag'[u].number = o.requestSerial
      BY <1>4, <1>6, <1>11, <2>2
    <3>2. QED
      BY <1>3, <1>10, <3>1
  <2>3. CASE s # r /\ u # r
    BY <1>4, <1>11, <2>3 DEF ClientSafe, ClientInv
  <2>4. QED
    BY <2>1, <2>2, <2>3
<1>12. ClientInv'
  BY <1>7, <1>8, <1>9, <1>11 DEF ClientInv
<1>13. AnswersAreOwn'
  <2>1. AnsweredOnce'
    BY <1>1, <1>2, <1>4 DEF ClientSafe, AnswersAreOwn, AnsweredOnce
  <2>2. OwnAnswer'
    BY <1>2, <1>4 DEF ClientSafe, AnswersAreOwn, OwnAnswer
  <2>3. QED
    BY <2>1, <2>2 DEF AnswersAreOwn
<1>14. QED
  BY <1>12, <1>13 DEF ClientSafe

(* Unmap and Release cancel the requests of the buffer. *)
LEMMA ClearClientStep ==
  ASSUME TypeOK, TypeOK', ClientSafe, NEW id \in Ids, Unmap(id) \/ Release(id)
  PROVE  ClientSafe'
<1> DEFINE o == mObjects[id]
           o1 == [o EXCEPT !.mapped = NoRequest]
           o2 == [o EXCEPT !.live = FALSE, !.mapped = NoRequest]
<1>1. Live(id) /\ (ObjectsSet(id, o1) \/ ObjectsSet(id, o2))
  BY UnmapFacts, ReleaseFacts
<1>2. ClearMapRequests(id) /\ UNCHANGED tag /\ NoTag \in Tags
  BY ServerTypes DEF Unmap, Release
<1>3. RequestsOf(id) \in SUBSET requests /\ requests' = requests \ RequestsOf(id)
      /\ Call(RequestsOf(id), "UNKNOWN", NoTag)
  BY <1>2 DEF ClearMapRequests, Cleared, RequestsOf
<1>4. /\ requests' = {r \in Requests : answer'[r] = "waiting"}
      /\ \A r \in Requests : Used(r)' <=> Used(r)
      /\ AnswersAreOwn'
  BY <1>2, <1>3, CallsFacts DEF ClientSafe
<1>5. id \in DOMAIN mObjects /\ o \in Objects
  BY <1>1, LiveFacts
<1>6. /\ DOMAIN mObjects' = DOMAIN mObjects
      /\ \A j \in DOMAIN mObjects :
           /\ mObjects'[j].serial = mObjects[j].serial
           /\ mObjects'[j].requestSerial = mObjects[j].requestSerial
           /\ j # id => mObjects'[j].live = mObjects[j].live
  <2>1. o1.serial = o.serial /\ o1.requestSerial = o.requestSerial
        /\ o2.serial = o.serial /\ o2.requestSerial = o.requestSerial
    BY <1>5 DEF Objects
  <2> HIDE DEF o1, o2
  <2>2. QED
    BY <1>1, <2>1 DEF ObjectsSet
<1>7. \A r \in requests' : /\ Live(tag[r].id)'
                           /\ mObjects'[tag[r].id].serial = mObjects[tag[r].id].serial
  <2> SUFFICES ASSUME NEW r \in requests'
               PROVE  /\ Live(tag[r].id)'
                      /\ mObjects'[tag[r].id].serial = mObjects[tag[r].id].serial
    OBVIOUS
  <2>1. r \in requests /\ tag[r].id # id /\ Live(tag[r].id)
    BY <1>3 DEF RequestsOf, ClientSafe, ClientInv
  <2>2. QED
    BY <1>2, <1>6, <2>1 DEF Live
<1>8. ClientInv'
  BY <1>2, <1>3, <1>4, <1>6, <1>7, ClientKept DEF ClientSafe
<1>9. QED
  BY <1>4, <1>8 DEF ClientSafe

(* The answer that a request gets has its tag. *)
LEMMA AnswerClientStep ==
  ASSUME TypeOK, TypeOK', ClientSafe, ClientHandles
  PROVE  ClientSafe'
<1> DEFINE a == Head(returns)
<1>1. a \in Returns /\ UNCHANGED tag /\ a.tag \in Tags
      /\ a.status \in {"SUCCESS", "UNKNOWN", "ERROR"}
  BY AnswerFacts DEF Returns
<1>2. CASE UNCHANGED <<mObjects, requests, answerVars>>
  BY <1>1, <1>2 DEF ClientSafe, ClientInv, AnswersAreOwn, AnsweredOnce, OwnAnswer, Used, Live,
                    answerVars
<1>3. ASSUME NEW r \in requests,
             Live(a.tag.id), mObjects[a.tag.id].serial = a.tag.serial,
             tag[r].id = a.tag.id, tag[r].number = a.tag.number, tag[r].write = a.tag.write,
             requests' = requests \ {r}, Call({r}, a.status, a.tag),
             \/ UNCHANGED mObjects
             \/ ObjectsSet(a.tag.id, [mObjects[a.tag.id] EXCEPT !.mapped = r])
      PROVE  ClientSafe'
  <2> DEFINE o == mObjects[a.tag.id]
             o1 == [o EXCEPT !.mapped = r]
  <2>1. o \in Objects
    BY <1>3, LiveFacts
  <2>2. o1.live = o.live /\ o1.serial = o.serial /\ o1.requestSerial = o.requestSerial
    BY <2>1 DEF Objects
  <2>3. r \in Requests /\ tag[r] = a.tag
    <3>1. r \in Requests /\ tag[r].serial = a.tag.serial
      BY <1>3 DEF ClientSafe, ClientInv, TypeOK
    <3>2. QED
      BY <1>1, <1>3, <3>1, TagTypes, SameTags
  <2> HIDE DEF a, o1, o
  <2>4. /\ requests' = {s \in Requests : answer'[s] = "waiting"}
        /\ \A s \in Requests : Used(s)' <=> Used(s)
        /\ AnswersAreOwn'
    BY <1>1, <1>3, <2>3, CallsFacts DEF ClientSafe
  <2>5. /\ DOMAIN mObjects' = DOMAIN mObjects
        /\ \A j \in DOMAIN mObjects :
             /\ mObjects'[j].serial = mObjects[j].serial
             /\ mObjects'[j].requestSerial = mObjects[j].requestSerial
             /\ mObjects'[j].live = mObjects[j].live
    BY <1>3, <2>2 DEF ObjectsSet, o1, o
  <2>6. \A s \in requests' : /\ Live(tag[s].id)'
                             /\ mObjects'[tag[s].id].serial = mObjects[tag[s].id].serial
    BY <1>1, <1>3, <2>5 DEF Live, ClientSafe, ClientInv
  <2>7. ClientInv'
    BY <1>1, <1>3, <2>4, <2>5, <2>6, ClientKept DEF ClientSafe
  <2>8. QED
    BY <2>4, <2>7 DEF ClientSafe
<1>4. \/ UNCHANGED <<mObjects, requests, answerVars>>
      \/ \E r \in requests :
           /\ Live(a.tag.id) /\ mObjects[a.tag.id].serial = a.tag.serial
           /\ tag[r].id = a.tag.id /\ tag[r].number = a.tag.number
           /\ tag[r].write = a.tag.write
           /\ requests' = requests \ {r}
           /\ Call({r}, a.status, a.tag)
           /\ \/ UNCHANGED mObjects
              \/ ObjectsSet(a.tag.id, [mObjects[a.tag.id] EXCEPT !.mapped = r])
  BY AnswerFacts
<1> HIDE DEF a
<1>5. QED
  BY <1>2, <1>3, <1>4

(* Every step keeps what the client relies on. *)
LEMMA ClientStep == TypeOK /\ TypeOK' /\ ClientSafe /\ [Next]_vars => ClientSafe'
<1>1. TypeOK /\ TypeOK' /\ ClientSafe /\ ClientCalls => ClientSafe'
  BY CreateClientStep, MapClientStep, ClearClientStep DEF ClientCalls, Ids
<1>2. ClientSafe /\ (ServerHandles \/ BackendWorks \/ UNCHANGED vars) => ClientSafe'
  <2>1. ServerHandles \/ BackendWorks \/ UNCHANGED vars => UNCHANGED <<clientVars, answerVars>>
    BY DEF ServerHandles, BackendWorks, BackendCompletes, vars
  <2>2. ClientSafe /\ UNCHANGED <<clientVars, answerVars>> => ClientSafe'
    BY DEF ClientSafe, ClientInv, AnswersAreOwn, AnsweredOnce, OwnAnswer, Used, Live,
           clientVars, answerVars
  <2>3. QED
    BY <2>1, <2>2
<1>3. QED
  BY <1>1, <1>2, AnswerClientStep DEF Next

(* A request is answered at most once and with the answer the server gave   *)
(* to it, whatever is reused, cancelled and released.                       *)
THEOREM AnswersOwn == Spec => [](ClientInv /\ AnswersAreOwn)
<1>1. Init => ClientSafe
  BY DEF Init, ClientSafe, ClientInv, AnswersAreOwn, AnsweredOnce, OwnAnswer, Used
<1>2. QED
  BY <1>1, ClientStep, TypeCorrect, PTL DEF Spec, ClientSafe

-----------------------------------------------------------------------------
(* The queue: a command is added *)

(* The domains of the queue and of its views. *)
LEMMA TraceDomains ==
  ASSUME NEW q \in Seq(Commands), NEW v, NEW server, NEW client, Trace(q, v, server, client)
  PROVE  /\ v \in Seq(View) /\ Len(q) \in Nat /\ Len(v) = Len(q) + 1
         /\ DOMAIN q = 1 .. Len(q) /\ DOMAIN v = 1 .. (Len(q) + 1)
         /\ \A i \in DOMAIN q : /\ i \in Nat /\ i \in DOMAIN v /\ i + 1 \in DOMAIN v
                                /\ q[i] \in Commands /\ q[i].id \in Ids
         /\ \A i \in DOMAIN v : i \in Nat /\ v[i] \in View /\ v[i].size \in Nat
<1>1. v \in Seq(View) /\ Len(v) = Len(q) + 1
  BY DEF Trace
<1>2. Len(q) \in Nat /\ DOMAIN q = 1 .. Len(q) /\ DOMAIN v = 1 .. (Len(q) + 1)
  BY <1>1, LenProperties
<1>3. \A i \in DOMAIN q : q[i] \in Commands /\ q[i].id \in Ids
  BY <1>2, ElementOfSeq DEF Commands, Ids
<1>4. \A i \in DOMAIN v : v[i] \in View
  BY <1>1, <1>2, ElementOfSeq
<1>5. \A i \in DOMAIN v : i \in Nat /\ v[i].size \in Nat
  BY <1>2, <1>4 DEF View
<1>6. \A i \in DOMAIN q : i \in Nat /\ i \in DOMAIN v /\ i + 1 \in DOMAIN v
  BY <1>2
<1>7. QED
  BY <1>1, <1>2, <1>3, <1>4, <1>5, <1>6

(* The new command leads from the client's view to its next one. *)
LEMMA PushTrace ==
  ASSUME NEW q \in Seq(Commands), NEW v, NEW server, NEW client, Trace(q, v, server, client),
         NEW c \in Commands, NEW w \in View, ViewStep(client, c, w), client.size <= w.size,
         \A id \in Ids : ~IsLife(c, id) => /\ id \in client.known <=> id \in w.known
                                           /\ client.serial[id] = w.serial[id]
  PROVE  Trace(Append(q, c), Append(v, w), server, w)
<1> DEFINE q1 == Append(q, c)
           v1 == Append(v, w)
           n == Len(q)
<1>1. /\ v \in Seq(View) /\ n \in Nat /\ Len(v) = n + 1
      /\ DOMAIN q = 1 .. n /\ DOMAIN v = 1 .. (n + 1)
      /\ \A i \in DOMAIN q : i \in Nat /\ i \in DOMAIN v /\ i + 1 \in DOMAIN v
      /\ \A i \in DOMAIN v : i \in Nat /\ v[i] \in View /\ v[i].size \in Nat
  BY TraceDomains
<1>2. /\ v[1] = server /\ v[n + 1] = client
      /\ \A i \in DOMAIN q : ViewStep(v[i], q[i], v[i + 1])
      /\ \A i \in DOMAIN v : v[i].size <= client.size
      /\ \A i \in DOMAIN v, id \in Ids :
           (\A j \in DOMAIN q : j >= i => ~IsLife(q[j], id)) =>
             /\ id \in v[i].known <=> id \in client.known
             /\ v[i].serial[id] = client.serial[id]
  BY DEF Trace
<1>3. /\ DOMAIN q1 = DOMAIN q \cup {n + 1} /\ Len(q1) = n + 1
      /\ q1[n + 1] = c /\ \A j \in DOMAIN q : q1[j] = q[j]
  BY Appended
<1>4. /\ v1 \in Seq(View) /\ DOMAIN v1 = DOMAIN v \cup {n + 2} /\ Len(v1) = n + 2
      /\ v1[n + 2] = w /\ \A j \in DOMAIN v : v1[j] = v[j]
  <2>1. LET p == Append(v, w) IN
         /\ p \in Seq(View) /\ Len(p) = Len(v) + 1
         /\ DOMAIN p = DOMAIN v \cup {Len(v) + 1}
         /\ p[Len(v) + 1] = w /\ \A j \in DOMAIN v : p[j] = v[j]
    BY <1>1, Appended
  <2>2. (n + 1) + 1 = n + 2
    BY <1>1
  <2>3. QED
    BY <1>1, <2>1, <2>2
<1>5. w.size \in Nat /\ client.size \in Nat
  <2>1. n + 1 \in DOMAIN v
    BY <1>1
  <2>2. QED
    BY <1>1, <1>2, <2>1 DEF View
<1> HIDE DEF q1, v1, n
<1>6. ASSUME NEW i \in DOMAIN q1 PROVE ViewStep(v1[i], q1[i], v1[i + 1])
  <2>1. CASE i \in DOMAIN q
    BY <1>1, <1>2, <1>3, <1>4, <2>1
  <2>2. CASE i = n + 1
    <3>1. i \in DOMAIN v /\ i + 1 = n + 2
      BY <1>1, <2>2
    <3>2. v1[i] = client /\ q1[i] = c /\ v1[i + 1] = w
      BY <1>2, <1>3, <1>4, <2>2, <3>1
    <3>3. QED
      BY <3>2
  <2>3. QED
    BY <1>3, <2>1, <2>2
<1>7. ASSUME NEW i \in DOMAIN v1 PROVE v1[i].size <= w.size
  <2>1. CASE i \in DOMAIN v
    BY <1>1, <1>2, <1>4, <1>5, <2>1
  <2>2. CASE i = n + 2
    BY <1>4, <1>5, <2>2
  <2>3. QED
    BY <1>4, <2>1, <2>2
<1>8. ASSUME NEW i \in DOMAIN v1, NEW id \in Ids,
             \A j \in DOMAIN q1 : j >= i => ~IsLife(q1[j], id)
      PROVE  (id \in v1[i].known <=> id \in w.known) /\ v1[i].serial[id] = w.serial[id]
  <2>1. CASE i \in DOMAIN v
    <3>1. \A j \in DOMAIN q : j >= i => ~IsLife(q[j], id)
      BY <1>3, <1>8
    <3>2. ~IsLife(c, id)
      <4>1. n + 1 \in DOMAIN q1 /\ n + 1 >= i
        BY <1>1, <1>3, <2>1
      <4>2. QED
        BY <1>3, <1>8, <4>1
    <3>3. QED
      BY <1>2, <1>4, <2>1, <3>1, <3>2
  <2>2. CASE i = n + 2
    BY <1>4, <2>2
  <2>3. QED
    BY <1>4, <2>1, <2>2
<1>9. v1[1] = server /\ Len(v1) = Len(q1) + 1 /\ v1[Len(q1) + 1] = w
  <2>1. 1 \in DOMAIN v /\ (n + 1) + 1 = n + 2
    BY <1>1
  <2>2. QED
    BY <1>2, <1>3, <1>4, <2>1
<1>10. QED
  BY <1>4, <1>6, <1>7, <1>8, <1>9 DEF Trace, q1, v1

(* What a queue with one more command has in common with it. *)
LEMMA PushFacts ==
  ASSUME NEW q \in Seq(Commands), NEW v, NEW server, NEW client, Trace(q, v, server, client),
         NEW c \in Commands, NEW w \in View
  PROVE  LET q1 == Append(q, c)
             v1 == Append(v, w)
             n == Len(q)
         IN
         /\ n \in Nat /\ DOMAIN q = 1 .. n /\ DOMAIN q1 = DOMAIN q \cup {n + 1}
         /\ n + 1 \notin DOMAIN q
         /\ q1[n + 1] = c /\ \A i \in DOMAIN q : q1[i] = q[i]
         /\ \A i \in DOMAIN q : i \in Nat /\ 0 < i /\ i < n + 1
         /\ \A i \in DOMAIN q : MapTag(q1, v1, i) = MapTag(q, v, i)
         /\ MapTag(q1, v1, n + 1) = Tag(c.id, client.serial[c.id], c.arg, c.op = "mapWrite")
         /\ v1[1] = v[1]
<1> DEFINE q1 == Append(q, c)
           v1 == Append(v, w)
           n == Len(q)
<1>1. /\ v \in Seq(View) /\ n \in Nat /\ Len(v) = n + 1
      /\ DOMAIN q = 1 .. n /\ DOMAIN v = 1 .. (n + 1)
  BY TraceDomains
<1>2. v[n + 1] = client
  BY DEF Trace
<1>3. /\ DOMAIN q1 = DOMAIN q \cup {n + 1} /\ n + 1 \notin DOMAIN q
      /\ q1[n + 1] = c /\ \A j \in DOMAIN q : q1[j] = q[j]
  BY Appended
<1>4. \A j \in DOMAIN v : v1[j] = v[j]
  BY <1>1, Appended
<1> HIDE DEF q1, v1, n
<1>5. 1 \in DOMAIN v /\ n + 1 \in DOMAIN v
      /\ \A i \in DOMAIN q : i \in Nat /\ 0 < i /\ i < n + 1 /\ i \in DOMAIN v
  BY <1>1
<1>6. v1[1] = v[1] /\ v1[n + 1] = client
  BY <1>2, <1>4, <1>5
<1>7. \A i \in DOMAIN q : MapTag(q1, v1, i) = MapTag(q, v, i)
  BY <1>3, <1>4, <1>5 DEF MapTag
<1>8. MapTag(q1, v1, n + 1) = Tag(c.id, client.serial[c.id], c.arg, c.op = "mapWrite")
  BY <1>3, <1>6 DEF MapTag
<1>9. QED
  BY <1>1, <1>3, <1>5, <1>6, <1>7, <1>8 DEF q1, v1, n

(* A new map command has a tag of its own. *)
LEMMA PushTags ==
  ASSUME NEW q \in Seq(Commands), NEW v, NEW server, NEW client, Trace(q, v, server, client),
         NEW c \in Commands, NEW w \in View,
         NEW ms, NEW ret, NEW used, NEW used1, TagsInv(q, v, ms, ret, used),
         used \subseteq used1,
         IsMap(c) => Tag(c.id, client.serial[c.id], c.arg, c.op = "mapWrite") \in used1 \ used
  PROVE  TagsInv(Append(q, c), Append(v, w), ms, ret, used1)
<1> DEFINE q1 == Append(q, c)
           v1 == Append(v, w)
           n == Len(q)
           t == Tag(c.id, client.serial[c.id], c.arg, c.op = "mapWrite")
<1>1. /\ DOMAIN q1 = DOMAIN q \cup {n + 1} /\ n + 1 \notin DOMAIN q
      /\ q1[n + 1] = c /\ \A i \in DOMAIN q : q1[i] = q[i]
      /\ \A i \in DOMAIN q : MapTag(q1, v1, i) = MapTag(q, v, i)
      /\ MapTag(q1, v1, n + 1) = t
  BY PushFacts
<1>2. /\ \A i \in DOMAIN q : IsMap(q[i]) =>
           /\ MapTag(q, v, i) \in used
           /\ \A m \in ms : m.tag # MapTag(q, v, i)
           /\ \A k \in DOMAIN ret : ret[k].tag # MapTag(q, v, i)
           /\ \A j \in DOMAIN q : IsMap(q[j]) /\ MapTag(q, v, j) = MapTag(q, v, i) => j = i
      /\ \A m \in ms : m.tag \in used
      /\ \A k \in DOMAIN ret : /\ ret[k].tag \in used
                               /\ \A m \in ms : m.waiting => m.tag # ret[k].tag
  BY DEF TagsInv
<1>3. IsMap(c) => t \in used1 /\ t \notin used
  OBVIOUS
<1> HIDE DEF q1, v1, n, t
<1>4. ASSUME NEW i \in DOMAIN q1, IsMap(q1[i])
      PROVE  /\ MapTag(q1, v1, i) \in used1
             /\ \A m \in ms : m.tag # MapTag(q1, v1, i)
             /\ \A k \in DOMAIN ret : ret[k].tag # MapTag(q1, v1, i)
             /\ \A j \in DOMAIN q1 : IsMap(q1[j]) /\ MapTag(q1, v1, j) = MapTag(q1, v1, i)
                                       => j = i
  <2>1. CASE i \in DOMAIN q
    <3>1. IsMap(q[i]) /\ MapTag(q1, v1, i) = MapTag(q, v, i)
      BY <1>1, <1>4, <2>1
    <3>2. /\ MapTag(q, v, i) \in used
          /\ \A m \in ms : m.tag # MapTag(q, v, i)
          /\ \A k \in DOMAIN ret : ret[k].tag # MapTag(q, v, i)
          /\ \A j \in DOMAIN q : IsMap(q[j]) /\ MapTag(q, v, j) = MapTag(q, v, i) => j = i
      BY <1>2, <2>1, <3>1
    <3>3. ASSUME NEW j \in DOMAIN q1, IsMap(q1[j]), MapTag(q1, v1, j) = MapTag(q1, v1, i)
          PROVE  j = i
      <4>1. CASE j \in DOMAIN q
        BY <1>1, <3>1, <3>2, <3>3, <4>1
      <4>2. CASE j = n + 1
        BY <1>1, <1>3, <3>1, <3>2, <3>3, <4>2
      <4>3. QED
        BY <1>1, <4>1, <4>2
    <3>4. QED
      BY <3>1, <3>2, <3>3
  <2>2. CASE i = n + 1
    <3>1. MapTag(q1, v1, i) = t /\ t \in used1 /\ t \notin used
      BY <1>1, <1>3, <1>4, <2>2
    <3>2. ASSUME NEW j \in DOMAIN q1, IsMap(q1[j]), MapTag(q1, v1, j) = t
          PROVE  j = i
      BY <1>1, <1>2, <2>2, <3>1, <3>2
    <3>3. QED
      BY <1>2, <3>1, <3>2
  <2>3. QED
    BY <1>1, <2>1, <2>2
<1>5. QED
  BY <1>2, <1>4 DEF TagsInv, q1, v1

(* The requests that wait now were sent after the new command, or are it. *)
LEMMA PushAfterEnds ==
  ASSUME NEW q \in Seq(Commands), NEW v, NEW server, NEW client, Trace(q, v, server, client),
         NEW c \in Commands, NEW w \in View,
         NEW waiting, NEW waiting1, AfterEnds(q, v, waiting),
         \A t \in waiting1 :
           /\ ~EndsMapping(c, t.id)
           /\ \/ t \in waiting
              \/ IsMap(c) /\ t = Tag(c.id, client.serial[c.id], c.arg, c.op = "mapWrite")
  PROVE  AfterEnds(Append(q, c), Append(v, w), waiting1)
<1> DEFINE q1 == Append(q, c)
           v1 == Append(v, w)
           n == Len(q)
           new == Tag(c.id, client.serial[c.id], c.arg, c.op = "mapWrite")
<1>1. /\ DOMAIN q1 = DOMAIN q \cup {n + 1}
      /\ q1[n + 1] = c /\ \A i \in DOMAIN q : q1[i] = q[i]
      /\ \A i \in DOMAIN q : i < n + 1
      /\ \A i \in DOMAIN q : MapTag(q1, v1, i) = MapTag(q, v, i)
      /\ MapTag(q1, v1, n + 1) = new
  BY PushFacts
<1>2. \A t \in waiting1 : /\ ~EndsMapping(c, t.id)
                          /\ t \in waiting \/ (IsMap(c) /\ t = new)
  OBVIOUS
<1> HIDE DEF q1, v1, n, new
<1>3. ASSUME NEW t \in waiting1, NEW i \in DOMAIN q1, EndsMapping(q1[i], t.id)
      PROVE  \E j \in DOMAIN q1 : i < j /\ IsMap(q1[j]) /\ MapTag(q1, v1, j) = t
  <2>1. i \in DOMAIN q /\ EndsMapping(q[i], t.id)
    BY <1>1, <1>2, <1>3
  <2>2. CASE t \in waiting
    <3>1. PICK j \in DOMAIN q : i < j /\ IsMap(q[j]) /\ MapTag(q, v, j) = t
      BY <2>1, <2>2 DEF AfterEnds
    <3>2. QED
      BY <1>1, <3>1
  <2>3. CASE IsMap(c) /\ t = new
    BY <1>1, <2>1, <2>3
  <2>4. QED
    BY <1>2, <2>2, <2>3
<1>4. QED
  BY <1>3 DEF AfterEnds, q1, v1

(* An Unmap is in the queue for what the client stops to wait for. *)
LEMMA PushWrites ==
  ASSUME NEW q \in Seq(Commands), NEW v, NEW server, NEW client, Trace(q, v, server, client),
         NEW c \in Commands, NEW w \in View,
         NEW ms, NEW ret, NEW used, NEW waiting, NEW waiting1,
         TagsInv(q, v, ms, ret, used), AfterEnds(q, v, waiting), WritesInv(q, v, ms, waiting),
         \A t \in waiting : \/ t \in waiting1
                            \/ ~t.write
                            \/ c.op = "unmap" /\ c.id = t.id,
         c.op = "mapWrite" => Tag(c.id, client.serial[c.id], c.arg, TRUE) \in waiting1
  PROVE  WritesInv(Append(q, c), Append(v, w), ms, waiting1)
<1> DEFINE q1 == Append(q, c)
           v1 == Append(v, w)
           n == Len(q)
<1>1. /\ n \in Nat /\ DOMAIN q1 = DOMAIN q \cup {n + 1}
      /\ q1[n + 1] = c /\ \A i \in DOMAIN q : q1[i] = q[i]
      /\ \A i \in DOMAIN q : i \in Nat /\ 0 < i /\ i < n + 1
      /\ \A i \in DOMAIN q : MapTag(q1, v1, i) = MapTag(q, v, i)
      /\ MapTag(q1, v1, n + 1) = Tag(c.id, client.serial[c.id], c.arg, c.op = "mapWrite")
      /\ v1[1] = v[1]
  BY PushFacts
<1> HIDE DEF q1, v1, n
<1>2. ASSUME NEW t, t.write = TRUE, NEW j \in Nat, j < n + 1, Covered(q, j, t, waiting),
             t \in waiting => \A k \in DOMAIN q : j < k => ~EndsMapping(q[k], t.id)
      PROVE  Covered(q1, j, t, waiting1)
  <2>1. CASE UnmapBehind(q, j, t)
    <3>1. PICK i \in DOMAIN q : /\ j < i /\ q[i].op = "unmap" /\ q[i].id = t.id
                                /\ \A k \in DOMAIN q : j < k /\ k < i => ~IsLife(q[k], t.id)
      BY <2>1 DEF UnmapBehind
    <3>2. /\ i \in DOMAIN q1 /\ q1[i] = q[i]
          /\ \A k \in DOMAIN q1 : j < k /\ k < i => ~IsLife(q1[k], t.id)
      BY <1>1, <3>1
    <3>3. QED
      BY <3>1, <3>2 DEF Covered, UnmapBehind
  <2>2. CASE t \in waiting /\ t \in waiting1
    BY <2>2 DEF Covered
  <2>3. CASE t \in waiting /\ c.op = "unmap" /\ c.id = t.id
    <3>1. n + 1 \in DOMAIN q1 /\ q1[n + 1] = c
      BY <1>1
    <3>2. \A k \in DOMAIN q1 : j < k /\ k < n + 1 => ~IsLife(q1[k], t.id)
      BY <1>1, <1>2, <2>3 DEF IsLife, EndsMapping
    <3>3. QED
      BY <1>2, <2>3, <3>1, <3>2 DEF Covered, UnmapBehind
  <2>4. QED
    BY <1>2, <2>1, <2>2, <2>3 DEF Covered
<1>3. ASSUME NEW m \in ms, m.waiting, m.tag.write
      PROVE  /\ m.tag.id \in v1[1].known /\ v1[1].serial[m.tag.id] = m.tag.serial
             /\ Covered(q1, 0, m.tag, waiting1)
  <2>1. /\ m.tag.id \in v[1].known /\ v[1].serial[m.tag.id] = m.tag.serial
        /\ Covered(q, 0, m.tag, waiting)
    BY <1>3 DEF WritesInv
  <2>2. m.tag \in waiting => \A k \in DOMAIN q : ~EndsMapping(q[k], m.tag.id)
    BY DEF AfterEnds, TagsInv
  <2>3. 0 \in Nat /\ 0 < n + 1 /\ m.tag.write = TRUE
    BY <1>1, <1>3
  <2>4. Covered(q1, 0, m.tag, waiting1)
    BY <1>2, <2>1, <2>2, <2>3
  <2>5. QED
    BY <1>1, <2>1, <2>4
<1>4. ASSUME NEW j \in DOMAIN q1, q1[j].op = "mapWrite"
      PROVE  Covered(q1, j, MapTag(q1, v1, j), waiting1)
  <2>1. CASE j \in DOMAIN q
    <3> DEFINE t == MapTag(q, v, j)
    <3>1. q[j].op = "mapWrite" /\ IsMap(q[j]) /\ MapTag(q1, v1, j) = t
      BY <1>1, <1>4, <2>1 DEF IsMap
    <3>2. Covered(q, j, t, waiting) /\ t.write = TRUE
      BY <2>1, <3>1 DEF WritesInv, MapTag, Tag
    <3>3. ASSUME t \in waiting, NEW k \in DOMAIN q, j < k, EndsMapping(q[k], t.id)
          PROVE  FALSE
      <4>1. PICK i \in DOMAIN q : k < i /\ IsMap(q[i]) /\ MapTag(q, v, i) = t
        BY <3>3 DEF AfterEnds
      <4>2. i = j
        BY <2>1, <3>1, <4>1 DEF TagsInv
      <4>3. QED
        BY <1>1, <2>1, <3>3, <4>1, <4>2
    <3> HIDE DEF t
    <3>4. Covered(q1, j, t, waiting1)
      BY <1>1, <1>2, <2>1, <3>2, <3>3
    <3>5. QED
      BY <3>1, <3>4
  <2>2. CASE j = n + 1
    <3>1. MapTag(q1, v1, j) \in waiting1
      BY <1>1, <1>4, <2>2
    <3>2. QED
      BY <3>1 DEF Covered
  <2>3. QED
    BY <1>1, <2>1, <2>2
<1>5. QED
  BY <1>3, <1>4 DEF WritesInv, q1, v1

(* What the application wrote is sent while the mapping lasts. *)
LEMMA PushUpdates ==
  ASSUME NEW q \in Seq(Commands), NEW c \in Commands, NEW known, UpdatesInv(q, known),
         c.op = "update" =>
           /\ \A j \in DOMAIN q : ~EndsMapping(q[j], c.id)
           /\ c.id \in DOMAIN known /\ known[c.id].allocated
           /\ known[c.id].mappedData # NoTag
           /\ known[c.id].mappedData.number = c.arg
  PROVE  UpdatesInv(Append(q, c), known)
<1> DEFINE q1 == Append(q, c)
           n == Len(q)
<1>1. /\ n \in Nat /\ DOMAIN q1 = DOMAIN q \cup {n + 1} /\ DOMAIN q = 1 .. n
      /\ q1[n + 1] = c /\ \A i \in DOMAIN q : q1[i] = q[i]
  BY Appended
<1> HIDE DEF q1, n
<1>2. ASSUME NEW i \in DOMAIN q1, q1[i].op = "update"
      PROVE  /\ \A j \in DOMAIN q1 : j < i => ~EndsMapping(q1[j], q1[i].id)
             /\ q1[i].id \in DOMAIN known /\ known[q1[i].id].allocated
             /\ known[q1[i].id].mappedData # NoTag
             /\ known[q1[i].id].mappedData.number = q1[i].arg
  <2>1. CASE i \in DOMAIN q
    <3>1. q1[i] = q[i] /\ \A j \in DOMAIN q1 : j < i => j \in DOMAIN q /\ q1[j] = q[j]
      BY <1>1, <2>1
    <3>2. QED
      BY <1>2, <2>1, <3>1 DEF UpdatesInv
  <2>2. CASE i = n + 1
    <3>1. q1[i] = c /\ \A j \in DOMAIN q1 : j < i => j \in DOMAIN q /\ q1[j] = q[j]
      BY <1>1, <2>2
    <3>2. QED
      BY <1>2, <3>1
  <2>3. QED
    BY <1>1, <2>1, <2>2
<1>3. QED
  BY <1>2 DEF UpdatesInv, q1

-----------------------------------------------------------------------------
(* The queue: the oldest command is handled *)

(* What a queue has in common with its tail. *)
LEMMA PopFacts ==
  ASSUME NEW q \in Seq(Commands), NEW v, NEW server, NEW client, Trace(q, v, server, client),
         q # <<>>
  PROVE  LET q1 == Tail(q)
             v1 == Tail(v)
             c == Head(q)
         IN
         /\ q1 \in Seq(Commands) /\ v1 \in Seq(View) /\ Len(v1) = Len(q1) + 1
         /\ c = q[1] /\ c \in Commands /\ c.id \in Ids /\ 1 \in DOMAIN q
         /\ \A i \in DOMAIN q1 : /\ i \in Nat /\ 0 < i /\ i + 1 \in DOMAIN q
                                 /\ q1[i] = q[i + 1]
                                 /\ MapTag(q1, v1, i) = MapTag(q, v, i + 1)
         /\ \A i \in DOMAIN v1 : /\ i \in Nat /\ 0 < i /\ i + 1 \in DOMAIN v
                                 /\ v1[i] = v[i + 1]
         /\ \A j \in DOMAIN q : j \in Nat /\ (j # 1 => /\ 1 < j /\ j - 1 \in DOMAIN q1
                                                       /\ (j - 1) + 1 = j)
         /\ v[1] = server /\ v1[1] = v[2] /\ v[2] \in View
         /\ MapTag(q, v, 1) = Tag(c.id, server.serial[c.id], c.arg, c.op = "mapWrite")
         /\ ViewStep(server, c, v[2])
<1> DEFINE q1 == Tail(q)
           v1 == Tail(v)
           c == Head(q)
           n == Len(q)
<1>1. /\ v \in Seq(View) /\ n \in Nat /\ Len(v) = n + 1
      /\ DOMAIN q = 1 .. n /\ DOMAIN v = 1 .. (n + 1)
      /\ \A i \in DOMAIN q : q[i] \in Commands /\ q[i].id \in Ids
      /\ \A i \in DOMAIN v : v[i] \in View
  BY TraceDomains
<1>2. v # <<>>
  BY <1>1, EmptySeq
<1>3. /\ q1 \in Seq(Commands) /\ n = Len(q1) + 1 /\ Len(q1) \in Nat
      /\ 1 \in DOMAIN q /\ c = q[1]
      /\ \A i \in DOMAIN q1 : i \in Nat /\ 0 < i /\ i + 1 \in DOMAIN q /\ q1[i] = q[i + 1]
      /\ \A j \in DOMAIN q : j # 1 => j - 1 \in DOMAIN q1 /\ (j - 1) + 1 = j
  BY Popped
<1>4. /\ v1 \in Seq(View) /\ Len(v) = Len(v1) + 1 /\ Len(v1) \in Nat
      /\ \A i \in DOMAIN v1 : i \in Nat /\ 0 < i /\ i + 1 \in DOMAIN v /\ v1[i] = v[i + 1]
      /\ \A j \in DOMAIN v : j # 1 => j - 1 \in DOMAIN v1 /\ (j - 1) + 1 = j
  BY <1>1, <1>2, Popped
<1>5. /\ DOMAIN q1 = 1 .. Len(q1) /\ DOMAIN v1 = 1 .. Len(v1)
  BY <1>3, <1>4, LenProperties
<1>6. v[1] = server /\ ViewStep(v[1], q[1], v[1 + 1])
  BY <1>3 DEF Trace
<1> HIDE DEF q1, v1, c, n
<1>7. Len(v1) = Len(q1) + 1 /\ 1 \in DOMAIN v1 /\ 1 + 1 = 2
  <2>1. Len(v1) = Len(q1) + 1
    BY <1>1, <1>3, <1>4
  <2>2. 1 \in 1 .. Len(v1)
    BY <1>3, <2>1
  <2>3. QED
    BY <1>5, <2>1, <2>2
<1>8. v1[1] = v[2] /\ v[2] \in View
  BY <1>1, <1>4, <1>7
<1>9. \A i \in DOMAIN q1 : i \in DOMAIN v1
  BY <1>5, <1>7, <1>3
<1>10. \A i \in DOMAIN q1 : MapTag(q1, v1, i) = MapTag(q, v, i + 1)
  BY <1>3, <1>4, <1>9 DEF MapTag
<1>11. MapTag(q, v, 1) = Tag(c.id, server.serial[c.id], c.arg, c.op = "mapWrite")
  BY <1>3, <1>6 DEF MapTag
<1>12. \A j \in DOMAIN q : j \in Nat /\ (j # 1 => 1 < j)
  BY <1>1
<1>13. c \in Commands /\ c.id \in Ids
  BY <1>1, <1>3
<1>14. ViewStep(server, c, v[2])
  BY <1>3, <1>6, <1>7
<1>15. QED
  BY <1>3, <1>4, <1>6, <1>7, <1>8, <1>10, <1>11, <1>12, <1>13, <1>14 DEF q1, v1, c

(* The rest leads from the server's next view to the client's. *)
LEMMA PopTrace ==
  ASSUME NEW q \in Seq(Commands), NEW v, NEW server, NEW client, Trace(q, v, server, client),
         q # <<>>
  PROVE  Trace(Tail(q), Tail(v), v[2], client)
<1> DEFINE q1 == Tail(q)
           v1 == Tail(v)
<1>1. /\ q1 \in Seq(Commands) /\ v1 \in Seq(View) /\ Len(v1) = Len(q1) + 1 /\ v1[1] = v[2]
      /\ \A i \in DOMAIN q1 : i \in Nat /\ 0 < i /\ i + 1 \in DOMAIN q /\ q1[i] = q[i + 1]
      /\ \A i \in DOMAIN v1 : i \in Nat /\ 0 < i /\ i + 1 \in DOMAIN v /\ v1[i] = v[i + 1]
      /\ \A j \in DOMAIN q : j \in Nat /\ (j # 1 => /\ 1 < j /\ j - 1 \in DOMAIN q1
                                                    /\ (j - 1) + 1 = j)
  BY PopFacts
<1>2. /\ Len(q) = Len(q1) + 1 /\ Len(q1) \in Nat
  BY Popped
<1>3. /\ v[Len(q) + 1] = client
      /\ \A i \in DOMAIN q : ViewStep(v[i], q[i], v[i + 1])
      /\ \A i \in DOMAIN v : v[i].size <= client.size
      /\ \A i \in DOMAIN v, id \in Ids :
           (\A j \in DOMAIN q : j >= i => ~IsLife(q[j], id)) =>
             /\ id \in v[i].known <=> id \in client.known
             /\ v[i].serial[id] = client.serial[id]
  BY DEF Trace
<1> HIDE DEF q1, v1
<1>4. DOMAIN q1 = 1 .. Len(q1) /\ DOMAIN v1 = 1 .. Len(v1)
  BY <1>1, LenProperties
<1>5. v1[Len(q1) + 1] = client
  <2>1. Len(q1) + 1 \in DOMAIN v1 /\ (Len(q1) + 1) + 1 = Len(q) + 1
    BY <1>1, <1>2, <1>4
  <2>2. QED
    BY <1>1, <1>3, <2>1
<1>6. ASSUME NEW i \in DOMAIN q1 PROVE ViewStep(v1[i], q1[i], v1[i + 1])
  <2>1. i \in DOMAIN v1 /\ i + 1 \in DOMAIN v1
    BY <1>1, <1>4
  <2>2. v1[i] = v[i + 1] /\ q1[i] = q[i + 1] /\ v1[i + 1] = v[(i + 1) + 1]
    BY <1>1, <2>1
  <2>3. ViewStep(v[i + 1], q[i + 1], v[(i + 1) + 1])
    BY <1>1, <1>3
  <2>4. QED
    BY <2>2, <2>3
<1>7. \A i \in DOMAIN v1 : v1[i].size <= client.size
  BY <1>1, <1>3
<1>8. ASSUME NEW i \in DOMAIN v1, NEW id \in Ids,
             \A j \in DOMAIN q1 : j >= i => ~IsLife(q1[j], id)
      PROVE  (id \in v1[i].known <=> id \in client.known) /\ v1[i].serial[id] = client.serial[id]
  <2>1. ASSUME NEW j \in DOMAIN q, j >= i + 1 PROVE ~IsLife(q[j], id)
    <3>1. j - 1 \in DOMAIN q1 /\ (j - 1) + 1 = j /\ j - 1 >= i
      BY <1>1, <2>1
    <3>2. QED
      BY <1>1, <1>8, <3>1
  <2>2. v1[i] = v[i + 1] /\ i + 1 \in DOMAIN v
    BY <1>1
  <2>3. QED
    BY <1>3, <2>1, <2>2
<1>9. QED
  BY <1>1, <1>5, <1>6, <1>7, <1>8 DEF Trace, q1, v1

(* What covers a write still does. *)
LEMMA PopCovered ==
  ASSUME NEW q \in Seq(Commands), q # <<>>, NEW j \in Nat, NEW t, NEW waiting,
         Covered(q, j + 1, t, waiting)
  PROVE  Covered(Tail(q), j, t, waiting)
<1> DEFINE q1 == Tail(q)
<1>1. /\ \A i \in DOMAIN q1 : i \in Nat /\ 0 < i /\ i + 1 \in DOMAIN q /\ q1[i] = q[i + 1]
      /\ \A k \in DOMAIN q : k # 1 => k - 1 \in DOMAIN q1 /\ (k - 1) + 1 = k
      /\ DOMAIN q = 1 .. Len(q)
  BY Popped
<1> HIDE DEF q1
<1>2. CASE t \in waiting
  BY <1>2 DEF Covered
<1>3. CASE UnmapBehind(q, j + 1, t)
  <2>1. PICK i \in DOMAIN q : /\ j + 1 < i /\ q[i].op = "unmap" /\ q[i].id = t.id
                              /\ \A k \in DOMAIN q : j + 1 < k /\ k < i => ~IsLife(q[k], t.id)
    BY <1>3 DEF UnmapBehind
  <2>2. i \in Nat /\ i # 1
    BY <1>1, <2>1
  <2>3. i - 1 \in DOMAIN q1 /\ (i - 1) + 1 = i /\ j < i - 1
    BY <1>1, <2>1, <2>2
  <2>4. q1[i - 1] = q[i]
    BY <1>1, <2>3
  <2>5. ASSUME NEW k \in DOMAIN q1, j < k, k < i - 1 PROVE ~IsLife(q1[k], t.id)
    <3>1. k + 1 \in DOMAIN q /\ q1[k] = q[k + 1] /\ j + 1 < k + 1 /\ k + 1 < i
      BY <1>1, <2>2, <2>5
    <3>2. QED
      BY <2>1, <3>1
  <2>6. UnmapBehind(q1, j, t)
    BY <2>1, <2>3, <2>4, <2>5 DEF UnmapBehind
  <2>7. QED
    BY <2>6 DEF Covered, q1
<1>4. QED
  BY <1>2, <1>3 DEF Covered

(* The tag of the command goes on to a mapping or to an answer. *)
LEMMA PopTags ==
  ASSUME NEW q \in Seq(Commands), NEW v, NEW server, NEW client, Trace(q, v, server, client),
         q # <<>>, NEW ms, NEW ret, NEW used, TagsInv(q, v, ms, ret, used),
         NEW ms1, NEW ret1,
         \A m \in ms1 : \/ m \in ms
                        \/ IsMap(Head(q)) /\ m.tag = MapTag(q, v, 1),
         \A k \in DOMAIN ret1 : \/ \E j \in DOMAIN ret : ret1[k].tag = ret[j].tag
                                \/ \E m \in ms : ret1[k].tag = m.tag
                                \/ IsMap(Head(q)) /\ ret1[k].tag = MapTag(q, v, 1),
         \A m \in ms1, k \in DOMAIN ret1 : m.waiting => m.tag # ret1[k].tag
  PROVE  TagsInv(Tail(q), Tail(v), ms1, ret1, used)
<1> DEFINE q1 == Tail(q)
           v1 == Tail(v)
           t == MapTag(q, v, 1)
<1>1. /\ Head(q) = q[1] /\ 1 \in DOMAIN q
      /\ \A i \in DOMAIN q1 : /\ i \in Nat /\ 0 < i /\ i + 1 \in DOMAIN q
                              /\ q1[i] = q[i + 1]
                              /\ MapTag(q1, v1, i) = MapTag(q, v, i + 1)
  BY PopFacts
<1>2. /\ \A i \in DOMAIN q : IsMap(q[i]) =>
           /\ MapTag(q, v, i) \in used
           /\ \A m \in ms : m.tag # MapTag(q, v, i)
           /\ \A k \in DOMAIN ret : ret[k].tag # MapTag(q, v, i)
           /\ \A j \in DOMAIN q : IsMap(q[j]) /\ MapTag(q, v, j) = MapTag(q, v, i) => j = i
      /\ \A m \in ms : m.tag \in used
      /\ \A k \in DOMAIN ret : ret[k].tag \in used
  BY DEF TagsInv
<1>3. /\ \A m \in ms1 : m \in ms \/ (IsMap(q[1]) /\ m.tag = t)
      /\ \A k \in DOMAIN ret1 : \/ \E j \in DOMAIN ret : ret1[k].tag = ret[j].tag
                                \/ \E m \in ms : ret1[k].tag = m.tag
                                \/ IsMap(q[1]) /\ ret1[k].tag = t
  BY <1>1
<1>4. IsMap(q[1]) => t \in used
  BY <1>1, <1>2
<1> HIDE DEF q1, v1, t
<1>5. ASSUME NEW i \in DOMAIN q1, IsMap(q1[i])
      PROVE  /\ MapTag(q1, v1, i) \in used
             /\ \A m \in ms1 : m.tag # MapTag(q1, v1, i)
             /\ \A k \in DOMAIN ret1 : ret1[k].tag # MapTag(q1, v1, i)
             /\ \A j \in DOMAIN q1 : IsMap(q1[j]) /\ MapTag(q1, v1, j) = MapTag(q1, v1, i)
                                       => j = i
  <2> DEFINE u == MapTag(q, v, i + 1)
  <2>1. MapTag(q1, v1, i) = u /\ i + 1 \in DOMAIN q /\ IsMap(q[i + 1])
    BY <1>1, <1>5
  <2>2. /\ u \in used
        /\ \A m \in ms : m.tag # u
        /\ \A k \in DOMAIN ret : ret[k].tag # u
        /\ \A j \in DOMAIN q : IsMap(q[j]) /\ MapTag(q, v, j) = u => j = i + 1
    BY <1>2, <2>1
  <2>3. IsMap(q[1]) => t # u
    <3>1. 1 # i + 1
      BY <1>1
    <3>2. QED
      BY <1>1, <2>2, <3>1 DEF t
  <2> HIDE DEF u
  <2>4. \A m \in ms1 : m.tag # u
    BY <1>3, <2>2, <2>3
  <2>5. \A k \in DOMAIN ret1 : ret1[k].tag # u
    BY <1>3, <2>2, <2>3
  <2>6. ASSUME NEW j \in DOMAIN q1, IsMap(q1[j]), MapTag(q1, v1, j) = u
        PROVE  j = i
    <3>1. j + 1 \in DOMAIN q /\ IsMap(q[j + 1]) /\ MapTag(q, v, j + 1) = u
      BY <1>1, <2>6
    <3>2. j + 1 = i + 1
      BY <2>2, <3>1
    <3>3. QED
      BY <1>1, <3>2
  <2>7. QED
    BY <2>1, <2>2, <2>4, <2>5, <2>6
<1>6. \A m \in ms1 : m.tag \in used
  BY <1>2, <1>3, <1>4
<1>7. \A k \in DOMAIN ret1 : ret1[k].tag \in used
  BY <1>2, <1>3, <1>4
<1>8. QED
  BY <1>5, <1>6, <1>7 DEF TagsInv, q1, v1

(* The queue behind a command is what it was. *)
LEMMA PopAfterEnds ==
  ASSUME NEW q \in Seq(Commands), NEW v, NEW server, NEW client, Trace(q, v, server, client),
         q # <<>>, NEW waiting, AfterEnds(q, v, waiting)
  PROVE  AfterEnds(Tail(q), Tail(v), waiting)
<1> DEFINE q1 == Tail(q)
           v1 == Tail(v)
<1>1. /\ \A i \in DOMAIN q1 : /\ i \in Nat /\ 0 < i /\ i + 1 \in DOMAIN q
                              /\ q1[i] = q[i + 1]
                              /\ MapTag(q1, v1, i) = MapTag(q, v, i + 1)
      /\ \A j \in DOMAIN q : j \in Nat /\ (j # 1 => /\ 1 < j /\ j - 1 \in DOMAIN q1
                                                    /\ (j - 1) + 1 = j)
  BY PopFacts
<1> HIDE DEF q1, v1
<1>2. ASSUME NEW t \in waiting, NEW i \in DOMAIN q1, EndsMapping(q1[i], t.id)
      PROVE  \E j \in DOMAIN q1 : i < j /\ IsMap(q1[j]) /\ MapTag(q1, v1, j) = t
  <2>1. PICK j \in DOMAIN q : i + 1 < j /\ IsMap(q[j]) /\ MapTag(q, v, j) = t
    BY <1>1, <1>2 DEF AfterEnds
  <2>2. j \in Nat /\ i \in Nat /\ j # 1 /\ i < j - 1
    BY <1>1, <2>1
  <2>3. j - 1 \in DOMAIN q1 /\ (j - 1) + 1 = j
    BY <1>1, <2>2
  <2>4. IsMap(q1[j - 1]) /\ MapTag(q1, v1, j - 1) = t
    BY <1>1, <2>1, <2>3
  <2>5. QED
    BY <2>2, <2>3, <2>4
<1>3. QED
  BY <1>2 DEF AfterEnds, q1, v1

(* The writes that an Unmap does not cancel wait on. *)
LEMMA PopWrites ==
  ASSUME NEW q \in Seq(Commands), NEW v, NEW server, NEW client, Trace(q, v, server, client),
         q # <<>>, NEW ms, NEW ret, NEW used, NEW waiting, NEW ms1,
         TagsInv(q, v, ms, ret, used), AfterEnds(q, v, waiting), WritesInv(q, v, ms, waiting),
         \A m \in ms : m.tag.id \in Ids \cup {0},
         \A m \in ms1 : m.waiting /\ m.tag.write =>
           \/ m \in ms /\ ~(Head(q).op = "unmap" /\ Head(q).id = m.tag.id)
           \/ Head(q).op = "mapWrite" /\ m.tag = MapTag(q, v, 1)
  PROVE  WritesInv(Tail(q), Tail(v), ms1, waiting)
<1> DEFINE q1 == Tail(q)
           v1 == Tail(v)
           c == Head(q)
<1>1. /\ c = q[1] /\ c \in Commands /\ c.id \in Ids /\ 1 \in DOMAIN q
      /\ \A i \in DOMAIN q1 : /\ i \in Nat /\ 0 < i /\ i + 1 \in DOMAIN q
                              /\ q1[i] = q[i + 1]
                              /\ MapTag(q1, v1, i) = MapTag(q, v, i + 1)
      /\ \A j \in DOMAIN q : j \in Nat /\ (j # 1 => 1 < j)
      /\ v[1] = server /\ v1[1] = v[2] /\ v[2] \in View /\ v[1] \in View
      /\ MapTag(q, v, 1) = Tag(c.id, server.serial[c.id], c.arg, c.op = "mapWrite")
      /\ ViewStep(v[1], c, v[2])
  <2>1. v[1] \in View
    BY TraceDomains
  <2>2. QED
    BY <2>1, PopFacts
<1> HIDE DEF q1, v1, c
<1>2. ASSUME NEW id \in Ids, id \in v[1].known, ~IsLife(c, id)
      PROVE  id \in v[2].known /\ v[2].serial[id] = v[1].serial[id]
  <2>1. CASE c.op = "create"
    <3>1. c.id # id
      BY <1>2, <2>1 DEF IsLife
    <3>2. v[2].known = v[1].known \cup {c.id} /\ v[2].serial = [v[1].serial EXCEPT ![c.id] = c.arg]
      BY <1>1, <2>1 DEF ViewStep
    <3>3. v[1].serial \in [Ids -> 0 .. MaxSerial]
      BY <1>1 DEF View
    <3>4. QED
      BY <1>2, <3>1, <3>2, <3>3
  <2>2. CASE c.op # "create"
    BY <1>1, <1>2, <2>2 DEF ViewStep, IsLife
  <2>3. QED
    BY <2>1, <2>2
<1>3. \A j \in DOMAIN q1 : q1[j].op = "mapWrite" => Covered(q1, j, MapTag(q1, v1, j), waiting)
  <2> SUFFICES ASSUME NEW j \in DOMAIN q1, q1[j].op = "mapWrite"
               PROVE  Covered(q1, j, MapTag(q1, v1, j), waiting)
    OBVIOUS
  <2>1. Covered(q, j + 1, MapTag(q, v, j + 1), waiting) /\ j \in Nat
    BY <1>1 DEF WritesInv
  <2>2. QED
    BY <1>1, <2>1, PopCovered DEF q1
<1>4. ASSUME NEW m \in ms1, m.waiting, m.tag.write, m \in ms,
             ~(c.op = "unmap" /\ c.id = m.tag.id)
      PROVE  /\ m.tag.id \in v1[1].known /\ v1[1].serial[m.tag.id] = m.tag.serial
             /\ Covered(q1, 0, m.tag, waiting)
  <2> DEFINE id == m.tag.id
  <2>1. id \in v[1].known /\ v[1].serial[id] = m.tag.serial /\ Covered(q, 0, m.tag, waiting)
    BY <1>4 DEF WritesInv
  <2>2. id \in Ids
    BY <1>1, <2>1 DEF View
  <2>3. m.tag \in waiting => ~EndsMapping(q[1], id)
    BY <1>1, <1>4 DEF AfterEnds, TagsInv
  <2> HIDE DEF id
  <2>4. ~IsLife(c, id) /\ Covered(q, 1, m.tag, waiting)
    <3>1. CASE m.tag \in waiting
      BY <1>1, <2>3, <3>1 DEF Covered, IsLife, EndsMapping
    <3>2. CASE UnmapBehind(q, 0, m.tag)
      <4>1. PICK i \in DOMAIN q : /\ 0 < i /\ q[i].op = "unmap" /\ q[i].id = id
                                  /\ \A k \in DOMAIN q : 0 < k /\ k < i => ~IsLife(q[k], id)
        BY <3>2 DEF UnmapBehind, id
      <4>2. i # 1
        BY <1>1, <1>4, <4>1 DEF id
      <4>3. i \in Nat /\ 1 < i
        BY <1>1, <4>1, <4>2
      <4>4. ~IsLife(c, id)
        BY <1>1, <4>1, <4>3
      <4>5. \A k \in DOMAIN q : 1 < k /\ k < i => ~IsLife(q[k], id)
        BY <1>1, <4>1
      <4>6. UnmapBehind(q, 1, m.tag)
        BY <4>1, <4>3, <4>5 DEF UnmapBehind, id
      <4>7. QED
        BY <4>4, <4>6 DEF Covered
    <3>3. QED
      BY <2>1, <3>1, <3>2 DEF Covered
  <2>5. Covered(q1, 0, m.tag, waiting)
    <3>1. Covered(q, 0 + 1, m.tag, waiting) /\ 0 \in Nat
      BY <2>4
    <3>2. QED
      BY <3>1, PopCovered DEF q1
  <2>6. QED
    BY <1>1, <1>2, <2>1, <2>2, <2>4, <2>5 DEF id
<1>5. ASSUME NEW m \in ms1, c.op = "mapWrite", m.tag = MapTag(q, v, 1)
      PROVE  /\ m.tag.id \in v1[1].known /\ v1[1].serial[m.tag.id] = m.tag.serial
             /\ Covered(q1, 0, m.tag, waiting)
  <2>1. m.tag.id = c.id /\ m.tag.serial = v[1].serial[c.id]
    BY <1>1, <1>5 DEF Tag
  <2>2. c.id \in v[1].known /\ v[2].known = v[1].known /\ v[2].serial = v[1].serial
    BY <1>1, <1>5 DEF ViewStep
  <2>3. Covered(q, 0 + 1, m.tag, waiting) /\ 0 \in Nat
    BY <1>1, <1>5 DEF WritesInv
  <2>4. Covered(q1, 0, m.tag, waiting)
    BY <2>3, PopCovered DEF q1
  <2>5. QED
    BY <1>1, <2>1, <2>2, <2>4
<1>6. \A m \in ms1 : m.waiting /\ m.tag.write =>
        /\ m.tag.id \in v1[1].known /\ v1[1].serial[m.tag.id] = m.tag.serial
        /\ Covered(q1, 0, m.tag, waiting)
  BY <1>4, <1>5 DEF c
<1>7. QED
  BY <1>3, <1>6 DEF WritesInv, q1, v1

(* Mappings that the command does not end stay for the updates. *)
LEMMA PopUpdates ==
  ASSUME NEW q \in Seq(Commands), q # <<>>, NEW known, NEW known1, UpdatesInv(q, known),
         \A id \in DOMAIN known : ~EndsMapping(Head(q), id) =>
           id \in DOMAIN known1 /\ known1[id] = known[id]
  PROVE  UpdatesInv(Tail(q), known1)
<1> DEFINE q1 == Tail(q)
           c == Head(q)
<1>1. /\ \A i \in DOMAIN q1 : i \in Nat /\ 0 < i /\ i + 1 \in DOMAIN q /\ q1[i] = q[i + 1]
      /\ 1 \in DOMAIN q /\ c = q[1]
  BY Popped
<1> HIDE DEF q1, c
<1>2. ASSUME NEW i \in DOMAIN q1, q1[i].op = "update"
      PROVE  /\ \A j \in DOMAIN q1 : j < i => ~EndsMapping(q1[j], q1[i].id)
             /\ q1[i].id \in DOMAIN known1 /\ known1[q1[i].id].allocated
             /\ known1[q1[i].id].mappedData # NoTag
             /\ known1[q1[i].id].mappedData.number = q1[i].arg
  <2>1. i + 1 \in DOMAIN q /\ q1[i] = q[i + 1] /\ i \in Nat /\ 1 < i + 1
    BY <1>1
  <2>2. /\ \A j \in DOMAIN q : j < i + 1 => ~EndsMapping(q[j], q1[i].id)
        /\ q1[i].id \in DOMAIN known /\ known[q1[i].id].allocated
        /\ known[q1[i].id].mappedData # NoTag
        /\ known[q1[i].id].mappedData.number = q1[i].arg
    BY <1>2, <2>1 DEF UpdatesInv
  <2>3. ~EndsMapping(c, q1[i].id)
    BY <1>1, <2>1, <2>2
  <2>4. q1[i].id \in DOMAIN known1 /\ known1[q1[i].id] = known[q1[i].id]
    BY <2>2, <2>3 DEF c
  <2>5. \A j \in DOMAIN q1 : j < i => ~EndsMapping(q1[j], q1[i].id)
    BY <1>1, <2>1, <2>2
  <2>6. QED
    BY <2>2, <2>4, <2>5
<1>3. QED
  BY <1>2 DEF UpdatesInv, q1

-----------------------------------------------------------------------------
(* The calls of the application *)

(* A command is added to a queue that is in order. *)
LEMMA PushQueue ==
  ASSUME NEW q \in Seq(Commands), NEW v, NEW server, NEW client, NEW c \in Commands,
         NEW w \in View, NEW ms, NEW ret, NEW used, NEW used1, NEW waiting, NEW waiting1,
         NEW known,
         Queue(q, v, server, client, ms, ret, used, waiting, known),
         ViewStep(client, c, w), client.size <= w.size,
         \A id \in Ids : ~IsLife(c, id) => /\ id \in client.known <=> id \in w.known
                                           /\ client.serial[id] = w.serial[id],
         used \subseteq used1,
         IsMap(c) => Tag(c.id, client.serial[c.id], c.arg, c.op = "mapWrite")
                       \in (used1 \ used) \cap waiting1,
         \A t \in waiting1 :
           /\ ~EndsMapping(c, t.id)
           /\ \/ t \in waiting
              \/ IsMap(c) /\ t = Tag(c.id, client.serial[c.id], c.arg, c.op = "mapWrite"),
         \A t \in waiting : \/ t \in waiting1
                            \/ ~t.write
                            \/ c.op = "unmap" /\ c.id = t.id,
         c.op = "update" =>
           /\ \A j \in DOMAIN q : ~EndsMapping(q[j], c.id)
           /\ c.id \in DOMAIN known /\ known[c.id].allocated
           /\ known[c.id].mappedData # NoTag
           /\ known[c.id].mappedData.number = c.arg
  PROVE  /\ Append(q, c) \in Seq(Commands) /\ Append(v, w) \in Seq(View)
         /\ Queue(Append(q, c), Append(v, w), server, w, ms, ret, used1, waiting1, known)
<1>1. /\ Trace(q, v, server, client)
      /\ TagsInv(q, v, ms, ret, used) /\ AfterEnds(q, v, waiting)
      /\ WritesInv(q, v, ms, waiting) /\ UpdatesInv(q, known)
  BY DEF Queue
<1>2. Trace(Append(q, c), Append(v, w), server, w)
  BY <1>1, PushTrace
<1>3. TagsInv(Append(q, c), Append(v, w), ms, ret, used1)
  <2>1. IsMap(c) => Tag(c.id, client.serial[c.id], c.arg, c.op = "mapWrite") \in used1 \ used
    OBVIOUS
  <2>2. QED
    BY <1>1, <2>1, PushTags
<1>4. AfterEnds(Append(q, c), Append(v, w), waiting1)
  BY <1>1, PushAfterEnds
<1>5. WritesInv(Append(q, c), Append(v, w), ms, waiting1)
  <2>1. c.op = "mapWrite" => Tag(c.id, client.serial[c.id], c.arg, TRUE) \in waiting1
    BY DEF IsMap
  <2>2. QED
    BY <1>1, <2>1, PushWrites
<1>6. UpdatesInv(Append(q, c), known)
  BY <1>1, PushUpdates
<1>7. Append(q, c) \in Seq(Commands) /\ Append(v, w) \in Seq(View)
  BY <1>1, TraceDomains, AppendProperties
<1>8. QED
  BY <1>2, <1>3, <1>4, <1>5, <1>6, <1>7 DEF Queue

(* What the views show. *)
ViewsOK ==
  /\ ClientView \in View /\ ServerView \in View
  /\ DOMAIN mObjects = 1 .. Len(mObjects) /\ DOMAIN mObjects \subseteq Ids
  /\ ClientView.size = Len(mObjects)
  /\ \A id \in Ids : id \in ClientView.known <=> Live(id)
  /\ \A id \in DOMAIN mObjects : ClientView.serial[id] = mObjects[id].serial
  /\ ServerView.size = Len(mKnown)
  /\ \A id \in Ids : id \in ServerView.known <=> Known(id)
  /\ \A id \in Ids : id \in DOMAIN mKnown => ServerView.serial[id] = mKnown[id].serial

(* They are views. *)
LEMMA Views == TypeOK => ViewsOK
<1> SUFFICES ASSUME TypeOK PROVE ViewsOK
  OBVIOUS
<1>1. /\ DOMAIN mObjects = 1 .. Len(mObjects) /\ Len(mObjects) \in Nat
      /\ Len(mObjects) <= MaxIds /\ MaxIds \in Nat /\ MaxSerial \in Nat
      /\ Len(mKnown) \in Nat /\ 0 \in 0 .. MaxSerial
  BY LenProperties, BoundAssumption DEF TypeOK
<1>2. DOMAIN mObjects \subseteq Ids
  BY <1>1 DEF Ids
<1>3. \A id \in DOMAIN mObjects : mObjects[id].serial \in 0 .. MaxSerial
  <2>1. \A id \in DOMAIN mObjects : mObjects[id] \in Objects
    BY <1>1, ElementOfSeq DEF TypeOK
  <2>2. QED
    BY <2>1 DEF Objects
<1>4. \A id \in DOMAIN mKnown : mKnown[id].serial \in 0 .. MaxSerial
  BY ServerTypes DEF ObjectData
<1>5. ClientView \in View
  <2>1. [id \in Ids |-> IF id \in DOMAIN mObjects THEN mObjects[id].serial ELSE 0]
          \in [Ids -> 0 .. MaxSerial]
    BY <1>1, <1>3
  <2>2. {id \in Ids : Live(id)} \in SUBSET Ids
    OBVIOUS
  <2>3. QED
    BY <1>1, <2>1, <2>2 DEF ClientView, View
<1>6. ServerView \in View
  <2>1. [id \in Ids |-> IF id \in DOMAIN mKnown THEN mKnown[id].serial ELSE 0]
          \in [Ids -> 0 .. MaxSerial]
    BY <1>1, <1>4
  <2>2. {id \in Ids : Known(id)} \in SUBSET Ids
    OBVIOUS
  <2>3. QED
    BY <1>1, <2>1, <2>2 DEF ServerView, View
<1>7. /\ ClientView.size = Len(mObjects)
      /\ \A id \in Ids : id \in ClientView.known <=> Live(id)
      /\ \A id \in DOMAIN mObjects : ClientView.serial[id] = mObjects[id].serial
  BY <1>2 DEF ClientView
<1>8. /\ ServerView.size = Len(mKnown)
      /\ \A id \in Ids : id \in ServerView.known <=> Known(id)
      /\ \A id \in Ids : id \in DOMAIN mKnown => ServerView.serial[id] = mKnown[id].serial
  BY DEF ServerView
<1>9. QED
  BY <1>1, <1>2, <1>5, <1>6, <1>7, <1>8 DEF ViewsOK

(* The client's view of an object that is replaced. *)
LEMMA SetView ==
  ASSUME TypeOK, NEW id, NEW o, ObjectsSet(id, o)
  PROVE  /\ ClientView'.size = ClientView.size
         /\ ClientView'.known = IF o.live THEN ClientView.known \cup {id}
                                ELSE ClientView.known \ {id}
         /\ ClientView'.serial = [ClientView.serial EXCEPT ![id] = o.serial]
         /\ o.live = mObjects[id].live /\ o.serial = mObjects[id].serial =>
              ClientView' = ClientView
<1>1. /\ id \in DOMAIN mObjects /\ Len(mObjects') = Len(mObjects)
      /\ DOMAIN mObjects' = DOMAIN mObjects /\ mObjects'[id] = o
      /\ \A j \in DOMAIN mObjects : j # id => mObjects'[j] = mObjects[j]
  BY DEF ObjectsSet
<1>2. id \in Ids
  BY <1>1, Views DEF ViewsOK
<1>3. {j \in Ids : Live(j)}' = IF o.live THEN {j \in Ids : Live(j)} \cup {id}
                               ELSE {j \in Ids : Live(j)} \ {id}
  BY <1>1, <1>2 DEF Live
<1>4. ClientView'.size = ClientView.size
  BY <1>1 DEF ClientView
<1>5. ClientView'.known = IF o.live THEN ClientView.known \cup {id}
                          ELSE ClientView.known \ {id}
  BY <1>3 DEF ClientView
<1>6. ClientView'.serial = [ClientView.serial EXCEPT ![id] = o.serial]
  BY <1>1, <1>2 DEF ClientView
<1>7. o.live = mObjects[id].live /\ o.serial = mObjects[id].serial => ClientView' = ClientView
  <2> SUFFICES ASSUME o.live = mObjects[id].live, o.serial = mObjects[id].serial
               PROVE  ClientView' = ClientView
    OBVIOUS
  <2>1. \A j \in Ids : Live(j)' <=> Live(j)
    BY <1>1 DEF Live
  <2>2. \A j \in DOMAIN mObjects : mObjects'[j].serial = mObjects[j].serial
    BY <1>1
  <2>3. QED
    BY <1>1, <2>1, <2>2 DEF ClientView
<1>8. QED
  BY <1>4, <1>5, <1>6, <1>7

(* What the client holds goes on if the call is not about it. *)
LEMMA HeldKept ==
  ASSUME HeldInv, UNCHANGED serverVars,
         \A id \in DOMAIN mObjects', r \in Requests :
           mObjects'[id].mapped = r =>
             /\ id \in DOMAIN mObjects /\ mObjects[id].mapped = r
             /\ mObjects'[id].serial = mObjects[id].serial
             /\ mObjects'[id].live = mObjects[id].live
             /\ Used(r) /\ r \notin requests =>
                  Used(r)' /\ r \notin requests' /\ tag'[r] = tag[r]
             /\ \A i \in DOMAIN commands' : EndsMapping(commands'[i], id) =>
                  \E j \in DOMAIN commands : EndsMapping(commands[j], id)
  PROVE  HeldInv'
<1> SUFFICES ASSUME NEW id \in DOMAIN mObjects', NEW r \in Requests, mObjects'[id].mapped = r
             PROVE  /\ Used(r)' /\ r \notin requests'
                    /\ tag'[r].id = id /\ tag'[r].serial = mObjects'[id].serial /\ Live(id)'
                    /\ OnServer(r)'
                    /\ \A i \in DOMAIN commands' : ~EndsMapping(commands'[i], id)
  BY DEF HeldInv
<1>1. /\ id \in DOMAIN mObjects /\ mObjects[id].mapped = r
      /\ mObjects'[id].serial = mObjects[id].serial
      /\ mObjects'[id].live = mObjects[id].live
      /\ Used(r) /\ r \notin requests => Used(r)' /\ r \notin requests' /\ tag'[r] = tag[r]
      /\ \A i \in DOMAIN commands' : EndsMapping(commands'[i], id) =>
           \E j \in DOMAIN commands : EndsMapping(commands[j], id)
  OBVIOUS
<1>2. /\ Used(r) /\ r \notin requests
      /\ tag[r].id = id /\ tag[r].serial = mObjects[id].serial /\ Live(id)
      /\ OnServer(r)
      /\ \A i \in DOMAIN commands : ~EndsMapping(commands[i], id)
  BY <1>1 DEF HeldInv
<1>3. OnServer(r)'
  <2>1. tag'[r] = tag[r] /\ UNCHANGED <<maps, mKnown>>
    BY <1>1, <1>2 DEF serverVars
  <2>2. QED
    BY <1>2, <2>1 DEF OnServer, Known
<1>4. Live(id)'
  BY <1>1, <1>2 DEF Live
<1>5. QED
  BY <1>1, <1>2, <1>3, <1>4

(* What it is to be told goes on too. *)
LEMMA GrantedKept ==
  ASSUME GrantedInv, UNCHANGED <<serverVars, returns>>,
         \A k \in DOMAIN returns : returns[k].tag \in UsedTags,
         \A r \in requests' :
           \/ tag'[r] \notin UsedTags
           \/ /\ r \in requests /\ tag'[r] = tag[r]
              /\ mObjects'[tag[r].id].mapped \in {mObjects[tag[r].id].mapped, NoRequest}
  PROVE  GrantedInv'
<1> SUFFICES ASSUME NEW k \in DOMAIN returns, NEW r \in requests',
                    returns[k].status = "SUCCESS", returns[k].tag = tag'[r]
             PROVE  OnServer(r)' /\ mObjects'[tag'[r].id].mapped = NoRequest
  BY DEF GrantedInv
<1>1. /\ r \in requests /\ tag'[r] = tag[r]
      /\ mObjects'[tag[r].id].mapped \in {mObjects[tag[r].id].mapped, NoRequest}
  OBVIOUS
<1>2. OnServer(r) /\ mObjects[tag[r].id].mapped = NoRequest
  BY <1>1 DEF GrantedInv
<1>3. OnServer(r)'
  <2>1. tag'[r] = tag[r] /\ UNCHANGED <<maps, mKnown>>
    BY <1>1 DEF serverVars
  <2>2. QED
    BY <1>2, <2>1 DEF OnServer, Known
<1>4. QED
  BY <1>1, <1>2, <1>3

(* What holds before every step. *)
StepInv == TypeOK /\ ClientInv /\ IndInv

(* Facts about the queue that every step needs. *)
LEMMA QueueFacts ==
  ASSUME StepInv
  PROVE  /\ commands \in Seq(Commands) /\ ViewsOK
         /\ \A k \in DOMAIN returns : returns[k].tag \in UsedTags
         /\ \A t \in WaitingTags : t \in UsedTags /\ Live(t.id)
         /\ \A t \in UsedTags : t \in Tags /\ t.id \in DOMAIN mObjects /\ t.id \in Ids
<1>1. ViewsOK /\ commands \in Seq(Commands)
  BY Views DEF StepInv, TypeOK
<1>2. \A k \in DOMAIN returns : returns[k].tag \in UsedTags
  BY DEF StepInv, IndInv, QueueInv, Queue, TagsInv
<1>3. \A r \in requests : r \in Requests /\ Used(r) /\ Live(tag[r].id)
  BY DEF StepInv, TypeOK, ClientInv, Used
<1>4. \A t \in WaitingTags : t \in UsedTags /\ Live(t.id)
  BY <1>3 DEF WaitingTags, UsedTags
<1>5. \A r \in Requests : Used(r) => tag[r] \in Tags /\ tag[r].id \in DOMAIN mObjects
  BY DEF StepInv, TypeOK, ClientInv
<1>6. \A t \in UsedTags : t \in Tags /\ t.id \in DOMAIN mObjects /\ t.id \in Ids
  BY <1>1, <1>5 DEF UsedTags, ViewsOK
<1>7. QED
  BY <1>1, <1>2, <1>4, <1>6

(* Creating a buffer, on an id that was used before or a new one. *)
LEMMA CreateStep ==
  ASSUME StepInv, TypeOK', CreateBuffer, UNCHANGED failed
  PROVE  IndInv'
<1>1. /\ UNCHANGED <<serverVars, answerVars, requests, tag, returns>>
      /\ UNCHANGED <<mKnown, maps>> /\ ServerView' = ServerView
      /\ UsedTags' = UsedTags /\ WaitingTags' = WaitingTags
      /\ \A r \in Requests : Used(r)' <=> Used(r)
  BY DEF CreateBuffer, serverVars, answerVars, ServerView, Known, UsedTags, WaitingTags, Used
<1>2. ViewsOK'
  BY Views, PTL
<1>3. PICK v \in Seq(View) : Queue(commands, v, ServerView, ClientView, maps, returns,
                                   UsedTags, WaitingTags, mKnown)
  BY DEF StepInv, IndInv, QueueInv
<1>4. ClientView \in View /\ ClientView' \in View
      /\ DOMAIN mObjects = 1 .. Len(mObjects) /\ DOMAIN mObjects \subseteq Ids
      /\ ClientView.size = Len(mObjects) /\ ClientView'.size = Len(mObjects')
      /\ ClientView.size \in Nat
  BY <1>2, QueueFacts DEF ViewsOK, View
<1> DEFINE Created(id, serial) ==
      /\ id \in Ids /\ serial \in 0 .. MaxSerial /\ Command("create", id, serial) \in Commands
      /\ ViewStep(ClientView, Command("create", id, serial), ClientView')
      /\ ClientView.size <= ClientView'.size
      /\ commands' = Append(commands, Command("create", id, serial))
      /\ \A j \in Ids : j # id => /\ j \in ClientView.known <=> j \in ClientView'.known
                                  /\ ClientView.serial[j] = ClientView'.serial[j]
      /\ ~Live(id)
      /\ DOMAIN mObjects' = DOMAIN mObjects \cup {id}
      /\ \A j \in DOMAIN mObjects : j # id => mObjects'[j] = mObjects[j]
      /\ mObjects'[id].mapped = NoRequest
<1>5. \E id, serial : Created(id, serial)
  <2>1. ASSUME NEW id \in DOMAIN mObjects, id \in Ids, ~mObjects[id].live,
               ObjectsSet(id, NewObject(mObjects[id].serial + 1)),
               Sent(Command("create", id, mObjects[id].serial + 1))
        PROVE  Created(id, mObjects[id].serial + 1)
    <3> DEFINE serial == mObjects[id].serial + 1
               c == Command("create", id, serial)
               o == NewObject(serial)
    <3>1. o.live = TRUE /\ o.serial = serial /\ o.mapped = NoRequest
          /\ c.op = "create" /\ c.id = id /\ c.arg = serial
      BY DEF NewObject, Command
    <3>2. serial \in 0 .. MaxSerial
      BY <2>1, <3>1 DEF ObjectsSet, Objects
    <3>3. /\ ClientView'.size = ClientView.size
          /\ ClientView'.known = ClientView.known \cup {id}
          /\ ClientView'.serial = [ClientView.serial EXCEPT ![id] = serial]
      <4>1. ObjectsSet(id, o)
        BY <2>1
      <4>2. TypeOK
        BY DEF StepInv
      <4> HIDE DEF o, serial
      <4>3. /\ ClientView'.size = ClientView.size
            /\ ClientView'.known = IF o.live THEN ClientView.known \cup {id}
                                   ELSE ClientView.known \ {id}
            /\ ClientView'.serial = [ClientView.serial EXCEPT ![id] = o.serial]
        BY <4>1, <4>2, SetView
      <4>4. QED
        BY <3>1, <4>3
    <3>4. /\ ClientView.known \subseteq Ids /\ ClientView.serial \in [Ids -> 0 .. MaxSerial]
      BY <1>4 DEF View
    <3>5. ~Live(id) /\ id \notin ClientView.known /\ ClientView.serial[id] = mObjects[id].serial
      BY <2>1, QueueFacts DEF ViewsOK, Live
    <3>6. mObjects[id].serial \in Nat /\ MaxSerial \in Nat
      <4>1. mObjects[id] \in Objects
        BY <2>1, ElementOfSeq, LenProperties DEF StepInv, TypeOK
      <4>2. QED
        BY <4>1, BoundAssumption DEF Objects
    <3>7. ClientView.serial[id] < c.arg
      BY <3>1, <3>5, <3>6
    <3>8. c.id <= ClientView.size /\ c.id <= ClientView.size + 1
      BY <1>4, <2>1, <3>1
    <3>9. ViewStep(ClientView, c, ClientView')
      <4> HIDE DEF c, serial
      <4>1. ~(c.id > ClientView.size)
        BY <1>4, <2>1, <3>1
      <4>2. QED
        BY <3>1, <3>3, <3>5, <3>7, <3>8, <4>1 DEF ViewStep
    <3>10. \A j \in Ids : j # id => /\ j \in ClientView.known <=> j \in ClientView'.known
                                    /\ ClientView.serial[j] = ClientView'.serial[j]
      BY <3>3, <3>4
    <3>11. c \in Commands /\ commands' = Append(commands, c)
      BY <2>1 DEF Sent
    <3>12. /\ DOMAIN mObjects' = DOMAIN mObjects \cup {id}
           /\ \A j \in DOMAIN mObjects : j # id => mObjects'[j] = mObjects[j]
           /\ mObjects'[id].mapped = NoRequest
      BY <2>1, <3>1 DEF ObjectsSet
    <3>13. ClientView.size <= ClientView'.size
      BY <1>4, <3>3
    <3> HIDE DEF serial
    <3>14. QED
      BY <2>1, <3>2, <3>5, <3>9, <3>10, <3>11, <3>12, <3>13 DEF serial
  <2>2. ASSUME Len(mObjects) + 1 \in Ids,
               mObjects' = Append(mObjects, NewObject(0)), NewObject(0) \in Objects,
               Sent(Command("create", Len(mObjects) + 1, 0))
        PROVE  Created(Len(mObjects) + 1, 0)
    <3> DEFINE n == Len(mObjects)
               id == n + 1
               c == Command("create", id, 0)
               o == NewObject(0)
    <3>1. o.live = TRUE /\ o.serial = 0 /\ o.mapped = NoRequest
          /\ c.op = "create" /\ c.id = id /\ c.arg = 0
      BY DEF NewObject, Command
    <3>2. /\ n \in Nat /\ Len(mObjects') = id /\ id \notin DOMAIN mObjects
          /\ DOMAIN mObjects = 1 .. n /\ DOMAIN mObjects' = DOMAIN mObjects \cup {id}
          /\ mObjects'[id] = o /\ \A j \in DOMAIN mObjects : mObjects'[j] = mObjects[j]
      BY <2>2, Appended DEF StepInv, TypeOK
    <3> HIDE DEF o, c, n
    <3>3. \A j \in Ids : Live(j)' <=> (Live(j) \/ j = id)
      BY <3>1, <3>2 DEF Live
    <3>4. {j \in Ids : Live(j)}' = {j \in Ids : Live(j)} \cup {id}
      BY <2>2, <3>3 DEF n
    <3>5. ClientView'.known = ClientView.known \cup {id}
      BY <3>4 DEF ClientView
    <3>6. ClientView'.serial = [ClientView.serial EXCEPT ![id] = 0]
      BY <2>2, <3>1, <3>2 DEF ClientView
    <3>7. ~Live(id) /\ id \notin ClientView.known
      BY <3>2, QueueFacts DEF ViewsOK, Live, View
    <3>8. ClientView.size = n /\ ClientView'.size = id /\ id > n /\ ~(id <= n) /\ id <= n + 1
          /\ n <= id
      BY <1>4, <3>2 DEF n
    <3>9. ViewStep(ClientView, c, ClientView')
      <4>1. c.id = id /\ c.id <= ClientView.size + 1 /\ ~(c.id <= ClientView.size)
            /\ c.id > ClientView.size
        BY <3>1, <3>8
      <4> HIDE DEF id
      <4>2. QED
        BY <3>1, <3>5, <3>6, <3>7, <3>8, <4>1 DEF ViewStep
    <3>10. \A j \in Ids : j # id => /\ j \in ClientView.known <=> j \in ClientView'.known
                                    /\ ClientView.serial[j] = ClientView'.serial[j]
      <4>1. ClientView.serial \in [Ids -> 0 .. MaxSerial]
        BY <1>4 DEF View
      <4>2. QED
        BY <3>5, <3>6, <4>1
    <3>11. c \in Commands /\ commands' = Append(commands, c)
      BY <2>2 DEF Sent, c, n
    <3>12. 0 \in 0 .. MaxSerial /\ id \in Ids
      BY <2>2, BoundAssumption DEF n
    <3> HIDE DEF id
    <3>13. Created(id, 0)
      BY <3>1, <3>2, <3>7, <3>8, <3>9, <3>10, <3>11, <3>12 DEF c
    <3>14. QED
      BY <3>13 DEF id, n
  <2> HIDE DEF Created
  <2>3. QED
    BY <2>1, <2>2, CreateFacts DEF StepInv
<1>6. PICK id, serial : Created(id, serial)
  BY <1>5
<1> DEFINE c == Command("create", id, serial)
<1>7. c.op = "create" /\ c.id = id
  BY DEF Command
<1>8. \A t \in WaitingTags : t.id # id
  BY <1>6, QueueFacts
<1>9. Append(v, ClientView') \in Seq(View)
      /\ Queue(commands', Append(v, ClientView'), ServerView, ClientView', maps, returns,
               UsedTags, WaitingTags, mKnown)
  <2>1. /\ c \in Commands /\ ViewStep(ClientView, c, ClientView')
        /\ ClientView.size <= ClientView'.size /\ commands' = Append(commands, c)
    BY <1>6
  <2>2. \A j \in Ids : ~IsLife(c, j) => /\ j \in ClientView.known <=> j \in ClientView'.known
                                        /\ ClientView.serial[j] = ClientView'.serial[j]
    BY <1>6, <1>7 DEF IsLife
  <2>3. ~IsMap(c) /\ c.op # "update"
    BY <1>7 DEF IsMap
  <2>4. \A t \in WaitingTags : ~EndsMapping(c, t.id)
    BY <1>7, <1>8 DEF EndsMapping
  <2> HIDE DEF c, Created
  <2>5. QED
    BY <1>3, <1>4, <2>1, <2>2, <2>3, <2>4, QueueFacts, PushQueue
<1>10. QueueInv'
  BY <1>1, <1>9 DEF QueueInv
<1>11. HeldInv'
  <2> SUFFICES ASSUME NEW j \in DOMAIN mObjects', NEW r \in Requests, mObjects'[j].mapped = r
               PROVE  /\ j \in DOMAIN mObjects /\ mObjects[j].mapped = r
                      /\ mObjects'[j].serial = mObjects[j].serial
                      /\ mObjects'[j].live = mObjects[j].live
                      /\ Used(r)' <=> Used(r)
                      /\ \A i \in DOMAIN commands' : EndsMapping(commands'[i], j) =>
                           \E k \in DOMAIN commands : EndsMapping(commands[k], j)
    BY <1>1, HeldKept DEF StepInv, IndInv
  <2>1. j # id
    BY <1>6, RequestAssumption
  <2>2. j \in DOMAIN mObjects /\ mObjects'[j] = mObjects[j]
    BY <1>6, <2>1
  <2>3. ~EndsMapping(c, j)
    BY <1>7, <2>1 DEF EndsMapping
  <2>4. commands' = Append(commands, c) /\ c \in Commands
    BY <1>6
  <2> HIDE DEF c
  <2>5. \A i \in DOMAIN commands' : \/ i \in DOMAIN commands /\ commands'[i] = commands[i]
                                    \/ commands'[i] = c
    BY <2>4, QueueFacts, Appended
  <2>6. QED
    BY <1>1, <2>2, <2>3, <2>5
<1>12. GrantedInv'
  <2>1. \A r \in requests' : r \in requests /\ tag'[r] = tag[r]
                             /\ mObjects'[tag[r].id].mapped = mObjects[tag[r].id].mapped
    <3> SUFFICES ASSUME NEW r \in requests
                 PROVE  mObjects'[tag[r].id].mapped = mObjects[tag[r].id].mapped
      BY <1>1
    <3>1. tag[r] \in WaitingTags
      BY DEF WaitingTags
    <3>2. tag[r].id # id /\ tag[r].id \in DOMAIN mObjects
      BY <1>8, <3>1, QueueFacts
    <3>3. QED
      BY <1>6, <3>2
  <2>2. QED
    BY <1>1, <2>1, QueueFacts, GrantedKept DEF StepInv, IndInv
<1>13. NativeInv' /\ failed' = "none"
  BY <1>1 DEF StepInv, IndInv, NativeInv, PointerIsMapped, NativeMaps, Known
<1>14. QED
  BY <1>10, <1>11, <1>12, <1>13 DEF IndInv

(* The elements of a queue with one more command. *)
LEMMA PushElements ==
  ASSUME NEW q \in Seq(Commands), NEW c \in Commands
  PROVE  \A i \in DOMAIN Append(q, c) : \/ i \in DOMAIN q /\ Append(q, c)[i] = q[i]
                                        \/ Append(q, c)[i] = c
BY Appended

(* A request is sent: its tag is new, and an Unmap of it will follow. *)
LEMMA MapStep ==
  ASSUME StepInv, TypeOK', NEW id \in Ids, NEW r \in Requests, NEW write \in BOOLEAN,
         MapAsync(id, r, write), UNCHANGED failed
  PROVE  IndInv'
<1> DEFINE o == mObjects[id]
           t == Tag(id, o.serial, o.requestSerial, write)
           c == Command(IF write THEN "mapWrite" ELSE "mapRead", id, o.requestSerial)
           o1 == [o EXCEPT !.requestSerial = @ + 1]
<1>1. /\ UNCHANGED <<serverVars, returns, failed, mKnown, maps>> /\ ServerView' = ServerView
      /\ requests' = requests \cup {r} /\ answer' = [answer EXCEPT ![r] = "waiting"]
  BY DEF MapAsync, serverVars, ServerView, Known
<1>2. /\ Live(id) /\ answer[r] = "unused" /\ tag' = [tag EXCEPT ![r] = t]
      /\ ObjectsSet(id, o1)
      /\ commands' = Append(commands, c) /\ c \in Commands
  BY MapFacts DEF StepInv, Sent
<1>3. /\ IsMap(c) /\ c.id = id /\ c.arg = o.requestSerial /\ c.op # "update"
      /\ (c.op = "mapWrite") = write
      /\ \A j : ~IsLife(c, j) /\ ~EndsMapping(c, j)
  BY DEF Command, IsMap, IsLife, EndsMapping
<1>4. id \in DOMAIN mObjects /\ o \in Objects /\ t.id = id /\ t.serial = o.serial
      /\ t.number = o.requestSerial /\ o.requestSerial \in Nat
  BY <1>2, LiveFacts DEF StepInv, Tag
<1>5. o1.live = o.live /\ o1.serial = o.serial /\ o1.mapped = o.mapped
  BY <1>4 DEF Objects
<1>6. \A s \in Requests : /\ tag'[s] = IF s = r THEN t ELSE tag[s]
                          /\ Used(s)' <=> s = r \/ Used(s)
                          /\ answer'[s] = IF s = r THEN "waiting" ELSE answer[s]
  BY <1>1, <1>2 DEF StepInv, TypeOK, Used
<1>7. ~Used(r) /\ r \notin requests /\ requests \subseteq Requests
  BY <1>2 DEF Used, StepInv, ClientInv, TypeOK
<1> HIDE DEF t, o1, c
<1>8. UsedTags' = UsedTags \cup {t}
  <2>1. UsedTags' = {tag'[s] : s \in {u \in Requests : u = r \/ Used(u)}}
    BY <1>6 DEF UsedTags
  <2>2. \A x \in UsedTags' : x \in UsedTags \cup {t}
    BY <1>6, <2>1 DEF UsedTags
  <2>3. \A x \in UsedTags \cup {t} : x \in UsedTags'
    BY <1>6, <1>7, <2>1 DEF UsedTags
  <2>4. QED
    BY <2>2, <2>3
<1>9. WaitingTags' = WaitingTags \cup {t}
  <2>1. WaitingTags' = {tag'[s] : s \in requests \cup {r}}
    BY <1>1 DEF WaitingTags
  <2>2. \A x \in WaitingTags' : x \in WaitingTags \cup {t}
    BY <1>6, <1>7, <2>1 DEF WaitingTags
  <2>3. \A x \in WaitingTags \cup {t} : x \in WaitingTags'
    BY <1>6, <1>7, <2>1 DEF WaitingTags
  <2>4. QED
    BY <2>2, <2>3
<1>10. t \notin UsedTags
  <2> SUFFICES ASSUME NEW s \in Requests, Used(s), tag[s] = t PROVE FALSE
    BY DEF UsedTags
  <2>1. tag[s].number < o.requestSerial
    BY <1>4 DEF StepInv, ClientInv
  <2>2. QED
    BY <1>4, <2>1
<1>11. ClientView \in View /\ ClientView' = ClientView
       /\ id \in ClientView.known /\ ClientView.serial[id] = o.serial
       /\ ClientView.size <= ClientView.size
  <2>1. ClientView \in View /\ id \in ClientView.known /\ ClientView.serial[id] = o.serial
    BY <1>2, <1>4, QueueFacts DEF ViewsOK
  <2>2. ClientView' = ClientView
    BY <1>2, <1>5, SetView DEF StepInv
  <2>3. ClientView.size <= ClientView.size
    BY <2>1 DEF View
  <2>4. QED
    BY <2>1, <2>2, <2>3
<1>12. Tag(c.id, ClientView.serial[c.id], c.arg, c.op = "mapWrite") = t
  BY <1>3, <1>11 DEF t
<1>13. ViewStep(ClientView, c, ClientView)
  BY <1>3, <1>11 DEF ViewStep, IsMap
<1>14. PICK v \in Seq(View) : Queue(commands, v, ServerView, ClientView, maps, returns,
                                    UsedTags, WaitingTags, mKnown)
  BY DEF StepInv, IndInv, QueueInv
<1>15. Append(v, ClientView) \in Seq(View)
       /\ Queue(commands', Append(v, ClientView), ServerView, ClientView, maps, returns,
                UsedTags \cup {t}, WaitingTags \cup {t}, mKnown)
  <2>1. UsedTags \subseteq UsedTags \cup {t} /\ WaitingTags \subseteq WaitingTags \cup {t}
        /\ t \in ((UsedTags \cup {t}) \ UsedTags) \cap (WaitingTags \cup {t})
    BY <1>10
  <2>2. \A u \in WaitingTags \cup {t} :
           /\ ~EndsMapping(c, u.id)
           /\ u \in WaitingTags \/ (IsMap(c) /\ u = t)
    BY <1>3
  <2>3. c \in Commands /\ commands \in Seq(Commands)
    BY <1>2, QueueFacts
  <2> DEFINE used1 == UsedTags \cup {t}
             waiting1 == WaitingTags \cup {t}
  <2> HIDE DEF used1, waiting1
  <2>4. UsedTags \subseteq used1 /\ WaitingTags \subseteq waiting1
        /\ t \in (used1 \ UsedTags) \cap waiting1
        /\ \A u \in waiting1 : /\ ~EndsMapping(c, u.id)
                               /\ u \in WaitingTags \/ (IsMap(c) /\ u = t)
    BY <2>1, <2>2 DEF used1, waiting1
  <2>5. Append(v, ClientView) \in Seq(View)
        /\ Queue(Append(commands, c), Append(v, ClientView), ServerView, ClientView,
                 maps, returns, used1, waiting1, mKnown)
    BY <1>3, <1>11, <1>12, <1>13, <1>14, <2>3, <2>4, PushQueue
  <2>6. QED
    BY <1>2, <2>5 DEF used1, waiting1
<1>16. QueueInv'
  BY <1>1, <1>8, <1>9, <1>11, <1>15 DEF QueueInv
<1>17. \A j \in DOMAIN mObjects' : /\ j \in DOMAIN mObjects
                                   /\ mObjects'[j].mapped = mObjects[j].mapped
                                   /\ mObjects'[j].serial = mObjects[j].serial
                                   /\ mObjects'[j].live = mObjects[j].live
  BY <1>2, <1>5 DEF ObjectsSet
<1>18. HeldInv'
  <2> SUFFICES ASSUME NEW j \in DOMAIN mObjects', NEW s \in Requests, mObjects'[j].mapped = s
               PROVE  /\ Used(s) /\ s \notin requests =>
                           Used(s)' /\ s \notin requests' /\ tag'[s] = tag[s]
                      /\ \A i \in DOMAIN commands' : EndsMapping(commands'[i], j) =>
                           \E k \in DOMAIN commands : EndsMapping(commands[k], j)
    BY <1>1, <1>17, HeldKept DEF StepInv, IndInv
  <2>1. Used(s) /\ s \notin requests => Used(s)' /\ s \notin requests' /\ tag'[s] = tag[s]
    BY <1>1, <1>6, <1>7
  <2>2. \A i \in DOMAIN commands' : \/ i \in DOMAIN commands /\ commands'[i] = commands[i]
                                    \/ commands'[i] = c
    BY <1>2, QueueFacts, PushElements
  <2>3. QED
    BY <1>3, <2>1, <2>2
<1>19. GrantedInv'
  <2>1. \A s \in requests' :
          \/ tag'[s] \notin UsedTags
          \/ /\ s \in requests /\ tag'[s] = tag[s]
             /\ mObjects'[tag[s].id].mapped \in {mObjects[tag[s].id].mapped, NoRequest}
    <3> SUFFICES ASSUME NEW s \in requests', s # r
                 PROVE  /\ s \in requests /\ tag'[s] = tag[s]
                        /\ mObjects'[tag[s].id].mapped = mObjects[tag[s].id].mapped
      BY <1>6, <1>10
    <3>1. s \in requests /\ tag'[s] = tag[s]
      BY <1>1, <1>6, <1>7
    <3>2. tag[s].id \in DOMAIN mObjects
      BY <3>1 DEF StepInv, ClientInv, Live
    <3>3. DOMAIN mObjects' = DOMAIN mObjects
      BY <1>2 DEF ObjectsSet
    <3>4. QED
      BY <1>17, <3>1, <3>2, <3>3
  <2>2. QED
    BY <1>1, <2>1, QueueFacts, GrantedKept DEF StepInv, IndInv
<1>20. NativeInv' /\ failed' = "none"
  BY <1>1 DEF StepInv, IndInv, NativeInv, PointerIsMapped, NativeMaps, Known
<1>21. QED
  BY <1>16, <1>18, <1>19, <1>20 DEF IndInv

(* The requests that Unmap and Release cancel. *)
LEMMA ClearFacts ==
  ASSUME StepInv, NEW id \in Ids, ClearMapRequests(id), UNCHANGED tag
  PROVE  /\ requests' \subseteq requests
         /\ \A s \in Requests : Used(s)' <=> Used(s)
         /\ UsedTags' = UsedTags
         /\ WaitingTags' = {t \in WaitingTags : t.id # id}
<1>1. requests' = requests \ RequestsOf(id)
      /\ \A s \in Requests : answer'[s] = IF s \in RequestsOf(id) THEN "UNKNOWN" ELSE answer[s]
  BY DEF ClearMapRequests, Cleared, Call
<1>2. \A s \in RequestsOf(id) : s \in Requests /\ answer[s] = "waiting"
  BY DEF RequestsOf, StepInv, ClientInv
<1>3. \A s \in Requests : Used(s)' <=> Used(s)
  BY <1>1, <1>2 DEF Used
<1>4. UsedTags' = UsedTags
  BY <1>3 DEF UsedTags
<1>5. WaitingTags' = {t \in WaitingTags : t.id # id}
  <2>1. \A s \in requests : s \in requests' <=> tag[s].id # id
    BY <1>1 DEF RequestsOf
  <2>2. requests' \subseteq requests
    BY <1>1
  <2>3. WaitingTags' = {tag[s] : s \in requests'}
    BY DEF WaitingTags
  <2>4. QED
    BY <2>1, <2>2, <2>3 DEF WaitingTags
<1>6. QED
  BY <1>1, <1>3, <1>4, <1>5

(* What the client holds of other buffers is not touched. *)
LEMMA ClearKept ==
  ASSUME StepInv, NEW id \in Ids, NEW o, ClearMapRequests(id), ObjectsSet(id, o),
         o.mapped = NoRequest, UNCHANGED <<serverVars, tag, returns>>,
         \A j \in Ids : j # id =>
           \A i \in DOMAIN commands' : EndsMapping(commands'[i], j) =>
             \E k \in DOMAIN commands : EndsMapping(commands[k], j)
  PROVE  HeldInv' /\ GrantedInv' /\ NativeInv'
<1>1. /\ UNCHANGED tag /\ requests' \subseteq requests
      /\ \A s \in Requests : Used(s)' <=> Used(s)
  BY ClearFacts
<1>2. /\ DOMAIN mObjects' = DOMAIN mObjects /\ mObjects'[id].mapped = NoRequest
      /\ \A j \in DOMAIN mObjects : j # id => mObjects'[j] = mObjects[j]
  BY DEF ObjectsSet
<1>3. HeldInv'
  <2> SUFFICES ASSUME NEW j \in DOMAIN mObjects', NEW s \in Requests, mObjects'[j].mapped = s
               PROVE  /\ j \in DOMAIN mObjects /\ mObjects'[j] = mObjects[j]
                      /\ \A i \in DOMAIN commands' : EndsMapping(commands'[i], j) =>
                           \E k \in DOMAIN commands : EndsMapping(commands[k], j)
    BY <1>1, HeldKept DEF StepInv, IndInv
  <2>1. j # id
    BY <1>2, RequestAssumption
  <2>2. j \in DOMAIN mObjects /\ j \in Ids
    BY <1>2, QueueFacts DEF ViewsOK
  <2>3. QED
    BY <1>2, <2>1, <2>2
<1>4. GrantedInv'
  <2>1. \A s \in requests' :
          /\ s \in requests /\ tag'[s] = tag[s]
          /\ mObjects'[tag[s].id].mapped \in {mObjects[tag[s].id].mapped, NoRequest}
    <3> SUFFICES ASSUME NEW s \in requests
                 PROVE  mObjects'[tag[s].id].mapped \in {mObjects[tag[s].id].mapped, NoRequest}
      BY <1>1
    <3>1. tag[s].id \in DOMAIN mObjects
      BY DEF StepInv, ClientInv, Live
    <3>2. QED
      BY <1>2, <3>1
  <2>2. QED
    BY <2>1, QueueFacts, GrantedKept DEF StepInv, IndInv
<1>5. NativeInv'
  BY DEF StepInv, IndInv, NativeInv, PointerIsMapped, NativeMaps, Known, serverVars
<1>6. QED
  BY <1>3, <1>4, <1>5

(* Unmap ends the mapping of both sides, after what was written into it. *)
LEMMA UnmapStep ==
  ASSUME StepInv, TypeOK', NEW id \in Ids, Unmap(id), UNCHANGED failed
  PROVE  IndInv'
<1> DEFINE o == mObjects[id]
           o1 == [o EXCEPT !.mapped = NoRequest]
           unmap == Command("unmap", id, 0)
           update == Command("update", id, tag[o.mapped].number)
<1>1. /\ UNCHANGED <<serverVars, tag, returns, failed, mKnown, maps>> /\ ServerView' = ServerView
      /\ ClearMapRequests(id)
  BY DEF Unmap, serverVars, ServerView, Known
<1>2. /\ Live(id) /\ ObjectsSet(id, o1) /\ unmap \in Commands
      /\ \/ commands' = Append(commands, unmap)
         \/ /\ o.mapped # NoRequest /\ o.mapped \in Requests /\ tag[o.mapped].write
            /\ update \in Commands
            /\ commands' = Append(Append(commands, update), unmap)
  BY UnmapFacts DEF StepInv
<1>3. id \in DOMAIN mObjects /\ o1.mapped = NoRequest /\ ClientView' = ClientView
  <2>1. id \in DOMAIN mObjects /\ o \in Objects
    BY <1>2, LiveFacts DEF StepInv
  <2>2. o1.mapped = NoRequest /\ o1.live = o.live /\ o1.serial = o.serial
    BY <2>1 DEF Objects
  <2> HIDE DEF o1
  <2>3. ClientView' = ClientView
    BY <1>2, <2>2, SetView DEF StepInv
  <2>4. QED
    BY <2>1, <2>2, <2>3
<1>4. ClientView \in View /\ id \in ClientView.known /\ ClientView.size <= ClientView.size
  <2>1. ClientView \in View /\ id \in ClientView.known
    BY <1>2, QueueFacts DEF ViewsOK
  <2>2. QED
    BY <2>1 DEF View
<1>5. /\ unmap.op = "unmap" /\ unmap.id = id
      /\ update.op = "update" /\ update.id = id /\ update.arg = tag[o.mapped].number
  BY DEF Command
<1> HIDE DEF unmap, update, o1
<1>6. /\ UsedTags' = UsedTags
      /\ WaitingTags' = {t \in WaitingTags : t.id # id}
  BY <1>1, ClearFacts
<1> DEFINE InQueue(q) == \E v \in Seq(View) : Queue(q, v, ServerView, ClientView, maps, returns,
                                                   UsedTags, WaitingTags, mKnown)
<1>7. commands \in Seq(Commands) /\ InQueue(commands)
  BY QueueFacts DEF StepInv, IndInv, QueueInv
<1>8. ASSUME NEW q \in Seq(Commands), InQueue(q)
      PROVE  \E v \in Seq(View) : Queue(Append(q, unmap), v, ServerView, ClientView, maps,
                                        returns, UsedTags, WaitingTags', mKnown)
  <2>1. PICK v : Queue(q, v, ServerView, ClientView, maps, returns,
                       UsedTags, WaitingTags, mKnown)
    BY <1>8
  <2>2. ViewStep(ClientView, unmap, ClientView)
    BY <1>4, <1>5 DEF ViewStep
  <2>3. ~IsMap(unmap) /\ unmap.op # "update"
    BY <1>5 DEF IsMap
  <2>4. \A t \in WaitingTags' : ~EndsMapping(unmap, t.id) /\ t \in WaitingTags
    BY <1>5, <1>6 DEF EndsMapping
  <2>5. \A t \in WaitingTags : t \in WaitingTags' \/ (unmap.op = "unmap" /\ unmap.id = t.id)
    BY <1>5, <1>6
  <2> DEFINE waiting1 == WaitingTags'
  <2>6. /\ \A t \in waiting1 : ~EndsMapping(unmap, t.id) /\ t \in WaitingTags
        /\ \A t \in WaitingTags : t \in waiting1 \/ (unmap.op = "unmap" /\ unmap.id = t.id)
    BY <2>4, <2>5
  <2> HIDE DEF waiting1
  <2>7. /\ Append(v, ClientView) \in Seq(View)
        /\ Queue(Append(q, unmap), Append(v, ClientView), ServerView, ClientView, maps,
                 returns, UsedTags, waiting1, mKnown)
    BY <1>2, <1>4, <2>1, <2>2, <2>3, <2>6, PushQueue
  <2>8. QED
    BY <2>7 DEF waiting1
<1>9. ASSUME o.mapped \in Requests, tag[o.mapped].write, update \in Commands
      PROVE  Append(commands, update) \in Seq(Commands) /\ InQueue(Append(commands, update))
  <2> DEFINE r == o.mapped
  <2>1. PICK v : Queue(commands, v, ServerView, ClientView, maps, returns,
                       UsedTags, WaitingTags, mKnown)
    BY <1>7
  <2>2. ViewStep(ClientView, update, ClientView)
    BY <1>4, <1>5 DEF ViewStep
  <2>3. ~IsMap(update)
    BY <1>5 DEF IsMap
  <2>4. \A t \in WaitingTags : ~EndsMapping(update, t.id)
    BY <1>5 DEF EndsMapping
  <2>5. /\ tag[r].id = id /\ OnServer(r)
        /\ \A i \in DOMAIN commands : ~EndsMapping(commands[i], id)
    BY <1>3, <1>9 DEF StepInv, IndInv, HeldInv
  <2>6. Known(id) /\ mKnown[id].mappedData = tag[r]
    BY <1>9, <2>5 DEF OnServer
  <2>7. tag[r] # NoTag
    BY <2>5 DEF NoTag, Tag, Ids
  <2>8. /\ \A j \in DOMAIN commands : ~EndsMapping(commands[j], update.id)
        /\ update.id \in DOMAIN mKnown /\ mKnown[update.id].allocated
        /\ mKnown[update.id].mappedData # NoTag
        /\ mKnown[update.id].mappedData.number = update.arg
    BY <1>5, <2>5, <2>6, <2>7 DEF Known
  <2>9. /\ Append(commands, update) \in Seq(Commands) /\ Append(v, ClientView) \in Seq(View)
        /\ Queue(Append(commands, update), Append(v, ClientView), ServerView, ClientView,
                 maps, returns, UsedTags, WaitingTags, mKnown)
    BY <1>4, <1>7, <1>9, <2>1, <2>2, <2>3, <2>4, <2>8, PushQueue
  <2>10. QED
    BY <2>9
<1>10. QueueInv'
  <2>1. \E v \in Seq(View) : Queue(commands', v, ServerView, ClientView, maps, returns,
                                   UsedTags, WaitingTags', mKnown)
    <3>1. CASE commands' = Append(commands, unmap)
      BY <1>7, <1>8, <3>1
    <3>2. CASE /\ o.mapped \in Requests /\ tag[o.mapped].write /\ update \in Commands
               /\ commands' = Append(Append(commands, update), unmap)
      <4>1. Append(commands, update) \in Seq(Commands) /\ InQueue(Append(commands, update))
        BY <1>9, <3>2
      <4> HIDE DEF InQueue
      <4>2. QED
        BY <1>8, <3>2, <4>1
    <3>3. QED
      BY <1>2, <3>1, <3>2
  <2>2. QED
    BY <1>1, <1>3, <1>6, <2>1 DEF QueueInv
<1>11. \A j \in Ids : j # id =>
         \A i \in DOMAIN commands' : EndsMapping(commands'[i], j) =>
           \E k \in DOMAIN commands : EndsMapping(commands[k], j)
  <2> SUFFICES ASSUME NEW j \in Ids, j # id, NEW i \in DOMAIN commands',
                      EndsMapping(commands'[i], j)
               PROVE  \E k \in DOMAIN commands : EndsMapping(commands[k], j)
    OBVIOUS
  <2>1. ~EndsMapping(unmap, j) /\ ~EndsMapping(update, j)
    BY <1>5 DEF EndsMapping
  <2>2. CASE commands' = Append(commands, unmap)
    BY <1>2, <1>7, <2>1, <2>2, PushElements
  <2>3. CASE update \in Commands /\ commands' = Append(Append(commands, update), unmap)
    <3> DEFINE q == Append(commands, update)
    <3>1. q \in Seq(Commands)
      BY <1>7, <2>3, AppendProperties
    <3>2. \A k \in DOMAIN q : \/ k \in DOMAIN commands /\ q[k] = commands[k]
                              \/ q[k] = update
      BY <1>7, <2>3, PushElements
    <3> HIDE DEF q
    <3>3. \/ i \in DOMAIN q /\ commands'[i] = q[i]
          \/ commands'[i] = unmap
      BY <1>2, <2>3, <3>1, PushElements DEF q
    <3>4. QED
      BY <2>1, <3>2, <3>3
  <2>4. QED
    BY <1>2, <2>2, <2>3
<1>12. HeldInv' /\ GrantedInv' /\ NativeInv'
  BY <1>1, <1>2, <1>3, <1>11, ClearKept
<1>13. QED
  BY <1>1, <1>10, <1>12 DEF IndInv, StepInv

(* Release leaves no write behind that its Unmap could not cancel. *)
LEMMA ReleaseStep ==
  ASSUME ~ReleaseUnderWrite, StepInv, TypeOK', NEW id \in Ids, Release(id), UNCHANGED failed
  PROVE  IndInv'
<1> DEFINE o == mObjects[id]
           o1 == [o EXCEPT !.live = FALSE, !.mapped = NoRequest]
           c == Command("destroy", id, 0)
<1>1. /\ UNCHANGED <<serverVars, tag, returns, failed, mKnown, maps>> /\ ServerView' = ServerView
      /\ ClearMapRequests(id)
      /\ \A r \in RequestsOf(id) : ~tag[r].write
  BY DEF Release, serverVars, ServerView, Known
<1>2. /\ Live(id) /\ ObjectsSet(id, o1) /\ c \in Commands /\ commands' = Append(commands, c)
  BY ReleaseFacts DEF StepInv, Sent
<1>3. id \in DOMAIN mObjects /\ o \in Objects
  BY <1>2, LiveFacts DEF StepInv
<1>4. o1.mapped = NoRequest /\ o1.live = FALSE /\ o1.serial = o.serial
  BY <1>3 DEF Objects
<1>5. c.op = "destroy" /\ c.id = id
  BY DEF Command
<1> HIDE DEF c, o1
<1>6. /\ ClientView \in View /\ ClientView' \in View
      /\ id \in ClientView.known /\ ClientView.serial[id] = o.serial
  <2>1. ViewsOK'
    BY Views, PTL
  <2>2. QED
    BY <1>2, <1>3, <2>1, QueueFacts DEF ViewsOK
<1>7. /\ ClientView'.size = ClientView.size
      /\ ClientView'.known = ClientView.known \ {id}
      /\ ClientView'.serial = ClientView.serial
  <2>1. /\ ClientView'.size = ClientView.size
        /\ ClientView'.known = IF o1.live THEN ClientView.known \cup {id}
                               ELSE ClientView.known \ {id}
        /\ ClientView'.serial = [ClientView.serial EXCEPT ![id] = o1.serial]
    BY <1>2, SetView DEF StepInv
  <2>2. ClientView.serial \in [Ids -> 0 .. MaxSerial]
    BY <1>6 DEF View
  <2>3. [ClientView.serial EXCEPT ![id] = o1.serial] = ClientView.serial
    BY <1>4, <1>6, <2>2
  <2>4. QED
    BY <1>4, <2>1, <2>3
<1>8. /\ UsedTags' = UsedTags
      /\ WaitingTags' = {t \in WaitingTags : t.id # id}
  BY <1>1, ClearFacts
<1>9. PICK v : Queue(commands, v, ServerView, ClientView, maps, returns,
                     UsedTags, WaitingTags, mKnown)
  BY DEF StepInv, IndInv, QueueInv
<1>10. /\ Append(v, ClientView') \in Seq(View)
       /\ Queue(commands', Append(v, ClientView'), ServerView, ClientView', maps, returns,
                UsedTags, WaitingTags', mKnown)
  <2>1. ViewStep(ClientView, c, ClientView')
    BY <1>5, <1>6, <1>7 DEF ViewStep
  <2>2. ~IsMap(c) /\ c.op # "update" /\ ClientView.size <= ClientView'.size
    BY <1>5, <1>6, <1>7 DEF IsMap, View
  <2>3. \A j \in Ids : ~IsLife(c, j) => /\ j \in ClientView.known <=> j \in ClientView'.known
                                        /\ ClientView.serial[j] = ClientView'.serial[j]
    BY <1>5, <1>7 DEF IsLife
  <2>4. \A t \in WaitingTags' : ~EndsMapping(c, t.id) /\ t \in WaitingTags
    BY <1>5, <1>8 DEF EndsMapping
  <2>5. \A t \in WaitingTags : t \in WaitingTags' \/ ~t.write
    BY <1>1, <1>8 DEF WaitingTags, RequestsOf
  <2> DEFINE waiting1 == WaitingTags'
             client1 == ClientView'
  <2>6. /\ \A t \in waiting1 : ~EndsMapping(c, t.id) /\ t \in WaitingTags
        /\ \A t \in WaitingTags : t \in waiting1 \/ ~t.write
        /\ client1 \in View /\ ViewStep(ClientView, c, client1)
        /\ ClientView.size <= client1.size
        /\ \A j \in Ids : ~IsLife(c, j) => /\ j \in ClientView.known <=> j \in client1.known
                                           /\ ClientView.serial[j] = client1.serial[j]
    BY <1>6, <2>1, <2>2, <2>3, <2>4, <2>5
  <2> HIDE DEF waiting1, client1
  <2>7. /\ Append(v, client1) \in Seq(View)
        /\ Queue(Append(commands, c), Append(v, client1), ServerView, client1, maps,
                 returns, UsedTags, waiting1, mKnown)
    BY <1>2, <1>9, <2>2, <2>6, QueueFacts, PushQueue
  <2>8. QED
    BY <1>2, <2>7 DEF waiting1, client1
<1>11. QueueInv'
  BY <1>1, <1>8, <1>10 DEF QueueInv
<1>12. \A j \in Ids : j # id =>
         \A i \in DOMAIN commands' : EndsMapping(commands'[i], j) =>
           \E k \in DOMAIN commands : EndsMapping(commands[k], j)
  <2>1. \A j : j # id => ~EndsMapping(c, j)
    BY <1>5 DEF EndsMapping
  <2>2. QED
    BY <1>2, <2>1, QueueFacts, PushElements
<1>13. HeldInv' /\ GrantedInv' /\ NativeInv'
  BY <1>1, <1>2, <1>4, <1>12, ClearKept
<1>14. QED
  BY <1>1, <1>11, <1>13 DEF IndInv, StepInv

-----------------------------------------------------------------------------
(* The server's handlers *)

(* The oldest command of q turns the mappings ms, the answers ret and the   *)
(* objects known into ms1, ret1 and known1.                                 *)
MovesOn(q, v, server, ms, ret, known, ms1, ret1, known1) ==
  /\ \A m \in ms : m.tag.id \in Ids
  /\ \A m \in ms1 : \/ m \in ms
                    \/ IsMap(Head(q)) /\ m.tag = MapTag(q, v, 1)
  /\ \A m \in ms1 : m \in ms /\ m.waiting =>
       ~(Head(q).op = "unmap" /\ Head(q).id = m.tag.id /\ m.tag.serial = server.serial[m.tag.id])
  /\ \A k \in DOMAIN ret1 : \/ \E j \in DOMAIN ret : ret1[k].tag = ret[j].tag
                            \/ \E m \in ms : ret1[k].tag = m.tag
                            \/ IsMap(Head(q)) /\ ret1[k].tag = MapTag(q, v, 1)
  /\ \A m \in ms1, k \in DOMAIN ret1 : m.waiting => m.tag # ret1[k].tag
  /\ \A id \in DOMAIN known : ~EndsMapping(Head(q), id) =>
       id \in DOMAIN known1 /\ known1[id] = known[id]

(* A command is taken from a queue that is in order. *)
LEMMA PopQueue ==
  ASSUME NEW q \in Seq(Commands), q # <<>>, NEW v, NEW server, NEW client,
         NEW ms, NEW ret, NEW used, NEW waiting, NEW known,
         Queue(q, v, server, client, ms, ret, used, waiting, known),
         NEW ms1, NEW ret1, NEW known1,
         MovesOn(q, v, server, ms, ret, known, ms1, ret1, known1)
  PROVE  /\ Tail(v) \in Seq(View)
         /\ Queue(Tail(q), Tail(v), v[2], client, ms1, ret1, used, waiting, known1)
<1>1. /\ Trace(q, v, server, client)
      /\ TagsInv(q, v, ms, ret, used) /\ AfterEnds(q, v, waiting)
      /\ WritesInv(q, v, ms, waiting) /\ UpdatesInv(q, known)
  BY DEF Queue
<1>2. /\ Trace(Tail(q), Tail(v), v[2], client) /\ Tail(v) \in Seq(View)
  BY <1>1, PopTrace, PopFacts
<1>3. TagsInv(Tail(q), Tail(v), ms1, ret1, used)
  BY <1>1, PopTags DEF MovesOn
<1>4. AfterEnds(Tail(q), Tail(v), waiting)
  BY <1>1, PopAfterEnds
<1>5. WritesInv(Tail(q), Tail(v), ms1, waiting)
  <2>1. ASSUME NEW m \in ms1, m.waiting, m.tag.write
        PROVE  \/ m \in ms /\ ~(Head(q).op = "unmap" /\ Head(q).id = m.tag.id)
               \/ Head(q).op = "mapWrite" /\ m.tag = MapTag(q, v, 1)
    <3>1. CASE m \in ms
      <4>1. server.serial[m.tag.id] = m.tag.serial
        BY <1>1, <2>1, <3>1 DEF WritesInv, Trace
      <4>2. QED
        BY <2>1, <3>1, <4>1 DEF MovesOn
    <3>2. CASE IsMap(Head(q)) /\ m.tag = MapTag(q, v, 1)
      <4>1. q[1] = Head(q)
        BY <1>1, PopFacts
      <4>2. m.tag.write = (q[1].op = "mapWrite")
        BY <3>2 DEF MapTag, Tag
      <4>3. q[1].op = "mapWrite"
        BY <2>1, <4>2
      <4>4. QED
        BY <3>2, <4>1, <4>3
    <3>3. QED
      BY <2>1, <3>1, <3>2 DEF MovesOn
  <2>2. \A m \in ms : m.tag.id \in Ids \cup {0}
    BY DEF MovesOn
  <2>3. QED
    BY <1>1, <2>1, <2>2, PopWrites
<1>6. UpdatesInv(Tail(q), known1)
  BY <1>1, PopUpdates DEF MovesOn
<1>7. QED
  BY <1>2, <1>3, <1>4, <1>5, <1>6 DEF Queue

(* Views with the same members are the same. *)
LEMMA SameViews ==
  \A v, w \in View : v.size = w.size /\ v.known = w.known /\ v.serial = w.serial => v = w
<1>1. \A v \in View : v = [size |-> v.size, known |-> v.known, serial |-> v.serial]
  BY DEF View
<1>2. QED
  BY <1>1

(* What the server knows before it handles a command. *)
LEMMA HandlerFacts ==
  ASSUME StepInv, commands # <<>>,
         NEW v, Queue(commands, v, ServerView, ClientView, maps, returns,
                      UsedTags, WaitingTags, mKnown)
  PROVE  LET c == Head(commands) IN
         /\ c \in Commands /\ c.id \in Ids /\ c = commands[1] /\ 1 \in DOMAIN commands
         /\ c.op \in {"create", "mapRead", "mapWrite", "update", "unmap", "destroy"}
         /\ v[2] \in View /\ ViewStep(ServerView, c, v[2])
         /\ DOMAIN mKnown = 1 .. Len(mKnown) /\ DOMAIN mKnown \subseteq Ids
         /\ Len(mKnown) \in Nat
         /\ \A m \in maps : m.tag.id \in Ids /\ m.tag.id \in DOMAIN mKnown
         /\ c.op # "create" => Known(c.id)
         /\ \A id \in DOMAIN mKnown : ServerView.serial[id] = mKnown[id].serial
         /\ IsMap(c) => MapTag(commands, v, 1)
                          = Tag(c.id, mKnown[c.id].serial, c.arg, c.op = "mapWrite")
<1> DEFINE c == Head(commands)
<1>1. ViewsOK /\ commands \in Seq(Commands)
  BY QueueFacts
<1>2. Trace(commands, v, ServerView, ClientView)
  BY DEF Queue
<1>3. /\ c \in Commands /\ c.id \in Ids /\ c = commands[1] /\ 1 \in DOMAIN commands
      /\ v[1] = ServerView
      /\ v[2] \in View /\ ViewStep(ServerView, c, v[2])
      /\ MapTag(commands, v, 1) = Tag(c.id, ServerView.serial[c.id], c.arg, c.op = "mapWrite")
  BY <1>1, <1>2, PopFacts
<1>4. c.op \in {"create", "mapRead", "mapWrite", "update", "unmap", "destroy"}
  BY <1>3 DEF Commands
<1>5. DOMAIN mKnown = 1 .. Len(mKnown) /\ Len(mKnown) \in Nat
  BY ServerTypes DEF StepInv
<1>6. DOMAIN mKnown \subseteq Ids
  <2>1. 1 \in DOMAIN v
    BY <1>1, <1>2, <1>3, TraceDomains
  <2>2. ServerView.size <= ClientView.size
    BY <1>2, <1>3, <2>1 DEF Trace
  <2>3. Len(mKnown) <= Len(mObjects)
    BY <1>1, <2>2 DEF ViewsOK
  <2>4. Len(mObjects) <= MaxIds /\ Len(mObjects) \in Nat /\ MaxIds \in Nat
    BY LenProperties, BoundAssumption DEF StepInv, TypeOK
  <2>5. QED
    BY <1>5, <2>3, <2>4 DEF Ids
<1>7. \A m \in maps : m.tag.id \in Ids /\ m.tag.id \in DOMAIN mKnown
  BY <1>6 DEF StepInv, IndInv, NativeInv
<1> HIDE DEF c
<1>8. c.op # "create" => Known(c.id)
  BY <1>1, <1>3 DEF ViewStep, ViewsOK
<1>9. \A id \in DOMAIN mKnown : ServerView.serial[id] = mKnown[id].serial
  BY <1>1, <1>6 DEF ViewsOK
<1>10. IsMap(c) => MapTag(commands, v, 1)
                     = Tag(c.id, mKnown[c.id].serial, c.arg, c.op = "mapWrite")
  BY <1>3, <1>8, <1>9 DEF IsMap, Known
<1>11. QED
  BY <1>3, <1>4, <1>5, <1>6, <1>7, <1>8, <1>9, <1>10 DEF c

(* A handler that does not fail, ends no mapping that it is not told to end *)
(* and leads to the next view keeps the queue and the client in order.      *)
LEMMA Handled ==
  ASSUME StepInv, ServerHandles,
         NEW v, Queue(commands, v, ServerView, ClientView, maps, returns,
                      UsedTags, WaitingTags, mKnown),
         ServerView' = v[2],
         \A m \in maps' : \/ m \in maps
                          \/ IsMap(Head(commands)) /\ m.tag = MapTag(commands, v, 1),
         \A m \in maps' : m \in maps /\ m.waiting =>
           ~(/\ Head(commands).op = "unmap" /\ Head(commands).id = m.tag.id
             /\ m.tag.serial = mKnown[m.tag.id].serial),
         \A k \in DOMAIN returns' :
           \/ \E j \in DOMAIN returns : returns'[k] = returns[j]
           \/ /\ \/ \E m \in maps : returns'[k].tag = m.tag
                 \/ IsMap(Head(commands)) /\ returns'[k].tag = MapTag(commands, v, 1)
              /\ returns'[k].status # "SUCCESS",
         \A m \in maps', k \in DOMAIN returns' : m.waiting => m.tag # returns'[k].tag,
         \A id \in DOMAIN mKnown : ~EndsMapping(Head(commands), id) =>
           id \in DOMAIN mKnown' /\ mKnown'[id] = mKnown[id],
         \A m \in maps : ~m.waiting /\ ~EndsMapping(Head(commands), m.tag.id) => m \in maps'
  PROVE  QueueInv' /\ HeldInv' /\ GrantedInv'
<1> DEFINE c == Head(commands)
<1>1. /\ UNCHANGED <<mObjects, requests, tag, answer>> /\ commands # <<>>
      /\ commands' = Tail(commands)
  BY DEF ServerHandles, clientVars, answerVars
<1>2. UsedTags' = UsedTags /\ WaitingTags' = WaitingTags /\ ClientView' = ClientView
      /\ \A r \in Requests : Used(r)' <=> Used(r)
  BY <1>1 DEF UsedTags, WaitingTags, ClientView, Live, Used
<1>3. commands \in Seq(Commands)
  BY QueueFacts
<1>4. /\ c = commands[1] /\ 1 \in DOMAIN commands
      /\ \A m \in maps : m.tag.id \in Ids /\ m.tag.id \in DOMAIN mKnown
      /\ \A id \in DOMAIN mKnown : ServerView.serial[id] = mKnown[id].serial
  BY <1>1, HandlerFacts
<1>5. QueueInv'
  <2> DEFINE ms1 == maps'
             ret1 == returns'
             known1 == mKnown'
  <2>1. MovesOn(commands, v, ServerView, maps, returns, mKnown, ms1, ret1, known1)
    <3>1. \A m \in maps : m.tag.id \in Ids
      BY <1>4
    <3>2. \A m \in ms1 : m \in maps /\ m.waiting =>
            ~(c.op = "unmap" /\ c.id = m.tag.id /\ m.tag.serial = ServerView.serial[m.tag.id])
      BY <1>4
    <3>3. \A k \in DOMAIN ret1 : \/ \E j \in DOMAIN returns : ret1[k].tag = returns[j].tag
                                 \/ \E m \in maps : ret1[k].tag = m.tag
                                 \/ IsMap(c) /\ ret1[k].tag = MapTag(commands, v, 1)
      OBVIOUS
    <3>4. QED
      BY <3>1, <3>2, <3>3 DEF MovesOn
  <2> HIDE DEF ms1, ret1, known1
  <2>2. /\ Tail(v) \in Seq(View)
        /\ Queue(Tail(commands), Tail(v), v[2], ClientView, ms1, ret1, UsedTags, WaitingTags,
                 known1)
    BY <1>1, <1>3, <2>1, PopQueue
  <2>3. QED
    BY <1>1, <1>2, <2>2 DEF QueueInv, ms1, ret1, known1
<1>6. ASSUME NEW r \in Requests, OnServer(r), ~EndsMapping(c, tag[r].id) PROVE OnServer(r)'
  <2> DEFINE m == [tag |-> tag[r], waiting |-> FALSE]
             id == tag[r].id
  <2>1. /\ m \in maps /\ Known(id) /\ mKnown[id].serial = tag[r].serial
        /\ tag[r].write => mKnown[id].mappedData = tag[r]
    BY <1>6 DEF OnServer
  <2>2. m \in maps'
    BY <1>6, <2>1
  <2>3. id \in DOMAIN mKnown' /\ mKnown'[id] = mKnown[id]
    BY <1>6, <2>1 DEF Known
  <2>4. QED
    BY <1>1, <2>1, <2>2, <2>3 DEF OnServer, Known
<1>7. HeldInv'
  <2> SUFFICES ASSUME NEW id \in DOMAIN mObjects, NEW r \in Requests, mObjects[id].mapped = r
               PROVE  /\ Used(r) /\ r \notin requests
                      /\ tag[r].id = id /\ tag[r].serial = mObjects[id].serial /\ Live(id)
                      /\ OnServer(r)'
                      /\ \A i \in DOMAIN commands' : ~EndsMapping(commands'[i], id)
    BY <1>1, <1>2 DEF HeldInv, Live
  <2>1. /\ Used(r) /\ r \notin requests
        /\ tag[r].id = id /\ tag[r].serial = mObjects[id].serial /\ Live(id)
        /\ OnServer(r)
        /\ \A i \in DOMAIN commands : ~EndsMapping(commands[i], id)
    BY DEF StepInv, IndInv, HeldInv
  <2>2. \A i \in DOMAIN commands' : i + 1 \in DOMAIN commands /\ commands'[i] = commands[i + 1]
    BY <1>1, <1>3, Popped
  <2>3. QED
    BY <1>4, <1>6, <2>1, <2>2
<1>8. GrantedInv'
  <2> SUFFICES ASSUME NEW k \in DOMAIN returns', NEW r \in requests,
                      returns'[k].status = "SUCCESS", returns'[k].tag = tag[r]
               PROVE  OnServer(r)' /\ mObjects[tag[r].id].mapped = NoRequest
    BY <1>1 DEF GrantedInv
  <2>1. PICK j \in DOMAIN returns : returns'[k] = returns[j]
    OBVIOUS
  <2>2. r \in Requests /\ OnServer(r) /\ mObjects[tag[r].id].mapped = NoRequest
    BY <2>1 DEF StepInv, IndInv, GrantedInv, TypeOK
  <2>3. ~EndsMapping(c, tag[r].id)
    <3>1. SUFFICES ASSUME EndsMapping(commands[1], tag[r].id) PROVE FALSE
      BY <1>4
    <3>2. tag[r] \in WaitingTags
      BY DEF WaitingTags
    <3>3. \E i \in DOMAIN commands : IsMap(commands[i]) /\ MapTag(commands, v, i) = tag[r]
      BY <1>4, <3>1, <3>2 DEF Queue, AfterEnds
    <3>4. QED
      BY <2>1, <3>3 DEF Queue, TagsInv
  <2>4. QED
    BY <1>6, <2>2, <2>3
<1>9. QED
  BY <1>5, <1>7, <1>8

(* A server that has not changed its objects has the view it had. *)
LEMMA SameServerView ==
  ASSUME StepInv, TypeOK', NEW c, NEW w \in View, ViewStep(ServerView, c, w),
         c.op \notin {"create", "destroy"},
         Len(mKnown') = Len(mKnown), DOMAIN mKnown' = DOMAIN mKnown,
         \A id \in DOMAIN mKnown : /\ mKnown'[id].allocated = mKnown[id].allocated
                                   /\ mKnown'[id].serial = mKnown[id].serial
  PROVE  ServerView' = w
<1>1. \A id \in Ids : Known(id)' <=> Known(id)
  BY DEF Known
<1>2. ServerView' = ServerView
  BY <1>1 DEF ServerView
<1>3. ServerView \in View
  BY QueueFacts DEF ViewsOK
<1>4. w.size = ServerView.size /\ w.known = ServerView.known /\ w.serial = ServerView.serial
  BY DEF ViewStep
<1>5. QED
  BY <1>2, <1>3, <1>4, SameViews

(* The id of a new buffer is free on the server too. *)
LEMMA HandleCreateStep ==
  ASSUME StepInv, TypeOK', ServerHandles, HandleCreate(Head(commands))
  PROVE  IndInv'
<1> DEFINE c == Head(commands)
<1>0. commands # <<>>
  BY DEF ServerHandles
<1>1. PICK v : Queue(commands, v, ServerView, ClientView, maps, returns,
                     UsedTags, WaitingTags, mKnown)
  BY DEF StepInv, IndInv, QueueInv
<1>2. /\ c.id \in Ids /\ v[2] \in View /\ ViewStep(ServerView, c, v[2])
      /\ DOMAIN mKnown = 1 .. Len(mKnown) /\ DOMAIN mKnown \subseteq Ids /\ Len(mKnown) \in Nat
      /\ \A id \in DOMAIN mKnown : ServerView.serial[id] = mKnown[id].serial
      /\ c.op = "create"
  BY <1>0, <1>1, HandlerFacts DEF HandleCreate
<1>3. ViewsOK /\ ViewsOK'
  BY Views, QueueFacts, PTL
<1>4. /\ c.id <= Len(mKnown) + 1 /\ ~Known(c.id)
      /\ c.id \in DOMAIN mKnown => mKnown[c.id].serial < c.arg
      /\ v[2].size = IF c.id > Len(mKnown) THEN c.id ELSE Len(mKnown)
      /\ v[2].known = ServerView.known \cup {c.id}
      /\ v[2].serial = [ServerView.serial EXCEPT ![c.id] = c.arg]
  <2>1. /\ c.id <= ServerView.size + 1 /\ c.id \notin ServerView.known
        /\ c.id <= ServerView.size => ServerView.serial[c.id] < c.arg
        /\ v[2].size = IF c.id > ServerView.size THEN c.id ELSE ServerView.size
        /\ v[2].known = ServerView.known \cup {c.id}
        /\ v[2].serial = [ServerView.serial EXCEPT ![c.id] = c.arg]
    BY <1>2 DEF ViewStep
  <2>2. ServerView.size = Len(mKnown) /\ (c.id \in ServerView.known <=> Known(c.id))
    BY <1>2, <1>3 DEF ViewsOK
  <2>3. c.id \in DOMAIN mKnown => c.id <= Len(mKnown)
    BY <1>2
  <2> HIDE DEF c
  <2>4. QED
    BY <1>2, <2>1, <2>2, <2>3
<1>5. PICK valid \in BOOLEAN :
        /\ mKnown' = Allocate(c.id, [allocated |-> TRUE, serial |-> c.arg, valid |-> valid,
                                     mappedData |-> NoTag])
        /\ UNCHANGED <<maps, returns, failed>>
  <2>1. c.id \in Nat
    BY <1>2, BoundAssumption DEF Ids
  <2>2. ~(c.id > Len(mKnown) + 1 \/ Known(c.id))
    BY <1>2, <1>4, <2>1
  <2>3. QED
    BY <2>2 DEF HandleCreate
<1> DEFINE data == [allocated |-> TRUE, serial |-> c.arg, valid |-> valid, mappedData |-> NoTag]
<1>6. data.allocated = TRUE /\ data.serial = c.arg /\ data.mappedData = NoTag
  OBVIOUS
<1>7. data \in ObjectData /\ c.id \in Nat
  <2>1. c \in Commands
    BY <1>0, <1>1, HandlerFacts
  <2>2. c.arg \in 0 .. MaxSerial /\ c.id \in 1 .. MaxIds
    BY <1>2, <2>1 DEF Commands
  <2>3. QED
    BY <2>2, BoundAssumption, ServerTypes DEF ObjectData, StepInv
<1> HIDE DEF data, c
<1>8. /\ DOMAIN mKnown' = DOMAIN mKnown \cup {c.id} /\ mKnown'[c.id] = data
      /\ \A id \in DOMAIN mKnown : id # c.id => mKnown'[id] = mKnown[id]
      /\ Len(mKnown') = IF c.id > Len(mKnown) THEN c.id ELSE Len(mKnown)
  <2>1. CASE c.id > Len(mKnown)
    <3>1. mKnown' = Append(mKnown, data) /\ c.id = Len(mKnown) + 1
      BY <1>2, <1>4, <1>5, <1>7, <2>1 DEF Allocate, data
    <3>2. QED
      BY <1>7, <2>1, <3>1, Appended DEF StepInv, TypeOK
  <2>2. CASE ~(c.id > Len(mKnown))
    <3>1. mKnown' = [mKnown EXCEPT ![c.id] = data]
      BY <1>5, <2>2 DEF Allocate, data
    <3>2. c.id \in DOMAIN mKnown
      BY <1>2, <1>7, <2>2 DEF Ids
    <3>3. /\ Len(mKnown') = Len(mKnown) /\ DOMAIN mKnown' = DOMAIN mKnown
          /\ mKnown'[c.id] = data /\ \A id \in DOMAIN mKnown : id # c.id => mKnown'[id] = mKnown[id]
      BY <1>7, <3>1, <3>2, Replaced DEF StepInv, TypeOK
    <3>4. QED
      BY <2>2, <3>2, <3>3
  <2>3. QED
    BY <2>1, <2>2
<1>9. ServerView' = v[2]
  <2>1. \A id \in Ids : Known(id)' <=> (Known(id) \/ id = c.id)
    BY <1>6, <1>8 DEF Known
  <2>2. {id \in Ids : Known(id)}' = {id \in Ids : Known(id)} \cup {c.id}
    BY <1>2, <2>1
  <2>3. ServerView'.known = v[2].known
    BY <1>4, <2>2 DEF ServerView
  <2>4. ServerView'.serial = [ServerView.serial EXCEPT ![c.id] = c.arg]
    BY <1>2, <1>6, <1>8 DEF ServerView
  <2>5. ServerView'.size = v[2].size
    BY <1>4, <1>8 DEF ServerView
  <2>6. ServerView' \in View
    BY <1>3 DEF ViewsOK
  <2>7. ServerView'.serial = v[2].serial
    BY <1>4, <2>4
  <2>8. QED
    BY <1>2, <2>3, <2>5, <2>6, <2>7, SameViews
<1>10. QueueInv' /\ HeldInv' /\ GrantedInv'
  <2>1. /\ \A m \in maps' : m \in maps
        /\ \A k \in DOMAIN returns' : k \in DOMAIN returns /\ returns'[k] = returns[k]
        /\ \A m \in maps', k \in DOMAIN returns' : m.waiting => m.tag # returns'[k].tag
    BY <1>1, <1>5 DEF Queue, TagsInv
  <2>2. \A id \in DOMAIN mKnown : ~EndsMapping(c, id) =>
          id \in DOMAIN mKnown' /\ mKnown'[id] = mKnown[id]
    BY <1>2, <1>8 DEF EndsMapping
  <2>3. c.op # "unmap"
    BY <1>2
  <2>4. QED
    BY <1>1, <1>5, <1>9, <2>1, <2>2, <2>3, Handled DEF c
<1>11. NativeInv'
  <2>1. \A m \in maps : /\ m.tag.id \in DOMAIN mKnown /\ m.tag.serial \in Nat
                        /\ m.tag.serial <= mKnown[m.tag.id].serial
                        /\ Known(m.tag.id) /\ m.tag.serial = mKnown[m.tag.id].serial
                             => mKnown[m.tag.id].valid
    BY ServerTypes, BoundAssumption DEF StepInv, IndInv, NativeInv, Tags
  <2>2. \A id \in DOMAIN mKnown : mKnown[id].serial \in Nat
    BY ServerTypes, BoundAssumption DEF StepInv, ObjectData
  <2>3. c.arg \in Nat
    BY <1>6, <1>7, BoundAssumption DEF ObjectData
  <2>4. ASSUME NEW m \in maps
        PROVE  /\ m.tag.id \in DOMAIN mKnown'
               /\ m.tag.serial <= mKnown'[m.tag.id].serial
               /\ Known(m.tag.id)' /\ m.tag.serial = mKnown'[m.tag.id].serial
                    => mKnown'[m.tag.id].valid
    <3>1. CASE m.tag.id = c.id
      BY <1>4, <1>6, <1>8, <2>1, <2>2, <2>3, <3>1
    <3>2. CASE m.tag.id # c.id
      BY <1>8, <2>1, <3>2 DEF Known
    <3>3. QED
      BY <3>1, <3>2
  <2>5. PointerIsMapped'
    <3> SUFFICES ASSUME NEW id \in DOMAIN mKnown', Known(id)', mKnown'[id].mappedData # NoTag
                 PROVE  /\ mKnown'[id].mappedData.write
                        /\ [tag |-> mKnown'[id].mappedData, waiting |-> FALSE] \in NativeMaps(id)'
      BY DEF PointerIsMapped
    <3>1. id # c.id /\ id \in DOMAIN mKnown /\ mKnown'[id] = mKnown[id]
      BY <1>6, <1>8
    <3>2. NativeMaps(id)' = NativeMaps(id) /\ Known(id)
      BY <1>5, <1>8, <3>1 DEF NativeMaps, Known
    <3>3. QED
      BY <3>1, <3>2 DEF StepInv, IndInv, NativeInv, PointerIsMapped
  <2>6. QED
    BY <1>5, <2>4, <2>5 DEF StepInv, IndInv, NativeInv
<1>12. failed' = "none"
  BY <1>5 DEF StepInv, IndInv
<1>13. QED
  BY <1>10, <1>11, <1>12 DEF IndInv

(* The tag of a map request becomes that of a mapping or of an error. *)
LEMMA HandleMapStep ==
  ASSUME StepInv, TypeOK', ServerHandles, HandleMapAsync(Head(commands))
  PROVE  IndInv'
<1> DEFINE c == Head(commands)
           t == Tag(c.id, mKnown[c.id].serial, c.arg, c.op = "mapWrite")
           e == [tag |-> t, waiting |-> TRUE]
<1>0. commands # <<>>
  BY DEF ServerHandles
<1>1. PICK v : Queue(commands, v, ServerView, ClientView, maps, returns,
                     UsedTags, WaitingTags, mKnown)
  BY DEF StepInv, IndInv, QueueInv
<1>2. /\ IsMap(c) /\ c.op \notin {"create", "destroy", "unmap"}
      /\ \A id : ~EndsMapping(c, id)
  BY DEF HandleMapAsync, IsMap, EndsMapping
<1>3. /\ v[2] \in View /\ ViewStep(ServerView, c, v[2]) /\ Known(c.id)
      /\ MapTag(commands, v, 1) = t /\ c = commands[1] /\ 1 \in DOMAIN commands
  BY <1>0, <1>1, <1>2, HandlerFacts
<1>4. /\ UNCHANGED <<mKnown, failed>>
      /\ \/ returns' = Append(returns, [tag |-> t, status |-> "ERROR"]) /\ UNCHANGED maps
         \/ /\ mKnown[c.id].valid /\ NativeMaps(c.id) = {}
            /\ maps' = maps \cup {e} /\ UNCHANGED returns
  BY <1>3 DEF HandleMapAsync, Refuse, Reply
<1>5. ServerView' = v[2]
  BY <1>2, <1>3, <1>4, SameServerView
<1>6. /\ \A m \in maps : m.tag # t
      /\ \A k \in DOMAIN returns : /\ returns[k].tag # t
                                   /\ \A m \in maps : m.waiting => m.tag # returns[k].tag
  BY <1>2, <1>3, <1>1 DEF Queue, TagsInv
<1>7. e.tag = t /\ t.id = c.id /\ t.serial = mKnown[c.id].serial
  BY DEF Tag
<1>8. \A m \in maps' : m \in maps \/ m.tag = t
  BY <1>4, <1>7
<1>9. maps \subseteq maps'
  BY <1>4
<1>10. \A k \in DOMAIN returns' : \/ k \in DOMAIN returns /\ returns'[k] = returns[k]
                                  \/ /\ returns'[k].tag = t /\ returns'[k].status = "ERROR"
                                     /\ UNCHANGED maps
  <2>1. CASE UNCHANGED returns
    BY <2>1
  <2>2. CASE returns' = Append(returns, [tag |-> t, status |-> "ERROR"]) /\ UNCHANGED maps
    <3> DEFINE a == [tag |-> t, status |-> "ERROR"]
    <3>1. a.tag = t /\ a.status = "ERROR"
      OBVIOUS
    <3>2. a \in Returns
      <4>1. t \in Tags
        <5>1. mKnown[c.id] \in ObjectData /\ c \in Commands
          BY <1>0, <1>1, <1>3, ServerTypes, HandlerFacts DEF Known, StepInv
        <5>2. mKnown[c.id].serial \in 0 .. MaxSerial /\ c.id \in 0 .. MaxIds /\ c.arg \in Nat
          BY <5>1, BoundAssumption DEF ObjectData, Commands
        <5>3. QED
          BY <5>2 DEF Tag, Tags
      <4>2. QED
        BY <4>1 DEF Returns
    <3> HIDE DEF a
    <3>3. DOMAIN Append(returns, a) = DOMAIN returns \cup {Len(returns) + 1}
          /\ Append(returns, a)[Len(returns) + 1] = a
          /\ \A k \in DOMAIN returns : Append(returns, a)[k] = returns[k]
      BY <3>2, Appended DEF StepInv, TypeOK
    <3>4. QED
      BY <2>2, <3>1, <3>3 DEF a
  <2>3. QED
    BY <1>4, <2>1, <2>2
<1> HIDE DEF e, t, c
<1>11. \A m \in maps', k \in DOMAIN returns' : m.waiting => m.tag # returns'[k].tag
  <2> SUFFICES ASSUME NEW m \in maps', NEW k \in DOMAIN returns', m.waiting
               PROVE  m.tag # returns'[k].tag
    OBVIOUS
  <2>1. CASE k \in DOMAIN returns /\ returns'[k] = returns[k]
    BY <1>6, <1>8, <2>1
  <2>2. CASE returns'[k].tag = t /\ UNCHANGED maps
    BY <1>6, <2>2
  <2>3. QED
    BY <1>10, <2>1, <2>2
<1>12. QueueInv' /\ HeldInv' /\ GrantedInv'
  <2>1. \A m \in maps' : m \in maps \/ (IsMap(c) /\ m.tag = MapTag(commands, v, 1))
    BY <1>2, <1>3, <1>8
  <2>2. \A k \in DOMAIN returns' :
          \/ \E j \in DOMAIN returns : returns'[k] = returns[j]
          \/ /\ \/ \E m \in maps : returns'[k].tag = m.tag
                \/ IsMap(c) /\ returns'[k].tag = MapTag(commands, v, 1)
             /\ returns'[k].status # "SUCCESS"
    BY <1>2, <1>3, <1>10
  <2>3. c.op # "unmap"
    BY <1>2
  <2>4. \A id \in DOMAIN mKnown : id \in DOMAIN mKnown' /\ mKnown'[id] = mKnown[id]
    BY <1>4
  <2>5. QED
    BY <1>1, <1>5, <1>9, <1>11, <2>1, <2>2, <2>3, <2>4, Handled DEF c
<1>13. NativeInv'
  <2>1. CASE UNCHANGED maps
    BY <1>4, <2>1 DEF StepInv, IndInv, NativeInv, PointerIsMapped, NativeMaps, Known
  <2>2. CASE mKnown[c.id].valid /\ NativeMaps(c.id) = {} /\ maps' = maps \cup {e}
    <3>1. ASSUME NEW m \in maps' PROVE /\ m.tag.id \in DOMAIN mKnown
                                       /\ m.tag.serial <= mKnown[m.tag.id].serial
                                       /\ Known(m.tag.id) /\ m.tag.serial = mKnown[m.tag.id].serial
                                            => mKnown[m.tag.id].valid
      <4>1. CASE m \in maps
        BY <4>1 DEF StepInv, IndInv, NativeInv
      <4>2. CASE m = e
        <5>1. c.id \in DOMAIN mKnown
          BY <1>3 DEF Known
        <5>2. mKnown[c.id].serial \in Nat
          BY <5>1, ServerTypes, BoundAssumption DEF StepInv, ObjectData
        <5>3. QED
          BY <1>7, <2>2, <4>2, <5>1, <5>2
      <4>3. QED
        BY <2>2, <4>1, <4>2
    <3>2. \A m \in maps : ~(m.tag.id = c.id /\ m.tag.serial = mKnown[c.id].serial)
      BY <2>2 DEF NativeMaps
    <3>3. ASSUME NEW m \in maps', NEW n \in maps', m.tag.id = n.tag.id,
                 m.tag.serial = n.tag.serial
          PROVE  m = n
      <4>1. CASE m \in maps /\ n \in maps
        BY <3>3, <4>1 DEF StepInv, IndInv, NativeInv
      <4>2. CASE m = e \/ n = e
        BY <1>7, <2>2, <3>2, <3>3, <4>2
      <4>3. QED
        BY <2>2, <4>1, <4>2
    <3>4. PointerIsMapped'
      BY <1>4, <1>9 DEF StepInv, IndInv, NativeInv, PointerIsMapped, NativeMaps, Known
    <3>5. QED
      BY <1>4, <3>1, <3>3, <3>4 DEF NativeInv, Known
  <2>3. QED
    BY <1>4, <2>1, <2>2
<1>14. failed' = "none"
  BY <1>4 DEF StepInv, IndInv
<1>15. QED
  BY <1>12, <1>13, <1>14 DEF IndInv

(* What the application wrote finds the pointer of its mapping. *)
LEMMA HandleUpdateStep ==
  ASSUME StepInv, TypeOK', ServerHandles, HandleUpdateMappedData(Head(commands))
  PROVE  IndInv'
<1> DEFINE c == Head(commands)
<1>0. commands # <<>>
  BY DEF ServerHandles
<1>1. PICK v : Queue(commands, v, ServerView, ClientView, maps, returns,
                     UsedTags, WaitingTags, mKnown)
  BY DEF StepInv, IndInv, QueueInv
<1>2. /\ c.op = "update" /\ \A id : ~EndsMapping(c, id)
  BY DEF HandleUpdateMappedData, EndsMapping
<1>3. /\ v[2] \in View /\ ViewStep(ServerView, c, v[2]) /\ Known(c.id)
      /\ c = commands[1] /\ 1 \in DOMAIN commands
  BY <1>0, <1>1, <1>2, HandlerFacts
<1>4. mKnown[c.id].mappedData # NoTag /\ mKnown[c.id].mappedData.number = c.arg
  BY <1>1, <1>2, <1>3 DEF Queue, UpdatesInv
<1>5. mKnown[c.id].valid
  <2> DEFINE p == mKnown[c.id].mappedData
             m == [tag |-> p, waiting |-> FALSE]
  <2>1. m \in NativeMaps(c.id) /\ c.id \in DOMAIN mKnown
    BY <1>3, <1>4 DEF StepInv, IndInv, NativeInv, PointerIsMapped, Known
  <2> HIDE DEF m
  <2>2. m \in maps /\ m.tag.id = c.id /\ m.tag.serial = mKnown[c.id].serial
    BY <2>1 DEF NativeMaps
  <2>3. QED
    BY <1>3, <2>2 DEF StepInv, IndInv, NativeInv
<1>6. UNCHANGED <<serverVars, returns, failed, mKnown, maps>>
  BY <1>3, <1>4, <1>5 DEF HandleUpdateMappedData, serverVars
<1>7. ServerView' = v[2]
  BY <1>2, <1>3, <1>6, SameServerView
<1> HIDE DEF c
<1>8. QueueInv' /\ HeldInv' /\ GrantedInv'
  <2>1. \A m \in maps', k \in DOMAIN returns' : m.waiting => m.tag # returns'[k].tag
    BY <1>1, <1>6 DEF Queue, TagsInv
  <2>2. /\ maps' = maps /\ returns' = returns /\ mKnown' = mKnown /\ c.op # "unmap"
    BY <1>2, <1>6
  <2>3. QED
    BY <1>1, <1>7, <2>1, <2>2, Handled DEF c
<1>9. NativeInv' /\ failed' = "none"
  BY <1>6 DEF StepInv, IndInv, NativeInv, PointerIsMapped, NativeMaps, Known
<1>10. QED
  BY <1>8, <1>9 DEF IndInv

(* The mapping, waiting or not, ends; a request that waits is told so. *)
LEMMA HandleUnmapStep ==
  ASSUME StepInv, TypeOK', ServerHandles, HandleUnmap(Head(commands))
  PROVE  IndInv'
<1> DEFINE c == Head(commands)
           d == [mKnown[c.id] EXCEPT !.mappedData = NoTag]
<1>0. commands # <<>>
  BY DEF ServerHandles
<1>1. PICK v : Queue(commands, v, ServerView, ClientView, maps, returns,
                     UsedTags, WaitingTags, mKnown)
  BY DEF StepInv, IndInv, QueueInv
<1>2. c.op = "unmap" /\ c.op \notin {"create", "destroy"}
  BY DEF HandleUnmap
<1>3. /\ v[2] \in View /\ ViewStep(ServerView, c, v[2]) /\ Known(c.id)
      /\ c.id \in DOMAIN mKnown
  BY <1>0, <1>1, <1>2, HandlerFacts DEF Known
<1>4. /\ mKnown' = [mKnown EXCEPT ![c.id] = d]
      /\ maps' = maps \ NativeMaps(c.id) /\ UNCHANGED failed
      /\ \/ UNCHANGED returns
         \/ \E m \in NativeMaps(c.id) :
              returns' = Append(returns, [tag |-> m.tag, status |-> "UNKNOWN"])
  BY <1>3 DEF HandleUnmap, Reply, ResetMappedData
<1>5. mKnown[c.id] \in ObjectData
  BY <1>3, ServerTypes DEF StepInv
<1>6. /\ d \in ObjectData /\ d.allocated = mKnown[c.id].allocated
      /\ d.serial = mKnown[c.id].serial /\ d.mappedData = NoTag /\ d.valid = mKnown[c.id].valid
  BY <1>5, ServerTypes DEF ObjectData, StepInv
<1> HIDE DEF d, c
<1>7. /\ Len(mKnown') = Len(mKnown) /\ DOMAIN mKnown' = DOMAIN mKnown
      /\ mKnown'[c.id] = d /\ \A id \in DOMAIN mKnown : id # c.id => mKnown'[id] = mKnown[id]
  BY <1>3, <1>4, <1>6, Replaced DEF StepInv, TypeOK
<1>8. \A id \in DOMAIN mKnown : /\ mKnown'[id].allocated = mKnown[id].allocated
                                /\ mKnown'[id].serial = mKnown[id].serial
                                /\ mKnown'[id].valid = mKnown[id].valid
  BY <1>6, <1>7
<1>9. ServerView' = v[2]
  BY <1>2, <1>3, <1>7, <1>8, SameServerView
<1>10. \A m \in maps : m \notin maps' <=> m.tag.id = c.id /\ m.tag.serial = mKnown[c.id].serial
  BY <1>4 DEF NativeMaps
<1>11. \A k \in DOMAIN returns' : \/ k \in DOMAIN returns /\ returns'[k] = returns[k]
                                  \/ \E m \in NativeMaps(c.id) :
                                       /\ m \in maps /\ returns'[k].tag = m.tag
                                       /\ returns'[k].status = "UNKNOWN"
  <2>1. CASE UNCHANGED returns
    BY <2>1
  <2>2. ASSUME NEW m \in NativeMaps(c.id),
               returns' = Append(returns, [tag |-> m.tag, status |-> "UNKNOWN"])
        PROVE  \A k \in DOMAIN returns' : \/ k \in DOMAIN returns /\ returns'[k] = returns[k]
                                          \/ /\ m \in maps /\ returns'[k].tag = m.tag
                                             /\ returns'[k].status = "UNKNOWN"
    <3> DEFINE a == [tag |-> m.tag, status |-> "UNKNOWN"]
    <3>1. a.tag = m.tag /\ a.status = "UNKNOWN" /\ m \in maps
      BY DEF NativeMaps
    <3>2. a \in Returns
      BY <3>1, ServerTypes DEF Returns, StepInv
    <3> HIDE DEF a
    <3>3. DOMAIN Append(returns, a) = DOMAIN returns \cup {Len(returns) + 1}
          /\ Append(returns, a)[Len(returns) + 1] = a
          /\ \A k \in DOMAIN returns : Append(returns, a)[k] = returns[k]
      BY <3>2, Appended DEF StepInv, TypeOK
    <3>4. QED
      BY <2>2, <3>1, <3>3 DEF a
  <2>3. QED
    BY <1>4, <2>1, <2>2
<1>12. \A m \in maps', k \in DOMAIN returns' : m.waiting => m.tag # returns'[k].tag
  <2> SUFFICES ASSUME NEW m \in maps', NEW k \in DOMAIN returns', m.waiting
               PROVE  m.tag # returns'[k].tag
    OBVIOUS
  <2>1. m \in maps /\ ~(m.tag.id = c.id /\ m.tag.serial = mKnown[c.id].serial)
    BY <1>4, <1>10
  <2>2. CASE k \in DOMAIN returns /\ returns'[k] = returns[k]
    BY <1>1, <2>1, <2>2 DEF Queue, TagsInv
  <2>3. CASE \E n \in NativeMaps(c.id) : returns'[k].tag = n.tag
    BY <2>1, <2>3 DEF NativeMaps
  <2>4. QED
    BY <1>11, <2>2, <2>3
<1>13. QueueInv' /\ HeldInv' /\ GrantedInv'
  <2>1. \A m \in maps' : m \in maps
    BY <1>4
  <2>2. \A m \in maps' : ~(c.id = m.tag.id /\ m.tag.serial = mKnown[m.tag.id].serial)
    BY <1>10, <2>1
  <2>3. \A k \in DOMAIN returns' :
          \/ \E j \in DOMAIN returns : returns'[k] = returns[j]
          \/ (\E m \in maps : returns'[k].tag = m.tag) /\ returns'[k].status # "SUCCESS"
    BY <1>11
  <2>4. \A id \in DOMAIN mKnown : ~EndsMapping(c, id) =>
          id \in DOMAIN mKnown' /\ mKnown'[id] = mKnown[id]
    BY <1>2, <1>7 DEF EndsMapping
  <2>5. \A m \in maps : ~EndsMapping(c, m.tag.id) => m \in maps'
    BY <1>2, <1>10 DEF EndsMapping
  <2>6. QED
    BY <1>1, <1>9, <1>12, <2>1, <2>2, <2>3, <2>4, <2>5, Handled DEF c
<1>14. NativeInv'
  <2>1. \A m \in maps' : m \in maps
    BY <1>4
  <2>2. PointerIsMapped'
    <3> SUFFICES ASSUME NEW id \in DOMAIN mKnown', Known(id)', mKnown'[id].mappedData # NoTag
                 PROVE  /\ mKnown'[id].mappedData.write
                        /\ [tag |-> mKnown'[id].mappedData, waiting |-> FALSE] \in NativeMaps(id)'
      BY DEF PointerIsMapped
    <3>1. id # c.id /\ id \in DOMAIN mKnown /\ mKnown'[id] = mKnown[id]
      BY <1>6, <1>7
    <3>2. NativeMaps(id)' = NativeMaps(id)
      BY <1>10, <2>1, <3>1 DEF NativeMaps
    <3>3. Known(id)
      BY <1>7, <3>1 DEF Known
    <3>4. QED
      BY <3>1, <3>2, <3>3 DEF StepInv, IndInv, NativeInv, PointerIsMapped
  <2>3. \A id : Known(id)' <=> Known(id)
    BY <1>7, <1>8 DEF Known
  <2>4. QED
    BY <1>7, <1>8, <2>1, <2>2, <2>3 DEF StepInv, IndInv, NativeInv
<1>15. failed' = "none"
  BY <1>4 DEF StepInv, IndInv
<1>16. QED
  BY <1>13, <1>14, <1>15 DEF IndInv

(* The buffer is forgotten; only a request that waits outlives it. *)
LEMMA HandleDestroyStep ==
  ASSUME StepInv, TypeOK', ServerHandles, HandleDestroy(Head(commands))
  PROVE  IndInv'
<1> DEFINE c == Head(commands)
           d == [mKnown[c.id] EXCEPT !.allocated = FALSE]
<1>0. commands # <<>>
  BY DEF ServerHandles
<1>1. PICK v : Queue(commands, v, ServerView, ClientView, maps, returns,
                     UsedTags, WaitingTags, mKnown)
  BY DEF StepInv, IndInv, QueueInv
<1>2. c.op = "destroy"
  BY DEF HandleDestroy
<1>3. /\ v[2] \in View /\ ViewStep(ServerView, c, v[2]) /\ Known(c.id)
      /\ c.id \in DOMAIN mKnown /\ c.id \in Ids
  BY <1>0, <1>1, <1>2, HandlerFacts DEF Known
<1>4. /\ mKnown' = [mKnown EXCEPT ![c.id] = d]
      /\ maps' \subseteq maps /\ UNCHANGED <<returns, failed>>
      /\ \A m \in maps : m \notin maps' => m.tag.id = c.id
  BY <1>3 DEF HandleDestroy, NativeMaps
<1>5. mKnown[c.id] \in ObjectData
  BY <1>3, ServerTypes DEF StepInv
<1>6. d \in ObjectData /\ d.allocated = FALSE /\ d.serial = mKnown[c.id].serial
  BY <1>5 DEF ObjectData
<1> HIDE DEF d, c
<1>7. /\ Len(mKnown') = Len(mKnown) /\ DOMAIN mKnown' = DOMAIN mKnown
      /\ mKnown'[c.id] = d /\ \A id \in DOMAIN mKnown : id # c.id => mKnown'[id] = mKnown[id]
  BY <1>3, <1>4, <1>6, Replaced DEF StepInv, TypeOK
<1>8. \A id \in DOMAIN mKnown : mKnown'[id].serial = mKnown[id].serial
  BY <1>6, <1>7
<1>9. \A id : Known(id)' <=> Known(id) /\ id # c.id
  BY <1>6, <1>7 DEF Known
<1>10. ServerView' = v[2]
  <2>1. {id \in Ids : Known(id)}' = {id \in Ids : Known(id)} \ {c.id}
    BY <1>9
  <2>2. ServerView'.known = v[2].known
    BY <1>2, <1>3, <2>1 DEF ServerView, ViewStep
  <2>3. ServerView'.serial = ServerView.serial
    BY <1>7, <1>8 DEF ServerView
  <2>4. ServerView'.size = ServerView.size
    BY <1>7 DEF ServerView
  <2>5. v[2].size = ServerView.size /\ v[2].serial = ServerView.serial
    BY <1>2, <1>3 DEF ViewStep
  <2>6. ViewsOK'
    BY Views, PTL
  <2>7. ServerView' \in View
    BY <2>6 DEF ViewsOK
  <2>8. QED
    BY <1>3, <2>2, <2>3, <2>4, <2>5, <2>7, SameViews
<1>11. QueueInv' /\ HeldInv' /\ GrantedInv'
  <2>1. /\ \A m \in maps' : m \in maps
        /\ \A m \in maps', k \in DOMAIN returns' : m.waiting => m.tag # returns'[k].tag
    BY <1>1, <1>4 DEF Queue, TagsInv
  <2>2. /\ \A id \in DOMAIN mKnown : ~EndsMapping(c, id) =>
             id \in DOMAIN mKnown' /\ mKnown'[id] = mKnown[id]
        /\ \A m \in maps : ~EndsMapping(c, m.tag.id) => m \in maps'
    BY <1>2, <1>4, <1>7 DEF EndsMapping
  <2>3. c.op # "unmap" /\ returns' = returns
    BY <1>2, <1>4
  <2>4. QED
    BY <1>1, <1>10, <2>1, <2>2, <2>3, Handled DEF c
<1>12. NativeInv'
  <2>1. PointerIsMapped'
    <3> SUFFICES ASSUME NEW id \in DOMAIN mKnown', Known(id)', mKnown'[id].mappedData # NoTag
                 PROVE  /\ mKnown'[id].mappedData.write
                        /\ [tag |-> mKnown'[id].mappedData, waiting |-> FALSE] \in NativeMaps(id)'
      BY DEF PointerIsMapped
    <3>1. id # c.id /\ id \in DOMAIN mKnown /\ mKnown'[id] = mKnown[id] /\ Known(id)
      BY <1>7, <1>9
    <3>2. NativeMaps(id)' = NativeMaps(id)
      BY <1>4, <3>1 DEF NativeMaps
    <3>3. QED
      BY <3>1, <3>2 DEF StepInv, IndInv, NativeInv, PointerIsMapped
  <2>2. ASSUME NEW m \in maps'
        PROVE  /\ m.tag.id \in DOMAIN mKnown'
               /\ m.tag.serial <= mKnown'[m.tag.id].serial
               /\ Known(m.tag.id)' /\ m.tag.serial = mKnown'[m.tag.id].serial
                    => mKnown'[m.tag.id].valid
    <3>1. /\ m.tag.id \in DOMAIN mKnown /\ m.tag.serial <= mKnown[m.tag.id].serial
          /\ Known(m.tag.id) /\ m.tag.serial = mKnown[m.tag.id].serial => mKnown[m.tag.id].valid
      BY <1>4 DEF StepInv, IndInv, NativeInv
    <3>2. QED
      BY <1>7, <1>8, <1>9, <3>1
  <2>3. QED
    BY <1>4, <2>1, <2>2 DEF StepInv, IndInv, NativeInv
<1>13. failed' = "none"
  BY <1>4 DEF StepInv, IndInv
<1>14. QED
  BY <1>11, <1>12, <1>13 DEF IndInv

-----------------------------------------------------------------------------
(* The answers *)

(* The request of a mapping that waits or of an answer under way: nothing   *)
(* that ends its mapping is queued, so both sides agree about its buffer.   *)
LEMMA AnswerUnderWay ==
  ASSUME StepInv, NEW r \in requests,
         \/ \E m \in maps : m.tag = tag[r]
         \/ \E k \in DOMAIN returns : returns[k].tag = tag[r]
  PROVE  /\ \A i \in DOMAIN commands : ~EndsMapping(commands[i], tag[r].id)
         /\ Known(tag[r].id) /\ mKnown[tag[r].id].serial = tag[r].serial
<1> DEFINE id == tag[r].id
<1>1. PICK v \in Seq(View) : Queue(commands, v, ServerView, ClientView, maps, returns,
                                   UsedTags, WaitingTags, mKnown)
  BY DEF StepInv, IndInv, QueueInv
<1>2. tag[r] \in WaitingTags
  BY DEF WaitingTags
<1>3. \A i \in DOMAIN commands : ~EndsMapping(commands[i], id)
  BY <1>1, <1>2 DEF Queue, AfterEnds, TagsInv
<1>4. Live(id) /\ tag[r].serial = mObjects[id].serial /\ id \in DOMAIN mObjects /\ id \in Ids
  BY QueueFacts DEF StepInv, ClientInv, Live, ViewsOK
<1> HIDE DEF id
<1>5. 1 \in DOMAIN v /\ v[1] = ServerView
  BY <1>1, QueueFacts, TraceDomains DEF Queue, Trace
<1>6. /\ id \in ServerView.known <=> id \in ClientView.known
      /\ ServerView.serial[id] = ClientView.serial[id]
  <2>1. \A j \in DOMAIN commands : ~IsLife(commands[j], id)
    BY <1>3 DEF IsLife, EndsMapping, id
  <2>2. QED
    BY <1>1, <1>4, <1>5, <2>1 DEF Queue, Trace
<1>7. Known(id) /\ mKnown[id].serial = tag[r].serial
  BY <1>4, <1>6, QueueFacts DEF ViewsOK, Known
<1>8. QED
  BY <1>3, <1>7 DEF id

(* A completed request: the pointer of a write is that of a known buffer,   *)
(* and no update was meant for another mapping of it.                       *)
LEMMA BackendStep ==
  ASSUME StepInv, TypeOK', NEW m \in maps, BackendCompletes(m)
  PROVE  IndInv'
<1> DEFINE t == m.tag
           e == [tag |-> t, waiting |-> FALSE]
           a == [tag |-> t, status |-> "SUCCESS"]
<1>1. /\ m.waiting = TRUE /\ returns' = Append(returns, a) /\ a \in Returns
      /\ maps' = (maps \ {m}) \cup (IF Released(t) THEN {} ELSE {e})
      /\ \/ /\ t.write /\ Known(t.id)
            /\ mKnown' = [mKnown EXCEPT ![t.id] = [mKnown[t.id] EXCEPT !.mappedData = t]]
         \/ ~(t.write /\ Known(t.id)) /\ UNCHANGED mKnown
      /\ failed' = IF t.write /\ ~Known(t.id) THEN "assertion" ELSE failed
      /\ UNCHANGED <<clientVars, answerVars, commands>>
  BY BackendFacts DEF StepInv
<1>2. UNCHANGED <<mObjects, requests, tag, answer, commands>>
  BY <1>1 DEF clientVars, answerVars
<1>3. UsedTags' = UsedTags /\ WaitingTags' = WaitingTags /\ ClientView' = ClientView
      /\ \A r \in Requests : Used(r)' <=> Used(r)
  BY <1>2 DEF UsedTags, WaitingTags, ClientView, Live, Used
<1>4. PICK v \in Seq(View) : Queue(commands, v, ServerView, ClientView, maps, returns,
                                   UsedTags, WaitingTags, mKnown)
  BY DEF StepInv, IndInv, QueueInv
<1>5. commands \in Seq(Commands) /\ ViewsOK
      /\ /\ t \in Tags /\ t \in UsedTags /\ t.id \in Ids
      /\ t.id \in DOMAIN mKnown
  <2>1. t \in UsedTags
    BY <1>4 DEF Queue, TagsInv
  <2>2. QED
    BY <2>1, QueueFacts DEF StepInv, IndInv, NativeInv
<1>6. e.tag = t /\ e.waiting = FALSE /\ a.tag = t /\ a.status = "SUCCESS"
  OBVIOUS
<1> HIDE DEF e, a, t
<1>7. \A n \in maps : n.tag.id = t.id /\ n.tag.serial = t.serial => n = m
  BY DEF StepInv, IndInv, NativeInv, t
<1>8. t.write => Known(t.id) /\ mKnown[t.id].serial = t.serial /\ ~Released(t)
  <2> SUFFICES ASSUME t.write
               PROVE  Known(t.id) /\ mKnown[t.id].serial = t.serial
    BY DEF Released
  <2>1. t.id \in v[1].known /\ v[1].serial[t.id] = t.serial /\ v[1] = ServerView
    BY <1>1, <1>4 DEF Queue, WritesInv, Trace, t
  <2>2. QED
    BY <1>5, <2>1 DEF ViewsOK
<1>9. /\ DOMAIN mKnown' = DOMAIN mKnown /\ Len(mKnown') = Len(mKnown)
      /\ \A id \in DOMAIN mKnown :
           /\ mKnown'[id].allocated = mKnown[id].allocated
           /\ mKnown'[id].serial = mKnown[id].serial /\ mKnown'[id].valid = mKnown[id].valid
           /\ mKnown'[id].mappedData = IF t.write /\ id = t.id THEN t ELSE mKnown[id].mappedData
  <2>1. CASE /\ t.write /\ Known(t.id)
             /\ mKnown' = [mKnown EXCEPT ![t.id] = [mKnown[t.id] EXCEPT !.mappedData = t]]
    <3> DEFINE d == [mKnown[t.id] EXCEPT !.mappedData = t]
    <3>1. mKnown[t.id] \in ObjectData
      BY <1>5, ServerTypes DEF StepInv
    <3>2. /\ d \in ObjectData /\ d.allocated = mKnown[t.id].allocated
          /\ d.serial = mKnown[t.id].serial /\ d.mappedData = t /\ d.valid = mKnown[t.id].valid
      BY <1>5, <3>1 DEF ObjectData
    <3>3. mKnown' = [mKnown EXCEPT ![t.id] = d]
      BY <2>1
    <3> HIDE DEF d
    <3>4. /\ Len(mKnown') = Len(mKnown) /\ DOMAIN mKnown' = DOMAIN mKnown
          /\ mKnown'[t.id] = d /\ \A id \in DOMAIN mKnown : id # t.id => mKnown'[id] = mKnown[id]
      BY <1>5, <3>2, <3>3, Replaced DEF StepInv, TypeOK
    <3>5. QED
      BY <2>1, <3>2, <3>4
  <2>2. CASE ~(t.write /\ Known(t.id)) /\ UNCHANGED mKnown
    BY <1>8, <2>2
  <2>3. QED
    BY <1>1, <2>1, <2>2
<1>10. \A id : Known(id)' <=> Known(id)
  BY <1>9 DEF Known
<1>11. ServerView' = ServerView
  BY <1>9, <1>10 DEF ServerView
<1>12. /\ \A n \in maps' : (n \in maps /\ n # m) \/ (n = e /\ ~Released(t))
       /\ \A n \in maps : ~n.waiting => n \in maps'
       /\ ~Released(t) => e \in maps'
  BY <1>1
<1>13. /\ DOMAIN returns' = DOMAIN returns \cup {Len(returns) + 1}
       /\ returns'[Len(returns) + 1] = a
       /\ \A k \in DOMAIN returns : returns'[k] = returns[k]
  BY <1>1, Appended DEF StepInv, TypeOK
<1>14. \A k \in DOMAIN returns' : \/ k \in DOMAIN returns /\ returns'[k] = returns[k]
                                  \/ returns'[k] = a
  BY <1>13
<1>15. \A id \in DOMAIN mKnown : Known(id) /\ mKnown[id].mappedData # NoTag =>
          /\ mKnown[id].mappedData.write
          /\ [tag |-> mKnown[id].mappedData, waiting |-> FALSE] \in maps
          /\ mKnown[id].mappedData.id = id
          /\ mKnown[id].mappedData.serial = mKnown[id].serial
  <2> SUFFICES ASSUME NEW id \in DOMAIN mKnown, Known(id), mKnown[id].mappedData # NoTag
               PROVE  /\ mKnown[id].mappedData.write
                      /\ [tag |-> mKnown[id].mappedData, waiting |-> FALSE] \in maps
                      /\ mKnown[id].mappedData.id = id
                      /\ mKnown[id].mappedData.serial = mKnown[id].serial
    OBVIOUS
  <2> DEFINE p == [tag |-> mKnown[id].mappedData, waiting |-> FALSE]
  <2>1. mKnown[id].mappedData.write /\ p \in NativeMaps(id)
    BY DEF StepInv, IndInv, NativeInv, PointerIsMapped
  <2>2. p.tag = mKnown[id].mappedData
    OBVIOUS
  <2> HIDE DEF p
  <2>3. p \in maps /\ p.tag.id = id /\ p.tag.serial = mKnown[id].serial
    BY <2>1 DEF NativeMaps
  <2>4. QED
    BY <2>1, <2>2, <2>3 DEF p
<1>16. t.write => mKnown[t.id].mappedData = NoTag
  <2> SUFFICES ASSUME t.write, mKnown[t.id].mappedData # NoTag PROVE FALSE
    OBVIOUS
  <2> DEFINE p == [tag |-> mKnown[t.id].mappedData, waiting |-> FALSE]
  <2>1. p \in maps /\ p.tag.id = t.id /\ p.tag.serial = t.serial /\ p.waiting = FALSE
    BY <1>5, <1>8, <1>15
  <2> HIDE DEF p
  <2>2. p = m
    BY <1>7, <2>1
  <2>3. QED
    BY <1>1, <2>1, <2>2
<1>17. QueueInv'
  <2>1. TagsInv(commands, v, maps, returns, UsedTags)
    BY <1>4 DEF Queue
  <2>2. \A n \in maps' : /\ \E x \in maps : n.tag = x.tag
                         /\ n.waiting => n \in maps /\ n # m
    BY <1>6, <1>12 DEF t
  <2>3. TagsInv(commands, v, maps', returns', UsedTags)
    <3>1. ASSUME NEW i \in DOMAIN commands, IsMap(commands[i])
          PROVE  /\ MapTag(commands, v, i) \in UsedTags
                 /\ \A n \in maps' : n.tag # MapTag(commands, v, i)
                 /\ \A k \in DOMAIN returns' : returns'[k].tag # MapTag(commands, v, i)
                 /\ \A j \in DOMAIN commands :
                      IsMap(commands[j]) /\ MapTag(commands, v, j) = MapTag(commands, v, i)
                        => j = i
      <4>1. /\ MapTag(commands, v, i) \in UsedTags
            /\ \A n \in maps : n.tag # MapTag(commands, v, i)
            /\ \A k \in DOMAIN returns : returns[k].tag # MapTag(commands, v, i)
            /\ \A j \in DOMAIN commands :
                 IsMap(commands[j]) /\ MapTag(commands, v, j) = MapTag(commands, v, i) => j = i
        BY <2>1, <3>1 DEF TagsInv
      <4>2. t # MapTag(commands, v, i)
        BY <4>1 DEF t
      <4>3. QED
        BY <1>6, <1>14, <2>2, <4>1, <4>2
    <3>2. \A n \in maps' : n.tag \in UsedTags
      BY <2>1, <2>2 DEF TagsInv
    <3>3. ASSUME NEW k \in DOMAIN returns'
          PROVE  /\ returns'[k].tag \in UsedTags
                 /\ \A n \in maps' : n.waiting => n.tag # returns'[k].tag
      <4>1. CASE k \in DOMAIN returns /\ returns'[k] = returns[k]
        BY <2>1, <2>2, <4>1 DEF TagsInv
      <4>2. CASE returns'[k] = a
        BY <1>5, <1>6, <1>7, <2>2, <4>2
      <4>3. QED
        BY <1>14, <4>1, <4>2
    <3> DEFINE ms1 == maps'
               ret1 == returns'
    <3>4. /\ \A i \in DOMAIN commands : IsMap(commands[i]) =>
               /\ MapTag(commands, v, i) \in UsedTags
               /\ \A n \in ms1 : n.tag # MapTag(commands, v, i)
               /\ \A k \in DOMAIN ret1 : ret1[k].tag # MapTag(commands, v, i)
               /\ \A j \in DOMAIN commands :
                    IsMap(commands[j]) /\ MapTag(commands, v, j) = MapTag(commands, v, i)
                      => j = i
          /\ \A n \in ms1 : n.tag \in UsedTags
          /\ \A k \in DOMAIN ret1 : /\ ret1[k].tag \in UsedTags
                                    /\ \A n \in ms1 : n.waiting => n.tag # ret1[k].tag
      BY <3>1, <3>2, <3>3
    <3> HIDE DEF ms1, ret1
    <3>5. TagsInv(commands, v, ms1, ret1, UsedTags)
      BY <3>4 DEF TagsInv
    <3>6. QED
      BY <3>5 DEF ms1, ret1
  <2>4. WritesInv(commands, v, maps', WaitingTags)
    BY <1>4, <2>2 DEF Queue, WritesInv
  <2>5. UpdatesInv(commands, mKnown')
    <3> SUFFICES ASSUME NEW i \in DOMAIN commands, commands[i].op = "update"
                 PROVE  LET id == commands[i].id IN
                        /\ \A j \in DOMAIN commands : j < i => ~EndsMapping(commands[j], id)
                        /\ id \in DOMAIN mKnown' /\ mKnown'[id].allocated
                        /\ mKnown'[id].mappedData # NoTag
                        /\ mKnown'[id].mappedData.number = commands[i].arg
      BY DEF UpdatesInv
    <3> DEFINE id == commands[i].id
    <3>1. /\ \A j \in DOMAIN commands : j < i => ~EndsMapping(commands[j], id)
          /\ id \in DOMAIN mKnown /\ mKnown[id].allocated
          /\ mKnown[id].mappedData # NoTag
          /\ mKnown[id].mappedData.number = commands[i].arg
      BY <1>4 DEF Queue, UpdatesInv
    <3> HIDE DEF id
    <3>2. ~(t.write /\ id = t.id)
      BY <1>16, <3>1
    <3>3. QED
      BY <1>9, <3>1, <3>2 DEF id
  <2>6. Queue(commands, v, ServerView, ClientView, maps', returns', UsedTags, WaitingTags,
              mKnown')
    BY <1>4, <2>3, <2>4, <2>5 DEF Queue
  <2>7. QED
    BY <1>2, <1>3, <1>11, <2>6 DEF QueueInv
<1>18. ASSUME NEW r \in Requests, OnServer(r) PROVE OnServer(r)'
  <2> DEFINE p == [tag |-> tag[r], waiting |-> FALSE]
             id == tag[r].id
  <2>1. /\ p \in maps /\ Known(id) /\ mKnown[id].serial = tag[r].serial
        /\ tag[r].write => mKnown[id].mappedData = tag[r]
        /\ p.tag = tag[r] /\ p.waiting = FALSE /\ id \in DOMAIN mKnown
    BY <1>18 DEF OnServer, Known
  <2> HIDE DEF p
  <2>2. p \in maps'
    BY <1>12, <2>1
  <2>3. ~(t.write /\ id = t.id)
    <3> SUFFICES ASSUME t.write, id = t.id PROVE FALSE
      OBVIOUS
    <3>1. p = m
      BY <1>7, <1>8, <2>1
    <3>2. QED
      BY <1>1, <2>1, <3>1
  <2>4. mKnown'[id].mappedData = mKnown[id].mappedData /\ mKnown'[id].serial = mKnown[id].serial
    BY <1>9, <2>1, <2>3
  <2>5. QED
    BY <1>2, <1>10, <2>1, <2>2, <2>4 DEF OnServer, p
<1>19. HeldInv'
  BY <1>2, <1>3, <1>18 DEF StepInv, IndInv, HeldInv, Live
<1>20. GrantedInv'
  <2> SUFFICES ASSUME NEW k \in DOMAIN returns', NEW r \in requests,
                      returns'[k].status = "SUCCESS", returns'[k].tag = tag[r]
               PROVE  OnServer(r)' /\ mObjects[tag[r].id].mapped = NoRequest
    BY <1>2 DEF GrantedInv
  <2>1. r \in Requests
    BY DEF StepInv, TypeOK
  <2>2. CASE k \in DOMAIN returns /\ returns'[k] = returns[k]
    BY <1>18, <2>1, <2>2 DEF StepInv, IndInv, GrantedInv
  <2>3. CASE returns'[k] = a
    <3>1. tag[r] = t /\ \E n \in maps : n.tag = tag[r]
      BY <1>6, <2>3 DEF t
    <3>2. Known(t.id) /\ mKnown[t.id].serial = t.serial
      BY <3>1, AnswerUnderWay
    <3>3. ~Released(t)
      BY <3>2 DEF Released
    <3>4. /\ e \in maps' /\ Known(t.id)' /\ mKnown'[t.id].serial = t.serial
          /\ t.write => mKnown'[t.id].mappedData = t
      BY <1>5, <1>9, <1>10, <1>12, <3>2, <3>3
    <3>5. OnServer(r)'
      <4>1. tag'[r] = t /\ tag[r] = t
        BY <1>2, <3>1
      <4>2. [tag |-> t, waiting |-> FALSE] \in maps'
        BY <3>4 DEF e
      <4>3. /\ Known(t.id)' /\ mKnown'[t.id].serial = t.serial
            /\ t.write => mKnown'[t.id].mappedData = t
        BY <1>10, <3>2, <3>4
      <4>5. t.id \in DOMAIN mKnown' /\ mKnown'[t.id].allocated
        BY <1>9, <3>2 DEF Known
      <4>6. QED
        BY <4>1, <4>2, <4>3, <4>5 DEF OnServer, Known
    <3>6. mObjects[t.id].mapped = NoRequest
      <4>1. Live(t.id) /\ t.serial = mObjects[t.id].serial
        BY <3>1 DEF StepInv, ClientInv
      <4>2. t.id \in DOMAIN mObjects /\ mObjects[t.id].mapped \in Requests \cup {NoRequest}
        BY <4>1, LiveFacts DEF StepInv
      <4>3. ASSUME NEW s \in Requests, mObjects[t.id].mapped = s PROVE FALSE
        <5> DEFINE p == [tag |-> tag[s], waiting |-> FALSE]
        <5>1. p \in maps /\ tag[s].id = t.id /\ tag[s].serial = t.serial
          BY <4>1, <4>2, <4>3 DEF StepInv, IndInv, HeldInv, OnServer
        <5>2. p.tag = tag[s] /\ p.waiting = FALSE
          OBVIOUS
        <5> HIDE DEF p
        <5>3. p = m
          BY <1>7, <5>1, <5>2
        <5>4. QED
          BY <1>1, <5>2, <5>3
      <4>4. QED
        BY <4>2, <4>3
    <3>7. QED
      BY <3>1, <3>5, <3>6
  <2>4. QED
    BY <1>14, <2>2, <2>3
<1>21. NativeInv'
  <2>1. \A n \in maps' : \E x \in maps : n.tag = x.tag
    BY <1>6, <1>12 DEF t
  <2>2. \A n \in maps' : /\ n.tag.id \in DOMAIN mKnown'
                         /\ n.tag.serial <= mKnown'[n.tag.id].serial
                         /\ Known(n.tag.id)' /\ n.tag.serial = mKnown'[n.tag.id].serial
                              => mKnown'[n.tag.id].valid
    <3> SUFFICES ASSUME NEW n \in maps'
                 PROVE  /\ n.tag.id \in DOMAIN mKnown'
                        /\ n.tag.serial <= mKnown'[n.tag.id].serial
                        /\ Known(n.tag.id)' /\ n.tag.serial = mKnown'[n.tag.id].serial
                             => mKnown'[n.tag.id].valid
      OBVIOUS
    <3>1. /\ n.tag.id \in DOMAIN mKnown
          /\ n.tag.serial <= mKnown[n.tag.id].serial
          /\ Known(n.tag.id) /\ n.tag.serial = mKnown[n.tag.id].serial
               => mKnown[n.tag.id].valid
      BY <2>1 DEF StepInv, IndInv, NativeInv
    <3>2. QED
      BY <1>9, <1>10, <3>1
  <2>3. ASSUME NEW n \in maps', NEW x \in maps', n.tag.id = x.tag.id, n.tag.serial = x.tag.serial
        PROVE  n = x
    <3>1. CASE n \in maps /\ x \in maps
      BY <2>3, <3>1 DEF StepInv, IndInv, NativeInv
    <3>2. CASE n = e /\ x \in maps /\ x # m
      BY <1>6, <1>7, <2>3, <3>2
    <3>3. CASE x = e /\ n \in maps /\ n # m
      BY <1>6, <1>7, <2>3, <3>3
    <3>4. QED
      BY <1>12, <3>1, <3>2, <3>3
  <2>4. PointerIsMapped'
    <3> SUFFICES ASSUME NEW id \in DOMAIN mKnown', Known(id)', mKnown'[id].mappedData # NoTag
                 PROVE  /\ mKnown'[id].mappedData.write
                        /\ [tag |-> mKnown'[id].mappedData, waiting |-> FALSE] \in NativeMaps(id)'
      BY DEF PointerIsMapped
    <3> DEFINE p == [tag |-> mKnown'[id].mappedData, waiting |-> FALSE]
    <3>1. id \in DOMAIN mKnown /\ Known(id)
      BY <1>9, <1>10
    <3>2. /\ mKnown'[id].mappedData.write /\ p \in maps'
          /\ mKnown'[id].mappedData.id = id
          /\ mKnown'[id].mappedData.serial = mKnown'[id].serial
      <4>1. CASE t.write /\ id = t.id
        <5>1. mKnown'[id].mappedData = t /\ mKnown'[id].serial = t.serial
          BY <1>8, <1>9, <3>1, <4>1
        <5>2. p = e
          BY <5>1 DEF e
        <5> HIDE DEF p
        <5>3. QED
          BY <1>8, <1>12, <4>1, <5>1, <5>2
      <4>2. CASE ~(t.write /\ id = t.id)
        <5>1. mKnown'[id].mappedData = mKnown[id].mappedData
              /\ mKnown'[id].serial = mKnown[id].serial
          BY <1>9, <3>1, <4>2
        <5>2. p \in maps /\ p.waiting = FALSE
          BY <1>15, <3>1, <5>1
        <5>3. mKnown[id].mappedData.write /\ mKnown[id].mappedData.id = id
              /\ mKnown[id].mappedData.serial = mKnown[id].serial
          BY <1>15, <3>1, <5>1
        <5> HIDE DEF p
        <5>4. p \in maps'
          BY <1>12, <5>2
        <5>5. QED
          BY <5>1, <5>3, <5>4
      <4>3. QED
        BY <4>1, <4>2
    <3>3. p.tag = mKnown'[id].mappedData
      OBVIOUS
    <3> HIDE DEF p
    <3>4. p \in NativeMaps(id)'
      BY <3>2, <3>3 DEF NativeMaps
    <3>5. QED
      BY <3>2, <3>4 DEF p
  <2>5. QED
    BY <2>2, <2>3, <2>4 DEF NativeInv
<1>22. failed' = "none"
  BY <1>1, <1>8 DEF StepInv, IndInv
<1>23. QED
  BY <1>17, <1>19, <1>20, <1>21, <1>22 DEF IndInv

(* An answer reaches its request, or nobody: the write of a buffer and of   *)
(* its answer are the same, and the buffer is not mapped yet.               *)
LEMMA AnswerStep ==
  ASSUME StepInv, TypeOK', ClientHandles
  PROVE  IndInv'
<1> DEFINE a == Head(returns)
           ret1 == returns'
<1>1. /\ a \in Returns /\ a = returns[1] /\ 1 \in DOMAIN returns
      /\ returns' = Tail(returns)
      /\ UNCHANGED <<maps, mKnown, tag, commands>> /\ returns # <<>>
  BY AnswerFacts DEF StepInv, serverVars, ClientHandles
<1>2. a.tag \in Tags
  BY <1>1 DEF Returns
<1>3. \A k \in DOMAIN ret1 : \E j \in DOMAIN returns : ret1[k] = returns[j]
  BY <1>1, Popped DEF StepInv, TypeOK
<1>4. PICK v \in Seq(View) : Queue(commands, v, ServerView, ClientView, maps, returns,
                                   UsedTags, WaitingTags, mKnown)
  BY DEF StepInv, IndInv, QueueInv
<1>5. \A s \in requests : s \in Requests /\ Used(s)
  BY DEF StepInv, ClientInv, Used
<1>6. ASSUME NEW r \in requests,
             tag[r].id = a.tag.id, tag[r].number = a.tag.number,
             mObjects[a.tag.id].serial = a.tag.serial
      PROVE  tag[r] = a.tag
  <2>1. PICK s \in Requests : Used(s) /\ tag[s] = a.tag
    <3>1. a.tag \in UsedTags
      BY <1>1, QueueFacts
    <3>2. QED
      BY <3>1 DEF UsedTags
  <2>2. tag[r].serial = tag[s].serial
    BY <1>6, <2>1 DEF StepInv, ClientInv
  <2>3. r = s
    BY <1>5, <1>6, <2>1, <2>2 DEF StepInv, ClientInv
  <2>4. QED
    BY <2>1, <2>3
<1>7. \A r \in requests : a.status = "SUCCESS" /\ tag[r] = a.tag =>
        OnServer(r) /\ mObjects[tag[r].id].mapped = NoRequest
  BY <1>1 DEF StepInv, IndInv, GrantedInv
<1>8. NativeInv'
  BY <1>1 DEF StepInv, IndInv, NativeInv, PointerIsMapped, NativeMaps, Known
<1>9. ServerView' = ServerView
  BY <1>1 DEF ServerView, Known
<1>10. ASSUME UNCHANGED <<mObjects, requests, answerVars, failed>> PROVE IndInv'
  <2>1. /\ UsedTags' = UsedTags /\ WaitingTags' = WaitingTags /\ ClientView' = ClientView
        /\ \A s \in Requests : Used(s)' <=> Used(s)
    BY <1>1, <1>10 DEF UsedTags, WaitingTags, ClientView, Live, Used, answerVars
  <2>2. TagsInv(commands, v, maps, ret1, UsedTags)
    BY <1>3, <1>4 DEF Queue, TagsInv
  <2>3. QueueInv'
    BY <1>1, <1>4, <1>9, <2>1, <2>2 DEF Queue, QueueInv
  <2>4. HeldInv'
    BY <1>1, <1>10, <2>1 DEF StepInv, IndInv, HeldInv, OnServer, Known, Live
  <2>5. GrantedInv'
    BY <1>1, <1>3, <1>10 DEF StepInv, IndInv, GrantedInv, OnServer, Known
  <2>6. QED
    BY <1>8, <1>10, <2>3, <2>4, <2>5 DEF StepInv, IndInv
<1>11. ASSUME NEW r \in requests, Live(a.tag.id), tag[r] = a.tag,
              requests' = requests \ {r}, Call({r}, a.status, a.tag), UNCHANGED failed,
              \/ a.status # "SUCCESS" /\ UNCHANGED mObjects
              \/ /\ a.status = "SUCCESS"
                 /\ ObjectsSet(a.tag.id, [mObjects[a.tag.id] EXCEPT !.mapped = r])
       PROVE  IndInv'
  <2> DEFINE t == a.tag
             o == mObjects[t.id]
             o1 == [o EXCEPT !.mapped = r]
  <2>1. /\ r \in Requests /\ t.id \in DOMAIN mObjects /\ o \in Objects
        /\ o.serial = t.serial
    BY <1>5, <1>11, LiveFacts DEF StepInv, ClientInv
  <2>2. o1.live = o.live /\ o1.serial = o.serial /\ o1.mapped = r
    BY <2>1 DEF Objects
  <2>3. \/ a.status # "SUCCESS" /\ UNCHANGED mObjects
        \/ a.status = "SUCCESS" /\ ObjectsSet(t.id, o1)
    BY <1>11
  <2>4. t \in Tags /\ tag[r] = t /\ tag'[r] = t
    BY <1>1, <1>2, <1>11
  <2>5. a.status = "SUCCESS" => OnServer(r) /\ mObjects[t.id].mapped = NoRequest
    BY <1>7, <2>4
  <2>6. \A s \in Requests : answer'[s] = IF s = r THEN a.status ELSE answer[s]
    BY <1>11 DEF Call
  <2>7. a.status # "unused" /\ returns[1].tag = t
    BY <1>1 DEF Returns
  <2> HIDE DEF a, t, o, o1
  <2>8. \A s \in Requests : Used(s)' <=> Used(s)
    BY <1>5, <1>11, <2>6, <2>7 DEF Used
  <2>9. UsedTags' = UsedTags
    BY <1>1, <2>8 DEF UsedTags
  <2>10. WaitingTags' \subseteq WaitingTags /\ \A w \in WaitingTags : w \in WaitingTags' \/ w = t
    BY <1>1, <1>11, <2>4 DEF WaitingTags
  <2>11. /\ DOMAIN mObjects' = DOMAIN mObjects
         /\ \A j \in DOMAIN mObjects : /\ mObjects'[j].serial = mObjects[j].serial
                                       /\ mObjects'[j].live = mObjects[j].live
         /\ \A j \in DOMAIN mObjects : \/ mObjects'[j].mapped = mObjects[j].mapped
                                       \/ /\ j = t.id /\ a.status = "SUCCESS"
                                          /\ mObjects'[j].mapped = r
    BY <2>2, <2>3 DEF ObjectsSet, o
  <2>12. ClientView' = ClientView
    BY <2>2, <2>3, SetView DEF StepInv, o, ClientView, Live
  <2>13. QueueInv'
    <3> DEFINE w1 == WaitingTags'
    <3> HIDE DEF w1, ret1
    <3>1. TagsInv(commands, v, maps, ret1, UsedTags)
      BY <1>3, <1>4 DEF Queue, TagsInv
    <3>2. AfterEnds(commands, v, w1)
      BY <1>4, <2>10 DEF Queue, AfterEnds, w1
    <3>3. WritesInv(commands, v, maps, w1)
      <4>1. ASSUME NEW m \in maps, m.waiting, m.tag.write PROVE Covered(commands, 0, m.tag, w1)
        <5>1. Covered(commands, 0, m.tag, WaitingTags)
          BY <1>4, <4>1 DEF Queue, WritesInv
        <5>2. m.tag # t
          BY <1>1, <1>4, <2>7, <4>1 DEF Queue, TagsInv
        <5>3. QED
          BY <2>10, <5>1, <5>2 DEF Covered, w1
      <4>2. ASSUME NEW j \in DOMAIN commands, commands[j].op = "mapWrite"
            PROVE  Covered(commands, j, MapTag(commands, v, j), w1)
        <5>1. Covered(commands, j, MapTag(commands, v, j), WaitingTags)
          BY <1>4, <4>2 DEF Queue, WritesInv
        <5>2. MapTag(commands, v, j) # t
          BY <1>1, <1>4, <2>7, <4>2 DEF Queue, TagsInv, IsMap
        <5>3. QED
          BY <2>10, <5>1, <5>2 DEF Covered, w1
      <4>3. QED
        BY <1>4, <4>1, <4>2 DEF Queue, WritesInv
    <3>4. Queue(commands, v, ServerView, ClientView, maps, ret1, UsedTags, w1, mKnown)
      BY <1>4, <3>1, <3>2, <3>3 DEF Queue
    <3>5. QED
      BY <1>1, <1>9, <2>9, <2>12, <3>4 DEF QueueInv, ret1, w1
  <2>14. \A s \in Requests : OnServer(s)' <=> OnServer(s)
    BY <1>1 DEF OnServer, Known
  <2>15. HeldInv'
    <3> SUFFICES ASSUME NEW id \in DOMAIN mObjects, NEW s \in Requests,
                        mObjects'[id].mapped = s
                 PROVE  /\ Used(s) /\ s \notin requests'
                        /\ tag[s].id = id /\ tag[s].serial = mObjects[id].serial /\ Live(id)
                        /\ OnServer(s)
                        /\ \A i \in DOMAIN commands : ~EndsMapping(commands[i], id)
      BY <1>1, <2>8, <2>11, <2>14 DEF HeldInv, Live
    <3>1. CASE mObjects[id].mapped = s
      BY <1>11, <3>1 DEF StepInv, IndInv, HeldInv
    <3>2. CASE id = t.id /\ a.status = "SUCCESS" /\ s = r
      <4>1. \A i \in DOMAIN commands : ~EndsMapping(commands[i], t.id)
        BY <1>1, <2>4, <2>7, AnswerUnderWay
      <4>2. QED
        BY <1>5, <1>11, <2>1, <2>4, <2>5, <3>2, <4>1 DEF t, o
    <3>3. QED
      BY <2>11, <3>1, <3>2
  <2>16. GrantedInv'
    <3> SUFFICES ASSUME NEW k \in DOMAIN ret1, NEW s \in requests', s # r, s \in requests,
                        ret1[k].status = "SUCCESS", ret1[k].tag = tag[s]
                 PROVE  OnServer(s) /\ mObjects'[tag[s].id].mapped = NoRequest
      BY <1>1, <1>5, <1>11, <2>14 DEF GrantedInv
    <3>1. OnServer(s) /\ mObjects[tag[s].id].mapped = NoRequest /\ s \in Requests
      BY <1>3, <1>5 DEF StepInv, IndInv, GrantedInv
    <3>2. Live(tag[s].id) /\ tag[s].serial = mObjects[tag[s].id].serial
          /\ tag[s].id \in DOMAIN mObjects
      BY DEF StepInv, ClientInv, Live
    <3>3. ASSUME tag[s].id = t.id, a.status = "SUCCESS" PROVE FALSE
      <4> DEFINE p == [tag |-> tag[s], waiting |-> FALSE]
                 q == [tag |-> t, waiting |-> FALSE]
      <4>1. p \in maps /\ q \in maps
        BY <2>4, <2>5, <3>1, <3>3 DEF OnServer
      <4>2. p.tag = tag[s] /\ q.tag = t
        OBVIOUS
      <4> HIDE DEF p, q
      <4>3. tag[s].serial = t.serial
        BY <2>1, <3>2, <3>3 DEF o
      <4>4. p = q
        BY <3>3, <4>1, <4>2, <4>3 DEF StepInv, IndInv, NativeInv
      <4>5. tag[s] = tag[r]
        BY <2>4, <4>2, <4>4
      <4>6. QED
        BY <1>5, <2>1, <3>1, <4>5 DEF StepInv, ClientInv
    <3>4. QED
      BY <2>11, <3>1, <3>2, <3>3
  <2>17. QED
    BY <1>8, <1>11, <2>13, <2>15, <2>16 DEF StepInv, IndInv
<1>12. \/ UNCHANGED <<mObjects, requests, answerVars, failed>>
       \/ \E r \in requests :
            /\ Live(a.tag.id) /\ tag[r] = a.tag
            /\ requests' = requests \ {r} /\ Call({r}, a.status, a.tag) /\ UNCHANGED failed
            /\ \/ a.status # "SUCCESS" /\ UNCHANGED mObjects
               \/ /\ a.status = "SUCCESS"
                  /\ ObjectsSet(a.tag.id, [mObjects[a.tag.id] EXCEPT !.mapped = r])
  BY <1>6, <1>7, AnswerFacts DEF StepInv
<1> HIDE DEF a
<1>13. QED
  BY <1>10, <1>11, <1>12

(* Every step of an application that releases no buffer under a write.     *)
LEMMA StepKept ==
  ASSUME ~ReleaseUnderWrite, StepInv, TypeOK', [Next]_vars
  PROVE  IndInv'
<1>1. CASE ClientCalls
  <2>1. UNCHANGED failed
    BY <1>1 DEF ClientCalls
  <2>2. CASE CreateBuffer
    BY <2>1, <2>2, CreateStep
  <2>3. ASSUME NEW id \in Ids, NEW r \in Requests, NEW write \in BOOLEAN, MapAsync(id, r, write)
        PROVE  IndInv'
    BY <2>1, <2>3, MapStep
  <2>4. ASSUME NEW id \in Ids, Unmap(id) PROVE IndInv'
    BY <2>1, <2>4, UnmapStep
  <2>5. ASSUME NEW id \in Ids, Release(id) PROVE IndInv'
    BY <2>1, <2>5, ReleaseStep
  <2>6. QED
    BY <1>1, <2>2, <2>3, <2>4, <2>5 DEF ClientCalls, Ids
<1>2. CASE ServerHandles
  <2>1. \/ HandleCreate(Head(commands)) \/ HandleMapAsync(Head(commands))
        \/ HandleUpdateMappedData(Head(commands)) \/ HandleUnmap(Head(commands))
        \/ HandleDestroy(Head(commands))
    BY <1>2 DEF ServerHandles
  <2>2. QED
    BY <1>2, <2>1, HandleCreateStep, HandleMapStep, HandleUpdateStep, HandleUnmapStep,
       HandleDestroyStep
<1>3. CASE BackendWorks
  BY <1>3, BackendStep DEF BackendWorks
<1>4. CASE ClientHandles
  BY <1>4, AnswerStep
<1>5. CASE UNCHANGED vars
  <2> DEFINE queue(v) == Queue(commands, v, ServerView, ClientView, maps, returns,
                               UsedTags, WaitingTags, mKnown)
  <2>1. UNCHANGED <<mObjects, requests, tag, commands, returns, mKnown, maps, failed, answer>>
    BY <1>5 DEF vars, channelVars, clientVars, serverVars, answerVars
  <2>2. /\ UsedTags' = UsedTags /\ WaitingTags' = WaitingTags
        /\ ClientView' = ClientView /\ ServerView' = ServerView
    BY <2>1 DEF UsedTags, WaitingTags, ClientView, ServerView, Live, Known, Used
  <2>3. QueueInv'
    BY <2>1, <2>2 DEF StepInv, IndInv, QueueInv
  <2>4. NativeInv'
    BY <2>1 DEF StepInv, IndInv, NativeInv, PointerIsMapped, NativeMaps, Known
  <2>5. HeldInv' /\ GrantedInv'
    BY <2>1 DEF StepInv, IndInv, HeldInv, GrantedInv, OnServer, Known, Live, Used
  <2>6. QED
    BY <2>1, <2>3, <2>4, <2>5 DEF StepInv, IndInv
<1>6. QED
  BY <1>1, <1>2, <1>3, <1>4, <1>5 DEF Next

(* Nothing is on its way, and neither side knows a buffer. *)
LEMMA StartsRight == Init => IndInv
<1> SUFFICES ASSUME Init PROVE IndInv
  OBVIOUS
<1> DEFINE view == [size |-> 0, known |-> {}, serial |-> [id \in Ids |-> 0]]
           v == <<view>>
<1>1. /\ mObjects = <<>> /\ mKnown = <<>> /\ requests = {} /\ maps = {}
      /\ commands = <<>> /\ returns = <<>> /\ failed = "none"
      /\ \A r \in Requests : ~Used(r)
  BY DEF Init, Used
<1>2. UsedTags = {} /\ WaitingTags = {}
  BY <1>1 DEF UsedTags, WaitingTags
<1>3. ServerView = view /\ ClientView = view
  <2>1. DOMAIN mObjects = {} /\ DOMAIN mKnown = {} /\ Len(mObjects) = 0 /\ Len(mKnown) = 0
    BY <1>1
  <2>2. {id \in Ids : Known(id)} = {} /\ {id \in Ids : Live(id)} = {}
    BY <2>1 DEF Known, Live
  <2>3. /\ [id \in Ids |-> IF id \in DOMAIN mKnown THEN mKnown[id].serial ELSE 0]
             = [id \in Ids |-> 0]
        /\ [id \in Ids |-> IF id \in DOMAIN mObjects THEN mObjects[id].serial ELSE 0]
             = [id \in Ids |-> 0]
    BY <2>1
  <2>4. QED
    BY <2>1, <2>2, <2>3 DEF ServerView, ClientView
<1>4. view \in View /\ view.size = 0
  <2>1. [id \in Ids |-> 0] \in [Ids -> 0 .. MaxSerial]
    BY BoundAssumption
  <2>2. QED
    BY <2>1 DEF View
<1> HIDE DEF view
<1>5. v \in Seq(View) /\ Len(v) = 1 /\ v[1] = view /\ DOMAIN v = {1}
  BY <1>4
<1> HIDE DEF v
<1>6. DOMAIN commands = {} /\ Len(commands) = 0 /\ DOMAIN returns = {}
      /\ DOMAIN mObjects = {} /\ DOMAIN mKnown = {}
  BY <1>1
<1>7. Trace(commands, v, ServerView, ClientView)
  BY <1>3, <1>4, <1>5, <1>6 DEF Trace
<1>8. Queue(commands, v, ServerView, ClientView, maps, returns, UsedTags, WaitingTags, mKnown)
  BY <1>1, <1>6, <1>7 DEF Queue, TagsInv, AfterEnds, WritesInv, UpdatesInv
<1>9. QueueInv
  BY <1>5, <1>8 DEF QueueInv
<1>10. NativeInv /\ HeldInv /\ GrantedInv
  BY <1>1, <1>6 DEF NativeInv, HeldInv, GrantedInv, PointerIsMapped
<1>11. QED
  BY <1>1, <1>9, <1>10 DEF IndInv

(* What both sides and the commands and answers on their way always fit.   *)
THEOREM Inductive == ~ReleaseUnderWrite => (Spec => []IndInv)
<1> SUFFICES ASSUME ~ReleaseUnderWrite PROVE Spec => []IndInv
  OBVIOUS
<1>1. TypeOK /\ ClientInv /\ IndInv /\ TypeOK' /\ [Next]_vars => IndInv'
  BY StepKept DEF StepInv
<1>2. QED
  BY <1>1, StartsRight, TypeCorrect, AnswersOwn, PTL DEF Spec

(* No command of the client fails on the server and no answer on the       *)
(* client, what the client holds mapped is mapped on the server, and the   *)
(* pointer the server keeps is that of a mapped buffer.                    *)
THEOREM SidesAgreeAlways == ~ReleaseUnderWrite => (Spec => []SidesAgree)
<1> SUFFICES ASSUME ~ReleaseUnderWrite PROVE Spec => []SidesAgree
  OBVIOUS
<1>1. TypeOK /\ IndInv => SidesAgree
  <2> SUFFICES ASSUME TypeOK, IndInv PROVE SidesAgree
    OBVIOUS
  <2>1. NeverFatal
    BY DEF IndInv, NeverFatal
  <2>2. PointerIsMapped
    BY DEF IndInv, NativeInv
  <2>3. MappedOnBothSides
    <3> SUFFICES ASSUME NEW id \in DOMAIN mObjects, NEW r, r = mObjects[id].mapped,
                        r # NoRequest
                 PROVE  /\ [tag |-> tag[r], waiting |-> FALSE] \in maps
                        /\ Known(id) /\ mKnown[id].serial = tag[r].serial
                        /\ tag[r].write => mKnown[id].mappedData = tag[r]
      BY DEF MappedOnBothSides
    <3>1. r \in Requests
      <4>1. mObjects[id] \in Objects
        BY ElementOfSeq DEF TypeOK
      <4>2. QED
        BY <4>1 DEF Objects
    <3>2. tag[r].id = id /\ OnServer(r)
      BY <3>1 DEF IndInv, HeldInv
    <3>3. QED
      BY <3>2 DEF OnServer
  <2>4. QED
    BY <2>1, <2>2, <2>3 DEF SidesAgree
<1>2. QED
  BY <1>1, Inductive, TypeCorrect, PTL

(* The buffer of a write that completes is known to the server, if no      *)
(* application releases a buffer under a write (WireServer.cpp:295).       *)
THEOREM WritesAreKnown == ~ReleaseUnderWrite => (Spec => []MappedBufferKnown)
<1> SUFFICES ASSUME ~ReleaseUnderWrite PROVE Spec => []MappedBufferKnown
  OBVIOUS
<1>1. IndInv => MappedBufferKnown
  BY DEF IndInv, MappedBufferKnown
<1>2. QED
  BY <1>1, Inductive, PTL
=============================================================================
