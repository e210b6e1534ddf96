---------------------------- MODULE WireMapping ----------------------------
(***************************************************************************)
(* The mapping of buffers through the wire                                 *)
(* (src/generator/templates/dawn_wire/WireClient.cpp and WireServer.cpp).  *)
(*                                                                         *)
(* The client gives each buffer an id and the id's serial, and forwards    *)
(* the calls of the application over one channel; the server makes them on *)
(* the native buffer it knows by that id and sends the answers of map      *)
(* requests back over another.  Both channels are FIFO, and the client     *)
(* runs ahead: it reuses ids and unmaps while answers are on their way.    *)
(*                                                                         *)
(* A map request is known on the wire by its tag: the id and the serial of *)
(* its buffer, a number the buffer gives to its requests in turn, and its  *)
(* kind.                                                                   *)
(* Native buffers keep the promise of MapPromise (what BufferMapping       *)
(* proves of them).  A callback of the client's application is the last    *)
(* thing a handler does: what the application calls in it comes after it.  *)
(* The callbacks of Unmap and Release are taken to make no calls.          *)
(***************************************************************************)
EXTENDS Naturals, Sequences

CONSTANTS MaxIds,         \* bound: buffers alive at once on the client
          MaxSerial,      \* bound: times an id is given out again
          MaxCommands,    \* bound: commands on their way to the server
          Requests,       \* calls of MapReadAsync and MapWriteAsync
          NoRequest,
          ReleaseUnderWrite \* may a buffer be released while MapWriteAsync
                            \* is not answered?

ASSUME RequestAssumption == NoRequest \notin Requests
ASSUME BoundAssumption == {MaxIds, MaxSerial, MaxCommands} \subseteq Nat

VARIABLES
  mObjects,  \* client: the buffers, at the index of their id
  requests,  \* client: the requests some buffer still has to answer
  tag,       \* the tag each request was sent with
  commands,  \* what the client has sent and the server not handled
  returns,   \* what the server has sent and the client not handled
  mKnown,    \* server: what it knows of the buffer of each id
  maps,      \* native buffers: the accepted requests they are mapped by
  failed,    \* which side met a failed command or assertion, if one did
  answer, calls, source  \* each request's last answer, how many it got,
                         \* and the tag the answer came with

channelVars == <<commands, returns>>
clientVars == <<mObjects, requests, tag>>
serverVars == <<mKnown, maps>>
answerVars == <<answer, calls, source>>
vars == <<channelVars, clientVars, serverVars, answerVars, failed>>

Tag(id, serial, number, write) ==
  [id |-> id, serial |-> serial, number |-> number, write |-> write]
NoTag == Tag(0, 0, 0, FALSE)   \* ID 0 is reserved for nullptr

-----------------------------------------------------------------------------
Init ==
  /\ mObjects = <<>> /\ mKnown = <<>>
  /\ requests = {} /\ maps = {}
  /\ commands = <<>> /\ returns = <<>>
  /\ failed = "none"
  /\ tag = [r \in Requests |-> NoTag]
  /\ answer = [r \in Requests |-> "unused"]
  /\ calls = [r \in Requests |-> 0]
  /\ source = [r \in Requests |-> NoTag]

(* The callbacks of the requests rs are called.  A definition named        *)
(* X_Fault is X with a plausible bug: nothing uses it, it serves to see    *)
(* that a property notices the bug.                                        *)
Call(rs, status, from) ==
  /\ answer' = [r \in Requests |-> IF r \in rs THEN status ELSE answer[r]]
  /\ calls' = [r \in Requests |-> IF r \in rs THEN calls[r] + 1 ELSE calls[r]]
  /\ source' = [r \in Requests |-> IF r \in rs THEN from ELSE source[r]]

Command(op, id, arg) == [op |-> op, id |-> id, arg |-> arg]

Send(cmds) == /\ failed = "none"
              /\ Len(commands) < MaxCommands
              /\ commands' = commands \o cmds

-----------------------------------------------------------------------------
(* Client: the calls of the application. *)

Live(id) == id \in DOMAIN mObjects /\ mObjects[id].live
FreeIds == {id \in DOMAIN mObjects : ~mObjects[id].live}

NewObject(serial) ==
  [live |-> TRUE, serial |-> serial, requestSerial |-> 0, mapped |-> NoRequest]

(* ObjectAllocator::New of a recycled id: the serial tells its uses apart. *)
RecycledSerial(id) == mObjects[id].serial + 1

CreateBuffer ==
  /\ IF FreeIds # {}
       THEN \E id \in FreeIds :
              /\ mObjects[id].serial < MaxSerial
              /\ mObjects' = [mObjects EXCEPT ![id] = NewObject(RecycledSerial(id))]
              /\ Send(<<Command("create", id, mObjects'[id].serial)>>)
       ELSE /\ Len(mObjects) < MaxIds
            /\ mObjects' = Append(mObjects, NewObject(0))
            /\ Send(<<Command("create", Len(mObjects'), 0)>>)
  /\ UNCHANGED <<serverVars, answerVars, requests, tag, returns>>

(* MapReadAsync and MapWriteAsync leave all validation to the server. *)
MapAsync(id, r, write) ==
  /\ Live(id) /\ answer[r] = "unused"
  /\ LET number == mObjects[id].requestSerial IN
       /\ tag' = [tag EXCEPT ![r] = Tag(id, mObjects[id].serial, number, write)]
       /\ Send(<<Command(IF write THEN "mapWrite" ELSE "mapRead", id, number)>>)
  /\ mObjects' = [mObjects EXCEPT ![id].requestSerial = @ + 1]
  /\ requests' = requests \cup {r}
  /\ answer' = [answer EXCEPT ![r] = "waiting"]
  /\ UNCHANGED <<serverVars, calls, source, returns>>

RequestsOf(id) == {r \in requests : tag[r].id = id}

Cleared_FaultNone(id) == {}
Cleared(id) == RequestsOf(id)

(* ClearMapRequests(UNKNOWN). *)
ClearMapRequests(id) ==
  /\ Call(Cleared(id), "UNKNOWN", NoTag)
  /\ requests' = requests \ Cleared(id)

(* What the application wrote into the mapped data. *)
Update(id) ==
  LET r == mObjects[id].mapped IN
  IF r # NoRequest /\ tag[r].write THEN <<Command("update", id, tag[r].number)>>
  ELSE <<>>

UnmapCommands(id) == Update(id) \o <<Command("unmap", id, 0)>>

(* Unmap sends what the application wrote, cancels every request of the    *)
(* buffer and forwards the call.                                           *)
Unmap(id) ==
  /\ Live(id)
  /\ Send(UnmapCommands(id))
  /\ mObjects' = [mObjects EXCEPT ![id].mapped = NoRequest]
  /\ ClearMapRequests(id)
  /\ UNCHANGED <<serverVars, tag, returns>>

(* The last reference of the application: the id is free at once. *)
Release(id) ==
  /\ Live(id)
  /\ ReleaseUnderWrite \/ \A r \in RequestsOf(id) : ~tag[r].write
  /\ Send(<<Command("destroy", id, 0)>>)
  /\ mObjects' = [mObjects EXCEPT ![id].live = FALSE, ![id].mapped = NoRequest]
  /\ ClearMapRequests(id)
  /\ UNCHANGED <<serverVars, tag, returns>>

-----------------------------------------------------------------------------
(* Server: the commands, oldest first.  A handler that returns false stops *)
(* HandleCommands for good.                                                *)

Known(id) == id \in DOMAIN mKnown /\ mKnown[id].allocated
NativeMaps(id) == {m \in maps : m.tag.id = id /\ m.tag.serial = mKnown[id].serial}
Unanswered(ms) == {m \in ms : m.waiting}

Fail(who) == failed' = who /\ UNCHANGED <<returns, serverVars>>

Reply(t, status) == returns' = Append(returns, [tag |-> t, status |-> status])

Allocate(id, data) == IF id > Len(mKnown) THEN Append(mKnown, data)
                      ELSE [mKnown EXCEPT ![id] = data]

(* KnownObjects::Allocate; the device may find the descriptor in error.    *)
HandleCreate(c) ==
  /\ c.op = "create"
  /\ \E valid \in BOOLEAN :
       LET data == [allocated |-> TRUE, serial |-> c.arg, valid |-> valid,
                    mappedData |-> NoTag]
       IN IF c.id > Len(mKnown) + 1 \/ Known(c.id) THEN Fail("server")
          ELSE /\ mKnown' = Allocate(c.id, data)
               /\ UNCHANGED <<maps, returns, failed>>

Refuse_FaultSilent(t) == UNCHANGED returns
Refuse(t) == Reply(t, "ERROR")

(* The native buffer accepts a request if it is not mapped; it may refuse  *)
(* it for other reasons (usage, range).                                    *)
HandleMapAsync(c) ==
  /\ c.op \in {"mapRead", "mapWrite"}
  /\ IF ~Known(c.id) THEN Fail("server")
     ELSE LET t == Tag(c.id, mKnown[c.id].serial, c.arg, c.op = "mapWrite")
          IN /\ \/ Refuse(t) /\ UNCHANGED maps
                \/ /\ mKnown[c.id].valid /\ NativeMaps(c.id) = {}
                   /\ maps' = maps \cup {[tag |-> t, waiting |-> TRUE]}
                   /\ UNCHANGED returns
             /\ UNCHANGED <<mKnown, failed>>

(* The data goes to mappedData; requests differ in their sizes. *)
HandleUpdateMappedData(c) ==
  /\ c.op = "update"
  /\ IF \/ ~Known(c.id) \/ ~mKnown[c.id].valid
        \/ mKnown[c.id].mappedData = NoTag
        \/ mKnown[c.id].mappedData.number # c.arg
       THEN Fail("server")
       ELSE UNCHANGED <<serverVars, returns, failed>>

ResetMappedData(id) == NoTag

(* Native Unmap answers the request that waits with UNKNOWN. *)
HandleUnmap(c) ==
  /\ c.op = "unmap"
  /\ IF ~Known(c.id) THEN Fail("server")
     ELSE /\ mKnown' = [mKnown EXCEPT ![c.id].mappedData = ResetMappedData(c.id)]
          /\ maps' = maps \ NativeMaps(c.id)
          /\ IF Unanswered(NativeMaps(c.id)) = {} THEN UNCHANGED returns
             ELSE \E m \in NativeMaps(c.id) : Reply(m.tag, "UNKNOWN")
          /\ UNCHANGED failed

(* The native buffer lives on while the backend has a request of it. *)
HandleDestroy(c) ==
  /\ c.op = "destroy"
  /\ IF ~Known(c.id) THEN Fail("server")
     ELSE /\ mKnown' = [mKnown EXCEPT ![c.id].allocated = FALSE]
          /\ maps' = maps \ (NativeMaps(c.id) \ Unanswered(NativeMaps(c.id)))
          /\ UNCHANGED <<returns, failed>>

ServerHandles ==
  /\ failed = "none" /\ commands # <<>>
  /\ commands' = Tail(commands)
  /\ LET c == Head(commands) IN
       \/ HandleCreate(c) \/ HandleMapAsync(c) \/ HandleUpdateMappedData(c)
       \/ HandleUnmap(c) \/ HandleDestroy(c)
  /\ UNCHANGED <<clientVars, answerVars>>

Released(t) == ~Known(t.id) \/ mKnown[t.id].serial # t.serial

(* The backend completes a request: the server sends the data of a read,   *)
(* and remembers the pointer of a write.                                   *)
BackendCompletes(m) ==
  /\ failed = "none" /\ m.waiting
  /\ Reply(m.tag, "SUCCESS")
  /\ maps' = (maps \ {m}) \cup
               (IF Released(m.tag) THEN {} ELSE {[m EXCEPT !.waiting = FALSE]})
  /\ IF m.tag.write /\ Known(m.tag.id)
       THEN mKnown' = [mKnown EXCEPT ![m.tag.id].mappedData = m.tag]
       ELSE UNCHANGED mKnown
  /\ failed' = IF m.tag.write /\ ~Known(m.tag.id) THEN "assertion" ELSE failed
  /\ UNCHANGED <<clientVars, answerVars, commands>>

-----------------------------------------------------------------------------
(* Client: the answers. *)

(* The buffer of an answer may have been deleted, and its id reused. *)
SameBuffer_FaultIgnoresSerial(t) == Live(t.id)
SameBuffer(t) == Live(t.id) /\ mObjects[t.id].serial = t.serial

(* The request is deleted before its callback is called. *)
Remaining(r) == requests \ {r}

(* HandleBufferMapReadAsyncCallback and HandleBufferMapWriteAsyncCallback. *)
ClientHandles ==
  /\ failed = "none" /\ returns # <<>>
  /\ returns' = Tail(returns)
  /\ LET a == Head(returns)
         found == {r \in RequestsOf(a.tag.id) : tag[r].number = a.tag.number}
     IN IF ~SameBuffer(a.tag) \/ found = {}
        THEN UNCHANGED <<mObjects, requests, answerVars, failed>>
        ELSE \E r \in found :
          IF \/ tag[r].write # a.tag.write
             \/ a.status = "SUCCESS" /\ mObjects[a.tag.id].mapped # NoRequest
          THEN /\ failed' = "client"
               /\ UNCHANGED <<mObjects, requests, answerVars>>
          ELSE /\ requests' = Remaining(r)
               /\ Call({r}, a.status, a.tag)
               /\ mObjects' = IF a.status # "SUCCESS" THEN mObjects
                              ELSE [mObjects EXCEPT ![a.tag.id].mapped = r]
               /\ UNCHANGED failed
  /\ UNCHANGED <<serverVars, tag, commands>>

-----------------------------------------------------------------------------
ClientCalls ==
  /\ \/ CreateBuffer
     \/ \E id \in 1..MaxIds : \/ \E r \in Requests, write \in BOOLEAN :
                                  MapAsync(id, r, write)
                              \/ Unmap(id)
                              \/ Release(id)
  /\ UNCHANGED failed

BackendWorks == \E m \in maps : BackendCompletes(m)

Next == ClientCalls \/ ServerHandles \/ BackendWorks \/ ClientHandles

Spec == Init /\ [][Next]_vars

(* Both sides keep handling what arrives, and HandleCommands ticks the     *)
(* native device, so that it completes requests.                           *)
FairSpec == /\ Spec
            /\ WF_vars(ServerHandles) /\ WF_vars(ClientHandles)
            /\ WF_vars(BackendWorks)

-----------------------------------------------------------------------------
(* Properties *)

Tags == [id : 0..MaxIds, serial : 0..MaxSerial, number : Nat, write : BOOLEAN]
Objects == [live : BOOLEAN, serial : 0..MaxSerial, requestSerial : Nat,
            mapped : Requests \cup {NoRequest}]
ObjectData == [allocated : BOOLEAN, serial : 0..MaxSerial, valid : BOOLEAN,
               mappedData : Tags]
Commands == [op : {"create"}, id : 1..MaxIds, arg : 0..MaxSerial]
              \cup [op : {"mapRead", "mapWrite", "update", "unmap", "destroy"},
                    id : 1..MaxIds, arg : Nat]
Returns == [tag : Tags, status : {"SUCCESS", "UNKNOWN", "ERROR"}]

(* Every variable has its type. *)
TypeOK ==
  /\ mObjects \in Seq(Objects) /\ Len(mObjects) <= MaxIds
  /\ mKnown \in Seq(ObjectData)
  /\ requests \subseteq Requests
  /\ tag \in [Requests -> Tags] /\ source \in [Requests -> Tags]
  /\ maps \subseteq [tag : Tags, waiting : BOOLEAN]
  /\ commands \in Seq(Commands) /\ returns \in Seq(Returns)
  /\ failed \in {"none", "server", "client", "assertion"}
  /\ answer \in [Requests -> {"unused", "waiting", "SUCCESS", "UNKNOWN", "ERROR"}]
  /\ calls \in [Requests -> Nat]

(* A client and a server that follow the protocol never fail a command of  *)
(* the other: no id is allocated twice or unknown, no data is sent for a   *)
(* buffer that is not mapped, and no answer finds the buffer mapped.       *)
NeverFatal == failed \notin {"server", "client"}

(* A request is answered at most once, also when Unmap or Release cancels  *)
(* it while its answer is on the way (WireClient.cpp:371-377).             *)
AnsweredOnce ==
  \A r \in Requests : calls[r] = IF answer[r] \in {"unused", "waiting"} THEN 0 ELSE 1

(* An answer that reaches a request is the one the server gave to it, not  *)
(* to a request of a deleted buffer that had the same id.                  *)
OwnAnswer ==
  \A r \in Requests : answer[r] \in {"SUCCESS", "ERROR"} => source[r] = tag[r]

(* Answers of deleted buffers, of cancelled requests and of requests that  *)
(* follow on the same id or serial are never taken for each other.         *)
AnswersAreOwn == AnsweredOnce /\ OwnAnswer

(* While the client holds the data of a request, the native buffer is      *)
(* mapped by that request, and for a write the server has its pointer:     *)
(* what Unmap sends is written where the application meant it to be.       *)
MappedOnBothSides ==
  \A id \in DOMAIN mObjects :
    LET r == mObjects[id].mapped IN
    r # NoRequest =>
      /\ [tag |-> tag[r], waiting |-> FALSE] \in maps
      /\ Known(id) /\ mKnown[id].serial = tag[r].serial
      /\ tag[r].write => mKnown[id].mappedData = tag[r]

(* The pointer the server remembers belongs to the native buffer that has  *)
(* the id, and this buffer is mapped for writing.                          *)
PointerIsMapped ==
  \A id \in DOMAIN mKnown :
    Known(id) /\ mKnown[id].mappedData # NoTag =>
      /\ mKnown[id].mappedData.write
      /\ [tag |-> mKnown[id].mappedData, waiting |-> FALSE] \in NativeMaps(id)

(* Client and server never disagree about what is mapped so that a command *)
(* of the one is an error of the other, or writes into memory that is not  *)
(* mapped.                                                                 *)
SidesAgree == NeverFatal /\ MappedOnBothSides /\ PointerIsMapped

(* Every request is eventually answered. *)
EveryRequestAnswered ==
  \A r \in Requests : answer[r] = "waiting" ~> answer[r] # "waiting"

(* The assertion of OnMapWriteAsyncCallback (WireServer.cpp:295): the      *)
(* buffer of a completed request is known.                                 *)
MappedBufferKnown == failed # "assertion"
=============================================================================
