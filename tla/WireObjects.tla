---------------------------- MODULE WireObjects ----------------------------
(***************************************************************************)
(* Objects and builders through the wire                                   *)
(* (src/generator/templates/dawn_wire/WireClient.cpp and WireServer.cpp).  *)
(*                                                                         *)
(* The client forwards each call as one command, serialized by WireCmd,    *)
(* and chooses the id of its result; the server deserializes the stream of *)
(* commands and makes the calls on native objects.  What the native        *)
(* builders tell their callbacks goes back as return commands.  A call on  *)
(* or with an object that does not exist natively (an error object) is     *)
(* dropped, and makes its own result an error object.                      *)
(*                                                                         *)
(* There are two types: builders, and the objects they build.  The nth     *)
(* builder of the client becomes the native builder n.                     *)
(***************************************************************************)
EXTENDS Naturals, Sequences, SequencesExt, FiniteSets

CONSTANTS
  MaxBuilders,       \* bound: builders the application creates
  WithCallback,      \* the builders that get an error callback, by number
  MaxObjects,        \* bound: ids of objects
  MaxCreated,        \* bound: objects the application creates
  MaxRefs,           \* bound: the reference count of an object
  MaxCalls,          \* bound: calls on their way to the server
  DataOnErrorObjects \* does the application pass data before it knows that
                     \* the objects of the call exist?

VARIABLES
  mObjects,    \* client: per type, what is at the index of each id
  mFreeIds,    \* client: per type, the ids to use again, the last one first
  commands,    \* the stream of commands the server has not read
  calls,       \* the calls that stream was made from
  returns,     \* the return commands the client has not handled
  mKnown,      \* server: per type, what it knows of each id
  garbled,     \* has a native call differed from the application's?
  failed,      \* has HandleCommands given up?
  heard,       \* what the application was told of each builder
  settled      \* builders whose answer the client has handled

(* The state of the native builders; see Builder. *)
VARIABLES created, alive, mCallback, mGotStatus, mIsConsumed, erred, callbacks,
          deviceErrors, objects, received

Builders == 1..MaxBuilders
Native == INSTANCE Builder

clientVars == <<mObjects, mFreeIds>>
serverVars == <<mKnown, garbled, failed>>
answerVars == <<heard, settled>>
nativeVars == <<created, alive, mCallback, mGotStatus, mIsConsumed, erred,
                callbacks, deviceErrors, objects, received>>
vars == <<clientVars, commands, calls, returns, serverVars, answerVars, nativeVars>>

(* Calls of each shape the API has: no data, an object, an object and a    *)
(* string, two arrays, an array of numbers, and a structure with an array  *)
(* of objects behind a pointer.                                            *)
LOCAL INSTANCE WireCmd WITH Members <-
  LET Value(type) == [annotation |-> "value", type |-> type, length |-> 0]
      String == [annotation |-> "strlen", type |-> "char", length |-> 0]
      Array(type, n) == [annotation |-> "const*", type |-> type, length |-> n]
  IN [createBuilder |-> <<>>, getResult |-> <<>>,
      destroyBuilder |-> <<>>, destroyObject |-> <<>>,
      setIndexBuffer |-> <<Value("object")>>,
      setStage |-> <<Value("object"), String>>,
      setVertexBuffers |-> <<Value("count"), Array("object", 1), Array("offset", 1)>>,
      setSubData |-> <<Value("count"), Array("data", 1)>>,
      createObject |-> <<Array("descriptor", 0)>>,
      descriptor |-> <<Value("count"), Array("object", 1)>>]

BuilderSets == {"setIndexBuffer", "setStage", "setVertexBuffers"}
SelfType(name) == IF name \in BuilderSets \cup {"getResult"} THEN "builder"
                  ELSE IF name = "setSubData" THEN "object" ELSE "device"
ResultType(name) == CASE name = "createBuilder" -> "builder"
                      [] name \in {"getResult", "createObject"} -> "object"
                      [] OTHER -> "none"

Device == 1
Call(name, self, result, args) ==
  [name |-> name, self |-> self, result |-> result, args |-> args]

-----------------------------------------------------------------------------
Init ==
  /\ mObjects = [builder |-> <<>>, object |-> <<>>]
  /\ mFreeIds = [builder |-> <<>>, object |-> <<>>]
  /\ commands = <<>> /\ calls = <<>> /\ returns = <<>>
  /\ mKnown = [builder |-> <<>>, object |-> <<>>]
  /\ garbled = FALSE /\ failed = FALSE
  /\ heard = <<>> /\ settled = {}
  /\ Native!Init

-----------------------------------------------------------------------------
(* Client: the calls of the application. *)

LiveIds(type) == {id \in DOMAIN mObjects[type] : mObjects[type][id].live}

Send(call) ==
  /\ ~failed /\ Len(calls) < MaxCalls
  /\ calls' = Append(calls, call)
  /\ commands' = commands \o Serialize(call)

(* ObjectAllocator::New. *)
NewSerial(type, id) == mObjects[type][id].serial + 1

NewId(type) == IF mFreeIds[type] = <<>> THEN Len(mObjects[type]) + 1
               ELSE Last(mFreeIds[type])
NewResult(type) ==
  [id |-> NewId(type),
   serial |-> IF mFreeIds[type] = <<>> THEN 0 ELSE NewSerial(type, NewId(type))]

ObjectsCreated ==
  LET count[i \in 0..MaxObjects] ==
        IF i = 0 THEN 0
        ELSE count[i - 1] + (IF i > Len(mObjects.object) THEN 0
                             ELSE mObjects.object[i].serial + 1)
  IN count[MaxObjects]
CanCreateObject == NewId("object") <= MaxObjects /\ ObjectsCreated < MaxCreated

(* The new object has the builder callback of the builder of a number, if  *)
(* there is one.                                                           *)
WithNew(objs, type, number, callback) ==
  LET r == NewResult(type)
      new == [live |-> TRUE, serial |-> r.serial, refcount |-> 1,
              builder |-> number, callback |-> callback, canCall |-> TRUE]
  IN IF r.id > Len(objs[type]) THEN [objs EXCEPT ![type] = Append(@, new)]
     ELSE [objs EXCEPT ![type][r.id] = new]
Taken(type) == [mFreeIds EXCEPT ![type] = IF @ = <<>> THEN @ ELSE Front(@)]

(* A new builder, with or without an error callback: SetErrorCallback      *)
(* sends nothing.                                                          *)
CreateBuilder ==
  /\ Len(heard) < MaxBuilders
  /\ Send(Call("createBuilder", Device, NewResult("builder"), <<>>))
  /\ heard' = Append(heard, <<>>)
  /\ mObjects' = WithNew(mObjects, "builder", Len(heard'),
                         Len(heard') \in WithCallback)
  /\ mFreeIds' = Taken("builder")
  /\ UNCHANGED <<settled, returns, serverVars, nativeVars>>

(* The callback goes from the builder to the object it builds. *)
Moved(objs, id) == [objs EXCEPT !.builder[id].canCall = FALSE]

(* GetResult, which the application calls once. *)
GetResult(id) ==
  /\ id \in LiveIds("builder") /\ CanCreateObject
  /\ LET builder == mObjects.builder[id] IN
       /\ builder.canCall
       /\ Send(Call("getResult", id, NewResult("object"), <<>>))
       /\ mObjects' = Moved(WithNew(mObjects, "object", builder.builder,
                                    builder.callback), id)
  /\ mFreeIds' = Taken("object")
  /\ UNCHANGED <<returns, serverVars, answerVars, nativeVars>>

(* The create functions of the device with a structure of objects. *)
CreateObject(ids) ==
  /\ CanCreateObject
  /\ Send(Call("createObject", Device, NewResult("object"),
               << << <<Len(ids), ids>> >> >>))
  /\ mObjects' = WithNew(mObjects, "object", 0, FALSE)
  /\ mFreeIds' = Taken("object")
  /\ UNCHANGED <<returns, serverVars, answerVars, nativeVars>>

(* The application passes data once it knows that the objects of the call  *)
(* exist, or any time.                                                     *)
Valid(type, id) == id \in DOMAIN mKnown[type] /\ mKnown[type][id].valid
MayPassData(type, id, arg) ==
  DataOnErrorObjects \/ (calls = <<>> /\ Valid(type, id) /\ Valid("object", arg))

(* A call with no result. *)
CallBuilder(id, arg) ==
  /\ id \in LiveIds("builder") /\ arg \in LiveIds("object")
  /\ \/ Send(Call("setIndexBuffer", id, NoResult, <<arg>>))
     \/ /\ MayPassData("builder", id, arg)
        /\ \/ Send(Call("setStage", id, NoResult, <<arg, <<"main">>>>))
           \/ Send(Call("setVertexBuffers", id, NoResult, <<1, <<arg>>, <<0>>>>))
  /\ UNCHANGED <<clientVars, returns, serverVars, answerVars, nativeVars>>

SetSubData(id, data) ==
  /\ id \in LiveIds("object")
  /\ data = <<>> \/ MayPassData("object", id, id)
  /\ Send(Call("setSubData", id, NoResult, <<Len(data), data>>))
  /\ UNCHANGED <<clientVars, returns, serverVars, answerVars, nativeVars>>

(* Builders have one reference. *)
Reference(id) ==
  /\ id \in LiveIds("object") /\ mObjects.object[id].refcount < MaxRefs
  /\ mObjects' = [mObjects EXCEPT !.object[id].refcount = @ + 1]
  /\ UNCHANGED <<mFreeIds, commands, calls, returns, serverVars, answerVars,
                 nativeVars>>

(* BuilderCallbackData::Call: the callback may be called again.            *)
Tell(o, status) ==
  IF o.canCall /\ o.callback
    THEN heard' = [heard EXCEPT ![o.builder] = Append(@, status)]
    ELSE UNCHANGED heard

(* The last reference makes the id free at once. *)
Release(type, id) ==
  /\ id \in LiveIds(type)
  /\ LET o == mObjects[type][id] IN
     IF o.refcount > 1
     THEN /\ mObjects' = [mObjects EXCEPT ![type][id].refcount = @ - 1]
          /\ UNCHANGED <<mFreeIds, heard, commands, calls>>
     ELSE /\ Tell(o, "UNKNOWN")
          /\ Send(Call(IF type = "builder" THEN "destroyBuilder" ELSE "destroyObject",
                       id, NoResult, <<>>))
          /\ mObjects' = [mObjects EXCEPT ![type][id].live = FALSE]
          /\ mFreeIds' = [mFreeIds EXCEPT ![type] = Append(@, id)]
  /\ UNCHANGED <<settled, returns, serverVars, nativeVars>>

-----------------------------------------------------------------------------
(* Server: the stream of commands. *)

Allocated(type) == {id \in DOMAIN mKnown[type] : mKnown[type][id].allocated}
Known(type) ==
  IF type = "device" THEN [id \in {Device} |-> "Success"]
  ELSE [id \in Allocated(type) |-> IF mKnown[type][id].valid THEN "Success"
                                   ELSE "ErrorObject"]

(* KnownObjects::Allocate, which fails for an id in use or too far ahead. *)
CanAllocate(type, id) ==
  type = "none" \/ (id <= Len(mKnown[type]) + 1 /\ id \notin Allocated(type))
Allocate(type, r) ==
  LET data == [allocated |-> TRUE, valid |-> FALSE, serial |-> r.serial,
               handle |-> 0, built |-> NoResult]
  IN IF type = "none" THEN mKnown
     ELSE IF r.id > Len(mKnown[type]) THEN [mKnown EXCEPT ![type] = Append(@, data)]
     ELSE [mKnown EXCEPT ![type][r.id] = data]

(* A builder remembers what it builds. *)
Remember(known, t) ==
  IF t.name = "getResult" THEN [known EXCEPT !.builder[t.self].built = t.result]
  ELSE known

Return(object, status) ==
  returns' = Append(returns, [object |-> object, status |-> status])

(* On{{Type}}Error for the builder of a call of GetResult. *)
Invalidated(known, id, status) ==
  IF status # "SUCCESS" THEN [known EXCEPT !.builder[id].valid = FALSE] ELSE known
OnError(known, id, status) ==
  /\ mKnown' = Invalidated(known, id, status)
  /\ Return(known.builder[id].built, status)

(* The call is not made: with or on an error object.  A definition named   *)
(* X_Fault is X with a plausible bug: nothing uses it, it serves to see    *)
(* that a property notices the bug.                                        *)
MaybeMonad_FaultSilent(known, t) ==
  /\ mKnown' = IF t.name \in BuilderSets \cup {"getResult"}
                  THEN [known EXCEPT !.builder[t.self].valid = FALSE] ELSE known
  /\ UNCHANGED returns /\ UNCHANGED nativeVars
MaybeMonad(known, t) ==
  /\ IF t.name = "getResult" THEN OnError(known, t.self, "ERROR")
     ELSE /\ mKnown' = IF t.name \in BuilderSets
                         THEN [known EXCEPT !.builder[t.self].valid = FALSE]
                         ELSE known
          /\ UNCHANGED returns
  /\ UNCHANGED nativeVars

NativeCreateBuilder(known, t) ==
  LET b == Cardinality(created) + 1 IN
  /\ Native!Create(b, TRUE)
  /\ mKnown' = [known EXCEPT !.builder[t.result.id].handle = b,
                             !.builder[t.result.id].valid = TRUE]
  /\ UNCHANGED returns

NativeGetResult(known, t) ==
  LET b == known.builder[t.self].handle IN
  /\ Native!GetResult(b) \/ Native!GetResultOfUnusable(b)
  /\ OnError([known EXCEPT !.object[t.result.id].valid = b \in received'],
             t.self, Last(callbacks'[b]))

(* A create function that fails is an error of the device. *)
NativeCreateObject(known, t) ==
  /\ \E valid \in BOOLEAN :
       /\ mKnown' = [known EXCEPT !.object[t.result.id].valid = valid]
       /\ IF valid THEN UNCHANGED returns ELSE Return(NoResult, "DEVICE")
  /\ UNCHANGED nativeVars

NativeCall(known, t) ==
  CASE t.name = "createBuilder" -> NativeCreateBuilder(known, t)
    [] t.name = "getResult" -> NativeGetResult(known, t)
    [] t.name = "createObject" -> NativeCreateObject(known, t)
    [] OTHER -> /\ mKnown' = known /\ UNCHANGED returns
                /\ \/ t.name \in BuilderSets
                      /\ Native!SetFails(known.builder[t.self].handle)
                   \/ UNCHANGED nativeVars

(* Handle{{Type}}Destroy: an error object has nothing to release. *)
Free_FaultKeepsErrors(type, id) ==
  mKnown' = [mKnown EXCEPT ![type][id].allocated = ~mKnown[type][id].valid]
Free(type, id) == mKnown' = [mKnown EXCEPT ![type][id].allocated = FALSE]
Destroy(type, id) ==
  /\ Free(type, id) /\ UNCHANGED returns
  /\ IF type = "builder" /\ mKnown.builder[id].valid
     THEN Native!Release(mKnown.builder[id].handle)
     ELSE UNCHANGED nativeVars

Fail == failed' = TRUE /\ UNCHANGED <<commands, returns, mKnown, garbled, nativeVars>>

IsCommand(cell) == cell.name # "data"
DestroyedType(name) == CASE name = "destroyBuilder" -> "builder"
                         [] name = "destroyObject" -> "object"
                         [] OTHER -> "none"

(* Is what was read the call the application made? *)
SameCall(t, args) ==
  /\ calls # <<>> /\ t.name = Head(calls).name
  /\ t.self = Head(calls).self /\ t.result = Head(calls).result
  /\ args = Head(calls).args

(* HandleCommands for one command. *)
HandleCommand(t) ==
  LET d == Deserialize(commands, Known(SelfType(t.name)), Known("object"))
      type == ResultType(t.name)
      known == Remember(Allocate(type, t.result), t)
  IN IF d.status = "FatalError" \/ ~CanAllocate(type, t.result.id) THEN Fail
     ELSE /\ commands' = d.rest
          /\ garbled' = (garbled \/ (d.status = "Success" /\ ~SameCall(t, d.args)))
          /\ IF d.status = "ErrorObject" THEN MaybeMonad(known, t)
             ELSE NativeCall(known, t)
          /\ UNCHANGED failed

HandleDestroy(t) ==
  LET type == DestroyedType(t.name) IN
  IF t.self \notin Allocated(type) THEN Fail
  ELSE /\ commands' = Tail(commands)
       /\ Destroy(type, t.self)
       /\ UNCHANGED <<failed, garbled>>

ServerHandles ==
  /\ ~failed /\ commands # <<>>
  /\ calls' = IF calls = <<>> THEN calls ELSE Tail(calls)
  /\ LET t == Head(commands) IN
     IF ~IsCommand(t) THEN Fail
     ELSE IF DestroyedType(t.name) # "none" THEN HandleDestroy(t)
     ELSE HandleCommand(t)
  /\ UNCHANGED <<clientVars, answerVars>>

-----------------------------------------------------------------------------
(* Client: the return commands. *)

(* The object might be deleted, or another one with the same id. *)
SameObject(r) ==
  r.id \in LiveIds("object") /\ mObjects.object[r.id].serial = r.serial

(* Handle{{Type}}ErrorCallbackCmd and HandleDeviceErrorCallbackCmd. *)
ClientHandles ==
  /\ returns # <<>>
  /\ returns' = Tail(returns)
  /\ LET r == Head(returns) IN
     IF r.status = "DEVICE" \/ ~SameObject(r.object) THEN UNCHANGED answerVars
     ELSE LET o == mObjects.object[r.object.id] IN
          /\ IF ~(o.canCall /\ o.callback) /\ r.status = "ERROR"
               THEN heard' = [heard EXCEPT ![o.builder] = Append(@, "DEVICE")]
               ELSE Tell(o, r.status)
          /\ settled' = settled \cup {o.builder}
  /\ UNCHANGED <<clientVars, commands, calls, serverVars, nativeVars>>

-----------------------------------------------------------------------------
ClientCalls ==
  \/ CreateBuilder
  \/ \E id \in 1..MaxBuilders :
       GetResult(id) \/ \E arg \in 1..MaxObjects : CallBuilder(id, arg)
  \/ \E id \in 1..MaxObjects, data \in {<<>>, <<0>>} : SetSubData(id, data)
  \/ CreateObject(<<>>) \/ \E id \in LiveIds("object") : CreateObject(<<id>>)
  \/ \E id \in 1..MaxObjects : Reference(id)
  \/ \E type \in {"builder", "object"} : \E id \in LiveIds(type) : Release(type, id)

Next == ClientCalls \/ ServerHandles \/ ClientHandles
Spec == Init /\ [][Next]_vars

-----------------------------------------------------------------------------
(* Properties *)

(* The native call is the one the application made, whatever data the      *)
(* calls before it carried, and also when they were dropped; nor does the  *)
(* server ever give up on the stream of a client: no id is allocated twice *)
(* or unknown, and no data is taken for a command.                         *)
CallsArriveIntact == ~garbled /\ ~failed

(* Once the server has caught up, both sides know the same objects by the  *)
(* same ids, and a native builder that can be reached is the one the       *)
(* client means.                                                           *)
TablesAgree ==
  calls = <<>> =>
    \A type \in {"builder", "object"} :
      /\ LiveIds(type) = Allocated(type)
      /\ \A id \in LiveIds(type) :
           /\ mKnown[type][id].serial = mObjects[type][id].serial
           /\ type = "builder" /\ mKnown.builder[id].valid =>
                mKnown.builder[id].handle = mObjects.builder[id].builder

Answers(n) == SelectSeq(heard[n], LAMBDA status : status # "UNKNOWN")

(* What the application hears of a builder is what became of its object,   *)
(* at most once, not after the object was given up, and never the answer   *)
(* to another builder whose object had the same id.                        *)
AnswersMatch ==
  \A n \in DOMAIN heard :
    /\ Answers(n) \in {<<>>, <<"SUCCESS">>, <<"ERROR">>, <<"DEVICE">>}
    /\ Answers(n) # <<>> => Head(heard[n]) = Answers(n)[1]
    /\ Answers(n) = <<"SUCCESS">> => n \in received
    /\ Answers(n) \in {<<"ERROR">>, <<"DEVICE">>} => n \notin received

(* The answer to each builder whose result was asked for is never lost: it *)
(* was handled, it is on its way, or the server still has to make it; only *)
(* the release of the object takes it away.                                *)
NoAnswerLost ==
  \A id \in LiveIds("object") :
    LET o == mObjects.object[id]
        object == [id |-> id, serial |-> o.serial]
    IN o.builder # 0 =>
         \/ o.builder \in settled
         \/ \E r \in ToSet(returns) : r.object = object /\ r.status # "DEVICE"
         \/ \E c \in ToSet(calls) : c.name = "getResult" /\ c.result = object

(* The application hears of each builder what it should, and does hear it, *)
(* and the native builders keep their promise (Builder).                   *)
BuildersAreAnswered == AnswersMatch /\ NoAnswerLost /\ Native!CalledExactlyOnce
=============================================================================
