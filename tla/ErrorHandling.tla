--------------------------- MODULE ErrorHandling ---------------------------
(***************************************************************************)
(* How an error gets from the check that finds it to the application       *)
(* (src/src/common/Result.h, dawn_native/Error.h, Error.cpp, ErrorData.cpp *)
(* and the entry points of Device.cpp, Buffer.cpp and Queue.cpp).          *)
(*                                                                         *)
(* A Result is one word: a pointer to an ErrorData or null, or a pointer   *)
(* tagged in its two low bits.  It must be emptied before it is destroyed; *)
(* moving it and acquiring what it has do so.  DAWN_TRY takes the error    *)
(* out of the Result of a callee, adds a line to its backtrace and puts it *)
(* into the Result of the caller; the entry point reports it and deletes   *)
(* it.  The error callback of the application runs in between, and may     *)
(* call entry points that fail in their turn.                              *)
(***************************************************************************)
EXTENDS Integers, Sequences, FiniteSets

CONSTANTS
  EntryPoints,  \* functions that the application calls
  MaxCalls      \* bound: calls of the application

ASSUME EntryPointsAssumption ==
  EntryPoints \subseteq {"CreateTexture", "CreateQueue", "CreateBindGroupLayout",
                         "CreateBlendStateBuilder", "SetSubData", "Submit", "Device"}

VARIABLES
  stack,        \* the functions that are running
  temp,         \* the Result that the last function returned
  errors,       \* ErrorData that exist: their backtrace
  objects,      \* objects that exist: which function made each
  mErrorCallback,
  calls,        \* calls so far
  destroyed,    \* Results destroyed by the last step
  outcome       \* how the last call ended

errorVars == <<stack, temp, errors, objects, mErrorCallback, calls, destroyed, outcome>>

-----------------------------------------------------------------------------
(* Result<void, E*> is "void", Result<T*, E*> is "pointer".                *)
Success == 0
Error == 1
Empty == 2

MakePayload(pointer, tag) == pointer + tag
GetPayloadType(payload) == payload % 4
GetSuccessFromPayload(payload) == payload
GetErrorFromPayload(payload) == payload - Error

kEmptyPayload(type) == IF type = "void" THEN 0 ELSE Empty
Result(type, payload) == [type |-> type, payload |-> payload]
FromSuccess(type, pointer) ==
  Result(type, IF type = "void" THEN 0 ELSE MakePayload(pointer, Success))
FromError(type, error) ==
  Result(type, IF type = "void" THEN error ELSE MakePayload(error, Error))

IsError(r) ==
  IF r.type = "void" THEN r.payload # 0 ELSE GetPayloadType(r.payload) = Error
ErrorOf(r) == IF r.type = "void" THEN r.payload ELSE GetErrorFromPayload(r.payload)
IsEmpty(r) == r.payload = kEmptyPayload(r.type)

(* What is left of a Result that was moved from, and of one whose error,   *)
(* or success, was acquired.  A definition named X_Fault is X with a       *)
(* plausible bug: nothing uses it, it serves to see that a property        *)
(* notices the bug.                                                        *)
MovedFrom(r) == Result(r.type, kEmptyPayload(r.type))
Acquired_FaultKept(r) == r
Acquired(r) == Result(r.type, kEmptyPayload(r.type))

-----------------------------------------------------------------------------
(* The functions, as the statements that matter here.                      *)
Statement(op, callee) == [op |-> op, callee |-> callee]
Check == Statement("check", "")           \* may return DAWN_VALIDATION_ERROR
Find == Statement("find", "")             \* may return an object of a cache
Make == Statement("make", "")             \* a new object, or an error
New == Statement("new", "")               \* return new ...Builder(this)
Try(callee) == Statement("try", callee)
TryAssign(callee) == Statement("assign", callee)
Consume(callee) == Statement("consume", callee)   \* if (ConsumedError(callee())) return
Require(callee) == Statement("require", callee)   \* ASSERT(callee().IsSuccess())

(* Entry points of the device that create, and the functions they call;    *)
(* all builders are made alike, and so are the other objects.              *)
Creation ==
  [CreateTexture |-> <<Consume("CreateTextureInternal")>>,
   CreateQueue |-> <<Consume("CreateQueueInternal")>>,
   CreateBindGroupLayout |-> <<Consume("CreateBindGroupLayoutInternal")>>,
   CreateBlendStateBuilder |-> <<New>>]
Internals ==
  [CreateTextureInternal |->
     <<Try("ValidateTextureDescriptor"), TryAssign("CreateTextureImpl")>>,
   CreateQueueInternal |-> <<TryAssign("CreateQueueImpl")>>,
   CreateBindGroupLayoutInternal |->
     <<Try("ValidateBindGroupLayoutDescriptor"), TryAssign("GetOrCreateBindGroupLayout")>>]
GetOrCreate ==
  [GetOrCreateBindGroupLayout |-> <<Find, TryAssign("CreateBindGroupLayoutImpl")>>]

(* The backend's functions; none fails today, though their type lets them. *)
Impls ==
  [CreateTextureImpl |-> <<Make>>, CreateQueueImpl |-> <<Make>>,
   CreateBindGroupLayoutImpl |-> <<Make>>]

(* Two of the functions that check descriptors, each with generated ones.  *)
TextureChecks ==
  [ValidateTextureDescriptor |->
     <<Check, Try("ValidateTextureUsageBit"), Try("ValidateTextureFormat"), Check>>]
LayoutChecks ==
  [ValidateBindGroupLayoutDescriptor |->
     <<Check, Try("ValidateShaderStageBit"), Try("ValidateBindingType"), Check>>]
EnumChecks ==
  [fn \in {"ValidateTextureUsageBit", "ValidateTextureFormat",
           "ValidateShaderStageBit", "ValidateBindingType"} |-> <<Check>>]

(* Entry points that return nothing.                                       *)
SetSubData ==
  [SetSubData |-> <<Consume("ValidateSetSubData")>>, ValidateSetSubData |-> <<Check, Check>>]
QueueSubmit == [Submit |-> <<Consume("ValidateSubmit")>>, ValidateSubmit |-> <<>>]

(* The constructor of the D3D12 device and the functions it loads.         *)
Device == [Device |-> <<Require("LoadFunctions")>>]
PlatformFunctions ==
  [LoadFunctions |-> <<Try("LoadD3D12"), Try("LoadDXGI"), Try("LoadD3DCompiler")>>,
   LoadD3D12 |-> <<Check>>, LoadDXGI |-> <<Check>>, LoadD3DCompiler |-> <<Check>>]

f ++ g == [x \in DOMAIN f \cup DOMAIN g |-> IF x \in DOMAIN f THEN f[x] ELSE g[x]]
Body ==
  Creation ++ Internals ++ GetOrCreate ++ Impls ++ TextureChecks ++ LayoutChecks ++ EnumChecks
    ++ SetSubData ++ QueueSubmit ++ Device ++ PlatformFunctions

(* What a function returns: entry points return objects or nothing, the    *)
(* functions that make objects a ResultOrError, the others a MaybeError.   *)
Makers == {"GetOrCreateBindGroupLayout", "CreateBindGroupLayoutImpl",
           "CreateTextureImpl", "CreateQueueImpl"}
TypeOf(fn) == IF fn \in Makers THEN "pointer" ELSE "void"
IsApi(fn) == fn \in EntryPoints

Frame(fn) ==
  [fn |-> fn, at |-> 1,
   phase |-> "running",   \* or "returned": its callee has, or "reporting"
   error |-> 0,           \* the ErrorData* that ConsumeError holds
   result |-> 0,          \* the object for the caller
   failed |-> FALSE,      \* some check of the call failed
   told |-> 0]            \* error callbacks for the call

ErrorInit ==
  /\ stack = <<>> /\ temp = Result("void", 0)
  /\ errors = <<>> /\ objects = <<>>
  /\ mErrorCallback = TRUE /\ calls = 0
  /\ destroyed = {} /\ outcome = {}

top == IF stack = <<>> THEN Frame("Application") ELSE stack[Len(stack)]
done == top.at > Len(Body[top.fn])
statement == Body[top.fn][top.at]
SetTop(frame) == [stack EXCEPT ![Len(stack)] = frame]
Front(frames) == SubSeq(frames, 1, Len(frames) - 1)
Runs(op) == top.fn \in DOMAIN Body /\ ~done /\ statement.op = op

(* The application runs: outside of all calls, or in its error callback.   *)
AppRuns == top.fn \in {"Application", "ErrorCallback"}

(* malloc: the lowest free address; pointers are aligned for their tag.    *)
Used == DOMAIN objects \cup DOMAIN errors
NewAddress ==
  4 * CHOOSE k \in 1..Cardinality(Used) + 1 :
        4 * k \notin Used /\ \A j \in 1..k - 1 : 4 * j \in Used
With(f, x, y) == [z \in DOMAIN f \cup {x} |-> IF z = x THEN y ELSE f[z]]

(* The frame below is told that its callee has returned.                   *)
Popped(frames) ==
  IF frames = <<>> THEN frames ELSE [frames EXCEPT ![Len(frames)].phase = "returned"]

-----------------------------------------------------------------------------
Call(fn) ==
  /\ AppRuns /\ calls < MaxCalls
  /\ calls' = calls + 1
  /\ stack' = Append(stack, Frame(fn))
  /\ destroyed' = {} /\ outcome' = {}
  /\ UNCHANGED <<temp, errors, objects, mErrorCallback>>

SetErrorCallback(isSet) ==
  /\ AppRuns /\ calls < MaxCalls
  /\ calls' = calls + 1
  /\ mErrorCallback' = isSet
  /\ destroyed' = {} /\ outcome' = {}
  /\ UNCHANGED <<stack, temp, errors, objects>>

(* The callee of the next statement begins.                                *)
Enter ==
  /\ \E op \in {"try", "assign", "consume", "require"} : Runs(op)
  /\ top.phase = "running"
  /\ stack' = Append(stack, Frame(statement.callee))
  /\ destroyed' = {} /\ outcome' = {}
  /\ UNCHANGED <<temp, errors, objects, mErrorCallback, calls>>

Continue(object) == SetTop([top EXCEPT !.at = @ + 1, !.phase = "running", !.result = object])

CheckPasses ==
  /\ Runs("check")
  /\ stack' = Continue(0) /\ destroyed' = {}
  /\ UNCHANGED <<temp, errors, objects, mErrorCallback, calls, outcome>>

(* The call of an entry point that is being executed.                      *)
IsCurrent(i) == IsApi(stack[i].fn) /\ \A j \in i + 1..Len(stack) : ~IsApi(stack[j].fn)

(* MakeError, and the Result made of what it returns.                      *)
MakeError ==
  /\ Runs("check") \/ Runs("make")
  /\ stack' = Popped(Front([i \in DOMAIN stack |->
                 IF IsCurrent(i) THEN [stack[i] EXCEPT !.failed = TRUE] ELSE stack[i]]))
  /\ errors' = With(errors, NewAddress, <<top.fn>>)
  /\ temp' = FromError(TypeOf(top.fn), NewAddress)
  /\ destroyed' = {}
  /\ UNCHANGED <<objects, mErrorCallback, calls, outcome>>

MakeObject ==
  /\ Runs("make")
  /\ objects' = With(objects, NewAddress, top.fn)
  /\ stack' = Continue(NewAddress) /\ destroyed' = {}
  /\ UNCHANGED <<temp, errors, mErrorCallback, calls, outcome>>

(* A layout of the cache is returned; or none is found.                    *)
FindObject ==
  /\ Runs("find")
  /\ \/ \E o \in DOMAIN objects :
          /\ objects[o] = "CreateBindGroupLayoutImpl"
          /\ stack' = Popped(Front(stack))
          /\ temp' = FromSuccess("pointer", o)
     \/ stack' = Continue(0) /\ UNCHANGED temp
  /\ destroyed' = {}
  /\ UNCHANGED <<errors, objects, mErrorCallback, calls, outcome>>

(* DAWN_TRY and DAWN_TRY_ASSIGN: the Result of the callee is moved into a  *)
(* local variable.  An error is acquired and returned with one more line   *)
(* of backtrace, and the variable is destroyed.                            *)
Propagate ==
  /\ Runs("try") \/ Runs("assign")
  /\ top.phase = "returned" /\ IsError(temp)
  /\ LET error == ErrorOf(temp)
     IN /\ errors' = [errors EXCEPT ![error] = Append(@, top.fn)]
        /\ temp' = FromError(TypeOf(top.fn), error)
  /\ destroyed' = {MovedFrom(temp), Acquired(temp)}
  /\ stack' = Popped(Front(stack))
  /\ UNCHANGED <<objects, mErrorCallback, calls, outcome>>

(* Without an error, DAWN_TRY_ASSIGN acquires the success.                 *)
Proceed ==
  /\ Runs("try") \/ Runs("assign")
  /\ top.phase = "returned" /\ ~IsError(temp)
  /\ stack' = Continue(IF statement.op = "assign" THEN GetSuccessFromPayload(temp.payload) ELSE 0)
  /\ destroyed' =
       {MovedFrom(temp), IF statement.op = "assign" THEN Acquired(temp) ELSE temp}
  /\ temp' = MovedFrom(temp)
  /\ UNCHANGED <<errors, objects, mErrorCallback, calls, outcome>>

(* A function that is not an entry point returns {} or its object; the     *)
(* ...Internal functions hand it over through a pointer.                   *)
Return ==
  /\ top.fn \in DOMAIN Body /\ done /\ ~IsApi(top.fn)
  /\ temp' = FromSuccess(TypeOf(top.fn), top.result)
  /\ LET caller == Len(stack) - 1
         below == Popped(Front(stack))
     IN stack' = IF IsApi(stack[caller].fn) THEN [below EXCEPT ![caller].result = top.result]
                                            ELSE below
  /\ destroyed' = {}
  /\ UNCHANGED <<errors, objects, mErrorCallback, calls, outcome>>

(* ConsumedError: its parameter is moved from the Result.  HandleError     *)
(* calls the callback, which may run for long.                             *)
ConsumeError ==
  /\ Runs("consume") /\ top.phase = "returned" /\ IsError(temp)
  /\ LET reporting == SetTop([top EXCEPT !.phase = "reporting", !.error = ErrorOf(temp),
                                         !.told = IF mErrorCallback THEN @ + 1 ELSE @])
     IN stack' = IF mErrorCallback THEN Append(reporting, Frame("ErrorCallback")) ELSE reporting
  /\ temp' = MovedFrom(temp)
  /\ destroyed' = {MovedFrom(temp), Acquired(temp)}
  /\ UNCHANGED <<errors, objects, mErrorCallback, calls, outcome>>

ErrorCallbackReturns ==
  /\ top.fn = "ErrorCallback"
  /\ stack' = Front(stack) /\ destroyed' = {} /\ outcome' = {}
  /\ UNCHANGED <<temp, errors, objects, mErrorCallback, calls>>

(* ConsumeError deletes the error, and the entry point returns at once.    *)
Ends(frame) ==
  outcome' = {[fn |-> frame.fn, failed |-> frame.failed, told |-> frame.told,
               result |-> frame.result]}

Deleted(error) == [e \in DOMAIN errors \ {error} |-> errors[e]]

EndWithError ==
  /\ top.phase = "reporting"
  /\ errors' = Deleted(top.error)
  /\ Ends([top EXCEPT !.result = 0])
  /\ stack' = Front(stack) /\ destroyed' = {}
  /\ UNCHANGED <<temp, objects, mErrorCallback, calls>>

EndWithSuccess ==
  /\ Runs("consume") /\ top.phase = "returned" /\ ~IsError(temp)
  /\ Ends(top)
  /\ stack' = Front(stack) /\ destroyed' = {temp}
  /\ UNCHANGED <<temp, errors, objects, mErrorCallback, calls>>

NewBuilder ==
  /\ Runs("new")
  /\ objects' = With(objects, NewAddress, top.fn)
  /\ Ends([top EXCEPT !.result = NewAddress])
  /\ stack' = Front(stack) /\ destroyed' = {}
  /\ UNCHANGED <<temp, errors, mErrorCallback, calls>>

(* The constructor of the D3D12 device asserts that its functions load and *)
(* leaves the error in the Result: a build with assertions ends here.      *)
EndOfConstructor ==
  /\ Runs("require") /\ top.phase = "returned" /\ ~IsError(temp)
  /\ Ends(top)
  /\ stack' = Front(stack) /\ destroyed' = {temp}
  /\ UNCHANGED <<temp, errors, objects, mErrorCallback, calls>>

ErrorNext ==
  \/ \E fn \in EntryPoints : Call(fn)
  \/ \E isSet \in BOOLEAN : SetErrorCallback(isSet)
  \/ Enter
  \/ CheckPasses
  \/ MakeError
  \/ MakeObject
  \/ FindObject
  \/ Propagate
  \/ Proceed
  \/ Return
  \/ ConsumeError
  \/ ErrorCallbackReturns
  \/ EndWithError
  \/ EndWithSuccess
  \/ NewBuilder
  \/ EndOfConstructor

ErrorSpec == ErrorInit /\ [][ErrorNext]_errorVars

-----------------------------------------------------------------------------
(* Where an error is held: by the Result in transit and by the entry       *)
(* points that report one.                                                 *)
Holders(error) ==
  {i \in DOMAIN stack : stack[i].phase = "reporting" /\ stack[i].error = error}
    \cup {i \in {0} : IsError(temp) /\ ErrorOf(temp) = error}

HaveOneOwner ==
  /\ \A e \in DOMAIN errors : Cardinality(Holders(e)) = 1
  /\ IsError(temp) => ErrorOf(temp) \in DOMAIN errors
  /\ \A i \in DOMAIN stack : stack[i].phase = "reporting" => stack[i].error \in DOMAIN errors
  /\ \A r \in destroyed : IsEmpty(r)

(* The backtrace of an error that is reported has each function it came    *)
(* through, in order, up to the one the entry point called.                *)
CalledBy(callee, fn) == \E k \in DOMAIN Body[fn] : Body[fn][k].callee = callee
HaveTheirBacktrace ==
  \A i \in DOMAIN stack : stack[i].phase = "reporting" =>
    LET trace == errors[stack[i].error]
    IN /\ \A k \in 2..Len(trace) : CalledBy(trace[k - 1], trace[k])
       /\ CalledBy(trace[Len(trace)], stack[i].fn)

(* A call that fails returns nothing and tells the application at most     *)
(* once, one that succeeds returns the object its backend made.            *)
MakerOf == [CreateTexture |-> "CreateTextureImpl", CreateQueue |-> "CreateQueueImpl",
            CreateBindGroupLayout |-> "CreateBindGroupLayoutImpl",
            CreateBlendStateBuilder |-> "CreateBlendStateBuilder"]
CallersAreTold ==
  \A o \in outcome :
    /\ o.failed => o.result = 0
    /\ o.told <= 1 /\ (o.told = 1 => o.failed)
    /\ ~o.failed /\ o.fn \in DOMAIN MakerOf =>
         o.result \in DOMAIN objects /\ objects[o.result] = MakerOf[o.fn]

(* Result.h, Error.h and ConsumedError of Device.h: no ErrorData is held   *)
(* twice or by nobody, or after it was deleted, not even by a call that    *)
(* waits for its error callback; no Result is destroyed with something in  *)
(* it; and the application learns of each error once.                      *)
ErrorsAreHandledOnce == HaveOneOwner /\ HaveTheirBacktrace /\ CallersAreTold
=============================================================================
