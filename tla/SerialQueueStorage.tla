------------------------ MODULE SerialQueueStorage -------------------------
(***************************************************************************)
(* What is inside of SerialQueue<T> (src/src/common/SerialQueue.h): a      *)
(* vector of serials, each with a vector of items, and iterators over both *)
(* that are valid as long as neither vector moves.  SerialQueue is the     *)
(* queue as the devices' models see it: contents is that queue, beside the *)
(* vectors that are to hold it.                                            *)
(*                                                                         *)
(* An iterator's mSerialIterator is an index from 0, which also stands for *)
(* nullptr: both mean the first item.  A vector that grows may or may not  *)
(* move, so that capacities are left out.                                  *)
(* A definition named X_Fault is X with a plausible bug: nothing uses it.  *)
(***************************************************************************)
EXTENDS Naturals, Sequences, FiniteSets, SerialQueue

CONSTANTS
  MaxItems,    \* bound: items in a queue
  Serials,     \* the serials in use
  Reentrant    \* the body of a loop over the queue may enqueue

ASSUME SerialsAssumption == Serials \subseteq Nat

VARIABLES
  mStorage,    \* <<[serial, items]>>
  iteration,   \* [at, storage, item, end, serial] of the loop that runs
  visited,     \* items its body saw
  contents,    \* what was enqueued and not cleared: a SerialQueue
  moved,       \* vectors the loop points into that moved: "storage", "items"
  undefined    \* a pointer into a vector that moved was used

NotIterating == [at |-> "none", storage |-> 0, item |-> 0, end |-> 0, serial |-> 0]
queueVars == <<mStorage, iteration, visited, contents, moved, undefined>>

QueueInit ==
  /\ mStorage = <<>> /\ contents = {} /\ visited = <<>>
  /\ iteration = NotIterating /\ moved = {} /\ undefined = FALSE

back == mStorage[Len(mStorage)]

(* Items are numbered as they are enqueued, from 1 when the queue is empty. *)
NewItems(n) ==
  LET last == IF mStorage = <<>> THEN 0 ELSE back.items[Len(back.items)]
  IN  [i \in 1..n |-> last + i]

MayEnqueue(n, serial) ==
  /\ iteration.at = "none" \/ (Reentrant /\ iteration.at = "body")
  /\ Cardinality(contents) + n <= MaxItems
  /\ mStorage # <<>> => back.serial <= serial

(* Enqueue(value, serial) makes a pair for a new serial only.              *)
NeedsPair(serial) == mStorage = <<>> \/ back.serial < serial

(* What the loop points to of the vectors that grow.                       *)
PointedTo(grows) ==
  IF iteration.at = "none" THEN {}
  ELSE grows \ (IF iteration.storage < Len(mStorage) THEN {"items"} ELSE {})

Grow(storage, items, serial, grows) ==
  /\ mStorage' = storage
  /\ contents' = Enqueue(contents, {items[i] : i \in DOMAIN items}, serial)
  /\ \E m \in SUBSET PointedTo(grows) : moved' = moved \cup m
  /\ UNCHANGED <<iteration, visited, undefined>>

EnqueueValue ==
  \E serial \in Serials :
    LET items == NewItems(1)
    IN  /\ MayEnqueue(1, serial)
        /\ IF NeedsPair(serial)
           THEN Grow(Append(mStorage, [serial |-> serial, items |-> items]), items, serial,
                     {"storage"})
           ELSE Grow([mStorage EXCEPT ![Len(mStorage)].items = @ \o items], items, serial,
                     {"items"})

(* Enqueue(values, serial) always makes a pair, so that a serial may have  *)
(* several.                                                                *)
EnqueueValues ==
  \E serial \in Serials, n \in 1..2 :
    LET items == NewItems(n)
    IN  /\ MayEnqueue(n, serial)
        /\ Grow(Append(mStorage, [serial |-> serial, items |-> items]), items, serial,
                {"storage"})

(* The first pair, as an index, that has a bigger serial; or the end.      *)
IsUpTo(i, serial) ==
  /\ i <= Len(mStorage) => mStorage[i].serial > serial
  /\ \A j \in 1..i - 1 : mStorage[j].serial <= serial

FindUpTo_FaultStrict(serial) ==
  CHOOSE i \in 1..Len(mStorage) + 1 :
    /\ i <= Len(mStorage) => mStorage[i].serial >= serial
    /\ \A j \in 1..i - 1 : mStorage[j].serial < serial
FindUpTo(serial) == CHOOSE i \in 1..Len(mStorage) + 1 : IsUpTo(i, serial)

(* for (... : queue.IterateUpTo(serial)): the end is found once, before    *)
(* the loop.  IterateAll is IterateUpTo the greatest serial.               *)
IterateUpTo ==
  \E serial \in Serials :
    /\ iteration.at = "none"
    /\ iteration' = [at |-> "test", storage |-> 1, item |-> 0, end |-> FindUpTo(serial),
                     serial |-> serial]
    /\ visited' = <<>>
    /\ UNCHANGED <<mStorage, contents, moved, undefined>>

LoopIsOver == iteration.storage = iteration.end /\ iteration.item = 0

Dereference ==
  /\ iteration.at = "test" /\ ~LoopIsOver
  /\ visited' = Append(visited, mStorage[iteration.storage].items[iteration.item + 1])
  /\ iteration' = [iteration EXCEPT !.at = "body"]
  /\ UNCHANGED <<mStorage, contents, moved, undefined>>

(* operator++: an mSerialIterator of nullptr is computed anew, any other   *)
(* is compared with the vector's data.  The loop ends here if that is not  *)
(* the vector it was made from.                                            *)
Advance ==
  LET items == mStorage[iteration.storage].items
      bad == "storage" \in moved \/ ("items" \in moved /\ iteration.item > 0)
  IN  /\ iteration.at = "body"
      /\ undefined' = (undefined \/ bad)
      /\ moved' = {}
      /\ iteration' = IF bad THEN NotIterating
                      ELSE IF iteration.item + 1 >= Len(items)
                      THEN [iteration EXCEPT !.at = "test", !.storage = @ + 1, !.item = 0]
                      ELSE [iteration EXCEPT !.at = "test", !.item = @ + 1]
      /\ UNCHANGED <<mStorage, visited, contents>>

(* Without a loop, or when the loop over the same serials is over; its     *)
(* users then forget what it visited.                                      *)
ClearStorageUpTo ==
  \E serial \in Serials :
    /\ \/ iteration.at = "none" /\ mStorage # <<>>
       \/ iteration.at = "test" /\ LoopIsOver /\ serial = iteration.serial
    /\ iteration' = NotIterating /\ visited' = <<>>
    /\ mStorage' = SubSeq(mStorage, FindUpTo(serial), Len(mStorage))
    /\ contents' = ClearUpTo(contents, serial)
    /\ UNCHANGED <<moved, undefined>>

ClearStorage ==
  /\ iteration.at = "none" /\ mStorage # <<>>
  /\ mStorage' = <<>> /\ contents' = {}
  /\ UNCHANGED <<iteration, visited, moved, undefined>>

(* The steps of a loop; the iterators of a const queue are the same code.   *)
Loop == IterateUpTo \/ Dereference \/ Advance

QueueNext == EnqueueValue \/ EnqueueValues \/ Loop \/ ClearStorageUpTo \/ ClearStorage
QueueSpec == QueueInit /\ [][QueueNext]_queueVars

-----------------------------------------------------------------------------
(* A loop over a queue sees what was enqueued for serials up to its own,   *)
(* in order, once each and nothing else, whatever was cleared before.      *)
IteratesUpTo ==
  LET expected == Items(UpTo(contents, iteration.serial))
  IN  iteration.at # "none" =>
        /\ \A i, j \in DOMAIN visited : i < j => visited[i] < visited[j]
        /\ \A i \in DOMAIN visited :
             /\ visited[i] \in expected
             /\ \A item \in expected :
                  item < visited[i] => \E j \in DOMAIN visited : visited[j] = item
        /\ (iteration.at = "test" /\ LoopIsOver) =>
             \A item \in expected : \E j \in DOMAIN visited : visited[j] = item

(* No iterator is used after the vector it points into moved.              *)
IteratorsStayValid == ~undefined
=============================================================================
