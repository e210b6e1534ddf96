--------------------------- MODULE CommandStorage ---------------------------
(***************************************************************************)
(* How the commands of a command buffer are stored and read back           *)
(* (src/src/dawn_native/CommandAllocator.cpp, Commands.cpp and the         *)
(* recording methods of CommandBufferBuilder).                             *)
(*                                                                         *)
(* A command is a piece of memory after an id, followed by pieces of       *)
(* additional data with ids of their own.  Memory is a list of blocks; a   *)
(* block has cells, what was written at each offset.  malloc aligns a      *)
(* block for every type, so that offsets stand for addresses; only the     *)
(* dummy block inside of the allocator may be off by kId.  The commands    *)
(* are read to validate them, to execute them, any number of times, and to *)
(* destroy them.  The iterator moves from the builder to the command       *)
(* buffer: it is one object here, and holder says whose it is.             *)
(***************************************************************************)
EXTENDS Integers, Sequences, FiniteSets

CONSTANTS
  Commands,          \* commands that the application may record:
                     \* [type, refs, data], data a list of [of, values]
  Types, Objects,
  SizeOf, AlignOf,   \* of the structure of each type, and of "uint32", "Ref"
  DataOf,            \* the elements of the additional data of each type
  kFirstBlock, kMaxBlock,  \* 2048 and 16384 in the code
  MaxCommands,       \* bound: commands in a list
  MaxReads           \* bound: times a command buffer is executed

kId == SizeOf["uint32"]

ASSUME SizeAssumption ==
  /\ SizeOf \in [Types \cup {"uint32", "Ref"} -> Nat \ {0}]
  /\ AlignOf \in [Types \cup {"uint32", "Ref"} -> {1, 4, 8}]
  /\ kId = 4 /\ kFirstBlock \in Nat /\ kMaxBlock \in Nat
  /\ "EndOfBlock" \notin Types /\ "AdditionalData" \notin Types
  /\ DataOf \in [Types -> Seq({"uint32", "Ref"})]
ASSUME CommandAssumption ==
  \A c \in Commands :
    /\ c.type \in Types /\ c.refs \in Seq(Objects)
    /\ DOMAIN c.data = DOMAIN DataOf[c.type]
    /\ \A k \in DOMAIN c.data :
         /\ c.data[k].of = DataOf[c.type][k]
         /\ c.data[k].values \in Seq(IF c.data[k].of = "Ref" THEN Objects ELSE Nat)
         /\ Len(c.data[k].values) = Len(c.data[1].values)

VARIABLES
  stage,             \* what is being done with the commands
  holder,            \* whose iterator has them: "builder", "buffer" or "nobody"
  builderAlive,
  mBlocks,           \* <<[size, cells]>>
  mCurrentPtr, mEndPtr, mLastAllocationSize,      \* the allocator
  asked, allocated,  \* pieces of the commands recorded, and how many it has allocated
  mCurrentBlock, readPtr, reading,                \* the iterator
  reads,             \* executions so far
  seen,              \* pieces read by this iteration
  references         \* to each object, held by the commands

commandAllocator == <<mBlocks, mCurrentPtr, mEndPtr, mLastAllocationSize, asked, allocated>>
iterator == <<mCurrentBlock, readPtr, reading, seen>>
commandVars == <<stage, holder, builderAlive, commandAllocator, iterator, reads, references>>

Align(ptr, alignment) == ((ptr + alignment - 1) \div alignment) * alignment

(* The references that the structures of a piece hold.                     *)
RefsIn(p) == IF p.id # "AdditionalData" THEN p.value.refs
             ELSE IF p.of = "Ref" THEN p.value ELSE <<>>
References(p) == [o \in Objects |-> Cardinality({k \in DOMAIN RefsIn(p) : RefsIn(p)[k] = o})]
Plus(f, g) == [o \in Objects |-> f[o] + g[o]]
Minus(f, g) == [o \in Objects |-> f[o] - g[o]]

CommandInit ==
  /\ stage = "recording" /\ holder = "builder" /\ builderAlive = TRUE
  /\ mBlocks = <<>> /\ mLastAllocationSize = kFirstBlock
  /\ mCurrentPtr \in {0, kId} /\ mEndPtr = mCurrentPtr + kId  \* mDummyEnum
  /\ asked = <<>> /\ allocated = 0
  /\ mCurrentBlock = 1 /\ readPtr = 0 /\ reading = <<>>
  /\ reads = 0 /\ seen = <<>>
  /\ references = [o \in Objects |-> 0]
-----------------------------------------------------------------------------
(* Recording *)

(* What Allocate and AllocateData are asked for, command after command.    *)
Pieces(c) ==
  <<[id |-> c.type, of |-> c.type, count |-> 1,
     value |-> [refs |-> c.refs,
                count |-> IF c.data = <<>> THEN 0 ELSE Len(c.data[1].values)]]>>
  \o [k \in DOMAIN c.data |-> [id |-> "AdditionalData", of |-> c.data[k].of,
                               count |-> Len(c.data[k].values), value |-> c.data[k].values]]

Pending == allocated < Len(asked)
NextPiece == asked[allocated + 1]

Record(c) ==
  /\ stage = "recording" /\ ~Pending
  /\ Cardinality({k \in DOMAIN asked : asked[k].id # "AdditionalData"}) < MaxCommands
  /\ asked' = asked \o Pieces(c)
  /\ UNCHANGED <<stage, holder, builderAlive, mBlocks, mCurrentPtr, mEndPtr,
                 mLastAllocationSize, allocated, iterator, reads, references>>

PieceSize(p) == SizeOf[p.of] * p.count
CommandPtr(ptr, of) == Align(ptr + kId, AlignOf[of])
NextPtr(ptr, p) == Align(CommandPtr(ptr, p.of) + PieceSize(p), kId)

Fits(p) == NextPtr(mCurrentPtr, p) + kId <= mEndPtr

WriteCell(cells, at, cell) == [o \in DOMAIN cells \cup {at} |-> IF o = at THEN cell ELSE cells[o]]
WriteInLast(at, cell) ==
  IF mBlocks = <<>> THEN mBlocks  \* mDummyEnum
  ELSE [mBlocks EXCEPT ![Len(mBlocks)].cells = WriteCell(@, at, cell)]
Id(id) == [holds |-> "id", bytes |-> kId, value |-> id]

(* Allocate, where the block has room: the method that records fills the   *)
(* piece, which takes its references.  Nothing is written to an empty one. *)
AllocatePiece ==
  /\ stage = "recording" /\ Pending /\ Fits(NextPiece)
  /\ LET p == NextPiece
         withId == WriteCell(mBlocks[Len(mBlocks)].cells, mCurrentPtr, Id(p.id))
         piece == [holds |-> "piece", bytes |-> PieceSize(p), value |-> p.value]
     IN /\ mBlocks' = [mBlocks EXCEPT ![Len(mBlocks)].cells =
             IF p.count = 0 THEN withId
             ELSE WriteCell(withId, CommandPtr(mCurrentPtr, p.of), piece)]
        /\ mCurrentPtr' = NextPtr(mCurrentPtr, p)
        /\ references' = Plus(references, References(p))
  /\ allocated' = allocated + 1
  /\ UNCHANGED <<stage, holder, builderAlive, mEndPtr, mLastAllocationSize, asked, iterator,
                 reads>>

Tag == Id("EndOfBlock")
MinOf(a, b) == IF a <= b THEN a ELSE b
MaxOf(a, b) == IF a >= b THEN a ELSE b

MinimumSize(p) == NextPtr(mCurrentPtr, p) - mCurrentPtr + kId + kId
NewBlockSize(p) == MaxOf(MinimumSize(p), MinOf(mLastAllocationSize * 2, kMaxBlock))

(* Allocate, where it has none: it ends the block and tries in a new one.  *)
GetNewBlock ==
  /\ stage = "recording" /\ Pending /\ ~Fits(NextPiece)
  /\ mLastAllocationSize' = NewBlockSize(NextPiece)
  /\ mBlocks' = Append(WriteInLast(mCurrentPtr, Tag),
                       [size |-> mLastAllocationSize', cells |-> <<>>])
  /\ mCurrentPtr' = 0 /\ mEndPtr' = mLastAllocationSize'
  /\ UNCHANGED <<stage, holder, builderAlive, asked, allocated, iterator, reads, references>>

(* malloc fails: the block is ended all the same, and the method that      *)
(* records writes to a null pointer.                                       *)
OutOfMemory ==
  /\ stage = "recording" /\ Pending /\ ~Fits(NextPiece)
  /\ mBlocks' = WriteInLast(mCurrentPtr, Tag)
  /\ mLastAllocationSize' = NewBlockSize(NextPiece)
  /\ stage' = "crashed"
  /\ UNCHANGED <<holder, builderAlive, mCurrentPtr, mEndPtr, asked, allocated, iterator, reads,
                 references>>
-----------------------------------------------------------------------------
(* Iterating *)

Reset == mCurrentBlock' = 1 /\ readPtr' = 0 /\ reading' = <<>> /\ seen' = <<>>

(* The blocks of the allocator become the ones of the iterator, once.      *)
MoveToIterator == mBlocks' = IF stage = "recording" THEN WriteInLast(mCurrentPtr, Tag) ELSE mBlocks

(* ValidateGetResult reads what was recorded,                              *)
GetResult ==
  /\ stage = "recording" /\ ~Pending
  /\ MoveToIterator /\ Reset
  /\ stage' = "validating"
  /\ UNCHANGED <<holder, builderAlive, mCurrentPtr, mEndPtr, mLastAllocationSize, asked,
                 allocated, reads, references>>

(* and may stop after any command with an error.                           *)
Refuse ==
  /\ stage = "validating" /\ reading = <<>>
  /\ stage' = "refused"
  /\ UNCHANGED <<holder, builderAlive, commandAllocator, iterator, reads, references>>

Execute ==
  /\ stage = "ready" /\ reads < MaxReads
  /\ stage' = "executing" /\ reads' = reads + 1
  /\ seen' = <<>>
  /\ UNCHANGED <<holder, builderAlive, commandAllocator, mCurrentBlock, readPtr, reading,
                 references>>

FreeCommands ==
  /\ stage' = "freeing" /\ MoveToIterator /\ Reset
  /\ UNCHANGED <<mCurrentPtr, mEndPtr, mLastAllocationSize, asked, allocated, reads, references>>

WasAcquired_FaultNever == FALSE
WasAcquired == holder # "builder"

DestroyBuilder ==
  /\ builderAlive /\ stage \in {"recording", "refused", "ready", "freed"} /\ ~Pending
  /\ builderAlive' = FALSE /\ UNCHANGED holder
  /\ IF WasAcquired
     THEN UNCHANGED <<stage, commandAllocator, iterator, reads, references>>
     ELSE FreeCommands

DestroyCommandBuffer ==
  /\ holder = "buffer" /\ stage = "ready"
  /\ holder' = "nobody"
  /\ FreeCommands /\ UNCHANGED builderAlive

Iterating == stage \in {"validating", "executing", "freeing"}

AtEnd == mBlocks = <<>>  \* the iterator's own mEndOfBlock
Cells == mBlocks[mCurrentBlock].cells
CellHolds(ptr, what) == ptr \in DOMAIN Cells /\ Cells[ptr].holds = what
IdPtr_FaultUnaligned == readPtr
IdPtr == Align(readPtr, kId)
NextId == IF AtEnd THEN "EndOfBlock"
          ELSE IF CellHolds(IdPtr, "id") THEN Cells[IdPtr].value ELSE "garbage"

(* What NextCommandId is about to find: the end of a block, which must not *)
(* be the last one while data is missing, a command, or additional data.   *)
AtEndOfBlock == NextId = "EndOfBlock" /\ (reading = <<>> \/ mCurrentBlock < Len(mBlocks))
AtCommand ==
  reading = <<>> /\ NextId \in Types /\ CellHolds(CommandPtr(IdPtr, NextId), "piece")
AtData ==
  /\ reading # <<>> /\ NextId = "AdditionalData"
  /\ Head(reading).count = 0 \/ CellHolds(CommandPtr(IdPtr, Head(reading).of), "piece")

AfterLastCommand == [validating |-> "ready", executing |-> "ready", freeing |-> "freed"]

(* NextCommandId at the end of a block.  After the last block the iterator *)
(* is where it was at first, and a command buffer that was validated takes *)
(* it over.                                                                *)
NextBlock ==
  /\ Iterating /\ AtEndOfBlock
  /\ IF mCurrentBlock < Len(mBlocks)
     THEN /\ mCurrentBlock' = mCurrentBlock + 1 /\ readPtr' = 0
          /\ UNCHANGED <<stage, holder, reading, seen>>
     ELSE /\ mCurrentBlock' = 1 /\ readPtr' = 0 /\ reading' = <<>> /\ UNCHANGED seen
          /\ stage' = AfterLastCommand[stage]
          /\ holder' = IF stage = "validating" THEN "buffer" ELSE holder
  /\ UNCHANGED <<builderAlive, commandAllocator, reads, references>>

(* A piece is read; FreeCommands calls the destructors of its structures.  *)
ReadPiece(p, ptr) ==
  /\ seen' = Append(seen, p)
  /\ readPtr' = ptr + PieceSize(p)
  /\ references' = IF stage = "freeing" THEN Minus(references, References(p)) ELSE references

(* NextCommandId and NextCommand. *)
NextCommand ==
  /\ Iterating /\ AtCommand
  /\ LET ptr == CommandPtr(IdPtr, NextId)
         value == Cells[ptr].value
     IN /\ ReadPiece([id |-> NextId, of |-> NextId, count |-> 1, value |-> value], ptr)
        /\ reading' = [k \in DOMAIN DataOf[NextId] |->
                         [of |-> DataOf[NextId][k], count |-> value.count]]
  /\ UNCHANGED <<stage, holder, builderAlive, commandAllocator, mCurrentBlock, reads>>

(* NextCommandId and NextCommand for the additional data of a command.     *)
NextData ==
  /\ Iterating /\ AtData
  /\ LET of == Head(reading).of
         count == Head(reading).count
         ptr == CommandPtr(IdPtr, of)
         value == IF count = 0 THEN <<>> ELSE Cells[ptr].value
     IN ReadPiece([id |-> "AdditionalData", of |-> of, count |-> count, value |-> value], ptr)
  /\ reading' = Tail(reading)
  /\ UNCHANGED <<stage, holder, builderAlive, commandAllocator, mCurrentBlock, reads>>

CommandNext ==
  \/ \E c \in Commands : Record(c)
  \/ AllocatePiece \/ GetNewBlock \/ OutOfMemory
  \/ GetResult \/ Refuse \/ Execute \/ DestroyBuilder \/ DestroyCommandBuffer
  \/ NextBlock \/ NextCommand \/ NextData

CommandSpec == CommandInit /\ [][CommandNext]_commandVars
-----------------------------------------------------------------------------
(* Properties *)

(* The ids, pieces and tags of a block are inside of it and apart from     *)
(* each other.                                                             *)
PiecesAreApart ==
  \A b \in DOMAIN mBlocks : LET cells == mBlocks[b].cells IN
    \A o \in DOMAIN cells :
      /\ o + cells[o].bytes <= mBlocks[b].size
      /\ \A q \in DOMAIN cells \ {o} : q < o \/ o + cells[o].bytes <= q

(* A block that was made for a piece has room for it, so that no block     *)
(* stays empty and Allocate calls itself once.                             *)
FreshBlockFits ==
  Pending /\ mBlocks # <<>> /\ DOMAIN mBlocks[Len(mBlocks)].cells = {} => Fits(NextPiece)

(* Whoever reads the commands finds the pieces that were asked for, in     *)
(* order, never anything else, and all of them unless the validation       *)
(* stops; the blocks they are in are well-formed.                          *)
ReadsWhatWasRecorded ==
  /\ PiecesAreApart /\ FreshBlockFits
  /\ Iterating => AtEndOfBlock \/ AtCommand \/ AtData
  /\ Len(seen) <= Len(asked)
  /\ \A k \in DOMAIN seen : seen[k] = asked[k]
  /\ stage \in {"ready", "freed"} => Len(seen) = Len(asked)

(* When the commands are gone they hold no reference, and until then, as   *)
(* long as there is a command buffer, they hold each that was recorded.    *)
PlacesOf(o, pieces) ==
  UNION {{i} \X {k \in DOMAIN RefsIn(asked[i]) : RefsIn(asked[i])[k] = o} : i \in pieces}
ReferencesAreHeld ==
  \A o \in Objects :
    /\ stage = "freed" => references[o] = 0
    /\ holder = "buffer" \/ (stage \in {"recording", "validating", "refused"} /\ ~Pending) =>
         references[o] = Cardinality(PlacesOf(o, DOMAIN asked))
=============================================================================
