------------------------------ MODULE WireCmd ------------------------------
(***************************************************************************)
(* What the generated (de)serialization of the wire does                   *)
(* (src/generator/templates/dawn_wire/WireCmd.cpp).                        *)
(*                                                                         *)
(* A record is a structure or the arguments of a method: a sequence of     *)
(* members, each a value inside the record's transfer structure, a string, *)
(* or a pointer to an array.  A buffer is a sequence of cells: a cell is a *)
(* transfer structure or one character or element of the data that follows *)
(* it, so that sizes count cells instead of bytes.  The deserialization    *)
(* allocator is taken never to run out of memory.                          *)
(***************************************************************************)
EXTENDS Naturals, Sequences, SequencesExt

CONSTANT Members  \* the members of each method and structure

(* A member has an annotation ("value", "strlen" for a string, "const*"    *)
(* for an array), a type, and a length: which member of the record holds   *)
(* the length of an array, or 0 when it is 1.                              *)
Indices(name, annotation) ==
  SelectSeq([i \in 1..Len(Members[name]) |-> i],
            LAMBDA i : Members[name][i].annotation = annotation)
IsStructure(type) == type \in DOMAIN Members
MemberLength(name, i, args) ==
  LET n == Members[name][i].length IN IF n = 0 THEN 1 ELSE args[n]

-----------------------------------------------------------------------------
(* Serialization.  The arguments of a record are a sequence of values,     *)
(* strings and arrays; objects are given by their ids.                     *)

(* The transfer structure of a record.  TransferOf_FaultShort cuts strings *)
(* by one: nothing uses it, it serves to see that a property notices it.   *)
TransferOf_FaultShort(name, args) ==
  [i \in DOMAIN args |-> CASE Members[name][i].annotation = "value" -> args[i]
                           [] Members[name][i].annotation = "strlen" -> Len(args[i]) - 1
                           [] OTHER -> 0]
TransferOf(name, args) ==
  [i \in DOMAIN args |-> CASE Members[name][i].annotation = "value" -> args[i]
                           [] Members[name][i].annotation = "strlen" -> Len(args[i])
                           [] OTHER -> 0]

NoResult == [id |-> 0, serial |-> 0]
Data(item) == [name |-> "data", self |-> 0, result |-> NoResult, values |-> item]
DataOf(items) == [j \in DOMAIN items |-> Data(items[j])]

(* What is written over a at its start leaves the rest of a. *)
Overlay(a, b) == IF Len(b) >= Len(a) THEN b
                 ELSE b \o SubSeq(a, Len(b) + 1, Len(a))

RECURSIVE ExtraOf(_, _), ArraysOf(_, _, _)

(* The data of the elements of an array of structures, each of which is    *)
(* written where the array ends: the position is passed by value.          *)
RECURSIVE Overlaid(_, _)
Overlaid(type, elements) ==
  IF elements = <<>> THEN <<>>
  ELSE Overlay(Overlaid(type, Front(elements)), ExtraOf(type, Last(elements)))

(* The arrays of a record at some indices. *)
ArraysOf(name, args, indices) ==
  IF indices = <<>> THEN <<>>
  ELSE LET i == Head(indices)
           type == Members[name][i].type
           next == ArraysOf(name, args, Tail(indices))
       IN IF ~IsStructure(type) THEN DataOf(args[i]) \o next
          ELSE DataOf([j \in DOMAIN args[i] |-> TransferOf(type, args[i][j])])
                 \o Overlay(Overlaid(type, args[i]), next)

(* The data of a record: its strings, then its arrays. *)
ExtraOf(name, args) ==
  LET strings == Indices(name, "strlen") IN
  FlattenSeq([j \in DOMAIN strings |-> DataOf(args[strings[j]])])
    \o ArraysOf(name, args, Indices(name, "const*"))

(* Cmd::Serialize: self and the id and serial of the result go first. *)
Serialize(cmd) ==
  << [name |-> cmd.name, self |-> cmd.self, result |-> cmd.result,
      values |-> TransferOf(cmd.name, cmd.args)] >> \o ExtraOf(cmd.name, cmd.args)

-----------------------------------------------------------------------------
(* Deserialization: a state is the result so far, the members read, and    *)
(* the part of the buffer that is not consumed.  DESERIALIZE_TRY returns   *)
(* at the first member that is not a success.                              *)

State(status, args, rest) == [status |-> status, args |-> args, rest |-> rest]

(* GetPtrFromBuffer of n cells. *)
Consume(s, n) == IF n > Len(s.rest) THEN [s EXCEPT !.status = "FatalError"]
                 ELSE [s EXCEPT !.rest = SubSeq(@, n + 1, Len(@))]

RECURSIVE ReadRecord(_, _, _, _), ReadElements(_, _, _, _), ReadMembers(_, _, _, _)

(* GetFromId of an object: known is the status of each known id. *)
Resolve(known, id) == IF id \in DOMAIN known THEN known[id] ELSE "FatalError"

(* An element or value of a type. *)
ReadItem(type, item, rest, known) ==
  IF IsStructure(type) THEN ReadRecord(type, item, rest, known)
  ELSE State(IF type = "object" THEN Resolve(known, item) ELSE "Success", item, rest)

(* The elements of an array, after those s has read. *)
ReadElements(s, type, elements, known) ==
  IF s.status # "Success" \/ elements = <<>> THEN s
  ELSE LET r == ReadItem(type, Head(elements), s.rest, known)
       IN ReadElements(State(r.status, Append(s.args, r.args), r.rest),
                       type, Tail(elements), known)

ReadMember(s, name, i, known) ==
  LET member == Members[name][i]
      n == IF member.annotation = "strlen" THEN s.args[i]
           ELSE MemberLength(name, i, s.args)
      c == Consume(s, n)
      items == [j \in 1..n |-> s.rest[j].values]
  IN IF member.annotation = "value"
     THEN [s EXCEPT !.status = ReadItem(member.type, s.args[i], s.rest, known).status]
     ELSE IF c.status # "Success" THEN c
     ELSE IF member.annotation = "strlen" THEN [c EXCEPT !.args[i] = items]
     ELSE LET r == ReadElements(State("Success", <<>>, c.rest), member.type, items, known)
          IN State(r.status, [s.args EXCEPT ![i] = r.args], r.rest)

ReadMembers(s, name, indices, known) ==
  IF s.status # "Success" \/ indices = <<>> THEN s
  ELSE ReadMembers(ReadMember(s, name, Head(indices), known), name, Tail(indices), known)

(* Values come first, then strings, then arrays. *)
ReadRecord(name, transfer, rest, known) ==
  ReadMembers(State("Success", transfer, rest), name,
              Indices(name, "value") \o Indices(name, "strlen") \o Indices(name, "const*"),
              known)

(* Cmd::Deserialize of the transfer structure at the head of a buffer.     *)
(* self is resolved first, among the ids of its own type.                  *)
Deserialize(buffer, selves, known) ==
  LET t == Head(buffer)
      self == Resolve(selves, t.self)
  IN IF self # "Success" THEN State(self, t.values, Tail(buffer))
     ELSE ReadRecord(t.name, t.values, Tail(buffer), known)
=============================================================================
