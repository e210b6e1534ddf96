---------------------------- MODULE SerialQueue ----------------------------
(***************************************************************************)
(* SerialQueue<T> (src/src/common/SerialQueue.h): items tied to serials.   *)
(*                                                                         *)
(* A queue is a set of [item, serial] entries.  Enqueue requires serials   *)
(* that never decrease, so the order of the queue is the order of the      *)
(* serials; items of one serial are never told apart by their order.       *)
(***************************************************************************)
EXTENDS Naturals

Items(q) == {e.item : e \in q}

Enqueue(q, items, serial) == q \cup {[item |-> i, serial |-> serial] : i \in items}

UpTo(q, serial) == {e \in q : e.serial <= serial}

ClearUpTo(q, serial) == q \ UpTo(q, serial)

IsFront(e, q) == e \in q /\ \A other \in q : e.serial <= other.serial
=============================================================================
