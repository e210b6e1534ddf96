----------------------------- MODULE RefCounted -----------------------------
(***************************************************************************)
(* Reference counts (RefCounted.cpp, Ref in RefCounted.h) and the cache of *)
(* bind group layouts, whose entries do not count.                         *)
(*                                                                         *)
(* A memory m is a record of m.objects, which maps an id to a record, and  *)
(* of m.mCaches, the layouts the device has cached.  An id <<kind, n>> is  *)
(* an address where objects of that kind may live, one after the other.    *)
(* An object has the two counters of RefCounted, its Refs as a function    *)
(* from the members that hold them to ids, and a value.                    *)
(* Every operator here takes a memory and returns the next one, so that a  *)
(* function of the program that touches many counters is their             *)
(* composition in the order of the code.                                   *)
(***************************************************************************)
EXTENDS Naturals, FiniteSets, FiniteSetsExt, TLC

Free == [kind |-> "free"]
EmptyMemory(ids) == [objects |-> [i \in ids |-> Free], mCaches |-> {}]

Ids(m) == DOMAIN m.objects
FreeIds(m) == {i \in Ids(m) : m.objects[i].kind = "free"}
Live(m) == Ids(m) \ FreeIds(m)

Pool(m, kind) == {i \in FreeIds(m) : i[1] = kind}
FreshId(m, kind) == <<kind, Min({i[2] : i \in Pool(m, kind)})>>

\* The constructor of RefCounted: one external reference for the caller,
\* which counts as an internal one.
New(m, i, val) ==
    [m EXCEPT !.objects[i] =
        [kind |-> i[1], mExternalRefs |-> 1, mInternalRefs |-> 1,
         refs |-> <<>>, val |-> val]]

-----------------------------------------------------------------------------
(* The layouts of the cache with the value of object i.  The cache finds   *)
(* its entries by value, also the one it erases.                           *)
CachedLike(m, i) ==
    {c \in m.mCaches \ FreeIds(m) : m.objects[c].val = m.objects[i].val}

Uncached(m, i) == IF m.objects[i].kind = "BindGroupLayout"
                  THEN m.mCaches \ CachedLike(m, i) ELSE m.mCaches

ReferenceInternal(m, i) == [m EXCEPT !.objects[i].mInternalRefs = @ + 1]

\* ReleaseInternal deletes the object with its last reference, and with the
\* object its Refs release what they hold.
RECURSIVE ReleaseInternal(_, _), ReleaseAll(_, _)
ReleaseInternal(m, i) ==
    LET o == m.objects[i]
    IN  IF o.mInternalRefs > 1
        THEN [m EXCEPT !.objects[i].mInternalRefs = @ - 1]
        ELSE ReleaseAll([objects |-> [m.objects EXCEPT ![i] = Free],
                         mCaches |-> Uncached(m, i)], o.refs)
ReleaseAll(m, refs) ==
    IF DOMAIN refs = {} THEN m
    ELSE LET slot == CHOOSE s \in DOMAIN refs : TRUE
         IN  ReleaseAll(ReleaseInternal(m, refs[slot]),
                        [s \in DOMAIN refs \ {slot} |-> refs[s]])

-----------------------------------------------------------------------------
(* The reference counting of the API.                                      *)

Reference(m, i) ==
    LET counted == IF m.objects[i].mExternalRefs = 0 THEN ReferenceInternal(m, i) ELSE m
    IN  [counted EXCEPT !.objects[i].mExternalRefs = @ + 1]

Release(m, i) ==
    LET less == [m EXCEPT !.objects[i].mExternalRefs = @ - 1]
    IN  IF less.objects[i].mExternalRefs = 0 THEN ReleaseInternal(less, i) ELSE less

-----------------------------------------------------------------------------
(* The assignments of a Ref member.                                        *)

Holds(m, i, slot) == slot \in DOMAIN m.objects[i].refs
Held(m, i, slot) == m.objects[i].refs[slot]
HeldObject(m, i, slot) == m.objects[Held(m, i, slot)]

Without(refs, slot) == [s \in DOMAIN refs \ {slot} |-> refs[s]]

\* mMember = pointer: the new reference is taken before the old is released.
Assign(m, i, slot, j) ==
    LET taken == ReferenceInternal(m, j)
        set == [taken EXCEPT !.objects[i].refs = (slot :> j) @@ Without(@, slot)]
    IN  IF Holds(m, i, slot) THEN ReleaseInternal(set, Held(m, i, slot)) ELSE set

\* mMember(std::move(other.mMember)): no counter changes.
Move(m, from, to, slot) ==
    IF Holds(m, from, slot)
    THEN [m EXCEPT !.objects[to].refs = (slot :> Held(m, from, slot)) @@ @,
                   !.objects[from].refs = Without(@, slot)]
    ELSE m

\* mMember(other.mMember).
Copy(m, from, to, slot) ==
    IF Holds(m, from, slot) THEN Assign(m, to, slot, Held(m, from, slot)) ELSE m

=============================================================================
