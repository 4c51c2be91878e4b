------------------------ MODULE BinderObjectsProofs ------------------------
(***************************************************************************)
(* Proofs about the objects of a payload, for all sizes, offsets and trees *)
(* of parents a sender may describe, and every size of size_t.             *)
(*                                                                         *)
(* binder_validate_fixup looks only at the last object and its ancestors.  *)
(* That this keeps all fixups apart needs an invariant about the set of    *)
(* objects it can still reach: Chain.                                      *)
(***************************************************************************)
EXTENDS BinderObjects, TLAPS

Translating == pc \in {"objects", "walk"}

\* The objects translated are whole, in order and inside the data.
ObjectsInOrder ==
  /\ \A i \in DOMAIN objs : /\ binder_get_object(objs[i])
                            /\ objs[i].off + ObjectSize(objs[i].type) <= off_min
  /\ \A i, j \in DOMAIN objs : i < j => objs[i].off + ObjectSize(objs[i].type) <= objs[j].off

\* A copied buffer lies in the area for copies.
InArea(o) == /\ sg_start <= o.buffer
             /\ o.buffer + o.length <= sg_buf_offset
\* Copied buffers are in the area and one behind the other.
CopiesInOrder ==
  /\ \A i \in DOMAIN objs : objs[i].type = "PTR" => InArea(objs[i])
  /\ \A i, j \in DOMAIN objs :
       i < j /\ objs[i].type = "PTR" /\ objs[j].type = "PTR"
         => objs[i].buffer + objs[i].length <= objs[j].buffer

\* Every fixup of F in the buffer of the object at off ends at or before min.
Below(F, off, min) == \A f \in F : f.kind # "fd" /\ f.obj = off => f.rel + f.size <= min

\* Parents come before their children.
ParentsFirst ==
  \A i \in DOMAIN objs : objs[i].type = "PTR" /\ objs[i].has_parent =>
    objs[i].parent + 1 < i /\ objs[objs[i].parent + 1].type = "PTR"

\* C is a set of pointer objects of O with their ancestors, and the minimum the
\* walk would take in each is above the fixups F there.
ClosedUp(C, O, F) ==
  \A c \in C :
    /\ O[c].type = "PTR"
    /\ O[c].has_parent =>
         /\ O[c].parent + 1 \in C
         /\ Below(F, O[O[c].parent + 1].off, O[c].parent_offset + POINTER)
Reaches(C, O, F, off, min) == \E c \in C : O[c].off = off /\ Below(F, off, min)
\* The objects that binder_validate_fixup may still reach are such a set.
Chain ==
  \E C \in SUBSET DOMAIN objs :
    /\ ClosedUp(C, objs, fixups)
    /\ last_fixup_obj_off # 0 => Reaches(C, objs, fixups, last_fixup_obj_off, last_fixup_min_off)
    /\ pc = "walk" => Reaches(C, objs, fixups, walk.obj, walk.min)

\* The object whose parent is being validated follows those translated.
CurrentSound ==
  /\ cur.type \in {"PTR", "FDA"} /\ binder_get_object(cur)
  /\ binder_validate_ptr(cur.parent)
  /\ off_min = cur.off + ObjectSize(cur.type)
  /\ \A i \in DOMAIN objs : objs[i].off + ObjectSize(objs[i].type) <= cur.off
  /\ cur.type = "PTR" =>
       /\ InArea(cur) /\ cur.has_parent
       /\ \A i \in DOMAIN objs : objs[i].type = "PTR" => objs[i].buffer + objs[i].length <= cur.buffer

TranslationSound ==
  /\ HeaderValid /\ sg_buf_offset % 8 = 0
  /\ ObjectsInOrder /\ CopiesInOrder /\ ParentsFirst /\ Chain
  /\ pc = "walk" => CurrentSound

\* The inductive invariant.
Inv == /\ ObjectsSound
       /\ pc = "header" => fixups = {} /\ objs = <<>> /\ off_min = 0 /\ last_fixup_obj_off = 0
       /\ Translating => TranslationSound

-----------------------------------------------------------------------------
(* The layout of the buffer.                                               *)

LEMMA AlignFacts ==
  ASSUME NEW x \in Nat
  PROVE  /\ Align8(x) \in Nat /\ x <= Align8(x) /\ Align8(x) % 8 = 0
         /\ x % 8 = 0 => Align8(x) = x
BY DEF Align8

LEMMA AlignBelow ==
  ASSUME NEW x \in Nat, NEW m \in Nat, x <= m, m % 8 = 0
  PROVE  Align8(x) <= m
BY DEF Align8

LEMMA SizeFacts ==
  ASSUME NEW t \in Types
  PROVE  /\ ObjectSize(t) \in Nat
         /\ t # "unknown" => ObjectSize(t) >= 24
BY DEF ObjectSize, Types

LEMMA HeaderType ==
  ASSUME tr \in Header
  PROVE  /\ tr.data_size \in Nat /\ tr.offsets_size \in Nat
         /\ tr.extra_buffers_size \in Nat /\ tr.secctx_sz \in Nat
BY DEF Header

\* Where the parts of the buffer begin and end.
LEMMA Layout ==
  ASSUME tr \in Header
  PROVE  /\ sg_start \in Nat /\ sg_start % 8 = 0 /\ tr.data_size <= sg_start
         /\ sg_buf_end_offset \in Nat /\ sg_start <= sg_buf_end_offset
         /\ buffer_size \in Nat /\ tr.data_size <= buffer_size
<1> DEFINE a == Align8(tr.data_size)
           b == Align8(tr.offsets_size)
           c == Align8(tr.secctx_sz)
           e == tr.extra_buffers_size
<1>1. /\ tr.data_size \in Nat /\ tr.offsets_size \in Nat /\ e \in Nat /\ tr.secctx_sz \in Nat
  BY HeaderType
<1>2. a \in Nat /\ tr.data_size <= a
  BY <1>1, AlignFacts
<1>3. b \in Nat /\ c \in Nat
  BY <1>1, AlignFacts
<1> HIDE DEF a, b, c, e
<1>4. a + tr.offsets_size \in Nat
  BY <1>1, <1>2
<1>5. /\ Align8(a + tr.offsets_size) \in Nat /\ Align8(a + tr.offsets_size) % 8 = 0
      /\ a + tr.offsets_size <= Align8(a + tr.offsets_size)
  BY <1>4, AlignFacts
<1>6. sg_start = Align8(a + tr.offsets_size)
  BY DEF a, sg_start, off_start_offset
<1>7. sg_buf_end_offset = sg_start + (e + c) - c
  BY DEF e, c, sg_buf_end_offset, extra
<1>8. e + c \in Nat
  BY <1>1, <1>3 DEF e
<1>9. Align8(e + c) \in Nat
  BY <1>8, AlignFacts
<1>10. buffer_size = a + b + Align8(e + c)
  BY DEF a, b, c, e, buffer_size, off_start_offset, extra
<1>. QED BY <1>1, <1>2, <1>3, <1>5, <1>6, <1>7, <1>9, <1>10 DEF e

\* With the sizes binder_transaction insists on, the copies end at the security
\* context, at a multiple of 8.
LEMMA LayoutValid ==
  ASSUME tr \in Header, HeaderValid
  PROVE  /\ sg_buf_end_offset % 8 = 0 /\ sg_buf_end_offset = SecctxOffset
         /\ sg_buf_end_offset <= buffer_size /\ buffer_size <= SizeMax
<1> DEFINE a == Align8(tr.data_size)
           c == Align8(tr.secctx_sz)
           x == tr.offsets_size
           e == tr.extra_buffers_size
<1>1. /\ tr.data_size \in Nat /\ x \in Nat /\ e \in Nat /\ tr.secctx_sz \in Nat
  BY HeaderType
<1>2. a \in Nat /\ a % 8 = 0
  BY <1>1, AlignFacts
<1>3. c \in Nat /\ c % 8 = 0
  BY <1>1, AlignFacts
<1>4. x % 8 = 0 /\ (e + c) % 8 = 0 /\ buffer_size <= SizeMax
  BY DEF HeaderValid, HeaderFits, extra
<1>5. sg_start = Align8(a + x)
  BY DEF sg_start, off_start_offset
<1>6. sg_buf_end_offset = sg_start + (e + c) - c
  BY DEF sg_buf_end_offset, extra
<1>7. buffer_size = a + Align8(x) + Align8(e + c)
  BY DEF buffer_size, off_start_offset, extra
<1>8. SecctxOffset = buffer_size - c
  BY DEF SecctxOffset
<1> HIDE DEF a, c, x, e
<1>9. a + x \in Nat /\ (a + x) % 8 = 0 /\ e + c \in Nat
  BY <1>1, <1>2, <1>3, <1>4
<1>10. Align8(a + x) = a + x /\ Align8(x) = x /\ Align8(e + c) = e + c
  BY <1>1, <1>4, <1>9, AlignFacts
<1>11. sg_buf_end_offset = a + x + e
  BY <1>1, <1>2, <1>3, <1>5, <1>6, <1>10
<1>12. buffer_size = a + x + e + c
  BY <1>1, <1>2, <1>3, <1>7, <1>10
<1>13. e % 8 = 0
  BY <1>1, <1>3, <1>4
<1>. QED BY <1>1, <1>2, <1>3, <1>4, <1>8, <1>9, <1>11, <1>12, <1>13
-----------------------------------------------------------------------------
(* Objects and fixups.                                                     *)

LEMMA ObjectFields ==
  ASSUME NEW o \in Object
  PROVE  /\ o.type \in Types /\ o.off \in Nat /\ o.has_parent \in BOOLEAN /\ o.parent \in Nat
         /\ o.parent_offset \in Nat /\ o.length \in Nat /\ o.num_fds \in Nat /\ o.buffer \in Nat
         /\ ObjectSize(o.type) \in Nat
BY SizeFacts DEF Object

LEMMA FixupFields ==
  ASSUME NEW f \in FixupType
  PROVE  f.obj \in Nat /\ f.rel \in Nat /\ f.at \in Nat /\ f.size \in Nat
BY DEF FixupType

LEMMA FdFixupFields ==
  ASSUME NEW o \in Object
  PROVE  /\ FdFixup(o) \in FixupType /\ FdFixup(o).kind = "fd"
         /\ FdFixup(o).at = o.off + 8 /\ FdFixup(o).size = 4
BY ObjectFields DEF FdFixup, FixupType, FD_WORD

\* What binder_get_object accepts lies in the data and is not empty.
LEMMA WholeObject ==
  ASSUME tr \in Header, NEW o \in Object, binder_get_object(o)
  PROVE  /\ o.off % 4 = 0 /\ ObjectSize(o.type) >= 24
         /\ o.off + ObjectSize(o.type) <= tr.data_size
BY SizeFacts, ObjectFields DEF binder_get_object

\* Objects in order have different offsets.
LEMMA OffsetsDiffer ==
  ASSUME tr \in Header, objs \in Seq(Object), ObjectsInOrder,
         NEW i \in DOMAIN objs, NEW j \in DOMAIN objs, objs[i].off = objs[j].off
  PROVE  i = j
<1>1. /\ objs[i] \in Object /\ objs[j] \in Object /\ i \in Int /\ j \in Int
  OBVIOUS
<1>2. /\ ObjectSize(objs[i].type) >= 24 /\ ObjectSize(objs[j].type) >= 24
  BY <1>1, WholeObject DEF ObjectsInOrder
<1>3. objs[i].off \in Nat /\ objs[j].off \in Nat
  BY <1>1, ObjectFields
<1>4. /\ ObjectSize(objs[i].type) \in Nat /\ ObjectSize(objs[j].type) \in Nat
  BY <1>1, ObjectFields
<1>5. ~(i < j)
  BY <1>2, <1>3, <1>4 DEF ObjectsInOrder
<1>6. ~(j < i)
  BY <1>2, <1>3, <1>4 DEF ObjectsInOrder
<1>. QED BY <1>1, <1>5, <1>6

\* A fixup in an object's buffer is apart from the word of a descriptor object.
LEMMA DataApart ==
  ASSUME tr \in Header, NEW o \in Object, NEW p \in Object,
         o.type = "FD", binder_get_object(o), p.type = "PTR", sg_start <= p.buffer,
         NEW f \in FixupType, NEW g \in FixupType, f = FdFixup(o), Within(g, p)
  PROVE  Apart(f, g) /\ Apart(g, f)
<1>1. f.at = o.off + 8 /\ f.size = 4 /\ f.at \in Nat
  BY FdFixupFields, FixupFields
<1>2. o.off + 24 <= tr.data_size /\ o.off \in Nat
  BY ObjectFields DEF binder_get_object, ObjectSize
<1>3. p.buffer <= g.at /\ p.buffer \in Nat /\ g.at \in Nat /\ g.size \in Nat
  BY ObjectFields, FixupFields DEF Within
<1>4. tr.data_size <= sg_start /\ tr.data_size \in Nat /\ sg_start \in Nat
  BY Layout, HeaderType
<1>. QED BY <1>1, <1>2, <1>3, <1>4 DEF Apart

\* Fixups in buffers that are one behind the other are apart.
LEMMA BuffersApart ==
  ASSUME NEW o \in Object, NEW p \in Object, o.type = "PTR", p.type = "PTR",
         o.buffer + o.length <= p.buffer,
         NEW f \in FixupType, NEW g \in FixupType, Within(f, o), Within(g, p)
  PROVE  Apart(f, g) /\ Apart(g, f)
<1>1. o.buffer \in Nat /\ o.length \in Nat /\ p.buffer \in Nat
  BY ObjectFields
<1>2. /\ f.at = o.buffer + f.rel /\ f.rel + f.size <= o.length
      /\ g.at = p.buffer + g.rel
  BY DEF Within
<1>3. f.rel \in Nat /\ f.size \in Nat /\ g.rel \in Nat /\ f.at \in Nat /\ g.at \in Nat
  BY FixupFields
<1>. QED BY <1>1, <1>2, <1>3 DEF Apart

\* Fixups in different objects are apart.
LEMMA HomesApart ==
  ASSUME tr \in Header, objs \in Seq(Object), ObjectsInOrder, CopiesInOrder,
         NEW i \in DOMAIN objs, NEW j \in DOMAIN objs, i # j,
         NEW f \in FixupType, NEW g \in FixupType, Within(f, objs[i]), Within(g, objs[j])
  PROVE  Apart(f, g)
<1>1. /\ objs[i] \in Object /\ objs[j] \in Object /\ i \in Int /\ j \in Int
      /\ binder_get_object(objs[i]) /\ binder_get_object(objs[j])
  BY DEF ObjectsInOrder
<1>2. objs[i].type \in {"FD", "PTR"} /\ objs[j].type \in {"FD", "PTR"}
  BY DEF Within
<1>3. CASE objs[i].type = "FD" /\ objs[j].type = "FD"
  <2>1. f = FdFixup(objs[i]) /\ g = FdFixup(objs[j])
    BY <1>3 DEF Within
  <2>2. f.at = objs[i].off + 8 /\ f.size = 4 /\ g.at = objs[j].off + 8 /\ g.size = 4
    BY <1>1, <2>1, FdFixupFields
  <2>3. objs[i].off + 24 <= objs[j].off \/ objs[j].off + 24 <= objs[i].off
    BY <1>1, <1>3 DEF ObjectsInOrder, ObjectSize
  <2>4. objs[i].off \in Nat /\ objs[j].off \in Nat
    BY <1>1, ObjectFields
  <2>. QED BY SMTT(30), <2>2, <2>3, <2>4 DEF Apart
<1>4. CASE objs[i].type = "FD" /\ objs[j].type = "PTR"
  <2>1. f = FdFixup(objs[i]) /\ sg_start <= objs[j].buffer
    BY <1>4 DEF Within, CopiesInOrder, InArea
  <2>. QED BY <1>1, <1>4, <2>1, DataApart
<1>5. CASE objs[i].type = "PTR" /\ objs[j].type = "FD"
  <2>1. g = FdFixup(objs[j]) /\ sg_start <= objs[i].buffer
    BY <1>5 DEF Within, CopiesInOrder, InArea
  <2>. QED BY <1>1, <1>5, <2>1, DataApart
<1>6. CASE objs[i].type = "PTR" /\ objs[j].type = "PTR"
  <2>1. \/ objs[i].buffer + objs[i].length <= objs[j].buffer
        \/ objs[j].buffer + objs[j].length <= objs[i].buffer
    BY <1>1, <1>6 DEF CopiesInOrder
  <2>. QED BY <1>1, <1>6, <2>1, BuffersApart
<1>. QED BY <1>2, <1>3, <1>4, <1>5, <1>6
-----------------------------------------------------------------------------
(* An object is appended to those translated.                              *)

LEMMA AppendFacts ==
  ASSUME objs \in Seq(Object), NEW o \in Object, objs' = Append(objs, o)
  PROVE  /\ objs' \in Seq(Object)
         /\ DOMAIN objs \in SUBSET Nat
         /\ DOMAIN objs' = DOMAIN objs \cup {Len(objs) + 1}
         /\ Len(objs) + 1 \notin DOMAIN objs
         /\ \A i \in DOMAIN objs : objs'[i] = objs[i] /\ i < Len(objs) + 1
         /\ objs'[Len(objs) + 1] = o
OBVIOUS

\* The object follows the others.
Follows(o) == /\ binder_get_object(o)
              /\ \A i \in DOMAIN objs : objs[i].off + ObjectSize(objs[i].type) <= o.off

LEMMA AppendOrder ==
  ASSUME tr \in Header, tr' = tr, objs \in Seq(Object), NEW o \in Object,
         objs' = Append(objs, o), ObjectsInOrder, Follows(o),
         off_min' = o.off + ObjectSize(o.type)
  PROVE  ObjectsInOrder'
<1> DEFINE n == Len(objs) + 1
<1>1. /\ DOMAIN objs' = DOMAIN objs \cup {n} /\ n \notin DOMAIN objs /\ objs'[n] = o
      /\ \A i \in DOMAIN objs : objs'[i] = objs[i] /\ i < n /\ ~(n < i) /\ objs[i] \in Object
      /\ ~(n < n)
  BY AppendFacts
<1>2. \A i \in DOMAIN objs : objs[i].off + ObjectSize(objs[i].type) <= o.off
  BY DEF Follows
<1>3. o.off \in Nat /\ ObjectSize(o.type) \in Nat
  BY ObjectFields
<1>4. \A i \in DOMAIN objs : objs[i].off \in Nat /\ ObjectSize(objs[i].type) \in Nat
  BY <1>1, ObjectFields
<1> HIDE DEF n
<1>5. ASSUME NEW i \in DOMAIN objs'
      PROVE  /\ binder_get_object(objs[i])'
             /\ objs'[i].off + ObjectSize(objs'[i].type) <= off_min'
  <2>1. CASE i = n
    BY <1>1, <1>3, <2>1 DEF Follows, binder_get_object
  <2>2. CASE i \in DOMAIN objs
    <3>1. binder_get_object(objs[i])
      BY <2>2 DEF ObjectsInOrder
    <3>2. objs[i].off + ObjectSize(objs[i].type) <= o.off + ObjectSize(o.type)
      BY <1>2, <1>3, <1>4, <2>2
    <3>. QED BY <1>1, <2>2, <3>1, <3>2 DEF binder_get_object
  <2>. QED BY <1>1, <2>1, <2>2
<1>6. ASSUME NEW i \in DOMAIN objs', NEW j \in DOMAIN objs', i < j
      PROVE  objs'[i].off + ObjectSize(objs'[i].type) <= objs'[j].off
  <2>1. i \in DOMAIN objs
    BY <1>1, <1>6
  <2>2. CASE j = n
    BY <1>1, <1>2, <2>1, <2>2
  <2>3. CASE j \in DOMAIN objs
    BY <1>1, <1>6, <2>1, <2>3 DEF ObjectsInOrder
  <2>. QED BY <1>1, <2>2, <2>3
<1>. QED BY <1>5, <1>6 DEF ObjectsInOrder

\* The object is no pointer object, or its buffer follows the others.
CopyFollows(o) ==
  o.type = "PTR" =>
    /\ sg_start <= o.buffer
    /\ \A i \in DOMAIN objs : objs[i].type = "PTR" => objs[i].buffer + objs[i].length <= o.buffer

LEMMA AppendCopies ==
  ASSUME tr \in Header, tr' = tr, objs \in Seq(Object), NEW o \in Object,
         objs' = Append(objs, o), CopiesInOrder, CopyFollows(o),
         sg_buf_offset \in Nat, sg_buf_offset' \in Nat, sg_buf_offset <= sg_buf_offset',
         o.type = "PTR" => o.buffer + o.length <= sg_buf_offset'
  PROVE  CopiesInOrder'
<1> DEFINE n == Len(objs) + 1
<1>1. /\ DOMAIN objs' = DOMAIN objs \cup {n} /\ n \notin DOMAIN objs /\ objs'[n] = o
      /\ \A i \in DOMAIN objs : objs'[i] = objs[i] /\ i < n /\ ~(n < i) /\ objs[i] \in Object
      /\ ~(n < n)
  BY AppendFacts
<1> HIDE DEF n
<1>2. sg_start' = sg_start
  BY DEF sg_start, off_start_offset
<1>3. \A i \in DOMAIN objs : objs[i].buffer \in Nat /\ objs[i].length \in Nat
  BY <1>1, ObjectFields
<1>4. ASSUME NEW i \in DOMAIN objs', objs'[i].type = "PTR"
      PROVE  InArea(objs[i])'
  <2>1. CASE i = n
    BY <1>1, <1>2, <1>4, <2>1 DEF CopyFollows, InArea
  <2>2. CASE i \in DOMAIN objs
    <3>1. sg_start <= objs[i].buffer /\ objs[i].buffer + objs[i].length <= sg_buf_offset
      BY <1>1, <1>4, <2>2 DEF CopiesInOrder, InArea
    <3>2. objs[i].buffer + objs[i].length <= sg_buf_offset'
      BY <1>3, <2>2, <3>1
    <3>. QED BY <1>1, <1>2, <2>2, <3>1, <3>2 DEF InArea
  <2>. QED BY <1>1, <2>1, <2>2
<1>5. ASSUME NEW i \in DOMAIN objs', NEW j \in DOMAIN objs', i < j,
             objs'[i].type = "PTR", objs'[j].type = "PTR"
      PROVE  objs'[i].buffer + objs'[i].length <= objs'[j].buffer
  <2>1. i \in DOMAIN objs
    BY <1>1, <1>5
  <2>2. CASE j = n
    BY <1>1, <1>5, <2>1, <2>2 DEF CopyFollows
  <2>3. CASE j \in DOMAIN objs
    BY <1>1, <1>5, <2>1, <2>3 DEF CopiesInOrder
  <2>. QED BY <1>1, <2>2, <2>3
<1>. QED BY <1>4, <1>5 DEF CopiesInOrder

LEMMA AppendParents ==
  ASSUME objs \in Seq(Object), NEW o \in Object, objs' = Append(objs, o), ParentsFirst,
         o.type = "PTR" /\ o.has_parent => o.parent + 1 \in DOMAIN objs /\ objs[o.parent + 1].type = "PTR"
  PROVE  ParentsFirst'
<1> DEFINE n == Len(objs) + 1
<1>1. /\ DOMAIN objs' = DOMAIN objs \cup {n} /\ n \notin DOMAIN objs /\ objs'[n] = o
      /\ \A i \in DOMAIN objs : objs'[i] = objs[i] /\ i < n /\ objs[i] \in Object
  BY AppendFacts
<1>2. \A i \in DOMAIN objs : i \in 1..Len(objs) /\ Len(objs) \in Nat
  OBVIOUS
<1>3. SUFFICES ASSUME NEW i \in DOMAIN objs', objs'[i].type = "PTR", objs'[i].has_parent
               PROVE  objs'[i].parent + 1 < i /\ objs'[objs'[i].parent + 1].type = "PTR"
  BY DEF ParentsFirst
<1>4. CASE i = n
  BY <1>1, <1>3, <1>4
<1>5. CASE i \in DOMAIN objs
  <2>1. objs[i].parent + 1 < i /\ objs[objs[i].parent + 1].type = "PTR"
    BY <1>1, <1>3, <1>5 DEF ParentsFirst
  <2>2. objs[i].parent \in Nat
    BY <1>1, <1>5, ObjectFields
  <2>3. objs[i].parent + 1 \in DOMAIN objs
    BY <1>2, <1>5, <2>1, <2>2
  <2>. QED BY <1>1, <1>5, <2>1, <2>3
<1>. QED BY <1>1, <1>4, <1>5
-----------------------------------------------------------------------------
(* Fixups are added.                                                       *)

LEMMA InsideKept ==
  ASSUME tr' = tr, objs \in Seq(Object), NEW o \in Object, objs' = Append(objs, o),
         NEW F, fixups' = fixups \cup F, FixupsInside,
         \A f \in F : Accessible(f.at, f.size) /\ \E i \in DOMAIN objs' : Within(f, objs'[i])
  PROVE  FixupsInside'
<1>1. /\ DOMAIN objs' = DOMAIN objs \cup {Len(objs) + 1}
      /\ \A i \in DOMAIN objs : objs'[i] = objs[i]
  BY AppendFacts
<1>2. ASSUME NEW at, NEW size, Accessible(at, size) PROVE Accessible(at, size)'
  BY <1>2 DEF Accessible, buffer_size, off_start_offset, extra
<1>3. SUFFICES ASSUME NEW f \in fixups'
               PROVE  Accessible(f.at, f.size)' /\ \E i \in DOMAIN objs' : Within(f, objs'[i])
  BY DEF FixupsInside
<1>4. CASE f \in F
  BY <1>2, <1>4
<1>5. CASE f \in fixups
  BY <1>1, <1>2, <1>5 DEF FixupsInside
<1>. QED BY <1>4, <1>5

LEMMA ApartKept ==
  ASSUME NEW F, fixups' = fixups \cup F, FixupsApart,
         \A f \in F : \A g \in fixups : Apart(f, g) /\ Apart(g, f),
         \A f, g \in F : f = g \/ Apart(f, g)
  PROVE  FixupsApart'
BY DEF FixupsApart

\* No fixup is in the buffer of an object that follows all others.
LEMMA NoneBelow ==
  ASSUME TypeOK, ObjectsInOrder, FixupsInside, NEW o \in Object, Follows(o), NEW min
  PROVE  Below(fixups, o.off, min)
<1>1. SUFFICES ASSUME NEW f \in fixups, f.kind # "fd", f.obj = o.off PROVE FALSE
  BY DEF Below
<1>2. PICK i \in DOMAIN objs : Within(f, objs[i])
  BY DEF FixupsInside
<1>3. objs[i] \in Object /\ tr \in Header
  BY DEF TypeOK
<1>4. objs[i].type # "FD"
  BY <1>1, <1>2, <1>3, FdFixupFields DEF Within
<1>5. objs[i].off = o.off
  BY <1>1, <1>2, <1>4 DEF Within
<1>6. ObjectSize(objs[i].type) >= 24 /\ ObjectSize(objs[i].type) \in Nat /\ objs[i].off \in Nat
  BY <1>3, WholeObject, ObjectFields DEF ObjectsInOrder
<1>7. objs[i].off + ObjectSize(objs[i].type) <= o.off
  BY DEF Follows
<1>. QED BY <1>5, <1>6, <1>7

-----------------------------------------------------------------------------
(* The chain of objects the walk can reach.                                *)

\* Part of a chain, up to an object, stays one when fixups are added to that
\* object's buffer, or to none.
LEMMA ClosedPart ==
  ASSUME tr \in Header, objs \in Seq(Object), ObjectsInOrder, ParentsFirst,
         NEW o \in Object, objs' = Append(objs, o),
         NEW C \in SUBSET DOMAIN objs, ClosedUp(C, objs, fixups), NEW p \in DOMAIN objs,
         NEW F, fixups' = fixups \cup F, \A f \in F : f.kind = "fd" \/ f.obj = objs[p].off
  PROVE  ClosedUp({c \in C : c <= p}, objs', fixups')
<1> DEFINE D == {c \in C : c <= p}
<1>1. \A i \in DOMAIN objs : objs'[i] = objs[i] /\ i \in Nat /\ objs[i] \in Object
  BY AppendFacts
<1>2. ASSUME NEW c \in D, objs[c].has_parent
      PROVE  /\ objs[c].parent + 1 \in D
             /\ Below(fixups', objs[objs[c].parent + 1].off, objs[c].parent_offset + POINTER)
  <2> DEFINE q == objs[c].parent + 1
             min == objs[c].parent_offset + POINTER
  <2>1. c \in C /\ c <= p /\ c \in DOMAIN objs /\ objs[c].type = "PTR"
    BY DEF ClosedUp
  <2>2. q \in C /\ Below(fixups, objs[q].off, min)
    BY <1>2, <2>1 DEF ClosedUp
  <2>3. q < c
    BY <1>2, <2>1 DEF ParentsFirst
  <2>4. q \in DOMAIN objs
    BY <2>2
  <2> HIDE DEF q, min
  <2>5. q <= p /\ q # p
    BY <1>1, <2>1, <2>3, <2>4
  <2>6. objs[q].off # objs[p].off
    BY <2>4, <2>5, OffsetsDiffer
  <2>7. Below(fixups', objs[q].off, min)
    BY <2>2, <2>6 DEF Below
  <2>. QED BY <2>2, <2>5, <2>7 DEF q, min
<1>3. ASSUME NEW c \in D
      PROVE  objs'[c] = objs[c] /\ objs[c].type = "PTR"
  BY <1>1 DEF ClosedUp
<1>4. ASSUME NEW c \in D, objs[c].has_parent
      PROVE  objs'[objs[c].parent + 1] = objs[objs[c].parent + 1]
  BY <1>1, <1>2, <1>4
<1> HIDE DEF D
<1>5. ClosedUp(D, objs', fixups')
  BY <1>2, <1>3, <1>4 DEF ClosedUp
<1>. QED BY <1>5 DEF D
-----------------------------------------------------------------------------
(* The steps.                                                              *)

LEMMA SameFixups ==
  ASSUME FixupsApart, FixupsInside, UNCHANGED <<tr, objs, fixups>>
  PROVE  FixupsApart' /\ FixupsInside' /\ FdWords' = FdWords /\ ArrayWords' = ArrayWords
BY DEF FixupsApart, FixupsInside, Accessible, buffer_size, off_start_offset, extra, FdWords,
   ArrayWords

LEMMA SameLayout ==
  ASSUME tr' = tr
  PROVE  /\ sg_start' = sg_start /\ sg_buf_end_offset' = sg_buf_end_offset
         /\ buffer_size' = buffer_size /\ SecctxOffset' = SecctxOffset
         /\ HeaderValid' = HeaderValid
BY DEF sg_start, sg_buf_end_offset, buffer_size, SecctxOffset, HeaderValid, HeaderFits,
       off_start_offset, extra

LEMMA NoObjectType == NoObject \in Object /\ NoWalk \in [obj : Nat, min : Nat]
BY DEF NoObject, Object, NoWalk, Types

LEMMA InitInv ==
  ASSUME ObjectsAssumption, Init
  PROVE  Inv
<1>1. tr \in Header
  BY DEF Init, ObjectsAssumption
<1>2. TypeOK
  BY <1>1, NoObjectType DEF Init, TypeOK
<1>3. FixupsApart /\ FixupsInside /\ FdWords = {}
  BY DEF Init, FixupsApart, FixupsInside, FdWords
<1>4. CopiesFit /\ FilesKept /\ ClosesOwn
  BY <1>3 DEF Init, CopiesFit, FilesKept, ClosesOwn
<1>. QED BY <1>2, <1>3, <1>4 DEF Init, Inv, ObjectsSound, Translating

LEMMA StartStep ==
  ASSUME Inv, Start
  PROVE  Inv'
<1>1. /\ TypeOK /\ FixupsApart /\ FixupsInside /\ FilesKept /\ ClosesOwn
      /\ fixups = {} /\ objs = <<>> /\ off_min = 0 /\ last_fixup_obj_off = 0 /\ HeaderValid
  BY DEF Inv, ObjectsSound, Start
<1>2. tr \in Header /\ tr' = tr /\ objs' = objs /\ fixups' = fixups /\ pc = "header" /\ pc' = "objects"
  BY <1>1 DEF Start, TypeOK
<1>3. /\ sg_start \in Nat /\ sg_start % 8 = 0 /\ sg_start <= sg_buf_end_offset
      /\ sg_buf_end_offset <= SecctxOffset
  BY <1>1, <1>2, Layout, LayoutValid
<1>4. TypeOK'
  BY <1>1, <1>3 DEF Start, TypeOK, files
<1>5. FixupsApart' /\ FixupsInside' /\ FdWords' = FdWords
  BY <1>1, <1>2, SameFixups
<1>6. DOMAIN objs' = {}
  BY <1>1, <1>2
<1>7. CopiesFit'
  BY <1>2, <1>3, <1>6, SameLayout DEF Start, CopiesFit
<1>8. FilesKept' /\ ClosesOwn'
  BY <1>1, <1>2, <1>5 DEF Start, files, FilesKept, ClosesOwn
<1>9. ObjectsInOrder' /\ CopiesInOrder' /\ ParentsFirst'
  BY <1>6 DEF ObjectsInOrder, CopiesInOrder, ParentsFirst
<1>10. Chain'
  <2>1. ClosedUp({}, objs', fixups')
    BY DEF ClosedUp
  <2>. QED BY <1>1, <1>2, <2>1 DEF Start, Chain
<1>11. HeaderValid' /\ sg_buf_offset' % 8 = 0
  BY <1>1, <1>2, <1>3, SameLayout DEF Start
<1>12. TranslationSound'
  BY <1>2, <1>9, <1>10, <1>11 DEF TranslationSound
<1>. QED BY <1>2, <1>4, <1>5, <1>7, <1>8, <1>12 DEF Inv, ObjectsSound

LEMMA FailStep ==
  ASSUME Inv, Fail, pc \in {"header", "objects", "walk", "sent"}
  PROVE  Inv'
<1>1. TypeOK /\ FixupsApart /\ FixupsInside /\ FilesKept /\ ClosesOwn
  BY DEF Inv, ObjectsSound
<1>2. TypeOK'
  BY <1>1, NoObjectType DEF Fail, TypeOK, limits
<1>3. FixupsApart' /\ FixupsInside'
  BY <1>1, SameFixups DEF Fail
<1>4. CopiesFit' /\ FilesKept' /\ ClosesOwn'
  BY <1>1 DEF Fail, CopiesFit, FilesKept, ClosesOwn
<1>. QED BY <1>2, <1>3, <1>4 DEF Fail, Inv, ObjectsSound, Translating

\* A transaction that is complete: nothing is translated any more.
LEMMA SentStep ==
  ASSUME Inv, Send \/ Deliver \/ DeliverFails \/ Free
  PROVE  Inv'
<1>1. TypeOK /\ FixupsApart /\ FixupsInside /\ CopiesFit /\ FilesKept /\ ClosesOwn
  BY DEF Inv, ObjectsSound
<1>2. UNCHANGED <<tr, objs, fixups, cur, walk, limits>> /\ tr \in Header
  BY <1>1 DEF Send, Deliver, DeliverFails, Free, TypeOK
<1>3. FixupsApart' /\ FixupsInside' /\ FdWords' = FdWords /\ ArrayWords' = ArrayWords
  BY <1>1, <1>2, SameFixups
<1>4. ArrayWords \subseteq FdWords
  BY DEF ArrayWords, FdWords
<1>5. FdWords \subseteq Nat
  BY <1>1, FixupFields DEF TypeOK, FdWords
<1>6. CASE Send
  <2>1. TypeOK'
    BY <1>1, <1>6 DEF Send, TypeOK, limits, files
  <2>2. CopiesFit'
    BY <1>1, <1>2, <1>6, SameLayout DEF Send, CopiesFit, limits
  <2>3. FilesKept' /\ ClosesOwn'
    BY <1>1, <1>3, <1>6 DEF Send, FilesKept, ClosesOwn, files
  <2>. QED BY <1>3, <1>6, <2>1, <2>2, <2>3 DEF Send, Inv, ObjectsSound, Translating
<1>7. CASE Deliver
  <2>1. TypeOK'
    BY <1>1, <1>7 DEF Deliver, TypeOK, limits
  <2>2. CopiesFit'
    BY <1>1, <1>2, <1>7, SameLayout DEF Deliver, CopiesFit, limits
  <2>3. FilesKept' /\ ClosesOwn'
    BY <1>1, <1>3, <1>7 DEF Deliver, FilesKept, ClosesOwn
  <2>. QED BY <1>3, <1>7, <2>1, <2>2, <2>3 DEF Deliver, Inv, ObjectsSound, Translating
<1>8. CASE DeliverFails
  <2>1. held = FdWords
    BY <1>1, <1>8 DEF DeliverFails, FilesKept
  <2>2. installed' \subseteq held
    BY <1>8 DEF DeliverFails, binder_deferred_fd_close
  <2>3. TypeOK'
    BY <1>1, <1>4, <1>5, <1>8, <2>1, <2>2 DEF DeliverFails, TypeOK, limits
  <2>4. CopiesFit' /\ FilesKept' /\ ClosesOwn'
    BY <1>8 DEF DeliverFails, CopiesFit, FilesKept, ClosesOwn
  <2>. QED BY <1>3, <1>8, <2>3, <2>4 DEF DeliverFails, Inv, ObjectsSound, Translating
<1>9. CASE Free
  <2>1. installed = FdWords /\ held = {}
    BY <1>1, <1>9 DEF Free, FilesKept
  <2>2. installed' \subseteq installed /\ installed \ ArrayWords \subseteq installed'
    BY <1>9 DEF Free, binder_deferred_fd_close
  <2>3. stray' = {}
    BY <1>4, <1>9, <2>1 DEF Free
  <2>4. TypeOK'
    BY <1>1, <1>9, <2>2, <2>3 DEF Free, TypeOK, limits
  <2>5. CopiesFit' /\ FilesKept' /\ ClosesOwn'
    BY <1>3, <1>9, <2>1, <2>2, <2>3 DEF Free, CopiesFit, FilesKept, ClosesOwn
  <2>. QED BY <1>3, <1>9, <2>4, <2>5 DEF Free, Inv, ObjectsSound, Translating
<1>. QED BY <1>6, <1>7, <1>8, <1>9
-----------------------------------------------------------------------------
(* The steps that translate an object.                                     *)

LEMMA InvFacts ==
  ASSUME Inv, Translating
  PROVE  /\ TypeOK /\ tr \in Header /\ objs \in Seq(Object) /\ cur \in Object
         /\ sg_buf_offset \in Nat /\ off_min \in Nat
         /\ FixupsApart /\ FixupsInside /\ fixups \subseteq FixupType
         /\ held = FdWords /\ installed = {} /\ stray = {}
         /\ sg_start <= sg_buf_offset /\ sg_buf_offset <= sg_buf_end_offset
         /\ HeaderValid /\ sg_buf_offset % 8 = 0
         /\ ObjectsInOrder /\ CopiesInOrder /\ ParentsFirst /\ Chain
         /\ pc = "walk" => CurrentSound
BY DEF Inv, ObjectsSound, Translating, TypeOK, FilesKept, ClosesOwn, CopiesFit, TranslationSound

LEMMA ObjectTaken ==
  ASSUME ObjectsAssumption, Inv, NEW o \in Sent, Next_object(o), Valid(o)
  PROVE  o \in Object /\ Follows(o) /\ Translating /\ pc = "objects" /\ num_valid = Len(objs)
<1>1. o \in Object /\ pc = "objects" /\ Translating
  BY DEF ObjectsAssumption, Next_object, Translating
<1>2. off_min <= o.off /\ binder_get_object(o)
  BY DEF Valid
<1>3. /\ objs \in Seq(Object) /\ off_min \in Nat
      /\ \A i \in DOMAIN objs : objs[i].off + ObjectSize(objs[i].type) <= off_min
  BY <1>1, InvFacts DEF ObjectsInOrder
<1>4. \A i \in DOMAIN objs : objs[i].off \in Nat /\ ObjectSize(objs[i].type) \in Nat
  BY <1>3, ObjectFields
<1>5. o.off \in Nat
  BY <1>1, ObjectFields
<1>6. ASSUME NEW x \in Nat, x <= off_min PROVE x <= o.off
  BY <1>2, <1>3, <1>5, <1>6
<1>7. Follows(o)
  BY <1>2, <1>3, <1>4, <1>6 DEF Follows
<1>. QED BY <1>1, <1>7 DEF num_valid

\* What remains to be shown of a step that appends an object and adds fixups.
LEMMA AppendStep ==
  ASSUME Inv, Translating, NEW o \in Object, objs' = Append(objs, o), tr' = tr, pc' = "objects",
         TypeOK', Follows(o), off_min' = o.off + ObjectSize(o.type),
         CopyFollows(o), o.type = "PTR" => o.buffer + o.length <= sg_buf_offset',
         sg_buf_offset <= sg_buf_offset', sg_buf_offset' % 8 = 0,
         sg_buf_offset' <= sg_buf_end_offset,
         o.type = "PTR" /\ o.has_parent => o.parent + 1 \in DOMAIN objs /\ objs[o.parent + 1].type = "PTR",
         NEW F, fixups' = fixups \cup F,
         \A f \in F : Accessible(f.at, f.size) /\ \E i \in DOMAIN objs' : Within(f, objs'[i]),
         \A f \in F : \A g \in fixups : Apart(f, g) /\ Apart(g, f),
         \A f, g \in F : f = g \/ Apart(f, g),
         held' = held \cup {f.at : f \in {g \in F : g.kind # "ptr"}},
         UNCHANGED <<installed, stray>>, Chain'
  PROVE  Inv'
<1>1. /\ tr \in Header /\ objs \in Seq(Object) /\ sg_buf_offset \in Nat /\ FixupsApart /\ FixupsInside
      /\ held = FdWords /\ installed = {} /\ stray = {} /\ sg_start <= sg_buf_offset
      /\ HeaderValid /\ ObjectsInOrder /\ CopiesInOrder /\ ParentsFirst
  BY InvFacts
<1>2. sg_buf_offset' \in Nat
  BY DEF TypeOK
<1>3. ObjectsInOrder'
  BY <1>1, AppendOrder
<1>4. CopiesInOrder'
  BY <1>1, <1>2, AppendCopies
<1>5. ParentsFirst'
  BY <1>1, AppendParents
<1>6. FixupsInside'
  BY <1>1, InsideKept
<1>7. FixupsApart'
  BY <1>1, ApartKept
<1>8. FdWords' = held'
  BY <1>1 DEF FdWords
<1>9. FilesKept' /\ ClosesOwn'
  BY <1>1, <1>8 DEF FilesKept, ClosesOwn
<1>10. TranslationSound'
  BY <1>1, <1>3, <1>4, <1>5, SameLayout DEF TranslationSound
<1>11. /\ sg_start \in Nat /\ sg_buf_end_offset <= SecctxOffset /\ sg_buf_end_offset \in Nat
       /\ sg_start' = sg_start /\ sg_buf_end_offset' = sg_buf_end_offset /\ SecctxOffset' = SecctxOffset
  BY <1>1, Layout, LayoutValid, SameLayout
<1>12. sg_start <= sg_buf_offset'
  BY <1>1, <1>2, <1>11
<1>13. CopiesFit'
  BY <1>4, <1>11, <1>12 DEF CopiesFit, CopiesInOrder, InArea
<1>. QED BY <1>6, <1>7, <1>9, <1>10, <1>13 DEF Inv, ObjectsSound

\* A chain stays one when an object that is no pointer object is appended and
\* no fixup is made in a buffer.
LEMMA QuietChain ==
  ASSUME Inv, Translating, NEW o \in Object, objs' = Append(objs, o), pc' = "objects",
         UNCHANGED <<last_fixup_obj_off, last_fixup_min_off>>,
         \A f \in fixups' : f \in fixups \/ f.kind = "fd"
  PROVE  Chain'
<1>1. PICK C \in SUBSET DOMAIN objs :
        /\ ClosedUp(C, objs, fixups)
        /\ last_fixup_obj_off # 0 => Reaches(C, objs, fixups, last_fixup_obj_off, last_fixup_min_off)
  BY InvFacts DEF Chain
<1>2. /\ DOMAIN objs \subseteq DOMAIN objs' /\ \A i \in DOMAIN objs : objs'[i] = objs[i]
  BY InvFacts, AppendFacts
<1>3. \A off, min : Below(fixups, off, min) => Below(fixups', off, min)
  BY DEF Below
<1>4. ClosedUp(C, objs', fixups')
  BY <1>1, <1>2, <1>3 DEF ClosedUp
<1>5. last_fixup_obj_off' # 0 => Reaches(C, objs', fixups', last_fixup_obj_off', last_fixup_min_off')
  BY <1>1, <1>2, <1>3 DEF Reaches
<1>6. C \in SUBSET DOMAIN objs'
  BY <1>2
<1>. QED BY <1>4, <1>5, <1>6 DEF Chain

LEMMA FlatStep ==
  ASSUME ObjectsAssumption, Inv, NEW o \in Sent, TranslateFlat(o)
  PROVE  Inv'
<1> DEFINE F == {}
<1>1. o \in Object /\ Follows(o) /\ Translating /\ pc = "objects"
  BY ObjectTaken DEF TranslateFlat
<1>2. /\ objs' = Append(objs, o) /\ tr' = tr /\ pc' = pc /\ off_min' = o.off + ObjectSize(o.type)
      /\ UNCHANGED <<sg_buf_offset, last_fixup_obj_off, last_fixup_min_off, fixups, held, installed, stray>>
      /\ UNCHANGED <<cur, walk>> /\ o.type = "flat"
  BY DEF TranslateFlat, Translated, Passed, files
<1>3. fixups' = fixups \cup F
  BY <1>2
<1>4. Chain'
  BY <1>1, <1>2, <1>3, QuietChain
<1>5. /\ objs \in Seq(Object) /\ sg_buf_offset % 8 = 0 /\ sg_buf_offset <= sg_buf_end_offset
      /\ sg_buf_offset \in Nat /\ TypeOK
  BY <1>1, InvFacts
<1>6. TypeOK'
  <2>1. off_min' \in Nat /\ objs' \in Seq(Object)
    BY <1>1, <1>2, <1>5, ObjectFields, AppendFacts
  <2>. QED BY <1>2, <1>5, <2>1 DEF TypeOK
<1>7. held' = held \cup {f.at : f \in {g \in F : g.kind # "ptr"}}
  BY <1>2
<1>8. CopyFollows(o)
  BY <1>2 DEF CopyFollows
<1>9. /\ \A f \in F : Accessible(f.at, f.size) /\ \E i \in DOMAIN objs' : Within(f, objs'[i])
      /\ \A f \in F : \A g \in fixups : Apart(f, g) /\ Apart(g, f)
      /\ \A f, g \in F : f = g \/ Apart(f, g)
  OBVIOUS
<1> HIDE DEF F
<1>10. /\ pc' = "objects" /\ sg_buf_offset <= sg_buf_offset' /\ sg_buf_offset' % 8 = 0
       /\ sg_buf_offset' <= sg_buf_end_offset /\ o.type # "PTR"
  BY <1>1, <1>2, <1>5
<1>. QED BY <1>1, <1>2, <1>3, <1>4, <1>6, <1>7, <1>8, <1>9, <1>10, AppendStep

LEMMA FdStep ==
  ASSUME ObjectsAssumption, Inv, NEW o \in Sent, TranslateFd(o)
  PROVE  Inv'
<1> DEFINE n == FdFixup(o)
           F == {n}
<1>1. o \in Object /\ Follows(o) /\ Translating /\ pc = "objects"
  BY ObjectTaken DEF TranslateFd
<1>2. /\ objs' = Append(objs, o) /\ tr' = tr /\ pc' = pc /\ off_min' = o.off + ObjectSize(o.type)
      /\ UNCHANGED <<sg_buf_offset, last_fixup_obj_off, last_fixup_min_off, installed, stray>>
      /\ UNCHANGED <<cur, walk>> /\ o.type = "FD" /\ fixups' = fixups \cup F /\ held' = held \cup {n.at}
  BY DEF TranslateFd, Translated, Passed
<1>3. n \in FixupType /\ n.kind = "fd" /\ n.at = o.off + 8 /\ n.size = 4 /\ n.at \in Nat
  BY <1>1, FdFixupFields, FixupFields
<1>4. /\ tr \in Header /\ objs \in Seq(Object) /\ sg_buf_offset % 8 = 0 /\ sg_buf_offset <= sg_buf_end_offset
      /\ sg_buf_offset \in Nat /\ TypeOK /\ FixupsInside /\ fixups \subseteq FixupType
      /\ ObjectsInOrder /\ CopiesInOrder
  BY <1>1, InvFacts
<1>5. Within(n, o)
  BY <1>2 DEF Within
<1> HIDE DEF n
<1>6. Chain'
  BY <1>1, <1>2, <1>3, QuietChain
<1>7. TypeOK'
  <2>1. off_min' \in Nat /\ objs' \in Seq(Object)
    BY <1>1, <1>2, <1>4, ObjectFields, AppendFacts
  <2>. QED BY <1>2, <1>3, <1>4, <2>1 DEF TypeOK
<1>8. held' = held \cup {f.at : f \in {g \in F : g.kind # "ptr"}}
  BY <1>2, <1>3
<1>9. CopyFollows(o)
  BY <1>2 DEF CopyFollows
<1>10. Accessible(n.at, n.size)
  <2>1. o.off \in Nat /\ o.off % 4 = 0 /\ o.off + 24 <= tr.data_size
    BY <1>1, <1>2, ObjectFields DEF Follows, binder_get_object, ObjectSize
  <2>2. tr.data_size \in Nat /\ tr.data_size <= buffer_size /\ buffer_size \in Nat
    BY <1>4, Layout, HeaderType
  <2>. QED BY <1>3, <2>1, <2>2 DEF Accessible
<1>11. \A f \in F : Accessible(f.at, f.size) /\ \E i \in DOMAIN objs' : Within(f, objs'[i])
  BY <1>1, <1>2, <1>4, <1>5, <1>10, AppendFacts
<1>12. ASSUME NEW g \in fixups PROVE Apart(n, g) /\ Apart(g, n)
  <2>1. PICK j \in DOMAIN objs : Within(g, objs[j])
    BY <1>4 DEF FixupsInside
  <2>2. objs[j] \in Object /\ binder_get_object(objs[j]) /\ g \in FixupType
    BY <1>4 DEF ObjectsInOrder
  <2>3. CASE objs[j].type = "FD"
    <3>1. g = FdFixup(objs[j])
      BY <2>1, <2>3 DEF Within
    <3>2. g.at = objs[j].off + 8 /\ g.size = 4
      BY <2>2, <3>1, FdFixupFields
    <3>3. objs[j].off + 24 <= o.off
      BY <1>1, <2>3 DEF Follows, ObjectSize
    <3>4. objs[j].off \in Nat /\ o.off \in Nat
      BY <1>1, <2>2, ObjectFields
    <3>. QED BY <1>3, <3>2, <3>3, <3>4 DEF Apart
  <2>4. CASE objs[j].type = "PTR"
    <3>1. sg_start <= objs[j].buffer
      BY <1>4, <2>4 DEF CopiesInOrder, InArea
    <3>2. binder_get_object(o) /\ n = FdFixup(o)
      BY <1>1 DEF Follows, n
    <3>. QED BY <1>1, <1>2, <1>3, <1>4, <2>1, <2>2, <2>4, <3>1, <3>2, DataApart
  <2>. QED BY <2>1, <2>3, <2>4 DEF Within
<1>13. \A f \in F : \A g \in fixups : Apart(f, g) /\ Apart(g, f)
  BY <1>12
<1>14. \A f, g \in F : f = g \/ Apart(f, g)
  OBVIOUS
<1>15. /\ sg_buf_offset <= sg_buf_offset' /\ sg_buf_offset' % 8 = 0 /\ sg_buf_offset' <= sg_buf_end_offset
       /\ o.type # "PTR"
  BY <1>2, <1>4
<1>16. /\ objs' = Append(objs, o) /\ tr' = tr /\ pc' = "objects" /\ off_min' = o.off + ObjectSize(o.type)
       /\ fixups' = fixups \cup F /\ UNCHANGED <<installed, stray>>
  BY <1>1, <1>2
<1> HIDE DEF F
<1>. QED BY <1>1, <1>6, <1>7, <1>8, <1>9, <1>11, <1>13, <1>14, <1>15, <1>16, AppendStep
\* A buffer is copied into what is left of the area, behind the others.
LEMMA CopyFacts ==
  ASSUME ObjectsAssumption, Inv, Translating, NEW o \in Object, Copied(o)
  PROVE  /\ sg_buf_offset' \in Nat /\ sg_buf_offset' % 8 = 0
         /\ sg_buf_offset + o.length <= sg_buf_offset' /\ sg_buf_offset <= sg_buf_offset'
         /\ sg_buf_offset' <= sg_buf_end_offset
<1>1. /\ tr \in Header /\ HeaderValid /\ sg_buf_offset \in Nat /\ sg_buf_offset % 8 = 0
      /\ sg_buf_offset <= sg_buf_end_offset
  BY InvFacts
<1>2. /\ sg_buf_end_offset \in Nat /\ sg_buf_end_offset % 8 = 0 /\ sg_buf_end_offset <= SizeMax
      /\ SizeMax \in Nat
  <2>1. sg_buf_end_offset \in Nat /\ buffer_size \in Nat
    BY <1>1, Layout
  <2>2. /\ sg_buf_end_offset % 8 = 0 /\ sg_buf_end_offset <= buffer_size /\ buffer_size <= SizeMax
    BY <1>1, LayoutValid
  <2>. QED BY <2>1, <2>2 DEF ObjectsAssumption
<1> DEFINE m == sg_buf_end_offset - sg_buf_offset
<1>3. m \in Nat /\ m <= SizeMax
  BY <1>1, <1>2
<1>4. m % 8 = 0
  BY <1>1, <1>2
<1>5. buf_left = m
  BY <1>2, <1>3 DEF buf_left, Wrap
<1>6. o.length \in Nat /\ o.length <= m
  BY <1>5, ObjectFields DEF Copied
<1>7. Align8(o.length) \in Nat /\ o.length <= Align8(o.length) /\ Align8(o.length) % 8 = 0
  BY <1>6, AlignFacts
<1>8. Align8(o.length) <= m
  BY <1>3, <1>4, <1>6, AlignBelow
<1>9. sg_buf_offset' = sg_buf_offset + Align8(o.length)
  BY DEF Copied
<1>10. ASSUME NEW s \in Nat, NEW a \in Nat, NEW e \in Nat, NEW x \in Nat,
              s % 8 = 0, a % 8 = 0, x <= a, a <= e - s
       PROVE  /\ s + a \in Nat /\ (s + a) % 8 = 0
              /\ s + x <= s + a /\ s <= s + a /\ s + a <= e
  BY <1>10
<1> HIDE DEF m
<1>. QED BY <1>1, <1>2, <1>6, <1>7, <1>8, <1>9, <1>10 DEF m

LEMMA PlacedFields ==
  ASSUME NEW o \in Object, sg_buf_offset \in Nat
  PROVE  /\ Placed(o) \in Object /\ Placed(o).buffer = sg_buf_offset
         /\ Placed(o).type = o.type /\ Placed(o).off = o.off /\ Placed(o).has_parent = o.has_parent
         /\ Placed(o).parent = o.parent /\ Placed(o).parent_offset = o.parent_offset
         /\ Placed(o).length = o.length /\ Placed(o).num_fds = o.num_fds
BY DEF Placed, Object

LEMMA PlacedFollows ==
  ASSUME Inv, Translating, NEW o \in Object, Follows(o)
  PROVE  Follows(Placed(o)) /\ CopyFollows(Placed(o))
<1>1. sg_buf_offset \in Nat /\ sg_start <= sg_buf_offset /\ CopiesInOrder
  BY InvFacts
<1>2. Follows(Placed(o))
  BY <1>1, PlacedFields DEF Follows, binder_get_object
<1>3. CopyFollows(Placed(o))
  BY <1>1, PlacedFields DEF CopyFollows, CopiesInOrder, InArea
<1>. QED BY <1>2, <1>3

LEMMA PtrStep ==
  ASSUME ObjectsAssumption, Inv, NEW o \in Sent, TranslatePtr(o)
  PROVE  Inv'
<1> DEFINE q == Placed(o)
           n == Len(objs) + 1
<1>1. o \in Object /\ Follows(o) /\ Translating /\ pc = "objects"
  BY ObjectTaken DEF TranslatePtr
<1>2. /\ objs' = Append(objs, q) /\ tr' = tr /\ pc' = "objects" /\ off_min' = o.off + ObjectSize(o.type)
      /\ last_fixup_obj_off' = o.off /\ last_fixup_min_off' = 0
      /\ UNCHANGED <<cur, walk, fixups, held, installed, stray>>
      /\ Copied(o) /\ o.type = "PTR" /\ ~o.has_parent
  BY <1>1 DEF TranslatePtr, Translated, Passed, files
<1>3. /\ objs \in Seq(Object) /\ sg_buf_offset \in Nat /\ TypeOK /\ FixupsInside /\ ObjectsInOrder
  BY <1>1, InvFacts
<1>4. /\ sg_buf_offset' \in Nat /\ sg_buf_offset' % 8 = 0 /\ sg_buf_offset <= sg_buf_offset'
      /\ sg_buf_offset + o.length <= sg_buf_offset' /\ sg_buf_offset' <= sg_buf_end_offset
  BY <1>1, <1>2, CopyFacts
<1>5. /\ q \in Object /\ q.buffer = sg_buf_offset /\ q.length = o.length /\ q.type = "PTR"
      /\ q.off = o.off /\ ~q.has_parent
  BY <1>1, <1>2, <1>3, PlacedFields
<1>6. Follows(q) /\ CopyFollows(q)
  BY <1>1, PlacedFollows
<1>7. off_min' = q.off + ObjectSize(q.type) /\ q.buffer + q.length <= sg_buf_offset'
  BY <1>2, <1>4, <1>5
<1> HIDE DEF q
<1>8. DOMAIN objs' = DOMAIN objs \cup {n} /\ objs'[n] = q /\ objs' \in Seq(Object)
  BY <1>2, <1>3, <1>5, AppendFacts
<1>9. TypeOK'
  <2>1. off_min' \in Nat /\ last_fixup_obj_off' \in Nat
    BY <1>1, <1>2, ObjectFields
  <2>. QED BY <1>2, <1>3, <1>4, <1>8, <2>1 DEF TypeOK
<1>10. Chain'
  <2>1. Below(fixups', o.off, 0)
    BY <1>2, <1>3, <1>5, <1>6, NoneBelow
  <2>2. ClosedUp({n}, objs', fixups')
    BY <1>5, <1>8 DEF ClosedUp
  <2>3. Reaches({n}, objs', fixups', last_fixup_obj_off', last_fixup_min_off')
    BY <1>2, <1>5, <1>8, <2>1 DEF Reaches
  <2>4. {n} \in SUBSET DOMAIN objs' /\ pc' # "walk"
    BY <1>2, <1>8
  <2> HIDE DEF n
  <2>. QED BY <2>2, <2>3, <2>4 DEF Chain
<1> DEFINE F == {}
<1>11. /\ fixups' = fixups \cup F /\ held' = held \cup {f.at : f \in {g \in F : g.kind # "ptr"}}
  BY <1>2
<1>12. /\ \A f \in F : Accessible(f.at, f.size) /\ \E i \in DOMAIN objs' : Within(f, objs'[i])
       /\ \A f \in F : \A g \in fixups : Apart(f, g) /\ Apart(g, f)
       /\ \A f, g \in F : f = g \/ Apart(f, g)
  OBVIOUS
<1>13. tr' = tr /\ pc' = "objects" /\ objs' = Append(objs, q) /\ UNCHANGED <<installed, stray>>
  BY <1>2
<1> HIDE DEF F, n
<1>. QED BY <1>1, <1>4, <1>5, <1>6, <1>7, <1>9, <1>10, <1>11, <1>12, <1>13, AppendStep

-----------------------------------------------------------------------------
(* The walk of binder_validate_fixup.                                      *)

\* What remains to be shown of a step that leaves the objects and fixups alone
\* and goes on in the walk.
LEMMA WalkStep ==
  ASSUME Inv, Translating, pc' = "walk", UNCHANGED <<tr, objs, fixups, files>>, TypeOK',
         sg_buf_offset <= sg_buf_offset', sg_buf_offset' % 8 = 0,
         sg_buf_offset' <= sg_buf_end_offset,
         off_min <= off_min', CurrentSound', Chain'
  PROVE  Inv'
<1>1. /\ tr \in Header /\ objs \in Seq(Object) /\ FixupsApart /\ FixupsInside
      /\ held = FdWords /\ installed = {} /\ stray = {} /\ sg_start <= sg_buf_offset
      /\ HeaderValid /\ ObjectsInOrder /\ CopiesInOrder /\ ParentsFirst
      /\ sg_buf_offset \in Nat /\ off_min \in Nat
  BY InvFacts
<1>2. FixupsApart' /\ FixupsInside' /\ FdWords' = FdWords
  BY <1>1, SameFixups
<1>3. FilesKept' /\ ClosesOwn'
  BY <1>1, <1>2 DEF FilesKept, ClosesOwn, files
<1>4. /\ sg_start \in Nat /\ sg_buf_end_offset <= SecctxOffset /\ sg_start' = sg_start
      /\ sg_buf_end_offset' = sg_buf_end_offset /\ SecctxOffset' = SecctxOffset /\ HeaderValid'
  BY <1>1, Layout, LayoutValid, SameLayout
<1>5. off_min' \in Nat /\ sg_buf_offset' \in Nat
  BY DEF TypeOK
<1>6. \A x \in Nat : (x <= off_min => x <= off_min') /\ (x <= sg_buf_offset => x <= sg_buf_offset')
  BY <1>1, <1>5
<1>7. \A i \in DOMAIN objs : /\ objs[i].off + ObjectSize(objs[i].type) \in Nat
                             /\ objs[i].buffer + objs[i].length \in Nat
  BY <1>1, ObjectFields
<1>8. ObjectsInOrder'
  BY <1>1, <1>6, <1>7 DEF ObjectsInOrder, binder_get_object
<1>9. CopiesInOrder'
  BY <1>1, <1>4, <1>6, <1>7 DEF CopiesInOrder, InArea
<1>10. ParentsFirst'
  BY <1>1 DEF ParentsFirst
<1>11. TranslationSound'
  BY <1>4, <1>8, <1>9, <1>10 DEF TranslationSound
<1>12. CopiesFit'
  BY <1>1, <1>4, <1>5, <1>9 DEF CopiesFit, CopiesInOrder, InArea
<1>. QED BY <1>2, <1>3, <1>11, <1>12 DEF Inv, ObjectsSound

LEMMA ParentThere ==
  ASSUME objs \in Seq(Object), NEW k \in Nat, binder_validate_ptr(k)
  PROVE  /\ k + 1 \in DOMAIN objs /\ objs[k + 1] \in Object /\ objs[k + 1].type = "PTR"
BY DEF binder_validate_ptr, num_valid

\* The walk begins at the last object, which the chain reaches.
LEMMA BeginChain ==
  ASSUME Inv, Translating, UNCHANGED <<objs, fixups, last_fixup_obj_off, last_fixup_min_off>>,
         last_fixup_obj_off # 0, walk' = [obj |-> last_fixup_obj_off, min |-> last_fixup_min_off]
  PROVE  Chain'
<1>1. PICK C \in SUBSET DOMAIN objs :
        /\ ClosedUp(C, objs, fixups)
        /\ Reaches(C, objs, fixups, last_fixup_obj_off, last_fixup_min_off)
  BY InvFacts DEF Chain
<1>2. walk'.obj = last_fixup_obj_off /\ walk'.min = last_fixup_min_off
  OBVIOUS
<1>. QED BY <1>1, <1>2 DEF Chain

LEMMA TakeFdaStep ==
  ASSUME ObjectsAssumption, Inv, NEW o \in Sent, TakeFda(o)
  PROVE  Inv'
<1>1. o \in Object /\ Follows(o) /\ Translating /\ pc = "objects"
  BY ObjectTaken DEF TakeFda
<1>2. /\ pc' = "walk" /\ cur' = o /\ binder_validate_ptr(o.parent) /\ last_fixup_obj_off # 0
      /\ walk' = [obj |-> last_fixup_obj_off, min |-> last_fixup_min_off]
      /\ off_min' = o.off + ObjectSize(o.type) /\ off_min <= o.off
      /\ UNCHANGED <<tr, objs, sg_buf_offset, last_fixup_obj_off, last_fixup_min_off, fixups, files>>
      /\ o.type = "FDA"
  BY DEF TakeFda, BeginWalk, Passed, Valid
<1>3. /\ TypeOK /\ sg_buf_offset \in Nat /\ sg_buf_offset % 8 = 0 /\ sg_buf_offset <= sg_buf_end_offset
      /\ off_min \in Nat
  BY <1>1, InvFacts
<1>4. o.off \in Nat /\ ObjectSize(o.type) \in Nat /\ off_min' \in Nat /\ off_min <= off_min'
  BY <1>1, <1>2, <1>3, ObjectFields
<1>5. walk' \in [obj : Nat, min : Nat]
  BY <1>2, <1>3 DEF TypeOK
<1>6. TypeOK'
  BY <1>1, <1>2, <1>3, <1>4, <1>5 DEF TypeOK, files
<1>7. CurrentSound'
  BY <1>1, <1>2 DEF CurrentSound, Follows, binder_get_object, binder_validate_ptr, num_valid
<1>8. Chain'
  BY <1>1, <1>2, BeginChain
<1>. QED BY <1>1, <1>2, <1>3, <1>4, <1>6, <1>7, <1>8, WalkStep

LEMMA TakePtrStep ==
  ASSUME ObjectsAssumption, Inv, NEW o \in Sent, TakePtr(o)
  PROVE  Inv'
<1> DEFINE q == Placed(o)
<1>1. o \in Object /\ Follows(o) /\ Translating /\ pc = "objects"
  BY ObjectTaken DEF TakePtr
<1>2. /\ pc' = "walk" /\ cur' = q /\ binder_validate_ptr(q.parent) /\ last_fixup_obj_off # 0
      /\ walk' = [obj |-> last_fixup_obj_off, min |-> last_fixup_min_off]
      /\ off_min' = o.off + ObjectSize(o.type) /\ off_min <= o.off
      /\ UNCHANGED <<tr, objs, last_fixup_obj_off, last_fixup_min_off, fixups, files>>
      /\ o.type = "PTR" /\ o.has_parent /\ Copied(o)
  BY DEF TakePtr, BeginWalk, Passed, Valid
<1>3. /\ TypeOK /\ sg_buf_offset \in Nat /\ off_min \in Nat
  BY <1>1, InvFacts
<1>4. o.off \in Nat /\ ObjectSize(o.type) \in Nat /\ off_min' \in Nat /\ off_min <= off_min'
  BY <1>1, <1>2, <1>3, ObjectFields
<1>5. walk' \in [obj : Nat, min : Nat]
  BY <1>2, <1>3 DEF TypeOK
<1>6. /\ sg_buf_offset' \in Nat /\ sg_buf_offset' % 8 = 0 /\ sg_buf_offset <= sg_buf_offset'
      /\ sg_buf_offset + o.length <= sg_buf_offset' /\ sg_buf_offset' <= sg_buf_end_offset
  BY <1>1, <1>2, CopyFacts
<1>7. /\ q \in Object /\ q.buffer = sg_buf_offset /\ q.length = o.length /\ q.type = "PTR"
      /\ q.off = o.off /\ q.has_parent
  BY <1>1, <1>2, <1>3, PlacedFields
<1>8. Follows(q) /\ CopyFollows(q)
  BY <1>1, PlacedFollows
<1> HIDE DEF q
<1>9. TypeOK'
  BY <1>1, <1>2, <1>3, <1>4, <1>5, <1>6, <1>7 DEF TypeOK, files
<1>10. sg_start' = sg_start
  BY <1>2, SameLayout
<1>11. CurrentSound'
  BY <1>2, <1>6, <1>7, <1>8, <1>10
     DEF CurrentSound, Follows, CopyFollows, InArea, binder_get_object, binder_validate_ptr,
     num_valid
<1>12. Chain'
  BY <1>1, <1>2, BeginChain
<1>. QED BY <1>1, <1>2, <1>4, <1>6, <1>9, <1>11, <1>12, WalkStep
LEMMA WalkUpStep ==
  ASSUME Inv, WalkUp
  PROVE  Inv'
<1>1. Translating /\ pc = "walk" /\ pc' = "walk"
  BY DEF WalkUp, Translating
<1>2. /\ TypeOK /\ tr \in Header /\ objs \in Seq(Object) /\ ObjectsInOrder /\ CurrentSound
      /\ sg_buf_offset \in Nat /\ sg_buf_offset % 8 = 0 /\ sg_buf_offset <= sg_buf_end_offset
      /\ off_min \in Nat
  BY <1>1, InvFacts
<1>3. UNCHANGED <<pc, tr, objs, cur, limits, fixups, files>>
  BY DEF WalkUp
<1>4. PICK i \in DOMAIN objs :
        /\ Step(objs[i])
        /\ walk' = [obj |-> objs[objs[i].parent + 1].off, min |-> objs[i].parent_offset + POINTER]
  BY DEF WalkUp
<1> DEFINE q == objs[i].parent + 1
<1>5. walk'.obj = objs[q].off /\ walk'.min = objs[i].parent_offset + POINTER
  BY <1>4
<1>6. PICK C \in SUBSET DOMAIN objs :
        /\ ClosedUp(C, objs, fixups)
        /\ last_fixup_obj_off # 0 => Reaches(C, objs, fixups, last_fixup_obj_off, last_fixup_min_off)
        /\ Reaches(C, objs, fixups, walk.obj, walk.min)
  BY <1>1, InvFacts DEF Chain
<1>7. PICK c \in C : objs[c].off = walk.obj
  BY <1>6 DEF Reaches
<1>8. c = i
  BY <1>2, <1>4, <1>7, OffsetsDiffer DEF Step
<1>9. q \in C /\ Below(fixups, objs[q].off, objs[i].parent_offset + POINTER)
  BY <1>4, <1>6, <1>7, <1>8 DEF ClosedUp, Step
<1>10. Reaches(C, objs, fixups, walk'.obj, walk'.min)
  BY <1>5, <1>9 DEF Reaches
<1>11. Chain'
  BY <1>3, <1>6, <1>10 DEF Chain, limits
<1>12. objs[i] \in Object /\ objs[q] \in Object
  BY <1>2, <1>9
<1>13. objs[q].off \in Nat /\ objs[i].parent_offset + POINTER \in Nat
  BY <1>12, ObjectFields DEF POINTER
<1>14. walk' \in [obj : Nat, min : Nat]
  BY <1>4, <1>13
<1>15. TypeOK'
  BY <1>2, <1>3, <1>14 DEF TypeOK, limits, files
<1>16. CurrentSound'
  BY <1>2, <1>3, SameLayout
     DEF CurrentSound, binder_get_object, binder_validate_ptr, num_valid, InArea, limits
<1>17. /\ sg_buf_offset <= sg_buf_offset' /\ sg_buf_offset' % 8 = 0
       /\ sg_buf_offset' <= sg_buf_end_offset /\ off_min <= off_min'
  BY <1>2, <1>3 DEF limits
<1>. QED BY <1>1, <1>3, <1>11, <1>15, <1>16, <1>17, WalkStep

\* Where the walk ends, the fixups in the parent are before the new one.
LEMMA WalkEnded ==
  ASSUME Inv, pc = "walk", WalkEnds
  PROVE  /\ Translating /\ cur \in Object /\ Follows(cur) /\ CopyFollows(cur)
         /\ off_min = cur.off + ObjectSize(cur.type)
         /\ cur.type = "PTR" => cur.buffer + cur.length <= sg_buf_offset
         /\ cur.parent + 1 \in DOMAIN objs /\ Parent \in Object /\ Parent.type = "PTR"
         /\ \E C \in SUBSET DOMAIN objs : cur.parent + 1 \in C /\ ClosedUp(C, objs, fixups)
         /\ Below(fixups, Parent.off, cur.parent_offset)
<1> DEFINE p == cur.parent + 1
<1>1. Translating
  BY DEF Translating
<1>2. /\ TypeOK /\ tr \in Header /\ objs \in Seq(Object) /\ ObjectsInOrder /\ CurrentSound /\ cur \in Object
      /\ fixups \subseteq FixupType
  BY <1>1, InvFacts
<1>3. cur.parent \in Nat /\ cur.parent_offset \in Nat /\ walk.min \in Nat
  BY <1>2, ObjectFields DEF TypeOK
<1>4. p \in DOMAIN objs /\ objs[p] \in Object /\ objs[p].type = "PTR"
  BY <1>2, <1>3, ParentThere DEF CurrentSound
<1>5. PICK C \in SUBSET DOMAIN objs :
        ClosedUp(C, objs, fixups) /\ Reaches(C, objs, fixups, walk.obj, walk.min)
  BY <1>1, InvFacts DEF Chain
<1>6. PICK c \in C : objs[c].off = walk.obj /\ Below(fixups, walk.obj, walk.min)
  BY <1>5 DEF Reaches
<1>7. walk.obj = objs[p].off /\ walk.min <= cur.parent_offset
  BY <1>3 DEF WalkEnds, Parent
<1>8. c = p
  BY <1>2, <1>4, <1>6, <1>7, OffsetsDiffer
<1>9. Below(fixups, objs[p].off, cur.parent_offset)
  <2>1. SUFFICES ASSUME NEW f \in fixups, f.kind # "fd", f.obj = objs[p].off
                 PROVE  f.rel + f.size <= cur.parent_offset
    BY DEF Below
  <2>2. f.rel + f.size <= walk.min
    BY <1>6, <1>7, <2>1 DEF Below
  <2>3. f.rel \in Nat /\ f.size \in Nat
    BY <1>2, FixupFields
  <2>. QED BY <1>3, <1>7, <2>2, <2>3
<1>10. Follows(cur) /\ CopyFollows(cur)
  BY <1>2 DEF CurrentSound, Follows, CopyFollows, InArea
<1>11. /\ off_min = cur.off + ObjectSize(cur.type)
       /\ cur.type = "PTR" => cur.buffer + cur.length <= sg_buf_offset
  BY <1>2 DEF CurrentSound, InArea
<1>. QED BY <1>1, <1>2, <1>4, <1>5, <1>6, <1>8, <1>9, <1>10, <1>11 DEF Parent

\* A fixup made in the parent behind those of the walk is apart from all others.
LEMMA ParentApart ==
  ASSUME Inv, pc = "walk", WalkEnds, NEW n \in FixupType, n.kind # "fd", n.obj = Parent.off,
         n.at = Parent.buffer + n.rel, n.rel + n.size <= Parent.length, cur.parent_offset <= n.rel
  PROVE  /\ Within(n, Parent)
         /\ \A g \in fixups : Apart(n, g) /\ Apart(g, n)
<1> DEFINE p == cur.parent + 1
<1>1. /\ p \in DOMAIN objs /\ objs[p] \in Object /\ objs[p].type = "PTR" /\ Parent = objs[p]
      /\ Below(fixups, objs[p].off, cur.parent_offset) /\ Translating /\ cur \in Object
  BY WalkEnded DEF Parent
<1>2. /\ tr \in Header /\ objs \in Seq(Object) /\ ObjectsInOrder /\ CopiesInOrder
      /\ FixupsInside /\ fixups \subseteq FixupType
  BY <1>1, InvFacts
<1>3. Within(n, objs[p])
  BY <1>1 DEF Within
<1>4. ASSUME NEW g \in fixups PROVE Apart(n, g) /\ Apart(g, n)
  <2>1. PICK j \in DOMAIN objs : Within(g, objs[j])
    BY <1>2 DEF FixupsInside
  <2>2. g \in FixupType
    BY <1>2
  <2>3. CASE j # p
    BY <1>1, <1>2, <1>3, <2>1, <2>2, <2>3, HomesApart
  <2>4. CASE j = p
    <3>1. g.kind # "fd" /\ g.obj = objs[p].off /\ g.at = objs[p].buffer + g.rel
      BY <1>1, <2>1, <2>4 DEF Within
    <3>2. g.rel + g.size <= cur.parent_offset
      BY <1>1, <3>1 DEF Below
    <3>3. /\ g.rel \in Nat /\ g.size \in Nat /\ g.at \in Nat
          /\ n.rel \in Nat /\ n.size \in Nat /\ n.at \in Nat
      BY <2>2, FixupFields
    <3>4. cur.parent_offset \in Nat /\ objs[p].buffer \in Nat
      BY <1>1, ObjectFields
    <3>5. n.at = objs[p].buffer + n.rel
      BY <1>1
    <3>6. g.at + g.size <= n.at
      BY <3>1, <3>2, <3>3, <3>4, <3>5
    <3>. QED BY <3>6 DEF Apart
  <2>. QED BY <2>3, <2>4
<1>. QED BY <1>1, <1>3, <1>4
LEMMA FixupParentStep ==
  ASSUME Inv, FixupParent
  PROVE  Inv'
<1> DEFINE n == PointerFixup
           F == {n}
           p == cur.parent + 1
           N == Len(objs) + 1
<1>1. /\ pc = "walk" /\ cur.type = "PTR" /\ WalkEnds /\ PointerFits
      /\ fixups' = fixups \cup F /\ last_fixup_obj_off' = cur.off /\ last_fixup_min_off' = 0
      /\ pc' = "objects" /\ objs' = Append(objs, cur) /\ cur' = NoObject /\ walk' = NoWalk
      /\ UNCHANGED <<tr, off_min, sg_buf_offset, held, installed, stray>>
  BY DEF FixupParent, Done, Translated, files
<1>2. /\ Translating /\ cur \in Object /\ Follows(cur) /\ CopyFollows(cur)
      /\ off_min = cur.off + ObjectSize(cur.type) /\ cur.buffer + cur.length <= sg_buf_offset
      /\ p \in DOMAIN objs /\ objs[p] \in Object /\ objs[p].type = "PTR" /\ Parent = objs[p]
      /\ Below(fixups, objs[p].off, cur.parent_offset)
  BY <1>1, WalkEnded DEF Parent
<1>3. /\ TypeOK /\ tr \in Header /\ objs \in Seq(Object) /\ ObjectsInOrder /\ ParentsFirst /\ FixupsInside
      /\ sg_buf_offset \in Nat /\ sg_buf_offset % 8 = 0 /\ sg_buf_offset <= sg_buf_end_offset
      /\ CurrentSound /\ off_min \in Nat
  BY <1>1, <1>2, InvFacts
<1>4. /\ cur.parent_offset \in Nat /\ cur.off \in Nat /\ objs[p].buffer \in Nat /\ objs[p].off \in Nat
      /\ objs[p].length \in Nat
  BY <1>2, ObjectFields
<1>5. /\ n.kind = "ptr" /\ n.obj = objs[p].off /\ n.rel = cur.parent_offset /\ n.size = 8
      /\ n.at = objs[p].buffer + n.rel /\ n \in FixupType
  BY <1>2, <1>4 DEF PointerFixup, Fixup, POINTER, FixupType
<1>6. n.rel + n.size <= objs[p].length /\ Accessible(n.at, n.size)
  <2>1. Parent.length >= 8 /\ cur.parent_offset <= Parent.length - 8 /\ Accessible(n.at, 8)
    BY <1>1 DEF PointerFits, POINTER
  <2>2. cur.parent_offset + 8 <= objs[p].length
    BY <1>2, <1>4, <2>1
  <2>. QED BY <1>5, <2>1, <2>2
<1> HIDE DEF n
<1>7. Within(n, objs[p]) /\ \A g \in fixups : Apart(n, g) /\ Apart(g, n)
  <2>1. n.kind # "fd" /\ cur.parent_offset <= n.rel
    BY <1>4, <1>5
  <2>. QED BY <1>1, <1>2, <1>5, <1>6, <2>1, ParentApart
<1>8. /\ objs' \in Seq(Object) /\ DOMAIN objs' = DOMAIN objs \cup {N} /\ objs'[N] = cur
      /\ \A i \in DOMAIN objs : objs'[i] = objs[i]
  BY <1>1, <1>2, <1>3, AppendFacts
<1>9. TypeOK'
  BY <1>1, <1>3, <1>4, <1>5, <1>8, NoObjectType DEF TypeOK
<1>10. Chain'
  <2>1. PICK C \in SUBSET DOMAIN objs : p \in C /\ ClosedUp(C, objs, fixups)
    BY <1>1, WalkEnded
  <2> DEFINE D == {c \in C : c <= p}
             E == D \cup {N}
  <2>2. p \in D
    <3>1. p \in Nat
      BY <1>2, ObjectFields
    <3>. QED BY <2>1, <3>1
  <2>3. ClosedUp(D, objs', fixups')
    <3>1. \A f \in F : f.kind = "fd" \/ f.obj = objs[p].off
      BY <1>5
    <3> HIDE DEF F, p
    <3>. QED BY <1>1, <1>2, <1>3, <2>1, <3>1, ClosedPart
  <2>4. Below(fixups', objs'[p].off, cur.parent_offset + POINTER)
    <3>1. SUFFICES ASSUME NEW f \in fixups', f.kind # "fd", f.obj = objs[p].off
                   PROVE  f.rel + f.size <= cur.parent_offset + POINTER
      BY <1>2, <1>8 DEF Below
    <3>2. CASE f = n
      BY <1>4, <1>5, <3>2 DEF POINTER
    <3>3. CASE f \in fixups
      <4>1. f.rel + f.size <= cur.parent_offset
        BY <1>2, <3>1, <3>3 DEF Below
      <4>2. f.rel \in Nat /\ f.size \in Nat
        BY <1>3, <3>3, FixupFields DEF TypeOK
      <4>. QED BY <1>4, <4>1, <4>2 DEF POINTER
    <3>. QED BY <1>1, <3>2, <3>3
  <2>5. Below(fixups', cur.off, 0)
    <3>1. Below(fixups, cur.off, 0)
      BY <1>2, <1>3, NoneBelow
    <3>2. objs[p].off # cur.off
      <4>1. objs[p].off + ObjectSize(objs[p].type) <= cur.off
        BY <1>2 DEF Follows
      <4>2. ObjectSize(objs[p].type) = 40
        BY <1>2 DEF ObjectSize
      <4>. QED BY <1>4, <4>1, <4>2
    <3>. QED BY <1>1, <1>5, <3>1, <3>2 DEF Below
  <2> HIDE DEF D
  <2>6. ClosedUp(E, objs', fixups')
    <3>1. SUFFICES ASSUME NEW c \in E
                   PROVE  /\ objs'[c].type = "PTR"
                          /\ objs'[c].has_parent =>
                               /\ objs'[c].parent + 1 \in E
                               /\ Below(fixups', objs'[objs'[c].parent + 1].off, objs'[c].parent_offset + POINTER)
      BY DEF ClosedUp
    <3>2. CASE c = N
      BY <1>1, <1>8, <2>2, <2>4, <3>2
    <3>3. CASE c \in D
      BY <2>3, <3>3 DEF ClosedUp
    <3>. QED BY <3>2, <3>3
  <2>7. Reaches(E, objs', fixups', last_fixup_obj_off', last_fixup_min_off')
    BY <1>1, <1>8, <2>5 DEF Reaches
  <2>8. E \in SUBSET DOMAIN objs' /\ pc' # "walk"
    BY <1>1, <1>8 DEF D
  <2> HIDE DEF E
  <2>. QED BY <2>6, <2>7, <2>8 DEF Chain
<1>11. \A f \in F : Accessible(f.at, f.size) /\ \E i \in DOMAIN objs' : Within(f, objs'[i])
  BY <1>2, <1>6, <1>7, <1>8
<1>12. \A f \in F : \A g \in fixups : Apart(f, g) /\ Apart(g, f)
  BY <1>7
<1>13. \A f, g \in F : f = g \/ Apart(f, g)
  OBVIOUS
<1>14. held' = held \cup {f.at : f \in {g \in F : g.kind # "ptr"}}
  BY <1>1, <1>5
<1>15. /\ off_min' = cur.off + ObjectSize(cur.type) /\ sg_buf_offset <= sg_buf_offset'
       /\ sg_buf_offset' % 8 = 0 /\ sg_buf_offset' <= sg_buf_end_offset
       /\ cur.buffer + cur.length <= sg_buf_offset'
  BY <1>1, <1>2, <1>3
<1>16. /\ objs' = Append(objs, cur) /\ tr' = tr /\ pc' = "objects" /\ UNCHANGED <<installed, stray>>
       /\ fixups' = fixups \cup F
  BY <1>1
<1>17. cur.parent + 1 \in DOMAIN objs /\ objs[cur.parent + 1].type = "PTR"
  BY <1>2
<1> HIDE DEF F, p, N
<1>. QED BY <1>2, <1>9, <1>10, <1>11, <1>12, <1>13, <1>14, <1>15, <1>16, <1>17, AppendStep
\* The words of an array of descriptors: one behind the other, in the parent.
LEMMA ArrayFacts ==
  ASSUME ObjectsAssumption, cur \in Object, Parent \in Object, ArrayFits
  PROVE  /\ \A f \in ArrayFixups :
              /\ f \in FixupType /\ f.kind = "array" /\ f.obj = Parent.off
              /\ f.at = Parent.buffer + f.rel /\ f.rel + f.size <= Parent.length
              /\ cur.parent_offset <= f.rel
              /\ f.rel + f.size <= cur.parent_offset + FD_WORD * cur.num_fds
         /\ \A f, g \in ArrayFixups : f = g \/ Apart(f, g)
         /\ cur.parent_offset + FD_WORD * cur.num_fds \in Nat
<1> DEFINE po == cur.parent_offset
           num == cur.num_fds
           len == Parent.length
           buf == Parent.buffer
           off == Parent.off
           me == cur.off
<1>1. po \in Nat /\ num \in Nat /\ len \in Nat /\ buf \in Nat /\ off \in Nat /\ me \in Nat
  BY ObjectFields
<1>2. /\ num < SizeMax \div 4 /\ fd_buf_size <= len /\ po <= len - fd_buf_size
      /\ fd_buf_size = Wrap(4 * num)
  BY DEF ArrayFits, FD_WORD, fd_buf_size
<1>3. ASSUME NEW f \in ArrayFixups
      PROVE  \E k \in 0..(num - 1) :
               f = [kind |-> "array", child |-> me, obj |-> off, rel |-> po + 4 * k, at |-> buf + (po + 4 * k),
               size |-> 4]
  BY DEF ArrayFixups, Fixup, FD_WORD
<1> HIDE DEF po, num, len, buf, off, me
<1>4. 4 * num \in 0..SizeMax
  BY <1>1, <1>2 DEF ObjectsAssumption
<1>5. fd_buf_size = 4 * num
  BY <1>2, <1>4 DEF Wrap
<1>6. po + 4 * num <= len
  BY <1>1, <1>2, <1>5
<1>7. ASSUME NEW f \in ArrayFixups
      PROVE  /\ f \in FixupType /\ f.kind = "array" /\ f.obj = off
             /\ f.at = buf + f.rel /\ f.rel + f.size <= len /\ po <= f.rel
             /\ f.rel + f.size <= po + 4 * num
  <2>1. PICK k \in 0..(num - 1) :
          f = [kind |-> "array", child |-> me, obj |-> off, rel |-> po + 4 * k, at |-> buf + (po + 4 * k),
          size |-> 4]
    BY <1>3
  <2>2. /\ f.kind = "array" /\ f.obj = off /\ f.rel = po + 4 * k /\ f.at = buf + (po + 4 * k) /\ f.size = 4
    BY <2>1
  <2>3. po + 4 * k \in Nat /\ buf + (po + 4 * k) \in Nat /\ po <= po + 4 * k /\ (po + 4 * k) + 4 <= po + 4 * num
    BY <1>1
  <2>4. f \in FixupType
    BY <1>1, <2>1, <2>3 DEF FixupType
  <2>5. (po + 4 * k) + 4 <= len
    BY <1>1, <1>6, <2>3
  <2>. QED BY <2>2, <2>3, <2>4, <2>5
<1>8. ASSUME NEW f \in ArrayFixups, NEW g \in ArrayFixups
      PROVE  f = g \/ Apart(f, g)
  <2>1. PICK k \in 0..(num - 1) :
          f = [kind |-> "array", child |-> me, obj |-> off, rel |-> po + 4 * k, at |-> buf + (po + 4 * k),
          size |-> 4]
    BY <1>3
  <2>2. PICK l \in 0..(num - 1) :
          g = [kind |-> "array", child |-> me, obj |-> off, rel |-> po + 4 * l, at |-> buf + (po + 4 * l),
          size |-> 4]
    BY <1>3
  <2>3. /\ f.at = buf + (po + 4 * k) /\ f.size = 4 /\ g.at = buf + (po + 4 * l) /\ g.size = 4
    BY <2>1, <2>2
  <2>4. CASE k = l
    BY <2>1, <2>2, <2>4
  <2>5. CASE k # l
    <3>1. \/ buf + (po + 4 * k) + 4 <= buf + (po + 4 * l)
          \/ buf + (po + 4 * l) + 4 <= buf + (po + 4 * k)
      BY <1>1, <2>5
    <3>. QED BY <2>3, <3>1 DEF Apart
  <2>. QED BY <2>4, <2>5
<1>9. po + 4 * num \in Nat
  BY <1>1
<1>. QED BY <1>7, <1>8, <1>9 DEF po, num, len, buf, off, me, FD_WORD

LEMMA FdArrayStep ==
  ASSUME ObjectsAssumption, Inv, TranslateFdArray
  PROVE  Inv'
<1> DEFINE F == ArrayFixups
           p == cur.parent + 1
           N == Len(objs) + 1
           min == cur.parent_offset + FD_WORD * cur.num_fds
<1>1. /\ pc = "walk" /\ cur.type = "FDA" /\ WalkEnds /\ ArrayFits
      /\ \A f \in F : Accessible(f.at, f.size)
      /\ fixups' = fixups \cup F /\ last_fixup_obj_off' = Parent.off /\ last_fixup_min_off' = min
      /\ held' = held \cup {f.at : f \in F}
      /\ pc' = "objects" /\ objs' = Append(objs, cur) /\ cur' = NoObject /\ walk' = NoWalk
      /\ UNCHANGED <<tr, off_min, sg_buf_offset, installed, stray>>
  BY DEF TranslateFdArray, Done, Translated
<1>2. /\ Translating /\ cur \in Object /\ Follows(cur) /\ CopyFollows(cur)
      /\ off_min = cur.off + ObjectSize(cur.type)
      /\ p \in DOMAIN objs /\ Parent \in Object /\ objs[p].type = "PTR" /\ Parent = objs[p]
      /\ Below(fixups, objs[p].off, cur.parent_offset)
  BY <1>1, WalkEnded DEF Parent
<1>3. /\ TypeOK /\ tr \in Header /\ objs \in Seq(Object) /\ ObjectsInOrder /\ ParentsFirst /\ FixupsInside
      /\ sg_buf_offset \in Nat /\ sg_buf_offset % 8 = 0 /\ sg_buf_offset <= sg_buf_end_offset
      /\ off_min \in Nat
  BY <1>1, <1>2, InvFacts
<1>4. cur.parent_offset \in Nat /\ cur.off \in Nat /\ Parent.off \in Nat /\ cur.num_fds \in Nat
  BY <1>2, ObjectFields
<1>5. /\ \A f \in F : /\ f \in FixupType /\ f.kind = "array" /\ f.obj = Parent.off
                      /\ f.at = Parent.buffer + f.rel /\ f.rel + f.size <= Parent.length
                      /\ cur.parent_offset <= f.rel /\ f.rel + f.size <= min
      /\ \A f, g \in F : f = g \/ Apart(f, g)
      /\ min \in Nat
  BY <1>1, <1>2, ArrayFacts
<1>6. cur.parent_offset <= min
  BY <1>4 DEF FD_WORD
<1> HIDE DEF F, min
<1>7. ASSUME NEW f \in F
      PROVE  Within(f, Parent) /\ \A g \in fixups : Apart(f, g) /\ Apart(g, f)
  <2>1. /\ f \in FixupType /\ f.kind # "fd" /\ f.obj = Parent.off
        /\ f.at = Parent.buffer + f.rel /\ f.rel + f.size <= Parent.length /\ cur.parent_offset <= f.rel
    BY <1>5
  <2>. QED BY <1>1, <2>1, ParentApart
<1>8. /\ objs' \in Seq(Object) /\ DOMAIN objs' = DOMAIN objs \cup {N} /\ objs'[N] = cur
      /\ \A i \in DOMAIN objs : objs'[i] = objs[i]
  BY <1>1, <1>2, <1>3, AppendFacts
<1>9. TypeOK'
  <2>1. \A f \in F : f.at \in Nat
    BY <1>5, FixupFields
  <2>. QED BY ZenonT(30), <1>1, <1>3, <1>4, <1>5, <1>8, <2>1, NoObjectType DEF TypeOK
<1>10. Chain'
  <2>1. PICK C \in SUBSET DOMAIN objs : p \in C /\ ClosedUp(C, objs, fixups)
    BY <1>1, WalkEnded
  <2> DEFINE D == {c \in C : c <= p}
  <2>2. p \in D
    <3>1. p \in Nat
      BY <1>2, ObjectFields
    <3>. QED BY <2>1, <3>1
  <2>3. ClosedUp(D, objs', fixups')
    <3>1. \A f \in F : f.kind = "fd" \/ f.obj = objs[p].off
      BY <1>2, <1>5
    <3> HIDE DEF p
    <3>. QED BY <1>1, <1>2, <1>3, <2>1, <3>1, ClosedPart
  <2>4. Below(fixups', Parent.off, min)
    <3>1. SUFFICES ASSUME NEW f \in fixups', f.kind # "fd", f.obj = Parent.off
                   PROVE  f.rel + f.size <= min
      BY DEF Below
    <3>2. CASE f \in F
      BY <1>5, <3>2
    <3>3. CASE f \in fixups
      <4>1. f.rel + f.size <= cur.parent_offset
        BY <1>2, <3>1, <3>3 DEF Below
      <4>2. f.rel \in Nat /\ f.size \in Nat
        BY <1>3, <3>3, FixupFields DEF TypeOK
      <4>. QED BY <1>4, <1>5, <1>6, <4>1, <4>2
    <3>. QED BY <1>1, <3>2, <3>3
  <2>5. D \in SUBSET DOMAIN objs' /\ pc' # "walk" /\ objs'[p] = Parent
    BY <1>1, <1>2, <1>8
  <2> HIDE DEF D
  <2>6. Reaches(D, objs', fixups', last_fixup_obj_off', last_fixup_min_off')
    BY <1>1, <2>2, <2>4, <2>5 DEF Reaches
  <2>. QED BY <2>3, <2>5, <2>6 DEF Chain
<1>11. \A f \in F : Accessible(f.at, f.size) /\ \E i \in DOMAIN objs' : Within(f, objs'[i])
  BY <1>1, <1>2, <1>7, <1>8
<1>12. \A f \in F : \A g \in fixups : Apart(f, g) /\ Apart(g, f)
  BY <1>7
<1>13. held' = held \cup {f.at : f \in {g \in F : g.kind # "ptr"}}
  <2>1. {g \in F : g.kind # "ptr"} = F
    BY <1>5
  <2>. QED BY <1>1, <2>1
<1>14. /\ off_min' = cur.off + ObjectSize(cur.type) /\ sg_buf_offset <= sg_buf_offset'
       /\ sg_buf_offset' % 8 = 0 /\ sg_buf_offset' <= sg_buf_end_offset /\ cur.type # "PTR"
  BY <1>1, <1>2, <1>3
<1>15. /\ objs' = Append(objs, cur) /\ tr' = tr /\ pc' = "objects" /\ UNCHANGED <<installed, stray>>
       /\ fixups' = fixups \cup F /\ \A f, g \in F : f = g \/ Apart(f, g)
  BY <1>1, <1>5
<1> HIDE DEF p, N
<1>. QED BY <1>2, <1>9, <1>10, <1>11, <1>12, <1>13, <1>14, <1>15, AppendStep
-----------------------------------------------------------------------------
(* The invariant holds.                                                    *)

LEMMA StutterStep ==
  ASSUME Inv, UNCHANGED vars
  PROVE  Inv'
<1>1. UNCHANGED <<pc, tr, objs, cur, walk, off_min, sg_buf_offset, last_fixup_obj_off,
                  last_fixup_min_off, fixups, held, installed, stray>>
  BY DEF vars, limits, files
<1>2. TypeOK /\ FixupsApart /\ FixupsInside /\ CopiesFit /\ FilesKept /\ ClosesOwn
  BY DEF Inv, ObjectsSound
<1>3. TypeOK'
  BY <1>1, <1>2 DEF TypeOK
<1>4. FixupsApart' /\ FixupsInside' /\ FdWords' = FdWords /\ ArrayWords' = ArrayWords
  BY <1>1, <1>2, SameFixups
<1>5. CopiesFit' /\ FilesKept' /\ ClosesOwn'
  BY <1>1, <1>2, <1>4, SameLayout DEF CopiesFit, FilesKept, ClosesOwn
<1>6. ASSUME Translating PROVE TranslationSound'
  <2>1. TranslationSound
    BY <1>6 DEF Inv
  <2>2. HeaderValid' /\ sg_buf_offset' % 8 = 0
    BY <1>1, <2>1, SameLayout DEF TranslationSound
  <2>3. ObjectsInOrder' /\ CopiesInOrder' /\ ParentsFirst'
    BY <1>1, <2>1, SameLayout
       DEF TranslationSound, ObjectsInOrder, CopiesInOrder, ParentsFirst, InArea, binder_get_object
  <2>4. Chain'
    BY <1>1, <2>1 DEF TranslationSound, Chain
  <2>5. pc' = "walk" => CurrentSound'
    BY <1>1, <2>1, SameLayout
       DEF TranslationSound, CurrentSound, InArea, binder_get_object, binder_validate_ptr, num_valid
  <2>. QED BY <2>2, <2>3, <2>4, <2>5 DEF TranslationSound
<1>. QED BY <1>1, <1>3, <1>4, <1>5, <1>6 DEF Inv, ObjectsSound, Translating

LEMMA NextInv ==
  ASSUME ObjectsAssumption, Inv, [Next]_vars
  PROVE  Inv'
<1>1. CASE Start
  BY <1>1, StartStep
<1>2. CASE StartFails \/ SendFails \/ Undelivered \/ WalkFails
  BY <1>2, FailStep DEF StartFails, SendFails, Undelivered, WalkFails
<1>3. ASSUME NEW o \in Sent, TranslateFlat(o) PROVE Inv'
  BY <1>3, FlatStep
<1>4. ASSUME NEW o \in Sent, TranslateFd(o) PROVE Inv'
  BY <1>4, FdStep
<1>5. ASSUME NEW o \in Sent, TranslatePtr(o) PROVE Inv'
  BY <1>5, PtrStep
<1>6. ASSUME NEW o \in Sent, TakePtr(o) PROVE Inv'
  BY <1>6, TakePtrStep
<1>7. ASSUME NEW o \in Sent, TakeFda(o) PROVE Inv'
  BY <1>7, TakeFdaStep
<1>8. ASSUME NEW o \in Sent, ObjectFails(o) PROVE Inv'
  BY <1>8, FailStep DEF ObjectFails, Next_object
<1>9. CASE WalkUp
  BY <1>9, WalkUpStep
<1>10. CASE FixupParent
  BY <1>10, FixupParentStep
<1>11. CASE TranslateFdArray
  BY <1>11, FdArrayStep
<1>12. CASE Send \/ Deliver \/ DeliverFails \/ Free
  BY <1>12, SentStep
<1>13. CASE UNCHANGED vars
  BY <1>13, StutterStep
<1>. QED BY <1>1, <1>2, <1>3, <1>4, <1>5, <1>6, <1>7, <1>8, <1>9, <1>10, <1>11, <1>12,
   <1>13 DEF Next

\* The translation of a payload is sound, whatever sizes, offsets and parents
\* the sender gives: binder_validate_fixup looks at the last object and its
\* ancestors only, and that suffices for no word to be fixed up twice and every
\* fixup to lie in a descriptor object or in one copied buffer; the copies stay
\* before the security context, and every file taken is on the list, with the
\* target or put.
THEOREM ObjectsCorrect ==
  ASSUME ObjectsAssumption
  PROVE  Spec => []ObjectsSound
<1>1. Init => Inv
  BY InitInv
<1>2. Inv /\ [Next]_vars => Inv'
  BY NextInv
<1>3. Inv => ObjectsSound
  BY DEF Inv
<1>. QED BY <1>1, <1>2, <1>3, PTL DEF Spec
=============================================================================
