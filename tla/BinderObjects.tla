--------------------------- MODULE BinderObjects ---------------------------
(***************************************************************************)
(* The objects of one payload: binder_transaction walks the offsets array, *)
(* checks each object and translates it, copies the buffers that pointer   *)
(* objects name into the scatter-gather area behind the offsets, writes    *)
(* into a parent buffer the address of its child, and lists the words that *)
(* will hold file descriptors; the target installs those, and closes the   *)
(* ones of arrays when it frees the buffer.                                *)
(*                                                                         *)
(* The layout is in bytes from the start of the target's buffer:           *)
(*   data | offsets, 8 bytes each | copied buffers | security context      *)
(* What a flat object turns into is BinderNodeRef's.                       *)
(***************************************************************************)
EXTENDS Integers, Sequences

CONSTANTS
  Headers,  (* what senders pass: the sizes in binder_transaction_data_sg  *)
  Sent,     (* objects senders put in a payload                            *)
  SizeMax   (* largest size_t                                              *)

Types == {"flat", "FD", "PTR", "FDA", "unknown"}
Header == [data_size : Nat, offsets_size : Nat, extra_buffers_size : Nat, secctx_sz : Nat]
\* buffer is an offset here, from user_data in the code.
Object == [type : Types, off : Nat, has_parent : BOOLEAN, parent : Nat,
           parent_offset : Nat, length : Nat, num_fds : Nat, buffer : Nat]
ObjectsAssumption == /\ Headers \subseteq Header
                     /\ Sent \subseteq Object
                     /\ SizeMax \in Nat

VARIABLES
  pc,          (* header, objects, walk, sent, delivered, freed;           *)
               (* failed, refused                                          *)
  tr,          (* the header                                               *)
  objs,        (* objects translated, in the order of the offsets array    *)
  cur,         (* a PTR or FDA whose parent is being validated             *)
  walk,        (* binder_validate_fixup's last_obj_offset, last_min_offset *)
  off_min, sg_buf_offset, last_fixup_obj_off, last_fixup_min_off,
  fixups,      (* words of the buffer written, or to be, for the target    *)
  held,        (* where a fixup record on t->fd_fixups holds a file        *)
  installed,   (* where the target got a descriptor it has not closed      *)
  stray        (* words closed on release that held no such descriptor     *)

limits == <<off_min, sg_buf_offset, last_fixup_obj_off, last_fixup_min_off>>
files == <<held, installed, stray>>
vars == <<pc, tr, objs, cur, walk, limits, fixups, files>>

\* Arithmetic of size_t, and of ALIGN(x, 8).
Wrap(x) == IF x \in 0..SizeMax THEN x ELSE x % (SizeMax + 1)
Align8(x) == 8 * ((x + 7) \div 8)

POINTER == 8
FD_WORD == 4
ObjectSize(type) ==
  IF type \in {"flat", "FD"} THEN 24
  ELSE IF type = "PTR" THEN 40 ELSE IF type = "FDA" THEN 32 ELSE 0

off_start_offset == Align8(tr.data_size)
sg_start == Align8(off_start_offset + tr.offsets_size)
extra == tr.extra_buffers_size + Align8(tr.secctx_sz)
sg_buf_end_offset == sg_start + extra - Align8(tr.secctx_sz)
buffer_size == off_start_offset + Align8(tr.offsets_size) + Align8(extra)
SecctxOffset == buffer_size - Align8(tr.secctx_sz)

\* check_buffer, for a buffer that is being made.
Accessible(at, size) == size <= buffer_size /\ at <= buffer_size - size /\ at % 4 = 0

NoObject == [type |-> "unknown", off |-> 0, has_parent |-> FALSE, parent |-> 0,
             parent_offset |-> 0, length |-> 0, num_fds |-> 0, buffer |-> 0]
NoWalk == [obj |-> 0, min |-> 0]

Init ==
  /\ pc = "header" /\ tr \in Headers
  /\ objs = <<>> /\ cur = NoObject /\ walk = NoWalk
  /\ off_min = 0 /\ sg_buf_offset = 0
  /\ last_fixup_obj_off = 0 /\ last_fixup_min_off = 0
  /\ fixups = {} /\ held = {} /\ installed = {} /\ stray = {}

\* The sizes add up without overflow (here and in binder_alloc_new_buf), and the
\* offsets and the extra buffers are whole words.
HeaderFits == extra <= SizeMax /\ buffer_size <= SizeMax
HeaderValid == HeaderFits /\ tr.offsets_size % 8 = 0 /\ extra % 8 = 0

Start ==
  /\ pc = "header" /\ HeaderValid
  /\ pc' = "objects"
  /\ sg_buf_offset' = sg_start
  /\ UNCHANGED <<tr, objs, cur, walk, off_min, last_fixup_obj_off,
                 last_fixup_min_off, fixups, files>>

\* The end of a transaction that is not sent: binder_free_txn_fixups, and the
\* release of the buffer in the sender, which closes no descriptor.
Fail ==
  /\ pc' = "failed"
  /\ held' = {}
  /\ cur' = NoObject /\ walk' = NoWalk
  /\ UNCHANGED <<tr, objs, limits, fixups, installed, stray>>

\* Sizes, or a fault when the data or the offsets are copied.
StartFails == pc = "header" /\ Fail

Count == tr.offsets_size \div 8
num_valid == Len(objs)

\* A whole object of a known type inside the data: binder_get_object.
binder_get_object(o) ==
  /\ o.type # "unknown" /\ o.off % 4 = 0
  /\ o.off + ObjectSize(o.type) <= tr.data_size

\* The object at the next entry of the offsets array.
Next_object(o) == pc = "objects" /\ num_valid < Count /\ o \in Sent
Valid(o) == binder_get_object(o) /\ o.off >= off_min
Translated(o) == objs' = Append(objs, o)
Passed(o) == off_min' = o.off + ObjectSize(o.type)

\* binder_translate_binder and binder_translate_handle.
TranslateFlat(o) ==
  /\ Next_object(o) /\ Valid(o) /\ o.type = "flat"
  /\ Translated(o) /\ Passed(o)
  /\ UNCHANGED <<pc, tr, cur, walk, sg_buf_offset, last_fixup_obj_off,
                 last_fixup_min_off, fixups, files>>

FdFixup(o) == [kind |-> "fd", child |-> o.off, obj |-> o.off, rel |-> 8, at |-> o.off + 8, size |-> FD_WORD]
\* A descriptor in the data. It is the word at offset 8 of binder_fd_object.
TranslateFd(o) ==
  /\ Next_object(o) /\ Valid(o) /\ o.type = "FD"
  /\ fixups' = fixups \cup {FdFixup(o)}
  /\ held' = held \cup {FdFixup(o).at}
  /\ Translated(o) /\ Passed(o)
  /\ UNCHANGED <<pc, tr, cur, walk, sg_buf_offset, last_fixup_obj_off,
                 last_fixup_min_off, installed, stray>>

binder_validate_ptr(index) == index < num_valid /\ objs[index + 1].type = "PTR"

\* The first lines of binder_validate_fixup; its loop follows.
BeginWalk(o) ==
  /\ binder_validate_ptr(o.parent) /\ last_fixup_obj_off # 0
  /\ pc' = "walk"
  /\ cur' = o
  /\ walk' = [obj |-> last_fixup_obj_off, min |-> last_fixup_min_off]

TakeFda(o) ==
  /\ Next_object(o) /\ Valid(o) /\ o.type = "FDA"
  /\ BeginWalk(o) /\ Passed(o)
  /\ UNCHANGED <<tr, objs, sg_buf_offset, last_fixup_obj_off,
                 last_fixup_min_off, fixups, files>>

buf_left == Wrap(sg_buf_end_offset - sg_buf_offset)
\* The buffer is copied behind the ones before it, and the object points there.
Copied(o) ==
  /\ o.length <= buf_left /\ Accessible(sg_buf_offset, o.length)
  /\ sg_buf_offset' = sg_buf_offset + Align8(o.length)
Placed(o) == [o EXCEPT !.buffer = sg_buf_offset]

\* A pointer object with no parent to fix up.
TranslatePtr(o) ==
  /\ Next_object(o) /\ Valid(o) /\ o.type = "PTR" /\ ~o.has_parent
  /\ Copied(o) /\ Translated(Placed(o)) /\ Passed(o)
  /\ last_fixup_obj_off' = o.off /\ last_fixup_min_off' = 0
  /\ UNCHANGED <<pc, tr, cur, walk, fixups, files>>

TakePtr(o) ==
  /\ Next_object(o) /\ Valid(o) /\ o.type = "PTR" /\ o.has_parent
  /\ Copied(o) /\ BeginWalk(Placed(o)) /\ Passed(o)
  /\ UNCHANGED <<tr, objs, last_fixup_obj_off, last_fixup_min_off, fixups, files>>

Parent == objs[cur.parent + 1]
\* The object at the offset the walk has reached, with a parent to go on to.
Step(o) == o.off = walk.obj /\ o.type = "PTR" /\ o.has_parent

\* One turn of binder_validate_fixup's loop.
WalkUp ==
  /\ pc = "walk" /\ walk.obj # Parent.off
  /\ \E i \in DOMAIN objs :
       /\ Step(objs[i])
       /\ walk' = [obj |-> objs[objs[i].parent + 1].off,
                   min |-> objs[i].parent_offset + POINTER]
  /\ UNCHANGED <<pc, tr, objs, cur, limits, fixups, files>>

\* Mutant: a fixup need not come behind those already made in its buffer.
WalkEnds_AnyOffset == walk.obj = Parent.off

WalkEnds == walk.obj = Parent.off /\ cur.parent_offset >= walk.min

\* A word of the parent that is written for the child, cur.
Fixup(kind, offset, size) ==
  [kind |-> kind, child |-> cur.off, obj |-> Parent.off, rel |-> offset,
   at |-> Parent.buffer + offset, size |-> size]
PointerFixup == Fixup("ptr", cur.parent_offset, POINTER)
PointerFits ==
  /\ Parent.length >= POINTER /\ cur.parent_offset <= Parent.length - POINTER
  /\ Accessible(PointerFixup.at, POINTER)

Done ==
  /\ pc' = "objects" /\ Translated(cur)
  /\ cur' = NoObject /\ walk' = NoWalk

\* The rest of binder_fixup_parent, and of the case of pointer objects.
FixupParent ==
  /\ pc = "walk" /\ cur.type = "PTR" /\ WalkEnds /\ PointerFits
  /\ fixups' = fixups \cup {PointerFixup}
  /\ last_fixup_obj_off' = cur.off /\ last_fixup_min_off' = 0
  /\ Done
  /\ UNCHANGED <<tr, off_min, sg_buf_offset, files>>

fd_buf_size == Wrap(FD_WORD * cur.num_fds)
ArrayFixups == {Fixup("array", cur.parent_offset + FD_WORD * k, FD_WORD) : k \in 0..(cur.num_fds - 1)}
ArrayFits ==
  /\ cur.num_fds < SizeMax \div FD_WORD
  /\ fd_buf_size <= Parent.length /\ cur.parent_offset <= Parent.length - fd_buf_size
  /\ (Parent.buffer + cur.parent_offset) % 4 = 0
\* binder_translate_fd_array, every descriptor of it accepted.
TranslateFdArray ==
  /\ pc = "walk" /\ cur.type = "FDA" /\ WalkEnds /\ ArrayFits
  /\ \A f \in ArrayFixups : Accessible(f.at, f.size)
  /\ fixups' = fixups \cup ArrayFixups
  /\ held' = held \cup {f.at : f \in ArrayFixups}
  /\ last_fixup_obj_off' = Parent.off
  /\ last_fixup_min_off' = cur.parent_offset + FD_WORD * cur.num_fds
  /\ Done
  /\ UNCHANGED <<tr, off_min, sg_buf_offset, installed, stray>>

\* What may fail although the object is right: memory, permissions, a
\* descriptor that is not open or not accepted, a fault in a copy.
MayFail(o) == o.type \in {"flat", "FD"} \/ (o.type = "PTR" /\ o.length > 0)
ObjectFails(o) ==
  /\ Next_object(o)
  /\ \/ MayFail(o) \/ ~Valid(o)
     \/ o.type = "PTR" /\ (o.length > buf_left \/ ~Accessible(sg_buf_offset, o.length))
     \/ /\ o.type = "FDA" \/ (o.type = "PTR" /\ o.has_parent)
        /\ ~binder_validate_ptr(o.parent) \/ last_fixup_obj_off = 0
  /\ Fail

WalkFails ==
  /\ pc = "walk"
  /\ \/ walk.obj # Parent.off /\ ~\E i \in DOMAIN objs : Step(objs[i])
     \/ walk.obj = Parent.off /\ ~WalkEnds
     \/ cur.type = "PTR" /\ walk.obj = Parent.off /\ ~PointerFits
     \/ cur.type = "FDA" /\ walk.obj = Parent.off /\ (~ArrayFits \/ cur.num_fds > 0)
  /\ Fail

\* The transaction is queued at the target, or the target died (err_dead_...).
Send ==
  /\ pc = "objects" /\ num_valid = Count
  /\ pc' = "sent"
  /\ UNCHANGED <<tr, objs, cur, walk, limits, fixups, files>>
SendFails == pc = "objects" /\ num_valid = Count /\ Fail

\* The target dies before a thread of it reads the transaction.
Undelivered == pc = "sent" /\ Fail

\* binder_apply_fd_fixups in the thread that reads the transaction.
Deliver ==
  /\ pc = "sent"
  /\ pc' = "delivered"
  /\ installed' = held /\ held' = {}
  /\ UNCHANGED <<tr, objs, cur, walk, limits, fixups, stray>>

\* The words binder_transaction_buffer_release closes: those of arrays.
ArrayWords == {f.at : f \in {g \in fixups : g.kind = "array"}}

\* What may be open after words are closed: one for which there is no memory
\* stays open.
binder_deferred_fd_close(open, words) == {rest \in SUBSET open : open \ words \subseteq rest}

\* No descriptor left for one of them: those installed are closed, the other
\* files are put, and the buffer is released as one that was delivered.
DeliverFails ==
  /\ pc = "sent"
  /\ pc' = "refused"
  /\ \E done \in SUBSET held \ {held} :
       installed' \in binder_deferred_fd_close(done, done)
  /\ held' = {}
  /\ stray' = ArrayWords
  /\ UNCHANGED <<tr, objs, cur, walk, limits, fixups>>

\* BC_FREE_BUFFER.
Free ==
  /\ pc = "delivered"
  /\ pc' = "freed"
  /\ installed' \in binder_deferred_fd_close(installed, ArrayWords)
  /\ stray' = ArrayWords \ installed
  /\ UNCHANGED <<tr, objs, cur, walk, limits, fixups, held>>

Next ==
  \/ Start \/ StartFails
  \/ \E o \in Sent : \/ TranslateFlat(o) \/ TranslateFd(o) \/ TranslatePtr(o)
                     \/ TakePtr(o) \/ TakeFda(o) \/ ObjectFails(o)
  \/ WalkUp \/ FixupParent \/ TranslateFdArray \/ WalkFails
  \/ Send \/ SendFails \/ Undelivered \/ Deliver \/ DeliverFails \/ Free
Spec == Init /\ [][Next]_vars

(***************************************************************************)
(* Properties                                                              *)
(***************************************************************************)
FixupType == [kind : {"ptr", "fd", "array"}, child : Nat, obj : Nat, rel : Nat, at : Nat, size : Nat]
TypeOK ==
  /\ pc \in {"header", "objects", "walk", "sent", "delivered", "failed", "refused", "freed"}
  /\ tr \in Header /\ objs \in Seq(Object) /\ cur \in Object
  /\ walk \in [obj : Nat, min : Nat]
  /\ off_min \in Nat /\ sg_buf_offset \in Nat
  /\ last_fixup_obj_off \in Nat /\ last_fixup_min_off \in Nat
  /\ fixups \subseteq FixupType
  /\ held \subseteq Nat /\ installed \subseteq Nat /\ stray \subseteq Nat

Apart(f, g) == f.at + f.size <= g.at \/ g.at + g.size <= f.at
\* No word is fixed up twice: what the driver wrote for one object, the address
\* of a copied buffer or a descriptor of the target, is never overwritten for
\* another, whatever tree of parents the sender describes.
FixupsApart == \A f, g \in fixups : f = g \/ Apart(f, g)

\* The fixup is the word of a descriptor object, or in a copied buffer.
Within(f, o) ==
  \/ o.type = "FD" /\ f = FdFixup(o)
  \/ /\ o.type = "PTR" /\ f.obj = o.off /\ f.kind # "fd"
     /\ f.at = o.buffer + f.rel /\ f.rel + f.size <= o.length

\* Every fixup is in a descriptor object or inside one buffer that was copied,
\* so none can reach the offsets and pointer objects, from which the driver
\* reads the parents again, or the security context; and the target, which
\* gives up a descriptor it cannot write, can write it.
FixupsInside ==
  \A f \in fixups : Accessible(f.at, f.size) /\ \E i \in DOMAIN objs : Within(f, objs[i])

\* The copies fill the space the sender asked for and no more: the room left
\* never wraps below 0, and the security context behind it is kept.
CopiesFit ==
  pc \in {"objects", "walk", "sent", "delivered"} =>
    /\ \A i \in DOMAIN objs : objs[i].type = "PTR" =>
         sg_start <= objs[i].buffer /\ objs[i].buffer + objs[i].length <= sg_buf_offset
    /\ sg_start <= sg_buf_offset /\ sg_buf_offset <= sg_buf_end_offset
    /\ sg_buf_end_offset <= SecctxOffset

\* The words that hold a descriptor, or will.
FdWords == {f.at : f \in {g \in fixups : g.kind # "ptr"}}
\* Every file a transaction took is in one place: on its list until it is
\* delivered, then a descriptor of the target; none is held when it failed, and
\* the target keeps the descriptors in the data when it frees the buffer.
FilesKept ==
  /\ pc \in {"header", "objects", "walk", "sent"} => held = FdWords /\ installed = {}
  /\ pc = "delivered" => held = {} /\ installed = FdWords
  /\ pc = "failed" => held = {} /\ installed = {}
  /\ pc = "refused" => held = {}
  /\ pc = "freed" => held = {} /\ FdWords \ ArrayWords \subseteq installed

\* A release after a delivery closes descriptors that the delivery installed.
ClosesOwn == pc # "refused" => stray = {}

\* The translation of a payload keeps its fixups apart and inside the copies,
\* and loses no file.
ObjectsSound == TypeOK /\ FixupsApart /\ FixupsInside /\ CopiesFit /\ FilesKept /\ ClosesOwn
=============================================================================
