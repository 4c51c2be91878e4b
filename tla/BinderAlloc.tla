----------------------------- MODULE BinderAlloc -----------------------------
(***************************************************************************)
(* The binder buffer allocator, binder_alloc.c: one process's mapped area, *)
(* cut into buffers.                                                       *)
(*                                                                         *)
(* Buffers are named by the offset of user_data in the area.  The list     *)
(* alloc->buffers is nxt/prv; its head is the address BufferSize, one past *)
(* the area, so that nxt[b] - b is binder_alloc_buffer_size for the last   *)
(* buffer too.  The red-black tree free_buffers is the sequence of its     *)
(* nodes in order: what a descent can reach depends only on that order, so *)
(* a search or an insertion is a choice over the positions some shape of   *)
(* the tree could lead to.  The tree allocated_buffers is the set of the   *)
(* addresses whose st is "busy".                                           *)
(*                                                                         *)
(* Every operation holds alloc->mutex from end to end and is one action.   *)
(* Only binder_alloc_vma_close does not take the mutex; an allocation that *)
(* reads vma before it and finds its pages after it either fails without a *)
(* trace or could have run first.                                          *)
(***************************************************************************)
EXTENDS Integers, Sequences, SequencesExt

CONSTANTS
  WordSize,  (* sizeof of a pointer                                       *)
  PageSize,  (* PAGE_SIZE                                                  *)
  NPages,    (* pages of the mapped area                                   *)
  HdrSize,   (* sizeof(struct binder_buffer)                               *)
  SizeMod,   (* 2^w, w the width of size_t                                 *)
  Requests,  (* the (data, offsets, extra) sizes callers ask for           *)
  Threads    (* threads of the process                                     *)

ASSUME PageAssumption == PageSize \in Nat \ {0} /\ NPages \in Nat \ {0}
ASSUME WordAssumption == WordSize \in Nat \ {0} /\ WordSize <= PageSize
ASSUME HdrAssumption == HdrSize \in Nat \ {0}
ASSUME ModAssumption == /\ SizeMod \in Nat \ {0}
                        /\ PageSize * NPages < SizeMod
                        /\ SizeMod % WordSize = 0
ASSUME RequestAssumption ==
  Requests \subseteq [data : 0 .. SizeMod - 1, offsets : 0 .. SizeMod - 1,
                      extra : 0 .. SizeMod - 1]

BufferSize == PageSize * NPages
Addr == 0 .. BufferSize - 1
ListHead == BufferSize
Pages == 0 .. NPages - 1

NoAddr == -1
ZeroSizes == [data |-> 0, offsets |-> 0, extra |-> 0]

VARIABLES
  area,      (* life of the struct binder_alloc                            *)
  vma,       (* alloc->vma is not NULL                                     *)
  st,        (* is there a buffer at this address, and buffer->free        *)
  nxt, prv,  (* alloc->buffers                                             *)
  buf,       (* the other fields of an allocated buffer                    *)
  freeTree,  (* alloc->free_buffers, in order                              *)
  pages,     (* alloc->pages: page_ptr, and whether it is on the LRU       *)
  free_async_space,
  freeing,   (* the buffer each thread is in the middle of BC_FREE_BUFFER  *)
  bug        (* a BUG_ON or a WARN_ON of the allocator has fired           *)

vars == <<area, vma, st, nxt, prv, buf, freeTree, pages, free_async_space,
          freeing, bug>>
listVars == <<st, nxt, prv, freeTree>>

Areas == {"init", "reserved", "mapped", "releasing", "released"}
\* delivered: binder_thread_read has handed the buffer to user space.
Buffer == [req : Requests \cup {ZeroSizes}, async : BOOLEAN,
           allow_user_free : BOOLEAN, delivered : BOOLEAN]
NoBuffer == [req |-> ZeroSizes, async |-> FALSE, allow_user_free |-> FALSE,
             delivered |-> FALSE]
-----------------------------------------------------------------------------
(* Sizes and pages.                                                        *)

\* ALIGN(n, WordSize) on size_t.
Align(n) == (((n + WordSize - 1) % SizeMod) \div WordSize) * WordSize

DataOffsetsSize(r) == (Align(r.data) + Align(r.offsets)) % SizeMod
AlignedSize(r) == (DataOffsetsSize(r) + Align(r.extra)) % SizeMod

\* The two overflow checks of binder_alloc_new_buf_locked.
ValidSizes(r) ==
  /\ DataOffsetsSize(r) >= r.data
  /\ DataOffsetsSize(r) >= r.offsets
  /\ AlignedSize(r) >= DataOffsetsSize(r)
  /\ AlignedSize(r) >= r.extra

\* "Pad 0-size buffers so they get assigned unique addresses".
PaddedSize(r) == IF AlignedSize(r) > WordSize THEN AlignedSize(r) ELSE WordSize

\* What an asynchronous buffer takes from free_async_space and gives back.
AsyncCharge(r) == PaddedSize(r) + HdrSize
\* Mutant: the struct is charged and not credited.
AsyncCredit_NoHdr(r) == AlignedSize(r)
AsyncCredit(r) == AlignedSize(r) + HdrSize

SizeIn(next, b) == next[b] - b
binder_alloc_buffer_size(b) == SizeIn(nxt, b)

PageOf(a) == a \div PageSize
PageAlign(a) == PageOf(a + PageSize - 1)

\* Mutant: the page the buffer ends in is left out.
PagesToUse_RoundDown(b, size) == PageAlign(b) .. PageOf(b + size) - 1

\* The pages binder_alloc_new_buf_locked asks for when it cuts size bytes
\* off the free buffer b, as page numbers.
PagesToUse(b, size) ==
  LET has_page == PageOf(nxt[b])
      end_page == PageAlign(b + size)
  IN PageAlign(b) .. (IF end_page > has_page THEN has_page ELSE end_page) - 1

\* The pages that lie inside the buffer b.
PagesInside(b) == PageAlign(b) .. PageOf(nxt[b]) - 1

\* binder_delete_free_buffer frees the page b starts in when neither the
\* buffer before prev nor the one after b has a byte of it.
ReleasesPage(prev, b, next) ==
  /\ PageOf(prev - 1) # PageOf(b)
  /\ next # ListHead => PageOf(next) # PageOf(b)
  /\ b % PageSize # 0
-----------------------------------------------------------------------------
(* The tree of free buffers.                                               *)

\* binder_insert_free_buffer: the new node ends up between a node it is not
\* smaller than and a node it is smaller than.
InsertFree(tree, b, next) ==
  {InsertAt(tree, k, b) :
     k \in {k \in 1 .. Len(tree) + 1 :
              /\ k > 1 => SizeIn(next, b) >= SizeIn(next, tree[k - 1])
              /\ k <= Len(tree) => SizeIn(next, b) < SizeIn(next, tree[k])}}

Erase(tree, b) == RemoveAt(tree, CHOOSE i \in 1 .. Len(tree) : tree[i] = b)

\* The buffers the search for size may end with.
BestFits(size) ==
  {freeTree[i] : i \in {i \in 1 .. Len(freeTree) :
     \/ SizeIn(nxt, freeTree[i]) = size
     \/ /\ SizeIn(nxt, freeTree[i]) > size
        /\ i > 1 => SizeIn(nxt, freeTree[i - 1]) < size}}
-----------------------------------------------------------------------------
(* The page side: binder_update_page_range.                                *)

\* Taking pages for a buffer; a page that is there must be on the LRU.
TakePages(pg, P) == [p \in Pages |-> IF p \in P THEN "active" ELSE pg[p]]
\* Giving pages back to the LRU.
DropPages(pg, P) == [p \in Pages |-> IF p \in P THEN "lru" ELSE pg[p]]

Init ==
  /\ area = "init"
  /\ vma = FALSE
  /\ st = [a \in Addr |-> "absent"]
  /\ nxt = [a \in Addr |-> ListHead]
  /\ prv = [a \in Addr |-> ListHead]
  /\ buf = [a \in Addr |-> NoBuffer]
  /\ freeTree = <<>>
  /\ pages = [p \in Pages |-> "none"]
  /\ free_async_space = 0
  /\ freeing = [t \in Threads |-> NoAddr]
  /\ bug = FALSE
-----------------------------------------------------------------------------
(* Mapping, unmapping, shrinking.                                          *)

\* binder_alloc_mmap_handler up to the release of binder_alloc_mmap_lock: a
\* second mmap finds buffer_size set and gets -EBUSY.
MmapReserve ==
  /\ area = "init"
  /\ area' = "reserved"
  /\ UNCHANGED <<vma, listVars, buf, pages, free_async_space, freeing, bug>>

\* The rest of it: one free buffer over the whole area, then set_vma.
MmapFinish ==
  /\ area = "reserved"
  /\ area' = "mapped"
  /\ vma' = TRUE
  /\ st' = [st EXCEPT ![0] = "free"]
  /\ freeTree' = <<0>>
  /\ free_async_space' = BufferSize \div 2
  /\ UNCHANGED <<nxt, prv, buf, pages, freeing, bug>>

\* An allocation in it fails: buffer_size goes back to 0.
MmapFail ==
  /\ area = "reserved"
  /\ area' = "init"
  /\ UNCHANGED <<vma, listVars, buf, pages, free_async_space, freeing, bug>>

\* binder_alloc_vma_close, from munmap or exit.
VmaClose ==
  /\ area = "mapped" /\ vma
  /\ vma' = FALSE
  /\ UNCHANGED <<area, listVars, buf, pages, free_async_space, freeing, bug>>

\* binder_alloc_free_page, the shrinker's callback on a page of the LRU.
ShrinkPage(p) ==
  /\ area = "mapped"
  /\ pages[p] = "lru"
  /\ pages' = [pages EXCEPT ![p] = "none"]
  /\ UNCHANGED <<area, vma, listVars, buf, free_async_space, freeing, bug>>
-----------------------------------------------------------------------------
(* binder_alloc_new_buf.                                                   *)

\* list_add of the rest of b behind b.
ListAddNxt(b, rest) == [nxt EXCEPT ![b] = rest, ![rest] = nxt[b]]
\* Mutant: the buffer after b keeps its link to b.
ListAddPrv_KeepNext(b, rest) == [prv EXCEPT ![rest] = b]
ListAddPrv(b, rest) ==
  [a \in Addr |-> IF a = rest THEN b ELSE IF a = nxt[b] THEN rest ELSE prv[a]]

\* Every check before the search passes, and the search ends with b.
CanAllocate(r, async, b) ==
  /\ area = "mapped" /\ vma
  /\ ValidSizes(r)
  /\ async => free_async_space >= (AlignedSize(r) + HdrSize) % SizeMod
  /\ b \in BestFits(PaddedSize(r))

\* Success: the pages are taken, the rest of b becomes a free buffer while
\* b, now shorter, is still in the tree; then b leaves the tree.
NewBuf(r, async, b) ==
  LET size == PaddedSize(r)
      rest == b + size
      split == binder_alloc_buffer_size(b) # size
      use == PagesToUse(b, size)
  IN /\ CanAllocate(r, async, b)
     /\ pages' = TakePages(pages, use)
     /\ bug' = (bug \/ \E p \in use : pages[p] = "active")
     /\ IF split
        THEN /\ nxt' = ListAddNxt(b, rest)
             /\ prv' = ListAddPrv(b, rest)
             /\ st' = [st EXCEPT ![b] = "busy", ![rest] = "free"]
             /\ \E t \in InsertFree(freeTree, rest, ListAddNxt(b, rest)) :
                  freeTree' = Erase(t, b)
        ELSE /\ st' = [st EXCEPT ![b] = "busy"]
             /\ freeTree' = Erase(freeTree, b)
             /\ UNCHANGED <<nxt, prv>>
     /\ buf' = [buf EXCEPT ![b] =
                  [req |-> r, async |-> async, allow_user_free |-> FALSE,
                   delivered |-> FALSE]]
     /\ free_async_space' = IF async
                            THEN (free_async_space - AsyncCharge(r)) % SizeMod
                            ELSE free_async_space
     /\ UNCHANGED <<area, vma, freeing>>

\* alloc_page or vm_insert_page fails at page k: the pages before it, new or
\* not, are put on the LRU.
NewBufPageFails(r, async, b, k) ==
  LET use == PagesToUse(b, PaddedSize(r))
      before == {p \in use : p < k}
  IN /\ CanAllocate(r, async, b)
     /\ k \in use /\ pages[k] = "none"
     /\ pages' = DropPages(pages, before)
     /\ bug' = (bug \/ \E p \in before : pages[p] = "active")
     /\ UNCHANGED <<area, vma, listVars, buf, free_async_space, freeing>>

\* The pages are there but the struct for the rest of b is not: they go back.
NewBufStructFails(r, async, b) ==
  LET size == PaddedSize(r)
      use == PagesToUse(b, size)
  IN /\ CanAllocate(r, async, b)
     /\ binder_alloc_buffer_size(b) # size
     /\ pages' = DropPages(pages, use)
     /\ bug' = (bug \/ \E p \in use : pages[p] = "active")
     /\ UNCHANGED <<area, vma, listVars, buf, free_async_space, freeing>>
-----------------------------------------------------------------------------
(* binder_free_buf_locked.                                                 *)

NextIsFree(b) == nxt[b] # ListHead /\ st[nxt[b]] = "free"
\* Mutant: the predecessor is never joined.
PrevIsFree_Never(b) == FALSE
PrevIsFree(b) == prv[b] # ListHead /\ st[prv[b]] = "free"

\* Where the free buffer that takes in b will start and end, and the buffers
\* binder_delete_free_buffer takes off the list for it.
JoinStart(b) == IF PrevIsFree(b) THEN prv[b] ELSE b
JoinEnd(b) == IF NextIsFree(b) THEN nxt[nxt[b]] ELSE nxt[b]
Joined(b) == {c \in Addr : \/ c = nxt[b] /\ NextIsFree(b)
                           \/ c = b /\ PrevIsFree(b)}

ListDelNxt(b) == [a \in Addr |-> IF a = JoinStart(b) THEN JoinEnd(b)
                                 ELSE IF a \in Joined(b) THEN ListHead ELSE nxt[a]]
ListDelPrv(b) == [a \in Addr |-> IF a = JoinEnd(b) THEN JoinStart(b)
                                 ELSE IF a \in Joined(b) THEN ListHead ELSE prv[a]]

\* rb_erase of the free neighbours.
EraseJoined(b) ==
  LET tree == IF NextIsFree(b) THEN Erase(freeTree, nxt[b]) ELSE freeTree
  IN IF PrevIsFree(b) THEN Erase(tree, prv[b]) ELSE tree

\* The pages given back for the successor's start and for b's own start.
NextPage(b) == IF NextIsFree(b) /\ ReleasesPage(b, nxt[b], nxt[nxt[b]])
               THEN {PageOf(nxt[b])} ELSE {}
OwnPage(b) == IF PrevIsFree(b) /\ ReleasesPage(prv[b], b, JoinEnd(b))
              THEN {PageOf(b)} ELSE {}
PagesToFree(b) == PagesInside(b) \cup NextPage(b) \cup OwnPage(b)

\* What fires a BUG_ON or WARN_ON when b is freed: b is not allocated, is too
\* small for its sizes, or a page goes to the LRU that is there already.
FreeBug(b) ==
  \/ st[b] # "busy"
  \/ AlignedSize(buf[b].req) > binder_alloc_buffer_size(b)
  \/ \E p \in PagesToFree(b) : pages[p] # "active"
  \/ PagesInside(b) \cap NextPage(b) # {}
  \/ (PagesInside(b) \cup NextPage(b)) \cap OwnPage(b) # {}

\* b is freed, then joined with a free successor, then with a free
\* predecessor.
FreeBufLocked(b) ==
  /\ bug' = (bug \/ FreeBug(b))
  /\ pages' = DropPages(pages, PagesToFree(b))
  /\ free_async_space' =
       IF buf[b].async
       THEN (free_async_space + AsyncCredit(buf[b].req)) % SizeMod
       ELSE free_async_space
  /\ st' = [a \in Addr |-> IF a = JoinStart(b) THEN "free"
                           ELSE IF a \in Joined(b) THEN "absent" ELSE st[a]]
  /\ nxt' = ListDelNxt(b)
  /\ prv' = ListDelPrv(b)
  /\ freeTree' \in InsertFree(EraseJoined(b), JoinStart(b), ListDelNxt(b))
  /\ buf' = [buf EXCEPT ![b] = NoBuffer]
-----------------------------------------------------------------------------
(* The callers in binder.c.                                                *)

\* binder_thread_read hands the buffer to user space.
Deliver(b) ==
  /\ area = "mapped"
  /\ st[b] = "busy" /\ ~buf[b].delivered
  /\ buf' = [buf EXCEPT ![b].delivered = TRUE, ![b].allow_user_free = TRUE]
  /\ UNCHANGED <<area, vma, listVars, pages, free_async_space, freeing, bug>>

\* binder_transaction's error path, and binder_thread_read's when the file
\* descriptors cannot be installed.
KernelFree(b) ==
  /\ area = "mapped"
  /\ st[b] = "busy" /\ ~buf[b].delivered
  /\ FreeBufLocked(b)
  /\ UNCHANGED <<area, vma, freeing>>

\* Mutant: allow_user_free is not taken away.
PrepareToFree_KeepFlag(t, b) ==
  /\ area = "mapped"
  /\ freeing[t] = NoAddr
  /\ st[b] = "busy" /\ buf[b].allow_user_free
  /\ freeing' = [freeing EXCEPT ![t] = b]
  /\ UNCHANGED <<area, vma, listVars, buf, pages, free_async_space, bug>>

\* BC_FREE_BUFFER, first half: binder_alloc_prepare_to_free finds the buffer
\* at the user's pointer and claims it.
PrepareToFree(t, b) ==
  /\ area = "mapped"
  /\ freeing[t] = NoAddr
  /\ st[b] = "busy" /\ buf[b].allow_user_free
  /\ buf' = [buf EXCEPT ![b].allow_user_free = FALSE]
  /\ freeing' = [freeing EXCEPT ![t] = b]
  /\ UNCHANGED <<area, vma, listVars, pages, free_async_space, bug>>

\* Second half, after binder_transaction_buffer_release: binder_alloc_free_buf.
UserFree(t) ==
  /\ area = "mapped"
  /\ freeing[t] # NoAddr
  /\ FreeBufLocked(freeing[t])
  /\ freeing' = [freeing EXCEPT ![t] = NoAddr]
  /\ UNCHANGED <<area, vma>>
-----------------------------------------------------------------------------
(* binder_alloc_deferred_release.  binder_free_proc runs it when the last  *)
(* thread is gone, so that no BC_FREE_BUFFER is under way, and after the   *)
(* exit of the process closed the vma.                                     *)

ReleaseStart ==
  /\ area = "mapped" /\ ~vma
  /\ \A t \in Threads : freeing[t] = NoAddr
  /\ area' = "releasing"
  /\ UNCHANGED <<vma, listVars, buf, pages, free_async_space, freeing, bug>>

\* One turn of its first loop: rb_first of the allocated buffers.
ReleaseBuffer(b) ==
  /\ area = "releasing"
  /\ st[b] = "busy"
  /\ \A c \in Addr : st[c] = "busy" => b <= c
  /\ FreeBufLocked(b)
  /\ UNCHANGED <<area, vma, freeing>>

\* The one buffer left is dropped with the pages.
ReleaseFinish ==
  /\ area = "releasing"
  /\ \A b \in Addr : st[b] # "busy"
  /\ area' = "released"
  /\ bug' = (bug \/ st[0] # "free" \/ nxt[0] # ListHead)
  /\ st' = [a \in Addr |-> "absent"]
  /\ nxt' = [a \in Addr |-> ListHead]
  /\ prv' = [a \in Addr |-> ListHead]
  /\ freeTree' = <<>>
  /\ pages' = [p \in Pages |-> "none"]
  /\ UNCHANGED <<vma, buf, free_async_space, freeing>>

\* binder_open zeroes a new struct: binder_alloc_init.
AllocInit ==
  /\ area = "released"
  /\ area' = "init"
  /\ free_async_space' = 0
  /\ UNCHANGED <<vma, listVars, buf, pages, freeing, bug>>
-----------------------------------------------------------------------------
Alloc == \E r \in Requests, async \in BOOLEAN, b \in Addr :
           \/ NewBuf(r, async, b)
           \/ \E k \in Pages : NewBufPageFails(r, async, b, k)
           \/ NewBufStructFails(r, async, b)

Next ==
  \/ MmapReserve \/ MmapFinish \/ MmapFail \/ VmaClose
  \/ \E p \in Pages : ShrinkPage(p)
  \/ Alloc
  \/ \E b \in Addr : Deliver(b) \/ KernelFree(b) \/ ReleaseBuffer(b)
  \/ \E t \in Threads : UserFree(t) \/ \E b \in Addr : PrepareToFree(t, b)
  \/ ReleaseStart \/ ReleaseFinish \/ AllocInit

Spec == Init /\ [][Next]_vars
-----------------------------------------------------------------------------
(* Properties.                                                             *)

\* The variables hold what their declarations say.
TypeOK ==
  /\ area \in Areas
  /\ vma \in BOOLEAN
  /\ st \in [Addr -> {"absent", "free", "busy"}]
  /\ nxt \in [Addr -> 0 .. ListHead]
  /\ prv \in [Addr -> 0 .. ListHead]
  /\ buf \in [Addr -> Buffer]
  /\ freeTree \in Seq(Addr)
  /\ pages \in [Pages -> {"none", "lru", "active"}]
  /\ free_async_space \in 0 .. SizeMod - 1
  /\ freeing \in [Threads -> Addr \cup {NoAddr}]
  /\ bug \in BOOLEAN
  /\ vma => area = "mapped"

\* No BUG_ON or WARN_ON of the allocator fires, whatever the order in which
\* threads allocate, free, claim, shrink, unmap and release: in particular
\* no page is put on the LRU twice or taken from it twice, and no thread
\* frees a buffer another thread has freed.
NoBug == ~bug

Present(b) == st[b] # "absent"
Mapped == area \in {"mapped", "releasing"}

\* The list starts at the start of the area, is linked both ways in address
\* order, and has no buffer inside another one: the buffers tile the area.
BuffersTile ==
  /\ Mapped => Present(0) /\ prv[0] = ListHead
  /\ \A b \in Addr : Present(b) =>
       /\ Mapped
       /\ nxt[b] > b
       /\ nxt[b] # ListHead => Present(nxt[b]) /\ prv[nxt[b]] = b
       /\ b # 0 => prv[b] \in Addr /\ Present(prv[b]) /\ nxt[prv[b]] = b
       /\ \A c \in Addr : Present(c) => ~(b < c /\ c < nxt[b])

\* The list of buffers, and the types of everything else.
ListSound == TypeOK /\ BuffersTile

\* Freeing joins a buffer with its free neighbours, so no two free buffers
\* are ever next to each other: all the room of a gap is in one buffer.
NoAdjacentFree ==
  \A b \in Addr : (st[b] = "free" /\ nxt[b] # ListHead) => st[nxt[b]] # "free"

\* The room a busy buffer has is the room its sizes need, from its creation
\* to its end, and it never shares a byte with another buffer.
BusyBuffersFit ==
  \A b \in Addr : st[b] = "busy" =>
    /\ buf[b].req.data + buf[b].req.offsets + buf[b].req.extra
         <= binder_alloc_buffer_size(b)
    /\ \A c \in Addr : (Present(c) /\ c # b) => \/ nxt[c] <= b
                                                 \/ nxt[b] <= c

\* The tree of free buffers holds each free buffer once and stays sorted by
\* their present sizes, although binder_alloc_new_buf_locked shortens a
\* buffer, and inserts another one, while it is in the tree.
FreeTreeSorted ==
  /\ {freeTree[i] : i \in 1 .. Len(freeTree)} = {b \in Addr : st[b] = "free"}
  /\ \A i, j \in 1 .. Len(freeTree) : i < j =>
       /\ freeTree[i] # freeTree[j]
       /\ SizeIn(nxt, freeTree[i]) <= SizeIn(nxt, freeTree[j])

\* The search finds a fit when there is one, and no other fit is closer.
BestFitFound ==
  area = "mapped" => \A r \in Requests : ValidSizes(r) =>
    LET fits == {b \in Addr : st[b] = "free" /\ SizeIn(nxt, b) >= PaddedSize(r)}
    IN /\ fits # {} => BestFits(PaddedSize(r)) # {}
       /\ \A b \in BestFits(PaddedSize(r)) :
            b \in fits /\ \A c \in fits : SizeIn(nxt, b) <= SizeIn(nxt, c)

\* A page is off the LRU exactly while an allocated buffer has a byte in it,
\* so the shrinker never takes a page away from a buffer in use, and memory
\* pressure can reclaim every other page.
PagesFollowBuffers ==
  \A p \in Pages :
    (pages[p] = "active") <=>
      \E b \in Addr : st[b] = "busy" /\ PageOf(b) <= p /\ p <= PageOf(nxt[b] - 1)

\* When no asynchronous buffer is left the whole asynchronous budget, half
\* the area, is available again.
AsyncConserved ==
  (Mapped /\ \A b \in Addr : st[b] = "busy" => ~buf[b].async)
    => free_async_space = BufferSize \div 2

\* A buffer a thread has claimed with BC_FREE_BUFFER stays allocated and out
\* of reach of every other thread until that thread frees it.
ClaimExclusive ==
  \A t \in Threads : freeing[t] # NoAddr =>
    /\ st[freeing[t]] = "busy"
    /\ ~buf[freeing[t]].allow_user_free
    /\ \A u \in Threads : freeing[u] = freeing[t] => u = t
-----------------------------------------------------------------------------
(* The promise to the callers.                                             *)

LeasePhase == IF area = "mapped" THEN "open" ELSE IF area = "releasing" THEN "closing" ELSE "closed"
LeaseSize == [b \in Addr |-> IF st[b] = "busy" THEN nxt[b] - b ELSE 0]
LeaseBy == [b \in Addr |-> IF st[b] # "busy" THEN "none"
                            ELSE IF buf[b].allow_user_free THEN "user"
                            ELSE IF buf[b].delivered THEN "freeing" ELSE "driver"]
Lease == INSTANCE BufferLease WITH Length <- BufferSize, phase <- LeasePhase,
                                   size <- LeaseSize, by <- LeaseBy

\* Splitting, joining, failing and releasing implement lending: seen from
\* outside a buffer is one range that passes from the driver to the user to
\* one thread that frees it, and its neighbours never notice.
LeaseKept == Lease!Spec

\* What the search for a buffer relies on and promises: the free tree is in
\* order, the best fit is found, the data fits although sizes wrap, and the
\* asynchronous budget is what no buffer uses.
AllocSound == FreeTreeSorted /\ BestFitFound /\ BusyBuffersFit /\ AsyncConserved

\* Pages are there under every buffer in use and given back with the last of
\* those that share them; no BUG_ON of the allocator fires on the way.
PagesSound == NoBug /\ PagesFollowBuffers
=============================================================================
