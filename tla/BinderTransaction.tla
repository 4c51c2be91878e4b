-------------------------- MODULE BinderTransaction --------------------------
(***************************************************************************)
(* Transactions of the binder driver, binder.c: calls, one-way calls and   *)
(* replies between threads of several processes, the transaction stacks    *)
(* that tie them together, and what is left of them when a thread or a     *)
(* process goes away.                                                      *)
(*                                                                         *)
(* A struct binder_transaction and the struct binder_buffer made for it    *)
(* have one name, the debug_id that binder_last_id hands out.  Every       *)
(* process has one node, named like the process, and a handle to every     *)
(* other node.                                                             *)
(*                                                                         *)
(* A step is what the code does under one hold of the inner lock; steps    *)
(* that touch only what no other thread reads are joined with the next.    *)
(* A thread that sleeps goes on as soon as it has work.                    *)
(***************************************************************************)
EXTENDS Integers, Sequences, FiniteSets, SequencesExt

CONSTANTS
  Procs, Threads,
  ProcOf,     (* the process of a thread                                   *)
  MaxTxns,    (* transactions made, calls and replies                      *)
  MaxTodo,    (* a thread with so much unread work does not write          *)
  Calls,      (* the <<thread, node, oneway>> user space may ask for       *)
  Faults,     (* what may go wrong: "alloc" (memory for a call), "reply"   *)
              (* (for a reply), "fd", "copy", and "user" for a thread that *)
              (* calls or replies when it should not                       *)
  Exits,      (* threads that may send BINDER_THREAD_EXIT                  *)
  Deaths,     (* processes that may end                                    *)
  NoThread, NoProc  (* NULL                                                *)

ASSUME ProcOfAssumption == ProcOf \in [Threads -> Procs]
ASSUME BoundAssumption == MaxTxns \in Nat \ {0} /\ MaxTodo \in Nat \ {0}
ASSUME ExitAssumption == Exits \subseteq Threads /\ Deaths \subseteq Procs
ASSUME NullAssumption == NoThread \notin Threads /\ NoProc \notin Procs
ASSUME ActorAssumption == IsFiniteSet(Threads) /\ Threads \cap Procs = {}
ASSUME CallAssumption ==
  /\ Calls \subseteq Threads \X Procs \X BOOLEAN
  /\ \A c \in Calls : ProcOf[c[1]] # c[2]

Txns == 1 .. MaxTxns
NoTxn == 0

VARIABLES
  txn,   (* struct binder_transaction                                      *)
  buf,   (* struct binder_buffer                                           *)
  thr,   (* struct binder_thread                                           *)
  proc,  (* struct binder_proc                                             *)
  node,  (* struct binder_node                                             *)
  pc,    (* where in the driver a thread is                                *)
  loc,   (* its local variables                                            *)
  sfr,   (* the transaction a thread, or the worker that releases a        *)
         (* process, is in binder_send_failed_reply with                   *)
  bug    (* a BUG_ON or WARN_ON has fired                                  *)

vars == <<txn, buf, thr, proc, node, pc, loc, sfr, bug>>

\* A name is unused, then a call or a reply, then freed for good.
\* buffer: t->buffer is not NULL.
Txn == [kind : {"unused", "sync", "oneway", "reply", "freed"}, buffer : BOOLEAN,
        from : Threads \cup {NoThread}, to_thread : Threads \cup {NoThread},
        to_proc : Procs \cup {NoProc}, from_parent : 0 .. MaxTxns,
        to_parent : 0 .. MaxTxns]
UnusedTxn == [kind |-> "unused", buffer |-> FALSE, from |-> NoThread,
              to_thread |-> NoThread, to_proc |-> NoProc,
              from_parent |-> NoTxn, to_parent |-> NoTxn]
FreedTxn == [UnusedTxn EXCEPT !.kind = "freed"]

\* st "kernel": allocated; "user": allow_user_free; owner: whose area;
\* node: target_node; transaction: buffer->transaction is not NULL.
Buf == [st : {"none", "kernel", "user"}, owner : Procs \cup {NoProc},
        node : Procs \cup {NoProc}, async : BOOLEAN, transaction : BOOLEAN]
NoBuf == [st |-> "none", owner |-> NoProc, node |-> NoProc, async |-> FALSE,
          transaction |-> FALSE]

Cmds == {"OK", "ERROR", "COMPLETE"}
Work == [type : {"txn", "complete", "return_error", "reply_error"},
         t : 0 .. MaxTxns]
Item(type) == [type |-> type, t |-> NoTxn]
TxnItem(t) == [type |-> "txn", t |-> t]

NewThread == [stack |-> NoTxn, todo |-> <<>>, process_todo |-> FALSE,
              return_error |-> "OK", reply_error |-> "OK",
              waiting |-> FALSE, is_dead |-> FALSE, tmp_ref |-> 0]
NewProc == [st |-> "open", todo |-> <<>>, is_dead |-> FALSE, tmp_ref |-> 0]
NewNode == [live |-> TRUE, has_async_transaction |-> FALSE, async_todo |-> <<>>]
NoLoc == [t |-> NoTxn, in_reply_to |-> NoTxn, target_thread |-> NoThread,
          target_proc |-> NoProc, wait_for_proc_work |-> FALSE, got |-> FALSE]

Init ==
  /\ txn = [t \in Txns |-> UnusedTxn]
  /\ buf = [t \in Txns |-> NoBuf]
  /\ thr = [th \in Threads |-> NewThread]
  /\ proc = [p \in Procs |-> NewProc]
  /\ node = [p \in Procs |-> NewNode]
  /\ pc = [th \in Threads |-> "user"]
  /\ loc = [th \in Threads |-> NoLoc]
  /\ sfr = [a \in Threads \cup Procs |-> NoTxn]
  /\ bug = FALSE
-----------------------------------------------------------------------------
(* Work lists and reference counts, on explicit states.                    *)

\* Mutant: process_todo is not set.
EnqueueThreadWork_NoFlag(T, th, w) == [T EXCEPT ![th].todo = Append(@, w)]

\* binder_enqueue_thread_work_ilocked.
EnqueueThreadWork(T, th, w) ==
  [T EXCEPT ![th].todo = Append(@, w), ![th].process_todo = TRUE]

\* binder_enqueue_deferred_thread_work_ilocked.
EnqueueDeferredThreadWork(T, th, w) == [T EXCEPT ![th].todo = Append(@, w)]

\* binder_dequeue_work of the TRANSACTION_COMPLETE the thread queued last.
DequeueComplete(T, th) ==
  LET todo == T[th].todo
      at == Max({i \in 1 .. Len(todo) : todo[i].type = "complete"})
  IN [T EXCEPT ![th].todo = RemoveAt(todo, at)]

\* The end of binder_transaction's error path.
ReturnError(T, th, cmd) ==
  EnqueueThreadWork([T EXCEPT ![th].return_error = cmd], th, Item("return_error"))

\* binder_available_for_proc_work_ilocked; every thread is a looper.
AvailableForProcWork(th) == thr[th].stack = NoTxn /\ thr[th].todo = <<>>

\* binder_has_work_ilocked.
HasWork(th) ==
  \/ thr[th].process_todo
  \/ loc[th].wait_for_proc_work /\ proc[ProcOf[th]].todo # <<>>

WaitingThreads(T, p) == {th \in Threads : ProcOf[th] = p /\ T[th].waiting}

\* binder_wakeup_proc_ilocked: a thread taken off waiting_threads, if any.
WakeupProc(T, p) ==
  IF WaitingThreads(T, p) = {} THEN {T}
  ELSE {[T EXCEPT ![th].waiting = FALSE] : th \in WaitingThreads(T, p)}

\* binder_thread_dec_tmpref frees the thread.
FreesThread(th) == th # NoThread /\ thr[th].is_dead /\ thr[th].tmp_ref = 1

\* binder_thread_dec_tmpref, with the binder_free_thread it may end in, and
\* then n times binder_proc_dec_tmpref.
DecTmpRefs(th, p, n) ==
  /\ thr' = IF th = NoThread THEN thr ELSE [thr EXCEPT ![th].tmp_ref = @ - 1]
  /\ proc' = [proc EXCEPT ![p].tmp_ref =
                @ - n - (IF FreesThread(th) THEN 1 ELSE 0)]
  /\ bug' = (bug \/ (FreesThread(th) /\ thr[th].todo # <<>>))

ThreadFreed(th) == thr[th].is_dead /\ thr[th].tmp_ref = 0

\* atomic_inc_return(&binder_last_id).
NextId == 1 + Cardinality({t \in Txns : txn[t].kind # "unused"})

\* binder_free_transaction.
Without(X, t) == [X EXCEPT ![t] = FreedTxn]
Unlinked(B, t) ==
  IF txn[t].to_proc # NoProc /\ txn[t].buffer
  THEN [B EXCEPT ![t].transaction = FALSE] ELSE B

\* binder_pop_transaction_ilocked, and its BUG_ONs.
PopTransaction(T, th, t) == [T EXCEPT ![th].stack = txn[t].from_parent]
PopBug(th, t) == thr[th].stack # t \/ txn[t].from # th
-----------------------------------------------------------------------------
(* binder_transaction, a call.                                             *)

\* The thread can make a system call.
InUser(th) ==
  pc[th] = "user" /\ sfr[th] = NoTxn /\ proc[ProcOf[th]].st = "open"

CanWrite(th) ==
  /\ InUser(th)
  /\ thr[th].return_error = "OK"
  /\ Len(thr[th].todo) < MaxTodo

\* The thread is handling a call that has not been answered.
ServesTop(th) ==
  thr[th].stack # NoTxn /\ txn[thr[th].stack].to_thread = th

\* Mutant: the head of the todo list is not looked at.
CallAllowed_AnyTodo(th, oneway) ==
  \/ oneway
  \/ thr[th].stack = NoTxn
  \/ ServesTop(th)

\* A synchronous call needs a thread that has no transaction at the head of
\* its todo list and does not wait for a reply.
CallAllowed(th, oneway) ==
  \/ oneway
  \/ /\ thr[th].todo # <<>> => Head(thr[th].todo).type # "txn"
     /\ thr[th].stack = NoTxn \/ ServesTop(th)

\* The transactions on the from_parent chain, nearest first.
FromChain(t) ==
  LET chain[n \in 0 .. MaxTxns] ==
        IF n = 0 THEN t
        ELSE IF chain[n - 1] = NoTxn THEN NoTxn ELSE txn[chain[n - 1]].from_parent
  IN chain

\* The thread of q that already waits for this chain of calls, if any.
TargetThread(th, q) ==
  LET chain == FromChain(thr[th].stack)
      hits == {n \in 0 .. MaxTxns :
                 /\ chain[n] # NoTxn
                 /\ txn[chain[n]].from # NoThread
                 /\ ProcOf[txn[chain[n]].from] = q}
  IN IF hits = {} THEN NoThread ELSE txn[chain[Min(hits)]].from

\* The target is dead, the call is not allowed, or no memory: return_error.
CallFails(th, q, oneway) ==
  /\ CanWrite(th)
  /\ \/ ~node[q].live
     \/ ~CallAllowed(th, oneway) /\ "user" \in Faults
     \/ "alloc" \in Faults
  /\ thr' = ReturnError(thr, th, "ERROR")
  /\ UNCHANGED <<txn, buf, proc, node, pc, loc, sfr, bug>>

\* Up to the call of binder_proc_transaction: references, buffer, the
\* TRANSACTION_COMPLETE (deferred for a synchronous call) and the push on
\* the caller's own stack.
CallStart(th, q, oneway) ==
  LET tt == IF oneway THEN NoThread ELSE TargetThread(th, q)
      t == NextId
      T1 == IF tt = NoThread THEN thr ELSE [thr EXCEPT ![tt].tmp_ref = @ + 1]
  IN /\ CanWrite(th)
     /\ node[q].live
     /\ CallAllowed(th, oneway)
     /\ t <= MaxTxns
     /\ txn' = [txn EXCEPT ![t] =
          [kind |-> IF oneway THEN "oneway" ELSE "sync", buffer |-> TRUE,
           from |-> IF oneway THEN NoThread ELSE th, to_thread |-> tt,
           to_proc |-> q, to_parent |-> NoTxn,
           from_parent |-> IF oneway THEN NoTxn ELSE thr[th].stack]]
     /\ buf' = [buf EXCEPT ![t] = [st |-> "kernel", owner |-> q, node |-> q,
                                   async |-> oneway, transaction |-> TRUE]]
     /\ thr' = IF oneway THEN EnqueueThreadWork(T1, th, Item("complete"))
               ELSE EnqueueDeferredThreadWork([T1 EXCEPT ![th].stack = t],
                                              th, Item("complete"))
     /\ proc' = [proc EXCEPT ![q].tmp_ref = @ + 1]
     /\ pc' = [pc EXCEPT ![th] = "send"]
     /\ loc' = [loc EXCEPT ![th] = [NoLoc EXCEPT !.t = t, !.target_thread = tt,
                                                 !.target_proc = q]]
     /\ UNCHANGED <<node, sfr, bug>>

TargetDead(th) ==
  \/ proc[loc[th].target_proc].is_dead
  \/ /\ loc[th].target_thread # NoThread
     /\ thr[loc[th].target_thread].is_dead

\* Mutant: a one-way call does not wait for the one before it.
PendingAsync_Never(t) == FALSE
PendingAsync(t) ==
  txn[t].kind = "oneway" /\ node[buf[t].node].has_async_transaction

\* binder_proc_transaction queues t, on the target thread, on a waiting
\* thread, on the process, or behind the node's one-way call.
Send(th) ==
  LET t == loc[th].t
      q == loc[th].target_proc
      tt == loc[th].target_thread
      pending == PendingAsync(t)
      to == IF tt # NoThread THEN {tt} ELSE WaitingThreads(thr, q)
  IN /\ pc[th] = "send"
     /\ ~TargetDead(th)
     /\ node' = [node EXCEPT
          ![q].has_async_transaction = @ \/ txn[t].kind = "oneway",
          ![q].async_todo = IF pending THEN Append(@, t) ELSE @]
     /\ IF pending \/ to = {}
        THEN /\ proc' = [proc EXCEPT ![q].todo =
                           IF pending THEN @ ELSE Append(@, t)]
             /\ UNCHANGED <<thr, bug>>
        ELSE /\ \E s \in to :
                  thr' = EnqueueThreadWork([thr EXCEPT ![s].waiting = FALSE],
                                           s, TxnItem(t))
             /\ bug' = (bug \/ (tt # NoThread /\ thr[tt].waiting))
             /\ UNCHANGED proc
     /\ pc' = [pc EXCEPT ![th] = "put"]
     /\ UNCHANGED <<txn, buf, loc, sfr>>

\* It finds the target dead: the call is undone and return_error set.
SendDead(th) ==
  LET t == loc[th].t
      oneway == txn[t].kind = "oneway"
      T1 == IF oneway THEN thr ELSE PopTransaction(thr, th, t)
  IN /\ pc[th] = "send"
     /\ TargetDead(th)
     /\ node' = [node EXCEPT ![loc[th].target_proc].has_async_transaction =
                                @ \/ oneway]
     /\ thr' = ReturnError(DequeueComplete(T1, th), th, "ERROR")
     /\ txn' = Without(txn, t)
     /\ buf' = [buf EXCEPT ![t] = NoBuf]
     /\ bug' = (bug \/ (~oneway /\ PopBug(th, t)))
     /\ pc' = [pc EXCEPT ![th] = "put"]
     /\ UNCHANGED <<proc, loc, sfr>>

\* The references to the target go, after success and failure alike.
PutTarget(th) ==
  /\ pc[th] = "put"
  /\ DecTmpRefs(loc[th].target_thread, loc[th].target_proc, 1)
  /\ pc' = [pc EXCEPT ![th] = "user"]
  /\ loc' = [loc EXCEPT ![th] = NoLoc]
  /\ UNCHANGED <<txn, buf, node, sfr>>
-----------------------------------------------------------------------------
(* binder_transaction, a reply.                                            *)

\* Nothing to reply to: return_error.
ReplyRefused(th) ==
  /\ "user" \in Faults
  /\ CanWrite(th)
  /\ ~ServesTop(th)
  /\ thr' = ReturnError(thr, th, "ERROR")
  /\ UNCHANGED <<txn, buf, proc, node, pc, loc, sfr, bug>>

ReplyAllowed(th) == CanWrite(th) /\ ServesTop(th)

\* The caller is gone, or there is no memory for the reply.  The replier
\* sees a TRANSACTION_COMPLETE; who waits for it gets a failed reply.
ReplyFails(th) ==
  LET r == thr[th].stack
  IN /\ ReplyAllowed(th)
     /\ txn[r].from = NoThread \/ "reply" \in Faults
     /\ thr' = ReturnError([thr EXCEPT ![th].stack = txn[r].to_parent],
                           th, "COMPLETE")
     /\ sfr' = [sfr EXCEPT ![th] = r]
     /\ UNCHANGED <<txn, buf, proc, node, pc, loc, bug>>

\* Up to the buffer for the reply.  "bad target transaction stack" would
\* leak the transaction being answered and counts as a bug.
ReplyStart(th) ==
  LET r == thr[th].stack
      tt == txn[r].from
      q == ProcOf[tt]
      t == NextId
  IN /\ ReplyAllowed(th)
     /\ tt # NoThread
     /\ t <= MaxTxns
     /\ bug' = (bug \/ thr[tt].stack # r)
     /\ thr' = [thr EXCEPT ![th].stack = txn[r].to_parent,
                           ![tt].tmp_ref = @ + 1]
     /\ proc' = [proc EXCEPT ![q].tmp_ref = @ + 1]
     /\ txn' = [txn EXCEPT ![t] = [UnusedTxn EXCEPT !.kind = "reply",
                  !.buffer = TRUE, !.to_thread = tt, !.to_proc = q]]
     /\ buf' = [buf EXCEPT ![t] = [st |-> "kernel", owner |-> q, node |-> NoProc,
                                   async |-> FALSE, transaction |-> TRUE]]
     /\ pc' = [pc EXCEPT ![th] = "reply"]
     /\ loc' = [loc EXCEPT ![th] = [NoLoc EXCEPT !.t = t, !.in_reply_to = r,
                                    !.target_thread = tt, !.target_proc = q]]
     /\ UNCHANGED <<node, sfr>>

\* The caller's stack is popped and the reply queued on its todo list.
ReplySend(th) ==
  LET r == loc[th].in_reply_to
      tt == loc[th].target_thread
      T1 == EnqueueThreadWork(thr, th, Item("complete"))
  IN /\ pc[th] = "reply"
     /\ ~thr[tt].is_dead
     /\ bug' = (bug \/ PopBug(tt, r) \/ thr[tt].waiting)
     /\ thr' = EnqueueThreadWork(PopTransaction(T1, tt, r), tt,
                                 TxnItem(loc[th].t))
     /\ txn' = Without(txn, r)
     /\ buf' = Unlinked(buf, r)
     /\ pc' = [pc EXCEPT ![th] = "put"]
     /\ UNCHANGED <<proc, node, loc, sfr>>

\* Mutant: the reply is dropped and nobody else is told.
ReplyDead_NoChain(th) ==
  LET l == loc[th]
  IN /\ pc[th] = "reply"
     /\ thr[l.target_thread].is_dead
     /\ thr' = ReturnError(thr, th, "COMPLETE")
     /\ txn' = Without(Without(txn, l.t), l.in_reply_to)
     /\ buf' = [Unlinked(buf, l.in_reply_to) EXCEPT ![l.t] = NoBuf]
     /\ pc' = [pc EXCEPT ![th] = "put"]
     /\ UNCHANGED <<proc, node, loc, sfr, bug>>

\* The caller went away since ReplyStart.
ReplyDead(th) ==
  LET l == loc[th]
  IN /\ pc[th] = "reply"
     /\ thr[l.target_thread].is_dead
     /\ thr' = ReturnError(thr, th, "COMPLETE")
     /\ txn' = Without(txn, l.t)
     /\ buf' = [buf EXCEPT ![l.t] = NoBuf]
     /\ sfr' = [sfr EXCEPT ![th] = l.in_reply_to]
     /\ pc' = [pc EXCEPT ![th] = "put"]
     /\ UNCHANGED <<proc, node, loc, bug>>

\* One turn of binder_send_failed_reply's loop.
SendFailedReply(a) ==
  LET t == sfr[a]
      from == txn[t].from
      T1 == PopTransaction(thr, from, t)
  IN /\ t # NoTxn
     /\ a \in Threads => pc[a] # "put"
     /\ IF from # NoThread
        THEN /\ bug' = (bug \/ PopBug(from, t) \/ txn[t].kind # "sync"
                            \/ thr[from].waiting)
             /\ thr' = IF T1[from].reply_error # "OK" THEN T1
                       ELSE EnqueueThreadWork(
                              [T1 EXCEPT ![from].reply_error = "ERROR"],
                              from, Item("reply_error"))
             /\ sfr' = [sfr EXCEPT ![a] = NoTxn]
        ELSE /\ bug' = (bug \/ txn[t].kind # "sync")
             /\ sfr' = [sfr EXCEPT ![a] = txn[t].from_parent]
             /\ UNCHANGED thr
     /\ txn' = Without(txn, t)
     /\ buf' = Unlinked(buf, t)
     /\ UNCHANGED <<proc, node, pc, loc>>
-----------------------------------------------------------------------------
(* binder_thread_read and BC_FREE_BUFFER.                                  *)

\* Where binder_thread_read finds its work or waits: at the top and at retry.
\* A thread that finds work does not sleep.
WaitForWork(th) ==
  LET avail == AvailableForProcWork(th)
      work == \/ thr[th].process_todo
              \/ avail /\ proc[ProcOf[th]].todo # <<>>
  IN /\ pc' = [pc EXCEPT ![th] = IF work THEN "loop" ELSE "wait"]
     /\ loc' = [loc EXCEPT ![th] = [NoLoc EXCEPT !.wait_for_proc_work = avail]]
     /\ thr' = [thr EXCEPT ![th].waiting = avail /\ ~work]
     /\ UNCHANGED <<txn, buf, proc, node, sfr, bug>>

ReadStart(th) ==
  /\ InUser(th)
  /\ WaitForWork(th)

\* A signal ends the wait; O_NONBLOCK is the same without one.
Interrupted(th) ==
  /\ pc[th] = "wait"
  /\ pc' = [pc EXCEPT ![th] = "user"]
  /\ loc' = [loc EXCEPT ![th] = NoLoc]
  /\ IF proc[ProcOf[th]].todo = <<>>
     THEN thr' = [thr EXCEPT ![th].waiting = FALSE]
     ELSE thr' \in WakeupProc([thr EXCEPT ![th].waiting = FALSE], ProcOf[th])
  /\ UNCHANGED <<txn, buf, proc, node, sfr, bug>>

\* binder_wait_for_work returns.
WakeUp(th) ==
  /\ pc[th] = "wait"
  /\ HasWork(th)
  /\ pc' = [pc EXCEPT ![th] = "loop"]
  /\ thr' = [thr EXCEPT ![th].waiting = FALSE]
  /\ UNCHANGED <<txn, buf, proc, node, loc, sfr, bug>>

\* binder_dequeue_work_head_ilocked on the thread's list.
DequeueHead(T, th) ==
  [T EXCEPT ![th].todo = Tail(@),
            ![th].process_todo = @ /\ Tail(T[th].todo) # <<>>]

\* A TRANSACTION_COMPLETE or an error is copied out, and the loop goes on.
ReadNotice(th) ==
  LET w == Head(thr[th].todo)
      T1 == DequeueHead(thr, th)
  IN /\ pc[th] = "loop" /\ sfr[th] = NoTxn
     /\ thr[th].todo # <<>> /\ w.type # "txn"
     /\ thr' = CASE w.type = "return_error" -> [T1 EXCEPT ![th].return_error = "OK"]
                 [] w.type = "reply_error" -> [T1 EXCEPT ![th].reply_error = "OK"]
                 [] OTHER -> T1
     /\ bug' = (bug \/ (w.type = "return_error" /\ thr[th].return_error = "OK")
                    \/ (w.type = "reply_error" /\ thr[th].reply_error = "OK"))
     /\ loc' = [loc EXCEPT ![th].got = TRUE]
     /\ UNCHANGED <<txn, buf, proc, node, pc, sfr>>

\* The transaction binder_thread_read takes: from the thread's list, or,
\* when that is empty, from the process's.
ReadsTxn(th, t) ==
  /\ pc[th] = "loop" /\ sfr[th] = NoTxn
  /\ IF thr[th].todo # <<>>
     THEN Head(thr[th].todo) = TxnItem(t)
     ELSE /\ loc[th].wait_for_proc_work
          /\ proc[ProcOf[th]].todo # <<>> /\ Head(proc[ProcOf[th]].todo) = t

\* It is off its list.
TakeTxn(T, th) == IF T[th].todo # <<>> THEN DequeueHead(T, th)
                  ELSE [T EXCEPT ![th].process_todo = FALSE]
TakenFrom(th) == IF thr[th].todo # <<>> THEN proc
                 ELSE [proc EXCEPT ![ProcOf[th]].todo = Tail(@)]

\* The end of the ioctl: binder_wakeup_proc_ilocked when work is left.
ReturnToUser(T, P, th) ==
  /\ pc' = [pc EXCEPT ![th] = "user"]
  /\ loc' = [loc EXCEPT ![th] = NoLoc]
  /\ IF P[ProcOf[th]].todo = <<>> THEN thr' = T
     ELSE thr' \in WakeupProc(T, ProcOf[th])

\* BR_TRANSACTION or BR_REPLY: a synchronous call goes on the reader's
\* stack, anything else is done with.
Deliver(th, t) ==
  LET T1 == TakeTxn(thr, th)
  IN /\ ReadsTxn(th, t)
     /\ proc' = TakenFrom(th)
     /\ IF txn[t].kind = "sync"
        THEN /\ txn' = [txn EXCEPT ![t].to_parent = thr[th].stack,
                                   ![t].to_thread = th]
             /\ buf' = [buf EXCEPT ![t].st = "user"]
             /\ ReturnToUser([T1 EXCEPT ![th].stack = t], TakenFrom(th), th)
        ELSE /\ txn' = Without(txn, t)
             /\ buf' = [Unlinked(buf, t) EXCEPT ![t].st = "user"]
             /\ ReturnToUser(T1, TakenFrom(th), th)
     /\ UNCHANGED <<node, sfr, bug>>

\* binder_cleanup_transaction, run by a, with the buffers as they are in B.
Cleanup(a, t, B) ==
  IF B[t].node # NoProc /\ txn[t].kind = "sync"
  THEN sfr' = [sfr EXCEPT ![a] = t] /\ buf' = B /\ UNCHANGED txn
  ELSE txn' = Without(txn, t) /\ buf' = Unlinked(B, t) /\ UNCHANGED sfr

\* copy_to_user fails: the transaction is cleaned up, the buffer stays.
DeliverCopyFails(th, t) ==
  /\ "copy" \in Faults
  /\ ReadsTxn(th, t)
  /\ proc' = TakenFrom(th)
  /\ Cleanup(th, t, buf)
  /\ ReturnToUser(TakeTxn(thr, th), TakenFrom(th), th)
  /\ UNCHANGED <<node, bug>>

\* binder_apply_fd_fixups fails: cleaned up, and the buffer goes as well.
DeliverFdFails(th, t) ==
  /\ "fd" \in Faults
  /\ ReadsTxn(th, t)
  /\ proc' = TakenFrom(th)
  /\ thr' = TakeTxn(thr, th)
  /\ Cleanup(th, t, [buf EXCEPT ![t].transaction = FALSE])
  /\ pc' = [pc EXCEPT ![th] = "dropbuf"]
  /\ loc' = [loc EXCEPT ![th].t = t]
  /\ UNCHANGED <<node, bug>>

\* binder_free_buf: the next one-way call of the node is let through.
FreeBuf(th, t) ==
  LET p == ProcOf[th]
      n == node[buf[t].node]
  IN /\ txn' = IF buf[t].transaction THEN [txn EXCEPT ![t].buffer = FALSE] ELSE txn
     /\ buf' = [buf EXCEPT ![t] = NoBuf]
     /\ IF buf[t].async
        THEN /\ bug' = (bug \/ ~n.has_async_transaction \/ ~n.live)
             /\ IF n.async_todo = <<>>
                THEN /\ node' = [node EXCEPT ![buf[t].node].has_async_transaction = FALSE]
                     /\ UNCHANGED <<thr, proc>>
                ELSE /\ node' = [node EXCEPT ![buf[t].node].async_todo = Tail(@)]
                     /\ proc' = [proc EXCEPT ![p].todo = Append(@, Head(n.async_todo))]
                     /\ thr' \in WakeupProc(thr, p)
        ELSE UNCHANGED <<thr, proc, node, bug>>

\* After DeliverFdFails the loop goes on, unless a reply was lost:
\* BR_FAILED_REPLY ends the read.
DropBuffer(th) ==
  /\ pc[th] = "dropbuf" /\ sfr[th] = NoTxn
  /\ buf[loc[th].t].node # NoProc
  /\ FreeBuf(th, loc[th].t)
  /\ pc' = [pc EXCEPT ![th] = "loop"]
  /\ loc' = [loc EXCEPT ![th].t = NoTxn]
  /\ UNCHANGED sfr

DropReply(th) ==
  /\ pc[th] = "dropbuf"
  /\ buf[loc[th].t].node = NoProc
  /\ buf' = [buf EXCEPT ![loc[th].t] = NoBuf]
  /\ ReturnToUser(thr, proc, th)
  /\ UNCHANGED <<txn, proc, node, sfr, bug>>

\* BC_FREE_BUFFER for a buffer of the process.
FreeBuffer(th, t) ==
  /\ InUser(th) /\ thr[th].return_error = "OK"
  /\ buf[t].st = "user" /\ buf[t].owner = ProcOf[th]
  /\ FreeBuf(th, t)
  /\ UNCHANGED <<pc, loc, sfr>>

\* Nothing left to read, or no room for it.
ReadEnd(th) ==
  /\ pc[th] = "loop" /\ sfr[th] = NoTxn
  /\ loc[th].got
  /\ ReturnToUser(thr, proc, th)
  /\ UNCHANGED <<txn, buf, proc, node, sfr, bug>>

\* Woken for work that somebody else took: goto retry.
ReadRetry(th) ==
  /\ pc[th] = "loop" /\ sfr[th] = NoTxn
  /\ ~loc[th].got
  /\ thr[th].todo = <<>>
  /\ loc[th].wait_for_proc_work => proc[ProcOf[th]].todo = <<>>
  /\ WaitForWork(th)
-----------------------------------------------------------------------------
(* A thread or a process goes away.                                        *)

\* What binder_thread_release walks: to_parent where the thread is the
\* target, from_parent where it is the caller.
OnStack(th) ==
  LET chain[n \in 0 .. MaxTxns] ==
        IF n = 0 THEN thr[th].stack
        ELSE IF chain[n - 1] = NoTxn THEN NoTxn
        ELSE IF txn[chain[n - 1]].to_thread = th THEN txn[chain[n - 1]].to_parent
        ELSE txn[chain[n - 1]].from_parent
  IN {chain[n] : n \in 0 .. MaxTxns} \ {NoTxn}

\* Mutant: the caller is left to wait.
SendReply_Never(th) == NoTxn

\* The call that binder_thread_release answers: the top of the stack, when
\* this thread was serving it.
SendReply(th) ==
  IF ServesTop(th) THEN thr[th].stack ELSE NoTxn

\* binder_thread_release under the inner lock.
ReleaseThread(th) ==
  LET on == OnStack(th)
      in == {t \in on : txn[t].to_thread = th}
  IN /\ thr' = [thr EXCEPT ![th].is_dead = TRUE, ![th].tmp_ref = @ + 1]
     /\ proc' = [proc EXCEPT ![ProcOf[th]].tmp_ref = @ + 1]
     /\ txn' = [t \in Txns |->
          IF t \in in THEN [txn[t] EXCEPT !.to_proc = NoProc,
                              !.to_thread = NoThread, !.buffer = FALSE]
          ELSE IF t \in on THEN [txn[t] EXCEPT !.from = NoThread]
          ELSE txn[t]]
     /\ buf' = [t \in Txns |-> IF t \in in /\ txn[t].buffer
                               THEN [buf[t] EXCEPT !.transaction = FALSE]
                               ELSE buf[t]]
     /\ bug' = (bug \/ \E t \in on \ in : txn[t].from # th)
     /\ sfr' = [sfr EXCEPT ![th] = SendReply(th)]
     /\ pc' = [pc EXCEPT ![th] = "release"]
     /\ UNCHANGED <<node, loc>>

\* BINDER_THREAD_EXIT.
ThreadExit(th) ==
  /\ th \in Exits
  /\ InUser(th)
  /\ ReleaseThread(th)

\* One turn of binder_release_work on the thread's list.
ReleaseThreadWork(th) ==
  LET w == Head(thr[th].todo)
  IN /\ pc[th] = "release" /\ sfr[th] = NoTxn
     /\ thr[th].todo # <<>>
     /\ thr' = [thr EXCEPT ![th].todo = Tail(@)]
     /\ IF w.type = "txn" THEN Cleanup(th, w.t, buf) ELSE UNCHANGED <<txn, buf, sfr>>
     /\ UNCHANGED <<proc, node, pc, loc, bug>>

\* The end of binder_thread_release.
ReleaseThreadEnd(th) ==
  /\ pc[th] = "release" /\ sfr[th] = NoTxn
  /\ thr[th].todo = <<>>
  /\ DecTmpRefs(th, ProcOf[th], 0)
  /\ pc' = [pc EXCEPT ![th] = "gone"]
  /\ UNCHANGED <<txn, buf, node, loc, sfr>>

\* binder_get_thread makes a new struct for a thread that comes back.  It
\* waits until the old one is freed, so that one name stands for one struct.
GetThread(th) ==
  /\ pc[th] = "gone"
  /\ proc[ProcOf[th]].st = "open"
  /\ ThreadFreed(th)
  /\ thr' = [thr EXCEPT ![th] = NewThread]
  /\ pc' = [pc EXCEPT ![th] = "user"]
  /\ UNCHANGED <<txn, buf, proc, node, loc, sfr, bug>>

ThreadsOf(p) == {th \in Threads : ProcOf[th] = p}

\* binder_deferred_release, once no thread is in an ioctl.  One worker runs
\* the deferred work, so processes are released one after the other.
ProcRelease(p) ==
  /\ p \in Deaths
  /\ proc[p].st = "open"
  /\ \A th \in ThreadsOf(p) : InUser(th) \/ pc[th] = "gone"
  /\ \A q \in Procs : proc[q].st \notin {"threads", "todo"}
  /\ proc' = [proc EXCEPT ![p].st = "threads", ![p].is_dead = TRUE,
                          ![p].tmp_ref = @ + 1]
  /\ UNCHANGED <<txn, buf, thr, node, pc, loc, sfr, bug>>

ProcReleaseThread(th) ==
  /\ proc[ProcOf[th]].st = "threads"
  /\ \A u \in ThreadsOf(ProcOf[th]) : pc[u] # "release"
  /\ pc[th] = "user"
  /\ ReleaseThread(th)

\* binder_node_release: one-way calls that wait for their turn are dropped,
\* and the node has no process any more.
ProcReleaseNode(p) ==
  LET drop == ToSet(node[p].async_todo)
  IN /\ proc[p].st = "threads"
     /\ \A th \in ThreadsOf(p) : pc[th] = "gone"
     /\ txn' = [t \in Txns |-> IF t \in drop THEN FreedTxn ELSE txn[t]]
     /\ buf' = [t \in Txns |-> IF t \in drop
                               THEN [buf[t] EXCEPT !.transaction = FALSE]
                               ELSE buf[t]]
     /\ node' = [node EXCEPT ![p].live = FALSE, ![p].async_todo = <<>>]
     /\ proc' = [proc EXCEPT ![p].st = "todo"]
     /\ UNCHANGED <<thr, pc, loc, sfr, bug>>

\* One turn of binder_release_work on the process's list.
ProcReleaseWork(p) ==
  /\ proc[p].st = "todo" /\ sfr[p] = NoTxn
  /\ proc[p].todo # <<>>
  /\ proc' = [proc EXCEPT ![p].todo = Tail(@)]
  /\ Cleanup(p, Head(proc[p].todo), buf)
  /\ UNCHANGED <<thr, node, pc, loc, bug>>

\* The last line of binder_deferred_release.
ProcReleaseEnd(p) ==
  /\ proc[p].st = "todo" /\ sfr[p] = NoTxn
  /\ proc[p].todo = <<>>
  /\ proc' = [proc EXCEPT ![p].st = "released", ![p].tmp_ref = @ - 1]
  /\ UNCHANGED <<txn, buf, thr, node, pc, loc, sfr, bug>>

\* binder_free_proc, in the binder_proc_dec_tmpref that drops the last
\* reference; its buffers go with it.
FreeProc(p) ==
  /\ proc[p].is_dead /\ proc[p].st # "freed"
  /\ proc[p].tmp_ref = 0
  /\ \A th \in ThreadsOf(p) : thr[th].is_dead
  /\ bug' = (bug \/ proc[p].todo # <<>>)
  /\ proc' = [proc EXCEPT ![p].st = "freed"]
  /\ buf' = [t \in Txns |-> IF buf[t].owner = p THEN NoBuf ELSE buf[t]]
  /\ UNCHANGED <<txn, thr, node, pc, loc, sfr>>
-----------------------------------------------------------------------------
CallSteps == \E c \in Calls : \/ CallStart(c[1], c[2], c[3])
                              \/ CallFails(c[1], c[2], c[3])
ReplySteps(th) == \/ ReplyStart(th) \/ ReplyRefused(th) \/ ReplyFails(th)
DriverSteps(th) == \/ Send(th) \/ SendDead(th) \/ PutTarget(th)
                   \/ ReplySend(th) \/ ReplyDead(th) \/ SendFailedReply(th)
ReadSteps(th) ==
  \/ WakeUp(th) \/ ReadNotice(th) \/ ReadEnd(th) \/ ReadRetry(th)
  \/ DropBuffer(th) \/ DropReply(th)
  \/ \E t \in Txns : \/ Deliver(th, t) \/ DeliverCopyFails(th, t)
                     \/ DeliverFdFails(th, t)
ExitSteps(th) == \/ ReleaseThreadWork(th) \/ ReleaseThreadEnd(th)
                 \/ ProcReleaseThread(th)
ProcSteps(p) == \/ ProcReleaseNode(p) \/ ProcReleaseWork(p)
                \/ ProcReleaseEnd(p) \/ FreeProc(p) \/ SendFailedReply(p)

Next ==
  \/ CallSteps
  \/ \E th \in Threads :
       \/ ReplySteps(th) \/ DriverSteps(th) \/ ReadStart(th) \/ Interrupted(th)
       \/ ReadSteps(th) \/ \E t \in Txns : FreeBuffer(th, t)
       \/ ThreadExit(th) \/ ExitSteps(th) \/ GetThread(th)
  \/ \E p \in Procs : ProcRelease(p) \/ ProcSteps(p)

Spec == Init /\ [][Next]_vars

\* The kernel runs a thread that is in an ioctl and the worker that releases
\* a process.  User space reads again when a read has returned; a thread that
\* has nothing to do comes back to wait for work (joinThreadPool), and one
\* that got a call replies to it and does not wait for more work instead
\* (executeCommand).
Fairness ==
  /\ \A th \in Threads :
       /\ WF_vars(DriverSteps(th) \/ ReadSteps(th) \/ ExitSteps(th) \/ ReadStart(th)
                    \/ (Interrupted(th) /\ ServesTop(th)))
       /\ SF_vars(ReadStart(th) /\ AvailableForProcWork(th))
       /\ SF_vars(ReplySteps(th))
  /\ \A p \in Procs : WF_vars(ProcSteps(p))

FairSpec == Spec /\ Fairness
-----------------------------------------------------------------------------
(* Properties.                                                             *)

\* Every field has the type its struct in binder.c gives it; in particular the
\* tmp_ref counts that keep threads and processes alive never go below zero.
TypeOK ==
  /\ txn \in [Txns -> Txn]
  /\ buf \in [Txns -> Buf]
  /\ \A th \in Threads :
       /\ thr[th].stack \in 0 .. MaxTxns
       /\ \A i \in 1 .. Len(thr[th].todo) : thr[th].todo[i] \in Work
       /\ thr[th].return_error \in Cmds /\ thr[th].reply_error \in Cmds
       /\ thr[th].tmp_ref \in Nat
  /\ \A p \in Procs :
       /\ proc[p].tmp_ref \in Nat
       /\ \A i \in 1 .. Len(proc[p].todo) : proc[p].todo[i] \in Txns
       /\ \A i \in 1 .. Len(node[p].async_todo) : node[p].async_todo[i] \in Txns
  /\ sfr \in [Threads \cup Procs -> 0 .. MaxTxns]

\* No BUG_ON or WARN_ON of the driver fires: pops find the transaction they
\* expect, a released thread's stack holds only its own calls, a freed thread
\* or process has no work left, nothing is queued on a waiting thread, and a
\* reply finds the caller's stack as it left it.
NoBug == ~bug

Live(t) == txn[t].kind \notin {"unused", "freed"}
Carries(th) == pc[th] \in {"send", "reply"}
LiveThreads == {th \in Threads : ~thr[th].is_dead}
Serves(th, t) == t \in OnStack(th) /\ txn[t].to_thread = th

\* The places that answer for t: a queue, a thread that carries it, a failed
\* reply under way, the stack of the thread that serves it, or the call that
\* the thread serving t was waiting for when it died.
Places(t) ==
  {<<"thread", th>> : th \in {u \in Threads : TxnItem(t) \in ToSet(thr[u].todo)}}
  \cup {<<"proc", p>> : p \in {q \in Procs : t \in ToSet(proc[q].todo)}}
  \cup {<<"async", p>> : p \in {q \in Procs : t \in ToSet(node[q].async_todo)}}
  \cup {<<"carried", th>> : th \in {u \in Threads : Carries(u)
                                  /\ t \in {loc[u].t, loc[u].in_reply_to}}}
  \cup {<<"failing", a>> : a \in {b \in Threads \cup Procs : sfr[b] = t}}
  \cup {<<"served", th>> : th \in {u \in LiveThreads : Serves(u, t)}}
  \cup {<<"orphan", u>> : u \in {v \in Txns : /\ txn[v].kind = "sync"
                                             /\ txn[v].from = NoThread
                                             /\ txn[v].from_parent = t}}

\* A transaction is never lost and never handled twice, whoever dies and
\* whenever: there is exactly one place from which it will be delivered,
\* answered, failed or dropped (binder_transaction, binder_thread_read,
\* binder_send_failed_reply, binder_thread_release, binder_release_work).
OwnedOnce == \A t \in Txns : Live(t) => \E x \in Places(t) : Places(t) = {x}

\* The stacks binder_transaction checks and binder_thread_release walks: a
\* thread serves a call only when idle or while it waits for a reply, and
\* calls only when idle or while it serves; its last call is one it waits for.
StackAlternates ==
  \A th \in LiveThreads : \A t \in OnStack(th) :
    /\ txn[t].kind = "sync"
    /\ IF txn[t].to_thread = th
       THEN txn[t].to_parent # NoTxn => txn[txn[t].to_parent].from = th
       ELSE /\ txn[t].from = th
            /\ txn[t].from_parent # NoTxn => txn[txn[t].from_parent].to_thread = th

\* Pointers the driver follows lead to something that is still there: parents
\* of a transaction, buffer->transaction and t->buffer, the target a thread
\* holds across an unlock (tmp_ref), t->from and t->to_proc.
NoDangling ==
  /\ \A t \in Txns : Live(t) =>
       /\ txn[t].from # NoThread =>
            ~thr[txn[t].from].is_dead /\ t \in OnStack(txn[t].from)
       /\ txn[t].to_proc # NoProc => proc[txn[t].to_proc].st # "freed"
       /\ txn[t].from_parent # NoTxn => Live(txn[t].from_parent)
       /\ txn[t].buffer => buf[t].st # "none"
  /\ \A t \in Txns : buf[t].transaction => Live(t) /\ txn[t].buffer
  /\ \A th \in Threads : Carries(th) \/ pc[th] = "put" =>
       /\ loc[th].target_thread # NoThread => ~ThreadFreed(loc[th].target_thread)
       /\ proc[loc[th].target_proc].st # "freed"

\* The one-way calls of a node that are past async_todo and not yet freed.
ActiveAsync(p) ==
  {t \in Txns : /\ buf[t].st # "none" /\ buf[t].async /\ buf[t].node = p
                /\ t \notin ToSet(node[p].async_todo)
                /\ \A th \in Threads : pc[th] = "send" => loc[th].t # t}

\* One-way calls to a node are handled one at a time, and what waits behind
\* one has that one to wait for (binder_proc_transaction, binder_free_buf).
OnewaySerialised ==
  \A p \in Procs : node[p].live =>
    /\ \A s, t \in ActiveAsync(p) : s = t
    /\ node[p].async_todo # <<>> => ActiveAsync(p) # {}

\* process_todo tells a reader whether to sleep on its list: it is never set
\* on an empty list (the read would spin), and a thread sleeps on a list that
\* is not empty only while its own call is out and the list holds nothing but
\* the TRANSACTION_COMPLETE deferred with it.
TodoFlagTrue ==
  \A th \in LiveThreads :
    /\ thr[th].process_todo => thr[th].todo # <<>>
    /\ thr[th].todo # <<>> /\ ~thr[th].process_todo =>
         /\ thr[th].todo = <<Item("complete")>>
         /\ thr[th].stack # NoTxn /\ txn[thr[th].stack].from = th

\* Every call ends: whoever dies on the way, the thread that waits for a reply
\* gets one or a failed one (binder_send_failed_reply goes up the chain).
EveryCallEnds ==
  \A t \in Txns : (txn[t].kind = "sync") ~> (txn[t].kind = "freed")

\* struct binder_node says of has_async_transaction "async transaction to node
\* in progress": the call is queued, or user space has its buffer.
AsyncInProgress ==
  \A p \in Procs : proc[p].st = "open" /\ node[p].has_async_transaction =>
    \E t \in ActiveAsync(p) : Live(t) \/ buf[t].st = "user"

\* The stacks of both ends agree and no BUG_ON about them fires, whoever dies
\* or exits between two steps of a call.
StacksSound == TypeOK /\ NoBug /\ StackAlternates

\* A transaction is in exactly one place, and nothing points to one, or to a
\* buffer, that is gone.
TxnsSound == OwnedOnce /\ NoDangling
=============================================================================
