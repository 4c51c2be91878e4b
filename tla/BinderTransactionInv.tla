------------------------ MODULE BinderTransactionInv ------------------------
(***************************************************************************)
(* The inductive invariant behind the proofs about BinderTransaction, for  *)
(* any number of processes, threads, nodes and transactions, and the steps *)
(* that keep it when nothing new is sent: waits, notices, buffers and      *)
(* references that go, failed replies, replies and the release of a        *)
(* process.  BinderTransactionProofs has the other steps and the theorems. *)
(*                                                                         *)
(* The invariant is about three functions on transactions that the driver  *)
(* does not keep and the proof carries along: the kind of place where a    *)
(* transaction is (k), whose place it is (a), and the first call of the    *)
(* chain of nested calls it belongs to (r).  Names grow with time, so that *)
(* a chain of nested calls, and a thread's stack, is the set of its members *)
(* in the order of their names: no pointer has to be followed more than    *)
(* once.                                                                   *)
(*                                                                         *)
(* The parts of the invariant are operators on the values they speak of    *)
(* (X: txn, B: buf, D: the dead threads, K: the stacks, L: the todo lists  *)
(* and so on), so that a step that leaves those alone leaves the part      *)
(* alone, and a lemma about a change serves every action that makes it.    *)
(***************************************************************************)
EXTENDS BinderTransaction, FiniteSetTheorems, SequenceTheorems,
        WellFoundedInduction, TLAPS
-----------------------------------------------------------------------------
(* Types and views of the state.                                           *)

PCs == {"user", "send", "reply", "put", "wait", "loop", "dropbuf", "release",
        "gone"}
Thr == [stack : 0 .. MaxTxns, todo : Seq(Work), process_todo : BOOLEAN,
        return_error : Cmds, reply_error : Cmds, waiting : BOOLEAN,
        is_dead : BOOLEAN, tmp_ref : Int]
Prc == [st : {"open", "threads", "todo", "released", "freed"}, todo : Seq(Txns),
        is_dead : BOOLEAN, tmp_ref : Int]
Nde == [live : BOOLEAN, has_async_transaction : BOOLEAN, async_todo : Seq(Txns)]
Loc == [t : 0 .. MaxTxns, in_reply_to : 0 .. MaxTxns,
        target_thread : Threads \cup {NoThread},
        target_proc : Procs \cup {NoProc},
        wait_for_proc_work : BOOLEAN, got : BOOLEAN]

Typed ==
  /\ txn \in [Txns -> Txn] /\ buf \in [Txns -> Buf]
  /\ thr \in [Threads -> Thr] /\ proc \in [Procs -> Prc] /\ node \in [Procs -> Nde]
  /\ pc \in [Threads -> PCs] /\ loc \in [Threads -> Loc]
  /\ sfr \in [Threads \cup Procs -> 0 .. MaxTxns]

Stacks == [th \in Threads |-> thr[th].stack]
Todos == [th \in Threads |-> thr[th].todo]
Flagged == {th \in Threads : thr[th].process_todo}
ReturnErrors == [th \in Threads |-> thr[th].return_error]
ReplyErrors == [th \in Threads |-> thr[th].reply_error]
Waiting == {th \in Threads : thr[th].waiting}
Dead == {th \in Threads : thr[th].is_dead}
ThreadRefs == [th \in Threads |-> thr[th].tmp_ref]
ProcSts == [p \in Procs |-> proc[p].st]
ProcTodos == [p \in Procs |-> proc[p].todo]
DeadProcs == {p \in Procs : proc[p].is_dead}
ProcRefs == [p \in Procs |-> proc[p].tmp_ref]
LiveNodes == {p \in Procs : node[p].live}
AsyncNodes == {p \in Procs : node[p].has_async_transaction}
AsyncTodos == [p \in Procs |-> node[p].async_todo]
-----------------------------------------------------------------------------
(* The parts of the invariant.                                             *)

Kinds == {"none", "thread", "proc", "async", "carried", "failing", "served",
          "orphan"}
Ghosts(k, a, r) == /\ k \in [Txns -> Kinds] /\ r \in [Txns -> Txns]
                   /\ a \in [Txns -> Threads \cup Procs \cup Txns]

Sync(X, t) == X[t].kind = "sync"

\* Names are given out in order.
Names(X) ==
  \A s, t \in Txns : s < t /\ X[t].kind # "unused" => X[s].kind # "unused"

\* A work item other than a TRANSACTION_COMPLETE is in a list once.
Once(s) ==
  \A i, j \in 1 .. Len(s) : s[i].type # "complete" /\ s[i] = s[j] => i = j
Distinct(s) == \A i, j \in 1 .. Len(s) : s[i] = s[j] => i = j

\* The todo lists of threads hold the transactions that are there.
ListOK(s, k, a, th) ==
  /\ Once(s)
  /\ \A x \in ToSet(s) : IF x.type = "txn" THEN x.t \in Txns ELSE x.t = NoTxn
  /\ \A t \in Txns : TxnItem(t) \in ToSet(s) <=> k[t] = "thread" /\ a[t] = th
ThreadLists(L, k, a) == \A th \in Threads : ListOK(L[th], k, a, th)

\* So do those of processes, and the async_todo lists of nodes.
TxnListOK(s, kind, k, a, p) ==
  /\ Distinct(s)
  /\ \A t \in Txns : t \in ToSet(s) <=> k[t] = kind /\ a[t] = p
TxnLists(Q, kind, k, a) == \A p \in Procs : TxnListOK(Q[p], kind, k, a, p)

\* What a thread carries between two steps of binder_transaction, and whom it
\* holds with a tmp_ref meanwhile.
SendCarry(X, l, th, k, a) ==
  /\ l.t \in Txns /\ k[l.t] = "carried" /\ a[l.t] = th /\ l.in_reply_to = NoTxn
  /\ X[l.t].kind \in {"sync", "oneway"}
  /\ Sync(X, l.t) => X[l.t].from = th
  /\ ~Sync(X, l.t) => l.target_thread = NoThread
  /\ l.target_proc = X[l.t].to_proc /\ l.target_thread = X[l.t].to_thread
  /\ l.target_proc # ProcOf[th]
ReplyCarry(X, D, l, th, k, a) ==
  /\ l.t \in Txns /\ k[l.t] = "carried" /\ a[l.t] = th /\ X[l.t].kind = "reply"
  /\ l.in_reply_to \in Txns /\ Sync(X, l.in_reply_to)
  /\ k[l.in_reply_to] = "carried" /\ a[l.in_reply_to] = th
  /\ X[l.in_reply_to].to_proc = ProcOf[th]
  /\ l.target_thread \in Threads
  /\ l.target_proc = X[l.t].to_proc
  /\ X[l.in_reply_to].from \in {l.target_thread, NoThread}
  /\ l.target_thread \notin D => X[l.in_reply_to].from = l.target_thread
Holding(PC, th) == PC[th] \in {"send", "reply", "put"}
Holds(PC, LC, th) ==
  Holding(PC, th) => /\ LC[th].target_proc \in Procs
                     /\ LC[th].target_thread # NoThread =>
                          ProcOf[LC[th].target_thread] = LC[th].target_proc
CarryOK(X, D, PC, LC, k, a, th) ==
  /\ PC[th] = "send" => SendCarry(X, LC[th], th, k, a)
  /\ PC[th] = "reply" => ReplyCarry(X, D, LC[th], th, k, a)
  /\ Holds(PC, LC, th)
CarrierOK(PC, LC, k, a, t) ==
  k[t] = "carried" => /\ a[t] \in Threads /\ PC[a[t]] \in {"send", "reply"}
                      /\ t \in {LC[a[t]].t, LC[a[t]].in_reply_to}
Carried(X, D, PC, LC, k, a) ==
  /\ \A th \in Threads : CarryOK(X, D, PC, LC, k, a, th)
  /\ \A t \in Txns : CarrierOK(PC, LC, k, a, t)

\* The transactions binder_send_failed_reply has got to.
Failing(SF, k, a) ==
  /\ \A x \in Threads \cup Procs :
       SF[x] # NoTxn => k[SF[x]] = "failing" /\ a[SF[x]] = x
  /\ \A t \in Txns : k[t] = "failing" =>
       a[t] \in Threads \cup Procs /\ SF[a[t]] = t

\* What can be where, and that it is at home there.
PlaceOK(X, D, k, a, t) ==
  /\ k[t] = "none" <=> X[t].kind \in {"unused", "freed"}
  /\ k[t] \in {"failing", "served", "orphan"} => Sync(X, t)
  /\ k[t] = "async" => X[t].kind = "oneway"
  /\ k[t] = "proc" => X[t].kind \in {"sync", "oneway"}
  /\ k[t] = "thread" => a[t] \in Threads /\ ProcOf[a[t]] = X[t].to_proc
  /\ k[t] \in {"proc", "async"} => a[t] \in Procs /\ a[t] = X[t].to_proc
  /\ k[t] = "served" => /\ a[t] \in Threads /\ a[t] \notin D
                        /\ X[t].to_thread = a[t] /\ X[t].to_proc = ProcOf[a[t]]
  /\ k[t] = "orphan" => /\ a[t] \in Txns /\ Sync(X, a[t])
                        /\ X[a[t]].from = NoThread /\ X[a[t]].from_parent = t
                        /\ X[t].to_proc = NoProc
  /\ k[t] = "failing" /\ X[t].to_proc # NoProc =>
       \/ a[t] \in Threads /\ ProcOf[a[t]] = X[t].to_proc
       \/ a[t] \in Procs /\ a[t] = X[t].to_proc
Placed(X, D, k, a) == \A t \in Txns : PlaceOK(X, D, k, a, t)

\* The ends of a call, and the call it is nested in: the one before it among
\* those that belong to the same first call.  The nested one has the other's
\* server for its caller, or, when that is dead, stands in for it.
CallOK(X, D, r, t) ==
  /\ ~Sync(X, t) => X[t].from = NoThread /\ X[t].from_parent = NoTxn
  /\ Sync(X, t) =>
       /\ r[t] <= t
       /\ X[t].from # NoThread => X[t].from \notin D
       /\ X[t].from # NoThread /\ X[t].to_proc # NoProc =>
            ProcOf[X[t].from] # X[t].to_proc
       /\ X[t].to_thread # NoThread =>
            X[t].to_proc # NoProc /\ ProcOf[X[t].to_thread] = X[t].to_proc
NestOK(X, k, a, r, t) ==
  LET p == X[t].from_parent
  IN Sync(X, t) =>
       /\ p = NoTxn => \A s \in Txns : Sync(X, s) /\ r[s] = r[t] => t <= s
       /\ p # NoTxn =>
            /\ p < t /\ Sync(X, p) /\ r[p] = r[t]
            /\ \A s \in Txns : Sync(X, s) /\ r[s] = r[t] /\ s < t => s <= p
            /\ X[t].from # NoThread => k[p] = "served" /\ a[p] = X[t].from
            /\ X[t].from = NoThread => k[p] = "orphan" /\ a[p] = t
Tree(X, D, k, a, r) ==
  \A t \in Txns : CallOK(X, D, r, t) /\ NestOK(X, k, a, r, t)

\* A live thread's stack: the calls it waits for and the ones it serves, all
\* of one chain, each above the one before it.
Mine(X, k, a, th, t) ==
  Sync(X, t) /\ (X[t].from = th \/ (k[t] = "served" /\ a[t] = th))
Below(X, th, t) ==
  IF X[t].to_thread = th THEN X[t].to_parent ELSE X[t].from_parent
FrameOK(X, K, k, a, r, th, t) ==
  LET p == Below(X, th, t)
  IN /\ t <= K[th] /\ r[t] = r[K[th]]
     /\ p < t
     /\ p # NoTxn => Mine(X, k, a, th, p)
     /\ \A s \in Txns : Mine(X, k, a, th, s) /\ s < t => s <= p
     /\ X[t].to_thread = th /\ p # NoTxn => X[p].from = th
StackOK(X, K, k, a, r, th) ==
  /\ K[th] # NoTxn => Mine(X, k, a, th, K[th])
  /\ \A t \in Txns : Mine(X, k, a, th, t) => FrameOK(X, K, k, a, r, th, t)
AllStacks(X, D, K, k, a, r) ==
  \A th \in Threads : th \notin D => StackOK(X, K, k, a, r, th)

\* A call sent to a thread that already waits in the same chain finds it
\* waiting; one that was given to an idle thread finds it idle.
Back(X, K, r, th, t) ==
  /\ K[th] # NoTxn /\ K[th] < t
  /\ X[K[th]].from = th /\ r[K[th]] = r[t]
QueuedOK(X, D, K, L, k, a, r, t) ==
  k[t] = "thread" /\ Sync(X, t) /\ a[t] \notin D =>
    \/ X[t].to_thread = a[t] /\ Back(X, K, r, a[t], t)
    \/ /\ X[t].to_thread = NoThread /\ K[a[t]] = NoTxn
       /\ Head(L[a[t]]) = TxnItem(t)
SentOK(X, D, K, LC, r, th) ==
  LET u == LC[th].target_thread
  IN Sync(X, LC[th].t) /\ u # NoThread /\ u \notin D => Back(X, K, r, u, LC[th].t)
Directed(X, D, K, L, PC, LC, k, a, r) ==
  /\ \A t \in Txns : QueuedOK(X, D, K, L, k, a, r, t)
  /\ \A th \in Threads : PC[th] = "send" => SentOK(X, D, K, LC, r, th)

\* The buffer of a transaction that has not been delivered is as it was made.
Fresh(x, b) ==
  /\ x.buffer /\ x.to_proc # NoProc
  /\ b.st = "kernel" /\ b.owner = x.to_proc /\ b.transaction
  /\ b.node = IF x.kind = "reply" THEN NoProc ELSE x.to_proc
  /\ b.async <=> x.kind = "oneway"
BufOK(x, b) ==
  /\ x.buffer => x.to_proc # NoProc /\ b.st # "none" /\ b.owner = x.to_proc
  /\ b.transaction => x.buffer
  /\ b.st = "user" /\ x.buffer => b.transaction
  /\ x.kind \in {"unused", "freed"} => ~x.buffer
  /\ x.kind = "unused" => b.st = "none"
  /\ b.st = "none" => ~b.async
  /\ b.async => b.node = b.owner /\ b.owner \in Procs
BufferOK(X, B, LC, k, a, t) ==
  /\ k[t] \in {"thread", "proc", "async"} => Fresh(X[t], B[t])
  /\ k[t] = "carried" /\ t = LC[a[t]].t => Fresh(X[t], B[t])
  /\ BufOK(X[t], B[t])
Buffers(X, B, LC, k, a) == \A t \in Txns : BufferOK(X, B, LC, k, a, t)

\* A buffer on its way out after its descriptors could not be installed.
DropOK(X, B, PC, LC, SF, th) ==
  LET t == LC[th].t
  IN /\ t \in Txns /\ (X[t].kind = "freed" \/ SF[th] = t)
     /\ B[t].st = "kernel" /\ ~B[t].transaction /\ B[t].owner = ProcOf[th]
     /\ B[t].node = NoProc => X[t].kind = "freed"
     /\ \A u \in Threads : PC[u] = "dropbuf" /\ LC[u].t = t => u = th
Drops(X, B, PC, LC, SF) ==
  \A th \in Threads : PC[th] = "dropbuf" => DropOK(X, B, PC, LC, SF, th)

\* Where a thread can be, and what it then has.
ThreadOK(D, K, L, W, PC, LC, SF, th) ==
  /\ th \in D <=> PC[th] \in {"release", "gone"}
  /\ PC[th] = "gone" => L[th] = <<>>
  /\ PC[th] \in {"send", "reply", "wait", "loop", "gone"} => SF[th] = NoTxn
  /\ th \in W => /\ PC[th] = "wait" /\ L[th] = <<>>
                 /\ LC[th].wait_for_proc_work
  /\ LC[th].wait_for_proc_work =>
       PC[th] \in {"wait", "loop", "dropbuf"} /\ K[th] = NoTxn
ThreadStates(D, K, L, W, PC, LC, SF) ==
  \A th \in Threads : ThreadOK(D, K, L, W, PC, LC, SF, th)

\* How far the release of a process has got.
ProcOK(PS, PD, PQ, PR, NL, NQ, PC, SF, p) ==
  /\ p \in PD <=> PS[p] # "open"
  /\ p \in NL <=> PS[p] \in {"open", "threads"}
  /\ p \notin NL => NQ[p] = <<>>
  /\ PS[p] # "todo" => SF[p] = NoTxn
  /\ PS[p] \in {"released", "freed"} => PQ[p] = <<>>
  /\ PS[p] = "freed" => PR[p] = 0
  /\ \A th \in Threads : ProcOf[th] = p =>
       /\ PS[p] = "threads" => \/ PC[th] \in {"release", "gone"}
                               \/ PC[th] = "user" /\ SF[th] = NoTxn
       /\ PS[p] \in {"todo", "released", "freed"} => PC[th] = "gone"
ProcStates(PS, PD, PQ, PR, NL, NQ, PC, SF) ==
  \A p \in Procs : ProcOK(PS, PD, PQ, PR, NL, NQ, PC, SF, p)

\* tmp_ref counts who holds a thread or a process: threads between two steps
\* of binder_transaction, a thread's own release, the threads of a process
\* that are dead and not freed, and the release of the process.
ThreadHolders(PC, LC, u) ==
  {th \in Threads : Holding(PC, th) /\ LC[th].target_thread = u}
ProcHolders(PC, LC, p) ==
  {th \in Threads : Holding(PC, th) /\ LC[th].target_proc = p}
Unfreed(D, TR, p) == {u \in Threads : ProcOf[u] = p /\ u \in D /\ TR[u] > 0}
One(b) == IF b THEN 1 ELSE 0
ThreadCounts(TR, PC, LC) == \A u \in Threads :
  TR[u] = Cardinality(ThreadHolders(PC, LC, u)) + One(PC[u] = "release")
ProcCounts(D, TR, PS, PR, PC, LC) == \A p \in Procs :
  PR[p] = Cardinality(ProcHolders(PC, LC, p)) + Cardinality(Unfreed(D, TR, p))
          + One(PS[p] \in {"threads", "todo"})

\* One-way calls of a node: at most one is past async_todo, and while one is
\* or something waits, has_async_transaction is set.
Active(B, NQ, PC, LC, p) ==
  {t \in Txns : /\ B[t].st # "none" /\ B[t].async /\ B[t].node = p
                /\ t \notin ToSet(NQ[p])
                /\ \A th \in Threads : PC[th] = "send" => LC[th].t # t}
OnewayOK(B, PD, NA, NQ, PC, LC, p) ==
  /\ \A s, t \in Active(B, NQ, PC, LC, p) : s = t
  /\ Active(B, NQ, PC, LC, p) # {} => p \in NA
  /\ p \in NA /\ p \notin PD => Active(B, NQ, PC, LC, p) # {}
  /\ NQ[p] # <<>> => Active(B, NQ, PC, LC, p) # {}
Oneways(B, PD, NL, NA, NQ, PC, LC) ==
  \A p \in NL : OnewayOK(B, PD, NA, NQ, PC, LC, p)

\* A queued error is set, a reply_error that is set is queued, and a call
\* under way has its TRANSACTION_COMPLETE queued.
NoticeOK(D, L, RE, PE, PC, th) ==
  /\ Item("return_error") \in ToSet(L[th]) => RE[th] # "OK"
  /\ Item("reply_error") \in ToSet(L[th]) => PE[th] # "OK"
  /\ th \notin D /\ PE[th] # "OK" => Item("reply_error") \in ToSet(L[th])
  /\ PC[th] = "send" => Item("complete") \in ToSet(L[th])
  /\ PC[th] \in {"send", "reply"} => RE[th] = "OK"
Notices(D, L, RE, PE, PC) ==
  \A th \in Threads : NoticeOK(D, L, RE, PE, PC, th)

\* TodoFlagTrue.
FlagOK(X, K, L, F, th) ==
  /\ th \in F => L[th] # <<>>
  /\ L[th] # <<>> /\ th \notin F =>
       /\ L[th] = <<Item("complete")>>
       /\ K[th] # NoTxn /\ X[K[th]].from = th
Flags(X, D, K, L, F) == \A th \in Threads : th \notin D => FlagOK(X, K, L, F, th)

\* The inductive invariant.
PlaceInv(k, a) ==
  /\ Names(txn)
  /\ ThreadLists(Todos, k, a)
  /\ TxnLists(ProcTodos, "proc", k, a) /\ TxnLists(AsyncTodos, "async", k, a)
  /\ Carried(txn, Dead, pc, loc, k, a) /\ Failing(sfr, k, a)
  /\ Placed(txn, Dead, k, a)
CallInv(k, a, r) ==
  /\ Tree(txn, Dead, k, a, r) /\ AllStacks(txn, Dead, Stacks, k, a, r)
  /\ Directed(txn, Dead, Stacks, Todos, pc, loc, k, a, r)
BufInv(k, a) == Buffers(txn, buf, loc, k, a) /\ Drops(txn, buf, pc, loc, sfr)
StateInv ==
  /\ ThreadStates(Dead, Stacks, Todos, Waiting, pc, loc, sfr)
  /\ ProcStates(ProcSts, DeadProcs, ProcTodos, ProcRefs, LiveNodes, AsyncTodos, pc, sfr)
  /\ ThreadCounts(ThreadRefs, pc, loc)
  /\ ProcCounts(Dead, ThreadRefs, ProcSts, ProcRefs, pc, loc)
WorkInv ==
  /\ Oneways(buf, DeadProcs, LiveNodes, AsyncNodes, AsyncTodos, pc, loc)
  /\ Notices(Dead, Todos, ReturnErrors, ReplyErrors, pc)
  /\ Flags(txn, Dead, Stacks, Todos, Flagged)
Inv(k, a, r) ==
  /\ Ghosts(k, a, r) /\ Typed /\ bug = FALSE
  /\ PlaceInv(k, a) /\ CallInv(k, a, r) /\ BufInv(k, a) /\ StateInv /\ WorkInv
-----------------------------------------------------------------------------
(* Sequences, smallest and largest numbers.                                *)

\* A sequence with an element appended.
LEMMA SeqAppend ==
  ASSUME NEW S, NEW s \in Seq(S), NEW x \in S
  PROVE  /\ Append(s, x) \in Seq(S) /\ Append(s, x) # <<>>
         /\ Len(Append(s, x)) = Len(s) + 1 /\ Len(s) \in Nat
         /\ \A i \in 1 .. Len(s) : Append(s, x)[i] = s[i]
         /\ Append(s, x)[Len(s) + 1] = x
         /\ ToSet(Append(s, x)) = ToSet(s) \cup {x}
<1>1. /\ Append(s, x) \in Seq(S) /\ Append(s, x) # <<>>
      /\ Len(Append(s, x)) = Len(s) + 1 /\ Len(s) \in Nat
      /\ \A i \in 1 .. Len(s) : Append(s, x)[i] = s[i]
      /\ Append(s, x)[Len(s) + 1] = x
  OBVIOUS
<1>2. DOMAIN s = 1 .. Len(s) /\ DOMAIN Append(s, x) = 1 .. Len(s) + 1
  BY <1>1
<1>3. ASSUME NEW y PROVE y \in ToSet(Append(s, x)) <=> y \in ToSet(s) \/ y = x
  <2>1. ASSUME y \in ToSet(Append(s, x)) PROVE y \in ToSet(s) \/ y = x
    <3>1. PICK i \in 1 .. Len(s) + 1 : y = Append(s, x)[i]
      BY <2>1, <1>2 DEF ToSet
    <3>2. CASE i = Len(s) + 1
      BY <3>1, <3>2, <1>1
    <3>3. CASE i # Len(s) + 1
      <4>1. i \in 1 .. Len(s)
        BY <3>3, <1>1
      <4>. QED BY <4>1, <3>1, <1>1, <1>2 DEF ToSet
    <3>. QED BY <3>2, <3>3
  <2>2. ASSUME y \in ToSet(s) PROVE y \in ToSet(Append(s, x))
    <3>1. PICK i \in 1 .. Len(s) : y = s[i]
      BY <2>2, <1>2 DEF ToSet
    <3>2. i \in 1 .. Len(s) + 1 /\ Append(s, x)[i] = y
      BY <3>1, <1>1
    <3>. QED BY <3>2, <1>2 DEF ToSet
  <2>3. x \in ToSet(Append(s, x))
    <3>1. Len(s) + 1 \in 1 .. Len(s) + 1
      BY <1>1
    <3>. QED BY <3>1, <1>1, <1>2 DEF ToSet
  <2>. QED BY <2>1, <2>2, <2>3
<1>. QED BY <1>1, <1>3

\* A sequence without its head.
LEMMA SeqTail ==
  ASSUME NEW S, NEW s \in Seq(S), s # <<>>
  PROVE  /\ Tail(s) \in Seq(S) /\ Head(s) \in S
         /\ Len(Tail(s)) = Len(s) - 1 /\ Len(s) \in Nat \ {0} /\ Head(s) = s[1]
         /\ \A i \in 1 .. Len(s) - 1 : Tail(s)[i] = s[i + 1]
         /\ ToSet(s) = ToSet(Tail(s)) \cup {Head(s)}
<1>1. /\ Tail(s) \in Seq(S) /\ Head(s) \in S
      /\ Len(Tail(s)) = Len(s) - 1 /\ Len(s) \in Nat \ {0} /\ Head(s) = s[1]
      /\ \A i \in 1 .. Len(s) - 1 : Tail(s)[i] = s[i + 1]
  OBVIOUS
<1>2. DOMAIN s = 1 .. Len(s) /\ DOMAIN Tail(s) = 1 .. Len(s) - 1
  BY <1>1
<1>3. ASSUME NEW y PROVE y \in ToSet(s) <=> y \in ToSet(Tail(s)) \/ y = Head(s)
  <2>1. ASSUME y \in ToSet(s) PROVE y \in ToSet(Tail(s)) \/ y = Head(s)
    <3>1. PICK i \in 1 .. Len(s) : y = s[i]
      BY <2>1, <1>2 DEF ToSet
    <3>2. CASE i = 1
      BY <3>1, <3>2, <1>1
    <3>3. CASE i # 1
      <4>1. i - 1 \in 1 .. Len(s) - 1 /\ Tail(s)[i - 1] = y
        BY <3>1, <3>3, <1>1
      <4>. QED BY <4>1, <1>2 DEF ToSet
    <3>. QED BY <3>2, <3>3
  <2>2. ASSUME y \in ToSet(Tail(s)) PROVE y \in ToSet(s)
    <3>1. PICK i \in 1 .. Len(s) - 1 : y = Tail(s)[i]
      BY <2>2, <1>2 DEF ToSet
    <3>2. i + 1 \in 1 .. Len(s) /\ s[i + 1] = y
      BY <3>1, <1>1
    <3>. QED BY <3>2, <1>2 DEF ToSet
  <2>3. Head(s) \in ToSet(s)
    <3>1. 1 \in 1 .. Len(s)
      BY <1>1
    <3>. QED BY <3>1, <1>1, <1>2 DEF ToSet
  <2>. QED BY <2>1, <2>2, <2>3
<1>. QED BY <1>1, <1>3

\* The elements of the empty list, and of a list of one.
LEMMA SeqSmall ==
  /\ ToSet(<<>>) = {}
  /\ \A x : ToSet(<<x>>) = {x} /\ <<x>> # <<>> /\ Tail(<<x>>) = <<>> /\ Head(<<x>>) = x
<1>1. ToSet(<<>>) = {}
  BY DEF ToSet
<1>2. ASSUME NEW x
      PROVE ToSet(<<x>>) = {x} /\ <<x>> # <<>> /\ Tail(<<x>>) = <<>> /\ Head(<<x>>) = x
  <2>1. DOMAIN <<x>> = {1} /\ <<x>>[1] = x
    OBVIOUS
  <2>2. ToSet(<<x>>) = {x}
    BY <2>1 DEF ToSet
  <2>. QED BY <2>2
<1>. QED BY <1>1, <1>2

\* A notice or a transaction is added to a list where it is not yet.
LEMMA OnceAppend ==
  ASSUME NEW s \in Seq(Work), Once(s), NEW x \in Work,
         x.type = "complete" \/ x \notin ToSet(s)
  PROVE  Once(Append(s, x))
<1>1. SUFFICES ASSUME NEW i \in 1 .. Len(Append(s, x)), NEW j \in 1 .. Len(Append(s, x)),
                      Append(s, x)[i].type # "complete", Append(s, x)[i] = Append(s, x)[j]
               PROVE  i = j
  BY DEF Once
<1>0. i \in 1 .. Len(s) + 1 /\ j \in 1 .. Len(s) + 1 /\ Len(s) \in Nat
  BY SeqAppend
<1>2. CASE i \in 1 .. Len(s) /\ j \in 1 .. Len(s)
  BY <1>1, <1>2, SeqAppend DEF Once
<1>3. CASE i = Len(s) + 1 /\ j \in 1 .. Len(s)
  <2>1. x = s[j] /\ x.type # "complete"
    BY <1>1, <1>3, SeqAppend
  <2>2. s[j] \in ToSet(s)
    BY <1>3, LenProperties DEF ToSet
  <2>. QED BY <2>1, <2>2
<1>4. CASE j = Len(s) + 1 /\ i \in 1 .. Len(s)
  <2>1. x = s[i] /\ x.type # "complete"
    BY <1>1, <1>4, SeqAppend
  <2>2. s[i] \in ToSet(s)
    BY <1>4, LenProperties DEF ToSet
  <2>. QED BY <2>1, <2>2
<1>. QED BY <1>0, <1>2, <1>3, <1>4

\* A list without its head.
LEMMA OnceTail ==
  ASSUME NEW s \in Seq(Work), s # <<>>, Once(s)
  PROVE  /\ Once(Tail(s))
         /\ Head(s).type # "complete" => Head(s) \notin ToSet(Tail(s))
<1>0. Len(s) \in Nat \ {0} /\ Len(Tail(s)) = Len(s) - 1
  BY SeqTail
<1>1. ASSUME NEW i \in 1 .. Len(Tail(s)), NEW j \in 1 .. Len(Tail(s)),
             Tail(s)[i].type # "complete", Tail(s)[i] = Tail(s)[j]
      PROVE  i = j
  <2>1. i + 1 \in 1 .. Len(s) /\ j + 1 \in 1 .. Len(s)
    BY <1>0
  <2>2. s[i + 1].type # "complete" /\ s[i + 1] = s[j + 1]
    BY <1>1, <1>0, SeqTail
  <2>3. i + 1 = j + 1
    BY <2>1, <2>2 DEF Once
  <2>. QED BY <2>3, <1>0
<1>2. ASSUME Head(s).type # "complete", Head(s) \in ToSet(Tail(s)) PROVE FALSE
  <2>1. PICK i \in 1 .. Len(s) - 1 : Tail(s)[i] = Head(s)
    BY <1>2, <1>0, SeqTail, LenProperties DEF ToSet
  <2>2. s[i + 1] = s[1] /\ i + 1 \in 1 .. Len(s) /\ 1 \in 1 .. Len(s) /\ s[1].type # "complete"
    BY <2>1, <1>0, <1>2, SeqTail
  <2>3. i + 1 = 1
    BY <2>2 DEF Once
  <2>. QED BY <2>3, <2>1, <1>0
<1>. QED BY <1>1, <1>2 DEF Once

\* The same of lists of transactions.
LEMMA DistinctAppend ==
  ASSUME NEW s \in Seq(Txns), Distinct(s), NEW x \in Txns, x \notin ToSet(s)
  PROVE  Distinct(Append(s, x))
<1>1. SUFFICES ASSUME NEW i \in 1 .. Len(Append(s, x)), NEW j \in 1 .. Len(Append(s, x)),
                      Append(s, x)[i] = Append(s, x)[j]
               PROVE  i = j
  BY DEF Distinct
<1>0. i \in 1 .. Len(s) + 1 /\ j \in 1 .. Len(s) + 1 /\ Len(s) \in Nat
  BY SeqAppend
<1>2. CASE i \in 1 .. Len(s) /\ j \in 1 .. Len(s)
  BY <1>1, <1>2, SeqAppend DEF Distinct
<1>3. CASE i = Len(s) + 1 /\ j \in 1 .. Len(s)
  <2>1. x = s[j]
    BY <1>1, <1>3, SeqAppend
  <2>2. s[j] \in ToSet(s)
    BY <1>3, LenProperties DEF ToSet
  <2>. QED BY <2>1, <2>2
<1>4. CASE j = Len(s) + 1 /\ i \in 1 .. Len(s)
  <2>1. x = s[i]
    BY <1>1, <1>4, SeqAppend
  <2>2. s[i] \in ToSet(s)
    BY <1>4, LenProperties DEF ToSet
  <2>. QED BY <2>1, <2>2
<1>. QED BY <1>0, <1>2, <1>3, <1>4

\* And of those without their heads.
LEMMA DistinctTail ==
  ASSUME NEW s \in Seq(Txns), s # <<>>, Distinct(s)
  PROVE  Distinct(Tail(s)) /\ Head(s) \notin ToSet(Tail(s))
<1>0. Len(s) \in Nat \ {0} /\ Len(Tail(s)) = Len(s) - 1
  BY SeqTail
<1>1. ASSUME NEW i \in 1 .. Len(Tail(s)), NEW j \in 1 .. Len(Tail(s)), Tail(s)[i] = Tail(s)[j]
      PROVE  i = j
  <2>1. i + 1 \in 1 .. Len(s) /\ j + 1 \in 1 .. Len(s)
    BY <1>0
  <2>2. s[i + 1] = s[j + 1]
    BY <1>1, <1>0, SeqTail
  <2>3. i + 1 = j + 1
    BY <2>1, <2>2 DEF Distinct
  <2>. QED BY <2>3, <1>0
<1>2. ASSUME Head(s) \in ToSet(Tail(s)) PROVE FALSE
  <2>1. PICK i \in 1 .. Len(s) - 1 : Tail(s)[i] = Head(s)
    BY <1>2, <1>0, SeqTail, LenProperties DEF ToSet
  <2>2. s[i + 1] = s[1] /\ i + 1 \in 1 .. Len(s) /\ 1 \in 1 .. Len(s)
    BY <2>1, <1>0, SeqTail
  <2>3. i + 1 = 1
    BY <2>2 DEF Distinct
  <2>. QED BY <2>3, <2>1, <1>0
<1>. QED BY <1>1, <1>2 DEF Distinct

\* A set of numbers that is not empty has a smallest one.
LEMMA Smallest ==
  ASSUME NEW T \in SUBSET Nat, T # {}
  PROVE  \E x \in T : \A y \in T : x <= y
<1> DEFINE R == OpToRel(<, Nat)
<1>1. IsWellFoundedOn(R, Nat)
  BY NatLessThanWellFounded
<1>2. \A x, y \in Nat : <<x, y>> \in R <=> x < y
  BY DEF OpToRel
<1> HIDE DEF R
<1>3. PICK x \in T : \A y \in T : ~(<<y, x>> \in R)
  BY <1>1, WFMin
<1>4. x \in Nat /\ \A y \in T : y \in Nat
  OBVIOUS
<1>5. \A y \in T : ~(y < x)
  BY <1>2, <1>3, <1>4
<1>6. \A y \in T : x <= y
  BY <1>4, <1>5
<1>. QED BY <1>6

\* One that is bounded has a largest one.
LEMMA Largest ==
  ASSUME NEW n \in Nat, NEW T \in SUBSET (0 .. n), T # {}
  PROVE  \E x \in T : \A y \in T : x >= y
<1> DEFINE U == {n - x : x \in T}
<1>1. U \in SUBSET Nat /\ U # {}
  <2>1. \A x \in T : x \in 0 .. n
    OBVIOUS
  <2>2. \A x \in T : n - x \in Nat
    BY <2>1
  <2>. QED BY <2>2
<1>2. PICK u \in U : \A v \in U : u <= v
  BY <1>1, Smallest
<1>3. PICK x \in T : u = n - x
  OBVIOUS
<1>4. \A y \in T : n - y \in U
  OBVIOUS
<1>5. ASSUME NEW y \in T PROVE x >= y
  <2>1. n - x <= n - y
    BY <1>2, <1>3, <1>4
  <2>2. x \in 0 .. n /\ y \in 0 .. n
    OBVIOUS
  <2>. QED BY <2>1, <2>2
<1>. QED BY <1>5
-----------------------------------------------------------------------------
(* Chains of nested calls.                                                 *)

\* Names of transactions are positive, NoTxn is 0.
LEMMA TxnNumbers ==
  /\ \A t \in Txns : t \in Nat /\ t > 0 /\ t # NoTxn /\ t <= MaxTxns /\ t \in 0 .. MaxTxns
  /\ \A t \in 0 .. MaxTxns : t # NoTxn => t \in Txns
  /\ NoTxn \in 0 .. MaxTxns /\ NoTxn \notin Txns /\ NoTxn = 0
  BY BoundAssumption DEF Txns, NoTxn

\* The fields of a transaction that calls are about.
LEMMA TxnFields ==
  ASSUME NEW X \in [Txns -> Txn], NEW t \in Txns
  PROVE  /\ X[t].from_parent \in 0 .. MaxTxns /\ X[t].to_parent \in 0 .. MaxTxns
         /\ X[t].from \in Threads \cup {NoThread}
         /\ X[t].to_thread \in Threads \cup {NoThread}
         /\ X[t].to_proc \in Procs \cup {NoProc}
         /\ X[t].buffer \in BOOLEAN
  BY DEF Txn

NoChild(X, t) == \A c \in Txns : Sync(X, c) => X[c].from_parent # t

\* Only a call that is served, or whose server died, has a nested one.
LEMMA LeafNoChild ==
  ASSUME NEW X, NEW D, NEW k, NEW a, NEW r, Tree(X, D, k, a, r),
         NEW t \in Txns, k[t] \notin {"served", "orphan"}
  PROVE  NoChild(X, t)
<1>1. SUFFICES ASSUME NEW c \in Txns, Sync(X, c), X[c].from_parent = t
               PROVE  FALSE
  BY DEF NoChild
<1>2. NestOK(X, k, a, r, c)
  BY DEF Tree
<1>. QED BY <1>1, <1>2, TxnNumbers DEF NestOK

\* Only calls have nested ones.
LEMMA OtherNoChild ==
  ASSUME NEW X, NEW D, NEW k, NEW a, NEW r, Tree(X, D, k, a, r),
         NEW t \in Txns, ~Sync(X, t)
  PROVE  NoChild(X, t)
<1>1. SUFFICES ASSUME NEW c \in Txns, Sync(X, c), X[c].from_parent = t
               PROVE  FALSE
  BY DEF NoChild
<1>2. NestOK(X, k, a, r, c)
  BY DEF Tree
<1>. QED BY <1>1, <1>2, TxnNumbers DEF NestOK

\* A call with no nested one is the last of its chain.
LEMMA ChainEnd ==
  ASSUME NEW X \in [Txns -> Txn], NEW D, NEW k, NEW a, NEW r, Tree(X, D, k, a, r),
         NEW t \in Txns, Sync(X, t), NoChild(X, t)
  PROVE  \A s \in Txns : Sync(X, s) /\ r[s] = r[t] => s <= t
<1> DEFINE T == {s \in Txns : Sync(X, s) /\ r[s] = r[t] /\ t < s}
<1>1. SUFFICES ASSUME T # {} PROVE FALSE
  BY TxnNumbers
<1>2. T \in SUBSET Nat
  BY TxnNumbers
<1>3. PICK m \in T : \A s \in T : m <= s
  BY <1>1, <1>2, Smallest
<1>4. /\ m \in Txns /\ Sync(X, m) /\ r[m] = r[t] /\ t < m
      /\ m \in Nat /\ t \in Nat
  BY TxnNumbers
<1>5. NestOK(X, k, a, r, m)
  BY <1>4 DEF Tree
<1> DEFINE p == X[m].from_parent
<1>6. p # NoTxn
  <2>1. p = NoTxn => m <= t
    BY <1>4, <1>5 DEF NestOK
  <2>. QED BY <2>1, <1>4
<1>7. p \in Txns /\ p < m /\ Sync(X, p) /\ r[p] = r[m] /\ t <= p /\ p \in Nat
  <2>1. p \in Txns
    BY <1>6, <1>4, TxnFields, TxnNumbers
  <2>2. p < m /\ Sync(X, p) /\ r[p] = r[m] /\ t <= p
    BY <1>4, <1>5, <1>6 DEF NestOK
  <2>. QED BY <2>1, <2>2, TxnNumbers
<1>8. p # t
  BY <1>4 DEF NoChild
<1> HIDE DEF p
<1>9. p \in T
  BY <1>4, <1>7, <1>8
<1>. QED BY <1>3, <1>4, <1>7, <1>9

\* A call has at most one nested in it.
LEMMA OneChild ==
  ASSUME NEW X \in [Txns -> Txn], NEW D, NEW k, NEW a, NEW r, Tree(X, D, k, a, r),
         NEW c \in Txns, NEW d \in Txns, Sync(X, c), Sync(X, d),
         X[c].from_parent = X[d].from_parent, X[c].from_parent # NoTxn
  PROVE  c = d
<1> DEFINE p == X[c].from_parent
<1>1. p \in Txns /\ p \in Nat /\ c \in Nat /\ d \in Nat
  BY TxnFields, TxnNumbers
<1>2. NestOK(X, k, a, r, c) /\ NestOK(X, k, a, r, d)
  BY DEF Tree
<1>3. /\ p < c /\ p < d /\ r[p] = r[c] /\ r[p] = r[d]
      /\ d < c => d <= p
      /\ c < d => c <= p
  BY <1>2 DEF NestOK
<1>. QED BY <1>1, <1>3

\* Places of calls with nested ones are kept.
Keeps(X, k, a, k2, a2) ==
  \A c \in Txns : Sync(X, c) /\ X[c].from_parent # NoTxn =>
    /\ k2[X[c].from_parent] = k[X[c].from_parent]
    /\ a2[X[c].from_parent] = a[X[c].from_parent]

\* The move of a transaction in which no call is nested disturbs no parent.
LEMMA KeepsMove ==
  ASSUME NEW X \in [Txns -> Txn], NEW k, NEW a, NEW k2, NEW a2, NEW t,
         NoChild(X, t), \A s \in Txns : s # t => k2[s] = k[s] /\ a2[s] = a[s]
  PROVE  Keeps(X, k, a, k2, a2)
  BY TxnFields, TxnNumbers DEF Keeps, NoChild

\* The calls are the same, and nobody new is dead.
LEMMA TreeKeep ==
  ASSUME NEW X \in [Txns -> Txn], NEW D, NEW k, NEW a, NEW r, Tree(X, D, k, a, r),
         NEW X2, NEW D2, NEW k2, NEW a2, Keeps(X, k, a, k2, a2), D2 \subseteq D,
         \A t \in Txns : /\ X2[t].kind = X[t].kind /\ X2[t].from = X[t].from
                         /\ X2[t].from_parent = X[t].from_parent
                         /\ X2[t].to_proc = X[t].to_proc
                         /\ X2[t].to_thread = X[t].to_thread
  PROVE  Tree(X2, D2, k2, a2, r)
<1>1. SUFFICES ASSUME NEW t \in Txns
               PROVE  CallOK(X2, D2, r, t) /\ NestOK(X2, k2, a2, r, t)
  BY DEF Tree
<1>2. CallOK(X, D, r, t) /\ NestOK(X, k, a, r, t)
  BY DEF Tree
<1>3. CallOK(X2, D2, r, t)
  BY <1>2 DEF CallOK, Sync
<1>4. X[t].from_parent # NoTxn => X[t].from_parent \in Txns
  BY TxnFields, TxnNumbers
<1>5. NestOK(X2, k2, a2, r, t)
  BY <1>2, <1>4 DEF NestOK, Keeps, Sync
<1>. QED BY <1>3, <1>5

\* A transaction that has no nested call ends, or a name becomes one that is
\* not a call.
LEMMA TreeEnd ==
  ASSUME NEW X \in [Txns -> Txn], NEW D, NEW k, NEW a, NEW r, Tree(X, D, k, a, r),
         NEW t \in Txns, NoChild(X, t), NEW X2, NEW k2, NEW a2,
         X2[t].kind # "sync", X2[t].from = NoThread, X2[t].from_parent = NoTxn,
         \A s \in Txns : s # t => X2[s] = X[s],
         \A s \in Txns : s # t /\ s # X[t].from_parent => k2[s] = k[s] /\ a2[s] = a[s]
  PROVE  Tree(X2, D, k2, a2, r)
<1>1. /\ \A s \in Txns : s # t => X2[s] = X[s]
      /\ \A s \in Txns : Sync(X2, s) => s # t /\ Sync(X, s)
  BY DEF Sync
<1>2. SUFFICES ASSUME NEW s \in Txns
               PROVE  CallOK(X2, D, r, s) /\ NestOK(X2, k2, a2, r, s)
  BY DEF Tree
<1>3. CallOK(X, D, r, s) /\ NestOK(X, k, a, r, s)
  BY DEF Tree
<1>4. CASE s = t
  BY <1>1, <1>4 DEF CallOK, NestOK, Sync
<1>5. CASE s # t
  <2>1. X2[s] = X[s]
    BY <1>1, <1>5
  <2>2. CallOK(X2, D, r, s)
    BY <1>3, <2>1 DEF CallOK, Sync
  <2>3. SUFFICES ASSUME Sync(X, s) PROVE NestOK(X2, k2, a2, r, s)
    BY <2>1, <2>2 DEF NestOK, Sync
  <2> DEFINE p == X[s].from_parent
  <2>4. CASE p = NoTxn
    BY <2>1, <2>3, <2>4, <1>1, <1>3 DEF NestOK
  <2>5. CASE p # NoTxn
    <3>1. p \in Txns /\ p # t
      BY <2>5, <2>3, TxnFields, TxnNumbers DEF NoChild
    <3>2. p # X[t].from_parent
      <4>1. Sync(X, t) => p # X[t].from_parent
        BY <2>3, <2>5, <1>5, OneChild
      <4>2. ~Sync(X, t) => X[t].from_parent = NoTxn
        BY DEF Tree, CallOK
      <4>. QED BY <4>1, <4>2, <2>5
    <3>3. k2[p] = k[p] /\ a2[p] = a[p] /\ X2[p] = X[p]
      BY <3>1, <3>2, <1>1
    <3>4. Sync(X2, p) <=> Sync(X, p)
      BY <3>3 DEF Sync
    <3>. QED BY <3>1, <3>3, <3>4, <2>1, <2>3, <2>5, <1>1, <1>3 DEF NestOK
  <2>. QED BY <2>4, <2>5
<1>. QED BY <1>4, <1>5

\* A thread calls, first of a chain or from the call it serves.
LEMMA TreeCall ==
  ASSUME NEW X \in [Txns -> Txn], NEW D, NEW k, NEW a, NEW r \in [Txns -> Txns],
         Tree(X, D, k, a, r), NEW t \in Txns, ~Sync(X, t), NEW top \in 0 .. MaxTxns,
         \A s \in Txns : Sync(X, s) => s < t, NEW th \in Threads, th \notin D,
         top # NoTxn => Sync(X, top) /\ k[top] = "served" /\ a[top] = th /\ NoChild(X, top),
         NEW X2, X2[t].kind = "sync", X2[t].from = th, X2[t].from_parent = top,
         X2[t].to_proc \in Procs, ProcOf[th] # X2[t].to_proc,
         X2[t].to_thread # NoThread => ProcOf[X2[t].to_thread] = X2[t].to_proc,
         \A s \in Txns : s # t => X2[s] = X[s],
         NEW k2, NEW a2, \A s \in Txns : s # t => k2[s] = k[s] /\ a2[s] = a[s],
         NEW r2, r2[t] = IF top = NoTxn THEN t ELSE r[top],
         \A s \in Txns : s # t => r2[s] = r[s]
  PROVE  Tree(X2, D, k2, a2, r2)
<1>1. /\ \A s \in Txns : s # t => X2[s] = X[s]
      /\ \A s \in Txns : s # t => (Sync(X2, s) <=> Sync(X, s))
      /\ \A s \in Txns : s # t => r2[s] = r[s]
      /\ r2[t] = IF top = NoTxn THEN t ELSE r[top]
  BY DEF Sync
<1>2. SUFFICES ASSUME NEW s \in Txns
               PROVE  CallOK(X2, D, r2, s) /\ NestOK(X2, k2, a2, r2, s)
  BY DEF Tree
<1>3. \A u \in Txns : CallOK(X, D, r, u) /\ NestOK(X, k, a, r, u)
  BY DEF Tree
<1>4. \A u \in Txns : Sync(X, u) => r[u] <= u /\ r[u] \in Nat /\ u \in Nat /\ r[u] < t
  <2>1. ASSUME NEW u \in Txns, Sync(X, u) PROVE r[u] <= u
    BY <1>3, <2>1 DEF CallOK
  <2>2. \A u \in Txns : r[u] \in Txns
    OBVIOUS
  <2>. QED BY <2>1, <2>2, TxnNumbers
<1>5. CASE s = t
  <2>0. NoProc \notin Procs /\ NoThread \notin Threads
    BY NullAssumption
  <2>1. CallOK(X2, D, r2, t)
    <3>1. r2[t] <= t
      <4>1. CASE top = NoTxn
        BY <4>1, <1>1, TxnNumbers
      <4>2. CASE top # NoTxn
        <5>1. top \in Txns
          BY <4>2, TxnNumbers
        <5>. QED BY <5>1, <4>2, <1>1, <1>4, TxnNumbers
      <4>. QED BY <4>1, <4>2
    <3>2. X2[t].from = th /\ X2[t].to_proc \in Procs /\ X2[t].kind = "sync"
          /\ (X2[t].to_thread # NoThread => ProcOf[X2[t].to_thread] = X2[t].to_proc)
          /\ ProcOf[th] # X2[t].to_proc
      BY <1>1
    <3>. QED BY <3>1, <3>2, <2>0 DEF CallOK, Sync
  <2>2. NestOK(X2, k2, a2, r2, t)
    <3>1. CASE top = NoTxn
      <4>1. ASSUME NEW u \in Txns, Sync(X2, u), r2[u] = r2[t] PROVE t <= u
        <5>1. CASE u # t
          BY <5>1, <4>1, <3>1, <1>1, <1>4, TxnNumbers
        <5>. QED BY <5>1, TxnNumbers
      <4>. QED BY <4>1, <1>1, <3>1 DEF NestOK
    <3>2. CASE top # NoTxn
      <4>1. top \in Txns /\ top < t /\ Sync(X, top) /\ top # t
        BY <3>2, TxnNumbers
      <4>2. \A u \in Txns : Sync(X, u) /\ r[u] = r[top] => u <= top
        BY <4>1, <3>2, ChainEnd
      <4>3. ASSUME NEW u \in Txns, Sync(X2, u), r2[u] = r2[t], u < t PROVE u <= top
        <5>1. u # t
          BY <4>3, TxnNumbers
        <5>. QED BY <5>1, <4>2, <4>3, <3>2, <1>1
      <4>4. k2[top] = "served" /\ a2[top] = th /\ Sync(X2, top) /\ r2[top] = r2[t]
        BY <4>1, <3>2, <1>1
      <4>5. X2[t].from_parent = top /\ X2[t].from = th /\ th # NoThread
        BY <1>1, <2>0
      <4>. QED BY <4>1, <4>3, <4>4, <4>5, <3>2 DEF NestOK
    <3>. QED BY <3>1, <3>2
  <2>. QED BY <2>1, <2>2, <1>5
<1>6. CASE s # t
  <2>1. X2[s] = X[s] /\ r2[s] = r[s] /\ (Sync(X2, s) <=> Sync(X, s))
    BY <1>1, <1>6
  <2>2. CallOK(X2, D, r2, s)
    BY <1>3, <2>1 DEF CallOK
  <2>3. SUFFICES ASSUME Sync(X, s) PROVE NestOK(X2, k2, a2, r2, s)
    BY <2>1, <2>2 DEF NestOK
  <2>4. s < t /\ NestOK(X, k, a, r, s) /\ s \in Nat /\ t \in Nat
    BY <2>3, <1>3, TxnNumbers
  <2> DEFINE p == X[s].from_parent
  <2>5. CASE p = NoTxn
    <3>1. ASSUME NEW u \in Txns, Sync(X2, u), r2[u] = r2[s] PROVE s <= u
      <4>1. CASE u = t
        BY <4>1, <2>4
      <4>2. CASE u # t
        BY <4>2, <3>1, <2>1, <2>3, <2>4, <2>5, <1>1 DEF NestOK
      <4>. QED BY <4>1, <4>2
    <3>. QED BY <3>1, <2>1, <2>5 DEF NestOK
  <2>6. CASE p # NoTxn
    <3>1. p \in Txns /\ p < s /\ Sync(X, p)
      BY <2>3, <2>4, <2>6, TxnFields, TxnNumbers DEF NestOK
    <3>2. p # t
      BY <3>1, <2>4, TxnNumbers
    <3>3. k2[p] = k[p] /\ a2[p] = a[p] /\ r2[p] = r[p] /\ Sync(X2, p)
      BY <3>1, <3>2, <1>1
    <3>4. ASSUME NEW u \in Txns, Sync(X2, u), r2[u] = r2[s], u < s PROVE u <= p
      <4>1. u # t
        BY <3>4, <2>4, TxnNumbers
      <4>. QED BY <4>1, <3>4, <2>1, <2>3, <2>4, <2>6, <1>1 DEF NestOK
    <3>. QED BY <3>1, <3>3, <3>4, <2>1, <2>3, <2>4, <2>6 DEF NestOK
  <2>. QED BY <2>5, <2>6
<1>. QED BY <1>5, <1>6

\* A call is delivered to a thread of the process it was sent to.
LEMMA TreeDeliver ==
  ASSUME NEW X \in [Txns -> Txn], NEW D, NEW k, NEW a, NEW r, Tree(X, D, k, a, r),
         NEW t \in Txns, NEW th \in Threads, ProcOf[th] = X[t].to_proc,
         NEW X2, NEW k2, NEW a2, Keeps(X, k, a, k2, a2),
         \A s \in Txns : s # t => X2[s] = X[s],
         X2[t].kind = X[t].kind, X2[t].from = X[t].from,
         X2[t].from_parent = X[t].from_parent, X2[t].to_proc = X[t].to_proc,
         X2[t].to_thread = th
  PROVE  Tree(X2, D, k2, a2, r)
<1>0. ProcOf[th] # NoProc
  BY ProcOfAssumption, NullAssumption
<1>1. \A s \in Txns : /\ X2[s].kind = X[s].kind /\ X2[s].from = X[s].from
                      /\ X2[s].from_parent = X[s].from_parent
                      /\ X2[s].to_proc = X[s].to_proc
                      /\ s # t => X2[s].to_thread = X[s].to_thread
      /\ X2[t].to_thread = th
  OBVIOUS
<1>2. SUFFICES ASSUME NEW s \in Txns
               PROVE  CallOK(X2, D, r, s) /\ NestOK(X2, k2, a2, r, s)
  BY DEF Tree
<1>3. CallOK(X, D, r, s) /\ NestOK(X, k, a, r, s)
  BY DEF Tree
<1>4. CallOK(X2, D, r, s)
  <2>1. CASE s = t
    BY <2>1, <1>0, <1>1, <1>3 DEF CallOK, Sync
  <2>2. CASE s # t
    BY <2>2, <1>1, <1>3 DEF CallOK, Sync
  <2>. QED BY <2>1, <2>2
<1>5. X[s].from_parent # NoTxn => X[s].from_parent \in Txns
  BY TxnFields, TxnNumbers
<1>6. NestOK(X2, k2, a2, r, s)
  BY <1>1, <1>3, <1>5 DEF NestOK, Keeps, Sync
<1>. QED BY <1>4, <1>6

\* A thread dies: its own calls lose their caller, and the calls it serves
\* their server; a nested call stands in for the thread from now on.
LEMMA TreeRelease ==
  ASSUME NEW X \in [Txns -> Txn], NEW D, NEW k, NEW a, NEW r, Tree(X, D, k, a, r),
         NEW th \in Threads, NEW X2, NEW k2, NEW a2,
         \A s \in Txns :
           /\ X2[s].kind = X[s].kind /\ X2[s].from_parent = X[s].from_parent
           /\ X2[s].from = IF X[s].from = th THEN NoThread ELSE X[s].from
           /\ IF k[s] = "served" /\ a[s] = th
              THEN X2[s].to_proc = NoProc /\ X2[s].to_thread = NoThread
              ELSE /\ X2[s].to_proc = X[s].to_proc /\ X2[s].to_thread = X[s].to_thread
                   /\ k2[s] = k[s] /\ a2[s] = a[s],
         \A s, c \in Txns : k[s] = "served" /\ a[s] = th /\ Sync(X, c)
                            /\ X[c].from_parent = s => k2[s] = "orphan" /\ a2[s] = c
  PROVE  Tree(X2, D \cup {th}, k2, a2, r)
<1>0. th # NoThread
  BY NullAssumption
<1>2. SUFFICES ASSUME NEW s \in Txns
               PROVE  CallOK(X2, D \cup {th}, r, s) /\ NestOK(X2, k2, a2, r, s)
  BY DEF Tree
<1>3. CallOK(X, D, r, s) /\ NestOK(X, k, a, r, s)
  BY DEF Tree
<1>4. CallOK(X2, D \cup {th}, r, s)
  <2>1. CASE k[s] = "served" /\ a[s] = th
    BY <2>1, <1>3 DEF CallOK, Sync
  <2>2. CASE ~(k[s] = "served" /\ a[s] = th)
    BY <2>2, <1>3 DEF CallOK, Sync
  <2>. QED BY <2>1, <2>2
<1>5. NestOK(X2, k2, a2, r, s)
  <2>1. SUFFICES ASSUME Sync(X, s) PROVE NestOK(X2, k2, a2, r, s)
    BY DEF NestOK, Sync
  <2> DEFINE p == X[s].from_parent
  <2>2. CASE p = NoTxn
    BY <2>1, <2>2, <1>3 DEF NestOK, Sync
  <2>3. CASE p # NoTxn
    <3>1. p \in Txns
      BY <2>3, TxnFields, TxnNumbers
    <3>2. /\ p < s /\ Sync(X, p) /\ r[p] = r[s]
          /\ \A u \in Txns : Sync(X, u) /\ r[u] = r[s] /\ u < s => u <= p
          /\ X[s].from # NoThread => k[p] = "served" /\ a[p] = X[s].from
          /\ X[s].from = NoThread => k[p] = "orphan" /\ a[p] = s
      BY <2>1, <2>3, <1>3 DEF NestOK
    <3>3. /\ X2[s].from # NoThread => k2[p] = "served" /\ a2[p] = X2[s].from
          /\ X2[s].from = NoThread => k2[p] = "orphan" /\ a2[p] = s
      <4>1. CASE X[s].from = th
        BY <4>1, <3>1, <3>2, <2>1, <1>0
      <4>2. CASE X[s].from # th
        BY <4>2, <3>1, <3>2, <2>1, <1>0
      <4>. QED BY <4>1, <4>2
    <3>4. \A u \in Txns : Sync(X2, u) <=> Sync(X, u)
      BY DEF Sync
    <3>5. X2[s].from_parent = p /\ Sync(X2, s)
      BY <3>4, <2>1
    <3> HIDE DEF p
    <3>. QED BY <3>1, <3>2, <3>3, <3>4, <3>5, <2>3, Zenon DEF NestOK
  <2>. QED BY <2>2, <2>3
<1>. QED BY <1>4, <1>5
-----------------------------------------------------------------------------
(* Stacks.                                                                 *)

\* Thread u sees transaction s as before.
Alike(X, X2, k, a, k2, a2, u, s) ==
  /\ Mine(X2, k2, a2, u, s) <=> Mine(X, k, a, u, s)
  /\ Mine(X, k, a, u, s) => /\ Below(X2, u, s) = Below(X, u, s)
                            /\ X2[s].to_thread = u <=> X[s].to_thread = u
                            /\ X2[s].from = u <=> X[s].from = u

\* What is below a call on a stack.
LEMMA BelowType ==
  ASSUME NEW X \in [Txns -> Txn], NEW t \in Txns, NEW th
  PROVE  Below(X, th, t) \in 0 .. MaxTxns
  BY TxnFields DEF Below

\* A stack is as it was when its calls are.
LEMMA StackKeep ==
  ASSUME NEW X \in [Txns -> Txn], NEW k, NEW a, NEW r, NEW K, NEW u \in Threads,
         NEW X2, NEW k2, NEW a2, NEW r2, NEW K2, K[u] \in 0 .. MaxTxns,
         StackOK(X, K, k, a, r, u), K2[u] = K[u],
         \A s \in Txns : Alike(X, X2, k, a, k2, a2, u, s),
         \A s \in Txns : Mine(X, k, a, u, s) => r2[s] = r[s]
  PROVE  StackOK(X2, K2, k2, a2, r2, u)
<1>1. K[u] # NoTxn => K[u] \in Txns /\ Mine(X, k, a, u, K[u])
  BY TxnNumbers DEF StackOK
<1>2. K2[u] # NoTxn => Mine(X2, k2, a2, u, K2[u])
  BY <1>1 DEF Alike
<1>3. ASSUME NEW t \in Txns, Mine(X2, k2, a2, u, t)
      PROVE  FrameOK(X2, K2, k2, a2, r2, u, t)
  <2>1. Mine(X, k, a, u, t) /\ FrameOK(X, K, k, a, r, u, t)
    BY <1>3 DEF Alike, StackOK
  <2> DEFINE p == Below(X, u, t)
  <2>2. /\ t <= K[u] /\ r[t] = r[K[u]] /\ p < t
        /\ p # NoTxn => Mine(X, k, a, u, p)
        /\ \A s \in Txns : Mine(X, k, a, u, s) /\ s < t => s <= p
        /\ X[t].to_thread = u /\ p # NoTxn => X[p].from = u
    BY <2>1 DEF FrameOK
  <2>3. p \in 0 .. MaxTxns /\ (p # NoTxn => p \in Txns)
    BY BelowType, TxnNumbers
  <2>4. Below(X2, u, t) = p /\ (X2[t].to_thread = u <=> X[t].to_thread = u)
    BY <2>1 DEF Alike
  <2> HIDE DEF p
  <2>5. p # NoTxn => Mine(X2, k2, a2, u, p) /\ (X2[p].from = u <=> X[p].from = u)
    BY <2>2, <2>3 DEF Alike
  <2>6. K[u] # NoTxn
    BY <2>2, TxnNumbers
  <2>7. r2[t] = r2[K[u]]
    BY <1>1, <2>1, <2>2, <2>6
  <2>8. \A s \in Txns : Mine(X2, k2, a2, u, s) => Mine(X, k, a, u, s)
    BY DEF Alike
  <2>9. /\ t <= K2[u] /\ r2[t] = r2[K2[u]] /\ Below(X2, u, t) < t
        /\ Below(X2, u, t) # NoTxn => Mine(X2, k2, a2, u, Below(X2, u, t))
        /\ \A s \in Txns : Mine(X2, k2, a2, u, s) /\ s < t => s <= Below(X2, u, t)
    BY <2>2, <2>4, <2>5, <2>7, <2>8
  <2>10. X2[t].to_thread = u /\ Below(X2, u, t) # NoTxn => X2[Below(X2, u, t)].from = u
    BY <2>2, <2>4, <2>5
  <2>. QED BY <2>9, <2>10, Zenon DEF FrameOK
<1>. QED BY <1>2, <1>3 DEF StackOK

\* The top of the stack goes.
LEMMA StackPop ==
  ASSUME NEW X \in [Txns -> Txn], NEW k, NEW a, NEW r, NEW K, NEW u \in Threads,
         NEW X2, NEW k2, NEW a2, NEW K2, NEW t \in Txns,
         StackOK(X, K, k, a, r, u), K[u] = t, K2[u] = Below(X, u, t),
         \A s \in Txns : s # t => Alike(X, X2, k, a, k2, a2, u, s),
         ~Mine(X2, k2, a2, u, t)
  PROVE  StackOK(X2, K2, k2, a2, r, u)
<1>0. t # NoTxn /\ t \in Nat
  BY TxnNumbers
<1>1. Mine(X, k, a, u, t) /\ FrameOK(X, K, k, a, r, u, t)
  BY <1>0 DEF StackOK
<1> DEFINE q == Below(X, u, t)
<1>2. /\ q \in 0 .. MaxTxns /\ (q # NoTxn => q \in Txns) /\ q < t /\ q # t
      /\ q # NoTxn => Mine(X, k, a, u, q)
      /\ \A s \in Txns : Mine(X, k, a, u, s) /\ s < t => s <= q
  BY <1>1, BelowType, TxnNumbers DEF FrameOK
<1> HIDE DEF q
<1>3. q # NoTxn => Mine(X2, k2, a2, u, q)
  BY <1>2 DEF Alike
<1>4. ASSUME NEW v \in Txns, Mine(X2, k2, a2, u, v)
      PROVE  FrameOK(X2, K2, k2, a2, r, u, v)
  <2>1. v # t /\ Mine(X, k, a, u, v) /\ FrameOK(X, K, k, a, r, u, v)
    BY <1>4 DEF Alike, StackOK
  <2> DEFINE p == Below(X, u, v)
  <2>2. /\ v <= K[u] /\ r[v] = r[K[u]] /\ p < v
        /\ p # NoTxn => Mine(X, k, a, u, p)
        /\ \A s \in Txns : Mine(X, k, a, u, s) /\ s < v => s <= p
        /\ X[v].to_thread = u /\ p # NoTxn => X[p].from = u
    BY <2>1 DEF FrameOK
  <2>3. p \in 0 .. MaxTxns /\ (p # NoTxn => p \in Txns) /\ v \in Nat
    BY BelowType, TxnNumbers
  <2>4. Below(X2, u, v) = p /\ (X2[v].to_thread = u <=> X[v].to_thread = u)
    BY <2>1 DEF Alike
  <2> HIDE DEF p
  <2>5. v < t /\ v <= q /\ q # NoTxn
    BY <2>1, <2>2, <2>3, <1>0, <1>2, TxnNumbers
  <2>6. p # t
    BY <2>2, <2>3, <2>5, <1>0
  <2>7. p # NoTxn => Mine(X2, k2, a2, u, p) /\ (X2[p].from = u <=> X[p].from = u)
    BY <2>2, <2>3, <2>6 DEF Alike
  <2>8. r[v] = r[q]
    <3>1. r[q] = r[K[u]]
      BY <1>2, <2>5 DEF StackOK, FrameOK
    <3>. QED BY <3>1, <2>2
  <2>9. \A s \in Txns : Mine(X2, k2, a2, u, s) => Mine(X, k, a, u, s)
    BY DEF Alike
  <2>10. K2[u] = q
    BY DEF q
  <2>11. /\ v <= K2[u] /\ r[v] = r[K2[u]] /\ Below(X2, u, v) < v
         /\ Below(X2, u, v) # NoTxn => Mine(X2, k2, a2, u, Below(X2, u, v))
         /\ \A s \in Txns : Mine(X2, k2, a2, u, s) /\ s < v => s <= Below(X2, u, v)
    BY <2>2, <2>4, <2>5, <2>7, <2>8, <2>9, <2>10
  <2>12. X2[v].to_thread = u /\ Below(X2, u, v) # NoTxn => X2[Below(X2, u, v)].from = u
    BY <2>2, <2>4, <2>7
  <2>. QED BY <2>11, <2>12, Zenon DEF FrameOK
<1>5. K2[u] = q
  BY DEF q
<1>. QED BY <1>3, <1>4, <1>5 DEF StackOK

\* Something newer goes on top.
LEMMA StackPush ==
  ASSUME NEW X \in [Txns -> Txn], NEW k, NEW a, NEW r, NEW K, NEW u \in Threads,
         NEW X2, NEW k2, NEW a2, NEW r2, NEW K2, NEW t \in Txns,
         K[u] \in 0 .. MaxTxns, StackOK(X, K, k, a, r, u), K2[u] = t, K[u] < t,
         \A s \in Txns : s # t => Alike(X, X2, k, a, k2, a2, u, s),
         \A s \in Txns : s # t => r2[s] = r[s],
         Mine(X2, k2, a2, u, t), Below(X2, u, t) = K[u],
         K[u] # NoTxn => r2[t] = r[K[u]] /\ (X2[t].to_thread = u => X[K[u]].from = u)
  PROVE  StackOK(X2, K2, k2, a2, r2, u)
<1>0. t # NoTxn /\ t \in Nat /\ K[u] \in Nat /\ K[u] # t
  BY TxnNumbers
<1>1. K[u] # NoTxn => K[u] \in Txns /\ Mine(X, k, a, u, K[u])
  BY TxnNumbers DEF StackOK
<1>2. K[u] # NoTxn => Mine(X2, k2, a2, u, K[u])
                      /\ (X2[K[u]].from = u <=> X[K[u]].from = u)
  BY <1>0, <1>1 DEF Alike
<1>3. ASSUME NEW v \in Txns, Mine(X2, k2, a2, u, v)
      PROVE  FrameOK(X2, K2, k2, a2, r2, u, v)
  <2>1. CASE v = t
    <3>1. ASSUME NEW s \in Txns, Mine(X2, k2, a2, u, s), s < t PROVE s <= K[u]
      <4>1. s # t
        BY <3>1, <1>0
      <4>2. Mine(X, k, a, u, s)
        BY <3>1, <4>1 DEF Alike
      <4>. QED BY <4>2 DEF StackOK, FrameOK
    <3>2. t <= t
      BY <1>0
    <3>. QED BY <3>1, <3>2, <2>1, <1>0, <1>2 DEF FrameOK
  <2>2. CASE v # t
    <3>1. Mine(X, k, a, u, v) /\ FrameOK(X, K, k, a, r, u, v)
      BY <1>3, <2>2 DEF Alike, StackOK
    <3> DEFINE p == Below(X, u, v)
    <3>2. /\ v <= K[u] /\ r[v] = r[K[u]] /\ p < v
          /\ p # NoTxn => Mine(X, k, a, u, p)
          /\ \A s \in Txns : Mine(X, k, a, u, s) /\ s < v => s <= p
          /\ X[v].to_thread = u /\ p # NoTxn => X[p].from = u
      BY <3>1 DEF FrameOK
    <3>3. p \in 0 .. MaxTxns /\ (p # NoTxn => p \in Txns) /\ v \in Nat /\ p \in Nat
      BY BelowType, TxnNumbers
    <3>4. Below(X2, u, v) = p /\ (X2[v].to_thread = u <=> X[v].to_thread = u)
      BY <3>1, <2>2 DEF Alike
    <3> HIDE DEF p
    <3>5. K[u] # NoTxn /\ v < t /\ v <= t /\ p # t
      BY <3>2, <3>3, <1>0, TxnNumbers
    <3>6. p # NoTxn => Mine(X2, k2, a2, u, p) /\ (X2[p].from = u <=> X[p].from = u)
      BY <3>2, <3>3, <3>5 DEF Alike
    <3>7. r2[v] = r2[t]
      BY <3>2, <3>5, <2>2
    <3>8. ASSUME NEW s \in Txns, Mine(X2, k2, a2, u, s), s < v PROVE s <= p
      <4>1. s # t
        BY <3>8, <3>3, <3>5, <1>0, TxnNumbers
      <4>. QED BY <4>1, <3>8, <3>2 DEF Alike
    <3>9. /\ v <= K2[u] /\ r2[v] = r2[K2[u]] /\ Below(X2, u, v) < v
          /\ Below(X2, u, v) # NoTxn => Mine(X2, k2, a2, u, Below(X2, u, v))
          /\ \A s \in Txns : Mine(X2, k2, a2, u, s) /\ s < v => s <= Below(X2, u, v)
      BY <3>2, <3>4, <3>5, <3>6, <3>7, <3>8
    <3>10. X2[v].to_thread = u /\ Below(X2, u, v) # NoTxn => X2[Below(X2, u, v)].from = u
      BY <3>2, <3>4, <3>6
    <3>. QED BY <3>9, <3>10, Zenon DEF FrameOK
  <2>. QED BY <2>1, <2>2
<1>. QED BY <1>0, <1>3 DEF StackOK

\* A call that ends a chain is on top of the stacks it is on.
LEMMA EndOnTop ==
  ASSUME NEW X \in [Txns -> Txn], NEW D, NEW k, NEW a, NEW r, NEW K, NEW u \in Threads,
         Tree(X, D, k, a, r), StackOK(X, K, k, a, r, u), K[u] \in 0 .. MaxTxns,
         NEW t \in Txns, NoChild(X, t), Mine(X, k, a, u, t)
  PROVE  K[u] = t
<1>1. FrameOK(X, K, k, a, r, u, t)
  BY DEF StackOK
<1>0. t <= K[u] /\ r[t] = r[K[u]]
  BY <1>1 DEF FrameOK
<1>2. t <= K[u] /\ r[t] = r[K[u]] /\ K[u] # NoTxn /\ K[u] \in Txns
  BY <1>0, TxnNumbers DEF NoTxn
<1>3. Sync(X, t) /\ Sync(X, K[u])
  BY <1>2 DEF Mine, StackOK
<1>4. K[u] <= t
  BY <1>2, <1>3, ChainEnd
<1>. QED BY <1>2, <1>4, TxnNumbers

\* A call that is served from the top of a stack has no nested one.
LEMMA TopNoChild ==
  ASSUME NEW X \in [Txns -> Txn], NEW D, NEW k, NEW a, NEW r, NEW K, NEW u \in Threads,
         Tree(X, D, k, a, r), StackOK(X, K, k, a, r, u),
         NEW t \in Txns, K[u] = t, k[t] = "served", a[t] = u
  PROVE  NoChild(X, t)
<1>1. SUFFICES ASSUME NEW c \in Txns, Sync(X, c), X[c].from_parent = t
               PROVE  FALSE
  BY DEF NoChild
<1>2. NestOK(X, k, a, r, c)
  BY DEF Tree
<1>3. X[c].from = u /\ t < c
  BY <1>1, <1>2, TxnNumbers DEF NestOK
<1>4. c <= K[u]
  BY <1>1, <1>3 DEF StackOK, FrameOK, Mine
<1>. QED BY <1>3, <1>4, TxnNumbers
-----------------------------------------------------------------------------
(* Places.                                                                 *)

\* Only t moves.
SameBut(k, a, k2, a2, t) == \A s \in Txns : s # t => k2[s] = k[s] /\ a2[s] = a[s]

\* Work items are told apart by type and transaction.
LEMMA TxnItems ==
  /\ \A t \in Txns : TxnItem(t) \in Work /\ TxnItem(t).type = "txn" /\ TxnItem(t).t = t
  /\ \A s, t : TxnItem(s) = TxnItem(t) => s = t
  /\ \A y \in {"complete", "return_error", "reply_error"} :
       Item(y) \in Work /\ Item(y).type = y /\ Item(y).t = NoTxn
  /\ \A x \in Work : x.type = "txn" => x = TxnItem(x.t)
  /\ \A x \in Work : x.t = NoTxn => x = Item(x.type)
<1>1. \A t \in Txns : TxnItem(t) \in Work /\ TxnItem(t).type = "txn" /\ TxnItem(t).t = t
  BY TxnNumbers DEF TxnItem, Work
<1>2. \A s, t : TxnItem(s) = TxnItem(t) => s = t
  BY DEF TxnItem
<1>3. \A y \in {"complete", "return_error", "reply_error"} :
        Item(y) \in Work /\ Item(y).type = y /\ Item(y).t = NoTxn
  BY TxnNumbers DEF Item, Work
<1>4. \A x \in Work : x.type = "txn" => x = TxnItem(x.t)
  BY DEF TxnItem, Work
<1>5. \A x \in Work : x.t = NoTxn => x = Item(x.type)
  BY DEF Item, Work
<1>. QED BY <1>1, <1>2, <1>3, <1>4, <1>5

\* A notice is queued.
LEMMA ListNotice ==
  ASSUME NEW s \in Seq(Work), NEW k, NEW a, NEW th, ListOK(s, k, a, th),
         NEW y \in {"complete", "return_error", "reply_error"},
         y = "complete" \/ Item(y) \notin ToSet(s)
  PROVE  ListOK(Append(s, Item(y)), k, a, th)
<1>1. Item(y) \in Work /\ Item(y).type = y /\ Item(y).t = NoTxn
  BY TxnItems
<1>2. Once(Append(s, Item(y)))
  BY <1>1, OnceAppend DEF ListOK
<1>3. ToSet(Append(s, Item(y))) = ToSet(s) \cup {Item(y)}
  BY <1>1, SeqAppend
<1>4. \A t \in Txns : TxnItem(t) # Item(y)
  BY <1>1, TxnItems
<1>. QED BY <1>1, <1>2, <1>3, <1>4 DEF ListOK

\* A transaction is queued.
LEMMA ListTxn ==
  ASSUME NEW s \in Seq(Work), NEW k, NEW a, NEW th, ListOK(s, k, a, th), NEW t \in Txns,
         NEW k2, NEW a2, SameBut(k, a, k2, a2, t), k[t] # "thread",
         k2[t] = "thread", a2[t] = th
  PROVE  ListOK(Append(s, TxnItem(t)), k2, a2, th)
<1>1. TxnItem(t) \in Work /\ TxnItem(t).type = "txn" /\ TxnItem(t).t = t
  BY TxnItems
<1>2. TxnItem(t) \notin ToSet(s)
  BY DEF ListOK
<1>3. Once(Append(s, TxnItem(t)))
  BY <1>1, <1>2, OnceAppend DEF ListOK
<1>4. ToSet(Append(s, TxnItem(t))) = ToSet(s) \cup {TxnItem(t)}
  BY <1>1, SeqAppend
<1>5. ASSUME NEW u \in Txns
      PROVE  TxnItem(u) \in ToSet(s) \cup {TxnItem(t)} <=> k2[u] = "thread" /\ a2[u] = th
  <2>1. CASE u = t
    BY <2>1
  <2>2. CASE u # t
    <3>1. TxnItem(u) # TxnItem(t)
      BY <2>2, TxnItems
    <3>. QED BY <3>1, <2>2 DEF ListOK, SameBut
  <2>. QED BY <2>1, <2>2
<1>. QED BY <1>1, <1>3, <1>4, <1>5 DEF ListOK

\* A notice is taken.
LEMMA ListTail ==
  ASSUME NEW s \in Seq(Work), NEW k, NEW a, NEW th, ListOK(s, k, a, th), s # <<>>,
         Head(s).type # "txn"
  PROVE  ListOK(Tail(s), k, a, th)
<1>1. ToSet(s) = ToSet(Tail(s)) \cup {Head(s)} /\ Once(Tail(s))
  BY SeqTail, OnceTail DEF ListOK
<1>2. \A t \in Txns : TxnItem(t) # Head(s)
  BY TxnItems
<1>. QED BY <1>1, <1>2 DEF ListOK

\* A transaction is taken.
LEMMA ListTake ==
  ASSUME NEW s \in Seq(Work), NEW k, NEW a, NEW th, ListOK(s, k, a, th), NEW t \in Txns,
         s # <<>>, Head(s) = TxnItem(t), NEW k2, NEW a2, SameBut(k, a, k2, a2, t),
         k2[t] # "thread"
  PROVE  ListOK(Tail(s), k2, a2, th)
<1>1. TxnItem(t).type = "txn"
  BY TxnItems
<1>2. /\ ToSet(s) = ToSet(Tail(s)) \cup {TxnItem(t)} /\ Once(Tail(s))
      /\ TxnItem(t) \notin ToSet(Tail(s))
  BY <1>1, SeqTail, OnceTail DEF ListOK
<1>3. ASSUME NEW u \in Txns
      PROVE  TxnItem(u) \in ToSet(Tail(s)) <=> k2[u] = "thread" /\ a2[u] = th
  <2>1. CASE u = t
    BY <2>1, <1>2
  <2>2. CASE u # t
    <3>1. TxnItem(u) # TxnItem(t)
      BY <2>2, TxnItems
    <3>. QED BY <3>1, <2>2, <1>2 DEF ListOK, SameBut
  <2>. QED BY <2>1, <2>2
<1>. QED BY <1>2, <1>3 DEF ListOK

\* A transaction moves between places that are not this list.
LEMMA ListKeep ==
  ASSUME NEW s, NEW k, NEW a, NEW th, ListOK(s, k, a, th), NEW t, NEW k2, NEW a2,
         SameBut(k, a, k2, a2, t),
         t \in Txns => ~(k[t] = "thread" /\ a[t] = th) /\ ~(k2[t] = "thread" /\ a2[t] = th)
  PROVE  ListOK(s, k2, a2, th)
<1>1. ASSUME NEW u \in Txns
      PROVE  TxnItem(u) \in ToSet(s) <=> k2[u] = "thread" /\ a2[u] = th
  <2>1. CASE u = t
    BY <2>1 DEF ListOK
  <2>2. CASE u # t
    BY <2>2 DEF ListOK, SameBut
  <2>. QED BY <2>1, <2>2
<1>. QED BY <1>1 DEF ListOK

\* The lists of threads when a transaction moves between other places.
LEMMA ThreadListsKeep ==
  ASSUME NEW L, NEW k, NEW a, ThreadLists(L, k, a), NEW t, NEW k2, NEW a2,
         SameBut(k, a, k2, a2, t), t \in Txns => k[t] # "thread" /\ k2[t] # "thread"
  PROVE  ThreadLists(L, k2, a2)
  BY ListKeep DEF ThreadLists

\* The same for lists of transactions.
LEMMA TxnListAdd ==
  ASSUME NEW s \in Seq(Txns), NEW kind, NEW k, NEW a, NEW p, TxnListOK(s, kind, k, a, p),
         NEW t \in Txns, NEW k2, NEW a2, SameBut(k, a, k2, a2, t), k[t] # kind,
         k2[t] = kind, a2[t] = p
  PROVE  TxnListOK(Append(s, t), kind, k2, a2, p)
<1>1. t \notin ToSet(s)
  BY DEF TxnListOK
<1>2. Distinct(Append(s, t)) /\ ToSet(Append(s, t)) = ToSet(s) \cup {t}
  BY <1>1, DistinctAppend, SeqAppend DEF TxnListOK
<1>. QED BY <1>2 DEF TxnListOK, SameBut

\* The head of a process's or a node's list is taken.
LEMMA TxnListTake ==
  ASSUME NEW s \in Seq(Txns), NEW kind, NEW k, NEW a, NEW p, TxnListOK(s, kind, k, a, p),
         NEW t \in Txns, s # <<>>, Head(s) = t, NEW k2, NEW a2, SameBut(k, a, k2, a2, t),
         k2[t] # kind
  PROVE  TxnListOK(Tail(s), kind, k2, a2, p)
<1>1. Distinct(Tail(s)) /\ ToSet(s) = ToSet(Tail(s)) \cup {t} /\ t \notin ToSet(Tail(s))
  BY DistinctTail, SeqTail DEF TxnListOK
<1>. QED BY <1>1 DEF TxnListOK, SameBut

\* Such a list when a transaction moves between other places.
LEMMA TxnListKeep ==
  ASSUME NEW s, NEW kind, NEW k, NEW a, NEW p, TxnListOK(s, kind, k, a, p),
         NEW t, NEW k2, NEW a2, SameBut(k, a, k2, a2, t),
         t \in Txns => ~(k[t] = kind /\ a[t] = p) /\ ~(k2[t] = kind /\ a2[t] = p)
  PROVE  TxnListOK(s, kind, k2, a2, p)
  BY DEF TxnListOK, SameBut

\* All of them.
LEMMA TxnListsKeep ==
  ASSUME NEW Q, NEW kind, NEW k, NEW a, TxnLists(Q, kind, k, a), NEW t, NEW k2, NEW a2,
         SameBut(k, a, k2, a2, t), t \in Txns => k[t] # kind /\ k2[t] # kind
  PROVE  TxnLists(Q, kind, k2, a2)
  BY TxnListKeep DEF TxnLists

\* A thread goes on carrying what it carries.  A caller may die meanwhile.
LEMMA CarryKeep ==
  ASSUME NEW X, NEW D, NEW PC, NEW LC, NEW k, NEW a, NEW u \in Threads,
         CarryOK(X, D, PC, LC, k, a, u), NEW X2, NEW D2, NEW PC2, NEW LC2, NEW k2, NEW a2,
         PC2[u] = PC[u], LC2[u] = LC[u],
         \A s \in Txns : k[s] = "carried" /\ a[s] = u =>
           /\ k2[s] = k[s] /\ a2[s] = a[s]
           /\ X2[s].kind = X[s].kind /\ X2[s].to_proc = X[s].to_proc
           /\ X2[s].to_thread = X[s].to_thread
           /\ \/ X2[s].from = X[s].from
              \/ X2[s].from = NoThread /\ X[s].from # u /\ X[s].from \in D2,
         \A v \in Threads : PC[u] = "reply" /\ LC[u].target_thread = v /\ v \notin D2 => v \notin D
  PROVE  CarryOK(X2, D2, PC2, LC2, k2, a2, u)
<1>1. PC2[u] = "send" => SendCarry(X2, LC2[u], u, k2, a2)
  BY DEF CarryOK, SendCarry, Sync
<1>2. PC2[u] = "reply" => ReplyCarry(X2, D2, LC2[u], u, k2, a2)
  <2>1. SUFFICES ASSUME PC[u] = "reply", ReplyCarry(X, D, LC[u], u, k, a)
                 PROVE  ReplyCarry(X2, D2, LC[u], u, k2, a2)
    BY DEF CarryOK
  <2> DEFINE l == LC[u]
  <2>2. /\ l.t \in Txns /\ k[l.t] = "carried" /\ a[l.t] = u
        /\ l.in_reply_to \in Txns /\ k[l.in_reply_to] = "carried" /\ a[l.in_reply_to] = u
    BY <2>1 DEF ReplyCarry
  <2>3. X2[l.in_reply_to].from \in {l.target_thread, NoThread}
    BY <2>1, <2>2 DEF ReplyCarry
  <2>4. l.target_thread \notin D2 => X2[l.in_reply_to].from = l.target_thread
    BY <2>1, <2>2 DEF ReplyCarry
  <2>. QED BY <2>1, <2>2, <2>3, <2>4 DEF ReplyCarry, Sync
<1>3. Holds(PC2, LC2, u)
  BY DEF CarryOK, Holds, Holding
<1>. QED BY <1>1, <1>2, <1>3 DEF CarryOK

\* A carried transaction stays with the thread that carries it.
LEMMA CarrierKeep ==
  ASSUME NEW PC, NEW LC, NEW k, NEW a, NEW t, CarrierOK(PC, LC, k, a, t),
         NEW PC2, NEW LC2, NEW k2, NEW a2,
         k2[t] = "carried" => /\ k[t] = "carried" /\ a2[t] = a[t]
                              /\ PC2[a[t]] = PC[a[t]] /\ LC2[a[t]] = LC[a[t]]
  PROVE  CarrierOK(PC2, LC2, k2, a2, t)
  BY DEF CarrierOK

\* A transaction that stays stays in its place.
LEMMA PlaceKeep ==
  ASSUME NEW X, NEW D, NEW k, NEW a, NEW t \in Txns, PlaceOK(X, D, k, a, t),
         NEW X2, NEW D2, NEW k2, NEW a2, k2[t] = k[t], a2[t] = a[t],
         X2[t].kind = X[t].kind, X2[t].to_proc = X[t].to_proc,
         X2[t].to_thread = X[t].to_thread, k[t] = "served" /\ a[t] \notin D => a[t] \notin D2,
         k[t] = "orphan" /\ a[t] \in Txns /\ Sync(X, a[t]) /\ X[a[t]].from_parent = t =>
           /\ X2[a[t]].kind = X[a[t]].kind /\ X2[a[t]].from = X[a[t]].from
           /\ X2[a[t]].from_parent = X[a[t]].from_parent
  PROVE  PlaceOK(X2, D2, k2, a2, t)
  BY DEF PlaceOK, Sync

\* Nothing starts or stops failing.
LEMMA FailKeep ==
  ASSUME NEW SF, NEW k, NEW a, Failing(SF, k, a), NEW t, NEW k2, NEW a2,
         SF \in [Threads \cup Procs -> 0 .. MaxTxns],
         SameBut(k, a, k2, a2, t), t \in Txns => k[t] # "failing" /\ k2[t] # "failing"
  PROVE  Failing(SF, k2, a2)
<1>1. ASSUME NEW x \in Threads \cup Procs, SF[x] # NoTxn
      PROVE  k2[SF[x]] = "failing" /\ a2[SF[x]] = x
  <2>1. SF[x] \in Txns /\ k[SF[x]] = "failing" /\ a[SF[x]] = x
    BY <1>1, TxnNumbers DEF Failing
  <2>. QED BY <2>1 DEF SameBut
<1>2. ASSUME NEW s \in Txns, k2[s] = "failing"
      PROVE  a2[s] \in Threads \cup Procs /\ SF[a2[s]] = s
  BY <1>2 DEF SameBut, Failing
<1>. QED BY <1>1, <1>2 DEF Failing

\* t starts failing.
LEMMA FailStart ==
  ASSUME NEW SF, NEW k, NEW a, Failing(SF, k, a), NEW t \in Txns, NEW k2, NEW a2,
         SF \in [Threads \cup Procs -> 0 .. MaxTxns], NEW x \in Threads \cup Procs,
         SameBut(k, a, k2, a2, t), SF[x] = NoTxn, k[t] # "failing",
         k2[t] = "failing", a2[t] = x,
         NEW SF2, SF2[x] = t, \A y \in Threads \cup Procs : y # x => SF2[y] = SF[y]
  PROVE  Failing(SF2, k2, a2)
<1>0. SF2[x] = t /\ \A y \in Threads \cup Procs : y # x => SF2[y] = SF[y]
  OBVIOUS
<1>1. ASSUME NEW y \in Threads \cup Procs, SF2[y] # NoTxn
      PROVE  k2[SF2[y]] = "failing" /\ a2[SF2[y]] = y
  <2>1. CASE y = x
    BY <2>1, <1>0
  <2>2. CASE y # x
    <3>1. SF2[y] = SF[y] /\ SF[y] \in Txns /\ k[SF[y]] = "failing" /\ a[SF[y]] = y
      BY <2>2, <1>0, <1>1, TxnNumbers DEF Failing
    <3>. QED BY <3>1 DEF SameBut
  <2>. QED BY <2>1, <2>2
<1>2. ASSUME NEW s \in Txns, k2[s] = "failing"
      PROVE  a2[s] \in Threads \cup Procs /\ SF2[a2[s]] = s
  <2>1. CASE s = t
    BY <2>1, <1>0
  <2>2. CASE s # t
    <3>1. k[s] = "failing" /\ a2[s] = a[s]
      BY <2>2, <1>2 DEF SameBut
    <3>2. a[s] \in Threads \cup Procs /\ SF[a[s]] = s
      BY <3>1 DEF Failing
    <3>3. a[s] # x
      BY <3>2, TxnNumbers
    <3>. QED BY <3>1, <3>2, <3>3, <1>0
  <2>. QED BY <2>1, <2>2
<1>. QED BY <1>1, <1>2 DEF Failing

\* t has failed, and nothing or the call it stood in for is next.
LEMMA FailEnd ==
  ASSUME NEW SF, NEW k, NEW a, Failing(SF, k, a), NEW t \in Txns, NEW k2, NEW a2,
         SF \in [Threads \cup Procs -> 0 .. MaxTxns], NEW x \in Threads \cup Procs,
         SF[x] = t, k2[t] # "failing", NEW p \in 0 .. MaxTxns, p # t,
         \A s \in Txns : s # t /\ s # p => k2[s] = k[s] /\ a2[s] = a[s],
         p # NoTxn => k[p] # "failing" /\ k2[p] = "failing" /\ a2[p] = x,
         NEW SF2, SF2[x] = p, \A y \in Threads \cup Procs : y # x => SF2[y] = SF[y]
  PROVE  Failing(SF2, k2, a2)
<1>0. SF2[x] = p /\ \A y \in Threads \cup Procs : y # x => SF2[y] = SF[y]
  OBVIOUS
<1>1. ASSUME NEW y \in Threads \cup Procs, SF2[y] # NoTxn
      PROVE  k2[SF2[y]] = "failing" /\ a2[SF2[y]] = y
  <2>1. CASE y = x
    BY <2>1, <1>0, <1>1
  <2>2. CASE y # x
    <3>1. SF2[y] = SF[y] /\ SF[y] \in Txns /\ k[SF[y]] = "failing" /\ a[SF[y]] = y
      BY <2>2, <1>0, <1>1, TxnNumbers DEF Failing
    <3>2. SF[y] # t /\ SF[y] # p
      <4>1. a[t] = x
        BY TxnNumbers DEF Failing
      <4>. QED BY <4>1, <3>1, <2>2, TxnNumbers
    <3>. QED BY <3>1, <3>2
  <2>. QED BY <2>1, <2>2
<1>2. ASSUME NEW s \in Txns, k2[s] = "failing"
      PROVE  a2[s] \in Threads \cup Procs /\ SF2[a2[s]] = s
  <2>1. CASE s = p
    BY <2>1, <1>0, TxnNumbers
  <2>2. CASE s # p
    <3>1. s # t /\ k[s] = "failing" /\ a2[s] = a[s]
      BY <2>2, <1>2
    <3>2. a[s] \in Threads \cup Procs /\ SF[a[s]] = s
      BY <3>1 DEF Failing
    <3>3. a[s] # x
      BY <3>1, <3>2
    <3>. QED BY <3>1, <3>2, <3>3, <1>0
  <2>. QED BY <2>1, <2>2
<1>. QED BY <1>1, <1>2 DEF Failing

\* A thread a call comes back to has a call that is not the last of its chain.
LEMMA BackNotEnd ==
  ASSUME NEW X \in [Txns -> Txn], NEW D, NEW k, NEW a, NEW r, Tree(X, D, k, a, r),
         NEW K, NEW u \in Threads, K[u] \in 0 .. MaxTxns, NEW t \in Txns, Sync(X, t),
         Back(X, K, r, u, t)
  PROVE  K[u] \in Txns /\ ~NoChild(X, K[u])
<1>1. K[u] \in Txns /\ K[u] < t /\ r[K[u]] = r[t] /\ X[K[u]].from = u
  BY TxnNumbers DEF Back
<1>2. Sync(X, K[u])
  <2>1. u # NoThread
    BY NullAssumption
  <2>. QED BY <2>1, <1>1 DEF Tree, CallOK
<1>3. NoChild(X, K[u]) => t <= K[u]
  BY <1>1, <1>2, ChainEnd
<1>. QED BY <1>1, <1>3, TxnNumbers

\* A call in a thread's list when its target's stack is as it was.
LEMMA QueuedKeep ==
  ASSUME NEW X, NEW D, NEW K, NEW L, NEW k, NEW a, NEW r, NEW t,
         QueuedOK(X, D, K, L, k, a, r, t),
         NEW X2, NEW D2, NEW K2, NEW L2, NEW k2, NEW a2, NEW r2,
         k2[t] = "thread" => k[t] = "thread" /\ a2[t] = a[t],
         X2[t].kind = X[t].kind, X2[t].to_thread = X[t].to_thread, r2[t] = r[t],
         k[t] = "thread" /\ Sync(X, t) /\ a[t] \notin D2 =>
           /\ a[t] \notin D /\ K2[a[t]] = K[a[t]]
           /\ Back(X, K, r, a[t], t) => /\ X2[K[a[t]]].from = X[K[a[t]]].from
                                        /\ r2[K[a[t]]] = r[K[a[t]]]
           /\ Head(L[a[t]]) = TxnItem(t) => Head(L2[a[t]]) = TxnItem(t)
  PROVE  QueuedOK(X2, D2, K2, L2, k2, a2, r2, t)
  BY DEF QueuedOK, Back, Sync

\* A call about to be queued when its target's stack is as it was.
LEMMA SentKeep ==
  ASSUME NEW X, NEW D, NEW K, NEW LC, NEW r, NEW th, SentOK(X, D, K, LC, r, th),
         NEW X2, NEW D2, NEW K2, NEW LC2, NEW r2, LC2[th] = LC[th],
         X2[LC[th].t].kind = X[LC[th].t].kind, r2[LC[th].t] = r[LC[th].t],
         Sync(X, LC[th].t) /\ LC[th].target_thread # NoThread
         /\ LC[th].target_thread \notin D2 =>
           /\ LC[th].target_thread \notin D
           /\ K2[LC[th].target_thread] = K[LC[th].target_thread]
           /\ Back(X, K, r, LC[th].target_thread, LC[th].t) =>
                /\ X2[K[LC[th].target_thread]].from = X[K[LC[th].target_thread]].from
                /\ r2[K[LC[th].target_thread]] = r[K[LC[th].target_thread]]
  PROVE  SentOK(X2, D2, K2, LC2, r2, th)
  BY DEF SentOK, Back, Sync

\* A buffer nobody touches.
LEMMA BufferKeep ==
  ASSUME NEW X, NEW B, NEW LC, NEW k, NEW a, NEW t, BufferOK(X, B, LC, k, a, t),
         NEW X2, NEW B2, NEW LC2, NEW k2, NEW a2, X2[t] = X[t], B2[t] = B[t],
         k2[t] \in {"thread", "proc", "async"} =>
           \/ k[t] \in {"thread", "proc", "async"}
           \/ k[t] = "carried" /\ t = LC[a[t]].t,
         k2[t] = "carried" /\ t = LC2[a2[t]].t =>
           k[t] = "carried" /\ a2[t] = a[t] /\ LC2[a[t]].t = LC[a[t]].t
  PROVE  BufferOK(X2, B2, LC2, k2, a2, t)
  BY DEF BufferOK

\* A buffer on its way out that nobody touches.
LEMMA DropKeep ==
  ASSUME NEW X, NEW B, NEW PC, NEW LC, NEW SF, NEW th, DropOK(X, B, PC, LC, SF, th),
         NEW X2, NEW B2, NEW PC2, NEW LC2, NEW SF2, LC2[th] = LC[th],
         X[LC[th].t].kind = "freed" => X2[LC[th].t].kind = "freed",
         SF[th] = LC[th].t => SF2[th] = LC[th].t \/ X2[LC[th].t].kind = "freed",
         B2[LC[th].t].st = B[LC[th].t].st, B2[LC[th].t].owner = B[LC[th].t].owner,
         B2[LC[th].t].node = B[LC[th].t].node,
         B2[LC[th].t].transaction => B[LC[th].t].transaction,
         \A u \in Threads : PC2[u] = "dropbuf" /\ LC2[u].t = LC[th].t /\ u # th =>
           PC[u] = "dropbuf" /\ LC[u].t = LC[th].t
  PROVE  DropOK(X2, B2, PC2, LC2, SF2, th)
  BY DEF DropOK
-----------------------------------------------------------------------------
(* What stays the same when a field does.                                  *)

\* Views of threads, processes and nodes whose fields are not written.
LEMMA SameThreads ==
  /\ (\A u \in Threads : thr'[u].stack = thr[u].stack) => Stacks' = Stacks
  /\ (\A u \in Threads : thr'[u].todo = thr[u].todo) => Todos' = Todos
  /\ (\A u \in Threads : thr'[u].process_todo = thr[u].process_todo) => Flagged' = Flagged
  /\ (\A u \in Threads : thr'[u].return_error = thr[u].return_error) =>
       ReturnErrors' = ReturnErrors
  /\ (\A u \in Threads : thr'[u].reply_error = thr[u].reply_error) =>
       ReplyErrors' = ReplyErrors
  /\ (\A u \in Threads : thr'[u].waiting = thr[u].waiting) => Waiting' = Waiting
  /\ (\A u \in Threads : thr'[u].is_dead = thr[u].is_dead) => Dead' = Dead
  /\ (\A u \in Threads : thr'[u].tmp_ref = thr[u].tmp_ref) => ThreadRefs' = ThreadRefs
<1>1. (\A u \in Threads : thr'[u].stack = thr[u].stack) => Stacks' = Stacks
  BY DEF Stacks
<1>2. (\A u \in Threads : thr'[u].todo = thr[u].todo) => Todos' = Todos
  BY DEF Todos
<1>3. (\A u \in Threads : thr'[u].process_todo = thr[u].process_todo) => Flagged' = Flagged
  BY DEF Flagged
<1>4. (\A u \in Threads : thr'[u].return_error = thr[u].return_error) =>
        ReturnErrors' = ReturnErrors
  BY DEF ReturnErrors
<1>5. (\A u \in Threads : thr'[u].reply_error = thr[u].reply_error) =>
        ReplyErrors' = ReplyErrors
  BY DEF ReplyErrors
<1>6. (\A u \in Threads : thr'[u].waiting = thr[u].waiting) => Waiting' = Waiting
  BY DEF Waiting
<1>7. (\A u \in Threads : thr'[u].is_dead = thr[u].is_dead) => Dead' = Dead
  BY DEF Dead
<1>8. (\A u \in Threads : thr'[u].tmp_ref = thr[u].tmp_ref) => ThreadRefs' = ThreadRefs
  BY DEF ThreadRefs
<1>. QED BY <1>1, <1>2, <1>3, <1>4, <1>5, <1>6, <1>7, <1>8

\* Views of processes that a step leaves alone.
LEMMA SameProcs ==
  /\ (\A p \in Procs : proc'[p].st = proc[p].st) => ProcSts' = ProcSts
  /\ (\A p \in Procs : proc'[p].todo = proc[p].todo) => ProcTodos' = ProcTodos
  /\ (\A p \in Procs : proc'[p].is_dead = proc[p].is_dead) => DeadProcs' = DeadProcs
  /\ (\A p \in Procs : proc'[p].tmp_ref = proc[p].tmp_ref) => ProcRefs' = ProcRefs
<1>1. (\A p \in Procs : proc'[p].st = proc[p].st) => ProcSts' = ProcSts
  BY DEF ProcSts
<1>2. (\A p \in Procs : proc'[p].todo = proc[p].todo) => ProcTodos' = ProcTodos
  BY DEF ProcTodos
<1>3. (\A p \in Procs : proc'[p].is_dead = proc[p].is_dead) => DeadProcs' = DeadProcs
  BY DEF DeadProcs
<1>4. (\A p \in Procs : proc'[p].tmp_ref = proc[p].tmp_ref) => ProcRefs' = ProcRefs
  BY DEF ProcRefs
<1>. QED BY <1>1, <1>2, <1>3, <1>4

\* Views of nodes that a step leaves alone.
LEMMA SameNodes ==
  /\ (\A p \in Procs : node'[p].live = node[p].live) => LiveNodes' = LiveNodes
  /\ (\A p \in Procs : node'[p].has_async_transaction = node[p].has_async_transaction) =>
       AsyncNodes' = AsyncNodes
  /\ (\A p \in Procs : node'[p].async_todo = node[p].async_todo) => AsyncTodos' = AsyncTodos
<1>1. (\A p \in Procs : node'[p].live = node[p].live) => LiveNodes' = LiveNodes
  BY DEF LiveNodes
<1>2. (\A p \in Procs : node'[p].has_async_transaction = node[p].has_async_transaction) =>
        AsyncNodes' = AsyncNodes
  BY DEF AsyncNodes
<1>3. (\A p \in Procs : node'[p].async_todo = node[p].async_todo) => AsyncTodos' = AsyncTodos
  BY DEF AsyncTodos
<1>. QED BY <1>1, <1>2, <1>3

\* Views of what does not change.
LEMMA SameAll ==
  /\ UNCHANGED thr => UNCHANGED <<Stacks, Todos, Flagged, ReturnErrors, ReplyErrors,
                                  Waiting, Dead, ThreadRefs>>
  /\ UNCHANGED proc => UNCHANGED <<ProcSts, ProcTodos, DeadProcs, ProcRefs>>
  /\ UNCHANGED node => UNCHANGED <<LiveNodes, AsyncNodes, AsyncTodos>>
<1>1. UNCHANGED thr => UNCHANGED <<Stacks, Todos, Flagged, ReturnErrors, ReplyErrors,
                                   Waiting, Dead, ThreadRefs>>
  BY DEF Stacks, Todos, Flagged, ReturnErrors, ReplyErrors, Waiting, Dead, ThreadRefs
<1>2. UNCHANGED proc => UNCHANGED <<ProcSts, ProcTodos, DeadProcs, ProcRefs>>
  BY DEF ProcSts, ProcTodos, DeadProcs, ProcRefs
<1>3. UNCHANGED node => UNCHANGED <<LiveNodes, AsyncNodes, AsyncTodos>>
  BY DEF LiveNodes, AsyncNodes, AsyncTodos
<1>. QED BY <1>1, <1>2, <1>3

\* What a view says of a thread.
LEMMA ThreadViews ==
  ASSUME Typed, NEW u \in Threads
  PROVE  /\ thr[u] \in Thr
         /\ Stacks[u] = thr[u].stack /\ Stacks[u] \in 0 .. MaxTxns
         /\ Todos[u] = thr[u].todo /\ Todos[u] \in Seq(Work)
         /\ u \in Flagged <=> thr[u].process_todo
         /\ ReturnErrors[u] = thr[u].return_error
         /\ ReplyErrors[u] = thr[u].reply_error
         /\ u \in Waiting <=> thr[u].waiting
         /\ u \in Dead <=> thr[u].is_dead
         /\ ThreadRefs[u] = thr[u].tmp_ref /\ ThreadRefs[u] \in Int
<1>1. thr[u] \in Thr
  BY DEF Typed
<1>. QED BY <1>1 DEF Thr, Stacks, Todos, Flagged, ReturnErrors, ReplyErrors, Waiting,
                     Dead, ThreadRefs

\* A process through its views.
LEMMA ProcViews ==
  ASSUME Typed, NEW p \in Procs
  PROVE  /\ proc[p] \in Prc
         /\ ProcSts[p] = proc[p].st
         /\ ProcTodos[p] = proc[p].todo /\ ProcTodos[p] \in Seq(Txns)
         /\ p \in DeadProcs <=> proc[p].is_dead
         /\ ProcRefs[p] = proc[p].tmp_ref /\ ProcRefs[p] \in Int
<1>1. proc[p] \in Prc
  BY DEF Typed
<1>. QED BY <1>1 DEF Prc, ProcSts, ProcTodos, DeadProcs, ProcRefs

\* A node through its views.
LEMMA NodeViews ==
  ASSUME Typed, NEW p \in Procs
  PROVE  /\ node[p] \in Nde
         /\ p \in LiveNodes <=> node[p].live
         /\ p \in AsyncNodes <=> node[p].has_async_transaction
         /\ AsyncTodos[p] = node[p].async_todo /\ AsyncTodos[p] \in Seq(Txns)
<1>1. node[p] \in Nde
  BY DEF Typed
<1>. QED BY <1>1 DEF Nde, LiveNodes, AsyncNodes, AsyncTodos
-----------------------------------------------------------------------------
(* Who holds whom.                                                         *)

\* Those who hold a thread or a process can be counted.
LEMMA HoldersFinite ==
  ASSUME NEW PC, NEW LC, NEW D, NEW TR, NEW x
  PROVE  /\ IsFiniteSet(ThreadHolders(PC, LC, x)) /\ IsFiniteSet(ProcHolders(PC, LC, x))
         /\ IsFiniteSet(Unfreed(D, TR, x))
         /\ Cardinality(ThreadHolders(PC, LC, x)) \in Nat
         /\ Cardinality(ProcHolders(PC, LC, x)) \in Nat
         /\ Cardinality(Unfreed(D, TR, x)) \in Nat
<1>1. /\ ThreadHolders(PC, LC, x) \subseteq Threads /\ ProcHolders(PC, LC, x) \subseteq Threads
      /\ Unfreed(D, TR, x) \subseteq Threads
  BY DEF ThreadHolders, ProcHolders, Unfreed
<1>2. /\ IsFiniteSet(ThreadHolders(PC, LC, x)) /\ IsFiniteSet(ProcHolders(PC, LC, x))
      /\ IsFiniteSet(Unfreed(D, TR, x))
  BY <1>1, ActorAssumption, FS_Subset
<1>. QED BY <1>2, FS_CardinalityType

\* An element comes or goes.
LEMMA CountOne ==
  ASSUME NEW S, NEW x, IsFiniteSet(S)
  PROVE  /\ x \notin S => Cardinality(S \cup {x}) = Cardinality(S) + 1
         /\ x \in S => Cardinality(S \ {x}) = Cardinality(S) - 1 /\ Cardinality(S) > 0
         /\ Cardinality(S) = 0 => x \notin S
<1>1. x \notin S => Cardinality(S \cup {x}) = Cardinality(S) + 1
  BY FS_AddElement
<1>2. x \in S => Cardinality(S \ {x}) = Cardinality(S) - 1
  BY FS_RemoveElement
<1>3. Cardinality(S) \in Nat /\ (Cardinality(S) = 0 <=> S = {})
  BY FS_CardinalityType, FS_EmptySet
<1>4. x \in S => Cardinality(S) > 0
  BY <1>3
<1>. QED BY <1>1, <1>2, <1>3, <1>4

\* Nobody starts or stops holding.
SameHolds(PC, LC, PC2, LC2, u) ==
  /\ Holding(PC2, u) <=> Holding(PC, u)
  /\ Holding(PC, u) => /\ LC2[u].target_thread = LC[u].target_thread
                       /\ LC2[u].target_proc = LC[u].target_proc

\* Who holds whom when nobody starts or stops.
LEMMA HoldersKeep ==
  ASSUME NEW PC, NEW LC, NEW PC2, NEW LC2,
         \A u \in Threads : SameHolds(PC, LC, PC2, LC2, u)
  PROVE  /\ \A x : ThreadHolders(PC2, LC2, x) = ThreadHolders(PC, LC, x)
         /\ \A x : ProcHolders(PC2, LC2, x) = ProcHolders(PC, LC, x)
  BY DEF SameHolds, ThreadHolders, ProcHolders

\* A thread starts holding.
LEMMA HoldersAdd ==
  ASSUME NEW PC, NEW LC, NEW PC2, NEW LC2, NEW th \in Threads,
         \A u \in Threads : u # th => SameHolds(PC, LC, PC2, LC2, u),
         ~Holding(PC, th), Holding(PC2, th)
  PROVE  /\ \A x : Cardinality(ThreadHolders(PC2, LC2, x))
                   = Cardinality(ThreadHolders(PC, LC, x)) + One(LC2[th].target_thread = x)
         /\ \A x : Cardinality(ProcHolders(PC2, LC2, x))
                   = Cardinality(ProcHolders(PC, LC, x)) + One(LC2[th].target_proc = x)
<1>1. ASSUME NEW x
      PROVE  Cardinality(ThreadHolders(PC2, LC2, x))
             = Cardinality(ThreadHolders(PC, LC, x)) + One(LC2[th].target_thread = x)
  <2>0. th \notin ThreadHolders(PC, LC, x)
    BY DEF ThreadHolders
  <2>1. th \notin ThreadHolders(PC, LC, x) /\ IsFiniteSet(ThreadHolders(PC, LC, x))
        /\ Cardinality(ThreadHolders(PC, LC, x)) \in Nat
    BY <2>0, HoldersFinite
  <2>2. CASE LC2[th].target_thread = x
    <3>1. ThreadHolders(PC2, LC2, x) = ThreadHolders(PC, LC, x) \cup {th}
      BY <2>2 DEF ThreadHolders, SameHolds
    <3>. QED BY <3>1, <2>1, <2>2, CountOne DEF One
  <2>3. CASE LC2[th].target_thread # x
    <3>1. ThreadHolders(PC2, LC2, x) = ThreadHolders(PC, LC, x)
      BY <2>3 DEF ThreadHolders, SameHolds
    <3>. QED BY <3>1, <2>1, <2>3 DEF One
  <2>. QED BY <2>2, <2>3
<1>2. ASSUME NEW x
      PROVE  Cardinality(ProcHolders(PC2, LC2, x))
             = Cardinality(ProcHolders(PC, LC, x)) + One(LC2[th].target_proc = x)
  <2>0. th \notin ProcHolders(PC, LC, x)
    BY DEF ProcHolders
  <2>1. th \notin ProcHolders(PC, LC, x) /\ IsFiniteSet(ProcHolders(PC, LC, x))
        /\ Cardinality(ProcHolders(PC, LC, x)) \in Nat
    BY <2>0, HoldersFinite
  <2>2. CASE LC2[th].target_proc = x
    <3>1. ProcHolders(PC2, LC2, x) = ProcHolders(PC, LC, x) \cup {th}
      BY <2>2 DEF ProcHolders, SameHolds
    <3>. QED BY <3>1, <2>1, <2>2, CountOne DEF One
  <2>3. CASE LC2[th].target_proc # x
    <3>1. ProcHolders(PC2, LC2, x) = ProcHolders(PC, LC, x)
      BY <2>3 DEF ProcHolders, SameHolds
    <3>. QED BY <3>1, <2>1, <2>3 DEF One
  <2>. QED BY <2>2, <2>3
<1>. QED BY <1>1, <1>2

\* Thread and process counts when holders stay.
LEMMA CountsKeep ==
  ASSUME NEW PC, NEW LC, NEW PC2, NEW LC2,
         \A u \in Threads : SameHolds(PC, LC, PC2, LC2, u)
  PROVE  /\ \A TR : ThreadCounts(TR, PC, LC)
                    /\ (\A u \in Threads : PC2[u] = "release" <=> PC[u] = "release") =>
                      ThreadCounts(TR, PC2, LC2)
         /\ \A D, TR, PS, PR : ProcCounts(D, TR, PS, PR, PC, LC) =>
                      ProcCounts(D, TR, PS, PR, PC2, LC2)
<1>1. ASSUME NEW TR, ThreadCounts(TR, PC, LC),
             \A u \in Threads : PC2[u] = "release" <=> PC[u] = "release"
      PROVE  ThreadCounts(TR, PC2, LC2)
  <2>1. ASSUME NEW u \in Threads
        PROVE  TR[u] = Cardinality(ThreadHolders(PC2, LC2, u)) + One(PC2[u] = "release")
    <3>1. ThreadHolders(PC2, LC2, u) = ThreadHolders(PC, LC, u)
      BY HoldersKeep
    <3>2. One(PC2[u] = "release") = One(PC[u] = "release")
      BY <1>1 DEF One
    <3>. QED BY <3>1, <3>2, <1>1 DEF ThreadCounts
  <2>. QED BY <2>1 DEF ThreadCounts
<1>2. ASSUME NEW D, NEW TR, NEW PS, NEW PR, ProcCounts(D, TR, PS, PR, PC, LC)
      PROVE  ProcCounts(D, TR, PS, PR, PC2, LC2)
  <2>1. \A x : ProcHolders(PC2, LC2, x) = ProcHolders(PC, LC, x)
    BY HoldersKeep
  <2>. QED BY <2>1, <1>2 DEF ProcCounts
<1>. QED BY <1>1, <1>2

\* A dead thread is freed, or a thread dies.
LEMMA UnfreedLess ==
  ASSUME NEW D, NEW TR, NEW D2, NEW TR2, NEW th \in Threads,
         \A u \in Threads : u # th => (u \in D2 <=> u \in D) /\ TR2[u] = TR[u],
         ~(th \in D2 /\ TR2[th] > 0), th \in D, TR[th] > 0, NEW p
  PROVE  Cardinality(Unfreed(D2, TR2, p)) = Cardinality(Unfreed(D, TR, p)) - One(ProcOf[th] = p)
<1>1. IsFiniteSet(Unfreed(D, TR, p)) /\ Cardinality(Unfreed(D, TR, p)) \in Nat
  BY HoldersFinite
<1>2. CASE ProcOf[th] = p
  <2>1. Unfreed(D2, TR2, p) = Unfreed(D, TR, p) \ {th} /\ th \in Unfreed(D, TR, p)
    BY <1>2 DEF Unfreed
  <2>. QED BY <2>1, <1>1, <1>2, CountOne DEF One
<1>3. CASE ProcOf[th] # p
  <2>1. Unfreed(D2, TR2, p) = Unfreed(D, TR, p)
    BY <1>3 DEF Unfreed
  <2>. QED BY <2>1, <1>1, <1>3 DEF One
<1>. QED BY <1>2, <1>3
-----------------------------------------------------------------------------
(* A thread moves on and carries nothing.                                  *)

OnlyMoves(PC, LC, PC2, LC2, th) ==
  \A u \in Threads : u # th => PC2[u] = PC[u] /\ LC2[u] = LC[u]

\* A thread that carries nothing moves: what others carry.
LEMMA MoveCarried ==
  ASSUME NEW X, NEW D, NEW PC, NEW LC, NEW k, NEW a, Carried(X, D, PC, LC, k, a),
         NEW PC2, NEW LC2, NEW th \in Threads, OnlyMoves(PC, LC, PC2, LC2, th),
         PC[th] \notin {"send", "reply"}, PC2[th] \notin {"send", "reply", "put"}
  PROVE  Carried(X, D, PC2, LC2, k, a)
<1>1. ASSUME NEW u \in Threads PROVE CarryOK(X, D, PC2, LC2, k, a, u)
  <2>1. CASE u = th
    BY <2>1 DEF CarryOK, Holds, Holding
  <2>2. CASE u # th
    BY <2>2 DEF CarryOK, Holds, Holding, OnlyMoves, Carried
  <2>. QED BY <2>1, <2>2
<1>2. ASSUME NEW t \in Txns PROVE CarrierOK(PC2, LC2, k, a, t)
  BY DEF CarrierOK, Carried, OnlyMoves
<1>. QED BY <1>1, <1>2 DEF Carried

\* Where queued calls are directed.
LEMMA MoveDirected ==
  ASSUME NEW X, NEW D, NEW K, NEW L, NEW PC, NEW LC, NEW k, NEW a, NEW r,
         Directed(X, D, K, L, PC, LC, k, a, r),
         NEW PC2, NEW LC2, NEW th \in Threads, OnlyMoves(PC, LC, PC2, LC2, th),
         PC2[th] # "send"
  PROVE  Directed(X, D, K, L, PC2, LC2, k, a, r)
<1>1. ASSUME NEW u \in Threads, PC2[u] = "send" PROVE SentOK(X, D, K, LC2, r, u)
  BY <1>1 DEF Directed, OnlyMoves, SentOK
<1>. QED BY <1>1 DEF Directed

\* Buffers.
LEMMA MoveBuffers ==
  ASSUME NEW X, NEW B, NEW D, NEW PC, NEW LC, NEW k, NEW a,
         Carried(X, D, PC, LC, k, a), Buffers(X, B, LC, k, a),
         NEW PC2, NEW LC2, NEW th \in Threads, OnlyMoves(PC, LC, PC2, LC2, th),
         PC[th] \notin {"send", "reply"}
  PROVE  Buffers(X, B, LC2, k, a)
<1>1. ASSUME NEW t \in Txns PROVE BufferOK(X, B, LC2, k, a, t)
  <2>1. k[t] = "carried" => LC2[a[t]] = LC[a[t]]
    BY DEF Carried, CarrierOK, OnlyMoves
  <2>. QED BY <2>1, BufferKeep DEF Buffers
<1>. QED BY <1>1 DEF Buffers

\* Buffers on their way out.
LEMMA MoveDrops ==
  ASSUME NEW X, NEW B, NEW SF, NEW PC, NEW LC, Drops(X, B, PC, LC, SF),
         NEW PC2, NEW LC2, NEW th \in Threads, OnlyMoves(PC, LC, PC2, LC2, th),
         PC2[th] # "dropbuf"
  PROVE  Drops(X, B, PC2, LC2, SF)
  BY DEF Drops, DropOK, OnlyMoves

\* One-way calls.
LEMMA MoveOneways ==
  ASSUME NEW B, NEW PD, NEW NL, NEW NA, NEW NQ, NEW PC, NEW LC,
         Oneways(B, PD, NL, NA, NQ, PC, LC),
         NEW PC2, NEW LC2, NEW th \in Threads, OnlyMoves(PC, LC, PC2, LC2, th),
         PC[th] # "send", PC2[th] # "send"
  PROVE  Oneways(B, PD, NL, NA, NQ, PC2, LC2)
<1>1. ASSUME NEW p PROVE Active(B, NQ, PC2, LC2, p) = Active(B, NQ, PC, LC, p)
  BY DEF Active, OnlyMoves
<1>. QED BY <1>1 DEF Oneways, OnewayOK

\* Notices.
LEMMA MoveNotices ==
  ASSUME NEW D, NEW L, NEW RE, NEW PE, NEW PC, Notices(D, L, RE, PE, PC),
         NEW PC2, NEW LC, NEW LC2, NEW th \in Threads, OnlyMoves(PC, LC, PC2, LC2, th),
         PC2[th] \notin {"send", "reply"}
  PROVE  Notices(D, L, RE, PE, PC2)
  BY DEF Notices, NoticeOK, OnlyMoves

\* The counts of tmp_ref.
LEMMA MoveCounts ==
  ASSUME NEW PC, NEW LC, NEW PC2, NEW LC2, NEW th \in Threads,
         OnlyMoves(PC, LC, PC2, LC2, th), ~Holding(PC, th), ~Holding(PC2, th)
  PROVE  /\ \A TR : ThreadCounts(TR, PC, LC)
                    /\ (PC2[th] = "release" <=> PC[th] = "release") =>
                      ThreadCounts(TR, PC2, LC2)
         /\ \A D, TR, PS, PR : ProcCounts(D, TR, PS, PR, PC, LC) =>
                      ProcCounts(D, TR, PS, PR, PC2, LC2)
<1>1. ASSUME NEW u \in Threads PROVE SameHolds(PC, LC, PC2, LC2, u)
  BY DEF SameHolds, OnlyMoves, Holding
<1>2. (PC2[th] = "release" <=> PC[th] = "release") =>
        \A u \in Threads : PC2[u] = "release" <=> PC[u] = "release"
  BY DEF OnlyMoves
<1>. QED BY <1>1, <1>2, CountsKeep

\* The lists change and what heads them does not.
LEMMA ListsDirected ==
  ASSUME NEW X, NEW D, NEW K, NEW L, NEW PC, NEW LC, NEW k, NEW a, NEW r,
         Directed(X, D, K, L, PC, LC, k, a, r), ThreadLists(L, k, a),
         NEW L2, Placed(X, D, k, a),
         \A u \in Threads, t \in Txns :
           TxnItem(t) \in ToSet(L[u]) /\ Head(L[u]) = TxnItem(t) => Head(L2[u]) = TxnItem(t)
  PROVE  Directed(X, D, K, L2, PC, LC, k, a, r)
<1>1. ASSUME NEW t \in Txns PROVE QueuedOK(X, D, K, L2, k, a, r, t)
  <2>1. k[t] = "thread" => a[t] \in Threads /\ TxnItem(t) \in ToSet(L[a[t]])
    BY DEF ThreadLists, ListOK, Placed, PlaceOK
  <2>2. k[t] = "thread" /\ Head(L[a[t]]) = TxnItem(t) => Head(L2[a[t]]) = TxnItem(t)
    BY <2>1
  <2>. QED BY <2>2 DEF Directed, QueuedOK
<1>. QED BY <1>1 DEF Directed

\* Appending keeps the head.
LEMMA HeadAppend ==
  ASSUME NEW S, NEW s \in Seq(S), NEW x \in S, NEW y, y \in ToSet(s)
  PROVE  s # <<>> /\ Head(Append(s, x)) = Head(s)
<1>1. s # <<>>
  BY SeqSmall
<1>2. Len(s) \in Nat /\ Len(s) > 0
  BY <1>1, SeqTail
<1>3. Head(s) = s[1] /\ Append(s, x)[1] = s[1] /\ Append(s, x) # <<>>
  BY <1>1, <1>2, SeqAppend, SeqTail
<1>4. Head(Append(s, x)) = Append(s, x)[1]
  BY SeqAppend, SeqTail
<1>. QED BY <1>1, <1>3, <1>4
-----------------------------------------------------------------------------
(* Steps of a reader that finds nothing, waits, or goes home.              *)

\* The locals of a thread that does nothing.
LEMMA LocType ==
  /\ NoLoc \in Loc /\ NoLoc.wait_for_proc_work = FALSE
  /\ \A b \in BOOLEAN : /\ [NoLoc EXCEPT !.wait_for_proc_work = b] \in Loc
                        /\ [NoLoc EXCEPT !.wait_for_proc_work = b].wait_for_proc_work = b
<1>1. NoLoc \in Loc /\ NoLoc.wait_for_proc_work = FALSE
  BY TxnNumbers DEF NoLoc, Loc
<1>. QED BY <1>1 DEF Loc

\* Nothing about a thread changes but whether it waits.
OnlyWaiting(T, T2) ==
  \A u \in Threads :
    /\ T2[u].stack = T[u].stack /\ T2[u].todo = T[u].todo
    /\ T2[u].process_todo = T[u].process_todo
    /\ T2[u].return_error = T[u].return_error /\ T2[u].reply_error = T[u].reply_error
    /\ T2[u].is_dead = T[u].is_dead /\ T2[u].tmp_ref = T[u].tmp_ref

\* A step that wakes threads, or lets one wait, changes no other view.
LEMMA SameWaiting ==
  ASSUME OnlyWaiting(thr, thr')
  PROVE  /\ Stacks' = Stacks /\ Todos' = Todos /\ Flagged' = Flagged
         /\ ReturnErrors' = ReturnErrors /\ ReplyErrors' = ReplyErrors
         /\ Dead' = Dead /\ ThreadRefs' = ThreadRefs
  BY SameThreads DEF OnlyWaiting

\* binder_wakeup_proc_ilocked takes a thread off the waiting list.
LEMMA Wakeup ==
  ASSUME NEW T \in [Threads -> Thr], NEW p, NEW T2 \in WakeupProc(T, p)
  PROVE  /\ T2 \in [Threads -> Thr] /\ OnlyWaiting(T, T2)
         /\ \A u \in Threads : T2[u].waiting => T[u].waiting
<1>1. CASE T2 = T
  BY <1>1 DEF OnlyWaiting
<1>2. CASE \E th \in Threads : T2 = [T EXCEPT ![th].waiting = FALSE]
  <2>1. PICK th \in Threads : T2 = [T EXCEPT ![th].waiting = FALSE]
    BY <1>2
  <2>2. ASSUME NEW u \in Threads
        PROVE  /\ T2[u] \in Thr /\ T2[u].stack = T[u].stack /\ T2[u].todo = T[u].todo
               /\ T2[u].process_todo = T[u].process_todo
               /\ T2[u].return_error = T[u].return_error /\ T2[u].reply_error = T[u].reply_error
               /\ T2[u].is_dead = T[u].is_dead /\ T2[u].tmp_ref = T[u].tmp_ref
               /\ T2[u].waiting => T[u].waiting
    <3>1. T[u] \in Thr
      OBVIOUS
    <3>2. CASE u = th
      BY <3>1, <3>2, <2>1 DEF Thr
    <3>3. CASE u # th
      BY <3>1, <3>3, <2>1 DEF Thr
    <3>. QED BY <3>2, <3>3
  <2>3. T2 \in [Threads -> Thr]
    BY <2>1, <2>2
  <2>. QED BY <2>2, <2>3 DEF OnlyWaiting
<1>. QED BY <1>1, <1>2 DEF WakeupProc, WaitingThreads

\* A step in which one thread moves and others at most wake up.
LEMMA QuietStep ==
  ASSUME NEW k, NEW a, NEW r, Inv(k, a, r), NEW th \in Threads,
         thr' \in [Threads -> Thr], OnlyWaiting(thr, thr'),
         NEW c \in {"user", "wait", "loop"}, NEW l \in Loc,
         pc' = [pc EXCEPT ![th] = c], loc' = [loc EXCEPT ![th] = l],
         pc[th] \in {"user", "wait", "loop"}, sfr[th] = NoTxn,
         proc[ProcOf[th]].st = "open",
         l.wait_for_proc_work => c \in {"wait", "loop"} /\ thr[th].stack = NoTxn,
         \A u \in Threads : thr'[u].waiting =>
           IF u = th THEN c = "wait" /\ thr[th].todo = <<>> /\ l.wait_for_proc_work
           ELSE thr[u].waiting,
         UNCHANGED <<txn, buf, proc, node, sfr, bug>>
  PROVE  Inv(k, a, r)'
<1>0. Typed /\ bug = FALSE /\ Ghosts(k, a, r) /\ PlaceInv(k, a) /\ CallInv(k, a, r)
      /\ BufInv(k, a) /\ StateInv /\ WorkInv
  BY DEF Inv
<1>1. /\ Stacks' = Stacks /\ Todos' = Todos /\ Flagged' = Flagged
      /\ ReturnErrors' = ReturnErrors /\ ReplyErrors' = ReplyErrors
      /\ Dead' = Dead /\ ThreadRefs' = ThreadRefs
      /\ ProcSts' = ProcSts /\ ProcTodos' = ProcTodos /\ DeadProcs' = DeadProcs
      /\ ProcRefs' = ProcRefs
      /\ LiveNodes' = LiveNodes /\ AsyncNodes' = AsyncNodes /\ AsyncTodos' = AsyncTodos
  BY SameWaiting, SameAll
<1>2. pc \in [Threads -> PCs] /\ loc \in [Threads -> Loc] /\ c \in PCs
  BY <1>0 DEF Typed, PCs
<1>3. /\ pc'[th] = c /\ loc'[th] = l /\ OnlyMoves(pc, loc, pc', loc', th)
      /\ ~Holding(pc, th) /\ ~Holding(pc', th)
  BY <1>2 DEF OnlyMoves, Holding
<1>4. Typed'
  BY <1>0, <1>2 DEF Typed
<1>5. PlaceInv(k, a)'
  BY <1>0, <1>1, <1>3, MoveCarried DEF PlaceInv
<1>6. CallInv(k, a, r)'
  BY <1>0, <1>1, <1>3, MoveDirected DEF CallInv
<1>7. BufInv(k, a)'
  BY <1>0, <1>1, <1>3, MoveBuffers, MoveDrops DEF BufInv, PlaceInv
<1>8. StateInv'
  <2>1. ASSUME NEW u \in Threads
        PROVE  ThreadOK(Dead, Stacks, Todos, Waiting', pc', loc', sfr, u)
    <3>0. ThreadOK(Dead, Stacks, Todos, Waiting, pc, loc, sfr, u)
      BY <1>0 DEF StateInv, ThreadStates
    <3>1. /\ u \in Waiting <=> thr[u].waiting
          /\ u \in Waiting' <=> thr'[u].waiting
          /\ Stacks[u] = thr[u].stack /\ Todos[u] = thr[u].todo
      BY DEF Waiting, Stacks, Todos
    <3>2. CASE u = th
      <4>1. u \in Waiting' => c = "wait" /\ Todos[u] = <<>> /\ l.wait_for_proc_work
        BY <3>1, <3>2
      <4>2. th \notin Dead
        BY <3>0, <3>2 DEF ThreadOK
      <4>. QED BY <3>0, <3>1, <3>2, <4>1, <4>2, <1>3 DEF ThreadOK
    <3>3. CASE u # th
      <4>1. u \in Waiting' => u \in Waiting
        BY <3>1, <3>3
      <4>. QED BY <3>0, <3>3, <4>1, <1>3 DEF ThreadOK, OnlyMoves
    <3>. QED BY <3>2, <3>3
  <2>2. ASSUME NEW p \in Procs
        PROVE  ProcOK(ProcSts, DeadProcs, ProcTodos, ProcRefs, LiveNodes, AsyncTodos, pc', sfr, p)
    <3>0. ProcOK(ProcSts, DeadProcs, ProcTodos, ProcRefs, LiveNodes, AsyncTodos, pc, sfr, p)
      BY <1>0 DEF StateInv, ProcStates
    <3>1. ProcSts[p] # "open" => p # ProcOf[th]
      BY DEF ProcSts
    <3>2. ASSUME NEW u \in Threads, ProcOf[u] = p, ProcSts[p] # "open"
          PROVE  pc'[u] = pc[u]
      BY <3>1, <3>2, <1>3 DEF OnlyMoves
    <3>. QED BY <3>0, <3>2 DEF ProcOK
  <2>3. ThreadCounts(ThreadRefs, pc', loc')
        /\ ProcCounts(Dead, ThreadRefs, ProcSts, ProcRefs, pc', loc')
    BY <1>0, <1>3, MoveCounts, ZenonT(90) DEF StateInv
  <2>. QED BY <2>1, <2>2, <2>3, <1>1 DEF StateInv, ThreadStates, ProcStates
<1>9. WorkInv'
  <2>1. Oneways(buf, DeadProcs, LiveNodes, AsyncNodes, AsyncTodos, pc', loc')
    BY <1>0, <1>3, MoveOneways DEF WorkInv
  <2>2. Notices(Dead, Todos, ReturnErrors, ReplyErrors, pc')
    BY <1>0, <1>3, MoveNotices DEF WorkInv
  <2>. QED BY <2>1, <2>2, <1>0, <1>1 DEF WorkInv
<1>. QED BY <1>0, <1>4, <1>5, <1>6, <1>7, <1>8, <1>9 DEF Inv
\* What the invariant says of a thread's own state.
LEMMA ThreadFacts ==
  ASSUME NEW k, NEW a, NEW r, Inv(k, a, r), NEW u \in Threads
  PROVE  /\ thr[u] \in Thr /\ pc[u] \in PCs /\ loc[u] \in Loc /\ ProcOf[u] \in Procs
         /\ thr[u].is_dead <=> pc[u] \in {"release", "gone"}
         /\ pc[u] = "gone" => thr[u].todo = <<>>
         /\ pc[u] \in {"send", "reply", "wait", "loop", "gone"} => sfr[u] = NoTxn
         /\ thr[u].waiting => pc[u] = "wait" /\ thr[u].todo = <<>>
                              /\ loc[u].wait_for_proc_work
         /\ loc[u].wait_for_proc_work =>
              pc[u] \in {"wait", "loop", "dropbuf"} /\ thr[u].stack = NoTxn
         /\ pc[u] \in {"wait", "loop", "send", "reply", "put", "dropbuf"} =>
              proc[ProcOf[u]].st = "open"
<1>1. Typed /\ ThreadOK(Dead, Stacks, Todos, Waiting, pc, loc, sfr, u)
  BY DEF Inv, StateInv, ThreadStates
<1>2. thr[u] \in Thr /\ pc[u] \in PCs /\ loc[u] \in Loc /\ ProcOf[u] \in Procs
  BY <1>1, ProcOfAssumption DEF Typed
<1>3. ProcOK(ProcSts, DeadProcs, ProcTodos, ProcRefs, LiveNodes, AsyncTodos, pc, sfr, ProcOf[u])
  BY <1>2 DEF Inv, StateInv, ProcStates
<1>4. ProcSts[ProcOf[u]] = proc[ProcOf[u]].st
      /\ proc[ProcOf[u]].st \in {"open", "threads", "todo", "released", "freed"}
  BY <1>1, <1>2 DEF Typed, ProcSts, Prc
<1>5. pc[u] \in {"wait", "loop", "send", "reply", "put", "dropbuf"} =>
        proc[ProcOf[u]].st = "open"
  BY <1>3, <1>4 DEF ProcOK
<1>. QED BY <1>1, <1>2, <1>5, ThreadViews DEF ThreadOK

\* The field waiting is written.
LEMMA SetWaiting ==
  ASSUME NEW T \in [Threads -> Thr], NEW th \in Threads, NEW b \in BOOLEAN
  PROVE  /\ [T EXCEPT ![th].waiting = b] \in [Threads -> Thr]
         /\ OnlyWaiting(T, [T EXCEPT ![th].waiting = b])
         /\ \A u \in Threads : [T EXCEPT ![th].waiting = b][u].waiting
                               = IF u = th THEN b ELSE T[u].waiting
<1>. DEFINE T2 == [T EXCEPT ![th].waiting = b]
<1>1. ASSUME NEW u \in Threads
      PROVE  /\ T2[u] \in Thr /\ T2[u].stack = T[u].stack /\ T2[u].todo = T[u].todo
             /\ T2[u].process_todo = T[u].process_todo
             /\ T2[u].return_error = T[u].return_error /\ T2[u].reply_error = T[u].reply_error
             /\ T2[u].is_dead = T[u].is_dead /\ T2[u].tmp_ref = T[u].tmp_ref
             /\ T2[u].waiting = IF u = th THEN b ELSE T[u].waiting
  <2>1. T[u] \in Thr
    OBVIOUS
  <2>2. CASE u = th
    BY <2>1, <2>2 DEF Thr
  <2>3. CASE u # th
    BY <2>1, <2>3 DEF Thr
  <2>. QED BY <2>2, <2>3
<1>2. T2 \in [Threads -> Thr]
  BY <1>1
<1>. QED BY <1>1, <1>2 DEF OnlyWaiting

\* Two changes of who waits are one.
LEMMA OnlyWaitingTrans ==
  ASSUME NEW T, NEW T2, NEW T3, OnlyWaiting(T, T2), OnlyWaiting(T2, T3)
  PROVE  OnlyWaiting(T, T3)
  BY DEF OnlyWaiting

\* binder_thread_read looks for work, or waits for some.
LEMMA WaitForWorkStep ==
  ASSUME NEW k, NEW a, NEW r, Inv(k, a, r), NEW th \in Threads,
         pc[th] \in {"user", "loop"}, sfr[th] = NoTxn, proc[ProcOf[th]].st = "open",
         WaitForWork(th)
  PROVE  Inv(k, a, r)'
<1>0. AvailableForProcWork(th) \in BOOLEAN
  BY Zenon DEF AvailableForProcWork
<1>1. PICK avail \in BOOLEAN : avail = AvailableForProcWork(th)
  BY <1>0
<1>2. PICK work \in BOOLEAN :
        work = (thr[th].process_todo \/ (AvailableForProcWork(th) /\ proc[ProcOf[th]].todo # <<>>))
  BY ThreadFacts DEF Thr
<1>3. PICK w \in BOOLEAN : w = (avail /\ ~work)
  OBVIOUS
<1>. DEFINE l == [NoLoc EXCEPT !.wait_for_proc_work = avail]
            c == IF work THEN "loop" ELSE "wait"
<1>4. /\ pc' = [pc EXCEPT ![th] = c] /\ loc' = [loc EXCEPT ![th] = l]
      /\ thr' = [thr EXCEPT ![th].waiting = w]
      /\ UNCHANGED <<txn, buf, proc, node, sfr, bug>>
  BY <1>1, <1>2, <1>3 DEF WaitForWork
<1>5. l \in Loc /\ l.wait_for_proc_work = avail /\ c \in {"user", "wait", "loop"}
      /\ c \in {"wait", "loop"} /\ (w => c = "wait" /\ avail)
  BY LocType, <1>3
<1>6. avail => thr[th].stack = NoTxn /\ thr[th].todo = <<>>
  BY <1>1 DEF AvailableForProcWork
<1>7. thr \in [Threads -> Thr]
  BY DEF Inv, Typed
<1>. HIDE DEF l, c
<1>t. thr' = [thr EXCEPT ![th].waiting = w]
  BY <1>4
<1>8. /\ thr' \in [Threads -> Thr] /\ OnlyWaiting(thr, thr')
      /\ \A u \in Threads : thr'[u].waiting = IF u = th THEN w ELSE thr[u].waiting
  <2>. DEFINE T2 == [thr EXCEPT ![th].waiting = w]
  <2>1. /\ T2 \in [Threads -> Thr] /\ OnlyWaiting(thr, T2)
        /\ \A u \in Threads : T2[u].waiting = IF u = th THEN w ELSE thr[u].waiting
    BY <1>7, SetWaiting, ZenonT(90)
  <2>2. thr' = T2
    BY <1>t
  <2>. HIDE DEF T2
  <2>. QED BY <2>1, <2>2
<1>9. \A u \in Threads : thr'[u].waiting =>
        IF u = th THEN c = "wait" /\ thr[th].todo = <<>> /\ l.wait_for_proc_work
        ELSE thr[u].waiting
  BY <1>5, <1>6, <1>8
<1>. QED BY <1>4, <1>5, <1>6, <1>8, <1>9, QuietStep

\* A signal ends the wait.
LEMMA InterruptedStep ==
  ASSUME NEW k, NEW a, NEW r, Inv(k, a, r), NEW th \in Threads, Interrupted(th)
  PROVE  Inv(k, a, r)'
<1>1. /\ pc[th] = "wait" /\ pc' = [pc EXCEPT ![th] = "user"]
      /\ loc' = [loc EXCEPT ![th] = NoLoc]
      /\ UNCHANGED <<txn, buf, proc, node, sfr, bug>>
  BY DEF Interrupted
<1>2. sfr[th] = NoTxn /\ proc[ProcOf[th]].st = "open" /\ thr \in [Threads -> Thr]
  BY <1>1, ThreadFacts DEF Inv, Typed
<1>. DEFINE T1 == [thr EXCEPT ![th].waiting = FALSE]
<1>3. /\ T1 \in [Threads -> Thr] /\ OnlyWaiting(thr, T1)
      /\ \A u \in Threads : T1[u].waiting = IF u = th THEN FALSE ELSE thr[u].waiting
  BY <1>2, SetWaiting
<1>4. thr' = T1 \/ thr' \in WakeupProc(T1, ProcOf[th])
  BY DEF Interrupted
<1>. HIDE DEF T1
<1>5. /\ thr' \in [Threads -> Thr] /\ OnlyWaiting(thr, thr')
      /\ \A u \in Threads : thr'[u].waiting => T1[u].waiting
  BY <1>3, <1>4, Wakeup, OnlyWaitingTrans
<1>6. \A u \in Threads : thr'[u].waiting => u # th /\ thr[u].waiting
  BY <1>3, <1>5
<1>. QED BY <1>1, <1>2, <1>5, <1>6, LocType, QuietStep

\* The wait ends.
LEMMA WakeUpStep ==
  ASSUME NEW k, NEW a, NEW r, Inv(k, a, r), NEW th \in Threads, WakeUp(th)
  PROVE  Inv(k, a, r)'
<1>1. /\ pc[th] = "wait" /\ pc' = [pc EXCEPT ![th] = "loop"] /\ UNCHANGED loc
      /\ thr' = [thr EXCEPT ![th].waiting = FALSE]
      /\ UNCHANGED <<txn, buf, proc, node, sfr, bug>>
  BY DEF WakeUp
<1>2. /\ sfr[th] = NoTxn /\ proc[ProcOf[th]].st = "open" /\ thr \in [Threads -> Thr]
      /\ loc[th] \in Loc /\ loc \in [Threads -> Loc]
      /\ loc[th].wait_for_proc_work => thr[th].stack = NoTxn
  BY <1>1, ThreadFacts DEF Inv, Typed
<1>3. loc' = [loc EXCEPT ![th] = loc[th]]
  BY <1>1, <1>2
<1>4. /\ thr' \in [Threads -> Thr] /\ OnlyWaiting(thr, thr')
      /\ \A u \in Threads : thr'[u].waiting = IF u = th THEN FALSE ELSE thr[u].waiting
  BY <1>1, <1>2, SetWaiting
<1>5. \A u \in Threads : thr'[u].waiting => u # th /\ thr[u].waiting
  BY <1>4
<1>. QED BY <1>1, <1>2, <1>3, <1>4, <1>5, QuietStep, ZenonT(90)

\* The end of an ioctl.
LEMMA ReturnWakes ==
  ASSUME NEW T \in [Threads -> Thr], NEW P, NEW th \in Threads, ReturnToUser(T, P, th)
  PROVE  /\ pc' = [pc EXCEPT ![th] = "user"] /\ loc' = [loc EXCEPT ![th] = NoLoc]
         /\ thr' \in [Threads -> Thr] /\ OnlyWaiting(T, thr')
         /\ \A u \in Threads : thr'[u].waiting => T[u].waiting
<1>1. CASE thr' = T
  BY <1>1 DEF ReturnToUser, OnlyWaiting
<1>2. CASE thr' \in WakeupProc(T, ProcOf[th])
  BY <1>2, Wakeup DEF ReturnToUser
<1>. QED BY <1>1, <1>2 DEF ReturnToUser

\* binder_thread_read ends with nothing left to read.
LEMMA ReadEndStep ==
  ASSUME NEW k, NEW a, NEW r, Inv(k, a, r), NEW th \in Threads, ReadEnd(th)
  PROVE  Inv(k, a, r)'
<1>1. /\ pc[th] = "loop" /\ sfr[th] = NoTxn /\ ReturnToUser(thr, proc, th)
      /\ UNCHANGED <<txn, buf, proc, node, sfr, bug>>
  BY DEF ReadEnd
<1>2. proc[ProcOf[th]].st = "open" /\ thr \in [Threads -> Thr] /\ ~thr[th].waiting
  BY <1>1, ThreadFacts DEF Inv, Typed
<1>3. /\ pc' = [pc EXCEPT ![th] = "user"] /\ loc' = [loc EXCEPT ![th] = NoLoc]
      /\ thr' \in [Threads -> Thr] /\ OnlyWaiting(thr, thr')
      /\ \A u \in Threads : thr'[u].waiting => thr[u].waiting
  BY <1>1, <1>2, ReturnWakes
<1>4. \A u \in Threads : thr'[u].waiting => u # th /\ thr[u].waiting
  BY <1>2, <1>3
<1>. QED BY <1>1, <1>2, <1>3, <1>4, LocType, QuietStep
-----------------------------------------------------------------------------
(* Work is queued.                                                         *)

\* A notice at the end of a list.
LEMMA NoticeLast ==
  ASSUME NEW s \in Seq(Work), NEW y \in {"complete", "return_error", "reply_error"}
  PROVE  /\ Append(s, Item(y)) \in Seq(Work) /\ Append(s, Item(y)) # <<>>
         /\ ToSet(Append(s, Item(y))) = ToSet(s) \cup {Item(y)}
         /\ Item(y) \in ToSet(Append(s, Item(y)))
<1>1. Item(y) \in Work
  BY TxnItems
<1>. QED BY <1>1, SeqAppend

\* Notices of different types differ.
LEMMA NoticeTypes == \A x, y : Item(x) = Item(y) => x = y
  BY DEF Item

\* A notice is queued.
LEMMA NoticeAdded ==
  ASSUME NEW L \in [Threads -> Seq(Work)], NEW th \in Threads, NEW k, NEW a,
         ThreadLists(L, k, a), NEW y \in {"complete", "return_error", "reply_error"},
         y = "complete" \/ Item(y) \notin ToSet(L[th]),
         NEW L2, L2[th] = Append(L[th], Item(y)), \A u \in Threads : u # th => L2[u] = L[u]
  PROVE  /\ ThreadLists(L2, k, a)
         /\ \A X, D, K, PC, LC, r :
              Directed(X, D, K, L, PC, LC, k, a, r) /\ Placed(X, D, k, a) =>
                Directed(X, D, K, L2, PC, LC, k, a, r)
<1>0. L[th] \in Seq(Work) /\ Item(y) \in Work
  BY TxnItems
<1>1. L2[th] = Append(L[th], Item(y)) /\ \A u \in Threads : u # th => L2[u] = L[u]
  OBVIOUS
<1>4. ThreadLists(L2, k, a)
  <2>1. ListOK(L2[th], k, a, th)
    BY <1>0, <1>1, ListNotice DEF ThreadLists
  <2>. QED BY <2>1, <1>1 DEF ThreadLists
<1>5. ASSUME NEW u \in Threads, NEW t \in Txns, TxnItem(t) \in ToSet(L[u]),
             Head(L[u]) = TxnItem(t)
      PROVE  Head(L2[u]) = TxnItem(t)
  <2>1. CASE u = th
    BY <2>1, <1>0, <1>1, <1>5, HeadAppend
  <2>2. CASE u # th
    BY <2>2, <1>1, <1>5
  <2>. QED BY <2>1, <2>2
<1>6. ASSUME NEW X, NEW D, NEW K, NEW PC, NEW LC, NEW r,
             Directed(X, D, K, L, PC, LC, k, a, r), Placed(X, D, k, a)
      PROVE  Directed(X, D, K, L2, PC, LC, k, a, r)
  BY <1>5, <1>6, ListsDirected
<1>. QED BY <1>4, <1>6

\* process_todo of every thread whose list is as it was or not empty.
LEMMA FlagsKeep ==
  ASSUME NEW X, NEW D, NEW K, NEW L, NEW F, Flags(X, D, K, L, F),
         NEW X2, NEW D2, NEW K2, NEW L2, NEW F2,
         \A u \in Threads : u \notin D2 =>
           \/ u \in F2 /\ L2[u] # <<>>
           \/ /\ u \notin D /\ L2[u] = L[u] /\ K2[u] = K[u]
              /\ u \in F2 <=> u \in F
              /\ K[u] # NoTxn /\ X[K[u]].from = u => X2[K[u]].from = u
  PROVE  Flags(X2, D2, K2, L2, F2)
<1>1. ASSUME NEW u \in Threads, u \notin D2 PROVE FlagOK(X2, K2, L2, F2, u)
  <2>1. CASE u \in F2 /\ L2[u] # <<>>
    BY <2>1 DEF FlagOK
  <2>2. CASE /\ u \notin D /\ L2[u] = L[u] /\ K2[u] = K[u]
             /\ u \in F2 <=> u \in F
             /\ K[u] # NoTxn /\ X[K[u]].from = u => X2[K[u]].from = u
    BY <2>2 DEF Flags, FlagOK
  <2>. QED BY <1>1, <2>1, <2>2
<1>. QED BY <1>1 DEF Flags

\* The states of threads when one moves.
LEMMA ThreadStatesKeep ==
  ASSUME NEW D, NEW K, NEW L, NEW W, NEW PC, NEW LC, NEW SF,
         ThreadStates(D, K, L, W, PC, LC, SF),
         NEW D2, NEW K2, NEW L2, NEW W2, NEW PC2, NEW LC2, NEW SF2, NEW th,
         \A u \in Threads : u # th =>
           /\ u \in D2 <=> u \in D
           /\ PC2[u] = PC[u] /\ LC2[u] = LC[u]
           /\ L2[u] = L[u] \/ (PC[u] # "gone" /\ u \notin W2)
           /\ LC[u].wait_for_proc_work => K2[u] = K[u]
           /\ SF2[u] = SF[u] \/ SF2[u] = NoTxn
           /\ u \in W2 => u \in W,
         th \in Threads => ThreadOK(D2, K2, L2, W2, PC2, LC2, SF2, th)
  PROVE  ThreadStates(D2, K2, L2, W2, PC2, LC2, SF2)
<1>1. ASSUME NEW u \in Threads PROVE ThreadOK(D2, K2, L2, W2, PC2, LC2, SF2, u)
  <2>1. CASE u = th
    BY <2>1
  <2>2. CASE u # th
    <3>1. ThreadOK(D, K, L, W, PC, LC, SF, u)
      BY DEF ThreadStates
    <3>. QED BY <2>2, <3>1 DEF ThreadOK
  <2>. QED BY <2>1, <2>2
<1>. QED BY <1>1 DEF ThreadStates

\* binder_transaction's error path.
LEMMA ReturnErrorOf ==
  ASSUME NEW T \in [Threads -> Thr], NEW th \in Threads, NEW cmd \in Cmds
  PROVE  /\ ReturnError(T, th, cmd) \in [Threads -> Thr]
         /\ \A u \in Threads : u # th => ReturnError(T, th, cmd)[u] = T[u]
         /\ ReturnError(T, th, cmd)[th].stack = T[th].stack
         /\ ReturnError(T, th, cmd)[th].todo = Append(T[th].todo, Item("return_error"))
         /\ ReturnError(T, th, cmd)[th].process_todo
         /\ ReturnError(T, th, cmd)[th].return_error = cmd
         /\ ReturnError(T, th, cmd)[th].reply_error = T[th].reply_error
         /\ ReturnError(T, th, cmd)[th].waiting = T[th].waiting
         /\ ReturnError(T, th, cmd)[th].is_dead = T[th].is_dead
         /\ ReturnError(T, th, cmd)[th].tmp_ref = T[th].tmp_ref
<1>0. T[th] \in Thr /\ Item("return_error") \in Work
  BY TxnItems
<1>1. Append(T[th].todo, Item("return_error")) \in Seq(Work)
  BY <1>0, SeqAppend DEF Thr
<1>. DEFINE x == [[[T[th] EXCEPT !.return_error = cmd] EXCEPT
                     !.todo = Append(T[th].todo, Item("return_error"))] EXCEPT
                     !.process_todo = TRUE]
<1>2. /\ x \in Thr /\ x.stack = T[th].stack /\ x.todo = Append(T[th].todo, Item("return_error"))
      /\ x.process_todo = TRUE /\ x.return_error = cmd /\ x.reply_error = T[th].reply_error
      /\ x.waiting = T[th].waiting /\ x.is_dead = T[th].is_dead /\ x.tmp_ref = T[th].tmp_ref
  BY <1>0, <1>1 DEF Thr
<1>3. ReturnError(T, th, cmd) = [T EXCEPT ![th] = x]
  BY <1>0 DEF ReturnError, EnqueueThreadWork, Thr
<1>. HIDE DEF x
<1>. QED BY <1>2, <1>3
\* The notices of threads when one moves.
LEMMA NoticesKeep ==
  ASSUME NEW D, NEW L, NEW RE, NEW PE, NEW PC, Notices(D, L, RE, PE, PC),
         NEW D2, NEW L2, NEW RE2, NEW PE2, NEW PC2, NEW th,
         \A u \in Threads : u # th =>
           /\ u \in D => u \in D2
           /\ L2[u] = L[u] /\ RE2[u] = RE[u] /\ PE2[u] = PE[u] /\ PC2[u] = PC[u],
         th \in Threads => NoticeOK(D2, L2, RE2, PE2, PC2, th)
  PROVE  Notices(D2, L2, RE2, PE2, PC2)
<1>1. ASSUME NEW u \in Threads PROVE NoticeOK(D2, L2, RE2, PE2, PC2, u)
  <2>1. CASE u = th
    BY <2>1
  <2>2. CASE u # th
    BY <2>2 DEF Notices, NoticeOK
  <2>. QED BY <2>1, <2>2
<1>. QED BY <1>1 DEF Notices

\* The parts of the invariant that a thread in user space relies on.
LEMMA Parts ==
  ASSUME NEW k, NEW a, NEW r, Inv(k, a, r)
  PROVE  /\ Typed /\ bug = FALSE /\ Ghosts(k, a, r)
         /\ txn \in [Txns -> Txn] /\ buf \in [Txns -> Buf] /\ thr \in [Threads -> Thr]
         /\ proc \in [Procs -> Prc] /\ node \in [Procs -> Nde]
         /\ pc \in [Threads -> PCs] /\ loc \in [Threads -> Loc]
         /\ sfr \in [Threads \cup Procs -> 0 .. MaxTxns]
         /\ Stacks \in [Threads -> 0 .. MaxTxns] /\ Todos \in [Threads -> Seq(Work)]
         /\ ProcTodos \in [Procs -> Seq(Txns)] /\ AsyncTodos \in [Procs -> Seq(Txns)]
         /\ Names(txn) /\ ThreadLists(Todos, k, a)
         /\ TxnLists(ProcTodos, "proc", k, a) /\ TxnLists(AsyncTodos, "async", k, a)
         /\ Carried(txn, Dead, pc, loc, k, a) /\ Failing(sfr, k, a)
         /\ Placed(txn, Dead, k, a)
         /\ Tree(txn, Dead, k, a, r) /\ AllStacks(txn, Dead, Stacks, k, a, r)
         /\ Directed(txn, Dead, Stacks, Todos, pc, loc, k, a, r)
         /\ Buffers(txn, buf, loc, k, a) /\ Drops(txn, buf, pc, loc, sfr)
         /\ ThreadStates(Dead, Stacks, Todos, Waiting, pc, loc, sfr)
         /\ ProcStates(ProcSts, DeadProcs, ProcTodos, ProcRefs, LiveNodes, AsyncTodos, pc, sfr)
         /\ ThreadCounts(ThreadRefs, pc, loc)
         /\ ProcCounts(Dead, ThreadRefs, ProcSts, ProcRefs, pc, loc)
         /\ Oneways(buf, DeadProcs, LiveNodes, AsyncNodes, AsyncTodos, pc, loc)
         /\ Notices(Dead, Todos, ReturnErrors, ReplyErrors, pc)
         /\ Flags(txn, Dead, Stacks, Todos, Flagged)
<1>1. Stacks \in [Threads -> 0 .. MaxTxns] /\ Todos \in [Threads -> Seq(Work)]
  <2>1. \A u \in Threads : thr[u] \in Thr
    BY DEF Inv, Typed
  <2>. QED BY <2>1 DEF Thr, Stacks, Todos
<1>2. ProcTodos \in [Procs -> Seq(Txns)] /\ AsyncTodos \in [Procs -> Seq(Txns)]
  <2>1. \A p \in Procs : proc[p] \in Prc /\ node[p] \in Nde
    BY DEF Inv, Typed
  <2>. QED BY <2>1 DEF Prc, Nde, ProcTodos, AsyncTodos
<1>. QED BY <1>1, <1>2 DEF Inv, Typed, PlaceInv, CallInv, BufInv, StateInv, WorkInv

\* The invariant after a step from its parts.
LEMMA Whole ==
  ASSUME NEW k, NEW a, NEW r,
         Typed', bug' = FALSE, Ghosts(k, a, r),
         Names(txn'), ThreadLists(Todos', k, a),
         TxnLists(ProcTodos', "proc", k, a), TxnLists(AsyncTodos', "async", k, a),
         Carried(txn', Dead', pc', loc', k, a), Failing(sfr', k, a),
         Placed(txn', Dead', k, a),
         Tree(txn', Dead', k, a, r), AllStacks(txn', Dead', Stacks', k, a, r),
         Directed(txn', Dead', Stacks', Todos', pc', loc', k, a, r),
         Buffers(txn', buf', loc', k, a), Drops(txn', buf', pc', loc', sfr'),
         ThreadStates(Dead', Stacks', Todos', Waiting', pc', loc', sfr'),
         ProcStates(ProcSts', DeadProcs', ProcTodos', ProcRefs', LiveNodes', AsyncTodos',
                    pc', sfr'),
         ThreadCounts(ThreadRefs', pc', loc'),
         ProcCounts(Dead', ThreadRefs', ProcSts', ProcRefs', pc', loc'),
         Oneways(buf', DeadProcs', LiveNodes', AsyncNodes', AsyncTodos', pc', loc'),
         Notices(Dead', Todos', ReturnErrors', ReplyErrors', pc'),
         Flags(txn', Dead', Stacks', Todos', Flagged')
  PROVE  Inv(k, a, r)'
  BY DEF Inv, PlaceInv, CallInv, BufInv, StateInv, WorkInv

\* A thread in user space has nothing else going on and is not held up.
LEMMA UserFacts ==
  ASSUME NEW k, NEW a, NEW r, Inv(k, a, r), NEW th \in Threads, pc[th] = "user"
  PROVE  /\ th \notin Dead /\ th \notin Waiting /\ ~thr[th].is_dead
         /\ ~Holding(pc, th) /\ ~loc[th].wait_for_proc_work
  BY ThreadFacts, ThreadViews, Parts DEF Holding

\* A command that only queues a return_error.
LEMMA RefusedStep ==
  ASSUME NEW k, NEW a, NEW r, Inv(k, a, r), NEW th \in Threads, pc[th] = "user",
         thr[th].return_error = "OK", thr' = ReturnError(thr, th, "ERROR"),
         UNCHANGED <<txn, buf, proc, node, pc, loc, sfr, bug>>
  PROVE  Inv(k, a, r)'
<1>p. /\ Typed /\ bug = FALSE /\ Ghosts(k, a, r) /\ Todos \in [Threads -> Seq(Work)]
      /\ ThreadLists(Todos, k, a) /\ Placed(txn, Dead, k, a)
      /\ Directed(txn, Dead, Stacks, Todos, pc, loc, k, a, r)
      /\ ThreadStates(Dead, Stacks, Todos, Waiting, pc, loc, sfr)
      /\ Notices(Dead, Todos, ReturnErrors, ReplyErrors, pc)
      /\ Flags(txn, Dead, Stacks, Todos, Flagged)
  BY Parts
<1>0. thr \in [Threads -> Thr] /\ "ERROR" \in Cmds /\ Typed
  BY Parts DEF Cmds
<1>1. /\ thr' \in [Threads -> Thr]
      /\ \A u \in Threads : u # th => thr'[u] = thr[u]
      /\ thr'[th].stack = thr[th].stack
      /\ thr'[th].todo = Append(thr[th].todo, Item("return_error"))
      /\ thr'[th].process_todo
      /\ thr'[th].return_error = "ERROR" /\ thr'[th].reply_error = thr[th].reply_error
      /\ thr'[th].waiting = thr[th].waiting /\ thr'[th].is_dead = thr[th].is_dead
      /\ thr'[th].tmp_ref = thr[th].tmp_ref
  BY <1>0, ReturnErrorOf
<1>2. /\ Stacks' = Stacks /\ ReplyErrors' = ReplyErrors /\ Waiting' = Waiting
      /\ Dead' = Dead /\ ThreadRefs' = ThreadRefs
      /\ UNCHANGED <<ProcSts, ProcTodos, DeadProcs, ProcRefs>>
      /\ UNCHANGED <<LiveNodes, AsyncNodes, AsyncTodos>>
  BY <1>1, SameThreads, SameAll
<1>3. /\ Todos'[th] = Append(Todos[th], Item("return_error"))
      /\ \A u \in Threads : u # th => Todos'[u] = Todos[u]
      /\ Flagged' = Flagged \cup {th}
      /\ ReturnErrors' = [ReturnErrors EXCEPT ![th] = "ERROR"]
  BY <1>1 DEF Todos, Flagged, ReturnErrors
<1>4. NoticeOK(Dead, Todos, ReturnErrors, ReplyErrors, pc, th) /\ ReturnErrors[th] = "OK"
  BY Parts, <1>0, ThreadViews DEF Notices
<1>5. Item("return_error") \notin ToSet(Todos[th])
  BY <1>4 DEF NoticeOK
<1>6. /\ Todos'[th] # <<>> /\ \A u \in Threads : u # th => Todos'[u] = Todos[u]
      /\ ToSet(Todos'[th]) = ToSet(Todos[th]) \cup {Item("return_error")}
      /\ ThreadLists(Todos', k, a)
      /\ Directed(txn, Dead, Stacks, Todos', pc, loc, k, a, r)
  <2>1. /\ ThreadLists(Todos', k, a)
        /\ Directed(txn, Dead, Stacks, Todos', pc, loc, k, a, r)
    BY <1>3, <1>5, <1>p, NoticeAdded
  <2>2. Todos[th] \in Seq(Work)
    BY <1>p
  <2>. QED BY <2>1, <2>2, <1>3, NoticeLast
<1>7. Typed'
  BY <1>0, <1>1 DEF Typed
<1>8. ThreadStates(Dead, Stacks, Todos', Waiting, pc, loc, sfr)
  <2>1. ThreadOK(Dead, Stacks, Todos, Waiting, pc, loc, sfr, th) /\ th \notin Waiting
    BY Parts, UserFacts DEF ThreadStates
  <2>2. ThreadOK(Dead, Stacks, Todos', Waiting, pc, loc, sfr, th)
    BY <2>1 DEF ThreadOK
  <2>. QED BY <2>2, <1>6, <1>p, ThreadStatesKeep
<1>9. Notices(Dead, Todos', ReturnErrors', ReplyErrors, pc)
  <2>1. ReturnErrors'[th] = "ERROR" /\ \A u \in Threads : u # th => ReturnErrors'[u] = ReturnErrors[u]
    BY <1>3 DEF ReturnErrors
  <2>2. Item("reply_error") # Item("return_error")
    BY NoticeTypes
  <2>3. NoticeOK(Dead, Todos', ReturnErrors', ReplyErrors, pc, th)
    BY <1>4, <1>6, <2>1, <2>2 DEF NoticeOK
  <2>. QED BY <2>1, <2>3, <1>6, <1>p, NoticesKeep
<1>10. Flags(txn, Dead, Stacks, Todos', Flagged')
  <2>1. th \in Flagged' /\ \A u \in Threads : u # th => (u \in Flagged' <=> u \in Flagged)
    BY <1>3
  <2>. QED BY <2>1, <1>6, <1>p, FlagsKeep
<1>. QED BY <1>2, <1>6, <1>7, <1>8, <1>9, <1>10, Parts, Whole

\* binder_transaction refuses a call.
LEMMA CallFailsStep ==
  ASSUME NEW k, NEW a, NEW r, Inv(k, a, r), NEW th \in Threads, NEW q, NEW ow,
         CallFails(th, q, ow)
  PROVE  Inv(k, a, r)'
  BY RefusedStep DEF CallFails, CanWrite, InUser

\* binder_transaction refuses a reply without a call to answer.
LEMMA ReplyRefusedStep ==
  ASSUME NEW k, NEW a, NEW r, Inv(k, a, r), NEW th \in Threads, ReplyRefused(th)
  PROVE  Inv(k, a, r)'
  BY RefusedStep DEF ReplyRefused, CanWrite, InUser
-----------------------------------------------------------------------------
(* Reading.                                                                *)

\* binder_dequeue_work_head_ilocked.
LEMMA DequeueHeadOf ==
  ASSUME NEW T \in [Threads -> Thr], NEW th \in Threads, T[th].todo # <<>>
  PROVE  /\ DequeueHead(T, th) \in [Threads -> Thr]
         /\ \A u \in Threads : u # th => DequeueHead(T, th)[u] = T[u]
         /\ DequeueHead(T, th)[th].stack = T[th].stack
         /\ DequeueHead(T, th)[th].todo = Tail(T[th].todo)
         /\ DequeueHead(T, th)[th].process_todo <=> T[th].process_todo /\ Tail(T[th].todo) # <<>>
         /\ DequeueHead(T, th)[th].return_error = T[th].return_error
         /\ DequeueHead(T, th)[th].reply_error = T[th].reply_error
         /\ DequeueHead(T, th)[th].waiting = T[th].waiting
         /\ DequeueHead(T, th)[th].is_dead = T[th].is_dead
         /\ DequeueHead(T, th)[th].tmp_ref = T[th].tmp_ref
<1>0. T[th] \in Thr /\ Tail(T[th].todo) \in Seq(Work)
  <2>1. T[th] \in Thr
    OBVIOUS
  <2>. QED BY <2>1, SeqTail DEF Thr
<1>1. PICK b \in BOOLEAN : b <=> T[th].process_todo /\ Tail(T[th].todo) # <<>>
  OBVIOUS
<1>. DEFINE x == [[T[th] EXCEPT !.todo = Tail(T[th].todo)] EXCEPT !.process_todo = b]
<1>2. /\ x \in Thr /\ x.stack = T[th].stack /\ x.todo = Tail(T[th].todo)
      /\ x.process_todo = b /\ x.return_error = T[th].return_error
      /\ x.reply_error = T[th].reply_error
      /\ x.waiting = T[th].waiting /\ x.is_dead = T[th].is_dead /\ x.tmp_ref = T[th].tmp_ref
  BY <1>0 DEF Thr
<1>3. DequeueHead(T, th) = [T EXCEPT ![th] = x]
  <2>1. (T[th].process_todo /\ Tail(T[th].todo) # <<>>) = b
    BY <1>1
  <2>2. DequeueHead(T, th)
        = [T EXCEPT ![th] = [[T[th] EXCEPT !.todo = Tail(T[th].todo)] EXCEPT
             !.process_todo = (T[th].process_todo /\ Tail(T[th].todo) # <<>>)]]
    BY <1>0 DEF DequeueHead, Thr
  <2>. QED BY <2>1, <2>2
<1>. HIDE DEF x
<1>. QED BY <1>1, <1>2, <1>3

\* binder_thread_read delivers a notice.
LEMMA ReadNoticeStep ==
  ASSUME NEW k, NEW a, NEW r, Inv(k, a, r), NEW th \in Threads, ReadNotice(th)
  PROVE  Inv(k, a, r)'
<1>p. /\ Typed /\ bug = FALSE /\ Ghosts(k, a, r) /\ Todos \in [Threads -> Seq(Work)]
      /\ thr \in [Threads -> Thr] /\ loc \in [Threads -> Loc] /\ pc \in [Threads -> PCs]
      /\ ThreadLists(Todos, k, a) /\ Placed(txn, Dead, k, a)
      /\ Carried(txn, Dead, pc, loc, k, a)
      /\ Directed(txn, Dead, Stacks, Todos, pc, loc, k, a, r)
      /\ Buffers(txn, buf, loc, k, a) /\ Drops(txn, buf, pc, loc, sfr)
      /\ ThreadStates(Dead, Stacks, Todos, Waiting, pc, loc, sfr)
      /\ ThreadCounts(ThreadRefs, pc, loc)
      /\ ProcCounts(Dead, ThreadRefs, ProcSts, ProcRefs, pc, loc)
      /\ Oneways(buf, DeadProcs, LiveNodes, AsyncNodes, AsyncTodos, pc, loc)
      /\ Notices(Dead, Todos, ReturnErrors, ReplyErrors, pc)
      /\ Flags(txn, Dead, Stacks, Todos, Flagged)
  BY Parts
<1>0. /\ pc[th] = "loop" /\ sfr[th] = NoTxn /\ thr[th].todo # <<>>
      /\ Head(thr[th].todo).type # "txn"
      /\ loc' = [loc EXCEPT ![th].got = TRUE]
      /\ UNCHANGED <<txn, buf, proc, node, pc, sfr>>
  BY DEF ReadNotice
<1>1. PICK w : w = Head(thr[th].todo)
  OBVIOUS
<1>. DEFINE T1 == DequeueHead(thr, th)
<1>2. /\ T1 \in [Threads -> Thr] /\ \A u \in Threads : u # th => T1[u] = thr[u]
      /\ T1[th].stack = thr[th].stack
      /\ T1[th].todo = Tail(thr[th].todo)
      /\ T1[th].process_todo <=> thr[th].process_todo /\ Tail(thr[th].todo) # <<>>
      /\ T1[th].return_error = thr[th].return_error
      /\ T1[th].reply_error = thr[th].reply_error
      /\ T1[th].waiting = thr[th].waiting /\ T1[th].is_dead = thr[th].is_dead
      /\ T1[th].tmp_ref = thr[th].tmp_ref
  BY <1>p, <1>0, DequeueHeadOf
<1>3. thr' = CASE w.type = "return_error" -> [T1 EXCEPT ![th].return_error = "OK"]
               [] w.type = "reply_error" -> [T1 EXCEPT ![th].reply_error = "OK"]
               [] OTHER -> T1
  BY <1>1 DEF ReadNotice
<1>. HIDE DEF T1
<1>4. /\ thr' \in [Threads -> Thr] /\ \A u \in Threads : u # th => thr'[u] = thr[u]
      /\ thr'[th].stack = thr[th].stack
      /\ thr'[th].todo = Tail(thr[th].todo)
      /\ thr'[th].process_todo <=> thr[th].process_todo /\ Tail(thr[th].todo) # <<>>
      /\ thr'[th].return_error = IF w.type = "return_error" THEN "OK" ELSE thr[th].return_error
      /\ thr'[th].reply_error = IF w.type = "reply_error" THEN "OK" ELSE thr[th].reply_error
      /\ thr'[th].waiting = thr[th].waiting /\ thr'[th].is_dead = thr[th].is_dead
      /\ thr'[th].tmp_ref = thr[th].tmp_ref
  <2>1. T1[th] \in Thr /\ "OK" \in Cmds
    BY <1>2 DEF Cmds
  <2>2. CASE w.type = "return_error"
    <3>1. thr' = [T1 EXCEPT ![th].return_error = "OK"] /\ w.type # "reply_error"
      BY <2>2, <1>3
    <3>2. [T1[th] EXCEPT !.return_error = "OK"] \in Thr
      BY <2>1 DEF Thr
    <3>3. thr'[th] = [T1[th] EXCEPT !.return_error = "OK"]
          /\ \A u \in Threads : u # th => thr'[u] = T1[u]
      BY <3>1, <1>2
    <3>4. thr' \in [Threads -> Thr]
      BY <3>1, <3>2, <1>2
    <3>. QED BY <2>1, <2>2, <3>1, <3>3, <3>4, <1>2 DEF Thr
  <2>3. CASE w.type = "reply_error"
    <3>1. thr' = [T1 EXCEPT ![th].reply_error = "OK"] /\ w.type # "return_error"
      BY <2>3, <1>3
    <3>2. [T1[th] EXCEPT !.reply_error = "OK"] \in Thr
      BY <2>1 DEF Thr
    <3>3. thr'[th] = [T1[th] EXCEPT !.reply_error = "OK"]
          /\ \A u \in Threads : u # th => thr'[u] = T1[u]
      BY <3>1, <1>2
    <3>4. thr' \in [Threads -> Thr]
      BY <3>1, <3>2, <1>2
    <3>. QED BY <2>1, <2>3, <3>1, <3>3, <3>4, <1>2 DEF Thr
  <2>4. CASE w.type # "return_error" /\ w.type # "reply_error"
    <3>1. thr' = T1
      BY <2>4, <1>3
    <3>. QED BY <2>4, <3>1, <1>2
  <2>. QED BY <2>2, <2>3, <2>4
<1>5. /\ Stacks' = Stacks /\ Waiting' = Waiting /\ Dead' = Dead /\ ThreadRefs' = ThreadRefs
      /\ UNCHANGED <<ProcSts, ProcTodos, DeadProcs, ProcRefs>>
      /\ UNCHANGED <<LiveNodes, AsyncNodes, AsyncTodos>>
  BY <1>0, <1>4, SameThreads, SameAll
<1>6. /\ Todos'[th] = Tail(Todos[th])
      /\ \A u \in Threads : u # th => Todos'[u] = Todos[u]
      /\ \A u \in Threads : u # th => ReturnErrors'[u] = ReturnErrors[u]
      /\ \A u \in Threads : u # th => ReplyErrors'[u] = ReplyErrors[u]
      /\ \A u \in Threads : u # th => (u \in Flagged' <=> u \in Flagged)
      /\ th \in Flagged' <=> th \in Flagged /\ Todos'[th] # <<>>
      /\ ReturnErrors'[th] = IF w.type = "return_error" THEN "OK" ELSE ReturnErrors[th]
      /\ ReplyErrors'[th] = IF w.type = "reply_error" THEN "OK" ELSE ReplyErrors[th]
  BY <1>4 DEF Todos, Flagged, ReturnErrors, ReplyErrors
<1>7. Todos[th] \in Seq(Work) /\ Todos[th] # <<>> /\ w = Head(Todos[th]) /\ w.type # "txn"
  BY <1>p, <1>0, <1>1 DEF Todos
<1>8. /\ ToSet(Todos[th]) = ToSet(Todos'[th]) \cup {w} /\ w \in Work
      /\ Todos'[th] \in Seq(Work)
  BY <1>6, <1>7, SeqTail
<1>9. /\ ListOK(Todos[th], k, a, th) /\ w = Item(w.type)
      /\ w.type # "complete" => w \notin ToSet(Todos'[th])
  <2>1. ListOK(Todos[th], k, a, th)
    BY <1>p DEF ThreadLists
  <2>2. w.t = NoTxn
    BY <2>1, <1>7, <1>8 DEF ListOK
  <2>3. Once(Todos[th])
    BY <2>1 DEF ListOK
  <2>. QED BY <2>1, <2>2, <2>3, <1>6, <1>7, <1>8, TxnItems, OnceTail
<1>10. /\ pc'[th] = "loop" /\ OnlyMoves(pc, loc, pc', loc', th)
       /\ ~Holding(pc, th) /\ ~Holding(pc', th) /\ loc'[th] \in Loc /\ pc' = pc
       /\ loc' \in [Threads -> Loc]
       /\ loc'[th].wait_for_proc_work = loc[th].wait_for_proc_work
  <2>1. loc[th] \in Loc
    BY <1>p
  <2>2. /\ [loc[th] EXCEPT !.got = TRUE] \in Loc
        /\ [loc[th] EXCEPT !.got = TRUE].wait_for_proc_work = loc[th].wait_for_proc_work
    BY <2>1 DEF Loc
  <2>3. loc' = [loc EXCEPT ![th] = [loc[th] EXCEPT !.got = TRUE]]
    BY <1>0, <1>p
  <2>. QED BY <2>2, <2>3, <1>0, <1>p DEF OnlyMoves, Holding
<1>11. Typed'
  BY <1>p, <1>0, <1>4, <1>10 DEF Typed
<1>12. ThreadLists(Todos', k, a)
  <2>1. ListOK(Todos'[th], k, a, th)
    BY <1>6, <1>7, <1>9, ListTail
  <2>. QED BY <2>1, <1>6, <1>p DEF ThreadLists
<1>13. Directed(txn, Dead, Stacks, Todos', pc', loc', k, a, r)
  <2>1. ASSUME NEW u \in Threads, NEW t \in Txns, TxnItem(t) \in ToSet(Todos[u]),
               Head(Todos[u]) = TxnItem(t)
        PROVE  Head(Todos'[u]) = TxnItem(t)
    <3>1. u # th
      BY <2>1, <1>7, TxnItems
    <3>. QED BY <3>1, <2>1, <1>6
  <2>2. Directed(txn, Dead, Stacks, Todos', pc, loc, k, a, r)
    BY <2>1, <1>p, ListsDirected
  <2>. QED BY <2>2, <1>10, MoveDirected
<1>14. Carried(txn, Dead, pc', loc', k, a) /\ Buffers(txn, buf, loc', k, a)
       /\ Drops(txn, buf, pc', loc', sfr)
  BY <1>p, <1>0, <1>10, MoveCarried, MoveBuffers, MoveDrops
<1>15. ThreadStates(Dead, Stacks, Todos', Waiting, pc', loc', sfr)
  <2>1. ThreadOK(Dead, Stacks, Todos, Waiting, pc, loc, sfr, th)
    BY <1>p DEF ThreadStates
  <2>2. ThreadOK(Dead, Stacks, Todos', Waiting, pc', loc', sfr, th)
    BY <2>1, <1>0, <1>10 DEF ThreadOK
  <2>3. \A u \in Threads : u # th =>
          pc'[u] = pc[u] /\ loc'[u] = loc[u] /\ Todos'[u] = Todos[u]
    BY <1>6, <1>10 DEF OnlyMoves
  <2>4. ThreadStates(Dead, Stacks, Todos, Waiting, pc, loc, sfr)
    BY <1>p
  <2>. QED BY <2>2, <2>3, <2>4, ThreadStatesKeep
<1>16. /\ ThreadCounts(ThreadRefs, pc', loc')
       /\ ProcCounts(Dead, ThreadRefs, ProcSts, ProcRefs, pc', loc')
       /\ Oneways(buf, DeadProcs, LiveNodes, AsyncNodes, AsyncTodos, pc', loc')
  BY <1>p, <1>0, <1>10, MoveCounts, MoveOneways
<1>17. NoticeOK(Dead, Todos, ReturnErrors, ReplyErrors, pc, th)
  BY <1>p DEF Notices
<1>18. Notices(Dead, Todos', ReturnErrors', ReplyErrors', pc')
  <2>1. NoticeOK(Dead, Todos', ReturnErrors', ReplyErrors', pc', th)
    <3>1. Item("return_error") \in ToSet(Todos'[th]) => ReturnErrors'[th] # "OK"
      BY <1>6, <1>8, <1>9, <1>17 DEF NoticeOK
    <3>2. Item("reply_error") \in ToSet(Todos'[th]) => ReplyErrors'[th] # "OK"
      BY <1>6, <1>8, <1>9, <1>17 DEF NoticeOK
    <3>3. th \notin Dead /\ ReplyErrors'[th] # "OK" => Item("reply_error") \in ToSet(Todos'[th])
      BY <1>6, <1>8, <1>9, <1>17, NoticeTypes DEF NoticeOK
    <3>. QED BY <3>1, <3>2, <3>3, <1>10 DEF NoticeOK
  <2>2. \A u \in Threads : u # th =>
          /\ Todos'[u] = Todos[u] /\ ReturnErrors'[u] = ReturnErrors[u]
          /\ ReplyErrors'[u] = ReplyErrors[u] /\ pc'[u] = pc[u]
    BY <1>6, <1>10
  <2>3. Notices(Dead, Todos, ReturnErrors, ReplyErrors, pc)
    BY <1>p
  <2>. QED BY <2>1, <2>2, <2>3, NoticesKeep
<1>19. Flags(txn, Dead, Stacks, Todos', Flagged')
  <2>1. ASSUME th \notin Dead PROVE FlagOK(txn, Stacks, Todos', Flagged', th)
    <3>1. FlagOK(txn, Stacks, Todos, Flagged, th)
      BY <2>1, <1>p DEF Flags
    <3>2. CASE Todos'[th] = <<>>
      BY <3>2, <1>6 DEF FlagOK
    <3>3. CASE Todos'[th] # <<>>
      <4>1. th \in Flagged
        BY <3>1, <3>3, <1>6, <1>7, SeqSmall DEF FlagOK
      <4>. QED BY <4>1, <3>3, <1>6 DEF FlagOK
    <3>. QED BY <3>2, <3>3
  <2>2. ASSUME NEW u \in Threads, u \notin Dead PROVE FlagOK(txn, Stacks, Todos', Flagged', u)
    <3>1. CASE u = th
      BY <3>1, <2>1, <2>2
    <3>2. CASE u # th
      BY <3>2, <2>2, <1>6, <1>p DEF Flags, FlagOK
    <3>. QED BY <3>1, <3>2
  <2>. QED BY <2>2 DEF Flags
<1>20. bug' = FALSE
  <2>1. /\ w.type = "return_error" => thr[th].return_error # "OK"
        /\ w.type = "reply_error" => thr[th].reply_error # "OK"
    BY <1>8, <1>9, <1>17, <1>p, ThreadViews DEF NoticeOK
  <2>. QED BY <2>1, <1>1, <1>p DEF ReadNotice
<1>. QED BY <1>0, <1>5, <1>11, <1>12, <1>13, <1>14, <1>15, <1>16, <1>18, <1>19, <1>20, <1>p,
            Parts, Whole
-----------------------------------------------------------------------------
(* Buffers go.                                                             *)

\* A transaction changes in nothing but whether it has a buffer.
SameCalls(X, X2) ==
  \A t \in Txns :
    /\ X2[t].kind = X[t].kind /\ X2[t].from = X[t].from
    /\ X2[t].from_parent = X[t].from_parent /\ X2[t].to_parent = X[t].to_parent
    /\ X2[t].to_proc = X[t].to_proc /\ X2[t].to_thread = X[t].to_thread

\* Calls when only buffers of transactions change.
LEMMA SameCallsKeep ==
  ASSUME NEW X \in [Txns -> Txn], NEW X2, SameCalls(X, X2), NEW k, NEW a, NEW D
  PROVE  /\ Names(X) => Names(X2)
         /\ \A PC, LC : Carried(X, D, PC, LC, k, a) => Carried(X2, D, PC, LC, k, a)
         /\ Placed(X, D, k, a) => Placed(X2, D, k, a)
         /\ \A r : Tree(X, D, k, a, r) => Tree(X2, D, k, a, r)
         /\ \A r, K : K \in [Threads -> 0 .. MaxTxns] /\ AllStacks(X, D, K, k, a, r) =>
                      AllStacks(X2, D, K, k, a, r)
<1>1. Names(X) => Names(X2)
  BY DEF Names, SameCalls
<1>2. ASSUME NEW PC, NEW LC, Carried(X, D, PC, LC, k, a)
      PROVE  Carried(X2, D, PC, LC, k, a)
  <2>1. ASSUME NEW u \in Threads PROVE CarryOK(X2, D, PC, LC, k, a, u)
    <3>1. CarryOK(X, D, PC, LC, k, a, u)
      BY <1>2 DEF Carried
    <3>. QED BY <3>1, CarryKeep DEF SameCalls
  <2>. QED BY <2>1, <1>2 DEF Carried
<1>3. ASSUME Placed(X, D, k, a) PROVE Placed(X2, D, k, a)
  <2>1. ASSUME NEW t \in Txns PROVE PlaceOK(X2, D, k, a, t)
    <3>1. PlaceOK(X, D, k, a, t)
      BY <1>3 DEF Placed
    <3>. QED BY <3>1, PlaceKeep DEF SameCalls
  <2>. QED BY <2>1 DEF Placed
<1>4. ASSUME NEW r, Tree(X, D, k, a, r) PROVE Tree(X2, D, k, a, r)
  <2>1. Keeps(X, k, a, k, a)
    BY DEF Keeps
  <2>. QED BY <2>1, <1>4, TreeKeep DEF SameCalls
<1>5. ASSUME NEW r, NEW K \in [Threads -> 0 .. MaxTxns], AllStacks(X, D, K, k, a, r)
      PROVE  AllStacks(X2, D, K, k, a, r)
  <2>1. ASSUME NEW u \in Threads, u \notin D PROVE StackOK(X2, K, k, a, r, u)
    <3>1. StackOK(X, K, k, a, r, u) /\ K[u] \in 0 .. MaxTxns
      BY <2>1, <1>5 DEF AllStacks
    <3>2. \A s \in Txns : Alike(X, X2, k, a, k, a, u, s)
      BY DEF SameCalls, Alike, Mine, Below, Sync
    <3>. QED BY <3>1, <3>2, StackKeep
  <2>. QED BY <2>1 DEF AllStacks
<1>. QED BY <1>1, <1>2, <1>3, <1>4, <1>5

\* The same for what relates calls and lists.
LEMMA SameCallsWork ==
  ASSUME NEW X \in [Txns -> Txn], NEW X2, SameCalls(X, X2), NEW D,
         NEW K \in [Threads -> 0 .. MaxTxns]
  PROVE  /\ \A L, PC, LC, k, a, r :
              Directed(X, D, K, L, PC, LC, k, a, r) /\ Placed(X, D, k, a)
              /\ Carried(X, D, PC, LC, k, a) => Directed(X2, D, K, L, PC, LC, k, a, r)
         /\ \A L, F : Flags(X, D, K, L, F) => Flags(X2, D, K, L, F)
<1>0. ASSUME NEW u \in Threads, K[u] # NoTxn PROVE X2[K[u]].from = X[K[u]].from
  BY <1>0, TxnNumbers DEF SameCalls
<1>1. ASSUME NEW L, NEW PC, NEW LC, NEW k, NEW a, NEW r,
             Directed(X, D, K, L, PC, LC, k, a, r), Placed(X, D, k, a),
             Carried(X, D, PC, LC, k, a)
      PROVE  Directed(X2, D, K, L, PC, LC, k, a, r)
  <2>1. ASSUME NEW t \in Txns PROVE QueuedOK(X2, D, K, L, k, a, r, t)
    <3>1. QueuedOK(X, D, K, L, k, a, r, t) /\ (k[t] = "thread" => a[t] \in Threads)
      BY <1>1 DEF Directed, Placed, PlaceOK
    <3>. QED BY <3>1, <1>0 DEF SameCalls, QueuedOK, Back, Sync
  <2>2. ASSUME NEW u \in Threads, PC[u] = "send" PROVE SentOK(X2, D, K, LC, r, u)
    <3>1. SentOK(X, D, K, LC, r, u) /\ CarryOK(X, D, PC, LC, k, a, u)
      BY <1>1, <2>2 DEF Directed, Carried
    <3>2. LC[u].t \in Txns /\ LC[u].target_thread = X[LC[u].t].to_thread
      BY <3>1, <2>2 DEF CarryOK, SendCarry
    <3>3. LC[u].target_thread \in Threads \cup {NoThread}
      BY <3>2, TxnFields
    <3>. QED BY <3>1, <3>2, <3>3, <1>0 DEF SameCalls, SentOK, Back, Sync
  <2>. QED BY <2>1, <2>2 DEF Directed
<1>2. ASSUME NEW L, NEW F, Flags(X, D, K, L, F) PROVE Flags(X2, D, K, L, F)
  BY <1>0, <1>2 DEF Flags, FlagOK
<1>. QED BY <1>1, <1>2

\* A one-way call of a node gets its turn: from async_todo to its process.
LEMMA LetThrough ==
  ASSUME NEW X \in [Txns -> Txn], NEW D, NEW k, NEW a, NEW r, Ghosts(k, a, r),
         NEW h \in Txns, k[h] = "async", Placed(X, D, k, a), Tree(X, D, k, a, r),
         NEW k2, SameBut(k, a, k2, a, h), k2[h] = "proc"
  PROVE  /\ \A L : ThreadLists(L, k, a) => ThreadLists(L, k2, a)
         /\ \A PC, LC : Carried(X, D, PC, LC, k, a) => Carried(X, D, PC, LC, k2, a)
         /\ \A SF : SF \in [Threads \cup Procs -> 0 .. MaxTxns] /\ Failing(SF, k, a) =>
                      Failing(SF, k2, a)
         /\ Placed(X, D, k2, a) /\ Tree(X, D, k2, a, r)
         /\ \A K : K \in [Threads -> 0 .. MaxTxns] /\ AllStacks(X, D, K, k, a, r) =>
                     AllStacks(X, D, K, k2, a, r)
         /\ \A K, L, PC, LC : Directed(X, D, K, L, PC, LC, k, a, r) =>
                                Directed(X, D, K, L, PC, LC, k2, a, r)
         /\ \A B, LC : Buffers(X, B, LC, k, a) => Buffers(X, B, LC, k2, a)
<1>1. /\ SameBut(k, a, k2, a, h) /\ k2[h] = "proc"
      /\ \A s \in Txns : s # h => k2[s] = k[s]
  BY DEF SameBut
<1>. HIDE DEF SameBut
<1>2. ASSUME NEW L, ThreadLists(L, k, a) PROVE ThreadLists(L, k2, a)
  BY <1>1, <1>2, ThreadListsKeep
<1>3. ASSUME NEW PC, NEW LC, Carried(X, D, PC, LC, k, a) PROVE Carried(X, D, PC, LC, k2, a)
  <2>1. ASSUME NEW u \in Threads PROVE CarryOK(X, D, PC, LC, k2, a, u)
    <3>1. CarryOK(X, D, PC, LC, k, a, u)
      BY <1>3 DEF Carried
    <3>2. \A s \in Txns : k[s] = "carried" => k2[s] = k[s]
      BY <1>1
    <3>. QED BY <3>1, <3>2 DEF CarryOK, SendCarry, ReplyCarry
  <2>2. ASSUME NEW t \in Txns PROVE CarrierOK(PC, LC, k2, a, t)
    <3>1. CarrierOK(PC, LC, k, a, t) /\ (k2[t] = "carried" => k[t] = "carried")
      BY <1>1, <1>3 DEF Carried
    <3>. QED BY <3>1, CarrierKeep
  <2>. QED BY <2>1, <2>2 DEF Carried
<1>4. ASSUME NEW SF, SF \in [Threads \cup Procs -> 0 .. MaxTxns], Failing(SF, k, a)
      PROVE  Failing(SF, k2, a)
  BY <1>1, <1>4, FailKeep
<1>5. Placed(X, D, k2, a)
  <2>1. ASSUME NEW t \in Txns PROVE PlaceOK(X, D, k2, a, t)
    <3>0. PlaceOK(X, D, k, a, t)
      BY DEF Placed
    <3>1. CASE t = h
      BY <3>0, <3>1, <1>1 DEF PlaceOK
    <3>2. CASE t # h
      BY <3>0, <3>2, <1>1, PlaceKeep
    <3>. QED BY <3>1, <3>2
  <2>. QED BY <2>1 DEF Placed
<1>6. Tree(X, D, k2, a, r)
  <2>1. NoChild(X, h)
    BY LeafNoChild
  <2>2. Keeps(X, k, a, k2, a)
    BY <2>1, <1>1, KeepsMove
  <2>. QED BY <2>2, TreeKeep
<1>7. ASSUME NEW K \in [Threads -> 0 .. MaxTxns], AllStacks(X, D, K, k, a, r)
      PROVE  AllStacks(X, D, K, k2, a, r)
  <2>1. ASSUME NEW u \in Threads, u \notin D PROVE StackOK(X, K, k2, a, r, u)
    <3>1. StackOK(X, K, k, a, r, u) /\ K[u] \in 0 .. MaxTxns
      BY <2>1, <1>7 DEF AllStacks
    <3>2. \A s \in Txns : k2[s] = "served" <=> k[s] = "served"
      BY <1>1
    <3>3. \A s \in Txns : Alike(X, X, k, a, k2, a, u, s)
      BY <3>2 DEF Alike, Mine
    <3>. QED BY <3>1, <3>3, StackKeep
  <2>. QED BY <2>1 DEF AllStacks
<1>8. ASSUME NEW K, NEW L, NEW PC, NEW LC, Directed(X, D, K, L, PC, LC, k, a, r)
      PROVE  Directed(X, D, K, L, PC, LC, k2, a, r)
  <2>1. ASSUME NEW t \in Txns PROVE QueuedOK(X, D, K, L, k2, a, r, t)
    <3>1. QueuedOK(X, D, K, L, k, a, r, t) /\ (k2[t] = "thread" => k[t] = "thread")
      BY <1>1, <1>8 DEF Directed
    <3>. QED BY <3>1 DEF QueuedOK
  <2>. QED BY <2>1, <1>8 DEF Directed
<1>9. ASSUME NEW B, NEW LC, Buffers(X, B, LC, k, a) PROVE Buffers(X, B, LC, k2, a)
  <2>1. ASSUME NEW t \in Txns PROVE BufferOK(X, B, LC, k2, a, t)
    <3>1. BufferOK(X, B, LC, k, a, t) /\ (k2[t] = k[t] \/ (k[t] = "async" /\ k2[t] = "proc"))
      BY <1>1, <1>9 DEF Buffers
    <3>. QED BY <3>1 DEF BufferOK
  <2>. QED BY <2>1 DEF Buffers
<1>. QED BY <1>1, <1>2, <1>3, <1>4, <1>5, <1>6, <1>7, <1>8, <1>9

\* The buffer of a one-way call, or of something else, is freed.
LEMMA OnewayOther ==
  ASSUME NEW B, NEW PD, NEW NL, NEW NA, NEW NQ, NEW PC, NEW LC,
         Oneways(B, PD, NL, NA, NQ, PC, LC), NEW B2, NEW t \in Txns,
         ~B[t].async, B2[t].st = "none", \A s \in Txns : s # t => B2[s] = B[s]
  PROVE  Oneways(B2, PD, NL, NA, NQ, PC, LC)
<1>1. ASSUME NEW p PROVE Active(B2, NQ, PC, LC, p) = Active(B, NQ, PC, LC, p)
  <2>1. ASSUME NEW s \in Txns
        PROVE  s \in Active(B2, NQ, PC, LC, p) <=> s \in Active(B, NQ, PC, LC, p)
    <3>1. CASE s = t
      BY <3>1 DEF Active
    <3>2. CASE s # t
      BY <3>2 DEF Active
    <3>. QED BY <3>1, <3>2
  <2>. QED BY <2>1 DEF Active
<1>. QED BY <1>1 DEF Oneways, OnewayOK

\* The last one-way call of a node is freed.
LEMMA OnewayLast ==
  ASSUME NEW B, NEW PD, NEW NL, NEW NA, NEW NQ, NEW PC, NEW LC,
         Oneways(B, PD, NL, NA, NQ, PC, LC), NEW B2, NEW t \in Txns, NEW p \in NL,
         t \in Active(B, NQ, PC, LC, p), NL \subseteq Procs,
         B2[t].st = "none", \A s \in Txns : s # t => B2[s] = B[s], NQ[p] = <<>>,
         NEW NA2, \A q \in NL : q \in NA2 <=> q \in NA /\ q # p
  PROVE  Oneways(B2, PD, NL, NA2, NQ, PC, LC)
<1>0. OnewayOK(B, PD, NA, NQ, PC, LC, p)
  BY DEF Oneways
<1>1. p \in NA /\ Active(B, NQ, PC, LC, p) = {t}
  BY <1>0 DEF OnewayOK
<1>2. B[t].node = p /\ t \notin ToSet(NQ[p])
  BY DEF Active
<1>3. ASSUME NEW q \in Procs, q # p, NEW NQ2, NQ2[q] = NQ[q]
      PROVE  Active(B2, NQ2, PC, LC, q) = Active(B, NQ, PC, LC, q)
  <2>1. ASSUME NEW s \in Txns
        PROVE  s \in Active(B2, NQ2, PC, LC, q) <=> s \in Active(B, NQ, PC, LC, q)
    <3>1. CASE s = t
      BY <3>1, <1>2, <1>3 DEF Active
    <3>2. CASE s # t
      BY <3>2, <1>3 DEF Active
    <3>. QED BY <3>1, <3>2
  <2>. QED BY <2>1 DEF Active
<1>4. Oneways(B2, PD, NL, NA2, NQ, PC, LC)
  <2>1. Active(B2, NQ, PC, LC, p) = {}
    <3>1. ASSUME NEW s \in Active(B2, NQ, PC, LC, p) PROVE FALSE
      <4>1. s \in Txns /\ s # t
        BY <3>1 DEF Active
      <4>2. s \in Active(B, NQ, PC, LC, p)
        BY <3>1, <4>1 DEF Active
      <4>. QED BY <4>1, <4>2, <1>1
    <3>. QED BY <3>1
  <2>2. OnewayOK(B2, PD, NA2, NQ, PC, LC, p)
    BY <2>1 DEF OnewayOK
  <2>3. ASSUME NEW q \in NL, q # p PROVE OnewayOK(B2, PD, NA2, NQ, PC, LC, q)
    <3>1. Active(B2, NQ, PC, LC, q) = Active(B, NQ, PC, LC, q)
      BY <2>3, <1>3
    <3>2. OnewayOK(B, PD, NA, NQ, PC, LC, q)
      BY DEF Oneways
    <3>. QED BY <2>3, <3>1, <3>2 DEF OnewayOK
  <2>. QED BY <2>2, <2>3 DEF Oneways
<1>. QED BY <1>4

\* One is freed and the next leaves async_todo.
LEMMA OnewayNext ==
  ASSUME NEW B, NEW PD, NEW NL, NEW NA, NEW NQ, NEW PC, NEW LC,
         Oneways(B, PD, NL, NA, NQ, PC, LC), NEW B2, NEW t \in Txns, NEW p \in NL,
         t \in Active(B, NQ, PC, LC, p), NL \subseteq Procs,
         B2[t].st = "none", \A s \in Txns : s # t => B2[s] = B[s],
         NQ[p] \in Seq(Txns), NQ[p] # <<>>, Distinct(NQ[p]),
         B[Head(NQ[p])].st # "none", B[Head(NQ[p])].async, B[Head(NQ[p])].node = p,
         \A th \in Threads : PC[th] = "send" => LC[th].t # Head(NQ[p]),
         NEW NQ2, NQ2[p] = Tail(NQ[p]), \A q \in Procs : q # p => NQ2[q] = NQ[q]
  PROVE  Oneways(B2, PD, NL, NA, NQ2, PC, LC)
<1>0. OnewayOK(B, PD, NA, NQ, PC, LC, p)
  BY DEF Oneways
<1>1. p \in NA /\ Active(B, NQ, PC, LC, p) = {t}
  BY <1>0 DEF OnewayOK
<1>2. B[t].node = p /\ t \notin ToSet(NQ[p])
  BY DEF Active
<1>3. ASSUME NEW q \in Procs, q # p, NEW NQ3, NQ3[q] = NQ[q]
      PROVE  Active(B2, NQ3, PC, LC, q) = Active(B, NQ, PC, LC, q)
  <2>1. ASSUME NEW s \in Txns
        PROVE  s \in Active(B2, NQ3, PC, LC, q) <=> s \in Active(B, NQ, PC, LC, q)
    <3>1. CASE s = t
      BY <3>1, <1>2, <1>3 DEF Active
    <3>2. CASE s # t
      BY <3>2, <1>3 DEF Active
    <3>. QED BY <3>1, <3>2
  <2>. QED BY <2>1 DEF Active
<1>5. Oneways(B2, PD, NL, NA, NQ2, PC, LC)
  <2>. DEFINE h == Head(NQ[p])
  <2>0. h \in Txns /\ ToSet(NQ[p]) = ToSet(NQ2[p]) \cup {h} /\ h \notin ToSet(NQ2[p]) /\ h # t
    BY <1>2, SeqTail, DistinctTail
  <2>1. Active(B2, NQ2, PC, LC, p) = {h}
    <3>1. h \in Active(B2, NQ2, PC, LC, p)
      BY <2>0 DEF Active
    <3>2. ASSUME NEW s \in Active(B2, NQ2, PC, LC, p), s # h PROVE FALSE
      <4>1. s \in Txns /\ s # t
        BY <3>2 DEF Active
      <4>2. s \in Active(B, NQ, PC, LC, p)
        BY <3>2, <4>1, <2>0 DEF Active
      <4>. QED BY <4>1, <4>2, <1>1
    <3>. QED BY <3>1, <3>2
  <2>. HIDE DEF h
  <2>2. OnewayOK(B2, PD, NA, NQ2, PC, LC, p)
    BY <2>1, <1>1 DEF OnewayOK
  <2>3. ASSUME NEW q \in NL, q # p PROVE OnewayOK(B2, PD, NA, NQ2, PC, LC, q)
    <3>1. Active(B2, NQ2, PC, LC, q) = Active(B, NQ, PC, LC, q) /\ NQ2[q] = NQ[q]
      BY <2>3, <1>3
    <3>2. OnewayOK(B, PD, NA, NQ, PC, LC, q)
      BY DEF Oneways
    <3>. QED BY <2>3, <3>1, <3>2 DEF OnewayOK
  <2>. QED BY <2>2, <2>3 DEF Oneways
<1>. QED BY <1>5

\* A buffer goes otherwise.
OnlyBuf(t) ==
  /\ ~buf[t].async /\ ~buf[t].transaction /\ buf' = [buf EXCEPT ![t] = NoBuf]
  /\ thr' \in [Threads -> Thr] /\ OnlyWaiting(thr, thr')
  /\ \A u \in Threads : thr'[u].waiting => thr[u].waiting
  /\ UNCHANGED <<txn, proc, node, bug>>

\* binder_free_buf, from whichever command.
LEMMA FreeBufStep ==
  ASSUME NEW k, NEW a, NEW r, Inv(k, a, r), NEW th \in Threads, NEW t \in Txns,
         FreeBuf(th, t) \/ OnlyBuf(t), buf[t].owner = ProcOf[th], buf[t].st # "none",
         ~Fresh(txn[t], buf[t]), txn[t].buffer => buf[t].transaction,
         proc[ProcOf[th]].st = "open",
         pc' \in [Threads -> PCs], loc' \in [Threads -> Loc],
         OnlyMoves(pc, loc, pc', loc', th), pc[th] \in {"user", "dropbuf"},
         pc'[th] \in {"user", "loop"}, pc'[th] = "loop" => sfr[th] = NoTxn,
         loc'[th].wait_for_proc_work =>
           loc[th].wait_for_proc_work /\ pc'[th] = "loop",
         \A u \in Threads : u # th /\ pc[u] = "dropbuf" => loc[u].t # t,
         UNCHANGED sfr
  PROVE  \E k2 : Inv(k2, a, r)'
<1>gh. Ghosts(k, a, r)
  BY Parts
<1>ty. Typed /\ bug = FALSE
  BY Parts
<1>vt. Stacks \in [Threads -> 0 .. MaxTxns] /\ Todos \in [Threads -> Seq(Work)]
  BY Parts
<1>qt. ProcTodos \in [Procs -> Seq(Txns)] /\ AsyncTodos \in [Procs -> Seq(Txns)]
  BY Parts
<1>xt. txn \in [Txns -> Txn]
  BY Parts
<1>bt. buf \in [Txns -> Buf]
  BY Parts
<1>tt. thr \in [Threads -> Thr]
  BY Parts
<1>nm. Names(txn)
  BY Parts
<1>tl. ThreadLists(Todos, k, a)
  BY Parts
<1>pl. TxnLists(ProcTodos, "proc", k, a)
  BY Parts
<1>al. TxnLists(AsyncTodos, "async", k, a)
  BY Parts
<1>ca. Carried(txn, Dead, pc, loc, k, a)
  BY Parts
<1>fa. Failing(sfr, k, a)
  BY Parts
<1>po. Placed(txn, Dead, k, a)
  BY Parts
<1>tr. Tree(txn, Dead, k, a, r)
  BY Parts
<1>st. AllStacks(txn, Dead, Stacks, k, a, r)
  BY Parts
<1>di. Directed(txn, Dead, Stacks, Todos, pc, loc, k, a, r)
  BY Parts
<1>bu. Buffers(txn, buf, loc, k, a)
  BY Parts
<1>dr. Drops(txn, buf, pc, loc, sfr)
  BY Parts
<1>ts. ThreadStates(Dead, Stacks, Todos, Waiting, pc, loc, sfr)
  BY Parts
<1>ps. ProcStates(ProcSts, DeadProcs, ProcTodos, ProcRefs, LiveNodes, AsyncTodos, pc, sfr)
  BY Parts
<1>tc. ThreadCounts(ThreadRefs, pc, loc)
  BY Parts
<1>pc. ProcCounts(Dead, ThreadRefs, ProcSts, ProcRefs, pc, loc)
  BY Parts
<1>ow. Oneways(buf, DeadProcs, LiveNodes, AsyncNodes, AsyncTodos, pc, loc)
  BY Parts
<1>no. Notices(Dead, Todos, ReturnErrors, ReplyErrors, pc)
  BY Parts
<1>fl. Flags(txn, Dead, Stacks, Todos, Flagged)
  BY Parts
<1>nt. node \in [Procs -> Nde]
  BY Parts
<1>rt. proc \in [Procs -> Prc]
  BY Parts
<1>ft. sfr \in [Threads \cup Procs -> 0 .. MaxTxns]
  BY Parts
<1>b. BufferOK(txn, buf, loc, k, a, t) /\ BufOK(txn[t], buf[t])
  BY <1>bu DEF Buffers, BufferOK
<1>1. /\ txn' \in [Txns -> Txn] /\ SameCalls(txn, txn') /\ ~txn'[t].buffer
      /\ \A s \in Txns : s # t => txn'[s] = txn[s]
  <2>1. txn' = (IF buf[t].transaction THEN [txn EXCEPT ![t].buffer = FALSE] ELSE txn)
    BY DEF FreeBuf, OnlyBuf
  <2>2. CASE buf[t].transaction
    <3>1. txn' = [txn EXCEPT ![t] = [txn[t] EXCEPT !.buffer = FALSE]]
      BY <2>1, <2>2, <1>xt
    <3>2. txn[t] \in Txn
      BY <1>xt
    <3>3. /\ [txn[t] EXCEPT !.buffer = FALSE] \in Txn
          /\ ~[txn[t] EXCEPT !.buffer = FALSE].buffer
          /\ [txn[t] EXCEPT !.buffer = FALSE].kind = txn[t].kind
          /\ [txn[t] EXCEPT !.buffer = FALSE].from = txn[t].from
          /\ [txn[t] EXCEPT !.buffer = FALSE].from_parent = txn[t].from_parent
          /\ [txn[t] EXCEPT !.buffer = FALSE].to_parent = txn[t].to_parent
          /\ [txn[t] EXCEPT !.buffer = FALSE].to_proc = txn[t].to_proc
          /\ [txn[t] EXCEPT !.buffer = FALSE].to_thread = txn[t].to_thread
      BY <3>2 DEF Txn
    <3>4. /\ txn' \in [Txns -> Txn] /\ \A s \in Txns : s # t => txn'[s] = txn[s]
          /\ txn'[t] = [txn[t] EXCEPT !.buffer = FALSE]
      BY <3>1, <3>3, <1>xt
    <3>5. SameCalls(txn, txn')
      BY <3>3, <3>4 DEF SameCalls
    <3>. QED BY <3>3, <3>4, <3>5
  <2>3. CASE ~buf[t].transaction
    BY <2>1, <2>3, <1>xt DEF SameCalls
  <2>. QED BY <2>2, <2>3
<1>2. /\ buf' \in [Txns -> Buf] /\ buf'[t].st = "none" /\ ~buf'[t].transaction /\ ~buf'[t].async
      /\ \A s \in Txns : s # t => buf'[s] = buf[s]
  <2>1. NoBuf \in Buf /\ NoBuf.st = "none" /\ ~NoBuf.transaction /\ ~NoBuf.async
    BY DEF NoBuf, Buf
  <2>2. buf' = [buf EXCEPT ![t] = NoBuf]
    BY DEF FreeBuf, OnlyBuf
  <2>. QED BY <2>1, <2>2, <1>bt
<1>3. /\ thr' \in [Threads -> Thr] /\ OnlyWaiting(thr, thr')
      /\ \A u \in Threads : thr'[u].waiting => thr[u].waiting
  <2>1. CASE thr' = thr
    BY <2>1, <1>tt DEF OnlyWaiting
  <2>2. CASE thr' \in WakeupProc(thr, ProcOf[th])
    BY <2>2, <1>tt, Wakeup
  <2>3. CASE OnlyBuf(t)
    BY <2>3 DEF OnlyBuf
  <2>. QED BY <2>1, <2>2, <2>3 DEF FreeBuf
<1>4. /\ Stacks' = Stacks /\ Todos' = Todos /\ Flagged' = Flagged
      /\ ReturnErrors' = ReturnErrors /\ ReplyErrors' = ReplyErrors
      /\ Dead' = Dead /\ ThreadRefs' = ThreadRefs
  BY <1>3, SameWaiting
<1>5. ~Holding(pc, th) /\ ~Holding(pc', th)
  BY DEF Holding
<1>6. Names(txn') /\ Placed(txn', Dead, k, a) /\ Tree(txn', Dead, k, a, r)
  BY <1>1, <1>xt, <1>nm, <1>po, <1>tr, SameCallsKeep
<1>7. AllStacks(txn', Dead, Stacks, k, a, r)
  BY <1>1, <1>xt, <1>st, <1>vt, SameCallsKeep
<1>8. Carried(txn', Dead, pc, loc, k, a)
  BY <1>1, <1>xt, <1>ca, SameCallsKeep
<1>9. Carried(txn', Dead, pc', loc', k, a)
  BY <1>8, MoveCarried
<1>10. Directed(txn', Dead, Stacks, Todos, pc', loc', k, a, r)
  <2>1. Directed(txn', Dead, Stacks, Todos, pc, loc, k, a, r)
    BY <1>1, <1>xt, <1>di, <1>vt, <1>ca, <1>po, SameCallsWork
  <2>. QED BY <2>1, MoveDirected
<1>11. Flags(txn', Dead, Stacks, Todos, Flagged)
  BY <1>1, <1>xt, <1>fl, <1>vt, SameCallsWork
<1>12. Buffers(txn', buf', loc', k, a)
  <2>1. ASSUME NEW s \in Txns PROVE BufferOK(txn', buf', loc, k, a, s)
    <3>1. CASE s = t
      BY <3>1, <1>1, <1>2, <1>b DEF BufferOK, BufOK, SameCalls
    <3>2. CASE s # t
      BY <3>2, <1>1, <1>2, <1>bu DEF Buffers, BufferOK
    <3>. QED BY <3>1, <3>2
  <2>2. Buffers(txn', buf', loc, k, a)
    BY <2>1 DEF Buffers
  <2>. QED BY <2>2, <1>8, MoveBuffers
<1>13. Drops(txn', buf', pc', loc', sfr)
  <2>1. ASSUME NEW u \in Threads, pc'[u] = "dropbuf" PROVE DropOK(txn', buf', pc', loc', sfr, u)
    <3>1. u # th /\ pc[u] = "dropbuf" /\ loc'[u] = loc[u]
      BY <2>1 DEF OnlyMoves
    <3>2. DropOK(txn, buf, pc, loc, sfr, u) /\ loc[u].t # t
      BY <3>1, <1>dr DEF Drops
    <3>3. loc[u].t \in Txns
      BY <3>2 DEF DropOK
    <3>4. txn'[loc[u].t].kind = txn[loc[u].t].kind /\ buf'[loc[u].t] = buf[loc[u].t]
      BY <3>2, <3>3, <1>1, <1>2 DEF SameCalls
    <3>5. \A v \in Threads : pc'[v] = "dropbuf" => v # th /\ pc[v] = "dropbuf" /\ loc'[v] = loc[v]
      BY DEF OnlyMoves
    <3>. QED BY <3>1, <3>2, <3>4, <3>5, DropKeep, SMTT(60)
  <2>. QED BY <2>1 DEF Drops
<1>14. ThreadStates(Dead, Stacks, Todos, Waiting', pc', loc', sfr)
  <2>1. ThreadOK(Dead, Stacks, Todos, Waiting, pc, loc, sfr, th)
    BY <1>ts DEF ThreadStates
  <2>2. \A u \in Threads : u \in Waiting' => u \in Waiting
    BY <1>3 DEF Waiting
  <2>3. ThreadOK(Dead, Stacks, Todos, Waiting', pc', loc', sfr, th)
    BY <2>1, <2>2 DEF ThreadOK
  <2>4. \A u \in Threads : u # th => pc'[u] = pc[u] /\ loc'[u] = loc[u]
    BY DEF OnlyMoves
  <2>. QED BY <2>2, <2>3, <2>4, <1>ts, ThreadStatesKeep
<1>15. /\ ThreadCounts(ThreadRefs, pc', loc')
       /\ ProcCounts(Dead, ThreadRefs, ProcSts, ProcRefs, pc', loc')
  BY <1>tc, <1>pc, <1>5, MoveCounts
<1>16. Notices(Dead, Todos, ReturnErrors, ReplyErrors, pc')
  BY <1>no, MoveNotices
<1>17. ProcOf[th] \in Procs /\ ProcOf[th] \in LiveNodes /\ LiveNodes \subseteq Procs
       /\ proc[ProcOf[th]].todo \in Seq(Txns)
  <2>1. ProcOf[th] \in Procs
    BY ProcOfAssumption
  <2>2. ProcOK(ProcSts, DeadProcs, ProcTodos, ProcRefs, LiveNodes, AsyncTodos, pc, sfr, ProcOf[th])
    BY <2>1, <1>ps DEF ProcStates
  <2>3. ProcSts[ProcOf[th]] = "open"
    BY <2>1 DEF ProcSts
  <2>4. proc[ProcOf[th]] \in Prc
    BY <2>1, <1>rt
  <2>. QED BY <2>1, <2>2, <2>3, <2>4 DEF ProcOK, LiveNodes, Prc
<1>18. ASSUME NEW PQ, NEW NQ, \A p \in Procs : p # ProcOf[th] => PQ[p] = ProcTodos[p]
                                                            /\ NQ[p] = AsyncTodos[p]
       PROVE  ProcStates(ProcSts, DeadProcs, PQ, ProcRefs, LiveNodes, NQ, pc', sfr)
  <2>1. ASSUME NEW p \in Procs
        PROVE  ProcOK(ProcSts, DeadProcs, PQ, ProcRefs, LiveNodes, NQ, pc', sfr, p)
    <3>1. ProcOK(ProcSts, DeadProcs, ProcTodos, ProcRefs, LiveNodes, AsyncTodos, pc, sfr, p)
      BY <1>ps DEF ProcStates
    <3>2. CASE p = ProcOf[th]
      <4>1. ProcSts[p] = "open"
        BY <3>2 DEF ProcSts
      <4>. QED BY <3>1, <3>2, <4>1, <1>17 DEF ProcOK
    <3>3. CASE p # ProcOf[th]
      <4>1. \A u \in Threads : ProcOf[u] = p => pc'[u] = pc[u]
        BY <3>3 DEF OnlyMoves
      <4>2. PQ[p] = ProcTodos[p] /\ NQ[p] = AsyncTodos[p]
        BY <3>3, <1>18
      <4>. QED BY <3>1, <4>1, <4>2 DEF ProcOK
    <3>. QED BY <3>2, <3>3
  <2>. QED BY <2>1 DEF ProcStates
<1>19. CASE ~buf[t].async
  <2>1. UNCHANGED <<proc, node, bug>>
    BY <1>19 DEF FreeBuf, OnlyBuf
  <2>2. UNCHANGED <<ProcSts, ProcTodos, DeadProcs, ProcRefs>>
        /\ UNCHANGED <<LiveNodes, AsyncNodes, AsyncTodos>>
    BY <2>1, SameAll
  <2>3. Oneways(buf', DeadProcs, LiveNodes, AsyncNodes, AsyncTodos, pc', loc')
    <3>1. Oneways(buf', DeadProcs, LiveNodes, AsyncNodes, AsyncTodos, pc, loc)
      BY <1>19, <1>2, <1>ow, OnewayOther
    <3>. QED BY <3>1, MoveOneways
  <2>4. ProcStates(ProcSts, DeadProcs, ProcTodos, ProcRefs, LiveNodes, AsyncTodos, pc', sfr)
    BY <1>18
  <2>5. Typed'
    BY <1>ty, <2>1, <1>1, <1>2, <1>3, <1>rt, <1>nt, <1>ft DEF Typed
  <2>6. bug' = FALSE
    BY <2>1, <1>ty
  <2>7. Inv(k, a, r)'
    BY <2>2, <2>3, <2>4, <2>5, <2>6, <1>gh, <1>4, <1>6, <1>7, <1>9, <1>10, <1>11, <1>12, <1>13,
       <1>14, <1>15, <1>16, <1>tl, <1>pl, <1>al, <1>fa, Whole
  <2>. QED BY <2>7
<1>20. ASSUME buf[t].async
       PROVE  /\ buf[t].node = ProcOf[th]
              /\ t \in Active(buf, AsyncTodos, pc, loc, ProcOf[th])
              /\ ProcOf[th] \in AsyncNodes /\ bug' = FALSE
              /\ UNCHANGED <<ProcSts, DeadProcs, ProcRefs>> /\ UNCHANGED LiveNodes
  <2>0. FreeBuf(th, t)
    BY <1>20 DEF OnlyBuf
  <2>1. buf[t].node = ProcOf[th]
    BY <1>20, <1>b DEF BufOK
  <2>2. t \notin ToSet(AsyncTodos[ProcOf[th]])
    <3>1. k[t] # "async"
      BY <1>b DEF BufferOK
    <3>. QED BY <3>1, <1>al, <1>17 DEF TxnLists, TxnListOK
  <2>3. ASSUME NEW u \in Threads, pc[u] = "send" PROVE loc[u].t # t
    <3>1. CarryOK(txn, Dead, pc, loc, k, a, u)
      BY <1>ca DEF Carried
    <3>2. k[loc[u].t] = "carried" /\ a[loc[u].t] = u
      BY <3>1, <2>3 DEF CarryOK, SendCarry
    <3>. QED BY <3>2, <1>b DEF BufferOK
  <2>4. t \in Active(buf, AsyncTodos, pc, loc, ProcOf[th])
    BY <1>20, <2>1, <2>2, <2>3 DEF Active
  <2>5. ProcOf[th] \in AsyncNodes
    BY <2>4, <1>17, <1>ow DEF Oneways, OnewayOK
  <2>6. node[ProcOf[th]].has_async_transaction /\ node[ProcOf[th]].live
    BY <2>5, <1>17 DEF AsyncNodes, LiveNodes
  <2>7. bug' = FALSE
    BY <2>0, <1>20, <2>1, <2>6, <1>ty DEF FreeBuf
  <2>8. UNCHANGED LiveNodes
    <3>1. ASSUME NEW p \in Procs PROVE node'[p].live = node[p].live
      <4>1. CASE node' = [node EXCEPT ![buf[t].node].has_async_transaction = FALSE]
        BY <4>1, <1>nt, <1>17, <2>1 DEF Nde
      <4>2. CASE node' = [node EXCEPT ![buf[t].node].async_todo = Tail(@)]
        BY <4>2, <1>nt, <1>17, <2>1 DEF Nde
      <4>. QED BY <4>1, <4>2, <1>20, <2>0 DEF FreeBuf
    <3>. QED BY <3>1, SameNodes
  <2>9. UNCHANGED <<ProcSts, DeadProcs, ProcRefs>>
    <3>1. ASSUME NEW p \in Procs
          PROVE  /\ proc'[p].st = proc[p].st /\ proc'[p].is_dead = proc[p].is_dead
                 /\ proc'[p].tmp_ref = proc[p].tmp_ref
      <4>1. CASE proc' = proc
        BY <4>1
      <4>2. CASE proc' = [proc EXCEPT ![ProcOf[th]].todo =
                            Append(@, Head(node[buf[t].node].async_todo))]
        BY <4>2, <1>rt, <1>17 DEF Prc
      <4>. QED BY <4>1, <4>2, <1>20, <2>0 DEF FreeBuf
    <3>. QED BY <3>1, SameProcs
  <2>. QED BY <2>1, <2>4, <2>5, <2>7, <2>8, <2>9
<1>21. CASE buf[t].async /\ AsyncTodos[ProcOf[th]] = <<>>
  <2>1. /\ node' = [node EXCEPT ![ProcOf[th]].has_async_transaction = FALSE]
        /\ UNCHANGED <<thr, proc>>
    BY <1>20, <1>21, <1>17 DEF FreeBuf, OnlyBuf, AsyncTodos
  <2>2. node[ProcOf[th]] \in Nde
    BY <1>nt, <1>17
  <2>3. [node[ProcOf[th]] EXCEPT !.has_async_transaction = FALSE] \in Nde
    BY <2>2 DEF Nde
  <2>4. node' \in [Procs -> Nde]
    BY <2>1, <2>3, <1>nt
  <2>5. AsyncTodos' = AsyncTodos
    <3>1. ASSUME NEW p \in Procs PROVE node'[p].async_todo = node[p].async_todo
      BY <2>1, <2>2, <1>nt DEF Nde
    <3>. QED BY <3>1, SameNodes
  <2>6. AsyncNodes' = AsyncNodes \ {ProcOf[th]}
    <3>1. ASSUME NEW p \in Procs
          PROVE node'[p].has_async_transaction <=> node[p].has_async_transaction /\ p # ProcOf[th]
      BY <2>1, <2>2, <1>nt DEF Nde
    <3>. QED BY <3>1 DEF AsyncNodes
  <2>7. UNCHANGED <<ProcSts, ProcTodos, DeadProcs, ProcRefs>> /\ LiveNodes' = LiveNodes
    BY <2>1, SameAll, <1>20, <1>21
  <2>8. Oneways(buf', DeadProcs, LiveNodes, AsyncNodes \ {ProcOf[th]}, AsyncTodos, pc', loc')
    <3>1. Oneways(buf', DeadProcs, LiveNodes, AsyncNodes \ {ProcOf[th]}, AsyncTodos, pc, loc)
      <4>1. t \in Active(buf, AsyncTodos, pc, loc, ProcOf[th])
        BY <1>20, <1>21
      <4>2. ProcOf[th] \in LiveNodes /\ LiveNodes \subseteq Procs
            /\ AsyncTodos[ProcOf[th]] = <<>>
        BY <1>17, <1>21
      <4>3. \A q \in LiveNodes : q \in AsyncNodes \ {ProcOf[th]} <=> q \in AsyncNodes /\ q # ProcOf[th]
        OBVIOUS
      <4>. QED BY <4>1, <4>2, <4>3, <1>2, <1>ow, OnewayLast
    <3>. QED BY <3>1, MoveOneways
  <2>9. ProcStates(ProcSts, DeadProcs, ProcTodos, ProcRefs, LiveNodes, AsyncTodos, pc', sfr)
    BY <1>18
  <2>10. Typed'
    BY <2>1, <2>4, <1>1, <1>2, <1>3, <1>rt, <1>ft DEF Typed
  <2>11. bug' = FALSE
    BY <1>20, <1>21
  <2>12. Inv(k, a, r)'
    BY <2>5, <2>6, <2>7, <2>8, <2>9, <2>10, <2>11, <1>gh, <1>4, <1>6, <1>7, <1>9, <1>10, <1>11,
       <1>12, <1>13, <1>14, <1>15, <1>16, <1>tl, <1>pl, <1>al, <1>fa, Whole
  <2>. QED BY <2>12
<1>22. CASE buf[t].async /\ AsyncTodos[ProcOf[th]] # <<>>
  <2>0. PICK p \in Procs : p = ProcOf[th]
    BY <1>17
  <2>1. PICK h : h = Head(AsyncTodos[p])
    OBVIOUS
  <2>2. /\ node' = [node EXCEPT ![p].async_todo = Tail(@)]
        /\ proc' = [proc EXCEPT ![p].todo = Append(@, h)]
    BY <1>20, <1>22, <2>0, <2>1 DEF FreeBuf, OnlyBuf, AsyncTodos
  <2>3. AsyncTodos[p] \in Seq(Txns) /\ AsyncTodos[p] # <<>> /\ ProcTodos[p] \in Seq(Txns)
    BY <1>qt, <1>22, <2>0
  <2>4. h \in Txns /\ h \in ToSet(AsyncTodos[p]) /\ Tail(AsyncTodos[p]) \in Seq(Txns)
        /\ Append(ProcTodos[p], h) \in Seq(Txns)
    BY <2>1, <2>3, SeqTail, SeqAppend
  <2>5. k[h] = "async" /\ a[h] = p /\ TxnListOK(AsyncTodos[p], "async", k, a, p)
        /\ Distinct(AsyncTodos[p]) /\ TxnListOK(ProcTodos[p], "proc", k, a, p)
    BY <2>4, <1>al, <1>pl DEF TxnLists, TxnListOK
  <2>6. /\ node' \in [Procs -> Nde] /\ proc' \in [Procs -> Prc]
        /\ AsyncTodos'[p] = Tail(AsyncTodos[p]) /\ ProcTodos'[p] = Append(ProcTodos[p], h)
        /\ \A q \in Procs : q # p => AsyncTodos'[q] = AsyncTodos[q] /\ ProcTodos'[q] = ProcTodos[q]
        /\ AsyncNodes' = AsyncNodes
    <3>1. node[p] \in Nde /\ proc[p] \in Prc
      BY <1>nt, <1>rt
    <3>2. AsyncTodos[p] = node[p].async_todo /\ ProcTodos[p] = proc[p].todo
      BY DEF AsyncTodos, ProcTodos
    <3>3. /\ [node[p] EXCEPT !.async_todo = Tail(node[p].async_todo)] \in Nde
          /\ [proc[p] EXCEPT !.todo = Append(proc[p].todo, h)] \in Prc
      BY <3>1, <3>2, <2>4 DEF Nde, Prc
    <3>4. /\ node' = [node EXCEPT ![p] = [node[p] EXCEPT !.async_todo = Tail(node[p].async_todo)]]
          /\ proc' = [proc EXCEPT ![p] = [proc[p] EXCEPT !.todo = Append(proc[p].todo, h)]]
      BY <2>2, <1>nt, <1>rt
    <3>5. node' \in [Procs -> Nde] /\ proc' \in [Procs -> Prc]
      BY <3>3, <3>4, <1>nt, <1>rt
    <3>6. /\ node'[p].async_todo = Tail(node[p].async_todo)
          /\ node'[p].has_async_transaction = node[p].has_async_transaction
          /\ proc'[p].todo = Append(proc[p].todo, h)
          /\ \A q \in Procs : q # p => node'[q] = node[q] /\ proc'[q] = proc[q]
      BY <3>1, <3>4, <1>nt, <1>rt DEF Nde, Prc
    <3>7. AsyncNodes' = AsyncNodes
      BY <3>6, SameNodes
    <3>. QED BY <3>2, <3>5, <3>6, <3>7 DEF AsyncTodos, ProcTodos
  <2>k. PICK k2 : k2 = [k EXCEPT ![h] = "proc"]
    OBVIOUS
  <2>x. txn' \in [Txns -> Txn] /\ h \in Txns /\ k[h] = "async" /\ Ghosts(k, a, r)
        /\ Placed(txn', Dead, k, a) /\ Tree(txn', Dead, k, a, r)
    BY <2>4, <2>5, <1>1, <1>gh, <1>6
  <2>y. SameBut(k, a, k2, a, h) /\ k2[h] = "proc" /\ Ghosts(k2, a, r)
    BY <2>x, <2>k DEF SameBut, Ghosts, Kinds
  <2>z. /\ \A L : ThreadLists(L, k, a) => ThreadLists(L, k2, a)
        /\ \A PC, LC : Carried(txn', Dead, PC, LC, k, a) => Carried(txn', Dead, PC, LC, k2, a)
        /\ \A SF : SF \in [Threads \cup Procs -> 0 .. MaxTxns] /\ Failing(SF, k, a) =>
                     Failing(SF, k2, a)
        /\ Placed(txn', Dead, k2, a) /\ Tree(txn', Dead, k2, a, r)
        /\ \A K : K \in [Threads -> 0 .. MaxTxns] /\ AllStacks(txn', Dead, K, k, a, r) =>
                     AllStacks(txn', Dead, K, k2, a, r)
        /\ \A K, L, PC, LC : Directed(txn', Dead, K, L, PC, LC, k, a, r) =>
                                Directed(txn', Dead, K, L, PC, LC, k2, a, r)
        /\ \A B, LC : Buffers(txn', B, LC, k, a) => Buffers(txn', B, LC, k2, a)
    BY <2>x, <2>y, LetThrough
  <2>7. /\ SameBut(k, a, k2, a, h) /\ k2[h] = "proc" /\ Ghosts(k2, a, r)
        /\ ThreadLists(Todos, k2, a) /\ Carried(txn', Dead, pc', loc', k2, a)
        /\ Failing(sfr, k2, a) /\ Placed(txn', Dead, k2, a) /\ Tree(txn', Dead, k2, a, r)
        /\ AllStacks(txn', Dead, Stacks, k2, a, r)
        /\ Directed(txn', Dead, Stacks, Todos, pc', loc', k2, a, r)
        /\ Buffers(txn', buf', loc', k2, a)
    BY <2>y, <2>z, <1>7, <1>9, <1>10, <1>12, <1>tl, <1>fa, <1>ft, <1>vt
  <2>8. TxnLists(AsyncTodos', "async", k2, a)
    <3>1. TxnListOK(AsyncTodos'[p], "async", k2, a, p)
      BY <2>1, <2>3, <2>4, <2>5, <2>6, <2>7, TxnListTake
    <3>2. ASSUME NEW q \in Procs, q # p PROVE TxnListOK(AsyncTodos'[q], "async", k2, a, q)
      BY <3>2, <2>5, <2>6, <2>7, <1>al, TxnListKeep DEF TxnLists
    <3>. QED BY <3>1, <3>2 DEF TxnLists
  <2>9. TxnLists(ProcTodos', "proc", k2, a)
    <3>1. TxnListOK(ProcTodos'[p], "proc", k2, a, p)
      BY <2>3, <2>4, <2>5, <2>6, <2>7, TxnListAdd
    <3>2. ASSUME NEW q \in Procs, q # p PROVE TxnListOK(ProcTodos'[q], "proc", k2, a, q)
      BY <3>2, <2>5, <2>6, <2>7, <1>pl, TxnListKeep DEF TxnLists
    <3>. QED BY <3>1, <3>2 DEF TxnLists
  <2>10. Oneways(buf', DeadProcs, LiveNodes, AsyncNodes, AsyncTodos', pc', loc')
    <3>1. Fresh(txn[h], buf[h]) /\ txn[h].kind = "oneway" /\ txn[h].to_proc = p
      BY <2>4, <2>5, <1>bu, <1>po DEF Buffers, BufferOK, Placed, PlaceOK
    <3>2. buf[h].st # "none" /\ buf[h].async /\ buf[h].node = p
      BY <3>1 DEF Fresh
    <3>3. \A u \in Threads : pc[u] = "send" => loc[u].t # h
      BY <2>5, <1>ca DEF Carried, CarryOK, SendCarry
    <3>4. t \in Active(buf, AsyncTodos, pc, loc, p) /\ p \in LiveNodes /\ LiveNodes \subseteq Procs
      BY <1>20, <1>22, <1>17, <2>0
    <3>5. Oneways(buf', DeadProcs, LiveNodes, AsyncNodes, AsyncTodos', pc, loc)
      <4>1. /\ AsyncTodos[p] \in Seq(Txns) /\ AsyncTodos[p] # <<>> /\ Distinct(AsyncTodos[p])
            /\ buf[Head(AsyncTodos[p])].st # "none" /\ buf[Head(AsyncTodos[p])].async
            /\ buf[Head(AsyncTodos[p])].node = p
            /\ \A u \in Threads : pc[u] = "send" => loc[u].t # Head(AsyncTodos[p])
            /\ AsyncTodos'[p] = Tail(AsyncTodos[p])
            /\ \A q \in Procs : q # p => AsyncTodos'[q] = AsyncTodos[q]
        BY <3>2, <3>3, <2>1, <2>3, <2>5, <2>6
      <4>. QED BY <4>1, <3>4, <1>2, <1>ow, OnewayNext
    <3>. QED BY <3>5, MoveOneways
  <2>11. ProcStates(ProcSts, DeadProcs, ProcTodos', ProcRefs, LiveNodes, AsyncTodos', pc', sfr)
    BY <2>0, <2>6, <1>18
  <2>12. Typed'
    BY <2>6, <1>1, <1>2, <1>3, <1>ft DEF Typed
  <2>13. bug' = FALSE /\ UNCHANGED <<ProcSts, DeadProcs, ProcRefs>> /\ LiveNodes' = LiveNodes
    BY <1>20, <1>22
  <2>14. Inv(k2, a, r)'
    BY <2>6, <2>7, <2>8, <2>9, <2>10, <2>11, <2>12, <2>13, <1>4, <1>6, <1>11, <1>13,
       <1>14, <1>15, <1>16, Whole
  <2>. QED BY <2>14
<1>. QED BY <1>19, <1>21, <1>22

\* BC_FREE_BUFFER.
LEMMA FreeBufferStep ==
  ASSUME NEW k, NEW a, NEW r, Inv(k, a, r), NEW th \in Threads, NEW t \in Txns,
         FreeBuffer(th, t)
  PROVE  \E k2 : Inv(k2, a, r)'
<1>bu. Buffers(txn, buf, loc, k, a)
  BY Parts
<1>dr. Drops(txn, buf, pc, loc, sfr)
  BY Parts
<1>ct. pc \in [Threads -> PCs] /\ loc \in [Threads -> Loc]
  BY Parts
<1>1. /\ pc[th] = "user" /\ proc[ProcOf[th]].st = "open"
      /\ buf[t].st = "user" /\ buf[t].owner = ProcOf[th] /\ FreeBuf(th, t)
      /\ UNCHANGED <<pc, loc, sfr>>
  BY DEF FreeBuffer, InUser
<1>2. ~Fresh(txn[t], buf[t]) /\ (txn[t].buffer => buf[t].transaction)
  BY <1>1, <1>bu DEF Buffers, BufferOK, BufOK, Fresh
<1>3. \A u \in Threads : pc[u] = "dropbuf" => loc[u].t # t
  BY <1>1, <1>dr DEF Drops, DropOK
<1>4. OnlyMoves(pc, loc, pc', loc', th) /\ ~loc'[th].wait_for_proc_work
  BY <1>1, UserFacts DEF OnlyMoves
<1>5. pc' \in [Threads -> PCs] /\ loc' \in [Threads -> Loc] /\ pc'[th] = "user"
  BY <1>1, <1>ct
<1>. QED BY <1>1, <1>2, <1>3, <1>4, <1>5, FreeBufStep

\* The buffer of a call that could not be delivered goes.
LEMMA DropBufferStep ==
  ASSUME NEW k, NEW a, NEW r, Inv(k, a, r), NEW th \in Threads, DropBuffer(th)
  PROVE  \E k2 : Inv(k2, a, r)'
<1>bu. Buffers(txn, buf, loc, k, a)
  BY Parts
<1>dr. Drops(txn, buf, pc, loc, sfr)
  BY Parts
<1>ct. pc \in [Threads -> PCs] /\ loc \in [Threads -> Loc]
  BY Parts
<1>1. PICK t : t = loc[th].t
  OBVIOUS
<1>2. /\ pc[th] = "dropbuf" /\ sfr[th] = NoTxn /\ FreeBuf(th, t)
      /\ pc' = [pc EXCEPT ![th] = "loop"] /\ loc' = [loc EXCEPT ![th].t = NoTxn]
      /\ UNCHANGED sfr
  BY <1>1 DEF DropBuffer
<1>3. DropOK(txn, buf, pc, loc, sfr, th) /\ proc[ProcOf[th]].st = "open" /\ loc[th] \in Loc
  BY <1>2, <1>dr, <1>ct, ThreadFacts DEF Drops
<1>4. /\ t \in Txns /\ txn[t].kind = "freed" /\ buf[t].st = "kernel" /\ ~buf[t].transaction
      /\ buf[t].owner = ProcOf[th]
      /\ \A u \in Threads : u # th /\ pc[u] = "dropbuf" => loc[u].t # t
  BY <1>1, <1>2, <1>3, TxnNumbers DEF DropOK
<1>5. ~Fresh(txn[t], buf[t]) /\ (txn[t].buffer => buf[t].transaction)
  BY <1>4, <1>bu DEF Buffers, BufferOK, BufOK, Fresh
<1>6. /\ pc' \in [Threads -> PCs] /\ loc' \in [Threads -> Loc] /\ pc'[th] = "loop"
      /\ OnlyMoves(pc, loc, pc', loc', th)
      /\ loc'[th].wait_for_proc_work => loc[th].wait_for_proc_work
  <2>1. [loc[th] EXCEPT !.t = NoTxn] \in Loc
        /\ [loc[th] EXCEPT !.t = NoTxn].wait_for_proc_work = loc[th].wait_for_proc_work
    BY <1>3, TxnNumbers DEF Loc
  <2>2. loc' = [loc EXCEPT ![th] = [loc[th] EXCEPT !.t = NoTxn]]
    BY <1>2, <1>ct
  <2>. QED BY <2>1, <2>2, <1>2, <1>ct DEF OnlyMoves, PCs
<1>7. /\ FreeBuf(th, t) /\ proc[ProcOf[th]].st = "open" /\ UNCHANGED sfr
      /\ pc[th] \in {"user", "dropbuf"} /\ sfr[th] = NoTxn /\ pc'[th] \in {"user", "loop"}
  BY <1>2, <1>3, <1>6
<1>8. buf[t].owner = ProcOf[th] /\ buf[t].st # "none" /\ t \in Txns
      /\ \A u \in Threads : u # th /\ pc[u] = "dropbuf" => loc[u].t # t
  BY <1>4
<1>. QED BY <1>5, <1>6, <1>7, <1>8, FreeBufStep

\* The same of a reply, whose caller gets BR_FAILED_REPLY.
LEMMA DropReplyStep ==
  ASSUME NEW k, NEW a, NEW r, Inv(k, a, r), NEW th \in Threads, DropReply(th)
  PROVE  \E k2 : Inv(k2, a, r)'
<1>bu. Buffers(txn, buf, loc, k, a)
  BY Parts
<1>dr. Drops(txn, buf, pc, loc, sfr)
  BY Parts
<1>ct. pc \in [Threads -> PCs] /\ loc \in [Threads -> Loc]
  BY Parts
<1>tt. thr \in [Threads -> Thr]
  BY Parts
<1>1. PICK t : t = loc[th].t
  OBVIOUS
<1>2. /\ pc[th] = "dropbuf" /\ buf[t].node = NoProc
      /\ buf' = [buf EXCEPT ![t] = NoBuf] /\ ReturnToUser(thr, proc, th)
      /\ UNCHANGED <<txn, proc, node, sfr, bug>>
  BY <1>1 DEF DropReply
<1>3. DropOK(txn, buf, pc, loc, sfr, th) /\ proc[ProcOf[th]].st = "open" /\ loc[th] \in Loc
  BY <1>2, <1>dr, <1>ct, ThreadFacts DEF Drops
<1>4. /\ t \in Txns /\ txn[t].kind = "freed" /\ buf[t].st = "kernel" /\ ~buf[t].transaction
      /\ buf[t].owner = ProcOf[th]
      /\ \A u \in Threads : u # th /\ pc[u] = "dropbuf" => loc[u].t # t
  BY <1>1, <1>2, <1>3 DEF DropOK
<1>5. /\ ~Fresh(txn[t], buf[t]) /\ (txn[t].buffer => buf[t].transaction)
      /\ ~buf[t].async
  BY <1>2, <1>4, <1>bu, NullAssumption DEF Buffers, BufferOK, BufOK, Fresh
<1>6. /\ pc' = [pc EXCEPT ![th] = "user"] /\ loc' = [loc EXCEPT ![th] = NoLoc]
      /\ thr' \in [Threads -> Thr] /\ OnlyWaiting(thr, thr')
      /\ \A u \in Threads : thr'[u].waiting => thr[u].waiting
  BY <1>2, <1>tt, ReturnWakes
<1>7. OnlyBuf(t)
  BY <1>2, <1>4, <1>5, <1>6 DEF OnlyBuf
<1>8. /\ pc' \in [Threads -> PCs] /\ loc' \in [Threads -> Loc] /\ pc'[th] = "user"
      /\ OnlyMoves(pc, loc, pc', loc', th) /\ ~loc'[th].wait_for_proc_work
  BY <1>6, <1>ct, LocType DEF OnlyMoves, PCs
<1>. QED BY <1>2, <1>3, <1>4, <1>5, <1>7, <1>8, FreeBufStep
-----------------------------------------------------------------------------
(* References go.                                                          *)

\* The release of no process goes on.
LEMMA ProcStatesKeep ==
  ASSUME NEW PS, NEW PD, NEW PQ, NEW PR, NEW NL, NEW NQ, NEW PC, NEW SF,
         ProcStates(PS, PD, PQ, PR, NL, NQ, PC, SF),
         NEW PQ2, NEW PR2, NEW NQ2, NEW PC2, NEW SF2,
         \A p \in Procs :
           /\ p \notin NL => NQ2[p] = NQ[p]
           /\ PS[p] # "todo" => SF2[p] = SF[p]
           /\ PS[p] \in {"released", "freed"} => PQ2[p] = PQ[p]
           /\ PS[p] = "freed" => PR2[p] = PR[p],
         \A u \in Threads :
           \/ PS[ProcOf[u]] = "open"
           \/ PC2[u] = "gone"
           \/ PS[ProcOf[u]] = "threads" /\ PC2[u] = "release"
           \/ PC2[u] = PC[u] /\ (SF2[u] = SF[u] \/ PC[u] # "user")
  PROVE  ProcStates(PS, PD, PQ2, PR2, NL, NQ2, PC2, SF2)
<1>1. ASSUME NEW p \in Procs PROVE ProcOK(PS, PD, PQ2, PR2, NL, NQ2, PC2, SF2, p)
  <2>1. ProcOK(PS, PD, PQ, PR, NL, NQ, PC, SF, p)
    BY DEF ProcStates
  <2>2. /\ p \in PD <=> PS[p] # "open"
        /\ p \in NL <=> PS[p] \in {"open", "threads"}
        /\ p \notin NL => NQ2[p] = <<>>
        /\ PS[p] # "todo" => SF2[p] = NoTxn
        /\ PS[p] \in {"released", "freed"} => PQ2[p] = <<>>
        /\ PS[p] = "freed" => PR2[p] = 0
    BY <2>1 DEF ProcOK
  <2>3. ASSUME NEW u \in Threads, ProcOf[u] = p
        PROVE  /\ PS[p] = "threads" => \/ PC2[u] \in {"release", "gone"}
                                       \/ PC2[u] = "user" /\ SF2[u] = NoTxn
               /\ PS[p] \in {"todo", "released", "freed"} => PC2[u] = "gone"
    <3>1. /\ PS[p] = "threads" => \/ PC[u] \in {"release", "gone"}
                                  \/ PC[u] = "user" /\ SF[u] = NoTxn
          /\ PS[p] \in {"todo", "released", "freed"} => PC[u] = "gone"
      BY <2>1, <2>3 DEF ProcOK
    <3>. QED BY <3>1, <2>3
  <2>. QED BY <2>2, <2>3 DEF ProcOK
<1>. QED BY <1>1 DEF ProcStates

\* binder_thread_dec_tmpref and binder_proc_dec_tmpref.
LEMMA DecRefs ==
  ASSUME Typed, NEW x \in Threads \cup {NoThread}, NEW p \in Procs, NEW n \in Int,
         DecTmpRefs(x, p, n)
  PROVE  /\ thr' \in [Threads -> Thr] /\ proc' \in [Procs -> Prc]
         /\ UNCHANGED <<Stacks, Todos, Flagged, ReturnErrors, ReplyErrors, Waiting, Dead>>
         /\ UNCHANGED <<ProcSts, ProcTodos, DeadProcs>>
         /\ \A u \in Threads : ThreadRefs'[u] = ThreadRefs[u] - One(u = x)
         /\ \A q \in Procs : ProcRefs'[q] = ProcRefs[q]
                               - (IF q = p THEN n + One(FreesThread(x)) ELSE 0)
<1>1. thr \in [Threads -> Thr] /\ proc \in [Procs -> Prc]
  BY DEF Typed
<1>2. /\ thr' \in [Threads -> Thr]
      /\ \A u \in Threads :
           /\ thr'[u].stack = thr[u].stack /\ thr'[u].todo = thr[u].todo
           /\ thr'[u].process_todo = thr[u].process_todo
           /\ thr'[u].return_error = thr[u].return_error
           /\ thr'[u].reply_error = thr[u].reply_error
           /\ thr'[u].waiting = thr[u].waiting /\ thr'[u].is_dead = thr[u].is_dead
           /\ thr'[u].tmp_ref = thr[u].tmp_ref - One(u = x)
  <2>0. \A u \in Threads : thr[u] \in Thr /\ thr[u].tmp_ref \in Int
    BY <1>1 DEF Thr
  <2>1. CASE x = NoThread
    <3>1. thr' = thr
      BY <2>1 DEF DecTmpRefs
    <3>2. \A u \in Threads : u # x
      BY <2>1, NullAssumption
    <3>. QED BY <3>1, <3>2, <2>0, <1>1 DEF One
  <2>2. CASE x # NoThread
    <3>. DEFINE y == [thr[x] EXCEPT !.tmp_ref = thr[x].tmp_ref - 1]
    <3>0. x \in Threads /\ thr[x] \in Thr /\ thr[x].tmp_ref - 1 \in Int
      BY <2>2, <2>0
    <3>1. /\ y \in Thr
          /\ y.stack = thr[x].stack /\ y.todo = thr[x].todo
          /\ y.process_todo = thr[x].process_todo
          /\ y.return_error = thr[x].return_error
          /\ y.reply_error = thr[x].reply_error
          /\ y.waiting = thr[x].waiting /\ y.is_dead = thr[x].is_dead
          /\ y.tmp_ref = thr[x].tmp_ref - 1
      BY <3>0 DEF Thr
    <3>2. thr' = [thr EXCEPT ![x] = y]
      BY <2>2, <3>0, <1>1 DEF DecTmpRefs
    <3>. HIDE DEF y
    <3>3. /\ thr' \in [Threads -> Thr] /\ thr'[x] = y
          /\ \A u \in Threads : u # x => thr'[u] = thr[u]
      BY <3>0, <3>1, <3>2, <1>1
    <3>4. ASSUME NEW u \in Threads PROVE
           /\ thr'[u].stack = thr[u].stack /\ thr'[u].todo = thr[u].todo
           /\ thr'[u].process_todo = thr[u].process_todo
           /\ thr'[u].return_error = thr[u].return_error
           /\ thr'[u].reply_error = thr[u].reply_error
           /\ thr'[u].waiting = thr[u].waiting /\ thr'[u].is_dead = thr[u].is_dead
           /\ thr'[u].tmp_ref = thr[u].tmp_ref - One(u = x)
      <4>1. CASE u = x
        BY <4>1, <3>3, <3>1 DEF One
      <4>2. CASE u # x
        BY <4>2, <3>3, <2>0 DEF One
      <4>. QED BY <4>1, <4>2
    <3>. QED BY <3>3, <3>4
  <2>. QED BY <2>1, <2>2
<1>3. /\ proc' \in [Procs -> Prc]
      /\ \A q \in Procs :
           /\ proc'[q].st = proc[q].st /\ proc'[q].todo = proc[q].todo
           /\ proc'[q].is_dead = proc[q].is_dead
           /\ proc'[q].tmp_ref = proc[q].tmp_ref
                               - (IF q = p THEN n + One(FreesThread(x)) ELSE 0)
  <2>0. \A q \in Procs : proc[q] \in Prc /\ proc[q].tmp_ref \in Int
    BY <1>1 DEF Prc
  <2>. DEFINE m == proc[p].tmp_ref - n - (IF FreesThread(x) THEN 1 ELSE 0)
             y == [proc[p] EXCEPT !.tmp_ref = m]
  <2>1. m \in Int /\ m = proc[p].tmp_ref - (n + One(FreesThread(x)))
    BY <2>0 DEF One
  <2>2. proc' = [proc EXCEPT ![p] = y]
    BY <1>1 DEF DecTmpRefs
  <2>. HIDE DEF m
  <2>3. /\ y \in Prc /\ y.st = proc[p].st /\ y.todo = proc[p].todo
        /\ y.is_dead = proc[p].is_dead /\ y.tmp_ref = m
    BY <2>0, <2>1 DEF Prc
  <2>. HIDE DEF y
  <2>4. /\ proc' \in [Procs -> Prc] /\ proc'[p] = y
        /\ \A q \in Procs : q # p => proc'[q] = proc[q]
    BY <2>2, <2>3, <1>1
  <2>. QED BY <2>0, <2>1, <2>3, <2>4
<1>4. UNCHANGED <<Stacks, Todos, Flagged, ReturnErrors, ReplyErrors, Waiting, Dead>>
  BY <1>2, SameThreads
<1>5. UNCHANGED <<ProcSts, ProcTodos, DeadProcs>>
  BY <1>3, SameProcs
<1>6. \A u \in Threads : ThreadRefs'[u] = ThreadRefs[u] - One(u = x)
  BY <1>2 DEF ThreadRefs
<1>7. \A q \in Procs : ProcRefs'[q] = ProcRefs[q]
                               - (IF q = p THEN n + One(FreesThread(x)) ELSE 0)
  BY <1>3 DEF ProcRefs
<1>. QED BY <1>2, <1>3, <1>4, <1>5, <1>6, <1>7

\* binder_transaction drops its tmp_refs at the end.
LEMMA PutTargetStep ==
  ASSUME NEW k, NEW a, NEW r, Inv(k, a, r), NEW th \in Threads, PutTarget(th)
  PROVE  Inv(k, a, r)'
<1>ty. Typed /\ bug = FALSE
  BY Parts
<1>ct. pc \in [Threads -> PCs] /\ loc \in [Threads -> Loc]
  BY Parts
<1>ca. Carried(txn, Dead, pc, loc, k, a)
  BY Parts
<1>ts. ThreadStates(Dead, Stacks, Todos, Waiting, pc, loc, sfr)
  BY Parts
<1>ps. ProcStates(ProcSts, DeadProcs, ProcTodos, ProcRefs, LiveNodes, AsyncTodos, pc, sfr)
  BY Parts
<1>tc. ThreadCounts(ThreadRefs, pc, loc)
  BY Parts
<1>pc. ProcCounts(Dead, ThreadRefs, ProcSts, ProcRefs, pc, loc)
  BY Parts
<1>ow. Oneways(buf, DeadProcs, LiveNodes, AsyncNodes, AsyncTodos, pc, loc)
  BY Parts
<1>no. Notices(Dead, Todos, ReturnErrors, ReplyErrors, pc)
  BY Parts
<1>di. Directed(txn, Dead, Stacks, Todos, pc, loc, k, a, r)
  BY Parts
<1>bu. Buffers(txn, buf, loc, k, a)
  BY Parts
<1>dr. Drops(txn, buf, pc, loc, sfr)
  BY Parts
<1>1. /\ pc[th] = "put" /\ DecTmpRefs(loc[th].target_thread, loc[th].target_proc, 1)
      /\ pc' = [pc EXCEPT ![th] = "user"] /\ loc' = [loc EXCEPT ![th] = NoLoc]
      /\ UNCHANGED <<txn, buf, node, sfr>>
  BY DEF PutTarget
<1>2. PICK x, p : x = loc[th].target_thread /\ p = loc[th].target_proc
  OBVIOUS
<1>3. /\ x \in Threads \cup {NoThread} /\ p \in Procs
      /\ x # NoThread => ProcOf[x] = p
      /\ DecTmpRefs(x, p, 1)
  <2>1. loc[th] \in Loc
    BY <1>ct
  <2>2. Holds(pc, loc, th)
    BY <1>ca DEF Carried, CarryOK
  <2>. QED BY <2>1, <2>2, <1>1, <1>2 DEF Loc, Holds, Holding
<1>4. /\ thr' \in [Threads -> Thr] /\ proc' \in [Procs -> Prc]
      /\ UNCHANGED <<Stacks, Todos, Flagged, ReturnErrors, ReplyErrors, Waiting, Dead>>
      /\ UNCHANGED <<ProcSts, ProcTodos, DeadProcs>>
      /\ \A u \in Threads : ThreadRefs'[u] = ThreadRefs[u] - One(u = x)
      /\ \A q \in Procs : ProcRefs'[q] = ProcRefs[q]
                               - (IF q = p THEN 1 + One(FreesThread(x)) ELSE 0)
  BY <1>3, <1>ty, DecRefs
<1>5. /\ pc'[th] = "user" /\ loc'[th] = NoLoc /\ OnlyMoves(pc, loc, pc', loc', th)
      /\ pc' \in [Threads -> PCs] /\ loc' \in [Threads -> Loc]
  BY <1>1, <1>ct, LocType DEF OnlyMoves, PCs
<1>6. Typed'
  BY <1>1, <1>4, <1>5, <1>ty DEF Typed
<1>7. /\ \A y : Cardinality(ThreadHolders(pc, loc, y))
                = Cardinality(ThreadHolders(pc', loc', y)) + One(x = y)
      /\ \A y : Cardinality(ProcHolders(pc, loc, y))
                = Cardinality(ProcHolders(pc', loc', y)) + One(p = y)
  <2>1. \A u \in Threads : u # th => SameHolds(pc', loc', pc, loc, u)
    BY <1>5 DEF SameHolds, OnlyMoves, Holding
  <2>2. ~Holding(pc', th) /\ Holding(pc, th)
    BY <1>1, <1>5 DEF Holding
  <2>. QED BY <2>1, <2>2, <1>2, HoldersAdd
<1>8. ThreadCounts(ThreadRefs', pc', loc')
  <2>1. ASSUME NEW u \in Threads
        PROVE  ThreadRefs'[u] = Cardinality(ThreadHolders(pc', loc', u)) + One(pc'[u] = "release")
    <3>1. ThreadRefs[u] = Cardinality(ThreadHolders(pc, loc, u)) + One(pc[u] = "release")
      BY <1>tc DEF ThreadCounts
    <3>2. One(pc'[u] = "release") = One(pc[u] = "release") /\ One(pc[u] = "release") \in Int
      BY <1>1, <1>5 DEF One, OnlyMoves
    <3>3. Cardinality(ThreadHolders(pc', loc', u)) \in Nat /\ One(x = u) = One(u = x)
          /\ One(x = u) \in Int
      BY HoldersFinite DEF One
    <3>4. ThreadRefs'[u] = ThreadRefs[u] - One(u = x)
      BY <1>4
    <3>5. Cardinality(ThreadHolders(pc, loc, u))
                = Cardinality(ThreadHolders(pc', loc', u)) + One(x = u)
      BY <1>7
    <3>. QED BY <3>1, <3>2, <3>3, <3>4, <3>5
  <2>. QED BY <2>1 DEF ThreadCounts
<1>9. ASSUME x # NoThread
      PROVE  /\ x \in Threads /\ ThreadRefs[x] \in Int /\ ThreadRefs[x] > 0
             /\ FreesThread(x) <=> x \in Dead /\ ThreadRefs[x] = 1
             /\ FreesThread(x) => pc[x] # "release" /\ thr[x].todo = <<>>
  <2>1. x \in Threads
    BY <1>9, <1>3
  <2>2. /\ ThreadRefs[x] \in Int /\ ThreadRefs[x] = thr[x].tmp_ref
        /\ x \in Dead <=> thr[x].is_dead
    BY <2>1, <1>ty, ThreadViews
  <2>3. ThreadRefs[x] = Cardinality(ThreadHolders(pc, loc, x)) + One(pc[x] = "release")
    BY <2>1, <1>tc DEF ThreadCounts
  <2>4. Cardinality(ThreadHolders(pc, loc, x)) \in Nat
        /\ Cardinality(ThreadHolders(pc, loc, x)) > 0
    <3>1. th \in ThreadHolders(pc, loc, x)
      BY <1>1, <1>2 DEF ThreadHolders, Holding
    <3>2. IsFiniteSet(ThreadHolders(pc, loc, x)) /\ Cardinality(ThreadHolders(pc, loc, x)) \in Nat
      BY HoldersFinite
    <3>. QED BY <3>1, <3>2, CountOne
  <2>5. FreesThread(x) <=> x \in Dead /\ ThreadRefs[x] = 1
    BY <1>9, <2>2 DEF FreesThread
  <2>6. ASSUME FreesThread(x) PROVE pc[x] # "release" /\ thr[x].todo = <<>>
    <3>1. pc[x] # "release"
      BY <2>3, <2>4, <2>5, <2>6 DEF One
    <3>2. thr[x].is_dead /\ pc[x] = "gone"
      BY <3>1, <2>1, <2>2, <2>5, <2>6, ThreadFacts
    <3>. QED BY <3>1, <3>2, <2>1, ThreadFacts
  <2>. QED BY <2>1, <2>2, <2>3, <2>4, <2>5, <2>6 DEF One
<1>10. \A q : Cardinality(Unfreed(Dead, ThreadRefs', q))
              = Cardinality(Unfreed(Dead, ThreadRefs, q))
                - (IF q = p THEN One(FreesThread(x)) ELSE 0)
  <2>0. \A q : Cardinality(Unfreed(Dead, ThreadRefs, q)) \in Nat
    BY HoldersFinite
  <2>1. CASE x = NoThread
    <3>1. ~FreesThread(x)
      BY <2>1 DEF FreesThread
    <3>2. \A u \in Threads : ThreadRefs'[u] = ThreadRefs[u]
      <4>1. \A u \in Threads : u # x /\ ThreadRefs[u] \in Int
        BY <2>1, NullAssumption, <1>ty, ThreadViews
      <4>. QED BY <4>1, <1>4 DEF One
    <3>3. \A q : Unfreed(Dead, ThreadRefs', q) = Unfreed(Dead, ThreadRefs, q)
      BY <3>2 DEF Unfreed
    <3>. QED BY <3>1, <3>3, <2>0 DEF One
  <2>2. CASE x # NoThread
    <3>1. x \in Threads /\ \A u \in Threads : u # x => ThreadRefs'[u] = ThreadRefs[u]
      <4>1. \A u \in Threads : ThreadRefs[u] \in Int
        BY <1>ty, ThreadViews
      <4>. QED BY <4>1, <2>2, <1>4, <1>9 DEF One
    <3>2. ThreadRefs'[x] = ThreadRefs[x] - 1
      BY <3>1, <1>4 DEF One
    <3>3. CASE FreesThread(x)
      <4>1. x \in Dead /\ ThreadRefs[x] > 0 /\ ~(ThreadRefs'[x] > 0)
        BY <3>2, <3>3, <2>2, <1>9
      <4>2. \A q : Cardinality(Unfreed(Dead, ThreadRefs', q))
                   = Cardinality(Unfreed(Dead, ThreadRefs, q)) - One(ProcOf[x] = q)
        <5>1. \A u \in Threads : u # x => (u \in Dead <=> u \in Dead)
                                          /\ ThreadRefs'[u] = ThreadRefs[u]
          BY <3>1
        <5>2. x \in Threads /\ ~(x \in Dead /\ ThreadRefs'[x] > 0)
          BY <4>1, <3>1
        <5>. QED BY <5>1, <5>2, <4>1, UnfreedLess
      <4>. QED BY <4>2, <3>3, <2>2, <2>0, <1>3 DEF One
    <3>4. CASE ~FreesThread(x)
      <4>1. x \in Dead => (ThreadRefs[x] > 0 <=> ThreadRefs'[x] > 0)
        BY <3>2, <3>4, <2>2, <1>9
      <4>2. \A q : Unfreed(Dead, ThreadRefs', q) = Unfreed(Dead, ThreadRefs, q)
        BY <4>1, <3>1 DEF Unfreed
      <4>. QED BY <4>2, <3>4, <2>0 DEF One
    <3>. QED BY <3>3, <3>4
  <2>. QED BY <2>1, <2>2
<1>11. ProcCounts(Dead, ThreadRefs', ProcSts, ProcRefs', pc', loc')
  <2>1. ASSUME NEW q \in Procs
        PROVE  ProcRefs'[q] = Cardinality(ProcHolders(pc', loc', q))
                 + Cardinality(Unfreed(Dead, ThreadRefs', q))
                 + One(ProcSts[q] \in {"threads", "todo"})
    <3>1. ProcRefs[q] = Cardinality(ProcHolders(pc, loc, q))
                 + Cardinality(Unfreed(Dead, ThreadRefs, q))
                 + One(ProcSts[q] \in {"threads", "todo"})
      BY <1>pc DEF ProcCounts
    <3>2. /\ Cardinality(ProcHolders(pc', loc', q)) \in Nat
          /\ Cardinality(Unfreed(Dead, ThreadRefs, q)) \in Nat
          /\ One(ProcSts[q] \in {"threads", "todo"}) \in Int
          /\ One(FreesThread(x)) \in Int
          /\ One(p = q) = IF q = p THEN 1 ELSE 0
      BY HoldersFinite DEF One
    <3>3. ProcRefs'[q] = ProcRefs[q] - (IF q = p THEN 1 + One(FreesThread(x)) ELSE 0)
      BY <1>4
    <3>4. Cardinality(ProcHolders(pc, loc, q))
                = Cardinality(ProcHolders(pc', loc', q)) + One(p = q)
      BY <1>7
    <3>5. Cardinality(Unfreed(Dead, ThreadRefs', q))
              = Cardinality(Unfreed(Dead, ThreadRefs, q))
                - (IF q = p THEN One(FreesThread(x)) ELSE 0)
      BY <1>10
    <3>. QED BY <3>1, <3>2, <3>3, <3>4, <3>5
  <2>. QED BY <2>1 DEF ProcCounts
<1>12. ProcSts[ProcOf[th]] = "open"
  BY <1>1, <1>ty, ThreadFacts, ProcViews, ProcOfAssumption
<1>13. ProcSts[p] # "freed"
  <2>1. ProcRefs[p] = Cardinality(ProcHolders(pc, loc, p))
                 + Cardinality(Unfreed(Dead, ThreadRefs, p))
                 + One(ProcSts[p] \in {"threads", "todo"})
    BY <1>3, <1>pc DEF ProcCounts
  <2>2. Cardinality(ProcHolders(pc, loc, p)) > 0 /\ Cardinality(ProcHolders(pc, loc, p)) \in Nat
        /\ Cardinality(Unfreed(Dead, ThreadRefs, p)) \in Nat
    <3>1. th \in ProcHolders(pc, loc, p)
      BY <1>1, <1>2 DEF ProcHolders, Holding
    <3>2. IsFiniteSet(ProcHolders(pc, loc, p)) /\ Cardinality(ProcHolders(pc, loc, p)) \in Nat
          /\ Cardinality(Unfreed(Dead, ThreadRefs, p)) \in Nat
      BY HoldersFinite
    <3>. QED BY <3>1, <3>2, CountOne
  <2>3. ProcSts[p] = "freed" => ProcRefs[p] = 0
    BY <1>3, <1>ps DEF ProcStates, ProcOK
  <2>. QED BY <2>1, <2>2, <2>3 DEF One
<1>14. ProcStates(ProcSts, DeadProcs, ProcTodos, ProcRefs', LiveNodes, AsyncTodos, pc', sfr)
  <2>1. \A q \in Procs : ProcSts[q] = "freed" => ProcRefs'[q] = ProcRefs[q]
    <3>1. \A q \in Procs : ProcRefs[q] \in Int
      BY <1>ty, ProcViews
    <3>. QED BY <3>1, <1>4, <1>13
  <2>2. \A u \in Threads : ProcSts[ProcOf[u]] = "open" \/ pc'[u] = pc[u]
    BY <1>5, <1>12 DEF OnlyMoves
  <2>. QED BY <2>1, <2>2, <1>ps, ProcStatesKeep
<1>15. ThreadStates(Dead, Stacks, Todos, Waiting, pc', loc', sfr)
  <2>1. ThreadOK(Dead, Stacks, Todos, Waiting, pc, loc, sfr, th)
    BY <1>ts DEF ThreadStates
  <2>2. ThreadOK(Dead, Stacks, Todos, Waiting, pc', loc', sfr, th)
    BY <2>1, <1>1, <1>5, LocType DEF ThreadOK
  <2>3. \A u \in Threads : u # th => pc'[u] = pc[u] /\ loc'[u] = loc[u]
    BY <1>5 DEF OnlyMoves
  <2>. QED BY <2>2, <2>3, <1>ts, ThreadStatesKeep
<1>16. /\ Carried(txn, Dead, pc', loc', k, a)
       /\ Directed(txn, Dead, Stacks, Todos, pc', loc', k, a, r)
       /\ Buffers(txn, buf, loc', k, a) /\ Drops(txn, buf, pc', loc', sfr)
       /\ Oneways(buf, DeadProcs, LiveNodes, AsyncNodes, AsyncTodos, pc', loc')
       /\ Notices(Dead, Todos, ReturnErrors, ReplyErrors, pc')
  BY <1>1, <1>5, <1>ca, <1>di, <1>bu, <1>dr, <1>ow, <1>no,
     MoveCarried, MoveDirected, MoveBuffers, MoveDrops, MoveOneways, MoveNotices
<1>17. bug' = FALSE
  <2>1. x = NoThread => ~FreesThread(x)
    BY DEF FreesThread
  <2>2. bug' = (bug \/ (FreesThread(x) /\ thr[x].todo # <<>>))
    BY <1>3 DEF DecTmpRefs
  <2>. QED BY <2>1, <2>2, <1>9, <1>ty
<1>18. UNCHANGED <<LiveNodes, AsyncNodes, AsyncTodos>>
  BY <1>1, SameAll
<1>. QED BY <1>1, <1>4, <1>6, <1>8, <1>11, <1>14, <1>15, <1>16, <1>17, <1>18, Parts, Whole

\* The end of binder_thread_release.
LEMMA ReleaseThreadEndStep ==
  ASSUME NEW k, NEW a, NEW r, Inv(k, a, r), NEW th \in Threads, ReleaseThreadEnd(th)
  PROVE  Inv(k, a, r)'
<1>ty. Typed /\ bug = FALSE
  BY Parts
<1>ct. pc \in [Threads -> PCs] /\ loc \in [Threads -> Loc]
  BY Parts
<1>ca. Carried(txn, Dead, pc, loc, k, a)
  BY Parts
<1>ts. ThreadStates(Dead, Stacks, Todos, Waiting, pc, loc, sfr)
  BY Parts
<1>ps. ProcStates(ProcSts, DeadProcs, ProcTodos, ProcRefs, LiveNodes, AsyncTodos, pc, sfr)
  BY Parts
<1>tc. ThreadCounts(ThreadRefs, pc, loc)
  BY Parts
<1>pc. ProcCounts(Dead, ThreadRefs, ProcSts, ProcRefs, pc, loc)
  BY Parts
<1>ow. Oneways(buf, DeadProcs, LiveNodes, AsyncNodes, AsyncTodos, pc, loc)
  BY Parts
<1>no. Notices(Dead, Todos, ReturnErrors, ReplyErrors, pc)
  BY Parts
<1>di. Directed(txn, Dead, Stacks, Todos, pc, loc, k, a, r)
  BY Parts
<1>bu. Buffers(txn, buf, loc, k, a)
  BY Parts
<1>dr. Drops(txn, buf, pc, loc, sfr)
  BY Parts
<1>1. /\ pc[th] = "release" /\ sfr[th] = NoTxn /\ thr[th].todo = <<>>
      /\ DecTmpRefs(th, ProcOf[th], 0)
      /\ pc' = [pc EXCEPT ![th] = "gone"]
      /\ UNCHANGED <<txn, buf, node, loc, sfr>>
  BY DEF ReleaseThreadEnd
<1>2. PICK p \in Procs : p = ProcOf[th]
  BY ProcOfAssumption
<1>4. /\ thr' \in [Threads -> Thr] /\ proc' \in [Procs -> Prc]
      /\ UNCHANGED <<Stacks, Todos, Flagged, ReturnErrors, ReplyErrors, Waiting, Dead>>
      /\ UNCHANGED <<ProcSts, ProcTodos, DeadProcs>>
      /\ \A u \in Threads : ThreadRefs'[u] = ThreadRefs[u] - One(u = th)
      /\ \A q \in Procs : ProcRefs'[q] = ProcRefs[q]
                               - (IF q = p THEN 0 + One(FreesThread(th)) ELSE 0)
  BY <1>1, <1>2, <1>ty, DecRefs
<1>5. /\ pc'[th] = "gone" /\ OnlyMoves(pc, loc, pc', loc', th)
      /\ pc' \in [Threads -> PCs] /\ ~Holding(pc, th) /\ ~Holding(pc', th)
  BY <1>1, <1>ct DEF OnlyMoves, PCs, Holding
<1>6. Typed'
  BY <1>1, <1>4, <1>5, <1>ty DEF Typed
<1>7. /\ \A y : ThreadHolders(pc', loc', y) = ThreadHolders(pc, loc, y)
      /\ \A y : ProcHolders(pc', loc', y) = ProcHolders(pc, loc, y)
  <2>1. \A u \in Threads : SameHolds(pc, loc, pc', loc', u)
    BY <1>5 DEF SameHolds, OnlyMoves, Holding
  <2>. QED BY <2>1, HoldersKeep
<1>8. ThreadCounts(ThreadRefs', pc', loc')
  <2>1. ASSUME NEW u \in Threads
        PROVE  ThreadRefs'[u] = Cardinality(ThreadHolders(pc', loc', u)) + One(pc'[u] = "release")
    <3>1. ThreadRefs[u] = Cardinality(ThreadHolders(pc, loc, u)) + One(pc[u] = "release")
      BY <1>tc DEF ThreadCounts
    <3>2. One(pc'[u] = "release") = One(pc[u] = "release") - One(u = th)
      BY <1>1, <1>5 DEF One, OnlyMoves
    <3>3. Cardinality(ThreadHolders(pc, loc, u)) \in Nat /\ One(u = th) \in Int
          /\ One(pc[u] = "release") \in Int
      BY HoldersFinite DEF One
    <3>4. ThreadRefs'[u] = ThreadRefs[u] - One(u = th)
      BY <1>4
    <3>. QED BY <3>1, <3>2, <3>3, <3>4, <1>7
  <2>. QED BY <2>1 DEF ThreadCounts
<1>9. /\ ThreadRefs[th] \in Int /\ ThreadRefs[th] > 0 /\ th \in Dead
      /\ FreesThread(th) <=> ThreadRefs[th] = 1
  <2>1. /\ ThreadRefs[th] \in Int /\ ThreadRefs[th] = thr[th].tmp_ref
        /\ th \in Dead <=> thr[th].is_dead
    BY <1>ty, ThreadViews
  <2>2. thr[th].is_dead /\ th # NoThread
    BY <1>1, ThreadFacts, NullAssumption
  <2>3. ThreadRefs[th] = Cardinality(ThreadHolders(pc, loc, th)) + One(pc[th] = "release")
    BY <1>tc DEF ThreadCounts
  <2>4. Cardinality(ThreadHolders(pc, loc, th)) \in Nat
    BY HoldersFinite
  <2>. QED BY <2>1, <2>2, <2>3, <2>4, <1>1 DEF FreesThread, One
<1>10. \A q : Cardinality(Unfreed(Dead, ThreadRefs', q))
              = Cardinality(Unfreed(Dead, ThreadRefs, q))
                - (IF q = p THEN One(FreesThread(th)) ELSE 0)
  <2>0. \A q : Cardinality(Unfreed(Dead, ThreadRefs, q)) \in Nat
    BY HoldersFinite
  <2>1. /\ \A u \in Threads : u # th => (u \in Dead <=> u \in Dead)
                                        /\ ThreadRefs'[u] = ThreadRefs[u]
        /\ ThreadRefs'[th] = ThreadRefs[th] - 1
    <3>1. \A u \in Threads : ThreadRefs[u] \in Int
      BY <1>ty, ThreadViews
    <3>. QED BY <3>1, <1>4 DEF One
  <2>3. CASE FreesThread(th)
    <3>1. th \in Dead /\ ThreadRefs[th] > 0 /\ ~(th \in Dead /\ ThreadRefs'[th] > 0)
      BY <2>1, <2>3, <1>9
    <3>2. \A q : Cardinality(Unfreed(Dead, ThreadRefs', q))
                 = Cardinality(Unfreed(Dead, ThreadRefs, q)) - One(ProcOf[th] = q)
      BY <3>1, <2>1, UnfreedLess, SMTT(60)
    <3>. QED BY <3>2, <2>3, <2>0, <1>2 DEF One
  <2>4. CASE ~FreesThread(th)
    <3>1. ThreadRefs[th] > 0 <=> ThreadRefs'[th] > 0
      BY <2>1, <2>4, <1>9
    <3>2. \A q : Unfreed(Dead, ThreadRefs', q) = Unfreed(Dead, ThreadRefs, q)
      BY <3>1, <2>1 DEF Unfreed
    <3>. QED BY <3>2, <2>4, <2>0 DEF One
  <2>. QED BY <2>3, <2>4
<1>11. ProcCounts(Dead, ThreadRefs', ProcSts, ProcRefs', pc', loc')
  <2>1. ASSUME NEW q \in Procs
        PROVE  ProcRefs'[q] = Cardinality(ProcHolders(pc', loc', q))
                 + Cardinality(Unfreed(Dead, ThreadRefs', q))
                 + One(ProcSts[q] \in {"threads", "todo"})
    <3>1. ProcRefs[q] = Cardinality(ProcHolders(pc, loc, q))
                 + Cardinality(Unfreed(Dead, ThreadRefs, q))
                 + One(ProcSts[q] \in {"threads", "todo"})
      BY <1>pc DEF ProcCounts
    <3>2. /\ Cardinality(ProcHolders(pc, loc, q)) \in Nat
          /\ Cardinality(Unfreed(Dead, ThreadRefs, q)) \in Nat
          /\ One(ProcSts[q] \in {"threads", "todo"}) \in Int
          /\ One(FreesThread(th)) \in Int
      BY HoldersFinite DEF One
    <3>3. ProcRefs'[q] = ProcRefs[q] - (IF q = p THEN 0 + One(FreesThread(th)) ELSE 0)
      BY <1>4
    <3>5. Cardinality(Unfreed(Dead, ThreadRefs', q))
              = Cardinality(Unfreed(Dead, ThreadRefs, q))
                - (IF q = p THEN One(FreesThread(th)) ELSE 0)
      BY <1>10
    <3>. QED BY <3>1, <3>2, <3>3, <3>5, <1>7
  <2>. QED BY <2>1 DEF ProcCounts
<1>13. ProcSts[p] # "freed"
  BY <1>1, <1>2, <1>ps DEF ProcStates, ProcOK
<1>14. ProcStates(ProcSts, DeadProcs, ProcTodos, ProcRefs', LiveNodes, AsyncTodos, pc', sfr)
  <2>1. \A q \in Procs : ProcSts[q] = "freed" => ProcRefs'[q] = ProcRefs[q]
    <3>1. \A q \in Procs : ProcRefs[q] \in Int
      BY <1>ty, ProcViews
    <3>. QED BY <3>1, <1>4, <1>13
  <2>2. \A u \in Threads : pc'[u] = "gone" \/ pc'[u] = pc[u]
    BY <1>5 DEF OnlyMoves
  <2>. QED BY <2>1, <2>2, <1>ps, ProcStatesKeep
<1>15. ThreadStates(Dead, Stacks, Todos, Waiting, pc', loc', sfr)
  <2>1. ThreadOK(Dead, Stacks, Todos, Waiting, pc, loc, sfr, th)
    BY <1>ts DEF ThreadStates
  <2>2. Todos[th] = <<>>
    BY <1>1, <1>ty, ThreadViews
  <2>3. ThreadOK(Dead, Stacks, Todos, Waiting, pc', loc', sfr, th)
    BY <2>1, <2>2, <1>1, <1>5, <1>9 DEF ThreadOK
  <2>4. \A u \in Threads : u # th => pc'[u] = pc[u] /\ loc'[u] = loc[u]
    BY <1>5 DEF OnlyMoves
  <2>. QED BY <2>3, <2>4, <1>ts, ThreadStatesKeep
<1>16. /\ Carried(txn, Dead, pc', loc', k, a)
       /\ Directed(txn, Dead, Stacks, Todos, pc', loc', k, a, r)
       /\ Buffers(txn, buf, loc', k, a) /\ Drops(txn, buf, pc', loc', sfr)
       /\ Oneways(buf, DeadProcs, LiveNodes, AsyncNodes, AsyncTodos, pc', loc')
       /\ Notices(Dead, Todos, ReturnErrors, ReplyErrors, pc')
  BY <1>1, <1>5, <1>ca, <1>di, <1>bu, <1>dr, <1>ow, <1>no,
     MoveCarried, MoveDirected, MoveBuffers, MoveDrops, MoveOneways, MoveNotices
<1>17. bug' = FALSE
  BY <1>1, <1>ty DEF DecTmpRefs
<1>18. UNCHANGED <<LiveNodes, AsyncNodes, AsyncTodos>>
  BY <1>1, SameAll
<1>. QED BY <1>1, <1>4, <1>6, <1>8, <1>11, <1>14, <1>15, <1>16, <1>17, <1>18, Parts, Whole

\* A thread that is not held is nobody's target.
LEMMA NotHeld ==
  ASSUME NEW TR, NEW PC, NEW LC, ThreadCounts(TR, PC, LC), NEW u \in Threads, TR[u] = 0
  PROVE  /\ \A th \in Threads : Holding(PC, th) => LC[th].target_thread # u
         /\ PC[u] # "release"
<1>1. TR[u] = Cardinality(ThreadHolders(PC, LC, u)) + One(PC[u] = "release")
  BY DEF ThreadCounts
<1>2. Cardinality(ThreadHolders(PC, LC, u)) \in Nat /\ IsFiniteSet(ThreadHolders(PC, LC, u))
  BY HoldersFinite
<1>3. Cardinality(ThreadHolders(PC, LC, u)) = 0 /\ PC[u] # "release"
  BY <1>1, <1>2 DEF One
<1>4. \A th : th \notin ThreadHolders(PC, LC, u)
  BY <1>2, <1>3, CountOne
<1>. QED BY <1>3, <1>4 DEF ThreadHolders

\* Neither is a process.
LEMMA ProcNotHeld ==
  ASSUME NEW D, NEW TR, NEW PS, NEW PR, NEW PC, NEW LC, ProcCounts(D, TR, PS, PR, PC, LC),
         NEW p \in Procs, PR[p] = 0
  PROVE  /\ \A th \in Threads : Holding(PC, th) => LC[th].target_proc # p
         /\ \A u \in Threads : ProcOf[u] = p => ~(u \in D /\ TR[u] > 0)
         /\ PS[p] \notin {"threads", "todo"}
<1>1. PR[p] = Cardinality(ProcHolders(PC, LC, p)) + Cardinality(Unfreed(D, TR, p))
              + One(PS[p] \in {"threads", "todo"})
  BY DEF ProcCounts
<1>2. /\ Cardinality(ProcHolders(PC, LC, p)) \in Nat /\ IsFiniteSet(ProcHolders(PC, LC, p))
      /\ Cardinality(Unfreed(D, TR, p)) \in Nat /\ IsFiniteSet(Unfreed(D, TR, p))
  BY HoldersFinite
<1>3. /\ Cardinality(ProcHolders(PC, LC, p)) = 0 /\ Cardinality(Unfreed(D, TR, p)) = 0
      /\ PS[p] \notin {"threads", "todo"}
  BY <1>1, <1>2 DEF One
<1>4. /\ \A th : th \notin ProcHolders(PC, LC, p)
      /\ \A u : u \notin Unfreed(D, TR, p)
  BY <1>2, <1>3, CountOne
<1>. QED BY <1>3, <1>4 DEF ProcHolders, Unfreed

\* A dead thread has no calls.
LEMMA DeadHasNone ==
  ASSUME NEW X, NEW D, NEW k, NEW a, NEW r, Tree(X, D, k, a, r), Placed(X, D, k, a),
         NEW u \in Threads, u \in D, NEW t \in Txns
  PROVE  ~Mine(X, k, a, u, t)
<1>1. CallOK(X, D, r, t) /\ PlaceOK(X, D, k, a, t) /\ u # NoThread
  BY NullAssumption DEF Tree, Placed
<1>. QED BY <1>1 DEF CallOK, PlaceOK, Mine

\* binder_get_thread makes a new struct for a thread that comes back.
LEMMA GetThreadStep ==
  ASSUME NEW k, NEW a, NEW r, Inv(k, a, r), NEW th \in Threads, GetThread(th)
  PROVE  Inv(k, a, r)'
<1>ty. Typed /\ bug = FALSE
  BY Parts
<1>ct. pc \in [Threads -> PCs] /\ loc \in [Threads -> Loc]
  BY Parts
<1>xt. txn \in [Txns -> Txn]
  BY Parts
<1>tt. thr \in [Threads -> Thr]
  BY Parts
<1>vt. Stacks \in [Threads -> 0 .. MaxTxns] /\ Todos \in [Threads -> Seq(Work)]
  BY Parts
<1>tl. ThreadLists(Todos, k, a)
  BY Parts
<1>po. Placed(txn, Dead, k, a)
  BY Parts
<1>tr. Tree(txn, Dead, k, a, r)
  BY Parts
<1>st. AllStacks(txn, Dead, Stacks, k, a, r)
  BY Parts
<1>ca. Carried(txn, Dead, pc, loc, k, a)
  BY Parts
<1>ts. ThreadStates(Dead, Stacks, Todos, Waiting, pc, loc, sfr)
  BY Parts
<1>ps. ProcStates(ProcSts, DeadProcs, ProcTodos, ProcRefs, LiveNodes, AsyncTodos, pc, sfr)
  BY Parts
<1>tc. ThreadCounts(ThreadRefs, pc, loc)
  BY Parts
<1>pc. ProcCounts(Dead, ThreadRefs, ProcSts, ProcRefs, pc, loc)
  BY Parts
<1>ow. Oneways(buf, DeadProcs, LiveNodes, AsyncNodes, AsyncTodos, pc, loc)
  BY Parts
<1>no. Notices(Dead, Todos, ReturnErrors, ReplyErrors, pc)
  BY Parts
<1>fl. Flags(txn, Dead, Stacks, Todos, Flagged)
  BY Parts
<1>di. Directed(txn, Dead, Stacks, Todos, pc, loc, k, a, r)
  BY Parts
<1>bu. Buffers(txn, buf, loc, k, a)
  BY Parts
<1>dr. Drops(txn, buf, pc, loc, sfr)
  BY Parts
<1>1. /\ pc[th] = "gone" /\ proc[ProcOf[th]].st = "open"
      /\ thr[th].is_dead /\ thr[th].tmp_ref = 0
      /\ thr' = [thr EXCEPT ![th] = NewThread]
      /\ pc' = [pc EXCEPT ![th] = "user"]
      /\ UNCHANGED <<txn, buf, proc, node, loc, sfr, bug>>
  BY DEF GetThread, ThreadFreed
<1>2. /\ NewThread \in Thr /\ NewThread.stack = NoTxn /\ NewThread.todo = <<>>
      /\ NewThread.process_todo = FALSE /\ NewThread.return_error = "OK"
      /\ NewThread.reply_error = "OK" /\ NewThread.waiting = FALSE
      /\ NewThread.is_dead = FALSE /\ NewThread.tmp_ref = 0
  BY TxnNumbers DEF NewThread, Thr, Cmds
<1>3. /\ thr' \in [Threads -> Thr] /\ thr'[th] = NewThread
      /\ \A u \in Threads : u # th => thr'[u] = thr[u]
  BY <1>1, <1>2, <1>tt
<1>4. /\ th \in Dead /\ Todos[th] = <<>> /\ ThreadRefs[th] = 0 /\ sfr[th] = NoTxn
      /\ ~loc[th].wait_for_proc_work
  <2>1. /\ Todos[th] = thr[th].todo /\ ThreadRefs[th] = thr[th].tmp_ref
        /\ th \in Dead <=> thr[th].is_dead
    BY <1>ty, ThreadViews
  <2>. QED BY <2>1, <1>1, ThreadFacts
<1>5. /\ Stacks'[th] = NoTxn /\ Todos'[th] = <<>> /\ th \notin Flagged'
      /\ ReplyErrors'[th] = "OK" /\ th \notin Waiting' /\ th \notin Dead'
  BY <1>2, <1>3 DEF Stacks, Todos, Flagged, ReplyErrors, Waiting, Dead
<1>6. \A u \in Threads : u # th =>
      /\ Stacks'[u] = Stacks[u] /\ Todos'[u] = Todos[u]
      /\ u \in Flagged' <=> u \in Flagged
      /\ ReplyErrors'[u] = ReplyErrors[u] /\ ReturnErrors'[u] = ReturnErrors[u]
      /\ u \in Waiting' <=> u \in Waiting
      /\ u \in Dead' <=> u \in Dead
  BY <1>3 DEF Stacks, Todos, Flagged, ReplyErrors, ReturnErrors, Waiting, Dead
<1>7. Todos' = Todos /\ ThreadRefs' = ThreadRefs
  <2>1. \A u \in Threads : thr'[u].todo = thr[u].todo /\ thr'[u].tmp_ref = thr[u].tmp_ref
    <3>1. thr[th].todo = <<>> /\ thr[th].tmp_ref = 0
      BY <1>1, ThreadFacts
    <3>. QED BY <3>1, <1>2, <1>3
  <2>. QED BY <2>1, SameThreads
<1>8. UNCHANGED <<ProcSts, ProcTodos, DeadProcs, ProcRefs, LiveNodes, AsyncNodes, AsyncTodos>>
  BY <1>1, SameAll
<1>9. /\ pc'[th] = "user" /\ OnlyMoves(pc, loc, pc', loc', th)
      /\ pc' \in [Threads -> PCs] /\ ~Holding(pc, th) /\ ~Holding(pc', th)
  BY <1>1, <1>ct DEF OnlyMoves, PCs, Holding
<1>10. Typed'
  BY <1>1, <1>3, <1>9, <1>ty DEF Typed
<1>11. \A u \in Threads : Holding(pc, u) => loc[u].target_thread # th
  BY <1>4, <1>tc, NotHeld
<1>12. Dead' \subseteq Dead
  BY <1>5, <1>6 DEF Dead
<1>13. Carried(txn, Dead', pc', loc', k, a)
  <2>1. Carried(txn, Dead', pc, loc, k, a)
    <3>1. ASSUME NEW u \in Threads PROVE CarryOK(txn, Dead', pc, loc, k, a, u)
      <4>1. CarryOK(txn, Dead, pc, loc, k, a, u)
        BY <1>ca DEF Carried
      <4>2. pc[u] = "reply" => loc[u].target_thread # th
        BY <1>11 DEF Holding
      <4>3. \A v \in Threads : pc[u] = "reply" /\ loc[u].target_thread = v /\ v \notin Dead'
                               => v \notin Dead
        BY <4>2, <1>6
      <4>. QED BY <4>1, <4>3, CarryKeep
    <3>. QED BY <3>1, <1>ca DEF Carried
  <2>. QED BY <2>1, <1>1, <1>9, MoveCarried
<1>14. Placed(txn, Dead', k, a)
  <2>1. ASSUME NEW t \in Txns PROVE PlaceOK(txn, Dead', k, a, t)
    <3>1. PlaceOK(txn, Dead, k, a, t) /\ (a[t] \notin Dead => a[t] \notin Dead')
      BY <1>po, <1>12 DEF Placed
    <3>. QED BY <3>1, PlaceKeep
  <2>. QED BY <2>1 DEF Placed
<1>15. Tree(txn, Dead', k, a, r)
  <2>1. Keeps(txn, k, a, k, a)
    BY DEF Keeps
  <2>. QED BY <2>1, <1>12, <1>xt, <1>tr, TreeKeep
<1>16. AllStacks(txn, Dead', Stacks', k, a, r)
  <2>1. ASSUME NEW u \in Threads, u \notin Dead' PROVE StackOK(txn, Stacks', k, a, r, u)
    <3>1. CASE u = th
      <4>1. \A t \in Txns : ~Mine(txn, k, a, u, t)
        BY <3>1, <1>4, <1>tr, <1>po, DeadHasNone
      <4>. QED BY <4>1, <3>1, <1>5 DEF StackOK
    <3>2. CASE u # th
      <4>1. StackOK(txn, Stacks, k, a, r, u) /\ Stacks[u] \in 0 .. MaxTxns
            /\ Stacks'[u] = Stacks[u]
        BY <3>2, <2>1, <1>6, <1>st, <1>vt DEF AllStacks
      <4>2. \A s \in Txns : Alike(txn, txn, k, a, k, a, u, s)
        BY DEF Alike
      <4>. QED BY <4>1, <4>2, <1>xt, StackKeep
    <3>. QED BY <3>1, <3>2
  <2>. QED BY <2>1 DEF AllStacks
<1>17. Directed(txn, Dead', Stacks', Todos', pc', loc', k, a, r)
  <2>1. ASSUME NEW t \in Txns PROVE QueuedOK(txn, Dead', Stacks', Todos', k, a, r, t)
    <3>1. QueuedOK(txn, Dead, Stacks, Todos, k, a, r, t)
      BY <1>di DEF Directed
    <3>2. k[t] = "thread" => a[t] \in Threads /\ a[t] # th
      <4>1. k[t] = "thread" => a[t] \in Threads
        BY <1>po DEF Placed, PlaceOK
      <4>2. TxnItem(t) \in ToSet(Todos[th]) <=> k[t] = "thread" /\ a[t] = th
        BY <1>tl DEF ThreadLists, ListOK
      <4>. QED BY <4>1, <4>2, <1>4, SeqSmall
    <3>3. k[t] = "thread" => Stacks'[a[t]] = Stacks[a[t]] /\ (a[t] \in Dead' <=> a[t] \in Dead)
      BY <3>2, <1>6
    <3>. QED BY <3>1, <3>3, <1>7, QueuedKeep
  <2>2. ASSUME NEW u \in Threads, pc'[u] = "send"
        PROVE  SentOK(txn, Dead', Stacks', loc', r, u)
    <3>1. u # th /\ pc[u] = "send" /\ loc'[u] = loc[u]
      BY <2>2, <1>9 DEF OnlyMoves
    <3>2. SentOK(txn, Dead, Stacks, loc, r, u)
      BY <3>1, <1>di DEF Directed
    <3>3. loc[u].target_thread # NoThread => loc[u].target_thread \in Threads
                                             /\ loc[u].target_thread # th
      <4>1. loc[u] \in Loc
        BY <1>ct
      <4>. QED BY <4>1, <3>1, <1>11 DEF Loc, Holding
    <3>4. loc[u].target_thread # NoThread /\ loc[u].target_thread \notin Dead' =>
            /\ loc[u].target_thread \notin Dead
            /\ Stacks'[loc[u].target_thread] = Stacks[loc[u].target_thread]
      BY <3>3, <1>6
    <3>. QED BY <3>1, <3>2, <3>4, SentKeep
  <2>. QED BY <2>1, <2>2 DEF Directed
<1>18. ThreadStates(Dead', Stacks', Todos', Waiting', pc', loc', sfr)
  <2>1. ThreadOK(Dead', Stacks', Todos', Waiting', pc', loc', sfr, th)
    BY <1>1, <1>4, <1>5, <1>9 DEF ThreadOK
  <2>2. \A u \in Threads : u # th =>
          /\ u \in Dead' <=> u \in Dead
          /\ pc'[u] = pc[u] /\ loc'[u] = loc[u] /\ Stacks'[u] = Stacks[u]
          /\ u \in Waiting' => u \in Waiting
    BY <1>6, <1>9 DEF OnlyMoves
  <2>. QED BY <2>1, <2>2, <1>7, <1>ts, ThreadStatesKeep
<1>19. ProcStates(ProcSts, DeadProcs, ProcTodos, ProcRefs, LiveNodes, AsyncTodos, pc', sfr)
  <2>1. ProcSts[ProcOf[th]] = "open"
    BY <1>1, <1>ty, ProcViews, ProcOfAssumption
  <2>2. \A u \in Threads : ProcSts[ProcOf[u]] = "open" \/ pc'[u] = pc[u]
    BY <2>1, <1>9 DEF OnlyMoves
  <2>. QED BY <2>2, <1>ps, ProcStatesKeep
<1>20. /\ ThreadCounts(ThreadRefs', pc', loc')
       /\ ProcCounts(Dead', ThreadRefs', ProcSts, ProcRefs, pc', loc')
  <2>1. /\ ThreadCounts(ThreadRefs, pc', loc')
        /\ ProcCounts(Dead, ThreadRefs, ProcSts, ProcRefs, pc', loc')
    BY <1>1, <1>9, <1>tc, <1>pc, MoveCounts
  <2>2. \A q : Unfreed(Dead', ThreadRefs', q) = Unfreed(Dead, ThreadRefs, q)
    BY <1>4, <1>5, <1>6, <1>7 DEF Unfreed
  <2>. QED BY <2>1, <2>2, <1>7 DEF ProcCounts
<1>21. /\ Buffers(txn, buf, loc', k, a) /\ Drops(txn, buf, pc', loc', sfr)
       /\ Oneways(buf, DeadProcs, LiveNodes, AsyncNodes, AsyncTodos, pc', loc')
  BY <1>1, <1>9, <1>ca, <1>bu, <1>dr, <1>ow, MoveBuffers, MoveDrops, MoveOneways
<1>22. Notices(Dead', Todos', ReturnErrors', ReplyErrors', pc')
  <2>1. NoticeOK(Dead', Todos', ReturnErrors', ReplyErrors', pc', th)
    BY <1>5, <1>9, SeqSmall DEF NoticeOK
  <2>2. ASSUME NEW u \in Threads, u # th
        PROVE  NoticeOK(Dead', Todos', ReturnErrors', ReplyErrors', pc', u)
    <3>1. NoticeOK(Dead, Todos, ReturnErrors, ReplyErrors, pc, u)
      BY <1>no DEF Notices
    <3>. QED BY <3>1, <2>2, <1>6, <1>9 DEF NoticeOK, OnlyMoves
  <2>. QED BY <2>1, <2>2 DEF Notices
<1>23. Flags(txn, Dead', Stacks', Todos', Flagged')
  <2>1. FlagOK(txn, Stacks', Todos', Flagged', th)
    BY <1>5 DEF FlagOK
  <2>2. ASSUME NEW u \in Threads, u # th, u \notin Dead'
        PROVE  FlagOK(txn, Stacks', Todos', Flagged', u)
    <3>1. FlagOK(txn, Stacks, Todos, Flagged, u)
      BY <2>2, <1>6, <1>fl DEF Flags
    <3>. QED BY <3>1, <2>2, <1>6 DEF FlagOK
  <2>. QED BY <2>1, <2>2 DEF Flags
<1>24. ThreadLists(Todos', k, a)
  BY <1>7, <1>tl
<1>. QED BY <1>1, <1>8, <1>10, <1>13, <1>14, <1>15, <1>16, <1>17, <1>18, <1>19, <1>20,
            <1>21, <1>22, <1>23, <1>24, Parts, Whole
-----------------------------------------------------------------------------
(* The release of a process goes on.                                       *)

\* The other processes and what a process's state is not about are the same.
LEMMA ProcChange ==
  ASSUME Typed, NEW p \in Procs, NEW x \in Prc, proc' = [proc EXCEPT ![p] = x]
  PROVE  /\ proc' \in [Procs -> Prc] /\ proc'[p] = x
         /\ \A q \in Procs : q # p => proc'[q] = proc[q]
         /\ ProcSts'[p] = x.st /\ ProcTodos'[p] = x.todo /\ ProcRefs'[p] = x.tmp_ref
         /\ p \in DeadProcs' <=> x.is_dead
         /\ \A q \in Procs : q # p =>
              /\ ProcSts'[q] = ProcSts[q] /\ ProcTodos'[q] = ProcTodos[q]
              /\ ProcRefs'[q] = ProcRefs[q]
              /\ q \in DeadProcs' <=> q \in DeadProcs
         /\ x.todo = proc[p].todo => ProcTodos' = ProcTodos
         /\ x.is_dead = proc[p].is_dead => DeadProcs' = DeadProcs
         /\ x.tmp_ref = proc[p].tmp_ref => ProcRefs' = ProcRefs
         /\ x.st = proc[p].st => ProcSts' = ProcSts
<1>1. /\ proc' \in [Procs -> Prc] /\ proc'[p] = x
      /\ \A q \in Procs : q # p => proc'[q] = proc[q]
  BY DEF Typed
<1>2. /\ ProcSts'[p] = x.st /\ ProcTodos'[p] = x.todo /\ ProcRefs'[p] = x.tmp_ref
      /\ p \in DeadProcs' <=> x.is_dead
      /\ \A q \in Procs : q # p =>
              /\ ProcSts'[q] = ProcSts[q] /\ ProcTodos'[q] = ProcTodos[q]
              /\ ProcRefs'[q] = ProcRefs[q]
              /\ q \in DeadProcs' <=> q \in DeadProcs
  BY <1>1 DEF ProcSts, ProcTodos, ProcRefs, DeadProcs
<1>3. x.todo = proc[p].todo => \A q \in Procs : proc'[q].todo = proc[q].todo
  BY <1>1
<1>4. x.is_dead = proc[p].is_dead => \A q \in Procs : proc'[q].is_dead = proc[q].is_dead
  BY <1>1
<1>5. x.tmp_ref = proc[p].tmp_ref => \A q \in Procs : proc'[q].tmp_ref = proc[q].tmp_ref
  BY <1>1
<1>6. x.st = proc[p].st => \A q \in Procs : proc'[q].st = proc[q].st
  BY <1>1
<1>. QED BY <1>1, <1>2, <1>3, <1>4, <1>5, <1>6, SameProcs

\* binder_deferred_release starts.
LEMMA ProcReleaseStep ==
  ASSUME NEW k, NEW a, NEW r, Inv(k, a, r), NEW p \in Procs, ProcRelease(p)
  PROVE  Inv(k, a, r)'
<1>ty. Typed /\ bug = FALSE
  BY Parts
<1>rt. proc \in [Procs -> Prc]
  BY Parts
<1>ps. ProcStates(ProcSts, DeadProcs, ProcTodos, ProcRefs, LiveNodes, AsyncTodos, pc, sfr)
  BY Parts
<1>pc. ProcCounts(Dead, ThreadRefs, ProcSts, ProcRefs, pc, loc)
  BY Parts
<1>ow. Oneways(buf, DeadProcs, LiveNodes, AsyncNodes, AsyncTodos, pc, loc)
  BY Parts
<1>1. /\ proc[p].st = "open"
      /\ \A th \in ThreadsOf(p) : InUser(th) \/ pc[th] = "gone"
      /\ proc' = [proc EXCEPT ![p].st = "threads", ![p].is_dead = TRUE,
                              ![p].tmp_ref = @ + 1]
      /\ UNCHANGED <<txn, buf, thr, node, pc, loc, sfr, bug>>
  BY DEF ProcRelease
<1>2. proc[p] \in Prc /\ proc[p].tmp_ref \in Int
  BY <1>rt DEF Prc
<1>n. PICK n \in Int : n = proc[p].tmp_ref + 1
  BY <1>2
<1>. DEFINE x == [[[proc[p] EXCEPT !.st = "threads"] EXCEPT !.is_dead = TRUE]
                   EXCEPT !.tmp_ref = n]
<1>3. /\ x \in Prc /\ x.st = "threads" /\ x.todo = proc[p].todo /\ x.is_dead
      /\ x.tmp_ref = n
  BY <1>2 DEF Prc
<1>4. proc' = [proc EXCEPT ![p] = x]
  BY <1>1, <1>rt, <1>2, <1>n DEF Prc
<1>. HIDE DEF x
<1>5. /\ proc' \in [Procs -> Prc] /\ ProcTodos' = ProcTodos
      /\ ProcSts'[p] = "threads" /\ p \in DeadProcs' /\ ProcRefs'[p] = n
      /\ \A q \in Procs : q # p =>
              /\ ProcSts'[q] = ProcSts[q] /\ ProcRefs'[q] = ProcRefs[q]
              /\ q \in DeadProcs' <=> q \in DeadProcs
  BY <1>3, <1>4, <1>ty, ProcChange, ZenonT(90)
<1>6. /\ ProcSts[p] = "open" /\ ProcRefs[p] = proc[p].tmp_ref
      /\ p \in DeadProcs <=> proc[p].is_dead
  BY <1>1, <1>ty, ProcViews
<1>7. Typed'
  BY <1>1, <1>5, <1>ty DEF Typed
<1>8. ProcStates(ProcSts', DeadProcs', ProcTodos', ProcRefs', LiveNodes, AsyncTodos, pc, sfr)
  <2>1. ASSUME NEW q \in Procs
        PROVE  ProcOK(ProcSts', DeadProcs', ProcTodos', ProcRefs', LiveNodes, AsyncTodos, pc, sfr, q)
    <3>1. ProcOK(ProcSts, DeadProcs, ProcTodos, ProcRefs, LiveNodes, AsyncTodos, pc, sfr, q)
      BY <1>ps DEF ProcStates
    <3>2. CASE q = p
      <4>1. ASSUME NEW th \in Threads, ProcOf[th] = q
            PROVE  pc[th] \in {"release", "gone"} \/ (pc[th] = "user" /\ sfr[th] = NoTxn)
        BY <4>1, <3>2, <1>1 DEF ThreadsOf, InUser
      <4>2. q \in LiveNodes /\ sfr[q] = NoTxn
        BY <3>1, <3>2, <1>6 DEF ProcOK
      <4>. QED BY <4>1, <4>2, <3>2, <1>5 DEF ProcOK
    <3>3. CASE q # p
      BY <3>1, <3>3, <1>5 DEF ProcOK
    <3>. QED BY <3>2, <3>3
  <2>. QED BY <2>1 DEF ProcStates
<1>9. ProcCounts(Dead, ThreadRefs, ProcSts', ProcRefs', pc, loc)
  <2>1. ASSUME NEW q \in Procs
        PROVE  ProcRefs'[q] = Cardinality(ProcHolders(pc, loc, q))
                 + Cardinality(Unfreed(Dead, ThreadRefs, q))
                 + One(ProcSts'[q] \in {"threads", "todo"})
    <3>1. ProcRefs[q] = Cardinality(ProcHolders(pc, loc, q))
                 + Cardinality(Unfreed(Dead, ThreadRefs, q))
                 + One(ProcSts[q] \in {"threads", "todo"})
      BY <1>pc DEF ProcCounts
    <3>2. /\ Cardinality(ProcHolders(pc, loc, q)) \in Nat
          /\ Cardinality(Unfreed(Dead, ThreadRefs, q)) \in Nat
      BY HoldersFinite
    <3>. QED BY <3>1, <3>2, <1>n, <1>5, <1>6 DEF One
  <2>. QED BY <2>1 DEF ProcCounts
<1>10. Oneways(buf, DeadProcs', LiveNodes, AsyncNodes, AsyncTodos, pc, loc)
  <2>1. ASSUME NEW q \in LiveNodes PROVE OnewayOK(buf, DeadProcs', AsyncNodes, AsyncTodos, pc, loc, q)
    <3>1. OnewayOK(buf, DeadProcs, AsyncNodes, AsyncTodos, pc, loc, q)
      BY <1>ow DEF Oneways
    <3>2. q \notin DeadProcs' => q \notin DeadProcs
      BY <1>5 DEF LiveNodes
    <3>. QED BY <3>1, <3>2 DEF OnewayOK
  <2>. QED BY <2>1 DEF Oneways
<1>11. UNCHANGED <<Stacks, Todos, Flagged, ReturnErrors, ReplyErrors, Waiting, Dead,
                   ThreadRefs, LiveNodes, AsyncNodes, AsyncTodos>>
  BY <1>1, SameAll
<1>. QED BY <1>1, <1>5, <1>7, <1>8, <1>9, <1>10, <1>11, Parts, Whole

\* And ends.
LEMMA ProcReleaseEndStep ==
  ASSUME NEW k, NEW a, NEW r, Inv(k, a, r), NEW p \in Procs, ProcReleaseEnd(p)
  PROVE  Inv(k, a, r)'
<1>ty. Typed /\ bug = FALSE
  BY Parts
<1>rt. proc \in [Procs -> Prc]
  BY Parts
<1>ps. ProcStates(ProcSts, DeadProcs, ProcTodos, ProcRefs, LiveNodes, AsyncTodos, pc, sfr)
  BY Parts
<1>pc. ProcCounts(Dead, ThreadRefs, ProcSts, ProcRefs, pc, loc)
  BY Parts
<1>ow. Oneways(buf, DeadProcs, LiveNodes, AsyncNodes, AsyncTodos, pc, loc)
  BY Parts
<1>1. /\ proc[p].st = "todo" /\ sfr[p] = NoTxn /\ proc[p].todo = <<>>
      /\ proc' = [proc EXCEPT ![p].st = "released", ![p].tmp_ref = @ - 1]
      /\ UNCHANGED <<txn, buf, thr, node, pc, loc, sfr, bug>>
  BY DEF ProcReleaseEnd
<1>2. proc[p] \in Prc /\ proc[p].tmp_ref \in Int
  BY <1>rt DEF Prc
<1>n. PICK n \in Int : n = proc[p].tmp_ref - 1
  BY <1>2
<1>. DEFINE x == [[proc[p] EXCEPT !.st = "released"] EXCEPT !.tmp_ref = n]
<1>3. /\ x \in Prc /\ x.st = "released" /\ x.todo = proc[p].todo
      /\ x.is_dead = proc[p].is_dead /\ x.tmp_ref = n
  BY <1>2 DEF Prc
<1>4. proc' = [proc EXCEPT ![p] = x]
  BY <1>1, <1>rt, <1>2, <1>n DEF Prc
<1>. HIDE DEF x
<1>5. /\ proc' \in [Procs -> Prc] /\ ProcTodos' = ProcTodos /\ DeadProcs' = DeadProcs
      /\ ProcSts'[p] = "released" /\ ProcRefs'[p] = n
      /\ \A q \in Procs : q # p => ProcSts'[q] = ProcSts[q] /\ ProcRefs'[q] = ProcRefs[q]
  <2>1. Typed /\ x \in Prc /\ proc' = [proc EXCEPT ![p] = x] /\ p \in Procs
    BY <1>3, <1>4, <1>ty
  <2>2. /\ proc' \in [Procs -> Prc] /\ ProcSts'[p] = x.st /\ ProcRefs'[p] = x.tmp_ref
        /\ \A q \in Procs : q # p => ProcSts'[q] = ProcSts[q] /\ ProcRefs'[q] = ProcRefs[q]
    <3>1. /\ proc' \in [Procs -> Prc] /\ proc'[p] = x
          /\ \A q \in Procs : q # p => proc'[q] = proc[q]
      BY <2>1 DEF Typed
    <3>. QED BY <3>1 DEF ProcSts, ProcRefs
  <2>3. x.todo = proc[p].todo => ProcTodos' = ProcTodos
    BY <2>1, ProcChange
  <2>4. x.is_dead = proc[p].is_dead => DeadProcs' = DeadProcs
    BY <2>1, ProcChange
  <2>. QED BY <2>2, <2>3, <2>4, <1>3
<1>6. /\ ProcSts[p] = "todo" /\ ProcRefs[p] = proc[p].tmp_ref /\ ProcTodos[p] = <<>>
  BY <1>1, <1>ty, ProcViews
<1>7. Typed'
  BY <1>1, <1>5, <1>ty DEF Typed
<1>8. ProcStates(ProcSts', DeadProcs, ProcTodos, ProcRefs', LiveNodes, AsyncTodos, pc, sfr)
  <2>1. ASSUME NEW q \in Procs
        PROVE  ProcOK(ProcSts', DeadProcs, ProcTodos, ProcRefs', LiveNodes, AsyncTodos, pc, sfr, q)
    <3>1. ProcOK(ProcSts, DeadProcs, ProcTodos, ProcRefs, LiveNodes, AsyncTodos, pc, sfr, q)
      BY <1>ps DEF ProcStates
    <3>2. CASE q = p
      BY <3>1, <3>2, <1>1, <1>5, <1>6 DEF ProcOK
    <3>3. CASE q # p
      BY <3>1, <3>3, <1>5 DEF ProcOK
    <3>. QED BY <3>2, <3>3
  <2>. QED BY <2>1 DEF ProcStates
<1>9. ProcCounts(Dead, ThreadRefs, ProcSts', ProcRefs', pc, loc)
  <2>1. ASSUME NEW q \in Procs
        PROVE  ProcRefs'[q] = Cardinality(ProcHolders(pc, loc, q))
                 + Cardinality(Unfreed(Dead, ThreadRefs, q))
                 + One(ProcSts'[q] \in {"threads", "todo"})
    <3>1. ProcRefs[q] = Cardinality(ProcHolders(pc, loc, q))
                 + Cardinality(Unfreed(Dead, ThreadRefs, q))
                 + One(ProcSts[q] \in {"threads", "todo"})
      BY <1>pc DEF ProcCounts
    <3>2. /\ Cardinality(ProcHolders(pc, loc, q)) \in Nat
          /\ Cardinality(Unfreed(Dead, ThreadRefs, q)) \in Nat
      BY HoldersFinite
    <3>. QED BY <3>1, <3>2, <1>n, <1>5, <1>6 DEF One
  <2>. QED BY <2>1 DEF ProcCounts
<1>11. UNCHANGED <<Stacks, Todos, Flagged, ReturnErrors, ReplyErrors, Waiting, Dead,
                   ThreadRefs, LiveNodes, AsyncNodes, AsyncTodos>>
  BY <1>1, SameAll
<1>. QED BY <1>1, <1>5, <1>7, <1>8, <1>9, <1>11, <1>ow, Parts, Whole

\* binder_free_proc.
LEMMA FreeProcStep ==
  ASSUME NEW k, NEW a, NEW r, Inv(k, a, r), NEW p \in Procs, FreeProc(p)
  PROVE  Inv(k, a, r)'
<1>ty. Typed /\ bug = FALSE
  BY Parts
<1>rt. proc \in [Procs -> Prc]
  BY Parts
<1>bt. buf \in [Txns -> Buf]
  BY Parts
<1>xt. txn \in [Txns -> Txn]
  BY Parts
<1>ps. ProcStates(ProcSts, DeadProcs, ProcTodos, ProcRefs, LiveNodes, AsyncTodos, pc, sfr)
  BY Parts
<1>pc. ProcCounts(Dead, ThreadRefs, ProcSts, ProcRefs, pc, loc)
  BY Parts
<1>ow. Oneways(buf, DeadProcs, LiveNodes, AsyncNodes, AsyncTodos, pc, loc)
  BY Parts
<1>ts. ThreadStates(Dead, Stacks, Todos, Waiting, pc, loc, sfr)
  BY Parts
<1>tl. ThreadLists(Todos, k, a)
  BY Parts
<1>pl. TxnLists(ProcTodos, "proc", k, a)
  BY Parts
<1>al. TxnLists(AsyncTodos, "async", k, a)
  BY Parts
<1>ca. Carried(txn, Dead, pc, loc, k, a)
  BY Parts
<1>fa. Failing(sfr, k, a)
  BY Parts
<1>po. Placed(txn, Dead, k, a)
  BY Parts
<1>bu. Buffers(txn, buf, loc, k, a)
  BY Parts
<1>dr. Drops(txn, buf, pc, loc, sfr)
  BY Parts
<1>gh. Ghosts(k, a, r)
  BY Parts
<1>1. /\ proc[p].is_dead /\ proc[p].st # "freed" /\ proc[p].tmp_ref = 0
      /\ bug' = (bug \/ proc[p].todo # <<>>)
      /\ proc' = [proc EXCEPT ![p].st = "freed"]
      /\ buf' = [t \in Txns |-> IF buf[t].owner = p THEN NoBuf ELSE buf[t]]
      /\ UNCHANGED <<txn, thr, node, pc, loc, sfr>>
  BY DEF FreeProc
<1>. DEFINE x == [proc[p] EXCEPT !.st = "freed"]
<1>2. proc[p] \in Prc
  BY <1>rt
<1>3. /\ x \in Prc /\ x.st = "freed" /\ x.todo = proc[p].todo
      /\ x.is_dead = proc[p].is_dead /\ x.tmp_ref = proc[p].tmp_ref
  BY <1>2 DEF Prc
<1>4. proc' = [proc EXCEPT ![p] = x]
  BY <1>1, <1>rt
<1>. HIDE DEF x
<1>5. /\ proc' \in [Procs -> Prc] /\ ProcTodos' = ProcTodos /\ DeadProcs' = DeadProcs
      /\ ProcRefs' = ProcRefs /\ ProcSts'[p] = "freed"
      /\ \A q \in Procs : q # p => ProcSts'[q] = ProcSts[q]
  BY <1>3, <1>4, <1>ty, ProcChange, ZenonT(90)
<1>6. /\ ProcSts[p] = proc[p].st /\ ProcRefs[p] = 0 /\ ProcTodos[p] = proc[p].todo
      /\ p \in DeadProcs
  BY <1>1, <1>ty, ProcViews
<1>7. /\ \A th \in Threads : Holding(pc, th) => loc[th].target_proc # p
      /\ ProcSts[p] = "released"
  <2>1. ProcOK(ProcSts, DeadProcs, ProcTodos, ProcRefs, LiveNodes, AsyncTodos, pc, sfr, p)
    BY <1>ps DEF ProcStates
  <2>2. /\ \A th \in Threads : Holding(pc, th) => loc[th].target_proc # p
        /\ ProcSts[p] \notin {"threads", "todo"}
    BY <1>6, <1>pc, ProcNotHeld
  <2>3. ProcSts[p] \in {"open", "threads", "todo", "released", "freed"}
    BY <1>2, <1>6 DEF Prc
  <2>. QED BY <2>1, <2>2, <2>3, <1>1, <1>6 DEF ProcOK
<1>8. /\ ProcTodos[p] = <<>> /\ AsyncTodos[p] = <<>> /\ p \notin LiveNodes /\ sfr[p] = NoTxn
      /\ \A th \in Threads : ProcOf[th] = p => pc[th] = "gone"
  <2>1. ProcOK(ProcSts, DeadProcs, ProcTodos, ProcRefs, LiveNodes, AsyncTodos, pc, sfr, p)
    BY <1>ps DEF ProcStates
  <2>. QED BY <2>1, <1>7 DEF ProcOK
<1>9. ASSUME NEW t \in Txns, k[t] # "none" PROVE txn[t].to_proc # p
  <2>1. PlaceOK(txn, Dead, k, a, t) /\ p # NoProc
    BY <1>po, NullAssumption DEF Placed
  <2>2. \A th \in Threads : ProcOf[th] = p =>
          th \in Dead /\ Todos[th] = <<>> /\ sfr[th] = NoTxn
    <3>1. ASSUME NEW th \in Threads, ProcOf[th] = p
          PROVE  th \in Dead /\ Todos[th] = <<>> /\ sfr[th] = NoTxn
      <4>1. ThreadOK(Dead, Stacks, Todos, Waiting, pc, loc, sfr, th) /\ pc[th] = "gone"
        BY <3>1, <1>8, <1>ts DEF ThreadStates
      <4>. QED BY <4>1 DEF ThreadOK
    <3>. QED BY <3>1
  <2>3. CASE k[t] = "thread"
    <3>1. a[t] \in Threads /\ ProcOf[a[t]] = txn[t].to_proc
      BY <2>1, <2>3 DEF PlaceOK
    <3>2. TxnItem(t) \in ToSet(Todos[a[t]])
      BY <3>1, <2>3, <1>tl DEF ThreadLists, ListOK
    <3>. QED BY <3>1, <3>2, <2>2, SeqSmall
  <2>4. CASE k[t] = "proc"
    <3>1. a[t] \in Procs /\ a[t] = txn[t].to_proc
      BY <2>1, <2>4 DEF PlaceOK
    <3>2. t \in ToSet(ProcTodos[a[t]])
      BY <3>1, <2>4, <1>pl DEF TxnLists, TxnListOK
    <3>. QED BY <3>1, <3>2, <1>8, SeqSmall
  <2>5. CASE k[t] = "async"
    <3>1. a[t] \in Procs /\ a[t] = txn[t].to_proc
      BY <2>1, <2>5 DEF PlaceOK
    <3>2. t \in ToSet(AsyncTodos[a[t]])
      BY <3>1, <2>5, <1>al DEF TxnLists, TxnListOK
    <3>. QED BY <3>1, <3>2, <1>8, SeqSmall
  <2>6. CASE k[t] = "carried"
    <3>1. a[t] \in Threads /\ pc[a[t]] \in {"send", "reply"}
          /\ t \in {loc[a[t]].t, loc[a[t]].in_reply_to}
      BY <2>6, <1>ca DEF Carried, CarrierOK
    <3>2. CarryOK(txn, Dead, pc, loc, k, a, a[t]) /\ loc[a[t]].target_proc # p
          /\ ProcOf[a[t]] # p
      BY <3>1, <1>ca, <1>7, <1>8 DEF Carried, Holding
    <3>3. CASE pc[a[t]] = "send"
      <4>1. SendCarry(txn, loc[a[t]], a[t], k, a)
        BY <3>2, <3>3 DEF CarryOK
      <4>. QED BY <4>1, <3>1, <3>2, TxnNumbers DEF SendCarry
    <3>4. CASE pc[a[t]] = "reply"
      <4>1. ReplyCarry(txn, Dead, loc[a[t]], a[t], k, a)
        BY <3>2, <3>4 DEF CarryOK
      <4>. QED BY <4>1, <3>1, <3>2 DEF ReplyCarry
    <3>. QED BY <3>1, <3>3, <3>4
  <2>7. CASE k[t] = "failing"
    <3>1. a[t] \in Threads \cup Procs /\ sfr[a[t]] = t
      BY <2>7, <1>fa DEF Failing
    <3>. QED BY <3>1, <2>1, <2>2, <2>7, <1>8, TxnNumbers DEF PlaceOK
  <2>8. CASE k[t] = "served"
    BY <2>1, <2>2, <2>8 DEF PlaceOK
  <2>9. CASE k[t] = "orphan"
    BY <2>1, <2>9 DEF PlaceOK
  <2>10. k[t] \in Kinds
    BY <1>gh DEF Ghosts
  <2>. QED BY <2>3, <2>4, <2>5, <2>6, <2>7, <2>8, <2>9, <2>10, <1>9 DEF Kinds
<1>10. /\ buf' \in [Txns -> Buf]
       /\ \A t \in Txns : buf'[t] = IF buf[t].owner = p THEN NoBuf ELSE buf[t]
       /\ NoBuf.st = "none" /\ NoBuf.async = FALSE /\ NoBuf.transaction = FALSE
  BY <1>1, <1>bt DEF NoBuf, Buf
<1>11. Typed'
  BY <1>1, <1>5, <1>10, <1>ty DEF Typed
<1>12. Buffers(txn, buf', loc, k, a)
  <2>1. ASSUME NEW t \in Txns PROVE BufferOK(txn, buf', loc, k, a, t)
    <3>1. BufferOK(txn, buf, loc, k, a, t) /\ PlaceOK(txn, Dead, k, a, t)
      BY <1>bu, <1>po DEF Buffers, Placed
    <3>2. CASE buf[t].owner # p
      BY <3>1, <3>2, <1>10, BufferKeep
    <3>3. CASE buf[t].owner = p
      <4>1. buf'[t] = NoBuf
        BY <3>3, <1>10
      <4>2. ~txn[t].buffer
        <5>1. k[t] = "none" => ~txn[t].buffer
          BY <3>1 DEF BufferOK, BufOK, PlaceOK
        <5>2. txn[t].buffer => txn[t].to_proc = p
          BY <3>1, <3>3 DEF BufferOK, BufOK
        <5>. QED BY <5>1, <5>2, <1>9
      <4>3. /\ k[t] \notin {"thread", "proc", "async"}
            /\ ~(k[t] = "carried" /\ t = loc[a[t]].t)
        BY <4>2, <3>1 DEF BufferOK, Fresh
      <4>4. BufOK(txn[t], buf'[t])
        BY <4>1, <4>2, <3>1, <1>10 DEF BufferOK, BufOK
      <4>. QED BY <4>3, <4>4 DEF BufferOK
    <3>. QED BY <3>2, <3>3
  <2>. QED BY <2>1 DEF Buffers
<1>13. Drops(txn, buf', pc, loc, sfr)
  <2>1. ASSUME NEW th \in Threads, pc[th] = "dropbuf" PROVE DropOK(txn, buf', pc, loc, sfr, th)
    <3>1. DropOK(txn, buf, pc, loc, sfr, th) /\ ProcOf[th] # p
      BY <2>1, <1>dr, <1>8 DEF Drops
    <3>2. buf'[loc[th].t] = buf[loc[th].t]
      BY <3>1, <1>10 DEF DropOK
    <3>. QED BY <3>1, <3>2, DropKeep
  <2>. QED BY <2>1 DEF Drops
<1>14. Oneways(buf', DeadProcs, LiveNodes, AsyncNodes, AsyncTodos, pc, loc)
  <2>1. ASSUME NEW q \in LiveNodes PROVE OnewayOK(buf', DeadProcs, AsyncNodes, AsyncTodos, pc, loc, q)
    <3>1. OnewayOK(buf, DeadProcs, AsyncNodes, AsyncTodos, pc, loc, q) /\ q # p
      BY <1>ow, <1>8 DEF Oneways
    <3>2. Active(buf', AsyncTodos, pc, loc, q) = Active(buf, AsyncTodos, pc, loc, q)
      <4>1. ASSUME NEW t \in Txns
            PROVE  buf'[t].st # "none" /\ buf'[t].async /\ buf'[t].node = q <=>
                   buf[t].st # "none" /\ buf[t].async /\ buf[t].node = q
        <5>1. buf[t].async => buf[t].node = buf[t].owner
          BY <1>bu DEF Buffers, BufferOK, BufOK
        <5>. QED BY <5>1, <3>1, <1>10
      <4>. QED BY <4>1 DEF Active
    <3>. QED BY <3>1, <3>2 DEF OnewayOK
  <2>. QED BY <2>1 DEF Oneways
<1>15. ProcStates(ProcSts', DeadProcs, ProcTodos, ProcRefs, LiveNodes, AsyncTodos, pc, sfr)
  <2>1. ASSUME NEW q \in Procs
        PROVE  ProcOK(ProcSts', DeadProcs, ProcTodos, ProcRefs, LiveNodes, AsyncTodos, pc, sfr, q)
    <3>1. ProcOK(ProcSts, DeadProcs, ProcTodos, ProcRefs, LiveNodes, AsyncTodos, pc, sfr, q)
      BY <1>ps DEF ProcStates
    <3>2. CASE q = p
      BY <3>1, <3>2, <1>5, <1>6, <1>7 DEF ProcOK
    <3>3. CASE q # p
      BY <3>1, <3>3, <1>5 DEF ProcOK
    <3>. QED BY <3>2, <3>3
  <2>. QED BY <2>1 DEF ProcStates
<1>16. ProcCounts(Dead, ThreadRefs, ProcSts', ProcRefs, pc, loc)
  <2>1. \A q \in Procs : One(ProcSts'[q] \in {"threads", "todo"})
                         = One(ProcSts[q] \in {"threads", "todo"})
    BY <1>5, <1>7 DEF One
  <2>. QED BY <2>1, <1>pc DEF ProcCounts
<1>17. bug' = FALSE
  BY <1>1, <1>6, <1>8, <1>ty
<1>18. UNCHANGED <<Stacks, Todos, Flagged, ReturnErrors, ReplyErrors, Waiting, Dead,
                   ThreadRefs, LiveNodes, AsyncNodes, AsyncTodos>>
  BY <1>1, SameAll
<1>. QED BY <1>1, <1>5, <1>11, <1>12, <1>13, <1>14, <1>15, <1>16, <1>17, <1>18, Parts, Whole
-----------------------------------------------------------------------------
(* Some transactions move and the others stay.                             *)

SameTxn(X, X2, s) ==
  /\ X2[s].kind = X[s].kind /\ X2[s].from = X[s].from
  /\ X2[s].from_parent = X[s].from_parent /\ X2[s].to_parent = X[s].to_parent
  /\ X2[s].to_proc = X[s].to_proc /\ X2[s].to_thread = X[s].to_thread
Stay(X, X2, k, a, k2, a2, M) ==
  \A s \in Txns : s \notin M => SameTxn(X, X2, s) /\ k2[s] = k[s] /\ a2[s] = a[s]
Leaves(X, M) == \A m \in M : m \in Txns /\ NoChild(X, m)

\* The fields of a transaction that stays.
LEMMA StayFacts ==
  ASSUME NEW X, NEW X2, NEW k, NEW a, NEW k2, NEW a2, NEW M, Stay(X, X2, k, a, k2, a2, M),
         NEW s \in Txns, s \notin M
  PROVE  /\ X2[s].kind = X[s].kind /\ X2[s].from = X[s].from
         /\ X2[s].from_parent = X[s].from_parent /\ X2[s].to_parent = X[s].to_parent
         /\ X2[s].to_proc = X[s].to_proc /\ X2[s].to_thread = X[s].to_thread
         /\ k2[s] = k[s] /\ a2[s] = a[s]
         /\ Sync(X2, s) <=> Sync(X, s)
BY DEF Stay, SameTxn, Sync

\* What threads carry after a step that frees or moves some transactions.
LEMMA CarriedStep ==
  ASSUME NEW X, NEW D, NEW PC, NEW LC, NEW k, NEW a, Carried(X, D, PC, LC, k, a),
         NEW X2, NEW PC2, NEW LC2, NEW k2, NEW a2, NEW M, Stay(X, X2, k, a, k2, a2, M),
         NEW th, OnlyMoves(PC, LC, PC2, LC2, th),
         \A s \in Txns : k[s] = "carried" => (s \in M <=> a[s] = th),
         th \in Threads => CarryOK(X2, D, PC2, LC2, k2, a2, th),
         \A s \in Txns : s \in M => CarrierOK(PC2, LC2, k2, a2, s)
  PROVE  Carried(X2, D, PC2, LC2, k2, a2)
<1>1. ASSUME NEW u \in Threads PROVE CarryOK(X2, D, PC2, LC2, k2, a2, u)
  <2>1. CASE u = th
    BY <2>1
  <2>2. CASE u # th
    <3>1. CarryOK(X, D, PC, LC, k, a, u) /\ PC2[u] = PC[u] /\ LC2[u] = LC[u]
      BY <2>2 DEF Carried, OnlyMoves
    <3>2. \A s \in Txns : k[s] = "carried" /\ a[s] = u =>
           /\ k2[s] = k[s] /\ a2[s] = a[s]
           /\ X2[s].kind = X[s].kind /\ X2[s].to_proc = X[s].to_proc
           /\ X2[s].to_thread = X[s].to_thread /\ X2[s].from = X[s].from
      BY <2>2, StayFacts
    <3>. QED BY <3>1, <3>2, CarryKeep
  <2>. QED BY <2>1, <2>2
<1>2. ASSUME NEW s \in Txns PROVE CarrierOK(PC2, LC2, k2, a2, s)
  <2>1. CASE s \in M
    BY <2>1
  <2>2. CASE s \notin M
    <3>1. CarrierOK(PC, LC, k, a, s) /\ k2[s] = k[s] /\ a2[s] = a[s]
      BY <2>2, StayFacts DEF Carried
    <3>2. k[s] = "carried" => a[s] # th /\ a[s] \in Threads
      BY <2>2, <3>1 DEF CarrierOK
    <3>3. k[s] = "carried" => PC2[a[s]] = PC[a[s]] /\ LC2[a[s]] = LC[a[s]]
      BY <3>2 DEF OnlyMoves
    <3>. QED BY <3>1, <3>3, CarrierKeep
  <2>. QED BY <2>1, <2>2
<1>. QED BY <1>1, <1>2 DEF Carried

\* Where transactions are after it.
LEMMA PlacedStep ==
  ASSUME NEW X, NEW D, NEW k, NEW a, Placed(X, D, k, a),
         NEW X2, NEW k2, NEW a2, NEW M, Stay(X, X2, k, a, k2, a2, M),
         \A s \in Txns : k[s] = "orphan" /\ s \notin M /\ a[s] \in M =>
           /\ X2[a[s]].kind = X[a[s]].kind /\ X2[a[s]].from = X[a[s]].from
           /\ X2[a[s]].from_parent = X[a[s]].from_parent,
         \A s \in Txns : s \in M => PlaceOK(X2, D, k2, a2, s)
  PROVE  Placed(X2, D, k2, a2)
<1>1. ASSUME NEW s \in Txns PROVE PlaceOK(X2, D, k2, a2, s)
  <2>1. CASE s \in M
    BY <2>1
  <2>2. CASE s \notin M
    <3>1. PlaceOK(X, D, k, a, s)
      BY DEF Placed
    <3>2. /\ k2[s] = k[s] /\ a2[s] = a[s] /\ X2[s].kind = X[s].kind
          /\ X2[s].to_proc = X[s].to_proc /\ X2[s].to_thread = X[s].to_thread
      BY <2>2, StayFacts
    <3>3. k[s] = "orphan" /\ a[s] \in Txns =>
           /\ X2[a[s]].kind = X[a[s]].kind /\ X2[a[s]].from = X[a[s]].from
           /\ X2[a[s]].from_parent = X[a[s]].from_parent
      BY <2>2, StayFacts
    <3>. QED BY <3>1, <3>2, <3>3, PlaceKeep
  <2>. QED BY <2>1, <2>2
<1>. QED BY <1>1 DEF Placed

\* No call that stays is on its way to the thread in particular.
Quiet(X, PC, LC, k, a, M, u) ==
  /\ \A s \in Txns : s \notin M /\ k[s] = "thread" /\ Sync(X, s) => a[s] # u
  /\ \A v \in Threads : PC[v] = "send" /\ LC[v].t \notin M /\ Sync(X, LC[v].t) =>
                        LC[v].target_thread # u
Calm(X, PC, LC, k, a, M, K, K2) ==
  \A u \in Threads : K2[u] = K[u] \/ Quiet(X, PC, LC, k, a, M, u)

\* Where queued calls are directed after it.
LEMMA DirectedStep ==
  ASSUME NEW X \in [Txns -> Txn], NEW D, NEW K \in [Threads -> 0 .. MaxTxns], NEW L, NEW PC, NEW LC,
         NEW k, NEW a, NEW r, Directed(X, D, K, L, PC, LC, k, a, r),
         Tree(X, D, k, a, r), Placed(X, D, k, a), Carried(X, D, PC, LC, k, a),
         NEW X2, NEW K2, NEW L2, NEW PC2, NEW LC2, NEW k2, NEW a2, NEW r2, NEW M,
         Stay(X, X2, k, a, k2, a2, M), Leaves(X, M),
         \A s \in Txns : s \notin M => r2[s] = r[s],
         \A s \in Txns : s \in M => QueuedOK(X2, D, K2, L2, k2, a2, r2, s),
         Calm(X, PC, LC, k, a, M, K, K2),
         \A s \in Txns : s \notin M /\ k[s] = "thread" /\ Head(L[a[s]]) = TxnItem(s) =>
           Head(L2[a[s]]) = TxnItem(s),
         \A u \in Threads : PC2[u] = "send" =>
           \/ PC[u] = "send" /\ LC2[u] = LC[u] /\ LC[u].t \notin M
           \/ SentOK(X2, D, K2, LC2, r2, u)
  PROVE  Directed(X2, D, K2, L2, PC2, LC2, k2, a2, r2)
<1>1. ASSUME NEW u \in Threads, NEW s \in Txns, Sync(X, s), Back(X, K, r, u, s)
      PROVE  X2[K[u]].from = X[K[u]].from /\ r2[K[u]] = r[K[u]]
  <2>1. K[u] \in Txns /\ ~NoChild(X, K[u])
    BY <1>1, BackNotEnd
  <2>2. K[u] \notin M
    BY <2>1 DEF Leaves
  <2>. QED BY <2>1, <2>2, StayFacts
<1>2. ASSUME NEW s \in Txns PROVE QueuedOK(X2, D, K2, L2, k2, a2, r2, s)
  <2>1. CASE s \in M
    BY <2>1
  <2>2. CASE s \notin M
    <3>1. QueuedOK(X, D, K, L, k, a, r, s) /\ (k[s] = "thread" => a[s] \in Threads)
      BY DEF Directed, Placed, PlaceOK
    <3>2. /\ k2[s] = k[s] /\ a2[s] = a[s] /\ X2[s].kind = X[s].kind
          /\ X2[s].to_thread = X[s].to_thread /\ r2[s] = r[s]
      BY <2>2, StayFacts
    <3>3. k[s] = "thread" /\ Sync(X, s) => K2[a[s]] = K[a[s]]
      BY <2>2, <3>1 DEF Calm, Quiet
    <3>4. k[s] = "thread" /\ Sync(X, s) /\ Back(X, K, r, a[s], s) =>
            X2[K[a[s]]].from = X[K[a[s]]].from /\ r2[K[a[s]]] = r[K[a[s]]]
      BY <3>1, <1>1
    <3>5. k[s] = "thread" /\ Head(L[a[s]]) = TxnItem(s) => Head(L2[a[s]]) = TxnItem(s)
      BY <2>2
    <3>. QED BY <3>1, <3>2, <3>3, <3>4, <3>5, QueuedKeep
  <2>. QED BY <2>1, <2>2
<1>3. ASSUME NEW u \in Threads, PC2[u] = "send" PROVE SentOK(X2, D, K2, LC2, r2, u)
  <2>1. CASE PC[u] = "send" /\ LC2[u] = LC[u] /\ LC[u].t \notin M
    <3>1. SentOK(X, D, K, LC, r, u) /\ SendCarry(X, LC[u], u, k, a)
      BY <2>1 DEF Directed, Carried, CarryOK
    <3>2. PICK s \in Txns : s = LC[u].t
      BY <3>1 DEF SendCarry
    <3>3. X2[s].kind = X[s].kind /\ r2[s] = r[s] /\ s \notin M
      BY <2>1, <3>2, StayFacts
    <3>4. PICK v \in Threads \cup {NoThread} : v = LC[u].target_thread
      BY <3>1, <3>2, TxnFields DEF SendCarry
    <3>5. Sync(X, s) /\ v # NoThread => K2[v] = K[v]
      BY <2>1, <3>2, <3>4 DEF Calm, Quiet
    <3>6. Sync(X, s) /\ v # NoThread /\ Back(X, K, r, v, s) =>
            X2[K[v]].from = X[K[v]].from /\ r2[K[v]] = r[K[v]]
      BY <3>4, <1>1
    <3>. QED BY <2>1, <3>1, <3>2, <3>3, <3>4, <3>5, <3>6, SentKeep, SMTT(60)
  <2>. QED BY <2>1, <1>3
<1>. QED BY <1>2, <1>3 DEF Directed

\* A thread whose last call ends its chain is quiet.
LEMMA EndQuiet ==
  ASSUME NEW X \in [Txns -> Txn], NEW D, NEW K \in [Threads -> 0 .. MaxTxns], NEW L, NEW PC, NEW LC,
         NEW k, NEW a, NEW r, Directed(X, D, K, L, PC, LC, k, a, r),
         Tree(X, D, k, a, r), Carried(X, D, PC, LC, k, a), NEW M,
         NEW u \in Threads, u \notin D, K[u] # NoTxn, NoChild(X, K[u])
  PROVE  Quiet(X, PC, LC, k, a, M, u)
<1>1. ASSUME NEW s \in Txns, k[s] = "thread", Sync(X, s) PROVE a[s] # u
  <2>1. QueuedOK(X, D, K, L, k, a, r, s)
    BY DEF Directed
  <2>2. ~Back(X, K, r, u, s)
    BY <1>1, BackNotEnd
  <2>. QED BY <2>1, <2>2, <1>1 DEF QueuedOK
<1>2. ASSUME NEW v \in Threads, PC[v] = "send", Sync(X, LC[v].t) PROVE LC[v].target_thread # u
  <2>1. SentOK(X, D, K, LC, r, v) /\ SendCarry(X, LC[v], v, k, a)
    BY <1>2 DEF Directed, Carried, CarryOK
  <2>2. LC[v].t \in Txns /\ u # NoThread
    BY <2>1, NullAssumption DEF SendCarry
  <2>3. ~Back(X, K, r, u, LC[v].t)
    BY <2>2, <1>2, BackNotEnd
  <2>. QED BY <2>1, <2>2, <2>3, <1>2 DEF SentOK
<1>. QED BY <1>1, <1>2 DEF Quiet

\* A transaction that stays is on a stack as it was.
LEMMA StayAlike ==
  ASSUME NEW X, NEW X2, NEW k, NEW a, NEW k2, NEW a2, NEW M, Stay(X, X2, k, a, k2, a2, M),
         NEW u, NEW s \in Txns, s \notin M
  PROVE  Alike(X, X2, k, a, k2, a2, u, s)
BY StayFacts DEF Alike, Mine, Below

\* A transaction that has no nested call ends, or leaves the thread that
\* served it: it was on top of the stacks it is no longer on.
LEMMA StacksEnd ==
  ASSUME NEW X \in [Txns -> Txn], NEW D, NEW K \in [Threads -> 0 .. MaxTxns], NEW k, NEW a, NEW r,
         Tree(X, D, k, a, r), AllStacks(X, D, K, k, a, r), NEW t \in Txns, NoChild(X, t),
         NEW X2, NEW k2, NEW a2, NEW K2, NEW M, Stay(X, X2, k, a, k2, a2, M),
         \A s \in Txns : s \in M /\ s # t => \A u \in Threads : Alike(X, X2, k, a, k2, a2, u, s),
         \A u \in Threads : u \notin D => \/ Alike(X, X2, k, a, k2, a2, u, t) /\ K2[u] = K[u]
                                          \/ /\ ~Mine(X2, k2, a2, u, t)
                                             /\ K2[u] = IF K[u] = t THEN Below(X, u, t) ELSE K[u]
  PROVE  AllStacks(X2, D, K2, k2, a2, r)
<1>1. ASSUME NEW u \in Threads, u \notin D PROVE StackOK(X2, K2, k2, a2, r, u)
  <2>1. StackOK(X, K, k, a, r, u) /\ K[u] \in 0 .. MaxTxns
    BY <1>1 DEF AllStacks
  <2>2. \A s \in Txns : s # t => Alike(X, X2, k, a, k2, a2, u, s)
    BY StayAlike
  <2>3. CASE Alike(X, X2, k, a, k2, a2, u, t) /\ K2[u] = K[u]
    <3>1. \A s \in Txns : Alike(X, X2, k, a, k2, a2, u, s)
      BY <2>2, <2>3
    <3>. QED BY <2>1, <2>3, <3>1, StackKeep
  <2>4. CASE /\ ~Mine(X2, k2, a2, u, t)
             /\ K2[u] = IF K[u] = t THEN Below(X, u, t) ELSE K[u]
    <3>1. CASE K[u] = t
      BY <2>1, <2>2, <2>4, <3>1, StackPop
    <3>2. CASE K[u] # t
      <4>1. ~Mine(X, k, a, u, t)
        BY <2>1, <3>2, EndOnTop
      <4>2. Alike(X, X2, k, a, k2, a2, u, t)
        BY <4>1, <2>4 DEF Alike
      <4>3. \A s \in Txns : Alike(X, X2, k, a, k2, a2, u, s)
        BY <2>2, <4>2
      <4>4. K2[u] = K[u]
        BY <2>4, <3>2
      <4>. QED BY <2>1, <4>3, <4>4, StackKeep
    <3>. QED BY <3>1, <3>2
  <2>. QED BY <2>3, <2>4, <1>1
<1>. QED BY <1>1 DEF AllStacks

\* What a call's end looks like from a thread: it is none of the thread's, or
\* it is its own on top of its stack.
LEMMA EndSeen ==
  ASSUME NEW X \in [Txns -> Txn], NEW D, NEW K \in [Threads -> 0 .. MaxTxns], NEW k, NEW a, NEW r,
         Tree(X, D, k, a, r), AllStacks(X, D, K, k, a, r), NEW t \in Txns, NoChild(X, t),
         NEW u \in Threads, u \notin D
  PROVE  K[u] = t <=> Mine(X, k, a, u, t)
<1>1. StackOK(X, K, k, a, r, u) /\ K[u] \in 0 .. MaxTxns
  BY DEF AllStacks
<1>2. Mine(X, k, a, u, t) => K[u] = t
  BY <1>1, EndOnTop
<1>3. K[u] = t => Mine(X, k, a, u, t)
  BY <1>1, TxnNumbers DEF StackOK
<1>. QED BY <1>2, <1>3

\* The caller's side of a call is not the server's.
LEMMA CallerBelow ==
  ASSUME NEW X, NEW D, NEW k, NEW a, NEW r, Tree(X, D, k, a, r),
         NEW t \in Txns, Sync(X, t), NEW u \in Threads
  PROVE  /\ X[t].from = u => X[t].to_thread # u /\ Below(X, u, t) = X[t].from_parent
         /\ X[t].to_thread = u => X[t].from # u /\ Below(X, u, t) = X[t].to_parent
<1>1. CallOK(X, D, r, t) /\ u # NoThread
  BY NullAssumption DEF Tree
<1>2. ~(X[t].from = u /\ X[t].to_thread = u)
  BY <1>1 DEF CallOK
<1>. QED BY <1>2 DEF Below

\* Buffers after it.
LEMMA BuffersStep ==
  ASSUME NEW X, NEW B, NEW D, NEW PC, NEW LC, NEW k, NEW a, Buffers(X, B, LC, k, a),
         Carried(X, D, PC, LC, k, a),
         NEW X2, NEW B2, NEW PC2, NEW LC2, NEW k2, NEW a2, NEW M, Stay(X, X2, k, a, k2, a2, M),
         NEW th, OnlyMoves(PC, LC, PC2, LC2, th),
         \A s \in Txns : k[s] = "carried" => (s \in M <=> a[s] = th),
         \A s \in Txns : s \notin M => X2[s] = X[s] /\ B2[s] = B[s],
         \A s \in Txns : s \in M => BufferOK(X2, B2, LC2, k2, a2, s)
  PROVE  Buffers(X2, B2, LC2, k2, a2)
<1>1. ASSUME NEW s \in Txns PROVE BufferOK(X2, B2, LC2, k2, a2, s)
  <2>1. CASE s \in M
    BY <2>1
  <2>2. CASE s \notin M
    <3>1. BufferOK(X, B, LC, k, a, s) /\ CarrierOK(PC, LC, k, a, s)
          /\ k2[s] = k[s] /\ a2[s] = a[s]
      BY <2>2, StayFacts DEF Buffers, Carried
    <3>2. k[s] = "carried" => LC2[a[s]].t = LC[a[s]].t
      BY <2>2, <3>1 DEF CarrierOK, OnlyMoves
    <3>3. X2[s] = X[s] /\ B2[s] = B[s]
      BY <2>2
    <3>. QED BY <3>1, <3>2, <3>3, BufferKeep
  <2>. QED BY <2>1, <2>2
<1>. QED BY <1>1 DEF Buffers

\* Buffers on their way out after it.
LEMMA DropsStep ==
  ASSUME NEW X, NEW B, NEW PC, NEW LC, NEW SF, Drops(X, B, PC, LC, SF),
         NEW X2, NEW B2, NEW PC2, NEW LC2, NEW SF2, NEW M,
         NEW k, NEW a, NEW k2, NEW a2, Stay(X, X2, k, a, k2, a2, M),
         NEW th, OnlyMoves(PC, LC, PC2, LC2, th),
         \A s \in Txns : s \notin M => B2[s] = B[s],
         \A u \in Threads : u # th /\ PC[u] = "dropbuf" => LC[u].t \notin M /\ SF2[u] = SF[u],
         th \in Threads /\ PC2[th] = "dropbuf" => DropOK(X2, B2, PC2, LC2, SF2, th)
  PROVE  Drops(X2, B2, PC2, LC2, SF2)
<1>1. ASSUME NEW u \in Threads, PC2[u] = "dropbuf" PROVE DropOK(X2, B2, PC2, LC2, SF2, u)
  <2>1. CASE u = th
    BY <1>1, <2>1
  <2>2. CASE u # th
    <3>1. PC[u] = "dropbuf" /\ LC2[u] = LC[u]
      BY <1>1, <2>2 DEF OnlyMoves
    <3>2. DropOK(X, B, PC, LC, SF, u) /\ LC[u].t \notin M /\ SF2[u] = SF[u]
      BY <2>2, <3>1 DEF Drops
    <3>3. LC[u].t \in Txns
      BY <3>2 DEF DropOK
    <3>4. X2[LC[u].t].kind = X[LC[u].t].kind /\ B2[LC[u].t] = B[LC[u].t]
      BY <3>2, <3>3, StayFacts
    <3>5. ASSUME NEW v \in Threads, PC2[v] = "dropbuf", LC2[v].t = LC[u].t, v # u
          PROVE  PC[v] = "dropbuf" /\ LC[v].t = LC[u].t
      <4>1. CASE v # th
        BY <4>1, <3>5 DEF OnlyMoves
      <4>2. CASE v = th
        <5>1. DropOK(X2, B2, PC2, LC2, SF2, th)
          BY <3>5, <4>2
        <5>. QED BY <5>1, <4>2, <3>1, <3>5, <1>1 DEF DropOK
      <4>. QED BY <4>1, <4>2
    <3>. QED BY <3>1, <3>2, <3>4, <3>5, DropKeep
  <2>. QED BY <2>1, <2>2
<1>. QED BY <1>1 DEF Drops

\* A buffer on its way out belongs to no transaction but a failing one.
LEMMA DropFree ==
  ASSUME NEW X, NEW B, NEW LC, NEW D, NEW PC, NEW SF, NEW k, NEW a, Drops(X, B, PC, LC, SF),
         Placed(X, D, k, a), Failing(SF, k, a), Buffers(X, B, LC, k, a), NEW t \in Txns,
         k[t] \notin {"none", "failing"} \/ X[t].kind = "unused",
         NEW u \in Threads, PC[u] = "dropbuf"
  PROVE  LC[u].t # t
<1>1. DropOK(X, B, PC, LC, SF, u) /\ PlaceOK(X, D, k, a, t) /\ BufferOK(X, B, LC, k, a, t)
  BY DEF Drops, Placed, Buffers
<1>2. SF[u] = t => k[t] = "failing" /\ t # NoTxn
  BY TxnNumbers DEF Failing
<1>3. k[t] = "none" <=> X[t].kind \in {"unused", "freed"}
  BY <1>1 DEF PlaceOK
<1>4. X[t].kind = "unused" => B[t].st = "none" /\ k[t] = "none"
  BY <1>1, <1>3 DEF BufferOK, BufOK
<1>5. LC[u].t = t => (X[t].kind = "freed" \/ SF[u] = t) /\ B[t].st = "kernel"
  BY <1>1 DEF DropOK
<1>. QED BY <1>2, <1>3, <1>4, <1>5

\* The views after a step.
LEMMA NextViews ==
  /\ \A u \in Threads :
       /\ Stacks'[u] = thr'[u].stack /\ Todos'[u] = thr'[u].todo
       /\ u \in Flagged' <=> thr'[u].process_todo
       /\ ReturnErrors'[u] = thr'[u].return_error /\ ReplyErrors'[u] = thr'[u].reply_error
       /\ u \in Waiting' <=> thr'[u].waiting
       /\ u \in Dead' <=> thr'[u].is_dead
       /\ ThreadRefs'[u] = thr'[u].tmp_ref
  /\ \A u \in Threads : thr'[u] = thr[u] =>
       /\ Stacks'[u] = Stacks[u] /\ Todos'[u] = Todos[u]
       /\ u \in Flagged' <=> u \in Flagged
       /\ ReturnErrors'[u] = ReturnErrors[u] /\ ReplyErrors'[u] = ReplyErrors[u]
       /\ u \in Waiting' <=> u \in Waiting
       /\ u \in Dead' <=> u \in Dead
       /\ ThreadRefs'[u] = ThreadRefs[u]
BY DEF Stacks, Todos, Flagged, ReturnErrors, ReplyErrors, Waiting, Dead, ThreadRefs

\* The lists do not tell places apart that are not in a list.
LEMMA ListsMove ==
  ASSUME NEW k, NEW a, NEW k2, NEW a2, NEW kind,
         \A s \in Txns : k2[s] = kind \/ k[s] = kind => k2[s] = k[s] /\ a2[s] = a[s]
  PROVE  /\ \A L : ThreadLists(L, k, a) /\ kind = "thread" => ThreadLists(L, k2, a2)
         /\ \A Q : TxnLists(Q, kind, k, a) => TxnLists(Q, kind, k2, a2)
<1>1. \A y : \A s \in Txns : k2[s] = kind /\ a2[s] = y <=> k[s] = kind /\ a[s] = y
  OBVIOUS
<1>2. ASSUME NEW L, ThreadLists(L, k, a), kind = "thread" PROVE ThreadLists(L, k2, a2)
  BY <1>1, <1>2 DEF ThreadLists, ListOK
<1>3. ASSUME NEW Q, TxnLists(Q, kind, k, a) PROVE TxnLists(Q, kind, k2, a2)
  BY <1>1, <1>3 DEF TxnLists, TxnListOK
<1>. QED BY <1>2, <1>3

\* Queued calls when others move.
LEMMA DirectedMove ==
  ASSUME NEW X, NEW D, NEW K, NEW L, NEW PC, NEW LC, NEW k, NEW a, NEW r,
         Directed(X, D, K, L, PC, LC, k, a, r), NEW k2, NEW a2,
         \A s \in Txns : k2[s] = "thread" => k[s] = "thread" /\ a2[s] = a[s]
  PROVE  Directed(X, D, K, L, PC, LC, k2, a2, r)
<1>1. ASSUME NEW s \in Txns PROVE QueuedOK(X, D, K, L, k2, a2, r, s)
  <2>1. QueuedOK(X, D, K, L, k, a, r, s)
    BY DEF Directed
  <2>. QED BY <2>1 DEF QueuedOK
<1>. QED BY <1>1 DEF Directed

\* Names stay in order while none is given out.
LEMMA NamesKeep ==
  ASSUME NEW X, NEW X2, Names(X),
         \A s \in Txns : X2[s].kind = "unused" <=> X[s].kind = "unused"
  PROVE  Names(X2)
BY DEF Names

\* What binder_free_transaction leaves.
LEMMA FreedFields ==
  /\ FreedTxn \in Txn /\ FreedTxn.kind = "freed" /\ FreedTxn.buffer = FALSE
  /\ FreedTxn.from = NoThread /\ FreedTxn.from_parent = NoTxn /\ FreedTxn.to_proc = NoProc
  /\ FreedTxn.to_thread = NoThread /\ FreedTxn.to_parent = NoTxn
BY TxnNumbers DEF FreedTxn, UnusedTxn, Txn

\* The buffers after it: only the back pointer of this one can change.
LEMMA UnlinkedOf ==
  ASSUME NEW B \in [Txns -> Buf], NEW t \in Txns, BufOK(txn[t], B[t])
  PROVE  /\ Unlinked(B, t) \in [Txns -> Buf]
         /\ \A s \in Txns : s # t => Unlinked(B, t)[s] = B[s]
         /\ Unlinked(B, t)[t].st = B[t].st /\ Unlinked(B, t)[t].owner = B[t].owner
         /\ Unlinked(B, t)[t].node = B[t].node /\ Unlinked(B, t)[t].async = B[t].async
         /\ Unlinked(B, t)[t].transaction = FALSE
         /\ BufOK(FreedTxn, Unlinked(B, t)[t])
<1>1. B[t] \in Buf
  OBVIOUS
<1>2. PICK B2 : B2 = Unlinked(B, t)
  OBVIOUS
<1>3. /\ B2 \in [Txns -> Buf] /\ \A s \in Txns : s # t => B2[s] = B[s]
      /\ B2[t].st = B[t].st /\ B2[t].owner = B[t].owner
      /\ B2[t].node = B[t].node /\ B2[t].async = B[t].async
      /\ B2[t].transaction = FALSE
  <2>1. CASE txn[t].to_proc # NoProc /\ txn[t].buffer
    <3>. DEFINE y == [B[t] EXCEPT !.transaction = FALSE]
    <3>1. B2 = [B EXCEPT ![t] = y]
      BY <2>1, <1>2 DEF Unlinked
    <3>2. /\ y \in Buf /\ y.st = B[t].st /\ y.owner = B[t].owner /\ y.node = B[t].node
          /\ y.async = B[t].async /\ y.transaction = FALSE
      BY <1>1 DEF Buf
    <3>. HIDE DEF y
    <3>. QED BY <3>1, <3>2
  <2>2. CASE ~(txn[t].to_proc # NoProc /\ txn[t].buffer)
    <3>1. B2 = B
      BY <2>2, <1>2 DEF Unlinked
    <3>2. ~B[t].transaction /\ B[t].transaction \in BOOLEAN
      BY <2>2, <1>1 DEF BufOK, Buf
    <3>. QED BY <3>1, <3>2
  <2>. QED BY <2>1, <2>2
<1>4. BufOK(FreedTxn, B2[t])
  <2>1. /\ B[t].st = "none" => ~B[t].async
        /\ B[t].async => B[t].node = B[t].owner /\ B[t].owner \in Procs
    BY DEF BufOK
  <2>. QED BY <2>1, <1>3, FreedFields DEF BufOK
<1>. QED BY <1>2, <1>3, <1>4

\* One-way calls do not depend on back pointers.
LEMMA OnewaysKeep ==
  ASSUME NEW B, NEW PD, NEW NL, NEW NA, NEW NQ, NEW PC, NEW LC,
         Oneways(B, PD, NL, NA, NQ, PC, LC), NEW B2,
         \A s \in Txns : /\ B2[s].st # "none" <=> B[s].st # "none"
                         /\ B2[s].async <=> B[s].async
                         /\ B2[s].node = B[s].node
  PROVE  Oneways(B2, PD, NL, NA, NQ, PC, LC)
<1>1. \A p : Active(B2, NQ, PC, LC, p) = Active(B, NQ, PC, LC, p)
  BY DEF Active
<1>. QED BY <1>1 DEF Oneways, OnewayOK

\* The caller of a call that fails: its stack is popped, and it is told unless
\* another error waits for it.
FailedThr(T, f, v) ==
  LET T1 == [T EXCEPT ![f].stack = v]
  IN IF T1[f].reply_error # "OK" THEN T1
     ELSE EnqueueThreadWork([T1 EXCEPT ![f].reply_error = "ERROR"], f, Item("reply_error"))
\* What binder_send_failed_reply does to the caller.
LEMMA FailedOf ==
  ASSUME NEW T \in [Threads -> Thr], NEW f \in Threads, NEW v \in 0 .. MaxTxns
  PROVE  /\ FailedThr(T, f, v) \in [Threads -> Thr] /\ \A u \in Threads : u # f => FailedThr(T, f, v)[u] = T[u]
         /\ FailedThr(T, f, v)[f].stack = v
         /\ FailedThr(T, f, v)[f].return_error = T[f].return_error
         /\ FailedThr(T, f, v)[f].waiting = T[f].waiting
         /\ FailedThr(T, f, v)[f].is_dead = T[f].is_dead
         /\ FailedThr(T, f, v)[f].tmp_ref = T[f].tmp_ref
         /\ T[f].reply_error # "OK" => /\ FailedThr(T, f, v)[f].todo = T[f].todo
                                       /\ FailedThr(T, f, v)[f].process_todo = T[f].process_todo
                                       /\ FailedThr(T, f, v)[f].reply_error = T[f].reply_error
         /\ T[f].reply_error = "OK" => /\ FailedThr(T, f, v)[f].todo = Append(T[f].todo, Item("reply_error"))
                                       /\ FailedThr(T, f, v)[f].process_todo
                                       /\ FailedThr(T, f, v)[f].reply_error = "ERROR"
<1>0. T[f] \in Thr /\ T[f].todo \in Seq(Work) /\ Item("reply_error") \in Work
  <2>1. T[f] \in Thr
    OBVIOUS
  <2>. QED BY <2>1, TxnItems DEF Thr
<1>. DEFINE y == [T[f] EXCEPT !.stack = v]
<1>1. /\ y \in Thr /\ y.stack = v /\ y.todo = T[f].todo /\ y.process_todo = T[f].process_todo
      /\ y.return_error = T[f].return_error /\ y.reply_error = T[f].reply_error
      /\ y.waiting = T[f].waiting /\ y.is_dead = T[f].is_dead /\ y.tmp_ref = T[f].tmp_ref
  BY <1>0 DEF Thr
<1>2. [T EXCEPT ![f].stack = v] = [T EXCEPT ![f] = y]
  OBVIOUS
<1>. HIDE DEF y
<1>3. CASE T[f].reply_error # "OK"
  <2>1. FailedThr(T, f, v) = [T EXCEPT ![f] = y]
    BY <1>1, <1>2, <1>3 DEF FailedThr
  <2>. QED BY <2>1, <1>1, <1>3
<1>4. CASE T[f].reply_error = "OK"
  <2>. DEFINE l == Append(y.todo, Item("reply_error"))
             z == [[[y EXCEPT !.reply_error = "ERROR"] EXCEPT !.todo = l] EXCEPT !.process_todo = TRUE]
  <2>1. l \in Seq(Work)
    BY <1>0, <1>1
  <2>2. FailedThr(T, f, v) = [T EXCEPT ![f] = z]
    <3>1. FailedThr(T, f, v) = EnqueueThreadWork([[T EXCEPT ![f] = y] EXCEPT ![f].reply_error = "ERROR"], f,
                                 Item("reply_error"))
      BY <1>1, <1>2, <1>4 DEF FailedThr
    <3>2. [[T EXCEPT ![f] = y] EXCEPT ![f].reply_error = "ERROR"]
          = [T EXCEPT ![f] = [y EXCEPT !.reply_error = "ERROR"]]
      BY <1>1
    <3>3. [y EXCEPT !.reply_error = "ERROR"].todo = y.todo
      BY <1>1 DEF Thr
    <3>. QED BY <3>1, <3>2, <3>3, <1>1 DEF EnqueueThreadWork, Thr
  <2>. HIDE DEF l
  <2>3. /\ z \in Thr /\ z.stack = v /\ z.todo = l /\ z.process_todo
        /\ z.return_error = T[f].return_error /\ z.reply_error = "ERROR"
        /\ z.waiting = T[f].waiting /\ z.is_dead = T[f].is_dead /\ z.tmp_ref = T[f].tmp_ref
    BY <2>1, <1>1 DEF Thr, Cmds
  <2>. HIDE DEF z
  <2>4. l = Append(T[f].todo, Item("reply_error"))
    BY <1>1 DEF l
  <2>. QED BY <2>2, <2>3, <2>4, <1>4
<1>. QED BY <1>3, <1>4

\* One round of binder_send_failed_reply.
LEMMA SendFailedReplyStep ==
  ASSUME NEW k, NEW a, NEW r, Inv(k, a, r), NEW x \in Threads \cup Procs, SendFailedReply(x)
  PROVE  \E k2, a2 : Inv(k2, a2, r)'
<1>gh. Ghosts(k, a, r)
  BY Parts
<1>ty. Typed /\ bug = FALSE
  BY Parts
<1>kt. Stacks \in [Threads -> 0 .. MaxTxns]
  BY Parts
<1>lt. Todos \in [Threads -> Seq(Work)]
  BY Parts
<1>vt. Stacks \in [Threads -> 0 .. MaxTxns] /\ Todos \in [Threads -> Seq(Work)]
  BY Parts
<1>xt. txn \in [Txns -> Txn]
  BY Parts
<1>bt. buf \in [Txns -> Buf]
  BY Parts
<1>tt. thr \in [Threads -> Thr]
  BY Parts
<1>ct. pc \in [Threads -> PCs] /\ loc \in [Threads -> Loc]
  BY Parts
<1>ft. sfr \in [Threads \cup Procs -> 0 .. MaxTxns]
  BY Parts
<1>nm. Names(txn)
  BY Parts
<1>tl. ThreadLists(Todos, k, a)
  BY Parts
<1>pl. TxnLists(ProcTodos, "proc", k, a)
  BY Parts
<1>al. TxnLists(AsyncTodos, "async", k, a)
  BY Parts
<1>ca. Carried(txn, Dead, pc, loc, k, a)
  BY Parts
<1>fa. Failing(sfr, k, a)
  BY Parts
<1>po. Placed(txn, Dead, k, a)
  BY Parts
<1>tr. Tree(txn, Dead, k, a, r)
  BY Parts
<1>st. AllStacks(txn, Dead, Stacks, k, a, r)
  BY Parts
<1>di. Directed(txn, Dead, Stacks, Todos, pc, loc, k, a, r)
  BY Parts
<1>bu. Buffers(txn, buf, loc, k, a)
  BY Parts
<1>dr. Drops(txn, buf, pc, loc, sfr)
  BY Parts
<1>ts. ThreadStates(Dead, Stacks, Todos, Waiting, pc, loc, sfr)
  BY Parts
<1>ps. ProcStates(ProcSts, DeadProcs, ProcTodos, ProcRefs, LiveNodes, AsyncTodos, pc, sfr)
  BY Parts
<1>tc. ThreadCounts(ThreadRefs, pc, loc)
  BY Parts
<1>pc. ProcCounts(Dead, ThreadRefs, ProcSts, ProcRefs, pc, loc)
  BY Parts
<1>ow. Oneways(buf, DeadProcs, LiveNodes, AsyncNodes, AsyncTodos, pc, loc)
  BY Parts
<1>no. Notices(Dead, Todos, ReturnErrors, ReplyErrors, pc)
  BY Parts
<1>fl. Flags(txn, Dead, Stacks, Todos, Flagged)
  BY Parts
<1>1. PICK t : t = sfr[x]
  OBVIOUS
<1>2. /\ t \in Txns /\ k[t] = "failing" /\ a[t] = x
  <2>1. t # NoTxn /\ t \in 0 .. MaxTxns
    BY <1>1, <1>ft DEF SendFailedReply
  <2>. QED BY <2>1, <1>1, <1>fa, TxnNumbers DEF Failing
<1>3. Sync(txn, t) /\ NoChild(txn, t)
  <2>1. Sync(txn, t)
    BY <1>2, <1>po DEF Placed, PlaceOK
  <2>. QED BY <2>1, <1>2, <1>tr, LeafNoChild
<1>4. PICK f : f = txn[t].from
  OBVIOUS
<1>5. PICK p : p = IF f = NoThread THEN txn[t].from_parent ELSE NoTxn
  OBVIOUS
<1>6. /\ f \in Threads \cup {NoThread} /\ txn[t].from_parent \in 0 .. MaxTxns
      /\ p \in 0 .. MaxTxns
      /\ f # NoThread => f \in Threads /\ f \notin Dead
  <2>1. CallOK(txn, Dead, r, t)
    BY <1>2, <1>tr DEF Tree
  <2>2. /\ f \in Threads \cup {NoThread} /\ txn[t].from_parent \in 0 .. MaxTxns
    BY <1>2, <1>4, <1>xt, TxnFields
  <2>3. p \in 0 .. MaxTxns
    BY <2>2, <1>5, TxnNumbers
  <2>. QED BY <2>1, <2>2, <2>3, <1>3, <1>4 DEF CallOK
<1>7. p # NoTxn => p \in Txns /\ p < t /\ k[p] = "orphan" /\ a[p] = t /\ f = NoThread
  <2>1. NestOK(txn, k, a, r, t)
    BY <1>2, <1>tr DEF Tree
  <2>2. p # NoTxn => p = txn[t].from_parent /\ f = NoThread /\ p \in Txns
    BY <1>5, <1>6, TxnNumbers
  <2>3. p # NoTxn => p < t
    BY <2>1, <2>2, <1>3, <1>4 DEF NestOK
  <2>4. p # NoTxn => k[p] = "orphan" /\ a[p] = t
    BY <2>1, <2>2, <1>3, <1>4 DEF NestOK
  <2>. QED BY <2>2, <2>3, <2>4
<1>8. p # t
  BY <1>2, <1>7, TxnNumbers
<1>9. PICK M : M = {t, p}
  OBVIOUS
<1>. DEFINE k2 == [s \in Txns |-> IF s = t THEN "none" ELSE IF s = p THEN "failing" ELSE k[s]]
           a2 == [s \in Txns |-> IF s = p THEN x ELSE a[s]]
<1>10. /\ k2[t] = "none" /\ a2[t] = a[t]
       /\ p # NoTxn => k2[p] = "failing" /\ a2[p] = x
       /\ \A s \in Txns : s # t /\ s # p => k2[s] = k[s] /\ a2[s] = a[s]
       /\ \A s \in Txns : s \notin M => k2[s] = k[s] /\ a2[s] = a[s]
  BY <1>2, <1>7, <1>8, <1>9
<1>11. Ghosts(k2, a2, r)
  BY <1>gh, <1>6 DEF Ghosts, Kinds
<1>. HIDE DEF k2, a2
<1>12. /\ txn' = [txn EXCEPT ![t] = FreedTxn] /\ buf' = Unlinked(buf, t)
       /\ sfr' = [sfr EXCEPT ![x] = p]
       /\ UNCHANGED <<proc, node, pc, loc>>
  BY <1>1, <1>4, <1>5 DEF SendFailedReply, Without
<1>13. /\ txn' \in [Txns -> Txn] /\ txn'[t] = FreedTxn
       /\ \A s \in Txns : s # t => txn'[s] = txn[s]
  BY <1>12, <1>2, <1>xt, FreedFields
<1>14. /\ buf' \in [Txns -> Buf] /\ \A s \in Txns : s # t => buf'[s] = buf[s]
       /\ buf'[t].st = buf[t].st /\ buf'[t].owner = buf[t].owner
       /\ buf'[t].node = buf[t].node /\ buf'[t].async = buf[t].async
       /\ buf'[t].transaction = FALSE
       /\ BufOK(FreedTxn, buf'[t])
  <2>1. BufOK(txn[t], buf[t])
    BY <1>2, <1>bu DEF Buffers, BufferOK
  <2>. QED BY <2>1, <1>2, <1>12, <1>bt, UnlinkedOf
<1>15. /\ sfr' \in [Threads \cup Procs -> 0 .. MaxTxns] /\ sfr'[x] = p
       /\ \A y \in Threads \cup Procs : y # x => sfr'[y] = sfr[y]
  BY <1>12, <1>6, <1>ft
<1>16. f # NoThread => Stacks[f] = t /\ ~thr[f].waiting /\ ~loc[f].wait_for_proc_work
  <2>1. SUFFICES ASSUME f # NoThread
                 PROVE  Stacks[f] = t /\ ~thr[f].waiting /\ ~loc[f].wait_for_proc_work
    OBVIOUS
  <2>2. Mine(txn, k, a, f, t) /\ f \in Threads /\ f \notin Dead
    BY <2>1, <1>3, <1>4, <1>6 DEF Mine
  <2>3. Stacks[f] = t
    BY <2>2, <1>2, <1>3, <1>xt, <1>kt, <1>tr, <1>st, EndSeen
  <2>4. thr[f].stack # NoTxn
    BY <2>2, <2>3, <1>2, <1>ty, ThreadViews, TxnNumbers
  <2>. QED BY <2>2, <2>3, <2>4, ThreadFacts
<1>17. bug' = FALSE /\ thr' = IF f = NoThread THEN thr ELSE FailedThr(thr, f, txn[t].from_parent)
  <2>1. CASE f = NoThread
    BY <2>1, <1>1, <1>3, <1>4, <1>ty DEF SendFailedReply, Sync
  <2>2. CASE f # NoThread
    <3>1. thr[f].stack = t
      BY <2>2, <1>6, <1>16, <1>ty, ThreadViews
    <3>2. bug' = FALSE
      BY <2>2, <3>1, <1>1, <1>3, <1>4, <1>16, <1>ty DEF SendFailedReply, Sync, PopBug
    <3>3. thr' = FailedThr(thr, f, txn[t].from_parent)
      BY <2>2, <1>1, <1>4 DEF SendFailedReply, PopTransaction, FailedThr
    <3>. QED BY <2>2, <3>2, <3>3
  <2>. QED BY <2>1, <2>2
<1>18. thr' \in [Threads -> Thr] /\ \A u \in Threads : u # f => thr'[u] = thr[u]
  <2>1. CASE f = NoThread
    BY <2>1, <1>17, <1>tt
  <2>2. CASE f # NoThread
    <3>1. thr' = FailedThr(thr, f, txn[t].from_parent)
      BY <2>2, <1>17
    <3>2. f \in Threads /\ txn[t].from_parent \in 0 .. MaxTxns
      BY <2>2, <1>6
    <3>3. PICK v \in 0 .. MaxTxns : v = txn[t].from_parent
      BY <3>2
    <3>4. thr' = FailedThr(thr, f, v)
      BY <3>1, <3>3
    <3>5. /\ FailedThr(thr, f, v) \in [Threads -> Thr]
          /\ \A u \in Threads : u # f => FailedThr(thr, f, v)[u] = thr[u]
      BY <3>2, <1>tt, FailedOf
    <3>. QED BY <3>4, <3>5
  <2>. QED BY <2>1, <2>2
<1>19. ASSUME f # NoThread
       PROVE  /\ thr'[f].stack = txn[t].from_parent /\ thr'[f].return_error = thr[f].return_error
              /\ thr'[f].waiting = thr[f].waiting /\ thr'[f].is_dead = thr[f].is_dead
              /\ thr'[f].tmp_ref = thr[f].tmp_ref
              /\ thr[f].reply_error # "OK" => /\ thr'[f].todo = thr[f].todo
                                              /\ thr'[f].process_todo = thr[f].process_todo
                                              /\ thr'[f].reply_error = thr[f].reply_error
              /\ thr[f].reply_error = "OK" =>
                   /\ thr'[f].todo = Append(thr[f].todo, Item("reply_error"))
                   /\ thr'[f].process_todo
                   /\ thr'[f].reply_error = "ERROR"
  <2>1. thr' = FailedThr(thr, f, txn[t].from_parent)
    BY <1>19, <1>17
  <2>2. f \in Threads /\ txn[t].from_parent \in 0 .. MaxTxns
    BY <1>19, <1>6
  <2>3. PICK v \in 0 .. MaxTxns : v = txn[t].from_parent
    BY <2>2
  <2>4. thr' = FailedThr(thr, f, v)
    BY <2>1, <2>3
  <2>. DEFINE y == FailedThr(thr, f, v)[f]
  <2>5. /\ y.stack = v /\ y.return_error = thr[f].return_error
        /\ y.waiting = thr[f].waiting /\ y.is_dead = thr[f].is_dead
        /\ y.tmp_ref = thr[f].tmp_ref
        /\ thr[f].reply_error # "OK" => /\ y.todo = thr[f].todo
                                        /\ y.process_todo = thr[f].process_todo
                                        /\ y.reply_error = thr[f].reply_error
        /\ thr[f].reply_error = "OK" => /\ y.todo = Append(thr[f].todo, Item("reply_error"))
                                        /\ y.process_todo /\ y.reply_error = "ERROR"
    BY <2>2, <1>tt, FailedOf
  <2>6. thr'[f] = y
    BY <2>4
  <2>. HIDE DEF y
  <2>. QED BY <2>3, <2>5, <2>6
<1>20. UNCHANGED <<ReturnErrors, Waiting, Dead, ThreadRefs>>
  <2>1. \A u \in Threads : /\ thr'[u].return_error = thr[u].return_error
                           /\ thr'[u].waiting = thr[u].waiting
                           /\ thr'[u].is_dead = thr[u].is_dead /\ thr'[u].tmp_ref = thr[u].tmp_ref
    <3>1. ASSUME NEW u \in Threads PROVE /\ thr'[u].return_error = thr[u].return_error
                           /\ thr'[u].waiting = thr[u].waiting
                           /\ thr'[u].is_dead = thr[u].is_dead /\ thr'[u].tmp_ref = thr[u].tmp_ref
      <4>1. CASE u = f
        BY <4>1, <1>19, NullAssumption
      <4>2. CASE u # f
        BY <4>2, <1>18
      <4>. QED BY <4>1, <4>2
    <3>. QED BY <3>1
  <2>. QED BY <2>1, SameThreads
<1>21. UNCHANGED <<ProcSts, ProcTodos, DeadProcs, ProcRefs, LiveNodes, AsyncNodes, AsyncTodos>>
  BY <1>12, SameAll
<1>22. \A u \in Threads : u # f =>
         /\ Stacks'[u] = Stacks[u] /\ Todos'[u] = Todos[u]
         /\ u \in Flagged' <=> u \in Flagged
         /\ ReplyErrors'[u] = ReplyErrors[u]
  BY <1>18, NextViews
<1>23. ASSUME f # NoThread
       PROVE  /\ f \in Threads /\ f \notin Dead /\ Stacks[f] = t
              /\ Stacks'[f] = txn[t].from_parent /\ Todos[f] \in Seq(Work)
              /\ ReplyErrors[f] # "OK" => /\ Todos'[f] = Todos[f]
                                          /\ f \in Flagged' <=> f \in Flagged
                                          /\ ReplyErrors'[f] = ReplyErrors[f]
              /\ ReplyErrors[f] = "OK" => /\ Todos'[f] = Append(Todos[f], Item("reply_error"))
                                          /\ f \in Flagged' /\ ReplyErrors'[f] = "ERROR"
  <2>1. f \in Threads /\ f \notin Dead
    BY <1>23, <1>6
  <2>2. /\ Todos[f] = thr[f].todo /\ (f \in Flagged <=> thr[f].process_todo)
        /\ ReplyErrors[f] = thr[f].reply_error /\ Todos[f] \in Seq(Work)
    BY <2>1, <1>ty, ThreadViews
  <2>3. /\ Todos'[f] = thr'[f].todo /\ (f \in Flagged' <=> thr'[f].process_todo)
        /\ ReplyErrors'[f] = thr'[f].reply_error /\ Stacks'[f] = thr'[f].stack
    BY <2>1, NextViews
  <2>4. Stacks[f] = t
    BY <1>16, <1>23
  <2>5. Stacks'[f] = txn[t].from_parent
    BY <2>3, <1>19, <1>23
  <2>8. /\ thr[f].reply_error # "OK" => /\ thr'[f].todo = thr[f].todo
                                        /\ thr'[f].process_todo = thr[f].process_todo
                                        /\ thr'[f].reply_error = thr[f].reply_error
        /\ thr[f].reply_error = "OK" =>
             /\ thr'[f].todo = Append(thr[f].todo, Item("reply_error"))
             /\ thr'[f].process_todo /\ thr'[f].reply_error = "ERROR"
    BY <1>19, <1>23
  <2>6. CASE thr[f].reply_error # "OK"
    <3>1. Todos'[f] = Todos[f] /\ ReplyErrors'[f] = ReplyErrors[f]
      BY <2>2, <2>3, <2>6, <2>8
    <3>2. f \in Flagged' <=> f \in Flagged
      BY <2>2, <2>3, <2>6, <2>8, Zenon
    <3>3. ReplyErrors[f] # "OK"
      BY <2>2, <2>6
    <3>. QED BY <2>1, <2>2, <2>4, <2>5, <3>1, <3>2, <3>3
  <2>7. CASE thr[f].reply_error = "OK"
    <3>1. Todos'[f] = Append(Todos[f], Item("reply_error")) /\ ReplyErrors'[f] = "ERROR"
      BY <2>2, <2>3, <2>7, <2>8
    <3>2. f \in Flagged'
      BY <2>2, <2>3, <2>7, <2>8, Zenon
    <3>3. ReplyErrors[f] = "OK"
      BY <2>2, <2>7
    <3>. QED BY <2>1, <2>2, <2>4, <2>5, <3>1, <3>2, <3>3
  <2>. QED BY <2>6, <2>7
<1>24. Typed'
  BY <1>12, <1>13, <1>14, <1>15, <1>18, <1>ty DEF Typed
<1>25. Stay(txn, txn', k, a, k2, a2, M)
  BY <1>9, <1>10, <1>13 DEF Stay, SameTxn
<1>26. Names(txn')
  <2>1. \A s \in Txns : txn'[s].kind = "unused" <=> txn[s].kind = "unused"
    BY <1>3, <1>13, FreedFields DEF Sync
  <2>. QED BY <2>1, <1>nm, NamesKeep
<1>27. \A s \in Txns : s \in M => k[s] \in {"failing", "orphan"} /\ k2[s] \in {"none", "failing"}
  BY <1>2, <1>7, <1>9, <1>10, TxnNumbers
<1>28. \A kind \in {"thread", "proc", "async"} : \A s \in Txns :
         k2[s] = kind \/ k[s] = kind => k2[s] = k[s] /\ a2[s] = a[s]
  BY <1>10, <1>27
<1>29. TxnLists(ProcTodos, "proc", k2, a2) /\ TxnLists(AsyncTodos, "async", k2, a2)
       /\ ThreadLists(Todos, k2, a2)
  BY <1>28, <1>pl, <1>al, <1>tl, ListsMove
<1>30. f # NoThread /\ ReplyErrors[f] = "OK" => Item("reply_error") \notin ToSet(Todos[f])
  BY <1>23, <1>no DEF Notices, NoticeOK
<1>31. ThreadLists(Todos', k2, a2)
  <2>1. ASSUME NEW u \in Threads PROVE ListOK(Todos'[u], k2, a2, u)
    <3>1. ListOK(Todos[u], k2, a2, u)
      BY <1>29 DEF ThreadLists
    <3>2. CASE u = f /\ ReplyErrors[f] = "OK"
      <4>1. f # NoThread
        BY <3>2, NullAssumption
      <4>. QED BY <3>1, <3>2, <4>1, <1>23, <1>30, ListNotice
    <3>3. CASE ~(u = f /\ ReplyErrors[f] = "OK")
      BY <3>1, <3>3, <1>22, <1>23, NullAssumption
    <3>. QED BY <3>2, <3>3
  <2>. QED BY <2>1 DEF ThreadLists
<1>32. \A s \in Txns : k[s] = "carried" => a[s] \in Threads /\ s \notin M
  BY <1>27, <1>ca DEF Carried, CarrierOK
<1>33. Carried(txn', Dead, pc, loc, k2, a2)
  <2>1. OnlyMoves(pc, loc, pc, loc, NoThread)
    BY DEF OnlyMoves
  <2>2. \A s \in Txns : k[s] = "carried" => (s \in M <=> a[s] = NoThread)
    BY <1>32, NullAssumption
  <2>3. \A s \in Txns : s \in M => CarrierOK(pc, loc, k2, a2, s)
    BY <1>27 DEF CarrierOK
  <2>4. NoThread \in Threads => CarryOK(txn', Dead, pc, loc, k2, a2, NoThread)
    BY NullAssumption
  <2>. QED BY <2>1, <2>2, <2>3, <2>4, <1>25, <1>ca, CarriedStep
<1>34. Failing(sfr', k2, a2)
  <2>1. /\ sfr[x] = t /\ k2[t] # "failing" /\ p \in 0 .. MaxTxns /\ p # t
        /\ sfr'[x] = p /\ t \in Txns
        /\ p # NoTxn => k[p] # "failing" /\ k2[p] = "failing" /\ a2[p] = x
    BY <1>1, <1>2, <1>6, <1>7, <1>8, <1>10, <1>15
  <2>2. \A s \in Txns : s # t /\ s # p => k2[s] = k[s] /\ a2[s] = a[s]
    BY <1>10
  <2>3. \A y \in Threads \cup Procs : y # x => sfr'[y] = sfr[y]
    BY <1>15
  <2>. QED BY <2>1, <2>2, <2>3, <1>fa, <1>ft, FailEnd, SMTT(60)
<1>35. Placed(txn', Dead, k2, a2)
  <2>1. ASSUME NEW s \in Txns, k[s] = "orphan", s \notin M, a[s] \in M
        PROVE  /\ txn'[a[s]].kind = txn[a[s]].kind /\ txn'[a[s]].from = txn[a[s]].from
               /\ txn'[a[s]].from_parent = txn[a[s]].from_parent
    <3>1. PlaceOK(txn, Dead, k, a, s)
      BY <1>po DEF Placed
    <3>2. a[s] \in Txns /\ txn[a[s]].from = NoThread /\ txn[a[s]].from_parent = s
      BY <3>1, <2>1 DEF PlaceOK
    <3>3. a[s] # t
      BY <3>2, <2>1, <1>4, <1>5, <1>9
    <3>. QED BY <3>2, <3>3, <1>13
  <2>2. PlaceOK(txn', Dead, k2, a2, t)
    BY <1>10, <1>13, FreedFields DEF PlaceOK
  <2>3. p # NoTxn => PlaceOK(txn', Dead, k2, a2, p)
    <3>1. p # NoTxn => PlaceOK(txn, Dead, k, a, p)
      BY <1>7, <1>po DEF Placed
    <3>2. p # NoTxn => txn'[p] = txn[p]
      BY <1>7, <1>8, <1>13
    <3>. QED BY <3>1, <3>2, <1>7, <1>10 DEF PlaceOK, Sync
  <2>4. \A s \in Txns : s \in M => PlaceOK(txn', Dead, k2, a2, s)
    BY <2>2, <2>3, <1>9, TxnNumbers
  <2>. QED BY <2>1, <2>4, <1>25, <1>po, PlacedStep
<1>36. Tree(txn', Dead, k2, a2, r)
  <2>1. \A s \in Txns : s # t /\ s # txn[t].from_parent => k2[s] = k[s] /\ a2[s] = a[s]
    BY <1>5, <1>10, TxnNumbers
  <2>2. FreedTxn.kind # "sync" /\ FreedTxn.from = NoThread /\ FreedTxn.from_parent = NoTxn
    BY FreedFields
  <2>3. txn'[t].kind # "sync" /\ txn'[t].from = NoThread /\ txn'[t].from_parent = NoTxn
    BY <2>2, <1>13
  <2>. QED BY <2>1, <2>3, <1>2, <1>3, <1>13, <1>xt, <1>tr, TreeEnd
<1>37. \A u \in Threads : u \notin Dead /\ u # f => Stacks[u] # t
  <2>1. \A u \in Threads : u \notin Dead => (Stacks[u] = t <=> Mine(txn, k, a, u, t))
    BY <1>2, <1>3, <1>xt, <1>kt, <1>tr, <1>st, EndSeen
  <2>. QED BY <2>1, <1>2, <1>4 DEF Mine
<1>38. AllStacks(txn', Dead, Stacks', k2, a2, r)
  <2>1. ASSUME NEW s \in Txns, s \in M, s # t, NEW u \in Threads
        PROVE  Alike(txn, txn', k, a, k2, a2, u, s)
    <3>1. txn'[s] = txn[s] /\ k[s] # "served" /\ k2[s] # "served"
      BY <2>1, <1>13, <1>27
    <3>. QED BY <3>1 DEF Alike, Mine, Below, Sync
  <2>2. ASSUME NEW u \in Threads, u \notin Dead
        PROVE  /\ ~Mine(txn', k2, a2, u, t)
               /\ Stacks'[u] = IF Stacks[u] = t THEN Below(txn, u, t) ELSE Stacks[u]
    <3>1. ~Mine(txn', k2, a2, u, t)
      BY <1>13, FreedFields DEF Mine, Sync
    <3>2. CASE u = f
      <4>1. Below(txn, u, t) = txn[t].from_parent
        BY <3>2, <1>2, <1>3, <1>4, <1>tr, CallerBelow
      <4>. QED BY <3>1, <3>2, <4>1, <1>23, NullAssumption
    <3>3. CASE u # f
      BY <3>1, <3>3, <2>2, <1>22, <1>37
    <3>. QED BY <3>2, <3>3
  <2>. QED BY <2>1, <2>2, <1>2, <1>3, <1>25, <1>xt, <1>kt, <1>tr, <1>st, StacksEnd
<1>39. \A s \in Txns : k[s] = "thread" /\ Head(Todos[a[s]]) = TxnItem(s) =>
         Head(Todos'[a[s]]) = TxnItem(s)
  <2>1. ASSUME NEW s \in Txns, k[s] = "thread", Head(Todos[a[s]]) = TxnItem(s)
        PROVE  Head(Todos'[a[s]]) = TxnItem(s)
    <3>1. a[s] \in Threads
      BY <2>1, <1>po DEF Placed, PlaceOK
    <3>2. TxnItem(s) \in ToSet(Todos[a[s]])
      BY <3>1, <2>1, <1>tl DEF ThreadLists, ListOK
    <3>3. CASE a[s] = f /\ ReplyErrors[f] = "OK"
      <4>1. Todos'[f] = Append(Todos[f], Item("reply_error")) /\ Todos[f] \in Seq(Work)
        BY <3>1, <3>3, <1>23, NullAssumption
      <4>. QED BY <4>1, <3>2, <3>3, <2>1, TxnItems, HeadAppend
    <3>4. CASE ~(a[s] = f /\ ReplyErrors[f] = "OK")
      BY <3>1, <3>4, <2>1, <1>22, <1>23, NullAssumption
    <3>. QED BY <3>3, <3>4
  <2>. QED BY <2>1
<1>40. Directed(txn', Dead, Stacks', Todos', pc, loc, k2, a2, r)
  <2>. DEFINE k3 == [k EXCEPT ![t] = "none"]
  <2>1. k3[t] = "none" /\ \A s \in Txns : s # t => k3[s] = k[s]
    BY <1>2, <1>gh DEF Ghosts
  <2>. HIDE DEF k3
  <2>2. Stay(txn, txn', k, a, k3, a, {t}) /\ Leaves(txn, {t})
    BY <2>1, <1>2, <1>3, <1>13 DEF Stay, SameTxn, Leaves
  <2>3. \A s \in Txns : s \in {t} => QueuedOK(txn', Dead, Stacks', Todos', k3, a, r, s)
    BY <2>1 DEF QueuedOK
  <2>4. Calm(txn, pc, loc, k, a, {t}, Stacks, Stacks')
    <3>1. ASSUME NEW u \in Threads
          PROVE  Stacks'[u] = Stacks[u] \/ Quiet(txn, pc, loc, k, a, {t}, u)
      <4>1. CASE u # f
        BY <4>1, <1>22
      <4>2. CASE u = f
        <5>1. u \notin Dead /\ Stacks[u] # NoTxn /\ NoChild(txn, Stacks[u])
          BY <4>2, <1>2, <1>3, <1>23, NullAssumption, TxnNumbers
        <5>. QED BY <5>1, <1>xt, <1>kt, <1>di, <1>tr, <1>ca, EndQuiet
      <4>. QED BY <4>1, <4>2
    <3>. QED BY <3>1 DEF Calm
  <2>5. \A u \in Threads : pc[u] = "send" => loc[u].t \notin {t}
    <3>1. ASSUME NEW u \in Threads, pc[u] = "send" PROVE loc[u].t # t
      <4>1. SendCarry(txn, loc[u], u, k, a)
        BY <3>1, <1>ca DEF Carried, CarryOK
      <4>. QED BY <4>1, <1>2 DEF SendCarry
    <3>. QED BY <3>1
  <2>6. Directed(txn', Dead, Stacks', Todos', pc, loc, k3, a, r)
    BY <2>2, <2>3, <2>4, <2>5, <1>39, <1>xt, <1>kt, <1>di, <1>tr, <1>po, <1>ca, DirectedStep
  <2>7. \A s \in Txns : k2[s] = "thread" => k3[s] = "thread" /\ a2[s] = a[s]
    BY <2>1, <1>2, <1>10, <1>28
  <2>. QED BY <2>6, <2>7, DirectedMove
<1>41. Buffers(txn', buf', loc, k2, a2)
  <2>1. ASSUME NEW s \in Txns PROVE BufferOK(txn', buf', loc, k2, a2, s)
    <3>1. CASE s = t
      BY <3>1, <1>10, <1>13, <1>14 DEF BufferOK
    <3>2. CASE s # t
      <4>1. BufferOK(txn, buf, loc, k, a, s) /\ txn'[s] = txn[s] /\ buf'[s] = buf[s]
        BY <3>2, <1>13, <1>14, <1>bu DEF Buffers
      <4>2. k2[s] \in {"thread", "proc", "async", "carried"} => k2[s] = k[s] /\ a2[s] = a[s]
        BY <1>10, <1>27
      <4>. QED BY <4>1, <4>2, BufferKeep
    <3>. QED BY <3>1, <3>2
  <2>. QED BY <2>1 DEF Buffers
<1>42. Drops(txn', buf', pc, loc, sfr')
  <2>1. ASSUME NEW u \in Threads, pc[u] = "dropbuf" PROVE DropOK(txn', buf', pc, loc, sfr', u)
    <3>1. DropOK(txn, buf, pc, loc, sfr, u)
      BY <2>1, <1>dr DEF Drops
    <3>2. PICK d \in Txns : d = loc[u].t
      BY <3>1 DEF DropOK
    <3>3. /\ buf'[d].st = buf[d].st /\ buf'[d].owner = buf[d].owner
          /\ buf'[d].node = buf[d].node /\ (buf'[d].transaction => buf[d].transaction)
      BY <1>14
    <3>4. txn[d].kind = "freed" => txn'[d].kind = "freed"
      BY <1>13, FreedFields
    <3>5. sfr[u] = d => sfr'[u] = d \/ txn'[d].kind = "freed"
      BY <1>1, <1>13, <1>15, FreedFields
    <3>. QED BY <3>1, <3>2, <3>3, <3>4, <3>5, DropKeep
  <2>. QED BY <2>1 DEF Drops
<1>43. ThreadStates(Dead, Stacks', Todos', Waiting, pc, loc, sfr')
  <2>1. ASSUME NEW u \in Threads, u # x
        PROVE  /\ Todos'[u] = Todos[u] \/ (pc[u] # "gone" /\ u \notin Waiting)
               /\ loc[u].wait_for_proc_work => Stacks'[u] = Stacks[u]
               /\ sfr'[u] = sfr[u]
    <3>1. u = f => pc[u] # "gone" /\ u \notin Waiting /\ ~loc[u].wait_for_proc_work
      <4>1. u = f => f # NoThread /\ f \notin Dead /\ ~thr[f].waiting
                     /\ ~loc[f].wait_for_proc_work
        BY <1>16, <1>23, NullAssumption
      <4>2. ThreadOK(Dead, Stacks, Todos, Waiting, pc, loc, sfr, u) /\ (u \in Waiting <=> thr[u].waiting)
        BY <1>ts, <1>ty, ThreadViews DEF ThreadStates
      <4>. QED BY <4>1, <4>2 DEF ThreadOK
    <3>. QED BY <3>1, <2>1, <1>15, <1>22
  <2>2. x \in Threads => ThreadOK(Dead, Stacks', Todos', Waiting, pc, loc, sfr', x)
    <3>1. x \in Threads => ThreadOK(Dead, Stacks, Todos, Waiting, pc, loc, sfr, x)
      BY <1>ts DEF ThreadStates
    <3>2. sfr[x] # NoTxn
      BY <1>1, <1>2, TxnNumbers
    <3>3. x \in Threads /\ loc[x].wait_for_proc_work => Stacks'[x] = Stacks[x]
      BY <1>16, <1>22, NullAssumption
    <3>. QED BY <3>1, <3>2, <3>3 DEF ThreadOK
  <2>3. ASSUME NEW u \in Threads, u # x
        PROVE  ThreadOK(Dead, Stacks', Todos', Waiting, pc, loc, sfr', u)
    <3>1. ThreadOK(Dead, Stacks, Todos, Waiting, pc, loc, sfr, u)
      BY <1>ts DEF ThreadStates
    <3>. QED BY <3>1, <2>1, <2>3 DEF ThreadOK
  <2>. QED BY <2>2, <2>3 DEF ThreadStates
<1>44. ProcStates(ProcSts, DeadProcs, ProcTodos, ProcRefs, LiveNodes, AsyncTodos, pc, sfr')
  <2>0. sfr[x] # NoTxn
    BY <1>1, <1>2, TxnNumbers
  <2>1. \A q \in Procs : ProcSts[q] # "todo" => sfr'[q] = sfr[q]
    <3>1. \A q \in Procs : ProcSts[q] # "todo" => sfr[q] = NoTxn
      BY <1>ps DEF ProcStates, ProcOK
    <3>. QED BY <3>1, <2>0, <1>15
  <2>2. ASSUME NEW u \in Threads
        PROVE  \/ ProcSts[ProcOf[u]] = "open" \/ pc[u] = "gone"
               \/ pc[u] = pc[u] /\ (sfr'[u] = sfr[u] \/ pc[u] # "user")
    <3>1. PICK q \in Procs : q = ProcOf[u]
      BY ProcOfAssumption
    <3>2. ProcSts[q] \in {"open", "threads", "todo", "released", "freed"}
      <4>1. ProcSts[q] = proc[q].st /\ proc[q] \in Prc
        BY <1>ty, ProcViews
      <4>. QED BY <4>1 DEF Prc
    <3>3. /\ ProcSts[q] = "threads" => \/ pc[u] \in {"release", "gone"}
                                       \/ pc[u] = "user" /\ sfr[u] = NoTxn
          /\ ProcSts[q] \in {"todo", "released", "freed"} => pc[u] = "gone"
      BY <3>1, <1>ps DEF ProcStates, ProcOK
    <3>. QED BY <3>1, <3>2, <3>3, <2>0, <1>15
  <2>. QED BY <2>1, <2>2, <1>ps, ProcStatesKeep
<1>45. Oneways(buf', DeadProcs, LiveNodes, AsyncNodes, AsyncTodos, pc, loc)
  <2>1. \A s \in Txns : /\ buf'[s].st # "none" <=> buf[s].st # "none"
                        /\ buf'[s].async <=> buf[s].async
                        /\ buf'[s].node = buf[s].node
    BY <1>14
  <2>. QED BY <2>1, <1>ow, OnewaysKeep
<1>46. Notices(Dead, Todos', ReturnErrors, ReplyErrors', pc)
  <2>1. \A u \in Threads : u # f => Todos'[u] = Todos[u] /\ ReplyErrors'[u] = ReplyErrors[u]
    BY <1>22
  <2>2. f \in Threads => NoticeOK(Dead, Todos', ReturnErrors, ReplyErrors', pc, f)
    <3>1. SUFFICES ASSUME f \in Threads
                   PROVE  NoticeOK(Dead, Todos', ReturnErrors, ReplyErrors', pc, f)
      OBVIOUS
    <3>2. NoticeOK(Dead, Todos, ReturnErrors, ReplyErrors, pc, f) /\ f # NoThread
      BY <3>1, <1>no, NullAssumption DEF Notices
    <3>3. CASE ReplyErrors[f] # "OK"
      <4>1. Todos'[f] = Todos[f] /\ ReplyErrors'[f] = ReplyErrors[f]
        BY <3>2, <3>3, <1>23
      <4>. QED BY <4>1, <3>2 DEF NoticeOK
    <3>4. CASE ReplyErrors[f] = "OK"
      <4>1. Todos'[f] = Append(Todos[f], Item("reply_error")) /\ ReplyErrors'[f] = "ERROR"
            /\ Todos[f] \in Seq(Work)
        BY <3>2, <3>4, <1>23
      <4>2. ToSet(Todos'[f]) = ToSet(Todos[f]) \cup {Item("reply_error")}
        BY <4>1, NoticeLast
      <4>3. Item("return_error") # Item("reply_error")
        BY NoticeTypes
      <4>. QED BY <4>1, <4>2, <4>3, <3>2 DEF NoticeOK
    <3>. QED BY <3>3, <3>4
  <2>3. ASSUME NEW u \in Threads, u # f
        PROVE  NoticeOK(Dead, Todos', ReturnErrors, ReplyErrors', pc, u)
    <3>1. NoticeOK(Dead, Todos, ReturnErrors, ReplyErrors, pc, u)
      BY <1>no DEF Notices
    <3>. QED BY <3>1, <2>1, <2>3 DEF NoticeOK
  <2>. QED BY <2>2, <2>3 DEF Notices
<1>47. Flags(txn', Dead, Stacks', Todos', Flagged')
  <2>1. ASSUME NEW u \in Threads, u \notin Dead
        PROVE  \/ u \in Flagged' /\ Todos'[u] # <<>>
               \/ /\ Todos'[u] = Todos[u] /\ Stacks'[u] = Stacks[u]
                  /\ u \in Flagged' <=> u \in Flagged
                  /\ Stacks[u] # NoTxn /\ txn[Stacks[u]].from = u => txn'[Stacks[u]].from = u
    <3>1. CASE u = f
      <4>0. f # NoThread
        BY <3>1, NullAssumption
      <4>1. CASE ReplyErrors[f] = "OK"
        BY <3>1, <4>0, <4>1, <1>23, NoticeLast
      <4>2. CASE ReplyErrors[f] # "OK"
        <5>1. Item("reply_error") \in ToSet(Todos[f])
          BY <4>0, <4>2, <1>23, <1>no DEF Notices, NoticeOK
        <5>2. Todos[f] # <<>> /\ Todos[f] # <<Item("complete")>>
          <6>1. Item("reply_error") # Item("complete")
            BY NoticeTypes
          <6>2. ToSet(<<>>) = {} /\ ToSet(<<Item("complete")>>) = {Item("complete")}
            BY SeqSmall
          <6>. QED BY <6>1, <6>2, <5>1
        <5>3. f \in Flagged
          BY <5>2, <4>0, <1>23, <1>fl DEF Flags, FlagOK
        <5>. QED BY <5>2, <5>3, <4>0, <4>2, <3>1, <1>23
      <4>. QED BY <4>1, <4>2
    <3>2. CASE u # f
      <4>1. Stacks[u] # t /\ Stacks[u] \in 0 .. MaxTxns
        BY <3>2, <2>1, <1>37, <1>vt
      <4>2. Stacks[u] # NoTxn => txn'[Stacks[u]] = txn[Stacks[u]]
        BY <4>1, <1>13, TxnNumbers
      <4>. QED BY <4>2, <3>2, <1>22
    <3>. QED BY <3>1, <3>2
  <2>. QED BY <2>1, <1>fl, FlagsKeep
<1>48. Inv(k2, a2, r)'
  BY <1>11, <1>12, <1>17, <1>20, <1>21, <1>24, <1>26, <1>29, <1>31, <1>33, <1>34, <1>35, <1>36,
     <1>38, <1>40, <1>41, <1>42, <1>43, <1>44, <1>45, <1>46, <1>47, <1>tc, <1>pc, Whole
<1>. QED BY <1>48

\* What changes of the views when the struct of one thread does.
LEMMA OneThread ==
  ASSUME NEW th \in Threads, \A u \in Threads : u # th => thr'[u] = thr[u]
  PROVE  /\ thr'[th].stack = thr[th].stack => Stacks' = Stacks
         /\ thr'[th].todo = thr[th].todo => Todos' = Todos
         /\ (thr'[th].process_todo <=> thr[th].process_todo) => Flagged' = Flagged
         /\ thr'[th].return_error = thr[th].return_error => ReturnErrors' = ReturnErrors
         /\ thr'[th].reply_error = thr[th].reply_error => ReplyErrors' = ReplyErrors
         /\ (thr'[th].waiting <=> thr[th].waiting) => Waiting' = Waiting
         /\ (thr'[th].is_dead <=> thr[th].is_dead) => Dead' = Dead
         /\ thr'[th].tmp_ref = thr[th].tmp_ref => ThreadRefs' = ThreadRefs
<1>1. thr'[th].stack = thr[th].stack => Stacks' = Stacks
  BY DEF Stacks
<1>2. thr'[th].todo = thr[th].todo => Todos' = Todos
  BY DEF Todos
<1>3. (thr'[th].process_todo <=> thr[th].process_todo) => Flagged' = Flagged
  BY DEF Flagged
<1>4. thr'[th].return_error = thr[th].return_error => ReturnErrors' = ReturnErrors
  BY DEF ReturnErrors
<1>5. thr'[th].reply_error = thr[th].reply_error => ReplyErrors' = ReplyErrors
  BY DEF ReplyErrors
<1>6. (thr'[th].waiting <=> thr[th].waiting) => Waiting' = Waiting
  BY DEF Waiting
<1>7. (thr'[th].is_dead <=> thr[th].is_dead) => Dead' = Dead
  BY DEF Dead
<1>8. thr'[th].tmp_ref = thr[th].tmp_ref => ThreadRefs' = ThreadRefs
  BY DEF ThreadRefs
<1>. QED BY <1>1, <1>2, <1>3, <1>4, <1>5, <1>6, <1>7, <1>8

\* The call a thread can reply to is the last of its chain.
LEMMA ServedTop ==
  ASSUME NEW k, NEW a, NEW r, Inv(k, a, r), NEW th \in Threads, th \notin Dead,
         ServesTop(th), NEW t, t = thr[th].stack
  PROVE  /\ t \in Txns /\ Stacks[th] = t /\ Sync(txn, t) /\ k[t] = "served" /\ a[t] = th
         /\ NoChild(txn, t) /\ txn[t].to_thread = th /\ txn[t].from # th
         /\ txn[t].to_proc = ProcOf[th] /\ Below(txn, th, t) = txn[t].to_parent
<1>ty. Typed /\ bug = FALSE
  BY Parts
<1>kt. Stacks \in [Threads -> 0 .. MaxTxns]
  BY Parts
<1>xt. txn \in [Txns -> Txn]
  BY Parts
<1>tr. Tree(txn, Dead, k, a, r)
  BY Parts
<1>st. AllStacks(txn, Dead, Stacks, k, a, r)
  BY Parts
<1>po. Placed(txn, Dead, k, a)
  BY Parts
<1>1. Stacks[th] = t /\ t \in 0 .. MaxTxns
  BY <1>ty, ThreadViews
<1>2. t \in Txns /\ txn[t].to_thread = th
  BY <1>1, TxnNumbers DEF ServesTop
<1>3. StackOK(txn, Stacks, k, a, r, th)
  BY <1>st DEF AllStacks
<1>4. Mine(txn, k, a, th, t)
  BY <1>1, <1>2, <1>3, TxnNumbers DEF StackOK
<1>5. Sync(txn, t)
  BY <1>4 DEF Mine
<1>6. txn[t].from # th /\ Below(txn, th, t) = txn[t].to_parent
  BY <1>2, <1>5, <1>tr, CallerBelow
<1>7. k[t] = "served" /\ a[t] = th
  BY <1>4, <1>6 DEF Mine
<1>8. NoChild(txn, t)
  BY <1>1, <1>2, <1>3, <1>7, <1>xt, <1>tr, TopNoChild
<1>9. txn[t].to_proc = ProcOf[th]
  BY <1>2, <1>7, <1>po DEF Placed, PlaceOK
<1>. QED BY <1>1, <1>2, <1>5, <1>6, <1>7, <1>8, <1>9

\* binder_transaction's error path, of a thread whose stack is v.
ErrorThr(T, th, v, cmd) == ReturnError([T EXCEPT ![th].stack = v], th, cmd)
\* What the error path of binder_transaction does to its own thread.
LEMMA ErrorOf ==
  ASSUME NEW T \in [Threads -> Thr], NEW th \in Threads, NEW cmd \in Cmds, NEW v \in 0 .. MaxTxns
  PROVE  /\ ErrorThr(T, th, v, cmd) \in [Threads -> Thr]
         /\ \A u \in Threads : u # th => ErrorThr(T, th, v, cmd)[u] = T[u]
         /\ ErrorThr(T, th, v, cmd)[th].stack = v
         /\ ErrorThr(T, th, v, cmd)[th].todo = Append(T[th].todo, Item("return_error"))
         /\ ErrorThr(T, th, v, cmd)[th].process_todo
         /\ ErrorThr(T, th, v, cmd)[th].return_error = cmd
         /\ ErrorThr(T, th, v, cmd)[th].reply_error = T[th].reply_error
         /\ ErrorThr(T, th, v, cmd)[th].waiting = T[th].waiting
         /\ ErrorThr(T, th, v, cmd)[th].is_dead = T[th].is_dead
         /\ ErrorThr(T, th, v, cmd)[th].tmp_ref = T[th].tmp_ref
<1>. DEFINE y == [T[th] EXCEPT !.stack = v]
           T1 == [T EXCEPT ![th].stack = v]
<1>0. T[th] \in Thr
  OBVIOUS
<1>1. /\ y \in Thr /\ y.stack = v /\ y.todo = T[th].todo
      /\ y.reply_error = T[th].reply_error
      /\ y.waiting = T[th].waiting /\ y.is_dead = T[th].is_dead /\ y.tmp_ref = T[th].tmp_ref
  BY <1>0 DEF Thr
<1>2. T1 = [T EXCEPT ![th] = y]
  OBVIOUS
<1>. HIDE DEF y
<1>3. T1 \in [Threads -> Thr] /\ T1[th] = y /\ \A u \in Threads : u # th => T1[u] = T[u]
  BY <1>1, <1>2
<1>4. ErrorThr(T, th, v, cmd) = ReturnError(T1, th, cmd)
  BY DEF ErrorThr
<1>. HIDE DEF T1
<1>5. /\ ReturnError(T1, th, cmd) \in [Threads -> Thr]
      /\ \A u \in Threads : u # th => ReturnError(T1, th, cmd)[u] = T1[u]
      /\ ReturnError(T1, th, cmd)[th].stack = T1[th].stack
      /\ ReturnError(T1, th, cmd)[th].todo = Append(T1[th].todo, Item("return_error"))
      /\ ReturnError(T1, th, cmd)[th].process_todo
      /\ ReturnError(T1, th, cmd)[th].return_error = cmd
      /\ ReturnError(T1, th, cmd)[th].reply_error = T1[th].reply_error
      /\ ReturnError(T1, th, cmd)[th].waiting = T1[th].waiting
      /\ ReturnError(T1, th, cmd)[th].is_dead = T1[th].is_dead
      /\ ReturnError(T1, th, cmd)[th].tmp_ref = T1[th].tmp_ref
  BY <1>3, ReturnErrorOf
<1>6. PICK z : z = ReturnError(T1, th, cmd)
  OBVIOUS
<1>7. /\ z \in [Threads -> Thr] /\ \A u \in Threads : u # th => z[u] = T1[u]
  BY <1>5, <1>6
<1>8. /\ z[th].stack = y.stack /\ z[th].todo = Append(y.todo, Item("return_error"))
      /\ z[th].process_todo /\ z[th].return_error = cmd /\ z[th].reply_error = y.reply_error
      /\ z[th].waiting = y.waiting /\ z[th].is_dead = y.is_dead /\ z[th].tmp_ref = y.tmp_ref
  BY <1>3, <1>5, <1>6
<1>9. ErrorThr(T, th, v, cmd) = z
  BY <1>4, <1>6
<1>. QED BY <1>1, <1>3, <1>7, <1>8, <1>9

\* A new last item leaves the first one where it is.
LEMMA HeadKept ==
  ASSUME NEW L \in [Threads -> Seq(Work)], NEW X, NEW D, NEW k, NEW a, ThreadLists(L, k, a),
         Placed(X, D, k, a), NEW th, NEW w \in Work, NEW L2,
         th \in Threads => L2[th] = Append(L[th], w), \A u \in Threads : u # th => L2[u] = L[u],
         NEW s \in Txns, k[s] = "thread", Head(L[a[s]]) = TxnItem(s)
  PROVE  Head(L2[a[s]]) = TxnItem(s)
<1>1. a[s] \in Threads
  BY DEF Placed, PlaceOK
<1>2. TxnItem(s) \in ToSet(L[a[s]])
  BY <1>1 DEF ThreadLists, ListOK
<1>3. CASE a[s] = th
  <2>1. L[th] \in Seq(Work) /\ L2[th] = Append(L[th], w)
    BY <1>1, <1>3
  <2>2. Head(Append(L[th], w)) = Head(L[th])
    BY <2>1, <1>2, <1>3, HeadAppend
  <2>. QED BY <2>1, <2>2, <1>3
<1>4. CASE a[s] # th
  BY <1>1, <1>4
<1>. QED BY <1>3, <1>4

\* The caller is gone, or there is no memory for the reply.
LEMMA ReplyFailsStep ==
  ASSUME NEW k, NEW a, NEW r, Inv(k, a, r), NEW th \in Threads, ReplyFails(th)
  PROVE  \E k2, a2 : Inv(k2, a2, r)'
<1>gh. Ghosts(k, a, r)
  BY Parts
<1>ty. Typed /\ bug = FALSE
  BY Parts
<1>kt. Stacks \in [Threads -> 0 .. MaxTxns]
  BY Parts
<1>lt. Todos \in [Threads -> Seq(Work)]
  BY Parts
<1>xt. txn \in [Txns -> Txn]
  BY Parts
<1>bt. buf \in [Txns -> Buf]
  BY Parts
<1>tt. thr \in [Threads -> Thr]
  BY Parts
<1>ct. pc \in [Threads -> PCs] /\ loc \in [Threads -> Loc]
  BY Parts
<1>ft. sfr \in [Threads \cup Procs -> 0 .. MaxTxns]
  BY Parts
<1>nm. Names(txn)
  BY Parts
<1>tl. ThreadLists(Todos, k, a)
  BY Parts
<1>pl. TxnLists(ProcTodos, "proc", k, a)
  BY Parts
<1>al. TxnLists(AsyncTodos, "async", k, a)
  BY Parts
<1>ca. Carried(txn, Dead, pc, loc, k, a)
  BY Parts
<1>fa. Failing(sfr, k, a)
  BY Parts
<1>po. Placed(txn, Dead, k, a)
  BY Parts
<1>tr. Tree(txn, Dead, k, a, r)
  BY Parts
<1>st. AllStacks(txn, Dead, Stacks, k, a, r)
  BY Parts
<1>di. Directed(txn, Dead, Stacks, Todos, pc, loc, k, a, r)
  BY Parts
<1>bu. Buffers(txn, buf, loc, k, a)
  BY Parts
<1>dr. Drops(txn, buf, pc, loc, sfr)
  BY Parts
<1>ts. ThreadStates(Dead, Stacks, Todos, Waiting, pc, loc, sfr)
  BY Parts
<1>ps. ProcStates(ProcSts, DeadProcs, ProcTodos, ProcRefs, LiveNodes, AsyncTodos, pc, sfr)
  BY Parts
<1>tc. ThreadCounts(ThreadRefs, pc, loc)
  BY Parts
<1>pc. ProcCounts(Dead, ThreadRefs, ProcSts, ProcRefs, pc, loc)
  BY Parts
<1>ow. Oneways(buf, DeadProcs, LiveNodes, AsyncNodes, AsyncTodos, pc, loc)
  BY Parts
<1>no. Notices(Dead, Todos, ReturnErrors, ReplyErrors, pc)
  BY Parts
<1>fl. Flags(txn, Dead, Stacks, Todos, Flagged)
  BY Parts
<1>1. pc[th] = "user" /\ sfr[th] = NoTxn /\ proc[ProcOf[th]].st = "open"
      /\ thr[th].return_error = "OK" /\ ServesTop(th)
  BY DEF ReplyFails, ReplyAllowed, CanWrite, InUser
<1>2. th \notin Dead /\ th \notin Waiting /\ ~loc[th].wait_for_proc_work
  BY <1>1, UserFacts
<1>3. PICK t : t = thr[th].stack
  OBVIOUS
<1>4. /\ t \in Txns /\ Stacks[th] = t /\ Sync(txn, t) /\ k[t] = "served" /\ a[t] = th
      /\ NoChild(txn, t) /\ txn[t].to_thread = th /\ txn[t].from # th
      /\ txn[t].to_proc = ProcOf[th] /\ Below(txn, th, t) = txn[t].to_parent
  BY <1>1, <1>2, <1>3, ServedTop
<1>5. PICK v \in 0 .. MaxTxns : v = txn[t].to_parent
  BY <1>4, <1>xt, TxnFields
<1>. DEFINE k2 == [k EXCEPT ![t] = "failing"]
           a2 == [a EXCEPT ![t] = th]
<1>6. /\ k2[t] = "failing" /\ a2[t] = th /\ SameBut(k, a, k2, a2, t)
      /\ \A s \in Txns : s # t => k2[s] = k[s] /\ a2[s] = a[s]
  BY <1>4, <1>gh DEF Ghosts, SameBut
<1>7. Ghosts(k2, a2, r)
  BY <1>gh, <1>4 DEF Ghosts, Kinds
<1>. HIDE DEF k2, a2
<1>8. /\ thr' = ErrorThr(thr, th, v, "COMPLETE")
      /\ sfr' = [sfr EXCEPT ![th] = t]
      /\ UNCHANGED <<txn, buf, proc, node, pc, loc, bug>>
  BY <1>3, <1>5 DEF ReplyFails, ErrorThr
<1>9. /\ thr' \in [Threads -> Thr]
      /\ \A u \in Threads : u # th => thr'[u] = thr[u]
      /\ thr'[th].stack = v /\ thr'[th].todo = Append(thr[th].todo, Item("return_error"))
      /\ thr'[th].process_todo /\ thr'[th].return_error = "COMPLETE"
      /\ thr'[th].reply_error = thr[th].reply_error
      /\ thr'[th].waiting = thr[th].waiting /\ thr'[th].is_dead = thr[th].is_dead
      /\ thr'[th].tmp_ref = thr[th].tmp_ref
  <2>1. "COMPLETE" \in Cmds
    BY DEF Cmds
  <2>. DEFINE T == ErrorThr(thr, th, v, "COMPLETE")
  <2>2. /\ T \in [Threads -> Thr]
        /\ \A u \in Threads : u # th => T[u] = thr[u]
        /\ T[th].stack = v /\ T[th].todo = Append(thr[th].todo, Item("return_error"))
        /\ T[th].process_todo /\ T[th].return_error = "COMPLETE"
        /\ T[th].reply_error = thr[th].reply_error
        /\ T[th].waiting = thr[th].waiting /\ T[th].is_dead = thr[th].is_dead
        /\ T[th].tmp_ref = thr[th].tmp_ref
    BY <2>1, <1>tt, ErrorOf
  <2>3. thr' = T
    BY <1>8
  <2>. HIDE DEF T
  <2>. QED BY <2>2, <2>3
<1>10. UNCHANGED <<ReplyErrors, Waiting, Dead, ThreadRefs>>
  BY <1>9, OneThread
<1>11. UNCHANGED <<ProcSts, ProcTodos, DeadProcs, ProcRefs, LiveNodes, AsyncNodes, AsyncTodos>>
  BY <1>8, SameAll
<1>12. \A u \in Threads : u # th =>
         /\ Stacks'[u] = Stacks[u] /\ Todos'[u] = Todos[u]
         /\ u \in Flagged' <=> u \in Flagged
         /\ ReturnErrors'[u] = ReturnErrors[u]
  BY <1>9, NextViews
<1>13. /\ Stacks'[th] = v /\ Todos'[th] = Append(Todos[th], Item("return_error"))
       /\ th \in Flagged' /\ ReturnErrors'[th] = "COMPLETE" /\ Todos[th] \in Seq(Work)
       /\ ReturnErrors[th] = "OK"
  <2>1. Todos[th] = thr[th].todo /\ Todos[th] \in Seq(Work) /\ ReturnErrors[th] = "OK"
    BY <1>1, <1>ty, ThreadViews
  <2>. QED BY <2>1, <1>9, NextViews
<1>14. /\ sfr' \in [Threads \cup Procs -> 0 .. MaxTxns] /\ sfr'[th] = t
       /\ \A y \in Threads \cup Procs : y # th => sfr'[y] = sfr[y]
  BY <1>8, <1>4, <1>ft, TxnNumbers
<1>15. Typed'
  BY <1>8, <1>9, <1>14, <1>ty DEF Typed
<1>16. Stay(txn, txn, k, a, k2, a2, {t})
  BY <1>6 DEF Stay, SameTxn
<1>17. TxnLists(ProcTodos, "proc", k2, a2) /\ TxnLists(AsyncTodos, "async", k2, a2)
       /\ ThreadLists(Todos, k2, a2)
  BY <1>4, <1>6, <1>pl, <1>al, <1>tl, TxnListsKeep, ThreadListsKeep
<1>18. Item("return_error") \notin ToSet(Todos[th])
  BY <1>13, <1>no DEF Notices, NoticeOK
<1>19. ThreadLists(Todos', k2, a2)
  <2>1. \A u \in Threads : u # th => Todos'[u] = Todos[u]
    BY <1>12
  <2>. QED BY <2>1, <1>13, <1>17, <1>18, <1>lt, NoticeAdded
<1>20. Carried(txn, Dead, pc, loc, k2, a2)
  <2>1. OnlyMoves(pc, loc, pc, loc, NoThread)
    BY DEF OnlyMoves
  <2>2. \A s \in Txns : k[s] = "carried" => (s \in {t} <=> a[s] = NoThread)
    BY <1>4, <1>ca, NullAssumption DEF Carried, CarrierOK
  <2>3. \A s \in Txns : s \in {t} => CarrierOK(pc, loc, k2, a2, s)
    BY <1>6 DEF CarrierOK
  <2>4. NoThread \in Threads => CarryOK(txn, Dead, pc, loc, k2, a2, NoThread)
    BY NullAssumption
  <2>. QED BY <2>1, <2>2, <2>3, <2>4, <1>16, <1>ca, CarriedStep
<1>21. Failing(sfr', k2, a2)
  <2>1. /\ k[t] # "failing" /\ k2[t] = "failing" /\ a2[t] = th /\ th \in Threads \cup Procs
        /\ t \in Txns /\ sfr[th] = NoTxn /\ sfr'[th] = t
    BY <1>1, <1>4, <1>6, <1>14
  <2>2. SameBut(k, a, k2, a2, t) /\ \A y \in Threads \cup Procs : y # th => sfr'[y] = sfr[y]
    BY <1>6, <1>14
  <2>. QED BY <2>1, <2>2, <1>fa, <1>ft, FailStart
<1>22. Placed(txn, Dead, k2, a2)
  <2>1. PlaceOK(txn, Dead, k2, a2, t)
    <3>1. PlaceOK(txn, Dead, k, a, t)
      BY <1>4, <1>po DEF Placed
    <3>. QED BY <3>1, <1>4, <1>6 DEF PlaceOK
  <2>. QED BY <2>1, <1>16, <1>po, PlacedStep
<1>23. Tree(txn, Dead, k2, a2, r)
  <2>1. Keeps(txn, k, a, k2, a2)
    BY <1>4, <1>6, <1>xt, KeepsMove
  <2>. QED BY <2>1, <1>xt, <1>tr, TreeKeep
<1>24. AllStacks(txn, Dead, Stacks', k2, a2, r)
  <2>1. ASSUME NEW u \in Threads, u \notin Dead
        PROVE  \/ Alike(txn, txn, k, a, k2, a2, u, t) /\ Stacks'[u] = Stacks[u]
               \/ /\ ~Mine(txn, k2, a2, u, t)
                  /\ Stacks'[u] = IF Stacks[u] = t THEN Below(txn, u, t) ELSE Stacks[u]
    <3>1. CASE u = th
      <4>1. ~Mine(txn, k2, a2, u, t)
        BY <3>1, <1>4, <1>6 DEF Mine
      <4>2. Stacks'[u] = IF Stacks[u] = t THEN Below(txn, u, t) ELSE Stacks[u]
        BY <3>1, <1>4, <1>5, <1>13
      <4>. QED BY <4>1, <4>2
    <3>2. CASE u # th
      <4>1. Alike(txn, txn, k, a, k2, a2, u, t)
        BY <3>2, <1>4, <1>6 DEF Alike, Mine
      <4>. QED BY <4>1, <3>2, <1>12
    <3>. QED BY <3>1, <3>2
  <2>2. \A s \in Txns : s \in {t} /\ s # t => \A u \in Threads : Alike(txn, txn, k, a, k2, a2, u, s)
    OBVIOUS
  <2>. QED BY <2>1, <2>2, <1>4, <1>16, <1>xt, <1>kt, <1>tr, <1>st, StacksEnd
<1>25. Directed(txn, Dead, Stacks', Todos', pc, loc, k2, a2, r)
  <2>1. Leaves(txn, {t})
    BY <1>4 DEF Leaves
  <2>2. \A s \in Txns : s \in {t} => QueuedOK(txn, Dead, Stacks', Todos', k2, a2, r, s)
    BY <1>6 DEF QueuedOK
  <2>3. Calm(txn, pc, loc, k, a, {t}, Stacks, Stacks')
    <3>1. Quiet(txn, pc, loc, k, a, {t}, th)
      <4>1. Stacks[th] # NoTxn /\ NoChild(txn, Stacks[th])
        BY <1>4, TxnNumbers
      <4>. QED BY <4>1, <1>2, <1>xt, <1>kt, <1>di, <1>tr, <1>ca, EndQuiet
    <3>. QED BY <3>1, <1>12 DEF Calm
  <2>4. ASSUME NEW s \in Txns, k[s] = "thread", Head(Todos[a[s]]) = TxnItem(s)
        PROVE  Head(Todos'[a[s]]) = TxnItem(s)
    <3>1. Item("return_error") \in Work
      BY TxnItems
    <3>2. th \in Threads => Todos'[th] = Append(Todos[th], Item("return_error"))
      BY <1>13
    <3>3. \A u \in Threads : u # th => Todos'[u] = Todos[u]
      BY <1>12
    <3>. QED BY <3>1, <3>2, <3>3, <2>4, <1>lt, <1>tl, <1>po, HeadKept, SMTT(60)
  <2>5. ASSUME NEW u \in Threads, pc[u] = "send" PROVE loc[u].t \notin {t}
    <3>1. SendCarry(txn, loc[u], u, k, a)
      BY <2>5, <1>ca DEF Carried, CarryOK
    <3>. QED BY <3>1, <1>4 DEF SendCarry
  <2>. QED BY <2>1, <2>2, <2>3, <2>4, <2>5, <1>16, <1>xt, <1>kt, <1>di, <1>tr, <1>po, <1>ca,
       DirectedStep
<1>26. Buffers(txn, buf, loc, k2, a2)
  <2>1. ASSUME NEW s \in Txns PROVE BufferOK(txn, buf, loc, k2, a2, s)
    <3>1. BufferOK(txn, buf, loc, k, a, s)
      BY <1>bu DEF Buffers
    <3>2. k2[s] \in {"thread", "proc", "async", "carried"} => k2[s] = k[s] /\ a2[s] = a[s]
      BY <1>6
    <3>. QED BY <3>1, <3>2, BufferKeep
  <2>. QED BY <2>1 DEF Buffers
<1>27. Drops(txn, buf, pc, loc, sfr')
  <2>1. ASSUME NEW u \in Threads, pc[u] = "dropbuf" PROVE DropOK(txn, buf, pc, loc, sfr', u)
    <3>1. DropOK(txn, buf, pc, loc, sfr, u)
      BY <2>1, <1>dr DEF Drops
    <3>2. sfr'[u] = sfr[u]
      BY <2>1, <1>1, <1>14
    <3>. QED BY <3>1, <3>2 DEF DropOK
  <2>. QED BY <2>1 DEF Drops
<1>28. ThreadStates(Dead, Stacks', Todos', Waiting, pc, loc, sfr')
  <2>1. ASSUME NEW u \in Threads PROVE ThreadOK(Dead, Stacks', Todos', Waiting, pc, loc, sfr', u)
    <3>1. ThreadOK(Dead, Stacks, Todos, Waiting, pc, loc, sfr, u)
      BY <1>ts DEF ThreadStates
    <3>2. CASE u = th
      BY <3>1, <3>2, <1>1, <1>2 DEF ThreadOK
    <3>3. CASE u # th
      BY <3>1, <3>3, <1>12, <1>14 DEF ThreadOK
    <3>. QED BY <3>2, <3>3
  <2>. QED BY <2>1 DEF ThreadStates
<1>29. ProcStates(ProcSts, DeadProcs, ProcTodos, ProcRefs, LiveNodes, AsyncTodos, pc, sfr')
  <2>1. \A q \in Procs : ProcSts[q] # "todo" => sfr'[q] = sfr[q]
    BY <1>14, ActorAssumption
  <2>2. ASSUME NEW u \in Threads
        PROVE  \/ ProcSts[ProcOf[u]] = "open"
               \/ pc[u] = pc[u] /\ (sfr'[u] = sfr[u] \/ pc[u] # "user")
    <3>1. ProcOf[u] \in Procs
      BY ProcOfAssumption
    <3>2. u = th => ProcSts[ProcOf[u]] = "open"
      BY <3>1, <1>1, <1>ty, ProcViews
    <3>. QED BY <3>2, <1>14
  <2>. QED BY <2>1, <2>2, <1>ps, ProcStatesKeep
<1>30. Notices(Dead, Todos', ReturnErrors', ReplyErrors, pc)
  <2>1. ASSUME NEW u \in Threads PROVE NoticeOK(Dead, Todos', ReturnErrors', ReplyErrors, pc, u)
    <3>1. NoticeOK(Dead, Todos, ReturnErrors, ReplyErrors, pc, u)
      BY <1>no DEF Notices
    <3>2. CASE u = th
      <4>1. ToSet(Todos'[th]) = ToSet(Todos[th]) \cup {Item("return_error")}
        BY <1>13, NoticeLast
      <4>2. Item("return_error") # Item("reply_error")
        BY NoticeTypes
      <4>3. ReturnErrors'[th] # "OK" /\ pc[th] = "user"
        BY <1>1, <1>13
      <4>. QED BY <3>1, <3>2, <4>1, <4>2, <4>3 DEF NoticeOK
    <3>3. CASE u # th
      BY <3>1, <3>3, <1>12 DEF NoticeOK
    <3>. QED BY <3>2, <3>3
  <2>. QED BY <2>1 DEF Notices
<1>31. Flags(txn, Dead, Stacks', Todos', Flagged')
  <2>1. ASSUME NEW u \in Threads, u \notin Dead PROVE FlagOK(txn, Stacks', Todos', Flagged', u)
    <3>1. FlagOK(txn, Stacks, Todos, Flagged, u)
      BY <2>1, <1>fl DEF Flags
    <3>2. CASE u = th
      <4>1. Todos'[th] # <<>>
        BY <1>13, NoticeLast
      <4>. QED BY <4>1, <3>2, <1>13 DEF FlagOK
    <3>3. CASE u # th
      BY <3>1, <3>3, <1>12 DEF FlagOK
    <3>. QED BY <3>2, <3>3
  <2>. QED BY <2>1 DEF Flags
<1>32. Inv(k2, a2, r)'
  BY <1>7, <1>8, <1>ty, <1>10, <1>11, <1>15, <1>nm, <1>17, <1>19, <1>20, <1>21, <1>22, <1>23,
     <1>24, <1>25, <1>26, <1>27, <1>28, <1>29, <1>30, <1>31, <1>tc, <1>pc, <1>ow, Whole
<1>. QED BY <1>32

\* A transaction that is freed with its buffer.
LEMMA GoneBuf ==
  /\ NoBuf \in Buf /\ BufOK(FreedTxn, NoBuf)
  /\ NoBuf.st = "none" /\ NoBuf.async = FALSE
<1>1. /\ NoBuf \in Buf /\ NoBuf.st = "none" /\ NoBuf.async = FALSE
      /\ NoBuf.transaction = FALSE
  BY DEF NoBuf, Buf
<1>2. FreedTxn.buffer = FALSE /\ FreedTxn.kind = "freed"
  BY FreedFields
<1>. QED BY <1>1, <1>2 DEF BufOK

\* What a thread that replies carries.
LEMMA ReplyFacts ==
  ASSUME NEW k, NEW a, NEW r, Inv(k, a, r), NEW th \in Threads, pc[th] = "reply",
         NEW t, t = loc[th].t, NEW c, c = loc[th].in_reply_to, NEW u, u = loc[th].target_thread
  PROVE  /\ t \in Txns /\ k[t] = "carried" /\ a[t] = th /\ txn[t].kind = "reply"
         /\ c \in Txns /\ k[c] = "carried" /\ a[c] = th /\ Sync(txn, c) /\ c # t
         /\ txn[c].to_proc = ProcOf[th] /\ u \in Threads
         /\ txn[c].from \in {u, NoThread} /\ (u \notin Dead => txn[c].from = u)
         /\ NoChild(txn, t) /\ NoChild(txn, c)
         /\ loc[th].target_proc = txn[t].to_proc /\ ProcOf[u] = loc[th].target_proc
         /\ \A s \in Txns : k[s] = "carried" => (s \in {t, c} <=> a[s] = th)
         /\ th \notin Dead /\ th \notin Waiting /\ ~loc[th].wait_for_proc_work
         /\ sfr[th] = NoTxn /\ ProcSts[ProcOf[th]] = "open"
<1>ty. Typed /\ bug = FALSE
  BY Parts
<1>ca. Carried(txn, Dead, pc, loc, k, a)
  BY Parts
<1>tr. Tree(txn, Dead, k, a, r)
  BY Parts
<1>ct. pc \in [Threads -> PCs] /\ loc \in [Threads -> Loc]
  BY Parts
<1>1. CarryOK(txn, Dead, pc, loc, k, a, th)
  BY <1>ca DEF Carried
<1>2. ReplyCarry(txn, Dead, loc[th], th, k, a)
  BY <1>1 DEF CarryOK
<1>3. /\ t \in Txns /\ k[t] = "carried" /\ a[t] = th /\ txn[t].kind = "reply"
      /\ c \in Txns /\ k[c] = "carried" /\ a[c] = th /\ Sync(txn, c)
      /\ txn[c].to_proc = ProcOf[th] /\ u \in Threads
      /\ txn[c].from \in {u, NoThread} /\ (u \notin Dead => txn[c].from = u)
      /\ loc[th].target_proc = txn[t].to_proc
  BY <1>2 DEF ReplyCarry
<1>4. ~Sync(txn, t) /\ c # t
  BY <1>3 DEF Sync
<1>5. NoChild(txn, t) /\ NoChild(txn, c)
  BY <1>3, <1>tr, LeafNoChild
<1>6. ProcOf[u] = loc[th].target_proc
  BY <1>1, <1>3, NullAssumption DEF CarryOK, Holds, Holding
<1>7. ASSUME NEW s \in Txns, k[s] = "carried" PROVE s \in {t, c} <=> a[s] = th
  <2>1. CarrierOK(pc, loc, k, a, s)
    BY <1>ca DEF Carried
  <2>. QED BY <2>1, <1>3, <1>7 DEF CarrierOK
<1>8. /\ th \notin Dead /\ th \notin Waiting /\ ~loc[th].wait_for_proc_work
      /\ sfr[th] = NoTxn /\ proc[ProcOf[th]].st = "open" /\ ProcOf[th] \in Procs
  <2>1. /\ ~thr[th].is_dead /\ ~thr[th].waiting /\ ~loc[th].wait_for_proc_work
        /\ sfr[th] = NoTxn /\ proc[ProcOf[th]].st = "open" /\ ProcOf[th] \in Procs
    BY ThreadFacts
  <2>. QED BY <2>1, <1>ty, ThreadViews
<1>9. ProcSts[ProcOf[th]] = "open"
  BY <1>8, <1>ty, ProcViews
<1>. QED BY <1>3, <1>4, <1>5, <1>6, <1>7, <1>8, <1>9

\* The caller went away since the reply was started.
LEMMA ReplyDeadStep ==
  ASSUME NEW k, NEW a, NEW r, Inv(k, a, r), NEW th \in Threads, ReplyDead(th)
  PROVE  \E k2, a2 : Inv(k2, a2, r)'
<1>gh. Ghosts(k, a, r)
  BY Parts
<1>ty. Typed /\ bug = FALSE
  BY Parts
<1>kt. Stacks \in [Threads -> 0 .. MaxTxns]
  BY Parts
<1>lt. Todos \in [Threads -> Seq(Work)]
  BY Parts
<1>xt. txn \in [Txns -> Txn]
  BY Parts
<1>bt. buf \in [Txns -> Buf]
  BY Parts
<1>tt. thr \in [Threads -> Thr]
  BY Parts
<1>ct. pc \in [Threads -> PCs] /\ loc \in [Threads -> Loc]
  BY Parts
<1>ft. sfr \in [Threads \cup Procs -> 0 .. MaxTxns]
  BY Parts
<1>nm. Names(txn)
  BY Parts
<1>tl. ThreadLists(Todos, k, a)
  BY Parts
<1>pl. TxnLists(ProcTodos, "proc", k, a)
  BY Parts
<1>al. TxnLists(AsyncTodos, "async", k, a)
  BY Parts
<1>ca. Carried(txn, Dead, pc, loc, k, a)
  BY Parts
<1>fa. Failing(sfr, k, a)
  BY Parts
<1>po. Placed(txn, Dead, k, a)
  BY Parts
<1>tr. Tree(txn, Dead, k, a, r)
  BY Parts
<1>st. AllStacks(txn, Dead, Stacks, k, a, r)
  BY Parts
<1>di. Directed(txn, Dead, Stacks, Todos, pc, loc, k, a, r)
  BY Parts
<1>bu. Buffers(txn, buf, loc, k, a)
  BY Parts
<1>dr. Drops(txn, buf, pc, loc, sfr)
  BY Parts
<1>ts. ThreadStates(Dead, Stacks, Todos, Waiting, pc, loc, sfr)
  BY Parts
<1>ps. ProcStates(ProcSts, DeadProcs, ProcTodos, ProcRefs, LiveNodes, AsyncTodos, pc, sfr)
  BY Parts
<1>tc. ThreadCounts(ThreadRefs, pc, loc)
  BY Parts
<1>pc. ProcCounts(Dead, ThreadRefs, ProcSts, ProcRefs, pc, loc)
  BY Parts
<1>ow. Oneways(buf, DeadProcs, LiveNodes, AsyncNodes, AsyncTodos, pc, loc)
  BY Parts
<1>no. Notices(Dead, Todos, ReturnErrors, ReplyErrors, pc)
  BY Parts
<1>fl. Flags(txn, Dead, Stacks, Todos, Flagged)
  BY Parts
<1>1. pc[th] = "reply"
  BY DEF ReplyDead
<1>2. PICK t, c, w : t = loc[th].t /\ c = loc[th].in_reply_to /\ w = loc[th].target_thread
  OBVIOUS
<1>3. /\ t \in Txns /\ k[t] = "carried" /\ a[t] = th /\ txn[t].kind = "reply"
      /\ c \in Txns /\ k[c] = "carried" /\ a[c] = th /\ Sync(txn, c) /\ c # t
      /\ txn[c].to_proc = ProcOf[th] /\ NoChild(txn, t) /\ NoChild(txn, c)
  BY <1>1, <1>2, ReplyFacts
<1>4. \A s \in Txns : k[s] = "carried" => (s \in {t, c} <=> a[s] = th)
  BY <1>1, <1>2, ReplyFacts
<1>5. /\ th \notin Dead /\ th \notin Waiting /\ ~loc[th].wait_for_proc_work
      /\ sfr[th] = NoTxn /\ ProcSts[ProcOf[th]] = "open"
  BY <1>1, <1>2, ReplyFacts
<1>. DEFINE k2 == [s \in Txns |-> IF s = t THEN "none" ELSE IF s = c THEN "failing" ELSE k[s]]
<1>6. /\ k2[t] = "none" /\ k2[c] = "failing" /\ a[c] = th
      /\ \A s \in Txns : s # t /\ s # c => k2[s] = k[s]
      /\ \A s \in Txns : s \notin {t, c} => k2[s] = k[s] /\ a[s] = a[s]
  BY <1>3
<1>7. Ghosts(k2, a, r)
  BY <1>gh DEF Ghosts, Kinds
<1>. HIDE DEF k2
<1>8. /\ thr' = ReturnError(thr, th, "COMPLETE") /\ txn' = [txn EXCEPT ![t] = FreedTxn]
      /\ buf' = [buf EXCEPT ![t] = NoBuf] /\ sfr' = [sfr EXCEPT ![th] = c]
      /\ pc' = [pc EXCEPT ![th] = "put"]
      /\ UNCHANGED <<proc, node, loc, bug>>
  BY <1>2 DEF ReplyDead, Without
<1>9. /\ thr' \in [Threads -> Thr]
      /\ \A u \in Threads : u # th => thr'[u] = thr[u]
      /\ thr'[th].stack = thr[th].stack
      /\ thr'[th].todo = Append(thr[th].todo, Item("return_error"))
      /\ thr'[th].process_todo /\ thr'[th].return_error = "COMPLETE"
      /\ thr'[th].reply_error = thr[th].reply_error
      /\ thr'[th].waiting = thr[th].waiting /\ thr'[th].is_dead = thr[th].is_dead
      /\ thr'[th].tmp_ref = thr[th].tmp_ref
  <2>1. "COMPLETE" \in Cmds
    BY DEF Cmds
  <2>. DEFINE T == ReturnError(thr, th, "COMPLETE")
  <2>2. /\ T \in [Threads -> Thr]
        /\ \A u \in Threads : u # th => T[u] = thr[u]
        /\ T[th].stack = thr[th].stack /\ T[th].todo = Append(thr[th].todo, Item("return_error"))
        /\ T[th].process_todo /\ T[th].return_error = "COMPLETE"
        /\ T[th].reply_error = thr[th].reply_error
        /\ T[th].waiting = thr[th].waiting /\ T[th].is_dead = thr[th].is_dead
        /\ T[th].tmp_ref = thr[th].tmp_ref
    BY <2>1, <1>tt, ReturnErrorOf
  <2>3. thr' = T
    BY <1>8
  <2>. HIDE DEF T
  <2>. QED BY <2>2, <2>3
<1>10. UNCHANGED <<Stacks, ReplyErrors, Waiting, Dead, ThreadRefs>>
  BY <1>9, OneThread
<1>11. UNCHANGED <<ProcSts, ProcTodos, DeadProcs, ProcRefs, LiveNodes, AsyncNodes, AsyncTodos>>
  BY <1>8, SameAll
<1>12. \A u \in Threads : u # th =>
         /\ Todos'[u] = Todos[u]
         /\ u \in Flagged' <=> u \in Flagged
         /\ ReturnErrors'[u] = ReturnErrors[u]
  BY <1>9, NextViews
<1>13. /\ Todos'[th] = Append(Todos[th], Item("return_error"))
       /\ th \in Flagged' /\ ReturnErrors'[th] = "COMPLETE" /\ Todos[th] \in Seq(Work)
       /\ ReturnErrors[th] = "OK"
  <2>1. Todos[th] = thr[th].todo /\ Todos[th] \in Seq(Work)
    BY <1>ty, ThreadViews
  <2>2. ReturnErrors[th] = "OK"
    BY <1>1, <1>no DEF Notices, NoticeOK
  <2>. QED BY <2>1, <2>2, <1>9, NextViews
<1>14. /\ sfr' \in [Threads \cup Procs -> 0 .. MaxTxns] /\ sfr'[th] = c
       /\ \A y \in Threads \cup Procs : y # th => sfr'[y] = sfr[y]
  BY <1>8, <1>3, <1>ft, TxnNumbers
<1>15. /\ txn' \in [Txns -> Txn] /\ txn'[t] = FreedTxn
       /\ \A s \in Txns : s # t => txn'[s] = txn[s]
  BY <1>8, <1>3, <1>xt, FreedFields
<1>16. /\ buf' \in [Txns -> Buf] /\ buf'[t] = NoBuf
       /\ \A s \in Txns : s # t => buf'[s] = buf[s]
  BY <1>8, <1>3, <1>bt, GoneBuf
<1>17. pc' \in [Threads -> PCs] /\ pc'[th] = "put" /\ \A u \in Threads : u # th => pc'[u] = pc[u]
  BY <1>8, <1>ct DEF PCs
<1>18. Typed'
  BY <1>8, <1>9, <1>14, <1>15, <1>16, <1>17, <1>ty DEF Typed
<1>19. Stay(txn, txn', k, a, k2, a, {t, c}) /\ OnlyMoves(pc, loc, pc', loc, th)
  BY <1>6, <1>15, <1>17 DEF Stay, SameTxn, OnlyMoves
<1>20. Names(txn')
  <2>1. \A s \in Txns : txn'[s].kind = "unused" <=> txn[s].kind = "unused"
    BY <1>3, <1>15, FreedFields
  <2>. QED BY <2>1, <1>nm, NamesKeep
<1>21. TxnLists(ProcTodos, "proc", k2, a) /\ TxnLists(AsyncTodos, "async", k2, a)
       /\ ThreadLists(Todos, k2, a)
  <2>1. \A kind \in {"thread", "proc", "async"} : \A s \in Txns :
           k2[s] = kind \/ k[s] = kind => k2[s] = k[s] /\ a[s] = a[s]
    BY <1>3, <1>6
  <2>. QED BY <2>1, <1>pl, <1>al, <1>tl, ListsMove
<1>22. Item("return_error") \notin ToSet(Todos[th])
  BY <1>13, <1>no DEF Notices, NoticeOK
<1>23. ThreadLists(Todos', k2, a)
  <2>1. \A u \in Threads : u # th => Todos'[u] = Todos[u]
    BY <1>12
  <2>. QED BY <2>1, <1>13, <1>21, <1>22, <1>lt, NoticeAdded
<1>24. Carried(txn', Dead, pc', loc, k2, a)
  <2>1. \A s \in Txns : s \in {t, c} => CarrierOK(pc', loc, k2, a, s)
    BY <1>6 DEF CarrierOK
  <2>2. CarryOK(txn', Dead, pc', loc, k2, a, th)
    <3>1. CarryOK(txn, Dead, pc, loc, k, a, th)
      BY <1>ca DEF Carried
    <3>. QED BY <3>1, <1>1, <1>17 DEF CarryOK, Holds, Holding
  <2>. QED BY <2>1, <2>2, <1>4, <1>19, <1>ca, CarriedStep
<1>25. Failing(sfr', k2, a)
  <2>1. /\ k[c] # "failing" /\ k2[c] = "failing" /\ a[c] = th /\ th \in Threads \cup Procs
        /\ c \in Txns /\ sfr[th] = NoTxn /\ sfr'[th] = c
    BY <1>3, <1>5, <1>6, <1>14
  <2>. DEFINE k1 == [k EXCEPT ![c] = "failing"]
  <2>2. SameBut(k, a, k1, a, c) /\ k1[c] = "failing" /\ SameBut(k1, a, k2, a, t) /\ k1[t] # "failing"
    BY <1>3, <1>6, <1>gh DEF Ghosts, SameBut
  <2>. HIDE DEF k1
  <2>3. \A y \in Threads \cup Procs : y # th => sfr'[y] = sfr[y]
    BY <1>14
  <2>4. Failing(sfr', k1, a)
    BY <2>1, <2>2, <2>3, <1>fa, <1>ft, FailStart, SMTT(60)
  <2>5. t \in Txns => k1[t] # "failing" /\ k2[t] # "failing"
    BY <2>2, <1>6
  <2>6. sfr' \in [Threads \cup Procs -> 0 .. MaxTxns] /\ SameBut(k1, a, k2, a, t)
    BY <1>14, <2>2
  <2>. QED BY <2>4, <2>5, <2>6, FailKeep
<1>26. Placed(txn', Dead, k2, a)
  <2>1. PlaceOK(txn', Dead, k2, a, t)
    BY <1>6, <1>15, FreedFields DEF PlaceOK
  <2>2. PlaceOK(txn', Dead, k2, a, c)
    <3>1. PlaceOK(txn, Dead, k, a, c)
      BY <1>3, <1>po DEF Placed
    <3>2. txn'[c] = txn[c]
      BY <1>3, <1>15
    <3>. QED BY <3>1, <3>2, <1>3, <1>6 DEF PlaceOK, Sync
  <2>3. ASSUME NEW s \in Txns, k[s] = "orphan", a[s] \in {t, c}
        PROVE  /\ txn'[a[s]].kind = txn[a[s]].kind /\ txn'[a[s]].from = txn[a[s]].from
               /\ txn'[a[s]].from_parent = txn[a[s]].from_parent
    <3>1. a[s] \in Txns /\ Sync(txn, a[s])
      BY <2>3, <1>po DEF Placed, PlaceOK
    <3>2. a[s] # t
      BY <3>1, <1>3 DEF Sync
    <3>. QED BY <3>1, <3>2, <1>15
  <2>4. \A s \in Txns : s \in {t, c} => PlaceOK(txn', Dead, k2, a, s)
    BY <2>1, <2>2
  <2>. QED BY <2>3, <2>4, <1>19, <1>po, PlacedStep
<1>27. Tree(txn', Dead, k2, a, r)
  <2>1. Keeps(txn, k, a, k2, a)
    BY <1>3, <1>6, <1>xt, TxnFields, TxnNumbers DEF Keeps, NoChild
  <2>2. Tree(txn, Dead, k2, a, r)
    BY <2>1, <1>xt, <1>tr, TreeKeep
  <2>3. txn'[t].kind # "sync" /\ txn'[t].from = NoThread /\ txn'[t].from_parent = NoTxn
    BY <1>15, FreedFields
  <2>4. \A s \in Txns : s # t /\ s # txn[t].from_parent => k2[s] = k2[s] /\ a[s] = a[s]
    OBVIOUS
  <2>5. t \in Txns /\ NoChild(txn, t) /\ \A s \in Txns : s # t => txn'[s] = txn[s]
    BY <1>3, <1>15
  <2>. QED BY <2>2, <2>3, <2>4, <2>5, <1>xt, TreeEnd
<1>28. AllStacks(txn', Dead, Stacks, k2, a, r)
  <2>1. ASSUME NEW u \in Threads PROVE Alike(txn, txn', k, a, k2, a, u, c)
    <3>1. txn'[c] = txn[c]
      BY <1>3, <1>15
    <3>. QED BY <3>1, <1>3, <1>6 DEF Alike, Mine, Below, Sync
  <2>2. ASSUME NEW u \in Threads PROVE Alike(txn, txn', k, a, k2, a, u, t)
    <3>1. ~Sync(txn, t) /\ ~Sync(txn', t)
      BY <1>3, <1>15, FreedFields DEF Sync
    <3>. QED BY <3>1 DEF Alike, Mine
  <2>3. \A s \in Txns : s \in {t, c} /\ s # c => \A u \in Threads : Alike(txn, txn', k, a, k2, a, u, s)
    BY <2>2
  <2>4. \A u \in Threads : u \notin Dead =>
          \/ Alike(txn, txn', k, a, k2, a, u, c) /\ Stacks[u] = Stacks[u]
          \/ /\ ~Mine(txn', k2, a, u, c)
             /\ Stacks[u] = IF Stacks[u] = c THEN Below(txn, u, c) ELSE Stacks[u]
    BY <2>1
  <2>. QED BY <2>3, <2>4, <1>3, <1>19, <1>xt, <1>kt, <1>tr, <1>st, StacksEnd
<1>29. Directed(txn', Dead, Stacks, Todos', pc', loc, k2, a, r)
  <2>1. Leaves(txn, {t, c})
    BY <1>3 DEF Leaves
  <2>2. \A s \in Txns : s \in {t, c} => QueuedOK(txn', Dead, Stacks, Todos', k2, a, r, s)
    BY <1>6 DEF QueuedOK
  <2>3. Calm(txn, pc, loc, k, a, {t, c}, Stacks, Stacks)
    BY DEF Calm
  <2>4. ASSUME NEW s \in Txns, k[s] = "thread", Head(Todos[a[s]]) = TxnItem(s)
        PROVE  Head(Todos'[a[s]]) = TxnItem(s)
    <3>1. Item("return_error") \in Work
      BY TxnItems
    <3>2. th \in Threads => Todos'[th] = Append(Todos[th], Item("return_error"))
      BY <1>13
    <3>3. \A u \in Threads : u # th => Todos'[u] = Todos[u]
      BY <1>12
    <3>. QED BY <3>1, <3>2, <3>3, <2>4, <1>lt, <1>tl, <1>po, HeadKept
  <2>5. ASSUME NEW u \in Threads, pc'[u] = "send"
        PROVE  pc[u] = "send" /\ loc[u] = loc[u] /\ loc[u].t \notin {t, c}
    <3>1. u # th /\ pc[u] = "send"
      BY <2>5, <1>17
    <3>2. SendCarry(txn, loc[u], u, k, a)
      BY <3>1, <1>ca DEF Carried, CarryOK
    <3>. QED BY <3>1, <3>2, <1>3 DEF SendCarry
  <2>. QED BY <2>1, <2>2, <2>3, <2>4, <2>5, <1>19, <1>xt, <1>kt, <1>di, <1>tr, <1>po, <1>ca,
       DirectedStep
<1>30. Buffers(txn', buf', loc, k2, a)
  <2>1. BufferOK(txn', buf', loc, k2, a, t)
    BY <1>6, <1>15, <1>16, GoneBuf DEF BufferOK
  <2>2. BufferOK(txn', buf', loc, k2, a, c)
    <3>1. BufferOK(txn, buf, loc, k, a, c) /\ txn'[c] = txn[c] /\ buf'[c] = buf[c]
      BY <1>3, <1>15, <1>16, <1>bu DEF Buffers
    <3>. QED BY <3>1, <1>6 DEF BufferOK
  <2>3. \A s \in Txns : s \notin {t, c} => txn'[s] = txn[s] /\ buf'[s] = buf[s]
    BY <1>15, <1>16
  <2>4. \A s \in Txns : s \in {t, c} => BufferOK(txn', buf', loc, k2, a, s)
    BY <2>1, <2>2
  <2>. QED BY <2>3, <2>4, <1>4, <1>19, <1>bu, <1>ca, BuffersStep
<1>31. Drops(txn', buf', pc', loc, sfr')
  <2>1. ASSUME NEW u \in Threads, u # th, pc[u] = "dropbuf"
        PROVE  loc[u].t \notin {t, c} /\ sfr'[u] = sfr[u]
    <3>1. k[t] \notin {"none", "failing"} /\ k[c] \notin {"none", "failing"}
      BY <1>3
    <3>2. loc[u].t # t
      BY <2>1, <3>1, <1>3, <1>dr, <1>po, <1>fa, <1>bu, DropFree
    <3>3. loc[u].t # c
      BY <2>1, <3>1, <1>3, <1>dr, <1>po, <1>fa, <1>bu, DropFree
    <3>. QED BY <3>2, <3>3, <2>1, <1>14
  <2>2. \A s \in Txns : s \notin {t, c} => buf'[s] = buf[s]
    BY <1>16
  <2>3. th \in Threads /\ pc'[th] = "dropbuf" => DropOK(txn', buf', pc', loc, sfr', th)
    BY <1>17
  <2>. QED BY <2>1, <2>2, <2>3, <1>19, <1>dr, DropsStep
<1>32. ThreadStates(Dead, Stacks, Todos', Waiting, pc', loc, sfr')
  <2>1. ASSUME NEW u \in Threads PROVE ThreadOK(Dead, Stacks, Todos', Waiting, pc', loc, sfr', u)
    <3>1. ThreadOK(Dead, Stacks, Todos, Waiting, pc, loc, sfr, u)
      BY <1>ts DEF ThreadStates
    <3>2. CASE u = th
      BY <3>1, <3>2, <1>5, <1>17 DEF ThreadOK
    <3>3. CASE u # th
      BY <3>1, <3>3, <1>12, <1>14, <1>17 DEF ThreadOK
    <3>. QED BY <3>2, <3>3
  <2>. QED BY <2>1 DEF ThreadStates
<1>33. ProcStates(ProcSts, DeadProcs, ProcTodos, ProcRefs, LiveNodes, AsyncTodos, pc', sfr')
  <2>1. \A q \in Procs : ProcSts[q] # "todo" => sfr'[q] = sfr[q]
    BY <1>14, ActorAssumption
  <2>2. ASSUME NEW u \in Threads
        PROVE  \/ ProcSts[ProcOf[u]] = "open"
               \/ pc'[u] = pc[u] /\ (sfr'[u] = sfr[u] \/ pc[u] # "user")
    BY <1>5, <1>14, <1>17
  <2>. QED BY <2>1, <2>2, <1>ps, ProcStatesKeep
<1>34. ThreadCounts(ThreadRefs, pc', loc) /\ ProcCounts(Dead, ThreadRefs, ProcSts, ProcRefs, pc', loc)
  <2>1. \A u \in Threads : SameHolds(pc, loc, pc', loc, u)
    BY <1>1, <1>17 DEF SameHolds, Holding
  <2>2. \A u \in Threads : pc'[u] = "release" <=> pc[u] = "release"
    BY <1>1, <1>17
  <2>. QED BY <2>1, <2>2, <1>tc, <1>pc, CountsKeep
<1>35. Oneways(buf', DeadProcs, LiveNodes, AsyncNodes, AsyncTodos, pc', loc)
  <2>1. ~buf[t].async
    <3>1. BufferOK(txn, buf, loc, k, a, t)
      BY <1>3, <1>bu DEF Buffers
    <3>2. Fresh(txn[t], buf[t])
      BY <3>1, <1>2, <1>3 DEF BufferOK
    <3>. QED BY <3>2, <1>3 DEF Fresh
  <2>2. buf'[t].st = "none" /\ \A s \in Txns : s # t => buf'[s] = buf[s]
    BY <1>16, GoneBuf
  <2>3. Oneways(buf', DeadProcs, LiveNodes, AsyncNodes, AsyncTodos, pc, loc)
    BY <2>1, <2>2, <1>3, <1>ow, OnewayOther
  <2>4. pc[th] # "send" /\ pc'[th] # "send"
    BY <1>1, <1>17
  <2>. QED BY <2>3, <2>4, <1>19, MoveOneways
<1>36. Notices(Dead, Todos', ReturnErrors', ReplyErrors, pc')
  <2>1. ASSUME NEW u \in Threads PROVE NoticeOK(Dead, Todos', ReturnErrors', ReplyErrors, pc', u)
    <3>1. NoticeOK(Dead, Todos, ReturnErrors, ReplyErrors, pc, u)
      BY <1>no DEF Notices
    <3>2. CASE u = th
      <4>1. ToSet(Todos'[th]) = ToSet(Todos[th]) \cup {Item("return_error")}
        BY <1>13, NoticeLast
      <4>2. Item("return_error") # Item("reply_error")
        BY NoticeTypes
      <4>3. ReturnErrors'[th] # "OK" /\ pc'[th] = "put"
        BY <1>17, <1>13
      <4>. QED BY <3>1, <3>2, <4>1, <4>2, <4>3 DEF NoticeOK
    <3>3. CASE u # th
      BY <3>1, <3>3, <1>12, <1>17 DEF NoticeOK
    <3>. QED BY <3>2, <3>3
  <2>. QED BY <2>1 DEF Notices
<1>37. Flags(txn', Dead, Stacks, Todos', Flagged')
  <2>1. ASSUME NEW u \in Threads, u \notin Dead PROVE FlagOK(txn', Stacks, Todos', Flagged', u)
    <3>1. FlagOK(txn, Stacks, Todos, Flagged, u)
      BY <2>1, <1>fl DEF Flags
    <3>2. CASE u = th
      <4>1. Todos'[th] # <<>>
        BY <1>13, NoticeLast
      <4>. QED BY <4>1, <3>2, <1>13 DEF FlagOK
    <3>3. CASE u # th
      <4>1. Stacks[u] \in 0 .. MaxTxns
        BY <1>kt
      <4>2. txn[t].from = NoThread
        BY <1>3, <1>tr DEF Tree, CallOK, Sync
      <4>3. Stacks[u] # NoTxn /\ txn[Stacks[u]].from = u => txn'[Stacks[u]].from = u
        BY <4>1, <4>2, <1>15, TxnNumbers, NullAssumption
      <4>. QED BY <3>1, <3>3, <4>3, <1>12 DEF FlagOK
    <3>. QED BY <3>2, <3>3
  <2>. QED BY <2>1 DEF Flags
<1>38. Inv(k2, a, r)'
  BY <1>7, <1>8, <1>ty, <1>10, <1>11, <1>18, <1>20, <1>21, <1>23, <1>24, <1>25, <1>26, <1>27,
     <1>28, <1>29, <1>30, <1>31, <1>32, <1>33, <1>34, <1>35, <1>36, <1>37, Whole
<1>. QED BY <1>38

\* binder_enqueue_thread_work_ilocked on one thread, and a new top of stack.
LEMMA EnqueueOf ==
  ASSUME NEW T \in [Threads -> Thr], NEW th \in Threads, NEW x \in Work
  PROVE  /\ EnqueueThreadWork(T, th, x) \in [Threads -> Thr]
         /\ \A u \in Threads : u # th => EnqueueThreadWork(T, th, x)[u] = T[u]
         /\ EnqueueThreadWork(T, th, x)[th].stack = T[th].stack
         /\ EnqueueThreadWork(T, th, x)[th].todo = Append(T[th].todo, x)
         /\ EnqueueThreadWork(T, th, x)[th].process_todo
         /\ EnqueueThreadWork(T, th, x)[th].return_error = T[th].return_error
         /\ EnqueueThreadWork(T, th, x)[th].reply_error = T[th].reply_error
         /\ EnqueueThreadWork(T, th, x)[th].waiting = T[th].waiting
         /\ EnqueueThreadWork(T, th, x)[th].is_dead = T[th].is_dead
         /\ EnqueueThreadWork(T, th, x)[th].tmp_ref = T[th].tmp_ref
<1>1. T[th] \in Thr
  OBVIOUS
<1>2. T[th].todo \in Seq(Work)
  BY <1>1 DEF Thr
<1>3. Append(T[th].todo, x) \in Seq(Work)
  BY <1>2
<1>. DEFINE y == [T[th] EXCEPT !.todo = Append(T[th].todo, x), !.process_todo = TRUE]
<1>4. y \in Thr
  BY <1>1, <1>3 DEF Thr
<1>5. /\ y.stack = T[th].stack /\ y.todo = Append(T[th].todo, x) /\ y.process_todo
      /\ y.return_error = T[th].return_error /\ y.reply_error = T[th].reply_error
      /\ y.waiting = T[th].waiting /\ y.is_dead = T[th].is_dead /\ y.tmp_ref = T[th].tmp_ref
  BY <1>1 DEF Thr
<1>6. EnqueueThreadWork(T, th, x) = [T EXCEPT ![th] = y]
  BY <1>1 DEF EnqueueThreadWork, Thr
<1>. HIDE DEF y
<1>. QED BY <1>4, <1>5, <1>6

SetStack(T, th, v) == [T EXCEPT ![th].stack = v]

\* A thread with another stack.
LEMMA SetStackOf ==
  ASSUME NEW T \in [Threads -> Thr], NEW th \in Threads, NEW v \in 0 .. MaxTxns
  PROVE  /\ SetStack(T, th, v) \in [Threads -> Thr]
         /\ \A u \in Threads : u # th => SetStack(T, th, v)[u] = T[u]
         /\ SetStack(T, th, v)[th].stack = v
         /\ SetStack(T, th, v)[th].todo = T[th].todo
         /\ SetStack(T, th, v)[th].process_todo = T[th].process_todo
         /\ SetStack(T, th, v)[th].return_error = T[th].return_error
         /\ SetStack(T, th, v)[th].reply_error = T[th].reply_error
         /\ SetStack(T, th, v)[th].waiting = T[th].waiting
         /\ SetStack(T, th, v)[th].is_dead = T[th].is_dead
         /\ SetStack(T, th, v)[th].tmp_ref = T[th].tmp_ref
<1>1. T[th] \in Thr
  OBVIOUS
<1>. DEFINE y == [T[th] EXCEPT !.stack = v]
<1>4. y \in Thr
  BY <1>1 DEF Thr
<1>5. /\ y.stack = v /\ y.todo = T[th].todo /\ y.process_todo = T[th].process_todo
      /\ y.return_error = T[th].return_error /\ y.reply_error = T[th].reply_error
      /\ y.waiting = T[th].waiting /\ y.is_dead = T[th].is_dead /\ y.tmp_ref = T[th].tmp_ref
  BY <1>1 DEF Thr
<1>6. SetStack(T, th, v) = [T EXCEPT ![th] = y]
  BY <1>1 DEF SetStack, Thr
<1>. HIDE DEF y
<1>. QED BY <1>4, <1>5, <1>6

Grow(L, L2) ==
  \A u \in Threads : L2[u] = L[u] \/ \E x \in Work : L2[u] = Append(L[u], x)

\* Lists that only grow keep their heads.
LEMMA HeadStays ==
  ASSUME NEW L \in [Threads -> Seq(Work)], NEW X, NEW D, NEW k, NEW a, ThreadLists(L, k, a),
         Placed(X, D, k, a), NEW L2, Grow(L, L2),
         NEW s \in Txns, k[s] = "thread", Head(L[a[s]]) = TxnItem(s)
  PROVE  Head(L2[a[s]]) = TxnItem(s)
<1>1. a[s] \in Threads
  BY DEF Placed, PlaceOK
<1>2. TxnItem(s) \in ToSet(L[a[s]])
  BY <1>1 DEF ThreadLists, ListOK
<1>3. CASE L2[a[s]] = L[a[s]]
  BY <1>3
<1>4. CASE L2[a[s]] # L[a[s]]
  <2>1. PICK x \in Work : L2[a[s]] = Append(L[a[s]], x)
    BY <1>1, <1>4 DEF Grow
  <2>2. L[a[s]] \in Seq(Work)
    BY <1>1
  <2>. QED BY <2>1, <2>2, <1>2, HeadAppend
<1>. QED BY <1>3, <1>4

\* Failed replies when other transactions move.
LEMMA FailMove ==
  ASSUME NEW SF, NEW k, NEW a, Failing(SF, k, a), NEW k2, NEW a2,
         SF \in [Threads \cup Procs -> 0 .. MaxTxns],
         \A s \in Txns : k2[s] = "failing" \/ k[s] = "failing" => k2[s] = k[s] /\ a2[s] = a[s]
  PROVE  Failing(SF, k2, a2)
<1>1. ASSUME NEW x \in Threads \cup Procs, SF[x] # NoTxn
      PROVE  k2[SF[x]] = "failing" /\ a2[SF[x]] = x
  <2>1. SF[x] \in Txns
    BY <1>1, TxnNumbers
  <2>. QED BY <2>1, <1>1 DEF Failing
<1>. QED BY <1>1 DEF Failing

\* A transaction on a list is none of the notices.
LEMMA TxnNoNotice ==
  \A t : \A y \in {"complete", "return_error", "reply_error"} : TxnItem(t) # Item(y)
BY DEF TxnItem, Item

\* The reply is queued on the caller, whose call is over.
LEMMA ReplySendStep ==
  ASSUME NEW k, NEW a, NEW r, Inv(k, a, r), NEW th \in Threads, ReplySend(th)
  PROVE  \E k2, a2 : Inv(k2, a2, r)'
<1>gh. Ghosts(k, a, r)
  BY Parts
<1>ty. Typed /\ bug = FALSE
  BY Parts
<1>kt. Stacks \in [Threads -> 0 .. MaxTxns]
  BY Parts
<1>lt. Todos \in [Threads -> Seq(Work)]
  BY Parts
<1>xt. txn \in [Txns -> Txn]
  BY Parts
<1>bt. buf \in [Txns -> Buf]
  BY Parts
<1>tt. thr \in [Threads -> Thr]
  BY Parts
<1>ct. pc \in [Threads -> PCs] /\ loc \in [Threads -> Loc]
  BY Parts
<1>ft. sfr \in [Threads \cup Procs -> 0 .. MaxTxns]
  BY Parts
<1>nm. Names(txn)
  BY Parts
<1>tl. ThreadLists(Todos, k, a)
  BY Parts
<1>pl. TxnLists(ProcTodos, "proc", k, a)
  BY Parts
<1>al. TxnLists(AsyncTodos, "async", k, a)
  BY Parts
<1>ca. Carried(txn, Dead, pc, loc, k, a)
  BY Parts
<1>fa. Failing(sfr, k, a)
  BY Parts
<1>po. Placed(txn, Dead, k, a)
  BY Parts
<1>tr. Tree(txn, Dead, k, a, r)
  BY Parts
<1>st. AllStacks(txn, Dead, Stacks, k, a, r)
  BY Parts
<1>di. Directed(txn, Dead, Stacks, Todos, pc, loc, k, a, r)
  BY Parts
<1>bu. Buffers(txn, buf, loc, k, a)
  BY Parts
<1>dr. Drops(txn, buf, pc, loc, sfr)
  BY Parts
<1>ts. ThreadStates(Dead, Stacks, Todos, Waiting, pc, loc, sfr)
  BY Parts
<1>ps. ProcStates(ProcSts, DeadProcs, ProcTodos, ProcRefs, LiveNodes, AsyncTodos, pc, sfr)
  BY Parts
<1>tc. ThreadCounts(ThreadRefs, pc, loc)
  BY Parts
<1>pc. ProcCounts(Dead, ThreadRefs, ProcSts, ProcRefs, pc, loc)
  BY Parts
<1>ow. Oneways(buf, DeadProcs, LiveNodes, AsyncNodes, AsyncTodos, pc, loc)
  BY Parts
<1>no. Notices(Dead, Todos, ReturnErrors, ReplyErrors, pc)
  BY Parts
<1>fl. Flags(txn, Dead, Stacks, Todos, Flagged)
  BY Parts
<1>1. pc[th] = "reply"
  BY DEF ReplySend
<1>2. PICK t, c, w : t = loc[th].t /\ c = loc[th].in_reply_to /\ w = loc[th].target_thread
  OBVIOUS
<1>3. /\ t \in Txns /\ k[t] = "carried" /\ a[t] = th /\ txn[t].kind = "reply"
      /\ c \in Txns /\ k[c] = "carried" /\ a[c] = th /\ Sync(txn, c) /\ c # t
      /\ txn[c].to_proc = ProcOf[th] /\ NoChild(txn, t) /\ NoChild(txn, c)
  BY <1>1, <1>2, ReplyFacts
<1>4. \A s \in Txns : k[s] = "carried" => (s \in {t, c} <=> a[s] = th)
  BY <1>1, <1>2, ReplyFacts
<1>5. /\ th \notin Dead /\ th \notin Waiting /\ ~loc[th].wait_for_proc_work
      /\ sfr[th] = NoTxn
  BY <1>1, <1>2, ReplyFacts
<1>a. w \in Threads /\ w \notin Dead /\ txn[c].from = w /\ ProcOf[w] = txn[t].to_proc /\ w # th
  <2>1. w \in Threads /\ (w \notin Dead => txn[c].from = w) /\ ProcOf[w] = txn[t].to_proc
    BY <1>1, <1>2, ReplyFacts
  <2>2. w \notin Dead
    BY <2>1, <1>2, <1>ty, ThreadViews DEF ReplySend
  <2>3. CallOK(txn, Dead, r, c)
    BY <1>3, <1>tr DEF Tree
  <2>4. ProcOf[w] # ProcOf[th]
    <3>1. txn[c].from # NoThread /\ txn[c].to_proc # NoProc
      BY <2>1, <2>2, <1>3, NullAssumption, ProcOfAssumption
    <3>. QED BY <3>1, <2>1, <2>2, <2>3, <1>3 DEF CallOK
  <2>. QED BY <2>1, <2>2, <2>4
<1>b. /\ Stacks[w] = c /\ \A u \in Threads : u \notin Dead /\ u # w => Stacks[u] # c
      /\ Below(txn, w, c) = txn[c].from_parent
  <2>1. \A u \in Threads : u \notin Dead => (Stacks[u] = c <=> Mine(txn, k, a, u, c))
    BY <1>3, <1>xt, <1>kt, <1>tr, <1>st, EndSeen
  <2>2. Mine(txn, k, a, w, c) /\ \A u \in Threads : u # w => ~Mine(txn, k, a, u, c)
    BY <1>a, <1>3 DEF Mine
  <2>3. Below(txn, w, c) = txn[c].from_parent
    BY <1>a, <1>3, <1>tr, CallerBelow
  <2>. QED BY <2>1, <2>2, <2>3, <1>a
<1>c. ~thr[w].waiting /\ w \notin Waiting /\ ~loc[w].wait_for_proc_work /\ thr[w].stack = c
      /\ pc[w] # "gone"
  <2>1. thr[w].stack = c /\ thr[w].stack # NoTxn /\ ~thr[w].is_dead
    BY <1>a, <1>b, <1>3, <1>ty, ThreadViews, TxnNumbers
  <2>2. ~thr[w].waiting /\ ~loc[w].wait_for_proc_work /\ pc[w] # "gone"
    BY <2>1, <1>a, ThreadFacts
  <2>. QED BY <2>1, <2>2, <1>a, <1>ty, ThreadViews
<1>. DEFINE k2 == [s \in Txns |-> IF s = t THEN "thread" ELSE IF s = c THEN "none" ELSE k[s]]
            a2 == [s \in Txns |-> IF s = t THEN w ELSE a[s]]
<1>6. /\ k2[t] = "thread" /\ k2[c] = "none" /\ a2[t] = w /\ a2[c] = th
      /\ \A s \in Txns : s # t /\ s # c => k2[s] = k[s] /\ a2[s] = a[s]
      /\ \A s \in Txns : s \notin {t, c} => k2[s] = k[s] /\ a2[s] = a[s]
  BY <1>3
<1>7. Ghosts(k2, a2, r)
  BY <1>gh, <1>a DEF Ghosts, Kinds
<1>. HIDE DEF k2, a2
<1>v. PICK v \in 0 .. MaxTxns : v = txn[c].from_parent
  BY <1>3, <1>xt, TxnFields
<1>8. /\ thr' = EnqueueThreadWork(SetStack(EnqueueThreadWork(thr, th, Item("complete")), w, v),
                                  w, TxnItem(t))
      /\ txn' = [txn EXCEPT ![c] = FreedTxn]
      /\ buf' = Unlinked(buf, c)
      /\ pc' = [pc EXCEPT ![th] = "put"]
      /\ UNCHANGED <<proc, node, loc, sfr>> /\ bug' = FALSE
  <2>1. bug' = FALSE
    BY <1>2, <1>a, <1>c, <1>ty DEF ReplySend, PopBug
  <2>. QED BY <2>1, <1>2, <1>v DEF ReplySend, Without, PopTransaction, SetStack
<1>9. /\ thr' \in [Threads -> Thr]
      /\ \A u \in Threads : u # th /\ u # w => thr'[u] = thr[u]
      /\ thr'[th].stack = thr[th].stack /\ thr'[th].todo = Append(thr[th].todo, Item("complete"))
      /\ thr'[w].stack = v /\ thr'[w].todo = Append(thr[w].todo, TxnItem(t))
      /\ \A u \in {th, w} :
           /\ thr'[u].process_todo /\ thr'[u].return_error = thr[u].return_error
           /\ thr'[u].reply_error = thr[u].reply_error
           /\ thr'[u].waiting = thr[u].waiting /\ thr'[u].is_dead = thr[u].is_dead
           /\ thr'[u].tmp_ref = thr[u].tmp_ref
  <2>1. Item("complete") \in Work /\ TxnItem(t) \in Work
    BY <1>3, TxnItems
  <2>. DEFINE T == EnqueueThreadWork(thr, th, Item("complete"))
              T2 == SetStack(T, w, v)
              T3 == EnqueueThreadWork(T2, w, TxnItem(t))
  <2>2. /\ T \in [Threads -> Thr]
        /\ \A u \in Threads : u # th => T[u] = thr[u]
        /\ T[th].stack = thr[th].stack /\ T[th].todo = Append(thr[th].todo, Item("complete"))
        /\ T[th].process_todo /\ T[th].return_error = thr[th].return_error
        /\ T[th].reply_error = thr[th].reply_error
        /\ T[th].waiting = thr[th].waiting /\ T[th].is_dead = thr[th].is_dead
        /\ T[th].tmp_ref = thr[th].tmp_ref
    BY <2>1, <1>tt, EnqueueOf
  <2>. HIDE DEF T
  <2>3. /\ T2 \in [Threads -> Thr]
        /\ \A u \in Threads : u # w => T2[u] = T[u]
        /\ T2[w].stack = v /\ T2[w].todo = T[w].todo
        /\ T2[w].return_error = T[w].return_error
        /\ T2[w].reply_error = T[w].reply_error
        /\ T2[w].waiting = T[w].waiting /\ T2[w].is_dead = T[w].is_dead
        /\ T2[w].tmp_ref = T[w].tmp_ref
    BY <2>2, <1>a, SetStackOf
  <2>. HIDE DEF T2
  <2>4. /\ T3 \in [Threads -> Thr]
        /\ \A u \in Threads : u # w => T3[u] = T2[u]
        /\ T3[w].stack = T2[w].stack /\ T3[w].todo = Append(T2[w].todo, TxnItem(t))
        /\ T3[w].process_todo /\ T3[w].return_error = T2[w].return_error
        /\ T3[w].reply_error = T2[w].reply_error
        /\ T3[w].waiting = T2[w].waiting /\ T3[w].is_dead = T2[w].is_dead
        /\ T3[w].tmp_ref = T2[w].tmp_ref
    BY <2>1, <2>3, <1>a, EnqueueOf
  <2>5. thr' = T3
    BY <1>8 DEF T, T2
  <2>. HIDE DEF T3
  <2>. QED BY <2>2, <2>3, <2>4, <2>5, <1>a
<1>10. UNCHANGED <<ReturnErrors, ReplyErrors, Waiting, Dead, ThreadRefs>>
  <2>1. \A u \in Threads : /\ thr'[u].return_error = thr[u].return_error
                           /\ thr'[u].reply_error = thr[u].reply_error
                           /\ thr'[u].waiting = thr[u].waiting
                           /\ thr'[u].is_dead = thr[u].is_dead /\ thr'[u].tmp_ref = thr[u].tmp_ref
    BY <1>9
  <2>. QED BY <2>1, SameThreads
<1>11. UNCHANGED <<ProcSts, ProcTodos, DeadProcs, ProcRefs, LiveNodes, AsyncNodes, AsyncTodos>>
  BY <1>8, SameAll
<1>12. \A u \in Threads : u # th /\ u # w =>
         /\ Todos'[u] = Todos[u]
         /\ u \in Flagged' <=> u \in Flagged
  BY <1>9, NextViews
<1>13. /\ Todos'[th] = Append(Todos[th], Item("complete"))
       /\ Todos'[w] = Append(Todos[w], TxnItem(t))
       /\ th \in Flagged' /\ w \in Flagged' /\ Todos[th] \in Seq(Work) /\ Todos[w] \in Seq(Work)
       /\ Stacks'[w] = v /\ \A u \in Threads : u # w => Stacks'[u] = Stacks[u]
  <2>1. /\ Todos[th] = thr[th].todo /\ Todos[w] = thr[w].todo /\ Stacks[th] = thr[th].stack
        /\ Todos[th] \in Seq(Work) /\ Todos[w] \in Seq(Work)
    BY <1>a, <1>ty, ThreadViews
  <2>2. \A u \in Threads : u # w => Stacks'[u] = Stacks[u]
    BY <2>1, <1>9, <1>a, NextViews
  <2>. QED BY <2>1, <2>2, <1>9, <1>a, NextViews
<1>15. /\ txn' \in [Txns -> Txn] /\ txn'[c] = FreedTxn
       /\ \A s \in Txns : s # c => txn'[s] = txn[s]
  BY <1>8, <1>3, <1>xt, FreedFields
<1>16. /\ buf' \in [Txns -> Buf] /\ \A s \in Txns : s # c => buf'[s] = buf[s]
       /\ buf'[c].st = buf[c].st /\ buf'[c].async = buf[c].async /\ buf'[c].node = buf[c].node
       /\ BufOK(FreedTxn, buf'[c])
  <2>1. BufOK(txn[c], buf[c])
    BY <1>3, <1>bu DEF Buffers, BufferOK
  <2>. QED BY <2>1, <1>3, <1>8, <1>bt, UnlinkedOf
<1>17. pc' \in [Threads -> PCs] /\ pc'[th] = "put" /\ \A u \in Threads : u # th => pc'[u] = pc[u]
  BY <1>8, <1>ct DEF PCs
<1>18. Typed'
  BY <1>8, <1>9, <1>15, <1>16, <1>17, <1>ty DEF Typed
<1>19. Stay(txn, txn', k, a, k2, a2, {t, c}) /\ OnlyMoves(pc, loc, pc', loc, th)
  BY <1>6, <1>15, <1>17 DEF Stay, SameTxn, OnlyMoves
<1>20. Names(txn')
  <2>1. \A s \in Txns : txn'[s].kind = "unused" <=> txn[s].kind = "unused"
    BY <1>3, <1>15, FreedFields DEF Sync
  <2>. QED BY <2>1, <1>nm, NamesKeep
<1>21. TxnLists(ProcTodos, "proc", k2, a2) /\ TxnLists(AsyncTodos, "async", k2, a2)
  <2>1. \A kind \in {"proc", "async"} : \A s \in Txns :
           k2[s] = kind \/ k[s] = kind => k2[s] = k[s] /\ a2[s] = a[s]
    BY <1>3, <1>6
  <2>. QED BY <2>1, <1>pl, <1>al, ListsMove
<1>23. ThreadLists(Todos', k2, a2)
  <2>. DEFINE k1 == [k EXCEPT ![c] = "none"]
  <2>1. SameBut(k, a, k1, a, c) /\ k1[c] # "thread" /\ SameBut(k1, a, k2, a2, t) /\ k1[t] = "carried"
    BY <1>3, <1>6, <1>gh DEF Ghosts, SameBut
  <2>. HIDE DEF k1
  <2>2. c \in Txns => k[c] # "thread" /\ k1[c] # "thread"
    BY <2>1, <1>3
  <2>3. ThreadLists(Todos, k1, a)
    BY <2>1, <2>2, <1>tl, ThreadListsKeep
  <2>4. ASSUME NEW u \in Threads PROVE ListOK(Todos'[u], k2, a2, u)
    <3>1. ListOK(Todos[u], k1, a, u)
      BY <2>3 DEF ThreadLists
    <3>2. CASE u = w
      BY <3>1, <3>2, <2>1, <1>3, <1>6, <1>13, ListTxn
    <3>3. CASE u # w
      <4>1. t \in Txns => ~(k1[t] = "thread" /\ a[t] = u) /\ ~(k2[t] = "thread" /\ a2[t] = u)
        BY <3>3, <2>1, <1>6
      <4>2. ListOK(Todos[u], k2, a2, u)
        BY <3>1, <4>1, <2>1, ListKeep
      <4>3. CASE u = th
        BY <4>2, <4>3, <1>13, ListNotice
      <4>4. CASE u # th
        BY <4>2, <4>4, <3>3, <1>12
      <4>. QED BY <4>3, <4>4
    <3>. QED BY <3>2, <3>3
  <2>. QED BY <2>4 DEF ThreadLists
<1>24. Carried(txn', Dead, pc', loc, k2, a2)
  <2>1. \A s \in Txns : s \in {t, c} => CarrierOK(pc', loc, k2, a2, s)
    BY <1>6 DEF CarrierOK
  <2>2. CarryOK(txn', Dead, pc', loc, k2, a2, th)
    <3>1. CarryOK(txn, Dead, pc, loc, k, a, th)
      BY <1>ca DEF Carried
    <3>. QED BY <3>1, <1>1, <1>17 DEF CarryOK, Holds, Holding
  <2>. QED BY <2>1, <2>2, <1>4, <1>19, <1>ca, CarriedStep
<1>25. Failing(sfr, k2, a2)
  <2>1. \A s \in Txns : k2[s] = "failing" \/ k[s] = "failing" => k2[s] = k[s] /\ a2[s] = a[s]
    BY <1>3, <1>6
  <2>. QED BY <2>1, <1>fa, <1>ft, FailMove
<1>26. Placed(txn', Dead, k2, a2)
  <2>1. PlaceOK(txn', Dead, k2, a2, c)
    BY <1>6, <1>15, FreedFields DEF PlaceOK
  <2>2. PlaceOK(txn', Dead, k2, a2, t)
    <3>1. PlaceOK(txn, Dead, k, a, t)
      BY <1>3, <1>po DEF Placed
    <3>2. txn'[t] = txn[t]
      BY <1>3, <1>15
    <3>. QED BY <3>1, <3>2, <1>a, <1>3, <1>6 DEF PlaceOK, Sync
  <2>3. ASSUME NEW s \in Txns, k[s] = "orphan", s \notin {t, c}, a[s] \in {t, c}
        PROVE  /\ txn'[a[s]].kind = txn[a[s]].kind /\ txn'[a[s]].from = txn[a[s]].from
               /\ txn'[a[s]].from_parent = txn[a[s]].from_parent
    <3>1. a[s] \in Txns /\ txn[a[s]].from = NoThread
      BY <2>3, <1>po DEF Placed, PlaceOK
    <3>2. a[s] # c
      BY <3>1, <1>a, NullAssumption
    <3>. QED BY <3>1, <3>2, <1>15
  <2>4. \A s \in Txns : s \in {t, c} => PlaceOK(txn', Dead, k2, a2, s)
    BY <2>1, <2>2
  <2>. QED BY <2>3, <2>4, <1>19, <1>po, PlacedStep
<1>27. Tree(txn', Dead, k2, a2, r)
  <2>1. Keeps(txn, k, a, k2, a2)
    BY <1>3, <1>6, <1>xt, TxnFields, TxnNumbers DEF Keeps, NoChild
  <2>2. Tree(txn, Dead, k2, a2, r)
    BY <2>1, <1>xt, <1>tr, TreeKeep
  <2>3. txn'[c].kind # "sync" /\ txn'[c].from = NoThread /\ txn'[c].from_parent = NoTxn
    BY <1>15, FreedFields
  <2>4. \A s \in Txns : s # c /\ s # txn[c].from_parent => k2[s] = k2[s] /\ a2[s] = a2[s]
    OBVIOUS
  <2>5. c \in Txns /\ NoChild(txn, c) /\ \A s \in Txns : s # c => txn'[s] = txn[s]
    BY <1>3, <1>15
  <2>. QED BY <2>2, <2>3, <2>4, <2>5, <1>xt, TreeEnd
<1>28. AllStacks(txn', Dead, Stacks', k2, a2, r)
  <2>1. ASSUME NEW u \in Threads PROVE Alike(txn, txn', k, a, k2, a2, u, t)
    <3>1. ~Sync(txn, t) /\ ~Sync(txn', t)
      BY <1>3, <1>15, FreedFields DEF Sync
    <3>. QED BY <3>1 DEF Alike, Mine
  <2>2. \A s \in Txns : s \in {t, c} /\ s # c => \A u \in Threads : Alike(txn, txn', k, a, k2, a2, u, s)
    BY <2>1
  <2>3. ASSUME NEW u \in Threads, u \notin Dead
        PROVE /\ ~Mine(txn', k2, a2, u, c)
              /\ Stacks'[u] = IF Stacks[u] = c THEN Below(txn, u, c) ELSE Stacks[u]
    <3>1. ~Mine(txn', k2, a2, u, c)
      BY <1>15, FreedFields DEF Mine, Sync
    <3>. QED BY <3>1, <2>3, <1>b, <1>v, <1>13
  <2>. QED BY <2>2, <2>3, <1>3, <1>19, <1>xt, <1>kt, <1>tr, <1>st, StacksEnd
<1>h. Grow(Todos, Todos')
  <2>1. Item("complete") \in Work /\ TxnItem(t) \in Work
    BY <1>3, TxnItems
  <2>. QED BY <2>1, <1>12, <1>13 DEF Grow
<1>29. Directed(txn', Dead, Stacks', Todos', pc', loc, k2, a2, r)
  <2>1. Leaves(txn, {t, c})
    BY <1>3 DEF Leaves
  <2>2. \A s \in Txns : s \in {t, c} => QueuedOK(txn', Dead, Stacks', Todos', k2, a2, r, s)
    <3>1. ~Sync(txn', t) /\ k2[c] = "none"
      BY <1>3, <1>6, <1>15 DEF Sync
    <3>. QED BY <3>1 DEF QueuedOK
  <2>3. Calm(txn, pc, loc, k, a, {t, c}, Stacks, Stacks')
    <3>1. Stacks[w] # NoTxn /\ NoChild(txn, Stacks[w])
      BY <1>b, <1>3, TxnNumbers
    <3>2. Quiet(txn, pc, loc, k, a, {t, c}, w)
      BY <3>1, <1>a, <1>xt, <1>kt, <1>di, <1>tr, <1>ca, EndQuiet
    <3>. QED BY <3>2, <1>13 DEF Calm
  <2>4. ASSUME NEW s \in Txns, k[s] = "thread", Head(Todos[a[s]]) = TxnItem(s)
        PROVE  Head(Todos'[a[s]]) = TxnItem(s)
    BY <2>4, <1>h, <1>lt, <1>tl, <1>po, HeadStays
  <2>5. ASSUME NEW u \in Threads, pc'[u] = "send"
        PROVE  pc[u] = "send" /\ loc[u] = loc[u] /\ loc[u].t \notin {t, c}
    <3>1. u # th /\ pc[u] = "send"
      BY <2>5, <1>17
    <3>2. SendCarry(txn, loc[u], u, k, a)
      BY <3>1, <1>ca DEF Carried, CarryOK
    <3>. QED BY <3>1, <3>2, <1>3 DEF SendCarry
  <2>. QED BY <2>1, <2>2, <2>3, <2>4, <2>5, <1>19, <1>xt, <1>kt, <1>di, <1>tr, <1>po, <1>ca,
       DirectedStep
<1>30. Buffers(txn', buf', loc, k2, a2)
  <2>1. BufferOK(txn', buf', loc, k2, a2, c)
    BY <1>6, <1>15, <1>16 DEF BufferOK
  <2>2. BufferOK(txn', buf', loc, k2, a2, t)
    <3>1. BufferOK(txn, buf, loc, k, a, t) /\ txn'[t] = txn[t] /\ buf'[t] = buf[t]
      BY <1>3, <1>15, <1>16, <1>bu DEF Buffers
    <3>. QED BY <3>1, <1>2, <1>3, <1>6 DEF BufferOK
  <2>3. \A s \in Txns : s \notin {t, c} => txn'[s] = txn[s] /\ buf'[s] = buf[s]
    BY <1>15, <1>16
  <2>4. \A s \in Txns : s \in {t, c} => BufferOK(txn', buf', loc, k2, a2, s)
    BY <2>1, <2>2
  <2>. QED BY <2>3, <2>4, <1>4, <1>19, <1>bu, <1>ca, BuffersStep
<1>31. Drops(txn', buf', pc', loc, sfr)
  <2>1. ASSUME NEW u \in Threads, u # th, pc[u] = "dropbuf"
        PROVE  loc[u].t \notin {t, c} /\ sfr[u] = sfr[u]
    <3>1. k[t] \notin {"none", "failing"} /\ k[c] \notin {"none", "failing"}
      BY <1>3
    <3>2. loc[u].t # t
      BY <2>1, <3>1, <1>3, <1>dr, <1>po, <1>fa, <1>bu, DropFree
    <3>3. loc[u].t # c
      BY <2>1, <3>1, <1>3, <1>dr, <1>po, <1>fa, <1>bu, DropFree
    <3>. QED BY <3>2, <3>3
  <2>2. \A s \in Txns : s \notin {t, c} => buf'[s] = buf[s]
    BY <1>16
  <2>3. th \in Threads /\ pc'[th] = "dropbuf" => DropOK(txn', buf', pc', loc, sfr, th)
    BY <1>17
  <2>. QED BY <2>1, <2>2, <2>3, <1>19, <1>dr, DropsStep
<1>32. ThreadStates(Dead, Stacks', Todos', Waiting, pc', loc, sfr)
  <2>1. ASSUME NEW u \in Threads PROVE ThreadOK(Dead, Stacks', Todos', Waiting, pc', loc, sfr, u)
    <3>1. ThreadOK(Dead, Stacks, Todos, Waiting, pc, loc, sfr, u)
      BY <1>ts DEF ThreadStates
    <3>2. CASE u = th
      BY <3>1, <3>2, <1>5, <1>17 DEF ThreadOK
    <3>3. CASE u = w
      BY <3>1, <3>3, <1>a, <1>c, <1>17 DEF ThreadOK
    <3>4. CASE u # th /\ u # w
      BY <3>1, <3>4, <1>12, <1>13, <1>17 DEF ThreadOK
    <3>. QED BY <3>2, <3>3, <3>4
  <2>. QED BY <2>1 DEF ThreadStates
<1>33. ProcStates(ProcSts, DeadProcs, ProcTodos, ProcRefs, LiveNodes, AsyncTodos, pc', sfr)
  <2>1. ProcSts[ProcOf[th]] = "open"
    BY <1>1, <1>2, ReplyFacts
  <2>2. ASSUME NEW u \in Threads
        PROVE  \/ ProcSts[ProcOf[u]] = "open"
               \/ pc'[u] = pc[u] /\ (sfr[u] = sfr[u] \/ pc[u] # "user")
    BY <2>1, <1>17
  <2>. QED BY <2>2, <1>ps, ProcStatesKeep
<1>34. ThreadCounts(ThreadRefs, pc', loc) /\ ProcCounts(Dead, ThreadRefs, ProcSts, ProcRefs, pc', loc)
  <2>1. \A u \in Threads : SameHolds(pc, loc, pc', loc, u)
    BY <1>1, <1>17 DEF SameHolds, Holding
  <2>2. \A u \in Threads : pc'[u] = "release" <=> pc[u] = "release"
    BY <1>1, <1>17
  <2>. QED BY <2>1, <2>2, <1>tc, <1>pc, CountsKeep
<1>35. Oneways(buf', DeadProcs, LiveNodes, AsyncNodes, AsyncTodos, pc', loc)
  <2>1. \A s \in Txns : /\ buf'[s].st # "none" <=> buf[s].st # "none"
                        /\ buf'[s].async <=> buf[s].async
                        /\ buf'[s].node = buf[s].node
    BY <1>16
  <2>2. Oneways(buf', DeadProcs, LiveNodes, AsyncNodes, AsyncTodos, pc, loc)
    BY <2>1, <1>ow, OnewaysKeep
  <2>3. pc[th] # "send" /\ pc'[th] # "send"
    BY <1>1, <1>17
  <2>. QED BY <2>2, <2>3, <1>19, MoveOneways
<1>36. Notices(Dead, Todos', ReturnErrors, ReplyErrors, pc')
  <2>1. ASSUME NEW u \in Threads PROVE NoticeOK(Dead, Todos', ReturnErrors, ReplyErrors, pc', u)
    <3>1. NoticeOK(Dead, Todos, ReturnErrors, ReplyErrors, pc, u)
      BY <1>no DEF Notices
    <3>2. CASE u = th
      <4>1. ToSet(Todos'[th]) = ToSet(Todos[th]) \cup {Item("complete")}
        BY <1>13, NoticeLast
      <4>2. Item("complete") # Item("reply_error") /\ Item("complete") # Item("return_error")
        BY NoticeTypes
      <4>. QED BY <3>1, <3>2, <4>1, <4>2, <1>17 DEF NoticeOK
    <3>3. CASE u = w
      <4>1. ToSet(Todos'[w]) = ToSet(Todos[w]) \cup {TxnItem(t)}
        BY <1>13, <1>3, TxnItems, SeqAppend
      <4>2. TxnItem(t) # Item("reply_error") /\ TxnItem(t) # Item("return_error")
        BY TxnNoNotice
      <4>. QED BY <3>1, <3>3, <4>1, <4>2, <1>a, <1>17 DEF NoticeOK
    <3>4. CASE u # th /\ u # w
      BY <3>1, <3>4, <1>12, <1>17 DEF NoticeOK
    <3>. QED BY <3>2, <3>3, <3>4
  <2>. QED BY <2>1 DEF Notices
<1>37. Flags(txn', Dead, Stacks', Todos', Flagged')
  <2>1. ASSUME NEW u \in Threads, u \notin Dead PROVE FlagOK(txn', Stacks', Todos', Flagged', u)
    <3>1. FlagOK(txn, Stacks, Todos, Flagged, u)
      BY <2>1, <1>fl DEF Flags
    <3>2. CASE u = th \/ u = w
      <4>1. Todos'[u] # <<>> /\ u \in Flagged'
        BY <3>2, <1>3, <1>13, TxnItems, SeqAppend, NoticeLast
      <4>. QED BY <4>1 DEF FlagOK
    <3>3. CASE u # th /\ u # w
      <4>1. Stacks[u] \in 0 .. MaxTxns /\ Stacks[u] # c
        BY <2>1, <3>3, <1>kt, <1>b
      <4>3. Stacks[u] # NoTxn /\ txn[Stacks[u]].from = u => txn'[Stacks[u]].from = u
        BY <4>1, <1>15, TxnNumbers
      <4>. QED BY <3>1, <3>3, <4>3, <1>12, <1>13 DEF FlagOK
    <3>. QED BY <3>2, <3>3
  <2>. QED BY <2>1 DEF Flags
<1>38. Inv(k2, a2, r)'
  BY <1>7, <1>8, <1>10, <1>11, <1>18, <1>20, <1>21, <1>23, <1>24, <1>25, <1>26, <1>27,
     <1>28, <1>29, <1>30, <1>31, <1>32, <1>33, <1>34, <1>35, <1>36, <1>37, Whole
<1>. QED BY <1>38

\* binder_last_id: the next name is the first that is unused.
LEMMA FreshName ==
  ASSUME Names(txn), NextId <= MaxTxns
  PROVE  /\ NextId \in Txns /\ txn[NextId].kind = "unused"
         /\ \A s \in Txns : txn[s].kind # "unused" <=> s < NextId
<1>. DEFINE U == {s \in Txns : txn[s].kind # "unused"}
<1>1. NextId = 1 + Cardinality(U)
  BY DEF NextId
<1>2. CASE U = {}
  <2>1. Cardinality(U) = 0
    BY <1>2, FS_EmptySet
  <2>2. NextId = 1 /\ \A s \in Txns : txn[s].kind = "unused"
    BY <2>1, <1>1, <1>2
  <2>. QED BY <2>2, BoundAssumption DEF Txns
<1>3. CASE U # {}
  <2>1. PICK n \in U : \A y \in U : n >= y
    <3>1. U \in SUBSET (0 .. MaxTxns) /\ MaxTxns \in Nat
      BY BoundAssumption DEF Txns
    <3>. HIDE DEF U
    <3>. QED BY <3>1, <1>3, Largest
  <2>2. n \in Txns /\ n \in Nat
    BY <2>1, TxnNumbers
  <2>3. \A s \in Txns : s \in U <=> s <= n
    <3>1. \A s \in Txns : s \in U => s <= n
      BY <2>1, <2>2, TxnNumbers
    <3>2. ASSUME NEW s \in Txns, s <= n PROVE s \in U
      <4>1. CASE s = n
        BY <4>1, <2>1
      <4>2. CASE s # n
        <5>1. s < n
          BY <4>2, <3>2, <2>2, TxnNumbers
        <5>2. txn[n].kind # "unused"
          BY <2>1
        <5>. QED BY <5>1, <5>2, <2>2 DEF Names
      <4>. QED BY <4>1, <4>2
    <3>. QED BY <3>1, <3>2
  <2>4. U = 1 .. n
    BY <2>2, <2>3, BoundAssumption DEF Txns
  <2>5. Cardinality(U) = n
    <3>1. Cardinality(1 .. n) = n
      BY <2>2, FS_Interval
    <3>. QED BY <3>1, <2>4
  <2>6. NextId = n + 1
    BY <2>5, <1>1, <2>2
  <2>7. NextId \in Txns /\ NextId \notin U
    BY <2>6, <2>4, <2>2, BoundAssumption DEF Txns
  <2>8. \A s \in Txns : txn[s].kind # "unused" <=> s < NextId
    BY <2>3, <2>6, <2>2, TxnNumbers
  <2>. QED BY <2>7, <2>8
<1>. QED BY <1>2, <1>3

\* A name that is unused is nowhere.
LEMMA FreshFacts ==
  ASSUME NEW k, NEW a, NEW r, Inv(k, a, r), NextId <= MaxTxns, NEW t, t = NextId
  PROVE  /\ t \in Txns /\ txn[t].kind = "unused" /\ ~Sync(txn, t) /\ k[t] = "none"
         /\ NoChild(txn, t) /\ txn[t].from = NoThread /\ ~buf[t].async
         /\ \A s \in Txns : txn[s].kind # "unused" <=> s < t
<1>nm. Names(txn)
  BY Parts
<1>po. Placed(txn, Dead, k, a)
  BY Parts
<1>tr. Tree(txn, Dead, k, a, r)
  BY Parts
<1>bu. Buffers(txn, buf, loc, k, a)
  BY Parts
<1>1. /\ t \in Txns /\ txn[t].kind = "unused"
      /\ \A s \in Txns : txn[s].kind # "unused" <=> s < t
  BY <1>nm, FreshName
<1>2. ~Sync(txn, t) /\ k[t] = "none"
  BY <1>1, <1>po DEF Sync, Placed, PlaceOK
<1>3. NoChild(txn, t)
  BY <1>1, <1>2, <1>tr, LeafNoChild
<1>4. txn[t].from = NoThread
  BY <1>1, <1>2, <1>tr DEF Tree, CallOK
<1>5. BufOK(txn[t], buf[t])
  BY <1>1, <1>bu DEF Buffers, BufferOK
<1>. QED BY <1>1, <1>2, <1>3, <1>4, <1>5 DEF BufOK

\* A reference taken on a thread, and one on a process.
HoldThr(T, w) == IF w = NoThread THEN T ELSE [T EXCEPT ![w].tmp_ref = @ + 1]

\* binder_transaction takes a tmp_ref of its target thread.
LEMMA HoldOf ==
  ASSUME NEW T \in [Threads -> Thr], NEW w \in Threads \cup {NoThread}
  PROVE  /\ HoldThr(T, w) \in [Threads -> Thr]
         /\ \A u \in Threads :
              /\ HoldThr(T, w)[u].stack = T[u].stack /\ HoldThr(T, w)[u].todo = T[u].todo
              /\ HoldThr(T, w)[u].process_todo = T[u].process_todo
              /\ HoldThr(T, w)[u].return_error = T[u].return_error
              /\ HoldThr(T, w)[u].reply_error = T[u].reply_error
              /\ HoldThr(T, w)[u].waiting = T[u].waiting
              /\ HoldThr(T, w)[u].is_dead = T[u].is_dead
              /\ HoldThr(T, w)[u].tmp_ref = T[u].tmp_ref + One(u = w)
<1>0. \A u \in Threads : T[u].tmp_ref \in Int
  BY DEF Thr
<1>1. CASE w = NoThread
  <2>1. HoldThr(T, w) = T
    BY <1>1 DEF HoldThr
  <2>2. ASSUME NEW u \in Threads PROVE T[u].tmp_ref = T[u].tmp_ref + One(u = w)
    <3>1. One(u = w) = 0
      BY <1>1, NullAssumption DEF One
    <3>. QED BY <3>1, <1>0
  <2>. QED BY <2>1, <2>2
<1>2. CASE w # NoThread
  <2>1. w \in Threads /\ T[w] \in Thr
    BY <1>2
  <2>2. PICK n \in Int : n = T[w].tmp_ref
    BY <2>1, <1>0
  <2>. DEFINE y == [T[w] EXCEPT !.tmp_ref = n + 1]
  <2>3. y \in Thr
    BY <2>1, SMTT(60) DEF Thr
  <2>4. /\ y.stack = T[w].stack /\ y.todo = T[w].todo /\ y.process_todo = T[w].process_todo
        /\ y.return_error = T[w].return_error /\ y.reply_error = T[w].reply_error
        /\ y.waiting = T[w].waiting /\ y.is_dead = T[w].is_dead /\ y.tmp_ref = n + 1
    BY <2>1 DEF Thr
  <2>5. HoldThr(T, w) = [T EXCEPT ![w] = y]
    BY <2>1, <2>2, <1>2 DEF HoldThr, Thr
  <2>. HIDE DEF y
  <2>6. HoldThr(T, w) \in [Threads -> Thr]
    BY <2>3, <2>5, <2>1
  <2>7. ASSUME NEW u \in Threads
        PROVE  /\ HoldThr(T, w)[u].stack = T[u].stack /\ HoldThr(T, w)[u].todo = T[u].todo
               /\ HoldThr(T, w)[u].process_todo = T[u].process_todo
               /\ HoldThr(T, w)[u].return_error = T[u].return_error
               /\ HoldThr(T, w)[u].reply_error = T[u].reply_error
               /\ HoldThr(T, w)[u].waiting = T[u].waiting
               /\ HoldThr(T, w)[u].is_dead = T[u].is_dead
               /\ HoldThr(T, w)[u].tmp_ref = T[u].tmp_ref + One(u = w)
    <3>1. CASE u = w
      <4>1. HoldThr(T, w)[u] = y /\ One(u = w) = 1
        BY <3>1, <2>1, <2>5 DEF One
      <4>. QED BY <4>1, <3>1, <2>2, <2>4
    <3>2. CASE u # w
      <4>1. HoldThr(T, w)[u] = T[u] /\ One(u = w) = 0
        BY <3>2, <2>5 DEF One
      <4>. QED BY <4>1, <1>0
    <3>. QED BY <3>1, <3>2
  <2>. QED BY <2>6, <2>7
<1>. QED BY <1>1, <1>2

IncProc(q) == proc' = [proc EXCEPT ![q].tmp_ref = @ + 1]

\* And of its target process.
LEMMA HoldProc ==
  ASSUME Typed, NEW q \in Procs, IncProc(q)
  PROVE  /\ proc' \in [Procs -> Prc] /\ UNCHANGED <<ProcSts, ProcTodos, DeadProcs>>
         /\ \A p \in Procs : ProcRefs'[p] = ProcRefs[p] + One(p = q)
<1>1. proc[q] \in Prc /\ proc \in [Procs -> Prc] /\ \A p \in Procs : ProcRefs[p] \in Int
  BY ProcViews DEF Typed
<1>2. PICK n \in Int : n = proc[q].tmp_ref
  BY ProcViews
<1>. DEFINE x == [proc[q] EXCEPT !.tmp_ref = n + 1]
<1>3. x \in Prc /\ x.st = proc[q].st /\ x.todo = proc[q].todo /\ x.is_dead = proc[q].is_dead
      /\ x.tmp_ref = n + 1
  <2>1. proc[q] \in Prc /\ n + 1 \in Int
    BY <1>1
  <2>2. PICK m \in Int : m = n + 1
    BY <2>1
  <2>3. LET y == [proc[q] EXCEPT !.tmp_ref = m]
        IN y \in Prc /\ y.st = proc[q].st /\ y.todo = proc[q].todo /\ y.is_dead = proc[q].is_dead
           /\ y.tmp_ref = m
    BY <2>1 DEF Prc
  <2>. QED BY <2>2, <2>3
<1>4. proc' = [proc EXCEPT ![q] = x]
  BY <1>1, <1>2, Zenon DEF IncProc
<1>. HIDE DEF x
<1>t. Typed
  OBVIOUS
<1>a. proc' \in [Procs -> Prc]
  BY <1>3, <1>4, <1>t, ProcChange
<1>b. ProcRefs'[q] = x.tmp_ref
  <2>1. proc'[q] = x
    BY <1>4, <1>1
  <2>. QED BY <2>1 DEF ProcRefs
<1>c. ASSUME NEW p \in Procs, p # q PROVE ProcRefs'[p] = ProcRefs[p]
  <2>1. proc'[p] = proc[p]
    BY <1>4, <1>1, <1>c
  <2>. QED BY <2>1 DEF ProcRefs
<1>5. /\ proc' \in [Procs -> Prc] /\ ProcRefs'[q] = x.tmp_ref
      /\ \A p \in Procs : p # q => ProcRefs'[p] = ProcRefs[p]
  BY <1>a, <1>b, <1>c
<1>7. ProcSts' = ProcSts
  BY <1>3, <1>4, <1>t, ProcChange
<1>8. ProcTodos' = ProcTodos
  BY <1>3, <1>4, <1>t, ProcChange
<1>9. DeadProcs' = DeadProcs
  BY <1>3, <1>4, <1>t, ProcChange
<1>6. ASSUME NEW p \in Procs PROVE ProcRefs'[p] = ProcRefs[p] + One(p = q)
  <2>1. CASE p = q
    BY <2>1, <1>2, <1>3, <1>5, ProcViews DEF One
  <2>2. CASE p # q
    BY <2>2, <1>1, <1>5 DEF One
  <2>. QED BY <2>1, <2>2
<1>. QED BY <1>5, <1>6, <1>7, <1>8, <1>9

\* The counts of a thread that starts to hold a target.
LEMMA CountsHold ==
  ASSUME NEW PC, NEW LC, NEW PC2, NEW LC2, NEW th \in Threads,
         \A u \in Threads : u # th => SameHolds(PC, LC, PC2, LC2, u),
         ~Holding(PC, th), Holding(PC2, th),
         \A u \in Threads : PC2[u] = "release" <=> PC[u] = "release",
         NEW w, w = LC2[th].target_thread, NEW q, q = LC2[th].target_proc,
         NEW D, NEW TR, NEW PS, NEW PR, ThreadCounts(TR, PC, LC), w \notin D,
         ProcCounts(D, TR, PS, PR, PC, LC), NEW TR2, NEW PR2,
         \A u \in Threads : TR2[u] = TR[u] + One(u = w),
         \A p \in Procs : PR2[p] = PR[p] + One(p = q)
  PROVE  ThreadCounts(TR2, PC2, LC2) /\ ProcCounts(D, TR2, PS, PR2, PC2, LC2)
<1>0. \A b : One(b) \in Nat
  BY DEF One
<1>a. /\ \A x : Cardinality(ThreadHolders(PC2, LC2, x))
                 = Cardinality(ThreadHolders(PC, LC, x)) + One(LC2[th].target_thread = x)
      /\ \A x : Cardinality(ProcHolders(PC2, LC2, x))
                 = Cardinality(ProcHolders(PC, LC, x)) + One(LC2[th].target_proc = x)
  BY HoldersAdd
<1>1. ThreadCounts(TR2, PC2, LC2)
  <2>1. ASSUME NEW u \in Threads
        PROVE TR2[u] = Cardinality(ThreadHolders(PC2, LC2, u)) + One(PC2[u] = "release")
    <3>1. Cardinality(ThreadHolders(PC2, LC2, u)) = Cardinality(ThreadHolders(PC, LC, u)) + One(w = u)
      BY <1>a
    <3>2. TR[u] = Cardinality(ThreadHolders(PC, LC, u)) + One(PC[u] = "release")
      BY DEF ThreadCounts
    <3>3. One(PC2[u] = "release") = One(PC[u] = "release") /\ One(w = u) = One(u = w)
      BY DEF One
    <3>4. Cardinality(ThreadHolders(PC, LC, u)) \in Nat
      BY HoldersFinite
    <3>. QED BY <3>1, <3>2, <3>3, <3>4, <1>0
  <2>. QED BY <2>1 DEF ThreadCounts
<1>2. \A p : Unfreed(D, TR2, p) = Unfreed(D, TR, p)
  <2>1. ASSUME NEW u \in Threads, u \in D PROVE TR2[u] = TR[u]
    <3>1. One(u = w) = 0
      BY <2>1 DEF One
    <3>2. TR[u] = Cardinality(ThreadHolders(PC, LC, u)) + One(PC[u] = "release")
      BY DEF ThreadCounts
    <3>3. Cardinality(ThreadHolders(PC, LC, u)) \in Nat
      BY HoldersFinite
    <3>. QED BY <3>1, <3>2, <3>3, <1>0
  <2>. QED BY <2>1 DEF Unfreed
<1>3. ProcCounts(D, TR2, PS, PR2, PC2, LC2)
  <2>1. ASSUME NEW p \in Procs
        PROVE PR2[p] = Cardinality(ProcHolders(PC2, LC2, p)) + Cardinality(Unfreed(D, TR2, p))
                       + One(PS[p] \in {"threads", "todo"})
    <3>1. Cardinality(ProcHolders(PC2, LC2, p)) = Cardinality(ProcHolders(PC, LC, p)) + One(q = p)
      BY <1>a
    <3>2. PR[p] = Cardinality(ProcHolders(PC, LC, p)) + Cardinality(Unfreed(D, TR, p))
                  + One(PS[p] \in {"threads", "todo"})
      BY DEF ProcCounts
    <3>3. One(q = p) = One(p = q) /\ Unfreed(D, TR2, p) = Unfreed(D, TR, p)
      BY <1>2 DEF One
    <3>4. Cardinality(ProcHolders(PC, LC, p)) \in Nat /\ Cardinality(Unfreed(D, TR, p)) \in Nat
      BY HoldersFinite
    <3>. QED BY <3>1, <3>2, <3>3, <3>4, <1>0
  <2>. QED BY <2>1 DEF ProcCounts
<1>. QED BY <1>1, <1>3

\* A buffer that is not for a one-way call changes nothing for those.
LEMMA OnewayNone ==
  ASSUME NEW B, NEW PD, NEW NL, NEW NA, NEW NQ, NEW PC, NEW LC,
         Oneways(B, PD, NL, NA, NQ, PC, LC), NEW B2,
         \A s \in Txns : B2[s].async \/ B[s].async => B2[s] = B[s]
  PROVE  Oneways(B2, PD, NL, NA, NQ, PC, LC)
<1>1. \A p : Active(B2, NQ, PC, LC, p) = Active(B, NQ, PC, LC, p)
  BY DEF Active
<1>. QED BY <1>1 DEF Oneways, OnewayOK

\* The next name is given out.
LEMMA NamesNew ==
  ASSUME NEW X, NEW t \in Txns, \A s \in Txns : X[s].kind # "unused" <=> s < t,
         NEW X2, X2[t].kind # "unused", \A s \in Txns : s # t => X2[s] = X[s]
  PROVE  Names(X2)
<1>1. SUFFICES ASSUME NEW s \in Txns, NEW u \in Txns, s < u, X2[u].kind # "unused"
               PROVE  X2[s].kind # "unused"
  BY DEF Names
<1>2. u <= t
  <2>1. CASE u = t
    BY <2>1, TxnNumbers
  <2>2. CASE u # t
    BY <2>2, <1>1, TxnNumbers
  <2>. QED BY <2>1, <2>2
<1>3. s < t /\ s # t
  BY <1>1, <1>2, TxnNumbers
<1>. QED BY <1>3

\* A live thread's process has not been released.
LEMMA LiveProc ==
  ASSUME NEW k, NEW a, NEW r, Inv(k, a, r), NEW w \in Threads, w \notin Dead
  PROVE  ProcOf[w] \in Procs /\ ProcSts[ProcOf[w]] \in {"open", "threads"}
<1>ty. Typed /\ bug = FALSE
  BY Parts
<1>rt. proc \in [Procs -> Prc]
  BY Parts
<1>ps. ProcStates(ProcSts, DeadProcs, ProcTodos, ProcRefs, LiveNodes, AsyncTodos, pc, sfr)
  BY Parts
<1>ts. ThreadStates(Dead, Stacks, Todos, Waiting, pc, loc, sfr)
  BY Parts
<1>1. PICK q \in Procs : q = ProcOf[w]
  BY ProcOfAssumption
<1>2. ProcOK(ProcSts, DeadProcs, ProcTodos, ProcRefs, LiveNodes, AsyncTodos, pc, sfr, q)
  BY <1>ps DEF ProcStates
<1>3. ThreadOK(Dead, Stacks, Todos, Waiting, pc, loc, sfr, w)
  BY <1>ts DEF ThreadStates
<1>4. ProcSts[q] \in {"open", "threads", "todo", "released", "freed"}
  <2>1. ProcSts[q] = proc[q].st /\ proc[q] \in Prc
    BY <1>ty, ProcViews
  <2>. QED BY <2>1 DEF Prc
<1>5. pc[w] # "gone"
  BY <1>3 DEF ThreadOK
<1>6. ProcSts[q] \notin {"todo", "released", "freed"}
  BY <1>1, <1>2, <1>5 DEF ProcOK
<1>. QED BY <1>1, <1>4, <1>6

\* What binder_transaction makes for a reply.
NewReply(w, q) ==
  [UnusedTxn EXCEPT !.kind = "reply", !.buffer = TRUE, !.to_thread = w, !.to_proc = q]
ReplyBuf(q) == [st |-> "kernel", owner |-> q, node |-> NoProc,
                async |-> FALSE, transaction |-> TRUE]
ReplyLoc(t, c, w, q) ==
  [NoLoc EXCEPT !.t = t, !.in_reply_to = c, !.target_thread = w, !.target_proc = q]

\* A new reply and its buffer.
LEMMA NewReplyOf ==
  ASSUME NEW w \in Threads, NEW q \in Procs
  PROVE  /\ NewReply(w, q) \in Txn /\ NewReply(w, q).kind = "reply"
         /\ NewReply(w, q).from = NoThread /\ NewReply(w, q).from_parent = NoTxn
         /\ NewReply(w, q).to_proc = q /\ NewReply(w, q).to_thread = w
         /\ ReplyBuf(q) \in Buf /\ ReplyBuf(q).async = FALSE
         /\ Fresh(NewReply(w, q), ReplyBuf(q)) /\ BufOK(NewReply(w, q), ReplyBuf(q))
<1>1. /\ NewReply(w, q) \in Txn /\ NewReply(w, q).kind = "reply" /\ NewReply(w, q).buffer = TRUE
      /\ NewReply(w, q).from = NoThread /\ NewReply(w, q).from_parent = NoTxn
      /\ NewReply(w, q).to_proc = q /\ NewReply(w, q).to_thread = w
  BY TxnNumbers DEF NewReply, UnusedTxn, Txn
<1>2. /\ ReplyBuf(q) \in Buf /\ ReplyBuf(q).async = FALSE /\ ReplyBuf(q).st = "kernel"
      /\ ReplyBuf(q).owner = q /\ ReplyBuf(q).node = NoProc /\ ReplyBuf(q).transaction = TRUE
  BY DEF ReplyBuf, Buf
<1>4. Fresh(NewReply(w, q), ReplyBuf(q)) /\ BufOK(NewReply(w, q), ReplyBuf(q))
  BY <1>1, <1>2, NullAssumption DEF Fresh, BufOK
<1>. QED BY <1>1, <1>2, <1>4

\* The call being answered is taken off the stack, and the reply made.
LEMMA ReplyStartStep ==
  ASSUME NEW k, NEW a, NEW r, Inv(k, a, r), NEW th \in Threads, ReplyStart(th)
  PROVE  \E k2, a2 : Inv(k2, a2, r)'
<1>gh. Ghosts(k, a, r)
  BY Parts
<1>ty. Typed /\ bug = FALSE
  BY Parts
<1>kt. Stacks \in [Threads -> 0 .. MaxTxns]
  BY Parts
<1>lt. Todos \in [Threads -> Seq(Work)]
  BY Parts
<1>xt. txn \in [Txns -> Txn]
  BY Parts
<1>bt. buf \in [Txns -> Buf]
  BY Parts
<1>tt. thr \in [Threads -> Thr]
  BY Parts
<1>ct. pc \in [Threads -> PCs] /\ loc \in [Threads -> Loc]
  BY Parts
<1>ft. sfr \in [Threads \cup Procs -> 0 .. MaxTxns]
  BY Parts
<1>nm. Names(txn)
  BY Parts
<1>tl. ThreadLists(Todos, k, a)
  BY Parts
<1>pl. TxnLists(ProcTodos, "proc", k, a)
  BY Parts
<1>al. TxnLists(AsyncTodos, "async", k, a)
  BY Parts
<1>ca. Carried(txn, Dead, pc, loc, k, a)
  BY Parts
<1>fa. Failing(sfr, k, a)
  BY Parts
<1>po. Placed(txn, Dead, k, a)
  BY Parts
<1>tr. Tree(txn, Dead, k, a, r)
  BY Parts
<1>st. AllStacks(txn, Dead, Stacks, k, a, r)
  BY Parts
<1>di. Directed(txn, Dead, Stacks, Todos, pc, loc, k, a, r)
  BY Parts
<1>bu. Buffers(txn, buf, loc, k, a)
  BY Parts
<1>dr. Drops(txn, buf, pc, loc, sfr)
  BY Parts
<1>ts. ThreadStates(Dead, Stacks, Todos, Waiting, pc, loc, sfr)
  BY Parts
<1>ps. ProcStates(ProcSts, DeadProcs, ProcTodos, ProcRefs, LiveNodes, AsyncTodos, pc, sfr)
  BY Parts
<1>tc. ThreadCounts(ThreadRefs, pc, loc)
  BY Parts
<1>pc. ProcCounts(Dead, ThreadRefs, ProcSts, ProcRefs, pc, loc)
  BY Parts
<1>ow. Oneways(buf, DeadProcs, LiveNodes, AsyncNodes, AsyncTodos, pc, loc)
  BY Parts
<1>no. Notices(Dead, Todos, ReturnErrors, ReplyErrors, pc)
  BY Parts
<1>fl. Flags(txn, Dead, Stacks, Todos, Flagged)
  BY Parts
<1>1. /\ pc[th] = "user" /\ sfr[th] = NoTxn /\ proc[ProcOf[th]].st = "open"
      /\ thr[th].return_error = "OK" /\ ServesTop(th) /\ NextId <= MaxTxns
  BY DEF ReplyStart, ReplyAllowed, CanWrite, InUser
<1>2. th \notin Dead /\ th \notin Waiting /\ ~loc[th].wait_for_proc_work /\ ~Holding(pc, th)
  BY <1>1, UserFacts
<1>3. PICK t, c : t = NextId /\ c = thr[th].stack
  OBVIOUS
<1>4. /\ c \in Txns /\ Stacks[th] = c /\ Sync(txn, c) /\ k[c] = "served" /\ a[c] = th
      /\ NoChild(txn, c) /\ txn[c].to_thread = th /\ txn[c].from # th
      /\ txn[c].to_proc = ProcOf[th] /\ Below(txn, th, c) = txn[c].to_parent
  BY <1>1, <1>2, <1>3, ServedTop
<1>5. /\ t \in Txns /\ txn[t].kind = "unused" /\ ~Sync(txn, t) /\ k[t] = "none"
      /\ NoChild(txn, t) /\ txn[t].from = NoThread /\ ~buf[t].async
      /\ \A s \in Txns : txn[s].kind # "unused" <=> s < t
  BY <1>1, <1>3, FreshFacts
<1>6. c # t
  BY <1>4, <1>5
<1>w. PICK w : w = txn[c].from
  OBVIOUS
<1>q. PICK q : q = ProcOf[w]
  OBVIOUS
<1>a. w \in Threads /\ w \notin Dead /\ w # th /\ q \in Procs
  <2>1. w # NoThread
    BY <1>3, <1>w DEF ReplyStart
  <2>2. w \in Threads
    BY <2>1, <1>w, <1>4, <1>xt, TxnFields
  <2>3. w \notin Dead
    BY <2>1, <1>w, <1>4, <1>tr DEF Tree, CallOK
  <2>. QED BY <2>2, <2>3, <1>w, <1>q, <1>4, ProcOfAssumption
<1>b. Stacks[w] = c /\ thr[w].stack = c
  <2>1. Mine(txn, k, a, w, c)
    BY <1>w, <1>4 DEF Mine
  <2>2. Stacks[w] = c
    BY <2>1, <1>a, <1>4, <1>xt, <1>kt, <1>tr, <1>st, EndSeen
  <2>. QED BY <2>2, <1>a, <1>ty, ThreadViews
<1>v. PICK v \in 0 .. MaxTxns : v = txn[c].to_parent
  BY <1>4, <1>xt, TxnFields
<1>. DEFINE k2 == [s \in Txns |-> IF s = t THEN "carried" ELSE IF s = c THEN "carried" ELSE k[s]]
            a2 == [s \in Txns |-> IF s = t THEN th ELSE a[s]]
<1>7. /\ k2[t] = "carried" /\ k2[c] = "carried" /\ a2[t] = th /\ a2[c] = th
      /\ \A s \in Txns : s # t /\ s # c => k2[s] = k[s] /\ a2[s] = a[s]
      /\ \A s \in Txns : s \notin {t, c} => k2[s] = k[s] /\ a2[s] = a[s]
  BY <1>4, <1>5, <1>6
<1>8. Ghosts(k2, a2, r)
  BY <1>gh DEF Ghosts, Kinds
<1>. HIDE DEF k2, a2
<1>9. /\ thr' = HoldThr(SetStack(thr, th, v), w)
      /\ IncProc(q)
      /\ txn' = [txn EXCEPT ![t] = NewReply(w, q)]
      /\ buf' = [buf EXCEPT ![t] = ReplyBuf(q)]
      /\ pc' = [pc EXCEPT ![th] = "reply"]
      /\ loc' = [loc EXCEPT ![th] = ReplyLoc(t, c, w, q)]
      /\ UNCHANGED <<node, sfr>> /\ bug' = FALSE
  <2>1. bug' = FALSE
    BY <1>3, <1>w, <1>b, <1>ty DEF ReplyStart
  <2>2. /\ thr' = [thr EXCEPT ![th].stack = v, ![w].tmp_ref = @ + 1]
        /\ IncProc(q)
        /\ txn' = [txn EXCEPT ![t] = NewReply(w, q)]
        /\ buf' = [buf EXCEPT ![t] = ReplyBuf(q)]
        /\ pc' = [pc EXCEPT ![th] = "reply"]
        /\ loc' = [loc EXCEPT ![th] = ReplyLoc(t, c, w, q)]
        /\ UNCHANGED <<node, sfr>>
    BY <1>3, <1>w, <1>q, <1>v DEF ReplyStart, NewReply, ReplyBuf, ReplyLoc, IncProc
  <2>3. thr' = HoldThr(SetStack(thr, th, v), w)
    BY <2>2, <1>a, NullAssumption DEF HoldThr, SetStack
  <2>. QED BY <2>1, <2>2, <2>3
<1>10. /\ thr' \in [Threads -> Thr]
       /\ thr'[th].stack = v /\ \A u \in Threads : u # th => thr'[u].stack = thr[u].stack
       /\ \A u \in Threads :
            /\ thr'[u].todo = thr[u].todo /\ thr'[u].process_todo = thr[u].process_todo
            /\ thr'[u].return_error = thr[u].return_error
            /\ thr'[u].reply_error = thr[u].reply_error
            /\ thr'[u].waiting = thr[u].waiting /\ thr'[u].is_dead = thr[u].is_dead
            /\ thr'[u].tmp_ref = thr[u].tmp_ref + One(u = w)
  <2>. DEFINE T == SetStack(thr, th, v)
              T2 == HoldThr(T, w)
  <2>1. /\ T \in [Threads -> Thr] /\ \A u \in Threads : u # th => T[u] = thr[u]
        /\ T[th].stack = v
        /\ T[th].todo = thr[th].todo /\ T[th].process_todo = thr[th].process_todo
        /\ T[th].return_error = thr[th].return_error
        /\ T[th].reply_error = thr[th].reply_error
        /\ T[th].waiting = thr[th].waiting /\ T[th].is_dead = thr[th].is_dead
        /\ T[th].tmp_ref = thr[th].tmp_ref
    BY <1>tt, SetStackOf
  <2>. HIDE DEF T
  <2>2. /\ T2 \in [Threads -> Thr]
        /\ \A u \in Threads :
             /\ T2[u].stack = T[u].stack /\ T2[u].todo = T[u].todo
             /\ T2[u].process_todo = T[u].process_todo
             /\ T2[u].return_error = T[u].return_error
             /\ T2[u].reply_error = T[u].reply_error
             /\ T2[u].waiting = T[u].waiting
             /\ T2[u].is_dead = T[u].is_dead
             /\ T2[u].tmp_ref = T[u].tmp_ref + One(u = w)
    BY <2>1, <1>a, HoldOf
  <2>3. thr' = T2
    BY <1>9 DEF T
  <2>. HIDE DEF T2
  <2>. QED BY <2>1, <2>2, <2>3
<1>11. UNCHANGED <<Todos, Flagged, ReturnErrors, ReplyErrors, Waiting, Dead>>
  BY <1>10, SameThreads
<1>12. /\ Stacks'[th] = v /\ \A u \in Threads : u # th => Stacks'[u] = Stacks[u]
       /\ \A u \in Threads : ThreadRefs'[u] = ThreadRefs[u] + One(u = w)
  <2>1. \A u \in Threads : Stacks[u] = thr[u].stack /\ ThreadRefs[u] = thr[u].tmp_ref
    BY <1>ty, ThreadViews
  <2>. QED BY <2>1, <1>10, NextViews
<1>13. /\ proc' \in [Procs -> Prc] /\ ProcSts' = ProcSts /\ ProcTodos' = ProcTodos
       /\ DeadProcs' = DeadProcs
       /\ \A p \in Procs : ProcRefs'[p] = ProcRefs[p] + One(p = q)
  BY <1>9, <1>a, <1>ty, HoldProc
<1>14. UNCHANGED <<LiveNodes, AsyncNodes, AsyncTodos>>
  BY <1>9, SameAll
<1>z. w \in Threads /\ q \in Procs /\ t \in Txns /\ c \in Txns
  BY <1>a, <1>4, <1>5
<1>n. /\ NewReply(w, q) \in Txn /\ NewReply(w, q).kind = "reply"
      /\ NewReply(w, q).from = NoThread /\ NewReply(w, q).from_parent = NoTxn
      /\ NewReply(w, q).to_proc = q
      /\ ReplyBuf(q) \in Buf /\ ReplyBuf(q).async = FALSE
      /\ Fresh(NewReply(w, q), ReplyBuf(q)) /\ BufOK(NewReply(w, q), ReplyBuf(q))
  BY <1>z, NewReplyOf, ZenonT(90)
<1>l. /\ ReplyLoc(t, c, w, q) \in Loc /\ ReplyLoc(t, c, w, q).t = t
      /\ ReplyLoc(t, c, w, q).in_reply_to = c
      /\ ReplyLoc(t, c, w, q).target_thread = w
      /\ ReplyLoc(t, c, w, q).target_proc = q
      /\ ReplyLoc(t, c, w, q).wait_for_proc_work = FALSE
  BY <1>z, TxnNumbers DEF ReplyLoc, NoLoc, Loc
<1>15. /\ txn' \in [Txns -> Txn] /\ txn'[t] = NewReply(w, q)
       /\ \A s \in Txns : s # t => txn'[s] = txn[s]
  BY <1>9, <1>5, <1>xt, <1>n
<1>16. /\ buf' \in [Txns -> Buf] /\ buf'[t] = ReplyBuf(q)
       /\ \A s \in Txns : s # t => buf'[s] = buf[s]
  BY <1>9, <1>5, <1>bt, <1>n
<1>17. pc' \in [Threads -> PCs] /\ pc'[th] = "reply" /\ \A u \in Threads : u # th => pc'[u] = pc[u]
  BY <1>9, <1>ct DEF PCs
<1>m. loc' \in [Threads -> Loc] /\ loc'[th] = ReplyLoc(t, c, w, q)
      /\ \A u \in Threads : u # th => loc'[u] = loc[u]
  BY <1>9, <1>ct, <1>l
<1>18. Typed'
  BY <1>9, <1>10, <1>13, <1>15, <1>16, <1>17, <1>m, <1>ty DEF Typed
<1>19. Stay(txn, txn', k, a, k2, a2, {t, c}) /\ OnlyMoves(pc, loc, pc', loc', th)
  BY <1>7, <1>15, <1>17, <1>m DEF Stay, SameTxn, OnlyMoves
<1>20. Names(txn')
  <2>1. txn'[t].kind # "unused" /\ t \in Txns /\ \A s \in Txns : s # t => txn'[s] = txn[s]
    BY <1>15, <1>n, <1>5
  <2>. QED BY <2>1, <1>5, NamesNew
<1>21. TxnLists(ProcTodos, "proc", k2, a2) /\ TxnLists(AsyncTodos, "async", k2, a2)
       /\ ThreadLists(Todos, k2, a2)
  <2>1. \A kind \in {"thread", "proc", "async"} : \A s \in Txns :
           k2[s] = kind \/ k[s] = kind => k2[s] = k[s] /\ a2[s] = a[s]
    BY <1>4, <1>5, <1>7
  <2>. QED BY <2>1, <1>pl, <1>al, <1>tl, ListsMove
<1>22. \A s \in Txns : k[s] = "carried" => (s \in {t, c} <=> a[s] = th)
  <2>1. ASSUME NEW s \in Txns, k[s] = "carried" PROVE s \notin {t, c} /\ a[s] # th
    <3>1. CarrierOK(pc, loc, k, a, s)
      BY <1>ca DEF Carried
    <3>. QED BY <3>1, <2>1, <1>1, <1>4, <1>5 DEF CarrierOK
  <2>. QED BY <2>1
<1>24. Carried(txn', Dead, pc', loc', k2, a2)
  <2>1. \A s \in Txns : s \in {t, c} => CarrierOK(pc', loc', k2, a2, s)
    BY <1>7, <1>17, <1>m, <1>l DEF CarrierOK
  <2>2. CarryOK(txn', Dead, pc', loc', k2, a2, th)
    <3>1. ReplyCarry(txn', Dead, loc'[th], th, k2, a2)
      <4>1. /\ loc'[th].t = t /\ loc'[th].in_reply_to = c /\ loc'[th].target_thread = w
            /\ loc'[th].target_proc = q
        BY <1>m, <1>l
      <4>2. txn'[t].kind = "reply" /\ txn'[t].to_proc = q /\ txn'[c] = txn[c]
        BY <1>15, <1>n, <1>4, <1>6
      <4>. QED BY <4>1, <4>2, <1>w, <1>a, <1>4, <1>5, <1>7 DEF ReplyCarry, Sync
    <3>2. Holds(pc', loc', th)
      BY <1>m, <1>l, <1>a, <1>q DEF Holds
    <3>. QED BY <3>1, <3>2, <1>17 DEF CarryOK
  <2>. QED BY <2>1, <2>2, <1>22, <1>19, <1>ca, CarriedStep
<1>25. Failing(sfr, k2, a2)
  <2>1. \A s \in Txns : k2[s] = "failing" \/ k[s] = "failing" => k2[s] = k[s] /\ a2[s] = a[s]
    BY <1>4, <1>5, <1>7
  <2>. QED BY <2>1, <1>fa, <1>ft, FailMove
<1>26. Placed(txn', Dead, k2, a2)
  <2>1. PlaceOK(txn', Dead, k2, a2, t)
    BY <1>7, <1>15, <1>n DEF PlaceOK
  <2>2. PlaceOK(txn', Dead, k2, a2, c)
    <3>1. txn'[c] = txn[c]
      BY <1>4, <1>6, <1>15
    <3>. QED BY <3>1, <1>4, <1>7 DEF PlaceOK, Sync
  <2>3. ASSUME NEW s \in Txns, k[s] = "orphan", s \notin {t, c}, a[s] \in {t, c}
        PROVE  /\ txn'[a[s]].kind = txn[a[s]].kind /\ txn'[a[s]].from = txn[a[s]].from
               /\ txn'[a[s]].from_parent = txn[a[s]].from_parent
    <3>1. a[s] \in Txns /\ Sync(txn, a[s])
      BY <2>3, <1>po DEF Placed, PlaceOK
    <3>2. a[s] # t
      BY <3>1, <1>5
    <3>. QED BY <3>1, <3>2, <1>15
  <2>4. \A s \in Txns : s \in {t, c} => PlaceOK(txn', Dead, k2, a2, s)
    BY <2>1, <2>2
  <2>. QED BY <2>3, <2>4, <1>19, <1>po, PlacedStep
<1>27. Tree(txn', Dead, k2, a2, r)
  <2>1. Keeps(txn, k, a, k2, a2)
    BY <1>4, <1>5, <1>7, <1>xt, TxnFields, TxnNumbers DEF Keeps, NoChild
  <2>2. Tree(txn, Dead, k2, a2, r)
    BY <2>1, <1>xt, <1>tr, TreeKeep
  <2>3. txn'[t].kind # "sync" /\ txn'[t].from = NoThread /\ txn'[t].from_parent = NoTxn
    BY <1>15, <1>n
  <2>4. \A s \in Txns : s # t /\ s # txn[t].from_parent => k2[s] = k2[s] /\ a2[s] = a2[s]
    OBVIOUS
  <2>5. t \in Txns /\ NoChild(txn, t) /\ \A s \in Txns : s # t => txn'[s] = txn[s]
    BY <1>5, <1>15
  <2>. QED BY <2>2, <2>3, <2>4, <2>5, <1>xt, TreeEnd
<1>28. AllStacks(txn', Dead, Stacks', k2, a2, r)
  <2>0. txn'[c] = txn[c]
    BY <1>4, <1>6, <1>15
  <2>1. ASSUME NEW u \in Threads PROVE Alike(txn, txn', k, a, k2, a2, u, t)
    <3>1. ~Sync(txn, t) /\ ~Sync(txn', t)
      BY <1>5, <1>15, <1>n DEF Sync
    <3>. QED BY <3>1 DEF Alike, Mine
  <2>2. \A s \in Txns : s \in {t, c} /\ s # c => \A u \in Threads : Alike(txn, txn', k, a, k2, a2, u, s)
    BY <2>1
  <2>3. ASSUME NEW u \in Threads, u \notin Dead
        PROVE  \/ Alike(txn, txn', k, a, k2, a2, u, c) /\ Stacks'[u] = Stacks[u]
               \/ /\ ~Mine(txn', k2, a2, u, c)
                  /\ Stacks'[u] = IF Stacks[u] = c THEN Below(txn, u, c) ELSE Stacks[u]
    <3>1. CASE u = th
      <4>1. ~Mine(txn', k2, a2, u, c)
        BY <3>1, <2>0, <1>4, <1>7 DEF Mine
      <4>2. Stacks'[u] = IF Stacks[u] = c THEN Below(txn, u, c) ELSE Stacks[u]
        BY <3>1, <1>4, <1>v, <1>12
      <4>. QED BY <4>1, <4>2
    <3>2. CASE u # th
      <4>1. Alike(txn, txn', k, a, k2, a2, u, c)
        BY <3>2, <2>0, <1>4, <1>7 DEF Alike, Mine, Below, Sync
      <4>. QED BY <4>1, <3>2, <1>12
    <3>. QED BY <3>1, <3>2
  <2>. QED BY <2>2, <2>3, <1>4, <1>19, <1>xt, <1>kt, <1>tr, <1>st, StacksEnd
<1>29. Directed(txn', Dead, Stacks', Todos, pc', loc', k2, a2, r)
  <2>1. Leaves(txn, {t, c})
    BY <1>4, <1>5 DEF Leaves
  <2>2. \A s \in Txns : s \in {t, c} => QueuedOK(txn', Dead, Stacks', Todos, k2, a2, r, s)
    BY <1>7 DEF QueuedOK
  <2>3. Calm(txn, pc, loc, k, a, {t, c}, Stacks, Stacks')
    <3>1. Stacks[th] # NoTxn /\ NoChild(txn, Stacks[th])
      BY <1>4, TxnNumbers
    <3>2. Quiet(txn, pc, loc, k, a, {t, c}, th)
      BY <3>1, <1>2, <1>xt, <1>kt, <1>di, <1>tr, <1>ca, EndQuiet
    <3>. QED BY <3>2, <1>12 DEF Calm
  <2>4. \A s \in Txns : s \notin {t, c} /\ k[s] = "thread" /\ Head(Todos[a[s]]) = TxnItem(s) =>
          Head(Todos[a[s]]) = TxnItem(s)
    OBVIOUS
  <2>5. ASSUME NEW u \in Threads, pc'[u] = "send"
        PROVE  pc[u] = "send" /\ loc'[u] = loc[u] /\ loc[u].t \notin {t, c}
    <3>1. u # th /\ pc[u] = "send" /\ loc'[u] = loc[u]
      BY <2>5, <1>17, <1>m
    <3>2. SendCarry(txn, loc[u], u, k, a)
      BY <3>1, <1>ca DEF Carried, CarryOK
    <3>. QED BY <3>1, <3>2, <1>4, <1>5 DEF SendCarry
  <2>. QED BY <2>1, <2>2, <2>3, <2>4, <2>5, <1>19, <1>xt, <1>kt, <1>di, <1>tr, <1>po, <1>ca,
       DirectedStep
<1>30. Buffers(txn', buf', loc', k2, a2)
  <2>1. BufferOK(txn', buf', loc', k2, a2, t)
    BY <1>7, <1>15, <1>16, <1>n DEF BufferOK
  <2>2. BufferOK(txn', buf', loc', k2, a2, c)
    <3>1. BufferOK(txn, buf, loc, k, a, c) /\ txn'[c] = txn[c] /\ buf'[c] = buf[c]
      BY <1>4, <1>6, <1>15, <1>16, <1>bu DEF Buffers
    <3>2. k2[c] = "carried" /\ c # loc'[a2[c]].t
      BY <1>6, <1>7, <1>m, <1>l
    <3>. QED BY <3>1, <3>2 DEF BufferOK
  <2>3. \A s \in Txns : s \notin {t, c} => txn'[s] = txn[s] /\ buf'[s] = buf[s]
    BY <1>15, <1>16
  <2>4. \A s \in Txns : s \in {t, c} => BufferOK(txn', buf', loc', k2, a2, s)
    BY <2>1, <2>2
  <2>. QED BY <2>3, <2>4, <1>22, <1>19, <1>bu, <1>ca, BuffersStep
<1>31. Drops(txn', buf', pc', loc', sfr)
  <2>1. ASSUME NEW u \in Threads, u # th, pc[u] = "dropbuf"
        PROVE  loc[u].t \notin {t, c} /\ sfr[u] = sfr[u]
    <3>1. k[c] \notin {"none", "failing"} /\ txn[t].kind = "unused"
      BY <1>4, <1>5
    <3>2. loc[u].t # t
      BY <2>1, <3>1, <1>5, <1>dr, <1>po, <1>fa, <1>bu, DropFree
    <3>3. loc[u].t # c
      BY <2>1, <3>1, <1>4, <1>dr, <1>po, <1>fa, <1>bu, DropFree
    <3>. QED BY <3>2, <3>3
  <2>2. \A s \in Txns : s \notin {t, c} => buf'[s] = buf[s]
    BY <1>16
  <2>3. th \in Threads /\ pc'[th] = "dropbuf" => DropOK(txn', buf', pc', loc', sfr, th)
    BY <1>17
  <2>. QED BY <2>1, <2>2, <2>3, <1>19, <1>dr, DropsStep
<1>32. ThreadStates(Dead, Stacks', Todos, Waiting, pc', loc', sfr)
  <2>1. ASSUME NEW u \in Threads PROVE ThreadOK(Dead, Stacks', Todos, Waiting, pc', loc', sfr, u)
    <3>1. ThreadOK(Dead, Stacks, Todos, Waiting, pc, loc, sfr, u)
      BY <1>ts DEF ThreadStates
    <3>2. CASE u = th
      BY <3>1, <3>2, <1>1, <1>2, <1>17, <1>m, <1>l DEF ThreadOK
    <3>3. CASE u # th
      BY <3>1, <3>3, <1>12, <1>17, <1>m DEF ThreadOK
    <3>. QED BY <3>2, <3>3
  <2>. QED BY <2>1 DEF ThreadStates
<1>33. ProcStates(ProcSts, DeadProcs, ProcTodos, ProcRefs', LiveNodes, AsyncTodos, pc', sfr)
  <2>1. ProcSts[ProcOf[th]] = "open"
    BY <1>1, <1>ty, ProcOfAssumption, ProcViews
  <2>2. ASSUME NEW u \in Threads
        PROVE  \/ ProcSts[ProcOf[u]] = "open"
               \/ pc'[u] = pc[u] /\ (sfr[u] = sfr[u] \/ pc[u] # "user")
    BY <2>1, <1>17
  <2>3. ProcSts[q] # "freed"
    BY <1>a, <1>q, LiveProc
  <2>4. ASSUME NEW p \in Procs, ProcSts[p] = "freed" PROVE ProcRefs'[p] = ProcRefs[p]
    <3>1. One(p = q) = 0 /\ ProcRefs[p] \in Int
      BY <2>3, <2>4, <1>ty, ProcViews DEF One
    <3>. QED BY <3>1, <1>13
  <2>. QED BY <2>2, <2>4, <1>ps, ProcStatesKeep
<1>34. ThreadCounts(ThreadRefs', pc', loc') /\ ProcCounts(Dead, ThreadRefs', ProcSts, ProcRefs', pc', loc')
  <2>1. \A u \in Threads : u # th => SameHolds(pc, loc, pc', loc', u)
    BY <1>17, <1>m DEF SameHolds, Holding
  <2>2. \A u \in Threads : pc'[u] = "release" <=> pc[u] = "release"
    BY <1>1, <1>17
  <2>3. /\ ~Holding(pc, th) /\ Holding(pc', th) /\ w = loc'[th].target_thread
        /\ q = loc'[th].target_proc /\ w \notin Dead
    BY <1>2, <1>17, <1>m, <1>l, <1>a DEF Holding
  <2>4. /\ \A u \in Threads : ThreadRefs'[u] = ThreadRefs[u] + One(u = w)
        /\ \A p \in Procs : ProcRefs'[p] = ProcRefs[p] + One(p = q)
    BY <1>12, <1>13
  <2>5. ThreadCounts(ThreadRefs', pc', loc')
    BY <2>1, <2>2, <2>3, <2>4, <1>tc, <1>pc, CountsHold
  <2>6. ProcCounts(Dead, ThreadRefs', ProcSts, ProcRefs', pc', loc')
    BY <2>1, <2>2, <2>3, <2>4, <1>tc, <1>pc, CountsHold
  <2>. QED BY <2>5, <2>6
<1>35. Oneways(buf', DeadProcs, LiveNodes, AsyncNodes, AsyncTodos, pc', loc')
  <2>1. \A s \in Txns : buf'[s].async \/ buf[s].async => buf'[s] = buf[s]
    BY <1>5, <1>16, <1>n
  <2>2. Oneways(buf', DeadProcs, LiveNodes, AsyncNodes, AsyncTodos, pc, loc)
    BY <2>1, <1>ow, OnewayNone
  <2>3. pc[th] # "send" /\ pc'[th] # "send"
    BY <1>1, <1>17
  <2>. QED BY <2>2, <2>3, <1>19, MoveOneways
<1>36. Notices(Dead, Todos, ReturnErrors, ReplyErrors, pc')
  <2>0. ReturnErrors[th] = "OK"
    BY <1>1, <1>ty, ThreadViews
  <2>1. ASSUME NEW u \in Threads PROVE NoticeOK(Dead, Todos, ReturnErrors, ReplyErrors, pc', u)
    <3>1. NoticeOK(Dead, Todos, ReturnErrors, ReplyErrors, pc, u)
      BY <1>no DEF Notices
    <3>. QED BY <3>1, <2>0, <1>17 DEF NoticeOK
  <2>. QED BY <2>1 DEF Notices
<1>37. Flags(txn', Dead, Stacks', Todos, Flagged)
  <2>1. ASSUME NEW u \in Threads, u \notin Dead PROVE FlagOK(txn', Stacks', Todos, Flagged, u)
    <3>1. FlagOK(txn, Stacks, Todos, Flagged, u)
      BY <2>1, <1>fl DEF Flags
    <3>2. CASE u = th
      <4>1. ~(Stacks[u] # NoTxn /\ txn[Stacks[u]].from = u)
        BY <3>2, <1>4
      <4>. QED BY <4>1, <3>1 DEF FlagOK
    <3>3. CASE u # th
      <4>1. Stacks[u] \in 0 .. MaxTxns
        BY <1>kt
      <4>3. Stacks[u] # NoTxn /\ txn[Stacks[u]].from = u => txn'[Stacks[u]].from = u
        BY <4>1, <1>5, <1>15, TxnNumbers, NullAssumption
      <4>. QED BY <3>1, <3>3, <4>3, <1>12 DEF FlagOK
    <3>. QED BY <3>2, <3>3
  <2>. QED BY <2>1 DEF Flags
<1>38. Inv(k2, a2, r)'
  BY <1>8, <1>9, <1>11, <1>13, <1>14, <1>18, <1>20, <1>21, <1>24, <1>25, <1>26, <1>27,
     <1>28, <1>29, <1>30, <1>31, <1>32, <1>33, <1>34, <1>35, <1>36, <1>37, Whole
<1>. QED BY <1>38
=============================================================================
