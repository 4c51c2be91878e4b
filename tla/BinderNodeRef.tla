---------------------------- MODULE BinderNodeRef ----------------------------
(***************************************************************************)
(* Nodes, references and death notifications of binder.c: how one object   *)
(* of the process Owner is kept alive by the handles other processes hold, *)
(* by buffers in flight and by the threads that work on it, and what       *)
(* happens when a process at either end dies.                              *)
(*                                                                         *)
(* The object has one user-space address; Nodes are the binder_nodes made  *)
(* for it one after the other. A step is what happens under one hold of    *)
(* outer, node and inner lock, or under several when what lies between     *)
(* touches only what the thread holds a temporary reference to.            *)
(***************************************************************************)
EXTENDS Integers, Sequences, FiniteSets, SequencesExt

CONSTANTS
  Procs, Owner,   (* processes; the one whose object it is                 *)
  Threads, ProcOf,(* threads and the process of each                       *)
  Loopers,        (* threads that said BC_ENTER_LOOPER or BC_REGISTER_     *)
  Nodes,          (* binder_node structures                                *)
  Deaths,         (* binder_ref_death structures                           *)
  Bufs,           (* buffers a process may have to free                    *)
  MaxCount,       (* bound on the counts of a reference                    *)
  MaxLocal,       (* bound on a node's local counts                        *)
  Mortal,         (* processes that may die                                *)
  Uses,           (* what user space may do: the threads it runs, what they *)
                  (* do, and how much of the rest they use at a time       *)
  None

AllActs == {"weak", "ctxmgr", "exit", "calls", "binders", "handles", "nomem"}

ASSUME ProcAssumption ==
  /\ Owner \in Procs /\ ProcOf \in [Threads -> Procs] /\ Loopers \subseteq Threads
  /\ Mortal \subseteq Procs 
  /\ Uses \subseteq [threads : SUBSET Threads, acts : SUBSET AllActs,
                      nodes : SUBSET Nodes, deaths : Nat, bufs : Nat]
ASSUME NodeAssumption ==
  /\ None \notin Procs \cup Threads \cup Nodes \cup Deaths \cup Bufs
  /\ Nodes \cap Deaths = {} /\ MaxCount \in Nat \ {0} /\ MaxLocal \in Nat

VARIABLES
  node,       (* struct binder_node                                        *)
  refs,       (* refs_by_desc of each process                              *)
  death,      (* struct binder_ref_death: work.type, or "free"             *)
  thrTodo,    (* todo of each thread                                       *)
  todo,       (* todo of each process                                      *)
  delivered,  (* delivered_death of each process                           *)
  use,        (* the use that is made of the driver, chosen at the start   *)
  ctxMgr,     (* context->binder_context_mgr_node                          *)
  op,         (* the binder_transaction a thread is in                     *)
  bufs,       (* buffers delivered and not freed                           *)
  life,       (* how far the release of a process has come                 *)
  rel,        (* the node that the release of Owner has in hand            *)
  bug         (* a BUG_ON fired or freed memory was used                   *)

vars == <<node, refs, death, thrTodo, todo, delivered, ctxMgr, use, op, bufs, life, rel, bug>>

Descs == 0 .. Cardinality(Nodes)
\* forgot is a history: a thread left with the node's work (see ThreadExit).
NewNode == [st |-> "live", proc |-> TRUE, tree |-> TRUE, is |-> 0, ls |-> 0,
            lw |-> 0, tmp |-> 0, hasStrong |-> FALSE, hasWeak |-> FALSE,
            pendStrong |-> FALSE, pendWeak |-> FALSE, forgot |-> FALSE]
NoNode == [NewNode EXCEPT !.st = "unused", !.proc = FALSE, !.tree = FALSE]
NewRef(n) == [node |-> n, strong |-> 0, weak |-> 0, death |-> None]
NoObj == [type |-> "none", strong |-> FALSE, desc |-> 0]
Idle == [pc |-> "idle", to |-> None, target |-> None, node |-> None, obj |-> NoObj]
NoBuf == [proc |-> None, target |-> None, obj |-> NoObj]

Init ==
  /\ node = [n \in Nodes |-> NoNode]
  /\ refs = [p \in Procs |-> <<>>]
  /\ death = [d \in Deaths |-> "free"]
  /\ thrTodo = [t \in Threads |-> <<>>]
  /\ todo = [p \in Procs |-> <<>>]
  /\ delivered = [p \in Procs |-> <<>>]
  /\ ctxMgr = None
  /\ use \in Uses
  /\ op = [t \in Threads |-> Idle]
  /\ bufs = [b \in Bufs |-> NoBuf]
  /\ life = [p \in Procs |-> "alive"]
  /\ rel = None
  /\ bug = FALSE

(***************************************************************************)
(* Operators on what the locks protect. S is such a state.                 *)
(***************************************************************************)
Now == [node |-> node, refs |-> refs, death |-> death, thrTodo |-> thrTodo,
        todo |-> todo, delivered |-> delivered, bug |-> bug]
Become(S) ==
  /\ node' = S.node /\ refs' = S.refs /\ death' = S.death /\ thrTodo' = S.thrTodo
  /\ todo' = S.todo /\ delivered' = S.delivered /\ bug' = S.bug

BugIf(S, cond) == [S EXCEPT !.bug = @ \/ cond]

\* !list_empty(&work.entry)
OnList(S, w) ==
  \/ \E t \in Threads : Contains(S.thrTodo[t], w)
  \/ \E p \in Procs : Contains(S.todo[p], w) \/ Contains(S.delivered[p], w)

binder_dequeue_work(S, w) ==
  [S EXCEPT !.thrTodo = [t \in Threads |-> Remove(@[t], w)],
            !.todo = [p \in Procs |-> Remove(@[p], w)],
            !.delivered = [p \in Procs |-> Remove(@[p], w)]]

\* node->refs is not empty.
Referenced(S, n) ==
  \E p \in Procs : \E d \in DOMAIN S.refs[p] : S.refs[p][d].node = n

IncFails(S, n, strong, internal, list) ==
  LET N == S.node[n] IN
  IF strong THEN /\ internal /\ list = None /\ N.is = 0
                 /\ ~ (N.proc /\ n = ctxMgr /\ N.hasStrong)
            ELSE ~ N.hasWeak /\ ~ OnList(S, n) /\ list = None

\* list is the thread whose todo the caller passes, or None. A local weak
\* count goes up before the error.
binder_inc_node(S, n, strong, internal, list) ==
  LET N == S.node[n]
      C == [S EXCEPT !.node[n] =
             IF strong THEN IF internal THEN [N EXCEPT !.is = @ + 1]
                                        ELSE [N EXCEPT !.ls = @ + 1]
             ELSE IF internal THEN N ELSE [N EXCEPT !.lw = @ + 1]]
      Queue(Q) == [Q EXCEPT !.thrTodo[list] = Append(@, n)]
  IN BugIf(IF IncFails(S, n, strong, internal, list)
           THEN IF strong \/ internal THEN S ELSE C
           ELSE IF strong
                THEN IF ~ N.hasStrong /\ list # None
                     THEN Queue(binder_dequeue_work(C, n)) ELSE C
                ELSE IF ~ N.hasWeak /\ ~ OnList(S, n) THEN Queue(C) ELSE C,
           N.st # "live")

\* Mutant: a temporary reference does not keep the node.
NodeDone_NoTmp(S, n) ==
  LET N == S.node[n] IN ~ Referenced(S, n) /\ N.ls = 0 /\ N.lw = 0

\* The node that has nothing left leaves its tree or the list of dead nodes
\* and is freed by the caller.
NodeDone(S, n) ==
  LET N == S.node[n] IN ~ Referenced(S, n) /\ N.ls = 0 /\ N.lw = 0 /\ N.tmp = 0

binder_dec_node(S, n, strong, internal) ==
  LET N == S.node[n]
      M == IF strong THEN IF internal THEN [N EXCEPT !.is = @ - 1]
                                      ELSE [N EXCEPT !.ls = @ - 1]
           ELSE IF internal THEN N ELSE [N EXCEPT !.lw = @ - 1]
      C == [S EXCEPT !.node[n] = M]
      held == IF strong THEN M.ls # 0 \/ M.is # 0
              ELSE M.lw # 0 \/ M.tmp # 0 \/ Referenced(S, n)
  IN BugIf(IF held THEN C
           ELSE IF M.proc /\ (M.hasStrong \/ M.hasWeak)
                THEN IF OnList(S, n) THEN C
                     ELSE [C EXCEPT !.todo[Owner] = Append(@, n)]
           ELSE IF ~ NodeDone(C, n) THEN C
           ELSE LET D == IF M.proc THEN binder_dequeue_work(C, n)
                                   ELSE BugIf(C, OnList(C, n))
                IN [D EXCEPT !.node[n].st = "freed", !.node[n].tree = FALSE],
           N.st # "live")

binder_inc_node_tmpref(S, n) ==
  BugIf([S EXCEPT !.node[n].tmp = @ + 1], S.node[n].st # "live")

binder_put_node(S, n) ==
  binder_dec_node(BugIf([S EXCEPT !.node[n].tmp = @ - 1], S.node[n].tmp = 0),
                  n, FALSE, TRUE)

\* The reference leaves the trees; the node is told; a pending notice goes.
binder_cleanup_ref(S, p, d) ==
  LET r == S.refs[p][d]
      D == IF r.strong > 0 THEN binder_dec_node(S, r.node, TRUE, TRUE) ELSE S
      E == [D EXCEPT !.refs[p] = [x \in DOMAIN @ \ {d} |-> @[x]]]
      F == binder_dec_node(E, r.node, FALSE, TRUE)
  IN IF r.death = None THEN F
     ELSE [binder_dequeue_work(F, r.death) EXCEPT !.death[r.death] = "free"]

\* Only the first increment of a kind reaches the node; it may fail.
RefIncFails(S, p, d, strong, list) ==
  LET r == S.refs[p][d] IN
  /\ IF strong THEN r.strong = 0 ELSE r.weak = 0
  /\ IncFails(S, r.node, strong, TRUE, list)
binder_inc_ref(S, p, d, strong, list) ==
  LET r == S.refs[p][d]
      first == IF strong THEN r.strong = 0 ELSE r.weak = 0
      C == IF first THEN binder_inc_node(S, r.node, strong, TRUE, list) ELSE S
  IN IF RefIncFails(S, p, d, strong, list) THEN C
     ELSE IF strong THEN [C EXCEPT !.refs[p][d].strong = @ + 1]
                    ELSE [C EXCEPT !.refs[p][d].weak = @ + 1]

binder_dec_ref(S, p, d, strong) ==
  LET r == S.refs[p][d]
      C == IF strong THEN [S EXCEPT !.refs[p][d].strong = @ - 1]
                     ELSE [S EXCEPT !.refs[p][d].weak = @ - 1]
      D == IF strong /\ r.strong = 1 THEN binder_dec_node(C, r.node, TRUE, TRUE) ELSE C
      q == D.refs[p][d]
  IN IF (IF strong THEN r.strong ELSE r.weak) = 0 THEN S
     ELSE IF q.strong = 0 /\ q.weak = 0 THEN binder_cleanup_ref(D, p, d) ELSE D

\* binder_get_ref_olocked
HasRef(S, p, d, strong) == d \in DOMAIN S.refs[p] /\ (strong => S.refs[p][d].strong > 0)

\* The lowest descriptor that is free; 0 is kept for the context manager.
FreeDesc(S, p, n) ==
  LET lo == IF n = ctxMgr THEN 0 ELSE 1
  IN CHOOSE d \in lo .. Cardinality(Nodes) + 1 :
       /\ d \notin DOMAIN S.refs[p]
       /\ \A e \in lo .. d - 1 : e \in DOMAIN S.refs[p]
binder_get_ref_for_node(S, p, n) ==
  IF \E d \in DOMAIN S.refs[p] : S.refs[p][d].node = n THEN S
  ELSE LET d == FreeDesc(S, p, n)
       IN [S EXCEPT !.refs[p] = [x \in DOMAIN @ \cup {d} |->
                                   IF x = d THEN NewRef(n) ELSE @[x]]]
DescOf(S, p, n) == CHOOSE d \in DOMAIN S.refs[p] : S.refs[p][d].node = n

\* binder_inc_ref_for_node: a reference that was made stays when the
\* increment fails.
IncRefForNodeFails(S, p, n, strong, list) ==
  LET C == binder_get_ref_for_node(S, p, n)
  IN RefIncFails(C, p, DescOf(C, p, n), strong, list)
binder_inc_ref_for_node(S, p, n, strong, list) ==
  LET C == binder_get_ref_for_node(S, p, n)
  IN binder_inc_ref(C, p, DescOf(C, p, n), strong, list)

\* Nodes that were not allocated yet.
Unused == {n \in use.nodes : node[n].st = "unused"}

\* The node in the tree of the owner, where its address finds it.
InTree == {n \in Nodes : node[n].tree}

\* Mutant: the count taken on the target node is not given back.
BufferRelease_KeepTarget(S, p, target, obj) ==
  CASE obj.type = "handle" /\ HasRef(S, p, obj.desc, obj.strong) ->
         binder_dec_ref(S, p, obj.desc, obj.strong)
    [] OTHER -> S

\* binder_transaction_buffer_release for the target node and one object.
BufferRelease(S, p, target, obj) ==
  LET C == IF target = None THEN S ELSE binder_dec_node(S, target, TRUE, FALSE)
      Tree == {n \in Nodes : C.node[n].tree}
  IN CASE obj.type = "handle" /\ HasRef(C, p, obj.desc, obj.strong) ->
            binder_dec_ref(C, p, obj.desc, obj.strong)
       [] obj.type = "binder" /\ p = Owner /\ Tree # {} ->
            LET n == CHOOSE x \in Tree : TRUE
            IN binder_put_node(binder_dec_node(binder_inc_node_tmpref(C, n),
                                               n, obj.strong, FALSE), n)
       [] OTHER -> C

\* binder_release_work: a node's work is forgotten; a notice to be cleared is
\* freed, one still in a reference is freed with it.
ReleaseWork(S, list) ==
  [S EXCEPT !.death = [d \in Deaths |->
     IF Contains(list, d) /\ @[d] \in {"DEAD_AND_CLEAR", "CLEAR"} THEN "free" ELSE @[d]]]

(***************************************************************************)
(* Commands. A thread that is in no transaction writes and reads.          *)
(***************************************************************************)
Running == {ProcOf[t] : t \in use.threads}
Free(t) == t \in use.threads /\ op[t] = Idle /\ life[ProcOf[t]] = "alive"

\* BC_ACQUIRE, BC_INCREFS, BC_RELEASE, BC_DECREFS on a handle.
UpdateRef(t, d, increment, strong) ==
  LET p == ProcOf[t] IN
  /\ Free(t) /\ (strong \/ "weak" \in use.acts)
  /\ HasRef(Now, p, d, strong)
  /\ increment => /\ ~ (d = 0 /\ ctxMgr # None)
                  /\ (IF strong THEN refs[p][d].strong ELSE refs[p][d].weak) < MaxCount
  /\ Become(IF increment THEN binder_inc_ref(Now, p, d, strong, None)
                         ELSE binder_dec_ref(Now, p, d, strong))
  /\ UNCHANGED <<ctxMgr, use, op, bufs, life, rel>>

\* BC_ACQUIRE, BC_INCREFS on handle 0.
IncCtxMgr(t, strong) ==
  LET p == ProcOf[t] IN
  /\ Free(t) /\ ctxMgr # None /\ p # Owner
  /\ \A d \in DOMAIN refs[p] : refs[p][d].node = ctxMgr =>
       (IF strong THEN refs[p][d].strong ELSE refs[p][d].weak) < MaxCount
  /\ Become(binder_inc_ref_for_node(Now, p, ctxMgr, strong, None))
  /\ UNCHANGED <<ctxMgr, use, op, bufs, life, rel>>

\* BINDER_SET_CONTEXT_MGR.
SetCtxMgr(t) ==
  /\ Free(t) /\ "ctxmgr" \in use.acts /\ ProcOf[t] = Owner /\ ctxMgr = None
  /\ \E n \in IF InTree # {} THEN InTree ELSE Unused :
       LET N == IF node[n].tree THEN node[n] ELSE NewNode
       IN /\ ctxMgr' = n
          /\ node' = [node EXCEPT ![n] = [N EXCEPT !.lw = @ + 1, !.ls = @ + 1,
                                            !.hasStrong = TRUE, !.hasWeak = TRUE]]
  /\ UNCHANGED <<refs, death, thrTodo, todo, delivered, use, op, bufs, life, rel, bug>>

\* BC_ACQUIRE_DONE, BC_INCREFS_DONE; the last step is PutNode.
AcquireDone(t, strong) ==
  /\ Free(t) /\ ProcOf[t] = Owner
  /\ \E n \in InTree :
       /\ IF strong THEN node[n].pendStrong ELSE node[n].pendWeak
       /\ LET C == [binder_inc_node_tmpref(Now, n) EXCEPT
                      !.node[n] = IF strong THEN [@ EXCEPT !.pendStrong = FALSE]
                                            ELSE [@ EXCEPT !.pendWeak = FALSE]]
              D == binder_dec_node(C, n, strong, FALSE)
          IN Become(BugIf(D, D.node[n].st = "freed"))
       /\ op' = [op EXCEPT ![t] = [Idle EXCEPT !.pc = "put", !.node = n]]
  /\ UNCHANGED <<ctxMgr, use, bufs, life, rel>>

\* Where a notice of cleared death goes.
QueueClear(S, t, x) ==
  IF t \in Loopers THEN [S EXCEPT !.thrTodo[t] = Append(@, x)]
                   ELSE [S EXCEPT !.todo[ProcOf[t]] = Append(@, x)]

RequestDeath(t, d) ==
  LET p == ProcOf[t] IN
  /\ Free(t) /\ d \in DOMAIN refs[p] /\ refs[p][d].death = None
  /\ Cardinality({x \in Deaths : death[x] # "free"}) < use.deaths
  /\ \E x \in Deaths :
       /\ death[x] = "free"
       /\ LET C == [Now EXCEPT !.refs[p][d].death = x, !.death[x] = "idle"]
          IN Become(IF node[refs[p][d].node].proc THEN C
                    ELSE [C EXCEPT !.death[x] = "DEAD", !.todo[p] = Append(@, x)])
  /\ UNCHANGED <<ctxMgr, use, op, bufs, life, rel>>

\* Mutant: a notice that is on a list already is queued once more.
ClearDeath_Forget(t, d) ==
  LET p == ProcOf[t]
      x == refs[p][d].death
  IN
  /\ Free(t) /\ d \in DOMAIN refs[p] /\ refs[p][d].death # None
  /\ Become(QueueClear([Now EXCEPT !.refs[p][d].death = None, !.death[x] = "CLEAR"], t, x))
  /\ UNCHANGED <<ctxMgr, use, op, bufs, life, rel>>

ClearDeath(t, d) ==
  LET p == ProcOf[t]
      x == refs[p][d].death
      C == [Now EXCEPT !.refs[p][d].death = None]
  IN
  /\ Free(t) /\ d \in DOMAIN refs[p] /\ refs[p][d].death # None
  /\ Become(IF OnList(Now, x)
            THEN BugIf([C EXCEPT !.death[x] = "DEAD_AND_CLEAR"], death[x] # "DEAD")
            ELSE QueueClear([C EXCEPT !.death[x] = "CLEAR"], t, x))
  /\ UNCHANGED <<ctxMgr, use, op, bufs, life, rel>>

\* BC_DEAD_BINDER_DONE: the first delivered notice with the proxy's cookie.
DeadBinderDone(t) ==
  LET p == ProcOf[t]
      x == Head(delivered[p])
      C == binder_dequeue_work(Now, x)
  IN
  /\ Free(t) /\ delivered[p] # <<>>
  /\ Become(IF death[x] = "DEAD_AND_CLEAR"
            THEN QueueClear([C EXCEPT !.death[x] = "CLEAR"], t, x) ELSE C)
  /\ UNCHANGED <<ctxMgr, use, op, bufs, life, rel>>

\* binder_thread_read of BINDER_WORK_NODE: user space learns what changed.
ReadNodeWork(S, n) ==
  LET N == S.node[n]
      strong == N.is # 0 \/ N.ls # 0
      weak == Referenced(S, n) \/ N.lw # 0 \/ N.tmp # 0 \/ strong
  IN BugIf([S EXCEPT !.node[n] = [@ EXCEPT
        !.st = IF ~ weak /\ ~ strong THEN "freed" ELSE @,
        !.tree = @ /\ (weak \/ strong),
        !.hasWeak = weak, !.pendWeak = @ \/ (weak /\ ~ N.hasWeak),
        !.lw = IF weak /\ ~ N.hasWeak THEN @ + 1 ELSE @,
        !.hasStrong = strong, !.pendStrong = @ \/ (strong /\ ~ N.hasStrong),
        !.ls = IF strong /\ ~ N.hasStrong THEN @ + 1 ELSE @]],
      ~ N.proc \/ N.st # "live")

\* binder_thread_read of a notice.
ReadDeathWork(S, p, x) ==
  IF S.death[x] = "CLEAR" THEN [S EXCEPT !.death[x] = "free"]
                          ELSE [S EXCEPT !.delivered[p] = Append(@, x)]

ReadWork(t, own) ==
  LET p == ProcOf[t]
      list == IF own THEN thrTodo[t] ELSE todo[p]
      w == Head(list)
      C == IF own THEN [Now EXCEPT !.thrTodo[t] = Tail(@)] ELSE [Now EXCEPT !.todo[p] = Tail(@)]
  IN
  /\ Free(t) /\ list # <<>>
  /\ Become(IF w \in Nodes THEN ReadNodeWork(BugIf(C, p # Owner), w)
                           ELSE ReadDeathWork(BugIf(C, death[w] = "free"), p, w))
  /\ UNCHANGED <<ctxMgr, use, op, bufs, life, rel>>

\* BINDER_THREAD_EXIT: what the thread had to do is dropped, the work of a
\* node too ("unexpected work type" in the log, and the owner is not told).
ThreadExit(t) ==
  /\ Free(t) /\ "exit" \in use.acts /\ thrTodo[t] # <<>>
  /\ Become([ReleaseWork(Now, thrTodo[t]) EXCEPT !.thrTodo[t] = <<>>,
       !.node = [n \in Nodes |-> [@[n] EXCEPT !.forgot = @ \/ Contains(thrTodo[t], n)]]])
  /\ UNCHANGED <<ctxMgr, use, op, bufs, life, rel>>

(***************************************************************************)
(* binder_transaction: find the target, translate one object, deliver.     *)
(***************************************************************************)
\* A call through a handle: binder_get_node_refs_for_txn.
CallStart(t, d) ==
  LET p == ProcOf[t]
      n == refs[p][d].node
  IN
  /\ Free(t) /\ "calls" \in use.acts /\ HasRef(Now, p, d, TRUE) /\ node[n].proc
  /\ Become(binder_inc_node_tmpref(binder_inc_node(Now, n, TRUE, FALSE, None), n))
  /\ op' = [op EXCEPT ![t] = [Idle EXCEPT !.pc = "objects", !.to = Owner, !.target = n]]
  /\ UNCHANGED <<ctxMgr, use, bufs, life, rel>>

\* A call through another handle, or a reply: the target is a process.
TransactionStart(t, q) ==
  /\ Free(t) /\ q # ProcOf[t] /\ life[q] = "alive" /\ q \in Running
  /\ use.acts \cap {"binders", "handles"} # {}
  /\ op' = [op EXCEPT ![t] = [Idle EXCEPT !.pc = "objects", !.to = q]]
  /\ UNCHANGED <<node, refs, death, thrTodo, todo, delivered, ctxMgr, use, bufs, life, rel, bug>>

NoObject(t) ==
  /\ op[t].pc = "objects" /\ op[t].target # None
  /\ op' = [op EXCEPT ![t].pc = "send"]
  /\ UNCHANGED <<node, refs, death, thrTodo, todo, delivered, ctxMgr, use, bufs, life, rel, bug>>

\* binder_translate_binder: find the node of the object or make one.
TranslateBinder(t, strong) ==
  LET obj == [NoObj EXCEPT !.type = "handle", !.strong = strong] IN
  /\ op[t].pc = "objects" /\ ProcOf[t] = Owner /\ "binders" \in use.acts
  /\ strong \/ "weak" \in use.acts
  /\ \/ \E n \in InTree :
          /\ Become(binder_inc_node_tmpref(Now, n))
          /\ op' = [op EXCEPT ![t] = [@ EXCEPT !.pc = "incref", !.node = n, !.obj = obj]]
     \/ /\ InTree = {}
        /\ op' = [op EXCEPT ![t] = [@ EXCEPT !.pc = "new", !.obj = obj]]
        /\ UNCHANGED <<node, refs, death, thrTodo, todo, delivered, bug>>
  /\ UNCHANGED <<ctxMgr, use, bufs, life, rel>>

\* Mutant: the tree is not searched again under the lock.
MakeNode_Blind(t) ==
  /\ op[t].pc = "new"
  /\ \E n \in Unused :
       /\ node' = [node EXCEPT ![n] = [NewNode EXCEPT !.tmp = 1]]
       /\ op' = [op EXCEPT ![t] = [@ EXCEPT !.pc = "incref", !.node = n]]
  /\ UNCHANGED <<refs, death, thrTodo, todo, delivered, ctxMgr, use, bufs, life, rel, bug>>

\* binder_new_node; another thread may have been first.
MakeNode(t) ==
  /\ op[t].pc = "new"
  /\ \E n \in IF InTree # {} THEN InTree ELSE Unused :
       /\ node' = [node EXCEPT ![n] = [IF @.tree THEN @ ELSE NewNode EXCEPT !.tmp = @ + 1]]
       /\ op' = [op EXCEPT ![t] = [@ EXCEPT !.pc = "incref", !.node = n]]
  /\ UNCHANGED <<refs, death, thrTodo, todo, delivered, ctxMgr, use, bufs, life, rel, bug>>

\* binder_translate_handle up to where the outer lock is dropped.
TranslateHandle(t, d, strong) ==
  LET p == ProcOf[t] IN
  /\ op[t].pc = "objects" /\ "handles" \in use.acts /\ (strong \/ "weak" \in use.acts)
  /\ HasRef(Now, p, d, strong)
  /\ Become(binder_inc_node_tmpref(Now, refs[p][d].node))
  /\ op' = [op EXCEPT ![t] = [@ EXCEPT !.pc = "handle", !.node = refs[p][d].node,
                                !.obj = [NoObj EXCEPT !.strong = strong]]]
  /\ UNCHANGED <<ctxMgr, use, bufs, life, rel>>

\* The handle goes home: it becomes the object again, with a local count.
HandleToNode(t) ==
  LET o == op[t] IN
  /\ o.pc = "handle" /\ node[o.node].proc /\ o.to = Owner
  /\ node[o.node].ls < MaxLocal /\ node[o.node].lw < MaxLocal
  /\ Become(binder_inc_node(Now, o.node, o.obj.strong, FALSE, None))
  /\ op' = [op EXCEPT ![t] = [@ EXCEPT !.pc = "put", !.obj.type = "binder"]]
  /\ UNCHANGED <<ctxMgr, use, bufs, life, rel>>

\* binder_inc_ref_for_node in the target process; "incref" passes the todo of
\* the thread, "handle" none.
IncRef(t) ==
  LET o == op[t]
      list == IF o.pc = "incref" THEN t ELSE None
      S == binder_inc_ref_for_node(Now, o.to, o.node, o.obj.strong, list)
      fails == IncRefForNodeFails(Now, o.to, o.node, o.obj.strong, list)
  IN
  /\ o.pc = "incref" \/ (o.pc = "handle" /\ ~ (node[o.node].proc /\ o.to = Owner))
  /\ \A d \in DOMAIN refs[o.to] : refs[o.to][d].node = o.node =>
       (IF o.obj.strong THEN refs[o.to][d].strong ELSE refs[o.to][d].weak) < MaxCount
  /\ Become(S)
  /\ op' = [op EXCEPT ![t] = [@ EXCEPT !.pc = IF fails THEN "putfail" ELSE "put",
                                !.obj = IF fails THEN NoObj
                                        ELSE [@ EXCEPT !.type = "handle",
                                                !.desc = DescOf(S, o.to, o.node)]]]
  /\ UNCHANGED <<ctxMgr, use, bufs, life, rel>>

\* -ENOMEM for the node or the reference, or a refusal by the security module.
TranslateFails(t) ==
  /\ "nomem" \in use.acts /\ op[t].pc \in {"new", "incref", "handle"}
  /\ op' = [op EXCEPT ![t] = [@ EXCEPT !.pc = IF op[t].pc = "new" THEN "fail" ELSE "putfail",
                                !.obj = NoObj]]
  /\ UNCHANGED <<node, refs, death, thrTodo, todo, delivered, ctxMgr, use, bufs, life, rel, bug>>

\* binder_put_node at the end of a translation or of BC_ACQUIRE_DONE.
PutNode(t) ==
  LET o == op[t] IN
  /\ o.pc \in {"put", "putfail"}
  /\ Become(binder_put_node(Now, o.node))
  /\ op' = [op EXCEPT ![t] = IF o.to = None THEN Idle
                             ELSE [o EXCEPT !.node = None,
                                     !.pc = IF o.pc = "put" THEN "send" ELSE "fail"]]
  /\ UNCHANGED <<ctxMgr, use, bufs, life, rel>>

\* binder_proc_transaction finds the target alive.
Send(t) ==
  LET o == op[t] IN
  /\ o.pc = "send" /\ life[o.to] = "alive"
  /\ Cardinality({b \in Bufs : bufs[b] # NoBuf}) < use.bufs
  /\ \E b \in Bufs : /\ bufs[b] = NoBuf
                     /\ bufs' = [bufs EXCEPT ![b] = [proc |-> o.to, target |-> o.target,
                                                     obj |-> o.obj]]
  /\ op' = [op EXCEPT ![t] = IF o.target = None THEN Idle
                             ELSE [Idle EXCEPT !.pc = "put", !.node = o.target]]
  /\ UNCHANGED <<node, refs, death, thrTodo, todo, delivered, ctxMgr, use, life, rel, bug>>

\* The target is dead or a translation failed: the buffer is released.
SendFails(t) ==
  LET o == op[t] IN
  /\ o.pc = "fail" \/ (o.pc = "send" /\ life[o.to] # "alive")
  /\ Become(BufferRelease(Now, o.to, o.target, o.obj))
  /\ op' = [op EXCEPT ![t] = IF o.target = None THEN Idle
                             ELSE [Idle EXCEPT !.pc = "put", !.node = o.target]]
  /\ UNCHANGED <<ctxMgr, use, bufs, life, rel>>

\* BC_FREE_BUFFER.
FreeBuffer(t, b) ==
  /\ Free(t) /\ bufs[b].proc = ProcOf[t]
  /\ Become(BufferRelease(Now, ProcOf[t], bufs[b].target, bufs[b].obj))
  /\ bufs' = [bufs EXCEPT ![b] = NoBuf]
  /\ UNCHANGED <<ctxMgr, use, op, life, rel>>

(***************************************************************************)
(* binder_deferred_release. No thread of the process is in the driver; the *)
(* process stays while a transaction of another one is under way to it.    *)
(***************************************************************************)
ReleaseStart(p) ==
  LET Mine == {t \in Threads : ProcOf[t] = p}
      Lists == [t \in Mine |-> thrTodo[t]]
  IN
  /\ p \in Mortal \cap Running /\ life[p] = "alive" /\ \A t \in Mine : op[t] = Idle
  /\ Become([[Now EXCEPT !.death = [d \in Deaths |->
                IF \E t \in Mine : ReleaseWork(Now, Lists[t]).death[d] # death[d]
                THEN "free" ELSE death[d]]]
             EXCEPT !.thrTodo = [t \in Threads |-> IF t \in Mine THEN <<>> ELSE @[t]]])
  /\ ctxMgr' = IF p = Owner THEN None ELSE ctxMgr
  /\ life' = [life EXCEPT ![p] = "nodes"]
  /\ UNCHANGED <<use, op, bufs, rel>>

\* The next node leaves the tree with a temporary reference.
ReleaseTakeNode(p) ==
  /\ life[p] = "nodes" /\ p = Owner /\ rel = None
  /\ \E n \in InTree :
       /\ node' = [node EXCEPT ![n] = [@ EXCEPT !.tree = FALSE, !.tmp = @ + 1]]
       /\ rel' = n
  /\ UNCHANGED <<refs, death, thrTodo, todo, delivered, ctxMgr, use, op, bufs, life, bug>>

\* binder_node_release: free the node, or let it die and tell who asked.
NodeRelease(p) ==
  LET n == rel
      C == binder_dequeue_work(Now, n)
      Told(q) == {refs[q][d].death : d \in {e \in DOMAIN refs[q] : refs[q][e].node = n}} \ {None}
      D == [C EXCEPT !.node[n] = [@ EXCEPT !.proc = FALSE, !.ls = 0, !.lw = 0],
              !.death = [x \in Deaths |-> IF \E q \in Procs : x \in Told(q) THEN "DEAD" ELSE @[x]],
              !.todo = [q \in Procs |-> @[q] \o SetToSeq(Told(q))]]
  IN
  /\ p = Owner /\ rel # None /\ node[rel].proc
  /\ IF ~ Referenced(Now, n) /\ node[n].tmp = 1
     THEN Become([C EXCEPT !.node[n].st = "freed"]) /\ rel' = None
     ELSE /\ Become(BugIf(D, \E q \in Procs : \E x \in Told(q) : OnList(Now, x)))
          /\ UNCHANGED rel
  /\ UNCHANGED <<ctxMgr, use, op, bufs, life>>

ReleasePutNode(p) ==
  /\ p = Owner /\ rel # None /\ ~ node[rel].proc
  /\ Become(binder_put_node(Now, rel))
  /\ rel' = None
  /\ UNCHANGED <<ctxMgr, use, op, bufs, life>>

NodesReleased(p) == life[p] = "nodes" /\ (p = Owner => InTree = {} /\ rel = None)

ReleaseRef(p) ==
  /\ NodesReleased(p)
  /\ \E d \in DOMAIN refs[p] :
       /\ \A e \in DOMAIN refs[p] : d <= e
       /\ Become(binder_cleanup_ref(Now, p, d))
  /\ UNCHANGED <<ctxMgr, use, op, bufs, life, rel>>

ReleaseEnd(p) ==
  /\ NodesReleased(p) /\ refs[p] = <<>>
  /\ Become([ReleaseWork(Now, todo[p] \o delivered[p]) EXCEPT
               !.todo[p] = <<>>, !.delivered[p] = <<>>])
  /\ life' = [life EXCEPT ![p] = "released"]
  /\ UNCHANGED <<ctxMgr, use, op, bufs, rel>>

\* binder_free_proc when the last temporary reference is dropped.
FreeProc(p) ==
  /\ life[p] = "released" /\ \A t \in Threads : op[t].to # p
  /\ life' = [life EXCEPT ![p] = "freed"]
  /\ bufs' = [b \in Bufs |-> IF bufs[b].proc = p THEN NoBuf ELSE bufs[b]]
  /\ bug' = (bug \/ todo[p] # <<>> \/ delivered[p] # <<>>)
  /\ UNCHANGED <<node, refs, death, thrTodo, todo, delivered, ctxMgr, use, op, rel>>

Command(t) ==
  \/ \E d \in DOMAIN refs[ProcOf[t]] :
       \/ \E i, s \in BOOLEAN : UpdateRef(t, d, i, s)
       \/ RequestDeath(t, d)
       \/ ClearDeath(t, d)
  \/ \E s \in BOOLEAN : IncCtxMgr(t, s) \/ AcquireDone(t, s)
  \/ SetCtxMgr(t)
  \/ DeadBinderDone(t)
  \/ \E own \in BOOLEAN : ReadWork(t, own)
  \/ ThreadExit(t)
  \/ \E b \in Bufs : FreeBuffer(t, b)

Transaction(t) ==
  \/ \E d \in DOMAIN refs[ProcOf[t]] :
       CallStart(t, d) \/ \E s \in BOOLEAN : TranslateHandle(t, d, s)
  \/ \E q \in Procs : TransactionStart(t, q)
  \/ NoObject(t)
  \/ \E s \in BOOLEAN : TranslateBinder(t, s)
  \/ MakeNode(t) \/ HandleToNode(t) \/ IncRef(t) \/ TranslateFails(t)
  \/ PutNode(t) \/ Send(t) \/ SendFails(t)

Release(p) ==
  \/ ReleaseTakeNode(p) \/ NodeRelease(p) \/ ReleasePutNode(p)
  \/ ReleaseRef(p) \/ ReleaseEnd(p) \/ FreeProc(p)

Next ==
  \/ \E t \in Threads : Command(t) \/ Transaction(t)
  \/ \E p \in Procs : ReleaseStart(p) \/ Release(p)

Spec == Init /\ [][Next]_vars

(***************************************************************************)
(* Properties                                                              *)
(***************************************************************************)
TypeOK ==
  /\ node \in [Nodes -> [st : {"unused", "live", "freed"}, proc : BOOLEAN, tree : BOOLEAN,
                         is : Int, ls : Int, lw : Int, tmp : Nat, hasStrong : BOOLEAN,
                         hasWeak : BOOLEAN, pendStrong : BOOLEAN, pendWeak : BOOLEAN, forgot : BOOLEAN]]
  /\ \A p \in Procs : /\ DOMAIN refs[p] \subseteq Descs
                       /\ \A d \in DOMAIN refs[p] :
                            refs[p][d] \in [node : Nodes, strong : 0 .. MaxCount,
                                           weak : 0 .. MaxCount, death : Deaths \cup {None}]
  /\ death \in [Deaths -> {"free", "idle", "DEAD", "DEAD_AND_CLEAR", "CLEAR"}]
  /\ \A t \in Threads : ToSet(thrTodo[t]) \subseteq Nodes \cup Deaths
  /\ \A p \in Procs : /\ ToSet(todo[p]) \subseteq Nodes \cup Deaths
                       /\ ToSet(delivered[p]) \subseteq Deaths
  /\ ctxMgr \in Nodes \cup {None} /\ rel \in Nodes \cup {None} /\ bug \in BOOLEAN
  /\ use \in Uses

\* No BUG_ON of node and reference code fires, and no freed node, notice or
\* work list is used, whoever dies when.
NoBug == ~ bug

\* What is pointed to is there: the node of a reference, of a transaction
\* under way, of a buffer of a living process and of the context.
NoFreedNode ==
  /\ \A p \in Procs : \A d \in DOMAIN refs[p] : node[refs[p][d].node].st = "live"
  /\ \A t \in Threads : \A n \in {op[t].node, op[t].target} \ {None} : node[n].st = "live"
  /\ \A b \in Bufs : bufs[b].target # None /\ life[bufs[b].proc] = "alive"
                      => node[bufs[b].target].st = "live"
  /\ ctxMgr # None => node[ctxMgr].tree

\* A freed process counts in no reference any more (struct binder_ref: "@proc:
\* binder_proc containing ref"). One that binder_inc_ref_for_node made and could
\* not increment is left behind with both counts 0; README, Findings.
RefsOfLivingProcs ==
  \A p \in Procs : life[p] = "freed" =>
    \A d \in DOMAIN refs[p] : refs[p][d].strong = 0 /\ refs[p][d].weak = 0

\* While its process lives a node counts exactly who uses it: references
\* that are strong, buffers and transactions that carry or target it, the
\* acknowledgements it waits for and the context; threads that hold it.
CountsBalance ==
  LET Refs(n) == {<<p, d>> \in Procs \X Descs :
                    d \in DOMAIN refs[p] /\ refs[p][d].node = n /\ refs[p][d].strong > 0}
      B(x) == IF x THEN 1 ELSE 0
      Carried(s) == {b \in Bufs : bufs[b].obj.type = "binder" /\ bufs[b].obj.strong = s}
                    \cup {t \in Threads : op[t].obj.type = "binder" /\ op[t].obj.strong = s}
      Targets(n) == {b \in Bufs : bufs[b].target = n} \cup {t \in Threads : op[t].target = n}
  IN \A n \in InTree : life[Owner] = "alive" =>
       LET N == node[n] IN
       /\ N.is = Cardinality(Refs(n))
       /\ N.ls = Cardinality(Targets(n)) + Cardinality(Carried(TRUE))
                   + B(N.pendStrong) + B(ctxMgr = n)
       /\ N.lw = Cardinality(Carried(FALSE)) + B(N.pendWeak) + B(ctxMgr = n)
       /\ N.tmp = Cardinality({t \in Threads : op[t].node = n})
                    + Cardinality({t \in Threads : op[t].target = n})

\* The owner's user space holds its object while anyone has it strongly, or
\* is about to be told (BR_ACQUIRE), and is told when the last one goes,
\* unless a thread that left took that work with it.
OwnerHears ==
  \A n \in InTree : life[Owner] = "alive" /\ ~ node[n].forgot =>
    LET N == node[n] IN
    /\ (N.is > 0 \/ N.ls > 0) => N.hasStrong \/ OnList(Now, n)
    /\ N.hasStrong /\ N.is = 0 /\ N.ls = 0 => OnList(Now, n)

\* A notice is in one place: with its reference, or cleared and on its way,
\* and its type says which.
NoticePlaced ==
  \A x \in Deaths :
    LET InRef == {<<p, d>> \in Procs \X Descs : d \in DOMAIN refs[p] /\ refs[p][d].death = x}
        Done == \A p \in Procs : ~ Contains(delivered[p], x)
    IN /\ Cardinality(InRef) = (IF death[x] \in {"idle", "DEAD"} THEN 1 ELSE 0)
       /\ death[x] \in {"free", "idle"} => ~ OnList(Now, x)
       /\ death[x] \in {"CLEAR", "DEAD_AND_CLEAR"} => OnList(Now, x)
       /\ death[x] = "CLEAR" => Done

\* Nodes, references and notices are never used after they are freed, and no
\* reference that counts survives its process.
NodesSound == TypeOK /\ NoBug /\ NoFreedNode /\ RefsOfLivingProcs
=============================================================================
