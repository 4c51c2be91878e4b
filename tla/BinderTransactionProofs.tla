----------------------- MODULE BinderTransactionProofs ----------------------
(***************************************************************************)
(* Proofs about BinderTransaction, for any number of processes, threads,   *)
(* nodes and transactions: the stacks of both ends of a call agree and no  *)
(* BUG_ON fires, a transaction is in exactly one place and nothing         *)
(* dangles, one-way calls of a node come one at a time, and process_todo   *)
(* says whether a thread may sleep.                                        *)
(*                                                                         *)
(* The four rest on the invariant of BinderTransactionInv.  Here are the   *)
(* steps that send, deliver and cut calls: they follow pointers or name new *)
(* transactions, and it is the order of names that says where the pointers *)
(* lead.                                                                   *)
(***************************************************************************)
EXTENDS BinderTransactionInv
-----------------------------------------------------------------------------
(* The chains binder_transaction and binder_thread_release follow.         *)

\* A pointer followed m times.
Follows(f, m, start, step) ==
  /\ f \in [0 .. m -> 0 .. MaxTxns]
  /\ \A n \in 0 .. m : f[n] = IF n = 0 THEN start
                              ELSE IF f[n - 1] = NoTxn THEN NoTxn ELSE step[f[n - 1]]

\* A walk along a pointer has an element for every number of steps.
LEMMA FollowExists ==
  ASSUME NEW start \in 0 .. MaxTxns, NEW step \in [Txns -> 0 .. MaxTxns]
  PROVE  \A m \in Nat : \E f : Follows(f, m, start, step)
<1>. DEFINE G(m) == \E f : Follows(f, m, start, step)
            B == {m \in Nat : ~G(m)}
<1>1. SUFFICES ASSUME B # {} PROVE FALSE
  OBVIOUS
<1>2. PICK m \in B : \A y \in B : m <= y
  <2>1. B \in SUBSET Nat
    OBVIOUS
  <2>. HIDE DEF B
  <2>. QED BY <2>1, <1>1, Smallest
<1>3. m # 0
  <2>1. G(0)
    <3>. DEFINE f == [n \in 0 .. 0 |-> start]
    <3>1. Follows(f, 0, start, step)
      BY DEF Follows
    <3>. QED BY <3>1
  <2>. QED BY <2>1, <1>2
<1>4. m \in Nat /\ m - 1 \in Nat /\ ~G(m)
  BY <1>2, <1>3
<1>5. G(m - 1)
  <2>1. ~(m <= m - 1)
    BY <1>4
  <2>2. m - 1 \notin B
    BY <2>1, <1>2
  <2>. QED BY <2>2, <1>4
<1>6. PICK f : Follows(f, m - 1, start, step)
  BY <1>5
<1>7. /\ \A n \in 0 .. m - 1 : f[n] = IF n = 0 THEN start
                       ELSE IF f[n - 1] = NoTxn THEN NoTxn ELSE step[f[n - 1]]
      /\ \A n \in 0 .. m - 1 : f[n] \in 0 .. MaxTxns
  BY <1>6 DEF Follows
<1>. DEFINE last == IF f[m - 1] = NoTxn THEN NoTxn ELSE step[f[m - 1]]
            g == [n \in 0 .. m |-> IF n < m THEN f[n] ELSE last]
<1>a. last \in 0 .. MaxTxns
  <2>1. f[m - 1] \in 0 .. MaxTxns
    BY <1>4, <1>7
  <2>. QED BY <2>1, TxnNumbers
<1>b. g \in [0 .. m -> 0 .. MaxTxns]
  <2>. HIDE DEF last
  <2>1. ASSUME NEW n \in 0 .. m PROVE (IF n < m THEN f[n] ELSE last) \in 0 .. MaxTxns
    <3>1. CASE n < m
      <4>1. n \in 0 .. m - 1
        BY <3>1, <1>4
      <4>. QED BY <4>1, <3>1, <1>7
    <3>2. CASE ~(n < m)
      BY <3>2, <1>a
    <3>. QED BY <3>1, <3>2
  <2>. QED BY <2>1
<1>8. ASSUME NEW n \in 0 .. m
      PROVE g[n] = IF n = 0 THEN start
                       ELSE IF g[n - 1] = NoTxn THEN NoTxn ELSE step[g[n - 1]]
  <2>1. CASE n = 0
    <3>1. n < m /\ n \in 0 .. m - 1
      BY <2>1, <1>3, <1>4
    <3>. QED BY <3>1, <2>1, <1>7
  <2>2. CASE n # 0
    <3>1. n - 1 \in 0 .. m /\ n - 1 < m
      BY <2>2, <1>4
    <3>2. g[n - 1] = f[n - 1]
      BY <3>1
    <3>3. CASE n < m
      <4>1. n \in 0 .. m - 1 /\ g[n] = f[n]
        BY <3>3, <1>4
      <4>. QED BY <4>1, <3>2, <2>2, <1>7
    <3>4. CASE ~(n < m)
      <4>1. n = m
        BY <3>4, <1>4
      <4>2. g[n] = last
        BY <4>1, <1>4
      <4>. QED BY <4>1, <4>2, <3>2, <2>2
    <3>. QED BY <3>3, <3>4
  <2>. QED BY <2>1, <2>2
<1>. HIDE DEF g
<1>9. Follows(g, m, start, step)
  BY <1>8, <1>b DEF Follows
<1>. QED BY <1>9, <1>4

\* The calls a call is nested in.
LEMMA FromChainOf ==
  ASSUME txn \in [Txns -> Txn], NEW t \in 0 .. MaxTxns
  PROVE  Follows(FromChain(t), MaxTxns, t, [s \in Txns |-> txn[s].from_parent])
<1>. DEFINE step == [s \in Txns |-> txn[s].from_parent]
            R(f) == [n \in 0 .. MaxTxns |-> IF n = 0 THEN t
                       ELSE IF f[n - 1] = NoTxn THEN NoTxn ELSE txn[f[n - 1]].from_parent]
<1>1. step \in [Txns -> 0 .. MaxTxns]
  BY TxnFields
<1>2. PICK f : Follows(f, MaxTxns, t, step)
  <2>. HIDE DEF step
  <2>. QED BY <1>1, BoundAssumption, FollowExists
<1>3. f \in [0 .. MaxTxns -> 0 .. MaxTxns]
  BY <1>2 DEF Follows
<1>4. ASSUME NEW n \in 0 .. MaxTxns PROVE f[n] = R(f)[n]
  <2>1. f[n] = IF n = 0 THEN t ELSE IF f[n - 1] = NoTxn THEN NoTxn ELSE step[f[n - 1]]
    BY <1>2 DEF Follows
  <2>2. ASSUME n # 0, f[n - 1] # NoTxn PROVE step[f[n - 1]] = txn[f[n - 1]].from_parent
    <3>1. n - 1 \in 0 .. MaxTxns
      BY <2>2, BoundAssumption
    <3>2. f[n - 1] \in Txns
      BY <3>1, <2>2, <1>3, TxnNumbers
    <3>. QED BY <3>2
  <2>. QED BY <2>1, <2>2
<1>5. f = R(f)
  BY <1>3, <1>4
<1>6. FromChain(t) = CHOOSE c : c = R(c)
  BY DEF FromChain
<1>. DEFINE d == FromChain(t)
<1>7. d = R(d)
  <2>. HIDE DEF R, d
  <2>1. d = CHOOSE c : c = R(c)
    BY <1>6 DEF d
  <2>. QED BY <2>1, <1>5
<1>. HIDE DEF d
<1>8. d \in [0 .. MaxTxns -> 0 .. MaxTxns]
  <2>. DEFINE B == {n \in 0 .. MaxTxns : d[n] \notin 0 .. MaxTxns}
  <2>1. SUFFICES ASSUME B # {} PROVE FALSE
    BY <1>7
  <2>2. PICK n \in B : \A y \in B : n <= y
    <3>1. B \in SUBSET Nat
      OBVIOUS
    <3>. HIDE DEF B
    <3>. QED BY <3>1, <2>1, Smallest
  <2>3. n \in 0 .. MaxTxns /\ d[n] \notin 0 .. MaxTxns
    BY <2>2
  <2>4. d[n] = IF n = 0 THEN t ELSE IF d[n - 1] = NoTxn THEN NoTxn ELSE txn[d[n - 1]].from_parent
    BY <2>3, <1>7
  <2>5. n # 0
    BY <2>3, <2>4
  <2>6. n - 1 \in 0 .. MaxTxns /\ ~(n <= n - 1)
    BY <2>3, <2>5, BoundAssumption
  <2>7. d[n - 1] \in 0 .. MaxTxns
    BY <2>6, <2>2
  <2>8. d[n - 1] # NoTxn => d[n - 1] \in Txns
    BY <2>7, TxnNumbers
  <2>. QED BY <2>3, <2>4, <2>5, <2>8, TxnFields, TxnNumbers
<1>9. ASSUME NEW n \in 0 .. MaxTxns
      PROVE d[n] = IF n = 0 THEN t ELSE IF d[n - 1] = NoTxn THEN NoTxn ELSE step[d[n - 1]]
  <2>1. d[n] = IF n = 0 THEN t ELSE IF d[n - 1] = NoTxn THEN NoTxn ELSE txn[d[n - 1]].from_parent
    BY <1>7
  <2>2. ASSUME n # 0, d[n - 1] # NoTxn PROVE step[d[n - 1]] = txn[d[n - 1]].from_parent
    <3>1. n - 1 \in 0 .. MaxTxns
      BY <2>2, BoundAssumption
    <3>2. d[n - 1] \in Txns
      BY <3>1, <2>2, <1>8, TxnNumbers
    <3>. QED BY <3>2
  <2>. QED BY <2>1, <2>2
<1>10. Follows(d, MaxTxns, t, step)
  <2>. HIDE DEF step
  <2>. QED BY <1>8, <1>9 DEF Follows
<1>. QED BY <1>10 DEF d

\* What is true of the first and handed on by every step is true of all.
LEMMA FollowIn ==
  ASSUME NEW f, NEW m \in Nat, NEW start, NEW step, Follows(f, m, start, step), NEW S,
         start # NoTxn => start \in S, \A s \in S : step[s] # NoTxn => step[s] \in S
  PROVE  \A n \in 0 .. m : f[n] # NoTxn => f[n] \in S
<1>. DEFINE B == {n \in 0 .. m : f[n] # NoTxn /\ f[n] \notin S}
<1>1. SUFFICES ASSUME B # {} PROVE FALSE
  OBVIOUS
<1>2. PICK n \in B : \A y \in B : n <= y
  <2>1. B \in SUBSET Nat
    OBVIOUS
  <2>. HIDE DEF B
  <2>. QED BY <2>1, <1>1, Smallest
<1>3. n \in 0 .. m /\ f[n] # NoTxn /\ f[n] \notin S
  BY <1>2
<1>4. f[n] = IF n = 0 THEN start ELSE IF f[n - 1] = NoTxn THEN NoTxn ELSE step[f[n - 1]]
  BY <1>3 DEF Follows
<1>5. n # 0
  BY <1>3, <1>4
<1>6. n - 1 \in 0 .. m /\ ~(n <= n - 1)
  BY <1>3, <1>5
<1>7. f[n - 1] # NoTxn
  BY <1>3, <1>4, <1>5
<1>8. f[n - 1] \in S
  BY <1>2, <1>6, <1>7
<1>. QED BY <1>3, <1>4, <1>5, <1>7, <1>8

\* Names go down: MaxTxns steps reach the end.
LEMMA FollowDown ==
  ASSUME NEW f, NEW start \in 0 .. MaxTxns, NEW step, Follows(f, MaxTxns, start, step),
         NEW S, S \subseteq Txns,
         start # NoTxn => start \in S, \A s \in S : step[s] # NoTxn => step[s] \in S,
         \A s \in S : step[s] < s
  PROVE  f[MaxTxns] = NoTxn
<1>. DEFINE B == {n \in 0 .. MaxTxns : f[n] # NoTxn /\ ~(f[n] + n <= MaxTxns)}
<1>0. MaxTxns \in Nat /\ \A n \in 0 .. MaxTxns : f[n] \in 0 .. MaxTxns
  BY BoundAssumption DEF Follows
<1>1. B = {}
  <2>1. SUFFICES ASSUME B # {} PROVE FALSE
    OBVIOUS
  <2>2. PICK n \in B : \A y \in B : n <= y
    <3>1. B \in SUBSET Nat
      OBVIOUS
    <3>. HIDE DEF B
    <3>. QED BY <3>1, <2>1, Smallest
  <2>3. n \in 0 .. MaxTxns /\ f[n] # NoTxn /\ ~(f[n] + n <= MaxTxns)
    BY <2>2
  <2>4. f[n] = IF n = 0 THEN start ELSE IF f[n - 1] = NoTxn THEN NoTxn ELSE step[f[n - 1]]
    BY <2>3 DEF Follows
  <2>5. n # 0
    BY <2>3, <2>4, <1>0
  <2>6. n - 1 \in 0 .. MaxTxns /\ ~(n <= n - 1)
    BY <2>3, <2>5, <1>0
  <2>7. f[n - 1] # NoTxn
    BY <2>3, <2>4, <2>5
  <2>8. f[n - 1] + (n - 1) <= MaxTxns
    BY <2>2, <2>6, <2>7
  <2>9. f[n - 1] \in S
    BY <2>6, <2>7, <1>0, FollowIn
  <2>10. f[n] < f[n - 1]
    BY <2>4, <2>5, <2>7, <2>9
  <2>11. f[n] \in Int /\ f[n - 1] \in Int /\ n \in Int
    BY <2>3, <2>6, <1>0
  <2>. QED BY <2>3, <2>8, <2>10, <2>11, <1>0
<1>2. CASE f[MaxTxns] = NoTxn
  BY <1>2
<1>3. CASE f[MaxTxns] # NoTxn
  <2>1. MaxTxns \in 0 .. MaxTxns /\ MaxTxns \notin B
    BY <1>0, <1>1
  <2>2. f[MaxTxns] + MaxTxns <= MaxTxns
    BY <2>1, <1>3
  <2>3. f[MaxTxns] > 0
    BY <2>1, <1>0, <1>3, TxnNumbers
  <2>. QED BY <2>1, <2>2, <2>3, <1>0
<1>. QED BY <1>2, <1>3

\* A member no step goes past is met.
LEMMA FollowMeets ==
  ASSUME NEW f, NEW start \in 0 .. MaxTxns, NEW step, Follows(f, MaxTxns, start, step),
         NEW S, S \subseteq Txns,
         start # NoTxn => start \in S, \A s \in S : step[s] # NoTxn => step[s] \in S,
         \A s \in S : step[s] < s,
         NEW t \in S, t <= start, \A s \in S : t < s => t <= step[s]
  PROVE  \E n \in 0 .. MaxTxns : f[n] = t
<1>1. SUFFICES ASSUME \A n \in 0 .. MaxTxns : f[n] # t PROVE FALSE
  OBVIOUS
<1>. DEFINE B == {n \in 0 .. MaxTxns : ~(t < f[n])}
<1>0. /\ MaxTxns \in Nat /\ \A n \in 0 .. MaxTxns : f[n] \in 0 .. MaxTxns
      /\ t \in Txns /\ t \in Nat /\ t > 0
  BY BoundAssumption, TxnNumbers DEF Follows
<1>2. f[MaxTxns] = NoTxn
  BY FollowDown
<1>3. B # {}
  <2>1. MaxTxns \in 0 .. MaxTxns
    BY <1>0
  <2>2. ~(t < NoTxn)
    BY <1>0, TxnNumbers
  <2>. QED BY <2>1, <2>2, <1>2
<1>4. PICK n \in B : \A y \in B : n <= y
  <2>1. B \in SUBSET Nat
    OBVIOUS
  <2>. HIDE DEF B
  <2>. QED BY <2>1, <1>3, Smallest
<1>5. n \in 0 .. MaxTxns /\ ~(t < f[n])
  BY <1>4
<1>6. f[n] = IF n = 0 THEN start ELSE IF f[n - 1] = NoTxn THEN NoTxn ELSE step[f[n - 1]]
  BY <1>5 DEF Follows
<1>7. n # 0
  <2>1. CASE n = 0
    <3>1. f[n] = start /\ f[n] # t
      BY <2>1, <1>1, <1>5, <1>6
    <3>. QED BY <3>1, <1>0, <1>5
  <2>. QED BY <2>1
<1>8. n - 1 \in 0 .. MaxTxns /\ ~(n <= n - 1)
  BY <1>5, <1>7, <1>0
<1>9. t < f[n - 1]
  BY <1>4, <1>8
<1>10. f[n - 1] # NoTxn
  BY <1>9, <1>0, TxnNumbers
<1>11. f[n - 1] \in S
  BY <1>8, <1>10, <1>0, FollowIn
<1>12. t <= step[f[n - 1]] /\ f[n] = step[f[n - 1]]
  BY <1>6, <1>7, <1>9, <1>10, <1>11
<1>13. f[n] # t /\ f[n] \in 0 .. MaxTxns
  BY <1>1, <1>5, <1>0
<1>. QED BY <1>5, <1>12, <1>13, <1>0

\* What binder_thread_release walks, as a function.
StackStep(th) == [s \in Txns |-> Below(txn, th, s)]

\* The walk along a thread's stack.
LEMMA StackChainOf ==
  ASSUME txn \in [Txns -> Txn], NEW th, NEW t \in 0 .. MaxTxns, t = thr[th].stack
  PROVE  \E d : /\ Follows(d, MaxTxns, t, StackStep(th))
                /\ OnStack(th) = {d[n] : n \in 0 .. MaxTxns} \ {NoTxn}
<1>. DEFINE R(f) == [n \in 0 .. MaxTxns |-> IF n = 0 THEN thr[th].stack
                       ELSE IF f[n - 1] = NoTxn THEN NoTxn
                       ELSE IF txn[f[n - 1]].to_thread = th THEN txn[f[n - 1]].to_parent
                       ELSE txn[f[n - 1]].from_parent]
            d == CHOOSE c : c = R(c)
<1>1. StackStep(th) \in [Txns -> 0 .. MaxTxns]
  BY BelowType DEF StackStep
<1>2. PICK f : Follows(f, MaxTxns, t, StackStep(th))
  BY <1>1, BoundAssumption, FollowExists
<1>3. f \in [0 .. MaxTxns -> 0 .. MaxTxns]
  BY <1>2 DEF Follows
<1>s. \A s \in Txns : StackStep(th)[s] = IF txn[s].to_thread = th THEN txn[s].to_parent
                                         ELSE txn[s].from_parent
  BY DEF StackStep, Below
<1>4. ASSUME NEW n \in 0 .. MaxTxns PROVE f[n] = R(f)[n]
  <2>1. f[n] = IF n = 0 THEN t ELSE IF f[n - 1] = NoTxn THEN NoTxn ELSE StackStep(th)[f[n - 1]]
    BY <1>2 DEF Follows
  <2>2. ASSUME n # 0, f[n - 1] # NoTxn
        PROVE StackStep(th)[f[n - 1]] = IF txn[f[n - 1]].to_thread = th THEN txn[f[n - 1]].to_parent
                                        ELSE txn[f[n - 1]].from_parent
    <3>1. n - 1 \in 0 .. MaxTxns
      BY <2>2, BoundAssumption
    <3>2. f[n - 1] \in Txns
      BY <3>1, <2>2, <1>3, TxnNumbers
    <3>. QED BY <3>2, <1>s
  <2>. QED BY <2>1, <2>2
<1>5. f = R(f)
  BY <1>3, <1>4
<1>6. OnStack(th) = {d[n] : n \in 0 .. MaxTxns} \ {NoTxn}
  BY DEF OnStack
<1>7. d = R(d)
  <2>. HIDE DEF R
  <2>. QED BY <1>5
<1>. HIDE DEF d
<1>a. ASSUME NEW n \in 0 .. MaxTxns
      PROVE d[n] = IF n = 0 THEN t ELSE IF d[n - 1] = NoTxn THEN NoTxn
                   ELSE IF txn[d[n - 1]].to_thread = th THEN txn[d[n - 1]].to_parent
                   ELSE txn[d[n - 1]].from_parent
  BY <1>7
<1>b. d = [n \in 0 .. MaxTxns |-> d[n]]
  BY <1>7
<1>. HIDE DEF R
<1>8. d \in [0 .. MaxTxns -> 0 .. MaxTxns]
  <2>. DEFINE B == {n \in 0 .. MaxTxns : d[n] \notin 0 .. MaxTxns}
  <2>1. SUFFICES ASSUME B # {} PROVE FALSE
    BY <1>b
  <2>2. PICK n \in B : \A y \in B : n <= y
    <3>1. B \in SUBSET Nat
      OBVIOUS
    <3>. HIDE DEF B
    <3>. QED BY <3>1, <2>1, Smallest
  <2>3. n \in 0 .. MaxTxns /\ d[n] \notin 0 .. MaxTxns
    BY <2>2
  <2>4. d[n] = IF n = 0 THEN t ELSE IF d[n - 1] = NoTxn THEN NoTxn
                   ELSE IF txn[d[n - 1]].to_thread = th THEN txn[d[n - 1]].to_parent
                   ELSE txn[d[n - 1]].from_parent
    BY <2>3, <1>a
  <2>5. n # 0
    BY <2>3, <2>4
  <2>6. n - 1 \in 0 .. MaxTxns /\ ~(n <= n - 1)
    BY <2>3, <2>5, BoundAssumption
  <2>7. d[n - 1] \in 0 .. MaxTxns
    BY <2>6, <2>2
  <2>8. d[n - 1] # NoTxn => d[n - 1] \in Txns
    BY <2>7, TxnNumbers
  <2>. QED BY <2>3, <2>4, <2>5, <2>8, TxnFields, TxnNumbers
<1>9. ASSUME NEW n \in 0 .. MaxTxns
      PROVE d[n] = IF n = 0 THEN t ELSE IF d[n - 1] = NoTxn THEN NoTxn ELSE StackStep(th)[d[n - 1]]
  <2>1. ASSUME n # 0, d[n - 1] # NoTxn PROVE d[n - 1] \in Txns
    <3>1. n - 1 \in 0 .. MaxTxns
      BY <2>1, BoundAssumption
    <3>. QED BY <3>1, <2>1, <1>8, TxnNumbers
  <2>. QED BY <2>1, <1>a, <1>s
<1>10. Follows(d, MaxTxns, t, StackStep(th))
  BY <1>8, <1>9 DEF Follows
<1>. QED BY <1>10, <1>6

\* They are the calls of the invariant's stack.
LEMMA OnStackOf ==
  ASSUME txn \in [Txns -> Txn], NEW th \in Threads, NEW k, NEW a, NEW r,
         StackOK(txn, Stacks, k, a, r, th), Stacks[th] \in 0 .. MaxTxns
  PROVE  OnStack(th) = {t \in Txns : Mine(txn, k, a, th, t)}
<1>. DEFINE S == {t \in Txns : Mine(txn, k, a, th, t)}
<1>1. PICK t \in 0 .. MaxTxns : t = Stacks[th]
  OBVIOUS
<1>2. t = thr[th].stack
  BY <1>1 DEF Stacks
<1>3. PICK d : /\ Follows(d, MaxTxns, t, StackStep(th))
               /\ OnStack(th) = {d[n] : n \in 0 .. MaxTxns} \ {NoTxn}
  BY <1>2, StackChainOf
<1>4. ASSUME NEW s \in S
      PROVE  /\ s \in Txns /\ s <= t /\ StackStep(th)[s] < s
             /\ StackStep(th)[s] # NoTxn => StackStep(th)[s] \in S
             /\ \A u \in S : u < s => u <= StackStep(th)[s]
  <2>1. FrameOK(txn, Stacks, k, a, r, th, s)
    BY DEF StackOK
  <2>2. PICK p \in 0 .. MaxTxns : p = Below(txn, th, s)
    BY BelowType
  <2>3. StackStep(th)[s] = p
    BY <2>2 DEF StackStep
  <2>4. /\ s <= Stacks[th] /\ p < s /\ (p # NoTxn => Mine(txn, k, a, th, p))
        /\ \A u \in Txns : Mine(txn, k, a, th, u) /\ u < s => u <= p
    BY <2>1, <2>2, Zenon DEF FrameOK
  <2>5. p # NoTxn => p \in S
    BY <2>2, <2>4, TxnNumbers
  <2>. QED BY <2>3, <2>4, <2>5, <1>1
<1>5. t # NoTxn => t \in S
  BY <1>1, TxnNumbers DEF StackOK
<1>6. S \subseteq Txns
  OBVIOUS
<1>. HIDE DEF S
<1>7. ASSUME NEW n \in 0 .. MaxTxns PROVE d[n] # NoTxn => d[n] \in S
  <2>1. /\ t # NoTxn => t \in S
        /\ \A s \in S : StackStep(th)[s] # NoTxn => StackStep(th)[s] \in S
        /\ MaxTxns \in Nat
    BY <1>4, <1>5, BoundAssumption
  <2>. QED BY <2>1, <1>3, FollowIn
<1>8. ASSUME NEW s \in S PROVE \E n \in 0 .. MaxTxns : d[n] = s
  <2>1. /\ t # NoTxn => t \in S
        /\ \A u \in S : StackStep(th)[u] # NoTxn => StackStep(th)[u] \in S
        /\ \A u \in S : StackStep(th)[u] < u
        /\ s <= t /\ \A u \in S : s < u => s <= StackStep(th)[u]
    BY <1>4, <1>5
  <2>. QED BY <2>1, <1>3, <1>6, FollowMeets
<1>9. \A s \in S : s # NoTxn
  BY <1>6, TxnNumbers
<1>. QED BY <1>3, <1>7, <1>8, <1>9 DEF S

\* The thread of q that is found up the chain of a call being served.
LEMMA TargetOf ==
  ASSUME NEW k, NEW a, NEW r, Inv(k, a, r), NEW th \in Threads, NEW q, NEW w,
         w = TargetThread(th, q), w # NoThread
  PROVE  \E c \in Txns : /\ Sync(txn, c) /\ txn[c].from = w /\ ProcOf[w] = q /\ w \in Threads
                         /\ Stacks[th] # NoTxn /\ r[c] = r[Stacks[th]]
<1>ty. Typed /\ bug = FALSE
  BY Parts
<1>kt. Stacks \in [Threads -> 0 .. MaxTxns]
  BY Parts
<1>xt. txn \in [Txns -> Txn]
  BY Parts
<1>tr. Tree(txn, Dead, k, a, r)
  BY Parts
<1>st. AllStacks(txn, Dead, Stacks, k, a, r)
  BY Parts
<1>1. PICK t \in 0 .. MaxTxns : t = thr[th].stack /\ Stacks[th] = t
  BY <1>ty, ThreadViews
<1>. DEFINE f == FromChain(t)
            step == [s \in Txns |-> txn[s].from_parent]
            hits == {n \in 0 .. MaxTxns :
                 /\ f[n] # NoTxn
                 /\ txn[f[n]].from # NoThread
                 /\ ProcOf[txn[f[n]].from] = q}
            S == {s \in Txns : (Sync(txn, s) /\ r[s] = r[t]) \/ s = t}
<1>2. Follows(f, MaxTxns, t, step)
  BY <1>xt, FromChainOf
<1>3. w = IF hits = {} THEN NoThread ELSE txn[f[Min(hits)]].from
  BY <1>1 DEF TargetThread
<1>4. hits # {}
  BY <1>3
<1>5. PICK n : n \in hits /\ w = txn[f[n]].from
  <2>1. \E n \in hits : \A y \in hits : n <= y
    <3>1. hits \in SUBSET Nat
      OBVIOUS
    <3>. HIDE DEF hits
    <3>. QED BY <3>1, <1>4, Smallest
  <2>2. Min(hits) \in hits
    <3>. HIDE DEF hits
    <3>. QED BY <2>1 DEF Min
  <2>. QED BY <2>2, <1>3, <1>4
<1>6. /\ n \in 0 .. MaxTxns /\ f[n] # NoTxn /\ ProcOf[w] = q
  BY <1>5
<1>7. f[n] \in S
  <2>1. t # NoTxn => t \in S
    BY TxnNumbers
  <2>2. ASSUME NEW s \in S, step[s] # NoTxn PROVE step[s] \in S
    <3>1. s \in Txns /\ step[s] = txn[s].from_parent /\ txn[s].from_parent # NoTxn
      BY <2>2
    <3>2. CallOK(txn, Dead, r, s) /\ NestOK(txn, k, a, r, s)
      BY <3>1, <1>tr DEF Tree
    <3>3. Sync(txn, s)
      BY <3>1, <3>2 DEF CallOK
    <3>4. Sync(txn, txn[s].from_parent) /\ r[txn[s].from_parent] = r[s]
      BY <3>1, <3>2, <3>3, Zenon DEF NestOK
    <3>5. txn[s].from_parent \in Txns
      BY <3>1, <1>xt, TxnFields, TxnNumbers
    <3>6. r[s] = r[t]
      BY <2>2
    <3>. QED BY <3>1, <3>4, <3>5, <3>6
  <2>. HIDE DEF S, step, f
  <2>. QED BY <2>1, <2>2, <1>2, <1>6, BoundAssumption, FollowIn
<1>8. w \in Threads /\ f[n] \in Txns
  BY <1>7, <1>5, <1>xt, TxnFields
<1>9. Sync(txn, f[n])
  BY <1>8, <1>5, <1>tr DEF Tree, CallOK
<1>10. t # NoTxn
  <2>1. CASE t = NoTxn
    <3>1. PICK E : E = {}
      OBVIOUS
    <3>2. (t # NoTxn => t \in E) /\ \A s \in E : step[s] # NoTxn => step[s] \in E
      BY <2>1, <3>1
    <3>3. f[n] \in E
      <4>. HIDE DEF f, step
      <4>. QED BY <3>2, <1>2, <1>6, BoundAssumption, FollowIn
    <3>. QED BY <3>1, <3>3
  <2>. QED BY <2>1
<1>11. r[f[n]] = r[t]
  BY <1>7
<1>. HIDE DEF f
<1>. QED BY <1>1, <1>5, <1>6, <1>8, <1>9, <1>10, <1>11
-----------------------------------------------------------------------------
(* binder_transaction, a call.                                             *)

\* An idle thread with no transaction at the head of its list: nothing that
\* is on its way counts on its stack.
LEMMA IdleQuiet ==
  ASSUME NEW X \in [Txns -> Txn], NEW D, NEW K, NEW L, NEW PC, NEW LC,
         NEW k, NEW a, NEW r, Directed(X, D, K, L, PC, LC, k, a, r),
         Carried(X, D, PC, LC, k, a), NEW M,
         NEW u \in Threads, u \notin D, K[u] = NoTxn,
         \A s \in Txns : s \notin M /\ k[s] = "thread" /\ a[s] = u => Head(L[u]) # TxnItem(s)
  PROVE  Quiet(X, PC, LC, k, a, M, u)
<1>1. ASSUME NEW s \in Txns, k[s] = "thread", Sync(X, s), s \notin M PROVE a[s] # u
  <2>1. QueuedOK(X, D, K, L, k, a, r, s)
    BY DEF Directed
  <2>2. ~Back(X, K, r, u, s)
    BY DEF Back
  <2>. QED BY <2>1, <2>2, <1>1 DEF QueuedOK
<1>2. ASSUME NEW v \in Threads, PC[v] = "send", Sync(X, LC[v].t) PROVE LC[v].target_thread # u
  <2>1. SentOK(X, D, K, LC, r, v) /\ SendCarry(X, LC[v], v, k, a)
    BY <1>2 DEF Directed, Carried, CarryOK
  <2>2. LC[v].t \in Txns /\ u # NoThread
    BY <2>1, NullAssumption DEF SendCarry
  <2>3. ~Back(X, K, r, u, LC[v].t)
    BY DEF Back
  <2>. QED BY <2>1, <2>2, <2>3, <1>2 DEF SentOK
<1>. QED BY <1>1, <1>2 DEF Quiet

\* binder_enqueue_deferred_thread_work_ilocked.
LEMMA DeferredOf ==
  ASSUME NEW T \in [Threads -> Thr], NEW th \in Threads, NEW x \in Work
  PROVE  /\ EnqueueDeferredThreadWork(T, th, x) \in [Threads -> Thr]
         /\ \A u \in Threads : u # th => EnqueueDeferredThreadWork(T, th, x)[u] = T[u]
         /\ EnqueueDeferredThreadWork(T, th, x)[th].stack = T[th].stack
         /\ EnqueueDeferredThreadWork(T, th, x)[th].todo = Append(T[th].todo, x)
         /\ EnqueueDeferredThreadWork(T, th, x)[th].process_todo = T[th].process_todo
         /\ EnqueueDeferredThreadWork(T, th, x)[th].return_error = T[th].return_error
         /\ EnqueueDeferredThreadWork(T, th, x)[th].reply_error = T[th].reply_error
         /\ EnqueueDeferredThreadWork(T, th, x)[th].waiting = T[th].waiting
         /\ EnqueueDeferredThreadWork(T, th, x)[th].is_dead = T[th].is_dead
         /\ EnqueueDeferredThreadWork(T, th, x)[th].tmp_ref = T[th].tmp_ref
<1>1. T[th] \in Thr
  OBVIOUS
<1>2. PICK s \in Seq(Work) : s = Append(T[th].todo, x)
  <2>1. T[th].todo \in Seq(Work)
    BY <1>1 DEF Thr
  <2>. QED BY <2>1, SeqAppend
<1>. DEFINE y == [T[th] EXCEPT !.todo = s]
<1>3. y \in Thr
  BY <1>1 DEF Thr
<1>4. /\ y.stack = T[th].stack /\ y.todo = s /\ y.process_todo = T[th].process_todo
      /\ y.return_error = T[th].return_error /\ y.reply_error = T[th].reply_error
      /\ y.waiting = T[th].waiting /\ y.is_dead = T[th].is_dead /\ y.tmp_ref = T[th].tmp_ref
  BY <1>1 DEF Thr
<1>5. EnqueueDeferredThreadWork(T, th, x) = [T EXCEPT ![th] = y]
  BY <1>1, <1>2 DEF EnqueueDeferredThreadWork, Thr
<1>. HIDE DEF y
<1>6. EnqueueDeferredThreadWork(T, th, x) \in [Threads -> Thr]
  BY <1>3, <1>5
<1>7. EnqueueDeferredThreadWork(T, th, x)[th] = y
  BY <1>5
<1>8. \A u \in Threads : u # th => EnqueueDeferredThreadWork(T, th, x)[u] = T[u]
  BY <1>5
<1>. QED BY <1>2, <1>4, <1>6, <1>7, <1>8

\* The records binder_transaction makes for a call.
SyncCall(th, w, q, top) ==
  [kind |-> "sync", buffer |-> TRUE, from |-> th, to_thread |-> w, to_proc |-> q,
   to_parent |-> NoTxn, from_parent |-> top]
OnewayCall(q) ==
  [kind |-> "oneway", buffer |-> TRUE, from |-> NoThread, to_thread |-> NoThread,
   to_proc |-> q, to_parent |-> NoTxn, from_parent |-> NoTxn]
CallBuf(q, ow) == [st |-> "kernel", owner |-> q, node |-> q, async |-> ow, transaction |-> TRUE]
CallLoc(t, w, q) == [NoLoc EXCEPT !.t = t, !.target_thread = w, !.target_proc = q]

\* A new synchronous call and its buffer.
LEMMA SyncCallOf ==
  ASSUME NEW th \in Threads, NEW w \in Threads \cup {NoThread}, NEW q \in Procs,
         NEW top \in 0 .. MaxTxns
  PROVE  /\ SyncCall(th, w, q, top) \in Txn /\ SyncCall(th, w, q, top).kind = "sync"
         /\ SyncCall(th, w, q, top).from = th /\ SyncCall(th, w, q, top).to_thread = w
         /\ SyncCall(th, w, q, top).to_proc = q
         /\ SyncCall(th, w, q, top).from_parent = top
         /\ Fresh(SyncCall(th, w, q, top), CallBuf(q, FALSE))
         /\ BufOK(SyncCall(th, w, q, top), CallBuf(q, FALSE))
<1>1. q # NoProc
  BY NullAssumption
<1>2. SyncCall(th, w, q, top) \in Txn
  BY TxnNumbers DEF SyncCall, Txn
<1>. QED BY <1>1, <1>2 DEF SyncCall, CallBuf, Fresh, BufOK

\* A new one-way call and its buffer.
LEMMA OnewayCallOf ==
  ASSUME NEW q \in Procs
  PROVE  /\ OnewayCall(q) \in Txn /\ OnewayCall(q).kind = "oneway"
         /\ OnewayCall(q).from = NoThread /\ OnewayCall(q).to_thread = NoThread
         /\ OnewayCall(q).to_proc = q /\ OnewayCall(q).from_parent = NoTxn
         /\ Fresh(OnewayCall(q), CallBuf(q, TRUE))
         /\ BufOK(OnewayCall(q), CallBuf(q, TRUE))
<1>1. q # NoProc
  BY NullAssumption
<1>2. OnewayCall(q) \in Txn
  BY TxnNumbers DEF OnewayCall, Txn
<1>. QED BY <1>1, <1>2 DEF OnewayCall, CallBuf, Fresh, BufOK

\* The buffer of a new call.
LEMMA CallBufOf ==
  ASSUME NEW q \in Procs, NEW ow \in BOOLEAN
  PROVE  /\ CallBuf(q, ow) \in Buf /\ CallBuf(q, ow).node = q
         /\ CallBuf(q, ow).async = ow /\ CallBuf(q, ow).st = "kernel"
BY DEF CallBuf, Buf

\* The one-way calls of every node as they are, when a thread comes to carry
\* a new transaction.
LEMMA OnewayCarried ==
  ASSUME NEW B, NEW PD, NEW NL, NEW NA, NEW NQ, NEW PC, NEW LC,
         Oneways(B, PD, NL, NA, NQ, PC, LC), NEW B2, NEW PC2, NEW LC2, NEW t \in Txns,
         NEW th \in Threads, OnlyMoves(PC, LC, PC2, LC2, th), PC[th] # "send",
         PC2[th] = "send", LC2[th].t = t, ~B[t].async,
         \A s \in Txns : s # t => B2[s] = B[s]
  PROVE  Oneways(B2, PD, NL, NA, NQ, PC2, LC2)
<1>1. ASSUME NEW p PROVE Active(B2, NQ, PC2, LC2, p) = Active(B, NQ, PC, LC, p)
  <2>1. ASSUME NEW s \in Txns
        PROVE  s \in Active(B2, NQ, PC2, LC2, p) <=> s \in Active(B, NQ, PC, LC, p)
    <3>1. CASE s = t
      BY <3>1 DEF Active
    <3>2. CASE s # t
      <4>1. (\A u \in Threads : PC2[u] = "send" => LC2[u].t # s) <=>
            (\A u \in Threads : PC[u] = "send" => LC[u].t # s)
        BY <3>2 DEF OnlyMoves
      <4>. QED BY <4>1, <3>2 DEF Active
    <3>. QED BY <3>1, <3>2
  <2>. QED BY <2>1 DEF Active
<1>. QED BY <1>1 DEF Oneways, OnewayOK

\* The target of a call found up the chain waits in that chain.
LEMMA TargetBack ==
  ASSUME NEW k, NEW a, NEW r, Inv(k, a, r), NEW th \in Threads, th \notin Dead, NEW q \in Procs,
         ProcOf[th] # q, thr[th].stack = NoTxn \/ ServesTop(th),
         NEW w, w = TargetThread(th, q), w # NoThread
  PROVE  /\ w \in Threads /\ w \notin Dead /\ w # th /\ ProcOf[w] = q
         /\ Stacks[th] # NoTxn /\ Stacks[w] \in Txns /\ txn[Stacks[w]].from = w
         /\ r[Stacks[w]] = r[Stacks[th]] /\ Sync(txn, Stacks[w])
<1>ty. Typed /\ bug = FALSE
  BY Parts
<1>kt. Stacks \in [Threads -> 0 .. MaxTxns]
  BY Parts
<1>xt. txn \in [Txns -> Txn]
  BY Parts
<1>tr. Tree(txn, Dead, k, a, r)
  BY Parts
<1>st. AllStacks(txn, Dead, Stacks, k, a, r)
  BY Parts
<1>1. PICK c \in Txns : /\ Sync(txn, c) /\ txn[c].from = w /\ ProcOf[w] = q /\ w \in Threads
                        /\ Stacks[th] # NoTxn /\ r[c] = r[Stacks[th]]
  BY TargetOf
<1>2. w \notin Dead
  BY <1>1, <1>tr DEF Tree, CallOK
<1>3. w # th
  BY <1>1
<1>4. Mine(txn, k, a, w, c)
  BY <1>1 DEF Mine
<1>5. StackOK(txn, Stacks, k, a, r, w)
  BY <1>1, <1>2, <1>st DEF AllStacks
<1>6. FrameOK(txn, Stacks, k, a, r, w, c)
  BY <1>4, <1>5 DEF StackOK
<1>7. c <= Stacks[w] /\ r[c] = r[Stacks[w]]
  BY <1>6, Zenon DEF FrameOK
<1>8. Stacks[w] \in Txns
  BY <1>7, <1>1, <1>kt, TxnNumbers
<1>9. Mine(txn, k, a, w, Stacks[w])
  BY <1>8, <1>5, TxnNumbers DEF StackOK
<1>s. PICK v \in Txns : v = Stacks[w]
  BY <1>8
<1>10. txn[v].from = w
  <2>1. SUFFICES ASSUME txn[v].from # w PROVE FALSE
    OBVIOUS
  <2>2. k[v] = "served" /\ a[v] = w
    BY <2>1, <1>9, <1>s DEF Mine
  <2>3. NoChild(txn, v)
    BY <2>2, <1>1, <1>s, <1>5, <1>xt, <1>tr, TopNoChild
  <2>4. thr[th].stack = Stacks[th]
    BY <1>ty, ThreadViews
  <2>5. PICK t \in Txns : t = Stacks[th] /\ t = thr[th].stack
    BY <2>4, <1>1, <1>kt, TxnNumbers
  <2>6. ServesTop(th)
    BY <2>4, <1>1
  <2>7. k[t] = "served" /\ a[t] = th /\ NoChild(txn, t) /\ Sync(txn, t)
    BY <2>5, <2>6, ServedTop
  <2>8. Sync(txn, v) /\ r[v] = r[t]
    BY <1>9, <1>s, <1>7, <1>1, <2>5 DEF Mine
  <2>9. v <= t
    BY <2>7, <2>8, <1>xt, <1>tr, ChainEnd
  <2>10. t <= v
    BY <2>3, <2>7, <2>8, <1>xt, <1>tr, ChainEnd
  <2>11. t = v
    BY <2>9, <2>10, TxnNumbers
  <2>. QED BY <2>2, <2>7, <2>11, <1>3
<1>11. Sync(txn, Stacks[w])
  BY <1>9 DEF Mine
<1>. QED BY <1>1, <1>2, <1>3, <1>7, <1>8, <1>10, <1>11, <1>s

\* What TreeCall asks of a new call t of th.
TreeNew(X, D, k, a, r, X2, k2, a2, r2, t, th, top) ==
  /\ t \in Txns /\ ~Sync(X, t) /\ top \in 0 .. MaxTxns /\ th \in Threads /\ th \notin D
  /\ \A s \in Txns : Sync(X, s) => s < t
  /\ top # NoTxn => Sync(X, top) /\ k[top] = "served" /\ a[top] = th /\ NoChild(X, top)
  /\ X2[t].kind = "sync" /\ X2[t].from = th /\ X2[t].from_parent = top
  /\ X2[t].to_proc \in Procs /\ ProcOf[th] # X2[t].to_proc
  /\ X2[t].to_thread # NoThread => ProcOf[X2[t].to_thread] = X2[t].to_proc
  /\ \A s \in Txns : s # t => X2[s] = X[s]
  /\ \A s \in Txns : s # t => k2[s] = k[s] /\ a2[s] = a[s]
  /\ r2[t] = IF top = NoTxn THEN t ELSE r[top]
  /\ \A s \in Txns : s # t => r2[s] = r[s]

\* Calls and what they are nested in, when one more is made.
LEMMA TreeNewCall ==
  ASSUME NEW X \in [Txns -> Txn], NEW D, NEW k, NEW a, NEW r \in [Txns -> Txns],
         NEW X2, NEW k2, NEW a2, NEW r2, NEW t, NEW th, NEW top,
         Tree(X, D, k, a, r), TreeNew(X, D, k, a, r, X2, k2, a2, r2, t, th, top)
  PROVE  Tree(X2, D, k2, a2, r2)
<1>1. /\ t \in Txns /\ ~Sync(X, t) /\ top \in 0 .. MaxTxns /\ th \in Threads /\ th \notin D
      /\ \A s \in Txns : Sync(X, s) => s < t
      /\ X2[t].kind = "sync" /\ X2[t].from = th /\ X2[t].from_parent = top
      /\ X2[t].to_proc \in Procs /\ ProcOf[th] # X2[t].to_proc
      /\ \A s \in Txns : s # t => X2[s] = X[s]
      /\ \A s \in Txns : s # t => r2[s] = r[s]
      /\ \A s \in Txns : s # t => k2[s] = k[s] /\ a2[s] = a[s]
      /\ r2[t] = IF top = NoTxn THEN t ELSE r[top]
  BY DEF TreeNew
<1>2. top # NoTxn => Sync(X, top) /\ k[top] = "served" /\ a[top] = th /\ NoChild(X, top)
  BY DEF TreeNew
<1>3. X2[t].to_thread # NoThread => ProcOf[X2[t].to_thread] = X2[t].to_proc
  BY DEF TreeNew
<1>. QED BY <1>1, <1>2, <1>3, TreeCall, SMTT(60)

\* A synchronous call, up to binder_proc_transaction.
LEMMA CallSyncStep ==
  ASSUME NEW k, NEW a, NEW r, Inv(k, a, r), NEW th \in Threads, NEW q \in Procs,
         ProcOf[th] # q, CallStart(th, q, FALSE)
  PROVE  \E k2, a2, r2 : Inv(k2, a2, r2)'
<1>gh. Ghosts(k, a, r)
  BY Parts
<1>ty. Typed /\ bug = FALSE
  BY Parts
<1>kt. Stacks \in [Threads -> 0 .. MaxTxns]
  BY Parts
<1>lt. Todos \in [Threads -> Seq(Work)]
  BY Parts
<1>xt. txn \in [Txns -> Txn]
  BY Parts
<1>bt. buf \in [Txns -> Buf]
  BY Parts
<1>tt. thr \in [Threads -> Thr]
  BY Parts
<1>ct. pc \in [Threads -> PCs] /\ loc \in [Threads -> Loc]
  BY Parts
<1>ft. sfr \in [Threads \cup Procs -> 0 .. MaxTxns]
  BY Parts
<1>nm. Names(txn)
  BY Parts
<1>tl. ThreadLists(Todos, k, a)
  BY Parts
<1>pl. TxnLists(ProcTodos, "proc", k, a)
  BY Parts
<1>al. TxnLists(AsyncTodos, "async", k, a)
  BY Parts
<1>ca. Carried(txn, Dead, pc, loc, k, a)
  BY Parts
<1>fa. Failing(sfr, k, a)
  BY Parts
<1>po. Placed(txn, Dead, k, a)
  BY Parts
<1>tr. Tree(txn, Dead, k, a, r)
  BY Parts
<1>st. AllStacks(txn, Dead, Stacks, k, a, r)
  BY Parts
<1>di. Directed(txn, Dead, Stacks, Todos, pc, loc, k, a, r)
  BY Parts
<1>bu. Buffers(txn, buf, loc, k, a)
  BY Parts
<1>dr. Drops(txn, buf, pc, loc, sfr)
  BY Parts
<1>ts. ThreadStates(Dead, Stacks, Todos, Waiting, pc, loc, sfr)
  BY Parts
<1>ps. ProcStates(ProcSts, DeadProcs, ProcTodos, ProcRefs, LiveNodes, AsyncTodos, pc, sfr)
  BY Parts
<1>tc. ThreadCounts(ThreadRefs, pc, loc)
  BY Parts
<1>pc. ProcCounts(Dead, ThreadRefs, ProcSts, ProcRefs, pc, loc)
  BY Parts
<1>ow. Oneways(buf, DeadProcs, LiveNodes, AsyncNodes, AsyncTodos, pc, loc)
  BY Parts
<1>no. Notices(Dead, Todos, ReturnErrors, ReplyErrors, pc)
  BY Parts
<1>fl. Flags(txn, Dead, Stacks, Todos, Flagged)
  BY Parts
<1>1. /\ pc[th] = "user" /\ sfr[th] = NoTxn /\ proc[ProcOf[th]].st = "open"
      /\ thr[th].return_error = "OK" /\ NextId <= MaxTxns /\ node[q].live
      /\ thr[th].todo # <<>> => Head(thr[th].todo).type # "txn"
      /\ thr[th].stack = NoTxn \/ ServesTop(th)
  BY DEF CallStart, CallAllowed, CanWrite, InUser
<1>2. th \notin Dead /\ th \notin Waiting /\ ~loc[th].wait_for_proc_work /\ ~Holding(pc, th)
  BY <1>1, UserFacts
<1>3. PICK t, w : t = NextId /\ w = TargetThread(th, q)
  OBVIOUS
<1>4. PICK top \in 0 .. MaxTxns : top = thr[th].stack /\ Stacks[th] = top
  BY <1>ty, ThreadViews
<1>5. /\ t \in Txns /\ txn[t].kind = "unused" /\ ~Sync(txn, t) /\ k[t] = "none"
      /\ NoChild(txn, t) /\ txn[t].from = NoThread /\ ~buf[t].async
      /\ \A s \in Txns : txn[s].kind # "unused" <=> s < t
  BY <1>1, <1>3, FreshFacts
<1>6. ASSUME top # NoTxn
      PROVE  /\ top \in Txns /\ Sync(txn, top) /\ k[top] = "served" /\ a[top] = th
             /\ NoChild(txn, top) /\ txn[top].from # th
  BY <1>6, <1>1, <1>2, <1>4, ServedTop
<1>a. ASSUME w # NoThread
      PROVE  /\ w \in Threads /\ w \notin Dead /\ w # th /\ ProcOf[w] = q
             /\ Stacks[th] # NoTxn /\ Stacks[w] \in Txns /\ txn[Stacks[w]].from = w
             /\ r[Stacks[w]] = r[Stacks[th]] /\ Sync(txn, Stacks[w])
  BY <1>a, <1>1, <1>2, <1>3, TargetBack
<1>b. w \in Threads \cup {NoThread} /\ w # th /\ w \notin Dead
  <2>1. NoThread \notin Dead /\ NoThread # th
    BY NullAssumption DEF Dead
  <2>. QED BY <2>1, <1>a
<1>c. \A s \in Txns : Sync(txn, s) => s < t
  BY <1>5 DEF Sync
<1>d. top < t
  <2>1. CASE top = NoTxn
    BY <2>1, <1>5, TxnNumbers
  <2>2. CASE top # NoTxn
    BY <2>2, <1>6, <1>c
  <2>. QED BY <2>1, <2>2
<1>. DEFINE k2 == [s \in Txns |-> IF s = t THEN "carried" ELSE k[s]]
            a2 == [s \in Txns |-> IF s = t THEN th ELSE a[s]]
            r2 == [s \in Txns |-> IF s = t THEN (IF top = NoTxn THEN t ELSE r[top]) ELSE r[s]]
<1>7. /\ k2[t] = "carried" /\ a2[t] = th /\ r2[t] = IF top = NoTxn THEN t ELSE r[top]
      /\ \A s \in Txns : s # t => k2[s] = k[s] /\ a2[s] = a[s] /\ r2[s] = r[s]
      /\ \A s \in Txns : s \notin {t} => k2[s] = k[s] /\ a2[s] = a[s] /\ r2[s] = r[s]
  BY <1>5
<1>8. Ghosts(k2, a2, r2)
  <2>1. top # NoTxn => r[top] \in Txns
    BY <1>6, <1>gh DEF Ghosts
  <2>. QED BY <2>1, <1>5, <1>gh DEF Ghosts, Kinds
<1>. HIDE DEF k2, a2, r2
<1>9. /\ thr' = EnqueueDeferredThreadWork(SetStack(HoldThr(thr, w), th, t), th, Item("complete"))
      /\ IncProc(q)
      /\ txn' = [txn EXCEPT ![t] = SyncCall(th, w, q, top)]
      /\ buf' = [buf EXCEPT ![t] = CallBuf(q, FALSE)]
      /\ pc' = [pc EXCEPT ![th] = "send"]
      /\ loc' = [loc EXCEPT ![th] = CallLoc(t, w, q)]
      /\ UNCHANGED <<node, sfr>> /\ bug' = FALSE
  BY <1>3, <1>4, <1>ty DEF CallStart, SyncCall, CallBuf, CallLoc, IncProc, HoldThr, SetStack
<1>i. Item("complete") \in Work /\ Item("complete").type = "complete"
  BY TxnItems
<1>10. /\ thr' \in [Threads -> Thr]
       /\ thr'[th].stack = t /\ \A u \in Threads : u # th => thr'[u].stack = thr[u].stack
       /\ thr'[th].todo = Append(thr[th].todo, Item("complete"))
       /\ \A u \in Threads : u # th => thr'[u].todo = thr[u].todo
       /\ \A u \in Threads :
            /\ thr'[u].process_todo = thr[u].process_todo
            /\ thr'[u].return_error = thr[u].return_error
            /\ thr'[u].reply_error = thr[u].reply_error
            /\ thr'[u].waiting = thr[u].waiting /\ thr'[u].is_dead = thr[u].is_dead
            /\ thr'[u].tmp_ref = thr[u].tmp_ref + One(u = w)
  <2>. DEFINE T == HoldThr(thr, w)
              T2 == SetStack(T, th, t)
              T3 == EnqueueDeferredThreadWork(T2, th, Item("complete"))
  <2>0. t \in 0 .. MaxTxns
    BY <1>5, TxnNumbers
  <2>1. /\ T \in [Threads -> Thr]
        /\ \A u \in Threads :
             /\ T[u].stack = thr[u].stack /\ T[u].todo = thr[u].todo
             /\ T[u].process_todo = thr[u].process_todo
             /\ T[u].return_error = thr[u].return_error
             /\ T[u].reply_error = thr[u].reply_error
             /\ T[u].waiting = thr[u].waiting
             /\ T[u].is_dead = thr[u].is_dead
             /\ T[u].tmp_ref = thr[u].tmp_ref + One(u = w)
    BY <1>tt, <1>b, HoldOf
  <2>. HIDE DEF T
  <2>2. /\ T2 \in [Threads -> Thr] /\ \A u \in Threads : u # th => T2[u] = T[u]
        /\ T2[th].stack = t
        /\ T2[th].todo = T[th].todo /\ T2[th].process_todo = T[th].process_todo
        /\ T2[th].return_error = T[th].return_error
        /\ T2[th].reply_error = T[th].reply_error
        /\ T2[th].waiting = T[th].waiting /\ T2[th].is_dead = T[th].is_dead
        /\ T2[th].tmp_ref = T[th].tmp_ref
    BY <2>0, <2>1, SetStackOf
  <2>. HIDE DEF T2
  <2>3. /\ T3 \in [Threads -> Thr] /\ \A u \in Threads : u # th => T3[u] = T2[u]
        /\ T3[th].stack = T2[th].stack
        /\ T3[th].todo = Append(T2[th].todo, Item("complete"))
        /\ T3[th].process_todo = T2[th].process_todo
        /\ T3[th].return_error = T2[th].return_error
        /\ T3[th].reply_error = T2[th].reply_error
        /\ T3[th].waiting = T2[th].waiting /\ T3[th].is_dead = T2[th].is_dead
        /\ T3[th].tmp_ref = T2[th].tmp_ref
    BY <2>2, <1>i, DeferredOf
  <2>4. thr' = T3
    BY <1>9 DEF T, T2
  <2>. HIDE DEF T3
  <2>5. ASSUME NEW u \in Threads
        PROVE  /\ thr'[u].process_todo = thr[u].process_todo
               /\ thr'[u].return_error = thr[u].return_error
               /\ thr'[u].reply_error = thr[u].reply_error
               /\ thr'[u].waiting = thr[u].waiting /\ thr'[u].is_dead = thr[u].is_dead
               /\ thr'[u].tmp_ref = thr[u].tmp_ref + One(u = w)
    <3>1. CASE u = th
      BY <3>1, <2>1, <2>2, <2>3, <2>4
    <3>2. CASE u # th
      BY <3>2, <2>1, <2>2, <2>3, <2>4
    <3>. QED BY <3>1, <3>2
  <2>6. \A u \in Threads : u # th => thr'[u].stack = thr[u].stack /\ thr'[u].todo = thr[u].todo
    BY <2>1, <2>2, <2>3, <2>4
  <2>7. thr'[th].stack = t /\ thr'[th].todo = Append(thr[th].todo, Item("complete"))
    BY <2>1, <2>2, <2>3, <2>4
  <2>. QED BY <2>3, <2>4, <2>5, <2>6, <2>7
<1>11. UNCHANGED <<Flagged, ReturnErrors, ReplyErrors, Waiting, Dead>>
  BY <1>10, SameThreads
<1>12. /\ Stacks'[th] = t /\ \A u \in Threads : u # th => Stacks'[u] = Stacks[u]
       /\ Todos'[th] = Append(Todos[th], Item("complete"))
       /\ \A u \in Threads : u # th => Todos'[u] = Todos[u]
       /\ \A u \in Threads : ThreadRefs'[u] = ThreadRefs[u] + One(u = w)
  <2>1. \A u \in Threads : Stacks[u] = thr[u].stack /\ Todos[u] = thr[u].todo
                           /\ ThreadRefs[u] = thr[u].tmp_ref
    BY <1>ty, ThreadViews
  <2>2. \A u \in Threads : Stacks'[u] = thr'[u].stack /\ Todos'[u] = thr'[u].todo
                           /\ ThreadRefs'[u] = thr'[u].tmp_ref
    BY NextViews
  <2>3. /\ Stacks'[th] = t /\ \A u \in Threads : u # th => Stacks'[u] = Stacks[u]
        /\ Todos'[th] = Append(Todos[th], Item("complete"))
        /\ \A u \in Threads : u # th => Todos'[u] = Todos[u]
    BY <2>1, <2>2, <1>10
  <2>4. \A u \in Threads : thr'[u].tmp_ref = thr[u].tmp_ref + One(u = w)
    BY <1>10
  <2>5. \A u \in Threads : ThreadRefs'[u] = ThreadRefs[u] + One(u = w)
    BY <2>1, <2>2, <2>4
  <2>. QED BY <2>3, <2>5
<1>13. /\ proc' \in [Procs -> Prc] /\ ProcSts' = ProcSts /\ ProcTodos' = ProcTodos
       /\ DeadProcs' = DeadProcs
       /\ \A p \in Procs : ProcRefs'[p] = ProcRefs[p] + One(p = q)
  BY <1>9, <1>ty, HoldProc
<1>14. UNCHANGED <<LiveNodes, AsyncNodes, AsyncTodos>>
  BY <1>9, SameAll
<1>n. /\ SyncCall(th, w, q, top) \in Txn /\ SyncCall(th, w, q, top).kind = "sync"
      /\ SyncCall(th, w, q, top).from = th /\ SyncCall(th, w, q, top).to_thread = w
      /\ SyncCall(th, w, q, top).to_proc = q
      /\ SyncCall(th, w, q, top).from_parent = top
      /\ Fresh(SyncCall(th, w, q, top), CallBuf(q, FALSE))
      /\ BufOK(SyncCall(th, w, q, top), CallBuf(q, FALSE))
  BY <1>b, SyncCallOf
<1>p. CallBuf(q, FALSE) \in Buf /\ CallBuf(q, FALSE).async = FALSE
  BY CallBufOf
<1>l. /\ CallLoc(t, w, q) \in Loc /\ CallLoc(t, w, q).t = t
      /\ CallLoc(t, w, q).in_reply_to = NoTxn
      /\ CallLoc(t, w, q).target_thread = w
      /\ CallLoc(t, w, q).target_proc = q
      /\ CallLoc(t, w, q).wait_for_proc_work = FALSE
  BY <1>b, <1>5, TxnNumbers DEF CallLoc, NoLoc, Loc
<1>15. /\ txn' \in [Txns -> Txn] /\ txn'[t] = SyncCall(th, w, q, top)
       /\ \A s \in Txns : s # t => txn'[s] = txn[s]
  BY <1>9, <1>5, <1>xt, <1>n
<1>16. /\ buf' \in [Txns -> Buf] /\ buf'[t] = CallBuf(q, FALSE)
       /\ \A s \in Txns : s # t => buf'[s] = buf[s]
  BY <1>9, <1>5, <1>bt, <1>p
<1>17. pc' \in [Threads -> PCs] /\ pc'[th] = "send" /\ \A u \in Threads : u # th => pc'[u] = pc[u]
  BY <1>9, <1>ct DEF PCs
<1>m. loc' \in [Threads -> Loc] /\ loc'[th] = CallLoc(t, w, q)
      /\ \A u \in Threads : u # th => loc'[u] = loc[u]
  BY <1>9, <1>ct, <1>l
<1>18. Typed'
  BY <1>9, <1>10, <1>13, <1>15, <1>16, <1>17, <1>m, <1>ty DEF Typed
<1>19. Stay(txn, txn', k, a, k2, a2, {t}) /\ OnlyMoves(pc, loc, pc', loc', th)
  BY <1>7, <1>15, <1>17, <1>m DEF Stay, SameTxn, OnlyMoves
<1>20. Names(txn')
  <2>1. txn'[t].kind # "unused" /\ t \in Txns /\ \A s \in Txns : s # t => txn'[s] = txn[s]
    BY <1>15, <1>n, <1>5
  <2>. QED BY <2>1, <1>5, NamesNew
<1>21. TxnLists(ProcTodos, "proc", k2, a2) /\ TxnLists(AsyncTodos, "async", k2, a2)
       /\ ThreadLists(Todos', k2, a2)
  <2>1. \A kind \in {"thread", "proc", "async"} : \A s \in Txns :
           k2[s] = kind \/ k[s] = kind => k2[s] = k[s] /\ a2[s] = a[s]
    BY <1>5, <1>7
  <2>2. TxnLists(ProcTodos, "proc", k2, a2) /\ TxnLists(AsyncTodos, "async", k2, a2)
        /\ ThreadLists(Todos, k2, a2)
    BY <2>1, <1>pl, <1>al, <1>tl, ListsMove
  <2>3. ThreadLists(Todos', k2, a2)
    BY <2>2, <1>12, <1>lt, NoticeAdded
  <2>. QED BY <2>2, <2>3
<1>22. \A s \in Txns : k[s] = "carried" => (s \in {t} <=> a[s] = th)
  <2>1. ASSUME NEW s \in Txns, k[s] = "carried" PROVE s \notin {t} /\ a[s] # th
    <3>1. CarrierOK(pc, loc, k, a, s)
      BY <1>ca DEF Carried
    <3>. QED BY <3>1, <2>1, <1>1, <1>5 DEF CarrierOK
  <2>. QED BY <2>1
<1>24. Carried(txn', Dead, pc', loc', k2, a2)
  <2>1. \A s \in Txns : s \in {t} => CarrierOK(pc', loc', k2, a2, s)
    BY <1>7, <1>17, <1>m, <1>l DEF CarrierOK
  <2>2. CarryOK(txn', Dead, pc', loc', k2, a2, th)
    <3>1. SendCarry(txn', loc'[th], th, k2, a2)
      <4>1. /\ loc'[th].t = t /\ loc'[th].in_reply_to = NoTxn /\ loc'[th].target_thread = w
            /\ loc'[th].target_proc = q
        BY <1>m, <1>l
      <4>2. txn'[t].kind = "sync" /\ txn'[t].to_proc = q /\ txn'[t].from = th /\ txn'[t].to_thread = w
        BY <1>15, <1>n
      <4>. QED BY <4>1, <4>2, <1>5, <1>7 DEF SendCarry, Sync
    <3>2. Holds(pc', loc', th)
      BY <1>m, <1>l, <1>a DEF Holds
    <3>. QED BY <3>1, <3>2, <1>17 DEF CarryOK
  <2>. QED BY <2>1, <2>2, <1>22, <1>19, <1>ca, CarriedStep
<1>25. Failing(sfr, k2, a2)
  <2>1. \A s \in Txns : k2[s] = "failing" \/ k[s] = "failing" => k2[s] = k[s] /\ a2[s] = a[s]
    BY <1>5, <1>7
  <2>. QED BY <2>1, <1>fa, <1>ft, FailMove
<1>26. Placed(txn', Dead, k2, a2)
  <2>1. PlaceOK(txn', Dead, k2, a2, t)
    BY <1>7, <1>15, <1>n DEF PlaceOK
  <2>3. ASSUME NEW s \in Txns, k[s] = "orphan", s \notin {t}, a[s] \in {t}
        PROVE  /\ txn'[a[s]].kind = txn[a[s]].kind /\ txn'[a[s]].from = txn[a[s]].from
               /\ txn'[a[s]].from_parent = txn[a[s]].from_parent
    <3>1. a[s] \in Txns /\ Sync(txn, a[s])
      BY <2>3, <1>po DEF Placed, PlaceOK
    <3>2. a[s] # t
      BY <3>1, <1>5
    <3>. QED BY <3>1, <3>2, <1>15
  <2>4. \A s \in Txns : s \in {t} => PlaceOK(txn', Dead, k2, a2, s)
    BY <2>1
  <2>. QED BY <2>3, <2>4, <1>19, <1>po, PlacedStep
<1>27. Tree(txn', Dead, k2, a2, r2)
  <2>1. /\ txn'[t].kind = "sync" /\ txn'[t].from = th /\ txn'[t].from_parent = top
        /\ txn'[t].to_proc \in Procs /\ ProcOf[th] # txn'[t].to_proc
        /\ txn'[t].to_thread # NoThread => ProcOf[txn'[t].to_thread] = txn'[t].to_proc
    BY <1>15, <1>n, <1>a
  <2>2. top # NoTxn => Sync(txn, top) /\ k[top] = "served" /\ a[top] = th /\ NoChild(txn, top)
    BY <1>6
  <2>3. /\ r2[t] = IF top = NoTxn THEN t ELSE r[top]
        /\ \A s \in Txns : s # t => r2[s] = r[s]
        /\ \A s \in Txns : s # t => k2[s] = k[s] /\ a2[s] = a[s]
    BY <1>7
  <2>4. r \in [Txns -> Txns]
    BY <1>gh DEF Ghosts
  <2>5. t \in Txns /\ ~Sync(txn, t) /\ \A s \in Txns : s # t => txn'[s] = txn[s]
    BY <1>5, <1>15
  <2>6. th \notin Dead
    BY <1>2
  <2>7. TreeNew(txn, Dead, k, a, r, txn', k2, a2, r2, t, th, top)
    BY <2>1, <2>2, <2>3, <2>5, <2>6, <1>c DEF TreeNew
  <2>. QED BY <2>4, <2>7, <1>xt, <1>tr, TreeNewCall
<1>28. AllStacks(txn', Dead, Stacks', k2, a2, r2)
  <2>1. ASSUME NEW u \in Threads, NEW s \in Txns, s # t PROVE Alike(txn, txn', k, a, k2, a2, u, s)
    <3>1. s \notin {t}
      BY <2>1
    <3>. QED BY <3>1, <1>19, StayAlike
  <2>2. ASSUME NEW u \in Threads, u \notin Dead PROVE StackOK(txn', Stacks', k2, a2, r2, u)
    <3>1. StackOK(txn, Stacks, k, a, r, u) /\ Stacks[u] \in 0 .. MaxTxns
      BY <2>2, <1>st, <1>kt DEF AllStacks
    <3>2. CASE u = th
      <4>1. Mine(txn', k2, a2, u, t)
        BY <3>2, <1>15, <1>n DEF Mine, Sync
      <4>2. txn'[t].to_thread # u
        BY <3>2, <1>15, <1>n, <1>b
      <4>3. Below(txn', u, t) = Stacks[u] /\ Stacks'[u] = t /\ Stacks[u] < t
        BY <4>2, <3>2, <1>15, <1>n, <1>4, <1>12, <1>d DEF Below
      <4>4. Stacks[u] # NoTxn => r2[t] = r[Stacks[u]] /\ (txn'[t].to_thread = u => txn[Stacks[u]].from = u)
        BY <4>2, <3>2, <1>4, <1>7
      <4>5. t \in Txns /\ \A s \in Txns : s # t => r2[s] = r[s]
        BY <1>5, <1>7
      <4>6. \A s \in Txns : s # t => Alike(txn, txn', k, a, k2, a2, u, s)
        BY <2>1
      <4>. QED BY <4>1, <4>3, <4>4, <4>5, <4>6, <3>1, <1>xt, StackPush
    <3>3. CASE u # th
      <4>1. Alike(txn, txn', k, a, k2, a2, u, t)
        BY <3>3, <1>5, <1>7, <1>15, <1>n DEF Alike, Mine
      <4>2. \A s \in Txns : Alike(txn, txn', k, a, k2, a2, u, s)
        BY <4>1, <2>1
      <4>3. \A s \in Txns : Mine(txn, k, a, u, s) => r2[s] = r[s]
        BY <1>5, <1>7 DEF Mine
      <4>4. Stacks'[u] = Stacks[u]
        BY <3>3, <1>12
      <4>. QED BY <4>2, <4>3, <4>4, <3>1, <1>xt, StackKeep
    <3>. QED BY <3>2, <3>3
  <2>. QED BY <2>2 DEF AllStacks
<1>29. Directed(txn', Dead, Stacks', Todos', pc', loc', k2, a2, r2)
  <2>1. Leaves(txn, {t})
    BY <1>5 DEF Leaves
  <2>2. \A s \in Txns : s \in {t} => QueuedOK(txn', Dead, Stacks', Todos', k2, a2, r2, s)
    BY <1>7 DEF QueuedOK
  <2>3. Calm(txn, pc, loc, k, a, {t}, Stacks, Stacks')
    <3>1. CASE top # NoTxn
      <4>1. Stacks[th] # NoTxn /\ NoChild(txn, Stacks[th])
        BY <3>1, <1>4, <1>6
      <4>2. Quiet(txn, pc, loc, k, a, {t}, th)
        BY <4>1, <1>2, <1>xt, <1>kt, <1>di, <1>tr, <1>ca, EndQuiet
      <4>. QED BY <4>2, <1>12 DEF Calm
    <3>2. CASE top = NoTxn
      <4>1. ASSUME NEW s \in Txns, k[s] = "thread", a[s] = th PROVE Head(Todos[th]) # TxnItem(s)
        <5>1. TxnItem(s) \in ToSet(Todos[th])
          BY <4>1, <1>tl DEF ThreadLists, ListOK
        <5>2. Todos[th] # <<>>
          BY <5>1, SeqSmall
        <5>3. Todos[th] = thr[th].todo
          BY <1>ty, ThreadViews
        <5>. QED BY <5>2, <5>3, <1>1, TxnItems
      <4>2. Quiet(txn, pc, loc, k, a, {t}, th)
        BY <4>1, <3>2, <1>4, <1>2, <1>xt, <1>di, <1>ca, IdleQuiet
      <4>. QED BY <4>2, <1>12 DEF Calm
    <3>. QED BY <3>1, <3>2
  <2>4. ASSUME NEW s \in Txns, s \notin {t}, k[s] = "thread", Head(Todos[a[s]]) = TxnItem(s)
        PROVE  Head(Todos'[a[s]]) = TxnItem(s)
    <3>1. Grow(Todos, Todos')
      BY <1>12, <1>i DEF Grow
    <3>. QED BY <3>1, <2>4, <1>lt, <1>tl, <1>po, HeadStays
  <2>5. SentOK(txn', Dead, Stacks', loc', r2, th)
    <3>1. ASSUME w # NoThread PROVE Back(txn', Stacks', r2, w, t)
      <4>1. Stacks'[w] = Stacks[w] /\ Stacks[w] < t /\ Stacks[w] # t /\ Stacks[w] # NoTxn
        BY <3>1, <1>a, <1>c, <1>5, <1>12, TxnNumbers
      <4>2. txn'[Stacks[w]] = txn[Stacks[w]] /\ r2[Stacks[w]] = r[Stacks[w]]
        BY <3>1, <4>1, <1>a, <1>7, <1>15
      <4>3. r2[t] = r[Stacks[th]]
        BY <3>1, <1>a, <1>4, <1>7
      <4>. QED BY <4>1, <4>2, <4>3, <3>1, <1>a DEF Back
    <3>2. loc'[th].t = t /\ loc'[th].target_thread = w
      BY <1>m, <1>l
    <3>. QED BY <3>1, <3>2 DEF SentOK
  <2>6. ASSUME NEW u \in Threads, pc'[u] = "send"
        PROVE  \/ pc[u] = "send" /\ loc'[u] = loc[u] /\ loc[u].t \notin {t}
               \/ SentOK(txn', Dead, Stacks', loc', r2, u)
    <3>1. CASE u = th
      BY <3>1, <2>5
    <3>2. CASE u # th
      <4>1. pc[u] = "send" /\ loc'[u] = loc[u]
        BY <3>2, <2>6, <1>17, <1>m
      <4>2. SendCarry(txn, loc[u], u, k, a)
        BY <4>1, <1>ca DEF Carried, CarryOK
      <4>. QED BY <4>1, <4>2, <1>5 DEF SendCarry
    <3>. QED BY <3>1, <3>2
  <2>7. \A s \in Txns : s \notin {t} => r2[s] = r[s]
    BY <1>7
  <2>. QED BY <2>1, <2>2, <2>3, <2>4, <2>6, <2>7, <1>19, <1>xt, <1>kt, <1>di, <1>tr, <1>po, <1>ca,
       DirectedStep
<1>30. Buffers(txn', buf', loc', k2, a2)
  <2>1. BufferOK(txn', buf', loc', k2, a2, t)
    BY <1>7, <1>15, <1>16, <1>n DEF BufferOK
  <2>3. \A s \in Txns : s \notin {t} => txn'[s] = txn[s] /\ buf'[s] = buf[s]
    BY <1>15, <1>16
  <2>4. \A s \in Txns : s \in {t} => BufferOK(txn', buf', loc', k2, a2, s)
    BY <2>1
  <2>. QED BY <2>3, <2>4, <1>22, <1>19, <1>bu, <1>ca, BuffersStep
<1>31. Drops(txn', buf', pc', loc', sfr)
  <2>1. ASSUME NEW u \in Threads, u # th, pc[u] = "dropbuf"
        PROVE  loc[u].t \notin {t} /\ sfr[u] = sfr[u]
    <3>1. txn[t].kind = "unused"
      BY <1>5
    <3>2. loc[u].t # t
      BY <2>1, <3>1, <1>5, <1>dr, <1>po, <1>fa, <1>bu, DropFree
    <3>. QED BY <3>2
  <2>2. \A s \in Txns : s \notin {t} => buf'[s] = buf[s]
    BY <1>16
  <2>3. th \in Threads /\ pc'[th] = "dropbuf" => DropOK(txn', buf', pc', loc', sfr, th)
    BY <1>17
  <2>. QED BY <2>1, <2>2, <2>3, <1>19, <1>dr, DropsStep
<1>32. ThreadStates(Dead, Stacks', Todos', Waiting, pc', loc', sfr)
  <2>1. ASSUME NEW u \in Threads PROVE ThreadOK(Dead, Stacks', Todos', Waiting, pc', loc', sfr, u)
    <3>1. ThreadOK(Dead, Stacks, Todos, Waiting, pc, loc, sfr, u)
      BY <1>ts DEF ThreadStates
    <3>2. CASE u = th
      BY <3>1, <3>2, <1>1, <1>2, <1>17, <1>m, <1>l DEF ThreadOK
    <3>3. CASE u # th
      BY <3>1, <3>3, <1>12, <1>17, <1>m DEF ThreadOK
    <3>. QED BY <3>2, <3>3
  <2>. QED BY <2>1 DEF ThreadStates
<1>33. ProcStates(ProcSts, DeadProcs, ProcTodos, ProcRefs', LiveNodes, AsyncTodos, pc', sfr)
  <2>1. ProcSts[ProcOf[th]] = "open"
    BY <1>1, <1>ty, ProcOfAssumption, ProcViews
  <2>2. ASSUME NEW u \in Threads
        PROVE  \/ ProcSts[ProcOf[u]] = "open"
               \/ pc'[u] = pc[u] /\ (sfr[u] = sfr[u] \/ pc[u] # "user")
    BY <2>1, <1>17
  <2>3. ProcSts[q] # "freed"
    <3>1. ProcOK(ProcSts, DeadProcs, ProcTodos, ProcRefs, LiveNodes, AsyncTodos, pc, sfr, q)
      BY <1>ps DEF ProcStates
    <3>2. q \in LiveNodes
      BY <1>1, <1>ty, NodeViews
    <3>. QED BY <3>1, <3>2 DEF ProcOK
  <2>4. ASSUME NEW p \in Procs, ProcSts[p] = "freed" PROVE ProcRefs'[p] = ProcRefs[p]
    <3>1. One(p = q) = 0 /\ ProcRefs[p] \in Int
      BY <2>3, <2>4, <1>ty, ProcViews DEF One
    <3>. QED BY <3>1, <1>13
  <2>. QED BY <2>2, <2>4, <1>ps, ProcStatesKeep
<1>34. ThreadCounts(ThreadRefs', pc', loc') /\ ProcCounts(Dead, ThreadRefs', ProcSts, ProcRefs', pc', loc')
  <2>1. \A u \in Threads : u # th => SameHolds(pc, loc, pc', loc', u)
    BY <1>17, <1>m DEF SameHolds, Holding
  <2>2. \A u \in Threads : pc'[u] = "release" <=> pc[u] = "release"
    BY <1>1, <1>17
  <2>3. /\ ~Holding(pc, th) /\ Holding(pc', th) /\ w = loc'[th].target_thread
        /\ q = loc'[th].target_proc /\ w \notin Dead
    BY <1>2, <1>17, <1>m, <1>l, <1>b DEF Holding
  <2>4. /\ \A u \in Threads : ThreadRefs'[u] = ThreadRefs[u] + One(u = w)
        /\ \A p \in Procs : ProcRefs'[p] = ProcRefs[p] + One(p = q)
    BY <1>12, <1>13
  <2>5. ThreadCounts(ThreadRefs', pc', loc')
    BY <2>1, <2>2, <2>3, <2>4, <1>tc, <1>pc, CountsHold, SMTT(60)
  <2>6. ProcCounts(Dead, ThreadRefs', ProcSts, ProcRefs', pc', loc')
    BY <2>1, <2>2, <2>3, <2>4, <1>tc, <1>pc, CountsHold
  <2>. QED BY <2>5, <2>6
<1>35. Oneways(buf', DeadProcs, LiveNodes, AsyncNodes, AsyncTodos, pc', loc')
  <2>1. pc[th] # "send" /\ pc'[th] = "send" /\ loc'[th].t = t /\ t \in Txns /\ ~buf[t].async
    BY <1>1, <1>5, <1>17, <1>m, <1>l
  <2>2. \A s \in Txns : s # t => buf'[s] = buf[s]
    BY <1>16
  <2>. QED BY <2>1, <2>2, <1>19, <1>ow, OnewayCarried
<1>36. Notices(Dead, Todos', ReturnErrors, ReplyErrors, pc')
  <2>0. ReturnErrors[th] = "OK" /\ Todos[th] \in Seq(Work)
    BY <1>1, <1>ty, ThreadViews
  <2>1. ToSet(Todos'[th]) = ToSet(Todos[th]) \cup {Item("complete")}
    BY <2>0, <1>12, NoticeLast
  <2>2. ASSUME NEW u \in Threads PROVE NoticeOK(Dead, Todos', ReturnErrors, ReplyErrors, pc', u)
    <3>1. NoticeOK(Dead, Todos, ReturnErrors, ReplyErrors, pc, u)
      BY <1>no DEF Notices
    <3>2. CASE u = th
      BY <3>1, <3>2, <2>0, <2>1, <1>17, NoticeTypes DEF NoticeOK
    <3>3. CASE u # th
      BY <3>1, <3>3, <1>12, <1>17 DEF NoticeOK
    <3>. QED BY <3>2, <3>3
  <2>. QED BY <2>2 DEF Notices
<1>37. Flags(txn', Dead, Stacks', Todos', Flagged)
  <2>1. ASSUME NEW u \in Threads, u \notin Dead PROVE FlagOK(txn', Stacks', Todos', Flagged, u)
    <3>1. FlagOK(txn, Stacks, Todos, Flagged, u)
      BY <2>1, <1>fl DEF Flags
    <3>2. CASE u = th
      <4>1. ~(Stacks[u] # NoTxn /\ txn[Stacks[u]].from = u)
        BY <3>2, <1>4, <1>6
      <4>2. u \notin Flagged => Todos[u] = <<>>
        BY <4>1, <3>1 DEF FlagOK
      <4>3. Todos'[u] # <<>> /\ (u \notin Flagged => Todos'[u] = <<Item("complete")>>)
        <5>1. Todos[u] \in Seq(Work) /\ Todos'[u] = Append(Todos[u], Item("complete"))
          BY <3>2, <1>12, <1>lt
        <5>2. Append(<<>>, Item("complete")) = <<Item("complete")>>
          OBVIOUS
        <5>3. Todos'[u] # <<>>
          BY <5>1, NoticeLast
        <5>. QED BY <5>1, <5>2, <5>3, <4>2
      <4>4. Stacks'[u] # NoTxn /\ txn'[Stacks'[u]].from = u
        BY <3>2, <1>12, <1>15, <1>n, <1>5, TxnNumbers
      <4>. QED BY <4>3, <4>4 DEF FlagOK
    <3>3. CASE u # th
      <4>1. Stacks[u] \in 0 .. MaxTxns
        BY <1>kt
      <4>3. Stacks[u] # NoTxn /\ txn[Stacks[u]].from = u => txn'[Stacks[u]].from = u
        BY <4>1, <1>5, <1>15, TxnNumbers, NullAssumption
      <4>. QED BY <3>1, <3>3, <4>3, <1>12 DEF FlagOK
    <3>. QED BY <3>2, <3>3
  <2>. QED BY <2>1 DEF Flags
<1>38. Inv(k2, a2, r2)'
  BY <1>8, <1>9, <1>11, <1>13, <1>14, <1>18, <1>20, <1>21, <1>24, <1>25, <1>26, <1>27,
     <1>28, <1>29, <1>30, <1>31, <1>32, <1>33, <1>34, <1>35, <1>36, <1>37, Whole
<1>. QED BY <1>38

\* A one-way call, up to binder_proc_transaction.
LEMMA CallOnewayStep ==
  ASSUME NEW k, NEW a, NEW r, Inv(k, a, r), NEW th \in Threads, NEW q \in Procs,
         ProcOf[th] # q, CallStart(th, q, TRUE)
  PROVE  \E k2, a2 : Inv(k2, a2, r)'
<1>gh. Ghosts(k, a, r)
  BY Parts
<1>ty. Typed /\ bug = FALSE
  BY Parts
<1>kt. Stacks \in [Threads -> 0 .. MaxTxns]
  BY Parts
<1>lt. Todos \in [Threads -> Seq(Work)]
  BY Parts
<1>xt. txn \in [Txns -> Txn]
  BY Parts
<1>bt. buf \in [Txns -> Buf]
  BY Parts
<1>tt. thr \in [Threads -> Thr]
  BY Parts
<1>ct. pc \in [Threads -> PCs] /\ loc \in [Threads -> Loc]
  BY Parts
<1>ft. sfr \in [Threads \cup Procs -> 0 .. MaxTxns]
  BY Parts
<1>nm. Names(txn)
  BY Parts
<1>tl. ThreadLists(Todos, k, a)
  BY Parts
<1>pl. TxnLists(ProcTodos, "proc", k, a)
  BY Parts
<1>al. TxnLists(AsyncTodos, "async", k, a)
  BY Parts
<1>ca. Carried(txn, Dead, pc, loc, k, a)
  BY Parts
<1>fa. Failing(sfr, k, a)
  BY Parts
<1>po. Placed(txn, Dead, k, a)
  BY Parts
<1>tr. Tree(txn, Dead, k, a, r)
  BY Parts
<1>st. AllStacks(txn, Dead, Stacks, k, a, r)
  BY Parts
<1>di. Directed(txn, Dead, Stacks, Todos, pc, loc, k, a, r)
  BY Parts
<1>bu. Buffers(txn, buf, loc, k, a)
  BY Parts
<1>dr. Drops(txn, buf, pc, loc, sfr)
  BY Parts
<1>ts. ThreadStates(Dead, Stacks, Todos, Waiting, pc, loc, sfr)
  BY Parts
<1>ps. ProcStates(ProcSts, DeadProcs, ProcTodos, ProcRefs, LiveNodes, AsyncTodos, pc, sfr)
  BY Parts
<1>tc. ThreadCounts(ThreadRefs, pc, loc)
  BY Parts
<1>pc. ProcCounts(Dead, ThreadRefs, ProcSts, ProcRefs, pc, loc)
  BY Parts
<1>ow. Oneways(buf, DeadProcs, LiveNodes, AsyncNodes, AsyncTodos, pc, loc)
  BY Parts
<1>no. Notices(Dead, Todos, ReturnErrors, ReplyErrors, pc)
  BY Parts
<1>fl. Flags(txn, Dead, Stacks, Todos, Flagged)
  BY Parts
<1>1. /\ pc[th] = "user" /\ sfr[th] = NoTxn /\ proc[ProcOf[th]].st = "open"
      /\ thr[th].return_error = "OK" /\ NextId <= MaxTxns /\ node[q].live
  BY DEF CallStart, CanWrite, InUser
<1>2. th \notin Dead /\ th \notin Waiting /\ ~loc[th].wait_for_proc_work /\ ~Holding(pc, th)
  BY <1>1, UserFacts
<1>3. PICK t, w : t = NextId /\ w = NoThread
  OBVIOUS
<1>5. /\ t \in Txns /\ txn[t].kind = "unused" /\ ~Sync(txn, t) /\ k[t] = "none"
      /\ NoChild(txn, t) /\ txn[t].from = NoThread /\ ~buf[t].async
      /\ \A s \in Txns : txn[s].kind # "unused" <=> s < t
  BY <1>1, <1>3, FreshFacts
<1>b. w \in Threads \cup {NoThread} /\ w # th /\ w \notin Dead
  BY <1>3, NullAssumption DEF Dead
<1>. DEFINE k2 == [s \in Txns |-> IF s = t THEN "carried" ELSE k[s]]
            a2 == [s \in Txns |-> IF s = t THEN th ELSE a[s]]
<1>7. /\ k2[t] = "carried" /\ a2[t] = th
      /\ \A s \in Txns : s # t => k2[s] = k[s] /\ a2[s] = a[s]
      /\ \A s \in Txns : s \notin {t} => k2[s] = k[s] /\ a2[s] = a[s]
  BY <1>5
<1>8. Ghosts(k2, a2, r)
  BY <1>5, <1>gh DEF Ghosts, Kinds
<1>. HIDE DEF k2, a2
<1>9. /\ thr' = EnqueueThreadWork(thr, th, Item("complete"))
      /\ IncProc(q)
      /\ txn' = [txn EXCEPT ![t] = OnewayCall(q)]
      /\ buf' = [buf EXCEPT ![t] = CallBuf(q, TRUE)]
      /\ pc' = [pc EXCEPT ![th] = "send"]
      /\ loc' = [loc EXCEPT ![th] = CallLoc(t, w, q)]
      /\ UNCHANGED <<node, sfr>> /\ bug' = FALSE
  BY <1>3, <1>ty DEF CallStart, OnewayCall, CallBuf, CallLoc, IncProc
<1>i. Item("complete") \in Work /\ Item("complete").type = "complete"
  BY TxnItems
<1>10. /\ thr' \in [Threads -> Thr] /\ \A u \in Threads : u # th => thr'[u] = thr[u]
       /\ thr'[th].stack = thr[th].stack /\ thr'[th].process_todo
       /\ thr'[th].todo = Append(thr[th].todo, Item("complete"))
       /\ thr'[th].return_error = thr[th].return_error
       /\ thr'[th].reply_error = thr[th].reply_error
       /\ thr'[th].waiting = thr[th].waiting /\ thr'[th].is_dead = thr[th].is_dead
       /\ thr'[th].tmp_ref = thr[th].tmp_ref
  <2>. DEFINE T == EnqueueThreadWork(thr, th, Item("complete"))
  <2>1. /\ T \in [Threads -> Thr] /\ \A u \in Threads : u # th => T[u] = thr[u]
        /\ T[th].stack = thr[th].stack /\ T[th].process_todo
        /\ T[th].todo = Append(thr[th].todo, Item("complete"))
        /\ T[th].return_error = thr[th].return_error
        /\ T[th].reply_error = thr[th].reply_error
        /\ T[th].waiting = thr[th].waiting /\ T[th].is_dead = thr[th].is_dead
        /\ T[th].tmp_ref = thr[th].tmp_ref
    BY <1>tt, <1>i, EnqueueOf
  <2>2. thr' = T
    BY <1>9
  <2>. HIDE DEF T
  <2>. QED BY <2>1, <2>2
<1>11. UNCHANGED <<Stacks, ReturnErrors, ReplyErrors, Waiting, Dead, ThreadRefs>>
  BY <1>10, OneThread
<1>12. /\ Todos'[th] = Append(Todos[th], Item("complete")) /\ th \in Flagged'
       /\ \A u \in Threads : u # th => Todos'[u] = Todos[u] /\ (u \in Flagged' <=> u \in Flagged)
  <2>1. \A u \in Threads : Todos[u] = thr[u].todo
    BY <1>ty, ThreadViews
  <2>2. \A u \in Threads : u # th => Todos'[u] = Todos[u] /\ (u \in Flagged' <=> u \in Flagged)
    BY <1>10, NextViews
  <2>3. Todos'[th] = thr'[th].todo /\ (th \in Flagged' <=> thr'[th].process_todo)
    BY NextViews
  <2>. QED BY <2>1, <2>2, <2>3, <1>10
<1>13. /\ proc' \in [Procs -> Prc] /\ ProcSts' = ProcSts /\ ProcTodos' = ProcTodos
       /\ DeadProcs' = DeadProcs
       /\ \A p \in Procs : ProcRefs'[p] = ProcRefs[p] + One(p = q)
  BY <1>9, <1>ty, HoldProc
<1>14. UNCHANGED <<LiveNodes, AsyncNodes, AsyncTodos>>
  BY <1>9, SameAll
<1>n. /\ OnewayCall(q) \in Txn /\ OnewayCall(q).kind = "oneway"
      /\ OnewayCall(q).from = NoThread /\ OnewayCall(q).to_thread = w
      /\ OnewayCall(q).to_proc = q /\ OnewayCall(q).from_parent = NoTxn
      /\ Fresh(OnewayCall(q), CallBuf(q, TRUE))
      /\ BufOK(OnewayCall(q), CallBuf(q, TRUE))
  BY <1>3, OnewayCallOf
<1>p. CallBuf(q, TRUE) \in Buf
  BY CallBufOf
<1>l. /\ CallLoc(t, w, q) \in Loc /\ CallLoc(t, w, q).t = t
      /\ CallLoc(t, w, q).in_reply_to = NoTxn
      /\ CallLoc(t, w, q).target_thread = w
      /\ CallLoc(t, w, q).target_proc = q
      /\ CallLoc(t, w, q).wait_for_proc_work = FALSE
  BY <1>b, <1>5, TxnNumbers DEF CallLoc, NoLoc, Loc
<1>15. /\ txn' \in [Txns -> Txn] /\ txn'[t] = OnewayCall(q)
       /\ \A s \in Txns : s # t => txn'[s] = txn[s]
  BY <1>9, <1>5, <1>xt, <1>n
<1>16. /\ buf' \in [Txns -> Buf] /\ buf'[t] = CallBuf(q, TRUE)
       /\ \A s \in Txns : s # t => buf'[s] = buf[s]
  BY <1>9, <1>5, <1>bt, <1>p
<1>17. pc' \in [Threads -> PCs] /\ pc'[th] = "send" /\ \A u \in Threads : u # th => pc'[u] = pc[u]
  BY <1>9, <1>ct DEF PCs
<1>m. loc' \in [Threads -> Loc] /\ loc'[th] = CallLoc(t, w, q)
      /\ \A u \in Threads : u # th => loc'[u] = loc[u]
  BY <1>9, <1>ct, <1>l
<1>18. Typed'
  BY <1>9, <1>10, <1>13, <1>15, <1>16, <1>17, <1>m, <1>ty DEF Typed
<1>19. Stay(txn, txn', k, a, k2, a2, {t}) /\ OnlyMoves(pc, loc, pc', loc', th)
  BY <1>7, <1>15, <1>17, <1>m DEF Stay, SameTxn, OnlyMoves
<1>20. Names(txn')
  <2>1. txn'[t].kind # "unused" /\ t \in Txns /\ \A s \in Txns : s # t => txn'[s] = txn[s]
    BY <1>15, <1>n, <1>5
  <2>. QED BY <2>1, <1>5, NamesNew
<1>21. TxnLists(ProcTodos, "proc", k2, a2) /\ TxnLists(AsyncTodos, "async", k2, a2)
       /\ ThreadLists(Todos', k2, a2)
  <2>1. \A kind \in {"thread", "proc", "async"} : \A s \in Txns :
           k2[s] = kind \/ k[s] = kind => k2[s] = k[s] /\ a2[s] = a[s]
    BY <1>5, <1>7
  <2>2. TxnLists(ProcTodos, "proc", k2, a2) /\ TxnLists(AsyncTodos, "async", k2, a2)
        /\ ThreadLists(Todos, k2, a2)
    BY <2>1, <1>pl, <1>al, <1>tl, ListsMove
  <2>3. ThreadLists(Todos', k2, a2)
    BY <2>2, <1>12, <1>lt, NoticeAdded
  <2>. QED BY <2>2, <2>3
<1>22. \A s \in Txns : k[s] = "carried" => (s \in {t} <=> a[s] = th)
  <2>1. ASSUME NEW s \in Txns, k[s] = "carried" PROVE s \notin {t} /\ a[s] # th
    <3>1. CarrierOK(pc, loc, k, a, s)
      BY <1>ca DEF Carried
    <3>. QED BY <3>1, <2>1, <1>1, <1>5 DEF CarrierOK
  <2>. QED BY <2>1
<1>24. Carried(txn', Dead, pc', loc', k2, a2)
  <2>1. \A s \in Txns : s \in {t} => CarrierOK(pc', loc', k2, a2, s)
    BY <1>7, <1>17, <1>m, <1>l DEF CarrierOK
  <2>2. CarryOK(txn', Dead, pc', loc', k2, a2, th)
    <3>1. SendCarry(txn', loc'[th], th, k2, a2)
      <4>1. /\ loc'[th].t = t /\ loc'[th].in_reply_to = NoTxn /\ loc'[th].target_thread = w
            /\ loc'[th].target_proc = q
        BY <1>m, <1>l
      <4>2. txn'[t].kind = "oneway" /\ txn'[t].to_proc = q /\ txn'[t].to_thread = w
        BY <1>15, <1>n
      <4>. QED BY <4>1, <4>2, <1>3, <1>5, <1>7 DEF SendCarry, Sync
    <3>2. Holds(pc', loc', th)
      BY <1>m, <1>l, <1>3 DEF Holds
    <3>. QED BY <3>1, <3>2, <1>17 DEF CarryOK
  <2>. QED BY <2>1, <2>2, <1>22, <1>19, <1>ca, CarriedStep
<1>25. Failing(sfr, k2, a2)
  <2>1. \A s \in Txns : k2[s] = "failing" \/ k[s] = "failing" => k2[s] = k[s] /\ a2[s] = a[s]
    BY <1>5, <1>7
  <2>. QED BY <2>1, <1>fa, <1>ft, FailMove
<1>26. Placed(txn', Dead, k2, a2)
  <2>1. PlaceOK(txn', Dead, k2, a2, t)
    BY <1>7, <1>15, <1>n DEF PlaceOK
  <2>3. ASSUME NEW s \in Txns, k[s] = "orphan", s \notin {t}, a[s] \in {t}
        PROVE  /\ txn'[a[s]].kind = txn[a[s]].kind /\ txn'[a[s]].from = txn[a[s]].from
               /\ txn'[a[s]].from_parent = txn[a[s]].from_parent
    <3>1. a[s] \in Txns /\ Sync(txn, a[s])
      BY <2>3, <1>po DEF Placed, PlaceOK
    <3>2. a[s] # t
      BY <3>1, <1>5
    <3>. QED BY <3>1, <3>2, <1>15
  <2>4. \A s \in Txns : s \in {t} => PlaceOK(txn', Dead, k2, a2, s)
    BY <2>1
  <2>. QED BY <2>3, <2>4, <1>19, <1>po, PlacedStep
<1>27. Tree(txn', Dead, k2, a2, r)
  <2>1. /\ t \in Txns /\ NoChild(txn, t) /\ txn'[t].kind # "sync" /\ txn'[t].from = NoThread
        /\ txn'[t].from_parent = NoTxn
        /\ \A s \in Txns : s # t => txn'[s] = txn[s]
        /\ \A s \in Txns : s # t /\ s # txn[t].from_parent => k2[s] = k[s] /\ a2[s] = a[s]
    BY <1>5, <1>7, <1>15, <1>n
  <2>. QED BY <2>1, <1>xt, <1>tr, TreeEnd
<1>s. ~Sync(txn', t)
  BY <1>15, <1>n DEF Sync
<1>28. AllStacks(txn', Dead, Stacks, k2, a2, r)
  <2>1. ASSUME NEW u \in Threads PROVE Alike(txn, txn', k, a, k2, a2, u, t)
    BY <1>5, <1>s DEF Alike, Mine
  <2>2. \A s \in Txns : s \in {t} /\ s # t => \A u \in Threads : Alike(txn, txn', k, a, k2, a2, u, s)
    OBVIOUS
  <2>3. \A u \in Threads : u \notin Dead =>
          \/ Alike(txn, txn', k, a, k2, a2, u, t) /\ Stacks[u] = Stacks[u]
          \/ /\ ~Mine(txn', k2, a2, u, t)
             /\ Stacks[u] = IF Stacks[u] = t THEN Below(txn, u, t) ELSE Stacks[u]
    BY <2>1
  <2>. QED BY <2>2, <2>3, <1>5, <1>19, <1>xt, <1>kt, <1>tr, <1>st, StacksEnd
<1>29. Directed(txn', Dead, Stacks, Todos', pc', loc', k2, a2, r)
  <2>1. Leaves(txn, {t})
    BY <1>5 DEF Leaves
  <2>2. \A s \in Txns : s \in {t} => QueuedOK(txn', Dead, Stacks, Todos', k2, a2, r, s)
    BY <1>7 DEF QueuedOK
  <2>3. Calm(txn, pc, loc, k, a, {t}, Stacks, Stacks)
    BY DEF Calm
  <2>4. ASSUME NEW s \in Txns, s \notin {t}, k[s] = "thread", Head(Todos[a[s]]) = TxnItem(s)
        PROVE  Head(Todos'[a[s]]) = TxnItem(s)
    <3>1. Grow(Todos, Todos')
      BY <1>12, <1>i DEF Grow
    <3>. QED BY <3>1, <2>4, <1>lt, <1>tl, <1>po, HeadStays
  <2>5. SentOK(txn', Dead, Stacks, loc', r, th)
    <3>1. loc'[th].t = t
      BY <1>m, <1>l
    <3>. QED BY <3>1, <1>s DEF SentOK
  <2>6. ASSUME NEW u \in Threads, pc'[u] = "send"
        PROVE  \/ pc[u] = "send" /\ loc'[u] = loc[u] /\ loc[u].t \notin {t}
               \/ SentOK(txn', Dead, Stacks, loc', r, u)
    <3>1. CASE u = th
      BY <3>1, <2>5
    <3>2. CASE u # th
      <4>1. pc[u] = "send" /\ loc'[u] = loc[u]
        BY <3>2, <2>6, <1>17, <1>m
      <4>2. SendCarry(txn, loc[u], u, k, a)
        BY <4>1, <1>ca DEF Carried, CarryOK
      <4>. QED BY <4>1, <4>2, <1>5 DEF SendCarry
    <3>. QED BY <3>1, <3>2
  <2>. QED BY <2>1, <2>2, <2>3, <2>4, <2>6, <1>19, <1>xt, <1>kt, <1>di, <1>tr, <1>po, <1>ca,
       DirectedStep
<1>30. Buffers(txn', buf', loc', k2, a2)
  <2>1. BufferOK(txn', buf', loc', k2, a2, t)
    BY <1>7, <1>15, <1>16, <1>n DEF BufferOK
  <2>3. \A s \in Txns : s \notin {t} => txn'[s] = txn[s] /\ buf'[s] = buf[s]
    BY <1>15, <1>16
  <2>4. \A s \in Txns : s \in {t} => BufferOK(txn', buf', loc', k2, a2, s)
    BY <2>1
  <2>. QED BY <2>3, <2>4, <1>22, <1>19, <1>bu, <1>ca, BuffersStep
<1>31. Drops(txn', buf', pc', loc', sfr)
  <2>1. ASSUME NEW u \in Threads, u # th, pc[u] = "dropbuf"
        PROVE  loc[u].t \notin {t} /\ sfr[u] = sfr[u]
    <3>1. txn[t].kind = "unused"
      BY <1>5
    <3>2. loc[u].t # t
      BY <2>1, <3>1, <1>5, <1>dr, <1>po, <1>fa, <1>bu, DropFree
    <3>. QED BY <3>2
  <2>2. \A s \in Txns : s \notin {t} => buf'[s] = buf[s]
    BY <1>16
  <2>3. th \in Threads /\ pc'[th] = "dropbuf" => DropOK(txn', buf', pc', loc', sfr, th)
    BY <1>17
  <2>. QED BY <2>1, <2>2, <2>3, <1>19, <1>dr, DropsStep
<1>32. ThreadStates(Dead, Stacks, Todos', Waiting, pc', loc', sfr)
  <2>1. ASSUME NEW u \in Threads PROVE ThreadOK(Dead, Stacks, Todos', Waiting, pc', loc', sfr, u)
    <3>1. ThreadOK(Dead, Stacks, Todos, Waiting, pc, loc, sfr, u)
      BY <1>ts DEF ThreadStates
    <3>2. CASE u = th
      BY <3>1, <3>2, <1>1, <1>2, <1>17, <1>m, <1>l DEF ThreadOK
    <3>3. CASE u # th
      BY <3>1, <3>3, <1>12, <1>17, <1>m DEF ThreadOK
    <3>. QED BY <3>2, <3>3
  <2>. QED BY <2>1 DEF ThreadStates
<1>33. ProcStates(ProcSts, DeadProcs, ProcTodos, ProcRefs', LiveNodes, AsyncTodos, pc', sfr)
  <2>1. ProcSts[ProcOf[th]] = "open"
    BY <1>1, <1>ty, ProcOfAssumption, ProcViews
  <2>2. ASSUME NEW u \in Threads
        PROVE  \/ ProcSts[ProcOf[u]] = "open"
               \/ pc'[u] = pc[u] /\ (sfr[u] = sfr[u] \/ pc[u] # "user")
    BY <2>1, <1>17
  <2>3. ProcSts[q] # "freed"
    <3>1. ProcOK(ProcSts, DeadProcs, ProcTodos, ProcRefs, LiveNodes, AsyncTodos, pc, sfr, q)
      BY <1>ps DEF ProcStates
    <3>2. q \in LiveNodes
      BY <1>1, <1>ty, NodeViews
    <3>. QED BY <3>1, <3>2 DEF ProcOK
  <2>4. ASSUME NEW p \in Procs, ProcSts[p] = "freed" PROVE ProcRefs'[p] = ProcRefs[p]
    <3>1. One(p = q) = 0 /\ ProcRefs[p] \in Int
      BY <2>3, <2>4, <1>ty, ProcViews DEF One
    <3>. QED BY <3>1, <1>13
  <2>. QED BY <2>2, <2>4, <1>ps, ProcStatesKeep
<1>34. ThreadCounts(ThreadRefs, pc', loc') /\ ProcCounts(Dead, ThreadRefs, ProcSts, ProcRefs', pc', loc')
  <2>1. \A u \in Threads : u # th => SameHolds(pc, loc, pc', loc', u)
    BY <1>17, <1>m DEF SameHolds, Holding
  <2>2. \A u \in Threads : pc'[u] = "release" <=> pc[u] = "release"
    BY <1>1, <1>17
  <2>3. /\ ~Holding(pc, th) /\ Holding(pc', th) /\ w = loc'[th].target_thread
        /\ q = loc'[th].target_proc /\ w \notin Dead
    BY <1>2, <1>17, <1>m, <1>l, <1>b DEF Holding
  <2>4. /\ \A u \in Threads : ThreadRefs[u] = ThreadRefs[u] + One(u = w)
        /\ \A p \in Procs : ProcRefs'[p] = ProcRefs[p] + One(p = q)
    <3>1. ASSUME NEW u \in Threads PROVE ThreadRefs[u] = ThreadRefs[u] + One(u = w)
      <4>1. u # w /\ ThreadRefs[u] \in Int
        BY <1>3, <1>ty, NullAssumption, ThreadViews
      <4>. QED BY <4>1 DEF One
    <3>. QED BY <3>1, <1>13
  <2>5. ThreadCounts(ThreadRefs, pc', loc')
    BY <2>1, <2>2, <2>3, <2>4, <1>tc, <1>pc, CountsHold
  <2>6. ProcCounts(Dead, ThreadRefs, ProcSts, ProcRefs', pc', loc')
    BY <2>1, <2>2, <2>3, <2>4, <1>tc, <1>pc, CountsHold
  <2>. QED BY <2>5, <2>6
<1>35. Oneways(buf', DeadProcs, LiveNodes, AsyncNodes, AsyncTodos, pc', loc')
  <2>1. pc[th] # "send" /\ pc'[th] = "send" /\ loc'[th].t = t /\ t \in Txns /\ ~buf[t].async
    BY <1>1, <1>5, <1>17, <1>m, <1>l
  <2>2. \A s \in Txns : s # t => buf'[s] = buf[s]
    BY <1>16
  <2>. QED BY <2>1, <2>2, <1>19, <1>ow, OnewayCarried
<1>36. Notices(Dead, Todos', ReturnErrors, ReplyErrors, pc')
  <2>0. ReturnErrors[th] = "OK" /\ Todos[th] \in Seq(Work)
    BY <1>1, <1>ty, ThreadViews
  <2>1. ToSet(Todos'[th]) = ToSet(Todos[th]) \cup {Item("complete")}
    BY <2>0, <1>12, NoticeLast
  <2>2. ASSUME NEW u \in Threads PROVE NoticeOK(Dead, Todos', ReturnErrors, ReplyErrors, pc', u)
    <3>1. NoticeOK(Dead, Todos, ReturnErrors, ReplyErrors, pc, u)
      BY <1>no DEF Notices
    <3>2. CASE u = th
      BY <3>1, <3>2, <2>0, <2>1, <1>17, NoticeTypes DEF NoticeOK
    <3>3. CASE u # th
      BY <3>1, <3>3, <1>12, <1>17 DEF NoticeOK
    <3>. QED BY <3>2, <3>3
  <2>. QED BY <2>2 DEF Notices
<1>37. Flags(txn', Dead, Stacks, Todos', Flagged')
  <2>1. Todos'[th] # <<>>
    BY <1>12, <1>lt, NoticeLast
  <2>2. ASSUME NEW u \in Threads, u \notin Dead
        PROVE  \/ u \in Flagged' /\ Todos'[u] # <<>>
               \/ /\ u \notin Dead /\ Todos'[u] = Todos[u] /\ Stacks[u] = Stacks[u]
                  /\ u \in Flagged' <=> u \in Flagged
                  /\ Stacks[u] # NoTxn /\ txn[Stacks[u]].from = u => txn'[Stacks[u]].from = u
    <3>1. Stacks[u] \in 0 .. MaxTxns
      BY <1>kt
    <3>2. Stacks[u] # NoTxn /\ txn[Stacks[u]].from = u => txn'[Stacks[u]].from = u
      BY <3>1, <1>5, <1>15, TxnNumbers, NullAssumption
    <3>. QED BY <2>1, <2>2, <3>2, <1>12
  <2>. QED BY <2>2, <1>fl, FlagsKeep
<1>38. Inv(k2, a2, r)'
  BY <1>8, <1>9, <1>11, <1>13, <1>14, <1>18, <1>20, <1>21, <1>24, <1>25, <1>26, <1>27,
     <1>28, <1>29, <1>30, <1>31, <1>32, <1>33, <1>34, <1>35, <1>36, <1>37, Whole
<1>. QED BY <1>38

\* The one-way calls of the nodes when t, carried by th, is handed over: a
\* synchronous call is none of them, one that has to wait goes behind the
\* active one, and the first one is active now.
LEMMA ActiveOther ==
  ASSUME NEW B, NEW NQ, NEW PC, NEW LC, NEW PC2, NEW LC2, NEW t \in Txns, NEW NQ2,
         NEW th \in Threads, OnlyMoves(PC, LC, PC2, LC2, th), PC[th] = "send",
         PC2[th] # "send", LC[th].t = t, NEW p, NEW s \in Txns, s # t,
         s \in ToSet(NQ2[p]) <=> s \in ToSet(NQ[p])
  PROVE  s \in Active(B, NQ2, PC2, LC2, p) <=> s \in Active(B, NQ, PC, LC, p)
<1>1. (\A u \in Threads : PC2[u] = "send" => LC2[u].t # s) <=>
      (\A u \in Threads : PC[u] = "send" => LC[u].t # s)
  BY DEF OnlyMoves
<1>. QED BY <1>1 DEF Active

\* One-way calls when a synchronous one is queued.
LEMMA OnewaySync ==
  ASSUME NEW B, NEW PD, NEW NL, NEW NA, NEW NQ, NEW PC, NEW LC,
         Oneways(B, PD, NL, NA, NQ, PC, LC), NEW PC2, NEW LC2, NEW t \in Txns,
         NEW th \in Threads, OnlyMoves(PC, LC, PC2, LC2, th), PC[th] = "send",
         PC2[th] # "send", LC[th].t = t, ~B[t].async
  PROVE  Oneways(B, PD, NL, NA, NQ, PC2, LC2)
<1>1. ASSUME NEW p PROVE Active(B, NQ, PC2, LC2, p) = Active(B, NQ, PC, LC, p)
  <2>1. ASSUME NEW s \in Txns
        PROVE  s \in Active(B, NQ, PC2, LC2, p) <=> s \in Active(B, NQ, PC, LC, p)
    <3>1. CASE s = t
      BY <3>1 DEF Active
    <3>2. CASE s # t
      BY <3>2, ActiveOther
    <3>. QED BY <3>1, <3>2
  <2>. QED BY <2>1 DEF Active
<1>. QED BY <1>1 DEF Oneways, OnewayOK

\* A one-way call is queued behind the one under way.
LEMMA OnewayBehind ==
  ASSUME NEW B, NEW PD, NEW NL, NEW NA, NEW NQ, NEW PC, NEW LC,
         Oneways(B, PD, NL, NA, NQ, PC, LC), NEW PC2, NEW LC2, NEW t \in Txns,
         NEW th \in Threads, OnlyMoves(PC, LC, PC2, LC2, th), PC[th] = "send",
         PC2[th] # "send", LC[th].t = t, NL \subseteq Procs,
         NEW q \in NL, q \in NA, q \notin PD, B[t].node = q,
         NQ[q] \in Seq(Txns),
         NEW NQ2, NQ2[q] = Append(NQ[q], t), \A p \in Procs : p # q => NQ2[p] = NQ[p]
  PROVE  Oneways(B, PD, NL, NA, NQ2, PC2, LC2)
<1>1. ToSet(NQ2[q]) = ToSet(NQ[q]) \cup {t}
  BY SeqAppend
<1>2. ASSUME NEW p \in NL PROVE Active(B, NQ2, PC2, LC2, p) = Active(B, NQ, PC, LC, p)
  <2>1. ASSUME NEW s \in Txns
        PROVE  s \in Active(B, NQ2, PC2, LC2, p) <=> s \in Active(B, NQ, PC, LC, p)
    <3>1. CASE s = t
      BY <3>1, <1>1 DEF Active
    <3>2. CASE s # t
      <4>1. s \in ToSet(NQ2[p]) <=> s \in ToSet(NQ[p])
        BY <3>2, <1>1
      <4>. QED BY <3>2, <4>1, ActiveOther
    <3>. QED BY <3>1, <3>2
  <2>. QED BY <2>1 DEF Active
<1>3. ASSUME NEW p \in NL PROVE OnewayOK(B, PD, NA, NQ2, PC2, LC2, p)
  <2>1. OnewayOK(B, PD, NA, NQ, PC, LC, p)
    BY DEF Oneways
  <2>2. CASE p = q
    BY <2>1, <2>2, <1>2 DEF OnewayOK
  <2>3. CASE p # q
    <3>1. NQ2[p] = NQ[p]
      BY <2>3
    <3>. QED BY <3>1, <2>1, <1>2 DEF OnewayOK
  <2>. QED BY <2>2, <2>3
<1>. QED BY <1>3 DEF Oneways

\* A one-way call is queued and none is under way.
LEMMA OnewayFirst ==
  ASSUME NEW B, NEW PD, NEW NL, NEW NA, NEW NQ, NEW PC, NEW LC,
         Oneways(B, PD, NL, NA, NQ, PC, LC), NEW PC2, NEW LC2, NEW t \in Txns,
         NEW th \in Threads, OnlyMoves(PC, LC, PC2, LC2, th), PC[th] = "send",
         PC2[th] # "send", LC[th].t = t, NL \subseteq Procs,
         NEW q \in NL, q \notin NA, B[t].node = q, B[t].async, B[t].st # "none",
         \A u \in Threads : u # th /\ PC[u] = "send" => LC[u].t # t, t \notin ToSet(NQ[q]),
         NEW NA2, \A p \in NL : p \in NA2 <=> p \in NA \/ p = q
  PROVE  Oneways(B, PD, NL, NA2, NQ, PC2, LC2)
<1>1. ASSUME NEW p \in NL, NEW s \in Txns
      PROVE  s \in Active(B, NQ, PC2, LC2, p) <=>
               s \in Active(B, NQ, PC, LC, p) \/ (s = t /\ p = q)
  <2>1. CASE s = t
    <3>1. \A u \in Threads : PC2[u] = "send" => LC2[u].t # t
      BY DEF OnlyMoves
    <3>. QED BY <2>1, <3>1 DEF Active
  <2>2. CASE s # t
    BY <2>2, ActiveOther
  <2>. QED BY <2>1, <2>2
<1>2. \A p \in NL : OnewayOK(B, PD, NA, NQ, PC, LC, p)
  BY DEF Oneways
<1>3. ASSUME NEW p \in NL PROVE OnewayOK(B, PD, NA2, NQ, PC2, LC2, p)
  <2>1. CASE p = q
    <3>1. Active(B, NQ, PC, LC, q) = {}
      BY <1>2 DEF OnewayOK
    <3>2. \A s \in Txns : s \in Active(B, NQ, PC2, LC2, q) <=> s = t
      BY <3>1, <1>1
    <3>3. t \in Active(B, NQ, PC2, LC2, q) /\ \A s \in Active(B, NQ, PC2, LC2, q) : s = t
      BY <3>2 DEF Active
    <3>. QED BY <2>1, <3>3 DEF OnewayOK
  <2>2. CASE p # q
    <3>1. Active(B, NQ, PC2, LC2, p) = Active(B, NQ, PC, LC, p)
      BY <2>2, <1>1 DEF Active
    <3>. QED BY <2>2, <3>1, <1>2 DEF OnewayOK
  <2>. QED BY <2>1, <2>2
<1>. QED BY <1>3 DEF Oneways

\* What a thread has in binder_proc_transaction.
LEMMA SendFacts ==
  ASSUME NEW k, NEW a, NEW r, Inv(k, a, r), NEW th \in Threads, pc[th] = "send",
         NEW t, t = loc[th].t, NEW q, q = loc[th].target_proc, NEW w, w = loc[th].target_thread
  PROVE  /\ t \in Txns /\ k[t] = "carried" /\ a[t] = th /\ txn[t].kind \in {"sync", "oneway"}
         /\ (Sync(txn, t) => txn[t].from = th) /\ (~Sync(txn, t) => w = NoThread)
         /\ q = txn[t].to_proc /\ w = txn[t].to_thread /\ q \in Procs /\ q # ProcOf[th]
         /\ (w # NoThread => ProcOf[w] = q) /\ w \in Threads \cup {NoThread}
         /\ NoChild(txn, t) /\ Fresh(txn[t], buf[t])
         /\ \A s \in Txns : k[s] = "carried" => (s \in {t} <=> a[s] = th)
         /\ th \notin Dead /\ th \notin Waiting /\ ~loc[th].wait_for_proc_work
         /\ sfr[th] = NoTxn /\ ProcSts[ProcOf[th]] = "open" /\ ProcOf[th] \in Procs
<1>ty. Typed /\ bug = FALSE
  BY Parts
<1>ca. Carried(txn, Dead, pc, loc, k, a)
  BY Parts
<1>tr. Tree(txn, Dead, k, a, r)
  BY Parts
<1>ct. pc \in [Threads -> PCs] /\ loc \in [Threads -> Loc]
  BY Parts
<1>bu. Buffers(txn, buf, loc, k, a)
  BY Parts
<1>1. CarryOK(txn, Dead, pc, loc, k, a, th)
  BY <1>ca DEF Carried
<1>2. SendCarry(txn, loc[th], th, k, a)
  BY <1>1 DEF CarryOK
<1>3. /\ t \in Txns /\ k[t] = "carried" /\ a[t] = th /\ txn[t].kind \in {"sync", "oneway"}
      /\ (Sync(txn, t) => txn[t].from = th) /\ (~Sync(txn, t) => w = NoThread)
      /\ q = txn[t].to_proc /\ w = txn[t].to_thread /\ q # ProcOf[th]
      /\ loc[th].in_reply_to = NoTxn
  BY <1>2 DEF SendCarry
<1>4. q \in Procs /\ (w # NoThread => ProcOf[w] = q)
  BY <1>1 DEF CarryOK, Holds, Holding
<1>5. NoChild(txn, t)
  BY <1>3, <1>tr, LeafNoChild
<1>6. Fresh(txn[t], buf[t])
  BY <1>3, <1>bu DEF Buffers, BufferOK
<1>7. ASSUME NEW s \in Txns, k[s] = "carried" PROVE s \in {t} <=> a[s] = th
  <2>1. CarrierOK(pc, loc, k, a, s)
    BY <1>ca DEF Carried
  <2>. QED BY <2>1, <1>3, <1>7, TxnNumbers DEF CarrierOK
<1>8. /\ th \notin Dead /\ th \notin Waiting /\ ~loc[th].wait_for_proc_work
      /\ sfr[th] = NoTxn /\ proc[ProcOf[th]].st = "open" /\ ProcOf[th] \in Procs
  <2>1. /\ ~thr[th].is_dead /\ ~thr[th].waiting /\ ~loc[th].wait_for_proc_work
        /\ sfr[th] = NoTxn /\ proc[ProcOf[th]].st = "open" /\ ProcOf[th] \in Procs
    BY ThreadFacts
  <2>. QED BY <2>1, <1>ty, ThreadViews
<1>9. ProcSts[ProcOf[th]] = "open"
  BY <1>8, <1>ty, ProcViews
<1>10. w \in Threads \cup {NoThread}
  BY <1>ct DEF Loc
<1>. QED BY <1>3, <1>4, <1>5, <1>6, <1>7, <1>8, <1>9, <1>10

\* The parts of the invariant that do not mind on which list a call is put.
Puts(th) == pc' = [pc EXCEPT ![th] = "put"]
\* The parts that are the same wherever binder_proc_transaction queues a call.
LEMMA SendParts ==
  ASSUME NEW k, NEW a, NEW r, Inv(k, a, r), NEW th \in Threads, pc[th] = "send",
         NEW t, t = loc[th].t, Puts(th),
         NEW k2, NEW a2, SameBut(k, a, k2, a2, t), k2[t] \in {"thread", "proc", "async"},
         k2[t] = "async" => txn[t].kind = "oneway",
         k2[t] = "thread" => a2[t] \in Threads /\ ProcOf[a2[t]] = txn[t].to_proc,
         k2[t] \in {"proc", "async"} => a2[t] = txn[t].to_proc
  PROVE  /\ Carried(txn, Dead, pc', loc, k2, a2) /\ Failing(sfr, k2, a2)
         /\ Placed(txn, Dead, k2, a2) /\ Tree(txn, Dead, k2, a2, r)
         /\ AllStacks(txn, Dead, Stacks, k2, a2, r) /\ Buffers(txn, buf, loc, k2, a2)
         /\ Drops(txn, buf, pc', loc, sfr) /\ ThreadCounts(ThreadRefs, pc', loc)
         /\ ProcCounts(Dead, ThreadRefs, ProcSts, ProcRefs, pc', loc)
<1>ty. Typed /\ bug = FALSE
  BY Parts
<1>kt. Stacks \in [Threads -> 0 .. MaxTxns]
  BY Parts
<1>xt. txn \in [Txns -> Txn]
  BY Parts
<1>ct. pc \in [Threads -> PCs] /\ loc \in [Threads -> Loc]
  BY Parts
<1>ft. sfr \in [Threads \cup Procs -> 0 .. MaxTxns]
  BY Parts
<1>ca. Carried(txn, Dead, pc, loc, k, a)
  BY Parts
<1>fa. Failing(sfr, k, a)
  BY Parts
<1>po. Placed(txn, Dead, k, a)
  BY Parts
<1>tr. Tree(txn, Dead, k, a, r)
  BY Parts
<1>st. AllStacks(txn, Dead, Stacks, k, a, r)
  BY Parts
<1>bu. Buffers(txn, buf, loc, k, a)
  BY Parts
<1>dr. Drops(txn, buf, pc, loc, sfr)
  BY Parts
<1>tc. ThreadCounts(ThreadRefs, pc, loc)
  BY Parts
<1>pc. ProcCounts(Dead, ThreadRefs, ProcSts, ProcRefs, pc, loc)
  BY Parts
<1>1. /\ t \in Txns /\ k[t] = "carried" /\ a[t] = th /\ txn[t].kind \in {"sync", "oneway"}
      /\ NoChild(txn, t) /\ Fresh(txn[t], buf[t]) /\ txn[t].to_proc \in Procs
      /\ \A s \in Txns : k[s] = "carried" => (s \in {t} <=> a[s] = th)
  <2>1. /\ t \in Txns /\ k[t] = "carried" /\ a[t] = th /\ txn[t].kind \in {"sync", "oneway"}
        /\ NoChild(txn, t) /\ Fresh(txn[t], buf[t])
        /\ loc[th].target_proc = txn[t].to_proc /\ loc[th].target_proc \in Procs
        /\ \A s \in Txns : k[s] = "carried" => (s \in {t} <=> a[s] = th)
    BY SendFacts
  <2>. QED BY <2>1
<1>2. /\ pc' \in [Threads -> PCs] /\ pc'[th] = "put"
      /\ \A u \in Threads : u # th => pc'[u] = pc[u]
  BY <1>ct DEF PCs, Puts
<1>3. Stay(txn, txn, k, a, k2, a2, {t}) /\ OnlyMoves(pc, loc, pc', loc, th)
  BY <1>2 DEF Stay, SameTxn, OnlyMoves, SameBut
<1>4. Carried(txn, Dead, pc', loc, k2, a2)
  <2>1. \A s \in Txns : s \in {t} => CarrierOK(pc', loc, k2, a2, s)
    BY DEF CarrierOK
  <2>2. CarryOK(txn, Dead, pc', loc, k2, a2, th)
    <3>1. CarryOK(txn, Dead, pc, loc, k, a, th)
      BY <1>ca DEF Carried
    <3>. QED BY <3>1, <1>2 DEF CarryOK, Holds, Holding
  <2>3. /\ Stay(txn, txn, k, a, k2, a2, {t}) /\ OnlyMoves(pc, loc, pc', loc, th)
        /\ \A s \in Txns : k[s] = "carried" => (s \in {t} <=> a[s] = th)
        /\ th \in Threads => CarryOK(txn, Dead, pc', loc, k2, a2, th)
    BY <1>1, <1>3, <2>2
  <2>. QED BY <2>1, <2>3, <1>ca, CarriedStep
<1>5. Failing(sfr, k2, a2)
  BY <1>1, <1>fa, <1>ft, FailKeep
<1>6. Placed(txn, Dead, k2, a2)
  <2>1. PlaceOK(txn, Dead, k2, a2, t)
    BY <1>1 DEF PlaceOK
  <2>2. \A s \in Txns : s \in {t} => PlaceOK(txn, Dead, k2, a2, s)
    BY <2>1
  <2>. QED BY <2>2, <1>3, <1>po, PlacedStep
<1>7. Tree(txn, Dead, k2, a2, r)
  <2>1. Keeps(txn, k, a, k2, a2)
    BY <1>1, <1>xt, KeepsMove DEF SameBut
  <2>. QED BY <2>1, <1>xt, <1>tr, TreeKeep
<1>8. AllStacks(txn, Dead, Stacks, k2, a2, r)
  <2>1. ASSUME NEW u \in Threads PROVE Alike(txn, txn, k, a, k2, a2, u, t)
    BY <1>1 DEF Alike, Mine
  <2>2. \A s \in Txns : s \in {t} /\ s # t => \A u \in Threads : Alike(txn, txn, k, a, k2, a2, u, s)
    OBVIOUS
  <2>3. \A u \in Threads : u \notin Dead =>
          \/ Alike(txn, txn, k, a, k2, a2, u, t) /\ Stacks[u] = Stacks[u]
          \/ /\ ~Mine(txn, k2, a2, u, t)
             /\ Stacks[u] = IF Stacks[u] = t THEN Below(txn, u, t) ELSE Stacks[u]
    BY <2>1
  <2>. QED BY <2>2, <2>3, <1>1, <1>3, <1>xt, <1>kt, <1>tr, <1>st, StacksEnd
<1>9. Buffers(txn, buf, loc, k2, a2)
  <2>1. BufOK(txn[t], buf[t])
    BY <1>1, <1>bu DEF Buffers, BufferOK
  <2>2. \A s \in Txns : s \in {t} => BufferOK(txn, buf, loc, k2, a2, s)
    BY <2>1, <1>1 DEF BufferOK
  <2>. QED BY <2>2, <1>1, <1>3, <1>bu, <1>ca, BuffersStep
<1>10. Drops(txn, buf, pc', loc, sfr)
  BY <1>2, <1>3, <1>dr, MoveDrops
<1>11. /\ \A u \in Threads : SameHolds(pc, loc, pc', loc, u)
       /\ \A u \in Threads : pc'[u] = "release" <=> pc[u] = "release"
  <2>1. \A u \in Threads : Holding(pc', u) <=> Holding(pc, u)
    BY <1>2 DEF Holding
  <2>2. \A u \in Threads : pc'[u] = "release" <=> pc[u] = "release"
    BY <1>2
  <2>. QED BY <2>1, <2>2 DEF SameHolds
<1>12. ThreadCounts(ThreadRefs, pc', loc)
  BY <1>11, <1>tc, CountsKeep
<1>13. ProcCounts(Dead, ThreadRefs, ProcSts, ProcRefs, pc', loc)
  BY <1>11, <1>pc, CountsKeep
<1>. QED BY <1>4, <1>5, <1>6, <1>7, <1>8, <1>9, <1>10, <1>12, <1>13

\* A process's todo list, and a node's one-way calls.
SetTodo(q, s) == proc' = [proc EXCEPT ![q].todo = s]
SetAsync(q, b, s) ==
  node' = [node EXCEPT ![q].has_async_transaction = b, ![q].async_todo = s]

\* A process gets another list.
LEMMA SetTodoOf ==
  ASSUME Typed, NEW q \in Procs, NEW s \in Seq(Txns), SetTodo(q, s)
  PROVE  /\ proc' \in [Procs -> Prc] /\ UNCHANGED <<ProcSts, DeadProcs, ProcRefs>>
         /\ ProcTodos'[q] = s /\ \A p \in Procs : p # q => ProcTodos'[p] = ProcTodos[p]
<1>1. proc[q] \in Prc /\ proc \in [Procs -> Prc]
  BY DEF Typed
<1>. DEFINE x == [proc[q] EXCEPT !.todo = s]
<1>2. /\ x \in Prc /\ x.st = proc[q].st /\ x.todo = s
      /\ x.is_dead = proc[q].is_dead /\ x.tmp_ref = proc[q].tmp_ref
  BY <1>1 DEF Prc
<1>3. proc' = [proc EXCEPT ![q] = x]
  BY <1>1 DEF SetTodo, Prc
<1>. HIDE DEF x
<1>4. /\ proc' \in [Procs -> Prc] /\ proc'[q] = x
      /\ \A p \in Procs : p # q => proc'[p] = proc[p]
  BY <1>1, <1>2, <1>3
<1>5. \A p \in Procs : /\ proc'[p].st = proc[p].st /\ proc'[p].is_dead = proc[p].is_dead
                       /\ proc'[p].tmp_ref = proc[p].tmp_ref
  BY <1>2, <1>4
<1>6. UNCHANGED <<ProcSts, DeadProcs, ProcRefs>>
  BY <1>5, SameProcs
<1>7. ProcTodos'[q] = s /\ \A p \in Procs : p # q => ProcTodos'[p] = ProcTodos[p]
  BY <1>2, <1>4 DEF ProcTodos
<1>. QED BY <1>4, <1>6, <1>7

\* A node gets another async_todo list.
LEMMA SetAsyncOf ==
  ASSUME Typed, NEW q \in Procs, NEW b \in BOOLEAN, NEW s \in Seq(Txns), SetAsync(q, b, s)
  PROVE  /\ node' \in [Procs -> Nde] /\ LiveNodes' = LiveNodes
         /\ AsyncTodos'[q] = s /\ \A p \in Procs : p # q => AsyncTodos'[p] = AsyncTodos[p]
         /\ q \in AsyncNodes' <=> b
         /\ \A p \in Procs : p # q => (p \in AsyncNodes' <=> p \in AsyncNodes)
<1>1. node[q] \in Nde /\ node \in [Procs -> Nde]
  BY DEF Typed
<1>. DEFINE x == [node[q] EXCEPT !.has_async_transaction = b, !.async_todo = s]
<1>2. x \in Nde /\ x.live = node[q].live /\ x.has_async_transaction = b /\ x.async_todo = s
  BY <1>1 DEF Nde
<1>3. node' = [node EXCEPT ![q] = x]
  BY <1>1 DEF SetAsync, Nde
<1>. HIDE DEF x
<1>4. /\ node' \in [Procs -> Nde] /\ node'[q] = x
      /\ \A p \in Procs : p # q => node'[p] = node[p]
  BY <1>1, <1>2, <1>3
<1>5. \A p \in Procs : node'[p].live = node[p].live
  BY <1>2, <1>4
<1>6. LiveNodes' = LiveNodes
  BY <1>5, SameNodes
<1>7. AsyncTodos'[q] = s /\ \A p \in Procs : p # q => AsyncTodos'[p] = AsyncTodos[p]
  BY <1>2, <1>4 DEF AsyncTodos
<1>8. /\ q \in AsyncNodes' <=> b
      /\ \A p \in Procs : p # q => (p \in AsyncNodes' <=> p \in AsyncNodes)
  BY <1>2, <1>4 DEF AsyncNodes
<1>. QED BY <1>4, <1>6, <1>7, <1>8

\* A transaction given to a thread, which stops to wait.
HandOff(T, s, x) == EnqueueThreadWork([T EXCEPT ![s].waiting = FALSE], s, x)
\* binder_proc_transaction queues work to a thread and wakes it.
LEMMA HandOffOf ==
  ASSUME NEW T \in [Threads -> Thr], NEW s \in Threads, NEW x \in Work
  PROVE  /\ HandOff(T, s, x) \in [Threads -> Thr]
         /\ \A u \in Threads : u # s => HandOff(T, s, x)[u] = T[u]
         /\ HandOff(T, s, x)[s].stack = T[s].stack
         /\ HandOff(T, s, x)[s].todo = Append(T[s].todo, x)
         /\ HandOff(T, s, x)[s].process_todo
         /\ HandOff(T, s, x)[s].return_error = T[s].return_error
         /\ HandOff(T, s, x)[s].reply_error = T[s].reply_error
         /\ HandOff(T, s, x)[s].waiting = FALSE
         /\ HandOff(T, s, x)[s].is_dead = T[s].is_dead
         /\ HandOff(T, s, x)[s].tmp_ref = T[s].tmp_ref
<1>. DEFINE T1 == [T EXCEPT ![s].waiting = FALSE]
<1>1. T1 \in [Threads -> Thr] /\ OnlyWaiting(T, T1) /\ T1[s].waiting = FALSE
  BY SetWaiting
<1>2. \A u \in Threads : u # s => T1[u] = T[u]
  OBVIOUS
<1>3. HandOff(T, s, x) = EnqueueThreadWork(T1, s, x)
  BY DEF HandOff
<1>. HIDE DEF T1
<1>4. /\ T1[s].stack = T[s].stack /\ T1[s].todo = T[s].todo
      /\ T1[s].return_error = T[s].return_error /\ T1[s].reply_error = T[s].reply_error
      /\ T1[s].is_dead = T[s].is_dead /\ T1[s].tmp_ref = T[s].tmp_ref
  BY <1>1 DEF OnlyWaiting
<1>. DEFINE T2 == EnqueueThreadWork(T1, s, x)
<1>5. /\ T2 \in [Threads -> Thr] /\ \A u \in Threads : u # s => T2[u] = T1[u]
      /\ T2[s].stack = T1[s].stack /\ T2[s].todo = Append(T1[s].todo, x)
      /\ T2[s].process_todo /\ T2[s].return_error = T1[s].return_error
      /\ T2[s].reply_error = T1[s].reply_error
      /\ T2[s].waiting = T1[s].waiting /\ T2[s].is_dead = T1[s].is_dead
      /\ T2[s].tmp_ref = T1[s].tmp_ref
    BY <1>1, EnqueueOf
<1>6. HandOff(T, s, x) = T2
  BY <1>3
<1>. HIDE DEF T2
<1>. QED BY <1>1, <1>2, <1>4, <1>5, <1>6

\* binder_proc_transaction finds its target alive.
LEMMA SendTarget ==
  ASSUME NEW k, NEW a, NEW r, Inv(k, a, r), NEW th \in Threads, pc[th] = "send",
         ~TargetDead(th), NEW t, t = loc[th].t, NEW q, q = loc[th].target_proc,
         NEW w, w = loc[th].target_thread
  PROVE  /\ q \notin DeadProcs /\ ProcSts[q] = "open" /\ q \in LiveNodes
         /\ w # NoThread => /\ w \in Threads /\ w \notin Dead /\ Sync(txn, t)
                            /\ Back(txn, Stacks, r, w, t)
                            /\ ~thr[w].waiting
<1>ty. Typed /\ bug = FALSE
  BY Parts
<1>di. Directed(txn, Dead, Stacks, Todos, pc, loc, k, a, r)
  BY Parts
<1>ps. ProcStates(ProcSts, DeadProcs, ProcTodos, ProcRefs, LiveNodes, AsyncTodos, pc, sfr)
  BY Parts
<1>1. /\ t \in Txns /\ (~Sync(txn, t) => w = NoThread) /\ q \in Procs
      /\ w \in Threads \cup {NoThread}
  BY SendFacts
<1>2. q \notin DeadProcs
  BY <1>1, <1>ty, ProcViews DEF TargetDead
<1>3. ProcOK(ProcSts, DeadProcs, ProcTodos, ProcRefs, LiveNodes, AsyncTodos, pc, sfr, q)
  BY <1>1, <1>ps DEF ProcStates
<1>4. ProcSts[q] = "open" /\ q \in LiveNodes
  BY <1>2, <1>3 DEF ProcOK
<1>5. ASSUME w # NoThread
      PROVE  /\ w \in Threads /\ w \notin Dead /\ Sync(txn, t)
             /\ Back(txn, Stacks, r, w, t) /\ ~thr[w].waiting
  <2>1. w \in Threads /\ Sync(txn, t)
    BY <1>1, <1>5
  <2>2. ~thr[w].is_dead
    BY <1>5 DEF TargetDead
  <2>3. w \notin Dead
    BY <2>1, <2>2, <1>ty, ThreadViews
  <2>4. SentOK(txn, Dead, Stacks, loc, r, th)
    BY <1>di DEF Directed
  <2>5. Back(txn, Stacks, r, w, t)
    BY <2>1, <2>3, <2>4, <1>5 DEF SentOK
  <2>6. Stacks[w] # NoTxn /\ Stacks[w] = thr[w].stack
    BY <2>1, <2>5, <1>ty, ThreadViews DEF Back
  <2>7. ~thr[w].waiting
    BY <2>1, <2>6, ThreadFacts
  <2>. QED BY <2>1, <2>3, <2>5, <2>7
<1>. QED BY <1>2, <1>4, <1>5

\* A one-way call that has to wait for the one before it.
LEMMA SendBehindStep ==
  ASSUME NEW k, NEW a, NEW r, Inv(k, a, r), NEW th \in Threads, Send(th),
         PendingAsync(loc[th].t)
  PROVE  \E k2, a2 : Inv(k2, a2, r)'
<1>gh. Ghosts(k, a, r)
  BY Parts
<1>ty. Typed /\ bug = FALSE
  BY Parts
<1>kt. Stacks \in [Threads -> 0 .. MaxTxns]
  BY Parts
<1>lt. Todos \in [Threads -> Seq(Work)]
  BY Parts
<1>qt. ProcTodos \in [Procs -> Seq(Txns)] /\ AsyncTodos \in [Procs -> Seq(Txns)]
  BY Parts
<1>xt. txn \in [Txns -> Txn]
  BY Parts
<1>rt. proc \in [Procs -> Prc]
  BY Parts
<1>nt. node \in [Procs -> Nde]
  BY Parts
<1>ct. pc \in [Threads -> PCs] /\ loc \in [Threads -> Loc]
  BY Parts
<1>nm. Names(txn)
  BY Parts
<1>tl. ThreadLists(Todos, k, a)
  BY Parts
<1>pl. TxnLists(ProcTodos, "proc", k, a)
  BY Parts
<1>al. TxnLists(AsyncTodos, "async", k, a)
  BY Parts
<1>ca. Carried(txn, Dead, pc, loc, k, a)
  BY Parts
<1>po. Placed(txn, Dead, k, a)
  BY Parts
<1>tr. Tree(txn, Dead, k, a, r)
  BY Parts
<1>di. Directed(txn, Dead, Stacks, Todos, pc, loc, k, a, r)
  BY Parts
<1>ts. ThreadStates(Dead, Stacks, Todos, Waiting, pc, loc, sfr)
  BY Parts
<1>ps. ProcStates(ProcSts, DeadProcs, ProcTodos, ProcRefs, LiveNodes, AsyncTodos, pc, sfr)
  BY Parts
<1>ow. Oneways(buf, DeadProcs, LiveNodes, AsyncNodes, AsyncTodos, pc, loc)
  BY Parts
<1>no. Notices(Dead, Todos, ReturnErrors, ReplyErrors, pc)
  BY Parts
<1>fl. Flags(txn, Dead, Stacks, Todos, Flagged)
  BY Parts
<1>1. pc[th] = "send" /\ ~TargetDead(th)
  BY DEF Send
<1>2. PICK t, q, w : t = loc[th].t /\ q = loc[th].target_proc /\ w = loc[th].target_thread
  OBVIOUS
<1>3. /\ t \in Txns /\ k[t] = "carried" /\ a[t] = th /\ q = txn[t].to_proc /\ q \in Procs
      /\ NoChild(txn, t) /\ Fresh(txn[t], buf[t])
      /\ \A s \in Txns : k[s] = "carried" => (s \in {t} <=> a[s] = th)
  BY <1>1, <1>2, SendFacts
<1>4. q \notin DeadProcs /\ q \in LiveNodes
  BY <1>1, <1>2, SendTarget
<1>5. txn[t].kind = "oneway" /\ ~Sync(txn, t) /\ buf[t].node = q /\ q \in AsyncNodes
  <2>1. txn[t].kind = "oneway" /\ node[buf[t].node].has_async_transaction
    BY <1>2 DEF PendingAsync
  <2>2. buf[t].node = q
    BY <2>1, <1>3 DEF Fresh
  <2>. QED BY <2>1, <2>2, <1>3, <1>ty, NodeViews DEF Sync
<1>. DEFINE k2 == [s \in Txns |-> IF s = t THEN "async" ELSE k[s]]
            a2 == [s \in Txns |-> IF s = t THEN q ELSE a[s]]
<1>6. k2[t] = "async" /\ a2[t] = q /\ SameBut(k, a, k2, a2, t)
  BY <1>3 DEF SameBut
<1>7. Ghosts(k2, a2, r)
  BY <1>gh, <1>3 DEF Ghosts, Kinds
<1>. HIDE DEF k2, a2
<1>8. /\ Puts(th) /\ SetAsync(q, TRUE, Append(AsyncTodos[q], t))
      /\ UNCHANGED <<txn, buf, thr, loc, sfr>> /\ bug' = FALSE
  <2>1. AsyncTodos[q] = node[q].async_todo /\ node[q] \in Nde
    BY <1>3, <1>ty, NodeViews
  <2>2. /\ pc' = [pc EXCEPT ![th] = "put"] /\ UNCHANGED <<txn, buf, thr, loc, sfr>> /\ bug' = FALSE
        /\ node' = [node EXCEPT ![q].has_async_transaction = @ \/ txn[t].kind = "oneway",
                                ![q].async_todo = Append(@, t)]
    BY <1>2, <1>ty DEF Send
  <2>3. node' = [node EXCEPT ![q].has_async_transaction = TRUE,
                             ![q].async_todo = Append(node[q].async_todo, t)]
    BY <2>2, <1>5
  <2>. QED BY <2>1, <2>2, <2>3 DEF Puts, SetAsync
<1>9. proc' = proc
  <2>1. proc' = [proc EXCEPT ![q].todo = @]
    BY <1>2 DEF Send
  <2>. QED BY <2>1, <1>3, <1>rt DEF Prc
<1>10. AsyncTodos[q] \in Seq(Txns) /\ Append(AsyncTodos[q], t) \in Seq(Txns)
  BY <1>3, <1>ty, NodeViews
<1>11. /\ node' \in [Procs -> Nde] /\ LiveNodes' = LiveNodes
       /\ AsyncTodos'[q] = Append(AsyncTodos[q], t)
       /\ \A p \in Procs : p # q => AsyncTodos'[p] = AsyncTodos[p]
       /\ q \in AsyncNodes' /\ \A p \in Procs : p # q => (p \in AsyncNodes' <=> p \in AsyncNodes)
  <2>1. SetAsync(q, TRUE, Append(AsyncTodos[q], t)) /\ TRUE \in BOOLEAN
    BY <1>8
  <2>. QED BY <2>1, <1>3, <1>10, <1>ty, SetAsyncOf
<1>12. AsyncNodes' = AsyncNodes
  BY <1>5, <1>11 DEF AsyncNodes
<1>13. /\ pc' \in [Threads -> PCs] /\ pc'[th] = "put"
       /\ \A u \in Threads : u # th => pc'[u] = pc[u]
  BY <1>8, <1>ct DEF PCs, Puts
<1>14. OnlyMoves(pc, loc, pc', loc, th) /\ Stay(txn, txn, k, a, k2, a2, {t})
  BY <1>6, <1>13 DEF OnlyMoves, Stay, SameTxn, SameBut
<1>15. UNCHANGED <<Stacks, Todos, Flagged, ReturnErrors, ReplyErrors, Waiting, Dead,
                   ThreadRefs, ProcSts, ProcTodos, DeadProcs, ProcRefs>>
  BY <1>8, <1>9, SameAll
<1>16. Typed'
  BY <1>8, <1>9, <1>11, <1>13, <1>ty DEF Typed
<1>17. /\ k2[t] \in {"thread", "proc", "async"} /\ (k2[t] = "async" => txn[t].kind = "oneway")
       /\ (k2[t] = "thread" => a2[t] \in Threads /\ ProcOf[a2[t]] = txn[t].to_proc)
       /\ (k2[t] \in {"proc", "async"} => a2[t] = txn[t].to_proc)
  BY <1>3, <1>5, <1>6
<1>18. /\ Carried(txn, Dead, pc', loc, k2, a2) /\ Failing(sfr, k2, a2)
       /\ Placed(txn, Dead, k2, a2) /\ Tree(txn, Dead, k2, a2, r)
       /\ AllStacks(txn, Dead, Stacks, k2, a2, r) /\ Buffers(txn, buf, loc, k2, a2)
       /\ Drops(txn, buf, pc', loc, sfr) /\ ThreadCounts(ThreadRefs, pc', loc)
       /\ ProcCounts(Dead, ThreadRefs, ProcSts, ProcRefs, pc', loc)
  BY <1>1, <1>2, <1>6, <1>8, <1>17, SendParts
<1>19. ThreadLists(Todos, k2, a2) /\ TxnLists(ProcTodos, "proc", k2, a2)
  <2>1. ThreadLists(Todos, k2, a2)
    BY <1>3, <1>6, <1>tl, ThreadListsKeep
  <2>2. TxnLists(ProcTodos, "proc", k2, a2)
    BY <1>3, <1>6, <1>pl, TxnListsKeep
  <2>. QED BY <2>1, <2>2
<1>20. TxnLists(AsyncTodos', "async", k2, a2)
  <2>1. ASSUME NEW p \in Procs PROVE TxnListOK(AsyncTodos'[p], "async", k2, a2, p)
    <3>1. TxnListOK(AsyncTodos[p], "async", k, a, p)
      BY <1>al DEF TxnLists
    <3>2. CASE p = q
      BY <3>1, <3>2, <1>3, <1>6, <1>10, <1>11, TxnListAdd
    <3>3. CASE p # q
      <4>1. ~(k[t] = "async" /\ a[t] = p) /\ ~(k2[t] = "async" /\ a2[t] = p)
        BY <3>3, <1>3, <1>6
      <4>. QED BY <4>1, <3>1, <3>3, <1>6, <1>11, TxnListKeep
    <3>. QED BY <3>2, <3>3
  <2>. QED BY <2>1 DEF TxnLists
<1>21. Directed(txn, Dead, Stacks, Todos, pc', loc, k2, a2, r)
  <2>1. Directed(txn, Dead, Stacks, Todos, pc', loc, k, a, r)
    BY <1>13, <1>14, <1>di, MoveDirected
  <2>2. \A s \in Txns : k2[s] = "thread" => k[s] = "thread" /\ a2[s] = a[s]
    BY <1>6 DEF SameBut
  <2>. QED BY <2>1, <2>2, DirectedMove
<1>22. ThreadStates(Dead, Stacks, Todos, Waiting, pc', loc, sfr)
  <2>1. ASSUME NEW u \in Threads PROVE ThreadOK(Dead, Stacks, Todos, Waiting, pc', loc, sfr, u)
    <3>1. ThreadOK(Dead, Stacks, Todos, Waiting, pc, loc, sfr, u)
      BY <1>ts DEF ThreadStates
    <3>2. CASE u = th
      BY <3>1, <3>2, <1>1, <1>13 DEF ThreadOK
    <3>3. CASE u # th
      BY <3>1, <3>3, <1>13 DEF ThreadOK
    <3>. QED BY <3>2, <3>3
  <2>. QED BY <2>1 DEF ThreadStates
<1>23. ProcStates(ProcSts, DeadProcs, ProcTodos, ProcRefs, LiveNodes, AsyncTodos', pc', sfr)
  <2>1. ProcSts[ProcOf[th]] = "open"
    BY <1>1, <1>2, SendFacts
  <2>2. \A u \in Threads :
          \/ ProcSts[ProcOf[u]] = "open"
          \/ pc'[u] = pc[u] /\ (sfr[u] = sfr[u] \/ pc[u] # "user")
    BY <2>1, <1>13
  <2>3. \A p \in Procs : p \notin LiveNodes => AsyncTodos'[p] = AsyncTodos[p]
    BY <1>4, <1>11
  <2>. QED BY <2>2, <2>3, <1>ps, ProcStatesKeep
<1>24. Oneways(buf, DeadProcs, LiveNodes, AsyncNodes, AsyncTodos', pc', loc)
  <2>1. /\ t \in Txns /\ pc'[th] # "send" /\ loc[th].t = t /\ LiveNodes \subseteq Procs
        /\ buf[t].node = q /\ AsyncTodos[q] \in Seq(Txns)
        /\ AsyncTodos'[q] = Append(AsyncTodos[q], t)
        /\ \A p \in Procs : p # q => AsyncTodos'[p] = AsyncTodos[p]
    BY <1>2, <1>3, <1>5, <1>10, <1>11, <1>13 DEF LiveNodes
  <2>. QED BY <2>1, <1>1, <1>4, <1>5, <1>14, <1>ow, OnewayBehind
<1>25. Notices(Dead, Todos, ReturnErrors, ReplyErrors, pc')
  BY <1>13, <1>14, <1>no, MoveNotices
<1>26. Inv(k2, a2, r)'
  BY <1>7, <1>8, <1>9, <1>11, <1>12, <1>15, <1>16, <1>18, <1>19, <1>20, <1>21, <1>22, <1>23,
     <1>24, <1>25, <1>nm, <1>fl, Whole
<1>. QED BY <1>26

\* The node when a call need not wait.
LEMMA SendNode ==
  ASSUME NEW k, NEW a, NEW r, Inv(k, a, r), NEW th \in Threads, Send(th),
         ~PendingAsync(loc[th].t)
  PROVE  /\ node' \in [Procs -> Nde] /\ LiveNodes' = LiveNodes /\ AsyncTodos' = AsyncTodos
         /\ Oneways(buf, DeadProcs, LiveNodes, AsyncNodes', AsyncTodos, pc', loc)
<1>ty. Typed /\ bug = FALSE
  BY Parts
<1>ca. Carried(txn, Dead, pc, loc, k, a)
  BY Parts
<1>al. TxnLists(AsyncTodos, "async", k, a)
  BY Parts
<1>ow. Oneways(buf, DeadProcs, LiveNodes, AsyncNodes, AsyncTodos, pc, loc)
  BY Parts
<1>ct. pc \in [Threads -> PCs] /\ loc \in [Threads -> Loc]
  BY Parts
<1>1. pc[th] = "send" /\ ~TargetDead(th) /\ Puts(th)
  BY DEF Send, Puts
<1>2. PICK t, q, w : t = loc[th].t /\ q = loc[th].target_proc /\ w = loc[th].target_thread
  OBVIOUS
<1>3. /\ t \in Txns /\ k[t] = "carried" /\ a[t] = th /\ q = txn[t].to_proc /\ q \in Procs
      /\ Fresh(txn[t], buf[t]) /\ txn[t].kind \in {"sync", "oneway"}
      /\ \A s \in Txns : k[s] = "carried" => (s \in {t} <=> a[s] = th)
  BY <1>1, <1>2, SendFacts
<1>4. q \notin DeadProcs /\ q \in LiveNodes
  BY <1>1, <1>2, SendTarget
<1>5. /\ buf[t].node = q /\ buf[t].st # "none" /\ (buf[t].async <=> txn[t].kind = "oneway")
  BY <1>3 DEF Fresh
<1>6. txn[t].kind = "oneway" => q \notin AsyncNodes
  BY <1>2, <1>3, <1>5, <1>ty, NodeViews DEF PendingAsync
<1>7. PICK b \in BOOLEAN : b <=> q \in AsyncNodes \/ txn[t].kind = "oneway"
  OBVIOUS
<1>8. SetAsync(q, b, AsyncTodos[q]) /\ AsyncTodos[q] \in Seq(Txns)
  <2>1. /\ AsyncTodos[q] = node[q].async_todo /\ node[q] \in Nde
        /\ (q \in AsyncNodes <=> node[q].has_async_transaction) /\ AsyncTodos[q] \in Seq(Txns)
    BY <1>3, <1>ty, NodeViews
  <2>2. node' = [node EXCEPT ![q].has_async_transaction = @ \/ txn[t].kind = "oneway",
                             ![q].async_todo = @]
    BY <1>2 DEF Send
  <2>3. (node[q].has_async_transaction \/ txn[t].kind = "oneway") = b
    BY <2>1, <1>7, Zenon
  <2>4. node' = [node EXCEPT ![q].has_async_transaction = b, ![q].async_todo = node[q].async_todo]
    BY <2>2, <2>3
  <2>. QED BY <2>1, <2>4 DEF SetAsync
<1>9. /\ node' \in [Procs -> Nde] /\ LiveNodes' = LiveNodes
      /\ \A p \in Procs : AsyncTodos'[p] = AsyncTodos[p]
      /\ (q \in AsyncNodes' <=> b)
      /\ \A p \in Procs : p # q => (p \in AsyncNodes' <=> p \in AsyncNodes)
  BY <1>3, <1>8, <1>ty, SetAsyncOf
<1>10. AsyncTodos' = AsyncTodos
  BY <1>9 DEF AsyncTodos
<1>11. /\ pc'[th] # "send" /\ OnlyMoves(pc, loc, pc', loc, th) /\ LiveNodes \subseteq Procs
       /\ loc[th].t = t
  BY <1>1, <1>2, <1>ct DEF Puts, OnlyMoves, LiveNodes
<1>12. CASE txn[t].kind = "oneway"
  <2>1. q \notin AsyncNodes /\ buf[t].async
    BY <1>12, <1>5, <1>6
  <2>2. \A p \in LiveNodes : p \in AsyncNodes' <=> p \in AsyncNodes \/ p = q
    BY <1>7, <1>9, <1>11, <1>12
  <2>3. ASSUME NEW u \in Threads, u # th, pc[u] = "send" PROVE loc[u].t # t
    <3>1. SendCarry(txn, loc[u], u, k, a)
      BY <2>3, <1>ca DEF Carried, CarryOK
    <3>. QED BY <3>1, <2>3, <1>3 DEF SendCarry
  <2>4. t \notin ToSet(AsyncTodos[q])
    BY <1>3, <1>al DEF TxnLists, TxnListOK
  <2>5. t \in Txns /\ q \in LiveNodes /\ buf[t].node = q /\ buf[t].st # "none"
    BY <1>3, <1>4, <1>5
  <2>6. Oneways(buf, DeadProcs, LiveNodes, AsyncNodes', AsyncTodos, pc', loc)
    BY <2>1, <2>2, <2>3, <2>4, <2>5, <1>1, <1>11, <1>ow, OnewayFirst
  <2>. QED BY <2>6, <1>9, <1>10
<1>13. CASE txn[t].kind # "oneway"
  <2>1. AsyncNodes' = AsyncNodes
    BY <1>7, <1>9, <1>13, <1>3 DEF AsyncNodes
  <2>2. t \in Txns /\ ~buf[t].async
    BY <1>13, <1>3, <1>5
  <2>3. Oneways(buf, DeadProcs, LiveNodes, AsyncNodes, AsyncTodos, pc', loc)
    BY <2>2, <1>1, <1>11, <1>ow, OnewaySync
  <2>. QED BY <2>1, <2>3, <1>9, <1>10
<1>. QED BY <1>12, <1>13

\* A call for any thread of the process, none of which waits.
LEMMA SendProcStep ==
  ASSUME NEW k, NEW a, NEW r, Inv(k, a, r), NEW th \in Threads, Send(th),
         ~PendingAsync(loc[th].t), loc[th].target_thread = NoThread,
         WaitingThreads(thr, loc[th].target_proc) = {}
  PROVE  \E k2, a2 : Inv(k2, a2, r)'
<1>gh. Ghosts(k, a, r)
  BY Parts
<1>ty. Typed /\ bug = FALSE
  BY Parts
<1>kt. Stacks \in [Threads -> 0 .. MaxTxns]
  BY Parts
<1>lt. Todos \in [Threads -> Seq(Work)]
  BY Parts
<1>qt. ProcTodos \in [Procs -> Seq(Txns)] /\ AsyncTodos \in [Procs -> Seq(Txns)]
  BY Parts
<1>xt. txn \in [Txns -> Txn]
  BY Parts
<1>rt. proc \in [Procs -> Prc]
  BY Parts
<1>nt. node \in [Procs -> Nde]
  BY Parts
<1>ct. pc \in [Threads -> PCs] /\ loc \in [Threads -> Loc]
  BY Parts
<1>nm. Names(txn)
  BY Parts
<1>tl. ThreadLists(Todos, k, a)
  BY Parts
<1>pl. TxnLists(ProcTodos, "proc", k, a)
  BY Parts
<1>al. TxnLists(AsyncTodos, "async", k, a)
  BY Parts
<1>ca. Carried(txn, Dead, pc, loc, k, a)
  BY Parts
<1>po. Placed(txn, Dead, k, a)
  BY Parts
<1>tr. Tree(txn, Dead, k, a, r)
  BY Parts
<1>di. Directed(txn, Dead, Stacks, Todos, pc, loc, k, a, r)
  BY Parts
<1>ts. ThreadStates(Dead, Stacks, Todos, Waiting, pc, loc, sfr)
  BY Parts
<1>ps. ProcStates(ProcSts, DeadProcs, ProcTodos, ProcRefs, LiveNodes, AsyncTodos, pc, sfr)
  BY Parts
<1>ow. Oneways(buf, DeadProcs, LiveNodes, AsyncNodes, AsyncTodos, pc, loc)
  BY Parts
<1>no. Notices(Dead, Todos, ReturnErrors, ReplyErrors, pc)
  BY Parts
<1>fl. Flags(txn, Dead, Stacks, Todos, Flagged)
  BY Parts
<1>1. pc[th] = "send" /\ ~TargetDead(th)
  BY DEF Send
<1>2. PICK t, q, w : t = loc[th].t /\ q = loc[th].target_proc /\ w = loc[th].target_thread
  OBVIOUS
<1>3. /\ t \in Txns /\ k[t] = "carried" /\ a[t] = th /\ q = txn[t].to_proc /\ q \in Procs
      /\ NoChild(txn, t) /\ Fresh(txn[t], buf[t])
      /\ \A s \in Txns : k[s] = "carried" => (s \in {t} <=> a[s] = th)
  BY <1>1, <1>2, SendFacts
<1>4. ProcSts[q] = "open"
  BY <1>1, <1>2, SendTarget
<1>5. txn[t].kind \in {"sync", "oneway"}
  BY <1>1, <1>2, SendFacts
<1>. DEFINE k2 == [s \in Txns |-> IF s = t THEN "proc" ELSE k[s]]
            a2 == [s \in Txns |-> IF s = t THEN q ELSE a[s]]
<1>6. k2[t] = "proc" /\ a2[t] = q /\ SameBut(k, a, k2, a2, t)
  BY <1>3 DEF SameBut
<1>7. Ghosts(k2, a2, r)
  BY <1>gh, <1>3 DEF Ghosts, Kinds
<1>. HIDE DEF k2, a2
<1>8. /\ Puts(th) /\ SetTodo(q, Append(ProcTodos[q], t))
      /\ UNCHANGED <<txn, buf, thr, loc, sfr>> /\ bug' = FALSE
  <2>1. ProcTodos[q] = proc[q].todo
    BY <1>3, <1>ty, ProcViews
  <2>2. /\ pc' = [pc EXCEPT ![th] = "put"] /\ UNCHANGED <<txn, buf, thr, loc, sfr>> /\ bug' = FALSE
        /\ proc' = [proc EXCEPT ![q].todo = Append(@, t)]
    BY <1>2, <1>ty DEF Send
  <2>. QED BY <2>1, <2>2 DEF Puts, SetTodo
<1>10. ProcTodos[q] \in Seq(Txns) /\ Append(ProcTodos[q], t) \in Seq(Txns)
  BY <1>3, <1>ty, ProcViews
<1>11. /\ proc' \in [Procs -> Prc] /\ UNCHANGED <<ProcSts, DeadProcs, ProcRefs>>
       /\ ProcTodos'[q] = Append(ProcTodos[q], t)
       /\ \A p \in Procs : p # q => ProcTodos'[p] = ProcTodos[p]
  BY <1>3, <1>8, <1>10, <1>ty, SetTodoOf
<1>12. /\ node' \in [Procs -> Nde] /\ LiveNodes' = LiveNodes /\ AsyncTodos' = AsyncTodos
       /\ Oneways(buf, DeadProcs, LiveNodes, AsyncNodes', AsyncTodos, pc', loc)
  BY SendNode
<1>13. /\ pc' \in [Threads -> PCs] /\ pc'[th] = "put"
       /\ \A u \in Threads : u # th => pc'[u] = pc[u]
  BY <1>8, <1>ct DEF PCs, Puts
<1>14. OnlyMoves(pc, loc, pc', loc, th) /\ Stay(txn, txn, k, a, k2, a2, {t})
  BY <1>6, <1>13 DEF OnlyMoves, Stay, SameTxn, SameBut
<1>15. UNCHANGED <<Stacks, Todos, Flagged, ReturnErrors, ReplyErrors, Waiting, Dead, ThreadRefs>>
  BY <1>8, SameAll
<1>16. Typed'
  BY <1>8, <1>11, <1>12, <1>13, <1>ty DEF Typed
<1>17. /\ k2[t] \in {"thread", "proc", "async"} /\ (k2[t] = "async" => txn[t].kind = "oneway")
       /\ (k2[t] = "thread" => a2[t] \in Threads /\ ProcOf[a2[t]] = txn[t].to_proc)
       /\ (k2[t] \in {"proc", "async"} => a2[t] = txn[t].to_proc)
  BY <1>3, <1>5, <1>6
<1>18. /\ Carried(txn, Dead, pc', loc, k2, a2) /\ Failing(sfr, k2, a2)
       /\ Placed(txn, Dead, k2, a2) /\ Tree(txn, Dead, k2, a2, r)
       /\ AllStacks(txn, Dead, Stacks, k2, a2, r) /\ Buffers(txn, buf, loc, k2, a2)
       /\ Drops(txn, buf, pc', loc, sfr) /\ ThreadCounts(ThreadRefs, pc', loc)
       /\ ProcCounts(Dead, ThreadRefs, ProcSts, ProcRefs, pc', loc)
  BY <1>1, <1>2, <1>6, <1>8, <1>17, SendParts
<1>19. ThreadLists(Todos, k2, a2) /\ TxnLists(AsyncTodos, "async", k2, a2)
  <2>1. ThreadLists(Todos, k2, a2)
    BY <1>3, <1>6, <1>tl, ThreadListsKeep
  <2>2. TxnLists(AsyncTodos, "async", k2, a2)
    BY <1>3, <1>6, <1>al, TxnListsKeep
  <2>. QED BY <2>1, <2>2
<1>20. TxnLists(ProcTodos', "proc", k2, a2)
  <2>1. ASSUME NEW p \in Procs PROVE TxnListOK(ProcTodos'[p], "proc", k2, a2, p)
    <3>1. TxnListOK(ProcTodos[p], "proc", k, a, p)
      BY <1>pl DEF TxnLists
    <3>2. CASE p = q
      BY <3>1, <3>2, <1>3, <1>6, <1>10, <1>11, TxnListAdd
    <3>3. CASE p # q
      <4>1. ~(k[t] = "proc" /\ a[t] = p) /\ ~(k2[t] = "proc" /\ a2[t] = p)
        BY <3>3, <1>3, <1>6
      <4>. QED BY <4>1, <3>1, <3>3, <1>6, <1>11, TxnListKeep
    <3>. QED BY <3>2, <3>3
  <2>. QED BY <2>1 DEF TxnLists
<1>21. Directed(txn, Dead, Stacks, Todos, pc', loc, k2, a2, r)
  <2>1. Directed(txn, Dead, Stacks, Todos, pc', loc, k, a, r)
    BY <1>13, <1>14, <1>di, MoveDirected
  <2>2. \A s \in Txns : k2[s] = "thread" => k[s] = "thread" /\ a2[s] = a[s]
    BY <1>6 DEF SameBut
  <2>. QED BY <2>1, <2>2, DirectedMove
<1>22. ThreadStates(Dead, Stacks, Todos, Waiting, pc', loc, sfr)
  <2>1. ASSUME NEW u \in Threads PROVE ThreadOK(Dead, Stacks, Todos, Waiting, pc', loc, sfr, u)
    <3>1. ThreadOK(Dead, Stacks, Todos, Waiting, pc, loc, sfr, u)
      BY <1>ts DEF ThreadStates
    <3>2. CASE u = th
      BY <3>1, <3>2, <1>1, <1>13 DEF ThreadOK
    <3>3. CASE u # th
      BY <3>1, <3>3, <1>13 DEF ThreadOK
    <3>. QED BY <3>2, <3>3
  <2>. QED BY <2>1 DEF ThreadStates
<1>23. ProcStates(ProcSts, DeadProcs, ProcTodos', ProcRefs, LiveNodes, AsyncTodos, pc', sfr)
  <2>1. ProcSts[ProcOf[th]] = "open"
    BY <1>1, <1>2, SendFacts
  <2>2. \A u \in Threads :
          \/ ProcSts[ProcOf[u]] = "open"
          \/ pc'[u] = pc[u] /\ (sfr[u] = sfr[u] \/ pc[u] # "user")
    BY <2>1, <1>13
  <2>3. \A p \in Procs : ProcSts[p] \in {"released", "freed"} => ProcTodos'[p] = ProcTodos[p]
    BY <1>4, <1>11
  <2>. QED BY <2>2, <2>3, <1>ps, ProcStatesKeep
<1>25. Notices(Dead, Todos, ReturnErrors, ReplyErrors, pc')
  BY <1>13, <1>14, <1>no, MoveNotices
<1>26. Inv(k2, a2, r)'
  BY <1>7, <1>8, <1>11, <1>12, <1>15, <1>16, <1>18, <1>19, <1>20, <1>21, <1>22, <1>23,
     <1>25, <1>nm, <1>fl, Whole
<1>. QED BY <1>26

\* A call for the thread that waits in its chain, or for one that waits for work.
LEMMA SendThreadStep ==
  ASSUME NEW k, NEW a, NEW r, Inv(k, a, r), NEW th \in Threads, Send(th),
         ~PendingAsync(loc[th].t),
         loc[th].target_thread # NoThread \/ WaitingThreads(thr, loc[th].target_proc) # {}
  PROVE  \E k2, a2 : Inv(k2, a2, r)'
<1>gh. Ghosts(k, a, r)
  BY Parts
<1>ty. Typed /\ bug = FALSE
  BY Parts
<1>kt. Stacks \in [Threads -> 0 .. MaxTxns]
  BY Parts
<1>lt. Todos \in [Threads -> Seq(Work)]
  BY Parts
<1>qt. ProcTodos \in [Procs -> Seq(Txns)] /\ AsyncTodos \in [Procs -> Seq(Txns)]
  BY Parts
<1>xt. txn \in [Txns -> Txn]
  BY Parts
<1>tt. thr \in [Threads -> Thr]
  BY Parts
<1>rt. proc \in [Procs -> Prc]
  BY Parts
<1>nt. node \in [Procs -> Nde]
  BY Parts
<1>ct. pc \in [Threads -> PCs] /\ loc \in [Threads -> Loc]
  BY Parts
<1>nm. Names(txn)
  BY Parts
<1>tl. ThreadLists(Todos, k, a)
  BY Parts
<1>pl. TxnLists(ProcTodos, "proc", k, a)
  BY Parts
<1>al. TxnLists(AsyncTodos, "async", k, a)
  BY Parts
<1>ca. Carried(txn, Dead, pc, loc, k, a)
  BY Parts
<1>po. Placed(txn, Dead, k, a)
  BY Parts
<1>tr. Tree(txn, Dead, k, a, r)
  BY Parts
<1>di. Directed(txn, Dead, Stacks, Todos, pc, loc, k, a, r)
  BY Parts
<1>ts. ThreadStates(Dead, Stacks, Todos, Waiting, pc, loc, sfr)
  BY Parts
<1>ps. ProcStates(ProcSts, DeadProcs, ProcTodos, ProcRefs, LiveNodes, AsyncTodos, pc, sfr)
  BY Parts
<1>ow. Oneways(buf, DeadProcs, LiveNodes, AsyncNodes, AsyncTodos, pc, loc)
  BY Parts
<1>no. Notices(Dead, Todos, ReturnErrors, ReplyErrors, pc)
  BY Parts
<1>fl. Flags(txn, Dead, Stacks, Todos, Flagged)
  BY Parts
<1>1. pc[th] = "send" /\ ~TargetDead(th)
  BY DEF Send
<1>2. PICK t, q, w : t = loc[th].t /\ q = loc[th].target_proc /\ w = loc[th].target_thread
  OBVIOUS
<1>3. /\ t \in Txns /\ k[t] = "carried" /\ a[t] = th /\ q = txn[t].to_proc /\ q \in Procs
      /\ NoChild(txn, t) /\ Fresh(txn[t], buf[t])
      /\ \A s \in Txns : k[s] = "carried" => (s \in {t} <=> a[s] = th)
  BY <1>1, <1>2, SendFacts
<1>4. /\ w # NoThread => /\ w \in Threads /\ w \notin Dead /\ Sync(txn, t)
                         /\ Back(txn, Stacks, r, w, t) /\ ~thr[w].waiting
  BY <1>1, <1>2, SendTarget
<1>5. /\ txn[t].kind \in {"sync", "oneway"} /\ w = txn[t].to_thread /\ q # ProcOf[th]
      /\ (w # NoThread => ProcOf[w] = q)
  BY <1>1, <1>2, SendFacts
<1>a. PICK y \in (IF w # NoThread THEN {w} ELSE WaitingThreads(thr, q)) :
        thr' = HandOff(thr, y, TxnItem(t))
  <2>1. (IF w # NoThread THEN {w} ELSE WaitingThreads(thr, q)) # {}
    BY <1>2
  <2>. QED BY <2>1, <1>2 DEF Send, HandOff
<1>b. /\ y \in Threads /\ ProcOf[y] = q /\ y # th /\ y \notin Dead /\ pc[y] # "gone"
      /\ \/ y = w /\ Back(txn, Stacks, r, y, t)
         \/ w = NoThread /\ Stacks[y] = NoTxn /\ Todos[y] = <<>>
  <2>1. CASE w # NoThread
    <3>1. y = w /\ y \in Threads /\ y \notin Dead /\ ProcOf[y] = q
      BY <2>1, <1>4, <1>5, <1>a
    <3>2. pc[y] # "gone"
      BY <3>1, <1>ty, ThreadViews, ThreadFacts
    <3>. QED BY <2>1, <3>1, <3>2, <1>4, <1>5
  <2>2. CASE w = NoThread
    <3>1. y \in Threads /\ ProcOf[y] = q /\ thr[y].waiting
      BY <2>2, <1>a DEF WaitingThreads
    <3>2. /\ pc[y] = "wait" /\ thr[y].todo = <<>> /\ thr[y].stack = NoTxn /\ ~thr[y].is_dead
      BY <3>1, ThreadFacts
    <3>3. Stacks[y] = NoTxn /\ Todos[y] = <<>> /\ y \notin Dead
      BY <3>1, <3>2, <1>ty, ThreadViews
    <3>. QED BY <2>2, <3>1, <3>2, <3>3, <1>5
  <2>. QED BY <2>1, <2>2
<1>. DEFINE k2 == [s \in Txns |-> IF s = t THEN "thread" ELSE k[s]]
            a2 == [s \in Txns |-> IF s = t THEN y ELSE a[s]]
<1>6. k2[t] = "thread" /\ a2[t] = y /\ SameBut(k, a, k2, a2, t)
  BY <1>3 DEF SameBut
<1>7. Ghosts(k2, a2, r)
  BY <1>gh, <1>3, <1>b DEF Ghosts, Kinds
<1>. HIDE DEF k2, a2
<1>8. /\ Puts(th) /\ UNCHANGED <<txn, buf, proc, loc, sfr>> /\ bug' = FALSE
  <2>1. ~(w # NoThread /\ thr[w].waiting)
    BY <1>4
  <2>2. (IF w # NoThread THEN {w} ELSE WaitingThreads(thr, q)) # {}
    BY <1>2
  <2>3. /\ pc' = [pc EXCEPT ![th] = "put"] /\ UNCHANGED <<txn, buf, proc, loc, sfr>>
        /\ bug' = (bug \/ (w # NoThread /\ thr[w].waiting))
    BY <1>2, <2>2 DEF Send
  <2>. QED BY <2>1, <2>3, <1>ty DEF Puts
<1>i. TxnItem(t) \in Work
  BY <1>3, TxnItems
<1>9. /\ thr' \in [Threads -> Thr] /\ \A u \in Threads : u # y => thr'[u] = thr[u]
      /\ thr'[y].stack = thr[y].stack /\ thr'[y].todo = Append(thr[y].todo, TxnItem(t))
      /\ thr'[y].process_todo /\ thr'[y].return_error = thr[y].return_error
      /\ thr'[y].reply_error = thr[y].reply_error /\ ~thr'[y].waiting
      /\ thr'[y].is_dead = thr[y].is_dead /\ thr'[y].tmp_ref = thr[y].tmp_ref
  <2>. DEFINE T == HandOff(thr, y, TxnItem(t))
  <2>1. /\ T \in [Threads -> Thr] /\ \A u \in Threads : u # y => T[u] = thr[u]
        /\ T[y].stack = thr[y].stack /\ T[y].todo = Append(thr[y].todo, TxnItem(t))
        /\ T[y].process_todo /\ T[y].return_error = thr[y].return_error
        /\ T[y].reply_error = thr[y].reply_error /\ T[y].waiting = FALSE
        /\ T[y].is_dead = thr[y].is_dead /\ T[y].tmp_ref = thr[y].tmp_ref
    BY <1>b, <1>i, <1>tt, HandOffOf, ZenonT(90)
  <2>2. thr' = T
    BY <1>a
  <2>. HIDE DEF T
  <2>. QED BY <2>1, <2>2
<1>10. UNCHANGED <<Stacks, ReturnErrors, ReplyErrors, Dead, ThreadRefs>>
  BY <1>b, <1>9, OneThread
<1>11. /\ Todos'[y] = Append(Todos[y], TxnItem(t)) /\ Todos[y] \in Seq(Work)
       /\ y \in Flagged' /\ y \notin Waiting'
       /\ \A u \in Threads : u # y => /\ Todos'[u] = Todos[u]
                                      /\ u \in Flagged' <=> u \in Flagged
                                      /\ u \in Waiting' <=> u \in Waiting
  <2>1. Todos[y] = thr[y].todo /\ Todos[y] \in Seq(Work)
    BY <1>b, <1>ty, ThreadViews
  <2>2. \A u \in Threads : u # y => /\ Todos'[u] = Todos[u]
                                    /\ u \in Flagged' <=> u \in Flagged
                                    /\ u \in Waiting' <=> u \in Waiting
    BY <1>9, NextViews
  <2>3. /\ Todos'[y] = thr'[y].todo /\ (y \in Flagged' <=> thr'[y].process_todo)
        /\ (y \in Waiting' <=> thr'[y].waiting)
    BY <1>b, NextViews
  <2>. QED BY <2>1, <2>2, <2>3, <1>9
<1>12. /\ node' \in [Procs -> Nde] /\ LiveNodes' = LiveNodes /\ AsyncTodos' = AsyncTodos
       /\ Oneways(buf, DeadProcs, LiveNodes, AsyncNodes', AsyncTodos, pc', loc)
  BY SendNode
<1>13. /\ pc' \in [Threads -> PCs] /\ pc'[th] = "put"
       /\ \A u \in Threads : u # th => pc'[u] = pc[u]
  BY <1>8, <1>ct DEF PCs, Puts
<1>14. OnlyMoves(pc, loc, pc', loc, th) /\ Stay(txn, txn, k, a, k2, a2, {t})
  BY <1>6, <1>13 DEF OnlyMoves, Stay, SameTxn, SameBut
<1>15. UNCHANGED <<ProcSts, ProcTodos, DeadProcs, ProcRefs>>
  BY <1>8, SameAll
<1>16. Typed'
  BY <1>8, <1>9, <1>12, <1>13, <1>ty DEF Typed
<1>17. /\ k2[t] \in {"thread", "proc", "async"} /\ (k2[t] = "async" => txn[t].kind = "oneway")
       /\ (k2[t] = "thread" => a2[t] \in Threads /\ ProcOf[a2[t]] = txn[t].to_proc)
       /\ (k2[t] \in {"proc", "async"} => a2[t] = txn[t].to_proc)
  BY <1>3, <1>5, <1>6, <1>b
<1>18. /\ Carried(txn, Dead, pc', loc, k2, a2) /\ Failing(sfr, k2, a2)
       /\ Placed(txn, Dead, k2, a2) /\ Tree(txn, Dead, k2, a2, r)
       /\ AllStacks(txn, Dead, Stacks, k2, a2, r) /\ Buffers(txn, buf, loc, k2, a2)
       /\ Drops(txn, buf, pc', loc, sfr) /\ ThreadCounts(ThreadRefs, pc', loc)
       /\ ProcCounts(Dead, ThreadRefs, ProcSts, ProcRefs, pc', loc)
  BY <1>1, <1>2, <1>6, <1>8, <1>17, SendParts
<1>19. TxnLists(ProcTodos, "proc", k2, a2) /\ TxnLists(AsyncTodos, "async", k2, a2)
  <2>1. TxnLists(ProcTodos, "proc", k2, a2)
    BY <1>3, <1>6, <1>pl, TxnListsKeep
  <2>2. TxnLists(AsyncTodos, "async", k2, a2)
    BY <1>3, <1>6, <1>al, TxnListsKeep
  <2>. QED BY <2>1, <2>2
<1>20. ThreadLists(Todos', k2, a2)
  <2>1. ASSUME NEW u \in Threads PROVE ListOK(Todos'[u], k2, a2, u)
    <3>1. ListOK(Todos[u], k, a, u)
      BY <1>tl DEF ThreadLists
    <3>2. CASE u = y
      BY <3>1, <3>2, <1>3, <1>6, <1>11, ListTxn
    <3>3. CASE u # y
      <4>1. ~(k[t] = "thread" /\ a[t] = u) /\ ~(k2[t] = "thread" /\ a2[t] = u)
        BY <3>3, <1>3, <1>6
      <4>. QED BY <4>1, <3>1, <3>3, <1>6, <1>11, ListKeep
    <3>. QED BY <3>2, <3>3
  <2>. QED BY <2>1 DEF ThreadLists
<1>21. Directed(txn, Dead, Stacks, Todos', pc', loc, k2, a2, r)
  <2>1. QueuedOK(txn, Dead, Stacks, Todos', k2, a2, r, t)
    <3>1. CASE y = w /\ Back(txn, Stacks, r, y, t)
      BY <3>1, <1>5, <1>6 DEF QueuedOK
    <3>2. CASE w = NoThread /\ Stacks[y] = NoTxn /\ Todos[y] = <<>>
      <4>1. Head(Todos'[y]) = TxnItem(t)
        BY <3>2, <1>11
      <4>. QED BY <4>1, <3>2, <1>5, <1>6 DEF QueuedOK
    <3>. QED BY <3>1, <3>2, <1>b
  <2>2. ASSUME NEW s \in Txns PROVE QueuedOK(txn, Dead, Stacks, Todos', k2, a2, r, s)
    <3>1. CASE s = t
      BY <3>1, <2>1
    <3>2. CASE s # t
      <4>1. QueuedOK(txn, Dead, Stacks, Todos, k, a, r, s) /\ k2[s] = k[s] /\ a2[s] = a[s]
        BY <3>2, <1>di, <1>6 DEF Directed, SameBut
      <4>2. k[s] = "thread" /\ Head(Todos[a[s]]) = TxnItem(s) => Head(Todos'[a[s]]) = TxnItem(s)
        <5>1. Grow(Todos, Todos')
          BY <1>11, <1>i DEF Grow
        <5>. QED BY <5>1, <1>lt, <1>tl, <1>po, HeadStays
      <4>. QED BY <4>1, <4>2 DEF QueuedOK
    <3>. QED BY <3>1, <3>2
  <2>3. \A u \in Threads : pc'[u] = "send" => SentOK(txn, Dead, Stacks, loc, r, u)
    BY <1>13, <1>di DEF Directed
  <2>. QED BY <2>2, <2>3 DEF Directed
<1>22. ThreadStates(Dead, Stacks, Todos', Waiting', pc', loc, sfr)
  <2>1. ASSUME NEW u \in Threads PROVE ThreadOK(Dead, Stacks, Todos', Waiting', pc', loc, sfr, u)
    <3>1. ThreadOK(Dead, Stacks, Todos, Waiting, pc, loc, sfr, u)
      BY <1>ts DEF ThreadStates
    <3>2. CASE u = th
      BY <3>1, <3>2, <1>1, <1>b, <1>11, <1>13 DEF ThreadOK
    <3>3. CASE u = y
      BY <3>1, <3>3, <1>b, <1>11, <1>13 DEF ThreadOK
    <3>4. CASE u # th /\ u # y
      BY <3>1, <3>4, <1>11, <1>13 DEF ThreadOK
    <3>. QED BY <3>2, <3>3, <3>4
  <2>. QED BY <2>1 DEF ThreadStates
<1>23. ProcStates(ProcSts, DeadProcs, ProcTodos, ProcRefs, LiveNodes, AsyncTodos, pc', sfr)
  <2>1. ProcSts[ProcOf[th]] = "open"
    BY <1>1, <1>2, SendFacts
  <2>2. \A u \in Threads :
          \/ ProcSts[ProcOf[u]] = "open"
          \/ pc'[u] = pc[u] /\ (sfr[u] = sfr[u] \/ pc[u] # "user")
    BY <2>1, <1>13
  <2>. QED BY <2>2, <1>ps, ProcStatesKeep
<1>25. Notices(Dead, Todos', ReturnErrors, ReplyErrors, pc')
  <2>1. ToSet(Todos'[y]) = ToSet(Todos[y]) \cup {TxnItem(t)}
    BY <1>11, <1>i, SeqAppend
  <2>2. ASSUME NEW u \in Threads PROVE NoticeOK(Dead, Todos', ReturnErrors, ReplyErrors, pc', u)
    <3>1. NoticeOK(Dead, Todos, ReturnErrors, ReplyErrors, pc, u)
      BY <1>no DEF Notices
    <3>2. CASE u = y
      <4>1. \A z \in {"complete", "return_error", "reply_error"} :
              Item(z) \in ToSet(Todos'[u]) <=> Item(z) \in ToSet(Todos[u])
        BY <3>2, <2>1, TxnNoNotice
      <4>. QED BY <3>1, <3>2, <4>1, <1>b, <1>13 DEF NoticeOK
    <3>3. CASE u # y
      <4>1. Todos'[u] = Todos[u]
        BY <3>3, <1>11
      <4>2. pc'[u] \in {"send", "reply"} => pc'[u] = pc[u]
        BY <1>13
      <4>. QED BY <3>1, <4>1, <4>2 DEF NoticeOK
    <3>. QED BY <3>2, <3>3
  <2>. QED BY <2>2 DEF Notices
<1>27. Flags(txn, Dead, Stacks, Todos', Flagged')
  <2>1. Todos'[y] # <<>>
    BY <1>11, <1>i, SeqAppend
  <2>2. ASSUME NEW u \in Threads, u \notin Dead
        PROVE  \/ u \in Flagged' /\ Todos'[u] # <<>>
               \/ /\ u \notin Dead /\ Todos'[u] = Todos[u] /\ Stacks[u] = Stacks[u]
                  /\ u \in Flagged' <=> u \in Flagged
                  /\ Stacks[u] # NoTxn /\ txn[Stacks[u]].from = u => txn[Stacks[u]].from = u
    BY <2>1, <2>2, <1>11
  <2>. QED BY <2>2, <1>fl, FlagsKeep
<1>26. Inv(k2, a2, r)'
  BY <1>7, <1>8, <1>10, <1>12, <1>15, <1>16, <1>18, <1>19, <1>20, <1>21, <1>22, <1>23,
     <1>25, <1>27, <1>nm, Whole
<1>. QED BY <1>26

\* binder_proc_transaction queues the call.
LEMMA SendStep ==
  ASSUME NEW k, NEW a, NEW r, Inv(k, a, r), NEW th \in Threads, Send(th)
  PROVE  \E k2, a2 : Inv(k2, a2, r)'
<1>1. CASE PendingAsync(loc[th].t)
  BY <1>1, SendBehindStep
<1>2. CASE /\ ~PendingAsync(loc[th].t) /\ loc[th].target_thread = NoThread
           /\ WaitingThreads(thr, loc[th].target_proc) = {}
  BY <1>2, SendProcStep
<1>3. CASE /\ ~PendingAsync(loc[th].t)
           /\ loc[th].target_thread # NoThread \/ WaitingThreads(thr, loc[th].target_proc) # {}
  BY <1>3, SendThreadStep
<1>. QED BY <1>1, <1>2, <1>3

\* A todo list without its last TRANSACTION_COMPLETE.
Removed(s) == RemoveAt(s, Max({i \in 1 .. Len(s) : s[i].type = "complete"}))

\* A sequence without one of its elements.
LEMMA RemoveAtOf ==
  ASSUME NEW S, NEW s \in Seq(S), NEW i \in 1 .. Len(s)
  PROVE  /\ RemoveAt(s, i) \in Seq(S) /\ Len(RemoveAt(s, i)) = Len(s) - 1 /\ Len(s) \in Nat
         /\ \A j \in 1 .. Len(s) - 1 : RemoveAt(s, i)[j] = IF j < i THEN s[j] ELSE s[j + 1]
<1>1. Len(s) \in Nat /\ i \in Nat /\ i >= 1 /\ i <= Len(s)
  OBVIOUS
<1>. DEFINE f == SubSeq(s, 1, i - 1)  g == SubSeq(s, i + 1, Len(s))
<1>2. f \in Seq(S) /\ Len(f) = i - 1 /\ \A j \in 1 .. i - 1 : f[j] = s[j]
  BY <1>1
<1>3. g \in Seq(S) /\ Len(g) = Len(s) - i /\ \A j \in 1 .. Len(s) - i : g[j] = s[i + j]
  BY <1>1
<1>4. RemoveAt(s, i) = f \o g
  BY DEF RemoveAt
<1>. HIDE DEF f, g
<1>5. f \o g \in Seq(S) /\ Len(f \o g) = Len(s) - 1
  <2>1. f \o g \in Seq(S) /\ Len(f \o g) = Len(f) + Len(g)
    BY <1>2, <1>3, ConcatProperties
  <2>. QED BY <2>1, <1>1, <1>2, <1>3
<1>6. ASSUME NEW j \in 1 .. Len(s) - 1 PROVE (f \o g)[j] = IF j < i THEN s[j] ELSE s[j + 1]
  <2>1. CASE j < i
    <3>1. j \in 1 .. Len(f) /\ j \in 1 .. Len(f) + Len(g)
      BY <2>1, <1>1, <1>2, <1>3
    <3>2. (f \o g)[j] = f[j]
      BY <3>1, <1>2, <1>3
    <3>. QED BY <2>1, <3>1, <3>2, <1>2
  <2>2. CASE ~(j < i)
    <3>1. j > Len(f) /\ j \in 1 .. Len(f) + Len(g) /\ j - Len(f) \in 1 .. Len(s) - i
          /\ i + (j - Len(f)) = j + 1
      BY <2>2, <1>1, <1>2, <1>3
    <3>2. (f \o g)[j] = g[j - Len(f)]
      BY <3>1, <1>2, <1>3
    <3>. QED BY <2>2, <3>1, <3>2, <1>3
  <2>. QED BY <2>1, <2>2
<1>. QED BY <1>1, <1>4, <1>5, <1>6

\* A list without its TRANSACTION_COMPLETE.
LEMMA RemovedOf ==
  ASSUME NEW s \in Seq(Work), Item("complete") \in ToSet(s)
  PROVE  /\ Removed(s) \in Seq(Work) /\ ToSet(Removed(s)) \subseteq ToSet(s)
         /\ \A x \in ToSet(s) : x.type # "complete" => x \in ToSet(Removed(s))
         /\ Once(s) => Once(Removed(s))
         /\ Head(s).type # "complete" => Head(Removed(s)) = Head(s)
<1>. DEFINE C == {i \in 1 .. Len(s) : s[i].type = "complete"}
<1>1. Len(s) \in Nat /\ ToSet(s) = {s[i] : i \in 1 .. Len(s)}
  BY DEF ToSet
<1>2. Item("complete").type = "complete"
  BY TxnItems
<1>3. C # {} /\ C \in SUBSET (0 .. Len(s))
  BY <1>1, <1>2
<1>4. \E x \in C : \A y \in C : x >= y
  BY <1>1, <1>3, Largest
<1>5. PICK m : m = Max(C)
  OBVIOUS
<1>6. m \in C
  BY <1>4, <1>5 DEF Max
<1>7. m \in 1 .. Len(s) /\ s[m].type = "complete"
  BY <1>6
<1>. DEFINE z == RemoveAt(s, m)
<1>8. Removed(s) = z
  BY <1>5 DEF Removed
<1>9. /\ z \in Seq(Work) /\ Len(z) = Len(s) - 1
      /\ \A j \in 1 .. Len(s) - 1 : z[j] = IF j < m THEN s[j] ELSE s[j + 1]
  BY <1>7, RemoveAtOf
<1>. HIDE DEF z, C
<1>10. ToSet(z) = {z[j] : j \in 1 .. Len(s) - 1}
  BY <1>9 DEF ToSet
<1>11. ToSet(z) \subseteq ToSet(s)
  <2>1. ASSUME NEW j \in 1 .. Len(s) - 1 PROVE z[j] \in ToSet(s)
    <3>1. j \in 1 .. Len(s) /\ j + 1 \in 1 .. Len(s)
      BY <1>1
    <3>. QED BY <3>1, <1>1, <1>9
  <2>. QED BY <2>1, <1>10
<1>12. ASSUME NEW x \in ToSet(s), x.type # "complete" PROVE x \in ToSet(z)
  <2>1. PICK i \in 1 .. Len(s) : x = s[i]
    BY <1>1
  <2>2. i # m
    BY <2>1, <1>7, <1>12
  <2>3. CASE i < m
    <3>1. i \in 1 .. Len(s) - 1
      BY <2>3, <1>1, <1>7
    <3>2. z[i] = x
      BY <3>1, <2>1, <2>3, <1>9
    <3>. QED BY <3>1, <3>2, <1>10
  <2>4. CASE i > m
    <3>1. i - 1 \in 1 .. Len(s) - 1 /\ ~(i - 1 < m) /\ (i - 1) + 1 = i
      BY <2>4, <1>1, <1>7
    <3>2. z[i - 1] = x
      BY <3>1, <2>1, <1>9
    <3>. QED BY <3>1, <3>2, <1>10
  <2>. QED BY <2>2, <2>3, <2>4, <1>7
<1>13. ASSUME Once(s) PROVE Once(z)
  <2>1. ASSUME NEW i \in 1 .. Len(s) - 1, NEW j \in 1 .. Len(s) - 1,
               z[i].type # "complete", z[i] = z[j]
        PROVE  i = j
    <3>1. PICK n \in 1 .. Len(s) : z[i] = s[n] /\ n = IF i < m THEN i ELSE i + 1
      BY <1>1, <1>9
    <3>2. PICK o \in 1 .. Len(s) : z[j] = s[o] /\ o = IF j < m THEN j ELSE j + 1
      BY <1>1, <1>9
    <3>3. n = o
      BY <3>1, <3>2, <2>1, <1>13 DEF Once
    <3>. QED BY <3>1, <3>2, <3>3, <1>1, <1>7
  <2>. QED BY <2>1, <1>9 DEF Once
<1>14. ASSUME Head(s).type # "complete" PROVE Head(z) = Head(s)
  <2>1. s # <<>> /\ Head(s) = s[1]
    <3>1. s # <<>>
      BY <1>1, <1>7
    <3>. QED BY <3>1, SeqTail
  <2>2. m # 1
    BY <2>1, <1>7, <1>14
  <2>3. 1 \in 1 .. Len(s) - 1 /\ 1 < m
    BY <2>2, <1>1, <1>7
  <2>4. z[1] = s[1] /\ z # <<>>
    BY <2>3, <1>9
  <2>5. Head(z) = z[1]
    BY <2>4, <1>9, SeqTail
  <2>. QED BY <2>1, <2>4, <2>5
<1>. QED BY <1>8, <1>9, <1>11, <1>12, <1>13, <1>14

\* What a call that finds its target dead leaves of the caller's thread.
DeadThr(T, th, v) ==
  ReturnError(DequeueComplete([T EXCEPT ![th].stack = v], th), th, "ERROR")

\* What the dead-target path of binder_transaction does to its own thread.
LEMMA DeadOf ==
  ASSUME NEW T \in [Threads -> Thr], NEW th \in Threads, NEW v \in 0 .. MaxTxns,
         Item("complete") \in ToSet(T[th].todo)
  PROVE  /\ DeadThr(T, th, v) \in [Threads -> Thr]
         /\ \A u \in Threads : u # th => DeadThr(T, th, v)[u] = T[u]
         /\ DeadThr(T, th, v)[th].stack = v
         /\ DeadThr(T, th, v)[th].todo = Append(Removed(T[th].todo), Item("return_error"))
         /\ DeadThr(T, th, v)[th].process_todo /\ DeadThr(T, th, v)[th].return_error = "ERROR"
         /\ DeadThr(T, th, v)[th].reply_error = T[th].reply_error
         /\ DeadThr(T, th, v)[th].waiting = T[th].waiting
         /\ DeadThr(T, th, v)[th].is_dead = T[th].is_dead
         /\ DeadThr(T, th, v)[th].tmp_ref = T[th].tmp_ref
<1>1. T[th] \in Thr /\ T[th].todo \in Seq(Work)
  BY DEF Thr
<1>. DEFINE rm == Removed(T[th].todo)
<1>2. rm \in Seq(Work)
  BY <1>1, RemovedOf
<1>. DEFINE S == SetStack(T, th, v)
<1>3. /\ S \in [Threads -> Thr] /\ S[th].stack = v /\ S[th].todo = T[th].todo
      /\ S[th].process_todo = T[th].process_todo /\ S[th].return_error = T[th].return_error
      /\ S[th].reply_error = T[th].reply_error /\ S[th].waiting = T[th].waiting
      /\ S[th].is_dead = T[th].is_dead /\ S[th].tmp_ref = T[th].tmp_ref
  BY SetStackOf
<1>4. \A u \in Threads : u # th => S[u] = T[u]
  BY SetStackOf
<1>5. [T EXCEPT ![th].stack = v] = S
  BY DEF SetStack
<1>. HIDE DEF S
<1>. DEFINE Q == DequeueComplete(S, th)
<1>6. Q = [S EXCEPT ![th].todo = rm]
  BY <1>3 DEF DequeueComplete, Removed
<1>. HIDE DEF Q, rm
<1>7. /\ Q \in [Threads -> Thr] /\ Q[th].stack = v /\ Q[th].todo = rm
      /\ Q[th].reply_error = T[th].reply_error /\ Q[th].waiting = T[th].waiting
      /\ Q[th].is_dead = T[th].is_dead /\ Q[th].tmp_ref = T[th].tmp_ref
      /\ \A u \in Threads : u # th => Q[u] = T[u]
  BY <1>2, <1>3, <1>4, <1>6, ZenonT(90) DEF Thr
<1>8. DeadThr(T, th, v) = ReturnError(Q, th, "ERROR")
  BY <1>5 DEF DeadThr, Q
<1>. DEFINE R == ReturnError(Q, th, "ERROR")
<1>9. "ERROR" \in Cmds
  BY DEF Cmds
<1>10. /\ R \in [Threads -> Thr]
       /\ \A u \in Threads : u # th => R[u] = Q[u]
       /\ R[th].stack = Q[th].stack /\ R[th].todo = Append(Q[th].todo, Item("return_error"))
       /\ R[th].process_todo /\ R[th].return_error = "ERROR"
       /\ R[th].reply_error = Q[th].reply_error
       /\ R[th].waiting = Q[th].waiting /\ R[th].is_dead = Q[th].is_dead
       /\ R[th].tmp_ref = Q[th].tmp_ref
  BY <1>7, <1>9, ReturnErrorOf
<1>11. DeadThr(T, th, v) = R
  BY <1>8
<1>. HIDE DEF R
<1>. QED BY <1>7, <1>10, <1>11 DEF rm

\* has_async_transaction is set, if at all, for a process that is dead.
MarksDead(NL, PD, NA, NA2) ==
  \A p \in NL : (p \in NA => p \in NA2) /\ (p \in NA2 => p \in NA \/ p \in PD)

\* The buffer of a one-way call that found its target dead.
LEMMA OnewayUndone ==
  ASSUME NEW B, NEW PD, NEW NL, NEW NA, NEW NQ, NEW PC, NEW LC,
         Oneways(B, PD, NL, NA, NQ, PC, LC), NEW B2, NEW PC2, NEW LC2, NEW t \in Txns,
         NEW th \in Threads, OnlyMoves(PC, LC, PC2, LC2, th), PC[th] = "send",
         PC2[th] # "send", LC[th].t = t, B2[t].st = "none",
         \A s \in Txns : s # t => B2[s] = B[s],
         NEW NA2, MarksDead(NL, PD, NA, NA2)
  PROVE  Oneways(B2, PD, NL, NA2, NQ, PC2, LC2)
<1>1. ASSUME NEW p \in NL PROVE OnewayOK(B2, PD, NA2, NQ, PC2, LC2, p)
  <2>1. OnewayOK(B, PD, NA, NQ, PC, LC, p)
    BY DEF Oneways
  <2>2. t \notin Active(B2, NQ, PC2, LC2, p) /\ t \notin Active(B, NQ, PC, LC, p)
    BY DEF Active
  <2>3. ASSUME NEW s \in Txns, s # t
        PROVE  s \in Active(B2, NQ, PC2, LC2, p) <=> s \in Active(B, NQ, PC, LC, p)
    <3>1. s \in Active(B, NQ, PC2, LC2, p) <=> s \in Active(B, NQ, PC, LC, p)
      BY <2>3, ActiveOther
    <3>2. B2[s] = B[s]
      BY <2>3
    <3>3. s \in Active(B2, NQ, PC2, LC2, p) <=> s \in Active(B, NQ, PC2, LC2, p)
      BY <3>2 DEF Active
    <3>. QED BY <3>1, <3>3
  <2>4. Active(B2, NQ, PC2, LC2, p) = Active(B, NQ, PC, LC, p)
    <3>1. Active(B2, NQ, PC2, LC2, p) \subseteq Txns /\ Active(B, NQ, PC, LC, p) \subseteq Txns
      BY DEF Active
    <3>. QED BY <3>1, <2>2, <2>3
  <2>5. (p \in NA => p \in NA2) /\ (p \in NA2 => p \in NA \/ p \in PD)
    BY DEF MarksDead
  <2>. QED BY <2>1, <2>4, <2>5 DEF OnewayOK
<1>. QED BY <1>1 DEF Oneways

\* A call whose target died.
LEMMA SendDeadStep ==
  ASSUME NEW k, NEW a, NEW r, Inv(k, a, r), NEW th \in Threads, SendDead(th)
  PROVE  \E k2, a2 : Inv(k2, a2, r)'
<1>gh. Ghosts(k, a, r)
  BY Parts
<1>ty. Typed /\ bug = FALSE
  BY Parts
<1>kt. Stacks \in [Threads -> 0 .. MaxTxns]
  BY Parts
<1>lt. Todos \in [Threads -> Seq(Work)]
  BY Parts
<1>xt. txn \in [Txns -> Txn]
  BY Parts
<1>bt. buf \in [Txns -> Buf]
  BY Parts
<1>tt. thr \in [Threads -> Thr]
  BY Parts
<1>ct. pc \in [Threads -> PCs] /\ loc \in [Threads -> Loc]
  BY Parts
<1>ft. sfr \in [Threads \cup Procs -> 0 .. MaxTxns]
  BY Parts
<1>nm. Names(txn)
  BY Parts
<1>tl. ThreadLists(Todos, k, a)
  BY Parts
<1>pl. TxnLists(ProcTodos, "proc", k, a)
  BY Parts
<1>al. TxnLists(AsyncTodos, "async", k, a)
  BY Parts
<1>ca. Carried(txn, Dead, pc, loc, k, a)
  BY Parts
<1>fa. Failing(sfr, k, a)
  BY Parts
<1>po. Placed(txn, Dead, k, a)
  BY Parts
<1>tr. Tree(txn, Dead, k, a, r)
  BY Parts
<1>st. AllStacks(txn, Dead, Stacks, k, a, r)
  BY Parts
<1>di. Directed(txn, Dead, Stacks, Todos, pc, loc, k, a, r)
  BY Parts
<1>bu. Buffers(txn, buf, loc, k, a)
  BY Parts
<1>dr. Drops(txn, buf, pc, loc, sfr)
  BY Parts
<1>ts. ThreadStates(Dead, Stacks, Todos, Waiting, pc, loc, sfr)
  BY Parts
<1>ps. ProcStates(ProcSts, DeadProcs, ProcTodos, ProcRefs, LiveNodes, AsyncTodos, pc, sfr)
  BY Parts
<1>tc. ThreadCounts(ThreadRefs, pc, loc)
  BY Parts
<1>pc. ProcCounts(Dead, ThreadRefs, ProcSts, ProcRefs, pc, loc)
  BY Parts
<1>ow. Oneways(buf, DeadProcs, LiveNodes, AsyncNodes, AsyncTodos, pc, loc)
  BY Parts
<1>no. Notices(Dead, Todos, ReturnErrors, ReplyErrors, pc)
  BY Parts
<1>fl. Flags(txn, Dead, Stacks, Todos, Flagged)
  BY Parts
<1>1. pc[th] = "send"
  BY DEF SendDead
<1>2. PICK t, q, w : t = loc[th].t /\ q = loc[th].target_proc /\ w = loc[th].target_thread
  OBVIOUS
<1>3. /\ t \in Txns /\ k[t] = "carried" /\ a[t] = th /\ txn[t].kind \in {"sync", "oneway"}
      /\ (Sync(txn, t) => txn[t].from = th) /\ NoChild(txn, t) /\ q \in Procs
      /\ (~Sync(txn, t) => w = NoThread) /\ Fresh(txn[t], buf[t])
  BY <1>1, <1>2, SendFacts
<1>4. \A s \in Txns : k[s] = "carried" => (s \in {t} <=> a[s] = th)
  BY <1>1, <1>2, SendFacts
<1>5. /\ th \notin Dead /\ th \notin Waiting /\ ~loc[th].wait_for_proc_work
      /\ sfr[th] = NoTxn /\ ProcSts[ProcOf[th]] = "open"
  BY <1>1, <1>2, SendFacts
<1>. DEFINE k2 == [s \in Txns |-> IF s = t THEN "none" ELSE k[s]]
<1>6. /\ k2[t] = "none"
      /\ \A s \in Txns : s # t => k2[s] = k[s]
      /\ \A s \in Txns : s \notin {t} => k2[s] = k[s] /\ a[s] = a[s]
  BY <1>3
<1>7. Ghosts(k2, a, r)
  BY <1>gh DEF Ghosts, Kinds
<1>. HIDE DEF k2
<1>a. Sync(txn, t) => Stacks[th] = t /\ Below(txn, th, t) = txn[t].from_parent
  <2>1. ASSUME Sync(txn, t) PROVE Stacks[th] = t /\ Below(txn, th, t) = txn[t].from_parent
    <3>1. Mine(txn, k, a, th, t)
      BY <2>1, <1>3 DEF Mine
    <3>2. Stacks[th] = t
      BY <3>1, <1>3, <1>5, <1>xt, <1>kt, <1>tr, <1>st, EndSeen
    <3>3. Below(txn, th, t) = txn[t].from_parent
      BY <2>1, <1>3, <1>tr, CallerBelow
    <3>. QED BY <3>2, <3>3
  <2>. QED BY <2>1
<1>b. /\ Stacks[th] = thr[th].stack /\ Stacks[th] \in 0 .. MaxTxns
      /\ Todos[th] = thr[th].todo /\ Todos[th] \in Seq(Work)
  BY <1>ty, ThreadViews
<1>c. PICK v : v = IF Sync(txn, t) THEN txn[t].from_parent ELSE Stacks[th]
  OBVIOUS
<1>d. v \in 0 .. MaxTxns
  BY <1>b, <1>c, <1>3, <1>xt, TxnFields
<1>e. Item("complete") \in ToSet(Todos[th]) /\ ReturnErrors[th] = "OK"
      /\ Item("return_error") \notin ToSet(Todos[th])
  BY <1>1, <1>no DEF Notices, NoticeOK
<1>8. /\ thr' = DeadThr(thr, th, v) /\ txn' = [txn EXCEPT ![t] = FreedTxn]
      /\ buf' = [buf EXCEPT ![t] = NoBuf] /\ bug' = FALSE
      /\ pc' = [pc EXCEPT ![th] = "put"]
      /\ UNCHANGED <<proc, loc, sfr>>
  <2>1. /\ txn' = [txn EXCEPT ![t] = FreedTxn] /\ buf' = [buf EXCEPT ![t] = NoBuf]
        /\ pc' = [pc EXCEPT ![th] = "put"]
        /\ UNCHANGED <<proc, loc, sfr>>
    BY <1>2 DEF SendDead, Without
  <2>2. bug' = (bug \/ (txn[t].kind # "oneway" /\ PopBug(th, t)))
    BY <1>2 DEF SendDead
  <2>3. CASE Sync(txn, t)
    <3>1. ~PopBug(th, t)
      BY <2>3, <1>3, <1>a, <1>b DEF PopBug
    <3>2. thr' = ReturnError(DequeueComplete(PopTransaction(thr, th, t), th), th, "ERROR")
      BY <2>3, <1>2 DEF SendDead, Sync
    <3>3. PopTransaction(thr, th, t) = [thr EXCEPT ![th].stack = v]
      BY <2>3, <1>c DEF PopTransaction
    <3>. QED BY <2>1, <2>2, <3>1, <3>2, <3>3, <1>ty DEF DeadThr
  <2>4. CASE ~Sync(txn, t)
    <3>1. txn[t].kind = "oneway"
      BY <2>4, <1>3 DEF Sync
    <3>2. thr' = ReturnError(DequeueComplete(thr, th), th, "ERROR")
      BY <3>1, <1>2 DEF SendDead
    <3>3. thr = [thr EXCEPT ![th].stack = v]
      BY <2>4, <1>b, <1>c, <1>tt DEF Thr
    <3>. QED BY <2>1, <2>2, <3>1, <3>2, <3>3, <1>ty DEF DeadThr
  <2>. QED BY <2>3, <2>4
<1>9. /\ thr' \in [Threads -> Thr]
      /\ \A u \in Threads : u # th => thr'[u] = thr[u]
      /\ thr'[th].stack = v
      /\ thr'[th].todo = Append(Removed(thr[th].todo), Item("return_error"))
      /\ thr'[th].process_todo /\ thr'[th].return_error = "ERROR"
      /\ thr'[th].reply_error = thr[th].reply_error
      /\ thr'[th].waiting = thr[th].waiting /\ thr'[th].is_dead = thr[th].is_dead
      /\ thr'[th].tmp_ref = thr[th].tmp_ref
  <2>1. Item("complete") \in ToSet(thr[th].todo)
    BY <1>b, <1>e
  <2>. DEFINE T == DeadThr(thr, th, v)
  <2>2. /\ T \in [Threads -> Thr]
        /\ \A u \in Threads : u # th => T[u] = thr[u]
        /\ T[th].stack = v
        /\ T[th].todo = Append(Removed(thr[th].todo), Item("return_error"))
        /\ T[th].process_todo /\ T[th].return_error = "ERROR"
        /\ T[th].reply_error = thr[th].reply_error
        /\ T[th].waiting = thr[th].waiting /\ T[th].is_dead = thr[th].is_dead
        /\ T[th].tmp_ref = thr[th].tmp_ref
    BY <2>1, <1>d, <1>tt, DeadOf
  <2>3. thr' = T
    BY <1>8
  <2>. HIDE DEF T
  <2>. QED BY <2>2, <2>3
<1>10. UNCHANGED <<ReplyErrors, Waiting, Dead, ThreadRefs>>
  BY <1>9, OneThread
<1>11. UNCHANGED <<ProcSts, ProcTodos, DeadProcs, ProcRefs>>
  BY <1>8, SameAll
<1>f. /\ node' \in [Procs -> Nde] /\ UNCHANGED <<LiveNodes, AsyncTodos>>
      /\ \A p \in Procs : p \in AsyncNodes => p \in AsyncNodes'
      /\ \A p \in Procs : p \in AsyncNodes' => p \in AsyncNodes \/ p \in DeadProcs
  <2>1. node[q] \in Nde /\ (q \in AsyncNodes <=> node[q].has_async_transaction)
        /\ AsyncTodos[q] = node[q].async_todo /\ AsyncTodos[q] \in Seq(Txns)
    BY <1>3, <1>ty, NodeViews
  <2>2. PICK b \in BOOLEAN : b <=> node[q].has_async_transaction \/ txn[t].kind = "oneway"
    OBVIOUS
  <2>3. SetAsync(q, b, AsyncTodos[q])
    <3>1. node' = [node EXCEPT ![q].has_async_transaction = @ \/ txn[t].kind = "oneway"]
      BY <1>2 DEF SendDead
    <3>2. node' = [node EXCEPT ![q].has_async_transaction = b]
      BY <3>1, <2>1, <2>2 DEF Nde
    <3>3. node \in [Procs -> Nde]
      BY <1>ty DEF Typed
    <3>4. [node EXCEPT ![q].has_async_transaction = b]
            = [node EXCEPT ![q].has_async_transaction = b, ![q].async_todo = AsyncTodos[q]]
      BY <3>3, <2>1, <1>3 DEF Nde
    <3>. QED BY <3>2, <3>4 DEF SetAsync
  <2>4. /\ node' \in [Procs -> Nde] /\ LiveNodes' = LiveNodes
        /\ AsyncTodos'[q] = AsyncTodos[q]
        /\ \A p \in Procs : p # q => AsyncTodos'[p] = AsyncTodos[p]
        /\ q \in AsyncNodes' <=> b
        /\ \A p \in Procs : p # q => (p \in AsyncNodes' <=> p \in AsyncNodes)
    BY <2>1, <2>3, <1>3, <1>ty, SetAsyncOf
  <2>5. AsyncTodos' = AsyncTodos
    <3>1. \A p \in Procs : AsyncTodos'[p] = AsyncTodos[p]
      BY <2>4
    <3>. QED BY <3>1 DEF AsyncTodos
  <2>6. txn[t].kind = "oneway" => q \in DeadProcs
    <3>1. SUFFICES ASSUME txn[t].kind = "oneway" PROVE q \in DeadProcs
      OBVIOUS
    <3>2. w = NoThread
      BY <3>1, <1>3 DEF Sync
    <3>3. proc[q].is_dead
      BY <3>2, <1>2 DEF SendDead, TargetDead
    <3>. QED BY <3>3, <1>3, <1>ty, ProcViews
  <2>. QED BY <2>1, <2>2, <2>4, <2>5, <2>6
<1>12. \A u \in Threads : u # th =>
         /\ Todos'[u] = Todos[u] /\ Stacks'[u] = Stacks[u]
         /\ u \in Flagged' <=> u \in Flagged
         /\ ReturnErrors'[u] = ReturnErrors[u]
  BY <1>9, NextViews
<1>g. /\ Removed(Todos[th]) \in Seq(Work) /\ ToSet(Removed(Todos[th])) \subseteq ToSet(Todos[th])
      /\ \A x \in ToSet(Todos[th]) : x.type # "complete" => x \in ToSet(Removed(Todos[th]))
      /\ Once(Todos[th]) => Once(Removed(Todos[th]))
      /\ Head(Todos[th]).type # "complete" => Head(Removed(Todos[th])) = Head(Todos[th])
  BY <1>b, <1>e, RemovedOf
<1>13. /\ Todos'[th] = Append(Removed(Todos[th]), Item("return_error")) /\ Stacks'[th] = v
       /\ th \in Flagged' /\ ReturnErrors'[th] = "ERROR"
  <2>. QED BY <1>b, <1>9, NextViews
<1>15. /\ txn' \in [Txns -> Txn] /\ txn'[t] = FreedTxn
       /\ \A s \in Txns : s # t => txn'[s] = txn[s]
  BY <1>8, <1>3, <1>xt, FreedFields
<1>16. /\ buf' \in [Txns -> Buf] /\ buf'[t] = NoBuf
       /\ \A s \in Txns : s # t => buf'[s] = buf[s]
  BY <1>8, <1>3, <1>bt, GoneBuf
<1>17. pc' \in [Threads -> PCs] /\ pc'[th] = "put" /\ \A u \in Threads : u # th => pc'[u] = pc[u]
  BY <1>8, <1>ct DEF PCs
<1>18. Typed'
  BY <1>8, <1>9, <1>f, <1>15, <1>16, <1>17, <1>ty DEF Typed
<1>19. Stay(txn, txn', k, a, k2, a, {t}) /\ OnlyMoves(pc, loc, pc', loc, th)
  BY <1>6, <1>15, <1>17 DEF Stay, SameTxn, OnlyMoves
<1>20. Names(txn')
  <2>1. \A s \in Txns : txn'[s].kind = "unused" <=> txn[s].kind = "unused"
    BY <1>3, <1>15, FreedFields
  <2>. QED BY <2>1, <1>nm, NamesKeep
<1>21. TxnLists(ProcTodos, "proc", k2, a) /\ TxnLists(AsyncTodos, "async", k2, a)
       /\ ThreadLists(Todos, k2, a)
  <2>1. \A kind \in {"thread", "proc", "async"} : \A s \in Txns :
           k2[s] = kind \/ k[s] = kind => k2[s] = k[s] /\ a[s] = a[s]
    BY <1>3, <1>6
  <2>. QED BY <2>1, <1>pl, <1>al, <1>tl, ListsMove
<1>23. ThreadLists(Todos', k2, a)
  <2>1. ASSUME NEW u \in Threads PROVE ListOK(Todos'[u], k2, a, u)
    <3>1. ListOK(Todos[u], k2, a, u)
      BY <1>21 DEF ThreadLists
    <3>2. CASE u = th
      <4>1. PICK z \in Seq(Work) : z = Removed(Todos[th])
        BY <1>g
      <4>2. Once(z)
        BY <3>1, <3>2, <4>1, <1>g DEF ListOK
      <4>3. \A x \in ToSet(z) : IF x.type = "txn" THEN x.t \in Txns ELSE x.t = NoTxn
        BY <3>1, <3>2, <4>1, <1>g DEF ListOK
      <4>4. \A s \in Txns : TxnItem(s) \in ToSet(z) <=> TxnItem(s) \in ToSet(Todos[th])
        BY <4>1, <1>g, TxnItems
      <4>5. ListOK(z, k2, a, th)
        BY <4>2, <4>3, <4>4, <3>1, <3>2 DEF ListOK
      <4>6. Item("return_error") \notin ToSet(z)
        BY <4>1, <1>g, <1>e
      <4>. QED BY <4>1, <4>5, <4>6, <3>2, <1>13, ListNotice
    <3>3. CASE u # th
      BY <3>1, <3>3, <1>12
    <3>. QED BY <3>2, <3>3
  <2>. QED BY <2>1 DEF ThreadLists
<1>24. Carried(txn', Dead, pc', loc, k2, a)
  <2>1. \A s \in Txns : s \in {t} => CarrierOK(pc', loc, k2, a, s)
    BY <1>6 DEF CarrierOK
  <2>2. CarryOK(txn', Dead, pc', loc, k2, a, th)
    <3>1. CarryOK(txn, Dead, pc, loc, k, a, th)
      BY <1>ca DEF Carried
    <3>. QED BY <3>1, <1>1, <1>17 DEF CarryOK, Holds, Holding
  <2>. QED BY <2>1, <2>2, <1>4, <1>19, <1>ca, CarriedStep
<1>25. Failing(sfr, k2, a)
  <2>1. \A s \in Txns : k2[s] = "failing" \/ k[s] = "failing" => k2[s] = k[s] /\ a[s] = a[s]
    BY <1>3, <1>6
  <2>. QED BY <2>1, <1>fa, <1>ft, FailMove
<1>26. Placed(txn', Dead, k2, a)
  <2>1. PlaceOK(txn', Dead, k2, a, t)
    BY <1>6, <1>15, FreedFields DEF PlaceOK
  <2>2. \A s \in Txns : s \in {t} => PlaceOK(txn', Dead, k2, a, s)
    BY <2>1
  <2>3. ASSUME NEW s \in Txns, k[s] = "orphan", a[s] \in {t} PROVE FALSE
    <3>1. a[s] = t /\ Sync(txn, t) /\ txn[t].from = NoThread
      BY <2>3, <1>po DEF Placed, PlaceOK
    <3>. QED BY <3>1, <1>3, NullAssumption
  <2>. QED BY <2>2, <2>3, <1>19, <1>po, PlacedStep
<1>27. Tree(txn', Dead, k2, a, r)
  <2>3. txn'[t].kind # "sync" /\ txn'[t].from = NoThread /\ txn'[t].from_parent = NoTxn
    BY <1>15, FreedFields
  <2>4. \A s \in Txns : s # t /\ s # txn[t].from_parent => k2[s] = k[s] /\ a[s] = a[s]
    BY <1>6
  <2>5. t \in Txns /\ NoChild(txn, t) /\ \A s \in Txns : s # t => txn'[s] = txn[s]
    BY <1>3, <1>15
  <2>. QED BY <2>3, <2>4, <2>5, <1>xt, <1>tr, TreeEnd
<1>28. AllStacks(txn', Dead, Stacks', k2, a, r)
  <2>1. ASSUME NEW u \in Threads PROVE ~Mine(txn', k2, a, u, t)
    BY <1>15, FreedFields DEF Mine, Sync
  <2>2. \A s \in Txns : s \in {t} /\ s # t => \A u \in Threads : Alike(txn, txn', k, a, k2, a, u, s)
    OBVIOUS
  <2>3. ASSUME NEW u \in Threads, u \notin Dead
        PROVE  Stacks'[u] = IF Stacks[u] = t THEN Below(txn, u, t) ELSE Stacks[u]
    <3>1. Stacks[u] = t <=> Mine(txn, k, a, u, t)
      BY <2>3, <1>3, <1>xt, <1>kt, <1>tr, <1>st, EndSeen
    <3>2. CASE u = th
      <4>1. CASE Sync(txn, t)
        BY <3>2, <4>1, <1>a, <1>c, <1>13
      <4>2. CASE ~Sync(txn, t)
        <5>1. Stacks[u] # t
          BY <3>1, <4>2 DEF Mine
        <5>. QED BY <5>1, <3>2, <4>2, <1>c, <1>13
      <4>. QED BY <4>1, <4>2
    <3>3. CASE u # th
      <4>1. Stacks[u] # t
        BY <3>1, <3>3, <1>3 DEF Mine
      <4>. QED BY <4>1, <3>3, <1>12
    <3>. QED BY <3>2, <3>3
  <2>4. \A u \in Threads : u \notin Dead =>
          \/ Alike(txn, txn', k, a, k2, a, u, t) /\ Stacks'[u] = Stacks[u]
          \/ /\ ~Mine(txn', k2, a, u, t)
             /\ Stacks'[u] = IF Stacks[u] = t THEN Below(txn, u, t) ELSE Stacks[u]
    BY <2>1, <2>3
  <2>. QED BY <2>2, <2>4, <1>3, <1>19, <1>xt, <1>kt, <1>tr, <1>st, StacksEnd
<1>29. Directed(txn', Dead, Stacks', Todos', pc', loc, k2, a, r)
  <2>1. Leaves(txn, {t})
    BY <1>3 DEF Leaves
  <2>2. \A s \in Txns : s \in {t} => QueuedOK(txn', Dead, Stacks', Todos', k2, a, r, s)
    BY <1>6 DEF QueuedOK
  <2>3. Calm(txn, pc, loc, k, a, {t}, Stacks, Stacks')
    <3>1. CASE Sync(txn, t)
      <4>1. Stacks[th] # NoTxn /\ NoChild(txn, Stacks[th])
        BY <3>1, <1>a, <1>3, TxnNumbers
      <4>2. PICK M : M = {t}
        OBVIOUS
      <4>3. Quiet(txn, pc, loc, k, a, M, th)
        BY <4>1, <1>5, <1>xt, <1>kt, <1>di, <1>tr, <1>ca, EndQuiet
      <4>. QED BY <4>2, <4>3, <1>12 DEF Calm
    <3>2. CASE ~Sync(txn, t)
      <4>1. \A u \in Threads : Stacks'[u] = Stacks[u]
        BY <3>2, <1>12, <1>13, <1>c
      <4>. QED BY <4>1 DEF Calm
    <3>. QED BY <3>1, <3>2
  <2>4. ASSUME NEW s \in Txns, k[s] = "thread", Head(Todos[a[s]]) = TxnItem(s)
        PROVE  Head(Todos'[a[s]]) = TxnItem(s)
    <3>1. a[s] \in Threads
      BY <2>4, <1>po DEF Placed, PlaceOK
    <3>2. CASE a[s] = th
      <4>1. PICK z \in Seq(Work) : z = Removed(Todos[th])
        BY <1>g
      <4>2. TxnItem(s) \in ToSet(Todos[th]) /\ TxnItem(s).type # "complete"
        BY <2>4, <3>2, <1>tl, TxnItems DEF ThreadLists, ListOK
      <4>3. TxnItem(s) \in ToSet(z) /\ Head(z) = TxnItem(s)
        BY <4>1, <4>2, <2>4, <3>2, <1>g
      <4>4. Item("return_error") \in Work
        BY TxnItems
      <4>5. Head(Append(z, Item("return_error"))) = Head(z)
        BY <4>3, <4>4, HeadAppend
      <4>. QED BY <4>1, <4>3, <4>5, <3>2, <1>13
    <3>3. CASE a[s] # th
      BY <2>4, <3>1, <3>3, <1>12
    <3>. QED BY <3>2, <3>3
  <2>5. ASSUME NEW u \in Threads, pc'[u] = "send"
        PROVE  pc[u] = "send" /\ loc[u] = loc[u] /\ loc[u].t \notin {t}
    <3>1. u # th /\ pc[u] = "send"
      BY <2>5, <1>17
    <3>2. SendCarry(txn, loc[u], u, k, a)
      BY <3>1, <1>ca DEF Carried, CarryOK
    <3>. QED BY <3>1, <3>2, <1>3 DEF SendCarry
  <2>6. \A s \in Txns : s \notin {t} => r[s] = r[s]
    OBVIOUS
  <2>. QED BY <2>1, <2>2, <2>3, <2>4, <2>5, <2>6, <1>19, <1>xt, <1>kt, <1>di, <1>tr, <1>po, <1>ca,
       DirectedStep
<1>30. Buffers(txn', buf', loc, k2, a)
  <2>1. BufferOK(txn', buf', loc, k2, a, t)
    BY <1>6, <1>15, <1>16, GoneBuf DEF BufferOK
  <2>3. \A s \in Txns : s \notin {t} => txn'[s] = txn[s] /\ buf'[s] = buf[s]
    BY <1>15, <1>16
  <2>4. \A s \in Txns : s \in {t} => BufferOK(txn', buf', loc, k2, a, s)
    BY <2>1
  <2>. QED BY <2>3, <2>4, <1>4, <1>19, <1>bu, <1>ca, BuffersStep
<1>31. Drops(txn', buf', pc', loc, sfr)
  <2>1. ASSUME NEW u \in Threads, u # th, pc[u] = "dropbuf"
        PROVE  loc[u].t \notin {t} /\ sfr[u] = sfr[u]
    <3>1. k[t] \notin {"none", "failing"}
      BY <1>3
    <3>2. loc[u].t # t
      BY <2>1, <3>1, <1>3, <1>dr, <1>po, <1>fa, <1>bu, DropFree
    <3>. QED BY <3>2
  <2>2. \A s \in Txns : s \notin {t} => buf'[s] = buf[s]
    BY <1>16
  <2>3. th \in Threads /\ pc'[th] = "dropbuf" => DropOK(txn', buf', pc', loc, sfr, th)
    BY <1>17
  <2>. QED BY <2>1, <2>2, <2>3, <1>19, <1>dr, DropsStep
<1>32. ThreadStates(Dead, Stacks', Todos', Waiting, pc', loc, sfr)
  <2>1. ASSUME NEW u \in Threads PROVE ThreadOK(Dead, Stacks', Todos', Waiting, pc', loc, sfr, u)
    <3>1. ThreadOK(Dead, Stacks, Todos, Waiting, pc, loc, sfr, u)
      BY <1>ts DEF ThreadStates
    <3>2. CASE u = th
      BY <3>1, <3>2, <1>5, <1>17 DEF ThreadOK
    <3>3. CASE u # th
      BY <3>1, <3>3, <1>12, <1>17 DEF ThreadOK
    <3>. QED BY <3>2, <3>3
  <2>. QED BY <2>1 DEF ThreadStates
<1>33. ProcStates(ProcSts, DeadProcs, ProcTodos, ProcRefs, LiveNodes, AsyncTodos, pc', sfr)
  <2>2. \A u \in Threads :
          \/ ProcSts[ProcOf[u]] = "open"
          \/ pc'[u] = pc[u] /\ (sfr[u] = sfr[u] \/ pc[u] # "user")
    BY <1>5, <1>17
  <2>. QED BY <2>2, <1>ps, ProcStatesKeep
<1>34. ThreadCounts(ThreadRefs, pc', loc) /\ ProcCounts(Dead, ThreadRefs, ProcSts, ProcRefs, pc', loc)
  <2>1. \A u \in Threads : SameHolds(pc, loc, pc', loc, u)
    BY <1>1, <1>17 DEF SameHolds, Holding
  <2>2. \A u \in Threads : pc'[u] = "release" <=> pc[u] = "release"
    BY <1>1, <1>17
  <2>. QED BY <2>1, <2>2, <1>tc, <1>pc, CountsKeep
<1>35. Oneways(buf', DeadProcs, LiveNodes, AsyncNodes', AsyncTodos, pc', loc)
  <2>1. buf'[t].st = "none" /\ \A s \in Txns : s # t => buf'[s] = buf[s]
    BY <1>16, GoneBuf
  <2>2. LiveNodes \subseteq Procs
    BY DEF LiveNodes
  <2>3. MarksDead(LiveNodes, DeadProcs, AsyncNodes, AsyncNodes')
    BY <2>2, <1>f DEF MarksDead
  <2>4. pc[th] = "send" /\ pc'[th] # "send" /\ loc[th].t = t /\ t \in Txns
    BY <1>1, <1>2, <1>3, <1>17
  <2>5. OnlyMoves(pc, loc, pc', loc, th)
    BY <1>19
  <2>. QED BY <2>1, <2>3, <2>4, <2>5, <1>ow, OnewayUndone, SMTT(60)
<1>36. Notices(Dead, Todos', ReturnErrors', ReplyErrors, pc')
  <2>1. ASSUME NEW u \in Threads PROVE NoticeOK(Dead, Todos', ReturnErrors', ReplyErrors, pc', u)
    <3>1. NoticeOK(Dead, Todos, ReturnErrors, ReplyErrors, pc, u)
      BY <1>no DEF Notices
    <3>2. CASE u = th
      <4>1. ToSet(Todos'[th]) = ToSet(Removed(Todos[th])) \cup {Item("return_error")}
        BY <1>13, <1>g, NoticeLast
      <4>2. Item("return_error") # Item("reply_error") /\ Item("reply_error").type # "complete"
        BY NoticeTypes, TxnItems
      <4>3. ReturnErrors'[th] # "OK" /\ pc'[th] = "put"
        BY <1>17, <1>13
      <4>4. Item("reply_error") \in ToSet(Todos'[th]) <=> Item("reply_error") \in ToSet(Todos[th])
        BY <4>1, <4>2, <1>g
      <4>. QED BY <3>1, <3>2, <4>3, <4>4 DEF NoticeOK
    <3>3. CASE u # th
      BY <3>1, <3>3, <1>12, <1>17 DEF NoticeOK
    <3>. QED BY <3>2, <3>3
  <2>. QED BY <2>1 DEF Notices
<1>37. Flags(txn', Dead, Stacks', Todos', Flagged')
  <2>1. ASSUME NEW u \in Threads, u \notin Dead PROVE FlagOK(txn', Stacks', Todos', Flagged', u)
    <3>1. FlagOK(txn, Stacks, Todos, Flagged, u)
      BY <2>1, <1>fl DEF Flags
    <3>2. CASE u = th
      <4>1. Todos'[th] # <<>>
        BY <1>13, <1>g, NoticeLast
      <4>. QED BY <4>1, <3>2, <1>13 DEF FlagOK
    <3>3. CASE u # th
      <4>1. Stacks[u] \in 0 .. MaxTxns
        BY <1>kt
      <4>2. txn[t].from \in {th, NoThread}
        BY <1>3, <1>tr DEF Tree, CallOK
      <4>3. Stacks[u] # NoTxn /\ txn[Stacks[u]].from = u => txn'[Stacks[u]].from = u
        BY <4>1, <4>2, <3>3, <1>15, TxnNumbers, NullAssumption
      <4>. QED BY <3>1, <3>3, <4>3, <1>12 DEF FlagOK
    <3>. QED BY <3>2, <3>3
  <2>. QED BY <2>1 DEF Flags
<1>38. Inv(k2, a, r)'
  BY <1>7, <1>8, <1>f, <1>10, <1>11, <1>18, <1>20, <1>21, <1>23, <1>24, <1>25, <1>26, <1>27,
     <1>28, <1>29, <1>30, <1>31, <1>32, <1>33, <1>34, <1>35, <1>36, <1>37, Whole
<1>. QED BY <1>38

\* The transaction a thread reads is off its list.
Rest(s) == IF s # <<>> THEN Tail(s) ELSE <<>>

\* A thread takes the first item of its list.
LEMMA TakeTxnOf ==
  ASSUME NEW T \in [Threads -> Thr], NEW th \in Threads
  PROVE  /\ TakeTxn(T, th) \in [Threads -> Thr]
         /\ \A u \in Threads : u # th => TakeTxn(T, th)[u] = T[u]
         /\ TakeTxn(T, th)[th].stack = T[th].stack
         /\ TakeTxn(T, th)[th].todo = Rest(T[th].todo)
         /\ TakeTxn(T, th)[th].process_todo <=> T[th].process_todo /\ Rest(T[th].todo) # <<>>
         /\ TakeTxn(T, th)[th].return_error = T[th].return_error
         /\ TakeTxn(T, th)[th].reply_error = T[th].reply_error
         /\ TakeTxn(T, th)[th].waiting = T[th].waiting
         /\ TakeTxn(T, th)[th].is_dead = T[th].is_dead
         /\ TakeTxn(T, th)[th].tmp_ref = T[th].tmp_ref
<1>1. CASE T[th].todo # <<>>
  <2>1. TakeTxn(T, th) = DequeueHead(T, th) /\ Rest(T[th].todo) = Tail(T[th].todo)
    BY <1>1 DEF TakeTxn, Rest
  <2>. DEFINE S == DequeueHead(T, th)
  <2>2. /\ S \in [Threads -> Thr]
        /\ \A u \in Threads : u # th => S[u] = T[u]
        /\ S[th].stack = T[th].stack /\ S[th].todo = Tail(T[th].todo)
        /\ S[th].process_todo <=> T[th].process_todo /\ Tail(T[th].todo) # <<>>
        /\ S[th].return_error = T[th].return_error /\ S[th].reply_error = T[th].reply_error
        /\ S[th].waiting = T[th].waiting /\ S[th].is_dead = T[th].is_dead
        /\ S[th].tmp_ref = T[th].tmp_ref
    BY <1>1, DequeueHeadOf
  <2>3. TakeTxn(T, th) = S
    BY <2>1
  <2>. HIDE DEF S
  <2>. QED BY <2>1, <2>2, <2>3
<1>2. CASE T[th].todo = <<>>
  <2>1. Rest(T[th].todo) = <<>>
    BY <1>2 DEF Rest
  <2>2. TakeTxn(T, th) = [T EXCEPT ![th].process_todo = FALSE]
    BY <1>2 DEF TakeTxn
  <2>3. T[th] \in Thr
    OBVIOUS
  <2>. QED BY <1>2, <2>1, <2>2, <2>3, ZenonT(90) DEF Thr
<1>. QED BY <1>1, <1>2

\* Who reads, and what is read.
LEMMA ReadFacts ==
  ASSUME NEW k, NEW a, NEW r, Inv(k, a, r), NEW th \in Threads, NEW t \in Txns, ReadsTxn(th, t)
  PROVE  /\ pc[th] = "loop" /\ th \notin Dead /\ th \notin Waiting /\ sfr[th] = NoTxn
         /\ ProcOf[th] \in Procs /\ ProcSts[ProcOf[th]] = "open"
         /\ k[t] \in {"thread", "proc"} /\ txn[t].to_proc = ProcOf[th]
         /\ \/ k[t] = "thread" /\ a[t] = th /\ Head(Todos[th]) = TxnItem(t) /\ Todos[th] # <<>>
            \/ /\ k[t] = "proc" /\ a[t] = ProcOf[th] /\ Todos[th] = <<>> /\ Stacks[th] = NoTxn
               /\ ProcTodos[ProcOf[th]] # <<>> /\ Head(ProcTodos[ProcOf[th]]) = t
         /\ NoChild(txn, t) /\ Fresh(txn[t], buf[t])
<1>ty. Typed /\ bug = FALSE
  BY Parts
<1>lt. Todos \in [Threads -> Seq(Work)]
  BY Parts
<1>qt. ProcTodos \in [Procs -> Seq(Txns)] /\ AsyncTodos \in [Procs -> Seq(Txns)]
  BY Parts
<1>tl. ThreadLists(Todos, k, a)
  BY Parts
<1>pl. TxnLists(ProcTodos, "proc", k, a)
  BY Parts
<1>po. Placed(txn, Dead, k, a)
  BY Parts
<1>tr. Tree(txn, Dead, k, a, r)
  BY Parts
<1>bu. Buffers(txn, buf, loc, k, a)
  BY Parts
<1>1. pc[th] = "loop" /\ sfr[th] = NoTxn
  BY DEF ReadsTxn
<1>2. /\ ProcOf[th] \in Procs /\ proc[ProcOf[th]].st = "open" /\ ~thr[th].is_dead
      /\ ~thr[th].waiting
      /\ loc[th].wait_for_proc_work => thr[th].stack = NoTxn
  BY <1>1, ThreadFacts
<1>3. /\ Todos[th] = thr[th].todo /\ Todos[th] \in Seq(Work) /\ Stacks[th] = thr[th].stack
      /\ th \in Dead <=> thr[th].is_dead
      /\ th \in Waiting <=> thr[th].waiting
  BY <1>ty, ThreadViews
<1>4. /\ ProcSts[ProcOf[th]] = proc[ProcOf[th]].st
      /\ ProcTodos[ProcOf[th]] = proc[ProcOf[th]].todo /\ ProcTodos[ProcOf[th]] \in Seq(Txns)
  BY <1>2, <1>ty, ProcViews
<1>5. \/ k[t] = "thread" /\ a[t] = th /\ Head(Todos[th]) = TxnItem(t) /\ Todos[th] # <<>>
      \/ /\ k[t] = "proc" /\ a[t] = ProcOf[th] /\ Todos[th] = <<>> /\ Stacks[th] = NoTxn
         /\ ProcTodos[ProcOf[th]] # <<>> /\ Head(ProcTodos[ProcOf[th]]) = t
  <2>1. CASE Todos[th] # <<>>
    <3>1. Head(Todos[th]) = TxnItem(t)
      BY <2>1, <1>3 DEF ReadsTxn
    <3>2. TxnItem(t) \in ToSet(Todos[th])
      BY <2>1, <3>1, <1>3, SeqTail
    <3>. QED BY <2>1, <3>1, <3>2, <1>tl DEF ThreadLists, ListOK
  <2>2. CASE Todos[th] = <<>>
    <3>1. /\ ProcTodos[ProcOf[th]] # <<>> /\ Head(ProcTodos[ProcOf[th]]) = t
          /\ loc[th].wait_for_proc_work
      BY <2>2, <1>3, <1>4 DEF ReadsTxn
    <3>2. t \in ToSet(ProcTodos[ProcOf[th]])
      BY <3>1, <1>4, SeqTail
    <3>3. k[t] = "proc" /\ a[t] = ProcOf[th]
      BY <3>2, <1>2, <1>pl DEF TxnLists, TxnListOK
    <3>. QED BY <2>2, <3>1, <3>3, <1>2, <1>3
  <2>. QED BY <2>1, <2>2
<1>6. txn[t].to_proc = ProcOf[th]
  BY <1>5, <1>po DEF Placed, PlaceOK
<1>7. NoChild(txn, t)
  BY <1>5, <1>tr, LeafNoChild
<1>8. Fresh(txn[t], buf[t])
  BY <1>5, <1>bu DEF Buffers, BufferOK
<1>. QED BY <1>1, <1>2, <1>3, <1>4, <1>5, <1>6, <1>7, <1>8

\* The lists after binder_thread_read has taken a transaction.
LEMMA ReadLists ==
  ASSUME NEW k, NEW a, NEW r, Inv(k, a, r), NEW th \in Threads, NEW t \in Txns, ReadsTxn(th, t),
         NEW k2, NEW a2, SameBut(k, a, k2, a2, t), k2[t] \notin {"thread", "proc", "async"},
         NEW L2, NEW Q2, L2[th] = Rest(Todos[th]), \A u \in Threads : u # th => L2[u] = Todos[u],
         \A p \in Procs : Q2[p] = IF Todos[th] = <<>> /\ p = ProcOf[th]
                                  THEN Tail(ProcTodos[p]) ELSE ProcTodos[p]
  PROVE  /\ ThreadLists(L2, k2, a2) /\ TxnLists(Q2, "proc", k2, a2)
         /\ TxnLists(AsyncTodos, "async", k2, a2)
         /\ \A s \in Txns : s # t /\ k[s] = "thread" /\ Head(Todos[a[s]]) = TxnItem(s) =>
              Head(L2[a[s]]) = TxnItem(s)
<1>lt. Todos \in [Threads -> Seq(Work)]
  BY Parts
<1>qt. ProcTodos \in [Procs -> Seq(Txns)] /\ AsyncTodos \in [Procs -> Seq(Txns)]
  BY Parts
<1>tl. ThreadLists(Todos, k, a)
  BY Parts
<1>pl. TxnLists(ProcTodos, "proc", k, a)
  BY Parts
<1>al. TxnLists(AsyncTodos, "async", k, a)
  BY Parts
<1>po. Placed(txn, Dead, k, a)
  BY Parts
<1>1. /\ \/ k[t] = "thread" /\ a[t] = th /\ Head(Todos[th]) = TxnItem(t) /\ Todos[th] # <<>>
         \/ /\ k[t] = "proc" /\ a[t] = ProcOf[th] /\ Todos[th] = <<>>
            /\ ProcTodos[ProcOf[th]] # <<>> /\ Head(ProcTodos[ProcOf[th]]) = t
      /\ ProcOf[th] \in Procs
  BY ReadFacts
<1>2. Todos[th] \in Seq(Work)
  BY <1>lt
<1>3. ASSUME NEW u \in Threads PROVE ListOK(L2[u], k2, a2, u)
  <2>1. ListOK(Todos[u], k, a, u)
    BY <1>tl DEF ThreadLists
  <2>2. CASE u = th /\ Todos[th] # <<>>
    <3>1. L2[u] = Tail(Todos[th]) /\ Head(Todos[th]) = TxnItem(t)
      BY <2>2, <1>1 DEF Rest
    <3>. QED BY <2>1, <2>2, <3>1, <1>2, ListTake
  <2>3. CASE u # th \/ Todos[th] = <<>>
    <3>1. L2[u] = Todos[u]
      BY <2>3 DEF Rest
    <3>2. t \in Txns => ~(k[t] = "thread" /\ a[t] = u) /\ ~(k2[t] = "thread" /\ a2[t] = u)
      BY <2>3, <1>1
    <3>. QED BY <2>1, <3>1, <3>2, ListKeep
  <2>. QED BY <2>2, <2>3
<1>4. ASSUME NEW p \in Procs PROVE TxnListOK(Q2[p], "proc", k2, a2, p)
  <2>1. TxnListOK(ProcTodos[p], "proc", k, a, p) /\ ProcTodos[p] \in Seq(Txns)
    BY <1>pl, <1>qt DEF TxnLists
  <2>2. CASE p = ProcOf[th] /\ Todos[th] = <<>>
    <3>1. Q2[p] = Tail(ProcTodos[p]) /\ ProcTodos[p] # <<>> /\ Head(ProcTodos[p]) = t
      BY <2>2, <1>1
    <3>2. k2[t] # "proc"
      OBVIOUS
    <3>. QED BY <2>1, <3>1, <3>2, TxnListTake
  <2>3. CASE p # ProcOf[th] \/ Todos[th] # <<>>
    <3>1. Q2[p] = ProcTodos[p]
      BY <2>3
    <3>2. t \in Txns => ~(k[t] = "proc" /\ a[t] = p) /\ ~(k2[t] = "proc" /\ a2[t] = p)
      BY <2>3, <1>1
    <3>. QED BY <2>1, <3>1, <3>2, TxnListKeep
  <2>. QED BY <2>2, <2>3
<1>5. TxnLists(AsyncTodos, "async", k2, a2)
  <2>1. t \in Txns => k[t] # "async" /\ k2[t] # "async"
    BY <1>1
  <2>. QED BY <2>1, <1>al, TxnListsKeep
<1>6. ASSUME NEW s \in Txns, s # t, k[s] = "thread", Head(Todos[a[s]]) = TxnItem(s)
      PROVE  Head(L2[a[s]]) = TxnItem(s)
  <2>1. a[s] \in Threads
    BY <1>6, <1>po DEF Placed, PlaceOK
  <2>2. CASE a[s] = th
    <3>1. TxnItem(s) \in ToSet(Todos[th])
      BY <1>6, <2>2, <1>tl DEF ThreadLists, ListOK
    <3>2. Todos[th] # <<>>
      BY <3>1, SeqSmall
    <3>3. TxnItem(s) = TxnItem(t)
      BY <3>2, <1>1, <1>6, <2>2
    <3>. QED BY <3>3, <1>6, TxnItems
  <2>3. CASE a[s] # th
    BY <1>6, <2>1, <2>3
  <2>. QED BY <2>2, <2>3
<1>7. ThreadLists(L2, k2, a2) /\ TxnLists(Q2, "proc", k2, a2)
  BY <1>3, <1>4 DEF ThreadLists, TxnLists
<1>. QED BY <1>5, <1>6, <1>7

\* x takes t off a list and either begins to fail it or has freed it; what
\* becomes of the buffer does not matter much.
Taken(x, t, k, a, k2, a2) ==
  /\ SameBut(k, a, k2, a2, t)
  /\ txn' \in [Txns -> Txn] /\ buf' \in [Txns -> Buf]
  /\ sfr' \in [Threads \cup Procs -> 0 .. MaxTxns]
  /\ \A s \in Txns : s # t => txn'[s] = txn[s] /\ buf'[s] = buf[s]
  /\ \A y \in Threads \cup Procs : y # x => sfr'[y] = sfr[y]
  /\ buf'[t].st # "none" /\ buf'[t].node = buf[t].node
  /\ buf'[t].async <=> buf[t].async
  /\ BufOK(txn'[t], buf'[t])
  /\ \/ /\ Sync(txn, t) /\ k2[t] = "failing" /\ a2[t] = x
        /\ sfr[x] = NoTxn /\ sfr'[x] = t /\ txn'[t] = txn[t]
     \/ /\ ~Sync(txn, t) /\ k2[t] = "none"
        /\ sfr'[x] = sfr[x] /\ txn'[t] = FreedTxn

\* A transaction taken from a list and failed or freed.
LEMMA TakenFacts ==
  ASSUME NEW k, NEW a, NEW k2, NEW a2, NEW t \in Txns, NEW x \in Threads \cup Procs,
         Taken(x, t, k, a, k2, a2), k[t] \in {"thread", "proc"}
  PROVE  /\ SameBut(k, a, k2, a2, t) /\ k2[t] \in {"failing", "none"}
         /\ k2[t] = "failing" => txn'[t] = txn[t] /\ Sync(txn, t) /\ a2[t] = x /\ sfr'[x] = t
         /\ k2[t] = "none" => txn'[t] = FreedTxn /\ ~Sync(txn, t)
         /\ \A s \in Txns : s # t => txn'[s] = txn[s] /\ buf'[s] = buf[s]
         /\ \A y \in Threads \cup Procs : y # x => sfr'[y] = sfr[y]
         /\ Stay(txn, txn', k, a, k2, a2, {t})
<1>1. Stay(txn, txn', k, a, k2, a2, {t})
  BY DEF Taken, SameBut, Stay, SameTxn
<1>. QED BY <1>1 DEF Taken

\* Calls and places after it.
LEMMA TakenCalls ==
  ASSUME NEW k, NEW a, NEW r, Inv(k, a, r), NEW x \in Threads \cup Procs, NEW t \in Txns,
         NEW k2, NEW a2, Taken(x, t, k, a, k2, a2), k[t] \in {"thread", "proc"},
         (x \in Procs /\ txn[t].to_proc = x) \/ (x \in Threads /\ txn[t].to_proc = ProcOf[x])
  PROVE  /\ Names(txn') /\ Failing(sfr', k2, a2) /\ Placed(txn', Dead, k2, a2)
         /\ Tree(txn', Dead, k2, a2, r) /\ NoChild(txn, t)
<1>xt. txn \in [Txns -> Txn]
  BY Parts
<1>nm. Names(txn)
  BY Parts
<1>ft. sfr \in [Threads \cup Procs -> 0 .. MaxTxns]
  BY Parts
<1>fa. Failing(sfr, k, a)
  BY Parts
<1>po. Placed(txn, Dead, k, a)
  BY Parts
<1>tr. Tree(txn, Dead, k, a, r)
  BY Parts
<1>1. /\ SameBut(k, a, k2, a2, t) /\ k2[t] \in {"failing", "none"}
      /\ k2[t] = "failing" => txn'[t] = txn[t] /\ Sync(txn, t) /\ a2[t] = x /\ sfr'[x] = t
      /\ k2[t] = "none" => txn'[t] = FreedTxn /\ ~Sync(txn, t)
  BY TakenFacts
<1>2. \A s \in Txns : s # t => txn'[s] = txn[s]
  BY TakenFacts
<1>3. NoChild(txn, t)
  BY <1>tr, LeafNoChild
<1>4. Names(txn')
  <2>1. PlaceOK(txn, Dead, k, a, t)
    BY <1>po DEF Placed
  <2>2. txn[t].kind # "unused"
    BY <2>1 DEF PlaceOK
  <2>3. \A s \in Txns : txn'[s].kind = "unused" <=> txn[s].kind = "unused"
    BY <2>2, <1>1, <1>2, FreedFields
  <2>. QED BY <2>3, <1>nm, NamesKeep
<1>5. Failing(sfr', k2, a2)
  <2>1. CASE k2[t] = "failing"
    <3>1. /\ sfr[x] = NoTxn /\ k[t] # "failing" /\ a2[t] = x /\ sfr'[x] = t
      BY <2>1 DEF Taken
    <3>2. \A y \in Threads \cup Procs : y # x => sfr'[y] = sfr[y]
      BY TakenFacts, ZenonT(90)
    <3>. QED BY <2>1, <3>1, <3>2, <1>1, <1>fa, <1>ft, FailStart, SMTT(60)
  <2>2. CASE k2[t] = "none"
    <3>1. \A y \in Threads \cup Procs : sfr'[y] = sfr[y]
      BY <2>2 DEF Taken
    <3>2. sfr' \in [Threads \cup Procs -> 0 .. MaxTxns]
      BY DEF Taken
    <3>3. sfr' = sfr
      BY <3>1, <3>2, <1>ft
    <3>4. t \in Txns => k[t] # "failing" /\ k2[t] # "failing"
      BY <2>2
    <3>5. Failing(sfr, k2, a2)
      BY <3>4, <1>1, <1>fa, <1>ft, FailKeep
    <3>. QED BY <3>3, <3>5
  <2>. QED BY <2>1, <2>2, <1>1
<1>6. Placed(txn', Dead, k2, a2)
  <2>1. PlaceOK(txn, Dead, k, a, t)
    BY <1>po DEF Placed
  <2>2. PlaceOK(txn', Dead, k2, a2, t)
    <3>1. CASE k2[t] = "failing"
      BY <3>1, <2>1, <1>1 DEF PlaceOK, Sync
    <3>2. CASE k2[t] = "none"
      BY <3>2, <1>1, FreedFields DEF PlaceOK
    <3>. QED BY <3>1, <3>2, <1>1
  <2>3. ASSUME NEW s \in Txns, k[s] = "orphan", a[s] \in {t}
        PROVE  /\ txn'[a[s]].kind = txn[a[s]].kind /\ txn'[a[s]].from = txn[a[s]].from
               /\ txn'[a[s]].from_parent = txn[a[s]].from_parent
    <3>1. a[s] = t /\ Sync(txn, t)
      BY <2>3, <1>po DEF Placed, PlaceOK
    <3>. QED BY <3>1, <1>1
  <2>4. \A s \in Txns : s \in {t} => PlaceOK(txn', Dead, k2, a2, s)
    BY <2>2
  <2>5. Stay(txn, txn', k, a, k2, a2, {t})
    BY TakenFacts
  <2>. QED BY <2>3, <2>4, <2>5, <1>po, PlacedStep
<1>7. Tree(txn', Dead, k2, a2, r)
  <2>1. CASE k2[t] = "failing"
    <3>1. \A s \in Txns : s # t => k2[s] = k[s] /\ a2[s] = a[s]
      BY <1>1 DEF SameBut
    <3>2. Keeps(txn, k, a, k2, a2)
      BY <3>1, <1>3, <1>xt, KeepsMove
    <3>3. \A s \in Txns : txn'[s] = txn[s]
      BY <2>1, <1>1, <1>2
    <3>4. \A s \in Txns : /\ txn'[s].kind = txn[s].kind /\ txn'[s].from = txn[s].from
                          /\ txn'[s].from_parent = txn[s].from_parent
                          /\ txn'[s].to_proc = txn[s].to_proc
                          /\ txn'[s].to_thread = txn[s].to_thread
      BY <3>3
    <3>. QED BY <3>2, <3>4, <1>xt, <1>tr, TreeKeep
  <2>2. CASE k2[t] = "none"
    <3>1. txn'[t].kind # "sync" /\ txn'[t].from = NoThread /\ txn'[t].from_parent = NoTxn
      BY <2>2, <1>1, FreedFields
    <3>2. \A s \in Txns : s # t /\ s # txn[t].from_parent => k2[s] = k[s] /\ a2[s] = a[s]
      BY <1>1 DEF SameBut
    <3>. QED BY <3>1, <3>2, <1>2, <1>3, <1>xt, <1>tr, TreeEnd
  <2>. QED BY <2>1, <2>2, <1>1
<1>. QED BY <1>3, <1>4, <1>5, <1>6, <1>7

\* t is on no stack as a call that is served, and stays where its caller has it.
LEMMA TakenStacks ==
  ASSUME NEW k, NEW a, NEW r, Inv(k, a, r), NEW x \in Threads \cup Procs, NEW t \in Txns,
         NEW k2, NEW a2, Taken(x, t, k, a, k2, a2), k[t] \in {"thread", "proc"}
  PROVE  AllStacks(txn', Dead, Stacks, k2, a2, r)
<1>xt. txn \in [Txns -> Txn]
  BY Parts
<1>kt. Stacks \in [Threads -> 0 .. MaxTxns]
  BY Parts
<1>tr. Tree(txn, Dead, k, a, r)
  BY Parts
<1>st. AllStacks(txn, Dead, Stacks, k, a, r)
  BY Parts
<1>1. /\ k2[t] \in {"failing", "none"}
      /\ k2[t] = "failing" => txn'[t] = txn[t]
      /\ k2[t] = "none" => txn'[t] = FreedTxn /\ ~Sync(txn, t)
  BY TakenFacts
<1>2. NoChild(txn, t)
  BY <1>tr, LeafNoChild
<1>3. ASSUME NEW u \in Threads PROVE Alike(txn, txn', k, a, k2, a2, u, t)
  <2>1. CASE k2[t] = "failing"
    BY <2>1, <1>1 DEF Alike, Mine, Below, Sync
  <2>2. CASE k2[t] = "none"
    <3>1. ~Sync(txn, t) /\ ~Sync(txn', t)
      BY <2>2, <1>1, FreedFields DEF Sync
    <3>. QED BY <3>1 DEF Alike, Mine
  <2>. QED BY <2>1, <2>2, <1>1
<1>4. \A s \in Txns : s \in {t} /\ s # t => \A u \in Threads : Alike(txn, txn', k, a, k2, a2, u, s)
  OBVIOUS
<1>5. \A u \in Threads : u \notin Dead =>
          \/ Alike(txn, txn', k, a, k2, a2, u, t) /\ Stacks[u] = Stacks[u]
          \/ /\ ~Mine(txn', k2, a2, u, t)
             /\ Stacks[u] = IF Stacks[u] = t THEN Below(txn, u, t) ELSE Stacks[u]
  BY <1>3
<1>6. Stay(txn, txn', k, a, k2, a2, {t})
  BY TakenFacts
<1>. QED BY <1>2, <1>4, <1>5, <1>6, <1>xt, <1>kt, <1>tr, <1>st, StacksEnd

\* x is a thread that is in no call of its own, or the worker.
Idle(x, PC2) ==
  x \in Threads => pc[x] \notin {"send", "reply"} /\ PC2[x] \notin {"send", "reply", "put"}

\* What threads carry, buffers and one-way calls after it.
LEMMA TakenMoves ==
  ASSUME NEW k, NEW a, NEW r, Inv(k, a, r), NEW x \in Threads \cup Procs, NEW t \in Txns,
         NEW k2, NEW a2, Taken(x, t, k, a, k2, a2), k[t] \in {"thread", "proc"},
         NEW PC2, NEW LC2, OnlyMoves(pc, loc, PC2, LC2, x), Idle(x, PC2)
  PROVE  /\ Carried(txn', Dead, PC2, LC2, k2, a2) /\ Buffers(txn', buf', LC2, k2, a2)
         /\ Oneways(buf', DeadProcs, LiveNodes, AsyncNodes, AsyncTodos, PC2, LC2)
         /\ \A L2 : (\A s \in Txns : s # t /\ k[s] = "thread" /\ Head(Todos[a[s]]) = TxnItem(s) =>
                       Head(L2[a[s]]) = TxnItem(s)) =>
              Directed(txn', Dead, Stacks, L2, PC2, LC2, k2, a2, r)
         /\ (x \in Threads /\ PC2[x] = "dropbuf" => DropOK(txn', buf', PC2, LC2, sfr', x)) =>
              Drops(txn', buf', PC2, LC2, sfr')
<1>xt. txn \in [Txns -> Txn]
  BY Parts
<1>kt. Stacks \in [Threads -> 0 .. MaxTxns]
  BY Parts
<1>ca. Carried(txn, Dead, pc, loc, k, a)
  BY Parts
<1>fa. Failing(sfr, k, a)
  BY Parts
<1>po. Placed(txn, Dead, k, a)
  BY Parts
<1>tr. Tree(txn, Dead, k, a, r)
  BY Parts
<1>di. Directed(txn, Dead, Stacks, Todos, pc, loc, k, a, r)
  BY Parts
<1>bu. Buffers(txn, buf, loc, k, a)
  BY Parts
<1>dr. Drops(txn, buf, pc, loc, sfr)
  BY Parts
<1>ow. Oneways(buf, DeadProcs, LiveNodes, AsyncNodes, AsyncTodos, pc, loc)
  BY Parts
<1>1. /\ SameBut(k, a, k2, a2, t) /\ k2[t] \in {"failing", "none"}
  BY TakenFacts
<1>2. Stay(txn, txn', k, a, k2, a2, {t})
  BY TakenFacts
<1>3. \A s \in Txns : s # t => txn'[s] = txn[s] /\ buf'[s] = buf[s]
  BY TakenFacts
<1>4. \A s \in Txns : k[s] = "carried" => (s \in {t} <=> a[s] = x)
  <2>1. ASSUME NEW s \in Txns, k[s] = "carried" PROVE s # t /\ a[s] # x
    <3>1. a[s] \in Threads /\ pc[a[s]] \in {"send", "reply"}
      BY <2>1, <1>ca DEF Carried, CarrierOK
    <3>. QED BY <2>1, <3>1 DEF Idle
  <2>. QED BY <2>1
<1>5. Carried(txn', Dead, PC2, LC2, k2, a2)
  <2>1. \A s \in Txns : s \in {t} => CarrierOK(PC2, LC2, k2, a2, s)
    BY <1>1 DEF CarrierOK
  <2>2. x \in Threads => CarryOK(txn', Dead, PC2, LC2, k2, a2, x)
    BY DEF CarryOK, Holds, Holding, Idle
  <2>. QED BY <2>1, <2>2, <1>2, <1>4, <1>ca, CarriedStep
<1>6. Buffers(txn', buf', LC2, k2, a2)
  <2>1. \A s \in Txns : s \in {t} => BufferOK(txn', buf', LC2, k2, a2, s)
    <3>1. BufOK(txn'[t], buf'[t])
      BY DEF Taken
    <3>. QED BY <3>1, <1>1 DEF BufferOK
  <2>2. \A s \in Txns : s \notin {t} => txn'[s] = txn[s] /\ buf'[s] = buf[s]
    BY <1>3
  <2>. QED BY <2>1, <2>2, <1>2, <1>4, <1>bu, <1>ca, BuffersStep
<1>7. Oneways(buf', DeadProcs, LiveNodes, AsyncNodes, AsyncTodos, PC2, LC2)
  <2>1. BufferOK(txn, buf, loc, k, a, t)
    BY <1>bu DEF Buffers
  <2>2. Fresh(txn[t], buf[t])
    BY <2>1 DEF BufferOK
  <2>3. \A s \in Txns : /\ buf'[s].st # "none" <=> buf[s].st # "none"
                        /\ buf'[s].async <=> buf[s].async
                        /\ buf'[s].node = buf[s].node
    BY <2>2, <1>3 DEF Taken, Fresh
  <2>4. Oneways(buf', DeadProcs, LiveNodes, AsyncNodes, AsyncTodos, pc, loc)
    BY <2>3, <1>ow, OnewaysKeep
  <2>5. CASE x \in Threads
    <3>1. pc[x] # "send" /\ PC2[x] # "send"
      BY <2>5 DEF Idle
    <3>. QED BY <2>4, <2>5, <3>1, MoveOneways
  <2>6. CASE x \notin Threads
    <3>1. \A u \in Threads : PC2[u] = pc[u] /\ LC2[u] = loc[u]
      BY <2>6 DEF OnlyMoves
    <3>2. \A p : Active(buf', AsyncTodos, PC2, LC2, p) = Active(buf', AsyncTodos, pc, loc, p)
      BY <3>1 DEF Active
    <3>. QED BY <2>4, <3>2 DEF Oneways, OnewayOK
  <2>. QED BY <2>5, <2>6
<1>8. ASSUME NEW L2, \A s \in Txns : s # t /\ k[s] = "thread" /\ Head(Todos[a[s]]) = TxnItem(s) =>
                       Head(L2[a[s]]) = TxnItem(s)
      PROVE  Directed(txn', Dead, Stacks, L2, PC2, LC2, k2, a2, r)
  <2>1. Leaves(txn, {t})
    BY <1>tr, LeafNoChild DEF Leaves
  <2>2. \A s \in Txns : s \in {t} => QueuedOK(txn', Dead, Stacks, L2, k2, a2, r, s)
    BY <1>1 DEF QueuedOK
  <2>3. Calm(txn, pc, loc, k, a, {t}, Stacks, Stacks)
    BY DEF Calm
  <2>4. \A s \in Txns : s \notin {t} /\ k[s] = "thread" /\ Head(Todos[a[s]]) = TxnItem(s) =>
          Head(L2[a[s]]) = TxnItem(s)
    BY <1>8
  <2>5. ASSUME NEW u \in Threads, PC2[u] = "send"
        PROVE  pc[u] = "send" /\ LC2[u] = loc[u] /\ loc[u].t \notin {t}
    <3>1. pc[u] = "send" /\ LC2[u] = loc[u]
      BY <2>5 DEF Idle, OnlyMoves
    <3>2. SendCarry(txn, loc[u], u, k, a)
      BY <3>1, <1>ca DEF Carried, CarryOK
    <3>. QED BY <3>1, <3>2 DEF SendCarry
  <2>6. \A s \in Txns : s \notin {t} => r[s] = r[s]
    OBVIOUS
  <2>. QED BY <2>1, <2>2, <2>3, <2>4, <2>5, <2>6, <1>2, <1>xt, <1>kt, <1>di, <1>tr, <1>po, <1>ca,
       DirectedStep
<1>9. ASSUME x \in Threads /\ PC2[x] = "dropbuf" => DropOK(txn', buf', PC2, LC2, sfr', x)
      PROVE  Drops(txn', buf', PC2, LC2, sfr')
  <2>1. ASSUME NEW u \in Threads, u # x, pc[u] = "dropbuf"
        PROVE  loc[u].t \notin {t} /\ sfr'[u] = sfr[u]
    <3>1. k[t] \notin {"none", "failing"}
      OBVIOUS
    <3>2. loc[u].t # t
      BY <2>1, <3>1, <1>dr, <1>po, <1>fa, <1>bu, DropFree
    <3>3. \A y \in Threads \cup Procs : y # x => sfr'[y] = sfr[y]
      BY TakenFacts, ZenonT(90)
    <3>. QED BY <2>1, <3>2, <3>3
  <2>2. \A s \in Txns : s \notin {t} => buf'[s] = buf[s]
    BY <1>3
  <2>. QED BY <1>9, <2>1, <2>2, <1>2, <1>dr, DropsStep
<1>. QED BY <1>5, <1>6, <1>7, <1>8, <1>9

\* binder_cleanup_transaction takes t.
LEMMA CleanupOf ==
  ASSUME NEW k, NEW a, NEW r, Inv(k, a, r), NEW x \in Threads \cup Procs, NEW t \in Txns,
         k[t] \in {"thread", "proc"}, sfr[x] = NoTxn,
         NEW B \in [Txns -> Buf], \A s \in Txns : s # t => B[s] = buf[s],
         B[t].st = buf[t].st, B[t].owner = buf[t].owner, B[t].node = buf[t].node,
         B[t].async = buf[t].async, B[t].transaction => buf[t].transaction,
         Cleanup(x, t, B)
  PROVE  \E k2, a2 :
           /\ Ghosts(k2, a2, r) /\ Taken(x, t, k, a, k2, a2)
           /\ buf'[t].st = "kernel" /\ buf'[t].owner = txn[t].to_proc
           /\ buf'[t].transaction => B[t].transaction
           /\ txn'[t].kind = "freed" \/ sfr'[x] = t
           /\ buf'[t].node = NoProc => txn'[t].kind = "freed"
<1>gh. Ghosts(k, a, r)
  BY Parts
<1>xt. txn \in [Txns -> Txn]
  BY Parts
<1>bt. buf \in [Txns -> Buf]
  BY Parts
<1>ft. sfr \in [Threads \cup Procs -> 0 .. MaxTxns]
  BY Parts
<1>bu. Buffers(txn, buf, loc, k, a)
  BY Parts
<1>1. BufferOK(txn, buf, loc, k, a, t)
  BY <1>bu DEF Buffers
<1>2. Fresh(txn[t], buf[t]) /\ BufOK(txn[t], buf[t])
  BY <1>1 DEF BufferOK
<1>3. BufOK(txn[t], B[t]) /\ B[t].st = "kernel" /\ B[t].owner = txn[t].to_proc
  BY <1>2 DEF BufOK, Fresh
<1>4. t \in 0 .. MaxTxns
  BY TxnNumbers
<1>5. CASE Sync(txn, t)
  <2>1. B[t].node # NoProc
    BY <1>2, <1>5 DEF Fresh, Sync
  <2>2. sfr' = [sfr EXCEPT ![x] = t] /\ buf' = B /\ txn' = txn
    BY <2>1, <1>5 DEF Cleanup, Sync
  <2>3. PICK k2, a2 : k2 = [k EXCEPT ![t] = "failing"] /\ a2 = [a EXCEPT ![t] = x]
    OBVIOUS
  <2>4. Ghosts(k2, a2, r) /\ k2[t] = "failing" /\ a2[t] = x /\ SameBut(k, a, k2, a2, t)
    BY <2>3, <1>gh DEF Ghosts, Kinds, SameBut
  <2>5. sfr' \in [Threads \cup Procs -> 0 .. MaxTxns] /\ sfr'[x] = t
        /\ \A y \in Threads \cup Procs : y # x => sfr'[y] = sfr[y]
    BY <2>2, <1>4, <1>ft
  <2>6. BufOK(txn'[t], buf'[t]) /\ buf'[t] = B[t] /\ buf'[t].st # "none"
    BY <2>2, <1>3
  <2>7. Taken(x, t, k, a, k2, a2)
    BY <2>2, <2>4, <2>5, <2>6, <1>5, <1>xt DEF Taken
  <2>. QED BY <2>1, <2>4, <2>5, <2>6, <2>7, <1>3
<1>6. CASE ~Sync(txn, t)
  <2>1. txn' = [txn EXCEPT ![t] = FreedTxn] /\ buf' = Unlinked(B, t) /\ sfr' = sfr
    BY <1>6 DEF Cleanup, Sync, Without
  <2>2. PICK k2 : k2 = [k EXCEPT ![t] = "none"]
    OBVIOUS
  <2>3. Ghosts(k2, a, r) /\ k2[t] = "none" /\ SameBut(k, a, k2, a, t)
    BY <2>2, <1>gh DEF Ghosts, Kinds, SameBut
  <2>. DEFINE U == Unlinked(B, t)
  <2>4. /\ U \in [Txns -> Buf] /\ \A s \in Txns : s # t => U[s] = B[s]
        /\ U[t].st = B[t].st /\ U[t].owner = B[t].owner /\ U[t].node = B[t].node
        /\ U[t].async = B[t].async /\ U[t].transaction = FALSE /\ BufOK(FreedTxn, U[t])
    BY <1>3, UnlinkedOf
  <2>5. buf' = U
    BY <2>1
  <2>. HIDE DEF U
  <2>6. txn' \in [Txns -> Txn] /\ txn'[t] = FreedTxn /\ \A s \in Txns : s # t => txn'[s] = txn[s]
    BY <2>1, <1>xt, FreedFields
  <2>7. /\ buf' \in [Txns -> Buf] /\ \A s \in Txns : s # t => buf'[s] = buf[s]
        /\ buf'[t].st = "kernel" /\ buf'[t].owner = txn[t].to_proc
        /\ buf'[t].node = buf[t].node
        /\ buf'[t].async <=> buf[t].async
        /\ ~buf'[t].transaction /\ BufOK(txn'[t], buf'[t])
    BY <2>4, <2>5, <2>6, <1>3
  <2>8. Taken(x, t, k, a, k2, a)
    BY <2>1, <2>3, <2>6, <2>7, <1>6, <1>ft DEF Taken
  <2>9. txn'[t].kind = "freed"
    BY <2>6, FreedFields
  <2>. QED BY <2>3, <2>7, <2>8, <2>9
<1>. QED BY <1>5, <1>6

\* What binder_thread_read leaves of threads and processes.
Took(th) == /\ thr' \in [Threads -> Thr] /\ OnlyWaiting(TakeTxn(thr, th), thr')
            /\ \A u \in Threads : thr'[u].waiting => TakeTxn(thr, th)[u].waiting
TookFrom(th) == proc' = TakenFrom(th)

\* The views of threads after an item was taken.
LEMMA TookOf ==
  ASSUME Typed, NEW th \in Threads, Took(th)
  PROVE  /\ UNCHANGED <<Stacks, ReturnErrors, ReplyErrors, Dead, ThreadRefs>>
         /\ \A u \in Threads : u # th =>
              /\ Todos'[u] = Todos[u]
              /\ u \in Flagged' <=> u \in Flagged
         /\ Todos'[th] = Rest(Todos[th])
         /\ th \in Flagged' <=> th \in Flagged /\ Todos'[th] # <<>>
         /\ \A u \in Threads : u \in Waiting' => u \in Waiting
<1>1. thr \in [Threads -> Thr]
  BY DEF Typed
<1>. DEFINE T == TakeTxn(thr, th)
<1>2. /\ T \in [Threads -> Thr]
      /\ \A u \in Threads : u # th => T[u] = thr[u]
      /\ T[th].stack = thr[th].stack
      /\ T[th].todo = Rest(thr[th].todo)
      /\ T[th].process_todo <=> thr[th].process_todo /\ Rest(thr[th].todo) # <<>>
      /\ T[th].return_error = thr[th].return_error
      /\ T[th].reply_error = thr[th].reply_error
      /\ T[th].waiting = thr[th].waiting
      /\ T[th].is_dead = thr[th].is_dead
      /\ T[th].tmp_ref = thr[th].tmp_ref
  BY <1>1, TakeTxnOf
<1>3. OnlyWaiting(T, thr') /\ \A u \in Threads : thr'[u].waiting => T[u].waiting
  BY DEF Took
<1>. HIDE DEF T
<1>4. \A u \in Threads :
        /\ thr'[u].stack = thr[u].stack /\ thr'[u].return_error = thr[u].return_error
        /\ thr'[u].reply_error = thr[u].reply_error /\ thr'[u].is_dead = thr[u].is_dead
        /\ thr'[u].tmp_ref = thr[u].tmp_ref
        /\ thr'[u].waiting => thr[u].waiting
        /\ u # th => thr'[u].todo = thr[u].todo /\ thr'[u].process_todo = thr[u].process_todo
  BY <1>2, <1>3 DEF OnlyWaiting
<1>5. /\ thr'[th].todo = Rest(thr[th].todo)
      /\ thr'[th].process_todo <=> thr[th].process_todo /\ Rest(thr[th].todo) # <<>>
  BY <1>2, <1>3 DEF OnlyWaiting
<1>6. UNCHANGED <<Stacks, ReturnErrors, ReplyErrors, Dead, ThreadRefs>>
  BY <1>4, SameThreads
<1>7. \A u \in Threads : /\ Todos[u] = thr[u].todo
                         /\ u \in Flagged <=> thr[u].process_todo
                         /\ u \in Waiting <=> thr[u].waiting
  BY ThreadViews
<1>8. \A u \in Threads : /\ Todos'[u] = thr'[u].todo
                         /\ u \in Flagged' <=> thr'[u].process_todo
                         /\ u \in Waiting' <=> thr'[u].waiting
  BY NextViews
<1>. QED BY <1>4, <1>5, <1>6, <1>7, <1>8

\* The views of processes after it.
LEMMA TookFromOf ==
  ASSUME Typed, NEW th \in Threads, TookFrom(th), thr[th].todo = <<>> => proc[ProcOf[th]].todo # <<>>
  PROVE  /\ proc' \in [Procs -> Prc] /\ UNCHANGED <<ProcSts, DeadProcs, ProcRefs>>
         /\ \A p \in Procs : ProcTodos'[p] = IF Todos[th] = <<>> /\ p = ProcOf[th]
                                             THEN Tail(ProcTodos[p]) ELSE ProcTodos[p]
<1>1. Todos[th] = thr[th].todo /\ ProcOf[th] \in Procs
  BY ThreadViews, ProcOfAssumption
<1>2. /\ ProcTodos[ProcOf[th]] = proc[ProcOf[th]].todo /\ ProcTodos[ProcOf[th]] \in Seq(Txns)
  BY <1>1, ProcViews
<1>3. CASE Todos[th] # <<>>
  <2>1. proc' = proc
    BY <1>1, <1>3 DEF TookFrom, TakenFrom
  <2>2. UNCHANGED <<ProcSts, ProcTodos, DeadProcs, ProcRefs>>
    BY <2>1, SameAll
  <2>3. proc \in [Procs -> Prc]
    BY DEF Typed
  <2>. QED BY <2>1, <2>2, <2>3, <1>3
<1>4. CASE Todos[th] = <<>>
  <2>1. PICK q \in Procs : q = ProcOf[th]
    BY <1>1
  <2>2. PICK s : s = Tail(ProcTodos[q])
    OBVIOUS
  <2>3. s \in Seq(Txns)
    BY <2>1, <2>2, <1>1, <1>2, <1>4, SeqTail
  <2>4. SetTodo(q, s)
    BY <2>1, <2>2, <1>1, <1>2, <1>4 DEF TookFrom, TakenFrom, SetTodo
  <2>5. /\ proc' \in [Procs -> Prc] /\ UNCHANGED <<ProcSts, DeadProcs, ProcRefs>>
        /\ ProcTodos'[q] = s /\ \A p \in Procs : p # q => ProcTodos'[p] = ProcTodos[p]
    BY <2>3, <2>4, SetTodoOf
  <2>. QED BY <2>1, <2>2, <2>5, <1>4
<1>. QED BY <1>3, <1>4

\* The thread that has read, on its way back to user space or to drop a
\* buffer whose descriptors it could not install.
Leaving(th, t) ==
  /\ pc' \in [Threads -> PCs] /\ loc' \in [Threads -> Loc]
  /\ OnlyMoves(pc, loc, pc', loc', th) /\ pc'[th] \in {"user", "dropbuf"}
  /\ loc'[th].wait_for_proc_work => loc[th].wait_for_proc_work /\ pc'[th] = "dropbuf"
  /\ pc'[th] = "dropbuf" => loc'[th].t = t

\* A transaction is taken from a list and failed or freed: the invariant.
LEMMA ReadStep ==
  ASSUME NEW k, NEW a, NEW r, Inv(k, a, r), NEW th \in Threads, NEW t \in Txns, ReadsTxn(th, t),
         NEW k2, NEW a2, Ghosts(k2, a2, r), Taken(th, t, k, a, k2, a2),
         Took(th), TookFrom(th), UNCHANGED <<node, bug>>, Leaving(th, t),
         pc'[th] = "dropbuf" =>
           /\ buf'[t].st = "kernel" /\ ~buf'[t].transaction /\ buf'[t].owner = ProcOf[th]
           /\ txn'[t].kind = "freed" \/ sfr'[th] = t
           /\ buf'[t].node = NoProc => txn'[t].kind = "freed"
  PROVE  Inv(k2, a2, r)'
<1>ty. Typed /\ bug = FALSE
  BY Parts
<1>dr. Drops(txn, buf, pc, loc, sfr)
  BY Parts
<1>fa. Failing(sfr, k, a)
  BY Parts
<1>po. Placed(txn, Dead, k, a)
  BY Parts
<1>bu. Buffers(txn, buf, loc, k, a)
  BY Parts
<1>ts. ThreadStates(Dead, Stacks, Todos, Waiting, pc, loc, sfr)
  BY Parts
<1>ps. ProcStates(ProcSts, DeadProcs, ProcTodos, ProcRefs, LiveNodes, AsyncTodos, pc, sfr)
  BY Parts
<1>tc. ThreadCounts(ThreadRefs, pc, loc)
  BY Parts
<1>pc. ProcCounts(Dead, ThreadRefs, ProcSts, ProcRefs, pc, loc)
  BY Parts
<1>no. Notices(Dead, Todos, ReturnErrors, ReplyErrors, pc)
  BY Parts
<1>fl. Flags(txn, Dead, Stacks, Todos, Flagged)
  BY Parts
<1>1. /\ pc[th] = "loop" /\ th \notin Dead /\ th \notin Waiting /\ sfr[th] = NoTxn
      /\ ProcOf[th] \in Procs /\ ProcSts[ProcOf[th]] = "open"
  BY ReadFacts
<1>2. /\ k[t] \in {"thread", "proc"} /\ txn[t].to_proc = ProcOf[th]
      /\ (k[t] = "thread" /\ Head(Todos[th]) = TxnItem(t) /\ Todos[th] # <<>>) \/ Todos[th] = <<>>
  BY ReadFacts
<1>3. /\ SameBut(k, a, k2, a2, t) /\ k2[t] \in {"failing", "none"}
      /\ k2[t] = "none" => txn'[t] = FreedTxn /\ ~Sync(txn, t)
      /\ k2[t] = "failing" => txn'[t] = txn[t]
      /\ \A s \in Txns : s # t => txn'[s] = txn[s]
      /\ \A y \in Threads \cup Procs : y # th => sfr'[y] = sfr[y]
  <2>1. th \in Threads \cup Procs /\ Taken(th, t, k, a, k2, a2)
    OBVIOUS
  <2>2. /\ SameBut(k, a, k2, a2, t) /\ k2[t] \in {"failing", "none"}
        /\ k2[t] = "none" => txn'[t] = FreedTxn /\ ~Sync(txn, t)
        /\ k2[t] = "failing" => txn'[t] = txn[t]
    BY <2>1, <1>2, TakenFacts
  <2>3. /\ \A s \in Txns : s # t => txn'[s] = txn[s]
        /\ \A y \in Threads \cup Procs : y # th => sfr'[y] = sfr[y]
    BY <2>1, Zenon DEF Taken
  <2>. QED BY <2>2, <2>3
<1>4. /\ UNCHANGED <<Stacks, ReturnErrors, ReplyErrors, Dead, ThreadRefs>>
      /\ \A u \in Threads : u \in Waiting' => u \in Waiting
  BY <1>ty, TookOf
<1>5. /\ \A u \in Threads : u # th =>
           /\ Todos'[u] = Todos[u]
           /\ u \in Flagged' <=> u \in Flagged
      /\ Todos'[th] = Rest(Todos[th])
      /\ th \in Flagged' <=> th \in Flagged /\ Todos'[th] # <<>>
  BY <1>ty, TookOf
<1>6. /\ proc' \in [Procs -> Prc] /\ UNCHANGED <<ProcSts, DeadProcs, ProcRefs>>
      /\ \A p \in Procs : ProcTodos'[p] = IF Todos[th] = <<>> /\ p = ProcOf[th]
                                          THEN Tail(ProcTodos[p]) ELSE ProcTodos[p]
  <2>1. thr[th].todo = <<>> => proc[ProcOf[th]].todo # <<>>
    BY DEF ReadsTxn
  <2>. QED BY <2>1, <1>ty, TookFromOf
<1>7. UNCHANGED <<LiveNodes, AsyncNodes, AsyncTodos>>
  BY SameAll
<1>8. /\ pc' \in [Threads -> PCs] /\ loc' \in [Threads -> Loc] /\ pc'[th] \in {"user", "dropbuf"}
      /\ loc'[th].wait_for_proc_work => loc[th].wait_for_proc_work /\ pc'[th] = "dropbuf"
      /\ pc'[th] = "dropbuf" => loc'[th].t = t
      /\ \A u \in Threads : u # th => pc'[u] = pc[u] /\ loc'[u] = loc[u]
      /\ OnlyMoves(pc, loc, pc', loc', th)
  BY DEF Leaving, OnlyMoves
<1>9. Typed' /\ bug' = FALSE
  <2>1. /\ txn' \in [Txns -> Txn] /\ buf' \in [Txns -> Buf]
        /\ sfr' \in [Threads \cup Procs -> 0 .. MaxTxns]
    BY DEF Taken
  <2>2. thr' \in [Threads -> Thr]
    BY DEF Took
  <2>3. node' \in [Procs -> Nde] /\ bug' = FALSE
    BY <1>ty DEF Typed
  <2>4. proc' \in [Procs -> Prc] /\ pc' \in [Threads -> PCs] /\ loc' \in [Threads -> Loc]
    BY <1>6, <1>8
  <2>. QED BY <2>1, <2>2, <2>3, <2>4 DEF Typed
<1>10. /\ ThreadLists(Todos', k2, a2) /\ TxnLists(ProcTodos', "proc", k2, a2)
       /\ TxnLists(AsyncTodos, "async", k2, a2)
       /\ \A s \in Txns : s # t /\ k[s] = "thread" /\ Head(Todos[a[s]]) = TxnItem(s) =>
              Head(Todos'[a[s]]) = TxnItem(s)
  <2>1. PICK L2, Q2 : L2 = Todos' /\ Q2 = ProcTodos'
    OBVIOUS
  <2>2. /\ k2[t] \notin {"thread", "proc", "async"} /\ L2[th] = Rest(Todos[th])
        /\ \A u \in Threads : u # th => L2[u] = Todos[u]
        /\ \A p \in Procs : Q2[p] = IF Todos[th] = <<>> /\ p = ProcOf[th]
                                    THEN Tail(ProcTodos[p]) ELSE ProcTodos[p]
    BY <2>1, <1>3, <1>5, <1>6
  <2>3. SameBut(k, a, k2, a2, t)
    BY <1>3
  <2>4. /\ ThreadLists(L2, k2, a2) /\ TxnLists(Q2, "proc", k2, a2)
        /\ TxnLists(AsyncTodos, "async", k2, a2)
        /\ \A s \in Txns : s # t /\ k[s] = "thread" /\ Head(Todos[a[s]]) = TxnItem(s) =>
              Head(L2[a[s]]) = TxnItem(s)
    BY <2>2, <2>3, ReadLists
  <2>. QED BY <2>1, <2>4
<1>11. /\ Names(txn') /\ Failing(sfr', k2, a2) /\ Placed(txn', Dead, k2, a2)
       /\ Tree(txn', Dead, k2, a2, r)
  BY <1>2, TakenCalls
<1>12. AllStacks(txn', Dead, Stacks, k2, a2, r)
  BY <1>2, TakenStacks
<1>13. Idle(th, pc')
  BY <1>1, <1>8 DEF Idle
<1>14. Carried(txn', Dead, pc', loc', k2, a2) /\ Buffers(txn', buf', loc', k2, a2)
       /\ Oneways(buf', DeadProcs, LiveNodes, AsyncNodes, AsyncTodos, pc', loc')
  BY <1>2, <1>8, <1>13, TakenMoves
<1>15. Directed(txn', Dead, Stacks, Todos', pc', loc', k2, a2, r)
  BY <1>2, <1>8, <1>10, <1>13, TakenMoves
<1>16. Drops(txn', buf', pc', loc', sfr')
  <2>1. ASSUME pc'[th] = "dropbuf" PROVE DropOK(txn', buf', pc', loc', sfr', th)
    <3>1. ASSUME NEW u \in Threads, pc'[u] = "dropbuf", loc'[u].t = t, u # th PROVE FALSE
      <4>1. pc[u] = "dropbuf" /\ loc[u].t = t
        BY <3>1, <1>8
      <4>2. k[t] \notin {"none", "failing"}
        BY <1>2
      <4>. QED BY <4>1, <4>2, <1>dr, <1>po, <1>fa, <1>bu, DropFree
    <3>. QED BY <2>1, <3>1, <1>8 DEF DropOK
  <2>2. th \in Threads /\ pc'[th] = "dropbuf" => DropOK(txn', buf', pc', loc', sfr', th)
    BY <2>1
  <2>. QED BY <2>2, <1>2, <1>8, <1>13, TakenMoves
<1>17. ThreadStates(Dead, Stacks, Todos', Waiting', pc', loc', sfr')
  <2>1. ASSUME NEW u \in Threads PROVE ThreadOK(Dead, Stacks, Todos', Waiting', pc', loc', sfr', u)
    <3>1. ThreadOK(Dead, Stacks, Todos, Waiting, pc, loc, sfr, u)
      BY <1>ts DEF ThreadStates
    <3>2. CASE u = th
      BY <3>1, <3>2, <1>1, <1>4, <1>8 DEF ThreadOK
    <3>3. CASE u # th
      BY <3>1, <3>3, <1>3, <1>4, <1>5, <1>8 DEF ThreadOK
    <3>. QED BY <3>2, <3>3
  <2>. QED BY <2>1 DEF ThreadStates
<1>18. ProcStates(ProcSts, DeadProcs, ProcTodos', ProcRefs, LiveNodes, AsyncTodos, pc', sfr')
  <2>1. \A q \in Procs : /\ ProcSts[q] # "todo" => sfr'[q] = sfr[q]
                         /\ ProcSts[q] \in {"released", "freed"} => ProcTodos'[q] = ProcTodos[q]
    BY <1>1, <1>3, <1>6, ActorAssumption
  <2>2. \A u \in Threads :
          \/ ProcSts[ProcOf[u]] = "open"
          \/ pc'[u] = pc[u] /\ (sfr'[u] = sfr[u] \/ pc[u] # "user")
    BY <1>1, <1>3, <1>8
  <2>. QED BY <2>1, <2>2, <1>ps, ProcStatesKeep
<1>19. ThreadCounts(ThreadRefs, pc', loc') /\ ProcCounts(Dead, ThreadRefs, ProcSts, ProcRefs, pc', loc')
  <2>1. ~Holding(pc, th) /\ ~Holding(pc', th) /\ (pc'[th] = "release" <=> pc[th] = "release")
    BY <1>1, <1>8 DEF Holding
  <2>. QED BY <2>1, <1>8, <1>tc, <1>pc, MoveCounts
<1>20. Todos[th] \in Seq(Work) /\ ToSet(Todos'[th]) \subseteq ToSet(Todos[th])
       /\ \A y \in {"complete", "return_error", "reply_error"} :
            Item(y) \in ToSet(Todos'[th]) <=> Item(y) \in ToSet(Todos[th])
  <2>1. Todos[th] \in Seq(Work)
    BY <1>ty, ThreadViews
  <2>2. CASE Todos[th] # <<>>
    <3>1. ToSet(Todos[th]) = ToSet(Todos'[th]) \cup {TxnItem(t)}
      BY <2>1, <2>2, <1>2, <1>5, SeqTail DEF Rest
    <3>. QED BY <2>1, <3>1, TxnNoNotice
  <2>3. CASE Todos[th] = <<>>
    BY <2>1, <2>3, <1>5 DEF Rest
  <2>. QED BY <2>2, <2>3
<1>21. Notices(Dead, Todos', ReturnErrors, ReplyErrors, pc')
  <2>1. ASSUME NEW u \in Threads PROVE NoticeOK(Dead, Todos', ReturnErrors, ReplyErrors, pc', u)
    <3>1. NoticeOK(Dead, Todos, ReturnErrors, ReplyErrors, pc, u)
      BY <1>no DEF Notices
    <3>2. CASE u = th
      <4>1. pc'[th] \notin {"send", "reply"}
        BY <1>8
      <4>. QED BY <3>1, <3>2, <4>1, <1>20 DEF NoticeOK
    <3>3. CASE u # th
      BY <3>1, <3>3, <1>5, <1>8 DEF NoticeOK
    <3>. QED BY <3>2, <3>3
  <2>. QED BY <2>1 DEF Notices
<1>22. Flags(txn', Dead, Stacks, Todos', Flagged')
  <2>1. ASSUME NEW u \in Threads, u \notin Dead PROVE FlagOK(txn', Stacks, Todos', Flagged', u)
    <3>1. FlagOK(txn, Stacks, Todos, Flagged, u)
      BY <2>1, <1>fl DEF Flags
    <3>2. CASE u = th
      <4>1. CASE Todos[th] = <<>>
        BY <3>2, <4>1, <1>5 DEF FlagOK, Rest
      <4>2. CASE Todos[th] # <<>>
        <5>1. Todos[th] # <<Item("complete")>>
          BY <4>2, <1>2, SeqSmall, TxnNoNotice
        <5>2. th \in Flagged
          BY <4>2, <5>1, <3>1, <3>2 DEF FlagOK
        <5>. QED BY <5>2, <3>2, <1>5 DEF FlagOK
      <4>. QED BY <4>1, <4>2
    <3>3. CASE u # th
      <4>1. Stacks[u] \in 0 .. MaxTxns
        BY <1>ty, ThreadViews
      <4>2. k2[t] = "none" => txn[t].from = NoThread
        <5>1. Tree(txn, Dead, k, a, r)
          BY Parts
        <5>. QED BY <5>1, <1>3 DEF Tree, CallOK
      <4>3. Stacks[u] # NoTxn /\ txn[Stacks[u]].from = u => txn'[Stacks[u]].from = u
        BY <4>1, <4>2, <1>3, TxnNumbers, NullAssumption
      <4>. QED BY <3>1, <3>3, <4>3, <1>5 DEF FlagOK
    <3>. QED BY <3>2, <3>3
  <2>. QED BY <2>1 DEF Flags
<1>. QED BY <1>4, <1>6, <1>7, <1>9, <1>10, <1>11, <1>12, <1>14, <1>15, <1>16, <1>17, <1>18,
            <1>19, <1>21, <1>22, Whole

\* The end of the ioctl of a thread that has taken a transaction.
LEMMA ReadLeaves ==
  ASSUME Typed, NEW th \in Threads, NEW P, NEW t, ReturnToUser(TakeTxn(thr, th), P, th)
  PROVE  Took(th) /\ Leaving(th, t) /\ pc'[th] = "user"
<1>1. thr \in [Threads -> Thr] /\ pc \in [Threads -> PCs] /\ loc \in [Threads -> Loc]
  BY DEF Typed
<1>2. TakeTxn(thr, th) \in [Threads -> Thr]
  BY <1>1, TakeTxnOf
<1>3. Took(th)
  <2>1. PICK T \in [Threads -> Thr] : T = TakeTxn(thr, th)
    BY <1>2
  <2>2. thr' \in [Threads -> Thr] /\ OnlyWaiting(T, thr')
        /\ \A u \in Threads : thr'[u].waiting => T[u].waiting
    BY <2>1, ReturnWakes
  <2>. QED BY <2>1, <2>2 DEF Took
<1>4. pc' = [pc EXCEPT ![th] = "user"] /\ loc' = [loc EXCEPT ![th] = NoLoc]
  BY DEF ReturnToUser
<1>5. pc' \in [Threads -> PCs] /\ pc'[th] = "user" /\ \A u \in Threads : u # th => pc'[u] = pc[u]
  BY <1>1, <1>4 DEF PCs
<1>6. loc' \in [Threads -> Loc] /\ ~loc'[th].wait_for_proc_work
      /\ \A u \in Threads : u # th => loc'[u] = loc[u]
  BY <1>1, <1>4, LocType
<1>. QED BY <1>3, <1>5, <1>6 DEF Leaving, OnlyMoves

\* copy_to_user fails.
LEMMA DeliverCopyFailsStep ==
  ASSUME NEW k, NEW a, NEW r, Inv(k, a, r), NEW th \in Threads, NEW t \in Txns,
         DeliverCopyFails(th, t)
  PROVE  \E k2, a2 : Inv(k2, a2, r)'
<1>ty. Typed /\ bug = FALSE
  BY Parts
<1>bt. buf \in [Txns -> Buf]
  BY Parts
<1>1. ReadsTxn(th, t) /\ UNCHANGED <<node, bug>>
  BY DEF DeliverCopyFails
<1>2. TookFrom(th)
  BY DEF DeliverCopyFails, TookFrom
<1>3. Took(th) /\ Leaving(th, t) /\ pc'[th] = "user"
  <2>1. ReturnToUser(TakeTxn(thr, th), TakenFrom(th), th)
    BY DEF DeliverCopyFails
  <2>. QED BY <2>1, <1>ty, ReadLeaves
<1>4. k[t] \in {"thread", "proc"} /\ sfr[th] = NoTxn
  BY <1>1, ReadFacts
<1>5. PICK k2, a2 : Ghosts(k2, a2, r) /\ Taken(th, t, k, a, k2, a2)
  <2>1. Cleanup(th, t, buf) /\ th \in Threads \cup Procs
    BY DEF DeliverCopyFails
  <2>2. PICK B \in [Txns -> Buf] : B = buf
    BY <1>bt
  <2>. QED BY <2>1, <2>2, <1>4, CleanupOf
<1>6. Inv(k2, a2, r)'
  BY <1>1, <1>2, <1>3, <1>5, ReadStep
<1>. QED BY <1>6

\* A descriptor cannot be installed in the receiver.
LEMMA DeliverFdFailsStep ==
  ASSUME NEW k, NEW a, NEW r, Inv(k, a, r), NEW th \in Threads, NEW t \in Txns,
         DeliverFdFails(th, t)
  PROVE  \E k2, a2 : Inv(k2, a2, r)'
<1>ty. Typed /\ bug = FALSE
  BY Parts
<1>bt. buf \in [Txns -> Buf]
  BY Parts
<1>ct. pc \in [Threads -> PCs] /\ loc \in [Threads -> Loc]
  BY Parts
<1>tt. thr \in [Threads -> Thr]
  BY Parts
<1>1. ReadsTxn(th, t) /\ UNCHANGED <<node, bug>>
  BY DEF DeliverFdFails
<1>2. TookFrom(th)
  BY DEF DeliverFdFails, TookFrom
<1>3. Took(th)
  <2>1. thr' = TakeTxn(thr, th)
    BY DEF DeliverFdFails
  <2>2. TakeTxn(thr, th) \in [Threads -> Thr]
    BY <1>tt, TakeTxnOf
  <2>. QED BY <2>1, <2>2 DEF Took, OnlyWaiting
<1>4. Leaving(th, t) /\ pc'[th] = "dropbuf"
  <2>1. pc' = [pc EXCEPT ![th] = "dropbuf"] /\ loc' = [loc EXCEPT ![th].t = t]
    BY DEF DeliverFdFails
  <2>2. pc' \in [Threads -> PCs] /\ pc'[th] = "dropbuf"
        /\ \A u \in Threads : u # th => pc'[u] = pc[u]
    BY <2>1, <1>ct DEF PCs
  <2>3. t \in 0 .. MaxTxns
    BY TxnNumbers
  <2>4. loc' \in [Threads -> Loc] /\ loc'[th].t = t
        /\ loc'[th].wait_for_proc_work = loc[th].wait_for_proc_work
        /\ \A u \in Threads : u # th => loc'[u] = loc[u]
    BY <2>1, <2>3, <1>ct DEF Loc
  <2>. QED BY <2>2, <2>4 DEF Leaving, OnlyMoves
<1>5. k[t] \in {"thread", "proc"} /\ sfr[th] = NoTxn /\ txn[t].to_proc = ProcOf[th]
  BY <1>1, ReadFacts
<1>6. PICK k2, a2 :
        /\ Ghosts(k2, a2, r) /\ Taken(th, t, k, a, k2, a2)
        /\ buf'[t].st = "kernel" /\ buf'[t].owner = txn[t].to_proc
        /\ ~buf'[t].transaction
        /\ txn'[t].kind = "freed" \/ sfr'[th] = t
        /\ buf'[t].node = NoProc => txn'[t].kind = "freed"
  <2>. DEFINE B == [buf EXCEPT ![t].transaction = FALSE]
  <2>1. B \in [Txns -> Buf] /\ \A s \in Txns : s # t => B[s] = buf[s]
    BY <1>bt DEF Buf
  <2>2. /\ B[t].st = buf[t].st /\ B[t].owner = buf[t].owner /\ B[t].node = buf[t].node
        /\ B[t].async = buf[t].async /\ ~B[t].transaction
    BY <1>bt DEF Buf
  <2>3. Cleanup(th, t, B) /\ th \in Threads \cup Procs
    BY DEF DeliverFdFails
  <2>. HIDE DEF B
  <2>4. PICK B2 \in [Txns -> Buf] :
          /\ \A s \in Txns : s # t => B2[s] = buf[s]
          /\ B2[t].st = buf[t].st /\ B2[t].owner = buf[t].owner /\ B2[t].node = buf[t].node
          /\ B2[t].async = buf[t].async /\ ~B2[t].transaction
          /\ Cleanup(th, t, B2)
    BY <2>1, <2>2, <2>3
  <2>. QED BY <2>3, <2>4, <1>5, CleanupOf
<1>7. pc'[th] = "dropbuf" =>
           /\ buf'[t].st = "kernel" /\ ~buf'[t].transaction /\ buf'[t].owner = ProcOf[th]
           /\ txn'[t].kind = "freed" \/ sfr'[th] = t
           /\ buf'[t].node = NoProc => txn'[t].kind = "freed"
  BY <1>5, <1>6
<1>8. Inv(k2, a2, r)'
  BY <1>1, <1>2, <1>3, <1>4, <1>6, <1>7, ReadStep
<1>. QED BY <1>8

\* A reply or a one-way call is delivered.
LEMMA DeliverDoneStep ==
  ASSUME NEW k, NEW a, NEW r, Inv(k, a, r), NEW th \in Threads, NEW t \in Txns,
         Deliver(th, t), ~Sync(txn, t)
  PROVE  \E k2, a2 : Inv(k2, a2, r)'
<1>ty. Typed /\ bug = FALSE
  BY Parts
<1>gh. Ghosts(k, a, r)
  BY Parts
<1>xt. txn \in [Txns -> Txn]
  BY Parts
<1>bt. buf \in [Txns -> Buf]
  BY Parts
<1>ft. sfr \in [Threads \cup Procs -> 0 .. MaxTxns]
  BY Parts
<1>1. ReadsTxn(th, t) /\ UNCHANGED <<node, bug>> /\ sfr' = sfr
  BY DEF Deliver
<1>2. TookFrom(th)
  BY DEF Deliver, TookFrom
<1>3. Took(th) /\ Leaving(th, t) /\ pc'[th] = "user"
  <2>1. ReturnToUser(TakeTxn(thr, th), TakenFrom(th), th)
    BY DEF Deliver, Sync
  <2>. QED BY <2>1, <1>ty, ReadLeaves
<1>4. Fresh(txn[t], buf[t])
  BY <1>1, ReadFacts
<1>5. txn' = [txn EXCEPT ![t] = FreedTxn] /\ buf' = [Unlinked(buf, t) EXCEPT ![t].st = "user"]
  BY DEF Deliver, Without, Sync
<1>6. PICK k2 : k2 = [k EXCEPT ![t] = "none"]
  OBVIOUS
<1>7. Ghosts(k2, a, r) /\ k2[t] = "none" /\ SameBut(k, a, k2, a, t)
  BY <1>6, <1>gh DEF Ghosts, Kinds, SameBut
<1>8. txn' \in [Txns -> Txn] /\ txn'[t] = FreedTxn /\ \A s \in Txns : s # t => txn'[s] = txn[s]
  BY <1>5, <1>xt, FreedFields
<1>9. /\ buf' \in [Txns -> Buf] /\ \A s \in Txns : s # t => buf'[s] = buf[s]
      /\ buf'[t].st = "user" /\ buf'[t].node = buf[t].node
      /\ buf'[t].async = buf[t].async /\ BufOK(FreedTxn, buf'[t])
  <2>. DEFINE U == Unlinked(buf, t)
  <2>1. BufOK(txn[t], buf[t])
    <3>1. Buffers(txn, buf, loc, k, a)
      BY Parts
    <3>. QED BY <3>1 DEF Buffers, BufferOK
  <2>2. /\ U \in [Txns -> Buf] /\ \A s \in Txns : s # t => U[s] = buf[s]
        /\ U[t].st = buf[t].st /\ U[t].node = buf[t].node
        /\ U[t].async = buf[t].async /\ U[t].transaction = FALSE /\ BufOK(FreedTxn, U[t])
    BY <2>1, <1>bt, UnlinkedOf
  <2>3. buf' = [U EXCEPT ![t].st = "user"]
    BY <1>5
  <2>. HIDE DEF U
  <2>4. /\ buf' \in [Txns -> Buf] /\ \A s \in Txns : s # t => buf'[s] = buf[s]
        /\ buf'[t].st = "user" /\ buf'[t].node = buf[t].node
        /\ buf'[t].async = buf[t].async /\ buf'[t].owner = U[t].owner
        /\ buf'[t].transaction = FALSE
    BY <2>2, <2>3 DEF Buf
  <2>5. BufOK(FreedTxn, buf'[t])
    BY <2>2, <2>4, FreedFields DEF BufOK
  <2>. QED BY <2>4, <2>5
<1>10. Taken(th, t, k, a, k2, a)
  BY <1>1, <1>7, <1>8, <1>9, <1>ft DEF Taken
<1>11. Inv(k2, a, r)'
  BY <1>1, <1>2, <1>3, <1>7, <1>10, ReadStep
<1>. QED BY <1>11

\* A thread that reads a call is idle, or waits for an answer further up in the
\* chain the call belongs to, and no other call is on its way to it.
LEMMA ServeFacts ==
  ASSUME NEW k, NEW a, NEW r, Inv(k, a, r), NEW th \in Threads, NEW t \in Txns, ReadsTxn(th, t),
         Sync(txn, t)
  PROVE  /\ Stacks[th] = NoTxn \/ Back(txn, Stacks, r, th, t)
         /\ \A M : M = {t} => Quiet(txn, pc, loc, k, a, M, th)
<1>xt. txn \in [Txns -> Txn]
  BY Parts
<1>kt. Stacks \in [Threads -> 0 .. MaxTxns]
  BY Parts
<1>tl. ThreadLists(Todos, k, a)
  BY Parts
<1>di. Directed(txn, Dead, Stacks, Todos, pc, loc, k, a, r)
  BY Parts
<1>tr. Tree(txn, Dead, k, a, r)
  BY Parts
<1>ca. Carried(txn, Dead, pc, loc, k, a)
  BY Parts
<1>1. /\ th \notin Dead /\ k[t] \in {"thread", "proc"} /\ NoChild(txn, t)
      /\ \/ k[t] = "thread" /\ a[t] = th /\ Head(Todos[th]) = TxnItem(t) /\ Todos[th] # <<>>
         \/ k[t] = "proc" /\ Todos[th] = <<>> /\ Stacks[th] = NoTxn
  BY ReadFacts
<1>2. Stacks[th] = NoTxn \/ Back(txn, Stacks, r, th, t)
  <2>1. QueuedOK(txn, Dead, Stacks, Todos, k, a, r, t)
    BY <1>di DEF Directed
  <2>. QED BY <2>1, <1>1 DEF QueuedOK
<1>3. ASSUME NEW M, M = {t} PROVE Quiet(txn, pc, loc, k, a, M, th)
  <2>1. CASE Stacks[th] = NoTxn
    <3>1. ASSUME NEW s \in Txns, s \notin M, k[s] = "thread", a[s] = th
          PROVE  Head(Todos[th]) # TxnItem(s)
      <4>1. TxnItem(s) \in ToSet(Todos[th])
        BY <3>1, <1>tl DEF ThreadLists, ListOK
      <4>2. Todos[th] # <<>>
        BY <4>1, SeqSmall
      <4>3. Head(Todos[th]) = TxnItem(t) /\ s # t
        BY <4>2, <3>1, <1>1, <1>3
      <4>. QED BY <4>3, TxnItems
    <3>. QED BY <2>1, <3>1, <1>1, <1>xt, <1>di, <1>ca, IdleQuiet
  <2>2. CASE Stacks[th] # NoTxn
    <3>1. Stacks[th] # NoTxn /\ r[Stacks[th]] = r[t]
      BY <2>2, <1>2 DEF Back
    <3>2. ASSUME NEW s \in Txns, Sync(txn, s), NoChild(txn, s), r[s] = r[t] PROVE s = t
      <4>1. s <= t
        BY <3>2, <1>1, <1>xt, <1>tr, ChainEnd
      <4>2. t <= s
        BY <3>2, <1>xt, <1>tr, ChainEnd
      <4>3. s \in Nat /\ t \in Nat
        BY TxnNumbers
      <4>. QED BY <4>1, <4>2, <4>3
    <3>3. ASSUME NEW s \in Txns, s \notin M, k[s] = "thread", Sync(txn, s), a[s] = th PROVE FALSE
      <4>1. QueuedOK(txn, Dead, Stacks, Todos, k, a, r, s)
        BY <1>di DEF Directed
      <4>2. Back(txn, Stacks, r, th, s)
        BY <4>1, <3>3, <2>2, <1>1 DEF QueuedOK
      <4>3. r[s] = r[t]
        BY <4>2, <3>1 DEF Back
      <4>4. NoChild(txn, s)
        BY <3>3, <1>tr, LeafNoChild
      <4>. QED BY <4>3, <4>4, <3>2, <3>3, <1>3
    <3>4. ASSUME NEW v \in Threads, pc[v] = "send", loc[v].t \notin M, Sync(txn, loc[v].t),
                 loc[v].target_thread = th
          PROVE  FALSE
      <4>1. SentOK(txn, Dead, Stacks, loc, r, v) /\ SendCarry(txn, loc[v], v, k, a)
        BY <3>4, <1>di, <1>ca DEF Directed, Carried, CarryOK
      <4>2. PICK s \in Txns : s = loc[v].t /\ k[s] = "carried"
        BY <4>1 DEF SendCarry
      <4>3. th # NoThread
        BY NullAssumption
      <4>4. Back(txn, Stacks, r, th, s)
        BY <4>1, <4>2, <4>3, <3>4, <1>1 DEF SentOK
      <4>5. r[s] = r[t]
        BY <4>4, <3>1 DEF Back
      <4>6. NoChild(txn, s)
        BY <4>2, <1>tr, LeafNoChild
      <4>. QED BY <4>2, <4>5, <4>6, <3>2, <3>4, <1>3
    <3>. QED BY <3>3, <3>4 DEF Quiet
  <2>. QED BY <2>1, <2>2
<1>. QED BY <1>2, <1>3

\* What a delivery does to the struct binder_thread: off the list, onto the stack.
Pushed(th, t) ==
  /\ thr' \in [Threads -> Thr] /\ OnlyWaiting(SetStack(TakeTxn(thr, th), th, t), thr')
  /\ \A u \in Threads : thr'[u].waiting => SetStack(TakeTxn(thr, th), th, t)[u].waiting

\* The views of threads after a call was pushed.
LEMMA PushedOf ==
  ASSUME Typed, NEW th \in Threads, NEW t \in 0 .. MaxTxns, Pushed(th, t)
  PROVE  /\ UNCHANGED <<ReturnErrors, ReplyErrors, Dead, ThreadRefs>>
         /\ \A u \in Threads : u # th =>
              /\ Todos'[u] = Todos[u] /\ Stacks'[u] = Stacks[u]
              /\ u \in Flagged' <=> u \in Flagged
         /\ Todos'[th] = Rest(Todos[th]) /\ Stacks'[th] = t
         /\ th \in Flagged' <=> th \in Flagged /\ Todos'[th] # <<>>
         /\ \A u \in Threads : u \in Waiting' => u \in Waiting
<1>1. thr \in [Threads -> Thr]
  BY DEF Typed
<1>. DEFINE T == TakeTxn(thr, th)
<1>2. /\ T \in [Threads -> Thr]
      /\ \A u \in Threads : u # th => T[u] = thr[u]
      /\ T[th].todo = Rest(thr[th].todo)
      /\ T[th].process_todo <=> thr[th].process_todo /\ Rest(thr[th].todo) # <<>>
      /\ T[th].return_error = thr[th].return_error
      /\ T[th].reply_error = thr[th].reply_error
      /\ T[th].waiting = thr[th].waiting
      /\ T[th].is_dead = thr[th].is_dead
      /\ T[th].tmp_ref = thr[th].tmp_ref
  BY <1>1, TakeTxnOf
<1>. DEFINE S == SetStack(T, th, t)
<1>3. OnlyWaiting(S, thr') /\ \A u \in Threads : thr'[u].waiting => S[u].waiting
  BY DEF Pushed
<1>. HIDE DEF T
<1>4. /\ \A u \in Threads : u # th => S[u] = T[u]
      /\ S[th].stack = t /\ S[th].todo = T[th].todo
      /\ S[th].process_todo = T[th].process_todo
      /\ S[th].return_error = T[th].return_error
      /\ S[th].reply_error = T[th].reply_error
      /\ S[th].waiting = T[th].waiting
      /\ S[th].is_dead = T[th].is_dead
      /\ S[th].tmp_ref = T[th].tmp_ref
  BY <1>2, SetStackOf
<1>. HIDE DEF S
<1>5. \A u \in Threads :
        /\ thr'[u].return_error = thr[u].return_error
        /\ thr'[u].reply_error = thr[u].reply_error /\ thr'[u].is_dead = thr[u].is_dead
        /\ thr'[u].tmp_ref = thr[u].tmp_ref
        /\ thr'[u].waiting => thr[u].waiting
        /\ u # th => thr'[u].todo = thr[u].todo /\ thr'[u].process_todo = thr[u].process_todo
                     /\ thr'[u].stack = thr[u].stack
  BY <1>2, <1>3, <1>4 DEF OnlyWaiting
<1>6. /\ thr'[th].todo = Rest(thr[th].todo) /\ thr'[th].stack = t
      /\ thr'[th].process_todo <=> thr[th].process_todo /\ Rest(thr[th].todo) # <<>>
  BY <1>2, <1>3, <1>4 DEF OnlyWaiting
<1>7. UNCHANGED <<ReturnErrors, ReplyErrors, Dead, ThreadRefs>>
  BY <1>5, SameThreads
<1>8. \A u \in Threads : /\ Todos[u] = thr[u].todo /\ Stacks[u] = thr[u].stack
                         /\ u \in Flagged <=> thr[u].process_todo
                         /\ u \in Waiting <=> thr[u].waiting
  BY ThreadViews
<1>9. \A u \in Threads : /\ Todos'[u] = thr'[u].todo /\ Stacks'[u] = thr'[u].stack
                         /\ u \in Flagged' <=> thr'[u].process_todo
                         /\ u \in Waiting' <=> thr'[u].waiting
  BY NextViews
<1>. QED BY <1>5, <1>6, <1>7, <1>8, <1>9

\* The thread that pushes a call leaves the driver.
LEMMA PushLeaves ==
  ASSUME Typed, NEW th \in Threads, NEW P, NEW t \in Txns,
         ReturnToUser([TakeTxn(thr, th) EXCEPT ![th].stack = t], P, th)
  PROVE  Pushed(th, t) /\ Leaving(th, t) /\ pc'[th] = "user"
<1>1. thr \in [Threads -> Thr] /\ pc \in [Threads -> PCs] /\ loc \in [Threads -> Loc]
  BY DEF Typed
<1>2. SetStack(TakeTxn(thr, th), th, t) \in [Threads -> Thr]
  <2>1. PICK T \in [Threads -> Thr] : T = TakeTxn(thr, th)
    BY <1>1, TakeTxnOf
  <2>2. t \in 0 .. MaxTxns
    BY TxnNumbers
  <2>. QED BY <2>1, <2>2, SetStackOf
<1>3. Pushed(th, t)
  <2>1. PICK T \in [Threads -> Thr] : T = SetStack(TakeTxn(thr, th), th, t)
    BY <1>2
  <2>2. ReturnToUser(T, P, th)
    BY <2>1 DEF SetStack
  <2>3. thr' \in [Threads -> Thr] /\ OnlyWaiting(T, thr')
        /\ \A u \in Threads : thr'[u].waiting => T[u].waiting
    BY <2>2, ReturnWakes
  <2>. QED BY <2>1, <2>3 DEF Pushed
<1>4. pc' = [pc EXCEPT ![th] = "user"] /\ loc' = [loc EXCEPT ![th] = NoLoc]
  BY DEF ReturnToUser
<1>5. pc' \in [Threads -> PCs] /\ pc'[th] = "user" /\ \A u \in Threads : u # th => pc'[u] = pc[u]
  BY <1>1, <1>4 DEF PCs
<1>6. loc' \in [Threads -> Loc] /\ ~loc'[th].wait_for_proc_work
      /\ \A u \in Threads : u # th => loc'[u] = loc[u]
  BY <1>1, <1>4, LocType
<1>. QED BY <1>3, <1>5, <1>6 DEF Leaving, OnlyMoves

\* A synchronous call is delivered.
LEMMA DeliverCallStep ==
  ASSUME NEW k, NEW a, NEW r, Inv(k, a, r), NEW th \in Threads, NEW t \in Txns,
         Deliver(th, t), Sync(txn, t)
  PROVE  \E k2, a2 : Inv(k2, a2, r)'
<1>ty. Typed /\ bug = FALSE
  BY Parts
<1>gh. Ghosts(k, a, r)
  BY Parts
<1>xt. txn \in [Txns -> Txn]
  BY Parts
<1>bt. buf \in [Txns -> Buf]
  BY Parts
<1>kt. Stacks \in [Threads -> 0 .. MaxTxns]
  BY Parts
<1>ft. sfr \in [Threads \cup Procs -> 0 .. MaxTxns]
  BY Parts
<1>nm. Names(txn)
  BY Parts
<1>ca. Carried(txn, Dead, pc, loc, k, a)
  BY Parts
<1>fa. Failing(sfr, k, a)
  BY Parts
<1>po. Placed(txn, Dead, k, a)
  BY Parts
<1>tr. Tree(txn, Dead, k, a, r)
  BY Parts
<1>st. AllStacks(txn, Dead, Stacks, k, a, r)
  BY Parts
<1>di. Directed(txn, Dead, Stacks, Todos, pc, loc, k, a, r)
  BY Parts
<1>bu. Buffers(txn, buf, loc, k, a)
  BY Parts
<1>dr. Drops(txn, buf, pc, loc, sfr)
  BY Parts
<1>ow. Oneways(buf, DeadProcs, LiveNodes, AsyncNodes, AsyncTodos, pc, loc)
  BY Parts
<1>ts. ThreadStates(Dead, Stacks, Todos, Waiting, pc, loc, sfr)
  BY Parts
<1>ps. ProcStates(ProcSts, DeadProcs, ProcTodos, ProcRefs, LiveNodes, AsyncTodos, pc, sfr)
  BY Parts
<1>tc. ThreadCounts(ThreadRefs, pc, loc)
  BY Parts
<1>pc. ProcCounts(Dead, ThreadRefs, ProcSts, ProcRefs, pc, loc)
  BY Parts
<1>no. Notices(Dead, Todos, ReturnErrors, ReplyErrors, pc)
  BY Parts
<1>fl. Flags(txn, Dead, Stacks, Todos, Flagged)
  BY Parts
<1>rd. ReadsTxn(th, t)
  BY DEF Deliver
<1>1. /\ pc[th] = "loop" /\ th \notin Dead /\ th \notin Waiting /\ sfr[th] = NoTxn
      /\ ProcOf[th] \in Procs /\ ProcSts[ProcOf[th]] = "open"
  BY <1>rd, ReadFacts
<1>2. /\ k[t] \in {"thread", "proc"} /\ txn[t].to_proc = ProcOf[th]
      /\ (k[t] = "thread" /\ Head(Todos[th]) = TxnItem(t) /\ Todos[th] # <<>>) \/ Todos[th] = <<>>
  BY <1>rd, ReadFacts
<1>nc. NoChild(txn, t) /\ Fresh(txn[t], buf[t])
  BY <1>rd, ReadFacts
<1>sf. Stacks[th] = NoTxn \/ Back(txn, Stacks, r, th, t)
  BY <1>rd, ServeFacts
<1>top. t \in 0 .. MaxTxns /\ Stacks[th] \in 0 .. MaxTxns /\ Stacks[th] = thr[th].stack
  BY <1>ty, TxnNumbers, ThreadViews
<1>gs. PICK k2, a2 : k2 = [k EXCEPT ![t] = "served"] /\ a2 = [a EXCEPT ![t] = th]
  OBVIOUS
<1>g2. Ghosts(k2, a2, r) /\ k2[t] = "served" /\ a2[t] = th /\ SameBut(k, a, k2, a2, t)
  BY <1>gs, <1>gh DEF Ghosts, Kinds, SameBut
<1>tx. /\ txn' \in [Txns -> Txn] /\ \A s \in Txns : s # t => txn'[s] = txn[s]
       /\ txn'[t].kind = "sync" /\ txn'[t].from = txn[t].from
       /\ txn'[t].from_parent = txn[t].from_parent /\ txn'[t].to_proc = txn[t].to_proc
       /\ txn'[t].to_thread = th /\ txn'[t].to_parent = Stacks[th]
       /\ txn'[t].buffer = txn[t].buffer
  <2>1. txn' = [txn EXCEPT ![t].to_parent = thr[th].stack, ![t].to_thread = th]
    BY DEF Deliver, Sync
  <2>2. PICK v \in 0 .. MaxTxns : v = thr[th].stack /\ v = Stacks[th]
    BY <1>top
  <2>3. PICK x : x = [txn[t] EXCEPT !.to_parent = v, !.to_thread = th]
    OBVIOUS
  <2>4. txn[t] \in Txn
    BY <1>xt
  <2>5. /\ x \in Txn /\ x.kind = txn[t].kind /\ x.from = txn[t].from
        /\ x.from_parent = txn[t].from_parent /\ x.to_proc = txn[t].to_proc
        /\ x.to_thread = th /\ x.to_parent = v /\ x.buffer = txn[t].buffer
    BY <2>3, <2>4 DEF Txn
  <2>6. txn' = [txn EXCEPT ![t] = x]
    BY <2>1, <2>2, <2>3, <1>xt
  <2>7. txn' \in [Txns -> Txn] /\ txn'[t] = x /\ \A s \in Txns : s # t => txn'[s] = txn[s]
    BY <2>5, <2>6, <1>xt
  <2>. QED BY <2>2, <2>5, <2>7 DEF Sync
<1>bf. /\ buf' \in [Txns -> Buf] /\ \A s \in Txns : s # t => buf'[s] = buf[s]
       /\ buf'[t].st = "user" /\ buf'[t].owner = buf[t].owner /\ buf'[t].node = buf[t].node
       /\ buf'[t].async = buf[t].async /\ buf'[t].transaction = buf[t].transaction
  <2>1. buf' = [buf EXCEPT ![t].st = "user"]
    BY DEF Deliver, Sync
  <2>. QED BY <2>1, <1>bt DEF Buf
<1>3. UNCHANGED <<node, bug, sfr>>
  BY DEF Deliver
<1>pl. Pushed(th, t) /\ Leaving(th, t) /\ pc'[th] = "user"
  <2>1. ReturnToUser([TakeTxn(thr, th) EXCEPT ![th].stack = t], TakenFrom(th), th)
    BY DEF Deliver, Sync
  <2>. QED BY <2>1, <1>ty, PushLeaves
<1>4. /\ UNCHANGED <<ReturnErrors, ReplyErrors, Dead, ThreadRefs>>
      /\ \A u \in Threads : u \in Waiting' => u \in Waiting
  BY <1>ty, <1>top, <1>pl, PushedOf
<1>5. /\ \A u \in Threads : u # th =>
           /\ Todos'[u] = Todos[u]
           /\ u \in Flagged' <=> u \in Flagged
      /\ Todos'[th] = Rest(Todos[th])
      /\ th \in Flagged' <=> th \in Flagged /\ Todos'[th] # <<>>
  BY <1>ty, <1>top, <1>pl, PushedOf
<1>ks. Stacks'[th] = t /\ \A u \in Threads : u # th => Stacks'[u] = Stacks[u]
  BY <1>ty, <1>top, <1>pl, PushedOf
<1>6. /\ proc' \in [Procs -> Prc] /\ UNCHANGED <<ProcSts, DeadProcs, ProcRefs>>
      /\ \A p \in Procs : ProcTodos'[p] = IF Todos[th] = <<>> /\ p = ProcOf[th]
                                          THEN Tail(ProcTodos[p]) ELSE ProcTodos[p]
  <2>1. thr[th].todo = <<>> => proc[ProcOf[th]].todo # <<>>
    BY <1>rd DEF ReadsTxn
  <2>2. TookFrom(th)
    BY DEF Deliver, TookFrom
  <2>. QED BY <2>1, <2>2, <1>ty, TookFromOf
<1>7. UNCHANGED <<LiveNodes, AsyncNodes, AsyncTodos>>
  BY <1>3, SameAll
<1>8. /\ pc' \in [Threads -> PCs] /\ loc' \in [Threads -> Loc] /\ pc'[th] = "user"
      /\ ~loc'[th].wait_for_proc_work
      /\ \A u \in Threads : u # th => pc'[u] = pc[u] /\ loc'[u] = loc[u]
      /\ OnlyMoves(pc, loc, pc', loc', th)
  BY <1>pl DEF Leaving, OnlyMoves
<1>9. Typed' /\ bug' = FALSE
  <2>1. txn' \in [Txns -> Txn] /\ buf' \in [Txns -> Buf]
    BY <1>tx, <1>bf
  <2>2. thr' \in [Threads -> Thr]
    BY <1>pl DEF Pushed
  <2>3. node' \in [Procs -> Nde] /\ bug' = FALSE /\ sfr' \in [Threads \cup Procs -> 0 .. MaxTxns]
    BY <1>3, <1>ty DEF Typed
  <2>4. proc' \in [Procs -> Prc] /\ pc' \in [Threads -> PCs] /\ loc' \in [Threads -> Loc]
    BY <1>6, <1>8
  <2>. QED BY <2>1, <2>2, <2>3, <2>4 DEF Typed
<1>10. /\ ThreadLists(Todos', k2, a2) /\ TxnLists(ProcTodos', "proc", k2, a2)
       /\ TxnLists(AsyncTodos, "async", k2, a2)
       /\ \A s \in Txns : s # t /\ k[s] = "thread" /\ Head(Todos[a[s]]) = TxnItem(s) =>
              Head(Todos'[a[s]]) = TxnItem(s)
  <2>1. PICK L2, Q2 : L2 = Todos' /\ Q2 = ProcTodos'
    OBVIOUS
  <2>2. /\ k2[t] \notin {"thread", "proc", "async"} /\ L2[th] = Rest(Todos[th])
        /\ \A u \in Threads : u # th => L2[u] = Todos[u]
        /\ \A p \in Procs : Q2[p] = IF Todos[th] = <<>> /\ p = ProcOf[th]
                                    THEN Tail(ProcTodos[p]) ELSE ProcTodos[p]
    BY <2>1, <1>g2, <1>5, <1>6
  <2>3. SameBut(k, a, k2, a2, t)
    BY <1>g2
  <2>4. /\ ThreadLists(L2, k2, a2) /\ TxnLists(Q2, "proc", k2, a2)
        /\ TxnLists(AsyncTodos, "async", k2, a2)
        /\ \A s \in Txns : s # t /\ k[s] = "thread" /\ Head(Todos[a[s]]) = TxnItem(s) =>
              Head(L2[a[s]]) = TxnItem(s)
    BY <2>2, <2>3, <1>rd, ReadLists
  <2>. QED BY <2>1, <2>4
<1>sy. Stay(txn, txn', k, a, k2, a2, {t})
  BY <1>tx, <1>g2 DEF Stay, SameTxn, SameBut
<1>cr. \A s \in Txns : k[s] = "carried" => (s \in {t} <=> a[s] = th)
  <2>1. ASSUME NEW s \in Txns, k[s] = "carried" PROVE s # t /\ a[s] # th
    <3>1. a[s] \in Threads /\ pc[a[s]] \in {"send", "reply"}
      BY <2>1, <1>ca DEF Carried, CarrierOK
    <3>. QED BY <2>1, <3>1, <1>1, <1>2
  <2>. QED BY <2>1
<1>11. Names(txn') /\ Failing(sfr', k2, a2)
  <2>1. \A s \in Txns : txn'[s].kind = "unused" <=> txn[s].kind = "unused"
    BY <1>tx DEF Sync
  <2>2. t \in Txns => k[t] # "failing" /\ k2[t] # "failing"
    BY <1>2, <1>g2
  <2>3. Failing(sfr, k2, a2)
    BY <2>2, <1>g2, <1>fa, <1>ft, FailKeep
  <2>. QED BY <2>1, <2>3, <1>3, <1>nm, NamesKeep
<1>12. Placed(txn', Dead, k2, a2)
  <2>1. PlaceOK(txn', Dead, k2, a2, t)
    BY <1>1, <1>2, <1>tx, <1>g2 DEF PlaceOK, Sync
  <2>2. \A s \in Txns : k[s] = "orphan" /\ s \notin {t} /\ a[s] \in {t} =>
          /\ txn'[a[s]].kind = txn[a[s]].kind /\ txn'[a[s]].from = txn[a[s]].from
          /\ txn'[a[s]].from_parent = txn[a[s]].from_parent
    BY <1>tx DEF Sync
  <2>3. \A s \in Txns : s \in {t} => PlaceOK(txn', Dead, k2, a2, s)
    BY <2>1
  <2>. QED BY <2>2, <2>3, <1>sy, <1>po, PlacedStep
<1>13. Tree(txn', Dead, k2, a2, r)
  <2>1. \A s \in Txns : s # t => k2[s] = k[s] /\ a2[s] = a[s]
    BY <1>g2 DEF SameBut
  <2>2. Keeps(txn, k, a, k2, a2)
    BY <2>1, <1>nc, <1>xt, KeepsMove
  <2>3. /\ ProcOf[th] = txn[t].to_proc /\ \A s \in Txns : s # t => txn'[s] = txn[s]
        /\ txn'[t].kind = txn[t].kind /\ txn'[t].from = txn[t].from
        /\ txn'[t].from_parent = txn[t].from_parent /\ txn'[t].to_proc = txn[t].to_proc
        /\ txn'[t].to_thread = th
    BY <1>2, <1>tx DEF Sync
  <2>. QED BY <2>2, <2>3, <1>xt, <1>tr, TreeDeliver
<1>al. AllStacks(txn', Dead, Stacks', k2, a2, r)
  <2>1. ASSUME NEW u \in Threads, NEW s \in Txns, s # t PROVE Alike(txn, txn', k, a, k2, a2, u, s)
    <3>1. s \notin {t}
      BY <2>1
    <3>. QED BY <3>1, <1>sy, StayAlike
  <2>2. ASSUME NEW u \in Threads, u \notin Dead PROVE StackOK(txn', Stacks', k2, a2, r, u)
    <3>1. StackOK(txn, Stacks, k, a, r, u) /\ Stacks[u] \in 0 .. MaxTxns
      BY <2>2, <1>st, <1>ty, ThreadViews DEF AllStacks
    <3>2. CASE u = th
      <4>1. Stacks[th] < t /\ (Stacks[th] # NoTxn => r[t] = r[Stacks[th]] /\ txn[Stacks[th]].from = th)
        <5>1. CASE Stacks[th] = NoTxn
          BY <5>1, TxnNumbers
        <5>2. CASE Stacks[th] # NoTxn
          BY <5>2, <1>sf DEF Back
        <5>. QED BY <5>1, <5>2
      <4>2. Mine(txn', k2, a2, th, t) /\ Below(txn', th, t) = Stacks[th]
        BY <1>tx, <1>g2 DEF Mine, Below, Sync
      <4>3. \A s \in Txns : s # t => Alike(txn, txn', k, a, k2, a2, th, s)
        BY <2>1
      <4>4. \A s \in Txns : s # t => r[s] = r[s]
        OBVIOUS
      <4>5. Stacks'[th] = t /\ StackOK(txn, Stacks, k, a, r, th)
        BY <3>1, <3>2, <1>ks
      <4>6. StackOK(txn', Stacks', k2, a2, r, th)
        BY <4>1, <4>2, <4>3, <4>4, <4>5, <1>top, <1>xt, StackPush
      <4>. QED BY <4>6, <3>2
    <3>3. CASE u # th
      <4>1. Alike(txn, txn', k, a, k2, a2, u, t)
        <5>1. /\ Mine(txn, k, a, u, t) <=> txn[t].from = u
              /\ Mine(txn', k2, a2, u, t) <=> txn[t].from = u
          BY <3>3, <1>2, <1>tx, <1>g2 DEF Mine, Sync
        <5>2. txn[t].from = u => txn[t].to_thread # u /\ Below(txn, u, t) = txn[t].from_parent
          BY <1>tr, CallerBelow
        <5>3. txn'[t].to_thread # u /\ Below(txn', u, t) = txn[t].from_parent
          BY <3>3, <1>tx DEF Below
        <5>. QED BY <5>1, <5>2, <5>3, <1>tx DEF Alike
      <4>2. \A s \in Txns : Alike(txn, txn', k, a, k2, a2, u, s)
        BY <2>1, <4>1
      <4>3. Stacks'[u] = Stacks[u] /\ \A s \in Txns : Mine(txn, k, a, u, s) => r[s] = r[s]
        BY <3>3, <1>ks
      <4>. QED BY <3>1, <4>2, <4>3, <1>xt, StackKeep
    <3>. QED BY <3>2, <3>3
  <2>. QED BY <2>2 DEF AllStacks
<1>14. Carried(txn', Dead, pc', loc', k2, a2)
  <2>1. \A s \in Txns : s \in {t} => CarrierOK(pc', loc', k2, a2, s)
    BY <1>g2 DEF CarrierOK
  <2>2. th \in Threads => CarryOK(txn', Dead, pc', loc', k2, a2, th)
    BY <1>8 DEF CarryOK, Holds, Holding
  <2>. QED BY <2>1, <2>2, <1>sy, <1>cr, <1>8, <1>ca, CarriedStep
<1>15. Directed(txn', Dead, Stacks', Todos', pc', loc', k2, a2, r)
  <2>1. PICK M : M = {t}
    OBVIOUS
  <2>2. Stay(txn, txn', k, a, k2, a2, M) /\ Leaves(txn, M)
    BY <2>1, <1>sy, <1>nc DEF Leaves
  <2>3. \A s \in Txns : s \in M => QueuedOK(txn', Dead, Stacks', Todos', k2, a2, r, s)
    BY <2>1, <1>g2 DEF QueuedOK
  <2>4. Quiet(txn, pc, loc, k, a, M, th)
    BY <2>1, <1>rd, ServeFacts
  <2>5. Calm(txn, pc, loc, k, a, M, Stacks, Stacks')
    BY <2>4, <1>ks DEF Calm
  <2>6. \A s \in Txns : s \notin M /\ k[s] = "thread" /\ Head(Todos[a[s]]) = TxnItem(s) =>
          Head(Todos'[a[s]]) = TxnItem(s)
    BY <2>1, <1>10
  <2>7. ASSUME NEW u \in Threads, pc'[u] = "send"
        PROVE  pc[u] = "send" /\ loc'[u] = loc[u] /\ loc[u].t \notin M
    <3>1. pc[u] = "send" /\ loc'[u] = loc[u]
      BY <2>7, <1>8
    <3>2. SendCarry(txn, loc[u], u, k, a)
      BY <3>1, <1>ca DEF Carried, CarryOK
    <3>. QED BY <2>1, <3>1, <3>2, <1>2 DEF SendCarry
  <2>8. \A s \in Txns : s \notin M => r[s] = r[s]
    OBVIOUS
  <2>9. PICK K2, L2, PC2, LC2 : K2 = Stacks' /\ L2 = Todos' /\ PC2 = pc' /\ LC2 = loc'
    OBVIOUS
  <2>10. /\ \A s \in Txns : s \in M => QueuedOK(txn', Dead, K2, L2, k2, a2, r, s)
         /\ Calm(txn, pc, loc, k, a, M, Stacks, K2)
         /\ \A s \in Txns : s \notin M /\ k[s] = "thread" /\ Head(Todos[a[s]]) = TxnItem(s) =>
              Head(L2[a[s]]) = TxnItem(s)
         /\ \A u \in Threads : PC2[u] = "send" =>
              pc[u] = "send" /\ LC2[u] = loc[u] /\ loc[u].t \notin M
    BY <2>3, <2>5, <2>6, <2>7, <2>9
  <2>11. Directed(txn', Dead, K2, L2, PC2, LC2, k2, a2, r)
    BY <2>2, <2>8, <2>10, <1>xt, <1>kt, <1>di, <1>tr, <1>po, <1>ca, DirectedStep
  <2>. QED BY <2>9, <2>11
<1>16. Buffers(txn', buf', loc', k2, a2) /\ Drops(txn', buf', pc', loc', sfr')
       /\ Oneways(buf', DeadProcs, LiveNodes, AsyncNodes, AsyncTodos, pc', loc')
  <2>1. \A s \in Txns : s \in {t} => BufferOK(txn', buf', loc', k2, a2, s)
    <3>1. BufOK(txn[t], buf[t])
      BY <1>bu DEF Buffers, BufferOK
    <3>2. BufOK(txn'[t], buf'[t])
      BY <3>1, <1>tx, <1>bf, <1>nc DEF BufOK, Fresh
    <3>. QED BY <3>2, <1>g2 DEF BufferOK
  <2>2. \A s \in Txns : s \notin {t} => txn'[s] = txn[s] /\ buf'[s] = buf[s]
    BY <1>tx, <1>bf
  <2>3. Buffers(txn', buf', loc', k2, a2)
    BY <2>1, <2>2, <1>sy, <1>cr, <1>8, <1>bu, <1>ca, BuffersStep
  <2>4. ASSUME NEW u \in Threads, pc[u] = "dropbuf" PROVE loc[u].t \notin {t} /\ sfr'[u] = sfr[u]
    <3>1. k[t] \notin {"none", "failing"}
      BY <1>2
    <3>2. loc[u].t # t
      BY <2>4, <3>1, <1>dr, <1>po, <1>fa, <1>bu, DropFree
    <3>. QED BY <3>2, <1>3
  <2>5. \A u \in Threads : u # th /\ pc[u] = "dropbuf" => loc[u].t \notin {t} /\ sfr'[u] = sfr[u]
    BY <2>4
  <2>6. \A s \in Txns : s \notin {t} => buf'[s] = buf[s]
    BY <1>bf
  <2>7. th \in Threads /\ pc'[th] = "dropbuf" => DropOK(txn', buf', pc', loc', sfr', th)
    BY <1>8
  <2>8. Drops(txn', buf', pc', loc', sfr')
    BY <2>5, <2>6, <2>7, <1>sy, <1>8, <1>dr, DropsStep
  <2>9. \A s \in Txns : /\ buf'[s].st # "none" <=> buf[s].st # "none"
                        /\ buf'[s].async <=> buf[s].async
                        /\ buf'[s].node = buf[s].node
    BY <1>bf, <1>nc DEF Fresh
  <2>10. Oneways(buf', DeadProcs, LiveNodes, AsyncNodes, AsyncTodos, pc, loc)
    BY <2>9, <1>ow, OnewaysKeep
  <2>11. Oneways(buf', DeadProcs, LiveNodes, AsyncNodes, AsyncTodos, pc', loc')
    BY <2>10, <1>1, <1>8, MoveOneways
  <2>. QED BY <2>3, <2>8, <2>11
<1>17. ThreadStates(Dead, Stacks', Todos', Waiting', pc', loc', sfr')
  <2>1. ASSUME NEW u \in Threads PROVE ThreadOK(Dead, Stacks', Todos', Waiting', pc', loc', sfr', u)
    <3>1. ThreadOK(Dead, Stacks, Todos, Waiting, pc, loc, sfr, u)
      BY <1>ts DEF ThreadStates
    <3>2. CASE u = th
      BY <3>1, <3>2, <1>1, <1>4, <1>8 DEF ThreadOK
    <3>3. CASE u # th
      BY <3>1, <3>3, <1>3, <1>4, <1>5, <1>ks, <1>8 DEF ThreadOK
    <3>. QED BY <3>2, <3>3
  <2>. QED BY <2>1 DEF ThreadStates
<1>18. ProcStates(ProcSts, DeadProcs, ProcTodos', ProcRefs, LiveNodes, AsyncTodos, pc', sfr')
  <2>1. \A q \in Procs : /\ ProcSts[q] # "todo" => sfr'[q] = sfr[q]
                         /\ ProcSts[q] \in {"released", "freed"} => ProcTodos'[q] = ProcTodos[q]
    BY <1>1, <1>3, <1>6, ActorAssumption
  <2>2. \A u \in Threads :
          \/ ProcSts[ProcOf[u]] = "open"
          \/ pc'[u] = pc[u] /\ (sfr'[u] = sfr[u] \/ pc[u] # "user")
    BY <1>1, <1>3, <1>8
  <2>. QED BY <2>1, <2>2, <1>ps, ProcStatesKeep
<1>19. ThreadCounts(ThreadRefs, pc', loc') /\ ProcCounts(Dead, ThreadRefs, ProcSts, ProcRefs, pc', loc')
  <2>1. ~Holding(pc, th) /\ ~Holding(pc', th) /\ (pc'[th] = "release" <=> pc[th] = "release")
    BY <1>1, <1>8 DEF Holding
  <2>. QED BY <2>1, <1>8, <1>tc, <1>pc, MoveCounts
<1>20. Todos[th] \in Seq(Work) /\ ToSet(Todos'[th]) \subseteq ToSet(Todos[th])
       /\ \A y \in {"complete", "return_error", "reply_error"} :
            Item(y) \in ToSet(Todos'[th]) <=> Item(y) \in ToSet(Todos[th])
  <2>1. Todos[th] \in Seq(Work)
    BY <1>ty, ThreadViews
  <2>2. CASE Todos[th] # <<>>
    <3>1. ToSet(Todos[th]) = ToSet(Todos'[th]) \cup {TxnItem(t)}
      BY <2>1, <2>2, <1>2, <1>5, SeqTail DEF Rest
    <3>. QED BY <2>1, <3>1, TxnNoNotice
  <2>3. CASE Todos[th] = <<>>
    BY <2>1, <2>3, <1>5 DEF Rest
  <2>. QED BY <2>2, <2>3
<1>21. Notices(Dead, Todos', ReturnErrors, ReplyErrors, pc')
  <2>1. ASSUME NEW u \in Threads PROVE NoticeOK(Dead, Todos', ReturnErrors, ReplyErrors, pc', u)
    <3>1. NoticeOK(Dead, Todos, ReturnErrors, ReplyErrors, pc, u)
      BY <1>no DEF Notices
    <3>2. CASE u = th
      <4>1. pc'[th] \notin {"send", "reply"}
        BY <1>8
      <4>. QED BY <3>1, <3>2, <4>1, <1>20 DEF NoticeOK
    <3>3. CASE u # th
      BY <3>1, <3>3, <1>5, <1>8 DEF NoticeOK
    <3>. QED BY <3>2, <3>3
  <2>. QED BY <2>1 DEF Notices
<1>22. Flags(txn', Dead, Stacks', Todos', Flagged')
  <2>1. ASSUME NEW u \in Threads, u \notin Dead PROVE FlagOK(txn', Stacks', Todos', Flagged', u)
    <3>1. FlagOK(txn, Stacks, Todos, Flagged, u)
      BY <2>1, <1>fl DEF Flags
    <3>2. CASE u = th
      <4>1. CASE Todos[th] = <<>>
        BY <3>2, <4>1, <1>5 DEF FlagOK, Rest
      <4>2. CASE Todos[th] # <<>>
        <5>1. Todos[th] # <<Item("complete")>>
          BY <4>2, <1>2, SeqSmall, TxnNoNotice
        <5>2. th \in Flagged
          BY <4>2, <5>1, <3>1, <3>2 DEF FlagOK
        <5>. QED BY <5>2, <3>2, <1>5 DEF FlagOK
      <4>. QED BY <4>1, <4>2
    <3>3. CASE u # th
      <4>1. Stacks[u] \in 0 .. MaxTxns
        BY <1>ty, ThreadViews
      <4>2. Stacks[u] \in Txns => txn'[Stacks[u]].from = txn[Stacks[u]].from
        BY <1>tx
      <4>3. Stacks[u] # NoTxn /\ txn[Stacks[u]].from = u => txn'[Stacks[u]].from = u
        BY <4>1, <4>2, TxnNumbers
      <4>. QED BY <3>1, <3>3, <4>3, <1>5, <1>ks DEF FlagOK
    <3>. QED BY <3>2, <3>3
  <2>. QED BY <2>1 DEF Flags
<1>23. Inv(k2, a2, r)'
  BY <1>4, <1>6, <1>7, <1>9, <1>10, <1>11, <1>12, <1>13, <1>al, <1>14, <1>15, <1>16, <1>17, <1>18,
     <1>19, <1>21, <1>22, <1>g2, Whole
<1>. QED BY <1>23

\* binder_thread_read delivers a transaction.
LEMMA DeliverStep ==
  ASSUME NEW k, NEW a, NEW r, Inv(k, a, r), NEW th \in Threads, NEW t \in Txns, Deliver(th, t)
  PROVE  \E k2, a2 : Inv(k2, a2, r)'
<1>1. CASE Sync(txn, t)
  BY <1>1, DeliverCallStep
<1>2. CASE ~Sync(txn, t)
  BY <1>2, DeliverDoneStep
<1>. QED BY <1>1, <1>2

\* One turn of binder_release_work on the list of a thread.
DrainThr(T, th) == [T EXCEPT ![th].todo = Tail(@)]
Drained(th) == thr' = DrainThr(thr, th)

\* The views of threads after binder_release_work took an item.
LEMMA DrainedOf ==
  ASSUME Typed, NEW th \in Threads, thr[th].todo # <<>>, Drained(th)
  PROVE  /\ thr' \in [Threads -> Thr]
         /\ UNCHANGED <<Stacks, Flagged, ReturnErrors, ReplyErrors, Waiting, Dead, ThreadRefs>>
         /\ Todos'[th] = Tail(Todos[th])
         /\ \A u \in Threads : u # th => Todos'[u] = Todos[u]
<1>1. thr \in [Threads -> Thr]
  BY DEF Typed
<1>2. thr[th] \in Thr /\ thr[th].todo \in Seq(Work)
  BY <1>1 DEF Thr
<1>3. PICK s \in Seq(Work) : s = Tail(thr[th].todo)
  BY <1>2, SeqTail
<1>4. PICK y : y = [thr[th] EXCEPT !.todo = s]
  OBVIOUS
<1>5. /\ y \in Thr /\ y.stack = thr[th].stack /\ y.todo = s
      /\ y.process_todo = thr[th].process_todo /\ y.return_error = thr[th].return_error
      /\ y.reply_error = thr[th].reply_error /\ y.waiting = thr[th].waiting
      /\ y.is_dead = thr[th].is_dead /\ y.tmp_ref = thr[th].tmp_ref
  BY <1>2, <1>3, <1>4 DEF Thr
<1>6. thr' = [thr EXCEPT ![th] = y]
  BY <1>1, <1>3, <1>4 DEF Drained, DrainThr
<1>7. thr' \in [Threads -> Thr] /\ thr'[th] = y /\ \A u \in Threads : u # th => thr'[u] = thr[u]
  BY <1>1, <1>5, <1>6
<1>8. UNCHANGED <<Stacks, Flagged, ReturnErrors, ReplyErrors, Waiting, Dead, ThreadRefs>>
  BY <1>5, <1>7, OneThread
<1>9. Todos[th] = thr[th].todo /\ Todos'[th] = thr'[th].todo
      /\ \A u \in Threads : u # th => Todos'[u] = Todos[u]
  BY <1>7, ThreadViews, NextViews
<1>. QED BY <1>3, <1>5, <1>7, <1>8, <1>9

\* What it leaves of the states of threads, of notices and of flags.
LEMMA DrainKeeps ==
  ASSUME NEW k, NEW a, NEW r, Inv(k, a, r), NEW th \in Threads, pc[th] = "release",
         Todos[th] # <<>>, NEW L2, L2[th] = Tail(Todos[th]),
         \A u \in Threads : u # th => L2[u] = Todos[u],
         NEW X2, \A s \in Txns : X2[s].from = txn[s].from,
         NEW SF2, \A y \in Threads \cup Procs : y # th => SF2[y] = sfr[y]
  PROVE  /\ th \in Dead
         /\ ThreadStates(Dead, Stacks, L2, Waiting, pc, loc, SF2)
         /\ ProcStates(ProcSts, DeadProcs, ProcTodos, ProcRefs, LiveNodes, AsyncTodos, pc, SF2)
         /\ Notices(Dead, L2, ReturnErrors, ReplyErrors, pc)
         /\ Flags(X2, Dead, Stacks, L2, Flagged)
<1>ty. Typed /\ bug = FALSE
  BY Parts
<1>kt. Stacks \in [Threads -> 0 .. MaxTxns]
  BY Parts
<1>lt. Todos \in [Threads -> Seq(Work)]
  BY Parts
<1>ts. ThreadStates(Dead, Stacks, Todos, Waiting, pc, loc, sfr)
  BY Parts
<1>ps. ProcStates(ProcSts, DeadProcs, ProcTodos, ProcRefs, LiveNodes, AsyncTodos, pc, sfr)
  BY Parts
<1>no. Notices(Dead, Todos, ReturnErrors, ReplyErrors, pc)
  BY Parts
<1>fl. Flags(txn, Dead, Stacks, Todos, Flagged)
  BY Parts
<1>1. ThreadOK(Dead, Stacks, Todos, Waiting, pc, loc, sfr, th)
  BY <1>ts DEF ThreadStates
<1>2. th \in Dead /\ th \notin Waiting
  BY <1>1 DEF ThreadOK
<1>3. ThreadStates(Dead, Stacks, L2, Waiting, pc, loc, SF2)
  <2>1. ASSUME NEW u \in Threads PROVE ThreadOK(Dead, Stacks, L2, Waiting, pc, loc, SF2, u)
    <3>1. ThreadOK(Dead, Stacks, Todos, Waiting, pc, loc, sfr, u)
      BY <1>ts DEF ThreadStates
    <3>2. CASE u = th
      BY <3>1, <3>2, <1>2 DEF ThreadOK
    <3>3. CASE u # th
      BY <3>1, <3>3 DEF ThreadOK
    <3>. QED BY <3>2, <3>3
  <2>. QED BY <2>1 DEF ThreadStates
<1>4. ProcStates(ProcSts, DeadProcs, ProcTodos, ProcRefs, LiveNodes, AsyncTodos, pc, SF2)
  <2>1. \A q \in Procs : ProcSts[q] # "todo" => SF2[q] = sfr[q]
    BY ActorAssumption
  <2>2. \A u \in Threads :
          \/ ProcSts[ProcOf[u]] = "open"
          \/ pc[u] = pc[u] /\ (SF2[u] = sfr[u] \/ pc[u] # "user")
    OBVIOUS
  <2>. QED BY <2>1, <2>2, <1>ps, ProcStatesKeep
<1>5. Notices(Dead, L2, ReturnErrors, ReplyErrors, pc)
  <2>1. ToSet(L2[th]) \subseteq ToSet(Todos[th])
    <3>1. Todos[th] \in Seq(Work)
      BY <1>lt
    <3>. QED BY <3>1, SeqTail
  <2>2. ASSUME NEW u \in Threads PROVE NoticeOK(Dead, L2, ReturnErrors, ReplyErrors, pc, u)
    <3>1. NoticeOK(Dead, Todos, ReturnErrors, ReplyErrors, pc, u)
      BY <1>no DEF Notices
    <3>2. CASE u = th
      BY <3>1, <3>2, <2>1, <1>2 DEF NoticeOK
    <3>3. CASE u # th
      BY <3>1, <3>3 DEF NoticeOK
    <3>. QED BY <3>2, <3>3
  <2>. QED BY <2>2 DEF Notices
<1>6. Flags(X2, Dead, Stacks, L2, Flagged)
  <2>1. ASSUME NEW u \in Threads, u \notin Dead PROVE FlagOK(X2, Stacks, L2, Flagged, u)
    <3>1. FlagOK(txn, Stacks, Todos, Flagged, u) /\ L2[u] = Todos[u]
      BY <2>1, <1>2, <1>fl DEF Flags
    <3>2. Stacks[u] # NoTxn => Stacks[u] \in Txns
      BY <1>kt, TxnNumbers
    <3>. QED BY <3>1, <3>2 DEF FlagOK
  <2>. QED BY <2>1 DEF Flags
<1>. QED BY <1>2, <1>3, <1>4, <1>5, <1>6

\* binder_release_work drops a notice.
LEMMA ReleaseNoticeStep ==
  ASSUME NEW k, NEW a, NEW r, Inv(k, a, r), NEW th \in Threads, ReleaseThreadWork(th),
         Head(thr[th].todo).type # "txn"
  PROVE  Inv(k, a, r)'
<1>ty. Typed /\ bug = FALSE
  BY Parts
<1>gh. Ghosts(k, a, r)
  BY Parts
<1>lt. Todos \in [Threads -> Seq(Work)]
  BY Parts
<1>tl. ThreadLists(Todos, k, a)
  BY Parts
<1>po. Placed(txn, Dead, k, a)
  BY Parts
<1>di. Directed(txn, Dead, Stacks, Todos, pc, loc, k, a, r)
  BY Parts
<1>1. /\ pc[th] = "release" /\ thr[th].todo # <<>> /\ UNCHANGED <<txn, buf, sfr>>
      /\ UNCHANGED <<proc, node, pc, loc, bug>>
  BY DEF ReleaseThreadWork
<1>2. Drained(th)
  BY DEF ReleaseThreadWork, Drained, DrainThr
<1>3. Todos[th] = thr[th].todo
  BY <1>ty, ThreadViews
<1>4. /\ thr' \in [Threads -> Thr]
      /\ UNCHANGED <<Stacks, Flagged, ReturnErrors, ReplyErrors, Waiting, Dead, ThreadRefs>>
      /\ Todos'[th] = Tail(Todos[th])
      /\ \A u \in Threads : u # th => Todos'[u] = Todos[u]
  BY <1>1, <1>2, <1>ty, DrainedOf
<1>5. /\ UNCHANGED <<ProcSts, ProcTodos, DeadProcs, ProcRefs>>
      /\ UNCHANGED <<LiveNodes, AsyncNodes, AsyncTodos>>
  BY <1>1, SameAll
<1>6. Typed' /\ bug' = FALSE
  BY <1>1, <1>4, <1>ty DEF Typed
<1>7. PICK L2 : L2 = Todos'
  OBVIOUS
<1>8. ThreadLists(L2, k, a)
  <2>1. ListOK(Todos[th], k, a, th) /\ Todos[th] \in Seq(Work)
    BY <1>tl, <1>lt DEF ThreadLists
  <2>2. ListOK(Tail(Todos[th]), k, a, th)
    BY <2>1, <1>1, <1>3, ListTail
  <2>. QED BY <2>2, <1>4, <1>7, <1>tl DEF ThreadLists
<1>9. Directed(txn, Dead, Stacks, L2, pc, loc, k, a, r)
  <2>1. \A u \in Threads, t \in Txns :
          TxnItem(t) \in ToSet(Todos[u]) /\ Head(Todos[u]) = TxnItem(t) => Head(L2[u]) = TxnItem(t)
    BY <1>3, <1>4, <1>7, TxnItems
  <2>. QED BY <2>1, <1>di, <1>tl, <1>po, ListsDirected
<1>10. /\ ThreadStates(Dead, Stacks, L2, Waiting, pc, loc, sfr)
       /\ ProcStates(ProcSts, DeadProcs, ProcTodos, ProcRefs, LiveNodes, AsyncTodos, pc, sfr)
       /\ Notices(Dead, L2, ReturnErrors, ReplyErrors, pc)
       /\ Flags(txn, Dead, Stacks, L2, Flagged)
  <2>1. Todos[th] # <<>> /\ L2[th] = Tail(Todos[th]) /\ \A u \in Threads : u # th => L2[u] = Todos[u]
    BY <1>1, <1>3, <1>4, <1>7
  <2>. QED BY <2>1, <1>1, DrainKeeps
<1>. QED BY <1>1, <1>4, <1>5, <1>6, <1>7, <1>8, <1>9, <1>10, Parts, Whole

\* Nobody's call is cut off from its caller by the one that takes it.
LEMMA TakenFrom1 ==
  ASSUME NEW k, NEW a, NEW r, Inv(k, a, r), NEW x \in Threads \cup Procs, NEW t \in Txns,
         NEW k2, NEW a2, Taken(x, t, k, a, k2, a2), k[t] \in {"thread", "proc"}
  PROVE  \A s \in Txns : txn'[s].from = txn[s].from
<1>tr. Tree(txn, Dead, k, a, r)
  BY Parts
<1>1. /\ k2[t] \in {"failing", "none"}
      /\ k2[t] = "failing" => txn'[t] = txn[t]
      /\ k2[t] = "none" => txn'[t] = FreedTxn /\ ~Sync(txn, t)
  BY TakenFacts
<1>2. \A s \in Txns : s # t => txn'[s] = txn[s]
  BY TakenFacts
<1>3. k2[t] = "none" => txn[t].from = NoThread
  BY <1>1, <1>tr DEF Tree, CallOK
<1>. QED BY <1>1, <1>2, <1>3, FreedFields

\* binder_release_work fails or frees a transaction.
LEMMA ReleaseTxnStep ==
  ASSUME NEW k, NEW a, NEW r, Inv(k, a, r), NEW th \in Threads, ReleaseThreadWork(th),
         Head(thr[th].todo).type = "txn"
  PROVE  \E k2, a2 : Inv(k2, a2, r)'
<1>ty. Typed /\ bug = FALSE
  BY Parts
<1>gh. Ghosts(k, a, r)
  BY Parts
<1>lt. Todos \in [Threads -> Seq(Work)]
  BY Parts
<1>tl. ThreadLists(Todos, k, a)
  BY Parts
<1>pl. TxnLists(ProcTodos, "proc", k, a)
  BY Parts
<1>al. TxnLists(AsyncTodos, "async", k, a)
  BY Parts
<1>po. Placed(txn, Dead, k, a)
  BY Parts
<1>bt. buf \in [Txns -> Buf]
  BY Parts
<1>fa. Failing(sfr, k, a)
  BY Parts
<1>dr. Drops(txn, buf, pc, loc, sfr)
  BY Parts
<1>bu. Buffers(txn, buf, loc, k, a)
  BY Parts
<1>tc. ThreadCounts(ThreadRefs, pc, loc)
  BY Parts
<1>pc. ProcCounts(Dead, ThreadRefs, ProcSts, ProcRefs, pc, loc)
  BY Parts
<1>1. /\ pc[th] = "release" /\ thr[th].todo # <<>> /\ sfr[th] = NoTxn
      /\ UNCHANGED <<proc, node, pc, loc, bug>>
  BY DEF ReleaseThreadWork
<1>2. Drained(th)
  BY DEF ReleaseThreadWork, Drained, DrainThr
<1>3. Todos[th] = thr[th].todo /\ Todos[th] \in Seq(Work)
  BY <1>ty, ThreadViews
<1>4. /\ thr' \in [Threads -> Thr]
      /\ UNCHANGED <<Stacks, Flagged, ReturnErrors, ReplyErrors, Waiting, Dead, ThreadRefs>>
      /\ Todos'[th] = Tail(Todos[th])
      /\ \A u \in Threads : u # th => Todos'[u] = Todos[u]
  BY <1>1, <1>2, <1>ty, DrainedOf
<1>5. /\ UNCHANGED <<ProcSts, ProcTodos, DeadProcs, ProcRefs>>
      /\ UNCHANGED <<LiveNodes, AsyncNodes, AsyncTodos>>
  BY <1>1, SameAll
<1>6. PICK t : t = Head(thr[th].todo).t
  OBVIOUS
<1>7. t \in Txns /\ Head(Todos[th]) = TxnItem(t) /\ k[t] = "thread" /\ a[t] = th
  <2>1. Head(Todos[th]) \in Work /\ Head(Todos[th]) \in ToSet(Todos[th])
    BY <1>1, <1>3, SeqTail
  <2>2. ListOK(Todos[th], k, a, th)
    BY <1>tl DEF ThreadLists
  <2>3. t \in Txns
    BY <2>1, <2>2, <1>3, <1>6 DEF ListOK
  <2>4. Head(Todos[th]) = TxnItem(t)
    BY <2>1, <1>3, <1>6, TxnItems
  <2>. QED BY <2>1, <2>2, <2>3, <2>4 DEF ListOK
<1>8. txn[t].to_proc = ProcOf[th]
  BY <1>7, <1>po DEF Placed, PlaceOK
<1>9. PICK k2, a2 : Ghosts(k2, a2, r) /\ Taken(th, t, k, a, k2, a2)
  <2>1. Cleanup(th, t, buf) /\ th \in Threads \cup Procs
    BY <1>6 DEF ReleaseThreadWork
  <2>2. PICK B \in [Txns -> Buf] : B = buf
    BY <1>bt
  <2>3. t \in Txns /\ k[t] \in {"thread", "proc"}
    BY <1>7
  <2>. QED BY <2>1, <2>2, <2>3, <1>1, CleanupOf
<1>10. t \in Txns /\ k[t] \in {"thread", "proc"} /\ th \in Threads \cup Procs
  BY <1>7
<1>11. SameBut(k, a, k2, a2, t) /\ k2[t] \in {"failing", "none"}
  BY <1>9, <1>10, TakenFacts
<1>12. Typed' /\ bug' = FALSE
  <2>1. /\ txn' \in [Txns -> Txn] /\ buf' \in [Txns -> Buf]
        /\ sfr' \in [Threads \cup Procs -> 0 .. MaxTxns]
    BY <1>9 DEF Taken
  <2>. QED BY <2>1, <1>1, <1>4, <1>ty DEF Typed
<1>13. PICK L2 : L2 = Todos'
  OBVIOUS
<1>14. /\ ThreadLists(L2, k2, a2) /\ TxnLists(ProcTodos, "proc", k2, a2)
       /\ TxnLists(AsyncTodos, "async", k2, a2)
  <2>1. ASSUME NEW u \in Threads PROVE ListOK(L2[u], k2, a2, u)
    <3>1. ListOK(Todos[u], k, a, u)
      BY <1>tl DEF ThreadLists
    <3>2. CASE u = th
      <4>1. ListOK(Tail(Todos[th]), k2, a2, th)
        <5>1. ListOK(Todos[th], k, a, th) /\ k2[t] # "thread" /\ Todos[th] # <<>>
          BY <3>1, <3>2, <1>1, <1>3, <1>11
        <5>. QED BY <5>1, <1>3, <1>7, <1>11, ListTake
      <4>. QED BY <3>2, <4>1, <1>4, <1>13
    <3>3. CASE u # th
      <4>1. t \in Txns => ~(k[t] = "thread" /\ a[t] = u) /\ ~(k2[t] = "thread" /\ a2[t] = u)
        BY <3>3, <1>7, <1>11
      <4>2. ListOK(Todos[u], k2, a2, u)
        BY <3>1, <4>1, <1>11, ListKeep
      <4>. QED BY <3>3, <4>2, <1>4, <1>13
    <3>. QED BY <3>2, <3>3
  <2>2. t \in Txns => k[t] # "proc" /\ k2[t] # "proc"
    BY <1>7, <1>11
  <2>3. t \in Txns => k[t] # "async" /\ k2[t] # "async"
    BY <1>7, <1>11
  <2>4. TxnLists(ProcTodos, "proc", k2, a2)
    BY <2>2, <1>11, <1>pl, TxnListsKeep
  <2>5. TxnLists(AsyncTodos, "async", k2, a2)
    BY <2>3, <1>11, <1>al, TxnListsKeep
  <2>. QED BY <2>1, <2>4, <2>5 DEF ThreadLists
<1>15. \A s \in Txns : s # t /\ k[s] = "thread" /\ Head(Todos[a[s]]) = TxnItem(s) =>
          Head(L2[a[s]]) = TxnItem(s)
  <2>1. ASSUME NEW s \in Txns, s # t, k[s] = "thread", Head(Todos[a[s]]) = TxnItem(s)
        PROVE  Head(L2[a[s]]) = TxnItem(s)
    <3>1. a[s] \in Threads
      BY <2>1, <1>po DEF Placed, PlaceOK
    <3>2. a[s] # th
      BY <2>1, <1>7, TxnItems
    <3>. QED BY <2>1, <3>1, <3>2, <1>4, <1>13
  <2>. QED BY <2>1
<1>16. /\ Names(txn') /\ Failing(sfr', k2, a2) /\ Placed(txn', Dead, k2, a2)
       /\ Tree(txn', Dead, k2, a2, r)
  BY <1>8, <1>9, <1>10, TakenCalls
<1>17. AllStacks(txn', Dead, Stacks, k2, a2, r)
  BY <1>9, <1>10, TakenStacks
<1>18. OnlyMoves(pc, loc, pc, loc, th) /\ Idle(th, pc)
  BY <1>1 DEF OnlyMoves, Idle
<1>19. Carried(txn', Dead, pc, loc, k2, a2) /\ Buffers(txn', buf', loc, k2, a2)
       /\ Oneways(buf', DeadProcs, LiveNodes, AsyncNodes, AsyncTodos, pc, loc)
  BY <1>9, <1>10, <1>18, TakenMoves
<1>20. Directed(txn', Dead, Stacks, L2, pc, loc, k2, a2, r)
  BY <1>9, <1>10, <1>15, <1>18, TakenMoves
<1>21. Drops(txn', buf', pc, loc, sfr')
  <2>1. th \in Threads /\ pc[th] = "dropbuf" => DropOK(txn', buf', pc, loc, sfr', th)
    BY <1>1
  <2>. QED BY <2>1, <1>9, <1>10, <1>18, TakenMoves
<1>22. /\ ThreadStates(Dead, Stacks, L2, Waiting, pc, loc, sfr')
       /\ ProcStates(ProcSts, DeadProcs, ProcTodos, ProcRefs, LiveNodes, AsyncTodos, pc, sfr')
       /\ Notices(Dead, L2, ReturnErrors, ReplyErrors, pc)
       /\ Flags(txn', Dead, Stacks, L2, Flagged)
  <2>1. Todos[th] # <<>> /\ L2[th] = Tail(Todos[th]) /\ \A u \in Threads : u # th => L2[u] = Todos[u]
    BY <1>1, <1>3, <1>4, <1>13
  <2>2. \A s \in Txns : txn'[s].from = txn[s].from
    BY <1>9, <1>10, TakenFrom1
  <2>3. \A y \in Threads \cup Procs : y # th => sfr'[y] = sfr[y]
    BY <1>9 DEF Taken
  <2>4. PICK X2, SF2 : X2 = txn' /\ SF2 = sfr'
    OBVIOUS
  <2>5. /\ \A s \in Txns : X2[s].from = txn[s].from
        /\ \A y \in Threads \cup Procs : y # th => SF2[y] = sfr[y]
    BY <2>2, <2>3, <2>4
  <2>6. /\ ThreadStates(Dead, Stacks, L2, Waiting, pc, loc, SF2)
        /\ ProcStates(ProcSts, DeadProcs, ProcTodos, ProcRefs, LiveNodes, AsyncTodos, pc, SF2)
        /\ Notices(Dead, L2, ReturnErrors, ReplyErrors, pc)
        /\ Flags(X2, Dead, Stacks, L2, Flagged)
    BY <2>1, <2>5, <1>1, DrainKeeps
  <2>. QED BY <2>4, <2>6
<1>23. Inv(k2, a2, r)'
  BY <1>1, <1>4, <1>5, <1>9, <1>12, <1>13, <1>14, <1>16, <1>17, <1>19, <1>20, <1>21, <1>22,
     <1>tc, <1>pc, Whole
<1>. QED BY <1>23

\* binder_release_work on the list of a thread.
LEMMA ReleaseThreadWorkStep ==
  ASSUME NEW k, NEW a, NEW r, Inv(k, a, r), NEW th \in Threads, ReleaseThreadWork(th)
  PROVE  \E k2, a2 : Inv(k2, a2, r)'
<1>1. CASE Head(thr[th].todo).type = "txn"
  BY <1>1, ReleaseTxnStep
<1>2. CASE Head(thr[th].todo).type # "txn"
  BY <1>2, ReleaseNoticeStep
<1>. QED BY <1>1, <1>2

\* binder_release_work on the list of a process.
LEMMA ProcReleaseWorkStep ==
  ASSUME NEW k, NEW a, NEW r, Inv(k, a, r), NEW p \in Procs, ProcReleaseWork(p)
  PROVE  \E k2, a2 : Inv(k2, a2, r)'
<1>ty. Typed /\ bug = FALSE
  BY Parts
<1>gh. Ghosts(k, a, r)
  BY Parts
<1>kt. Stacks \in [Threads -> 0 .. MaxTxns]
  BY Parts
<1>qt. ProcTodos \in [Procs -> Seq(Txns)] /\ AsyncTodos \in [Procs -> Seq(Txns)]
  BY Parts
<1>tl. ThreadLists(Todos, k, a)
  BY Parts
<1>pl. TxnLists(ProcTodos, "proc", k, a)
  BY Parts
<1>al. TxnLists(AsyncTodos, "async", k, a)
  BY Parts
<1>po. Placed(txn, Dead, k, a)
  BY Parts
<1>bt. buf \in [Txns -> Buf]
  BY Parts
<1>ts. ThreadStates(Dead, Stacks, Todos, Waiting, pc, loc, sfr)
  BY Parts
<1>ps. ProcStates(ProcSts, DeadProcs, ProcTodos, ProcRefs, LiveNodes, AsyncTodos, pc, sfr)
  BY Parts
<1>tc. ThreadCounts(ThreadRefs, pc, loc)
  BY Parts
<1>pc. ProcCounts(Dead, ThreadRefs, ProcSts, ProcRefs, pc, loc)
  BY Parts
<1>no. Notices(Dead, Todos, ReturnErrors, ReplyErrors, pc)
  BY Parts
<1>fl. Flags(txn, Dead, Stacks, Todos, Flagged)
  BY Parts
<1>1. /\ proc[p].st = "todo" /\ proc[p].todo # <<>> /\ sfr[p] = NoTxn
      /\ UNCHANGED <<thr, node, pc, loc, bug>>
  BY DEF ProcReleaseWork
<1>2. ProcTodos[p] = proc[p].todo /\ ProcTodos[p] \in Seq(Txns) /\ ProcSts[p] = "todo"
  BY <1>1, <1>ty, ProcViews
<1>3. PICK z \in Seq(Txns) : z = Tail(ProcTodos[p])
  BY <1>1, <1>2, SeqTail
<1>4. /\ proc' \in [Procs -> Prc] /\ UNCHANGED <<ProcSts, DeadProcs, ProcRefs>>
      /\ ProcTodos'[p] = z /\ \A q \in Procs : q # p => ProcTodos'[q] = ProcTodos[q]
  <2>1. SetTodo(p, z)
    BY <1>2, <1>3 DEF ProcReleaseWork, SetTodo
  <2>. QED BY <2>1, <1>ty, SetTodoOf
<1>5. /\ UNCHANGED <<Stacks, Todos, Flagged, ReturnErrors, ReplyErrors, Waiting, Dead, ThreadRefs>>
      /\ UNCHANGED <<LiveNodes, AsyncNodes, AsyncTodos>>
  BY <1>1, SameAll
<1>6. PICK t : t = Head(ProcTodos[p])
  OBVIOUS
<1>7. t \in Txns /\ k[t] = "proc" /\ a[t] = p
  <2>1. t \in Txns /\ t \in ToSet(ProcTodos[p])
    BY <1>1, <1>2, <1>6, SeqTail
  <2>. QED BY <2>1, <1>pl DEF TxnLists, TxnListOK
<1>8. txn[t].to_proc = p
  BY <1>7, <1>po DEF Placed, PlaceOK
<1>9. PICK k2, a2 : Ghosts(k2, a2, r) /\ Taken(p, t, k, a, k2, a2)
  <2>1. Cleanup(p, t, buf) /\ p \in Threads \cup Procs
    BY <1>2, <1>6 DEF ProcReleaseWork
  <2>2. PICK B \in [Txns -> Buf] : B = buf
    BY <1>bt
  <2>3. t \in Txns /\ k[t] \in {"thread", "proc"}
    BY <1>7
  <2>. QED BY <2>1, <2>2, <2>3, <1>1, CleanupOf
<1>10. t \in Txns /\ k[t] \in {"thread", "proc"} /\ p \in Threads \cup Procs
  BY <1>7
<1>11. SameBut(k, a, k2, a2, t) /\ k2[t] \in {"failing", "none"}
  BY <1>9, <1>10, TakenFacts
<1>12. Typed' /\ bug' = FALSE
  <2>1. /\ txn' \in [Txns -> Txn] /\ buf' \in [Txns -> Buf]
        /\ sfr' \in [Threads \cup Procs -> 0 .. MaxTxns]
    BY <1>9 DEF Taken
  <2>. QED BY <2>1, <1>1, <1>4, <1>ty DEF Typed
<1>13. PICK Q2 : Q2 = ProcTodos'
  OBVIOUS
<1>14. /\ ThreadLists(Todos, k2, a2) /\ TxnLists(Q2, "proc", k2, a2)
       /\ TxnLists(AsyncTodos, "async", k2, a2)
  <2>1. ASSUME NEW q \in Procs PROVE TxnListOK(Q2[q], "proc", k2, a2, q)
    <3>1. TxnListOK(ProcTodos[q], "proc", k, a, q)
      BY <1>pl DEF TxnLists
    <3>2. CASE q = p
      <4>1. TxnListOK(Tail(ProcTodos[p]), "proc", k2, a2, p)
        <5>1. TxnListOK(ProcTodos[p], "proc", k, a, p) /\ k2[t] # "proc" /\ ProcTodos[p] # <<>>
          BY <3>1, <3>2, <1>1, <1>2, <1>11
        <5>. QED BY <5>1, <1>2, <1>6, <1>7, <1>11, TxnListTake
      <4>. QED BY <3>2, <4>1, <1>3, <1>4, <1>13
    <3>3. CASE q # p
      <4>1. t \in Txns => ~(k[t] = "proc" /\ a[t] = q) /\ ~(k2[t] = "proc" /\ a2[t] = q)
        BY <3>3, <1>7, <1>11
      <4>2. TxnListOK(ProcTodos[q], "proc", k2, a2, q)
        BY <3>1, <4>1, <1>11, TxnListKeep
      <4>. QED BY <3>3, <4>2, <1>4, <1>13
    <3>. QED BY <3>2, <3>3
  <2>2. t \in Txns => k[t] # "thread" /\ k2[t] # "thread"
    BY <1>7, <1>11
  <2>3. t \in Txns => k[t] # "async" /\ k2[t] # "async"
    BY <1>7, <1>11
  <2>4. ThreadLists(Todos, k2, a2)
    BY <2>2, <1>11, <1>tl, ThreadListsKeep
  <2>5. TxnLists(AsyncTodos, "async", k2, a2)
    BY <2>3, <1>11, <1>al, TxnListsKeep
  <2>. QED BY <2>1, <2>4, <2>5 DEF TxnLists
<1>16. /\ Names(txn') /\ Failing(sfr', k2, a2) /\ Placed(txn', Dead, k2, a2)
       /\ Tree(txn', Dead, k2, a2, r)
  BY <1>8, <1>9, <1>10, TakenCalls
<1>17. AllStacks(txn', Dead, Stacks, k2, a2, r)
  BY <1>9, <1>10, TakenStacks
<1>18. OnlyMoves(pc, loc, pc, loc, p) /\ Idle(p, pc) /\ p \notin Threads
  BY ActorAssumption DEF OnlyMoves, Idle
<1>19. Carried(txn', Dead, pc, loc, k2, a2) /\ Buffers(txn', buf', loc, k2, a2)
       /\ Oneways(buf', DeadProcs, LiveNodes, AsyncNodes, AsyncTodos, pc, loc)
  BY <1>9, <1>10, <1>18, TakenMoves
<1>20. Directed(txn', Dead, Stacks, Todos, pc, loc, k2, a2, r)
  BY <1>9, <1>10, <1>18, TakenMoves
<1>21. Drops(txn', buf', pc, loc, sfr')
  <2>1. p \in Threads /\ pc[p] = "dropbuf" => DropOK(txn', buf', pc, loc, sfr', p)
    BY <1>18
  <2>. QED BY <2>1, <1>9, <1>10, <1>18, TakenMoves
<1>22. \A y \in Threads \cup Procs : y # p => sfr'[y] = sfr[y]
  BY <1>9 DEF Taken
<1>23. \A u \in Threads : sfr'[u] = sfr[u]
  BY <1>18, <1>22
<1>24. ThreadStates(Dead, Stacks, Todos, Waiting, pc, loc, sfr')
  BY <1>23, <1>ts DEF ThreadStates, ThreadOK
<1>25. ProcStates(ProcSts, DeadProcs, Q2, ProcRefs, LiveNodes, AsyncTodos, pc, sfr')
  <2>1. \A q \in Procs : /\ ProcSts[q] # "todo" => sfr'[q] = sfr[q]
                         /\ ProcSts[q] \in {"released", "freed"} => Q2[q] = ProcTodos[q]
    BY <1>2, <1>4, <1>13, <1>22
  <2>2. \A u \in Threads :
          \/ ProcSts[ProcOf[u]] = "open"
          \/ pc[u] = pc[u] /\ (sfr'[u] = sfr[u] \/ pc[u] # "user")
    BY <1>23
  <2>. QED BY <2>1, <2>2, <1>ps, ProcStatesKeep
<1>26. Flags(txn', Dead, Stacks, Todos, Flagged)
  <2>1. \A s \in Txns : txn'[s].from = txn[s].from
    BY <1>9, <1>10, TakenFrom1
  <2>2. ASSUME NEW u \in Threads, u \notin Dead PROVE FlagOK(txn', Stacks, Todos, Flagged, u)
    <3>1. FlagOK(txn, Stacks, Todos, Flagged, u)
      BY <2>2, <1>fl DEF Flags
    <3>2. Stacks[u] # NoTxn => Stacks[u] \in Txns
      BY <1>kt, TxnNumbers
    <3>. QED BY <2>1, <3>1, <3>2 DEF FlagOK
  <2>. QED BY <2>2 DEF Flags
<1>27. Inv(k2, a2, r)'
  BY <1>1, <1>4, <1>5, <1>9, <1>12, <1>13, <1>14, <1>16, <1>17, <1>19, <1>20, <1>21, <1>24,
     <1>25, <1>26, <1>tc, <1>pc, <1>no, Whole
<1>. QED BY <1>27

\* Work that is no call is dropped without a trace in the chains of calls.
Dropped(X, X2, k, a, k2, M) ==
  /\ \A s \in Txns : s \in M => /\ ~Sync(X, s) /\ X[s].kind # "unused" /\ X2[s] = FreedTxn
                                /\ k[s] = "async" /\ k2[s] = "none"
  /\ \A s \in Txns : s \notin M => X2[s] = X[s] /\ k2[s] = k[s]

\* Calls when one-way ones are dropped.
LEMMA DroppedCalls ==
  ASSUME NEW X \in [Txns -> Txn], NEW D, NEW k, NEW a, NEW r, Tree(X, D, k, a, r),
         NEW X2, NEW k2, NEW M, Dropped(X, X2, k, a, k2, M)
  PROVE  /\ \A s \in Txns : /\ Sync(X2, s) <=> Sync(X, s)
                            /\ X2[s].from = X[s].from
                            /\ X2[s].from_parent = X[s].from_parent
                            /\ Sync(X, s) => X2[s] = X[s] /\ k2[s] = k[s]
         /\ \A s \in Txns : X2[s].kind = "unused" <=> X[s].kind = "unused"
         /\ Tree(X2, D, k2, a, r)
<1>1. ASSUME NEW s \in Txns PROVE CallOK(X, D, r, s) /\ NestOK(X, k, a, r, s)
  BY DEF Tree
<1>2. ASSUME NEW s \in Txns
      PROVE  /\ Sync(X2, s) <=> Sync(X, s)
             /\ X2[s].from = X[s].from
             /\ X2[s].from_parent = X[s].from_parent
             /\ Sync(X, s) => X2[s] = X[s] /\ k2[s] = k[s]
             /\ X2[s].kind = "unused" <=> X[s].kind = "unused"
  <2>1. CASE s \in M
    <3>1. ~Sync(X, s) /\ X[s].kind # "unused" /\ X2[s] = FreedTxn
      BY <2>1 DEF Dropped
    <3>2. X[s].from = NoThread /\ X[s].from_parent = NoTxn
      BY <3>1, <1>1 DEF CallOK
    <3>. QED BY <3>1, <3>2, FreedFields DEF Sync
  <2>2. CASE s \notin M
    BY <2>2 DEF Dropped, Sync
  <2>. QED BY <2>1, <2>2
<1>3. ASSUME NEW t \in Txns PROVE CallOK(X2, D, r, t)
  <2>1. CallOK(X, D, r, t)
    BY <1>1
  <2>. QED BY <2>1, <1>2 DEF CallOK
<1>4. ASSUME NEW t \in Txns PROVE NestOK(X2, k2, a, r, t)
  <2>1. CASE ~Sync(X, t)
    BY <2>1, <1>2 DEF NestOK
  <2>2. CASE Sync(X, t)
    <3>. DEFINE p == X[t].from_parent
    <3>1. p \in 0 .. MaxTxns
      BY TxnFields
    <3>. HIDE DEF p
    <3>2. X2[t].from_parent = p /\ X2[t].from = X[t].from
      BY <1>2 DEF p
    <3>3. /\ p = NoTxn => \A s \in Txns : Sync(X, s) /\ r[s] = r[t] => t <= s
          /\ p # NoTxn =>
               /\ p < t /\ Sync(X, p) /\ r[p] = r[t]
               /\ \A s \in Txns : Sync(X, s) /\ r[s] = r[t] /\ s < t => s <= p
               /\ X[t].from # NoThread => k[p] = "served" /\ a[p] = X[t].from
               /\ X[t].from = NoThread => k[p] = "orphan" /\ a[p] = t
      BY <1>1, <2>2 DEF NestOK, p
    <3>4. p # NoTxn => Sync(X2, p) /\ k2[p] = k[p]
      BY <3>1, <3>3, <1>2, TxnNumbers
    <3>5. \A s \in Txns : Sync(X2, s) <=> Sync(X, s)
      BY <1>2
    <3>6. /\ p = NoTxn => \A s \in Txns : Sync(X2, s) /\ r[s] = r[t] => t <= s
          /\ p # NoTxn =>
               /\ p < t /\ Sync(X2, p) /\ r[p] = r[t]
               /\ \A s \in Txns : Sync(X2, s) /\ r[s] = r[t] /\ s < t => s <= p
               /\ X2[t].from # NoThread => k2[p] = "served" /\ a[p] = X2[t].from
               /\ X2[t].from = NoThread => k2[p] = "orphan" /\ a[p] = t
      BY <3>2, <3>3, <3>4, <3>5
    <3>. QED BY <3>2, <3>6, Zenon DEF NestOK
  <2>. QED BY <2>1, <2>2
<1>. QED BY <1>2, <1>3, <1>4 DEF Tree

\* What binder_node_release drops.
LEMMA NodeDrops ==
  ASSUME NEW k, NEW a, NEW r, Inv(k, a, r), NEW p \in Procs, ProcReleaseNode(p),
         NEW M, M = ToSet(AsyncTodos[p]), NEW k2, k2 = [t \in Txns |-> IF t \in M THEN "none" ELSE k[t]]
  PROVE  /\ Ghosts(k2, a, r) /\ Dropped(txn, txn', k, a, k2, M)
         /\ M \subseteq Txns /\ \A s \in Txns : s \in M <=> k[s] = "async" /\ a[s] = p
         /\ txn' \in [Txns -> Txn] /\ buf' \in [Txns -> Buf]
         /\ \A s \in Txns : s \notin M => buf'[s] = buf[s]
         /\ \A s \in Txns : /\ buf'[s].st = buf[s].st /\ buf'[s].owner = buf[s].owner
                            /\ buf'[s].node = buf[s].node
                            /\ buf'[s].async = buf[s].async
         /\ \A s \in Txns : BufOK(txn'[s], buf'[s])
<1>ty. Typed /\ bug = FALSE
  BY Parts
<1>gh. Ghosts(k, a, r)
  BY Parts
<1>xt. txn \in [Txns -> Txn]
  BY Parts
<1>bt. buf \in [Txns -> Buf]
  BY Parts
<1>qt. ProcTodos \in [Procs -> Seq(Txns)] /\ AsyncTodos \in [Procs -> Seq(Txns)]
  BY Parts
<1>al. TxnLists(AsyncTodos, "async", k, a)
  BY Parts
<1>po. Placed(txn, Dead, k, a)
  BY Parts
<1>bu. Buffers(txn, buf, loc, k, a)
  BY Parts
<1>1. AsyncTodos[p] = node[p].async_todo /\ AsyncTodos[p] \in Seq(Txns)
  BY <1>ty, NodeViews
<1>2. M \subseteq Txns
  <2>1. ASSUME NEW y \in M PROVE y \in Txns
    <3>1. PICK i \in 1 .. Len(AsyncTodos[p]) : y = AsyncTodos[p][i]
      BY <1>1 DEF ToSet
    <3>. QED BY <3>1, <1>1
  <2>. QED BY <2>1
<1>3. \A s \in Txns : s \in M <=> k[s] = "async" /\ a[s] = p
  BY <1>al DEF TxnLists, TxnListOK
<1>4. Ghosts(k2, a, r)
  BY <1>gh DEF Ghosts, Kinds
<1>5. txn' = [t \in Txns |-> IF t \in M THEN FreedTxn ELSE txn[t]]
  BY <1>1 DEF ProcReleaseNode
<1>6. buf' = [t \in Txns |-> IF t \in M THEN [buf[t] EXCEPT !.transaction = FALSE] ELSE buf[t]]
  BY <1>1 DEF ProcReleaseNode
<1>7. \A s \in Txns : s \in M => txn[s].kind = "oneway"
  BY <1>3, <1>po DEF Placed, PlaceOK
<1>8. Dropped(txn, txn', k, a, k2, M)
  BY <1>3, <1>5, <1>7 DEF Dropped, Sync
<1>9. txn' \in [Txns -> Txn]
  BY <1>5, <1>xt, FreedFields
<1>10. ASSUME NEW s \in Txns
       PROVE  /\ buf'[s] \in Buf
              /\ buf'[s].st = buf[s].st /\ buf'[s].owner = buf[s].owner
              /\ buf'[s].node = buf[s].node /\ buf'[s].async = buf[s].async
              /\ s \notin M => buf'[s] = buf[s]
              /\ s \in M => ~buf'[s].transaction
  <2>1. buf[s] \in Buf
    BY <1>bt
  <2>2. CASE s \in M
    BY <2>1, <2>2, <1>6 DEF Buf
  <2>3. CASE s \notin M
    BY <2>1, <2>3, <1>6
  <2>. QED BY <2>2, <2>3
<1>11. buf' \in [Txns -> Buf]
  BY <1>6, <1>10
<1>12. ASSUME NEW s \in Txns PROVE BufOK(txn'[s], buf'[s])
  <2>1. BufOK(txn[s], buf[s])
    BY <1>bu DEF Buffers, BufferOK
  <2>2. CASE s \in M
    <3>1. txn'[s] = FreedTxn
      BY <2>2, <1>5
    <3>2. ~buf'[s].transaction
      BY <2>2, <1>10
    <3>. QED BY <2>1, <3>1, <3>2, <1>10, FreedFields DEF BufOK
  <2>3. CASE s \notin M
    BY <2>1, <2>3, <1>5, <1>10
  <2>. QED BY <2>2, <2>3
<1>. QED BY <1>2, <1>3, <1>4, <1>8, <1>9, <1>10, <1>11, <1>12

NodeGone(p) == node' = [node EXCEPT ![p].live = FALSE, ![p].async_todo = <<>>]

\* The views of nodes after it.
LEMMA NodeGoneOf ==
  ASSUME Typed, NEW p \in Procs, NodeGone(p)
  PROVE  /\ node' \in [Procs -> Nde] /\ AsyncNodes' = AsyncNodes
         /\ p \notin LiveNodes' /\ \A q \in Procs : q # p => (q \in LiveNodes' <=> q \in LiveNodes)
         /\ AsyncTodos'[p] = <<>> /\ \A q \in Procs : q # p => AsyncTodos'[q] = AsyncTodos[q]
         /\ LiveNodes' \subseteq Procs
<1>1. node \in [Procs -> Nde]
  BY DEF Typed
<1>0. <<>> \in Seq(Txns)
  OBVIOUS
<1>2. PICK e \in Seq(Txns) : e = <<>>
  BY <1>0
<1>3. PICK y : y = [node[p] EXCEPT !.live = FALSE, !.async_todo = e]
  OBVIOUS
<1>4. node[p] \in Nde
  BY <1>1
<1>5. /\ y \in Nde /\ ~y.live /\ y.async_todo = <<>>
      /\ y.has_async_transaction = node[p].has_async_transaction
  BY <1>2, <1>3, <1>4 DEF Nde
<1>6. node' = [node EXCEPT ![p] = y]
  BY <1>1, <1>2, <1>3 DEF NodeGone
<1>7. node' \in [Procs -> Nde] /\ node'[p] = y /\ \A q \in Procs : q # p => node'[q] = node[q]
  BY <1>1, <1>5, <1>6
<1>8. \A q \in Procs : node'[q].has_async_transaction = node[q].has_async_transaction
  BY <1>5, <1>7
<1>9. AsyncNodes' = AsyncNodes
  BY <1>8, SameNodes
<1>10. p \notin LiveNodes' /\ \A q \in Procs : q # p => (q \in LiveNodes' <=> q \in LiveNodes)
  BY <1>5, <1>7 DEF LiveNodes
<1>11. AsyncTodos'[p] = <<>> /\ \A q \in Procs : q # p => AsyncTodos'[q] = AsyncTodos[q]
  BY <1>5, <1>7 DEF AsyncTodos
<1>12. LiveNodes' \subseteq Procs
  BY DEF LiveNodes
<1>. QED BY <1>7, <1>9, <1>10, <1>11, <1>12

\* binder_node_release.
LEMMA ProcReleaseNodeStep ==
  ASSUME NEW k, NEW a, NEW r, Inv(k, a, r), NEW p \in Procs, ProcReleaseNode(p)
  PROVE  \E k2 : Inv(k2, a, r)'
<1>ty. Typed /\ bug = FALSE
  BY Parts
<1>xt. txn \in [Txns -> Txn]
  BY Parts
<1>bt. buf \in [Txns -> Buf]
  BY Parts
<1>kt. Stacks \in [Threads -> 0 .. MaxTxns]
  BY Parts
<1>ft. sfr \in [Threads \cup Procs -> 0 .. MaxTxns]
  BY Parts
<1>nm. Names(txn)
  BY Parts
<1>tl. ThreadLists(Todos, k, a)
  BY Parts
<1>pl. TxnLists(ProcTodos, "proc", k, a)
  BY Parts
<1>al. TxnLists(AsyncTodos, "async", k, a)
  BY Parts
<1>ca. Carried(txn, Dead, pc, loc, k, a)
  BY Parts
<1>fa. Failing(sfr, k, a)
  BY Parts
<1>po. Placed(txn, Dead, k, a)
  BY Parts
<1>tr. Tree(txn, Dead, k, a, r)
  BY Parts
<1>st. AllStacks(txn, Dead, Stacks, k, a, r)
  BY Parts
<1>di. Directed(txn, Dead, Stacks, Todos, pc, loc, k, a, r)
  BY Parts
<1>bu. Buffers(txn, buf, loc, k, a)
  BY Parts
<1>dr. Drops(txn, buf, pc, loc, sfr)
  BY Parts
<1>ow. Oneways(buf, DeadProcs, LiveNodes, AsyncNodes, AsyncTodos, pc, loc)
  BY Parts
<1>ts. ThreadStates(Dead, Stacks, Todos, Waiting, pc, loc, sfr)
  BY Parts
<1>ps. ProcStates(ProcSts, DeadProcs, ProcTodos, ProcRefs, LiveNodes, AsyncTodos, pc, sfr)
  BY Parts
<1>tc. ThreadCounts(ThreadRefs, pc, loc)
  BY Parts
<1>pc. ProcCounts(Dead, ThreadRefs, ProcSts, ProcRefs, pc, loc)
  BY Parts
<1>no. Notices(Dead, Todos, ReturnErrors, ReplyErrors, pc)
  BY Parts
<1>fl. Flags(txn, Dead, Stacks, Todos, Flagged)
  BY Parts
<1>1. /\ proc[p].st = "threads" /\ UNCHANGED <<thr, pc, loc, sfr, bug>>
      /\ \A u \in ThreadsOf(p) : pc[u] = "gone"
  BY DEF ProcReleaseNode
<1>2. ProcSts[p] = "threads"
  BY <1>1, <1>ty, ProcViews
<1>3. UNCHANGED <<Stacks, Todos, Flagged, ReturnErrors, ReplyErrors, Waiting, Dead, ThreadRefs>>
  BY <1>1, SameAll
<1>4. /\ node' \in [Procs -> Nde] /\ AsyncNodes' = AsyncNodes
      /\ p \notin LiveNodes' /\ \A q \in Procs : q # p => (q \in LiveNodes' <=> q \in LiveNodes)
      /\ AsyncTodos'[p] = <<>> /\ \A q \in Procs : q # p => AsyncTodos'[q] = AsyncTodos[q]
      /\ LiveNodes' \subseteq Procs
  <2>1. NodeGone(p)
    BY DEF ProcReleaseNode, NodeGone
  <2>. QED BY <2>1, <1>ty, NodeGoneOf
<1>5. /\ proc' \in [Procs -> Prc] /\ UNCHANGED <<ProcTodos, DeadProcs, ProcRefs>>
      /\ ProcSts'[p] = "todo" /\ \A q \in Procs : q # p => ProcSts'[q] = ProcSts[q]
  <2>1. PICK x : x = [proc[p] EXCEPT !.st = "todo"]
    OBVIOUS
  <2>2. proc[p] \in Prc
    BY <1>ty, ProcViews
  <2>3. /\ x \in Prc /\ x.st = "todo" /\ x.todo = proc[p].todo /\ x.is_dead = proc[p].is_dead
        /\ x.tmp_ref = proc[p].tmp_ref
    BY <2>1, <2>2 DEF Prc
  <2>4. proc' = [proc EXCEPT ![p] = x]
    BY <2>1 DEF ProcReleaseNode
  <2>. QED BY <2>3, <2>4, <1>ty, ProcChange, ZenonT(90)
<1>6. PICK M, k2 : /\ M = ToSet(AsyncTodos[p])
                   /\ k2 = [t \in Txns |-> IF t \in M THEN "none" ELSE k[t]]
  OBVIOUS
<1>7. /\ Ghosts(k2, a, r) /\ Dropped(txn, txn', k, a, k2, M)
      /\ M \subseteq Txns /\ \A s \in Txns : s \in M <=> k[s] = "async" /\ a[s] = p
  BY <1>6, NodeDrops
<1>8. /\ txn' \in [Txns -> Txn] /\ buf' \in [Txns -> Buf]
      /\ \A s \in Txns : s \notin M => buf'[s] = buf[s]
  BY <1>6, NodeDrops
<1>9. \A s \in Txns : /\ buf'[s].st = buf[s].st /\ buf'[s].node = buf[s].node
                      /\ buf'[s].async = buf[s].async
                      /\ BufOK(txn'[s], buf'[s])
  BY <1>6, NodeDrops
<1>10. /\ \A s \in Txns : s \in M => /\ ~Sync(txn, s) /\ txn'[s] = FreedTxn
                                     /\ k[s] = "async" /\ k2[s] = "none"
       /\ \A s \in Txns : s \notin M => txn'[s] = txn[s] /\ k2[s] = k[s]
  BY <1>7 DEF Dropped
<1>11. Stay(txn, txn', k, a, k2, a, M)
  BY <1>10 DEF Stay, SameTxn
<1>12. Typed' /\ bug' = FALSE
  BY <1>1, <1>4, <1>5, <1>8, <1>ty DEF Typed
<1>13. /\ \A s \in Txns : Sync(txn', s) <=> Sync(txn, s)
       /\ \A s \in Txns : txn'[s].from = txn[s].from
       /\ Names(txn') /\ Tree(txn', Dead, k2, a, r)
  <2>1. PICK X2 : X2 = txn'
    OBVIOUS
  <2>2. Dropped(txn, X2, k, a, k2, M)
    BY <2>1, <1>7
  <2>3. /\ \A s \in Txns : Sync(X2, s) <=> Sync(txn, s)
        /\ \A s \in Txns : X2[s].from = txn[s].from
        /\ \A s \in Txns : X2[s].kind = "unused" <=> txn[s].kind = "unused"
        /\ Tree(X2, Dead, k2, a, r)
    BY <2>2, <1>xt, <1>tr, DroppedCalls
  <2>4. Names(X2)
    BY <2>3, <1>nm, NamesKeep
  <2>. QED BY <2>1, <2>3, <2>4
<1>14. /\ ThreadLists(Todos, k2, a) /\ TxnLists(ProcTodos, "proc", k2, a)
  <2>1. \A s \in Txns : k2[s] = "thread" \/ k[s] = "thread" => k2[s] = k[s] /\ a[s] = a[s]
    BY <1>10
  <2>2. \A s \in Txns : k2[s] = "proc" \/ k[s] = "proc" => k2[s] = k[s] /\ a[s] = a[s]
    BY <1>10
  <2>3. ThreadLists(Todos, k2, a)
    BY <2>1, <1>tl, ListsMove
  <2>4. TxnLists(ProcTodos, "proc", k2, a)
    BY <2>2, <1>pl, ListsMove
  <2>. QED BY <2>3, <2>4
<1>15. TxnLists(AsyncTodos', "async", k2, a)
  <2>1. ASSUME NEW q \in Procs PROVE TxnListOK(AsyncTodos'[q], "async", k2, a, q)
    <3>1. TxnListOK(AsyncTodos[q], "async", k, a, q)
      BY <1>al DEF TxnLists
    <3>2. CASE q = p
      <4>1. AsyncTodos'[q] = <<>> /\ ToSet(<<>>) = {} /\ Distinct(<<>>)
        BY <3>2, <1>4, SeqSmall DEF Distinct
      <4>2. \A t \in Txns : ~(k2[t] = "async" /\ a[t] = q)
        BY <3>2, <1>7, <1>10
      <4>. QED BY <4>1, <4>2 DEF TxnListOK
    <3>3. CASE q # p
      <4>1. \A t \in Txns : (k2[t] = "async" /\ a[t] = q) <=> (k[t] = "async" /\ a[t] = q)
        BY <3>3, <1>7, <1>10
      <4>2. AsyncTodos'[q] = AsyncTodos[q]
        BY <3>3, <1>4
      <4>. QED BY <3>1, <4>1, <4>2 DEF TxnListOK
    <3>. QED BY <3>2, <3>3
  <2>. QED BY <2>1 DEF TxnLists
<1>16. Failing(sfr, k2, a)
  <2>1. \A s \in Txns : k2[s] = "failing" \/ k[s] = "failing" => k2[s] = k[s] /\ a[s] = a[s]
    BY <1>10
  <2>. QED BY <2>1, <1>fa, <1>ft, FailMove
<1>17. Placed(txn', Dead, k2, a)
  <2>1. \A s \in Txns : s \in M => PlaceOK(txn', Dead, k2, a, s)
    BY <1>10, FreedFields DEF PlaceOK
  <2>2. \A s \in Txns : k[s] = "orphan" /\ s \notin M /\ a[s] \in M =>
          /\ txn'[a[s]].kind = txn[a[s]].kind /\ txn'[a[s]].from = txn[a[s]].from
          /\ txn'[a[s]].from_parent = txn[a[s]].from_parent
    <3>1. ASSUME NEW s \in Txns, k[s] = "orphan", a[s] \in M PROVE FALSE
      <4>1. a[s] \in Txns /\ Sync(txn, a[s])
        BY <3>1, <1>po DEF Placed, PlaceOK
      <4>. QED BY <3>1, <4>1, <1>10
    <3>. QED BY <3>1
  <2>. QED BY <2>1, <2>2, <1>11, <1>po, PlacedStep
<1>18. AllStacks(txn', Dead, Stacks, k2, a, r)
  <2>1. ASSUME NEW u \in Threads, NEW s \in Txns PROVE Alike(txn, txn', k, a, k2, a, u, s)
    <3>1. CASE s \in M
      <4>1. ~Sync(txn, s) /\ ~Sync(txn', s)
        BY <3>1, <1>10, <1>13
      <4>. QED BY <4>1 DEF Alike, Mine
    <3>2. CASE s \notin M
      BY <3>2, <1>11, StayAlike
    <3>. QED BY <3>1, <3>2
  <2>2. ASSUME NEW u \in Threads, u \notin Dead PROVE StackOK(txn', Stacks, k2, a, r, u)
    <3>1. StackOK(txn, Stacks, k, a, r, u) /\ Stacks[u] \in 0 .. MaxTxns
      BY <2>2, <1>st, <1>kt DEF AllStacks
    <3>2. /\ \A s \in Txns : Alike(txn, txn', k, a, k2, a, u, s)
          /\ \A s \in Txns : Mine(txn, k, a, u, s) => r[s] = r[s]
      BY <2>1
    <3>. QED BY <3>1, <3>2, <1>xt, StackKeep
  <2>. QED BY <2>2 DEF AllStacks
<1>19. /\ OnlyMoves(pc, loc, pc, loc, p) /\ p \notin Threads
       /\ \A s \in Txns : k[s] = "carried" => (s \in M <=> a[s] = p)
  <2>1. ASSUME NEW s \in Txns, k[s] = "carried" PROVE s \notin M /\ a[s] # p
    <3>1. a[s] \in Threads
      BY <2>1, <1>ca DEF Carried, CarrierOK
    <3>. QED BY <2>1, <3>1, <1>10, ActorAssumption
  <2>. QED BY <2>1, ActorAssumption DEF OnlyMoves
<1>20. Carried(txn', Dead, pc, loc, k2, a)
  <2>1. \A s \in Txns : s \in M => CarrierOK(pc, loc, k2, a, s)
    BY <1>10 DEF CarrierOK
  <2>2. p \in Threads => CarryOK(txn', Dead, pc, loc, k2, a, p)
    BY <1>19
  <2>. QED BY <2>1, <2>2, <1>11, <1>19, <1>ca, CarriedStep
<1>21. Directed(txn', Dead, Stacks, Todos, pc, loc, k2, a, r)
  <2>1. Leaves(txn, M)
    BY <1>7, <1>10, <1>tr, OtherNoChild DEF Leaves
  <2>2. \A s \in Txns : s \in M => QueuedOK(txn', Dead, Stacks, Todos, k2, a, r, s)
    BY <1>10 DEF QueuedOK
  <2>3. Calm(txn, pc, loc, k, a, M, Stacks, Stacks)
    BY DEF Calm
  <2>4. \A s \in Txns : s \notin M /\ k[s] = "thread" /\ Head(Todos[a[s]]) = TxnItem(s) =>
          Head(Todos[a[s]]) = TxnItem(s)
    OBVIOUS
  <2>5. ASSUME NEW u \in Threads, pc[u] = "send"
        PROVE  pc[u] = "send" /\ loc[u] = loc[u] /\ loc[u].t \notin M
    <3>1. SendCarry(txn, loc[u], u, k, a)
      BY <2>5, <1>ca DEF Carried, CarryOK
    <3>. QED BY <2>5, <3>1, <1>10 DEF SendCarry
  <2>6. \A s \in Txns : s \notin M => r[s] = r[s]
    OBVIOUS
  <2>. QED BY <2>1, <2>2, <2>3, <2>4, <2>5, <2>6, <1>11, <1>xt, <1>kt, <1>di, <1>tr, <1>po, <1>ca,
       DirectedStep
<1>22. Buffers(txn', buf', loc, k2, a) /\ Drops(txn', buf', pc, loc, sfr)
  <2>1. \A s \in Txns : s \in M => BufferOK(txn', buf', loc, k2, a, s)
    BY <1>9, <1>10 DEF BufferOK
  <2>2. \A s \in Txns : s \notin M => txn'[s] = txn[s] /\ buf'[s] = buf[s]
    BY <1>8, <1>10
  <2>3. Buffers(txn', buf', loc, k2, a)
    BY <2>1, <2>2, <1>11, <1>19, <1>bu, <1>ca, BuffersStep
  <2>4. ASSUME NEW u \in Threads, pc[u] = "dropbuf" PROVE loc[u].t \notin M
    <3>1. ASSUME NEW t \in Txns, t \in M, loc[u].t = t PROVE FALSE
      <4>1. k[t] \notin {"none", "failing"}
        BY <3>1, <1>10
      <4>. QED BY <2>4, <3>1, <4>1, <1>dr, <1>po, <1>fa, <1>bu, DropFree
    <3>. QED BY <3>1, <1>7
  <2>5. \A u \in Threads : u # p /\ pc[u] = "dropbuf" => loc[u].t \notin M /\ sfr[u] = sfr[u]
    BY <2>4
  <2>6. p \in Threads /\ pc[p] = "dropbuf" => DropOK(txn', buf', pc, loc, sfr, p)
    BY <1>19
  <2>7. Drops(txn', buf', pc, loc, sfr)
    BY <2>5, <2>6, <1>8, <1>11, <1>19, <1>dr, DropsStep
  <2>. QED BY <2>3, <2>7
<1>23. Oneways(buf', DeadProcs, LiveNodes', AsyncNodes, AsyncTodos', pc, loc)
  <2>1. \A s \in Txns : /\ buf'[s].st # "none" <=> buf[s].st # "none"
                        /\ buf'[s].async <=> buf[s].async
                        /\ buf'[s].node = buf[s].node
    BY <1>9
  <2>2. Oneways(buf', DeadProcs, LiveNodes, AsyncNodes, AsyncTodos, pc, loc)
    BY <2>1, <1>ow, OnewaysKeep
  <2>3. ASSUME NEW q \in LiveNodes' PROVE OnewayOK(buf', DeadProcs, AsyncNodes, AsyncTodos', pc, loc, q)
    <3>1. q \in Procs /\ q # p /\ q \in LiveNodes /\ AsyncTodos'[q] = AsyncTodos[q]
      BY <2>3, <1>4
    <3>2. OnewayOK(buf', DeadProcs, AsyncNodes, AsyncTodos, pc, loc, q)
      BY <2>2, <3>1 DEF Oneways
    <3>3. Active(buf', AsyncTodos', pc, loc, q) = Active(buf', AsyncTodos, pc, loc, q)
      BY <3>1 DEF Active
    <3>. QED BY <3>1, <3>2, <3>3 DEF OnewayOK
  <2>. QED BY <2>3 DEF Oneways
<1>24. ProcStates(ProcSts', DeadProcs, ProcTodos, ProcRefs, LiveNodes', AsyncTodos', pc, sfr)
  <2>1. ASSUME NEW q \in Procs
        PROVE  ProcOK(ProcSts', DeadProcs, ProcTodos, ProcRefs, LiveNodes', AsyncTodos', pc, sfr, q)
    <3>1. ProcOK(ProcSts, DeadProcs, ProcTodos, ProcRefs, LiveNodes, AsyncTodos, pc, sfr, q)
      BY <1>ps DEF ProcStates
    <3>2. CASE q = p
      <4>1. \A u \in Threads : ProcOf[u] = p => pc[u] = "gone"
        BY <1>1 DEF ThreadsOf
      <4>2. p \in DeadProcs
        BY <3>1, <3>2, <1>2 DEF ProcOK
      <4>. QED BY <3>2, <4>1, <4>2, <1>4, <1>5 DEF ProcOK
    <3>3. CASE q # p
      <4>1. /\ ProcSts'[q] = ProcSts[q] /\ AsyncTodos'[q] = AsyncTodos[q]
            /\ q \in LiveNodes' <=> q \in LiveNodes
        BY <3>3, <1>4, <1>5
      <4>. QED BY <3>1, <4>1 DEF ProcOK
    <3>. QED BY <3>2, <3>3
  <2>. QED BY <2>1 DEF ProcStates
<1>25. ProcCounts(Dead, ThreadRefs, ProcSts', ProcRefs, pc, loc)
  <2>1. \A q \in Procs : ProcSts'[q] \in {"threads", "todo"} <=> ProcSts[q] \in {"threads", "todo"}
    BY <1>2, <1>5
  <2>2. \A q \in Procs : One(ProcSts'[q] \in {"threads", "todo"}) = One(ProcSts[q] \in {"threads", "todo"})
    BY <2>1 DEF One
  <2>. QED BY <2>2, <1>pc DEF ProcCounts
<1>26. Flags(txn', Dead, Stacks, Todos, Flagged)
  <2>1. ASSUME NEW u \in Threads, u \notin Dead PROVE FlagOK(txn', Stacks, Todos, Flagged, u)
    <3>1. FlagOK(txn, Stacks, Todos, Flagged, u)
      BY <2>1, <1>fl DEF Flags
    <3>2. Stacks[u] # NoTxn => Stacks[u] \in Txns
      BY <1>kt, TxnNumbers
    <3>. QED BY <3>1, <3>2, <1>13 DEF FlagOK
  <2>. QED BY <2>1 DEF Flags
<1>27. Inv(k2, a, r)'
  BY <1>1, <1>3, <1>4, <1>5, <1>7, <1>12, <1>13, <1>14, <1>15, <1>16, <1>17, <1>18, <1>20, <1>21,
     <1>22, <1>23, <1>24, <1>25, <1>26, <1>ts, <1>tc, <1>no, Whole
<1>. QED BY <1>27

\* A thread is dead, and its own release holds it.
DyingThr(T, th) == [T EXCEPT ![th].is_dead = TRUE, ![th].tmp_ref = @ + 1]
Dying(th) == thr' = DyingThr(thr, th)

\* The views of threads after binder_thread_release has marked one dead.
LEMMA DyingOf ==
  ASSUME Typed, NEW th \in Threads, Dying(th)
  PROVE  /\ thr' \in [Threads -> Thr]
         /\ UNCHANGED <<Stacks, Todos, Flagged, ReturnErrors, ReplyErrors, Waiting>>
         /\ Dead' = Dead \cup {th}
         /\ \A u \in Threads : ThreadRefs'[u] = ThreadRefs[u] + One(u = th)
<1>1. thr \in [Threads -> Thr]
  BY DEF Typed
<1>2. thr[th] \in Thr
  BY <1>1
<1>3. PICK n \in Int : n = thr[th].tmp_ref + 1
  BY <1>2 DEF Thr
<1>4. PICK y : y = [thr[th] EXCEPT !.is_dead = TRUE, !.tmp_ref = n]
  OBVIOUS
<1>5. /\ y \in Thr /\ y.is_dead /\ y.tmp_ref = n /\ y.stack = thr[th].stack
      /\ y.todo = thr[th].todo /\ y.process_todo = thr[th].process_todo
      /\ y.return_error = thr[th].return_error /\ y.reply_error = thr[th].reply_error
      /\ y.waiting = thr[th].waiting
  BY <1>2, <1>3, <1>4 DEF Thr
<1>6. thr' = [thr EXCEPT ![th] = y]
  BY <1>1, <1>3, <1>4 DEF Dying, DyingThr
<1>7. /\ thr' \in [Threads -> Thr] /\ thr'[th] = y
      /\ \A u \in Threads : u # th => thr'[u] = thr[u]
  BY <1>1, <1>5, <1>6
<1>8. UNCHANGED <<Stacks, Todos, Flagged, ReturnErrors, ReplyErrors, Waiting>>
  BY <1>5, <1>7, OneThread
<1>9. Dead' = Dead \cup {th}
  <2>1. \A u \in Threads : u \in Dead' <=> u \in Dead \cup {th}
    BY <1>5, <1>7, NextViews
  <2>2. Dead' \subseteq Threads /\ Dead \subseteq Threads
    BY DEF Dead
  <2>. QED BY <2>1, <2>2
<1>10. ASSUME NEW u \in Threads PROVE ThreadRefs'[u] = ThreadRefs[u] + One(u = th)
  <2>1. ThreadRefs[u] = thr[u].tmp_ref /\ ThreadRefs'[u] = thr'[u].tmp_ref /\ ThreadRefs[u] \in Int
    BY ThreadViews, NextViews
  <2>2. CASE u = th
    <3>1. ThreadRefs'[u] = n /\ n = ThreadRefs[u] + 1 /\ One(u = th) = 1
      BY <2>1, <2>2, <1>3, <1>5, <1>7 DEF One
    <3>. QED BY <3>1
  <2>3. CASE u # th
    <3>1. ThreadRefs'[u] = ThreadRefs[u] /\ One(u = th) = 0
      BY <2>1, <2>3, <1>7 DEF One
    <3>. QED BY <2>1, <3>1
  <2>. QED BY <2>2, <2>3
<1>. QED BY <1>7, <1>8, <1>9, <1>10

\* What binder_thread_release does to the calls of a thread, and to the
\* buffers of those it served.
ServedBy(k, a, th, s) == k[s] = "served" /\ a[s] = th
Cut(X, X2, B, B2, k, a, th) ==
  \A s \in Txns :
    /\ X2[s].kind = X[s].kind /\ X2[s].from_parent = X[s].from_parent
    /\ X2[s].to_parent = X[s].to_parent
    /\ X2[s].from = IF X[s].from = th THEN NoThread ELSE X[s].from
    /\ B2[s].st = B[s].st /\ B2[s].owner = B[s].owner /\ B2[s].node = B[s].node
    /\ B2[s].async = B[s].async
    /\ IF ServedBy(k, a, th, s)
       THEN /\ X2[s].to_proc = NoProc /\ X2[s].to_thread = NoThread /\ ~X2[s].buffer
            /\ ~B2[s].transaction
       ELSE /\ X2[s].to_proc = X[s].to_proc /\ X2[s].to_thread = X[s].to_thread
            /\ X2[s].buffer = X[s].buffer /\ B2[s] = B[s]

\* Who then answers for them: the thread itself for the call on top, the
\* nested call for one that the thread was waiting in.
Passed(X, k, a, k2, a2, th, top) ==
  \A s \in Txns :
    IF ~ServedBy(k, a, th, s) THEN k2[s] = k[s] /\ a2[s] = a[s]
    ELSE IF s = top THEN k2[s] = "failing" /\ a2[s] = th /\ NoChild(X, s)
    ELSE /\ k2[s] = "orphan" /\ a2[s] \in Txns /\ Sync(X, a2[s])
         /\ X[a2[s]].from_parent = s /\ X[a2[s]].from = th

\* Where the calls of a dying thread go, and the one it must fail first.
LEMMA PassedExists ==
  ASSUME NEW k, NEW a, NEW r, Inv(k, a, r), NEW th \in Threads, th \notin Dead
  PROVE  /\ \E k2, a2 : Ghosts(k2, a2, r) /\ Passed(txn, k, a, k2, a2, th, SendReply(th))
         /\ SendReply(th) \in 0 .. MaxTxns
         /\ SendReply(th) # NoTxn => ServedBy(k, a, th, SendReply(th))
<1>gh. Ghosts(k, a, r)
  BY Parts
<1>ty. Typed /\ bug = FALSE
  BY Parts
<1>xt. txn \in [Txns -> Txn]
  BY Parts
<1>kt. Stacks \in [Threads -> 0 .. MaxTxns]
  BY Parts
<1>tr. Tree(txn, Dead, k, a, r)
  BY Parts
<1>st. AllStacks(txn, Dead, Stacks, k, a, r)
  BY Parts
<1>po. Placed(txn, Dead, k, a)
  BY Parts
<1>1. /\ StackOK(txn, Stacks, k, a, r, th) /\ Stacks[th] \in 0 .. MaxTxns
      /\ Stacks[th] = thr[th].stack
  BY <1>st, <1>kt DEF AllStacks, Stacks
<1>2. PICK top : top = SendReply(th)
  OBVIOUS
<1>3. top = NoTxn \/ (ServesTop(th) /\ top = thr[th].stack)
  BY <1>2 DEF SendReply
<1>4. top # NoTxn => top \in Txns /\ ServedBy(k, a, th, top) /\ NoChild(txn, top)
  BY <1>3, ServedTop DEF ServedBy
<1>5. ASSUME NEW s \in Txns, ServedBy(k, a, th, s), s # top PROVE s # Stacks[th]
  <2>1. txn[s].to_thread = th
    BY <1>5, <1>po DEF Placed, PlaceOK, ServedBy
  <2>2. ASSUME s = Stacks[th] PROVE FALSE
    <3>1. ServesTop(th)
      BY <2>1, <2>2, <1>1, TxnNumbers DEF ServesTop
    <3>2. top = thr[th].stack
      BY <3>1, <1>2 DEF SendReply
    <3>. QED BY <3>2, <2>2, <1>1, <1>5
  <2>. QED BY <2>2
<1>6. ASSUME NEW s \in Txns, ServedBy(k, a, th, s), s # top
      PROVE  \E c \in Txns : Sync(txn, c) /\ txn[c].from_parent = s /\ txn[c].from = th
  <2>1. Sync(txn, s)
    BY <1>6, <1>po DEF Placed, PlaceOK, ServedBy
  <2>2. Mine(txn, k, a, th, s)
    BY <2>1, <1>6 DEF Mine, ServedBy
  <2>3. ~NoChild(txn, s)
    BY <2>2, <1>1, <1>5, <1>6, <1>xt, <1>tr, EndOnTop
  <2>4. PICK c \in Txns : Sync(txn, c) /\ txn[c].from_parent = s
    BY <2>3 DEF NoChild
  <2>5. NestOK(txn, k, a, r, c)
    BY <1>tr DEF Tree
  <2>6. s # NoTxn
    BY TxnNumbers
  <2>7. txn[c].from = th
    BY <2>4, <2>5, <2>6, <1>6 DEF NestOK, ServedBy
  <2>. QED BY <2>4, <2>7
<1>7. PICK k2 : k2 = [s \in Txns |-> IF ~ServedBy(k, a, th, s) THEN k[s]
                                     ELSE IF s = top THEN "failing" ELSE "orphan"]
  OBVIOUS
<1>8. PICK a2 : a2 = [s \in Txns |-> IF ~ServedBy(k, a, th, s) THEN a[s]
                                     ELSE IF s = top THEN th
                                     ELSE CHOOSE c \in Txns : /\ Sync(txn, c) /\ txn[c].from_parent = s
                                                              /\ txn[c].from = th]
  OBVIOUS
<1>9. ASSUME NEW s \in Txns
      PROVE  /\ k2[s] \in Kinds /\ a2[s] \in Threads \cup Procs \cup Txns
             /\ IF ~ServedBy(k, a, th, s) THEN k2[s] = k[s] /\ a2[s] = a[s]
                ELSE IF s = top THEN k2[s] = "failing" /\ a2[s] = th /\ NoChild(txn, s)
                ELSE /\ k2[s] = "orphan" /\ a2[s] \in Txns /\ Sync(txn, a2[s])
                     /\ txn[a2[s]].from_parent = s /\ txn[a2[s]].from = th
  <2>1. k[s] \in Kinds /\ a[s] \in Threads \cup Procs \cup Txns
    BY <1>gh DEF Ghosts
  <2>2. CASE ~ServedBy(k, a, th, s)
    BY <2>1, <2>2, <1>7, <1>8
  <2>3. CASE ServedBy(k, a, th, s) /\ s = top
    <3>1. k2[s] = "failing" /\ a2[s] = th /\ NoChild(txn, s)
      BY <2>3, <1>4, <1>7, <1>8, TxnNumbers
    <3>. QED BY <2>3, <3>1 DEF Kinds
  <2>4. CASE ServedBy(k, a, th, s) /\ s # top
    <3>1. k2[s] = "orphan"
      BY <2>4, <1>7
    <3>2. a2[s] = CHOOSE c \in Txns : Sync(txn, c) /\ txn[c].from_parent = s /\ txn[c].from = th
      BY <2>4, <1>8
    <3>3. \E c \in Txns : Sync(txn, c) /\ txn[c].from_parent = s /\ txn[c].from = th
      BY <2>4, <1>6
    <3>4. /\ a2[s] \in Txns /\ Sync(txn, a2[s])
          /\ txn[a2[s]].from_parent = s /\ txn[a2[s]].from = th
      BY <3>2, <3>3, Zenon
    <3>. QED BY <2>4, <3>1, <3>4 DEF Kinds
  <2>. QED BY <2>2, <2>3, <2>4
<1>10. Passed(txn, k, a, k2, a2, th, top)
  BY <1>9 DEF Passed
<1>11. Ghosts(k2, a2, r)
  <2>1. k2 \in [Txns -> Kinds]
    BY <1>7, <1>9
  <2>2. a2 \in [Txns -> Threads \cup Procs \cup Txns]
    BY <1>8, <1>9
  <2>. QED BY <2>1, <2>2, <1>gh DEF Ghosts
<1>12. top \in 0 .. MaxTxns
  BY <1>4, TxnNumbers
<1>. QED BY <1>2, <1>4, <1>10, <1>11, <1>12

\* What the walk of binder_thread_release does to the calls on the stack.
LEMMA CutOf ==
  ASSUME NEW k, NEW a, NEW r, Inv(k, a, r), NEW th \in Threads, th \notin Dead,
         ReleaseThread(th)
  PROVE  /\ txn' \in [Txns -> Txn] /\ buf' \in [Txns -> Buf] /\ bug' = FALSE
         /\ Cut(txn, txn', buf, buf', k, a, th)
<1>ty. Typed /\ bug = FALSE
  BY Parts
<1>xt. txn \in [Txns -> Txn]
  BY Parts
<1>bt. buf \in [Txns -> Buf]
  BY Parts
<1>kt. Stacks \in [Threads -> 0 .. MaxTxns]
  BY Parts
<1>tr. Tree(txn, Dead, k, a, r)
  BY Parts
<1>st. AllStacks(txn, Dead, Stacks, k, a, r)
  BY Parts
<1>po. Placed(txn, Dead, k, a)
  BY Parts
<1>bu. Buffers(txn, buf, loc, k, a)
  BY Parts
<1>1. StackOK(txn, Stacks, k, a, r, th) /\ Stacks[th] \in 0 .. MaxTxns
  BY <1>st, <1>kt DEF AllStacks
<1>2. PICK on : on = OnStack(th)
  OBVIOUS
<1>3. on = {t \in Txns : Mine(txn, k, a, th, t)}
  BY <1>1, <1>2, <1>xt, OnStackOf
<1>4. PICK in : in = {t \in on : txn[t].to_thread = th}
  OBVIOUS
<1>5. ASSUME NEW s \in Txns
      PROVE  /\ s \in in <=> ServedBy(k, a, th, s)
             /\ s \in on /\ s \notin in <=> txn[s].from = th
  <2>1. CallOK(txn, Dead, r, s)
    BY <1>tr DEF Tree
  <2>2. txn[s].from = th => Sync(txn, s)
    BY <2>1, NullAssumption DEF CallOK
  <2>3. ServedBy(k, a, th, s) => Sync(txn, s) /\ txn[s].to_thread = th
    BY <1>po DEF Placed, PlaceOK, ServedBy
  <2>4. Sync(txn, s) /\ txn[s].from = th => txn[s].to_thread # th
    BY <1>tr, CallerBelow
  <2>5. s \in on <=> Sync(txn, s) /\ (txn[s].from = th \/ ServedBy(k, a, th, s))
    BY <1>3 DEF Mine, ServedBy
  <2>6. s \in in <=> s \in on /\ txn[s].to_thread = th
    BY <1>4
  <2>. QED BY <2>2, <2>3, <2>4, <2>5, <2>6
<1>6. /\ txn' = [t \in Txns |->
          IF t \in in THEN [txn[t] EXCEPT !.to_proc = NoProc,
                              !.to_thread = NoThread, !.buffer = FALSE]
          ELSE IF t \in on THEN [txn[t] EXCEPT !.from = NoThread]
          ELSE txn[t]]
      /\ buf' = [t \in Txns |-> IF t \in in /\ txn[t].buffer
                               THEN [buf[t] EXCEPT !.transaction = FALSE]
                               ELSE buf[t]]
      /\ bug' = (bug \/ \E t \in on \ in : txn[t].from # th)
  BY <1>2, <1>4 DEF ReleaseThread
<1>7. bug' = FALSE
  <2>1. \A t \in on \ in : t \in Txns /\ txn[t].from = th
    BY <1>3, <1>5
  <2>. QED BY <2>1, <1>6, <1>ty
<1>8. ASSUME NEW s \in Txns
      PROVE  /\ txn'[s] \in Txn
             /\ txn'[s].kind = txn[s].kind /\ txn'[s].from_parent = txn[s].from_parent
             /\ txn'[s].to_parent = txn[s].to_parent
             /\ txn'[s].from = IF txn[s].from = th THEN NoThread ELSE txn[s].from
             /\ IF ServedBy(k, a, th, s)
                THEN txn'[s].to_proc = NoProc /\ txn'[s].to_thread = NoThread /\ ~txn'[s].buffer
                ELSE /\ txn'[s].to_proc = txn[s].to_proc /\ txn'[s].to_thread = txn[s].to_thread
                     /\ txn'[s].buffer = txn[s].buffer
  <2>1. txn[s] \in Txn
    BY <1>xt
  <2>2. CASE s \in in
    <3>1. txn'[s] = [txn[s] EXCEPT !.to_proc = NoProc, !.to_thread = NoThread, !.buffer = FALSE]
      BY <2>2, <1>6
    <3>2. ServedBy(k, a, th, s) /\ txn[s].from # th
      BY <2>2, <1>5
    <3>. QED BY <2>1, <3>1, <3>2 DEF Txn
  <2>3. CASE s \notin in /\ s \in on
    <3>1. txn'[s] = [txn[s] EXCEPT !.from = NoThread]
      BY <2>3, <1>6
    <3>2. ~ServedBy(k, a, th, s) /\ txn[s].from = th
      BY <2>3, <1>5
    <3>. QED BY <2>1, <3>1, <3>2 DEF Txn
  <2>4. CASE s \notin in /\ s \notin on
    <3>1. txn'[s] = txn[s]
      BY <2>4, <1>6
    <3>2. ~ServedBy(k, a, th, s) /\ txn[s].from # th
      BY <2>4, <1>5
    <3>. QED BY <2>1, <3>1, <3>2
  <2>. QED BY <2>2, <2>3, <2>4
<1>9. ASSUME NEW s \in Txns
      PROVE  /\ buf'[s] \in Buf
             /\ buf'[s].st = buf[s].st /\ buf'[s].owner = buf[s].owner
             /\ buf'[s].node = buf[s].node /\ buf'[s].async = buf[s].async
             /\ IF ServedBy(k, a, th, s) THEN ~buf'[s].transaction ELSE buf'[s] = buf[s]
  <2>1. buf[s] \in Buf
    BY <1>bt
  <2>2. ~txn[s].buffer => ~buf[s].transaction
    BY <1>bu DEF Buffers, BufferOK, BufOK
  <2>3. CASE s \in in /\ txn[s].buffer
    <3>1. buf'[s] = [buf[s] EXCEPT !.transaction = FALSE]
      BY <2>3, <1>6
    <3>2. ServedBy(k, a, th, s)
      BY <2>3, <1>5
    <3>. QED BY <2>1, <3>1, <3>2 DEF Buf
  <2>4. CASE ~(s \in in /\ txn[s].buffer)
    <3>1. buf'[s] = buf[s]
      BY <2>4, <1>6
    <3>2. ServedBy(k, a, th, s) => ~txn[s].buffer
      BY <2>4, <1>5
    <3>. QED BY <2>1, <2>2, <3>1, <3>2
  <2>. QED BY <2>3, <2>4
<1>10. txn' \in [Txns -> Txn]
  BY <1>6, <1>8
<1>11. buf' \in [Txns -> Buf]
  BY <1>6, <1>9
<1>12. Cut(txn, txn', buf, buf', k, a, th)
  BY <1>8, <1>9 DEF Cut
<1>. QED BY <1>7, <1>10, <1>11, <1>12

\* Calls and places after the walk.
LEMMA CutCalls ==
  ASSUME NEW X \in [Txns -> Txn], NEW D, NEW k, NEW a, NEW r, Tree(X, D, k, a, r),
         Placed(X, D, k, a), NEW th \in Threads, th \notin D,
         NEW X2, NEW B, NEW B2, Cut(X, X2, B, B2, k, a, th),
         NEW k2, NEW a2, NEW top, Passed(X, k, a, k2, a2, th, top)
  PROVE  /\ Tree(X2, D \cup {th}, k2, a2, r) /\ Placed(X2, D \cup {th}, k2, a2)
         /\ \A u \in Threads, s \in Txns : u # th => Alike(X, X2, k, a, k2, a2, u, s)
<1>1. Tree(X2, D \cup {th}, k2, a2, r)
  <2>1. \A s \in Txns :
           /\ X2[s].kind = X[s].kind /\ X2[s].from_parent = X[s].from_parent
           /\ X2[s].from = IF X[s].from = th THEN NoThread ELSE X[s].from
           /\ IF k[s] = "served" /\ a[s] = th
              THEN X2[s].to_proc = NoProc /\ X2[s].to_thread = NoThread
              ELSE /\ X2[s].to_proc = X[s].to_proc /\ X2[s].to_thread = X[s].to_thread
                   /\ k2[s] = k[s] /\ a2[s] = a[s]
    BY DEF Cut, Passed, ServedBy
  <2>2. ASSUME NEW s \in Txns, NEW c \in Txns, k[s] = "served", a[s] = th, Sync(X, c),
               X[c].from_parent = s
        PROVE  k2[s] = "orphan" /\ a2[s] = c
    <3>1. ServedBy(k, a, th, s) /\ ~NoChild(X, s)
      BY <2>2 DEF ServedBy, NoChild
    <3>2. /\ k2[s] = "orphan" /\ a2[s] \in Txns /\ Sync(X, a2[s]) /\ X[a2[s]].from_parent = s
      BY <3>1 DEF Passed
    <3>3. PICK d \in Txns : d = a2[s]
      BY <3>2
    <3>4. Sync(X, d) /\ X[c].from_parent = X[d].from_parent /\ X[c].from_parent # NoTxn
      BY <2>2, <3>2, <3>3, TxnNumbers
    <3>5. c = d
      BY <2>2, <3>4, OneChild
    <3>. QED BY <3>2, <3>3, <3>5
  <2>. QED BY <2>1, <2>2, TreeRelease
<1>2. ASSUME NEW s \in Txns PROVE PlaceOK(X2, D \cup {th}, k2, a2, s)
  <2>1. PlaceOK(X, D, k, a, s)
    BY DEF Placed
  <2>2. X2[s].kind = X[s].kind
    BY DEF Cut
  <2>3. CASE ~ServedBy(k, a, th, s)
    <3>1. /\ k2[s] = k[s] /\ a2[s] = a[s] /\ X2[s].to_proc = X[s].to_proc
          /\ X2[s].to_thread = X[s].to_thread
      BY <2>3 DEF Passed, Cut
    <3>2. k[s] = "served" /\ a[s] \notin D => a[s] \notin D \cup {th}
      BY <2>3 DEF ServedBy
    <3>3. ASSUME k[s] = "orphan", a[s] \in Txns, Sync(X, a[s]), X[a[s]].from_parent = s
          PROVE  /\ X2[a[s]].kind = X[a[s]].kind /\ X2[a[s]].from = X[a[s]].from
                 /\ X2[a[s]].from_parent = X[a[s]].from_parent
      <4>1. X[a[s]].from = NoThread
        BY <3>3, <2>1 DEF PlaceOK
      <4>2. NoThread # th
        BY NullAssumption
      <4>. QED BY <3>3, <4>1, <4>2 DEF Cut
    <3>. QED BY <2>1, <2>2, <3>1, <3>2, <3>3, PlaceKeep
  <2>4. CASE ServedBy(k, a, th, s)
    <3>1. Sync(X, s)
      BY <2>1, <2>4 DEF PlaceOK, ServedBy
    <3>2. Sync(X2, s) /\ X2[s].kind = "sync" /\ X2[s].to_proc = NoProc
      BY <2>2, <2>4, <3>1 DEF Sync, Cut
    <3>3. CASE s = top
      <4>1. k2[s] = "failing"
        BY <2>4, <3>3 DEF Passed
      <4>. QED BY <3>2, <4>1 DEF PlaceOK
    <3>4. CASE s # top
      <4>1. /\ k2[s] = "orphan" /\ a2[s] \in Txns /\ Sync(X, a2[s])
            /\ X[a2[s]].from_parent = s /\ X[a2[s]].from = th
        BY <2>4, <3>4 DEF Passed
      <4>2. Sync(X2, a2[s]) /\ X2[a2[s]].from = NoThread /\ X2[a2[s]].from_parent = s
        BY <4>1 DEF Cut, Sync
      <4>. QED BY <3>2, <4>1, <4>2 DEF PlaceOK
    <3>. QED BY <3>3, <3>4
  <2>. QED BY <2>3, <2>4
<1>3. ASSUME NEW u \in Threads, NEW s \in Txns, u # th PROVE Alike(X, X2, k, a, k2, a2, u, s)
  <2>1. u # NoThread
    BY NullAssumption
  <2>2. Sync(X2, s) <=> Sync(X, s)
    BY DEF Cut, Sync
  <2>3. X2[s].from = u <=> X[s].from = u
    BY <1>3, <2>1 DEF Cut
  <2>4. (k2[s] = "served" /\ a2[s] = u) <=> (k[s] = "served" /\ a[s] = u)
    BY <1>3 DEF Passed, ServedBy
  <2>5. Mine(X2, k2, a2, u, s) <=> Mine(X, k, a, u, s)
    BY <2>2, <2>3, <2>4 DEF Mine
  <2>6. X2[s].to_thread = u <=> X[s].to_thread = u
    <3>1. CASE ServedBy(k, a, th, s)
      <4>1. X[s].to_thread = th
        BY <3>1 DEF ServedBy, Placed, PlaceOK
      <4>. QED BY <3>1, <4>1, <2>1, <1>3 DEF Cut
    <3>2. CASE ~ServedBy(k, a, th, s)
      BY <3>2 DEF Cut
    <3>. QED BY <3>1, <3>2
  <2>7. Below(X2, u, s) = Below(X, u, s)
    BY <2>6 DEF Below, Cut
  <2>. QED BY <2>3, <2>5, <2>6, <2>7 DEF Alike
<1>. QED BY <1>1, <1>2, <1>3 DEF Placed

\* binder_thread_release, from BINDER_THREAD_EXIT or the process's release.
LEMMA ReleaseThreadStep ==
  ASSUME NEW k, NEW a, NEW r, Inv(k, a, r), NEW th \in Threads, pc[th] = "user",
         sfr[th] = NoTxn, ReleaseThread(th)
  PROVE  \E k2, a2 : Inv(k2, a2, r)'
<1>ty. Typed /\ bug = FALSE
  BY Parts
<1>xt. txn \in [Txns -> Txn]
  BY Parts
<1>bt. buf \in [Txns -> Buf]
  BY Parts
<1>kt. Stacks \in [Threads -> 0 .. MaxTxns]
  BY Parts
<1>ft. sfr \in [Threads \cup Procs -> 0 .. MaxTxns]
  BY Parts
<1>ct. pc \in [Threads -> PCs] /\ loc \in [Threads -> Loc]
  BY Parts
<1>nm. Names(txn)
  BY Parts
<1>tl. ThreadLists(Todos, k, a)
  BY Parts
<1>pl. TxnLists(ProcTodos, "proc", k, a)
  BY Parts
<1>al. TxnLists(AsyncTodos, "async", k, a)
  BY Parts
<1>ca. Carried(txn, Dead, pc, loc, k, a)
  BY Parts
<1>fa. Failing(sfr, k, a)
  BY Parts
<1>po. Placed(txn, Dead, k, a)
  BY Parts
<1>tr. Tree(txn, Dead, k, a, r)
  BY Parts
<1>st. AllStacks(txn, Dead, Stacks, k, a, r)
  BY Parts
<1>di. Directed(txn, Dead, Stacks, Todos, pc, loc, k, a, r)
  BY Parts
<1>bu. Buffers(txn, buf, loc, k, a)
  BY Parts
<1>dr. Drops(txn, buf, pc, loc, sfr)
  BY Parts
<1>ow. Oneways(buf, DeadProcs, LiveNodes, AsyncNodes, AsyncTodos, pc, loc)
  BY Parts
<1>ts. ThreadStates(Dead, Stacks, Todos, Waiting, pc, loc, sfr)
  BY Parts
<1>ps. ProcStates(ProcSts, DeadProcs, ProcTodos, ProcRefs, LiveNodes, AsyncTodos, pc, sfr)
  BY Parts
<1>tc. ThreadCounts(ThreadRefs, pc, loc)
  BY Parts
<1>pc. ProcCounts(Dead, ThreadRefs, ProcSts, ProcRefs, pc, loc)
  BY Parts
<1>no. Notices(Dead, Todos, ReturnErrors, ReplyErrors, pc)
  BY Parts
<1>fl. Flags(txn, Dead, Stacks, Todos, Flagged)
  BY Parts
<1>1. /\ th \notin Dead /\ th \notin Waiting /\ ~Holding(pc, th) /\ ~loc[th].wait_for_proc_work
  BY UserFacts
<1>2. ProcOf[th] \in Procs /\ ProcSts[ProcOf[th]] \in {"open", "threads"}
  BY <1>1, LiveProc
<1>3. PICK top : top = SendReply(th)
  OBVIOUS
<1>4. PICK k2, a2 : Ghosts(k2, a2, r) /\ Passed(txn, k, a, k2, a2, th, top)
  BY <1>1, <1>3, PassedExists
<1>5. top \in 0 .. MaxTxns /\ (top # NoTxn => ServedBy(k, a, th, top))
  BY <1>1, <1>3, PassedExists
<1>6. /\ txn' \in [Txns -> Txn] /\ buf' \in [Txns -> Buf] /\ bug' = FALSE
      /\ Cut(txn, txn', buf, buf', k, a, th)
  BY <1>1, CutOf
<1>7. UNCHANGED <<node, loc>>
  BY DEF ReleaseThread
<1>8. /\ pc' \in [Threads -> PCs] /\ pc'[th] = "release"
      /\ \A u \in Threads : u # th => pc'[u] = pc[u]
  <2>1. pc' = [pc EXCEPT ![th] = "release"]
    BY DEF ReleaseThread
  <2>. QED BY <2>1, <1>ct DEF PCs
<1>9. /\ sfr' \in [Threads \cup Procs -> 0 .. MaxTxns] /\ sfr'[th] = top
      /\ \A y \in Threads \cup Procs : y # th => sfr'[y] = sfr[y]
  <2>1. sfr' = [sfr EXCEPT ![th] = top]
    BY <1>3 DEF ReleaseThread
  <2>. QED BY <2>1, <1>5, <1>ft
<1>10. /\ thr' \in [Threads -> Thr]
       /\ UNCHANGED <<Stacks, Todos, Flagged, ReturnErrors, ReplyErrors, Waiting>>
       /\ Dead' = Dead \cup {th}
  <2>1. Dying(th)
    BY DEF ReleaseThread, Dying, DyingThr
  <2>. QED BY <2>1, <1>ty, DyingOf
<1>11. \A u \in Threads : ThreadRefs'[u] = ThreadRefs[u] + One(u = th)
  <2>1. Dying(th)
    BY DEF ReleaseThread, Dying, DyingThr
  <2>. QED BY <2>1, <1>ty, DyingOf
<1>12. /\ proc' \in [Procs -> Prc] /\ UNCHANGED <<ProcSts, ProcTodos, DeadProcs>>
       /\ \A p \in Procs : ProcRefs'[p] = ProcRefs[p] + One(p = ProcOf[th])
  <2>1. IncProc(ProcOf[th])
    BY DEF ReleaseThread, IncProc
  <2>. QED BY <2>1, <1>2, <1>ty, HoldProc
<1>13. UNCHANGED <<LiveNodes, AsyncNodes, AsyncTodos>>
  BY <1>7, SameAll
<1>14. Typed'
  BY <1>6, <1>7, <1>8, <1>9, <1>10, <1>12, <1>ty DEF Typed
<1>15. PICK D2 : D2 = Dead \cup {th}
  OBVIOUS
<1>16. D2 = Dead' /\ th \in D2 /\ \A u : u # th => (u \in D2 <=> u \in Dead)
  BY <1>10, <1>15
<1>17. OnlyMoves(pc, loc, pc', loc, th)
  BY <1>8 DEF OnlyMoves
<1>18. Names(txn')
  <2>1. \A s \in Txns : txn'[s].kind = "unused" <=> txn[s].kind = "unused"
    BY <1>6 DEF Cut
  <2>. QED BY <2>1, <1>nm, NamesKeep
<1>19. /\ Tree(txn', D2, k2, a2, r) /\ Placed(txn', D2, k2, a2)
       /\ \A u \in Threads, s \in Txns : u # th => Alike(txn, txn', k, a, k2, a2, u, s)
  BY <1>1, <1>4, <1>6, <1>15, <1>xt, <1>tr, <1>po, CutCalls
<1>20. /\ \A s \in Txns : ServedBy(k, a, th, s) => k[s] = "served" /\ k2[s] \in {"failing", "orphan"}
       /\ \A s \in Txns : ~ServedBy(k, a, th, s) => k2[s] = k[s] /\ a2[s] = a[s]
  BY <1>4 DEF Passed, ServedBy
<1>21. /\ ThreadLists(Todos, k2, a2) /\ TxnLists(ProcTodos, "proc", k2, a2)
       /\ TxnLists(AsyncTodos, "async", k2, a2)
  <2>1. \A s \in Txns : k2[s] = "thread" \/ k[s] = "thread" => k2[s] = k[s] /\ a2[s] = a[s]
    BY <1>20
  <2>2. \A s \in Txns : k2[s] = "proc" \/ k[s] = "proc" => k2[s] = k[s] /\ a2[s] = a[s]
    BY <1>20
  <2>3. \A s \in Txns : k2[s] = "async" \/ k[s] = "async" => k2[s] = k[s] /\ a2[s] = a[s]
    BY <1>20
  <2>4. ThreadLists(Todos, k2, a2)
    BY <2>1, <1>tl, ListsMove
  <2>5. TxnLists(ProcTodos, "proc", k2, a2)
    BY <2>2, <1>pl, ListsMove
  <2>6. TxnLists(AsyncTodos, "async", k2, a2)
    BY <2>3, <1>al, ListsMove
  <2>. QED BY <2>4, <2>5, <2>6
<1>22. Failing(sfr', k2, a2)
  <2>1. ASSUME NEW x \in Threads \cup Procs, sfr'[x] # NoTxn
        PROVE  k2[sfr'[x]] = "failing" /\ a2[sfr'[x]] = x
    <3>1. sfr'[x] \in Txns
      BY <2>1, <1>9, TxnNumbers
    <3>2. CASE x = th
      <4>1. sfr'[x] = top /\ top \in Txns /\ ServedBy(k, a, th, top)
        BY <2>1, <3>1, <3>2, <1>5, <1>9
      <4>2. k2[top] = "failing" /\ a2[top] = th
        BY <4>1, <1>4 DEF Passed
      <4>. QED BY <3>2, <4>1, <4>2
    <3>3. CASE x # th
      <4>1. PICK s \in Txns : s = sfr[x] /\ s = sfr'[x]
        BY <3>1, <3>3, <1>9
      <4>2. k[s] = "failing" /\ a[s] = x
        BY <2>1, <4>1, <1>fa DEF Failing
      <4>3. k2[s] = "failing" /\ a2[s] = x
        BY <4>2, <1>20
      <4>. QED BY <4>1, <4>3
    <3>. QED BY <3>2, <3>3
  <2>2. ASSUME NEW t \in Txns, k2[t] = "failing"
        PROVE  a2[t] \in Threads \cup Procs /\ sfr'[a2[t]] = t
    <3>1. CASE ServedBy(k, a, th, t)
      <4>1. t = top /\ a2[t] = th
        BY <2>2, <3>1, <1>4 DEF Passed
      <4>. QED BY <4>1, <1>9
    <3>2. CASE ~ServedBy(k, a, th, t)
      <4>1. k[t] = "failing" /\ a2[t] = a[t]
        BY <2>2, <3>2, <1>20
      <4>2. a[t] \in Threads \cup Procs /\ sfr[a[t]] = t
        BY <4>1, <1>fa DEF Failing
      <4>3. a[t] # th
        BY <4>2, TxnNumbers
      <4>. QED BY <4>1, <4>2, <4>3, <1>9
    <3>. QED BY <3>1, <3>2
  <2>. QED BY <2>1, <2>2 DEF Failing
<1>23. AllStacks(txn', D2, Stacks, k2, a2, r)
  <2>1. ASSUME NEW u \in Threads, u \notin D2 PROVE StackOK(txn', Stacks, k2, a2, r, u)
    <3>1. u # th /\ u \notin Dead
      BY <2>1, <1>16
    <3>2. StackOK(txn, Stacks, k, a, r, u) /\ Stacks[u] \in 0 .. MaxTxns
      BY <3>1, <1>st, <1>kt DEF AllStacks
    <3>3. /\ \A s \in Txns : Alike(txn, txn', k, a, k2, a2, u, s)
          /\ \A s \in Txns : Mine(txn, k, a, u, s) => r[s] = r[s]
      BY <3>1, <1>19
    <3>. QED BY <3>2, <3>3, <1>xt, StackKeep
  <2>. QED BY <2>1 DEF AllStacks
<1>24. Carried(txn', D2, pc', loc, k2, a2)
  <2>1. ASSUME NEW u \in Threads PROVE CarryOK(txn', D2, pc', loc, k2, a2, u)
    <3>1. CASE u = th
      BY <3>1, <1>8 DEF CarryOK, Holds, Holding
    <3>2. CASE u # th
      <4>1. CarryOK(txn, Dead, pc, loc, k, a, u) /\ pc'[u] = pc[u] /\ loc[u] = loc[u]
        BY <3>2, <1>8, <1>ca DEF Carried
      <4>2. ASSUME NEW s \in Txns, k[s] = "carried", a[s] = u
            PROVE  /\ k2[s] = k[s] /\ a2[s] = a[s]
                   /\ txn'[s].kind = txn[s].kind /\ txn'[s].to_proc = txn[s].to_proc
                   /\ txn'[s].to_thread = txn[s].to_thread
                   /\ \/ txn'[s].from = txn[s].from
                      \/ txn'[s].from = NoThread /\ txn[s].from # u /\ txn[s].from \in D2
        <5>1. ~ServedBy(k, a, th, s)
          BY <4>2 DEF ServedBy
        <5>2. /\ txn'[s].kind = txn[s].kind /\ txn'[s].to_proc = txn[s].to_proc
              /\ txn'[s].to_thread = txn[s].to_thread
              /\ txn'[s].from = IF txn[s].from = th THEN NoThread ELSE txn[s].from
          BY <5>1, <1>6 DEF Cut
        <5>. QED BY <5>1, <5>2, <3>2, <1>16, <1>20
      <4>3. \A v \in Threads : pc[u] = "reply" /\ loc[u].target_thread = v /\ v \notin D2 => v \notin Dead
        BY <1>15
      <4>. QED BY <4>1, <4>2, <4>3, CarryKeep
    <3>. QED BY <3>1, <3>2
  <2>2. ASSUME NEW t \in Txns PROVE CarrierOK(pc', loc, k2, a2, t)
    <3>1. CarrierOK(pc, loc, k, a, t)
      BY <1>ca DEF Carried
    <3>2. ASSUME k2[t] = "carried"
          PROVE  /\ k[t] = "carried" /\ a2[t] = a[t]
                 /\ pc'[a[t]] = pc[a[t]] /\ loc[a[t]] = loc[a[t]]
      <4>1. k[t] = "carried" /\ a2[t] = a[t]
        BY <3>2, <1>20
      <4>2. a[t] \in Threads /\ a[t] # th
        BY <4>1, <3>1 DEF CarrierOK
      <4>. QED BY <4>1, <4>2, <1>8
    <3>. QED BY <3>1, <3>2, CarrierKeep
  <2>. QED BY <2>1, <2>2 DEF Carried
<1>25. Directed(txn', D2, Stacks, Todos, pc', loc, k2, a2, r)
  <2>0. ASSUME NEW u \in Threads, u \notin D2, NEW t, Back(txn, Stacks, r, u, t)
        PROVE  txn'[Stacks[u]].from = txn[Stacks[u]].from
    <3>1. Stacks[u] \in Txns /\ txn[Stacks[u]].from = u /\ u # th
      BY <2>0, <1>16, <1>kt, TxnNumbers DEF Back
    <3>. QED BY <3>1, <1>6 DEF Cut
  <2>1. ASSUME NEW t \in Txns PROVE QueuedOK(txn', D2, Stacks, Todos, k2, a2, r, t)
    <3>1. QueuedOK(txn, Dead, Stacks, Todos, k, a, r, t)
      BY <1>di DEF Directed
    <3>2. CASE ServedBy(k, a, th, t)
      <4>1. k2[t] # "thread"
        BY <3>2, <1>20
      <4>. QED BY <4>1 DEF QueuedOK
    <3>3. CASE ~ServedBy(k, a, th, t)
      <4>1. k2[t] = k[t] /\ a2[t] = a[t] /\ txn'[t].kind = txn[t].kind
            /\ txn'[t].to_thread = txn[t].to_thread
        BY <3>3, <1>6, <1>20 DEF Cut
      <4>2. ASSUME k[t] = "thread", Sync(txn, t), a[t] \notin D2
            PROVE  /\ a[t] \notin Dead /\ Stacks[a[t]] = Stacks[a[t]]
                   /\ Back(txn, Stacks, r, a[t], t) =>
                        /\ txn'[Stacks[a[t]]].from = txn[Stacks[a[t]]].from
                        /\ r[Stacks[a[t]]] = r[Stacks[a[t]]]
                   /\ Head(Todos[a[t]]) = TxnItem(t) => Head(Todos[a[t]]) = TxnItem(t)
        <5>1. a[t] \in Threads
          BY <4>2, <1>po DEF Placed, PlaceOK
        <5>. QED BY <4>2, <5>1, <2>0, <1>15
      <4>3. k2[t] = "thread" => k[t] = "thread" /\ a2[t] = a[t]
        BY <4>1
      <4>. QED BY <3>1, <4>1, <4>2, <4>3, QueuedKeep
    <3>. QED BY <3>2, <3>3
  <2>2. ASSUME NEW u \in Threads, pc'[u] = "send" PROVE SentOK(txn', D2, Stacks, loc, r, u)
    <3>1. u # th /\ pc[u] = "send"
      BY <2>2, <1>8
    <3>2. SentOK(txn, Dead, Stacks, loc, r, u) /\ SendCarry(txn, loc[u], u, k, a)
      BY <3>1, <1>di, <1>ca DEF Directed, Carried, CarryOK
    <3>3. loc[u].t \in Txns
      BY <3>2 DEF SendCarry
    <3>4. txn'[loc[u].t].kind = txn[loc[u].t].kind
      BY <3>3, <1>6 DEF Cut
    <3>5. loc[u].target_thread # NoThread => loc[u].target_thread \in Threads
      BY <1>ct DEF Loc
    <3>6. ASSUME Sync(txn, loc[u].t), loc[u].target_thread # NoThread, loc[u].target_thread \notin D2
          PROVE  /\ loc[u].target_thread \notin Dead
                 /\ Stacks[loc[u].target_thread] = Stacks[loc[u].target_thread]
                 /\ Back(txn, Stacks, r, loc[u].target_thread, loc[u].t) =>
                      /\ txn'[Stacks[loc[u].target_thread]].from = txn[Stacks[loc[u].target_thread]].from
                      /\ r[Stacks[loc[u].target_thread]] = r[Stacks[loc[u].target_thread]]
      BY <3>5, <3>6, <2>0, <1>15
    <3>. QED BY <3>2, <3>4, <3>6, SentKeep
  <2>. QED BY <2>1, <2>2 DEF Directed
<1>26. Buffers(txn', buf', loc, k2, a2)
  <2>1. ASSUME NEW s \in Txns PROVE BufferOK(txn', buf', loc, k2, a2, s)
    <3>1. BufferOK(txn, buf, loc, k, a, s)
      BY <1>bu DEF Buffers
    <3>2. CASE ServedBy(k, a, th, s)
      <4>1. /\ ~txn'[s].buffer /\ ~buf'[s].transaction
            /\ k2[s] \notin {"thread", "proc", "async", "carried"}
            /\ txn'[s].kind = txn[s].kind
            /\ buf'[s].st = buf[s].st /\ buf'[s].owner = buf[s].owner
            /\ buf'[s].node = buf[s].node /\ buf'[s].async = buf[s].async
        BY <3>2, <1>6, <1>20 DEF Cut
      <4>2. BufOK(txn[s], buf[s])
        BY <3>1 DEF BufferOK
      <4>3. BufOK(txn'[s], buf'[s])
        BY <4>1, <4>2 DEF BufOK
      <4>. QED BY <4>1, <4>3 DEF BufferOK
    <3>3. CASE ~ServedBy(k, a, th, s)
      <4>1. /\ k2[s] = k[s] /\ a2[s] = a[s] /\ buf'[s] = buf[s]
            /\ txn'[s].kind = txn[s].kind /\ txn'[s].buffer = txn[s].buffer
            /\ txn'[s].to_proc = txn[s].to_proc
        BY <3>3, <1>6, <1>20 DEF Cut
      <4>2. Fresh(txn[s], buf[s]) => Fresh(txn'[s], buf'[s])
        BY <4>1 DEF Fresh
      <4>3. BufOK(txn[s], buf[s]) => BufOK(txn'[s], buf'[s])
        BY <4>1 DEF BufOK
      <4>. QED BY <3>1, <4>1, <4>2, <4>3 DEF BufferOK
    <3>. QED BY <3>2, <3>3
  <2>. QED BY <2>1 DEF Buffers
<1>27. Drops(txn', buf', pc', loc, sfr')
  <2>1. ASSUME NEW u \in Threads, pc'[u] = "dropbuf" PROVE DropOK(txn', buf', pc', loc, sfr', u)
    <3>1. u # th /\ pc[u] = "dropbuf" /\ sfr'[u] = sfr[u]
      BY <2>1, <1>8, <1>9
    <3>2. DropOK(txn, buf, pc, loc, sfr, u)
      BY <3>1, <1>dr DEF Drops
    <3>3. loc[u].t \in Txns
      BY <3>2 DEF DropOK
    <3>4. PICK t \in Txns : t = loc[u].t
      BY <3>3
    <3>5. /\ txn'[t].kind = txn[t].kind /\ buf'[t].st = buf[t].st
          /\ buf'[t].owner = buf[t].owner /\ buf'[t].node = buf[t].node
          /\ buf'[t].transaction => buf[t].transaction
      BY <1>6 DEF Cut
    <3>6. \A v \in Threads : pc'[v] = "dropbuf" /\ loc[v].t = t => pc[v] = "dropbuf" /\ loc[v].t = t
      BY <1>8
    <3>. QED BY <3>1, <3>2, <3>4, <3>5, <3>6 DEF DropOK
  <2>. QED BY <2>1 DEF Drops
<1>28. ThreadStates(D2, Stacks, Todos, Waiting, pc', loc, sfr')
  <2>1. ThreadOK(D2, Stacks, Todos, Waiting, pc', loc, sfr', th)
    BY <1>1, <1>8, <1>16 DEF ThreadOK
  <2>2. \A u \in Threads : u # th =>
           /\ u \in D2 <=> u \in Dead
           /\ pc'[u] = pc[u] /\ loc[u] = loc[u]
           /\ Todos[u] = Todos[u] \/ (pc[u] # "gone" /\ u \notin Waiting)
           /\ loc[u].wait_for_proc_work => Stacks[u] = Stacks[u]
           /\ sfr'[u] = sfr[u] \/ sfr'[u] = NoTxn
           /\ u \in Waiting => u \in Waiting
    BY <1>8, <1>9, <1>16
  <2>. QED BY <2>1, <2>2, <1>ts, ThreadStatesKeep
<1>29. ProcStates(ProcSts, DeadProcs, ProcTodos, ProcRefs', LiveNodes, AsyncTodos, pc', sfr')
  <2>1. ASSUME NEW p \in Procs
        PROVE  /\ p \notin LiveNodes => AsyncTodos[p] = AsyncTodos[p]
               /\ ProcSts[p] # "todo" => sfr'[p] = sfr[p]
               /\ ProcSts[p] \in {"released", "freed"} => ProcTodos[p] = ProcTodos[p]
               /\ ProcSts[p] = "freed" => ProcRefs'[p] = ProcRefs[p]
    <3>1. p # th /\ sfr'[p] = sfr[p]
      BY <1>9, ActorAssumption
    <3>2. ASSUME ProcSts[p] = "freed" PROVE ProcRefs'[p] = ProcRefs[p]
      <4>1. One(p = ProcOf[th]) = 0
        BY <3>2, <1>2 DEF One
      <4>2. ProcRefs[p] \in Int
        BY <1>ty, ProcViews
      <4>. QED BY <4>1, <4>2, <1>12
    <3>. QED BY <3>1, <3>2
  <2>2. ASSUME NEW u \in Threads
        PROVE  \/ ProcSts[ProcOf[u]] = "open"
               \/ pc'[u] = "gone"
               \/ ProcSts[ProcOf[u]] = "threads" /\ pc'[u] = "release"
               \/ pc'[u] = pc[u] /\ (sfr'[u] = sfr[u] \/ pc[u] # "user")
    BY <1>2, <1>8, <1>9
  <2>. QED BY <2>1, <2>2, <1>ps, ProcStatesKeep
<1>30. \A u \in Threads : SameHolds(pc, loc, pc', loc, u)
  <2>1. ASSUME NEW u \in Threads PROVE SameHolds(pc, loc, pc', loc, u)
    <3>1. CASE u = th
      BY <3>1, <1>1, <1>8 DEF SameHolds, Holding
    <3>2. CASE u # th
      BY <3>2, <1>8 DEF SameHolds, Holding
    <3>. QED BY <3>1, <3>2
  <2>. QED BY <2>1
<1>31. /\ \A x : ThreadHolders(pc', loc, x) = ThreadHolders(pc, loc, x)
       /\ \A x : ProcHolders(pc', loc, x) = ProcHolders(pc, loc, x)
  <2>1. PICK P2 : P2 = pc'
    OBVIOUS
  <2>2. \A u \in Threads : SameHolds(pc, loc, P2, loc, u)
    BY <2>1, <1>30
  <2>3. /\ \A x : ThreadHolders(P2, loc, x) = ThreadHolders(pc, loc, x)
        /\ \A x : ProcHolders(P2, loc, x) = ProcHolders(pc, loc, x)
    BY <2>2, HoldersKeep
  <2>. QED BY <2>1, <2>3
<1>32. ThreadCounts(ThreadRefs', pc', loc)
  <2>1. ASSUME NEW u \in Threads
        PROVE ThreadRefs'[u] = Cardinality(ThreadHolders(pc', loc, u)) + One(pc'[u] = "release")
    <3>1. PICK n \in Nat : n = Cardinality(ThreadHolders(pc, loc, u))
      BY HoldersFinite
    <3>2. ThreadRefs[u] = n + One(pc[u] = "release")
      BY <3>1, <1>tc DEF ThreadCounts
    <3>3. ThreadRefs'[u] = ThreadRefs[u] + One(u = th)
      BY <1>11
    <3>4. CASE u = th
      <4>1. One(pc[u] = "release") = 0 /\ One(pc'[u] = "release") = 1 /\ One(u = th) = 1
        BY <3>4, <1>8 DEF One
      <4>. QED BY <3>1, <3>2, <3>3, <4>1, <1>31
    <3>5. CASE u # th
      <4>1. One(pc[u] = "release") = One(pc'[u] = "release") /\ One(u = th) = 0
        BY <3>5, <1>8 DEF One
      <4>2. One(pc'[u] = "release") \in Nat
        BY DEF One
      <4>. QED BY <3>1, <3>2, <3>3, <4>1, <4>2, <1>31
    <3>. QED BY <3>4, <3>5
  <2>. QED BY <2>1 DEF ThreadCounts
<1>33. ProcCounts(D2, ThreadRefs', ProcSts, ProcRefs', pc', loc)
  <2>1. ThreadRefs'[th] > 0
    <3>1. ThreadRefs'[th] = Cardinality(ThreadHolders(pc', loc, th)) + One(pc'[th] = "release")
      BY <1>32 DEF ThreadCounts
    <3>2. One(pc'[th] = "release") = 1 /\ Cardinality(ThreadHolders(pc', loc, th)) \in Nat
      BY <1>8, <1>31, HoldersFinite DEF One
    <3>. QED BY <3>1, <3>2
  <2>2. \A u \in Threads : u # th => (u \in D2 <=> u \in Dead) /\ ThreadRefs'[u] = ThreadRefs[u]
    <3>1. ASSUME NEW u \in Threads, u # th PROVE ThreadRefs'[u] = ThreadRefs[u]
      <4>1. One(u = th) = 0 /\ ThreadRefs[u] \in Int
        BY <3>1, <1>ty, ThreadViews DEF One
      <4>. QED BY <4>1, <1>11
    <3>. QED BY <3>1, <1>16
  <2>3. ASSUME NEW p \in Procs
        PROVE  ProcRefs'[p] = Cardinality(ProcHolders(pc', loc, p))
                              + Cardinality(Unfreed(D2, ThreadRefs', p))
                              + One(ProcSts[p] \in {"threads", "todo"})
    <3>1. PICK TR2, TR, D : TR2 = ThreadRefs' /\ TR = ThreadRefs /\ D = Dead
      OBVIOUS
    <3>2. th \in D2 /\ TR2[th] > 0
      BY <3>1, <2>1, <1>16
    <3>3. th \notin D
      BY <3>1, <1>1
    <3>4. \A u \in Threads : u # th => (u \in D2 <=> u \in D) /\ TR2[u] = TR[u]
      BY <3>1, <2>2
    <3>9. Cardinality(Unfreed(D2, TR2, p)) = Cardinality(Unfreed(D, TR, p)) + One(ProcOf[th] = p)
      <4>0. th \notin Unfreed(D, TR, p)
        BY <3>3 DEF Unfreed
      <4>1. IsFiniteSet(Unfreed(D, TR, p)) /\ Cardinality(Unfreed(D, TR, p)) \in Nat
        BY HoldersFinite
      <4>2. CASE ProcOf[th] = p
        <5>1. Unfreed(D2, TR2, p) = Unfreed(D, TR, p) \cup {th}
          BY <3>2, <3>4, <4>2 DEF Unfreed
        <5>. QED BY <5>1, <4>0, <4>1, <4>2, CountOne DEF One
      <4>3. CASE ProcOf[th] # p
        <5>1. Unfreed(D2, TR2, p) = Unfreed(D, TR, p)
          BY <3>4, <4>3 DEF Unfreed
        <5>. QED BY <5>1, <4>1, <4>3 DEF One
      <4>. QED BY <4>2, <4>3
    <3>5. PICK n \in Nat, m \in Nat : /\ n = Cardinality(ProcHolders(pc, loc, p))
                                      /\ m = Cardinality(Unfreed(Dead, ThreadRefs, p))
      BY HoldersFinite
    <3>6. ProcRefs[p] = n + m + One(ProcSts[p] \in {"threads", "todo"})
      BY <3>5, <1>pc DEF ProcCounts
    <3>7. ProcRefs'[p] = ProcRefs[p] + One(p = ProcOf[th]) /\ One(p = ProcOf[th]) = One(ProcOf[th] = p)
      BY <1>12 DEF One
    <3>8. One(ProcOf[th] = p) \in Nat /\ One(ProcSts[p] \in {"threads", "todo"}) \in Nat
      BY DEF One
    <3>. QED BY <3>1, <3>9, <3>5, <3>6, <3>7, <3>8, <1>31
  <2>. QED BY <2>3 DEF ProcCounts
<1>34. Oneways(buf', DeadProcs, LiveNodes, AsyncNodes, AsyncTodos, pc', loc)
  <2>1. \A s \in Txns : /\ buf'[s].st # "none" <=> buf[s].st # "none"
                        /\ buf'[s].async <=> buf[s].async
                        /\ buf'[s].node = buf[s].node
    BY <1>6 DEF Cut
  <2>2. Oneways(buf', DeadProcs, LiveNodes, AsyncNodes, AsyncTodos, pc, loc)
    BY <2>1, <1>ow, OnewaysKeep
  <2>3. pc[th] # "send" /\ pc'[th] # "send"
    BY <1>8
  <2>. QED BY <2>2, <2>3, <1>17, MoveOneways
<1>35. Notices(D2, Todos, ReturnErrors, ReplyErrors, pc')
  <2>1. NoticeOK(Dead, Todos, ReturnErrors, ReplyErrors, pc, th)
    BY <1>no DEF Notices
  <2>2. NoticeOK(D2, Todos, ReturnErrors, ReplyErrors, pc', th)
    BY <2>1, <1>8, <1>16 DEF NoticeOK
  <2>3. \A u \in Threads : u # th =>
           /\ u \in Dead => u \in D2
           /\ Todos[u] = Todos[u] /\ ReturnErrors[u] = ReturnErrors[u]
           /\ ReplyErrors[u] = ReplyErrors[u] /\ pc'[u] = pc[u]
    BY <1>8, <1>16
  <2>. QED BY <2>2, <2>3, <1>no, NoticesKeep
<1>36. Flags(txn', D2, Stacks, Todos, Flagged)
  <2>1. ASSUME NEW u \in Threads, u \notin D2 PROVE FlagOK(txn', Stacks, Todos, Flagged, u)
    <3>1. u # th /\ u \notin Dead
      BY <2>1, <1>16
    <3>2. FlagOK(txn, Stacks, Todos, Flagged, u)
      BY <3>1, <1>fl DEF Flags
    <3>3. Stacks[u] # NoTxn /\ txn[Stacks[u]].from = u => txn'[Stacks[u]].from = u
      <4>1. Stacks[u] # NoTxn => Stacks[u] \in Txns
        BY <1>kt, TxnNumbers
      <4>. QED BY <3>1, <4>1, <1>6 DEF Cut
    <3>. QED BY <3>2, <3>3 DEF FlagOK
  <2>. QED BY <2>1 DEF Flags
<1>37. Inv(k2, a2, r)'
  BY <1>4, <1>6, <1>7, <1>10, <1>12, <1>13, <1>14, <1>16, <1>18, <1>19, <1>21, <1>22, <1>23, <1>24,
     <1>25, <1>26, <1>27, <1>28, <1>29, <1>32, <1>33, <1>34, <1>35, <1>36, Whole
<1>. QED BY <1>37

\* BINDER_THREAD_EXIT.
LEMMA ThreadExitStep ==
  ASSUME NEW k, NEW a, NEW r, Inv(k, a, r), NEW th \in Threads, ThreadExit(th)
  PROVE  \E k2, a2 : Inv(k2, a2, r)'
<1>1. pc[th] = "user" /\ sfr[th] = NoTxn /\ ReleaseThread(th)
  BY DEF ThreadExit, InUser
<1>. QED BY <1>1, ReleaseThreadStep

\* binder_deferred_release releases a thread.
LEMMA ProcReleaseThreadStep ==
  ASSUME NEW k, NEW a, NEW r, Inv(k, a, r), NEW th \in Threads, ProcReleaseThread(th)
  PROVE  \E k2, a2 : Inv(k2, a2, r)'
<1>ty. Typed /\ bug = FALSE
  BY Parts
<1>ps. ProcStates(ProcSts, DeadProcs, ProcTodos, ProcRefs, LiveNodes, AsyncTodos, pc, sfr)
  BY Parts
<1>1. pc[th] = "user" /\ ReleaseThread(th) /\ proc[ProcOf[th]].st = "threads"
  BY DEF ProcReleaseThread
<1>2. ProcOf[th] \in Procs
  BY ProcOfAssumption
<1>3. ProcSts[ProcOf[th]] = "threads"
  BY <1>1, <1>2, <1>ty, ProcViews
<1>4. ProcOK(ProcSts, DeadProcs, ProcTodos, ProcRefs, LiveNodes, AsyncTodos, pc, sfr, ProcOf[th])
  BY <1>2, <1>ps DEF ProcStates
<1>5. sfr[th] = NoTxn
  BY <1>1, <1>3, <1>4 DEF ProcOK
<1>. QED BY <1>1, <1>5, ReleaseThreadStep
-----------------------------------------------------------------------------
(* The invariant holds.                                                    *)

IInv == \E k, a, r : Inv(k, a, r)

\* The views of the first state.
LEMMA InitStates ==
  ASSUME Init
  PROVE  /\ Typed /\ bug = FALSE
         /\ \A t \in Txns : txn[t] = UnusedTxn /\ buf[t] = NoBuf
         /\ \A u \in Threads : /\ Stacks[u] = NoTxn /\ Todos[u] = <<>> /\ u \notin Flagged
                               /\ ReplyErrors[u] = "OK" /\ u \notin Waiting /\ u \notin Dead
                               /\ ThreadRefs[u] = 0 /\ pc[u] = "user" /\ loc[u] = NoLoc
         /\ \A p \in Procs : /\ ProcSts[p] = "open" /\ ProcTodos[p] = <<>> /\ p \notin DeadProcs
                             /\ ProcRefs[p] = 0 /\ p \in LiveNodes /\ p \notin AsyncNodes
                             /\ AsyncTodos[p] = <<>>
         /\ \A x \in Threads \cup Procs : sfr[x] = NoTxn
<1>0. /\ <<>> \in Seq(Work) /\ <<>> \in Seq(Txns) /\ "OK" \in Cmds
      /\ NoTxn \in 0 .. MaxTxns
  BY TxnNumbers DEF Cmds
<1>1. UnusedTxn \in Txn
  BY <1>0 DEF UnusedTxn, Txn
<1>2. NoBuf \in Buf
  BY GoneBuf
<1>3. NewThread \in Thr
  BY <1>0 DEF NewThread, Thr
<1>4. NewProc \in Prc
  BY <1>0 DEF NewProc, Prc
<1>5. NewNode \in Nde
  BY <1>0 DEF NewNode, Nde
<1>6. NoLoc \in Loc
  BY LocType
<1>7. /\ txn \in [Txns -> Txn] /\ buf \in [Txns -> Buf]
      /\ \A t \in Txns : txn[t] = UnusedTxn /\ buf[t] = NoBuf
  BY <1>1, <1>2 DEF Init
<1>8. /\ thr \in [Threads -> Thr] /\ \A u \in Threads : thr[u] = NewThread
  BY <1>3 DEF Init
<1>9. /\ proc \in [Procs -> Prc] /\ \A p \in Procs : proc[p] = NewProc
  BY <1>4 DEF Init
<1>10. /\ node \in [Procs -> Nde] /\ \A p \in Procs : node[p] = NewNode
  BY <1>5 DEF Init
<1>11. /\ pc \in [Threads -> PCs] /\ loc \in [Threads -> Loc]
       /\ \A u \in Threads : pc[u] = "user" /\ loc[u] = NoLoc
  BY <1>6 DEF Init, PCs
<1>12. /\ sfr \in [Threads \cup Procs -> 0 .. MaxTxns]
       /\ \A x \in Threads \cup Procs : sfr[x] = NoTxn
  BY <1>0 DEF Init
<1>13. Typed
  BY <1>7, <1>8, <1>9, <1>10, <1>11, <1>12 DEF Typed
<1>14. bug = FALSE
  BY DEF Init
<1>15. /\ NewThread.stack = NoTxn /\ NewThread.todo = <<>> /\ ~NewThread.process_todo
       /\ NewThread.reply_error = "OK" /\ ~NewThread.waiting /\ ~NewThread.is_dead
       /\ NewThread.tmp_ref = 0
  BY DEF NewThread
<1>16. /\ NewProc.st = "open" /\ NewProc.todo = <<>> /\ ~NewProc.is_dead /\ NewProc.tmp_ref = 0
  BY DEF NewProc
<1>17. NewNode.live /\ ~NewNode.has_async_transaction /\ NewNode.async_todo = <<>>
  BY DEF NewNode
<1>18. \A u \in Threads : /\ Stacks[u] = NoTxn /\ Todos[u] = <<>> /\ u \notin Flagged
                          /\ ReplyErrors[u] = "OK" /\ u \notin Waiting /\ u \notin Dead
                          /\ ThreadRefs[u] = 0
  BY <1>8, <1>13, <1>15, ThreadViews
<1>19. \A p \in Procs : /\ ProcSts[p] = "open" /\ ProcTodos[p] = <<>> /\ p \notin DeadProcs
                        /\ ProcRefs[p] = 0
  BY <1>9, <1>13, <1>16, ProcViews
<1>20. \A p \in Procs : p \in LiveNodes /\ p \notin AsyncNodes /\ AsyncTodos[p] = <<>>
  BY <1>10, <1>13, <1>17, NodeViews
<1>. QED BY <1>7, <1>11, <1>12, <1>13, <1>14, <1>18, <1>19, <1>20

\* The invariant holds at the start, with nothing anywhere.
LEMMA InitInv == Init => IInv
<1>1. SUFFICES ASSUME Init PROVE IInv
  OBVIOUS
<1>2. PICK k, a, r : k = [t \in Txns |-> "none"] /\ a = [t \in Txns |-> t] /\ r = [t \in Txns |-> t]
  OBVIOUS
<1>3. Ghosts(k, a, r) /\ \A t \in Txns : k[t] = "none"
  BY <1>2 DEF Ghosts, Kinds
<1>4. Typed /\ bug = FALSE
  BY <1>1, InitStates
<1>5. \A t \in Txns : txn[t] = UnusedTxn /\ buf[t] = NoBuf
  BY <1>1, InitStates
<1>6. /\ UnusedTxn.kind = "unused" /\ UnusedTxn.from = NoThread /\ UnusedTxn.from_parent = NoTxn
      /\ UnusedTxn.buffer = FALSE
  BY DEF UnusedTxn
<1>7. \A t \in Txns : txn[t].kind = "unused" /\ ~Sync(txn, t) /\ txn[t].from = NoThread
                      /\ txn[t].from_parent = NoTxn
  BY <1>5, <1>6 DEF Sync
<1>8. /\ \A u \in Threads : Stacks[u] = NoTxn /\ Todos[u] = <<>> /\ u \notin Flagged
      /\ \A u \in Threads : ReplyErrors[u] = "OK" /\ u \notin Waiting /\ u \notin Dead
      /\ \A u \in Threads : ThreadRefs[u] = 0 /\ pc[u] = "user" /\ loc[u] = NoLoc
  BY <1>1, InitStates
<1>9. /\ \A p \in Procs : ProcSts[p] = "open" /\ ProcTodos[p] = <<>> /\ p \notin DeadProcs
      /\ \A p \in Procs : ProcRefs[p] = 0 /\ p \in LiveNodes /\ p \notin AsyncNodes
      /\ \A p \in Procs : AsyncTodos[p] = <<>>
  BY <1>1, InitStates
<1>10. \A x \in Threads \cup Procs : sfr[x] = NoTxn
  BY <1>1, InitStates
<1>11. ToSet(<<>>) = {} /\ Once(<<>>) /\ Distinct(<<>>)
  BY SeqSmall DEF Once, Distinct
<1>12. PlaceInv(k, a)
  <2>1. Names(txn)
    BY <1>7 DEF Names
  <2>2. ThreadLists(Todos, k, a)
    BY <1>3, <1>8, <1>11 DEF ThreadLists, ListOK
  <2>3. TxnLists(ProcTodos, "proc", k, a)
    BY <1>3, <1>9, <1>11 DEF TxnLists, TxnListOK
  <2>4. TxnLists(AsyncTodos, "async", k, a)
    BY <1>3, <1>9, <1>11 DEF TxnLists, TxnListOK
  <2>5. Carried(txn, Dead, pc, loc, k, a)
    BY <1>3, <1>8 DEF Carried, CarryOK, CarrierOK, Holds, Holding
  <2>6. Failing(sfr, k, a)
    BY <1>3, <1>10 DEF Failing
  <2>7. Placed(txn, Dead, k, a)
    BY <1>3, <1>7 DEF Placed, PlaceOK
  <2>. QED BY <2>1, <2>2, <2>3, <2>4, <2>5, <2>6, <2>7 DEF PlaceInv
<1>13. CallInv(k, a, r)
  <2>1. Tree(txn, Dead, k, a, r)
    BY <1>7 DEF Tree, CallOK, NestOK
  <2>2. AllStacks(txn, Dead, Stacks, k, a, r)
    BY <1>7, <1>8 DEF AllStacks, StackOK, Mine
  <2>3. Directed(txn, Dead, Stacks, Todos, pc, loc, k, a, r)
    BY <1>3, <1>8 DEF Directed, QueuedOK
  <2>. QED BY <2>1, <2>2, <2>3 DEF CallInv
<1>14. BufInv(k, a)
  <2>1. ASSUME NEW t \in Txns PROVE BufOK(txn[t], buf[t])
    <3>1. /\ NoBuf.st = "none" /\ ~NoBuf.async /\ ~NoBuf.transaction
      BY DEF NoBuf
    <3>. QED BY <3>1, <1>5, <1>6 DEF BufOK
  <2>2. Buffers(txn, buf, loc, k, a)
    BY <2>1, <1>3 DEF Buffers, BufferOK
  <2>3. Drops(txn, buf, pc, loc, sfr)
    BY <1>8 DEF Drops
  <2>. QED BY <2>2, <2>3 DEF BufInv
<1>15. StateInv
  <2>1. ThreadStates(Dead, Stacks, Todos, Waiting, pc, loc, sfr)
    BY <1>8, LocType DEF ThreadStates, ThreadOK
  <2>2. ProcStates(ProcSts, DeadProcs, ProcTodos, ProcRefs, LiveNodes, AsyncTodos, pc, sfr)
    BY <1>9, <1>10 DEF ProcStates, ProcOK
  <2>3. /\ \A x : ThreadHolders(pc, loc, x) = {}
        /\ \A x : ProcHolders(pc, loc, x) = {}
        /\ \A x : Unfreed(Dead, ThreadRefs, x) = {}
    BY <1>8 DEF ThreadHolders, ProcHolders, Unfreed, Holding
  <2>4. Cardinality({}) = 0
    BY FS_EmptySet
  <2>5. ThreadCounts(ThreadRefs, pc, loc)
    BY <2>3, <2>4, <1>8, ZenonT(90) DEF ThreadCounts, One
  <2>6. ProcCounts(Dead, ThreadRefs, ProcSts, ProcRefs, pc, loc)
    <3>1. \A p \in Procs : One(ProcSts[p] \in {"threads", "todo"}) = 0 /\ ProcRefs[p] = 0
      BY <1>9 DEF One
    <3>. QED BY <3>1, <2>3, <2>4 DEF ProcCounts
  <2>. QED BY <2>1, <2>2, <2>5, <2>6 DEF StateInv
<1>16. WorkInv
  <2>1. \A p \in Procs : Active(buf, AsyncTodos, pc, loc, p) = {}
    <3>1. NoBuf.st = "none"
      BY GoneBuf
    <3>. QED BY <3>1, <1>5 DEF Active
  <2>2. Oneways(buf, DeadProcs, LiveNodes, AsyncNodes, AsyncTodos, pc, loc)
    <3>1. LiveNodes \subseteq Procs
      BY DEF LiveNodes
    <3>. QED BY <3>1, <2>1, <1>9 DEF Oneways, OnewayOK
  <2>3. Notices(Dead, Todos, ReturnErrors, ReplyErrors, pc)
    BY <1>8, <1>11 DEF Notices, NoticeOK
  <2>4. Flags(txn, Dead, Stacks, Todos, Flagged)
    BY <1>8 DEF Flags, FlagOK
  <2>. QED BY <2>2, <2>3, <2>4 DEF WorkInv
<1>17. Inv(k, a, r)
  BY <1>3, <1>4, <1>12, <1>13, <1>14, <1>15, <1>16 DEF Inv
<1>. QED BY <1>17 DEF IInv

\* A step that changes nothing.
LEMMA StutterInv ==
  ASSUME NEW k, NEW a, NEW r, Inv(k, a, r), UNCHANGED vars
  PROVE  Inv(k, a, r)'
<1>gh. Ghosts(k, a, r)
  BY Parts
<1>ty. Typed /\ bug = FALSE
  BY Parts
<1>nm. Names(txn)
  BY Parts
<1>tl. ThreadLists(Todos, k, a)
  BY Parts
<1>pl. TxnLists(ProcTodos, "proc", k, a)
  BY Parts
<1>al. TxnLists(AsyncTodos, "async", k, a)
  BY Parts
<1>ca. Carried(txn, Dead, pc, loc, k, a)
  BY Parts
<1>fa. Failing(sfr, k, a)
  BY Parts
<1>po. Placed(txn, Dead, k, a)
  BY Parts
<1>tr. Tree(txn, Dead, k, a, r)
  BY Parts
<1>st. AllStacks(txn, Dead, Stacks, k, a, r)
  BY Parts
<1>di. Directed(txn, Dead, Stacks, Todos, pc, loc, k, a, r)
  BY Parts
<1>bu. Buffers(txn, buf, loc, k, a)
  BY Parts
<1>dr. Drops(txn, buf, pc, loc, sfr)
  BY Parts
<1>ow. Oneways(buf, DeadProcs, LiveNodes, AsyncNodes, AsyncTodos, pc, loc)
  BY Parts
<1>ts. ThreadStates(Dead, Stacks, Todos, Waiting, pc, loc, sfr)
  BY Parts
<1>ps. ProcStates(ProcSts, DeadProcs, ProcTodos, ProcRefs, LiveNodes, AsyncTodos, pc, sfr)
  BY Parts
<1>tc. ThreadCounts(ThreadRefs, pc, loc)
  BY Parts
<1>pc. ProcCounts(Dead, ThreadRefs, ProcSts, ProcRefs, pc, loc)
  BY Parts
<1>no. Notices(Dead, Todos, ReturnErrors, ReplyErrors, pc)
  BY Parts
<1>fl. Flags(txn, Dead, Stacks, Todos, Flagged)
  BY Parts
<1>1. UNCHANGED <<txn, buf, thr, proc, node, pc, loc, sfr, bug>>
  BY DEF vars
<1>2. Typed'
  BY <1>1, <1>ty DEF Typed
<1>3. UNCHANGED <<Stacks, Todos, Flagged, ReturnErrors, ReplyErrors, Waiting, Dead, ThreadRefs>>
  BY <1>1, SameAll
<1>4. UNCHANGED <<ProcSts, ProcTodos, DeadProcs, ProcRefs, LiveNodes, AsyncNodes, AsyncTodos>>
  BY <1>1, SameAll
<1>. QED BY <1>1, <1>2, <1>3, <1>4, <1>gh, <1>ty, <1>nm, <1>tl, <1>pl, <1>al, <1>ca, <1>fa, <1>po,
     <1>tr,
            <1>st, <1>di, <1>bu, <1>dr, <1>ow, <1>ts, <1>ps, <1>tc, <1>pc, <1>no, <1>fl, Whole

\* The steps of a call.
LEMMA CallStepsInv ==
  ASSUME NEW k, NEW a, NEW r, Inv(k, a, r), CallSteps
  PROVE  IInv'
<1>1. PICK c \in Calls : CallStart(c[1], c[2], c[3]) \/ CallFails(c[1], c[2], c[3])
  BY DEF CallSteps
<1>2. c[1] \in Threads /\ c[2] \in Procs /\ c[3] \in BOOLEAN /\ ProcOf[c[1]] # c[2]
  BY CallAssumption
<1>3. PICK th \in Threads, q \in Procs, ow \in BOOLEAN :
         /\ ProcOf[th] # q
         /\ CallStart(th, q, ow) \/ CallFails(th, q, ow)
  BY <1>1, <1>2
<1>4. CASE CallFails(th, q, ow)
  <2>1. Inv(k, a, r)'
    BY <1>4, CallFailsStep
  <2>. QED BY <2>1 DEF IInv
<1>5. CASE CallStart(th, q, ow) /\ ow = TRUE
  <2>1. CallStart(th, q, TRUE)
    BY <1>5
  <2>2. \E k2, a2 : Inv(k2, a2, r)'
    BY <2>1, <1>3, CallOnewayStep
  <2>. QED BY <2>2 DEF IInv
<1>6. CASE CallStart(th, q, ow) /\ ow = FALSE
  <2>1. CallStart(th, q, FALSE)
    BY <1>6
  <2>2. \E k2, a2, r2 : Inv(k2, a2, r2)'
    BY <2>1, <1>3, CallSyncStep
  <2>. QED BY <2>2 DEF IInv
<1>. QED BY <1>3, <1>4, <1>5, <1>6

\* The steps of a reply.
LEMMA ReplyStepsInv ==
  ASSUME NEW k, NEW a, NEW r, Inv(k, a, r), NEW th \in Threads, ReplySteps(th)
  PROVE  IInv'
<1>1. CASE ReplyStart(th)
  BY <1>1, ReplyStartStep DEF IInv
<1>2. CASE ReplyRefused(th)
  <2>1. Inv(k, a, r)'
    BY <1>2, ReplyRefusedStep
  <2>. QED BY <2>1 DEF IInv
<1>3. CASE ReplyFails(th)
  BY <1>3, ReplyFailsStep DEF IInv
<1>. QED BY <1>1, <1>2, <1>3 DEF ReplySteps

\* The steps of failed replies, buffers and tmp_refs.
LEMMA DriverStepsInv ==
  ASSUME NEW k, NEW a, NEW r, Inv(k, a, r), NEW th \in Threads, DriverSteps(th)
  PROVE  IInv'
<1>1. CASE Send(th)
  BY <1>1, SendStep DEF IInv
<1>2. CASE SendDead(th)
  BY <1>2, SendDeadStep DEF IInv
<1>3. CASE PutTarget(th)
  <2>1. Inv(k, a, r)'
    BY <1>3, PutTargetStep
  <2>. QED BY <2>1 DEF IInv
<1>4. CASE ReplySend(th)
  BY <1>4, ReplySendStep DEF IInv
<1>5. CASE ReplyDead(th)
  BY <1>5, ReplyDeadStep DEF IInv
<1>6. CASE SendFailedReply(th)
  <2>1. th \in Threads \cup Procs
    OBVIOUS
  <2>2. \E k2, a2 : Inv(k2, a2, r)'
    BY <1>6, <2>1, SendFailedReplyStep
  <2>. QED BY <2>2 DEF IInv
<1>. QED BY <1>1, <1>2, <1>3, <1>4, <1>5, <1>6 DEF DriverSteps

\* The steps of binder_thread_read.
LEMMA ReadStepsInv ==
  ASSUME NEW k, NEW a, NEW r, Inv(k, a, r), NEW th \in Threads,
         ReadStart(th) \/ Interrupted(th) \/ ReadSteps(th) \/ \E t \in Txns : FreeBuffer(th, t)
  PROVE  IInv'
<1>1. CASE ReadStart(th)
  <2>1. /\ pc[th] \in {"user", "loop"} /\ sfr[th] = NoTxn /\ proc[ProcOf[th]].st = "open"
        /\ WaitForWork(th)
    BY <1>1 DEF ReadStart, InUser
  <2>2. Inv(k, a, r)'
    BY <2>1, WaitForWorkStep
  <2>. QED BY <2>2 DEF IInv
<1>2. CASE Interrupted(th)
  <2>1. Inv(k, a, r)'
    BY <1>2, InterruptedStep
  <2>. QED BY <2>1 DEF IInv
<1>3. CASE WakeUp(th)
  <2>1. Inv(k, a, r)'
    BY <1>3, WakeUpStep
  <2>. QED BY <2>1 DEF IInv
<1>4. CASE ReadNotice(th)
  <2>1. Inv(k, a, r)'
    BY <1>4, ReadNoticeStep
  <2>. QED BY <2>1 DEF IInv
<1>5. CASE ReadEnd(th)
  <2>1. Inv(k, a, r)'
    BY <1>5, ReadEndStep
  <2>. QED BY <2>1 DEF IInv
<1>6. CASE ReadRetry(th)
  <2>1. pc[th] = "loop" /\ sfr[th] = NoTxn /\ WaitForWork(th)
    BY <1>6 DEF ReadRetry
  <2>2. proc[ProcOf[th]].st = "open"
    BY <2>1, ThreadFacts
  <2>3. pc[th] \in {"user", "loop"}
    BY <2>1
  <2>4. Inv(k, a, r)'
    BY <2>1, <2>2, <2>3, WaitForWorkStep
  <2>. QED BY <2>4 DEF IInv
<1>7. CASE DropBuffer(th)
  BY <1>7, DropBufferStep DEF IInv
<1>8. CASE DropReply(th)
  BY <1>8, DropReplyStep DEF IInv
<1>9. ASSUME NEW t \in Txns, Deliver(th, t) PROVE IInv'
  BY <1>9, DeliverStep DEF IInv
<1>10. ASSUME NEW t \in Txns, DeliverCopyFails(th, t) PROVE IInv'
  BY <1>10, DeliverCopyFailsStep DEF IInv
<1>11. ASSUME NEW t \in Txns, DeliverFdFails(th, t) PROVE IInv'
  BY <1>11, DeliverFdFailsStep DEF IInv
<1>12. ASSUME NEW t \in Txns, FreeBuffer(th, t) PROVE IInv'
  BY <1>12, FreeBufferStep DEF IInv
<1>. QED BY <1>1, <1>2, <1>3, <1>4, <1>5, <1>6, <1>7, <1>8, <1>9, <1>10, <1>11, <1>12 DEF ReadSteps

\* The steps of a thread's exit.
LEMMA ExitStepsInv ==
  ASSUME NEW k, NEW a, NEW r, Inv(k, a, r), NEW th \in Threads,
         ThreadExit(th) \/ ExitSteps(th) \/ GetThread(th)
  PROVE  IInv'
<1>1. CASE ThreadExit(th)
  BY <1>1, ThreadExitStep DEF IInv
<1>2. CASE ReleaseThreadWork(th)
  BY <1>2, ReleaseThreadWorkStep DEF IInv
<1>3. CASE ReleaseThreadEnd(th)
  <2>1. Inv(k, a, r)'
    BY <1>3, ReleaseThreadEndStep
  <2>. QED BY <2>1 DEF IInv
<1>4. CASE ProcReleaseThread(th)
  BY <1>4, ProcReleaseThreadStep DEF IInv
<1>5. CASE GetThread(th)
  <2>1. Inv(k, a, r)'
    BY <1>5, GetThreadStep
  <2>. QED BY <2>1 DEF IInv
<1>. QED BY <1>1, <1>2, <1>3, <1>4, <1>5 DEF ExitSteps

\* The steps of a process's release.
LEMMA ProcStepsInv ==
  ASSUME NEW k, NEW a, NEW r, Inv(k, a, r), NEW p \in Procs, ProcRelease(p) \/ ProcSteps(p)
  PROVE  IInv'
<1>1. CASE ProcRelease(p)
  <2>1. Inv(k, a, r)'
    BY <1>1, ProcReleaseStep
  <2>. QED BY <2>1 DEF IInv
<1>2. CASE ProcReleaseNode(p)
  BY <1>2, ProcReleaseNodeStep DEF IInv
<1>3. CASE ProcReleaseWork(p)
  BY <1>3, ProcReleaseWorkStep DEF IInv
<1>4. CASE ProcReleaseEnd(p)
  <2>1. Inv(k, a, r)'
    BY <1>4, ProcReleaseEndStep
  <2>. QED BY <2>1 DEF IInv
<1>5. CASE FreeProc(p)
  <2>1. Inv(k, a, r)'
    BY <1>5, FreeProcStep
  <2>. QED BY <2>1 DEF IInv
<1>6. CASE SendFailedReply(p)
  <2>1. p \in Threads \cup Procs
    OBVIOUS
  <2>2. \E k2, a2 : Inv(k2, a2, r)'
    BY <1>6, <2>1, SendFailedReplyStep
  <2>. QED BY <2>2 DEF IInv
<1>. QED BY <1>1, <1>2, <1>3, <1>4, <1>5, <1>6 DEF ProcSteps

\* Every step keeps the invariant.
LEMMA StepInv == IInv /\ [Next]_vars => IInv'
<1>1. SUFFICES ASSUME IInv, [Next]_vars PROVE IInv'
  OBVIOUS
<1>2. PICK k, a, r : Inv(k, a, r)
  BY <1>1 DEF IInv
<1>3. CASE UNCHANGED vars
  <2>1. Inv(k, a, r)'
    BY <1>2, <1>3, StutterInv
  <2>. QED BY <2>1 DEF IInv
<1>4. CASE CallSteps
  BY <1>2, <1>4, CallStepsInv
<1>5. ASSUME NEW th \in Threads, ReplySteps(th) PROVE IInv'
  BY <1>2, <1>5, ReplyStepsInv
<1>6. ASSUME NEW th \in Threads, DriverSteps(th) PROVE IInv'
  BY <1>2, <1>6, DriverStepsInv
<1>7. ASSUME NEW th \in Threads,
             ReadStart(th) \/ Interrupted(th) \/ ReadSteps(th) \/ \E t \in Txns : FreeBuffer(th, t)
      PROVE  IInv'
  BY <1>2, <1>7, ReadStepsInv
<1>8. ASSUME NEW th \in Threads, ThreadExit(th) \/ ExitSteps(th) \/ GetThread(th) PROVE IInv'
  BY <1>2, <1>8, ExitStepsInv
<1>9. ASSUME NEW p \in Procs, ProcRelease(p) \/ ProcSteps(p) PROVE IInv'
  BY <1>2, <1>9, ProcStepsInv
<1>. QED BY <1>1, <1>3, <1>4, <1>5, <1>6, <1>7, <1>8, <1>9 DEF Next
-----------------------------------------------------------------------------
(* What the invariant says of the program.                                 *)

\* The type invariant.
LEMMA TypesHold ==
  ASSUME NEW k, NEW a, NEW r, Inv(k, a, r)
  PROVE  TypeOK
<1>ty. Typed /\ bug = FALSE
  BY Parts
<1>xt. txn \in [Txns -> Txn]
  BY Parts
<1>bt. buf \in [Txns -> Buf]
  BY Parts
<1>ft. sfr \in [Threads \cup Procs -> 0 .. MaxTxns]
  BY Parts
<1>tc. ThreadCounts(ThreadRefs, pc, loc)
  BY Parts
<1>pc. ProcCounts(Dead, ThreadRefs, ProcSts, ProcRefs, pc, loc)
  BY Parts
<1>1. ASSUME NEW u \in Threads
      PROVE  /\ thr[u].stack \in 0 .. MaxTxns
             /\ \A i \in 1 .. Len(thr[u].todo) : thr[u].todo[i] \in Work
             /\ thr[u].return_error \in Cmds /\ thr[u].reply_error \in Cmds
             /\ thr[u].tmp_ref \in Nat
  <2>1. thr[u] \in Thr
    BY <1>ty, ThreadViews
  <2>2. /\ thr[u].stack \in 0 .. MaxTxns /\ thr[u].todo \in Seq(Work)
        /\ thr[u].return_error \in Cmds /\ thr[u].reply_error \in Cmds
    BY <2>1 DEF Thr
  <2>3. \A i \in 1 .. Len(thr[u].todo) : thr[u].todo[i] \in Work
    BY <2>2
  <2>4. ThreadRefs[u] = thr[u].tmp_ref
    BY <1>ty, ThreadViews
  <2>5. ThreadRefs[u] = Cardinality(ThreadHolders(pc, loc, u)) + One(pc[u] = "release")
    BY <1>tc DEF ThreadCounts
  <2>6. Cardinality(ThreadHolders(pc, loc, u)) \in Nat
    BY HoldersFinite
  <2>7. One(pc[u] = "release") \in Nat
    BY DEF One
  <2>8. ThreadRefs[u] \in Nat
    BY <2>5, <2>6, <2>7
  <2>. QED BY <2>2, <2>3, <2>4, <2>8
<1>2. ASSUME NEW p \in Procs
      PROVE  /\ proc[p].tmp_ref \in Nat
             /\ \A i \in 1 .. Len(proc[p].todo) : proc[p].todo[i] \in Txns
             /\ \A i \in 1 .. Len(node[p].async_todo) : node[p].async_todo[i] \in Txns
  <2>1. proc[p].todo \in Seq(Txns) /\ ProcRefs[p] = proc[p].tmp_ref
    BY <1>ty, ProcViews
  <2>2. node[p].async_todo \in Seq(Txns)
    BY <1>ty, NodeViews
  <2>3. PICK n \in Nat, m \in Nat : /\ n = Cardinality(ProcHolders(pc, loc, p))
                                    /\ m = Cardinality(Unfreed(Dead, ThreadRefs, p))
    BY HoldersFinite
  <2>4. ProcRefs[p] = n + m + One(ProcSts[p] \in {"threads", "todo"})
    BY <2>3, <1>pc DEF ProcCounts
  <2>5. One(ProcSts[p] \in {"threads", "todo"}) \in Nat
    BY DEF One
  <2>6. ProcRefs[p] \in Nat
    BY <2>4, <2>5
  <2>7. \A i \in 1 .. Len(proc[p].todo) : proc[p].todo[i] \in Txns
    BY <2>1
  <2>8. \A i \in 1 .. Len(node[p].async_todo) : node[p].async_todo[i] \in Txns
    BY <2>2
  <2>. QED BY <2>1, <2>6, <2>7, <2>8
<1>. QED BY <1>1, <1>2, <1>xt, <1>bt, <1>ft DEF TypeOK

\* The calls binder_thread_release would find on the stack of a live thread.
LEMMA LiveStack ==
  ASSUME NEW k, NEW a, NEW r, Inv(k, a, r), NEW th \in Threads, th \notin Dead
  PROVE  /\ OnStack(th) = {t \in Txns : Mine(txn, k, a, th, t)}
         /\ StackOK(txn, Stacks, k, a, r, th)
<1>xt. txn \in [Txns -> Txn]
  BY Parts
<1>kt. Stacks \in [Threads -> 0 .. MaxTxns]
  BY Parts
<1>st. AllStacks(txn, Dead, Stacks, k, a, r)
  BY Parts
<1>1. StackOK(txn, Stacks, k, a, r, th) /\ Stacks[th] \in 0 .. MaxTxns
  BY <1>st, <1>kt DEF AllStacks
<1>. QED BY <1>1, <1>xt, OnStackOf

\* The two names for the threads that are not dead.
LEMMA LiveNotDead ==
  ASSUME Typed
  PROVE  \A th \in Threads : th \in LiveThreads <=> th \notin Dead
<1>. QED BY ThreadViews DEF LiveThreads

\* The stacks of live threads alternate.
LEMMA StacksHold ==
  ASSUME NEW k, NEW a, NEW r, Inv(k, a, r)
  PROVE  StackAlternates
<1>ty. Typed /\ bug = FALSE
  BY Parts
<1>xt. txn \in [Txns -> Txn]
  BY Parts
<1>tr. Tree(txn, Dead, k, a, r)
  BY Parts
<1>po. Placed(txn, Dead, k, a)
  BY Parts
<1>1. SUFFICES ASSUME NEW th \in LiveThreads, NEW t \in OnStack(th)
               PROVE  /\ txn[t].kind = "sync"
                      /\ IF txn[t].to_thread = th
                         THEN txn[t].to_parent # NoTxn => txn[txn[t].to_parent].from = th
                         ELSE /\ txn[t].from = th
                              /\ txn[t].from_parent # NoTxn => txn[txn[t].from_parent].to_thread = th
  BY DEF StackAlternates
<1>2. th \in Threads /\ th \notin Dead
  <2>1. th \in Threads
    BY DEF LiveThreads
  <2>. QED BY <2>1, <1>ty, LiveNotDead
<1>3. t \in Txns /\ Mine(txn, k, a, th, t) /\ StackOK(txn, Stacks, k, a, r, th)
  BY <1>2, LiveStack
<1>4. Sync(txn, t) /\ (txn[t].from = th \/ (k[t] = "served" /\ a[t] = th))
  BY <1>3 DEF Mine
<1>5. CASE txn[t].to_thread = th
  <2>1. FrameOK(txn, Stacks, k, a, r, th, t)
    BY <1>3 DEF StackOK
  <2>2. Below(txn, th, t) = txn[t].to_parent
    BY <1>5 DEF Below
  <2>3. txn[t].to_parent # NoTxn => txn[txn[t].to_parent].from = th
    BY <2>1, <2>2, <1>5 DEF FrameOK
  <2>. QED BY <2>3, <1>4, <1>5 DEF Sync
<1>6. CASE txn[t].to_thread # th
  <2>1. txn[t].from = th
    BY <1>3, <1>4, <1>6, <1>po DEF Placed, PlaceOK
  <2>2. ASSUME txn[t].from_parent # NoTxn PROVE txn[txn[t].from_parent].to_thread = th
    <3>1. PICK p : p = txn[t].from_parent
      OBVIOUS
    <3>2. p \in Txns
      BY <2>2, <3>1, <1>3, <1>xt, TxnFields, TxnNumbers
    <3>3. NestOK(txn, k, a, r, t) /\ th # NoThread
      BY <1>2, <1>3, <1>tr, NullAssumption DEF Tree
    <3>4. k[p] = "served" /\ a[p] = th
      BY <3>1, <3>3, <2>1, <2>2, <1>4 DEF NestOK
    <3>5. txn[p].to_thread = th
      BY <3>2, <3>4, <1>po DEF Placed, PlaceOK
    <3>. QED BY <3>1, <3>5
  <2>. QED BY <2>1, <2>2, <1>4, <1>6 DEF Sync
<1>. QED BY <1>5, <1>6

\* k and a say where the model finds a transaction.
LEMMA PlacesOf ==
  ASSUME NEW k, NEW a, NEW r, Inv(k, a, r), NEW t \in Txns, k[t] # "none"
  PROVE  Places(t) = {<<k[t], a[t]>>}
<1>gh. Ghosts(k, a, r)
  BY Parts
<1>ty. Typed /\ bug = FALSE
  BY Parts
<1>tl. ThreadLists(Todos, k, a)
  BY Parts
<1>pl. TxnLists(ProcTodos, "proc", k, a)
  BY Parts
<1>al. TxnLists(AsyncTodos, "async", k, a)
  BY Parts
<1>ca. Carried(txn, Dead, pc, loc, k, a)
  BY Parts
<1>fa. Failing(sfr, k, a)
  BY Parts
<1>po. Placed(txn, Dead, k, a)
  BY Parts
<1>tr. Tree(txn, Dead, k, a, r)
  BY Parts
<1>0. k[t] \in Kinds /\ PlaceOK(txn, Dead, k, a, t)
  BY <1>gh, <1>po DEF Ghosts, Placed
<1>1. {u \in Threads : TxnItem(t) \in ToSet(thr[u].todo)} = IF k[t] = "thread" THEN {a[t]} ELSE {}
  <2>1. \A u \in Threads : TxnItem(t) \in ToSet(thr[u].todo) <=> k[t] = "thread" /\ a[t] = u
    <3>1. \A u \in Threads : Todos[u] = thr[u].todo
      BY <1>ty, ThreadViews
    <3>2. \A u \in Threads : TxnItem(t) \in ToSet(Todos[u]) <=> k[t] = "thread" /\ a[t] = u
      BY <1>tl DEF ThreadLists, ListOK
    <3>. QED BY <3>1, <3>2
  <2>2. k[t] = "thread" => a[t] \in Threads
    BY <1>0 DEF PlaceOK
  <2>. QED BY <2>1, <2>2
<1>2. {q \in Procs : t \in ToSet(proc[q].todo)} = IF k[t] = "proc" THEN {a[t]} ELSE {}
  <2>1. \A q \in Procs : t \in ToSet(proc[q].todo) <=> k[t] = "proc" /\ a[t] = q
    <3>1. \A q \in Procs : ProcTodos[q] = proc[q].todo
      BY <1>ty, ProcViews
    <3>2. \A q \in Procs : t \in ToSet(ProcTodos[q]) <=> k[t] = "proc" /\ a[t] = q
      BY <1>pl DEF TxnLists, TxnListOK
    <3>. QED BY <3>1, <3>2
  <2>2. k[t] = "proc" => a[t] \in Procs
    BY <1>0 DEF PlaceOK
  <2>. QED BY <2>1, <2>2
<1>3. {q \in Procs : t \in ToSet(node[q].async_todo)} = IF k[t] = "async" THEN {a[t]} ELSE {}
  <2>1. \A q \in Procs : t \in ToSet(node[q].async_todo) <=> k[t] = "async" /\ a[t] = q
    <3>1. \A q \in Procs : AsyncTodos[q] = node[q].async_todo
      BY <1>ty, NodeViews
    <3>2. \A q \in Procs : t \in ToSet(AsyncTodos[q]) <=> k[t] = "async" /\ a[t] = q
      BY <1>al DEF TxnLists, TxnListOK
    <3>. QED BY <3>1, <3>2
  <2>2. k[t] = "async" => a[t] \in Procs
    BY <1>0 DEF PlaceOK
  <2>. QED BY <2>1, <2>2
<1>4. {u \in Threads : Carries(u) /\ t \in {loc[u].t, loc[u].in_reply_to}}
      = IF k[t] = "carried" THEN {a[t]} ELSE {}
  <2>1. ASSUME NEW u \in Threads, Carries(u), t \in {loc[u].t, loc[u].in_reply_to}
        PROVE  k[t] = "carried" /\ a[t] = u
    <3>1. CarryOK(txn, Dead, pc, loc, k, a, u)
      BY <1>ca DEF Carried
    <3>2. CASE pc[u] = "send"
      <4>1. SendCarry(txn, loc[u], u, k, a)
        BY <3>1, <3>2 DEF CarryOK
      <4>. QED BY <4>1, <2>1, TxnNumbers DEF SendCarry
    <3>3. CASE pc[u] = "reply"
      <4>1. ReplyCarry(txn, Dead, loc[u], u, k, a)
        BY <3>1, <3>3 DEF CarryOK
      <4>. QED BY <4>1, <2>1 DEF ReplyCarry
    <3>. QED BY <2>1, <3>2, <3>3 DEF Carries
  <2>2. ASSUME k[t] = "carried"
        PROVE  a[t] \in Threads /\ Carries(a[t]) /\ t \in {loc[a[t]].t, loc[a[t]].in_reply_to}
    BY <2>2, <1>ca DEF Carried, CarrierOK, Carries
  <2>. QED BY <2>1, <2>2
<1>5. {b \in Threads \cup Procs : sfr[b] = t} = IF k[t] = "failing" THEN {a[t]} ELSE {}
  <2>1. ASSUME NEW b \in Threads \cup Procs, sfr[b] = t PROVE k[t] = "failing" /\ a[t] = b
    BY <2>1, <1>fa, TxnNumbers DEF Failing
  <2>2. k[t] = "failing" => a[t] \in Threads \cup Procs /\ sfr[a[t]] = t
    BY <1>fa DEF Failing
  <2>. QED BY <2>1, <2>2
<1>6. {u \in LiveThreads : Serves(u, t)} = IF k[t] = "served" THEN {a[t]} ELSE {}
  <2>0. \A u \in Threads : u \in LiveThreads <=> u \notin Dead
    BY <1>ty, LiveNotDead
  <2>1. ASSUME NEW u \in LiveThreads, Serves(u, t) PROVE k[t] = "served" /\ a[t] = u
    <3>1. u \in Threads /\ u \notin Dead
      BY <2>0, <2>1 DEF LiveThreads
    <3>2. Mine(txn, k, a, u, t) /\ txn[t].to_thread = u
      BY <2>1, <3>1, LiveStack DEF Serves
    <3>3. Sync(txn, t)
      BY <3>2 DEF Mine
    <3>4. txn[t].from # u
      BY <3>1, <3>2, <3>3, <1>tr, CallerBelow
    <3>. QED BY <3>2, <3>4 DEF Mine
  <2>2. ASSUME k[t] = "served" PROVE a[t] \in LiveThreads /\ Serves(a[t], t)
    <3>1. /\ a[t] \in Threads /\ a[t] \notin Dead /\ txn[t].to_thread = a[t] /\ Sync(txn, t)
      BY <2>2, <1>0 DEF PlaceOK
    <3>2. PICK u \in Threads : u = a[t]
      BY <3>1
    <3>3. Mine(txn, k, a, u, t) /\ u \notin Dead
      BY <2>2, <3>1, <3>2 DEF Mine
    <3>4. t \in OnStack(u)
      BY <3>3, LiveStack
    <3>. QED BY <2>0, <3>1, <3>2, <3>4 DEF Serves
  <2>. QED BY <2>1, <2>2
<1>7. {v \in Txns : txn[v].kind = "sync" /\ txn[v].from = NoThread /\ txn[v].from_parent = t}
      = IF k[t] = "orphan" THEN {a[t]} ELSE {}
  <2>1. ASSUME NEW v \in Txns, txn[v].kind = "sync", txn[v].from = NoThread, txn[v].from_parent = t
        PROVE  k[t] = "orphan" /\ a[t] = v
    <3>1. NestOK(txn, k, a, r, v) /\ t # NoTxn
      BY <1>tr, TxnNumbers DEF Tree
    <3>. QED BY <2>1, <3>1 DEF NestOK, Sync
  <2>2. k[t] = "orphan" => /\ a[t] \in Txns /\ txn[a[t]].kind = "sync"
                           /\ txn[a[t]].from = NoThread /\ txn[a[t]].from_parent = t
    BY <1>0 DEF PlaceOK, Sync
  <2>. QED BY <2>1, <2>2
<1>8. PICK S : S = [kind \in Kinds \ {"none"} |-> IF k[t] = kind THEN {a[t]} ELSE {}]
  OBVIOUS
<1>9. Places(t) = UNION {{<<kind, x>> : x \in S[kind]} : kind \in Kinds \ {"none"}}
  <2>1. /\ S["thread"] = IF k[t] = "thread" THEN {a[t]} ELSE {}
        /\ S["proc"] = IF k[t] = "proc" THEN {a[t]} ELSE {}
        /\ S["async"] = IF k[t] = "async" THEN {a[t]} ELSE {}
        /\ S["carried"] = IF k[t] = "carried" THEN {a[t]} ELSE {}
        /\ S["failing"] = IF k[t] = "failing" THEN {a[t]} ELSE {}
        /\ S["served"] = IF k[t] = "served" THEN {a[t]} ELSE {}
        /\ S["orphan"] = IF k[t] = "orphan" THEN {a[t]} ELSE {}
    BY <1>8 DEF Kinds
  <2>2. Places(t) = {<<"thread", x>> : x \in S["thread"]} \cup {<<"proc", x>> : x \in S["proc"]}
                    \cup {<<"async", x>> : x \in S["async"]} \cup {<<"carried", x>> : x \in S["carried"]}
                    \cup {<<"failing", x>> : x \in S["failing"]} \cup {<<"served", x>> : x \in S["served"]}
                    \cup {<<"orphan", x>> : x \in S["orphan"]}
    BY <2>1, <1>1, <1>2, <1>3, <1>4, <1>5, <1>6, <1>7 DEF Places
  <2>3. Kinds \ {"none"} = {"thread", "proc", "async", "carried", "failing", "served", "orphan"}
    BY DEF Kinds
  <2>. QED BY <2>2, <2>3
<1>10. k[t] \in Kinds \ {"none"} /\ \A kind \in Kinds \ {"none"} : S[kind] = IF k[t] = kind THEN {a[t]} ELSE {}
  BY <1>0, <1>8
<1>. QED BY <1>9, <1>10

\* A transaction's target is not freed before it: wherever the transaction
\* is, something of the target's is still there.
LEMMA TargetStays ==
  ASSUME NEW k, NEW a, NEW r, Inv(k, a, r), NEW t \in Txns, k[t] # "none",
         NEW q \in Procs, txn[t].to_proc = q
  PROVE  ProcSts[q] # "freed"
<1>gh. Ghosts(k, a, r)
  BY Parts
<1>tl. ThreadLists(Todos, k, a)
  BY Parts
<1>pl. TxnLists(ProcTodos, "proc", k, a)
  BY Parts
<1>al. TxnLists(AsyncTodos, "async", k, a)
  BY Parts
<1>ca. Carried(txn, Dead, pc, loc, k, a)
  BY Parts
<1>fa. Failing(sfr, k, a)
  BY Parts
<1>po. Placed(txn, Dead, k, a)
  BY Parts
<1>ts. ThreadStates(Dead, Stacks, Todos, Waiting, pc, loc, sfr)
  BY Parts
<1>ps. ProcStates(ProcSts, DeadProcs, ProcTodos, ProcRefs, LiveNodes, AsyncTodos, pc, sfr)
  BY Parts
<1>pc. ProcCounts(Dead, ThreadRefs, ProcSts, ProcRefs, pc, loc)
  BY Parts
<1>0. k[t] \in Kinds /\ PlaceOK(txn, Dead, k, a, t) /\ q # NoProc
  BY <1>gh, <1>po, NullAssumption DEF Ghosts, Placed
<1>1. SUFFICES ASSUME ProcSts[q] = "freed" PROVE FALSE
  OBVIOUS
<1>2. ProcOK(ProcSts, DeadProcs, ProcTodos, ProcRefs, LiveNodes, AsyncTodos, pc, sfr, q)
  BY <1>ps DEF ProcStates
<1>3. /\ ProcTodos[q] = <<>> /\ AsyncTodos[q] = <<>> /\ ProcRefs[q] = 0 /\ sfr[q] = NoTxn
  BY <1>1, <1>2 DEF ProcOK
<1>4. \A u \in Threads : ProcOf[u] = q => pc[u] = "gone"
  BY <1>1, <1>2 DEF ProcOK
<1>5. \A u \in Threads : ProcOf[u] = q => Todos[u] = <<>> /\ sfr[u] = NoTxn /\ u \in Dead
  BY <1>4, <1>ts DEF ThreadStates, ThreadOK
<1>6. \A u \in Threads : Holding(pc, u) => loc[u].target_proc # q
  BY <1>3, <1>pc, ProcNotHeld
<1>7. \A x : x \notin ToSet(<<>>)
  BY DEF ToSet
<1>8. k[t] # "thread"
  <2>1. SUFFICES ASSUME k[t] = "thread" PROVE FALSE
    OBVIOUS
  <2>2. a[t] \in Threads /\ ProcOf[a[t]] = q
    BY <1>0, <2>1 DEF PlaceOK
  <2>3. TxnItem(t) \in ToSet(Todos[a[t]])
    BY <2>1, <2>2, <1>tl DEF ThreadLists, ListOK
  <2>. QED BY <2>2, <2>3, <1>5, <1>7
<1>9. k[t] # "proc"
  <2>1. SUFFICES ASSUME k[t] = "proc" PROVE FALSE
    OBVIOUS
  <2>2. a[t] = q
    BY <1>0, <2>1 DEF PlaceOK
  <2>3. t \in ToSet(ProcTodos[q])
    BY <2>1, <2>2, <1>pl DEF TxnLists, TxnListOK
  <2>. QED BY <2>3, <1>3, <1>7
<1>10. k[t] # "async"
  <2>1. SUFFICES ASSUME k[t] = "async" PROVE FALSE
    OBVIOUS
  <2>2. a[t] = q
    BY <1>0, <2>1 DEF PlaceOK
  <2>3. t \in ToSet(AsyncTodos[q])
    BY <2>1, <2>2, <1>al DEF TxnLists, TxnListOK
  <2>. QED BY <2>3, <1>3, <1>7
<1>11. k[t] # "carried"
  <2>1. SUFFICES ASSUME k[t] = "carried" PROVE FALSE
    OBVIOUS
  <2>2. PICK u \in Threads : /\ pc[u] \in {"send", "reply"}
                             /\ t \in {loc[u].t, loc[u].in_reply_to}
    BY <2>1, <1>ca DEF Carried, CarrierOK
  <2>3. CarryOK(txn, Dead, pc, loc, k, a, u) /\ Holding(pc, u) /\ pc[u] # "gone"
    BY <2>2, <1>ca DEF Carried, Holding
  <2>4. CASE pc[u] = "send"
    <3>1. SendCarry(txn, loc[u], u, k, a)
      BY <2>3, <2>4 DEF CarryOK
    <3>2. t = loc[u].t
      BY <3>1, <2>2, TxnNumbers DEF SendCarry
    <3>3. loc[u].target_proc = q
      BY <3>1, <3>2 DEF SendCarry
    <3>. QED BY <3>3, <2>3, <1>6
  <2>5. CASE pc[u] = "reply"
    <3>1. ReplyCarry(txn, Dead, loc[u], u, k, a)
      BY <2>3, <2>5 DEF CarryOK
    <3>2. CASE t = loc[u].t
      <4>1. loc[u].target_proc = q
        BY <3>1, <3>2 DEF ReplyCarry
      <4>. QED BY <4>1, <2>3, <1>6
    <3>3. CASE t = loc[u].in_reply_to
      <4>1. ProcOf[u] = q
        BY <3>1, <3>3 DEF ReplyCarry
      <4>. QED BY <4>1, <2>3, <1>4
    <3>. QED BY <2>2, <3>2, <3>3
  <2>. QED BY <2>2, <2>4, <2>5
<1>12. k[t] # "failing"
  <2>1. SUFFICES ASSUME k[t] = "failing" PROVE FALSE
    OBVIOUS
  <2>2. sfr[a[t]] = t /\ t # NoTxn
    BY <2>1, <1>fa, TxnNumbers DEF Failing
  <2>3. (a[t] \in Threads /\ ProcOf[a[t]] = q) \/ a[t] = q
    BY <1>0, <2>1 DEF PlaceOK
  <2>. QED BY <2>2, <2>3, <1>3, <1>5
<1>13. k[t] # "served"
  <2>1. SUFFICES ASSUME k[t] = "served" PROVE FALSE
    OBVIOUS
  <2>2. a[t] \in Threads /\ a[t] \notin Dead /\ ProcOf[a[t]] = q
    BY <1>0, <2>1 DEF PlaceOK
  <2>. QED BY <2>2, <1>5
<1>14. k[t] # "orphan"
  BY <1>0 DEF PlaceOK
<1>. QED BY <1>0, <1>8, <1>9, <1>10, <1>11, <1>12, <1>13, <1>14 DEF Kinds

\* Nothing points to what was freed.
LEMMA NothingDangles ==
  ASSUME NEW k, NEW a, NEW r, Inv(k, a, r)
  PROVE  NoDangling
<1>ty. Typed /\ bug = FALSE
  BY Parts
<1>xt. txn \in [Txns -> Txn]
  BY Parts
<1>ca. Carried(txn, Dead, pc, loc, k, a)
  BY Parts
<1>po. Placed(txn, Dead, k, a)
  BY Parts
<1>tr. Tree(txn, Dead, k, a, r)
  BY Parts
<1>bu. Buffers(txn, buf, loc, k, a)
  BY Parts
<1>ps. ProcStates(ProcSts, DeadProcs, ProcTodos, ProcRefs, LiveNodes, AsyncTodos, pc, sfr)
  BY Parts
<1>tc. ThreadCounts(ThreadRefs, pc, loc)
  BY Parts
<1>pc. ProcCounts(Dead, ThreadRefs, ProcSts, ProcRefs, pc, loc)
  BY Parts
<1>1. ASSUME NEW t \in Txns, Live(t)
      PROVE  /\ txn[t].from # NoThread =>
                  ~thr[txn[t].from].is_dead /\ t \in OnStack(txn[t].from)
             /\ txn[t].to_proc # NoProc => proc[txn[t].to_proc].st # "freed"
             /\ txn[t].from_parent # NoTxn => Live(txn[t].from_parent)
             /\ txn[t].buffer => buf[t].st # "none"
  <2>1. k[t] # "none"
    BY <1>1, <1>po DEF Placed, PlaceOK, Live
  <2>2. CallOK(txn, Dead, r, t) /\ NestOK(txn, k, a, r, t)
    BY <1>tr DEF Tree
  <2>3. ASSUME txn[t].from # NoThread
        PROVE  ~thr[txn[t].from].is_dead /\ t \in OnStack(txn[t].from)
    <3>1. PICK u : u = txn[t].from
      OBVIOUS
    <3>2. u \in Threads
      BY <2>3, <3>1, <1>xt, TxnFields
    <3>3. Sync(txn, t) /\ u \notin Dead
      BY <2>2, <2>3, <3>1 DEF CallOK
    <3>4. t \in OnStack(u)
      <4>1. Mine(txn, k, a, u, t)
        BY <3>1, <3>3 DEF Mine
      <4>. QED BY <4>1, <3>2, <3>3, LiveStack
    <3>5. ~thr[u].is_dead
      BY <3>2, <3>3, <1>ty, ThreadViews
    <3>. QED BY <3>1, <3>4, <3>5
  <2>4. ASSUME txn[t].to_proc # NoProc PROVE proc[txn[t].to_proc].st # "freed"
    <3>1. PICK q : q = txn[t].to_proc
      OBVIOUS
    <3>2. q \in Procs
      BY <2>4, <3>1, <1>xt, TxnFields
    <3>3. ProcSts[q] # "freed"
      BY <2>1, <3>1, <3>2, TargetStays
    <3>4. ProcSts[q] = proc[q].st
      BY <3>2, <1>ty, ProcViews
    <3>. QED BY <3>1, <3>3, <3>4
  <2>5. ASSUME txn[t].from_parent # NoTxn PROVE Live(txn[t].from_parent)
    <3>1. Sync(txn, t)
      BY <2>2, <2>5 DEF CallOK
    <3>2. Sync(txn, txn[t].from_parent)
      BY <2>2, <2>5, <3>1 DEF NestOK
    <3>. QED BY <3>2 DEF Live, Sync
  <2>6. txn[t].buffer => buf[t].st # "none"
    BY <1>bu DEF Buffers, BufferOK, BufOK
  <2>. QED BY <2>3, <2>4, <2>5, <2>6
<1>2. ASSUME NEW t \in Txns, buf[t].transaction PROVE Live(t) /\ txn[t].buffer
  BY <1>2, <1>bu DEF Buffers, BufferOK, BufOK, Live
<1>3. ASSUME NEW th \in Threads, Carries(th) \/ pc[th] = "put"
      PROVE  /\ loc[th].target_thread # NoThread => ~ThreadFreed(loc[th].target_thread)
             /\ proc[loc[th].target_proc].st # "freed"
  <2>1. Holding(pc, th)
    BY <1>3 DEF Holding, Carries
  <2>2. CarryOK(txn, Dead, pc, loc, k, a, th)
    BY <1>ca DEF Carried
  <2>3. loc[th].target_proc \in Procs
    BY <2>1, <2>2 DEF CarryOK, Holds
  <2>4. proc[loc[th].target_proc].st # "freed"
    <3>1. PICK q \in Procs : q = loc[th].target_proc
      BY <2>3
    <3>2. ProcSts[q] = "freed" => ProcRefs[q] = 0
      BY <1>ps DEF ProcStates, ProcOK
    <3>3. ProcRefs[q] # 0
      BY <2>1, <3>1, <1>pc, ProcNotHeld
    <3>4. ProcSts[q] = proc[q].st
      BY <1>ty, ProcViews
    <3>. QED BY <3>1, <3>2, <3>3, <3>4
  <2>5. ASSUME loc[th].target_thread # NoThread PROVE ~ThreadFreed(loc[th].target_thread)
    <3>1. loc[th] \in Loc
      BY <1>ty DEF Typed
    <3>2. PICK u \in Threads : u = loc[th].target_thread
      BY <2>5, <3>1 DEF Loc
    <3>3. ThreadRefs[u] # 0
      BY <2>1, <3>2, <1>tc, NotHeld
    <3>4. ThreadRefs[u] = thr[u].tmp_ref
      BY <1>ty, ThreadViews
    <3>. QED BY <3>2, <3>3, <3>4 DEF ThreadFreed
  <2>. QED BY <2>4, <2>5
<1>. QED BY <1>1, <1>2, <1>3 DEF NoDangling

\* One place answers for a transaction.
LEMMA OwnedOnceHolds ==
  ASSUME NEW k, NEW a, NEW r, Inv(k, a, r)
  PROVE  OwnedOnce
<1>po. Placed(txn, Dead, k, a)
  BY Parts
<1>1. SUFFICES ASSUME NEW t \in Txns, Live(t)
               PROVE  \E x \in Places(t) : Places(t) = {x}
  BY DEF OwnedOnce
<1>2. k[t] # "none"
  BY <1>1, <1>po DEF Placed, PlaceOK, Live
<1>3. Places(t) = {<<k[t], a[t]>>}
  BY <1>2, PlacesOf
<1>. QED BY <1>3

\* One-way calls are handled one at a time.
LEMMA OnewaysHold ==
  ASSUME NEW k, NEW a, NEW r, Inv(k, a, r)
  PROVE  OnewaySerialised
<1>ty. Typed /\ bug = FALSE
  BY Parts
<1>ow. Oneways(buf, DeadProcs, LiveNodes, AsyncNodes, AsyncTodos, pc, loc)
  BY Parts
<1>1. SUFFICES ASSUME NEW p \in Procs, node[p].live
               PROVE  /\ \A s, t \in ActiveAsync(p) : s = t
                      /\ node[p].async_todo # <<>> => ActiveAsync(p) # {}
  BY DEF OnewaySerialised
<1>2. AsyncTodos[p] = node[p].async_todo /\ p \in LiveNodes
  BY <1>1, <1>ty, NodeViews
<1>3. ActiveAsync(p) = Active(buf, AsyncTodos, pc, loc, p)
  BY <1>2 DEF ActiveAsync, Active
<1>4. OnewayOK(buf, DeadProcs, AsyncNodes, AsyncTodos, pc, loc, p)
  BY <1>2, <1>ow DEF Oneways
<1>. QED BY <1>2, <1>3, <1>4 DEF OnewayOK

\* process_todo tells the truth.
LEMMA FlagsHold ==
  ASSUME NEW k, NEW a, NEW r, Inv(k, a, r)
  PROVE  TodoFlagTrue
<1>ty. Typed /\ bug = FALSE
  BY Parts
<1>fl. Flags(txn, Dead, Stacks, Todos, Flagged)
  BY Parts
<1>1. SUFFICES ASSUME NEW th \in LiveThreads
               PROVE  /\ thr[th].process_todo => thr[th].todo # <<>>
                      /\ thr[th].todo # <<>> /\ ~thr[th].process_todo =>
                           /\ thr[th].todo = <<Item("complete")>>
                           /\ thr[th].stack # NoTxn /\ txn[thr[th].stack].from = th
  BY DEF TodoFlagTrue
<1>2. th \in Threads
  BY DEF LiveThreads
<1>3. th \notin Dead
  BY <1>1, <1>2, <1>ty, LiveNotDead
<1>4. FlagOK(txn, Stacks, Todos, Flagged, th)
  BY <1>2, <1>3, <1>fl DEF Flags
<1>5. /\ Stacks[th] = thr[th].stack /\ Todos[th] = thr[th].todo
      /\ th \in Flagged <=> thr[th].process_todo
  BY <1>2, <1>ty, ThreadViews
<1>. QED BY <1>4, <1>5 DEF FlagOK

\* What IInv says of the program in one state.
LEMMA InvSound ==
  IInv => StacksSound /\ TxnsSound /\ OnewaySerialised /\ TodoFlagTrue
<1>1. SUFFICES ASSUME NEW k, NEW a, NEW r, Inv(k, a, r)
               PROVE  StacksSound /\ TxnsSound /\ OnewaySerialised /\ TodoFlagTrue
  BY DEF IInv
<1>2. bug = FALSE
  BY <1>1, Parts
<1>3. StacksSound
  BY <1>1, <1>2, TypesHold, StacksHold DEF StacksSound, NoBug
<1>4. TxnsSound
  BY <1>1, OwnedOnceHolds, NothingDangles DEF TxnsSound
<1>. QED BY <1>1, <1>3, <1>4, OnewaysHold, FlagsHold

\* In every state binder.c can reach there are k, a and r for which Inv holds.
THEOREM Invariance == Spec => []IInv
<1>. QED BY InitInv, StepInv, PTL DEF Spec

\* Whatever threads and processes there are, and however calls, replies,
\* failures, exits and releases interleave: no BUG_ON about a transaction
\* stack fires, and on every live thread's stack the calls it waits for
\* (binder_transaction pushes them) and the calls it serves
\* (binder_thread_read pushes those) alternate, so binder_thread_release and
\* the reply path find on top what they expect.
THEOREM StacksCorrect == Spec => []StacksSound
<1>. QED BY Invariance, InvSound, PTL

\* No transaction is lost and none is handled twice: while it is allocated
\* exactly one queue, thread or failed reply answers for it, and neither it,
\* its buffer nor a thread between two steps of binder_transaction points to
\* a transaction, thread, process or buffer that binder_free_transaction,
\* binder_free_thread, binder_free_proc or binder_free_buf has freed.
THEOREM TxnsCorrect == Spec => []TxnsSound
<1>. QED BY Invariance, InvSound, PTL

\* One-way calls to a node of a process that is not being torn down are
\* handled one at a time, and a non-empty async_todo has one under way whose
\* BC_FREE_BUFFER (binder_free_buf) will take the next from the list.
THEOREM OnewaysCorrect == Spec => []OnewaySerialised
<1>. QED BY Invariance, InvSound, PTL

\* process_todo is never set on an empty list, and is clear on a list with
\* work only while that work is the TRANSACTION_COMPLETE that
\* binder_enqueue_deferred_thread_work_ilocked leaves for the reply to wake:
\* a reader never spins, and never sleeps on work it should take.
THEOREM TodoFlagCorrect == Spec => []TodoFlagTrue
<1>. QED BY Invariance, InvSound, PTL
=============================================================================
