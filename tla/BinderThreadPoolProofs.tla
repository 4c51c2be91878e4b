----------------------- MODULE BinderThreadPoolProofs -----------------------
(***************************************************************************)
(* What the thread pool keeps, for every size of the pool and every number *)
(* of threads and of pieces of work.                                       *)
(*                                                                         *)
(* The first part is the driver's count of the threads it asks for.        *)
(* RequestLimit alone is not inductive: a second configuration could lower *)
(* max_threads below what has been asked for.  What rules it out is that   *)
(* nothing can have been asked for before the one configuration, because   *)
(* max_threads is still the 0 of open_driver.                              *)
(*                                                                         *)
(* The second part is the size of the pool, its growth and its wakeups.    *)
(* Its invariant follows the one request that may be open from the thread  *)
(* that is to start another to the one that has not registered yet, and    *)
(* says which threads may be on the list of those that wait.               *)
(*                                                                         *)
(* The third is about HwThreadCount, for every finite pool, any number of  *)
(* callers of blockUntilThreadAvailable and every maximum.                 *)
(***************************************************************************)
EXTENDS BinderThreadPool, FiniteSetTheorems, SequenceTheorems, TLAPS

\* A record with the fields of binder_proc.
HasFields(P) ==
  P = [max_threads |-> P.max_threads, requested_threads |-> P.requested_threads,
       requested_threads_started |-> P.requested_threads_started,
       todo |-> P.todo, waiting_threads |-> P.waiting_threads]

\* The part of the type invariant that the counts rest on.
Shape ==
  /\ HasFields(proc)
  /\ proc.max_threads \in Nat
  /\ proc.requested_threads \in Nat
  /\ proc.requested_threads_started \in Nat
  /\ state \in [configured : BOOLEAN, mThreadPoolStarted : BOOLEAN,
                mSpawnThreadOnStart : BOOLEAN, mDriverFD : BOOLEAN,
                mIsPollingThread : BOOLEAN, closed : BOOLEAN, flushed : BOOLEAN]

ConfiguredOnce == ~state.configured => proc.max_threads = 0

IInv == Shape /\ RequestLimit /\ ConfiguredOnce

\* P and Q agree on the three counts.
SameCounts(P, Q) ==
  /\ HasFields(Q)
  /\ Q.max_threads = P.max_threads
  /\ Q.requested_threads = P.requested_threads
  /\ Q.requested_threads_started = P.requested_threads_started

\* A step that leaves the counts and the configuration alone.
CountsKept == SameCounts(proc, proc') /\ state' = state

(* Such a step preserves the invariant.                                    *)
LEMMA KeptIsSafe == IInv /\ CountsKept => IInv'
BY DEF IInv, CountsKept, SameCounts, Shape, RequestLimit, ConfiguredOnce

(* Configuring the pool for the first time: what                           *)
(* setThreadPoolConfiguration leaves to the driver is not negative.        *)
LEMMA KernelMaxThreadsNat == KernelMaxThreads \in Nat
BY PoolAssumption DEF KernelMaxThreads, SpawnsOnStart

(* A process that is opened has asked for nothing.                         *)
LEMMA InitCounts == Init => IInv
BY DEF Init, IInv, Shape, RequestLimit, ConfiguredOnce, HasFields

(* setThreadPoolConfiguration, called directly or by setupPolling, sets    *)
(* max_threads while both other counts are 0.                              *)
LEMMA ConfigurationCounts ==
  ASSUME IInv, SetThreadPoolConfiguration \/ SetupPolling
  PROVE  IInv'
<1>1. SpawnsOnStart \in BOOLEAN
  BY DEF SpawnsOnStart
<1>2. PICK n \in Nat, spawn, poll \in BOOLEAN :
        /\ proc' = [proc EXCEPT !.max_threads = n]
        /\ state' = [state EXCEPT !.configured = TRUE, !.mSpawnThreadOnStart = spawn,
                                  !.mIsPollingThread = poll]
  <2>1. CASE SetThreadPoolConfiguration
    <3>1. state' = [state EXCEPT !.configured = TRUE, !.mSpawnThreadOnStart = SpawnsOnStart,
                                 !.mIsPollingThread = state.mIsPollingThread]
      BY <2>1 DEF SetThreadPoolConfiguration, IInv, Shape
    <3>2. state.mIsPollingThread \in BOOLEAN
      BY DEF IInv, Shape
    <3> QED BY <2>1, <3>1, <3>2, <1>1, KernelMaxThreadsNat DEF SetThreadPoolConfiguration
  <2>2. CASE SetupPolling
    BY <2>2 DEF SetupPolling
  <2> QED BY <2>1, <2>2
<1>3. proc.requested_threads = 0 /\ proc.requested_threads_started = 0
  <2>1. ~state.configured
    BY DEF SetThreadPoolConfiguration, SetupPolling
  <2> QED BY <2>1 DEF IInv, ConfiguredOnce, RequestLimit, Shape
<1>4. Shape' /\ state'.configured
  BY <1>2 DEF IInv, Shape, HasFields
<1>5. RequestLimit'
  BY <1>2, <1>3 DEF IInv, RequestLimit, Shape, HasFields
<1> QED BY <1>4, <1>5 DEF IInv, ConfiguredOnce

(* Taking a thread off the list of waiting threads leaves the counts.      *)
LEMMA TakenCounts ==
  ASSUME NEW P, HasFields(P)
  PROVE  SameCounts(P, Taken(P))
BY DEF Taken, HasFields, SameCounts

(* So does putting work on the list of the process.                        *)
LEMMA TodoCounts ==
  ASSUME NEW P, HasFields(P), NEW list
  PROVE  SameCounts(P, [P EXCEPT !.todo = list])
BY DEF HasFields, SameCounts

(* Work that arrives leaves the counts.                                    *)
LEMMA ArrivalCounts ==
  ASSUME IInv, ArriveProc \/ \E w \in {"sync", "oneway"} : Arrive(w)
  PROVE  CountsKept
<1>1. CASE ArriveProc
  <2> DEFINE P == [proc EXCEPT !.todo = Append(@, "oneway")]
  <2>1. SameCounts(proc, P)
    BY TodoCounts DEF IInv, Shape
  <2>2. proc' = Taken(P) /\ state' = state
    BY <1>1 DEF ArriveProc
  <2> HIDE DEF P
  <2>3. SameCounts(P, Taken(P))
    BY <2>1, TakenCounts DEF SameCounts
  <2> QED BY <2>1, <2>2, <2>3 DEF CountsKept, SameCounts
<1>2. CASE \E w \in {"sync", "oneway"} : Arrive(w)
  <2>1. PICK w \in {"sync", "oneway"} : Arrive(w)
    BY <1>2
  <2>2. CASE Selected(proc) = 0
    BY <2>1, <2>2 DEF Arrive, CountsKept, IInv, Shape, HasFields, SameCounts
  <2>3. CASE Selected(proc) # 0
    BY <2>1, <2>3, TakenCounts DEF Arrive, CountsKept, IInv, Shape
  <2> QED BY <2>2, <2>3
<1> QED BY <1>1, <1>2

(* The end of an ioctl may take a thread off the list and no more.         *)
LEMMA IoctlEndCounts ==
  ASSUME IInv, NEW th \in Threads, IoctlEnd(th)
  PROVE  CountsKept
<1>1. (proc' = Taken(proc) \/ proc' = proc) /\ state' = state
  BY DEF IoctlEnd
<1> QED BY <1>1, TakenCounts DEF CountsKept, SameCounts, IInv, Shape

(* A thread that registers moves one from requested to started.            *)
LEMMA IoctlWriteCounts ==
  ASSUME IInv, NEW th \in Threads, IoctlWrite(th)
  PROVE  IInv'
<1>1. state' = state
  BY DEF IoctlWrite
<1>2. CASE proc' = proc
  BY <1>1, <1>2 DEF IInv, Shape, RequestLimit, ConfiguredOnce
<1>3. CASE /\ proc.requested_threads > 0
           /\ proc' = [proc EXCEPT !.requested_threads = @ - 1,
                                   !.requested_threads_started = @ + 1]
  <2>1. /\ HasFields(proc')
        /\ proc'.max_threads = proc.max_threads
        /\ proc'.requested_threads = proc.requested_threads - 1
        /\ proc'.requested_threads_started = proc.requested_threads_started + 1
    BY <1>3 DEF IInv, Shape, HasFields
  <2>2. Shape'
    BY <1>1, <1>3, <2>1 DEF IInv, Shape
  <2>3. RequestLimit' /\ ConfiguredOnce'
    BY <1>1, <2>1 DEF IInv, Shape, RequestLimit, ConfiguredOnce
  <2> QED BY <2>2, <2>3 DEF IInv
<1> QED BY <1>2, <1>3 DEF IoctlWrite

(* The request for a thread is made only below the limit.                  *)
LEMMA ReadDoneCounts ==
  ASSUME IInv, NEW th \in Threads, ReadDone(th)
  PROVE  IInv'
<1>1. state' = state
  BY DEF ReadDone
<1>2. CASE AsksForThread(th)
  <2>1. proc' = [proc EXCEPT !.requested_threads = @ + 1]
    BY <1>2 DEF ReadDone
  <2> QED
    BY <1>1, <1>2, <2>1
    DEF AsksForThread, IInv, Shape, RequestLimit, ConfiguredOnce, HasFields
<1>3. CASE ~AsksForThread(th)
  BY <1>1, <1>3 DEF ReadDone, IInv, Shape, RequestLimit, ConfiguredOnce
<1> QED BY <1>2, <1>3

(* Going to sleep, waking and taking work change only the lists.           *)
LEMMA ListCounts ==
  ASSUME IInv, NEW th \in Threads,
         WaitForWork(th) \/ Interrupted(th) \/ ReadWork(th)
  PROVE  CountsKept
<1>1. CASE WaitForWork(th)
  BY <1>1 DEF WaitForWork, CountsKept, IInv, Shape, HasFields, SameCounts
<1>2. CASE Interrupted(th)
  BY <1>2 DEF Interrupted, CountsKept, IInv, Shape, HasFields, SameCounts
<1>3. CASE ReadWork(th)
  BY <1>3 DEF ReadWork, CountsKept, IInv, Shape, HasFields, SameCounts
<1> QED BY <1>1, <1>2, <1>3

(* The other steps of a thread leave the process alone.                    *)
LEMMA ThreadCounts ==
  ASSUME IInv, NEW th \in Threads,
         \/ JoinThreadPool(th) \/ TalkWithDriver(th) \/ IoctlRefused(th)
         \/ ReadRetry(th) \/ ReadNothing(th) \/ SpawnLooper(th)
         \/ ExecuteCommand(th) \/ FinishCommand(th) \/ Poll(th)
  PROVE  CountsKept
<1>1. UNCHANGED <<proc, state>>
  BY DEF JoinThreadPool, TalkWithDriver, IoctlRefused, ReadRetry, ReadNothing,
         SpawnLooper, ExecuteCommand, FinishCommand, Poll
<1> QED BY <1>1 DEF CountsKept, SameCounts, IInv, Shape

(* Neither starting the pool nor stopping it changes what the driver       *)
(* counts, nor whether it was configured.                                  *)
LEMMA ProcessCounts ==
  ASSUME IInv, StartThreadPool \/ StopProcess \/ CloseDriver \/ DeferredFlush
  PROVE  IInv'
<1>1. proc' = proc
  BY DEF StartThreadPool, StopProcess, CloseDriver, DeferredFlush
<1>2. \/ state' = [state EXCEPT !.mThreadPoolStarted = TRUE]
      \/ state' = [state EXCEPT !.mDriverFD = FALSE]
      \/ state' = [state EXCEPT !.closed = TRUE]
      \/ state' = [state EXCEPT !.flushed = TRUE]
  BY DEF StartThreadPool, StopProcess, CloseDriver, DeferredFlush
<1> QED BY <1>1, <1>2 DEF IInv, Shape, RequestLimit, ConfiguredOnce

(* Every step preserves the invariant.                                     *)
LEMMA NextCounts == IInv /\ [Next]_vars => IInv'
<1> SUFFICES ASSUME IInv, [Next]_vars PROVE IInv'
  OBVIOUS
<1>1. CASE ProcessSteps \/ StopProcess
  BY <1>1, ConfigurationCounts, ProcessCounts DEF ProcessSteps
<1>2. CASE ArriveProc \/ \E w \in {"sync", "oneway"} : Arrive(w)
  BY <1>2, ArrivalCounts, KeptIsSafe
<1>3. CASE \E th \in Threads : ThreadSteps(th) \/ Interrupted(th)
  <2>1. PICK th \in Threads : ThreadSteps(th) \/ Interrupted(th)
    BY <1>3
  <2>2. CASE IoctlWrite(th) \/ ReadDone(th)
    BY <2>2, IoctlWriteCounts, ReadDoneCounts
  <2>3. CASE IoctlEnd(th) \/ WaitForWork(th) \/ Interrupted(th) \/ ReadWork(th)
    BY <2>3, IoctlEndCounts, ListCounts, KeptIsSafe
  <2>4. CASE \/ JoinThreadPool(th) \/ TalkWithDriver(th) \/ IoctlRefused(th)
             \/ ReadRetry(th) \/ ReadNothing(th) \/ SpawnLooper(th)
             \/ ExecuteCommand(th) \/ FinishCommand(th) \/ Poll(th)
    BY <2>4, ThreadCounts, KeptIsSafe
  <2> QED BY <2>1, <2>2, <2>3, <2>4 DEF ThreadSteps
<1>4. CASE UNCHANGED vars
  BY <1>4 DEF vars, IInv, Shape, HasFields, RequestLimit, ConfiguredOnce
<1> QED BY <1>1, <1>2, <1>3, <1>4 DEF Next

(* At most one request for a thread is open, and the driver never asks for *)
(* more threads than setThreadPoolConfiguration allowed it, whatever the   *)
(* sizes and however threads, work and signals interleave.                 *)
THEOREM RequestsLimited == Spec => []RequestLimit
<1>1. IInv => RequestLimit
  BY DEF IInv
<1> QED BY InitCounts, NextCounts, <1>1, PTL DEF Spec
-----------------------------------------------------------------------------
(* The lists.  A thread is put on the list of waiting threads at most      *)
(* once, and is on it only while it sleeps.                                *)

ThreadRec ==
  [joined : BOOLEAN, invalid : BOOLEAN, waiting : BOOLEAN,
   poll : BOOLEAN, looper_need_return : BOOLEAN, todo : Seq(Items),
   serving : BOOLEAN, wait_for_proc_work : BOOLEAN, intr : BOOLEAN]
IoRec == [isMain : BOOLEAN, out : {"join", "reply", "none"},
          spawn : BOOLEAN, cmd : Items \cup {"none"}]
ProcRec == [max_threads : Nat, requested_threads : Nat,
            requested_threads_started : Nat,
            todo : Seq(Items), waiting_threads : Seq(Threads)]

\* A list of threads without repetition, the threads of S and no other.
ListOf(w, S) ==
  /\ w \in Seq(Threads)
  /\ IsInjective(w)
  /\ \A i \in DOMAIN w : w[i] \in S

(* Threads and the caller's name.                                          *)
LEMMA ThreadsFacts ==
  /\ Threads \subseteq Nat /\ 0 \notin Threads /\ Caller \in Threads
  /\ IsFiniteSet(Threads)
<1>1. IsFiniteSet(1 .. NThreads)
  BY BoundAssumption, FS_Interval
<1> QED BY <1>1, BoundAssumption DEF Threads, Caller

(* list_del of the head (binder_select_thread_ilocked).                    *)
LEMMA TailList ==
  ASSUME NEW w, NEW S, ListOf(w, S), w # <<>>
  PROVE  Head(w) \in S /\ Head(w) \in Threads /\ ListOf(Tail(w), S)
<1>1. w \in Seq(Threads) /\ Len(w) > 0 /\ DOMAIN w = 1 .. Len(w)
  BY DEF ListOf
<1>2. Tail(w) \in Seq(Threads) /\ Len(Tail(w)) = Len(w) - 1 /\ Head(w) = w[1]
  BY <1>1
<1>3. \A i \in 1 .. Len(Tail(w)) : Tail(w)[i] = w[i + 1] /\ i + 1 \in DOMAIN w
  BY <1>1, <1>2
<1>4. DOMAIN Tail(w) = 1 .. Len(Tail(w)) /\ 1 \in DOMAIN w
  BY <1>1, <1>2
<1>5. IsInjective(Tail(w))
  BY <1>1, <1>2, <1>3, <1>4 DEF ListOf, IsInjective
<1> QED BY <1>1, <1>2, <1>3, <1>4, <1>5 DEF ListOf

(* list_del_init of a thread wherever it is on the list                    *)
(* (binder_wait_for_work): it is on it no more.                            *)
LEMMA WithoutList ==
  ASSUME NEW S, ListOf(proc.waiting_threads, S), NEW th \in Threads
  PROVE  /\ ListOf(WaitingWithout(th), S \ {th})
         /\ proc.waiting_threads = <<>> => WaitingWithout(th) = <<>>
<1> DEFINE w == proc.waiting_threads
           on == {i \in DOMAIN w : w[i] = th}
<1>1. w \in Seq(Threads) /\ Len(w) \in Nat /\ DOMAIN w = 1 .. Len(w)
  BY DEF ListOf
<1>2. CASE on = {}
  <2>1. WaitingWithout(th) = w
    BY <1>2 DEF WaitingWithout
  <2> QED BY <1>2, <2>1 DEF ListOf
<1>3. CASE on # {}
  <2>1. PICK i \in on : WaitingWithout(th) = RemoveAt(w, i)
    BY <1>3 DEF WaitingWithout
  <2> DEFINE r == RemoveAt(w, i)
  <2>2. i \in 1 .. Len(w) /\ w[i] = th
    BY <1>1, <2>1
  <2>3. /\ r \in Seq(Threads) /\ Len(r) = Len(w) - 1
        /\ \A j \in 1 .. Len(w) - 1 : r[j] = IF j < i THEN w[j] ELSE w[j + 1]
    <3> DEFINE a == SubSeq(w, 1, i - 1)
               b == SubSeq(w, i + 1, Len(w))
    <3>1. /\ a \in Seq(Threads) /\ Len(a) = i - 1
          /\ \A j \in 1 .. i - 1 : a[j] = w[j]
      BY <1>1, <2>2
    <3>2. /\ b \in Seq(Threads) /\ Len(b) = Len(w) - i
          /\ \A j \in 1 .. Len(w) - i : b[j] = w[j + i]
      BY <1>1, <2>2
    <3> HIDE DEF a, b
    <3>3. /\ a \o b \in Seq(Threads) /\ Len(a \o b) = Len(w) - 1
          /\ \A j \in 1 .. Len(w) - 1 :
               (a \o b)[j] = IF j < i THEN w[j] ELSE w[j + 1]
      <4>1. /\ a \o b \in Seq(Threads) /\ Len(a \o b) = Len(w) - 1
            /\ \A j \in 1 .. Len(w) - 1 :
                 (a \o b)[j] = IF j <= Len(a) THEN a[j] ELSE b[j - Len(a)]
        <5>1. Len(a) + Len(b) = Len(w) - 1 /\ Len(a) \in Nat /\ Len(b) \in Nat
          BY <1>1, <2>2, <3>1, <3>2
        <5>2. /\ a \o b \in Seq(Threads) /\ Len(a \o b) = Len(a) + Len(b)
              /\ \A j \in 1 .. Len(a) + Len(b) :
                   (a \o b)[j] = IF j <= Len(a) THEN a[j] ELSE b[j - Len(a)]
          BY <3>1, <3>2, ConcatProperties
        <5> QED BY <5>1, <5>2
      <4>2. ASSUME NEW j \in 1 .. Len(w) - 1, ~(j < i)
            PROVE  (a \o b)[j] = w[j + 1]
        <5>1. j - (i - 1) \in 1 .. Len(w) - i /\ (j - (i - 1)) + i = j + 1
          BY <4>2, <1>1, <2>2
        <5>2. (a \o b)[j] = b[j - (i - 1)]
          BY <4>1, <4>2, <3>1, <1>1, <2>2
        <5>3. b[j - (i - 1)] = w[(j - (i - 1)) + i]
          BY <5>1, <3>2
        <5> QED BY <5>1, <5>2, <5>3
      <4>3. ASSUME NEW j \in 1 .. Len(w) - 1, j < i
            PROVE  (a \o b)[j] = w[j]
        BY <4>1, <4>3, <3>1, <1>1, <2>2
      <4> QED BY <4>1, <4>2, <4>3
    <3> QED BY <3>3 DEF RemoveAt, a, b
  <2>4. DOMAIN r = 1 .. Len(w) - 1
    BY <2>3
  <2> HIDE DEF r
  <2>5. \A j, k \in 1 .. Len(w) : w[j] = w[k] => j = k
    BY <1>1 DEF ListOf, IsInjective
  <2>6. IsInjective(r)
    <3> SUFFICES ASSUME NEW j \in 1 .. Len(w) - 1, NEW k \in 1 .. Len(w) - 1, r[j] = r[k]
                 PROVE  j = k
      BY <2>4 DEF IsInjective
    <3> DEFINE at(n) == IF n < i THEN n ELSE n + 1
    <3>1. at(j) \in 1 .. Len(w) /\ at(k) \in 1 .. Len(w)
      BY <1>1, <2>2
    <3>2. r[j] = w[at(j)] /\ r[k] = w[at(k)]
      BY <2>3
    <3>3. at(j) = at(k)
      BY <3>1, <3>2, <2>5
    <3> QED BY <3>3, <1>1, <2>2
  <2>7. \A j \in DOMAIN r : r[j] \in S \ {th}
    <3> SUFFICES ASSUME NEW j \in 1 .. Len(w) - 1 PROVE r[j] \in S \ {th}
      BY <2>4
    <3> DEFINE n == IF j < i THEN j ELSE j + 1
    <3>1. n \in 1 .. Len(w) /\ n # i
      BY <1>1, <2>2
    <3>2. r[j] = w[n]
      BY <2>3
    <3>3. w[n] # th
      BY <3>1, <2>2, <2>5
    <3> QED BY <3>1, <3>2, <3>3, <1>1 DEF ListOf
  <2>8. w # <<>>
    BY <2>2
  <2> QED BY <2>1, <2>3, <2>6, <2>7, <2>8 DEF ListOf, r
<1> QED BY <1>2, <1>3

(* list_add of a thread that is not on the list.                           *)
LEMMA PutList ==
  ASSUME NEW S, NEW w, NEW th \in Threads, ListOf(w, S \ {th})
  PROVE  ListOf(<<th>> \o w, S \cup {th})
<1> DEFINE r == <<th>> \o w
<1>1. w \in Seq(Threads) /\ Len(w) \in Nat /\ DOMAIN w = 1 .. Len(w)
  BY DEF ListOf
<1>2. /\ r \in Seq(Threads) /\ Len(r) = Len(w) + 1 /\ DOMAIN r = 1 .. Len(w) + 1
      /\ r[1] = th /\ \A j \in 2 .. Len(w) + 1 : r[j] = w[j - 1]
  BY <1>1
<1> HIDE DEF r
<1>3. \A j \in 2 .. Len(w) + 1 : r[j] \in S \ {th} /\ j - 1 \in 1 .. Len(w)
  BY <1>1, <1>2 DEF ListOf
<1>4. \A j, k \in 1 .. Len(w) : w[j] = w[k] => j = k
  BY <1>1 DEF ListOf, IsInjective
<1>5. \A j, k \in 1 .. Len(w) + 1 : r[j] = r[k] => j = k
  <2> SUFFICES ASSUME NEW j \in 1 .. Len(w) + 1, NEW k \in 1 .. Len(w) + 1, r[j] = r[k]
               PROVE  j = k
    OBVIOUS
  <2>1. CASE j = 1 \/ k = 1
    BY <2>1, <1>1, <1>2, <1>3
  <2>2. CASE j # 1 /\ k # 1
    <3>1. w[j - 1] = w[k - 1] /\ j - 1 \in 1 .. Len(w) /\ k - 1 \in 1 .. Len(w)
      BY <2>2, <1>1, <1>2, <1>3
    <3>2. j - 1 = k - 1
      BY <3>1, <1>4
    <3> QED BY <3>2
  <2> QED BY <2>1, <2>2
<1>6. \A j \in 1 .. Len(w) + 1 : r[j] \in S \cup {th}
  BY <1>1, <1>2, <1>3
<1> QED BY <1>2, <1>5, <1>6 DEF ListOf, IsInjective, r
-----------------------------------------------------------------------------
(* The inductive invariant.                                                *)

Live == {th \in Threads : pc[th] # "none"}

\* Threads that have passed the test of AsksForThread and are not back yet.
Past == {th \in Threads : \/ pc[th] \in {"cmds", "exec"}
                          \/ pc[th] = "tail" /\ ~thr[th].intr}

\* Sleeping threads that may be on the list.
Sleepers == {th \in Threads : pc[th] = "sleep" /\ thr[th].wait_for_proc_work}

\* What holds of each thread.  The part about "loop" is why ReadNothing never
\* goes back to sleep past work of the process.
ThreadOK(th) ==
  /\ thr[th].intr => pc[th] = "tail"
  /\ pc[th] \in InDriver \cup {"cmds", "exec", "topoll", "poll"} => thr[th].joined
  /\ io[th].out # "join" => thr[th].joined
  /\ io[th].out = "join" /\ ~io[th].isMain => ~thr[th].joined
  /\ io[th].spawn => thr[th].joined
  /\ pc[th] = "sleep" => thr[th].waiting
  /\ pc[th] = "sleep" /\ ~awake[th] =>
       thr[th].todo = <<>> /\ ~thr[th].looper_need_return
  /\ pc[th] = "loop" /\ ~thr[th].wait_for_proc_work =>
       thr[th].todo # <<>> \/ thr[th].looper_need_return \/ io[th].cmd # "none"
  /\ ~thr[th].invalid
  /\ pc[th] = "none" => io[th] = NewIo(TRUE) /\ ~thr[th].joined

Unconfigured ==
  ~state.configured =>
    /\ \A th \in Threads : /\ pc[th] \in {"none", "caller"}
                           /\ pc[th] = "caller" => th = Caller /\ CallerJoins
                           /\ io[th] = NewIo(TRUE) /\ ~thr[th].joined
    /\ proc.waiting_threads = <<>>
    /\ ~state.mThreadPoolStarted /\ ~state.mIsPollingThread

Polling ==
  state.mIsPollingThread =>
    /\ proc.max_threads = 0 /\ Polls /\ state.configured /\ ~state.mThreadPoolStarted
    /\ \A th \in Threads \ {Caller} : pc[th] = "none"

Configured ==
  state.configured /\ ~state.mIsPollingThread =>
    /\ state.mSpawnThreadOnStart = SpawnsOnStart
    /\ proc.max_threads = KernelMaxThreads

\* A request that is open: somebody is to start a thread, or has started one
\* that has not registered.
Token(th) == io[th].spawn \/ (~io[th].isMain /\ ~thr[th].joined)
Tokens ==
  /\ \A th \in Threads : Token(th) => proc.requested_threads = 1
  /\ \A th, u \in Threads : Token(th) /\ Token(u) => th = u

\* How many threads there may be: the caller, the one of startThreadPool, those
\* that registered, and the one asked for once it has been started.
One(b) == IF b THEN 1 ELSE 0
Starting == proc.requested_threads = 1 /\ \A th \in Threads : ~io[th].spawn
Size ==
  ~state.mIsPollingThread =>
    Cardinality(Live) <= One(CallerJoins) + One(state.mThreadPoolStarted /\ SpawnsOnStart)
                         + proc.requested_threads_started + One(Starting)

Growth ==
  proc.requested_threads = 0 /\ proc.requested_threads_started < proc.max_threads =>
    Past = {} \/ \E th \in Live : th \notin Past

Wake == proc.todo # <<>> /\ proc.waiting_threads # <<>> => Responsible # {}

Counted == Unconfigured /\ Polling /\ Configured /\ Tokens /\ Size /\ Growth
Sound ==
  /\ TypeOK /\ (\A th \in Threads : ThreadOK(th))
  /\ ListOf(proc.waiting_threads, Sleepers) /\ Counted /\ Wake
Inv == IInv /\ Sound

(* The type invariant, by variable.                                        *)
LEMMA Types ==
  TypeOK <=> /\ proc \in ProcRec /\ IsInjective(proc.waiting_threads)
             /\ thr \in [Threads -> ThreadRec] /\ pc \in [Threads -> Places]
             /\ awake \in [Threads -> BOOLEAN] /\ io \in [Threads -> IoRec]
             /\ state \in [configured : BOOLEAN, mThreadPoolStarted : BOOLEAN,
                           mSpawnThreadOnStart : BOOLEAN, mDriverFD : BOOLEAN,
                           mIsPollingThread : BOOLEAN, closed : BOOLEAN,
                           flushed : BOOLEAN]
             /\ work \in [arrived : 0 .. MaxWork, handled : Nat]
BY DEF TypeOK, ProcRec, ThreadRec, IoRec

\* A step of th leaves the other threads alone; it may wake them.
Frame(th) ==
  \A u \in Threads \ {th} :
    /\ pc'[u] = pc[u] /\ thr'[u] = thr[u] /\ io'[u] = io[u]
    /\ awake[u] => awake'[u]

(* What holds of the others still does.                                    *)
LEMMA FrameOK ==
  ASSUME \A u \in Threads : ThreadOK(u), NEW th \in Threads, Frame(th), ThreadOK(th)'
  PROVE  \A u \in Threads : ThreadOK(u)'
<1> SUFFICES ASSUME NEW u \in Threads, u # th PROVE ThreadOK(u)'
  OBVIOUS
<1>1. /\ pc'[u] = pc[u] /\ thr'[u] = thr[u] /\ io'[u] = io[u]
      /\ awake[u] => awake'[u]
  BY DEF Frame
<1>2. ThreadOK(u)
  OBVIOUS
<1> QED BY <1>1, <1>2 DEF ThreadOK

\* A step of th, in a pool that is set up, that neither asks for a thread nor
\* brings one.
Quiet(th) ==
  /\ Frame(th) /\ state' = state /\ state.configured
  /\ proc'.max_threads = proc.max_threads
  /\ proc'.requested_threads = proc.requested_threads
  /\ proc'.requested_threads_started = proc.requested_threads_started
  /\ pc[th] # "none" /\ pc'[th] # "none"
  /\ io'[th].spawn = io[th].spawn /\ io'[th].isMain = io[th].isMain
  /\ thr[th].joined => thr'[th].joined
  /\ th \in Past' => th \in Past

(* Such a step leaves the pool in its bounds.                              *)
LEMMA QuietCounted ==
  ASSUME Counted, NEW th \in Threads, Quiet(th)
  PROVE  Counted'
<1>1. Unconfigured' /\ Configured'
  BY DEF Quiet, Counted, Unconfigured, Configured
<1>2. Polling'
  BY DEF Quiet, Frame, Counted, Polling
<1>3. \A u \in Threads : Token(u)' => Token(u)
  BY DEF Quiet, Frame, Token
<1>4. Tokens'
  BY <1>3 DEF Quiet, Counted, Tokens
<1>5. Live' = Live
  BY DEF Quiet, Frame, Live
<1>6. (\A u \in Threads : ~io[u].spawn) <=> (\A u \in Threads : ~io'[u].spawn)
  BY DEF Quiet, Frame
<1>7. Size'
  <2>1. Starting' <=> Starting
    BY <1>6 DEF Starting, Quiet
  <2> QED BY <2>1, <1>5 DEF Quiet, Counted, Size, One
<1>8. \A u \in Threads \ {th} : u \in Past' <=> u \in Past
  BY DEF Quiet, Frame, Past
<1>9. Growth'
  <2>1. th \in Live
    BY DEF Quiet, Live
  <2>2. Past' \subseteq Past
    BY <1>8 DEF Quiet, Past
  <2>3. Growth
    BY DEF Counted
  <2>4. proc'.requested_threads = proc.requested_threads
        /\ proc'.requested_threads_started = proc.requested_threads_started
        /\ proc'.max_threads = proc.max_threads
    BY DEF Quiet
  <2> QED BY <2>1, <2>2, <2>3, <2>4, <1>5 DEF Growth
<1> QED BY <1>1, <1>2, <1>4, <1>7, <1>9 DEF Counted
(* Work of the process that waits keeps somebody up, unless th was the one *)
(* and is not any more.                                                    *)
LEMMA FrameWake ==
  ASSUME Wake, NEW th \in Threads, Frame(th),
         proc'.todo # <<>> => proc.todo # <<>>,
         proc'.waiting_threads # <<>> => proc.waiting_threads # <<>>,
         proc'.todo # <<>> /\ th \in Responsible => th \in Responsible'
  PROVE  Wake'
<1>1. \A u \in Threads \ {th} : u \in Responsible => u \in Responsible'
  BY DEF Frame, Responsible
<1>2. Responsible \subseteq Threads
  BY DEF Responsible
<1>3. SUFFICES ASSUME proc'.todo # <<>>, proc'.waiting_threads # <<>>
               PROVE  Responsible' # {}
  BY DEF Wake
<1>4. PICK u \in Threads : u \in Responsible
  BY <1>2, <1>3 DEF Wake
<1> QED BY <1>1, <1>3, <1>4

(* A thread that is not asleep is not on the list of those that wait.      *)
LEMMA FrameList ==
  ASSUME NEW w, NEW th \in Threads, ListOf(w, Sleepers \ {th}), Frame(th)
  PROVE  ListOf(w, Sleepers')
<1>1. Sleepers \ {th} \subseteq Sleepers'
  BY DEF Frame, Sleepers
<1> QED BY <1>1 DEF ListOf

(* A thread that does something finds the pool configured.                 *)
LEMMA UpConfigured ==
  ASSUME Sound, NEW th \in Threads, pc[th] \notin {"none", "caller"}
  PROVE  state.configured
BY DEF Sound, Counted, Unconfigured

(* A step of a thread that is not asleep and leaves the process alone.     *)
LEMMA QuietSound ==
  ASSUME Sound, NEW th \in Threads, Quiet(th), TypeOK', ThreadOK(th)', proc' = proc,
         pc[th] # "sleep",
         proc.todo # <<>> /\ th \in Responsible => th \in Responsible'
  PROVE  Sound'
<1>1. Frame(th)
  BY DEF Quiet
<1>2. \A u \in Threads : ThreadOK(u)'
  BY <1>1, FrameOK DEF Sound
<1>3. Counted'
  BY QuietCounted DEF Sound
<1>4. Wake'
  BY <1>1, FrameWake DEF Sound
<1>5. Sleepers = Sleepers \ {th}
  BY DEF Sleepers
<1>6. ListOf(proc.waiting_threads, Sleepers')
  BY <1>1, <1>5, FrameList DEF Sound
<1> QED BY <1>2, <1>3, <1>4, <1>6 DEF Sound
-----------------------------------------------------------------------------
(* The steps of a thread, one by one.                                      *)

(* A thread that only goes on to q.                                        *)
LEMMA MoveSound ==
  ASSUME Sound, NEW th \in Threads, state.configured,
         NEW q \in {"user", "enter", "left", "retry", "done"},
         pc' = [pc EXCEPT ![th] = q], UNCHANGED <<proc, thr, awake, io, state, work>>,
         pc[th] \notin {"none", "sleep", "tail"},
         q \in {"retry", "done"} => thr[th].joined,
         proc.todo # <<>> /\ th \in Responsible => q = "done"
  PROVE  Sound'
<1>1. TypeOK'
  BY Types DEF Sound, Places, InDriver, InUser, TypeOK
<1>2. pc \in [Threads -> Places]
  BY Types DEF Sound
<1>3. pc'[th] = q /\ \A u \in Threads \ {th} : pc'[u] = pc[u]
  BY <1>2
<1>4. Quiet(th)
  BY <1>3 DEF Quiet, Frame, Past
<1>5. ThreadOK(th)
  BY DEF Sound
<1>6. ThreadOK(th)'
  BY <1>3, <1>5 DEF ThreadOK, InDriver
<1>7. proc.todo # <<>> /\ th \in Responsible => th \in Responsible'
  BY <1>3 DEF Responsible
<1> QED BY <1>1, <1>4, <1>6, <1>7, QuietSound

LEMMA JoinThreadPoolSound ==
  ASSUME Sound, NEW th \in Threads, JoinThreadPool(th)
  PROVE  Sound'
<1>1. state.configured
  BY UpConfigured DEF JoinThreadPool
<1>2. proc.todo # <<>> /\ th \in Responsible => FALSE
  BY DEF JoinThreadPool, Responsible
<1> QED BY <1>1, <1>2, MoveSound DEF JoinThreadPool

LEMMA TalkWithDriverSound ==
  ASSUME Sound, NEW th \in Threads, TalkWithDriver(th)
  PROVE  Sound'
<1>1. state.configured
  BY UpConfigured DEF TalkWithDriver
<1>2. proc.todo # <<>> /\ th \in Responsible => FALSE
  BY DEF TalkWithDriver, Responsible
<1>3. PICK q \in {"enter", "left"} : pc' = [pc EXCEPT ![th] = q]
  BY DEF TalkWithDriver
<1> QED BY <1>1, <1>2, <1>3, MoveSound DEF TalkWithDriver

LEMMA IoctlRefusedSound ==
  ASSUME Sound, NEW th \in Threads, IoctlRefused(th)
  PROVE  Sound'
<1>1. state.configured
  BY UpConfigured DEF IoctlRefused
<1>2. proc.todo # <<>> /\ th \in Responsible => FALSE
  BY DEF IoctlRefused, Responsible
<1> QED BY <1>1, <1>2, MoveSound DEF IoctlRefused

(* A thread goes back to retry only when the process has no work, or when  *)
(* it was not to look at it and has work of its own.                       *)
LEMMA ReadNothingSound ==
  ASSUME Sound, NEW th \in Threads, ReadNothing(th)
  PROVE  Sound'
<1>1. state.configured
  BY UpConfigured DEF ReadNothing
<1>2. PICK q \in {"retry", "done"} :
        /\ pc' = [pc EXCEPT ![th] = q]
        /\ q = "retry" => io[th].cmd = "none" /\ ~thr[th].looper_need_return
  BY DEF ReadNothing
<1>3. ThreadOK(th)
  BY DEF Sound
<1>4. thr[th].joined
  BY <1>3 DEF ReadNothing, ThreadOK, InDriver
<1>5. proc.todo # <<>> => q = "done"
  BY <1>2, <1>3 DEF ReadNothing, ThreadOK
<1> QED BY <1>1, <1>2, <1>4, <1>5, MoveSound DEF ReadNothing

LEMMA ReadRetrySound ==
  ASSUME Sound, NEW th \in Threads, ReadRetry(th)
  PROVE  Sound'
<1>1. TypeOK'
  <2>1. AvailableForProcWork(thr, th) \in BOOLEAN
    BY DEF AvailableForProcWork
  <2>2. thr \in [Threads -> ThreadRec] /\ pc \in [Threads -> Places]
    BY Types DEF Sound
  <2>3. thr' \in [Threads -> ThreadRec]
    BY ZenonT(30), <2>1, <2>2 DEF ReadRetry, ThreadRec
  <2>4. pc' \in [Threads -> Places]
    BY <2>2 DEF ReadRetry, Places, InDriver
  <2> QED BY <2>3, <2>4, Types DEF Sound, ReadRetry, TypeOK, ThreadRec
<1>2. pc \in [Threads -> Places] /\ thr \in [Threads -> ThreadRec]
  BY Types DEF Sound
<1>3. /\ pc'[th] = "wait" /\ thr'[th].joined = thr[th].joined
      /\ thr'[th].intr = thr[th].intr /\ thr'[th].invalid = thr[th].invalid
      /\ \A u \in Threads \ {th} : pc'[u] = pc[u] /\ thr'[u] = thr[u]
      /\ UNCHANGED <<proc, awake, io, state>> /\ pc[th] = "retry"
  BY <1>2 DEF ReadRetry, ThreadRec
<1>4. Quiet(th)
  BY <1>3, UpConfigured DEF Quiet, Frame, Past
<1>5. ThreadOK(th)
  BY DEF Sound
<1>6. ThreadOK(th)'
  BY <1>3, <1>5 DEF ThreadOK, InDriver
<1>7. th \notin Responsible
  BY <1>3 DEF Responsible
<1> QED BY <1>1, <1>3, <1>4, <1>6, <1>7, QuietSound
LEMMA ExecuteCommandSound ==
  ASSUME Sound, NEW th \in Threads, ExecuteCommand(th)
  PROVE  Sound'
<1>1. pc \in [Threads -> Places] /\ io \in [Threads -> IoRec]
  BY Types DEF Sound
<1>2. PICK q \in {"left", "exec", "topoll", "user"} : pc' = [pc EXCEPT ![th] = q]
  BY DEF ExecuteCommand, Again
<1>3. io' = [io EXCEPT ![th].cmd = "none"] /\ UNCHANGED <<proc, thr, awake, state, work>>
      /\ pc[th] = "cmds"
  BY DEF ExecuteCommand
<1>4. TypeOK'
  <2>1. pc' \in [Threads -> Places]
    BY <1>1, <1>2 DEF Places, InUser
  <2>2. io' \in [Threads -> IoRec]
    BY <1>1, <1>3 DEF IoRec
  <2> QED BY <1>3, <2>1, <2>2, Types DEF Sound, TypeOK, IoRec
<1>5. /\ pc'[th] = q /\ \A u \in Threads \ {th} : pc'[u] = pc[u] /\ io'[u] = io[u]
      /\ io'[th].spawn = io[th].spawn /\ io'[th].isMain = io[th].isMain
      /\ io'[th].out = io[th].out
  BY <1>1, <1>2, <1>3 DEF IoRec
<1>6. Quiet(th)
  BY <1>3, <1>5, UpConfigured DEF Quiet, Frame, Past
<1>7. ThreadOK(th)
  BY DEF Sound
<1>8. ThreadOK(th)'
  BY <1>3, <1>5, <1>7 DEF ThreadOK, InDriver
<1>9. th \notin Responsible
  BY <1>3 DEF Responsible
<1> QED BY <1>3, <1>4, <1>6, <1>8, <1>9, QuietSound

LEMMA FinishCommandSound ==
  ASSUME Sound, NEW th \in Threads, FinishCommand(th)
  PROVE  Sound'
<1>1. pc \in [Threads -> Places] /\ io \in [Threads -> IoRec]
  BY Types DEF Sound
<1>2. PICK q \in {"topoll", "user"} : pc' = [pc EXCEPT ![th] = q]
  BY DEF FinishCommand, Again
<1>3. PICK o \in {"reply", "none"} : io' = [io EXCEPT ![th].out = o]
  BY DEF FinishCommand
<1>4. UNCHANGED <<proc, thr, awake, state>> /\ pc[th] = "exec"
  BY DEF FinishCommand
<1>5. TypeOK'
  <2>1. pc' \in [Threads -> Places]
    BY <1>1, <1>2 DEF Places, InUser
  <2>2. io' \in [Threads -> IoRec]
    BY <1>1, <1>3 DEF IoRec
  <2>3. work' \in [arrived : 0 .. MaxWork, handled : Nat]
    BY Types DEF Sound, FinishCommand
  <2> QED BY <1>4, <2>1, <2>2, <2>3, Types DEF Sound, TypeOK, IoRec
<1>6. /\ pc'[th] = q /\ \A u \in Threads \ {th} : pc'[u] = pc[u] /\ io'[u] = io[u]
      /\ io'[th].spawn = io[th].spawn /\ io'[th].isMain = io[th].isMain
      /\ io'[th].out = o
  BY <1>1, <1>2, <1>3 DEF IoRec
<1>7. Quiet(th)
  BY <1>4, <1>6, UpConfigured DEF Quiet, Frame, Past
<1>8. ThreadOK(th)
  BY DEF Sound
<1>9. ThreadOK(th)'
  BY <1>4, <1>6, <1>8 DEF ThreadOK, InDriver
<1>10. th \notin Responsible
  BY <1>4 DEF Responsible
<1> QED BY <1>4, <1>5, <1>7, <1>9, <1>10, QuietSound

LEMMA PollSound ==
  ASSUME Sound, NEW th \in Threads, Poll(th)
  PROVE  Sound'
<1>1. pc \in [Threads -> Places] /\ thr \in [Threads -> ThreadRec]
      /\ awake \in [Threads -> BOOLEAN]
  BY Types DEF Sound
<1>2. PICK q \in {"user", "poll"} : pc' = [pc EXCEPT ![th] = q]
  BY DEF Poll
<1>3. PICK a \in BOOLEAN : thr' = [thr EXCEPT ![th].poll = TRUE, ![th].wait_for_proc_work = a]
  <2>1. AvailableForProcWork(thr, th) \in BOOLEAN
    BY DEF AvailableForProcWork
  <2> QED BY <2>1 DEF Poll
<1>4. PICK b \in BOOLEAN : awake' = [awake EXCEPT ![th] = b]
  <2>1. \A T : HasWork(T, th) \in BOOLEAN
    BY DEF HasWork
  <2> QED BY <2>1 DEF Poll
<1>5. UNCHANGED <<proc, io, state, work>> /\ pc[th] \in {"topoll", "poll"}
  BY DEF Poll
<1>6. TypeOK'
  <2>1. pc' \in [Threads -> Places]
    BY <1>1, <1>2 DEF Places, InUser
  <2>2. thr' \in [Threads -> ThreadRec]
    BY ZenonT(30), <1>1, <1>3 DEF ThreadRec
  <2>3. awake' \in [Threads -> BOOLEAN]
    BY <1>1, <1>4
  <2> QED BY <1>5, <2>1, <2>2, <2>3, Types DEF Sound, TypeOK, ThreadRec
<1>7. /\ pc'[th] = q /\ thr'[th].joined = thr[th].joined
      /\ thr'[th].intr = thr[th].intr /\ thr'[th].invalid = thr[th].invalid
      /\ \A u \in Threads \ {th} : pc'[u] = pc[u] /\ thr'[u] = thr[u] /\ awake'[u] = awake[u]
  BY <1>1, <1>2, <1>3, <1>4 DEF ThreadRec
<1>8. Quiet(th)
  BY <1>5, <1>7, UpConfigured DEF Quiet, Frame, Past
<1>9. ThreadOK(th)
  BY DEF Sound
<1>10. ThreadOK(th)'
  BY <1>5, <1>7, <1>9 DEF ThreadOK, InDriver
<1>11. th \notin Responsible
  BY <1>5 DEF Responsible
<1> QED BY <1>5, <1>6, <1>8, <1>10, <1>11, QuietSound

(* A quiet step that changes the lists.                                    *)
LEMMA StepSound ==
  ASSUME Sound, NEW th \in Threads, Quiet(th), TypeOK', ThreadOK(th)',
         ListOf(proc'.waiting_threads, Sleepers'), Wake'
  PROVE  Sound'
<1>1. \A u \in Threads : ThreadOK(u)'
  BY FrameOK DEF Sound, Quiet
<1>2. Counted'
  BY QuietCounted DEF Sound
<1> QED BY <1>1, <1>2 DEF Sound

LEMMA ReadWorkSound ==
  ASSUME Sound, NEW th \in Threads, ReadWork(th)
  PROVE  Sound'
<1> DEFINE own == thr[th].todo # <<>>
           w == IF own THEN Head(thr[th].todo) ELSE Head(proc.todo)
<1>1. pc \in [Threads -> Places] /\ thr \in [Threads -> ThreadRec]
      /\ io \in [Threads -> IoRec] /\ proc \in ProcRec
      /\ IsInjective(proc.waiting_threads)
  BY Types DEF Sound
<1>2. /\ thr[th] \in ThreadRec /\ thr[th].todo \in Seq(Items)
      /\ proc.todo \in Seq(Items) /\ thr[th].serving \in BOOLEAN
  BY <1>1 DEF ThreadRec, ProcRec
<1>3. w \in Items /\ (own \/ proc.todo # <<>>)
  BY <1>2 DEF ReadWork
<1>4. PICK t \in Seq(Items), sv \in BOOLEAN :
        thr' = [thr EXCEPT ![th].todo = t, ![th].serving = sv]
  <2>1. (IF own THEN Tail(thr[th].todo) ELSE thr[th].todo) \in Seq(Items)
    BY <1>2
  <2>2. (thr[th].serving \/ w = "sync") \in BOOLEAN
    OBVIOUS
  <2> QED BY <2>1, <2>2 DEF ReadWork
<1>5. PICK l \in Seq(Items) : proc' = [proc EXCEPT !.todo = l]
                              /\ (l # <<>> => proc.todo # <<>>)
  <2>1. CASE own
    <3>1. proc' = proc
      BY <2>1 DEF ReadWork
    <3>2. proc' = [proc EXCEPT !.todo = proc.todo]
      BY <3>1, <1>1 DEF ProcRec
    <3> QED BY <3>2, <1>2
  <2>2. CASE ~own
    <3>1. proc' = [proc EXCEPT !.todo = Tail(proc.todo)] /\ proc.todo # <<>>
      BY <2>2 DEF ReadWork
    <3>2. Tail(proc.todo) \in Seq(Items)
      BY <1>2, <3>1
    <3> QED BY <3>1, <3>2
  <2> QED BY <2>1, <2>2
<1>6. io' = [io EXCEPT ![th].cmd = w] /\ UNCHANGED <<awake, state, work>> /\ pc[th] = "loop"
  BY DEF ReadWork
<1>7. PICK q \in {"loop", "done"} : pc' = [pc EXCEPT ![th] = q]
  BY DEF ReadWork
<1> HIDE DEF w, own
<1>8. TypeOK'
  <2>1. pc' \in [Threads -> Places]
    BY <1>1, <1>7 DEF Places, InDriver
  <2>2. thr' \in [Threads -> ThreadRec]
    BY ZenonT(30), <1>1, <1>4 DEF ThreadRec
  <2>3. io' \in [Threads -> IoRec]
    BY <1>1, <1>6, <1>3 DEF IoRec
  <2>4. proc' \in ProcRec /\ proc'.waiting_threads = proc.waiting_threads
    BY <1>1, <1>5 DEF ProcRec
  <2> QED BY <1>1, <1>6, <2>1, <2>2, <2>3, <2>4, Types DEF Sound, TypeOK, ThreadRec, IoRec, ProcRec
<1>9. /\ pc'[th] = q /\ thr'[th].joined = thr[th].joined
      /\ thr'[th].intr = thr[th].intr /\ thr'[th].invalid = thr[th].invalid
      /\ \A u \in Threads \ {th} : pc'[u] = pc[u] /\ thr'[u] = thr[u] /\ io'[u] = io[u]
      /\ io'[th].spawn = io[th].spawn /\ io'[th].isMain = io[th].isMain
      /\ io'[th].out = io[th].out /\ io'[th].cmd = w
  BY <1>1, <1>4, <1>6, <1>7 DEF ThreadRec, IoRec
<1>10. /\ proc'.waiting_threads = proc.waiting_threads /\ proc'.todo = l
       /\ proc'.max_threads = proc.max_threads
       /\ proc'.requested_threads = proc.requested_threads
       /\ proc'.requested_threads_started = proc.requested_threads_started
  BY <1>1, <1>5 DEF ProcRec
<1>11. Quiet(th)
  BY <1>6, <1>9, <1>10, UpConfigured DEF Quiet, Frame, Past
<1>12. ThreadOK(th)
  BY DEF Sound
<1>13. ThreadOK(th)'
  <2>1. w # "none"
    BY <1>3 DEF Items
  <2> QED BY <1>6, <1>9, <1>12, <2>1 DEF ThreadOK, InDriver
<1>14. Wake'
  <2>1. th \in Responsible'
    BY <1>9 DEF Responsible
  <2> QED BY <2>1 DEF Wake
<1>15. ListOf(proc'.waiting_threads, Sleepers')
  <2>1. Sleepers \ {th} = Sleepers
    BY <1>6 DEF Sleepers
  <2> QED BY <2>1, <1>10, <1>11, FrameList DEF Sound, Quiet
<1> QED BY <1>8, <1>11, <1>13, <1>14, <1>15, StepSound
(* binder_wakeup_thread_ilocked puts nobody to sleep, and wakes the thread *)
(* it was given.                                                           *)
LEMMA WokenUp ==
  ASSUME TypeOK, NEW P, P.waiting_threads \in Seq(Threads)
  PROVE  /\ Woken(P) \in [Threads -> BOOLEAN]
         /\ \A u \in Threads : awake[u] => Woken(P)[u]
         /\ P.waiting_threads # <<>> => Woken(P)[Head(P.waiting_threads)]
<1>1. awake \in [Threads -> BOOLEAN]
  BY Types
<1>2. CASE P.waiting_threads = <<>>
  <2>1. Woken(P) = WakePolling
    BY <1>2 DEF Woken
  <2>2. WakePolling \in [Threads -> BOOLEAN]
    BY DEF WakePolling
  <2>3. \A u \in Threads : awake[u] => WakePolling[u]
    BY <1>1 DEF WakePolling
  <2> QED BY <1>2, <2>1, <2>2, <2>3
<1>3. CASE P.waiting_threads # <<>>
  <2>1. Woken(P) = [awake EXCEPT ![Head(P.waiting_threads)] = TRUE]
    BY <1>3 DEF Woken, Selected
  <2>2. Head(P.waiting_threads) \in Threads
    BY <1>3
  <2> QED BY <1>1, <2>1, <2>2
<1> QED BY <1>2, <1>3

\* A list of the driver, with the other fields of the process as they are.
Lists(l, w) == [proc EXCEPT !.todo = l, !.waiting_threads = w]

(* The rest of binder_proc stays when its lists change.                    *)
LEMMA ListsProc ==
  ASSUME proc \in ProcRec, NEW l \in Seq(Items), NEW w \in Seq(Threads)
  PROVE  /\ Lists(l, w) \in ProcRec
         /\ Lists(l, w).todo = l /\ Lists(l, w).waiting_threads = w
         /\ Lists(l, w).max_threads = proc.max_threads
         /\ Lists(l, w).requested_threads = proc.requested_threads
         /\ Lists(l, w).requested_threads_started = proc.requested_threads_started
BY DEF ProcRec, Lists

(* A thread that goes to sleep has looked at the work of the process after *)
(* it left the list, if it is one that could take it.                      *)
LEMMA WaitForWorkSound ==
  ASSUME Sound, NEW th \in Threads, WaitForWork(th)
  PROVE  Sound'
<1> DEFINE sleeps == ~HasWork(thr, th)
           l == IF sleeps /\ thr[th].wait_for_proc_work
                THEN <<th>> \o WaitingWithout(th) ELSE WaitingWithout(th)
<1>1. pc \in [Threads -> Places] /\ thr \in [Threads -> ThreadRec]
      /\ awake \in [Threads -> BOOLEAN] /\ proc \in ProcRec
      /\ proc.todo \in Seq(Items)
  BY Types DEF Sound, ProcRec
<1>2. sleeps \in BOOLEAN
  BY DEF HasWork
<1>3. /\ pc' = [pc EXCEPT ![th] = IF sleeps THEN "sleep" ELSE "loop"]
      /\ awake' = [awake EXCEPT ![th] = ~sleeps]
      /\ thr' = [thr EXCEPT ![th].waiting = sleeps]
      /\ proc' = [proc EXCEPT !.waiting_threads = l]
      /\ UNCHANGED <<io, state, work>>
      /\ pc[th] = "wait" \/ (pc[th] = "sleep" /\ awake[th])
  BY DEF WaitForWork
<1>4. /\ sleeps => thr[th].todo = <<>> /\ ~thr[th].looper_need_return
      /\ sleeps /\ thr[th].wait_for_proc_work => proc.todo = <<>>
      /\ ~sleeps /\ ~thr[th].wait_for_proc_work =>
           thr[th].todo # <<>> \/ thr[th].looper_need_return
  BY DEF HasWork
<1>5. ListOf(WaitingWithout(th), Sleepers \ {th})
      /\ (proc.waiting_threads = <<>> => WaitingWithout(th) = <<>>)
  BY WithoutList DEF Sound
<1> HIDE DEF sleeps
<1>6. ListOf(l, IF sleeps /\ thr[th].wait_for_proc_work THEN Sleepers \cup {th}
                ELSE Sleepers \ {th})
  BY <1>5, PutList
<1>7. l \in Seq(Threads) /\ IsInjective(l)
  BY <1>6 DEF ListOf
<1>8. ~(sleeps /\ thr[th].wait_for_proc_work) => l = WaitingWithout(th)
  OBVIOUS
<1> HIDE DEF l
<1>9. proc' = Lists(proc.todo, l)
  BY <1>1, <1>3 DEF Lists, ProcRec
<1>10. /\ proc' \in ProcRec /\ proc'.waiting_threads = l /\ proc'.todo = proc.todo
       /\ proc'.max_threads = proc.max_threads
       /\ proc'.requested_threads = proc.requested_threads
       /\ proc'.requested_threads_started = proc.requested_threads_started
  BY <1>1, <1>7, <1>9, ListsProc
<1>11. TypeOK'
  <2>1. pc' \in [Threads -> Places]
    BY <1>1, <1>3 DEF Places, InDriver
  <2>2. thr' \in [Threads -> ThreadRec]
    BY ZenonT(30), <1>1, <1>2, <1>3 DEF ThreadRec
  <2>3. awake' \in [Threads -> BOOLEAN]
    BY <1>1, <1>2, <1>3
  <2> QED BY <1>3, <1>7, <1>10, <2>1, <2>2, <2>3, Types DEF Sound, TypeOK, ThreadRec, ProcRec
<1>12. /\ pc'[th] = (IF sleeps THEN "sleep" ELSE "loop")
       /\ thr'[th].joined = thr[th].joined /\ thr'[th].intr = thr[th].intr
       /\ thr'[th].invalid = thr[th].invalid /\ thr'[th].todo = thr[th].todo
       /\ thr'[th].looper_need_return = thr[th].looper_need_return
       /\ thr'[th].wait_for_proc_work = thr[th].wait_for_proc_work
       /\ thr'[th].waiting = sleeps
       /\ \A u \in Threads \ {th} : pc'[u] = pc[u] /\ thr'[u] = thr[u] /\ awake'[u] = awake[u]
  BY <1>1, <1>3 DEF ThreadRec
<1>13. Quiet(th)
  BY <1>2, <1>3, <1>10, <1>12, UpConfigured DEF Quiet, Frame, Past
<1>14. ThreadOK(th)
  BY DEF Sound
<1>15. ThreadOK(th)'
  <2>1. CASE sleeps
    <3>1. pc'[th] = "sleep" /\ thr'[th].waiting
      BY <2>1, <1>2, <1>12
    <3> QED BY <2>1, <3>1, <1>3, <1>4, <1>12, <1>14 DEF ThreadOK, InDriver
  <2>2. CASE ~sleeps
    <3>1. pc'[th] = "loop"
      BY <2>2, <1>12
    <3> QED BY <2>2, <3>1, <1>3, <1>4, <1>12, <1>14 DEF ThreadOK, InDriver
  <2> QED BY <2>1, <2>2
<1>16. ListOf(proc'.waiting_threads, Sleepers')
  <2>1. CASE sleeps /\ thr[th].wait_for_proc_work
    <3>1. Sleepers \cup {th} \subseteq Sleepers'
      BY <1>12, <2>1 DEF Sleepers
    <3> QED BY <3>1, <2>1, <1>6, <1>10 DEF ListOf
  <2>2. CASE ~(sleeps /\ thr[th].wait_for_proc_work)
    BY <2>2, <1>6, <1>10, <1>13, FrameList DEF Quiet
  <2> QED BY <2>1, <2>2
<1>17. Wake'
  <2>1. CASE sleeps /\ thr[th].wait_for_proc_work
    BY <2>1, <1>4, <1>10 DEF Wake
  <2>2. CASE sleeps /\ ~thr[th].wait_for_proc_work
    <3>1. th \notin Responsible
      BY <1>3, <2>2 DEF Responsible
    <3>2. proc'.waiting_threads # <<>> => proc.waiting_threads # <<>>
      BY <1>5, <1>8, <1>10, <2>2
    <3> QED BY <3>1, <3>2, <1>10, <1>13, FrameWake DEF Quiet, Sound
  <2>3. CASE ~sleeps
    <3>1. th \in Responsible'
      BY <1>12, <2>3 DEF Responsible
    <3> QED BY <3>1 DEF Wake
  <2> QED BY <2>1, <2>2, <2>3
<1> QED BY <1>11, <1>13, <1>15, <1>16, <1>17, StepSound

LEMMA InterruptedSound ==
  ASSUME Sound, NEW th \in Threads, Interrupted(th)
  PROVE  Sound'
<1> DEFINE l == WaitingWithout(th)
<1>1. pc \in [Threads -> Places] /\ thr \in [Threads -> ThreadRec]
      /\ awake \in [Threads -> BOOLEAN] /\ proc \in ProcRec
      /\ proc.todo \in Seq(Items)
  BY Types DEF Sound, ProcRec
<1>2. /\ pc' = [pc EXCEPT ![th] = "tail"]
      /\ awake' = [awake EXCEPT ![th] = TRUE]
      /\ thr' = [thr EXCEPT ![th].waiting = FALSE, ![th].intr = TRUE]
      /\ proc' = [proc EXCEPT !.waiting_threads = l]
      /\ UNCHANGED <<io, state, work>>
      /\ pc[th] = "sleep"
  BY DEF Interrupted
<1>3. ListOf(l, Sleepers \ {th})
  BY WithoutList DEF Sound
<1> HIDE DEF l
<1>4. l \in Seq(Threads) /\ IsInjective(l)
  BY <1>3 DEF ListOf
<1>5. proc' = Lists(proc.todo, l)
  BY <1>1, <1>2 DEF Lists, ProcRec
<1>6. /\ proc' \in ProcRec /\ proc'.waiting_threads = l /\ proc'.todo = proc.todo
      /\ proc'.max_threads = proc.max_threads
      /\ proc'.requested_threads = proc.requested_threads
      /\ proc'.requested_threads_started = proc.requested_threads_started
  BY <1>1, <1>4, <1>5, ListsProc
<1>7. TypeOK'
  <2>1. pc' \in [Threads -> Places]
    BY <1>1, <1>2 DEF Places, InDriver
  <2>2. thr' \in [Threads -> ThreadRec]
    BY ZenonT(30), <1>1, <1>2 DEF ThreadRec
  <2>3. awake' \in [Threads -> BOOLEAN]
    BY <1>1, <1>2
  <2> QED BY <1>2, <1>4, <1>6, <2>1, <2>2, <2>3, Types DEF Sound, TypeOK, ThreadRec, ProcRec
<1>8. /\ pc'[th] = "tail" /\ thr'[th].intr
      /\ thr'[th].joined = thr[th].joined /\ thr'[th].invalid = thr[th].invalid
      /\ \A u \in Threads \ {th} : pc'[u] = pc[u] /\ thr'[u] = thr[u] /\ awake'[u] = awake[u]
  BY <1>1, <1>2 DEF ThreadRec
<1>9. Quiet(th)
  BY ZenonT(30), <1>2, <1>6, <1>8, UpConfigured DEF Quiet, Frame, Past
<1>10. ThreadOK(th)
  BY DEF Sound
<1>11. ThreadOK(th)'
  BY <1>2, <1>8, <1>10 DEF ThreadOK, InDriver
<1>12. Wake'
  <2>1. th \in Responsible'
    BY <1>8 DEF Responsible
  <2> QED BY <2>1 DEF Wake
<1>13. ListOf(proc'.waiting_threads, Sleepers')
  BY <1>3, <1>6, <1>9, FrameList DEF Quiet
<1> QED BY <1>7, <1>9, <1>11, <1>12, <1>13, StepSound
(* A thread that leaves the driver wakes another for the work it leaves    *)
(* behind.                                                                 *)
LEMMA IoctlEndSound ==
  ASSUME Sound, NEW th \in Threads, IoctlEnd(th)
  PROVE  Sound'
<1> DEFINE wt == proc.waiting_threads
           wakes == proc.todo # <<>> /\ wt # <<>>
           l == IF wakes THEN Tail(wt) ELSE wt
<1>1. pc \in [Threads -> Places] /\ thr \in [Threads -> ThreadRec]
      /\ awake \in [Threads -> BOOLEAN] /\ proc \in ProcRec
      /\ proc.todo \in Seq(Items) /\ wt \in Seq(Threads) /\ TypeOK
  BY Types DEF Sound, ProcRec
<1>2. PICK q \in {"left", "enter", "cmds"} :
        /\ pc' = [pc EXCEPT ![th] = q]
        /\ q = "cmds" => ~thr[th].intr
  BY DEF IoctlEnd, AfterIoctl
<1>3. /\ thr' = [thr EXCEPT ![th].looper_need_return = FALSE, ![th].intr = FALSE]
      /\ UNCHANGED <<io, state, work>> /\ pc[th] = "tail"
  BY DEF IoctlEnd
<1>4. ListOf(wt, Sleepers)
  BY DEF Sound
<1>5. ListOf(l, Sleepers) /\ (wt # <<>> => Head(wt) \in Sleepers)
  BY <1>4, TailList
<1>6. l \in Seq(Threads) /\ IsInjective(l)
  BY <1>5 DEF ListOf
<1>7. proc' = Lists(proc.todo, l)
  BY <1>1 DEF IoctlEnd, Taken, Lists, ProcRec
<1>8. /\ awake' \in [Threads -> BOOLEAN]
      /\ \A u \in Threads : awake[u] => awake'[u]
      /\ wakes => awake'[Head(wt)]
  <2>1. awake' = Woken(proc) \/ (~wakes /\ awake' = awake)
    BY DEF IoctlEnd
  <2>2. /\ Woken(proc) \in [Threads -> BOOLEAN]
        /\ \A u \in Threads : awake[u] => Woken(proc)[u]
        /\ wt # <<>> => Woken(proc)[Head(wt)]
    BY <1>1, WokenUp
  <2> QED BY <2>1, <2>2, <1>1
<1>9. wakes \/ proc.todo = <<>> \/ l = <<>>
  OBVIOUS
<1> HIDE DEF l
<1>10. /\ proc' \in ProcRec /\ proc'.waiting_threads = l /\ proc'.todo = proc.todo
       /\ proc'.max_threads = proc.max_threads
       /\ proc'.requested_threads = proc.requested_threads
       /\ proc'.requested_threads_started = proc.requested_threads_started
  BY <1>1, <1>6, <1>7, ListsProc
<1>11. TypeOK'
  <2>1. pc' \in [Threads -> Places]
    BY <1>1, <1>2 DEF Places, InUser
  <2>2. thr' \in [Threads -> ThreadRec]
    BY ZenonT(30), <1>1, <1>3 DEF ThreadRec
  <2> QED BY <1>3, <1>6, <1>8, <1>10, <2>1, <2>2, Types DEF Sound, TypeOK, ThreadRec, ProcRec
<1>12. /\ pc'[th] = q /\ ~thr'[th].intr
       /\ thr'[th].joined = thr[th].joined /\ thr'[th].invalid = thr[th].invalid
       /\ \A u \in Threads \ {th} : pc'[u] = pc[u] /\ thr'[u] = thr[u]
  BY <1>1, <1>2, <1>3 DEF ThreadRec
<1>13. Quiet(th)
  BY <1>2, <1>3, <1>8, <1>10, <1>12, UpConfigured DEF Quiet, Frame, Past
<1>14. ThreadOK(th)
  BY DEF Sound
<1>15. ThreadOK(th)'
  BY <1>2, <1>3, <1>12, <1>14 DEF ThreadOK, InDriver
<1>16. Wake'
  <2>1. CASE wakes
    <3>1. Head(wt) \in Sleepers /\ Head(wt) # th
      BY <2>1, <1>3, <1>5 DEF Sleepers
    <3>2. Head(wt) \in Responsible'
      BY <2>1, <3>1, <1>8, <1>12 DEF Sleepers, Responsible
    <3> QED BY <3>2 DEF Wake
  <2>2. CASE ~wakes
    BY <2>2, <1>9, <1>10 DEF Wake
  <2> QED BY <2>1, <2>2
<1>17. ListOf(proc'.waiting_threads, Sleepers')
  <2>1. Sleepers \ {th} = Sleepers
    BY <1>3 DEF Sleepers
  <2> QED BY <2>1, <1>5, <1>10, <1>13, FrameList DEF Quiet
<1> QED BY <1>11, <1>13, <1>15, <1>16, <1>17, StepSound
-----------------------------------------------------------------------------
(* Work that arrives, and the end of the process.                          *)

\* A step that moves no thread and starts none.
Still ==
  /\ pc' = pc /\ io' = io
  /\ \A u \in Threads : thr'[u].joined = thr[u].joined /\ thr'[u].intr = thr[u].intr
  /\ proc'.max_threads = proc.max_threads
  /\ proc'.requested_threads = proc.requested_threads
  /\ proc'.requested_threads_started = proc.requested_threads_started
  /\ proc.waiting_threads = <<>> => proc'.waiting_threads = <<>>
  /\ state'.configured = state.configured
  /\ state'.mThreadPoolStarted = state.mThreadPoolStarted
  /\ state'.mIsPollingThread = state.mIsPollingThread
  /\ state'.mSpawnThreadOnStart = state.mSpawnThreadOnStart

LEMMA StillCounted ==
  ASSUME Counted, Still
  PROVE  Counted'
<1>1. Unconfigured' /\ Configured' /\ Polling'
  BY DEF Still, Counted, Unconfigured, Configured, Polling
<1>2. \A u \in Threads : Token(u)' => Token(u)
  BY DEF Still, Token
<1>3. Tokens'
  BY <1>2 DEF Still, Counted, Tokens
<1>4. Live' = Live /\ Past' = Past
  BY DEF Still, Live, Past
<1>5. Size'
  <2>1. Starting' <=> Starting
    BY DEF Starting, Still
  <2> QED BY <2>1, <1>4 DEF Still, Counted, Size, One
<1>6. Growth'
  BY <1>4 DEF Still, Counted, Growth
<1> QED BY <1>1, <1>3, <1>5, <1>6 DEF Counted

(* A transaction arrives: the thread that is taken off the list gets it    *)
(* and is woken; without one the list of the process gets it.              *)
LEMMA ArriveSound ==
  ASSUME Sound, NEW w \in {"sync", "oneway"}, Arrive(w)
  PROVE  Sound'
<1> DEFINE wt == proc.waiting_threads
<1>1. pc \in [Threads -> Places] /\ thr \in [Threads -> ThreadRec]
      /\ awake \in [Threads -> BOOLEAN] /\ proc \in ProcRec
      /\ proc.todo \in Seq(Items) /\ wt \in Seq(Threads) /\ TypeOK
      /\ work \in [arrived : 0 .. MaxWork, handled : Nat]
  BY Types DEF Sound, ProcRec
<1>2. UNCHANGED <<pc, io, state>> /\ awake' = Woken(proc)
      /\ work.arrived < MaxWork /\ work' = [work EXCEPT !.arrived = @ + 1]
  BY DEF Arrive
<1>3. work' \in [arrived : 0 .. MaxWork, handled : Nat]
  BY <1>1, <1>2, BoundAssumption
<1>4. /\ awake' \in [Threads -> BOOLEAN]
      /\ \A u \in Threads : awake[u] => awake'[u]
      /\ wt # <<>> => awake'[Head(wt)]
  BY <1>1, <1>2, WokenUp
<1>5. ListOf(wt, Sleepers) /\ \A u \in Threads : ThreadOK(u)
  BY DEF Sound
<1>6. CASE wt = <<>>
  <2> DEFINE t == Append(proc.todo, w)
  <2>1. proc' = Lists(t, <<>>) /\ thr' = thr
    BY <1>1, <1>6 DEF Arrive, Selected, Lists, ProcRec
  <2>2. t \in Seq(Items) /\ <<>> \in Seq(Threads)
    BY <1>1 DEF Items
  <2> HIDE DEF t
  <2>3. /\ proc' \in ProcRec /\ proc'.waiting_threads = <<>> /\ proc'.todo = t
        /\ proc'.max_threads = proc.max_threads
        /\ proc'.requested_threads = proc.requested_threads
        /\ proc'.requested_threads_started = proc.requested_threads_started
    BY <1>1, <2>1, <2>2, ListsProc
  <2>4. TypeOK'
    BY <1>2, <1>3, <1>4, <1>6, <2>1, <2>3, Types DEF Sound, TypeOK, ThreadRec, ProcRec
  <2>5. Still
    BY <1>2, <2>1, <2>3 DEF Still
  <2>6. \A u \in Threads : ThreadOK(u)'
    BY <1>2, <1>4, <1>5, <2>1 DEF ThreadOK
  <2>7. Wake' /\ ListOf(proc'.waiting_threads, Sleepers')
    BY <1>5, <1>6, <2>3 DEF Wake, ListOf
  <2> QED BY <2>4, <2>5, <2>6, <2>7, StillCounted DEF Sound
<1>7. CASE wt # <<>>
  <2> DEFINE l == Tail(wt)
  <2>0. PICK s \in Threads : s = Head(wt)
    BY <1>5, <1>7, TailList
  <2>1. s \in Sleepers /\ s \in Threads /\ ListOf(l, Sleepers)
    BY <1>5, <1>7, <2>0, TailList
  <2>2. Selected(proc) = s /\ Selected(proc) # 0
    BY <1>7, <2>0, ThreadsFacts DEF Selected
  <2>3. proc' = Lists(proc.todo, l) /\ thr' = [thr EXCEPT ![s].todo = Append(@, w)]
    BY <1>1, <1>7, <2>2 DEF Arrive, Taken, Lists, ProcRec
  <2>4. l \in Seq(Threads) /\ IsInjective(l)
    BY <2>1 DEF ListOf
  <2>5. Append(thr[s].todo, w) \in Seq(Items)
    BY <1>1, <2>1 DEF ThreadRec, Items
  <2> HIDE DEF l
  <2>6. /\ proc' \in ProcRec /\ proc'.waiting_threads = l /\ proc'.todo = proc.todo
        /\ proc'.max_threads = proc.max_threads
        /\ proc'.requested_threads = proc.requested_threads
        /\ proc'.requested_threads_started = proc.requested_threads_started
    BY <1>1, <2>3, <2>4, ListsProc
  <2>7. thr' \in [Threads -> ThreadRec]
    BY ZenonT(30), <1>1, <2>1, <2>3, <2>5 DEF ThreadRec
  <2>8. TypeOK'
    BY <1>2, <1>3, <1>4, <2>4, <2>6, <2>7, Types DEF Sound, TypeOK, ThreadRec, ProcRec
  <2>9. /\ thr'[s].joined = thr[s].joined /\ thr'[s].intr = thr[s].intr
        /\ thr'[s].invalid = thr[s].invalid /\ thr'[s].waiting = thr[s].waiting
        /\ thr'[s].wait_for_proc_work = thr[s].wait_for_proc_work
        /\ \A u \in Threads \ {s} : thr'[u] = thr[u]
    BY <1>1, <2>1, <2>3 DEF ThreadRec
  <2>10. Still
    BY <1>2, <1>7, <2>6, <2>9 DEF Still
  <2>11. \A u \in Threads : ThreadOK(u)'
    <3>1. ThreadOK(s) /\ pc[s] = "sleep"
      BY <1>5, <2>1 DEF Sleepers
    <3>2. awake'[s]
      BY <1>4, <1>7, <2>0
    <3>3. ThreadOK(s)'
      BY <1>2, <2>9, <3>1, <3>2 DEF ThreadOK, InDriver
    <3>4. Frame(s)
      BY <1>2, <1>4, <2>9 DEF Frame
    <3> QED BY <3>3, <3>4, <1>5, <2>1, FrameOK
  <2>12. s \in Responsible'
    BY <1>2, <1>4, <1>7, <2>0, <2>1, <2>9 DEF Sleepers, Responsible
  <2>13. Wake'
    BY <2>12 DEF Wake
  <2>14. Sleepers' = Sleepers
    BY <1>2, <2>9 DEF Sleepers
  <2> QED BY <2>1, <2>6, <2>8, <2>10, <2>11, <2>13, <2>14, StillCounted DEF Sound
<1> QED BY <1>6, <1>7
(* Work that is put on the list of the process wakes the thread that is    *)
(* taken off the list of those that wait.                                  *)
LEMMA ArriveProcSound ==
  ASSUME Sound, ArriveProc
  PROVE  Sound'
<1> DEFINE wt == proc.waiting_threads
           t == Append(proc.todo, "oneway")
           l == IF wt = <<>> THEN wt ELSE Tail(wt)
<1>1. proc \in ProcRec /\ proc.todo \in Seq(Items) /\ wt \in Seq(Threads) /\ TypeOK
      /\ work \in [arrived : 0 .. MaxWork, handled : Nat]
  BY Types DEF Sound, ProcRec
<1>2. UNCHANGED <<thr, pc, io, state>> /\ awake' = Woken(proc)
      /\ work.arrived < MaxWork /\ work' = [work EXCEPT !.arrived = @ + 1]
  BY DEF ArriveProc
<1>3. work' \in [arrived : 0 .. MaxWork, handled : Nat]
  BY <1>1, <1>2, BoundAssumption
<1>4. /\ awake' \in [Threads -> BOOLEAN]
      /\ \A u \in Threads : awake[u] => awake'[u]
      /\ wt # <<>> => awake'[Head(wt)]
  BY <1>1, <1>2, WokenUp
<1>5. ListOf(wt, Sleepers) /\ \A u \in Threads : ThreadOK(u)
  BY DEF Sound
<1>6. ListOf(l, Sleepers) /\ (wt # <<>> => Head(wt) \in Sleepers)
  BY <1>5, TailList
<1>7. proc' = Lists(t, l)
  <2>1. [proc EXCEPT !.todo = t].waiting_threads = wt
    BY <1>1 DEF ProcRec
  <2> QED BY <1>1, <2>1 DEF ArriveProc, Taken, Lists, ProcRec
<1>8. t \in Seq(Items) /\ l \in Seq(Threads) /\ IsInjective(l)
  BY <1>1, <1>6 DEF Items, ListOf
<1>9. wt = <<>> => l = <<>>
  OBVIOUS
<1> HIDE DEF t, l
<1>10. /\ proc' \in ProcRec /\ proc'.waiting_threads = l /\ proc'.todo = t
       /\ proc'.max_threads = proc.max_threads
       /\ proc'.requested_threads = proc.requested_threads
       /\ proc'.requested_threads_started = proc.requested_threads_started
  BY <1>1, <1>7, <1>8, ListsProc
<1>11. TypeOK'
  BY <1>2, <1>3, <1>4, <1>8, <1>10, Types DEF Sound, TypeOK, ThreadRec, ProcRec
<1>12. Still
  BY <1>2, <1>9, <1>10 DEF Still
<1>13. \A u \in Threads : ThreadOK(u)'
  BY <1>2, <1>4, <1>5 DEF ThreadOK
<1>14. Wake'
  <2>1. CASE wt = <<>>
    BY <2>1, <1>9, <1>10 DEF Wake
  <2>2. CASE wt # <<>>
    <3>1. Head(wt) \in Responsible'
      BY <2>2, <1>2, <1>4, <1>6 DEF Sleepers, Responsible
    <3> QED BY <3>1 DEF Wake
  <2> QED BY <2>1, <2>2
<1>15. Sleepers' = Sleepers
  BY <1>2 DEF Sleepers
<1> QED BY <1>6, <1>10, <1>11, <1>12, <1>13, <1>14, <1>15, StillCounted DEF Sound

LEMMA StopSound ==
  ASSUME Sound, StopProcess \/ CloseDriver
  PROVE  Sound'
<1>1. UNCHANGED <<proc, thr, pc, awake, io, work>>
      /\ (state' = [state EXCEPT !.mDriverFD = FALSE] \/ state' = [state EXCEPT !.closed = TRUE])
  BY DEF StopProcess, CloseDriver
<1>2. TypeOK'
  BY <1>1, Types DEF Sound, TypeOK
<1>3. Still
  BY <1>1, Types DEF Sound, Still
<1>4. \A u \in Threads : ThreadOK(u)'
  BY <1>1 DEF Sound, ThreadOK
<1>5. Wake' /\ ListOf(proc'.waiting_threads, Sleepers')
  BY <1>1 DEF Sound, Wake, Responsible, Sleepers
<1> QED BY <1>2, <1>3, <1>4, <1>5, StillCounted DEF Sound

(* The flush tells every thread to return and wakes those that wait.       *)
LEMMA DeferredFlushSound ==
  ASSUME Sound, DeferredFlush
  PROVE  Sound'
<1>1. thr \in [Threads -> ThreadRec] /\ awake \in [Threads -> BOOLEAN] /\ TypeOK
  BY Types DEF Sound
<1>2. /\ UNCHANGED <<proc, pc, io, work>>
      /\ state' = [state EXCEPT !.flushed = TRUE]
      /\ thr' = [u \in Threads |-> [thr[u] EXCEPT !.looper_need_return = TRUE]]
      /\ awake' = [u \in Threads |-> awake[u] \/ thr[u].waiting]
  BY DEF DeferredFlush
<1>3. thr' \in [Threads -> ThreadRec] /\ awake' \in [Threads -> BOOLEAN]
  <2>1. thr' \in [Threads -> ThreadRec]
    BY <1>1, <1>2 DEF ThreadRec
  <2>2. awake' \in [Threads -> BOOLEAN]
    BY <1>2
  <2> QED BY <2>1, <2>2
<1>4. TypeOK'
  BY <1>1, <1>2, <1>3, Types DEF TypeOK, ThreadRec
<1>5. \A u \in Threads :
        /\ thr'[u].joined = thr[u].joined /\ thr'[u].intr = thr[u].intr
        /\ thr'[u].invalid = thr[u].invalid /\ thr'[u].waiting = thr[u].waiting
        /\ thr'[u].wait_for_proc_work = thr[u].wait_for_proc_work
        /\ thr'[u].looper_need_return
  BY <1>1, <1>2 DEF ThreadRec
<1>6. \A u \in Threads : (awake[u] => awake'[u]) /\ (thr[u].waiting => awake'[u])
  BY <1>2
<1>7. Still
  BY <1>2, <1>5, Types DEF Sound, Still
<1>8. \A u \in Threads : ThreadOK(u)'
  <2> SUFFICES ASSUME NEW u \in Threads PROVE ThreadOK(u)'
    OBVIOUS
  <2>1. ThreadOK(u)
    BY DEF Sound
  <2>2. pc[u] = "sleep" => awake'[u]
    BY <2>1, <1>6 DEF ThreadOK
  <2> QED BY <2>1, <2>2, <1>2, <1>5 DEF ThreadOK
<1>9. Responsible \subseteq Responsible' /\ Sleepers' = Sleepers
  BY <1>2, <1>5, <1>6 DEF Responsible, Sleepers
<1>10. Wake' /\ ListOf(proc'.waiting_threads, Sleepers')
  BY <1>2, <1>9 DEF Sound, Wake
<1> QED BY <1>4, <1>7, <1>8, <1>10, StillCounted DEF Sound
-----------------------------------------------------------------------------
(* The steps that ask for threads, start them and register them.           *)

(* The thread that registers is the one that was asked for; with it the    *)
(* request is closed.                                                      *)
LEMMA IoctlWriteSound ==
  ASSUME Sound, NEW th \in Threads, IoctlWrite(th)
  PROVE  Sound'
<1> DEFINE out == io[th].out
           registers == out = "join" /\ ~io[th].isMain
<1>1. pc \in [Threads -> Places] /\ thr \in [Threads -> ThreadRec]
      /\ io \in [Threads -> IoRec] /\ proc \in ProcRec /\ TypeOK
      /\ thr[th] \in ThreadRec /\ thr[th].todo \in Seq(Items)
      /\ io[th] \in IoRec /\ out \in {"join", "reply", "none"}
      /\ proc.requested_threads \in Nat /\ proc.requested_threads_started \in Nat
  BY Types DEF Sound, ProcRec, ThreadRec, IoRec
<1>2. ThreadOK(th) /\ pc[th] = "enter" /\ UNCHANGED <<awake, state, work>>
  BY DEF Sound, IoctlWrite
<1>3. pc' = [pc EXCEPT ![th] = "retry"] /\ io' = [io EXCEPT ![th].out = "none"]
  BY DEF IoctlWrite
<1>4. thr[th].joined \/ out = "join"
  BY <1>1, <1>2 DEF ThreadOK
<1>5. registers => /\ ~thr[th].joined /\ ~io[th].spawn /\ Token(th)
                   /\ proc.requested_threads = 1
  <2>1. registers => ~thr[th].joined /\ ~io[th].spawn /\ Token(th)
    BY <1>2 DEF ThreadOK, Token
  <2> QED BY <2>1 DEF Sound, Counted, Tokens
<1>6. ~thr[th].invalid
  BY <1>2 DEF ThreadOK
<1>7. PICK sv \in BOOLEAN, t \in Seq(Items) :
        thr' = [thr EXCEPT ![th].joined = TRUE, ![th].invalid = FALSE,
                           ![th].serving = sv, ![th].todo = t]
  <2>1. (thr[th].joined \/ out = "join") = TRUE
    BY <1>4
  <2>2. (thr[th].invalid \/ (registers /\ (~(proc.requested_threads > 0) \/ thr[th].joined)))
          = FALSE
    BY <1>5, <1>6
  <2>3. (thr[th].serving /\ out # "reply") \in BOOLEAN
    OBVIOUS
  <2>4. (IF out = "reply" THEN Append(thr[th].todo, "complete") ELSE thr[th].todo) \in Seq(Items)
    BY <1>1 DEF Items
  <2>5. thr' = [thr EXCEPT
          ![th].joined = thr[th].joined \/ out = "join",
          ![th].invalid = thr[th].invalid
                 \/ (registers /\ (~(proc.requested_threads > 0) \/ thr[th].joined)),
          ![th].serving = thr[th].serving /\ out # "reply",
          ![th].todo = IF out = "reply" THEN Append(thr[th].todo, "complete")
                       ELSE thr[th].todo]
    BY <1>1 DEF IoctlWrite, ThreadRec
  <2> QED BY <2>1, <2>2, <2>3, <2>4, <2>5
<1>8. /\ proc' \in ProcRec /\ proc'.todo = proc.todo
      /\ proc'.waiting_threads = proc.waiting_threads
      /\ proc'.max_threads = proc.max_threads
      /\ registers => /\ proc'.requested_threads = 0
                      /\ proc'.requested_threads_started = proc.requested_threads_started + 1
      /\ ~registers => proc' = proc
  <2>1. CASE ~registers
    BY <2>1, <1>1 DEF IoctlWrite
  <2>2. CASE registers
    <3>1. proc' = [proc EXCEPT !.requested_threads = proc.requested_threads - 1,
                  !.requested_threads_started = proc.requested_threads_started + 1]
      BY <2>2, <1>5 DEF IoctlWrite
    <3>2. PICK n \in Nat : n = proc.requested_threads_started + 1
      BY <1>1
    <3>3. proc.requested_threads - 1 = 0
      BY <2>2, <1>5
    <3>4. proc' = [proc EXCEPT !.requested_threads = 0, !.requested_threads_started = n]
      BY <3>1, <3>2, <3>3
    <3>5. /\ proc' \in ProcRec /\ proc'.todo = proc.todo
          /\ proc'.waiting_threads = proc.waiting_threads
          /\ proc'.max_threads = proc.max_threads
          /\ proc'.requested_threads = 0 /\ proc'.requested_threads_started = n
      BY <3>4, <1>1 DEF ProcRec
    <3> QED BY <2>2, <3>2, <3>5
  <2> QED BY <2>1, <2>2
<1> HIDE DEF out
<1>9. TypeOK'
  <2>1. pc' \in [Threads -> Places]
    BY <1>1, <1>3 DEF Places, InDriver
  <2>2. thr' \in [Threads -> ThreadRec]
    BY <1>1, <1>7 DEF ThreadRec
  <2>3. io' \in [Threads -> IoRec]
    BY <1>1, <1>3 DEF IoRec
  <2> QED BY <1>1, <1>2, <1>8, <2>1, <2>2, <2>3, Types DEF TypeOK, ThreadRec, IoRec, ProcRec
<1>10. /\ pc'[th] = "retry" /\ thr'[th].joined /\ thr'[th].intr = thr[th].intr
       /\ ~thr'[th].invalid
       /\ io'[th].out = "none" /\ io'[th].spawn = io[th].spawn
       /\ io'[th].isMain = io[th].isMain
       /\ \A u \in Threads \ {th} : pc'[u] = pc[u] /\ thr'[u] = thr[u] /\ io'[u] = io[u]
  BY <1>1, <1>3, <1>7 DEF ThreadRec, IoRec
<1>11. ThreadOK(th)'
  BY <1>2, <1>10 DEF ThreadOK, InDriver
<1>12. Frame(th)
  BY <1>2, <1>10 DEF Frame
<1>13. th \notin Responsible /\ Sleepers \ {th} = Sleepers /\ state.configured
  BY <1>2, UpConfigured DEF Responsible, Sleepers
<1>14. ListOf(proc'.waiting_threads, Sleepers') /\ Wake'
  BY <1>8, <1>12, <1>13, FrameList, FrameWake DEF Sound
<1>15. \A u \in Threads : ThreadOK(u)'
  BY <1>11, <1>12, FrameOK DEF Sound
<1>16. Counted'
  <2>1. CASE ~registers
    <3>1. Quiet(th)
      BY <2>1, <1>2, <1>8, <1>10, <1>12, <1>13 DEF Quiet, Past
    <3> QED BY <3>1, QuietCounted DEF Sound
  <2>2. CASE registers
    <3>1. Unconfigured' /\ Configured' /\ Polling'
      BY <1>2, <1>8, <1>10, <1>13
      DEF Sound, Counted, Unconfigured, Configured, Polling
    <3>2. \A u \in Threads \ {th} : ~Token(u)
      BY <2>2, <1>5 DEF Sound, Counted, Tokens
    <3>3. \A u \in Threads : ~Token(u)'
      BY <2>2, <3>2, <1>5, <1>10 DEF Token
    <3>4. Tokens'
      BY <3>3 DEF Tokens
    <3>5. Live' = Live /\ th \in Live' /\ th \notin Past'
      BY <1>2, <1>10 DEF Live, Past
    <3>6. Starting /\ ~Starting'
      BY <2>2, <3>2, <1>5, <1>8 DEF Starting, Token
    <3>7. Size'
      BY <2>2, <3>5, <3>6, <1>1, <1>2, <1>8 DEF Sound, Counted, Size, One
    <3>8. Growth'
      BY <3>5 DEF Growth
    <3> QED BY <3>1, <3>4, <3>7, <3>8 DEF Counted
  <2> QED BY <2>1, <2>2
<1> QED BY <1>9, <1>14, <1>15, <1>16 DEF Sound
(* A thread that is not asked to spawn another, although there may be      *)
(* more, leaves one behind that waits.                                     *)
LEMMA ReadDoneSound ==
  ASSUME Sound, NEW th \in Threads, ReadDone(th)
  PROVE  Sound'
<1> DEFINE b == AsksForThread(th)
<1>1. pc \in [Threads -> Places] /\ io \in [Threads -> IoRec] /\ proc \in ProcRec /\ TypeOK
  BY Types DEF Sound
<1>2. ThreadOK(th) /\ pc[th] = "done" /\ UNCHANGED <<thr, awake, state, work>>
  BY DEF Sound, ReadDone
<1>3. pc' = [pc EXCEPT ![th] = "tail"] /\ io' = [io EXCEPT ![th].spawn = b]
  BY DEF ReadDone
<1>4. b \in BOOLEAN
  BY DEF AsksForThread
<1>5. thr[th].joined /\ ~thr[th].intr
  BY <1>2 DEF ThreadOK, InDriver
<1>6. b <=> /\ proc.requested_threads = 0 /\ proc.waiting_threads = <<>>
            /\ proc.requested_threads_started < proc.max_threads
  BY <1>5 DEF AsksForThread
<1>7. /\ proc' \in ProcRec /\ proc'.todo = proc.todo
      /\ proc'.waiting_threads = proc.waiting_threads
      /\ proc'.max_threads = proc.max_threads
      /\ proc'.requested_threads_started = proc.requested_threads_started
      /\ b => proc'.requested_threads = 1
      /\ ~b => proc'.requested_threads = proc.requested_threads
  <2>1. CASE b
    <3>1. proc' = [proc EXCEPT !.requested_threads = proc.requested_threads + 1]
      BY <2>1 DEF ReadDone
    <3>2. proc' = [proc EXCEPT !.requested_threads = 1]
      BY <3>1, <2>1, <1>6
    <3> QED BY <3>2, <2>1, <1>1 DEF ProcRec
  <2>2. CASE ~b
    BY <2>2, <1>1 DEF ReadDone
  <2> QED BY <2>1, <2>2
<1> HIDE DEF b
<1>8. TypeOK'
  <2>1. pc' \in [Threads -> Places]
    BY <1>1, <1>3 DEF Places, InDriver
  <2>2. io' \in [Threads -> IoRec]
    BY <1>1, <1>3, <1>4 DEF IoRec
  <2> QED BY <1>1, <1>2, <1>7, <2>1, <2>2, Types DEF TypeOK, IoRec, ProcRec
<1>9. /\ pc'[th] = "tail" /\ io'[th].out = io[th].out /\ io'[th].spawn = b
      /\ io'[th].isMain = io[th].isMain
      /\ \A u \in Threads \ {th} : pc'[u] = pc[u] /\ io'[u] = io[u]
  BY <1>1, <1>3 DEF IoRec
<1>10. ThreadOK(th)'
  BY <1>2, <1>5, <1>9 DEF ThreadOK, InDriver
<1>11. Frame(th)
  BY <1>2, <1>9 DEF Frame
<1>12. Sleepers \ {th} = Sleepers /\ state.configured /\ th \in Responsible'
  BY <1>2, <1>9, UpConfigured DEF Responsible, Sleepers
<1>13. ListOf(proc'.waiting_threads, Sleepers') /\ Wake'
  BY <1>7, <1>11, <1>12, FrameList, FrameWake DEF Sound
<1>14. \A u \in Threads : ThreadOK(u)'
  BY <1>10, <1>11, FrameOK DEF Sound
<1>15. Unconfigured' /\ Configured' /\ Polling'
  BY <1>2, <1>7, <1>9, <1>12 DEF Sound, Counted, Unconfigured, Configured, Polling
<1>16. Live' = Live
  BY <1>2, <1>9 DEF Live
<1>17. CASE b
  <2>1. \A u \in Threads : ~Token(u)
    BY <1>6, <1>17 DEF Sound, Counted, Tokens
  <2>2. \A u \in Threads \ {th} : ~Token(u)'
    BY <2>1, <1>2, <1>9 DEF Token
  <2>3. Tokens'
    BY <2>2, <1>7, <1>17 DEF Tokens
  <2>4. ~Starting /\ ~Starting'
    <3>1. io'[th].spawn /\ proc.requested_threads = 0
      BY <1>6, <1>9, <1>17
    <3> QED BY <3>1 DEF Starting
  <2>5. Size'
    BY <2>4, <1>2, <1>7, <1>16 DEF Sound, Counted, Size, One
  <2>6. Growth'
    BY <1>7, <1>17 DEF Growth
  <2> QED BY <1>8, <1>13, <1>14, <1>15, <2>3, <2>5, <2>6 DEF Sound, Counted
<1>18. CASE ~b
  <2>1. ~io'[th].spawn
    BY <1>9, <1>18
  <2>2. \A u \in Threads : Token(u)' => Token(u)
    BY <2>1, <1>2, <1>9 DEF Token
  <2>3. Tokens'
    BY <2>2, <1>7, <1>18 DEF Sound, Counted, Tokens
  <2>4. Starting => Starting'
    BY <2>1, <1>7, <1>9, <1>18 DEF Starting
  <2>5. Size'
    <3>1. proc.requested_threads_started \in Nat /\ Cardinality(Live) \in Nat
      <4>1. Live \subseteq Threads
        BY DEF Live
      <4>2. IsFiniteSet(Live)
        BY <4>1, ThreadsFacts, FS_Subset
      <4> QED BY <4>2, <1>1, FS_CardinalityType DEF ProcRec
    <3> QED BY <2>4, <3>1, <1>2, <1>7, <1>16, <1>18 DEF Sound, Counted, Size, One
  <2>6. Growth'
    <3>1. CASE proc.waiting_threads = <<>>
      BY <3>1, <1>6, <1>7, <1>18 DEF Growth
    <3>2. CASE proc.waiting_threads # <<>>
      <4>1. PICK u \in Sleepers : TRUE
        BY <3>2, TailList DEF Sound
      <4>2. u \in Live' /\ u \notin Past'
        BY <1>2, <1>9 DEF Sleepers, Live, Past
      <4> QED BY <4>2 DEF Growth
    <3> QED BY <3>1, <3>2
  <2> QED BY <1>8, <1>13, <1>14, <1>15, <2>3, <2>5, <2>6 DEF Sound, Counted
<1> QED BY <1>4, <1>17, <1>18

\* What SpawnPooledThread does when there is a name for the thread.
Spawns(isMain, B) ==
  \E new \in Threads :
    /\ pc[new] = "none"
    /\ pc' = [pc EXCEPT ![new] = "spawned"]
    /\ io' = [B EXCEPT ![new] = NewIo(isMain)]

LEMMA SpawnCases ==
  ASSUME NEW isMain, NEW B, SpawnPooledThread(isMain, B)
  PROVE  (pc' = pc /\ io' = B) \/ Spawns(isMain, B)
<1> DEFINE free == {th \in Threads : pc[th] = "none"}
<1>1. CASE free = {}
  BY <1>1 DEF SpawnPooledThread
<1>2. CASE free # {}
  <2>1. PICK new \in free : new = CHOOSE th \in free : TRUE
    BY <1>2
  <2> QED BY <1>2, <2>1 DEF SpawnPooledThread, Spawns
<1> QED BY <1>1, <1>2
(* A thread is started: what is new is the thread, not yet registered.     *)
LEMMA SpawnedThread ==
  ASSUME TypeOK, NEW new \in Threads, ThreadOK(new), pc[new] = "none",
         NEW isMain \in BOOLEAN, NEW B \in [Threads -> IoRec], thr' = thr,
         pc' = [pc EXCEPT ![new] = "spawned"], io' = [B EXCEPT ![new] = NewIo(isMain)]
  PROVE  /\ pc' \in [Threads -> Places] /\ io' \in [Threads -> IoRec]
         /\ pc'[new] = "spawned" /\ io'[new] = NewIo(isMain) /\ ~thr[new].joined
         /\ ThreadOK(new)'
         /\ \A u \in Threads \ {new} : pc'[u] = pc[u] /\ io'[u] = B[u]
         /\ Live' = Live \cup {new} /\ Cardinality(Live') = Cardinality(Live) + 1
         /\ Cardinality(Live) \in Nat
<1>1. pc \in [Threads -> Places]
  BY Types
<1>2. NewIo(isMain) \in IoRec /\ "spawned" \in Places
  BY DEF NewIo, IoRec, Places, InUser
<1>3. /\ pc' \in [Threads -> Places] /\ io' \in [Threads -> IoRec]
      /\ pc'[new] = "spawned" /\ io'[new] = NewIo(isMain)
      /\ \A u \in Threads \ {new} : pc'[u] = pc[u] /\ io'[u] = B[u]
  BY <1>1, <1>2
<1>4. ~thr[new].joined /\ ~thr[new].intr /\ ~thr[new].invalid
  BY DEF ThreadOK
<1>5. ThreadOK(new)'
  BY <1>3, <1>4 DEF ThreadOK, NewIo, InDriver
<1>6. Live' = Live \cup {new} /\ new \notin Live /\ Live \subseteq Threads
  BY <1>3 DEF Live
<1>7. IsFiniteSet(Live)
  BY <1>6, ThreadsFacts, FS_Subset
<1>8. Cardinality(Live') = Cardinality(Live) + 1 /\ Cardinality(Live) \in Nat
  BY <1>6, <1>7, FS_AddElement, FS_CardinalityType
<1> QED BY <1>3, <1>4, <1>5, <1>6, <1>8

(* BR_SPAWN_LOOPER hands the request on to the thread it starts, or loses  *)
(* it.                                                                     *)
LEMMA SpawnLooperSound ==
  ASSUME Sound, NEW th \in Threads, SpawnLooper(th)
  PROVE  Sound'
<1> DEFINE B == [io EXCEPT ![th].spawn = FALSE]
<1>1. pc \in [Threads -> Places] /\ io \in [Threads -> IoRec] /\ proc \in ProcRec /\ TypeOK
      /\ \A u \in Threads : ThreadOK(u)
  BY Types DEF Sound
<1>2. ThreadOK(th) /\ pc[th] = "cmds" /\ io[th].spawn /\ thr[th].joined
      /\ UNCHANGED <<proc, thr, awake, state, work>> /\ state.configured
  BY <1>1, UpConfigured DEF SpawnLooper, ThreadOK
<1>3. /\ B \in [Threads -> IoRec] /\ ~B[th].spawn /\ B[th].isMain = io[th].isMain
      /\ B[th].out = io[th].out /\ \A u \in Threads \ {th} : B[u] = io[u]
  BY <1>1 DEF IoRec
<1>4. \/ pc' = pc /\ io' = B
      \/ state.mThreadPoolStarted /\ Spawns(FALSE, B)
  BY SpawnCases DEF SpawnLooper
<1> HIDE DEF B
<1>5. Token(th) /\ proc.requested_threads = 1 /\ \A u \in Threads \ {th} : ~Token(u)
  BY <1>2 DEF Token, Sound, Counted, Tokens
<1>6. ~Starting
  BY <1>2 DEF Starting
<1>7. CASE pc' = pc /\ io' = B
  <2>1. TypeOK'
    BY <1>1, <1>2, <1>3, <1>7, Types DEF TypeOK, IoRec
  <2>2. ThreadOK(th)'
    BY <1>2, <1>3, <1>7 DEF ThreadOK
  <2>3. Frame(th)
    BY <1>2, <1>3, <1>7 DEF Frame
  <2>4. \A u \in Threads : ThreadOK(u)'
    BY <1>1, <2>2, <2>3, FrameOK
  <2>5. Wake' /\ ListOf(proc'.waiting_threads, Sleepers')
    BY <1>2, <1>7 DEF Sound, Wake, Responsible, Sleepers
  <2>6. Unconfigured' /\ Configured' /\ Polling'
    BY <1>2, <1>7 DEF Sound, Counted, Unconfigured, Configured, Polling
  <2>7. \A u \in Threads : ~Token(u)'
    BY <1>2, <1>3, <1>5, <1>7 DEF Token
  <2>8. Tokens'
    BY <2>7 DEF Tokens
  <2>9. Live' = Live /\ IsFiniteSet(Live)
    <3>1. Live \subseteq Threads
      BY DEF Live
    <3> QED BY <3>1, <1>7, ThreadsFacts, FS_Subset DEF Live
  <2>10. Size'
    <3>1. Cardinality(Live) \in Nat /\ proc.requested_threads_started \in Nat
      BY <2>9, <1>1, FS_CardinalityType DEF ProcRec
    <3> QED BY <3>1, <2>9, <1>2, <1>6 DEF Sound, Counted, Size, One
  <2>11. Growth'
    BY <1>2, <1>5 DEF Growth
  <2> QED BY <2>1, <2>4, <2>5, <2>6, <2>8, <2>10, <2>11 DEF Sound, Counted
<1>8. CASE state.mThreadPoolStarted /\ Spawns(FALSE, B)
  <2>1. PICK new \in Threads :
          /\ pc[new] = "none"
          /\ pc' = [pc EXCEPT ![new] = "spawned"]
          /\ io' = [B EXCEPT ![new] = NewIo(FALSE)]
    BY <1>8 DEF Spawns
  <2>2. /\ pc' \in [Threads -> Places] /\ io' \in [Threads -> IoRec]
        /\ pc'[new] = "spawned" /\ io'[new] = NewIo(FALSE) /\ ~thr[new].joined
        /\ ThreadOK(new)'
        /\ \A u \in Threads \ {new} : pc'[u] = pc[u] /\ io'[u] = B[u]
        /\ Live' = Live \cup {new} /\ Cardinality(Live') = Cardinality(Live) + 1
        /\ Cardinality(Live) \in Nat
    BY <2>1, <1>1, <1>2, <1>3, SpawnedThread
  <2>3. TypeOK'
    BY <2>2, <1>1, <1>2, Types DEF TypeOK, IoRec
  <2>4. new # th
    BY <2>1, <1>2
  <2>5. \A u \in Threads : ThreadOK(u)'
    <3> SUFFICES ASSUME NEW u \in Threads, u # new PROVE ThreadOK(u)'
      BY <2>2
    <3>1. /\ ThreadOK(u) /\ pc'[u] = pc[u] /\ io'[u].out = io[u].out
          /\ io'[u].isMain = io[u].isMain
          /\ io'[u].spawn => io[u].spawn
      BY <2>2, <1>1, <1>3
    <3>2. u # th => io'[u] = io[u]
      BY <2>2, <1>3
    <3>3. CASE u = th
      BY <3>1, <3>3, <1>2 DEF ThreadOK
    <3>4. CASE u # th
      BY <3>1, <3>2, <3>4, <1>2 DEF ThreadOK
    <3> QED BY <3>3, <3>4
  <2>6. Sleepers' = Sleepers /\ Responsible' = Responsible
    BY <2>1, <2>2, <1>2 DEF Sleepers, Responsible
  <2>7. Wake' /\ ListOf(proc'.waiting_threads, Sleepers')
    BY <2>6, <1>2 DEF Sound, Wake
  <2>8. ~state.mIsPollingThread
    BY <1>8 DEF Sound, Counted, Polling
  <2>9. Unconfigured' /\ Configured' /\ Polling'
    BY <2>8, <1>2 DEF Sound, Counted, Unconfigured, Configured, Polling
  <2>10. \A u \in Threads \ {new} : ~Token(u)'
    BY <2>2, <1>2, <1>3, <1>5 DEF Token
  <2>11. Tokens'
    BY <2>10, <1>2, <1>5 DEF Tokens
  <2>12. \A u \in Threads : ~io'[u].spawn
    BY <2>2, <2>10 DEF Token, NewIo
  <2>13. Starting'
    BY <2>12, <1>2, <1>5 DEF Starting
  <2>14. Size'
    <3>1. proc.requested_threads_started \in Nat
      BY <1>1 DEF ProcRec
    <3> QED BY <3>1, <2>2, <2>13, <1>2, <1>6 DEF Sound, Counted, Size, One
  <2>15. Growth'
    BY <1>2, <1>5 DEF Growth
  <2> QED BY <2>3, <2>5, <2>7, <2>9, <2>11, <2>14, <2>15 DEF Sound, Counted
<1> QED BY <1>4, <1>7, <1>8

(* startThreadPool starts its thread once.                                 *)
LEMMA StartThreadPoolSound ==
  ASSUME Sound, StartThreadPool
  PROVE  Sound'
<1>1. pc \in [Threads -> Places] /\ io \in [Threads -> IoRec] /\ proc \in ProcRec /\ TypeOK
      /\ \A u \in Threads : ThreadOK(u)
  BY Types DEF Sound
<1>2. /\ state.configured /\ ~state.mThreadPoolStarted /\ ~state.mIsPollingThread
      /\ state' = [state EXCEPT !.mThreadPoolStarted = TRUE]
      /\ UNCHANGED <<proc, thr, awake, work>>
  BY DEF StartThreadPool
<1>3. /\ state'.configured /\ state'.mThreadPoolStarted /\ ~state'.mIsPollingThread
      /\ state'.mSpawnThreadOnStart = state.mSpawnThreadOnStart
      /\ state' \in [configured : BOOLEAN, mThreadPoolStarted : BOOLEAN,
                     mSpawnThreadOnStart : BOOLEAN, mDriverFD : BOOLEAN,
                     mIsPollingThread : BOOLEAN, closed : BOOLEAN, flushed : BOOLEAN]
  BY <1>1, <1>2, Types
<1>4. Unconfigured' /\ Configured' /\ Polling'
  BY <1>2, <1>3 DEF Sound, Counted, Unconfigured, Configured, Polling
<1>5. state.mSpawnThreadOnStart = SpawnsOnStart
  BY <1>2 DEF Sound, Counted, Configured
<1>6. (pc' = pc /\ io' = io) \/ (SpawnsOnStart /\ Spawns(TRUE, io))
  <2>1. CASE state.mSpawnThreadOnStart
    <3>1. SpawnPooledThread(TRUE, io)
      BY <2>1 DEF StartThreadPool
    <3> QED BY <3>1, <2>1, <1>5, SpawnCases
  <2>2. CASE ~state.mSpawnThreadOnStart
    BY <2>2 DEF StartThreadPool
  <2> QED BY <2>1, <2>2
<1>7. Live \subseteq Threads /\ IsFiniteSet(Live) /\ Cardinality(Live) \in Nat
      /\ proc.requested_threads_started \in Nat
  <2>1. Live \subseteq Threads
    BY DEF Live
  <2>2. IsFiniteSet(Live)
    BY <2>1, ThreadsFacts, FS_Subset
  <2> QED BY <2>1, <2>2, <1>1, FS_CardinalityType DEF ProcRec
<1>8. CASE pc' = pc /\ io' = io
  <2>1. TypeOK'
    BY <1>1, <1>2, <1>3, <1>8, Types DEF TypeOK
  <2>2. \A u \in Threads : ThreadOK(u)'
    BY <1>1, <1>2, <1>8 DEF ThreadOK
  <2>3. Wake' /\ ListOf(proc'.waiting_threads, Sleepers')
    BY <1>2, <1>8 DEF Sound, Wake, Responsible, Sleepers
  <2>4. Tokens'
    BY <1>2, <1>8 DEF Sound, Counted, Tokens, Token
  <2>5. Live' = Live /\ Past' = Past /\ (Starting' <=> Starting)
    BY <1>2, <1>8 DEF Live, Past, Starting
  <2>6. Size'
    BY <2>5, <1>2, <1>3, <1>7 DEF Sound, Counted, Size, One
  <2>7. Growth'
    BY <2>5, <1>2 DEF Sound, Counted, Growth
  <2> QED BY <1>4, <2>1, <2>2, <2>3, <2>4, <2>6, <2>7 DEF Sound, Counted
<1>9. CASE SpawnsOnStart /\ Spawns(TRUE, io)
  <2>1. PICK new \in Threads :
          /\ pc[new] = "none"
          /\ pc' = [pc EXCEPT ![new] = "spawned"]
          /\ io' = [io EXCEPT ![new] = NewIo(TRUE)]
    BY <1>9 DEF Spawns
  <2>2. /\ pc' \in [Threads -> Places] /\ io' \in [Threads -> IoRec]
        /\ pc'[new] = "spawned" /\ io'[new] = NewIo(TRUE) /\ ~thr[new].joined
        /\ ThreadOK(new)'
        /\ \A u \in Threads \ {new} : pc'[u] = pc[u] /\ io'[u] = io[u]
        /\ Live' = Live \cup {new} /\ Cardinality(Live') = Cardinality(Live) + 1
        /\ Cardinality(Live) \in Nat
    BY <2>1, <1>1, <1>2, SpawnedThread
  <2>3. TypeOK'
    BY <2>2, <1>1, <1>2, <1>3, Types DEF TypeOK, IoRec
  <2>4. Frame(new)
    BY <2>2, <1>2 DEF Frame
  <2>5. \A u \in Threads : ThreadOK(u)'
    BY <2>2, <2>4, <1>1, FrameOK
  <2>6. Sleepers' = Sleepers /\ Responsible' = Responsible /\ Past' = Past
    BY <2>1, <2>2, <1>2 DEF Sleepers, Responsible, Past
  <2>7. Wake' /\ ListOf(proc'.waiting_threads, Sleepers')
    BY <2>6, <1>2 DEF Sound, Wake
  <2>8. io[new] = NewIo(TRUE)
    BY <2>1, <1>1 DEF ThreadOK
  <2>9. \A u \in Threads : io'[u] = io[u]
    BY <2>2, <2>8
  <2>10. Tokens' /\ (Starting' <=> Starting)
    BY <2>9, <1>2 DEF Sound, Counted, Tokens, Token, Starting
  <2>11. Size'
    BY <2>2, <2>10, <1>2, <1>3, <1>7, <1>9 DEF Sound, Counted, Size, One
  <2>12. Growth'
    BY <2>2, <2>6, <1>2 DEF Sound, Counted, Growth
  <2> QED BY <1>4, <2>3, <2>5, <2>7, <2>10, <2>11, <2>12 DEF Sound, Counted
<1> QED BY <1>6, <1>8, <1>9
(* The pool is configured while no thread is in it.                        *)
LEMMA SetThreadPoolConfigurationSound ==
  ASSUME Sound, SetThreadPoolConfiguration
  PROVE  Sound'
<1>1. proc \in ProcRec /\ TypeOK /\ KernelMaxThreads \in Nat /\ SpawnsOnStart \in BOOLEAN
  BY Types, KernelMaxThreadsNat DEF Sound, SpawnsOnStart
<1>2. /\ ~state.configured /\ UNCHANGED <<thr, pc, awake, io, work>>
      /\ state' = [state EXCEPT !.configured = TRUE, !.mSpawnThreadOnStart = SpawnsOnStart]
      /\ proc' = [proc EXCEPT !.max_threads = KernelMaxThreads]
  BY DEF SetThreadPoolConfiguration
<1>3. /\ state'.configured /\ state'.mThreadPoolStarted = state.mThreadPoolStarted
      /\ state'.mIsPollingThread = state.mIsPollingThread
      /\ state'.mSpawnThreadOnStart = SpawnsOnStart
      /\ state' \in [configured : BOOLEAN, mThreadPoolStarted : BOOLEAN,
                     mSpawnThreadOnStart : BOOLEAN, mDriverFD : BOOLEAN,
                     mIsPollingThread : BOOLEAN, closed : BOOLEAN, flushed : BOOLEAN]
  BY <1>1, <1>2, Types
<1>4. /\ proc' \in ProcRec /\ proc'.todo = proc.todo
      /\ proc'.waiting_threads = proc.waiting_threads
      /\ proc'.max_threads = KernelMaxThreads
      /\ proc'.requested_threads = proc.requested_threads
      /\ proc'.requested_threads_started = proc.requested_threads_started
  BY <1>1, <1>2 DEF ProcRec
<1>5. TypeOK'
  BY <1>1, <1>2, <1>3, <1>4, Types DEF TypeOK, ProcRec
<1>6. \A u \in Threads : ThreadOK(u)'
  BY <1>2 DEF Sound, ThreadOK
<1>7. Wake' /\ ListOf(proc'.waiting_threads, Sleepers')
  BY <1>2, <1>4 DEF Sound, Wake, Responsible, Sleepers
<1>8. ~state.mIsPollingThread /\ Past' = {}
  BY <1>2 DEF Sound, Counted, Unconfigured, Past
<1>9. Unconfigured' /\ Configured' /\ Polling'
  BY <1>3, <1>4, <1>8 DEF Unconfigured, Configured, Polling
<1>10. Tokens' /\ Live' = Live /\ (Starting' <=> Starting)
  BY <1>2, <1>4 DEF Sound, Counted, Tokens, Token, Live, Starting
<1>11. Size'
  BY <1>3, <1>4, <1>10 DEF Sound, Counted, Size, One
<1>12. Growth'
  BY <1>8 DEF Growth
<1> QED BY <1>5, <1>6, <1>7, <1>9, <1>10, <1>11, <1>12 DEF Sound, Counted

(* So is the thread that polls, which stays alone.                         *)
LEMMA SetupPollingSound ==
  ASSUME Sound, SetupPolling
  PROVE  Sound'
<1>1. proc \in ProcRec /\ TypeOK /\ thr \in [Threads -> ThreadRec]
      /\ io \in [Threads -> IoRec] /\ pc \in [Threads -> Places]
      /\ \A u \in Threads : ThreadOK(u)
  BY Types DEF Sound
<1>2. Caller \in Threads
  BY ThreadsFacts
<1>3. /\ Polls /\ ~state.configured /\ UNCHANGED <<awake, work>>
      /\ state' = [state EXCEPT !.configured = TRUE, !.mSpawnThreadOnStart = FALSE,
                                !.mIsPollingThread = TRUE]
      /\ proc' = [proc EXCEPT !.max_threads = 0]
      /\ thr' = [thr EXCEPT ![Caller].joined = TRUE, ![Caller].looper_need_return = FALSE]
      /\ io' = [io EXCEPT ![Caller].out = "none"]
      /\ pc' = [pc EXCEPT ![Caller] = "topoll"]
  BY DEF SetupPolling
<1>4. /\ state'.configured /\ state'.mThreadPoolStarted = state.mThreadPoolStarted
      /\ state'.mIsPollingThread
      /\ state' \in [configured : BOOLEAN, mThreadPoolStarted : BOOLEAN,
                     mSpawnThreadOnStart : BOOLEAN, mDriverFD : BOOLEAN,
                     mIsPollingThread : BOOLEAN, closed : BOOLEAN, flushed : BOOLEAN]
  BY <1>1, <1>3, Types
<1>5. /\ proc' \in ProcRec /\ proc'.waiting_threads = proc.waiting_threads
      /\ proc'.max_threads = 0 /\ proc'.requested_threads_started \in Nat
  BY <1>1, <1>3 DEF ProcRec
<1>6. thr' \in [Threads -> ThreadRec]
  BY ZenonT(30), <1>1, <1>2, <1>3 DEF ThreadRec
<1>7. io' \in [Threads -> IoRec] /\ pc' \in [Threads -> Places]
  BY <1>1, <1>2, <1>3 DEF IoRec, Places, InUser
<1>8. TypeOK'
  BY <1>1, <1>3, <1>4, <1>5, <1>6, <1>7, Types DEF TypeOK, ProcRec, ThreadRec, IoRec
<1>9. /\ pc'[Caller] = "topoll" /\ thr'[Caller].joined /\ thr'[Caller].intr = thr[Caller].intr
      /\ thr'[Caller].invalid = thr[Caller].invalid /\ io'[Caller].out = "none"
      /\ io'[Caller].spawn = io[Caller].spawn /\ io'[Caller].isMain = io[Caller].isMain
      /\ \A u \in Threads \ {Caller} : pc'[u] = pc[u] /\ thr'[u] = thr[u] /\ io'[u] = io[u]
  BY <1>1, <1>2, <1>3 DEF ThreadRec, IoRec
<1>10. /\ \A u \in Threads : /\ pc[u] \in {"none", "caller"}
                             /\ pc[u] = "caller" => u = Caller
                             /\ io[u] = NewIo(TRUE)
       /\ proc.waiting_threads = <<>> /\ ~state.mThreadPoolStarted
  BY <1>3 DEF Sound, Counted, Unconfigured
<1>11. \A u \in Threads : ThreadOK(u)'
  <2>1. ThreadOK(Caller) /\ ~io[Caller].spawn
    BY <1>1, <1>2, <1>10 DEF NewIo
  <2>2. ThreadOK(Caller)'
    BY <2>1, <1>2, <1>9, <1>10 DEF ThreadOK, Caller
  <2>3. Frame(Caller)
    BY <1>3, <1>9 DEF Frame
  <2> QED BY <2>2, <2>3, <1>1, <1>2, FrameOK DEF Caller
<1>12. Wake' /\ ListOf(proc'.waiting_threads, Sleepers')
  BY <1>5, <1>10 DEF Sound, Wake, ListOf
<1>13. Polling'
  BY ZenonT(30), <1>3, <1>4, <1>5, <1>9, <1>10 DEF Polling
<1>14. Unconfigured' /\ Configured' /\ Size' /\ Growth'
  BY <1>4, <1>5 DEF Unconfigured, Configured, Size, Growth
<1>15. \A u \in Threads : ~Token(u)'
  <2>1. \A u \in Threads : ~io'[u].spawn /\ io'[u].isMain
    BY <1>9, <1>10 DEF NewIo
  <2> QED BY <2>1 DEF Token
<1>16. Tokens'
  BY <1>15 DEF Tokens
<1> QED BY <1>8, <1>11, <1>12, <1>13, <1>14, <1>16 DEF Sound, Counted

(* Before anything happens only the caller may be on its way.              *)
LEMMA InitSound == Init => Sound
<1> SUFFICES ASSUME Init PROVE Sound
  OBVIOUS
<1>1. TypeOK
  <2>1. proc \in ProcRec /\ proc.waiting_threads = <<>> /\ IsInjective(proc.waiting_threads)
    BY DEF Init, ProcRec, IsInjective
  <2>2. NewThread \in ThreadRec /\ NewIo(TRUE) \in IoRec
    BY DEF NewThread, ThreadRec, NewIo, IoRec
  <2>3. thr \in [Threads -> ThreadRec] /\ io \in [Threads -> IoRec]
    BY <2>2 DEF Init
  <2>4. pc \in [Threads -> Places]
    BY DEF Init, Places, InUser
  <2>5. /\ awake \in [Threads -> BOOLEAN]
        /\ state \in [configured : BOOLEAN, mThreadPoolStarted : BOOLEAN,
                      mSpawnThreadOnStart : BOOLEAN, mDriverFD : BOOLEAN,
                      mIsPollingThread : BOOLEAN, closed : BOOLEAN, flushed : BOOLEAN]
        /\ work \in [arrived : 0 .. MaxWork, handled : Nat]
    BY BoundAssumption DEF Init
  <2> QED BY <2>1, <2>3, <2>4, <2>5, Types
<1>2. \A u \in Threads : /\ thr[u] = NewThread /\ io[u] = NewIo(TRUE)
                         /\ pc[u] = IF u = Caller /\ CallerJoins THEN "caller" ELSE "none"
  BY DEF Init
<1>3. /\ proc.waiting_threads = <<>> /\ proc.todo = <<>> /\ proc.max_threads = 0
      /\ proc.requested_threads = 0 /\ proc.requested_threads_started = 0
      /\ ~state.configured /\ ~state.mThreadPoolStarted /\ ~state.mIsPollingThread
  BY DEF Init
<1>4. \A u \in Threads : ThreadOK(u)
  BY <1>2 DEF ThreadOK, NewThread, NewIo, InDriver
<1>5. Wake /\ ListOf(proc.waiting_threads, Sleepers)
  BY <1>3 DEF Wake, ListOf, IsInjective
<1>6. Unconfigured
  <2>1. \A u \in Threads : ~thr[u].joined /\ io[u] = NewIo(TRUE)
    <3>1. ~NewThread.joined
      BY DEF NewThread
    <3> QED BY <3>1, <1>2
  <2>2. \A u \in Threads : /\ pc[u] \in {"none", "caller"}
                           /\ pc[u] = "caller" => u = Caller /\ CallerJoins
    BY <1>2, PoolAssumption
  <2> QED BY <2>1, <2>2, <1>3 DEF Unconfigured
<1>7. Configured /\ Polling
  BY <1>3 DEF Configured, Polling
<1>8. Tokens
  BY <1>2 DEF Tokens, Token, NewIo
<1>9. Size
  <2>1. Live = IF CallerJoins THEN {Caller} ELSE {}
    BY <1>2, ThreadsFacts DEF Live
  <2>2. Cardinality({Caller}) = 1 /\ Cardinality({}) = 0
    BY FS_Singleton, FS_EmptySet
  <2>3. ~Starting
    BY <1>3 DEF Starting
  <2> QED BY <2>1, <2>2, <2>3, <1>3, PoolAssumption DEF Size, One
<1>10. Growth
  BY <1>3 DEF Growth
<1> QED BY <1>1, <1>4, <1>5, <1>6, <1>7, <1>8, <1>9, <1>10 DEF Sound, Counted
(* Every step preserves the invariant.                                     *)
LEMMA NextSound == Inv /\ [Next]_vars => Inv'
<1> SUFFICES ASSUME Inv, [Next]_vars PROVE Inv'
  OBVIOUS
<1>1. IInv'
  BY NextCounts DEF Inv
<1>2. Sound
  BY DEF Inv
<1>3. CASE ProcessSteps \/ StopProcess
  BY <1>1, <1>2, <1>3, SetThreadPoolConfigurationSound, StartThreadPoolSound,
     SetupPollingSound, StopSound, DeferredFlushSound DEF ProcessSteps, Inv
<1>4. CASE ArriveProc \/ \E w \in {"sync", "oneway"} : Arrive(w)
  BY <1>1, <1>2, <1>4, ArriveProcSound, ArriveSound DEF Inv
<1>5. CASE \E th \in Threads : ThreadSteps(th) \/ Interrupted(th)
  <2>1. PICK th \in Threads : ThreadSteps(th) \/ Interrupted(th)
    BY <1>5
  <2>2. CASE \/ JoinThreadPool(th) \/ TalkWithDriver(th) \/ IoctlRefused(th)
             \/ ReadRetry(th) \/ ReadNothing(th)
    BY <1>1, <1>2, <2>2, JoinThreadPoolSound, TalkWithDriverSound, IoctlRefusedSound,
       ReadRetrySound, ReadNothingSound DEF Inv
  <2>3. CASE ExecuteCommand(th) \/ FinishCommand(th) \/ Poll(th) \/ SpawnLooper(th)
    BY <1>1, <1>2, <2>3, ExecuteCommandSound, FinishCommandSound, PollSound,
       SpawnLooperSound DEF Inv
  <2>4. CASE \/ IoctlWrite(th) \/ WaitForWork(th) \/ Interrupted(th) \/ ReadWork(th)
             \/ ReadDone(th) \/ IoctlEnd(th)
    BY <1>1, <1>2, <2>4, IoctlWriteSound, WaitForWorkSound, InterruptedSound,
       ReadWorkSound, ReadDoneSound, IoctlEndSound DEF Inv
  <2> QED BY <2>1, <2>2, <2>3, <2>4 DEF ThreadSteps
<1>6. CASE UNCHANGED vars
  <2>1. UNCHANGED <<proc, thr, pc, awake, io, state, work>>
    BY <1>6 DEF vars
  <2>2. TypeOK' /\ \A u \in Threads : ThreadOK(u)'
    BY <1>2, <2>1 DEF Sound, TypeOK, ThreadOK
  <2>3. Wake' /\ ListOf(proc'.waiting_threads, Sleepers')
    BY <1>2, <2>1 DEF Sound, Wake, Responsible, Sleepers
  <2>4. Still
    BY <2>1 DEF Still
  <2> QED BY <1>1, <1>2, <2>2, <2>3, <2>4, StillCounted DEF Inv, Sound
<1> QED BY <1>3, <1>4, <1>5, <1>6 DEF Next

LEMMA InitInv == Init => Inv
BY InitCounts, InitSound DEF Inv

(* The caller, the thread of startThreadPool and those the driver asked    *)
(* for add up to no more than maxThreads.                                  *)
LEMMA InvBounded == Inv => PoolBounded
<1> SUFFICES ASSUME Inv PROVE PoolBounded
  OBVIOUS
<1>1. /\ RequestLimit /\ ConfiguredOnce /\ Size /\ Configured /\ Polling /\ Unconfigured
      /\ TypeOK /\ proc \in ProcRec
  BY Types DEF Inv, IInv, Sound, Counted
<1>2. /\ proc.requested_threads \in Nat /\ proc.requested_threads_started \in Nat
      /\ proc.max_threads \in Nat /\ MaxThreads \in Nat
  BY <1>1, PoolAssumption DEF ProcRec
<1>3. Live \subseteq Threads /\ IsFiniteSet(Live) /\ Cardinality(Live) \in Nat
  <2>1. Live \subseteq Threads
    BY DEF Live
  <2>2. IsFiniteSet(Live)
    BY <2>1, ThreadsFacts, FS_Subset
  <2> QED BY <2>1, <2>2, FS_CardinalityType
<1>4. Starting => proc.requested_threads = 1
  BY DEF Starting
<1>5. Cardinality(Live) <= MaxThreads
  <2>1. CASE state.mIsPollingThread
    <3>1. Live \subseteq {Caller} /\ MaxThreads > 0
      BY <2>1, <1>1, PoolAssumption DEF Polling, Live
    <3>2. Cardinality({Caller}) = 1 /\ IsFiniteSet({Caller})
      BY FS_Singleton
    <3>3. Cardinality(Live) <= 1
      BY <3>1, <3>2, FS_Subset
    <3> QED BY <3>1, <3>3, <1>2, <1>3
  <2>2. CASE ~state.mIsPollingThread
    <3>1. Cardinality(Live)
            <= One(CallerJoins) + One(state.mThreadPoolStarted /\ SpawnsOnStart)
               + proc.requested_threads_started + One(Starting)
      BY <2>2, <1>1 DEF Size
    <3>2. proc.requested_threads_started + One(Starting) <= proc.max_threads
      BY <1>1, <1>2, <1>4 DEF RequestLimit, One
    <3>3. proc.max_threads = 0 \/ proc.max_threads = KernelMaxThreads
      BY <2>2, <1>1 DEF Configured, ConfiguredOnce
    <3>4. ~state.configured => ~state.mThreadPoolStarted
      BY <1>1 DEF Unconfigured
    <3>5. One(CallerJoins) <= MaxThreads
      BY PoolAssumption DEF One
    <3>6. One(CallerJoins) + One(SpawnsOnStart) + KernelMaxThreads <= MaxThreads
      BY PoolAssumption DEF One, KernelMaxThreads, SpawnsOnStart
    <3>7. One(state.mThreadPoolStarted /\ SpawnsOnStart) <= One(SpawnsOnStart)
      BY DEF One
    <3>8. One(CallerJoins) \in Nat /\ One(SpawnsOnStart) \in Nat /\ One(Starting) \in Nat
          /\ One(state.mThreadPoolStarted /\ SpawnsOnStart) \in Nat
          /\ KernelMaxThreads \in Nat
      BY KernelMaxThreadsNat DEF One
    <3>9. 0 <= KernelMaxThreads
      BY <3>8
    <3> QED BY <3>1, <3>2, <3>3, <3>6, <3>7, <3>8, <3>9, <1>2, <1>3
  <2> QED BY <2>1, <2>2
<1> QED BY <1>5 DEF PoolBounded, Live

(* The pool has the size that was asked for and grows while all its        *)
(* threads are busy; whatever the sizes, the threads that cannot be        *)
(* started, the signals and the moment at which the process stops.         *)
THEOREM PoolCorrect == Spec => []PoolSound
<1>1. Inv => PoolSound
  <2> SUFFICES ASSUME Inv PROVE PoolSound
    OBVIOUS
  <2>1. TypeOK /\ proc \in ProcRec /\ Growth /\ RequestLimit /\ \A th \in Threads : ThreadOK(th)
    BY Types DEF Inv, IInv, Sound, Counted
  <2>2. RegistersOnRequest
    BY <2>1 DEF RegistersOnRequest, ThreadOK
  <2>3. GrowsWhenBusy
    <3> SUFFICES ASSUME \A th \in Threads : pc[th] \in {"exec", "none"},
                        \E th \in Threads : pc[th] = "exec",
                        proc.requested_threads = 0
                 PROVE  proc.requested_threads_started = proc.max_threads
      BY DEF GrowsWhenBusy
    <3>1. Past # {} /\ \A th \in Live : th \in Past
      BY DEF Past, Live
    <3>2. ~(proc.requested_threads_started < proc.max_threads)
      BY <3>1, <2>1 DEF Growth
    <3> QED BY <3>2, <2>1 DEF RequestLimit, ProcRec
  <2> QED BY <2>1, <2>2, <2>3, InvBounded DEF PoolSound
<1> QED BY InitInv, NextSound, <1>1, PTL DEF Spec

(* No wakeup is lost, although a thread is taken off the list before it    *)
(* runs and may find that another, or nobody, has taken the work.          *)
THEOREM WakeupsKept == Spec => []NoLostWakeup
<1>1. Inv => NoLostWakeup
  BY DEF Inv, Sound, ThreadOK, Wake, NoLostWakeup
<1> QED BY InitInv, NextSound, <1>1, PTL DEF Spec
-----------------------------------------------------------------------------
(* The other count of the pool's threads: those that execute a command     *)
(* (HwThreadCount).                                                        *)

CONSTANTS Pool, Outside, Maxima, MaxCommands
VARIABLES mExecutingThreadsCount, mMaxThreads, starved, place, commands
Count == INSTANCE HwThreadCount WITH pc <- place

Executing == {t \in Pool : place[t] = "exec"}

\* Threads of the pool execute and those outside of it wait.
CountTypes ==
  /\ mExecutingThreadsCount \in Nat /\ mMaxThreads \in Nat /\ commands \in Nat
  /\ starved \in BOOLEAN
  /\ place \in [Pool \cup Outside -> {"idle", "exec", "wait", "woken"}]
  /\ \A t \in Pool : place[t] \in {"idle", "exec"}

\* The count is the number of threads that execute; none does and nobody
\* waits before the pool is configured; who waits found the count too high.
CountInv ==
  /\ CountTypes
  /\ mExecutingThreadsCount = Cardinality(Executing)
  /\ mMaxThreads = 0 => mExecutingThreadsCount = 0 /\ Count!Waiting = {}
  /\ Count!Waiting # {} => mExecutingThreadsCount >= mMaxThreads
  /\ starved <=> mMaxThreads > 1 /\ mExecutingThreadsCount >= mMaxThreads

\* Finite sets are the same in both modules.
LEMMA CountFinite ==
  /\ Count!CountAssumption => IsFiniteSet(Pool)
  /\ \A S : Count!Cardinality(S) = Cardinality(S)
<1>1. Count!CountAssumption => IsFiniteSet(Pool)
  BY DEF Count!CountAssumption, Count!IsFiniteSet, IsFiniteSet
<1>2. \A S : Count!Cardinality(S) = Cardinality(S)
  BY DEF Count!Cardinality, Cardinality, Count!IsFiniteSet, IsFiniteSet
<1> QED BY <1>1, <1>2

LEMMA CountInit == ASSUME Count!CountAssumption, Count!Init PROVE CountInv
<1>1. CountTypes
  BY DEF Count!Init, CountTypes, Count!DEFAULT_MAX_BINDER_THREADS
<1>2. Executing = {} /\ Count!Waiting = {}
  BY DEF Count!Init, Executing, Count!Waiting
<1> QED
  BY <1>1, <1>2, FS_EmptySet DEF Count!Init, CountInv, Count!DEFAULT_MAX_BINDER_THREADS

\* A thread that begins a command is one more that executes.
LEMMA BeginKeeps ==
  ASSUME Count!CountAssumption, CountInv, NEW t \in Pool, Count!BeginCommand(t)
  PROVE  CountInv'
<1>1. CountTypes'
  BY DEF Count!CountAssumption, CountInv, CountTypes, Count!BeginCommand
<1>2. Executing' = Executing \cup {t} /\ t \notin Executing
  BY DEF CountInv, CountTypes, Count!BeginCommand, Executing
<1>3. Count!Waiting' = Count!Waiting
  BY DEF Count!CountAssumption, CountInv, CountTypes, Count!BeginCommand, Count!Waiting
<1>4. IsFiniteSet(Executing)
  BY CountFinite, FS_Subset DEF Executing
<1>5. Cardinality(Executing') = Cardinality(Executing) + 1
  BY <1>2, <1>4, FS_AddElement
<1>6. /\ mExecutingThreadsCount' = mExecutingThreadsCount + 1 /\ mMaxThreads' = mMaxThreads
      /\ mMaxThreads > 0
      /\ starved' = (starved \/ (mExecutingThreadsCount + 1 >= mMaxThreads /\ mMaxThreads > 1))
  BY DEF Count!BeginCommand
<1>7. starved' <=> mMaxThreads' > 1 /\ mExecutingThreadsCount' >= mMaxThreads'
  <2>1. CASE starved
    <3>1. starved'
      BY <1>6, <2>1, Zenon
    <3>2. mMaxThreads > 1 /\ mExecutingThreadsCount >= mMaxThreads
      BY <2>1 DEF CountInv
    <3> QED BY <1>6, <3>1, <3>2 DEF CountInv, CountTypes
  <2>2. CASE ~ starved
    BY <1>6, <2>2 DEF CountInv, CountTypes
  <2> QED BY <2>1, <2>2
<1>8. /\ mExecutingThreadsCount' = Cardinality(Executing')
      /\ mMaxThreads' # 0
      /\ Count!Waiting' # {} => mExecutingThreadsCount' >= mMaxThreads'
  BY <1>3, <1>5, <1>6 DEF CountInv, CountTypes
<1> QED
  BY <1>1, <1>7, <1>8 DEF CountInv

\* A thread that ends its command wakes everyone who waits.
LEMMA EndKeeps ==
  ASSUME Count!CountAssumption, CountInv, NEW t \in Pool, Count!EndCommand(t)
  PROVE  CountInv'
<1>1. Executing' = Executing \ {t} /\ t \in Executing
  BY DEF Count!CountAssumption, CountInv, CountTypes, Count!EndCommand, Executing, Count!Woken, Count!Waiting
<1>2. Count!Waiting' = {}
  BY DEF Count!CountAssumption, CountInv, CountTypes, Count!EndCommand, Count!Woken, Count!Waiting
<1>3. IsFiniteSet(Executing)
  BY CountFinite, FS_Subset DEF Executing
<1>4. Cardinality(Executing') = Cardinality(Executing) - 1
  BY <1>1, <1>3, FS_RemoveElement
<1>5. Cardinality(Executing) > 0
  BY <1>1, <1>3, FS_EmptySet, FS_CardinalityType
<1>6. /\ mExecutingThreadsCount' = mExecutingThreadsCount - 1 /\ mMaxThreads' = mMaxThreads
      /\ starved' = (starved /\ mExecutingThreadsCount - 1 >= mMaxThreads)
      /\ commands' = commands
  BY DEF Count!EndCommand
<1>7. /\ place' \in [Pool \cup Outside -> {"idle", "exec", "wait", "woken"}]
      /\ \A u \in Pool : place'[u] \in {"idle", "exec"}
  BY DEF Count!CountAssumption, CountInv, CountTypes, Count!EndCommand, Count!Woken, Count!Waiting
<1>8. CountTypes'
  BY <1>5, <1>6, <1>7 DEF CountInv, CountTypes
<1>9. starved' <=> mMaxThreads' > 1 /\ mExecutingThreadsCount' >= mMaxThreads'
  <2>1. CASE starved
    BY <1>6, <2>1 DEF CountInv, CountTypes
  <2>2. CASE ~ starved
    BY <1>6, <2>2 DEF CountInv, CountTypes
  <2> QED BY <2>1, <2>2
<1>10. /\ mExecutingThreadsCount' = Cardinality(Executing')
       /\ mMaxThreads' # 0
  BY <1>4, <1>5, <1>6 DEF CountInv, CountTypes
<1> QED
  BY <1>2, <1>8, <1>9, <1>10 DEF CountInv

LEMMA CountNext == ASSUME Count!CountAssumption, CountInv, [Count!Next]_(Count!vars) PROVE CountInv'
<1>1. CASE Count!setThreadPoolConfiguration
  <2>1. CountTypes' /\ Executing' = Executing /\ Count!Waiting' = Count!Waiting
    BY <1>1 DEF Count!setThreadPoolConfiguration, Count!CountAssumption, CountInv, CountTypes, Executing, Count!Waiting
  <2>2. /\ mMaxThreads = 0 /\ mMaxThreads' > 0
        /\ mExecutingThreadsCount' = mExecutingThreadsCount /\ starved' = starved
    BY <1>1 DEF Count!setThreadPoolConfiguration, Count!CountAssumption, Count!DEFAULT_MAX_BINDER_THREADS
  <2> QED BY <2>1, <2>2 DEF CountInv, CountTypes
<1>2. ASSUME NEW t \in Pool, Count!BeginCommand(t) PROVE CountInv'
  BY <1>2, BeginKeeps
<1>3. ASSUME NEW t \in Pool, Count!EndCommand(t) PROVE CountInv'
  BY <1>3, EndKeeps
<1>4. ASSUME NEW t \in Outside, Count!blockUntilThreadAvailable(t) PROVE CountInv'
  <2>1. CountTypes' /\ Executing' = Executing
    BY <1>4 DEF Count!blockUntilThreadAvailable, Count!CountAssumption, CountInv, CountTypes, Executing
  <2>2. Count!Waiting' # {} => Count!Waiting # {} \/ mExecutingThreadsCount >= mMaxThreads
    BY <1>4 DEF Count!blockUntilThreadAvailable, CountInv, CountTypes, Count!Waiting
  <2>3. /\ mMaxThreads > 0 /\ mMaxThreads' = mMaxThreads
        /\ mExecutingThreadsCount' = mExecutingThreadsCount /\ starved' = starved
    BY <1>4 DEF Count!blockUntilThreadAvailable
  <2> QED BY <2>1, <2>2, <2>3 DEF CountInv, CountTypes
<1>5. CASE UNCHANGED Count!vars
  BY <1>5 DEF Count!vars, CountInv, CountTypes, Executing, Count!Waiting
<1> QED
  BY <1>1, <1>2, <1>3, <1>4, <1>5 DEF Count!Next

\* Whatever the pool and the callers do: who waits in blockUntilThreadAvailable
\* has a thread that executes, and so will wake it; and the mark of starvation
\* is set exactly while as many threads execute as the maximum says.
THEOREM CountCorrect == ASSUME Count!CountAssumption PROVE Count!Spec => []Count!ThreadsCounted
<1>1. CountInv => Count!ThreadsCounted
  <2> SUFFICES ASSUME CountInv PROVE Count!ThreadsCounted
    OBVIOUS
  <2>1. Count!StarvationTimed
    BY CountFinite DEF CountInv, Count!StarvationTimed, Executing
  <2>2. Executing = {} => mExecutingThreadsCount = 0
    BY FS_EmptySet DEF CountInv
  <2>3. Count!WaitersHaveWaker
    BY <2>2 DEF CountInv, CountTypes, Count!WaitersHaveWaker, Executing
  <2> QED BY <2>1, <2>3 DEF Count!ThreadsCounted
<1> QED
  BY CountInit, CountNext, <1>1, PTL DEF Count!Spec
=============================================================================
