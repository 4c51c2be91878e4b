-------------------------- MODULE BinderThreadPool --------------------------
(***************************************************************************)
(* The threads of one process that wait for binder work: what the driver   *)
(* (binder.c) keeps of them, how it puts them to sleep, wakes them and     *)
(* asks for more, and how libhwbinder (ProcessState.cpp,                   *)
(* IPCThreadState.cpp) starts them and runs their loop.                    *)
(*                                                                         *)
(* A step is what the driver does under one hold of the inner lock, or     *)
(* what user space does between two reads of shared state.                 *)
(***************************************************************************)
EXTENDS Integers, Sequences, FiniteSets, SequencesExt

CONSTANTS
  MaxThreads,   (* maxThreads of setThreadPoolConfiguration                *)
  CallerJoins,  (* its callerJoinsPool                                     *)
  Polls,        (* a thread may call setupPolling instead of that          *)
  MaxWork,      (* work that arrives                                       *)
  NThreads,     (* names for threads                                       *)
  Faults        (* "spawn": a thread cannot be started                     *)

ASSUME PoolAssumption ==
  /\ MaxThreads \in Nat /\ CallerJoins \in BOOLEAN /\ Polls \in BOOLEAN
  /\ CallerJoins => MaxThreads > 0
  /\ Polls => MaxThreads > 0
ASSUME BoundAssumption == MaxWork \in Nat /\ NThreads \in Nat \ {0}

Threads == 1 .. NThreads
Caller == 1

VARIABLES
  proc,    (* struct binder_proc                                           *)
  thr,     (* struct binder_thread                                         *)
  pc,      (* where a thread is, in the driver or in its loop              *)
  awake,   (* a sleeping thread has been woken                             *)
  io,      (* the command buffers of a thread, mOut and mIn                *)
  state,   (* ProcessState                                                 *)
  work     (* how much has arrived and how much has been handled           *)

vars == <<proc, thr, pc, awake, io, state, work>>

InDriver == {"retry", "wait", "sleep", "loop", "done", "tail"}
InUser == {"spawned", "caller", "user", "enter", "cmds", "exec", "topoll", "poll"}
Places == InDriver \cup InUser \cup {"none", "left"}

\* A call to be answered, one that is not, or the notice of a reply sent.
Items == {"sync", "oneway", "complete"}

\* joined: REGISTERED or ENTERED; serving: transaction_stack is not NULL;
\* wait_for_proc_work: binder_thread_read's variable.
NewThread == [joined |-> FALSE, invalid |-> FALSE, waiting |-> FALSE,
              poll |-> FALSE, looper_need_return |-> TRUE, todo |-> <<>>,
              serving |-> FALSE, wait_for_proc_work |-> FALSE, intr |-> FALSE]

\* out: what the next write tells the driver; spawn, cmd: what was read.
NewIo(isMain) == [isMain |-> isMain, out |-> "join", spawn |-> FALSE, cmd |-> "none"]

Init ==
  /\ proc = [max_threads |-> 0, requested_threads |-> 0,
             requested_threads_started |-> 0, todo |-> <<>>,
             waiting_threads |-> <<>>]
  /\ thr = [th \in Threads |-> NewThread]
  /\ pc = [th \in Threads |-> IF th = Caller /\ CallerJoins THEN "caller" ELSE "none"]
  /\ awake = [th \in Threads |-> TRUE]
  /\ io = [th \in Threads |-> NewIo(TRUE)]
  /\ state = [configured |-> FALSE, mThreadPoolStarted |-> FALSE,
              mSpawnThreadOnStart |-> TRUE, mDriverFD |-> TRUE,
              mIsPollingThread |-> FALSE, closed |-> FALSE, flushed |-> FALSE]
  /\ work = [arrived |-> 0, handled |-> 0]
-----------------------------------------------------------------------------
(* ProcessState.                                                           *)

SpawnsOnStart == MaxThreads - (IF CallerJoins THEN 1 ELSE 0) > 0

\* What is left for the driver to ask for.
KernelMaxThreads ==
  MaxThreads - (IF CallerJoins THEN 1 ELSE 0) - (IF SpawnsOnStart THEN 1 ELSE 0)

SetThreadPoolConfiguration ==
  /\ ~state.configured
  /\ state' = [state EXCEPT !.configured = TRUE,
                            !.mSpawnThreadOnStart = SpawnsOnStart]
  /\ proc' = [proc EXCEPT !.max_threads = KernelMaxThreads]
  /\ UNCHANGED <<thr, pc, awake, io, work>>

\* A new thread, if there is a name left for it; B is what the other threads
\* have in their buffers then.
SpawnPooledThread(isMain, B) ==
  LET free == {th \in Threads : pc[th] = "none"}
      new == CHOOSE th \in free : TRUE
  IN IF free = {} THEN UNCHANGED pc /\ io' = B
     ELSE /\ pc' = [pc EXCEPT ![new] = "spawned"]
          /\ io' = [B EXCEPT ![new] = NewIo(isMain)]

StartThreadPool ==
  /\ state.configured /\ ~state.mThreadPoolStarted /\ ~state.mIsPollingThread
  /\ state' = [state EXCEPT !.mThreadPoolStarted = TRUE]
  /\ IF state.mSpawnThreadOnStart THEN SpawnPooledThread(TRUE, io)
     ELSE UNCHANGED <<pc, io>>
  /\ UNCHANGED <<proc, thr, awake, work>>

\* joinThreadPool of a thread that has just started, or of the caller, whether
\* or not the pool has been started.
JoinThreadPool(th) ==
  /\ pc[th] = "spawned" \/ (pc[th] = "caller" /\ state.configured)
  /\ pc' = [pc EXCEPT ![th] = "user"]
  /\ UNCHANGED <<proc, thr, awake, io, state, work>>

\* setupPolling, its setThreadPoolConfiguration(1, true) included, and the
\* flushCommands by which its caller tells the driver.
SetupPolling ==
  /\ Polls /\ ~state.configured
  /\ state' = [state EXCEPT !.configured = TRUE, !.mSpawnThreadOnStart = FALSE,
                            !.mIsPollingThread = TRUE]
  /\ proc' = [proc EXCEPT !.max_threads = 0]
  /\ thr' = [thr EXCEPT ![Caller].joined = TRUE, ![Caller].looper_need_return = FALSE]
  /\ io' = [io EXCEPT ![Caller].out = "none"]
  /\ pc' = [pc EXCEPT ![Caller] = "topoll"]
  /\ UNCHANGED <<awake, work>>
-----------------------------------------------------------------------------
(* Waiting and waking.                                                     *)

\* binder_available_for_proc_work_ilocked.
AvailableForProcWork(T, th) ==
  ~T[th].serving /\ T[th].todo = <<>> /\ T[th].joined

\* binder_has_work_ilocked; process_todo goes with the list here, no notice
\* being deferred.
HasWork(T, th) ==
  \/ T[th].todo # <<>>
  \/ T[th].looper_need_return
  \/ T[th].wait_for_proc_work /\ proc.todo # <<>>

\* list_del_init of a thread that may be on the list, once.
WaitingWithout(th) ==
  LET w == proc.waiting_threads
      on == {i \in DOMAIN w : w[i] = th}
  IN IF on = {} THEN w ELSE RemoveAt(w, CHOOSE i \in on : TRUE)

\* binder_wakeup_thread_ilocked without a thread: everyone who polls.
WakePolling ==
  [th \in Threads |-> awake[th] \/ (thr[th].poll /\ AvailableForProcWork(thr, th))]

\* binder_select_thread_ilocked and binder_wakeup_thread_ilocked, in P.
Selected(P) == IF P.waiting_threads = <<>> THEN 0 ELSE Head(P.waiting_threads)
Taken(P) == IF P.waiting_threads = <<>> THEN P
            ELSE [P EXCEPT !.waiting_threads = Tail(@)]
Woken(P) == IF P.waiting_threads = <<>> THEN WakePolling
            ELSE [awake EXCEPT ![Selected(P)] = TRUE]

\* A transaction arrives (binder_proc_transaction): on the list of a thread
\* that waits, else on the list of the process.
Arrive(w) ==
  LET s == Selected(proc)
  IN /\ work.arrived < MaxWork
     /\ work' = [work EXCEPT !.arrived = @ + 1]
     /\ IF s = 0 THEN proc' = [proc EXCEPT !.todo = Append(@, w)] /\ UNCHANGED thr
        ELSE proc' = Taken(proc) /\ thr' = [thr EXCEPT ![s].todo = Append(@, w)]
     /\ awake' = Woken(proc)
     /\ UNCHANGED <<pc, io, state>>

\* Work is put on the list of the process and then somebody is woken: the next
\* one-way call in binder_free_buf, a death notice in binder_node_release.
ArriveProc ==
  /\ work.arrived < MaxWork
  /\ work' = [work EXCEPT !.arrived = @ + 1]
  /\ proc' = Taken([proc EXCEPT !.todo = Append(@, "oneway")])
  /\ awake' = Woken(proc)
  /\ UNCHANGED <<thr, pc, io, state>>
-----------------------------------------------------------------------------
(* The loop of a thread: talkWithDriver, binder_ioctl, binder_thread_read. *)

\* talkWithDriver looks at mDriverFD.
TalkWithDriver(th) ==
  /\ pc[th] = "user"
  /\ pc' = [pc EXCEPT ![th] = IF state.mDriverFD THEN "enter" ELSE "left"]
  /\ UNCHANGED <<proc, thr, awake, io, state, work>>

\* The ioctl finds the file closed: EBADF ends the loop.
IoctlRefused(th) ==
  /\ pc[th] = "enter" /\ state.closed
  /\ pc' = [pc EXCEPT ![th] = "left"]
  /\ UNCHANGED <<proc, thr, awake, io, state, work>>

\* binder_thread_write: BC_ENTER_LOOPER, BC_REGISTER_LOOPER or BC_REPLY, or
\* nothing.
IoctlWrite(th) ==
  LET out == io[th].out
      asked == proc.requested_threads > 0
      registers == out = "join" /\ ~io[th].isMain
  IN /\ pc[th] = "enter" /\ ~state.closed
     /\ proc' = IF registers /\ asked
                THEN [proc EXCEPT !.requested_threads = @ - 1,
                                  !.requested_threads_started = @ + 1]
                ELSE proc
     /\ thr' = [thr EXCEPT
          ![th].joined = @ \/ out = "join",
          ![th].invalid = @ \/ (registers /\ (~asked \/ thr[th].joined)),
          ![th].serving = @ /\ out # "reply",
          ![th].todo = IF out = "reply" THEN Append(@, "complete") ELSE @]
     /\ io' = [io EXCEPT ![th].out = "none"]
     /\ pc' = [pc EXCEPT ![th] = "retry"]
     /\ UNCHANGED <<awake, state, work>>

\* The label retry of binder_thread_read.
ReadRetry(th) ==
  /\ pc[th] = "retry"
  /\ thr' = [thr EXCEPT ![th].wait_for_proc_work = AvailableForProcWork(thr, th),
                        ![th].waiting = TRUE]
  /\ pc' = [pc EXCEPT ![th] = "wait"]
  /\ UNCHANGED <<proc, awake, io, state, work>>

\* One turn of binder_wait_for_work: with the thread off the list of waiting
\* threads, it finds work or goes (back) to sleep.
WaitForWork(th) ==
  LET sleeps == ~HasWork(thr, th)
  IN /\ \/ pc[th] = "wait"
        \/ pc[th] = "sleep" /\ awake[th]
     /\ pc' = [pc EXCEPT ![th] = IF sleeps THEN "sleep" ELSE "loop"]
     /\ awake' = [awake EXCEPT ![th] = ~sleeps]
     /\ thr' = [thr EXCEPT ![th].waiting = sleeps]
     /\ proc' = [proc EXCEPT !.waiting_threads =
                   IF sleeps /\ thr[th].wait_for_proc_work
                   THEN <<th>> \o WaitingWithout(th) ELSE WaitingWithout(th)]
     /\ UNCHANGED <<io, state, work>>

\* A signal ends the sleep and the read.
Interrupted(th) ==
  /\ pc[th] = "sleep"
  /\ pc' = [pc EXCEPT ![th] = "tail"]
  /\ awake' = [awake EXCEPT ![th] = TRUE]
  /\ thr' = [thr EXCEPT ![th].waiting = FALSE, ![th].intr = TRUE]
  /\ proc' = [proc EXCEPT !.waiting_threads = WaitingWithout(th)]
  /\ UNCHANGED <<io, state, work>>

\* The loop of binder_thread_read takes a piece of work; a notice lets it go
\* on, a transaction ends it.
ReadWork(th) ==
  LET own == thr[th].todo # <<>>
      w == IF own THEN Head(thr[th].todo) ELSE Head(proc.todo)
  IN /\ pc[th] = "loop"
     /\ own \/ (thr[th].wait_for_proc_work /\ proc.todo # <<>>)
     /\ thr' = [thr EXCEPT ![th].todo = IF own THEN Tail(@) ELSE @,
                           ![th].serving = @ \/ w = "sync"]
     /\ proc' = IF own THEN proc ELSE [proc EXCEPT !.todo = Tail(@)]
     /\ io' = [io EXCEPT ![th].cmd = w]
     /\ pc' = [pc EXCEPT ![th] = IF w = "complete" THEN "loop" ELSE "done"]
     /\ UNCHANGED <<awake, state, work>>

\* No work: back to retry, unless something was read or the thread is to
\* return.
ReadNothing(th) ==
  /\ pc[th] = "loop"
  /\ thr[th].todo = <<>>
  /\ thr[th].wait_for_proc_work => proc.todo = <<>>
  /\ pc' = [pc EXCEPT ![th] =
              IF io[th].cmd = "none" /\ ~thr[th].looper_need_return
              THEN "retry" ELSE "done"]
  /\ UNCHANGED <<proc, thr, awake, io, state, work>>

\* Mutant: one thread more than allowed.
AsksForThread_OneMore(th) ==
  /\ proc.requested_threads = 0
  /\ proc.waiting_threads = <<>>
  /\ proc.requested_threads_started <= proc.max_threads
  /\ thr[th].joined

\* Mutant: only when there is work that nobody has taken.
AsksForThread_IfWork(th) ==
  /\ proc.requested_threads = 0
  /\ proc.waiting_threads = <<>> /\ proc.todo # <<>>
  /\ proc.requested_threads_started < proc.max_threads
  /\ thr[th].joined

\* The driver has BR_SPAWN_LOOPER to say: nobody is left to wait.
AsksForThread(th) ==
  /\ proc.requested_threads = 0
  /\ proc.waiting_threads = <<>>
  /\ proc.requested_threads_started < proc.max_threads
  /\ thr[th].joined

\* The end of binder_thread_read.
ReadDone(th) ==
  /\ pc[th] = "done"
  /\ proc' = IF AsksForThread(th) THEN [proc EXCEPT !.requested_threads = @ + 1]
             ELSE proc
  /\ io' = [io EXCEPT ![th].spawn = AsksForThread(th)]
  /\ pc' = [pc EXCEPT ![th] = "tail"]
  /\ UNCHANGED <<thr, awake, state, work>>

\* Where a thread goes from the ioctl: talkWithDriver tries again after a
\* signal, unless the file is gone.
AfterIoctl(th) ==
  IF ~state.mDriverFD THEN "left" ELSE IF thr[th].intr THEN "enter" ELSE "cmds"

\* Mutant: work that is left is left.
IoctlEnd_NoWakeup(th) ==
  /\ pc[th] = "tail"
  /\ pc' = [pc EXCEPT ![th] = AfterIoctl(th)]
  /\ thr' = [thr EXCEPT ![th].looper_need_return = FALSE, ![th].intr = FALSE]
  /\ UNCHANGED <<proc, awake, io, state, work>>

\* The end of binder_ioctl_write_read and of binder_ioctl.
IoctlEnd(th) ==
  /\ pc[th] = "tail"
  /\ IF proc.todo # <<>> THEN proc' = Taken(proc) /\ awake' = Woken(proc)
     ELSE UNCHANGED <<proc, awake>>
  /\ thr' = [thr EXCEPT ![th].looper_need_return = FALSE, ![th].intr = FALSE]
  /\ pc' = [pc EXCEPT ![th] = AfterIoctl(th)]
  /\ UNCHANGED <<io, state, work>>

\* BR_SPAWN_LOOPER, the first command of the buffer.
SpawnLooper(th) ==
  /\ pc[th] = "cmds" /\ io[th].spawn
  /\ \/ /\ state.mThreadPoolStarted
        /\ SpawnPooledThread(FALSE, [io EXCEPT ![th].spawn = FALSE])
     \/ /\ ~state.mThreadPoolStarted \/ "spawn" \in Faults
        /\ io' = [io EXCEPT ![th].spawn = FALSE]
        /\ UNCHANGED pc
  /\ UNCHANGED <<proc, thr, awake, state, work>>

Again(th) == IF state.mIsPollingThread THEN "topoll" ELSE "user"

\* The command after it: talkWithDriver looks at mDriverFD again before it says
\* that there is more to read.  BR_TRANSACTION is executed; with anything else
\* the thread talks to the driver.
ExecuteCommand(th) ==
  /\ pc[th] = "cmds" /\ ~io[th].spawn
  /\ io' = [io EXCEPT ![th].cmd = "none"]
  /\ pc' = [pc EXCEPT ![th] =
              IF ~state.mDriverFD THEN "left"
              ELSE IF io[th].cmd \in {"sync", "oneway"} THEN "exec" ELSE Again(th)]
  /\ UNCHANGED <<proc, thr, awake, state, work>>

\* The object's transact returns; a call is answered with the next write.
FinishCommand(th) ==
  /\ pc[th] = "exec"
  /\ io' = [io EXCEPT ![th].out = IF thr[th].serving THEN "reply" ELSE "none"]
  /\ pc' = [pc EXCEPT ![th] = IF thr[th].serving THEN "user" ELSE Again(th)]
  /\ work' = [work EXCEPT !.handled = @ + 1]
  /\ UNCHANGED <<proc, thr, awake, state>>

\* Mutant: binder_poll does not mark the thread as one that polls.
Poll_NoMark(th) ==
  LET T1 == [thr EXCEPT ![th].wait_for_proc_work = AvailableForProcWork(thr, th)]
  IN /\ \/ pc[th] = "topoll"
        \/ pc[th] = "poll" /\ awake[th]
     /\ thr' = T1
     /\ pc' = [pc EXCEPT ![th] = IF HasWork(T1, th) THEN "user" ELSE "poll"]
     /\ awake' = [awake EXCEPT ![th] = HasWork(T1, th)]
     /\ UNCHANGED <<proc, io, state, work>>

\* binder_poll, and the sleep of epoll when it says there is nothing.
Poll(th) ==
  LET T1 == [thr EXCEPT ![th].poll = TRUE,
                        ![th].wait_for_proc_work = AvailableForProcWork(thr, th)]
  IN /\ \/ pc[th] = "topoll"
        \/ pc[th] = "poll" /\ awake[th]
     /\ thr' = T1
     /\ pc' = [pc EXCEPT ![th] = IF HasWork(T1, th) THEN "user" ELSE "poll"]
     /\ awake' = [awake EXCEPT ![th] = HasWork(T1, th)]
     /\ UNCHANGED <<proc, io, state, work>>
-----------------------------------------------------------------------------
(* stopProcess and binder_flush.                                           *)

\* A thread that polls is not told of the end (it may be its own caller's
\* doing), so the processes that stop are the ones with a pool.
StopProcess ==
  /\ state.mDriverFD /\ state.configured /\ ~state.mIsPollingThread
  /\ state' = [state EXCEPT !.mDriverFD = FALSE]
  /\ UNCHANGED <<proc, thr, pc, awake, io, work>>

CloseDriver ==
  /\ ~state.mDriverFD /\ ~state.closed
  /\ state' = [state EXCEPT !.closed = TRUE]
  /\ UNCHANGED <<proc, thr, pc, awake, io, work>>

\* Mutant: the threads are woken and not told why.
DeferredFlush_WakeOnly ==
  /\ state.closed /\ ~state.flushed
  /\ state' = [state EXCEPT !.flushed = TRUE]
  /\ awake' = [th \in Threads |-> awake[th] \/ thr[th].waiting]
  /\ UNCHANGED <<proc, thr, pc, io, work>>

\* binder_deferred_flush, which close brings about.
DeferredFlush ==
  /\ state.closed /\ ~state.flushed
  /\ state' = [state EXCEPT !.flushed = TRUE]
  /\ thr' = [th \in Threads |-> [thr[th] EXCEPT !.looper_need_return = TRUE]]
  /\ awake' = [th \in Threads |-> awake[th] \/ thr[th].waiting]
  /\ UNCHANGED <<proc, pc, io, work>>
-----------------------------------------------------------------------------
ThreadSteps(th) ==
  \/ JoinThreadPool(th) \/ TalkWithDriver(th) \/ IoctlRefused(th) \/ IoctlWrite(th)
  \/ ReadRetry(th) \/ WaitForWork(th) \/ ReadWork(th) \/ ReadNothing(th)
  \/ ReadDone(th) \/ IoctlEnd(th) \/ SpawnLooper(th) \/ ExecuteCommand(th)
  \/ FinishCommand(th) \/ Poll(th)
ProcessSteps == \/ SetThreadPoolConfiguration \/ StartThreadPool \/ SetupPolling
                \/ CloseDriver \/ DeferredFlush

Next ==
  \/ ProcessSteps
  \/ StopProcess
  \/ ArriveProc \/ \E w \in {"sync", "oneway"} : Arrive(w)
  \/ \E th \in Threads : ThreadSteps(th) \/ Interrupted(th)

Spec == Init /\ [][Next]_vars

\* The kernel runs threads that can go on and its worker; the process sets up
\* its pool, and a thread of the pool stays in its loop and finishes the calls
\* it executes.  Nothing forces work, signals or the end of the process.
FairSpec == Spec /\ WF_vars(ProcessSteps) /\ \A th \in Threads : WF_vars(ThreadSteps(th))
-----------------------------------------------------------------------------
(* Properties.                                                             *)

Nowhere == {"none", "left"}

(* The values of the driver's and the library's fields: in particular the  *)
(* counts of binder_proc never go below zero and a thread is at most once  *)
(* on the list of waiting threads (list_add and list_del_init of           *)
(* binder_wait_for_work, binder_select_thread_ilocked).                    *)
TypeOK ==
  /\ proc \in [max_threads : Nat, requested_threads : Nat,
               requested_threads_started : Nat,
               todo : Seq(Items), waiting_threads : Seq(Threads)]
  /\ IsInjective(proc.waiting_threads)
  /\ thr \in [Threads -> [joined : BOOLEAN, invalid : BOOLEAN, waiting : BOOLEAN,
               poll : BOOLEAN, looper_need_return : BOOLEAN, todo : Seq(Items),
               serving : BOOLEAN, wait_for_proc_work : BOOLEAN, intr : BOOLEAN]]
  /\ pc \in [Threads -> Places]
  /\ awake \in [Threads -> BOOLEAN]
  /\ io \in [Threads -> [isMain : BOOLEAN, out : {"join", "reply", "none"},
                         spawn : BOOLEAN, cmd : Items \cup {"none"}]]
  /\ state \in [configured : BOOLEAN, mThreadPoolStarted : BOOLEAN,
                mSpawnThreadOnStart : BOOLEAN, mDriverFD : BOOLEAN,
                mIsPollingThread : BOOLEAN, closed : BOOLEAN, flushed : BOOLEAN]
  /\ work \in [arrived : 0 .. MaxWork, handled : Nat]

(* However the caller, the thread of startThreadPool and those the driver  *)
(* asks for with BR_SPAWN_LOOPER come about, there are never more threads  *)
(* than setThreadPoolConfiguration allowed: what it gives the driver and   *)
(* what it starts itself add up to maxThreads.                             *)
PoolBounded == Cardinality({th \in Threads : pc[th] # "none"}) <= MaxThreads

(* No thread the library starts breaks the protocol of                     *)
(* BC_REGISTER_LOOPER: every one that registers was asked for and is still *)
(* owed when it gets there.                                                *)
RegistersOnRequest == \A th \in Threads : ~thr[th].invalid

(* At most one request for a thread is open at a time, and the threads     *)
(* asked for, come or not, are never more than max_threads.                *)
RequestLimit ==
  /\ proc.requested_threads <= 1
  /\ proc.requested_threads + proc.requested_threads_started <= proc.max_threads

(* A pool that is busy grows: when every thread executes a call and no     *)
(* request is open, the driver has had all the threads it may ask for.     *)
(* The request is made when the last thread leaves the list, whatever the  *)
(* order in which the others came back from the driver.                    *)
GrowsWhenBusy ==
  /\ \A th \in Threads : pc[th] \in {"exec", "none"}
  /\ \E th \in Threads : pc[th] = "exec"
  /\ proc.requested_threads = 0
  => proc.requested_threads_started = proc.max_threads

\* Threads that will look at the list of the process before they sleep, or
\* wake another when they leave the driver.
Responsible ==
  {th \in Threads : \/ pc[th] \in {"loop", "done", "tail"}
                    \/ /\ pc[th] = "wait" \/ (pc[th] = "sleep" /\ awake[th])
                       /\ thr[th].wait_for_proc_work}

(* No wakeup is lost: a thread that sleeps has nothing on its list and is  *)
(* not to return; and while work of the process waits and threads could    *)
(* take it, one of them is up.                                             *)
(* binder_select_thread_ilocked takes a thread off the list for work that  *)
(* another thread may take first, or that a signal makes it leave: the     *)
(* wakeup at the end of binder_ioctl_write_read is what makes up for it.   *)
NoLostWakeup ==
  /\ \A th \in Threads : pc[th] = "sleep" /\ ~awake[th] =>
       thr[th].todo = <<>> /\ ~thr[th].looper_need_return
  /\ proc.todo # <<>> /\ proc.waiting_threads # <<>> => Responsible # {}

(* Every piece of work that arrives is handled, and once: unless the       *)
(* process stops, whatever the number of threads and although the pool may *)
(* fail to grow.                                                           *)
EveryItemHandled ==
  /\ [](work.handled <= work.arrived)
  /\ work.handled < work.arrived ~>
       work.handled = work.arrived \/ ~state.mDriverFD

(* stopProcess ends the pool: after the close every thread, asleep in the  *)
(* driver, on its way into it or out of it, executing, or not yet started, *)
(* leaves joinThreadPool.                                                  *)
StopDrains == state.closed ~> \A th \in Threads : pc[th] \in Nowhere

\* The pool has the size that was asked for: bounded whoever starts threads,
\* made of threads that were requested, and growing while all are busy.
PoolSound == TypeOK /\ PoolBounded /\ RegistersOnRequest /\ GrowsWhenBusy
=============================================================================
