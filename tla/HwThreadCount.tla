--------------------------- MODULE HwThreadCount ---------------------------
(***************************************************************************)
(* The count of a process' threads that execute a command (IPCThreadState, *)
(* getAndExecuteCommand), the mark of when all of them are busy, and the   *)
(* callers of blockUntilThreadAvailable, which wait on a condition for the *)
(* count to go down. Every step is one hold of mThreadCountLock.           *)
(***************************************************************************)
EXTENDS Integers, FiniteSets

CONSTANTS
  Pool,        (* threads in the loop of joinThreadPool                    *)
  Outside,     (* threads of the process that call                         *)
               (* blockUntilThreadAvailable                                *)
  Maxima,      (* values of maxThreads in setThreadPoolConfiguration       *)
  MaxCommands  (* bound on the commands that arrive                        *)

CountAssumption ==
  /\ IsFiniteSet(Pool) /\ Pool \cap Outside = {}
  /\ Maxima \subseteq Nat /\ MaxCommands \in Nat

VARIABLES
  mExecutingThreadsCount,
  mMaxThreads,
  starved,   (* mStarvationStartTimeMs is not 0                            *)
  pc,        (* idle, exec; waiting on the condition or woken from it      *)
  commands   (* commands so far                                            *)

vars == <<mExecutingThreadsCount, mMaxThreads, starved, pc, commands>>

DEFAULT_MAX_BINDER_THREADS == 0
Init ==
  /\ mExecutingThreadsCount = 0
  /\ mMaxThreads = DEFAULT_MAX_BINDER_THREADS
  /\ starved = FALSE
  /\ pc = [t \in Pool \cup Outside |-> "idle"]
  /\ commands = 0

\* Before the pool has any work.
setThreadPoolConfiguration ==
  /\ mMaxThreads = DEFAULT_MAX_BINDER_THREADS
  /\ mMaxThreads' \in Maxima \ {0}
  /\ UNCHANGED <<mExecutingThreadsCount, starved, pc, commands>>

\* A command was read.
BeginCommand(t) ==
  LET count == mExecutingThreadsCount + 1
  IN /\ pc[t] = "idle" /\ mMaxThreads > 0
     /\ commands < MaxCommands /\ commands' = commands + 1
     /\ mExecutingThreadsCount' = count
     /\ starved' = (starved \/ (count >= mMaxThreads /\ mMaxThreads > 1))
     /\ pc' = [pc EXCEPT ![t] = "exec"]
     /\ UNCHANGED mMaxThreads

Waiting == {t \in Outside : pc[t] = "wait"}
\* pthread_cond_broadcast
Woken(p) == [t \in Pool \cup Outside |-> IF t \in Waiting THEN "woken" ELSE p[t]]

\* Mutant: the waiters are woken only when the pool was starved.
EndCommand_Silent(t) ==
  /\ pc[t] = "exec"
  /\ mExecutingThreadsCount' = mExecutingThreadsCount - 1
  /\ starved' = (starved /\ mExecutingThreadsCount - 1 >= mMaxThreads)
  /\ pc' = IF starved THEN Woken([pc EXCEPT ![t] = "idle"]) ELSE [pc EXCEPT ![t] = "idle"]
  /\ UNCHANGED <<mMaxThreads, commands>>

EndCommand(t) ==
  /\ pc[t] = "exec"
  /\ mExecutingThreadsCount' = mExecutingThreadsCount - 1
  /\ starved' = (starved /\ mExecutingThreadsCount - 1 >= mMaxThreads)
  /\ pc' = Woken([pc EXCEPT ![t] = "idle"])
  /\ UNCHANGED <<mMaxThreads, commands>>

\* One turn of its loop, and its return.
blockUntilThreadAvailable(t) ==
  /\ pc[t] \in {"idle", "woken"} /\ mMaxThreads > 0
  /\ pc' = [pc EXCEPT ![t] = IF mExecutingThreadsCount >= mMaxThreads THEN "wait" ELSE "idle"]
  /\ UNCHANGED <<mExecutingThreadsCount, mMaxThreads, starved, commands>>

Next ==
  \/ setThreadPoolConfiguration
  \/ \E t \in Pool : BeginCommand(t) \/ EndCommand(t)
  \/ \E t \in Outside : blockUntilThreadAvailable(t)
Spec == Init /\ [][Next]_vars

(***************************************************************************)
(* Properties                                                              *)
(***************************************************************************)
\* No caller waits for a decrement that nobody will make: the pool is full and
\* its commands, none of which waits itself, will wake the caller.
WaitersHaveWaker ==
  Waiting # {} => /\ mExecutingThreadsCount >= mMaxThreads
                  /\ \E t \in Pool : pc[t] = "exec"

\* The time the pool was emptied at is set exactly while every thread that may
\* be is busy, whichever of them come and go.
StarvationTimed ==
  starved <=> mMaxThreads > 1 /\ Cardinality({t \in Pool : pc[t] = "exec"}) >= mMaxThreads

\* The count and what hangs on it: those who wait for it to go down have a
\* waker, and starvation is timed exactly while it lasts.
ThreadsCounted == WaitersHaveWaker /\ StarvationTimed
=============================================================================
