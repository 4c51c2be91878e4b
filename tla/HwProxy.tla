------------------------------ MODULE HwProxy ------------------------------
(***************************************************************************)
(* The client side of libhwbinder for one handle: the handle table of      *)
(* ProcessState, the proxies (BpHwBinder) with their counts and            *)
(* obituaries, and each thread's IPCThreadState with the commands it has   *)
(* not written yet and the references it keeps until they are written.     *)
(*                                                                         *)
(* RefBase (libutils) is outside the repository: a strong reference is     *)
(* also a weak one, a proxy lives as long as a weak reference does         *)
(* (OBJECT_LIFETIME_WEAK), its address may then be used again, and         *)
(* onFirstRef and onLastStrongRef run after the count has changed.         *)
(*                                                                         *)
(* A thread is a stack of calls still to run; a call is one step, and      *)
(* calls of different threads interleave. Looper reads what the driver     *)
(* has for the process; the other threads take references out of parcels,  *)
(* drop them and link to death.                                            *)
(***************************************************************************)
EXTENDS Integers, Sequences, SequencesExt, FiniteSets

CONSTANTS
  Users, Looper,  (* threads                                               *)
  Proxies,        (* addresses of proxies                                  *)
  MaxLinks,       (* bound on the calls of linkToDeath                     *)
  Uses            (* what the threads do: how many parcels bring the       *)
                  (* handle and how many links they make                   *)

ProxyAssumption ==
  /\ Looper \notin Users /\ MaxLinks \in Nat
  /\ Uses \subseteq [parcels : Nat, links : 0 .. MaxLinks]

Threads == Users \cup {Looper}
NULL == "null"
NoObits == {NULL}   (* mObituaries is null, which an empty list is not *)

VARIABLES
  remote,  (* the process behind the handle lives                          *)
  drv,     (* the driver's reference: user counts, buffers that hold it,   *)
           (* ref->death, all death records; whether it rejected a command *)
           (* on a count, or one on a notification                         *)
  entry,   (* mHandleToObject[handle].binder                               *)
  px,      (* the proxies                                                  *)
  ipc,     (* per thread: calls to run, mOut, mPostWrite...Derefs          *)
  has,     (* the proxy a thread holds with an sp                          *)
  held,    (* the thread's parcel with the handle: none, to be read, read  *)
  left,    (* what the threads may still do, of Uses                       *)
  linked,  (* ghost: per thread, what its recipient may expect             *)
  revived  (* ghost: a proxy was taken up again while its last strong      *)
           (* reference was still going                                    *)

vars == <<remote, drv, entry, px, ipc, has, held, left, linked, revived>>

Call(f, p) == [fn |-> f, proxy |-> p]
Cmd(c, p) == [bc |-> c, cookie |-> p]
NoProxy == [life |-> "none", strong |-> 0, weak |-> 0, alive |-> FALSE, sent |-> FALSE,
            obits |-> NoObits, mutex |-> NULL]

Init ==
  /\ remote = TRUE
  /\ drv = [strong |-> 0, weak |-> 0, bufs |-> 0, death |-> 0, recs |-> <<>>, error |-> FALSE, refused |-> FALSE]
  /\ entry = NULL
  /\ px = [p \in Proxies |-> NoProxy]
  /\ ipc = [t \in Threads |-> [stack |-> <<>>, out |-> <<>>, pw |-> <<>>, ps |-> <<>>]]
  /\ has = [t \in Users |-> NULL] /\ held = [t \in Users |-> "none"]
  /\ left \in Uses
  /\ linked = [t \in Users |-> "no"] /\ revived = FALSE

(***************************************************************************)
(* The driver: binder_thread_write on the commands of one write            *)
(***************************************************************************)
HasRef(d) == d.strong + d.weak + d.bufs > 0
Rejected(d) == [d EXCEPT !.error = TRUE]
Refused(d) == [d EXCEPT !.refused = TRUE]
Count(d, c) ==
  CASE c.bc = "INCREFS" -> IF HasRef(d) THEN [d EXCEPT !.weak = @ + 1] ELSE Rejected(d)
    [] c.bc = "ACQUIRE" -> IF HasRef(d) THEN [d EXCEPT !.strong = @ + 1] ELSE Rejected(d)
    [] c.bc = "RELEASE" -> IF d.strong > 0 THEN [d EXCEPT !.strong = @ - 1] ELSE Rejected(d)
    [] c.bc = "DECREFS" -> IF d.weak > 0 THEN [d EXCEPT !.weak = @ - 1] ELSE Rejected(d)
    [] c.bc = "FREE_BUFFER" -> [d EXCEPT !.bufs = @ - 1]
\* A death record: its type, and whether it is on no list, to be read, or read.
Request(d, c) ==
  IF ~ HasRef(d) \/ d.death # 0 THEN Refused(d)
  ELSE [d EXCEPT !.death = Len(d.recs) + 1,
                 !.recs = Append(@, [cookie |-> c.cookie, type |-> "DEAD", at |-> IF remote THEN "none" ELSE "todo"])]
Clear(d, c) ==
  IF d.death = 0 \/ d.recs[d.death].cookie # c.cookie THEN Refused(d)
  ELSE [d EXCEPT !.recs[d.death] = IF @.at = "none" THEN [@ EXCEPT !.type = "CLEAR", !.at = "todo"]
                                   ELSE [@ EXCEPT !.type = "DEAD_AND_CLEAR"],
                 !.death = 0]
DeadDone(d, c) ==
  LET i == CHOOSE i \in DOMAIN d.recs : d.recs[i].cookie = c.cookie /\ d.recs[i].at = "delivered"
  IN [d EXCEPT !.recs[i] = IF @.type = "DEAD_AND_CLEAR" THEN [@ EXCEPT !.type = "CLEAR", !.at = "todo"]
                           ELSE [@ EXCEPT !.at = "none"]]
\* A reference that goes takes its notification along (binder_cleanup_ref_olocked).
Settled(d) == IF HasRef(d) \/ d.death = 0 THEN d ELSE [d EXCEPT !.recs[d.death].at = "gone", !.death = 0]
Write(d, c) ==
  CASE c.bc = "REQUEST_DEATH_NOTIFICATION" -> Request(d, c)
    [] c.bc = "CLEAR_DEATH_NOTIFICATION" -> Clear(d, c)
    [] c.bc = "DEAD_BINDER_DONE" -> DeadDone(d, c)
    [] OTHER -> Settled(Count(d, c))

\* binder_node_release of the node behind the handle.
RemoteDies ==
  /\ remote /\ remote' = FALSE
  /\ drv' = IF drv.death # 0 THEN [drv EXCEPT !.recs[drv.death].at = "todo"] ELSE drv
  /\ UNCHANGED <<entry, px, ipc, has, held, left, linked, revived>>

(***************************************************************************)
(* Calls on a thread's stack                                               *)
(***************************************************************************)
Idle(t) == ipc[t].stack = <<>>
Top(t) == Head(ipc[t].stack)
Runs(t, f) == ~ Idle(t) /\ Top(t).fn = f
\* The top call returns after these calls and has written these commands.
Return(t, calls, cmds) ==
  ipc' = [ipc EXCEPT ![t].stack = calls \o Tail(@), ![t].out = @ \o cmds]
\* An idle thread makes these calls.
Enter(t, calls, cmds) == ipc' = [ipc EXCEPT ![t].stack = calls, ![t].out = @ \o cmds]

flushCommands == <<Call("talkWithDriver", NULL), Call("talkWithDriver", NULL)>>

\* What is written has been handled by the driver when the call returns.
talkWithDriver(t) ==
  /\ Runs(t, "talkWithDriver")
  /\ drv' = FoldLeft(Write, drv, ipc[t].out)
  /\ ipc' = [ipc EXCEPT ![t].out = <<>>,
                        ![t].stack = (IF ipc[t].out = <<>> THEN <<>> ELSE <<Call("processPostWriteDerefs", NULL)>>) \o Tail(@)]
  /\ UNCHANGED <<remote, entry, px, has, held, left, linked, revived>>
processPostWriteDerefs(t) ==
  LET me == ipc[t]
      again == Call("processPostWriteDerefs", NULL)
  IN /\ Runs(t, "processPostWriteDerefs")
     /\ ipc' = [ipc EXCEPT ![t] =
          IF me.pw # <<>> THEN [me EXCEPT !.pw = Tail(@), !.stack = <<Call("decWeak", Head(me.pw)), again>> \o Tail(@)]
          ELSE IF me.ps # <<>> THEN [me EXCEPT !.ps = Tail(@), !.stack = <<Call("decStrong", Head(me.ps)), again>> \o Tail(@)]
          ELSE [me EXCEPT !.stack = Tail(@)]]
     /\ UNCHANGED <<remote, drv, entry, px, has, held, left, linked, revived>>

decStrong(t) ==
  LET p == Top(t).proxy
  IN /\ Runs(t, "decStrong")
     /\ px' = [px EXCEPT ![p].strong = @ - 1]
     /\ Return(t, (IF px[p].strong = 1 THEN <<Call("onLastStrongRef", p)>> ELSE <<>>) \o <<Call("decWeak", p)>>, <<>>)
     /\ UNCHANGED <<remote, drv, entry, has, held, left, linked, revived>>
decWeak(t) ==
  LET p == Top(t).proxy
  IN /\ Runs(t, "decWeak")
     /\ px' = [px EXCEPT ![p].weak = @ - 1, ![p].life = IF px[p].weak = 1 THEN "dying" ELSE @]
     /\ Return(t, IF px[p].weak = 1 THEN <<Call("expungeHandle", p), Call("delete", p)>> ELSE <<>>, <<>>)
     /\ UNCHANGED <<remote, drv, entry, has, held, left, linked, revived>>

onLastStrongRef(t) ==
  /\ Runs(t, "onLastStrongRef")
  /\ Return(t, flushCommands \o <<Call("unlinkAll", Top(t).proxy)>>, <<Cmd("RELEASE", NULL)>>)
  /\ UNCHANGED <<remote, drv, entry, px, has, held, left, linked, revived>>
\* The second half of it, under mLock: the obituaries go.
unlinkAll(t) ==
  LET p == Top(t).proxy
  IN /\ Runs(t, "unlinkAll") /\ px[p].mutex = NULL
     /\ px' = [px EXCEPT ![p].obits = NoObits]
     /\ Return(t, <<>>, IF px[p].obits # NoObits THEN <<Cmd("CLEAR_DEATH_NOTIFICATION", p)>> ELSE <<>>)
     /\ UNCHANGED <<remote, drv, entry, has, held, left, linked, revived>>

\* Mutant: the entry is cleared whichever proxy it holds.
expungeHandle_Always(t) ==
  /\ Runs(t, "expungeHandle")
  /\ entry' = NULL
  /\ Return(t, <<>>, <<Cmd("DECREFS", NULL)>>)
  /\ UNCHANGED <<remote, drv, px, has, held, left, linked, revived>>

\* The destructor: ProcessState::expungeHandle under its lock, then the rest.
expungeHandle(t) ==
  /\ Runs(t, "expungeHandle")
  /\ entry' = IF entry = Top(t).proxy THEN NULL ELSE entry
  /\ Return(t, <<>>, <<Cmd("DECREFS", NULL)>>)
  /\ UNCHANGED <<remote, drv, px, has, held, left, linked, revived>>
Delete(t) ==
  /\ Runs(t, "delete")
  /\ px' = [px EXCEPT ![Top(t).proxy] = NoProxy]
  /\ Return(t, <<>>, <<>>)
  /\ UNCHANGED <<remote, drv, entry, has, held, left, linked, revived>>

(***************************************************************************)
(* What user threads do                                                    *)
(***************************************************************************)
\* A transaction arrives whose buffer holds a reference to the handle.
Receive(t) ==
  /\ Idle(t) /\ held[t] = "none" /\ left.parcels > 0
  /\ held' = [held EXCEPT ![t] = "new"]
  /\ drv' = [drv EXCEPT !.bufs = @ + 1]
  /\ left' = [left EXCEPT !.parcels = @ - 1]
  /\ UNCHANGED <<remote, entry, px, ipc, has, linked, revived>>
freeBuffer(t) ==
  /\ Idle(t) /\ held[t] # "none"
  /\ held' = [held EXCEPT ![t] = "none"]
  /\ Enter(t, <<>>, <<Cmd("FREE_BUFFER", NULL)>>)
  /\ UNCHANGED <<remote, drv, entry, px, has, left, linked, revived>>

\* onFirstRef: BC_ACQUIRE, with a temporary strong reference until it is written.
Acquire(t, p, cmds, pw) ==
  ipc' = [ipc EXCEPT ![t].out = @ \o cmds \o <<Cmd("ACQUIRE", NULL)>>, ![t].pw = @ \o pw, ![t].ps = Append(@, p)]
NewProxy == [NoProxy EXCEPT !.life = "live", !.strong = 2, !.weak = 3, !.alive = TRUE]
\* attemptIncWeak
Usable(p) == px[p].weak > 0
\* onLastStrongRef of p is under way, or its last command is still to be written
\* by another thread.
Leaving(p, t) ==
  \E u \in Threads :
    \/ \E i \in DOMAIN ipc[u].stack : ipc[u].stack[i] \in {Call("onLastStrongRef", p), Call("unlinkAll", p)}
    \/ u # t /\ Contains(ipc[u].out, Cmd("CLEAR_DEATH_NOTIFICATION", p))
getStrongProxyForHandle(t) ==
  /\ Idle(t) /\ held[t] = "new" /\ has[t] = NULL
  /\ held' = [held EXCEPT ![t] = "read"]
  /\ IF entry = NULL \/ ~ Usable(entry)
     THEN \E p \in Proxies :
            /\ px[p].life = "none"
            /\ px' = [px EXCEPT ![p] = NewProxy]
            /\ entry' = p /\ has' = [has EXCEPT ![t] = p]
            /\ Acquire(t, p, <<Cmd("INCREFS", NULL)>>, <<p>>)
            /\ UNCHANGED revived
     ELSE LET first == px[entry].strong = 0
              n == IF first THEN 2 ELSE 1
          IN /\ px' = [px EXCEPT ![entry].strong = @ + n, ![entry].weak = @ + n]
             /\ has' = [has EXCEPT ![t] = entry]
             /\ IF first THEN Acquire(t, entry, <<>>, <<>>) ELSE UNCHANGED ipc
             /\ revived' = (revived \/ Leaving(entry, t))
             /\ UNCHANGED entry
  /\ UNCHANGED <<remote, drv, left, linked>>

\* An sp goes out of scope.
Drop(t) ==
  /\ Idle(t) /\ has[t] # NULL
  /\ has' = [has EXCEPT ![t] = NULL]
  /\ linked' = [linked EXCEPT ![t] = "no"]
  /\ Enter(t, <<Call("decStrong", has[t])>>, <<>>)
  /\ UNCHANGED <<remote, drv, entry, px, held, left, revived>>

transact(t) ==
  /\ Idle(t) /\ has[t] # NULL /\ px[has[t]].alive
  /\ px' = [px EXCEPT ![has[t]].alive = remote]
  /\ Enter(t, <<Call("talkWithDriver", NULL)>>, <<>>)
  /\ UNCHANGED <<remote, drv, entry, has, held, left, linked, revived>>
\* Any other call that talks with the driver, or the end of the thread.
Flush(t) ==
  /\ Idle(t) /\ ipc[t].out # <<>>
  /\ Enter(t, flushCommands, <<>>)
  /\ UNCHANGED <<remote, drv, entry, px, has, held, left, linked, revived>>

\* The weak references that an asked for notification takes on the proxy.
DeathRefs == 1
linkToDeath(t) ==
  LET p == has[t]
  IN /\ Idle(t) /\ p # NULL /\ linked[t] = "no" /\ px[p].mutex = NULL /\ ~ px[p].sent
     /\ left.links > 0 /\ left' = [left EXCEPT !.links = @ - 1]
     /\ IF px[p].obits = NoObits
        THEN /\ px' = [px EXCEPT ![p].obits = {}, ![p].weak = @ + DeathRefs, ![p].mutex = t]
             /\ Enter(t, flushCommands \o <<Call("addObituary", p)>>, <<Cmd("REQUEST_DEATH_NOTIFICATION", p)>>)
             /\ UNCHANGED linked
        ELSE /\ px' = [px EXCEPT ![p].obits = @ \cup {t}]
             /\ linked' = [linked EXCEPT ![t] = "linked"]
             /\ UNCHANGED ipc
     /\ UNCHANGED <<remote, drv, entry, has, held, revived>>
addObituary(t) ==
  LET p == Top(t).proxy
  IN /\ Runs(t, "addObituary")
     /\ px' = [px EXCEPT ![p].obits = @ \cup {t}, ![p].mutex = NULL]
     /\ linked' = [linked EXCEPT ![t] = "linked"]
     /\ Return(t, <<>>, <<>>)
     /\ UNCHANGED <<remote, drv, entry, has, held, left, revived>>

\* Mutant: the driver is not told that the last recipient left.
unlinkToDeath_NoClear(t) ==
  LET p == has[t]
  IN /\ Idle(t) /\ p # NULL /\ px[p].mutex = NULL /\ ~ px[p].sent
     /\ px[p].obits # NoObits /\ t \in px[p].obits
     /\ linked' = [linked EXCEPT ![t] = "no"]
     /\ px' = [px EXCEPT ![p].obits = IF @ = {t} THEN NoObits ELSE @ \ {t}]
     /\ UNCHANGED <<remote, drv, entry, ipc, has, held, left, revived>>

unlinkToDeath(t) ==
  LET p == has[t]
  IN /\ Idle(t) /\ p # NULL /\ px[p].mutex = NULL /\ ~ px[p].sent
     /\ px[p].obits # NoObits /\ t \in px[p].obits
     /\ linked' = [linked EXCEPT ![t] = "no"]
     /\ IF px[p].obits = {t}
        THEN /\ px' = [px EXCEPT ![p].obits = {}, ![p].mutex = t]
             /\ Enter(t, flushCommands \o <<Call("noObituaries", p)>>, <<Cmd("CLEAR_DEATH_NOTIFICATION", p)>>)
        ELSE px' = [px EXCEPT ![p].obits = @ \ {t}] /\ UNCHANGED ipc
     /\ UNCHANGED <<remote, drv, entry, has, held, left, revived>>
noObituaries(t) ==
  LET p == Top(t).proxy
  IN /\ Runs(t, "noObituaries")
     /\ px' = [px EXCEPT ![p].obits = NoObits, ![p].mutex = NULL]
     /\ Return(t, <<>>, <<>>)
     /\ UNCHANGED <<remote, drv, entry, has, held, left, linked, revived>>

(***************************************************************************)
(* executeCommand                                                          *)
(***************************************************************************)
\* Looper has written what it had and reads BR_DEAD_BINDER or
\* BR_CLEAR_DEATH_NOTIFICATION_DONE.
executeCommand(i) ==
  LET rec == drv.recs[i]
  IN /\ Idle(Looper) /\ ipc[Looper].out = <<>>
     /\ i \in DOMAIN drv.recs /\ rec.at = "todo"
     /\ IF rec.type = "CLEAR"
        THEN /\ drv' = [drv EXCEPT !.recs[i].at = "gone"]
             /\ Enter(Looper, <<Call("decWeak", rec.cookie)>>, <<>>)
        ELSE /\ drv' = [drv EXCEPT !.recs[i].at = "delivered"]
             /\ Enter(Looper, <<Call("sendObituary", rec.cookie)>>, <<>>)
     /\ UNCHANGED <<remote, entry, px, has, held, left, linked, revived>>

\* Mutant: mAlive is taken for mObitsSent.
sendObituary_IfAlive(t) ==
  LET p == Top(t).proxy
  IN /\ Runs(t, "sendObituary")
     /\ px' = [px EXCEPT ![p].alive = FALSE]
     /\ IF ~ px[p].alive THEN Return(t, <<>>, <<Cmd("DEAD_BINDER_DONE", p)>>)
        ELSE Return(t, <<Call("takeObituaries", p)>>, <<>>)
     /\ UNCHANGED <<remote, drv, entry, has, held, left, linked, revived>>

\* mAlive is cleared and mObitsSent read without the lock.
sendObituary(t) ==
  LET p == Top(t).proxy
  IN /\ Runs(t, "sendObituary")
     /\ px' = [px EXCEPT ![p].alive = FALSE]
     /\ IF px[p].sent THEN Return(t, <<>>, <<Cmd("DEAD_BINDER_DONE", p)>>)
        ELSE Return(t, <<Call("takeObituaries", p)>>, <<>>)
     /\ UNCHANGED <<remote, drv, entry, has, held, left, linked, revived>>
takeObituaries(t) ==
  LET p == Top(t).proxy
  IN /\ Runs(t, "takeObituaries") /\ px[p].mutex = NULL
     /\ px' = [px EXCEPT ![p].mutex = t]
     /\ Return(t, (IF px[p].obits # NoObits THEN flushCommands ELSE <<>>) \o <<Call("report", p)>>,
               IF px[p].obits # NoObits THEN <<Cmd("CLEAR_DEATH_NOTIFICATION", p)>> ELSE <<>>)
     /\ UNCHANGED <<remote, drv, entry, has, held, left, linked, revived>>
Report(t) ==
  LET p == Top(t).proxy
      obits == IF px[p].obits = NoObits THEN {} ELSE px[p].obits
  IN /\ Runs(t, "report")
     /\ px' = [px EXCEPT ![p].obits = NoObits, ![p].sent = TRUE, ![p].mutex = NULL]
     /\ linked' = [u \in Users |-> IF u \in obits /\ linked[u] = "linked" THEN "told" ELSE linked[u]]
     /\ Return(t, <<>>, <<Cmd("DEAD_BINDER_DONE", p)>>)
     /\ UNCHANGED <<remote, drv, entry, has, held, left, revived>>

Calls(t) ==
  \/ talkWithDriver(t) \/ processPostWriteDerefs(t) \/ decStrong(t) \/ decWeak(t)
  \/ onLastStrongRef(t) \/ unlinkAll(t) \/ expungeHandle(t) \/ Delete(t)
  \/ addObituary(t) \/ noObituaries(t) \/ sendObituary(t) \/ takeObituaries(t) \/ Report(t)
Next ==
  \/ RemoteDies
  \/ \E t \in Threads : Calls(t) \/ Flush(t)
  \/ \E t \in Users :
       \/ Receive(t) \/ freeBuffer(t) \/ getStrongProxyForHandle(t) \/ Drop(t)
       \/ transact(t) \/ linkToDeath(t) \/ unlinkToDeath(t)
  \/ \E i \in 1 .. MaxLinks : executeCommand(i)

Spec == Init /\ [][Next]_vars

(***************************************************************************)
(* Properties                                                              *)
(***************************************************************************)
\* No command is rejected: a count is never taken down that is not there and
\* no reference is used that the driver has freed (its handle may by then name
\* another node). A notification is asked for twice or cleared in vain only
\* after a proxy was revived: BC_CLEAR_DEATH_NOTIFICATION of 304 is not flushed,
\* and the next request of another thread may come before it.
NoneRejected == ~ drv.error /\ (drv.refused => revived)

\* Threads that hold the handle hold the same proxy, and the table has it: a
\* proxy on its way out neither serves again nor takes its successor's entry.
OneProxy ==
  \A t \in Users : has[t] # NULL => entry = has[t] /\ px[has[t]].life = "live" /\ px[has[t]].strong > 0

\* While a thread holds a proxy the driver holds the remote object, although
\* the threads' commands reach it in another order than they were queued.
RemoteHeld == \A t \in Users : has[t] # NULL => drv.strong + drv.bufs > 0

\* What the driver may still send names a proxy that is there.
CookiesLive ==
  \A i \in DOMAIN drv.recs :
    drv.recs[i].at \in {"todo", "delivered"} => px[drv.recs[i].cookie].life = "live"

Quiet == /\ \A t \in Threads : Idle(t) /\ ipc[t].out = <<>>
         /\ \A i \in DOMAIN drv.recs : drv.recs[i].at \notin {"todo", "delivered"}
\* At rest the driver counts what the proxies are, and a proxy nobody holds
\* is gone, unless a refused request left the reference that goes with it.
CountsSettle ==
  Quiet => /\ drv.strong = (IF \E t \in Users : has[t] # NULL THEN 1 ELSE 0)
           /\ drv.weak = Cardinality({p \in Proxies : px[p].life = "live"})
           /\ \A p \in Proxies : px[p].life = "live" => px[p].strong > 0 \/ drv.refused

\* IBinder.h:66-72: a recipient that was linked, and whose thread holds the
\* proxy, has been told of the death when all that was sent has been worked
\* off. onLastStrongRef clears the obituaries (297-307) after the reference
\* went, also those of a thread that has taken the proxy up again and linked
\* (README, Findings).
RecipientsTold == Quiet /\ ~ remote => \A t \in Users : linked[t] # "linked"

\* The same with the proxy not revived while its last reference was going.
LinkedAreTold == revived \/ RecipientsTold

\* The commands of all threads, in the order they reach the driver, give and
\* take back each count once: none is rejected and none is left over, also when
\* the handle arrives while its last reference goes.
CommandsSound == NoneRejected /\ CountsSettle

\* A handle has one proxy, and who holds it holds the remote object.
ProxySound == OneProxy /\ RemoteHeld

\* A notice of death finds its proxy, whatever links, unlinks, deaths and last
\* references come together; and the recipients that are linked are told, but
\* for those that a revival loses.
DeathsTold == CookiesLive /\ LinkedAreTold
=============================================================================
