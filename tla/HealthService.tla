--------------------------- MODULE HealthService ---------------------------
(***************************************************************************)
(* How BatteryService finds the health HAL and stays registered with it:   *)
(* HealthServiceWrapper and HealthHalCallback (BatteryService.java). The   *)
(* thread that starts the service takes the first instance there is,       *)
(* registers the callback, asks for notifications of later registrations   *)
(* and waits for the first report. Notifications are worked off by a       *)
(* handler thread. The HAL dies, is started again and may be replaced      *)
(* while it lives, at any step of either thread.                           *)
(*                                                                         *)
(* A service is the number of its start. hwservicemanager and the HAL are  *)
(* outside the repository: they are modelled from the calls to them.       *)
(***************************************************************************)
EXTENDS Integers, Sequences, FiniteSets

CONSTANTS
  Declared,   (* the instances the device's manifest names                 *)
  Refusing,   (* the services that answer registerCallback with an error   *)
  Keeping,    (* those that answer unregisterCallback with one             *)
  MaxStarts,  (* bound on the starts of a HAL                              *)
  MaxSent     (* bound on the reports that wait before a HAL sends another *)

sAllInstances == <<"default", "backup">>
Names == {sAllInstances[i] : i \in DOMAIN sAllInstances}
Services == 1 .. MaxStarts
NULL == 0

HealthAssumption ==
  /\ Declared \subseteq Names /\ Declared # {}
  /\ Refusing \cup Keeping \subseteq Services /\ MaxStarts \in Nat /\ MaxSent \in Nat

VARIABLES
  started, (* the instance of each service started so far, in order         *)
  alive,   (* the services whose process lives                             *)
  listed,  (* what hwservicemanager answers for an instance                *)
  regs,    (* the services that have the callback                          *)
  notes,   (* notifications under way and runnables of mHandlerThread      *)
  sent,    (* healthInfoChanged calls under way: oneway, to one binder     *)
  thread,  (* the step of both threads; onRegistration's two arguments     *)
  wrap     (* mInstanceName, mLastService, listening to hwservicemanager,  *)
           (* and the service mHealthInfo comes from                       *)

hal == <<started, alive, listed>>
vars == <<started, alive, listed, regs, notes, sent, thread, wrap>>

Threads == {"init", "handler"}
idle == [at |-> "idle"]

Init ==
  /\ started = <<>> /\ alive = {} /\ listed = [n \in Names |-> NULL]
  /\ regs = {} /\ notes = 0 /\ sent = <<>>
  /\ thread = [t \in Threads |-> IF t = "init" THEN [at |-> "get"] ELSE idle]
  /\ wrap = [name |-> "none", last |-> NULL, listening |-> FALSE, info |-> NULL]

(***************************************************************************)
(* The HAL and hwservicemanager                                            *)
(***************************************************************************)
Heard(name) == wrap.listening /\ wrap.name = name
StartHal(name) ==
  LET s == Len(started) + 1
  IN /\ s \in Services /\ name \in Declared
     /\ started' = Append(started, name)
     /\ alive' = alive \cup {s}
     /\ listed' = [listed EXCEPT ![name] = s]
     /\ notes' = IF Heard(name) THEN notes + 1 ELSE notes
     /\ UNCHANGED <<regs, sent, thread, wrap>>
HalDies(s) ==
  /\ s \in alive
  /\ alive' = alive \ {s} /\ regs' = regs \ {s}
  /\ UNCHANGED <<started, listed, notes, sent, thread, wrap>>
\* The manager learns of a death some time later.
Unlist(name) ==
  /\ listed[name] # NULL /\ listed[name] \notin alive
  /\ listed' = [listed EXCEPT ![name] = NULL]
  /\ UNCHANGED <<started, alive, regs, notes, sent, thread, wrap>>
HalReports(s) ==
  /\ s \in regs /\ Len(sent) < MaxSent
  /\ sent' = Append(sent, s)
  /\ UNCHANGED <<started, alive, listed, regs, notes, thread, wrap>>

(***************************************************************************)
(* HealthServiceWrapper.init                                               *)
(***************************************************************************)
\* IHealth.getService with retry waits for an instance that is declared and
\* throws for another one; without any init throws and the system stops there.
Chosen ==
  LET i == CHOOSE i \in DOMAIN sAllInstances :
             /\ sAllInstances[i] \in Declared
             /\ \A j \in 1 .. i - 1 : sAllInstances[j] \notin Declared
  IN sAllInstances[i]
InitGet ==
  /\ thread["init"].at = "get"
  /\ listed[Chosen] # NULL
  /\ wrap' = [wrap EXCEPT !.name = Chosen, !.last = listed[Chosen]]
  /\ thread' = [thread EXCEPT !["init"] = [at |-> "register", old |-> NULL, new |-> listed[Chosen]]]
  /\ UNCHANGED <<hal, regs, notes, sent>>

\* registerForNotifications announces a service that is there already.
Listen ==
  /\ thread["init"].at = "listen"
  /\ wrap' = [wrap EXCEPT !.listening = TRUE]
  /\ notes' = IF listed[wrap.name] # NULL THEN notes + 1 ELSE notes
  /\ thread' = [thread EXCEPT !["init"] = [at |-> "wait"]]
  /\ UNCHANGED <<hal, regs, sent>>

\* The rest of registerHealthCallback: mLock.wait until there is mHealthInfo.
WaitUpdate ==
  /\ thread["init"].at = "wait" /\ wrap.info # NULL
  /\ thread' = [thread EXCEPT !["init"] = [at |-> "done"]]
  /\ UNCHANGED <<hal, regs, notes, sent, wrap>>

(***************************************************************************)
(* Notification.onRegistration, run by mHandlerThread                      *)
(***************************************************************************)
\* Mutant: mLastService is not replaced.
RunNotification_KeepLast ==
  LET s == listed[wrap.name]
  IN /\ thread["handler"] = idle /\ notes > 0 /\ s # NULL
     /\ notes' = notes - 1
     /\ thread' = IF s = wrap.last THEN thread
                  ELSE [thread EXCEPT !["handler"] = [at |-> "unregister", old |-> wrap.last, new |-> s]]
     /\ UNCHANGED <<hal, regs, sent, wrap>>

RunNotification ==
  LET s == listed[wrap.name]
  IN /\ thread["handler"] = idle /\ notes > 0 /\ s # NULL
     /\ notes' = notes - 1
     /\ wrap' = [wrap EXCEPT !.last = s]
     /\ thread' = IF s = wrap.last THEN thread
                  ELSE [thread EXCEPT !["handler"] = [at |-> "unregister", old |-> wrap.last, new |-> s]]
     /\ UNCHANGED <<hal, regs, sent>>

(***************************************************************************)
(* HealthHalCallback                                                       *)
(***************************************************************************)
Return(t) == IF t = "init" THEN [at |-> "listen"] ELSE idle

\* The old service may be dead, and its RemoteException is caught, or answer
\* with an error and keep the callback: both are logged.
UnregisterCallback(t) ==
  /\ thread[t].at = "unregister"
  /\ regs' = regs \ ({thread[t].old} \ Keeping)
  /\ thread' = [thread EXCEPT ![t].at = "register"]
  /\ UNCHANGED <<hal, notes, sent, wrap>>
\* A service that is dead or refuses ends onRegistration.
RegisterCallback(t) ==
  LET s == thread[t].new
  IN /\ thread[t].at = "register"
     /\ IF s \in alive \ Refusing
        THEN /\ regs' = regs \cup {s}
             /\ thread' = [thread EXCEPT ![t].at = "update"]
        ELSE /\ UNCHANGED regs
             /\ thread' = [thread EXCEPT ![t] = Return(t)]
     /\ UNCHANGED <<hal, notes, sent, wrap>>
RequestUpdate(t) ==
  LET s == thread[t].new
  IN /\ thread[t].at = "update"
     /\ sent' = IF s \in regs THEN Append(sent, s) ELSE sent
     /\ thread' = [thread EXCEPT ![t] = Return(t)]
     /\ UNCHANGED <<hal, regs, notes, wrap>>
\* healthInfoChanged, healthInfoChanged_2_1: BatteryService.update
HealthInfoChanged ==
  /\ sent # <<>>
  /\ sent' = Tail(sent)
  /\ wrap' = [wrap EXCEPT !.info = Head(sent)]
  /\ UNCHANGED <<hal, regs, notes, thread>>

onRegistration(t) == UnregisterCallback(t) \/ RegisterCallback(t) \/ RequestUpdate(t)
Java == InitGet \/ Listen \/ WaitUpdate \/ RunNotification \/ HealthInfoChanged
Next ==
  \/ \E n \in Names : StartHal(n) \/ Unlist(n)
  \/ \E s \in Services : HalDies(s) \/ HalReports(s)
  \/ Java
  \/ \E t \in Threads : onRegistration(t)

Spec == Init /\ [][Next]_vars

(***************************************************************************)
(* Properties                                                              *)
(***************************************************************************)
Current == IF wrap.name = "none" THEN NULL ELSE listed[wrap.name]
AtRest == thread["init"].at \in {"wait", "done"} /\ thread["handler"] = idle /\ notes = 0

\* When no notification is left, the callback is registered with the service
\* of the chosen instance if that lives, and with no other but one that did not
\* let it go: a HAL that died or was replaced between any two steps of init or
\* of a runnable is followed.
ListensAtRest ==
  AtRest /\ Current \in alive \ Refusing => /\ wrap.last = Current
                                           /\ Current \in regs /\ regs \subseteq {Current} \cup Keeping

\* When the reports are through too, the values the service works with are of
\* the HAL that lives, never of one that was replaced and let the callback go.
InfoCurrent ==
  AtRest /\ sent = <<>> /\ Current \in alive \ Refusing => wrap.info \in {Current} \cup Keeping

\* The service is registered with, and shows the values of, the HAL that lives.
HalFollowed == ListensAtRest /\ InfoCurrent
=============================================================================
