------------------------ MODULE ServiceManagerProofs ------------------------
(***************************************************************************)
(* Proofs about the tables of the service manager, for any number of       *)
(* processes, binders and names: every request, also the last of a process *)
(* that died, the timer and the notices of deaths keep them sound.         *)
(***************************************************************************)
EXTENDS ServiceManager, TLAPS

USE ManagerAssumption

\* DeadReported, table by table.
Reported ==
  /\ \A n \in DOMAIN services :
       Owner[services[n].binder] \in dead => <<"binder", services[n].binder>> \in obits
  /\ \A n \in DOMAIN regCbs : \A c \in regCbs[n] : c \in dead => <<"reg", c>> \in obits
  /\ \A n \in DOMAIN clientCbs : \A p \in clientCbs[n] : p \in dead => <<"client", p>> \in obits

Inv == TypeOK /\ NoAbort /\ NoEmptyLists /\ Reported

Service == [binder : Binders, allowIsolated : BOOLEAN, hasClients : BOOLEAN,
            guaranteeClient : BOOLEAN, debugPid : Servers]

LEMMA SiteFacts ==
  ASSUME TypeOK
  PROVE  site.procs \subseteq Procs /\ site.names \subseteq Names
BY DEF TypeOK, Procs

LEMMA ReportedIsDeadReported ==
  ASSUME TypeOK, Reported
  PROVE  DeadReported
<1> SUFFICES ASSUME NEW p \in dead, NEW who \in Objects(p), LinkedTo(who) PROVE who \in obits
  BY DEF DeadReported
<1>1. ASSUME NEW n \in DOMAIN services, who = <<"binder", services[n].binder>> PROVE who \in obits
  BY <1>1 DEF Objects, Reported, Binders
<1>2. ASSUME NEW n \in DOMAIN regCbs, NEW c \in regCbs[n], who = <<"reg", c>> PROVE who \in obits
  BY <1>2 DEF Objects, Reported
<1>3. ASSUME NEW n \in DOMAIN clientCbs, NEW q \in clientCbs[n], who = <<"client", q>>
      PROVE  who \in obits
  BY <1>3 DEF Objects, Reported
<1> QED
  BY <1>1, <1>2, <1>3 DEF LinkedTo

LEMMA InvInit == Init => Inv
<1> SUFFICES ASSUME Init PROVE Inv
  OBVIOUS
<1>1. DOMAIN services = {} /\ DOMAIN regCbs = {} /\ DOMAIN clientCbs = {}
  BY DEF Init
<1>2. TypeOK
  BY <1>1 DEF Init, TypeOK
<1> QED
  BY <1>1, <1>2 DEF Init, Inv, NoAbort, NoEmptyLists, Reported

(***************************************************************************)
(* Requests of clients                                                     *)
(***************************************************************************)
LEMMA GetKeeps ==
  ASSUME Inv, NEW c \in Clients, NEW n \in Names, NEW start \in BOOLEAN, NEW refused \in BOOLEAN,
         GetService(c, n, start, refused)
  PROVE  Inv'
<1> DEFINE found == n \in DOMAIN services
           barred == found /\ ~ services[n].allowIsolated /\ c \in Isolated
<1>u. UNCHANGED <<site, regCbs, clientCbs, dead, obits, aborted>>
  BY DEF GetService
<1>1. CASE barred \/ refused \/ ~ found
  <2>1. UNCHANGED <<services, holders>> /\ wanted' \in {wanted, wanted \cup {n}}
    BY <1>1 DEF GetService
  <2>2. TypeOK'
    BY <1>u, <2>1 DEF Inv, TypeOK
  <2> QED
    BY <1>u, <2>1, <2>2 DEF Inv, NoAbort, NoEmptyLists, Reported
<1>2. CASE ~ (barred \/ refused \/ ~ found)
  <2>1. /\ n \in DOMAIN services
        /\ services' = [services EXCEPT ![n].guaranteeClient = TRUE]
        /\ holders' \in {holders, [holders EXCEPT ![services[n].binder] = @ \cup {c}]}
        /\ wanted' = wanted
    BY <1>2 DEF GetService
  <2>2. /\ DOMAIN services' = DOMAIN services
        /\ services'[n] = [services[n] EXCEPT !.guaranteeClient = TRUE]
        /\ \A m \in DOMAIN services : m # n => services'[m] = services[m]
    BY <2>1
  <2>3. services[n] \in Service
    BY <2>1 DEF Inv, TypeOK, Service
  <2>4. services'[n] \in Service /\ services'[n].binder = services[n].binder
    BY <2>2, <2>3 DEF Service
  <2>5. holders' \in [Binders -> SUBSET Clients]
    BY <2>1, <2>3 DEF Inv, TypeOK, Service
  <2>6. \A m \in DOMAIN services' : services'[m] \in Service /\ services'[m].binder = services[m].binder
    BY <2>2, <2>4 DEF Inv, TypeOK, Service
  <2>7. TypeOK'
    BY <1>u, <2>1, <2>2, <2>5, <2>6 DEF Inv, TypeOK, Service
  <2>8. Reported'
    BY <1>u, <2>2, <2>6 DEF Inv, Reported
  <2> QED
    BY <1>u, <2>7, <2>8 DEF Inv, NoAbort, NoEmptyLists
<1> QED
  BY <1>1, <1>2

LEMMA ListenKeeps ==
  ASSUME Inv, NEW c \in Clients, NEW n \in Names, RegisterForNotifications(c, n)
  PROVE  Inv'
<1>u. UNCHANGED <<site, services, clientCbs, dead, wanted, aborted>>
  BY DEF RegisterForNotifications
<1>1. /\ c \in Listeners
      /\ DOMAIN regCbs' = DOMAIN regCbs \cup {n}
      /\ regCbs'[n] = Callbacks(regCbs, n) \cup {c}
      /\ \A m \in DOMAIN regCbs : m # n => regCbs'[m] = regCbs[m]
  BY DEF RegisterForNotifications, With
<1>2. Callbacks(regCbs, n) \subseteq Listeners
  BY DEF Inv, TypeOK, Callbacks
<1>3. \A d \in Callbacks(regCbs, n) : n \in DOMAIN regCbs /\ d \in regCbs[n]
  BY DEF Callbacks
<1>4. obits \subseteq obits' /\ (c \in dead => <<"reg", c>> \in obits')
  BY DEF RegisterForNotifications, Linked
<1>5. holders' \in [Binders -> SUBSET Clients]
  <2>1. n \in DOMAIN services => services[n].binder \in Binders
    BY DEF Inv, TypeOK
  <2>2. \/ holders' = holders
        \/ n \in DOMAIN services /\ holders' = [holders EXCEPT ![services[n].binder] = @ \cup {c}]
    BY DEF RegisterForNotifications
  <2> QED BY <2>1, <2>2 DEF Inv, TypeOK
<1>6. TypeOK'
  <2>1. \A m \in DOMAIN regCbs' : regCbs'[m] \subseteq Listeners
    BY <1>1, <1>2 DEF Inv, TypeOK
  <2>2. {DOMAIN services', DOMAIN regCbs', DOMAIN clientCbs'} \subseteq SUBSET Names
    BY <1>u, <1>1 DEF Inv, TypeOK
  <2> QED BY <1>u, <1>5, <2>1, <2>2 DEF Inv, TypeOK
<1>7. Reported'
  <2>1. ASSUME NEW m \in DOMAIN regCbs', NEW d \in regCbs'[m], d \in dead PROVE <<"reg", d>> \in obits'
    <3>1. CASE d = c /\ m = n
      BY <1>4, <2>1, <3>1
    <3>2. CASE ~ (d = c /\ m = n)
      <4>1. m \in DOMAIN regCbs /\ d \in regCbs[m]
        BY <1>1, <1>3, <3>2
      <4> QED BY <1>4, <2>1, <4>1 DEF Inv, Reported
    <3> QED BY <3>1, <3>2
  <2>2. /\ \A m \in DOMAIN services' :
             Owner[services'[m].binder] \in dead' => <<"binder", services'[m].binder>> \in obits'
        /\ \A m \in DOMAIN clientCbs' : \A p \in clientCbs'[m] : p \in dead' => <<"client", p>> \in obits'
    BY <1>u, <1>4 DEF Inv, Reported
  <2> QED BY <1>u, <2>1, <2>2 DEF Reported
<1>8. NoEmptyLists'
  BY <1>u, <1>1 DEF Inv, NoEmptyLists
<1> QED
  BY <1>u, <1>6, <1>7, <1>8 DEF Inv, NoAbort

\* Steps that take callbacks out of the lists, and no more.
Fewer(f, g) == /\ DOMAIN g \subseteq DOMAIN f
               /\ \A m \in DOMAIN g : g[m] \subseteq f[m] /\ g[m] # {}

LEMMA UnlistenKeeps ==
  ASSUME Inv, NEW c \in Clients, NEW n \in Names, UnregisterForNotifications(c, n)
  PROVE  Inv'
<1>u. UNCHANGED <<site, services, clientCbs, holders, dead, obits, wanted, aborted>>
  BY DEF UnregisterForNotifications
<1>1. n \in DOMAIN regCbs /\ regCbs[n] # {}
  BY DEF UnregisterForNotifications, Inv, NoEmptyLists
<1>2. Fewer(regCbs, regCbs')
  <2>0. \A m \in DOMAIN regCbs : regCbs[m] # {}
    BY DEF Inv, NoEmptyLists
  <2>1. CASE regCbs[n] = {c}
    <3>1. regCbs' = [m \in DOMAIN regCbs \ {n} |-> regCbs[m]]
      BY <2>1 DEF UnregisterForNotifications, Without
    <3> QED BY <2>0, <3>1 DEF Fewer
  <2>2. CASE regCbs[n] # {c}
    <3>1. regCbs' = [m \in DOMAIN regCbs \cup {n} |-> IF m = n THEN regCbs[n] \ {c} ELSE regCbs[m]]
      BY <2>2 DEF UnregisterForNotifications, With
    <3>2. regCbs[n] \ {c} # {}
      BY <1>1, <2>2
    <3> QED BY <1>1, <2>0, <3>1, <3>2 DEF Fewer
  <2> QED BY <2>1, <2>2
<1>3. TypeOK'
  BY <1>u, <1>2 DEF Inv, TypeOK, Fewer
<1>4. Reported'
  BY <1>u, <1>2 DEF Inv, Reported, Fewer
<1>5. NoEmptyLists'
  BY <1>u, <1>2 DEF Inv, NoEmptyLists, Fewer
<1> QED
  BY <1>u, <1>3, <1>4, <1>5 DEF Inv, NoAbort

(***************************************************************************)
(* Requests of servers                                                     *)
(***************************************************************************)
LEMMA AddKeeps ==
  ASSUME Inv, NEW p \in Servers, NEW n \in Names, NEW b \in Binders, NEW allow \in BOOLEAN,
         AddService(p, n, b, allow)
  PROVE  Inv'
<1> DEFINE waiting == Callbacks(regCbs, n)
           new == addService(p, b, allow, waiting)
<1>u. UNCHANGED <<site, regCbs, clientCbs, dead, aborted>>
  BY DEF AddService
<1>1. /\ DOMAIN services' = DOMAIN services \cup {n}
      /\ services'[n] = new
      /\ \A m \in DOMAIN services : m # n => services'[m] = services[m]
  BY DEF AddService, With
<1>2. new \in Service /\ new.binder = b
  BY DEF addService, Service
<1>3. waiting \subseteq Clients
  BY DEF Inv, TypeOK, Callbacks
<1>4. holders' \in [Binders -> SUBSET Clients]
  <2>1. holders' = [holders EXCEPT ![b] = @ \cup (waiting \ dead)]
    BY DEF AddService
  <2> HIDE DEF waiting
  <2> QED BY <1>3, <2>1 DEF Inv, TypeOK
<1>5. wanted' = wanted \ {n}
  BY DEF AddService
<1>6. obits \subseteq obits' /\ (p \in dead => <<"binder", b>> \in obits') /\ Owner[b] = p
  BY DEF AddService, Linked
<1> HIDE DEF waiting, new
<1>7. \A m \in DOMAIN services' : services'[m] \in Service
  BY <1>1, <1>2 DEF Inv, TypeOK, Service
<1>8. TypeOK'
  <2>1. {DOMAIN services', DOMAIN regCbs', DOMAIN clientCbs'} \subseteq SUBSET Names
    BY <1>u, <1>1 DEF Inv, TypeOK
  <2>2. wanted' \subseteq Names
    BY <1>5 DEF Inv, TypeOK
  <2> QED BY <1>u, <1>4, <1>7, <2>1, <2>2 DEF Inv, TypeOK, Service
<1>9. Reported'
  <2>1. ASSUME NEW m \in DOMAIN services', Owner[services'[m].binder] \in dead
        PROVE  <<"binder", services'[m].binder>> \in obits'
    <3>1. CASE m = n
      BY <1>1, <1>2, <1>6, <2>1, <3>1
    <3>2. CASE m # n
      BY <1>1, <1>6, <2>1, <3>2 DEF Inv, Reported
    <3> QED BY <3>1, <3>2
  <2>2. /\ \A m \in DOMAIN regCbs' : \A c \in regCbs'[m] : c \in dead' => <<"reg", c>> \in obits'
        /\ \A m \in DOMAIN clientCbs' : \A q \in clientCbs'[m] : q \in dead' => <<"client", q>> \in obits'
    BY <1>u, <1>6 DEF Inv, Reported
  <2> QED BY <1>u, <2>1, <2>2 DEF Reported
<1> QED
  BY <1>u, <1>8, <1>9 DEF Inv, NoAbort, NoEmptyLists

LEMMA WatchKeeps ==
  ASSUME Inv, NEW p \in Servers, NEW n \in Names, NEW b \in Binders, RegisterClientCallback(p, n, b)
  PROVE  Inv'
<1>u. UNCHANGED <<site, services, regCbs, holders, dead, wanted, aborted>>
  BY DEF RegisterClientCallback
<1>1. CASE ~ (n \in DOMAIN services /\ services[n].debugPid = p /\ services[n].binder = b)
  <2>1. UNCHANGED <<clientCbs, obits>>
    BY <1>1 DEF RegisterClientCallback
  <2> QED
    BY <1>u, <2>1 DEF Inv, TypeOK, NoAbort, NoEmptyLists, Reported
<1>2. CASE n \in DOMAIN services /\ services[n].debugPid = p /\ services[n].binder = b
  <2>1. /\ DOMAIN clientCbs' = DOMAIN clientCbs \cup {n}
        /\ clientCbs'[n] = Callbacks(clientCbs, n) \cup {p}
        /\ \A m \in DOMAIN clientCbs : m # n => clientCbs'[m] = clientCbs[m]
    BY <1>2 DEF RegisterClientCallback, With
  <2>2. /\ Callbacks(clientCbs, n) \subseteq Servers
        /\ \A q \in Callbacks(clientCbs, n) : n \in DOMAIN clientCbs /\ q \in clientCbs[n]
    BY DEF Inv, TypeOK, Callbacks
  <2>3. obits \subseteq obits' /\ (p \in dead => <<"client", p>> \in obits')
    BY <1>2 DEF RegisterClientCallback, Linked
  <2>4. TypeOK'
    <3>1. \A m \in DOMAIN clientCbs' : clientCbs'[m] \subseteq Servers
      BY <2>1, <2>2 DEF Inv, TypeOK
    <3>2. {DOMAIN services', DOMAIN regCbs', DOMAIN clientCbs'} \subseteq SUBSET Names
      BY <1>u, <2>1 DEF Inv, TypeOK
    <3> QED BY <1>u, <3>1, <3>2 DEF Inv, TypeOK
  <2>5. Reported'
    <3>1. ASSUME NEW m \in DOMAIN clientCbs', NEW q \in clientCbs'[m], q \in dead
          PROVE  <<"client", q>> \in obits'
      <4>1. CASE q = p /\ m = n
        BY <2>3, <3>1, <4>1
      <4>2. CASE ~ (q = p /\ m = n)
        <5>1. m \in DOMAIN clientCbs /\ q \in clientCbs[m]
          BY <2>1, <2>2, <4>2
        <5> QED BY <2>3, <3>1, <5>1 DEF Inv, Reported
      <4> QED BY <4>1, <4>2
    <3>2. /\ \A m \in DOMAIN services' :
               Owner[services'[m].binder] \in dead' => <<"binder", services'[m].binder>> \in obits'
          /\ \A m \in DOMAIN regCbs' : \A c \in regCbs'[m] : c \in dead' => <<"reg", c>> \in obits'
      BY <1>u, <2>3 DEF Inv, Reported
    <3> QED BY <1>u, <3>1, <3>2 DEF Reported
  <2>6. NoEmptyLists'
    BY <1>u, <2>1 DEF Inv, NoEmptyLists
  <2> QED
    BY <1>u, <2>4, <2>5, <2>6 DEF Inv, NoAbort
<1> QED
  BY <1>1, <1>2

(***************************************************************************)
(* The check of the clients                                                *)
(***************************************************************************)
\* Whatever the record says, none of the three messages repeats the one before,
\* and only the record and the guarantee of the service change.
LEMMA HandlerSound ==
  ASSUME NEW s \in Service, NEW count, NEW interval \in BOOLEAN
  PROVE  LET r == handleServiceClientCallback(s, count, interval)
         IN r.svc \in Service /\ r.svc.binder = s.binder /\ r.bad = FALSE
<1> DEFINE has == count > 1
           r0 == [svc |-> s, bad |-> FALSE]
           r1 == IF s.guaranteeClient /\ ~ s.hasClients /\ ~ has THEN send(r0, TRUE) ELSE r0
           r2 == [r1 EXCEPT !.svc.guaranteeClient = FALSE]
           r3 == IF interval /\ has /\ ~ r2.svc.hasClients THEN send(r2, TRUE) ELSE r2
           r4 == IF interval /\ ~ has /\ r3.svc.hasClients THEN send(r3, FALSE) ELSE r3
           Good(r) == /\ r \in [svc : Service, bad : BOOLEAN]
                      /\ r.svc.binder = s.binder /\ r.bad = FALSE
<1>s. ASSUME NEW r \in [svc : Service, bad : BOOLEAN], Good(r), NEW h \in BOOLEAN, r.svc.hasClients # h
      PROVE  Good(send(r, h))
  BY <1>s DEF send, Service
<1>1. Good(r0)
  BY DEF Service
<1>2. Good(r1)
  <2>1. CASE s.guaranteeClient /\ ~ s.hasClients /\ ~ has
    BY <1>1, <1>s, <2>1 DEF Service
  <2> QED BY <1>1, <2>1
<1> HIDE DEF r1
<1>3. Good(r2)
  BY <1>2 DEF Service
<1> HIDE DEF r2
<1>4. Good(r3)
  <2>1. CASE interval /\ has /\ ~ r2.svc.hasClients
    BY <1>3, <1>s, <2>1 DEF Service
  <2> QED BY <1>3, <2>1
<1> HIDE DEF r3
<1>5. Good(r4)
  <2>1. CASE interval /\ ~ has /\ r3.svc.hasClients
    BY <1>4, <1>s, <2>1 DEF Service
  <2> QED BY <1>4, <2>1
<1> USE DEF r1, r2, r3
<1>6. handleServiceClientCallback(s, count, interval) = r4
  BY DEF handleServiceClientCallback
<1> HIDE DEF r4
<1> QED
  BY <1>5, <1>6

LEMMA TimerKeeps == ASSUME Inv, HandleClientCallbacks PROVE Inv'
<1> DEFINE watched == DOMAIN services \cap DOMAIN clientCbs
           after(n) == handleServiceClientCallback(services[n],
                         getNodeStrongRefCount(services[n].binder, 0), TRUE)
<1>u. UNCHANGED <<site, regCbs, clientCbs, holders, dead, late, obits, wanted>>
  BY DEF HandleClientCallbacks
<1>1. ASSUME NEW n \in DOMAIN services
      PROVE  after(n).svc \in Service /\ after(n).svc.binder = services[n].binder /\ after(n).bad = FALSE
  <2>1. services[n] \in Service
    BY DEF Inv, TypeOK, Service
  <2> QED BY <2>1, HandlerSound
<1>2. /\ services' = [n \in DOMAIN services |-> IF n \in watched THEN after(n).svc ELSE services[n]]
      /\ aborted' = (\E n \in watched : after(n).bad)
  BY DEF HandleClientCallbacks
<1> HIDE DEF after
<1>3. DOMAIN services' = DOMAIN services
  BY <1>2
<1>4. \A n \in DOMAIN services : /\ services'[n] \in Service
                                 /\ services'[n].binder = services[n].binder
                                 /\ n \notin watched => services'[n] = services[n]
  <2> SUFFICES ASSUME NEW n \in DOMAIN services
               PROVE  /\ services'[n] \in Service
                      /\ services'[n].binder = services[n].binder
                      /\ n \notin watched => services'[n] = services[n]
    OBVIOUS
  <2>1. services'[n] = IF n \in watched THEN after(n).svc ELSE services[n]
    BY <1>2
  <2>2. services[n] \in Service
    BY DEF Inv, TypeOK, Service
  <2> QED BY <1>1, <2>1, <2>2
<1>5. ~ aborted'
  BY <1>1, <1>2
<1>6. TypeOK'
  BY <1>u, <1>2, <1>3, <1>4 DEF Inv, TypeOK, Service
<1>7. Reported'
  BY <1>u, <1>3, <1>4 DEF Inv, Reported
<1> QED
  BY <1>u, <1>5, <1>6, <1>7 DEF Inv, NoAbort, NoEmptyLists

LEMMA UnregisterKeeps ==
  ASSUME Inv, NEW p \in Servers, NEW n \in Names, NEW b \in Binders, NEW busy \in 0 .. 1,
         TryUnregisterService(p, n, b, busy)
  PROVE  Inv'
<1> DEFINE count == getNodeStrongRefCount(b, busy)
           r == handleServiceClientCallback(services[n], count, FALSE)
<1>u. /\ UNCHANGED <<site, regCbs, clientCbs, holders, dead, obits, wanted>>
  BY DEF TryUnregisterService
<1>0. n \in DOMAIN services /\ services[n] \in Service
  BY DEF Inv, TypeOK, Service, TryUnregisterService
<1>1. CASE n \in DOMAIN clientCbs /\ count <= 2
  <2>1. services' = [m \in DOMAIN services \ {n} |-> services[m]] /\ aborted' = r.bad
    BY <1>1 DEF TryUnregisterService, Without
  <2>2. r.bad = FALSE
    BY <1>0, HandlerSound
  <2>3. aborted' = FALSE
    BY <2>1, <2>2
  <2> HIDE DEF r, count
  <2>4. TypeOK'
    BY <1>u, <2>1 DEF Inv, TypeOK
  <2>5. Reported'
    BY <1>u, <2>1 DEF Inv, Reported
  <2> QED
    BY <1>u, <2>3, <2>4, <2>5 DEF Inv, NoAbort, NoEmptyLists
<1>2. CASE ~ (n \in DOMAIN clientCbs /\ count <= 2)
  <2>1. services' = [services EXCEPT ![n].guaranteeClient = TRUE] /\ aborted' = aborted
    BY <1>2 DEF TryUnregisterService
  <2> HIDE DEF count
  <2>2. /\ DOMAIN services' = DOMAIN services
        /\ services'[n] = [services[n] EXCEPT !.guaranteeClient = TRUE]
        /\ \A m \in DOMAIN services : m # n => services'[m] = services[m]
    BY <1>0, <2>1
  <2>3. services'[n] \in Service /\ services'[n].binder = services[n].binder
    BY <1>0, <2>2 DEF Service
  <2>4. \A m \in DOMAIN services' : services'[m] \in Service /\ services'[m].binder = services[m].binder
    BY <2>2, <2>3 DEF Inv, TypeOK, Service
  <2>5. TypeOK'
    BY <1>u, <2>2, <2>4 DEF Inv, TypeOK, Service
  <2>6. Reported'
    BY <1>u, <2>2, <2>4 DEF Inv, Reported
  <2> QED
    BY <1>u, <2>1, <2>5, <2>6 DEF Inv, NoAbort, NoEmptyLists
<1> QED
  BY <1>1, <1>2

(***************************************************************************)
(* Deaths and handles                                                      *)
(***************************************************************************)
LEMMA DiedKeeps == ASSUME Inv, NEW who \in obits, BinderDied(who) PROVE Inv'
<1> DEFINE goneC == {c \in Clients : who = <<"reg", c>>}
           goneS == {p \in Servers : who = <<"client", p>>}
<1>u. /\ UNCHANGED <<site, holders, dead, late, wanted, aborted>> /\ obits' = obits \ {who}
  BY DEF BinderDied
<1>1. /\ DOMAIN services' \subseteq DOMAIN services
      /\ \A m \in DOMAIN services' : /\ services'[m] = services[m]
                                     /\ who # <<"binder", services[m].binder>>
  BY DEF BinderDied
<1>2. /\ DOMAIN regCbs' \subseteq DOMAIN regCbs
      /\ \A m \in DOMAIN regCbs' : regCbs'[m] = regCbs[m] \ goneC /\ regCbs'[m] # {}
  BY DEF BinderDied, RemoveFrom
<1>3. /\ DOMAIN clientCbs' \subseteq DOMAIN clientCbs
      /\ \A m \in DOMAIN clientCbs' : clientCbs'[m] = clientCbs[m] \ goneS /\ clientCbs'[m] # {}
  BY DEF BinderDied, RemoveFrom
<1>4. TypeOK'
  <2>1. {DOMAIN services', DOMAIN regCbs', DOMAIN clientCbs'} \subseteq SUBSET Names
    BY <1>1, <1>2, <1>3 DEF Inv, TypeOK
  <2>2. /\ \A m \in DOMAIN regCbs' : regCbs'[m] \subseteq Listeners
        /\ \A m \in DOMAIN clientCbs' : clientCbs'[m] \subseteq Servers
    BY <1>2, <1>3 DEF Inv, TypeOK
  <2> QED BY <1>u, <1>1, <2>1, <2>2 DEF Inv, TypeOK
<1>5. Reported'
  <2>1. ASSUME NEW m \in DOMAIN services', Owner[services'[m].binder] \in dead
        PROVE  <<"binder", services'[m].binder>> \in obits'
    BY <1>u, <1>1, <2>1 DEF Inv, Reported
  <2>2. ASSUME NEW m \in DOMAIN regCbs', NEW c \in regCbs'[m], c \in dead
        PROVE  <<"reg", c>> \in obits'
    <3>1. c \in regCbs[m] /\ c \in Clients /\ c \notin goneC
      BY <1>2, <2>2 DEF Inv, TypeOK
    <3> QED BY <1>u, <1>2, <2>2, <3>1 DEF Inv, Reported
  <2>3. ASSUME NEW m \in DOMAIN clientCbs', NEW p \in clientCbs'[m], p \in dead
        PROVE  <<"client", p>> \in obits'
    <3>1. p \in clientCbs[m] /\ p \in Servers /\ p \notin goneS
      BY <1>3, <2>3 DEF Inv, TypeOK
    <3> QED BY <1>u, <1>3, <2>3, <3>1 DEF Inv, Reported
  <2> QED BY <1>u, <2>1, <2>2, <2>3 DEF Reported
<1>6. NoEmptyLists'
  BY <1>2, <1>3 DEF NoEmptyLists
<1> QED
  BY <1>u, <1>4, <1>5, <1>6 DEF Inv, NoAbort

\* The driver reports everything of a process that the manager is linked to.
LEMMA DieKeeps == ASSUME Inv, NEW p \in Procs, NEW last, Die(p, last) PROVE Inv'
<1>u. UNCHANGED <<site, services, regCbs, clientCbs, wanted, aborted>>
  BY DEF Die
<1>1. /\ dead' = dead \cup {p}
      /\ obits' = obits \cup {who \in Objects(p) : LinkedTo(who)}
      /\ holders' = [b \in Binders |-> holders[b] \ {p}]
  BY DEF Die
<1>2. TypeOK'
  BY <1>u, <1>1 DEF Inv, TypeOK
<1>3. Reported'
  <2>1. ASSUME NEW m \in DOMAIN services, Owner[services[m].binder] = p
        PROVE  <<"binder", services[m].binder>> \in obits'
    <3>1. services[m].binder \in Binders
      BY DEF Inv, TypeOK
    <3>2. <<"binder", services[m].binder>> \in Objects(p)
      BY <2>1, <3>1 DEF Objects
    <3>3. LinkedTo(<<"binder", services[m].binder>>)
      BY DEF LinkedTo
    <3> QED BY <1>1, <3>2, <3>3
  <2>2. ASSUME NEW m \in DOMAIN regCbs, p \in regCbs[m] PROVE <<"reg", p>> \in obits'
    <3>1. <<"reg", p>> \in Objects(p) /\ LinkedTo(<<"reg", p>>)
      BY <2>2 DEF Objects, LinkedTo
    <3> QED BY <1>1, <3>1
  <2>3. ASSUME NEW m \in DOMAIN clientCbs, p \in clientCbs[m] PROVE <<"client", p>> \in obits'
    <3>1. <<"client", p>> \in Objects(p) /\ LinkedTo(<<"client", p>>)
      BY <2>3 DEF Objects, LinkedTo
    <3> QED BY <1>1, <3>1
  <2>4. obits \subseteq obits'
    BY <1>1
  <2>5. \A m \in DOMAIN services' :
          Owner[services'[m].binder] \in dead' => <<"binder", services'[m].binder>> \in obits'
    BY <1>u, <1>1, <2>1, <2>4 DEF Inv, Reported
  <2>6. \A m \in DOMAIN regCbs' : \A c \in regCbs'[m] : c \in dead' => <<"reg", c>> \in obits'
    BY <1>u, <1>1, <2>2, <2>4 DEF Inv, Reported
  <2>7. \A m \in DOMAIN clientCbs' : \A q \in clientCbs'[m] : q \in dead' => <<"client", q>> \in obits'
    BY <1>u, <1>1, <2>3, <2>4 DEF Inv, Reported
  <2> QED BY <2>5, <2>6, <2>7 DEF Reported
<1> QED
  BY <1>u, <1>2, <1>3 DEF Inv, NoAbort, NoEmptyLists

LEMMA HandlesKeep ==
  ASSUME Inv, NEW c \in Clients, NEW d \in Clients, NEW b \in Binders, Drop(c, b) \/ PassOn(c, d, b)
  PROVE  Inv'
<1>1. /\ UNCHANGED <<site, services, regCbs, clientCbs, dead, obits, wanted, aborted>>
      /\ holders' \in {[holders EXCEPT ![b] = @ \ {c}], [holders EXCEPT ![b] = @ \cup {d}]}
  BY DEF Drop, PassOn
<1>2. TypeOK'
  BY <1>1 DEF Inv, TypeOK
<1> QED
  BY <1>1, <1>2 DEF Inv, NoAbort, NoEmptyLists, Reported

(***************************************************************************)
(* The theorems                                                            *)
(***************************************************************************)
LEMMA InvNext == ASSUME Inv, [Next]_vars PROVE Inv'
<1>s. site.procs \subseteq Procs /\ site.names \subseteq Names
  BY SiteFacts DEF Inv
<1>1. ASSUME NEW c \in Clients \cap site.procs, NEW n \in site.names,
             \/ \E start, refused \in BOOLEAN : GetService(c, n, start, refused)
             \/ RegisterForNotifications(c, n)
             \/ UnregisterForNotifications(c, n)
      PROVE  Inv'
  BY <1>s, <1>1, GetKeeps, ListenKeeps, UnlistenKeeps
<1>2. ASSUME NEW p \in Servers \cap site.procs, NEW n \in site.names, NEW b \in Binders,
             \/ \E allow \in BOOLEAN : AddService(p, n, b, allow)
             \/ RegisterClientCallback(p, n, b)
             \/ \E busy \in 0 .. 1 : TryUnregisterService(p, n, b, busy)
      PROVE  Inv'
  BY <1>s, <1>2, AddKeeps, WatchKeeps, UnregisterKeeps
<1>3. CASE HandleClientCallbacks
  BY <1>3, TimerKeeps
<1>4. CASE \E who \in obits : BinderDied(who)
  BY <1>4, DiedKeeps
<1>5. CASE \E p \in site.procs : \E last \in Requests(p) : Die(p, last)
  BY <1>s, <1>5, DieKeeps
<1>6. CASE \E c \in Clients \cap site.procs, b \in Binders :
             Drop(c, b) \/ \E d \in Clients \cap site.procs : PassOn(c, d, b)
  BY <1>6, HandlesKeep
<1>7. CASE UNCHANGED vars
  BY <1>7 DEF vars, Inv, TypeOK, NoAbort, NoEmptyLists, Reported
<1> QED
  BY <1>1, <1>2, <1>3, <1>4, <1>5, <1>6, <1>7 DEF Next

\* For any processes and names: no CHECK of the manager fails, no list of
\* callbacks is empty, and of a process that died nothing stays in a table
\* without a notice of its death to come, also when its last request is served
\* after it.
THEOREM TablesCorrect == Spec => []TablesSound
<1>1. Inv => TablesSound
  BY ReportedIsDeadReported DEF Inv, TablesSound
<1> QED
  BY InvInit, InvNext, <1>1, PTL DEF Spec
=============================================================================
