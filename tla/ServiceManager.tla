--------------------------- MODULE ServiceManager ---------------------------
(***************************************************************************)
(* ServiceManager.cpp: the table of services, the callbacks that wait for  *)
(* a service, and the callbacks that tell a server whether it has clients. *)
(* The manager has one thread (main.cpp), so a request is one step; the    *)
(* callbacks are oneway. Processes hold, drop and pass on what they were   *)
(* given, and may die at any time, also with a last request on its way.    *)
(*                                                                         *)
(* External: the driver. It counts one strong reference per process that   *)
(* holds a handle, the manager included, and one per call that is under    *)
(* way (binder.c:4999), and reports the death of what was linked to, at    *)
(* once when it is dead already.                                           *)
(***************************************************************************)
EXTENDS Integers, FiniteSets

CONSTANTS
  Names, Servers, Clients,
  Owner,        (* the server of every binder: [Binders -> Servers]        *)
  Isolated,     (* the clients with an isolated uid                        *)
  Listeners,    (* the clients that register for notifications             *)
  Sites,        (* who takes part and which names are used, each a site     *)
  NoBinder      (* a null binder, which addService refuses                 *)

ASSUME ManagerAssumption ==
  /\ Owner \in [DOMAIN Owner -> Servers] /\ NoBinder \notin DOMAIN Owner
  /\ Isolated \subseteq Clients /\ Listeners \subseteq Clients
  /\ Servers \cap Clients = {}
  /\ Sites \subseteq [procs : SUBSET (Servers \cup Clients), names : SUBSET Names]

VARIABLES
  site,       (* the site, chosen at the start                             *)
  services,   (* mNameToService, a function on the names that are there    *)
  regCbs,     (* mNameToRegistrationCallback: for a name, the clients      *)
  clientCbs,  (* mNameToClientCallback: for a name, the servers. A callback *)
              (* that is in a list twice is erased twice: the lists are    *)
              (* sets                                                      *)
  holders,    (* the clients that hold a strong handle of a binder         *)
  dead,       (* processes that died                                       *)
  late,       (* the last request of a process that died, or none          *)
  obits,      (* deaths that the driver has still to report                *)
  wanted,     (* names that init was asked to start                        *)
  aborted     (* a CHECK has failed                                        *)

vars == <<site, services, regCbs, clientCbs, holders, dead, late, obits, wanted, aborted>>

Binders == DOMAIN Owner
Procs == Servers \cup Clients
Without(f, n) == [m \in DOMAIN f \ {n} |-> f[m]]
With(f, n, v) == [m \in DOMAIN f \cup {n} |-> IF m = n THEN v ELSE f[m]]
Callbacks(f, n) == IF n \in DOMAIN f THEN f[n] ELSE {}

Init ==
  /\ site \in Sites
  /\ services = <<>> /\ regCbs = <<>> /\ clientCbs = <<>>
  /\ holders = [b \in Binders |-> {}]
  /\ dead = {} /\ late = [p \in Procs |-> <<>>] /\ obits = {}
  /\ wanted = {} /\ aborted = FALSE

\* Who makes request r: a process that lives, or one that died with it on its way.
Caller(p, r) ==
  /\ ~ aborted
  /\ p \notin dead \/ late[p] = r
  /\ late' = [late EXCEPT ![p] = <<>>]

(***************************************************************************)
(* The requests                                                            *)
(***************************************************************************)
\* tryGetService. Refused: the policy does not let the client find the name.
GetService(c, n, start, refused) ==
  /\ Caller(c, <<"get", n>>)
  /\ LET found == n \in DOMAIN services
         barred == found /\ ~ services[n].allowIsolated /\ c \in Isolated
         b == services[n].binder
     IN IF barred \/ refused \/ ~ found
        THEN /\ wanted' = IF ~ barred /\ ~ refused /\ start THEN wanted \cup {n} ELSE wanted
             /\ UNCHANGED <<services, holders>>
        ELSE /\ services' = [services EXCEPT ![n].guaranteeClient = TRUE]
             /\ holders' = IF c \in dead THEN holders ELSE [holders EXCEPT ![b] = @ \cup {c}]
             /\ UNCHANGED wanted
  /\ UNCHANGED <<site, regCbs, clientCbs, dead, obits, aborted>>

\* linkToDeath: the driver reports at once what is dead already.
Linked(who, p) == obits' = IF p \in dead THEN obits \cup {who} ELSE obits

addService(p, b, allow, waiting) ==
  [binder |-> b, allowIsolated |-> allow, hasClients |-> FALSE,
   guaranteeClient |-> waiting # {}, debugPid |-> p]
AddService(p, n, b, allow) ==
  /\ Owner[b] = p
  /\ Caller(p, <<"add", n, b>>)
  /\ Linked(<<"binder", b>>, p)
  /\ LET waiting == Callbacks(regCbs, n) IN
     /\ services' = With(services, n, addService(p, b, allow, waiting))
     /\ holders' = [holders EXCEPT ![b] = @ \cup (waiting \ dead)]
  /\ wanted' = wanted \ {n}
  /\ UNCHANGED <<site, regCbs, clientCbs, dead, aborted>>

RegisterForNotifications(c, n) ==
  /\ c \in Listeners
  /\ Caller(c, <<"listen", n>>)
  /\ Linked(<<"reg", c>>, c)
  /\ regCbs' = With(regCbs, n, Callbacks(regCbs, n) \cup {c})
  /\ IF n \in DOMAIN services
     THEN holders' = IF c \in dead THEN holders ELSE [holders EXCEPT ![services[n].binder] = @ \cup {c}]
     ELSE UNCHANGED holders
  /\ UNCHANGED <<site, services, clientCbs, dead, wanted, aborted>>

\* removeRegistrationCallback, removeClientCallback: a list that is empty goes.
RemoveFrom(f, gone) ==
  [n \in {m \in DOMAIN f : f[m] \ gone # {}} |-> f[n] \ gone]

UnregisterForNotifications(c, n) ==
  /\ c \in Listeners /\ n \in DOMAIN regCbs
  /\ Caller(c, <<"unlisten", n>>)
  /\ regCbs' = IF regCbs[n] = {c} THEN Without(regCbs, n) ELSE With(regCbs, n, regCbs[n] \ {c})
  /\ UNCHANGED <<site, services, clientCbs, holders, dead, obits, wanted, aborted>>

\* Only the process that runs the service, and for the binder in the table.
RegisterClientCallback(p, n, b) ==
  /\ Caller(p, <<"watch", n, b>>)
  /\ IF n \in DOMAIN services /\ services[n].debugPid = p /\ services[n].binder = b
     THEN /\ Linked(<<"client", p>>, p)
          /\ clientCbs' = With(clientCbs, n, Callbacks(clientCbs, n) \cup {p})
     ELSE UNCHANGED <<clientCbs, obits>>
  /\ UNCHANGED <<site, services, regCbs, holders, dead, wanted, aborted>>

(***************************************************************************)
(* Clients of a service                                                    *)
(***************************************************************************)
getNodeStrongRefCount(b, busy) == 1 + Cardinality(holders[b]) + busy

\* sendClientCallbackNotifications: r is what the handler has so far.
send(r, has) ==
  [svc |-> [r.svc EXCEPT !.hasClients = has], bad |-> r.bad \/ r.svc.hasClients = has]

\* Mutant: the server is not told that its last client left.
handleServiceClientCallback_NoEnd(s, count, interval) ==
  LET has == count > 1
      r0 == [svc |-> s, bad |-> FALSE]
      r1 == IF s.guaranteeClient /\ ~ s.hasClients /\ ~ has THEN send(r0, TRUE) ELSE r0
      r2 == [r1 EXCEPT !.svc.guaranteeClient = FALSE]
  IN IF interval /\ has /\ ~ r2.svc.hasClients THEN send(r2, TRUE) ELSE r2

handleServiceClientCallback(s, count, interval) ==
  LET has == count > 1
      r0 == [svc |-> s, bad |-> FALSE]
      r1 == IF s.guaranteeClient /\ ~ s.hasClients /\ ~ has THEN send(r0, TRUE) ELSE r0
      r2 == [r1 EXCEPT !.svc.guaranteeClient = FALSE]
      r3 == IF interval /\ has /\ ~ r2.svc.hasClients THEN send(r2, TRUE) ELSE r2
  IN IF interval /\ ~ has /\ r3.svc.hasClients THEN send(r3, FALSE) ELSE r3

\* handleClientCallbacks, every five seconds.
HandleClientCallbacks ==
  /\ ~ aborted
  /\ LET watched == DOMAIN services \cap DOMAIN clientCbs
         after(n) == handleServiceClientCallback(services[n],
                       getNodeStrongRefCount(services[n].binder, 0), TRUE)
     IN /\ services' = [n \in DOMAIN services |-> IF n \in watched THEN after(n).svc ELSE services[n]]
        /\ aborted' = (\E n \in watched : after(n).bad)
  /\ UNCHANGED <<site, regCbs, clientCbs, holders, dead, late, obits, wanted>>

TryUnregisterService(p, n, b, busy) ==
  /\ Caller(p, <<"unregister", n, b>>) /\ (busy > 0 => holders[b] # {})
  /\ n \in DOMAIN services /\ services[n].debugPid = p /\ services[n].binder = b
  /\ ~ services[n].guaranteeClient
  /\ LET count == getNodeStrongRefCount(b, busy)
         r == handleServiceClientCallback(services[n], count, FALSE)
     IN IF n \in DOMAIN clientCbs /\ count <= 2
        THEN /\ services' = Without(services, n)
             /\ aborted' = r.bad
        ELSE /\ services' = [services EXCEPT ![n].guaranteeClient = TRUE]
             /\ UNCHANGED aborted
  /\ UNCHANGED <<site, regCbs, clientCbs, holders, dead, obits, wanted>>

(***************************************************************************)
(* Deaths                                                                  *)
(***************************************************************************)
\* Mutant: only one of the names of the binder is taken out.
BinderDied_FirstOnly(who) ==
  /\ who \in obits /\ ~ aborted
  /\ obits' = obits \ {who}
  /\ services' = LET hit == {n \in DOMAIN services : who = <<"binder", services[n].binder>>}
                 IN IF hit = {} THEN services ELSE Without(services, CHOOSE n \in hit : TRUE)
  /\ regCbs' = RemoveFrom(regCbs, {c \in Clients : who = <<"reg", c>>})
  /\ clientCbs' = RemoveFrom(clientCbs, {p \in Servers : who = <<"client", p>>})
  /\ UNCHANGED <<site, holders, dead, late, wanted, aborted>>

BinderDied(who) ==
  /\ who \in obits /\ ~ aborted
  /\ obits' = obits \ {who}
  /\ services' = [n \in {m \in DOMAIN services : who # <<"binder", services[m].binder>>} |-> services[n]]
  /\ regCbs' = RemoveFrom(regCbs, {c \in Clients : who = <<"reg", c>>})
  /\ clientCbs' = RemoveFrom(clientCbs, {p \in Servers : who = <<"client", p>>})
  /\ UNCHANGED <<site, holders, dead, late, wanted, aborted>>

Objects(p) == {<<"reg", p>>, <<"client", p>>} \cup {<<"binder", b>> : b \in {x \in Binders : Owner[x] = p}}
LinkedTo(who) ==
  \/ \E n \in DOMAIN services : who = <<"binder", services[n].binder>>
  \/ \E n \in DOMAIN regCbs : \E c \in regCbs[n] : who = <<"reg", c>>
  \/ \E n \in DOMAIN clientCbs : \E p \in clientCbs[n] : who = <<"client", p>>
Requests(p) ==
  {<<>>} \cup IF p \in Servers
             THEN {<<k, n, b>> : k \in {"add", "watch", "unregister"}, n \in site.names,
                                 b \in {x \in Binders : Owner[x] = p}}
             ELSE {<<k, n>> : k \in {"get", "listen", "unlisten"}, n \in site.names}
Die(p, last) ==
  /\ p \notin dead
  /\ dead' = dead \cup {p}
  /\ late' = [late EXCEPT ![p] = last]
  /\ obits' = obits \cup {who \in Objects(p) : LinkedTo(who)}
  /\ holders' = [b \in Binders |-> holders[b] \ {p}]
  /\ UNCHANGED <<site, services, regCbs, clientCbs, wanted, aborted>>

(***************************************************************************)
(* What the clients do with a handle                                       *)
(***************************************************************************)
Drop(c, b) ==
  /\ c \in holders[b]
  /\ holders' = [holders EXCEPT ![b] = @ \ {c}]
  /\ UNCHANGED <<site, services, regCbs, clientCbs, dead, late, obits, wanted, aborted>>
PassOn(c, d, b) ==
  /\ c \in holders[b] /\ d \notin holders[b] \cup dead
  /\ holders' = [holders EXCEPT ![b] = @ \cup {d}]
  /\ UNCHANGED <<site, services, regCbs, clientCbs, dead, late, obits, wanted, aborted>>

Next ==
  \/ \E c \in Clients \cap site.procs, n \in site.names :
       \/ \E start, refused \in BOOLEAN : GetService(c, n, start, refused)
       \/ RegisterForNotifications(c, n)
       \/ UnregisterForNotifications(c, n)
  \/ \E p \in Servers \cap site.procs, n \in site.names, b \in Binders :
       \/ \E allow \in BOOLEAN : AddService(p, n, b, allow)
       \/ RegisterClientCallback(p, n, b)
       \/ \E busy \in 0 .. 1 : TryUnregisterService(p, n, b, busy)
  \/ HandleClientCallbacks
  \/ \E who \in obits : BinderDied(who)
  \/ \E p \in site.procs : \E last \in Requests(p) : Die(p, last)
  \/ \E c \in Clients \cap site.procs, b \in Binders : Drop(c, b) \/ \E d \in Clients \cap site.procs : PassOn(c, d, b)

Spec == Init /\ [][Next]_vars

\* The looper polls the driver and the timer: both get their turn.
FairSpec == Spec /\ WF_vars(HandleClientCallbacks) /\ WF_vars(\E who \in obits : BinderDied(who))

(***************************************************************************)
(* Properties                                                              *)
(***************************************************************************)
\* Every variable has its type.
TypeOK ==
  /\ \A n \in DOMAIN services :
       services[n] \in [binder : Binders, allowIsolated : BOOLEAN, hasClients : BOOLEAN,
                        guaranteeClient : BOOLEAN, debugPid : Servers]
  /\ {DOMAIN services, DOMAIN regCbs, DOMAIN clientCbs} \subseteq SUBSET Names
  /\ \A n \in DOMAIN regCbs : regCbs[n] \subseteq Listeners
  /\ \A n \in DOMAIN clientCbs : clientCbs[n] \subseteq Servers
  /\ holders \in [Binders -> SUBSET Clients] /\ dead \subseteq Procs
  /\ wanted \subseteq Names /\ site \in Sites

\* No CHECK of sendClientCallbackNotifications fails: the record of what the
\* server was told is right whatever way clients came and went.
NoAbort == ~ aborted

\* The CHECKs of the destructor: no list of callbacks is empty.
NoEmptyLists == \A f \in {regCbs, clientCbs} : \A n \in DOMAIN f : f[n] # {}

\* What is dead leaves the tables: no binder and no callback of a process
\* that died stays without a report of its death to come.
DeadReported == \A p \in dead : \A who \in Objects(p) : LinkedTo(who) => who \in obits

\* A server that asked is told, in the end, that it has clients and that it
\* has none any more, however they came by its binder.
Watched(n) == n \in DOMAIN services \cap DOMAIN clientCbs
Has(n) == Watched(n) /\ services[n].hasClients
ToldInTheEnd ==
  \A n \in Names :
    /\ <>[](Watched(n) /\ holders[services[n].binder] # {}) => []<> Has(n)
    /\ <>[](Watched(n) /\ holders[services[n].binder] = {}) => []<> (~ Has(n))

\* tryUnregisterService takes a service away when nobody else holds it: the
\* comment at 565-568 counts one reference of the manager and one that the
\* driver is to hold during the call. The driver holds none for a binder that
\* is only named in a call, so a count of 2 is the manager and a client, and
\* the property does not hold (README, Findings).
UnregisterAlone ==
  [][\A n \in Names : n \in DOMAIN services /\ n \notin DOMAIN services' /\ obits' = obits
       => holders[services[n].binder] = {}]_vars

\* A name does not keep a dead binder.
DeadRemoved ==
  \A n \in Names : [](n \in DOMAIN services /\ Owner[services[n].binder] \in dead
                      => <>(n \notin DOMAIN services \/ Owner[services[n].binder] \notin dead))

\* The tables agree with each other and with who lives, and no CHECK fails.
TablesSound == TypeOK /\ NoAbort /\ NoEmptyLists /\ DeadReported

\* With the timer and the driver's notices served, servers are told of their
\* clients and the dead leave the tables.
AllTold == ToldInTheEnd /\ DeadRemoved
=============================================================================
