---------------------------- MODULE PowerSupply ----------------------------
(***************************************************************************)
(* power_supply_core.c with power_supply_leds.c and power_supply_sysfs.c:  *)
(* the class of power supplies. A driver's probe registers a supply, the   *)
(* driver reports changes, a work tells the supplies it feeds and user     *)
(* space and holds a wakeup source meanwhile, users take references by     *)
(* name, and the driver's remove unregisters.                              *)
(*                                                                         *)
(* The workqueue and the driver core are modelled by what this code uses:  *)
(* a work does not run twice at a time, a work queued while it runs runs   *)
(* again, cancelling waits for it and refuses new queueing; probe and      *)
(* remove run with the parent's mutex; the class holds a reference.        *)
(***************************************************************************)
EXTENDS Integers, FiniteSets, Sequences

CONSTANTS
  Supplies,
  SuppliedTo,  (* [Supplies -> SUBSET Supplies]: whom a supply feeds       *)
  Requires,    (* [Supplies -> SUBSET Supplies]: "power-supplies" nodes    *)
  Systems      (* the supplies that are there, the stages of their         *)
               (* registration that may fail, bounds on the changes their  *)
               (* drivers report, on the references users hold and on the  *)
               (* walks over the class that have found one supply          *)

\* The stages of a registration that may fail.
Stages == <<"add", "wakeup", "thermal", "cooler", "triggers">>
Last == Len(Stages)
StageNames == {Stages[i] : i \in 1 .. Last}

ASSUME SupplyAssumption ==
  /\ SuppliedTo \in [Supplies -> SUBSET Supplies] /\ Requires \in [Supplies -> SUBSET Supplies]
  /\ Systems \subseteq [supplies : SUBSET Supplies, failures : SUBSET StageNames,
                         changes : Nat, holders : Nat, walks : Nat]

VARIABLES
  sys,      (* the system, chosen at the start                             *)
  psy,      (* struct power_supply and its device                          *)
  drv,      (* where the driver's probe or remove is                       *)
  parent,   (* who holds the mutex of the parent: "free", "driver", "work" *)
  caller,   (* where a driver's call of power_supply_changed is            *)
  queued,   (* changed_work is queued                                      *)
  work,     (* where changed_work is                                       *)
  deferred, (* where deferred_register_work is                             *)
  holders,  (* references of users                                         *)
  walkers,  (* walks over the class that have got to the supply            *)
  val,      (* what the driver's get_property answers                      *)
  told,     (* what the last uevent carried                                *)
  gets      (* history: "work" if changed_work asked a driver whose supply *)
            (* is not registered, "early" if anybody asked one before its  *)
            (* registration was through                                    *)

vars == <<psy, drv, parent, caller, queued, work, deferred, holders, walkers, val, told, gets, sys>>

Unregistering == {"unreg", "cancel", "cancelling", "cancel_deferred", "unregister"}
\* The labels of __power_supply_register, by what comes after them.
Undoing == {"undo_cooler", "undo_thermal", "undo_del", "undo_put"}
Phases == {"unbound", "probe", "finishing", "bound", "failed", "gone"} \cup Unregistering
            \cup StageNames \cup Undoing

NoPsy == [in_class |-> FALSE, refs |-> 0, use_cnt |-> 0, initialized |-> FALSE,
          removing |-> FALSE, changed |-> FALSE, awake |-> FALSE, freed |-> FALSE, parts |-> {}]

Init ==
  /\ sys \in Systems
  /\ psy = [s \in Supplies |-> NoPsy] /\ drv = [s \in Supplies |-> "unbound"]
  /\ parent = [s \in Supplies |-> "free"] /\ caller = [s \in Supplies |-> "idle"]
  /\ queued = [s \in Supplies |-> FALSE] /\ work = [s \in Supplies |-> "idle"]
  /\ deferred = [s \in Supplies |-> "idle"] /\ holders = [s \in Supplies |-> 0]
  /\ walkers = [s \in Supplies |-> 0]
  /\ val = [s \in Supplies |-> 1] /\ told = [s \in Supplies |-> 0]
  /\ gets = {}

\* put_device: the last reference frees the structure.
put_device(p, n) == [p EXCEPT !.refs = @ - n, !.freed = (p.refs = n)]

\* power_supply_get_property refuses while nobody uses the supply: users who
\* found it in the class count as well as the driver that registered it.
Readable(s) == psy[s].use_cnt > 0
GotByWork(s) ==
  gets' = gets \cup (IF drv[s] \in {"finishing", "bound"} \cup Unregistering THEN {} ELSE {"work"})
Got(s) == gets' = gets \cup (IF drv[s] \in StageNames \cup {"registered"} THEN {"early"} ELSE {})

(***************************************************************************)
(* power_supply_changed, called by s's driver or by the deferred work: the *)
(* flag and the wakeup source under the lock, then the work.               *)
(***************************************************************************)
changed_set(s) == psy' = [psy EXCEPT ![s].changed = TRUE, ![s].awake = TRUE]

\* Mutant: a work that runs is not queued again.
schedule_work_Idle(s) == queued' = [queued EXCEPT ![s] = @ \/ work[s] = "idle"]

schedule_work(s) == queued' = [queued EXCEPT ![s] = @ \/ drv[s] # "cancelling"]

DriverEvent(s) ==
  /\ drv[s] \in {"finishing", "bound"} /\ caller[s] = "idle" /\ val[s] < sys.changes
  /\ val' = [val EXCEPT ![s] = @ + 1]
  /\ caller' = [caller EXCEPT ![s] = "call"]
  /\ UNCHANGED <<psy, drv, parent, queued, work, deferred, holders, walkers, told, gets, sys>>

ChangedSet(s) ==
  /\ caller[s] = "call"
  /\ changed_set(s)
  /\ caller' = [caller EXCEPT ![s] = "schedule"]
  /\ UNCHANGED <<drv, parent, queued, work, deferred, holders, walkers, val, told, gets, sys>>

ChangedSchedule(s) ==
  /\ caller[s] = "schedule"
  /\ schedule_work(s)
  /\ caller' = [caller EXCEPT ![s] = "idle"]
  /\ UNCHANGED <<psy, drv, parent, work, deferred, holders, walkers, val, told, gets, sys>>

(***************************************************************************)
(* power_supply_changed_work                                               *)
(***************************************************************************)
\* A call just before the lock finds its event told by the run before.
WorkBegin(s) ==
  /\ queued[s] /\ work[s] = "idle"
  /\ queued' = [queued EXCEPT ![s] = FALSE]
  /\ IF psy[s].changed
     THEN psy' = [psy EXCEPT ![s].changed = FALSE] /\ work' = [work EXCEPT ![s] = "supplies"]
     ELSE psy' = [psy EXCEPT ![s].awake = FALSE] /\ UNCHANGED work
  /\ UNCHANGED <<drv, parent, caller, deferred, holders, walkers, val, told, gets, sys>>

\* external_power_changed of the supplies that s feeds; each may read s.
WorkSupplies(s) ==
  /\ work[s] = "supplies"
  /\ work' = [work EXCEPT ![s] = "event"]
  /\ IF \E t \in SuppliedTo[s] : psy[t].in_class THEN GotByWork(s) ELSE UNCHANGED gets
  /\ UNCHANGED <<psy, drv, parent, caller, queued, deferred, holders, walkers, val, told, sys>>

\* The leds, the notifiers and the uevent read the properties.
WorkEvent(s) ==
  /\ work[s] = "event"
  /\ work' = [work EXCEPT ![s] = "end"]
  /\ IF Readable(s) THEN told' = [told EXCEPT ![s] = val[s]] /\ GotByWork(s)
     ELSE UNCHANGED <<told, gets>>
  /\ UNCHANGED <<psy, drv, parent, caller, queued, deferred, holders, walkers, val, sys>>

\* Mutant: the wakeup source is released although an event came in between.
relax_Clear(s) == psy' = [psy EXCEPT ![s].changed = FALSE, ![s].awake = FALSE]

relax(s) == psy' = [psy EXCEPT ![s].awake = psy[s].awake /\ psy[s].changed]

WorkEnd(s) ==
  /\ work[s] = "end"
  /\ relax(s)
  /\ work' = [work EXCEPT ![s] = "idle"]
  /\ UNCHANGED <<drv, parent, caller, queued, deferred, holders, walkers, val, told, gets, sys>>

(***************************************************************************)
(* power_supply_deferred_register_work: waits for the parent's mutex, or   *)
(* for the supply to be removed.                                           *)
(***************************************************************************)
DeferredStart(s) ==
  /\ deferred[s] = "queued"
  /\ deferred' = [deferred EXCEPT ![s] = "trylock"]
  /\ UNCHANGED <<psy, drv, parent, caller, queued, work, holders, walkers, val, told, gets, sys>>

DeferredLock(s) ==
  /\ deferred[s] = "trylock" /\ parent[s] = "free"
  /\ parent' = [parent EXCEPT ![s] = "work"]
  /\ deferred' = [deferred EXCEPT ![s] = "call"]
  /\ UNCHANGED <<psy, drv, caller, queued, work, holders, walkers, val, told, gets, sys>>

DeferredGiveUp(s) ==
  /\ deferred[s] = "trylock" /\ parent[s] # "free" /\ psy[s].removing
  /\ deferred' = [deferred EXCEPT ![s] = "idle"]
  /\ UNCHANGED <<psy, drv, parent, caller, queued, work, holders, walkers, val, told, gets, sys>>

DeferredSet(s) ==
  /\ deferred[s] = "call"
  /\ changed_set(s)
  /\ deferred' = [deferred EXCEPT ![s] = "schedule"]
  /\ UNCHANGED <<drv, parent, caller, queued, work, holders, walkers, val, told, gets, sys>>

DeferredSchedule(s) ==
  /\ deferred[s] = "schedule"
  /\ schedule_work(s)
  /\ parent' = [parent EXCEPT ![s] = "free"]
  /\ deferred' = [deferred EXCEPT ![s] = "idle"]
  /\ UNCHANGED <<psy, drv, caller, work, holders, walkers, val, told, gets, sys>>

(***************************************************************************)
(* __power_supply_register, in the driver's probe                          *)
(***************************************************************************)
ProbeBegin(s) ==
  /\ s \in sys.supplies /\ drv[s] = "unbound" /\ parent[s] = "free"
  /\ parent' = [parent EXCEPT ![s] = "driver"]
  /\ drv' = [drv EXCEPT ![s] = "probe"]
  /\ UNCHANGED <<psy, caller, queued, work, deferred, holders, walkers, val, told, gets, sys>>

\* power_supply_check_supplies; with -EPROBE_DEFER the probe is tried again.
CheckSupplies(s) ==
  /\ drv[s] = "probe"
  /\ IF \A t \in Requires[s] : psy[t].in_class
     THEN /\ psy' = [psy EXCEPT ![s] = [NoPsy EXCEPT !.refs = 1]]
          /\ drv' = [drv EXCEPT ![s] = Stages[1]] /\ UNCHANGED parent
     ELSE /\ drv' = [drv EXCEPT ![s] = "unbound"] /\ parent' = [parent EXCEPT ![s] = "free"]
          /\ UNCHANGED psy
  /\ UNCHANGED <<caller, queued, work, deferred, holders, walkers, val, told, gets, sys>>

StageOf(s) == CHOOSE i \in 1 .. Last : Stages[i] = drv[s]

\* device_add (whose uevent is not sent: get_property still refuses), then
\* the wakeup source, the thermal zone, the cooler and the led triggers.
Stage(s) ==
  /\ \E i \in 1 .. Last : drv[s] = Stages[i]
  /\ IF drv[s] = "add" THEN psy' = [psy EXCEPT ![s].in_class = TRUE, ![s].refs = @ + 1]
     ELSE psy' = [psy EXCEPT ![s].parts = @ \cup {drv[s]}]
  /\ drv' = [drv EXCEPT ![s] = IF StageOf(s) = Last THEN "registered" ELSE Stages[StageOf(s) + 1]]
  /\ UNCHANGED <<parent, caller, queued, work, deferred, holders, walkers, val, told, gets, sys>>

\* Mutant: a cooler that fails leaves the thermal zone behind.
FailLabel_NoThermal(stage) ==
  IF stage \in {"add", "wakeup"} THEN "undo_put" ELSE IF stage = "triggers" THEN "undo_cooler" ELSE "undo_del"

\* Where a stage that fails jumps to: wakeup_init_failed is below device_del.
FailLabel(stage) ==
  CASE stage \in {"add", "wakeup"} -> "undo_put"
    [] stage = "thermal" -> "undo_del"
    [] stage = "cooler" -> "undo_thermal"
    [] stage = "triggers" -> "undo_cooler"

StageFails(s) ==
  /\ drv[s] \in sys.failures
  /\ drv' = [drv EXCEPT ![s] = FailLabel(drv[s])]
  /\ UNCHANGED <<psy, parent, caller, queued, work, deferred, holders, walkers, val, told, gets, sys>>

UndoCooler(s) ==
  /\ drv[s] = "undo_cooler"
  /\ psy' = [psy EXCEPT ![s].parts = @ \ {"cooler"}]
  /\ drv' = [drv EXCEPT ![s] = "undo_thermal"]
  /\ UNCHANGED <<parent, caller, queued, work, deferred, holders, walkers, val, told, gets, sys>>

UndoThermal(s) ==
  /\ drv[s] = "undo_thermal"
  /\ psy' = [psy EXCEPT ![s].parts = @ \ {"thermal"}]
  /\ drv' = [drv EXCEPT ![s] = "undo_del"]
  /\ UNCHANGED <<parent, caller, queued, work, deferred, holders, walkers, val, told, gets, sys>>

\* device_del takes the supply off the class, and the wakeup source with it.
UndoDel(s) ==
  /\ drv[s] = "undo_del"
  /\ psy' = [psy EXCEPT ![s].in_class = FALSE, ![s].refs = @ - 1, ![s].parts = @ \ {"wakeup"}]
  /\ drv' = [drv EXCEPT ![s] = "undo_put"]
  /\ UNCHANGED <<parent, caller, queued, work, deferred, holders, walkers, val, told, gets, sys>>

UndoPut(s) ==
  /\ drv[s] = "undo_put"
  /\ psy' = [psy EXCEPT ![s] = put_device(@, 1)]
  /\ drv' = [drv EXCEPT ![s] = "failed"]
  /\ parent' = [parent EXCEPT ![s] = "free"]
  /\ UNCHANGED <<caller, queued, work, deferred, holders, walkers, val, told, gets, sys>>

Registered(s) ==
  /\ drv[s] = "registered"
  /\ psy' = [psy EXCEPT ![s].use_cnt = @ + 1, ![s].initialized = TRUE]
  /\ deferred' = [deferred EXCEPT ![s] = "queued"]
  /\ drv' = [drv EXCEPT ![s] = "finishing"]
  /\ UNCHANGED <<parent, caller, queued, work, holders, walkers, val, told, gets, sys>>

ProbeEnd(s) ==
  /\ drv[s] = "finishing"
  /\ drv' = [drv EXCEPT ![s] = "bound"]
  /\ parent' = [parent EXCEPT ![s] = "free"]
  /\ UNCHANGED <<psy, caller, queued, work, deferred, holders, walkers, val, told, gets, sys>>

(***************************************************************************)
(* power_supply_unregister, in the driver's remove, after the driver has   *)
(* stopped its own calls.                                                  *)
(***************************************************************************)
RemoveBegin(s) ==
  /\ drv[s] = "bound" /\ parent[s] = "free" /\ caller[s] = "idle"
  /\ parent' = [parent EXCEPT ![s] = "driver"]
  /\ drv' = [drv EXCEPT ![s] = "unreg"]
  /\ UNCHANGED <<psy, caller, queued, work, deferred, holders, walkers, val, told, gets, sys>>

Unregister(s) ==
  /\ drv[s] = "unreg"
  /\ psy' = [psy EXCEPT ![s].use_cnt = @ - 1, ![s].removing = TRUE]
  /\ drv' = [drv EXCEPT ![s] = "cancel"]
  /\ UNCHANGED <<parent, caller, queued, work, deferred, holders, walkers, val, told, gets, sys>>

\* cancel_work_sync(&psy->changed_work)
CancelChanged(s) ==
  /\ drv[s] = "cancel"
  /\ queued' = [queued EXCEPT ![s] = FALSE]
  /\ drv' = [drv EXCEPT ![s] = "cancelling"]
  /\ UNCHANGED <<psy, parent, caller, work, deferred, holders, walkers, val, told, gets, sys>>

CancelChangedEnd(s) == drv[s] = "cancelling" /\ work[s] = "idle"
CancelledChanged(s) ==
  /\ CancelChangedEnd(s)
  /\ drv' = [drv EXCEPT ![s] = "cancel_deferred"]
  /\ UNCHANGED <<psy, parent, caller, queued, work, deferred, holders, walkers, val, told, gets, sys>>

\* cancel_delayed_work_sync(&psy->deferred_register_work)
CancelDeferred(s) ==
  /\ drv[s] = "cancel_deferred" /\ deferred[s] \in {"idle", "queued"}
  /\ deferred' = [deferred EXCEPT ![s] = "idle"]
  /\ drv' = [drv EXCEPT ![s] = "unregister"]
  /\ UNCHANGED <<psy, parent, caller, queued, work, holders, walkers, val, told, gets, sys>>

DeviceUnregister(s) ==
  /\ drv[s] = "unregister"
  /\ psy' = [psy EXCEPT ![s] = put_device([psy[s] EXCEPT !.in_class = FALSE, !.awake = FALSE,
                                                         !.parts = {}], 2)]
  /\ drv' = [drv EXCEPT ![s] = "gone"]
  /\ parent' = [parent EXCEPT ![s] = "free"]
  /\ UNCHANGED <<caller, queued, work, deferred, holders, walkers, val, told, gets, sys>>

(***************************************************************************)
(* Users                                                                   *)
(***************************************************************************)
get_ref(p) == [p EXCEPT !.use_cnt = @ + 1, !.refs = @ + 1]

\* power_supply_get_by_name, power_supply_get_by_phandle.
GetByName(s) ==
  /\ psy[s].in_class /\ holders[s] < sys.holders
  /\ psy' = [psy EXCEPT ![s] = get_ref(@)]
  /\ holders' = [holders EXCEPT ![s] = @ + 1]
  /\ UNCHANGED <<drv, parent, caller, queued, work, deferred, walkers, val, told, gets, sys>>

Put(s) ==
  /\ holders[s] > 0
  /\ psy' = [psy EXCEPT ![s] = put_device([psy[s] EXCEPT !.use_cnt = @ - 1], 1)]
  /\ holders' = [holders EXCEPT ![s] = @ - 1]
  /\ UNCHANGED <<drv, parent, caller, queued, work, deferred, walkers, val, told, gets, sys>>

\* power_supply_get_property and its likes, called with a reference.
UserRead(s) ==
  /\ holders[s] > 0 /\ Readable(s)
  /\ Got(s)
  /\ UNCHANGED <<psy, drv, parent, caller, queued, work, deferred, holders, walkers, val, told, sys>>

\* power_supply_am_i_supplied, power_supply_is_system_supplied and
\* power_supply_set_input_current_limit_from_supplier walk over the class
\* without a lock: the walk holds a reference of the supply it has got to and
\* then asks it, without the test of use_cnt.
AmISupplied(s) ==
  /\ SuppliedTo[s] # {} /\ psy[s].in_class /\ walkers[s] < sys.walks
  /\ psy' = [psy EXCEPT ![s].refs = @ + 1]
  /\ walkers' = [walkers EXCEPT ![s] = @ + 1]
  /\ UNCHANGED <<drv, parent, caller, queued, work, deferred, holders, val, told, gets, sys>>

AskSupplier(s) ==
  /\ walkers[s] > 0
  /\ Got(s)
  /\ psy' = [psy EXCEPT ![s] = put_device(@, 1)]
  /\ walkers' = [walkers EXCEPT ![s] = @ - 1]
  /\ UNCHANGED <<drv, parent, caller, queued, work, deferred, holders, val, told, sys>>

Driver(s) ==
  \/ ChangedSet(s) \/ ChangedSchedule(s) \/ CheckSupplies(s) \/ Stage(s) \/ Registered(s)
  \/ ProbeEnd(s) \/ Unregister(s) \/ CancelChanged(s) \/ CancelledChanged(s) \/ CancelDeferred(s)
  \/ DeviceUnregister(s) \/ UndoCooler(s) \/ UndoThermal(s) \/ UndoDel(s) \/ UndoPut(s)
ChangedWork(s) == WorkBegin(s) \/ WorkSupplies(s) \/ WorkEvent(s) \/ WorkEnd(s)
DeferredWork(s) ==
  DeferredStart(s) \/ DeferredLock(s) \/ DeferredGiveUp(s) \/ DeferredSet(s) \/ DeferredSchedule(s)
Next ==
  \E s \in Supplies :
    \/ DriverEvent(s) \/ ProbeBegin(s) \/ RemoveBegin(s) \/ StageFails(s)
    \/ GetByName(s) \/ Put(s) \/ UserRead(s) \/ AmISupplied(s) \/ AskSupplier(s)
    \/ Driver(s) \/ ChangedWork(s) \/ DeferredWork(s)

Spec == Init /\ [][Next]_vars

\* A driver's calls come to an end and the workqueue runs what is queued.
\* The deferred work tries the mutex again and again: it gets it if it is free
\* again and again.
FairSpec ==
  Spec /\ \A s \in Supplies : /\ WF_vars(Driver(s)) /\ WF_vars(ChangedWork(s))
                              /\ WF_vars(DeferredWork(s)) /\ SF_vars(DeferredLock(s))

(***************************************************************************)
(* Properties                                                              *)
(***************************************************************************)
\* Every variable has its type.
TypeOK ==
  /\ drv \in [Supplies -> Phases \cup {"registered"}]
  /\ parent \in [Supplies -> {"free", "driver", "work"}]
  /\ caller \in [Supplies -> {"idle", "call", "schedule"}]
  /\ queued \in [Supplies -> BOOLEAN]
  /\ work \in [Supplies -> {"idle", "supplies", "event", "end"}]
  /\ deferred \in [Supplies -> {"idle", "queued", "trylock", "call", "schedule"}]
  /\ \A s \in Supplies : psy[s].refs >= 0 /\ psy[s].use_cnt >= 0 /\ told[s] <= val[s]

\* "Hold the wakeup_source until all events are processed": it is held while
\* an event is pending or being told, and no longer.
WakeExact ==
  \A s \in Supplies : psy[s].in_class /\ drv[s] # "unregister" /\ ~ psy[s].removing =>
    (psy[s].awake <=> psy[s].changed \/ work[s] # "idle")

\* A change that user space has not been told of is on its way, although
\* power_supply_changed may come at any point of the work.
NoLostEvent ==
  \A s \in Supplies : drv[s] \in {"finishing", "bound"} =>
    /\ told[s] # val[s] =>
         \/ caller[s] = "call" \/ deferred[s] # "idle"
         \/ psy[s].changed \/ work[s] \in {"supplies", "event"}
    /\ psy[s].changed => queued[s] \/ caller[s] = "schedule" \/ deferred[s] = "schedule"

\* The order of power_supply_unregister: after it no work is queued or runs,
\* although the deferred work may queue the other one.
NoWorkAfterUnregister ==
  \A s \in Supplies : drv[s] \in {"unregister", "gone", "failed"} =>
    ~ queued[s] /\ work[s] = "idle" /\ deferred[s] = "idle"

\* The structure is freed when the class, every user and every walk over the
\* class have let go of it.
FreedUnused ==
  \A s \in Supplies : psy[s].freed => holders[s] = 0 /\ walkers[s] = 0 /\ ~ psy[s].in_class

\* "ERR_PTR otherwise": the labels undo what the stages before the one that
\* failed have done, and unregistering undoes all; but for a wakeup source that
\* fails, whose label leaves the supply in the class (README, Findings).
FailedLeavesNothing ==
  \A s \in Supplies : drv[s] \in {"failed", "gone"} =>
    psy[s].parts = {} /\ (psy[s].in_class => drv[s] = "failed" /\ "wakeup" \in sys.failures)

\* The leds, the notifiers and the uevent of changed_work do not ask a driver
\* whose supply is not registered; and when a driver has gone and its users
\* have put their references, power_supply_get_property refuses.
GetWhileThere ==
  /\ "work" \notin gets
  /\ \A s \in Supplies : drv[s] \in {"failed", "gone"} /\ holders[s] = 0 => ~ Readable(s)

\* "... execution of get_property() function provided by the driver too early"
\* is what the use count and the deferred work are to prevent. Users and walks
\* do ask early: README, Findings.
NotAskedEarly == "early" \notin gets

\* What a driver reported last reaches user space, unless it is removed.
EventsTold ==
  \A s \in Supplies : (drv[s] = "bound" /\ told[s] # val[s])
                        ~> (told[s] = val[s] \/ drv[s] \in Unregistering \cup {"gone"})

\* power_supply_unregister ends: the deferred work does not wait for the mutex
\* that the caller holds.
UnregisterEnds == \A s \in Supplies : drv[s] = "unreg" ~> drv[s] = "gone"

\* No change is lost between power_supply_changed and its work, and the wakeup
\* source is held exactly as long as one is not reported.
EventsHeld == WakeExact /\ NoLostEvent

\* After a removal or a failed registration no work of the supply runs or asks
\* its driver, nothing of it is left, and it is freed only when nobody has it.
TeardownSound ==
  TypeOK /\ NoWorkAfterUnregister /\ FreedUnused /\ FailedLeavesNothing /\ GetWhileThere

\* The last change reaches user space and a removal ends.
AllEnds == EventsTold /\ UnregisterEnds
=============================================================================
