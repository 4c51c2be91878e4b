------------------------- MODULE PowerSupplyProofs -------------------------
(***************************************************************************)
(* Proofs about the power supply class, for every set of supplies, every   *)
(* way they feed and require each other, any number of changes and users,  *)
(* and a registration that may fail at every stage.                        *)
(*                                                                         *)
(* A step of one supply leaves the state of every other alone, so the      *)
(* invariant is about one supply: what its driver's place in probe and     *)
(* remove says of the references, of the mutex, and of the two works.      *)
(***************************************************************************)
EXTENDS PowerSupply, TLAPS

Psy == [in_class : BOOLEAN, refs : Int, use_cnt : Int, initialized : BOOLEAN, removing : BOOLEAN,
        changed : BOOLEAN, awake : BOOLEAN, freed : BOOLEAN, parts : SUBSET StageNames]

Typed ==
  /\ psy \in [Supplies -> Psy]
  /\ drv \in [Supplies -> Phases \cup {"registered"}]
  /\ parent \in [Supplies -> {"free", "driver", "work"}]
  /\ caller \in [Supplies -> {"idle", "call", "schedule"}]
  /\ queued \in [Supplies -> BOOLEAN]
  /\ work \in [Supplies -> {"idle", "supplies", "event", "end"}]
  /\ deferred \in [Supplies -> {"idle", "queued", "trylock", "call", "schedule"}]
  /\ holders \in [Supplies -> Nat] /\ walkers \in [Supplies -> Nat] /\ val \in [Supplies -> Nat] /\ told \in [Supplies -> Nat]

Registering == {"add", "wakeup", "thermal", "cooler", "triggers", "registered"}
Working == {"finishing", "bound"} \cup Unregistering
Removed == {"cancel", "cancelling", "cancel_deferred", "unregister", "gone"}

One(b) == IF b THEN 1 ELSE 0
\* References: of the users and of walks, of the driver from the allocation to
\* the end, and of the class. Uses: of the users, and the driver's while it is
\* registered.
Counted(s) ==
  /\ psy[s].refs = holders[s] + walkers[s] + One(drv[s] \in Registering \cup Undoing \cup Working)
                     + One(psy[s].in_class)
  /\ psy[s].use_cnt = holders[s] + One(drv[s] \in {"finishing", "bound", "unreg"})
  /\ psy[s].freed => psy[s].refs = 0

\* The supply is in the class from the first stage to the last step.
Classed(s) ==
  /\ drv[s] \in {"unbound", "probe", "add"} => holders[s] = 0 /\ walkers[s] = 0
  /\ psy[s].in_class => drv[s] \notin {"unbound", "probe", "add", "gone"}
  /\ drv[s] \in (Registering \ {"add"}) \cup Working \cup (Undoing \ {"undo_put"}) => psy[s].in_class
  /\ psy[s].in_class /\ drv[s] \in {"undo_put", "failed"} => "wakeup" \in sys.failures

\* What the stages have made and the labels have not undone yet.
Parted(s) ==
  /\ drv[s] \in {"unbound", "probe", "add", "wakeup", "undo_put", "failed", "gone"} => psy[s].parts = {}
  /\ drv[s] \in {"thermal", "undo_del"} => psy[s].parts \subseteq {"wakeup"}
  /\ drv[s] \in {"cooler", "undo_thermal"} => psy[s].parts \subseteq {"wakeup", "thermal"}
  /\ drv[s] \in {"triggers", "undo_cooler"} => psy[s].parts \subseteq {"wakeup", "thermal", "cooler"}

\* The mutex is held by the driver's probe and remove or by the deferred work.
Locked(s) ==
  /\ parent[s] = "driver" <=> drv[s] \in {"probe", "finishing"} \cup Registering \cup Undoing \cup Unregistering
  /\ parent[s] = "work" <=> deferred[s] \in {"call", "schedule"}

\* Where the works can be while the driver is where it is.
Works(s) ==
  /\ caller[s] # "idle" => drv[s] \in {"finishing", "bound"}
  /\ queued[s] \/ work[s] # "idle" \/ deferred[s] # "idle" => drv[s] \in Working
  /\ drv[s] \in {"cancelling", "cancel_deferred", "unregister"} => ~queued[s]
  /\ drv[s] \in {"cancel_deferred", "unregister"} => work[s] = "idle"
  /\ drv[s] = "unregister" => deferred[s] = "idle"
  /\ psy[s].removing <=> drv[s] \in Removed

\* The event and the wakeup source. That the deferred work has something to
\* tell ends when it sets the flag, not when it returns.
Reported(s) ==
  /\ told[s] <= val[s]
  /\ drv[s] \in {"unbound", "probe"} \cup Registering => ~psy[s].changed
  /\ drv[s] \notin Removed => (psy[s].awake <=> psy[s].changed \/ work[s] # "idle")
  /\ drv[s] \in {"finishing", "bound"} =>
       /\ told[s] # val[s] =>
            \/ caller[s] = "call" \/ deferred[s] \in {"queued", "trylock", "call"}
            \/ psy[s].changed \/ work[s] \in {"supplies", "event"}
       /\ psy[s].changed => queued[s] \/ caller[s] = "schedule" \/ deferred[s] = "schedule"

Sound(s) == Counted(s) /\ Classed(s) /\ Parted(s) /\ Locked(s) /\ Works(s) /\ Reported(s)

\* The inductive invariant.
Inv == Typed /\ sys \in Systems /\ \A s \in Supplies : Sound(s)

-----------------------------------------------------------------------------
(* Steps of one supply.                                                    *)

LEMMA StageFacts == Last = 5 /\ StageNames = {"add", "wakeup", "thermal", "cooler", "triggers"}
<1>1. Last = 5
  BY DEF Last, Stages
<1>2. 1 .. 5 = {1, 2, 3, 4, 5}
  OBVIOUS
<1>. QED BY <1>1, <1>2 DEF StageNames, Stages

\* The state of every other supply is left alone.
OthersKept(s) ==
  \A u \in Supplies \ {s} :
    /\ psy'[u] = psy[u] /\ drv'[u] = drv[u] /\ parent'[u] = parent[u] /\ caller'[u] = caller[u]
    /\ queued'[u] = queued[u] /\ work'[u] = work[u] /\ deferred'[u] = deferred[u]
    /\ holders'[u] = holders[u] /\ walkers'[u] = walkers[u] /\ val'[u] = val[u] /\ told'[u] = told[u]

\* It suffices to look at the supply that takes the step.
LEMMA OneSupply ==
  ASSUME Inv, NEW s \in Supplies, OthersKept(s), sys' = sys, Typed', Sound(s)'
  PROVE  Inv'
<1>1. ASSUME NEW u \in Supplies, u # s PROVE Sound(u)'
  <2>1. Sound(u)
    BY DEF Inv
  <2>. QED BY <1>1, <2>1 DEF OthersKept, Sound, Counted, Classed, Parted, Locked, Works, Reported
<1>. QED BY <1>1 DEF Inv

LEMMA InitInv == ASSUME Init PROVE Inv
<1>1. NoPsy \in Psy
  BY DEF NoPsy, Psy
<1>2. Typed
  BY <1>1 DEF Init, Typed, Phases
<1>3. ASSUME NEW s \in Supplies PROVE Sound(s)
  BY DEF Init, NoPsy, Sound, Counted, Classed, Parted, Locked, Works, Reported, One,
         Registering, Undoing, Working, Removed, Unregistering
<1>. QED BY <1>2, <1>3 DEF Init, Inv

\* The updates of struct power_supply keep its type.
LEMMA PsySet ==
  ASSUME NEW p \in Psy, NEW n \in Int, NEW m \in Int, NEW b \in BOOLEAN, NEW set \in SUBSET StageNames
  PROVE  /\ [p EXCEPT !.use_cnt = n, !.removing = TRUE] \in Psy
         /\ [p EXCEPT !.use_cnt = n, !.initialized = TRUE] \in Psy
         /\ [p EXCEPT !.use_cnt = n] \in Psy /\ [p EXCEPT !.refs = n] \in Psy
         /\ [p EXCEPT !.in_class = TRUE, !.refs = n] \in Psy
         /\ [p EXCEPT !.in_class = FALSE, !.refs = n, !.parts = set] \in Psy
         /\ [p EXCEPT !.in_class = FALSE, !.awake = FALSE, !.parts = {}] \in Psy
         /\ [p EXCEPT !.parts = set] \in Psy
         /\ [p EXCEPT !.use_cnt = n, !.refs = m] \in Psy
         /\ [p EXCEPT !.refs = n, !.freed = b] \in Psy
BY DEF Psy
LEMMA PsyUpdates ==
  ASSUME NEW p \in Psy
  PROVE  /\ [p EXCEPT !.use_cnt = @ - 1, !.removing = TRUE] \in Psy
         /\ [p EXCEPT !.use_cnt = @ + 1, !.initialized = TRUE] \in Psy
         /\ [p EXCEPT !.use_cnt = @ - 1] \in Psy
         /\ [p EXCEPT !.in_class = TRUE, !.refs = @ + 1] \in Psy
         /\ [p EXCEPT !.refs = @ + 1] \in Psy
         /\ \A part \in StageNames : [p EXCEPT !.in_class = FALSE, !.refs = @ - 1, !.parts = @ \ {part}] \in Psy
         /\ \A part \in StageNames : [p EXCEPT !.parts = @ \ {part}] \in Psy
         /\ [p EXCEPT !.in_class = FALSE, !.awake = FALSE, !.parts = {}] \in Psy
         /\ \A part \in StageNames : [p EXCEPT !.parts = @ \cup {part}] \in Psy
         /\ get_ref(p) \in Psy /\ put_device(p, 1) \in Psy /\ put_device(p, 2) \in Psy
<1>1. /\ p.use_cnt - 1 \in Int /\ p.use_cnt + 1 \in Int /\ p.refs + 1 \in Int
      /\ p.refs - 1 \in Int /\ p.refs - 2 \in Int /\ (\A part \in StageNames : p.parts \cup {part} \in SUBSET StageNames /\ p.parts \ {part} \in SUBSET StageNames)
      /\ (p.refs = 1) \in BOOLEAN /\ (p.refs = 2) \in BOOLEAN
  BY DEF Psy
<1>2. [p EXCEPT !.use_cnt = p.use_cnt - 1, !.removing = TRUE] \in Psy
  BY <1>1, PsySet, Zenon
<1>3. [p EXCEPT !.use_cnt = p.use_cnt + 1, !.initialized = TRUE] \in Psy
  BY <1>1, PsySet, Zenon
<1>4. [p EXCEPT !.use_cnt = p.use_cnt - 1] \in Psy
  BY <1>1, PsySet, Zenon
<1>5. [p EXCEPT !.in_class = TRUE, !.refs = p.refs + 1] \in Psy
  BY <1>1, PsySet, Zenon
<1>6. ASSUME NEW part \in StageNames PROVE [p EXCEPT !.in_class = FALSE, !.refs = p.refs - 1, !.parts = p.parts \ {part}] \in Psy
  BY <1>1, PsySet, Zenon
<1>12. ASSUME NEW part \in StageNames PROVE [p EXCEPT !.parts = p.parts \ {part}] \in Psy
  BY <1>1, PsySet, Zenon
<1>13. [p EXCEPT !.refs = p.refs + 1] \in Psy
  BY <1>1, PsySet, Zenon
<1>7. [p EXCEPT !.in_class = FALSE, !.awake = FALSE, !.parts = {}] \in Psy
  BY <1>1, PsySet, Zenon
<1>11. ASSUME NEW part \in StageNames PROVE [p EXCEPT !.parts = p.parts \cup {part}] \in Psy
  BY <1>1, PsySet, Zenon
<1>8. [p EXCEPT !.use_cnt = p.use_cnt + 1, !.refs = p.refs + 1] \in Psy
  BY <1>1, PsySet, Zenon
<1>9. [p EXCEPT !.refs = p.refs - 1, !.freed = (p.refs = 1)] \in Psy
  BY <1>1, PsySet, Zenon
<1>10. [p EXCEPT !.refs = p.refs - 2, !.freed = (p.refs = 2)] \in Psy
  BY <1>1, PsySet, Zenon
<1>. QED BY <1>2, <1>3, <1>4, <1>5, <1>6, <1>7, <1>8, <1>9, <1>10, <1>11, <1>12, <1>13, Zenon DEF get_ref,
   put_device

LEMMA FirstPsy == [NoPsy EXCEPT !.refs = 1] \in Psy
<1>1. NoPsy \in Psy /\ 1 \in Int
  BY DEF NoPsy, Psy
<1>. QED BY <1>1, PsySet, Zenon

\* What power_supply_put leaves.
LEMMA PutFields ==
  ASSUME NEW p \in Psy, NEW q, q = put_device([p EXCEPT !.use_cnt = @ - 1], 1)
  PROVE  /\ q.use_cnt = p.use_cnt - 1 /\ q.refs = p.refs - 1 /\ (q.freed => p.refs = 1)
         /\ q.in_class = p.in_class /\ q.parts = p.parts /\ q.removing = p.removing
         /\ q.changed = p.changed /\ q.awake = p.awake
<1> DEFINE r == [p EXCEPT !.use_cnt = p.use_cnt - 1]
<1>1. /\ r.use_cnt = p.use_cnt - 1 /\ r.refs = p.refs /\ r.in_class = p.in_class /\ r.parts = p.parts
      /\ r.removing = p.removing /\ r.changed = p.changed /\ r.awake = p.awake
  BY DEF Psy
<1>2. r \in Psy
  BY PsyUpdates
<1>3. q = [r EXCEPT !.refs = r.refs - 1, !.freed = (r.refs = 1)]
  BY Zenon DEF put_device
<1> HIDE DEF r
<1>. QED BY <1>1, <1>2, <1>3 DEF Psy

LEMMA PhaseFacts ==
  /\ {"unbound", "probe", "finishing", "bound", "failed", "gone"} \subseteq Phases
  /\ Unregistering \subseteq Phases /\ StageNames \subseteq Phases /\ Undoing \subseteq Phases
BY DEF Phases

\* power_supply_changed.
LEMMA ChangedStep ==
  ASSUME Inv, NEW s \in Supplies,
         DriverEvent(s) \/ ChangedSet(s) \/ ChangedSchedule(s)
  PROVE  Inv'
<1>1. Typed /\ Sound(s) /\ psy[s] \in Psy
  BY DEF Inv, Typed
<1>2. CASE DriverEvent(s)
  <2>1. Typed' /\ OthersKept(s) /\ sys' = sys
    BY <1>1, <1>2 DEF DriverEvent, Typed, OthersKept
  <2>2. Sound(s)'
    BY <1>1, <1>2 DEF DriverEvent, Typed, Sound, Counted, Classed, Parted, Locked, Works, Reported
  <2>. QED BY <2>1, <2>2, OneSupply
<1>3. CASE ChangedSet(s)
  <2> DEFINE p == [psy[s] EXCEPT !.changed = TRUE, !.awake = TRUE]
  <2>1. psy' = [psy EXCEPT ![s] = p]
    BY <1>1, <1>3 DEF ChangedSet, changed_set, Typed
  <2>2. p \in Psy
    BY <1>1 DEF Psy
  <2>3. Sound(s)'
    BY <1>1, <1>3, <2>1 DEF ChangedSet, changed_set, Typed, Psy, Sound, Counted, Classed, Parted, Locked,
       Works, Reported, Registering
  <2> HIDE DEF p
  <2>4. Typed' /\ OthersKept(s) /\ sys' = sys
    BY <1>1, <1>3, <2>1, <2>2 DEF ChangedSet, Typed, OthersKept
  <2>. QED BY <2>3, <2>4, OneSupply
<1>4. CASE ChangedSchedule(s)
  <2>1. Typed' /\ OthersKept(s) /\ sys' = sys
    BY <1>1, <1>4 DEF ChangedSchedule, schedule_work, Typed, OthersKept
  <2>2. Sound(s)'
    BY <1>1, <1>4 DEF ChangedSchedule, schedule_work, Typed, Sound, Counted, Classed, Parted, Locked,
       Works, Reported, Working, Unregistering
  <2>. QED BY <2>1, <2>2, OneSupply
<1>. QED BY <1>2, <1>3, <1>4

\* power_supply_changed_work.
LEMMA WorkStep ==
  ASSUME Inv, NEW s \in Supplies,
         WorkBegin(s) \/ WorkSupplies(s) \/ WorkEvent(s) \/ WorkEnd(s)
  PROVE  Inv'
<1>1. Typed /\ Sound(s) /\ psy[s] \in Psy
  BY DEF Inv, Typed
<1>2. CASE WorkBegin(s)
  <2> DEFINE p == IF psy[s].changed THEN [psy[s] EXCEPT !.changed = FALSE] ELSE [psy[s] EXCEPT !.awake = FALSE]
  <2>1. psy' = [psy EXCEPT ![s] = p]
    BY <1>1, <1>2 DEF WorkBegin, Typed
  <2>2. p \in Psy
    BY <1>1 DEF Psy
  <2>3. Sound(s)'
    BY <1>1, <1>2, <2>1 DEF WorkBegin, Typed, Psy, Sound, Counted, Classed, Parted, Locked, Works,
       Reported, Working, Unregistering, Removed
  <2> HIDE DEF p
  <2>4. Typed' /\ OthersKept(s) /\ sys' = sys
    BY <1>1, <1>2, <2>1, <2>2 DEF WorkBegin, Typed, OthersKept
  <2>. QED BY <2>3, <2>4, OneSupply
<1>3. CASE WorkSupplies(s)
  <2>1. Typed' /\ OthersKept(s) /\ sys' = sys
    BY <1>1, <1>3 DEF WorkSupplies, Typed, OthersKept
  <2>2. Sound(s)'
    BY <1>1, <1>3 DEF WorkSupplies, Typed, Sound, Counted, Classed, Parted, Locked, Works, Reported
  <2>. QED BY <2>1, <2>2, OneSupply
<1>4. CASE WorkEvent(s)
  <2>1. Typed' /\ OthersKept(s) /\ sys' = sys
    BY <1>1, <1>4 DEF WorkEvent, Readable, Typed, OthersKept
  <2>2. Sound(s)'
    BY <1>1, <1>4 DEF WorkEvent, Readable, Typed, Sound, Counted, Classed, Parted, Locked, Works,
       Reported, One, Working, Unregistering
  <2>. QED BY <2>1, <2>2, OneSupply
<1>5. CASE WorkEnd(s)
  <2> DEFINE p == [psy[s] EXCEPT !.awake = psy[s].awake /\ psy[s].changed]
  <2>1. psy' = [psy EXCEPT ![s] = p]
    BY <1>1, <1>5 DEF WorkEnd, relax, Typed
  <2>2. p \in Psy
    BY <1>1 DEF Psy
  <2>3. Sound(s)'
    BY <1>1, <1>5, <2>1 DEF WorkEnd, relax, Typed, Psy, Sound, Counted, Classed, Parted, Locked, Works,
       Reported
  <2> HIDE DEF p
  <2>4. Typed' /\ OthersKept(s) /\ sys' = sys
    BY <1>1, <1>5, <2>1, <2>2 DEF WorkEnd, Typed, OthersKept
  <2>. QED BY <2>3, <2>4, OneSupply
<1>. QED BY <1>2, <1>3, <1>4, <1>5

\* power_supply_deferred_register_work.
LEMMA DeferredStep ==
  ASSUME Inv, NEW s \in Supplies,
         DeferredStart(s) \/ DeferredLock(s) \/ DeferredGiveUp(s) \/ DeferredSet(s) \/ DeferredSchedule(s)
  PROVE  Inv'
<1>1. Typed /\ Sound(s) /\ psy[s] \in Psy
  BY DEF Inv, Typed
<1>2. CASE DeferredStart(s)
  <2>1. Typed' /\ OthersKept(s) /\ sys' = sys
    BY <1>1, <1>2 DEF DeferredStart, Typed, OthersKept
  <2>2. Sound(s)'
    BY <1>1, <1>2 DEF DeferredStart, Typed, Sound, Counted, Classed, Parted, Locked, Works, Reported
  <2>. QED BY <2>1, <2>2, OneSupply
<1>3. CASE DeferredLock(s)
  <2>1. Typed' /\ OthersKept(s) /\ sys' = sys
    BY <1>1, <1>3 DEF DeferredLock, Typed, OthersKept
  <2>2. Sound(s)'
    BY <1>1, <1>3 DEF DeferredLock, Typed, Sound, Counted, Classed, Parted, Locked, Works, Reported,
       Registering, Undoing, Unregistering, Working
  <2>. QED BY <2>1, <2>2, OneSupply
<1>4. CASE DeferredGiveUp(s)
  <2>1. Typed' /\ OthersKept(s) /\ sys' = sys
    BY <1>1, <1>4 DEF DeferredGiveUp, Typed, OthersKept
  <2>2. Sound(s)'
    BY <1>1, <1>4 DEF DeferredGiveUp, Typed, Sound, Counted, Classed, Parted, Locked, Works, Reported,
       Removed
  <2>. QED BY <2>1, <2>2, OneSupply
<1>5. CASE DeferredSet(s)
  <2> DEFINE p == [psy[s] EXCEPT !.changed = TRUE, !.awake = TRUE]
  <2>1. psy' = [psy EXCEPT ![s] = p]
    BY <1>1, <1>5 DEF DeferredSet, changed_set, Typed
  <2>2. p \in Psy
    BY <1>1 DEF Psy
  <2>3. Sound(s)'
    BY <1>1, <1>5, <2>1 DEF DeferredSet, changed_set, Typed, Psy, Sound, Counted, Classed, Parted, Locked,
       Works, Reported, Removed, Working, Unregistering, Registering
  <2> HIDE DEF p
  <2>4. Typed' /\ OthersKept(s) /\ sys' = sys
    BY <1>1, <1>5, <2>1, <2>2 DEF DeferredSet, Typed, OthersKept
  <2>. QED BY <2>3, <2>4, OneSupply
<1>6. CASE DeferredSchedule(s)
  <2>1. Typed' /\ OthersKept(s) /\ sys' = sys
    BY <1>1, <1>6 DEF DeferredSchedule, schedule_work, Typed, OthersKept
  <2>2. Sound(s)'
    BY <1>1, <1>6 DEF DeferredSchedule, schedule_work, Typed, Sound, Counted, Classed, Parted, Locked,
       Works, Reported, Registering, Undoing, Working, Unregistering
  <2>. QED BY <2>1, <2>2, OneSupply
<1>. QED BY <1>2, <1>3, <1>4, <1>5, <1>6
\* power_supply_unregister.
LEMMA RemoveStep ==
  ASSUME Inv, NEW s \in Supplies,
         RemoveBegin(s) \/ Unregister(s) \/ CancelChanged(s) \/ CancelledChanged(s) \/ CancelDeferred(s) \/ DeviceUnregister(s)
  PROVE  Inv'
<1>1. Typed /\ Sound(s) /\ psy[s] \in Psy
  BY DEF Inv, Typed
<1>2. CASE RemoveBegin(s)
  <2>1. Typed' /\ OthersKept(s) /\ sys' = sys
    BY <1>1, <1>2, PhaseFacts DEF RemoveBegin, Typed, OthersKept, Unregistering
  <2>2. Sound(s)'
    BY <1>1, <1>2 DEF RemoveBegin, Typed, Sound, Counted, Classed, Parted, Locked, Works, Reported,
       Registering, Undoing, Working, Unregistering, Removed, One
  <2>. QED BY <2>1, <2>2, OneSupply
<1>3. CASE Unregister(s)
  <2> DEFINE p == [psy[s] EXCEPT !.use_cnt = @ - 1, !.removing = TRUE]
  <2>1. psy' = [psy EXCEPT ![s] = p]
    BY <1>1, <1>3 DEF Unregister, Typed
  <2>2. p \in Psy
    BY <1>1, PsyUpdates
  <2>3. Sound(s)'
    BY <1>1, <1>3, <2>1 DEF Unregister, Typed, Psy, Sound, Counted, Classed, Parted, Locked, Works,
       Reported, Registering, Undoing, Working, Unregistering, Removed, One
  <2> HIDE DEF p
  <2>4. Typed' /\ OthersKept(s) /\ sys' = sys
    <3>1. /\ drv' = [drv EXCEPT ![s] = "cancel"]
        /\ UNCHANGED <<parent, caller, queued, work, deferred, holders, walkers, val, told, sys>>
      BY <1>3 DEF Unregister
    <3>. QED BY <1>1, <2>1, <2>2, <3>1, PhaseFacts DEF Typed, OthersKept, Unregistering
  <2>. QED BY <2>3, <2>4, OneSupply
<1>4. CASE CancelChanged(s)
  <2>1. Typed' /\ OthersKept(s) /\ sys' = sys
    BY <1>1, <1>4, PhaseFacts DEF CancelChanged, Typed, OthersKept, Unregistering
  <2>2. Sound(s)'
    BY <1>1, <1>4 DEF CancelChanged, Typed, Sound, Counted, Classed, Parted, Locked, Works, Reported,
       Registering, Undoing, Working, Unregistering, Removed, One
  <2>. QED BY <2>1, <2>2, OneSupply
<1>5. CASE CancelledChanged(s)
  <2>1. Typed' /\ OthersKept(s) /\ sys' = sys
    BY <1>1, <1>5, PhaseFacts DEF CancelledChanged, CancelChangedEnd, Typed, OthersKept,
       Unregistering
  <2>2. Sound(s)'
    BY <1>1, <1>5 DEF CancelledChanged, CancelChangedEnd, Typed, Sound, Counted, Classed, Parted, Locked,
       Works, Reported, Registering, Undoing, Working, Unregistering, Removed, One
  <2>. QED BY <2>1, <2>2, OneSupply
<1>6. CASE CancelDeferred(s)
  <2>1. Typed' /\ OthersKept(s) /\ sys' = sys
    BY <1>1, <1>6, PhaseFacts DEF CancelDeferred, Typed, OthersKept, Unregistering
  <2>2. Sound(s)'
    BY <1>1, <1>6 DEF CancelDeferred, Typed, Sound, Counted, Classed, Parted, Locked, Works, Reported,
       Registering, Undoing, Working, Unregistering, Removed, One
  <2>. QED BY <2>1, <2>2, OneSupply
<1>7. CASE DeviceUnregister(s)
  <2> DEFINE p == put_device([psy[s] EXCEPT !.in_class = FALSE, !.awake = FALSE, !.parts = {}], 2)
  <2>1. psy' = [psy EXCEPT ![s] = p]
    BY <1>1, <1>7 DEF DeviceUnregister, Typed
  <2>2. p \in Psy
    BY <1>1, PsyUpdates
  <2>3. Sound(s)'
    BY <1>1, <1>7, <2>1 DEF DeviceUnregister, Typed, Psy, Sound, Counted, Classed, Parted, Locked, Works,
       Reported, Registering, Undoing, Working, Unregistering, Removed, One, put_device
  <2> HIDE DEF p
  <2>4. Typed' /\ OthersKept(s) /\ sys' = sys
    BY <1>1, <1>7, <2>1, <2>2, PhaseFacts DEF DeviceUnregister, Typed, OthersKept, Unregistering
  <2>. QED BY <2>3, <2>4, OneSupply
<1>. QED BY <1>2, <1>3, <1>4, <1>5, <1>6, <1>7

\* Users and walks over the class.
LEMMA UserStep ==
  ASSUME Inv, NEW s \in Supplies,
         GetByName(s) \/ Put(s) \/ AmISupplied(s) \/ AskSupplier(s)
  PROVE  Inv'
<1>1. Typed /\ Sound(s) /\ psy[s] \in Psy
  BY DEF Inv, Typed
<1>2. CASE GetByName(s)
  <2> DEFINE p == get_ref(psy[s])
  <2>1. psy' = [psy EXCEPT ![s] = p]
    BY <1>1, <1>2 DEF GetByName, Typed
  <2>2. p \in Psy
    BY <1>1, PsyUpdates
  <2>5. /\ psy'[s].use_cnt = psy[s].use_cnt + 1 /\ psy'[s].refs = psy[s].refs + 1
        /\ psy'[s].freed = psy[s].freed /\ psy'[s].in_class = psy[s].in_class
        /\ psy'[s].parts = psy[s].parts /\ psy'[s].removing = psy[s].removing
        /\ psy'[s].changed = psy[s].changed /\ psy'[s].awake = psy[s].awake /\ holders'[s] = holders[s] + 1
    <3>1. psy'[s] = p
      BY <1>1, <2>1 DEF Typed
    <3>2. holders'[s] = holders[s] + 1
      BY <1>1, <1>2 DEF GetByName, Typed
    <3>. QED BY <1>1, <3>1, <3>2 DEF Psy, get_ref
  <2>6. /\ psy[s].refs \in Int /\ psy[s].use_cnt \in Int /\ holders[s] \in Nat /\ walkers[s] \in Nat
        /\ psy[s].in_class /\ walkers' = walkers /\ drv' = drv
    BY <1>1, <1>2 DEF GetByName, Typed, Psy
  <2>7. Counted(s)'
    BY <1>1, <2>5, <2>6 DEF Sound, Counted, One
  <2>8. Classed(s)'
    BY <1>1, <1>2, <2>5, <2>6 DEF GetByName, Sound, Classed
  <2>9. Parted(s)' /\ Locked(s)' /\ Works(s)' /\ Reported(s)'
    BY <1>1, <1>2, <2>5, <2>6 DEF GetByName, Sound, Parted, Locked, Works, Reported
  <2>3. Sound(s)'
    BY <2>7, <2>8, <2>9 DEF Sound
  <2> HIDE DEF p
  <2>4. Typed' /\ OthersKept(s) /\ sys' = sys
    BY <1>1, <1>2, <2>1, <2>2, PhaseFacts DEF GetByName, Typed, OthersKept, Unregistering
  <2>. QED BY <2>3, <2>4, OneSupply
<1>3. CASE Put(s)
  <2> DEFINE p == put_device([psy[s] EXCEPT !.use_cnt = @ - 1], 1)
  <2>1. psy' = [psy EXCEPT ![s] = p]
    BY <1>1, <1>3 DEF Put, Typed
  <2>2. p \in Psy
    BY <1>1, PsyUpdates
  <2>3. /\ psy'[s].use_cnt = psy[s].use_cnt - 1 /\ psy'[s].refs = psy[s].refs - 1
        /\ (psy'[s].freed => psy[s].refs = 1) /\ psy'[s].in_class = psy[s].in_class
        /\ psy'[s].parts = psy[s].parts /\ psy'[s].removing = psy[s].removing
        /\ psy'[s].changed = psy[s].changed /\ psy'[s].awake = psy[s].awake /\ holders'[s] = holders[s] - 1
    <3>1. psy'[s] = p
      BY <1>1, <2>1 DEF Typed
    <3>2. holders'[s] = holders[s] - 1
      BY <1>1, <1>3 DEF Put, Typed
    <3>. QED BY <1>1, <3>1, <3>2, PutFields
  <2>4. psy[s].refs \in Int /\ psy[s].use_cnt \in Int /\ holders[s] \in Nat /\ holders[s] > 0
        /\ walkers[s] \in Nat /\ walkers' = walkers /\ drv' = drv
    BY <1>1, <1>3 DEF Put, Typed, Psy
  <2>5. Counted(s)'
    BY <1>1, <2>3, <2>4 DEF Sound, Counted, One
  <2>6. Classed(s)' /\ Parted(s)' /\ Locked(s)' /\ Works(s)' /\ Reported(s)'
    BY <1>1, <1>3, <2>3, <2>4 DEF Put, Sound, Classed, Parted, Locked, Works, Reported
  <2> HIDE DEF p
  <2>7. Typed' /\ OthersKept(s) /\ sys' = sys
    BY <1>1, <1>3, <2>1, <2>2, PhaseFacts DEF Put, Typed, OthersKept, Unregistering
  <2>. QED BY <2>5, <2>6, <2>7, OneSupply DEF Sound
<1>4. CASE AmISupplied(s)
  <2> DEFINE p == [psy[s] EXCEPT !.refs = @ + 1]
  <2>1. psy' = [psy EXCEPT ![s] = p] /\ walkers' = [walkers EXCEPT ![s] = walkers[s] + 1]
    BY <1>1, <1>4 DEF AmISupplied, Typed
  <2>2. p \in Psy
    BY <1>1, PsyUpdates
  <2>5. /\ psy'[s].use_cnt = psy[s].use_cnt /\ psy'[s].refs = psy[s].refs + 1
        /\ psy'[s].freed = psy[s].freed /\ psy'[s].in_class = psy[s].in_class
        /\ psy'[s].parts = psy[s].parts /\ psy'[s].removing = psy[s].removing
        /\ psy'[s].changed = psy[s].changed /\ psy'[s].awake = psy[s].awake /\ walkers'[s] = walkers[s] + 1
    <3>1. psy'[s] = p
      BY <1>1, <2>1 DEF Typed
    <3>2. walkers'[s] = walkers[s] + 1
      BY <1>1, <1>4 DEF AmISupplied, Typed
    <3>. QED BY <1>1, <3>1, <3>2 DEF Psy
  <2>6. /\ psy[s].refs \in Int /\ psy[s].use_cnt \in Int /\ holders[s] \in Nat /\ walkers[s] \in Nat
        /\ psy[s].in_class /\ holders' = holders /\ drv' = drv
    BY <1>1, <1>4 DEF AmISupplied, Typed, Psy
  <2>7. Counted(s)'
    BY <1>1, <2>5, <2>6 DEF Sound, Counted, One
  <2>8. Classed(s)'
    BY <1>1, <1>4, <2>5, <2>6 DEF AmISupplied, Sound, Classed
  <2>9. Parted(s)' /\ Locked(s)' /\ Works(s)' /\ Reported(s)'
    BY <1>1, <1>4, <2>5, <2>6 DEF AmISupplied, Sound, Parted, Locked, Works, Reported
  <2>3. Sound(s)'
    BY <2>7, <2>8, <2>9 DEF Sound
  <2> HIDE DEF p
  <2>4. Typed' /\ OthersKept(s) /\ sys' = sys
    BY <1>1, <1>4, <2>1, <2>2 DEF AmISupplied, Typed, OthersKept
  <2>. QED BY <2>3, <2>4, OneSupply
<1>5. CASE AskSupplier(s)
  <2> DEFINE p == put_device(psy[s], 1)
  <2>1. psy' = [psy EXCEPT ![s] = p] /\ walkers' = [walkers EXCEPT ![s] = walkers[s] - 1]
    BY <1>1, <1>5 DEF AskSupplier, Typed
  <2>2. p \in Psy
    BY <1>1, PsyUpdates
  <2>3. /\ psy'[s].use_cnt = psy[s].use_cnt /\ psy'[s].refs = psy[s].refs - 1
        /\ (psy'[s].freed => psy[s].refs = 1) /\ psy'[s].in_class = psy[s].in_class
        /\ psy'[s].parts = psy[s].parts /\ psy'[s].removing = psy[s].removing
        /\ psy'[s].changed = psy[s].changed /\ psy'[s].awake = psy[s].awake /\ walkers'[s] = walkers[s] - 1
    BY <1>1, <2>1 DEF put_device, Typed, Psy
  <2>4. psy[s].refs \in Int /\ psy[s].use_cnt \in Int /\ walkers[s] \in Nat /\ walkers[s] > 0
        /\ holders[s] \in Nat /\ holders' = holders /\ drv' = drv
    BY <1>1, <1>5 DEF AskSupplier, Typed, Psy
  <2>5. Counted(s)'
    BY <1>1, <2>3, <2>4 DEF Sound, Counted, One
  <2>6. Classed(s)' /\ Parted(s)' /\ Locked(s)' /\ Works(s)' /\ Reported(s)'
    BY <1>1, <1>5, <2>3, <2>4 DEF AskSupplier, Sound, Classed, Parted, Locked, Works, Reported
  <2> HIDE DEF p
  <2>8. walkers[s] - 1 \in Nat
    BY <2>4
  <2>7. Typed' /\ OthersKept(s) /\ sys' = sys
    BY <1>1, <1>5, <2>1, <2>2, <2>8 DEF AskSupplier, Typed, OthersKept
  <2>. QED BY <2>5, <2>6, <2>7, OneSupply DEF Sound
<1>. QED BY <1>2, <1>3, <1>4, <1>5

\* __power_supply_register, but for its stages.
LEMMA ProbeStep ==
  ASSUME Inv, NEW s \in Supplies,
         ProbeBegin(s) \/ CheckSupplies(s) \/ Registered(s) \/ ProbeEnd(s)
  PROVE  Inv'
<1>1. Typed /\ Sound(s) /\ psy[s] \in Psy
  BY DEF Inv, Typed
<1>2. CASE ProbeBegin(s)
  <2>1. Typed' /\ OthersKept(s) /\ sys' = sys
    BY <1>1, <1>2, PhaseFacts DEF ProbeBegin, Typed, OthersKept, Unregistering
  <2>2. Sound(s)'
    BY <1>1, <1>2 DEF ProbeBegin, Typed, Sound, Counted, Classed, Parted, Locked, Works, Reported,
       Registering, Undoing, Working, Unregistering, Removed, One
  <2>. QED BY <2>1, <2>2, OneSupply
<1>3. CASE CheckSupplies(s)
  <2> DEFINE p == [NoPsy EXCEPT !.refs = 1]
  <2>1. CASE \A t \in Requires[s] : psy[t].in_class
    <3>1. psy' = [psy EXCEPT ![s] = p] /\ drv' = [drv EXCEPT ![s] = "add"]
      BY <1>3, <2>1 DEF CheckSupplies, Stages
    <3>2. p \in Psy
      BY FirstPsy
    <3>3. Sound(s)'
      BY <1>1, <1>3, <2>1, <3>1 DEF CheckSupplies, NoPsy, Typed, Sound, Counted, Classed, Parted, Locked,
         Works, Reported, Registering, Undoing, Working, Unregistering, Removed, One
    <3> HIDE DEF p
    <3>4. Typed' /\ OthersKept(s) /\ sys' = sys
      BY <1>1, <1>3, <2>1, <3>1, <3>2, StageFacts DEF CheckSupplies, Typed, OthersKept, Phases
    <3>. QED BY <3>3, <3>4, OneSupply
  <2>2. CASE ~\A t \in Requires[s] : psy[t].in_class
    <3>1. Typed' /\ OthersKept(s) /\ sys' = sys
      BY <1>1, <1>3, <2>2 DEF CheckSupplies, Typed, OthersKept, Phases
    <3>2. Sound(s)'
      BY <1>1, <1>3, <2>2 DEF CheckSupplies, Typed, Sound, Counted, Classed, Parted, Locked, Works,
         Reported, Registering, Undoing, Working, Unregistering, Removed, One
    <3>. QED BY <3>1, <3>2, OneSupply
  <2>. QED BY <2>1, <2>2
<1>4. CASE Registered(s)
  <2> DEFINE p == [psy[s] EXCEPT !.use_cnt = @ + 1, !.initialized = TRUE]
  <2>1. psy' = [psy EXCEPT ![s] = p]
    BY <1>1, <1>4 DEF Registered, Typed
  <2>2. p \in Psy
    BY <1>1, PsyUpdates
  <2>3. /\ psy'[s].use_cnt = psy[s].use_cnt + 1 /\ psy'[s].refs = psy[s].refs
        /\ psy'[s].in_class = psy[s].in_class /\ psy'[s].freed = psy[s].freed /\ psy'[s].parts = psy[s].parts
        /\ psy'[s].removing = psy[s].removing /\ psy'[s].changed = psy[s].changed
        /\ psy'[s].awake = psy[s].awake /\ drv'[s] = "finishing" /\ deferred'[s] = "queued"
    BY <1>1, <1>4, <2>1 DEF Registered, Typed, Psy
  <2>4. psy[s].refs \in Int /\ psy[s].use_cnt \in Int /\ holders[s] \in Nat /\ drv[s] = "registered"
    BY <1>1, <1>4 DEF Registered, Typed, Psy
  <2>5. Counted(s)'
    BY <1>1, <1>4, <2>3, <2>4 DEF Registered, Sound, Counted, One, Registering, Undoing, Working,
       Unregistering
  <2>6. Classed(s)' /\ Parted(s)' /\ Locked(s)'
    BY <1>1, <1>4, <2>3, <2>4
       DEF Registered, Sound, Classed, Parted, Locked, Works, Registering, Undoing, Working, Unregistering
  <2>7. Works(s)'
    BY <1>1, <1>4, <2>3, <2>4 DEF Registered, Sound, Works, Working, Unregistering, Removed
  <2>8. Reported(s)'
    BY <1>1, <1>4, <2>3, <2>4 DEF Registered, Sound, Reported, Registering, Removed
  <2> HIDE DEF p
  <2>9. Typed' /\ OthersKept(s) /\ sys' = sys
    <3>1. /\ drv' = [drv EXCEPT ![s] = "finishing"] /\ deferred' = [deferred EXCEPT ![s] = "queued"]
        /\ UNCHANGED <<parent, caller, queued, work, holders, walkers, val, told, sys>>
      BY <1>4 DEF Registered
    <3>. QED BY <1>1, <2>1, <2>2, <3>1, PhaseFacts DEF Typed, OthersKept, Unregistering
  <2>. QED BY <2>5, <2>6, <2>7, <2>8, <2>9, OneSupply DEF Sound
<1>5. CASE ProbeEnd(s)
  <2>1. Typed' /\ OthersKept(s) /\ sys' = sys
    BY <1>1, <1>5, PhaseFacts DEF ProbeEnd, Typed, OthersKept, Unregistering
  <2>2. Sound(s)'
    BY <1>1, <1>5 DEF ProbeEnd, Typed, Sound, Counted, Classed, Parted, Locked, Works, Reported,
       Registering, Undoing, Working, Unregistering, Removed, One
  <2>. QED BY <2>1, <2>2, OneSupply
<1>. QED BY <1>2, <1>3, <1>4, <1>5

\* A stage that is done leads to the next, or to the end of them.
LEMMA NextStage ==
  ASSUME NEW s, drv[s] \in StageNames,
         NEW d, d = (IF StageOf(s) = Last THEN "registered" ELSE Stages[StageOf(s) + 1])
  PROVE  /\ drv[s] = "add" => d = "wakeup"
         /\ drv[s] = "wakeup" => d = "thermal"
         /\ drv[s] = "thermal" => d = "cooler"
         /\ drv[s] = "cooler" => d = "triggers"
         /\ drv[s] = "triggers" => d = "registered"
<1>1. PICK i \in 1 .. Last : Stages[i] = drv[s]
  BY DEF StageNames
<1>2. StageOf(s) \in 1 .. 5 /\ Stages[StageOf(s)] = drv[s]
  BY <1>1, StageFacts DEF StageOf
<1>3. /\ Stages[1] = "add" /\ Stages[2] = "wakeup" /\ Stages[3] = "thermal"
      /\ Stages[4] = "cooler" /\ Stages[5] = "triggers"
  BY DEF Stages
<1>4. StageOf(s) \in {1, 2, 3, 4, 5}
  BY <1>2
<1> DEFINE n == StageOf(s)
<1>5. n \in {1, 2, 3, 4, 5} /\ Stages[n] = drv[s] /\ d = (IF n = 5 THEN "registered" ELSE Stages[n + 1])
  BY <1>2, <1>4, StageFacts
<1> HIDE DEF n
<1>6. CASE n = 1
  BY <1>3, <1>5, <1>6
<1>7. CASE n = 2
  BY <1>3, <1>5, <1>7
<1>8. CASE n = 3
  BY <1>3, <1>5, <1>8
<1>9. CASE n = 4
  BY <1>3, <1>5, <1>9
<1>10. CASE n = 5
  BY <1>3, <1>5, <1>10
<1>. QED BY <1>5, <1>6, <1>7, <1>8, <1>9, <1>10

\* A stage of the registration, and a label of its failure.
LEMMA StageStep ==
  ASSUME Inv, NEW s \in Supplies,
         Stage(s) \/ StageFails(s) \/ UndoCooler(s) \/ UndoThermal(s) \/ UndoDel(s) \/ UndoPut(s)
  PROVE  Inv'
<1>1. Typed /\ Sound(s) /\ psy[s] \in Psy /\ sys \in Systems
  BY DEF Inv, Typed
<1>2. CASE Stage(s)
  <2> DEFINE p == IF drv[s] = "add" THEN [psy[s] EXCEPT !.in_class = TRUE, !.refs = @ + 1]
                  ELSE [psy[s] EXCEPT !.parts = @ \cup {drv[s]}]
             d == IF StageOf(s) = Last THEN "registered" ELSE Stages[StageOf(s) + 1]
  <2>1. psy' = [psy EXCEPT ![s] = p] /\ drv' = [drv EXCEPT ![s] = d]
    BY <1>1, <1>2 DEF Stage, Typed
  <2>7. drv[s] \in StageNames
    BY <1>2 DEF Stage, StageNames
  <2>8. /\ drv[s] = "add" => d = "wakeup"
        /\ drv[s] = "wakeup" => d = "thermal"
        /\ drv[s] = "thermal" => d = "cooler"
        /\ drv[s] = "cooler" => d = "triggers"
        /\ drv[s] = "triggers" => d = "registered"
    BY <2>7, NextStage
  <2>2. drv[s] \in StageNames /\ d \in Registering \ {"add"}
    BY <2>7, <2>8, StageFacts DEF Registering
  <2>3. p \in Psy
    BY <1>1, <2>2, StageFacts, PsyUpdates
  <2> HIDE DEF d
  <2>4. Sound(s)'
    BY <1>1, <1>2, <2>1, <2>2, <2>8, StageFacts DEF Stage, Typed, Psy, Sound, Counted, Classed, Parted, Locked,
       Works, Reported, Registering, Undoing, Working, Unregistering, Removed, One
  <2> HIDE DEF p
  <2>5. d \in Phases \cup {"registered"}
    BY <2>2, StageFacts DEF Registering, Phases
  <2>6. Typed' /\ OthersKept(s) /\ sys' = sys
    BY <1>1, <1>2, <2>1, <2>3, <2>5 DEF Stage, Typed, OthersKept
  <2>. QED BY <2>4, <2>6, OneSupply
<1>3. CASE StageFails(s)
  <2>1. drv[s] \in StageNames
    BY <1>1, <1>3, SupplyAssumption DEF StageFails
  <2> DEFINE d == FailLabel(drv[s])
  <2>2. /\ drv[s] \in {"add", "wakeup"} => d = "undo_put"
        /\ drv[s] = "thermal" => d = "undo_del"
        /\ drv[s] = "cooler" => d = "undo_thermal"
        /\ drv[s] = "triggers" => d = "undo_cooler"
    BY <2>1, StageFacts DEF FailLabel
  <2>3. d \in Undoing
    BY <2>1, <2>2, StageFacts DEF Undoing
  <2>4. drv' = [drv EXCEPT ![s] = d] /\ drv[s] \in sys.failures
    BY <1>3 DEF StageFails
  <2> HIDE DEF d
  <2>5. Sound(s)'
    BY <1>1, <1>3, <2>1, <2>2, <2>3, <2>4, StageFacts DEF StageFails, Typed, Sound,
       Counted, Classed, Parted, Locked, Works, Reported, Registering, Undoing, Working, Unregistering, Removed, One
  <2>6. Typed' /\ OthersKept(s) /\ sys' = sys
    BY <1>1, <1>3, <2>3, <2>4, PhaseFacts DEF StageFails, Typed, OthersKept
  <2>. QED BY <2>5, <2>6, OneSupply
<1>4. CASE UndoCooler(s)
  <2> DEFINE p == [psy[s] EXCEPT !.parts = @ \ {"cooler"}]
  <2>1. psy' = [psy EXCEPT ![s] = p] /\ drv' = [drv EXCEPT ![s] = "undo_thermal"]
    BY <1>1, <1>4 DEF UndoCooler, Typed
  <2>2. p \in Psy
    BY <1>1, StageFacts, PsyUpdates
  <2>3. Sound(s)'
    BY <1>1, <1>4, <2>1 DEF UndoCooler, Typed, Psy, Sound, Counted, Classed, Parted, Locked, Works,
       Reported, Registering, Undoing, Working, Unregistering, Removed, One
  <2> HIDE DEF p
  <2>4. Typed' /\ OthersKept(s) /\ sys' = sys
    <3>1. "undo_thermal" \in Phases \cup {"registered"}
      BY PhaseFacts DEF Undoing
    <3>2. UNCHANGED <<parent, caller, queued, work, deferred, holders, walkers, val, told, sys>>
      BY <1>4 DEF UndoCooler
    <3>. QED BY <1>1, <2>1, <2>2, <3>1, <3>2 DEF Typed, OthersKept
  <2>. QED BY <2>3, <2>4, OneSupply
<1>5. CASE UndoThermal(s)
  <2> DEFINE p == [psy[s] EXCEPT !.parts = @ \ {"thermal"}]
  <2>1. psy' = [psy EXCEPT ![s] = p] /\ drv' = [drv EXCEPT ![s] = "undo_del"]
    BY <1>1, <1>5 DEF UndoThermal, Typed
  <2>2. p \in Psy
    BY <1>1, StageFacts, PsyUpdates
  <2>3. Sound(s)'
    BY <1>1, <1>5, <2>1 DEF UndoThermal, Typed, Psy, Sound, Counted, Classed, Parted, Locked, Works,
       Reported, Registering, Undoing, Working, Unregistering, Removed, One
  <2> HIDE DEF p
  <2>4. Typed' /\ OthersKept(s) /\ sys' = sys
    <3>1. "undo_del" \in Phases \cup {"registered"}
      BY PhaseFacts DEF Undoing
    <3>2. UNCHANGED <<parent, caller, queued, work, deferred, holders, walkers, val, told, sys>>
      BY <1>5 DEF UndoThermal
    <3>. QED BY <1>1, <2>1, <2>2, <3>1, <3>2 DEF Typed, OthersKept
  <2>. QED BY <2>3, <2>4, OneSupply
<1>6. CASE UndoDel(s)
  <2> DEFINE p == [psy[s] EXCEPT !.in_class = FALSE, !.refs = @ - 1, !.parts = @ \ {"wakeup"}]
  <2>1. psy' = [psy EXCEPT ![s] = p] /\ drv' = [drv EXCEPT ![s] = "undo_put"]
    BY <1>1, <1>6 DEF UndoDel, Typed
  <2>2. p \in Psy
    BY <1>1, StageFacts, PsyUpdates
  <2>5. /\ psy'[s].use_cnt = psy[s].use_cnt /\ psy'[s].refs = psy[s].refs - 1
        /\ psy'[s].freed = psy[s].freed /\ ~psy'[s].in_class
        /\ psy'[s].parts = psy[s].parts \ {"wakeup"} /\ psy'[s].removing = psy[s].removing
        /\ psy'[s].changed = psy[s].changed /\ psy'[s].awake = psy[s].awake
    BY <1>1, <2>1 DEF Typed, Psy
  <2>6. /\ psy[s].refs \in Int /\ psy[s].use_cnt \in Int /\ holders[s] \in Nat /\ walkers[s] \in Nat
        /\ psy[s].in_class /\ drv[s] = "undo_del" /\ drv'[s] = "undo_put"
        /\ UNCHANGED <<parent, caller, queued, work, deferred, holders, walkers, val, told, sys>>
    BY <1>1, <1>6, <2>1 DEF UndoDel, Typed, Psy, Sound, Classed, Undoing
  <2>10. psy[s].freed => psy[s].refs = 0
    BY <1>1 DEF Sound, Counted
  <2>7. Counted(s)'
    BY <1>1, <2>5, <2>6, <2>10 DEF Sound, Counted, One, Registering, Undoing, Working, Unregistering
  <2>8. Classed(s)' /\ Parted(s)'
    BY <1>1, <2>5, <2>6 DEF Sound, Classed, Parted, Registering, Undoing, Working, Unregistering
  <2>9. Locked(s)' /\ Works(s)' /\ Reported(s)'
    BY <1>1, <2>5, <2>6 DEF Sound, Locked, Works, Reported, Registering, Undoing, Working,
       Unregistering, Removed
  <2>3. Sound(s)'
    BY <2>7, <2>8, <2>9 DEF Sound
  <2> HIDE DEF p
  <2>4. Typed' /\ OthersKept(s) /\ sys' = sys
    <3>1. "undo_put" \in Phases \cup {"registered"}
      BY PhaseFacts DEF Undoing
    <3>2. UNCHANGED <<parent, caller, queued, work, deferred, holders, walkers, val, told, sys>>
      BY <1>6 DEF UndoDel
    <3>. QED BY <1>1, <2>1, <2>2, <3>1, <3>2 DEF Typed, OthersKept
  <2>. QED BY <2>3, <2>4, OneSupply
<1>7. CASE UndoPut(s)
  <2> DEFINE p == put_device(psy[s], 1)
  <2>1. psy' = [psy EXCEPT ![s] = p] /\ drv' = [drv EXCEPT ![s] = "failed"]
    BY <1>1, <1>7 DEF UndoPut, Typed
  <2>2. p \in Psy
    BY <1>1, StageFacts, PsyUpdates
  <2>3. Sound(s)'
    BY <1>1, <1>7, <2>1 DEF UndoPut, Typed, Psy, Sound, Counted, Classed, Parted, Locked, Works,
       Reported, Registering, Undoing, Working, Unregistering, Removed, One, put_device
  <2> HIDE DEF p
  <2>4. Typed' /\ OthersKept(s) /\ sys' = sys
    BY <1>1, <1>7, <2>1, <2>2 DEF UndoPut, Typed, OthersKept, Phases, Undoing
  <2>. QED BY <2>3, <2>4, OneSupply
<1>. QED BY <1>2, <1>3, <1>4, <1>5, <1>6, <1>7
-----------------------------------------------------------------------------
(* The invariant holds.                                                    *)

LEMMA NextInv ==
  ASSUME Inv, [Next]_vars
  PROVE  Inv'
<1>1. ASSUME UNCHANGED <<psy, drv, parent, caller, queued, work, deferred, holders, walkers, val, told, sys>>
      PROVE  Inv'
  BY <1>1 DEF Inv, Typed, Sound, Counted, Classed, Parted, Locked, Works, Reported
<1>2. CASE UNCHANGED vars
  BY <1>1, <1>2 DEF vars
<1>3. ASSUME NEW s \in Supplies, UserRead(s) PROVE Inv'
  BY <1>1, <1>3 DEF UserRead
<1>4. ASSUME NEW s \in Supplies, ChangedWork(s) PROVE Inv'
  BY <1>4, WorkStep DEF ChangedWork
<1>5. ASSUME NEW s \in Supplies, DeferredWork(s) PROVE Inv'
  BY <1>5, DeferredStep DEF DeferredWork
<1>6. ASSUME NEW s \in Supplies, Driver(s) PROVE Inv'
  BY <1>6, ChangedStep, ProbeStep, StageStep, RemoveStep DEF Driver
<1>7. ASSUME NEW s \in Supplies,
             \/ DriverEvent(s) \/ ProbeBegin(s) \/ RemoveBegin(s) \/ StageFails(s) \/ GetByName(s) \/ Put(s)
             \/ AmISupplied(s) \/ AskSupplier(s)
      PROVE  Inv'
  BY <1>7, ChangedStep, ProbeStep, RemoveStep, StageStep, UserStep
<1>. QED BY <1>2, <1>3, <1>4, <1>5, <1>6, <1>7 DEF Next

(* No change is lost and the wakeup source is held exactly as long as one  *)
(* is pending or being told, however power_supply_changed, its work and    *)
(* the deferred work interleave, and although any stage may fail.          *)
THEOREM EventsCorrect == Spec => []EventsHeld
<1>1. Init => Inv
  BY InitInv
<1>2. Inv /\ [Next]_vars => Inv'
  BY NextInv
<1>3. Inv => EventsHeld
  <2>1. SUFFICES ASSUME Inv PROVE EventsHeld
    OBVIOUS
  <2>2. WakeExact
    BY <2>1 DEF Inv, Sound, Works, Reported, Classed, Removed, WakeExact
  <2>3. NoLostEvent
    BY <2>1 DEF Inv, Sound, Reported, NoLostEvent
  <2>. QED BY <2>2, <2>3 DEF EventsHeld
<1>. QED BY <1>1, <1>2, <1>3, PTL DEF Spec
-----------------------------------------------------------------------------
(* What is left of a supply.                                               *)

\* The work of a supply runs while it is registered only.
LEMMA GetsStep ==
  ASSUME Inv, "work" \notin gets, [Next]_vars
  PROVE  "work" \notin gets'
<1>1. \A s \in Supplies : Sound(s)
  BY DEF Inv
<1>2. ASSUME NEW s \in Supplies, Got(s) PROVE "work" \notin gets'
  BY <1>2 DEF Got
<1>3. ASSUME NEW s \in Supplies, work[s] # "idle", GotByWork(s) PROVE "work" \notin gets'
  <2>1. drv[s] \in {"finishing", "bound"} \cup Unregistering
    BY <1>1, <1>3 DEF Sound, Works, Working
  <2>. QED BY <1>3, <2>1 DEF GotByWork
<1>4. ASSUME NEW s \in Supplies, UserRead(s) \/ AskSupplier(s) PROVE "work" \notin gets'
  BY <1>2, <1>4 DEF UserRead, AskSupplier
<1>5. ASSUME NEW s \in Supplies, WorkSupplies(s) \/ WorkEvent(s) PROVE "work" \notin gets'
  BY <1>3, <1>5 DEF WorkSupplies, WorkEvent
<1>6. ASSUME NEW s \in Supplies,
             \/ DriverEvent(s) \/ ProbeBegin(s) \/ RemoveBegin(s) \/ StageFails(s) \/ GetByName(s) \/ Put(s)
             \/ AmISupplied(s) \/ Driver(s) \/ DeferredWork(s) \/ WorkBegin(s) \/ WorkEnd(s)
      PROVE  gets' = gets
  BY <1>6 DEF DriverEvent, ProbeBegin, RemoveBegin, StageFails, GetByName, Put, AmISupplied, Driver,
     DeferredWork, WorkBegin, WorkEnd, ChangedSet, ChangedSchedule, CheckSupplies, Stage, Registered,
     ProbeEnd, Unregister, CancelChanged, CancelledChanged, CancelDeferred, DeviceUnregister,
     UndoCooler, UndoThermal, UndoDel, UndoPut,
     DeferredStart, DeferredLock, DeferredGiveUp, DeferredSet, DeferredSchedule
<1>7. CASE UNCHANGED vars
  BY <1>7 DEF vars
<1>8. ASSUME NEW s \in Supplies, ChangedWork(s) PROVE "work" \notin gets'
  BY <1>5, <1>6, <1>8 DEF ChangedWork
<1>. QED BY <1>4, <1>6, <1>7, <1>8 DEF Next

(* After power_supply_unregister and after a registration that failed at   *)
(* any stage, with users and walks over the class coming at any step of    *)
(* either: no work of the supply is queued, runs or asks its driver; what  *)
(* the stages made is undone, and the supply is off the class unless it    *)
(* was the wakeup source that failed; power_supply_get_property refuses    *)
(* once the users have put their references, and the structure is freed    *)
(* only when the class, every user and every walk have let go of it.       *)
THEOREM TeardownCorrect == Spec => []TeardownSound
<1> DEFINE TInv == Inv /\ "work" \notin gets
<1>1. Init => TInv
  BY InitInv DEF Init
<1>2. TInv /\ [Next]_vars => TInv'
  BY NextInv, GetsStep
<1>3. TInv => TeardownSound
  <2>1. SUFFICES ASSUME TInv PROVE TeardownSound
    OBVIOUS
  <2>2. Typed /\ \A s \in Supplies : Sound(s)
    BY <2>1 DEF Inv
  <2>3. ASSUME NEW s \in Supplies PROVE psy[s].refs >= 0 /\ psy[s].use_cnt >= 0
    <3>1. holders[s] \in Nat /\ walkers[s] \in Nat
      BY <2>2 DEF Typed
    <3>. QED BY <2>2, <3>1 DEF Sound, Counted, One
  <2>4. TypeOK
    BY <2>2, <2>3 DEF Typed, TypeOK, Sound, Reported
  <2>5. NoWorkAfterUnregister
    BY <2>2 DEF Sound, Works, Working, Unregistering, NoWorkAfterUnregister, Typed
  <2>6. FreedUnused
    <3>1. SUFFICES ASSUME NEW s \in Supplies, psy[s].freed
                   PROVE  holders[s] = 0 /\ walkers[s] = 0 /\ ~psy[s].in_class
      BY DEF FreedUnused
    <3>2. holders[s] \in Nat /\ walkers[s] \in Nat /\ psy[s].refs = 0
      BY <2>2, <3>1 DEF Typed, Sound, Counted
    <3>. QED BY <2>2, <3>2 DEF Sound, Counted, One
  <2>7. FailedLeavesNothing
    BY <2>2 DEF Sound, Classed, Parted, FailedLeavesNothing
  <2>8. GetWhileThere
    <3>1. ASSUME NEW s \in Supplies, drv[s] \in {"failed", "gone"}, holders[s] = 0 PROVE ~Readable(s)
      BY <2>2, <3>1 DEF Readable, Sound, Counted, One
    <3>. QED BY <2>1, <3>1 DEF GetWhileThere
  <2>. QED BY <2>4, <2>5, <2>6, <2>7, <2>8 DEF TeardownSound
<1>. QED BY <1>1, <1>2, <1>3, PTL DEF Spec
=============================================================================
