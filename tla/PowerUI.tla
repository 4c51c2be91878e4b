------------------------------ MODULE PowerUI ------------------------------
(***************************************************************************)
(* PowerUI: when the warning of a low battery is shown and dismissed. The  *)
(* main thread handles the broadcasts; what is to be shown is decided by a *)
(* task on a background thread, from a snapshot of the fields and the      *)
(* snapshot before it. The executor (ThreadUtils, outside the repository)  *)
(* runs tasks in order, one at a time; WarningsUI, EnhancedEstimates and   *)
(* the power saver are outside too.                                        *)
(***************************************************************************)
EXTENDS Integers, Sequences, SequencesExt

CONSTANTS
  Crit, Warn,  (* config_critical- and config_lowBatteryWarningLevel       *)
  Bump,        (* config_lowBatteryCloseWarningBump                        *)
  SevereHours, LowHours,  (* thresholds of EnhancedEstimates               *)
  Devices      (* isHybridNotificationEnabled; what is reported of the     *)
               (* battery; hours left, or NO_ESTIMATE_AVAILABLE; values    *)
               (* that getLowWarningEnabled returns; bounds on the         *)
               (* broadcasts of the battery and of the power saver         *)

PowerUIAssumption ==
  /\ {Crit, Warn, Bump, SevereHours, LowHours} \subseteq Nat
  /\ \A d \in Devices : /\ d.hybrid \in BOOLEAN /\ d.enabled \subseteq BOOLEAN /\ {d.battery, d.saver} \subseteq Nat
                       /\ d.reports \subseteq [level : 0 .. 100, known : BOOLEAN, plugged : BOOLEAN, invalid : BOOLEAN]
                       /\ d.estimates \subseteq Int

VARIABLES
  dev,    (* of Devices                                                    *)
  bat,    (* mBatteryLevel, mBatteryStatus, mPlugType, mInvalidCharger     *)
  snap,   (* mLastBatteryStateSnapshot, mCurrentBatteryStateSnapshot       *)
  marked, (* mLow- and mSevereWarningShownThisChargeCycle                  *)
  warn,   (* what WarningsUI was last told                                 *)
  queue,  (* tasks not started                                             *)
  task,   (* the one that runs                                             *)
  saver,  (* the mode of the power saver                                   *)
  used,   (* broadcasts so far                                             *)
  ghost   (* bucket considered last, a fall that calls for a warning,      *)
          (* shows in this cycle, whether a report came before the task of *)
          (* another was done                                              *)

vars == <<dev, bat, snap, marked, warn, queue, task, saver, used, ghost>>

NULL == [kind |-> "null"]
NO_ESTIMATE_AVAILABLE == -1
CHARGE_CYCLE_PERCENT_RESET == 45
SIX_HOURS == 6
Hours(e) == e # NO_ESTIMATE_AVAILABLE

Init ==
  /\ dev \in Devices
  /\ bat = [level |-> 100, known |-> FALSE, plugged |-> FALSE, invalid |-> FALSE]
  /\ snap = [last |-> NULL, cur |-> NULL]
  /\ marked = [low |-> FALSE, severe |-> FALSE]
  /\ warn = [low |-> FALSE, invalid |-> FALSE]
  /\ queue = <<>> /\ task = NULL /\ saver \in BOOLEAN
  /\ used = [battery |-> 0, saver |-> 0]
  /\ ghost = [from |-> 1, due |-> FALSE, shows |-> 0, crossed |-> FALSE]

\* updateBatteryWarningLevels
ReminderLevel == IF Warn < Crit THEN Crit ELSE Warn
\* findBatteryLevelBucket
Bucket(level) ==
  CASE level >= ReminderLevel + Bump -> 1
    [] level < ReminderLevel + Bump /\ level > ReminderLevel -> 0
    [] level <= ReminderLevel /\ level > Crit -> -1
    [] OTHER -> -2

(***************************************************************************)
(* The main thread                                                         *)
(***************************************************************************)
\* A report takes the place of the one whose task has not started.
Posted(t) == Append(SelectSeq(queue, LAMBDA q : q.kind # "warning"), t)

\* The bucket has fallen below zero and nothing speaks against a warning; a
\* report that finds the invalid charger shown is not looked at.
Calls(r, before) ==
  ~ r.plugged /\ r.known /\ ~ saver /\ Bucket(r.level) < 0 /\ (ghost.from >= 0 \/ before)

onBatteryChanged(r) ==
  LET returns == (r.invalid /\ ~ bat.invalid) \/ (r.invalid = bat.invalid /\ warn.invalid)
      new == [kind |-> "warning", plugged |-> r.plugged, bucket |-> Bucket(r.level), at |-> "snapshot"]
  IN /\ used.battery < dev.battery /\ used' = [used EXCEPT !.battery = @ + 1]
     /\ bat' = r
     /\ snap' = [snap EXCEPT !.last = snap.cur]
     /\ warn' = [warn EXCEPT !.invalid = IF r.invalid # bat.invalid THEN r.invalid ELSE @]
     /\ queue' = IF returns THEN queue ELSE Posted(new)
     /\ ghost' = [ghost EXCEPT
                    !.crossed = @ \/ \E t \in {task} \cup Range(queue) : t.kind = "warning",
                    !.from = IF returns THEN @ ELSE Bucket(r.level),
                    !.due = IF returns THEN @ ELSE Calls(r, @) /\ (snap.cur # NULL \/ @)]
     /\ UNCHANGED <<dev, marked, task, saver>>

\* The mode changes; ACTION_POWER_SAVE_MODE_CHANGED posts a task.
onPowerSaveModeChanged ==
  /\ used.saver < dev.saver /\ used' = [used EXCEPT !.saver = @ + 1]
  /\ saver' = ~ saver
  /\ queue' = Append(queue, [kind |-> "saver"])
  /\ ghost' = [ghost EXCEPT !.due = FALSE]
  /\ UNCHANGED <<dev, bat, snap, marked, warn, task>>

(***************************************************************************)
(* The background thread                                                   *)
(***************************************************************************)
StartTask ==
  /\ task = NULL /\ queue # <<>>
  /\ task' = Head(queue) /\ queue' = Tail(queue)
  /\ UNCHANGED <<dev, bat, snap, marked, warn, saver, used, ghost>>

DismissInSaver ==
  /\ task # NULL /\ task.kind = "saver"
  /\ warn' = [warn EXCEPT !.low = @ /\ ~ saver]
  /\ task' = NULL
  /\ UNCHANGED <<dev, bat, snap, marked, queue, saver, used, ghost>>

\* refreshEstimateIfNeeded
Refreshed ==
  IF ~ dev.hybrid THEN {NO_ESTIMATE_AVAILABLE}
  ELSE IF snap.last = NULL \/ snap.last.est = NO_ESTIMATE_AVAILABLE \/ bat.level # snap.last.level THEN dev.estimates
  ELSE {snap.last.est}

\* The first part of maybeShowBatteryWarningV2: level and status are those of
\* now, plugged and bucket those of the report.
maybeShowBatteryWarningV2 ==
  /\ task # NULL /\ task.kind = "warning" /\ task.at = "snapshot"
  /\ \E e \in Refreshed, enabled \in dev.enabled :
       snap' = [snap EXCEPT !.cur = [level |-> bat.level, saver |-> saver, plugged |-> task.plugged,
                                     bucket |-> task.bucket, known |-> bat.known, est |-> e,
                                     lowWarningEnabled |-> enabled]]
  /\ task' = [task EXCEPT !.at = "decide"]
  /\ UNCHANGED <<dev, bat, marked, warn, queue, saver, used, ghost>>

shouldShowLowBatteryWarning(cur, last) ==
  /\ ~ cur.plugged /\ ~ cur.saver /\ cur.known
  /\ cur.bucket < last.bucket \/ last.plugged
  /\ cur.bucket < 0
shouldDismissLowBatteryWarning(cur, last) ==
  cur.saver \/ cur.plugged \/ (cur.bucket > last.bucket /\ cur.bucket > 0)

CycleReset(cur) ==
  cur.level >= CHARGE_CYCLE_PERCENT_RESET /\ (cur.est > SIX_HOURS \/ ~ Hours(cur.est))

\* Mutant: a severe warning is taken for a repeated one.
shouldShowHybridWarning_Once(cur, m) ==
  /\ ~ cur.plugged /\ cur.known /\ cur.lowWarningEnabled /\ ~ m.low /\ ~ cur.saver
  /\ (Hours(cur.est) /\ cur.est < LowHours) \/ cur.level <= ReminderLevel

shouldShowHybridWarning(cur, m) ==
  /\ ~ cur.plugged /\ cur.known
  /\ \/ /\ cur.lowWarningEnabled /\ ~ m.low /\ ~ cur.saver
        /\ (Hours(cur.est) /\ cur.est < LowHours) \/ cur.level <= ReminderLevel
     \/ /\ ~ m.severe
        /\ (Hours(cur.est) /\ cur.est < SevereHours) \/ cur.level <= Crit
\* What is marked when a warning is shown.
Mark(cur, m) ==
  [low |-> TRUE,
   severe |-> m.severe \/ (Hours(cur.est) /\ cur.est <= SevereHours) \/ cur.level <= Crit]
shouldDismissHybridWarning(cur) == cur.plugged \/ cur.est > LowHours

\* maybeShowBatteryWarning and maybeShowHybridWarning, on the snapshots the
\* fields hold now. Without a last snapshot both fail, and the task with them.
maybeShowWarning ==
  LET cur == snap.cur
      last == snap.last
      m == IF dev.hybrid /\ CycleReset(cur) THEN [low |-> FALSE, severe |-> FALSE] ELSE marked
      shows == IF dev.hybrid THEN shouldShowHybridWarning(cur, m) ELSE shouldShowLowBatteryWarning(cur, last)
      dismisses == IF dev.hybrid THEN shouldDismissHybridWarning(cur) ELSE shouldDismissLowBatteryWarning(cur, last)
  IN /\ task # NULL /\ task.kind = "warning" /\ task.at = "decide"
     /\ task' = NULL
     /\ IF last = NULL THEN marked' = m /\ UNCHANGED warn
        ELSE /\ marked' = IF dev.hybrid /\ shows THEN Mark(cur, m) ELSE m
             /\ warn' = [warn EXCEPT !.low = shows \/ (@ /\ ~ dismisses)]
     /\ ghost' = [ghost EXCEPT !.due = @ /\ ~ cur.saver,
                               !.shows = (IF dev.hybrid /\ CycleReset(cur) THEN 0 ELSE @)
                                         + (IF last # NULL /\ dev.hybrid /\ shows THEN 1 ELSE 0)]
     /\ UNCHANGED <<dev, bat, snap, queue, saver, used>>

Next ==
  \/ \E r \in dev.reports : onBatteryChanged(r)
  \/ onPowerSaveModeChanged
  \/ StartTask \/ DismissInSaver \/ maybeShowBatteryWarningV2 \/ maybeShowWarning

Spec == Init /\ [][Next]_vars

(***************************************************************************)
(* Properties                                                              *)
(***************************************************************************)
Rest == task = NULL /\ queue = <<>> /\ ~ warn.invalid

\* "Called when mBucket falls from >= 0 to < 0": on battery and without the
\* power saver, the warning is there as soon as the tasks are done, once
\* PowerUI has a first snapshot.
WarnedAfterFall == Rest /\ ~ dev.hybrid /\ ghost.due => warn.low

\* "Once the level has risen or power is plugged in, the dialog is closed", of
\* the level with buckets alone.
ClosedWhenCharged ==
  Rest /\ snap.last # NULL /\ ~ dev.hybrid /\ Bucket(bat.level) = 1 => ~ warn.low

\* The same of the power, with buckets and with estimates, however reports and
\* tasks overlap.
ClosedWhenPlugged == Rest /\ used.battery > 0 /\ snap.last # NULL /\ bat.plugged => ~ warn.low

\* In a charge cycle the low and the severe warning come at most once each.
OncePerCycle == ghost.shows <= 2

\* On battery at the critical level the severe warning has been shown in this
\* cycle, be the low one shown before or not and the power saver on or off; at
\* the low level the low one, when it is enabled.
WarnedInCycle ==
  Rest /\ dev.hybrid /\ snap.last # NULL /\ ~ bat.plugged /\ bat.known =>
    /\ bat.level <= Crit => marked.severe
    /\ bat.level <= ReminderLevel /\ snap.cur.lowWarningEnabled /\ ~ snap.cur.saver => marked.low

\* Warnings come at most once a cycle with estimates, the severe one always,
\* and go when the device is plugged, whatever overlaps; with buckets they also
\* follow the level, unless a report came before the task of another was
\* done (README, Findings, says what happens then).
WarningsRight ==
  /\ ClosedWhenPlugged /\ OncePerCycle /\ WarnedInCycle
  /\ ghost.crossed \/ (WarnedAfterFall /\ ClosedWhenCharged)
=============================================================================
