--------------------------- MODULE BatteryService ---------------------------
(***************************************************************************)
(* BatteryService.java: what the health HAL reports becomes broadcasts,    *)
(* the low battery mode, the light and the request to shut down. Reports,  *)
(* settings, the switch of the invalid charger and the shell commands that *)
(* come through dumpsys are processed under mLock (BatteryShell.tla has    *)
(* the ones that come through "cmd battery" and run without it).           *)
(* Broadcasts are posted to a handler and delivered in order; the batch of *)
(* level changes is posted with a delay.                                   *)
(*                                                                         *)
(* A report has the fields that are compared and broadcast: [plug, status, *)
(* level, lowVolt, hot], lowVolt being less than 3450 mV and plug the      *)
(* charger that mPlugType names. Logs, metrics and the statistics service  *)
(* are left out.                                                           *)
(***************************************************************************)
EXTENDS Integers, Sequences, SequencesExt

CONSTANTS
  Uses,           (* what happens to a device: the reports of the HAL, the *)
                  (* values of LOW_POWER_MODE_TRIGGER_LEVEL (0 for unset), *)
                  (* shell commands [key, value], whether it has a switch  *)
                  (* for an invalid charger, and the bound on the posts    *)
                  (* that wait before a new one is made                    *)
  DefWarnLevel, CriticalLevel, Bump, ShutdownLevel,
  MaxQueue        (* MAX_BATTERY_LEVELS_QUEUE_SIZE                         *)

NONE == "none"
Plugs == {NONE, "ac", "usb", "wireless"}
Statuses == {"UNKNOWN", "CHARGING", "DISCHARGING", "NOT_CHARGING", "FULL"}
Report == [plug : Plugs, status : Statuses, level : Nat, lowVolt : BOOLEAN, hot : BOOLEAN]
\* unplug, set ac 1, set status, set level, set temp and set invalid.
Command == [key : {"plug"}, value : {NONE, "ac"}] \cup [key : {"status"}, value : Statuses]
             \cup [key : {"level"}, value : Nat] \cup [key : {"hot", "invalid"}, value : BOOLEAN]

ASSUME ServiceAssumption ==
  /\ {DefWarnLevel, CriticalLevel, Bump, ShutdownLevel, MaxQueue} \subseteq Nat
  /\ MaxQueue > 0 /\ Bump > 0 /\ CriticalLevel <= DefWarnLevel
  /\ Uses \subseteq [reports : SUBSET Report, settings : SUBSET Nat, commands : SUBSET Command,
                     switch : BOOLEAN, posts : Nat]

VARIABLES
  use,     (* of Uses, chosen at the start                                 *)
  bat,     (* the fields of BatteryService and the posts of mHandler       *)
  setting, (* the value of the setting                                     *)
  ready,   (* ActivityManager isSystemReady                                *)
  heard,   (* what receivers know                                          *)
  hw,      (* ghost: the last report and the state of the switch           *)
  forced   (* ghost: what shell commands have set since the last reset     *)

vars == <<use, bat, setting, ready, heard, hw, forced>>

(***************************************************************************)
(* processValuesLocked                                                     *)
(***************************************************************************)
isPoweredLocked(h) == h.status = "UNKNOWN" \/ h.plug # NONE
NoPower(h) == h.lowVolt \/ (h.level < ShutdownLevel /\ ~ isPoweredLocked(h))
Shutdowns(h) ==
  LET request(c) == IF c THEN <<[to |-> "shutdown"]>> ELSE <<>>
  IN request(NoPower(h)) \o request(h.hot)

\* What ACTION_BATTERY_CHANGED carries, and what mLast... are compared with.
Shown(b) == [info |-> b.info, invalid |-> b.invalid]
Changed(b) == Shown(b) # b.snap

closeLevel(b) == b.warn + Bump
LowMode(b, force) ==
  IF ~ b.levelLow
  THEN b.info.plug = NONE /\ b.info.status # "UNKNOWN" /\ b.info.level <= b.warn
  ELSE ~ (\/ b.info.plug # NONE
          \/ b.info.level >= closeLevel(b)
          \/ force /\ b.info.level >= b.warn)

shouldSendBatteryLowLocked(b) ==
  /\ b.info.plug = NONE /\ b.info.status # "UNKNOWN" /\ b.info.level <= b.warn
  /\ b.snap.info.plug # NONE \/ b.snap.info.level > b.warn

updateLightsLocked(h, warn) ==
  IF h.level < warn THEN IF h.status = "CHARGING" THEN "red" ELSE "flash"
  ELSE IF h.status \in {"CHARGING", "FULL"}
       THEN IF h.status = "FULL" \/ h.level >= 90 THEN "green" ELSE "orange"
       ELSE "off"

Broadcasts(b) ==
  LET now == b.info.plug
      before == b.snap.info.plug
      low == shouldSendBatteryLowLocked(b)
      okay == ~ low /\ b.sentLow /\ b.info.level >= closeLevel(b)
      sent == low \/ (b.sentLow /\ ~ okay)
  IN [sentLow |-> sent,
      posts |-> (IF now # NONE /\ before = NONE THEN <<[to |-> "power", on |-> TRUE]>>
                 ELSE IF now = NONE /\ before # NONE THEN <<[to |-> "power", on |-> FALSE]>> ELSE <<>>)
                \o (IF low THEN <<[to |-> "low", on |-> TRUE]>> ELSE IF okay THEN <<[to |-> "low", on |-> FALSE]>> ELSE <<>>)
                \o <<[to |-> "changed", what |-> Shown(b)]>>]

\* Mutant: the new event is dropped instead of the oldest.
Enqueued_DropNew(queue, level) == IF Len(queue) = MaxQueue THEN queue ELSE Append(queue, level)

Enqueued(queue, level) ==
  LET longer == Append(queue, level) IN IF Len(longer) > MaxQueue THEN Tail(longer) ELSE longer

\* The parts of processValuesLocked in their order: the requests to shut down,
\* the low mode and the broadcasts, sendBatteryLevelChangedIntentLocked with
\* what it saw of the queue, and the light and the snapshot.
Shut(b) == [b EXCEPT !.posts = @ \o Shutdowns(b.info)]
Announce(b, force) ==
  LET out == Broadcasts(b)
  IN [b EXCEPT !.levelLow = LowMode(b, force), !.sentLow = out.sentLow, !.posts = @ \o out.posts]
Moved(b) == b.snap.info.level # b.info.level \/ b.snap.info.plug # b.info.plug
Enqueue(b, queueWasEmpty) ==
  [b EXCEPT !.queue = Enqueued(@, b.info.level), !.sends = IF queueWasEmpty THEN @ + 1 ELSE @]
Snapshot(b) == [b EXCEPT !.led = updateLightsLocked(b.info, b.warn), !.snap = Shown(b)]

processValuesLocked(b, force) ==
  LET shut == Shut(b)
      told == Announce(shut, force)
  IN IF ~ force /\ ~ Changed(b) THEN shut
     ELSE Snapshot(IF Moved(told) THEN Enqueue(told, told.queue = <<>>) ELSE told)

\* The service is published when the first report has come.
FirstInfo == [plug |-> "first", status |-> "ZERO", level |-> 0, lowVolt |-> FALSE, hot |-> FALSE]
FirstSnap == [info |-> FirstInfo, invalid |-> FALSE]
Init ==
  /\ use \in Uses /\ hw \in [info : use.reports, invalid : {FALSE}]
  /\ bat = processValuesLocked(
             [info |-> hw.info, invalid |-> FALSE, last |-> FirstInfo, stopped |-> FALSE,
              snap |-> FirstSnap, levelLow |-> FALSE, sentLow |-> FALSE, warn |-> DefWarnLevel,
              led |-> "off", posts |-> <<>>, queue |-> <<>>, sends |-> 0], FALSE)
  /\ setting = 0 /\ ready = FALSE
  /\ heard = [power |-> TRUE, low |-> FALSE, sticky |-> FirstSnap, levels |-> <<>>, shutdown |-> FALSE]
  /\ forced = {}

Room == Len(bat.posts) <= use.posts

(***************************************************************************)
(* Under the lock                                                          *)
(***************************************************************************)
\* Mutant: a report is not kept while updates are stopped.
Update_Forget(h) ==
  /\ Room /\ h # hw.info
  /\ hw' = [hw EXCEPT !.info = h]
  /\ bat' = IF bat.stopped THEN bat ELSE processValuesLocked([bat EXCEPT !.info = h], FALSE)
  /\ UNCHANGED <<use, setting, ready, heard, forced>>

Update(h) ==
  /\ Room /\ h # hw.info
  /\ hw' = [hw EXCEPT !.info = h]
  /\ bat' = IF bat.stopped THEN [bat EXCEPT !.last = h]
            ELSE processValuesLocked([bat EXCEPT !.info = h], FALSE)
  /\ UNCHANGED <<use, setting, ready, heard, forced>>

\* The switch of the invalid charger is noted, and shown with the next report.
OnUEvent(v) ==
  /\ use.switch /\ v # hw.invalid
  /\ hw' = [hw EXCEPT !.invalid = v]
  /\ bat' = [bat EXCEPT !.invalid = v]
  /\ UNCHANGED <<use, setting, ready, heard, forced>>

warnLevel(v) ==
  LET w == IF v = 0 THEN DefWarnLevel ELSE v IN IF w < CriticalLevel THEN CriticalLevel ELSE w
updateBatteryWarningLevelLocked(b, v) == processValuesLocked([b EXCEPT !.warn = warnLevel(v)], TRUE)
SettingChanged(v) ==
  /\ Room /\ v # setting /\ ready
  /\ setting' = v
  /\ bat' = updateBatteryWarningLevelLocked(bat, v)
  /\ UNCHANGED <<use, ready, heard, hw, forced>>

\* Mutant: the levels are not evaluated at boot.
Boot_NoCheck ==
  /\ ~ ready
  /\ ready' = TRUE
  /\ UNCHANGED <<use, bat, setting, heard, hw, forced>>

\* onBootPhase(PHASE_ACTIVITY_MANAGER_READY)
Boot ==
  /\ ~ ready
  /\ ready' = TRUE
  /\ bat' = updateBatteryWarningLevelLocked(bat, setting)
  /\ UNCHANGED <<use, setting, heard, hw, forced>>

\* onShellCommand, called by dumpInternal: unplug and set; a set whose key or
\* value is refused, which has made the copy; and reset.
Copied(b) == IF b.stopped THEN b ELSE [b EXCEPT !.last = b.info]
Write(b, c) ==
  IF c.key = "invalid" THEN [b EXCEPT !.invalid = c.value]
  ELSE [b EXCEPT !.info = [@ EXCEPT ![c.key] = c.value]]
Override(c) == {d \in forced : d.key # c.key} \cup {c}
ShellSet(c, force) ==
  /\ Room
  /\ bat' = processValuesLocked([Write(Copied(bat), c) EXCEPT !.stopped = TRUE], force)
  /\ forced' = Override(c)
  /\ UNCHANGED <<use, setting, ready, heard, hw>>
ShellRefused ==
  /\ use.commands # {}
  /\ bat' = Copied(bat)
  /\ UNCHANGED <<use, setting, ready, heard, hw, forced>>
ShellReset(force) ==
  /\ Room /\ bat.stopped
  /\ bat' = processValuesLocked([bat EXCEPT !.stopped = FALSE, !.info = bat.last], force)
  /\ forced' = {}
  /\ UNCHANGED <<use, setting, ready, heard, hw>>

(***************************************************************************)
(* The handler                                                             *)
(***************************************************************************)
Deliver ==
  /\ bat.posts # <<>>
  /\ bat' = [bat EXCEPT !.posts = Tail(@)]
  /\ LET m == Head(bat.posts) IN
     heard' = CASE m.to = "shutdown" -> [heard EXCEPT !.shutdown = @ \/ ready]
                [] m.to = "power" -> [heard EXCEPT !.power = m.on]
                [] m.to = "low" -> [heard EXCEPT !.low = m.on]
                [] OTHER -> [heard EXCEPT !.sticky = m.what]
  /\ UNCHANGED <<use, setting, ready, hw, forced>>

SendEnqueuedBatteryLevelChangedEvents ==
  /\ bat.sends > 0
  /\ bat' = [bat EXCEPT !.queue = <<>>, !.sends = @ - 1]
  /\ heard' = [heard EXCEPT !.levels = bat.queue]
  /\ UNCHANGED <<use, setting, ready, hw, forced>>

Next ==
  \/ \E h \in use.reports : Update(h)
  \/ \E v \in BOOLEAN : OnUEvent(v)
  \/ \E v \in use.settings : SettingChanged(v)
  \/ Boot \/ Deliver \/ SendEnqueuedBatteryLevelChangedEvents
  \/ \E c \in use.commands, force \in BOOLEAN : ShellSet(c, force)
  \/ ShellRefused
  \/ \E force \in BOOLEAN : ShellReset(force)

Spec == Init /\ [][Next]_vars

(***************************************************************************)
(* Properties                                                              *)
(***************************************************************************)
Settled == bat.posts = <<>>

\* Every variable has its type.
TypeOK ==
  /\ bat.warn \in Nat /\ bat.queue \in Seq(Nat) /\ Len(bat.queue) <= MaxQueue
  /\ {bat.levelLow, bat.sentLow, bat.stopped, bat.invalid, ready} \subseteq BOOLEAN
  /\ bat.led \in {"red", "flash", "green", "orange", "off"} /\ bat.sends \in {0, 1}

\* When the posts are through, receivers and the light show the values that
\* the service has, whether they came from a report or a shell command. The
\* switch of the invalid charger is shown with the next change of another
\* value only.
ShownCurrent ==
  Settled => /\ heard.sticky.info = bat.info
             /\ ~ use.switch => heard.sticky.invalid = bat.invalid
             /\ heard.power = (bat.info.plug # NONE)
             /\ heard.low = bat.sentLow
             /\ bat.led = updateLightsLocked(bat.info, bat.warn)

\* Low battery mode is on while the battery is unplugged below the warning
\* level, and off when it is plugged or "above the warning level" and the
\* margin; README, Findings, says what a forced update does at the level itself.
LowModeRight ==
  bat.info.status # "UNKNOWN" =>
    /\ bat.info.plug = NONE /\ bat.info.level < bat.warn => bat.levelLow
    /\ bat.info.plug # NONE \/ bat.info.level >= closeLevel(bat) => ~ bat.levelLow

\* ACTION_BATTERY_LOW: it was sent, and not taken back, whenever the battery is
\* unplugged at or below the warning level, by whatever way it came there. A
\* change of the setting alone sends none, and a status that was unknown when
\* the level fell is not made up for (README, Findings).
Steady(u) == /\ u.settings = {}
             /\ \A h \in u.reports : h.status # "UNKNOWN"
             /\ \A c \in u.commands : c.key # "status"
LowTold ==
  Settled /\ Steady(use) /\ bat.info.plug = NONE /\ bat.info.level <= bat.warn => heard.low

\* The newest level is in the batch that will be sent, and a batch that is not
\* empty has its send posted.
LevelsKept ==
  /\ bat.queue # <<>> => bat.sends > 0 /\ Last(bat.queue) = bat.info.level
  /\ bat.queue = <<>> => heard.levels # <<>> /\ Last(heard.levels) = bat.info.level

\* "reset: Unfreeze battery state, returning to current hardware values": the
\* last report is in use, or kept for the reset.
HardwareKept == hw.info = IF bat.stopped THEN bat.last ELSE bat.info

\* "Force a battery property value, freezing battery state." A switch for the
\* invalid charger takes that value back (README, Findings).
ForcedHolds ==
  \A c \in forced : IF c.key = "invalid" THEN use.switch \/ bat.invalid = c.value
                     ELSE bat.info[c.key] = c.value

\* A battery without power is never left running: when the system is ready and
\* the posts are through a shutdown was requested, also when the battery was
\* found empty before it was ready, where the request is dropped.
ShutdownAsked == Settled /\ ready /\ NoPower(bat.info) => heard.shutdown

\* "reset: Unfreeze battery state, returning to current hardware values", of
\* the invalid charger, which "set" forces like the other values: not so
\* (README, Findings).
InvalidReset == ~ bat.stopped => bat.invalid = hw.invalid

\* What receivers, the light and the batch of levels show is what the service
\* has, after any sequence of reports, settings and commands under the lock.
ShownRight == TypeOK /\ ShownCurrent /\ LevelsKept

\* A low battery is told and left, an empty one shuts the device down.
LowHandled == LowModeRight /\ LowTold /\ ShutdownAsked

\* The shell's values hold until the reset, which finds those of the hardware.
ShellKept == HardwareKept /\ ForcedHolds
=============================================================================
