---------------------------- MODULE BatteryShell ----------------------------
(***************************************************************************)
(* BatteryService.java with the commands of "cmd battery", which reach     *)
(* onShellCommand on a binder thread without mLock. Two threads run: the   *)
(* one that holds mLock ("lock": a report, the setting, the boot) and the  *)
(* shell's. Each goes through processValuesLocked in steps, between which  *)
(* the other reads and writes the same fields; mPlugType is a field of its *)
(* own here, computed when the processing starts.                          *)
(*                                                                         *)
(* One command runs at a time. The fields of one report are read and       *)
(* written together, as are those of the snapshot.                         *)
(***************************************************************************)
EXTENDS BatteryService

CONSTANT MaxBegun  (* bound on the reports and commands of a behaviour     *)
ShellAssumption == MaxBegun \in Nat

VARIABLES
  mPlugType,
  begun,   (* how many of them there were                                  *)
  run,     (* by thread, where it is: [at, force, queueWasEmpty], and      *)
           (* (ghost) whether it has been alone since it began             *)
  raced    (* ghost: "never"; "now" after two have overlapped, until the   *)
           (* values were broadcast by one alone; "healed" from then       *)

threads == <<mPlugType, begun, run, raced>>

Thread == {"lock", "shell"}
Idle == [at |-> "idle", force |-> FALSE, queueWasEmpty |-> FALSE, alone |-> TRUE]
Free(t) == run[t].at = "idle"
Other(t) == IF t = "lock" THEN "shell" ELSE "lock"
Begins == Room /\ begun < MaxBegun /\ begun' = begun + 1

\* Thread t takes a step to r, its new place. In the middle of what the other
\* does, neither is alone.
Alone(t) == Free(Other(t))
Runs(t, r) ==
  run' = [run EXCEPT ![t] = [r EXCEPT !.alone = (Free(t) \/ @) /\ Alone(t)],
                     ![Other(t)].alone = @ /\ Alone(t)]
Steps(t, r) == Runs(t, r) /\ raced' = IF Alone(t) THEN raced ELSE "now"
Goes(t, at) == Steps(t, [run[t] EXCEPT !.at = at])
Enters(t, force) == Steps(t, [run[t] EXCEPT !.at = "start", !.force = force])

ShellInit ==
  /\ Init
  /\ mPlugType = bat.info.plug
  /\ begun = 0 /\ run = [t \in Thread |-> Idle] /\ raced = "never"

\* The fields as processValuesLocked reads them after its first lines.
Seen(b) == [b EXCEPT !.info = [@ EXCEPT !.plug = mPlugType]]
Back(b) == [b EXCEPT !.info = bat.info]


Start(t) ==
  /\ run[t].at = "start"
  /\ mPlugType' = bat.info.plug
  /\ bat' = Shut(bat)
  /\ IF run[t].force \/ Changed(bat) THEN Goes(t, "announce") ELSE Steps(t, Idle)
  /\ UNCHANGED <<use, setting, ready, heard, hw, forced, begun>>

Announces(t) ==
  /\ run[t].at = "announce"
  /\ bat' = Back(Announce(Seen(bat), run[t].force))
  /\ Goes(t, "look")
  /\ UNCHANGED <<use, setting, ready, heard, hw, forced, mPlugType, begun>>

\* sendBatteryLevelChangedIntentLocked sees whether the queue is empty ...
Look(t) ==
  /\ run[t].at = "look"
  /\ Steps(t, [run[t] EXCEPT !.at = IF Moved(Seen(bat)) THEN "add" ELSE "save",
                            !.queueWasEmpty = bat.queue = <<>>])
  /\ UNCHANGED <<use, bat, setting, ready, heard, hw, forced, mPlugType, begun>>

\* ... and adds its event.
Add(t) ==
  /\ run[t].at = "add"
  /\ bat' = Enqueue(bat, run[t].queueWasEmpty)
  /\ Goes(t, "save")
  /\ UNCHANGED <<use, setting, ready, heard, hw, forced, mPlugType, begun>>

Save(t) ==
  /\ run[t].at = "save"
  /\ bat' = Back(Snapshot(Seen(bat)))
  /\ Runs(t, Idle)
  /\ raced' = CASE ~ Alone(t) -> "now"
                [] raced = "now" /\ run[t].alone -> "healed"
                [] OTHER -> raced
  /\ UNCHANGED <<use, setting, ready, heard, hw, forced, mPlugType, begun>>

(***************************************************************************)
(* The thread that holds mLock                                             *)
(***************************************************************************)
UpdateBegins(h) ==
  /\ Free("lock") /\ Begins /\ h # hw.info
  /\ hw' = [hw EXCEPT !.info = h]
  /\ IF bat.stopped
     THEN bat' = [bat EXCEPT !.last = h] /\ Goes("lock", "idle")
     ELSE bat' = [bat EXCEPT !.info = h] /\ Enters("lock", FALSE)
  /\ UNCHANGED <<use, setting, ready, heard, forced, mPlugType>>

SettingBegins(v) ==
  /\ Free("lock") /\ Begins /\ v # setting /\ ready
  /\ setting' = v
  /\ bat' = [bat EXCEPT !.warn = warnLevel(v)]
  /\ Enters("lock", TRUE)
  /\ UNCHANGED <<use, ready, heard, hw, forced, mPlugType>>

BootBegins ==
  /\ Free("lock") /\ Begins /\ ~ ready
  /\ ready' = TRUE
  /\ bat' = [bat EXCEPT !.warn = warnLevel(setting)]
  /\ Enters("lock", TRUE)
  /\ UNCHANGED <<use, setting, heard, hw, forced, mPlugType>>

Switched(v) == Free("lock") /\ OnUEvent(v) /\ UNCHANGED threads

\* The handler needs the lock for the batch, and none for a broadcast.
Sent == Free("lock") /\ SendEnqueuedBatteryLevelChangedEvents /\ Goes("lock", "idle")
        /\ UNCHANGED <<mPlugType, begun>>
Delivered == Deliver /\ UNCHANGED threads

(***************************************************************************)
(* The shell's thread                                                      *)
(***************************************************************************)
\* unplug and set make the copy, and a set that is refused ends there.
ShellCopy ==
  /\ Free("shell") /\ Begins /\ use.commands # {}
  /\ bat' = Copied(bat)
  /\ \E at \in {"write", "idle"} : Goes("shell", at)
  /\ UNCHANGED <<use, setting, ready, heard, hw, forced, mPlugType>>
ShellWrite(c) ==
  /\ run["shell"].at = "write"
  /\ bat' = Write(bat, c)
  /\ forced' = Override(c)
  /\ Goes("shell", "stop")
  /\ UNCHANGED <<use, setting, ready, heard, hw, mPlugType, begun>>
ShellStop(force) ==
  /\ run["shell"].at = "stop"
  /\ bat' = [bat EXCEPT !.stopped = TRUE]
  /\ Enters("shell", force)
  /\ UNCHANGED <<use, setting, ready, heard, hw, forced, mPlugType, begun>>

\* reset lets the updates in before it puts the kept values back.
ShellThaw ==
  /\ Free("shell") /\ Begins /\ bat.stopped
  /\ bat' = [bat EXCEPT !.stopped = FALSE]
  /\ forced' = {}
  /\ Goes("shell", "restore")
  /\ UNCHANGED <<use, setting, ready, heard, hw, mPlugType>>
ShellRestore(force) ==
  /\ run["shell"].at = "restore"
  /\ bat' = [bat EXCEPT !.info = bat.last]
  /\ Enters("shell", force)
  /\ UNCHANGED <<use, setting, ready, heard, hw, forced, mPlugType, begun>>

ShellNext ==
  \/ \E t \in Thread : Start(t) \/ Announces(t) \/ Look(t) \/ Add(t) \/ Save(t)
  \/ \E h \in use.reports : UpdateBegins(h)
  \/ \E v \in use.settings : SettingBegins(v)
  \/ \E v \in BOOLEAN : Switched(v)
  \/ BootBegins \/ Sent \/ Delivered
  \/ ShellCopy \/ ShellThaw
  \/ \E c \in use.commands : ShellWrite(c)
  \/ \E force \in BOOLEAN : ShellStop(force) \/ ShellRestore(force)

ShellSpec == ShellInit /\ [][ShellNext]_<<vars, threads>>

(***************************************************************************)
(* Properties, between commands and reports                                *)
(***************************************************************************)
Quiet == \A t \in Thread : Free(t)

\* A battery without power is never left running, whatever a command and a
\* report do to one another's values: both threads ask for what they find
\* before they compare it with what was last broadcast.
ShutdownRaced == Quiet => ShutdownAsked

\* "send now if last event was before throttle interval, otherwise delay": the
\* events that wait are sent.
BatchSent == bat.queue # <<>> => bat.sends > 0

\* "Unfreeze battery state, returning to current hardware values".
ResetFindsHardware == HardwareKept

\* "When these values change this service broadcasts the new values to all".
BroadcastCurrent == Settled => heard.sticky.info = bat.info


\* "The ACTION_BATTERY_LOW broadcast is sent in these situations: ... is not
\* plugged and battery level falls to WARNING boundary", also when a command
\* overlaps a report: not so (README, Findings).
LowBroadcast == Quiet => LowTold
=============================================================================
