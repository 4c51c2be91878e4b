---------------------------- MODULE MCFramework ----------------------------
(* Instances of BatteryService, BatteryShell, HealthService and PowerUI for   *)
(* TLC. What they pass to one another is open in each (any report, any       *)
(* broadcast), so that a behaviour is one of the four, chosen at the start.   *)
EXTENDS BatteryService

VARIABLES part,
          use2, bat2, setting2, ready2, heard2, hw2, forced2, mPlugType, begun, run, raced,
          started, alive, listed, regs, notes, sent, thread, wrap,
          dev, ui, snap, marked, warn, queue, task, saver, used, ghost

shell == <<use2, bat2, setting2, ready2, heard2, hw2, forced2, mPlugType, begun, run, raced>>
health == <<started, alive, listed, regs, notes, sent, thread, wrap>>
power == <<dev, ui, snap, marked, warn, queue, task, saver, used, ghost>>

Values(plug, level, status) ==
  [plug |-> plug, status |-> status, level |-> level, lowVolt |-> FALSE, hot |-> FALSE]
Drained(levels) == {Values("none", l, "DISCHARGING") : l \in levels}
Plain(levels) == Drained(levels) \cup {Values("ac", l, "CHARGING") : l \in levels}
Use(reports, settings, commands, switch, posts) ==
  [reports |-> reports, settings |-> settings, commands |-> commands, switch |-> switch, posts |-> posts]
Unplug == [key |-> "plug", value |-> NONE]
InvalidCommand == [key |-> "invalid", value |-> TRUE]
MCUses ==
  {Use(Plain({10, 16, 20}) \cup {Values("usb", 100, "FULL")}, {}, {}, FALSE, 3),
   Use(Plain({10, 18, 25}) \cup {Values("none", 16, "UNKNOWN")}, {0, 18}, {}, FALSE, 2),
   Use(Plain({10, 25}), {}, {Unplug, [key |-> "level", value |-> 17], InvalidCommand}, FALSE, 1),
   Use(Plain({10, 25}), {}, {InvalidCommand}, TRUE, 1),
   Use(Plain({3, 50}) \cup {[v EXCEPT !.lowVolt = TRUE] : v \in Drained({50})}
                      \cup {[v EXCEPT !.hot = TRUE] : v \in Drained({50})}, {}, {}, FALSE, 2)}

\* The commands that race: unplug, a level and the invalid charger.
ShellUses ==
  {Use(Drained({3}) \cup {Values("ac", 25, "CHARGING")}, {}, {Unplug}, FALSE, 0),
   Use(Drained({25}), {18}, {[key |-> "level", value |-> 3]}, FALSE, 0),
   Use(Drained({3, 25}), {}, {InvalidCommand}, TRUE, 0)}
Shell == INSTANCE BatteryShell WITH
  use <- use2, bat <- bat2, setting <- setting2, ready <- ready2, heard <- heard2, hw <- hw2,
  forced <- forced2, Uses <- ShellUses, MaxQueue <- 1, MaxBegun <- 3

Health == INSTANCE HealthService WITH
  Declared <- {"default", "backup"}, Refusing <- {2}, Keeping <- {1}, MaxStarts <- 4, MaxSent <- 2

\* A device that warns by buckets, one with estimates (hours left: none known,
\* at the severe threshold, above six), and one whose power saver changes.
Battery(levels) == {[level |-> l, known |-> TRUE, plugged |-> FALSE, invalid |-> FALSE] : l \in levels}
Other(level) ==
  {[level |-> level, known |-> FALSE, plugged |-> FALSE, invalid |-> FALSE],
   [level |-> level, known |-> TRUE, plugged |-> TRUE, invalid |-> FALSE],
   [level |-> level, known |-> TRUE, plugged |-> TRUE, invalid |-> TRUE]}
MCDevices ==
  {[hybrid |-> FALSE, reports |-> Battery({5, 15, 19, 20}) \cup Other(15), estimates |-> {-1},
    enabled |-> {FALSE}, battery |-> 4, saver |-> 2],
   [hybrid |-> TRUE, reports |-> Battery({5, 15, 50}) \cup Other(5), estimates |-> {-1, 1, 7},
    enabled |-> BOOLEAN, battery |-> 4, saver |-> 0],
   [hybrid |-> TRUE, reports |-> Battery({5, 15}) \cup Other(5), estimates |-> {-1},
    enabled |-> BOOLEAN, battery |-> 3, saver |-> 1]}
UI == INSTANCE PowerUI WITH
  bat <- ui, Crit <- 5, Warn <- 15, Bump <- 5, SevereHours <- 1, LowHours <- 3, Devices <- MCDevices
ASSUME Shell!ShellAssumption /\ Health!HealthAssumption /\ UI!PowerUIAssumption

Some(S) == CHOOSE x \in S : TRUE
MCInit ==
  /\ part \in {"battery", "shell", "health", "ui"}
  /\ Init /\ Shell!ShellInit /\ Health!Init /\ UI!Init
  /\ part # "battery" => use = Some(MCUses) /\ hw.info = Some(use.reports)
  /\ part # "shell" => use2 = Some(ShellUses) /\ hw2.info = Some(use2.reports)
  /\ part # "ui" => dev = Some(MCDevices) /\ saver = FALSE
MCNext ==
  \/ part = "battery" /\ Next /\ UNCHANGED <<part, shell, health, power>>
  \/ part = "shell" /\ Shell!ShellNext /\ UNCHANGED <<part, vars, health, power>>
  \/ part = "health" /\ Health!Next /\ UNCHANGED <<part, vars, shell, power>>
  \/ part = "ui" /\ UI!Next /\ UNCHANGED <<part, vars, shell, health>>
MCSpec == MCInit /\ [][MCNext]_<<part, vars, shell, health, power>>

\* BatteryShell: a low battery is told although commands race.
LowBroadcast == part = "shell" => Shell!LowBroadcast
\* HealthService: the HAL that lives is followed.
HalFollowed == part = "health" => Health!HalFollowed
\* PowerUI: warnings come and go with the level.
WarningsRight == part = "ui" => UI!WarningsRight
=============================================================================
