--------------------------- MODULE MCPowerSupply ---------------------------
(* An instance of PowerSupply for TLC: a charger that feeds a battery.      *)
EXTENDS PowerSupply
CONSTANTS usb, bat

Feeds == [s \in Supplies |-> IF s = usb THEN {bat} ELSE {}]
Needs == [s \in Supplies |-> IF s = usb THEN {} ELSE {usb}]

\* The charger alone, whose registration may fail and which users hold; one
\* that others ask while it comes and goes, and whose wakeup source may fail;
\* and both, with one change each besides the deferred first report.
MCSystems ==
  {[supplies |-> {usb}, failures |-> {"add", "thermal", "cooler", "triggers"},
    changes |-> 4, holders |-> 2, walks |-> 0],
   [supplies |-> {usb}, failures |-> {"wakeup", "cooler"}, changes |-> 1, holders |-> 1, walks |-> 2],
   [supplies |-> {usb, bat}, failures |-> {"thermal"}, changes |-> 2, holders |-> 0, walks |-> 0]}
=============================================================================
