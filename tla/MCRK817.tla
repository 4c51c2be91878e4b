------------------------------ MODULE MCRK817 ------------------------------
(* Instances of RK817Battery and RK817Charger for TLC: the device tree of     *)
(* rk817.dts, readings of a few kinds of load, rest and charge, and boards    *)
(* with different ports. What the gauge reads of the charger is open, so that *)
(* a behaviour is one of the two, chosen at the start.                        *)
EXTENDS RK817Battery

VARIABLES part, chg, queue, dcWork, chgRun, mid, depth, cable, adapter, detected, chgPm, plugs
charger == <<chg, queue, dcWork, chgRun, mid, depth, cable, adapter, detected, chgPm, plugs>>

Table == <<3400, 3447, 3482, 3525, 3564, 3600, 3633, 3662, 3695, 3732, 3770, 3814,
           3861, 3900, 3936, 3978, 4020, 4054, 4073, 4099, 4182, 4195>>

R(c, v, s, u) == [cur |-> c, vol |-> v, chg |-> s, usb |-> u, relax |-> 0, ocv |-> v]
Load == R(-900, 3700, "OFF", FALSE)
HeavyLoad == R(-2500, 3460, "OFF", FALSE)
Dying == R(-1200, 3360, "OFF", FALSE)
Weak == R(-300, 3380, "CC_OR_CV", TRUE)
Charge == R(1500, 4000, "CC_OR_CV", TRUE)
Done == R(50, 4190, "FINISH", TRUE)
Rested == [R(-5, 3890, "OFF", FALSE) EXCEPT !.relax = 3895]

Brim == R(300, 4190, "OFF", TRUE)

Mah(c) == CapacityToAdc(c)
Boot(soc, cap) == [socReg |-> soc, kept |-> soc, capReg |-> cap, q |-> Mah(cap), fccReg |-> 5880]
NewBattery == [con |-> TRUE, q |-> Mah(3000)]
Boots == {NewBattery, Boot(50400, 2000), Boot(99200, 5870)}

\* Load, charge and finish with readings that change within one work; a nearly
\* empty battery with and without a weak charger; short and long sleeps with a
\* rested battery; and the RK809, whose finish is decided by the voltage.
MCDays ==
  {[rk809 |-> FALSE, boots |-> Boots, readings |-> {Load, Dying, Charge, Done},
    glitch |-> {Load, Charge}, charges |-> {-Mah(60), Mah(40)}, delays |-> {5, 70},
    sleeps |-> {}, off |-> {0}, steps |-> 4],
   [rk809 |-> FALSE, boots |-> {Boot(4300, 700), Boot(30900, 900)},
    readings |-> {Load, HeavyLoad, Dying, Weak},
    glitch |-> {}, charges |-> {-Mah(15), -Mah(60)}, delays |-> {5, 20},
    sleeps |-> {}, off |-> {0}, steps |-> 6],
   [rk809 |-> FALSE, boots |-> {Boot(700, 3000), Boot(60000, 3500)},
    readings |-> {Load, Rested, Charge},
    glitch |-> {}, charges |-> {-Mah(60)}, delays |-> {5},
    sleeps |-> {300, 40000}, off |-> {0}, steps |-> 9],
   [rk809 |-> TRUE, boots |-> Boots \ {Boot(50400, 2000)}, readings |-> {Load, HeavyLoad, Charge, Brim},
    glitch |-> {}, charges |-> {-Mah(60), Mah(40)}, delays |-> {5, 300},
    sleeps |-> {}, off |-> {0, 45}, steps |-> 5]}

\* A type-C port with data cables and devices, one after the other, and with
\* one of them that bounces; a wall charger; a bc port with every cable; a DC
\* adapter beside a port of either kind and beside a device, which it feeds or
\* not; and every charge current and voltage of a device tree in steps of 50 mA
\* and 25 mV.
Kinds == {"sdp", "dcp", "cdp", "host"}
Board == [extcon |-> TRUE, dc2otg |-> FALSE, cur |-> 1500, vol |-> 4200, cables |-> {},
          boot |-> {"none"}, adapter |-> FALSE, plugs |-> 8, hasty |-> FALSE]
TwoPort(c) == [Board EXCEPT !.cables = {c}, !.adapter = TRUE]
MCBoards ==
  {[Board EXCEPT !.cables = {"sdp", "cdp", "host"}, !.boot = {"none", "sdp", "host"}],
   [Board EXCEPT !.cables = {"dcp"}], [Board EXCEPT !.extcon = FALSE, !.cables = Kinds],
   TwoPort("sdp"), [TwoPort("sdp") EXCEPT !.extcon = FALSE],
   TwoPort("host"), [TwoPort("host") EXCEPT !.dc2otg = TRUE]}
  \cup {[Board EXCEPT !.cables = {c}, !.hasty = TRUE] : c \in Kinds \ {"dcp"}}
  \cup {[Board EXCEPT !.cur = 50 * i, !.vol = 4100 + 25 * v, !.plugs = 0] :
          i \in 10 .. 70, v \in 0 .. 16}

Charger == INSTANCE RK817Charger WITH
  run <- chgRun, pm <- chgPm, Boards <- MCBoards, MaxInput <- 1750
ASSUME Charger!ChargerAssumption

MCInit ==
  /\ part \in {"battery", "charger"}
  /\ Init /\ Charger!Init
  /\ part # "battery" => day = CHOOSE d \in MCDays : TRUE
  /\ part # "charger" => chg.dt = TwoPort("sdp") /\ chg.ilim = 450
MCNext ==
  \/ part = "battery" /\ Next /\ UNCHANGED <<part, charger>>
  \/ part = "charger" /\ Charger!Next /\ UNCHANGED <<part, vars>>
MCSpec == MCInit /\ [][MCNext]_<<part, vars, charger>>

\* RK817Charger: reports, limits, the OTG supply and interrupts are those of what
\* is plugged.
FollowsPlug == part = "charger" => Charger!FollowsPlug
=============================================================================
