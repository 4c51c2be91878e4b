---------------------------- MODULE RK817Charger ----------------------------
(***************************************************************************)
(* rk817_charger.c: what is plugged in. Cables, a DC adapter and an OTG    *)
(* device come and go; interrupts and notifiers queue works with a delay   *)
(* of 10 ms on two ordered workqueues, usb and dc, which run concurrently  *)
(* and share the fields of struct rk817_charger without a lock. A work     *)
(* that sets the parameters of a charger reads dc_in (or usb_in) first and *)
(* writes the status and the input limit after it.                         *)
(*                                                                         *)
(* External: the PMIC reports an input when a cable with power or the DC   *)
(* adapter is in; the USB phy detects the kind of cable some time later    *)
(* and notifies; the otg regulator switches when told.                     *)
(***************************************************************************)
EXTENDS Integers, Sequences, SequencesExt

CONSTANTS
  Boards,       (* extcon: type-C notifiers, else the bc notifier; dc2otg:  *)
                (* power_dc2otg; cur, vol: max_chrg_current, -_voltage;     *)
                (* what may be plugged, at the start and later, how often   *)
                (* that changes, and (hasty) whether it may before the last *)
                (* change is worked off                                     *)
  MaxInput      (* max_input_current                                       *)

Powered == {"sdp", "dcp", "cdp"}
Cables == Powered \cup {"host"}

ChargerAssumption ==
  /\ MaxInput \in 80 .. 3000
  /\ Boards \subseteq [extcon : BOOLEAN, dc2otg : BOOLEAN, cur : Nat, vol : Nat,
                        cables : SUBSET Cables, boot : SUBSET (Cables \cup {"none"}),
                        adapter : BOOLEAN, plugs : Nat, hasty : BOOLEAN]

VARIABLES
  chg,      (* struct rk817_charger, its board (dt) and the registers      *)
  queue,    (* works of usb_charger_wq, in order                           *)
  dcWork,   (* dc_work is queued                                           *)
  run,      (* what the work that runs on each queue has still to do       *)
  mid,      (* what it has read for the parameters it is setting           *)
  depth,    (* how often the plug interrupts are disabled                  *)
  cable, adapter, (* what is plugged                                       *)
  detected, (* what the phy reports                                        *)
  pm,       (* "up", "sleep", "stopping", "off"                            *)
  plugs     (* counts to the board's plugs                                 *)

vars == <<chg, queue, dcWork, run, mid, depth, cable, adapter, detected, pm, plugs>>
world == <<cable, adapter, detected, pm, plugs>>

INPUT_450MA == 450
INPUT_1500MA == 1500

(***************************************************************************)
(* The selections of the registers: the next value that is not larger.     *)
(***************************************************************************)
Below(table, x) == {v \in table : v <= x}
Largest(S) == CHOOSE v \in S : \A w \in S : w <= v
set_input_current(mA) ==
  LET fit == Below({80, 450, 850, 1500, 1750, 2000, 2500, 3000}, mA)
  IN IF fit = {} THEN 80 ELSE Largest(fit)
set_chrg_current(mA) ==
  LET fit == Below({500, 1000, 1500, 2000, 2500, 3000, 3500}, mA)
  IN IF fit = {} THEN 500 ELSE Largest(fit)
\* A field of three bits; outside of the range nothing is written.
set_chrg_voltage(mV, old) ==
  IF mV < 4100 \/ mV > 4500 THEN old ELSE 4100 + 50 * (((mV - 4100) \div 50) % 8)

pre_init(dt) ==
  [usb_in |-> FALSE, ac_in |-> FALSE, dc_in |-> FALSE, otg_in |-> FALSE, otg5v |-> FALSE,
   boost |-> FALSE, status |-> "UNKNOWN", plugin |-> FALSE, plugout |-> FALSE, bc_event |-> "none",
   slp |-> FALSE, otg_slp_state |-> FALSE, cur |-> set_chrg_current(dt.cur),
   vol |-> set_chrg_voltage(dt.vol, 4100), dt |-> dt, ilim |-> INPUT_450MA]

Online(c) == c.ac_in \/ c.usb_in \/ c.dc_in
PluggedIn == cable \in Powered \/ adapter

\* rk817_charge_probe: with type-C the two works look at what is there. (They
\* are queued on the system's queue; nothing else runs by then.)
Init ==
  /\ \E dt \in Boards, limit \in {INPUT_450MA, MaxInput} :
       /\ chg = [pre_init(dt) EXCEPT !.ilim = limit]
       /\ cable \in dt.boot /\ detected = cable /\ adapter = FALSE
       /\ queue = (IF dt.extcon THEN <<"host", "usb">> ELSE <<>>) /\ dcWork = FALSE
  /\ run = [q \in {"usb", "dc"} |-> <<>>] /\ mid = [q \in {"usb", "dc"} |-> "none"]
  /\ depth = 0 /\ pm = "up" /\ plugs = 0

\* Every notification came and every work has run.
AtRest == pm = "up" /\ detected = cable /\ queue = <<>> /\ ~ dcWork
          /\ run["usb"] = <<>> /\ run["dc"] = <<>>

\* queue_delayed_work: a work that is queued stays where it is.
Enqueue(q, w) == IF w \in ToSet(q) THEN q ELSE Append(q, w)

(***************************************************************************)
(* Interrupts and notifiers                                                *)
(***************************************************************************)
Irqs(c, q, was, is) ==
  IF was = is \/ depth > 0 THEN <<c, q>>
  ELSE <<IF is THEN [c EXCEPT !.plugin = TRUE] ELSE [c EXCEPT !.plugout = TRUE], Enqueue(q, "irq")>>

\* A cable comes or goes: rk817_plug_in_isr, rk817_plug_out_isr.
Plug(c) ==
  /\ plugs < chg.dt.plugs /\ plugs' = plugs + 1 /\ pm = "up" /\ (chg.dt.hasty \/ AtRest)
  /\ c # cable /\ "none" \in {c, cable}
  /\ cable' = c
  /\ LET r == Irqs(chg, queue, PluggedIn, c \in Powered \/ adapter)
     IN chg' = r[1] /\ queue' = r[2]
  /\ UNCHANGED <<dcWork, run, mid, depth, adapter, detected, pm>>

\* The DC adapter: rk817_charge_dc_det_isr, and the input of the PMIC.
DcPlug ==
  /\ plugs < chg.dt.plugs /\ plugs' = plugs + 1 /\ pm = "up" /\ (chg.dt.hasty \/ AtRest)
  /\ chg.dt.adapter /\ adapter' = ~ adapter
  /\ dcWork' = TRUE
  /\ LET r == Irqs(chg, queue, PluggedIn, cable \in Powered \/ ~ adapter)
     IN chg' = r[1] /\ queue' = r[2]
  /\ UNCHANGED <<run, mid, depth, cable, detected, pm>>

\* The phy notices. EXTCON_USB is a data cable: "sdp" or "cdp"; the notifier
\* of the kind of charger runs when one of the kinds changes.
EXTCON_USB(k) == k \in {"sdp", "cdp"}
Notified(old, new) ==
  SelectSeq(<<"usb", "host", "discnt">>,
            LAMBDA w : \/ w = "usb" /\ {old, new} \cap Powered # {}
                       \/ w = "host" /\ "host" \in {old, new}
                       \/ w = "discnt" /\ EXTCON_USB(old) # EXTCON_USB(new))
Detect ==
  /\ detected # cable /\ pm \in {"up", "stopping"}
  /\ detected' = cable
  /\ IF chg.dt.extcon
     THEN /\ queue' = FoldLeft(Enqueue, queue, Notified(detected, cable))
          /\ UNCHANGED chg
     ELSE /\ chg' = [chg EXCEPT !.bc_event =
                       IF cable = "none" THEN IF detected = "host" THEN "otg_off" ELSE "discnt"
                       ELSE cable]
          /\ queue' = Enqueue(queue, "usb")
  /\ UNCHANGED <<dcWork, run, mid, depth, cable, adapter, pm, plugs>>

(***************************************************************************)
(* rk817_charge_set_chrg_param, in two steps.                              *)
(***************************************************************************)
Flags(c, kind) ==
  CASE kind = "NONE" -> [c EXCEPT !.usb_in = FALSE, !.ac_in = FALSE]
    [] kind = "sdp" -> [c EXCEPT !.usb_in = TRUE, !.ac_in = FALSE]
    [] kind \in {"dcp", "cdp"} -> [c EXCEPT !.ac_in = TRUE, !.usb_in = FALSE]
    [] kind = "DC" -> [c EXCEPT !.dc_in = TRUE]
    [] kind = "DC_NONE" -> [c EXCEPT !.dc_in = FALSE]

\* What the second step decides on.
Reads(c, kind) ==
  IF kind \in {"NONE", "sdp"} THEN IF c.dc_in THEN "dc" ELSE "nodc"
  ELSE IF kind = "DC_NONE" THEN IF ~ PluggedIn THEN "out" ELSE IF c.usb_in THEN "usb" ELSE "keep"
  ELSE "set"

Charging(c, mA) == [c EXCEPT !.status = "CHARGING", !.ilim = set_input_current(mA)]
Discharging(c) == [c EXCEPT !.status = "DISCHARGING", !.ilim = set_input_current(INPUT_450MA)]

Effect(c, kind, read) ==
  CASE kind = "NONE" -> IF read = "nodc" THEN Discharging(c) ELSE c
    [] kind = "sdp" -> IF read = "nodc" THEN Charging(c, INPUT_450MA) ELSE [c EXCEPT !.status = "CHARGING"]
    [] kind \in {"dcp", "DC"} -> Charging(c, MaxInput)
    [] kind = "cdp" -> Charging(c, INPUT_1500MA)
    [] kind = "DC_NONE" -> IF read = "out" THEN [Discharging(c) EXCEPT !.ac_in = FALSE, !.usb_in = FALSE]
                           ELSE IF read = "usb" THEN Charging(c, INPUT_450MA) ELSE c

Kinds == Powered \cup {"NONE", "DC", "DC_NONE"}
ParamBegin(q) ==
  /\ run[q] # <<>> /\ Head(run[q]) \in Kinds /\ mid[q] = "none"
  /\ chg' = Flags(chg, Head(run[q]))
  /\ mid' = [mid EXCEPT ![q] = Reads(chg', Head(run[q]))]
  /\ UNCHANGED <<queue, dcWork, run, depth, world>>

\* soc: the saved state of charge is 100.
ParamEnd(q, soc) ==
  LET c == Effect(chg, Head(run[q]), mid[q]) IN
  /\ mid[q] # "none"
  /\ chg' = IF Online(c) /\ soc THEN [c EXCEPT !.status = "FULL"] ELSE c
  /\ mid' = [mid EXCEPT ![q] = "none"]
  /\ run' = [run EXCEPT ![q] = Tail(@)]
  /\ UNCHANGED <<queue, dcWork, depth, world>>

(***************************************************************************)
(* rk817_charge_set_otg_state: the regulator and the plug interrupts.      *)
(***************************************************************************)
set_otg_state(on) ==
  IF on /\ ~ chg.otg_in THEN [otg5v |-> TRUE, depth |-> depth + 1]
  ELSE IF ~ on /\ chg.otg_in THEN [otg5v |-> FALSE, depth |-> depth - 1]
  ELSE [otg5v |-> chg.otg5v, depth |-> depth]
SetOtg(c, on) == chg' = [c EXCEPT !.otg5v = set_otg_state(on).otg5v] /\ depth' = set_otg_state(on).depth

(***************************************************************************)
(* The works of the usb queue                                              *)
(***************************************************************************)
Start(w) == run["usb"] = <<>> /\ queue # <<>> /\ Head(queue) = w /\ pm \in {"up", "stopping"}
Do(ops) == run' = [run EXCEPT !["usb"] = ops]

\* rk817_charger_evt_worker: a cable that is gone changes nothing here.
ChargerEvtWork ==
  /\ chg.dt.extcon /\ Start("usb")
  /\ Do(IF detected \in Powered THEN <<detected>> ELSE <<>>)
  /\ queue' = Tail(queue)
  /\ UNCHANGED <<chg, dcWork, mid, depth, world>>

\* rk817_charge_bc_evt_worker
BcEvtWork ==
  /\ ~ chg.dt.extcon /\ Start("usb")
  /\ queue' = Tail(queue)
  /\ IF chg.bc_event \in {"host", "otg_off"}
     THEN /\ IF chg.bc_event = "host" /\ chg.dt.dc2otg /\ chg.dc_in THEN UNCHANGED <<chg, depth>>
             ELSE SetOtg(chg, chg.bc_event = "host")
          /\ UNCHANGED run
     ELSE /\ Do(IF chg.bc_event = "discnt" THEN <<"NONE">> ELSE <<chg.bc_event>>)
          /\ UNCHANGED <<chg, depth>>
  /\ UNCHANGED <<dcWork, mid, world>>

\* Mutant: the OTG supply is left on when the device goes.
HostEvtWork_NoOff ==
  /\ Start("host")
  /\ queue' = Tail(queue)
  /\ IF detected = "host" THEN SetOtg([chg EXCEPT !.otg_in = TRUE], TRUE)
     ELSE chg' = [chg EXCEPT !.otg_in = FALSE] /\ UNCHANGED depth
  /\ UNCHANGED <<dcWork, run, mid, world>>

HostEvtWork ==
  /\ Start("host")
  /\ queue' = Tail(queue)
  /\ IF detected = "host"
     THEN IF chg.dc_in /\ chg.dt.dc2otg THEN SetOtg([chg EXCEPT !.otg_in = TRUE], FALSE)
          ELSE SetOtg([chg EXCEPT !.otg_in = TRUE], TRUE)
     ELSE SetOtg([chg EXCEPT !.otg_in = FALSE], FALSE)
  /\ UNCHANGED <<dcWork, run, mid, world>>

DiscntEvtWork ==
  /\ Start("discnt")
  /\ queue' = Tail(queue)
  /\ Do(IF EXTCON_USB(detected) THEN <<>> ELSE <<"NONE">>)
  /\ UNCHANGED <<chg, dcWork, mid, depth, world>>

\* rk817_charge_irq_delay_work handles one of the two flags.
IrqWork ==
  /\ Start("irq")
  /\ IF chg.plugin
     THEN /\ chg' = [chg EXCEPT !.plugin = FALSE]
          /\ queue' = IF chg.dt.extcon THEN Enqueue(Tail(queue), "usb") ELSE Tail(queue)
          /\ UNCHANGED run
     ELSE /\ chg' = [chg EXCEPT !.plugout = FALSE]
          /\ queue' = Tail(queue)
          /\ Do(IF chg.plugout THEN <<"NONE", "DC_NONE">> ELSE <<>>)
  /\ UNCHANGED <<dcWork, mid, depth, world>>

(***************************************************************************)
(* rk817_charge_dc_det_worker, on the dc queue                             *)
(***************************************************************************)
DcDetWork ==
  /\ dcWork /\ run["dc"] = <<>> /\ pm \in {"up", "stopping"}
  /\ dcWork' = FALSE
  /\ run' = [run EXCEPT !["dc"] = IF adapter THEN <<"DC", "boost_off">> ELSE <<"DC_NONE", "boost_on">>]
  /\ UNCHANGED <<chg, queue, mid, depth, world>>

\* "check otg supply", with the switch of the boost.
DcOtg ==
  /\ run["dc"] # <<>> /\ Head(run["dc"]) \in {"boost_on", "boost_off"}
  /\ LET on == Head(run["dc"]) = "boost_on"
     IN IF chg.otg_in /\ (on \/ chg.dt.dc2otg) THEN SetOtg([chg EXCEPT !.boost = on], on)
        ELSE chg' = [chg EXCEPT !.boost = on] /\ UNCHANGED depth
  /\ run' = [run EXCEPT !["dc"] = <<>>]
  /\ UNCHANGED <<queue, dcWork, mid, world>>

(***************************************************************************)
(* Sleep and shutdown                                                      *)
(***************************************************************************)
\* The queues are frozen; otg5v_suspend_enable is set by default.
Suspend ==
  /\ pm = "up" /\ run["usb"] = <<>> /\ run["dc"] = <<>>
  /\ pm' = "sleep"
  /\ chg' = [chg EXCEPT !.otg_slp_state = chg.slp,
                        !.slp = chg.otg_in /\ (~ chg.dc_in \/ ~ chg.dt.dc2otg)]
  /\ UNCHANGED <<queue, dcWork, run, mid, depth, cable, adapter, detected, plugs>>

Resume ==
  /\ pm = "sleep"
  /\ pm' = "up"
  /\ chg' = [chg EXCEPT !.slp = @ \/ chg.otg_slp_state]
  /\ UNCHANGED <<queue, dcWork, run, mid, depth, cable, adapter, detected, plugs>>

\* rk817_charger_shutdown: the notifiers are removed at its end.
ShutdownBegin ==
  /\ pm = "up" /\ run["usb"] = <<>>
  /\ pm' = "stopping"
  /\ chg' = [chg EXCEPT !.otg5v = set_otg_state(FALSE).otg5v, !.boost = FALSE]
  /\ depth' = set_otg_state(FALSE).depth + 1
  /\ queue' = IF chg.dt.extcon THEN SelectSeq(queue, LAMBDA w : w \notin {"host", "discnt"}) ELSE queue
  /\ UNCHANGED <<dcWork, run, mid, cable, adapter, detected, plugs>>

ShutdownEnd ==
  /\ pm = "stopping" /\ run["usb"] = <<>> /\ run["dc"] = <<>>
  /\ ToSet(queue) \cap {"host", "discnt"} = {}
  /\ pm' = "off" /\ queue' = <<>> /\ dcWork' = FALSE
  /\ UNCHANGED <<chg, run, mid, depth, cable, adapter, detected, plugs>>

Next ==
  \/ \E c \in chg.dt.cables \cup {"none"} : Plug(c)
  \/ DcPlug \/ Detect
  \/ \E q \in {"usb", "dc"} : ParamBegin(q) \/ \E soc \in BOOLEAN : ParamEnd(q, soc)
  \/ ChargerEvtWork \/ BcEvtWork \/ HostEvtWork \/ DiscntEvtWork \/ IrqWork \/ DcDetWork \/ DcOtg
  \/ Suspend \/ Resume \/ ShutdownBegin \/ ShutdownEnd

Spec == Init /\ [][Next]_vars

(***************************************************************************)
(* Properties                                                              *)
(***************************************************************************)
\* Every variable has its type.
TypeOK ==
  /\ ToSet(queue) \subseteq {"usb", "host", "discnt", "irq"}
  /\ \A q \in {"usb", "dc"} :
       run[q] \in Seq(Kinds \cup {"boost_on", "boost_off"})
         /\ mid[q] \in {"none", "dc", "nodc", "out", "usb", "keep", "set"}
  /\ cable \in Cables \cup {"none"} /\ detected \in Cables \cup {"none"} /\ adapter \in BOOLEAN
  /\ chg.status \in {"UNKNOWN", "CHARGING", "DISCHARGING", "FULL"}
  /\ pm \in {"up", "sleep", "stopping", "off"}

\* power_supply.md: plugging and unplugging updates "status/online". The
\* fields that ac and usb report as online say what is plugged.
OnlineSettles ==
  AtRest => /\ chg.usb_in <=> cable = "sdp"
            /\ chg.ac_in <=> cable \in {"dcp", "cdp"}
            /\ chg.dc_in <=> adapter

\* The status that both supplies report agrees with what is online.
StatusSettles ==
  AtRest /\ chg.status # "UNKNOWN" => (chg.status = "DISCHARGING" <=> ~ Online(chg))

\* The otg supply is on exactly when a device needs it and the adapter does
\* not feed it ("check otg supply, power on anyway"). With power_dc2otg, which
\* does not turn it on again, and with the bc notifier, which does not keep
\* otg_in, it is not so (README, Findings).
OtgFollows == AtRest => (chg.otg5v <=> cable = "host" /\ ~ (adapter /\ chg.dt.dc2otg))
Plain == chg.dt.extcon /\ ~ chg.dt.dc2otg
OtgSettles == Plain => OtgFollows

\* The plug interrupts are disabled exactly while the charger drives the
\* connector itself, however often the works run.
IrqBalanced ==
  pm # "off" /\ pm # "stopping" /\ Plain => depth = (IF chg.otg5v THEN 1 ELSE 0)

\* A cable without an adapter is not asked for more than it gives.
InputSafe ==
  AtRest /\ ~ adapter => /\ cable = "sdp" => chg.ilim <= INPUT_450MA
                         /\ cable = "cdp" => chg.ilim <= INPUT_1500MA

\* rk817_charge_pre_init programs no more than the device tree allows.
ProgrammedSafe == chg.cur <= chg.dt.cur /\ chg.vol <= chg.dt.vol

\* Once the works have run, what is reported, the OTG supply and the plug
\* interrupts are those of what is plugged; neither the input nor the battery
\* gets more than it stands.
FollowsPlug ==
  /\ TypeOK /\ OnlineSettles /\ StatusSettles /\ OtgSettles /\ IrqBalanced
  /\ InputSafe /\ ProgrammedSafe
=============================================================================
