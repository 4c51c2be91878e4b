---------------------------- MODULE RK817Battery ----------------------------
(***************************************************************************)
(* rk817_battery.c: the fuel gauge driver. It reads a coulomb counter, a   *)
(* voltage and a current, and shows a state of charge (dsoc) that follows  *)
(* the measured one (rsoc) smoothly, in three modes: smooth, zero (near    *)
(* the power-off voltage) and finish (charger done). dsoc and the capacity *)
(* are saved byte by byte in registers that survive a power-off, which may *)
(* come after any write.                                                   *)
(*                                                                         *)
(* Arithmetic is the driver's: dsoc and rsoc in 1/1000 percent, remain_cap *)
(* in uAh, fcc in mAh, the counter in ADC counts, with C's division. A     *)
(* reading of the hardware is taken from the day; within one run of the    *)
(* work the second reading may be another.                                 *)
(***************************************************************************)
EXTENDS Integers, Sequences, FiniteSets

CONSTANTS
  OcvTable, DesignCapacity, DesignQmax, BatRes, PwroffVol, ZeroVol,
  MaxSocOffset,      (* the device tree                                     *)
  MaxVoltage,        (* design_max_voltage of the RK809                     *)
  Days               (* what happens to a board:                            *)
                     (* rk809: chip_id = RK809_ID; boots: what its registers *)
                     (* hold at the first power-on; readings: what the ADCs *)
                     (* and the charger show; glitch: when they are read    *)
                     (* again within one work; charges: changes of the      *)
                     (* counter between two works; delays: seconds between  *)
                     (* them, monitor_sec or more when the queue is held    *)
                     (* up; sleeps: seconds of a sleep; off: OFF_CNT at a   *)
                     (* later power-on; steps: bound on the length          *)

ASSUME DeviceTree ==
  /\ Len(OcvTable) > 1 /\ \A i \in 1 .. Len(OcvTable) - 1 : OcvTable[i] < OcvTable[i + 1]
  /\ \A d \in Days : d.glitch \subseteq d.readings
  /\ DesignCapacity \in 500 .. DesignQmax /\ {BatRes, PwroffVol, ZeroVol} \subseteq Nat

VARIABLES
  day,       (* chosen at the start                                        *)
  bat,       (* struct rk817_battery_device and the registers it uses      *)
  pm,        (* "off", "on" or "sleep"                                     *)
  run,       (* what goes on when the registers are written: the rest of   *)
             (* "probe", the "report" of a work, or nothing                *)
  delayWork, (* bat_delay_work is queued                                   *)
  resumeWork,(* resume_work is queued                                      *)
  steps      (* counts to the bound                                        *)

vars == <<day, bat, pm, run, delayWork, resumeWork, steps>>

(***************************************************************************)
(* Arithmetic                                                              *)
(***************************************************************************)
CDiv(a, b) == IF a >= 0 THEN a \div b ELSE -((-a) \div b)
DIV(x) == IF x # 0 THEN x ELSE 1
Abs(x) == IF x < 0 THEN -x ELSE x
Percent(x) == CDiv(x, 1000)
Full == 100 * 1000

CapacityToAdc(cap) == ((cap * 3600) \div 172) * 1000
\* A counter below zero has CAP_INVALID set and gives 0.
AdcToUah(q) == IF q < 0 THEN 0 ELSE (q \div 3600) * 172
AdcToMah(q) == IF q < 0 THEN 0 ELSE (((q \div 1000) * 172) \div 3600)

\* 0 .. 1000 for a voltage: linear between two entries of the table.
interpolate(v) ==
  LET size == Len(OcvTable)
      above == {i \in 1 .. size : v < OcvTable[i]}
      i == IF above = {} THEN size ELSE (CHOOSE m \in above : \A k \in above : m <= k) - 1
      step == 1000 \div (size - 1)
      d == IF 0 < i /\ i < size
           THEN ((v - OcvTable[i]) * step) \div (OcvTable[i + 1] - OcvTable[i]) + (i - 1) * step
           ELSE i * ((1000 + size \div 2) \div size)
  IN IF d > 1000 THEN 1000 ELSE d

ab_div_c(a, b, c) == (a * b + c \div 2) \div c
VolToSoc(v) == ab_div_c(interpolate(v), 100, 1000)
VolToCap(S, v) == ab_div_c(interpolate(v), S.fcc, 1000)

(***************************************************************************)
(* Operators on S, a value of bat.                                         *)
(***************************************************************************)
base2sec(S, x) == IF x = 0 \/ S.now < x THEN 0 ELSE S.now - x

\* rk817_bat_get_charge_status.
ChargeStatus(S) ==
  IF day.rk809
  THEN IF S.voltage_avg > MaxVoltage /\ S.current_avg > 0
           /\ (S.current_avg < 500 \/ Percent(S.rsoc) = 100) THEN "FINISH"
       ELSE IF S.plugin_trigger THEN "CC_OR_CV" ELSE "OFF"
  ELSE IF S.hw.chg = "CC_OR_CV" /\ S.rsoc = Full THEN "FINISH" ELSE S.hw.chg

\* rsoc is compared with 100, although it counts thousandths.
FakeFinish(S) == S.rsoc = 100 /\ ChargeStatus(S) = "CC_OR_CV" /\ Abs(S.current_avg) <= 100

\* rk817_bat_get_charge_state: the charger's power supplies.
charge_state(S) == S.hw.usb

get_rsoc(S) == (AdcToUah(S.q) * 100) \div DIV(S.fcc)

init_coulomb_cap(S, cap) ==
  [S EXCEPT !.q = CapacityToAdc(cap), !.rsoc = (cap * 1000 * 100) \div S.fcc,
            !.remain_cap = cap * 1000]

\* What a register holds when its low k bytes are new and the others old, and
\* the writes of its three bytes, the ones that change it, by what it holds
\* after each.
LowNew(old, new, k) == (old \div 256 ^ k) * 256 ^ k + (new % 256 ^ k)
Writes(reg, v) ==
  LET write(i) == IF v[i] = v[i + 1] THEN <<>> ELSE <<[reg |-> reg, value |-> v[i + 1]]>>
  IN write(1) \o write(2) \o write(3)

\* The statics last_soc and old_cap remember what was written. The charge is
\* written from its low byte up, the capacity from its high byte down.
SocWrites(S) ==
  LET old == IF S.last_soc = -1 THEN S.socReg ELSE S.last_soc
      through(k) == LowNew(old, S.dsoc, k)
  IN Writes("socReg", <<old, through(1), through(2), S.dsoc>>)

save_dsoc(S) ==
  IF S.last_soc = S.dsoc THEN S
  ELSE [S EXCEPT !.last_soc = S.dsoc, !.writes = @ \o SocWrites(S)]
save_cap(S) ==
  LET c == IF S.remain_cap \div 1000 >= S.qmax THEN S.qmax ELSE S.remain_cap \div 1000
      through(k) == LowNew(c, S.capReg, k)
  IN IF S.old_cap = c THEN S
     ELSE [S EXCEPT !.old_cap = c,
                    !.writes = @ \o Writes("capReg", <<S.capReg, through(2), through(1), c>>)]
save_data(S) == save_cap(save_dsoc(S))

(***************************************************************************)
(* The smooth algorithm: dsoc follows the counter at 3/4 or 4/3 of its     *)
(* speed until it meets rsoc.                                              *)
(***************************************************************************)
calc_sm_linek(S) ==
  LET delta == Abs(S.dsoc - S.rsoc)
      fast == (1000 * 4 * delta) \div DIV(3 * delta)
      slow == (1000 * 3 * delta) \div DIV(4 * delta)
      k == IF S.hw.cur > 0
           THEN IF S.dsoc < S.rsoc THEN fast ELSE IF S.dsoc > S.rsoc THEN slow ELSE 1000
           ELSE IF S.dsoc < S.rsoc THEN -slow ELSE IF S.dsoc > S.rsoc THEN -fast ELSE -1000
  IN [S EXCEPT !.sm_linek = k, !.sm_remain_cap = S.remain_cap]

smooth_algo_prepare(S) == calc_sm_linek([S EXCEPT !.smooth_soc = S.dsoc])

calc_smooth_dischrg(S) ==
  LET T == [S EXCEPT !.smooth_soc = IF @ < 0 THEN 0 ELSE @] IN
  IF Percent(T.smooth_soc) = Percent(T.dsoc) \/ T.smooth_soc > T.dsoc THEN T
  ELSE LET d == IF T.smooth_soc + 1000 > T.dsoc THEN T.smooth_soc ELSE T.dsoc - 1000
       IN [T EXCEPT !.dsoc = IF d < 0 THEN 0 ELSE d]

smooth_algorithm(S) ==
  LET Line(X) == IF X.sm_linek * X.current_avg <= 0 THEN calc_sm_linek(X) ELSE X
      Counted(X) == [X EXCEPT !.remain_cap = AdcToUah(X.q)]
      Moved(X) == CDiv(X.sm_linek * Abs(CDiv(X.remain_cap - X.sm_remain_cap, 10)), DIV(X.fcc))
      Again(X) == IF X.s2r THEN calc_sm_linek([X EXCEPT !.s2r = FALSE]) ELSE X
      Up(X) == IF Percent(X.smooth_soc) = Percent(X.dsoc) THEN Again(X)
               ELSE IF X.smooth_soc < X.dsoc THEN X
               ELSE Again([X EXCEPT !.dsoc = X.smooth_soc])
      Move(X, y) == [X EXCEPT !.sm_remain_cap = X.remain_cap, !.smooth_soc = @ + y]
      Shown(X, y) == IF y = 0 THEN X
                     ELSE IF y < 0 THEN Again(calc_smooth_dischrg(Move(X, y)))
                     ELSE Up([Move(X, y) EXCEPT !.smooth_soc = IF @ < 0 THEN 0 ELSE @])
      Follow(X) == Shown(X, Moved(X))
  IN Follow(Counted(Line(S)))

(***************************************************************************)
(* The zero algorithm: near the power-off voltage dsoc goes down with the  *)
(* capacity that is left until that voltage is reached.                    *)
(***************************************************************************)
ZeroReserve == 10 * 1000 * 1000  \* the default, scaled twice by parse_dt
WAIT_DSOC_DROP_SEC == 15
WAIT_SHTD_DROP_SEC == 30

pwroff_vol(S) == IF Abs(S.current_avg) < 400 /\ Percent(S.dsoc) > 5
                 THEN PwroffVol + 50 ELSE PwroffVol
xsoc_of(S) ==
  VolToSoc(S.hw.vol - CDiv(S.hw.cur * BatRes, 1000))
  - VolToSoc(pwroff_vol(S) - CDiv(S.hw.cur * (BatRes + 50), 1000))

\* The speed for 0 <= xsoc: how much dsoc is ahead of what is left. The
\* branch for energy_mode, which the device tree leaves off, is left out.
zero_linek_of(S, xsoc) ==
  LET soc == Percent(S.dsoc)
      load == IF Abs(S.hw.cur) > 1400 THEN 3 ELSE IF Abs(S.hw.cur) > 600 THEN 5 ELSE 10
      gap == IF xsoc <= 30 /\ S.dsoc >= ZeroReserve THEN load + 5 ELSE load
      k == CDiv(S.zero_dsoc + xsoc \div 2, DIV(xsoc))
  IN CASE soc <= 1 /\ xsoc > 0 -> 400
       [] xsoc - soc >= gap \/ (xsoc - soc >= 5 /\ soc <= 10 /\ xsoc > 15) ->
            IF xsoc <= 20 /\ soc >= ZeroReserve THEN 1200
            ELSE IF xsoc - soc >= 2 * gap THEN 400
            ELSE IF xsoc - soc >= 3 + gap THEN 600 ELSE 800
       [] k > 1800 /\ soc > 70 -> 1800
       [] k > 1000 /\ k < 1200 -> 1200
       [] soc <= 15 /\ S.dsoc > 5 /\ k <= 1200 -> IF xsoc - soc >= gap THEN 800 ELSE 1200
       [] k < 1000 /\ soc >= 5 -> IF xsoc - soc < gap THEN 1200
                                  ELSE IF Abs(S.current_avg) > 500 THEN 900 ELSE 1000
       [] k < 1000 -> IF xsoc - soc <= 3 THEN 1200 ELSE 800
       [] OTHER -> k

\* The driver also divides by the current, which may be 0, for a resistance
\* that is only logged; the quotient is not modelled.
calc_zero_linek(S) ==
  LET Since(X) == IF X.zero_drop_sec = 0 THEN X.now ELSE X.zero_drop_sec
      Base(X) == [X EXCEPT !.zero_batocv_to_cap = VolToCap(X, X.hw.vol - CDiv(X.hw.cur * BatRes, 1000)),
                           !.zero_remain_cap = X.remain_cap, !.zero_timeout_cnt = 0]
      Drop(X, d) == [X EXCEPT !.zero_linek = 1000, !.zero_drop_sec = 0, !.dsoc = d, !.zero_dsoc = d]
      Line(X, xsoc) ==
        IF xsoc >= 0 THEN [X EXCEPT !.zero_drop_sec = 0, !.zero_linek = zero_linek_of(X, xsoc)]
        ELSE IF base2sec(X, Since(X)) >= WAIT_DSOC_DROP_SEC
        THEN Drop(X, IF X.dsoc < 1000 THEN 0 ELSE X.dsoc - 1000)
        ELSE [X EXCEPT !.zero_linek = 1000, !.zero_drop_sec = Since(X)]
      Low(X) == IF X.shtd_drop_sec = 0 THEN X.now ELSE X.shtd_drop_sec
      \* An extremely low voltage that stays takes the charge to 0.
      Shutdown(X, low) == IF ~ low THEN [X EXCEPT !.shtd_drop_sec = 0]
                          ELSE IF base2sec(X, Low(X)) > WAIT_SHTD_DROP_SEC
                          THEN [X EXCEPT !.shtd_drop_sec = 0, !.dsoc = 0]
                          ELSE [X EXCEPT !.shtd_drop_sec = Low(X)]
  IN Shutdown(Line(Base(S), xsoc_of(S)), S.hw.vol < pwroff_vol(S) - 70)

zero_algo_prepare(S) ==
  calc_zero_linek(IF Percent(S.zero_dsoc) # Percent(S.smooth_soc)
                  THEN [S EXCEPT !.zero_dsoc = S.smooth_soc] ELSE S)

\* Mutant: the shown charge takes the estimate at once.
calc_zero_algorithm_Follow(S) == [S EXCEPT !.dsoc = S.zero_dsoc]

calc_zero_algorithm(S) ==
  IF Percent(S.zero_dsoc) = Percent(S.dsoc) \/ S.zero_dsoc > S.dsoc THEN S
  ELSE [S EXCEPT !.dsoc = IF S.zero_dsoc < S.dsoc - 1000 THEN @ - 1000 ELSE S.zero_dsoc]

zero_algorithm(S) ==
  LET Used(X) == CDiv(CDiv(X.zero_linek * (X.zero_remain_cap - X.remain_cap), DIV(X.fcc)), 10)
      Follow(X, soc) == IF soc >= 10 \/ X.zero_timeout_cnt > 100 \/ X.zero_linek = 0
                        THEN calc_zero_linek(calc_zero_algorithm(
                               [X EXCEPT !.zero_timeout_cnt = 0, !.zero_dsoc = @ - soc]))
                        ELSE X
      Count(X) == Follow(X, Used(X))
      Recount(X) == IF Percent(X.rsoc) < 1 /\ X.zero_batocv_to_cap > X.fcc \div 100
                    THEN calc_zero_linek(init_coulomb_cap(X, X.zero_batocv_to_cap)) ELSE X
  IN Recount(Count([S EXCEPT !.zero_timeout_cnt = @ + 1]))

(***************************************************************************)
(* The charge is finished: dsoc goes up with time, or at once to 100 when  *)
(* rsoc is there.                                                          *)
(***************************************************************************)
finish_algo_prepare(S) == [S EXCEPT !.finish_base = S.now]

finish_algorithm(S) ==
  LET A == IF S.remain_cap # S.fcc /\ ChargeStatus(S) = "FINISH"
           THEN init_coulomb_cap(S, S.fcc) ELSE S
      base == IF A.finish_base = 0 THEN A.now ELSE A.finish_base
      sec == base2sec(A, base)
      per == ((A.fcc * 3600) \div 100) \div (IF A.rsoc - A.dsoc > 20 THEN 1500 ELSE 1000)
      rest == sec % DIV(per)
      B == IF sec > per THEN [A EXCEPT !.dsoc = @ + (sec \div DIV(per)) * 1000,
                                       !.finish_base = IF A.now > rest THEN A.now - rest ELSE A.now]
           ELSE [A EXCEPT !.finish_base = base]
  IN IF A.dsoc >= Full THEN A
     ELSE IF Percent(B.rsoc) = 100 /\ B.dsoc < Full THEN save_dsoc([B EXCEPT !.dsoc = Full])
     ELSE B

Finished(S) == ChargeStatus(S) = "FINISH" \/ FakeFinish(S)
NearZero(S) == S.current_avg < 0 /\ S.voltage_avg < ZeroVol
ToZero(S) == [zero_algo_prepare(S) EXCEPT !.work_mode = "ZERO"]
ToSmooth(S) == [smooth_algo_prepare(S) EXCEPT !.work_mode = "SMOOTH"]
ToFinish(S) == [finish_algo_prepare(S) EXCEPT !.work_mode = "FINISH"]

\* The algorithm of the mode, then the change of mode.
AfterFinish(S) == IF Finished(S) THEN S ELSE IF NearZero(S) THEN ToZero(S) ELSE ToSmooth(S)
AfterZero(S) == IF S.voltage_avg >= ZeroVol + 50 \/ S.current_avg >= 0 THEN ToSmooth(S)
                ELSE IF Finished(S) THEN ToFinish(S) ELSE S
AfterSmooth(S) == IF NearZero(S) THEN ToZero(S) ELSE IF Finished(S) THEN ToFinish(S) ELSE S

display_smooth(S) ==
  IF S.s2r /\ ~ S.sleep_chrg_online
  THEN smooth_algo_prepare(zero_algo_prepare([S EXCEPT !.s2r = FALSE]))
  ELSE CASE S.work_mode = "FINISH" -> AfterFinish(finish_algorithm(S))
         [] S.work_mode = "ZERO" -> AfterZero(zero_algorithm(S))
         [] OTHER -> AfterSmooth(smooth_algorithm(S))

(***************************************************************************)
(* rk817_battery_work                                                      *)
(***************************************************************************)
Read(S, r) == [S EXCEPT !.hw = r]

update_info(S) ==
  LET A == [S EXCEPT !.voltage_avg = S.hw.vol, !.current_avg = S.hw.cur,
                     !.voltage_relax = S.hw.relax, !.rsoc = get_rsoc(S),
                     !.remain_cap = AdcToUah(S.q)]
      status == ChargeStatus(A)
      B == IF charge_state(A) = A.is_charging THEN A
           ELSE [A EXCEPT !.is_charging = charge_state(A), !.change = TRUE]
      C == IF B.remain_cap \div 1000 > B.fcc
           THEN init_coulomb_cap([B EXCEPT !.sm_remain_cap = B.fcc * 1000], B.fcc) ELSE B
  IN IF status = "FINISH" THEN C ELSE [C EXCEPT !.finish_base = C.now]

\* High load with the charger in; low_time is the static time.
lowpwr_check(S) ==
  LET low == IF S.low_time = 0 THEN S.now ELSE S.low_time
      late == base2sec(S, low) > 60
  IN IF S.current_avg < 0 /\ S.voltage_avg < PwroffVol
     THEN [S EXCEPT !.low_time = low, !.fake_offline = @ \/ late,
                    !.dsoc = IF late /\ S.voltage_avg <= PwroffVol - 50 THEN @ - 1000 ELSE @]
     ELSE [S EXCEPT !.low_time = 0, !.fake_offline = FALSE]

\* The limits, and the report if something changed.
bat_power_supply_changed(S) ==
  LET T == [S EXCEPT !.dsoc = IF @ > Full THEN Full ELSE IF @ < 0 THEN 0 ELSE @]
  IN IF T.dsoc = T.old_soc /\ ~ T.change THEN T
     ELSE [T EXCEPT !.change = FALSE, !.old_soc = T.dsoc, !.last_dsoc = T.dsoc]

\* The work up to the report.
Work(S, again) == display_smooth(Read(lowpwr_check(update_info(S)), again))

(***************************************************************************)
(* What user space reads.                                                  *)
(***************************************************************************)
Capacity(S) == (S.dsoc + 500) \div 1000
Status(S) == IF S.dsoc = Full THEN "FULL"
             ELSE IF (IF day.rk809 THEN S.plugin_trigger ELSE charge_state(S))
             THEN "CHARGING" ELSE "DISCHARGING"

(***************************************************************************)
(* Power-on                                                                *)
(***************************************************************************)
first_pwron(S) ==
  LET T == [S EXCEPT !.con = FALSE, !.fcc = DesignCapacity, !.fccReg = DesignCapacity]
      soc == VolToSoc(T.hw.vol) * 1000
  IN [T EXCEPT !.rsoc = soc, !.dsoc = soc, !.nac = VolToCap(T, T.hw.vol)]

get_fcc(S) == IF S.fccReg < 500 THEN DesignCapacity
              ELSE IF S.fccReg > DesignQmax THEN DesignQmax ELSE S.fccReg

\* Mutant: one percent instead of ten.
is_last_halt_One(S, fcc) == Abs(AdcToMah(S.q) - S.capReg) > fcc \div 100

is_last_halt(S, fcc) == Abs(AdcToMah(S.q) - S.capReg) > fcc \div 10

\* OCV gives a state of charge in percent, dsoc counts thousandths of one.
not_first_pwron(S) ==
  LET fcc == get_fcc(S)
      now_cap == AdcToMah(S.q)
      halt == is_last_halt(S, fcc)
      calib == ~ S.fg /\ S.offMin >= 30
      A == [S EXCEPT !.fcc = fcc, !.fccReg = fcc, !.remain_cap = S.capReg * 1000, !.fg = FALSE]
      soc == VolToSoc(S.hw.ocv)
      cap == VolToCap(A, S.hw.ocv)
  IN CASE halt -> LET T == init_coulomb_cap(A, now_cap)
                  IN [T EXCEPT !.dsoc = T.rsoc, !.nac = now_cap]
       [] ~ halt /\ S.fg -> [A EXCEPT !.dsoc = S.socReg, !.nac = S.capReg]
       [] ~ halt /\ ~ S.fg /\ calib ->
            [A EXCEPT !.dsoc = IF Abs(soc - S.socReg) >= MaxSocOffset THEN soc ELSE S.socReg,
                      !.nac = cap]
       [] ~ halt /\ ~ S.fg /\ ~ calib ->
            IF S.offMin > 0 /\ Abs(soc - S.socReg) >= 80
            THEN [A EXCEPT !.dsoc = soc, !.nac = cap]
            ELSE [A EXCEPT !.dsoc = S.socReg, !.nac = S.capReg]

rsoc_init(S) ==
  LET T == save_dsoc(IF S.con THEN first_pwron(S) ELSE not_first_pwron(S))
      ready == ~ S.con /\ (S.fg \/ S.offMin >= 30)
  IN IF ready /\ Percent(T.rsoc) = 100 /\ T.dsoc < Full
     THEN save_dsoc([T EXCEPT !.dsoc = Full]) ELSE T

init_dsoc_algorithm(S) ==
  LET T == [S EXCEPT !.dsoc = IF @ >= Full THEN Full ELSE IF @ <= 0 THEN 0 ELSE @,
                     !.voltage_avg = S.hw.vol, !.current_avg = S.hw.cur]
  IN IF ChargeStatus(T) = "FINISH" THEN ToFinish(T) ELSE ToSmooth(T)

\* kzalloc and the statics of a module that was just loaded.
Fresh(S) ==
  [S EXCEPT !.dsoc = 0, !.rsoc = 0, !.remain_cap = 0, !.fcc = 0, !.nac = 0, !.sm_linek = 0,
            !.sm_remain_cap = 0, !.smooth_soc = 0, !.zero_dsoc = 0, !.zero_linek = 0,
            !.zero_remain_cap = 0, !.zero_drop_sec = 0, !.zero_timeout_cnt = 0,
            !.zero_batocv_to_cap = 0, !.shtd_drop_sec = 0, !.work_mode = "ZERO", !.s2r = FALSE,
            !.finish_base = 0, !.current_avg = 0, !.voltage_avg = 0, !.voltage_relax = 0,
            !.is_charging = FALSE, !.change = FALSE, !.old_soc = -1, !.last_dsoc = 0,
            !.low_time = 0, !.fake_offline = FALSE, !.sleep_chrg_online = FALSE,
            !.sleep_dischrg_sec = 0, !.rtc_base = 0, !.last_soc = -1, !.old_cap = 0,
            !.writes = <<>>,
            !.plugin_trigger = FALSE, !.qmax = AdcToMah(CapacityToAdc(DesignQmax)), !.now = 1]

Registers ==
  [q |-> 0, hw |-> CHOOSE r \in day.readings : TRUE, socReg |-> 0, capReg |-> 0, fccReg |-> 0,
   con |-> FALSE, fg |-> FALSE, offMin |-> 0, rtc |-> 1, kept |-> 0, was |-> 0,
   slept |-> 0]
Driver ==
  {"dsoc", "rsoc", "remain_cap", "fcc", "nac", "sm_linek", "sm_remain_cap", "smooth_soc",
   "zero_dsoc", "zero_linek", "zero_remain_cap", "zero_drop_sec", "zero_timeout_cnt",
   "zero_batocv_to_cap", "shtd_drop_sec", "work_mode", "s2r", "finish_base", "current_avg",
   "voltage_avg", "voltage_relax", "is_charging", "change", "old_soc", "last_dsoc", "low_time",
   "fake_offline", "sleep_chrg_online", "sleep_dischrg_sec", "rtc_base", "last_soc", "old_cap",
   "plugin_trigger", "qmax", "now", "writes"}

Init ==
  /\ day \in Days
  /\ \E r \in day.boots :
       bat = Fresh([f \in Driver \cup DOMAIN Registers |->
                      IF f \in DOMAIN r THEN r[f]
                      ELSE IF f \in Driver THEN 0 ELSE Registers[f]])
  /\ pm = "off" /\ run = "no" /\ delayWork = FALSE /\ resumeWork = FALSE /\ steps = 0

Step == steps < day.steps /\ steps' = steps + 1 /\ UNCHANGED day
Goes == UNCHANGED <<day, steps>>
Written == bat.writes = <<>>
Idle == run = "no" /\ Written

\* One write. Two ghosts: kept, the charge that was last saved with all its
\* bytes, and was, the charge shown before what runs now.
WriteRegister ==
  LET w == Head(bat.writes)
      rest == Tail(bat.writes)
      done == w.reg = "socReg" /\ \A i \in 1 .. Len(rest) : rest[i].reg # "socReg"
  IN
  /\ Goes /\ bat.writes # <<>>
  /\ bat' = [[bat EXCEPT ![w.reg] = w.value] EXCEPT !.writes = rest, !.kept = IF done THEN w.value ELSE @]
  /\ UNCHANGED <<pm, run, delayWork, resumeWork>>

\* rk817_battery_probe: the charge to start from, and the rest when it is
\* saved; the interrupts of the RK809 come with it.
Probe(r) ==
  /\ Step /\ pm = "off"
  /\ bat' = rsoc_init([Fresh(Read(bat, r)) EXCEPT !.kept = bat.socReg, !.was = bat.socReg])
  /\ pm' = "on" /\ run' = "probe"
  /\ UNCHANGED <<delayWork, resumeWork>>
ProbeEnds ==
  /\ Goes /\ run = "probe" /\ Written
  /\ bat' = [update_info(save_dsoc(init_dsoc_algorithm(init_coulomb_cap(bat, bat.nac))))
               EXCEPT !.plugin_trigger = day.rk809 /\ bat.hw.usb, !.was = bat.dsoc]
  /\ run' = "no" /\ delayWork' = TRUE
  /\ UNCHANGED <<pm, resumeWork>>

\* rk817_battery_work: the new charge, which a reader finds from here on; the
\* report, and what is to be saved.
BatteryWork(r, again, d, sec) ==
  /\ Step /\ pm = "on" /\ Idle /\ delayWork
  /\ bat' = Work([Read(bat, r) EXCEPT !.q = @ + d, !.now = @ + sec, !.rtc = @ + sec,
                                     !.was = bat.dsoc], again)
  /\ run' = "report"
  /\ UNCHANGED <<pm, delayWork, resumeWork>>
Report ==
  /\ Goes /\ run = "report" /\ Written
  /\ bat' = save_data(bat_power_supply_changed(bat))
  /\ run' = "no"
  /\ UNCHANGED <<pm, delayWork, resumeWork>>

\* rk809_plug_in_isr, rk809_plug_out_isr.
Plug(in) ==
  /\ Step /\ day.rk809 /\ pm = "on" /\ run # "probe"
  /\ bat' = [bat EXCEPT !.plugin_trigger = in]
  /\ UNCHANGED <<pm, run, delayWork, resumeWork>>

\* The registers keep their values; what was in memory is gone.
PowerOff(min, fg) ==
  /\ Step /\ pm # "off"
  /\ bat' = [bat EXCEPT !.offMin = min, !.fg = fg, !.writes = <<>>]
  /\ pm' = "off" /\ run' = "no" /\ delayWork' = FALSE /\ resumeWork' = FALSE

(***************************************************************************)
(* Sleep                                                                   *)
(***************************************************************************)
\* rk817_bat_pm_suspend. The queues are frozen: resume_work may be pending.
Suspend(r) ==
  LET S == Read(bat, r)
      st == ChargeStatus(S)
      A == [S EXCEPT !.s2r = FALSE, !.current_avg = r.cur, !.remain_cap = AdcToUah(S.q),
                     !.sleep_chrg_online = r.cur > 0 \/ st \in {"CC_OR_CV", "FINISH"},
                     !.rsoc = get_rsoc(S), !.rtc_base = S.rtc]
      B == save_data(A)
      C == IF st = "FINISH" THEN B ELSE [B EXCEPT !.finish_base = B.now]
  IN
  /\ Step /\ pm = "on" /\ Idle
  /\ bat' = IF C.work_mode = "ZERO" /\ C.current_avg >= 0
            THEN IF st = "FINISH" THEN [C EXCEPT !.work_mode = "FINISH", !.finish_base = C.now]
                 ELSE ToSmooth(C)
            ELSE C
  /\ pm' = "sleep" /\ delayWork' = FALSE
  /\ UNCHANGED <<run, resumeWork>>

\* The machine sleeps; rk817_bat_pm_resume queues the work. slept is a ghost,
\* the seconds that it has to add up.
Resume(sec, d) ==
  /\ Step /\ pm = "sleep" /\ Written
  /\ bat' = [bat EXCEPT !.now = @ + sec, !.rtc = @ + sec, !.q = @ + d,
                        !.slept = IF bat.sleep_chrg_online THEN @ ELSE @ + sec]
  /\ pm' = "on" /\ resumeWork' = TRUE
  /\ UNCHANGED <<run, delayWork>>

init_capacity(S, cap) ==
  IF cap = S.remain_cap THEN S
  ELSE zero_algo_prepare(smooth_algo_prepare(init_coulomb_cap(S, cap)))

\* The percents a sleep cost, and where they take dsoc.
sleep_soc(S) ==
  IF S.dsoc <= S.rsoc
  THEN (((6 * S.sleep_dischrg_sec) \div 3600) * 100) \div DIV(S.fcc)
  ELSE ((40 * S.sleep_dischrg_sec) \div 3600) \div DIV(S.fcc \div 100)
sleep_dsoc(S, soc) ==
  LET tgt == S.dsoc - soc * 1000
      gap == S.dsoc - S.rsoc
  IN IF S.dsoc <= S.rsoc
     THEN IF soc = 0 THEN S.dsoc
          ELSE IF Percent(S.dsoc) < 5 THEN S.dsoc - 1000
          ELSE IF Percent(tgt) < 5 THEN IF Percent(S.dsoc) = 5 THEN S.dsoc - 1000 ELSE 5000
          ELSE IF Percent(tgt) > 5 THEN tgt ELSE S.dsoc
     ELSE IF Percent(gap) > soc
          THEN IF gap - 5000 > soc * 2000 THEN S.dsoc - soc * 2000 ELSE tgt
          ELSE S.rsoc

\* The charge after a sleep, and what the sleep cost.
sleep_dischrg(S) ==
  LET calib == S.voltage_relax >= S.voltage_avg
      Relaxed == IF calib
                 THEN [init_capacity(S, VolToCap(S, S.voltage_relax)) EXCEPT !.hw.relax = 0] ELSE S
      Down(X, soc) == [X EXCEPT !.dsoc = IF X.voltage_avg <= PwroffVol - 70 THEN 0
                                         ELSE sleep_dsoc(X, soc)]
      Less(X, soc) == IF calib /\ soc # 0 /\ X.rsoc - X.dsoc < 5000 /\ X.dsoc < 40000
                      THEN [X EXCEPT !.dsoc = @ - 1000] ELSE X
      Kept(X, soc) == [S |-> [X EXCEPT !.dsoc = IF @ < 0 THEN 0 ELSE @], soc |-> soc]
      Cost(X, soc) == Kept(Less(Down(X, soc), soc), soc)
      Result(X) == Cost(X, sleep_soc(X))
  IN Result(Relaxed)

\* Mutant: the monitor is not queued again.
QueueMonitor_Missing == UNCHANGED delayWork

\* The last call of rk817_bat_resume_work.
QueueMonitor == delayWork' = TRUE

\* rk817_bat_resume_work, with the queueing of the other work.
ResumeWork(r) ==
  LET S == Read(bat, r)
      slept == IF S.rtc > S.rtc_base THEN S.rtc - S.rtc_base ELSE 0
      A == [S EXCEPT !.s2r = TRUE, !.current_avg = r.cur, !.voltage_relax = r.relax,
                     !.voltage_avg = r.vol, !.remain_cap = AdcToUah(S.q), !.rsoc = get_rsoc(S),
                     !.sleep_dischrg_sec = IF S.sleep_chrg_online THEN @ ELSE @ + slept]
      limit == IF A.voltage_avg <= PwroffVol + 50 THEN 600 ELSE 3600
      due == ~ A.sleep_chrg_online /\ A.sleep_dischrg_sec > limit
      Counted(D) == IF D.soc # 0 THEN [D.S EXCEPT !.sleep_dischrg_sec = 0] ELSE D.S
  IN
  /\ Step /\ pm = "on" /\ Idle /\ resumeWork
  /\ bat' = [save_data(IF due THEN Counted(sleep_dischrg(A)) ELSE A) EXCEPT !.slept = 0, !.was = bat.dsoc]
  /\ resumeWork' = FALSE /\ QueueMonitor
  /\ UNCHANGED <<pm, run>>

Next ==
  \/ \E r \in day.readings : Probe(r) \/ Suspend(r) \/ ResumeWork(r)
  \/ \E r \in day.readings, d \in day.charges, sec \in day.delays :
       \E again \in day.glitch \cup {r} : BatteryWork(r, again, d, sec)
  \/ WriteRegister \/ ProbeEnds \/ Report
  \/ \E in \in BOOLEAN : Plug(in)
  \/ \E min \in day.off, fg \in BOOLEAN : PowerOff(min, fg)
  \/ \E sec \in day.sleeps, d \in day.charges : Resume(sec, d)

Spec == Init /\ [][Next]_vars

(***************************************************************************)
(* Properties                                                              *)
(***************************************************************************)
Off == pm = "off"

\* Every field has its type; outside of a work, what is shown is a percentage,
\* whatever the counter and the voltage said.
TypeOK ==
  /\ pm \in {"off", "on", "sleep"} /\ run \in {"no", "probe", "report"}
  /\ {delayWork, resumeWork} \subseteq BOOLEAN
  /\ bat.work_mode \in {"ZERO", "FINISH", "SMOOTH"}
  /\ bat.capReg \in 0 .. 256 * 256 * 256 /\ bat.remain_cap \in 0 .. (DesignQmax + 1) * 1000
  /\ ~ Off /\ run = "no" => bat.dsoc \in 0 .. Full /\ Capacity(bat) \in 0 .. 100

\* The monitor goes on: awake, the work is queued or the resume work, which
\* queues it, is; asleep, it is not queued.
MonitorPending ==
  /\ pm = "on" /\ run # "probe" => delayWork \/ resumeWork
  /\ pm = "sleep" => ~ delayWork

\* A loss of power at any point of a start, a work, a suspend or a resume
\* leaves a charge that was shown: the one of now, or the one shown until what
\* runs now changed it. Left out are a save of the charge that was cut between
\* its bytes, a start that is decided by the open circuit voltage (both: README,
\* Findings), and a counter that has moved by more than a tenth of the capacity
\* since it was saved, or whose save was cut, which the start believes instead.
Cut == bat.socReg # bat.kept
Moved == Abs(AdcToMah(bat.q) - bat.capReg) > get_fcc(bat) \div 10
ByVoltage == ~ bat.fg /\ bat.offMin > 0
Starts == Off /\ pm' = "on" /\ ~ bat.con
StartContinues ==
  [][Starts /\ steps > 0 /\ ~ Cut /\ ~ Moved /\ ~ ByVoltage => bat'.dsoc \in {bat.dsoc, bat.was}]_vars

\* What is shown is saved when nothing runs.
SavedIsShown == ~ Off /\ Idle => bat.socReg = bat.dsoc

\* A work that finds the battery discharging does not raise dsoc; a counter at
\* 100 percent, which the finish algorithm shows at once, is left out.
Discharging(S) == S.current_avg < 0 /\ S.hw.cur < 0 /\ ChargeStatus(S) = "OFF"
InWork == pm = "on" /\ run = "no" /\ run' = "report"
DischargeNeverRises ==
  [][InWork /\ Discharging(bat') /\ Percent(bat'.rsoc) < 100 => bat'.dsoc <= bat.dsoc]_vars

\* A work that finds the battery charging does not lower dsoc, in whatever
\* mode it was: the counter rises, and none of the algorithms may go against it
\* (below 5 percent the zero algorithm may set the counter itself).
Charging(S) == S.current_avg > 0 /\ S.hw.cur > 0
ChargeNeverFalls ==
  [][InWork /\ Charging(bat') /\ bat'.q > bat.q /\ bat.rsoc > 5000 => bat'.dsoc >= bat.dsoc]_vars

\* rk817_bat_zero_algorithm and its document: in the low range dsoc falls at a
\* controlled speed. One work takes at most one percent for each of its
\* reasons: smoothing or the zero algorithm, the voltage that will not last,
\* and low power with the charger in. Only an extremely low voltage takes the
\* rest.
ExtremelyLow(S) == S.hw.vol < PwroffVol + 50 - 70
DropBounded ==
  [][InWork /\ ~ (ExtremelyLow(bat') /\ bat'.dsoc = 0)
       => bat.dsoc - bat'.dsoc <= 2000 + (IF bat'.fake_offline THEN 1000 ELSE 0)]_vars

\* The document: an extremely low voltage takes the charge to 0 when it lasts
\* for more than WAIT_SHTD_DROP_SEC; so the reading before was low, too. This and
\* the next three do not hold: README, Findings.
ShutdownWaits ==
  [][InWork /\ bat'.dsoc = 0 /\ bat.dsoc > 3000 => ExtremelyLow(bat)]_vars

\* The document: "save the data and power_supply_changed()". The charge that a
\* start finds in the registers is the one that was last reported.
ReportSaved ==
  [][Starts /\ ~ Cut /\ ~ Moved /\ ~ ByVoltage /\ bat.old_soc # -1 => bat'.dsoc = bat.last_dsoc]_vars

\* The document: "at power-on the initial SOC is estimated by OCV": the charge
\* is then the one of the voltage, or the one that was shown.
VoltageTaken ==
  [][Starts /\ ~ Cut /\ ~ Moved /\ ByVoltage
       => bat'.dsoc = bat.kept \/ Capacity(bat') = VolToSoc(bat'.hw.ocv)]_vars

\* "only add up discharge sleep seconds": the resume work adds up all of them,
\* or has taken them off the charge.
SleepCounted ==
  [][resumeWork /\ ~ resumeWork' /\ pm' = "on"
       => bat'.sleep_dischrg_sec \in {0, bat.sleep_dischrg_sec + bat.slept}]_vars

\* The shown charge is a percentage, saved when nothing runs, and the work that
\* keeps it goes on over sleeps.
ChargeSaved == TypeOK /\ SavedIsShown /\ MonitorPending

\* The shown charge moves with the current and in bounded steps, whichever
\* algorithms hand it over to one another.
ShownFollows == DischargeNeverRises /\ ChargeNeverFalls /\ DropBounded
=============================================================================
