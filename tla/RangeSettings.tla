---------------------------- MODULE RangeSettings ----------------------------
(***************************************************************************)
(* The settings of a measurement that live twice, in registers of the      *)
(* sensor and in the device structure: limit checks, crosstalk, offset,    *)
(* gain and period; the two calibrations that program them; and the        *)
(* measurement, which reads all of them back.                              *)
(***************************************************************************)
EXTENDS TimingBudget, RangeData

CONSTANTS
    Limits,         \* limit values asked for, 16.16
    Rates,          \* crosstalk rates asked for, 16.16
    Gains,          \* linearity gains asked for, in thousandths
    Offsets,        \* offsets asked for, in micrometres
    Periods,        \* inter-measurement periods asked for, in ms
    Oscillator,     \* OSC_CALIBRATE_VAL of this sensor
    Targets,        \* raw measurements
    Averages,       \* what the 50 measurements of a calibration see
    Distances       \* distances of a calibration target, 16.16 mm

VARIABLES
    set,        \* the settings: registers, then the device structure
    saved       \* what the application got from GetDeviceParameters

settingsVars == <<timingVars, set, saved>>

Check == {"sigma", "final", "clip", "ignore", "msrc", "pre"}

ASSUME SettingsAssumption ==
    /\ Limits \cup Rates \cup Gains \cup Offsets \cup Periods \subseteq Int
    /\ Oscillator \in Nat \ {0}
    /\ Targets \subseteq [code: 0 .. 15, range: Uint16, signal: Uint16,
                          ambient: Uint16, spads: Uint16, ref: Uint16, stale: Uint8]
    /\ Averages \subseteq [n: 0 .. 50, range: Uint16, signal: Int,
                           spads: Uint8, end: Statuses]
    /\ Distances \subseteq Int

Twelve == 0 .. 4095         \* the offset register has 12 bits
Thousand == 0 .. 1000       \* a gain is a number of thousandths

(* final, pre (9.7), msrcOff and preOff, xtalk (3.13), offset (10.2 mm)    *)
(* and period are registers; the rest is Dev->Data.                        *)
SettingsTypeOK ==
    /\ {set.final, set.pre, set.xtalk} \subseteq Uint16
    /\ set.offset \in Twelve
    /\ \A k \in {"msrcOff", "preOff", "xtalkOn", "fraction"} : set[k] \in {0, 1}
    /\ set.on \in [Check -> {0, 1}] /\ set.gain \in Thousand
    /\ set.rangeStatus \in Uint8
    /\ set.range \in Uint16 /\ set.failed \subseteq Check

-----------------------------------------------------------------------------
(* VL53L0X_SetLimitCheckEnable.  Both MSRC_CONFIG_CONTROL checks switch    *)
(* off by a bit set to 1; the mask of the MSRC check is that of another    *)
(* bit, so its own bit is never cleared.                                   *)
WriteSwitch(c, k, e) ==
    CASE k = "final" ->
         Done(c, LAMBDA x : [x EXCEPT !.set.final =
                     IF e = 1 THEN To97(x.set.value[k]) ELSE 0])
      [] k = "msrc" ->
         Then(Transfers(c, 2), LAMBDA x :
             [x EXCEPT !.set.msrcOff = IF e = 0 THEN 1 ELSE @])
      [] k = "pre" ->
         Then(Transfers(c, 2), LAMBDA x : [x EXCEPT !.set.preOff = 1 - e])
      [] OTHER -> c

SwitchLimit(c, k, e) ==
    Then(WriteSwitch(c, k, e), LAMBDA x : [x EXCEPT !.set.on[k] = e])

SetLimit_NotWritten(c, k, v) == [c EXCEPT !.set.value[k] = v]

(* VL53L0X_SetLimitCheckValue: MSRC and pre-range share a register.        *)
WriteLimit(c, k, v) ==
    IF c.set.on[k] = 0 THEN c
    ELSE CASE k = "final" ->
              Done(c, LAMBDA x : [x EXCEPT !.set.final = To97(v)])
           [] k \in {"msrc", "pre"} ->
              Done(c, LAMBDA x : [x EXCEPT !.set.pre = To97(v)])
           [] OTHER -> c

SetLimit(c, k, v) ==
    Then(WriteLimit(c, k, v), LAMBDA x : [x EXCEPT !.set.value[k] = v])

(* VL53L0X_GetLimitCheckValue: a final range limit of 0 in the sensor is a *)
(* check that is off, any other replaces the value remembered.             *)
GetLimit(c, k) ==
    CASE k = "final" ->
         Done(c, LAMBDA x :
             IF x.set.final = 0 THEN [x EXCEPT !.set.on[k] = 0]
             ELSE [x EXCEPT !.set.on[k] = 1,
                            !.set.value[k] = From97(x.set.final)])
      [] k \in {"msrc", "pre"} -> Transfer(c)
      [] OTHER -> c

(* What GetLimitCheckValue returns after that.                             *)
LimitValue(s, k) == IF k \in {"msrc", "pre"} THEN From97(s.pre) ELSE s.value[k]

-----------------------------------------------------------------------------
(* The sensor compensates crosstalk itself, unless a gain is in use: then  *)
(* its register is 0 and the driver does it.                               *)
XTalkRegister(s, e) == IF e = 0 \/ s.gain # 1000 THEN 0 ELSE To313(s.xtalkRate)

SwitchXTalk(c, e) ==
    Done(c, LAMBDA x : [x EXCEPT !.set.xtalk = XTalkRegister(x.set, e),
                                 !.set.xtalkOn = e])

SetXTalkRate_AnyGain(c, r) ==
    LET d == IF c.set.xtalkOn = 0 THEN c
             ELSE Done(c, LAMBDA x : [x EXCEPT !.set.xtalk = To313(r)])
    IN  Then(d, LAMBDA x : [x EXCEPT !.set.xtalkRate = r])

WriteXTalk(c, r) ==
    IF c.set.xtalkOn = 0 THEN c
    ELSE Done(c, LAMBDA x : [x EXCEPT !.set.xtalk =
                     IF x.set.gain = 1000 THEN To313(r) ELSE 0])

SetXTalkRate(c, r) ==
    Then(WriteXTalk(c, r), LAMBDA x : [x EXCEPT !.set.xtalkRate = r])

(* A register of 0 switches the compensation off for the driver as well.   *)
GetXTalkRate(c) ==
    Done(c, LAMBDA x :
        IF x.set.xtalk = 0 THEN [x EXCEPT !.set.xtalkOn = 0]
        ELSE [x EXCEPT !.set.xtalkOn = 1, !.set.xtalkRate = From313(x.set.xtalk)])

SetGain(c, g) ==
    IF g \notin 0 .. 1000 THEN Invalid(c)
    ELSE LET d == [c EXCEPT !.set.gain = g]
         IN  IF g = 1000 THEN d
             ELSE Done(d, LAMBDA x : [x EXCEPT !.set.xtalk = 0])

-----------------------------------------------------------------------------
(* The 12 bit two's complement of quarter millimetres; C divides towards   *)
(* zero.                                                                   *)
EncodeOffset(um) ==
    IF um >= 511000 THEN 511000 \div 250
    ELSE IF um >= 0 THEN um \div 250
    ELSE 4096 - (IF um < -512000 THEN 512000 ELSE -um) \div 250

DecodeOffset_Unsigned(reg) == 250 * reg
DecodeOffset(reg) == 250 * (IF reg > 2047 THEN reg - 4096 ELSE reg)

SetOffset(c, um) ==
    Done(c, LAMBDA x : [x EXCEPT !.set.offset = EncodeOffset(um) % 4096])

SetPeriod(c, ms) ==
    Then(Transfers(c, 2), LAMBDA x :
        [x EXCEPT !.set.period = U32Mul(ms, IF Oscillator = 0 THEN 1 ELSE Oscillator),
                  !.set.millis = ms])

(* Without an oscillator value the result is whatever the caller's         *)
(* variable held: Oscillator > 0 here.                                     *)
GetPeriod(c) ==
    Then(Transfers(c, 2), LAMBDA x :
        [x EXCEPT !.set.millis = U32Div(x.set.period, Oscillator)])

SetFraction(c, e) == Done(c, LAMBDA x : [x EXCEPT !.set.fraction = e])

-----------------------------------------------------------------------------
(* The loop over the checks.                                               *)
ForEachCheck(c, Op(_, _)) ==
    Op(Op(Op(Op(Op(Op(c, "sigma"), "final"), "clip"), "ignore"), "msrc"), "pre")

(* It ends with the first error.                                           *)
NextLimit(c, k) == Then(c, LAMBDA x : GetLimit(x, k))
GetLimits(c) == ForEachCheck(c, NextLimit)

(* VL53L0X_GetDeviceParameters reads almost everything back, and with the  *)
(* registers overwrites what the driver remembered.                        *)
GetWrapAround(c) == Done(c, LAMBDA x : [x EXCEPT !.dev.steps = x.regs.steps])

GetDeviceParameters(c) ==
    LET d == Then(Then(GetPeriod(c), GetXTalkRate), Transfer)
    IN  Then(Then(Then(d, GetLimits), GetWrapAround), GetBudget)

(* The structure it fills.                                                 *)
Parameters(c) ==
    [millis |-> c.set.millis, rate |-> c.set.xtalkRate,
     offset |-> DecodeOffset(c.set.offset), on |-> c.set.on,
     value |-> [k \in Check |-> LimitValue(c.set, k)],
     wrap |-> "FINAL" \in c.dev.steps, budget |-> c.dev.budget]

PutLimit(c, k, p) ==
    Then(Then(c, LAMBDA x : SwitchLimit(x, k, p.on[k])),
         LAMBDA x : SetLimit(x, k, p.value[k]))
PutLimits(c, p) == ForEachCheck(c, LAMBDA x, k : PutLimit(x, k, p))

(* The crosstalk enable of the structure is not applied.                   *)
SetDeviceParameters(c, p) ==
    LET d == Then(Then(SetPeriod(c, p.millis),
                       LAMBDA x : SetXTalkRate(x, p.rate)),
                  LAMBDA x : SetOffset(x, p.offset))
        limits == Then(d, LAMBDA x : PutLimits(x, p))
    IN  Then(Then(limits, LAMBDA x : WrapAround(x, p.wrap)),
             LAMBDA x : SetBudget(x, p.budget))

-----------------------------------------------------------------------------
Timing(c) == [preMicros |-> c.dev.preMicros, finalMicros |-> c.dev.finalMicros,
              prePclks |-> 14, finalPclks |-> 10]

(* VL53L0X_GetRangingMeasurementData.  The dmax estimate of the sigma      *)
(* check reads every parameter back, and the clip check the reference      *)
(* signal.                                                                 *)
ReadBack(c) == IF c.set.on["sigma"] = 1 THEN GetDeviceParameters(c) ELSE c

ReadReference(c) ==
    Then(c, LAMBDA x : IF x.set.on["clip"] = 1 THEN Transfers(x, 3) ELSE x)

(* The reference signal, 0 when it did not arrive: it counts even when the *)
(* write that deselects its page is lost.                                  *)
Reference(back, m) == IF Transfers(back, 2).status = "none" THEN m.ref ELSE 0

(* The limit checks that are not skipped after a read-back and a reference *)
(* read that may have failed.                                              *)
Reached(back, ref) ==
    IF back.status # "none" THEN {}
    ELSE {"sigma", "clip"} \cup (IF ref.status = "none" THEN {"ignore"} ELSE {})

(* c after the result registers were read, back after ReadBack and ref     *)
(* after ReadReference.  An error among the limit checks is lost, and the  *)
(* range status is then what the stack held.                               *)
Fill(c, back, ref, m, stack) ==
    LET reached == Reached(back, ref)
        seen == [m EXCEPT !.ref = Reference(back, m)]
        flags == LimitFlags(seen, c.set, Timing(c), reached)
    IN  [ref EXCEPT
            !.status = "none",
            !.set = [ref.set EXCEPT
                !.range = Millimeters(m, c.set),
                !.sigma = IF c.set.on["sigma"] = 1
                          THEN SigmaEstimate(seen, c.set, Timing(c)) ELSE @,
                !.ref = IF c.set.on["clip"] = 1 /\ "clip" \in reached
                        THEN From97(seen.ref) ELSE @,
                !.rangeStatus = IF ref.status = "none"
                                THEN PalRangeStatus(seen, flags) ELSE stack,
                !.failed = LimitStatus(seen, ref.set, flags, reached)]]

ReadMeasurement(c, m, stack) ==
    LET Refer(x, back) == Fill(x, back, ReadReference(back), m, stack)
    IN  Then(Transfer(c), LAMBDA x : Refer(x, ReadBack(x)))

-----------------------------------------------------------------------------
(* The 50 measurements of a calibration: n of them valid, with the same    *)
(* range, signal (16.16) and SPADs; end is the error of the last one.      *)
(* Without a valid one the error is replaced.                              *)
Measure50(c, a) ==
    Fail(ReadBack(c), IF a.n = 0 THEN "range" ELSE a.end)

(* The sums of ranges and of SPADs are 16 bits wide.                       *)
MeanOf(x, n) == U32Div(U32Mul(U16(x * n), 65536), n)

CrossTalkOf(a, distance) ==
    LET spads == Rounded16(MeanOf(a.spads, a.n))
        range == MeanOf(a.range, a.n)
        away == Rounded16(distance)
        share == U32Sub(65536, U32Div(range, away))
    IN  IF spads = 0 \/ away = 0 \/ ~U32Less(range, distance) THEN 0
        ELSE Rounded16(U32Mul(U32Div(a.signal, spads), share))

CalibrateXTalk(c, distance, a) ==
    LET d == Then(SwitchXTalk(c, 0), LAMBDA x : SwitchLimit(x, "ignore", 0))
        e == Then(d, LAMBDA x : Measure50(x, a))
        f == Then(e, LAMBDA x : SwitchXTalk(x, 1))
    IN  IF distance = 0 THEN Invalid(c)
        ELSE Then(f, LAMBDA x : SetXTalkRate(x, CrossTalkOf(a, distance)))

OffsetOf(a, distance) ==
    1000 * (Rounded16(distance) - Rounded16(MeanOf(a.range, a.n)))

InstallOffset(c, um) == SetOffset([c EXCEPT !.set.micro = um], um)

RestoreTcc_Dropped(c, on) == c
RestoreTcc(c, on) == IF on THEN EnableStep(c, "TCC", TRUE) ELSE c

(* The target centre check is off while the calibration measures, and      *)
(* comes back only at its successful end.                                  *)
Uncorrected(c) ==
    LET d == Then(SetOffset(c, 0), Transfer)
    IN  Then(Then(d, LAMBDA x : EnableStep(x, "TCC", FALSE)),
             LAMBDA x : SwitchLimit(x, "ignore", 0))

CalibrateOffset(c, distance, a) ==
    LET f == Then(Then(Uncorrected(c), LAMBDA x : Measure50(x, a)),
                  LAMBDA x : InstallOffset(x, OffsetOf(a, distance)))
    IN  IF distance = 0 THEN Invalid(c)
        ELSE Then(f, LAMBDA x : RestoreTcc(x, "TCC" \in c.regs.steps))

-----------------------------------------------------------------------------
WithSettings(c, s) ==
    [regs |-> c.regs, dev |-> c.dev, set |-> s, fuse |-> c.fuse,
     garbage |-> c.garbage, cal |-> c.cal, status |-> c.status,
     seen |-> c.seen, micros |-> c.micros, left |-> c.left]

Call(f) == WithSettings(Begin(f, {}, "ok"), set)

SettingsReturn(op, f, c) ==
    /\ TimingReturn(op, f, c)
    /\ set' = c.set
    /\ saved' = IF op = "GetParameters" /\ c.status = "none" THEN Parameters(c) ELSE saved

SetLimitCheckEnable ==
    \E k \in Check, e \in {0, 1}, f \in {-1, 0, 1} :
        SettingsReturn("LimitEnable", f, SwitchLimit(Call(f), k, e))

SetLimitCheckValue ==
    \E k \in Check, v \in Limits, f \in {-1, 0} :
        SettingsReturn("LimitValue", f, SetLimit(Call(f), k, v))

GetLimitCheckValue ==
    \E k \in Check, f \in {-1, 0} : SettingsReturn("GetLimit", f, GetLimit(Call(f), k))

SetXTalkCompensationEnable ==
    \E e \in {0, 1}, f \in {-1, 0} :
        SettingsReturn("XTalkEnable", f, SwitchXTalk(Call(f), e))

SetXTalkCompensationRateMegaCps ==
    \E r \in Rates, f \in {-1, 0} :
        SettingsReturn("XTalkRate", f, SetXTalkRate(Call(f), r))

GetXTalkCompensationRateMegaCps ==
    \E f \in {-1, 0} : SettingsReturn("GetXTalk", f, GetXTalkRate(Call(f)))

SetLinearityCorrectiveGain ==
    \E g \in Gains, f \in {-1, 0} : SettingsReturn("Gain", f, SetGain(Call(f), g))

SetOffsetCalibrationDataMicroMeter ==
    \E um \in Offsets, f \in {-1, 0} : SettingsReturn("Offset", f, SetOffset(Call(f), um))

SetInterMeasurementPeriodMilliSeconds ==
    \E ms \in Periods, f \in {-1, 1} : SettingsReturn("Period", f, SetPeriod(Call(f), ms))

SetRangeFractionEnable ==
    \E e \in {0, 1} : SettingsReturn("Fraction", -1, SetFraction(Call(-1), e))

GetParameters ==
    \E f \in Faults : SettingsReturn("GetParameters", f, GetDeviceParameters(Call(f)))

SetParameters ==
    \E f \in Faults : SettingsReturn("SetParameters", f, SetDeviceParameters(Call(f), saved))

GetRangingMeasurementData ==
    \E m \in Targets, f \in Faults, stack \in {0, 255} :
        SettingsReturn("Measure", f, ReadMeasurement(Call(f), m, stack))

PerformXTalkCalibration ==
    \E a \in Averages, distance \in Distances, f \in Faults :
        SettingsReturn("XTalkCal", f, CalibrateXTalk(Call(f), distance, a))

PerformOffsetCalibration ==
    \E a \in Averages, distance \in Distances, f \in Faults :
        SettingsReturn("OffsetCal", f, CalibrateOffset(Call(f), distance, a))

(* The defaults of VL53L0X_DataInit, on a sensor whose limits and          *)
(* crosstalk are still those of its reset; then ranger.cpp's limits.       *)
Reset ==
    [final |-> 32, pre |-> 0, msrcOff |-> 0, preOff |-> 0, xtalk |-> 0,
     offset |-> 0, period |-> 0, on |-> [k \in Check |-> 0],
     value |-> [k \in Check |-> 0], xtalkOn |-> 0, xtalkRate |-> 0,
     gain |-> 1000, micro |-> 0, fraction |-> 0, millis |-> 0, range |-> 0,
     sigma |-> 0, ref |-> 0, rangeStatus |-> 255, failed |-> {}]

Defaults(c) ==
    LET on == ForEachCheck(c, LAMBDA x, k : SwitchLimit(x, k, 1))
        Off(x, k) == SwitchLimit(x, k, 0)
        off == Off(Off(Off(Off(on, "clip"), "ignore"), "msrc"), "pre")
        data == SetLimit(SetLimit(SetLimit(SetLimit(off, "sigma", 18 * 65536),
                    "final", 16384), "clip", 35 * 65536), "ignore", 0)
    IN  SetLimit(data, "final", 32768)

(* Or an application that compensates crosstalk and checks the target      *)
(* centre.                                                                 *)
Compensating(c, rate) ==
    SwitchXTalk(SetXTalkRate(EnableStep(c, "TCC", TRUE), rate), 1)

Begun(c) == regs = c.regs /\ dev = c.dev /\ set = c.set

SettingsInit ==
    /\ LET c == Defaults(WithSettings(Overwrite(Started), Reset))
       IN  Begun(c) \/ \E rate \in Rates : Begun(Compensating(c, rate))
    /\ CallInit
    /\ saved = Parameters(GetDeviceParameters(Call(-1)))

SettingsNext ==
    \/ SetLimitCheckEnable \/ SetLimitCheckValue \/ GetLimitCheckValue
    \/ SetXTalkCompensationEnable \/ SetXTalkCompensationRateMegaCps
    \/ GetXTalkCompensationRateMegaCps \/ SetLinearityCorrectiveGain
    \/ SetOffsetCalibrationDataMicroMeter
    \/ SetInterMeasurementPeriodMilliSeconds \/ SetRangeFractionEnable
    \/ GetParameters \/ SetParameters \/ GetRangingMeasurementData
    \/ PerformXTalkCalibration \/ PerformOffsetCalibration

SettingsSpec == SettingsInit /\ [][SettingsNext]_settingsVars

-----------------------------------------------------------------------------
(* The checks the driver believes to be on are those the sensor makes,     *)
(* with the value it remembers: whatever is lost, and after a measurement  *)
(* that rewrote both flag and value.  The MSRC check is left out: switched *)
(* off once, it never comes back on.                                       *)
LimitChecksAgree ==
    /\ set.final = IF set.on["final"] = 1 THEN To97(set.value["final"]) ELSE 0
    /\ set.preOff = 1 - set.on["pre"]

(* Crosstalk is never subtracted twice, by the sensor and by the driver,   *)
(* and the sensor subtracts the rate the driver shows.                     *)
CompensatedOnce ==
    set.xtalk # 0 => set.gain = 1000 /\ set.xtalkOn = 1
                        /\ set.xtalk = To313(set.xtalkRate)

NeverCompensatedTwice == [][CleanCall /\ CompensatedOnce => CompensatedOnce']_settingsVars

AllRegisters(c) == <<c.regs, c.set.final, c.set.pre, c.set.preOff, c.set.msrcOff,
                     c.set.xtalk, c.set.offset, c.set.period>>

SameSettings(c) ==
    /\ c.status = "none"
    /\ AllRegisters(c) = AllRegisters(Call(-1))

WrittenBack(c) == SetDeviceParameters(c, Parameters(c))

(* Parameters that are read and written back leave every register as it    *)
(* was: where the sequence has room for its budget, for offsets that can   *)
(* be asked for, and periods that did not wrap.                            *)
GetSetRoundTrip ==
    /\ HasRoom /\ IsBounded /\ "FINAL" \in regs.steps
    /\ CompensatedOnce
    /\ set.offset \notin 2045 .. 2047
    /\ set.period = U32Mul(set.millis, Oscillator)
    /\ set.millis = U32Div(set.period, Oscillator)
    => SameSettings(Then(GetDeviceParameters(Call(-1)), WrittenBack))

(* A calibration that succeeds has installed what it measured and left the *)
(* sequence as it was; one that fails has not switched compensation on.    *)
CalibrationInstalled ==
    [][CleanCall =>
        /\ last'.op = "OffsetCal" /\ last'.status = "none" =>
              /\ regs'.steps = regs.steps
              /\ set'.offset = EncodeOffset(set'.micro)
        /\ last'.op = "XTalkCal" /\ last'.status = "none" =>
              /\ set'.xtalkOn = 1
              /\ set'.xtalk = XTalkRegister(set', 1)
        /\ last'.op = "XTalkCal" /\ last'.status = "range" => set'.xtalk = 0]_settingsVars

(* A range that is reported valid passed every check that is on, and one   *)
(* that failed for sigma or reference clip can be explained from what      *)
(* GetLimitCheckCurrent shows.                                             *)
StatusExplained ==
    last = [op |-> "Measure", status |-> "none", lost |-> FALSE] =>
        /\ set.rangeStatus = 0 => \A k \in set.failed : set.on[k] = 0
        /\ \A k \in {"sigma", "clip"} \cap set.failed :
              set.on[k] = 1 => U32Less(set.value[k], IF k = "sigma" THEN set.sigma ELSE set.ref)

(* What the estimate has 32 bits for: 65 Mcps of light; and where the      *)
(* driver corrects for crosstalk, less crosstalk than signal and a range   *)
(* that light covers both ways within the pulse of 4.7 ns.                 *)
FitsEstimate(m) ==
    /\ TotalSignalRate(m, set) <= 65 * 65536
    /\ set.xtalkOn = 1 => /\ TotalXTalkRate(m, set) < From97(m.signal)
                          /\ Millimeters(m, set) <= 712

EqualButForSignal(a, b) ==
    [a EXCEPT !.signal = 0, !.stale = 0, !.ref = 0, !.code = 0]
        = [b EXCEPT !.signal = 0, !.stale = 0, !.ref = 0, !.code = 0]

(* More light never makes a range less certain: not by the noise, not by   *)
(* its share of crosstalk and not by the range that is corrected for it;   *)
(* and without crosstalk the estimate does not depend on what the caller's *)
(* structure held before.                                                  *)
SigmaFollowsSignal ==
    last.op = "Measure" =>
        \A a, b \in {m \in Targets : FitsEstimate(m)} :
            /\ a # b /\ EqualButForSignal(a, b) /\ a.signal <= b.signal
            /\ set.xtalkOn = 1 => a.stale = b.stale
            => ~U32Less(SigmaEstimate(a, set, Timing(Call(-1))),
                        SigmaEstimate(b, set, Timing(Call(-1))))
=============================================================================
