----------------------------- MODULE TimingBudget -----------------------------
(***************************************************************************)
(* The timing of a ranging sequence: which steps run, their timeouts, the  *)
(* two laser periods, and the budget they must fit into.                   *)
(***************************************************************************)
EXTENDS StepTimeouts, ApiCall

CONSTANTS
    Budgets,        \* budgets asked for, in microseconds
    StepMicros,     \* step timeouts asked for, in microseconds
    Faults,         \* transfers of a call that may be lost, -1: none
    MaxCalls        \* bound on the calls of a behaviour

Step == {"TCC", "DSS", "MSRC", "PRE", "FINAL"}
ShortSteps == {"TCC", "DSS", "MSRC"}    \* these share one timeout register
PrePeriods == {12, 14, 16, 18}
FinalPeriods == {8, 10, 12, 14}

ASSUME InputAssumption ==
    /\ Budgets \subseteq Nat /\ StepMicros \subseteq Nat
    /\ Faults \subseteq Int /\ MaxCalls \in Nat

VARIABLES
    regs,       \* the timing registers of the sensor
    dev         \* what the device structure remembers of them

timingVars == <<regs, dev, last, calls>>

Registers == [steps: SUBSET Step, msrc: Uint8, pre: Uint16, final: Uint16,
              prePeriod: Uint8, finalPeriod: Uint8,
              preLimits: PrePeriods, finalLimits: FinalPeriods]

(* regs.steps is SYSTEM_SEQUENCE_CONFIG; preLimits and finalLimits are the *)
(* period the phase check registers were written for.                      *)
TimingTypeOK ==
    /\ regs \in Registers
    /\ dev \in [steps: SUBSET Step, budget: Int, preMicros: Int,
                finalMicros: Int]
    /\ CallTypeOK

-----------------------------------------------------------------------------
(* VL53L0X_GetSequenceStepEnables; c.seen is the caller's structure, which *)
(* keeps what the stack held when the read fails.                          *)
GetSequenceStepEnables(c) ==
    LET d == Transfer(c)
    IN  [d EXCEPT !.seen = IF d.status = "none" THEN c.regs.steps ELSE c.garbage]

-----------------------------------------------------------------------------
(* get_sequence_step_timeout: c.micros is *pTimeOutMicroSecs.              *)
GetShortTimeout(c) ==
    LET d == Transfers(c, 2)
    IN  [d EXCEPT !.micros = CalcTimeoutUs(c.regs.msrc + 1,
                                           DecodeVcselPeriod(c.regs.prePeriod))]

(* A period that cannot be read leaves 0, a timeout that cannot be read    *)
(* leaves the timeout of register value 0.                                 *)
GetPreTimeout(c) ==
    LET d == Transfer(c)
        e == Then(d, Transfer)
        f == Then(e, Transfer)
        period == DecodeVcselPeriod(c.regs.prePeriod)
    IN  [f EXCEPT !.micros =
            IF d.status # "none" THEN 0
            ELSE CalcTimeoutUs(
                    U16(DecodeTimeout(IF f.status = "none" THEN c.regs.pre ELSE 0)),
                    period)]

(* The pre-range time is part of the final range register only when the    *)
(* pre-range step runs.                                                    *)
PreMclks(c) == IF "PRE" \in c.seen THEN U16(DecodeTimeout(c.regs.pre)) ELSE 0

GetFinalTimeout(c) ==
    LET d == GetSequenceStepEnables(c)
        e == IF "PRE" \in d.seen THEN Transfers(d, 2)
             ELSE [d EXCEPT !.status = "none"]
        f == Then(e, LAMBDA x : Transfers(x, 2))
    IN  [f EXCEPT !.micros =
            CalcTimeoutUs(U16(U16(DecodeTimeout(c.regs.final)) - PreMclks(d)),
                          DecodeVcselPeriod(c.regs.finalPeriod))]

GetStepTimeout(c, step) ==
    CASE step \in ShortSteps -> GetShortTimeout(c)
      [] step = "PRE" -> GetPreTimeout(c)
      [] step = "FINAL" -> GetFinalTimeout(c)

-----------------------------------------------------------------------------
(* set_sequence_step_timeout.                                              *)
SetShortTimeout(c, us) ==
    Then(Transfers(c, 2), LAMBDA d :
        [d EXCEPT !.regs.msrc =
            EncodeMsrcTimeout(CalcTimeoutMclks(us,
                                  DecodeVcselPeriod(c.regs.prePeriod)))])

SetPreTimeout(c, us) ==
    Then(Transfers(c, 2), LAMBDA d :
        [d EXCEPT !.regs.pre =
                      EncodeTimeout(U16(CalcTimeoutMclks(us,
                                  DecodeVcselPeriod(c.regs.prePeriod)))),
                  !.dev.preMicros = us])

SetFinalTimeout_NotCached(c, us) ==
    LET d == GetSequenceStepEnables(c)
    IN  Then(Transfers(d, 4), LAMBDA x :
            [x EXCEPT !.regs.final =
                          EncodeTimeout(PreMclks(d) +
                              CalcTimeoutMclks(us,
                                  DecodeVcselPeriod(c.regs.finalPeriod)))])

SetFinalTimeout(c, us) ==
    LET d == GetSequenceStepEnables(c)
        e == IF "PRE" \in d.seen THEN Transfers(d, 2)
             ELSE [d EXCEPT !.status = "none"]
    IN  Then(Then(e, LAMBDA x : Transfers(x, 2)), LAMBDA x :
            [x EXCEPT !.regs.final =
                          EncodeTimeout(PreMclks(d) +
                              CalcTimeoutMclks(us,
                                  DecodeVcselPeriod(c.regs.finalPeriod))),
                      !.dev.finalMicros = us])

SetStepTimeout(c, step, us) ==
    CASE step \in ShortSteps -> SetShortTimeout(c, us)
      [] step = "PRE" -> SetPreTimeout(c, us)
      [] step = "FINAL" -> SetFinalTimeout(c, us)

-----------------------------------------------------------------------------
StartEndOverhead == 1910 + 960
Overhead == [TCC |-> 590, DSS |-> 690, MSRC |-> 660, PRE |-> 660, FINAL |-> 550]

(* What is left of the budget after a step, or INVALID_PARAMS.             *)
Take(c, us) == IF U32Less(us, c.left) THEN [c EXCEPT !.left = @ - us]
               ELSE Invalid(c)

(* TCC, then DSS twice or else MSRC, with the timeout they share.          *)
TakeShortSteps(c) ==
    LET d == GetShortTimeout(c)
        e == IF "TCC" \in c.seen
             THEN Then(d, LAMBDA x : Take(x, x.micros + Overhead["TCC"]))
             ELSE d
    IN  Then(e, LAMBDA x :
            IF "DSS" \in c.seen THEN Take(x, 2 * (x.micros + Overhead["DSS"]))
            ELSE IF "MSRC" \in c.seen THEN Take(x, x.micros + Overhead["MSRC"])
            ELSE x)

(* A pre-range timeout that could not be read is still compared, and its   *)
(* error may be overwritten with INVALID_PARAMS.                           *)
TakePreRange(c) ==
    LET TakeIts(d) == Take(d, d.micros + Overhead["PRE"])
    IN  IF "PRE" \notin c.seen THEN c ELSE TakeIts(GetPreTimeout(c))

GiveRestToFinalRange_NoOverhead(c, us) ==
    IF "FINAL" \notin c.seen THEN c
    ELSE [SetFinalTimeout(c, c.left) EXCEPT !.dev.budget = us]

(* The overhead of the final range is subtracted without looking at what   *)
(* is left.                                                                *)
GiveRestToFinalRange(c, us) ==
    IF "FINAL" \notin c.seen THEN c
    ELSE [SetFinalTimeout(c, c.left - Overhead["FINAL"]) EXCEPT !.dev.budget = us]

SetBudget(c, us) ==
    LET d == GetSequenceStepEnables([c EXCEPT !.left = us - StartEndOverhead])
        e == Then(d, LAMBDA x :
                IF x.seen \cap ShortSteps # {} THEN TakeShortSteps(x) ELSE x)
    IN  Then(Then(e, TakePreRange), LAMBDA x : GiveRestToFinalRange(x, us))

GetBudget_DssOnce(c) ==
    LET d == GetSequenceStepEnables(c)
        s == GetShortTimeout(d).micros
    IN  [d EXCEPT !.dev.budget = StartEndOverhead + s + Overhead["DSS"]
             + GetPreTimeout(d).micros + Overhead["PRE"]
             + GetFinalTimeout(d).micros + Overhead["FINAL"]]

Add(c, us) == [c EXCEPT !.left = @ + us]

(* The time of the short steps, by the timeout they share.                 *)
ShortTime(c, us) ==
    (IF "TCC" \in c.seen THEN us + Overhead["TCC"] ELSE 0)
        + (IF "DSS" \in c.seen THEN 2 * (us + Overhead["DSS"])
           ELSE IF "MSRC" \in c.seen THEN us + Overhead["MSRC"] ELSE 0)

AddShortSteps(c) ==
    IF c.seen \cap ShortSteps = {} THEN c
    ELSE Then(GetShortTimeout(c), LAMBDA x : Add(x, ShortTime(c, x.micros)))

AddPreRange(c) ==
    LET AddIts(d) == Add(d, d.micros + Overhead["PRE"])
    IN  IF "PRE" \notin c.seen THEN c ELSE AddIts(GetPreTimeout(c))

AddFinalRange(c) ==
    LET AddIts(d) == Add(d, d.micros + Overhead["FINAL"])
    IN  IF "FINAL" \notin c.seen THEN c ELSE AddIts(GetFinalTimeout(c))

(* The other way round: the budget is read back from the timeouts and      *)
(* stored.                                                                 *)
GetBudget(c) ==
    LET d == GetSequenceStepEnables(c)
        e == Then([d EXCEPT !.left = StartEndOverhead], AddShortSteps)
        f == Then(Then(e, AddPreRange), AddFinalRange)
    IN  Then(f, LAMBDA x : [x EXCEPT !.dev.budget = x.left])

-----------------------------------------------------------------------------
(* A call as it begins: f is the transfer that fails (-1: none), g what is *)
(* on the stack where the sequence steps are read to, k how the phase      *)
(* calibration goes.                                                       *)
Begin(f, g, k) ==
    [regs |-> regs, dev |-> dev, fuse |-> f, garbage |-> g, cal |-> k,
     status |-> "none", seen |-> g, micros |-> 0, left |-> 0]

TimingReturn(op, f, c) ==
    /\ calls < MaxCalls
    /\ regs' = c.regs /\ dev' = c.dev
    /\ Ended(op, c, Lost(f, c) \/ c.cal # "ok")

Garbage == {{}, {"PRE"}}

SetMeasurementTimingBudgetMicroSeconds ==
    \E us \in Budgets, f \in Faults, g \in Garbage :
        TimingReturn("SetBudget", f, SetBudget(Begin(f, g, "ok"), us))

GetMeasurementTimingBudgetMicroSeconds ==
    \E f \in Faults, g \in Garbage :
        TimingReturn("GetBudget", f, GetBudget(Begin(f, g, "ok")))

(* The status of the budget is ignored: only this call knows that the      *)
(* steps no longer fit.                                                    *)
EnableStep(c, step, on) ==
    LET wanted == IF on THEN c.regs.steps \cup {step} ELSE c.regs.steps \ {step}
        Write(x) == Then(Transfer(x), LAMBDA y :
                        [y EXCEPT !.regs.steps = wanted, !.dev.steps = wanted])
        Recalculate(x) == [SetBudget(x, x.dev.budget) EXCEPT !.status = "none"]
    IN  Then(Transfer(c), LAMBDA x :
            IF wanted = x.regs.steps THEN x ELSE Then(Write(x), Recalculate))

SetSequenceStepEnable ==
    \E step \in Step, on \in BOOLEAN, f \in Faults, g \in Garbage :
        TimingReturn("SetStepEnable", f, EnableStep(Begin(f, g, "ok"), step, on))

(* The wrap-around check is the same register bit as the final range step; *)
(* the budget is not recalculated.  The status of the read is overwritten: *)
(* without it the other bits are what the stack held.                      *)
WrapAround(c, on) ==
    LET d == GetSequenceStepEnables(c)
        wanted == IF on THEN d.seen \cup {"FINAL"} ELSE d.seen \ {"FINAL"}
    IN  Done(Overwrite([d EXCEPT !.seen = c.seen]), LAMBDA x :
            [x EXCEPT !.regs.steps = wanted, !.dev.steps = wanted])

SetWrapAroundCheckEnable ==
    \E on \in BOOLEAN, f \in {-1, 0, 1}, g \in Garbage :
        TimingReturn("SetWrapAround", f, WrapAround(Begin(f, g, "ok"), on))

Apply(c) == SetBudget(c, c.dev.budget)

ChangeStepTimeout_Kept(c, step, us) ==
    Then(Then(GetStepTimeout(c, step), LAMBDA x : SetStepTimeout(x, step, us)), Apply)

OrTakeBack(c, step, us) ==
    IF c.status = "none" THEN c
    ELSE Then(SetStepTimeout(Overwrite(c), step, us), Apply)

Exchange(c, step, us) ==
    Then(SetStepTimeout(c, step, us), LAMBDA x : OrTakeBack(Apply(x), step, c.micros))

(* A timeout the budget has no room for is taken back, and the call        *)
(* returns what taking it back returned.                                   *)
ChangeStepTimeout(c, step, us) ==
    Then(GetStepTimeout(c, step), LAMBDA x : Exchange(x, step, us))

SetSequenceStepTimeout ==
    \E step \in Step, us \in StepMicros, f \in Faults, g \in Garbage :
        TimingReturn("SetStepTimeout", f,
               ChangeStepTimeout(Begin(f, g, "ok"), step, MillisecondsToMicros(us)))

(* The status of the first of n writes is overwritten by the second.       *)
WriteLimits(c, n, limits) ==
    IF c.fuse = 0 THEN [c EXCEPT !.fuse = -1]
    ELSE [Transfers(c, n) EXCEPT !.regs = limits]

(* Timeouts are read with the old period and written with the new one.     *)
ChangePrePeriod(c, p) ==
    LET d == WriteLimits(c, 2, [c.regs EXCEPT !.preLimits = p])
        pre == Then(d, GetPreTimeout)
        short == Then(pre, GetShortTimeout)
        period == Then(Then(short, Transfer), LAMBDA x :
                      [x EXCEPT !.regs.prePeriod = EncodeVcselPeriod(p)])
    IN  Then(Then(period, LAMBDA x : SetPreTimeout(x, pre.micros)),
             LAMBDA x : SetShortTimeout(x, short.micros))

ChangeFinalPeriod(c, p) ==
    LET d == WriteLimits(c, 7, [c.regs EXCEPT !.finalLimits = p])
        final == Then(d, GetFinalTimeout)
        period == Then(Then(final, Transfer), LAMBDA x :
                      [x EXCEPT !.regs.finalPeriod = EncodeVcselPeriod(p)])
    IN  Then(period, LAMBDA x : SetFinalTimeout(x, final.micros))

(* The calibration runs with a sequence of its own and puts the remembered *)
(* one back only when it succeeds.                                         *)
PerformPhaseCalibration(c) ==
    LET running == Then(Transfer(c), LAMBDA x : [x EXCEPT !.regs.steps = {}])
        done == Then(running, LAMBDA x :
                    [x EXCEPT !.status = IF x.cal = "ok" THEN "none" ELSE x.cal])
    IN  Then(Then(done, Transfer), LAMBDA x : [x EXCEPT !.regs.steps = x.dev.steps])

SetVcselPulsePeriod ==
    \E type \in {"PRE", "FINAL"}, p \in 8 .. 18, f \in Faults, g \in Garbage,
       k \in {"ok", "io", "timeout"} :
        LET c == Begin(f, g, k)
            d == IF p \notin (IF type = "PRE" THEN PrePeriods ELSE FinalPeriods)
                 THEN Invalid(c)
                 ELSE IF type = "PRE" THEN ChangePrePeriod(c, p)
                 ELSE ChangeFinalPeriod(c, p)
            e == Then(d, LAMBDA x : SetBudget(x, x.dev.budget))
        IN  TimingReturn("SetVcsel", f, Then(e, PerformPhaseCalibration))

-----------------------------------------------------------------------------
(* What ranger_init() leaves: the tuning settings, the budget read back    *)
(* from them with TCC on, TCC switched off, then the 200 ms of ranger.cpp. *)
Tuned ==
    [regs |-> [steps |-> {"TCC", "DSS", "PRE", "FINAL"}, msrc |-> 37,
               pre |-> 150, final |-> 256 + 254, prePeriod |-> 6,
               finalPeriod |-> 4, preLimits |-> 14, finalLimits |-> 10],
     dev |-> [steps |-> {"TCC", "DSS", "PRE", "FINAL"}, budget |-> 0,
              preMicros |-> 0, finalMicros |-> 0],
     fuse |-> -1, garbage |-> {}, cal |-> "ok", status |-> "none",
     seen |-> {}, micros |-> 0, left |-> 0]

Started ==
    LET c == EnableStep(GetBudget(Tuned), "TCC", FALSE)
        pre == GetPreTimeout(c).micros
    IN  SetBudget([c EXCEPT !.dev.preMicros = pre], 200000)

TimingInit ==
    /\ regs = Started.regs /\ dev = Started.dev
    /\ CallInit

TimingNext ==
    \/ SetMeasurementTimingBudgetMicroSeconds
    \/ GetMeasurementTimingBudgetMicroSeconds
    \/ SetSequenceStepEnable
    \/ SetWrapAroundCheckEnable
    \/ SetSequenceStepTimeout
    \/ SetVcselPulsePeriod

TimingSpec == TimingInit /\ [][TimingNext]_timingVars

-----------------------------------------------------------------------------
(* Reference: the time the programmed sequence takes, without the 32 and   *)
(* 16 bit arithmetic of the code.                                          *)
Micros(mclks, pclks) ==
    mclks * (MacroPeriodNs(pclks) \div 1000)
        + (mclks * (MacroPeriodNs(pclks) % 1000)) \div 1000

PrePclks == DecodeVcselPeriod(regs.prePeriod)
ShortMicros == Micros(regs.msrc + 1, PrePclks)

If(step, us) == IF step \in regs.steps THEN us ELSE 0

FixedMicros ==
    StartEndOverhead
        + If("TCC", ShortMicros + Overhead["TCC"])
        + If("DSS", 2 * (ShortMicros + Overhead["DSS"]))
        + (IF "DSS" \in regs.steps THEN 0
           ELSE If("MSRC", ShortMicros + Overhead["MSRC"]))
        + If("PRE", Micros(DecodeTimeout(regs.pre), PrePclks) + Overhead["PRE"])

FinalMclks == DecodeTimeout(regs.final) - If("PRE", DecodeTimeout(regs.pre))
FinalMicros == Micros(FinalMclks, DecodeVcselPeriod(regs.finalPeriod))

(* Rounding to whole macro periods, of at most 69 us each.                 *)
Slack == 50

(* The register holds eight bits of pre-range and final range together:    *)
(* what its last bit stands for, in macro periods of the final range.      *)
Quantum == Micros(2^(regs.final \div 256), DecodeVcselPeriod(regs.finalPeriod))

(* Beyond 65535 of the shortest macro periods the code cuts the timeouts   *)
(* it reads to 16 bits; below the overheads of start and end what is left  *)
(* is an unsigned number that wraps.                                       *)
WidestBudget == 1999000
IsBounded == dev.budget \in StartEndOverhead .. WidestBudget

(* What is left for the final range step and its overhead.                 *)
RoomLeft == dev.budget - FixedMicros
HasRoom == RoomLeft > Overhead["FINAL"] + Slack

FitsBudget ==
    "FINAL" \in regs.steps =>
        /\ HasRoom /\ FinalMclks >= 0
        /\ Overhead["FINAL"] + FinalMicros <= RoomLeft + Slack

BudgetCall == last'.op \in {"SetBudget", "SetVcsel", "SetStepTimeout"}

(* The sequence the sensor runs is the one the device structure remembers; *)
(* a calibration that failed leaves another.                               *)
SameSequence == regs.steps = dev.steps

(* A call that applies the budget and reports success leaves a sequence    *)
(* that fits into it, also when the one before did not fit.  Not so in the *)
(* last microseconds of room: see NoRoomIsAnError.                         *)
SuccessFitsBudget ==
    [][CleanCall /\ BudgetCall /\ SameSequence /\ last'.status = "none"
           => (HasRoom /\ IsBounded => FitsBudget)']_timingVars

(* A timeout, period or budget the sequence has no room for is refused     *)
(* without leaving the sequence beyond the budget: a changed timeout is    *)
(* taken back.  SetSequenceStepEnable ignores the refusal and is left out. *)
RefusalKeepsFit ==
    [][CleanCall /\ (BudgetCall \/ last'.op = "GetBudget") /\ IsBounded /\ IsBounded'
         /\ SameSequence /\ FitsBudget /\ "FINAL" \in regs.steps
           => FitsBudget' \/ (~HasRoom' /\ RoomLeft' >= 0)]_timingVars

(* The final range timeout the sigma estimate uses is the one programmed,  *)
(* up to the last bit of the register.                                     *)
CachedTimeoutIsCurrent ==
    [][CleanCall /\ BudgetCall /\ SameSequence /\ last'.status = "none"
           => ("FINAL" \in regs.steps /\ HasRoom /\ IsBounded
                 => dev.finalMicros - FinalMicros \in -Slack .. Slack + Quantum)']_timingVars

(* Reading the budget back and applying it again changes no register: a    *)
(* GetDeviceParameters and SetDeviceParameters pair does not erode the     *)
(* final range.                                                            *)
SameRegisters(c) == c.status = "none" /\ c.regs = regs

ReadBackIsStable ==
    last = [op |-> "SetBudget", status |-> "none", lost |-> FALSE]
        /\ HasRoom /\ IsBounded /\ "FINAL" \in regs.steps
        => SameRegisters(Apply(GetBudget(Begin(-1, {}, "ok"))))

(* vl53l0x_api_core.c:1245: "If there is no room for the final range       *)
(* timeout, then an error will be set."                                    *)
NoRoomIsAnError ==
    last = [op |-> "SetBudget", status |-> "none", lost |-> FALSE]
        /\ "FINAL" \in regs.steps
            => RoomLeft > Overhead["FINAL"]
=============================================================================
