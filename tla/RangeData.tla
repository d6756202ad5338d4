------------------------------ MODULE RangeData ------------------------------
(***************************************************************************)
(* From the result registers of a measurement to the range, its limits and *)
(* its status: the computations of vl53l0x_api_core.c and of               *)
(* GetRangingMeasurementData, in the 32 bit fixed point they are done in.  *)
(*                                                                         *)
(* A raw measurement m has the fields code (the device range status),      *)
(* range, signal and ambient (9.7 Mcps), spads (8.8), ref (9.7), and in    *)
(* stale the range status the caller's structure held before the call.     *)
(* The settings s are those of RangeSettings, t the timing they need.      *)
(***************************************************************************)
EXTENDS StepTimeouts, Sequences, SequencesExt

To97(x) == U16(U32Shr(x, 9))
From97(x) == 512 * x
To313(x) == U16(U32Shr(x, 3))
From313(x) == 8 * x

-----------------------------------------------------------------------------
(* VL53L0X_isqrt: one bit of the root at a time, from the top.             *)
IsqrtStep(s, bit) ==
    IF s.num = 0 \/ U32Less(s.num, U32Add(s.res, bit))
    THEN [s EXCEPT !.res = U32Shr(@, 1)]
    ELSE [num |-> U32Sub(s.num, U32Add(s.res, bit)),
          res |-> U32Add(U32Shr(s.res, 1), bit)]

Isqrt(n) ==
    LET after[k \in 0 .. 16] ==
            IF k = 16 THEN [num |-> n, res |-> 0] ELSE IsqrtStep(after[k + 1], 4^k)
    IN  IF n = 0 THEN 0 ELSE after[0].res

-----------------------------------------------------------------------------
(* The crosstalk of the SPADs that took part, in 16.16.                    *)
TotalXTalkRate(m, s) ==
    IF s.xtalkOn = 1 THEN U32Shr(U32Add(U32Mul(m.spads, s.xtalkRate), 128), 8)
    ELSE 0

TotalSignalRate(m, s) == U32Add(From97(m.signal), TotalXTalkRate(m, s))

(* The distance that can be measured, by the ambient rate: a table of      *)
(* falling distances, linear in between.                                   *)
DMaxTable ==
    << <<0, 1200>>, <<45875, 1100>>, <<131072, 900>>, <<249036, 750>>,
       <<478412, 550>>, <<655360, 500>>, <<983040, 400>> >>

DMax(m) ==
    LET ambient == From97(m.ambient)
        above == SelectInSeq(DMaxTable, LAMBDA p : ambient <= p[1])
    IN  IF above = 0 THEN 400
        ELSE IF above = 1 THEN 1200
        ELSE LET p == DMaxTable[above - 1]
                 q == DMaxTable[above]
                 slope == (65536 * (p[2] - q[2])) \div ((q[1] - p[1]) \div 256)
             IN  (((q[1] - ambient) \div 256) * slope + 65536 * q[2]) \div 65536

-----------------------------------------------------------------------------
(* The range of the registers, corrected by the driver when the gain is    *)
(* not 1: the crosstalk rate is cut to 16 bits, and a rate above the       *)
(* signal wraps.                                                           *)
CorrectedRange(m, s) ==
    LET scaled == U16((s.gain * m.range + 500) \div 1000)
        xtalk == U32Shr(U32Mul(U16(s.xtalkRate), m.spads), 8)
        rest == U32Sub(From97(m.signal), xtalk)
    IN  IF s.gain = 1000 THEN m.range
        ELSE IF s.xtalkOn = 0 THEN scaled
        ELSE IF rest = 0 THEN (IF s.fraction = 1 THEN 8888 ELSE 4 * 8888)
        ELSE U16(U32Div(U32Mul(scaled, From97(m.signal)), rest))

Millimeters(m, s) == CorrectedRange(m, s) \div (IF s.fraction = 1 THEN 4 ELSE 1)

-----------------------------------------------------------------------------
(* calc_sigma_estimate, of the range as it was corrected.                  *)
SigmaMax == 42960814            \* 655.35 mm
SigmaReturnMax == 61440         \* 0xF000
PulseWidth == 800
AmbientWidth == 600
AmbientRatioMax == 6710886      \* 0xF0000000 / 600
MaxXTalk == 3276800             \* 50 kcps

(* The laser pulses of the pre-range and the final range, in us.           *)
PeakVcselDuration(t) ==
    LET periods == U32Add(CalcTimeoutMclks(t.preMicros, t.prePclks),
                          CalcTimeoutMclks(t.finalMicros, t.finalPclks))
        clocks == U32Mul((IF t.finalPclks = 8 THEN 2 ELSE 3) * 2048, periods)
        micros == U32Mul(U32Div(U32Add(clocks, 500), 1000), 1655)
    IN  U32Div(U32Add(micros, 500), 1000)

(* 1 + the share of the pulse the distance takes, squared; 1 when the      *)
(* structure the caller passed in says that its range is not valid.        *)
PulseStretch(m, s, rate, xtalkKcps) ==
    LET signal == U32Mul(rate, 65536)
        diff1 == U32Div(U32Add(U32Sub(signal, U32Mul(2, xtalkKcps)), 500), 1000)
        diff2 == U32Div(U32Add(signal, 500), 1000)
        correction == U32Mul(U32Div(U32Mul(diff1, 256), diff2), 256)
        flight == U32Div(U32Mul(Millimeters(m, s), 432538), 4700)
        share == U32Shr(U32Add(U32Mul(flight, U32Sub(65536, correction)), 32768), 16)
        half == U32Shr(U32Add(share, 65536), 1)
    IN  IF m.stale # 0 THEN 65536 ELSE U32Shr(U32Mul(half, half), 14)

Rounded16(x) == U32Shr(U32Add(x, 32768), 16)
Square(x) == U32Mul(x, x)

AmbientRatio_NoClip(ambient, rate) == U32Div(U32Mul(ambient, 65536), rate)
AmbientRatio(ambient, rate) ==
    U32Min(U32Div(U32Mul(ambient, 65536), rate), AmbientRatioMax)

(* The estimate of the return array, from pulse, ambient and events.       *)
SigmaReturn(m, s, rate, ambient, events, xtalkKcps) ==
    LET ratio == AmbientRatio(ambient, rate)
        pulse == Square(Rounded16(U32Mul(PulseStretch(m, s, rate, xtalkKcps), PulseWidth)))
        noise == Square(Rounded16(U32Mul(ratio, AmbientWidth)))
        width == U32Mul(Isqrt(U32Add(pulse, noise)), 65536)
        each == U32Div(U32Div(U32Add(width, 50), 100), 2 * Isqrt(U32Mul(events, 12)))
    IN  U32Min(U32Div(U32Add(U32Mul(each, 2997), 5000), 10000), SigmaReturnMax)

(* The one of the reference array: 1 mm at 25 ms.                          *)
SigmaReference(t) ==
    LET ms == U32Div(U32Add(U32Add(t.finalMicros, t.preMicros), 500), 1000)
        root == Isqrt(U32Div(U32Add(1638400, ms \div 2), ms))
    IN  (256 * root + 500) \div 1000

SigmaEstimate(m, s, t) ==
    LET total == TotalSignalRate(m, s)
        rate == Rounded16(U32Mul(total, 1000))
        ambient == U32Shr(U32Mul(From97(m.ambient), 1000), 16)
        xtalkKcps == U32Min(U32Mul(TotalXTalkRate(m, s), 1000), MaxXTalk)
        counted == U32Mul(U32Shr(U32Add(total, 128), 8), PeakVcselDuration(t))
        events == U32Max(U32Shr(U32Add(counted, 128), 8), 1)
        sum == U32Add(Square(SigmaReturn(m, s, rate, ambient, events, xtalkKcps)),
                      Square(SigmaReference(t)))
    IN  IF rate = 0 THEN SigmaMax
        ELSE U32Min(U32Mul(1000, Isqrt(sum)), SigmaMax)

-----------------------------------------------------------------------------
(* get_pal_range_status.                                                   *)
NoneCodes == {0, 5, 7, 12, 13, 14, 15}

SignalPerSpad(m) ==
    IF m.spads = 0 THEN 0 ELSE U32Div(U32Mul(256, From97(m.signal)), m.spads)

(* A limit of 0 never fails.                                               *)
Fails(limit, failed) == U32Less(0, limit) /\ failed

(* Of the checks in reached: an error before a check keeps it from failing. *)
LimitFlags(m, s, t, reached) ==
    LET On(k) == k \in reached /\ s.on[k] = 1
    IN  [sigma |-> On("sigma") /\ Fails(s.value["sigma"],
                       U32Less(s.value["sigma"], SigmaEstimate(m, s, t))),
         clip |-> On("clip") /\ Fails(s.value["clip"],
                       U32Less(s.value["clip"], From97(m.ref))),
         ignore |-> On("ignore") /\ Fails(s.value["ignore"],
                       U32Less(SignalPerSpad(m), s.value["ignore"]))]

PalRangeStatus_NoSigma(m, flags) == IF m.code = 11 THEN 0 ELSE 255

(* 0 valid, 1 sigma, 2 signal, 3 minimum range, 4 phase, 5 hardware,       *)
(* 255 none.                                                               *)
PalRangeStatus(m, flags) ==
    CASE m.code \in NoneCodes -> 255
      [] m.code \in {1, 2, 3} -> 5
      [] m.code \in {6, 9} -> 4
      [] m.code \in {8, 10} \/ flags.clip -> 3
      [] OTHER -> IF m.code = 4 \/ flags.ignore THEN 2
                  ELSE IF flags.sigma THEN 1 ELSE 0

(* The checks whose limit status is 1: failed, or not enabled.  The enable *)
(* of sigma and final is always seen, the others' only when reached.       *)
LimitStatus(m, s, flags, reached) ==
    {k \in {"sigma", "clip", "ignore"} :
        s.on[k] = 0 \/ flags[k] \/ k \notin reached \cup {"sigma"}}
        \cup (IF s.on["final"] = 0 \/ m.code = 4 THEN {"final"} ELSE {})
=============================================================================
