----------------------------- MODULE StepTimeouts -----------------------------
(***************************************************************************)
(* The arithmetic of vl53l0x_api_core.c behind the timeouts of a ranging   *)
(* sequence: macro periods of the laser, microseconds, and the register    *)
(* format (LSByte * 2^MSByte) + 1.                                         *)
(***************************************************************************)
EXTENDS Arith32

(* Periods are even numbers of PLL clocks in a byte register.              *)
EncodeVcselPeriod(pclks) == U8((pclks \div 2) - 1)
DecodeVcselPeriod(reg) == U8(2 * (reg + 1))

(* 2304 VCSEL clocks of 1655 ps, rounded to nanoseconds.                   *)
MacroPeriodNs(pclks) == (2304 * 1655 * pclks + 500) \div 1000

CalcTimeoutMclks(us, pclks) ==
    U32Div(U32Add(U32Mul(us, 1000), MacroPeriodNs(pclks) \div 2), MacroPeriodNs(pclks))

CalcTimeoutUs(mclks, pclks) ==
    U32Div(U32Add(U32Mul(mclks, MacroPeriodNs(pclks)), 500), 1000)

(* The loop halves until eight bits are left: the least such shift.        *)
Shift(lsByte) ==
    CHOOSE k \in 0 .. 24 :
        /\ lsByte \div 2^k < 256
        /\ \A j \in 0 .. 24 : j < k => lsByte \div 2^j >= 256

EncodeTimeout(mclks) ==
    IF mclks = 0 THEN 0
    ELSE 256 * Shift(mclks - 1) + (mclks - 1) \div 2^Shift(mclks - 1)

DecodeTimeout(reg) == (reg % 256) * 2^(reg \div 256) + 1

EncodeMsrcTimeout_NoCap(mclks) == IF mclks = 0 THEN 255 ELSE mclks - 1

(* The byte register of the MSRC, DSS and TCC steps: requests above 256    *)
(* are cut off, and 0 becomes 0 - 1 in a byte.                             *)
EncodeMsrcTimeout(mclks) ==
    IF U16(mclks) > 256 THEN 255 ELSE U8(U8(mclks) - 1)

(* The 16.16 milliseconds of SetSequenceStepTimeout are multiplied by 1000 *)
(* in 32 bits, which leaves 16 bits of microseconds.                       *)
MillisecondsToMicros(us) == U16(us)
=============================================================================
