------------------------------- MODULE Arith32 -------------------------------
(***************************************************************************)
(* The unsigned arithmetic of the sensor library.                          *)
(*                                                                         *)
(* A uint32_t is the number in -2^31 .. 2^31-1 with the same 32 bits, so   *)
(* that a subtraction that wraps is a negative number here and a huge one  *)
(* for the code; the operators read it the code's way and stay within the  *)
(* integers of TLC.                                                        *)
(***************************************************************************)
EXTENDS Integers

Uint8 == 0 .. 255
Uint16 == 0 .. 65535

U8(x) == x % 256
U16(x) == x % 65536

Low(x) == x % 65536
High(x) == (x \div 65536) % 65536
Join(hi, lo) == (IF hi < 32768 THEN hi ELSE hi - 65536) * 65536 + lo

U32Less(x, y) == IF (x < 0) = (y < 0) THEN x < y ELSE y < 0

(* The number with the high part hi and a low part that may carry.         *)
Carry(hi, lo) == Join((hi + lo \div 65536) % 65536, lo % 65536)

U32Add(x, y) ==
    IF x = 0 THEN y
    ELSE IF y = 0 THEN x
    ELSE Carry(High(x) + High(y), Low(x) + Low(y))

U32Neg(x) == U32Add(Join(65535 - High(x), 65535 - Low(x)), 1)
U32Sub(x, y) == U32Add(x, U32Neg(y))

(* The product of two 16 bit numbers, by bytes of the second.              *)
FromBytes(upper, lower) == Carry(upper \div 256, lower + 256 * (upper % 256))
Product16(a, b) == FromBytes(a * (b \div 256), a * (b % 256))

AddHigh(x, hi) == Join((High(x) + hi) % 65536, Low(x))
U32Mul(x, y) ==
    IF x = 0 \/ y = 0 THEN 0
    ELSE AddHigh(Product16(Low(x), Low(y)),
                 Low(Product16(Low(x), High(y))) + Low(Product16(High(x), Low(y))))

(* x >> n, for 0 < n < 31.                                                 *)
U32Shr(x, n) == IF x >= 0 THEN x \div 2^n ELSE x \div 2^n + 2^(31 - n) + 2^(31 - n)

DivideHalf(half, odd, m) ==
    2 * (half \div m)
        + (IF half % m >= m - (half % m) - odd THEN 1 ELSE 0)

(* Division by halving a dividend that does not fit.  A divisor of 2^31 or *)
(* more goes in at most once.                                              *)
U32Div(x, m) ==
    IF m < 0 THEN (IF U32Less(x, m) THEN 0 ELSE 1)
    ELSE IF x >= 0 THEN x \div m
    ELSE IF m = 1 THEN x
    ELSE DivideHalf(U32Shr(x, 1), x % 2, m)

U32Max(x, y) == IF U32Less(x, y) THEN y ELSE x
U32Min(x, y) == IF U32Less(x, y) THEN x ELSE y
=============================================================================
