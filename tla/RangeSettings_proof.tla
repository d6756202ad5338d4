------------------------- MODULE RangeSettings_proof -------------------------
(***************************************************************************)
(* Proofs about RangeSettings and the timing it contains, for every value  *)
(* of their constants: first the arithmetic, then the parts of a call on   *)
(* the call record, then the actions.                                      *)
(***************************************************************************)
EXTENDS RangeSettings, TLAPS, WellFoundedInduction, NaturalsInduction

Int32 == {x \in Int : -2147483648 <= x /\ x <= 2147483647}
Bit == {0, 1}

LEMMA IntervalIs ==
    ASSUME NEW m \in Int PROVE \A x : x \in 0 .. m <=> x \in Int /\ 0 <= x /\ x <= m
  BY SMT

LEMMA Uint16Is == \A x : x \in Uint16 <=> x \in Int /\ 0 <= x /\ x <= 65535
<1> DEFINE m == 65535
<1>1. Uint16 = 0 .. m
  BY SMT DEF Uint16
<1>2. m = 65535
  BY SMT
<1>3. m \in Int
  BY SMT
<1> HIDE DEF m
<1>4. \A x : x \in Uint16 <=> x \in Int /\ 0 <= x /\ x <= m
  BY <1>1, <1>3, IntervalIs, Zenon
<1> QED
  BY <1>2, <1>4, SMT

LEMMA Uint8Is == \A x : x \in Uint8 <=> x \in Int /\ 0 <= x /\ x <= 255
  BY SMT DEF Uint8

LEMMA WordsAreInts ==
    /\ Uint16 \subseteq Int /\ Uint8 \subseteq Int /\ Int32 \subseteq Int
    /\ Uint16 \subseteq Int32 /\ Uint8 \subseteq Uint16 /\ Bit \subseteq Uint8
    /\ 0 \in Int32 /\ 0 \in Uint16
  BY Uint16Is, Uint8Is, SMT DEF Int32, Bit

LEMMA Cuts ==
    \A x \in Int : U16(x) \in Uint16 /\ U8(x) \in Uint8 /\ Low(x) \in Uint16 /\ High(x) \in Uint16
<1> TAKE x \in Int
<1>1. U16(x) \in Uint16
  BY Uint16Is, SMT DEF U16
<1>2. U8(x) \in Uint8
  BY SMT DEF U8, Uint8
<1>3. Low(x) \in Uint16
  BY Uint16Is, SMT DEF Low
<1>4. High(x) \in Uint16
  BY Uint16Is, SMT DEF High
<1> QED
  BY <1>1, <1>2, <1>3, <1>4

LEMMA JoinType == \A hi, lo \in Uint16 : Join(hi, lo) \in Int32
  BY Uint16Is, SMT DEF Join, Int32

LEMMA CarryType == \A hi, lo \in Int : Carry(hi, lo) \in Int32
<1> TAKE hi, lo \in Int
<1> DEFINE h == (hi + lo \div 65536) % 65536
           l == lo % 65536
<1>1. h \in Uint16 /\ l \in Uint16
  BY Uint16Is, SMT
<1>2. Carry(hi, lo) = Join(h, l)
  BY SMT DEF Carry
<1> HIDE DEF h, l
<1> QED
  BY <1>1, <1>2, JoinType

LEMMA AddType == \A x, y \in Int32 : U32Add(x, y) \in Int32
<1> TAKE x, y \in Int32
<1>1. High(x) \in Int /\ High(y) \in Int /\ Low(x) \in Int /\ Low(y) \in Int
  BY Cuts, WordsAreInts
<1>2. High(x) + High(y) \in Int /\ Low(x) + Low(y) \in Int
  BY <1>1
<1>3. Carry(High(x) + High(y), Low(x) + Low(y)) \in Int32
  BY <1>2, CarryType
<1> QED
  BY <1>3 DEF U32Add

LEMMA SubType == \A x, y \in Int32 : U32Sub(x, y) \in Int32
<1> TAKE x, y \in Int32
<1> DEFINE h == 65535 - High(y)
           l == 65535 - Low(y)
<1>1. High(y) \in Uint16 /\ Low(y) \in Uint16
  BY Cuts, WordsAreInts
<1>2. h \in Uint16 /\ l \in Uint16
  BY <1>1, Uint16Is, SMT
<1>3. U32Neg(y) = U32Add(Join(h, l), 1)
  BY DEF U32Neg
<1> HIDE DEF h, l
<1>4. 1 \in Int32
  BY SMT DEF Int32
<1>5. U32Neg(y) \in Int32
  BY <1>2, <1>3, <1>4, JoinType, AddType
<1> QED
  BY <1>5, AddType DEF U32Sub

LEMMA MulType == \A x, y \in Int : U32Mul(x, y) \in Int32
<1> TAKE x, y \in Int
<1>1. ASSUME NEW a \in Int, NEW b \in Int
      PROVE  Product16(a, b) \in Int
  <2> DEFINE upper == a * (b \div 256)
             lower == a * (b % 256)
             h == upper \div 256
             l == lower + 256 * (upper % 256)
  <2>1. b \div 256 \in Int /\ b % 256 \in Int
    BY SMT
  <2>2. upper \in Int /\ lower \in Int
    BY <2>1
  <2>3. Product16(a, b) = Carry(h, l)
    BY DEF Product16, FromBytes
  <2> HIDE DEF upper, lower
  <2>4. h \in Int /\ l \in Int
    BY <2>2, SMT
  <2> HIDE DEF h, l
  <2> QED
    BY <2>3, <2>4, CarryType, WordsAreInts
<1>2. Low(x) \in Int /\ Low(y) \in Int /\ High(x) \in Int /\ High(y) \in Int
  BY Cuts, WordsAreInts
<1> DEFINE p == Product16(Low(x), Low(y))
           hi == Low(Product16(Low(x), High(y))) + Low(Product16(High(x), Low(y)))
           h == (High(p) + hi) % 65536
<1>3. p \in Int
  BY <1>1, <1>2
<1>4. hi \in Int
  <2>1. Product16(Low(x), High(y)) \in Int /\ Product16(High(x), Low(y)) \in Int
    BY <1>1, <1>2
  <2>2. Low(Product16(Low(x), High(y))) \in Int /\ Low(Product16(High(x), Low(y))) \in Int
    BY <2>1, Cuts, WordsAreInts
  <2> QED
    BY <2>2
<1>5. AddHigh(p, hi) = Join(h, Low(p))
  BY DEF AddHigh
<1>6. U32Mul(x, y) = IF x = 0 \/ y = 0 THEN 0 ELSE AddHigh(p, hi)
  BY DEF U32Mul
<1> HIDE DEF p, hi
<1>7. High(p) \in Int /\ Low(p) \in Uint16
  BY <1>3, Cuts, WordsAreInts
<1>8. h \in Uint16
  BY <1>4, <1>7, Uint16Is, SMT
<1> HIDE DEF h
<1> QED
  BY <1>5, <1>6, <1>7, <1>8, JoinType, WordsAreInts

LEMMA LeastExists ==
    ASSUME NEW S, S \subseteq Nat, S # {}
    PROVE  \E x \in S : \A y \in S : x <= y
<1> DEFINE R == OpToRel(<, Nat)
<1>1. IsWellFoundedOn(R, Nat)
  BY NatLessThanWellFounded
<1>2. \A x, y \in Nat : <<x, y>> \notin R => y <= x
  <2>1. R = {ss \in Nat \X Nat : ss[1] < ss[2]}
    BY DEF OpToRel
  <2> HIDE DEF R
  <2> QED
    BY <2>1, SMT
<1> HIDE DEF R
<1>3. PICK x \in S : \A y \in S : <<y, x>> \notin R
  BY <1>1, WFMin
<1> QED
  BY <1>2, <1>3

LEMMA PowersPositive == \A k \in 0 .. 24 : 2^k \in Nat /\ 2^k \in Int /\ 2^k > 0
<1> TAKE k \in 0 .. 24
<1>1. \/ k = 0 \/ k = 1 \/ k = 2 \/ k = 3 \/ k = 4 \/ k = 5 \/ k = 6 \/ k = 7
      \/ k = 8 \/ k = 9 \/ k = 10 \/ k = 11 \/ k = 12 \/ k = 13 \/ k = 14
      \/ k = 15 \/ k = 16 \/ k = 17 \/ k = 18 \/ k = 19 \/ k = 20 \/ k = 21
      \/ k = 22 \/ k = 23 \/ k = 24
  BY SMT
<1>2. /\ 2^0 > 0 /\ 2^1 > 0 /\ 2^2 > 0 /\ 2^3 > 0 /\ 2^4 > 0 /\ 2^5 > 0
      /\ 2^6 > 0 /\ 2^7 > 0 /\ 2^8 > 0 /\ 2^9 > 0 /\ 2^10 > 0 /\ 2^11 > 0
      /\ 2^12 > 0 /\ 2^13 > 0 /\ 2^14 > 0 /\ 2^15 > 0 /\ 2^16 > 0
      /\ 2^17 > 0 /\ 2^18 > 0 /\ 2^19 > 0 /\ 2^20 > 0 /\ 2^21 > 0
      /\ 2^22 > 0 /\ 2^23 > 0 /\ 2^24 > 0
  BY SMT
<1>3. 2^k > 0
  BY <1>1, <1>2, Zenon
<1>4. k \in Nat
  BY SMT
<1>5. 2^k \in Int
  BY <1>4
<1>6. 2^k \in Nat
  BY <1>3, <1>5
<1> QED
  BY <1>3, <1>5, <1>6

LEMMA ShrType ==
    ASSUME NEW x \in Int
    PROVE  /\ U32Shr(x, 1) \in Int /\ U32Shr(x, 3) \in Int /\ U32Shr(x, 8) \in Int
           /\ U32Shr(x, 9) \in Int /\ U32Shr(x, 16) \in Int
<1>1. /\ 2^1 = 2 /\ 31 - 1 = 30 /\ 2^30 = 1073741824
      /\ 2^3 = 8 /\ 31 - 3 = 28 /\ 2^28 = 268435456
      /\ 2^8 = 256 /\ 31 - 8 = 23 /\ 2^23 = 8388608
      /\ 2^9 = 512 /\ 31 - 9 = 22 /\ 2^22 = 4194304
      /\ 2^16 = 65536 /\ 31 - 16 = 15 /\ 2^15 = 32768
  BY SMT
<1> QED
  BY <1>1, SMT DEF U32Shr

LEMMA DivType ==
    ASSUME NEW x \in Int, NEW m \in Int, m # 0
    PROVE  U32Div(x, m) \in Int
<1>1. ASSUME NEW h \in Int, NEW odd \in Int, m > 0
      PROVE  DivideHalf(h, odd, m) \in Int
  BY <1>1, SMT DEF DivideHalf
<1>2. U32Shr(x, 1) \in Int /\ x % 2 \in Int
  BY ShrType, SMT
<1>3. CASE m > 0
  <2>1. DivideHalf(U32Shr(x, 1), x % 2, m) \in Int
    BY <1>1, <1>2, <1>3
  <2>2. x \div m \in Int
    BY <1>3, SMT
  <2> QED
    BY <1>3, <2>1, <2>2 DEF U32Div
<1>4. CASE m < 0
  BY <1>4 DEF U32Div
<1> QED
  BY <1>3, <1>4

(* The fixed point conversions of registers.                               *)
LEMMA Conversions ==
    /\ \A x \in Int : To97(x) \in Uint16 /\ To313(x) \in Uint16
    /\ \A x \in Uint16 : From97(x) \in Int /\ From313(x) \in Int
    /\ \A x \in Uint16 : To97(From97(x)) = x /\ To313(From313(x)) = x
<1>1. 2^9 = 512 /\ 2^3 = 8
  BY SMT
<1>2. \A x \in Int : To97(x) \in Uint16 /\ To313(x) \in Uint16
  BY ShrType, Cuts DEF To97, To313
<1>3. \A x \in Uint16 : From97(x) \in Int /\ From313(x) \in Int
  BY Uint16Is, SMT DEF From97, From313
<1>4. ASSUME NEW x \in Uint16
      PROVE  To97(From97(x)) = x /\ To313(From313(x)) = x
  BY <1>1, Uint16Is, SMT DEF To97, From97, To313, From313, U16, U32Shr
<1> QED
  BY <1>2, <1>3, <1>4
-----------------------------------------------------------------------------
(* The timeouts of the steps, with the periods of the laser in use.        *)
Pclks == {8, 10, 12, 14, 16, 18}
Period == {3, 4, 5, 6, 7, 8}
LongPclks == {12, 14, 16, 18}
LongPeriod == {5, 6, 7, 8}

LEMMA PeriodsDecoded == \A r \in Period : DecodeVcselPeriod(r) \in Pclks
  BY SMT DEF Period, Pclks, DecodeVcselPeriod, U8

LEMMA LongDecoded ==
    /\ \A r \in LongPeriod : r \in Period /\ DecodeVcselPeriod(r) \in LongPclks
    /\ \A p \in LongPclks : p \in Pclks
  BY SMT DEF Period, LongPeriod, LongPclks, Pclks, DecodeVcselPeriod, U8

LEMMA MacroPeriodType ==
    \A p \in Pclks : MacroPeriodNs(p) \in Int /\ 30000 < MacroPeriodNs(p)
                        /\ MacroPeriodNs(p) < 70000
  BY SMT DEF Pclks, MacroPeriodNs

LEMMA CalcUsType ==
    \A n \in Int, p \in Pclks : CalcTimeoutUs(n, p) \in Int
<1> TAKE n \in Int, p \in Pclks
<1>1. U32Mul(n, MacroPeriodNs(p)) \in Int32
  BY MacroPeriodType, MulType
<1>2. 500 \in Int32
  BY SMT DEF Int32
<1>3. U32Add(U32Mul(n, MacroPeriodNs(p)), 500) \in Int
  BY <1>1, <1>2, AddType, WordsAreInts, ZenonT(30)
<1> QED
  BY <1>3, DivType DEF CalcTimeoutUs

(* A 32 bit dividend leaves at most 18 bits of macro periods.              *)
LEMMA QuotientBound ==
    ASSUME NEW x \in Int32, NEW m \in Int, m > 30000
    PROVE  U32Div(x, m) \in Int /\ 0 <= U32Div(x, m) /\ U32Div(x, m) <= 200000
<1>1. ASSUME NEW y \in Int, 0 <= y, y <= 2147483647
      PROVE  y \div m \in Int /\ 0 <= y \div m /\ y \div m <= 71583
  <2> DEFINE q == y \div m
  <2>1. q \in Int /\ m * q <= y /\ y < m * (q + 1)
    BY SMT
  <2>2. 0 <= q
    BY <1>1, <2>1, SMT
  <2>3. q <= 71583
    <3>1. 30000 * q <= m * q
      BY <2>1, <2>2, SMT
    <3> QED
      BY <1>1, <2>1, <3>1, SMT
  <2> QED
    BY <2>1, <2>2, <2>3
<1>2. CASE x >= 0
  <2>1. x <= 2147483647 /\ x \in Int
    BY SMT DEF Int32
  <2>2. U32Div(x, m) = x \div m
    BY <1>2, SMT DEF U32Div
  <2> QED
    BY <1>1, <1>2, <2>1, <2>2, SMT
<1>3. CASE x < 0
  <2> DEFINE h == U32Shr(x, 1)
             odd == x % 2
  <2>1. 2^1 = 2 /\ 31 - 1 = 30 /\ 2^30 = 1073741824
    BY SMT
  <2>2. h \in Int /\ 0 <= h /\ h <= 2147483647
    BY <1>3, <2>1, SMT DEF U32Shr, Int32
  <2>3. U32Div(x, m) = DivideHalf(h, odd, m)
    BY <1>3, SMT DEF U32Div, Int32
  <2> HIDE DEF h, odd
  <2>4. DivideHalf(h, odd, m) \in {2 * (h \div m), 2 * (h \div m) + 1}
    BY <2>2, SMT DEF DivideHalf
  <2> QED
    BY <1>1, <2>2, <2>3, <2>4, SMT
<1> QED
  BY <1>2, <1>3, SMT DEF Int32

LEMMA CalcMclksType ==
    \A us \in Int, p \in Pclks :
        LET n == CalcTimeoutMclks(us, p) IN n \in Int /\ 0 <= n /\ n <= 200000
<1> TAKE us \in Int, p \in Pclks
<1> DEFINE m == MacroPeriodNs(p)
<1>1. U32Mul(us, 1000) \in Int32
  BY MulType
<1>2. m \in Int /\ m > 30000 /\ m \div 2 \in Int32
  BY MacroPeriodType, SMT DEF Int32
<1>3. U32Add(U32Mul(us, 1000), m \div 2) \in Int32
  BY <1>1, <1>2, AddType
<1>4. CalcTimeoutMclks(us, p) = U32Div(U32Add(U32Mul(us, 1000), m \div 2), m)
  BY DEF CalcTimeoutMclks
<1> HIDE DEF m
<1> QED
  BY <1>2, <1>3, <1>4, QuotientBound

LEMMA QuotientNat ==
    ASSUME NEW n \in Nat, NEW d \in Int, d > 0
    PROVE  n \div d \in Int /\ 0 <= n \div d
<1> DEFINE q == n \div d
<1>1. q \in Int /\ d * q <= n /\ n < d * (q + 1)
  BY SMT
<1> HIDE DEF q
<1>2. 0 <= q
  <2> SUFFICES ASSUME q + 1 <= 0 PROVE FALSE
    BY <1>1, SMT
  <2>1. d * (q + 1) <= 0
    BY <1>1, SMT
  <2> QED
    BY <1>1, <2>1, SMT
<1> QED
  BY <1>1, <1>2 DEF q

(* Macro periods the driver computes.                                      *)
Clocks == {m \in Int : 0 <= m /\ m <= 300000}

(* What a timeout register holds: at most 24 halvings, and eight bits.      *)
Encoded == {r \in Uint16 : r \div 256 <= 24}

LEMMA EncodedIs == Encoded \subseteq Uint16 /\ 0 \in Encoded
  BY WordsAreInts, SMT DEF Encoded

Shiftable == {n \in Nat : n \div 65536 < 256}

LEMMA ShiftIs ==
    ASSUME NEW n \in Shiftable
    PROVE  /\ Shift(n) \in 0 .. 24 /\ n \div 2^Shift(n) < 256
           /\ \A j \in 0 .. 24 : j < Shift(n) => n \div 2^j >= 256
           /\ \A j \in 0 .. 24 : n \div 2^j \in Int /\ 0 <= n \div 2^j
<1> DEFINE S == {k \in 0 .. 24 : n \div 2^k < 256}
<1>0. n \in Nat
  BY DEF Shiftable
<1>1. Shift(n) = CHOOSE k \in 0 .. 24 :
                     n \div 2^k < 256 /\ \A j \in 0 .. 24 : j < k => n \div 2^j >= 256
  BY Zenon DEF Shift
<1>2. ASSUME NEW j \in 0 .. 24
      PROVE  n \div 2^j \in Int /\ 0 <= n \div 2^j
  <2> DEFINE d == 2^j
  <2>1. d \in Int /\ d > 0
    BY PowersPositive
  <2> HIDE DEF d
  <2>2. n \div d \in Int /\ 0 <= n \div d
    BY <1>0, <2>1, QuotientNat
  <2> QED
    BY <2>2 DEF d
<1>3. 16 \in S
  <2>1. 2^16 = 65536
    BY SMT
  <2>2. n \div 2^16 < 256
    BY <2>1, SMT DEF Shiftable
  <2> QED
    BY <2>2, SMT
<1>4. S \subseteq Nat /\ S # {}
  <2>1. 0 .. 24 \subseteq Nat
    BY SMT
  <2> QED
    BY <1>3, <2>1, Zenon
<1>5. PICK l \in S : \A y \in S : l <= y
  <2> HIDE DEF S
  <2> QED
    BY <1>4, LeastExists
<1>6. ASSUME NEW j \in 0 .. 24, j < l
      PROVE  n \div 2^j >= 256
  <2> DEFINE q == n \div 2^j
  <2>1. q \in Int
    BY <1>2
  <2>2. ~(q < 256)
    <3> SUFFICES ASSUME q < 256 PROVE FALSE
      OBVIOUS
    <3>1. j \in S
      OBVIOUS
    <3>2. l <= j /\ l \in Int
      BY <1>4, <1>5, <3>1
    <3> HIDE DEF S
    <3> QED
      BY <1>6, <3>2, SMT
  <2> HIDE DEF q
  <2>3. q >= 256
    BY <2>1, <2>2, SMT
  <2> QED
    BY <2>3 DEF q
<1> QED
  BY <1>1, <1>2, <1>5, <1>6, ZenonT(30)

LEMMA EncodeType == \A m \in Clocks : EncodeTimeout(m) \in Encoded
<1> TAKE m \in Clocks
<1>1. CASE m = 0
  BY <1>1, EncodedIs DEF EncodeTimeout
<1>2. CASE m # 0
  <2> DEFINE n == m - 1
             k == Shift(n)
             q == n \div 2^k
  <2>1. n \in Shiftable
    BY <1>2, SMT DEF Clocks, Shiftable
  <2>2. EncodeTimeout(m) = 256 * k + q
    BY <1>2, Zenon DEF EncodeTimeout
  <2> HIDE DEF n
  <2>3. k \in 0 .. 24 /\ q \in Int /\ 0 <= q /\ q < 256
    BY <2>1, ShiftIs
  <2> HIDE DEF k, q
  <2>4. 256 * k + q \in Encoded
    BY <2>3, Uint16Is, SMT DEF Encoded
  <2> QED
    BY <2>2, <2>4
<1> QED
  BY <1>1, <1>2

LEMMA DecodeType == \A r \in Uint16 : DecodeTimeout(r) \in Int
<1> TAKE r \in Uint16
<1>1. r % 256 \in Int /\ r \div 256 \in Nat
  BY Uint16Is, SMT
<1>2. 2^(r \div 256) \in Int
  BY <1>1
<1> QED
  BY <1>1, <1>2 DEF DecodeTimeout

LEMMA MsrcType == \A m \in Int : EncodeMsrcTimeout(m) \in Uint8
<1> TAKE m \in Int
<1>1. U16(m) \in Int /\ U8(m) \in Int
  BY Cuts, WordsAreInts
<1>2. U8(m) - 1 \in Int
  BY <1>1
<1>3. U8(U8(m) - 1) \in Uint8
  BY <1>2, Cuts
<1>4. 255 \in Uint8
  BY Uint8Is, SMT
<1> QED
  BY <1>3, <1>4 DEF EncodeMsrcTimeout
-----------------------------------------------------------------------------
(* The call record c of a call of the timing, or of one with settings as   *)
(* well: the fields below have their types, whatever others there are.     *)
Fields == {"regs", "dev", "fuse", "garbage", "cal", "status", "seen", "micros", "left"}
Ends == {"ok", "io", "timeout"}

Sensors == [steps: SUBSET Step, msrc: Uint8, pre: Encoded, final: Encoded,
            prePeriod: LongPeriod, finalPeriod: Period,
            preLimits: PrePeriods, finalLimits: FinalPeriods]
Device == [steps: SUBSET Step, budget: Int, preMicros: Int, finalMicros: Int]

Timed(c) ==
    /\ Fields \subseteq DOMAIN c
    /\ c.regs \in Sensors /\ c.dev \in Device
    /\ c.fuse \in Int /\ c.status \in Statuses /\ c.cal \in Ends
    /\ c.seen \in SUBSET Step /\ c.garbage \in SUBSET Step
    /\ c.micros \in Int /\ c.left \in Int

(* The other fields are as they were.                                      *)
Rest(c, d) ==
    /\ DOMAIN d = DOMAIN c
    /\ \A x \in DOMAIN c : x \notin Fields => d[x] = c[x]

(* No transfer was lost between c and d.                                   *)
Intact(c, d) == c.fuse < 0 \/ d.fuse >= 0

(* A part of a call that leads from c to d.                                *)
Flows(c, d) == Timed(d) /\ Rest(c, d) /\ d.fuse <= c.fuse

(* One that ends without an error when it is not disturbed.                *)
Smooth(c, d) == Intact(c, d) /\ c.status = "none" => d.status = "none"

(* One that changes nothing in the sensor or the device structure.         *)
Reads(c, d) == Flows(c, d) /\ Smooth(c, d) /\ d.regs = c.regs /\ d.dev = c.dev

LEMMA FlowsSame == \A c : Timed(c) => Reads(c, c)
  BY DEF Reads, Flows, Rest, Smooth, Timed

LEMMA FlowsChain ==
    ASSUME NEW c, NEW d, NEW e, Timed(c), Flows(c, d), Flows(d, e)
    PROVE  /\ Flows(c, e) /\ (Intact(c, e) => Intact(c, d) /\ Intact(d, e))
           /\ Smooth(c, d) /\ Smooth(d, e) => Smooth(c, e)
<1>1. c.fuse \in Int /\ d.fuse \in Int /\ e.fuse \in Int /\ d.fuse <= c.fuse /\ e.fuse <= d.fuse
  BY DEF Flows, Timed
<1>2. Rest(c, e)
  BY DEF Flows, Rest
<1>3. Intact(c, e) => Intact(c, d) /\ Intact(d, e)
  BY <1>1 DEF Intact
<1>4. Flows(c, e)
  BY <1>1, <1>2 DEF Flows
<1> QED
  BY <1>3, <1>4 DEF Smooth

LEMMA ReadsChain ==
    ASSUME NEW c, NEW d, NEW e, Timed(c), Reads(c, d), Reads(d, e)
    PROVE  Reads(c, e)
  BY FlowsChain DEF Reads

LEMMA Names ==
    /\ "none" \in Statuses /\ "io" \in Statuses /\ "invalid" \in Statuses
    /\ "range" \in Statuses /\ "timeout" \in Statuses
  BY DEF Statuses

LEMMA TransfersStep ==
    ASSUME NEW c, Timed(c), NEW n \in Nat
    PROVE  Reads(c, Transfers(c, n))
<1> DEFINE burnt == c.fuse \in 0 .. n - 1
           f == IF burnt THEN -1 ELSE c.fuse - n
           s == IF burnt THEN "io" ELSE "none"
           d == Transfers(c, n)
<1>1. c.fuse \in Int /\ f \in Int /\ f <= c.fuse /\ s \in Statuses
  BY Names DEF Timed
<1>2. d = [c EXCEPT !.fuse = f, !.status = s]
  BY DEF Transfers
<1>3. s = "none" \/ (s = "io" /\ c.fuse >= 0 /\ f < 0)
  BY <1>1
<1> HIDE DEF d, f, s, burnt
<1>4. DOMAIN d = DOMAIN c /\ Fields \subseteq DOMAIN c
  BY <1>2 DEF Timed
<1>5. Rest(c, d)
  BY <1>2, <1>4 DEF Rest, Fields
<1>6. /\ d.fuse = f /\ d.status = s /\ d.regs = c.regs /\ d.dev = c.dev
      /\ d.seen = c.seen /\ d.garbage = c.garbage /\ d.micros = c.micros
      /\ d.left = c.left /\ d.cal = c.cal
  BY <1>2, <1>4 DEF Fields
<1>7. Timed(d)
  BY <1>1, <1>4, <1>6 DEF Timed
<1>8. Smooth(c, d)
  BY <1>1, <1>3, <1>6 DEF Smooth, Intact
<1> QED
  BY <1>1, <1>5, <1>6, <1>7, <1>8 DEF Reads, Flows, d

LEMMA TransferStep ==
    ASSUME NEW c, Timed(c)
    PROVE  Reads(c, Transfer(c)) /\ Transfer(c).seen = c.seen /\ Transfer(c).garbage = c.garbage
<1> DEFINE f == c.fuse - 1
           s == IF c.fuse = 0 THEN "io" ELSE "none"
           d == Transfer(c)
<1>1. c.fuse \in Int /\ f \in Int /\ f <= c.fuse /\ s \in Statuses
  BY Names DEF Timed
<1>2. d = [c EXCEPT !.fuse = f, !.status = s]
  BY DEF Transfer
<1>3. s = "none" \/ (s = "io" /\ c.fuse >= 0 /\ f < 0)
  BY <1>1
<1> HIDE DEF d, f, s
<1>4. DOMAIN d = DOMAIN c /\ Fields \subseteq DOMAIN c
  BY <1>2 DEF Timed
<1>5. Rest(c, d)
  BY <1>2, <1>4 DEF Rest, Fields
<1>6. /\ d.fuse = f /\ d.status = s /\ d.regs = c.regs /\ d.dev = c.dev
      /\ d.seen = c.seen /\ d.garbage = c.garbage /\ d.micros = c.micros
      /\ d.left = c.left /\ d.cal = c.cal
  BY <1>2, <1>4 DEF Fields
<1>7. Timed(d)
  BY <1>1, <1>4, <1>6 DEF Timed
<1>8. Smooth(c, d)
  BY <1>1, <1>3, <1>6 DEF Smooth, Intact
<1> QED
  BY <1>1, <1>5, <1>6, <1>7, <1>8 DEF Reads, Flows, d

(* Assignments to the fields of the record.                                *)
LEMMA AssignLocal ==
    ASSUME NEW c, Timed(c)
    PROVE  /\ \A v \in Int : Reads(c, [c EXCEPT !.micros = v])
           /\ \A v \in Int : Reads(c, [c EXCEPT !.left = v])
           /\ \A v \in SUBSET Step : /\ Reads(c, [c EXCEPT !.seen = v])
                                     /\ [c EXCEPT !.seen = v].seen = v
           /\ \A v \in Statuses : LET d == [c EXCEPT !.status = v] IN
                /\ Flows(c, d) /\ d.regs = c.regs /\ d.dev = c.dev /\ d.status = v
                /\ d.fuse = c.fuse /\ d.seen = c.seen
<1>1. Fields \subseteq DOMAIN c /\ c.fuse \in Int
  BY DEF Timed
<1>2. ASSUME NEW v \in Int PROVE Reads(c, [c EXCEPT !.micros = v])
  <2> DEFINE d == [c EXCEPT !.micros = v]
  <2>1. DOMAIN d = DOMAIN c
    OBVIOUS
  <2>2. Rest(c, d)
    BY <2>1 DEF Rest, Fields
  <2>3. /\ d.fuse = c.fuse /\ d.status = c.status /\ d.regs = c.regs /\ d.dev = c.dev
        /\ d.seen = c.seen /\ d.garbage = c.garbage /\ d.micros = v
        /\ d.left = c.left /\ d.cal = c.cal
    BY <1>1 DEF Fields
  <2> HIDE DEF d
  <2>4. Timed(d)
    BY <1>1, <2>1, <2>3 DEF Timed
  <2> QED
    BY <1>1, <2>2, <2>3, <2>4 DEF Reads, Flows, Smooth, d
<1>3. ASSUME NEW v \in Int PROVE Reads(c, [c EXCEPT !.left = v])
  <2> DEFINE d == [c EXCEPT !.left = v]
  <2>1. DOMAIN d = DOMAIN c
    OBVIOUS
  <2>2. Rest(c, d)
    BY <2>1 DEF Rest, Fields
  <2>3. /\ d.fuse = c.fuse /\ d.status = c.status /\ d.regs = c.regs /\ d.dev = c.dev
        /\ d.seen = c.seen /\ d.garbage = c.garbage /\ d.micros = c.micros
        /\ d.left = v /\ d.cal = c.cal
    BY <1>1 DEF Fields
  <2> HIDE DEF d
  <2>4. Timed(d)
    BY <1>1, <2>1, <2>3 DEF Timed
  <2> QED
    BY <1>1, <2>2, <2>3, <2>4 DEF Reads, Flows, Smooth, d
<1>4. ASSUME NEW v \in SUBSET Step
      PROVE  Reads(c, [c EXCEPT !.seen = v]) /\ [c EXCEPT !.seen = v].seen = v
  <2> DEFINE d == [c EXCEPT !.seen = v]
  <2>1. DOMAIN d = DOMAIN c
    OBVIOUS
  <2>2. Rest(c, d)
    BY <2>1 DEF Rest, Fields
  <2>3. /\ d.fuse = c.fuse /\ d.status = c.status /\ d.regs = c.regs /\ d.dev = c.dev
        /\ d.seen = v /\ d.garbage = c.garbage /\ d.micros = c.micros
        /\ d.left = c.left /\ d.cal = c.cal
    BY <1>1 DEF Fields
  <2> HIDE DEF d
  <2>4. Timed(d)
    BY <1>1, <2>1, <2>3 DEF Timed
  <2> QED
    BY <1>1, <2>2, <2>3, <2>4 DEF Reads, Flows, Smooth, d
<1>5. ASSUME NEW v \in Statuses
      PROVE  LET d == [c EXCEPT !.status = v] IN
                /\ Flows(c, d) /\ d.regs = c.regs /\ d.dev = c.dev /\ d.status = v
                /\ d.fuse = c.fuse /\ d.seen = c.seen
  <2> DEFINE d == [c EXCEPT !.status = v]
  <2>1. DOMAIN d = DOMAIN c
    OBVIOUS
  <2>2. Rest(c, d)
    BY <2>1 DEF Rest, Fields
  <2>3. /\ d.fuse = c.fuse /\ d.status = v /\ d.regs = c.regs /\ d.dev = c.dev
        /\ d.seen = c.seen /\ d.garbage = c.garbage /\ d.micros = c.micros
        /\ d.left = c.left /\ d.cal = c.cal
    BY <1>1 DEF Fields
  <2> HIDE DEF d
  <2>4. Timed(d)
    BY <1>1, <2>1, <2>3 DEF Timed
  <2> QED
    BY <1>1, <2>2, <2>3, <2>4 DEF Flows, d
<1> QED
  BY <1>2, <1>3, <1>4, <1>5

Both(c, r, e) == [c EXCEPT !.regs = r, !.dev = e]

LEMMA AssignBoth ==
    ASSUME NEW c, Timed(c), NEW r \in Sensors, NEW e \in Device
    PROVE  LET d == Both(c, r, e) IN
           /\ Flows(c, d) /\ d.regs = r /\ d.dev = e /\ d.status = c.status
           /\ d.seen = c.seen /\ d.fuse = c.fuse /\ d.left = c.left
<1> DEFINE d == Both(c, r, e)
<1> USE DEF Both
<1>1. Fields \subseteq DOMAIN c /\ c.fuse \in Int /\ DOMAIN d = DOMAIN c
  BY DEF Timed
<1>2. Rest(c, d)
  BY <1>1 DEF Rest, Fields
<1>3. /\ d.fuse = c.fuse /\ d.status = c.status /\ d.regs = r /\ d.dev = e
      /\ d.seen = c.seen /\ d.garbage = c.garbage /\ d.micros = c.micros
      /\ d.left = c.left /\ d.cal = c.cal
  BY <1>1 DEF Fields
<1> HIDE DEF d
<1>4. Timed(d)
  BY <1>1, <1>3 DEF Timed
<1> QED
  BY <1>1, <1>2, <1>3, <1>4 DEF Flows, d

LEMMA AssignDev ==
    ASSUME NEW c, Timed(c), NEW e \in Device
    PROVE  LET d == [c EXCEPT !.dev = e] IN
           /\ Flows(c, d) /\ d.regs = c.regs /\ d.dev = e /\ d.status = c.status
           /\ d.seen = c.seen /\ d.fuse = c.fuse /\ d.left = c.left
<1> DEFINE d == [c EXCEPT !.dev = e]
<1>1. Fields \subseteq DOMAIN c /\ c.fuse \in Int /\ DOMAIN d = DOMAIN c
  BY DEF Timed
<1>2. Rest(c, d)
  BY <1>1 DEF Rest, Fields
<1>3. /\ d.fuse = c.fuse /\ d.status = c.status /\ d.regs = c.regs /\ d.dev = e
      /\ d.seen = c.seen /\ d.garbage = c.garbage /\ d.micros = c.micros
      /\ d.left = c.left /\ d.cal = c.cal
  BY <1>1 DEF Fields
<1> HIDE DEF d
<1>4. Timed(d)
  BY <1>1, <1>3 DEF Timed
<1> QED
  BY <1>1, <1>2, <1>3, <1>4 DEF Flows, d

LEMMA AssignRegs ==
    ASSUME NEW c, Timed(c), NEW r \in Sensors
    PROVE  LET d == [c EXCEPT !.regs = r] IN
           /\ Flows(c, d) /\ d.regs = r /\ d.dev = c.dev /\ d.status = c.status
           /\ d.seen = c.seen /\ d.fuse = c.fuse /\ d.left = c.left
<1> DEFINE d == [c EXCEPT !.regs = r]
<1>1. Fields \subseteq DOMAIN c /\ c.fuse \in Int /\ DOMAIN d = DOMAIN c
  BY DEF Timed
<1>2. Rest(c, d)
  BY <1>1 DEF Rest, Fields
<1>3. /\ d.fuse = c.fuse /\ d.status = c.status /\ d.regs = r /\ d.dev = c.dev
      /\ d.seen = c.seen /\ d.garbage = c.garbage /\ d.micros = c.micros
      /\ d.left = c.left /\ d.cal = c.cal
  BY <1>1 DEF Fields
<1> HIDE DEF d
<1>4. Timed(d)
  BY <1>1, <1>3 DEF Timed
<1> QED
  BY <1>1, <1>2, <1>3, <1>4 DEF Flows, d

LEMMA SensorTypes ==
    ASSUME NEW c, Timed(c)
    PROVE  /\ c.regs.steps \in SUBSET Step /\ c.regs.msrc \in Int
           /\ c.regs.pre \in Encoded /\ c.regs.final \in Encoded
           /\ DecodeVcselPeriod(c.regs.prePeriod) \in Pclks
           /\ DecodeVcselPeriod(c.regs.finalPeriod) \in Pclks
           /\ c.dev.steps \in SUBSET Step /\ c.dev.budget \in Int
           /\ \A v \in SUBSET Step : [c.regs EXCEPT !.steps = v] \in Sensors
           /\ \A v \in Uint8 : [c.regs EXCEPT !.msrc = v] \in Sensors
           /\ \A v \in Encoded : [c.regs EXCEPT !.pre = v] \in Sensors
           /\ \A v \in Encoded : [c.regs EXCEPT !.final = v] \in Sensors
           /\ \A v \in SUBSET Step : [c.dev EXCEPT !.steps = v] \in Device
           /\ \A v \in Int : /\ [c.dev EXCEPT !.budget = v] \in Device
                             /\ [c.dev EXCEPT !.preMicros = v] \in Device
                             /\ [c.dev EXCEPT !.finalMicros = v] \in Device
<1>1. c.regs \in Sensors /\ c.dev \in Device
  BY DEF Timed
<1>2. /\ c.regs.steps \in SUBSET Step /\ c.regs.msrc \in Uint8
      /\ c.regs.pre \in Encoded /\ c.regs.final \in Encoded
      /\ c.regs.prePeriod \in LongPeriod /\ c.regs.finalPeriod \in Period
  BY <1>1 DEF Sensors
<1>3. c.dev.steps \in SUBSET Step /\ c.dev.budget \in Int
  BY <1>1 DEF Device
<1>4. /\ \A v \in SUBSET Step : [c.regs EXCEPT !.steps = v] \in Sensors
      /\ \A v \in Uint8 : [c.regs EXCEPT !.msrc = v] \in Sensors
      /\ \A v \in Encoded : [c.regs EXCEPT !.pre = v] \in Sensors
      /\ \A v \in Encoded : [c.regs EXCEPT !.final = v] \in Sensors
  BY <1>1 DEF Sensors
<1>5. /\ \A v \in SUBSET Step : [c.dev EXCEPT !.steps = v] \in Device
      /\ \A v \in Int : /\ [c.dev EXCEPT !.budget = v] \in Device
                        /\ [c.dev EXCEPT !.preMicros = v] \in Device
                        /\ [c.dev EXCEPT !.finalMicros = v] \in Device
  BY <1>1 DEF Device
<1> QED
  BY <1>2, <1>3, <1>4, <1>5, PeriodsDecoded, LongDecoded, WordsAreInts
-----------------------------------------------------------------------------
(* The parts of a timing call.                                             *)

(* Statuses apart, a part that leaves which steps run alone.               *)
SameSteps(c, d) == d.regs.steps = c.regs.steps /\ d.dev.steps = c.dev.steps
Programs(c, d) == Flows(c, d) /\ SameSteps(c, d)

LEMMA ProgramsChain ==
    ASSUME NEW c, NEW d, NEW e, Timed(c), Programs(c, d), Programs(d, e)
    PROVE  /\ Programs(c, e) /\ (Intact(c, e) => Intact(c, d) /\ Intact(d, e))
           /\ Smooth(c, d) /\ Smooth(d, e) => Smooth(c, e)
  BY FlowsChain DEF Programs, SameSteps

LEMMA ReadsPrograms ==
    ASSUME NEW c, NEW d, Reads(c, d)
    PROVE  Programs(c, d) /\ Smooth(c, d) /\ Timed(d) /\ d.regs = c.regs /\ d.dev = c.dev
  BY DEF Reads, Programs, SameSteps, Flows

LEMMA GetEnablesStep ==
    ASSUME NEW c, Timed(c)
    PROVE  LET d == GetSequenceStepEnables(c) IN
           Reads(c, d) /\ (d.status = "none" => d.seen = c.regs.steps)
<1> DEFINE e == Transfer(c)
           v == IF e.status = "none" THEN c.regs.steps ELSE c.garbage
           d == GetSequenceStepEnables(c)
<1>1. d = [e EXCEPT !.seen = v]
  BY DEF GetSequenceStepEnables
<1>2. Reads(c, e) /\ Timed(e)
  BY TransferStep DEF Reads, Flows
<1>3. v \in SUBSET Step
  BY SensorTypes DEF Timed
<1>4. e.status = "none" => v = c.regs.steps
  OBVIOUS
<1> HIDE DEF d, e, v
<1>5. Reads(e, d) /\ d.seen = v
  BY <1>1, <1>2, <1>3, AssignLocal
<1>6. d.status = e.status
  BY <1>1, <1>2 DEF Timed, Fields
<1> QED
  BY <1>2, <1>4, <1>5, <1>6, ReadsChain DEF d

LEMMA GetShortStep == \A c : Timed(c) => Reads(c, GetShortTimeout(c))
<1> SUFFICES ASSUME NEW c, Timed(c) PROVE Reads(c, GetShortTimeout(c))
  OBVIOUS
<1> DEFINE e == Transfers(c, 2)
           v == CalcTimeoutUs(c.regs.msrc + 1, DecodeVcselPeriod(c.regs.prePeriod))
<1>1. Reads(c, e) /\ Timed(e)
  BY TransfersStep DEF Reads, Flows
<1>2. v \in Int
  <2>1. c.regs.msrc + 1 \in Int
    BY SensorTypes
  <2> QED
    BY <2>1, SensorTypes, CalcUsType
<1>3. GetShortTimeout(c) = [e EXCEPT !.micros = v]
  BY DEF GetShortTimeout
<1> HIDE DEF e, v
<1>4. Reads(e, GetShortTimeout(c))
  BY <1>1, <1>2, <1>3, AssignLocal
<1> QED
  BY <1>1, <1>4, ReadsChain

LEMMA GetPreStep == \A c : Timed(c) => Reads(c, GetPreTimeout(c))
<1> SUFFICES ASSUME NEW c, Timed(c) PROVE Reads(c, GetPreTimeout(c))
  OBVIOUS
<1> DEFINE d == Transfer(c)
           e == IF d.status = "none" THEN Transfer(d) ELSE d
           f == IF e.status = "none" THEN Transfer(e) ELSE e
           t == U16(DecodeTimeout(IF f.status = "none" THEN c.regs.pre ELSE 0))
           v == IF d.status # "none" THEN 0
                ELSE CalcTimeoutUs(t, DecodeVcselPeriod(c.regs.prePeriod))
<1>1. Reads(c, d) /\ Timed(d)
  BY TransferStep DEF Reads, Flows
<1>2. Reads(c, e) /\ Timed(e)
  BY <1>1, TransferStep, ReadsChain DEF Reads, Flows
<1>3. Reads(c, f) /\ Timed(f)
  BY <1>2, TransferStep, ReadsChain DEF Reads, Flows
<1>4. v \in Int
  <2>1. t \in Int
    BY EncodedIs, SensorTypes, DecodeType, Cuts, WordsAreInts
  <2> HIDE DEF t
  <2> QED
    BY <2>1, SensorTypes, CalcUsType
<1>5. GetPreTimeout(c) = [f EXCEPT !.micros = v]
  BY DEF GetPreTimeout, Then
<1> HIDE DEF d, e, f, v
<1>6. Reads(f, GetPreTimeout(c))
  BY <1>3, <1>4, <1>5, AssignLocal
<1> QED
  BY <1>3, <1>6, ReadsChain

LEMMA PreMclksType == \A c : Timed(c) => PreMclks(c) \in Uint16
  BY EncodedIs, SensorTypes, DecodeType, Cuts, WordsAreInts DEF PreMclks

LEMMA GetFinalStep == \A c : Timed(c) => Reads(c, GetFinalTimeout(c))
<1> SUFFICES ASSUME NEW c, Timed(c) PROVE Reads(c, GetFinalTimeout(c))
  OBVIOUS
<1> DEFINE d == GetSequenceStepEnables(c)
           e == IF "PRE" \in d.seen THEN Transfers(d, 2) ELSE [d EXCEPT !.status = "none"]
           f == IF e.status = "none" THEN Transfers(e, 2) ELSE e
           t == U16(U16(DecodeTimeout(c.regs.final)) - PreMclks(d))
           v == CalcTimeoutUs(t, DecodeVcselPeriod(c.regs.finalPeriod))
<1>1. Reads(c, d) /\ Timed(d)
  BY GetEnablesStep DEF Reads, Flows
<1>2. Reads(d, e) /\ Timed(e)
  <2>1. CASE "PRE" \in d.seen
    BY <1>1, <2>1, TransfersStep DEF Reads, Flows
  <2>2. CASE "PRE" \notin d.seen
    BY <1>1, <2>2, AssignLocal, Names DEF Reads, Flows, Smooth
  <2> QED
    BY <2>1, <2>2
<1>3. Reads(e, f) /\ Timed(f)
  BY <1>2, TransfersStep, FlowsSame DEF Reads, Flows
<1>4. v \in Int
  <2>1. U16(DecodeTimeout(c.regs.final)) \in Int /\ PreMclks(d) \in Int
    BY <1>1, EncodedIs, SensorTypes, DecodeType, Cuts, WordsAreInts, PreMclksType
  <2>2. U16(DecodeTimeout(c.regs.final)) - PreMclks(d) \in Int
    BY <2>1
  <2>3. t \in Int
    BY <2>2, Cuts, WordsAreInts
  <2> HIDE DEF t
  <2> QED
    BY <2>3, SensorTypes, CalcUsType
<1>5. GetFinalTimeout(c) = [f EXCEPT !.micros = v]
  BY DEF GetFinalTimeout, Then
<1> HIDE DEF d, e, f, v
<1>6. Reads(f, GetFinalTimeout(c))
  BY <1>3, <1>4, <1>5, AssignLocal
<1> QED
  BY <1>1, <1>2, <1>3, <1>6, ReadsChain

LEMMA GetStepStep ==
    ASSUME NEW c, Timed(c), NEW step \in Step
    PROVE  Reads(c, GetStepTimeout(c, step))
<1>1. step \in ShortSteps \/ step = "PRE" \/ step = "FINAL"
  BY DEF Step, ShortSteps
<1> QED
  BY <1>1, GetShortStep, GetPreStep, GetFinalStep DEF GetStepTimeout, ShortSteps

LEMMA SetShortStep ==
    ASSUME NEW c, Timed(c), NEW us \in Int
    PROVE  Programs(c, SetShortTimeout(c, us)) /\ Smooth(c, SetShortTimeout(c, us))
<1> DEFINE d == Transfers(c, 2)
           v == EncodeMsrcTimeout(CalcTimeoutMclks(us, DecodeVcselPeriod(c.regs.prePeriod)))
           r == [d.regs EXCEPT !.msrc = v]
           e == [d EXCEPT !.regs = r]
<1>1. Reads(c, d) /\ Timed(d)
  BY TransfersStep DEF Reads, Flows
<1>2. v \in Uint8
  BY SensorTypes, CalcMclksType, MsrcType
<1>3. SetShortTimeout(c, us) = IF d.status = "none" THEN e ELSE d
  BY DEF SetShortTimeout, Then
<1> HIDE DEF d, v
<1>4. r \in Sensors /\ r.steps = d.regs.steps
  BY <1>1, <1>2, SensorTypes DEF Timed, Sensors
<1> HIDE DEF r
<1>5. Programs(d, e) /\ Smooth(d, e)
  BY <1>1, <1>4, AssignRegs DEF Programs, SameSteps, Smooth
<1> HIDE DEF e
<1> QED
  BY <1>1, <1>3, <1>5, ReadsPrograms, ProgramsChain

LEMMA SetPreStep ==
    ASSUME NEW c, Timed(c), NEW us \in Int
    PROVE  Programs(c, SetPreTimeout(c, us)) /\ Smooth(c, SetPreTimeout(c, us))
<1> DEFINE d == Transfers(c, 2)
           n == U16(CalcTimeoutMclks(us, DecodeVcselPeriod(c.regs.prePeriod)))
           v == EncodeTimeout(n)
           r == [d.regs EXCEPT !.pre = v]
           m == [d.dev EXCEPT !.preMicros = us]
           e == Both(d, r, m)
<1>1. Reads(c, d) /\ Timed(d)
  BY TransfersStep DEF Reads, Flows
<1>2. v \in Encoded
  <2>1. n \in Uint16
    BY SensorTypes, CalcMclksType, Cuts
  <2> HIDE DEF n
  <2>2. n \in Clocks
    BY <2>1, Uint16Is, SMT DEF Clocks
  <2> QED
    BY <2>2, EncodeType
<1>3. SetPreTimeout(c, us) = IF d.status = "none" THEN e ELSE d
  BY DEF SetPreTimeout, Then, Both
<1> HIDE DEF d, v
<1>4. r \in Sensors /\ r.steps = d.regs.steps /\ m \in Device /\ m.steps = d.dev.steps
  BY <1>1, <1>2, SensorTypes DEF Timed, Sensors, Device
<1> HIDE DEF r, m
<1>5. Programs(d, e) /\ Smooth(d, e)
  <2>1. Flows(d, e) /\ e.regs = r /\ e.dev = m /\ e.status = d.status
    BY <1>1, <1>4, AssignBoth
  <2> HIDE DEF e
  <2> QED
    BY <1>4, <2>1 DEF Programs, SameSteps, Smooth
<1> HIDE DEF e
<1> QED
  BY <1>1, <1>3, <1>5, ReadsPrograms, ProgramsChain

LEMMA SetFinalStep ==
    ASSUME NEW c, Timed(c), NEW us \in Int
    PROVE  Programs(c, SetFinalTimeout(c, us)) /\ Smooth(c, SetFinalTimeout(c, us))
<1> DEFINE d == GetSequenceStepEnables(c)
           e == IF "PRE" \in d.seen THEN Transfers(d, 2) ELSE [d EXCEPT !.status = "none"]
           f == IF e.status = "none" THEN Transfers(e, 2) ELSE e
           n == CalcTimeoutMclks(us, DecodeVcselPeriod(c.regs.finalPeriod))
           v == EncodeTimeout(PreMclks(d) + n)
           r == [f.regs EXCEPT !.final = v]
           m == [f.dev EXCEPT !.finalMicros = us]
           g == Both(f, r, m)
<1>1. Reads(c, d) /\ Timed(d)
  BY GetEnablesStep DEF Reads, Flows
<1>2. Reads(d, e) /\ Timed(e)
  <2>1. CASE "PRE" \in d.seen
    BY <1>1, <2>1, TransfersStep DEF Reads, Flows
  <2>2. CASE "PRE" \notin d.seen
    BY <1>1, <2>2, AssignLocal, Names DEF Reads, Flows, Smooth
  <2> QED
    BY <2>1, <2>2
<1>3. Reads(c, f) /\ Timed(f)
  <2>1. Reads(e, f) /\ Timed(f)
    BY <1>2, TransfersStep, FlowsSame DEF Reads, Flows
  <2> HIDE DEF f
  <2>2. Reads(c, e)
    BY <1>1, <1>2, ReadsChain
  <2> QED
    BY <2>1, <2>2, ReadsChain
<1>4. v \in Encoded
  <2>1. n \in Int /\ 0 <= n /\ n <= 200000
    BY SensorTypes, CalcMclksType
  <2>2. PreMclks(d) \in Uint16
    BY <1>1, PreMclksType
  <2> HIDE DEF n
  <2>3. PreMclks(d) + n \in Clocks
    BY <2>1, <2>2, Uint16Is, SMT DEF Clocks
  <2> QED
    BY <2>3, EncodeType
<1>5. SetFinalTimeout(c, us) = IF f.status = "none" THEN g ELSE f
  BY DEF SetFinalTimeout, Then, Both
<1> HIDE DEF d, e, f, v
<1>6. r \in Sensors /\ r.steps = f.regs.steps /\ m \in Device /\ m.steps = f.dev.steps
  BY <1>3, <1>4, SensorTypes DEF Timed, Sensors, Device
<1> HIDE DEF r, m
<1>7. Programs(f, g) /\ Smooth(f, g)
  <2>1. Flows(f, g) /\ g.regs = r /\ g.dev = m /\ g.status = f.status
    BY <1>3, <1>6, AssignBoth
  <2> HIDE DEF g
  <2> QED
    BY <1>6, <2>1 DEF Programs, SameSteps, Smooth
<1> HIDE DEF g
<1> QED
  BY <1>3, <1>5, <1>7, ReadsPrograms, ProgramsChain

LEMMA SetStepStep ==
    ASSUME NEW c, Timed(c), NEW us \in Int, NEW step \in Step
    PROVE  Programs(c, SetStepTimeout(c, step, us)) /\ Smooth(c, SetStepTimeout(c, step, us))
<1>1. step \in ShortSteps \/ step = "PRE" \/ step = "FINAL"
  BY DEF Step, ShortSteps
<1> QED
  BY <1>1, SetShortStep, SetPreStep, SetFinalStep DEF SetStepTimeout, ShortSteps

(* Whether or not the budget has room, a part of the budget calculation    *)
(* changes only what is left.                                              *)
LEMMA TakeStep ==
    ASSUME NEW c, Timed(c), NEW us \in Int
    PROVE  Programs(c, Take(c, us))
<1>1. c.left - us \in Int
  BY DEF Timed
<1>2. Programs(c, [c EXCEPT !.left = c.left - us])
  BY <1>1, AssignLocal, ReadsPrograms
<1>3. Programs(c, Invalid(c))
  BY AssignLocal, Names DEF Invalid, Fail, Programs, SameSteps
<1>4. Take(c, us) = IF U32Less(us, c.left) THEN [c EXCEPT !.left = c.left - us] ELSE Invalid(c)
  BY DEF Take
<1> QED
  BY <1>2, <1>3, <1>4

LEMMA OverheadTypes ==
    /\ Overhead["TCC"] \in Int /\ Overhead["DSS"] \in Int /\ Overhead["MSRC"] \in Int
    /\ Overhead["PRE"] \in Int /\ Overhead["FINAL"] \in Int /\ StartEndOverhead \in Int
  BY SMT DEF Overhead, StartEndOverhead

LEMMA ProgramsTimed ==
    ASSUME NEW c, Timed(c)
    PROVE  Programs(c, c) /\ \A d : Programs(c, d) => Timed(d)
  BY FlowsSame, ReadsPrograms DEF Programs, Flows

LEMMA TakeShortStep == \A c : Timed(c) => Programs(c, TakeShortSteps(c))
<1> SUFFICES ASSUME NEW c, Timed(c) PROVE Programs(c, TakeShortSteps(c))
  OBVIOUS
<1> DEFINE d == GetShortTimeout(c)
           e == IF "TCC" \in c.seen
                THEN IF d.status = "none" THEN Take(d, d.micros + Overhead["TCC"]) ELSE d
                ELSE d
           f == IF "DSS" \in c.seen THEN Take(e, 2 * (e.micros + Overhead["DSS"]))
                ELSE IF "MSRC" \in c.seen THEN Take(e, e.micros + Overhead["MSRC"])
                ELSE e
<1>1. Programs(c, d) /\ Timed(d)
  BY GetShortStep, ReadsPrograms
<1>2. TakeShortSteps(c) = IF e.status = "none" THEN f ELSE e
  BY DEF TakeShortSteps, Then
<1> HIDE DEF d
<1>3. Programs(d, e) /\ Timed(e)
  <2>1. d.micros + Overhead["TCC"] \in Int
    BY <1>1, OverheadTypes DEF Timed
  <2> QED
    BY <1>1, <2>1, TakeStep, ProgramsTimed
<1> HIDE DEF e
<1>4. Programs(e, f)
  <2>1. 2 * (e.micros + Overhead["DSS"]) \in Int /\ e.micros + Overhead["MSRC"] \in Int
    BY <1>3, OverheadTypes DEF Timed
  <2> QED
    BY <1>3, <2>1, TakeStep, ProgramsTimed
<1> HIDE DEF f
<1> QED
  BY <1>1, <1>2, <1>3, <1>4, ProgramsChain

LEMMA TakePreStep == \A c : Timed(c) => Programs(c, TakePreRange(c))
<1> SUFFICES ASSUME NEW c, Timed(c) PROVE Programs(c, TakePreRange(c))
  OBVIOUS
<1> DEFINE d == GetPreTimeout(c)
           e == Take(d, d.micros + Overhead["PRE"])
<1>1. Programs(c, d) /\ Timed(d)
  BY GetPreStep, ReadsPrograms
<1>2. TakePreRange(c) = IF "PRE" \notin c.seen THEN c ELSE e
  BY DEF TakePreRange
<1> HIDE DEF d
<1>3. Programs(d, e)
  <2>1. d.micros + Overhead["PRE"] \in Int
    BY <1>1, OverheadTypes DEF Timed
  <2> QED
    BY <1>1, <2>1, TakeStep
<1> QED
  BY <1>1, <1>2, <1>3, ProgramsChain, ProgramsTimed

LEMMA GiveRestStep ==
    ASSUME NEW c, Timed(c), NEW us \in Int
    PROVE  Programs(c, GiveRestToFinalRange(c, us))
<1> DEFINE d == SetFinalTimeout(c, c.left - Overhead["FINAL"])
           m == [d.dev EXCEPT !.budget = us]
           e == [d EXCEPT !.dev = m]
<1>1. Programs(c, d) /\ Timed(d)
  <2>1. c.left - Overhead["FINAL"] \in Int
    BY OverheadTypes DEF Timed
  <2> QED
    BY <2>1, SetFinalStep, ProgramsTimed
<1>2. GiveRestToFinalRange(c, us) = IF "FINAL" \notin c.seen THEN c ELSE e
  BY DEF GiveRestToFinalRange
<1> HIDE DEF d
<1>3. m \in Device /\ m.steps = d.dev.steps
  BY <1>1, SensorTypes DEF Timed, Device
<1> HIDE DEF m
<1>4. Programs(d, e)
  BY <1>1, <1>3, AssignDev DEF Programs, SameSteps
<1> QED
  BY <1>1, <1>2, <1>4, ProgramsChain, ProgramsTimed

LEMMA SetBudgetStep ==
    ASSUME NEW c, Timed(c), NEW us \in Int
    PROVE  Programs(c, SetBudget(c, us))
<1> DEFINE b == [c EXCEPT !.left = us - StartEndOverhead]
           d == GetSequenceStepEnables(b)
           e == IF d.status = "none"
                THEN IF d.seen \cap ShortSteps # {} THEN TakeShortSteps(d) ELSE d
                ELSE d
           f == IF e.status = "none" THEN TakePreRange(e) ELSE e
           g == IF f.status = "none" THEN GiveRestToFinalRange(f, us) ELSE f
<1>1. SetBudget(c, us) = g
  BY DEF SetBudget, Then
<1>2. Programs(c, b) /\ Timed(b)
  <2>1. us - StartEndOverhead \in Int
    BY OverheadTypes
  <2> QED
    BY <2>1, AssignLocal, ReadsPrograms
<1> HIDE DEF b
<1>3. Programs(c, d) /\ Timed(d)
  BY <1>2, GetEnablesStep, ReadsPrograms, ProgramsChain
<1> HIDE DEF d
<1>4. Programs(c, e) /\ Timed(e)
  BY <1>3, TakeShortStep, ProgramsChain, ProgramsTimed
<1> HIDE DEF e
<1>5. Programs(c, f) /\ Timed(f)
  BY <1>4, TakePreStep, ProgramsChain, ProgramsTimed
<1> HIDE DEF f
<1>6. Programs(c, g)
  BY <1>5, GiveRestStep, ProgramsChain, ProgramsTimed
<1> QED
  BY <1>1, <1>6

LEMMA AddStep == \A c : Timed(c) => \A us \in Int : Reads(c, Add(c, us))
<1> SUFFICES ASSUME NEW c, Timed(c), NEW us \in Int PROVE Reads(c, Add(c, us))
  OBVIOUS
<1> DEFINE v == c.left + us
<1>1. v \in Int
  BY DEF Timed
<1>2. Add(c, us) = [c EXCEPT !.left = v]
  BY DEF Add
<1> HIDE DEF v
<1> QED
  BY <1>1, <1>2, AssignLocal

LEMMA AddShortStep == \A c : Timed(c) => Reads(c, AddShortSteps(c))
<1> SUFFICES ASSUME NEW c, Timed(c) PROVE Reads(c, AddShortSteps(c))
  OBVIOUS
<1> DEFINE y == GetShortTimeout(c)
           n == ShortTime(c, y.micros)
<1>1. Reads(c, y) /\ Timed(y)
  BY GetShortStep, ReadsPrograms
<1>2. AddShortSteps(c) = IF c.seen \cap ShortSteps = {} THEN c
                         ELSE IF y.status = "none" THEN Add(y, n) ELSE y
  BY DEF AddShortSteps, Then
<1> HIDE DEF y
<1>3. n \in Int
  <2>1. y.micros \in Int
    BY <1>1 DEF Timed
  <2> QED
    BY <2>1, OverheadTypes DEF ShortTime
<1> HIDE DEF n
<1>4. Reads(c, Add(y, n))
  BY <1>1, <1>3, AddStep, ReadsChain
<1> QED
  BY <1>1, <1>2, <1>4, FlowsSame

LEMMA AddRangeSteps ==
    \A c : Timed(c) => Reads(c, AddPreRange(c)) /\ Reads(c, AddFinalRange(c))
<1> SUFFICES ASSUME NEW c, Timed(c)
             PROVE  Reads(c, AddPreRange(c)) /\ Reads(c, AddFinalRange(c))
  OBVIOUS
<1> DEFINE p == GetPreTimeout(c)
           q == GetFinalTimeout(c)
           m == p.micros + Overhead["PRE"]
           n == q.micros + Overhead["FINAL"]
<1>1. Reads(c, p) /\ Timed(p) /\ Reads(c, q) /\ Timed(q)
  BY GetPreStep, GetFinalStep, ReadsPrograms
<1>2. /\ AddPreRange(c) = IF "PRE" \notin c.seen THEN c ELSE Add(p, m)
      /\ AddFinalRange(c) = IF "FINAL" \notin c.seen THEN c ELSE Add(q, n)
  BY DEF AddPreRange, AddFinalRange
<1> HIDE DEF p, q
<1>3. m \in Int /\ n \in Int
  BY <1>1, OverheadTypes DEF Timed
<1> HIDE DEF m, n
<1>4. Reads(c, Add(p, m)) /\ Reads(c, Add(q, n))
  BY <1>1, <1>3, AddStep, ReadsChain
<1> QED
  BY <1>2, <1>4, FlowsSame

LEMMA GetBudgetStep ==
    ASSUME NEW c, Timed(c)
    PROVE  LET d == GetBudget(c) IN
           Programs(c, d) /\ Smooth(c, d) /\ d.regs = c.regs
<1> DEFINE a == GetSequenceStepEnables(c)
           b == [a EXCEPT !.left = StartEndOverhead]
           d == IF b.status = "none" THEN AddShortSteps(b) ELSE b
           e == IF d.status = "none" THEN AddPreRange(d) ELSE d
           f == IF e.status = "none" THEN AddFinalRange(e) ELSE e
           m == [f.dev EXCEPT !.budget = f.left]
           g == [f EXCEPT !.dev = m]
<1>1. GetBudget(c) = IF f.status = "none" THEN g ELSE f
  BY DEF GetBudget, Then
<1>2. Reads(c, a) /\ Timed(a)
  BY GetEnablesStep DEF Reads, Flows
<1> HIDE DEF a
<1>3. Reads(c, b) /\ Timed(b)
  <2>1. Reads(a, b)
    BY <1>2, OverheadTypes, AssignLocal
  <2> HIDE DEF b
  <2> QED
    BY <1>2, <2>1, ReadsChain, ReadsPrograms
<1> HIDE DEF b
<1>4. Reads(c, d) /\ Timed(d)
  BY <1>3, AddShortStep, ReadsChain, ReadsPrograms
<1> HIDE DEF d
<1>5. Reads(c, e) /\ Timed(e)
  BY <1>4, AddRangeSteps, ReadsChain, ReadsPrograms
<1> HIDE DEF e
<1>6. Reads(c, f) /\ Timed(f)
  BY <1>5, AddRangeSteps, ReadsChain, ReadsPrograms
<1> HIDE DEF f
<1>7. m \in Device /\ m.steps = f.dev.steps
  BY <1>6, SensorTypes DEF Timed, Device
<1> HIDE DEF m
<1>8. Programs(f, g) /\ Smooth(f, g) /\ g.regs = f.regs
  BY <1>6, <1>7, AssignDev DEF Programs, SameSteps, Smooth
<1> HIDE DEF g
<1>9. Programs(c, g) /\ Smooth(c, g) /\ g.regs = c.regs
  BY <1>6, <1>8, ProgramsChain, ReadsPrograms
<1> QED
  BY <1>1, <1>6, <1>9, ReadsPrograms

(* Switching a step: the sensor and the device structure change together.  *)
WithSteps(c, w) == [c EXCEPT !.regs.steps = w, !.dev.steps = w]

LEMMA WriteStepsStep ==
    ASSUME NEW c, Timed(c), NEW w \in SUBSET Step
    PROVE  LET d == WithSteps(c, w) IN
           Flows(c, d) /\ Smooth(c, d) /\ d.regs.steps = w
<1> DEFINE r == [c.regs EXCEPT !.steps = w]
           m == [c.dev EXCEPT !.steps = w]
           d == WithSteps(c, w)
<1>1. d = Both(c, r, m)
  BY DEF Both, Timed, Fields, WithSteps
<1>2. r \in Sensors /\ r.steps = w /\ m \in Device
  BY SensorTypes DEF Timed, Sensors
<1> HIDE DEF r, m, d
<1>3. Flows(c, d) /\ d.regs = r /\ d.status = c.status
  BY <1>1, <1>2, AssignBoth
<1> QED
  BY <1>2, <1>3 DEF Smooth, d

(* Steps that are undisturbed become the ones asked for, also when the     *)
(* budget has no room for them: that status is dropped.                    *)
LEMMA EnableStepStep ==
    ASSUME NEW c, Timed(c), NEW step \in Step, NEW on \in BOOLEAN
    PROVE  LET d == EnableStep(c, step, on) IN
           /\ Flows(c, d) /\ Smooth(c, d)
           /\ Intact(c, d) /\ c.status = "none" =>
                 d.regs.steps = (IF on THEN c.regs.steps \cup {step}
                                 ELSE c.regs.steps \ {step})
<1> DEFINE w == IF on THEN c.regs.steps \cup {step} ELSE c.regs.steps \ {step}
           t == Transfer(c)
           u == Transfer(t)
           x == WithSteps(u, w)
           y == IF u.status = "none" THEN x ELSE u
           z == SetBudget(y, y.dev.budget)
           r == [z EXCEPT !.status = "none"]
           d == EnableStep(c, step, on)
<1>1. d = IF t.status = "none"
          THEN IF w = t.regs.steps THEN t
               ELSE IF y.status = "none" THEN r ELSE y
          ELSE t
  BY Zenon DEF EnableStep, Then, WithSteps
<1>2. w \in SUBSET Step
  BY SensorTypes
<1> SUFFICES /\ Flows(c, d) /\ Smooth(c, d)
             /\ Intact(c, d) /\ c.status = "none" => d.regs.steps = w
  OBVIOUS
<1>3. Reads(c, t) /\ Timed(t)
  BY TransferStep, ReadsPrograms
<1> HIDE DEF t, d
<1>4. Reads(t, u) /\ Timed(u)
  BY <1>3, TransferStep, ReadsPrograms
<1> HIDE DEF u, w
<1>5. Flows(u, x) /\ Smooth(u, x) /\ x.regs.steps = w
  BY <1>2, <1>4, WriteStepsStep
<1> HIDE DEF x
<1>6. /\ Flows(t, y) /\ Smooth(t, y) /\ Timed(y)
      /\ Intact(t, y) /\ t.status = "none" => y.regs.steps = w
  <2>1. /\ Flows(t, u) /\ Smooth(t, u)
        /\ Flows(t, x) /\ Smooth(t, x)
    BY <1>3, <1>4, <1>5, FlowsChain DEF Reads
  <2>2. Intact(t, u) /\ t.status = "none" => u.status = "none"
    BY <2>1 DEF Smooth
  <2> QED
    BY <1>5, <2>1, <2>2 DEF Flows
<1> HIDE DEF y
<1>7. Programs(y, z) /\ Timed(z)
  <2>1. y.dev.budget \in Int
    BY <1>6, SensorTypes
  <2> QED
    BY <1>6, <2>1, SetBudgetStep, ProgramsTimed
<1> HIDE DEF z
<1>8. Flows(z, r) /\ r.status = "none" /\ r.regs = z.regs
  BY <1>7, AssignLocal, Names
<1> HIDE DEF r
<1>9. Flows(y, r) /\ r.status = "none" /\ r.regs.steps = y.regs.steps
  BY <1>6, <1>7, <1>8, FlowsChain DEF Programs, SameSteps
<1>10. /\ Flows(t, r) /\ Smooth(t, r) /\ (Intact(t, r) => Intact(t, y))
  BY <1>3, <1>6, <1>9, FlowsChain DEF Smooth
<1>11. CASE t.status # "none"
  BY <1>1, <1>3, <1>11 DEF Reads, Smooth
<1>12. CASE t.status = "none" /\ w = t.regs.steps
  BY <1>1, <1>3, <1>12 DEF Reads
<1>13. CASE t.status = "none" /\ w # t.regs.steps /\ y.status # "none"
  <2>1. d = y /\ ~Intact(t, y)
    BY <1>1, <1>6, <1>13 DEF Smooth
  <2>2. Flows(c, d) /\ (Intact(c, d) => Intact(c, t) /\ Intact(t, d))
    BY <1>3, <1>6, <2>1, FlowsChain DEF Reads
  <2> QED
    BY <2>1, <2>2 DEF Smooth
<1>14. CASE t.status = "none" /\ w # t.regs.steps /\ y.status = "none"
  <2>1. d = r
    BY <1>1, <1>14
  <2>2. Flows(c, d) /\ Smooth(c, d) /\ (Intact(c, d) => Intact(t, d))
    BY <1>3, <1>10, <2>1, FlowsChain DEF Reads
  <2>3. Intact(c, d) /\ c.status = "none" => d.regs.steps = w
    BY <1>6, <1>9, <1>10, <1>14, <2>1, <2>2
  <2> QED
    BY <2>2, <2>3
<1> QED
  BY <1>11, <1>12, <1>13, <1>14

LEMMA WrapAroundStep ==
    ASSUME NEW c, Timed(c), NEW on
    PROVE  Flows(c, WrapAround(c, on)) /\ Smooth(c, WrapAround(c, on))
<1> DEFINE d == GetSequenceStepEnables(c)
           w == IF on THEN d.seen \cup {"FINAL"} ELSE d.seen \ {"FINAL"}
           s == [d EXCEPT !.seen = c.seen]
           e == [s EXCEPT !.status = "none"]
           u == Transfer(e)
           x == WithSteps(u, w)
<1>1. WrapAround(c, on) = IF u.status = "none" THEN x ELSE u
  BY Zenon DEF WrapAround, Overwrite, Done, Then, WithSteps
<1>2. Flows(c, d) /\ Timed(d)
  BY GetEnablesStep DEF Reads, Flows
<1>3. w \in SUBSET Step /\ c.seen \in SUBSET Step
  BY <1>2 DEF Timed, Step
<1> HIDE DEF d, w
<1>4. Flows(d, s) /\ Timed(s)
  BY <1>2, <1>3, AssignLocal DEF Reads, Flows
<1> HIDE DEF s
<1>5. Flows(s, e) /\ Timed(e) /\ e.status = "none"
  BY <1>4, AssignLocal, Names DEF Flows
<1> HIDE DEF e
<1>6. Flows(c, e) /\ Smooth(c, e)
  BY <1>2, <1>4, <1>5, FlowsChain DEF Smooth
<1>7. Reads(e, u) /\ Timed(u)
  BY <1>5, TransferStep, ReadsPrograms
<1> HIDE DEF u
<1>8. Flows(u, x) /\ Smooth(u, x)
  BY <1>3, <1>7, WriteStepsStep
<1> HIDE DEF x
<1>9. Flows(e, x) /\ Smooth(e, x)
  BY <1>5, <1>7, <1>8, FlowsChain DEF Reads
<1>10. Flows(c, x) /\ Smooth(c, x) /\ Flows(c, u) /\ Smooth(c, u)
  BY <1>6, <1>7, <1>9, FlowsChain DEF Reads
<1> QED
  BY <1>1, <1>10

LEMMA FlowsTimed == \A c, d : Flows(c, d) => Timed(d)
  BY DEF Flows

LEMMA ThenFlows ==
    ASSUME NEW c, Timed(c), NEW d, NEW e, Flows(c, d), d.status = "none" => Flows(d, e)
    PROVE  Flows(c, IF d.status = "none" THEN e ELSE d)
  BY FlowsChain

LEMMA ApplyStep == \A c : Timed(c) => Flows(c, Apply(c))
  BY SensorTypes, SetBudgetStep DEF Apply, Programs

LEMMA TakeBackFlows ==
    ASSUME NEW x, Timed(x), NEW step \in Step, NEW v \in Int
    PROVE  Flows(x, OrTakeBack(x, step, v))
<1> DEFINE y == Overwrite(x)
           z == SetStepTimeout(y, step, v)
           a == Apply(z)
<1>1. OrTakeBack(x, step, v) = IF x.status = "none" THEN x
                               ELSE IF z.status = "none" THEN a ELSE z
  BY DEF OrTakeBack, Then
<1>2. Flows(x, y) /\ Timed(y)
  BY AssignLocal, Names, FlowsTimed DEF Overwrite
<1> HIDE DEF y
<1>3. Flows(x, z) /\ Timed(z)
  BY <1>2, SetStepStep, FlowsChain, FlowsTimed DEF Programs
<1> HIDE DEF z
<1>4. Flows(x, a)
  BY <1>3, ApplyStep, FlowsChain
<1> QED
  BY <1>1, <1>3, <1>4, FlowsSame DEF Reads

LEMMA ChangeStepStep ==
    ASSUME NEW c, Timed(c), NEW step \in Step, NEW us \in Int
    PROVE  Flows(c, ChangeStepTimeout(c, step, us))
<1>1. ASSUME NEW x, Timed(x), NEW v \in Int PROVE Flows(x, OrTakeBack(x, step, v))
  BY <1>1, TakeBackFlows
<1>2. ASSUME NEW x, Timed(x)
      PROVE  Flows(x, Exchange(x, step, us))
  <2> DEFINE y == SetStepTimeout(x, step, us)
             z == Apply(y)
             a == OrTakeBack(z, step, x.micros)
  <2>1. Exchange(x, step, us) = IF y.status = "none" THEN a ELSE y
    BY DEF Exchange, Then
  <2>2. Flows(x, y) /\ Timed(y)
    BY <1>2, SetStepStep, FlowsTimed DEF Programs
  <2> HIDE DEF y
  <2>3. Flows(x, z) /\ Timed(z)
    BY <1>2, <2>2, ApplyStep, FlowsChain, FlowsTimed
  <2> HIDE DEF z
  <2>4. x.micros \in Int
    BY <1>2 DEF Timed
  <2>5. Flows(x, a)
    BY <1>1, <1>2, <2>3, <2>4, FlowsChain
  <2> QED
    BY <2>1, <2>2, <2>5
<1> DEFINE g == GetStepTimeout(c, step)
<1>3. ChangeStepTimeout(c, step, us) = IF g.status = "none" THEN Exchange(g, step, us) ELSE g
  BY DEF ChangeStepTimeout, Then
<1>4. Flows(c, g) /\ Timed(g)
  BY GetStepStep, FlowsTimed DEF Reads
<1> HIDE DEF g
<1> QED
  BY <1>2, <1>3, <1>4, ThenFlows

LEMMA WriteLimitsStep ==
    ASSUME NEW c, Timed(c), NEW n \in Nat, NEW r \in Sensors,
           r.steps = c.regs.steps
    PROVE  Programs(c, WriteLimits(c, n, r))
<1> DEFINE t == Transfers(c, n)
           d == [t EXCEPT !.regs = r]
           e == [c EXCEPT !.fuse = -1]
<1>1. WriteLimits(c, n, r) = IF c.fuse = 0 THEN e ELSE d
  BY DEF WriteLimits
<1>2. Programs(c, t) /\ Timed(t)
  BY TransfersStep, ReadsPrograms
<1> HIDE DEF t
<1>3. Programs(t, d)
  BY <1>2, AssignRegs DEF Programs, SameSteps
<1> HIDE DEF d
<1>4. ASSUME c.fuse = 0 PROVE Programs(c, e)
  <2>1. Fields \subseteq DOMAIN c /\ DOMAIN e = DOMAIN c
    BY DEF Timed
  <2>2. Rest(c, e)
    BY <2>1 DEF Rest, Fields
  <2>3. /\ e.fuse = -1 /\ e.status = c.status /\ e.regs = c.regs /\ e.dev = c.dev
        /\ e.seen = c.seen /\ e.garbage = c.garbage /\ e.micros = c.micros
        /\ e.left = c.left /\ e.cal = c.cal
    BY <2>1 DEF Fields
  <2> HIDE DEF e
  <2>4. Timed(e)
    BY <2>1, <2>3 DEF Timed
  <2> QED
    BY <1>4, <2>2, <2>3, <2>4 DEF Flows, Programs, SameSteps
<1> QED
  BY <1>1, <1>2, <1>3, <1>4, ProgramsChain

LEMMA PeriodsEncoded ==
    /\ \A p \in PrePeriods : EncodeVcselPeriod(p) \in LongPeriod
    /\ \A p \in FinalPeriods : EncodeVcselPeriod(p) \in Period
  BY SMT DEF PrePeriods, FinalPeriods, Period, LongPeriod, EncodeVcselPeriod, U8

LEMMA ChangePreStep ==
    ASSUME NEW c, Timed(c), NEW p \in PrePeriods
    PROVE  Programs(c, ChangePrePeriod(c, p))
<1> DEFINE r == [c.regs EXCEPT !.preLimits = p]
           d == WriteLimits(c, 2, r)
           pre == IF d.status = "none" THEN GetPreTimeout(d) ELSE d
           short == IF pre.status = "none" THEN GetShortTimeout(pre) ELSE pre
           t == IF short.status = "none" THEN Transfer(short) ELSE short
           v == [t.regs EXCEPT !.prePeriod = EncodeVcselPeriod(p)]
           w == [t EXCEPT !.regs = v]
           period == IF t.status = "none" THEN w ELSE t
           x == IF period.status = "none" THEN SetPreTimeout(period, pre.micros) ELSE period
           y == IF x.status = "none" THEN SetShortTimeout(x, short.micros) ELSE x
<1>1. ChangePrePeriod(c, p) = y
  BY DEF ChangePrePeriod, Then
<1>2. r \in Sensors /\ r.steps = c.regs.steps
  BY DEF Timed, Sensors
<1> HIDE DEF r
<1>3. Programs(c, d) /\ Timed(d)
  BY <1>2, WriteLimitsStep, ProgramsTimed
<1> HIDE DEF d
<1>4. Programs(c, pre) /\ Timed(pre)
  BY <1>3, GetPreStep, ProgramsChain, ProgramsTimed, ReadsPrograms
<1> HIDE DEF pre
<1>5. Programs(c, short) /\ Timed(short)
  BY <1>4, GetShortStep, ProgramsChain, ProgramsTimed, ReadsPrograms
<1> HIDE DEF short
<1>6. Programs(c, t) /\ Timed(t)
  BY <1>5, TransferStep, ProgramsChain, ProgramsTimed, ReadsPrograms
<1> HIDE DEF t
<1>7. v \in Sensors /\ v.steps = t.regs.steps
  BY <1>6, PeriodsEncoded DEF Timed, Sensors
<1> HIDE DEF v
<1>8. Programs(t, w)
  BY <1>6, <1>7, AssignRegs DEF Programs, SameSteps
<1> HIDE DEF w
<1>9. Programs(c, period) /\ Timed(period)
  BY <1>6, <1>8, ProgramsChain, ProgramsTimed
<1> HIDE DEF period
<1>10. pre.micros \in Int /\ short.micros \in Int
  BY <1>4, <1>5 DEF Timed
<1>11. Programs(c, x) /\ Timed(x)
  BY <1>9, <1>10, SetPreStep, ProgramsChain, ProgramsTimed
<1> HIDE DEF x
<1>12. Programs(c, y)
  BY <1>10, <1>11, SetShortStep, ProgramsChain
<1> QED
  BY <1>1, <1>12

LEMMA ChangeFinalStep ==
    ASSUME NEW c, Timed(c), NEW p \in FinalPeriods
    PROVE  Programs(c, ChangeFinalPeriod(c, p))
<1> DEFINE r == [c.regs EXCEPT !.finalLimits = p]
           d == WriteLimits(c, 7, r)
           final == IF d.status = "none" THEN GetFinalTimeout(d) ELSE d
           t == IF final.status = "none" THEN Transfer(final) ELSE final
           v == [t.regs EXCEPT !.finalPeriod = EncodeVcselPeriod(p)]
           w == [t EXCEPT !.regs = v]
           period == IF t.status = "none" THEN w ELSE t
           x == IF period.status = "none" THEN SetFinalTimeout(period, final.micros) ELSE period
<1>1. ChangeFinalPeriod(c, p) = x
  BY DEF ChangeFinalPeriod, Then
<1>2. r \in Sensors /\ r.steps = c.regs.steps
  BY DEF Timed, Sensors
<1> HIDE DEF r
<1>3. Programs(c, d) /\ Timed(d)
  BY <1>2, WriteLimitsStep, ProgramsTimed
<1> HIDE DEF d
<1>4. Programs(c, final) /\ Timed(final)
  BY <1>3, GetFinalStep, ProgramsChain, ProgramsTimed, ReadsPrograms
<1> HIDE DEF final
<1>6. Programs(c, t) /\ Timed(t)
  BY <1>4, TransferStep, ProgramsChain, ProgramsTimed, ReadsPrograms
<1> HIDE DEF t
<1>7. v \in Sensors /\ v.steps = t.regs.steps
  BY <1>6, PeriodsEncoded DEF Timed, Sensors
<1> HIDE DEF v
<1>8. Programs(t, w)
  BY <1>6, <1>7, AssignRegs DEF Programs, SameSteps
<1> HIDE DEF w
<1>9. Programs(c, period) /\ Timed(period)
  BY <1>6, <1>8, ProgramsChain, ProgramsTimed
<1> HIDE DEF period
<1>10. final.micros \in Int
  BY <1>4 DEF Timed
<1>11. Programs(c, x)
  BY <1>9, <1>10, SetFinalStep, ProgramsChain
<1> QED
  BY <1>1, <1>11

LEMMA CalibrationStep ==
    ASSUME NEW c, Timed(c)
    PROVE  Flows(c, PerformPhaseCalibration(c))
<1> DEFINE t == Transfer(c)
           r == [t.regs EXCEPT !.steps = {}]
           a == [t EXCEPT !.regs = r]
           running == IF t.status = "none" THEN a ELSE t
           s == IF running.cal = "ok" THEN "none" ELSE running.cal
           b == [running EXCEPT !.status = s]
           done == IF running.status = "none" THEN b ELSE running
           u == IF done.status = "none" THEN Transfer(done) ELSE done
           v == [u.regs EXCEPT !.steps = u.dev.steps]
           e == [u EXCEPT !.regs = v]
<1>1. PerformPhaseCalibration(c) = IF u.status = "none" THEN e ELSE u
  BY DEF PerformPhaseCalibration, Then
<1>2. Flows(c, t) /\ Timed(t)
  BY TransferStep, FlowsTimed DEF Reads
<1> HIDE DEF t
<1>3. r \in Sensors
  BY <1>2, SensorTypes
<1> HIDE DEF r
<1>4. Flows(t, a)
  BY <1>2, <1>3, AssignRegs
<1> HIDE DEF a
<1>5. Flows(c, running) /\ Timed(running)
  BY <1>2, <1>4, FlowsChain, FlowsTimed
<1> HIDE DEF running
<1>6. s \in Statuses
  BY <1>5, Names DEF Timed, Ends, Statuses
<1> HIDE DEF s
<1>7. Flows(running, b)
  BY <1>5, <1>6, AssignLocal
<1> HIDE DEF b
<1>8. Flows(c, done) /\ Timed(done)
  BY <1>5, <1>7, FlowsChain, FlowsTimed
<1> HIDE DEF done
<1>9. Flows(c, u) /\ Timed(u)
  BY <1>8, TransferStep, FlowsChain, FlowsTimed DEF Reads
<1> HIDE DEF u
<1>10. v \in Sensors
  BY <1>9, SensorTypes
<1> HIDE DEF v
<1>11. Flows(u, e)
  BY <1>9, <1>10, AssignRegs
<1> HIDE DEF e
<1> QED
  BY <1>1, <1>9, <1>11, FlowsChain
-----------------------------------------------------------------------------
(* The invariant of the timing: its types, with the periods of a laser.    *)
TimingInv == regs \in Sensors /\ dev \in Device /\ CallTypeOK

LEMMA TimingInvTypes == TimingInv => TimingTypeOK
<1>1. \A r \in Sensors : r \in Registers
  <2>1. Period \subseteq Uint8
    BY Uint8Is, SMT DEF Period
  <2> QED
    BY <2>1, EncodedIs, LongDecoded DEF Sensors, Registers
<1> QED
  BY <1>1 DEF TimingInv, TimingTypeOK, Device

LEMMA BeginTimed ==
    ASSUME regs \in Sensors, dev \in Device,
           NEW f \in Int, NEW g \in SUBSET Step, NEW k \in Ends
    PROVE  Timed(Begin(f, g, k))
<1> DEFINE c == Begin(f, g, k)
<1>1. Fields \subseteq DOMAIN c
  BY DEF Begin, Fields
<1>2. /\ c.fuse = f /\ c.status = "none" /\ c.regs = regs /\ c.dev = dev
      /\ c.seen = g /\ c.garbage = g /\ c.micros = 0 /\ c.left = 0 /\ c.cal = k
  BY DEF Begin
<1> HIDE DEF c
<1> QED
  BY <1>1, <1>2, Names DEF Timed, c

LEMMA TimingReturnStep ==
    ASSUME TimingInv, NEW op, NEW f \in Int, NEW c, Timed(c), TimingReturn(op, f, c)
    PROVE  TimingInv'
<1>1. regs' \in Sensors /\ dev' \in Device /\ c.status \in Statuses
  BY DEF TimingReturn, Timed
<1>2. CallTypeOK'
  BY <1>1 DEF TimingReturn, Ended, TimingInv, CallTypeOK, Lost
<1> QED
  BY <1>1, <1>2 DEF TimingInv

LEMMA TunedTimed == Timed(Tuned)
<1>1. Fields \subseteq DOMAIN Tuned
  BY DEF Tuned, Fields
<1>2. /\ Tuned.fuse \in Int /\ Tuned.status \in Statuses /\ Tuned.cal \in Ends
      /\ Tuned.seen \in SUBSET Step /\ Tuned.garbage \in SUBSET Step
      /\ Tuned.micros \in Int /\ Tuned.left \in Int
  BY Names DEF Tuned, Ends
<1>3. Tuned.dev \in Device
  BY DEF Tuned, Device, Step
<1>4. 37 \in Uint8 /\ 150 \in Encoded /\ 256 + 254 \in Encoded /\ 6 \in LongPeriod
      /\ 4 \in Period /\ 14 \in PrePeriods /\ 10 \in FinalPeriods
  BY Uint8Is, Uint16Is, SMT DEF Encoded, Period, LongPeriod, PrePeriods, FinalPeriods
<1>5. Tuned.regs \in Sensors
  BY <1>4 DEF Tuned, Sensors, Step
<1> QED
  BY <1>1, <1>2, <1>3, <1>5 DEF Timed

LEMMA StartedTimed == Timed(Started)
<1> DEFINE b == GetBudget(Tuned)
           c == EnableStep(b, "TCC", FALSE)
           p == GetPreTimeout(c)
           m == [c.dev EXCEPT !.preMicros = p.micros]
           d == [c EXCEPT !.dev = m]
<1>1. Timed(Tuned)
  BY TunedTimed
<1>2. Started = SetBudget(d, 200000)
  BY DEF Started
<1>3. Timed(b)
  BY <1>1, GetBudgetStep, ProgramsTimed
<1> HIDE DEF b
<1>4. Timed(c)
  BY <1>3, EnableStepStep, FlowsTimed DEF Step
<1> HIDE DEF c
<1>5. p.micros \in Int
  BY <1>4, GetPreStep, FlowsTimed DEF Reads, Timed
<1> HIDE DEF p
<1>6. m \in Device
  BY <1>4, <1>5, SensorTypes
<1> HIDE DEF m
<1>7. Timed(d)
  BY <1>4, <1>6, AssignDev, FlowsTimed
<1> HIDE DEF d
<1> QED
  BY <1>2, <1>7, SetBudgetStep, ProgramsTimed

LEMMA TimingStep ==
    ASSUME TimingInv, TimingNext
    PROVE  TimingInv'
<1>1. regs \in Sensors /\ dev \in Device
  BY DEF TimingInv
<1>2. Garbage \subseteq SUBSET Step /\ {} \in SUBSET Step /\ "ok" \in Ends
  BY DEF Garbage, Step, Ends
<1>3. Faults \subseteq Int /\ Budgets \subseteq Int /\ StepMicros \subseteq Int /\ -1 \in Int
  BY InputAssumption
<1>4. ASSUME NEW f \in Faults, NEW g \in Garbage, NEW k \in Ends
      PROVE  Timed(Begin(f, g, k)) /\ f \in Int
  BY <1>1, <1>2, <1>3, <1>4, BeginTimed
<1>5. CASE SetMeasurementTimingBudgetMicroSeconds
  <2>1. PICK us \in Budgets, f \in Faults, g \in Garbage :
            TimingReturn("SetBudget", f, SetBudget(Begin(f, g, "ok"), us))
    BY <1>5 DEF SetMeasurementTimingBudgetMicroSeconds
  <2>2. Timed(SetBudget(Begin(f, g, "ok"), us))
    BY <1>2, <1>3, <1>4, SetBudgetStep, ProgramsTimed
  <2> QED
    BY <1>4, <1>2, <2>1, <2>2, TimingReturnStep
<1>6. CASE GetMeasurementTimingBudgetMicroSeconds
  <2>1. PICK f \in Faults, g \in Garbage :
            TimingReturn("GetBudget", f, GetBudget(Begin(f, g, "ok")))
    BY <1>6 DEF GetMeasurementTimingBudgetMicroSeconds
  <2>2. Timed(GetBudget(Begin(f, g, "ok")))
    BY <1>2, <1>4, GetBudgetStep, ProgramsTimed
  <2> QED
    BY <1>4, <1>2, <2>1, <2>2, TimingReturnStep
<1>7. CASE SetSequenceStepEnable
  <2>1. PICK step \in Step, on \in BOOLEAN, f \in Faults, g \in Garbage :
            TimingReturn("SetStepEnable", f, EnableStep(Begin(f, g, "ok"), step, on))
    BY <1>7 DEF SetSequenceStepEnable
  <2>2. Timed(EnableStep(Begin(f, g, "ok"), step, on))
    BY <1>2, <1>4, EnableStepStep, FlowsTimed
  <2> QED
    BY <1>4, <1>2, <2>1, <2>2, TimingReturnStep
<1>8. CASE SetWrapAroundCheckEnable
  <2>1. PICK on \in BOOLEAN, f \in {-1, 0, 1}, g \in Garbage :
            TimingReturn("SetWrapAround", f, WrapAround(Begin(f, g, "ok"), on))
    BY <1>8 DEF SetWrapAroundCheckEnable
  <2>2. Timed(Begin(f, g, "ok")) /\ f \in Int
    BY <1>1, <1>2, <1>3, BeginTimed
  <2>3. Timed(WrapAround(Begin(f, g, "ok"), on))
    BY <2>2, WrapAroundStep, FlowsTimed
  <2> QED
    BY <1>3, <2>1, <2>2, <2>3, TimingReturnStep
<1>9. CASE SetSequenceStepTimeout
  <2>1. PICK step \in Step, us \in StepMicros, f \in Faults, g \in Garbage :
            TimingReturn("SetStepTimeout", f,
                ChangeStepTimeout(Begin(f, g, "ok"), step, MillisecondsToMicros(us)))
    BY <1>9 DEF SetSequenceStepTimeout
  <2>2. MillisecondsToMicros(us) \in Int
    BY <1>3, Cuts, WordsAreInts DEF MillisecondsToMicros
  <2>3. Timed(ChangeStepTimeout(Begin(f, g, "ok"), step, MillisecondsToMicros(us)))
    BY <1>2, <1>4, <2>2, ChangeStepStep, FlowsTimed
  <2> QED
    BY <1>4, <1>2, <2>1, <2>3, TimingReturnStep
<1>10. CASE SetVcselPulsePeriod
  <2>1. PICK type \in {"PRE", "FINAL"}, p \in 8 .. 18, f \in Faults, g \in Garbage,
             k \in {"ok", "io", "timeout"} :
        LET c == Begin(f, g, k)
            d == IF p \notin (IF type = "PRE" THEN PrePeriods ELSE FinalPeriods)
                 THEN Invalid(c)
                 ELSE IF type = "PRE" THEN ChangePrePeriod(c, p)
                 ELSE ChangeFinalPeriod(c, p)
            e == Then(d, LAMBDA x : SetBudget(x, x.dev.budget))
        IN  TimingReturn("SetVcsel", f, Then(e, PerformPhaseCalibration))
    BY <1>10 DEF SetVcselPulsePeriod
  <2> DEFINE c == Begin(f, g, k)
             d == IF p \notin (IF type = "PRE" THEN PrePeriods ELSE FinalPeriods)
                  THEN Invalid(c)
                  ELSE IF type = "PRE" THEN ChangePrePeriod(c, p)
                  ELSE ChangeFinalPeriod(c, p)
             e == IF d.status = "none" THEN Apply(d) ELSE d
             h == IF e.status = "none" THEN PerformPhaseCalibration(e) ELSE e
  <2>2. TimingReturn("SetVcsel", f, h)
    BY <2>1, Zenon DEF Then, Apply
  <2>3. Timed(c) /\ f \in Int
    BY <1>4 DEF Ends
  <2> HIDE DEF c
  <2>4. Timed(d)
    <3>1. Timed(Invalid(c))
      BY <2>3, AssignLocal, Names, FlowsTimed DEF Invalid, Fail
    <3>2. p \in PrePeriods => Timed(ChangePrePeriod(c, p))
      BY <2>3, ChangePreStep, ProgramsTimed
    <3>3. p \in FinalPeriods => Timed(ChangeFinalPeriod(c, p))
      BY <2>3, ChangeFinalStep, ProgramsTimed
    <3> QED
      BY <3>1, <3>2, <3>3
  <2> HIDE DEF d
  <2>5. Timed(e)
    BY <2>4, ApplyStep, FlowsTimed
  <2> HIDE DEF e
  <2>6. Timed(h)
    BY <2>5, CalibrationStep, FlowsTimed
  <2> HIDE DEF h
  <2> QED
    BY <2>2, <2>3, <2>6, TimingReturnStep
<1> QED
  BY <1>5, <1>6, <1>7, <1>8, <1>9, <1>10 DEF TimingNext

LEMMA TimingInvariant == TimingSpec => []TimingInv
<1>1. TimingInit => TimingInv
  <2>1. Started.regs \in Sensors /\ Started.dev \in Device
    BY StartedTimed DEF Timed
  <2> QED
    BY <2>1, Names DEF TimingInit, TimingInv, CallInit, CallTypeOK
<1>2. TimingInv /\ [TimingNext]_timingVars => TimingInv'
  <2>1. TimingInv /\ UNCHANGED timingVars => TimingInv'
    BY DEF TimingInv, CallTypeOK, timingVars
  <2> QED
    BY <2>1, TimingStep
<1> QED
  BY <1>1, <1>2, PTL DEF TimingSpec

(* Whatever is asked for and whatever is lost, the timing registers and    *)
(* what the driver remembers of them stay within their widths, the periods *)
(* are always ones the laser has, and a call ends with a status of the     *)
(* library.                                                                *)
THEOREM TimingTypes == TimingSpec => []TimingTypeOK
  BY TimingInvariant, TimingInvTypes, PTL
-----------------------------------------------------------------------------
(* Settings.  Sound(s): every field has its type; sigma and ref, which no  *)
(* computation of the driver uses, and micro may hold anything.            *)
SetFields == {"final", "pre", "msrcOff", "preOff", "xtalk", "offset", "period", "on",
              "value", "xtalkOn", "xtalkRate", "gain", "micro", "fraction", "millis",
              "range", "sigma", "ref", "rangeStatus", "failed"}

FieldOK(x, v) ==
    /\ x \in {"final", "pre", "xtalk", "range"} => v \in Uint16
    /\ x = "offset" => v \in Twelve
    /\ x \in {"msrcOff", "preOff", "xtalkOn", "fraction"} => v \in Bit
    /\ x \in {"xtalkRate", "millis", "period"} => v \in Int
    /\ x = "on" => v \in [Check -> Bit]
    /\ x = "value" => v \in [Check -> Int]
    /\ x = "gain" => v \in Thousand
    /\ x = "rangeStatus" => v \in Uint8
    /\ x = "failed" => v \in SUBSET Check

Sound(s) == SetFields \subseteq DOMAIN s /\ \A x \in SetFields : FieldOK(x, s[x])
Assign(s, x, v) == [s EXCEPT ![x] = v]

LEMMA SoundTypes ==
    ASSUME NEW s, Sound(s)
    PROVE  /\ s.final \in Uint16 /\ s.pre \in Uint16 /\ s.xtalk \in Uint16
           /\ s.range \in Uint16 /\ s.offset \in Twelve /\ s.msrcOff \in Bit
           /\ s.preOff \in Bit /\ s.xtalkOn \in Bit /\ s.fraction \in Bit
           /\ s.xtalkRate \in Int /\ s.millis \in Int /\ s.period \in Int
           /\ s.on \in [Check -> Bit] /\ s.value \in [Check -> Int]
           /\ s.gain \in Thousand /\ s.rangeStatus \in Uint8 /\ s.failed \in SUBSET Check
<1>1. \A x \in SetFields : FieldOK(x, s[x])
  BY DEF Sound
<1>2. /\ FieldOK("final", s.final) /\ FieldOK("pre", s.pre) /\ FieldOK("xtalk", s.xtalk)
      /\ FieldOK("range", s.range) /\ FieldOK("offset", s.offset)
      /\ FieldOK("msrcOff", s.msrcOff) /\ FieldOK("preOff", s.preOff)
      /\ FieldOK("xtalkOn", s.xtalkOn) /\ FieldOK("fraction", s.fraction)
  BY <1>1 DEF SetFields
<1>3. /\ FieldOK("xtalkRate", s.xtalkRate) /\ FieldOK("millis", s.millis)
      /\ FieldOK("period", s.period) /\ FieldOK("on", s.on) /\ FieldOK("value", s.value)
      /\ FieldOK("gain", s.gain) /\ FieldOK("rangeStatus", s.rangeStatus)
      /\ FieldOK("failed", s.failed)
  BY <1>1 DEF SetFields
<1>4. /\ s.final \in Uint16 /\ s.pre \in Uint16 /\ s.xtalk \in Uint16
      /\ s.range \in Uint16 /\ s.offset \in Twelve /\ s.msrcOff \in Bit
      /\ s.preOff \in Bit /\ s.xtalkOn \in Bit /\ s.fraction \in Bit
  BY <1>2 DEF FieldOK
<1>5. /\ s.xtalkRate \in Int /\ s.millis \in Int /\ s.period \in Int
      /\ s.on \in [Check -> Bit] /\ s.value \in [Check -> Int]
      /\ s.gain \in Thousand /\ s.rangeStatus \in Uint8 /\ s.failed \in SUBSET Check
  BY <1>3 DEF FieldOK
<1> QED
  BY <1>4, <1>5

LEMMA SoundAssign ==
    ASSUME NEW s, Sound(s), NEW x \in SetFields, NEW v, FieldOK(x, v)
    PROVE  /\ Sound(Assign(s, x, v)) /\ Assign(s, x, v)[x] = v
           /\ \A y \in SetFields : y # x => Assign(s, x, v)[y] = s[y]
<1> DEFINE t == Assign(s, x, v)
<1>1. SetFields \subseteq DOMAIN s /\ x \in DOMAIN s
  BY DEF Sound
<1>2. DOMAIN t = DOMAIN s /\ t[x] = v /\ \A y \in SetFields : y # x => t[y] = s[y]
  BY <1>1 DEF Assign
<1> HIDE DEF t
<1>3. \A y \in SetFields : FieldOK(y, t[y])
  <2> TAKE y \in SetFields
  <2>1. CASE y = x
    BY <1>2, <2>1
  <2>2. CASE y # x
    BY <1>2, <2>2 DEF Sound
  <2> QED
    BY <2>1, <2>2
<1>4. Sound(t)
  BY <1>1, <1>2, <1>3 DEF Sound
<1> QED
  BY <1>2, <1>4 DEF t

(* LimitChecksAgree and CompensatedOnce of the settings of a call record.  *)
AgreeFinal(s) == s.final = IF s.on["final"] = 1 THEN To97(s.value["final"]) ELSE 0
AgreePre(s) == s.preOff = 1 - s.on["pre"]
Once(s) == s.xtalk # 0 => s.gain = 1000 /\ s.xtalkOn = 1 /\ s.xtalk = To313(s.xtalkRate)

Agreed(s, t) == (AgreeFinal(s) => AgreeFinal(t)) /\ (AgreePre(s) => AgreePre(t))
Kept(s, t) == Agreed(s, t) /\ (Once(s) => Once(t))

Settled(c) == Timed(c) /\ "set" \in DOMAIN c /\ Sound(c.set)
Having(c, s) == [c EXCEPT !.set = s]

(* A part of a call with settings: what agrees stays so whatever is lost,  *)
(* and compensation stays single if nothing is.                            *)
Moves(c, d) ==
    /\ Settled(d) /\ d.fuse <= c.fuse
    /\ Agreed(c.set, d.set)
    /\ Intact(c, d) /\ Once(c.set) => Once(d.set)

(* One that leaves the timing registers alone, and a crosstalk register    *)
(* of 0.                                                                   *)
Leaves(c, d) == d.regs = c.regs /\ (c.set.xtalk = 0 => d.set.xtalk = 0)

LEMMA KeptSame == \A s : Kept(s, s)
  BY DEF Kept, Agreed

LEMMA MovesSame == \A c : Settled(c) => Moves(c, c) /\ Leaves(c, c) /\ Smooth(c, c)
  BY DEF Moves, Leaves, Smooth, Agreed, Settled, Timed

LEMMA MovesChain ==
    ASSUME NEW c, NEW d, NEW e, Settled(c), Moves(c, d), Moves(d, e)
    PROVE  /\ Moves(c, e) /\ (Intact(c, e) => Intact(c, d) /\ Intact(d, e))
           /\ Smooth(c, d) /\ Smooth(d, e) => Smooth(c, e)
           /\ Leaves(c, d) /\ Leaves(d, e) => Leaves(c, e)
<1>1. c.fuse \in Int /\ d.fuse \in Int /\ e.fuse \in Int /\ d.fuse <= c.fuse /\ e.fuse <= d.fuse
  BY DEF Moves, Settled, Timed
<1>2. Intact(c, e) => Intact(c, d) /\ Intact(d, e)
  BY <1>1 DEF Intact
<1>3. e.fuse <= c.fuse
  BY <1>1
<1>4. Moves(c, e)
  BY <1>2, <1>3 DEF Moves, Agreed
<1> QED
  BY <1>2, <1>4 DEF Smooth, Leaves

(* A part of a timing call leaves the settings alone.                      *)
LEMMA FlowsMoves ==
    ASSUME NEW c, NEW d, Settled(c), Flows(c, d)
    PROVE  Moves(c, d) /\ d.set = c.set
<1>1. d.set = c.set /\ "set" \in DOMAIN d
  BY DEF Flows, Rest, Settled, Fields
<1>2. Settled(d)
  BY <1>1 DEF Settled, Flows
<1> QED
  BY <1>1, <1>2 DEF Moves, Flows, Agreed

LEMMA HavingStep ==
    ASSUME NEW c, Settled(c), NEW s, Sound(s)
    PROVE  LET d == Having(c, s) IN
           /\ Settled(d) /\ d.set = s /\ d.fuse = c.fuse /\ d.status = c.status
           /\ d.regs = c.regs /\ d.dev = c.dev
<1> DEFINE d == Having(c, s)
<1>1. Fields \subseteq DOMAIN c /\ "set" \in DOMAIN c
  BY DEF Settled, Timed
<1>2. DOMAIN d = DOMAIN c /\ d.set = s
  BY <1>1 DEF Having
<1>3. /\ d.fuse = c.fuse /\ d.status = c.status /\ d.regs = c.regs /\ d.dev = c.dev
      /\ d.seen = c.seen /\ d.garbage = c.garbage /\ d.micros = c.micros
      /\ d.left = c.left /\ d.cal = c.cal
  BY <1>1 DEF Having, Fields
<1> HIDE DEF d
<1>4. Timed(d)
  BY <1>1, <1>2, <1>3 DEF Timed, Settled
<1> QED
  BY <1>1, <1>2, <1>3, <1>4 DEF Settled, d

(* Settings assigned after transfers that all arrived, from c to t.        *)
LEMMA PutStep ==
    ASSUME NEW c, Settled(c), NEW t, Reads(c, t), NEW s, Sound(s), Kept(c.set, s)
    PROVE  LET d == IF t.status = "none" THEN Having(t, s) ELSE t IN
           /\ Moves(c, d) /\ Smooth(c, d) /\ d.regs = c.regs /\ d.dev = c.dev
           /\ d.status = t.status /\ d.fuse = t.fuse
           /\ d.set = IF t.status = "none" THEN s ELSE c.set
<1> DEFINE h == Having(t, s)
<1>1. Moves(c, t) /\ t.set = c.set /\ Settled(t)
  BY FlowsMoves DEF Reads, Moves
<1>2. /\ Settled(h) /\ h.set = s /\ h.fuse = t.fuse /\ h.status = t.status
      /\ h.regs = t.regs /\ h.dev = t.dev
  BY <1>1, HavingStep
<1> HIDE DEF h
<1>3. Moves(c, h)
  BY <1>1, <1>2 DEF Moves, Kept
<1>4. Smooth(c, t) /\ Smooth(c, h) /\ t.regs = c.regs /\ t.dev = c.dev
  BY <1>2 DEF Reads, Smooth, Intact
<1> QED
  BY <1>1, <1>2, <1>3, <1>4 DEF h

LEMMA HavingTwice ==
    ASSUME NEW c, Settled(c), NEW s, NEW t
    PROVE  Having(Having(c, s), t) = Having(c, t)
<1>1. "set" \in DOMAIN c
  BY DEF Settled
<1> QED
  BY <1>1 DEF Having

(* The fields that agreement and compensation are about.                   *)
CoreIs(s, final, on, value, preOff, xtalk, gain, xtalkOn, xtalkRate) ==
    /\ Sound(s) /\ s.final = final /\ s.on = on /\ s.value = value /\ s.preOff = preOff
    /\ s.xtalk = xtalk /\ s.gain = gain /\ s.xtalkOn = xtalkOn /\ s.xtalkRate = xtalkRate

Core == {"final", "on", "value", "preOff", "xtalk", "gain", "xtalkOn", "xtalkRate"}

LEMMA AssignCore ==
    ASSUME NEW s, Sound(s)
    PROVE  /\ \A v \in Uint16 :
                 CoreIs(Assign(s, "final", v), v, s.on, s.value, s.preOff, s.xtalk, s.gain, s.xtalkOn, s.xtalkRate)
           /\ \A v \in [Check -> Bit] :
                 CoreIs(Assign(s, "on", v), s.final, v, s.value, s.preOff, s.xtalk, s.gain, s.xtalkOn, s.xtalkRate)
           /\ \A v \in [Check -> Int] :
                 CoreIs(Assign(s, "value", v), s.final, s.on, v, s.preOff, s.xtalk, s.gain, s.xtalkOn, s.xtalkRate)
           /\ \A v \in Bit :
                 CoreIs(Assign(s, "preOff", v), s.final, s.on, s.value, v, s.xtalk, s.gain, s.xtalkOn, s.xtalkRate)
           /\ \A v \in Uint16 :
                 CoreIs(Assign(s, "xtalk", v), s.final, s.on, s.value, s.preOff, v, s.gain, s.xtalkOn, s.xtalkRate)
           /\ \A v \in Bit :
                 CoreIs(Assign(s, "xtalkOn", v), s.final, s.on, s.value, s.preOff, s.xtalk, s.gain, v, s.xtalkRate)
           /\ \A v \in Int :
                 CoreIs(Assign(s, "xtalkRate", v), s.final, s.on, s.value, s.preOff, s.xtalk, s.gain, s.xtalkOn, v)
           /\ \A v \in Thousand :
                 CoreIs(Assign(s, "gain", v), s.final, s.on, s.value, s.preOff, s.xtalk, v, s.xtalkOn, s.xtalkRate)
<1>1. Core \subseteq SetFields
  BY DEF Core, SetFields
<1>2. /\ \A v \in Uint16 : FieldOK("final", v) /\ FieldOK("xtalk", v)
      /\ \A v \in Bit : FieldOK("preOff", v) /\ FieldOK("xtalkOn", v)
      /\ \A v \in Int : FieldOK("xtalkRate", v)
  BY DEF FieldOK
<1>3. /\ \A v \in [Check -> Bit] : FieldOK("on", v)
      /\ \A v \in [Check -> Int] : FieldOK("value", v)
      /\ \A v \in Thousand : FieldOK("gain", v)
  BY DEF FieldOK
<1>4. ASSUME NEW x \in Core, NEW v, FieldOK(x, v)
      PROVE  LET t == Assign(s, x, v) IN
             Sound(t) /\ t[x] = v /\ \A y \in Core : y # x => t[y] = s[y]
  BY <1>1, <1>4, SoundAssign
<1>5. \A v \in Uint16 :
          CoreIs(Assign(s, "final", v), v, s.on, s.value, s.preOff, s.xtalk, s.gain, s.xtalkOn, s.xtalkRate)
  BY <1>2, <1>3, <1>4 DEF Core, CoreIs
<1>6. \A v \in [Check -> Bit] :
          CoreIs(Assign(s, "on", v), s.final, v, s.value, s.preOff, s.xtalk, s.gain, s.xtalkOn, s.xtalkRate)
  BY <1>2, <1>3, <1>4 DEF Core, CoreIs
<1>7. \A v \in [Check -> Int] :
          CoreIs(Assign(s, "value", v), s.final, s.on, v, s.preOff, s.xtalk, s.gain, s.xtalkOn, s.xtalkRate)
  BY <1>2, <1>3, <1>4 DEF Core, CoreIs
<1>8. \A v \in Bit :
          CoreIs(Assign(s, "preOff", v), s.final, s.on, s.value, v, s.xtalk, s.gain, s.xtalkOn, s.xtalkRate)
  BY <1>2, <1>3, <1>4 DEF Core, CoreIs
<1>9. \A v \in Uint16 :
          CoreIs(Assign(s, "xtalk", v), s.final, s.on, s.value, s.preOff, v, s.gain, s.xtalkOn, s.xtalkRate)
  BY <1>2, <1>3, <1>4 DEF Core, CoreIs
<1>10. \A v \in Bit :
          CoreIs(Assign(s, "xtalkOn", v), s.final, s.on, s.value, s.preOff, s.xtalk, s.gain, v, s.xtalkRate)
  BY <1>2, <1>3, <1>4 DEF Core, CoreIs
<1>11. \A v \in Int :
          CoreIs(Assign(s, "xtalkRate", v), s.final, s.on, s.value, s.preOff, s.xtalk, s.gain, s.xtalkOn, v)
  BY <1>2, <1>3, <1>4 DEF Core, CoreIs
<1>12. \A v \in Thousand :
          CoreIs(Assign(s, "gain", v), s.final, s.on, s.value, s.preOff, s.xtalk, v, s.xtalkOn, s.xtalkRate)
  BY <1>2, <1>3, <1>4 DEF Core, CoreIs
<1> QED
  BY <1>5, <1>6, <1>7, <1>8, <1>9, <1>10, <1>11, <1>12

LEMMA AssignOther ==
    ASSUME NEW s, Sound(s), NEW x \in SetFields \ Core, NEW v, FieldOK(x, v)
    PROVE  /\ CoreIs(Assign(s, x, v), s.final, s.on, s.value, s.preOff, s.xtalk, s.gain,
                     s.xtalkOn, s.xtalkRate)
           /\ Sound(Assign(s, x, v)) /\ Kept(s, Assign(s, x, v))
<1>1. Core \subseteq SetFields
  BY DEF Core, SetFields
<1> DEFINE t == Assign(s, x, v)
<1>2. Sound(t) /\ \A y \in Core : t[y] = s[y]
  BY <1>1, SoundAssign
<1> HIDE DEF t
<1>3. CoreIs(t, s.final, s.on, s.value, s.preOff, s.xtalk, s.gain, s.xtalkOn, s.xtalkRate)
  BY <1>2 DEF CoreIs, Core
<1>4. Kept(s, t)
  BY <1>3 DEF CoreIs, Kept, Agreed, AgreeFinal, AgreePre, Once
<1> QED
  BY <1>2, <1>3, <1>4 DEF t

(* The check k is switched once its register r is written.                 *)
Switched(r, k, e) == Assign(r, "on", [r.on EXCEPT ![k] = e])
Switch(c, k, e) == IF c.status = "none" THEN Having(c, Switched(c.set, k, e)) ELSE c
Written(c, r) == IF c.status = "none" THEN Having(c, r) ELSE c

LEMMA SwitchedCore ==
    ASSUME NEW r, Sound(r), NEW k \in Check, NEW e \in Bit
    PROVE  CoreIs(Switched(r, k, e), r.final, [r.on EXCEPT ![k] = e], r.value, r.preOff,
                  r.xtalk, r.gain, r.xtalkOn, r.xtalkRate)
<1>1. [r.on EXCEPT ![k] = e] \in [Check -> Bit]
  <2>1. r.on \in [Check -> Bit]
    BY SoundTypes
  <2> QED
    BY <2>1
<1> QED
  BY <1>1, AssignCore DEF Switched

LEMMA SwitchEnd ==
    ASSUME NEW c, Settled(c), NEW t, Reads(c, t), NEW k \in Check, NEW e \in Bit,
           NEW r, Sound(r), r.on = c.set.on, r.xtalk = c.set.xtalk,
           Kept(c.set, Switched(r, k, e))
    PROVE  LET d == Switch(Written(t, r), k, e) IN
           /\ Moves(c, d) /\ Smooth(c, d) /\ Leaves(c, d) /\ d.status = t.status
           /\ d.status = "none" => d.set = Switched(r, k, e)
<1> DEFINE q == Switched(r, k, e)
           d == Switch(Written(t, r), k, e)
<1>1. Settled(t) /\ Timed(c)
  BY FlowsMoves DEF Reads, Moves, Settled
<1>2. Having(t, r).status = t.status /\ Having(t, r).set = r
  BY <1>1, HavingStep
<1>3. d = IF t.status = "none" THEN Having(t, q) ELSE t
  BY <1>1, <1>2, HavingTwice DEF Switch, Written
<1>4. Sound(q) /\ q.xtalk = c.set.xtalk
  <2>1. CoreIs(q, r.final, [r.on EXCEPT ![k] = e], r.value, r.preOff, r.xtalk, r.gain,
               r.xtalkOn, r.xtalkRate)
    BY SwitchedCore
  <2> HIDE DEF q
  <2> QED
    BY <2>1 DEF CoreIs
<1> HIDE DEF q, d
<1>5. /\ Moves(c, d) /\ Smooth(c, d) /\ d.regs = c.regs /\ d.status = t.status
      /\ d.set = IF t.status = "none" THEN q ELSE c.set
  BY <1>3, <1>4, PutStep DEF q
<1> QED
  BY <1>4, <1>5 DEF Leaves, d, q

LEMMA SwitchStep ==
    ASSUME NEW c, Settled(c), NEW k \in Check, NEW e \in Bit
    PROVE  LET d == SwitchLimit(c, k, e) IN
           /\ Moves(c, d) /\ Smooth(c, d) /\ Leaves(c, d)
           /\ Intact(c, d) /\ c.status = "none" =>
                 (k = "final" => AgreeFinal(d.set)) /\ (k = "pre" => AgreePre(d.set))
<1> DEFINE s == c.set
           d == SwitchLimit(c, k, e)
<1>1. Sound(s) /\ s.on \in [Check -> Bit] /\ s.value \in [Check -> Int] /\ s.msrcOff \in Bit
  <2>1. Sound(s)
    BY DEF Settled
  <2> QED
    BY <2>1, SoundTypes
<1> SUFFICES /\ Moves(c, d) /\ Smooth(c, d) /\ Leaves(c, d)
             /\ Intact(c, d) /\ c.status = "none" =>
                   (k = "final" => AgreeFinal(d.set)) /\ (k = "pre" => AgreePre(d.set))
  OBVIOUS
<1> DEFINE w == WriteSwitch(c, k, e)
<1>0. d = Switch(w, k, e)
  BY Zenon DEF SwitchLimit, Then, Switch, Switched, Having, Assign
<1> HIDE DEF d
<1>2. CASE k = "final"
  <2> DEFINE t == Transfer(c)
             v == IF e = 1 THEN To97(s.value[k]) ELSE 0
             r == Assign(s, "final", v)
             q == Switched(r, k, e)
  <2>1. Reads(c, t) /\ t.set = s
    BY TransferStep, FlowsMoves DEF Reads, Settled
  <2>2. w = Written(t, r)
    <3>1. w = Written(t, Assign(t.set, "final",
                         IF e = 1 THEN To97(t.set.value[k]) ELSE 0))
      BY <1>2, Zenon DEF WriteSwitch, Done, Then, Having, Assign, Written
    <3> HIDE DEF w, t
    <3> QED
      BY <2>1, <3>1
  <2>3. v \in Uint16
    BY <1>1, Conversions, WordsAreInts
  <2>4. CoreIs(r, v, s.on, s.value, s.preOff, s.xtalk, s.gain, s.xtalkOn, s.xtalkRate)
    <3> HIDE DEF v, s
    <3> QED
      BY <1>1, <2>3, AssignCore
  <2> HIDE DEF r, w, t, s
  <2>5. CoreIs(q, r.final, [s.on EXCEPT ![k] = e], r.value, r.preOff, r.xtalk, r.gain,
               r.xtalkOn, r.xtalkRate)
    BY <2>4, SwitchedCore DEF CoreIs
  <2> HIDE DEF q
  <2>6. AgreeFinal(q)
    BY <1>1, <1>2, <2>4, <2>5 DEF AgreeFinal, CoreIs, Bit
  <2>7. AgreePre(s) => AgreePre(q)
    BY <1>1, <1>2, <2>4, <2>5 DEF AgreePre, CoreIs, Check
  <2>8. Once(s) => Once(q)
    BY <2>4, <2>5 DEF CoreIs, Once
  <2>9. Kept(s, q)
    BY <2>6, <2>7, <2>8 DEF Kept, Agreed
  <2> QED
    BY <1>0, <1>2, <2>1, <2>2, <2>4, <2>6, <2>9, SwitchEnd DEF CoreIs, q, s, Smooth
<1>3. CASE k = "pre"
  <2> DEFINE t == Transfers(c, 2)
             v == 1 - e
             r == Assign(s, "preOff", v)
             q == Switched(r, k, e)
  <2>1. Reads(c, t)
    BY TransfersStep DEF Settled
  <2>2. w = Written(t, r)
    <3>1. t.set = s
      BY <2>1, FlowsMoves DEF Reads
    <3>2. w = Written(t, Assign(t.set, "preOff", v))
      BY <1>3, Zenon DEF WriteSwitch, Done, Then, Having, Assign, Written
    <3> HIDE DEF w, t
    <3> QED
      BY <3>1, <3>2
  <2>3. v \in Bit
    BY DEF Bit
  <2>4. CoreIs(r, s.final, s.on, s.value, v, s.xtalk, s.gain, s.xtalkOn, s.xtalkRate)
    <3> HIDE DEF v, s
    <3> QED
      BY <1>1, <2>3, AssignCore
  <2> HIDE DEF r, w, t, s
  <2>5. CoreIs(q, r.final, [s.on EXCEPT ![k] = e], r.value, r.preOff, r.xtalk, r.gain,
               r.xtalkOn, r.xtalkRate)
    BY <2>4, SwitchedCore DEF CoreIs
  <2> HIDE DEF q
  <2>6. AgreePre(q)
    BY <1>1, <1>3, <2>4, <2>5 DEF AgreePre, CoreIs
  <2>7. AgreeFinal(s) => AgreeFinal(q)
    BY <1>1, <1>3, <2>4, <2>5 DEF AgreeFinal, CoreIs, Check
  <2>8. Once(s) => Once(q)
    BY <2>4, <2>5 DEF CoreIs, Once
  <2>9. Kept(s, q)
    BY <2>6, <2>7, <2>8 DEF Kept, Agreed
  <2> QED
    BY <1>0, <1>3, <2>1, <2>2, <2>4, <2>6, <2>9, SwitchEnd DEF CoreIs, q, s, Smooth
<1>4. ASSUME NEW r, k \notin {"final", "pre"},
             CoreIs(r, s.final, s.on, s.value, s.preOff, s.xtalk, s.gain, s.xtalkOn,
                    s.xtalkRate)
      PROVE  Kept(s, Switched(r, k, e))
  <2> DEFINE q == Switched(r, k, e)
  <2>1. CoreIs(q, r.final, [s.on EXCEPT ![k] = e], r.value, r.preOff, r.xtalk, r.gain,
               r.xtalkOn, r.xtalkRate)
    BY <1>4, SwitchedCore DEF CoreIs
  <2> HIDE DEF q, s
  <2>2. (AgreeFinal(s) => AgreeFinal(q)) /\ (AgreePre(s) => AgreePre(q))
    BY <1>1, <1>4, <2>1 DEF CoreIs, AgreeFinal, AgreePre, Check
  <2>3. Once(s) => Once(q)
    BY <1>4, <2>1 DEF CoreIs, Once
  <2> QED
    BY <2>2, <2>3 DEF Kept, Agreed, q
<1>5. CASE k = "msrc"
  <2> DEFINE t == Transfers(c, 2)
             v == IF e = 0 THEN 1 ELSE s.msrcOff
             r == Assign(s, "msrcOff", v)
  <2>1. Reads(c, t)
    BY TransfersStep DEF Settled
  <2>2. w = Written(t, r)
    <3>1. t.set = s
      BY <2>1, FlowsMoves DEF Reads
    <3>2. w = Written(t, Assign(t.set, "msrcOff", IF e = 0 THEN 1 ELSE t.set.msrcOff))
      BY <1>5, Zenon DEF WriteSwitch, Done, Then, Having, Assign, Written
    <3> HIDE DEF w, t
    <3> QED
      BY <3>1, <3>2
  <2>3. FieldOK("msrcOff", v) /\ "msrcOff" \in SetFields \ Core
    BY <1>1 DEF Bit, FieldOK, SetFields, Core
  <2>4. CoreIs(r, s.final, s.on, s.value, s.preOff, s.xtalk, s.gain, s.xtalkOn, s.xtalkRate)
    <3> HIDE DEF v, s
    <3> QED
      BY <1>1, <2>3, AssignOther
  <2> HIDE DEF r, w, t
  <2>5. Kept(s, Switched(r, k, e))
    BY <1>4, <1>5, <2>4
  <2> QED
    BY <1>0, <1>5, <2>1, <2>2, <2>4, <2>5, SwitchEnd DEF CoreIs
<1>6. CASE k \notin {"final", "pre", "msrc"}
  <2>1. Reads(c, c) /\ c.set = s
    BY FlowsSame DEF Settled
  <2>2. d = Switch(Written(c, s), k, e)
    <3>1. w = c
      BY <1>6, Zenon DEF WriteSwitch
    <3>2. Switch(Written(c, s), k, e) = Switch(c, k, e)
      BY HavingTwice, HavingStep, <1>1 DEF Written, Switch
    <3> QED
      BY <1>0, <3>1, <3>2
  <2>3. CoreIs(s, s.final, s.on, s.value, s.preOff, s.xtalk, s.gain, s.xtalkOn, s.xtalkRate)
    BY <1>1 DEF CoreIs
  <2>4. Kept(s, Switched(s, k, e))
    BY <1>4, <1>6, <2>3
  <2> HIDE DEF d
  <2> QED
    BY <1>1, <1>6, <2>1, <2>2, <2>4, SwitchEnd
<1> QED
  BY <1>2, <1>3, <1>5, <1>6

(* A limit is remembered once its register is written.                     *)
Valued(r, k, v) == Assign(r, "value", [r.value EXCEPT ![k] = v])
Value(c, k, v) == IF c.status = "none" THEN Having(c, Valued(c.set, k, v)) ELSE c

LEMMA ValuedCore ==
    ASSUME NEW r, Sound(r), NEW k \in Check, NEW v \in Int
    PROVE  CoreIs(Valued(r, k, v), r.final, r.on, [r.value EXCEPT ![k] = v], r.preOff,
                  r.xtalk, r.gain, r.xtalkOn, r.xtalkRate)
<1>1. [r.value EXCEPT ![k] = v] \in [Check -> Int]
  <2>1. r.value \in [Check -> Int]
    BY SoundTypes
  <2> QED
    BY <2>1
<1> QED
  BY <1>1, AssignCore DEF Valued

LEMMA ValueEnd ==
    ASSUME NEW c, Settled(c), NEW t, Reads(c, t), NEW k \in Check, NEW v \in Int,
           NEW r, Sound(r), r.xtalk = c.set.xtalk, Kept(c.set, Valued(r, k, v))
    PROVE  LET d == Value(Written(t, r), k, v) IN
           Moves(c, d) /\ Smooth(c, d) /\ Leaves(c, d)
<1> DEFINE q == Valued(r, k, v)
           d == Value(Written(t, r), k, v)
<1>1. Settled(t)
  BY FlowsMoves DEF Reads, Moves
<1>2. Having(t, r).status = t.status /\ Having(t, r).set = r
  BY <1>1, HavingStep
<1>3. d = IF t.status = "none" THEN Having(t, q) ELSE t
  BY <1>1, <1>2, HavingTwice DEF Value, Written
<1>4. Sound(q) /\ q.xtalk = c.set.xtalk
  <2>1. CoreIs(q, r.final, r.on, [r.value EXCEPT ![k] = v], r.preOff, r.xtalk, r.gain,
               r.xtalkOn, r.xtalkRate)
    BY ValuedCore
  <2> HIDE DEF q
  <2> QED
    BY <2>1 DEF CoreIs
<1> HIDE DEF q, d
<1>5. /\ Moves(c, d) /\ Smooth(c, d) /\ d.regs = c.regs
      /\ d.set = IF t.status = "none" THEN q ELSE c.set
  BY <1>3, <1>4, PutStep DEF q
<1> QED
  BY <1>4, <1>5 DEF Leaves, d

LEMMA SetLimitStep ==
    ASSUME NEW c, Settled(c), NEW k \in Check, NEW v \in Int
    PROVE  LET d == SetLimit(c, k, v) IN Moves(c, d) /\ Smooth(c, d) /\ Leaves(c, d)
<1> DEFINE s == c.set
           d == SetLimit(c, k, v)
           w == WriteLimit(c, k, v)
<1>1. Sound(s) /\ s.on \in [Check -> Bit] /\ s.value \in [Check -> Int]
  <2>1. Sound(s)
    BY DEF Settled
  <2> QED
    BY <2>1, SoundTypes
<1> SUFFICES Moves(c, d) /\ Smooth(c, d) /\ Leaves(c, d)
  OBVIOUS
<1>2. d = Value(w, k, v)
  BY Zenon DEF SetLimit, Then, Value, Valued, Having, Assign
<1> HIDE DEF d
<1>3. ASSUME NEW r,
             CoreIs(r, s.final, s.on, s.value, s.preOff, s.xtalk, s.gain, s.xtalkOn,
                    s.xtalkRate),
             k # "final" \/ s.on[k] = 0
      PROVE  Kept(s, Valued(r, k, v))
  <2> DEFINE q == Valued(r, k, v)
  <2>1. CoreIs(q, r.final, r.on, [r.value EXCEPT ![k] = v], r.preOff, r.xtalk, r.gain,
               r.xtalkOn, r.xtalkRate)
    BY <1>3, ValuedCore DEF CoreIs
  <2> HIDE DEF q, s
  <2>2. (AgreeFinal(s) => AgreeFinal(q)) /\ (AgreePre(s) => AgreePre(q))
    BY <1>1, <1>3, <2>1 DEF CoreIs, AgreeFinal, AgreePre, Check
  <2>3. Once(s) => Once(q)
    BY <1>3, <2>1 DEF CoreIs, Once
  <2> QED
    BY <2>2, <2>3 DEF Kept, Agreed, q
<1>4. ASSUME k # "final" \/ s.on[k] = 0, w = c
      PROVE  Moves(c, d) /\ Smooth(c, d) /\ Leaves(c, d)
  <2>1. Reads(c, c) /\ c.set = s
    BY FlowsSame DEF Settled
  <2>2. d = Value(Written(c, s), k, v)
    <3>1. Value(Written(c, s), k, v) = Value(c, k, v)
      BY HavingTwice, HavingStep, <1>1 DEF Written, Value
    <3> QED
      BY <1>2, <1>4, <3>1
  <2>3. CoreIs(s, s.final, s.on, s.value, s.preOff, s.xtalk, s.gain, s.xtalkOn, s.xtalkRate)
    BY <1>1 DEF CoreIs
  <2>4. Kept(s, Valued(s, k, v))
    BY <1>3, <1>4, <2>3
  <2> QED
    BY <1>1, <2>1, <2>2, <2>4, ValueEnd
<1>5. CASE s.on[k] = 0
  <2>1. w = c
    BY <1>5 DEF WriteLimit
  <2> QED
    BY <1>4, <1>5, <2>1
<1>6. CASE s.on[k] # 0 /\ k \notin {"final", "msrc", "pre"}
  <2>1. w = c
    BY <1>6, Zenon DEF WriteLimit
  <2> QED
    BY <1>4, <1>6, <2>1
<1> DEFINE t == Transfer(c)
           n == To97(v)
<1>7. Reads(c, t) /\ t.set = s
  BY TransferStep, FlowsMoves DEF Reads, Settled
<1>8. n \in Uint16
  BY Conversions
<1>9. CASE s.on[k] # 0 /\ k = "final"
  <2> DEFINE r == Assign(s, "final", n)
             q == Valued(r, k, v)
  <2>1. w = Written(t, r)
    <3>1. w = Written(t, Assign(t.set, "final", n))
      BY <1>9, Zenon DEF WriteLimit, Done, Then, Having, Assign, Written
    <3> HIDE DEF w, t, n
    <3> QED
      BY <1>7, <3>1
  <2>2. CoreIs(r, n, s.on, s.value, s.preOff, s.xtalk, s.gain, s.xtalkOn, s.xtalkRate)
    <3> HIDE DEF n, s
    <3> QED
      BY <1>1, <1>8, AssignCore
  <2> HIDE DEF r, w, t, s
  <2>3. CoreIs(q, r.final, r.on, [r.value EXCEPT ![k] = v], r.preOff, r.xtalk, r.gain,
               r.xtalkOn, r.xtalkRate)
    BY <2>2, ValuedCore DEF CoreIs
  <2> HIDE DEF q
  <2>4. AgreeFinal(q)
    BY <1>1, <1>9, <2>2, <2>3 DEF AgreeFinal, CoreIs, Bit
  <2>5. (AgreePre(s) => AgreePre(q)) /\ (Once(s) => Once(q))
    BY <2>2, <2>3 DEF AgreePre, CoreIs, Once
  <2>6. Kept(s, q)
    BY <2>4, <2>5 DEF Kept, Agreed
  <2> QED
    BY <1>2, <1>7, <2>1, <2>2, <2>6, ValueEnd DEF CoreIs, q, s
<1>10. CASE s.on[k] # 0 /\ k \in {"msrc", "pre"}
  <2> DEFINE r == Assign(s, "pre", n)
  <2>1. w = Written(t, r)
    <3>1. w = Written(t, Assign(t.set, "pre", n))
      BY <1>10, Zenon DEF WriteLimit, Done, Then, Having, Assign, Written
    <3> HIDE DEF w, t, n
    <3> QED
      BY <1>7, <3>1
  <2>2. FieldOK("pre", n) /\ "pre" \in SetFields \ Core
    BY <1>8 DEF FieldOK, SetFields, Core
  <2>3. CoreIs(r, s.final, s.on, s.value, s.preOff, s.xtalk, s.gain, s.xtalkOn, s.xtalkRate)
    <3> HIDE DEF n, s
    <3> QED
      BY <1>1, <2>2, AssignOther
  <2> HIDE DEF r, w, t
  <2>4. Kept(s, Valued(r, k, v))
    BY <1>3, <1>10, <2>3
  <2> QED
    BY <1>2, <1>7, <2>1, <2>3, <2>4, ValueEnd DEF CoreIs
<1> QED
  BY <1>5, <1>6, <1>9, <1>10

LEMMA GetLimitStep ==
    ASSUME NEW c, Settled(c), NEW k \in Check
    PROVE  LET d == GetLimit(c, k) IN
           /\ Moves(c, d) /\ Smooth(c, d) /\ Leaves(c, d) /\ d.dev = c.dev
           /\ \A j \in {"sigma", "clip"} : d.set.value[j] = c.set.value[j]
                                           /\ d.set.on[j] = c.set.on[j]
<1> DEFINE s == c.set
           d == GetLimit(c, k)
           t == Transfer(c)
<1>1. Sound(s) /\ s.on \in [Check -> Bit] /\ s.value \in [Check -> Int] /\ s.final \in Uint16
  <2>1. Sound(s)
    BY DEF Settled
  <2> QED
    BY <2>1, SoundTypes
<1> SUFFICES /\ Moves(c, d) /\ Smooth(c, d) /\ Leaves(c, d) /\ d.dev = c.dev
             /\ \A j \in {"sigma", "clip"} : d.set.value[j] = s.value[j] /\ d.set.on[j] = s.on[j]
  OBVIOUS
<1>2. Reads(c, t) /\ Moves(c, t) /\ t.set = s
  BY TransferStep, FlowsMoves DEF Reads, Settled
<1>3. CASE k \notin {"final", "msrc", "pre"}
  <2>1. d = c
    BY <1>3, Zenon DEF GetLimit
  <2> QED
    BY <2>1, MovesSame
<1>4. CASE k \in {"msrc", "pre"}
  <2>1. d = t
    BY <1>4, Zenon DEF GetLimit
  <2> HIDE DEF d, t
  <2> QED
    BY <1>2, <2>1 DEF Reads, Leaves
<1>5. CASE k = "final"
  <2> DEFINE a == Switched(s, k, 0)
             n == From97(s.final)
             b == Valued(Switched(s, k, 1), k, n)
             q == IF s.final = 0 THEN a ELSE b
  <2>1. d = IF t.status = "none" THEN Having(t, q) ELSE t
    <3>1. d = IF t.status = "none"
              THEN IF t.set.final = 0 THEN Having(t, Switched(t.set, k, 0))
                   ELSE Having(Having(t, Switched(t.set, k, 1)),
                               Valued(Switched(t.set, k, 1), k, From97(t.set.final)))
              ELSE t
      <4>1. d = IF t.status = "none"
                THEN IF t.set.final = 0 THEN Having(t, Switched(t.set, k, 0))
                     ELSE [t EXCEPT !.set.on[k] = 1, !.set.value[k] = From97(t.set.final)]
                ELSE t
        BY <1>5, Zenon DEF GetLimit, Done, Then, Having, Switched, Assign
      <4>2. [t EXCEPT !.set.on[k] = 1, !.set.value[k] = From97(t.set.final)]
                = LET h == Having(t, Switched(t.set, k, 1))
                  IN  Having(h, Valued(h.set, k, From97(t.set.final)))
        BY Zenon DEF Having, Switched, Assign, Valued
      <4> HIDE DEF d, t
      <4>3. Sound(Switched(t.set, k, 1))
        BY <1>1, <1>2, SwitchedCore DEF CoreIs, Bit
      <4>4. Having(t, Switched(t.set, k, 1)).set = Switched(t.set, k, 1)
        BY <1>2, <4>3, HavingStep DEF Moves
      <4> QED
        BY <4>1, <4>2, <4>4
    <3> HIDE DEF d, t
    <3> QED
      BY <1>2, <3>1, HavingTwice DEF Moves
  <2>2. CoreIs(a, s.final, [s.on EXCEPT ![k] = 0], s.value, s.preOff, s.xtalk, s.gain,
               s.xtalkOn, s.xtalkRate)
    BY <1>1, SwitchedCore DEF Bit
  <2>3. n \in Int /\ To97(n) = s.final
    BY <1>1, Conversions
  <2>4. CoreIs(b, s.final, [s.on EXCEPT ![k] = 1], [s.value EXCEPT ![k] = n], s.preOff,
               s.xtalk, s.gain, s.xtalkOn, s.xtalkRate)
    <3> DEFINE h == Switched(s, k, 1)
    <3>1. CoreIs(h, s.final, [s.on EXCEPT ![k] = 1], s.value, s.preOff, s.xtalk, s.gain,
                 s.xtalkOn, s.xtalkRate)
      BY <1>1, SwitchedCore DEF Bit
    <3> HIDE DEF h, n, s
    <3>2. Sound(h)
      BY <3>1 DEF CoreIs
    <3>3. CoreIs(Valued(h, k, n), h.final, h.on, [h.value EXCEPT ![k] = n], h.preOff, h.xtalk,
                 h.gain, h.xtalkOn, h.xtalkRate)
      BY <2>3, <3>2, ValuedCore
    <3> QED
      BY <3>1, <3>3 DEF CoreIs, h
  <2> HIDE DEF a, b, d, t, n, s
  <2>5. \/ Sound(a) /\ AgreeFinal(a) /\ (AgreePre(s) => AgreePre(a)) /\ (Once(s) => Once(a))
        \/ s.final # 0
    BY <1>1, <1>5, <2>2 DEF CoreIs, AgreeFinal, AgreePre, Once, Check
  <2>6. Sound(b) /\ AgreeFinal(b) /\ (AgreePre(s) => AgreePre(b)) /\ (Once(s) => Once(b))
    BY <1>1, <1>5, <2>3, <2>4 DEF CoreIs, AgreeFinal, AgreePre, Once, Check
  <2>7. Sound(q) /\ Kept(s, q)
    BY <2>5, <2>6 DEF Kept, Agreed
  <2>8. /\ q.xtalk = s.xtalk
        /\ \A j \in {"sigma", "clip"} : q.value[j] = s.value[j] /\ q.on[j] = s.on[j]
    BY <1>1, <1>5, <2>2, <2>4 DEF CoreIs, Check
  <2> HIDE DEF q
  <2>9. /\ Moves(c, d) /\ Smooth(c, d) /\ d.regs = c.regs /\ d.dev = c.dev
        /\ d.set = IF t.status = "none" THEN q ELSE s
    BY <1>2, <2>1, <2>7, PutStep DEF s
  <2> QED
    BY <2>8, <2>9 DEF Leaves, s
<1> QED
  BY <1>3, <1>4, <1>5

LEMMA SwitchXTalkStep ==
    ASSUME NEW c, Settled(c), NEW e \in Bit
    PROVE  LET d == SwitchXTalk(c, e) IN
           /\ Moves(c, d) /\ Smooth(c, d) /\ d.regs = c.regs /\ d.dev = c.dev
           /\ d.status = "none" => d.set.xtalkOn = e /\ d.set.xtalk = XTalkRegister(d.set, e)
<1> DEFINE s == c.set
           d == SwitchXTalk(c, e)
           t == Transfer(c)
           v == XTalkRegister(s, e)
           r == Assign(s, "xtalk", v)
           q == Assign(r, "xtalkOn", e)
<1>1. Sound(s) /\ s.xtalkRate \in Int
  <2>1. Sound(s)
    BY DEF Settled
  <2> QED
    BY <2>1, SoundTypes
<1> SUFFICES /\ Moves(c, d) /\ Smooth(c, d) /\ d.regs = c.regs /\ d.dev = c.dev
             /\ d.status = "none" => d.set.xtalkOn = e /\ d.set.xtalk = XTalkRegister(d.set, e)
  OBVIOUS
<1>2. Reads(c, t) /\ t.set = s
  BY TransferStep, FlowsMoves DEF Reads, Settled
<1>3. d = Written(t, q)
  <2>1. d = Written(t, Assign(Assign(t.set, "xtalk", XTalkRegister(t.set, e)), "xtalkOn", e))
    BY Zenon DEF SwitchXTalk, Done, Then, Having, Assign, Written
  <2> HIDE DEF d, t
  <2> QED
    BY <1>2, <2>1
<1>4. v \in Uint16
  BY <1>1, Conversions, WordsAreInts DEF XTalkRegister
<1>5. CoreIs(r, s.final, s.on, s.value, s.preOff, v, s.gain, s.xtalkOn, s.xtalkRate)
  <2> HIDE DEF v, s
  <2> QED
    BY <1>1, <1>4, AssignCore
<1> HIDE DEF r
<1>6. CoreIs(q, r.final, r.on, r.value, r.preOff, r.xtalk, r.gain, e, r.xtalkRate)
  BY <1>5, AssignCore DEF CoreIs
<1> HIDE DEF q, d, t
<1>7. Sound(q) /\ Kept(s, q) /\ q.xtalkOn = e /\ q.xtalk = XTalkRegister(q, e)
  <2> HIDE DEF s
  <2>1. q.xtalkOn = e /\ q.xtalk = XTalkRegister(q, e)
    BY <1>5, <1>6 DEF CoreIs, XTalkRegister
  <2>2. Sound(q) /\ Agreed(s, q)
    BY <1>5, <1>6 DEF CoreIs, Agreed, AgreeFinal, AgreePre
  <2>3. Once(q)
    BY <2>1 DEF Once, XTalkRegister, Bit
  <2> QED
    BY <2>1, <2>2, <2>3 DEF Kept
<1>8. /\ Moves(c, d) /\ Smooth(c, d) /\ d.regs = c.regs /\ d.dev = c.dev
      /\ d.status = t.status /\ d.set = IF t.status = "none" THEN q ELSE s
  BY <1>2, <1>3, <1>7, PutStep DEF Written, s
<1> QED
  BY <1>7, <1>8

LEMMA SetXTalkRateStep ==
    ASSUME NEW c, Settled(c), NEW n \in Int
    PROVE  LET d == SetXTalkRate(c, n) IN
           /\ Moves(c, d) /\ Smooth(c, d) /\ d.regs = c.regs /\ d.dev = c.dev
           /\ d.status = "none" /\ c.set.xtalkOn = 1
                 => d.set.xtalkOn = 1 /\ d.set.xtalk = XTalkRegister(d.set, 1)
<1> DEFINE s == c.set
           d == SetXTalkRate(c, n)
<1>1. Sound(s) /\ s.xtalkOn \in Bit
  <2>1. Sound(s)
    BY DEF Settled
  <2> QED
    BY <2>1, SoundTypes
<1> SUFFICES /\ Moves(c, d) /\ Smooth(c, d) /\ d.regs = c.regs /\ d.dev = c.dev
             /\ d.status = "none" /\ s.xtalkOn = 1
                   => d.set.xtalkOn = 1 /\ d.set.xtalk = XTalkRegister(d.set, 1)
  OBVIOUS
<1>2. CASE s.xtalkOn = 0
  <2> DEFINE q == Assign(s, "xtalkRate", n)
  <2>1. d = Written(c, q)
    BY <1>2, Zenon DEF SetXTalkRate, WriteXTalk, Then, Having, Assign, Written
  <2>2. CoreIs(q, s.final, s.on, s.value, s.preOff, s.xtalk, s.gain, s.xtalkOn, n)
    <3> HIDE DEF s
    <3> QED
      BY <1>1, AssignCore
  <2> HIDE DEF q, d
  <2>3. Sound(q) /\ Kept(s, q)
    <3> HIDE DEF s
    <3> QED
      BY <1>2, <2>2 DEF CoreIs, Kept, Agreed, AgreeFinal, AgreePre, Once
  <2>4. Reads(c, c)
    BY FlowsSame DEF Settled
  <2> QED
    BY <1>2, <2>1, <2>3, <2>4, PutStep DEF Written
<1>3. CASE s.xtalkOn # 0
  <2> DEFINE t == Transfer(c)
             v == IF s.gain = 1000 THEN To313(n) ELSE 0
             r == Assign(s, "xtalk", v)
             q == Assign(r, "xtalkRate", n)
  <2>1. Reads(c, t) /\ t.set = s /\ Settled(t)
    BY TransferStep, FlowsMoves DEF Reads, Settled, Moves
  <2>2. v \in Uint16
    BY Conversions, WordsAreInts
  <2>3. CoreIs(r, s.final, s.on, s.value, s.preOff, v, s.gain, s.xtalkOn, s.xtalkRate)
    <3> HIDE DEF v, s
    <3> QED
      BY <1>1, <2>2, AssignCore
  <2>4. d = Written(t, q)
    <3> DEFINE w == WriteXTalk(c, n)
    <3>1. d = Written(w, Assign(w.set, "xtalkRate", n))
      BY Zenon DEF SetXTalkRate, Then, Having, Assign, Written
    <3>2. w = Written(t, Assign(t.set, "xtalk",
                         IF t.set.gain = 1000 THEN To313(n) ELSE 0))
      BY <1>3, Zenon DEF WriteXTalk, Done, Then, Having, Assign, Written
    <3> HIDE DEF d, t, w
    <3>3. w = Written(t, r)
      BY <2>1, <3>2
    <3> HIDE DEF r
    <3>4. Having(t, r).set = r /\ Having(t, r).status = t.status
      BY <2>1, <2>3, HavingStep DEF CoreIs
    <3> QED
      BY <2>1, <3>1, <3>3, <3>4, HavingTwice DEF Written
  <2> HIDE DEF r
  <2>5. CoreIs(q, r.final, r.on, r.value, r.preOff, r.xtalk, r.gain, r.xtalkOn, n)
    BY <2>3, AssignCore DEF CoreIs
  <2> HIDE DEF q, d, t
  <2>6. Sound(q) /\ Kept(s, q) /\ q.xtalkOn = 1 /\ q.xtalk = XTalkRegister(q, 1)
    <3> HIDE DEF s
    <3>1. q.xtalkOn = 1 /\ q.xtalk = XTalkRegister(q, 1)
      BY <1>1, <1>3, <2>3, <2>5 DEF CoreIs, XTalkRegister, Bit
    <3>2. Sound(q) /\ Agreed(s, q)
      BY <2>3, <2>5 DEF CoreIs, Agreed, AgreeFinal, AgreePre
    <3>3. Once(q)
      BY <3>1 DEF Once, XTalkRegister
    <3> QED
      BY <3>1, <3>2, <3>3 DEF Kept
  <2>7. /\ Moves(c, d) /\ Smooth(c, d) /\ d.regs = c.regs /\ d.dev = c.dev
        /\ d.status = t.status /\ d.set = IF t.status = "none" THEN q ELSE s
    BY <2>1, <2>4, <2>6, PutStep DEF Written, s
  <2> QED
    BY <2>6, <2>7
<1> QED
  BY <1>2, <1>3

LEMMA GetXTalkStep ==
    ASSUME NEW c, Settled(c)
    PROVE  LET d == GetXTalkRate(c) IN
           /\ Moves(c, d) /\ Smooth(c, d) /\ Leaves(c, d) /\ d.dev = c.dev
           /\ d.set.value = c.set.value /\ d.set.on = c.set.on
<1> DEFINE s == c.set
           d == GetXTalkRate(c)
           t == Transfer(c)
           n == From313(s.xtalk)
           a == Assign(s, "xtalkOn", 0)
           r == Assign(s, "xtalkOn", 1)
           b == Assign(r, "xtalkRate", n)
           q == IF s.xtalk = 0 THEN a ELSE b
<1>1. Sound(s) /\ s.xtalk \in Uint16 /\ 0 \in Bit /\ 1 \in Bit
  <2>1. Sound(s)
    BY DEF Settled
  <2> QED
    BY <2>1, SoundTypes DEF Bit
<1> SUFFICES /\ Moves(c, d) /\ Smooth(c, d) /\ Leaves(c, d) /\ d.dev = c.dev
             /\ d.set.value = s.value /\ d.set.on = s.on
  OBVIOUS
<1>2. Reads(c, t) /\ t.set = s
  BY TransferStep, FlowsMoves DEF Reads, Settled
<1>3. d = Written(t, q)
  <2>1. d = Written(t, IF t.set.xtalk = 0 THEN Assign(t.set, "xtalkOn", 0)
                       ELSE Assign(Assign(t.set, "xtalkOn", 1), "xtalkRate",
                                   From313(t.set.xtalk)))
    BY Zenon DEF GetXTalkRate, Done, Then, Having, Assign, Written
  <2> HIDE DEF d, t
  <2> QED
    BY <1>2, <2>1
<1>4. n \in Int /\ To313(n) = s.xtalk
  BY <1>1, Conversions
<1>5. CoreIs(a, s.final, s.on, s.value, s.preOff, s.xtalk, s.gain, 0, s.xtalkRate)
  <2> HIDE DEF s
  <2> QED
    BY <1>1, AssignCore
<1>6. CoreIs(r, s.final, s.on, s.value, s.preOff, s.xtalk, s.gain, 1, s.xtalkRate)
  <2> HIDE DEF s
  <2> QED
    BY <1>1, AssignCore
<1> HIDE DEF a, r, n
<1>7. CoreIs(b, r.final, r.on, r.value, r.preOff, r.xtalk, r.gain, r.xtalkOn, n)
  BY <1>4, <1>6, AssignCore DEF CoreIs
<1> HIDE DEF b, d, t, s
<1>8. \/ Sound(a) /\ Agreed(s, a) /\ (Once(s) => Once(a))
      \/ s.xtalk # 0
  BY <1>5 DEF CoreIs, Agreed, AgreeFinal, AgreePre, Once
<1>9. Sound(b) /\ Agreed(s, b) /\ (Once(s) => Once(b))
  BY <1>4, <1>6, <1>7 DEF CoreIs, Agreed, AgreeFinal, AgreePre, Once
<1>10. /\ Sound(q) /\ Kept(s, q) /\ q.xtalk = s.xtalk /\ q.value = s.value /\ q.on = s.on
  BY <1>5, <1>6, <1>7, <1>8, <1>9 DEF Kept, CoreIs
<1> HIDE DEF q
<1>11. /\ Moves(c, d) /\ Smooth(c, d) /\ d.regs = c.regs /\ d.dev = c.dev
       /\ d.set = IF t.status = "none" THEN q ELSE s
  BY <1>2, <1>3, <1>10, PutStep DEF Written, s
<1> QED
  BY <1>10, <1>11 DEF Leaves, s

LEMMA SetGainStep ==
    ASSUME NEW c, Settled(c), NEW g \in Int
    PROVE  Moves(c, SetGain(c, g))
<1> DEFINE s == c.set
           q == Assign(s, "gain", g)
           h == Having(c, q)
           t == Transfer(h)
           z == Assign(q, "xtalk", 0)
<1>1. Sound(s)
  BY DEF Settled
<1>2. CASE g \notin 0 .. 1000
  <2>1. SetGain(c, g) = Invalid(c)
    BY <1>2 DEF SetGain
  <2>2. Flows(c, Invalid(c))
    BY AssignLocal, Names DEF Invalid, Fail, Settled
  <2> QED
    BY <2>1, <2>2, FlowsMoves
<1>3. CASE g \in 0 .. 1000
  <2>1. SetGain(c, g) = IF g = 1000 THEN h ELSE Written(t, Assign(t.set, "xtalk", 0))
    BY <1>3, SMTT(30) DEF SetGain, Done, Then, Having, Assign, Written
  <2>2. CoreIs(q, s.final, s.on, s.value, s.preOff, s.xtalk, g, s.xtalkOn, s.xtalkRate)
    <3>1. g \in Thousand
      BY <1>3 DEF Thousand
    <3> HIDE DEF s
    <3> QED
      BY <1>1, <3>1, AssignCore
  <2> HIDE DEF q
  <2>3. CoreIs(z, q.final, q.on, q.value, q.preOff, 0, q.gain, q.xtalkOn, q.xtalkRate)
    BY <2>2, AssignCore, WordsAreInts DEF CoreIs
  <2> HIDE DEF z
  <2>4. /\ Sound(q) /\ Agreed(s, q) /\ (g = 1000 => Kept(s, q))
        /\ Sound(z) /\ Kept(q, z) /\ Once(z)
    <3> HIDE DEF s
    <3> QED
      BY <2>2, <2>3 DEF CoreIs, Kept, Agreed, AgreeFinal, AgreePre, Once
  <2>5. Settled(h) /\ h.set = q /\ h.fuse = c.fuse
    BY <2>4, HavingStep
  <2> HIDE DEF h
  <2>6. CASE g = 1000
    BY <2>1, <2>4, <2>5, <2>6 DEF Moves, Kept, Settled, Timed
  <2>7. CASE g # 1000
    <3> DEFINE d == Written(t, z)
    <3>1. Reads(h, t) /\ t.set = q
      BY <2>5, TransferStep, FlowsMoves DEF Reads, Settled
    <3>2. SetGain(c, g) = d
      <4> HIDE DEF t
      <4> QED
        BY <2>1, <2>7, <3>1 DEF z
    <3>3. t.status # "none" => ~Intact(h, t)
      <4>1. h.fuse \in Int
        BY <2>5 DEF Settled, Timed
      <4>2. h.fuse # 0 => t.status = "none"
        BY <2>5 DEF Transfer, Settled, Timed, Fields
      <4>3. h.fuse = 0 => t.fuse = -1
        BY <2>5 DEF Transfer, Settled, Timed, Fields
      <4> QED
        BY <4>1, <4>2, <4>3 DEF Intact
    <3> HIDE DEF t, d
    <3>4. /\ Moves(h, d) /\ d.fuse = t.fuse /\ d.set = IF t.status = "none" THEN z ELSE q
      BY <2>4, <2>5, <3>1, PutStep DEF d, Written
    <3>5. Settled(d) /\ d.fuse <= c.fuse /\ Agreed(s, d.set)
      BY <2>4, <2>5, <3>4 DEF Moves, Agreed
    <3>6. Intact(c, d) => d.set = z
      BY <2>5, <3>3, <3>4 DEF Intact
    <3> QED
      BY <2>4, <3>2, <3>5, <3>6 DEF Moves
  <2> QED
    BY <2>6, <2>7
<1> QED
  BY <1>2, <1>3
(* A part that only looks: the sensor's timing is as before, nothing is    *)
(* compensated that was not, and the limits of sigma and reference clip    *)
(* are those it began with.                                                *)
Views(c, d) ==
    /\ Moves(c, d) /\ Smooth(c, d) /\ Leaves(c, d)
    /\ \A k \in {"sigma", "clip"} : d.set.value[k] = c.set.value[k]

LEMMA ViewsSame == \A c : Settled(c) => Views(c, c)
  BY MovesSame DEF Views

LEMMA ViewsChain ==
    ASSUME NEW c, NEW d, NEW e, Settled(c), Views(c, d), Views(d, e)
    PROVE  Views(c, e)
  BY MovesChain DEF Views

LEMMA ReadsViews ==
    ASSUME NEW c, NEW d, Settled(c), Reads(c, d)
    PROVE  Views(c, d)
<1>1. Moves(c, d) /\ d.set = c.set
  BY FlowsMoves DEF Reads
<1> QED
  BY <1>1 DEF Views, Reads, Leaves

LEMMA ViewsSettled == \A c, d : Views(c, d) => Settled(d)
  BY DEF Views, Moves

(* A field that is neither about agreement nor about compensation.         *)
LEMMA OtherStep ==
    ASSUME NEW c, Settled(c), NEW t, Reads(c, t), NEW x \in SetFields \ Core, NEW v,
           FieldOK(x, v)
    PROVE  LET d == Written(t, Assign(c.set, x, v)) IN
           /\ Views(c, d) /\ d.dev = c.dev /\ d.status = t.status
           /\ d.status = "none" => d.set = Assign(c.set, x, v)
           /\ d.set.xtalkOn = c.set.xtalkOn
<1> DEFINE s == c.set
           q == Assign(s, x, v)
           d == Written(t, q)
<1>1. Sound(s)
  BY DEF Settled
<1> HIDE DEF s
<1>2. /\ CoreIs(q, s.final, s.on, s.value, s.preOff, s.xtalk, s.gain, s.xtalkOn, s.xtalkRate)
      /\ Sound(q) /\ Kept(s, q)
  BY <1>1, AssignOther
<1> HIDE DEF q, d
<1>3. /\ Moves(c, d) /\ Smooth(c, d) /\ d.regs = c.regs /\ d.dev = c.dev
      /\ d.status = t.status /\ d.set = IF t.status = "none" THEN q ELSE s
  BY <1>2, PutStep DEF d, Written, s
<1>4. q.xtalk = s.xtalk /\ q.value = s.value /\ q.xtalkOn = s.xtalkOn
  BY <1>2 DEF CoreIs
<1> QED
  BY <1>3, <1>4 DEF Views, Leaves, d, q, s

LEMMA EncodeOffsetType == \A um \in Int : EncodeOffset(um) % 4096 \in Twelve
<1>1. \A um \in Int : EncodeOffset(um) \in Int
  BY SMT DEF EncodeOffset
<1>2. \A n \in Int : n % 4096 \in Twelve
  BY SMT DEF Twelve
<1> QED
  BY <1>1, <1>2

LEMMA SetOffsetStep ==
    ASSUME NEW c, Settled(c), NEW um \in Int
    PROVE  LET d == SetOffset(c, um) IN
           /\ Views(c, d) /\ d.dev = c.dev
           /\ d.status = "none" => d.set = Assign(c.set, "offset", EncodeOffset(um) % 4096)
<1> DEFINE t == Transfer(c)
           v == EncodeOffset(um) % 4096
           d == SetOffset(c, um)
<1>1. Reads(c, t) /\ t.set = c.set
  BY TransferStep, FlowsMoves DEF Reads, Settled
<1>2. d = Written(t, Assign(t.set, "offset", v))
  BY Zenon DEF SetOffset, Done, Then, Having, Assign, Written
<1>3. FieldOK("offset", v) /\ "offset" \in SetFields \ Core
  <2>1. v \in Twelve
    BY EncodeOffsetType
  <2> HIDE DEF v
  <2> QED
    BY <2>1 DEF FieldOK, SetFields, Core
<1> HIDE DEF d, t, v
<1>4. d = Written(t, Assign(c.set, "offset", v))
  BY <1>1, <1>2
<1> QED
  BY <1>1, <1>3, <1>4, OtherStep DEF d, v

LEMMA SetFractionStep ==
    ASSUME NEW c, Settled(c), NEW e \in Bit
    PROVE  Moves(c, SetFraction(c, e))
<1> DEFINE t == Transfer(c)
           d == SetFraction(c, e)
<1>1. Reads(c, t) /\ t.set = c.set
  BY TransferStep, FlowsMoves DEF Reads, Settled
<1>2. d = Written(t, Assign(t.set, "fraction", e))
  BY Zenon DEF SetFraction, Done, Then, Having, Assign, Written
<1>3. FieldOK("fraction", e) /\ "fraction" \in SetFields \ Core
  BY DEF FieldOK, SetFields, Core
<1> HIDE DEF d, t
<1>4. d = Written(t, Assign(c.set, "fraction", e))
  BY <1>1, <1>2
<1> QED
  BY <1>1, <1>3, <1>4, OtherStep DEF d, Views

LEMMA SetPeriodStep ==
    ASSUME NEW c, Settled(c), NEW ms \in Int
    PROVE  Views(c, SetPeriod(c, ms))
<1> DEFINE s == c.set
           t == Transfers(c, 2)
           v == U32Mul(ms, IF Oscillator = 0 THEN 1 ELSE Oscillator)
           r == Assign(s, "period", v)
           q == Assign(r, "millis", ms)
           d == SetPeriod(c, ms)
<1>1. Reads(c, t) /\ t.set = s
  BY TransfersStep, FlowsMoves DEF Reads, Settled
<1>2. d = Written(t, q)
  <2>1. d = Written(t, Assign(Assign(t.set, "period", v), "millis", ms))
    BY Zenon DEF SetPeriod, Then, Having, Assign, Written
  <2> HIDE DEF d, t, v
  <2> QED
    BY <1>1, <2>1
<1>3. Sound(s)
  BY DEF Settled
<1>4. v \in Int
  <2>1. (IF Oscillator = 0 THEN 1 ELSE Oscillator) \in Int
    BY SettingsAssumption
  <2> QED
    BY <2>1, MulType, WordsAreInts
<1>5. /\ FieldOK("period", v) /\ "period" \in SetFields \ Core
      /\ FieldOK("millis", ms) /\ "millis" \in SetFields \ Core
  <2> HIDE DEF v
  <2> QED
    BY <1>4 DEF FieldOK, SetFields, Core
<1> HIDE DEF s, v
<1>6. /\ CoreIs(r, s.final, s.on, s.value, s.preOff, s.xtalk, s.gain, s.xtalkOn, s.xtalkRate)
      /\ Sound(r) /\ Kept(s, r)
  BY <1>3, <1>5, AssignOther
<1> HIDE DEF r
<1>7. /\ CoreIs(q, r.final, r.on, r.value, r.preOff, r.xtalk, r.gain, r.xtalkOn, r.xtalkRate)
      /\ Sound(q) /\ Kept(r, q)
  BY <1>5, <1>6, AssignOther
<1> HIDE DEF q, d, t
<1>8. Kept(s, q) /\ q.xtalk = s.xtalk /\ q.value = s.value
  BY <1>6, <1>7 DEF Kept, Agreed, CoreIs
<1>9. /\ Moves(c, d) /\ Smooth(c, d) /\ d.regs = c.regs
      /\ d.set = IF t.status = "none" THEN q ELSE s
  BY <1>1, <1>2, <1>7, <1>8, PutStep DEF Written, s
<1> QED
  BY <1>8, <1>9 DEF Views, Leaves, s, d

LEMMA GetPeriodStep ==
    ASSUME NEW c, Settled(c)
    PROVE  Views(c, GetPeriod(c))
<1> DEFINE t == Transfers(c, 2)
           v == U32Div(c.set.period, Oscillator)
           d == GetPeriod(c)
<1>1. Reads(c, t) /\ t.set = c.set
  BY TransfersStep, FlowsMoves DEF Reads, Settled
<1>2. d = Written(t, Assign(t.set, "millis", U32Div(t.set.period, Oscillator)))
  BY Zenon DEF GetPeriod, Then, Having, Assign, Written
<1>3. v \in Int
  <2>1. c.set.period \in Int
    <3>1. Sound(c.set)
      BY DEF Settled
    <3> QED
      BY <3>1, SoundTypes
  <2>2. Oscillator \in Int /\ Oscillator > 0
    BY SettingsAssumption
  <2> QED
    BY <2>1, <2>2, DivType
<1> HIDE DEF v
<1>4. FieldOK("millis", v) /\ "millis" \in SetFields \ Core
  BY <1>3 DEF FieldOK, SetFields, Core
<1> HIDE DEF d, t
<1>5. d = Written(t, Assign(c.set, "millis", v))
  BY <1>1, <1>2 DEF v
<1> QED
  BY <1>1, <1>4, <1>5, OtherStep DEF d

LEMMA GetWrapAroundStep ==
    ASSUME NEW c, Settled(c)
    PROVE  Views(c, GetWrapAround(c))
<1> DEFINE t == Transfer(c)
           m == [t.dev EXCEPT !.steps = t.regs.steps]
           e == [t EXCEPT !.dev = m]
<1>1. GetWrapAround(c) = IF t.status = "none" THEN e ELSE t
  BY Zenon DEF GetWrapAround, Done, Then
<1>2. Reads(c, t) /\ Timed(t)
  BY TransferStep DEF Reads, Flows, Settled
<1>3. Views(c, t) /\ Settled(t)
  BY <1>2, ReadsViews, ViewsSettled
<1> HIDE DEF t
<1>4. m \in Device
  BY <1>2, SensorTypes
<1> HIDE DEF m
<1>5. Flows(t, e) /\ e.regs = t.regs /\ e.status = t.status
  BY <1>2, <1>4, AssignDev
<1> HIDE DEF e
<1>6. Views(t, e)
  BY <1>3, <1>5, FlowsMoves DEF Views, Leaves, Smooth
<1>7. Views(c, e)
  BY <1>3, <1>6, ViewsChain
<1> QED
  BY <1>1, <1>3, <1>7

LEMMA NextLimitStep ==
    ASSUME NEW c, Settled(c), NEW k \in Check
    PROVE  Views(c, NextLimit(c, k))
<1>1. NextLimit(c, k) = IF c.status = "none" THEN GetLimit(c, k) ELSE c
  BY DEF NextLimit, Then
<1>2. Views(c, GetLimit(c, k))
  BY GetLimitStep DEF Views
<1> QED
  BY <1>1, <1>2, ViewsSame

LEMMA GetLimitsStep ==
    ASSUME NEW c, Settled(c)
    PROVE  Views(c, GetLimits(c))
<1> DEFINE c1 == NextLimit(c, "sigma")
           c2 == NextLimit(c1, "final")
           c3 == NextLimit(c2, "clip")
           c4 == NextLimit(c3, "ignore")
           c5 == NextLimit(c4, "msrc")
           c6 == NextLimit(c5, "pre")
<1>1. GetLimits(c) = c6
  BY DEF GetLimits, ForEachCheck
<1>2. Views(c, c1) /\ Settled(c1)
  BY NextLimitStep, ViewsSettled DEF Check
<1> HIDE DEF c1
<1>3. Views(c, c2) /\ Settled(c2)
  BY <1>2, NextLimitStep, ViewsSettled, ViewsChain DEF Check
<1> HIDE DEF c2
<1>4. Views(c, c3) /\ Settled(c3)
  BY <1>3, NextLimitStep, ViewsSettled, ViewsChain DEF Check
<1> HIDE DEF c3
<1>5. Views(c, c4) /\ Settled(c4)
  BY <1>4, NextLimitStep, ViewsSettled, ViewsChain DEF Check
<1> HIDE DEF c4
<1>6. Views(c, c5) /\ Settled(c5)
  BY <1>5, NextLimitStep, ViewsSettled, ViewsChain DEF Check
<1> HIDE DEF c5
<1>7. Views(c, c6)
  BY <1>6, NextLimitStep, ViewsSettled, ViewsChain DEF Check
<1> QED
  BY <1>1, <1>7

LEMMA GetParametersStep ==
    ASSUME NEW c, Settled(c)
    PROVE  Views(c, GetDeviceParameters(c))
<1> DEFINE p == GetPeriod(c)
           x == IF p.status = "none" THEN GetXTalkRate(p) ELSE p
           d == IF x.status = "none" THEN Transfer(x) ELSE x
           l == IF d.status = "none" THEN GetLimits(d) ELSE d
           w == IF l.status = "none" THEN GetWrapAround(l) ELSE l
           b == IF w.status = "none" THEN GetBudget(w) ELSE w
<1>1. GetDeviceParameters(c) = b
  BY DEF GetDeviceParameters, Then
<1>2. Views(c, p) /\ Settled(p)
  BY GetPeriodStep, ViewsSettled
<1> HIDE DEF p
<1>3. Views(c, x) /\ Settled(x)
  <2>1. Views(p, GetXTalkRate(p))
    BY <1>2, GetXTalkStep DEF Views
  <2> QED
    BY <1>2, <2>1, ViewsChain, ViewsSettled
<1> HIDE DEF x
<1>4. Views(c, d) /\ Settled(d)
  <2>1. Views(x, Transfer(x))
    BY <1>3, TransferStep, ReadsViews DEF Settled
  <2> QED
    BY <1>3, <2>1, ViewsChain, ViewsSettled
<1> HIDE DEF d
<1>5. Views(c, l) /\ Settled(l)
  BY <1>4, GetLimitsStep, ViewsChain, ViewsSettled
<1> HIDE DEF l
<1>6. Views(c, w) /\ Settled(w)
  BY <1>5, GetWrapAroundStep, ViewsChain, ViewsSettled
<1> HIDE DEF w
<1>7. Views(w, GetBudget(w))
  <2> DEFINE g == GetBudget(w)
  <2>1. Flows(w, g) /\ Smooth(w, g) /\ g.regs = w.regs
    BY <1>6, GetBudgetStep DEF Programs, Settled
  <2> HIDE DEF g
  <2>2. Moves(w, g) /\ g.set = w.set
    BY <1>6, <2>1, FlowsMoves
  <2>3. Views(w, g)
    BY <2>1, <2>2 DEF Views, Leaves
  <2> QED
    BY <2>3 DEF g
<1>8. Views(c, b)
  BY <1>6, <1>7, ViewsChain
<1> QED
  BY <1>1, <1>8

(* What GetDeviceParameters fills, and SetDeviceParameters reads.          *)
Wanted(p) ==
    /\ p.millis \in Int /\ p.rate \in Int /\ p.offset \in Int
    /\ p.on \in [Check -> Bit] /\ p.value \in [Check -> Int]
    /\ p.budget \in Int

LEMMA ParametersType ==
    ASSUME NEW c, Settled(c)
    PROVE  Wanted(Parameters(c))
<1> DEFINE s == c.set
<1>1. /\ s.millis \in Int /\ s.xtalkRate \in Int /\ s.offset \in Twelve
      /\ s.on \in [Check -> Bit] /\ s.value \in [Check -> Int] /\ s.pre \in Uint16
  <2>1. Sound(s)
    BY DEF Settled
  <2> QED
    BY <2>1, SoundTypes
<1>2. c.dev.budget \in Int
  BY SensorTypes DEF Settled
<1>4. From97(s.pre) \in Int
  BY <1>1, Conversions
<1> HIDE DEF s
<1>3. DecodeOffset(s.offset) \in Int
  <2>1. \A n \in Twelve : DecodeOffset(n) \in Int
    BY SMT DEF DecodeOffset, Twelve
  <2> QED
    BY <1>1, <2>1
<1>5. [k \in Check |-> LimitValue(s, k)] \in [Check -> Int]
  BY <1>1, <1>4 DEF LimitValue
<1> QED
  BY <1>1, <1>2, <1>3, <1>5 DEF Wanted, Parameters, s

LEMMA PutLimitStep ==
    ASSUME NEW c, Settled(c), NEW k \in Check, NEW p, Wanted(p)
    PROVE  Moves(c, PutLimit(c, k, p))
<1> DEFINE a == IF c.status = "none" THEN SwitchLimit(c, k, p.on[k]) ELSE c
           b == IF a.status = "none" THEN SetLimit(a, k, p.value[k]) ELSE a
<1>1. PutLimit(c, k, p) = b
  BY DEF PutLimit, Then
<1>2. p.on[k] \in Bit /\ p.value[k] \in Int
  BY DEF Wanted
<1>3. Moves(c, a) /\ Settled(a)
  BY <1>2, SwitchStep, MovesSame DEF Moves
<1> HIDE DEF a
<1>4. Moves(a, b)
  BY <1>2, <1>3, SetLimitStep, MovesSame
<1> QED
  BY <1>1, <1>3, <1>4, MovesChain

LEMMA PutLimitsStep ==
    ASSUME NEW c, Settled(c), NEW p, Wanted(p)
    PROVE  Moves(c, PutLimits(c, p))
<1> DEFINE c1 == PutLimit(c, "sigma", p)
           c2 == PutLimit(c1, "final", p)
           c3 == PutLimit(c2, "clip", p)
           c4 == PutLimit(c3, "ignore", p)
           c5 == PutLimit(c4, "msrc", p)
           c6 == PutLimit(c5, "pre", p)
<1>1. PutLimits(c, p) = c6
  BY DEF PutLimits, ForEachCheck
<1>0. \A x, y : Moves(x, y) => Settled(y)
  BY DEF Moves
<1>2. Moves(c, c1) /\ Settled(c1)
  BY <1>0, PutLimitStep DEF Check
<1> HIDE DEF c1
<1>3. Moves(c, c2) /\ Settled(c2)
  BY <1>0, <1>2, PutLimitStep, MovesChain DEF Check
<1> HIDE DEF c2
<1>4. Moves(c, c3) /\ Settled(c3)
  BY <1>0, <1>3, PutLimitStep, MovesChain DEF Check
<1> HIDE DEF c3
<1>5. Moves(c, c4) /\ Settled(c4)
  BY <1>0, <1>4, PutLimitStep, MovesChain DEF Check
<1> HIDE DEF c4
<1>6. Moves(c, c5) /\ Settled(c5)
  BY <1>0, <1>5, PutLimitStep, MovesChain DEF Check
<1> HIDE DEF c5
<1>7. Moves(c, c6)
  BY <1>0, <1>6, PutLimitStep, MovesChain DEF Check
<1> QED
  BY <1>1, <1>7

LEMMA SetParametersStep ==
    ASSUME NEW c, Settled(c), NEW p, Wanted(p)
    PROVE  Moves(c, SetDeviceParameters(c, p))
<1> DEFINE a == SetPeriod(c, p.millis)
           x == IF a.status = "none" THEN SetXTalkRate(a, p.rate) ELSE a
           d == IF x.status = "none" THEN SetOffset(x, p.offset) ELSE x
           l == IF d.status = "none" THEN PutLimits(d, p) ELSE d
           w == IF l.status = "none" THEN WrapAround(l, p.wrap) ELSE l
           b == IF w.status = "none" THEN SetBudget(w, p.budget) ELSE w
<1>1. SetDeviceParameters(c, p) = b
  BY DEF SetDeviceParameters, Then
<1>2. p.millis \in Int /\ p.rate \in Int /\ p.offset \in Int /\ p.budget \in Int
  BY DEF Wanted
<1>0. \A y, z : Moves(y, z) => Settled(z)
  BY DEF Moves
<1>3. Moves(c, a) /\ Settled(a)
  BY <1>0, <1>2, SetPeriodStep DEF Views
<1> HIDE DEF a
<1>4. Moves(c, x) /\ Settled(x)
  <2>1. Moves(a, SetXTalkRate(a, p.rate))
    BY <1>2, <1>3, SetXTalkRateStep
  <2> QED
    BY <1>0, <1>3, <2>1, MovesChain
<1> HIDE DEF x
<1>5. Moves(c, d) /\ Settled(d)
  <2>1. Moves(x, SetOffset(x, p.offset))
    BY <1>2, <1>4, SetOffsetStep DEF Views
  <2> QED
    BY <1>0, <1>4, <2>1, MovesChain
<1> HIDE DEF d
<1>6. Moves(c, l) /\ Settled(l)
  BY <1>0, <1>5, PutLimitsStep, MovesChain
<1> HIDE DEF l
<1>7. Moves(c, w) /\ Settled(w)
  <2>1. Moves(l, WrapAround(l, p.wrap))
    BY <1>6, WrapAroundStep, FlowsMoves DEF Settled
  <2> QED
    BY <1>0, <1>6, <2>1, MovesChain
<1> HIDE DEF w
<1>8. Moves(w, SetBudget(w, p.budget))
  BY <1>2, <1>7, SetBudgetStep, FlowsMoves DEF Programs, Settled
<1>9. Moves(c, b)
  BY <1>0, <1>7, <1>8, MovesChain
<1> QED
  BY <1>1, <1>9
-----------------------------------------------------------------------------
(* A measurement.                                                          *)
Measurements == [code: 0 .. 15, range: Uint16, signal: Uint16, ambient: Uint16,
                 spads: Uint16, ref: Uint16, stale: Uint8]

LEMMA IntTypes ==
    ASSUME NEW x \in Int, NEW y \in Int
    PROVE  U32Add(x, y) \in Int /\ U32Sub(x, y) \in Int /\ Rounded16(x) \in Int
<1>1. ASSUME NEW v \in Int, NEW w \in Int
      PROVE  U32Add(v, w) \in Int
  <2>1. High(v) + High(w) \in Int /\ Low(v) + Low(w) \in Int
    <3>1. High(v) \in Int /\ High(w) \in Int /\ Low(v) \in Int /\ Low(w) \in Int
      BY Cuts, WordsAreInts
    <3> QED
      BY <3>1
  <2>2. Carry(High(v) + High(w), Low(v) + Low(w)) \in Int
    BY <2>1, CarryType, WordsAreInts
  <2> QED
    BY <2>2 DEF U32Add
<1>2. U32Neg(y) \in Int
  <2>1. 65535 - High(y) \in Uint16 /\ 65535 - Low(y) \in Uint16
    <3>1. High(y) \in Uint16 /\ Low(y) \in Uint16
      BY Cuts
    <3> QED
      BY <3>1, Uint16Is, SMT
  <2>2. Join(65535 - High(y), 65535 - Low(y)) \in Int
    <3> DEFINE h == 65535 - High(y)
               l == 65535 - Low(y)
    <3>1. h \in Uint16 /\ l \in Uint16
      BY <2>1
    <3> HIDE DEF h, l
    <3>2. Join(h, l) \in Int32
      BY <3>1, JoinType
    <3>3. Join(h, l) \in Int
      BY <3>2, WordsAreInts
    <3> QED
      BY <3>3 DEF h, l
  <2> QED
    BY <1>1, <2>2 DEF U32Neg
<1>3. U32Sub(x, y) \in Int
  BY <1>1, <1>2 DEF U32Sub
<1>4. Rounded16(x) \in Int
  BY <1>1, ShrType DEF Rounded16
<1> QED
  BY <1>1, <1>3, <1>4

LEMMA MillimetersType ==
    ASSUME NEW s, Sound(s), NEW m \in Measurements
    PROVE  Millimeters(m, s) \in Uint16
<1>1. /\ m.range \in Uint16 /\ m.signal \in Uint16 /\ m.spads \in Uint16
      /\ m.range \in Int /\ m.spads \in Int
  BY WordsAreInts DEF Measurements
<1>2. s.gain \in Int /\ s.xtalkRate \in Int
  <2>1. s.gain \in Thousand /\ s.xtalkRate \in Int
    BY SoundTypes
  <2> QED
    BY <2>1 DEF Thousand
<1> DEFINE scaled == U16((s.gain * m.range + 500) \div 1000)
           xtalk == U32Shr(U32Mul(U16(s.xtalkRate), m.spads), 8)
           rest == U32Sub(From97(m.signal), xtalk)
           c == CorrectedRange(m, s)
<1>3. scaled \in Uint16
  <2>1. s.gain * m.range \in Int
    BY <1>1, <1>2
  <2>2. (s.gain * m.range + 500) \div 1000 \in Int
    BY <2>1, SMT
  <2> QED
    BY <2>2, Cuts
<1>4. From97(m.signal) \in Int
  BY <1>1, Conversions
<1>5. rest \in Int
  <2>1. U16(s.xtalkRate) \in Int
    BY <1>2, Cuts, WordsAreInts
  <2>2. U32Mul(U16(s.xtalkRate), m.spads) \in Int
    <3>1. U32Mul(U16(s.xtalkRate), m.spads) \in Int32
      BY <1>1, <2>1, MulType
    <3> QED
      BY <3>1, WordsAreInts
  <2>3. xtalk \in Int
    BY <2>2, ShrType
  <2> HIDE DEF xtalk
  <2> QED
    BY <1>4, <2>3, IntTypes
<1>6. c = IF s.gain = 1000 THEN m.range
          ELSE IF s.xtalkOn = 0 THEN scaled
          ELSE IF rest = 0 THEN (IF s.fraction = 1 THEN 8888 ELSE 4 * 8888)
          ELSE U16(U32Div(U32Mul(scaled, From97(m.signal)), rest))
  BY DEF CorrectedRange
<1> HIDE DEF scaled, rest, c
<1>7. rest # 0 => U16(U32Div(U32Mul(scaled, From97(m.signal)), rest)) \in Uint16
  <2>1. U32Mul(scaled, From97(m.signal)) \in Int
    BY <1>3, <1>4, MulType, WordsAreInts
  <2>2. rest # 0 => U32Div(U32Mul(scaled, From97(m.signal)), rest) \in Int
    BY <1>5, <2>1, DivType
  <2> QED
    BY <2>2, Cuts
<1>8. 8888 \in Uint16 /\ 4 * 8888 \in Uint16
  BY Uint16Is, SMT
<1>9. c \in Uint16
  BY <1>1, <1>3, <1>6, <1>7, <1>8
<1>10. c \div 4 \in Uint16 /\ c \div 1 \in Uint16
  BY <1>9, Uint16Is, SMT
<1> QED
  BY <1>10 DEF Millimeters, c

LEMMA PalType ==
    ASSUME NEW m, NEW flags
    PROVE  PalRangeStatus(m, flags) \in Uint8
<1>1. {0, 1, 2, 3, 4, 5, 255} \subseteq Uint8
  BY Uint8Is, SMT
<1>2. PalRangeStatus(m, flags) \in {0, 1, 2, 3, 4, 5, 255}
  BY ZenonT(30) DEF PalRangeStatus
<1> QED
  BY <1>1, <1>2

LEMMA LimitStatusType ==
    ASSUME NEW m, NEW s, NEW flags, NEW reached
    PROVE  LimitStatus(m, s, flags, reached) \in SUBSET Check
  BY DEF LimitStatus, Check

(* Settings after the fields of a measurement are filled in.               *)
Filled(s, range, sigma, ref, code, failed) ==
    Assign(Assign(Assign(Assign(Assign(s, "range", range), "sigma", sigma), "ref", ref),
                  "rangeStatus", code), "failed", failed)

LEMMA FilledIs ==
    ASSUME NEW s, Sound(s), NEW range \in Uint16, NEW sigma, NEW ref, NEW code \in Uint8,
           NEW failed \in SUBSET Check
    PROVE  LET q == Filled(s, range, sigma, ref, code, failed) IN
           /\ CoreIs(q, s.final, s.on, s.value, s.preOff, s.xtalk, s.gain, s.xtalkOn,
                     s.xtalkRate)
           /\ Kept(s, q)
           /\ q.sigma = sigma /\ q.ref = ref /\ q.rangeStatus = code /\ q.failed = failed
<1> DEFINE a == Assign(s, "range", range)
           b == Assign(a, "sigma", sigma)
           d == Assign(b, "ref", ref)
           e == Assign(d, "rangeStatus", code)
           q == Assign(e, "failed", failed)
<1>0. /\ {"range", "sigma", "ref", "rangeStatus", "failed"} \subseteq SetFields \ Core
      /\ SetFields \ Core \subseteq SetFields
  BY DEF SetFields, Core
<1>1. /\ FieldOK("range", range) /\ FieldOK("sigma", sigma) /\ FieldOK("ref", ref)
      /\ FieldOK("rangeStatus", code) /\ FieldOK("failed", failed)
  BY DEF FieldOK
<1>2. /\ Sound(a) /\ Kept(s, a)
      /\ CoreIs(a, s.final, s.on, s.value, s.preOff, s.xtalk, s.gain, s.xtalkOn, s.xtalkRate)
  BY <1>0, <1>1, AssignOther
<1> HIDE DEF a
<1>3. /\ Sound(b) /\ Kept(a, b) /\ b.sigma = sigma
      /\ CoreIs(b, a.final, a.on, a.value, a.preOff, a.xtalk, a.gain, a.xtalkOn, a.xtalkRate)
  BY <1>0, <1>1, <1>2, AssignOther, SoundAssign
<1> HIDE DEF b
<1>4. /\ Sound(d) /\ Kept(b, d) /\ d.sigma = sigma /\ d.ref = ref
      /\ CoreIs(d, b.final, b.on, b.value, b.preOff, b.xtalk, b.gain, b.xtalkOn, b.xtalkRate)
  <2>1. /\ Sound(d) /\ Kept(b, d)
        /\ CoreIs(d, b.final, b.on, b.value, b.preOff, b.xtalk, b.gain, b.xtalkOn, b.xtalkRate)
    BY <1>0, <1>1, <1>3, AssignOther
  <2>2. d.ref = ref /\ \A y \in SetFields : y # "ref" => d[y] = b[y]
    BY <1>0, <1>1, <1>3, SoundAssign
  <2> HIDE DEF d
  <2>3. d.sigma = b.sigma
    BY <1>0, <2>2
  <2> QED
    BY <1>3, <2>1, <2>2, <2>3
<1> HIDE DEF d
<1>5. /\ Sound(e) /\ Kept(d, e) /\ e.sigma = sigma /\ e.ref = ref /\ e.rangeStatus = code
      /\ CoreIs(e, d.final, d.on, d.value, d.preOff, d.xtalk, d.gain, d.xtalkOn, d.xtalkRate)
  <2>1. /\ Sound(e) /\ Kept(d, e)
        /\ CoreIs(e, d.final, d.on, d.value, d.preOff, d.xtalk, d.gain, d.xtalkOn, d.xtalkRate)
    BY <1>0, <1>1, <1>4, AssignOther
  <2>2. e.rangeStatus = code /\ \A y \in SetFields : y # "rangeStatus" => e[y] = d[y]
    BY <1>0, <1>1, <1>4, SoundAssign
  <2> HIDE DEF e
  <2>3. e.sigma = d.sigma /\ e.ref = d.ref
    BY <1>0, <2>2
  <2> QED
    BY <1>4, <2>1, <2>2, <2>3
<1> HIDE DEF e
<1>6. /\ Sound(q) /\ Kept(e, q) /\ q.sigma = sigma /\ q.ref = ref /\ q.rangeStatus = code
      /\ q.failed = failed
      /\ CoreIs(q, e.final, e.on, e.value, e.preOff, e.xtalk, e.gain, e.xtalkOn, e.xtalkRate)
  <2>1. /\ Sound(q) /\ Kept(e, q)
        /\ CoreIs(q, e.final, e.on, e.value, e.preOff, e.xtalk, e.gain, e.xtalkOn, e.xtalkRate)
    BY <1>0, <1>1, <1>5, AssignOther
  <2>2. q.failed = failed /\ \A y \in SetFields : y # "failed" => q[y] = e[y]
    BY <1>0, <1>1, <1>5, SoundAssign
  <2> HIDE DEF q
  <2>3. q.sigma = e.sigma /\ q.ref = e.ref /\ q.rangeStatus = e.rangeStatus
    BY <1>0, <2>2
  <2> QED
    BY <1>5, <2>1, <2>2, <2>3
<1>7. Filled(s, range, sigma, ref, code, failed) = q
  BY DEF Filled, a, b, d, e
<1> HIDE DEF q
<1>8. Kept(s, q)
  BY <1>2, <1>3, <1>4, <1>5, <1>6 DEF Kept, Agreed
<1>9. CoreIs(q, s.final, s.on, s.value, s.preOff, s.xtalk, s.gain, s.xtalkOn, s.xtalkRate)
  BY <1>2, <1>3, <1>4, <1>5, <1>6 DEF CoreIs
<1> QED
  BY <1>6, <1>7, <1>8, <1>9

LEMMA ReadBackStep ==
    ASSUME NEW c, Settled(c)
    PROVE  Views(c, ReadBack(c))
  BY GetParametersStep, ViewsSame DEF ReadBack

LEMMA ReadReferenceStep ==
    ASSUME NEW c, Settled(c)
    PROVE  Views(c, ReadReference(c))
<1>1. Views(c, Transfers(c, 3))
  BY TransfersStep, ReadsViews DEF Settled
<1>2. ReadReference(c) = IF c.status = "none"
                         THEN IF c.set.on["clip"] = 1 THEN Transfers(c, 3) ELSE c
                         ELSE c
  BY DEF ReadReference, Then
<1> QED
  BY <1>1, <1>2, ViewsSame

(* StatusExplained of settings.                                            *)
Explained(s) ==
    /\ s.rangeStatus = 0 => \A k \in s.failed : s.on[k] = 0
    /\ \A k \in {"sigma", "clip"} \cap s.failed :
          s.on[k] = 1 => U32Less(s.value[k], IF k = "sigma" THEN s.sigma ELSE s.ref)

LEMMA FailedExplained ==
    ASSUME NEW s, Sound(s), NEW m, NEW t, NEW on \in [Check -> Bit],
           NEW reached, reached = {"sigma", "clip", "ignore"}, NEW back, NEW sigma, NEW ref, NEW u,
           sigma = SigmaEstimate(m, s, t) \/ s.on["sigma"] # 1,
           ref = From97(m.ref) \/ s.on["clip"] # 1,
           u.on = on, u.failed = LimitStatus(m, back, LimitFlags(m, s, t, reached), reached),
           back.on = on,
           u.rangeStatus = PalRangeStatus(m, LimitFlags(m, s, t, reached)),
           u.sigma = sigma, u.ref = ref,
           \A k \in {"sigma", "clip"} : u.value[k] = s.value[k]
    PROVE  Explained(u)
<1> DEFINE flags == LimitFlags(m, s, t, reached)
<1>1. /\ flags.sigma => s.on["sigma"] = 1 /\ U32Less(s.value["sigma"], SigmaEstimate(m, s, t))
      /\ flags.clip => s.on["clip"] = 1 /\ U32Less(s.value["clip"], From97(m.ref))
  BY DEF LimitFlags, Fails
<1> HIDE DEF flags
<1>2. u.failed = {k \in {"sigma", "clip", "ignore"} : on[k] = 0 \/ flags[k]}
                     \cup (IF on["final"] = 0 \/ m.code = 4 THEN {"final"} ELSE {})
  BY DEF LimitStatus, flags
<1>3. ASSUME NEW k \in {"sigma", "clip"} \cap u.failed, on[k] = 1
      PROVE  U32Less(u.value[k], IF k = "sigma" THEN u.sigma ELSE u.ref)
  <2>1. flags[k]
    BY <1>2, <1>3
  <2>2. CASE k = "sigma"
    BY <1>1, <2>1, <2>2
  <2>3. CASE k = "clip"
    BY <1>1, <2>1, <2>3
  <2> QED
    BY <2>2, <2>3
<1>4. ASSUME PalRangeStatus(m, flags) = 0
      PROVE  ~flags.sigma /\ ~flags.clip /\ ~flags.ignore /\ m.code # 4
  BY <1>4, SMT DEF PalRangeStatus, NoneCodes
<1>5. ASSUME u.rangeStatus = 0, NEW k \in u.failed
      PROVE  u.on[k] = 0
  <2>1. ~flags.sigma /\ ~flags.clip /\ ~flags.ignore /\ m.code # 4
    BY <1>4, <1>5 DEF flags
  <2> QED
    BY <1>2, <1>5, <2>1
<1> QED
  BY <1>3, <1>5 DEF Explained

SameLimits(c, d) == \A k \in {"sigma", "clip"} : d.set.value[k] = c.set.value[k]
Cleared(c) == [c EXCEPT !.status = "none"]
FillOK(back, ref, d) ==
    /\ Moves(ref, d) /\ d.status = "none"
    /\ back.status = "none" /\ ref.status = "none" => Explained(d.set)

LEMMA FillStep ==
    ASSUME NEW c, Settled(c), NEW back, NEW ref, Settled(ref), NEW m \in Measurements,
           NEW stack \in {0, 255}, SameLimits(c, ref)
    PROVE  FillOK(back, ref, Fill(c, back, ref, m, stack))
<1> DEFINE reached == Reached(back, ref)
           seen == [m EXCEPT !.ref = Reference(back, m)]
           flags == LimitFlags(seen, c.set, Timing(c), reached)
           range == Millimeters(m, c.set)
           sigma == IF c.set.on["sigma"] = 1 THEN SigmaEstimate(seen, c.set, Timing(c))
                    ELSE ref.set.sigma
           light == IF c.set.on["clip"] = 1 /\ "clip" \in reached
                    THEN From97(seen.ref) ELSE ref.set.ref
           code == IF ref.status = "none" THEN PalRangeStatus(seen, flags) ELSE stack
           failed == LimitStatus(seen, ref.set, flags, reached)
           x == Cleared(ref)
           q == Filled(ref.set, range, sigma, light, code, failed)
           d == Fill(c, back, ref, m, stack)
<1>1. d = Having(x, q)
  <2>1. ref.status \in Statuses /\ {"set", "status"} \subseteq DOMAIN ref
    BY DEF Settled, Timed, Fields
  <2>2. x.set = ref.set
    BY <2>1 DEF Cleared
  <2>3. d = [ref EXCEPT !.status = "none", !.set = q]
    BY <2>1, Zenon DEF Fill, Filled, Assign
  <2> HIDE DEF q, d
  <2> QED
    BY <2>1, <2>3 DEF Having, Cleared
<1>2. /\ Sound(c.set) /\ Sound(ref.set) /\ ref.set.on \in [Check -> Bit]
  <2>1. Sound(ref.set) /\ Sound(c.set)
    BY DEF Settled
  <2> QED
    BY <2>1, SoundTypes
<1>3. range \in Uint16 /\ failed \in SUBSET Check
  BY <1>2, MillimetersType, LimitStatusType
<1>4. code \in Uint8
  <2>1. {0, 255} \subseteq Uint8
    BY Uint8Is, SMT
  <2> QED
    BY <2>1, PalType
<1>5. /\ Settled(x) /\ x.set = ref.set /\ x.status = "none" /\ x.fuse = ref.fuse
      /\ x.regs = ref.regs /\ x.dev = ref.dev
  <2>1. Flows(ref, x) /\ x.regs = ref.regs /\ x.dev = ref.dev /\ x.status = "none"
        /\ x.fuse = ref.fuse
    BY AssignLocal, Names DEF Settled, Cleared
  <2> HIDE DEF x
  <2> QED
    BY <2>1, FlowsMoves DEF Moves
<1> HIDE DEF x, d
<1> DEFINE s == ref.set
<1> HIDE DEF reached, seen, flags, range, sigma, light, code, failed, s
<1>6. /\ CoreIs(q, s.final, s.on, s.value, s.preOff, s.xtalk, s.gain, s.xtalkOn, s.xtalkRate)
      /\ Kept(s, q)
      /\ q.sigma = sigma /\ q.ref = light /\ q.rangeStatus = code /\ q.failed = failed
  BY <1>2, <1>3, <1>4, FilledIs DEF s
<1> HIDE DEF q
<1>7. Sound(q) /\ q.on = s.on /\ q.value = s.value
  BY <1>6 DEF CoreIs
<1>8. /\ Settled(d) /\ d.set = q /\ d.fuse = ref.fuse /\ d.status = "none"
      /\ d.regs = ref.regs /\ d.dev = ref.dev
  BY <1>1, <1>5, <1>7, HavingStep
<1>9. Moves(ref, d)
  <2>1. d.fuse <= ref.fuse
    BY <1>8 DEF Settled, Timed
  <2> QED
    BY <1>6, <1>8, <2>1 DEF Moves, Kept, s
<1>10. ASSUME back.status = "none", ref.status = "none"
       PROVE  Explained(q)
  <2>0. reached = {"sigma", "clip", "ignore"}
    BY <1>10 DEF reached, Reached
  <2>1. sigma = SigmaEstimate(seen, c.set, Timing(c)) \/ c.set.on["sigma"] # 1
    BY DEF sigma
  <2>2. light = From97(seen.ref) \/ c.set.on["clip"] # 1
    BY <2>0 DEF light
  <2>3. code = PalRangeStatus(seen, LimitFlags(seen, c.set, Timing(c), reached))
    BY <1>10 DEF code, flags
  <2>4. failed = LimitStatus(seen, s, LimitFlags(seen, c.set, Timing(c), reached), reached)
    BY DEF failed, flags, s
  <2>5. s.on \in [Check -> Bit] /\ \A k \in {"sigma", "clip"} : q.value[k] = c.set.value[k]
    BY <1>2, <1>7 DEF s, SameLimits
  <2> QED
    BY <1>2, <1>6, <1>7, <2>0, <2>1, <2>2, <2>3, <2>4, <2>5, FailedExplained
<1> QED
  BY <1>8, <1>9, <1>10 DEF d, FillOK

LEMMA MeasurementStep ==
    ASSUME NEW c, Settled(c), NEW m \in Measurements, NEW stack \in {0, 255}
    PROVE  LET d == ReadMeasurement(c, m, stack) IN
           /\ Moves(c, d)
           /\ Intact(c, d) /\ c.status = "none" => Explained(d.set)
<1> DEFINE t == Transfer(c)
           b == ReadBack(t)
           r == ReadReference(b)
           f == Fill(t, b, r, m, stack)
           d == ReadMeasurement(c, m, stack)
<1>1. d = IF t.status = "none" THEN f ELSE t
  BY DEF ReadMeasurement, Then
<1>2. Views(c, t) /\ Settled(t)
  BY TransferStep, ReadsViews, ViewsSettled DEF Settled
<1> HIDE DEF t, d
<1>3. Views(t, b) /\ Settled(b)
  BY <1>2, ReadBackStep, ViewsSettled
<1> HIDE DEF b
<1>4. Views(b, r) /\ Settled(r)
  BY <1>3, ReadReferenceStep, ViewsSettled
<1> HIDE DEF r
<1>5. Views(t, r)
  BY <1>2, <1>3, <1>4, ViewsChain
<1>6. /\ Moves(r, f) /\ f.status = "none"
      /\ b.status = "none" /\ r.status = "none" => Explained(f.set)
  <2>1. SameLimits(t, r)
    BY <1>5 DEF Views, SameLimits
  <2> HIDE DEF f
  <2>2. Settled(t) /\ Settled(r)
    BY <1>2, <1>4
  <2>3. FillOK(b, r, Fill(t, b, r, m, stack))
    BY <2>1, <2>2, FillStep
  <2> QED
    BY <2>3 DEF f, FillOK
<1> HIDE DEF f
<1>7. Moves(t, f) /\ (Intact(t, f) => Intact(t, r) /\ Intact(r, f))
  BY <1>2, <1>5, <1>6, MovesChain DEF Views
<1>8. Intact(t, r) => Intact(t, b) /\ Intact(b, r)
  BY <1>2, <1>3, <1>4, MovesChain DEF Views
<1>9. Moves(c, f) /\ (Intact(c, f) => Intact(c, t) /\ Intact(t, f))
  BY <1>2, <1>7, MovesChain DEF Views
<1>10. Moves(c, d)
  BY <1>1, <1>2, <1>9 DEF Views
<1>11. ASSUME Intact(c, d), c.status = "none"
       PROVE  Explained(d.set)
  <2>1. t.status = "none" /\ d = f
    <3>1. CASE t.status # "none"
      BY <1>1, <1>2, <1>11, <3>1 DEF Views, Smooth
    <3> QED
      BY <1>1, <3>1
  <2>2. Intact(t, b) /\ Intact(b, r)
    BY <1>7, <1>8, <1>9, <1>11, <2>1
  <2>3. b.status = "none"
    BY <1>3, <2>1, <2>2 DEF Views, Smooth
  <2>4. r.status = "none"
    BY <1>4, <2>2, <2>3 DEF Views, Smooth
  <2> QED
    BY <1>6, <2>1, <2>3, <2>4
<1> QED
  BY <1>10, <1>11 DEF d
-----------------------------------------------------------------------------
(* The calibrations.                                                       *)
Samples == [n: 0 .. 50, range: Uint16, signal: Int, spads: Uint8, end: Statuses]

LEMMA MeanType ==
    ASSUME NEW x \in Int, NEW n \in 1 .. 50
    PROVE  MeanOf(x, n) \in Int
<1>1. n \in Int /\ n # 0 /\ x * n \in Int
  BY SMT
<1> DEFINE w == U16(x * n)
           z == U32Mul(w, 65536)
<1>2. w \in Int
  BY <1>1, Cuts, WordsAreInts
<1> HIDE DEF w
<1>3. z \in Int32
  BY <1>2, MulType
<1> HIDE DEF z
<1>4. z \in Int
  BY <1>3, WordsAreInts
<1> QED
  BY <1>1, <1>4, DivType DEF MeanOf, w, z

LEMMA CrossTalkType ==
    ASSUME NEW a \in Samples, a.n # 0, NEW distance \in Int
    PROVE  CrossTalkOf(a, distance) \in Int
<1> DEFINE spads == Rounded16(MeanOf(a.spads, a.n))
           range == MeanOf(a.range, a.n)
           away == Rounded16(distance)
           share == U32Sub(65536, U32Div(range, away))
<1>1. a.n \in 1 .. 50 /\ a.spads \in Int /\ a.range \in Int /\ a.signal \in Int
  <2>1. a.n \in 0 .. 50 /\ a.spads \in Uint8 /\ a.range \in Uint16 /\ a.signal \in Int
    BY DEF Samples
  <2>2. a.spads \in Int /\ a.range \in Int
    BY <2>1, WordsAreInts
  <2>3. a.n \in 1 .. 50
    BY <2>1
  <2> QED
    BY <2>1, <2>2, <2>3
<1>2. spads \in Int
  BY <1>1, MeanType, IntTypes
<1>3. range \in Int /\ away \in Int
  BY <1>1, MeanType, IntTypes
<1>4. CrossTalkOf(a, distance)
          = IF spads = 0 \/ away = 0 \/ ~U32Less(range, distance) THEN 0
            ELSE Rounded16(U32Mul(U32Div(a.signal, spads), share))
  BY DEF CrossTalkOf
<1> HIDE DEF spads, range, away
<1>5. ASSUME spads # 0, away # 0
      PROVE  Rounded16(U32Mul(U32Div(a.signal, spads), share)) \in Int
  <2>1. U32Div(range, away) \in Int /\ U32Div(a.signal, spads) \in Int
    BY <1>1, <1>2, <1>3, <1>5, DivType
  <2>2. share \in Int
    BY <2>1, IntTypes
  <2> HIDE DEF share
  <2>3. U32Mul(U32Div(a.signal, spads), share) \in Int32
    BY <2>1, <2>2, MulType
  <2>4. U32Mul(U32Div(a.signal, spads), share) \in Int
    BY <2>3, WordsAreInts
  <2> QED
    BY <2>4, IntTypes
<1> QED
  BY <1>4, <1>5

LEMMA Measure50Step ==
    ASSUME NEW c, Settled(c), NEW a \in Samples
    PROVE  LET d == Measure50(c, a) IN
           Moves(c, d) /\ Leaves(c, d) /\ d.status = IF a.n = 0 THEN "range" ELSE a.end
<1> DEFINE b == ReadBack(c)
           e == IF a.n = 0 THEN "range" ELSE a.end
           d == Measure50(c, a)
<1>1. d = [b EXCEPT !.status = e]
  BY DEF Measure50, Fail
<1>2. e \in Statuses
  BY Names DEF Samples
<1>3. Views(c, b) /\ Settled(b)
  BY ReadBackStep, ViewsSettled
<1> HIDE DEF b, d
<1>4. Flows(b, d) /\ d.regs = b.regs /\ d.status = e
  BY <1>1, <1>2, <1>3, AssignLocal DEF Settled
<1> HIDE DEF e
<1>5. Moves(b, d) /\ d.set = b.set
  BY <1>3, <1>4, FlowsMoves
<1>6. Moves(c, d)
  BY <1>3, <1>5, MovesChain DEF Views
<1> QED
  BY <1>3, <1>4, <1>5, <1>6 DEF Views, Leaves, d, e

LEMMA MovesSettled == \A c, d : Moves(c, d) => Settled(d)
  BY DEF Moves

LEMMA InvalidStep ==
    ASSUME NEW c, Settled(c)
    PROVE  Moves(c, Invalid(c)) /\ Invalid(c).status = "invalid"
<1> DEFINE d == [c EXCEPT !.status = "invalid"]
<1>1. Invalid(c) = d
  BY DEF Invalid, Fail
<1>2. Flows(c, d) /\ d.status = "invalid"
  BY AssignLocal, Names DEF Settled
<1> HIDE DEF d
<1> QED
  BY <1>1, <1>2, FlowsMoves

(* A calibration of crosstalk from c that ended in d.                      *)
XTalkInstalled(d) ==
    /\ d.status = "none" => d.set.xtalkOn = 1 /\ d.set.xtalk = XTalkRegister(d.set, 1)
    /\ d.status = "range" => d.set.xtalk = 0

LEMMA XTalkStep ==
    ASSUME NEW c, Settled(c), c.status = "none", NEW a \in Samples, NEW distance \in Int
    PROVE  LET d == CalibrateXTalk(c, distance, a) IN
           Moves(c, d) /\ (Intact(c, d) => XTalkInstalled(d))
<1> DEFINE x == SwitchXTalk(c, 0)
           y == IF x.status = "none" THEN SwitchLimit(x, "ignore", 0) ELSE x
           e == IF y.status = "none" THEN Measure50(y, a) ELSE y
           f == IF e.status = "none" THEN SwitchXTalk(e, 1) ELSE e
           n == CrossTalkOf(a, distance)
           g == IF f.status = "none" THEN SetXTalkRate(f, n) ELSE f
           d == CalibrateXTalk(c, distance, a)
<1>1. d = IF distance = 0 THEN Invalid(c) ELSE g
  BY DEF CalibrateXTalk, Then
<1>0. 0 \in Bit /\ 1 \in Bit /\ "ignore" \in Check
  BY DEF Bit, Check
<1>2. /\ Moves(c, x) /\ Settled(x) /\ Smooth(c, x)
      /\ x.status = "none" => x.set.xtalk = XTalkRegister(x.set, 0)
  BY <1>0, SwitchXTalkStep, MovesSettled
<1> HIDE DEF x, d
<1>3. x.status = "none" => x.set.xtalk = 0
  BY <1>2 DEF XTalkRegister
<1>4. /\ Moves(x, y) /\ Settled(y) /\ Smooth(x, y) /\ Leaves(x, y)
  BY <1>0, <1>2, SwitchStep, MovesSame, MovesSettled
<1> HIDE DEF y
<1>5. /\ Moves(y, e) /\ Settled(e) /\ Leaves(y, e)
      /\ y.status = "none" => e.status = IF a.n = 0 THEN "range" ELSE a.end
  BY <1>4, Measure50Step, MovesSame, MovesSettled
<1>6. e.status = "none" => a.n # 0
  BY <1>5
<1> HIDE DEF e
<1>7. /\ Moves(e, f) /\ Settled(f) /\ Smooth(e, f)
      /\ e.status = "none" /\ f.status = "none" => f.set.xtalkOn = 1
  BY <1>0, <1>5, SwitchXTalkStep, MovesSame, MovesSettled
<1>8. f.status = "none" => e.status = "none"
  OBVIOUS
<1>9. e.status # "none" => f = e
  OBVIOUS
<1> HIDE DEF f
<1>10. f.status = "none" => n \in Int
  BY <1>6, <1>8, CrossTalkType
<1> HIDE DEF n
<1>11. /\ Moves(f, g) /\ Smooth(f, g)
       /\ f.status = "none" /\ f.set.xtalkOn = 1 /\ g.status = "none"
             => g.set.xtalkOn = 1 /\ g.set.xtalk = XTalkRegister(g.set, 1)
  BY <1>7, <1>10, SetXTalkRateStep, MovesSame
<1>12. f.status # "none" => g = f
  OBVIOUS
<1> HIDE DEF g
<1>13. Moves(c, y) /\ (Intact(c, y) => Intact(c, x) /\ Intact(x, y))
  BY <1>2, <1>4, MovesChain
<1>14. Moves(c, e) /\ (Intact(c, e) => Intact(c, y) /\ Intact(y, e))
  BY <1>5, <1>13, MovesChain
<1>15. Moves(c, f) /\ (Intact(c, f) => Intact(c, e) /\ Intact(e, f))
  BY <1>7, <1>14, MovesChain
<1>16. Moves(c, g) /\ (Intact(c, g) => Intact(c, f) /\ Intact(f, g))
  BY <1>11, <1>15, MovesChain
<1>17. ASSUME Intact(c, g)
       PROVE  XTalkInstalled(g)
  <2>1. Intact(c, f) /\ Intact(f, g) /\ Intact(e, f) /\ Intact(c, x) /\ Intact(x, y)
    BY <1>13, <1>14, <1>15, <1>16, <1>17
  <2>2. x.status = "none" /\ y.status = "none"
    BY <1>2, <1>4, <2>1 DEF Smooth
  <2>3. e.set.xtalk = 0
    BY <1>3, <1>4, <1>5, <2>2 DEF Leaves
  <2>4. CASE e.status = "none"
    <3>1. f.status = "none" /\ g.status = "none"
      BY <1>7, <1>11, <2>1, <2>4 DEF Smooth
    <3> QED
      BY <1>7, <1>11, <2>4, <3>1 DEF XTalkInstalled
  <2>5. CASE e.status # "none"
    BY <1>9, <1>12, <2>3, <2>5 DEF XTalkInstalled
  <2> QED
    BY <2>4, <2>5
<1>18. CASE distance = 0
  BY <1>1, <1>18, InvalidStep DEF XTalkInstalled, d
<1>19. CASE distance # 0
  BY <1>1, <1>16, <1>17, <1>19 DEF d
<1> QED
  BY <1>18, <1>19

(* The offset a calibration finds is a whole number of millimetres, which  *)
(* the register has the bits for.                                          *)
LEMMA OffsetType ==
    ASSUME NEW a \in Samples, a.n # 0, NEW distance \in Int
    PROVE  LET o == OffsetOf(a, distance) IN
           o \in Int /\ EncodeOffset(o) % 4096 = EncodeOffset(o)
<1> DEFINE k == Rounded16(distance) - Rounded16(MeanOf(a.range, a.n))
<1>1. a.n \in 1 .. 50 /\ a.range \in Int
  <2>1. a.n \in 0 .. 50 /\ a.range \in Uint16
    BY DEF Samples
  <2>2. a.n \in 1 .. 50
    BY <2>1
  <2> QED
    BY <2>1, <2>2, WordsAreInts
<1>2. k \in Int
  <2>1. Rounded16(distance) \in Int /\ Rounded16(MeanOf(a.range, a.n)) \in Int
    BY <1>1, MeanType, IntTypes
  <2> QED
    BY <2>1
<1>3. OffsetOf(a, distance) = 1000 * k
  BY DEF OffsetOf
<1> HIDE DEF k
<1>4. EncodeOffset(1000 * k) \in Int /\ 0 <= EncodeOffset(1000 * k) /\ EncodeOffset(1000 * k) < 4096
  BY <1>2, SMT DEF EncodeOffset
<1>5. \A v \in Int : 0 <= v /\ v < 4096 => v % 4096 = v
  BY SMT
<1>6. 1000 * k \in Int
  BY <1>2
<1> QED
  BY <1>3, <1>4, <1>5, <1>6

LEMMA InstallOffsetStep ==
    ASSUME NEW c, Settled(c), NEW um \in Int
    PROVE  LET d == InstallOffset(c, um) IN
           /\ Moves(c, d) /\ d.regs = c.regs
           /\ d.status = "none" => d.set.offset = EncodeOffset(um) % 4096 /\ d.set.micro = um
<1> DEFINE s == c.set
           q == Assign(s, "micro", um)
           h == Having(c, q)
           d == InstallOffset(c, um)
           v == EncodeOffset(um) % 4096
<1>1. d = SetOffset(h, um)
  BY DEF InstallOffset, Having, Assign
<1>2. Sound(s)
  BY DEF Settled
<1>3. FieldOK("micro", um) /\ "micro" \in SetFields \ Core /\ {"micro", "offset"} \subseteq SetFields
  BY DEF FieldOK, SetFields, Core
<1>4. Sound(q) /\ Kept(s, q) /\ q.micro = um
  <2> HIDE DEF s
  <2> QED
    BY <1>2, <1>3, AssignOther, SoundAssign
<1> HIDE DEF q, d
<1>5. Settled(h) /\ h.set = q /\ h.fuse = c.fuse /\ h.regs = c.regs
  BY <1>4, HavingStep
<1> HIDE DEF h
<1>6. Moves(c, h)
  BY <1>4, <1>5 DEF Moves, Kept, Settled, Timed
<1>7. /\ Views(h, d)
      /\ d.status = "none" => d.set = Assign(q, "offset", v)
  BY <1>1, <1>5, SetOffsetStep
<1>8. FieldOK("offset", v)
  <2>1. v \in Twelve
    BY EncodeOffsetType
  <2> HIDE DEF v
  <2> QED
    BY <2>1 DEF FieldOK
<1> HIDE DEF v
<1>9. Assign(q, "offset", v).offset = v /\ Assign(q, "offset", v).micro = um
  BY <1>3, <1>4, <1>8, SoundAssign
<1>10. Moves(c, d)
  BY <1>6, <1>7, MovesChain DEF Views
<1> QED
  BY <1>5, <1>7, <1>9, <1>10 DEF Views, Leaves, d, v

LEMMA OffsetStep ==
    ASSUME NEW c, Settled(c), c.status = "none", NEW a \in Samples, NEW distance \in Int
    PROVE  LET d == CalibrateOffset(c, distance, a) IN
           /\ Moves(c, d)
           /\ Intact(c, d) /\ d.status = "none" =>
                 d.regs.steps = c.regs.steps /\ d.set.offset = EncodeOffset(d.set.micro)
<1> DEFINE x == SetOffset(c, 0)
           y == IF x.status = "none" THEN Transfer(x) ELSE x
           t == IF y.status = "none" THEN EnableStep(y, "TCC", FALSE) ELSE y
           e == IF t.status = "none" THEN SwitchLimit(t, "ignore", 0) ELSE t
           m == IF e.status = "none" THEN Measure50(e, a) ELSE e
           o == OffsetOf(a, distance)
           f == IF m.status = "none" THEN InstallOffset(m, o) ELSE m
           on == "TCC" \in c.regs.steps
           g == IF f.status = "none" THEN RestoreTcc(f, on) ELSE f
           d == CalibrateOffset(c, distance, a)
<1>1. d = IF distance = 0 THEN Invalid(c) ELSE g
  <2>1. Uncorrected(c) = e
    BY DEF Uncorrected, Then
  <2> HIDE DEF e
  <2> QED
    BY <2>1 DEF CalibrateOffset, Then
<1>0. 0 \in Bit /\ "ignore" \in Check /\ "TCC" \in Step
  BY DEF Bit, Check, Step
<1>2. Moves(c, x) /\ Settled(x) /\ Smooth(c, x) /\ x.regs = c.regs
  BY SetOffsetStep, MovesSettled DEF Views, Leaves
<1> HIDE DEF x, d
<1>3. Moves(x, y) /\ Settled(y) /\ Smooth(x, y) /\ y.regs = x.regs
  <2>1. Views(x, Transfer(x))
    BY <1>2, TransferStep, ReadsViews DEF Settled
  <2>2. Views(x, y)
    BY <1>2, <2>1, ViewsSame
  <2> HIDE DEF y
  <2> QED
    BY <2>2, MovesSettled DEF Views, Leaves
<1> HIDE DEF y
<1>4. /\ Moves(y, t) /\ Settled(t)
      /\ Intact(y, t) /\ y.status = "none" => t.regs.steps = y.regs.steps \ {"TCC"}
  <2> DEFINE z == EnableStep(y, "TCC", FALSE)
  <2>1. /\ Flows(y, z)
        /\ Intact(y, z) /\ y.status = "none" => z.regs.steps = y.regs.steps \ {"TCC"}
    BY <1>0, <1>3, EnableStepStep DEF Settled
  <2> HIDE DEF z
  <2>2. Moves(y, z)
    BY <1>3, <2>1, FlowsMoves
  <2> QED
    BY <1>3, <2>1, <2>2, MovesSame, MovesSettled DEF z
<1> HIDE DEF t
<1>5. Moves(t, e) /\ Settled(e) /\ e.regs = t.regs
  BY <1>0, <1>4, SwitchStep, MovesSame, MovesSettled DEF Leaves
<1> HIDE DEF e
<1>6. /\ Moves(e, m) /\ Settled(m) /\ m.regs = e.regs
      /\ m.status = "none" => a.n # 0
  BY <1>5, Measure50Step, MovesSame, MovesSettled DEF Leaves
<1> HIDE DEF m
<1>7. m.status = "none" => o \in Int /\ EncodeOffset(o) % 4096 = EncodeOffset(o)
  BY <1>6, OffsetType
<1> HIDE DEF o
<1>8. /\ Moves(m, f) /\ Settled(f) /\ f.regs = m.regs
      /\ f.status = "none" => f.set.offset = EncodeOffset(f.set.micro)
  <2>1. CASE m.status # "none"
    BY <1>6, <2>1, MovesSame
  <2>2. CASE m.status = "none"
    <3>1. /\ Moves(m, f) /\ f.regs = m.regs
          /\ f.status = "none" => f.set.offset = EncodeOffset(o) % 4096 /\ f.set.micro = o
      BY <1>6, <1>7, <2>2, InstallOffsetStep
    <3> HIDE DEF f
    <3> QED
      BY <1>7, <2>2, <3>1, MovesSettled
  <2> QED
    BY <2>1, <2>2
<1> HIDE DEF f
<1>9. /\ Moves(f, g) /\ g.set = f.set
      /\ Intact(f, g) /\ f.status = "none" =>
            g.regs.steps = (IF on THEN f.regs.steps \cup {"TCC"} ELSE f.regs.steps)
  <2> DEFINE z == EnableStep(f, "TCC", TRUE)
  <2>1. /\ Flows(f, z)
        /\ Intact(f, z) /\ f.status = "none" => z.regs.steps = f.regs.steps \cup {"TCC"}
    BY <1>0, <1>8, EnableStepStep DEF Settled
  <2>2. g = IF f.status = "none" THEN (IF on THEN z ELSE f) ELSE f
    BY DEF RestoreTcc
  <2> HIDE DEF z, g, on
  <2>3. Moves(f, z) /\ z.set = f.set
    BY <1>8, <2>1, FlowsMoves
  <2> QED
    BY <1>8, <2>1, <2>2, <2>3, MovesSame
<1>10. f.status # "none" => g = f
  OBVIOUS
<1> HIDE DEF g, on
<1>11. Moves(c, y) /\ Smooth(c, y) /\ (Intact(c, y) => Intact(c, x) /\ Intact(x, y))
  BY <1>2, <1>3, MovesChain
<1>12. Moves(c, t) /\ (Intact(c, t) => Intact(c, y) /\ Intact(y, t))
  BY <1>4, <1>11, MovesChain
<1>13. Moves(c, e) /\ (Intact(c, e) => Intact(c, t))
  BY <1>5, <1>12, MovesChain
<1>14. Moves(c, m) /\ (Intact(c, m) => Intact(c, e))
  BY <1>6, <1>13, MovesChain
<1>15. Moves(c, f) /\ (Intact(c, f) => Intact(c, m))
  BY <1>8, <1>14, MovesChain
<1>16. Moves(c, g) /\ (Intact(c, g) => Intact(c, f) /\ Intact(f, g))
  BY <1>9, <1>15, MovesChain
<1>17. ASSUME Intact(c, g), g.status = "none"
       PROVE  g.regs.steps = c.regs.steps /\ g.set.offset = EncodeOffset(g.set.micro)
  <2>1. Intact(c, y) /\ Intact(y, t) /\ Intact(f, g)
    BY <1>12, <1>13, <1>14, <1>15, <1>16, <1>17
  <2>2. f.status = "none"
    BY <1>10, <1>17
  <2>3. y.status = "none"
    BY <1>11, <2>1 DEF Smooth
  <2>4. f.regs.steps = c.regs.steps \ {"TCC"}
    BY <1>2, <1>3, <1>4, <1>5, <1>6, <1>8, <2>1, <2>3
  <2>5. g.regs.steps = c.regs.steps
    BY <1>9, <2>1, <2>2, <2>4 DEF on
  <2> QED
    BY <1>8, <1>9, <2>2, <2>5
<1>18. CASE distance = 0
  BY <1>1, <1>18, InvalidStep DEF d
<1>19. CASE distance # 0
  BY <1>1, <1>16, <1>17, <1>19 DEF d
<1> QED
  BY <1>18, <1>19
-----------------------------------------------------------------------------
(* The invariant of the settings.                                          *)
SettingsInv ==
    /\ TimingInv /\ Sound(set) /\ Wanted(saved)
    /\ AgreeFinal(set) /\ AgreePre(set)
    /\ StatusExplained

LEMMA WithSettingsSettled ==
    ASSUME NEW c, Timed(c), NEW s, Sound(s)
    PROVE  LET d == WithSettings(c, s) IN
           /\ Settled(d) /\ d.set = s /\ d.fuse = c.fuse /\ d.status = c.status
           /\ d.regs = c.regs /\ d.dev = c.dev /\ d.cal = c.cal
<1> DEFINE d == WithSettings(c, s)
<1>1. Fields \subseteq DOMAIN d /\ "set" \in DOMAIN d
  BY DEF WithSettings, Fields
<1>2. /\ d.set = s /\ d.fuse = c.fuse /\ d.status = c.status /\ d.regs = c.regs
      /\ d.dev = c.dev /\ d.seen = c.seen /\ d.garbage = c.garbage
      /\ d.micros = c.micros /\ d.left = c.left /\ d.cal = c.cal
  BY DEF WithSettings
<1> HIDE DEF d
<1> QED
  BY <1>1, <1>2 DEF Settled, Timed, d

LEMMA CallSettled ==
    ASSUME regs \in Sensors, dev \in Device, Sound(set), NEW f \in Int
    PROVE  LET c == Call(f) IN
           /\ Settled(c) /\ c.set = set /\ c.fuse = f /\ c.status = "none"
           /\ c.regs = regs /\ c.dev = dev
<1> DEFINE b == Begin(f, {}, "ok")
<1>1. Timed(b)
  BY BeginTimed DEF Ends
<1>2. b.fuse = f /\ b.status = "none" /\ b.regs = regs /\ b.dev = dev
  BY DEF Begin
<1> HIDE DEF b
<1>3. Call(f) = WithSettings(b, set)
  BY DEF Call, b
<1> QED
  BY <1>1, <1>2, <1>3, WithSettingsSettled

(* What a call of the settings leads to, from c to d.                      *)
Leads(op, c, d) ==
    /\ Moves(c, d)
    /\ Intact(c, d) =>
          /\ op = "Measure" => Explained(d.set)
          /\ op = "OffsetCal" /\ d.status = "none" =>
                d.regs.steps = c.regs.steps /\ d.set.offset = EncodeOffset(d.set.micro)
          /\ op = "XTalkCal" => XTalkInstalled(d)

Others == {"LimitEnable", "LimitValue", "GetLimit", "XTalkEnable", "XTalkRate", "GetXTalk",
           "Gain", "Offset", "Period", "Fraction", "GetParameters", "SetParameters"}

LEMMA OtherLeads ==
    ASSUME NEW op \in Others, NEW c, NEW d, Moves(c, d)
    PROVE  Leads(op, c, d)
  BY DEF Others, Leads

LEMMA EveryCallLeads ==
    ASSUME TimingInv, Sound(set), Wanted(saved), SettingsNext
    PROVE  \E op, f, d : f \in Int /\ SettingsReturn(op, f, d) /\ Leads(op, Call(f), d)
<1>1. regs \in Sensors /\ dev \in Device
  BY DEF TimingInv
<1>2. /\ Limits \subseteq Int /\ Rates \subseteq Int /\ Gains \subseteq Int
      /\ Offsets \subseteq Int /\ Periods \subseteq Int /\ Faults \subseteq Int
      /\ Targets \subseteq Measurements /\ Averages \subseteq Samples
      /\ Distances \subseteq Int /\ {-1, 0, 1} \subseteq Int /\ {0, 1} \subseteq Bit
  BY SettingsAssumption, InputAssumption DEF Measurements, Samples, Bit
<1>3. ASSUME NEW f \in Int
      PROVE  Settled(Call(f)) /\ Call(f).status = "none"
  BY <1>1, CallSettled
<1>4. CASE SetLimitCheckEnable
  <2>1. PICK k \in Check, e \in {0, 1}, f \in {-1, 0, 1} :
            SettingsReturn("LimitEnable", f, SwitchLimit(Call(f), k, e))
    BY <1>4 DEF SetLimitCheckEnable
  <2>2. f \in Int /\ e \in Bit
    BY <1>2
  <2>3. Moves(Call(f), SwitchLimit(Call(f), k, e))
    BY <1>3, <2>2, SwitchStep
  <2> QED
    BY <2>1, <2>2, <2>3, OtherLeads DEF Others
<1>5. CASE SetLimitCheckValue
  <2>1. PICK k \in Check, v \in Limits, f \in {-1, 0} :
            SettingsReturn("LimitValue", f, SetLimit(Call(f), k, v))
    BY <1>5 DEF SetLimitCheckValue
  <2>2. f \in Int /\ v \in Int
    BY <1>2
  <2>3. Moves(Call(f), SetLimit(Call(f), k, v))
    BY <1>3, <2>2, SetLimitStep
  <2> QED
    BY <2>1, <2>2, <2>3, OtherLeads DEF Others
<1>6. CASE GetLimitCheckValue
  <2>1. PICK k \in Check, f \in {-1, 0} : SettingsReturn("GetLimit", f, GetLimit(Call(f), k))
    BY <1>6 DEF GetLimitCheckValue
  <2>2. f \in Int
    BY <1>2
  <2>3. Moves(Call(f), GetLimit(Call(f), k))
    BY <1>3, <2>2, GetLimitStep
  <2> QED
    BY <2>1, <2>2, <2>3, OtherLeads DEF Others
<1>7. CASE SetXTalkCompensationEnable
  <2>1. PICK e \in {0, 1}, f \in {-1, 0} :
            SettingsReturn("XTalkEnable", f, SwitchXTalk(Call(f), e))
    BY <1>7 DEF SetXTalkCompensationEnable
  <2>2. f \in Int /\ e \in Bit
    BY <1>2
  <2>3. Moves(Call(f), SwitchXTalk(Call(f), e))
    BY <1>3, <2>2, SwitchXTalkStep
  <2> QED
    BY <2>1, <2>2, <2>3, OtherLeads DEF Others
<1>8. CASE SetXTalkCompensationRateMegaCps
  <2>1. PICK r \in Rates, f \in {-1, 0} :
            SettingsReturn("XTalkRate", f, SetXTalkRate(Call(f), r))
    BY <1>8 DEF SetXTalkCompensationRateMegaCps
  <2>2. f \in Int /\ r \in Int
    BY <1>2
  <2>3. Moves(Call(f), SetXTalkRate(Call(f), r))
    BY <1>3, <2>2, SetXTalkRateStep
  <2> QED
    BY <2>1, <2>2, <2>3, OtherLeads DEF Others
<1>9. CASE GetXTalkCompensationRateMegaCps
  <2>1. PICK f \in {-1, 0} : SettingsReturn("GetXTalk", f, GetXTalkRate(Call(f)))
    BY <1>9 DEF GetXTalkCompensationRateMegaCps
  <2>2. f \in Int
    BY <1>2
  <2>3. Moves(Call(f), GetXTalkRate(Call(f)))
    BY <1>3, <2>2, GetXTalkStep
  <2> QED
    BY <2>1, <2>2, <2>3, OtherLeads DEF Others
<1>10. CASE SetLinearityCorrectiveGain
  <2>1. PICK g \in Gains, f \in {-1, 0} : SettingsReturn("Gain", f, SetGain(Call(f), g))
    BY <1>10 DEF SetLinearityCorrectiveGain
  <2>2. f \in Int /\ g \in Int
    BY <1>2
  <2>3. Moves(Call(f), SetGain(Call(f), g))
    BY <1>3, <2>2, SetGainStep
  <2> QED
    BY <2>1, <2>2, <2>3, OtherLeads DEF Others
<1>11. CASE SetOffsetCalibrationDataMicroMeter
  <2>1. PICK um \in Offsets, f \in {-1, 0} :
            SettingsReturn("Offset", f, SetOffset(Call(f), um))
    BY <1>11 DEF SetOffsetCalibrationDataMicroMeter
  <2>2. f \in Int /\ um \in Int
    BY <1>2
  <2>3. Moves(Call(f), SetOffset(Call(f), um))
    BY <1>3, <2>2, SetOffsetStep DEF Views
  <2> QED
    BY <2>1, <2>2, <2>3, OtherLeads DEF Others
<1>12. CASE SetInterMeasurementPeriodMilliSeconds
  <2>1. PICK ms \in Periods, f \in {-1, 1} :
            SettingsReturn("Period", f, SetPeriod(Call(f), ms))
    BY <1>12 DEF SetInterMeasurementPeriodMilliSeconds
  <2>2. f \in Int /\ ms \in Int
    BY <1>2
  <2>3. Moves(Call(f), SetPeriod(Call(f), ms))
    BY <1>3, <2>2, SetPeriodStep DEF Views
  <2> QED
    BY <2>1, <2>2, <2>3, OtherLeads DEF Others
<1>13. CASE SetRangeFractionEnable
  <2>1. PICK e \in {0, 1} : SettingsReturn("Fraction", -1, SetFraction(Call(-1), e))
    BY <1>13 DEF SetRangeFractionEnable
  <2>2. -1 \in Int /\ e \in Bit
    BY <1>2
  <2>3. Moves(Call(-1), SetFraction(Call(-1), e))
    BY <1>3, <2>2, SetFractionStep
  <2> QED
    BY <2>1, <2>2, <2>3, OtherLeads DEF Others
<1>14. CASE GetParameters
  <2>1. PICK f \in Faults : SettingsReturn("GetParameters", f, GetDeviceParameters(Call(f)))
    BY <1>14 DEF GetParameters
  <2>2. f \in Int
    BY <1>2
  <2>3. Moves(Call(f), GetDeviceParameters(Call(f)))
    BY <1>3, <2>2, GetParametersStep DEF Views
  <2> QED
    BY <2>1, <2>2, <2>3, OtherLeads DEF Others
<1>15. CASE SetParameters
  <2>1. PICK f \in Faults :
            SettingsReturn("SetParameters", f, SetDeviceParameters(Call(f), saved))
    BY <1>15 DEF SetParameters
  <2>2. f \in Int
    BY <1>2
  <2>3. Moves(Call(f), SetDeviceParameters(Call(f), saved))
    BY <1>3, <2>2, SetParametersStep
  <2> QED
    BY <2>1, <2>2, <2>3, OtherLeads DEF Others
<1>16. CASE GetRangingMeasurementData
  <2>1. PICK m \in Targets, f \in Faults, stack \in {0, 255} :
            SettingsReturn("Measure", f, ReadMeasurement(Call(f), m, stack))
    BY <1>16 DEF GetRangingMeasurementData
  <2>2. f \in Int /\ m \in Measurements
    BY <1>2
  <2> DEFINE d == ReadMeasurement(Call(f), m, stack)
  <2>3. Moves(Call(f), d) /\ (Intact(Call(f), d) => Explained(d.set))
    BY <1>3, <2>2, MeasurementStep
  <2> HIDE DEF d
  <2>4. Leads("Measure", Call(f), d)
    BY <2>3 DEF Leads
  <2> QED
    BY <2>1, <2>2, <2>4 DEF d
<1>17. CASE PerformXTalkCalibration
  <2>1. PICK a \in Averages, distance \in Distances, f \in Faults :
            SettingsReturn("XTalkCal", f, CalibrateXTalk(Call(f), distance, a))
    BY <1>17 DEF PerformXTalkCalibration
  <2>2. f \in Int /\ a \in Samples /\ distance \in Int
    BY <1>2
  <2> DEFINE d == CalibrateXTalk(Call(f), distance, a)
  <2>3. Moves(Call(f), d) /\ (Intact(Call(f), d) => XTalkInstalled(d))
    BY <1>3, <2>2, XTalkStep
  <2> HIDE DEF d
  <2>4. Leads("XTalkCal", Call(f), d)
    BY <2>3 DEF Leads
  <2> QED
    BY <2>1, <2>2, <2>4 DEF d
<1>18. CASE PerformOffsetCalibration
  <2>1. PICK a \in Averages, distance \in Distances, f \in Faults :
            SettingsReturn("OffsetCal", f, CalibrateOffset(Call(f), distance, a))
    BY <1>18 DEF PerformOffsetCalibration
  <2>2. f \in Int /\ a \in Samples /\ distance \in Int
    BY <1>2
  <2> DEFINE c == Call(f)
             d == CalibrateOffset(c, distance, a)
  <2>3. /\ Moves(c, d)
        /\ Intact(c, d) /\ d.status = "none" =>
              d.regs.steps = c.regs.steps /\ d.set.offset = EncodeOffset(d.set.micro)
    BY <1>3, <2>2, OffsetStep
  <2> HIDE DEF d
  <2>4. Leads("OffsetCal", c, d)
    BY <2>3 DEF Leads
  <2> QED
    BY <2>1, <2>2, <2>4 DEF d
<1> QED
  BY <1>4, <1>5, <1>6, <1>7, <1>8, <1>9, <1>10, <1>11, <1>12, <1>13, <1>14, <1>15,
     <1>16, <1>17, <1>18 DEF SettingsNext

LEMMA SettingsStep ==
    ASSUME SettingsInv, SettingsNext
    PROVE  SettingsInv'
<1>1. TimingInv /\ Sound(set) /\ Wanted(saved) /\ AgreeFinal(set) /\ AgreePre(set)
  BY DEF SettingsInv
<1>2. PICK op, f, d : f \in Int /\ SettingsReturn(op, f, d) /\ Leads(op, Call(f), d)
  BY <1>1, EveryCallLeads
<1>3. /\ TimingReturn(op, f, d) /\ set' = d.set
      /\ saved' = IF op = "GetParameters" /\ d.status = "none" THEN Parameters(d) ELSE saved
  BY <1>2 DEF SettingsReturn
<1>4. Call(f).set = set /\ Call(f).fuse = f
  BY <1>1, <1>2, CallSettled DEF TimingInv
<1>5. Settled(d) /\ Timed(d) /\ Sound(d.set) /\ AgreeFinal(d.set) /\ AgreePre(d.set)
  BY <1>1, <1>2, <1>4 DEF Leads, Moves, Agreed, Settled
<1>6. TimingInv'
  BY <1>1, <1>2, <1>3, <1>5, TimingReturnStep
<1>7. Wanted(saved)'
  <2>1. Wanted(Parameters(d)) /\ Wanted(saved)
    BY <1>1, <1>5, ParametersType
  <2> QED
    BY <1>3, <2>1
<1>8. StatusExplained'
  <2>1. ASSUME last' = [op |-> "Measure", status |-> "none", lost |-> FALSE]
        PROVE  Explained(d.set)
    <3>1. op = "Measure" /\ ~Lost(f, d)
      <4> DEFINE lost == Lost(f, d) \/ d.cal # "ok"
      <4>1. last' = [op |-> op, status |-> d.status, lost |-> lost]
        BY <1>3 DEF TimingReturn, Ended
      <4>2. last'.lost = FALSE /\ last'.op = "Measure"
        BY <2>1
      <4>3. last'.lost = lost /\ last'.op = op
        BY <4>1, Zenon
      <4>4. ~lost
        BY <4>2, <4>3, Zenon
      <4> QED
        BY <4>2, <4>3, <4>4
    <3>2. Intact(Call(f), d)
      BY <1>2, <1>4, <1>5, <3>1 DEF Lost, Intact, Timed
    <3> QED
      BY <1>2, <3>1, <3>2 DEF Leads
  <2> QED
    BY <1>3, <2>1 DEF StatusExplained, Explained
<1> QED
  BY <1>3, <1>5, <1>6, <1>7, <1>8 DEF SettingsInv

(* The settings begin with registers and structure in agreement.           *)
LEMMA ResetSound == Sound(Reset)
<1>1. SetFields \subseteq DOMAIN Reset
  BY DEF Reset, SetFields
<1>2. 0 \in Uint16 /\ 32 \in Uint16 /\ 0 \in Twelve /\ 0 \in Bit /\ 1000 \in Thousand
      /\ 255 \in Uint8
  BY Uint16Is, Uint8Is, SMT DEF Twelve, Bit, Thousand
<1>3. ASSUME NEW x \in SetFields
      PROVE  FieldOK(x, Reset[x])
  BY <1>2 DEF SetFields, FieldOK, Reset
<1> QED
  BY <1>1, <1>3 DEF Sound

(* A call record that nothing disturbs.                                    *)
Quiet(c) == Settled(c) /\ c.fuse < 0 /\ c.status = "none"

LEMMA QuietStep ==
    ASSUME NEW c, Quiet(c), NEW d, Moves(c, d), Smooth(c, d)
    PROVE  Quiet(d) /\ Agreed(c.set, d.set)
<1>1. c.fuse \in Int /\ d.fuse \in Int /\ c.fuse < 0 /\ d.fuse <= c.fuse
  BY DEF Quiet, Moves, Settled, Timed
<1>2. d.fuse < 0 /\ Intact(c, d)
  BY <1>1 DEF Intact
<1> QED
  BY <1>2 DEF Quiet, Moves, Smooth

LEMMA QuietSwitch ==
    ASSUME NEW c, Quiet(c), NEW k \in Check, NEW e \in Bit
    PROVE  LET d == SwitchLimit(c, k, e) IN
           /\ Quiet(d) /\ Agreed(c.set, d.set)
           /\ (k = "final" => AgreeFinal(d.set)) /\ (k = "pre" => AgreePre(d.set))
<1> DEFINE d == SwitchLimit(c, k, e)
<1>1. /\ Moves(c, d) /\ Smooth(c, d)
      /\ Intact(c, d) /\ c.status = "none" =>
            (k = "final" => AgreeFinal(d.set)) /\ (k = "pre" => AgreePre(d.set))
  BY SwitchStep DEF Quiet
<1> HIDE DEF d
<1>2. Intact(c, d) /\ c.status = "none"
  BY DEF Quiet, Intact
<1> QED
  BY <1>1, <1>2, QuietStep DEF d

LEMMA QuietLimit ==
    ASSUME NEW c, Quiet(c), NEW k \in Check, NEW v \in Int
    PROVE  Quiet(SetLimit(c, k, v)) /\ Agreed(c.set, SetLimit(c, k, v).set)
<1>1. Moves(c, SetLimit(c, k, v)) /\ Smooth(c, SetLimit(c, k, v))
  BY SetLimitStep DEF Quiet
<1> QED
  BY <1>1, QuietStep

LEMMA DefaultsAgree ==
    ASSUME NEW c, Quiet(c)
    PROVE  LET d == Defaults(c) IN Settled(d) /\ AgreeFinal(d.set) /\ AgreePre(d.set)
<1> DEFINE c1 == SwitchLimit(c, "sigma", 1)
           c2 == SwitchLimit(c1, "final", 1)
           c3 == SwitchLimit(c2, "clip", 1)
           c4 == SwitchLimit(c3, "ignore", 1)
           c5 == SwitchLimit(c4, "msrc", 1)
           c6 == SwitchLimit(c5, "pre", 1)
           d1 == SwitchLimit(c6, "clip", 0)
           d2 == SwitchLimit(d1, "ignore", 0)
           d3 == SwitchLimit(d2, "msrc", 0)
           d4 == SwitchLimit(d3, "pre", 0)
           mm == 18 * 65536
           low == 16384
           clip == 35 * 65536
           mid == 32768
           e1 == SetLimit(d4, "sigma", mm)
           e2 == SetLimit(e1, "final", low)
           e3 == SetLimit(e2, "clip", clip)
           e4 == SetLimit(e3, "ignore", 0)
           e5 == SetLimit(e4, "final", mid)
<1>1. Defaults(c) = e5
  BY DEF Defaults, ForEachCheck
<1>0. /\ Check = {"sigma", "final", "clip", "ignore", "msrc", "pre"} /\ 0 \in Bit /\ 1 \in Bit
      /\ mm \in Int /\ low \in Int /\ clip \in Int /\ 0 \in Int /\ mid \in Int
  BY SMT DEF Check, Bit
<1> HIDE DEF mm, low, clip, mid
<1>2. Quiet(c1)
  BY <1>0, QuietSwitch
<1> HIDE DEF c1
<1>3. Quiet(c2) /\ AgreeFinal(c2.set)
  BY <1>0, <1>2, QuietSwitch
<1> HIDE DEF c2
<1>4. Quiet(c3) /\ AgreeFinal(c3.set)
  BY <1>0, <1>3, QuietSwitch DEF Agreed
<1> HIDE DEF c3
<1>5. Quiet(c4) /\ AgreeFinal(c4.set)
  BY <1>0, <1>4, QuietSwitch DEF Agreed
<1> HIDE DEF c4
<1>6. Quiet(c5) /\ AgreeFinal(c5.set)
  BY <1>0, <1>5, QuietSwitch DEF Agreed
<1> HIDE DEF c5
<1>7. Quiet(c6) /\ AgreeFinal(c6.set) /\ AgreePre(c6.set)
  BY <1>0, <1>6, QuietSwitch DEF Agreed
<1> HIDE DEF c6
<1>8. Quiet(d1) /\ AgreeFinal(d1.set) /\ AgreePre(d1.set)
  BY <1>0, <1>7, QuietSwitch DEF Agreed
<1> HIDE DEF d1
<1>9. Quiet(d2) /\ AgreeFinal(d2.set) /\ AgreePre(d2.set)
  BY <1>0, <1>8, QuietSwitch DEF Agreed
<1> HIDE DEF d2
<1>10. Quiet(d3) /\ AgreeFinal(d3.set) /\ AgreePre(d3.set)
  BY <1>0, <1>9, QuietSwitch DEF Agreed
<1> HIDE DEF d3
<1>11. Quiet(d4) /\ AgreeFinal(d4.set) /\ AgreePre(d4.set)
  BY <1>0, <1>10, QuietSwitch DEF Agreed
<1> HIDE DEF d4
<1>12. Quiet(e1) /\ AgreeFinal(e1.set) /\ AgreePre(e1.set)
  BY <1>0, <1>11, QuietLimit DEF Agreed
<1> HIDE DEF e1
<1>13. Quiet(e2) /\ AgreeFinal(e2.set) /\ AgreePre(e2.set)
  BY <1>0, <1>12, QuietLimit DEF Agreed
<1> HIDE DEF e2
<1>14. Quiet(e3) /\ AgreeFinal(e3.set) /\ AgreePre(e3.set)
  BY <1>0, <1>13, QuietLimit DEF Agreed
<1> HIDE DEF e3
<1>15. Quiet(e4) /\ AgreeFinal(e4.set) /\ AgreePre(e4.set)
  BY <1>0, <1>14, QuietLimit DEF Agreed
<1> HIDE DEF e4
<1>16. Quiet(e5) /\ AgreeFinal(e5.set) /\ AgreePre(e5.set)
  BY <1>0, <1>15, QuietLimit DEF Agreed
<1> QED
  BY <1>1, <1>16 DEF Quiet

LEMMA StartedQuiet == Timed(Overwrite(Started)) /\ Overwrite(Started).fuse < 0
                      /\ Overwrite(Started).status = "none"
<1> DEFINE b == GetBudget(Tuned)
           c == EnableStep(b, "TCC", FALSE)
           p == GetPreTimeout(c)
           m == [c.dev EXCEPT !.preMicros = p.micros]
           d == [c EXCEPT !.dev = m]
           s == Started
           o == Overwrite(s)
<1>1. s = SetBudget(d, 200000)
  BY DEF Started
<1>2. Timed(Tuned) /\ Tuned.fuse < 0
  <2>1. Tuned.fuse < 0
    BY DEF Tuned
  <2> QED
    BY <2>1, TunedTimed
<1> HIDE DEF s
<1>3. Timed(b) /\ b.fuse <= Tuned.fuse
  BY <1>2, GetBudgetStep DEF Programs, Flows
<1> HIDE DEF b
<1>4. Timed(c) /\ c.fuse <= b.fuse
  BY <1>3, EnableStepStep DEF Step, Flows
<1> HIDE DEF c
<1>5. p.micros \in Int
  BY <1>4, GetPreStep, FlowsTimed DEF Reads, Timed
<1> HIDE DEF p
<1>6. m \in Device
  BY <1>4, <1>5, SensorTypes
<1> HIDE DEF m
<1>7. Timed(d) /\ d.fuse = c.fuse
  BY <1>4, <1>6, AssignDev, FlowsTimed
<1> HIDE DEF d
<1>8. Timed(s) /\ s.fuse <= d.fuse
  BY <1>1, <1>7, SetBudgetStep DEF Programs, Flows
<1>9. Timed(o) /\ o.fuse = s.fuse /\ o.status = "none"
  BY <1>8, AssignLocal, Names DEF Overwrite, Flows
<1> HIDE DEF o
<1>10. o.fuse < 0
  BY <1>2, <1>3, <1>4, <1>7, <1>8, <1>9 DEF Timed
<1> QED
  BY <1>9, <1>10 DEF o, s

LEMMA CompensatingStep ==
    ASSUME NEW c, Settled(c), NEW rate \in Int
    PROVE  Moves(c, Compensating(c, rate))
<1> DEFINE d == EnableStep(c, "TCC", TRUE)
           e == SetXTalkRate(d, rate)
           f == SwitchXTalk(e, 1)
<1>1. Compensating(c, rate) = f
  BY DEF Compensating
<1>2. Moves(c, d) /\ Settled(d)
  <2>1. Flows(c, d)
    BY EnableStepStep DEF Settled, Step
  <2> HIDE DEF d
  <2> QED
    BY <2>1, FlowsMoves, MovesSettled
<1> HIDE DEF d
<1>3. Moves(d, e) /\ Settled(e)
  BY <1>2, SetXTalkRateStep, MovesSettled
<1> HIDE DEF e
<1>4. Moves(e, f)
  BY <1>3, SwitchXTalkStep DEF Bit
<1> HIDE DEF f
<1>5. Moves(c, e)
  BY <1>2, <1>3, MovesChain
<1> QED
  BY <1>1, <1>2, <1>4, <1>5, MovesChain DEF f

LEMMA SettingsStart == SettingsInit => SettingsInv
<1> SUFFICES ASSUME SettingsInit PROVE SettingsInv
  OBVIOUS
<1> DEFINE s == WithSettings(Overwrite(Started), Reset)
           c == Defaults(s)
<1>1. /\ Begun(c) \/ \E rate \in Rates : Begun(Compensating(c, rate))
      /\ CallInit
      /\ saved = Parameters(GetDeviceParameters(Call(-1)))
  BY DEF SettingsInit
<1>2. Quiet(s)
  BY StartedQuiet, ResetSound, WithSettingsSettled DEF Quiet
<1> HIDE DEF s
<1>3. Settled(c) /\ AgreeFinal(c.set) /\ AgreePre(c.set)
  BY <1>2, DefaultsAgree
<1> HIDE DEF c
<1>4. ASSUME NEW rate \in Rates
      PROVE  LET d == Compensating(c, rate) IN
             Settled(d) /\ AgreeFinal(d.set) /\ AgreePre(d.set)
  <2>1. rate \in Int
    BY SettingsAssumption
  <2>2. Moves(c, Compensating(c, rate))
    BY <1>3, <2>1, CompensatingStep
  <2> QED
    BY <1>3, <2>2 DEF Moves, Agreed
<1>5. PICK d : Begun(d) /\ Settled(d) /\ AgreeFinal(d.set) /\ AgreePre(d.set)
  BY <1>1, <1>3, <1>4
<1>6. regs \in Sensors /\ dev \in Device /\ Sound(set) /\ AgreeFinal(set) /\ AgreePre(set)
  BY <1>5 DEF Begun, Settled, Timed
<1>7. TimingInv
  BY <1>1, <1>6, Names DEF TimingInv, CallInit, CallTypeOK
<1>8. Wanted(saved)
  <2>1. -1 \in Int
    BY SMT
  <2>2. Settled(Call(-1))
    BY <1>6, <2>1, CallSettled
  <2>3. Settled(GetDeviceParameters(Call(-1)))
    BY <2>2, GetParametersStep, ViewsSettled
  <2> QED
    BY <1>1, <2>3, ParametersType
<1>9. StatusExplained
  BY <1>1 DEF CallInit, StatusExplained
<1> QED
  BY <1>6, <1>7, <1>8, <1>9 DEF SettingsInv

LEMMA SettingsInvariant == SettingsSpec => []SettingsInv
<1>1. SettingsInv /\ UNCHANGED settingsVars => SettingsInv'
  BY DEF SettingsInv, settingsVars, timingVars, TimingInv, CallTypeOK, StatusExplained,
         Wanted
<1>2. SettingsInv /\ [SettingsNext]_settingsVars => SettingsInv'
  BY <1>1, SettingsStep
<1> QED
  BY <1>2, SettingsStart, PTL DEF SettingsSpec

(* Whatever is asked for, read back, measured, calibrated or lost, the     *)
(* registers and the structure keep their types.                           *)
THEOREM SettingsTypes == SettingsSpec => [](TimingTypeOK /\ SettingsTypeOK)
<1>1. SettingsInv => TimingTypeOK /\ SettingsTypeOK
  <2> SUFFICES ASSUME SettingsInv PROVE TimingTypeOK /\ SettingsTypeOK
    OBVIOUS
  <2>1. TimingTypeOK
    BY TimingInvTypes DEF SettingsInv
  <2>2. SettingsTypeOK
    <3>1. Sound(set)
      BY DEF SettingsInv
    <3> QED
      BY <3>1, SoundTypes DEF SettingsTypeOK, Bit
  <2> QED
    BY <2>1, <2>2
<1> QED
  BY <1>1, SettingsInvariant, PTL

(* The limit checks the driver believes to be on are those the sensor      *)
(* makes, with the limit it remembers, whatever was lost on the way.       *)
THEOREM LimitsAgree == SettingsSpec => []LimitChecksAgree
<1>1. SettingsInv => LimitChecksAgree
  BY DEF SettingsInv, LimitChecksAgree, AgreeFinal, AgreePre
<1> QED
  BY <1>1, SettingsInvariant, PTL

(* A range is reported valid only if it passed every check that is on, and *)
(* a failed sigma or reference clip check compares as the structure shows, *)
(* though the measurement reads that structure back from the sensor while  *)
(* it decides.                                                             *)
THEOREM StatusesExplained == SettingsSpec => []StatusExplained
<1>1. SettingsInv => StatusExplained
  BY DEF SettingsInv
<1> QED
  BY <1>1, SettingsInvariant, PTL

LEMMA CleanCallLeads ==
    ASSUME SettingsInv, SettingsNext, CleanCall
    PROVE  \E op, d : /\ last' = [op |-> op, status |-> d.status, lost |-> FALSE]
                      /\ regs' = d.regs /\ set' = d.set
                      /\ Agreed(set, set') /\ (Once(set) => Once(set'))
                      /\ op = "OffsetCal" /\ d.status = "none" =>
                            d.regs.steps = regs.steps /\ d.set.offset = EncodeOffset(d.set.micro)
                      /\ op = "XTalkCal" => XTalkInstalled(d)
<1>1. TimingInv /\ Sound(set) /\ Wanted(saved)
  BY DEF SettingsInv
<1>2. PICK op, f, d : f \in Int /\ SettingsReturn(op, f, d) /\ Leads(op, Call(f), d)
  BY <1>1, EveryCallLeads
<1> DEFINE lost == Lost(f, d) \/ d.cal # "ok"
<1>3. /\ last' = [op |-> op, status |-> d.status, lost |-> lost]
      /\ set' = d.set /\ regs' = d.regs
  BY <1>2 DEF SettingsReturn, TimingReturn, Ended
<1>4. Call(f).set = set /\ Call(f).fuse = f /\ Call(f).regs = regs
  BY <1>1, <1>2, CallSettled DEF TimingInv
<1>5. last'.lost = lost
  BY <1>3, Zenon
<1>6. ~lost
  BY <1>5, Zenon DEF CleanCall
<1>7. Intact(Call(f), d)
  <2>1. d.fuse \in Int
    BY <1>2 DEF Leads, Moves, Settled, Timed
  <2> QED
    BY <1>2, <1>4, <1>6, <2>1 DEF Lost, Intact
<1>8. lost = FALSE
  BY <1>6, Zenon
<1> HIDE DEF lost
<1> QED
  BY <1>2, <1>3, <1>4, <1>7, <1>8 DEF Leads, Moves

(* No call that reaches the sensor whole makes sensor and driver both      *)
(* compensate crosstalk, or the sensor with another rate than the driver   *)
(* shows.                                                                  *)
THEOREM CompensatedNeverTwice == SettingsSpec => NeverCompensatedTwice
<1>1. SettingsInv /\ [SettingsNext]_settingsVars
          => [CleanCall /\ CompensatedOnce => CompensatedOnce']_settingsVars
  <2> SUFFICES ASSUME SettingsInv, SettingsNext, CleanCall, CompensatedOnce
               PROVE  CompensatedOnce'
    OBVIOUS
  <2>1. Once(set) => Once(set')
    BY CleanCallLeads
  <2> QED
    BY <2>1 DEF CompensatedOnce, Once
<1> QED
  BY <1>1, SettingsInvariant, PTL DEF SettingsSpec, NeverCompensatedTwice

(* A calibration that succeeds has installed what it measured and put the  *)
(* sequence back; one that fails for want of a valid range has not         *)
(* switched compensation on.                                               *)
THEOREM CalibrationsInstalled == SettingsSpec => CalibrationInstalled
<1> DEFINE A == CleanCall =>
        /\ last'.op = "OffsetCal" /\ last'.status = "none" =>
              /\ regs'.steps = regs.steps
              /\ set'.offset = EncodeOffset(set'.micro)
        /\ last'.op = "XTalkCal" /\ last'.status = "none" =>
              /\ set'.xtalkOn = 1
              /\ set'.xtalk = XTalkRegister(set', 1)
        /\ last'.op = "XTalkCal" /\ last'.status = "range" => set'.xtalk = 0
<1>1. SettingsInv /\ [SettingsNext]_settingsVars => [A]_settingsVars
  <2> SUFFICES ASSUME SettingsInv, SettingsNext, CleanCall PROVE A
    OBVIOUS
  <2>1. PICK op, d : /\ last' = [op |-> op, status |-> d.status, lost |-> FALSE]
                     /\ regs' = d.regs /\ set' = d.set
                     /\ op = "OffsetCal" /\ d.status = "none" =>
                           d.regs.steps = regs.steps /\ d.set.offset = EncodeOffset(d.set.micro)
                     /\ op = "XTalkCal" => XTalkInstalled(d)
    BY CleanCallLeads
  <2>2. last'.op = op /\ last'.status = d.status
    BY <2>1
  <2> QED
    BY <2>1, <2>2 DEF XTalkInstalled
<1> HIDE DEF A
<1>2. SettingsSpec => [][A]_settingsVars
  BY <1>1, SettingsInvariant, PTL DEF SettingsSpec
<1> QED
  BY <1>2 DEF CalibrationInstalled, A

-----------------------------------------------------------------------------
(* What a budget that is accepted programs: the values behind the types.   *)
(* The 32 bit arithmetic is exact while the numbers stay below 2^31.       *)
Small == 2147483648

LEMMA HalvesAre ==
    ASSUME NEW v \in Nat, v < Small
    PROVE  /\ High(v) \in Nat /\ High(v) < 32768 /\ Low(v) \in Nat /\ Low(v) < 65536
           /\ v = 65536 * High(v) + Low(v)
<1> DEFINE h == v \div 65536
           l == v % 65536
<1>1. h \in Int /\ l \in Int /\ 0 <= l /\ l < 65536 /\ v = 65536 * h + l
  BY SMT
<1>2. Low(v) = l /\ High(v) = h % 65536
  BY DEF High, Low
<1> HIDE DEF h, l
<1>3. 0 <= h /\ h < 32768
  BY <1>1, SMT DEF Small
<1>4. h % 65536 = h
  BY <1>1, <1>3, SMT
<1> QED
  BY <1>1, <1>2, <1>3, <1>4

LEMMA HalvesUnique ==
    ASSUME NEW h \in Nat, NEW l \in Nat, h < 65536, l < 65536
    PROVE  High(65536 * h + l) = h /\ Low(65536 * h + l) = l
<1> DEFINE v == 65536 * h + l
<1>1. v \div 65536 = h /\ v % 65536 = l /\ h % 65536 = h
  BY SMT
<1> HIDE DEF v
<1>2. High(v) = h /\ Low(v) = l
  BY <1>1 DEF High, Low
<1> QED
  BY <1>2 DEF v

LEMMA CarryIs ==
    ASSUME NEW hi \in Nat, NEW lo \in Nat, 65536 * hi + lo < Small
    PROVE  Carry(hi, lo) = 65536 * hi + lo
<1> DEFINE c == lo \div 65536
           l == lo % 65536
<1>1. c \in Int /\ l \in Int /\ 0 <= c /\ 0 <= l /\ l < 65536 /\ lo = 65536 * c + l
  BY SMT
<1>2. Carry(hi, lo) = Join((hi + c) % 65536, l)
  BY DEF Carry
<1> HIDE DEF c, l
<1>3. 0 <= hi + c /\ hi + c < 32768
  BY <1>1, SMT DEF Small
<1>4. (hi + c) % 65536 = hi + c
  BY <1>1, <1>3, SMT
<1>5. Join(hi + c, l) = (hi + c) * 65536 + l
  BY <1>3 DEF Join
<1> QED
  BY <1>1, <1>2, <1>4, <1>5, SMT

LEMMA AddIs ==
    ASSUME NEW x \in Nat, NEW y \in Nat, x + y < Small
    PROVE  U32Add(x, y) = x + y
<1>1. CASE x = 0 \/ y = 0
  BY <1>1 DEF U32Add
<1>2. CASE x # 0 /\ y # 0
  <2>1. x < Small /\ y < Small
    BY SMT DEF Small
  <2>2. /\ High(x) \in Nat /\ Low(x) \in Nat /\ x = 65536 * High(x) + Low(x)
        /\ High(y) \in Nat /\ Low(y) \in Nat /\ y = 65536 * High(y) + Low(y)
    BY <2>1, HalvesAre
  <2> DEFINE hi == High(x) + High(y)
             lo == Low(x) + Low(y)
  <2>3. hi \in Nat /\ lo \in Nat /\ x + y = 65536 * hi + lo
    BY <2>2, SMT
  <2>4. U32Add(x, y) = Carry(hi, lo)
    BY <1>2 DEF U32Add
  <2> HIDE DEF hi, lo
  <2>5. 65536 * hi + lo < Small
    BY <2>3
  <2>6. Carry(hi, lo) = 65536 * hi + lo
    BY <2>3, <2>5, CarryIs
  <2> QED
    BY <2>3, <2>4, <2>6
<1> QED
  BY <1>1, <1>2

LEMMA ProductIs ==
    ASSUME NEW a \in Nat, NEW b \in Nat, b < 65536, a * b < Small
    PROVE  Product16(a, b) = a * b
<1> DEFINE bh == b \div 256
           bl == b % 256
           p == a * bh
           q == a * bl
           ph == p \div 256
           pl == p % 256
<1>1. bh \in Nat /\ bl \in Nat /\ b = 256 * bh + bl
  BY SMT
<1>2. Product16(a, b) = Carry(ph, q + 256 * pl)
  BY DEF Product16, FromBytes
<1> HIDE DEF bh, bl
<1>3. p \in Nat /\ q \in Nat /\ a * b = 256 * p + q
  <2>1. p \in Nat /\ q \in Nat
    BY <1>1, SMT
  <2>2. a * (256 * bh + bl) = 256 * (a * bh) + a * bl
    BY <1>1, SMT
  <2> QED
    BY <1>1, <2>1, <2>2
<1> HIDE DEF p, q
<1>4. ph \in Nat /\ pl \in Nat /\ p = 256 * ph + pl
  BY <1>3, SMT
<1> HIDE DEF ph, pl
<1>5. q + 256 * pl \in Nat /\ a * b = 65536 * ph + (q + 256 * pl)
  BY <1>3, <1>4, SMT
<1>6. Carry(ph, q + 256 * pl) = 65536 * ph + (q + 256 * pl)
  BY <1>4, <1>5, CarryIs
<1> QED
  BY <1>2, <1>5, <1>6

LEMMA MulIs ==
    ASSUME NEW x \in Nat, NEW y \in Nat, x < Small, y < Small, x * y < Small
    PROVE  U32Mul(x, y) = x * y
<1> DEFINE a == High(x)
           b == Low(x)
           c == High(y)
           d == Low(y)
<1>1. /\ a \in Nat /\ b \in Nat /\ a < 32768 /\ b < 65536 /\ x = 65536 * a + b
      /\ c \in Nat /\ d \in Nat /\ c < 32768 /\ d < 65536 /\ y = 65536 * c + d
  BY HalvesAre
<1>2. U32Mul(x, y) = IF x = 0 \/ y = 0 THEN 0
                     ELSE AddHigh(Product16(b, d), Low(Product16(b, c)) + Low(Product16(a, d)))
  BY DEF U32Mul
<1> HIDE DEF a, b, c, d
<1> DEFINE ac == a * c
           bc == b * c
           ad == a * d
           bd == b * d
<1>3. ac \in Nat /\ bc \in Nat /\ ad \in Nat /\ bd \in Nat
  BY <1>1, SMT
<1>4. x * y = 4294967296 * ac + 65536 * (bc + ad) + bd
  <2>1. (65536 * a + b) * (65536 * c + d)
          = 4294967296 * (a * c) + 65536 * (b * c + a * d) + b * d
    BY <1>1, SMT
  <2> QED
    BY <1>1, <2>1
<1>5. Product16(b, d) = bd /\ Product16(b, c) = bc /\ Product16(a, d) = ad
      /\ bd < Small /\ bc + ad < 32768
  <2> HIDE DEF ac, bc, ad, bd
  <2> DEFINE z == x * y
  <2>1. z = 4294967296 * ac + 65536 * (bc + ad) + bd /\ z < Small
    BY <1>4
  <2> HIDE DEF z
  <2>2. ac = 0 /\ bc + ad < 32768 /\ bd < Small /\ bc < Small /\ ad < Small
    BY <1>3, <2>1, SMT DEF Small
  <2>3. c < 65536
    BY <1>1, SMT
  <2>4. b * d < Small /\ b * c < Small /\ a * d < Small
    BY <2>2 DEF bd, bc, ad
  <2> QED
    BY <1>1, <2>2, <2>3, <2>4, ProductIs DEF bd, bc, ad
<1> HIDE DEF ac, bc, ad, bd
<1>6. ac = 0 /\ x * y = 65536 * (bc + ad) + bd
  <2> DEFINE z == x * y
  <2>1. z = 4294967296 * ac + 65536 * (bc + ad) + bd /\ z < Small
    BY <1>4
  <2> HIDE DEF z
  <2>2. ac = 0 /\ z = 65536 * (bc + ad) + bd
    BY <1>3, <2>1, SMT DEF Small
  <2> QED
    BY <2>2 DEF z
<1>7. CASE x = 0 \/ y = 0
  BY <1>2, <1>7, SMT
<1>8. CASE x # 0 /\ y # 0
  <2> DEFINE h == High(bd)
             l == Low(bd)
  <2>1. h \in Nat /\ l \in Nat /\ l < 65536 /\ bd = 65536 * h + l
    BY <1>3, <1>5, HalvesAre
  <2>2. Low(bc) = bc /\ Low(ad) = ad
    BY <1>3, <1>5, SMT DEF Low
  <2>3. AddHigh(bd, bc + ad) = Join((h + (bc + ad)) % 65536, l)
    BY DEF AddHigh
  <2> HIDE DEF h, l
  <2> DEFINE u == h + (bc + ad)
  <2>4. u \in Nat /\ x * y = 65536 * u + l
    BY <1>3, <1>6, <2>1, SMT
  <2>5. u < 32768
    <3> DEFINE z == x * y
    <3>1. z = 65536 * u + l /\ z < Small
      BY <2>4
    <3> HIDE DEF z, u
    <3> QED
      BY <2>1, <2>4, <3>1, SMT DEF Small
  <2> HIDE DEF u
  <2>6. u % 65536 = u
    BY <2>4, <2>5, SMT
  <2>7. Join(u, l) = u * 65536 + l
    BY <2>5 DEF Join
  <2>8. U32Mul(x, y) = Join(u % 65536, l)
    BY <1>2, <1>5, <1>8, <2>2, <2>3 DEF u
  <2>9. u * 65536 = 65536 * u
    BY <2>4, SMT
  <2> QED
    BY <2>4, <2>6, <2>7, <2>8, <2>9
<1> QED
  BY <1>7, <1>8

(* A timeout in macro periods as the code converts it: to the nearest      *)
(* microsecond, and to the nearest macro period.                           *)
Rounds(n, x, m) == n \in Nat /\ m * n <= x /\ x < m * n + m

LEMMA Quotient ==
    ASSUME NEW x \in Nat, NEW m \in Nat, m > 0
    PROVE  Rounds(x \div m, x, m) /\ \A n \in Nat : Rounds(n, x, m) => n = x \div m
<1> DEFINE q == x \div m
<1>1. q \in Int /\ 0 <= q
  BY QuotientNat
<1>2. q \in Int /\ m * q <= x /\ x < m * (q + 1)
  BY SMT
<1> HIDE DEF q
<1>3. Rounds(q, x, m)
  <2>1. m * (q + 1) = m * q + m
    BY <1>2, SMT
  <2> QED
    BY <1>1, <1>2, <2>1 DEF Rounds
<1>4. ASSUME NEW n \in Nat, Rounds(n, x, m)
      PROVE  n = q
  <2>1. m * n <= x /\ x < m * n + m
    BY <1>4 DEF Rounds
  <2>2. ~(n < q)
    <3> SUFFICES ASSUME n < q PROVE FALSE
      OBVIOUS
    <3>1. PICK i \in Nat : q = n + 1 + i
      <4>1. q - n - 1 \in Nat /\ q = n + 1 + (q - n - 1)
        BY <1>1, SMT
      <4> QED
        BY <4>1
    <3>2. m * q = m * n + m + m * i /\ m * i >= 0
      <4>1. m * (n + 1 + i) = m * n + m + m * i
        BY SMT
      <4>2. m * i >= 0
        BY SMT
      <4> QED
        BY <3>1, <4>1, <4>2
    <3> QED
      BY <1>2, <2>1, <3>2, SMT
  <2>3. ~(q < n)
    <3> SUFFICES ASSUME q < n PROVE FALSE
      OBVIOUS
    <3>1. PICK i \in Nat : n = q + 1 + i
      <4>1. n - q - 1 \in Nat /\ n = q + 1 + (n - q - 1)
        BY <1>1, SMT
      <4> QED
        BY <4>1
    <3>2. m * n = m * q + m + m * i /\ m * i >= 0
      <4>1. m * (q + 1 + i) = m * q + m + m * i
        BY <1>1, SMT
      <4>2. m * i >= 0
        BY SMT
      <4> QED
        BY <3>1, <4>1, <4>2
    <3>3. x < m * q + m
      BY <1>3 DEF Rounds
    <3> QED
      BY <1>1, <2>1, <3>2, <3>3, SMT
  <2> QED
    BY <1>1, <2>2, <2>3, SMT
<1> QED
  BY <1>3, <1>4 DEF q

LEMMA PeriodIs ==
    ASSUME NEW p \in Pclks
    PROVE  LET m == MacroPeriodNs(p) IN m \in Nat /\ 30505 <= m /\ m <= 68637
  BY SMT DEF Pclks, MacroPeriodNs

LEMMA MicrosIs ==
    ASSUME NEW n \in Nat, NEW p \in Pclks
    PROVE  Rounds(Micros(n, p), n * MacroPeriodNs(p), 1000)
<1> DEFINE m == MacroPeriodNs(p)
           q == m \div 1000
           r == m % 1000
           t == n * r
           s == t \div 1000
<1>1. m \in Nat
  BY PeriodIs
<1>2. Micros(n, p) = n * q + s
  BY DEF Micros
<1> HIDE DEF m
<1>3. q \in Nat /\ r \in Nat /\ m = 1000 * q + r
  BY <1>1, SMT
<1> HIDE DEF q, r
<1>4. t \in Nat /\ n * m = 1000 * (n * q) + t /\ n * q \in Nat
  <2>1. n * (1000 * q + r) = 1000 * (n * q) + n * r
    BY <1>3, SMT
  <2>2. n * r \in Nat /\ n * q \in Nat
    BY <1>3, SMT
  <2> QED
    BY <1>3, <2>1, <2>2
<1> HIDE DEF t
<1>5. s \in Nat /\ 1000 * s <= t /\ t < 1000 * s + 1000
  BY <1>4, SMT
<1> HIDE DEF s
<1> DEFINE a == n * q
           b == n * m
<1>6. a \in Nat /\ b = 1000 * a + t
  BY <1>4
<1> HIDE DEF a, b
<1>7. Rounds(a + s, b, 1000)
  <2>1. a + s \in Nat /\ 1000 * (a + s) <= b /\ b < 1000 * (a + s) + 1000
    BY <1>4, <1>5, <1>6, SMT
  <2> QED
    BY <2>1 DEF Rounds
<1> QED
  BY <1>2, <1>7 DEF a, b, m

(* Below 2 s the conversion to microseconds rounds what a timeout takes.   *)
LEMMA UsIs ==
    ASSUME NEW n \in Nat, NEW p \in Pclks, Micros(n, p) <= WidestBudget
    PROVE  /\ n < 65536 /\ n * MacroPeriodNs(p) \in Nat
           /\ Rounds(CalcTimeoutUs(n, p), n * MacroPeriodNs(p) + 500, 1000)
           /\ Micros(n, p) \in Nat
           /\ CalcTimeoutUs(n, p) \in {Micros(n, p), Micros(n, p) + 1}
<1> DEFINE m == MacroPeriodNs(p)
           x == n * m
           s == Micros(n, p)
           u == CalcTimeoutUs(n, p)
<1>1. m \in Nat /\ 30505 <= m /\ m <= 68637
  BY PeriodIs
<1>2. Rounds(s, x, 1000)
  BY MicrosIs
<1>3. u = U32Div(U32Add(U32Mul(n, m), 500), 1000)
  BY DEF CalcTimeoutUs
<1> HIDE DEF m, s, u
<1>4. x \in Nat
  BY <1>1, SMT
<1>5. s \in Nat /\ 1000 * s <= x /\ x < 1000 * s + 1000 /\ s <= 1999000
  BY <1>2 DEF Rounds, s, WidestBudget
<1>6. n < 65536
  <2> SUFFICES ASSUME n >= 65536 PROVE FALSE
    BY SMT
  <2>1. n * m >= 65536 * 30505
    <3>1. PICK i \in Nat : n = 65536 + i
      <4>1. n - 65536 \in Nat /\ n = 65536 + (n - 65536)
        BY SMT
      <4> QED
        BY <4>1
    <3>2. PICK j \in Nat : m = 30505 + j
      <4>1. m - 30505 \in Nat /\ m = 30505 + (m - 30505)
        BY <1>1, SMT
      <4> QED
        BY <4>1
    <3>3. (65536 + i) * (30505 + j) = 65536 * 30505 + 65536 * j + 30505 * i + i * j /\ i * j >= 0
      BY SMT
    <3> DEFINE ij == i * j
    <3>4. (65536 + i) * (30505 + j) = 65536 * 30505 + 65536 * j + 30505 * i + ij /\ ij >= 0 /\ ij \in Int
      BY <3>3
    <3> HIDE DEF ij
    <3>5. (65536 + i) * (30505 + j) >= 65536 * 30505
      BY <3>4, SMT
    <3> QED
      BY <3>1, <3>2, <3>5
  <2> HIDE DEF x
  <2>2. x >= 65536 * 30505
    BY <2>1 DEF x
  <2> QED
    BY <1>4, <1>5, <2>2, SMT
<1> DEFINE y == x + 500
<1>7. x < Small /\ y < Small /\ y \in Nat
  <2> HIDE DEF x
  <2> QED
    BY <1>4, <1>5, SMT DEF Small
<1>8. U32Add(U32Mul(n, m), 500) = y
  <2>1. n < Small /\ m < Small
    BY <1>1, <1>6, SMT DEF Small
  <2>2. U32Mul(n, m) = x
    BY <1>1, <1>7, <2>1, MulIs
  <2> HIDE DEF x
  <2> QED
    BY <1>4, <1>7, <2>2, AddIs
<1>9. u = y \div 1000
  <2> HIDE DEF y
  <2> QED
    BY <1>3, <1>7, <1>8, SMT DEF U32Div
<1>10. Rounds(u, y, 1000)
  <2> HIDE DEF y
  <2> QED
    BY <1>7, <1>9, Quotient
<1>11. u \in {s, s + 1}
  <2> HIDE DEF x
  <2>1. u \in Nat /\ 1000 * u <= x + 500 /\ x + 500 < 1000 * u + 1000
    BY <1>10 DEF Rounds, y
  <2> QED
    BY <1>4, <1>5, <2>1, SMT
<1> QED
  BY <1>4, <1>5, <1>6, <1>10, <1>11 DEF x, y, m, s, u

LEMMA MclksIs ==
    ASSUME NEW us \in Nat, NEW p \in Pclks, us <= WidestBudget
    PROVE  LET m == MacroPeriodNs(p) IN
           Rounds(CalcTimeoutMclks(us, p), 1000 * us + m \div 2, m)
<1> DEFINE m == MacroPeriodNs(p)
           h == m \div 2
           n == CalcTimeoutMclks(us, p)
           x == 1000 * us
           y == x + h
<1>1. m \in Nat /\ 30505 <= m /\ m <= 68637
  BY PeriodIs
<1>2. n = U32Div(U32Add(U32Mul(us, 1000), h), m)
  BY DEF CalcTimeoutMclks
<1> HIDE DEF m, n
<1>3. h \in Nat /\ h <= 34318
  BY <1>1, SMT
<1> HIDE DEF h
<1>4. x \in Nat /\ y \in Nat /\ x < Small /\ y < Small /\ us < Small /\ 1000 < Small
  BY <1>3, SMT DEF Small, WidestBudget
<1>5. U32Mul(us, 1000) = x
  <2>1. us * 1000 = x
    BY SMT
  <2> HIDE DEF x
  <2> QED
    BY <1>4, <2>1, MulIs
<1>6. U32Add(x, h) = y
  <2> HIDE DEF x
  <2> QED
    BY <1>3, <1>4, AddIs
<1>7. n = y \div m
  <2> HIDE DEF y
  <2>1. n = U32Div(y, m)
    BY <1>2, <1>5, <1>6
  <2> QED
    BY <1>1, <1>4, <2>1, SMT DEF U32Div
<1>8. Rounds(n, y, m)
  <2> HIDE DEF y
  <2>1. m > 0
    BY <1>1, SMT
  <2> QED
    BY <1>1, <1>4, <1>7, <2>1, Quotient
<1> QED
  BY <1>8 DEF m, h, n

(* The register format keeps eight bits: it loses less than what the last  *)
(* of them stands for, and never the pre-range time within a longer one.   *)
LEMMA PowersDouble == \A k \in 0 .. 23 : k + 1 \in 0 .. 24 /\ 2^(k + 1) = 2 * 2^k
<1> TAKE k \in 0 .. 23
<1> DEFINE j == k + 1
<1>1. \/ (k = 0 /\ j = 1) \/ (k = 1 /\ j = 2) \/ (k = 2 /\ j = 3)
      \/ (k = 3 /\ j = 4) \/ (k = 4 /\ j = 5) \/ (k = 5 /\ j = 6)
      \/ (k = 6 /\ j = 7) \/ (k = 7 /\ j = 8) \/ (k = 8 /\ j = 9)
      \/ (k = 9 /\ j = 10) \/ (k = 10 /\ j = 11) \/ (k = 11 /\ j = 12)
      \/ (k = 12 /\ j = 13) \/ (k = 13 /\ j = 14) \/ (k = 14 /\ j = 15)
      \/ (k = 15 /\ j = 16) \/ (k = 16 /\ j = 17) \/ (k = 17 /\ j = 18)
      \/ (k = 18 /\ j = 19) \/ (k = 19 /\ j = 20) \/ (k = 20 /\ j = 21)
      \/ (k = 21 /\ j = 22) \/ (k = 22 /\ j = 23) \/ (k = 23 /\ j = 24)
  BY SMT
<1>2. /\ 2^1 = 2 * 2^0 /\ 2^2 = 2 * 2^1 /\ 2^3 = 2 * 2^2 /\ 2^4 = 2 * 2^3
      /\ 2^5 = 2 * 2^4 /\ 2^6 = 2 * 2^5 /\ 2^7 = 2 * 2^6 /\ 2^8 = 2 * 2^7
      /\ 2^9 = 2 * 2^8 /\ 2^10 = 2 * 2^9 /\ 2^11 = 2 * 2^10
      /\ 2^12 = 2 * 2^11 /\ 2^13 = 2 * 2^12 /\ 2^14 = 2 * 2^13
      /\ 2^15 = 2 * 2^14 /\ 2^16 = 2 * 2^15 /\ 2^17 = 2 * 2^16
      /\ 2^18 = 2 * 2^17 /\ 2^19 = 2 * 2^18 /\ 2^20 = 2 * 2^19
      /\ 2^21 = 2 * 2^20 /\ 2^22 = 2 * 2^21 /\ 2^23 = 2 * 2^22
      /\ 2^24 = 2 * 2^23
  BY SMT
<1> HIDE DEF j
<1>3. 2^j = 2 * 2^k
  BY <1>1, <1>2, Zenon
<1>4. 2^(k + 1) = 2 * 2^k
  BY <1>3 DEF j
<1>5. k + 1 \in 0 .. 24
  BY SMT
<1> QED
  BY <1>4, <1>5

LEMMA PowersDivide ==
    ASSUME NEW k \in 0 .. 24
    PROVE  \A j \in 0 .. 24 : k <= j => \E i \in Nat : i > 0 /\ 2^j = 2^k * i
<1> DEFINE Divides(j) == \E i \in Nat : i > 0 /\ 2^j = 2^k * i
           S == {j \in 0 .. 24 : k <= j /\ ~Divides(j)}
<1>1. S = {}
  <2> SUFFICES ASSUME S # {} PROVE FALSE
    OBVIOUS
  <2>1. S \subseteq Nat
    <3>1. 0 .. 24 \subseteq Nat
      BY SMT
    <3> QED
      BY <3>1, Zenon
  <2>2. PICK j \in S : \A y \in S : j <= y
    <3> HIDE DEF S
    <3> QED
      BY <2>1, LeastExists
  <2>3. j \in 0 .. 24 /\ k <= j /\ ~Divides(j)
    BY <2>2
  <2>4. j # k
    <3> SUFFICES Divides(k)
      BY <2>3, Zenon
    <3> DEFINE p == 2^k
    <3>1. p \in Int
      BY PowersPositive
    <3> HIDE DEF p
    <3>2. p = p * 1 /\ 1 > 0 /\ 1 \in Nat
      BY <3>1, SMT
    <3>3. \E i \in Nat : i > 0 /\ p = p * i
      BY <3>2, Zenon
    <3> QED
      BY <3>3 DEF p
  <2> DEFINE h == j - 1
  <2>5. h \in 0 .. 23 /\ h \in 0 .. 24 /\ k <= h /\ h + 1 = j /\ ~(j <= h)
    BY <2>3, <2>4, SMT
  <2> HIDE DEF h
  <2>6. h \notin S
    BY <2>2, <2>5, Zenon
  <2>7. Divides(h)
    BY <2>5, <2>6, Zenon
  <2>8. PICK i \in Nat : i > 0 /\ 2^h = 2^k * i
    BY <2>7
  <2>9. 2^j = 2 * 2^h
    BY <2>5, PowersDouble
  <2> DEFINE p == 2^k
  <2>10. p \in Int
    BY PowersPositive
  <2>11. 2^j = 2 * (p * i)
    BY <2>8, <2>9
  <2>12. 2 * (p * i) = p * (2 * i) /\ 2 * i \in Nat /\ 2 * i > 0
    <3> HIDE DEF p
    <3> QED
      BY <2>8, <2>10, SMT
  <2>13. Divides(j)
    <3>1. 2^j = p * (2 * i)
      BY <2>11, <2>12
    <3> QED
      BY <2>12, <3>1, Zenon
  <2> QED
    BY <2>3, <2>13, Zenon
<1> QED
  BY <1>1, Zenon

LEMMA PowersGrow ==
    ASSUME NEW j \in 0 .. 24, NEW k \in 0 .. 24, j < k
    PROVE  2 * 2^j <= 2^k
<1>1. j \in 0 .. 23 /\ j + 1 \in 0 .. 24 /\ j + 1 <= k
  BY SMT
<1>2. PICK i \in Nat : i > 0 /\ 2^k = 2^(j + 1) * i
  BY <1>1, PowersDivide
<1> DEFINE p == 2^j
<1>3. p \in Int /\ p > 0
  BY PowersPositive
<1>4. 2^k = 2 * p * i
  BY <1>1, <1>2, PowersDouble
<1> HIDE DEF p
<1>5. 2 * p * i >= 2 * p
  <2>1. PICK l \in Nat : i = 1 + l
    <3>1. i - 1 \in Nat /\ i = 1 + (i - 1)
      BY <1>2, SMT
    <3> QED
      BY <3>1
  <2>2. 2 * p * (1 + l) = 2 * p + 2 * (p * l) /\ p * l >= 0 /\ p * l \in Int
    BY <1>3, SMT
  <2> QED
    BY <1>3, <2>1, <2>2, SMT
<1> QED
  BY <1>4, <1>5 DEF p

(* The byte q and the shift k of a timeout of n macro periods.             *)
Holds(k, q, n) ==
    /\ k \in 0 .. 24 /\ q \in Nat /\ q < 256 /\ Rounds(q, n, 2^k)
    /\ k > 0 => 128 <= q

LEMMA EncodeIs ==
    ASSUME NEW n \in Clocks, n # 0
    PROVE  LET r == EncodeTimeout(n) IN
           r \in Encoded /\ Holds(r \div 256, r % 256, n - 1)
<1> DEFINE r == EncodeTimeout(n)
           m == n - 1
           k == Shift(m)
           p == 2^k
           q == m \div p
<1>1. m \in Shiftable /\ m \in Nat
  BY SMT DEF Clocks, Shiftable
<1>2. r = 256 * k + q
  BY Zenon DEF EncodeTimeout
<1>3. r \in Encoded
  BY EncodeType
<1> HIDE DEF m, r
<1>4. k \in 0 .. 24 /\ q \in Int /\ 0 <= q /\ q < 256
  BY <1>1, ShiftIs
<1>5. k > 0 => 128 <= q
  <2> SUFFICES ASSUME k > 0 PROVE 128 <= q
    OBVIOUS
  <2> DEFINE j == k - 1
             o == 2^j
             d == m \div o
  <2>1. j \in 0 .. 23 /\ j + 1 = k /\ j \in 0 .. 24 /\ j < k
    BY <1>4, SMT
  <2>2. d >= 256
    BY <1>1, <2>1, ShiftIs
  <2> HIDE DEF k, j
  <2>3. p = 2 * o /\ o \in Int /\ o > 0
    BY <2>1, PowersDouble, PowersPositive
  <2> HIDE DEF o
  <2>4. Rounds(d, m, o)
    <3>1. o \in Nat
      BY <2>3, SMT
    <3> QED
      BY <1>1, <2>3, <3>1, Quotient
  <2>5. p \in Nat /\ p > 0
    BY <2>3, SMT
  <2> HIDE DEF p
  <2>6. Rounds(q, m, p)
    BY <1>1, <2>5, Quotient
  <2> HIDE DEF d, q
  <2>7. o * d <= m /\ m < p * q + p /\ d \in Nat /\ q \in Nat
    BY <2>4, <2>6 DEF Rounds
  <2> SUFFICES ASSUME q <= 127 PROVE FALSE
    BY <2>7, SMT
  <2>8. PICK i \in Nat : d = 256 + i
    <3>1. d - 256 \in Nat /\ d = 256 + (d - 256)
      BY <2>2, <2>7, SMT
    <3> QED
      BY <3>1
  <2>9. PICK l \in Nat : 127 = q + l
    <3>1. 127 - q \in Nat /\ 127 = q + (127 - q)
      BY <2>7, SMT
    <3> QED
      BY <3>1
  <2>10. o * d = 256 * o + o * i /\ o * i \in Nat
    <3>1. o * (256 + i) = 256 * o + o * i /\ o * i \in Nat
      BY <2>3, SMT
    <3> QED
      BY <2>8, <3>1
  <2>11. 127 * p = p * q + p * l /\ p * l \in Nat /\ p * q \in Nat
    <3>1. (q + l) * p = p * q + p * l /\ p * l \in Nat /\ p * q \in Nat
      BY <2>5, <2>7, SMT
    <3> QED
      BY <2>9, <3>1
  <2> DEFINE oi == o * i
             pl == p * l
             pq == p * q
  <2>12. o * d = 256 * o + oi /\ oi \in Nat /\ 127 * p = pq + pl /\ pl \in Nat /\ pq \in Nat
         /\ 256 * o + oi <= m /\ m < pq + p
    BY <2>7, <2>10, <2>11
  <2> HIDE DEF oi, pl, pq
  <2> QED
    BY <1>1, <2>3, <2>5, <2>12, SMT
<1>6. Rounds(q, m, p)
  <2> HIDE DEF k
  <2>1. p \in Int /\ p > 0
    BY <1>4, PowersPositive
  <2> HIDE DEF p
  <2>2. p \in Nat
    BY <2>1, SMT
  <2> QED
    BY <1>1, <2>1, <2>2, Quotient
<1> DEFINE kr == r \div 256
           qr == r % 256
<1>7. kr = k /\ qr = q
  <2> HIDE DEF k, q
  <2> QED
    BY <1>2, <1>4, SMT
<1>8. Holds(k, q, m)
  <2> HIDE DEF k
  <2>1. q \in Nat
    BY <1>4, SMT
  <2> HIDE DEF q
  <2> QED
    BY <1>4, <1>5, <1>6, <2>1 DEF Holds
<1> HIDE DEF k, q
<1> QED
  BY <1>3, <1>7, <1>8 DEF r, m

LEMMA DecodeIs ==
    ASSUME NEW n \in Clocks, n # 0
    PROVE  LET r == EncodeTimeout(n) IN
           /\ DecodeTimeout(r) \in Nat /\ 0 < DecodeTimeout(r) /\ DecodeTimeout(r) <= n
           /\ n < DecodeTimeout(r) + 2^(r \div 256)
<1> DEFINE r == EncodeTimeout(n)
           k == r \div 256
           q == r % 256
           p == 2^k
           m == n - 1
           a == p * q
<1>1. Holds(k, q, m)
  BY EncodeIs
<1>2. DecodeTimeout(r) = q * p + 1
  BY DEF DecodeTimeout
<1>3. m \in Nat /\ n = m + 1
  BY SMT DEF Clocks
<1> HIDE DEF r, k, q, m
<1>4. p \in Int /\ p > 0
  BY <1>1, PowersPositive DEF Holds
<1>5. q \in Nat /\ p * q <= m /\ m < p * q + p
  BY <1>1 DEF Holds, Rounds
<1> HIDE DEF p
<1>6. q * p = a /\ a \in Nat
  BY <1>4, <1>5, SMT
<1>7. a <= m /\ m < a + p
  BY <1>5
<1> HIDE DEF a
<1>8. a + 1 \in Nat /\ 0 < a + 1 /\ a + 1 <= n /\ n < a + 1 + p
  BY <1>3, <1>4, <1>6, <1>7, SMT
<1> QED
  BY <1>2, <1>6, <1>8 DEF p, k, r

LEMMA DecodeKeeps ==
    ASSUME NEW r \in Encoded, NEW n \in Clocks, DecodeTimeout(r) <= n
    PROVE  DecodeTimeout(r) \in Nat /\ DecodeTimeout(r) <= DecodeTimeout(EncodeTimeout(n))
<1> DEFINE j == r \div 256
           l == r % 256
           o == 2^j
           t == EncodeTimeout(n)
           k == t \div 256
           q == t % 256
           p == 2^k
           m == n - 1
           b == l * o
           a == q * p
<1>1. DecodeTimeout(r) = b + 1 /\ DecodeTimeout(t) = a + 1
  BY DEF DecodeTimeout
<1>2. j \in 0 .. 24 /\ l \in Nat /\ l < 256
  BY Uint16Is, SMT DEF Encoded
<1> HIDE DEF j, l
<1>3. o \in Nat /\ o > 0
  BY <1>2, PowersPositive
<1>4. b \in Nat
  <2> HIDE DEF o
  <2> QED
    BY <1>2, <1>3, SMT
<1>5. n # 0 /\ n \in Int
  <2> HIDE DEF b
  <2> QED
    BY <1>1, <1>4, SMT DEF Clocks
<1>6. Holds(k, q, m)
  BY <1>5, EncodeIs
<1>7. b <= m /\ m \in Nat
  <2> HIDE DEF b
  <2> QED
    BY <1>1, <1>4, <1>5, SMT
<1> HIDE DEF t, k, q, m
<1>8. k \in 0 .. 24 /\ q \in Nat /\ p * q <= m /\ m < p * q + p
  BY <1>6 DEF Holds, Rounds
<1>9. p \in Nat /\ p > 0
  BY <1>8, PowersPositive
<1>10. a \in Nat /\ p * q = a
  <2> HIDE DEF p
  <2> QED
    BY <1>8, <1>9, SMT
<1>11. CASE k <= j
  <2>1. PICK i \in Nat : o = p * i
    BY <1>2, <1>8, <1>11, PowersDivide
  <2> HIDE DEF o, p
  <2>2. b = p * (l * i) /\ l * i \in Nat
    <3>1. l * (p * i) = p * (l * i) /\ l * i \in Nat
      BY <1>2, <1>9, SMT
    <3> QED
      BY <2>1, <3>1
  <2> DEFINE c == l * i
  <2>3. b = p * c /\ c \in Nat
    BY <2>2
  <2> HIDE DEF c, b
  <2>4. ~(q < c)
    <3> SUFFICES ASSUME q < c PROVE FALSE
      OBVIOUS
    <3>1. PICK e \in Nat : c = q + 1 + e
      <4>1. c - q - 1 \in Nat /\ c = q + 1 + (c - q - 1)
        BY <1>8, <2>3, SMT
      <4> QED
        BY <4>1
    <3>2. p * (q + 1 + e) = p * q + p + p * e /\ p * e \in Nat
      BY <1>8, <1>9, SMT
    <3> DEFINE pe == p * e
    <3>3. b = a + p + pe /\ pe \in Nat
      BY <1>10, <2>3, <3>1, <3>2
    <3> HIDE DEF pe
    <3>4. m < a + p
      BY <1>8, <1>10
    <3> HIDE DEF a
    <3> QED
      BY <1>7, <1>9, <1>10, <3>3, <3>4, SMT
  <2>5. PICK e \in Nat : q = c + e
    <3>1. q - c \in Nat /\ q = c + (q - c)
      BY <1>8, <2>3, <2>4, SMT
    <3> QED
      BY <3>1
  <2>6. p * (c + e) = p * c + p * e /\ p * e \in Nat
    BY <1>9, <2>3, SMT
  <2> DEFINE pe == p * e
  <2>7. a = b + pe /\ pe \in Nat
    BY <1>10, <2>3, <2>5, <2>6
  <2> HIDE DEF pe, a
  <2>8. b \in Nat
    BY <1>4
  <2>9. b + 1 \in Nat /\ b + 1 <= a + 1
    BY <2>7, <2>8, SMT
  <2> QED
    BY <1>1, <2>9 DEF t
<1>12. CASE j < k
  <2>1. 2 * o <= p
    BY <1>2, <1>8, <1>12, PowersGrow
  <2>2. 128 <= q
    <3>1. k > 0
      BY <1>2, <1>8, <1>12, SMT
    <3> QED
      BY <1>6, <3>1 DEF Holds
  <2> HIDE DEF o, p
  <2>3. PICK e \in Nat : q = 128 + e
    <3>1. q - 128 \in Nat /\ q = 128 + (q - 128)
      BY <1>8, <2>2, SMT
    <3> QED
      BY <3>1
  <2>4. PICK f \in Nat : 256 = l + f
    <3>1. 256 - l \in Nat /\ 256 = l + (256 - l)
      BY <1>2, SMT
    <3> QED
      BY <3>1
  <2>5. p * (128 + e) = 128 * p + p * e /\ p * e \in Nat
    BY <1>9, SMT
  <2>6. (l + f) * o = l * o + f * o /\ f * o \in Nat
    BY <1>2, <1>3, SMT
  <2> DEFINE pe == p * e
             fo == f * o
  <2>7. a = 128 * p + pe /\ pe \in Nat /\ 256 * o = b + fo /\ fo \in Nat
    BY <1>10, <2>3, <2>4, <2>5, <2>6
  <2> HIDE DEF pe, fo, a, b
  <2>8. b \in Nat
    BY <1>4
  <2>9. b + 1 \in Nat /\ b + 1 <= a + 1
    BY <1>3, <1>9, <2>1, <2>7, <2>8, SMT
  <2> QED
    BY <1>1, <2>9 DEF t
<1> QED
  BY <1>2, <1>8, <1>11, <1>12, SMT

LEMMA EncodeAgain ==
    ASSUME NEW n \in Clocks, n # 0
    PROVE  EncodeTimeout(DecodeTimeout(EncodeTimeout(n))) = EncodeTimeout(n)
<1> DEFINE r == EncodeTimeout(n)
           k == r \div 256
           q == r % 256
           p == 2^k
           a == q * p
           h == Shift(a)
<1>1. Holds(k, q, n - 1) /\ r \in Encoded
  BY EncodeIs
<1>2. DecodeTimeout(r) = a + 1
  BY DEF DecodeTimeout
<1>3. r = 256 * k + q
  <2>1. r \in Int
    BY <1>1, EncodedIs, WordsAreInts
  <2> HIDE DEF r
  <2> QED
    BY <2>1, SMT
<1>4. a + 1 <= n
  BY <1>2, DecodeIs
<1> HIDE DEF r, k, q
<1>5. k \in 0 .. 24 /\ q \in Nat /\ q < 256 /\ (k > 0 => 128 <= q)
  BY <1>1 DEF Holds
<1>6. p \in Nat /\ p > 0
  BY <1>5, PowersPositive
<1>7. a \in Nat /\ a \in Shiftable /\ a + 1 # 0 /\ (a + 1) - 1 = a
  <2>1. a \in Nat
    <3> HIDE DEF p
    <3> QED
      BY <1>5, <1>6, SMT
  <2> HIDE DEF a
  <2> QED
    BY <1>4, <2>1, SMT DEF Clocks, Shiftable
<1>8. ASSUME NEW j \in 0 .. 24, j <= k
      PROVE  \E i \in Nat : a \div 2^j = q * i /\ 2^k = 2^j * i /\ i > 0
  <2>1. PICK i \in Nat : i > 0 /\ 2^k = 2^j * i
    BY <1>5, <1>8, PowersDivide
  <2> DEFINE o == 2^j
             c == q * i
  <2>2. o \in Nat /\ o > 0
    BY PowersPositive
  <2>3. c \in Nat /\ a = o * c
    <3> HIDE DEF o
    <3>1. q * (o * i) = o * (q * i) /\ q * i \in Nat
      BY <1>5, <2>2, SMT
    <3> QED
      BY <2>1, <3>1 DEF o
  <2> HIDE DEF o, c, a
  <2>4. Rounds(c, a, o)
    BY <2>2, <2>3, SMT DEF Rounds
  <2>5. c = a \div o
    BY <1>7, <2>2, <2>3, <2>4, Quotient
  <2> QED
    BY <2>1, <2>5 DEF o, c
<1>9. a \div p = q
  <2>1. PICK i \in Nat : a \div 2^k = q * i /\ 2^k = 2^k * i /\ i > 0
    <3>1. k <= k
      BY <1>5, SMT
    <3> QED
      BY <1>5, <1>8, <3>1
  <2>2. i = 1
    <3>1. p = p * i
      BY <2>1
    <3> HIDE DEF p
    <3>2. PICK e \in Nat : i = 1 + e
      <4>1. i - 1 \in Nat /\ i = 1 + (i - 1)
        BY <2>1, SMT
      <4> QED
        BY <4>1
    <3>3. p * (1 + e) = p + p * e /\ p * e = e * p
      BY <1>6, SMT
    <3>4. p * e = 0
      BY <1>6, <3>1, <3>2, <3>3, SMT
    <3>5. e = 0
      BY <1>6, <3>4, SMT
    <3> QED
      BY <3>2, <3>5
  <2>3. q * 1 = q
    BY <1>5, SMT
  <2> QED
    BY <2>1, <2>2, <2>3
<1>10. ASSUME NEW j \in 0 .. 24, j < k
       PROVE  a \div 2^j >= 256
  <2>1. PICK i \in Nat : a \div 2^j = q * i /\ 2^k = 2^j * i /\ i > 0
    <3>1. j <= k
      BY <1>5, <1>10, SMT
    <3> QED
      BY <1>8, <3>1
  <2> DEFINE o == 2^j
  <2>2. 2 * o <= o * i /\ o \in Nat /\ o > 0
    BY <1>5, <1>10, <2>1, PowersGrow, PowersPositive
  <2>3. i # 1
    <3> HIDE DEF o
    <3> SUFFICES ASSUME i = 1 PROVE FALSE
      OBVIOUS
    <3>1. o * 1 = o
      BY <2>2, SMT
    <3>2. 2 * o <= o
      BY <2>2, <3>1
    <3> QED
      BY <2>2, <3>2, SMT
  <2>4. PICK e \in Nat : i = 2 + e
    <3>1. i - 2 \in Nat /\ i = 2 + (i - 2)
      BY <2>1, <2>3, SMT
    <3> QED
      BY <3>1
  <2>5. 128 <= q
    <3>1. k > 0
      BY <1>5, <1>10, SMT
    <3> QED
      BY <1>5, <3>1
  <2>6. q * (2 + e) = 2 * q + q * e /\ q * e \in Nat
    BY <1>5, SMT
  <2> DEFINE qe == q * e
  <2>7. a \div 2^j = 2 * q + qe /\ qe \in Nat
    BY <2>1, <2>4, <2>6
  <2> HIDE DEF qe
  <2> QED
    BY <1>5, <2>5, <2>7, SMT
<1>11. h \in 0 .. 24 /\ a \div 2^h < 256 /\ \A j \in 0 .. 24 : j < h => a \div 2^j >= 256
  <2> HIDE DEF a
  <2> QED
    BY <1>7, ShiftIs
<1> HIDE DEF h
<1>12. h = k
  <2>1. ~(h < k)
    <3> SUFFICES ASSUME h < k PROVE FALSE
      OBVIOUS
    <3> DEFINE d == a \div 2^h
    <3>1. d >= 256 /\ d < 256 /\ d \in Int
      <4>1. d \in Int
        <5> HIDE DEF a
        <5> QED
          BY <1>7, <1>11, ShiftIs
      <4> QED
        BY <1>10, <1>11, <4>1
    <3> HIDE DEF d
    <3> QED
      BY <3>1, SMT
  <2>2. ~(k < h)
    <3> SUFFICES ASSUME k < h PROVE FALSE
      OBVIOUS
    <3> DEFINE d == a \div p
    <3>1. d >= 256
      BY <1>5, <1>11
    <3>2. d = q
      BY <1>9
    <3> HIDE DEF d
    <3> QED
      BY <1>5, <3>1, <3>2, SMT
  <2> QED
    BY <1>5, <1>11, <2>1, <2>2, SMT
<1>13. EncodeTimeout(a + 1) = 256 * Shift(a) + a \div 2^Shift(a)
  <2> HIDE DEF a
  <2> QED
    BY <1>7, Zenon DEF EncodeTimeout
<1>14. EncodeTimeout(a + 1) = r
  BY <1>3, <1>9, <1>12, <1>13 DEF h
<1> QED
  BY <1>2, <1>14 DEF r
-----------------------------------------------------------------------------
(* A part of a call that reads the sensor and keeps what it was given.     *)
Looks(c, d) == Reads(c, d) /\ d.seen = c.seen /\ d.left = c.left

LEMMA LooksChain ==
    ASSUME NEW c, NEW d, NEW e, Timed(c), Looks(c, d), Looks(d, e)
    PROVE  Looks(c, e) /\ (Intact(c, e) => Intact(c, d) /\ Intact(d, e))
  BY ReadsChain, FlowsChain DEF Looks, Reads

LEMMA LooksTimed == \A c, d : Looks(c, d) => Timed(d) /\ d.regs = c.regs /\ d.dev = c.dev
  BY DEF Looks, Reads, Flows

LEMMA LocalFields ==
    ASSUME NEW c, Timed(c), NEW v
    PROVE  /\ LET d == [c EXCEPT !.micros = v] IN
              /\ d.micros = v /\ d.left = c.left /\ d.seen = c.seen /\ d.status = c.status
              /\ d.fuse = c.fuse
           /\ LET d == [c EXCEPT !.left = v] IN
              /\ d.left = v /\ d.seen = c.seen /\ d.status = c.status /\ d.fuse = c.fuse
           /\ LET d == [c EXCEPT !.seen = v] IN
              /\ d.left = c.left /\ d.status = c.status /\ d.fuse = c.fuse
           /\ LET d == [c EXCEPT !.status = v] IN
              /\ d.left = c.left /\ d.status = v /\ d.fuse = c.fuse /\ d.seen = c.seen
           /\ [c EXCEPT !.dev = v].dev = v
           /\ Transfer(c).left = c.left /\ Transfer(c).seen = c.seen
  BY DEF Timed, Fields, Transfer

LEMMA TransfersLook ==
    ASSUME NEW c, Timed(c), NEW n \in Nat
    PROVE  Looks(c, Transfers(c, n)) /\ Looks(c, Transfer(c))
<1>1. Transfers(c, n).left = c.left /\ Transfers(c, n).seen = c.seen
  BY DEF Timed, Fields, Transfers
<1> QED
  BY <1>1, TransfersStep, TransferStep, LocalFields DEF Looks

(* The timeouts of the register file r as the code reads them.             *)
PreClocks(r) == IF "PRE" \in r.steps THEN U16(DecodeTimeout(r.pre)) ELSE 0
ShortUs(r) == CalcTimeoutUs(r.msrc + 1, DecodeVcselPeriod(r.prePeriod))
PreUs(r) == CalcTimeoutUs(U16(DecodeTimeout(r.pre)), DecodeVcselPeriod(r.prePeriod))
FinalUs(r) == CalcTimeoutUs(U16(U16(DecodeTimeout(r.final)) - PreClocks(r)),
                            DecodeVcselPeriod(r.finalPeriod))

LEMMA TimeoutTypes ==
    ASSUME NEW c, Timed(c)
    PROVE  /\ ShortUs(c.regs) \in Int /\ PreUs(c.regs) \in Int /\ FinalUs(c.regs) \in Int
           /\ PreClocks(c.regs) \in Uint16
<1>1. /\ DecodeVcselPeriod(c.regs.prePeriod) \in Pclks
      /\ DecodeVcselPeriod(c.regs.finalPeriod) \in Pclks
      /\ DecodeTimeout(c.regs.pre) \in Int /\ DecodeTimeout(c.regs.final) \in Int
      /\ c.regs.msrc + 1 \in Int
  BY SensorTypes, EncodedIs, DecodeType
<1>2. PreClocks(c.regs) \in Uint16
  BY <1>1, Cuts, WordsAreInts DEF PreClocks
<1>3. U16(DecodeTimeout(c.regs.pre)) \in Int /\ U16(DecodeTimeout(c.regs.final)) \in Int
  BY <1>1, Cuts, WordsAreInts
<1>4. U16(DecodeTimeout(c.regs.final)) - PreClocks(c.regs) \in Int
  <2>1. PreClocks(c.regs) \in Int
    BY <1>2, WordsAreInts
  <2> QED
    BY <1>3, <2>1
<1>5. U16(U16(DecodeTimeout(c.regs.final)) - PreClocks(c.regs)) \in Int
  BY <1>4, Cuts, WordsAreInts
<1> QED
  BY <1>1, <1>2, <1>3, <1>5, CalcUsType DEF ShortUs, PreUs, FinalUs

LEMMA GetShortLook ==
    ASSUME NEW c, Timed(c)
    PROVE  LET d == GetShortTimeout(c) IN Looks(c, d) /\ d.micros = ShortUs(c.regs)
<1> DEFINE e == Transfers(c, 2)
           v == ShortUs(c.regs)
           d == [e EXCEPT !.micros = v]
<1>1. Looks(c, e)
  BY TransfersLook
<1>2. GetShortTimeout(c) = d
  BY DEF GetShortTimeout, ShortUs
<1>3. v \in Int
  BY TimeoutTypes
<1> HIDE DEF e, v
<1>4. Timed(e)
  BY <1>1, LooksTimed
<1>5. Looks(e, d) /\ d.micros = v
  BY <1>3, <1>4, AssignLocal, LocalFields DEF Looks
<1> HIDE DEF d
<1>6. Looks(c, d)
  BY <1>1, <1>5, LooksChain
<1> QED
  BY <1>2, <1>5, <1>6 DEF v

LEMMA GetPreLook ==
    ASSUME NEW c, Timed(c)
    PROVE  LET d == GetPreTimeout(c) IN
           /\ Looks(c, d)
           /\ Intact(c, d) /\ c.status = "none" => d.micros = PreUs(c.regs)
<1> DEFINE d == Transfer(c)
           e == IF d.status = "none" THEN Transfer(d) ELSE d
           f == IF e.status = "none" THEN Transfer(e) ELSE e
           p == DecodeVcselPeriod(c.regs.prePeriod)
           t == U16(DecodeTimeout(IF f.status = "none" THEN c.regs.pre ELSE 0))
           v == IF d.status # "none" THEN 0 ELSE CalcTimeoutUs(t, p)
           g == [f EXCEPT !.micros = v]
<1>1. GetPreTimeout(c) = g
  BY DEF GetPreTimeout, Then
<1>2. v \in Int
  <2>1. c.regs.pre \in Uint16 /\ 0 \in Uint16 /\ p \in Pclks
    BY SensorTypes, EncodedIs, WordsAreInts
  <2>2. t \in Int
    BY <2>1, DecodeType, Cuts, WordsAreInts
  <2> HIDE DEF t, p
  <2> QED
    BY <2>1, <2>2, CalcUsType
<1>3. Looks(c, d) /\ Timed(d)
  BY TransfersLook, LooksTimed
<1> HIDE DEF d
<1>4. Looks(d, e) /\ Timed(e)
  BY <1>3, TransfersLook, LooksTimed, FlowsSame DEF Looks
<1> HIDE DEF e
<1>5. Looks(e, f) /\ Timed(f)
  BY <1>4, TransfersLook, LooksTimed, FlowsSame DEF Looks
<1>6. d.status = "none" /\ f.status = "none" => v = PreUs(c.regs)
  BY DEF PreUs
<1> HIDE DEF f, v
<1>7. Looks(f, g) /\ g.micros = v
  BY <1>2, <1>5, AssignLocal, LocalFields DEF Looks
<1> HIDE DEF g
<1>8. Looks(c, e) /\ (Intact(c, e) => Intact(c, d) /\ Intact(d, e))
  BY <1>3, <1>4, LooksChain
<1>9. Looks(c, f) /\ (Intact(c, f) => Intact(c, e) /\ Intact(e, f))
  BY <1>5, <1>8, LooksChain
<1>10. Looks(c, g) /\ (Intact(c, g) => Intact(c, f))
  BY <1>7, <1>9, LooksChain
<1>11. Intact(c, g) /\ c.status = "none" => d.status = "none" /\ f.status = "none"
  BY <1>3, <1>4, <1>5, <1>8, <1>9, <1>10 DEF Looks, Reads, Smooth
<1> QED
  BY <1>1, <1>6, <1>7, <1>10, <1>11

LEMMA GetEnablesLook ==
    ASSUME NEW c, Timed(c)
    PROVE  LET d == GetSequenceStepEnables(c) IN
           /\ Reads(c, d) /\ Timed(d) /\ d.left = c.left
           /\ d.status = "none" => d.seen = c.regs.steps
<1> DEFINE e == Transfer(c)
           v == IF e.status = "none" THEN c.regs.steps ELSE c.garbage
           d == [e EXCEPT !.seen = v]
<1>1. GetSequenceStepEnables(c) = d
  BY DEF GetSequenceStepEnables
<1>2. Timed(e) /\ e.left = c.left
  BY TransfersLook, LooksTimed, LocalFields
<1> HIDE DEF e, v
<1>3. d.left = e.left
  BY <1>2, LocalFields
<1> HIDE DEF d
<1> QED
  BY <1>1, <1>2, <1>3, GetEnablesStep DEF Reads, Flows

(* The steps are read first, and only they decide whether the pre-range    *)
(* time is.                                                                *)
Entered(c, e) ==
    LET d == GetSequenceStepEnables(c)
    IN  e = IF "PRE" \in d.seen THEN Transfers(d, 2) ELSE [d EXCEPT !.status = "none"]

LEMMA EnteredLook ==
    ASSUME NEW c, Timed(c), c.status = "none", NEW e, Entered(c, e)
    PROVE  /\ Reads(c, e) /\ Timed(e) /\ e.left = c.left
           /\ Intact(c, e) => e.status = "none"
                              /\ PreMclks(GetSequenceStepEnables(c)) = PreClocks(c.regs)
<1> DEFINE d == GetSequenceStepEnables(c)
<1>1. /\ Reads(c, d) /\ Timed(d) /\ d.left = c.left
      /\ d.status = "none" => d.seen = c.regs.steps
  BY GetEnablesLook
<1>2. d.regs = c.regs /\ (Intact(c, d) => d.status = "none")
  BY <1>1 DEF Reads, Smooth
<1>3. d.seen = c.regs.steps => PreMclks(d) = PreClocks(c.regs)
  BY <1>2 DEF PreMclks, PreClocks
<1>4. e = IF "PRE" \in d.seen THEN Transfers(d, 2) ELSE [d EXCEPT !.status = "none"]
  BY DEF Entered
<1> HIDE DEF d
<1>5. Reads(d, e) /\ Timed(e) /\ e.left = d.left
  <2>1. CASE "PRE" \in d.seen
    BY <1>1, <1>4, <2>1, TransfersLook, LooksTimed DEF Looks
  <2>2. CASE "PRE" \notin d.seen
    BY <1>1, <1>4, <2>2, AssignLocal, LocalFields, Names DEF Reads, Flows, Smooth
  <2> QED
    BY <2>1, <2>2
<1>6. Reads(c, e) /\ (Intact(c, e) => Intact(c, d) /\ Intact(d, e))
  BY <1>1, <1>5, ReadsChain, FlowsChain DEF Reads
<1>7. Intact(c, e) => e.status = "none" /\ d.seen = c.regs.steps
  BY <1>1, <1>2, <1>5, <1>6 DEF Reads, Smooth
<1> QED
  BY <1>1, <1>3, <1>5, <1>6, <1>7 DEF d

LEMMA GetFinalLook ==
    ASSUME NEW c, Timed(c), c.status = "none"
    PROVE  LET d == GetFinalTimeout(c) IN
           /\ Reads(c, d) /\ d.left = c.left
           /\ Intact(c, d) => d.micros = FinalUs(c.regs)
<1> DEFINE s == GetSequenceStepEnables(c)
           e == IF "PRE" \in s.seen THEN Transfers(s, 2) ELSE [s EXCEPT !.status = "none"]
           f == IF e.status = "none" THEN Transfers(e, 2) ELSE e
           v == CalcTimeoutUs(U16(U16(DecodeTimeout(c.regs.final)) - PreMclks(s)),
                              DecodeVcselPeriod(c.regs.finalPeriod))
           g == [f EXCEPT !.micros = v]
<1>1. GetFinalTimeout(c) = g
  BY DEF GetFinalTimeout, Then
<1>2. Entered(c, e)
  BY DEF Entered
<1>3. PreMclks(s) = PreClocks(c.regs) => v = FinalUs(c.regs)
  BY DEF FinalUs
<1>4. v \in Int
  <2>1. Timed(s) /\ s.regs = c.regs
    BY GetEnablesLook DEF Reads
  <2>2. PreMclks(s) \in Int
    BY <2>1, PreMclksType, WordsAreInts
  <2>3. DecodeTimeout(c.regs.final) \in Int /\ DecodeVcselPeriod(c.regs.finalPeriod) \in Pclks
    BY SensorTypes, EncodedIs, DecodeType
  <2>4. U16(DecodeTimeout(c.regs.final)) \in Int
    BY <2>3, Cuts, WordsAreInts
  <2>5. U16(DecodeTimeout(c.regs.final)) - PreMclks(s) \in Int
    BY <2>2, <2>4
  <2>6. U16(U16(DecodeTimeout(c.regs.final)) - PreMclks(s)) \in Int
    BY <2>5, Cuts, WordsAreInts
  <2> QED
    BY <2>3, <2>6, CalcUsType
<1> HIDE DEF v
<1>5. /\ Reads(c, e) /\ Timed(e) /\ e.left = c.left
      /\ Intact(c, e) => e.status = "none" /\ PreMclks(s) = PreClocks(c.regs)
  BY <1>2, EnteredLook
<1> HIDE DEF s, e
<1>6. Looks(e, f) /\ Timed(f)
  BY <1>5, TransfersLook, LooksTimed, FlowsSame DEF Looks
<1> HIDE DEF f
<1>7. Looks(f, g) /\ g.micros = v
  BY <1>4, <1>6, AssignLocal, LocalFields DEF Looks
<1> HIDE DEF g
<1>8. Looks(e, g) /\ Timed(g)
  BY <1>5, <1>6, <1>7, LooksChain, LooksTimed
<1>9. Reads(c, g) /\ g.left = c.left /\ (Intact(c, g) => Intact(c, e))
  BY <1>5, <1>8, ReadsChain, FlowsChain DEF Looks, Reads
<1> QED
  BY <1>1, <1>3, <1>5, <1>7, <1>9

(* The register file with us microseconds given to the final range.        *)
Programmed(r, us) ==
    [r EXCEPT !.final = EncodeTimeout(PreClocks(r)
                            + CalcTimeoutMclks(us, DecodeVcselPeriod(r.finalPeriod)))]

LEMMA SetFinalLook ==
    ASSUME NEW c, Timed(c), c.status = "none", NEW us \in Int,
           Intact(c, SetFinalTimeout(c, us))
    PROVE  LET d == SetFinalTimeout(c, us) IN
           /\ d.status = "none" /\ d.regs = Programmed(c.regs, us)
           /\ d.dev = [c.dev EXCEPT !.finalMicros = us]
<1> DEFINE s == GetSequenceStepEnables(c)
           e == IF "PRE" \in s.seen THEN Transfers(s, 2) ELSE [s EXCEPT !.status = "none"]
           f == IF e.status = "none" THEN Transfers(e, 2) ELSE e
           v == EncodeTimeout(PreMclks(s)
                    + CalcTimeoutMclks(us, DecodeVcselPeriod(c.regs.finalPeriod)))
           r == [f.regs EXCEPT !.final = v]
           m == [f.dev EXCEPT !.finalMicros = us]
           g == Both(f, r, m)
           d == SetFinalTimeout(c, us)
<1>1. d = IF f.status = "none" THEN g ELSE f
  BY DEF SetFinalTimeout, Then, Both
<1>2. Entered(c, e)
  BY DEF Entered
<1>3. PreMclks(s) = PreClocks(c.regs) => [c.regs EXCEPT !.final = v] = Programmed(c.regs, us)
  BY DEF Programmed
<1>4. Programs(c, d) /\ Smooth(c, d) /\ Intact(c, d)
  BY SetFinalStep
<1> HIDE DEF v, d
<1>5. /\ Reads(c, e) /\ Timed(e)
      /\ Intact(c, e) => e.status = "none" /\ PreMclks(s) = PreClocks(c.regs)
  BY <1>2, EnteredLook
<1> HIDE DEF s, e
<1>6. Looks(e, f) /\ Timed(f)
  BY <1>5, TransfersLook, LooksTimed, FlowsSame DEF Looks
<1> HIDE DEF f
<1>7. f.regs = c.regs /\ f.dev = c.dev
  BY <1>5, <1>6, LooksTimed DEF Reads
<1>8. Fields \subseteq DOMAIN f
  BY <1>6 DEF Timed
<1>9. g.fuse = f.fuse /\ g.regs = r /\ g.dev = m /\ g.status = f.status
  BY <1>8 DEF Both, Fields
<1>10. d.fuse = f.fuse
  BY <1>1, <1>9
<1>11. Intact(c, f)
  BY <1>4, <1>10 DEF Intact
<1>12. Intact(c, e) /\ Intact(e, f)
  BY <1>5, <1>6, <1>11, FlowsChain DEF Looks, Reads
<1>13. f.status = "none"
  BY <1>5, <1>6, <1>12 DEF Looks, Reads, Smooth
<1>14. d.regs = Programmed(c.regs, us) /\ d.dev = [c.dev EXCEPT !.finalMicros = us]
  BY <1>1, <1>3, <1>5, <1>7, <1>9, <1>12, <1>13
<1>15. d.status = "none"
  BY <1>1, <1>9, <1>13
<1> QED
  BY <1>14, <1>15 DEF d

(* A part of a call that takes us microseconds from what is left, or finds *)
(* that they are not there.                                                *)
Takes(c, d, us) ==
    /\ Flows(c, d) /\ d.regs = c.regs /\ d.dev = c.dev /\ d.seen = c.seen
    /\ Intact(c, d) /\ c.status = "none" /\ d.status = "none" => d.left = c.left - us
    /\ Intact(c, d) /\ c.status = "none" /\ us \in Nat /\ us < c.left => d.status = "none"
    /\ Intact(c, d) /\ c.status = "none" /\ d.status = "none" /\ us \in Nat /\ c.left \in Nat
         => us <= c.left

LEMMA TakesTimed == \A c, d, us : Takes(c, d, us) => Timed(d)
  BY DEF Takes, Flows

LEMMA TakeIs ==
    ASSUME NEW c, Timed(c), NEW us \in Int
    PROVE  Takes(c, Take(c, us), us) /\ Take(c, us).micros = c.micros
<1> DEFINE n == c.left - us
           d == Take(c, us)
           e == [c EXCEPT !.left = n]
           i == [c EXCEPT !.status = "invalid"]
<1>1. d = IF U32Less(us, c.left) THEN e ELSE i
  BY DEF Take, Invalid, Fail
<1>2. n \in Int /\ c.left \in Int /\ Fields \subseteq DOMAIN c
  BY DEF Timed
<1>3. /\ us \in Nat /\ us < c.left => U32Less(us, c.left)
      /\ us \in Nat /\ c.left \in Nat /\ U32Less(us, c.left) => us <= c.left
  BY <1>2, SMT DEF U32Less
<1>4. "invalid" # "none"
  OBVIOUS
<1> HIDE DEF d
<1>5. CASE U32Less(us, c.left)
  <2> HIDE DEF n
  <2>1. Reads(c, e) /\ e.left = n /\ e.seen = c.seen /\ e.status = c.status
    BY <1>2, AssignLocal, LocalFields
  <2>2. e.micros = c.micros
    BY <1>2 DEF Fields
  <2> HIDE DEF e
  <2>3. Takes(c, e, us)
    BY <1>3, <1>5, <2>1 DEF Takes, Reads, n
  <2> QED
    BY <1>1, <1>5, <2>2, <2>3 DEF d
<1>6. CASE ~U32Less(us, c.left)
  <2>1. /\ Flows(c, i) /\ i.regs = c.regs /\ i.dev = c.dev /\ i.status = "invalid"
        /\ i.seen = c.seen
    BY AssignLocal, Names
  <2>2. i.micros = c.micros
    BY <1>2 DEF Fields
  <2> HIDE DEF i, n
  <2>3. Takes(c, i, us)
    BY <1>3, <1>4, <1>6, <2>1 DEF Takes
  <2> QED
    BY <1>1, <1>6, <2>2, <2>3 DEF d
<1> QED
  BY <1>5, <1>6

LEMMA LookTakes ==
    ASSUME NEW c, NEW d, NEW e, NEW us, Timed(c), Looks(c, d), Takes(d, e, us)
    PROVE  Takes(c, e, us)
<1>1. Flows(c, e) /\ (Intact(c, e) => Intact(c, d) /\ Intact(d, e))
  BY FlowsChain DEF Looks, Reads, Takes
<1>2. Intact(c, d) /\ c.status = "none" => d.status = "none"
  BY DEF Looks, Reads, Smooth
<1> QED
  BY <1>1, <1>2 DEF Takes, Looks, Reads

LEMMA ThenTakes ==
    ASSUME NEW c, NEW d, NEW e, NEW a \in Nat, NEW b \in Nat,
           Timed(c), c.status = "none", Takes(c, d, a), Takes(d, e, b)
    PROVE  Takes(c, IF d.status = "none" THEN e ELSE d, a + b)
<1>1. c.left \in Int /\ d.left \in Int /\ a + b \in Nat
  BY TakesTimed DEF Timed
<1>2. CASE d.status = "none"
  <2>1. Flows(c, e) /\ (Intact(c, e) => Intact(c, d) /\ Intact(d, e))
    BY FlowsChain DEF Takes
  <2>2. Intact(c, e) /\ e.status = "none" => e.left = c.left - (a + b)
    <3> SUFFICES ASSUME Intact(c, e), e.status = "none" PROVE e.left = c.left - (a + b)
      OBVIOUS
    <3>1. d.left = c.left - a /\ e.left = d.left - b
      BY <1>2, <2>1 DEF Takes
    <3> QED
      BY <1>1, <3>1
  <2>3. Intact(c, e) /\ a + b < c.left => e.status = "none"
    <3> SUFFICES ASSUME Intact(c, e), a + b < c.left PROVE e.status = "none"
      OBVIOUS
    <3>1. d.left = c.left - a
      BY <1>2, <2>1 DEF Takes
    <3>2. b < d.left
      BY <1>1, <3>1
    <3> QED
      BY <1>2, <2>1, <3>2 DEF Takes
  <2>4. Intact(c, e) /\ e.status = "none" /\ c.left \in Nat => a + b <= c.left
    <3> SUFFICES ASSUME Intact(c, e), e.status = "none", c.left \in Nat PROVE a + b <= c.left
      OBVIOUS
    <3>1. d.left = c.left - a /\ a <= c.left
      BY <1>2, <2>1 DEF Takes
    <3>2. d.left \in Nat
      BY <1>1, <3>1
    <3>3. b <= d.left
      BY <1>2, <2>1, <3>2 DEF Takes
    <3> QED
      BY <1>1, <3>1, <3>3
  <2> QED
    BY <1>2, <2>1, <2>2, <2>3, <2>4 DEF Takes
<1>3. CASE d.status # "none"
  <2>1. a + b < c.left => a < c.left
    BY <1>1
  <2> QED
    BY <1>3, <2>1 DEF Takes
<1> QED
  BY <1>2, <1>3

LEMMA NothingTaken == \A c : Timed(c) => Takes(c, c, 0)
<1> SUFFICES ASSUME NEW c, Timed(c) PROVE Takes(c, c, 0)
  OBVIOUS
<1>1. c.left = c.left - 0 /\ (c.left \in Nat => 0 <= c.left)
  BY DEF Timed
<1> QED
  BY <1>1, FlowsSame DEF Takes, Reads

LEMMA SensorIs ==
    ASSUME NEW r \in Sensors
    PROVE  /\ DecodeVcselPeriod(r.prePeriod) \in Pclks
           /\ DecodeVcselPeriod(r.finalPeriod) \in Pclks
           /\ r.pre \in Encoded /\ r.final \in Encoded /\ r.msrc \in Uint8
           /\ r.steps \in SUBSET Step
           /\ DecodeVcselPeriod(r.prePeriod) \in LongPclks
  BY PeriodsDecoded, LongDecoded DEF Sensors

ShortMicrosOf(r) == Micros(r.msrc + 1, DecodeVcselPeriod(r.prePeriod))

LEMMA ShortUsIs ==
    ASSUME NEW r \in Sensors
    PROVE  ShortMicrosOf(r) \in Nat /\ ShortUs(r) \in {ShortMicrosOf(r), ShortMicrosOf(r) + 1}
<1> DEFINE n == r.msrc + 1
           p == DecodeVcselPeriod(r.prePeriod)
<1>1. n \in Nat /\ n <= 256
  <2>1. r.msrc \in Uint8
    BY SensorIs
  <2> QED
    BY <2>1, Uint8Is, SMT
<1>2. p \in Pclks
  BY SensorIs
<1>3. ShortUs(r) = CalcTimeoutUs(n, p) /\ ShortMicrosOf(r) = Micros(n, p)
  BY DEF ShortUs, ShortMicrosOf
<1> HIDE DEF n, p
<1> DEFINE m == MacroPeriodNs(p)
           x == n * m
           s == Micros(n, p)
<1>4. m \in Nat /\ m <= 68637
  BY <1>2, PeriodIs
<1>5. Rounds(s, x, 1000)
  BY <1>1, <1>2, MicrosIs
<1> HIDE DEF m, s
<1>6. x \in Nat /\ x <= 256 * 68637
  <2>1. PICK i \in Nat : 256 = n + i
    <3>1. 256 - n \in Nat /\ 256 = n + (256 - n)
      BY <1>1, SMT
    <3> QED
      BY <3>1
  <2>2. PICK j \in Nat : 68637 = m + j
    <3>1. 68637 - m \in Nat /\ 68637 = m + (68637 - m)
      BY <1>4, SMT
    <3> QED
      BY <3>1
  <2>3. (n + i) * (m + j) = n * m + (n * j + i * m + i * j)
        /\ n * j \in Nat /\ i * m \in Nat /\ i * j \in Nat /\ n * m \in Nat
    BY <1>1, <1>4, SMT
  <2> DEFINE nj == n * j
             im == i * m
             ij == i * j
  <2>4. 256 * 68637 = x + (nj + im + ij) /\ nj \in Nat /\ im \in Nat /\ ij \in Nat /\ x \in Nat
    BY <2>1, <2>2, <2>3
  <2> HIDE DEF nj, im, ij, x
  <2> QED
    BY <2>4, SMT
<1> HIDE DEF x
<1>7. s <= WidestBudget
  <2>1. s \in Nat /\ 1000 * s <= x
    BY <1>5 DEF Rounds
  <2> QED
    BY <1>6, <2>1, SMT DEF WidestBudget
<1>8. CalcTimeoutUs(n, p) \in {s, s + 1} /\ s \in Nat
  BY <1>1, <1>2, <1>7, UsIs DEF s
<1> QED
  BY <1>3, <1>8 DEF s

LEMMA ShortUsNat == \A c : Timed(c) => ShortUs(c.regs) \in Nat
<1> SUFFICES ASSUME NEW c, Timed(c) PROVE ShortUs(c.regs) \in Nat
  OBVIOUS
<1>1. c.regs \in Sensors
  BY DEF Timed
<1>2. ShortMicrosOf(c.regs) \in Nat /\ ShortUs(c.regs) \in {ShortMicrosOf(c.regs), ShortMicrosOf(c.regs) + 1}
  BY <1>1, ShortUsIs
<1> QED
  BY <1>2

LEMMA TakeShortIs ==
    ASSUME NEW c, Timed(c), c.status = "none"
    PROVE  LET t == ShortTime(c, ShortUs(c.regs)) IN
           t \in Nat /\ Takes(c, TakeShortSteps(c), t)
<1> DEFINE s == ShortUs(c.regs)
           a == IF "TCC" \in c.seen THEN s + Overhead["TCC"] ELSE 0
           b == IF "DSS" \in c.seen THEN 2 * (s + Overhead["DSS"])
                ELSE IF "MSRC" \in c.seen THEN s + Overhead["MSRC"] ELSE 0
           d == GetShortTimeout(c)
           e == IF "TCC" \in c.seen
                THEN IF d.status = "none" THEN Take(d, d.micros + Overhead["TCC"]) ELSE d
                ELSE d
           f == IF "DSS" \in c.seen THEN Take(e, 2 * (e.micros + Overhead["DSS"]))
                ELSE IF "MSRC" \in c.seen THEN Take(e, e.micros + Overhead["MSRC"])
                ELSE e
           g == IF e.status = "none" THEN f ELSE e
<1>1. TakeShortSteps(c) = g
  BY DEF TakeShortSteps, Then
<1>2. ShortTime(c, s) = a + b
  BY DEF ShortTime
<1>3. s \in Nat
  BY ShortUsNat
<1>4. Looks(c, d) /\ d.micros = s /\ Timed(d) /\ d.seen = c.seen
  BY GetShortLook, LooksTimed DEF Looks
<1> HIDE DEF s, d
<1>5. a \in Nat /\ b \in Nat /\ a + b \in Nat
  BY <1>3, SMT DEF Overhead
<1>6. CASE d.status = "none"
  <2>1. Takes(d, e, a) /\ e.micros = s
    <3>1. CASE "TCC" \in c.seen
      <4>1. a = s + Overhead["TCC"] /\ e = Take(d, s + Overhead["TCC"]) /\ s + Overhead["TCC"] \in Int
        BY <1>3, <1>4, <1>5, <1>6, <3>1
      <4> QED
        BY <1>4, <4>1, TakeIs
    <3>2. CASE "TCC" \notin c.seen
      BY <1>4, <3>2, NothingTaken
    <3> QED
      BY <3>1, <3>2
  <2>2. Timed(e)
    BY <2>1, TakesTimed
  <2> HIDE DEF e, a
  <2>3. Takes(e, f, b)
    <3>1. CASE "DSS" \in c.seen
      <4>1. b = 2 * (s + Overhead["DSS"]) /\ f = Take(e, 2 * (s + Overhead["DSS"]))
        BY <2>1, <3>1
      <4> QED
        BY <1>5, <2>2, <4>1, TakeIs
    <3>2. CASE "DSS" \notin c.seen /\ "MSRC" \in c.seen
      <4>1. b = s + Overhead["MSRC"] /\ f = Take(e, s + Overhead["MSRC"])
        BY <2>1, <3>2
      <4> QED
        BY <1>5, <2>2, <4>1, TakeIs
    <3>3. CASE "DSS" \notin c.seen /\ "MSRC" \notin c.seen
      BY <2>2, <3>3, NothingTaken
    <3> QED
      BY <3>1, <3>2, <3>3
  <2> HIDE DEF f, b
  <2>4. Takes(d, g, a + b)
    BY <1>4, <1>5, <1>6, <2>1, <2>3, ThenTakes
  <2> HIDE DEF g
  <2>5. Takes(c, g, a + b)
    BY <1>4, <2>4, LookTakes
  <2> QED
    BY <1>1, <1>2, <1>5, <2>5 DEF s
<1>7. CASE d.status # "none"
  <2>1. g = d
    BY <1>7
  <2>2. ~Intact(c, d)
    BY <1>4, <1>7 DEF Looks, Reads, Smooth
  <2> HIDE DEF g, a, b
  <2>3. Takes(c, d, a + b)
    BY <1>4, <2>2 DEF Takes, Looks, Reads
  <2> QED
    BY <1>1, <1>2, <1>5, <2>1, <2>3 DEF s
<1> QED
  BY <1>6, <1>7

(* What the steps before the final range take from the budget.             *)
ShortCost(r) ==
    (IF "TCC" \in r.steps THEN ShortUs(r) + Overhead["TCC"] ELSE 0)
        + (IF "DSS" \in r.steps THEN 2 * (ShortUs(r) + Overhead["DSS"])
           ELSE IF "MSRC" \in r.steps THEN ShortUs(r) + Overhead["MSRC"] ELSE 0)
PreCost(r) == IF "PRE" \in r.steps THEN PreUs(r) + Overhead["PRE"] ELSE 0

LEMMA CostTypes ==
    ASSUME NEW c, Timed(c)
    PROVE  ShortCost(c.regs) \in Nat /\ PreCost(c.regs) \in Int
<1>1. ShortUs(c.regs) \in Nat /\ PreUs(c.regs) \in Int
  BY ShortUsNat, TimeoutTypes
<1> QED
  BY <1>1, SMT DEF ShortCost, PreCost, Overhead

LEMMA TakeShortsIs ==
    ASSUME NEW c, Timed(c), c.status = "none", c.seen = c.regs.steps
    PROVE  Takes(c, IF c.seen \cap ShortSteps # {} THEN TakeShortSteps(c) ELSE c,
                 ShortCost(c.regs))
<1>1. CASE c.seen \cap ShortSteps # {}
  <2>1. ShortTime(c, ShortUs(c.regs)) = ShortCost(c.regs)
    BY DEF ShortTime, ShortCost
  <2> QED
    BY <1>1, <2>1, TakeShortIs
<1>2. CASE c.seen \cap ShortSteps = {}
  <2>1. "TCC" \notin c.seen /\ "DSS" \notin c.seen /\ "MSRC" \notin c.seen
    BY <1>2 DEF ShortSteps
  <2>2. ShortCost(c.regs) = 0
    BY <2>1 DEF ShortCost
  <2> QED
    BY <1>2, <2>2, NothingTaken
<1> QED
  BY <1>1, <1>2

LEMMA TakePreIs ==
    ASSUME NEW c, Timed(c), c.status = "none", c.seen = c.regs.steps
    PROVE  Takes(c, TakePreRange(c), PreCost(c.regs))
<1> DEFINE d == GetPreTimeout(c)
           u == d.micros + Overhead["PRE"]
           e == Take(d, u)
<1>1. TakePreRange(c) = IF "PRE" \in c.seen THEN e ELSE c
  BY DEF TakePreRange
<1>2. Looks(c, d) /\ Timed(d) /\ (Intact(c, d) => d.micros = PreUs(c.regs))
  BY GetPreLook, LooksTimed
<1> HIDE DEF d
<1>3. CASE "PRE" \in c.seen
  <2>1. PreCost(c.regs) = PreUs(c.regs) + Overhead["PRE"]
    BY <1>3 DEF PreCost
  <2>2. u \in Int
    BY <1>2, OverheadTypes DEF Timed
  <2>3. Intact(c, d) => u = PreCost(c.regs)
    BY <1>2, <2>1
  <2> HIDE DEF u
  <2>4. Takes(c, e, u)
    BY <1>2, <2>2, TakeIs, LookTakes
  <2>5. Intact(c, e) => Intact(c, d)
    BY <1>2, <2>2, TakeIs, FlowsChain DEF Looks, Reads, Takes
  <2> HIDE DEF e
  <2>6. Takes(c, e, PreCost(c.regs))
    BY <2>3, <2>4, <2>5 DEF Takes
  <2> QED
    BY <1>1, <1>3, <2>6
<1>4. CASE "PRE" \notin c.seen
  <2>1. PreCost(c.regs) = 0
    BY <1>4 DEF PreCost
  <2> QED
    BY <1>1, <1>4, <2>1, NothingTaken
<1> QED
  BY <1>3, <1>4

(* What is left of us microseconds for the final range itself.             *)
RestOf(r, us) ==
    us - StartEndOverhead - ShortCost(r) - PreCost(r) - Overhead["FINAL"]

(* A call that applies the budget us undisturbed: it programs the rest, or *)
(* changes nothing and says so.  A budget of less than the overheads wraps *)
(* and is never short.                                                     *)
Applies(c, d, us) ==
    /\ d.status = "none" /\ "FINAL" \in c.regs.steps
         => /\ d.regs = Programmed(c.regs, RestOf(c.regs, us))
            /\ d.dev.budget = us /\ d.dev.finalMicros = RestOf(c.regs, us)
            /\ d.dev.steps = c.dev.steps
    /\ d.status # "none" \/ "FINAL" \notin c.regs.steps => d.regs = c.regs /\ d.dev = c.dev
    /\ PreCost(c.regs) \in Nat
         /\ StartEndOverhead + ShortCost(c.regs) + PreCost(c.regs) < us => d.status = "none"
    /\ PreCost(c.regs) \in Nat /\ StartEndOverhead <= us /\ d.status = "none"
         => StartEndOverhead + ShortCost(c.regs) + PreCost(c.regs) <= us

LEMMA GiveRestIs ==
    ASSUME NEW c, Timed(c), c.status = "none", c.seen = c.regs.steps, NEW us \in Int,
           Intact(c, GiveRestToFinalRange(c, us))
    PROVE  LET d == GiveRestToFinalRange(c, us)
               n == c.left - Overhead["FINAL"] IN
           /\ d.status = "none"
           /\ "FINAL" \in c.regs.steps =>
                /\ d.regs = Programmed(c.regs, n)
                /\ d.dev.budget = us /\ d.dev.finalMicros = n /\ d.dev.steps = c.dev.steps
           /\ "FINAL" \notin c.regs.steps => d = c
<1> DEFINE n == c.left - Overhead["FINAL"]
           s == SetFinalTimeout(c, n)
           m == [s.dev EXCEPT !.budget = us]
           e == [s EXCEPT !.dev = m]
           d == GiveRestToFinalRange(c, us)
<1>1. d = IF "FINAL" \notin c.seen THEN c ELSE e
  BY DEF GiveRestToFinalRange
<1>2. n \in Int
  BY OverheadTypes DEF Timed
<1> HIDE DEF d
<1>3. CASE "FINAL" \notin c.seen
  BY <1>1, <1>3 DEF d
<1>4. CASE "FINAL" \in c.seen
  <2> HIDE DEF n
  <2>1. Timed(s)
    BY <1>2, SetFinalStep, ProgramsTimed
  <2>2. m \in Device
    BY <2>1, SensorTypes
  <2>3. e.fuse = s.fuse /\ e.status = s.status /\ e.regs = s.regs /\ e.dev = m
    BY <2>1, <2>2, AssignDev
  <2>4. Intact(c, s)
    BY <1>1, <1>4, <2>3 DEF Intact, d
  <2>5. /\ s.status = "none" /\ s.regs = Programmed(c.regs, n)
        /\ s.dev = [c.dev EXCEPT !.finalMicros = n]
    BY <1>2, <2>4, SetFinalLook
  <2>6. c.dev \in Device
    BY DEF Timed
  <2>7. m.budget = us /\ m.finalMicros = n /\ m.steps = c.dev.steps
    BY <2>5, <2>6 DEF Device
  <2> HIDE DEF e, m, s
  <2> QED
    BY <1>1, <1>4, <2>3, <2>5, <2>7 DEF d, n
<1> QED
  BY <1>3, <1>4

LEMMA SetBudgetIs ==
    ASSUME NEW c, Timed(c), c.status = "none", NEW us \in Int, Intact(c, SetBudget(c, us))
    PROVE  Applies(c, SetBudget(c, us), us)
<1> DEFINE n == us - StartEndOverhead
           b == [c EXCEPT !.left = n]
           d == GetSequenceStepEnables(b)
           e == IF d.status = "none"
                THEN IF d.seen \cap ShortSteps # {} THEN TakeShortSteps(d) ELSE d
                ELSE d
           f == IF e.status = "none" THEN TakePreRange(e) ELSE e
           g == IF f.status = "none" THEN GiveRestToFinalRange(f, us) ELSE f
           r == c.regs
           x == ShortCost(r)
           y == PreCost(r)
<1>1. SetBudget(c, us) = g
  BY DEF SetBudget, Then
<1>2. n \in Int /\ x \in Nat /\ y \in Int
  BY OverheadTypes, CostTypes
<1> HIDE DEF n
<1>3. Reads(c, b) /\ b.left = n /\ b.status = "none" /\ b.fuse = c.fuse /\ Timed(b)
  BY <1>2, AssignLocal, LocalFields DEF Reads, Flows
<1> HIDE DEF b
<1>4. Reads(c, d) /\ Timed(d) /\ d.left = n /\ (d.status = "none" => d.seen = r.steps)
  <2>1. Reads(b, d) /\ Timed(d) /\ d.left = b.left /\ (d.status = "none" => d.seen = b.regs.steps)
    BY <1>3, GetEnablesLook
  <2>2. Reads(c, d) /\ b.regs = c.regs
    BY <1>3, <2>1, ReadsChain DEF Reads
  <2> QED
    BY <1>3, <2>1, <2>2
<1> HIDE DEF d
<1>5. Programs(d, e) /\ Timed(e)
  BY <1>4, TakeShortStep, ProgramsTimed
<1>6. d.status = "none" => Takes(d, e, x)
  <2> SUFFICES ASSUME d.status = "none" PROVE Takes(d, e, x)
    OBVIOUS
  <2>1. d.seen = d.regs.steps /\ d.regs = r
    BY <1>4 DEF Reads
  <2> QED
    BY <1>4, <2>1, TakeShortsIs
<1> HIDE DEF e
<1>7. Programs(e, f) /\ Timed(f)
  BY <1>5, TakePreStep, ProgramsTimed
<1>8. e.status = "none" /\ e.seen = e.regs.steps /\ e.regs = r => Takes(e, f, y)
  BY <1>5, TakePreIs
<1>9. e.status # "none" => f = e
  OBVIOUS
<1> HIDE DEF f
<1>10. Programs(f, g)
  BY <1>7, GiveRestStep, ProgramsTimed
<1>11. Intact(c, d) /\ Intact(d, e) /\ Intact(e, f) /\ Intact(f, g)
  <2>1. Intact(c, g)
    BY <1>1
  <2> HIDE DEF g
  <2>2. Programs(c, d)
    BY <1>4, ReadsPrograms
  <2>3. Programs(c, e) /\ (Intact(c, e) => Intact(c, d) /\ Intact(d, e))
    BY <1>4, <1>5, <2>2, ProgramsChain
  <2>4. Programs(c, f) /\ (Intact(c, f) => Intact(c, e) /\ Intact(e, f))
    BY <1>7, <2>3, ProgramsChain
  <2>5. Intact(c, g) => Intact(c, f) /\ Intact(f, g)
    BY <1>10, <2>4, ProgramsChain
  <2> QED
    BY <2>1, <2>3, <2>4, <2>5
<1>12. d.status = "none" /\ d.regs = r /\ d.dev = c.dev /\ d.seen = r.steps
  BY <1>4, <1>11 DEF Reads, Smooth
<1>13. /\ e.regs = r /\ e.dev = c.dev /\ e.seen = r.steps
       /\ e.status = "none" => e.left = n - x
       /\ x < n => e.status = "none"
       /\ e.status = "none" /\ n \in Nat => x <= n
  BY <1>2, <1>4, <1>6, <1>11, <1>12 DEF Takes
<1>14. /\ StartEndOverhead + x + y < us => x + y < n
       /\ StartEndOverhead <= us => n \in Nat
       /\ x + y <= n => StartEndOverhead + x + y <= us
  BY <1>2, OverheadTypes DEF n
<1>15. RestOf(r, us) = n - x - y - Overhead["FINAL"]
  BY DEF RestOf, n
<1> HIDE DEF r, x, y
<1>16. CASE e.status # "none"
  <2>1. g = e
    BY <1>9, <1>16
  <2>2. ~(y \in Nat /\ StartEndOverhead + x + y < us)
    BY <1>2, <1>13, <1>14, <1>16
  <2> QED
    BY <1>1, <1>13, <1>16, <2>1, <2>2 DEF Applies, r, x, y
<1>17. CASE e.status = "none"
  <2>1. Takes(e, f, y)
    BY <1>8, <1>13, <1>17
  <2>2. /\ f.regs = r /\ f.dev = c.dev /\ f.seen = r.steps
        /\ f.status = "none" => f.left = n - x - y
        /\ y \in Nat /\ y < n - x => f.status = "none"
        /\ f.status = "none" /\ y \in Nat /\ n - x \in Nat => y <= n - x
    BY <1>11, <1>13, <1>17, <2>1 DEF Takes
  <2>3. CASE f.status # "none"
    <3>1. g = f
      BY <2>3
    <3>2. ~(y \in Nat /\ StartEndOverhead + x + y < us)
      BY <1>2, <1>14, <2>2, <2>3
    <3> QED
      BY <1>1, <2>2, <2>3, <3>1, <3>2 DEF Applies, r, x, y
  <2>4. CASE f.status = "none"
    <3>1. g = GiveRestToFinalRange(f, us)
      BY <2>4
    <3>2. f.left - Overhead["FINAL"] = RestOf(r, us)
      BY <1>15, <2>2, <2>4
    <3> HIDE DEF g
    <3>3. /\ g.status = "none"
          /\ "FINAL" \in r.steps =>
                /\ g.regs = Programmed(r, RestOf(r, us))
                /\ g.dev.budget = us /\ g.dev.finalMicros = RestOf(r, us)
                /\ g.dev.steps = c.dev.steps
          /\ "FINAL" \notin r.steps => g = f
      BY <1>7, <1>11, <2>2, <2>4, <3>1, <3>2, GiveRestIs
    <3>4. y \in Nat /\ StartEndOverhead <= us => StartEndOverhead + x + y <= us
      BY <1>2, <1>13, <1>14, <1>17, <2>2, <2>4
    <3> QED
      BY <1>1, <2>2, <3>3, <3>4 DEF Applies, r, x, y
  <2> QED
    BY <2>3, <2>4
<1> QED
  BY <1>16, <1>17

-----------------------------------------------------------------------------
(* What FitsBudget and CachedTimeoutIsCurrent say, of a register file r    *)
(* and a budget of us microseconds.                                        *)
PreTicks(r) == IF "PRE" \in r.steps THEN DecodeTimeout(r.pre) ELSE 0
FinalTicks(r) == DecodeTimeout(r.final) - PreTicks(r)
ShortMicrosIn(r) ==
    (IF "TCC" \in r.steps THEN ShortMicrosOf(r) + Overhead["TCC"] ELSE 0)
        + (IF "DSS" \in r.steps THEN 2 * (ShortMicrosOf(r) + Overhead["DSS"])
           ELSE IF "MSRC" \in r.steps THEN ShortMicrosOf(r) + Overhead["MSRC"] ELSE 0)
PreMicrosIn(r) ==
    IF "PRE" \in r.steps
    THEN Micros(DecodeTimeout(r.pre), DecodeVcselPeriod(r.prePeriod)) + Overhead["PRE"] ELSE 0
RoomOf(r, us) == us - StartEndOverhead - ShortMicrosIn(r) - PreMicrosIn(r)
Roomy(r, us) == RoomOf(r, us) > Overhead["FINAL"] + Slack
FinalMicrosOf(r) == Micros(FinalTicks(r), DecodeVcselPeriod(r.finalPeriod))
QuantumOf(r) == Micros(2^(r.final \div 256), DecodeVcselPeriod(r.finalPeriod))
Fitting(r, us) ==
    Roomy(r, us) /\ FinalTicks(r) >= 0
        /\ Overhead["FINAL"] + FinalMicrosOf(r) <= RoomOf(r, us) + Slack

LEMMA DecodeNat ==
    ASSUME NEW e \in Encoded
    PROVE  DecodeTimeout(e) \in Nat /\ 0 < DecodeTimeout(e)
<1> DEFINE k == e \div 256
           q == e % 256
           p == 2^k
<1>1. k \in 0 .. 24 /\ q \in Nat
  BY Uint16Is, SMT DEF Encoded
<1>2. DecodeTimeout(e) = q * p + 1
  BY DEF DecodeTimeout
<1> HIDE DEF k, q
<1>3. p \in Nat
  BY <1>1, PowersPositive
<1> HIDE DEF p
<1>4. q * p \in Nat
  BY <1>1, <1>3, SMT
<1> QED
  BY <1>2, <1>4

LEMMA MicrosNat == \A n \in Nat, p \in Pclks : Micros(n, p) \in Nat
  BY MicrosIs DEF Rounds

(* The code reads the pre-range timeout of r without cutting it.           *)
PreMicrosOf(r) == Micros(DecodeTimeout(r.pre), DecodeVcselPeriod(r.prePeriod))
Exact(r) == "PRE" \in r.steps => PreMicrosOf(r) <= WidestBudget

LEMMA RoomIs ==
    ASSUME NEW r \in Sensors, NEW us \in Int
    PROVE  /\ ShortMicrosIn(r) \in Nat /\ PreMicrosIn(r) \in Nat /\ RoomOf(r, us) \in Int
           /\ RoomOf(r, us) = us - 2870 - ShortMicrosIn(r) - PreMicrosIn(r)
           /\ us <= WidestBudget /\ RoomOf(r, us) >= 0 => Exact(r)
<1> DEFINE a == ShortMicrosIn(r)
           b == PreMicrosIn(r)
           m == PreMicrosOf(r)
<1>1. ShortMicrosOf(r) \in Nat /\ m \in Nat
  BY ShortUsIs, SensorIs, DecodeNat, MicrosNat DEF PreMicrosOf
<1>2. a \in Nat
  BY <1>1, SMT DEF ShortMicrosIn, Overhead
<1>3. b = IF "PRE" \in r.steps THEN m + 660 ELSE 0
  BY DEF PreMicrosIn, PreMicrosOf, Overhead
<1>4. RoomOf(r, us) = us - 2870 - a - b
  BY DEF RoomOf, StartEndOverhead
<1> HIDE DEF a, b, m
<1>5. b \in Nat
  BY <1>1, <1>3, SMT
<1> DEFINE x == us - 2870 - a - b
<1>6. x \in Int /\ (us <= WidestBudget /\ x >= 0 /\ "PRE" \in r.steps => m <= WidestBudget)
  BY <1>1, <1>2, <1>3, <1>5, SMT DEF WidestBudget
<1> HIDE DEF x
<1> QED
  BY <1>2, <1>4, <1>5, <1>6 DEF a, b, m, x, Exact

(* Its conversions cost at most 4 microseconds of the room.                *)
LEMMA CostsExact ==
    ASSUME NEW r \in Sensors, Exact(r)
    PROVE  /\ ShortCost(r) \in Nat /\ ShortMicrosIn(r) <= ShortCost(r)
           /\ ShortCost(r) <= ShortMicrosIn(r) + 3
           /\ PreCost(r) \in Nat /\ PreMicrosIn(r) <= PreCost(r)
           /\ PreCost(r) <= PreMicrosIn(r) + 1
           /\ "PRE" \in r.steps => PreUs(r) \in {PreMicrosOf(r), PreMicrosOf(r) + 1}
           /\ PreClocks(r) = PreTicks(r) /\ PreTicks(r) \in Nat /\ PreTicks(r) < 65536
<1> DEFINE s == ShortMicrosOf(r)
           a == ShortMicrosIn(r)
           d == DecodeTimeout(r.pre)
           p == DecodeVcselPeriod(r.prePeriod)
           m == PreMicrosOf(r)
           b == PreMicrosIn(r)
<1>1. s \in Nat /\ ShortUs(r) \in {s, s + 1}
  BY ShortUsIs
<1>2. a = (IF "TCC" \in r.steps THEN s + Overhead["TCC"] ELSE 0)
            + (IF "DSS" \in r.steps THEN 2 * (s + Overhead["DSS"])
               ELSE IF "MSRC" \in r.steps THEN s + Overhead["MSRC"] ELSE 0)
  BY DEF ShortMicrosIn
<1>3. b = IF "PRE" \in r.steps THEN m + Overhead["PRE"] ELSE 0
  BY DEF PreMicrosIn, PreMicrosOf
<1>4. d \in Nat /\ p \in Pclks /\ m \in Nat /\ m = Micros(d, p)
  BY SensorIs, DecodeNat, MicrosNat DEF PreMicrosOf
<1> HIDE DEF s, a, b, m
<1>5. a \in Nat /\ ShortCost(r) \in Nat /\ a <= ShortCost(r) /\ ShortCost(r) <= a + 3
  <2> DEFINE u == ShortUs(r)
  <2>1. ShortCost(r) = (IF "TCC" \in r.steps THEN u + Overhead["TCC"] ELSE 0)
            + (IF "DSS" \in r.steps THEN 2 * (u + Overhead["DSS"])
               ELSE IF "MSRC" \in r.steps THEN u + Overhead["MSRC"] ELSE 0)
    BY DEF ShortCost
  <2>2. u \in {s, s + 1}
    BY <1>1
  <2> HIDE DEF u
  <2> QED
    BY <1>1, <1>2, <2>1, <2>2, SMT DEF Overhead
<1>6. CASE "PRE" \in r.steps
  <2>1. b = m + 660 /\ b \in Nat
    BY <1>3, <1>4, <1>6, SMT DEF Overhead
  <2>2. m <= WidestBudget
    BY <1>6 DEF Exact, m
  <2>3. d < 65536 /\ CalcTimeoutUs(d, p) \in {m, m + 1}
    <3> HIDE DEF d, p
    <3> QED
      BY <1>4, <2>2, UsIs
  <2>4. U16(d) = d
    <3> HIDE DEF d
    <3> QED
      BY <1>4, <2>3, SMT DEF U16
  <2>5. PreUs(r) = CalcTimeoutUs(d, p) /\ PreCost(r) = PreUs(r) + 660
    BY <1>6, <2>4 DEF PreCost, PreUs, Overhead
  <2>6. PreClocks(r) = d /\ PreTicks(r) = d
    BY <1>6, <2>4 DEF PreClocks, PreTicks
  <2> HIDE DEF d, p
  <2>7. PreCost(r) \in Nat /\ b <= PreCost(r) /\ PreCost(r) <= b + 1
    BY <1>4, <2>1, <2>3, <2>5, SMT
  <2> QED
    BY <1>4, <1>5, <2>3, <2>5, <2>6, <2>7 DEF a, b, m
<1>7. CASE "PRE" \notin r.steps
  <2>1. b = 0 /\ PreCost(r) = 0 /\ PreClocks(r) = 0 /\ PreTicks(r) = 0
    BY <1>3, <1>7 DEF PreCost, PreClocks, PreTicks
  <2>2. PreCost(r) \in Nat /\ b <= PreCost(r) /\ PreCost(r) <= b + 1
        /\ PreTicks(r) \in Nat /\ PreTicks(r) < 65536
    BY <2>1, SMT
  <2> QED
    BY <1>5, <1>7, <2>1, <2>2 DEF a, b
<1> QED
  BY <1>6, <1>7

LEMMA CostsAre ==
    ASSUME NEW r \in Sensors, NEW us \in Int, us <= WidestBudget, RoomOf(r, us) >= 0
    PROVE  /\ RoomOf(r, us) \in Int /\ RestOf(r, us) \in Int
           /\ RoomOf(r, us) - Overhead["FINAL"] - 4 <= RestOf(r, us)
           /\ RestOf(r, us) <= RoomOf(r, us) - Overhead["FINAL"]
           /\ PreClocks(r) = PreTicks(r) /\ PreTicks(r) \in Nat /\ PreTicks(r) < 65536
           /\ PreCost(r) \in Nat /\ ShortCost(r) \in Nat
<1> DEFINE a == ShortMicrosIn(r)
           b == PreMicrosIn(r)
           sc == ShortCost(r)
           pc == PreCost(r)
           room == RoomOf(r, us)
           rest == RestOf(r, us)
<1>1. a \in Nat /\ b \in Nat /\ room = us - 2870 - a - b /\ Exact(r)
  BY RoomIs
<1>2. /\ sc \in Nat /\ a <= sc /\ sc <= a + 3 /\ pc \in Nat /\ b <= pc /\ pc <= b + 1
      /\ PreClocks(r) = PreTicks(r) /\ PreTicks(r) \in Nat /\ PreTicks(r) < 65536
  BY <1>1, CostsExact
<1>3. rest = us - 2870 - sc - pc - 550 /\ Overhead["FINAL"] = 550
  BY DEF RestOf, StartEndOverhead, Overhead
<1> HIDE DEF a, b, sc, pc, room, rest
<1>4. room \in Int /\ rest \in Int /\ room - 550 - 4 <= rest /\ rest <= room - 550
  BY <1>1, <1>2, <1>3, SMT
<1> QED
  BY <1>2, <1>3, <1>4 DEF sc, pc, room, rest

(* What the rest of the budget becomes in the register of the final range: *)
(* n macro periods asked for, w programmed, of m nanoseconds each.         *)
LEMMA RestProgrammed ==
    ASSUME NEW r \in Sensors, NEW us \in Int, us <= WidestBudget, Roomy(r, us)
    PROVE  LET t == Programmed(r, RestOf(r, us))
               n == CalcTimeoutMclks(RestOf(r, us), DecodeVcselPeriod(r.finalPeriod))
           IN  /\ RestOf(r, us) \in Nat /\ RestOf(r, us) <= WidestBudget
               /\ n \in Nat /\ PreTicks(r) + n \in Clocks /\ PreTicks(r) + n # 0
               /\ t = [r EXCEPT !.final = EncodeTimeout(PreTicks(r) + n)]
               /\ t \in Sensors /\ PreTicks(t) = PreTicks(r)
               /\ RoomOf(t, us) = RoomOf(r, us) /\ ShortCost(t) = ShortCost(r)
               /\ PreCost(t) = PreCost(r) /\ t.steps = r.steps
               /\ FinalTicks(t) \in Nat /\ FinalTicks(t) <= n
               /\ n < FinalTicks(t) + 2^(t.final \div 256) /\ t.final \div 256 \in 0 .. 24
<1> DEFINE rest == RestOf(r, us)
           room == RoomOf(r, us)
           p == DecodeVcselPeriod(r.finalPeriod)
           m == MacroPeriodNs(p)
           h == m \div 2
           n == CalcTimeoutMclks(rest, p)
           q == PreTicks(r)
           c == q + n
           e == EncodeTimeout(c)
           t == [r EXCEPT !.final = e]
<1>1. room > 600
  BY SMT DEF Roomy, Overhead, Slack
<1>2. p \in Pclks
  BY SensorIs
<1>3. /\ room \in Int /\ rest \in Int /\ room - 554 <= rest /\ rest <= room - 550
      /\ PreClocks(r) = q /\ q \in Nat /\ q < 65536
  <2>1. Overhead["FINAL"] = 550
    BY DEF Overhead
  <2>2. RoomOf(r, us) \in Int
    BY RoomIs
  <2>3. RoomOf(r, us) >= 0
    BY <1>1, <2>2
  <2>4. /\ RoomOf(r, us) - Overhead["FINAL"] - 4 <= RestOf(r, us)
        /\ RestOf(r, us) <= RoomOf(r, us) - Overhead["FINAL"]
        /\ PreClocks(r) = q /\ q \in Nat /\ q < 65536 /\ rest \in Int
    BY <2>3, CostsAre
  <2> HIDE DEF rest, room, q
  <2>5. room - 550 - 4 <= rest /\ rest <= room - 550 /\ room \in Int
    BY <2>1, <2>2, <2>4 DEF rest, room
  <2> QED
    BY <2>4, <2>5
<1>4. room <= us
  <2>1. ShortMicrosOf(r) \in Nat
    BY ShortUsIs
  <2>2. Micros(DecodeTimeout(r.pre), DecodeVcselPeriod(r.prePeriod)) \in Nat
    BY SensorIs, DecodeNat, MicrosNat
  <2>3. ShortMicrosIn(r) \in Nat /\ PreMicrosIn(r) \in Nat /\ StartEndOverhead \in Nat
    BY <2>1, <2>2, SMT DEF ShortMicrosIn, PreMicrosIn, Overhead, StartEndOverhead
  <2> QED
    BY <2>3, SMT DEF RoomOf
<1>5. Programmed(r, rest) = [r EXCEPT !.final = EncodeTimeout(PreClocks(r) + n)]
  BY DEF Programmed
<1>6. t \in Sensors /\ t.final = e /\ t.steps = r.steps
      /\ PreTicks(t) = PreTicks(r) /\ RoomOf(t, us) = RoomOf(r, us)
      /\ ShortCost(t) = ShortCost(r) /\ PreCost(t) = PreCost(r) /\ e \in Encoded
  <2>1. c \in Clocks
    <3>1. n \in Int /\ 0 <= n /\ n <= 200000
      <4> HIDE DEF rest
      <4> QED
        BY <1>2, <1>3, CalcMclksType
    <3> HIDE DEF n, q
    <3> QED
      BY <1>3, <3>1, SMT DEF Clocks
  <2>2. e \in Encoded
    BY <2>1, EncodeType
  <2> HIDE DEF e
  <2>3. t \in Sensors /\ t.final = e
    BY <2>2 DEF Sensors
  <2>4. /\ t.steps = r.steps /\ t.msrc = r.msrc /\ t.pre = r.pre /\ t.prePeriod = r.prePeriod
        /\ t.finalPeriod = r.finalPeriod
    BY DEF Sensors
  <2> HIDE DEF t
  <2>5. ShortUs(t) = ShortUs(r) /\ ShortMicrosOf(t) = ShortMicrosOf(r) /\ PreUs(t) = PreUs(r)
    BY <2>4 DEF ShortUs, ShortMicrosOf, PreUs
  <2>6. PreTicks(t) = PreTicks(r) /\ ShortMicrosIn(t) = ShortMicrosIn(r)
        /\ PreMicrosIn(t) = PreMicrosIn(r)
        /\ ShortCost(t) = ShortCost(r) /\ PreCost(t) = PreCost(r)
    BY <2>4, <2>5 DEF PreTicks, ShortMicrosIn, PreMicrosIn, ShortCost, PreCost
  <2> QED
    BY <2>2, <2>3, <2>4, <2>6 DEF RoomOf
<1>7. r.pre \in Encoded /\ (q = 0 \/ q = DecodeTimeout(r.pre))
  BY SensorIs DEF PreTicks
<1>8. Programmed(r, rest) = t
  BY <1>3, <1>5
<1> HIDE DEF t
<1>9. rest \in Nat /\ rest <= WidestBudget /\ 47 <= rest
  <2> HIDE DEF rest, room
  <2> QED
    BY <1>1, <1>3, <1>4, SMT DEF WidestBudget
<1>10. m \in Nat /\ 30505 <= m /\ m <= 68637
  BY <1>2, PeriodIs
<1>11. Rounds(n, 1000 * rest + h, m)
  <2> HIDE DEF rest
  <2> QED
    BY <1>2, <1>9, MclksIs
<1>12. n \in Int /\ 0 <= n /\ n <= 200000
  <2> HIDE DEF rest
  <2> QED
    BY <1>2, <1>3, CalcMclksType
<1>13. n # 0
  <2>1. 1000 * rest + h < m * n + m
    BY <1>11 DEF Rounds
  <2> HIDE DEF n, rest, m
  <2> SUFFICES ASSUME n = 0 PROVE FALSE
    OBVIOUS
  <2>2. m * 0 = 0
    BY <1>10, SMT
  <2>3. 1000 * rest + h < m
    BY <1>10, <2>1, <2>2, SMT
  <2> QED
    BY <1>9, <1>10, <2>3, SMT
<1> HIDE DEF n
<1>14. n \in Nat /\ c \in Clocks /\ c # 0
  <2> HIDE DEF q
  <2> QED
    BY <1>3, <1>12, <1>13, SMT DEF Clocks
<1> DEFINE d == DecodeTimeout(e)
           k == e \div 256
           g == 2^k
<1>15. d \in Nat /\ d <= c /\ c < d + g
  <2> HIDE DEF c
  <2> QED
    BY <1>14, DecodeIs
<1>16. q <= d
  <2>1. CASE q = 0
    <3> HIDE DEF d, q
    <3> QED
      BY <1>15, <2>1
  <2>2. CASE q = DecodeTimeout(r.pre)
    <3>1. DecodeTimeout(r.pre) <= c
      <4> HIDE DEF q
      <4> QED
        BY <1>3, <1>14, <2>2
    <3> HIDE DEF c, q
    <3> QED
      BY <1>7, <1>14, <2>2, <3>1, DecodeKeeps
  <2> QED
    BY <1>7, <2>1, <2>2
<1>17. k \in 0 .. 24 /\ g \in Nat /\ g > 0
  <2>1. k \in 0 .. 24
    BY <1>6, Uint16Is, SMT DEF Encoded
  <2> QED
    BY <2>1, PowersPositive
<1>18. FinalTicks(t) = d - q
  BY <1>6 DEF FinalTicks
<1>19. d - q \in Nat /\ d - q <= n /\ n < (d - q) + g
  <2> HIDE DEF d, q, g
  <2> QED
    BY <1>3, <1>14, <1>15, <1>16, <1>17, SMT
<1>20. t.final \div 256 = k
  BY <1>6
<1> HIDE DEF d, k
<1> QED
  BY <1>6, <1>8, <1>9, <1>14, <1>17, <1>18, <1>19, <1>20 DEF n, t

LEMMA ProductGrows ==
    ASSUME NEW m \in Nat, NEW a \in Nat, NEW b \in Nat, a <= b
    PROVE  m * a \in Nat /\ m * b \in Nat /\ m * a <= m * b
<1>1. PICK i \in Nat : b = a + i
  <2>1. b - a \in Nat /\ b = a + (b - a)
    BY SMT
  <2> QED
    BY <2>1
<1>2. m * (a + i) = m * a + m * i /\ m * a \in Nat /\ m * i \in Nat
  BY SMT
<1> DEFINE ma == m * a
           mi == m * i
<1>3. m * b = ma + mi /\ ma \in Nat /\ mi \in Nat
  BY <1>1, <1>2
<1> HIDE DEF ma, mi
<1>4. ma + mi \in Nat /\ ma <= ma + mi
  BY <1>3, SMT
<1> QED
  BY <1>3, <1>4 DEF ma

(* The sequence then fits into the budget, and the timeout the structure   *)
(* remembers is the one programmed but for the last bit of the register.   *)
LEMMA RestFits ==
    ASSUME NEW r \in Sensors, NEW us \in Int, us <= WidestBudget, Roomy(r, us)
    PROVE  LET t == Programmed(r, RestOf(r, us)) IN
           /\ Fitting(t, us)
           /\ RestOf(r, us) - FinalMicrosOf(t) \in -Slack .. Slack + QuantumOf(t)
<1> DEFINE rest == RestOf(r, us)
           room == RoomOf(r, us)
           p == DecodeVcselPeriod(r.finalPeriod)
           m == MacroPeriodNs(p)
           h == m \div 2
           n == CalcTimeoutMclks(rest, p)
           t == Programmed(r, rest)
           w == FinalTicks(t)
           g == 2^(t.final \div 256)
           s == Micros(w, p)
           u == Micros(g, p)
<1>1. /\ rest \in Nat /\ rest <= WidestBudget /\ n \in Nat
      /\ t = [r EXCEPT !.final = EncodeTimeout(PreTicks(r) + n)]
      /\ RoomOf(t, us) = RoomOf(r, us) /\ w \in Nat /\ w <= n /\ n < w + g
      /\ t.final \div 256 \in 0 .. 24
  BY RestProgrammed
<1>2. p \in Pclks /\ t.finalPeriod = r.finalPeriod
  <2>1. t.finalPeriod = r.finalPeriod
    BY <1>1 DEF Sensors
  <2> QED
    BY <2>1, SensorIs
<1>3. g \in Nat
  BY <1>1, PowersPositive
<1>4. room \in Int /\ rest <= room - 550
  <2>1. RoomOf(r, us) \in Int /\ RoomOf(r, us) >= 0
    <3>2. RoomOf(r, us) \in Int
      BY RoomIs
    <3>3. RoomOf(r, us) > 600
      BY SMT DEF Roomy, Overhead, Slack
    <3> QED
      BY <3>2, <3>3
  <2>2. RestOf(r, us) <= RoomOf(r, us) - Overhead["FINAL"]
    BY <2>1, CostsAre
  <2> QED
    BY <2>1, <2>2 DEF Overhead
<1>5. FinalMicrosOf(t) = s /\ QuantumOf(t) = u
  BY <1>2 DEF FinalMicrosOf, QuantumOf
<1>6. RoomOf(t, us) = room
  BY <1>1
<1> HIDE DEF t
<1>7. m \in Nat /\ 30505 <= m /\ m <= 68637
  BY <1>2, PeriodIs
<1>8. Rounds(n, 1000 * rest + h, m)
  <2> HIDE DEF rest
  <2> QED
    BY <1>1, <1>2, MclksIs
<1>9. Rounds(s, w * m, 1000) /\ Rounds(u, g * m, 1000)
  <2> HIDE DEF w, g
  <2> QED
    BY <1>1, <1>2, <1>3, MicrosIs
<1> HIDE DEF rest, n, w, g, s, u, m
<1> DEFINE mn == m * n
           mw == m * w
           mg == m * g
<1>10. m * n \in Nat /\ m * w \in Nat /\ m * w <= m * n
  BY <1>1, <1>7, ProductGrows
<1>11. m * n + m <= m * w + m * g /\ m * g \in Nat
  <2>1. n + 1 \in Nat /\ w + g \in Nat /\ n + 1 <= w + g
    BY <1>1, <1>3, SMT
  <2>2. m * (n + 1) <= m * (w + g)
    BY <1>7, <2>1, ProductGrows
  <2>3. m * (n + 1) = m * n + m /\ m * (w + g) = m * w + m * g /\ m * g \in Nat
    BY <1>1, <1>3, <1>7, SMT
  <2> QED
    BY <2>2, <2>3
<1>12. w * m = mw /\ g * m = mg
  BY <1>1, <1>3, <1>7, SMT
<1>13. /\ mn \in Nat /\ mw \in Nat /\ mg \in Nat /\ mw <= mn /\ mn + m <= mw + mg
       /\ mn <= 1000 * rest + h /\ 1000 * rest + h < mn + m
       /\ s \in Nat /\ 1000 * s <= mw /\ mw < 1000 * s + 1000
       /\ u \in Nat /\ 1000 * u <= mg /\ mg < 1000 * u + 1000
  BY <1>8, <1>9, <1>10, <1>11, <1>12 DEF Rounds
<1> HIDE DEF mn, mw, mg
<1>14. h \in Nat /\ h <= 34318
  BY <1>7, SMT
<1> HIDE DEF h
<1>15. s <= rest + 34
  BY <1>1, <1>13, <1>14, SMT
<1>16. rest <= s + u + 2
  BY <1>1, <1>7, <1>13, <1>14, SMT
<1> HIDE DEF room
<1>17. room > 600
  BY SMT DEF Roomy, Overhead, Slack, room
<1>18. Fitting(t, us)
  <2>1. Overhead["FINAL"] = 550 /\ Slack = 50
    BY SMT DEF Overhead, Slack
  <2>2. w >= 0
    BY <1>1
  <2>3. 550 + s <= room + 50
    BY <1>1, <1>4, <1>13, <1>15, SMT
  <2>4. room > 550 + 50
    BY <1>4, <1>17, SMT
  <2> QED
    BY <1>5, <1>6, <2>1, <2>2, <2>3, <2>4 DEF Fitting, Roomy, w
<1>19. rest - s \in -Slack .. Slack + u
  BY <1>1, <1>13, <1>15, <1>16, SMT DEF Slack
<1> QED
  BY <1>5, <1>18, <1>19 DEF t, rest
-----------------------------------------------------------------------------
(* The properties of the timing, in the terms above.                       *)
Matches ==
    /\ RoomLeft = RoomOf(regs, dev.budget)
    /\ HasRoom <=> Roomy(regs, dev.budget)
    /\ FitsBudget <=> ("FINAL" \in regs.steps => Fitting(regs, dev.budget))
    /\ FinalMicros = FinalMicrosOf(regs) /\ Quantum = QuantumOf(regs)
    /\ IsBounded => StartEndOverhead <= dev.budget /\ dev.budget <= WidestBudget

LEMMA TermsMatch == TimingInv => Matches
<1> SUFFICES ASSUME TimingInv PROVE Matches
  OBVIOUS
<1> DEFINE s == ShortMicrosOf(regs)
           q == Micros(DecodeTimeout(regs.pre), DecodeVcselPeriod(regs.prePeriod))
           us == dev.budget
           room == RoomOf(regs, us)
           fixed == FixedMicros
<1>1. regs \in Sensors /\ us \in Int
  BY DEF TimingInv, Device
<1>2. s \in Nat /\ q \in Nat
  BY <1>1, ShortUsIs, SensorIs, DecodeNat, MicrosNat
<1>3. room = us - StartEndOverhead
                - ((IF "TCC" \in regs.steps THEN s + Overhead["TCC"] ELSE 0)
                     + (IF "DSS" \in regs.steps THEN 2 * (s + Overhead["DSS"])
                        ELSE IF "MSRC" \in regs.steps THEN s + Overhead["MSRC"] ELSE 0))
                - (IF "PRE" \in regs.steps THEN q + Overhead["PRE"] ELSE 0)
  BY DEF RoomOf, ShortMicrosIn, PreMicrosIn
<1>4. fixed = StartEndOverhead
                + (IF "TCC" \in regs.steps THEN s + Overhead["TCC"] ELSE 0)
                + (IF "DSS" \in regs.steps THEN 2 * (s + Overhead["DSS"]) ELSE 0)
                + (IF "DSS" \in regs.steps THEN 0
                   ELSE IF "MSRC" \in regs.steps THEN s + Overhead["MSRC"] ELSE 0)
                + (IF "PRE" \in regs.steps THEN q + Overhead["PRE"] ELSE 0)
  BY DEF FixedMicros, If, ShortMicros, PrePclks, ShortMicrosOf
<1> HIDE DEF s, q, us, room, fixed
<1>5. us - fixed = room
  BY <1>1, <1>2, <1>3, <1>4, SMT DEF StartEndOverhead, Overhead
<1>6. RoomLeft = room
  BY <1>5 DEF RoomLeft, fixed, us
<1>7. FinalMclks = FinalTicks(regs)
  BY DEF FinalMclks, FinalTicks, PreTicks, If
<1>8. FinalMicros = FinalMicrosOf(regs) /\ Quantum = QuantumOf(regs)
  BY <1>7 DEF FinalMicros, FinalMicrosOf, Quantum, QuantumOf
<1>9. HasRoom <=> Roomy(regs, us)
  BY <1>6 DEF HasRoom, Roomy, room
<1>10. FitsBudget <=> ("FINAL" \in regs.steps => Fitting(regs, us))
  BY <1>6, <1>7, <1>8, <1>9 DEF FitsBudget, Fitting, room
<1>11. IsBounded => StartEndOverhead <= us /\ us <= WidestBudget
  <2>1. StartEndOverhead \in Int /\ WidestBudget \in Int
    BY SMT DEF StartEndOverhead, WidestBudget
  <2> QED
    BY <1>1, <2>1 DEF IsBounded, us
<1> QED
  BY <1>6, <1>8, <1>9, <1>10, <1>11 DEF Matches, room, us

(* Programming the final range leaves the room for it as it was.           *)
LEMMA RoomKept ==
    ASSUME NEW r \in Sensors, NEW x, NEW us
    PROVE  LET t == Programmed(r, x) IN
           /\ t.steps = r.steps /\ RoomOf(t, us) = RoomOf(r, us)
           /\ Roomy(t, us) <=> Roomy(r, us)
<1> DEFINE v == EncodeTimeout(PreClocks(r) + CalcTimeoutMclks(x, DecodeVcselPeriod(r.finalPeriod)))
           t == [r EXCEPT !.final = v]
<1>1. Programmed(r, x) = t
  BY DEF Programmed
<1> HIDE DEF v
<1>2. /\ t.steps = r.steps /\ t.msrc = r.msrc /\ t.pre = r.pre
      /\ t.prePeriod = r.prePeriod
  BY DEF Sensors
<1> HIDE DEF t
<1>3. RoomOf(t, us) = RoomOf(r, us)
  BY <1>2 DEF RoomOf, ShortMicrosIn, ShortMicrosOf, PreMicrosIn
<1> QED
  BY <1>1, <1>2, <1>3 DEF Roomy

(* The final range register t was written for what the budget in the       *)
(* device structure m leaves, and m remembers that timeout.                *)
Given(t, m) ==
    "FINAL" \in t.steps =>
        \E r \in Sensors : /\ t = Programmed(r, RestOf(r, m.budget))
                           /\ m.finalMicros = RestOf(r, m.budget)

LEMMA GivenFits ==
    ASSUME NEW t, NEW m \in Device, Given(t, m), "FINAL" \in t.steps,
           m.budget <= WidestBudget, Roomy(t, m.budget)
    PROVE  /\ Fitting(t, m.budget)
           /\ m.finalMicros - FinalMicrosOf(t) \in -Slack .. Slack + QuantumOf(t)
<1>1. PICK r \in Sensors : /\ t = Programmed(r, RestOf(r, m.budget))
                           /\ m.finalMicros = RestOf(r, m.budget)
  BY DEF Given
<1>2. m.budget \in Int /\ Roomy(r, m.budget)
  BY <1>1, RoomKept DEF Device
<1> QED
  BY <1>1, <1>2, RestFits

(* The end d of a part of a call that began at c: a success that nothing   *)
(* disturbed has given the final range the rest of the budget.             *)
Fine(c, d) == Intact(c, d) /\ d.status = "none" => Given(d.regs, d.dev)

LEMMA FineAfter ==
    ASSUME NEW c, NEW d, NEW e, Timed(c), Flows(c, d), Flows(d, e), Fine(d, e)
    PROVE  Fine(c, e)
  BY FlowsChain DEF Fine

LEMMA BudgetFine ==
    ASSUME NEW c, Timed(c), c.status = "none", NEW us \in Int
    PROVE  Fine(c, SetBudget(c, us))
<1> DEFINE d == SetBudget(c, us)
<1> SUFFICES ASSUME Intact(c, d), d.status = "none", "FINAL" \in d.regs.steps
             PROVE  \E r \in Sensors : /\ d.regs = Programmed(r, RestOf(r, d.dev.budget))
                                       /\ d.dev.finalMicros = RestOf(r, d.dev.budget)
  BY DEF Fine, Given
<1>1. Applies(c, d, us)
  BY SetBudgetIs
<1>2. d.regs.steps = c.regs.steps
  BY SetBudgetStep DEF Programs, SameSteps
<1> HIDE DEF d
<1>3. /\ d.regs = Programmed(c.regs, RestOf(c.regs, us))
      /\ d.dev.budget = us /\ d.dev.finalMicros = RestOf(c.regs, us)
  BY <1>1, <1>2 DEF Applies
<1>4. c.regs \in Sensors
  BY DEF Timed
<1> QED
  BY <1>3, <1>4

LEMMA ApplyFine ==
    ASSUME NEW c, Timed(c), c.status = "none"
    PROVE  Fine(c, Apply(c)) /\ Flows(c, Apply(c)) /\ Programs(c, Apply(c))
  BY BudgetFine, SensorTypes, ApplyStep, SetBudgetStep DEF Apply

LEMMA ChangeStepFine ==
    ASSUME NEW c, Timed(c), c.status = "none", NEW step \in Step, NEW us \in Int
    PROVE  Fine(c, ChangeStepTimeout(c, step, us))
<1>1. ASSUME NEW x, Timed(x), NEW v \in Int, x.status = "none" => Given(x.regs, x.dev)
      PROVE  Fine(x, OrTakeBack(x, step, v)) /\ Flows(x, OrTakeBack(x, step, v))
  <2> DEFINE y == Overwrite(x)
             z == SetStepTimeout(y, step, v)
             a == Apply(z)
  <2>1. OrTakeBack(x, step, v) = IF x.status = "none" THEN x
                                 ELSE IF z.status = "none" THEN a ELSE z
    BY DEF OrTakeBack, Then
  <2>2. Flows(x, y) /\ Timed(y)
    BY <1>1, AssignLocal, Names, FlowsTimed DEF Overwrite
  <2> HIDE DEF y
  <2>3. Flows(x, z) /\ Timed(z)
    BY <1>1, <2>2, SetStepStep, FlowsChain, FlowsTimed DEF Programs
  <2> HIDE DEF z
  <2>4. z.status = "none" => Fine(z, a) /\ Flows(z, a)
    BY <2>3, ApplyFine
  <2> HIDE DEF a
  <2>5. z.status = "none" => Fine(x, a) /\ Flows(x, a)
    BY <1>1, <2>3, <2>4, FineAfter, FlowsChain
  <2>6. z.status # "none" => Fine(x, z)
    BY DEF Fine
  <2>7. x.status = "none" => Fine(x, x)
    BY <1>1 DEF Fine
  <2>8. Flows(x, x)
    BY <1>1, FlowsSame DEF Reads
  <2> QED
    BY <2>1, <2>3, <2>5, <2>6, <2>7, <2>8
<1>2. ASSUME NEW x, Timed(x), x.status = "none"
      PROVE  Fine(x, Exchange(x, step, us)) /\ Flows(x, Exchange(x, step, us))
  <2> DEFINE y == SetStepTimeout(x, step, us)
             z == Apply(y)
             a == OrTakeBack(z, step, x.micros)
  <2>1. Exchange(x, step, us) = IF y.status = "none" THEN a ELSE y
    BY DEF Exchange, Then
  <2>2. Flows(x, y) /\ Timed(y)
    BY <1>2, SetStepStep, FlowsTimed DEF Programs
  <2> HIDE DEF y
  <2>3. y.status # "none" => Fine(x, y)
    BY DEF Fine
  <2>4. ASSUME y.status = "none" PROVE Fine(x, a) /\ Flows(x, a)
    <3>1. Fine(y, z) /\ Flows(y, z) /\ Timed(z)
      BY <2>2, <2>4, ApplyFine, FlowsTimed
    <3> HIDE DEF z
    <3>2. x.micros \in Int
      BY <1>2 DEF Timed
    <3>3. Flows(x, z)
      BY <1>2, <2>2, <3>1, FlowsChain
    <3>4. CASE Intact(y, z)
      <4>1. z.status = "none" => Given(z.regs, z.dev)
        BY <3>1, <3>4 DEF Fine
      <4>2. Fine(z, a) /\ Flows(z, a)
        BY <1>1, <3>1, <3>2, <4>1
      <4> HIDE DEF a
      <4> QED
        BY <1>2, <3>3, <4>2, FineAfter, FlowsChain
    <3>5. CASE ~Intact(y, z)
      <4>1. Flows(z, a)
        BY <3>1, <3>2, TakeBackFlows
      <4> HIDE DEF a
      <4>2. Flows(y, a) /\ ~Intact(y, a) /\ Flows(x, a)
        BY <1>2, <2>2, <3>1, <3>3, <3>5, <4>1, FlowsChain
      <4>3. ~Intact(x, a)
        BY <1>2, <2>2, <4>2, FlowsChain
      <4> QED
        BY <4>2, <4>3 DEF Fine
    <3> QED
      BY <3>4, <3>5
  <2> QED
    BY <2>1, <2>2, <2>3, <2>4
<1> DEFINE g == GetStepTimeout(c, step)
           e == Exchange(g, step, us)
<1>3. ChangeStepTimeout(c, step, us) = IF g.status = "none" THEN e ELSE g
  BY DEF ChangeStepTimeout, Then
<1>4. Flows(c, g) /\ Timed(g)
  BY GetStepStep, FlowsTimed DEF Reads
<1> HIDE DEF g
<1>5. g.status = "none" => Fine(g, e) /\ Flows(g, e)
  BY <1>2, <1>4
<1> HIDE DEF e
<1>6. g.status = "none" => Fine(c, e)
  BY <1>4, <1>5, FineAfter
<1>7. g.status # "none" => Fine(c, g)
  BY DEF Fine
<1> QED
  BY <1>3, <1>6, <1>7

LEMMA CalibrationIs ==
    ASSUME NEW c, Timed(c), c.status = "none", PerformPhaseCalibration(c).status = "none",
           c.regs.steps = c.dev.steps
    PROVE  LET d == PerformPhaseCalibration(c) IN d.regs = c.regs /\ d.dev = c.dev
<1> DEFINE t == Transfer(c)
           r == [t.regs EXCEPT !.steps = {}]
           a == [t EXCEPT !.regs = r]
           running == IF t.status = "none" THEN a ELSE t
           s == IF running.cal = "ok" THEN "none" ELSE running.cal
           b == [running EXCEPT !.status = s]
           done == IF running.status = "none" THEN b ELSE running
           u == IF done.status = "none" THEN Transfer(done) ELSE done
           v == [u.regs EXCEPT !.steps = u.dev.steps]
           e == [u EXCEPT !.regs = v]
           d == PerformPhaseCalibration(c)
<1>1. d = IF u.status = "none" THEN e ELSE u
  BY DEF PerformPhaseCalibration, Then
<1>2. Timed(t) /\ t.regs = c.regs /\ t.dev = c.dev
  BY TransferStep, FlowsTimed DEF Reads
<1> HIDE DEF t
<1>3. r \in Sensors
  BY <1>2, SensorTypes
<1>4. r = [c.regs EXCEPT !.steps = {}]
  BY <1>2
<1> HIDE DEF r
<1>5. Timed(a) /\ a.regs = r /\ a.dev = c.dev
  BY <1>2, <1>3, AssignRegs, FlowsTimed
<1> HIDE DEF a
<1>6. running.status = "none" => running = a
  BY Zenon
<1>7. Timed(running)
  BY <1>2, <1>5
<1> HIDE DEF running
<1>8. s \in Statuses
  BY <1>7, Names DEF Timed, Ends, Statuses
<1> HIDE DEF s
<1>9. Timed(b) /\ b.regs = running.regs /\ b.dev = running.dev
  BY <1>7, <1>8, AssignLocal, FlowsTimed
<1> HIDE DEF b
<1>10. Timed(done) /\ (done.status = "none" => done.regs = r /\ done.dev = c.dev)
  BY <1>5, <1>6, <1>7, <1>9
<1> HIDE DEF done
<1>11. Timed(u) /\ (u.status = "none" => u.regs = r /\ u.dev = c.dev)
  BY <1>10, TransferStep, FlowsTimed DEF Reads
<1> HIDE DEF u
<1>12. v \in Sensors
  BY <1>11, SensorTypes
<1>13. v = [u.regs EXCEPT !.steps = u.dev.steps]
  OBVIOUS
<1> HIDE DEF v
<1>14. e.status = u.status /\ e.regs = v /\ e.dev = u.dev
  BY <1>11, <1>12, AssignRegs
<1> HIDE DEF e
<1>15. u.status = "none" /\ d = e
  BY <1>1 DEF d
<1>16. v = c.regs
  <2>1. c.regs \in Sensors
    BY DEF Timed
  <2>2. v = [r EXCEPT !.steps = c.regs.steps]
    BY <1>11, <1>13, <1>15
  <2> QED
    BY <1>4, <2>1, <2>2 DEF Sensors
<1> QED
  BY <1>11, <1>14, <1>15, <1>16 DEF d

LEMMA CleanReturn ==
    ASSUME NEW op, NEW f \in Int, NEW g \in SUBSET Step, NEW k \in Ends,
           regs \in Sensors, dev \in Device,
           NEW d, Timed(d), TimingReturn(op, f, d), CleanCall
    PROVE  /\ last' = [op |-> op, status |-> d.status, lost |-> FALSE]
           /\ last'.op = op /\ last'.status = d.status
           /\ regs' = d.regs /\ dev' = d.dev
           /\ Intact(Begin(f, g, k), d) /\ Timed(Begin(f, g, k))
           /\ Begin(f, g, k).status = "none"
           /\ Begin(f, g, k).regs = regs /\ Begin(f, g, k).dev = dev
<1> DEFINE lost == Lost(f, d) \/ d.cal # "ok"
<1>1. /\ last' = [op |-> op, status |-> d.status, lost |-> lost]
      /\ dev' = d.dev /\ regs' = d.regs
  BY DEF TimingReturn, Ended
<1>2. last'.lost = lost
  BY <1>1, Zenon
<1>3. ~lost
  BY <1>2, Zenon DEF CleanCall
<1>4. lost = FALSE
  BY <1>3, Zenon
<1>5. d.fuse \in Int
  BY DEF Timed
<1>6. /\ Begin(f, g, k).fuse = f /\ Begin(f, g, k).status = "none"
      /\ Begin(f, g, k).regs = regs /\ Begin(f, g, k).dev = dev
  BY DEF Begin
<1>7. Timed(Begin(f, g, k))
  BY BeginTimed
<1>8. Intact(Begin(f, g, k), d)
  BY <1>3, <1>5, <1>6 DEF Lost, Intact
<1> HIDE DEF lost
<1>9. last' = [op |-> op, status |-> d.status, lost |-> FALSE]
  BY <1>1, <1>4
<1>10. last'.op = op /\ last'.status = d.status
  BY <1>9
<1> QED
  BY <1>1, <1>6, <1>7, <1>8, <1>9, <1>10

(* The period first, then the budget, then the calibration.                *)
LEMMA PeriodFine ==
    ASSUME NEW c, Timed(c), c.status = "none", NEW d, Programs(c, d)
    PROVE  LET e == IF d.status = "none" THEN Apply(d) ELSE d
               h == IF e.status = "none" THEN PerformPhaseCalibration(e) ELSE e
           IN  Timed(h) /\ (c.regs.steps = c.dev.steps => Fine(c, h))
<1> DEFINE e == IF d.status = "none" THEN Apply(d) ELSE d
           h == IF e.status = "none" THEN PerformPhaseCalibration(e) ELSE e
<1>1. Timed(d)
  BY ProgramsTimed
<1>2. d.status = "none" => Fine(d, Apply(d)) /\ Programs(d, Apply(d))
  BY <1>1, ApplyFine
<1>3. Programs(c, e) /\ Timed(e)
  BY <1>2, ProgramsChain, ProgramsTimed
<1>4. Fine(c, e)
  <2>1. CASE d.status = "none"
    BY <1>2, <2>1, FineAfter DEF Programs
  <2>2. CASE d.status # "none"
    BY <2>2 DEF Fine
  <2> QED
    BY <2>1, <2>2
<1>5. c.regs.steps = c.dev.steps => e.regs.steps = e.dev.steps
  BY <1>3 DEF Programs, SameSteps
<1> HIDE DEF e
<1>6. Flows(e, h) /\ Timed(h)
  BY <1>3, CalibrationStep, FlowsTimed, FlowsSame DEF Reads
<1>7. h.status = "none" /\ c.regs.steps = c.dev.steps
        => h.regs = e.regs /\ h.dev = e.dev /\ e.status = "none"
  BY <1>3, <1>5, CalibrationIs
<1> HIDE DEF h
<1>8. Intact(c, h) => Intact(c, e)
  BY <1>3, <1>6, FlowsChain DEF Programs
<1>9. c.regs.steps = c.dev.steps => Fine(c, h)
  BY <1>4, <1>7, <1>8 DEF Fine
<1> QED
  BY <1>6, <1>9 DEF e, h

LEMMA BudgetCallGives ==
    ASSUME TimingInv, TimingNext, CleanCall, BudgetCall, last'.status = "none",
           SameSequence \/ last'.op = "SetBudget"
    PROVE  Given(regs', dev')
<1>1. regs \in Sensors /\ dev \in Device
  BY DEF TimingInv
<1>2. Garbage \subseteq SUBSET Step /\ {} \in SUBSET Step /\ "ok" \in Ends
  BY DEF Garbage, Step, Ends
<1>3. Faults \subseteq Int /\ Budgets \subseteq Int /\ StepMicros \subseteq Int /\ -1 \in Int
  BY InputAssumption
<1>4. ASSUME NEW op, NEW f \in Int, NEW g \in SUBSET Step, NEW k \in Ends, NEW d, Timed(d),
             TimingReturn(op, f, d), Fine(Begin(f, g, k), d)
      PROVE  Given(regs', dev')
  <2>1. /\ last'.status = d.status /\ regs' = d.regs /\ dev' = d.dev
        /\ Intact(Begin(f, g, k), d)
    BY <1>1, <1>4, CleanReturn
  <2> QED
    BY <1>4, <2>1 DEF Fine
<1>5. ASSUME NEW op, NEW f \in Int, NEW d, Timed(d), TimingReturn(op, f, d)
      PROVE  last'.op = op
  BY <1>1, <1>2, <1>5, CleanReturn
<1>6. ASSUME NEW f \in Faults, NEW g \in Garbage, NEW k \in Ends
      PROVE  /\ Timed(Begin(f, g, k)) /\ f \in Int /\ g \in SUBSET Step
             /\ Begin(f, g, k).status = "none"
             /\ Begin(f, g, k).regs = regs /\ Begin(f, g, k).dev = dev
  <2>1. f \in Int /\ g \in SUBSET Step
    BY <1>2, <1>3
  <2>2. /\ Begin(f, g, k).status = "none" /\ Begin(f, g, k).regs = regs
        /\ Begin(f, g, k).dev = dev
    BY DEF Begin
  <2> QED
    BY <1>1, <2>1, <2>2, BeginTimed
<1>7. CASE SetMeasurementTimingBudgetMicroSeconds
  <2>1. PICK us \in Budgets, f \in Faults, g \in Garbage :
            TimingReturn("SetBudget", f, SetBudget(Begin(f, g, "ok"), us))
    BY <1>7 DEF SetMeasurementTimingBudgetMicroSeconds
  <2>2. us \in Int
    BY <1>3
  <2>3. Timed(SetBudget(Begin(f, g, "ok"), us))
    BY <1>2, <1>6, <2>2, SetBudgetStep, ProgramsTimed
  <2>4. Fine(Begin(f, g, "ok"), SetBudget(Begin(f, g, "ok"), us))
    BY <1>2, <1>6, <2>2, BudgetFine
  <2> QED
    BY <1>2, <1>4, <1>6, <2>1, <2>3, <2>4
<1>8. CASE GetMeasurementTimingBudgetMicroSeconds
  <2>1. PICK f \in Faults, g \in Garbage :
            TimingReturn("GetBudget", f, GetBudget(Begin(f, g, "ok")))
    BY <1>8 DEF GetMeasurementTimingBudgetMicroSeconds
  <2>2. Timed(GetBudget(Begin(f, g, "ok")))
    BY <1>2, <1>6, GetBudgetStep, ProgramsTimed
  <2>3. last'.op = "GetBudget"
    BY <1>2, <1>5, <1>6, <2>1, <2>2
  <2> QED
    BY <2>3 DEF BudgetCall
<1>9. CASE SetSequenceStepEnable
  <2>1. PICK step \in Step, on \in BOOLEAN, f \in Faults, g \in Garbage :
            TimingReturn("SetStepEnable", f, EnableStep(Begin(f, g, "ok"), step, on))
    BY <1>9 DEF SetSequenceStepEnable
  <2>2. Timed(EnableStep(Begin(f, g, "ok"), step, on))
    BY <1>2, <1>6, EnableStepStep, FlowsTimed
  <2>3. last'.op = "SetStepEnable"
    BY <1>2, <1>5, <1>6, <2>1, <2>2
  <2> QED
    BY <2>3 DEF BudgetCall
<1>10. CASE SetWrapAroundCheckEnable
  <2>1. PICK on \in BOOLEAN, f \in {-1, 0, 1}, g \in Garbage :
            TimingReturn("SetWrapAround", f, WrapAround(Begin(f, g, "ok"), on))
    BY <1>10 DEF SetWrapAroundCheckEnable
  <2>2. Timed(Begin(f, g, "ok")) /\ f \in Int
    BY <1>1, <1>2, <1>3, BeginTimed
  <2>3. Timed(WrapAround(Begin(f, g, "ok"), on))
    BY <2>2, WrapAroundStep, FlowsTimed
  <2>4. last'.op = "SetWrapAround"
    BY <1>3, <1>5, <2>1, <2>2, <2>3
  <2> QED
    BY <2>4 DEF BudgetCall
<1>11. CASE SetSequenceStepTimeout
  <2>1. PICK step \in Step, us \in StepMicros, f \in Faults, g \in Garbage :
            TimingReturn("SetStepTimeout", f,
                ChangeStepTimeout(Begin(f, g, "ok"), step, MillisecondsToMicros(us)))
    BY <1>11 DEF SetSequenceStepTimeout
  <2>2. MillisecondsToMicros(us) \in Int
    BY <1>3, Cuts, WordsAreInts DEF MillisecondsToMicros
  <2>3. Timed(ChangeStepTimeout(Begin(f, g, "ok"), step, MillisecondsToMicros(us)))
    BY <1>2, <1>6, <2>2, ChangeStepStep, FlowsTimed
  <2>4. Fine(Begin(f, g, "ok"),
             ChangeStepTimeout(Begin(f, g, "ok"), step, MillisecondsToMicros(us)))
    BY <1>2, <1>6, <2>2, ChangeStepFine
  <2> QED
    BY <1>2, <1>4, <1>6, <2>1, <2>3, <2>4
<1>12. CASE SetVcselPulsePeriod
  <2>1. PICK type \in {"PRE", "FINAL"}, p \in 8 .. 18, f \in Faults, g \in Garbage,
             k \in {"ok", "io", "timeout"} :
        LET c == Begin(f, g, k)
            d == IF p \notin (IF type = "PRE" THEN PrePeriods ELSE FinalPeriods)
                 THEN Invalid(c)
                 ELSE IF type = "PRE" THEN ChangePrePeriod(c, p)
                 ELSE ChangeFinalPeriod(c, p)
            e == Then(d, LAMBDA x : SetBudget(x, x.dev.budget))
        IN  TimingReturn("SetVcsel", f, Then(e, PerformPhaseCalibration))
    BY <1>12 DEF SetVcselPulsePeriod
  <2> DEFINE c == Begin(f, g, k)
             d == IF p \notin (IF type = "PRE" THEN PrePeriods ELSE FinalPeriods)
                  THEN Invalid(c)
                  ELSE IF type = "PRE" THEN ChangePrePeriod(c, p)
                  ELSE ChangeFinalPeriod(c, p)
             e == IF d.status = "none" THEN Apply(d) ELSE d
             h == IF e.status = "none" THEN PerformPhaseCalibration(e) ELSE e
  <2>2. TimingReturn("SetVcsel", f, h)
    BY <2>1, Zenon DEF Then, Apply
  <2>3. k \in Ends
    BY DEF Ends
  <2>4. Timed(c) /\ f \in Int /\ g \in SUBSET Step /\ c.status = "none"
        /\ (SameSequence => c.regs.steps = c.dev.steps)
    BY <1>6, <2>3 DEF SameSequence
  <2>5. c = Begin(f, g, k)
    OBVIOUS
  <2> HIDE DEF c
  <2>6. Programs(c, d)
    <3>1. Programs(c, Invalid(c))
      BY <2>4, AssignLocal, Names DEF Invalid, Fail, Programs, SameSteps
    <3>2. p \in PrePeriods => Programs(c, ChangePrePeriod(c, p))
      BY <2>4, ChangePreStep
    <3>3. p \in FinalPeriods => Programs(c, ChangeFinalPeriod(c, p))
      BY <2>4, ChangeFinalStep
    <3> QED
      BY <3>1, <3>2, <3>3
  <2> HIDE DEF d
  <2>7. Timed(h) /\ (SameSequence => Fine(c, h))
    BY <2>4, <2>6, PeriodFine
  <2> HIDE DEF e, h
  <2>8. last'.op = "SetVcsel"
    BY <1>5, <2>2, <2>4, <2>7
  <2>9. SameSequence
    BY <2>8
  <2> QED
    BY <1>4, <2>2, <2>3, <2>4, <2>5, <2>7, <2>9
<1> QED
  BY <1>7, <1>8, <1>9, <1>10, <1>11, <1>12 DEF TimingNext

(* Any call that applies the budget undisturbed and reports success, the   *)
(* change of a step or of a laser period included, leaves a sequence whose *)
(* steps fit into it with the final range, for every budget and timeout    *)
(* asked for: where there is room at all, and up to the widest budget.     *)
THEOREM BudgetFits == TimingSpec => SuccessFitsBudget
<1> DEFINE A == CleanCall /\ BudgetCall /\ SameSequence /\ last'.status = "none"
                    => (HasRoom /\ IsBounded => FitsBudget)'
<1>1. TimingInv' => Matches'
  BY TermsMatch, PTL
<1>2. TimingInv /\ TimingInv' /\ [TimingNext]_timingVars => [A]_timingVars
  <2> SUFFICES ASSUME TimingInv, TimingInv', TimingNext, CleanCall, BudgetCall, SameSequence,
                      last'.status = "none", HasRoom', IsBounded'
               PROVE  FitsBudget'
    OBVIOUS
  <2>1. Given(regs', dev')
    BY BudgetCallGives
  <2>2. Matches'
    BY <1>1
  <2>3. dev' \in Device /\ dev'.budget <= WidestBudget /\ Roomy(regs', dev'.budget)
    BY <2>2 DEF Matches, TimingInv
  <2>4. "FINAL" \in regs'.steps => Fitting(regs', dev'.budget)
    BY <2>1, <2>3, GivenFits
  <2> QED
    BY <2>2, <2>4 DEF Matches
<1> HIDE DEF A
<1>3. TimingSpec => [][A]_timingVars
  BY <1>2, TimingInvariant, PTL DEF TimingSpec
<1> QED
  BY <1>3 DEF SuccessFitsBudget, A

(* The final range timeout the device structure then remembers, which the  *)
(* sigma estimate of every measurement uses, is the one in the sensor, up  *)
(* to rounding and the last bit of the register.                           *)
THEOREM CachedCurrent == TimingSpec => CachedTimeoutIsCurrent
<1> DEFINE A == CleanCall /\ BudgetCall /\ SameSequence /\ last'.status = "none"
                    => ("FINAL" \in regs.steps /\ HasRoom /\ IsBounded
                          => dev.finalMicros - FinalMicros \in -Slack .. Slack + Quantum)'
<1>1. TimingInv' => Matches'
  BY TermsMatch, PTL
<1>2. TimingInv /\ TimingInv' /\ [TimingNext]_timingVars => [A]_timingVars
  <2> SUFFICES ASSUME TimingInv, TimingInv', TimingNext, CleanCall, BudgetCall, SameSequence,
                      last'.status = "none", "FINAL" \in regs'.steps, HasRoom', IsBounded'
               PROVE  dev'.finalMicros - FinalMicros' \in -Slack .. Slack + Quantum'
    OBVIOUS
  <2>1. Given(regs', dev')
    BY BudgetCallGives
  <2>2. Matches'
    BY <1>1
  <2>3. dev' \in Device /\ dev'.budget <= WidestBudget /\ Roomy(regs', dev'.budget)
    BY <2>2 DEF Matches, TimingInv
  <2>4. dev'.finalMicros - FinalMicrosOf(regs') \in -Slack .. Slack + QuantumOf(regs')
    BY <2>1, <2>3, GivenFits
  <2>5. FinalMicros' = FinalMicrosOf(regs') /\ Quantum' = QuantumOf(regs')
    BY <2>2 DEF Matches
  <2> QED
    BY <2>4, <2>5
<1> HIDE DEF A
<1>3. TimingSpec => [][A]_timingVars
  BY <1>2, TimingInvariant, PTL DEF TimingSpec
<1> QED
  BY <1>3 DEF CachedTimeoutIsCurrent, A
-----------------------------------------------------------------------------
(* Reading the budget back.  A part of a call that adds us microseconds.   *)
Adds(c, d, us) ==
    /\ Flows(c, d) /\ d.regs = c.regs /\ d.dev = c.dev
    /\ Intact(c, d) /\ c.status = "none" =>
          d.status = "none" /\ d.seen = c.seen /\ d.left = c.left + us

LEMMA AddIt ==
    ASSUME NEW c, Timed(c), NEW d, Reads(c, d), d.left = c.left, NEW us \in Int,
           NEW v, Intact(c, d) /\ c.status = "none" => us = v /\ d.seen = c.seen
    PROVE  Adds(c, Add(d, us), v)
<1> DEFINE x == d.left + us
           e == [d EXCEPT !.left = x]
<1>1. Add(d, us) = e
  BY DEF Add
<1>2. Timed(d) /\ x \in Int /\ x = c.left + us
  <2>1. Timed(d)
    BY DEF Reads, Flows
  <2> QED
    BY <2>1 DEF Timed
<1> HIDE DEF x
<1>3. Reads(d, e) /\ e.left = x /\ e.seen = d.seen /\ e.status = d.status
  BY <1>2, AssignLocal, LocalFields
<1> HIDE DEF e
<1>4. Reads(c, e) /\ (Intact(c, e) => Intact(c, d))
  BY <1>3, ReadsChain, FlowsChain DEF Reads
<1>5. Intact(c, d) /\ c.status = "none" => d.status = "none"
  BY DEF Reads, Smooth
<1> QED
  BY <1>1, <1>2, <1>3, <1>4, <1>5 DEF Adds, Reads

LEMMA AddNothing == \A c : Timed(c) => Adds(c, c, 0)
<1> SUFFICES ASSUME NEW c, Timed(c) PROVE Adds(c, c, 0)
  OBVIOUS
<1>1. c.left = c.left + 0
  BY DEF Timed
<1> QED
  BY <1>1, FlowsSame DEF Adds, Reads

LEMMA AddShortsIs ==
    ASSUME NEW c, Timed(c), c.status = "none", c.seen = c.regs.steps
    PROVE  Adds(c, AddShortSteps(c), ShortCost(c.regs))
<1> DEFINE y == GetShortTimeout(c)
           n == ShortTime(c, y.micros)
<1>1. Looks(c, y) /\ Timed(y) /\ y.micros = ShortUs(c.regs)
  BY GetShortLook, LooksTimed
<1>2. AddShortSteps(c) = IF c.seen \cap ShortSteps = {} THEN c
                         ELSE IF y.status = "none" THEN Add(y, n) ELSE y
  BY DEF AddShortSteps, Then
<1> HIDE DEF y
<1>3. n = ShortCost(c.regs)
  BY <1>1 DEF ShortTime, ShortCost
<1> HIDE DEF n
<1>4. n \in Int
  BY <1>3, CostTypes
<1>5. CASE c.seen \cap ShortSteps = {}
  <2>1. "TCC" \notin c.seen /\ "DSS" \notin c.seen /\ "MSRC" \notin c.seen
    BY <1>5 DEF ShortSteps
  <2>2. ShortCost(c.regs) = 0
    BY <2>1 DEF ShortCost
  <2> QED
    BY <1>2, <1>5, <2>2, AddNothing
<1>6. CASE c.seen \cap ShortSteps # {} /\ y.status = "none"
  BY <1>1, <1>2, <1>3, <1>4, <1>6, AddIt DEF Looks
<1>7. CASE c.seen \cap ShortSteps # {} /\ y.status # "none"
  <2>1. AddShortSteps(c) = y
    BY <1>2, <1>7
  <2> QED
    BY <1>1, <1>7, <2>1 DEF Adds, Looks, Reads, Smooth
<1> QED
  BY <1>5, <1>6, <1>7

LEMMA AddPreIs ==
    ASSUME NEW c, Timed(c), c.status = "none", c.seen = c.regs.steps
    PROVE  Adds(c, AddPreRange(c), PreCost(c.regs))
<1> DEFINE y == GetPreTimeout(c)
           n == y.micros + Overhead["PRE"]
<1>1. Looks(c, y) /\ Timed(y) /\ (Intact(c, y) => y.micros = PreUs(c.regs))
  BY GetPreLook, LooksTimed
<1>2. AddPreRange(c) = IF "PRE" \notin c.seen THEN c ELSE Add(y, n)
  BY DEF AddPreRange
<1> HIDE DEF y
<1>3. n \in Int
  BY <1>1, OverheadTypes DEF Timed
<1>4. "PRE" \in c.seen /\ Intact(c, y) => n = PreCost(c.regs)
  BY <1>1 DEF PreCost
<1> HIDE DEF n
<1>5. CASE "PRE" \in c.seen
  BY <1>1, <1>2, <1>3, <1>4, <1>5, AddIt DEF Looks
<1>6. CASE "PRE" \notin c.seen
  <2>1. PreCost(c.regs) = 0
    BY <1>6 DEF PreCost
  <2> QED
    BY <1>2, <1>6, <2>1, AddNothing
<1> QED
  BY <1>5, <1>6

(* The final range is read last: what the caller's structure then holds    *)
(* of the steps no longer matters.                                         *)
LEMMA AddFinalIs ==
    ASSUME NEW c, Timed(c), c.status = "none", "FINAL" \in c.seen
    PROVE  LET d == AddFinalRange(c) IN
           /\ Reads(c, d)
           /\ Intact(c, d) => d.left = c.left + (FinalUs(c.regs) + Overhead["FINAL"])
<1> DEFINE y == GetFinalTimeout(c)
           n == y.micros + Overhead["FINAL"]
           x == y.left + n
           e == [y EXCEPT !.left = x]
<1>1. Reads(c, y) /\ y.left = c.left /\ (Intact(c, y) => y.micros = FinalUs(c.regs))
  BY GetFinalLook
<1>2. AddFinalRange(c) = e
  BY DEF AddFinalRange, Add
<1> HIDE DEF y
<1>3. Timed(y)
  BY <1>1 DEF Reads, Flows
<1>4. x \in Int
  BY <1>3, OverheadTypes DEF Timed
<1>5. Intact(c, y) => x = c.left + (FinalUs(c.regs) + Overhead["FINAL"])
  BY <1>1
<1> HIDE DEF x
<1>6. Reads(y, e) /\ e.left = x
  BY <1>3, <1>4, AssignLocal, LocalFields
<1> HIDE DEF e
<1>7. Reads(c, e) /\ (Intact(c, e) => Intact(c, y))
  BY <1>1, <1>6, ReadsChain, FlowsChain DEF Reads
<1> QED
  BY <1>2, <1>5, <1>6, <1>7

LEMMA GetBudgetIs ==
    ASSUME NEW c, Timed(c), c.status = "none", Intact(c, GetBudget(c)),
           "FINAL" \in c.regs.steps
    PROVE  LET d == GetBudget(c)
               r == c.regs
           IN  /\ d.status = "none" /\ d.regs = r
               /\ d.dev = [c.dev EXCEPT !.budget = StartEndOverhead + ShortCost(r) + PreCost(r)
                                                     + (FinalUs(r) + Overhead["FINAL"])]
<1> DEFINE a == GetSequenceStepEnables(c)
           b == [a EXCEPT !.left = StartEndOverhead]
           d == IF b.status = "none" THEN AddShortSteps(b) ELSE b
           e == IF d.status = "none" THEN AddPreRange(d) ELSE d
           f == IF e.status = "none" THEN AddFinalRange(e) ELSE e
           m == [f.dev EXCEPT !.budget = f.left]
           g == [f EXCEPT !.dev = m]
           r == c.regs
<1>1. GetBudget(c) = IF f.status = "none" THEN g ELSE f
  BY DEF GetBudget, Then
<1>2. Reads(c, a) /\ Timed(a) /\ (a.status = "none" => a.seen = r.steps)
  BY GetEnablesLook
<1> HIDE DEF a
<1>3. /\ Reads(c, b) /\ Timed(b) /\ b.left = StartEndOverhead /\ b.regs = r
      /\ b.status = "none" => b.seen = r.steps
  <2>1. Reads(a, b) /\ b.left = StartEndOverhead /\ b.seen = a.seen /\ b.status = a.status
    BY <1>2, OverheadTypes, AssignLocal, LocalFields
  <2> HIDE DEF b
  <2>2. Reads(c, b)
    BY <1>2, <2>1, ReadsChain
  <2> QED
    BY <1>2, <2>1, <2>2, ReadsPrograms
<1> HIDE DEF b
<1>4. b.status = "none" => Adds(b, AddShortSteps(b), ShortCost(r))
  BY <1>3, AddShortsIs
<1>5. Reads(b, d) /\ Timed(d) /\ d.regs = r
  BY <1>3, AddShortStep, FlowsSame, ReadsPrograms
<1>6. b.status = "none" /\ Intact(b, d) =>
        d.status = "none" /\ d.seen = b.seen /\ d.left = b.left + ShortCost(r)
  BY <1>4 DEF Adds
<1> HIDE DEF d
<1>7. d.status = "none" /\ d.seen = r.steps => Adds(d, AddPreRange(d), PreCost(r))
  BY <1>5, AddPreIs
<1>8. Reads(d, e) /\ Timed(e) /\ e.regs = r
  BY <1>5, AddRangeSteps, FlowsSame, ReadsPrograms
<1>9. d.status = "none" /\ d.seen = r.steps /\ Intact(d, e) =>
        e.status = "none" /\ e.seen = d.seen /\ e.left = d.left + PreCost(r)
  BY <1>7 DEF Adds
<1> HIDE DEF e
<1>10. e.status = "none" /\ "FINAL" \in e.seen =>
         /\ Reads(e, AddFinalRange(e))
         /\ Intact(e, AddFinalRange(e)) =>
              AddFinalRange(e).left = e.left + (FinalUs(r) + Overhead["FINAL"])
  BY <1>8, AddFinalIs
<1>11. Reads(e, f) /\ Timed(f) /\ f.regs = r
  BY <1>8, AddRangeSteps, FlowsSame, ReadsPrograms
<1>12. e.status = "none" /\ "FINAL" \in e.seen /\ Intact(e, f) =>
         f.left = e.left + (FinalUs(r) + Overhead["FINAL"])
  BY <1>10
<1> HIDE DEF f
<1>13. m \in Device
  BY <1>11, SensorTypes DEF Timed
<1>14. g.fuse = f.fuse /\ g.status = f.status /\ g.regs = f.regs /\ g.dev = m
  BY <1>11, <1>13, AssignDev
<1>15. m = [f.dev EXCEPT !.budget = f.left]
  OBVIOUS
<1> HIDE DEF m, g
<1>16. Intact(c, f)
  BY <1>1, <1>14 DEF Intact
<1>17. Reads(c, d) /\ Reads(c, e) /\ Reads(c, f)
  BY <1>3, <1>5, <1>8, <1>11, ReadsChain
<1>18. Intact(c, e) /\ Intact(e, f)
  BY <1>11, <1>16, <1>17, FlowsChain DEF Reads
<1>19. Intact(c, d) /\ Intact(d, e)
  BY <1>8, <1>17, <1>18, FlowsChain DEF Reads
<1>20. Intact(c, b) /\ Intact(b, d)
  BY <1>3, <1>5, <1>19, FlowsChain DEF Reads
<1>21. b.status = "none"
  BY <1>3, <1>20 DEF Reads, Smooth
<1>22. d.status = "none" /\ d.seen = r.steps /\ d.left = StartEndOverhead + ShortCost(r)
  BY <1>3, <1>6, <1>20, <1>21
<1>23. e.status = "none" /\ "FINAL" \in e.seen
       /\ e.left = StartEndOverhead + ShortCost(r) + PreCost(r)
  BY <1>9, <1>19, <1>22
<1>24. f.left = StartEndOverhead + ShortCost(r) + PreCost(r) + (FinalUs(r) + Overhead["FINAL"])
  BY <1>12, <1>18, <1>23
<1>25. f.status = "none" /\ f.dev = c.dev
  BY <1>11, <1>17, <1>18, <1>23 DEF Reads, Smooth
<1> QED
  BY <1>1, <1>11, <1>14, <1>15, <1>24, <1>25

(* Pre-range and final range together stay below 65536 macro periods, so   *)
(* that the code, which cuts what it reads to 16 bits, cuts nothing.       *)
LEMMA ClocksShort ==
    ASSUME NEW r \in Sensors, NEW us \in Int, us <= WidestBudget, Roomy(r, us)
    PROVE  PreTicks(r) + CalcTimeoutMclks(RestOf(r, us), DecodeVcselPeriod(r.finalPeriod))
               < 65536
<1> DEFINE rest == RestOf(r, us)
           room == RoomOf(r, us)
           p == DecodeVcselPeriod(r.finalPeriod)
           n == CalcTimeoutMclks(rest, p)
           m == MacroPeriodNs(p)
           h == m \div 2
           q == PreTicks(r)
           x == DecodeTimeout(r.pre)
           o == DecodeVcselPeriod(r.prePeriod)
           l == MacroPeriodNs(o)
           s == Micros(x, o)
           a == ShortMicrosIn(r)
           b == PreMicrosIn(r)
<1>1. /\ rest \in Nat /\ rest <= WidestBudget /\ n \in Nat /\ p \in Pclks /\ o \in Pclks
      /\ x \in Nat /\ s \in Nat
  BY RestProgrammed, SensorIs, DecodeNat, MicrosNat
<1>2. room \in Int /\ rest <= room - 550
  <2>1. RoomOf(r, us) \in Int
    BY RoomIs
  <2>2. RoomOf(r, us) >= 0
    BY <2>1, SMT DEF Roomy, Overhead, Slack
  <2>3. RestOf(r, us) <= RoomOf(r, us) - Overhead["FINAL"]
    BY <2>1, <2>2, CostsAre
  <2> QED
    BY <2>1, <2>3 DEF Overhead
<1>3. a \in Nat
  <2>1. ShortMicrosOf(r) \in Nat
    BY ShortUsIs
  <2> QED
    BY <2>1, SMT DEF ShortMicrosIn, Overhead
<1>4. b = (IF "PRE" \in r.steps THEN s + 660 ELSE 0) /\ q = (IF "PRE" \in r.steps THEN x ELSE 0)
  BY DEF PreMicrosIn, PreTicks, Overhead
<1>5. room = us - 2870 - a - b
  BY DEF RoomOf, StartEndOverhead
<1>6. m \in Nat /\ 30505 <= m /\ m <= 68637 /\ l \in Nat /\ 30505 <= l
  BY <1>1, PeriodIs
<1>7. m * n <= 1000 * rest + h
  <2> HIDE DEF rest, p
  <2> QED
    BY <1>1, MclksIs DEF Rounds
<1>8. x * l < 1000 * s + 1000
  <2> HIDE DEF x, o
  <2> QED
    BY <1>1, MicrosIs DEF Rounds
<1>9. h \in Nat /\ h <= 34318
  BY <1>6, SMT
<1> HIDE DEF rest, room, n, m, h, q, x, l, s, a, b, p, o
<1>10. 30505 * n <= m * n
  <2>1. n * 30505 <= n * m
    BY <1>1, <1>6, ProductGrows
  <2>2. n * m = m * n /\ n * 30505 = 30505 * n
    BY <1>1, <1>6, SMT
  <2> QED
    BY <2>1, <2>2
<1>11. 30505 * x <= x * l
  <2>1. x * 30505 <= x * l
    BY <1>1, <1>6, ProductGrows
  <2>2. x * 30505 = 30505 * x
    BY <1>1, SMT
  <2> QED
    BY <2>1, <2>2
<1> DEFINE mn == m * n
           xl == x * l
<1>12. mn \in Nat /\ xl \in Nat
  BY <1>1, <1>6, SMT
<1>13. 30505 * n <= mn /\ mn <= 1000 * rest + h /\ 30505 * x <= xl /\ xl < 1000 * s + 1000
  BY <1>7, <1>8, <1>10, <1>11
<1> HIDE DEF mn, xl
<1>14. 30505 * n <= 1000 * rest + h /\ 30505 * x < 1000 * s + 1000
  BY <1>1, <1>9, <1>12, <1>13, SMT
<1>15. us <= 1999000
  BY DEF WidestBudget
<1>16. q + n < 65536
  <2>1. CASE "PRE" \in r.steps
    <3>1. q = x /\ rest + s <= 1999000 - 2870 - 660 - 550
      BY <1>1, <1>2, <1>3, <1>4, <1>5, <1>15, <2>1, SMT
    <3> QED
      BY <1>1, <1>9, <1>14, <3>1, SMT
  <2>2. CASE "PRE" \notin r.steps
    <3>1. q = 0 /\ rest <= 1999000
      BY <1>1, <1>4, <2>2, SMT DEF WidestBudget
    <3> QED
      BY <1>1, <1>9, <1>14, <3>1, SMT
  <2> QED
    BY <2>1, <2>2
<1> QED
  BY <1>16 DEF q, n, rest, p

(* Microseconds read from n macro periods are n macro periods again.       *)
LEMMA ConvertsBack ==
    ASSUME NEW n \in Nat, NEW p \in Pclks, Micros(n, p) + 1 <= WidestBudget
    PROVE  /\ CalcTimeoutUs(n, p) \in Nat
           /\ CalcTimeoutMclks(CalcTimeoutUs(n, p), p) = n
<1> DEFINE m == MacroPeriodNs(p)
           h == m \div 2
           s == Micros(n, p)
           u == CalcTimeoutUs(n, p)
           v == CalcTimeoutMclks(u, p)
           x == n * m
           y == 1000 * u + h
<1>1. m \in Nat /\ 30505 <= m /\ m <= 68637
  BY PeriodIs
<1>2. Micros(n, p) \in Nat
  BY MicrosNat
<1>3. Micros(n, p) <= WidestBudget
  BY <1>2, SMT DEF WidestBudget
<1>4. x \in Nat /\ Rounds(u, x + 500, 1000) /\ u \in {s, s + 1}
  BY <1>3, UsIs
<1>5. u \in Nat /\ u <= WidestBudget
  <2>1. s \in Nat /\ s + 1 <= WidestBudget
    BY <1>2
  <2> HIDE DEF s, u
  <2> QED
    BY <1>4, <2>1, SMT DEF WidestBudget
<1>6. Rounds(v, y, m)
  <2> HIDE DEF u
  <2> QED
    BY <1>5, MclksIs
<1>7. h \in Nat /\ h <= 34318 /\ 15252 <= h
  BY <1>1, SMT
<1>8. x = m * n
  BY <1>1, SMT
<1> HIDE DEF m, h, s, u, v, x
<1>9. 1000 * u <= x + 500 /\ x + 500 < 1000 * u + 1000
  BY <1>4 DEF Rounds
<1>10. x <= y /\ y < x + m /\ y \in Nat
  <2>1. x <= 1000 * u + h /\ 1000 * u + h < x + m /\ 1000 * u + h \in Nat
    <3>1. h + 500 < m
      BY <1>1, <1>7, SMT DEF h
    <3> QED
      BY <1>1, <1>4, <1>5, <1>7, <1>9, <3>1, SMT
  <2> QED
    BY <2>1
<1> HIDE DEF y
<1>11. Rounds(n, y, m)
  BY <1>8, <1>10 DEF Rounds
<1>12. v \in Nat
  BY <1>6 DEF Rounds
<1>13. m > 0
  BY <1>1, SMT
<1>14. v = n
  BY <1>1, <1>6, <1>10, <1>11, <1>12, <1>13, Quotient
<1> QED
  BY <1>5, <1>14 DEF u, v

LEMMA RestIsRead ==
    ASSUME NEW r \in Sensors, NEW us \in Int, us <= WidestBudget, Roomy(r, us)
    PROVE  LET t == Programmed(r, RestOf(r, us)) IN
           /\ FinalUs(t) \in Nat /\ Programmed(t, FinalUs(t)) = t
           /\ PreCost(t) \in Nat /\ ShortCost(t) \in Nat
<1> DEFINE rest == RestOf(r, us)
           n == CalcTimeoutMclks(rest, DecodeVcselPeriod(r.finalPeriod))
           t == Programmed(r, rest)
           p == DecodeVcselPeriod(t.finalPeriod)
           c == PreTicks(r) + n
           w == FinalTicks(t)
           d == DecodeTimeout(t.final)
           q == PreTicks(t)
           s == Micros(w, p)
<1>1. /\ c \in Clocks /\ c # 0 /\ t = [r EXCEPT !.final = EncodeTimeout(c)]
      /\ t \in Sensors /\ PreTicks(t) = PreTicks(r) /\ RoomOf(t, us) = RoomOf(r, us)
      /\ w \in Nat
  BY RestProgrammed
<1>2. c < 65536
  BY ClocksShort
<1>3. t.final = EncodeTimeout(c)
  BY <1>1 DEF Sensors
<1>4. Roomy(t, us)
  BY RoomKept
<1>5. p \in Pclks
  BY <1>1, SensorIs
<1>6. Fitting(t, us)
  BY RestFits
<1> HIDE DEF t, c
<1>7. d \in Nat /\ d < 65536 /\ EncodeTimeout(d) = t.final
  <2>1. DecodeTimeout(EncodeTimeout(c)) \in Nat /\ DecodeTimeout(EncodeTimeout(c)) <= c
    BY <1>1, DecodeIs
  <2>2. EncodeTimeout(DecodeTimeout(EncodeTimeout(c))) = EncodeTimeout(c)
    BY <1>1, EncodeAgain
  <2>3. d \in Nat /\ d <= c
    BY <1>3, <2>1
  <2>4. c \in Int
    BY <1>1 DEF Clocks
  <2> HIDE DEF d
  <2> QED
    BY <1>2, <1>3, <2>2, <2>3, <2>4, SMT DEF d
<1>8. RoomOf(t, us) \in Int
  BY <1>1, RoomIs
<1>9. RoomOf(t, us) >= 0 /\ RoomOf(t, us) <= us
  <2>1. RoomOf(t, us) >= 0
    BY <1>4, <1>8, SMT DEF Roomy, Overhead, Slack
  <2>2. ShortMicrosIn(t) \in Nat /\ PreMicrosIn(t) \in Nat
    <3>1. ShortMicrosOf(t) \in Nat
      BY <1>1, ShortUsIs
    <3>2. Micros(DecodeTimeout(t.pre), DecodeVcselPeriod(t.prePeriod)) \in Nat
      BY <1>1, SensorIs, DecodeNat, MicrosNat
    <3> QED
      BY <3>1, <3>2, SMT DEF ShortMicrosIn, PreMicrosIn, Overhead
  <2>3. RoomOf(t, us) <= us
    BY <2>2, SMT DEF RoomOf, StartEndOverhead
  <2> QED
    BY <2>1, <2>3
<1>10. PreClocks(t) = q /\ q \in Nat /\ PreCost(t) \in Nat /\ ShortCost(t) \in Nat
  BY <1>1, <1>9, CostsAre
<1>11. w = d - q
  BY DEF FinalTicks
<1>12. s \in Nat /\ s + 1 <= WidestBudget
  <2>1. s \in Nat
    BY <1>1, <1>5, MicrosNat
  <2>2. 550 + s <= RoomOf(t, us) + 50
    BY <1>6 DEF Fitting, FinalMicrosOf, Overhead, Slack
  <2> HIDE DEF s
  <2> QED
    BY <1>8, <1>9, <2>1, <2>2, SMT DEF WidestBudget
<1>13. CalcTimeoutUs(w, p) \in Nat /\ CalcTimeoutMclks(CalcTimeoutUs(w, p), p) = w
  <2> HIDE DEF w, p
  <2> QED
    BY <1>1, <1>5, <1>12, ConvertsBack DEF s
<1>14. FinalUs(t) = CalcTimeoutUs(w, p)
  <2>1. FinalUs(t) = CalcTimeoutUs(U16(U16(d) - q), p)
    BY <1>10 DEF FinalUs
  <2>2. U16(d) = d
    <3> HIDE DEF d
    <3> QED
      BY <1>7, SMT DEF U16
  <2>3. d - q \in Nat /\ d - q < 65536
    <3> HIDE DEF d, q, w
    <3> QED
      BY <1>1, <1>7, <1>10, <1>11, SMT
  <2>4. U16(d - q) = d - q
    <3> DEFINE e == d - q
    <3> HIDE DEF e
    <3>1. e \in Nat /\ e < 65536
      BY <2>3 DEF e
    <3>2. U16(e) = e
      BY <3>1, SMT DEF U16
    <3> QED
      BY <3>2 DEF e
  <2> QED
    BY <1>11, <2>1, <2>2, <2>4
<1>15. Programmed(t, FinalUs(t)) = [t EXCEPT !.final = EncodeTimeout(q + w)]
  BY <1>10, <1>13, <1>14 DEF Programmed
<1>16. q + w = d
  <2> HIDE DEF d, q, w
  <2> QED
    BY <1>7, <1>10, <1>11, SMT
<1>17. [t EXCEPT !.final = t.final] = t
  BY <1>1 DEF Sensors
<1> QED
  BY <1>7, <1>10, <1>13, <1>14, <1>15, <1>16, <1>17 DEF t

(* The budget that was set is replaced by the one the timeouts add up to,  *)
(* and applying that one changes no register.                              *)
LEMMA ReadBackKeeps ==
    ASSUME NEW c, Timed(c), c.status = "none", c.fuse < 0, Given(c.regs, c.dev),
           "FINAL" \in c.regs.steps, c.dev.budget <= WidestBudget,
           Roomy(c.regs, c.dev.budget)
    PROVE  LET e == Apply(GetBudget(c)) IN e.status = "none" /\ e.regs = c.regs
<1> DEFINE r == c.regs
           d == GetBudget(c)
           us == StartEndOverhead + ShortCost(r) + PreCost(r)
                     + (FinalUs(r) + Overhead["FINAL"])
           e == Apply(d)
<1>1. FinalUs(r) \in Nat /\ Programmed(r, FinalUs(r)) = r /\ PreCost(r) \in Nat
      /\ ShortCost(r) \in Nat
  <2>1. PICK s \in Sensors : r = Programmed(s, RestOf(s, c.dev.budget))
    BY DEF Given
  <2>2. c.dev.budget \in Int /\ Roomy(s, c.dev.budget)
    BY <2>1, RoomKept, SensorTypes
  <2> QED
    BY <2>1, <2>2, RestIsRead
<1>2. d.status = "none" /\ d.regs = r /\ d.dev = [c.dev EXCEPT !.budget = us]
  BY GetBudgetIs DEF Intact
<1>3. Timed(d) /\ d.fuse < 0
  <2>1. Timed(d) /\ d.fuse <= c.fuse
    BY GetBudgetStep DEF Programs, Flows
  <2> QED
    BY <2>1 DEF Timed
<1> HIDE DEF d
<1>4. us \in Int /\ RestOf(r, us) = FinalUs(r)
      /\ StartEndOverhead + ShortCost(r) + PreCost(r) < us
  <2> DEFINE f == FinalUs(r)
             a == ShortCost(r)
             b == PreCost(r)
  <2>1. RestOf(r, us) = us - StartEndOverhead - a - b - Overhead["FINAL"]
    BY DEF RestOf
  <2>2. us = StartEndOverhead + a + b + (f + Overhead["FINAL"])
    OBVIOUS
  <2> HIDE DEF f, a, b, us
  <2>3. us - StartEndOverhead - a - b - Overhead["FINAL"] = f /\ us \in Int
        /\ StartEndOverhead + a + b < us
    BY <1>1, <2>2, SMT DEF StartEndOverhead, Overhead, f, a, b
  <2> QED
    BY <2>1, <2>3 DEF f, a, b
<1>5. d.dev.budget = us
  <2>1. c.dev \in Device
    BY DEF Timed
  <2> QED
    BY <1>2, <2>1 DEF Device
<1> HIDE DEF us
<1>6. e = SetBudget(d, us)
  BY <1>5 DEF Apply
<1>7. Applies(d, SetBudget(d, us), us)
  BY <1>2, <1>3, <1>4, SetBudgetIs DEF Intact
<1>8. Applies(d, e, us)
  BY <1>6, <1>7
<1> HIDE DEF e
<1>9. e.status = "none"
  BY <1>1, <1>2, <1>4, <1>8 DEF Applies
<1>10. e.regs = Programmed(r, FinalUs(r))
  BY <1>2, <1>4, <1>8, <1>9 DEF Applies
<1> QED
  BY <1>1, <1>9, <1>10 DEF d, e

LEMMA EveryCallCounts == TimingNext => calls' = calls + 1
<1>1. \A op, f, c : TimingReturn(op, f, c) => calls' = calls + 1
  BY DEF TimingReturn, Ended
<1>2. SetMeasurementTimingBudgetMicroSeconds => calls' = calls + 1
  BY <1>1, Zenon DEF SetMeasurementTimingBudgetMicroSeconds
<1>3. GetMeasurementTimingBudgetMicroSeconds => calls' = calls + 1
  BY <1>1, Zenon DEF GetMeasurementTimingBudgetMicroSeconds
<1>4. SetSequenceStepEnable => calls' = calls + 1
  BY <1>1, Zenon DEF SetSequenceStepEnable
<1>5. SetWrapAroundCheckEnable => calls' = calls + 1
  BY <1>1, Zenon DEF SetWrapAroundCheckEnable
<1>6. SetSequenceStepTimeout => calls' = calls + 1
  BY <1>1, Zenon DEF SetSequenceStepTimeout
<1>7. SetVcselPulsePeriod => calls' = calls + 1
  BY <1>1, Zenon DEF SetVcselPulsePeriod
<1> QED
  BY <1>2, <1>3, <1>4, <1>5, <1>6, <1>7 DEF TimingNext

(* After a budget was set undisturbed, reading it back and applying what   *)
(* was read succeeds and changes no register, whatever the budget was and  *)
(* however the conversions between microseconds, macro periods and the     *)
(* eight bits of the register round: a pair of GetDeviceParameters and     *)
(* SetDeviceParameters does not erode the final range.                     *)
THEOREM ReadBackStable == TimingSpec => []ReadBackIsStable
<1> DEFINE SetBefore == last = [op |-> "SetBudget", status |-> "none", lost |-> FALSE]
           BudgetGiven == SetBefore => Given(regs, dev)
<1>1. TimingInit => BudgetGiven
  BY DEF TimingInit, CallInit
<1>2. TimingInv /\ BudgetGiven /\ [TimingNext]_timingVars => BudgetGiven'
  <2>1. ASSUME TimingInv, TimingNext, SetBefore' PROVE Given(regs', dev')
    <3>1. last'.op = "SetBudget" /\ last'.status = "none" /\ last'.lost = FALSE
      BY <2>1
    <3>2. CleanCall /\ BudgetCall
      BY <2>1, <3>1, EveryCallCounts DEF CleanCall, BudgetCall
    <3> QED
      BY <2>1, <3>1, <3>2, BudgetCallGives
  <2>2. BudgetGiven /\ UNCHANGED timingVars => BudgetGiven'
    BY DEF timingVars
  <2> QED
    BY <2>1, <2>2
<1>3. TimingInv /\ BudgetGiven => ReadBackIsStable
  <2> SUFFICES ASSUME TimingInv, Given(regs, dev), HasRoom, IsBounded, "FINAL" \in regs.steps
               PROVE  SameRegisters(Apply(GetBudget(Begin(-1, {}, "ok"))))
    BY DEF ReadBackIsStable
  <2> DEFINE c == Begin(-1, {}, "ok")
  <2>1. c.status = "none" /\ c.regs = regs /\ c.dev = dev /\ c.fuse = -1
    BY DEF Begin
  <2>2. Timed(c)
    <3>1. regs \in Sensors /\ dev \in Device
      BY DEF TimingInv
    <3>2. {} \in SUBSET Step /\ "ok" \in Ends /\ -1 \in Int
      BY DEF Ends
    <3> QED
      BY <3>1, <3>2, BeginTimed
  <2>3. dev.budget <= WidestBudget /\ Roomy(regs, dev.budget)
    BY TermsMatch DEF Matches
  <2> HIDE DEF c
  <2>4. c.fuse < 0
    BY <2>1
  <2>5. Apply(GetBudget(c)).status = "none" /\ Apply(GetBudget(c)).regs = regs
    BY <2>1, <2>2, <2>3, <2>4, ReadBackKeeps
  <2> QED
    BY <2>5 DEF SameRegisters, c
<1> HIDE DEF BudgetGiven
<1> QED
  BY <1>1, <1>2, <1>3, TimingInvariant, PTL DEF TimingSpec
-----------------------------------------------------------------------------
(* What a call leaves that keeps a sequence within its budget: one that    *)
(* fits, or one in the last microseconds of room.                          *)
Outcome(t, m) ==
    "FINAL" \in t.steps =>
        Fitting(t, m.budget) \/ (~Roomy(t, m.budget) /\ RoomOf(t, m.budget) >= 0)

(* A budget in bounds, applied where the steps are read exactly: 5 us of   *)
(* room are enough for it to succeed, and a refusal changes nothing.       *)
LEMMA ApplyOutcome ==
    ASSUME NEW c, Timed(c), c.status = "none", Exact(c.regs), NEW us \in Int,
           StartEndOverhead <= us, us <= WidestBudget, Intact(c, SetBudget(c, us))
    PROVE  LET d == SetBudget(c, us) IN
           /\ d.status = "none" => Outcome(d.regs, d.dev)
           /\ d.status # "none" => d.regs = c.regs /\ d.dev = c.dev
           /\ RoomOf(c.regs, us) > 4 => d.status = "none"
<1> DEFINE r == c.regs
           d == SetBudget(c, us)
           a == ShortMicrosIn(r)
           b == PreMicrosIn(r)
           x == ShortCost(r)
           y == PreCost(r)
           room == RoomOf(r, us)
<1>1. Applies(c, d, us) /\ d.regs.steps = r.steps
  BY SetBudgetIs, SetBudgetStep DEF Programs, SameSteps
<1> HIDE DEF d
<1>2. r \in Sensors
  BY DEF Timed
<1>3. /\ a \in Nat /\ b \in Nat /\ room = us - 2870 - a - b /\ room \in Int
      /\ x \in Nat /\ a <= x /\ x <= a + 3 /\ y \in Nat /\ b <= y /\ y <= b + 1
  BY <1>2, RoomIs, CostsExact
<1>4. /\ d.status = "none" => 2870 + x + y <= us
      /\ 2870 + x + y < us => d.status = "none"
      /\ d.status # "none" => d.regs = r /\ d.dev = c.dev
  BY <1>1, <1>3 DEF Applies, StartEndOverhead
<1>5. d.status = "none" /\ "FINAL" \in r.steps
        => d.regs = Programmed(r, RestOf(r, us)) /\ d.dev.budget = us
  BY <1>1 DEF Applies
<1> HIDE DEF r, a, b, x, y, room
<1>6. room > 4 => d.status = "none"
  <2>1. room > 4 => 2870 + x + y < us
    BY <1>3, SMT
  <2> QED
    BY <1>4, <2>1
<1>7. ASSUME d.status = "none", "FINAL" \in d.regs.steps
      PROVE  Fitting(d.regs, us) \/ (~Roomy(d.regs, us) /\ RoomOf(d.regs, us) >= 0)
  <2>1. room >= 0
    BY <1>3, <1>4, <1>7, SMT
  <2>2. d.regs = Programmed(r, RestOf(r, us))
    BY <1>1, <1>5, <1>7 DEF r
  <2>3. RoomOf(d.regs, us) = RoomOf(r, us) /\ (Roomy(d.regs, us) <=> Roomy(r, us))
    BY <1>2, <2>2, RoomKept
  <2>4. Roomy(r, us) => Fitting(d.regs, us)
    BY <1>2, <2>2, RestFits
  <2> QED
    BY <2>1, <2>3, <2>4 DEF room
<1>8. d.status = "none" => Outcome(d.regs, d.dev)
  BY <1>1, <1>5, <1>7 DEF Outcome, r
<1> QED
  BY <1>4, <1>6, <1>8 DEF d, r, room

(* The register of the short steps takes what it is given, or less.        *)
LEMMA MsrcIs ==
    ASSUME NEW n \in Nat, 1 <= n, n < 65536
    PROVE  EncodeMsrcTimeout(n) \in Nat /\ EncodeMsrcTimeout(n) + 1 <= n
<1>1. U16(n) = n
  BY SMT DEF U16
<1>2. CASE n > 256
  BY <1>1, <1>2, SMT DEF EncodeMsrcTimeout
<1>3. CASE n <= 256
  <2>1. EncodeMsrcTimeout(n) = U8(U8(n) - 1)
    BY <1>1, <1>3, SMT DEF EncodeMsrcTimeout
  <2>2. U8(U8(n) - 1) = n - 1
    BY <1>3, SMT DEF U8
  <2> QED
    BY <2>1, <2>2, SMT
<1> QED
  BY <1>2, <1>3

(* us microseconds converted to n macro periods, of which j take.          *)
LEMMA ConvertedMicros ==
    ASSUME NEW us \in Nat, NEW p \in Pclks, us <= WidestBudget, NEW j \in Nat,
           j <= CalcTimeoutMclks(us, p)
    PROVE  Micros(j, p) \in Nat /\ Micros(j, p) <= us + 34
<1> DEFINE n == CalcTimeoutMclks(us, p)
           m == MacroPeriodNs(p)
           h == m \div 2
           s == Micros(j, p)
<1>1. m \in Nat /\ m <= 68637
  BY PeriodIs
<1>2. n \in Nat /\ m * n <= 1000 * us + h
  BY MclksIs DEF Rounds
<1>3. s \in Nat /\ 1000 * s <= j * m
  BY MicrosIs DEF Rounds
<1>4. h \in Nat /\ h <= 34318
  BY <1>1, SMT
<1>5. j <= n
  OBVIOUS
<1> HIDE DEF n, m, h, s
<1>6. m * j <= m * n /\ m * j \in Nat /\ m * n \in Nat
  BY <1>1, <1>2, <1>5, ProductGrows
<1>7. j * m = m * j
  BY <1>1, SMT
<1> DEFINE mj == m * j
           mn == m * n
<1>8. 1000 * s <= mj /\ mj <= mn /\ mn <= 1000 * us + h /\ mj \in Nat /\ mn \in Nat
  BY <1>2, <1>3, <1>6, <1>7
<1> HIDE DEF mj, mn
<1> QED
  BY <1>3, <1>4, <1>8, SMT DEF s

(* The timeout of the short steps written back with another period.        *)
LEMMA ShortRewritten ==
    ASSUME NEW r \in Sensors, NEW t \in Sensors,
           t.msrc = EncodeMsrcTimeout(CalcTimeoutMclks(ShortUs(r),
                        DecodeVcselPeriod(t.prePeriod)))
    PROVE  ShortMicrosOf(t) <= ShortMicrosOf(r) + 35
<1> DEFINE u == ShortUs(r)
           s == ShortMicrosOf(r)
           p == DecodeVcselPeriod(t.prePeriod)
           o == DecodeVcselPeriod(r.prePeriod)
           k == r.msrc + 1
           n == CalcTimeoutMclks(u, p)
           m == MacroPeriodNs(p)
           l == MacroPeriodNs(o)
           h == m \div 2
<1>1. s \in Nat /\ u \in {s, s + 1} /\ s = Micros(k, o)
  BY ShortUsIs DEF ShortMicrosOf
<1>2. p \in Pclks /\ o \in LongPclks /\ o \in Pclks
  BY SensorIs
<1>3. k \in Nat /\ 1 <= k /\ k <= 256
  <2>1. r.msrc \in Uint8
    BY SensorIs
  <2> QED
    BY <2>1, Uint8Is, SMT
<1>4. Rounds(s, k * l, 1000)
  BY <1>1, <1>2, <1>3, MicrosIs
<1>5. m \in Nat /\ 30505 <= m /\ m <= 68637 /\ l \in Nat /\ l <= 68637
  BY <1>2, PeriodIs
<1>6. 45757 <= l
  BY <1>2, SMT DEF LongPclks, MacroPeriodNs
<1> HIDE DEF u, s, p, o, k, n, m, l
<1>7. k * l \in Nat /\ l <= k * l /\ k * l <= 17571072
  <2>1. l * 1 <= l * k /\ l * k <= l * 256 /\ l * k \in Nat
    BY <1>3, <1>5, ProductGrows
  <2>2. l * 1 = l /\ l * 256 = 256 * l /\ l * k = k * l
    BY <1>3, <1>5, SMT
  <2> DEFINE lk == l * k
  <2>3. l <= lk /\ lk <= 256 * l /\ lk \in Nat /\ lk = k * l
    BY <2>1, <2>2
  <2> HIDE DEF lk
  <2>4. lk <= 17571072
    BY <1>5, <2>3, SMT
  <2> QED
    BY <2>3, <2>4
<1>8. 45 <= s /\ s <= 17571
  <2> DEFINE kl == k * l
  <2>1. 1000 * s <= kl /\ kl < 1000 * s + 1000
    BY <1>4 DEF Rounds
  <2>2. kl \in Nat /\ l <= kl /\ kl <= 17571072
    BY <1>7
  <2> HIDE DEF kl
  <2> QED
    BY <1>1, <1>5, <1>6, <2>1, <2>2, SMT
<1>9. u \in Nat /\ 45 <= u /\ u <= 17572 /\ u <= WidestBudget
  BY <1>1, <1>8, SMT DEF WidestBudget
<1>10. Rounds(n, 1000 * u + h, m)
  BY <1>2, <1>9, MclksIs DEF n, m
<1>11. h \in Nat /\ 2 * h <= m /\ m < 2 * h + 2
  BY <1>5, SMT
<1> HIDE DEF h
<1>12. n \in Nat /\ 1 <= n /\ n < 65536
  <2>1. n \in Nat /\ m * n <= 1000 * u + h /\ 1000 * u + h < m * n + m
    BY <1>10 DEF Rounds
  <2>2. n # 0
    <3>1. n = 0 => m * n = 0
      BY <1>5, SMT
    <3>2. ~(1000 * u + h < 0 + m)
      BY <1>5, <1>9, <1>11, SMT
    <3> QED
      BY <2>1, <3>1, <3>2
  <2>3. n * 30505 <= n * m /\ n * m = m * n
    BY <1>5, <2>1, ProductGrows
  <2> DEFINE mn == m * n
  <2>4. n * 30505 <= mn /\ mn <= 1000 * u + h
    BY <2>1, <2>3
  <2>5. mn \in Int
    BY <1>5, <2>1, SMT
  <2> HIDE DEF mn
  <2> QED
    BY <1>5, <1>9, <1>11, <2>1, <2>2, <2>4, <2>5, SMT
<1>13. t.msrc \in Nat /\ t.msrc + 1 <= n
  BY <1>12, MsrcIs DEF n, u, p
<1>14. Micros(t.msrc + 1, p) <= u + 34 /\ Micros(t.msrc + 1, p) \in Nat
  <2>1. t.msrc + 1 \in Nat
    BY <1>13
  <2> QED
    BY <1>2, <1>9, <1>13, <2>1, ConvertedMicros DEF n
<1>15. ShortMicrosOf(t) = Micros(t.msrc + 1, p)
  BY DEF ShortMicrosOf, p
<1> QED
  BY <1>1, <1>14, <1>15, SMT DEF s

(* A pre-range timeout of us microseconds, as the register holds it.       *)
LEMMA PreWritten ==
    ASSUME NEW t \in Sensors, NEW us \in Nat, us <= WidestBudget,
           t.pre = EncodeTimeout(U16(CalcTimeoutMclks(us, DecodeVcselPeriod(t.prePeriod))))
    PROVE  PreMicrosOf(t) \in Nat /\ PreMicrosOf(t) <= us + 69
<1> DEFINE p == DecodeVcselPeriod(t.prePeriod)
           n == CalcTimeoutMclks(us, p)
           v == U16(n)
           d == DecodeTimeout(t.pre)
<1>1. p \in Pclks /\ PreMicrosOf(t) = Micros(d, p) /\ t.pre = EncodeTimeout(v)
  BY SensorIs DEF PreMicrosOf
<1>2. n \in Nat
  BY <1>1, MclksIs DEF Rounds
<1> HIDE DEF p, n
<1>3. v \in Nat /\ v <= n /\ v < 65536
  BY <1>2, SMT DEF U16
<1> HIDE DEF v
<1>4. CASE v = 0
  <2>1. t.pre = 0
    BY <1>1, <1>4 DEF EncodeTimeout
  <2>2. d = 1
    BY <2>1, SMT DEF DecodeTimeout
  <2>3. Micros(1, p) \in Nat /\ Micros(1, p) <= 69
    BY <1>1, SMT DEF Pclks, Micros, MacroPeriodNs
  <2> HIDE DEF d
  <2> QED
    BY <1>1, <2>2, <2>3, SMT
<1>5. CASE v # 0
  <2>1. v \in Clocks
    BY <1>3, SMT DEF Clocks
  <2>2. d \in Nat /\ d <= v
    BY <1>1, <1>5, <2>1, DecodeIs
  <2> HIDE DEF d
  <2>3. d <= n
    BY <1>2, <1>3, <2>2, SMT
  <2>4. Micros(d, p) \in Nat /\ Micros(d, p) <= us + 34
    BY <1>1, <2>2, <2>3, ConvertedMicros DEF n
  <2> QED
    BY <1>1, <2>4, SMT
<1> QED
  BY <1>4, <1>5

(* The registers t take at most 175 us more than r before the final range. *)
Near(r, t) ==
    /\ t.steps = r.steps
    /\ ShortMicrosOf(t) <= ShortMicrosOf(r) + 35
    /\ "PRE" \in r.steps => PreMicrosOf(t) <= PreMicrosOf(r) + 70

LEMMA NearHasRoom ==
    ASSUME NEW r \in Sensors, NEW t \in Sensors, NEW us \in Int, us <= WidestBudget,
           Roomy(r, us), Near(r, t)
    PROVE  RoomOf(t, us) > 4 /\ Exact(t)
<1> DEFINE s == ShortMicrosOf(r)
           v == ShortMicrosOf(t)
           m == PreMicrosOf(r)
           n == PreMicrosOf(t)
           a == ShortMicrosIn(r)
           b == PreMicrosIn(r)
           x == ShortMicrosIn(t)
           y == PreMicrosIn(t)
           room == RoomOf(r, us)
           left == RoomOf(t, us)
<1>1. s \in Nat /\ v \in Nat /\ m \in Nat /\ n \in Nat
  BY ShortUsIs, SensorIs, DecodeNat, MicrosNat DEF PreMicrosOf
<1>2. v <= s + 35 /\ ("PRE" \in r.steps => n <= m + 70) /\ t.steps = r.steps
  BY DEF Near
<1>3. a = (IF "TCC" \in r.steps THEN s + 590 ELSE 0)
            + (IF "DSS" \in r.steps THEN 2 * (s + 690)
               ELSE IF "MSRC" \in r.steps THEN s + 660 ELSE 0)
  BY DEF ShortMicrosIn, Overhead
<1>4. x = (IF "TCC" \in r.steps THEN v + 590 ELSE 0)
            + (IF "DSS" \in r.steps THEN 2 * (v + 690)
               ELSE IF "MSRC" \in r.steps THEN v + 660 ELSE 0)
  BY <1>2 DEF ShortMicrosIn, Overhead
<1>5. b = (IF "PRE" \in r.steps THEN m + 660 ELSE 0)
      /\ y = (IF "PRE" \in r.steps THEN n + 660 ELSE 0)
  BY <1>2 DEF PreMicrosIn, PreMicrosOf, Overhead
<1>6. /\ room = us - 2870 - a - b /\ left = us - 2870 - x - y
      /\ a \in Nat /\ b \in Nat /\ x \in Nat /\ y \in Nat
  BY RoomIs
<1>7. room > 600
  BY SMT DEF Roomy, Overhead, Slack
<1> HIDE DEF s, v, m, n, a, b, x, y, room, left
<1>8. x <= a + 105
  BY <1>1, <1>2, <1>3, <1>4, SMT
<1>9. y <= b + 70
  BY <1>1, <1>2, <1>5, SMT
<1>10. left > 4 /\ left >= 0
  BY <1>6, <1>7, <1>8, <1>9, SMT
<1> QED
  BY <1>10, RoomIs DEF left

(* A timeout written to a register file, and one read from it.             *)
Stepped(r, step, us) ==
    CASE step \in ShortSteps ->
            [r EXCEPT !.msrc = EncodeMsrcTimeout(
                                   CalcTimeoutMclks(us, DecodeVcselPeriod(r.prePeriod)))]
      [] step = "PRE" ->
            [r EXCEPT !.pre = EncodeTimeout(U16(
                                  CalcTimeoutMclks(us, DecodeVcselPeriod(r.prePeriod))))]
      [] step = "FINAL" -> Programmed(r, us)

StepUs(r, step) ==
    CASE step \in ShortSteps -> ShortUs(r)
      [] step = "PRE" -> PreUs(r)
      [] step = "FINAL" -> FinalUs(r)

LEMMA StepKinds ==
    /\ \A step \in Step : step \in ShortSteps \/ step = "PRE" \/ step = "FINAL"
    /\ "PRE" \notin ShortSteps /\ "FINAL" \notin ShortSteps /\ "PRE" # "FINAL"
  BY DEF Step, ShortSteps

LEMMA GetStepIs ==
    ASSUME NEW c, Timed(c), c.status = "none", NEW step \in Step,
           Intact(c, GetStepTimeout(c, step))
    PROVE  LET d == GetStepTimeout(c, step) IN
           /\ d.status = "none" /\ d.regs = c.regs /\ d.dev = c.dev
           /\ d.micros = StepUs(c.regs, step)
<1> DEFINE d == GetStepTimeout(c, step)
<1>1. d.status = "none" /\ d.regs = c.regs /\ d.dev = c.dev
  BY GetStepStep DEF Reads, Smooth
<1>2. CASE step \in ShortSteps
  BY <1>1, <1>2, GetShortLook, StepKinds DEF GetStepTimeout, StepUs
<1>3. CASE step = "PRE"
  <2>1. d = GetPreTimeout(c) /\ StepUs(c.regs, step) = PreUs(c.regs)
    BY <1>3, StepKinds DEF GetStepTimeout, StepUs
  <2> QED
    BY <1>1, <2>1, GetPreLook
<1>4. CASE step = "FINAL"
  <2>1. d = GetFinalTimeout(c) /\ StepUs(c.regs, step) = FinalUs(c.regs)
    BY <1>4, StepKinds DEF GetStepTimeout, StepUs
  <2> QED
    BY <1>1, <2>1, GetFinalLook
<1> QED
  BY <1>2, <1>3, <1>4, StepKinds

LEMMA SetShortIs ==
    ASSUME NEW c, Timed(c), c.status = "none", NEW us \in Int, Intact(c, SetShortTimeout(c, us))
    PROVE  LET d == SetShortTimeout(c, us) IN
           /\ d.status = "none" /\ d.dev = c.dev
           /\ d.regs = [c.regs EXCEPT !.msrc = EncodeMsrcTimeout(
                            CalcTimeoutMclks(us, DecodeVcselPeriod(c.regs.prePeriod)))]
<1> DEFINE e == Transfers(c, 2)
           v == EncodeMsrcTimeout(CalcTimeoutMclks(us, DecodeVcselPeriod(c.regs.prePeriod)))
           r == [e.regs EXCEPT !.msrc = v]
           g == [e EXCEPT !.regs = r]
           d == SetShortTimeout(c, us)
<1>1. Reads(c, e) /\ Timed(e) /\ e.regs = c.regs /\ e.dev = c.dev
  BY TransfersStep DEF Reads, Flows
<1>2. v \in Uint8
  BY SensorTypes, CalcMclksType, MsrcType
<1>3. d = IF e.status = "none" THEN g ELSE e
  BY DEF SetShortTimeout, Then
<1>4. Smooth(c, d) /\ Intact(c, d)
  BY SetShortStep
<1>5. r = [c.regs EXCEPT !.msrc = v]
  BY <1>1
<1> HIDE DEF d, e, v
<1>6. r \in Sensors
  BY <1>1, <1>2, SensorTypes
<1> HIDE DEF r
<1>7. g.fuse = e.fuse /\ g.regs = r /\ g.dev = e.dev /\ g.status = e.status
  BY <1>1, <1>6, AssignRegs
<1> HIDE DEF g
<1>8. d.status = "none"
  BY <1>4 DEF Smooth
<1>9. d = g
  BY <1>3, <1>7, <1>8
<1> QED
  BY <1>1, <1>5, <1>7, <1>8, <1>9 DEF d, v

LEMMA SetPreIs ==
    ASSUME NEW c, Timed(c), c.status = "none", NEW us \in Int, Intact(c, SetPreTimeout(c, us))
    PROVE  LET d == SetPreTimeout(c, us) IN
           /\ d.status = "none" /\ d.dev.budget = c.dev.budget
           /\ d.regs = [c.regs EXCEPT !.pre = EncodeTimeout(U16(
                            CalcTimeoutMclks(us, DecodeVcselPeriod(c.regs.prePeriod))))]
<1> DEFINE e == Transfers(c, 2)
           n == U16(CalcTimeoutMclks(us, DecodeVcselPeriod(c.regs.prePeriod)))
           v == EncodeTimeout(n)
           r == [e.regs EXCEPT !.pre = v]
           m == [e.dev EXCEPT !.preMicros = us]
           g == Both(e, r, m)
           d == SetPreTimeout(c, us)
<1>1. Reads(c, e) /\ Timed(e) /\ e.regs = c.regs /\ e.dev = c.dev
  BY TransfersStep DEF Reads, Flows
<1>2. v \in Encoded
  <2>1. n \in Uint16
    BY SensorTypes, CalcMclksType, Cuts
  <2> HIDE DEF n
  <2>2. n \in Clocks
    BY <2>1, Uint16Is, SMT DEF Clocks
  <2> QED
    BY <2>2, EncodeType
<1>3. d = IF e.status = "none" THEN g ELSE e
  BY DEF SetPreTimeout, Then, Both
<1>4. Smooth(c, d) /\ Intact(c, d)
  BY SetPreStep
<1>5. r = [c.regs EXCEPT !.pre = v]
  BY <1>1
<1> HIDE DEF d, e, v
<1>6. r \in Sensors /\ m \in Device /\ m.budget = e.dev.budget
  BY <1>1, <1>2, SensorTypes DEF Timed, Device
<1> HIDE DEF r, m
<1>7. g.fuse = e.fuse /\ g.regs = r /\ g.dev = m /\ g.status = e.status
  BY <1>1, <1>6, AssignBoth
<1> HIDE DEF g
<1>8. d.status = "none"
  BY <1>4 DEF Smooth
<1>9. d = g
  BY <1>3, <1>7, <1>8
<1> QED
  BY <1>1, <1>5, <1>6, <1>7, <1>8, <1>9 DEF d, v, n

LEMMA SetStepIs ==
    ASSUME NEW c, Timed(c), c.status = "none", NEW step \in Step, NEW us \in Int,
           Intact(c, SetStepTimeout(c, step, us))
    PROVE  LET d == SetStepTimeout(c, step, us) IN
           /\ d.status = "none" /\ d.dev.budget = c.dev.budget
           /\ d.regs = Stepped(c.regs, step, us)
<1> DEFINE d == SetStepTimeout(c, step, us)
<1>1. CASE step \in ShortSteps
  <2>1. d = SetShortTimeout(c, us)
    BY <1>1, StepKinds DEF SetStepTimeout
  <2>2. Stepped(c.regs, step, us) = [c.regs EXCEPT !.msrc = EncodeMsrcTimeout(
                            CalcTimeoutMclks(us, DecodeVcselPeriod(c.regs.prePeriod)))]
    BY <1>1, StepKinds DEF Stepped
  <2> QED
    BY <2>1, <2>2, SetShortIs
<1>2. CASE step = "PRE"
  <2>1. d = SetPreTimeout(c, us)
    BY <1>2, StepKinds DEF SetStepTimeout
  <2>2. Stepped(c.regs, step, us) = [c.regs EXCEPT !.pre = EncodeTimeout(U16(
                            CalcTimeoutMclks(us, DecodeVcselPeriod(c.regs.prePeriod))))]
    BY <1>2, StepKinds DEF Stepped
  <2> QED
    BY <2>1, <2>2, SetPreIs
<1>3. CASE step = "FINAL"
  <2>1. d = SetFinalTimeout(c, us)
    BY <1>3, StepKinds DEF SetStepTimeout
  <2>2. Stepped(c.regs, step, us) = Programmed(c.regs, us)
    BY <1>3, StepKinds DEF Stepped
  <2>3. /\ d.status = "none" /\ d.regs = Programmed(c.regs, us)
        /\ d.dev = [c.dev EXCEPT !.finalMicros = us]
    BY <2>1, SetFinalLook
  <2>4. c.dev \in Device
    BY DEF Timed
  <2> HIDE DEF d
  <2>5. d.dev.budget = c.dev.budget
    BY <2>3, <2>4 DEF Device
  <2> QED
    BY <2>2, <2>3, <2>5 DEF d
<1> QED
  BY <1>1, <1>2, <1>3, StepKinds

(* The pre-range timeout that was read, written back.                      *)
LEMMA PreRewritten ==
    ASSUME NEW r \in Sensors, NEW t \in Sensors, NEW us \in Int, us <= WidestBudget,
           Roomy(r, us), "PRE" \in r.steps,
           t.pre = EncodeTimeout(U16(CalcTimeoutMclks(PreUs(r),
                        DecodeVcselPeriod(t.prePeriod))))
    PROVE  PreMicrosOf(t) <= PreMicrosOf(r) + 70
<1> DEFINE m == PreMicrosOf(r)
           a == ShortMicrosIn(r)
           b == PreMicrosIn(r)
           u == PreUs(r)
           room == RoomOf(r, us)
<1>1. room > 600 /\ room \in Int /\ room = us - 2870 - a - b /\ a \in Nat /\ b \in Nat
  <2>1. room > 600
    BY SMT DEF Roomy, Overhead, Slack
  <2> HIDE DEF room, a, b
  <2> QED
    BY <2>1, RoomIs DEF room, a, b
<1>2. room >= 0
  <2> HIDE DEF room
  <2> QED
    BY <1>1, SMT
<1>3. Exact(r)
  BY <1>2, RoomIs
<1>4. u \in {m, m + 1}
  BY <1>3, CostsExact
<1>5. m \in Nat
  BY SensorIs, DecodeNat, MicrosNat DEF PreMicrosOf
<1>6. b = m + 660
  BY DEF PreMicrosIn, PreMicrosOf, Overhead
<1> HIDE DEF m, a, b, room, u
<1>7. u \in Nat /\ u <= WidestBudget
  BY <1>1, <1>4, <1>5, <1>6, SMT DEF WidestBudget
<1>8. PreMicrosOf(t) \in Nat /\ PreMicrosOf(t) <= u + 69
  BY <1>7, PreWritten DEF u
<1> QED
  BY <1>4, <1>5, <1>8, SMT DEF m

(* A timeout the call writes, of less than 65536 us, can be read exactly;  *)
(* one it takes back costs no more than the rounding.                      *)
LEMMA SteppedExact ==
    ASSUME NEW r \in Sensors, NEW step \in Step, NEW us \in Uint16, Exact(r),
           Stepped(r, step, us) \in Sensors
    PROVE  /\ Exact(Stepped(r, step, us)) /\ Stepped(r, step, us).steps = r.steps
           /\ step = "FINAL" => \A b : /\ RoomOf(Stepped(r, step, us), b) = RoomOf(r, b)
                                       /\ Roomy(Stepped(r, step, us), b) <=> Roomy(r, b)
<1> DEFINE t == Stepped(r, step, us)
           v == EncodeMsrcTimeout(CalcTimeoutMclks(us, DecodeVcselPeriod(r.prePeriod)))
           e == EncodeTimeout(U16(CalcTimeoutMclks(us, DecodeVcselPeriod(r.prePeriod))))
<1>1. us \in Nat /\ us <= 65535
  BY Uint16Is, SMT
<1>2. CASE step \in ShortSteps
  <2>1. t = [r EXCEPT !.msrc = v] /\ step # "FINAL"
    BY <1>2, StepKinds DEF Stepped
  <2> HIDE DEF v, t
  <2>2. t.steps = r.steps /\ t.pre = r.pre /\ t.prePeriod = r.prePeriod
    BY <2>1 DEF Sensors
  <2> QED
    BY <2>1, <2>2 DEF Exact, PreMicrosOf, t
<1>3. CASE step = "PRE"
  <2>1. t = [r EXCEPT !.pre = e] /\ step # "FINAL"
    BY <1>3, StepKinds DEF Stepped
  <2> HIDE DEF t
  <2>2. t.steps = r.steps /\ t.pre = e /\ t.prePeriod = r.prePeriod
    BY <2>1 DEF Sensors
  <2>3. us <= WidestBudget
    BY <1>1, SMT DEF WidestBudget
  <2>4. PreMicrosOf(t) \in Nat /\ PreMicrosOf(t) <= us + 69
    BY <1>1, <2>2, <2>3, PreWritten DEF t
  <2> HIDE DEF e
  <2>5. PreMicrosOf(t) <= WidestBudget
    BY <1>1, <2>4, SMT DEF WidestBudget
  <2> QED
    BY <2>1, <2>2, <2>5 DEF Exact, t
<1>4. CASE step = "FINAL"
  <2>1. t = Programmed(r, us)
    BY <1>4, StepKinds DEF Stepped
  <2>2. t.steps = r.steps /\ t.pre = r.pre /\ t.prePeriod = r.prePeriod
    BY <2>1 DEF Sensors, Programmed
  <2> HIDE DEF t
  <2>3. \A b : RoomOf(t, b) = RoomOf(r, b) /\ (Roomy(t, b) <=> Roomy(r, b))
    BY <2>1, RoomKept
  <2> QED
    BY <2>2, <2>3 DEF Exact, PreMicrosOf, t
<1> QED
  BY <1>2, <1>3, <1>4, StepKinds

LEMMA SteppedBack ==
    ASSUME NEW r \in Sensors, NEW step \in Step \ {"FINAL"}, NEW us, NEW b \in Int,
           b <= WidestBudget, Roomy(r, b),
           Stepped(r, step, us) \in Sensors,
           Stepped(Stepped(r, step, us), step, StepUs(r, step)) \in Sensors
    PROVE  Near(r, Stepped(Stepped(r, step, us), step, StepUs(r, step)))
<1> DEFINE t == Stepped(r, step, us)
           w == Stepped(t, step, StepUs(r, step))
           v == EncodeMsrcTimeout(CalcTimeoutMclks(us, DecodeVcselPeriod(r.prePeriod)))
           e == EncodeTimeout(U16(CalcTimeoutMclks(us, DecodeVcselPeriod(r.prePeriod))))
<1>1. ShortMicrosOf(r) \in Nat /\ PreMicrosOf(r) \in Nat
  BY ShortUsIs, SensorIs, DecodeNat, MicrosNat DEF PreMicrosOf
<1>2. CASE step \in ShortSteps
  <2> DEFINE x == EncodeMsrcTimeout(CalcTimeoutMclks(ShortUs(r), DecodeVcselPeriod(t.prePeriod)))
  <2>1. t = [r EXCEPT !.msrc = v] /\ w = [t EXCEPT !.msrc = x]
    BY <1>2, StepKinds DEF Stepped, StepUs
  <2> HIDE DEF t, w, v
  <2>2. t.steps = r.steps /\ t.pre = r.pre /\ t.prePeriod = r.prePeriod
    BY <2>1 DEF Sensors
  <2>3. w.steps = r.steps /\ w.pre = r.pre /\ w.prePeriod = r.prePeriod /\ w.msrc = x
    <3> HIDE DEF x
    <3> QED
      BY <2>1, <2>2 DEF Sensors, t
  <2>4. ShortMicrosOf(w) <= ShortMicrosOf(r) + 35
    BY <2>2, <2>3, ShortRewritten DEF w, t
  <2>5. PreMicrosOf(w) = PreMicrosOf(r) /\ PreMicrosOf(r) <= PreMicrosOf(r) + 70
    BY <1>1, <2>3 DEF PreMicrosOf
  <2> QED
    BY <2>3, <2>4, <2>5 DEF Near, w, t
<1>3. CASE step = "PRE"
  <2> DEFINE x == EncodeTimeout(U16(CalcTimeoutMclks(PreUs(r), DecodeVcselPeriod(t.prePeriod))))
  <2>1. t = [r EXCEPT !.pre = e] /\ w = [t EXCEPT !.pre = x]
    BY <1>3, StepKinds DEF Stepped, StepUs
  <2> HIDE DEF t, w, e
  <2>2. t.steps = r.steps /\ t.msrc = r.msrc /\ t.prePeriod = r.prePeriod
    BY <2>1 DEF Sensors
  <2>3. w.steps = r.steps /\ w.msrc = r.msrc /\ w.prePeriod = r.prePeriod /\ w.pre = x
    <3> HIDE DEF x
    <3> QED
      BY <2>1, <2>2 DEF Sensors, t
  <2>4. ShortMicrosOf(w) = ShortMicrosOf(r) /\ ShortMicrosOf(r) <= ShortMicrosOf(r) + 35
    BY <1>1, <2>3 DEF ShortMicrosOf
  <2>5. "PRE" \in r.steps => PreMicrosOf(w) <= PreMicrosOf(r) + 70
    BY <2>2, <2>3, PreRewritten DEF w, t
  <2> QED
    BY <2>3, <2>4, <2>5 DEF Near, w, t
<1> QED
  BY <1>2, <1>3, StepKinds

(* A sequence within a budget in bounds, as a call finds it.               *)
Within(c) ==
    /\ Roomy(c.regs, c.dev.budget)
    /\ StartEndOverhead <= c.dev.budget /\ c.dev.budget <= WidestBudget

LEMMA WithinExact == \A c : Timed(c) /\ Within(c) => Exact(c.regs)
<1> SUFFICES ASSUME NEW c, Timed(c), Within(c) PROVE Exact(c.regs)
  OBVIOUS
<1> DEFINE room == RoomOf(c.regs, c.dev.budget)
<1>1. c.regs \in Sensors /\ c.dev.budget \in Int /\ c.dev.budget <= WidestBudget
  BY SensorTypes DEF Timed, Within
<1>2. room \in Int
  BY <1>1, RoomIs
<1>3. room > 600
  BY SMT DEF Within, Roomy, Overhead, Slack
<1>4. room >= 0
  <2> HIDE DEF room
  <2> QED
    BY <1>2, <1>3, SMT
<1> QED
  BY <1>1, <1>4, RoomIs

(* Taking a timeout back leaves room, and applying the budget succeeds.    *)
LEMMA TakeBackOutcome ==
    ASSUME NEW c, Timed(c), Within(c), NEW step \in Step \ {"FINAL"}, NEW us,
           NEW x, Timed(x), x.regs = Stepped(c.regs, step, us), x.dev.budget = c.dev.budget,
           Intact(x, OrTakeBack(x, step, StepUs(c.regs, step))), x.status # "none"
    PROVE  LET d == OrTakeBack(x, step, StepUs(c.regs, step)) IN
           d.status = "none" /\ Outcome(d.regs, d.dev)
<1> DEFINE v == StepUs(c.regs, step)
           y == Overwrite(x)
           z == SetStepTimeout(y, step, v)
           a == Apply(z)
           b == c.dev.budget
<1>1. OrTakeBack(x, step, v) = IF z.status = "none" THEN a ELSE z
  BY DEF OrTakeBack, Then
<1>2. step \in Step
  OBVIOUS
<1>3. v \in Int
  BY <1>2, TimeoutTypes, StepKinds DEF StepUs
<1>4. Intact(x, OrTakeBack(x, step, v))
  OBVIOUS
<1>5. v = StepUs(c.regs, step)
  OBVIOUS
<1> HIDE DEF v
<1>6. /\ Flows(x, y) /\ Timed(y) /\ y.status = "none"
      /\ y.regs = x.regs /\ y.dev = x.dev
  BY AssignLocal, Names, FlowsTimed DEF Overwrite
<1> HIDE DEF y
<1>7. Flows(y, z) /\ Timed(z)
  BY <1>2, <1>3, <1>6, SetStepStep, FlowsTimed DEF Programs
<1>8. Intact(y, z) => z.status = "none" /\ z.dev.budget = b /\ z.regs = Stepped(y.regs, step, v)
  BY <1>2, <1>3, <1>6, SetStepIs
<1> HIDE DEF z
<1>9. Flows(x, z)
  BY <1>6, <1>7, FlowsChain
<1>10. z.status = "none" => Flows(z, a)
  BY <1>7, ApplyFine
<1>11. Intact(x, z) /\ (z.status = "none" => Intact(z, a))
  <2>1. CASE z.status = "none"
    <3>1. Intact(x, a) /\ Flows(z, a)
      BY <1>1, <1>4, <1>10, <2>1
    <3> HIDE DEF a
    <3> QED
      BY <1>9, <3>1, FlowsChain
  <2>2. CASE z.status # "none"
    BY <1>1, <1>4, <2>2
  <2> QED
    BY <2>1, <2>2
<1>12. Intact(y, z)
  BY <1>6, <1>7, <1>11, FlowsChain
<1>13. /\ z.status = "none" /\ z.dev.budget = b /\ Intact(z, a)
       /\ z.regs = Stepped(Stepped(c.regs, step, us), step, v)
  BY <1>6, <1>8, <1>11, <1>12
<1>14. c.regs \in Sensors /\ x.regs \in Sensors /\ z.regs \in Sensors /\ b \in Int
  BY <1>7, SensorTypes DEF Timed
<1>15. Roomy(c.regs, b) /\ StartEndOverhead <= b /\ b <= WidestBudget
  BY DEF Within
<1>16. Near(c.regs, z.regs)
  BY <1>5, <1>13, <1>14, <1>15, SteppedBack
<1>17. RoomOf(z.regs, b) > 4 /\ Exact(z.regs)
  BY <1>14, <1>15, <1>16, NearHasRoom
<1>18. a = SetBudget(z, b)
  BY <1>13 DEF Apply
<1> HIDE DEF a, b
<1>19. a.status = "none" /\ Outcome(a.regs, a.dev)
  BY <1>7, <1>13, <1>14, <1>15, <1>17, <1>18, ApplyOutcome
<1> QED
  BY <1>1, <1>13, <1>19 DEF v

LEMMA ChangeStepOutcome ==
    ASSUME NEW c, Timed(c), c.status = "none", Within(c), NEW step \in Step, NEW us \in Uint16,
           Intact(c, ChangeStepTimeout(c, step, us))
    PROVE  LET d == ChangeStepTimeout(c, step, us) IN Outcome(d.regs, d.dev)
<1> DEFINE g == GetStepTimeout(c, step)
           y == SetStepTimeout(g, step, us)
           z == Apply(y)
           a == OrTakeBack(z, step, g.micros)
           e == IF y.status = "none" THEN a ELSE y
           d == IF g.status = "none" THEN e ELSE g
           b == c.dev.budget
<1>1. ChangeStepTimeout(c, step, us) = d
  BY DEF ChangeStepTimeout, Exchange, Then
<1>2. Intact(c, d)
  BY <1>1
<1>3. us \in Int
  BY WordsAreInts
<1>4. Flows(c, g) /\ Timed(g)
  BY GetStepStep, FlowsTimed DEF Reads
<1>5. Intact(c, g) => /\ g.status = "none" /\ g.regs = c.regs /\ g.dev = c.dev
                      /\ g.micros = StepUs(c.regs, step)
  BY GetStepIs
<1>6. g.micros \in Int
  BY <1>4 DEF Timed
<1> HIDE DEF g
<1>7. Flows(g, y) /\ Timed(y)
  BY <1>3, <1>4, SetStepStep, FlowsTimed DEF Programs
<1>8. g.status = "none" /\ Intact(g, y)
        => y.status = "none" /\ y.dev.budget = g.dev.budget /\ y.regs = Stepped(g.regs, step, us)
  BY <1>3, <1>4, SetStepIs
<1> HIDE DEF y
<1>9. y.status = "none" => Flows(y, z) /\ Timed(z)
  BY <1>7, ApplyFine, FlowsTimed
<1>10. y.status = "none" => z = SetBudget(y, y.dev.budget)
  BY DEF Apply
<1> HIDE DEF z
<1>11. y.status = "none" => Flows(z, a)
  <2>1. z.status = "none" => a = z
    BY DEF OrTakeBack
  <2> QED
    BY <1>6, <1>9, <2>1, FlowsSame, TakeBackFlows DEF Reads
<1>12. a = OrTakeBack(z, step, g.micros)
  OBVIOUS
<1> HIDE DEF a
<1>13. Flows(g, e)
  <2>1. y.status = "none" => Flows(y, a)
    BY <1>7, <1>9, <1>11, FlowsChain
  <2> QED
    BY <1>4, <1>7, <2>1, FlowsChain
<1>14. Intact(c, g) /\ (g.status = "none" => Intact(g, e))
  <2>1. CASE g.status = "none"
    <3>1. Intact(c, e)
      BY <1>2, <2>1
    <3> HIDE DEF e
    <3> QED
      BY <1>4, <1>13, <3>1, FlowsChain
  <2>2. CASE g.status # "none"
    BY <1>2, <2>2
  <2> QED
    BY <2>1, <2>2
<1>15. /\ g.status = "none" /\ g.regs = c.regs /\ g.dev = c.dev
       /\ g.micros = StepUs(c.regs, step) /\ Intact(g, e)
  BY <1>5, <1>14
<1>16. Intact(g, y) /\ (y.status = "none" => Intact(y, z) /\ Intact(z, a))
  <2>1. CASE y.status = "none"
    <3>1. Flows(g, z) /\ Flows(z, a) /\ Intact(g, a)
      BY <1>4, <1>7, <1>9, <1>11, <1>15, <2>1, FlowsChain
    <3>2. Intact(g, z) /\ Intact(z, a)
      BY <1>4, <3>1, FlowsChain
    <3> QED
      BY <1>4, <1>7, <1>9, <2>1, <3>2, FlowsChain
  <2>2. CASE y.status # "none"
    BY <1>15, <2>2
  <2> QED
    BY <2>1, <2>2
<1>17. /\ y.status = "none" /\ y.dev.budget = b /\ y.regs = Stepped(c.regs, step, us)
       /\ Intact(y, z) /\ Intact(z, a) /\ Timed(z)
  BY <1>8, <1>9, <1>15, <1>16
<1>18. d = a
  BY <1>15, <1>17
<1>19. c.regs \in Sensors /\ y.regs \in Sensors /\ b \in Int /\ Exact(c.regs)
  BY <1>7, WithinExact, SensorTypes DEF Timed
<1>20. Roomy(c.regs, b) /\ StartEndOverhead <= b /\ b <= WidestBudget
  BY DEF Within
<1>21. /\ Exact(y.regs)
       /\ step = "FINAL" => RoomOf(y.regs, b) = RoomOf(c.regs, b)
  BY <1>17, <1>19, SteppedExact
<1> HIDE DEF d, b
<1>22. /\ z.status = "none" => Outcome(z.regs, z.dev)
       /\ z.status # "none" => z.regs = y.regs /\ z.dev = y.dev
       /\ RoomOf(y.regs, b) > 4 => z.status = "none"
  BY <1>7, <1>10, <1>17, <1>19, <1>20, <1>21, ApplyOutcome
<1>23. CASE z.status = "none"
  <2>1. a = z
    BY <1>12, <1>23 DEF OrTakeBack
  <2> QED
    BY <1>1, <1>18, <1>22, <1>23, <2>1
<1>24. CASE z.status # "none"
  <2>1. step # "FINAL"
    <3>1. RoomOf(c.regs, b) > 600 /\ RoomOf(c.regs, b) \in Int
      <4>1. RoomOf(c.regs, b) > 600
        BY <1>20, SMT DEF Roomy, Overhead, Slack
      <4> QED
        BY <1>19, <4>1, RoomIs
    <3>2. RoomOf(c.regs, b) > 4
      BY <3>1, SMT
    <3> QED
      BY <1>21, <1>22, <1>24, <3>2
  <2>2. z.regs = Stepped(c.regs, step, us) /\ z.dev.budget = c.dev.budget
    BY <1>17, <1>22, <1>24 DEF b
  <2>3. Outcome(a.regs, a.dev)
    BY <1>12, <1>15, <1>17, <1>24, <2>1, <2>2, TakeBackOutcome
  <2> QED
    BY <1>1, <1>18, <2>3
<1> QED
  BY <1>23, <1>24

LEMMA WriteLimitsIs ==
    ASSUME NEW c, Timed(c), c.status = "none", NEW n \in Nat, NEW r \in Sensors,
           Intact(c, WriteLimits(c, n, r))
    PROVE  LET d == WriteLimits(c, n, r) IN d.status = "none" /\ d.regs = r /\ d.dev = c.dev
<1> DEFINE t == Transfers(c, n)
           d == [t EXCEPT !.regs = r]
           e == [c EXCEPT !.fuse = -1]
<1>1. WriteLimits(c, n, r) = IF c.fuse = 0 THEN e ELSE d
  BY DEF WriteLimits
<1>2. Reads(c, t) /\ Timed(t)
  BY TransfersStep DEF Reads, Flows
<1> HIDE DEF t
<1>3. d.fuse = t.fuse /\ d.status = t.status /\ d.regs = r /\ d.dev = t.dev
  BY <1>2, AssignRegs
<1> HIDE DEF d
<1>4. c.fuse # 0
  <2>1. e.fuse = -1
    BY DEF Timed, Fields
  <2> HIDE DEF e
  <2>2. c.fuse = 0 => ~Intact(c, e)
    BY <2>1, SMT DEF Intact
  <2> QED
    BY <1>1, <2>2
<1>5. Intact(c, t)
  BY <1>1, <1>3, <1>4 DEF Intact
<1> QED
  BY <1>1, <1>2, <1>3, <1>4, <1>5 DEF Reads, Smooth

(* With a new pre-range period, the timeouts are the old ones rewritten.   *)
LEMMA ChangePreIs ==
    ASSUME NEW c, Timed(c), c.status = "none", NEW p \in PrePeriods,
           Intact(c, ChangePrePeriod(c, p))
    PROVE  LET d == ChangePrePeriod(c, p)
               o == DecodeVcselPeriod(d.regs.prePeriod) IN
           /\ d.status = "none" /\ d.regs.steps = c.regs.steps
           /\ d.dev.budget = c.dev.budget
           /\ d.regs.pre = EncodeTimeout(U16(CalcTimeoutMclks(PreUs(c.regs), o)))
           /\ d.regs.msrc = EncodeMsrcTimeout(CalcTimeoutMclks(ShortUs(c.regs), o))
<1> DEFINE r == [c.regs EXCEPT !.preLimits = p]
           d == WriteLimits(c, 2, r)
           pre == IF d.status = "none" THEN GetPreTimeout(d) ELSE d
           short == IF pre.status = "none" THEN GetShortTimeout(pre) ELSE pre
           t == IF short.status = "none" THEN Transfer(short) ELSE short
           v == [t.regs EXCEPT !.prePeriod = EncodeVcselPeriod(p)]
           w == [t EXCEPT !.regs = v]
           period == IF t.status = "none" THEN w ELSE t
           x == IF period.status = "none" THEN SetPreTimeout(period, pre.micros) ELSE period
           y == IF x.status = "none" THEN SetShortTimeout(x, short.micros) ELSE x
<1>1. ChangePrePeriod(c, p) = y
  BY Zenon DEF ChangePrePeriod, Then
<1>2. Intact(c, y)
  <2> HIDE DEF y
  <2> QED
    BY <1>1
<1>3. c.regs \in Sensors
  BY DEF Timed
<1>4. /\ r \in Sensors /\ r.steps = c.regs.steps /\ r.pre = c.regs.pre
      /\ r.prePeriod = c.regs.prePeriod /\ r.msrc = c.regs.msrc
  BY <1>3 DEF Sensors
<1> HIDE DEF r
<1>5. Programs(c, d) /\ Timed(d)
  BY <1>4, WriteLimitsStep, ProgramsTimed
<1>6. Intact(c, d) => d.status = "none" /\ d.regs = r /\ d.dev = c.dev
  BY <1>4, WriteLimitsIs
<1> HIDE DEF d
<1>7. Programs(d, pre) /\ Timed(pre)
  BY <1>5, GetPreStep, ProgramsTimed, ReadsPrograms
<1>8. d.status = "none" /\ Intact(d, pre)
        => pre.status = "none" /\ pre.regs = d.regs /\ pre.dev = d.dev /\ pre.micros = PreUs(d.regs)
  BY <1>5, GetPreLook DEF Looks, Reads, Smooth
<1> HIDE DEF pre
<1>9. Programs(pre, short) /\ Timed(short)
  BY <1>7, GetShortStep, ProgramsTimed, ReadsPrograms
<1>10. pre.status = "none" /\ Intact(pre, short)
        => /\ short.status = "none" /\ short.regs = pre.regs /\ short.dev = pre.dev
           /\ short.micros = ShortUs(pre.regs)
  BY <1>7, GetShortLook DEF Looks, Reads, Smooth
<1> HIDE DEF short
<1>11. Programs(short, t) /\ Timed(t)
  BY <1>9, TransferStep, ProgramsTimed, ReadsPrograms
<1>12. short.status = "none" /\ Intact(short, t)
         => t.status = "none" /\ t.regs = short.regs /\ t.dev = short.dev
  BY <1>9, TransferStep DEF Reads, Smooth
<1> HIDE DEF t
<1>13. t.regs \in Sensors
  BY <1>11 DEF Timed
<1>14. /\ v \in Sensors /\ v.steps = t.regs.steps /\ v.pre = t.regs.pre /\ v.msrc = t.regs.msrc
       /\ v.prePeriod = EncodeVcselPeriod(p)
  BY <1>13, PeriodsEncoded DEF Sensors
<1> HIDE DEF v
<1>15. Programs(t, w) /\ w.regs = v /\ w.dev = t.dev /\ w.status = t.status
  BY <1>11, <1>14, AssignRegs DEF Programs, SameSteps
<1> HIDE DEF w
<1>16. Programs(t, period) /\ Timed(period)
  BY <1>11, <1>15, ProgramsTimed
<1>17. t.status = "none" => period.status = "none" /\ period.regs = v /\ period.dev = t.dev
  BY <1>15
<1> HIDE DEF period
<1>18. pre.micros \in Int /\ short.micros \in Int
  BY <1>7, <1>9 DEF Timed
<1>19. Programs(period, x) /\ Timed(x)
  BY <1>16, <1>18, SetPreStep, ProgramsTimed
<1>20. period.status = "none" /\ Intact(period, x)
         => /\ x.status = "none" /\ x.dev.budget = period.dev.budget
            /\ x.regs = [period.regs EXCEPT !.pre = EncodeTimeout(U16(CalcTimeoutMclks(
                             pre.micros, DecodeVcselPeriod(period.regs.prePeriod))))]
  BY <1>16, <1>18, SetPreIs
<1> HIDE DEF x
<1>21. Programs(x, y) /\ Timed(y)
  BY <1>18, <1>19, SetShortStep, ProgramsTimed
<1>22. x.status = "none" /\ Intact(x, y)
         => /\ y.status = "none" /\ y.dev = x.dev
            /\ y.regs = [x.regs EXCEPT !.msrc = EncodeMsrcTimeout(CalcTimeoutMclks(
                             short.micros, DecodeVcselPeriod(x.regs.prePeriod)))]
  BY <1>18, <1>19, SetShortIs
<1> HIDE DEF y
<1>23. Programs(c, pre) /\ Programs(c, short) /\ Programs(c, t) /\ Programs(c, period)
       /\ Programs(c, x)
  <2>1. Programs(c, pre)
    BY <1>5, <1>7, ProgramsChain
  <2>2. Programs(c, short)
    BY <1>9, <2>1, ProgramsChain
  <2>3. Programs(c, t)
    BY <1>11, <2>2, ProgramsChain
  <2>4. Programs(c, period)
    BY <1>16, <2>3, ProgramsChain
  <2>5. Programs(c, x)
    BY <1>19, <2>4, ProgramsChain
  <2> QED
    BY <2>1, <2>2, <2>3, <2>4, <2>5
<1>24. Intact(c, x) /\ Intact(x, y)
  BY <1>2, <1>21, <1>23, ProgramsChain
<1>25. Intact(c, period) /\ Intact(period, x)
  BY <1>19, <1>23, <1>24, ProgramsChain
<1>26. Intact(c, t) /\ Intact(t, period)
  BY <1>16, <1>23, <1>25, ProgramsChain
<1>27. Intact(c, short) /\ Intact(short, t)
  BY <1>11, <1>23, <1>26, ProgramsChain
<1>28. Intact(c, pre) /\ Intact(pre, short)
  BY <1>9, <1>23, <1>27, ProgramsChain
<1>29. Intact(c, d) /\ Intact(d, pre)
  BY <1>5, <1>7, <1>28, ProgramsChain
<1>30. /\ pre.status = "none" /\ pre.regs = r /\ pre.dev = c.dev /\ pre.micros = PreUs(r)
  BY <1>6, <1>8, <1>29
<1>31. short.status = "none" /\ short.regs = r /\ short.dev = c.dev /\ short.micros = ShortUs(r)
  BY <1>10, <1>28, <1>30
<1>32. period.status = "none" /\ period.regs = v /\ period.dev = c.dev /\ t.regs = r
  BY <1>12, <1>17, <1>26, <1>27, <1>31
<1>33. PreUs(r) = PreUs(c.regs) /\ ShortUs(r) = ShortUs(c.regs)
  BY <1>4 DEF PreUs, ShortUs
<1> DEFINE o == DecodeVcselPeriod(EncodeVcselPeriod(p))
           e == EncodeTimeout(U16(CalcTimeoutMclks(PreUs(c.regs), o)))
           f == EncodeMsrcTimeout(CalcTimeoutMclks(ShortUs(c.regs), o))
<1>34. x.status = "none" /\ x.dev.budget = c.dev.budget /\ x.regs = [v EXCEPT !.pre = e]
  BY <1>14, <1>20, <1>25, <1>30, <1>32, <1>33
<1> HIDE DEF e
<1>35. /\ x.regs.steps = v.steps /\ x.regs.pre = e /\ x.regs.prePeriod = v.prePeriod
       /\ x.regs \in Sensors
  <2>1. v \in Sensors
    BY <1>14
  <2>2. x.regs.steps = v.steps /\ x.regs.pre = e /\ x.regs.prePeriod = v.prePeriod
    BY <1>34, <2>1 DEF Sensors
  <2> QED
    BY <1>19, <2>2 DEF Timed
<1>36. y.status = "none" /\ y.dev = x.dev /\ y.regs = [x.regs EXCEPT !.msrc = f]
  BY <1>14, <1>22, <1>24, <1>31, <1>33, <1>34, <1>35
<1> HIDE DEF f
<1>37. /\ y.regs.steps = x.regs.steps /\ y.regs.pre = x.regs.pre /\ y.regs.msrc = f
       /\ y.regs.prePeriod = x.regs.prePeriod
  BY <1>35, <1>36 DEF Sensors
<1>38. DecodeVcselPeriod(y.regs.prePeriod) = o /\ y.regs.steps = c.regs.steps
  BY <1>4, <1>14, <1>32, <1>35, <1>37
<1> HIDE DEF o
<1> QED
  BY <1>1, <1>34, <1>35, <1>36, <1>37, <1>38 DEF e, f

(* With a new final range period, the steps before it are as they were.    *)
LEMMA ChangeFinalIs ==
    ASSUME NEW c, Timed(c), c.status = "none", NEW p \in FinalPeriods,
           Intact(c, ChangeFinalPeriod(c, p))
    PROVE  LET d == ChangeFinalPeriod(c, p) IN
           /\ d.status = "none" /\ d.regs.steps = c.regs.steps
           /\ d.dev.budget = c.dev.budget /\ d.regs.msrc = c.regs.msrc
           /\ d.regs.pre = c.regs.pre /\ d.regs.prePeriod = c.regs.prePeriod
<1> DEFINE r == [c.regs EXCEPT !.finalLimits = p]
           d == WriteLimits(c, 7, r)
           final == IF d.status = "none" THEN GetFinalTimeout(d) ELSE d
           t == IF final.status = "none" THEN Transfer(final) ELSE final
           v == [t.regs EXCEPT !.finalPeriod = EncodeVcselPeriod(p)]
           w == [t EXCEPT !.regs = v]
           period == IF t.status = "none" THEN w ELSE t
           x == IF period.status = "none" THEN SetFinalTimeout(period, final.micros) ELSE period
<1>1. ChangeFinalPeriod(c, p) = x
  BY DEF ChangeFinalPeriod, Then
<1>2. Intact(c, x)
  BY <1>1
<1>3. c.regs \in Sensors
  BY DEF Timed
<1>4. /\ r \in Sensors /\ r.steps = c.regs.steps /\ r.pre = c.regs.pre
      /\ r.prePeriod = c.regs.prePeriod /\ r.msrc = c.regs.msrc
  BY <1>3 DEF Sensors
<1> HIDE DEF r
<1>5. Programs(c, d) /\ Timed(d)
  BY <1>4, WriteLimitsStep, ProgramsTimed
<1>6. Intact(c, d) => d.status = "none" /\ d.regs = r /\ d.dev = c.dev
  BY <1>4, WriteLimitsIs
<1> HIDE DEF d
<1>7. Programs(d, final) /\ Timed(final)
  BY <1>5, GetFinalStep, ProgramsTimed, ReadsPrograms
<1>8. d.status = "none" /\ Intact(d, final)
        => final.status = "none" /\ final.regs = d.regs /\ final.dev = d.dev
  BY <1>5, GetFinalStep DEF Reads, Smooth
<1> HIDE DEF final
<1>9. Programs(final, t) /\ Timed(t)
  BY <1>7, TransferStep, ProgramsTimed, ReadsPrograms
<1>10. final.status = "none" /\ Intact(final, t)
         => t.status = "none" /\ t.regs = final.regs /\ t.dev = final.dev
  BY <1>7, TransferStep DEF Reads, Smooth
<1> HIDE DEF t
<1>11. t.regs \in Sensors
  BY <1>9 DEF Timed
<1>12. /\ v \in Sensors /\ v.steps = t.regs.steps /\ v.pre = t.regs.pre /\ v.msrc = t.regs.msrc
       /\ v.prePeriod = t.regs.prePeriod
  BY <1>11, PeriodsEncoded DEF Sensors
<1> HIDE DEF v
<1>13. Programs(t, w) /\ w.regs = v /\ w.dev = t.dev /\ w.status = t.status
  BY <1>9, <1>12, AssignRegs DEF Programs, SameSteps
<1> HIDE DEF w
<1>14. Programs(t, period) /\ Timed(period)
  BY <1>9, <1>13, ProgramsTimed
<1>15. t.status = "none" => period.status = "none" /\ period.regs = v /\ period.dev = t.dev
  BY <1>13
<1> HIDE DEF period
<1>16. final.micros \in Int
  BY <1>7 DEF Timed
<1>17. Programs(period, x) /\ Timed(x)
  BY <1>14, <1>16, SetFinalStep, ProgramsTimed
<1>18. period.status = "none" /\ Intact(period, x)
         => /\ x.status = "none" /\ x.regs = Programmed(period.regs, final.micros)
            /\ x.dev = [period.dev EXCEPT !.finalMicros = final.micros]
  BY <1>14, <1>16, SetFinalLook
<1> HIDE DEF x
<1>19. Programs(c, final) /\ Programs(c, t) /\ Programs(c, period)
  <2>1. Programs(c, final)
    BY <1>5, <1>7, ProgramsChain
  <2>2. Programs(c, t)
    BY <1>9, <2>1, ProgramsChain
  <2>3. Programs(c, period)
    BY <1>14, <2>2, ProgramsChain
  <2> QED
    BY <2>1, <2>2, <2>3
<1>20. Intact(c, period) /\ Intact(period, x)
  BY <1>2, <1>17, <1>19, ProgramsChain
<1>21. Intact(c, t) /\ Intact(t, period)
  BY <1>14, <1>19, <1>20, ProgramsChain
<1>22. Intact(c, final) /\ Intact(final, t)
  BY <1>9, <1>19, <1>21, ProgramsChain
<1>23. Intact(c, d) /\ Intact(d, final)
  BY <1>5, <1>7, <1>22, ProgramsChain
<1>24. final.status = "none" /\ final.regs = r /\ final.dev = c.dev
  BY <1>6, <1>8, <1>23
<1>25. period.status = "none" /\ period.regs = v /\ period.dev = c.dev /\ t.regs = r
  BY <1>10, <1>15, <1>22, <1>24
<1>26. /\ x.status = "none" /\ x.regs = Programmed(v, final.micros)
       /\ x.dev = [c.dev EXCEPT !.finalMicros = final.micros]
  BY <1>18, <1>20, <1>25
<1>27. x.dev.budget = c.dev.budget
  <2>1. c.dev \in Device
    BY DEF Timed
  <2> QED
    BY <1>26, <2>1 DEF Device
<1>28. /\ x.regs.steps = v.steps /\ x.regs.pre = v.pre /\ x.regs.msrc = v.msrc
       /\ x.regs.prePeriod = v.prePeriod
  BY <1>12, <1>26 DEF Sensors, Programmed
<1> QED
  BY <1>1, <1>4, <1>12, <1>25, <1>26, <1>27, <1>28

(* A phase calibration leaves the registers as they were, or its own       *)
(* sequence, in which no final range step runs.                            *)
LEMMA CalibrationLeaves ==
    ASSUME NEW c, Timed(c), c.status = "none", c.regs.steps = c.dev.steps
    PROVE  LET d == PerformPhaseCalibration(c) IN
           d.dev = c.dev /\ (d.regs = c.regs \/ d.regs.steps = {})
<1> DEFINE t == Transfer(c)
           r == [t.regs EXCEPT !.steps = {}]
           a == [t EXCEPT !.regs = r]
           running == IF t.status = "none" THEN a ELSE t
           s == IF running.cal = "ok" THEN "none" ELSE running.cal
           b == [running EXCEPT !.status = s]
           done == IF running.status = "none" THEN b ELSE running
           u == IF done.status = "none" THEN Transfer(done) ELSE done
           v == [u.regs EXCEPT !.steps = u.dev.steps]
           e == [u EXCEPT !.regs = v]
           d == PerformPhaseCalibration(c)
<1> DEFINE Left(x) == x.regs = c.regs \/ x.regs = [c.regs EXCEPT !.steps = {}]
<1>1. d = IF u.status = "none" THEN e ELSE u
  BY DEF PerformPhaseCalibration, Then
<1>2. Timed(t) /\ t.regs = c.regs /\ t.dev = c.dev
  BY TransferStep, FlowsTimed DEF Reads
<1> HIDE DEF t
<1>3. r \in Sensors
  BY <1>2, SensorTypes
<1>4. r = [c.regs EXCEPT !.steps = {}]
  BY <1>2
<1> HIDE DEF r
<1>5. Timed(a) /\ a.regs = r /\ a.dev = c.dev
  BY <1>2, <1>3, AssignRegs, FlowsTimed
<1> HIDE DEF a
<1>6. Timed(running) /\ Left(running) /\ running.dev = c.dev
  BY <1>2, <1>4, <1>5
<1> HIDE DEF running
<1>7. s \in Statuses
  BY <1>6, Names DEF Timed, Ends, Statuses
<1> HIDE DEF s
<1>8. Timed(b) /\ b.regs = running.regs /\ b.dev = running.dev
  BY <1>6, <1>7, AssignLocal, FlowsTimed
<1> HIDE DEF b
<1>9. Timed(done) /\ done.regs = running.regs /\ done.dev = c.dev
  BY <1>6, <1>8
<1> HIDE DEF done
<1>10. Timed(u) /\ u.regs = running.regs /\ u.dev = c.dev
  BY <1>9, TransferStep, FlowsTimed DEF Reads
<1> HIDE DEF u
<1>11. v \in Sensors
  BY <1>10, SensorTypes
<1>12. v = [running.regs EXCEPT !.steps = c.dev.steps]
  BY <1>10
<1> HIDE DEF v
<1>13. e.regs = v /\ e.dev = u.dev
  BY <1>10, <1>11, AssignRegs
<1> HIDE DEF e
<1>14. c.regs \in Sensors
  BY DEF Timed
<1>15. [c.regs EXCEPT !.steps = {}].steps = {}
  BY <1>14 DEF Sensors
<1>16. v = c.regs
  <2>1. [c.regs EXCEPT !.steps = c.regs.steps] = c.regs
    BY <1>14 DEF Sensors
  <2>2. [[c.regs EXCEPT !.steps = {}] EXCEPT !.steps = c.regs.steps] = c.regs
    BY <1>14 DEF Sensors
  <2> QED
    BY <1>6, <1>12, <2>1, <2>2
<1>17. running.regs = c.regs \/ running.regs.steps = {}
  BY <1>6, <1>15
<1> HIDE DEF Left, d
<1> QED
  BY <1>1, <1>10, <1>13, <1>16, <1>17 DEF d

(* The period first, then the budget, then the calibration.                *)
LEMMA PeriodOutcome ==
    ASSUME NEW c, Timed(c), c.status = "none", Within(c), Outcome(c.regs, c.dev),
           c.regs.steps = c.dev.steps, NEW d, Programs(c, d),
           Intact(c, d) /\ d.status = "none" =>
               /\ d.dev.budget = c.dev.budget
               /\ Exact(d.regs) /\ RoomOf(d.regs, c.dev.budget) > 4,
           Intact(c, d) /\ d.status # "none" => d.regs = c.regs /\ d.dev = c.dev,
           Intact(c, LET e == IF d.status = "none" THEN Apply(d) ELSE d
                     IN  IF e.status = "none" THEN PerformPhaseCalibration(e) ELSE e)
    PROVE  LET e == IF d.status = "none" THEN Apply(d) ELSE d
               h == IF e.status = "none" THEN PerformPhaseCalibration(e) ELSE e
           IN  Outcome(h.regs, h.dev)
<1> DEFINE e == IF d.status = "none" THEN Apply(d) ELSE d
           h == IF e.status = "none" THEN PerformPhaseCalibration(e) ELSE e
           b == c.dev.budget
<1>1. Intact(c, h)
  OBVIOUS
<1>2. Timed(d)
  BY ProgramsTimed
<1>3. d.status = "none" => Programs(d, e)
  BY <1>2, ApplyFine
<1>4. Programs(c, e) /\ Timed(e)
  BY <1>3, ProgramsChain, ProgramsTimed
<1>5. d.status = "none" => e = SetBudget(d, d.dev.budget)
  BY DEF Apply
<1>6. d.status # "none" => e = d
  OBVIOUS
<1>7. e.regs.steps = e.dev.steps
  BY <1>4 DEF Programs, SameSteps
<1> HIDE DEF e
<1>8. Flows(e, h)
  BY <1>4, CalibrationStep, FlowsSame DEF Reads
<1>9. /\ e.status = "none" => h.dev = e.dev /\ (h.regs = e.regs \/ h.regs.steps = {})
      /\ e.status # "none" => h = e
  BY <1>4, <1>7, CalibrationLeaves
<1> HIDE DEF h
<1>10. Intact(c, e)
  BY <1>1, <1>4, <1>8, FlowsChain DEF Programs
<1>11. CASE d.status = "none"
  <2>1. Intact(c, d) /\ Intact(d, e)
    BY <1>3, <1>10, <1>11, ProgramsChain
  <2>2. e = SetBudget(d, b) /\ Exact(d.regs) /\ RoomOf(d.regs, b) > 4
    BY <1>5, <1>11, <2>1
  <2>3. b \in Int /\ StartEndOverhead <= b /\ b <= WidestBudget
    BY SensorTypes DEF Within
  <2>4. Intact(d, SetBudget(d, b))
    BY <2>1, <2>2
  <2> HIDE DEF b
  <2>5. e.status = "none" /\ Outcome(e.regs, e.dev)
    BY <1>2, <1>11, <2>2, <2>3, <2>4, ApplyOutcome
  <2>6. h.dev = e.dev /\ (h.regs = e.regs \/ h.regs.steps = {})
    BY <1>9, <2>5
  <2>7. h.regs.steps = {} => Outcome(h.regs, h.dev)
    BY DEF Outcome
  <2> QED
    BY <2>5, <2>6, <2>7 DEF h, e
<1>12. CASE d.status # "none"
  <2>1. h = d
    BY <1>6, <1>9, <1>12
  <2> QED
    BY <1>6, <1>10, <1>12, <2>1 DEF h, e
<1> QED
  BY <1>11, <1>12

(* The period changes leave room for the budget to be applied again.       *)
LEMMA ChangePreKeepsRoom ==
    ASSUME NEW c, Timed(c), c.status = "none", Within(c), NEW p \in PrePeriods,
           Intact(c, ChangePrePeriod(c, p))
    PROVE  LET d == ChangePrePeriod(c, p) IN
           /\ d.status = "none" /\ d.dev.budget = c.dev.budget
           /\ Exact(d.regs) /\ RoomOf(d.regs, c.dev.budget) > 4
<1> DEFINE d == ChangePrePeriod(c, p)
           b == c.dev.budget
           o == DecodeVcselPeriod(d.regs.prePeriod)
<1>1. /\ d.status = "none" /\ d.regs.steps = c.regs.steps /\ d.dev.budget = b
      /\ d.regs.pre = EncodeTimeout(U16(CalcTimeoutMclks(PreUs(c.regs), o)))
      /\ d.regs.msrc = EncodeMsrcTimeout(CalcTimeoutMclks(ShortUs(c.regs), o))
  BY ChangePreIs
<1>2. Timed(d)
  BY ChangePreStep, ProgramsTimed
<1> HIDE DEF d
<1>3. c.regs \in Sensors /\ d.regs \in Sensors /\ b \in Int
  BY <1>2, SensorTypes DEF Timed
<1>4. Roomy(c.regs, b) /\ b <= WidestBudget
  BY DEF Within
<1>5. ShortMicrosOf(d.regs) <= ShortMicrosOf(c.regs) + 35
  BY <1>1, <1>3, ShortRewritten
<1>6. "PRE" \in c.regs.steps => PreMicrosOf(d.regs) <= PreMicrosOf(c.regs) + 70
  BY <1>1, <1>3, <1>4, PreRewritten
<1>7. Near(c.regs, d.regs)
  BY <1>1, <1>5, <1>6 DEF Near
<1> QED
  BY <1>1, <1>3, <1>4, <1>7, NearHasRoom DEF d

LEMMA ChangeFinalKeepsRoom ==
    ASSUME NEW c, Timed(c), c.status = "none", Within(c), NEW p \in FinalPeriods,
           Intact(c, ChangeFinalPeriod(c, p))
    PROVE  LET d == ChangeFinalPeriod(c, p) IN
           /\ d.status = "none" /\ d.dev.budget = c.dev.budget
           /\ Exact(d.regs) /\ RoomOf(d.regs, c.dev.budget) > 4
<1> DEFINE d == ChangeFinalPeriod(c, p)
           b == c.dev.budget
<1>1. /\ d.status = "none" /\ d.regs.steps = c.regs.steps /\ d.dev.budget = b
      /\ d.regs.msrc = c.regs.msrc /\ d.regs.pre = c.regs.pre
      /\ d.regs.prePeriod = c.regs.prePeriod
  BY ChangeFinalIs
<1>2. Timed(d)
  BY ChangeFinalStep, ProgramsTimed
<1> HIDE DEF d
<1>3. c.regs \in Sensors /\ d.regs \in Sensors /\ b \in Int
  BY <1>2, SensorTypes DEF Timed
<1>4. Roomy(c.regs, b) /\ b <= WidestBudget
  BY DEF Within
<1>5. ShortMicrosOf(c.regs) \in Nat /\ PreMicrosOf(c.regs) \in Nat
  BY <1>3, ShortUsIs, SensorIs, DecodeNat, MicrosNat DEF PreMicrosOf
<1>6. ShortMicrosOf(d.regs) = ShortMicrosOf(c.regs) /\ PreMicrosOf(d.regs) = PreMicrosOf(c.regs)
  BY <1>1 DEF ShortMicrosOf, PreMicrosOf
<1>7. Near(c.regs, d.regs)
  BY <1>1, <1>5, <1>6 DEF Near
<1> QED
  BY <1>1, <1>3, <1>4, <1>7, NearHasRoom DEF d

(* Of a sequence within the budget the code also reads the final range     *)
(* without cutting it.                                                     *)
LEMMA FinalUsExact ==
    ASSUME NEW r \in Sensors, NEW us \in Int, us <= WidestBudget, Fitting(r, us)
    PROVE  /\ FinalMicrosOf(r) \in Nat
           /\ FinalUs(r) \in {FinalMicrosOf(r), FinalMicrosOf(r) + 1}
<1> DEFINE d == DecodeTimeout(r.final)
           p == DecodeVcselPeriod(r.finalPeriod)
           m == MacroPeriodNs(p)
           q == PreTicks(r)
           w == FinalTicks(r)
           s == Micros(w, p)
           x == DecodeTimeout(r.pre)
           o == DecodeVcselPeriod(r.prePeriod)
           l == MacroPeriodNs(o)
           v == Micros(x, o)
           room == RoomOf(r, us)
           a == ShortMicrosIn(r)
           b == PreMicrosIn(r)
<1>1. /\ p \in Pclks /\ o \in Pclks /\ d \in Nat /\ x \in Nat
  BY SensorIs, DecodeNat
<1>2. /\ room = us - 2870 - a - b /\ a \in Nat /\ b \in Nat /\ room \in Int
      /\ (room >= 0 => Exact(r))
  BY RoomIs
<1>3. room > 600 /\ w >= 0 /\ 550 + s <= room + 50
  <2>1. FinalMicrosOf(r) = s
    BY DEF FinalMicrosOf
  <2>2. /\ RoomOf(r, us) > Overhead["FINAL"] + Slack /\ FinalTicks(r) >= 0
        /\ Overhead["FINAL"] + FinalMicrosOf(r) <= RoomOf(r, us) + Slack
    BY DEF Fitting, Roomy
  <2>3. Overhead["FINAL"] = 550 /\ Slack = 50 /\ Overhead["FINAL"] + Slack = 600
    BY SMT DEF Overhead, Slack
  <2> HIDE DEF s, room, w
  <2> QED
    BY <2>1, <2>2, <2>3 DEF room, w
<1>4. Exact(r)
  <2>1. room >= 0
    <3> HIDE DEF room
    <3> QED
      BY <1>2, <1>3, SMT
  <2> QED
    BY <1>2, <2>1
<1>5. PreClocks(r) = q /\ q \in Nat /\ q < 65536
  BY <1>4, CostsExact
<1>6. w = d - q
  BY DEF FinalTicks
<1>7. b = (IF "PRE" \in r.steps THEN v + 660 ELSE 0) /\ q = (IF "PRE" \in r.steps THEN x ELSE 0)
  BY DEF PreMicrosIn, PreTicks, Overhead
<1>8. w \in Nat
  <2> HIDE DEF d, q, w
  <2> QED
    BY <1>1, <1>3, <1>5, <1>6, SMT
<1>9. s \in Nat /\ v \in Nat
  BY <1>1, <1>8, MicrosNat
<1>10. m \in Nat /\ 30505 <= m /\ l \in Nat /\ 30505 <= l
  BY <1>1, PeriodIs
<1>11. w * m < 1000 * s + 1000 /\ x * l < 1000 * v + 1000
  <2> HIDE DEF w, x, p, o
  <2> QED
    BY <1>1, <1>8, MicrosIs DEF Rounds
<1>12. us <= 1999000
  BY DEF WidestBudget
<1> HIDE DEF d, p, m, q, w, s, x, o, l, v, room, a, b
<1>13. w * 30505 <= w * m /\ w * m \in Nat /\ x * 30505 <= x * l /\ x * l \in Nat
  BY <1>1, <1>8, <1>10, ProductGrows
<1> DEFINE wm == w * m
           xl == x * l
<1>14. /\ w * 30505 <= wm /\ wm < 1000 * s + 1000 /\ wm \in Nat
       /\ x * 30505 <= xl /\ xl < 1000 * v + 1000 /\ xl \in Nat
  BY <1>11, <1>13
<1> HIDE DEF wm, xl
<1>15. w * 30505 < 1000 * s + 1000 /\ x * 30505 < 1000 * v + 1000
  BY <1>1, <1>8, <1>9, <1>14, SMT
<1>16. s <= 1996130
  BY <1>2, <1>3, <1>9, <1>12, SMT
<1>17. d < 65536
  <2>1. CASE "PRE" \in r.steps
    <3>1. s + v <= 1994970
      BY <1>2, <1>3, <1>7, <1>9, <1>12, <2>1, SMT
    <3>2. d = w + x
      BY <1>1, <1>5, <1>6, <1>7, <2>1, SMT
    <3> QED
      BY <1>1, <1>8, <1>9, <1>15, <3>1, <3>2, SMT
  <2>2. CASE "PRE" \notin r.steps
    <3>1. d = w
      BY <1>1, <1>6, <1>7, <2>2, SMT
    <3> QED
      BY <1>8, <1>9, <1>15, <1>16, <3>1, SMT
  <2> QED
    BY <2>1, <2>2
<1>18. U16(d) = d
  BY <1>1, <1>17, SMT DEF U16
<1>19. w < 65536
  BY <1>1, <1>5, <1>6, <1>8, <1>17, SMT
<1>20. U16(w) = w
  BY <1>8, <1>19, SMT DEF U16
<1>21. FinalUs(r) = CalcTimeoutUs(w, p)
  <2>1. FinalUs(r) = CalcTimeoutUs(U16(U16(d) - q), p)
    BY <1>5 DEF FinalUs, d, p
  <2> QED
    BY <1>6, <1>18, <1>20, <2>1
<1>22. s = Micros(w, p) /\ FinalMicrosOf(r) = s
  BY DEF FinalMicrosOf, s, w, p
<1>23. Micros(w, p) <= WidestBudget
  BY <1>9, <1>16, <1>22, SMT DEF WidestBudget
<1>24. CalcTimeoutUs(w, p) \in {s, s + 1}
  BY <1>1, <1>8, <1>22, <1>23, UsIs
<1> QED
  BY <1>9, <1>21, <1>22, <1>24

LEMMA GetBudgetOutcome ==
    ASSUME NEW c, Timed(c), c.status = "none", Fitting(c.regs, c.dev.budget),
           c.dev.budget <= WidestBudget, "FINAL" \in c.regs.steps, Intact(c, GetBudget(c))
    PROVE  LET d == GetBudget(c) IN Outcome(d.regs, d.dev)
<1> DEFINE r == c.regs
           d == GetBudget(c)
           x == ShortCost(r)
           y == PreCost(r)
           f == FinalUs(r)
           us == StartEndOverhead + x + y + (f + Overhead["FINAL"])
           a == ShortMicrosIn(r)
           b == PreMicrosIn(r)
           s == FinalMicrosOf(r)
<1>1. d.regs = r /\ d.dev = [c.dev EXCEPT !.budget = us]
  BY GetBudgetIs
<1> HIDE DEF d
<1>2. r \in Sensors /\ c.dev \in Device /\ c.dev.budget \in Int
  BY SensorTypes DEF Timed
<1>3. s \in Nat /\ f \in {s, s + 1}
  BY <1>2, FinalUsExact
<1>4. Exact(r)
  <2> DEFINE room == RoomOf(r, c.dev.budget)
  <2>1. room > 600
    BY SMT DEF Fitting, Roomy, Overhead, Slack
  <2>2. room \in Int /\ (room >= 0 => Exact(r))
    BY <1>2, RoomIs
  <2> HIDE DEF room
  <2> QED
    BY <2>1, <2>2, SMT
<1>5. /\ x \in Nat /\ a <= x /\ x <= a + 3 /\ y \in Nat /\ b <= y /\ y <= b + 1
  BY <1>2, <1>4, CostsExact
<1>6. us = 2870 + x + y + (f + 550)
  BY DEF StartEndOverhead, Overhead
<1>7. d.dev.budget = us
  <2> HIDE DEF us
  <2> QED
    BY <1>1, <1>2 DEF Device
<1> HIDE DEF x, y, f, us, s
<1>8. us \in Int
  BY <1>3, <1>5, <1>6, SMT
<1>9. RoomOf(r, us) = us - 2870 - a - b /\ a \in Nat /\ b \in Nat /\ RoomOf(r, us) \in Int
  BY <1>2, <1>8, RoomIs
<1> DEFINE room == RoomOf(r, us)
<1>10. room = us - 2870 - a - b
  BY <1>9
<1> HIDE DEF a, b, room
<1>11. 550 + s <= room /\ room \in Int /\ room >= 0 /\ 550 + s <= room + 50
  BY <1>3, <1>5, <1>6, <1>9, <1>10, SMT
<1>12. FinalTicks(r) >= 0
  BY DEF Fitting
<1>13. Roomy(r, us) => Fitting(r, us)
  BY <1>11, <1>12 DEF Fitting, Overhead, Slack, room, s
<1>14. RoomOf(r, us) >= 0
  BY <1>11 DEF room
<1>15. Outcome(r, d.dev)
  BY <1>7, <1>13, <1>14 DEF Outcome
<1> QED
  BY <1>1, <1>15 DEF d

LEMMA RefusalOutcome ==
    ASSUME TimingInv, TimingNext, CleanCall, BudgetCall \/ last'.op = "GetBudget",
           SameSequence, "FINAL" \in regs.steps, Fitting(regs, dev.budget),
           StartEndOverhead <= dev.budget, dev.budget <= WidestBudget,
           StartEndOverhead <= dev'.budget, dev'.budget <= WidestBudget
    PROVE  Outcome(regs', dev')
<1>1. regs \in Sensors /\ dev \in Device
  BY DEF TimingInv
<1>2. Garbage \subseteq SUBSET Step /\ {} \in SUBSET Step /\ "ok" \in Ends
  BY DEF Garbage, Step, Ends
<1>3. Faults \subseteq Int /\ Budgets \subseteq Int /\ StepMicros \subseteq Int /\ -1 \in Int
  BY InputAssumption
<1>4. ASSUME NEW op, NEW f \in Int, NEW g \in SUBSET Step, NEW k \in Ends, NEW d, Timed(d),
             TimingReturn(op, f, d)
      PROVE  /\ last'.op = op /\ regs' = d.regs /\ dev' = d.dev /\ Intact(Begin(f, g, k), d)
  BY <1>1, <1>4, CleanReturn
<1>5. ASSUME NEW f \in Faults, NEW g \in Garbage, NEW k \in Ends
      PROVE  /\ Timed(Begin(f, g, k)) /\ f \in Int /\ g \in SUBSET Step
             /\ Begin(f, g, k).status = "none"
             /\ Begin(f, g, k).regs = regs /\ Begin(f, g, k).dev = dev
             /\ Within(Begin(f, g, k))
  <2>1. f \in Int /\ g \in SUBSET Step
    BY <1>2, <1>3
  <2>2. /\ Begin(f, g, k).status = "none" /\ Begin(f, g, k).regs = regs
        /\ Begin(f, g, k).dev = dev
    BY DEF Begin
  <2>3. Within(Begin(f, g, k))
    BY <2>2 DEF Within, Fitting
  <2> QED
    BY <1>1, <2>1, <2>2, <2>3, BeginTimed
<1>6. Outcome(regs, dev)
  BY DEF Outcome
<1>7. CASE SetMeasurementTimingBudgetMicroSeconds
  <2>1. PICK us \in Budgets, f \in Faults, g \in Garbage :
            TimingReturn("SetBudget", f, SetBudget(Begin(f, g, "ok"), us))
    BY <1>7 DEF SetMeasurementTimingBudgetMicroSeconds
  <2> DEFINE c == Begin(f, g, "ok")
             d == SetBudget(c, us)
  <2>2. us \in Int
    BY <1>3
  <2>3. /\ Timed(c) /\ c.status = "none" /\ c.regs = regs /\ c.dev = dev /\ Within(c)
        /\ f \in Int /\ g \in SUBSET Step
    BY <1>2, <1>5
  <2>4. c = Begin(f, g, "ok")
    OBVIOUS
  <2> HIDE DEF c
  <2>5. Timed(d)
    BY <2>2, <2>3, SetBudgetStep, ProgramsTimed
  <2>6. regs' = d.regs /\ dev' = d.dev /\ Intact(c, d)
    BY <1>2, <1>4, <2>1, <2>3, <2>4, <2>5
  <2>7. Applies(c, d, us)
    BY <2>2, <2>3, <2>6, SetBudgetIs
  <2>8. Exact(c.regs)
    BY <2>3, WithinExact
  <2>9. CASE d.status = "none"
    <3> HIDE DEF d
    <3>1. dev'.budget = us
      BY <2>3, <2>6, <2>7, <2>9 DEF Applies
    <3> QED
      BY <2>2, <2>3, <2>6, <2>8, <2>9, <3>1, ApplyOutcome DEF d
  <2>10. CASE d.status # "none"
    <3> HIDE DEF d
    <3>1. d.regs = regs /\ d.dev = dev
      BY <2>3, <2>7, <2>10 DEF Applies
    <3> QED
      BY <1>6, <2>6, <3>1
  <2> QED
    BY <2>9, <2>10
<1>8. CASE GetMeasurementTimingBudgetMicroSeconds
  <2>1. PICK f \in Faults, g \in Garbage :
            TimingReturn("GetBudget", f, GetBudget(Begin(f, g, "ok")))
    BY <1>8 DEF GetMeasurementTimingBudgetMicroSeconds
  <2> DEFINE c == Begin(f, g, "ok")
  <2>2. /\ Timed(c) /\ c.status = "none" /\ c.regs = regs /\ c.dev = dev
        /\ f \in Int /\ g \in SUBSET Step
    BY <1>2, <1>5
  <2>3. c = Begin(f, g, "ok")
    OBVIOUS
  <2> HIDE DEF c
  <2>4. Timed(GetBudget(c))
    BY <2>2, GetBudgetStep, ProgramsTimed
  <2>5. regs' = GetBudget(c).regs /\ dev' = GetBudget(c).dev /\ Intact(c, GetBudget(c))
    BY <1>2, <1>4, <2>1, <2>2, <2>3, <2>4
  <2> QED
    BY <2>2, <2>5, GetBudgetOutcome
<1>9. CASE SetSequenceStepEnable
  <2>1. PICK step \in Step, on \in BOOLEAN, f \in Faults, g \in Garbage :
            TimingReturn("SetStepEnable", f, EnableStep(Begin(f, g, "ok"), step, on))
    BY <1>9 DEF SetSequenceStepEnable
  <2>2. Timed(EnableStep(Begin(f, g, "ok"), step, on))
    BY <1>2, <1>5, EnableStepStep, FlowsTimed
  <2>3. last'.op = "SetStepEnable"
    BY <1>2, <1>4, <1>5, <2>1, <2>2
  <2> QED
    BY <2>3 DEF BudgetCall
<1>10. CASE SetWrapAroundCheckEnable
  <2>1. PICK on \in BOOLEAN, f \in {-1, 0, 1}, g \in Garbage :
            TimingReturn("SetWrapAround", f, WrapAround(Begin(f, g, "ok"), on))
    BY <1>10 DEF SetWrapAroundCheckEnable
  <2>2. Timed(Begin(f, g, "ok")) /\ f \in Int
    BY <1>1, <1>2, <1>3, BeginTimed
  <2>3. Timed(WrapAround(Begin(f, g, "ok"), on))
    BY <2>2, WrapAroundStep, FlowsTimed
  <2>4. last'.op = "SetWrapAround"
    BY <1>2, <1>3, <1>4, <2>1, <2>2, <2>3
  <2> QED
    BY <2>4 DEF BudgetCall
<1>11. CASE SetSequenceStepTimeout
  <2>1. PICK step \in Step, us \in StepMicros, f \in Faults, g \in Garbage :
            TimingReturn("SetStepTimeout", f,
                ChangeStepTimeout(Begin(f, g, "ok"), step, MillisecondsToMicros(us)))
    BY <1>11 DEF SetSequenceStepTimeout
  <2> DEFINE c == Begin(f, g, "ok")
             v == MillisecondsToMicros(us)
             d == ChangeStepTimeout(c, step, v)
  <2>2. v \in Uint16 /\ v \in Int
    BY <1>3, Cuts, WordsAreInts DEF MillisecondsToMicros
  <2>3. /\ Timed(c) /\ c.status = "none" /\ Within(c)
        /\ f \in Int /\ g \in SUBSET Step
    BY <1>2, <1>5
  <2>4. c = Begin(f, g, "ok") /\ TimingReturn("SetStepTimeout", f, d)
    BY <2>1
  <2> HIDE DEF c, v
  <2>5. Timed(d)
    BY <2>2, <2>3, ChangeStepStep, FlowsTimed
  <2>6. regs' = d.regs /\ dev' = d.dev /\ Intact(c, d)
    BY <1>2, <1>4, <2>3, <2>4, <2>5
  <2> QED
    BY <2>2, <2>3, <2>6, ChangeStepOutcome
<1>12. CASE SetVcselPulsePeriod
  <2>1. PICK type \in {"PRE", "FINAL"}, p \in 8 .. 18, f \in Faults, g \in Garbage,
             k \in {"ok", "io", "timeout"} :
        LET c == Begin(f, g, k)
            d == IF p \notin (IF type = "PRE" THEN PrePeriods ELSE FinalPeriods)
                 THEN Invalid(c)
                 ELSE IF type = "PRE" THEN ChangePrePeriod(c, p)
                 ELSE ChangeFinalPeriod(c, p)
            e == Then(d, LAMBDA x : SetBudget(x, x.dev.budget))
        IN  TimingReturn("SetVcsel", f, Then(e, PerformPhaseCalibration))
    BY <1>12 DEF SetVcselPulsePeriod
  <2> DEFINE c == Begin(f, g, k)
             d == IF p \notin (IF type = "PRE" THEN PrePeriods ELSE FinalPeriods)
                  THEN Invalid(c)
                  ELSE IF type = "PRE" THEN ChangePrePeriod(c, p)
                  ELSE ChangeFinalPeriod(c, p)
             e == IF d.status = "none" THEN Apply(d) ELSE d
             h == IF e.status = "none" THEN PerformPhaseCalibration(e) ELSE e
  <2>2. TimingReturn("SetVcsel", f, h)
    BY <2>1, Zenon DEF Then, Apply
  <2>3. k \in Ends
    BY DEF Ends
  <2>4. /\ Timed(c) /\ f \in Int /\ g \in SUBSET Step /\ c.status = "none"
        /\ c.regs.steps = c.dev.steps /\ Within(c) /\ Outcome(c.regs, c.dev)
    BY <1>5, <1>6, <2>3 DEF SameSequence
  <2>5. c = Begin(f, g, k)
    OBVIOUS
  <2> HIDE DEF c
  <2>6. /\ Programs(c, Invalid(c)) /\ Invalid(c).status # "none"
        /\ Invalid(c).regs = c.regs /\ Invalid(c).dev = c.dev
    BY <2>4, AssignLocal, Names DEF Invalid, Fail, Programs, SameSteps
  <2>7. Programs(c, d)
    <3>1. p \in PrePeriods => Programs(c, ChangePrePeriod(c, p))
      BY <2>4, ChangePreStep
    <3>2. p \in FinalPeriods => Programs(c, ChangeFinalPeriod(c, p))
      BY <2>4, ChangeFinalStep
    <3> QED
      BY <2>6, <3>1, <3>2
  <2>8. Intact(c, d) =>
          IF d.status = "none"
          THEN /\ d.dev.budget = c.dev.budget
               /\ Exact(d.regs) /\ RoomOf(d.regs, c.dev.budget) > 4
          ELSE d.regs = c.regs /\ d.dev = c.dev
    <3>1. CASE d = Invalid(c)
      BY <2>6, <3>1
    <3>2. CASE p \in PrePeriods /\ d = ChangePrePeriod(c, p)
      <4> HIDE DEF d
      <4> QED
        BY <2>4, <3>2, ChangePreKeepsRoom
    <3>3. CASE p \in FinalPeriods /\ d = ChangeFinalPeriod(c, p)
      <4> HIDE DEF d
      <4> QED
        BY <2>4, <3>3, ChangeFinalKeepsRoom
    <3> QED
      BY <3>1, <3>2, <3>3
  <2> HIDE DEF d
  <2>9. Timed(h)
    BY <2>4, <2>7, PeriodFine
  <2> HIDE DEF e, h
  <2>10. regs' = h.regs /\ dev' = h.dev /\ Intact(c, h)
    BY <1>4, <2>2, <2>3, <2>4, <2>5, <2>9
  <2>11. /\ Intact(c, d) /\ d.status = "none" =>
               /\ d.dev.budget = c.dev.budget
               /\ Exact(d.regs) /\ RoomOf(d.regs, c.dev.budget) > 4
         /\ Intact(c, d) /\ d.status # "none" => d.regs = c.regs /\ d.dev = c.dev
    BY <2>8
  <2>12. Outcome(h.regs, h.dev)
    BY <2>4, <2>7, <2>10, <2>11, PeriodOutcome DEF h, e
  <2> QED
    BY <2>10, <2>12
<1> QED
  BY <1>7, <1>8, <1>9, <1>10, <1>11, <1>12 DEF TimingNext

(* From a sequence that fits into its budget, no undisturbed call that     *)
(* applies, refuses or reads back a budget leaves one beyond it: a change  *)
(* of a laser period is programmed within the room there is, and a timeout *)
(* the budget has no room for is taken back, after which applying the      *)
(* budget again succeeds.  Left open are the last microseconds of room, as *)
(* in NoRoomIsAnError: where the final range has room for its overhead and *)
(* 50 us at most, the code programs what the subtraction gives.            *)
THEOREM RefusalsFit == TimingSpec => RefusalKeepsFit
<1> DEFINE A == CleanCall /\ (BudgetCall \/ last'.op = "GetBudget") /\ IsBounded /\ IsBounded'
                  /\ SameSequence /\ FitsBudget /\ "FINAL" \in regs.steps
                    => FitsBudget' \/ (~HasRoom' /\ RoomLeft' >= 0)
<1>1. TimingInv' => Matches'
  BY TermsMatch, PTL
<1>2. TimingInv /\ TimingInv' /\ [TimingNext]_timingVars => [A]_timingVars
  <2> SUFFICES ASSUME TimingInv, TimingInv', TimingNext, CleanCall,
                      BudgetCall \/ last'.op = "GetBudget", IsBounded, IsBounded',
                      SameSequence, FitsBudget, "FINAL" \in regs.steps
               PROVE  FitsBudget' \/ (~HasRoom' /\ RoomLeft' >= 0)
    OBVIOUS
  <2>1. /\ Fitting(regs, dev.budget)
        /\ StartEndOverhead <= dev.budget /\ dev.budget <= WidestBudget
    BY TermsMatch DEF Matches
  <2>2. Matches'
    BY <1>1
  <2>3. StartEndOverhead <= dev'.budget /\ dev'.budget <= WidestBudget
    BY <2>2 DEF Matches
  <2>4. Outcome(regs', dev')
    BY <2>1, <2>3, RefusalOutcome
  <2>5. CASE "FINAL" \in regs'.steps /\ ~Fitting(regs', dev'.budget)
    BY <2>2, <2>4, <2>5 DEF Matches, Outcome
  <2>6. CASE ~("FINAL" \in regs'.steps /\ ~Fitting(regs', dev'.budget))
    BY <2>2, <2>6 DEF Matches
  <2> QED
    BY <2>5, <2>6
<1> HIDE DEF A
<1>3. TimingSpec => [][A]_timingVars
  BY <1>2, TimingInvariant, PTL DEF TimingSpec
<1> QED
  BY <1>3 DEF RefusalKeepsFit, A
=============================================================================
