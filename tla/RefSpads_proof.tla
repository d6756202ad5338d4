--------------------------- MODULE RefSpads_proof ---------------------------
(***************************************************************************)
(* That the reference SPADs in the sensor are those the driver reports,    *)
(* and that no other number of them comes closer to the target signal.     *)
(* First the types of the call record through every call; then what a call *)
(* that ends without an error has done; then the walk over the 48 SPADs,   *)
(* by induction over its turns.                                            *)
(***************************************************************************)
EXTENDS RefSpads, FiniteSetTheorems, WellFoundedInduction, NaturalsInduction, TLAPS

Lights == [base : Nat, open : Nat, aperture : Nat]

(* The call record.                                                        *)
Sensings ==
    [spad : SpadStates, fuse : Int, status : Statuses, scene : Lights,
     cal : {"ok", "timeout"}, fresh : Uint8, got : [vhv : Uint8, phase : Uint8],
     index : Nat, rate : Int, found : Int, aperture : {0, 1},
     search : {"off", "on", "complete"}]

-----------------------------------------------------------------------------
(* Transfers, pages and registers.                                         *)

(* What no register of the sensor and no transfer is about.                *)
Kept(c) == <<c.spad.good, c.spad.enables, c.spad.map, c.scene, c.index, c.found,
             c.aperture, c.search>>

(* d comes from c by transfers and registers beside the map.               *)
Beside(c, d) == d \in Sensings /\ Kept(d) = Kept(c)

LEMMA BesideTwice ==
    \A c, d, e : Beside(c, d) /\ Beside(d, e) => Beside(c, e)
  BY DEF Beside

Burnt(c, f, s) == [c EXCEPT !.fuse = f, !.status = s]

LEMMA BurntBeside ==
    ASSUME NEW c \in Sensings, NEW f \in Int, NEW s \in Statuses
    PROVE  /\ Beside(c, Burnt(c, f, s)) /\ Burnt(c, f, s).spad = c.spad
           /\ Burnt(c, f, s).rate = c.rate
<1>1. Burnt(c, f, s) \in Sensings
  BY DEF Sensings, Burnt
<1>2. Kept(Burnt(c, f, s)) = Kept(c)
  BY DEF Sensings, Burnt, Kept
<1>3. Burnt(c, f, s).spad = c.spad /\ Burnt(c, f, s).rate = c.rate
  BY DEF Sensings, Burnt
<1> QED
  BY <1>1, <1>2, <1>3 DEF Beside

LEMMA Ends == {"none", "io", "timeout", "spad"} \subseteq Statuses
  BY DEF Statuses

LEMMA TransferBeside ==
    ASSUME NEW c \in Sensings
    PROVE  Beside(c, Transfer(c)) /\ Transfer(c).spad = c.spad /\ Transfer(c).rate = c.rate
<1> DEFINE s == IF c.fuse = 0 THEN "io" ELSE "none"
<1>1. c.fuse \in Int /\ c.fuse - 1 \in Int
  BY DEF Sensings
<1>2. s \in Statuses
  BY Ends
<1>3. Transfer(c) = Burnt(c, c.fuse - 1, s)
  BY Zenon DEF Transfer, Burnt
<1> HIDE DEF s
<1> QED
  BY <1>1, <1>2, <1>3, BurntBeside

LEMMA TransferSame ==
    ASSUME NEW c \in Sensings
    PROVE  \A k \in DOMAIN c \ {"fuse", "status"} : Transfer(c)[k] = c[k]
<1> DEFINE f == c.fuse - 1
           s == IF c.fuse = 0 THEN "io" ELSE "none"
<1>1. Transfer(c) = [c EXCEPT !.fuse = f, !.status = s]
  BY Zenon DEF Transfer
<1> HIDE DEF f, s
<1>2. \A k \in DOMAIN c \ {"fuse", "status"} : [c EXCEPT !.fuse = f, !.status = s][k] = c[k]
  BY DEF Sensings
<1> QED
  BY <1>1, <1>2

LEMMA TransfersBeside ==
    ASSUME NEW c \in Sensings, NEW n \in Nat
    PROVE  /\ Beside(c, Transfers(c, n)) /\ Transfers(c, n).spad = c.spad
           /\ Transfers(c, n).rate = c.rate
<1>1. c.fuse - n \in Int /\ -1 \in Int
  BY DEF Sensings
<1>2. \/ Transfers(c, n) = Burnt(c, -1, "io")
      \/ Transfers(c, n) = Burnt(c, c.fuse - n, "none")
  BY Zenon DEF Transfers, Burnt
<1> QED
  BY <1>1, <1>2, Ends, BurntBeside

Holding(c, s) == [c EXCEPT !.spad = s]

LEMMA HoldingIs ==
    ASSUME NEW c \in Sensings, NEW s \in SpadStates
    PROVE  /\ Holding(c, s) \in Sensings /\ Holding(c, s).spad = s
           /\ \A k \in DOMAIN c \ {"spad"} : Holding(c, s)[k] = c[k]
           /\ <<s.good, s.enables, s.map>> = <<c.spad.good, c.spad.enables, c.spad.map>>
                  => Beside(c, Holding(c, s))
<1>1. Holding(c, s) \in Sensings
  BY DEF Sensings, Holding
<1>2. Holding(c, s).spad = s
  BY DEF Sensings, Holding
<1>3. \A k \in DOMAIN c \ {"spad"} : Holding(c, s)[k] = c[k]
  BY DEF Sensings, Holding
<1>4. /\ Holding(c, s).scene = c.scene /\ Holding(c, s).index = c.index
      /\ Holding(c, s).found = c.found /\ Holding(c, s).aperture = c.aperture
      /\ Holding(c, s).search = c.search
  BY DEF Sensings, Holding
<1> QED
  BY <1>1, <1>2, <1>3, <1>4 DEF Beside, Kept

(* The page register.                                                      *)
Paged(c, p) == IF c.status = "none" THEN [c EXCEPT !.spad.page = p] ELSE c

LEMMA PageIsPaged == ASSUME NEW c, NEW p PROVE Page(c, p) = Paged(Transfer(c), p)
<1>1. Page(c, p) = Done(c, LAMBDA x : [x EXCEPT !.spad.page = p])
  BY DEF Page
<1>2. Done(c, LAMBDA x : [x EXCEPT !.spad.page = p]) = Paged(Transfer(c), p)
  BY Zenon DEF Done, Then, Paged
<1> QED
  BY <1>1, <1>2, Zenon

LEMMA PageIs ==
    ASSUME NEW c \in Sensings, NEW p \in {0, 1}
    PROVE  /\ Beside(c, Page(c, p)) /\ Page(c, p).rate = c.rate
           /\ Page(c, p).status = "none" => Page(c, p).spad.page = p
<1> DEFINE t == Transfer(c)
           s == [t.spad EXCEPT !.page = p]
<1>1. Page(c, p) = Paged(t, p)
  BY PageIsPaged
<1>2. Beside(c, t) /\ t \in Sensings /\ t.rate = c.rate
  BY TransferBeside DEF Beside
<1>3. t.spad \in SpadStates
  BY <1>2 DEF Sensings
<1> HIDE DEF t
<1>4. /\ s \in SpadStates /\ s.page = p
      /\ <<s.good, s.enables, s.map>> = <<t.spad.good, t.spad.enables, t.spad.map>>
  BY <1>3 DEF SpadStates
<1>5. Paged(t, p) = IF t.status = "none" THEN Holding(t, s) ELSE t
  BY Zenon DEF Paged, Holding
<1> HIDE DEF s
<1>6. Beside(t, Holding(t, s)) /\ Holding(t, s).spad.page = p
  BY <1>2, <1>4, HoldingIs
<1>7. Holding(t, s).rate = t.rate
  BY <1>2 DEF Sensings, Holding
<1>8. CASE t.status = "none"
  BY <1>1, <1>2, <1>5, <1>6, <1>7, <1>8, BesideTwice
<1>9. CASE t.status # "none"
  BY <1>1, <1>2, <1>5, <1>9
<1> QED
  BY <1>8, <1>9

(* A register written where it is.                                         *)
Entered(s, field, v) == [s EXCEPT ![field] = v]

Stored(c, p, field, v) ==
    IF c.status = "none"
    THEN IF c.spad.page = p THEN [c EXCEPT !.spad[field] = v] ELSE c
    ELSE c

LEMMA PutIs ==
    ASSUME NEW c \in Sensings, NEW p, NEW field, NEW v,
           Entered(c.spad, field, v) \in SpadStates
    PROVE  LET s == Entered(c.spad, field, v)
               d == Put(c, p, field, v) IN
           /\ d \in Sensings
           /\ d.spad \in {c.spad, s} /\ \A k \in DOMAIN c \ {"spad", "fuse", "status"} : d[k] = c[k]
           /\ d.status = "none" /\ c.spad.page = p => d.spad = s
<1> DEFINE t == Transfer(c)
           s == Entered(c.spad, field, v)
           d == Put(c, p, field, v)
<1> SUFFICES /\ d \in Sensings
             /\ d.spad \in {c.spad, s} /\ \A k \in DOMAIN c \ {"spad", "fuse", "status"} : d[k] = c[k]
             /\ d.status = "none" /\ c.spad.page = p => d.spad = s
  OBVIOUS
<1>1. d = Stored(t, p, field, v)
  BY Zenon DEF Put, Done, Then, Stored
<1>2. t \in Sensings /\ t.spad = c.spad
  BY TransferBeside DEF Beside
<1>3. \A k \in DOMAIN c \ {"fuse", "status"} : t[k] = c[k]
  BY TransferSame
<1> HIDE DEF t, d
<1>4. d = IF t.status = "none" /\ c.spad.page = p THEN Holding(t, s) ELSE t
  BY <1>1, <1>2, Zenon DEF Stored, Holding, Entered
<1>5. s \in SpadStates
  OBVIOUS
<1> HIDE DEF s
<1>6. DOMAIN t = DOMAIN c
  BY <1>2 DEF Sensings
<1>7. /\ Holding(t, s) \in Sensings /\ Holding(t, s).spad = s
      /\ \A k \in DOMAIN c \ {"spad", "fuse", "status"} : Holding(t, s)[k] = c[k]
  BY <1>2, <1>3, <1>5, <1>6, HoldingIs
<1>8. CASE t.status = "none" /\ c.spad.page = p
  BY <1>4, <1>7, <1>8
<1>9. CASE ~(t.status = "none" /\ c.spad.page = p)
  BY <1>2, <1>3, <1>4, <1>9
<1> QED
  BY <1>8, <1>9

(* Steps that leave the page alone as well, and the rate.                  *)
Quiet(c, d) == Beside(c, d) /\ d.spad.page = c.spad.page

LEMMA QuietTwice == \A c, d, e : Quiet(c, d) /\ Quiet(d, e) => Quiet(c, e)
  BY BesideTwice DEF Quiet

LEMMA FailBeside ==
    ASSUME NEW c \in Sensings, NEW s \in Statuses
    PROVE  Quiet(c, Fail(c, s)) /\ Fail(c, s).status = s
<1>1. c.fuse \in Int
  BY DEF Sensings
<1>2. Fail(c, s) = Burnt(c, c.fuse, s)
  BY DEF Fail, Burnt, Sensings
<1>3. Burnt(c, c.fuse, s).status = s
  BY DEF Burnt, Sensings
<1> QED
  BY <1>1, <1>2, <1>3, BurntBeside DEF Quiet

(* A register beside the map.                                              *)
LEMMA PutBeside ==
    ASSUME NEW c \in Sensings, NEW p, NEW v,
           NEW field \in {"seq", "vhv", "phase", "damper", "factor"},
           Entered(c.spad, field, v) \in SpadStates
    PROVE  Quiet(c, Put(c, p, field, v)) /\ Put(c, p, field, v).rate = c.rate
<1> DEFINE s == Entered(c.spad, field, v)
           d == Put(c, p, field, v)
<1>1. /\ d \in Sensings /\ d.spad \in {c.spad, s}
      /\ \A k \in DOMAIN c \ {"spad", "fuse", "status"} : d[k] = c[k]
  BY PutIs
<1>2. c.spad \in SpadStates
  BY DEF Sensings
<1> HIDE DEF d
<1>3. s.page = c.spad.page /\ s.good = c.spad.good /\ s.enables = c.spad.enables /\ s.map = c.spad.map
  BY <1>2 DEF SpadStates, Entered
<1> HIDE DEF s
<1>4. /\ d.spad.page = c.spad.page /\ d.spad.good = c.spad.good
      /\ d.spad.enables = c.spad.enables /\ d.spad.map = c.spad.map
  BY <1>1, <1>3
<1>5. /\ d.scene = c.scene /\ d.index = c.index /\ d.found = c.found /\ d.rate = c.rate
      /\ d.aperture = c.aperture /\ d.search = c.search
  BY <1>1 DEF Sensings
<1> QED
  BY <1>1, <1>4, <1>5 DEF Quiet, Beside, Kept, d

LEMMA SequenceBeside ==
    ASSUME NEW c \in Sensings, NEW v \in {"ranging", "vhv", "phase", "signal"}
    PROVE  Quiet(c, Put(c, 0, "seq", v)) /\ Put(c, 0, "seq", v).rate = c.rate
<1>1. Entered(c.spad, "seq", v) \in SpadStates
  BY DEF Sensings, SpadStates, Entered
<1> QED
  BY <1>1, PutBeside

LEMMA CalibrationByte ==
    ASSUME NEW c \in Sensings, NEW field \in {"vhv", "phase"}, NEW v \in Uint8, NEW p
    PROVE  Quiet(c, Put(c, p, field, v)) /\ Entered(c.spad, field, v) \in SpadStates
<1>1. Entered(c.spad, field, v) \in SpadStates
  BY DEF Sensings, SpadStates, Entered
<1> QED
  BY <1>1, PutBeside

(* One calibration, with its result or without.                            *)
LEMMA SingleCalibrationQuiet ==
    ASSUME NEW c \in Sensings, NEW field \in {"vhv", "phase"}
    PROVE  Quiet(c, SingleCalibration(c, field))
<1> DEFINE t == Transfers(c, 4)
           s == Entered(t.spad, field, t.fresh)
<1>1. Beside(c, t) /\ t \in Sensings /\ t.spad = c.spad
  BY TransfersBeside DEF Beside
<1> HIDE DEF t
<1>2. Quiet(c, t)
  BY <1>1 DEF Quiet
<1>3. t.fresh \in Uint8
  BY <1>1 DEF Sensings
<1>4. s \in SpadStates /\ t.spad \in SpadStates
  BY <1>1, <1>3, CalibrationByte DEF Sensings
<1>5. <<s.page, s.good, s.enables, s.map>> = <<t.spad.page, t.spad.good, t.spad.enables, t.spad.map>>
  BY <1>4 DEF SpadStates, Entered
<1>6. \/ SingleCalibration(c, field) = t
      \/ SingleCalibration(c, field) = Holding(t, s)
      \/ SingleCalibration(c, field) = Fail(t, "timeout")
  BY Zenon DEF SingleCalibration, Then, Holding, Entered, t
<1> HIDE DEF s
<1>7. Quiet(t, Holding(t, s))
  BY <1>1, <1>4, <1>5, HoldingIs DEF Quiet
<1>8. Quiet(t, Fail(t, "timeout"))
  BY <1>1, FailBeside, Ends
<1> QED
  BY <1>2, <1>6, <1>7, <1>8, QuietTwice

LEMMA StepCalibrationQuiet ==
    ASSUME NEW c \in Sensings, NEW step \in {"vhv", "phase"}
    PROVE  Quiet(c, StepCalibration(c, step, FALSE))
<1> DEFINE d1 == Put(c, 0, "seq", step)
           d2 == IF d1.status = "none" THEN SingleCalibration(d1, step) ELSE d1
<1>1. Quiet(c, d1) /\ d1 \in Sensings
  BY SequenceBeside DEF Quiet, Beside
<1>2. StepCalibration(c, step, FALSE) = d2
  BY Zenon DEF StepCalibration, Then
<1> HIDE DEF d1
<1>3. Quiet(d1, SingleCalibration(d1, step))
  BY <1>1, SingleCalibrationQuiet
<1>4. Quiet(c, SingleCalibration(d1, step))
  BY <1>1, <1>3, QuietTwice
<1> QED
  BY <1>1, <1>2, <1>4

LEMMA RefCalibrationQuiet ==
    ASSUME NEW c \in Sensings
    PROVE  Quiet(c, RefCalibration(c, FALSE))
<1> DEFINE d1 == StepCalibration(c, "vhv", FALSE)
           d2 == IF d1.status = "none" THEN StepCalibration(d1, "phase", FALSE) ELSE d1
           d3 == IF d2.status = "none" THEN Put(d2, 0, "seq", "ranging") ELSE d2
<1>1. RefCalibration(c, FALSE) = d3
  BY Zenon DEF RefCalibration, Then
<1>2. Quiet(c, d1) /\ d1 \in Sensings
  BY StepCalibrationQuiet DEF Quiet, Beside
<1> HIDE DEF d1
<1>3. Quiet(c, d2) /\ d2 \in Sensings
  <2>1. Quiet(d1, StepCalibration(d1, "phase", FALSE))
    BY <1>2, StepCalibrationQuiet
  <2>2. Quiet(c, StepCalibration(d1, "phase", FALSE))
    BY <1>2, <2>1, QuietTwice
  <2>3. Quiet(c, d2)
    BY <1>2, <2>2
  <2> QED
    BY <2>3 DEF Quiet, Beside
<1> HIDE DEF d2
<1>4. Quiet(c, Put(d2, 0, "seq", "ranging"))
  BY <1>3, SequenceBeside, QuietTwice
<1> QED
  BY <1>1, <1>3, <1>4

LEMMA ArrayWindowIs ==
    ASSUME NEW c \in Sensings
    PROVE  /\ Beside(c, ArrayWindow(c))
           /\ ArrayWindow(c).status = "none" => ArrayWindow(c).spad.page = 0
<1> DEFINE d1 == Page(c, 1)
           d2 == Then(d1, LAMBDA x : Transfers(x, 2))
           d3 == Then(d2, LAMBDA x : Page(x, 0))
           d4 == Then(d3, Transfer)
<1>1. Beside(c, d1) /\ d1 \in Sensings
  BY PageIs DEF Beside
<1>2. d2 \in {d1, Transfers(d1, 2)}
  BY Zenon DEF Then
<1>3. ArrayWindow(c) = d4
  BY Zenon DEF ArrayWindow, Then
<1> HIDE DEF d1
<1>4. Beside(c, d2) /\ d2 \in Sensings
  BY <1>1, <1>2, TransfersBeside, BesideTwice DEF Beside
<1>5. d3 = IF d2.status = "none" THEN Page(d2, 0) ELSE d2
  BY Zenon DEF Then
<1> HIDE DEF d2
<1>6. /\ Beside(c, d3) /\ d3 \in Sensings
      /\ d3.status = "none" => d3.spad.page = 0
  <2>1. /\ Beside(d2, Page(d2, 0))
        /\ Page(d2, 0).status = "none" => Page(d2, 0).spad.page = 0
    BY <1>4, PageIs
  <2>2. Beside(c, Page(d2, 0))
    BY <1>4, <2>1, BesideTwice
  <2> QED
    BY <1>4, <1>5, <2>1, <2>2 DEF Beside
<1>7. d4 = IF d3.status = "none" THEN Transfer(d3) ELSE d3
  BY Zenon DEF Then
<1> HIDE DEF d3, d4
<1>8. Beside(d3, Transfer(d3)) /\ Transfer(d3).spad = d3.spad
  BY <1>6, TransferBeside
<1>9. /\ Beside(c, d4)
      /\ d4.status = "none" => d4.spad.page = 0
  BY <1>6, <1>7, <1>8, BesideTwice
<1> QED
  BY <1>3, <1>9

Lit(map, t) == Cardinality({i \in map : IsAperture(i) = t})
Light(map, scene) ==
    scene.base + Lit(map, 0) * scene.open + Lit(map, 1) * scene.aperture
Capped(n) == IF n > 65535 THEN 65535 ELSE n

LEMMA BitsFinite ==
    /\ IsFiniteSet(Bits) /\ Cardinality(Bits) = 48
    /\ \A S \in SUBSET Bits : IsFiniteSet(S) /\ Cardinality(S) \in 0 .. 48
<1> DEFINE n == 47
<1>1. n \in Int /\ n = 47 /\ Bits = 0 .. n
  BY SMT DEF Bits
<1> HIDE DEF n
<1>2. IsFiniteSet(Bits) /\ Cardinality(Bits) = 48
  <2>1. 0 \in Int
    OBVIOUS
  <2>2. IsFiniteSet(0 .. n) /\ Cardinality(0 .. n) = IF 0 > n THEN 0 ELSE n - 0 + 1
    BY <1>1, <2>1, FS_Interval, Zenon
  <2> QED
    BY <1>1, <2>2
<1>3. ASSUME NEW S \in SUBSET Bits PROVE IsFiniteSet(S) /\ Cardinality(S) \in 0 .. 48
  <2>1. IsFiniteSet(S) /\ Cardinality(S) <= Cardinality(Bits)
    BY <1>2, FS_Subset
  <2>2. Cardinality(S) \in Nat
    BY <2>1, FS_CardinalityType
  <2> QED
    BY <1>2, <2>1, <2>2
<1> QED
  BY <1>2, <1>3

LEMMA RateIs ==
    ASSUME NEW map \in SUBSET Bits, NEW scene \in Lights
    PROVE  Light(map, scene) \in Nat /\ Rate(map, scene) = Capped(Light(map, scene))
<1>1. Lit(map, 0) \in Nat /\ Lit(map, 1) \in Nat
  BY BitsFinite, FS_Subset, FS_CardinalityType DEF Lit
<1>2. Light(map, scene) \in Nat
  <2>1. scene.base \in Nat /\ scene.open \in Nat /\ scene.aperture \in Nat
    BY DEF Lights
  <2>2. \A a, b \in Nat : a * b \in Nat
    OBVIOUS
  <2>3. Lit(map, 0) * scene.open \in Nat /\ Lit(map, 1) * scene.aperture \in Nat
    BY <1>1, <2>1, <2>2
  <2> QED
    BY <2>1, <2>3 DEF Light
<1>3. Rate(map, scene) = Min({65535, Light(map, scene)})
  BY DEF Rate, Lit, Light
<1> DEFINE m == 65535
           n == Light(map, scene)
<1>4. m \in Nat /\ Capped(n) = IF n > m THEN m ELSE n
  BY SMT DEF m, Capped
<1> HIDE DEF m, n
<1>5. Min({m, n}) = IF n > m THEN m ELSE n
  BY <1>2, <1>4 DEF Min, n
<1> QED
  BY <1>2, <1>3, <1>4, <1>5 DEF m, n

-----------------------------------------------------------------------------
(* Measuring and enabling.                                                 *)
Rated(c) == [c EXCEPT !.rate = Rate(c.spad.map, c.scene)]

LEMMA RatedIs ==
    ASSUME NEW c \in Sensings
    PROVE  Quiet(c, Rated(c)) /\ Rated(c).rate = Rate(c.spad.map, c.scene)
<1> DEFINE r == Rate(c.spad.map, c.scene)
<1>1. r \in Int
  <2>1. c.spad.map \in SUBSET Bits /\ c.scene \in Lights
    BY DEF Sensings, SpadStates
  <2>2. Light(c.spad.map, c.scene) \in Nat /\ r = Capped(Light(c.spad.map, c.scene))
    BY <2>1, RateIs
  <2> QED
    BY <2>2, SMT DEF Capped
<1>2. Rated(c) = [c EXCEPT !.rate = r]
  BY Zenon DEF Rated
<1> HIDE DEF r
<1>3. [c EXCEPT !.rate = r] \in Sensings /\ [c EXCEPT !.rate = r].rate = r
  BY <1>1 DEF Sensings
<1>4. /\ Kept([c EXCEPT !.rate = r]) = Kept(c)
      /\ [c EXCEPT !.rate = r].spad.page = c.spad.page
  BY DEF Sensings, Kept
<1> QED
  BY <1>2, <1>3, <1>4 DEF Quiet, Beside, r

(* A measurement that succeeds was one of the map, and is back on page 0.  *)
LEMMA MeasureIs ==
    ASSUME NEW c \in Sensings
    PROVE  LET d == MeasureSignal(c) IN
           /\ Beside(c, d)
           /\ d.status = "none" => d.spad.page = 0 /\ d.rate = Rate(c.spad.map, c.scene)
<1> DEFINE d1 == Put(c, 0, "seq", "signal")
           d2 == Then(d1, Transfer)
           d3 == Then(d2, LAMBDA x : Page(x, 1))
           d4 == Then(d3, Transfer)
           d5 == Then(d4, LAMBDA x : Page(Rated(x), 0))
           d6 == Then(d5, LAMBDA x : Put(x, 0, "seq", "ranging"))
<1>1. MeasureSignal(c) = d6
  BY Zenon DEF MeasureSignal, Then, Rated
<1>2. Beside(c, d1) /\ d1 \in Sensings
  BY SequenceBeside DEF Quiet, Beside
<1>3. d2 \in {d1, Transfer(d1)}
  BY Zenon DEF Then
<1> HIDE DEF d1
<1>4. Beside(c, d2) /\ d2 \in Sensings
  BY <1>2, <1>3, TransferBeside, BesideTwice DEF Beside
<1>5. d3 \in {d2, Page(d2, 1)}
  BY Zenon DEF Then
<1> HIDE DEF d2
<1>6. Beside(c, d3) /\ d3 \in Sensings
  BY <1>4, <1>5, PageIs, BesideTwice DEF Beside
<1>7. d4 \in {d3, Transfer(d3)}
  BY Zenon DEF Then
<1> HIDE DEF d3
<1>8. Beside(c, d4) /\ d4 \in Sensings
  BY <1>6, <1>7, TransferBeside, BesideTwice DEF Beside
<1>9. d5 = IF d4.status = "none" THEN Page(Rated(d4), 0) ELSE d4
  BY Zenon DEF Then
<1> HIDE DEF d4
<1>10. /\ Beside(c, d5) /\ d5 \in Sensings
       /\ d5.status = "none" => d5.spad.page = 0 /\ d5.rate = Rate(c.spad.map, c.scene)
  <2>1. Beside(d4, Rated(d4)) /\ Rated(d4) \in Sensings /\ Rated(d4).rate = Rate(d4.spad.map, d4.scene)
    BY <1>8, RatedIs DEF Quiet, Beside
  <2> DEFINE p == Page(Rated(d4), 0)
  <2>2. Beside(Rated(d4), p) /\ p.rate = Rated(d4).rate /\ (p.status = "none" => p.spad.page = 0)
    BY <2>1, PageIs
  <2> HIDE DEF p
  <2>3. Beside(c, p)
    BY <1>8, <2>1, <2>2, BesideTwice
  <2>4. d4.spad.map = c.spad.map /\ d4.scene = c.scene
    BY <1>8 DEF Beside, Kept
  <2> QED
    BY <1>8, <1>9, <2>1, <2>2, <2>3, <2>4 DEF Beside, p
<1>11. d6 = IF d5.status = "none" THEN Put(d5, 0, "seq", "ranging") ELSE d5
  BY Zenon DEF Then
<1> HIDE DEF d5, d6
<1>12. /\ Beside(c, d6)
       /\ d6.status = "none" => d6.spad.page = 0 /\ d6.rate = Rate(c.spad.map, c.scene)
  <2>1. Quiet(d5, Put(d5, 0, "seq", "ranging")) /\ Put(d5, 0, "seq", "ranging").rate = d5.rate
    BY <1>10, SequenceBeside
  <2> QED
    BY <1>10, <1>11, <2>1, BesideTwice DEF Quiet
<1> QED
  BY <1>1, <1>12

(* Reading back what was written changes the map or nothing.               *)
LEMMA WriteMapIs ==
    ASSUME NEW c \in Sensings
    PROVE  LET d == WriteMap(c) IN
           /\ d \in Sensings /\ d.spad.page = c.spad.page
           /\ d.spad.good = c.spad.good /\ d.spad.enables = c.spad.enables
           /\ \A k \in DOMAIN c \ {"spad", "fuse", "status"} : d[k] = c[k]
           /\ d.status = "none" /\ c.spad.page = 0 => d.spad.map = d.spad.enables
<1> DEFINE s == Entered(c.spad, "map", c.spad.enables)
           d == Put(c, 0, "map", c.spad.enables)
<1>1. c.spad \in SpadStates /\ c.spad.enables \in SUBSET Bits
  BY DEF Sensings, SpadStates
<1>2. s \in SpadStates
  BY <1>1 DEF SpadStates, Entered
<1>3. /\ s.page = c.spad.page /\ s.good = c.spad.good
      /\ s.enables = c.spad.enables /\ s.map = c.spad.enables
  BY <1>1 DEF SpadStates, Entered
<1>4. /\ d \in Sensings /\ d.spad \in {c.spad, s}
      /\ \A k \in DOMAIN c \ {"spad", "fuse", "status"} : d[k] = c[k]
      /\ d.status = "none" /\ c.spad.page = 0 => d.spad = s
  BY <1>2, PutIs
<1>5. WriteMap(c) = d
  BY DEF WriteMap
<1> HIDE DEF d, s
<1> QED
  BY <1>3, <1>4, <1>5

LEMMA LeastBit ==
    ASSUME NEW S, S \subseteq Nat, S # {}
    PROVE  \E x \in S : \A y \in S : x <= y
<1> DEFINE R == OpToRel(<, Nat)
<1>1. IsWellFoundedOn(R, Nat)
  BY NatLessThanWellFounded, Zenon
<1>2. \A x, y \in Nat : <<x, y>> \notin R => y <= x
  <2>1. R = {p \in Nat \X Nat : p[1] < p[2]}
    BY DEF OpToRel
  <2> HIDE DEF R
  <2> QED
    BY <2>1, SMT
<1> HIDE DEF R
<1>3. PICK x \in S : \A y \in S : <<y, x>> \notin R
  BY <1>1, WFMin
<1> QED
  BY <1>2, <1>3

LEMMA BitsAre == \A i : i \in Bits <=> i \in Int /\ 0 <= i /\ i <= 47
  BY SMT DEF Bits

LEMMA LastIs ==
    ASSUME NEW S \in SUBSET Bits, S # {}
    PROVE  Max(S) \in S /\ \A y \in S : y <= Max(S)
<1> DEFINE D == {47 - x : x \in S}
<1>1. D \in SUBSET Nat /\ D # {}
  BY BitsAre
<1>2. PICK d \in D : \A e \in D : d <= e
  BY <1>1, LeastBit
<1>3. PICK x \in S : d = 47 - x
  BY <1>2
<1>4. \A y \in S : x >= y
  <2> TAKE y \in S
  <2>1. d <= 47 - y
    BY <1>2
  <2> QED
    BY <1>3, <2>1, BitsAre
<1>5. Max(S) \in S /\ \A y \in S : Max(S) >= y
  BY <1>3, <1>4, Zenon DEF Max
<1> QED
  BY <1>5, BitsAre

(* The SPADs enable_ref_spads looks at, and those it enables.              *)
Later(c, from) == {i \in c.spad.good : i >= from}
Chosen(c, from, n) ==
    {i \in Later(c, from) : Cardinality({j \in Later(c, from) : j <= i}) <= n}
Usable(c, aperture, from, n) ==
    {i \in Chosen(c, from, n) :
        \A j \in Chosen(c, from, n) : j <= i => IsAperture(j) = aperture}

LEMMA UsableIs ==
    ASSUME NEW c \in Sensings, NEW t, NEW from \in Nat, NEW n \in Nat
    PROVE  LET U == Usable(c, t, from, n) IN
           /\ U \in SUBSET Bits /\ U \subseteq c.spad.good
           /\ \A i \in U : i >= from /\ IsAperture(i) = t
           /\ U # {} => /\ Max(U) + 1 \in Nat /\ Max(U) >= from
                        /\ U = {i \in c.spad.good : from <= i /\ i < Max(U) + 1}
<1> DEFINE U == Usable(c, t, from, n)
           L == Later(c, from)
           C == Chosen(c, from, n)
           Below(i) == {j \in L : j <= i}
<1>1. c.spad.good \in SUBSET Bits
  BY DEF Sensings, SpadStates
<1>2. L \in SUBSET Bits /\ L \subseteq c.spad.good /\ \A i \in L : i >= from
  BY <1>1 DEF Later
<1>3. C \subseteq L /\ \A i \in L : i \in C <=> Cardinality(Below(i)) <= n
  BY DEF Chosen
<1>4. /\ U \subseteq C
      /\ \A i \in C : i \in U <=> \A j \in C : j <= i => IsAperture(j) = t
  BY DEF Usable
<1> HIDE DEF U, L, C
<1>5. \A i \in U : i >= from /\ IsAperture(i) = t
  BY <1>2, <1>3, <1>4, BitsAre
<1>6. ASSUME U # {}
      PROVE  /\ Max(U) + 1 \in Nat /\ Max(U) >= from
             /\ U = {i \in c.spad.good : from <= i /\ i < Max(U) + 1}
  <2> DEFINE m == Max(U)
  <2>1. m \in U /\ \A i \in U : i <= m
    BY <1>2, <1>3, <1>4, <1>6, LastIs
  <2> HIDE DEF m
  <2>2. m \in Int /\ m >= from /\ m \in L
    BY <1>2, <1>3, <1>4, <2>1, BitsAre
  <2>3. ASSUME NEW i \in c.spad.good, from <= i, i < m + 1
        PROVE  i \in U
    <3>1. i \in L /\ i \in Int /\ i <= m
      BY <1>1, <2>2, <2>3, BitsAre DEF Later, L
    <3>2. Below(i) \subseteq Below(m)
      <4>1. \A j \in L : j \in Int
        BY <1>2, BitsAre
      <4>2. \A j \in L : j <= i => j <= m
        BY <2>2, <3>1, <4>1
      <4> QED
        BY <4>2
    <3>3. Below(m) \in SUBSET Bits /\ Below(i) \in SUBSET Below(m)
      BY <1>2, <3>2
    <3>4. /\ IsFiniteSet(Below(m)) /\ Cardinality(Below(m)) \in Nat
          /\ Cardinality(Below(i)) <= Cardinality(Below(m))
          /\ Cardinality(Below(i)) \in Nat
      BY <3>3, BitsFinite, FS_Subset, FS_CardinalityType
    <3>5. Cardinality(Below(m)) <= n
      BY <1>3, <1>4, <2>1, <2>2
    <3>6. i \in C
      BY <1>3, <3>1, <3>4, <3>5
    <3>7. \A j \in C : j <= i => IsAperture(j) = t
      <4>1. \A j \in C : j \in Int
        BY <1>2, <1>3, BitsAre
      <4>2. \A j \in C : j <= i => j <= m
        BY <2>2, <3>1, <4>1
      <4> QED
        BY <1>4, <2>1, <4>2
    <3> QED
      BY <1>4, <3>6, <3>7
  <2>4. ASSUME NEW i \in U
        PROVE  i \in c.spad.good /\ from <= i /\ i < m + 1
    BY <1>2, <1>3, <1>4, <1>5, <2>1, <2>2, BitsAre
  <2>5. U = {i \in c.spad.good : from <= i /\ i < m + 1}
    BY <2>3, <2>4
  <2> QED
    BY <2>2, <2>5 DEF m
<1> QED
  BY <1>2, <1>3, <1>4, <1>5, <1>6 DEF U

Chose(c, U, k, s) == [c EXCEPT !.spad.enables = @ \cup U, !.index = k, !.status = s]

ChoseOnly(c, d, U, k, s) ==
    /\ d \in Sensings /\ d.index = k /\ d.status = s
    /\ d.spad.enables = c.spad.enables \cup U
    /\ d.spad.map = c.spad.map /\ d.spad.good = c.spad.good /\ d.spad.page = c.spad.page
    /\ d.scene = c.scene /\ d.found = c.found /\ d.aperture = c.aperture
    /\ d.search = c.search

LEMMA ChoseIs ==
    ASSUME NEW c \in Sensings, NEW U \in SUBSET Bits, NEW k \in Nat, NEW s \in Statuses
    PROVE  ChoseOnly(c, Chose(c, U, k, s), U, k, s)
<1> DEFINE e == c.spad.enables \cup U
           p == [c.spad EXCEPT !.enables = e]
           d == [c EXCEPT !.spad = p, !.index = k, !.status = s]
<1>1. c.spad \in SpadStates /\ e \in SUBSET Bits
  BY DEF Sensings, SpadStates
<1>2. Chose(c, U, k, s) = d
  BY Zenon DEF Chose
<1> HIDE DEF e
<1>3. /\ p \in SpadStates /\ p.enables = e /\ p.map = c.spad.map
      /\ p.good = c.spad.good /\ p.page = c.spad.page
  BY <1>1 DEF SpadStates
<1> HIDE DEF p
<1>4. d \in Sensings /\ d.spad = p /\ d.index = k /\ d.status = s
  BY <1>3 DEF Sensings
<1>5. d.scene = c.scene /\ d.found = c.found /\ d.aperture = c.aperture /\ d.search = c.search
  BY DEF Sensings
<1> HIDE DEF d
<1> QED
  BY <1>2, <1>3, <1>4, <1>5 DEF e, ChoseOnly

EnabledBy(c, U, n, d) ==
    /\ d \in Sensings /\ d.spad.good = c.spad.good /\ d.spad.page = c.spad.page
    /\ d.scene = c.scene /\ d.found = c.found /\ d.aperture = c.aperture
    /\ d.search = c.search
    /\ d.status = "none" =>
           /\ Cardinality(U) = n /\ d.spad.enables = c.spad.enables \cup U
           /\ U # {} => d.index = Max(U) + 1
           /\ c.spad.page = 0 => d.spad.map = d.spad.enables

(* enable_ref_spads: without an error n of them have been enabled, and the *)
(* map in the sensor is the one in the device structure.                   *)
LEMMA EnableIs ==
    ASSUME NEW c \in Sensings, NEW t, NEW from \in Nat, NEW n \in Nat
    PROVE  EnabledBy(c, Usable(c, t, from, n), n, EnableSpads(c, t, from, n))
<1> DEFINE U == Usable(c, t, from, n)
           k == IF U = {} THEN from ELSE Max(U) + 1
           s == IF Cardinality(U) = n THEN "none" ELSE "spad"
           d1 == Chose(c, U, k, s)
           d2 == Then(d1, WriteMap)
           d3 == Then(d2, Transfer)
<1>1. EnableSpads(c, t, from, n) = d3
  BY Zenon DEF EnableSpads, Then, Chose, Usable, Chosen, Later
<1> HIDE DEF U
<1>2. U \in SUBSET Bits /\ k \in Nat /\ s \in Statuses
  BY UsableIs, Ends DEF U
<1> HIDE DEF k, s
<1>3. /\ d1 \in Sensings /\ d1.index = k /\ d1.status = s
      /\ d1.spad.enables = c.spad.enables \cup U
      /\ d1.spad.map = c.spad.map /\ d1.spad.good = c.spad.good /\ d1.spad.page = c.spad.page
      /\ d1.scene = c.scene /\ d1.found = c.found /\ d1.aperture = c.aperture
      /\ d1.search = c.search
  <2>1. ChoseOnly(c, d1, U, k, s)
    BY <1>2, ChoseIs
  <2> QED
    BY <2>1 DEF ChoseOnly
<1>4. d2 = IF s = "none" THEN WriteMap(d1) ELSE d1
  BY <1>3, Zenon DEF Then
<1> HIDE DEF d1
<1> DEFINE w == WriteMap(d1)
<1>5. /\ w \in Sensings /\ w.spad.page = d1.spad.page
      /\ w.spad.good = d1.spad.good /\ w.spad.enables = d1.spad.enables
      /\ \A x \in DOMAIN d1 \ {"spad", "fuse", "status"} : w[x] = d1[x]
      /\ w.status = "none" /\ d1.spad.page = 0 => w.spad.map = w.spad.enables
  BY <1>3, WriteMapIs
<1> HIDE DEF w
<1>6. /\ w.scene = d1.scene /\ w.found = d1.found /\ w.aperture = d1.aperture
      /\ w.search = d1.search /\ w.index = d1.index
  BY <1>3, <1>5 DEF Sensings
<1>7. /\ d2 \in Sensings /\ d2.spad.good = c.spad.good /\ d2.spad.page = c.spad.page
      /\ d2.scene = c.scene /\ d2.found = c.found /\ d2.aperture = c.aperture
      /\ d2.search = c.search
      /\ d2.status = "none" =>
             /\ s = "none" /\ d2.spad.enables = c.spad.enables \cup U /\ d2.index = k
             /\ c.spad.page = 0 => d2.spad.map = d2.spad.enables
  BY <1>3, <1>4, <1>5, <1>6 DEF w
<1>8. d3 = IF d2.status = "none" THEN Transfer(d2) ELSE d2
  BY Zenon DEF Then
<1> HIDE DEF d2, d3
<1>9. Beside(d2, Transfer(d2)) /\ Transfer(d2).spad = d2.spad
  BY <1>7, TransferBeside
<1>10. /\ d3 \in Sensings /\ d3.spad = d2.spad /\ d3.scene = d2.scene
       /\ d3.found = d2.found /\ d3.aperture = d2.aperture /\ d3.search = d2.search
       /\ d3.index = d2.index /\ (d3.status = "none" => d2.status = "none")
  BY <1>7, <1>8, <1>9 DEF Beside, Kept
<1>11. s = "none" => Cardinality(U) = n
  BY DEF s
<1>12. U # {} => k = Max(U) + 1
  BY DEF k
<1> QED
  BY <1>1, <1>7, <1>10, <1>11, <1>12 DEF U, EnabledBy

-----------------------------------------------------------------------------
(* The minimum number of SPADs of one type.                                *)
LEMMA TypesAre ==
    ASSUME NEW i \in Bits
    PROVE  IsAperture(i) = IF i < 12 THEN 0 ELSE 1
<1>1. i \in Int /\ 0 <= i /\ i <= 47
  BY BitsAre
<1>2. (180 + i) \div 64 = 2 <=> i < 12
  BY <1>1, SMT
<1> QED
  BY <1>2 DEF IsAperture

Taken(good, t, k) == {i \in good : IsAperture(i) = t /\ i < k}
Signal(scene, t, n) ==
    scene.base + n * (IF t = 1 THEN scene.aperture ELSE scene.open)

LEMMA LightOfType ==
    ASSUME NEW map \in SUBSET Bits, NEW scene \in Lights, NEW t \in {0, 1},
           \A i \in map : IsAperture(i) = t
    PROVE  Light(map, scene) = Signal(scene, t, Cardinality(map))
<1>1. {i \in map : IsAperture(i) = t} = map /\ {i \in map : IsAperture(i) = 1 - t} = {}
  OBVIOUS
<1>2. Lit(map, t) = Cardinality(map) /\ Lit(map, 1 - t) = 0
  BY <1>1, FS_EmptySet DEF Lit
<1>3. /\ scene.base \in Nat /\ scene.open \in Nat /\ scene.aperture \in Nat
      /\ Cardinality(map) \in Nat
  BY BitsFinite DEF Lights
<1>4. \A x \in Nat : 0 * x = 0
  OBVIOUS
<1>5. CASE t = 0
  <2>1. Lit(map, 0) = Cardinality(map) /\ Lit(map, 1) = 0
    BY <1>2, <1>5
  <2>2. Light(map, scene) = scene.base + Cardinality(map) * scene.open + 0 * scene.aperture
    BY <2>1, Zenon DEF Light
  <2>3. Signal(scene, t, Cardinality(map)) = scene.base + Cardinality(map) * scene.open
    BY <1>5 DEF Signal
  <2> QED
    BY <1>3, <2>2, <2>3
<1>6. CASE t = 1
  <2>1. Lit(map, 1) = Cardinality(map) /\ Lit(map, 0) = 0
    BY <1>2, <1>6
  <2>2. Light(map, scene) = scene.base + 0 * scene.open + Cardinality(map) * scene.aperture
    BY <2>1, Zenon DEF Light
  <2>3. Signal(scene, t, Cardinality(map)) = scene.base + Cardinality(map) * scene.aperture
    BY <1>6 DEF Signal
  <2> QED
    BY <1>3, <2>2, <2>3
<1> QED
  BY <1>5, <1>6

(* Without an error the three first SPADs of the type are on, and have     *)
(* been measured.                                                          *)
Ready(c) ==
    /\ c.spad.page = 0 /\ c.spad.map = c.spad.enables
    /\ c.spad.enables = Taken(c.spad.good, c.aperture, c.index)
    /\ Cardinality(c.spad.enables) = 3
    /\ c.rate = Rate(c.spad.enables, c.scene)
    /\ c.aperture = 1 => c.index >= 12
    /\ c.aperture = 0 => c.index <= 12

Outside(c) == <<c.spad.good, c.scene, c.found, c.search>>

LEMMA MinimumIs ==
    ASSUME NEW c \in Sensings, c.spad.enables = {}, c.spad.page = 0, NEW t \in {0, 1},
           NEW from \in Nat, from = IF t = 1 THEN 12 ELSE 0
    PROVE  LET d == Minimum(c, t, from) IN
           /\ d \in Sensings /\ Outside(d) = Outside(c) /\ d.aperture = t
           /\ d.status = "none" => Ready(d)
<1> DEFINE d0 == [c EXCEPT !.aperture = t]
           U == Usable(d0, t, from, 3)
           d1 == EnableSpads(d0, t, from, 3)
           d2 == Then(d1, MeasureSignal)
<1>1. Minimum(c, t, from) = d2
  BY Zenon DEF Minimum, MinimumSpads
<1>2. /\ d0 \in Sensings /\ d0.spad = c.spad /\ d0.aperture = t /\ d0.scene = c.scene
      /\ d0.found = c.found /\ d0.search = c.search
  BY DEF Sensings
<1> HIDE DEF d0
<1>3. /\ d1 \in Sensings /\ d1.spad.good = d0.spad.good /\ d1.spad.page = d0.spad.page
      /\ d1.scene = d0.scene /\ d1.found = d0.found /\ d1.aperture = d0.aperture
      /\ d1.search = d0.search
      /\ d1.status = "none" =>
             /\ Cardinality(U) = 3 /\ d1.spad.enables = d0.spad.enables \cup U
             /\ U # {} => d1.index = Max(U) + 1
             /\ d0.spad.page = 0 => d1.spad.map = d1.spad.enables
  <2>1. EnabledBy(d0, U, 3, d1)
    BY <1>2, EnableIs
  <2> QED
    BY <2>1 DEF EnabledBy
<1>4. /\ U \in SUBSET Bits /\ U \subseteq d0.spad.good
      /\ \A i \in U : i >= from /\ IsAperture(i) = t
      /\ U # {} => /\ Max(U) + 1 \in Nat /\ Max(U) >= from
                   /\ U = {i \in d0.spad.good : from <= i /\ i < Max(U) + 1}
  BY <1>2, UsableIs
<1> HIDE DEF U, d1
<1>5. d1.status = "none" =>
          /\ d1.spad.map = d1.spad.enables
          /\ d1.spad.enables = Taken(d1.spad.good, t, d1.index)
          /\ Cardinality(d1.spad.enables) = 3
          /\ t = 1 => d1.index >= 12
          /\ t = 0 => d1.index <= 12
  <2> SUFFICES ASSUME d1.status = "none"
               PROVE  /\ d1.spad.map = d1.spad.enables
                      /\ d1.spad.enables = Taken(d1.spad.good, t, d1.index)
                      /\ Cardinality(d1.spad.enables) = 3
                      /\ t = 1 => d1.index >= 12
                      /\ t = 0 => d1.index <= 12
    OBVIOUS
  <2>1. U # {}
    BY <1>3, FS_EmptySet
  <2>2. /\ d1.spad.enables = U /\ d1.spad.map = U /\ d1.index = Max(U) + 1
        /\ Cardinality(U) = 3
    BY <1>2, <1>3, <2>1
  <2> DEFINE k == Max(U) + 1
  <2>3. k \in Nat /\ Max(U) >= from /\ U = {i \in d1.spad.good : from <= i /\ i < k}
    BY <1>3, <1>4, <2>1
  <2>4. d1.spad.good \in SUBSET Bits
    BY <1>3 DEF Sensings, SpadStates
  <2>5. Max(U) \in U /\ Max(U) \in Int
    BY <1>4, <2>1, LastIs, BitsAre
  <2>6. t = 0 => k <= 12
    BY <1>4, <2>5, TypesAre
  <2>7. t = 1 => k >= 12
    BY <2>3, <2>5
  <2> HIDE DEF k
  <2>8. U \subseteq Taken(d1.spad.good, t, k)
    BY <1>4, <2>3 DEF Taken
  <2>9. ASSUME NEW i \in Taken(d1.spad.good, t, k)
        PROVE  i \in U
    <3>1. i \in d1.spad.good /\ i < k /\ IsAperture(i) = t
      BY <2>9 DEF Taken
    <3>2. i \in Int /\ 0 <= i /\ (IsAperture(i) = IF i < 12 THEN 0 ELSE 1)
      BY <2>4, <3>1, BitsAre, TypesAre
    <3>3. from <= i
      BY <3>1, <3>2
    <3> QED
      BY <2>3, <3>1, <3>3
  <2> QED
    BY <2>2, <2>6, <2>7, <2>8, <2>9 DEF k
<1>6. d2 = IF d1.status = "none" THEN MeasureSignal(d1) ELSE d1
  BY Zenon DEF Then
<1> DEFINE m == MeasureSignal(d1)
<1>7. /\ Beside(d1, m)
      /\ m.status = "none" => m.spad.page = 0 /\ m.rate = Rate(d1.spad.map, d1.scene)
  BY <1>3, MeasureIs
<1> HIDE DEF d2, m
<1>8. /\ m \in Sensings /\ m.spad.good = d1.spad.good /\ m.spad.enables = d1.spad.enables
      /\ m.spad.map = d1.spad.map /\ m.scene = d1.scene /\ m.index = d1.index
      /\ m.found = d1.found /\ m.aperture = d1.aperture /\ m.search = d1.search
  BY <1>7 DEF Beside, Kept
<1>9. d2 = IF d1.status = "none" THEN m ELSE d1
  BY <1>6 DEF m
<1>10. /\ d2 \in Sensings /\ d2.spad.good = c.spad.good /\ d2.scene = c.scene
       /\ d2.found = c.found /\ d2.search = c.search /\ d2.aperture = t
  BY <1>2, <1>3, <1>8, <1>9
<1>11. d2.status = "none" => d1.status = "none" /\ d2 = m
  BY <1>9
<1>12. d2.status = "none" => Ready(d2)
  BY <1>2, <1>3, <1>5, <1>7, <1>8, <1>11 DEF Ready
<1> QED
  BY <1>1, <1>10, <1>12 DEF Outside

LEMMA ClearedIs ==
    ASSUME NEW c \in Sensings
    PROVE  LET d == Cleared(c) IN
           /\ d \in Sensings /\ d.spad.enables = {} /\ Outside(d) = Outside(c)
           /\ d.spad.page = c.spad.page /\ d.index = c.index /\ d.status = c.status
           /\ d.fuse = c.fuse
<1> DEFINE s == [c.spad EXCEPT !.enables = {}]
           d == Holding(c, s)
<1>1. Cleared(c) = d
  BY Zenon DEF Cleared, Holding
<1>2. c.spad \in SpadStates
  BY DEF Sensings
<1>3. s \in SpadStates /\ s.enables = {} /\ s.good = c.spad.good /\ s.page = c.spad.page
  BY <1>2 DEF SpadStates
<1> HIDE DEF s
<1>4. d \in Sensings /\ d.spad = s /\ \A k \in DOMAIN c \ {"spad"} : d[k] = c[k]
  BY <1>3, HoldingIs
<1> HIDE DEF d
<1>5. /\ d.scene = c.scene /\ d.found = c.found /\ d.search = c.search
      /\ d.index = c.index /\ d.status = c.status /\ d.fuse = c.fuse
  BY <1>4 DEF Sensings
<1> QED
  BY <1>1, <1>3, <1>4, <1>5 DEF Outside

LEMMA ReadyRate ==
    ASSUME NEW c \in Sensings, Ready(c)
    PROVE  /\ c.rate = Capped(Signal(c.scene, c.aperture, Cardinality(c.spad.enables)))
           /\ Signal(c.scene, c.aperture, Cardinality(c.spad.enables)) \in Nat
<1>1. c.spad.enables \in SUBSET Bits /\ c.scene \in Lights /\ c.aperture \in {0, 1}
  BY DEF Sensings, SpadStates
<1>2. \A i \in c.spad.enables : IsAperture(i) = c.aperture
  BY DEF Ready, Taken
<1> QED
  BY <1>1, <1>2, RateIs, LightOfType DEF Ready

(* Three non-aperture SPADs already give too much.                         *)
Dazzled(scene) == Capped(Signal(scene, 0, 3)) > TargetRate

LEMMA MinimumOfEitherIs ==
    ASSUME NEW c \in Sensings, c.spad.enables = {}, c.spad.page = 0
    PROVE  LET d == MinimumOfEither(c) IN
           /\ d \in Sensings /\ Outside(d) = Outside(c)
           /\ d.status = "none" =>
                  /\ Ready(d) /\ d.aperture \in {0, 1}
                  /\ d.aperture = 1 => Dazzled(d.scene)
                  /\ d.aperture = 0 => ~(d.rate > TargetRate)
<1> DEFINE d1 == Minimum(c, 0, 0)
           e == Cleared(d1)
           from == Max({d1.index, 12})
           m == Minimum(e, 1, from)
           d2 == IF d1.status = "none"
                 THEN IF d1.rate > TargetRate THEN m ELSE d1
                 ELSE d1
<1>1. MinimumOfEither(c) = d2
  BY Zenon DEF MinimumOfEither, Then
<1>2. /\ d1 \in Sensings /\ Outside(d1) = Outside(c) /\ d1.aperture = 0
      /\ d1.status = "none" => Ready(d1)
  BY MinimumIs
<1> HIDE DEF d1
<1>3. CASE d1.status = "none" /\ d1.rate > TargetRate
  <2>1. d1.index \in Nat /\ d1.index <= 12
    BY <1>2, <1>3 DEF Ready, Sensings
  <2>2. from = 12
    BY <2>1 DEF Max
  <2>3. /\ e \in Sensings /\ e.spad.enables = {} /\ Outside(e) = Outside(d1)
        /\ e.spad.page = d1.spad.page
    BY <1>2, ClearedIs
  <2> HIDE DEF e, from
  <2>4. d1.spad.page = 0
    BY <1>2, <1>3 DEF Ready
  <2>5. /\ m \in Sensings /\ Outside(m) = Outside(e) /\ m.aperture = 1
        /\ m.status = "none" => Ready(m)
    BY <2>2, <2>3, <2>4, MinimumIs
  <2>6. Dazzled(d1.scene)
    <3>1. Cardinality(d1.spad.enables) = 3
      BY <1>2, <1>3 DEF Ready
    <3> QED
      BY <1>2, <1>3, <3>1, ReadyRate DEF Dazzled
  <2> HIDE DEF m
  <2>7. m.scene = d1.scene
    BY <2>3, <2>5 DEF Outside
  <2>8. d2 = m
    BY <1>3
  <2> HIDE DEF d2
  <2> QED
    BY <1>1, <1>2, <2>3, <2>5, <2>6, <2>7, <2>8
<1>4. CASE ~(d1.status = "none" /\ d1.rate > TargetRate)
  <2>1. d2 = d1
    BY <1>4
  <2> HIDE DEF d2
  <2> QED
    BY <1>1, <1>2, <1>4, <2>1
<1> QED
  BY <1>3, <1>4

-----------------------------------------------------------------------------
(* Signals and their distance to the target.                               *)
LEMMA TargetInRange == TargetRate \in Nat /\ 2 * TargetRate < 65535
  BY SMT DEF TargetRate

LEMMA SignalGrows ==
    ASSUME NEW scene \in Lights, NEW t \in {0, 1}, NEW m \in Nat, NEW n \in Nat
    PROVE  /\ Signal(scene, t, m) \in Nat /\ Signal(scene, t, n) \in Nat
           /\ m <= n => Signal(scene, t, m) <= Signal(scene, t, n)
<1> DEFINE per == IF t = 1 THEN scene.aperture ELSE scene.open
<1>1. per \in Nat /\ scene.base \in Nat
  BY DEF Lights
<1>2. /\ Signal(scene, t, m) = scene.base + m * per
      /\ Signal(scene, t, n) = scene.base + n * per
  BY DEF Signal
<1> HIDE DEF per
<1>3. m * per \in Nat /\ n * per \in Nat
  BY <1>1, SMT
<1>4. m <= n => m * per <= n * per
  <2> SUFFICES ASSUME m <= n PROVE m * per <= n * per
    OBVIOUS
  <2>1. n - m \in Nat
    OBVIOUS
  <2>2. (n - m) * per \in Nat
    BY <1>1, <2>1, SMT
  <2>3. n * per = m * per + (n - m) * per
    BY <1>1, SMT
  <2> QED
    BY <1>3, <2>2, <2>3
<1> QED
  BY <1>1, <1>2, <1>3, <1>4

LEMMA OffBelow ==
    ASSUME NEW a \in Nat, NEW b \in Nat, a <= b, b <= TargetRate
    PROVE  Off(b) <= Off(a)
  BY TargetInRange DEF Off

LEMMA OffAbove ==
    ASSUME NEW a \in Nat, NEW b \in Nat, a <= b, TargetRate < a
    PROVE  Off(a) <= Off(b)
  BY TargetInRange DEF Off

LEMMA CappedIs ==
    ASSUME NEW a \in Nat
    PROVE  /\ Capped(a) \in Nat /\ Capped(a) <= a
           /\ Capped(a) > TargetRate <=> a > TargetRate
           /\ ~(a > TargetRate) => Capped(a) = a
           /\ a > TargetRate => Off(Capped(a)) <= Off(a)
           /\ a > TargetRate /\ Off(Capped(a)) <= TargetRate => Capped(a) = a
  BY TargetInRange DEF Capped, Off

(* No number of SPADs comes closer than n.                                 *)
NoneCloser(scene, t, n) ==
    \A k \in Nat : Off(Signal(scene, t, n)) <= Off(Signal(scene, t, k))

(* The better of the last number below the target and the first above it.  *)
LEMMA CloserOfTwo ==
    ASSUME NEW scene \in Lights, NEW t \in {0, 1}, NEW n \in Nat,
           NEW low, low = Capped(Signal(scene, t, n)), ~(low > TargetRate),
           NEW high, high = Capped(Signal(scene, t, n + 1)), high > TargetRate
    PROVE  IF Off(high) > Off(low) THEN NoneCloser(scene, t, n)
           ELSE NoneCloser(scene, t, n + 1)
<1> DEFINE S(k) == Signal(scene, t, k)
<1>1. n + 1 \in Nat /\ S(n) \in Nat /\ S(n + 1) \in Nat
  BY SignalGrows
<1>2. /\ low = S(n) /\ S(n) <= TargetRate /\ S(n + 1) > TargetRate
      /\ Off(high) <= Off(S(n + 1)) /\ high \in Nat
      /\ Off(high) <= TargetRate => high = S(n + 1)
  BY <1>1, CappedIs, TargetInRange
<1>3. Off(low) \in Nat /\ Off(low) <= TargetRate /\ Off(high) \in Nat /\ Off(S(n + 1)) \in Nat
  BY <1>1, <1>2, TargetInRange DEF Off
<1>4. ASSUME NEW k \in Nat
      PROVE  /\ k <= n => Off(S(n)) <= Off(S(k))
             /\ k >= n + 1 => Off(S(n + 1)) <= Off(S(k))
             /\ Off(S(k)) \in Int
  <2>1. S(k) \in Nat /\ (k <= n => S(k) <= S(n)) /\ (k >= n + 1 => S(n + 1) <= S(k))
    BY <1>1, SignalGrows
  <2> HIDE DEF S
  <2>2. k <= n => Off(S(n)) <= Off(S(k))
    BY <1>1, <1>2, <2>1, OffBelow
  <2>3. k >= n + 1 => Off(S(n + 1)) <= Off(S(k))
    BY <1>1, <1>2, <2>1, OffAbove
  <2>4. Off(S(k)) \in Int
    BY <2>1, TargetInRange DEF Off
  <2> QED
    BY <2>2, <2>3, <2>4
<1> HIDE DEF S
<1>5. \A k \in Nat : k <= n \/ k >= n + 1
  OBVIOUS
<1>6. CASE Off(high) > Off(low)
  <2>1. Off(S(n)) <= Off(S(n + 1))
    BY <1>2, <1>3, <1>6
  <2>2. \A k \in Nat : Off(S(n)) <= Off(S(k))
    BY <1>2, <1>3, <1>4, <1>5, <2>1
  <2> QED
    BY <1>6, <2>2 DEF NoneCloser, S
<1>7. CASE ~(Off(high) > Off(low))
  <2>1. Off(S(n + 1)) <= Off(S(n))
    <3>1. Off(high) <= Off(low) /\ Off(high) <= TargetRate
      BY <1>3, <1>7, TargetInRange
    <3>2. high = S(n + 1)
      BY <1>2, <3>1
    <3> QED
      BY <1>2, <3>1, <3>2, Zenon
  <2>2. \A k \in Nat : Off(S(n + 1)) <= Off(S(k))
    BY <1>2, <1>3, <1>4, <1>5, <2>1
  <2> QED
    BY <1>7, <2>2 DEF NoneCloser, S
<1> QED
  BY <1>6, <1>7

-----------------------------------------------------------------------------
(* A turn of the search.                                                   *)
Fixed(c) == <<c.spad.good, c.scene, c.aperture, c.index>>
All(c) == Taken(c.spad.good, c.aperture, 48)
Reach(c, i) == IF i < c.index THEN c.index ELSE i
SignalOf(c, n) == Signal(c.scene, c.aperture, n)

(* Of the numbers of SPADs there are.                                      *)
Closest(c, n) ==
    \A k \in Nat : k <= Cardinality(All(c)) => Off(SignalOf(c, n)) <= Off(SignalOf(c, k))

(* Before turn i: the first SPADs of the type are on, all that were        *)
(* visited, as long as the search goes on.                                 *)
Consistent(x) ==
    /\ x.spad.page = 0 /\ x.spad.map = x.spad.enables
    /\ x.spad.enables \subseteq All(x) /\ x.found = Cardinality(x.spad.enables)

GoesOn(x, k) ==
    /\ x.spad.enables = Taken(x.spad.good, x.aperture, k)
    /\ x.rate = Capped(SignalOf(x, Cardinality(x.spad.enables)))
    /\ ~(x.rate > TargetRate)

Walked(c, x, i) ==
    /\ x \in Sensings /\ Fixed(x) = Fixed(c) /\ x.search \in {"on", "complete"}
    /\ x.status = "none" => Consistent(x)
    /\ x.status = "none" /\ x.search = "on" => GoesOn(x, Reach(c, i))
    /\ x.status = "none" /\ x.search = "complete" => Closest(x, Cardinality(x.spad.enables))

(* What can be walked from.                                                *)
Ahead(c) ==
    /\ c \in Sensings /\ c.aperture \in {0, 1} /\ c.index \in Nat
    /\ c.aperture = 1 => c.index >= 12

Searching(c, n, s) == [c EXCEPT !.found = n, !.search = s]

LEMMA SearchingIs ==
    ASSUME NEW c \in Sensings, NEW n \in Int, NEW s \in {"on", "complete"}
    PROVE  LET d == Searching(c, n, s) IN
           /\ d \in Sensings /\ d.spad = c.spad /\ Fixed(d) = Fixed(c) /\ d.rate = c.rate
           /\ d.found = n /\ d.search = s /\ d.status = c.status
  BY DEF Sensings, Searching, Fixed

(* The SPADs of one type have run out: none more would come closer.        *)
LEMMA AllTaken ==
    ASSUME NEW x \in Sensings, GoesOn(x, 48)
    PROVE  Closest(x, Cardinality(x.spad.enables))
<1> DEFINE n == Cardinality(x.spad.enables)
<1>1. x.scene \in Lights /\ x.aperture \in {0, 1} /\ n \in Nat
  BY BitsFinite DEF Sensings, SpadStates
<1>2. SignalOf(x, n) \in Nat
  BY <1>1, SignalGrows DEF SignalOf
<1>3. SignalOf(x, n) <= TargetRate
  BY <1>2, CappedIs, TargetInRange DEF GoesOn
<1>4. n = Cardinality(All(x))
  BY DEF GoesOn, All
<1> HIDE DEF n
<1>5. ASSUME NEW k \in Nat, k <= n PROVE Off(SignalOf(x, n)) <= Off(SignalOf(x, k))
  <2>1. SignalOf(x, k) \in Nat /\ SignalOf(x, k) <= SignalOf(x, n)
    BY <1>1, <1>5, SignalGrows DEF SignalOf
  <2> QED
    BY <1>2, <1>3, <2>1, OffBelow
<1> QED
  BY <1>4, <1>5 DEF Closest, n

LEMMA TakenMore ==
    ASSUME NEW good \in SUBSET Bits, NEW t \in {0, 1}, NEW i \in 0 .. 47
    PROVE  /\ Taken(good, t, i) \in SUBSET Bits /\ i \notin Taken(good, t, i)
           /\ i \in good /\ IsAperture(i) = t =>
                  /\ Taken(good, t, i + 1) = Taken(good, t, i) \cup {i}
                  /\ Cardinality(Taken(good, t, i + 1)) = Cardinality(Taken(good, t, i)) + 1
           /\ ~(i \in good /\ IsAperture(i) = t) => Taken(good, t, i + 1) = Taken(good, t, i)
           /\ i >= 12 /\ t = 0 => Taken(good, t, 48) = Taken(good, t, i)
           /\ Taken(good, t, i + 1) \subseteq Taken(good, t, 48)
<1>1. \A j \in good : j \in Int /\ 0 <= j /\ j <= 47 /\ (IsAperture(j) = IF j < 12 THEN 0 ELSE 1)
  BY BitsAre, TypesAre
<1>2. i \in Int /\ i <= 47 /\ i >= 0
  OBVIOUS
<1>3. Taken(good, t, i) \in SUBSET Bits /\ i \notin Taken(good, t, i)
  BY <1>2 DEF Taken
<1>4. \A j \in good : j < i + 1 <=> j < i \/ j = i
  BY <1>1, <1>2
<1>5. i \in good /\ IsAperture(i) = t => Taken(good, t, i + 1) = Taken(good, t, i) \cup {i}
  BY <1>4 DEF Taken
<1>6. ~(i \in good /\ IsAperture(i) = t) => Taken(good, t, i + 1) = Taken(good, t, i)
  BY <1>4 DEF Taken
<1>7. i >= 12 /\ t = 0 => Taken(good, t, 48) = Taken(good, t, i)
  <2> SUFFICES ASSUME i >= 12, t = 0 PROVE Taken(good, t, 48) = Taken(good, t, i)
    OBVIOUS
  <2>1. \A j \in good : IsAperture(j) = t => j < i /\ j < 48
    BY <1>1, <1>2
  <2> QED
    BY <2>1 DEF Taken
<1>8. Taken(good, t, i + 1) \subseteq Taken(good, t, 48)
  <2>1. \A j \in good : j < 48
    BY <1>1
  <2> QED
    BY <2>1 DEF Taken
<1>9. IsFiniteSet(Taken(good, t, i))
  BY <1>3, BitsFinite
<1>10. Cardinality(Taken(good, t, i) \cup {i}) = Cardinality(Taken(good, t, i)) + 1
  BY <1>3, <1>9, FS_AddElement
<1> QED
  BY <1>3, <1>5, <1>6, <1>7, <1>8, <1>10

More(x, e, n) == [x EXCEPT !.spad.enables = e, !.found = n]

LEMMA MoreIs ==
    ASSUME NEW x \in Sensings, NEW e \in SUBSET Bits, NEW n \in Int
    PROVE  LET d == More(x, e, n) IN
           /\ d \in Sensings /\ Fixed(d) = Fixed(x) /\ d.search = x.search /\ d.found = n
           /\ d.status = x.status /\ d.spad.enables = e /\ d.spad.map = x.spad.map
           /\ d.spad.page = x.spad.page
<1> DEFINE s == [x.spad EXCEPT !.enables = e]
           d == [x EXCEPT !.spad = s, !.found = n]
<1>1. More(x, e, n) = d
  BY Zenon DEF More
<1>2. x.spad \in SpadStates
  BY DEF Sensings
<1>3. /\ s \in SpadStates /\ s.enables = e /\ s.map = x.spad.map
      /\ s.good = x.spad.good /\ s.page = x.spad.page
  BY <1>2 DEF SpadStates
<1> HIDE DEF s
<1>4. d \in Sensings /\ d.spad = s /\ d.found = n
  BY <1>3 DEF Sensings
<1>5. /\ d.scene = x.scene /\ d.aperture = x.aperture /\ d.index = x.index
      /\ d.search = x.search /\ d.status = x.status
  BY DEF Sensings
<1> HIDE DEF d
<1> QED
  BY <1>1, <1>3, <1>4, <1>5 DEF Fixed

GrownBy(x, i, d) ==
    /\ d \in Sensings /\ Fixed(d) = Fixed(x) /\ d.search = x.search
    /\ d.found = x.found + 1 /\ d.spad.enables = x.spad.enables \cup {i}
    /\ d.spad.page = x.spad.page
    /\ d.status = "none" /\ x.spad.page = 0 => d.spad.map = d.spad.enables

LEMMA GrownIs ==
    ASSUME NEW x \in Sensings, NEW i \in Bits
    PROVE  GrownBy(x, i, WriteMap(More(x, x.spad.enables \cup {i}, x.found + 1)))
<1> DEFINE m == More(x, x.spad.enables \cup {i}, x.found + 1)
           d == WriteMap(m)
<1>1. x.spad.enables \cup {i} \in SUBSET Bits /\ x.found + 1 \in Int
  BY DEF Sensings, SpadStates
<1>2. /\ m \in Sensings /\ Fixed(m) = Fixed(x) /\ m.search = x.search /\ m.found = x.found + 1
      /\ m.spad.enables = x.spad.enables \cup {i} /\ m.spad.page = x.spad.page
  BY <1>1, MoreIs
<1> HIDE DEF m
<1>3. /\ d \in Sensings /\ d.spad.page = m.spad.page
      /\ d.spad.good = m.spad.good /\ d.spad.enables = m.spad.enables
      /\ \A k \in DOMAIN m \ {"spad", "fuse", "status"} : d[k] = m[k]
      /\ d.status = "none" /\ m.spad.page = 0 => d.spad.map = d.spad.enables
  BY <1>2, WriteMapIs
<1> HIDE DEF d
<1>4. /\ d.scene = m.scene /\ d.aperture = m.aperture /\ d.index = m.index
      /\ d.search = m.search /\ d.found = m.found
  BY <1>2, <1>3 DEF Sensings
<1>5. GrownBy(x, i, d)
  BY <1>2, <1>3, <1>4 DEF GrownBy, Fixed
<1> QED
  BY <1>5 DEF d, m

PutBack(x, e, d) ==
    /\ d \in Sensings /\ Fixed(d) = Fixed(x) /\ d.search = x.search
    /\ d.found = x.found - 1 /\ d.spad.enables = e /\ d.spad.page = x.spad.page
    /\ d.status = "none" /\ x.spad.page = 0 => d.spad.map = e

LEMMA RestoredIs ==
    ASSUME NEW x \in Sensings, NEW before, before.enables \in SUBSET Bits
    PROVE  PutBack(x, before.enables, Restored(x, before))
<1> DEFINE e == before.enables
           s == Entered(x.spad, "map", e)
           p == Put(x, 0, "map", e)
           d == More(p, e, p.found - 1)
<1>1. Restored(x, before) = d
  BY Zenon DEF Restored, More
<1>2. x.spad \in SpadStates
  BY DEF Sensings
<1>3. e \in SUBSET Bits
  OBVIOUS
<1> HIDE DEF e
<1>4. /\ s \in SpadStates /\ s.page = x.spad.page /\ s.good = x.spad.good /\ s.map = e
  BY <1>2, <1>3 DEF SpadStates, Entered
<1>5. /\ p \in Sensings /\ p.spad \in {x.spad, s}
      /\ \A k \in DOMAIN x \ {"spad", "fuse", "status"} : p[k] = x[k]
      /\ p.status = "none" /\ x.spad.page = 0 => p.spad = s
  BY <1>4, PutIs
<1> HIDE DEF s, p
<1>6. /\ p.scene = x.scene /\ p.aperture = x.aperture /\ p.index = x.index
      /\ p.search = x.search /\ p.found = x.found /\ p.found - 1 \in Int
  BY <1>5 DEF Sensings
<1>7. /\ d \in Sensings /\ Fixed(d) = Fixed(p) /\ d.search = p.search /\ d.found = p.found - 1
      /\ d.status = p.status /\ d.spad.enables = e /\ d.spad.map = p.spad.map
      /\ d.spad.page = p.spad.page
  BY <1>3, <1>5, <1>6, MoreIs
<1> HIDE DEF d
<1>8. PutBack(x, e, d)
  BY <1>4, <1>5, <1>6, <1>7 DEF PutBack, Fixed
<1> QED
  BY <1>1, <1>8 DEF e

Completed(x) == [x EXCEPT !.search = "complete"]

LEMMA CompletedIs ==
    ASSUME NEW x \in Sensings
    PROVE  LET d == Completed(x) IN
           /\ d \in Sensings /\ d.spad = x.spad /\ Fixed(d) = Fixed(x) /\ d.rate = x.rate
           /\ d.found = x.found /\ d.search = "complete" /\ d.status = x.status
  BY DEF Sensings, Completed, Fixed

LEMMA KeepCloserIs ==
    ASSUME NEW x \in Sensings, Consistent(x), NEW before,
           NEW e \in SUBSET Bits, before.enables = e,
           NEW n \in Nat, Cardinality(e) = n, Cardinality(x.spad.enables) = n + 1,
           e \subseteq All(x),
           NEW low, low = Capped(SignalOf(x, n)), ~(low > TargetRate), before.off = Off(low),
           x.rate = Capped(SignalOf(x, n + 1)), x.rate > TargetRate
    PROVE  LET d == KeepCloser(x, before) IN
           /\ d \in Sensings /\ Fixed(d) = Fixed(x) /\ d.search = "complete"
           /\ d.status = "none" => Consistent(d) /\ Closest(d, Cardinality(d.spad.enables))
<1> DEFINE d == KeepCloser(x, before)
           y == Completed(x)
           z == Restored(y, before)
<1>1. d = IF Off(x.rate) > before.off THEN z ELSE y
  BY Zenon DEF KeepCloser, Completed
<1>2. x.scene \in Lights /\ x.aperture \in {0, 1}
  BY DEF Sensings
<1>3. IF Off(x.rate) > Off(low) THEN NoneCloser(x.scene, x.aperture, n)
      ELSE NoneCloser(x.scene, x.aperture, n + 1)
  BY <1>2, CloserOfTwo DEF SignalOf
<1>4. /\ y \in Sensings /\ y.spad = x.spad /\ Fixed(y) = Fixed(x)
      /\ y.found = x.found /\ y.search = "complete"
  BY CompletedIs
<1> HIDE DEF d, y
<1>5. \A w : Fixed(w) = Fixed(x) => All(w) = All(x) /\ w.scene = x.scene /\ w.aperture = x.aperture
  BY DEF Fixed, All
<1>6. ASSUME NEW w, Fixed(w) = Fixed(x), NEW k, NoneCloser(x.scene, x.aperture, k),
             Cardinality(w.spad.enables) = k
      PROVE  Closest(w, Cardinality(w.spad.enables))
  BY <1>5, <1>6 DEF NoneCloser, Closest, SignalOf
<1>7. CASE Off(x.rate) > before.off
  <2>1. PutBack(y, e, z)
    BY <1>4, RestoredIs
  <2> HIDE DEF z
  <2>2. /\ z \in Sensings /\ Fixed(z) = Fixed(x) /\ z.search = "complete"
        /\ z.found = x.found - 1 /\ z.spad.enables = e /\ z.spad.page = 0
        /\ z.status = "none" => z.spad.map = e
    BY <1>4, <2>1 DEF PutBack, Consistent
  <2>3. x.found - 1 = n
    BY DEF Consistent
  <2>4. z.status = "none" => Consistent(z)
    BY <1>5, <2>2, <2>3 DEF Consistent
  <2>5. Closest(z, Cardinality(z.spad.enables))
    BY <1>3, <1>6, <1>7, <2>2
  <2> QED
    BY <1>1, <1>7, <2>2, <2>4, <2>5 DEF d
<1>8. CASE ~(Off(x.rate) > before.off)
  <2>1. Consistent(y)
    BY <1>4, <1>5 DEF Consistent
  <2>2. Closest(y, Cardinality(y.spad.enables))
    BY <1>3, <1>4, <1>6, <1>8
  <2> QED
    BY <1>1, <1>4, <1>8, <2>1, <2>2 DEF d
<1> QED
  BY <1>7, <1>8

LEMMA AddSpadStep ==
    ASSUME NEW x \in Sensings, NEW i \in 0 .. 47, i \in x.spad.good,
           x.aperture = 1 => i >= 12,
           x.status = "none", x.search = "on", Consistent(x), GoesOn(x, i)
    PROVE  LET d == AddSpad(x, i) IN
           /\ d \in Sensings /\ Fixed(d) = Fixed(x) /\ d.search \in {"on", "complete"}
           /\ d.status = "none" => Consistent(d)
           /\ d.status = "none" /\ d.search = "on" => GoesOn(d, i + 1)
           /\ d.status = "none" /\ d.search = "complete"
                  => Closest(d, Cardinality(d.spad.enables))
<1> DEFINE t == x.aperture
           good == x.spad.good
           e == x.spad.enables
           n == Cardinality(e)
<1>1. /\ good \in SUBSET Bits /\ t \in {0, 1} /\ e \in SUBSET Bits /\ n \in Nat
      /\ x.scene \in Lights /\ i \in Bits
  BY BitsFinite, BitsAre DEF Sensings, SpadStates
<1>2. e = Taken(good, t, i) /\ x.rate = Capped(SignalOf(x, n)) /\ ~(x.rate > TargetRate)
  BY DEF GoesOn
<1>3. \A w : Fixed(w) = Fixed(x) =>
          All(w) = All(x) /\ w.scene = x.scene /\ w.aperture = t /\ w.spad.good = good
  BY DEF Fixed, All
<1>4. CASE IsAperture(i) # t
  <2>1. t = 0 /\ i >= 12
    BY <1>1, <1>4, TypesAre
  <2>2. Taken(good, t, 48) = e
    BY <1>1, <1>2, <2>1, TakenMore
  <2>3. GoesOn(x, 48)
    BY <1>2, <2>2 DEF GoesOn
  <2>4. Closest(x, n)
    BY <2>3, AllTaken
  <2> DEFINE y == Completed(x)
  <2>5. AddSpad(x, i) = y
    BY <1>4, Zenon DEF AddSpad, Completed
  <2>6. /\ y \in Sensings /\ y.spad = x.spad /\ Fixed(y) = Fixed(x)
        /\ y.found = x.found /\ y.search = "complete"
    BY CompletedIs
  <2> HIDE DEF y
  <2>7. Consistent(y)
    BY <1>3, <2>6 DEF Consistent
  <2>8. Closest(y, Cardinality(y.spad.enables))
    BY <1>3, <2>4, <2>6 DEF Closest, SignalOf
  <2> QED
    BY <2>5, <2>6, <2>7, <2>8
<1>5. CASE IsAperture(i) = t
  <2> DEFINE before == [enables |-> e, off |-> Off(x.rate)]
             g == WriteMap(More(x, e \cup {i}, x.found + 1))
             m == Then(g, MeasureSignal)
             d == Then(m, LAMBDA y : IF y.rate > TargetRate THEN KeepCloser(y, before) ELSE y)
  <2>1. AddSpad(x, i) = d
    BY <1>5, Zenon DEF AddSpad, Then, More
  <2>2. GrownBy(x, i, g)
    BY <1>1, GrownIs
  <2> HIDE DEF g
  <2>3. /\ Taken(good, t, i + 1) = e \cup {i} /\ Cardinality(e \cup {i}) = n + 1
        /\ e \cup {i} \subseteq Taken(good, t, 48) /\ e \cup {i} \in SUBSET Bits
    <3>1. /\ Taken(good, t, i + 1) = Taken(good, t, i) \cup {i}
          /\ Cardinality(Taken(good, t, i + 1)) = Cardinality(Taken(good, t, i)) + 1
          /\ Taken(good, t, i + 1) \subseteq Taken(good, t, 48)
      BY <1>1, <1>5, TakenMore, SMTT(30)
    <3> HIDE DEF e, t, good
    <3>2. Taken(good, t, i + 1) = e \cup {i}
      BY <1>2, <3>1
    <3>3. Cardinality(e \cup {i}) = n + 1
      BY <1>2, <3>1, <3>2
    <3> QED
      BY <1>1, <3>1, <3>2, <3>3
  <2>4. x.found = n /\ n + 1 \in Nat
    BY <1>1 DEF Consistent
  <2>5. /\ g \in Sensings /\ Fixed(g) = Fixed(x) /\ g.search = "on" /\ g.found = n + 1
        /\ g.spad.enables = e \cup {i} /\ g.spad.page = 0
        /\ g.status = "none" => g.spad.map = e \cup {i}
    BY <2>2, <2>4 DEF GrownBy, Consistent
  <2> DEFINE h == MeasureSignal(g)
  <2>6. /\ Beside(g, h)
        /\ h.status = "none" => h.spad.page = 0 /\ h.rate = Rate(g.spad.map, g.scene)
    BY <2>5, MeasureIs
  <2>7. m = IF g.status = "none" THEN h ELSE g
    BY Zenon DEF Then
  <2> HIDE DEF h
  <2>8. /\ h \in Sensings /\ Fixed(h) = Fixed(x) /\ h.search = "on" /\ h.found = n + 1
        /\ h.spad.enables = e \cup {i} /\ h.spad.map = g.spad.map
    BY <2>5, <2>6 DEF Beside, Kept, Fixed
  <2>9. Rate(e \cup {i}, x.scene) = Capped(SignalOf(x, n + 1))
    <3>1. \A j \in e \cup {i} : IsAperture(j) = t
      BY <1>2, <1>5 DEF Taken
    <3>2. Light(e \cup {i}, x.scene) = Signal(x.scene, t, n + 1)
      BY <1>1, <2>3, <3>1, LightOfType
    <3> QED
      BY <1>1, <2>3, <3>2, RateIs DEF SignalOf
  <2>10. /\ m \in Sensings /\ Fixed(m) = Fixed(x) /\ m.search = "on"
         /\ m.status = "none" =>
                /\ m.spad.page = 0 /\ m.spad.map = e \cup {i} /\ m.spad.enables = e \cup {i}
                /\ m.found = n + 1 /\ m.rate = Capped(SignalOf(m, n + 1))
    BY <1>3, <2>5, <2>6, <2>7, <2>8, <2>9 DEF SignalOf
  <2> DEFINE k == KeepCloser(m, before)
  <2>11. d = IF m.status = "none" THEN (IF m.rate > TargetRate THEN k ELSE m) ELSE m
    BY Zenon DEF Then
  <2> HIDE DEF m, d
  <2>12. m.status = "none" => Consistent(m)
    BY <1>3, <2>3, <2>10 DEF Consistent, All
  <2>13. CASE m.status = "none" /\ m.rate > TargetRate
    <3>1. before.enables = e /\ before.off = Off(x.rate)
      OBVIOUS
    <3>2. x.rate = Capped(SignalOf(m, n))
      BY <1>2, <1>3, <2>10 DEF SignalOf
    <3>3. e \subseteq All(m)
      BY <1>3, <2>3, <2>10 DEF All
    <3>4. Cardinality(e) = n /\ Cardinality(m.spad.enables) = n + 1
      BY <2>3, <2>10, <2>13
    <3> HIDE DEF before, e, n
    <3>5. /\ k \in Sensings /\ Fixed(k) = Fixed(m) /\ k.search = "complete"
          /\ k.status = "none" => Consistent(k) /\ Closest(k, Cardinality(k.spad.enables))
      BY <1>1, <1>2, <2>10, <2>12, <2>13, <3>1, <3>2, <3>3, <3>4, KeepCloserIs
    <3>6. d = k
      BY <2>11, <2>13
    <3> HIDE DEF k
    <3> QED
      BY <2>1, <2>10, <3>5, <3>6
  <2>14. CASE ~(m.status = "none" /\ m.rate > TargetRate)
    <3>1. d = m
      BY <2>11, <2>14
    <3>2. m.status = "none" => GoesOn(m, i + 1)
      BY <1>3, <2>3, <2>10, <2>14 DEF GoesOn
    <3> QED
      BY <2>1, <2>10, <2>12, <3>1, <3>2
  <2> QED
    BY <2>13, <2>14
<1> QED
  BY <1>4, <1>5

LEMMA TurnStep ==
    ASSUME NEW c, Ahead(c), NEW x, NEW i \in 0 .. 47, Walked(c, x, i)
    PROVE  Walked(c, Turn(x, i), i + 1)
<1>1. /\ x \in Sensings /\ x.spad.good = c.spad.good /\ x.scene = c.scene
      /\ x.aperture = c.aperture /\ x.index = c.index
  BY DEF Walked, Fixed
<1>2. /\ i \in Int /\ 0 <= i /\ c.index \in Nat /\ x.spad.good \in SUBSET Bits
      /\ x.aperture \in {0, 1}
  BY <1>1 DEF Ahead, Sensings, SpadStates
<1>3. i < c.index => Reach(c, i) = c.index /\ Reach(c, i + 1) = c.index
  BY <1>2 DEF Reach
<1>4. ~(i < c.index) => Reach(c, i) = i /\ Reach(c, i + 1) = i + 1
  BY <1>2 DEF Reach
<1>5. i \in x.spad.good \ 0 .. x.index - 1 <=> i \in x.spad.good /\ ~(i < c.index)
  BY <1>1, <1>2
<1>6. ASSUME x.status = "none", x.search = "on", i < c.index \/ i \notin x.spad.good
      PROVE  GoesOn(x, Reach(c, i + 1))
  <2>1. GoesOn(x, Reach(c, i))
    BY <1>6 DEF Walked
  <2>2. CASE i < c.index
    BY <1>3, <2>1, <2>2
  <2>3. CASE ~(i < c.index)
    <3>1. Taken(x.spad.good, x.aperture, i + 1) = Taken(x.spad.good, x.aperture, i)
      BY <1>2, <1>6, <2>3, TakenMore, SMTT(30)
    <3> QED
      BY <1>4, <2>1, <2>3, <3>1 DEF GoesOn
  <2> QED
    BY <2>2, <2>3
<1>7. CASE ~(i \in x.spad.good /\ ~(i < c.index))
  <2>1. Turn(x, i) = x
    BY <1>5, <1>7, Zenon DEF Turn
  <2> QED
    BY <1>6, <1>7, <2>1 DEF Walked
<1>8. CASE x.search = "complete" \/ x.status # "none"
  <2>1. Turn(x, i) = x
    BY <1>8, Zenon DEF Turn, AddSpad
  <2> QED
    BY <1>8, <2>1 DEF Walked
<1>9. CASE i \in x.spad.good /\ ~(i < c.index) /\ x.search = "on" /\ x.status = "none"
  <2>1. Turn(x, i) = AddSpad(x, i)
    BY <1>5, <1>9, Zenon DEF Turn
  <2>2. Consistent(x) /\ GoesOn(x, i)
    BY <1>4, <1>9 DEF Walked
  <2>3. x.aperture = 1 => i >= 12
    BY <1>1, <1>2, <1>9 DEF Ahead
  <2> DEFINE d == AddSpad(x, i)
  <2>4. /\ d \in Sensings /\ Fixed(d) = Fixed(x) /\ d.search \in {"on", "complete"}
        /\ d.status = "none" => Consistent(d)
        /\ d.status = "none" /\ d.search = "on" => GoesOn(d, i + 1)
        /\ d.status = "none" /\ d.search = "complete"
               => Closest(d, Cardinality(d.spad.enables))
    BY <1>1, <1>9, <2>2, <2>3, AddSpadStep
  <2> HIDE DEF d
  <2>5. Walked(c, d, i + 1)
    BY <1>4, <1>9, <2>4 DEF Walked
  <2> QED
    BY <2>1, <2>5 DEF d
<1> QED
  BY <1>7, <1>8, <1>9 DEF Walked

LEMMA CountUp ==
    ASSUME NEW Q, Q \subseteq Nat, 0 \in Q, \A n \in Nat : n \in Q => n + 1 \in Q
    PROVE  Q = Nat
<1> SUFFICES ASSUME Nat \ Q # {} PROVE FALSE
  OBVIOUS
<1>1. PICK x \in Nat \ Q : \A y \in Nat \ Q : x <= y
  BY LeastBit
<1>2. x - 1 \in Nat /\ ~(x <= x - 1)
  BY <1>1
<1>3. x - 1 \in Q
  BY <1>1, <1>2
<1>4. (x - 1) + 1 = x
  BY <1>1
<1> QED
  BY <1>1, <1>2, <1>3, <1>4

(* The walk of the search, turn by turn.                                   *)
Walk(c, h, n) ==
    /\ h = [i \in 0 .. n |-> h[i]] /\ h[0] = Searching(c, MinimumSpads, "on")
    /\ \A i \in 0 .. n - 1 : h[i + 1] = Turn(h[i], i)

LEMMA WalkExists ==
    ASSUME NEW c, NEW n \in Nat
    PROVE  \E h : Walk(c, h, n)
<1> DEFINE Q == {m \in Nat : \E h : Walk(c, h, m)}
           s == Searching(c, MinimumSpads, "on")
<1>1. 0 \in Q
  <2> DEFINE h == [i \in 0 .. 0 |-> s]
  <2>1. h = [i \in 0 .. 0 |-> h[i]] /\ h[0] = s /\ 0 .. 0 - 1 = {}
    OBVIOUS
  <2> HIDE DEF h
  <2>2. Walk(c, h, 0)
    BY <2>1, Zenon DEF Walk
  <2> QED
    BY <2>2
<1>2. ASSUME NEW m \in Nat, m \in Q PROVE m + 1 \in Q
  <2>1. PICK g : Walk(c, g, m)
    BY <1>2
  <2> DEFINE v == Turn(g[m], m)
             h == [i \in 0 .. m + 1 |-> IF i = m + 1 THEN v ELSE g[i]]
  <2> HIDE DEF v
  <2>2. h = [i \in 0 .. m + 1 |-> h[i]] /\ h[m + 1] = v /\ \A i \in 0 .. m : h[i] = g[i]
    OBVIOUS
  <2> HIDE DEF h
  <2>3. h[0] = s
    <3>1. g[0] = s
      BY <2>1, Zenon DEF Walk
    <3>2. 0 \in 0 .. m
      OBVIOUS
    <3> HIDE DEF s
    <3> QED
      BY <2>2, <3>1, <3>2
  <2>4. ASSUME NEW i \in 0 .. m PROVE h[i + 1] = Turn(h[i], i)
    <3>1. CASE i = m
      BY <2>2, <3>1 DEF v
    <3>2. CASE i # m
      <4>1. i \in 0 .. m - 1 /\ i + 1 \in 0 .. m
        BY <3>2
      <4>2. g[i + 1] = Turn(g[i], i)
        BY <2>1, <4>1 DEF Walk
      <4> QED
        BY <2>2, <4>1, <4>2
    <3> QED
      BY <3>1, <3>2
  <2>5. (m + 1) - 1 = m
    OBVIOUS
  <2>6. Walk(c, h, m + 1)
    BY <2>2, <2>3, <2>4, <2>5 DEF Walk
  <2> QED
    BY <2>6
<1> HIDE DEF Q
<1>3. Q \subseteq Nat
  BY DEF Q
<1>4. Q = Nat
  BY <1>1, <1>2, <1>3, CountUp
<1> QED
  BY <1>4 DEF Q

LEMMA WalkEnds ==
    ASSUME NEW c, Ahead(c), Walked(c, Searching(c, MinimumSpads, "on"), 0),
           NEW h, Walk(c, h, 48)
    PROVE  Walked(c, h[48], 48)
<1> DEFINE Q == {m \in Nat : m <= 48 => Walked(c, h[m], m)}
<1>1. 0 \in Q
  BY DEF Walk
<1>2. ASSUME NEW m \in Nat, m \in Q PROVE m + 1 \in Q
  <2> SUFFICES ASSUME m + 1 <= 48 PROVE Walked(c, h[m + 1], m + 1)
    OBVIOUS
  <2>1. m \in 0 .. 47 /\ m \in 0 .. 48 - 1 /\ Walked(c, h[m], m)
    BY <1>2
  <2>2. h[m + 1] = Turn(h[m], m)
    BY <2>1 DEF Walk
  <2> QED
    BY <2>1, <2>2, TurnStep
<1> HIDE DEF Q
<1>3. Q \subseteq Nat
  BY DEF Q
<1>4. Q = Nat
  BY <1>1, <1>2, <1>3, CountUp
<1> QED
  BY <1>4 DEF Q

(* The recursive function of the search is that walk.                      *)
LEMMA AddSpadsIs ==
    ASSUME NEW c
    PROVE  \E h : /\ Walk(c, h, 48)
                  /\ AddSpads(c) = IF h[48].status = "none"
                                   THEN IF h[48].search = "on" THEN Fail(h[48], "spad") ELSE h[48]
                                   ELSE h[48]
<1> DEFINE s == [c EXCEPT !.found = MinimumSpads, !.search = "on"]
           W == CHOOSE w : w = [i \in 0 .. 48 |-> IF i = 0 THEN s ELSE Turn(w[i - 1], i - 1)]
<1>1. s = Searching(c, MinimumSpads, "on")
  BY Zenon DEF Searching
<1>2. AddSpads(c) = IF W[48].status = "none"
                    THEN IF W[48].search = "on" THEN Fail(W[48], "spad") ELSE W[48]
                    ELSE W[48]
  BY Zenon DEF AddSpads, Then
<1> HIDE DEF s
<1>3. PICK h : Walk(c, h, 48)
  BY WalkExists
<1>4. ASSUME NEW i \in 0 .. 48 PROVE h[i] = IF i = 0 THEN s ELSE Turn(h[i - 1], i - 1)
  <2>1. CASE i = 0
    BY <1>1, <1>3, <2>1 DEF Walk
  <2>2. CASE i # 0
    <3>1. i - 1 \in 0 .. 48 - 1 /\ (i - 1) + 1 = i
      BY <2>2
    <3>2. h[(i - 1) + 1] = Turn(h[i - 1], i - 1)
      BY <1>3, <3>1 DEF Walk
    <3> QED
      BY <2>2, <3>1, <3>2
  <2> QED
    BY <2>1, <2>2
<1>5. h = [i \in 0 .. 48 |-> h[i]]
  BY <1>3 DEF Walk
<1>6. h = [i \in 0 .. 48 |-> IF i = 0 THEN s ELSE Turn(h[i - 1], i - 1)]
  BY <1>4, <1>5
<1>7. W = [i \in 0 .. 48 |-> IF i = 0 THEN s ELSE Turn(W[i - 1], i - 1)]
  BY <1>6, Zenon
<1> HIDE DEF W
<1>8. ASSUME NEW i \in 0 .. 48 PROVE W[i] = IF i = 0 THEN s ELSE Turn(W[i - 1], i - 1)
  BY <1>7
<1>9. Walk(c, W, 48)
  <2>1. W = [i \in 0 .. 48 |-> W[i]]
    <3>1. DOMAIN W = 0 .. 48
      BY <1>7
    <3> QED
      BY <1>7, <3>1
  <2>2. W[0] = s
    BY <1>8
  <2>3. ASSUME NEW i \in 0 .. 48 - 1 PROVE W[i + 1] = Turn(W[i], i)
    <3>1. i + 1 \in 0 .. 48 /\ i + 1 # 0 /\ (i + 1) - 1 = i
      OBVIOUS
    <3> QED
      BY <1>8, <3>1
  <2> QED
    BY <1>1, <2>1, <2>2, <2>3 DEF Walk
<1> QED
  BY <1>2, <1>9

-----------------------------------------------------------------------------
(* What managing the SPADs leaves.  The count is 0 only where the first    *)
(* measurement hits the target.                                            *)
Alike(d) ==
    /\ d.spad.map = d.spad.enables
    /\ \E t \in {0, 1} : d.spad.enables \subseteq Taken(d.spad.good, t, 48)

Counted(d) ==
    /\ d.found \in 0 .. 48
    /\ d.found # 0 => /\ Cardinality(d.spad.enables) = d.found
                      /\ d.spad.enables \subseteq All(d)

Nearest(d) ==
    \A n \in MinimumSpads .. Cardinality(All(d)) :
        Off(SignalOf(d, Cardinality(d.spad.enables))) <= Off(SignalOf(d, n))

Settled(d) == Alike(d) /\ Counted(d) /\ Nearest(d)

LEMMA AddSpadsSettles ==
    ASSUME NEW c \in Sensings, c.status = "none", Ready(c), ~(c.rate > TargetRate)
    PROVE  LET d == AddSpads(c) IN
           /\ d \in Sensings /\ Fixed(d) = Fixed(c)
           /\ d.status = "none" => Settled(d)
<1> DEFINE s == Searching(c, MinimumSpads, "on")
<1>1. /\ c.index \in Nat /\ c.aperture \in {0, 1} /\ c.spad.good \in SUBSET Bits
      /\ c.spad.enables \in SUBSET Bits
  BY DEF Sensings, SpadStates
<1>2. Ahead(c)
  BY <1>1 DEF Ahead, Ready
<1>3. MinimumSpads = 3 /\ MinimumSpads \in Int
  BY DEF MinimumSpads
<1>4. /\ s \in Sensings /\ s.spad = c.spad /\ Fixed(s) = Fixed(c) /\ s.rate = c.rate
      /\ s.found = 3 /\ s.search = "on" /\ s.status = "none"
  BY <1>3, SearchingIs
<1> HIDE DEF s
<1>5. Reach(c, 0) = c.index
  BY <1>1 DEF Reach
<1>6. /\ s.scene = c.scene /\ s.aperture = c.aperture /\ All(s) = All(c)
  BY <1>4 DEF Fixed, All
<1>7. Consistent(s)
  <2>1. c.spad.enables \subseteq All(c)
    <3>1. \A i \in Taken(c.spad.good, c.aperture, c.index) : i \in c.spad.good /\ IsAperture(i) = c.aperture
      BY DEF Taken
    <3>2. \A i \in c.spad.good : i < 48
      BY <1>1, BitsAre
    <3> QED
      BY <3>1, <3>2 DEF Ready, All, Taken
  <2> QED
    BY <1>4, <1>6, <2>1 DEF Consistent, Ready
<1>8. GoesOn(s, c.index)
  <2>1. c.rate = Capped(SignalOf(s, Cardinality(s.spad.enables)))
    BY <1>4, <1>6, ReadyRate DEF SignalOf
  <2> QED
    BY <1>4, <1>6, <2>1 DEF GoesOn, Ready
<1>9. Walked(c, s, 0)
  BY <1>4, <1>5, <1>7, <1>8 DEF Walked
<1>10. PICK h : /\ Walk(c, h, 48)
                /\ AddSpads(c) = IF h[48].status = "none"
                                 THEN IF h[48].search = "on" THEN Fail(h[48], "spad") ELSE h[48]
                                 ELSE h[48]
  BY AddSpadsIs
<1> DEFINE w == h[48]
           f == Fail(w, "spad")
<1>11. Walked(c, w, 48)
  BY <1>2, <1>9, <1>10, WalkEnds DEF s
<1>12. AddSpads(c) = IF w.status = "none" THEN (IF w.search = "on" THEN f ELSE w) ELSE w
  BY <1>10
<1> HIDE DEF w, f
<1>13. w \in Sensings /\ Fixed(w) = Fixed(c)
  BY <1>11 DEF Walked
<1>14. f \in Sensings /\ Fixed(f) = Fixed(c) /\ f.status = "spad"
  BY <1>13, FailBeside, Ends DEF f, Quiet, Beside, Kept, Fixed
<1>15. ASSUME w.status = "none", w.search # "on" PROVE Settled(w)
  <2>1. Consistent(w) /\ Closest(w, Cardinality(w.spad.enables))
    BY <1>11, <1>15 DEF Walked
  <2>2. w.spad.enables \in SUBSET Bits /\ w.aperture \in {0, 1}
    BY <1>13 DEF Sensings, SpadStates
  <2>3. Alike(w)
    BY <2>1, <2>2 DEF Alike, Consistent, All
  <2>4. Counted(w)
    BY <2>1, <2>2, BitsFinite DEF Counted, Consistent
  <2>5. Nearest(w)
    BY <1>3, <2>1 DEF Nearest, Closest
  <2> QED
    BY <2>3, <2>4, <2>5 DEF Settled
<1> QED
  BY <1>12, <1>13, <1>14, <1>15

LEMMA SearchSettles ==
    ASSUME NEW c \in Sensings, c.status = "none", Ready(c), c.found = 0,
           c.aperture = 1 => Dazzled(c.scene),
           c.aperture = 0 => ~(c.rate > TargetRate)
    PROVE  LET d == Search(c) IN
           /\ d \in Sensings /\ d.spad.good = c.spad.good /\ d.scene = c.scene
           /\ d.status = "none" => Settled(d)
<1> DEFINE e == c.spad.enables
<1>1. /\ c.scene \in Lights /\ c.aperture \in {0, 1} /\ e \in SUBSET Bits
      /\ c.spad.good \in SUBSET Bits
  BY DEF Sensings, SpadStates
<1>2. /\ Cardinality(e) = 3 /\ c.spad.map = e
      /\ c.rate = Capped(Signal(c.scene, c.aperture, 3))
  BY ReadyRate DEF Ready
<1>3. \A t \in {0, 1}, n \in Nat : Signal(c.scene, t, n) \in Nat
  BY <1>1, SignalGrows
<1>4. ASSUME NEW t \in {0, 1}, Capped(Signal(c.scene, t, 3)) > TargetRate, NEW n \in 3 .. Cardinality(Taken(c.spad.good, t, 48))
      PROVE  Off(Signal(c.scene, t, 3)) <= Off(Signal(c.scene, t, n))
  <2>1. Cardinality(Taken(c.spad.good, t, 48)) \in Nat
    <3>1. Taken(c.spad.good, t, 48) \in SUBSET Bits
      BY <1>1 DEF Taken
    <3> QED
      BY <3>1, BitsFinite
  <2>2. n \in Nat /\ 3 <= n
    BY <2>1
  <2>3. Signal(c.scene, t, 3) \in Nat /\ Signal(c.scene, t, n) \in Nat /\ Signal(c.scene, t, 3) <= Signal(c.scene, t, n)
    BY <1>1, <2>2, SignalGrows
  <2>4. Signal(c.scene, t, 3) > TargetRate
    BY <1>4, <2>3, CappedIs
  <2> QED
    BY <2>3, <2>4, OffAbove, TargetInRange
<1>5. e \subseteq Taken(c.spad.good, c.aperture, 48)
  <2>1. \A i \in c.spad.good : i < 48
    BY <1>1, BitsAre
  <2> QED
    BY <2>1 DEF Ready, Taken
<1>6. c.rate \in Int
  BY DEF Sensings
<1>7. CASE c.rate < TargetRate
  <2>1. Search(c) = AddSpads(c)
    BY <1>7, Zenon DEF Search
  <2>2. ~(c.rate > TargetRate)
    BY <1>6, <1>7, TargetInRange
  <2> QED
    BY <2>1, <2>2, AddSpadsSettles DEF Fixed
<1>8. CASE c.rate > TargetRate
  <2> DEFINE d == [c EXCEPT !.found = MinimumSpads]
  <2>1. Search(c) = d
    BY <1>6, <1>8, TargetInRange DEF Search
  <2>2. /\ d \in Sensings /\ d.spad = c.spad /\ d.scene = c.scene /\ d.aperture = c.aperture
        /\ d.found = 3
    BY DEF Sensings, MinimumSpads
  <2> HIDE DEF d
  <2>3. Alike(d) /\ Counted(d)
    BY <1>1, <1>2, <1>5, <2>2 DEF Alike, Counted, All
  <2>4. Nearest(d)
    BY <1>1, <1>2, <1>4, <1>8, <2>2 DEF Nearest, All, SignalOf, MinimumSpads
  <2> QED
    BY <2>1, <2>2, <2>3, <2>4 DEF Settled
<1>9. CASE ~(c.rate < TargetRate) /\ ~(c.rate > TargetRate)
  <2> DEFINE d == [c EXCEPT !.aperture = 0]
  <2>1. Search(c) = d
    BY <1>9, Zenon DEF Search
  <2>2. /\ d \in Sensings /\ d.spad = c.spad /\ d.scene = c.scene /\ d.aperture = 0
        /\ d.found = 0
    BY DEF Sensings
  <2> HIDE DEF d
  <2>3. Alike(d) /\ Counted(d)
    BY <1>1, <1>2, <1>5, <2>2 DEF Alike, Counted
  <2>4. Nearest(d)
    <3>1. CASE c.aperture = 1
      BY <1>2, <1>4, <2>2, <3>1 DEF Nearest, All, SignalOf, MinimumSpads, Dazzled
    <3>2. CASE c.aperture = 0
      <4> DEFINE a == Signal(c.scene, 0, 3)
      <4>1. a \in Nat /\ Capped(a) = TargetRate
        BY <1>2, <1>3, <1>6, <1>9, <3>2, TargetInRange
      <4> HIDE DEF a
      <4>2. a = TargetRate
        BY <4>1, CappedIs, TargetInRange
      <4>3. Off(a) = 0 /\ \A b \in Nat : Off(b) >= 0
        BY <4>2, TargetInRange DEF Off
      <4>4. All(d) \in SUBSET Bits
        BY <1>1, <2>2 DEF All, Taken
      <4>5. \A n \in 3 .. Cardinality(All(d)) : n \in Nat
        BY <4>4, BitsFinite
      <4>6. \A n \in 3 .. Cardinality(All(d)) : Off(a) <= Off(Signal(c.scene, 0, n))
        BY <1>3, <4>3, <4>5
      <4> QED
        BY <1>2, <2>2, <4>6 DEF Nearest, SignalOf, MinimumSpads, a
    <3> QED
      BY <1>1, <3>1, <3>2
  <2> QED
    BY <2>1, <2>2, <2>3, <2>4 DEF Settled
<1> QED
  BY <1>7, <1>8, <1>9

ReportedBy(c, count, aperture, d) ==
    /\ d \in Sensings /\ Kept(d) = Kept(c) /\ d.status = c.status /\ d.fuse = c.fuse
    /\ d.status = "none" => d.spad.count = count /\ d.spad.type = aperture

LEMMA ReportIs ==
    ASSUME NEW c \in Sensings, NEW count, NEW aperture,
           c.status = "none" => count \in 0 .. 48 /\ aperture \in {0, 1}
    PROVE  ReportedBy(c, count, aperture, Report(c, count, aperture))
<1> DEFINE s == [c.spad EXCEPT !.init = 1, !.count = count, !.type = aperture]
           d == Holding(c, s)
<1>1. Report(c, count, aperture) = IF c.status = "none" THEN d ELSE c
  BY Zenon DEF Report, Then, Holding
<1>2. c.spad \in SpadStates
  BY DEF Sensings
<1>3. CASE c.status = "none"
  <2>1. /\ s \in SpadStates /\ s.good = c.spad.good /\ s.enables = c.spad.enables
        /\ s.map = c.spad.map /\ s.count = count /\ s.type = aperture
    BY <1>2, <1>3 DEF SpadStates
  <2> HIDE DEF s
  <2>2. /\ d \in Sensings /\ d.spad = s /\ Beside(c, d)
        /\ \A k \in DOMAIN c \ {"spad"} : d[k] = c[k]
    BY <2>1, HoldingIs
  <2> HIDE DEF d
  <2>3. d.status = c.status /\ d.fuse = c.fuse
    BY <2>2 DEF Sensings
  <2>4. ReportedBy(c, count, aperture, d)
    BY <2>1, <2>2, <2>3 DEF ReportedBy, Beside
  <2> QED
    BY <1>1, <1>3, <2>4
<1>4. CASE c.status # "none"
  BY <1>1, <1>4 DEF ReportedBy
<1> QED
  BY <1>3, <1>4

LEMMA ManageIs ==
    ASSUME NEW c \in Sensings, c.found = 0
    PROVE  LET d == Manage(c) IN
           /\ d \in Sensings /\ d.spad.good = c.spad.good /\ d.scene = c.scene
           /\ d.status = "none" =>
                  Settled(d) /\ d.spad.count = d.found /\ d.spad.type = d.aperture
<1> DEFINE d1 == Cleared(c)
           d2 == ArrayWindow(d1)
           d3 == Then(d2, Transfer)
           d4 == Then(d3, LAMBDA x : RefCalibration(x, FALSE))
           d5 == Then(d4, MinimumOfEither)
           d6 == Then(d5, Search)
           d7 == Report(d6, d6.found, d6.aperture)
           Held(d) == /\ d \in Sensings /\ d.spad.good = c.spad.good /\ d.scene = c.scene
                      /\ d.found = 0
           Blank(d) == d.status = "none" => d.spad.enables = {} /\ d.spad.page = 0
<1>1. Manage(c) = IF d6.status = "none" THEN d7 ELSE d6
  BY Zenon DEF Manage, Then
<1>2. Held(d1) /\ d1.spad.enables = {}
  BY ClearedIs DEF Outside
<1> HIDE DEF d1
<1>3. \A x, y : Held(x) /\ Beside(x, y) => Held(y) /\ y.spad.enables = x.spad.enables
  BY DEF Beside, Kept
<1>4. Held(d2) /\ Blank(d2)
  BY <1>2, <1>3, ArrayWindowIs
<1>5. d3 = IF d2.status = "none" THEN Transfer(d2) ELSE d2
  BY Zenon DEF Then
<1> HIDE DEF d2
<1>6. Held(d3) /\ Blank(d3)
  BY <1>3, <1>4, <1>5, TransferBeside
<1>7. d4 = IF d3.status = "none" THEN RefCalibration(d3, FALSE) ELSE d3
  BY Zenon DEF Then
<1> HIDE DEF d3
<1>8. Held(d4) /\ Blank(d4)
  BY <1>3, <1>6, <1>7, RefCalibrationQuiet DEF Quiet
<1>9. d5 = IF d4.status = "none" THEN MinimumOfEither(d4) ELSE d4
  BY Zenon DEF Then
<1> HIDE DEF d4
<1> DEFINE m == MinimumOfEither(d4)
<1>10. CASE d4.status = "none"
  <2>1. /\ m \in Sensings /\ Outside(m) = Outside(d4)
        /\ m.status = "none" =>
               /\ Ready(m) /\ m.aperture \in {0, 1}
               /\ m.aperture = 1 => Dazzled(m.scene)
               /\ m.aperture = 0 => ~(m.rate > TargetRate)
    BY <1>8, <1>10, MinimumOfEitherIs
  <2>2. d5 = m
    BY <1>9, <1>10
  <2> HIDE DEF m, d5
  <2>3. Held(d5)
    BY <1>8, <2>1, <2>2 DEF Outside
  <2>4. d6 = IF d5.status = "none" THEN Search(d5) ELSE d5
    BY Zenon DEF Then
  <2> DEFINE r == Search(d5)
  <2>5. d5.status = "none" =>
            /\ r \in Sensings /\ r.spad.good = d5.spad.good /\ r.scene = d5.scene
            /\ r.status = "none" => Settled(r)
    BY <2>1, <2>2, <2>3, SearchSettles
  <2> HIDE DEF r, d6
  <2>6. /\ d6 \in Sensings /\ d6.spad.good = c.spad.good /\ d6.scene = c.scene
        /\ d6.status = "none" => Settled(d6)
    BY <2>3, <2>4, <2>5 DEF r
  <2>7. d6.status = "none" => d6.found \in 0 .. 48 /\ d6.aperture \in {0, 1}
    BY <2>6 DEF Settled, Counted, Sensings
  <2>8. ReportedBy(d6, d6.found, d6.aperture, d7)
    BY <2>6, <2>7, ReportIs
  <2> HIDE DEF d7
  <2>9. d6.status = "none" => /\ d7 \in Sensings /\ d7.status = "none" /\ d7.spad.good = d6.spad.good
                              /\ d7.scene = d6.scene /\ d7.found = d6.found /\ d7.aperture = d6.aperture
                              /\ d7.spad.enables = d6.spad.enables /\ d7.spad.map = d6.spad.map
                              /\ d7.spad.count = d6.found /\ d7.spad.type = d6.aperture
    BY <2>8 DEF ReportedBy, Kept
  <2>10. d6.status = "none" => Settled(d7)
    BY <2>6, <2>9 DEF Settled, Alike, Counted, Nearest, All, SignalOf
  <2> QED
    BY <1>1, <2>6, <2>9, <2>10
<1>11. CASE d4.status # "none"
  <2>1. d6 = d4
    BY <1>9, <1>11, Zenon DEF Then
  <2> QED
    BY <1>1, <1>8, <1>11, <2>1
<1> QED
  BY <1>10, <1>11

-----------------------------------------------------------------------------
(* The calibrations and the damper keep the types of the record.           *)
Retained(c, d) == IF c.status = "none" THEN d ELSE Fail(d, c.status)

LEMMA RetainedIs ==
    ASSUME NEW c \in Sensings, NEW d \in Sensings
    PROVE  Retained(c, d) \in Sensings
<1>1. c.status \in Statuses
  BY DEF Sensings
<1> QED
  BY <1>1, FailBeside DEF Retained, Quiet, Beside

LEMMA VisitIs ==
    ASSUME NEW c \in Sensings, NEW n \in Nat
    PROVE  VisitPage1(c, n) \in Sensings
<1> DEFINE d1 == Retained(c, Page(c, 1))
           d2 == Retained(d1, Transfers(d1, n))
           d3 == Retained(d2, Page(d2, 0))
<1>1. VisitPage1(c, n) = d3
  BY Zenon DEF VisitPage1, Also, Retained
<1>2. d1 \in Sensings
  BY PageIs, RetainedIs DEF Beside
<1> HIDE DEF d1
<1>3. d2 \in Sensings
  BY <1>2, TransfersBeside, RetainedIs DEF Beside
<1> HIDE DEF d2
<1>4. d3 \in Sensings
  BY <1>3, PageIs, RetainedIs DEF Beside
<1> QED
  BY <1>1, <1>4

LEMMA BytesAre ==
    /\ \A v \in Uint8 : WithoutBit4(v) \in Uint8
    /\ \A old, v \in Uint8 : OrWith128(old, v) \in Uint8
    /\ {100, 33, 130, 20, 150, 0} \subseteq Uint8 /\ \A v \in {1, 300} : v % 256 \in Uint8
<1>1. \A v \in Uint8 : WithoutBit4(v) \in Uint8
  BY SMT DEF Uint8, WithoutBit4
<1>2. \A old, v \in Uint8 : OrWith128(old, v) \in Uint8
  BY SMT DEF Uint8, OrWith128
<1>3. {100, 33, 130, 20, 150, 0} \subseteq Uint8 /\ \A v \in {1, 300} : v % 256 \in Uint8
  BY SMT DEF Uint8
<1> QED
  BY <1>1, <1>2, <1>3

Gotten(c) == [c EXCEPT !.got = [vhv |-> c.spad.vhv, phase |-> WithoutBit4(c.spad.phase)]]

LEMMA ReadCalibrationIs ==
    ASSUME NEW c \in Sensings
    PROVE  ReadCalibration(c) \in Sensings
<1> DEFINE d1 == VisitPage1(c, 1)
           t == Transfers(d1, 2)
           g == IF t.status = "none" THEN Gotten(t) ELSE t
           d2 == Retained(d1, g)
           d3 == VisitPage1(d2, 1)
<1>1. ReadCalibration(c) = d3
  BY Zenon DEF ReadCalibration, CalibrationIo, Also, Retained, Then, Gotten
<1>2. d1 \in Sensings
  BY VisitIs
<1> HIDE DEF d1
<1>3. t \in Sensings
  BY <1>2, TransfersBeside DEF Beside
<1> HIDE DEF t
<1>4. Gotten(t) \in Sensings
  <2>1. t.spad.vhv \in Uint8 /\ WithoutBit4(t.spad.phase) \in Uint8
    BY <1>3, BytesAre DEF Sensings, SpadStates
  <2> QED
    BY <1>3, <2>1 DEF Gotten, Sensings
<1>5. d2 \in Sensings
  BY <1>2, <1>3, <1>4, RetainedIs
<1> HIDE DEF d2
<1> QED
  BY <1>1, <1>5, VisitIs

LEMMA WriteCalibrationIs ==
    ASSUME NEW c \in Sensings, NEW v, v.vhv \in Uint8, v.phase \in Uint8
    PROVE  WriteCalibration(c, v) \in Sensings
<1> DEFINE d1 == VisitPage1(c, 1)
           p == Put(d1, 0, "vhv", v.vhv)
           t == Then(p, Transfer)
           w == Put(t, 0, "phase", OrWith128(t.spad.phase, v.phase))
           g == IF t.status = "none" THEN w ELSE t
           d2 == Retained(d1, g)
           d3 == VisitPage1(d2, 1)
<1>1. WriteCalibration(c, v) = d3
  BY Zenon DEF WriteCalibration, CalibrationIo, Also, Retained, Then
<1>2. d1 \in Sensings
  BY VisitIs
<1> HIDE DEF d1
<1>3. p \in Sensings
  BY <1>2, CalibrationByte DEF Quiet, Beside
<1>4. t \in {p, Transfer(p)}
  BY Zenon DEF Then
<1> HIDE DEF p, t
<1>5. t \in Sensings
  BY <1>3, <1>4, TransferBeside DEF Beside
<1>6. OrWith128(t.spad.phase, v.phase) \in Uint8
  BY <1>5, BytesAre DEF Sensings, SpadStates
<1>7. w \in Sensings
  BY <1>5, <1>6, CalibrationByte DEF Quiet, Beside
<1> HIDE DEF w
<1>8. d2 \in Sensings
  BY <1>2, <1>5, <1>7, RetainedIs
<1> HIDE DEF d2
<1> QED
  BY <1>1, <1>8, VisitIs

LEMMA StepCalibrationIs ==
    ASSUME NEW c \in Sensings, NEW step \in {"vhv", "phase"}
    PROVE  StepCalibration(c, step, TRUE) \in Sensings
<1> DEFINE d1 == Put(c, 0, "seq", step)
           d2 == IF d1.status = "none" THEN SingleCalibration(d1, step) ELSE d1
           d3 == IF d2.status = "none" THEN ReadCalibration(d2) ELSE d2
<1>1. StepCalibration(c, step, TRUE) = d3
  BY Zenon DEF StepCalibration, Then
<1>2. d1 \in Sensings
  BY SequenceBeside DEF Quiet, Beside
<1> HIDE DEF d1
<1>3. SingleCalibration(d1, step) \in Sensings
  BY <1>2, SingleCalibrationQuiet DEF Quiet, Beside
<1>4. d2 \in Sensings
  BY <1>2, <1>3
<1> HIDE DEF d2
<1> QED
  BY <1>1, <1>4, ReadCalibrationIs

LEMMA RefCalibrationIs ==
    ASSUME NEW c \in Sensings
    PROVE  RefCalibration(c, TRUE) \in Sensings
<1> DEFINE d1 == StepCalibration(c, "vhv", TRUE)
           d2 == IF d1.status = "none" THEN StepCalibration(d1, "phase", TRUE) ELSE d1
           d3 == IF d2.status = "none" THEN Put(d2, 0, "seq", "ranging") ELSE d2
<1>1. RefCalibration(c, TRUE) = d3
  BY Zenon DEF RefCalibration, Then
<1>2. d1 \in Sensings
  BY StepCalibrationIs
<1> HIDE DEF d1
<1>3. d2 \in Sensings
  BY <1>2, StepCalibrationIs
<1> HIDE DEF d2
<1>4. Put(d2, 0, "seq", "ranging") \in Sensings
  BY <1>3, SequenceBeside DEF Quiet, Beside
<1> QED
  BY <1>1, <1>3, <1>4

(* The three things done on page 1.                                        *)
Damped(d, e) ==
    IF "io" \in {d.status, e.status} THEN Fail(Page(e, 0), "io") ELSE Page(e, 0)

LEMMA DampedIs ==
    ASSUME NEW d, NEW e \in Sensings
    PROVE  Damped(d, e) \in Sensings
  BY PageIs, FailBeside, Ends DEF Damped, Quiet, Beside

LEMMA DamperIs ==
    ASSUME NEW c \in Sensings, NEW v \in {1, 300}
    PROVE  /\ Damper(c, LAMBDA x : Put(x, 1, "damper", v)) \in Sensings
           /\ Damper(c, LAMBDA x : Put(x, 1, "factor", v % 256)) \in Sensings
           /\ Damper(c, Transfer) \in Sensings
<1> DEFINE d == Page(c, 1)
<1>1. /\ Damper(c, LAMBDA x : Put(x, 1, "damper", v)) = Damped(d, Put(d, 1, "damper", v))
      /\ Damper(c, LAMBDA x : Put(x, 1, "factor", v % 256)) = Damped(d, Put(d, 1, "factor", v % 256))
      /\ Damper(c, Transfer) = Damped(d, Transfer(d))
  BY Zenon DEF Damper, Damped
<1>2. d \in Sensings
  BY PageIs DEF Beside
<1> HIDE DEF d
<1>3. v \in Uint16
  <2> DEFINE m == 65535
  <2>1. m \in Int /\ m >= 300 /\ Uint16 = 0 .. m
    BY SMT DEF Uint16
  <2> HIDE DEF m
  <2> QED
    BY <2>1
<1>4. v % 256 \in Uint8
  BY BytesAre
<1>5. Entered(d.spad, "damper", v) \in SpadStates
  BY <1>2, <1>3 DEF Sensings, SpadStates, Entered
<1> DEFINE b == v % 256
<1> HIDE DEF b
<1>6. Entered(d.spad, "factor", b) \in SpadStates
  BY <1>2, <1>4 DEF Sensings, SpadStates, Entered, b
<1>7. Put(d, 1, "damper", v) \in Sensings /\ Put(d, 1, "factor", b) \in Sensings
  BY <1>2, <1>5, <1>6, PutBeside DEF Quiet, Beside
<1>8. Transfer(d) \in Sensings
  BY <1>2, TransferBeside DEF Beside
<1> QED
  BY <1>1, <1>7, <1>8, DampedIs DEF b

LEMMA GetSpadsIs ==
    ASSUME NEW c \in Sensings
    PROVE  GetSpads(c) \in Sensings
<1> DEFINE n == CountEnabled(c.spad.map)
           t == TypeEnabled(c.spad.map)
<1>1. GetSpads(c) = IF c.spad.init = 1 THEN c ELSE Report(Transfer(c), n, t)
  BY Zenon DEF GetSpads
<1>2. n \in 0 .. 48
  <2> DEFINE m == 39
             S == c.spad.map \cap 0 .. 39
  <2>1. m \in Int /\ m = 39 /\ 0 \in Int
    OBVIOUS
  <2>2. S \subseteq 0 .. m
    OBVIOUS
  <2>3. n = Cardinality(S) + (IF 40 \in c.spad.map THEN 5 ELSE 0)
    BY Zenon DEF CountEnabled
  <2> HIDE DEF m, S, n
  <2>4. IsFiniteSet(0 .. m) /\ Cardinality(0 .. m) = IF 0 > m THEN 0 ELSE m - 0 + 1
    BY <2>1, FS_Interval, Zenon
  <2>5. IsFiniteSet(S) /\ Cardinality(S) <= Cardinality(0 .. m)
    BY <2>2, <2>4, FS_Subset
  <2>6. Cardinality(S) \in Nat /\ Cardinality(S) <= 40
    BY <2>1, <2>4, <2>5, FS_CardinalityType
  <2> QED
    BY <2>3, <2>6
<1>3. t \in {0, 1}
  BY Zenon DEF TypeEnabled
<1>4. Transfer(c) \in Sensings
  BY TransferBeside DEF Beside
<1> HIDE DEF n, t
<1> QED
  BY <1>1, <1>2, <1>3, <1>4, ReportIs DEF ReportedBy

-----------------------------------------------------------------------------
(* Setting the SPADs: a status that is overwritten is of a transfer lost,  *)
(* and the fuse tells.                                                     *)
Tells(c, d) ==
    /\ c.fuse < 0 => d.fuse < 0
    /\ d.status # "none" => c.fuse >= 0 /\ d.fuse < 0

LEMMA TellsTwice ==
    ASSUME NEW c \in Sensings, NEW d \in Sensings, NEW e \in Sensings,
           Tells(c, d), Tells(d, e)
    PROVE  Tells(c, e)
<1>1. c.fuse \in Int /\ d.fuse \in Int /\ e.fuse \in Int
  BY DEF Sensings
<1> QED
  BY <1>1 DEF Tells

LEMMA TransferTells ==
    ASSUME NEW c \in Sensings, NEW n \in Nat
    PROVE  Tells(c, Transfer(c)) /\ Tells(c, Transfers(c, n))
<1>1. c.fuse \in Int
  BY DEF Sensings
<1>2. /\ Transfer(c).fuse = c.fuse - 1
      /\ Transfer(c).status = IF c.fuse = 0 THEN "io" ELSE "none"
  BY DEF Transfer, Sensings
<1>3. Tells(c, Transfer(c))
  BY <1>1, <1>2 DEF Tells
<1>4. IF c.fuse \in 0 .. n - 1
      THEN Transfers(c, n).fuse = -1 /\ Transfers(c, n).status = "io"
      ELSE Transfers(c, n).fuse = c.fuse - n /\ Transfers(c, n).status = "none"
  BY DEF Transfers, Sensings
<1>5. Tells(c, Transfers(c, n))
  BY <1>1, <1>4 DEF Tells
<1> QED
  BY <1>3, <1>5

LEMMA PageTells ==
    ASSUME NEW c \in Sensings, NEW p
    PROVE  Tells(c, Page(c, p))
<1> DEFINE t == Transfer(c)
<1>1. t \in Sensings
  BY TransferBeside DEF Beside
<1>2. Tells(c, t)
  BY TransferTells
<1>3. Page(c, p) = Paged(t, p)
  BY PageIsPaged
<1> HIDE DEF t
<1>4. Paged(t, p).fuse = t.fuse /\ Paged(t, p).status = t.status
  BY <1>1 DEF Paged, Sensings
<1> QED
  BY <1>2, <1>3, <1>4 DEF Tells

LEMMA WriteMapTells ==
    ASSUME NEW c \in Sensings
    PROVE  Tells(c, WriteMap(c))
<1> DEFINE t == Transfer(c)
           d == Stored(t, 0, "map", c.spad.enables)
<1>1. t \in Sensings
  BY TransferBeside DEF Beside
<1>2. Tells(c, t)
  BY TransferTells
<1>3. WriteMap(c) = d
  BY Zenon DEF WriteMap, Put, Done, Then, Stored
<1> HIDE DEF t
<1>4. d.fuse = t.fuse /\ d.status = t.status
  BY <1>1 DEF Stored, Sensings
<1> QED
  BY <1>2, <1>3, <1>4 DEF Tells

LEMMA WindowTells ==
    ASSUME NEW c \in Sensings
    PROVE  Tells(c, ArrayWindow(c))
<1> DEFINE d1 == Page(c, 1)
           d2 == Then(d1, LAMBDA x : Transfers(x, 2))
           d3 == Then(d2, LAMBDA x : Page(x, 0))
           d4 == Then(d3, Transfer)
<1>1. Tells(c, d1) /\ d1 \in Sensings
  BY PageTells, PageIs DEF Beside
<1>2. d2 \in {d1, Transfers(d1, 2)}
  BY Zenon DEF Then
<1>3. ArrayWindow(c) = d4
  BY Zenon DEF ArrayWindow, Then
<1> HIDE DEF d1
<1>4. Tells(c, d2) /\ d2 \in Sensings
  BY <1>1, <1>2, TransfersBeside, TransferTells, TellsTwice DEF Beside
<1>5. d3 \in {d2, Page(d2, 0)}
  BY Zenon DEF Then
<1> HIDE DEF d2
<1>6. Tells(c, d3) /\ d3 \in Sensings
  BY <1>4, <1>5, PageIs, PageTells, TellsTwice DEF Beside
<1>7. d4 \in {d3, Transfer(d3)}
  BY Zenon DEF Then
<1> HIDE DEF d3, d4
<1>8. Tells(c, d4)
  BY <1>6, <1>7, TransferBeside, TransferTells, TellsTwice DEF Beside
<1> QED
  BY <1>3, <1>8

(* A lost transfer stays lost.                                             *)
LEMMA EnableTells ==
    ASSUME NEW c \in Sensings, c.fuse < 0, NEW t, NEW from \in Nat, NEW n \in Nat
    PROVE  EnableSpads(c, t, from, n).fuse < 0
<1> DEFINE U == Usable(c, t, from, n)
           k == IF U = {} THEN from ELSE Max(U) + 1
           s == IF Cardinality(U) = n THEN "none" ELSE "spad"
           d1 == Chose(c, U, k, s)
           d2 == Then(d1, WriteMap)
           d3 == Then(d2, Transfer)
<1>1. EnableSpads(c, t, from, n) = d3
  BY Zenon DEF EnableSpads, Then, Chose, Usable, Chosen, Later
<1> HIDE DEF U
<1>2. U \in SUBSET Bits /\ k \in Nat /\ s \in Statuses
  BY UsableIs, Ends DEF U
<1> HIDE DEF k, s
<1>3. d1 \in Sensings
  BY <1>2, ChoseIs DEF ChoseOnly
<1>4. d1.fuse < 0
  BY DEF Chose, Sensings
<1>5. d2 \in {d1, WriteMap(d1)}
  BY Zenon DEF Then
<1> HIDE DEF d1
<1>6. d2 \in Sensings /\ d2.fuse < 0
  BY <1>3, <1>4, <1>5, WriteMapIs, WriteMapTells DEF Tells
<1>7. d3 \in {d2, Transfer(d2)}
  BY Zenon DEF Then
<1> HIDE DEF d2, d3
<1>8. d3.fuse < 0
  BY <1>6, <1>7, TransferTells DEF Tells
<1> QED
  BY <1>1, <1>8

(* Without an error, and without a lost transfer.                          *)
SetTo(count, t, d) ==
    /\ d.spad.map = d.spad.enables /\ d.spad.map \subseteq d.spad.good
    /\ Cardinality(d.spad.map) = count /\ d.spad.count = count /\ d.spad.type = t
    /\ \A i \in d.spad.map : IsAperture(i) = t

LEMMA SetSpadsIs ==
    ASSUME NEW c \in Sensings, NEW count \in 0 .. 48, NEW t \in {0, 1}
    PROVE  LET d == SetSpads(c, count, t) IN
           /\ d \in Sensings
           /\ d.status = "none" /\ (c.fuse < 0 \/ ~(d.fuse < 0)) => SetTo(count, t, d)
<1> DEFINE w == ArrayWindow(c)
           o == Overwrite(w)
           x == Cleared(o)
           from == IF t = 1 THEN 12 ELSE 0
           e == EnableSpads(x, t, from, count)
           U == Usable(x, t, from, count)
           d == Report(e, count, t)
<1>1. SetSpads(c, count, t) = d
  BY Zenon DEF SetSpads
<1>2. from \in Nat /\ count \in Nat
  OBVIOUS
<1>3. w \in Sensings /\ Tells(c, w) /\ (w.status = "none" => w.spad.page = 0)
  BY ArrayWindowIs, WindowTells DEF Beside
<1> HIDE DEF w, from
<1>4. o \in Sensings /\ o.fuse = w.fuse /\ o.spad = w.spad
  BY <1>3, Ends DEF Overwrite, Sensings
<1> HIDE DEF o
<1>5. x \in Sensings /\ x.spad.enables = {} /\ x.spad.page = w.spad.page /\ x.fuse = w.fuse
  BY <1>4, ClearedIs
<1> HIDE DEF x
<1>6. EnabledBy(x, U, count, e)
  BY <1>2, <1>5, EnableIs
<1>7. U \in SUBSET Bits /\ U \subseteq x.spad.good /\ \A i \in U : IsAperture(i) = t
  BY <1>2, <1>5, UsableIs
<1>8. x.fuse < 0 => e.fuse < 0
  BY <1>2, <1>5, EnableTells
<1> HIDE DEF e, U
<1>9. ReportedBy(e, count, t, d)
  BY <1>6, ReportIs DEF EnabledBy
<1> HIDE DEF d
<1>10. d \in Sensings
  BY <1>9 DEF ReportedBy
<1>11. ASSUME d.status = "none", c.fuse < 0 \/ ~(d.fuse < 0)
       PROVE  SetTo(count, t, d)
  <2>1. e.status = "none" /\ d.fuse = e.fuse
    BY <1>9, <1>11 DEF ReportedBy
  <2>2. w.status = "none"
    <3>1. c.fuse \in Int
      BY DEF Sensings
    <3> QED
      BY <1>3, <1>5, <1>8, <1>11, <2>1, <3>1 DEF Tells
  <2>3. x.spad.page = 0
    BY <1>3, <1>5, <2>2
  <2>4. /\ Cardinality(U) = count /\ e.spad.enables = U /\ e.spad.map = U
        /\ e.spad.good = x.spad.good
    BY <1>5, <1>6, <2>1, <2>3 DEF EnabledBy
  <2>5. /\ d.spad.enables = U /\ d.spad.map = U /\ d.spad.good = x.spad.good
        /\ d.spad.count = count /\ d.spad.type = t
    BY <1>9, <1>11, <2>4 DEF ReportedBy, Kept
  <2> QED
    BY <1>7, <2>4, <2>5 DEF SetTo
<1> QED
  BY <1>1, <1>10, <1>11

-----------------------------------------------------------------------------
(* The calls from a state of the types.                                    *)
Started == \A f \in Int, scene \in Scenes \cup {Dark}, cal \in {"ok", "timeout"} :
               /\ Sensing(f, scene, cal) \in Sensings
               /\ Sensing(f, scene, cal).found = 0 /\ Sensing(f, scene, cal).fuse = f
               /\ Sensing(f, scene, cal).spad = spad

LEMMA SensingIs == ASSUME spad \in SpadStates PROVE Started
<1> SUFFICES ASSUME NEW f \in Int, NEW scene \in Scenes \cup {Dark}, NEW cal \in {"ok", "timeout"}
             PROVE  /\ Sensing(f, scene, cal) \in Sensings
                    /\ Sensing(f, scene, cal).found = 0 /\ Sensing(f, scene, cal).fuse = f
                    /\ Sensing(f, scene, cal).spad = spad
  BY DEF Started
<1>1. scene \in Lights
  BY SpadsAssumption DEF Dark, Lights
<1> DEFINE n == 130
<1>2. n \in Uint8 /\ 0 \in Uint8
  BY BytesAre
<1> HIDE DEF n
<1>3. [spad |-> spad, fuse |-> f, status |-> "none", scene |-> scene, cal |-> cal,
       fresh |-> n, got |-> [vhv |-> 0, phase |-> 0], index |-> 0, rate |-> 0,
       found |-> 0, aperture |-> 0, search |-> "off"] \in Sensings
  BY <1>1, <1>2, Ends DEF Sensings
<1>4. Sensing(f, scene, cal) =
      [spad |-> spad, fuse |-> f, status |-> "none", scene |-> scene, cal |-> cal,
       fresh |-> n, got |-> [vhv |-> 0, phase |-> 0], index |-> 0, rate |-> 0,
       found |-> 0, aperture |-> 0, search |-> "off"]
  BY Zenon DEF Sensing, n
<1> QED
  BY <1>3, <1>4

LEMMA FusesAre == SpadFaults \subseteq Int /\ {-1, 0, 1, 2} \subseteq Int
  BY SpadsAssumption

LEMMA SpadsStep ==
    ASSUME spad \in SpadStates, SpadsNext
    PROVE  spad' \in SpadStates
<1>1. Started
  BY SensingIs
<1>2. \A d \in Sensings : d.spad \in SpadStates
  BY DEF Sensings
<1>3. CASE PerformRefSpadManagement
  <2>1. PICK f \in SpadFaults, scene \in Scenes, cal \in {"ok", "timeout"} :
            spad' = Manage(Sensing(f, scene, cal)).spad
    BY <1>3 DEF PerformRefSpadManagement, SpadReturn
  <2>2. Sensing(f, scene, cal) \in Sensings /\ Sensing(f, scene, cal).found = 0
    BY <1>1, FusesAre DEF Started
  <2> QED
    BY <1>2, <2>1, <2>2, ManageIs
<1>4. CASE SetReferenceSpads
  <2>1. PICK f \in SpadFaults, count \in {0, 3, 13}, aperture \in {0, 1} :
            spad' = SetSpads(Sensing(f, Dark, "ok"), count, aperture).spad
    BY <1>4 DEF SetReferenceSpads, SpadReturn
  <2>2. Sensing(f, Dark, "ok") \in Sensings /\ count \in 0 .. 48
    BY <1>1, FusesAre DEF Started
  <2> QED
    BY <1>2, <2>1, <2>2, SetSpadsIs
<1>5. CASE GetReferenceSpads
  <2>1. PICK f \in {-1, 0} : spad' = GetSpads(Sensing(f, Dark, "ok")).spad
    BY <1>5 DEF GetReferenceSpads, SpadReturn
  <2>2. Sensing(f, Dark, "ok") \in Sensings
    BY <1>1, FusesAre DEF Started
  <2> QED
    BY <1>2, <2>1, <2>2, GetSpadsIs
<1>6. CASE PerformRefCalibration
  <2>1. PICK f \in SpadFaults, cal \in {"ok", "timeout"} :
            spad' = RefCalibration(Sensing(f, Dark, cal), TRUE).spad
    BY <1>6 DEF PerformRefCalibration, SpadReturn
  <2>2. Sensing(f, Dark, cal) \in Sensings
    BY <1>1, FusesAre DEF Started
  <2> QED
    BY <1>2, <2>1, <2>2, RefCalibrationIs
<1>7. CASE SetRefCalibration
  <2>1. PICK f \in SpadFaults, v \in {20, 150} :
            spad' = WriteCalibration(Sensing(f, Dark, "ok"), [vhv |-> v, phase |-> v]).spad
    BY <1>7 DEF SetRefCalibration, SpadReturn
  <2>2. Sensing(f, Dark, "ok") \in Sensings /\ v \in Uint8
    BY <1>1, FusesAre, BytesAre DEF Started
  <2> DEFINE r == [vhv |-> v, phase |-> v]
  <2>3. r.vhv \in Uint8 /\ r.phase \in Uint8
    BY <2>2
  <2> HIDE DEF r
  <2>4. WriteCalibration(Sensing(f, Dark, "ok"), r) \in Sensings
    BY <2>2, <2>3, WriteCalibrationIs
  <2> QED
    BY <1>2, <2>1, <2>4 DEF r
<1>8. CASE GetRefCalibration
  <2>1. PICK f \in SpadFaults : spad' = ReadCalibration(Sensing(f, Dark, "ok")).spad
    BY <1>8 DEF GetRefCalibration, SpadReturn
  <2>2. Sensing(f, Dark, "ok") \in Sensings
    BY <1>1, FusesAre DEF Started
  <2> QED
    BY <1>2, <2>1, <2>2, ReadCalibrationIs
<1>9. CASE SetSpadAmbientDamper
  <2>1. PICK f \in {-1, 0, 1, 2}, v \in {1, 300} :
            \/ spad' = Damper(Sensing(f, Dark, "ok"), LAMBDA x : Put(x, 1, "damper", v)).spad
            \/ spad' = Damper(Sensing(f, Dark, "ok"), LAMBDA x : Put(x, 1, "factor", v % 256)).spad
    BY <1>9, ZenonT(30) DEF SetSpadAmbientDamper, SpadReturn
  <2>2. Sensing(f, Dark, "ok") \in Sensings
    BY <1>1, FusesAre DEF Started
  <2>3. /\ Damper(Sensing(f, Dark, "ok"), LAMBDA x : Put(x, 1, "damper", v)) \in Sensings
        /\ Damper(Sensing(f, Dark, "ok"), LAMBDA x : Put(x, 1, "factor", v % 256)) \in Sensings
    BY <2>2, DamperIs
  <2> QED
    BY <1>2, <2>1, <2>3
<1>10. CASE GetSpadAmbientDamper
  <2>1. PICK f \in {-1, 0, 1, 2} : spad' = Damper(Sensing(f, Dark, "ok"), Transfer).spad
    BY <1>10 DEF GetSpadAmbientDamper, SpadReturn
  <2>2. Sensing(f, Dark, "ok") \in Sensings
    BY <1>1, FusesAre DEF Started
  <2>3. Damper(Sensing(f, Dark, "ok"), Transfer) \in Sensings
    BY <2>2, DamperIs
  <2> QED
    BY <1>2, <2>1, <2>3
<1> QED
  BY <1>3, <1>4, <1>5, <1>6, <1>7, <1>8, <1>9, <1>10 DEF SpadsNext

LEMMA SpadsStart == SpadsInit => spad \in SpadStates
<1> SUFFICES ASSUME SpadsInit PROVE spad \in SpadStates
  OBVIOUS
<1> DEFINE a == 100
           b == 33
<1>1. PICK good \in GoodMaps, map \in Enabled :
          spad = [page |-> 0, map |-> map, seq |-> "ranging", vhv |-> a,
                  phase |-> b, damper |-> 0, factor |-> 0, good |-> good,
                  enables |-> {}, init |-> 0, count |-> 0, type |-> 0]
  BY DEF SpadsInit
<1>2. a \in Uint8 /\ b \in Uint8 /\ 0 \in Uint8 /\ 0 \in 0 .. 48
  BY BytesAre
<1>3. 0 \in Uint16
  BY SMT DEF Uint16
<1>4. good \in SUBSET Bits /\ map \in SUBSET Bits
  BY SpadsAssumption
<1> HIDE DEF a, b
<1> QED
  BY <1>1, <1>2, <1>3, <1>4 DEF SpadStates

LEMMA SpadsInvariant == SpadsSpec => [](spad \in SpadStates)
<1>1. SpadsInit => spad \in SpadStates
  BY SpadsStart
<1>2. spad \in SpadStates /\ [SpadsNext]_spadVars => (spad \in SpadStates)'
  <2>1. ASSUME spad \in SpadStates, UNCHANGED spadVars PROVE (spad \in SpadStates)'
    BY <2>1 DEF spadVars
  <2> QED
    BY <2>1, SpadsStep
<1> QED
  BY <1>1, <1>2, PTL DEF SpadsSpec

(* Whatever the calls and the transfers they lose, the registers and the   *)
(* device structure keep to their fields: a count is one of 48 SPADs.      *)
THEOREM SpadsTypes == SpadsSpec => []SpadsTypeOK
  BY SpadsInvariant DEF SpadsTypeOK

(* The number of SPADs found comes closest to the target, of all that the  *)
(* good map offers, in every state, also one a failed search has left.     *)
THEOREM ClosestFound == SpadsSpec => []ClosestToTarget
<1>1. spad \in SpadStates => ClosestToTarget
  <2> SUFFICES ASSUME spad \in SpadStates, NEW scene \in Scenes
               PROVE  ClosestFor(Manage(Sensing(-1, scene, "ok")), scene)
    BY DEF ClosestToTarget
  <2> DEFINE c == Sensing(-1, scene, "ok")
             d == Manage(c)
  <2>1. c \in Sensings /\ c.found = 0 /\ c.spad = spad /\ c.scene = scene
    <3>1. Started /\ -1 \in Int
      BY SensingIs
    <3> QED
      BY <3>1, Zenon DEF Started, Sensing
  <2> HIDE DEF c
  <2>2. /\ d \in Sensings /\ d.spad.good = spad.good /\ d.scene = scene
        /\ d.status = "none" => Alike(d) /\ Nearest(d)
    BY <2>1, ManageIs DEF Settled
  <2> HIDE DEF d
  <2>3. d.aperture \in {0, 1} /\ spad.good \in SUBSET Bits
    BY <2>2 DEF Sensings, SpadStates
  <2>4. OfType(d.aperture) = All(d)
    <3>1. \A i \in spad.good : i < 48
      BY <2>3, BitsAre
    <3> QED
      BY <2>2, <3>1 DEF OfType, All, Taken
  <2>5. ASSUME d.status = "none",
               NEW n \in MinimumSpads .. Cardinality(OfType(d.aperture))
        PROVE  Off(SignalOf(d, Cardinality(d.spad.map))) <= Off(SignalOf(d, n))
    BY <2>2, <2>4, <2>5 DEF Alike, Nearest
  <2>6. ClosestFor(d, scene)
    BY <2>2, <2>5, Zenon DEF ClosestFor, SignalOf, Signal
  <2> QED
    BY <2>6 DEF d, c
<1> QED
  BY <1>1, SpadsInvariant, PTL

LEMMA ReportedSpads ==
    ASSUME spad \in SpadStates, SpadsNext, CleanCall,
           Succeeds("Manage") \/ Succeeds("SetSpads")
    PROVE  /\ spad'.map = spad'.enables /\ spad'.map \subseteq spad'.good
           /\ \A i, j \in spad'.map : IsAperture(i) = IsAperture(j)
           /\ spad'.count # 0 \/ last'.op = "SetSpads" =>
                 /\ Cardinality(spad'.map) = spad'.count
                 /\ \A i \in spad'.map : IsAperture(i) = spad'.type
<1>1. Started
  BY SensingIs
<1>2. CASE PerformRefSpadManagement
  <2>1. PICK f \in SpadFaults, scene \in Scenes, cal \in {"ok", "timeout"} :
            SpadReturn("Manage", f, Manage(Sensing(f, scene, cal)))
    BY <1>2 DEF PerformRefSpadManagement
  <2> DEFINE c == Sensing(f, scene, cal)
             d == Manage(c)
  <2>2. c \in Sensings /\ c.found = 0
    BY <1>1, FusesAre DEF Started
  <2>3. spad' = d.spad /\ last'.op = "Manage" /\ d.status = last'.status
    BY <2>1 DEF SpadReturn, Ended
  <2> HIDE DEF c
  <2>4. d.status = "none" => Settled(d) /\ d.spad.count = d.found /\ d.spad.type = d.aperture
    BY <2>2, ManageIs
  <2> HIDE DEF d
  <2>5. d.status = "none"
    BY <2>3 DEF Succeeds
  <2>6. PICK t \in {0, 1} : d.spad.enables \subseteq Taken(d.spad.good, t, 48)
    BY <2>4, <2>5 DEF Settled, Alike
  <2>7. d.spad.map = d.spad.enables
    BY <2>4, <2>5 DEF Settled, Alike
  <2>8. d.spad.map \subseteq d.spad.good /\ \A i \in d.spad.map : IsAperture(i) = t
    BY <2>6, <2>7 DEF Taken
  <2>9. d.spad.count # 0 => /\ Cardinality(d.spad.map) = d.spad.count
                            /\ \A i \in d.spad.map : IsAperture(i) = d.spad.type
    BY <2>4, <2>5, <2>7 DEF Settled, Counted, All, Taken
  <2> QED
    BY <2>3, <2>7, <2>8, <2>9
<1>3. CASE SetReferenceSpads
  <2>1. PICK f \in SpadFaults, count \in {0, 3, 13}, aperture \in {0, 1} :
            SpadReturn("SetSpads", f, SetSpads(Sensing(f, Dark, "ok"), count, aperture))
    BY <1>3 DEF SetReferenceSpads
  <2> DEFINE c == Sensing(f, Dark, "ok")
             d == SetSpads(c, count, aperture)
  <2>2. c \in Sensings /\ c.fuse = f /\ count \in 0 .. 48 /\ f \in Int
    BY <1>1, FusesAre DEF Started
  <2>3. spad' = d.spad /\ d.status = last'.status /\ last'.lost = (Lost(f, d) \/ d.cal # "ok")
    BY <2>1 DEF SpadReturn, Ended
  <2> HIDE DEF c
  <2>4. d.status = "none" /\ (c.fuse < 0 \/ ~(d.fuse < 0)) => SetTo(count, aperture, d)
    BY <2>2, SetSpadsIs
  <2> HIDE DEF d
  <2>5. d.status = "none" /\ ~Lost(f, d)
    BY <2>3, Zenon DEF Succeeds, CleanCall
  <2>6. SetTo(count, aperture, d)
    BY <2>2, <2>4, <2>5 DEF Lost
  <2> QED
    BY <2>3, <2>6 DEF SetTo
<1>4. ASSUME NEW op, NEW f, NEW c, SpadReturn(op, f, c)
      PROVE  op \in {"Manage", "SetSpads"}
  BY <1>4, Zenon DEF SpadReturn, Ended, Succeeds
<1>5. ~GetReferenceSpads
  BY <1>4 DEF GetReferenceSpads
<1>9. ~PerformRefCalibration
  <2> SUFFICES ASSUME PerformRefCalibration PROVE FALSE
    OBVIOUS
  <2>1. PICK f \in SpadFaults, cal \in {"ok", "timeout"} :
            SpadReturn("Calibrate", f, RefCalibration(Sensing(f, Dark, cal), TRUE))
    BY DEF PerformRefCalibration
  <2> DEFINE c == RefCalibration(Sensing(f, Dark, cal), TRUE)
  <2> HIDE DEF c
  <2>2. SpadReturn("Calibrate", f, c)
    BY <2>1 DEF c
  <2> QED
    BY <1>4, <2>2
<1>6. ~SetRefCalibration /\ ~GetRefCalibration
  BY <1>4 DEF SetRefCalibration, GetRefCalibration
<1>7. ~SetSpadAmbientDamper /\ ~GetSpadAmbientDamper
  BY <1>4 DEF SetSpadAmbientDamper, GetSpadAmbientDamper
<1> QED
  BY <1>2, <1>3, <1>5, <1>6, <1>7, <1>9 DEF SpadsNext

(* Setting or managing the SPADs leaves in the sensor what is reported,    *)
(* whatever map, page or sequence earlier calls have left behind.          *)
THEOREM SpadsReported == SpadsSpec => SpadsAsReported
<1>1. spad \in SpadStates /\ [SpadsNext]_spadVars =>
          [CleanCall /\ (Succeeds("Manage") \/ Succeeds("SetSpads")) =>
             /\ spad'.map = spad'.enables /\ spad'.map \subseteq spad'.good
             /\ \A i, j \in spad'.map : IsAperture(i) = IsAperture(j)
             /\ spad'.count # 0 \/ last'.op = "SetSpads" =>
                   /\ Cardinality(spad'.map) = spad'.count
                   /\ \A i \in spad'.map : IsAperture(i) = spad'.type]_spadVars
  BY ReportedSpads
<1> QED
  BY <1>1, SpadsInvariant, PTL DEF SpadsSpec, SpadsAsReported
=============================================================================
