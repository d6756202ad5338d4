------------------------------ MODULE RefSpads ------------------------------
(***************************************************************************)
(* The reference SPADs: the search for the map that comes closest to the   *)
(* target signal, maps set and read by the application, and the reference  *)
(* calibrations and ambient damper that live beside them in the sensor.    *)
(***************************************************************************)
EXTENDS ApiCall, Arith32, FiniteSetsExt

CONSTANTS
    GoodMaps,       \* good SPAD maps of a sensor, sets of bit numbers
    Scenes,         \* signal of a SPAD of each type, and of none, in 9.7
    Enabled,        \* maps the sensor may hold from before
    SpadFaults,     \* transfers of a call that may be lost, -1: none
    MaxSpadCalls    \* bound on the calls of a behaviour

Bits == 0 .. 47         \* six bytes of map
MinimumSpads == 3
TargetRate == 2560      \* 20 Mcps in 9.7

ASSUME SpadsAssumption ==
    /\ GoodMaps \subseteq SUBSET Bits /\ Enabled \subseteq SUBSET Bits
    /\ Scenes \subseteq [base : Nat, open : Nat, aperture : Nat]
    /\ SpadFaults \subseteq Int /\ MaxSpadCalls \in Nat

VARIABLE spad   \* registers, then the device structure

spadVars == <<spad, last, calls>>

(* The start is SPAD 180, twelve before the aperture quadrant.             *)
IsAperture(i) == IF (180 + i) \div 64 = 2 THEN 0 ELSE 1

SpadStates ==
    [page : {0, 1}, map : SUBSET Bits, seq : {"ranging", "vhv", "phase", "signal"},
     vhv : Uint8, phase : Uint8, damper : Uint16, factor : Uint8, good : SUBSET Bits,
     enables : SUBSET Bits, init : {0, 1}, count : 0 .. 48, type : {0, 1}]

SpadsTypeOK == spad \in SpadStates

-----------------------------------------------------------------------------
Page(c, p) == Done(c, LAMBDA x : [x EXCEPT !.spad.page = p])

(* A register of page p, written where it is.                              *)
Put(c, p, field, v) ==
    Done(c, LAMBDA x : IF x.spad.page = p THEN [x EXCEPT !.spad[field] = v] ELSE x)

(* Reading back what was written on whatever page is selected.             *)
WriteMap(c) == Put(c, 0, "map", c.spad.enables)

(* FF=1, two registers, FF=0, the start of the array.                      *)
ArrayWindow(c) ==
    LET d == Then(Page(c, 1), LAMBDA x : Transfers(x, 2))
    IN  Then(Then(d, LAMBDA x : Page(x, 0)), Transfer)

(* enable_ref_spads: the next n good SPADs, none of the other type; those  *)
(* before the first that is missing or of the other type stay enabled.     *)
EnableSpads(c, aperture, from, n) ==
    LET good == {i \in c.spad.good : i >= from}
        chosen == {i \in good : Cardinality({j \in good : j <= i}) <= n}
        usable == {i \in chosen : \A j \in chosen : j <= i => IsAperture(j) = aperture}
        d == [c EXCEPT !.spad.enables = @ \cup usable,
                       !.index = IF usable = {} THEN from ELSE Max(usable) + 1,
                       !.status = IF Cardinality(usable) = n THEN "none" ELSE "spad"]
    IN  Then(Then(d, WriteMap), Transfer)

(* count_enabled_spads: five whole bytes; in the last one its first bit,   *)
(* once for each of the bits 40 to 44.                                     *)
CountEnabled(map) == Cardinality(map \cap 0 .. 39) + (IF 40 \in map THEN 5 ELSE 0)

(* And the type of the first one: none of bits 4 to 7 of a byte is taken   *)
(* for a non-aperture SPAD.  0 when no SPAD is found.                      *)
TypeEnabled(map) ==
    LET first == Min(map \cap 0 .. 39)
    IN  IF map \cap 0 .. 39 = {} THEN 0
        ELSE IF first < 16 /\ first % 8 < 4 THEN 0 ELSE 1

-----------------------------------------------------------------------------
(* perform_ref_signal_measurement; the ranging call counts as a transfer.  *)
Rate(map, scene) ==
    LET Lit(t) == Cardinality({i \in map : IsAperture(i) = t})
    IN  Min({65535, scene.base + Lit(0) * scene.open + Lit(1) * scene.aperture})

MeasureSignal(c) ==
    LET d == Then(Put(c, 0, "seq", "signal"), Transfer)
        e == Then(Then(d, LAMBDA x : Page(x, 1)), Transfer)
        f == Then(e, LAMBDA x :
                 Page([x EXCEPT !.rate = Rate(x.spad.map, x.scene)], 0))
    IN  Then(f, LAMBDA x : Put(x, 0, "seq", "ranging"))

Off(rate) == IF rate > TargetRate THEN rate - TargetRate ELSE TargetRate - rate

KeepCloser_Last(c, before) == [c EXCEPT !.search = "complete"]

Restored(c, before) ==
    [Put(c, 0, "map", before.enables) EXCEPT
        !.spad.enables = before.enables, !.found = @ - 1]

(* Past the target: the map before, when it was closer.                    *)
KeepCloser(c, before) ==
    LET d == [c EXCEPT !.search = "complete"]
    IN  IF Off(c.rate) > before.off THEN Restored(d, before) ELSE d

(* One turn of the search, with the next good SPAD.                        *)
AddSpad(c, i) ==
    IF c.search = "complete" \/ c.status # "none" THEN c
    ELSE IF IsAperture(i) # c.aperture THEN [c EXCEPT !.search = "complete"]
    ELSE LET before == [enables |-> c.spad.enables, off |-> Off(c.rate)]
             d == WriteMap([c EXCEPT !.spad.enables = @ \cup {i}, !.found = @ + 1])
         IN  Then(Then(d, MeasureSignal), LAMBDA x :
                 IF x.rate > TargetRate THEN KeepCloser(x, before) ELSE x)

Turn(c, i) == IF i \in c.spad.good \ 0 .. c.index - 1 THEN AddSpad(c, i) ELSE c

(* It ends without a map when the good SPADs run out first.                *)
AddSpads(c) ==
    LET upTo[i \in 0 .. 48] ==
            IF i = 0 THEN [c EXCEPT !.found = MinimumSpads, !.search = "on"]
            ELSE Turn(upTo[i - 1], i - 1)
    IN  Then(upTo[48], LAMBDA x : IF x.search = "on" THEN Fail(x, "spad") ELSE x)

-----------------------------------------------------------------------------
(* VL53L0X_ref_calibration_io: |= transfers around its two registers.      *)
Also(c, F(_)) ==
    LET d == F(c)
    IN  IF c.status = "none" THEN d ELSE Fail(d, c.status)

VisitPage1(c, n) ==
    LET d == Also(Also(c, LAMBDA x : Page(x, 1)), LAMBDA x : Transfers(x, n))
    IN  Also(d, LAMBDA x : Page(x, 0))

CalibrationIo(c, Op(_)) == VisitPage1(Also(VisitPage1(c, 1), Op), 1)

(* The phase is read without bit 4, and written beside its own bit 7.      *)
WithoutBit4(v) == v - 16 * ((v \div 16) % 2)
OrWith128(old, v) == IF old >= 128 /\ v < 128 THEN v + 128 ELSE v

ReadCalibration(c) ==
    CalibrationIo(c, LAMBDA x : Then(Transfers(x, 2), LAMBDA y :
        [y EXCEPT !.got = [vhv |-> y.spad.vhv, phase |-> WithoutBit4(y.spad.phase)]]))

WriteCalibration(c, v) ==
    CalibrationIo(c, LAMBDA x :
        LET d == Put(x, 0, "vhv", v.vhv)
        IN  Then(Then(d, Transfer), LAMBDA y :
                Put(y, 0, "phase", OrWith128(y.spad.phase, v.phase))))

(* perform_single_ref_calibration, which polls and may time out.           *)
SingleCalibration(c, field) ==
    Then(Transfers(c, 4), LAMBDA x :
        IF x.cal = "ok" THEN [x EXCEPT !.spad[field] = x.fresh]
        ELSE Fail(x, "timeout"))

(* perform_vhv_calibration and perform_phase_calibration: the sequence of  *)
(* the one step, its measurement, and its result read where asked for.     *)
StepCalibration(c, step, get) ==
    LET d == Then(Put(c, 0, "seq", step), LAMBDA x : SingleCalibration(x, step))
    IN  Then(d, LAMBDA x : IF get THEN ReadCalibration(x) ELSE x)

(* VL53L0X_perform_ref_calibration: the remembered sequence comes back     *)
(* only when both calibrations succeed.                                    *)
RefCalibration(c, get) ==
    LET d == Then(StepCalibration(c, "vhv", get),
                  LAMBDA x : StepCalibration(x, "phase", get))
    IN  Then(d, LAMBDA x : Put(x, 0, "seq", "ranging"))

-----------------------------------------------------------------------------
(* VL53L0X_perform_ref_spad_management.                                    *)
Cleared(c) == [c EXCEPT !.spad.enables = {}]

Minimum(c, aperture, from) ==
    Then(EnableSpads([c EXCEPT !.aperture = aperture], aperture, from, MinimumSpads),
         MeasureSignal)

MinimumOfEither_NotCleared(c) ==
    LET d == Minimum(c, 0, 0)
    IN  Then(d, LAMBDA x :
            IF x.rate > TargetRate THEN Minimum(x, 1, Max({x.index, 12})) ELSE x)

(* With too much signal the search starts again with aperture SPADs, from  *)
(* the first of them.                                                      *)
MinimumOfEither(c) ==
    LET d == Minimum(c, 0, 0)
    IN  Then(d, LAMBDA x :
            IF x.rate > TargetRate
            THEN Minimum(Cleared(x), 1, Max({x.index, 12})) ELSE x)

(* A signal that hits the target at once leaves the count at 0.            *)
Search(c) ==
    IF c.rate < TargetRate THEN AddSpads(c)
    ELSE IF c.rate > TargetRate THEN [c EXCEPT !.found = MinimumSpads]
    ELSE [c EXCEPT !.aperture = 0]

Report(c, count, aperture) ==
    Then(c, LAMBDA x : [x EXCEPT !.spad.init = 1, !.spad.count = count,
                                 !.spad.type = aperture])

Manage(c) ==
    LET d == Then(Then(ArrayWindow(Cleared(c)), Transfer),
                  LAMBDA x : RefCalibration(x, FALSE))
        e == Then(Then(d, MinimumOfEither), Search)
    IN  Then(e, LAMBDA x : Report(x, x.found, x.aperture))

(* VL53L0X_set_reference_spads; the status of the window is overwritten.   *)
SetSpads(c, count, aperture) ==
    LET d == Cleared(Overwrite(ArrayWindow(c)))
        e == EnableSpads(d, aperture, IF aperture = 1 THEN 12 ELSE 0, count)
    IN  Report(e, count, aperture)

(* VL53L0X_get_reference_spads counts only what no call has set.           *)
GetSpads(c) ==
    IF c.spad.init = 1 THEN c
    ELSE Report(Transfer(c), CountEnabled(c.spad.map), TypeEnabled(c.spad.map))

-----------------------------------------------------------------------------
Sensing(f, scene, cal) ==
    [spad |-> spad, fuse |-> f, status |-> "none", scene |-> scene, cal |-> cal,
     fresh |-> 130, got |-> [vhv |-> 0, phase |-> 0], index |-> 0, rate |-> 0,
     found |-> 0, aperture |-> 0, search |-> "off"]

Dark == [base |-> 0, open |-> 0, aperture |-> 0]

SpadReturn(op, f, c) ==
    /\ calls < MaxSpadCalls
    /\ spad' = c.spad
    /\ Ended(op, c, Lost(f, c) \/ c.cal # "ok")

PerformRefSpadManagement ==
    \E f \in SpadFaults, scene \in Scenes, cal \in {"ok", "timeout"} :
        /\ SpadReturn("Manage", f, Manage(Sensing(f, scene, cal)))

SetReferenceSpads ==
    \E f \in SpadFaults, count \in {0, 3, 13}, aperture \in {0, 1} :
        SpadReturn("SetSpads", f, SetSpads(Sensing(f, Dark, "ok"), count, aperture))

GetReferenceSpads ==
    \E f \in {-1, 0} : SpadReturn("GetSpads", f, GetSpads(Sensing(f, Dark, "ok")))

PerformRefCalibration ==
    \E f \in SpadFaults, cal \in {"ok", "timeout"} :
        SpadReturn("Calibrate", f, RefCalibration(Sensing(f, Dark, cal), TRUE))

SetRefCalibration ==
    \E f \in SpadFaults, v \in {20, 150} :
        SpadReturn("SetCalibration", f,
            WriteCalibration(Sensing(f, Dark, "ok"), [vhv |-> v, phase |-> v]))

GetRefCalibration ==
    \E f \in SpadFaults :
        SpadReturn("GetCalibration", f, ReadCalibration(Sensing(f, Dark, "ok")))

(* The ambient damper: |= transfers, its registers on page 1.              *)
Damper(c, Op(_)) ==
    LET d == Page(c, 1)
        e == Op(d)
        f == Page(e, 0)
    IN  IF "io" \in {d.status, e.status} THEN Fail(f, "io") ELSE f

SetSpadAmbientDamper ==
    \E f \in {-1, 0, 1, 2}, v \in {1, 300} :
        \/ SpadReturn("SetDamper", f, Damper(Sensing(f, Dark, "ok"),
               LAMBDA x : Put(x, 1, "damper", v)))
        \/ SpadReturn("SetFactor", f, Damper(Sensing(f, Dark, "ok"),
               LAMBDA x : Put(x, 1, "factor", v % 256)))

GetSpadAmbientDamper ==
    \E f \in {-1, 0, 1, 2} :
        SpadReturn("GetDamper", f, Damper(Sensing(f, Dark, "ok"), Transfer))

(* After VL53L0X_DataInit, on a sensor that holds any map.                 *)
SpadsInit ==
    /\ \E good \in GoodMaps, map \in Enabled :
        spad = [page |-> 0, map |-> map, seq |-> "ranging", vhv |-> 100,
                phase |-> 33, damper |-> 0, factor |-> 0, good |-> good,
                enables |-> {}, init |-> 0, count |-> 0, type |-> 0]
    /\ CallInit

SpadsNext ==
    \/ PerformRefSpadManagement \/ SetReferenceSpads \/ GetReferenceSpads
    \/ PerformRefCalibration \/ SetRefCalibration \/ GetRefCalibration
    \/ SetSpadAmbientDamper \/ GetSpadAmbientDamper

SpadsSpec == SpadsInit /\ [][SpadsNext]_spadVars
-----------------------------------------------------------------------------
Succeeds(op) == last'.op = op /\ last'.status = "none"

(* Setting and managing the SPADs leaves in the sensor what it reports: so *)
(* many good SPADs of the one type and no other, whatever earlier calls    *)
(* left (a page, half a map, a sequence).  Not so when the first           *)
(* measurement hits the target exactly: 0 is reported then.                *)
SpadsAsReported ==
    [][CleanCall /\ (Succeeds("Manage") \/ Succeeds("SetSpads")) =>
         /\ spad'.map = spad'.enables /\ spad'.map \subseteq spad'.good
         /\ \A i, j \in spad'.map : IsAperture(i) = IsAperture(j)
         /\ spad'.count # 0 \/ last'.op = "SetSpads" =>
               /\ Cardinality(spad'.map) = spad'.count
               /\ \A i \in spad'.map : IsAperture(i) = spad'.type]_spadVars

OfType(t) == {i \in spad.good : IsAperture(i) = t}

ClosestFor(c, scene) ==
    LET per == IF c.aperture = 1 THEN scene.aperture ELSE scene.open
        Signal(n) == scene.base + n * per
    IN  c.status = "none" =>
            \A n \in MinimumSpads .. Cardinality(OfType(c.aperture)) :
                Off(Signal(Cardinality(c.spad.map))) <= Off(Signal(n))

(* The search ends with the number of SPADs that brings the signal closest *)
(* to the target, of those the good map offers and from the minimum up,    *)
(* also when it starts from what another search left half done.            *)
ClosestToTarget ==
    last.op = "Manage" =>
        \A scene \in Scenes : ClosestFor(Manage(Sensing(-1, scene, "ok")), scene)

(* vl53l0x_api_calibration.c:528: "Count the number of bits enabled in the *)
(* last byte accounting for the fact that not all bits in the byte may be  *)
(* used."  The count is that of the bits of the window that are set.       *)
CountsEnabledBits ==
    last = [op |-> "GetSpads", status |-> "none", lost |-> FALSE] /\ calls = 1
        => spad.count = Cardinality(spad.map \cap 0 .. 43)
=============================================================================
