------------------------------- MODULE Sensor -------------------------------
(***************************************************************************)
(* The VL53L0X ranging sensor as the driver sees it through its registers. *)
(* None of this hardware is under src/: the module is written from how     *)
(* src/src/vl53l0x_api.c uses the registers.                               *)
(*                                                                         *)
(*  - register 0xFF selects a page; SYSRANGE_START (0x00), the interrupt   *)
(*    status and the result registers the driver means are those of page   *)
(*    0, and a transfer made while page 1 is selected touches none of them;*)
(*  - writing 1 to SYSRANGE_START raises the start bit, which the sensor   *)
(*    clears when it begins the measurement it was asked for;              *)
(*  - the end of a measurement replaces the result registers and latches   *)
(*    the interrupt status until the driver clears it.                     *)
(*                                                                         *)
(* Measurements are numbered in the order they begin, so the content of    *)
(* the result registers is the number of the measurement they come from.   *)
(***************************************************************************)
EXTENDS Integers

CONSTANT MaxBegun      \* bound on the measurements the sensor begins

ASSUME MaxBegunAssumption == MaxBegun \in Nat

VARIABLES
    page,       \* the register page selected, 0 or 1
    startBit,   \* bit 0 of SYSRANGE_START on page 0
    phase,      \* "standby", or "ranging" while it measures
    begun,      \* number of the last measurement begun
    result,     \* number of the measurement in the result registers
    ready,      \* NEW_SAMPLE_READY latched in RESULT_INTERRUPT_STATUS
    err         \* error bits (0x18) latched in RESULT_INTERRUPT_STATUS

sensorVars == <<page, startBit, phase, begun, result, ready, err>>

SensorTypeOK ==
    /\ page \in {0, 1}
    /\ startBit \in {0, 1}
    /\ phase \in {"standby", "ranging"}
    /\ begun \in Nat
    /\ result \in Nat
    /\ ready \in {0, 1}
    /\ err \in {0, 1}

(* The result registers hold the last measurement that ended. *)
ResultIsLast == result = IF phase = "ranging" THEN begun - 1 ELSE begun

(* Requests, measurements and latches the sensor still holds. *)
Outstanding == startBit + ready + err + (IF phase = "ranging" THEN 1 ELSE 0)

(* What ranger_init() hands out, at worst: a transfer that failed without  *)
(* a report may have left a request, a measurement or a latch.  RangerInit *)
(* shows it and SingleRanging starts from it.                              *)
SensorHandedOut == page = 0 /\ Outstanding <= 2 /\ ResultIsLast

(* Two calibrations have begun. *)
SensorInit ==
    /\ begun = 2
    /\ page = 0 /\ startBit \in {0, 1} /\ phase \in {"standby", "ranging"}
    /\ result \in {1, 2} /\ ready \in {0, 1} /\ err \in {0, 1}
    /\ SensorHandedOut

(* Nothing in progress, nothing asked for, nothing latched. *)
SensorQuiet == startBit = 0 /\ phase = "standby" /\ ready = 0 /\ err = 0

-----------------------------------------------------------------------------
(* Steps the sensor takes on its own. *)

BeginMeasurement ==
    /\ startBit = 1 /\ phase = "standby"
    /\ begun < MaxBegun
    /\ startBit' = 0
    /\ phase' = "ranging"
    /\ begun' = begun + 1
    /\ UNCHANGED <<page, result, ready, err>>

(* A measurement ends with a new sample or with a device error. *)
EndMeasurement ==
    /\ phase = "ranging"
    /\ phase' = "standby"
    /\ result' = begun
    /\ \/ ready' = 1 /\ err' = err
       \/ ready' = ready /\ err' = 1
    /\ UNCHANGED <<page, startBit, begun>>

SensorStep == BeginMeasurement \/ EndMeasurement

-----------------------------------------------------------------------------
(* What a register write that reached the sensor does. *)

SelectPage(p) ==
    /\ page' = p
    /\ UNCHANGED <<startBit, phase, begun, result, ready, err>>

(* 0x00 := 1.  On page 0 that is SYSRANGE_START. *)
WriteStart ==
    /\ startBit' = IF page = 0 THEN 1 ELSE startBit
    /\ UNCHANGED <<page, phase, begun, result, ready, err>>

(* 0x00 := 0.  On page 0 it may withdraw a start not yet begun. *)
WriteNoStart ==
    /\ startBit' \in {startBit, IF page = 0 THEN 0 ELSE startBit}
    /\ UNCHANGED <<page, phase, begun, result, ready, err>>

(* SYSTEM_INTERRUPT_CLEAR := 1.  The driver relies on it for the sample bit *)
(* only; whether the error bits go too is left open.                        *)
WriteInterruptClear ==
    /\ ready' = IF page = 0 THEN 0 ELSE ready
    /\ err' \in {err, IF page = 0 THEN 0 ELSE err}
    /\ UNCHANGED <<page, startBit, phase, begun, result>>

(* The values a bit that is v on page 0 can be read as. *)
ReadBit(v) == IF page = 0 THEN {v} ELSE {0, 1}
=============================================================================
