---------------------------- MODULE SingleRanging ----------------------------
(***************************************************************************)
(* One sensor_loop() tick of src/src/main.cpp after another: the esp_timer *)
(* task calls ranger_measure(), which runs                                 *)
(* VL53L0X_PerformSingleRangingMeasurement() against the sensor.  Every    *)
(* I2C transfer that matters is a step of its own, so the sensor begins    *)
(* and ends measurements between any two of them, and every transfer may   *)
(* fail with VL53L0X_ERROR_CONTROL_INTERFACE.                              *)
(***************************************************************************)
EXTENDS Sensor

CONSTANTS
    MaxLoop,        \* VL53L0X_DEFAULT_MAX_LOOP
    MaxClear,       \* tries ClearInterruptMask makes, 3 in the code
    RefClipCheck    \* the SIGNAL_REF_CLIP limit check is enabled

ASSUME LoopAssumption ==
    /\ MaxLoop \in Nat /\ MaxLoop > 1
    /\ MaxClear \in Nat /\ MaxClear > 0
    /\ RefClipCheck \in BOOLEAN

VARIABLES
    pc,         \* the next I2C transfer of the call, "idle" between calls
    status,     \* Status of the call: what it returned when pc = "idle"
    loop,       \* LoopNb or LoopCount of the loop the call is in
    data,       \* the measurement in *pRangingMeasurementData
    io,         \* history: "lost" once a transfer of this call failed
    found,      \* history: how this call found the sensor, "quiet" or "busy"
    base,       \* history: last measurement begun before the start request
    delivered   \* history: last measurement a call returned with success

driverVars == <<pc, status, loop, data, io, found, base, delivered>>
history == <<found, base>>
vars == <<sensorVars, driverVars>>

NoSample == -1      \* a buffer that was not filled from the result registers

Label == {"idle", "selectPage", "clearStart", "setStart", "deselectPage",
          "start", "pollStart", "pollReady", "readData", "limitChecks",
          "refSelect", "refRead", "refDeselect", "clear", "clearStatus"}

Status == {"UNDEFINED", "NONE", "CONTROL_INTERFACE", "TIME_OUT",
           "RANGE_ERROR", "INTERRUPT_NOT_CLEARED"}

TypeOK ==
    /\ SensorTypeOK
    /\ pc \in Label
    /\ status \in Status
    /\ loop \in Nat
    /\ data \in Nat \cup {NoSample}
    /\ io \in {"ok", "lost"}
    /\ found \in {"quiet", "busy"}
    /\ base \in Nat
    /\ delivered \in Nat

Init ==
    /\ SensorInit
    /\ pc = "idle"
    /\ status = "UNDEFINED"
    /\ loop = 0
    /\ data = NoSample
    /\ io = "ok"
    /\ found = "quiet"
    /\ base = 0
    /\ delivered = 0

-----------------------------------------------------------------------------
(* Steps of a call. *)

Goto(label) == pc' = label /\ UNCHANGED <<status, delivered>>

(* Mutated: an unfilled buffer counts as a measurement. *)
Return_Unfilled(code) ==
    /\ pc' = "idle"
    /\ status' = code
    /\ delivered' = IF code = "NONE" THEN data ELSE delivered

Return(code) ==
    /\ pc' = "idle"
    /\ status' = code
    /\ delivered' = IF code = "NONE" /\ data # NoSample THEN data ELSE delivered

Transfer(ok) == io' = IF ok THEN io ELSE "lost"

(* A register write w; one reported as failed may have reached the sensor. *)
Write(ok, w) == Transfer(ok) /\ (w \/ (~ok /\ UNCHANGED sensorVars))

Read(ok) == Transfer(ok) /\ UNCHANGED sensorVars

(* The periodic timer fires.  A tick that falls due during a call is       *)
(* skipped (skip_unhandled_events).                                        *)
Tick ==
    /\ pc = "idle"
    /\ pc' = "selectPage"
    /\ status' = "NONE"
    /\ loop' = 0
    /\ data' = NoSample
    /\ io' = "ok"
    /\ found' = IF SensorQuiet THEN "quiet" ELSE "busy"
    /\ UNCHANGED <<sensorVars, base, delivered>>

(* Mutated: the page switch selects page 0. *)
StartSelectPage_Page0 ==
    /\ pc = "selectPage"
    /\ \E ok \in BOOLEAN : Write(ok, SelectPage(0))
    /\ Goto("clearStart")
    /\ UNCHANGED <<loop, data, history>>

(* VL53L0X_StartMeasurement: the page switch around the stop variable. The *)
(* code assigns Status at each write and never looks at it.                *)
StartSelectPage ==
    /\ pc = "selectPage"
    /\ \E ok \in BOOLEAN : Write(ok, SelectPage(1))
    /\ Goto("clearStart")
    /\ UNCHANGED <<loop, data, history>>

StartClearReg0 ==
    /\ pc = "clearStart"
    /\ \E ok \in BOOLEAN : Write(ok, WriteNoStart)
    /\ Goto("setStart")
    /\ UNCHANGED <<loop, data, history>>

StartSetReg0 ==
    /\ pc = "setStart"
    /\ \E ok \in BOOLEAN : Write(ok, WriteStart)
    /\ Goto("deselectPage")
    /\ UNCHANGED <<loop, data, history>>

(* Mutated: page 0 is not selected again. *)
StartDeselectPage_Dropped ==
    /\ pc = "deselectPage"
    /\ Read(TRUE)
    /\ Goto("start")
    /\ UNCHANGED <<loop, data, history>>

StartDeselectPage ==
    /\ pc = "deselectPage"
    /\ \E ok \in BOOLEAN : Write(ok, SelectPage(0))
    /\ Goto("start")
    /\ UNCHANGED <<loop, data, history>>

(* Mutated: the start bit is not polled. *)
StartMeasurement_NoPoll ==
    /\ pc = "start"
    /\ base' = begun
    /\ \/ Write(TRUE, WriteStart) /\ Goto("pollReady") /\ loop' = 0
       \/ Write(FALSE, WriteStart) /\ Return("CONTROL_INTERFACE") /\ loop' = loop
    /\ UNCHANGED <<data, found>>

(* SYSRANGE_START := 1, and the first turn of the loop, which reads nothing. *)
StartMeasurement ==
    /\ pc = "start"
    /\ base' = begun
    /\ \/ Write(TRUE, WriteStart) /\ Goto("pollStart") /\ loop' = 1
       \/ Write(FALSE, WriteStart) /\ Return("CONTROL_INTERFACE") /\ loop' = loop
    /\ UNCHANGED <<data, found>>

(* do ... while the start bit is set; the loop limit overrides everything. *)
PollStartBit ==
    /\ pc = "pollStart"
    /\ \E ok \in BOOLEAN, bit \in ReadBit(startBit) :
          /\ Read(ok)
          /\ \/ /\ loop + 1 >= MaxLoop
                /\ Return("TIME_OUT") /\ loop' = loop
             \/ /\ loop + 1 < MaxLoop /\ ~ok
                /\ Return("CONTROL_INTERFACE") /\ loop' = loop
             \/ /\ loop + 1 < MaxLoop /\ ok /\ bit = 1
                /\ Goto("pollStart") /\ loop' = loop + 1
             \/ /\ loop + 1 < MaxLoop /\ ok /\ bit = 0
                /\ Goto("pollReady") /\ loop' = 0
    /\ UNCHANGED <<data, history>>

(* Mutated: the first read of the status ends the wait. *)
PollReady_NoWait ==
    /\ pc = "pollReady"
    /\ \/ Read(TRUE) /\ Goto("readData") /\ loop' = loop
       \/ Read(FALSE) /\ Return("CONTROL_INTERFACE") /\ loop' = loop
    /\ UNCHANGED <<data, history>>

(* Mutated: LoopNb is not counted. *)
PollReady_NoLimit ==
    /\ pc = "pollReady"
    /\ \E isReady \in ReadBit(ready), isErr \in ReadBit(err) :
          /\ Read(TRUE)
          /\ \/ isErr = 1 /\ Return("RANGE_ERROR")
             \/ isErr = 0 /\ isReady = 1 /\ Goto("readData")
             \/ isErr = 0 /\ isReady = 0 /\ Goto("pollReady")
    /\ UNCHANGED <<loop, data, history>>

(* VL53L0X_GetInterruptMaskStatus: the error bits win over a failed read.   *)
MaskStatus(ok, isErr) ==
    IF isErr = 1 THEN "RANGE_ERROR" ELSE IF ok THEN "NONE" ELSE "CONTROL_INTERFACE"

(* VL53L0X_measurement_poll_for_completion.  When the read fails the error *)
(* bits are those of an uninitialised byte.                                *)
PollReady ==
    /\ pc = "pollReady"
    /\ \E ok \in BOOLEAN :
          \E isReady \in ReadBit(ready), isErr \in IF ok THEN ReadBit(err) ELSE {0, 1} :
             /\ Read(ok)
             /\ \/ /\ MaskStatus(ok, isErr) # "NONE"
                   /\ Return(MaskStatus(ok, isErr)) /\ loop' = loop
                \/ /\ MaskStatus(ok, isErr) = "NONE" /\ isReady = 1
                   /\ Goto("readData") /\ loop' = loop
                \/ /\ MaskStatus(ok, isErr) = "NONE" /\ isReady = 0
                   /\ \/ loop + 1 >= MaxLoop /\ Return("TIME_OUT") /\ loop' = loop
                      \/ loop + 1 < MaxLoop /\ Goto("pollReady") /\ loop' = loop + 1
    /\ UNCHANGED <<data, history>>

(* VL53L0X_GetRangingMeasurementData: one burst read of the results... *)
ReadData ==
    /\ pc = "readData"
    /\ \/ /\ Read(TRUE) /\ Goto("limitChecks")
          /\ data' = IF page = 0 THEN result ELSE NoSample
       \/ Read(FALSE) /\ Return("CONTROL_INTERFACE") /\ data' = data
    /\ UNCHANGED <<loop, history>>

(* Mutated: the call ends without ClearInterruptMask. *)
FinishData_NoClear == Return("NONE") /\ loop' = 0

(* ...then VL53L0X_get_pal_range_status.  The sigma and dmax estimates     *)
(* only read; an error in them skips the reference clip check, and no      *)
(* error here survives: Status is overwritten before it is returned.       *)
FinishData == Goto("clear") /\ loop' = 0

LimitChecks ==
    /\ pc = "limitChecks"
    /\ \E ok \in BOOLEAN :
          /\ Read(ok)
          /\ IF ok /\ RefClipCheck
             THEN Goto("refSelect") /\ loop' = loop
             ELSE FinishData
    /\ UNCHANGED <<data, history>>

RefClipSelectPage ==
    /\ pc = "refSelect"
    /\ \/ Write(TRUE, SelectPage(1)) /\ Goto("refRead") /\ loop' = loop
       \/ Write(FALSE, SelectPage(1)) /\ FinishData
    /\ UNCHANGED <<data, history>>

RefClipRead ==
    /\ pc = "refRead"
    /\ \/ Read(TRUE) /\ Goto("refDeselect") /\ loop' = loop
       \/ Read(FALSE) /\ FinishData
    /\ UNCHANGED <<data, history>>

RefClipDeselectPage ==
    /\ pc = "refDeselect"
    /\ \E ok \in BOOLEAN : Write(ok, SelectPage(0))
    /\ FinishData
    /\ UNCHANGED <<data, history>>

(* VL53L0X_ClearInterruptMask: write 1, write 0, read the status back. *)
ClearInterrupt ==
    /\ pc = "clear"
    /\ pc' = "clearStatus"
    /\ \/ Write(TRUE, WriteInterruptClear) /\ status' = "NONE"
       \/ Write(FALSE, WriteInterruptClear) /\ status' = "CONTROL_INTERFACE"
    /\ UNCHANGED <<loop, data, delivered, history>>

ClearReadBack ==
    /\ pc = "clearStatus"
    /\ \E ok \in BOOLEAN, isReady \in {0, 1} :
          LET code == IF ok THEN status ELSE "CONTROL_INTERFACE"
          IN  /\ Read(ok)
              /\ ok => isReady \in ReadBit(ready)
              /\ IF isReady = 1 /\ loop + 1 < MaxClear /\ code = "NONE"
                 THEN Goto("clear") /\ loop' = loop + 1
                 ELSE /\ loop' = loop
                      /\ Return(IF loop + 1 >= MaxClear
                                THEN "INTERRUPT_NOT_CLEARED" ELSE code)
    /\ UNCHANGED <<data, history>>

Call ==
    \/ StartSelectPage \/ StartClearReg0 \/ StartSetReg0 \/ StartDeselectPage
    \/ StartMeasurement \/ PollStartBit \/ PollReady
    \/ ReadData \/ LimitChecks
    \/ RefClipSelectPage \/ RefClipRead \/ RefClipDeselectPage
    \/ ClearInterrupt \/ ClearReadBack

Device == SensorStep /\ UNCHANGED driverVars

Next == Tick \/ Call \/ Device

(* The esp_timer task runs the callback it was given to its end and the    *)
(* periodic timer keeps firing; nothing is assumed of the sensor.          *)
Fairness == WF_vars(Tick) /\ WF_vars(Call)

Spec == Init /\ [][Next]_vars /\ Fairness
-----------------------------------------------------------------------------
(* Properties. *)

Succeeded == pc = "idle" /\ status = "NONE"

(* A call that found the sensor quiet and lost no transfer returns success *)
(* only with a measurement begun after its own start request (the data of  *)
(* GetRangingMeasurementData belong to the StartMeasurement of that call). *)
CleanCallIsFresh == Succeeded /\ found = "quiet" /\ io = "ok" => data > base

(* Such a call also leaves the sensor quiet, so the next one starts clean: *)
(* the interrupt of its measurement is cleared and no start is pending.    *)
CleanCallLeavesQuiet == Succeeded /\ found = "quiet" /\ io = "ok" => SensorQuiet

(* Whatever earlier calls left behind (a time-out, a lost transfer, a late *)
(* sample still latched), a call that loses no transfer itself returns at  *)
(* worst the measurement begun just before its own start request: the poll *)
(* of the start bit waits until the sensor is done with older ones.        *)
AtMostOneBehind == Succeeded /\ io = "ok" => data >= base

(* A register page left selected by an earlier call does not outlive the   *)
(* page switch of StartMeasurement: a call that lost no transfer so far    *)
(* starts, polls and reads on page 0.                                      *)
PageRestored ==
    /\ io = "ok" /\ pc \in {"start", "pollStart", "pollReady", "readData"} => page = 0
    /\ io = "ok" /\ pc = "idle" => page = 0

(* No measurement is handed to sensor_loop() twice: each one a call takes  *)
(* from the result registers with success is newer than the one before.    *)
(* ClearInterruptMask is what guarantees it.                               *)
NoDuplicate ==
    [][Call /\ pc' = "idle" /\ status' = "NONE" /\ data # NoSample
         => data > delivered]_vars

(* Every call returns, though the sensor may never answer: no loop is      *)
(* without its limit, so the esp_timer task is never lost to the sensor.   *)
CallReturns == pc # "idle" ~> pc = "idle"

(* vl53l0x_api.h: "Performs a single ranging measurement and retrieve the  *)
(* ranging measurement data".  The measurement returned with success is    *)
(* the one this call performed, if none of its transfers failed.           *)
ReturnsOwnMeasurement == Succeeded /\ io = "ok" => data > base

(* vl53l0x_def.h: VL53L0X_ERROR_CONTROL_INTERFACE is the "error reported   *)
(* from IO functions".  A call one of whose transfers failed reports it.   *)
IoErrorReported == Succeeded => io = "ok"
=============================================================================
