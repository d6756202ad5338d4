----------------------------- MODULE RangerInit -----------------------------
(***************************************************************************)
(* ranger_init() of src/src/ranger.cpp at every start of the firmware, on  *)
(* a sensor that is not reset with it: the page, the latched interrupt and *)
(* the sequence configuration are whatever the last start left behind.     *)
(*                                                                         *)
(* A group of transfers made under one Status check is one action, with    *)
(* every outcome a failure in the middle of the group can have; steps the  *)
(* sensor must be able to move between are separate.                       *)
(***************************************************************************)
EXTENDS Sensor

CONSTANT MaxBoots       \* bound on the starts of the firmware

ASSUME BootAssumption == MaxBoots \in Nat

VARIABLES
    pc,         \* the next group of transfers, or how ranger_init() ended
    cal,        \* the reference calibration in progress
    io,         \* history: "lost" once a transfer of this start failed
    spads,      \* what the reference SPADs of this start come from
    seqReg,     \* SYSTEM_SEQUENCE_CONFIG in the sensor
    seqSaved,   \* SequenceConfig in the device structure
    boots,      \* history: starts so far
    base        \* history: last measurement begun before this start

driverVars == <<pc, cal, io, spads, seqReg, seqSaved, boots, base>>
sequence == <<seqReg, seqSaved>>
history == <<boots, base>>
vars == <<sensorVars, driverVars>>

(* "all" is 0xFF, "tuned" 0xF8 and "ranging" 0xE8. *)
Sequence == {"reset", "all", "tuned", "ranging", "vhv", "phase", "signal"}

Label == {"stopVariable", "settings", "deviceInfo", "nvm", "spadPage",
          "spadMap", "spadSearch", "tuning", "interrupt", "oscillator",
          "steps", "calSequence", "calStart", "calPoll", "calClear",
          "calStop", "calRead", "restore", "budget", "null", "device"}

TypeOK ==
    /\ SensorTypeOK
    /\ pc \in Label
    /\ cal \in {"vhv", "phase"}
    /\ io \in {"ok", "lost"}
    /\ spads \in {"none", "nvm", "stale", "misplaced", "managed"}
    /\ seqReg \in Sequence
    /\ seqSaved \in Sequence \cup {"none"}
    /\ boots \in Nat
    /\ base \in Nat

(* A start takes longer than a measurement: wifi_init_sta() comes before   *)
(* ranger_init(), so the sensor is back in standby when the driver starts. *)
Init ==
    /\ page \in {0, 1} /\ ready \in {0, 1} /\ err \in {0, 1}
    /\ startBit = 0 /\ phase = "standby" /\ begun = 0 /\ result = 0
    /\ pc = "stopVariable" /\ cal = "vhv" /\ io = "ok" /\ spads = "none"
    /\ seqReg = "reset" /\ seqSaved = "none"
    /\ boots = 1 /\ base = 0

(* A crash at any time, whatever was selected or latched by then. *)
Restart ==
    /\ boots < MaxBoots
    /\ startBit = 0 /\ phase = "standby"
    /\ page' \in {0, 1} /\ ready' \in {0, 1} /\ err' \in {0, 1}
    /\ pc' = "stopVariable" /\ cal' = "vhv" /\ io' = "ok" /\ spads' = "none"
    /\ seqSaved' = "none"
    /\ boots' = boots + 1 /\ base' = begun
    /\ UNCHANGED <<startBit, phase, begun, result, seqReg>>

-----------------------------------------------------------------------------
(* Groups of transfers. *)

Transfer(ok) == io' = IF ok THEN io ELSE "lost"

Proceed(ok, label) == pc' = IF ok THEN label ELSE "null"

(* Mutated: it ends on the page get_info_from_device works on. *)
Block_Page6(ok) ==
    /\ page' \in IF ok THEN {6} ELSE {0, 1}
    /\ startBit' \in {startBit} \cup (IF ok \/ page = 1 \/ page' = 1 THEN {} ELSE {1})
    /\ UNCHANGED <<phase, begun, result, ready, err>>

(* FF=1, 00:=0, work on other pages, 00:=1, FF=0, every write attempted.   *)
(* When the selection of a page is lost 00:=1 is a SYSRANGE_START.         *)
Block(ok) ==
    /\ page' \in IF ok THEN {0} ELSE {0, 1}
    /\ startBit' \in {startBit} \cup (IF ok \/ page = 1 \/ page' = 1 THEN {} ELSE {1})
    /\ UNCHANGED <<phase, begun, result, ready, err>>

(* FF=1, work, FF=0, given up at the first failure. *)
PageVisit(ok) ==
    /\ page' \in IF ok THEN {0} ELSE {0, 1}
    /\ UNCHANGED <<startBit, phase, begun, result, ready, err>>

(* A register write w; one reported as failed may have reached the sensor. *)
Write(ok, w) == w \/ (~ok /\ UNCHANGED sensorVars)

(* SYSTEM_SEQUENCE_CONFIG := s, which is on page 0. *)
WriteSequence(ok, s) ==
    /\ seqReg' \in (IF page = 0 THEN {s} ELSE {seqReg}) \cup (IF ok THEN {} ELSE {seqReg})
    /\ UNCHANGED sensorVars

-----------------------------------------------------------------------------
(* VL53L0X_DataInit.  The status of the write to 0x88 is overwritten, and  *)
(* an error of GetDeviceParameters does not stop the block after it.       *)
ReadStopVariable ==
    /\ pc = "stopVariable"
    /\ \E mode, ok \in BOOLEAN :
          /\ Block(ok) /\ Transfer(mode /\ ok)
          /\ Proceed(ok, "settings")
    /\ UNCHANGED <<cal, spads, sequence, history>>

(* The limit checks, then the sequence configuration, cached before it is  *)
(* written.                                                                *)
DefaultSettings ==
    /\ pc = "settings"
    /\ \E ok \in BOOLEAN :
          /\ WriteSequence(ok, "all") /\ Transfer(ok)
          /\ seqSaved' \in {"all"} \cup (IF ok THEN {} ELSE {seqSaved})
          /\ Proceed(ok, "deviceInfo")
    /\ UNCHANGED <<cal, spads, history>>

(* VL53L0X_GetDeviceInfo, and the revision check: a read strobe that times *)
(* out and another cut end the start too.                                  *)
GetDeviceInfo ==
    /\ pc = "deviceInfo"
    /\ \E ok, accepted \in BOOLEAN :
          /\ Block(ok) /\ Transfer(ok)
          /\ Proceed(ok /\ accepted, "nvm")
    /\ UNCHANGED <<cal, spads, sequence, history>>

-----------------------------------------------------------------------------
(* VL53L0X_StaticInit.  The status of the NVM read is overwritten: without *)
(* it the SPAD count and type are what the device structure held.          *)
ReadNvm ==
    /\ pc = "nvm"
    /\ \E ok, answered \in BOOLEAN :
          /\ Block(ok) /\ Transfer(ok)
          /\ spads' = IF ok /\ answered THEN "nvm" ELSE "stale"
    /\ pc' \in {"spadPage", "spadSearch"}
    /\ UNCHANGED <<cal, sequence, history>>

(* VL53L0X_set_reference_spads: Status of the page visit is overwritten... *)
SpadPage ==
    /\ pc = "spadPage" /\ pc' = "spadMap"
    /\ \E ok \in BOOLEAN : PageVisit(ok) /\ Transfer(ok)
    /\ UNCHANGED <<cal, spads, sequence, history>>

(* ...by that of enable_ref_spads: enough good SPADs, the map written and  *)
(* read back as it was written.                                            *)
SpadMap ==
    /\ pc = "spadMap"
    /\ \E ok, enough \in BOOLEAN : Transfer(ok) /\ Proceed(ok /\ enough, "tuning")
    /\ spads' = IF page = 0 THEN spads ELSE "misplaced"
    /\ UNCHANGED <<sensorVars, cal, sequence, history>>

(* VL53L0X_perform_ref_spad_management, in one step: it calibrates with a  *)
(* latch from the last start still set and measures with ranging calls     *)
(* whose lost transfers are not reported, so only a start from a quiet     *)
(* sensor with no failure leaves a quiet one.  Its measurements count as   *)
(* one.                                                                    *)
SpadSearch ==
    /\ pc = "spadSearch"
    /\ begun' = IF begun < MaxBegun THEN begun + 1 ELSE begun
    /\ page' \in {0, 1} /\ ready' \in {0, 1} /\ err' \in {0, 1}
    /\ startBit' \in {0, 1} /\ phase' \in {"standby", "ranging"}
    /\ phase' = "ranging" => begun' > begun \/ phase = "ranging"
    /\ result' = IF phase' = "ranging" THEN begun' - 1 ELSE begun'
    /\ \E ok, found \in BOOLEAN :
          /\ Transfer(ok) /\ pc' \in {"null"} \cup (IF found THEN {"tuning"} ELSE {})
          /\ pc' = "tuning" => page' = 0 /\ seqReg' = seqSaved
          /\ pc' = "tuning" /\ ok /\ SensorQuiet => SensorQuiet'
    /\ seqReg' \in {seqReg, seqSaved, "vhv", "phase", "signal"}
    /\ spads' = "managed"
    /\ UNCHANGED <<cal, seqSaved, history>>

(* VL53L0X_load_tuning_settings, which writes the sequence configuration   *)
(* among the rest.                                                         *)
LoadTuning ==
    /\ pc = "tuning"
    /\ \E ok \in BOOLEAN :
          /\ PageVisit(ok) /\ Transfer(ok)
          /\ seqReg' \in {"tuned"} \cup (IF ok THEN {} ELSE {seqReg})
          /\ Proceed(ok, "interrupt")
    /\ UNCHANGED <<cal, spads, seqSaved, history>>

(* Mutated: the interrupt is not cleared. *)
ConfigureInterrupt_NoClear ==
    /\ pc = "interrupt"
    /\ \E ok \in BOOLEAN :
          /\ UNCHANGED sensorVars /\ Transfer(ok)
          /\ Proceed(ok, "oscillator")
    /\ UNCHANGED <<cal, spads, sequence, history>>

(* VL53L0X_SetGpioConfig, which ends with ClearInterruptMask; an interrupt *)
(* that does not clear counts as a failed transfer.                        *)
ConfigureInterrupt ==
    /\ pc = "interrupt"
    /\ \E ok \in BOOLEAN :
          /\ Write(ok, WriteInterruptClear) /\ Transfer(ok)
          /\ Proceed(ok, "oscillator")
    /\ UNCHANGED <<cal, spads, sequence, history>>

(* The oscillator word, the parameters, and the sequence configuration     *)
(* that is then saved.                                                     *)
ReadOscillator ==
    /\ pc = "oscillator"
    /\ \E ok \in BOOLEAN :
          /\ PageVisit(ok) /\ Transfer(ok)
          /\ seqSaved' = IF ok THEN seqReg ELSE seqSaved
          /\ Proceed(ok, "steps")
    /\ UNCHANGED <<cal, spads, seqReg, history>>

(* TCC and MSRC off.  SetSequenceStepEnable does not look at the status of *)
(* the timing budget it sets again.                                        *)
DisableSteps ==
    /\ pc = "steps"
    /\ \E ok, budget \in BOOLEAN :
          /\ WriteSequence(ok, "ranging") /\ Transfer(ok /\ budget)
          /\ seqSaved' \in {"ranging"} \cup (IF ok THEN {} ELSE {seqSaved})
          /\ Proceed(ok, "calSequence")
    /\ UNCHANGED <<cal, spads, history>>

-----------------------------------------------------------------------------
(* VL53L0X_PerformRefCalibration: VHV, then phase. *)

CalSequence ==
    /\ pc = "calSequence"
    /\ \E ok \in BOOLEAN :
          WriteSequence(ok, cal) /\ Transfer(ok) /\ Proceed(ok, "calStart")
    /\ UNCHANGED <<cal, spads, seqSaved, history>>

CalStart ==
    /\ pc = "calStart"
    /\ \E ok \in BOOLEAN :
          Write(ok, WriteStart) /\ Transfer(ok) /\ Proceed(ok, "calPoll")
    /\ UNCHANGED <<cal, spads, sequence, history>>

(* Mutated: it polls on as long as no interrupt is latched. *)
CalPoll_NoLimit ==
    /\ pc = "calPoll"
    /\ \E isReady \in ReadBit(ready), isErr \in ReadBit(err) :
          /\ isReady = 1 \/ isErr = 1
          /\ Proceed(isErr = 0, "calClear")
    /\ Transfer(TRUE)
    /\ UNCHANGED <<sensorVars, cal, spads, sequence, history>>

(* Polls that find nothing change nothing; the last of them gives up. *)
CalPoll ==
    /\ pc = "calPoll"
    /\ \E ok \in BOOLEAN :
          \E isReady \in ReadBit(ready), isErr \in IF ok THEN ReadBit(err) ELSE {0, 1} :
             Transfer(ok) /\ Proceed(ok /\ isErr = 0 /\ isReady = 1, "calClear")
    /\ UNCHANGED <<sensorVars, cal, spads, sequence, history>>

(* Mutated: the interrupt of the calibration is left to the next one. *)
CalClear_Dropped ==
    /\ pc = "calClear" /\ pc' = "calStop"
    /\ UNCHANGED <<sensorVars, cal, io, spads, sequence, history>>

CalClear ==
    /\ pc = "calClear"
    /\ \E ok \in BOOLEAN :
          Write(ok, WriteInterruptClear) /\ Transfer(ok) /\ Proceed(ok, "calStop")
    /\ UNCHANGED <<cal, spads, sequence, history>>

CalStop ==
    /\ pc = "calStop"
    /\ \E ok \in BOOLEAN :
          Write(ok, WriteNoStart) /\ Transfer(ok) /\ Proceed(ok, "calRead")
    /\ UNCHANGED <<cal, spads, sequence, history>>

(* VL53L0X_ref_calibration_io *)
CalRead ==
    /\ pc = "calRead"
    /\ \E ok \in BOOLEAN :
          /\ Block(ok) /\ Transfer(ok)
          /\ Proceed(ok, IF cal = "vhv" THEN "calSequence" ELSE "restore")
    /\ cal' = "phase"
    /\ UNCHANGED <<spads, sequence, history>>

(* Mutated: the calibration's sequence configuration stays. *)
RestoreSequence_Dropped ==
    /\ pc = "restore" /\ pc' = "budget"
    /\ UNCHANGED <<sensorVars, cal, io, spads, sequence, history>>

RestoreSequence ==
    /\ pc = "restore"
    /\ \E ok \in BOOLEAN :
          WriteSequence(ok, seqSaved) /\ Transfer(ok) /\ Proceed(ok, "budget")
    /\ UNCHANGED <<cal, spads, seqSaved, history>>

(* The device mode, the two limits and the timing budget. *)
SetBudget ==
    /\ pc = "budget"
    /\ \E ok \in BOOLEAN : Transfer(ok) /\ Proceed(ok, "device")
    /\ UNCHANGED <<sensorVars, cal, spads, sequence, history>>

StaticInit ==
    \/ ReadNvm \/ SpadPage \/ SpadMap \/ SpadSearch
    \/ LoadTuning \/ ConfigureInterrupt \/ ReadOscillator \/ DisableSteps

RefCalibration ==
    \/ CalSequence \/ CalStart \/ CalPoll \/ CalClear \/ CalStop \/ CalRead
    \/ RestoreSequence

Driver ==
    \/ ReadStopVariable \/ DefaultSettings \/ GetDeviceInfo
    \/ StaticInit \/ RefCalibration \/ SetBudget

Device == SensorStep /\ UNCHANGED driverVars

Next == Driver \/ Device \/ Restart

(* The app_main task runs ranger_init() to its end unless it crashes. *)
Fairness == WF_vars(Driver)

Spec == Init /\ [][Next]_vars /\ Fairness
-----------------------------------------------------------------------------
(* Properties. *)

(* Whatever an earlier start left behind, and whatever failed without a    *)
(* report in this one, a device ranger_init() returns is on page 0 and has *)
(* the ranging sequence configuration the driver believes it has, never    *)
(* that of a calibration.                                                  *)
HandedOutConfigured ==
    pc = "device" => page = 0 /\ seqReg = seqSaved /\ seqReg = "ranging"

(* With no failure the device is also as SingleRanging takes it to be:     *)
(* both calibrations began and ended, no interrupt of theirs or of an      *)
(* earlier start is latched and no start is pending.                       *)
HandedOutQuiet ==
    pc = "device" /\ io = "ok" /\ spads = "nvm" => SensorQuiet /\ begun = base + 2

(* Even with failures nobody reported, a device that is handed out is in a *)
(* state SingleRanging starts from: what a lost transfer left is at most   *)
(* two requests, measurements or latches, never on another page.           *)
HandedOutToRanging == pc = "device" => SensorHandedOut

(* ranger_init() comes back, with a device or without, even from a sensor  *)
(* that never answers.                                                     *)
InitReturns == pc = "stopVariable" ~> pc \in {"null", "device"}

(* vl53l0x_api.c: "set the ref spad from NVM".  A device that is returned  *)
(* uses the SPADs of the NVM, or those of the search made when they are    *)
(* not valid.                                                              *)
SpadsFromNvm == pc = "device" => spads \in {"nvm", "managed"}
=============================================================================
