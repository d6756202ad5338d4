-------------------------- MODULE RangerInit_proof --------------------------
(***************************************************************************)
(* Proofs about RangerInit, for every number of starts and measurements.   *)
(***************************************************************************)
EXTENDS RangerInit, TLAPS

-----------------------------------------------------------------------------
(* Type correctness. *)

(* SequenceConfig is written back to the sensor only once it is set. *)
SavedInv == pc \notin {"stopVariable", "settings", "null"} => seqSaved \in Sequence

TypeInv == TypeOK /\ SavedInv /\ ResultIsLast

LEMMA TypeStep == TypeInv /\ [Next]_vars => TypeInv'
<1> SUFFICES ASSUME TypeInv, [Next]_vars
             PROVE  TypeInv'
  OBVIOUS
<1> USE DEF TypeInv, TypeOK, SensorTypeOK, SavedInv, ResultIsLast, Label, Sequence, Transfer, Proceed,
            Block, PageVisit, WriteSequence, Write, sequence, history, sensorVars
<1>1. CASE ReadStopVariable
  BY <1>1 DEF ReadStopVariable
<1>2. CASE GetDeviceInfo
  BY <1>2 DEF GetDeviceInfo
<1>3. CASE DefaultSettings
  BY <1>3 DEF DefaultSettings
<1>4. CASE ReadNvm
  BY <1>4 DEF ReadNvm
<1>5. CASE SpadPage \/ SpadMap
  BY <1>5 DEF SpadPage, SpadMap
<1>6. CASE SpadSearch
  <2>1. pc' \in {"null", "tuning"} /\ io' \in {io, "lost"}
    BY <1>6 DEF SpadSearch
  <2>2. begun' \in Nat
    BY <1>6, MaxBegunAssumption DEF SpadSearch
  <2>3. ResultIsLast' /\ result' \in Nat
    BY <1>6, <2>2 DEF SpadSearch
  <2>4. /\ page' \in {0, 1} /\ ready' \in {0, 1} /\ err' \in {0, 1}
        /\ startBit' \in {0, 1} /\ phase' \in {"standby", "ranging"}
        /\ spads' = "managed" /\ UNCHANGED <<cal, seqSaved, boots, base>>
    BY <1>6 DEF SpadSearch
  <2>5. seqSaved \in Sequence
    BY <1>6 DEF SpadSearch
  <2>6. seqReg' \in Sequence
    BY <1>6, <2>5 DEF SpadSearch
  <2> QED
    BY <2>1, <2>2, <2>3, <2>4, <2>5, <2>6
<1>7. CASE LoadTuning
  BY <1>7 DEF LoadTuning
<1>8. CASE ReadOscillator
  BY <1>8 DEF ReadOscillator
<1>9. CASE ConfigureInterrupt
  BY <1>9 DEF ConfigureInterrupt, WriteInterruptClear
<1>10. CASE DisableSteps
  <2>1. PICK ok \in BOOLEAN, budget \in BOOLEAN :
          /\ WriteSequence(ok, "ranging") /\ Transfer(ok /\ budget)
          /\ seqSaved' \in {"ranging"} \cup (IF ok THEN {} ELSE {seqSaved})
          /\ Proceed(ok, "calSequence")
    BY <1>10 DEF DisableSteps
  <2>2. pc = "steps" /\ UNCHANGED <<cal, spads, boots, base>>
    BY <1>10 DEF DisableSteps
  <2>3. io' \in {io, "lost"}
    BY <2>1
  <2>4. seqReg' \in Sequence /\ seqSaved' \in Sequence /\ pc' \in Label
    BY <2>1, <2>2
  <2>5. UNCHANGED sensorVars
    BY <2>1
  <2> QED
    BY <2>2, <2>3, <2>4, <2>5
<1>11. CASE CalSequence
  BY <1>11 DEF CalSequence
<1>12. CASE CalStart
  BY <1>12 DEF CalStart, WriteStart
<1>13. CASE CalPoll
  BY <1>13 DEF CalPoll
<1>14. CASE CalClear
  BY <1>14 DEF CalClear, WriteInterruptClear
<1>15. CASE CalStop
  BY <1>15 DEF CalStop, WriteNoStart
<1>16. CASE CalRead
  BY <1>16 DEF CalRead
<1>17. CASE RestoreSequence
  BY <1>17 DEF RestoreSequence
<1>18. CASE SetBudget
  BY <1>18 DEF SetBudget
<1>19. CASE Device
  BY <1>19 DEF Device, driverVars, SensorStep, BeginMeasurement, EndMeasurement
<1>20. CASE Restart
  BY <1>20 DEF Restart
<1>21. CASE UNCHANGED vars
  BY <1>21 DEF vars, driverVars
<1> QED
  BY <1>1, <1>2, <1>3, <1>4, <1>5, <1>6, <1>7, <1>8, <1>9, <1>10, <1>11,
     <1>12, <1>13, <1>14, <1>15, <1>16, <1>17, <1>18, <1>19, <1>20, <1>21
  DEF Next, Driver, StaticInit, RefCalibration

LEMMA TypeInvariant == Spec => []TypeInv
<1>1. Init => TypeInv
  BY DEF Init, TypeInv, TypeOK, SensorTypeOK, SavedInv, ResultIsLast, Label, Sequence
<1> QED
  BY <1>1, TypeStep, PTL DEF Spec

(* Every step of ranger_init(), of the sensor and of a restart keeps each  *)
(* variable in its range.                                                  *)
THEOREM TypeCorrect == Spec => []TypeOK
<1>1. TypeInv => TypeOK
  BY DEF TypeInv
<1> QED
  BY <1>1, TypeInvariant, PTL

-----------------------------------------------------------------------------
(* The configuration of a device that is handed out. *)

Calibrating == {"calSequence", "calStart", "calPoll", "calClear", "calStop", "calRead"}
Restored == {"budget", "device"}
Tuned == {"interrupt", "oscillator", "steps", "restore"} \cup Calibrating \cup Restored

(* LoadTuning ends on page 0 and every later page switch is checked, so    *)
(* the writes of the sequence configuration from then on land.             *)
ConfigInv ==
    /\ pc \in Tuned => page = 0
    /\ pc \in Calibrating \cup Restored \cup {"restore"} => seqSaved = "ranging"
    /\ pc \in Restored => seqReg = "ranging"

LEMMA ConfigInvariant == Spec => []ConfigInv
<1> USE DEF ConfigInv, Tuned, Restored, Calibrating
<1>1. Init => ConfigInv
  BY DEF Init
<1>2. ConfigInv /\ [Next]_vars => ConfigInv'
  <2> SUFFICES ASSUME ConfigInv, [Next]_vars
               PROVE  ConfigInv'
    OBVIOUS
  <2> USE DEF Transfer, Proceed, Block, PageVisit, WriteSequence, Write,
              sequence, history, sensorVars
  <2>1. CASE ReadStopVariable \/ GetDeviceInfo
    BY <2>1 DEF ReadStopVariable, GetDeviceInfo
  <2>2. CASE DefaultSettings
    BY <2>2 DEF DefaultSettings
  <2>3. CASE ReadNvm \/ SpadPage \/ SpadMap
    BY <2>3 DEF ReadNvm, SpadPage, SpadMap
  <2>4. CASE SpadSearch
    BY <2>4 DEF SpadSearch
  <2>5. CASE LoadTuning \/ ReadOscillator
    BY <2>5 DEF LoadTuning, ReadOscillator
  <2>6. CASE ConfigureInterrupt \/ CalClear
    BY <2>6 DEF ConfigureInterrupt, CalClear, WriteInterruptClear
  <2>7. CASE DisableSteps
    BY <2>7 DEF DisableSteps
  <2>8. CASE CalSequence \/ RestoreSequence \/ SetBudget
    BY <2>8 DEF CalSequence, RestoreSequence, SetBudget
  <2>9. CASE CalStart \/ CalStop
    BY <2>9 DEF CalStart, CalStop, WriteStart, WriteNoStart
  <2>10. CASE CalPoll \/ CalRead
    BY <2>10 DEF CalPoll, CalRead
  <2>11. CASE Device
    BY <2>11 DEF Device, driverVars, SensorStep, BeginMeasurement, EndMeasurement
  <2>12. CASE Restart
    BY <2>12 DEF Restart
  <2>13. CASE UNCHANGED vars
    BY <2>13 DEF vars, driverVars
  <2> QED
    BY <2>1, <2>2, <2>3, <2>4, <2>5, <2>6, <2>7, <2>8, <2>9, <2>10, <2>11,
       <2>12, <2>13 DEF Next, Driver, StaticInit, RefCalibration
<1> QED
  BY <1>1, <1>2, PTL DEF Spec

(* A device is handed out on page 0 with the ranging sequence, whatever an *)
(* earlier start left behind and whatever failed unreported in this one.   *)
THEOREM DeviceConfigured == Spec => []HandedOutConfigured
<1>1. ConfigInv => HandedOutConfigured
  BY DEF ConfigInv, HandedOutConfigured, Tuned, Restored, Calibrating
<1> QED
  BY <1>1, ConfigInvariant, PTL

-----------------------------------------------------------------------------
(* A start without a failure. *)

Preparing == {"stopVariable", "settings", "deviceInfo", "nvm", "spadPage",
              "spadMap", "spadSearch", "tuning", "interrupt"}

(* Nothing of a calibration is under way; n calibrations are done. *)
AtRest(n) == startBit = 0 /\ phase = "standby" /\ begun = base + n

Before == IF cal = "vhv" THEN 0 ELSE 1

(* The start request is taken up at most once between two polls.           *)
Underway ==
    \/ startBit = 1 /\ phase = "standby" /\ begun = base + Before /\ ready = 0
    \/ startBit = 0 /\ phase = "ranging" /\ begun = base + Before + 1 /\ ready = 0
    \/ AtRest(Before + 1)

(* A latch of an earlier start may last until ConfigureInterrupt clears it *)
(* but none is left when the first calibration is started.                 *)
CleanInv ==
    /\ pc \in Preparing \cup {"oscillator", "steps"} => cal = "vhv"
    /\ pc \in {"stopVariable", "settings", "deviceInfo", "nvm"} => spads = "none"
    /\ io = "ok" /\ spads \in {"none", "nvm"} =>
         /\ pc \in Preparing => AtRest(0)
         /\ pc \in {"oscillator", "steps"} => AtRest(0) /\ ready = 0
         /\ pc \in {"calSequence", "calStart"} =>
              AtRest(Before) /\ ready = 0
         /\ pc = "calPoll" => Underway
         /\ pc = "calClear" => AtRest(Before + 1) /\ err = 0
         /\ pc \in {"calStop", "calRead"} =>
              AtRest(Before + 1) /\ ready = 0 /\ err = 0
         /\ pc \in {"restore"} \cup Restored => AtRest(2) /\ ready = 0 /\ err = 0

LEMMA CleanStep ==
    TypeOK /\ ConfigInv /\ CleanInv /\ [Next]_vars => CleanInv'
<1> SUFFICES ASSUME TypeOK, ConfigInv, CleanInv, [Next]_vars
             PROVE  CleanInv'
  OBVIOUS
<1> USE DEF TypeOK, SensorTypeOK, CleanInv, Preparing, AtRest, Restored, Before,
            Transfer, Proceed, Block, PageVisit, WriteSequence, Write,
            sequence, history, sensorVars
<1>1. CASE ReadStopVariable \/ DefaultSettings \/ GetDeviceInfo
  BY <1>1 DEF ReadStopVariable, DefaultSettings, GetDeviceInfo
<1>2. CASE ReadNvm \/ SpadPage \/ SpadMap
  <2>1. CASE ReadNvm
    <3>1. PICK ok \in BOOLEAN, answered \in BOOLEAN :
            /\ Block(ok) /\ Transfer(ok)
            /\ spads' = IF ok /\ answered THEN "nvm" ELSE "stale"
      BY <2>1 DEF ReadNvm
    <3>2. pc = "nvm" /\ pc' \in {"spadPage", "spadSearch"} /\ UNCHANGED <<cal, boots, base>>
      BY <2>1 DEF ReadNvm
    <3>3. spads' = "nvm" => ok
      BY <3>1
    <3>4. ok => io' = io /\ startBit' = startBit
      BY <3>1
    <3>5. UNCHANGED <<phase, begun>>
      BY <3>1
    <3>6. spads' \in {"nvm", "stale"}
      BY <3>1
    <3>7. /\ spads' = "nvm" => UNCHANGED <<io, startBit, phase, begun, base>>
          /\ pc' \in Preparing /\ cal' = "vhv"
      BY <3>2, <3>3, <3>4, <3>5
    <3> QED
      BY <3>2, <3>6, <3>7
  <2>2. CASE SpadPage
    BY <2>2 DEF SpadPage
  <2>3. CASE SpadMap
    BY <2>3 DEF SpadMap
  <2> QED
    BY <1>2, <2>1, <2>2, <2>3
<1>3. CASE SpadSearch
  BY <1>3 DEF SpadSearch
<1>4. CASE LoadTuning
  BY <1>4 DEF LoadTuning
<1>5. CASE ConfigureInterrupt
  BY <1>5 DEF ConfigureInterrupt, WriteInterruptClear, ConfigInv, Tuned
<1>6. CASE ReadOscillator \/ DisableSteps
  BY <1>6 DEF ReadOscillator, DisableSteps
<1>7. CASE CalSequence
  BY <1>7 DEF CalSequence
<1>8. CASE CalStart
  <2>1. page = 0
    BY <1>8 DEF CalStart, ConfigInv, Tuned, Calibrating
  <2>2. pc' = "calPoll" => startBit' = 1
    BY <1>8, <2>1 DEF CalStart, WriteStart
  <2>3. UNCHANGED <<phase, begun, ready, cal, spads, base>>
    BY <1>8 DEF CalStart, WriteStart
  <2>4. pc = "calStart" /\ pc' \in {"calPoll", "null"} /\ (io' = "ok" => io = "ok")
    BY <1>8 DEF CalStart
  <2> QED
    BY <2>2, <2>3, <2>4 DEF Underway
<1>9. CASE CalPoll
  <2>1. page = 0
    BY <1>9 DEF CalPoll, ConfigInv, Tuned, Calibrating
  <2>2. pc' = "calClear" => io' = io /\ ready = 1 /\ err = 0
    BY <1>9, <2>1 DEF CalPoll, ReadBit
  <2>3. pc' \in {"calClear", "null"} /\ UNCHANGED <<sensorVars, cal, spads, base>>
    BY <1>9 DEF CalPoll
  <2>4. pc = "calPoll"
    BY <1>9 DEF CalPoll
  <2> QED
    BY <2>2, <2>3, <2>4 DEF Underway
<1>10. CASE CalClear
  BY <1>10 DEF CalClear, WriteInterruptClear, ConfigInv, Tuned, Calibrating
<1>11. CASE CalStop
  BY <1>11 DEF CalStop, WriteNoStart
<1>12. CASE CalRead
  BY <1>12 DEF CalRead
<1>13. CASE RestoreSequence \/ SetBudget
  BY <1>13 DEF RestoreSequence, SetBudget
<1>14. CASE Device
  BY <1>14 DEF Device, driverVars, SensorStep, BeginMeasurement, EndMeasurement,
               Label, Underway
<1>15. CASE Restart
  BY <1>15 DEF Restart
<1>16. CASE UNCHANGED vars
  BY <1>16 DEF vars, driverVars, Underway
<1> QED
  BY <1>1, <1>2, <1>3, <1>4, <1>5, <1>6, <1>7, <1>8, <1>9, <1>10, <1>11,
     <1>12, <1>13, <1>14, <1>15, <1>16 DEF Next, Driver, StaticInit, RefCalibration

LEMMA CleanInvariant == Spec => []CleanInv
<1>1. Init => CleanInv
  BY DEF Init, CleanInv, Preparing, AtRest, Restored
<1> QED
  BY <1>1, CleanStep, TypeCorrect, ConfigInvariant, PTL DEF Spec

(* A start without a failure hands the device out with both calibrations   *)
(* done, the sensor idle and nothing latched: where SingleRanging begins.  *)
THEOREM DeviceQuiet == Spec => []HandedOutQuiet
<1>1. CleanInv => HandedOutQuiet
  BY DEF CleanInv, HandedOutQuiet, Restored, AtRest, SensorQuiet
<1> QED
  BY <1>1, CleanInvariant, PTL

-----------------------------------------------------------------------------
(* What a start leaves to SingleRanging. *)

(* The sensor adds nothing: a request becomes a measurement, that a latch. *)
(* CalPoll goes on only with the ready bit latched and no error, so three  *)
(* of the four at most, and CalClear takes the ready bit away.             *)
OutstandingInv ==
    /\ pc = "calClear" => ready = 1 /\ Outstanding <= 3
    /\ pc \in {"calStop", "calRead", "restore"} \cup Restored => Outstanding <= 2

LEMMA OutstandingStep ==
    TypeInv /\ ConfigInv /\ OutstandingInv /\ [Next]_vars => OutstandingInv'
<1> SUFFICES ASSUME TypeInv, ConfigInv, OutstandingInv, [Next]_vars
             PROVE  OutstandingInv'
  OBVIOUS
<1> USE DEF TypeInv, TypeOK, SensorTypeOK, OutstandingInv, Restored, Outstanding,
            Transfer, Proceed, Block, PageVisit, WriteSequence, Write,
            sequence, history, sensorVars
<1>1. CASE ReadStopVariable \/ DefaultSettings \/ GetDeviceInfo
  BY <1>1 DEF ReadStopVariable, DefaultSettings, GetDeviceInfo
<1>2. CASE StaticInit
  <2>1. pc' \in {"null", "spadPage", "spadSearch", "spadMap", "tuning",
                 "interrupt", "oscillator", "steps", "calSequence"}
    BY <1>2 DEF StaticInit, ReadNvm, SpadPage, SpadMap, SpadSearch, LoadTuning,
                ConfigureInterrupt, ReadOscillator, DisableSteps
  <2> QED
    BY <2>1
<1>3. CASE CalSequence \/ CalStart
  BY <1>3 DEF CalSequence, CalStart
<1>4. CASE CalPoll
  <2>1. pc = "calPoll" /\ page = 0
    BY <1>4 DEF CalPoll, ConfigInv, Tuned, Calibrating
  <2>2. pc' = "calClear" => ready = 1 /\ err = 0
    BY <1>4, <2>1 DEF CalPoll, ReadBit
  <2>3. pc' \in {"calClear", "null"} /\ UNCHANGED sensorVars
    BY <1>4 DEF CalPoll
  <2> QED
    BY <2>2, <2>3
<1>5. CASE CalClear
  BY <1>5 DEF CalClear, WriteInterruptClear, ConfigInv, Tuned, Calibrating
<1>6. CASE CalStop
  BY <1>6 DEF CalStop, WriteNoStart
<1>7. CASE CalRead
  BY <1>7 DEF CalRead
<1>8. CASE RestoreSequence \/ SetBudget
  BY <1>8 DEF RestoreSequence, SetBudget
<1>9. CASE Device
  BY <1>9 DEF Device, driverVars, SensorStep, BeginMeasurement, EndMeasurement
<1>10. CASE Restart
  BY <1>10 DEF Restart
<1>11. CASE UNCHANGED vars
  BY <1>11 DEF vars, driverVars
<1> QED
  BY <1>1, <1>2, <1>3, <1>4, <1>5, <1>6, <1>7, <1>8, <1>9, <1>10, <1>11
  DEF Next, Driver, RefCalibration

(* Whatever failed without a report, SingleRanging's initial states cover  *)
(* the device that is handed out.                                          *)
THEOREM DeviceForRanging == Spec => []HandedOutToRanging
<1>1. Init => OutstandingInv
  BY DEF Init, OutstandingInv, Restored
<1>2. TypeInv /\ ConfigInv /\ OutstandingInv => HandedOutToRanging
  BY DEF TypeInv, ConfigInv, OutstandingInv, HandedOutToRanging, SensorHandedOut,
         Tuned, Restored
<1> QED
  BY <1>1, <1>2, OutstandingStep, TypeInvariant, ConfigInvariant, PTL DEF Spec
=============================================================================
