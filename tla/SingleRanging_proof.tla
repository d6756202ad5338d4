------------------------- MODULE SingleRanging_proof -------------------------
(***************************************************************************)
(* Proofs about SingleRanging, for every value of its constants.           *)
(***************************************************************************)
EXTENDS SingleRanging, TLAPS

(* The type invariant: every step of the driver and of the sensor keeps    *)
(* each variable in its range.                                             *)
THEOREM TypeCorrect == Spec => []TypeOK
<1> USE DEF TypeOK, SensorTypeOK
<1>1. Init => TypeOK
  BY DEF Init, SensorInit, SensorHandedOut, Label, Status, NoSample
<1>2. TypeOK /\ [Next]_vars => TypeOK'
  <2> SUFFICES ASSUME TypeOK, [Next]_vars PROVE TypeOK'
    OBVIOUS
  <2> USE DEF Label, Status, NoSample, history, sensorVars, driverVars
  <2>1. CASE Tick
    BY <2>1 DEF Tick, SensorQuiet
  <2>2. CASE StartSelectPage
    BY <2>2 DEF StartSelectPage, Transfer, Write, SelectPage, Goto
  <2>3. CASE StartClearReg0
    BY <2>3 DEF StartClearReg0, Transfer, Write, WriteNoStart, Goto
  <2>4. CASE StartSetReg0
    BY <2>4 DEF StartSetReg0, Transfer, Write, WriteStart, Goto
  <2>5. CASE StartDeselectPage
    BY <2>5 DEF StartDeselectPage, Transfer, Write, SelectPage, Goto
  <2>6. CASE StartMeasurement
    BY <2>6 DEF StartMeasurement, Transfer, Write, Read, WriteStart, Goto, Return
  <2>7. CASE PollStartBit
    BY <2>7 DEF PollStartBit, Transfer, Write, Read, Goto, Return
  <2>8. CASE PollReady
    BY <2>8 DEF PollReady, MaskStatus, Transfer, Write, Read, Goto, Return
  <2>9. CASE ReadData
    BY <2>9 DEF ReadData, Transfer, Write, Read, Goto, Return
  <2>10. CASE LimitChecks
    BY <2>10 DEF LimitChecks, Transfer, Write, Read, Goto, FinishData
  <2>11. CASE RefClipSelectPage
    BY <2>11 DEF RefClipSelectPage, Transfer, Write, Read, SelectPage, Goto, FinishData
  <2>12. CASE RefClipRead
    BY <2>12 DEF RefClipRead, Transfer, Write, Read, Goto, FinishData
  <2>13. CASE RefClipDeselectPage
    BY <2>13 DEF RefClipDeselectPage, Transfer, Write, Read, SelectPage, Goto, FinishData
  <2>14. CASE ClearInterrupt
    BY <2>14 DEF ClearInterrupt, Transfer, Write, Read, WriteInterruptClear
  <2>15. CASE ClearReadBack
    BY <2>15 DEF ClearReadBack, Transfer, Write, Read, Goto, Return
  <2>16. CASE Device
    BY <2>16 DEF Device, SensorStep, BeginMeasurement, EndMeasurement
  <2>17. CASE UNCHANGED vars
    BY <2>17 DEF vars
  <2> QED
    BY <2>1, <2>2, <2>3, <2>4, <2>5, <2>6, <2>7, <2>8, <2>9, <2>10, <2>11,
       <2>12, <2>13, <2>14, <2>15, <2>16, <2>17 DEF Next, Call
<1> QED
  BY <1>1, <1>2, PTL DEF Spec
-----------------------------------------------------------------------------
(* The inductive invariant, part by part. *)

PageSwitched == {"clearStart", "setStart", "deselectPage"}
RefClipOpen == {"refRead", "refDeselect"}
HasData == {"limitChecks", "refSelect", "refRead", "refDeselect", "clear",
            "clearStatus"}

(* While no transfer of the call was lost, its place tells the page. *)
PageKnown ==
    io = "ok" =>
      /\ pc \in PageSwitched \cup RefClipOpen => page = 1
      /\ pc \notin PageSwitched \cup RefClipOpen \cup {"selectPage"} => page = 0

(* How far the sensor is with the request of a call that lost no transfer. *)
RequestServed ==
    io = "ok" =>
      /\ pc = "pollStart" => begun >= base /\ (begun > base \/ startBit = 1)
      /\ pc \in {"pollReady", "readData"} => begun > base
      /\ pc \in HasData \/ Succeeded => data >= base

(* The sensor has the request of this call and nothing else to do. *)
OwnRequest ==
    \/ startBit = 1 /\ phase = "standby" /\ begun = base /\ ready = 0 /\ err = 0
    \/ startBit = 0 /\ phase = "ranging" /\ begun = base + 1 /\ ready = 0 /\ err = 0
    \/ startBit = 0 /\ phase = "standby" /\ begun = base + 1

(* The same for a call that also found the sensor quiet. *)
CleanCall ==
    io = "ok" /\ found = "quiet" =>
      /\ pc \in PageSwitched \cup {"selectPage", "start"} => SensorQuiet
      /\ pc \in {"pollStart", "pollReady"} => OwnRequest
      /\ pc \in HasData \cup {"readData"} =>
           /\ startBit = 0 /\ phase = "standby" /\ err = 0
           /\ begun = base + 1
      /\ pc \in HasData => data = base + 1
      /\ pc = "clearStatus" => ready = 0
      /\ Succeeded => SensorQuiet /\ data = base + 1

CallInv == ResultIsLast /\ PageKnown /\ RequestServed /\ CleanCall

LEMMA CallInvStep == TypeOK /\ CallInv /\ [Next]_vars => CallInv'
  <1> SUFFICES ASSUME TypeOK, CallInv, [Next]_vars PROVE CallInv'
    OBVIOUS
  <1> USE DEF TypeOK, SensorTypeOK, CallInv, ResultIsLast, PageKnown,
              RequestServed, CleanCall, OwnRequest, SensorQuiet, Succeeded,
              PageSwitched, RefClipOpen, HasData, Label, NoSample,
              sensorVars, driverVars, history
  <1>1. CASE Tick
    BY <1>1 DEF Tick
  <1>2. CASE StartSelectPage
    BY <1>2 DEF StartSelectPage, Transfer, Write, SelectPage, Goto
  <1>3. CASE StartClearReg0
    BY <1>3 DEF StartClearReg0, Transfer, Write, WriteNoStart, Goto
  <1>4. CASE StartSetReg0
    BY <1>4 DEF StartSetReg0, Transfer, Write, WriteStart, Goto
  <1>5. CASE StartDeselectPage
    BY <1>5 DEF StartDeselectPage, Transfer, Write, SelectPage, Goto
  <1>6. CASE StartMeasurement
    BY <1>6 DEF StartMeasurement, Transfer, Write, Read, WriteStart, Goto, Return
  <1>7. CASE PollStartBit
    BY <1>7 DEF PollStartBit, Transfer, Write, Read, ReadBit, Goto, Return
  <1>8. CASE PollReady
    BY <1>8 DEF PollReady, MaskStatus, Transfer, Write, Read, ReadBit, Goto, Return
  <1>9. CASE ReadData
    BY <1>9 DEF ReadData, Transfer, Write, Read, Goto, Return
  <1>10. CASE LimitChecks
    BY <1>10 DEF LimitChecks, Transfer, Write, Read, Goto, FinishData
  <1>11. CASE RefClipSelectPage
    BY <1>11 DEF RefClipSelectPage, Transfer, Write, Read, SelectPage, Goto, FinishData
  <1>12. CASE RefClipRead
    BY <1>12 DEF RefClipRead, Transfer, Write, Read, Goto, FinishData
  <1>13. CASE RefClipDeselectPage
    BY <1>13 DEF RefClipDeselectPage, Transfer, Write, Read, SelectPage, Goto, FinishData
  <1>14. CASE ClearInterrupt
    BY <1>14 DEF ClearInterrupt, Transfer, Write, Read, WriteInterruptClear
  <1>15. CASE ClearReadBack
    BY <1>15 DEF ClearReadBack, Transfer, Write, Read, ReadBit, Goto, Return
  <1>16. CASE Device
    BY <1>16 DEF Device, SensorStep, BeginMeasurement, EndMeasurement
  <1>17. CASE UNCHANGED vars
    BY <1>17 DEF vars
  <1> QED
    BY <1>1, <1>2, <1>3, <1>4, <1>5, <1>6, <1>7, <1>8, <1>9, <1>10, <1>11,
       <1>12, <1>13, <1>14, <1>15, <1>16, <1>17 DEF Next, Call

LEMMA CallInvInit == Init => CallInv
  BY DEF Init, SensorInit, SensorHandedOut, CallInv, ResultIsLast, PageKnown, RequestServed,
         CleanCall, PageSwitched, RefClipOpen, HasData, Succeeded

LEMMA CallInvariant == Spec => []CallInv
  <1>1. QED
    BY CallInvInit, CallInvStep, TypeCorrect, PTL DEF Spec

(* A clean call that found the sensor quiet returns its own measurement.   *)
THEOREM CleanCallFresh == Spec => []CleanCallIsFresh
  <1>1. TypeOK /\ CallInv => CleanCallIsFresh
    BY DEF TypeOK, CallInv, CleanCall, CleanCallIsFresh
  <1> QED
    BY <1>1, TypeCorrect, CallInvariant, PTL

(* It leaves the sensor quiet, so clean calls stay fresh one after another. *)
THEOREM CleanCallQuiet == Spec => []CleanCallLeavesQuiet
  <1>1. CallInv => CleanCallLeavesQuiet
    BY DEF CallInv, CleanCall, CleanCallLeavesQuiet
  <1> QED
    BY <1>1, CallInvariant, PTL

(* Whatever happened before, a clean call is at most one measurement late. *)
THEOREM OneBehind == Spec => []AtMostOneBehind
  <1>1. CallInv => AtMostOneBehind
    BY DEF CallInv, RequestServed, AtMostOneBehind
  <1> QED
    BY <1>1, CallInvariant, PTL

(* A page left selected by an earlier call does not reach this one's       *)
(* start request.                                                          *)
THEOREM PageRecovers == Spec => []PageRestored
  <1>1. CallInv => PageRestored
    BY DEF CallInv, PageKnown, PageRestored, PageSwitched, RefClipOpen
  <1> QED
    BY <1>1, CallInvariant, PTL

-----------------------------------------------------------------------------
(* With the reference clip check off (as the application leaves it) the    *)
(* page cannot change between reading a sample and clearing its interrupt, *)
(* so a latched interrupt always announces a sample not yet delivered.     *)

DeliveredInv ==
    /\ pc \notin {"refSelect", "refRead", "refDeselect"}
    /\ delivered <= result
    /\ data <= result
    /\ ready = 1 => result > delivered
    /\ pc = "readData" /\ page = 0 => ready = 1
    /\ pc \in HasData /\ data # NoSample => data > delivered /\ page = 0

LEMMA DeliveredInit == Init => DeliveredInv
  BY DEF Init, SensorInit, SensorHandedOut, ResultIsLast, DeliveredInv, HasData, NoSample

LEMMA DeliveredStep ==
  ASSUME RefClipCheck = FALSE, TypeOK, ResultIsLast, DeliveredInv, [Next]_vars
  PROVE  DeliveredInv'
  <1> USE RefClipCheck = FALSE
      DEF TypeOK, SensorTypeOK, ResultIsLast, DeliveredInv, HasData, Label,
          NoSample, sensorVars, driverVars, history
  <1>1. CASE Tick
    BY <1>1 DEF Tick
  <1>2. CASE StartSelectPage
    BY <1>2 DEF StartSelectPage, Transfer, Write, SelectPage, Goto
  <1>3. CASE StartClearReg0
    BY <1>3 DEF StartClearReg0, Transfer, Write, WriteNoStart, Goto
  <1>4. CASE StartSetReg0
    BY <1>4 DEF StartSetReg0, Transfer, Write, WriteStart, Goto
  <1>5. CASE StartDeselectPage
    BY <1>5 DEF StartDeselectPage, Transfer, Write, SelectPage, Goto
  <1>6. CASE StartMeasurement
    BY <1>6 DEF StartMeasurement, Transfer, Write, Read, WriteStart, Goto, Return
  <1>7. CASE PollStartBit
    BY <1>7 DEF PollStartBit, Transfer, Write, Read, ReadBit, Goto, Return
  <1>8. CASE PollReady
    BY <1>8 DEF PollReady, MaskStatus, Transfer, Write, Read, ReadBit, Goto, Return
  <1>9. CASE ReadData
    BY <1>9 DEF ReadData, Transfer, Write, Read, Goto, Return
  <1>10. CASE LimitChecks
    BY <1>10 DEF LimitChecks, Transfer, Write, Read, Goto, FinishData
  <1>11. CASE RefClipSelectPage
    BY <1>11 DEF RefClipSelectPage, Transfer, Write, Read, SelectPage, Goto, FinishData
  <1>12. CASE RefClipRead
    BY <1>12 DEF RefClipRead, Transfer, Write, Read, Goto, FinishData
  <1>13. CASE RefClipDeselectPage
    BY <1>13 DEF RefClipDeselectPage, Transfer, Write, Read, SelectPage, Goto, FinishData
  <1>14. CASE ClearInterrupt
    BY <1>14 DEF ClearInterrupt, Transfer, Write, Read, WriteInterruptClear
  <1>15. CASE ClearReadBack
    BY <1>15, LoopAssumption DEF ClearReadBack, Transfer, Write, Read, ReadBit, Goto, Return
  <1>16. CASE Device
    BY <1>16 DEF Device, SensorStep, BeginMeasurement, EndMeasurement
  <1>17. CASE UNCHANGED vars
    BY <1>17 DEF vars
  <1> QED
    BY <1>1, <1>2, <1>3, <1>4, <1>5, <1>6, <1>7, <1>8, <1>9,
       <1>10, <1>11, <1>12, <1>13, <1>14, <1>15, <1>16, <1>17 DEF Next, Call

(* No measurement is delivered with success twice.                         *)
THEOREM NoDuplicateDelivery ==
  ASSUME RefClipCheck = FALSE
  PROVE  Spec => NoDuplicate
  <1>1. DeliveredInv /\ [Next]_vars =>
          [Call /\ pc' = "idle" /\ status' = "NONE" /\ data # NoSample
             => data > delivered]_vars
    <2> SUFFICES ASSUME DeliveredInv, Call, pc' = "idle", status' = "NONE",
                        data # NoSample
                 PROVE  data > delivered
      OBVIOUS
    <2>1. pc \in HasData
      BY DEF Call, StartSelectPage, StartClearReg0, StartSetReg0,
             StartDeselectPage, StartMeasurement, PollStartBit, PollReady,
             ReadData, LimitChecks, RefClipSelectPage, RefClipRead,
             RefClipDeselectPage, ClearInterrupt, ClearReadBack, Goto, Return,
             HasData
    <2> QED
      BY <2>1 DEF DeliveredInv
  <1>2. CallInv => ResultIsLast
    BY DEF CallInv
  <1>3. TypeOK /\ ResultIsLast /\ DeliveredInv /\ [Next]_vars => DeliveredInv'
    BY DeliveredStep
  <1> QED
    BY <1>1, <1>2, <1>3, DeliveredInit, TypeCorrect, CallInvariant, PTL
       DEF Spec, NoDuplicate

=============================================================================
