------------------------------- MODULE PalModes -------------------------------
(***************************************************************************)
(* The states of the device as an application drives them: device and      *)
(* power modes, continuous measurements, the interrupt pin and its         *)
(* thresholds, and the reset.  A register is found where the selected page *)
(* has it: a page left behind makes the next write miss and the next read  *)
(* return what that page has there.                                        *)
(***************************************************************************)
EXTENDS ApiCall

CONSTANTS
    ModeFaults,     \* transfers of a call that may be lost, -1: none
    MaxLost,        \* polls of a reset that may be lost
    MaxModeCalls    \* bound on the calls of a behaviour

ASSUME ModesAssumption ==
    ModeFaults \subseteq Int /\ MaxLost \in Nat /\ MaxModeCalls \in Nat

VARIABLES
    chip,       \* the sensor
    pal,        \* PalState, DeviceMode, PowerMode and Pin0GpioFunctionality
    reset,      \* where ResetDevice is, "none" between calls; lost polls
    touched     \* history: the tuning does not go by the pin as it is

modesVars == <<chip, pal, reset, touched, last, calls>>

DeviceModes == {"single", "back", "timed", "drive", "osc"}
States == {"POWERDOWN", "WAIT_STATICINIT", "STANDBY", "IDLE", "RUNNING"}
Continuous == {"back", "timed"}
Halves == 0 .. 4095         \* the 12 bits of a threshold, in 2 mm

(* chip.func is the interrupt the sensor raises, 0 none, 1 below low, 2    *)
(* above high, 3 outside, 4 new sample; low and high are in 2 mm.          *)
ModesTypeOK ==
    /\ chip.page \in {0, 1, 4, 14} /\ chip.run \in {"idle", "single", "stopping"} \cup Continuous
    /\ chip.func \in 0 .. 4 /\ chip.latched \in 0 .. 4
    /\ {chip.done, chip.tuned, chip.standby} \subseteq {0, 1}
    /\ {chip.low, chip.high} \subseteq Halves
    /\ chip.line \in {"up", "falling", "down", "booting"}
    /\ pal \in [state : States, mode : DeviceModes, func : 0 .. 4,
                power : {"standby", "idle"}]
    /\ reset.at \in {"none", "waitDown", "release", "waitUp"}
    /\ reset.lost \in 0 .. MaxLost /\ touched \in {0, 1}

-----------------------------------------------------------------------------
(* Register writes.  SYSRANGE_START with bit 0 set starts a single         *)
(* measurement, or ends continuous ones; with no bit it ends them.         *)
Select(c, p) == Done(c, LAMBDA x : [x EXCEPT !.chip.page = p])

Page0(c, x) == IF c.chip.page = 0 THEN x ELSE c

Started0(run, v) ==
    CASE v \in Continuous -> v
      [] v = "start" -> IF run \in Continuous THEN "stopping" ELSE "single"
      [] v = "none" -> IF run \in Continuous THEN "stopping" ELSE run

SysrangeStart(c, v) ==
    Done(c, LAMBDA x : Page0(x, [x EXCEPT !.chip.run = Started0(@, v)]))

Register(c, field, v) ==
    Done(c, LAMBDA x : Page0(x, [x EXCEPT !.chip[field] = v]))

(* The stop variable, 0x91 on page 1, between the two; each of these       *)
(* transfers overwrites the status of the one before.                      *)
WriteStopVariable(c) ==
    LET a == SysrangeStart(Select(c, 1), "none")
    IN  Select(SysrangeStart(Transfer(a), "start"), 0)

Power80(c, v) == Done(c, LAMBDA x : [x EXCEPT !.chip.standby = 1 - v])

(* The same with 0x80 := 1 and 0 around it.                                *)
Rearm(c) == Power80(WriteStopVariable(Power80(c, 1)), 0)

(* Groups of |= writes: the first loss is the status, the rest go on.      *)
AlsoThen(c, Op(_)) ==
    LET d == Op(c) IN IF c.status = "none" THEN d ELSE Fail(d, c.status)

-----------------------------------------------------------------------------
(* What a read returns: c.stray of a register on another page.             *)
Seen(c, field) == IF c.chip.page = 0 THEN c.chip[field] ELSE c.stray

(* VL53L0X_GetInterruptThresholds: a word read of each.                    *)
Thresholds(c) == Then(Transfer(c), Transfer)

Asks(func, low, high) ==
    \/ func = 1 /\ low * 2 > 255
    \/ func = 2 /\ high > 0
    \/ func = 3

(* By the thresholds that were read, and by those the sensor holds.        *)
NeedsTuning(c) == Asks(c.pal.func, Seen(c, "low"), Seen(c, "high"))
Wanted(c) == Asks(c.pal.func, c.chip.low, c.chip.high)

(* load_tuning_settings(InterruptThresholdSettings), one transfer for each *)
(* page it works on; it leaves 0x80 at 1.  c.late: part of a page was      *)
(* written when a transfer of it was lost.                                 *)
Stretch(c, p) ==
    LET d == Transfer(c)
    IN  IF d.status = "none" \/ c.late = 1 THEN [d EXCEPT !.chip.page = p] ELSE d

LoadThresholdTuning(c) ==
    LET setup == Then(Select(c, 0), LAMBDA x : Stretch(Power80(x, 1), 1))
        body == Then(Then(setup, LAMBDA x : Stretch(x, 14)), LAMBDA x :
                    [Stretch(x, 4) EXCEPT !.chip.tuned = 1])
    IN  Then(Then(body, LAMBDA x : Stretch(x, 1)), LAMBDA x : Select(x, 0))

DropThresholdTuning_NotReset(c) == Power80(Select(Select(c, 4), 0), 0)

(* 0x70 := 0 on page 4.                                                    *)
DropThresholdTuning(c) ==
    LET a == AlsoThen(Select(c, 4), LAMBDA x : Done(x, LAMBDA y :
                 IF y.chip.page = 4 THEN [y EXCEPT !.chip.tuned = 0] ELSE y))
        b == AlsoThen(a, LAMBDA x : Select(x, 0))
    IN  AlsoThen(b, LAMBDA x : Power80(x, 0))

(* History: this start tunes for thresholds the sensor does not hold.      *)
Misread(c) == IF Wanted(c) THEN c ELSE [c EXCEPT !.touched = 1]

(* A threshold interrupt is tuned by what the driver remembers of the pin  *)
(* and reads of the thresholds, on whatever page is selected.              *)
CheckAndLoadInterruptSettings(c, start) ==
    LET d == IF c.pal.func \in 1 .. 3 THEN Thresholds(c) ELSE c
    IN  Then(d, LAMBDA x :
            IF ~NeedsTuning(x) THEN x
            ELSE IF start THEN LoadThresholdTuning(Misread(x))
            ELSE DropThresholdTuning([x EXCEPT !.touched = 0]))

-----------------------------------------------------------------------------
StartContinuous_NoState(c, run) ==
    LET d == Then(c, LAMBDA x : CheckAndLoadInterruptSettings(x, TRUE))
    IN  SysrangeStart(d, run)

(* The status of the interrupt settings is overwritten by the start.       *)
StartContinuous(c, run) ==
    LET d == Then(c, LAMBDA x : CheckAndLoadInterruptSettings(x, TRUE))
    IN  Then(SysrangeStart(d, run), LAMBDA x : [x EXCEPT !.pal.state = "RUNNING"])

(* The wait for the start bit ends with the measurement, times out or      *)
(* loses a read.                                                           *)
WaitStarted(c) ==
    CASE c.wait = "ok" -> Transfer(c)
      [] c.wait = "timeout" -> Fail(c, "timeout")

Start(c) ==
    LET d == Rearm(c)
    IN  CASE c.pal.mode = "single" -> Then(SysrangeStart(d, "start"), WaitStarted)
          [] c.pal.mode \in Continuous -> StartContinuous(d, c.pal.mode)
          [] OTHER -> Fail(d, "unsupported")

(* The status of the stop itself is overwritten.                           *)
Stop(c) ==
    LET d == WriteStopVariable(SysrangeStart(c, "none"))
        e == Then(d, LAMBDA x : [x EXCEPT !.pal.state = "IDLE"])
    IN  Then(e, LAMBDA x : CheckAndLoadInterruptSettings(x, FALSE))

(* VL53L0X_GetStopCompletedStatus: a status that cannot be read is that of *)
(* a sensor that has stopped.                                              *)
StopCompleted(c) ==
    LET d == Then(Select(c, 1), Transfer)
        e == Then(d, LAMBDA x : Select(x, 0))
        stopped == d.status # "none" \/ c.chip.run # "stopping"
    IN  IF stopped THEN Rearm(e) ELSE e

(* VL53L0X_GetMeasurementDataReady, which c.ready tells.                   *)
DataReady(c) ==
    LET d == Transfer(c)
        done == IF c.pal.func = 4 THEN Seen(c, "latched") = 4 ELSE Seen(c, "done") = 1
    IN  [d EXCEPT !.ready = IF d.status = "none" /\ done THEN 1 ELSE 0]

(* VL53L0X_PerformSingleMeasurement; a sensor that is not done yet either  *)
(* gets done while polled or times out.                                    *)
PollForCompletion(c) ==
    LET d == DataReady(c)
    IN  Then(d, LAMBDA x : IF x.ready = 1 \/ x.wait = "ok" THEN x ELSE Fail(x, "timeout"))

FinishSingle(x) ==
    IF x.pal.mode # "single" THEN x
    ELSE LET d == [x EXCEPT !.pal.state = "IDLE"]
         IN  IF x.chip.page # 0 THEN d
             ELSE [d EXCEPT !.chip.done = 1,
                            !.chip.run = IF @ = "single" THEN "idle" ELSE @]

SingleMeasurement(c) ==
    LET d == IF c.pal.mode = "single" THEN Start(c) ELSE c
    IN  Then(Then(d, PollForCompletion), FinishSingle)

(* VL53L0X_ClearInterruptMask, three tries; the third counts as failed     *)
(* whatever it reads.                                                      *)
ClearLatch(c) ==
    LET Put(x) == Register(x, "latched", 0)
        d == AlsoThen(AlsoThen(Put(c), Put), Transfer)
    IN  Then(d, LAMBDA x : IF x.wait = "ok" THEN x ELSE Fail(x, "uncleared"))

-----------------------------------------------------------------------------
(* VL53L0X_SetGpioConfig for GPIO_DRIVE, for GPIO_OSC, which ends on page  *)
(* 1, and for the functionalities, of which 5 does not exist.              *)
PinOscillator(c) ==
    LET d == Transfers(c, 13)
    IN  IF d.status = "none" THEN Select(d, 1) ELSE [d EXCEPT !.chip.page = 1]

PinFunction(c, func) ==
    LET d == IF func = 5 THEN Fail(c, "gpio") ELSE Register(c, "func", func)
        e == Then(d, LAMBDA x : Transfers(x, 2))
        f == Then(e, LAMBDA x : [x EXCEPT !.pal.func = func])
    IN  Then(f, ClearLatch)

PinConfig(c, pin, mode, func) ==
    IF pin # 0 THEN Fail(c, "gpio")
    ELSE CASE mode = "drive" -> Transfer(c)
           [] mode = "osc" -> PinOscillator(c)
           [] OTHER -> PinFunction(c, func)

(* VL53L0X_GetGpioConfig takes over the functionality it reads; 5 to 7 are *)
(* none.                                                                   *)
ReadPinConfig(c, pin) ==
    LET Polarity(x) == IF Seen(x, "func") \in 0 .. 4 THEN Transfer(x) ELSE Fail(x, "gpio")
        d == Then(Transfer(c), Polarity)
    IN  IF pin # 0 THEN Fail(c, "gpio")
        ELSE Then(d, LAMBDA x : [x EXCEPT !.pal.func = Seen(x, "func")])

(* VL53L0X_SetInterruptThresholds, in mm: half of it, and 12 bits of that. *)
WriteThresholds(c, low, high) ==
    Then(Register(c, "low", (low \div 2) % 4096), LAMBDA x :
        Register(x, "high", (high \div 2) % 4096))

-----------------------------------------------------------------------------
(* Calls.  The application follows the state diagram of vl53l0x_api.h: a   *)
(* measurement is started in IDLE, and modes and power change while no     *)
(* continuous measurement runs.                                            *)
Device(f, wait, late) ==
    [chip |-> chip, pal |-> pal, touched |-> touched, fuse |-> f,
     status |-> "none", wait |-> wait, late |-> late, ready |-> 0, stray |-> 0]

Reading(c, v) == [c EXCEPT !.stray = v]

Returning(op, f, c) ==
    /\ reset.at = "none" /\ calls < MaxModeCalls
    /\ chip' = c.chip /\ pal' = c.pal /\ touched' = c.touched
    /\ Ended(op, c, Lost(f, c))
    /\ UNCHANGED reset

SetDeviceMode ==
    /\ pal.state # "RUNNING"
    /\ \E mode \in DeviceModes \cup {"histogram"} :
        LET c == Device(-1, "ok", 0)
        IN  Returning("SetDeviceMode", -1,
                IF mode = "histogram" THEN Fail(c, "unsupported")
                ELSE [c EXCEPT !.pal.mode = mode])

StartMeasurement ==
    /\ pal.state = "IDLE"
    /\ \E f \in ModeFaults, wait \in {"ok", "timeout"}, late \in {0, 1}, v \in {0, 150} :
        Returning("Start", f, Start(Reading(Device(f, wait, late), v)))

StopMeasurement ==
    /\ pal.state = "RUNNING"
    /\ \E f \in ModeFaults : Returning("Stop", f, Stop(Device(f, "ok", 0)))

GetStopCompletedStatus ==
    /\ pal.state = "IDLE"
    /\ \E f \in ModeFaults : Returning("StopCompleted", f, StopCompleted(Device(f, "ok", 0)))

PerformSingleMeasurement ==
    /\ pal.state \in {"IDLE", "RUNNING"}
    /\ \E f \in ModeFaults, wait \in {"ok", "timeout"} :
        Returning("Single", f, SingleMeasurement(Device(f, wait, 0)))

ClearInterruptMask ==
    \E f \in 0 .. 2, wait \in {"ok", "timeout"} :
        Returning("Clear", f - 1, ClearLatch(Device(f - 1, wait, 0)))

(* A pin reconfigured while its tuning is loaded.                          *)
Reconfigured(c) == IF c.chip.tuned = 1 THEN [c EXCEPT !.touched = 1] ELSE c

SetGpioConfig ==
    \E pin \in {0, 1}, mode \in {"back", "drive", "osc"}, func \in 0 .. 5, f \in ModeFaults :
        /\ func = 0 \/ (pin = 0 /\ mode = "back")
        /\ Returning("SetGpio", f,
               Reconfigured(PinConfig(Device(f, "ok", 0), pin, mode, func)))

GetGpioConfig ==
    \E pin \in {0, 1}, f \in {-1, 0, 1}, v \in 0 .. 7 :
        Returning("GetGpio", f,
            Reconfigured(ReadPinConfig(Reading(Device(f, "ok", 0), v), pin)))

SetInterruptThresholds ==
    \E low, high \in {0, 300}, f \in {-1, 1} :
        Returning("SetThresholds", f,
            Reconfigured(WriteThresholds(Device(f, "ok", 0), low, high)))

(* VL53L0X_SetPowerMode: to idle by a whole StaticInit, which configures   *)
(* the pin for new samples (4).                                            *)
ToStandby(c) ==
    Then(Power80(c, 0), LAMBDA x :
        [x EXCEPT !.pal.state = "STANDBY", !.pal.power = "standby"])

InitStatic(c) ==
    Then(PinFunction(c, 4), LAMBDA x : [x EXCEPT !.pal.state = "IDLE"])

ToIdle(c) ==
    Then(Then(Power80(c, 0), InitStatic), LAMBDA x : [x EXCEPT !.pal.power = "idle"])

SetPowerMode ==
    /\ pal.state \in {"STANDBY", "IDLE"}
    /\ \E mode \in {"standby", "idle", "level2"}, f \in ModeFaults :
        LET c == Device(f, "ok", 0)
        IN  Returning("SetPower", f,
                CASE mode = "standby" -> ToStandby(c)
                  [] mode = "idle" -> Reconfigured(ToIdle(c))
                  [] OTHER -> Fail(c, "unsupported"))

(* Both modes leave 0x80 at 0, so this answers idle only while the tuning  *)
(* of a threshold interrupt is loaded.                                     *)
GetPowerMode ==
    \E f \in {-1, 0} :
        Returning("GetPower", f, Then(Transfer(Device(f, "ok", 0)), LAMBDA x :
            [x EXCEPT !.pal.power = IF x.chip.standby = 0 THEN "idle" ELSE "standby"]))

(* What DataInit and StaticInit do to the state; RangerInit is their       *)
(* transfers.                                                              *)
DataInit ==
    /\ pal.state = "POWERDOWN"
    /\ \E f \in ModeFaults : Returning("DataInit", f,
           Then(Transfers(Device(f, "ok", 0), 3), LAMBDA x :
               [x EXCEPT !.pal.state = "WAIT_STATICINIT", !.pal.mode = "single"]))

StaticInit ==
    /\ pal.state = "WAIT_STATICINIT"
    /\ \E f \in ModeFaults : Returning("StaticInit", f, Reconfigured(InitStatic(Device(f, "ok", 0))))

-----------------------------------------------------------------------------
(* VL53L0X_ResetDevice, which other calls wait for; the sensor goes down   *)
(* and boots on its own.  The reset register and the model id belong to    *)
(* page 0.                                                                 *)
Fresh ==
    [page |-> 0, run |-> "idle", latched |-> 0, func |-> 0, done |-> 0,
     low |-> 0, high |-> 0, tuned |-> 0, standby |-> 1, line |-> "up"]

ResetAssert ==
    /\ reset.at = "none" /\ calls < MaxModeCalls
    /\ \/ /\ chip' = IF chip.page = 0 THEN [chip EXCEPT !.line = "falling"] ELSE chip
          /\ reset' = [reset EXCEPT !.at = "waitDown"]
       \/ /\ reset.lost < MaxLost /\ UNCHANGED chip
          /\ reset' = [at |-> "release", lost |-> reset.lost + 1]
    /\ UNCHANGED <<pal, touched, last, calls>>

(* What a poll of the model id can read; of another page, anything.        *)
ModelIds ==
    IF chip.page # 0 THEN {0, 1} ELSE IF chip.line \in {"down", "booting"} THEN {0} ELSE {1}

(* Until the model id reads 0; a lost read leaves Byte as it was, which at *)
(* first is anything.                                                      *)
ResetWaitDown ==
    /\ reset.at = "waitDown"
    /\ \/ 0 \in ModelIds /\ reset' = [reset EXCEPT !.at = "release"]
       \/ 1 \in ModelIds /\ UNCHANGED reset
       \/ /\ reset.lost < MaxLost
          /\ \E at \in {"waitDown", "release"} : reset' = [at |-> at, lost |-> reset.lost + 1]
    /\ UNCHANGED <<chip, pal, touched, last, calls>>

ResetEnds(status) ==
    /\ pal' = IF status = "none" THEN [pal EXCEPT !.state = "POWERDOWN"] ELSE pal
    /\ touched' = IF chip.tuned = 1 THEN touched ELSE 0
    /\ Ended("Reset", [status |-> status], reset.lost # 0 \/ status # "none")
    /\ reset' = [at |-> "none", lost |-> 0]

ResetRelease_Dropped ==
    /\ reset.at = "release"
    /\ reset' = [reset EXCEPT !.at = "waitUp"]
    /\ UNCHANGED <<chip, pal, touched, last, calls>>

ResetRelease ==
    /\ reset.at = "release"
    /\ \/ /\ chip' = IF chip.line = "up" THEN chip ELSE [Fresh EXCEPT !.line = "booting"]
          /\ reset' = [reset EXCEPT !.at = "waitUp"]
          /\ UNCHANGED <<pal, touched, last, calls>>
       \/ reset.lost < MaxLost /\ ResetEnds("io") /\ UNCHANGED chip

(* Until it no longer reads 0; a lost read leaves it 0, but the status of  *)
(* the last one counts.                                                    *)
ResetWaitUp ==
    /\ reset.at = "waitUp"
    /\ \/ 1 \in ModelIds /\ ResetEnds("none")
       \/ 0 \in ModelIds /\ UNCHANGED <<reset, pal, touched, last, calls>>
       \/ /\ reset.lost < MaxLost /\ reset' = [reset EXCEPT !.lost = @ + 1]
          /\ UNCHANGED <<pal, touched, last, calls>>
    /\ UNCHANGED chip

ResetDevice == ResetAssert \/ ResetWaitDown \/ ResetRelease \/ ResetWaitUp

(* The sensor on its own.                                                  *)
Rested == UNCHANGED <<pal, reset, touched, last, calls>>

Measured ==
    /\ chip.run # "idle" /\ chip.line = "up"
    /\ \E crossed \in BOOLEAN :
        chip' = [chip EXCEPT !.done = 1,
                     !.run = IF @ \in Continuous THEN @ ELSE "idle",
                     !.latched = IF chip.func = 4 \/ crossed THEN chip.func ELSE @]
    /\ Rested

LineMoves ==
    /\ chip.line \in {"falling", "booting"}
    /\ chip' = IF chip.line = "falling" THEN [chip EXCEPT !.line = "down"]
               ELSE [chip EXCEPT !.line = "up"]
    /\ Rested

-----------------------------------------------------------------------------
(* A sensor that was just switched on, one after StaticInit, or one of an  *)
(* application that went on to configure a continuous mode and a threshold *)
(* interrupt.                                                              *)
PoweredOn ==
    /\ chip = Fresh
    /\ pal = [state |-> "POWERDOWN", mode |-> "single", func |-> 0, power |-> "idle"]

ModesInit ==
    /\ \/ PoweredOn
       \/ \E mode \in {"single", "back", "timed"}, func \in 1 .. 4, limit \in {0, 150} :
            /\ mode = "single" <=> func = 4
            /\ mode = "timed" <=> func = 2
            /\ chip = [Fresh EXCEPT !.func = func, !.low = limit, !.high = limit]
            /\ pal = [state |-> "IDLE", mode |-> mode, func |-> func, power |-> "idle"]
    /\ reset = [at |-> "none", lost |-> 0] /\ touched = 0
    /\ CallInit

ModesCall ==
    \/ SetDeviceMode \/ StartMeasurement \/ StopMeasurement
    \/ GetStopCompletedStatus \/ PerformSingleMeasurement \/ ClearInterruptMask
    \/ SetGpioConfig \/ GetGpioConfig \/ SetInterruptThresholds
    \/ SetPowerMode \/ GetPowerMode \/ DataInit \/ StaticInit

ModesNext == ModesCall \/ ResetDevice \/ Measured \/ LineMoves

(* The task goes on with a reset it began, and the sensor follows its pin. *)
(* What another page answers is up to nobody, so a reset polling one is    *)
(* not sure to get on.                                                     *)
ModesFairness ==
    WF_modesVars(chip.page = 0 /\ ResetDevice) /\ WF_modesVars(LineMoves)

ModesSpec == ModesInit /\ [][ModesNext]_modesVars /\ ModesFairness
-----------------------------------------------------------------------------
(* The driver says RUNNING exactly while the sensor measures on its own,   *)
(* and POWERDOWN only of a sensor as it is after a reset.                  *)
Agree ==
    /\ pal.state = "RUNNING" <=> chip.run \in Continuous
    /\ pal.state = "POWERDOWN" => chip.run = "idle" /\ chip.tuned = 0 /\ chip.func = 0
    /\ chip.page = 0

StartSucceeds == last'.op = "Start" /\ last'.status = "none"

(* A call that loses nothing keeps that, and a start that succeeds brings  *)
(* it about whatever calls before it lost: a page left selected, a stop    *)
(* that never reached the sensor, another measurement still running.       *)
(* GPIO_OSC, which ends on page 1, is the exception.                       *)
StateFollowsSensor ==
    [][CleanCall /\ last'.op # "SetGpio"
         /\ (Agree \/ StartSucceeds) => Agree']_modesVars

(* A continuous session that ends without a loss leaves no threshold       *)
(* tuning in the sensor, even one an earlier start loaded before it        *)
(* failed.  Two things void that: the pin reconfigured under its tuning,   *)
(* and a start whose deselect of page 1 was lost, so that it read          *)
(* thresholds that call for tuning where those of the sensor do not.  No   *)
(* stop drops what that start loaded.                                      *)
TuningFollowsSession ==
    [][CleanCall /\ last'.op = "Stop" /\ touched = 0 => chip'.tuned = 0]_modesVars

(* ResetDevice polls without a limit, yet with page 0 selected it returns, *)
(* whatever polls are lost: the sensor goes down and comes back.  On the   *)
(* page GPIO_OSC leaves selected nothing ends the polls.                   *)
ResetReturns ==
    reset.at # "none" /\ chip.page = 0 ~> reset.at = "none"
=============================================================================
