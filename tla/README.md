# Verification of goldsensor

goldsensor is ESP32 firmware (M5Stack, ESP-IDF) that measures a distance with a
VL53L0X laser ranging sensor, shows it on a display, and offers Wi-Fi statistics
and metrics over HTTP, announced by mDNS. This directory holds TLA+ models of the
firmware's tasks, of the sensor driver and of the mDNS component, the TLC
configurations that check them, and TLAPS proofs of the properties that matter
most.

## 1. Inventory

Paths are below `src/src/`; `mdns.c` is `src/managed_components/espressif__mdns/mdns.c`.

| Part | State it keeps | Operations | What makes it correct |
|---|---|---|---|
| Application tasks, `main.cpp` | `server`, `ranger_device`, the display | `app_main` (boot order), `sensor_loop` (timer callback), `connect_handler`, `disconnect_handler` | the web server runs exactly while the link is up; the sensor is started whether or not Wi-Fi comes up; one range at a time |
| Wi-Fi station, `wifi.cpp` | `s_retry_num`, `s_wifi_event_group`, `stats` | `wifi_init_sta`, `wifi_event_handler`, `wifi_get_stats` | retries end; every loss is counted once; the unlocked statistics are never seen torn |
| Web server and metrics, `http_server.cpp`, `metrics.cpp` | the server handle, the metrics families | `start_webserver`, `stop_webserver`, `metrics_handler` | answers while the link is up, is stopped before the statistics change |
| Ranger wrapper, `ranger.cpp` | the device structure | `ranger_init`, `ranger_measure` | the device handed out is configured and quiet |
| Single ranging call, `vl53l0x_api.c`, `vl53l0x_api_core.c` | device parameters, the sensor's page, start bit and latch | `PerformSingleRangingMeasurement` and everything below it | a measurement is the caller's own, never one twice; page 0 is restored; no loop is endless |
| Set-up, `vl53l0x_api.c`, `vl53l0x_tuning.h` | `SequenceConfig`, SPAD parameters, limits | `DataInit`, `GetDeviceInfo`, `StaticInit`, `SetGpioConfig`, `SetSequenceStepEnable` | cached and actual configuration agree; what an earlier start left does not matter |
| Calibration, `vl53l0x_api_calibration.c` | sequence configuration, SPAD maps, offset, crosstalk rate | reference calibration, reference SPADs; offset and crosstalk calibration | a calibration's configuration and interrupt do not outlive it; what it reports is what the sensor has |
| I2C platform, `vl53l0x_platform.c`, `vl53l0x_i2c_platform.cpp` | none | read and write of registers | an error is reported |
| Continuous modes and power states, `vl53l0x_api.c` | `PalState`, `DeviceMode`, `PowerMode` | `StartMeasurement` in other modes, `StopMeasurement`, `GetStopCompletedStatus`, `ResetDevice` | state and sensor agree; a session leaves no tuning behind; a reset returns |
| Timing budget, `vl53l0x_api_core.c`, `vl53l0x_api.c` | sequence steps, timeouts, VCSEL periods, in the sensor and in the device structure | set and get the budget, a step's timeout, a VCSEL period; `encode_timeout`, `decode_timeout` | the sequence fits the budget in spite of rounding; what is refused is taken back |
| Range status, limits, crosstalk, offset, `vl53l0x_api.c`, `vl53l0x_api_core.c` | limits and corrections, in the sensor and in the device structure | setters and getters, `GetDeviceParameters`, `SetDeviceParameters`, `get_pal_range_status`, `calc_sigma_estimate`, `calc_dmax` | both sides agree; crosstalk is subtracted once; a status follows from the limits |
| mDNS, `mdns.c` | names, services, a control block for each interface and protocol, scheduled packets, action queue, searches | API calls, network events, received packets, timer, service task | names get probed and announced to the end; what is scheduled is sent; a query returns |
| Strings and logging | none | | wording only |

**Interaction.** Seven tasks run concurrently. The Wi-Fi driver posts events; the
event loop task runs, for each event, first the handler `app_main` registered
(display and web server), then `wifi_event_handler` (retries and statistics).
`app_main` blocks in `wifi_init_sta` until one of two event bits is set, then
runs `ranger_init` and starts the timer. The esp_timer task calls `sensor_loop`,
which ranges through the driver. The httpd task copies the statistics without a
lock. The sensor runs beside all of them and *is not reset when the firmware is*.
`wifi_init_sta` starts mDNS and names the host and two services. From then on API
calls, Wi-Fi events and received packets become actions in one queue; the mDNS
service task executes them under a lock, and the mDNS timer, every 100 ms, posts
the packets and searches whose time has come. A blocking query waits on the
semaphore of its search, which the service task or the packet parser gives.

**What is hard here.** The two handlers of one event are in two files and their
order matters; the statistics are shared without a lock; many functions of the
driver overwrite the status of a failed transfer; the sensor's page register
decides what a write to register 0 means; a measurement may end after its call
has given up; a NULL device makes the firmware panic and start over on a sensor
in any state. The driver keeps a copy of most of what it programs, rounds it to
what a register holds and computes in 32 bits with 16 fractional ones, so copy and
register drift apart on the paths where a transfer fails or a value is refused. In
the mDNS component, packets, control blocks and queued actions refer to each other
by address and any of them can go away before the others. `PROJECT.json` lists each
hazard at its line with the properties that cover it.

## 2. Modules

| Module | Models | Uses |
|---|---|---|
| `Sensor` | the VL53L0X registers as the driver uses them (external) | |
| `SingleRanging` | `ranger_measure`, one I2C transfer per step, tick after tick | `Sensor` |
| `RangerInit` | `ranger_init` at every start of the firmware | `Sensor` |
| `LinkStats` | abstract specification: connected flag and disconnect counter | |
| `Station` | all tasks around the Wi-Fi link | `LinkStats` |
| `ApiCall` | how one call of the driver runs, transfer by transfer | |
| `Arith32` | arithmetic of 32, 16 and 8 bits, fixed point | |
| `StepTimeouts` | encodings of timeouts and VCSEL periods | `Arith32` |
| `TimingBudget` | budget, sequence steps, timeouts, VCSEL periods | `ApiCall`, `StepTimeouts` |
| `RangeData` | what is computed from a raw measurement | `StepTimeouts` |
| `RangeSettings` | limits, crosstalk, offset, gain, period, all parameters at once, offset and crosstalk calibration, the measurement as it is handed out | `TimingBudget`, `RangeData` |
| `PalModes` | device and power modes, continuous measurement, interrupt pin, thresholds and their tuning, reset | `ApiCall` |
| `RefSpads` | reference SPADs, reference calibration, ambient damper | `ApiCall` |
| `MdnsResponder` | services, control blocks, packets, action queue | |
| `MdnsSearch` | queries and their callers | |
| `MC*` | small instances for TLC | |
| `*_proof` | theorems about the module of that name | TLAPS |

**`Sensor`.** Measurements are numbered in the order they begin, so the content
of the result registers is a number and "whose measurement is this?" a
comparison. A transfer while another page than 0 is selected touches none of the
registers the driver means, and what it reads there is arbitrary (`ReadBit`).
The sensor takes a request, begins and ends a measurement when it likes, or never.

**`SingleRanging`.** `pc` names the next transfer of the call. `StartSelectPage`
to `StartMeasurement` are `VL53L0X_StartMeasurement`, including the seven writes
whose status is never looked at; `PollStartBit` and `PollReady` are the two
polling loops with their limits; `ReadData` to `RefClipDeselectPage` are
`GetRangingMeasurementData` with `get_pal_range_status`; `ClearInterrupt` and
`ClearReadBack` are `ClearInterruptMask` with its retries. A transfer succeeds,
fails having done nothing, or is reported as failed though it reached the sensor.
The byte `GetInterruptMaskStatus` examines after a failed read is uninitialised:
either value.

**`RangerInit`.** Transfers made under one status check are one action with every
outcome a failure in their midst can have; steps the sensor must be able to move
between are separate. `Block` is the frame FF=1, 00:=0, ..., 00:=1, FF=0, all of
it attempted even after an error, so that 00:=1 becomes a start request when the
page switch is lost; `PageVisit` is given up at the first error. `Restart` is a
crash at any point. The SPAD search, made only when the NVM's values are invalid,
is one summarised step that keeps nothing but its net effect. The initial
states of `SingleRanging` are those `HandedOutToRanging` shows for `RangerInit`.

**`Station`.** One action per access to a variable another task uses, so the
handlers are cut where other tasks can see between two statements. `Reboot` is
the panic that a NULL device causes. `excuse` remembers that starting or stopping
the web server failed. The scrape copies the statistics in two steps, in either
order. `LinkStats` is implemented with `up` 0 from the moment the disconnection is
counted: counter and flag are two variables, and `RefinesLinkStats` says that the
gap between their updates is the only place where they differ from one step.

**`ApiCall`.** One task calls the driver and a call runs to its end, so for the
modules that follow a call is one action. Inside it, operators on a call record
`c` follow the code transfer by transfer: `c.fuse` counts down to the transfer
that fails, `c.status` is the `Status` of the code, `Then` is its `if (Status ==
VL53L0X_ERROR_NONE)` and a status that is overwritten is overwritten here. The
fields a call changes (`regs`, `dev`, `set`, `chip`, `pal`, `spad`) become the
primed variables when it ends. `last` is what the call returned and whether it
lost a transfer (`CleanCall`).

**`TimingBudget`**, with `StepTimeouts` and `Arith32`. `regs` holds
`SYSTEM_SEQUENCE_CONFIG`, the timeout and period registers; `dev` what the device
structure remembers. `SetBudget` takes the steps off the budget in the order of
the code and gives the rest to the final range; `ChangeStepTimeout` takes a
timeout back that the budget has no room for; `ChangePrePeriod` and
`ChangeFinalPeriod` read with the old period and write with the new one and end in
the phase calibration, which may fail. What an unread byte on the stack holds is
`garbage`; `WrapAround`, whose read status is overwritten, writes it to the sequence
configuration. TLC has signed numbers of 32 bits: `Arith32` computes on the signed
number with the same bits as the unsigned one of the code.

**`RangeData` and `RangeSettings`.** `RangeData` is pure: integer square root,
crosstalk and total rates, the dmax table, the sigma estimate, the limit flags and
the status that follows. The sigma estimate takes the distance as
`GetRangingMeasurementData` hands it out, corrected for gain and crosstalk and in whole
millimetres (`Millimeters`). `RangeSettings` keeps in `set` the registers and the
device structure for the limits, crosstalk, offset, gain and period, and adds the
two calibrations and the measurement as it is handed out (which reads every
parameter back when the sigma check is on, and thereby changes them). When a transfer
of that is lost, the checks after it are skipped (`Reached`) and the reference signal is 0
unless it arrived (`Reference`). The 50
measurements of a calibration are one average (`Averages`).

**`PalModes`.** `pal` is `PalState`, `DeviceMode`, `PowerMode` and the function of
the pin, `chip` the sensor with its page, its run state, its latched interrupt and
its tuning. A write to a register of page 0 misses when a lost transfer left
another page selected, and a read returns what that page has there, which is anything
(`Seen`, `stray`): the thresholds by which a start decides on its tuning, the interrupt
status, the function of the pin that `GetGpioConfig` takes over, the model id a reset polls
(`ModelIds`). `ResetDevice` is cut at each poll, because the sensor goes
down and boots meanwhile (`LineMoves`); up to `MaxLost` polls are lost, and the
byte a lost first read leaves is arbitrary. `touched` remembers that the tuning no longer
goes by the pin as it is: the pin was reconfigured while a tuning was loaded, or a start
loaded it for thresholds it read off another page (`Misread`).

**`RefSpads`.** A SPAD map is a set of bit numbers below 48. `Search` is
`VL53L0X_perform_ref_spad_management` with its minimum of three SPADs, its choice
of a type and its loop that adds SPADs until the signal passes the target, each
map written and read back. `Scenes` gives the signal as a function of the map.
`CountEnabled` counts as the code does, including the bit of the last byte it
tests again and again.

**`MCDriverCalls`** joins the four groups timing, settings, modes and SPADs. They
share only the record of the last call (settings includes the timing registers it
reads back), so a behaviour is about one of them (`part`) and the state space is
the sum of theirs, not the product.

**`MdnsResponder`.** `net` is what the service lock protects: services, names, one
`pcb` for each interface and protocol, the scheduled packets `tx` by address
(freed addresses are used again, as `malloc` may) and `due`, those marked as
queued. `queue` is the action queue. `Disturb` are the API calls, events and
received packets that post an action, `SchedulerRun` the timer task, `ExecuteAction`
the service task with one action for each type the code switches over.
`TxHandlePacket` moves a pcb from probe to probe to announcement to `RUNNING`;
collisions (`RxOutcomes`) and removals start it over or take its packet away.

**`MdnsSearch`.** One structure for each query, with its place on the chain, its
semaphore, the records found and its pending `ADD`, `SEND` and `END` actions; the
caller, the timer, the service task and the packet parser act on it.
`mdns_query_async_delete` is called as `mdns.h` asks, after the results were had;
a search that was full first and has its `END` still in the queue is then freed
under it, and `freedUse` ends what the model claims.

## 3. Runs

| Run | Shows |
|---|---|
| `single_ranging` | With the default limit checks: a call that found the sensor quiet and lost no transfer returns its own measurement and leaves the sensor quiet; any call that lost none is at most one measurement behind; page 0 is restored; no measurement is delivered twice; every call returns |
| `single_ranging_refclip` | The same freshness and page properties with the reference clip check, whose page switch lies between the data and the interrupt clear. `NoDuplicate` is not claimed there: after a failure on page 1 the interrupt clear goes astray and the next call delivers the old sample again |
| `ranger_init` | Up to three starts: the device handed out is on page 0 with the ranging sequence both in the sensor and in the cache, quiet after exactly two calibrations if nothing failed, and in a state `SingleRanging` starts from if something failed unreported; `ranger_init` always comes back |
| `station` | Web server, display and statistics agree between events; every loss is counted once; giving up is final; a scrape is never torn unless `httpd_stop` failed; the statistics implement `LinkStats`; the sensor is started in the end |
| `driver_calls` | Two calls of each group after any start, with transfers lost. Timing: success fits the budget, a refusal does not break it, the cached final timeout is the programmed one, reading the budget back is stable. Settings: limits agree on both sides whatever is lost, parameters survive a round trip, crosstalk is subtracted once, a calibration installs what it measured, a status can be explained from the limits, more light gives no larger sigma, with and without crosstalk. Modes: a call that loses nothing keeps the driver's state and the sensor's together, and a start brings them together; a stop leaves no tuning, the pin not reconfigured and the thresholds read off page 0; a reset on page 0 returns. SPADs: the sensor has what was reported, and it is the closest to the target |
| `mdns` | A pcb that probes has one packet that asks for exactly what it probes; one that announces has a packet; a packet marked as queued has its action in the queue; with no more disturbances every pcb comes to rest. A waiting caller always has something that will wake it, and is woken |

Six more runs check a sentence of the sources the code does not keep; TLC finds
the violation.

| Run | Sentence and what happens |
|---|---|
| `single_ranging_stale` | "Performs a single ranging measurement and retrieve the ranging measurement data" (`vl53l0x_api.h`): after a time-out or a lost transfer the late sample stays latched and the next, faultless call returns it as its own |
| `single_ranging_io_error` | "error reported from IO functions" (`vl53l0x_def.h`): the status of the page switch is overwritten, a call with a failed transfer returns success |
| `ranger_init_spads` | "set the ref spad from NVM" (`vl53l0x_api.c`): a failed NVM read is overwritten and the SPAD count is whatever `malloc` left; or the SPAD map goes to another page and reads back right from there |
| `station_report` | "True (1) if wifi is connected" (`metrics.cpp`): the web server is started before the flag is set, a scrape in between reports 0 over a live link |
| `timing_no_room` | "If there is no room for the final range timeout, then an error will be set." (`vl53l0x_api_core.c`): the 550 µs overhead of the final range is subtracted unsigned; with less than that left the difference wraps, and the longest timeout a register holds is programmed with success |
| `ref_spad_count` | "Count the number of bits enabled in the last byte accounting for the fact that not all bits in the byte may be used." (`vl53l0x_api_calibration.c`): the loop tests bit 0 of the last byte at every turn, SPAD 40 counts five times and SPADs 41 to 43 not at all |

**Bounds.**
`MaxBegun = 6` numbers the measurements: from the two calibrations that leaves
four, enough for a late measurement, a spurious start, the call's own one and a
successor; after the last the sensor falls silent, which exercises the limits.
For `ranger_init` six are two undisturbed starts and two spurious measurements.
`MaxLoop = 3` (2000 in the code) is the least with a first, a middle and a last
turn; `MaxClear = 3` is the code's. `MaxRetry = 2` (20 in the build) lets retries
be used up, partly used and reset; `MaxDisconnects = 2` a loss after a
reconnection. `MaxBoots = 3` a start after a start that itself found leftovers.
`driver_calls` makes `MaxCalls = MaxModeCalls = MaxSpadCalls = 2` calls of a group:
one that fails or is refused and one that meets what it left, from initial states
an application had already configured. `Faults`, `ModeFaults` and `SpadFaults` are
a transfer near the beginning, in the middle and near the end of the calls;
`MaxLost = 2` loses the first and a later poll of a reset. `Budgets` are too small
(12 ms), just enough (20 ms), one that a single step can use up (69.41 ms, with the
60 ms among `StepMicros`) and one beyond the 16 bits of a timeout (3 s). `StepMicros`,
`Limits`, `Rates`, `Gains`, `Offsets` and `Periods` include 0 and a value beyond what
the register or the arithmetic holds.
The timing properties speak of budgets from 2870 µs to 1.999 s (`IsBounded`): below,
what the overheads of start and end leave is an unsigned number that wraps
(`vl53l0x_api_core.c:1118` has no minimum check); above, the timeouts the code reads
back are cut to 16 bits. Calls outside this range are taken all the same, and what
they leave is where the next call begins.
`Targets` are seven raw measurements on both sides of the limits. Among them are three
signals at one ambient rate, so that `SigmaFollowsSignal` compares weak, middling and
strong light also with crosstalk on, where the caller's structure has to agree, and two
that differ only in that structure. `SigmaFollowsSignal` speaks of what the 32 bits hold
(`FitsEstimate`): up to 65 Mcps of light, and with crosstalk on a rate below the signal and
at most 712 mm, the way of light within the pulse of 4.7 ns. The modes begin at power on or
with a threshold interrupt configured, both thresholds 0 or 300 mm; a read of another page
returns 0 or 300 mm there, and for the pin any of its eight values. `GoodMaps` and
`Scenes` make the SPAD search end at once, in either type, in the next byte and out
of SPADs. `PalModes` was also checked with four calls (1 048 106 states).
`mdns` has two services, two interfaces with one IP version and a queue of
`QueueLength = 3` (16 in the code), the least that fills while one action is worked
on; `MaxPosts = 3` disturbances meet in any order, from every set of services
already announced. Two searches and two results let one query finish by number and
another by time (320 000 states).
The proofs do without all of these.

**Deadlock** is checked except in `RangerInit`, `MCDriverCalls` and `MCMdns`, where
starts, calls and disturbances are bounded and the end of them is the end of a
behaviour.

**Fairness.** `SingleRanging`: the esp_timer task runs a callback to its end and
the periodic timer keeps firing; nothing is assumed of the sensor or the bus.
`RangerInit`: the app_main task goes on; nothing is assumed of the sensor.
`Station`: FreeRTOS runs every ready task, and the event loop, `app_main` and a
begun request are such; an attempt to connect ends one way or the other and so
does DHCP on an associated link, which is what ESP-IDF's own time-outs provide.
Scrapes, losses of the link and failures are never assumed to happen.
`PalModes`: the task goes on with a reset it began and the sensor follows its reset
pin; nothing else. A reset that polls with another page selected gets no fairness: what that
page answers is up to nobody. `MdnsResponder`: the service task takes the next action as long
as there is one, and the periodic timer looks at the packets; `MdnsSearch`: the
same for the actions and the time-out of each search, and a woken caller runs. The
service task drains the queue, so a post that fails is repeated by the timer and
in the end succeeds. Answers of peers are never assumed.

## 4. Proofs

All theorems hold for every value of the constants that the named assumptions
allow: naturals and loop limits that let a loop turn (`MaxBegunAssumption`,
`LoopAssumption`, `BootAssumption`, `StationAssumption`, `ModesAssumption`), inputs
of the types the code has (`InputAssumption`, `SettingsAssumption`), scenes whose
signal grows with the number of SPADs (`SpadsAssumption`), and finitely many services
none of which is taken for the host (`ResponderAssumption`).

* `SingleRanging_proof`: `TypeCorrect`, `CleanCallFresh`, `CleanCallQuiet`,
  `OneBehind`, `PageRecovers`, `NoDuplicateDelivery`. The inductive invariant
  `CallInv` ties the place in the call to what the sensor must have done as long
  as no transfer was lost: which page is selected (`PageKnown`), that the start
  bit is seen clear only after a measurement begun after `base`
  (`RequestServed`), that the result registers hold the last measurement that
  ended (`ResultIsLast`), and for a call that found the sensor quiet that its own
  request is the only one about. `NoDuplicateDelivery` assumes the reference clip
  check disabled, as it is in the build; the invariant is that a latched
  interrupt announces a sample newer than the last delivered one.
* `RangerInit_proof`: `TypeCorrect`, `DeviceConfigured`, `DeviceQuiet`,
  `DeviceForRanging`. `ConfigInv`: from the end of the tuning table on every page
  switch is checked, so the writes of the sequence configuration land.
  `CleanInv`: how many calibrations are done, and that the latch of an earlier
  start is gone before the first of them. `OutstandingInv`: the sensor turns a
  request into a measurement and that into a latch but adds nothing, so a
  calibration that ends and is cleared leaves at most two of them.
  `DeviceForRanging` is what joins this module to `SingleRanging`: the predicate
  it proves, `SensorHandedOut`, is the one `SingleRanging` takes as initial.
* `Station_proof`: `TypeCorrect`, `StatsRefine`, `ServerFollowsLink`,
  `ScrapeNotTorn`, `GiveUpForGood`, `EveryLossCounted`. `SharedInv` says what the
  handlers owe each other between their parts and that a scrape in progress keeps
  the server from being stopped. `LinkInv` describes the event queue: it is
  short and of few shapes because the driver posts a loss only for what it
  connected, and after the last retry it is empty. `CountInv` accounts for losses
  reported but not yet counted.
* `MdnsSearch_proof`: `SearchTypeCorrect` and `WaiterServed`. `WaiterIsServed` is not
  inductive: `Orderly` adds that while `ADD` is pending the search is on no chain, not
  off, not finished and without `END`, and that a finished search has left the
  chain. So a caller who frees it on the semaphore leaves nothing behind.
* `PalModes_proof`: `ModesTypeCorrect`, `StopDropsTuning` (`TuningFollowsSession`) and
  `StateFollows` (`StateFollowsSensor`), under `ModesAssumption`: whichever
  transfers of a call are lost and however many polls. Each part of a call is a
  lemma about the call record: what it keeps (`Plain`, `Keeps`, `Steady`), and what it
  achieves if no transfer was lost in it (`Intact`, `Sure`); the lemmas chain as the
  parts do. `ModesInv` adds to the types that a tuning in the sensor is one that the pin
  and the thresholds in the sensor ask for (`Wanted`), unless `touched` (`TuningKnown`): it
  is why a stop finds it. A stop that loses nothing is on page 0 when it reads the
  thresholds, so that it reads those; a start need not be, and what it loads for other ones
  is `touched` and outside the theorem. `AgreeInv` adds that the driver is `RUNNING` only in
  a continuous mode, and that on page 0 a reset that lost no poll is where the sensor is,
  so that it ends with a sensor as it is after a reset.

* `RangeSettings_proof`, the types and the settings: `TimingTypes`, `SettingsTypes`,
  `LimitsAgree` (`LimitChecksAgree`), `StatusesExplained` (`StatusExplained`),
  `CompensatedNeverTwice` (`NeverCompensatedTwice`) and `CalibrationsInstalled`
  (`CalibrationInstalled`), for any budget, timeout, limit, gain, distance and raw
  measurement and whichever transfer is lost. First the arithmetic: every operator of
  `Arith32` and `StepTimeouts` stays in its width. Then each part of a call as a
  relation between the call record before and after: `Moves` keeps the types and
  carries the agreement of registers and device structure over, even if a transfer was
  lost; `Views` is a part that only reads; `Smooth` that without a loss there is no
  error. They are transitive and `Then` respects them, so the lemma about a call is the
  chain of those of its parts. `SettingsInv` joins the types (`TimingInv`, `Sound`), the
  agreement on each limit (`AgreeFinal`, `AgreePre`) and what the last status says;
  failures do not break it, because each limit is written to the sensor before the
  driver remembers it. `CalibrationInstalled` is proved of the call itself: what is
  left when it returns without a loss is what it installed last.
* `RangeSettings_proof`, the timing budget: `BudgetFits` (`SuccessFitsBudget`),
  `CachedCurrent` (`CachedTimeoutIsCurrent`), `ReadBackStable` (`ReadBackIsStable`) and
  `RefusalsFit` (`RefusalKeepsFit`), for every budget and timeout asked for. They go up
  in four layers.
  *Arithmetic*: below 2^31 the signed numbers of `Arith32` are the integers, a
  quotient is named by the inequalities that bound it (`Rounds`), and so microseconds to
  macro periods (`MclksIs`) and back (`UsIs`) are exact up to a rounding of known size.
  *Registers*: `encode_timeout` keeps the top eight bits (`EncodeIs`), decoding gives a
  value at most that much smaller (`DecodeIs`), and encoding what was decoded is the
  same word (`EncodeAgain`). The powers of two come by counting up, as in a loop.
  *Calls*: `Looks` reads a timeout, `Takes` subtracts its microseconds from the budget,
  `Adds` adds them when the budget is read back, `Applies` is the whole of the code that
  sets the budget; each says exactly what is computed when no transfer is lost.
  *Sequence*: `CostsAre` bounds what the code believes a step to cost by what it does
  cost, with the errors of all steps inside `Slack`; `RestFits` and `Given` conclude that
  the final range programmed with the rest fits and is what the driver remembers.
  For `ReadBackIsStable` the budget computed back may differ from the one set by
  roundings, but it leads to the same macro periods (`ClocksShort`, `ConvertsBack`) and
  hence the same word. `RefusalKeepsFit` needs to know where a call stands in its midst:
  `Outcome` is what may be left at its end. A changed timeout that is
  refused is taken back by writing the microseconds read before; that word may differ
  from the old one by a macro period (`Near`), which costs at most 175 µs of the more than
  600 µs of room a sequence that fits has, so the budget applied after it is not
  refused again (`SteppedBack`, `TakeBackOutcome`). A period is changed the same way,
  with the macro period of the new one (`ChangePreKeepsRoom`, `ChangeFinalKeepsRoom`).
* `RefSpads_proof`: `SpadsTypes`, `ClosestFound` (`ClosestToTarget`) and
  `SpadsReported` (`SpadsAsReported`), for every good map and every signal as a function of
  the map. `Beside`, `Quiet` and `Kept` say what a transfer leaves alone; `EnableIs`
  and `MinimumIs` what `enable_ref_spads` chooses. The search is a walk over the 48
  bits: `Walked` says, for each number of turns, that the map is that of the good SPADs up
  to there, that the sensor holds it and that its signal is still below the target,
  or that the search is over and no other number comes closer; `TurnStep`
  carries it over one turn and `CountUp` over all of them. The walk is a recursive
  function, so its induction is over numbers and the
  statement is about this one function: it takes the least number of turns for
  which it would fail. `Tells` keeps account of a status that `SetReferenceSpads`
  overwrites.

* `MdnsResponder_proof`: `ResponderTypes` and `WorkScheduled` (`WorkIsScheduled`), for any
  finite set of services, any interfaces, queue and number of calls
  (`ResponderAssumption`). `WorkIsScheduled` is not inductive; `Inv` says more in three
  places. `PcbOK`: a block that probes has one packet, which asks for just what the block
  keeps as probed, and its records are those of its questions; of a block that does not
  probe no packet has a question, none is empty and the block keeps nothing as probed; one
  that is not set up is off. Without the last clauses a removal could take the packet of a
  block away and leave its state. `QueueOK`: an action that the service task will look a
  service up for stands in the queue only while the service is known and no removal is
  before it; it is why a changed port or text never puts a freed service into a packet.
  And the queued packets are an embedding of the packet list into the queue (`InOrder`): a
  packet that is dropped leaves its action behind, the action finds another packet at the
  head of the list and is spent, and the order of the rest is untouched. An operation on
  `net` is proved to keep the blocks and packets of the others (`Beside`), then to go from
  one net in order to another (`Keeps`, and `Serves` where names change), and these chain.
  The loops over blocks, packets and services are folds: that the recursive function of a
  fold exists, and that what each turn carries on holds in the end, are the two lemmas
  `FoldExists` and `FoldHolds`, by counting up to the size of the set. A removal is taken
  packet by packet: in the middle of its loop a block may have a packet the loop has not
  come to (`Removing`).

Only model-checked:

* the liveness properties `CallReturns`, `InitReturns`, `SensorStarts`, `ResetReturns`
  and `Settles`: fairness is beyond the prover;
* `SettingsRoundTrip`: it is claimed after any calls, those that lost transfers included.
  Each lost recalculation can move the budget remembered or saved a little away from
  the registers, with no bound over arbitrarily many calls, and past 1.999 s the round
  trip is not exact; so it is a statement about the two calls of the run, and
  `ReadBackStable` is the part of it that holds without a bound;
* `SigmaFollowsSignal`: a monotonicity of roots and quotients in 32 bits, which
  holds of the raw measurements of the run and is not claimed of all;
* `DriverTypeOK`, the conjunction over the four groups that `MCDriverCalls` joins: each
  conjunct is a theorem about its own specification (`TimingTypes`, `SettingsTypes`,
  `ModesTypeCorrect`, `SpadsTypes`), the composition is only checked;
* the violations.

## 5. Assumptions and abstractions

* ESP-IDF runs the handlers of an event in the order they were registered, and
  `httpd_stop` waits for the request being answered or fails.
* A restart takes longer than a measurement, so the sensor is in standby when
  `ranger_init` begins (Wi-Fi is brought up first). Page, latch and sequence
  configuration are arbitrary or as they were left.
* In `SingleRanging` and `RangerInit` pages other than 0 are one value. Registers that decide none of the page,
  start, interrupt, result or sequence state (0x80, 0x88, 0x91, limits, timeouts)
  count only as transfers that may fail.
* In `RangerInit` the timing budget set again inside `SetSequenceStepEnable`, whose
  status is ignored, is an unreported failure and nothing else; `TimingBudget` has it.
* Drawing, log output, text formats, temperature and heap gauges are left out.
  Display access from two tasks is locked, if at all, inside the vendored
  display library.
* One task calls the driver beyond `ranger_init`, and it follows the state diagram in
  `vl53l0x_api.h`: a measurement is started in `IDLE`, modes and power are changed
  while none runs. A transfer lost in `driver_calls` is one for each call, at a
  chosen place.
* mDNS delays are left out: any scheduled packet may come due next. This covers every
  order of packets as long as the millisecond counter does not wrap.
* mDNS services have distinct types (the code refuses a second one of the same
  type and instance), allocations succeed, and a received packet carries one record
  that collides; several such records are several packets. Opening a UDP endpoint
  may fail. An event posted into a full queue is lost.
* No call is made on a service whose removal is still queued: its action would name
  a structure that is gone. Two more situations end a behaviour instead of being
  continued: a packet that was received before its pcb was closed and is parsed
  after puts that pcb to probing (`Stray`), and `END` of a search that was freed
  (`freedUse`).

## 6. Observations

Met while translating, and not the subject of a run. The models do what the code
does wherever they cover it.

Timing: a budget that is set with success may leave the final range with no macro period
of its own: the register holds eight bits of pre-range and final range together, and
after a long pre-range the last of them stands for more than the rest of the budget. A
budget below 2870 µs is not refused. `SetSequenceStepEnable` ignores that the budget was
refused. A step timeout above 65.5 ms overflows `TimeOutMilliSecs * 1000`. An MSRC
timeout of 0 µs becomes 255 macro periods. `SetWrapAroundCheckEnable(0)` clears the bit
that is also the final range step. The status of the first write of a period's phase
limits is overwritten. A phase calibration that fails leaves its own sequence
configured.

Settings: the MSRC limit, once switched off, does not come back on (its mask is that
of bit 0). With a gain other than 1000 the first measurement switches crosstalk
compensation off in the device structure, because it reads the register back as 0, and
setting the gain to 1000 again does not restore it. `SignalRate - ... <= 0` compares an
unsigned difference. The sigma estimate looks at `RangeStatus` of a structure that has
not been filled in yet. A final range timeout below 0.5 ms is 0 ms and the sigma
reference divides by it. The comment at `vl53l0x_api_core.c:1780` says that the product of
time of flight and crosstalk correction fits 32 bits; beyond 712 mm with crosstalk on it
need not. Total signal rates wrap above 65.5 Mcps, the sum of an
offset calibration above a mean of 1310 mm. A calibration without a valid sample
replaces the error of the bus with `RANGE_ERROR`. An offset calibration that fails returns
with the sequence step TCC off.

Modes: `SetPowerMode` writes 0 to 0x80 in both branches. A reset whose first write is
lost can return success without a reset. `StopMeasurement` overwrites the status of the
write that stops. `GetStopCompletedStatus` takes a failed read for a stopped sensor.
`GPIO_OSC` ends on page 1, so the next start goes there. `ClearInterruptMask` reports
`INTERRUPT_NOT_CLEARED` when the third try succeeds. A start whose write back to page 0 is
lost (`vl53l0x_api.c:2302`, its status overwritten) reads the thresholds on page 1 and may
load a tuning that those of the sensor do not ask for; a stop reads those and does not drop
it. `ResetDevice` after `GPIO_OSC` writes and polls on page 1: nothing ends its two loops
unless a byte there happens to be 0 and then not 0.

SPADs: a first measurement that hits the target exactly reports 0 SPADs. Comments speak
of five initial SPADs, the code uses three. The search is bounded by the map of six
bytes, not by the window of 44 SPADs. A failed measurement of the reference signal
leaves its sequence and page 1.

mDNS: adding or renaming a service, or a collision, while another one waits for its
first announcement drops that announcement for good: `_mdns_init_pcb_probe` clears the
packets of the pcb and takes over only what is being probed. A removed service can put
an announcing pcb to `RUNNING` early when a shared answer was scheduled beside the
announcement. Shared answers move the announcement on when they are sent.
`mdns_service_add` may return `ESP_FAIL` for a service that is added later.
`_copy_delegated_host_address_list` does not advance past a host of another name.

## 7. Not modelled

* mDNS: encoding and parsing of records, names and their mangling, which of several
  answers is known already (`_mdns_remove_scheduled_answer`), copies of one-shot
  questions, delegated hosts, subtypes, reverse lookups, `mdns_free`. These compute on
  bytes and lists within one action and decide what a packet says; the models keep
  whether it is sent and about whom. `mdns_console.c` (a shell) and
  `mdns_networking_*.c` (the sockets, where a packet in and a packet out is all the
  models need) are left out whole.
* Strings and logging (`vl53l0x_api_strings.c`, `vl53l0x_api_ranging.c`, which is
  empty): no state.
* The histogram functions: they return `NOT_IMPLEMENTED`.
* M5 and display libraries, other vendored code, build output; drawing, temperature
  and heap gauges, NVS.
* Three hazards have no property: the drawing of two tasks (its locking is in the
  display library), the interrupt status byte that is used after a failed read (the call
  fails either way, with one of two errors the application treats alike), and the wrap of the mDNS millisecond counter after 49.7 days
  (times are left out; with them the state space would not be finite in a useful
  bound).

## 8. Plan

Done: `Sensor`, `SingleRanging`, `RangerInit`, `LinkStats`, `Station`; `TimingBudget` with
`StepTimeouts`; `RangeData` and `RangeSettings` with the two calibrations; `PalModes`;
`RefSpads`; `MdnsResponder` and `MdnsSearch`; the theorems listed above.

What would add most next: the composition of the four groups of `MCDriverCalls`, so that
their theorems become theorems of the joint specification; `SettingsRoundTrip` for the
calls after which budget and registers still belong together; and `SigmaFollowsSignal`
for the signals that fit their width.
