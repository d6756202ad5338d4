---------------------------- MODULE PalModes_proof ----------------------------
(***************************************************************************)
(* Proofs about PalModes, for every value of its constants.  The steps of  *)
(* a call are lemmas about the call record; the theorems put them          *)
(* together, one action at a time.                                         *)
(***************************************************************************)
EXTENDS PalModes, TLAPS

Pages == {0, 1, 4, 14}
Runs == {"idle", "single", "stopping"} \cup Continuous
Lines == {"up", "falling", "down", "booting"}
Powers == {"standby", "idle"}
Bit == {0, 1}
Functions == 0 .. 4
Waits == {"ok", "timeout"}

Chip == [page : Pages, run : Runs, func : Functions, latched : Functions,
         done : Bit, tuned : Bit, standby : Bit,
         low : Halves, high : Halves, line : Lines]

Pal == [state : States, mode : DeviceModes, func : Functions, power : Powers]

CallRecord == [chip : Chip, pal : Pal, touched : Bit, fuse : Int,
               status : Statuses, wait : Waits, late : Bit, ready : Bit,
               stray : Halves]

(* No transfer was lost between c and d.                                   *)
Intact(c, d) == c.fuse < 0 \/ d.fuse >= 0

(* The sensor's measurements and the state of the device are untouched.    *)
SameState(c, d) == d.chip.run = c.chip.run /\ d.pal = c.pal

(* What the tuning depends on is untouched.                                *)
SamePin(c, d) ==
    /\ d.chip.low = c.chip.low /\ d.chip.high = c.chip.high
    /\ d.pal.func = c.pal.func /\ d.chip.func = c.chip.func

(* A part of a call that leads from c to d and does not tune.              *)
Plain(c, d) ==
    /\ d \in CallRecord /\ d.fuse <= c.fuse
    /\ SamePin(c, d) /\ d.chip.tuned = c.chip.tuned /\ d.touched = c.touched

LEMMA PlainChains ==
    ASSUME NEW c \in CallRecord, NEW d, NEW e, Plain(c, d), Plain(d, e)
    PROVE  Plain(c, e) /\ (Intact(c, e) => Intact(c, d) /\ Intact(d, e))
  BY DEF Plain, SamePin, Intact, CallRecord
-----------------------------------------------------------------------------
(* Single transfers.                                                       *)

LEMMA StatusNames ==
    /\ "none" \in Statuses /\ "io" \in Statuses /\ "timeout" \in Statuses
    /\ "unsupported" \in Statuses /\ "gpio" \in Statuses /\ "uncleared" \in Statuses
  BY DEF Statuses

LEMMA TransferStep ==
    ASSUME NEW c \in CallRecord
    PROVE  LET d == Transfer(c) IN
           /\ Plain(c, d) /\ SameState(c, d) /\ d.chip = c.chip
           /\ d.late = c.late /\ d.wait = c.wait /\ d.stray = c.stray
           /\ Intact(c, d) => d.status = "none"
           /\ d.status \in {"none", "io"}
<1> DEFINE f == c.fuse - 1
           s == IF c.fuse = 0 THEN "io" ELSE "none"
           d == Transfer(c)
<1>1. c.fuse \in Int /\ f \in Int /\ s \in Statuses
  BY StatusNames DEF CallRecord
<1>2. d = [c EXCEPT !.fuse = f, !.status = s]
  BY DEF Transfer
<1>3. s = "none" \/ (s = "io" /\ c.fuse = 0)
  OBVIOUS
<1>4. f = c.fuse - 1
  OBVIOUS
<1> HIDE DEF d, f, s
<1>5. /\ d \in CallRecord /\ d.fuse = f /\ d.status = s
      /\ d.chip = c.chip /\ d.pal = c.pal /\ d.late = c.late /\ d.wait = c.wait
      /\ d.touched = c.touched /\ d.stray = c.stray
  BY <1>1, <1>2 DEF CallRecord
<1> QED
  BY <1>1, <1>3, <1>4, <1>5 DEF Plain, SamePin, SameState, Intact, d

(* A sensor with one register changed, a call record with another sensor.  *)
LEMMA ChipUpdate ==
    ASSUME NEW x \in Chip
    PROVE  /\ \A p \in Pages : [x EXCEPT !.page = p] \in Chip
           /\ \A r \in Runs : [x EXCEPT !.run = r] \in Chip
           /\ \A v \in Bit : /\ [x EXCEPT !.standby = v] \in Chip
                            /\ [x EXCEPT !.tuned = v] \in Chip
                            /\ [x EXCEPT !.done = v] \in Chip
           /\ \A v \in Functions : /\ [x EXCEPT !.func = v] \in Chip
                                  /\ [x EXCEPT !.latched = v] \in Chip
           /\ \A v \in Halves : /\ [x EXCEPT !.low = v] \in Chip
                               /\ [x EXCEPT !.high = v] \in Chip
  BY DEF Chip

(* The sensor as it is after a reset, and while it boots.                  *)
LEMMA FreshChip ==
    /\ Fresh \in Chip /\ [Fresh EXCEPT !.line = "booting"] \in Chip
    /\ Fresh.tuned = 0 /\ [Fresh EXCEPT !.line = "booting"].tuned = 0
<1>1. 0 \in Halves
  BY DEF Halves
<1>2. 0 \in Functions /\ 0 \in Bit /\ 1 \in Bit /\ 0 \in Pages /\ "idle" \in Runs
  BY DEF Functions, Bit, Pages, Runs
<1>3. "up" \in Lines /\ "booting" \in Lines
  BY DEF Lines
<1> QED
  BY <1>1, <1>2, <1>3 DEF Fresh, Chip

LEMMA RecordUpdate ==
    ASSUME NEW c \in CallRecord
    PROVE  /\ \A x \in Chip : [c EXCEPT !.chip = x] \in CallRecord
           /\ \A x \in Pal : [c EXCEPT !.pal = x] \in CallRecord
           /\ \A v \in Bit : /\ [c EXCEPT !.touched = v] \in CallRecord
                            /\ [c EXCEPT !.ready = v] \in CallRecord
           /\ \A v \in Statuses : [c EXCEPT !.status = v] \in CallRecord
           /\ \A v \in Halves : [c EXCEPT !.stray = v] \in CallRecord
  BY DEF CallRecord

LEMMA RecordFields ==
    ASSUME NEW c \in CallRecord
    PROVE  /\ c.chip \in Chip /\ c.pal \in Pal /\ c.fuse \in Int
           /\ c.touched \in Bit /\ c.late \in Bit /\ c.ready \in Bit
           /\ c.status \in Statuses /\ c.wait \in Waits /\ c.stray \in Halves
           /\ DOMAIN c = {"chip", "pal", "touched", "fuse", "status", "wait", "late",
                           "ready", "stray"}
           /\ DOMAIN c.chip = {"page", "run", "func", "latched", "done", "tuned",
                               "standby", "low", "high", "line"}
  BY DEF CallRecord, Chip

(* A transfer that is to make x of the sensor.                             *)
Written(c, x) ==
    IF Transfer(c).status = "none" THEN [Transfer(c) EXCEPT !.chip = x] ELSE Transfer(c)

LEMMA WriteStep ==
    ASSUME NEW c \in CallRecord, NEW x \in Chip
    PROVE  LET d == Written(c, x) IN
           /\ d \in CallRecord /\ d.fuse <= c.fuse
           /\ d.pal = c.pal /\ d.touched = c.touched
           /\ d.late = c.late /\ d.wait = c.wait
           /\ d.chip \in {x, c.chip} /\ d.status \in {"none", "io"}
           /\ d.status = "none" => d.chip = x
           /\ Intact(c, d) => d.status = "none" /\ d.chip = x
<1> DEFINE d == Written(c, x)
           t == Transfer(c)
           w == [t EXCEPT !.chip = x]
<1>1. t \in CallRecord /\ Plain(c, t) /\ SameState(c, t) /\ t.chip = c.chip
        /\ t.late = c.late /\ t.wait = c.wait
        /\ (Intact(c, t) => t.status = "none") /\ t.status \in {"none", "io"}
  BY TransferStep DEF Plain
<1>2. d = IF t.status = "none" THEN w ELSE t
  BY DEF Written
<1> HIDE DEF t, d
<1>3. w \in CallRecord
  BY <1>1, RecordUpdate
<1>4. /\ w.chip = x /\ w.pal = t.pal /\ w.fuse = t.fuse
      /\ w.status = t.status /\ w.touched = t.touched
      /\ w.late = t.late /\ w.wait = t.wait
  BY <1>1, RecordFields
<1> HIDE DEF w
<1> QED
  BY <1>1, <1>2, <1>3, <1>4 DEF Plain, SameState, Intact, d

(* The fields of a sensor one of whose registers is written.               *)
LEMMA TransferredChip ==
    ASSUME NEW c \in CallRecord
    PROVE  Transfer(c).chip = c.chip /\ Transfer(c).pal = c.pal /\ c.chip \in Chip
  BY TransferStep, RecordFields DEF SameState

LEMMA SelectStep ==
    ASSUME NEW c \in CallRecord, NEW p \in Pages
    PROVE  LET d == Select(c, p) IN
           /\ Plain(c, d) /\ SameState(c, d)
           /\ d.late = c.late /\ d.wait = c.wait
           /\ Intact(c, d) => d.status = "none" /\ d.chip.page = p
           /\ d.status = "none" => d.chip.page = p
           /\ d.status \in {"none", "io"}
<1> DEFINE d == Select(c, p)
           x == [c.chip EXCEPT !.page = p]
<1>1. d = Written(c, x)
  BY TransferredChip DEF Select, Done, Then, Written
<1>2. x \in Chip
  BY RecordFields, ChipUpdate
<1>3. /\ x.page = p /\ x.run = c.chip.run /\ x.tuned = c.chip.tuned
      /\ x.low = c.chip.low /\ x.high = c.chip.high /\ x.func = c.chip.func
  BY RecordFields
<1> HIDE DEF d, x
<1>4. /\ d \in CallRecord /\ d.fuse <= c.fuse
      /\ d.pal = c.pal /\ d.touched = c.touched
      /\ d.late = c.late /\ d.wait = c.wait
      /\ d.chip \in {x, c.chip} /\ d.status \in {"none", "io"}
      /\ d.status = "none" => d.chip = x
      /\ Intact(c, d) => d.status = "none" /\ d.chip = x
  BY <1>1, <1>2, WriteStep
<1> QED
  BY <1>3, <1>4 DEF Plain, SamePin, SameState, d

LEMMA PowerStep ==
    ASSUME NEW c \in CallRecord, NEW v \in Bit
    PROVE  LET d == Power80(c, v) IN
           /\ Plain(c, d) /\ SameState(c, d) /\ d.chip.page = c.chip.page
           /\ d.late = c.late /\ d.wait = c.wait
           /\ Intact(c, d) => d.status = "none"
           /\ d.status \in {"none", "io"}
<1> DEFINE d == Power80(c, v)
           x == [c.chip EXCEPT !.standby = 1 - v]
<1>1. d = Written(c, x)
  BY TransferredChip DEF Power80, Done, Then, Written
<1>2. x \in Chip
  <2>1. 1 - v \in Bit
    BY DEF Bit
  <2> QED
    BY <2>1, RecordFields, ChipUpdate
<1>3. /\ x.page = c.chip.page /\ x.run = c.chip.run /\ x.tuned = c.chip.tuned
      /\ x.low = c.chip.low /\ x.high = c.chip.high /\ x.func = c.chip.func
  BY RecordFields
<1> HIDE DEF d, x
<1>4. /\ d \in CallRecord /\ d.fuse <= c.fuse
      /\ d.pal = c.pal /\ d.touched = c.touched
      /\ d.late = c.late /\ d.wait = c.wait
      /\ d.chip \in {x, c.chip} /\ d.status \in {"none", "io"}
      /\ Intact(c, d) => d.status = "none" /\ d.chip = x
  BY <1>1, <1>2, WriteStep
<1> QED
  BY <1>3, <1>4 DEF Plain, SamePin, SameState, d

LEMMA StartedRuns ==
    ASSUME NEW r \in Runs, NEW v \in Continuous \cup {"start", "none"}
    PROVE  /\ Started0(r, v) \in Runs
           /\ v \in Continuous => Started0(r, v) = v
           /\ v \notin Continuous => Started0(r, v) \notin Continuous
           /\ v = "none" /\ r \notin Continuous => Started0(r, v) = r
  BY DEF Started0, Runs, Continuous

LEMMA SysrangeStep ==
    ASSUME NEW c \in CallRecord, NEW v \in Continuous \cup {"start", "none"}
    PROVE  LET d == SysrangeStart(c, v) IN
           /\ Plain(c, d) /\ d.pal = c.pal /\ d.chip.page = c.chip.page
           /\ d.late = c.late /\ d.wait = c.wait
           /\ c.chip.page # 0 => SameState(c, d)
           /\ d.chip.run \in {c.chip.run, Started0(c.chip.run, v)}
           /\ Intact(c, d) =>
                /\ d.status = "none"
                /\ c.chip.page = 0 => d.chip.run = Started0(c.chip.run, v)
           /\ d.status \in {"none", "io"}
<1> DEFINE d == SysrangeStart(c, v)
           y == [c.chip EXCEPT !.run = Started0(c.chip.run, v)]
           x == IF c.chip.page = 0 THEN y ELSE c.chip
<1>1. d = Written(c, x)
  <2>1. CASE c.chip.page = 0
    BY <2>1, TransferredChip DEF SysrangeStart, Done, Then, Page0, Written
  <2>2. CASE c.chip.page # 0
    <3>1. [Transfer(c) EXCEPT !.chip = c.chip] = Transfer(c)
      <4>1. Transfer(c) \in CallRecord
        BY TransferStep DEF Plain
      <4> QED
        BY <4>1, TransferredChip DEF CallRecord
    <3> QED
      BY <2>2, <3>1, TransferredChip DEF SysrangeStart, Done, Then, Page0, Written
  <2> QED
    BY <2>1, <2>2
<1>2. c.chip \in Chip /\ c.chip.run \in Runs
  BY RecordFields DEF Chip
<1>3. y \in Chip
  BY <1>2, StartedRuns, ChipUpdate
<1>4. /\ y.page = c.chip.page /\ y.run = Started0(c.chip.run, v)
      /\ y.tuned = c.chip.tuned
      /\ y.low = c.chip.low /\ y.high = c.chip.high /\ y.func = c.chip.func
  BY RecordFields
<1>5. x \in {c.chip, y} /\ x \in Chip /\ (c.chip.page = 0 => x = y)
        /\ (c.chip.page # 0 => x = c.chip)
  BY <1>2, <1>3
<1> HIDE DEF d, x, y
<1>6. /\ d \in CallRecord /\ d.fuse <= c.fuse
      /\ d.pal = c.pal /\ d.touched = c.touched
      /\ d.late = c.late /\ d.wait = c.wait
      /\ d.chip \in {x, c.chip} /\ d.status \in {"none", "io"}
      /\ Intact(c, d) => d.status = "none" /\ d.chip = x
  BY <1>1, <1>5, WriteStep
<1> QED
  BY <1>4, <1>5, <1>6 DEF Plain, SamePin, SameState, d
-----------------------------------------------------------------------------
(* Parts of calls.                                                         *)

(* A part that may tune, but moves neither measurements nor state.         *)
Quiet(c, d) ==
    /\ d \in CallRecord /\ d.fuse <= c.fuse
    /\ SamePin(c, d) /\ SameState(c, d) /\ d.touched = c.touched

LEMMA QuietChains ==
    ASSUME NEW c \in CallRecord, NEW d, NEW e, Quiet(c, d), Quiet(d, e)
    PROVE  Quiet(c, e) /\ (Intact(c, e) => Intact(c, d) /\ Intact(d, e))
<1>1. c.fuse \in Int /\ d.fuse \in Int /\ e.fuse \in Int
  BY RecordFields DEF Quiet
<1> QED
  BY <1>1 DEF Quiet, SamePin, SameState, Intact

LEMMA FailStep ==
    ASSUME NEW c \in CallRecord, NEW s \in Statuses
    PROVE  LET d == Fail(c, s) IN
           /\ Quiet(c, d) /\ Plain(c, d) /\ d.chip = c.chip /\ d.status = s
           /\ d.late = c.late /\ d.wait = c.wait /\ d.fuse = c.fuse /\ d.ready = c.ready
<1>1. Fail(c, s) \in CallRecord
  BY RecordUpdate DEF Fail
<1>2. c.fuse \in Int
  BY RecordFields
<1> QED
  BY <1>1, <1>2, RecordFields DEF Fail, Quiet, Plain, SamePin, SameState

LEMMA StopVariableStep ==
    ASSUME NEW c \in CallRecord
    PROVE  LET d == WriteStopVariable(c) IN
           /\ Plain(c, d) /\ d.pal = c.pal /\ d.late = c.late /\ d.wait = c.wait
           /\ d.status = "none" => d.chip.page = 0
           /\ Intact(c, d) => /\ d.status = "none" /\ d.chip.page = 0
                              /\ d.chip.run = c.chip.run
<1> DEFINE s1 == Select(c, 1)
           s2 == SysrangeStart(s1, "none")
           s3 == Transfer(s2)
           s4 == SysrangeStart(s3, "start")
           s5 == Select(s4, 0)
<1>1. /\ Plain(c, s1) /\ SameState(c, s1) /\ (Intact(c, s1) => s1.chip.page = 1)
      /\ s1.late = c.late /\ s1.wait = c.wait
  BY SelectStep DEF Pages
<1> HIDE DEF s1
<1>2. /\ Plain(s1, s2) /\ s2.pal = s1.pal /\ s2.chip.page = s1.chip.page
      /\ (s1.chip.page # 0 => SameState(s1, s2))
      /\ s2.late = s1.late /\ s2.wait = s1.wait
  BY <1>1, SysrangeStep DEF Plain
<1> HIDE DEF s2
<1>3. /\ Plain(s2, s3) /\ SameState(s2, s3) /\ s3.chip = s2.chip
      /\ s3.late = s2.late /\ s3.wait = s2.wait
  BY <1>2, TransferStep DEF Plain
<1> HIDE DEF s3
<1>4. /\ Plain(s3, s4) /\ s4.pal = s3.pal
      /\ (s3.chip.page # 0 => SameState(s3, s4))
      /\ s4.late = s3.late /\ s4.wait = s3.wait
  BY <1>3, SysrangeStep DEF Plain
<1> HIDE DEF s4
<1>5. /\ Plain(s4, s5) /\ SameState(s4, s5)
      /\ (Intact(s4, s5) => s5.status = "none" /\ s5.chip.page = 0)
      /\ (s5.status = "none" => s5.chip.page = 0)
      /\ s5.late = s4.late /\ s5.wait = s4.wait
  BY <1>4, SelectStep DEF Plain, Pages
<1>6. WriteStopVariable(c) = s5
  BY DEF WriteStopVariable, s1, s2, s3, s4, s5
<1> HIDE DEF s5
<1>7. Plain(s3, s5) /\ (Intact(s3, s5) => Intact(s3, s4) /\ Intact(s4, s5))
  BY <1>3, <1>4, <1>5, PlainChains DEF Plain
<1>8. Plain(s2, s5) /\ (Intact(s2, s5) => Intact(s3, s5))
  BY <1>2, <1>3, <1>7, PlainChains DEF Plain
<1>9. Plain(s1, s5) /\ (Intact(s1, s5) => Intact(s2, s5))
  BY <1>1, <1>2, <1>8, PlainChains DEF Plain
<1>10. Plain(c, s5) /\ (Intact(c, s5) => Intact(c, s1) /\ Intact(s1, s5))
  BY <1>1, <1>9, PlainChains
<1> QED
  BY <1>1, <1>2, <1>3, <1>4, <1>5, <1>6, <1>7, <1>8, <1>9, <1>10 DEF SameState

LEMMA RearmStep ==
    ASSUME NEW c \in CallRecord
    PROVE  LET d == Rearm(c) IN
           /\ Plain(c, d) /\ d.pal = c.pal /\ d.late = c.late /\ d.wait = c.wait
           /\ Intact(c, d) => /\ d.status = "none" /\ d.chip.page = 0
                              /\ d.chip.run = c.chip.run
<1> DEFINE s1 == Power80(c, 1)
           s2 == WriteStopVariable(s1)
           s3 == Power80(s2, 0)
<1>1. Plain(c, s1) /\ SameState(c, s1) /\ s1.late = c.late /\ s1.wait = c.wait
  BY PowerStep DEF Bit
<1> HIDE DEF s1
<1>2. /\ Plain(s1, s2) /\ s2.pal = s1.pal
      /\ s2.late = s1.late /\ s2.wait = s1.wait
      /\ Intact(s1, s2) => s2.chip.page = 0 /\ s2.chip.run = s1.chip.run
  BY <1>1, StopVariableStep DEF Plain
<1> HIDE DEF s2
<1>3. /\ Plain(s2, s3) /\ SameState(s2, s3) /\ s3.chip.page = s2.chip.page
      /\ s3.late = s2.late /\ s3.wait = s2.wait
      /\ Intact(s2, s3) => s3.status = "none"
  BY <1>2, PowerStep DEF Plain, Bit
<1>4. Rearm(c) = s3
  BY DEF Rearm, s1, s2, s3
<1> HIDE DEF s3
<1>5. Plain(s1, s3) /\ (Intact(s1, s3) => Intact(s1, s2) /\ Intact(s2, s3))
  BY <1>1, <1>2, <1>3, PlainChains DEF Plain
<1>6. Plain(c, s3) /\ (Intact(c, s3) => Intact(s1, s3))
  BY <1>1, <1>5, PlainChains
<1> QED
  BY <1>1, <1>2, <1>3, <1>4, <1>5, <1>6 DEF SameState
-----------------------------------------------------------------------------
(* The interrupt settings.                                                 *)

(* A quiet part that reports every transfer it loses.                      *)
Sure(c, d) == Quiet(c, d) /\ (Intact(c, d) => d.status = "none")

LEMMA ThenSure ==
    ASSUME NEW c \in CallRecord, NEW d, NEW e, Sure(c, d),
           d.status = "none" => Sure(d, e), d.status # "none" => e = d
    PROVE  /\ Sure(c, e)
           /\ Intact(c, e) => Intact(c, d) /\ Intact(d, e) /\ d.status = "none"
<1>1. CASE d.status = "none"
  BY <1>1, QuietChains DEF Sure
<1>2. CASE d.status # "none"
  BY <1>2 DEF Sure
<1> QED
  BY <1>1, <1>2

LEMMA AlsoSure ==
    ASSUME NEW c \in CallRecord, NEW d, NEW x, NEW e, Sure(c, d), Sure(d, x),
           e = IF d.status = "none" THEN x ELSE Fail(x, d.status)
    PROVE  /\ Sure(c, e) /\ e.chip = x.chip
           /\ Intact(c, e) => Intact(c, d) /\ Intact(d, x)
<1>1. Quiet(c, x) /\ (Intact(c, x) => Intact(c, d) /\ Intact(d, x))
  BY QuietChains DEF Sure
<1>2. x \in CallRecord /\ d \in CallRecord
  BY DEF Sure, Quiet
<1>3. CASE d.status = "none"
  BY <1>1, <1>3 DEF Sure
<1>4. CASE d.status # "none"
  <2>1. /\ Quiet(x, e) /\ e.chip = x.chip /\ e.fuse = x.fuse
    BY <1>2, <1>4, FailStep, RecordFields
  <2>2. Quiet(c, e)
    BY <1>1, <2>1, QuietChains
  <2> QED
    BY <1>1, <1>4, <2>1, <2>2 DEF Sure, Intact
<1> QED
  BY <1>3, <1>4

LEMMA SureSelect ==
    ASSUME NEW c \in CallRecord, NEW p \in Pages
    PROVE  LET d == Select(c, p) IN
           /\ Sure(c, d) /\ d.chip.tuned = c.chip.tuned
           /\ Intact(c, d) => d.chip.page = p
  BY SelectStep DEF Sure, Quiet, Plain

LEMMA SurePower ==
    ASSUME NEW c \in CallRecord, NEW v \in Bit
    PROVE  LET d == Power80(c, v) IN Sure(c, d) /\ d.chip.tuned = c.chip.tuned
  BY PowerStep DEF Sure, Quiet, Plain

LEMMA SureTransfer ==
    ASSUME NEW c \in CallRecord
    PROVE  Sure(c, Transfer(c)) /\ Transfer(c).chip.tuned = c.chip.tuned
  BY TransferStep DEF Sure, Quiet, Plain

LEMMA StretchStep ==
    ASSUME NEW c \in CallRecord, NEW p \in Pages
    PROVE  Sure(c, Stretch(c, p))
<1> DEFINE t == Transfer(c)
           x == [t.chip EXCEPT !.page = p]
           d == [t EXCEPT !.chip = x]
<1>1. t \in CallRecord /\ Sure(c, t)
  BY SureTransfer DEF Sure, Quiet
<1> HIDE DEF t
<1>2. x \in Chip
  BY <1>1, RecordFields, ChipUpdate
<1>3. /\ x.run = t.chip.run /\ x.low = t.chip.low
      /\ x.high = t.chip.high /\ x.func = t.chip.func
  BY <1>1, RecordFields
<1> HIDE DEF x
<1>4. /\ d \in CallRecord /\ d.chip = x /\ d.pal = t.pal /\ d.fuse = t.fuse
      /\ d.status = t.status /\ d.touched = t.touched
  BY <1>1, <1>2, RecordUpdate, RecordFields
<1>5. Stretch(c, p) \in {d, t}
  BY DEF Stretch, d, t, x
<1> HIDE DEF d
<1> QED
  BY <1>1, <1>3, <1>4, <1>5 DEF Sure, Quiet, SamePin, SameState, Intact

LEMMA LoadStep ==
    ASSUME NEW c \in CallRecord
    PROVE  LET d == LoadThresholdTuning(c) IN
           Sure(c, d) /\ (Intact(c, d) => d.chip.page = 0)
<1> DEFINE s1 == Select(c, 0)
           p == Power80(s1, 1)
           s2 == IF s1.status = "none" THEN Stretch(p, 1) ELSE s1
           s3 == IF s2.status = "none" THEN Stretch(s2, 14) ELSE s2
           t == Stretch(s3, 4)
           u == [t EXCEPT !.chip.tuned = 1]
           s4 == IF s3.status = "none" THEN u ELSE s3
           s5 == IF s4.status = "none" THEN Stretch(s4, 1) ELSE s4
           s6 == IF s5.status = "none" THEN Select(s5, 0) ELSE s5
<1>0. LoadThresholdTuning(c) = s6
  BY DEF LoadThresholdTuning, Then
<1>1. Sure(c, s1)
  BY SureSelect DEF Pages
<1> HIDE DEF s1
<1>2. Sure(c, s2)
  <2>1. Sure(s1, p) /\ p \in CallRecord
    BY <1>1, SurePower DEF Sure, Quiet, Bit
  <2>2. Sure(p, Stretch(p, 1))
    BY <2>1, StretchStep DEF Pages
  <2>3. Sure(s1, Stretch(p, 1))
    BY <1>1, <2>1, <2>2, QuietChains DEF Sure, Quiet
  <2> QED
    BY <1>1, <2>3, ThenSure
<1> HIDE DEF s2
<1>3. Sure(c, s3) /\ s3 \in CallRecord
  <2>1. Sure(s2, Stretch(s2, 14))
    BY <1>2, StretchStep DEF Sure, Quiet, Pages
  <2> QED
    BY <1>2, <2>1, ThenSure DEF Sure, Quiet
<1> HIDE DEF s3
<1>4. Sure(c, s4)
  <2>1. Sure(s3, t) /\ t \in CallRecord
    BY <1>3, StretchStep DEF Sure, Quiet, Pages
  <2> HIDE DEF t
  <2> DEFINE x == [t.chip EXCEPT !.tuned = 1]
  <2>2. x \in Chip
    BY <2>1, RecordFields, ChipUpdate DEF Bit
  <2>3. /\ x.run = t.chip.run /\ x.low = t.chip.low
        /\ x.high = t.chip.high /\ x.func = t.chip.func
    BY <2>1, RecordFields
  <2>4. u = [t EXCEPT !.chip = x]
    OBVIOUS
  <2> HIDE DEF x, u
  <2>5. /\ u \in CallRecord /\ u.chip = x /\ u.pal = t.pal /\ u.fuse = t.fuse
        /\ u.status = t.status /\ u.touched = t.touched
    BY <2>1, <2>2, <2>4, RecordUpdate, RecordFields
  <2>6. Sure(s3, u)
    BY <2>1, <2>3, <2>5 DEF Sure, Quiet, SamePin, SameState, Intact
  <2> QED
    BY <1>3, <2>6, ThenSure
<1> HIDE DEF s4
<1>5. Sure(c, s5)
  <2>1. Sure(s4, Stretch(s4, 1))
    BY <1>4, StretchStep DEF Sure, Quiet, Pages
  <2> QED
    BY <1>4, <2>1, ThenSure
<1> HIDE DEF s5
<1>6. Sure(c, s6) /\ (Intact(c, s6) => s6.chip.page = 0)
  <2>1. /\ Sure(s5, Select(s5, 0))
        /\ Intact(s5, Select(s5, 0)) => Select(s5, 0).chip.page = 0
    BY <1>5, SureSelect DEF Sure, Quiet, Pages
  <2> QED
    BY <1>5, <2>1, ThenSure
<1> QED
  BY <1>0, <1>6

LEMMA DropStep ==
    ASSUME NEW c \in CallRecord
    PROVE  LET d == DropThresholdTuning(c) IN
           Sure(c, d) /\ (Intact(c, d) => d.chip.tuned = 0 /\ d.chip.page = 0)
<1> DEFINE s1 == Select(c, 4)
           y == [s1.chip EXCEPT !.tuned = 0]
           x == IF s1.chip.page = 4 THEN y ELSE s1.chip
           w == Done(s1, LAMBDA z :
                    IF z.chip.page = 4 THEN [z EXCEPT !.chip.tuned = 0] ELSE z)
           s2 == IF s1.status = "none" THEN w ELSE Fail(w, s1.status)
           v == Select(s2, 0)
           s3 == IF s2.status = "none" THEN v ELSE Fail(v, s2.status)
           q == Power80(s3, 0)
           s4 == IF s3.status = "none" THEN q ELSE Fail(q, s3.status)
<1>0. DropThresholdTuning(c) = s4
  BY DEF DropThresholdTuning, AlsoThen
<1>1. Sure(c, s1) /\ s1 \in CallRecord /\ (Intact(c, s1) => s1.chip.page = 4)
  BY SureSelect DEF Sure, Quiet, Pages
<1> HIDE DEF s1
<1>2. w = Written(s1, x)
  <2>1. CASE s1.chip.page = 4
    BY <1>1, <2>1, TransferredChip DEF Done, Then, Written
  <2>2. CASE s1.chip.page # 4
    <3>1. [Transfer(s1) EXCEPT !.chip = s1.chip] = Transfer(s1)
      <4>1. Transfer(s1) \in CallRecord
        BY <1>1, TransferStep DEF Plain
      <4> QED
        BY <1>1, <4>1, TransferredChip DEF CallRecord
    <3> QED
      BY <1>1, <2>2, <3>1, TransferredChip DEF Done, Then, Written
  <2> QED
    BY <2>1, <2>2
<1>3. s1.chip \in Chip /\ y \in Chip
  BY <1>1, RecordFields, ChipUpdate DEF Bit
<1>4. /\ y.page = s1.chip.page /\ y.run = s1.chip.run /\ y.tuned = 0
      /\ y.low = s1.chip.low /\ y.high = s1.chip.high /\ y.func = s1.chip.func
  BY <1>1, RecordFields
<1>5. x \in {s1.chip, y} /\ x \in Chip /\ (s1.chip.page = 4 => x = y)
  BY <1>3
<1> HIDE DEF x, y, w
<1>6. /\ w \in CallRecord /\ w.fuse <= s1.fuse
      /\ w.pal = s1.pal /\ w.touched = s1.touched
      /\ w.chip \in {x, s1.chip}
      /\ Intact(s1, w) => w.status = "none" /\ w.chip = x
  BY <1>1, <1>2, <1>5, WriteStep
<1>7. Sure(s1, w) /\ (Intact(s1, w) /\ s1.chip.page = 4 => w.chip.tuned = 0)
  BY <1>4, <1>5, <1>6 DEF Sure, Quiet, SamePin, SameState
<1>8. /\ Sure(c, s2) /\ s2.chip = w.chip
      /\ Intact(c, s2) => Intact(c, s1) /\ Intact(s1, w)
  BY <1>1, <1>7, AlsoSure
<1> HIDE DEF s2
<1>9. /\ Sure(s2, v) /\ v.chip.tuned = s2.chip.tuned
      /\ Intact(s2, v) => v.chip.page = 0
  BY <1>8, SureSelect DEF Sure, Quiet, Pages
<1> HIDE DEF v
<1>10. /\ Sure(c, s3) /\ s3.chip = v.chip
       /\ Intact(c, s3) => Intact(c, s2) /\ Intact(s2, v)
  BY <1>8, <1>9, AlsoSure
<1> HIDE DEF s3
<1>11. Sure(s3, q) /\ q.chip.tuned = s3.chip.tuned /\ q.chip.page = s3.chip.page
  BY <1>10, SurePower, PowerStep DEF Sure, Quiet, Bit
<1> HIDE DEF q
<1>12. /\ Sure(c, s4) /\ s4.chip = q.chip
       /\ Intact(c, s4) => Intact(c, s3)
  BY <1>10, <1>11, AlsoSure
<1> QED
  BY <1>0, <1>1, <1>7, <1>8, <1>9, <1>10, <1>11, <1>12

(* What is loaded is known: the pin asks for it, or touched says not.      *)
Known(c) == c.chip.tuned = 1 /\ c.touched = 0 => Wanted(c)

LEMMA WantedSame ==
    ASSUME NEW c, NEW d, SamePin(c, d)
    PROVE  Wanted(d) <=> Wanted(c)
  BY DEF Wanted, SamePin

(* On page 0 the driver reads the thresholds the sensor holds.             *)
LEMMA ReadsTrue ==
    ASSUME NEW c, c.chip.page = 0
    PROVE  NeedsTuning(c) <=> Wanted(c)
  BY DEF NeedsTuning, Wanted, Seen

(* A part of a call that keeps that.                                       *)
Keeps(c, d) ==
    /\ d \in CallRecord /\ d.fuse <= c.fuse
    /\ Known(c) => Known(d)

LEMMA KeepsChains ==
    ASSUME NEW c \in CallRecord, NEW d, NEW e, Keeps(c, d), Keeps(d, e)
    PROVE  Keeps(c, e)
<1>1. c.fuse \in Int /\ d.fuse \in Int /\ e.fuse \in Int
  BY RecordFields DEF Keeps
<1> QED
  BY <1>1 DEF Keeps

LEMMA PlainKeeps ==
    ASSUME NEW c, NEW d, Plain(c, d)
    PROVE  Keeps(c, d)
  BY WantedSame DEF Plain, Keeps, Known

LEMMA ThresholdsStep ==
    ASSUME NEW c \in CallRecord
    PROVE  LET d == Thresholds(c) IN Sure(c, d) /\ d.chip = c.chip
<1> DEFINE t == Transfer(c)
           d == IF t.status = "none" THEN Transfer(t) ELSE t
<1>1. Sure(c, t) /\ t \in CallRecord /\ t.chip = c.chip
  BY SureTransfer, TransferredChip DEF Sure, Quiet
<1>2. Thresholds(c) = d
  BY DEF Thresholds, Then
<1> HIDE DEF t
<1>3. Sure(t, Transfer(t)) /\ Transfer(t).chip = t.chip
  BY <1>1, SureTransfer, TransferredChip
<1>4. Sure(c, d)
  BY <1>1, <1>3, ThenSure
<1> QED
  BY <1>1, <1>2, <1>3, <1>4

(* A start that tunes, and may note that it misread the thresholds.        *)
Tunes(c, d) ==
    /\ d \in CallRecord /\ d.fuse <= c.fuse
    /\ SamePin(c, d) /\ SameState(c, d)
    /\ Intact(c, d) => d.status = "none"

LEMMA StartSettingsStep ==
    ASSUME NEW c \in CallRecord, c.status = "none"
    PROVE  LET d == CheckAndLoadInterruptSettings(c, TRUE) IN
           /\ Tunes(c, d) /\ Keeps(c, d)
           /\ Intact(c, d) /\ c.chip.page = 0 => d.chip.page = 0
<1> DEFINE s1 == IF c.pal.func \in 1 .. 3 THEN Thresholds(c) ELSE c
           m == Misread(s1)
           n == LoadThresholdTuning(m)
           s2 == IF ~NeedsTuning(s1) THEN s1 ELSE n
           s3 == IF s1.status = "none" THEN s2 ELSE s1
<1>0. CheckAndLoadInterruptSettings(c, TRUE) = s3
  BY DEF CheckAndLoadInterruptSettings, Then
<1>1. Sure(c, s1) /\ s1.chip = c.chip /\ s1 \in CallRecord
  <2>1. Sure(c, c)
    BY RecordFields DEF Sure, Quiet, SamePin, SameState
  <2> QED
    BY <2>1, ThresholdsStep DEF Sure, Quiet
<1> HIDE DEF s1
<1>2. /\ m \in CallRecord /\ m.fuse = s1.fuse /\ m.chip = s1.chip
      /\ m.pal = s1.pal /\ (Wanted(m) \/ m.touched = 1)
  BY <1>1, RecordUpdate, RecordFields DEF Misread, Bit
<1> HIDE DEF m
<1>3. Sure(m, n) /\ (Intact(m, n) => n.chip.page = 0)
  BY <1>2, LoadStep
<1> HIDE DEF n
<1>4. /\ n \in CallRecord /\ n.fuse <= s1.fuse
      /\ SamePin(s1, n) /\ SameState(s1, n)
      /\ Intact(s1, n) => n.status = "none" /\ n.chip.page = 0
  BY <1>2, <1>3 DEF Sure, Quiet, SamePin, SameState, Intact
<1>5. Known(n)
  BY <1>2, <1>3, WantedSame DEF Sure, Quiet, Known
<1>6. c.fuse \in Int /\ s1.fuse \in Int /\ n.fuse \in Int
  BY <1>1, <1>4, RecordFields
<1>7. CASE s1.status = "none" /\ NeedsTuning(s1)
  <2>1. s3 = n
    BY <1>7
  <2>2. SamePin(c, n) /\ SameState(c, n) /\ n.fuse <= c.fuse
    BY <1>1, <1>4, <1>6 DEF Sure, Quiet, SamePin, SameState
  <2>3. Intact(c, n) => Intact(s1, n)
    BY <1>1, <1>6 DEF Intact, Sure, Quiet
  <2> QED
    BY <1>0, <1>4, <1>5, <2>1, <2>2, <2>3 DEF Keeps, Tunes
<1>8. CASE ~(s1.status = "none" /\ NeedsTuning(s1))
  <2>1. s3 = s1
    BY <1>8
  <2>2. Wanted(s1) <=> Wanted(c)
    BY <1>1, WantedSame DEF Sure, Quiet
  <2> QED
    BY <1>0, <1>1, <2>1, <2>2 DEF Keeps, Known, Tunes, Sure, Quiet
<1> QED
  BY <1>7, <1>8

LEMMA StopSettingsStep ==
    ASSUME NEW c \in CallRecord, c.status = "none", c.chip.page = 0
    PROVE  LET d == CheckAndLoadInterruptSettings(c, FALSE) IN
           /\ Keeps(c, d) /\ SameState(c, d)
           /\ Intact(c, d) => d.status = "none" /\ d.chip.page = 0
           /\ Intact(c, d) /\ Known(c) /\ c.touched = 0 => d.chip.tuned = 0
<1> DEFINE s1 == IF c.pal.func \in 1 .. 3 THEN Thresholds(c) ELSE c
           r == [s1 EXCEPT !.touched = 0]
           n == DropThresholdTuning(r)
           s2 == IF ~NeedsTuning(s1) THEN s1 ELSE n
           s3 == IF s1.status = "none" THEN s2 ELSE s1
<1>0. CheckAndLoadInterruptSettings(c, FALSE) = s3
  BY DEF CheckAndLoadInterruptSettings, Then
<1>1. Sure(c, s1) /\ s1.chip = c.chip /\ s1 \in CallRecord
  <2>1. Sure(c, c)
    BY RecordFields DEF Sure, Quiet, SamePin, SameState
  <2> QED
    BY <2>1, ThresholdsStep DEF Sure, Quiet
<1> HIDE DEF s1
<1>2. /\ r \in CallRecord /\ r.fuse = s1.fuse /\ r.chip = s1.chip
      /\ r.pal = s1.pal /\ r.status = s1.status
  BY <1>1, RecordUpdate, RecordFields DEF Bit
<1> HIDE DEF r
<1>3. Sure(r, n) /\ (Intact(r, n) => n.chip.tuned = 0 /\ n.chip.page = 0)
  BY <1>2, DropStep
<1> HIDE DEF n
<1>4. /\ n \in CallRecord /\ n.fuse <= s1.fuse
      /\ SamePin(s1, n) /\ SameState(s1, n)
      /\ Intact(s1, n) => n.status = "none" /\ n.chip.tuned = 0 /\ n.chip.page = 0
  BY <1>2, <1>3 DEF Sure, Quiet, SamePin, SameState, Intact
<1>5. c.fuse \in Int /\ s1.fuse \in Int /\ n.fuse \in Int
  BY <1>1, <1>4, RecordFields
<1>6. CASE s1.status = "none" /\ NeedsTuning(s1)
  <2>1. s3 = n
    BY <1>6
  <2>2. SamePin(c, n) /\ SameState(c, n) /\ n.fuse <= c.fuse
    BY <1>1, <1>4, <1>5 DEF Sure, Quiet, SamePin, SameState
  <2>3. Wanted(n)
    BY <1>1, <1>4, <1>6, ReadsTrue, WantedSame
  <2>4. Intact(c, n) => Intact(s1, n)
    BY <1>1, <1>5 DEF Intact, Sure, Quiet
  <2> QED
    BY <1>0, <1>4, <2>1, <2>2, <2>3, <2>4 DEF Keeps, Known
<1>7. CASE ~(s1.status = "none" /\ NeedsTuning(s1))
  <2>1. s3 = s1
    BY <1>7
  <2>2. (Wanted(s1) <=> Wanted(c)) /\ (NeedsTuning(s1) <=> Wanted(s1))
    BY <1>1, ReadsTrue, WantedSame DEF Sure, Quiet
  <2>3. c.chip.tuned \in Bit
    BY RecordFields DEF Chip
  <2> QED
    BY <1>0, <1>1, <1>7, <2>1, <2>2, <2>3 DEF Keeps, Known, Sure, Quiet, Bit
<1> QED
  BY <1>6, <1>7
-----------------------------------------------------------------------------
(* Whole calls.                                                            *)

LEMMA PalUpdate ==
    ASSUME NEW c \in CallRecord
    PROVE  /\ \A st \in States : LET d == [c EXCEPT !.pal.state = st] IN
                /\ Plain(c, d) /\ d.chip = c.chip /\ d.fuse = c.fuse /\ d.status = c.status
                /\ d.pal.state = st /\ d.pal.mode = c.pal.mode
           /\ \A m \in DeviceModes : LET d == [c EXCEPT !.pal.mode = m] IN
                Plain(c, d) /\ d.chip = c.chip /\ d.pal.state = c.pal.state
           /\ \A w \in Powers : LET d == [c EXCEPT !.pal.power = w] IN
                /\ Plain(c, d) /\ d.chip = c.chip /\ d.fuse = c.fuse
                /\ d.pal.state = c.pal.state /\ d.pal.mode = c.pal.mode
<1>1. c.pal \in Pal /\ c.fuse \in Int
  BY RecordFields
<1>2. ASSUME NEW x \in Pal, x.func = c.pal.func
      PROVE  LET d == [c EXCEPT !.pal = x] IN
             /\ Plain(c, d) /\ d.chip = c.chip /\ d.fuse = c.fuse /\ d.status = c.status
             /\ d.pal = x
  <2>1. [c EXCEPT !.pal = x] \in CallRecord
    BY RecordUpdate
  <2> QED
    BY <1>1, <1>2, <2>1, RecordFields DEF Plain, SamePin
<1>3. ASSUME NEW st \in States
      PROVE  LET x == [c.pal EXCEPT !.state = st] IN
             x \in Pal /\ x.func = c.pal.func /\ x.state = st /\ x.mode = c.pal.mode
  BY <1>1 DEF Pal
<1>4. ASSUME NEW m \in DeviceModes
      PROVE  LET x == [c.pal EXCEPT !.mode = m] IN
             x \in Pal /\ x.func = c.pal.func /\ x.state = c.pal.state
  BY <1>1 DEF Pal
<1>5. ASSUME NEW w \in Powers
      PROVE  LET x == [c.pal EXCEPT !.power = w] IN
             /\ x \in Pal /\ x.func = c.pal.func
             /\ x.state = c.pal.state /\ x.mode = c.pal.mode
  BY <1>1 DEF Pal
<1> QED
  BY <1>2, <1>3, <1>4, <1>5

LEMMA StateNames ==
    /\ "RUNNING" \in States /\ "IDLE" \in States /\ "STANDBY" \in States
    /\ "POWERDOWN" \in States /\ "WAIT_STATICINIT" \in States
    /\ "single" \in DeviceModes /\ "standby" \in Powers /\ "idle" \in Powers
  BY DEF States, DeviceModes, Powers

LEMMA StartContinuousStep ==
    ASSUME NEW c \in CallRecord, NEW run \in Continuous
    PROVE  Keeps(c, StartContinuous(c, run))
<1> DEFINE s1 == IF c.status = "none" THEN CheckAndLoadInterruptSettings(c, TRUE) ELSE c
           s2 == SysrangeStart(s1, run)
           r == [s2 EXCEPT !.pal.state = "RUNNING"]
           s3 == IF s2.status = "none" THEN r ELSE s2
<1>0. StartContinuous(c, run) = s3
  BY DEF StartContinuous, Then
<1>1. Keeps(c, s1)
  <2>1. c.status = "none" => Keeps(c, CheckAndLoadInterruptSettings(c, TRUE))
    BY StartSettingsStep
  <2>2. Keeps(c, c)
    BY RecordFields DEF Keeps
  <2> QED
    BY <2>1, <2>2
<1> HIDE DEF s1
<1>2. Keeps(s1, s2)
  BY <1>1, SysrangeStep, PlainKeeps DEF Keeps
<1> HIDE DEF s2
<1>3. Keeps(s2, r)
  BY <1>2, PalUpdate, PlainKeeps, StateNames DEF Keeps
<1> HIDE DEF r
<1>4. Keeps(c, s2)
  BY <1>1, <1>2, KeepsChains
<1>5. Keeps(c, s3)
  BY <1>3, <1>4, KeepsChains
<1> QED
  BY <1>0, <1>5

LEMMA StartStep ==
    ASSUME NEW c \in CallRecord
    PROVE  Keeps(c, Start(c))
<1> DEFINE d == Rearm(c)
           e == SysrangeStart(d, "start")
           g == WaitStarted(e)
           h == IF e.status = "none" THEN g ELSE e
           k == StartContinuous(d, c.pal.mode)
           u == Fail(d, "unsupported")
<1>1. Start(c) = CASE c.pal.mode = "single" -> h
                   [] c.pal.mode \in Continuous -> k
                   [] OTHER -> u
  BY DEF Start, Then
<1>2. Keeps(c, d) /\ d \in CallRecord
  BY RearmStep, PlainKeeps DEF Keeps
<1> HIDE DEF d
<1>3. Keeps(d, e) /\ e \in CallRecord
  BY <1>2, SysrangeStep, PlainKeeps DEF Keeps
<1> HIDE DEF e
<1>4. Keeps(e, g)
  <2>1. g = IF e.wait = "ok" THEN Transfer(e) ELSE Fail(e, "timeout")
    BY <1>3, RecordFields DEF WaitStarted, Waits
  <2>2. Keeps(e, Transfer(e))
    BY <1>3, TransferStep, PlainKeeps
  <2>3. Keeps(e, Fail(e, "timeout"))
    BY <1>3, FailStep, PlainKeeps, StatusNames
  <2> QED
    BY <2>1, <2>2, <2>3
<1>5. c.pal.mode \in Continuous => Keeps(d, k)
  BY <1>2, StartContinuousStep
<1>6. Keeps(d, u)
  BY <1>2, FailStep, PlainKeeps, StatusNames
<1> HIDE DEF g, k, u
<1>7. Keeps(c, e) /\ Keeps(d, h)
  BY <1>2, <1>3, <1>4, KeepsChains
<1> HIDE DEF h
<1> QED
  BY <1>1, <1>2, <1>5, <1>6, <1>7, KeepsChains

(* Stop: what was known is still, and without a loss nothing is loaded.    *)
LEMMA StopStep ==
    ASSUME NEW c \in CallRecord
    PROVE  LET d == Stop(c) IN
           /\ Keeps(c, d)
           /\ Intact(c, d) /\ Known(c) /\ c.touched = 0 => d.chip.tuned = 0
<1> DEFINE s1 == SysrangeStart(c, "none")
           s2 == WriteStopVariable(s1)
           i == [s2 EXCEPT !.pal.state = "IDLE"]
           s3 == IF s2.status = "none" THEN i ELSE s2
           n == CheckAndLoadInterruptSettings(s3, FALSE)
           s4 == IF s3.status = "none" THEN n ELSE s3
<1>0. Stop(c) = s4
  BY DEF Stop, Then
<1>1. Plain(c, s1) /\ s1 \in CallRecord
  BY SysrangeStep DEF Plain
<1> HIDE DEF s1
<1>2. /\ Plain(s1, s2) /\ s2 \in CallRecord /\ (Intact(s1, s2) => s2.status = "none")
      /\ s2.status = "none" => s2.chip.page = 0
  BY <1>1, StopVariableStep DEF Plain
<1> HIDE DEF s2
<1>3. Plain(c, s2) /\ (Intact(c, s2) => s2.status = "none")
  BY <1>1, <1>2, PlainChains
<1>4. Plain(s2, i) /\ i.status = s2.status /\ i.fuse = s2.fuse /\ i.chip = s2.chip
  BY <1>2, PalUpdate, StateNames
<1> HIDE DEF i
<1>5. /\ Plain(c, s3) /\ s3 \in CallRecord /\ (Intact(c, s3) => s3.status = "none")
      /\ s3.status = "none" => s3.chip.page = 0
  <2>1. Plain(c, i)
    BY <1>3, <1>4, PlainChains
  <2> QED
    BY <1>2, <1>3, <1>4, <2>1 DEF Plain, Intact
<1>6. Keeps(c, s3) /\ s3.touched = c.touched
  BY <1>5, PlainKeeps DEF Plain
<1> HIDE DEF s3
<1>7. s3.status = "none" =>
        /\ Keeps(s3, n)
        /\ Intact(s3, n) /\ Known(s3) /\ s3.touched = 0 => n.chip.tuned = 0
  BY <1>5, StopSettingsStep
<1> HIDE DEF n
<1>8. Keeps(c, s4)
  BY <1>6, <1>7, KeepsChains
<1>9. ASSUME Intact(c, s4), Known(c), c.touched = 0
      PROVE  s4.chip.tuned = 0
  <2>1. c.fuse \in Int /\ s3.fuse \in Int /\ s4.fuse \in Int
    BY <1>5, <1>8, RecordFields DEF Keeps
  <2>2. s4.fuse <= s3.fuse /\ s3.fuse <= c.fuse
    BY <1>5, <1>6, <1>7, <2>1 DEF Keeps
  <2>3. Intact(c, s3) /\ Intact(s3, s4)
    BY <1>9, <2>1, <2>2 DEF Intact
  <2>4. Known(s3) /\ s3.touched = 0 /\ s3.status = "none"
    BY <1>5, <1>6, <1>9, <2>3 DEF Keeps
  <2> QED
    BY <1>7, <2>3, <2>4
<1> QED
  BY <1>0, <1>8, <1>9

LEMMA StopCompletedStep ==
    ASSUME NEW c \in CallRecord
    PROVE  Keeps(c, StopCompleted(c))
<1> DEFINE s1 == Select(c, 1)
           t == Transfer(s1)
           s2 == IF s1.status = "none" THEN t ELSE s1
           q == Select(s2, 0)
           s3 == IF s2.status = "none" THEN q ELSE s2
           r == Rearm(s3)
<1>0. StopCompleted(c) \in {s3, r}
  BY DEF StopCompleted, Then
<1>1. Keeps(c, s1) /\ s1 \in CallRecord
  BY SelectStep, PlainKeeps DEF Keeps, Pages
<1> HIDE DEF s1
<1>2. Keeps(s1, t)
  BY <1>1, TransferStep, PlainKeeps
<1> HIDE DEF t
<1>3. Keeps(c, s2) /\ s2 \in CallRecord
  BY <1>1, <1>2, KeepsChains DEF Keeps
<1> HIDE DEF s2
<1>4. Keeps(s2, q)
  BY <1>3, SelectStep, PlainKeeps DEF Pages
<1> HIDE DEF q
<1>5. Keeps(c, s3) /\ s3 \in CallRecord
  BY <1>3, <1>4, KeepsChains DEF Keeps
<1> HIDE DEF s3
<1>6. Keeps(s3, r)
  BY <1>5, RearmStep, PlainKeeps
<1> QED
  BY <1>0, <1>5, <1>6, KeepsChains
(* A sensor after a write of one of the pin's registers.                   *)
Registers == {"func", "latched", "low", "high"}
Fits(field, v) == IF field \in {"func", "latched"} THEN v \in Functions ELSE v \in Halves

LEMMA RegisterStep ==
    ASSUME NEW c \in CallRecord, NEW field \in Registers, NEW v, Fits(field, v)
    PROVE  LET d == Register(c, field, v) IN
           /\ d \in CallRecord /\ d.fuse <= c.fuse /\ SameState(c, d)
           /\ d.chip.page = c.chip.page /\ d.chip.tuned = c.chip.tuned
           /\ field # "func" => d.chip.func = c.chip.func
           /\ field = "latched" => Plain(c, d)
<1> DEFINE d == Register(c, field, v)
           y == [c.chip EXCEPT ![field] = v]
           x == IF c.chip.page = 0 THEN y ELSE c.chip
<1>1. d = Written(c, x)
  <2>1. CASE c.chip.page = 0
    BY <2>1, TransferredChip DEF Register, Done, Then, Page0, Written
  <2>2. CASE c.chip.page # 0
    <3>1. [Transfer(c) EXCEPT !.chip = c.chip] = Transfer(c)
      <4>1. Transfer(c) \in CallRecord
        BY TransferStep DEF Plain
      <4> QED
        BY <4>1, TransferredChip DEF CallRecord
    <3> QED
      BY <2>2, <3>1, TransferredChip DEF Register, Done, Then, Page0, Written
  <2> QED
    BY <2>1, <2>2
<1>2. c.chip \in Chip
  BY RecordFields
<1>3. /\ y \in Chip
      /\ y.page = c.chip.page /\ y.run = c.chip.run /\ y.tuned = c.chip.tuned
      /\ field # "func" => y.func = c.chip.func
      /\ field = "latched" => /\ y.low = c.chip.low /\ y.high = c.chip.high
                              /\ y.func = c.chip.func
  <2>1. CASE field = "func"
    BY <2>1, <1>2, ChipUpdate, RecordFields DEF Fits
  <2>2. CASE field = "latched"
    BY <2>2, <1>2, ChipUpdate, RecordFields DEF Fits
  <2>3. CASE field = "low"
    BY <2>3, <1>2, ChipUpdate, RecordFields DEF Fits
  <2>4. CASE field = "high"
    BY <2>4, <1>2, ChipUpdate, RecordFields DEF Fits
  <2> QED
    BY <2>1, <2>2, <2>3, <2>4 DEF Registers
<1>4. x \in {c.chip, y} /\ x \in Chip
  BY <1>2, <1>3
<1> HIDE DEF d, x, y
<1>5. /\ d \in CallRecord /\ d.fuse <= c.fuse
      /\ d.pal = c.pal /\ d.touched = c.touched /\ d.chip \in {x, c.chip}
  BY <1>1, <1>4, WriteStep
<1> QED
  BY <1>3, <1>4, <1>5 DEF Plain, SamePin, SameState, d

LEMMA DataReadyStep ==
    ASSUME NEW c \in CallRecord
    PROVE  LET d == DataReady(c) IN Plain(c, d) /\ d.chip = c.chip /\ d.pal = c.pal
<1> DEFINE d == Transfer(c)
<1>1. Plain(c, d) /\ d \in CallRecord /\ d.chip = c.chip /\ d.pal = c.pal
  BY TransferStep DEF Plain, SameState
<1>2. PICK v \in Bit : DataReady(c) = [d EXCEPT !.ready = v]
  BY DEF DataReady, Bit
<1> HIDE DEF d
<1> DEFINE e == [d EXCEPT !.ready = v]
<1>3. e \in CallRecord
  BY <1>1, RecordUpdate
<1>4. e.chip = d.chip /\ e.pal = d.pal /\ e.touched = d.touched /\ e.fuse = d.fuse
  BY <1>1, RecordFields
<1> HIDE DEF e
<1>5. Plain(c, e)
  BY <1>1, <1>3, <1>4 DEF Plain, SamePin
<1> QED
  BY <1>1, <1>2, <1>4, <1>5 DEF e

LEMMA FinishSingleStep ==
    ASSUME NEW c \in CallRecord
    PROVE  LET d == FinishSingle(c) IN
           /\ Plain(c, d) /\ d.chip.page = c.chip.page /\ d.chip.run \in {c.chip.run, "idle"}
           /\ d.pal.mode = c.pal.mode /\ d.pal.state \in {c.pal.state, "IDLE"}
<1> DEFINE x == [c EXCEPT !.pal.state = "IDLE"]
           y == [x.chip EXCEPT !.done = 1]
           z == [y EXCEPT !.run = IF c.chip.run = "single" THEN "idle" ELSE c.chip.run]
           d == [x EXCEPT !.chip = z]
<1>1. /\ Plain(c, x) /\ x.chip = c.chip /\ x \in CallRecord
      /\ x.pal.mode = c.pal.mode /\ x.pal.state = "IDLE"
  BY PalUpdate, StateNames DEF Plain
<1>2. FinishSingle(c) \in {c, x, d}
  <2>1. c \in CallRecord /\ c.chip \in Chip
    BY RecordFields
  <2> QED
    BY <1>1, <2>1, RecordFields DEF FinishSingle, CallRecord, Chip
<1> HIDE DEF x
<1>3. y \in Chip /\ y.page = c.chip.page /\ y.tuned = c.chip.tuned /\ y.low = c.chip.low /\ y.high = c.chip.high
        /\ y.func = c.chip.func /\ c.chip.run \in Runs
  BY <1>1, RecordFields, ChipUpdate, SMTT(30) DEF Bit, Chip
<1> HIDE DEF y
<1>4. /\ z \in Chip /\ z.page = y.page /\ z.run \in {c.chip.run, "idle"}
      /\ z.tuned = y.tuned /\ z.low = y.low /\ z.high = y.high /\ z.func = y.func
  <2>1. "idle" \in Runs
    BY DEF Runs
  <2>2. (IF c.chip.run = "single" THEN "idle" ELSE c.chip.run) \in Runs
    BY <1>3, <2>1
  <2>3. z \in Chip
    BY <1>3, <2>2, ChipUpdate
  <2> QED
    BY <1>3, <2>3 DEF Chip
<1> HIDE DEF z
<1>5. d \in CallRecord /\ d.chip = z /\ d.pal = x.pal /\ d.touched = x.touched /\ d.fuse = x.fuse
  BY <1>1, <1>4, RecordUpdate, RecordFields
<1> HIDE DEF d
<1>6. Plain(c, d)
  BY <1>1, <1>3, <1>4, <1>5 DEF Plain, SamePin
<1>7. Plain(c, c)
  BY RecordFields DEF Plain, SamePin
<1> QED
  BY <1>1, <1>2, <1>3, <1>4, <1>5, <1>6, <1>7

LEMMA SingleStep ==
    ASSUME NEW c \in CallRecord
    PROVE  Keeps(c, SingleMeasurement(c))
<1> DEFINE s1 == IF c.pal.mode = "single" THEN Start(c) ELSE c
           d == DataReady(s1)
           u == Fail(d, "timeout")
           q == PollForCompletion(s1)
           s2 == IF s1.status = "none" THEN q ELSE s1
           n == FinishSingle(s2)
           s3 == IF s2.status = "none" THEN n ELSE s2
<1>0. SingleMeasurement(c) = s3
  BY DEF SingleMeasurement, Then
<1>1. Keeps(c, s1) /\ s1 \in CallRecord
  <2>1. Keeps(c, Start(c))
    BY StartStep
  <2>2. Keeps(c, c)
    BY RecordFields DEF Keeps
  <2> QED
    BY <2>1, <2>2 DEF Keeps
<1> HIDE DEF s1
<1>2. Keeps(s1, d) /\ d \in CallRecord
  BY <1>1, DataReadyStep, PlainKeeps DEF Keeps
<1>3. q \in {d, u}
  BY DEF PollForCompletion, Then
<1> HIDE DEF d, q
<1>4. Keeps(d, u)
  BY <1>2, FailStep, PlainKeeps, StatusNames
<1> HIDE DEF u
<1>5. Keeps(s1, q)
  BY <1>1, <1>2, <1>3, <1>4, KeepsChains
<1>6. Keeps(c, s2) /\ s2 \in CallRecord
  BY <1>1, <1>5, KeepsChains DEF Keeps
<1> HIDE DEF s2
<1>7. Keeps(s2, n)
  BY <1>6, FinishSingleStep, PlainKeeps
<1> HIDE DEF n
<1>8. Keeps(c, s3)
  BY <1>6, <1>7, KeepsChains
<1> QED
  BY <1>0, <1>8
LEMMA TransfersStep ==
    ASSUME NEW c \in CallRecord, NEW n \in Nat
    PROVE  LET d == Transfers(c, n) IN Plain(c, d) /\ d.chip = c.chip /\ d.pal = c.pal
<1> DEFINE a == [c EXCEPT !.fuse = -1, !.status = "io"]
           b == [c EXCEPT !.fuse = @ - n, !.status = "none"]
<1>1. /\ c.fuse \in 0 .. n - 1 => Transfers(c, n) = a
      /\ c.fuse \notin 0 .. n - 1 => Transfers(c, n) = b
  BY DEF Transfers
<1>2. c.fuse \in Int /\ c.fuse - n \in Int /\ c.fuse - n <= c.fuse /\ -1 \in Int
  BY RecordFields
<1>3. /\ a \in CallRecord /\ a.chip = c.chip /\ a.pal = c.pal
      /\ a.touched = c.touched /\ a.fuse = -1
  BY <1>2, StatusNames DEF CallRecord
<1>4. /\ b \in CallRecord /\ b.chip = c.chip /\ b.pal = c.pal
      /\ b.touched = c.touched /\ b.fuse = c.fuse - n
  BY <1>2, StatusNames DEF CallRecord
<1> HIDE DEF a, b
<1>5. Plain(c, b)
  BY <1>2, <1>4 DEF Plain, SamePin
<1>6. c.fuse \in 0 .. n - 1 => Plain(c, a)
  BY <1>2, <1>3 DEF Plain, SamePin
<1> QED
  BY <1>1, <1>3, <1>4, <1>5, <1>6

LEMMA ClearStep ==
    ASSUME NEW c \in CallRecord
    PROVE  Plain(c, ClearLatch(c))
<1> DEFINE s1 == Register(c, "latched", 0)
           a == Register(s1, "latched", 0)
           s2 == IF s1.status = "none" THEN a ELSE Fail(a, s1.status)
           t == Transfer(s2)
           s3 == IF s2.status = "none" THEN t ELSE Fail(t, s2.status)
           u == Fail(s3, "uncleared")
<1>0. ClearLatch(c) \in {s3, u}
  BY DEF ClearLatch, AlsoThen, Then
<1>1. "latched" \in Registers /\ Fits("latched", 0)
  BY DEF Registers, Fits, Functions
<1>2. Plain(c, s1) /\ s1 \in CallRecord /\ s1.status \in Statuses
  BY <1>1, RegisterStep, RecordFields DEF Plain
<1> HIDE DEF s1
<1>3. Plain(s1, a) /\ a \in CallRecord
  BY <1>1, <1>2, RegisterStep DEF Plain
<1> HIDE DEF a
<1>4. Plain(a, Fail(a, s1.status))
  BY <1>2, <1>3, FailStep
<1>5. Plain(c, s2) /\ s2 \in CallRecord /\ s2.status \in Statuses
  <2>1. Plain(s1, s2) /\ s2 \in CallRecord
    BY <1>2, <1>3, <1>4, PlainChains DEF Plain
  <2> QED
    BY <1>2, <2>1, PlainChains, RecordFields
<1> HIDE DEF s2
<1>6. Plain(s2, t) /\ t \in CallRecord
  BY <1>5, TransferStep DEF Plain
<1> HIDE DEF t
<1>7. Plain(t, Fail(t, s2.status))
  BY <1>5, <1>6, FailStep
<1>8. Plain(c, s3) /\ s3 \in CallRecord
  <2>1. Plain(s2, s3) /\ s3 \in CallRecord
    BY <1>5, <1>6, <1>7, PlainChains DEF Plain
  <2> QED
    BY <1>5, <2>1, PlainChains
<1> HIDE DEF s3
<1>9. Plain(s3, u)
  BY <1>8, FailStep, StatusNames
<1>10. Plain(c, u)
  BY <1>8, <1>9, PlainChains
<1> QED
  BY <1>0, <1>8, <1>10

(* A new function of the pin.                                              *)
LEMMA FuncUpdate ==
    ASSUME NEW c \in CallRecord, NEW v \in Functions
    PROVE  LET d == [c EXCEPT !.pal.func = v] IN
           /\ d \in CallRecord /\ d.chip = c.chip /\ d.fuse = c.fuse
           /\ d.pal.state = c.pal.state /\ d.pal.mode = c.pal.mode
<1> DEFINE x == [c.pal EXCEPT !.func = v]
           d == [c EXCEPT !.pal = x]
<1>1. x \in Pal /\ x.state = c.pal.state /\ x.mode = c.pal.mode
  BY RecordFields DEF Pal
<1> HIDE DEF x
<1>2. d \in CallRecord /\ d.chip = c.chip /\ d.pal = x /\ d.fuse = c.fuse
  BY <1>1, RecordUpdate, RecordFields
<1> QED
  BY <1>1, <1>2 DEF x

LEMMA PinFunctionStep ==
    ASSUME NEW c \in CallRecord, NEW func \in 0 .. 5
    PROVE  PinFunction(c, func) \in CallRecord
<1> DEFINE d == IF func = 5 THEN Fail(c, "gpio") ELSE Register(c, "func", func)
           t == Transfers(d, 2)
           e == IF d.status = "none" THEN t ELSE d
           u == [e EXCEPT !.pal.func = func]
           g == IF e.status = "none" THEN u ELSE e
           k == ClearLatch(g)
           h == IF g.status = "none" THEN k ELSE g
<1>0. PinFunction(c, func) = h
  BY DEF PinFunction, Then
<1>1. d \in CallRecord /\ (func = 5 => d.status # "none")
  <2>1. CASE func = 5
    BY <2>1, FailStep, StatusNames DEF Plain
  <2>2. CASE func # 5
    <3>1. func \in Functions
      BY <2>2 DEF Functions
    <3>2. "func" \in Registers /\ Fits("func", func)
      BY <3>1 DEF Registers, Fits
    <3> QED
      BY <2>2, <3>2, RegisterStep
  <2> QED
    BY <2>1, <2>2
<1> HIDE DEF d
<1>2. t \in CallRecord
  BY <1>1, TransfersStep DEF Plain
<1> HIDE DEF t
<1>3. e \in CallRecord /\ (e.status = "none" => func \in Functions)
  BY <1>1, <1>2 DEF Functions
<1> HIDE DEF e
<1>4. g \in CallRecord
  BY <1>3, FuncUpdate
<1> HIDE DEF g
<1>5. k \in CallRecord
  BY <1>4, ClearStep DEF Plain
<1> HIDE DEF k
<1> QED
  BY <1>0, <1>4, <1>5

LEMMA PinConfigStep ==
    ASSUME NEW c \in CallRecord, NEW pin, NEW mode, NEW func \in 0 .. 5
    PROVE  PinConfig(c, pin, mode, func) \in CallRecord
<1>1. Fail(c, "gpio") \in CallRecord
  BY FailStep, StatusNames DEF Plain
<1>2. Transfer(c) \in CallRecord
  BY TransferStep DEF Plain
<1>3. PinOscillator(c) \in CallRecord
  <2> DEFINE d == Transfers(c, 13)
             q == Select(d, 1)
             e == [d EXCEPT !.chip.page = 1]
  <2>1. d \in CallRecord
    BY TransfersStep DEF Plain
  <2>2. PinOscillator(c) \in {q, e}
    BY DEF PinOscillator
  <2> HIDE DEF d
  <2>3. q \in CallRecord
    BY <2>1, SelectStep DEF Plain, Pages
  <2>4. e \in CallRecord
    <3>1. [d.chip EXCEPT !.page = 1] \in Chip
      BY <2>1, RecordFields, ChipUpdate DEF Pages
    <3> QED
      BY <2>1, <3>1, RecordUpdate
  <2> QED
    BY <2>2, <2>3, <2>4
<1>4. PinFunction(c, func) \in CallRecord
  BY PinFunctionStep
<1> QED
  BY <1>1, <1>2, <1>3, <1>4 DEF PinConfig

(* The second read of GetGpioConfig, if the first told a function.         *)
Polarity(x) == IF Seen(x, "func") \in 0 .. 4 THEN Transfer(x) ELSE Fail(x, "gpio")

LEMMA PolarityStep ==
    ASSUME NEW c \in CallRecord
    PROVE  LET d == Polarity(c) IN
           /\ Plain(c, d) /\ SameState(c, d) /\ d.chip = c.chip
           /\ d.status = "none" =>
                d = Transfer(c) /\ Seen(d, "func") \in Functions /\ Seen(d, "func") = Seen(c, "func")
<1> DEFINE t == Transfer(c)
           g == Fail(c, "gpio")
<1>1. /\ Plain(c, t) /\ SameState(c, t) /\ t.chip = c.chip
      /\ Seen(t, "func") = Seen(c, "func")
  BY TransferStep DEF Seen
<1>2. Plain(c, g) /\ SameState(c, g) /\ g.chip = c.chip /\ g.status = "gpio"
  BY FailStep, StatusNames DEF Quiet
<1> HIDE DEF g
<1>3. Polarity(c) = IF Seen(c, "func") \in Functions THEN t ELSE g
  BY DEF Polarity, Functions, g
<1> HIDE DEF t
<1> QED
  BY <1>1, <1>2, <1>3 DEF t

LEMMA ReadPinConfigStep ==
    ASSUME NEW c \in CallRecord, NEW pin
    PROVE  ReadPinConfig(c, pin) \in CallRecord
<1> DEFINE s1 == Transfer(c)
           t == Polarity(s1)
           s2 == IF s1.status = "none" THEN t ELSE s1
           u == [s2 EXCEPT !.pal.func = Seen(s2, "func")]
           s3 == IF s2.status = "none" THEN u ELSE s2
           f == Fail(c, "gpio")
<1>0. ReadPinConfig(c, pin) \in {f, s3}
  BY DEF ReadPinConfig, Then, Polarity
<1>1. s1 \in CallRecord /\ f \in CallRecord
  BY TransferStep, FailStep, StatusNames DEF Plain
<1> HIDE DEF s1, f
<1>2. t \in CallRecord /\ (t.status = "none" => Seen(t, "func") \in Functions)
  BY <1>1, PolarityStep DEF Plain
<1> HIDE DEF t
<1>3. s2 \in CallRecord /\ (s2.status = "none" => Seen(s2, "func") \in Functions)
  BY <1>1, <1>2
<1> HIDE DEF s2
<1>4. s2.status = "none" => u \in CallRecord
  BY <1>3, FuncUpdate
<1> QED
  BY <1>0, <1>1, <1>3, <1>4

LEMMA WriteThresholdsStep ==
    ASSUME NEW c \in CallRecord, NEW low \in {0, 300}, NEW high \in {0, 300}
    PROVE  WriteThresholds(c, low, high) \in CallRecord
<1> DEFINE s1 == Register(c, "low", (low \div 2) % 4096)
           t == Register(s1, "high", (high \div 2) % 4096)
           s2 == IF s1.status = "none" THEN t ELSE s1
<1>0. WriteThresholds(c, low, high) = s2
  BY DEF WriteThresholds, Then
<1>1. (low \div 2) % 4096 \in Halves /\ (high \div 2) % 4096 \in Halves
  BY DEF Halves
<1>2. "low" \in Registers /\ "high" \in Registers
      /\ Fits("low", (low \div 2) % 4096) /\ Fits("high", (high \div 2) % 4096)
  BY <1>1 DEF Registers, Fits
<1>3. s1 \in CallRecord
  BY <1>2, RegisterStep
<1> HIDE DEF s1
<1>4. t \in CallRecord
  BY <1>2, <1>3, RegisterStep
<1> QED
  BY <1>0, <1>3, <1>4

LEMMA InitStaticStep ==
    ASSUME NEW c \in CallRecord
    PROVE  InitStatic(c) \in CallRecord
<1> DEFINE s1 == PinFunction(c, 4)
           u == [s1 EXCEPT !.pal.state = "IDLE"]
<1>0. InitStatic(c) \in {s1, u}
  BY DEF InitStatic, Then
<1>1. s1 \in CallRecord
  BY PinFunctionStep
<1> HIDE DEF s1
<1>2. u \in CallRecord
  BY <1>1, PalUpdate, StateNames DEF Plain
<1> QED
  BY <1>0, <1>1, <1>2

LEMMA ToStandbyStep ==
    ASSUME NEW c \in CallRecord
    PROVE  Keeps(c, ToStandby(c))
<1> DEFINE d == Power80(c, 0)
           e == [d EXCEPT !.pal.state = "STANDBY"]
           g == [e EXCEPT !.pal.power = "standby"]
<1>1. Keeps(c, d) /\ d \in CallRecord
  BY PowerStep, PlainKeeps DEF Keeps, Bit
<1>2. ToStandby(c) \in {d, g}
  BY DEF ToStandby, Then
<1> HIDE DEF d
<1>3. Plain(d, e) /\ e \in CallRecord
  <2>1. Plain(d, e)
    BY <1>1, PalUpdate, StateNames
  <2> QED
    BY <2>1 DEF Plain
<1> HIDE DEF e
<1>4. Plain(e, g)
  BY <1>3, PalUpdate, StateNames
<1> HIDE DEF g
<1>5. Plain(d, g)
  BY <1>1, <1>3, <1>4, PlainChains
<1> QED
  BY <1>1, <1>2, <1>5, PlainKeeps, KeepsChains

LEMMA ToIdleStep ==
    ASSUME NEW c \in CallRecord
    PROVE  ToIdle(c) \in CallRecord
<1> DEFINE d == Power80(c, 0)
           i == InitStatic(d)
           e == IF d.status = "none" THEN i ELSE d
           g == [e EXCEPT !.pal.power = "idle"]
<1>1. d \in CallRecord
  BY PowerStep DEF Plain, Bit
<1>2. ToIdle(c) \in {e, g}
  BY DEF ToIdle, Then
<1> HIDE DEF d
<1>3. i \in CallRecord
  BY <1>1, InitStaticStep
<1> HIDE DEF i
<1>4. e \in CallRecord
  BY <1>1, <1>3
<1> HIDE DEF e
<1>5. g \in CallRecord
  BY <1>4, PalUpdate, StateNames DEF Plain
<1> QED
  BY <1>2, <1>4, <1>5
-----------------------------------------------------------------------------
(* The inductive invariant: types, and that a tuning in the sensor is one  *)
(* the pin asks for, unless the pin was reconfigured under it or a start   *)
(* misread the thresholds.  A stop drops the tuning only if the pin asks   *)
(* for it then.                                                            *)
ResetStages == {"none", "waitDown", "release", "waitUp"}

TuningKnown ==
    chip.tuned = 1 /\ touched = 0 => Wanted([chip |-> chip, pal |-> pal])

ModesInv ==
    /\ chip \in Chip /\ pal \in Pal /\ touched \in Bit
    /\ reset \in [at : ResetStages, lost : 0 .. MaxLost]
    /\ calls \in Nat
    /\ TuningKnown

LEMMA DeviceStep ==
    ASSUME ModesInv, NEW f \in Int, NEW w \in Waits, NEW l \in Bit
    PROVE  /\ Device(f, w, l) \in CallRecord /\ Known(Device(f, w, l))
           /\ Device(f, w, l).fuse = f /\ Device(f, w, l).touched = touched
<1>1. 0 \in Bit /\ 0 \in Halves
  BY DEF Bit, Halves
<1>2. Device(f, w, l) \in CallRecord
  BY <1>1, StatusNames DEF ModesInv, Device, CallRecord
<1>3. Known(Device(f, w, l))
  BY DEF ModesInv, TuningKnown, Known, Wanted, Device
<1> QED
  BY <1>2, <1>3 DEF Device

(* What is read of a wrong page is not yet known to the driver.            *)
LEMMA ReadingStep ==
    ASSUME NEW c \in CallRecord, NEW v \in Halves
    PROVE  LET d == Reading(c, v) IN
           /\ d \in CallRecord /\ (Known(c) => Known(d))
           /\ d.chip = c.chip /\ d.pal = c.pal
           /\ d.fuse = c.fuse /\ d.touched = c.touched
<1>1. LET d == Reading(c, v) IN
      /\ d \in CallRecord /\ d.chip = c.chip /\ d.pal = c.pal
      /\ d.fuse = c.fuse /\ d.touched = c.touched
  BY RecordUpdate, RecordFields DEF Reading
<1> QED
  BY <1>1 DEF Known, Wanted

(* A call that keeps what is known, and one that reconfigures the pin.     *)
LEMMA KeepingCall ==
    ASSUME ModesInv, NEW op, NEW f, NEW c, NEW d,
           Known(c), Keeps(c, d), Returning(op, f, d)
    PROVE  ModesInv'
<1>1. d \in CallRecord /\ Known(d)
  BY DEF Keeps
<1>2. /\ chip' = d.chip /\ pal' = d.pal /\ touched' = d.touched
      /\ reset' = reset /\ calls' = calls + 1
  BY DEF Returning, Ended
<1>3. chip' \in Chip /\ pal' \in Pal /\ touched' \in Bit
  BY <1>1, <1>2, RecordFields
<1>4. TuningKnown'
  BY <1>1, <1>2 DEF TuningKnown, Known, Wanted
<1> QED
  BY <1>2, <1>3, <1>4 DEF ModesInv

LEMMA PinCall ==
    ASSUME ModesInv, NEW op, NEW f \in Int,
           NEW d \in CallRecord, Returning(op, f, Reconfigured(d))
    PROVE  ModesInv'
<1> DEFINE r == Reconfigured(d)
           t == [d EXCEPT !.touched = 1]
<1>1. r \in CallRecord /\ (r.chip.tuned = 1 => r.touched = 1)
  <2>1. t \in CallRecord /\ t.touched = 1 /\ t.chip = d.chip
    BY RecordUpdate, RecordFields DEF Bit
  <2>2. CASE d.chip.tuned = 1
    BY <2>1, <2>2 DEF Reconfigured
  <2>3. CASE d.chip.tuned # 1
    BY <2>3 DEF Reconfigured
  <2> QED
    BY <2>2, <2>3
<1>2. /\ chip' = r.chip /\ pal' = r.pal /\ touched' = r.touched
      /\ reset' = reset /\ calls' = calls + 1
  BY DEF Returning, Ended
<1> HIDE DEF r
<1>3. chip' \in Chip /\ pal' \in Pal /\ touched' \in Bit
  BY <1>1, <1>2, RecordFields
<1>4. TuningKnown'
  BY <1>1, <1>2 DEF TuningKnown
<1> QED
  BY <1>2, <1>3, <1>4 DEF ModesInv
LEMMA Faults ==
    ModeFaults \subseteq Int /\ "ok" \in Waits /\ "timeout" \in Waits /\ 0 \in Bit /\ 1 \in Bit
  BY ModesAssumption DEF Waits, Bit

LEMMA InitInvariant == ModesInit => ModesInv
<1> SUFFICES ASSUME ModesInit
             PROVE  ModesInv
  OBVIOUS
<1>1. MaxLost \in Nat
  BY ModesAssumption
<1>2. reset \in [at : ResetStages, lost : 0 .. MaxLost] /\ calls \in Nat /\ touched \in Bit
  BY <1>1 DEF ModesInit, CallInit, ResetStages, Bit
<1>3. Fresh \in Chip
  BY FreshChip
<1>4. CASE PoweredOn
  BY <1>2, <1>3, <1>4 DEF PoweredOn, ModesInv, TuningKnown, Pal, States, DeviceModes,
                          Functions, Powers, Fresh
<1>5. CASE ~PoweredOn
  <2>1. PICK mode \in {"single", "back", "timed"}, func \in 1 .. 4, limit \in {0, 150} :
            /\ chip = [Fresh EXCEPT !.func = func, !.low = limit, !.high = limit]
            /\ pal = [state |-> "IDLE", mode |-> mode, func |-> func, power |-> "idle"]
    BY <1>5 DEF ModesInit
  <2>2. func \in Functions /\ mode \in DeviceModes /\ limit \in Halves
    BY DEF Functions, DeviceModes, Halves
  <2>3. chip \in Chip /\ chip.tuned = 0
    BY <1>3, <2>1, <2>2, ZenonT(30) DEF Chip, Fresh
  <2>4. pal \in Pal
    BY <2>1, <2>2, StateNames DEF Pal
  <2> QED
    BY <1>2, <2>3, <2>4 DEF ModesInv, TuningKnown
<1> QED
  BY <1>4, <1>5

(* One case for each call.                                                 *)
LEMMA CallInvariant == ModesInv /\ ModesCall => ModesInv'
<1> SUFFICES ASSUME ModesInv, ModesCall
             PROVE  ModesInv'
  OBVIOUS
<1> USE Faults
<1>1. CASE SetDeviceMode
  <2> DEFINE c == Device(-1, "ok", 0)
  <2>1. PICK mode \in DeviceModes \cup {"histogram"} :
            Returning("SetDeviceMode", -1,
                IF mode = "histogram" THEN Fail(c, "unsupported")
                ELSE [c EXCEPT !.pal.mode = mode])
    BY <1>1 DEF SetDeviceMode
  <2>2. c \in CallRecord /\ -1 \in Int
    BY DeviceStep
  <2>3. Keeps(c, Fail(c, "unsupported"))
    BY <2>2, FailStep, StatusNames, PlainKeeps
  <2>4. mode \in DeviceModes => Keeps(c, [c EXCEPT !.pal.mode = mode])
    BY <2>2, PalUpdate, PlainKeeps
  <2> HIDE DEF c
  <2>5. PICK d : Keeps(c, d) /\ Returning("SetDeviceMode", -1, d)
    BY <2>1, <2>3, <2>4
  <2> QED
    BY <2>2, <2>5, DeviceStep, Faults, KeepingCall DEF c
<1>2. CASE StartMeasurement
  <2>1. PICK f \in ModeFaults, w \in {"ok", "timeout"}, l \in {0, 1}, v \in {0, 150} :
            Returning("Start", f, Start(Reading(Device(f, w, l), v)))
    BY <1>2 DEF StartMeasurement
  <2>2. f \in Int /\ w \in Waits /\ l \in Bit /\ v \in Halves
    BY DEF Waits, Bit, Halves
  <2> DEFINE c == Reading(Device(f, w, l), v)
  <2>3. c \in CallRecord /\ Known(c)
    BY <2>2, DeviceStep, ReadingStep
  <2> HIDE DEF c
  <2>4. Keeps(c, Start(c))
    BY <2>3, StartStep
  <2> QED
    BY <2>1, <2>3, <2>4, KeepingCall DEF c
<1>3. CASE StopMeasurement
  <2>1. PICK f \in ModeFaults : Returning("Stop", f, Stop(Device(f, "ok", 0)))
    BY <1>3 DEF StopMeasurement
  <2> QED
    BY <2>1, DeviceStep, StopStep, KeepingCall
<1>4. CASE GetStopCompletedStatus
  <2>1. PICK f \in ModeFaults :
            Returning("StopCompleted", f, StopCompleted(Device(f, "ok", 0)))
    BY <1>4 DEF GetStopCompletedStatus
  <2> QED
    BY <2>1, DeviceStep, StopCompletedStep, KeepingCall
<1>5. CASE PerformSingleMeasurement
  <2>1. PICK f \in ModeFaults, w \in {"ok", "timeout"} :
            Returning("Single", f, SingleMeasurement(Device(f, w, 0)))
    BY <1>5 DEF PerformSingleMeasurement
  <2>2. f \in Int /\ w \in Waits
    BY DEF Waits
  <2> QED
    BY <2>1, <2>2, DeviceStep, SingleStep, KeepingCall
<1>6. CASE ClearInterruptMask
  <2>1. PICK f \in 0 .. 2, w \in {"ok", "timeout"} :
            Returning("Clear", f - 1, ClearLatch(Device(f - 1, w, 0)))
    BY <1>6 DEF ClearInterruptMask
  <2>2. f - 1 \in Int /\ w \in Waits
    BY DEF Waits
  <2> QED
    BY <2>1, <2>2, DeviceStep, ClearStep, PlainKeeps, KeepingCall
<1>7. CASE SetGpioConfig
  <2>1. PICK pin \in {0, 1}, mode \in {"back", "drive", "osc"}, func \in 0 .. 5, f \in ModeFaults :
            Returning("SetGpio", f,
                Reconfigured(PinConfig(Device(f, "ok", 0), pin, mode, func)))
    BY <1>7 DEF SetGpioConfig
  <2> QED
    BY <2>1, DeviceStep, PinConfigStep, PinCall
<1>8. CASE GetGpioConfig
  <2>1. PICK pin \in {0, 1}, f \in {-1, 0, 1}, v \in 0 .. 7 :
            Returning("GetGpio", f,
                Reconfigured(ReadPinConfig(Reading(Device(f, "ok", 0), v), pin)))
    BY <1>8 DEF GetGpioConfig
  <2>2. f \in Int /\ v \in Halves
    BY DEF Halves
  <2> DEFINE c == Reading(Device(f, "ok", 0), v)
  <2>3. c \in CallRecord
    BY <2>2, DeviceStep, ReadingStep
  <2> HIDE DEF c
  <2>4. ReadPinConfig(c, pin) \in CallRecord
    BY <2>3, ReadPinConfigStep
  <2> QED
    BY <2>1, <2>2, <2>4, PinCall DEF c
<1>9. CASE SetInterruptThresholds
  <2>1. PICK low \in {0, 300}, high \in {0, 300}, f \in {-1, 1} :
            Returning("SetThresholds", f,
                Reconfigured(WriteThresholds(Device(f, "ok", 0), low, high)))
    BY <1>9 DEF SetInterruptThresholds
  <2> QED
    BY <2>1, DeviceStep, WriteThresholdsStep, PinCall
<1>10. CASE SetPowerMode
  <2>1. PICK mode \in {"standby", "idle", "level2"}, f \in ModeFaults :
            LET c == Device(f, "ok", 0)
            IN  Returning("SetPower", f,
                    CASE mode = "standby" -> ToStandby(c)
                      [] mode = "idle" -> Reconfigured(ToIdle(c))
                      [] OTHER -> Fail(c, "unsupported"))
    BY <1>10 DEF SetPowerMode
  <2> DEFINE c == Device(f, "ok", 0)
  <2>2. c \in CallRecord
    BY DeviceStep
  <2>3. CASE mode = "standby"
    <3>1. Returning("SetPower", f, ToStandby(c))
      BY <2>1, <2>3
    <3> QED
      BY <2>2, <3>1, ToStandbyStep, DeviceStep, KeepingCall
  <2>4. CASE mode = "idle"
    <3>1. Returning("SetPower", f, Reconfigured(ToIdle(c)))
      BY <2>1, <2>4
    <3> QED
      BY <2>2, <3>1, ToIdleStep, PinCall
  <2>5. CASE mode = "level2"
    <3>1. Returning("SetPower", f, Fail(c, "unsupported"))
      BY <2>1, <2>5
    <3>2. Keeps(c, Fail(c, "unsupported"))
      BY <2>2, FailStep, StatusNames, PlainKeeps
    <3> QED
      BY <2>2, <3>1, <3>2, DeviceStep, KeepingCall
  <2> QED
    BY <2>3, <2>4, <2>5
<1>11. CASE GetPowerMode
  <2>1. PICK f \in {-1, 0} :
            Returning("GetPower", f, Then(Transfer(Device(f, "ok", 0)), LAMBDA x :
                [x EXCEPT !.pal.power = IF x.chip.standby = 0 THEN "idle" ELSE "standby"]))
    BY <1>11 DEF GetPowerMode
  <2> DEFINE t == Transfer(Device(f, "ok", 0))
             p == IF t.chip.standby = 0 THEN "idle" ELSE "standby"
             d == [t EXCEPT !.pal.power = p]
             e == IF t.status = "none" THEN d ELSE t
  <2>2. Returning("GetPower", f, e)
    BY <2>1 DEF Then
  <2>3. Keeps(Device(f, "ok", 0), t) /\ t \in CallRecord /\ p \in Powers
    BY DeviceStep, TransferStep, PlainKeeps, StateNames DEF Keeps
  <2>4. Keeps(t, d)
    BY <2>3, PalUpdate, PlainKeeps
  <2> HIDE DEF t, d
  <2>5. Keeps(Device(f, "ok", 0), e)
    BY <2>3, <2>4, DeviceStep, KeepsChains
  <2> QED
    BY <2>2, <2>5, DeviceStep, KeepingCall
<1>12. CASE DataInit
  <2>1. PICK f \in ModeFaults :
            Returning("DataInit", f,
                Then(Transfers(Device(f, "ok", 0), 3), LAMBDA x :
                    [x EXCEPT !.pal.state = "WAIT_STATICINIT", !.pal.mode = "single"]))
    BY <1>12 DEF DataInit
  <2> DEFINE t == Transfers(Device(f, "ok", 0), 3)
             d == [t EXCEPT !.pal.state = "WAIT_STATICINIT"]
             g == [d EXCEPT !.pal.mode = "single"]
             e == IF t.status = "none" THEN g ELSE t
  <2>3. Keeps(Device(f, "ok", 0), t) /\ t \in CallRecord
    <3>1. Device(f, "ok", 0) \in CallRecord
      BY DeviceStep DEF Waits, Bit
    <3>2. Plain(Device(f, "ok", 0), t)
      BY <3>1, TransfersStep
    <3> QED
      BY <3>2, PlainKeeps DEF Keeps
  <2>2. Returning("DataInit", f, e)
    <3>1. g = [t EXCEPT !.pal.state = "WAIT_STATICINIT", !.pal.mode = "single"]
      OBVIOUS
    <3> QED
      BY <2>1, <3>1 DEF Then
  <2> HIDE DEF t
  <2>4. Plain(t, d) /\ d \in CallRecord
    BY <2>3, PalUpdate, StateNames DEF Plain
  <2> HIDE DEF d
  <2>5. Plain(d, g)
    BY <2>4, PalUpdate, StateNames
  <2> HIDE DEF g
  <2>6. Keeps(t, g)
    BY <2>3, <2>4, <2>5, PlainChains, PlainKeeps
  <2>7. Keeps(Device(f, "ok", 0), e)
    BY <2>3, <2>6, DeviceStep, KeepsChains
  <2> QED
    BY <2>2, <2>7, DeviceStep, KeepingCall
<1>13. CASE StaticInit
  <2>1. PICK f \in ModeFaults :
            Returning("StaticInit", f, Reconfigured(InitStatic(Device(f, "ok", 0))))
    BY <1>13 DEF StaticInit
  <2> QED
    BY <2>1, DeviceStep, InitStaticStep, PinCall
<1> QED
  BY <1>1, <1>2, <1>3, <1>4, <1>5, <1>6, <1>7, <1>8, <1>9, <1>10, <1>11, <1>12, <1>13
     DEF ModesCall
(* A reset, which leaves either nothing loaded or what was known.          *)
LEMMA ResetInvariant == ModesInv /\ ResetDevice => ModesInv'
<1> SUFFICES ASSUME ModesInv, ResetDevice
             PROVE  ModesInv'
  OBVIOUS
<1>0. /\ reset.at \in ResetStages /\ reset.lost \in 0 .. MaxLost /\ MaxLost \in Nat
      /\ DOMAIN reset = {"at", "lost"}
      /\ [reset EXCEPT !.lost = @ + 1].at = reset.at
  BY ModesAssumption DEF ModesInv
<1>1. ASSUME UNCHANGED <<pal, touched, calls>>,
             chip' \in Chip, chip'.tuned = 0 \/ SamePin([chip |-> chip, pal |-> pal],
                                                        [chip |-> chip', pal |-> pal]),
             chip'.tuned = 1 => chip.tuned = 1,
             reset' \in [at : ResetStages, lost : 0 .. MaxLost]
      PROVE  ModesInv'
  <2>1. TuningKnown'
    <3>1. CASE chip'.tuned = 0
      BY <3>1 DEF TuningKnown
    <3>2. CASE SamePin([chip |-> chip, pal |-> pal], [chip |-> chip', pal |-> pal])
      BY <1>1, <3>2 DEF TuningKnown, ModesInv, Wanted, SamePin
    <3> QED
      BY <1>1, <3>1, <3>2
  <2> QED
    BY <1>1, <2>1 DEF ModesInv
<1>2. \A at \in ResetStages, n \in Nat :
          n <= MaxLost => [at |-> at, lost |-> n] \in [at : ResetStages, lost : 0 .. MaxLost]
  BY <1>0
<1>3. ASSUME NEW status, ResetEnds(status), UNCHANGED chip
      PROVE  ModesInv'
  <2>1. pal' \in Pal /\ pal'.func = pal.func
    BY <1>3, StateNames DEF ResetEnds, ModesInv, Pal
  <2>2. TuningKnown' /\ touched' \in Bit
    BY <1>3, <2>1 DEF ResetEnds, ModesInv, TuningKnown, Wanted, Bit
  <2>3. reset' \in [at : ResetStages, lost : 0 .. MaxLost]
    BY <1>0, <1>3 DEF ResetEnds, ResetStages
  <2> QED
    BY <1>3, <2>1, <2>2, <2>3 DEF ResetEnds, Ended, ModesInv
<1>4. \A at \in ResetStages :
          [reset EXCEPT !.at = at] \in [at : ResetStages, lost : 0 .. MaxLost]
  BY DEF ModesInv
<1>5. CASE ResetAssert
  <2>1. UNCHANGED <<pal, touched, calls>>
    BY <1>5 DEF ResetAssert
  <2>2. CASE /\ chip' = IF chip.page = 0 THEN [chip EXCEPT !.line = "falling"] ELSE chip
             /\ reset' = [reset EXCEPT !.at = "waitDown"]
    <3>1. chip' \in Chip /\ chip'.tuned = chip.tuned
      BY <2>2 DEF ModesInv, Chip, Lines
    <3>2. SamePin([chip |-> chip, pal |-> pal], [chip |-> chip', pal |-> pal])
      BY <2>2 DEF ModesInv, Chip, SamePin
    <3>3. reset' \in [at : ResetStages, lost : 0 .. MaxLost]
      BY <2>2, <1>4 DEF ResetStages
    <3> QED
      BY <1>1, <2>1, <3>1, <3>2, <3>3
  <2>3. CASE /\ reset.lost < MaxLost /\ UNCHANGED chip
             /\ reset' = [at |-> "release", lost |-> reset.lost + 1]
    <3>1. reset' \in [at : ResetStages, lost : 0 .. MaxLost]
      BY <1>0, <2>3 DEF ResetStages
    <3> QED
      BY <1>1, <2>1, <2>3, <3>1 DEF ModesInv, SamePin
  <2> QED
    BY <1>5, <2>2, <2>3 DEF ResetAssert
<1>6. CASE ResetWaitDown
  <2>1. reset' \in [at : ResetStages, lost : 0 .. MaxLost]
    <3>1. CASE reset' = [reset EXCEPT !.at = "release"] \/ reset' = reset
      BY <1>0, <1>4, <3>1 DEF ResetStages, ModesInv
    <3>2. CASE /\ reset.lost < MaxLost
               /\ \E at \in {"waitDown", "release"} : reset' = [at |-> at, lost |-> reset.lost + 1]
      BY <1>0, <3>2 DEF ResetStages
    <3> QED
      BY <1>6, <3>1, <3>2 DEF ResetWaitDown
  <2> QED
    BY <1>1, <1>6, <2>1 DEF ResetWaitDown, ModesInv, SamePin
<1>7. CASE ResetRelease
  <2>1. CASE ResetEnds("io") /\ UNCHANGED chip
    BY <1>3, <2>1
  <2>2. CASE /\ chip' = IF chip.line = "up" THEN chip ELSE [Fresh EXCEPT !.line = "booting"]
             /\ reset' = [reset EXCEPT !.at = "waitUp"]
             /\ UNCHANGED <<pal, touched, last, calls>>
    <3>1. reset' \in [at : ResetStages, lost : 0 .. MaxLost]
      BY <1>4, <2>2 DEF ResetStages
    <3>2. CASE chip.line = "up"
      BY <1>1, <2>2, <3>1, <3>2 DEF ModesInv, SamePin
    <3>3. CASE chip.line # "up"
      <4>1. chip' \in Chip /\ chip'.tuned = 0
        BY <2>2, <3>3, FreshChip
      <4> QED
        BY <1>1, <2>2, <3>1, <4>1
    <3> QED
      BY <3>2, <3>3
  <2> QED
    BY <1>7, <2>1, <2>2 DEF ResetRelease
<1>8. CASE ResetWaitUp
  <2>1. CASE ResetEnds("none")
    BY <1>3, <1>8, <2>1 DEF ResetWaitUp
  <2>2. CASE UNCHANGED <<reset, pal, touched, last, calls>>
    BY <1>1, <1>8, <2>2 DEF ResetWaitUp, ModesInv, SamePin
  <2>3. CASE /\ reset.lost < MaxLost /\ reset' = [reset EXCEPT !.lost = @ + 1]
             /\ UNCHANGED <<pal, touched, last, calls>>
    <3>1. reset' \in [at : ResetStages, lost : 0 .. MaxLost]
      BY <1>0, <2>3 DEF ModesInv
    <3> QED
      BY <1>1, <1>8, <2>3, <3>1 DEF ResetWaitUp, ModesInv, SamePin
  <2> QED
    BY <1>8, <2>1, <2>2, <2>3 DEF ResetWaitUp
<1> QED
  BY <1>5, <1>6, <1>7, <1>8 DEF ResetDevice

(* The sensor on its own moves neither the pin nor the tuning.             *)
LEMMA SensorInvariant == ModesInv /\ (Measured \/ LineMoves) => ModesInv'
<1> SUFFICES ASSUME ModesInv, Measured \/ LineMoves
             PROVE  ModesInv'
  OBVIOUS
<1>1. UNCHANGED <<pal, reset, touched, calls>>
  BY DEF Measured, LineMoves, Rested
<1>2. /\ chip' \in Chip /\ chip'.tuned = chip.tuned
      /\ chip'.low = chip.low /\ chip'.high = chip.high
  <2>1. CASE Measured
    <3>1. PICK crossed \in BOOLEAN :
            chip' = [chip EXCEPT !.done = 1,
                        !.run = IF @ \in Continuous THEN @ ELSE "idle",
                        !.latched = IF chip.func = 4 \/ crossed THEN chip.func ELSE @]
      BY <2>1 DEF Measured
    <3> DEFINE run == IF chip.run \in Continuous THEN chip.run ELSE "idle"
               latched == IF chip.func = 4 \/ crossed THEN chip.func ELSE chip.latched
    <3>2. chip' = [chip EXCEPT !.done = 1, !.run = run, !.latched = latched]
      BY <3>1 DEF ModesInv, Chip
    <3>3. run \in Runs /\ latched \in Functions /\ 1 \in Bit
      BY DEF ModesInv, Chip, Runs, Bit
    <3> HIDE DEF run, latched
    <3> QED
      BY <3>2, <3>3 DEF ModesInv, Chip
  <2>2. CASE LineMoves
    BY <2>2 DEF LineMoves, ModesInv, Chip, Lines
  <2> QED
    BY <2>1, <2>2
<1>3. TuningKnown'
  BY <1>1, <1>2 DEF TuningKnown, ModesInv, Wanted
<1> QED
  BY <1>1, <1>2, <1>3 DEF ModesInv

LEMMA ModesInvariant == ModesSpec => []ModesInv
<1>1. ModesInv /\ [ModesNext]_modesVars => ModesInv'
  <2>1. ModesInv /\ UNCHANGED modesVars => ModesInv'
    BY DEF modesVars, ModesInv, TuningKnown
  <2> QED
    BY <2>1, CallInvariant, ResetInvariant, SensorInvariant DEF ModesNext
<1> QED
  BY <1>1, InitInvariant, PTL DEF ModesSpec

(* The device registers, the driver's state and the stage of a reset stay  *)
(* what the code can store in them, whatever transfers are lost.           *)
THEOREM ModesTypeCorrect == ModesSpec => []ModesTypeOK
<1>1. ASSUME ModesInv PROVE ModesTypeOK
  <2>1. /\ chip.page \in Pages /\ chip.run \in Runs /\ chip.line \in Lines
        /\ chip.func \in Functions /\ chip.latched \in Functions
        /\ {chip.done, chip.tuned, chip.standby} \subseteq Bit
        /\ {chip.low, chip.high} \subseteq Halves
    BY <1>1 DEF ModesInv, Chip
  <2>2. reset.at \in ResetStages /\ reset.lost \in 0 .. MaxLost /\ touched \in Bit
    BY <1>1 DEF ModesInv
  <2>3. pal \in [state : States, mode : DeviceModes, func : Functions, power : Powers]
    BY <1>1 DEF ModesInv, Pal
  <2> QED
    BY <2>1, <2>2, <2>3 DEF ModesTypeOK, Pages, Runs, Lines, Functions, Bit, Powers, ResetStages
<1> QED
  BY <1>1, ModesInvariant, PTL

(* VL53L0X_StopMeasurement (src/vl53l0x_api.c): a session that ends        *)
(* without a loss leaves no threshold tuning in the sensor, whatever       *)
(* earlier calls lost, unless the pin was reconfigured while it was loaded *)
(* or a start, its deselect of page 1 lost, read the thresholds off that   *)
(* page and tuned for what the sensor does not hold.                       *)
THEOREM StopDropsTuning == ModesSpec => TuningFollowsSession
<1>1. ASSUME ModesInv, StopMeasurement, ~last'.lost, touched = 0
      PROVE  chip'.tuned = 0
  <2> DEFINE c(f) == Device(f, "ok", 0)
  <2>1. PICK f \in ModeFaults : Returning("Stop", f, Stop(c(f)))
    BY <1>1 DEF StopMeasurement
  <2>2. f \in Int
    BY Faults
  <2>3. c(f) \in CallRecord /\ Known(c(f)) /\ c(f).fuse = f /\ c(f).touched = 0
    BY <1>1, <2>2, DeviceStep, Faults
  <2> HIDE DEF c
  <2>4. Keeps(c(f), Stop(c(f)))
    BY <2>3, StopStep
  <2>5. Stop(c(f)).fuse \in Int
    BY <2>4, RecordFields DEF Keeps
  <2>6. chip' = Stop(c(f)).chip /\ Intact(c(f), Stop(c(f)))
    <3> DEFINE lost == Lost(f, Stop(c(f)))
    <3>1. chip' = Stop(c(f)).chip
          /\ last' = [op |-> "Stop", status |-> Stop(c(f)).status, lost |-> lost]
      BY <2>1 DEF Returning, Ended
    <3>2. ~lost
      <4> HIDE DEF lost
      <4> QED
        BY ONLY <1>1, <3>1, Zenon
    <3> QED
      BY <2>2, <2>3, <2>5, <3>1, <3>2 DEF Lost, Intact
  <2> QED
    BY <2>3, <2>6, StopStep
<1>2. ModesInv /\ [ModesNext]_modesVars /\ CleanCall /\ last'.op = "Stop" => StopMeasurement
  <2> SUFFICES ASSUME ModesInv, [ModesNext]_modesVars, CleanCall, last'.op = "Stop"
               PROVE  StopMeasurement
    OBVIOUS
  <2>1. calls' # calls
    BY DEF ModesInv, CleanCall
  <2>2. CASE ModesCall
    <3>1. ASSUME NEW op, NEW f, NEW d, Returning(op, f, d)
          PROVE  op = "Stop"
      BY <3>1 DEF Returning, Ended
    <3>2. ~SetDeviceMode /\ ~GetStopCompletedStatus
          /\ ~PerformSingleMeasurement /\ ~ClearInterruptMask
      BY <3>1 DEF SetDeviceMode, GetStopCompletedStatus,
                  PerformSingleMeasurement, ClearInterruptMask
    <3>3. ~SetGpioConfig /\ ~GetGpioConfig /\ ~SetInterruptThresholds /\ ~SetPowerMode
      BY <3>1 DEF SetGpioConfig, GetGpioConfig, SetInterruptThresholds, SetPowerMode
    <3>4. ~GetPowerMode /\ ~DataInit /\ ~StaticInit
      BY <3>1 DEF GetPowerMode, DataInit, StaticInit
    <3>5. ~StartMeasurement
      BY <3>1 DEF StartMeasurement
    <3> QED
      BY <2>2, <3>2, <3>3, <3>4, <3>5 DEF ModesCall
  <2>3. CASE ResetDevice
    BY <2>1, <2>3 DEF ResetDevice, ResetAssert, ResetWaitDown, ResetRelease,
       ResetWaitUp, ResetEnds, Ended
  <2>4. CASE Measured \/ LineMoves \/ UNCHANGED modesVars
    BY <2>1, <2>4 DEF Measured, LineMoves, Rested, modesVars
  <2> QED
    BY <2>2, <2>3, <2>4 DEF ModesNext
<1>3. ModesInv /\ [ModesNext]_modesVars =>
        [CleanCall /\ last'.op = "Stop" /\ touched = 0 => chip'.tuned = 0]_modesVars
  BY <1>1, <1>2 DEF CleanCall
<1> QED
  BY <1>3, ModesInvariant, PTL DEF ModesSpec, TuningFollowsSession
-----------------------------------------------------------------------------
(* What the driver remembers follows the sensor.                           *)
AgreeIn(c) ==
    /\ c.pal.state = "RUNNING" <=> c.chip.run \in Continuous
    /\ c.pal.state = "POWERDOWN" => c.chip.run = "idle" /\ c.chip.tuned = 0 /\ c.chip.func = 0
    /\ c.chip.page = 0

RunsOn(c) == c.pal.state = "RUNNING" => c.pal.mode \in Continuous

(* A part of a call that cannot change either, whatever it loses.          *)
Steady(c, d) ==
    /\ d \in CallRecord
    /\ d.pal.state = c.pal.state /\ d.pal.mode = c.pal.mode
    /\ d.chip.run = c.chip.run /\ d.chip.page = c.chip.page /\ d.chip.tuned = c.chip.tuned
    /\ c.pal.state = "POWERDOWN" => d.chip.func = c.chip.func

LEMMA SteadyAgrees ==
    ASSUME NEW c, NEW d, Steady(c, d)
    PROVE  (AgreeIn(c) => AgreeIn(d)) /\ (RunsOn(c) => RunsOn(d))
  BY DEF Steady, AgreeIn, RunsOn

LEMMA SteadyChains ==
    ASSUME NEW c, NEW d, NEW e, Steady(c, d), Steady(d, e)
    PROVE  Steady(c, e)
  BY DEF Steady

LEMMA SteadyParts ==
    ASSUME NEW c \in CallRecord
    PROVE  /\ Steady(c, c) /\ Steady(c, Transfer(c))
           /\ \A v \in Bit : Steady(c, Power80(c, v))
           /\ \A n \in Nat : Steady(c, Transfers(c, n))
           /\ \A s \in Statuses : Steady(c, Fail(c, s))
           /\ \A v \in Functions : Steady(c, [c EXCEPT !.pal.func = v])
           /\ \A w \in Powers : Steady(c, [c EXCEPT !.pal.power = w])
           /\ Steady(c, DataReady(c)) /\ Steady(c, Reconfigured(c))
<1>1. Steady(c, c) /\ Steady(c, Transfer(c))
  BY TransferStep DEF Steady, Plain, SameState
<1>2. ASSUME NEW v \in Bit
      PROVE  Steady(c, Power80(c, v))
  BY PowerStep DEF Steady, Plain, SamePin, SameState
<1>3. ASSUME NEW n \in Nat
      PROVE  Steady(c, Transfers(c, n))
  BY TransfersStep DEF Steady, Plain
<1>4. ASSUME NEW s \in Statuses
      PROVE  Steady(c, Fail(c, s))
  BY FailStep DEF Steady, Plain, Quiet, SameState
<1>5. ASSUME NEW v \in Functions
      PROVE  Steady(c, [c EXCEPT !.pal.func = v])
  BY FuncUpdate DEF Steady
<1>6. ASSUME NEW w \in Powers
      PROVE  Steady(c, [c EXCEPT !.pal.power = w])
  BY PalUpdate DEF Steady, Plain
<1>7. Steady(c, DataReady(c))
  BY DataReadyStep DEF Steady, Plain
<1>8. Steady(c, Reconfigured(c))
  <2> DEFINE d == [c EXCEPT !.touched = 1]
  <2>1. d \in CallRecord /\ d.chip = c.chip /\ d.pal = c.pal
    BY RecordUpdate, RecordFields DEF Bit
  <2>2. Reconfigured(c) \in {c, d}
    BY DEF Reconfigured
  <2> HIDE DEF d
  <2> QED
    BY <1>1, <2>1, <2>2 DEF Steady
<1> QED
  BY <1>1, <1>2, <1>3, <1>4, <1>5, <1>6, <1>7, <1>8

LEMMA SteadyRegister ==
    ASSUME NEW c \in CallRecord, NEW field \in Registers, NEW v, Fits(field, v),
           field = "func" => c.pal.state # "POWERDOWN"
    PROVE  Steady(c, Register(c, field, v))
  BY RegisterStep DEF Steady, SameState

LEMMA SteadyClear ==
    ASSUME NEW c \in CallRecord
    PROVE  Steady(c, ClearLatch(c))
<1> DEFINE s1 == Register(c, "latched", 0)
           a == Register(s1, "latched", 0)
           s2 == IF s1.status = "none" THEN a ELSE Fail(a, s1.status)
           t == Transfer(s2)
           s3 == IF s2.status = "none" THEN t ELSE Fail(t, s2.status)
           u == Fail(s3, "uncleared")
<1>0. ClearLatch(c) \in {s3, u}
  BY DEF ClearLatch, AlsoThen, Then
<1>1. "latched" \in Registers /\ Fits("latched", 0)
  BY DEF Registers, Fits, Functions
<1>2. Steady(c, s1) /\ s1 \in CallRecord /\ s1.status \in Statuses
  BY <1>1, SteadyRegister, RecordFields DEF Steady
<1> HIDE DEF s1
<1>3. Steady(s1, a) /\ a \in CallRecord
  BY <1>1, <1>2, SteadyRegister DEF Steady
<1> HIDE DEF a
<1>4. Steady(a, Fail(a, s1.status))
  BY <1>2, <1>3, SteadyParts
<1>5. Steady(c, s2) /\ s2 \in CallRecord /\ s2.status \in Statuses
  <2>1. Steady(s1, s2) /\ s2 \in CallRecord
    BY <1>3, <1>4, SteadyChains DEF Steady
  <2> QED
    BY <1>2, <2>1, SteadyChains, RecordFields
<1> HIDE DEF s2
<1>6. Steady(s2, t) /\ t \in CallRecord
  BY <1>5, SteadyParts DEF Steady
<1> HIDE DEF t
<1>7. Steady(t, Fail(t, s2.status))
  BY <1>5, <1>6, SteadyParts
<1>8. Steady(c, s3) /\ s3 \in CallRecord
  <2>1. Steady(s2, s3) /\ s3 \in CallRecord
    BY <1>6, <1>7, SteadyChains DEF Steady
  <2> QED
    BY <1>5, <2>1, SteadyChains
<1> HIDE DEF s3
<1>9. Steady(s3, u)
  BY <1>8, SteadyParts, StatusNames
<1>10. Steady(c, u)
  BY <1>8, <1>9, SteadyChains
<1> QED
  BY <1>0, <1>8, <1>10

LEMMA SteadyReadPin ==
    ASSUME NEW c \in CallRecord, NEW pin
    PROVE  Steady(c, Reconfigured(ReadPinConfig(c, pin)))
<1> DEFINE s1 == Transfer(c)
           t == Polarity(s1)
           s2 == IF s1.status = "none" THEN t ELSE s1
           u == [s2 EXCEPT !.pal.func = Seen(s2, "func")]
           s3 == IF s2.status = "none" THEN u ELSE s2
           f == Fail(c, "gpio")
           r == ReadPinConfig(c, pin)
<1>0. r \in {f, s3}
  BY DEF ReadPinConfig, Then, Polarity
<1>1. Steady(c, s1) /\ s1 \in CallRecord /\ Steady(c, f)
  BY SteadyParts, StatusNames DEF Steady
<1> HIDE DEF s1, f
<1>2. Steady(s1, t) /\ (t.status = "none" => Seen(t, "func") \in Functions)
  BY <1>1, PolarityStep DEF Steady, Plain, SameState
<1> HIDE DEF t
<1>3. Steady(c, s2) /\ s2 \in CallRecord /\ (s2.status = "none" => Seen(s2, "func") \in Functions)
  BY <1>1, <1>2, SteadyChains DEF Steady
<1> HIDE DEF s2
<1>4. s2.status = "none" => Steady(s2, u)
  BY <1>3, SteadyParts
<1> HIDE DEF u
<1>5. Steady(c, r) /\ r \in CallRecord
  <2>1. Steady(c, s3)
    BY <1>3, <1>4, SteadyChains
  <2> QED
    BY <1>0, <1>1, <2>1 DEF Steady
<1> HIDE DEF r
<1>6. Steady(r, Reconfigured(r))
  BY <1>5, SteadyParts
<1> QED
  BY <1>5, <1>6, SteadyChains DEF r

LEMMA SteadyThresholds ==
    ASSUME NEW c \in CallRecord, NEW low \in {0, 300}, NEW high \in {0, 300}
    PROVE  Steady(c, Reconfigured(WriteThresholds(c, low, high)))
<1> DEFINE s1 == Register(c, "low", (low \div 2) % 4096)
           t == Register(s1, "high", (high \div 2) % 4096)
           s2 == IF s1.status = "none" THEN t ELSE s1
<1>0. WriteThresholds(c, low, high) = s2
  BY DEF WriteThresholds, Then
<1>1. (low \div 2) % 4096 \in Halves /\ (high \div 2) % 4096 \in Halves
  BY DEF Halves
<1>2. "low" \in Registers /\ "high" \in Registers
      /\ Fits("low", (low \div 2) % 4096) /\ Fits("high", (high \div 2) % 4096)
  BY <1>1 DEF Registers, Fits
<1>3. Steady(c, s1) /\ s1 \in CallRecord
  BY <1>2, SteadyRegister DEF Steady
<1> HIDE DEF s1
<1>4. Steady(s1, t)
  BY <1>2, <1>3, SteadyRegister
<1> HIDE DEF t
<1>5. Steady(c, s2) /\ s2 \in CallRecord
  BY <1>3, <1>4, SteadyChains DEF Steady
<1> HIDE DEF s2
<1>6. Steady(s2, Reconfigured(s2))
  BY <1>5, SteadyParts
<1> QED
  BY <1>0, <1>5, <1>6, SteadyChains

(* StaticInit of a device that is neither down nor running.                *)
LEMMA InitAgrees ==
    ASSUME NEW c \in CallRecord, c.pal.state \notin {"POWERDOWN", "RUNNING"}
    PROVE  LET d == InitStatic(c) IN
           /\ d \in CallRecord /\ (AgreeIn(c) => AgreeIn(d)) /\ RunsOn(d)
           /\ d.pal.state \notin {"POWERDOWN", "RUNNING"}
<1> DEFINE d == Register(c, "func", 4)
           t == Transfers(d, 2)
           e == IF d.status = "none" THEN t ELSE d
           u == [e EXCEPT !.pal.func = 4]
           g == IF e.status = "none" THEN u ELSE e
           k == ClearLatch(g)
           h == IF g.status = "none" THEN k ELSE g
           i == [h EXCEPT !.pal.state = "IDLE"]
<1>0. InitStatic(c) \in {h, i}
  BY DEF InitStatic, PinFunction, Then
<1>1. "func" \in Registers /\ Fits("func", 4) /\ 4 \in Functions
  BY DEF Registers, Fits, Functions
<1>2. Steady(c, d) /\ d \in CallRecord
  BY <1>1, SteadyRegister DEF Steady
<1> HIDE DEF d
<1>3. Steady(d, t)
  BY <1>2, SteadyParts
<1> HIDE DEF t
<1>4. Steady(c, e) /\ e \in CallRecord
  BY <1>2, <1>3, SteadyChains DEF Steady
<1> HIDE DEF e
<1>5. Steady(e, u)
  BY <1>1, <1>4, SteadyParts
<1> HIDE DEF u
<1>6. Steady(c, g) /\ g \in CallRecord
  BY <1>4, <1>5, SteadyChains DEF Steady
<1> HIDE DEF g
<1>7. Steady(g, k)
  BY <1>6, SteadyClear
<1> HIDE DEF k
<1>8. Steady(c, h) /\ h \in CallRecord
  BY <1>6, <1>7, SteadyChains DEF Steady
<1> HIDE DEF h
<1>9. i \in CallRecord /\ i.chip = h.chip /\ i.pal.state = "IDLE"
  BY <1>8, PalUpdate, StateNames DEF Plain
<1> HIDE DEF i
<1> QED
  BY <1>0, <1>8, <1>9 DEF Steady, AgreeIn, RunsOn
LEMMA StartContinuousAgrees ==
    ASSUME NEW c \in CallRecord, NEW run \in Continuous, c.pal.state = "IDLE",
           c.pal.mode = run
    PROVE  LET d == StartContinuous(c, run) IN
           /\ RunsOn(d)
           /\ Intact(c, d) /\ c.status = "none" /\ c.chip.page = 0 => AgreeIn(d)
<1> DEFINE n == CheckAndLoadInterruptSettings(c, TRUE)
           s1 == IF c.status = "none" THEN n ELSE c
           s2 == SysrangeStart(s1, run)
           r == [s2 EXCEPT !.pal.state = "RUNNING"]
           s3 == IF s2.status = "none" THEN r ELSE s2
<1>0. StartContinuous(c, run) = s3
  BY DEF StartContinuous, Then
<1>1. c.status = "none" => /\ Tunes(c, n)
                           /\ Intact(c, n) /\ c.chip.page = 0 => n.chip.page = 0
  BY StartSettingsStep
<1> HIDE DEF n
<1>2. s1 \in CallRecord /\ s1.pal = c.pal
      /\ (Intact(c, s1) /\ c.status = "none" /\ c.chip.page = 0 => s1.chip.page = 0)
      /\ s1.fuse <= c.fuse
  BY <1>1, RecordFields DEF Tunes, SameState
<1> HIDE DEF s1
<1>3. /\ s2 \in CallRecord /\ s2.pal = s1.pal /\ s2.chip.page = s1.chip.page
      /\ s2.fuse <= s1.fuse
      /\ Intact(s1, s2) =>
            /\ s2.status = "none"
            /\ s1.chip.page = 0 => s2.chip.run = Started0(s1.chip.run, run)
  BY <1>2, SysrangeStep DEF Plain
<1>4. Started0(s1.chip.run, run) = run
  BY <1>2, StartedRuns, RecordFields DEF Chip
<1> HIDE DEF s2
<1>5. /\ r.chip = s2.chip /\ r.fuse = s2.fuse
      /\ r.pal.state = "RUNNING" /\ r.pal.mode = s2.pal.mode
  BY <1>3, PalUpdate, StateNames, ZenonT(30)
<1> HIDE DEF r
<1>6. RunsOn(s3)
  BY <1>2, <1>3, <1>5 DEF RunsOn
<1>7. ASSUME Intact(c, s3), c.status = "none", c.chip.page = 0
      PROVE  AgreeIn(s3)
  <2>1. c.fuse \in Int /\ s1.fuse \in Int /\ s2.fuse \in Int /\ s3.fuse = s2.fuse
    BY <1>2, <1>3, <1>5, RecordFields
  <2>2. Intact(c, s1) /\ Intact(s1, s2)
    BY <1>2, <1>3, <1>7, <2>1 DEF Intact
  <2>3. s3 = r /\ s2.chip.run = run /\ s2.chip.page = 0
    BY <1>2, <1>3, <1>4, <1>7, <2>2
  <2> QED
    BY <1>5, <2>3 DEF AgreeIn
<1> QED
  BY <1>0, <1>6, <1>7

(* A start in IDLE brings the agreement about if it succeeds, and keeps it *)
(* if it fails though no transfer was lost.                                *)
LEMMA StartAgrees ==
    ASSUME NEW c \in CallRecord, c.pal.state = "IDLE"
    PROVE  LET d == Start(c) IN
           /\ RunsOn(d)
           /\ Intact(c, d) /\ (AgreeIn(c) \/ d.status = "none") => AgreeIn(d)
           /\ c.pal.mode = "single" => d.pal = c.pal
<1> DEFINE d == Rearm(c)
           e == SysrangeStart(d, "start")
           g == WaitStarted(e)
           h == IF e.status = "none" THEN g ELSE e
           k == StartContinuous(d, c.pal.mode)
           u == Fail(d, "unsupported")
<1>1. Start(c) = CASE c.pal.mode = "single" -> h
                   [] c.pal.mode \in Continuous -> k
                   [] OTHER -> u
  BY DEF Start, Then
<1>2. /\ d \in CallRecord /\ d.pal = c.pal /\ d.fuse <= c.fuse
      /\ Intact(c, d) => d.status = "none" /\ d.chip.page = 0 /\ d.chip.run = c.chip.run
  BY RearmStep DEF Plain
<1> HIDE DEF d
<1>3. CASE c.pal.mode = "single"
  <2>1. /\ e \in CallRecord /\ e.pal = d.pal /\ e.chip.page = d.chip.page
        /\ e.fuse <= d.fuse
        /\ Intact(d, e) /\ d.chip.page = 0 => e.chip.run = Started0(d.chip.run, "start")
    BY <1>2, SysrangeStep DEF Plain
  <2>2. Started0(d.chip.run, "start") \notin Continuous
    <3>1. d.chip.run \in Runs
      BY <1>2, RecordFields DEF Chip
    <3> QED
      BY <3>1, StartedRuns DEF Continuous
  <2> HIDE DEF e
  <2>3. g.chip = e.chip /\ g.pal = e.pal /\ g.fuse <= e.fuse /\ g \in CallRecord
    <3>1. g = IF e.wait = "ok" THEN Transfer(e) ELSE Fail(e, "timeout")
      BY <2>1, RecordFields DEF WaitStarted, Waits
    <3>2. Plain(e, Transfer(e)) /\ SameState(e, Transfer(e)) /\ Transfer(e).chip = e.chip
      BY <2>1, TransferStep
    <3>3. LET x == Fail(e, "timeout") IN Plain(e, x) /\ Quiet(e, x) /\ x.chip = e.chip
      BY <2>1, FailStep, StatusNames
    <3> QED
      BY <3>1, <3>2, <3>3 DEF Plain, Quiet, SameState
  <2> HIDE DEF g
  <2>4. h.chip = e.chip /\ h.pal = c.pal /\ h.fuse <= e.fuse /\ h.fuse \in Int
    BY <1>2, <2>1, <2>3, RecordFields
  <2> HIDE DEF h
  <2>5. ASSUME Intact(c, h)
        PROVE  AgreeIn(h)
    <3>1. Intact(c, d) /\ Intact(d, e)
      <4>1. c.fuse \in Int /\ d.fuse \in Int /\ e.fuse \in Int
        BY <1>2, <2>1, RecordFields
      <4> QED
        BY <1>2, <2>1, <2>4, <2>5, <4>1 DEF Intact
    <3>2. h.chip.page = 0 /\ h.chip.run \notin Continuous
      BY <1>2, <2>1, <2>2, <2>4, <3>1
    <3> QED
      BY <2>4, <3>2 DEF AgreeIn
  <2>6. Start(c) = h
    BY <1>1, <1>3 DEF Continuous
  <2>7. RunsOn(h)
    BY <2>4 DEF RunsOn
  <2> QED
    BY <2>4, <2>5, <2>6, <2>7
<1>4. CASE c.pal.mode \in Continuous
  <2>1. /\ RunsOn(k)
        /\ Intact(d, k) /\ d.status = "none" /\ d.chip.page = 0 => AgreeIn(k)
    BY <1>2, <1>4, StartContinuousAgrees
  <2>2. k \in CallRecord /\ k.fuse <= d.fuse
    BY <1>2, <1>4, StartContinuousStep DEF Keeps
  <2>3. Start(c) = k /\ c.pal.mode # "single"
    BY <1>1, <1>4 DEF Continuous
  <2> HIDE DEF k
  <2>4. Intact(c, k) => Intact(c, d) /\ Intact(d, k)
    <3>1. c.fuse \in Int /\ d.fuse \in Int /\ k.fuse \in Int
      BY <1>2, <2>2, RecordFields
    <3> QED
      BY <1>2, <2>2, <3>1 DEF Intact
  <2> QED
    BY <1>2, <2>1, <2>3, <2>4
<1>5. CASE c.pal.mode # "single" /\ c.pal.mode \notin Continuous
  <2>1. /\ u.chip = d.chip /\ u.status = "unsupported" /\ u.fuse = d.fuse /\ u.pal = d.pal
    BY <1>2, FailStep, StatusNames DEF Quiet, SameState
  <2>2. Start(c) = u
    BY <1>1, <1>5
  <2> HIDE DEF u
  <2>3. Intact(c, u) => Intact(c, d)
    BY <2>1 DEF Intact
  <2> QED
    BY <1>2, <1>5, <2>1, <2>2, <2>3 DEF RunsOn, AgreeIn
<1> QED
  BY <1>3, <1>4, <1>5

LEMMA StopAgrees ==
    ASSUME NEW c \in CallRecord, c.pal.state = "RUNNING"
    PROVE  LET d == Stop(c) IN
           /\ RunsOn(c) => RunsOn(d)
           /\ Intact(c, d) /\ AgreeIn(c) => AgreeIn(d)
<1> DEFINE s1 == SysrangeStart(c, "none")
           s2 == WriteStopVariable(s1)
           i == [s2 EXCEPT !.pal.state = "IDLE"]
           s3 == IF s2.status = "none" THEN i ELSE s2
           n == CheckAndLoadInterruptSettings(s3, FALSE)
           s4 == IF s3.status = "none" THEN n ELSE s3
<1>0. Stop(c) = s4
  BY DEF Stop, Then
<1>1. /\ s1 \in CallRecord /\ s1.pal = c.pal /\ s1.chip.page = c.chip.page
      /\ s1.fuse <= c.fuse
      /\ Intact(c, s1) /\ c.chip.page = 0 => s1.chip.run = Started0(c.chip.run, "none")
  BY SysrangeStep DEF Plain
<1>2. Started0(c.chip.run, "none") \notin Continuous
  <2>1. c.chip.run \in Runs
    BY RecordFields DEF Chip
  <2> QED
    BY <2>1, StartedRuns DEF Continuous
<1> HIDE DEF s1
<1>3. /\ s2 \in CallRecord /\ s2.pal = s1.pal /\ s2.fuse <= s1.fuse
      /\ s2.status = "none" => s2.chip.page = 0
      /\ Intact(s1, s2) => /\ s2.status = "none" /\ s2.chip.page = 0
                           /\ s2.chip.run = s1.chip.run
  BY <1>1, StopVariableStep DEF Plain
<1> HIDE DEF s2
<1>4. /\ i \in CallRecord /\ i.chip = s2.chip /\ i.fuse = s2.fuse /\ i.status = s2.status
      /\ i.pal.state = "IDLE" /\ i.pal.mode = s2.pal.mode
  BY <1>3, PalUpdate, StateNames DEF Plain
<1> HIDE DEF i
<1>5. /\ s3 \in CallRecord /\ s3.chip = s2.chip /\ s3.fuse = s2.fuse
      /\ s3.status = s2.status /\ s3.pal.mode = c.pal.mode
      /\ s3.pal.state \in {"RUNNING", "IDLE"}
      /\ s2.status = "none" => s3.pal.state = "IDLE"
  BY <1>1, <1>3, <1>4
<1> HIDE DEF s3
<1>6. s3.status = "none" =>
        /\ n \in CallRecord /\ n.fuse <= s3.fuse /\ SameState(s3, n)
        /\ Intact(s3, n) => n.chip.page = 0
  <2> SUFFICES ASSUME s3.status = "none"
               PROVE  /\ n \in CallRecord /\ n.fuse <= s3.fuse /\ SameState(s3, n)
                      /\ Intact(s3, n) => n.chip.page = 0
    OBVIOUS
  <2>1. s3 \in CallRecord /\ s3.chip.page = 0
    BY <1>3, <1>5
  <2>2. Keeps(s3, n) /\ SameState(s3, n)
        /\ (Intact(s3, n) => n.status = "none" /\ n.chip.page = 0)
    <3> HIDE DEF s3
    <3> QED
      BY <2>1, StopSettingsStep
  <2> HIDE DEF n
  <2> QED
    BY <2>2 DEF Keeps
<1> HIDE DEF n
<1>7. s4.pal = s3.pal /\ s4 \in CallRecord /\ s4.fuse <= s3.fuse
  BY <1>5, <1>6, RecordFields DEF SameState
<1>8. ASSUME Intact(c, s4), AgreeIn(c)
      PROVE  AgreeIn(s4)
  <2>1. c.fuse \in Int /\ s1.fuse \in Int /\ s2.fuse \in Int /\ s4.fuse \in Int
    BY <1>1, <1>3, <1>7, RecordFields
  <2>2. Intact(c, s1) /\ Intact(s1, s2) /\ Intact(s3, s4)
    BY <1>1, <1>3, <1>5, <1>7, <1>8, <2>1 DEF Intact
  <2>3. s3.status = "none" /\ s3.pal.state = "IDLE" /\ s3.chip.page = 0
        /\ s3.chip.run \notin Continuous
    BY <1>1, <1>2, <1>3, <1>5, <1>8, <2>2 DEF AgreeIn
  <2>4. s4.chip.page = 0 /\ s4.chip.run = s3.chip.run
    BY <1>6, <2>2, <2>3 DEF SameState
  <2> QED
    BY <1>7, <2>3, <2>4 DEF AgreeIn
<1> QED
  BY <1>0, <1>5, <1>7, <1>8 DEF RunsOn

LEMMA StopCompletedAgrees ==
    ASSUME NEW c \in CallRecord, c.pal.state = "IDLE"
    PROVE  LET d == StopCompleted(c) IN
           /\ RunsOn(d)
           /\ Intact(c, d) /\ AgreeIn(c) => AgreeIn(d)
<1> DEFINE s1 == Select(c, 1)
           t == Transfer(s1)
           s2 == IF s1.status = "none" THEN t ELSE s1
           q == Select(s2, 0)
           s3 == IF s2.status = "none" THEN q ELSE s2
           r == Rearm(s3)
<1>0. StopCompleted(c) \in {s3, r}
  BY DEF StopCompleted, Then
<1>1. Sure(c, s1) /\ s1 \in CallRecord
  BY SureSelect DEF Sure, Quiet, Pages
<1> HIDE DEF s1
<1>2. Sure(s1, t)
  BY <1>1, SureTransfer
<1> HIDE DEF t
<1>3. Sure(c, s2) /\ s2 \in CallRecord
  BY <1>1, <1>2, ThenSure DEF Sure, Quiet
<1> HIDE DEF s2
<1>4. Sure(s2, q) /\ (Intact(s2, q) => q.chip.page = 0)
  BY <1>3, SureSelect DEF Pages
<1> HIDE DEF q
<1>5. /\ Sure(c, s3) /\ s3 \in CallRecord /\ s3.fuse \in Int /\ s3.pal = c.pal
      /\ s3.chip.run = c.chip.run /\ s3.fuse <= c.fuse
      /\ Intact(c, s3) => s3.chip.page = 0
  BY <1>3, <1>4, ThenSure, RecordFields DEF Sure, Quiet, SameState
<1> HIDE DEF s3
<1>6. /\ r \in CallRecord /\ r.pal = s3.pal /\ r.fuse <= s3.fuse /\ r.fuse \in Int
      /\ Intact(s3, r) => r.chip.page = 0 /\ r.chip.run = s3.chip.run
  BY <1>5, RearmStep, RecordFields DEF Plain
<1> HIDE DEF r
<1>7. RunsOn(s3) /\ RunsOn(r)
  BY <1>5, <1>6 DEF RunsOn
<1>8. Intact(c, s3) /\ AgreeIn(c) => AgreeIn(s3)
  BY <1>5 DEF AgreeIn
<1>9. Intact(c, r) => Intact(c, s3) /\ Intact(s3, r)
  BY <1>5, <1>6, RecordFields DEF Intact
<1>10. Intact(c, r) /\ AgreeIn(c) => AgreeIn(r)
  BY <1>5, <1>6, <1>9 DEF AgreeIn
<1> QED
  BY <1>0, <1>7, <1>8, <1>10
LEMMA SingleAgrees ==
    ASSUME NEW c \in CallRecord, c.pal.state \in {"IDLE", "RUNNING"}, RunsOn(c)
    PROVE  LET d == SingleMeasurement(c) IN
           /\ d \in CallRecord /\ RunsOn(d)
           /\ Intact(c, d) /\ AgreeIn(c) => AgreeIn(d)
<1> DEFINE b == Start(c)
           s1 == IF c.pal.mode = "single" THEN b ELSE c
           d == DataReady(s1)
           u == Fail(d, "timeout")
           q == PollForCompletion(s1)
           s2 == IF s1.status = "none" THEN q ELSE s1
           n == FinishSingle(s2)
           s3 == IF s2.status = "none" THEN n ELSE s2
<1>0. SingleMeasurement(c) = s3
  BY DEF SingleMeasurement, Then
<1>1. c.pal.mode = "single" => c.pal.state = "IDLE"
  BY DEF RunsOn, Continuous
<1>2. /\ s1 \in CallRecord /\ s1.pal = c.pal /\ s1.fuse <= c.fuse
      /\ Intact(c, s1) /\ AgreeIn(c) => AgreeIn(s1)
  <2>1. c.pal.mode = "single" =>
          /\ b.pal = c.pal
          /\ Intact(c, b) /\ AgreeIn(c) => AgreeIn(b)
    BY <1>1, StartAgrees
  <2>2. b \in CallRecord /\ b.fuse <= c.fuse
    BY StartStep DEF Keeps
  <2> HIDE DEF b
  <2> QED
    BY <2>1, <2>2, RecordFields
<1> HIDE DEF b, s1
<1>3. Steady(s1, d) /\ d \in CallRecord /\ d.fuse <= s1.fuse
  BY <1>2, SteadyParts, DataReadyStep DEF Plain
<1>4. q \in {d, u}
  BY DEF PollForCompletion, Then
<1> HIDE DEF d, q
<1>5. Steady(d, u) /\ u \in CallRecord /\ u.fuse = d.fuse
  BY <1>3, SteadyParts, FailStep, StatusNames DEF Steady
<1> HIDE DEF u
<1>6. Steady(s1, q) /\ q \in CallRecord /\ q.fuse <= s1.fuse
  BY <1>3, <1>4, <1>5, SteadyChains
<1>7. Steady(s1, s2) /\ s2 \in CallRecord /\ s2.fuse <= s1.fuse
  BY <1>2, <1>6, SteadyParts, RecordFields
<1> HIDE DEF s2
<1>8. /\ n \in CallRecord /\ n.fuse <= s2.fuse
      /\ n.chip.page = s2.chip.page /\ n.chip.run \in {s2.chip.run, "idle"}
      /\ n.pal.mode = s2.pal.mode /\ n.pal.state \in {s2.pal.state, "IDLE"}
      /\ n = s2 \/ s2.pal.mode = "single"
  BY <1>7, FinishSingleStep DEF Plain, FinishSingle
<1> HIDE DEF n
<1>9. s2.pal.state \in {"IDLE", "RUNNING"} /\ (s2.pal.mode = "single" => s2.pal.state = "IDLE")
        /\ RunsOn(s2)
  BY <1>1, <1>2, <1>7, SteadyAgrees DEF Steady, RunsOn
<1>10. RunsOn(s3) /\ s3 \in CallRecord /\ s3.fuse <= s2.fuse
  BY <1>7, <1>8, <1>9, RecordFields DEF RunsOn
<1>11. AgreeIn(s2) => AgreeIn(s3)
  <2>1. "idle" \notin Continuous
    BY DEF Continuous
  <2>2. AgreeIn(s2) => AgreeIn(n)
    BY <1>8, <1>9, <2>1 DEF AgreeIn
  <2> QED
    BY <2>2
<1>12. Intact(c, s3) => Intact(c, s1)
  <2>1. c.fuse \in Int /\ s1.fuse \in Int /\ s2.fuse \in Int /\ s3.fuse \in Int
    BY <1>2, <1>7, <1>10, RecordFields
  <2> QED
    BY <1>2, <1>7, <1>10, <2>1 DEF Intact
<1> HIDE DEF s3
<1> QED
  BY <1>0, <1>2, <1>7, <1>10, <1>11, <1>12, SteadyAgrees

LEMMA PowerAgrees ==
    ASSUME NEW c \in CallRecord, c.pal.state \in {"STANDBY", "IDLE"}
    PROVE  LET d == ToStandby(c) e == ToIdle(c) IN
           /\ RunsOn(d) /\ (AgreeIn(c) => AgreeIn(d))
           /\ e \in CallRecord /\ RunsOn(e) /\ (AgreeIn(c) => AgreeIn(e))
<1> DEFINE p == Power80(c, 0)
           q == [p EXCEPT !.pal.state = "STANDBY"]
           r == [q EXCEPT !.pal.power = "standby"]
           i == InitStatic(p)
           s == IF p.status = "none" THEN i ELSE p
           t == [s EXCEPT !.pal.power = "idle"]
<1>1. ToStandby(c) \in {p, r} /\ ToIdle(c) \in {s, t}
  BY DEF ToStandby, ToIdle, Then
<1>2. Steady(c, p) /\ p \in CallRecord
  BY SteadyParts DEF Steady, Bit
<1> HIDE DEF p
<1>3. /\ p.pal.state \in {"STANDBY", "IDLE"} /\ RunsOn(p) /\ (AgreeIn(c) => AgreeIn(p))
  BY <1>2, SteadyAgrees DEF Steady, RunsOn
<1>4. q \in CallRecord /\ q.chip = p.chip /\ q.pal.state = "STANDBY"
  BY <1>2, PalUpdate, StateNames DEF Plain
<1> HIDE DEF q
<1>5. r.chip = q.chip /\ r.pal.state = q.pal.state
  BY <1>4, PalUpdate, StateNames
<1> HIDE DEF r
<1>6. RunsOn(r) /\ (AgreeIn(p) => AgreeIn(r))
  BY <1>3, <1>4, <1>5 DEF RunsOn, AgreeIn
<1>7. i \in CallRecord /\ RunsOn(i) /\ (AgreeIn(p) => AgreeIn(i))
  BY <1>2, <1>3, InitAgrees
<1> HIDE DEF i
<1>8. s \in CallRecord /\ RunsOn(s) /\ (AgreeIn(p) => AgreeIn(s))
  BY <1>2, <1>3, <1>7
<1> HIDE DEF s
<1>9. Steady(s, t) /\ t \in CallRecord
  <2>1. \A w \in Powers : Steady(s, [s EXCEPT !.pal.power = w])
    BY <1>8, SteadyParts
  <2>2. Steady(s, t)
    BY <2>1, StateNames
  <2> QED
    BY <2>2 DEF Steady
<1> HIDE DEF t
<1> QED
  BY <1>1, <1>3, <1>6, <1>8, <1>9, SteadyAgrees

(* The pin's configuration leaves the driver's state alone.                *)
LEMMA PinStays ==
    ASSUME NEW c \in CallRecord, NEW pin, NEW mode, NEW func \in 0 .. 5
    PROVE  LET d == PinConfig(c, pin, mode, func) IN
           d \in CallRecord /\ d.pal.state = c.pal.state /\ d.pal.mode = c.pal.mode
<1> DEFINE Stays(a, b) == /\ b \in CallRecord
                          /\ b.pal.state = a.pal.state /\ b.pal.mode = a.pal.mode
<1>0. ASSUME NEW a, NEW b, Steady(a, b)
      PROVE  Stays(a, b)
  BY <1>0 DEF Steady
<1>1. Stays(c, Fail(c, "gpio")) /\ Stays(c, Transfer(c))
  BY <1>0, SteadyParts, StatusNames
<1>2. Stays(c, PinOscillator(c))
  <2> DEFINE t == Transfers(c, 13)
             q == Select(t, 1)
             x == [t.chip EXCEPT !.page = 1]
             e == [t EXCEPT !.chip = x]
  <2>1. Stays(c, t)
    BY <1>0, SteadyParts
  <2>2. PinOscillator(c) \in {q, e}
    BY DEF PinOscillator
  <2> HIDE DEF t
  <2>3. Stays(t, q)
    BY <2>1, SelectStep DEF Plain, SameState, Pages
  <2>4. x \in Chip
    BY <2>1, RecordFields, ChipUpdate DEF Pages
  <2> HIDE DEF x
  <2>5. Stays(t, e)
    BY <2>1, <2>4, RecordUpdate, RecordFields
  <2> HIDE DEF q, e
  <2> QED
    BY <2>1, <2>2, <2>3, <2>5
<1>3. Stays(c, PinFunction(c, func))
  <2> DEFINE d == IF func = 5 THEN Fail(c, "gpio") ELSE Register(c, "func", func)
             t == Transfers(d, 2)
             e == IF d.status = "none" THEN t ELSE d
             u == [e EXCEPT !.pal.func = func]
             g == IF e.status = "none" THEN u ELSE e
             k == ClearLatch(g)
             h == IF g.status = "none" THEN k ELSE g
  <2>0. PinFunction(c, func) = h
    BY DEF PinFunction, Then
  <2>1. Stays(c, d) /\ (func = 5 => d.status # "none")
    <3>1. CASE func = 5
      BY <1>1, <3>1, FailStep, StatusNames
    <3>2. CASE func # 5
      <4>1. func \in Functions
        BY <3>2 DEF Functions
      <4>2. "func" \in Registers /\ Fits("func", func)
        BY <4>1 DEF Registers, Fits
      <4> QED
        BY <3>2, <4>2, RegisterStep DEF SameState
    <3> QED
      BY <3>1, <3>2
  <2> HIDE DEF d
  <2>2. Stays(d, t)
    BY <1>0, <2>1, SteadyParts
  <2> HIDE DEF t
  <2>3. Stays(c, e) /\ (e.status = "none" => func \in Functions)
    BY <2>1, <2>2 DEF Functions
  <2> HIDE DEF e
  <2>4. e.status = "none" => Stays(e, u)
    BY <2>3, FuncUpdate
  <2> HIDE DEF u
  <2>5. Stays(c, g)
    BY <2>3, <2>4
  <2> HIDE DEF g
  <2>6. Stays(g, k)
    BY <1>0, <2>5, SteadyClear
  <2> HIDE DEF k
  <2> QED
    BY <2>0, <2>5, <2>6
<1> HIDE DEF Stays
<1>4. Stays(c, PinConfig(c, pin, mode, func))
  BY <1>1, <1>2, <1>3 DEF PinConfig
<1> QED
  BY <1>4 DEF Stays
(* Inductive with ModesInv: a driver that is RUNNING is in a continuous    *)
(* mode, and a reset on page 0 that lost no poll goes with the sensor.     *)
AgreeInv ==
    /\ pal.state = "RUNNING" => pal.mode \in Continuous
    /\ reset.lost = 0 /\ chip.page = 0 =>
        /\ reset.at = "waitDown" => chip.line \in {"falling", "down"}
        /\ reset.at = "release" => chip.line = "down"
        /\ reset.at = "waitUp" =>
              /\ chip.line \in {"booting", "up"}
              /\ chip.run = "idle" /\ chip.tuned = 0 /\ chip.func = 0

CleanStepAgrees ==
    CleanCall /\ last'.op # "SetGpio" /\ (Agree \/ StartSucceeds) => Agree'

LEMMA AgreeDevice ==
    ASSUME NEW f, NEW w, NEW l
    PROVE  LET c == Device(f, w, l) IN
           /\ AgreeIn(c) <=> Agree
           /\ c.pal = pal /\ c.fuse = f
           /\ AgreeInv => RunsOn(c)
  BY DEF Device, AgreeIn, Agree, AgreeInv, RunsOn

LEMMA ReadingAgrees ==
    ASSUME NEW c \in CallRecord, NEW v \in Halves
    PROVE  LET d == Reading(c, v) IN
           /\ d \in CallRecord /\ d.fuse = c.fuse /\ d.pal = c.pal
           /\ (AgreeIn(d) <=> AgreeIn(c)) /\ (RunsOn(d) <=> RunsOn(c))
  BY ReadingStep DEF AgreeIn, RunsOn

(* A call whose result follows the sensor if it lost nothing.              *)
LEMMA AgreeingCall ==
    ASSUME ModesInv, AgreeInv, NEW op, NEW f \in Int, NEW c, c.fuse = f, AgreeIn(c) <=> Agree,
           NEW d \in CallRecord, RunsOn(d), Returning(op, f, d),
           Intact(c, d) =>
              (AgreeIn(c) \/ (op = "Start" /\ d.status = "none") => AgreeIn(d))
              \/ op = "SetGpio"
    PROVE  AgreeInv' /\ CleanStepAgrees
<1> DEFINE lost == Lost(f, d)
<1>1. /\ chip' = d.chip /\ pal' = d.pal /\ reset' = reset /\ reset.at = "none"
      /\ last' = [op |-> op, status |-> d.status, lost |-> lost]
  BY DEF Returning, Ended
<1>2. last'.op = op /\ last'.status = d.status
  BY <1>1
<1>3. ~last'.lost => ~lost
  <2> HIDE DEF lost
  <2> QED
    BY ONLY <1>1, Zenon
<1>4. ~lost => Intact(c, d)
  BY RecordFields DEF Lost, Intact
<1> HIDE DEF lost
<1>5. AgreeInv'
  BY <1>1 DEF AgreeInv, RunsOn
<1>6. AgreeIn(d) => Agree'
  BY <1>1 DEF AgreeIn, Agree
<1>7. Agree \/ StartSucceeds => AgreeIn(c) \/ (op = "Start" /\ d.status = "none")
  BY <1>2 DEF StartSucceeds
<1>8. CleanStepAgrees
  BY <1>2, <1>3, <1>4, <1>6, <1>7 DEF CleanStepAgrees, CleanCall
<1> QED
  BY <1>5, <1>8

LEMMA SteadyCall ==
    ASSUME ModesInv, AgreeInv, NEW op, NEW f \in Int,
           NEW c, c.fuse = f, AgreeIn(c) <=> Agree, RunsOn(c),
           NEW d, Steady(c, d), op # "Start", Returning(op, f, d)
    PROVE  AgreeInv' /\ CleanStepAgrees
<1>1. d \in CallRecord /\ RunsOn(d) /\ (AgreeIn(c) => AgreeIn(d))
  BY SteadyAgrees DEF Steady
<1> QED
  BY <1>1, AgreeingCall

LEMMA CallAgrees == ModesInv /\ AgreeInv /\ ModesCall => AgreeInv' /\ CleanStepAgrees
<1> SUFFICES ASSUME ModesInv, AgreeInv, ModesCall
             PROVE  AgreeInv' /\ CleanStepAgrees
  OBVIOUS
<1> USE Faults
<1>1. CASE SetDeviceMode
  <2> DEFINE c == Device(-1, "ok", 0)
  <2>1. pal.state # "RUNNING"
    BY <1>1 DEF SetDeviceMode
  <2>2. PICK mode \in DeviceModes \cup {"histogram"} :
            Returning("SetDeviceMode", -1,
                IF mode = "histogram" THEN Fail(c, "unsupported")
                ELSE [c EXCEPT !.pal.mode = mode])
    BY <1>1 DEF SetDeviceMode
  <2>3. c \in CallRecord /\ c.pal.state # "RUNNING"
    BY <2>1, DeviceStep, AgreeDevice
  <2>4. CASE mode = "histogram"
    <3>1. Returning("SetDeviceMode", -1, Fail(c, "unsupported"))
      BY <2>2, <2>4
    <3>2. Steady(c, Fail(c, "unsupported"))
      BY <2>3, SteadyParts, StatusNames
    <3> QED
      BY <3>1, <3>2, AgreeDevice, SteadyCall
  <2>5. CASE mode # "histogram"
    <3> DEFINE d == [c EXCEPT !.pal.mode = mode]
    <3>1. Returning("SetDeviceMode", -1, d)
      BY <2>2, <2>5
    <3>2. d \in CallRecord /\ d.chip = c.chip /\ d.pal.state = c.pal.state
      BY <2>3, <2>5, PalUpdate DEF Plain
    <3> HIDE DEF d
    <3>3. RunsOn(d) /\ (AgreeIn(c) => AgreeIn(d)) /\ d \in CallRecord
      BY <2>3, <3>2 DEF RunsOn, AgreeIn
    <3>4. PICK f \in Int : f = -1
      OBVIOUS
    <3>5. Returning("SetDeviceMode", f, d)
      BY <3>1, <3>4
    <3>6. AgreeIn(Device(f, "ok", 0)) => AgreeIn(d)
      BY <3>3, <3>4
    <3> QED
      BY ONLY Faults, ModesInv, AgreeInv, <3>3, <3>5, <3>6, AgreeDevice, AgreeingCall
  <2> QED
    BY <2>4, <2>5
<1>2. CASE StartMeasurement
  <2>1. PICK f \in ModeFaults, w \in {"ok", "timeout"}, l \in {0, 1}, v \in {0, 150} :
            Returning("Start", f, Start(Reading(Device(f, w, l), v)))
    BY <1>2 DEF StartMeasurement
  <2>2. f \in Int /\ w \in Waits /\ l \in Bit /\ v \in Halves
    BY DEF Waits, Bit, Halves
  <2> DEFINE e == Device(f, w, l)
             c == Reading(e, v)
             d == Start(c)
  <2>6. e \in CallRecord /\ e.fuse = f /\ e.pal.state = "IDLE" /\ (AgreeIn(e) <=> Agree)
    BY <1>2, <2>2, DeviceStep, AgreeDevice DEF StartMeasurement
  <2> HIDE DEF e
  <2>3. c \in CallRecord /\ c.fuse = f /\ c.pal.state = "IDLE" /\ (AgreeIn(c) <=> Agree)
    BY <2>2, <2>6, ReadingAgrees
  <2> HIDE DEF c
  <2>4. d \in CallRecord /\ RunsOn(d)
        /\ (Intact(c, d) /\ (AgreeIn(c) \/ d.status = "none") => AgreeIn(d))
    BY <2>3, StartAgrees, StartStep DEF Keeps
  <2> HIDE DEF d
  <2>5. Returning("Start", f, d)
    BY <2>1 DEF c, d, e
  <2> QED
    BY <2>2, <2>3, <2>4, <2>5, AgreeingCall
<1>3. CASE StopMeasurement
  <2>1. PICK f \in ModeFaults : Returning("Stop", f, Stop(Device(f, "ok", 0)))
    BY <1>3 DEF StopMeasurement
  <2> DEFINE c == Device(f, "ok", 0)
             d == Stop(c)
  <2>2. c \in CallRecord /\ c.pal.state = "RUNNING" /\ RunsOn(c)
    BY <1>3, DeviceStep, AgreeDevice DEF StopMeasurement
  <2>3. d \in CallRecord /\ RunsOn(d) /\ (Intact(c, d) /\ AgreeIn(c) => AgreeIn(d))
    BY <2>2, StopAgrees, StopStep DEF Keeps
  <2> HIDE DEF d
  <2>4. Returning("Stop", f, d)
    BY <2>1 DEF d
  <2> QED
    BY <2>3, <2>4, AgreeDevice, AgreeingCall
<1>4. CASE GetStopCompletedStatus
  <2>1. PICK f \in ModeFaults :
            Returning("StopCompleted", f, StopCompleted(Device(f, "ok", 0)))
    BY <1>4 DEF GetStopCompletedStatus
  <2> DEFINE c == Device(f, "ok", 0)
             d == StopCompleted(c)
  <2>2. c \in CallRecord /\ c.pal.state = "IDLE"
    BY <1>4, DeviceStep, AgreeDevice DEF GetStopCompletedStatus
  <2>3. d \in CallRecord /\ RunsOn(d) /\ (Intact(c, d) /\ AgreeIn(c) => AgreeIn(d))
    BY <2>2, StopCompletedAgrees, StopCompletedStep DEF Keeps
  <2> QED
    BY <2>1, <2>3, AgreeDevice, AgreeingCall
<1>5. CASE PerformSingleMeasurement
  <2>1. PICK f \in ModeFaults, w \in {"ok", "timeout"} :
            Returning("Single", f, SingleMeasurement(Device(f, w, 0)))
    BY <1>5 DEF PerformSingleMeasurement
  <2>2. f \in Int /\ w \in Waits
    BY DEF Waits
  <2> DEFINE c == Device(f, w, 0)
             d == SingleMeasurement(c)
  <2>3. c \in CallRecord /\ c.pal.state \in {"IDLE", "RUNNING"} /\ RunsOn(c)
    BY <1>5, <2>2, DeviceStep, AgreeDevice DEF PerformSingleMeasurement
  <2>4. d \in CallRecord /\ RunsOn(d) /\ (Intact(c, d) /\ AgreeIn(c) => AgreeIn(d))
    BY <2>3, SingleAgrees
  <2> QED
    BY <2>1, <2>2, <2>4, AgreeDevice, AgreeingCall
<1>6. CASE ClearInterruptMask
  <2>1. PICK f \in 0 .. 2, w \in {"ok", "timeout"} :
            Returning("Clear", f - 1, ClearLatch(Device(f - 1, w, 0)))
    BY <1>6 DEF ClearInterruptMask
  <2>2. f - 1 \in Int /\ w \in Waits
    BY DEF Waits
  <2> QED
    BY <2>1, <2>2, DeviceStep, SteadyClear, AgreeDevice, SteadyCall
<1>7. CASE SetGpioConfig
  <2>1. PICK pin \in {0, 1}, mode \in {"back", "drive", "osc"}, func \in 0 .. 5, f \in ModeFaults :
            Returning("SetGpio", f,
                Reconfigured(PinConfig(Device(f, "ok", 0), pin, mode, func)))
    BY <1>7 DEF SetGpioConfig
  <2> DEFINE c == Device(f, "ok", 0)
             p == PinConfig(c, pin, mode, func)
             d == Reconfigured(p)
  <2>2. c \in CallRecord /\ RunsOn(c)
    BY DeviceStep, AgreeDevice
  <2>3. p \in CallRecord /\ RunsOn(p)
    BY <2>2, PinStays DEF RunsOn
  <2> HIDE DEF p
  <2>4. d \in CallRecord /\ RunsOn(d)
    BY <2>3, SteadyParts, SteadyAgrees DEF Steady
  <2>5. Returning("SetGpio", f, d)
    BY <2>1 DEF p
  <2> QED
    BY <2>4, <2>5, AgreeDevice, AgreeingCall
<1>8. CASE GetGpioConfig
  <2>1. PICK pin \in {0, 1}, f \in {-1, 0, 1}, v \in 0 .. 7 :
            Returning("GetGpio", f,
                Reconfigured(ReadPinConfig(Reading(Device(f, "ok", 0), v), pin)))
    BY <1>8 DEF GetGpioConfig
  <2>2. f \in Int /\ v \in Halves
    BY DEF Halves
  <2> DEFINE e == Device(f, "ok", 0)
             c == Reading(e, v)
  <2>3. e \in CallRecord /\ e.fuse = f /\ (AgreeIn(e) <=> Agree) /\ RunsOn(e)
    BY <2>2, DeviceStep, AgreeDevice
  <2> HIDE DEF e
  <2>4. c \in CallRecord /\ c.fuse = f /\ (AgreeIn(c) <=> Agree) /\ RunsOn(c)
    BY <2>2, <2>3, ReadingAgrees
  <2> HIDE DEF c
  <2>5. Steady(c, Reconfigured(ReadPinConfig(c, pin)))
    BY <2>4, SteadyReadPin
  <2> QED
    BY <2>1, <2>2, <2>4, <2>5, SteadyCall DEF c, e
<1>9. CASE SetInterruptThresholds
  <2>1. PICK low \in {0, 300}, high \in {0, 300}, f \in {-1, 1} :
            Returning("SetThresholds", f,
                Reconfigured(WriteThresholds(Device(f, "ok", 0), low, high)))
    BY <1>9 DEF SetInterruptThresholds
  <2> QED
    BY <2>1, DeviceStep, SteadyThresholds, AgreeDevice, SteadyCall
<1>10. CASE SetPowerMode
  <2>1. PICK mode \in {"standby", "idle", "level2"}, f \in ModeFaults :
            LET c == Device(f, "ok", 0)
            IN  Returning("SetPower", f,
                    CASE mode = "standby" -> ToStandby(c)
                      [] mode = "idle" -> Reconfigured(ToIdle(c))
                      [] OTHER -> Fail(c, "unsupported"))
    BY <1>10 DEF SetPowerMode
  <2> DEFINE c == Device(f, "ok", 0)
             i == ToIdle(c)
  <2>2. c \in CallRecord /\ c.pal.state \in {"STANDBY", "IDLE"}
    BY <1>10, DeviceStep, AgreeDevice DEF SetPowerMode
  <2>3. CASE mode = "standby"
    <3>1. Returning("SetPower", f, ToStandby(c))
      BY <2>1, <2>3
    <3>2. ToStandby(c) \in CallRecord
      BY <2>2, ToStandbyStep DEF Keeps
    <3> QED
      BY <2>2, <3>1, <3>2, PowerAgrees, AgreeDevice, AgreeingCall
  <2>4. CASE mode = "idle"
    <3>1. Returning("SetPower", f, Reconfigured(i))
      BY <2>1, <2>4
    <3>2. i \in CallRecord /\ RunsOn(i) /\ (AgreeIn(c) => AgreeIn(i))
      BY <2>2, PowerAgrees
    <3> HIDE DEF i
    <3>3. Steady(i, Reconfigured(i)) /\ Reconfigured(i) \in CallRecord
      BY <3>2, SteadyParts DEF Steady
    <3>4. RunsOn(Reconfigured(i)) /\ (AgreeIn(c) => AgreeIn(Reconfigured(i)))
      BY <3>2, <3>3, SteadyAgrees
    <3> QED
      BY <3>1, <3>3, <3>4, AgreeDevice, AgreeingCall
  <2>5. CASE mode = "level2"
    <3>1. Returning("SetPower", f, Fail(c, "unsupported"))
      BY <2>1, <2>5
    <3>2. Steady(c, Fail(c, "unsupported"))
      BY <2>2, SteadyParts, StatusNames
    <3> QED
      BY <3>1, <3>2, AgreeDevice, SteadyCall
  <2> QED
    BY <2>3, <2>4, <2>5
<1>11. CASE GetPowerMode
  <2>1. PICK f \in {-1, 0} :
            Returning("GetPower", f, Then(Transfer(Device(f, "ok", 0)), LAMBDA x :
                [x EXCEPT !.pal.power = IF x.chip.standby = 0 THEN "idle" ELSE "standby"]))
    BY <1>11 DEF GetPowerMode
  <2> DEFINE c == Device(f, "ok", 0)
             t == Transfer(c)
             p == IF t.chip.standby = 0 THEN "idle" ELSE "standby"
             d == [t EXCEPT !.pal.power = p]
             e == IF t.status = "none" THEN d ELSE t
  <2>2. Returning("GetPower", f, e)
    BY <2>1 DEF Then
  <2>3. Steady(c, t) /\ t \in CallRecord
    <3>1. c \in CallRecord
      BY DeviceStep
    <3> QED
      BY <3>1, SteadyParts DEF Steady
  <2>6. p \in Powers
    BY StateNames
  <2> HIDE DEF t, p
  <2>4. Steady(t, d)
    BY <2>3, <2>6, SteadyParts
  <2> HIDE DEF d
  <2>5. Steady(c, e)
    BY <2>3, <2>4, SteadyChains
  <2> QED
    BY <2>2, <2>5, AgreeDevice, SteadyCall
<1>12. CASE DataInit
  <2>1. PICK f \in ModeFaults :
            Returning("DataInit", f,
                Then(Transfers(Device(f, "ok", 0), 3), LAMBDA x :
                    [x EXCEPT !.pal.state = "WAIT_STATICINIT", !.pal.mode = "single"]))
    BY <1>12 DEF DataInit
  <2> DEFINE c == Device(f, "ok", 0)
             t == Transfers(c, 3)
             d == [t EXCEPT !.pal.state = "WAIT_STATICINIT"]
             g == [d EXCEPT !.pal.mode = "single"]
             e == IF t.status = "none" THEN g ELSE t
  <2>2. Returning("DataInit", f, e)
    <3>1. g = [t EXCEPT !.pal.state = "WAIT_STATICINIT", !.pal.mode = "single"]
      OBVIOUS
    <3> QED
      BY <2>1, <3>1 DEF Then
  <2>3. Steady(c, t) /\ t \in CallRecord /\ c.pal.state = "POWERDOWN"
    BY <1>12, DeviceStep, SteadyParts, AgreeDevice, SMTT(30) DEF Steady, DataInit
  <2> HIDE DEF t
  <2>4. d \in CallRecord /\ d.chip = t.chip /\ d.pal.state = "WAIT_STATICINIT"
    BY <2>3, PalUpdate, StateNames DEF Plain
  <2> HIDE DEF d
  <2>5. g \in CallRecord /\ g.chip = d.chip /\ g.pal.state = d.pal.state
    BY <2>4, PalUpdate, StateNames DEF Plain
  <2> HIDE DEF g
  <2>6. RunsOn(t) /\ (AgreeIn(c) => AgreeIn(t)) /\ t.pal.state = "POWERDOWN"
    BY <2>3, SteadyAgrees, AgreeDevice DEF Steady, RunsOn
  <2>7. RunsOn(g) /\ (AgreeIn(t) => AgreeIn(g))
    BY <2>4, <2>5, <2>6 DEF RunsOn, AgreeIn
  <2>8. e \in CallRecord /\ RunsOn(e) /\ (AgreeIn(c) => AgreeIn(e))
    BY <2>3, <2>5, <2>6, <2>7
  <2> QED
    BY <2>2, <2>8, AgreeDevice, AgreeingCall
<1>13. CASE StaticInit
  <2>1. PICK f \in ModeFaults :
            Returning("StaticInit", f, Reconfigured(InitStatic(Device(f, "ok", 0))))
    BY <1>13 DEF StaticInit
  <2> DEFINE c == Device(f, "ok", 0)
             i == InitStatic(c)
  <2>2. c \in CallRecord /\ c.pal.state = "WAIT_STATICINIT"
    <3>1. c \in CallRecord
      BY DeviceStep
    <3>2. c.pal = pal
      BY AgreeDevice
    <3> QED
      BY <1>13, <3>1, <3>2 DEF StaticInit
  <2>3. i \in CallRecord /\ RunsOn(i) /\ (AgreeIn(c) => AgreeIn(i))
    BY <2>2, InitAgrees
  <2> HIDE DEF i
  <2>4. Steady(i, Reconfigured(i)) /\ Reconfigured(i) \in CallRecord
    BY <2>3, SteadyParts DEF Steady
  <2>5. RunsOn(Reconfigured(i)) /\ (AgreeIn(c) => AgreeIn(Reconfigured(i)))
    BY <2>3, <2>4, SteadyAgrees
  <2>6. Returning("StaticInit", f, Reconfigured(i))
    BY <2>1 DEF i
  <2> QED
    BY <2>4, <2>5, <2>6, AgreeDevice, AgreeingCall
<1> QED
  BY <1>1, <1>2, <1>3, <1>4, <1>5, <1>6, <1>7, <1>8, <1>9, <1>10, <1>11, <1>12, <1>13
     DEF ModesCall
LEMMA ResetAgrees == ModesInv /\ AgreeInv /\ ResetDevice => AgreeInv' /\ CleanStepAgrees
<1> SUFFICES ASSUME ModesInv, AgreeInv, ResetDevice
             PROVE  AgreeInv' /\ CleanStepAgrees
  OBVIOUS
<1>0. /\ reset.lost \in Nat /\ MaxLost \in Nat /\ calls \in Nat
      /\ DOMAIN reset = {"at", "lost"} /\ chip \in Chip
  BY ModesAssumption DEF ModesInv
<1>1. calls' = calls => CleanStepAgrees
  BY <1>0 DEF CleanStepAgrees, CleanCall
<1>2. ASSUME NEW status, ResetEnds(status), UNCHANGED chip, status # "none" \/ reset.at = "waitUp"
      PROVE  AgreeInv' /\ CleanStepAgrees
  <2> DEFINE lost == reset.lost # 0 \/ status # "none"
  <2>1. last' = [op |-> "Reset", status |-> status, lost |-> lost]
    BY <1>2 DEF ResetEnds, Ended
  <2>2. ~last'.lost => ~lost
    <3> HIDE DEF lost
    <3> QED
      BY ONLY <2>1, Zenon
  <2>3. AgreeInv'
    BY <1>2 DEF AgreeInv, ResetEnds, ModesInv, Pal
  <2>4. ~lost /\ chip.page = 0 => Agree'
    <3> SUFFICES ASSUME ~lost, chip.page = 0
                 PROVE  Agree'
      OBVIOUS
    <3>1. chip.run = "idle" /\ chip.tuned = 0 /\ chip.func = 0
      BY <1>2 DEF AgreeInv
    <3>2. chip' = chip /\ pal'.state = "POWERDOWN"
      BY <1>2 DEF ResetEnds, ModesInv, Pal
    <3> QED
      BY <3>1, <3>2 DEF Agree, Continuous
  <2>5. last'.op # "Start"
    BY <2>1
  <2>6. Agree \/ StartSucceeds => chip.page = 0
    BY <2>5 DEF Agree, StartSucceeds
  <2> HIDE DEF lost
  <2> QED
    BY <2>2, <2>3, <2>4, <2>6 DEF CleanStepAgrees, CleanCall
<1>3. CASE ResetAssert
  <2>1. calls' = calls /\ pal' = pal
    BY <1>3 DEF ResetAssert
  <2>2. CASE /\ chip' = IF chip.page = 0 THEN [chip EXCEPT !.line = "falling"] ELSE chip
             /\ reset' = [reset EXCEPT !.at = "waitDown"]
    <3>1. chip'.page = chip.page /\ (chip.page = 0 => chip'.line = "falling")
          /\ reset'.at = "waitDown"
      BY <1>0, <2>2 DEF Chip
    <3> QED
      BY <1>1, <2>1, <3>1 DEF AgreeInv
  <2>3. CASE reset' = [at |-> "release", lost |-> reset.lost + 1]
    <3>1. reset'.lost # 0
      BY <1>0, <2>3
    <3> QED
      BY <1>1, <2>1, <3>1 DEF AgreeInv
  <2> QED
    BY <1>3, <2>2, <2>3 DEF ResetAssert
<1>4. CASE ResetWaitDown
  <2>1. calls' = calls /\ pal' = pal /\ chip' = chip /\ reset.at = "waitDown"
    BY <1>4 DEF ResetWaitDown
  <2>2. CASE 0 \in ModelIds /\ reset' = [reset EXCEPT !.at = "release"]
    <3>1. reset'.at = "release" /\ reset'.lost = reset.lost
      BY <1>0, <2>2
    <3>2. chip.page = 0 => chip.line \in {"down", "booting"}
      BY <2>2 DEF ModelIds
    <3> QED
      BY <1>1, <2>1, <3>1, <3>2 DEF AgreeInv
  <2>4. CASE UNCHANGED reset
    BY <1>1, <2>1, <2>4 DEF AgreeInv
  <2>3. CASE \E at \in {"waitDown", "release"} : reset' = [at |-> at, lost |-> reset.lost + 1]
    <3>1. reset'.lost # 0
      BY <1>0, <2>3
    <3> QED
      BY <1>1, <2>1, <3>1 DEF AgreeInv
  <2> QED
    BY <1>4, <2>2, <2>3, <2>4 DEF ResetWaitDown
<1>5. CASE ResetRelease
  <2>1. CASE ResetEnds("io") /\ UNCHANGED chip
    BY <1>2, <2>1
  <2>2. CASE /\ chip' = IF chip.line = "up" THEN chip ELSE [Fresh EXCEPT !.line = "booting"]
             /\ reset' = [reset EXCEPT !.at = "waitUp"]
             /\ UNCHANGED <<pal, touched, last, calls>>
    <3>1. reset'.lost = reset.lost /\ reset'.at = "waitUp"
      BY <1>0, <2>2
    <3>2. \/ chip' = [Fresh EXCEPT !.line = "booting"]
          \/ chip' = chip /\ ~(reset.lost = 0 /\ chip.page = 0)
      BY <1>5, <2>2 DEF ResetRelease, AgreeInv
    <3>3. AgreeInv'
      BY <2>2, <3>1, <3>2 DEF AgreeInv, Fresh
    <3> QED
      BY <1>1, <2>2, <3>3
  <2> QED
    BY <1>5, <2>1, <2>2 DEF ResetRelease
<1>6. CASE ResetWaitUp
  <2>1. chip' = chip /\ reset.at = "waitUp"
    BY <1>6 DEF ResetWaitUp
  <2>2. CASE ResetEnds("none")
    BY <1>2, <2>1, <2>2
  <2>3. CASE UNCHANGED <<reset, pal, touched, last, calls>>
    BY <1>1, <2>1, <2>3 DEF AgreeInv
  <2>4. CASE reset' = [reset EXCEPT !.lost = @ + 1] /\ UNCHANGED <<pal, touched, last, calls>>
    <3>1. reset'.lost # 0
      BY <1>0, <2>4
    <3> QED
      BY <1>1, <2>1, <2>4, <3>1 DEF AgreeInv
  <2> QED
    BY <1>6, <2>2, <2>3, <2>4 DEF ResetWaitUp
<1> QED
  BY <1>3, <1>4, <1>5, <1>6 DEF ResetDevice

LEMMA SensorAgrees ==
    ModesInv /\ AgreeInv /\ (Measured \/ LineMoves \/ UNCHANGED modesVars)
        => AgreeInv' /\ CleanStepAgrees
<1> SUFFICES ASSUME ModesInv, AgreeInv, Measured \/ LineMoves \/ UNCHANGED modesVars
             PROVE  AgreeInv' /\ CleanStepAgrees
  OBVIOUS
<1>1. pal' = pal /\ reset' = reset /\ calls' = calls /\ calls \in Nat /\ chip \in Chip
  BY DEF Measured, LineMoves, Rested, modesVars, ModesInv
<1>2. CleanStepAgrees
  BY <1>1 DEF CleanStepAgrees, CleanCall
<1>3. CASE Measured
  <2>1. chip.run # "idle" /\ chip.line = "up" /\ chip'.page = chip.page
    BY <1>1, <1>3 DEF Measured, Chip
  <2> QED
    BY <1>1, <1>2, <2>1 DEF AgreeInv
<1>4. CASE LineMoves
  BY <1>1, <1>2, <1>4 DEF LineMoves, AgreeInv, Chip
<1>5. CASE UNCHANGED modesVars
  BY <1>2, <1>5 DEF modesVars, AgreeInv
<1> QED
  BY <1>3, <1>4, <1>5

LEMMA InitAgreeInv == ModesInit => AgreeInv
<1> SUFFICES ASSUME ModesInit
             PROVE  AgreeInv
  OBVIOUS
<1>1. reset.at = "none"
  BY DEF ModesInit
<1>2. CASE PoweredOn
  BY <1>1, <1>2 DEF PoweredOn, AgreeInv
<1>3. CASE ~PoweredOn
  BY <1>1, <1>3 DEF ModesInit, AgreeInv
<1> QED
  BY <1>2, <1>3

(* The device state of the driver (src/vl53l0x_api.c): a call that loses   *)
(* no transfer keeps RUNNING to the sensors that measure on their own and  *)
(* POWERDOWN to those just reset, and a start that succeeds restores that  *)
(* after whatever was lost before.                                         *)
THEOREM StateFollows == ModesSpec => StateFollowsSensor
<1>1. ModesInv /\ AgreeInv /\ [ModesNext]_modesVars => AgreeInv' /\ CleanStepAgrees
  BY CallAgrees, ResetAgrees, SensorAgrees DEF ModesNext
<1>2. ModesSpec => []AgreeInv
  BY <1>1, InitAgreeInv, ModesInvariant, PTL DEF ModesSpec
<1>3. ModesInv /\ AgreeInv /\ [ModesNext]_modesVars =>
        [CleanCall /\ last'.op # "SetGpio" /\ (Agree \/ StartSucceeds) => Agree']_modesVars
  BY <1>1 DEF CleanStepAgrees
<1> QED
  BY <1>2, <1>3, ModesInvariant, PTL DEF ModesSpec, StateFollowsSensor
=============================================================================
