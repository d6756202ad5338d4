---------------------------- MODULE MCDriverCalls ----------------------------
(***************************************************************************)
(* Small instances of the calls of the sensor library that stand beside    *)
(* the single ranging call: timing, settings, modes and reference SPADs.   *)
(* The four share no state but the record of the last call, so a behaviour *)
(* stays with one of them: the state space is the sum of theirs.           *)
(***************************************************************************)
EXTENDS RangeSettings, PalModes, RefSpads

VARIABLE part       \* which of the four this behaviour is about

Parts == {"timing", "settings", "modes", "spads"}

driverVars == <<part, regs, dev, set, saved, chip, pal, reset, touched, spad,
                last, calls>>

Raw(code, signal, ambient, stale, ref) ==
    [code |-> code, range |-> 500, signal |-> signal, ambient |-> ambient,
     spads |-> 40 * 256, ref |-> ref, stale |-> stale]

MCTargets ==
    {Raw(11, 400, 20, 1, 100), Raw(11, 400, 20, 0, 100), Raw(11, 1, 112, 0, 100),
     Raw(11, 8000, 20, 0, 6000), Raw(4, 400, 20, 0, 100), Raw(11, 6, 112, 1, 100),
     Raw(11, 60, 20, 0, 100)}

Average(n, range, end) ==
    [n |-> n, range |-> range, signal |-> IF n = 0 THEN 0 ELSE 65536,
     spads |-> IF n = 0 THEN 0 ELSE 40, end |-> end]

MCAverages == {Average(0, 0, "io"), Average(50, 380, "none"),
               Average(50, 1400, "none"), Average(3, 380, "timeout")}

MCFaults == {-1, 6, 20}
MCOffsets == {-600000, -1100, 0, 600000}
MCModeFaults == {-1, 1, 5, 9, 16}
MCSpadFaults == {-1, 3, 14}

MCGoodMaps == {{0, 1, 2, 4, 6, 9, 12, 13, 15, 20, 21, 40}, {0, 12, 13, 14},
               {1, 3, 5, 13, 14, 15, 16}}

Scene(base, open, aperture) == [base |-> base, open |-> open, aperture |-> aperture]

MCScenes == {Scene(10, 850, 100), Scene(0, 700, 100), Scene(0, 850, 100),
             Scene(0, 900, 500), Scene(0, 8000, 1000), Scene(0, 100, 10),
             Scene(0, 1000, 20)}

MCEnabled == {{}}

DriverInit ==
    /\ part \in Parts
    /\ SettingsInit /\ ModesInit /\ SpadsInit
    /\ part # "settings" => set.xtalkOn = 0
    /\ part # "modes" => pal.state = "POWERDOWN"
    /\ part # "spads" => 14 \in spad.good /\ 1 \notin spad.good

DriverNext ==
    /\ UNCHANGED part
    /\ \/ /\ part = "timing" /\ TimingNext
          /\ UNCHANGED <<set, saved, chip, pal, reset, touched, spad>>
       \/ /\ part = "settings" /\ SettingsNext
          /\ UNCHANGED <<chip, pal, reset, touched, spad>>
       \/ /\ part = "modes" /\ ModesNext
          /\ UNCHANGED <<regs, dev, set, saved, spad>>
       \/ /\ part = "spads" /\ SpadsNext
          /\ UNCHANGED <<regs, dev, set, saved, chip, pal, reset, touched>>

DriverSpec == DriverInit /\ [][DriverNext]_driverVars /\ ModesFairness
-----------------------------------------------------------------------------
(* Every state is one the types of the four parts allow.                   *)
DriverTypeOK == TimingTypeOK /\ SettingsTypeOK /\ ModesTypeOK /\ SpadsTypeOK

(* GetSetRoundTrip, where the settings move.                               *)
SettingsRoundTrip == part = "settings" => GetSetRoundTrip
=============================================================================
