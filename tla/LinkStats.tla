------------------------------ MODULE LinkStats ------------------------------
(***************************************************************************)
(* What the Wi-Fi statistics of src/src/wifi.cpp promise to the metrics    *)
(* page: a flag that says whether the station is connected and a counter   *)
(* of the disconnections since boot.  The counter moves exactly when the   *)
(* flag falls, by one, and only a reboot takes it back to zero.            *)
(***************************************************************************)
EXTENDS Naturals

VARIABLES up, count, started    \* the Wi-Fi driver has been started

Init == up = 0 /\ count = 0 /\ started = 0

Start == started = 0 /\ started' = 1 /\ UNCHANGED <<up, count>>

Connect == up' = 1 /\ UNCHANGED <<count, started>>

Disconnect == up = 1 /\ up' = 0 /\ count' = count + 1 /\ UNCHANGED started

Reboot == started = 1 /\ started' = 0 /\ up' = 0 /\ count' = 0

Next == Start \/ Connect \/ Disconnect \/ Reboot

Spec == Init /\ [][Next]_<<up, count, started>>
=============================================================================
