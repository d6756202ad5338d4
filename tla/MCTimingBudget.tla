---------------------------- MODULE MCTimingBudget ----------------------------
(* Budgets below, at and above what the steps need; no transfer is lost.   *)
EXTENDS TimingBudget

MCFaults == {-1}
=============================================================================
