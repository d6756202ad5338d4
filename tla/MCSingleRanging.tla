--------------------------- MODULE MCSingleRanging ---------------------------
(* Small instances of SingleRanging. *)
EXTENDS SingleRanging
=============================================================================
