---------------------------- MODULE MCRangerInit ----------------------------
(* Small instances of RangerInit. *)
EXTENDS RangerInit
=============================================================================
