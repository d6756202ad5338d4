------------------------------ MODULE MCStation ------------------------------
(* TLC instance of Station: the constants are given in the .cfg files. *)
EXTENDS Station
=============================================================================
