------------------------------ MODULE MCRefSpads ------------------------------
(* A sensor that comes with SPADs enabled around the end of the window.    *)
EXTENDS RefSpads

MCFaults == {-1}
MCGoodMaps == {{12, 13, 14, 39, 40, 41, 43}}
MCEnabled == {{12, 39}, {39, 40, 41}, {12, 41, 43}}
=============================================================================
