---------------------------- MODULE MCAviaryVehicle ----------------------------
(* AviaryVehicle with heights on both sides of zero and home below it.       *)
EXTENDS AviaryVehicle

BelowZero == -2
BelowOrigin == -1
=============================================================================
