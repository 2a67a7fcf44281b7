------------------------------- MODULE MCAxisPID -------------------------------
(* AxisPID on a small instance: a config has no negative numbers.            *)
EXTENDS AxisPID

SomeSetpoints == {-4, 0, 4}
SomeReadings == {-5, -4, -1, 0, 1, 2, 4, 6}
=============================================================================
