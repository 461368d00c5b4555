----------------------------- MODULE MCHealthJob -----------------------------
(* Small instances of HealthJob *)
EXTENDS HealthJob

CONSTANTS d1, d2, d3, w1, j

OneDevice == {d1}
TwoDevices == {d1, d2}
ThreeDevices == {d1, d2, d3}
JobAndRequest == {w1, j}
=============================================================================
