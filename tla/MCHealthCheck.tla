---------------------------- MODULE MCHealthCheck ----------------------------
(* Small instances of HealthCheck *)
EXTENDS HealthCheck, TLC

CONSTANTS d1, d2, w1, w2, w3

OneDevice == {d1}
TwoDevices == {d1, d2}
TwoWorkers == {w1, w2}
ThreeWorkers == {w1, w2, w3}

Symmetry == Permutations(TwoWorkers)
=============================================================================
