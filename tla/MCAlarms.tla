------------------------------ MODULE MCAlarms ------------------------------
(* Small instances of Alarms, and with no listing of Interfaces alone *)
EXTENDS Alarms, TLC

CONSTANTS d1, d2, eth0, eth1, w1, w2

OneDevice == {d1}
TwoDevices == {d1, d2}
OneName == {eth0}
TwoNames == {eth0, eth1}
OneOrTwo == {1, 2}
OneWorker == {w1}
TwoWorkers == {w1, w2}

Symmetry == Permutations(TwoWorkers)
=============================================================================
