------------------------------ MODULE MCBackup ------------------------------
(* Small instances of Backup: d1 and d2 have the same slugs, d3 its own *)
EXTENDS Backup

CONSTANTS d1, d2, d3, w1, w2

OneDevice == {d1}
TwoDevices == {d1, d2}
SameSlug == [d \in {d1, d2} |-> "lab_router"]
OneSlug == [d \in {d1} |-> "lab_router"]
TwoWorkers == {w1, w2}
=============================================================================
