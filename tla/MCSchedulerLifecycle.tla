------------------------ MODULE MCSchedulerLifecycle ------------------------
(* A small instance of SchedulerLifecycle *)
EXTENDS SchedulerLifecycle

CONSTANTS health, backup, r1, r2

Jobs == {health, backup}
Readers == {r1, r2}
=============================================================================
