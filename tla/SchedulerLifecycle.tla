------------------------- MODULE SchedulerLifecycle -------------------------
(***************************************************************************)
(* The background scheduler of NetAutoOps: start_scheduler and             *)
(* stop_scheduler, called one after the other by the application's         *)
(* lifespan, keep the process-wide _scheduler; requests for GET            *)
(* /scheduler/status read it in their own threads, three times each; the   *)
(* jobs run in the threads of the scheduler that started them and are not  *)
(* waited for when it stops.                                               *)
(***************************************************************************)
EXTENDS Naturals

CONSTANTS
    Job,       \* the scheduled jobs
    Reader,    \* threads that may answer a status request
    MaxStarts, \* bound: schedulers created, numbered from 1
    MaxReads   \* bound: status requests

ASSUME SchedulerAssumption ==
    /\ Job # {}
    /\ {MaxStarts, MaxReads} \subseteq Nat

Instance == 1..MaxStarts
NoInstance == 0

VARIABLES
    enabled,     \* settings.scheduler_enabled
    scheduler,   \* the global _scheduler: an instance or NoInstance
    state,       \* per instance: APScheduler's state
    run,         \* per instance: the jobs that have a run in progress
    lifespan,    \* where the thread that starts and stops is, and its instance
    created,     \* instances created so far
    reader,      \* per reader: its locals, see NoReader
    reads        \* status requests so far

schedulerVars == <<enabled, scheduler, state, run, lifespan, created, reader, reads>>
instances == <<enabled, state, run, lifespan, created>>

Reading == {"held", "tested", "listed"}

Running(i) == i # NoInstance /\ state[i] = "running"

----------------------------------------------------------------------------
(* start_scheduler, stop_scheduler *)

\* mutant: two jobs are given one id, and replace_existing keeps the last
Registered_SameId == Job \ {CHOOSE j \in Job : TRUE}

\* the jobs add_job leaves in a scheduler
Registered == Job

\* mutant: the guard against a duplicate start is lost
AlreadyRunning_Never == FALSE

AlreadyRunning == Running(scheduler)

\* a scheduler is created with its jobs, unless disabled or running already
StartScheduler ==
    /\ lifespan.pc = "idle"
    /\ enabled /\ ~AlreadyRunning
    /\ created < MaxStarts
    /\ created' = created + 1
    /\ state' = [state EXCEPT ![created + 1] = "stopped"]
    /\ lifespan' = [pc |-> "starting", new |-> created + 1]
    /\ UNCHANGED <<enabled, scheduler, run, reader, reads>>

\* scheduler.start(): from here its jobs fire
StartInstance ==
    /\ lifespan.pc = "starting"
    /\ state' = [state EXCEPT ![lifespan.new] = "running"]
    /\ lifespan' = [lifespan EXCEPT !.pc = "started"]
    /\ UNCHANGED <<enabled, scheduler, run, created, reader, reads>>

\* _scheduler = scheduler
AssignScheduler ==
    /\ lifespan.pc = "started"
    /\ scheduler' = lifespan.new
    /\ lifespan' = [pc |-> "idle", new |-> NoInstance]
    /\ UNCHANGED <<enabled, state, run, created, reader, reads>>

\* shutdown(wait=False): no job fires any more, runs in progress go on
StopScheduler ==
    /\ lifespan.pc = "idle"
    /\ state' = [i \in Instance |->
                    IF i = scheduler /\ Running(i) THEN "stopped" ELSE state[i]]
    /\ lifespan' = [lifespan EXCEPT !.pc = "stopping"]
    /\ UNCHANGED <<enabled, scheduler, run, created, reader, reads>>

\* _scheduler = None
ClearScheduler ==
    /\ lifespan.pc = "stopping"
    /\ scheduler' = NoInstance
    /\ lifespan' = [lifespan EXCEPT !.pc = "idle"]
    /\ reader' = [r \in Reader |->
                     [reader[r] EXCEPT !.stopped = @ \/ reader[r].pc \in Reading]]
    /\ UNCHANGED <<enabled, state, run, created, reads>>

----------------------------------------------------------------------------
(* APScheduler: a tick starts a run unless one is in progress
   (max_instances=1), a run ends in its own time *)

Fire(i, j) ==
    /\ Running(i)
    /\ j \in Registered \ run[i]
    /\ run' = [run EXCEPT ![i] = @ \cup {j}]
    /\ UNCHANGED <<enabled, scheduler, state, lifespan, created, reader, reads>>

RunEnds(i, j) ==
    /\ j \in run[i]
    /\ run' = [run EXCEPT ![i] = @ \ {j}]
    /\ UNCHANGED <<enabled, scheduler, state, lifespan, created, reader, reads>>

----------------------------------------------------------------------------
(* GET /scheduler/status *)

\* held: the local scheduler; stopped, auxiliary: _scheduler was cleared since
\* the request arrived
NoReader == [pc |-> "idle", held |-> NoInstance, jobs |-> {},
             running |-> FALSE, stopped |-> FALSE]

\* scheduler = get_scheduler()
HoldScheduler(r) ==
    /\ reader[r].pc \in {"idle", "answered", "raised"}
    /\ reads < MaxReads
    /\ reads' = reads + 1
    /\ reader' = [reader EXCEPT ![r] =
                    [NoReader EXCEPT !.pc = "held", !.held = scheduler]]
    /\ UNCHANGED <<instances, scheduler>>

\* mutant: get_job_status does not test the global
IsNone_Untested == FALSE

\* _scheduler is None
IsNone == scheduler = NoInstance

TestScheduler(r) ==
    /\ reader[r].pc = "held"
    /\ reader' = [reader EXCEPT ![r].pc = IF IsNone THEN "listed" ELSE "tested"]
    /\ UNCHANGED <<instances, scheduler, reads>>

\* _scheduler.get_jobs(): the global again; a stopped scheduler has none
ListJobs(r) ==
    /\ reader[r].pc = "tested"
    /\ reader' = [reader EXCEPT
                    ![r].pc = IF scheduler = NoInstance THEN "raised" ELSE "listed",
                    ![r].jobs = IF Running(scheduler) THEN Registered ELSE {}]
    /\ UNCHANGED <<instances, scheduler, reads>>

\* scheduler is not None and scheduler.running
AnswerStatus(r) ==
    /\ reader[r].pc = "listed"
    /\ reader' = [reader EXCEPT ![r].pc = "answered",
                                ![r].running = Running(reader[r].held)]
    /\ UNCHANGED <<instances, scheduler, reads>>

----------------------------------------------------------------------------
Init ==
    /\ enabled \in BOOLEAN
    /\ scheduler = NoInstance
    /\ state = [i \in Instance |-> "stopped"]
    /\ run = [i \in Instance |-> {}]
    /\ lifespan = [pc |-> "idle", new |-> NoInstance]
    /\ created = 0
    /\ reader = [r \in Reader |-> NoReader]
    /\ reads = 0

Lifespan ==
    \/ StartScheduler \/ StartInstance \/ AssignScheduler
    \/ StopScheduler \/ ClearScheduler

ReaderStep(r) == TestScheduler(r) \/ ListJobs(r) \/ AnswerStatus(r)

Next ==
    \/ Lifespan
    \/ \E i \in Instance, j \in Job : Fire(i, j) \/ RunEnds(i, j)
    \/ \E r \in Reader : HoldScheduler(r) \/ ReaderStep(r)

\* the trigger's interval passes again and again; the runs end (HealthJob.JobEnds)
Fairness ==
    \A i \in Instance, j \in Job :
        WF_schedulerVars(Fire(i, j)) /\ WF_schedulerVars(RunEnds(i, j))

Spec == Init /\ [][Next]_schedulerVars /\ Fairness

----------------------------------------------------------------------------
(* Properties *)

TypeOK ==
    /\ enabled \in BOOLEAN
    /\ scheduler \in 0..created
    /\ created \in 0..MaxStarts
    /\ state \in [Instance -> {"stopped", "running"}]
    /\ run \in [Instance -> SUBSET Job]
    /\ lifespan \in [pc : {"idle", "starting", "started", "stopping"}, new : 0..MaxStarts]
    /\ reader \in [Reader ->
          [pc : Reading \cup {"idle", "answered", "raised"},
           held : 0..MaxStarts, jobs : SUBSET Job, running : BOOLEAN, stopped : BOOLEAN]]
    /\ reads \in Nat

\* A scheduler whose jobs fire is the one _scheduler names, or is about to be:
\* stop_scheduler can always reach it.
NoOrphanScheduler ==
    \A i \in Instance : Running(i) =>
        \/ i = scheduler
        \/ lifespan = [pc |-> "started", new |-> i]

\* "there is never more than one BackgroundScheduler per process": at most one
\* fires jobs, so two runs of a job overlap only across a stop, the older one
\* being the last of a scheduler that has been shut down.
AtMostOneRunning ==
    /\ \A i, k \in Instance : Running(i) /\ Running(k) => i = k
    /\ \A i, k \in Instance :
          (i < k /\ run[i] # {} /\ run[k] # {}) => ~Running(i)

\* Both: whenever a job fires, stop_scheduler can reach the only scheduler that
\* fires it.
OneScheduler == NoOrphanScheduler /\ AtMostOneRunning

\* A status that says "running" lists every job, whatever starts and stops
\* between the three reads it is made of.
RunningShowsJobs ==
    \A r \in Reader :
        (reader[r].pc = "answered" /\ reader[r].running) => reader[r].jobs = Job

\* A status request raises only when stop_scheduler cleared _scheduler during it.
StatusRaisesOnlyIfStopped ==
    \A r \in Reader : reader[r].pc = "raised" => reader[r].stopped

\* Both: a status request answers coherently, or was overtaken by a stop.
StatusIsCoherent == RunningShowsJobs /\ StatusRaisesOnlyIfStopped

\* Every job of a scheduler that is not stopped runs, and ends, again and again.
JobsRecur ==
    \A i \in Instance, j \in Job :
        <>[](Running(i)) => ([]<>(j \in run[i]) /\ []<>(j \notin run[i]))

=============================================================================
