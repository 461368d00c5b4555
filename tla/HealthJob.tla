------------------------------ MODULE HealthJob ------------------------------
(***************************************************************************)
(* The scheduled health job of NetAutoOps, composed with the requests of   *)
(* HealthCheck: _run_for_all_devices calls run_health_check for every      *)
(* device of the inventory, one after the other, in ONE session.  The      *)
(* session outlives each check, so an instance expired by one device's     *)
(* commit, a failed flush, and the transaction opened by one device's      *)
(* refresh are all carried into the next device's check.                   *)
(***************************************************************************)
EXTENDS HealthCheck

CONSTANTS
    JobWorker,  \* the scheduler's thread: max_instances=1, so there is one
    MaxJobs     \* bound: times the job is started

ASSUME JobAssumption == JobWorker \in Worker /\ MaxJobs \in Nat

VARIABLE job  \* the job's locals, see Job

Job == [state : {"waiting", "running", "completed", "aborted"},
        fleet : SUBSET Device,  \* result of the inventory query
        todo : SUBSET Device,   \* devices the loop has not reached
        processed : Nat, succeeded : Nat, failed : Nat,
        first : Nat,            \* auxiliary: id sequence when the job started
        runs : Nat]

jobVars == <<vars, job>>

NoJob == [state |-> "waiting", fleet |-> {}, todo |-> {}, processed |-> 0,
          succeeded |-> 0, failed |-> 0, first |-> 0, runs |-> 0]

Requester == Worker \ {JobWorker}

----------------------------------------------------------------------------
\* APScheduler fires the job: SessionLocal() and the inventory query
StartJob ==
    /\ job.state # "running"
    /\ job.runs < MaxJobs
    /\ job' = [NoJob EXCEPT !.state = "running", !.fleet = devices,
                            !.todo = devices, !.first = nextId,
                            !.runs = job.runs + 1]
    /\ BeginTransaction(JobWorker, devices)
    /\ UNCHANGED <<database, events, check, requests, crashes>>

\* the loop head; ORDER BY id only says which of the devices is next
NextDevice(d) ==
    /\ job.state = "running"
    /\ check[JobWorker].pc = "idle"
    /\ d \in job.todo
    /\ job' = [job EXCEPT !.todo = @ \ {d}, !.processed = @ + 1]
    /\ check' = [check EXCEPT ![JobWorker] =
                    [NoCheck EXCEPT !.pc = "called", !.dev = d, !.began = nextId]]
    /\ UNCHANGED <<database, clock, events, session, requests, crashes>>

\* mutant: the first device whose check fails ends the job
CountResult_FailFast ==
    /\ check[JobWorker].pc = "returned"
    /\ IF check[JobWorker].found # "ERROR"
       THEN /\ job' = [job EXCEPT !.succeeded = @ + 1]
            /\ UNCHANGED session
       ELSE /\ job' = [job EXCEPT !.failed = @ + 1, !.state = "aborted"]
            /\ session' = [session EXCEPT ![JobWorker] = NoSession]
    /\ check' = [check EXCEPT ![JobWorker] = NoCheck]
    /\ UNCHANGED <<database, clock, events, requests, crashes>>

\* is_success: everything but ERROR
CountResult ==
    /\ check[JobWorker].pc = "returned"
    /\ job' = IF check[JobWorker].found # "ERROR"
              THEN [job EXCEPT !.succeeded = @ + 1]
              ELSE [job EXCEPT !.failed = @ + 1]
    /\ check' = [check EXCEPT ![JobWorker] = NoCheck]
    /\ UNCHANGED <<database, clock, events, session, requests, crashes>>

\* mutant: the handler logs and forgets to count
CountFailure_Uncounted ==
    /\ check[JobWorker].pc = "raised"
    /\ job' = [job EXCEPT !.state = "aborted"]
    /\ session' = [session EXCEPT ![JobWorker] = NoSession]
    /\ check' = [check EXCEPT ![JobWorker] = NoCheck]
    /\ UNCHANGED <<database, clock, events, requests, crashes>>

\* except Exception: the handler counts, and then logs device.id, an access
\* that raises out of the loop when the device cannot be read
CountFailure ==
    /\ check[JobWorker].pc = "raised"
    /\ LET stays == Readable(JobWorker, check[JobWorker].dev) IN
       /\ job' = [job EXCEPT !.failed = @ + 1,
                             !.state = IF stays THEN @ ELSE "aborted"]
       /\ session' = IF stays THEN session
                     ELSE [session EXCEPT ![JobWorker] = NoSession]
    /\ check' = [check EXCEPT ![JobWorker] = NoCheck]
    /\ UNCHANGED <<database, clock, events, requests, crashes>>

\* the loop ends: counts are returned, the session is closed
CompleteJob ==
    /\ job.state = "running"
    /\ job.todo = {}
    /\ check[JobWorker].pc = "idle"
    /\ job' = [job EXCEPT !.state = "completed"]
    /\ session' = [session EXCEPT ![JobWorker] = NoSession]
    /\ UNCHANGED <<database, clock, events, check, requests, crashes>>

----------------------------------------------------------------------------
JobInit == Init /\ job = NoJob

JobStep ==
    \/ \E d \in Device : NextDevice(d)
    \/ CheckStep(JobWorker) /\ UNCHANGED job
    \/ CountResult
    \/ CountFailure
    \/ CompleteJob

\* a crash takes the job with it; what it had counted is lost
JobCrash ==
    /\ Crash
    /\ job' = [NoJob EXCEPT !.runs = job.runs]

JobNext ==
    \/ StartJob
    \/ JobStep
    \/ \E w \in Requester :
          /\ RequestStep(w) \/ \E d \in Device : Authenticate(w, d)
          /\ UNCHANGED job
    \/ \E d \in Device : (CreateDevice(d) \/ DeleteDevice(d)) /\ UNCHANGED job
    \/ JobCrash

JobFairness ==
    /\ WF_jobVars(JobStep)
    /\ \A w \in Requester : WF_jobVars(RequestStep(w) /\ UNCHANGED job)

JobSpec == JobInit /\ [][JobNext]_jobVars /\ JobFairness

----------------------------------------------------------------------------
(* Properties *)

JobTypeOK == TypeOK /\ job \in Job

\* "caught and counted as failed instead of aborting the rest of the job":
\* refuted, the handler's own device.id raises again.
JobNeverAborts == job.state # "aborted"

\* Only the deletion of a device it had listed can abort a job.
JobAbortsOnlyIfDeleted ==
    job.state = "aborted" => job.fleet \cap deleted # {}

\* The counts add up at every moment, and a job that completes has counted
\* every device it listed: no exception was swallowed on the way.
JobCountsAddUp ==
    LET inCheck == IF check[JobWorker].pc = "idle" THEN 0 ELSE 1 IN
    /\ job.processed = job.succeeded + job.failed + inCheck
    /\ job.processed + Cardinality(job.todo) = Cardinality(job.fleet)

\* A completed job leaves a record, newer than its start, of every device it
\* listed that still exists.
CompletedJobCoversFleet ==
    job.state = "completed" =>
        \A d \in job.fleet \cap devices :
            \E r \in HealthOf(d) : r.id >= job.first

\* Both: the counts of a job and the records it leaves account for its devices.
JobAccountsForFleet == JobCountsAddUp /\ CompletedJobCoversFleet

\* A started job ends, unless the process dies.
JobEnds == job.state = "running" ~> job.state # "running"

\* Neither the job nor a request beside it waits for ever.
JobAndRequestsEnd == JobEnds /\ RequestIsAnswered

=============================================================================
