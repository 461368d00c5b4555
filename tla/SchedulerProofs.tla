-------------------------- MODULE SchedulerProofs ---------------------------
(***************************************************************************)
(* Theorems about SchedulerLifecycle: type correctness, that at most one   *)
(* scheduler fires jobs and stop_scheduler can always reach it, and that a *)
(* status answer, put together from three reads, is coherent.              *)
(***************************************************************************)
EXTENDS SchedulerLifecycle, TLAPS

\* start_scheduler holds an instance it has not yet stored in _scheduler
Starting == lifespan.pc \in {"starting", "started"}

\* Only the newest instance can be running, and _scheduler names it, or will
\* once start_scheduler, which has just started it, has assigned it.
RunningInv ==
    /\ ~Starting => lifespan.new = NoInstance
    /\ Starting => lifespan.new = created /\ scheduler < created
    /\ \A i \in Instance : i > created => run[i] = {}
    /\ \A i \in Instance : Running(i) =>
          /\ i = created
          /\ i = scheduler \/ lifespan.pc = "started"
          /\ lifespan.pc \notin {"starting", "stopping"}

\* A reader's locals.
ReaderRecord ==
    [pc : Reading \cup {"idle", "answered", "raised"},
     held : 0..MaxStarts, jobs : SUBSET Job, running : BOOLEAN, stopped : BOOLEAN]

\* What a status request knows after each of its reads.  It never holds the
\* instance that is being started, so what it holds is running only while
\* _scheduler still names it.
ReaderInv(r) ==
    /\ reader[r].held <= created
    /\ Starting => reader[r].held < created
    /\ (reader[r].pc = "listed" /\ Running(reader[r].held)) => reader[r].jobs = Job
    /\ (reader[r].pc = "answered" /\ reader[r].running) => reader[r].jobs = Job
    /\ reader[r].pc = "tested" => scheduler # NoInstance \/ reader[r].stopped
    /\ reader[r].pc = "raised" => reader[r].stopped

IInv == TypeOK /\ RunningInv /\ \A r \in Reader : ReaderInv(r)

----------------------------------------------------------------------------
(* Lemmas *)

\* The bound on starts is a number.
LEMMA MaxStartsIsNat == MaxStarts \in Nat
BY SchedulerAssumption

\* The invariant holds initially.
LEMMA InitEstablishes == Init => IInv
BY SchedulerAssumption, SMT
   DEF Init, IInv, TypeOK, RunningInv, ReaderInv, Starting, Running, Instance,
       NoInstance, NoReader, Reading

\* Starting and stopping: what start_scheduler creates is running only after
\* the scheduler that ran before has been shut down.
LEMMA LifespanPreserves ==
    ASSUME IInv, Lifespan
    PROVE  IInv'
<1> USE SchedulerAssumption
    DEF IInv, TypeOK, RunningInv, ReaderInv, Starting, Running, Instance,
        NoInstance, Reading
<1>1. CASE StartScheduler
  <2>1. TypeOK'
    BY <1>1 DEF StartScheduler
  <2>2. \A i \in Instance : ~Running(i)
    BY <1>1 DEF StartScheduler, AlreadyRunning
  <2>3. RunningInv'
    BY <1>1, <2>2 DEF StartScheduler
  <2>4. \A r \in Reader : ReaderInv(r)'
    BY <1>1, <2>2 DEF StartScheduler
  <2> QED
    BY <2>1, <2>3, <2>4
<1>2. CASE StartInstance
  <2>1. TypeOK'
    BY <1>2 DEF StartInstance
  <2>2. RunningInv'
    BY <1>2 DEF StartInstance
  <2>3. \A r \in Reader : ReaderInv(r)'
    BY <1>2 DEF StartInstance
  <2> QED
    BY <2>1, <2>2, <2>3
<1>3. CASE AssignScheduler
  <2>1. TypeOK'
    BY <1>3 DEF AssignScheduler
  <2>2. RunningInv'
    BY <1>3 DEF AssignScheduler
  <2>3. \A r \in Reader : ReaderInv(r)'
    BY <1>3 DEF AssignScheduler
  <2> QED
    BY <2>1, <2>2, <2>3
<1>4. CASE StopScheduler
  <2>1. TypeOK'
    BY <1>4 DEF StopScheduler
  <2>2. \A i \in Instance : ~Running(i)'
    BY <1>4 DEF StopScheduler
  <2>3. RunningInv'
    BY <1>4, <2>2 DEF StopScheduler
  <2>4. \A r \in Reader : ReaderInv(r)'
    BY <1>4, <2>2 DEF StopScheduler
  <2> QED
    BY <2>1, <2>3, <2>4
<1>5. CASE ClearScheduler
  <2>1. TypeOK'
    <3> DEFINE stopped(r) == reader[r].stopped \/ reader[r].pc \in Reading
    <3>1. \A r \in Reader : stopped(r) \in BOOLEAN
      OBVIOUS
    <3>2. reader' = [r \in Reader |-> [reader[r] EXCEPT !.stopped = stopped(r)]]
      BY <1>5 DEF ClearScheduler
    <3> HIDE DEF stopped
    <3>3. ASSUME NEW r \in Reader
          PROVE  [reader[r] EXCEPT !.stopped = stopped(r)] \in ReaderRecord
      BY <3>1 DEF ReaderRecord
    <3>4. reader' \in [Reader -> ReaderRecord]
      BY <3>2, <3>3
    <3>5. /\ UNCHANGED <<enabled, state, run, created, reads>>
          /\ scheduler' = NoInstance /\ lifespan' = [lifespan EXCEPT !.pc = "idle"]
      BY <1>5 DEF ClearScheduler
    <3> QED
      BY <3>4, <3>5 DEF ReaderRecord
  <2>2. RunningInv'
    BY <1>5 DEF ClearScheduler
  <2>3. ASSUME NEW r \in Reader
        PROVE  ReaderInv(r)'
    BY <1>5, <2>3 DEF ClearScheduler
  <2> QED
    BY <2>1, <2>2, <2>3
<1> QED
  BY <1>1, <1>2, <1>3, <1>4, <1>5 DEF Lifespan

\* Only running instances start runs, and runs end.
LEMMA JobsPreserve ==
    ASSUME IInv, NEW i \in Instance, NEW j \in Job, Fire(i, j) \/ RunEnds(i, j)
    PROVE  IInv'
<1> USE DEF IInv, TypeOK, RunningInv, ReaderInv, Starting, Running
<1>1. UNCHANGED <<enabled, scheduler, state, lifespan, created, reader, reads>>
  BY DEF Fire, RunEnds
<1>2. PICK jobs \in SUBSET Job : /\ run' = [run EXCEPT ![i] = jobs]
                                 /\ i > created => jobs = {}
  <2>1. CASE Fire(i, j)
    <3>1. i = created
      BY <2>1 DEF Fire
    <3>2. created \in Nat
      BY MaxStartsIsNat
    <3>3. run[i] \in SUBSET Job
      OBVIOUS
    <3>4. run[i] \cup {j} \in SUBSET Job /\ ~(i > created)
      BY <3>1, <3>2, <3>3
    <3>5. run' = [run EXCEPT ![i] = run[i] \cup {j}]
      BY <2>1 DEF Fire
    <3> QED
      BY <3>4, <3>5
  <2>2. CASE RunEnds(i, j)
    <3>1. /\ run[i] \ {j} \in SUBSET Job
          /\ i > created => run[i] \ {j} = {}
      OBVIOUS
    <3>2. run' = [run EXCEPT ![i] = run[i] \ {j}]
      BY <2>2 DEF RunEnds
    <3> QED
      BY <3>1, <3>2
  <2> QED
    BY <2>1, <2>2
<1>3. /\ run' \in [Instance -> SUBSET Job]
      /\ \A k \in Instance : k > created => run'[k] = {}
  BY <1>2
<1> QED
  BY <1>1, <1>3

\* A step of one reader, after which its locals are q, preserves the invariant
\* if what they know is true.
LEMMA ReaderUpdate ==
    ASSUME IInv, NEW r \in Reader, NEW q \in ReaderRecord,
           UNCHANGED <<instances, scheduler>>, reads' \in Nat,
           reader' = [reader EXCEPT ![r] = q],
           q.held <= created,
           Starting => q.held < created,
           (q.pc = "listed" /\ Running(q.held)) => q.jobs = Job,
           (q.pc = "answered" /\ q.running) => q.jobs = Job,
           q.pc = "tested" => scheduler # NoInstance \/ q.stopped,
           q.pc = "raised" => q.stopped
    PROVE  IInv'
<1>1. /\ reader' \in [Reader -> ReaderRecord]
      /\ reader'[r] = q
      /\ \A s \in Reader \ {r} : reader'[s] = reader[s]
  BY DEF IInv, TypeOK, ReaderRecord
<1>2. TypeOK'
  BY <1>1 DEF IInv, TypeOK, ReaderRecord, instances
<1>3. RunningInv' /\ Starting' = Starting /\ \A i : Running(i)' = Running(i)
  BY DEF IInv, RunningInv, Starting, Running, instances
<1>4. ReaderInv(r)'
  BY <1>1, <1>3 DEF ReaderInv, instances
<1>5. ASSUME NEW s \in Reader \ {r}
      PROVE  ReaderInv(s)'
  BY <1>1, <1>3 DEF IInv, ReaderInv, instances
<1> QED
  BY <1>2, <1>3, <1>4, <1>5 DEF IInv

\* The three reads of a status request.
LEMMA ReadersPreserve ==
    ASSUME IInv, NEW r \in Reader, HoldScheduler(r) \/ ReaderStep(r)
    PROVE  IInv'
<1>1. /\ reader \in [Reader -> ReaderRecord] /\ reader[r] \in ReaderRecord
      /\ ReaderInv(r)
      /\ reads \in Nat
  BY DEF IInv, TypeOK, ReaderRecord
<1>2. CASE HoldScheduler(r)
  <2> DEFINE q == [NoReader EXCEPT !.pc = "held", !.held = scheduler]
  <2>1. /\ q \in ReaderRecord /\ q.pc = "held" /\ q.held = scheduler
        /\ scheduler <= created /\ (Starting => scheduler < created)
    <3>1. scheduler \in 0..MaxStarts /\ created \in Nat /\ scheduler <= created
      BY MaxStartsIsNat DEF IInv, TypeOK
    <3>2. Starting => scheduler < created
      BY DEF IInv, RunningInv
    <3> QED
      BY <3>1, <3>2 DEF ReaderRecord, NoReader, NoInstance, Reading
  <2>2. reader' = [reader EXCEPT ![r] = q] /\ UNCHANGED <<instances, scheduler>>
    BY <1>2 DEF HoldScheduler
  <2>3. reads' \in Nat
    BY <1>1, <1>2 DEF HoldScheduler
  <2> HIDE DEF q
  <2> QED
    BY <2>1, <2>2, <2>3, ReaderUpdate
<1>3. CASE TestScheduler(r)
  <2> DEFINE q == [reader[r] EXCEPT !.pc = IF IsNone THEN "listed" ELSE "tested"]
  <2>1. /\ q \in ReaderRecord
        /\ q.pc = (IF scheduler = NoInstance THEN "listed" ELSE "tested")
        /\ q.held = reader[r].held
    BY <1>1 DEF ReaderRecord, Reading, IsNone
  <2>2. /\ reader' = [reader EXCEPT ![r] = q] /\ UNCHANGED <<instances, scheduler>>
        /\ reads' = reads
    BY <1>3 DEF TestScheduler
  <2>3. q.held <= created /\ (Starting => q.held < created)
    BY <1>1, <2>1 DEF ReaderInv
  <2>4. scheduler = NoInstance => ~Running(q.held)
    BY <2>1, <2>3, SchedulerAssumption
    DEF IInv, RunningInv, TypeOK, Starting, Running, Instance, NoInstance, ReaderRecord
  <2> HIDE DEF q
  <2> QED
    BY <1>1, <2>1, <2>2, <2>3, <2>4, ReaderUpdate
<1>4. CASE ListJobs(r)
  <2> DEFINE pc == IF scheduler = NoInstance THEN "raised" ELSE "listed"
             jobs == IF Running(scheduler) THEN Registered ELSE {}
             q == [reader[r] EXCEPT !.pc = pc, !.jobs = jobs]
  <2>1. /\ q \in ReaderRecord /\ q.pc = pc /\ q.jobs = jobs
        /\ q.held = reader[r].held /\ q.stopped = reader[r].stopped
    BY <1>1 DEF ReaderRecord, Reading, Registered
  <2>2. /\ reader' = [reader EXCEPT ![r] = q] /\ UNCHANGED <<instances, scheduler>>
        /\ reads' = reads /\ reader[r].pc = "tested"
    BY <1>4 DEF ListJobs
  <2>3. q.held <= created /\ (Starting => q.held < created)
    BY <1>1, <2>1 DEF ReaderInv
  <2>4. Running(q.held) => q.held = scheduler
    BY <2>1, <2>3, SchedulerAssumption
    DEF IInv, RunningInv, TypeOK, Starting, Running, Instance, NoInstance, ReaderRecord
  <2>5. pc = "raised" => q.stopped
    BY <1>1, <2>1, <2>2 DEF ReaderInv
  <2>6. Running(q.held) => q.jobs = Job
    BY <2>1, <2>4 DEF Registered
  <2> HIDE DEF q
  <2> QED
    BY <1>1, <2>1, <2>2, <2>3, <2>5, <2>6, ReaderUpdate
<1>5. CASE AnswerStatus(r)
  <2> DEFINE running == Running(reader[r].held)
             q == [reader[r] EXCEPT !.pc = "answered", !.running = running]
  <2>1. running \in BOOLEAN
    BY DEF Running
  <2>2. reader' = [reader EXCEPT ![r] = q] /\ UNCHANGED <<instances, scheduler>>
    BY <1>5 DEF AnswerStatus
  <2>3. reads' = reads /\ reader[r].pc = "listed"
    BY <1>5 DEF AnswerStatus
  <2>4. running => reader[r].jobs = Job
    BY <1>1, <2>3 DEF ReaderInv
  <2> HIDE DEF running
  <2>5. /\ q \in ReaderRecord /\ q.pc = "answered" /\ q.jobs = reader[r].jobs
        /\ q.held = reader[r].held /\ q.running = running
    BY <1>1, <2>1 DEF ReaderRecord
  <2>6. q.held <= created /\ (Starting => q.held < created)
    BY <1>1, <2>5 DEF ReaderInv
  <2> HIDE DEF q
  <2> QED
    BY <1>1, <2>2, <2>3, <2>4, <2>5, <2>6, ReaderUpdate
<1> QED
  BY <1>2, <1>3, <1>4, <1>5 DEF ReaderStep

\* The invariant is inductive.
LEMMA NextPreserves == IInv /\ [Next]_schedulerVars => IInv'
<1> SUFFICES ASSUME IInv, [Next]_schedulerVars PROVE IInv'
  OBVIOUS
<1>1. CASE Lifespan
  BY <1>1, LifespanPreserves
<1>2. CASE \E i \in Instance, j \in Job : Fire(i, j) \/ RunEnds(i, j)
  BY <1>2, JobsPreserve
<1>3. CASE \E r \in Reader : HoldScheduler(r) \/ ReaderStep(r)
  BY <1>3, ReadersPreserve
<1>4. CASE UNCHANGED schedulerVars
  BY <1>4 DEF schedulerVars, IInv, TypeOK, RunningInv, ReaderInv, Starting, Running
<1> QED
  BY <1>1, <1>2, <1>3, <1>4 DEF Next

\* The inductive invariant holds in every reachable state.
THEOREM Invariance == Spec => []IInv
BY InitEstablishes, NextPreserves, PTL DEF Spec

----------------------------------------------------------------------------
(* Theorems *)

\* Type correctness.
THEOREM TypeCorrectness == Spec => []TypeOK
<1>1. IInv => TypeOK
  BY DEF IInv
<1> QED
  BY <1>1, Invariance, PTL

\* However start_scheduler and stop_scheduler alternate, at most one scheduler
\* fires jobs, runs overlap only across a stop, and stop_scheduler can reach
\* the one that fires.
THEOREM AtMostOneScheduler == Spec => []OneScheduler
<1>1. IInv => OneScheduler
  <2> SUFFICES ASSUME IInv PROVE OneScheduler
    OBVIOUS
  <2> USE SchedulerAssumption
      DEF IInv, TypeOK, RunningInv, Starting, Running, Instance, NoInstance
  <2>1. NoOrphanScheduler
    BY DEF NoOrphanScheduler
  <2>2. AtMostOneRunning
    BY DEF AtMostOneRunning
  <2> QED
    BY <2>1, <2>2 DEF OneScheduler
<1> QED
  BY <1>1, Invariance, PTL

\* GET /scheduler/status says "running" only with every job, and raises only
\* when stop_scheduler cleared _scheduler since the request arrived.
THEOREM StatusCoherence == Spec => []StatusIsCoherent
<1>1. IInv => StatusIsCoherent
  BY DEF IInv, ReaderInv, StatusIsCoherent, RunningShowsJobs, StatusRaisesOnlyIfStopped
<1> QED
  BY <1>1, Invariance, PTL

=============================================================================
