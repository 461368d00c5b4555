---------------------------- MODULE BackupProofs ----------------------------
(***************************************************************************)
(* Safety of Backup for any number of devices, threads, requests, seconds  *)
(* and crashes: type correctness, what makes a backup raise, which file a  *)
(* successful one names, which files no record names, and how records and  *)
(* events correspond.                                                      *)
(***************************************************************************)
EXTENDS Backup, TLAPS

Unsaved == {"called", "fetched", "opened", "written", "failed"}
Holding == {"opened", "written"}
Saved == {"saved", "refreshed"}

\* The file a run opened is as the run left it, or shared with another run.
HasFile(p, run, state) ==
    /\ p \in DOMAIN files
    /\ <<p, run>> \in targeted
    /\ files[p] = [state |-> state, run |-> run] \/ Collides(p, run)

\* What holds of a worker's task, by how far it is.
TaskInv(c) ==
    /\ c.pc # "idle" => c.run \in 1..requests /\ c.dev \in devices \cup deleted
    /\ c.pc \in Unsaved => \A r \in backups : r.config # c.run
    /\ c.pc \in Holding => c.path \in Path /\ c.path[1] = SlugOf[c.dev]
    /\ c.pc = "opened" => HasFile(c.path, c.run, "empty")
    /\ c.pc = "written" => HasFile(c.path, c.run, "whole")
    /\ c.pc \in Saved =>
          /\ c.row < nextId
          /\ c.status \in Status
          /\ \A r \in backups : r.id = c.row => r.dev = c.dev
          /\ c.dev \in devices =>
                \E r \in backups : r.id = c.row /\ r.dev = c.dev /\ r.status = c.status
    /\ c.pc = "raised" => c.dev \in deleted

\* Every request has a run of its own.
RunsDiffer ==
    \A v, w \in Worker :
        (v # w /\ task[v].pc # "idle" /\ task[w].pc # "idle") => task[v].run # task[w].run

\* What holds of a stored row.
RowInv(r) ==
    /\ r.id < nextId
    /\ r.dev \in devices
    /\ r.config \in 1..requests
    /\ r.status = "SUCCESS" =>
          r.path[1] = SlugOf[r.dev] /\ HasFile(r.path, r.config, "whole")

\* An event reports a row of its own device, unless that is gone.
EventInv(e) ==
    /\ e.dev \in devices \cup deleted
    /\ e.dev \in devices =>
          \E r \in backups :
             /\ r.id = e.row /\ r.dev = e.dev
             /\ r.status = "SUCCESS" <=> e.type = "backup_success"

\* Why a file that was opened has, or has no, row to name it.
Accounted(t) ==
    \/ \E r \in backups : r.status = "SUCCESS" /\ r.path = t[1] /\ r.config = t[2]
    \/ \E w \in Worker : /\ task[w].pc \in Holding
                         /\ task[w].path = t[1] /\ task[w].run = t[2]
    \/ \E d \in deleted : SlugOf[d] = t[1][1]
    \/ t[2] \in broken

\* The event of a row was sent or its worker is about to.
ReportedOrHeld(r) ==
    \/ \E w \in Worker : task[w].row = r.id /\ task[w].pc \in Saved
    \/ \E e \in events : e.row = r.id

IInv ==
    /\ TypeOK
    /\ RunsDiffer
    /\ \A w \in Worker : TaskInv(task[w])
    /\ \A r \in backups : RowInv(r)
    /\ \A e \in events : EventInv(e)
    /\ crashes = 0 => \A t \in targeted : Accounted(t)
    /\ crashes = 0 => \A r \in backups : ReportedOrHeld(r)

-----------------------------------------------------------------------------
(* What an update of one worker's task does *)

\* Replacing one worker's task leaves the others' alone.
LEMMA TaskUpdate ==
    ASSUME task \in [Worker -> Task], NEW w \in Worker, NEW c \in Task,
           task' = [task EXCEPT ![w] = c]
    PROVE  /\ task' \in [Worker -> Task]
           /\ task'[w] = c
           /\ \A v \in Worker \ {w} : task'[v] = task[v]
OBVIOUS

\* What Goto makes of a task.
LEMMA GotoUpdate ==
    ASSUME task \in [Worker -> Task], NEW w \in Worker, NEW stage \in Stage,
           Goto(w, stage)
    PROVE  \E c \in Task :
              /\ task' = [task EXCEPT ![w] = c]
              /\ c.pc = stage /\ c.run = task[w].run /\ c.dev = task[w].dev
              /\ c.path = task[w].path /\ c.row = task[w].row
              /\ c.status = task[w].status
<1> DEFINE c == [task[w] EXCEPT !.pc = stage]
<1>1. task[w] \in Task /\ task' = [task EXCEPT ![w] = c]
  BY DEF Goto
<1>2. /\ c \in Task /\ c.pc = stage /\ c.run = task[w].run /\ c.dev = task[w].dev
      /\ c.path = task[w].path /\ c.row = task[w].row /\ c.status = task[w].status
  BY <1>1 DEF Task
<1> HIDE DEF c
<1> QED
  BY <1>1, <1>2

\* The task of an idle worker.
LEMMA NoTaskIsIdle ==
    /\ NoTask \in Task /\ TaskInv(NoTask)
    /\ NoTask.pc = "idle"
<1>1. /\ NoTask.pc = "idle" /\ NoTask.run = 0 /\ NoTask.dev = "none"
      /\ NoTask.path = NoPath /\ NoTask.row = 0 /\ NoTask.status = "none"
  BY DEF NoTask
<1>2. 0 \in 0..MaxRequests
  BY ConstantsAssumption
<1>3. NoTask \in Task
  BY <1>2 DEF NoTask, Task, Stage
<1> QED
  BY <1>1, <1>3 DEF TaskInv, Unsaved, Holding, Saved

\* What is known of a worker that is running.
LEMMA Known ==
    ASSUME IInv, NEW w \in Worker
    PROVE  /\ TypeOK /\ task \in [Worker -> Task]
           /\ task[w] \in Task /\ TaskInv(task[w])
BY DEF IInv, TypeOK

\* A step of one worker that changes neither database nor disk.
LEMMA QuietStep ==
    ASSUME IInv, NEW w \in Worker, NEW c \in Task, task' = [task EXCEPT ![w] = c],
           UNCHANGED <<database, second, disk, requests, crashes>>,
           TaskInv(c),
           c.pc # "idle" => c.run = task[w].run /\ task[w].pc # "idle",
           task[w].pc \notin Holding,
           events \subseteq events',
           events' \subseteq [type : {"backup_success", "backup_failed"},
                              dev : Device, row : Nat],
           \A e \in events' : EventInv(e),
           \A r \in backups : (r.id = task[w].row /\ task[w].pc \in Saved) =>
               \/ c.row = r.id /\ c.pc \in Saved
               \/ \E e \in events' : e.row = r.id
    PROVE  IInv'
<1>1. /\ task' \in [Worker -> Task] /\ task'[w] = c
      /\ \A v \in Worker \ {w} : task'[v] = task[v]
  BY Known, TaskUpdate
<1>2. UNCHANGED <<devices, deleted, backups, nextId, second, files, targeted, broken,
                  requests, crashes>>
  BY DEF database, disk
<1>3. TypeOK'
  BY <1>1, <1>2 DEF IInv, TypeOK
<1>4. RunsDiffer'
  BY <1>1 DEF IInv, RunsDiffer
<1>5. ASSUME NEW v \in Worker PROVE TaskInv(task[v])'
  <2>1. TaskInv(task'[v])
    BY <1>1 DEF IInv
  <2> QED
    BY <1>2, <2>1 DEF TaskInv, HasFile, Collides
<1>6. \A r \in backups' : RowInv(r)'
  BY <1>2 DEF IInv, RowInv, HasFile, Collides
<1>7. \A e \in events' : EventInv(e)'
  BY <1>2 DEF EventInv
<1>8. ASSUME crashes' = 0, NEW t \in targeted' PROVE Accounted(t)'
  <2>1. Accounted(t)
    BY <1>2, <1>8 DEF IInv
  <2> QED
    BY <1>1, <1>2, <2>1 DEF Accounted
<1>9. ASSUME crashes' = 0, NEW r \in backups' PROVE ReportedOrHeld(r)'
  <2>1. ReportedOrHeld(r)
    BY <1>2, <1>9 DEF IInv
  <2> QED
    BY <1>1, <1>2, <2>1 DEF ReportedOrHeld
<1> QED
  BY <1>3, <1>4, <1>5, <1>6, <1>7, <1>8, <1>9 DEF IInv

-----------------------------------------------------------------------------
(* One lemma per action *)

LEMMA InitHolds == Init => IInv
<1> SUFFICES ASSUME Init PROVE IInv
  OBVIOUS
<1>1. TypeOK
  BY NoTaskIsIdle, ConstantsAssumption DEF Init, TypeOK
<1>2. \A w \in Worker : task[w] = NoTask
  BY DEF Init
<1>3. \A w \in Worker : TaskInv(task[w])
  BY <1>2, NoTaskIsIdle
<1>4. RunsDiffer
  BY <1>2, NoTaskIsIdle DEF RunsDiffer
<1> QED
  BY <1>1, <1>3, <1>4 DEF IInv, Init

LEMMA RequestHolds ==
    ASSUME IInv, NEW w \in Worker, NEW d \in Device, Request(w, d)
    PROVE  IInv'
<1> DEFINE q == [NoTask EXCEPT !.pc = "called", !.run = requests + 1, !.dev = d]
<1>1. /\ task[w].pc = "idle" /\ requests < MaxRequests /\ d \in devices
      /\ requests' = requests + 1 /\ task' = [task EXCEPT ![w] = q]
      /\ UNCHANGED <<devices, deleted, backups, nextId, second, files, targeted, broken,
                     events, crashes>>
  BY DEF Request, database, disk
<1>2. requests \in Nat /\ requests' \in 1..MaxRequests
  BY <1>1, ConstantsAssumption DEF IInv, TypeOK
<1>3. PICK c \in Task : /\ task' = [task EXCEPT ![w] = c]
                        /\ c.pc = "called" /\ c.run = requests + 1 /\ c.dev = d
  <2>1. /\ "called" \in Stage /\ requests + 1 \in 0..MaxRequests
    BY <1>1, <1>2, ConstantsAssumption DEF Stage
  <2>2. q \in Task /\ q.pc = "called" /\ q.run = requests + 1 /\ q.dev = d
    BY <2>1, NoTaskIsIdle DEF Task
  <2> QED
    BY <1>1, <2>2
<1> HIDE DEF q
<1>4. /\ task' \in [Worker -> Task] /\ task'[w] = c
      /\ \A v \in Worker \ {w} : task'[v] = task[v]
  BY <1>1, <1>3, Known, TaskUpdate
<1>5. TypeOK'
  BY <1>1, <1>2, <1>4 DEF IInv, TypeOK
<1>6. \A r \in backups : RowInv(r)
  BY DEF IInv
<1>7. ASSUME NEW v \in Worker PROVE TaskInv(task[v])'
  <2>1. CASE v = w
    <3>1. TaskInv(c)'
      BY <1>1, <1>2, <1>3, <1>6 DEF TaskInv, Unsaved, Holding, Saved, RowInv
    <3> QED
      BY <1>4, <2>1, <3>1
  <2>2. CASE v # w
    BY <1>1, <1>2, <1>4, <2>2, Known DEF TaskInv, HasFile, Collides
  <2> QED
    BY <2>1, <2>2
<1>8. RunsDiffer'
  <2>1. \A v \in Worker : task[v].pc # "idle" => task[v].run # c.run
    BY <1>2, <1>3, Known DEF TaskInv
  <2> QED
    BY <1>4, <2>1 DEF IInv, RunsDiffer
<1>9. ASSUME NEW r \in backups' PROVE RowInv(r)'
  <2>1. RowInv(r)
    BY <1>1, <1>6
  <2>2. HasFile(r.path, r.config, "whole") => HasFile(r.path, r.config, "whole")'
    BY <1>1 DEF HasFile, Collides
  <2> QED
    BY <1>1, <1>2, <2>1, <2>2 DEF RowInv
<1>10. \A e \in events' : EventInv(e)'
  BY <1>1 DEF IInv, EventInv
<1>11. ASSUME crashes' = 0, NEW t \in targeted' PROVE Accounted(t)'
  BY <1>1, <1>4, <1>11 DEF IInv, Accounted, Holding
<1>12. ASSUME crashes' = 0, NEW r \in backups' PROVE ReportedOrHeld(r)'
  BY <1>1, <1>4, <1>12 DEF IInv, ReportedOrHeld, Saved
<1> QED
  BY <1>5, <1>7, <1>8, <1>9, <1>10, <1>11, <1>12 DEF IInv

LEMMA FetchConfigHolds ==
    ASSUME IInv, NEW w \in Worker, FetchConfig(w)
    PROVE  IInv'
<1>1. PICK stage \in {"fetched", "failed"} : Goto(w, stage)
  BY DEF FetchConfig
<1>2. /\ task[w].pc = "called" /\ UNCHANGED <<database, second, disk, requests, crashes>>
      /\ UNCHANGED events
  BY DEF FetchConfig
<1>3. PICK c \in Task : /\ task' = [task EXCEPT ![w] = c]
                        /\ c.pc = stage /\ c.run = task[w].run /\ c.dev = task[w].dev
  BY <1>1, Known, GotoUpdate DEF Stage
<1>4. TaskInv(c)
  BY <1>2, <1>3, Known DEF TaskInv, Unsaved, Holding, Saved
<1>5. /\ events' \subseteq [type : {"backup_success", "backup_failed"},
                            dev : Device, row : Nat]
      /\ \A e \in events' : EventInv(e)
  BY <1>2 DEF IInv, TypeOK
<1>6. task[w].pc \notin Saved \cup Holding
  BY <1>2 DEF Saved, Holding
<1> QED
  BY <1>2, <1>3, <1>4, <1>5, <1>6, QuietStep

LEMMA ReloadHolds ==
    ASSUME IInv, NEW w \in Worker, Reload(w)
    PROVE  IInv'
<1> DEFINE stage == IF task[w].dev \in devices THEN "refreshed" ELSE "raised"
<1>1. /\ task[w].pc = "saved" /\ UNCHANGED <<database, second, disk, requests, crashes>>
      /\ UNCHANGED events /\ Goto(w, stage)
  BY DEF Reload
<1>2. PICK c \in Task : /\ task' = [task EXCEPT ![w] = c]
                        /\ c.pc = stage /\ c.run = task[w].run /\ c.dev = task[w].dev
                        /\ c.row = task[w].row /\ c.status = task[w].status
  BY <1>1, Known, GotoUpdate DEF Stage
<1>3. TaskInv(c)
  BY <1>1, <1>2, Known DEF TaskInv, Unsaved, Holding, Saved
<1>4. /\ events' \subseteq [type : {"backup_success", "backup_failed"},
                            dev : Device, row : Nat]
      /\ \A e \in events' : EventInv(e)
  BY <1>1 DEF IInv, TypeOK
<1>5. \A r \in backups : r.id = task[w].row => c.row = r.id /\ c.pc \in Saved
  BY <1>1, <1>2, Known DEF IInv, RowInv, TaskInv, Saved
<1>6. task[w].pc \notin Holding
  BY <1>1 DEF Holding
<1> QED
  BY <1>1, <1>2, <1>3, <1>4, <1>5, <1>6, QuietStep

LEMMA DispatchEventHolds ==
    ASSUME IInv, NEW w \in Worker, DispatchEvent(w)
    PROVE  IInv'
<1> DEFINE e == [type |-> EventFor(task[w].status), dev |-> task[w].dev,
                 row |-> task[w].row]
<1>1. /\ task[w].pc = "refreshed" /\ UNCHANGED <<database, second, disk, requests, crashes>>
      /\ events' = events \cup {e} /\ Goto(w, "returned")
  BY DEF DispatchEvent
<1>2. PICK c \in Task : /\ task' = [task EXCEPT ![w] = c]
                        /\ c.pc = "returned" /\ c.run = task[w].run /\ c.dev = task[w].dev
  BY <1>1, Known, GotoUpdate DEF Stage
<1>3. TaskInv(c)
  BY <1>1, <1>2, Known DEF TaskInv, Unsaved, Holding, Saved
<1>4. /\ task[w].status \in Status /\ task[w].dev \in devices \cup deleted
      /\ task[w].row \in Nat
      /\ task[w].dev \in devices =>
            \E r \in backups : /\ r.id = task[w].row /\ r.dev = task[w].dev
                               /\ r.status = task[w].status
  BY <1>1, Known DEF TaskInv, Saved, Task
<1>5. EventFor(task[w].status) \in {"backup_success", "backup_failed"}
  BY DEF EventFor
<1>6. task[w].dev \in Device
  BY <1>4 DEF IInv, TypeOK
<1>7. EventInv(e)
  BY <1>4 DEF EventInv, EventFor, Status
<1>8. /\ events' \subseteq [type : {"backup_success", "backup_failed"},
                            dev : Device, row : Nat]
      /\ \A f \in events' : EventInv(f)
  BY <1>1, <1>4, <1>5, <1>6, <1>7 DEF IInv, TypeOK
<1>9. \A r \in backups : r.id = task[w].row => \E f \in events' : f.row = r.id
  <2>1. e \in events' /\ e.row = task[w].row
    BY <1>1
  <2> HIDE DEF e
  <2> QED
    BY <2>1
<1>10. task[w].pc \notin Holding
  BY <1>1 DEF Holding
<1> QED
  BY <1>1, <1>2, <1>3, <1>8, <1>9, <1>10, QuietStep

LEMMA RespondHolds ==
    ASSUME IInv, NEW w \in Worker, Respond(w)
    PROVE  IInv'
<1>1. /\ task[w].pc \in {"returned", "raised"} /\ UNCHANGED events
      /\ UNCHANGED <<database, second, disk, requests, crashes>>
      /\ task' = [task EXCEPT ![w] = NoTask]
  BY DEF Respond
<1>2. /\ events' \subseteq [type : {"backup_success", "backup_failed"},
                            dev : Device, row : Nat]
      /\ \A e \in events' : EventInv(e)
  BY <1>1 DEF IInv, TypeOK
<1>3. task[w].pc \notin Saved \cup Holding
  BY <1>1 DEF Saved, Holding
<1> QED
  BY <1>1, <1>2, <1>3, NoTaskIsIdle, QuietStep

\* A step of one worker that touches the file p, in the name of its own run.
LEMMA DiskStep ==
    ASSUME IInv, NEW w \in Worker, NEW c \in Task, task' = [task EXCEPT ![w] = c],
           NEW p \in Path,
           UNCHANGED <<database, second, events, requests, crashes>>,
           task[w].pc \in Unsaved, c.run = task[w].run, c.pc # "idle",
           DOMAIN files' = DOMAIN files \cup {p},
           \A q \in DOMAIN files \ {p} : files'[q] = files[q],
           files'[p] \in Content,
           targeted' = targeted \cup {<<p, c.run>>},
           broken \subseteq broken', broken' \subseteq Run,
           TaskInv(c)',
           c.run \in broken' \/ (c.pc \in Holding /\ c.path = p),
           task[w].pc \in Holding => task[w].path = p
    PROVE  IInv'
<1>1. /\ task' \in [Worker -> Task] /\ task'[w] = c
      /\ \A v \in Worker \ {w} : task'[v] = task[v]
  BY Known, TaskUpdate
<1>2. UNCHANGED <<devices, deleted, backups, nextId, second, events, requests, crashes>>
  BY DEF database
<1>3. task[w].pc # "idle" /\ c.run \in 1..requests /\ \A r \in backups : r.config # c.run
  BY Known DEF TaskInv, Unsaved
<1>4. c.run \in Run
  BY <1>3, ConstantsAssumption DEF IInv, TypeOK, Run
<1>5. \A q, run, state : (run # c.run /\ HasFile(q, run, state)) => HasFile(q, run, state)'
  <2> SUFFICES ASSUME NEW q, NEW run, NEW state, run # c.run, HasFile(q, run, state)
               PROVE  HasFile(q, run, state)'
    OBVIOUS
  <2>1. CASE q = p
    <3>1. Collides(q, run)'
      <4>1. /\ <<p, c.run>> \in targeted'
            /\ <<p, c.run>>[1] = p /\ <<p, c.run>>[2] = c.run
        OBVIOUS
      <4> QED
        BY <2>1, <4>1 DEF Collides
    <3> QED
      BY <2>1, <3>1 DEF HasFile
  <2>2. CASE q # p
    BY <2>2 DEF HasFile, Collides
  <2> QED
    BY <2>1, <2>2
<1>6. TypeOK'
  <2>1. DOMAIN files' \subseteq Path /\ \A q \in DOMAIN files' : files'[q] \in Content
    BY DEF IInv, TypeOK
  <2>2. targeted' \subseteq Path \X Run
    BY <1>4 DEF IInv, TypeOK
  <2> QED
    BY <1>1, <1>2, <2>1, <2>2 DEF IInv, TypeOK
<1>7. RunsDiffer'
  BY <1>1, <1>3 DEF IInv, RunsDiffer
<1>8. ASSUME NEW v \in Worker PROVE TaskInv(task[v])'
  <2>1. CASE v = w
    BY <1>1, <2>1
  <2>2. CASE v # w
    <3>1. TaskInv(task[v]) /\ task'[v] = task[v]
      BY <1>1, <2>2, Known
    <3>2. task[v].pc # "idle" => task[v].run # c.run
      BY <1>3, <2>2 DEF IInv, RunsDiffer
    <3> QED
      BY <1>2, <1>5, <3>1, <3>2 DEF TaskInv
  <2> QED
    BY <2>1, <2>2
<1>9. ASSUME NEW r \in backups' PROVE RowInv(r)'
  <2>1. RowInv(r) /\ r.config # c.run
    BY <1>2, <1>3 DEF IInv
  <2> QED
    BY <1>2, <1>5, <2>1 DEF RowInv
<1>10. \A e \in events' : EventInv(e)'
  BY <1>2 DEF IInv, EventInv
<1>11. ASSUME crashes' = 0, NEW t \in targeted' PROVE Accounted(t)'
  <2>1. CASE t = <<p, c.run>>
    BY <1>1, <2>1 DEF Accounted
  <2>2. CASE t # <<p, c.run>>
    <3>1. Accounted(t) /\ t \in Path \X Run
      BY <1>2, <1>11, <2>2 DEF IInv, TypeOK
    <3>2. ~(task[w].pc \in Holding /\ task[w].path = t[1] /\ task[w].run = t[2])
      BY <2>2, <3>1
    <3> QED
      BY <1>1, <1>2, <3>1, <3>2 DEF Accounted
  <2> QED
    BY <2>1, <2>2
<1>12. ASSUME crashes' = 0, NEW r \in backups' PROVE ReportedOrHeld(r)'
  <2>1. ReportedOrHeld(r)
    BY <1>2, <1>12 DEF IInv
  <2>2. task[w].pc \notin Saved
    BY DEF Saved, Unsaved
  <2> QED
    BY <1>1, <1>2, <2>1, <2>2 DEF ReportedOrHeld
<1> QED
  BY <1>6, <1>7, <1>8, <1>9, <1>10, <1>11, <1>12 DEF IInv

LEMMA OpenFileHolds ==
    ASSUME IInv, NEW w \in Worker, OpenFile(w)
    PROVE  IInv'
<1>1. task[w].pc = "fetched" /\ UNCHANGED <<database, second, events, requests, crashes>>
  BY DEF OpenFile
<1>2. /\ task[w].run \in 1..requests /\ task[w].run \in Run
      /\ task[w].dev \in devices \cup deleted /\ task[w].dev \in Device
      /\ \A r \in backups : r.config # task[w].run
  BY <1>1, Known, ConstantsAssumption DEF TaskInv, Unsaved, TypeOK, Run
<1>3. CASE Goto(w, "failed") /\ UNCHANGED disk
  <2>1. PICK c \in Task : /\ task' = [task EXCEPT ![w] = c]
                          /\ c.pc = "failed" /\ c.run = task[w].run /\ c.dev = task[w].dev
    BY <1>3, Known, GotoUpdate DEF Stage
  <2>2. TaskInv(c)
    BY <1>2, <2>1 DEF TaskInv, Unsaved, Holding, Saved
  <2>3. /\ events' \subseteq [type : {"backup_success", "backup_failed"},
                              dev : Device, row : Nat]
        /\ \A e \in events' : EventInv(e)
    BY <1>1 DEF IInv, TypeOK
  <2>4. task[w].pc \notin Saved \cup Holding
    BY <1>1 DEF Saved, Holding
  <2> QED
    BY <1>1, <1>3, <2>1, <2>2, <2>3, <2>4, QuietStep
<1>4. ASSUME NEW p, p = <<SlugOf[task[w].dev], second>>,
             files' = [q \in DOMAIN files \cup {p} |->
                          IF q = p THEN [state |-> "empty", run |-> task[w].run]
                          ELSE files[q]],
             targeted' = targeted \cup {<<p, task[w].run>>},
             task' = [task EXCEPT ![w].pc = "opened", ![w].path = p],
             UNCHANGED broken
      PROVE  IInv'
  <2>1. p \in Path /\ p[1] = SlugOf[task[w].dev]
    BY <1>2, <1>4, Known DEF Path, TypeOK
  <2>2. PICK c \in Task : /\ task' = [task EXCEPT ![w] = c]
                          /\ c.pc = "opened" /\ c.path = p
                          /\ c.run = task[w].run /\ c.dev = task[w].dev
    <3> DEFINE q == [task[w] EXCEPT !.pc = "opened", !.path = p]
    <3>1. /\ q \in Task /\ q.pc = "opened" /\ q.path = p
          /\ q.run = task[w].run /\ q.dev = task[w].dev
      BY <2>1, Known DEF Task, Stage
    <3>2. task' = [task EXCEPT ![w] = q]
      BY <1>4
    <3> QED
      BY <3>1, <3>2
  <2>3. /\ DOMAIN files' = DOMAIN files \cup {p}
        /\ \A q \in DOMAIN files \ {p} : files'[q] = files[q]
        /\ files'[p] = [state |-> "empty", run |-> c.run] /\ files'[p] \in Content
        /\ targeted' = targeted \cup {<<p, c.run>>}
    BY <1>2, <1>4, <2>2 DEF Content
  <2>4. TaskInv(c)'
    <3>1. HasFile(c.path, c.run, "empty")'
      BY <2>2, <2>3 DEF HasFile
    <3>2. UNCHANGED <<devices, deleted, backups, nextId, requests>>
      BY <1>1 DEF database
    <3> QED
      BY <1>2, <2>1, <2>2, <3>1, <3>2 DEF TaskInv, Unsaved, Holding, Saved
  <2>5. /\ broken \subseteq broken' /\ broken' \subseteq Run
        /\ c.pc \in Holding /\ c.pc # "idle"
        /\ task[w].pc \in Unsaved /\ task[w].pc \notin Holding
    BY <1>1, <1>4, <2>2, Known DEF TypeOK, Holding, Unsaved
  <2> QED
    BY <1>1, <2>1, <2>2, <2>3, <2>4, <2>5, DiskStep
<1> QED
  BY <1>3, <1>4 DEF OpenFile

LEMMA WriteFileHolds ==
    ASSUME IInv, NEW w \in Worker, WriteFile(w)
    PROVE  IInv'
<1>1. task[w].pc = "opened" /\ UNCHANGED <<database, second, events, requests, crashes>>
      /\ UNCHANGED targeted
  BY DEF WriteFile
<1>2. /\ task[w].run \in 1..requests /\ task[w].run \in Run
      /\ task[w].dev \in devices \cup deleted
      /\ \A r \in backups : r.config # task[w].run
      /\ task[w].path \in Path /\ task[w].path[1] = SlugOf[task[w].dev]
      /\ HasFile(task[w].path, task[w].run, "empty")
  BY <1>1, Known, ConstantsAssumption DEF TaskInv, Unsaved, Holding, TypeOK, Run
<1>3. PICK stage \in {"written", "failed"}, state \in {"whole", "mixed", "partial"} :
         /\ files' = [files EXCEPT ![task[w].path] =
                         [state |-> state, run |-> task[w].run]]
         /\ Goto(w, stage)
         /\ stage = "written" =>
               state = (IF files[task[w].path].state = "empty" THEN "whole" ELSE "mixed")
         /\ broken' = IF stage = "written" THEN broken ELSE broken \cup {task[w].run}
  <2>1. CASE /\ files' = [files EXCEPT ![task[w].path] =
                             [state |-> IF @.state = "empty" THEN "whole" ELSE "mixed",
                              run |-> task[w].run]]
             /\ Goto(w, "written")
             /\ UNCHANGED broken
    BY <2>1
  <2>2. CASE /\ files' = [files EXCEPT ![task[w].path] =
                             [state |-> "partial", run |-> task[w].run]]
             /\ broken' = broken \cup {task[w].run}
             /\ Goto(w, "failed")
    BY <2>2
  <2> QED
    BY <2>1, <2>2 DEF WriteFile
<1>4. PICK c \in Task : /\ task' = [task EXCEPT ![w] = c]
                        /\ c.pc = stage /\ c.run = task[w].run /\ c.dev = task[w].dev
                        /\ c.path = task[w].path
  BY <1>3, Known, GotoUpdate DEF Stage
<1>5. /\ c.path \in DOMAIN files /\ <<c.path, c.run>> \in targeted
      /\ files[c.path] = [state |-> "empty", run |-> c.run] \/ Collides(c.path, c.run)
  BY <1>2, <1>4 DEF HasFile
<1>6. /\ DOMAIN files' = DOMAIN files \cup {c.path}
      /\ \A q \in DOMAIN files \ {c.path} : files'[q] = files[q]
      /\ files'[c.path] = [state |-> state, run |-> c.run]
      /\ files'[c.path] \in Content
      /\ targeted' = targeted \cup {<<c.path, c.run>>}
  BY <1>1, <1>2, <1>3, <1>4, <1>5 DEF Content
<1>7. TaskInv(c)'
  <2>1. stage = "written" => HasFile(c.path, c.run, "whole")'
    BY <1>3, <1>4, <1>5, <1>6 DEF HasFile, Collides
  <2>2. UNCHANGED <<devices, deleted, backups, nextId, requests>>
    BY <1>1 DEF database
  <2> QED
    BY <1>2, <1>4, <2>1, <2>2 DEF TaskInv, Unsaved, Holding, Saved
<1>8. /\ broken \subseteq broken' /\ broken' \subseteq Run
      /\ c.run \in broken' \/ c.pc \in Holding
  BY <1>2, <1>3, <1>4, Known DEF TypeOK, Holding
<1>9. task[w].pc \in Unsaved /\ c.pc # "idle" /\ c.path \in Path
  BY <1>1, <1>2, <1>4 DEF Unsaved
<1> QED
  BY <1>1, <1>4, <1>6, <1>7, <1>8, <1>9, DiskStep

LEMMA SaveHolds ==
    ASSUME IInv, NEW w \in Worker, Save(w)
    PROVE  IInv'
<1>1. /\ task[w].pc \in {"written", "failed"} /\ nextId \in Nat /\ nextId' = nextId + 1
      /\ UNCHANGED <<devices, deleted, second, files, targeted, broken, events,
                     requests, crashes>>
  BY Known DEF Save, disk, TypeOK
<1>2. /\ task[w].run \in 1..requests /\ task[w].run \in Run
      /\ task[w].dev \in devices \cup deleted /\ task[w].dev \in Device
      /\ \A r \in backups : r.config # task[w].run
  BY <1>1, Known, ConstantsAssumption DEF TaskInv, Unsaved, TypeOK, Run
<1>3. task[w].pc = "written" =>
         /\ task[w].path \in Path /\ task[w].path[1] = SlugOf[task[w].dev]
         /\ HasFile(task[w].path, task[w].run, "whole")
  BY Known DEF TaskInv, Holding
<1>4. \A r \in backups : RowInv(r)
  BY DEF IInv
<1>5. \A p, run, state : HasFile(p, run, state) => HasFile(p, run, state)'
  BY <1>1 DEF HasFile, Collides
<1>6. ASSUME NEW c \in Task, task' = [task EXCEPT ![w] = c],
             c.run = task[w].run, c.pc # "idle", c.pc \notin Holding,
             TaskInv(c)',
             NEW new \in SUBSET Row, backups' = backups \cup new,
             \A r \in new : /\ RowInv(r)' /\ r.config = c.run /\ r.id = nextId
                            /\ c.row = r.id /\ c.pc \in Saved,
             task[w].pc = "written" =>
                \/ \E r \in new : r.status = "SUCCESS" /\ r.path = task[w].path
                \/ task[w].dev \in deleted
      PROVE  IInv'
  <2>1. /\ task' \in [Worker -> Task] /\ task'[w] = c
        /\ \A v \in Worker \ {w} : task'[v] = task[v]
    BY <1>6, Known, TaskUpdate
  <2>2. TypeOK'
    BY <1>1, <1>6, <2>1 DEF IInv, TypeOK
  <2>3. task[w].pc # "idle"
    BY <1>1
  <2>4. RunsDiffer'
    BY <1>6, <2>1, <2>3 DEF IInv, RunsDiffer
  <2>5. ASSUME NEW v \in Worker PROVE TaskInv(task[v])'
    <3>1. CASE v = w
      BY <1>6, <2>1, <3>1
    <3>2. CASE v # w
      <4>1. TaskInv(task[v]) /\ task'[v] = task[v]
        BY <2>1, <3>2, Known
      <4>2. task[v].pc # "idle" => task[v].run # c.run
        BY <1>6, <2>3, <3>2 DEF IInv, RunsDiffer
      <4>3. task[v].pc \in Saved => task[v].row \in Nat
        BY Known DEF Task
      <4> QED
        BY <1>1, <1>5, <1>6, <4>1, <4>2, <4>3 DEF TaskInv, Unsaved
    <3> QED
      BY <3>1, <3>2
  <2>6. ASSUME NEW r \in backups' PROVE RowInv(r)'
    <3>1. CASE r \in new
      BY <1>6, <3>1
    <3>2. CASE r \in backups
      <4>1. RowInv(r) /\ r.id \in Nat
        BY <1>4, <3>2 DEF IInv, TypeOK, Row
      <4> QED
        BY <1>1, <1>5, <4>1 DEF RowInv
    <3> QED
      BY <1>6, <3>1, <3>2
  <2>7. ASSUME NEW e \in events' PROVE EventInv(e)'
    <3>1. EventInv(e)
      BY <1>1 DEF IInv
    <3> QED
      BY <1>1, <1>6, <3>1 DEF EventInv
  <2>8. ASSUME crashes' = 0, NEW t \in targeted' PROVE Accounted(t)'
    <3>1. Accounted(t)
      BY <1>1, <2>8 DEF IInv
    <3>2. CASE task[w].pc \in Holding /\ task[w].path = t[1] /\ task[w].run = t[2]
      <4>1. task[w].pc = "written"
        BY <1>1, <3>2 DEF Holding
      <4>2. CASE task[w].dev \in deleted
        BY <1>1, <1>3, <3>2, <4>1, <4>2 DEF Accounted
      <4>3. CASE \E r \in new : r.status = "SUCCESS" /\ r.path = task[w].path
        BY <1>6, <3>2, <4>3 DEF Accounted
      <4> QED
        BY <1>6, <4>1, <4>2, <4>3
    <3>3. CASE ~(task[w].pc \in Holding /\ task[w].path = t[1] /\ task[w].run = t[2])
      BY <1>1, <1>6, <2>1, <3>1, <3>3 DEF Accounted
    <3> QED
      BY <3>2, <3>3
  <2>9. ASSUME crashes' = 0, NEW r \in backups' PROVE ReportedOrHeld(r)'
    <3>1. CASE r \in new
      BY <1>6, <2>1, <3>1 DEF ReportedOrHeld
    <3>2. CASE r \in backups
      <4>1. ReportedOrHeld(r)
        BY <1>1, <2>9, <3>2 DEF IInv
      <4>2. task[w].pc \notin Saved
        BY <1>1 DEF Saved
      <4> QED
        BY <1>1, <2>1, <4>1, <4>2 DEF ReportedOrHeld
    <3> QED
      BY <1>6, <3>1, <3>2
  <2> QED
    BY <2>2, <2>4, <2>5, <2>6, <2>7, <2>8, <2>9 DEF IInv
<1>7. CASE task[w].dev \notin devices /\ Goto(w, "raised") /\ UNCHANGED backups
  <2>1. PICK c \in Task : /\ task' = [task EXCEPT ![w] = c]
                          /\ c.pc = "raised" /\ c.run = task[w].run /\ c.dev = task[w].dev
    BY <1>7, Known, GotoUpdate DEF Stage
  <2>2. TaskInv(c)'
    BY <1>1, <1>2, <1>7, <2>1 DEF TaskInv, Unsaved, Holding, Saved
  <2>3. backups' = backups \cup {} /\ {} \in SUBSET Row
    BY <1>7
  <2>4. c.pc \notin Holding /\ c.pc # "idle" /\ task[w].dev \in deleted
    BY <1>2, <1>7, <2>1 DEF Holding
  <2>5. \A r \in {} : /\ RowInv(r)' /\ r.config = c.run /\ r.id = nextId
                      /\ c.row = r.id /\ c.pc \in Saved
    OBVIOUS
  <2> QED
    BY <1>6, <2>1, <2>2, <2>3, <2>4, <2>5
<1>8. ASSUME task[w].dev \in devices,
             NEW status, status = (IF task[w].pc = "written" THEN "SUCCESS" ELSE "FAILED"),
             NEW path, path = (IF status = "SUCCESS" THEN task[w].path ELSE NoPath),
             NEW row, row = [id |-> nextId, dev |-> task[w].dev, status |-> status,
                             path |-> path, config |-> task[w].run],
             backups' = backups \cup {row},
             task' = [task EXCEPT ![w].pc = "saved", ![w].row = nextId,
                                  ![w].status = status]
      PROVE  IInv'
  <2>1. status \in Status /\ path \in Path \cup {NoPath}
    BY <1>3, <1>8 DEF Status
  <2>2. PICK c \in Task : /\ task' = [task EXCEPT ![w] = c]
                          /\ c.pc = "saved" /\ c.row = nextId /\ c.status = status
                          /\ c.run = task[w].run /\ c.dev = task[w].dev
    <3> DEFINE q == [task[w] EXCEPT !.pc = "saved", !.row = nextId, !.status = status]
    <3>1. /\ q \in Task /\ q.pc = "saved" /\ q.row = nextId /\ q.status = status
          /\ q.run = task[w].run /\ q.dev = task[w].dev
      BY <1>1, <2>1, Known DEF Task, Stage
    <3>2. task' = [task EXCEPT ![w] = q]
      BY <1>8
    <3> QED
      BY <3>1, <3>2
  <2>3. /\ row \in Row /\ row.id = nextId /\ row.dev = task[w].dev
        /\ row.status = status /\ row.path = path /\ row.config = task[w].run
    BY <1>1, <1>2, <1>8, <2>1 DEF Row
  <2>4. RowInv(row)'
    <3>1. status = "SUCCESS" => task[w].pc = "written" /\ path = task[w].path
      BY <1>8
    <3> QED
      BY <1>1, <1>2, <1>3, <1>5, <1>8, <2>3, <3>1 DEF RowInv
  <2>5. TaskInv(c)'
    <3>1. \A r \in backups : r.id # nextId
      BY <1>1, <1>4 DEF RowInv, IInv, TypeOK, Row
    <3> QED
      BY <1>1, <1>2, <1>8, <2>1, <2>2, <2>3, <3>1 DEF TaskInv, Unsaved, Holding, Saved
  <2>6. task[w].pc = "written" => row.status = "SUCCESS" /\ row.path = task[w].path
    BY <1>8, <2>3
  <2>7. {row} \in SUBSET Row /\ c.pc \notin Holding /\ c.pc \in Saved
    BY <2>2, <2>3 DEF Holding, Saved
  <2>8. \A r \in {row} : /\ RowInv(r)' /\ r.config = c.run /\ r.id = nextId
                         /\ c.row = r.id /\ c.pc \in Saved
    BY <2>2, <2>3, <2>4, <2>7
  <2> QED
    BY <1>6, <1>8, <2>2, <2>5, <2>6, <2>7, <2>8
<1> QED
  BY <1>7, <1>8 DEF Save

LEMMA CreateDeviceHolds ==
    ASSUME IInv, NEW d \in Device, CreateDevice(d)
    PROVE  IInv'
<1>1. /\ d \notin devices \cup deleted /\ devices' = devices \cup {d}
      /\ UNCHANGED <<deleted, backups, nextId, second, files, targeted, broken, events,
                     task, requests, crashes>>
  BY DEF CreateDevice, disk
<1>2. TypeOK'
  BY <1>1 DEF IInv, TypeOK
<1>3. \A p, run, state : HasFile(p, run, state) => HasFile(p, run, state)'
  BY <1>1 DEF HasFile, Collides
<1>4. ASSUME NEW w \in Worker PROVE TaskInv(task[w])'
  <2>1. task[w].pc \in Saved => task[w].dev # d
    BY <1>1, Known DEF TaskInv, Saved
  <2> QED
    BY <1>1, <1>3, <2>1, Known DEF TaskInv
<1>5. \A r \in backups' : RowInv(r)'
  BY <1>1, <1>3 DEF IInv, RowInv
<1>6. \A e \in events' : EventInv(e)'
  BY <1>1 DEF IInv, EventInv
<1> QED
  BY <1>1, <1>2, <1>4, <1>5, <1>6 DEF IInv, RunsDiffer, Accounted, ReportedOrHeld

LEMMA DeleteDeviceHolds ==
    ASSUME IInv, NEW d \in Device, DeleteDevice(d)
    PROVE  IInv'
<1>1. /\ d \in devices /\ devices' = devices \ {d} /\ deleted' = deleted \cup {d}
      /\ backups' = {r \in backups : r.dev # d}
      /\ UNCHANGED <<nextId, second, files, targeted, broken, events, task, requests, crashes>>
  BY DEF DeleteDevice, disk, BackupsOf
<1>2. TypeOK'
  BY <1>1 DEF IInv, TypeOK
<1>3. \A p, run, state : HasFile(p, run, state) => HasFile(p, run, state)'
  BY <1>1 DEF HasFile, Collides
<1>4. ASSUME NEW w \in Worker PROVE TaskInv(task[w])'
  BY <1>1, <1>3, Known DEF TaskInv
<1>5. \A r \in backups' : RowInv(r)'
  BY <1>1, <1>3 DEF IInv, RowInv
<1>6. \A e \in events' : EventInv(e)'
  BY <1>1 DEF IInv, EventInv
<1>7. ASSUME crashes' = 0, NEW t \in targeted' PROVE Accounted(t)'
  <2>1. Accounted(t)
    BY <1>1, <1>7 DEF IInv
  <2>2. \A r \in backups : r.status = "SUCCESS" => r.path[1] = SlugOf[r.dev]
    BY DEF IInv, RowInv
  <2> QED
    BY <1>1, <2>1, <2>2 DEF Accounted
<1>8. ASSUME crashes' = 0, NEW r \in backups' PROVE ReportedOrHeld(r)'
  BY <1>1, <1>8 DEF IInv, ReportedOrHeld
<1> QED
  BY <1>1, <1>2, <1>4, <1>5, <1>6, <1>7, <1>8 DEF IInv, RunsDiffer

LEMMA TickHolds == ASSUME IInv, Tick PROVE IInv'
<1>1. /\ second < MaxSeconds /\ second' = second + 1
      /\ UNCHANGED <<devices, deleted, backups, nextId, files, targeted, broken, events,
                     task, requests, crashes>>
  BY DEF Tick, database, disk
<1>2. TypeOK'
  BY <1>1, ConstantsAssumption DEF IInv, TypeOK
<1> QED
  BY <1>1, <1>2 DEF IInv, RunsDiffer, TaskInv, RowInv, EventInv, Accounted,
                    ReportedOrHeld, HasFile, Collides

LEMMA CrashHolds == ASSUME IInv, Crash PROVE IInv'
<1>1. /\ crashes < MaxCrashes /\ crashes' = crashes + 1
      /\ task' = [w \in Worker |-> NoTask]
      /\ UNCHANGED <<devices, deleted, backups, nextId, second, files, targeted, broken,
                     events, requests>>
  BY DEF Crash, database, disk
<1>2. TypeOK' /\ crashes' # 0
  BY <1>1, NoTaskIsIdle, ConstantsAssumption DEF IInv, TypeOK
<1>3. \A w \in Worker : TaskInv(task[w])'
  BY <1>1, NoTaskIsIdle DEF TaskInv, Unsaved, Holding, Saved
<1>4. RunsDiffer'
  BY <1>1, NoTaskIsIdle DEF RunsDiffer
<1> QED
  BY <1>1, <1>2, <1>3, <1>4 DEF IInv, RowInv, EventInv, HasFile, Collides

-----------------------------------------------------------------------------
(* The invariant *)

LEMMA NextHolds == IInv /\ [Next]_vars => IInv'
<1> SUFFICES ASSUME IInv, [Next]_vars PROVE IInv'
  OBVIOUS
<1>1. CASE UNCHANGED vars
  BY <1>1 DEF vars, IInv, TypeOK, RunsDiffer, TaskInv, RowInv, EventInv, Accounted,
              ReportedOrHeld, HasFile, Collides
<1>2. ASSUME NEW w \in Worker, BackupStep(w) PROVE IInv'
  BY <1>2, FetchConfigHolds, OpenFileHolds, WriteFileHolds, SaveHolds, ReloadHolds,
     DispatchEventHolds, RespondHolds DEF BackupStep
<1>3. ASSUME NEW w \in Worker, NEW d \in Device, Request(w, d) PROVE IInv'
  BY <1>3, RequestHolds
<1>4. ASSUME NEW d \in Device, CreateDevice(d) \/ DeleteDevice(d) PROVE IInv'
  BY <1>4, CreateDeviceHolds, DeleteDeviceHolds
<1> QED
  BY <1>1, <1>2, <1>3, <1>4, TickHolds, CrashHolds DEF Next

\* The inductive invariant holds in every reachable state.
THEOREM Invariance == Spec => []IInv
BY InitHolds, NextHolds, PTL DEF Spec

\* Type correctness.
THEOREM TypeCorrectness == Spec => []TypeOK
<1>1. IInv => TypeOK
  BY DEF IInv
<1> QED
  BY <1>1, Invariance, PTL

\* A successful backup's file holds what it fetched, unless another run opened
\* the same file.
THEOREM SuccessesHaveFiles == Spec => []SuccessHasItsFile
<1>1. IInv => SuccessHasItsFile
  BY DEF IInv, RowInv, HasFile, SuccessHasItsFile
<1> QED
  BY <1>1, Invariance, PTL

\* A file no record names has one of the four reasons.
THEOREM FilesAreAccountedFor == Spec => []FileIsAccountedFor
<1>1. IInv => FileIsAccountedFor
  <2> SUFFICES ASSUME IInv, NEW t \in targeted, ~(crashes > 0)
               PROVE  \/ \E r \in backups : r.path = t[1] /\ r.config = t[2]
                      \/ \E w \in Worker : task[w].run = t[2] /\ task[w].pc # "raised"
                      \/ \E d \in deleted : SlugOf[d] = t[1][1]
                      \/ t[2] \in broken
    BY DEF FileIsAccountedFor
  <2>1. crashes = 0
    BY ConstantsAssumption DEF IInv, TypeOK
  <2>2. Accounted(t)
    BY <2>1 DEF IInv
  <2> QED
    BY <2>2 DEF Accounted, Holding
<1> QED
  BY <1>1, Invariance, PTL

\* A backup fails with an internal error only for a deleted device.
THEOREM BackupsRaiseOnlyIfDeleted == Spec => []RaisesOnlyIfDeleted
<1>1. IInv => RaisesOnlyIfDeleted
  BY DEF IInv, TaskInv, RaisesOnlyIfDeleted
<1> QED
  BY <1>1, Invariance, PTL

\* Records and events of existing devices correspond.
THEOREM RecordsHaveEvents == Spec => []RecordsMatchEvents
<1>1. IInv => RecordsMatchEvents
  <2> SUFFICES ASSUME IInv PROVE RecordsMatchEvents
    OBVIOUS
  <2>1. \A e \in events : e.dev \in devices =>
           \E r \in backups :
              r.id = e.row /\ (r.status = "SUCCESS" <=> e.type = "backup_success")
    BY DEF IInv, EventInv
  <2>2. crashes = 0 => \A r \in backups : ReportedOrHeld(r)
    BY DEF IInv
  <2> QED
    BY <2>1, <2>2 DEF RecordsMatchEvents, ReportedOrHeld, Saved
<1> QED
  BY <1>1, Invariance, PTL
=============================================================================
