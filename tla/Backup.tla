------------------------------- MODULE Backup -------------------------------
(***************************************************************************)
(* Configuration backups of NetAutoOps: run_backup fetches a device's      *)
(* configuration, writes it to a file whose name is built from the         *)
(* device's slugified names and the current second, and then stores one    *)
(* row that points at the file.  The file system and the database are      *)
(* changed in separate steps, by threads that may pick the same file.      *)
(*                                                                         *)
(* Sessions behave as in HealthCheck; a request's session serves one       *)
(* backup, so only the accesses that can raise are kept.                   *)
(***************************************************************************)
EXTENDS Naturals, FiniteSets

CONSTANTS
    Device,       \* device ids the database sequence will hand out
    SlugOf,       \* device -> the slugs of its vendor and hostname
    Supported,    \* devices whose vendor has an adapter
    Worker,       \* threads that may run a backup
    PasswordSet,  \* settings.device_ssh_password is configured
    MaxRequests,  \* bound: backups requested
    MaxSeconds,   \* bound: the wall clock, in seconds
    MaxCrashes    \* bound: crashes of the server process

ASSUME ConstantsAssumption ==
    /\ DOMAIN SlugOf = Device
    /\ Supported \subseteq Device
    /\ PasswordSet \in BOOLEAN
    /\ {MaxRequests, MaxSeconds, MaxCrashes} \subseteq Nat

VARIABLES
    devices,    \* ids present in table devices
    deleted,    \* ids that were deleted (never reused)
    backups,    \* rows of table device_backups
    nextId,     \* next value of its id sequence
    second,     \* wall clock, to the resolution of the file names
    files,      \* path -> content, for the files on disk
    targeted,   \* auxiliary: every <<path, run>> a run opened
    broken,     \* auxiliary: runs whose write failed
    events,     \* events handed to the webhook, with the row each reports
    task,       \* per worker: where run_backup stands
    requests,   \* requests so far; also names the runs
    crashes     \* crashes so far

vars == <<devices, deleted, backups, nextId, second, files, targeted, broken,
          events, task, requests, crashes>>
database == <<devices, deleted, backups, nextId>>
disk == <<files, targeted, broken>>

Run == 1..MaxRequests
Path == {SlugOf[d] : d \in Device} \X (0..MaxSeconds)
NoPath == <<>>

\* a file is empty once opened, whole once the run that last touched it wrote
\* all it fetched, and mixed when two runs wrote after both had opened it
Content == [state : {"empty", "partial", "whole", "mixed"}, run : Run]

\* config: what the row's run fetched (auxiliary, not a column)
Status == {"SUCCESS", "FAILED"}
Row == [id : Nat, dev : Device, status : Status,
        path : Path \cup {NoPath}, config : Run]

Stage == {"idle", "called", "fetched", "opened", "written", "failed", "saved",
          "refreshed", "returned", "raised"}
Task == [pc : Stage, run : 0..MaxRequests, dev : Device \cup {"none"},
         path : Path \cup {NoPath}, row : Nat, status : Status \cup {"none"}]

NoTask == [pc |-> "idle", run |-> 0, dev |-> "none", path |-> NoPath, row |-> 0,
           status |-> "none"]

BackupsOf(d) == {r \in backups : r.dev = d}
Goto(w, stage) == task' = [task EXCEPT ![w].pc = stage]

----------------------------------------------------------------------------
\* the request is authorised and finds its device
Request(w, d) ==
    /\ task[w].pc = "idle"
    /\ requests < MaxRequests
    /\ d \in devices
    /\ requests' = requests + 1
    /\ task' = [task EXCEPT ![w] = [NoTask EXCEPT
                    !.pc = "called", !.run = requests + 1, !.dev = d]]
    /\ UNCHANGED <<database, second, disk, events, crashes>>

\* adapter, credentials and the SSH session: all must succeed
FetchConfig(w) ==
    /\ task[w].pc = "called"
    /\ \/ task[w].dev \in Supported /\ PasswordSet /\ Goto(w, "fetched")
       \/ Goto(w, "failed")
    /\ UNCHANGED <<database, second, disk, events, requests, crashes>>

\* mutant: OSError is not caught
OpenFile_Uncaught(w) ==
    /\ task[w].pc = "fetched"
    /\ Goto(w, "raised")
    /\ UNCHANGED <<database, second, disk, events, requests, crashes>>

\* build_backup_target and write_text's open, which truncates; or OSError
OpenFile(w) ==
    /\ task[w].pc = "fetched"
    /\ \/ LET path == <<SlugOf[task[w].dev], second>> IN
          /\ files' = [p \in DOMAIN files \cup {path} |->
                          IF p = path
                          THEN [state |-> "empty", run |-> task[w].run]
                          ELSE files[p]]
          /\ targeted' = targeted \cup {<<path, task[w].run>>}
          /\ task' = [task EXCEPT ![w].pc = "opened", ![w].path = path]
          /\ UNCHANGED broken
       \/ /\ Goto(w, "failed")
          /\ UNCHANGED disk
    /\ UNCHANGED <<database, second, events, requests, crashes>>

\* mutant: a failed write goes unnoticed
WriteFile_Unchecked(w) ==
    /\ task[w].pc = "opened"
    /\ files' = [files EXCEPT ![task[w].path] =
                    [state |-> "partial", run |-> task[w].run]]
    /\ Goto(w, "written")
    /\ UNCHANGED <<database, second, targeted, broken, events, requests, crashes>>

\* write_text's write. Only OSError is caught, and nothing removes the file.
WriteFile(w) ==
    /\ task[w].pc = "opened"
    /\ LET path == task[w].path IN
       \/ /\ files' = [files EXCEPT ![path] =
                           [state |-> IF @.state = "empty" THEN "whole" ELSE "mixed",
                            run |-> task[w].run]]
          /\ Goto(w, "written")
          /\ UNCHANGED broken
       \/ /\ files' = [files EXCEPT ![path] =
                           [state |-> "partial", run |-> task[w].run]]
          /\ broken' = broken \cup {task[w].run}
          /\ Goto(w, "failed")
    /\ UNCHANGED <<database, second, targeted, events, requests, crashes>>

\* mutant: the file's name is not stored
Save_NoPath(w) ==
    /\ task[w].pc \in {"written", "failed"}
    /\ task[w].dev \in devices
    /\ backups' = backups \cup
          {[id |-> nextId, dev |-> task[w].dev, path |-> NoPath,
            status |-> IF task[w].pc = "written" THEN "SUCCESS" ELSE "FAILED",
            config |-> task[w].run]}
    /\ task' = [task EXCEPT ![w].pc = "saved", ![w].row = nextId]
    /\ nextId' = nextId + 1
    /\ UNCHANGED <<devices, deleted, second, disk, events, requests, crashes>>

\* _save: a failed run's row names no file. The foreign key refuses a deleted
\* device.
Save(w) ==
    /\ task[w].pc \in {"written", "failed"}
    /\ LET d == task[w].dev
           status == IF task[w].pc = "written" THEN "SUCCESS" ELSE "FAILED"
           path == IF status = "SUCCESS" THEN task[w].path ELSE NoPath IN
       \/ /\ d \in devices
          /\ backups' = backups \cup
                {[id |-> nextId, dev |-> d, status |-> status, path |-> path,
                  config |-> task[w].run]}
          /\ task' = [task EXCEPT ![w].pc = "saved", ![w].row = nextId,
                                  ![w].status = status]
       \/ /\ d \notin devices
          /\ Goto(w, "raised")
          /\ UNCHANGED backups
    /\ nextId' = nextId + 1
    /\ UNCHANGED <<devices, deleted, second, disk, events, requests, crashes>>

\* db.refresh(record), then device.id: the first reads the row, the second
\* the device, and either raises if a deletion came before
Reload(w) ==
    /\ task[w].pc = "saved"
    /\ Goto(w, IF task[w].dev \in devices THEN "refreshed" ELSE "raised")
    /\ UNCHANGED <<database, second, disk, events, requests, crashes>>

\* mutant: the branches are swapped
EventFor_Swapped(status) ==
    IF status = "SUCCESS" THEN "backup_failed" ELSE "backup_success"

\* _dispatch_backup_event: always one event
EventFor(status) ==
    IF status = "SUCCESS" THEN "backup_success" ELSE "backup_failed"

DispatchEvent(w) ==
    /\ task[w].pc = "refreshed"
    /\ events' = events \cup
          {[type |-> EventFor(task[w].status), dev |-> task[w].dev,
            row |-> task[w].row]}
    /\ Goto(w, "returned")
    /\ UNCHANGED <<database, second, disk, requests, crashes>>

\* mutant: nothing answers for an exception
Respond_OnlyReturned(w) ==
    /\ task[w].pc = "returned"
    /\ task' = [task EXCEPT ![w] = NoTask]
    /\ UNCHANGED <<database, second, disk, events, requests, crashes>>

\* 201 with the record, or 500
Respond(w) ==
    /\ task[w].pc \in {"returned", "raised"}
    /\ task' = [task EXCEPT ![w] = NoTask]
    /\ UNCHANGED <<database, second, disk, events, requests, crashes>>

----------------------------------------------------------------------------
(* The rest of the system *)

CreateDevice(d) ==
    /\ d \notin devices \cup deleted
    /\ devices' = devices \cup {d}
    /\ UNCHANGED <<deleted, backups, nextId, second, disk, events, task,
                   requests, crashes>>

\* delete_device: the rows cascade, the files stay
DeleteDevice(d) ==
    /\ d \in devices
    /\ devices' = devices \ {d}
    /\ deleted' = deleted \cup {d}
    /\ backups' = backups \ BackupsOf(d)
    /\ UNCHANGED <<nextId, second, disk, events, task, requests, crashes>>

Tick ==
    /\ second < MaxSeconds
    /\ second' = second + 1
    /\ UNCHANGED <<database, disk, events, task, requests, crashes>>

\* the process dies; rows and files stay
Crash ==
    /\ crashes < MaxCrashes
    /\ crashes' = crashes + 1
    /\ task' = [w \in Worker |-> NoTask]
    /\ UNCHANGED <<database, second, disk, events, requests>>

----------------------------------------------------------------------------
Init ==
    /\ devices = {}
    /\ deleted = {}
    /\ backups = {}
    /\ nextId = 1
    /\ second = 0
    /\ files = [p \in {} |-> {}]
    /\ targeted = {}
    /\ broken = {}
    /\ events = {}
    /\ task = [w \in Worker |-> NoTask]
    /\ requests = 0
    /\ crashes = 0

BackupStep(w) ==
    \/ FetchConfig(w)
    \/ OpenFile(w)
    \/ WriteFile(w)
    \/ Save(w)
    \/ Reload(w)
    \/ DispatchEvent(w)
    \/ Respond(w)

Next ==
    \/ \E w \in Worker : BackupStep(w) \/ \E d \in Device : Request(w, d)
    \/ \E d \in Device : CreateDevice(d) \/ DeleteDevice(d)
    \/ Tick
    \/ Crash

\* SSH, disk and database answer or time out
Fairness == \A w \in Worker : WF_vars(BackupStep(w))

Spec == Init /\ [][Next]_vars /\ Fairness

----------------------------------------------------------------------------
(* Properties *)

TypeOK ==
    /\ devices \subseteq Device
    /\ deleted \subseteq Device
    /\ devices \cap deleted = {}
    /\ backups \subseteq Row
    /\ nextId \in Nat
    /\ second \in 0..MaxSeconds
    /\ DOMAIN files \subseteq Path
    /\ \A p \in DOMAIN files : files[p] \in Content
    /\ targeted \subseteq Path \X Run
    /\ broken \subseteq Run
    /\ events \subseteq [type : {"backup_success", "backup_failed"},
                         dev : Device, row : Nat]
    /\ task \in [Worker -> Task]
    /\ requests \in 0..MaxRequests
    /\ crashes \in 0..MaxCrashes

\* Two runs that opened the same file: same slugs, same second
Collides(p, run) == \E t \in targeted : t[1] = p /\ t[2] # run

\* The file a successful backup names holds exactly the configuration that
\* backup fetched, unless another run opened the same file.
SuccessHasItsFile ==
    \A r \in backups : r.status = "SUCCESS" =>
        /\ r.path \in DOMAIN files
        /\ \/ files[r.path] = [state |-> "whole", run |-> r.config]
           \/ Collides(r.path, r.config)

\* "On failure no file is written": refuted by a write that fails midway.
FailureLeavesNoFile ==
    \A r \in backups : r.status = "FAILED" =>
        \A p \in DOMAIN files : files[p].run # r.config

\* A file no record names is accounted for: its run is still at work, its
\* device was deleted, its write failed, or the process died.
FileIsAccountedFor ==
    \A t \in targeted :
        \/ \E r \in backups : r.path = t[1] /\ r.config = t[2]
        \/ \E w \in Worker : task[w].run = t[2] /\ task[w].pc # "raised"
        \/ \E d \in deleted : SlugOf[d] = t[1][1]
        \/ t[2] \in broken
        \/ crashes > 0

\* A backup raises only for a device that was deleted while it ran.
RaisesOnlyIfDeleted ==
    \A w \in Worker : task[w].pc = "raised" => task[w].dev \in deleted

\* Once its run is over every record of an existing device has its event, of
\* the type its status calls for, and every event its record.
RecordsMatchEvents ==
    /\ \A e \in events : e.dev \in devices =>
          \E r \in backups :
             r.id = e.row /\ (r.status = "SUCCESS" <=> e.type = "backup_success")
    /\ crashes = 0 =>
          \A r \in backups :
             \/ \E w \in Worker : /\ task[w].row = r.id
                                  /\ task[w].pc \in {"saved", "refreshed"}
             \/ \E e \in events : e.row = r.id

\* Every backup request is answered, unless the process dies.
RequestIsAnswered ==
    \A w \in Worker : task[w].pc = "called" ~> task[w].pc = "idle"

=============================================================================
