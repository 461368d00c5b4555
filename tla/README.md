# NetAutoOps: specifications, model checking and proofs

NetAutoOps is a FastAPI server that watches network devices: it keeps an
inventory, checks every device's health, backs up configurations, collects
interface states, and reports what it finds to n8n through a webhook. Checks are
started by HTTP requests (each in a thread of the server's pool) and by a
scheduler (a thread per running job), and all of them share one PostgreSQL
database, one backup directory and one webhook.

The modules here describe the parts of that program whose correctness depends on
the order in which several actors take their steps. Paths below are relative to
the repository; "map" in `PROJECT.json` names the lines behind every definition.

## The system

| Component | State it keeps | Operations | Uses |
|---|---|---|---|
| Device inventory (`app/services/device_service.py`, `app/models/device.py`) | table `devices` | create, get, list, update, delete | deletion cascades into every other device table |
| Health checks (`app/services/monitoring_service.py`) | table `device_health` | check a device, history, fleet status | vendor adapters, event delivery |
| Configuration backups (`app/services/backup_service.py`, `app/backup/storage.py`) | table `device_backups`, files under `backups/` | back up a device, history, read | vendor adapters, event delivery |
| Interface monitoring (`app/services/interface_service.py`) | table `device_interfaces` | check a device, latest snapshot, filters | vendor adapters, event delivery |
| Event delivery (`app/alerts/`) | none | `dispatch_event`, `deliver_event`, `send_webhook` | n8n over HTTP |
| Alarms (`app/services/alarm_service.py`) | none | list active problems | health checks, interfaces |
| Scheduled jobs (`app/scheduler/jobs.py`) | one session per run | fan a check out over all devices | health, backup, interface checks |
| Scheduler lifecycle (`app/scheduler/scheduler.py`, `app/main.py`) | the global `_scheduler` | start, stop, status | APScheduler, jobs |
| Accounts (`app/services/user_service.py`, `app/api/auth.py`, `app/api/deps.py`) | table `users` | register, log in, change role, deactivate; authorise a request | |
| Vendor adapters (`app/monitoring/`) | none | TCP probe, SSH commands, parsers | Netmiko |
| Frontend (`frontend/src`) | token, current user, query cache | log in, log out, pages | the HTTP API |

How they interact:

* A request is authorised (`get_current_user` reads the user, which opens the
  request's transaction), looks its device up and calls the service function in
  the same thread and the same SQLAlchemy session. A job calls the same function
  for every device in turn, in **one** session.
* A service function probes the device for seconds with its transaction open, stores
  one record, commits, and only then hands its events to `deliver_event`, which
  POSTs them in the caller's thread.
* Deleting a device removes its rows by `ON DELETE CASCADE`, also while a check
  of it runs in another thread.

Three facts of SQLAlchemy and PostgreSQL that the code relies on, or trips over, are part
of the models: a commit expires every object of the session, so that the next
access to `device.id` is a query that raises when the row is gone; a flush that
failed leaves the session unusable until `rollback()`; and `func.now()`, the
default of `checked_at`, is the *start* of the transaction that inserts.

### What is hard, and what makes each component correct

* **Health checks**: overlapping checks of one device, deletion during a check, a
  crash between commit and event. Correct: a check fails only because its device
  is gone; every event has its record and every outage its event; a recovery is
  reported exactly on the transition; "latest" is really the latest.
* **Jobs**: one device's failure must stay its own. Correct: the job ends, counts
  every device, and leaves a record of each device that still exists.
* **Event delivery**: timeouts that do not recall what was sent. Correct: TRUE
  means n8n acted; nothing is posted after an answer; the call ends.
* **Backups**: file first, row second, names with the resolution of a second.
  Correct: a success row's file holds what that run fetched; a file without a row
  has a reason; records and events agree.
* **Interfaces, alarms**: "latest per name" over history, derived from several
  queries and cut off at a limit. Correct: what is shown as active was observed as
  such, once, and no older problem crowds one out.
* **Inventory, accounts**: check-then-act against unique constraints, rows that
  change after they were loaded. Correct: no two devices with one address, no two
  accounts with one e-mail address; a refusal has its reason; overlapping updates
  keep each other's fields; only those entitled change anything.
* **Scheduler lifecycle**: a process-wide variable used from several threads.
  Correct: at most one scheduler fires jobs and it can always be stopped; a
  status answer is coherent; every job recurs.
* **Vendor adapters**: a device that stops in the middle of its answer, commands
  that fail one by one, headers no pattern knows. Correct: what is parsed was
  printed, of the right port, in full; a failure is named for what failed; the
  session is closed.
* **Frontend session**: four kinds of calls whose answers arrive in any order.
  Correct, as long as no login is submitted while another call is in flight: the
  user shown owns the token used, and a token is dropped only for an answer to
  itself or to a refused login. In any case a session ends once its token is refused.

`PROJECT.json` lists the hazards one by one, at their lines, with the properties
that cover them.

## The modules

| Module | Models | Notes |
|---|---|---|
| `HealthCheck` | a health check as requested over HTTP | database, sessions, checks and their environment |
| `HealthJob` | the scheduled health job | EXTENDS `HealthCheck`; job and requests run side by side |
| `Webhook` | `deliver_event` and `send_webhook` | against n8n and a network that loses and delays |
| `EventDelivery` | what `deliver_event` promises | abstract; `Webhook` implements it |
| `Backup` | a backup request, its file and its row | |
| `Interfaces` | an interface check: many rows, one transaction, events looked up afterwards | |
| `Alarms` | the list of active problems | EXTENDS `Interfaces`; list and checks run side by side |
| `Accounts` | registration, changes of accounts, the authorisation of every request | |
| `Inventory` | creation, update and deletion of devices | EXTENDS `Accounts`; requests of both kinds share the threads |
| `SchedulerLifecycle` | start, stop and status of the scheduler, and its firing of jobs | |
| `Collection` | an SSH session with a device, and the parsers | |
| `WebSession` | the frontend's session in one browser tab | |
| `HealthCheckProofs`, `WebhookProofs`, `BackupProofs`, `AlarmProofs`, `InventoryProofs`, `SchedulerProofs`, `CollectionProofs`, `WebSessionProofs` | theorems and their proofs | each EXTENDS its component's module and TLAPS; `HealthCheckProofs` EXTENDS `HealthJob` and is about both, `AlarmProofs` EXTENDS `Alarms` and is about `Interfaces` too |
| `MCHealthCheck`, `MCHealthJob`, `MCWebhook`, `MCBackup`, `MCAlarms`, `MCInventory`, `MCSchedulerLifecycle`, `MCCollection`, `MCWebSession` | small instances for TLC | |

### HealthCheck

`devices`, `health` and `nextId` are the tables and the id sequence; `deleted`
remembers ids that were used (a sequence never hands one out twice). `clock` is
the database clock, one tick per transaction start. `check[w]` holds where the
thread's `run_health_check` stands and its locals (`prev` is `previous_status`,
`found` the new status, `row` the stored record), `session[w]` what its session
has loaded, when its transaction started and whether a flush failed. `events`
are the events handed to `dispatch_event`, each with the row it reports.

One action is one stretch of the function between two points where another
thread's commit can matter:

| Action | Code |
|---|---|
| `Authenticate`, `GetDevice` | `require_operator`; `get_device`, or 404 |
| `ReadPrevious` | the first log line (reads `device.id`), `get_health_history(limit=1)` |
| `Probe` | adapter, TCP handshake, credentials, SSH commands: the first that fails decides the status |
| `Save` | `_save`: INSERT and COMMIT, refused by the foreign key when the device is gone |
| `RefreshRecord`, `ReloadDevice` | `db.refresh(record)`; `device.id` in the log line after the commit |
| `DispatchEvent` | `_dispatch_health_event` |
| `Respond` | 201 or 500; `get_db` closes the session |
| `CreateDevice`, `DeleteDevice`, `Crash` | other requests; the process dies and its threads with it |

`began` (the id sequence's value when a check was requested) is auxiliary: no code
keeps it, properties use it to say which records were already stored then.

### HealthJob

`_run_for_all_devices` with `run_health_check` as its body, in the scheduler's
thread (`max_instances=1`, so there is one). `StartJob` is the inventory query,
`NextDevice` the loop head, then the steps of `HealthCheck` on the job's session,
then `CountResult` or `CountFailure`. `CountFailure` is the `except` block
including its log line, which reads `device.id` and may raise out of the loop.

### Webhook and EventDelivery

Each element of `Delivery` is a call of `deliver_event`. `pc`, `attempt`, `slept`
and `reply` are the loop's state; `flight` and `taken` are the network's and n8n's.
A timeout (`NoAnswer`) leaves the post in `flight`, to be handled or lost later.
`EventDelivery` knows only what callers and n8n know: a call may be confirmed
once at least one copy was taken, may give up at any time, and n8n takes at most
`MaxCopies` copies, before or after. Payloads, the masking of URLs in logs and
the status code itself (beyond success / rejection / server error) are left out.
A redirect counts as a rejection, as in the code (status at least 300 and below 500).

### Backup

`files` maps a path (slugs and second) to what is on disk, `backups` is the table.
`OpenFile` and `WriteFile` are the two moments of `write_text`, `Save` stores the
row. Two runs may hold the same path. Content is `empty`, `partial`, `whole` or
`mixed` and names the run that wrote last; what the text says does not matter.
`targeted` and `broken` are auxiliary. The wall clock is `second`. Sessions are
reduced to the two places where they can raise (`Save`, `Reload`), since a
request's session serves one backup; the scheduled backup job, whose session does
not, is in the plan. Text received from a device is taken to be encodable, so that
writing can fail with an `OSError` only.

### Interfaces and Alarms

`rows` is the table; the rows of one check share the check's number as their `id`,
since only rows of one name are ever ordered or told apart. `check[w]` stands for
the locals of `run_interface_check`: `seen` is what the parser returned (a function
from the names found to their states), `todo` the rows `_dispatch_interface_events`
has yet to look at. `Collect` is everything before the database, `Save` is `add_all` and
COMMIT with its handler, `Reload` the refreshes and the log line after it,
`DispatchEvents` one pass of the events' loop with its query. The parsers
normalise states to `up` and `down`, and report a name once; counters are reduced to
"some errors". `began` and `handled` are auxiliary: they say which rows were stored
between the request and the dispatch. `clock` ticks with the transaction a request
begins with, which is the one that dates its rows; those a check opens after its commit
date nothing.

`Alarms` adds the locals of one request for `GET /alarms`: the pass it is in (latest
health, interfaces that are down, interfaces with errors), the devices the pass has yet
to query, and the entries so far. Every query sees what has been committed by then
(PostgreSQL's default isolation). `AnswerAlarms` is the sort and `alarms[:limit]`:
`MostRecent` is the set of answers they may come to, the entries themselves when they fit
the limit, else as many as it allows of which none is older than one left out. (Python's
sort keeps equally old entries in the order they were found, devices by id; the model lets
either go first, and leaves out the order within the answer.)
Of health checks only the latest status of each device and its date
are kept (`health`): `StoreHealth` is another thread's check storing its record,
dated by a transaction that began at some time up to now but not before the one of the
record it follows (else it would not be the latest),
`Cascade` what a deletion does to the records. `steady` and `quiet` are
auxiliary and watch the checks' steps.

### Accounts and Inventory

`users` is a function from the usernames registered, `devices` one from the ids in use.
`request[w]` is the request a thread runs: the caller its token names, its body, what its queries
have answered (`sawEmpty`), the row its session loaded (`loaded`) and the reply. One
action is one query, or one commit; between two of them other requests commit.

| Action | Code |
|---|---|
| `Arrive`, `Authenticate` | the token; `get_current_user`, `get_optional_current_user`, `require_role` |
| `CheckBootstrap`, `FindUsername`, `FindEmail`, `InsertUser` | `register` and `create_user`, query by query |
| `GetUser`, `CommitPatch` | `update_user`: the row is loaded, then the columns set to something else are written |
| `FindExisting`, `InsertDevice`, `RefreshDevice` | `create_device` |
| `GetDevice`, `CheckAddress`, `CommitUpdate` | `update_device`, then `RefreshDevice` |
| `CommitDelete` | `delete_device` |

Three more facts of SQLAlchemy matter here: a flush writes only the columns whose
value differs from what was *loaded*; a query that finds a row the session already
holds does not refresh it (the caller's own, loaded by the authorisation); and an
UPDATE that meets no row raises while a DELETE that meets none only warns. The
other columns of `devices` behave like `status`; an explicit null is `Null`, which
every column but the description refuses. Logging in reads only, and is left out.
`rights` and `early` are auxiliary: the roles a caller held since its request
arrived, and whether there was no account then.

### SchedulerLifecycle

Schedulers are numbered as they are created. `scheduler` is the global, `state` and
`run` are APScheduler's; `lifespan` is where the one thread that starts and stops
stands. `start_scheduler` is three actions (created with its jobs, started,
assigned to the global), `stop_scheduler` two (shut down without waiting, global
cleared), a status request four: the endpoint's `get_scheduler()`, the test and the
second read in `get_job_status`, and `scheduler.running`. A run that is in progress
when its scheduler stops goes on, and ends. The code calls `start_scheduler` and
`stop_scheduler` from the lifespan only, so they are never concurrent with each
other, as in the model; the reads are.

### Collection

One call of `collect_raw_outputs`, `fetch_running_config` or
`fetch_interfaces_raw`: adapter lookup and TCP probe (`Call`, `Probe`), connecting (`Open`),
one command after the other (`Prompt` when the device has finished its answer,
`ReadFails` when the read times out or the session is gone), leaving the `with`
block (`Close`, which may raise as well and then replaces what was raised), parsing
(`Parse`). Meanwhile the device prints its interfaces a line at a time
(`PrintHeader`, `PrintField`) and may go away for good (`Drop`). The exceptions
are those `_open_connection` tells apart.

The parsers are operators on lines. A line says which port it is about and which
pattern it matches: a header with its two words, a description (perhaps blank) or
another field. `BlockEnd` and `FieldLine` are the search of the Cisco and Huawei
parsers, first match in the text up to the next *recognised* header, and for a Huawei
duplex or speed the first match of a second pattern when the first pattern matches nowhere in the
block (`"alt speed"`, `100M-speed` beside `Speed : 1000`); Nokia's rows have no fields. Recognised headers are those whose words the pattern admits;
`Dialer0 is up (spoofing), line protocol is up (spoofing)` is one it does not, and its
lines belong, for the parser, to the interface before it. `OwnValuesWin` says how far
this can go: such lines fill fields the interface did not print and replace a
value it printed in the second style, never one it printed in the first; and a value
never comes from a port that has a row of its own. `RowsMatchPorts` is the reference: with only recognised headers and no
blank descriptions the rows are exactly what the device printed. The CPU, memory
and version patterns are reduced to their outcomes (no match, a value, a
total of zero).

### WebSession

`token` is the token in `tokenRef` and in `localStorage`, which always change
together; `user` and `status` are what the pages see. `call` has one slot per call
that may be in flight: the load check, the login form (`POST /auth/login`, then
`GET /auth/me`), and the pages'. A call takes the token of the moment it is sent.
`Serve` and `Fail` are the server and the network, `Revoke` is expiry or
deactivation; `Reload` loses everything but `localStorage`. `overlap` is auxiliary:
since the page was loaded, a login was submitted while another call was in flight.
`Submit` keeps one login in flight at a time. A login page that is left and opened again while its
login is in flight starts with an enabled form and could send another; this is left
out, and would be an overlap as well. `SessionEndsByItself` has no exception
for overlaps but says less about them: a token is dropped by logout, by a 401 or by a failed
load check, and without an overlap the 401 was to a call made with that token or
to a login while no session was shown. The last is real: the login is accepted and its token
stored, `GET /auth/me` fails, the password is mistyped on the next try, and
`client.ts:64` drops the stored token.

## The runs

All configurations set `CHECK_DEADLOCK FALSE`: the number of requests, jobs and
crashes is bounded, so the model stops when they are used up (the server itself
just becomes idle). Liveness is stated by properties instead.

| Run | Bounds | Shows |
|---|---|---|
| `HealthSafety` | 2 devices (1 supported), 2 threads, 3 requests, 1 crash | `RaisesOnlyIfDeleted`, `EventHasRecord`, `LatestIsFresh`, `OutageIsReported`, `RecoveryIffTransition` (the last two until a crash) |
| `JobSafety` | 2 devices (1 supported), job and 1 request, 1 crash, no password | `JobTypeOK`, `JobAbortsOnlyIfDeleted`, `JobAccountsForFleet` (each device counted once; a completed job leaves a record of each that still exists), `JobAndRequestsEnd` |
| `JobAborts` | 2 devices, 1 job | **violated**: `JobNeverAborts` |
| `JobStale` | 2 devices, job and 1 request | **violated**: `LatestIsFresh` |
| `WebhookDelivery` | 2 calls, 3 attempts | `BackoffIsLinear`, `NoPostAfterAnswer`, `ImplementsEventDelivery`, `CallEnds` |
| `BackupSafety` | 2 devices with equal slugs, 2 threads, 2 requests, 2 seconds, 1 crash | `SuccessHasItsFile`, `FileIsAccountedFor`, `RaisesOnlyIfDeleted`, `RecordsMatchEvents`, `RequestIsAnswered` |
| `BackupPartialFile` | 1 device, 1 request | **violated**: `FailureLeavesNoFile` |
| `AlarmSafety` | 1 device, 1 interface, 2 threads, 2 checks, 1 health check, 1 list of at most 1 or 2 entries, 1 crash | `AlarmTypeOK`, `RaisesOnlyIfDeleted`, `RowsAreReported`, `RecoveryIffTransition`, `QuietListIsExact`, `SteadyDownIsListed` |
| `InventorySafety` | 2 usernames, 2 addresses of each kind, 0 to 2 accounts and 1 or 2 devices at the start, 2 threads, 2 requests | `RaisesOnlyIfDeleted`, `ConflictHasReason`, `OnlyTheEntitledChange` (accounts by administrators, devices by operators), `UpdatesKeepOtherFields` (of devices and of accounts) |
| `SchedulerSafety` | 2 starts, 2 jobs, 2 readers, 2 status requests | `OneScheduler` (`NoOrphanScheduler`, `AtMostOneRunning`), `StatusIsCoherent` (`RunningShowsJobs`, `StatusRaisesOnlyIfStopped`), `JobsRecur` |
| `SessionSafety` | 3 tokens of 2 accounts, 1 polling page, 1 reload | `ShownUserOwnsToken`, `SessionEndsByItself`, `WaitsEnd` (the spinner's and the form's), `RevokedSessionEnds` |
| `CollectionSafety` | any function and vendor, 6 lines, both styles of a speed | `OwnValuesWin`, `RowsMatchPorts`, `NoPartialTable`, `FailureIsNamed` (`OneFailureKeepsTheRest`, `CommandErrorIsKept`), `CallEnds` |

The type invariants of the modules with a proof module are not listed: they are
part of the proved invariants, for every value of the constants. So are
`TrueMeansTaken`, `EmailsAreUnique`, `AddressesAreUnique` and `SessionIsClosed`.

Why these bounds are enough: the hazards of a check involve at most two checks of
one device at a time, a record before them and a deletion, hence three requests
in two threads; a second device separates "this device" from "some device", and
one device without an adapter exercises the early return. The job needs two
devices for one to spoil the session for the next; without a password its
checks end DOWN or ERROR, which it counts as a success and as a failure, so UP would only
add states. Three attempts give a first, a
middle and a last one, so that copies can arrive in every order around retries;
calls share nothing, a second one checks just that. Two backups are enough to
collide, in one second or not. Interfaces of different names
share nothing but their transaction and devices nothing but the list, so one of
each, with two checks that overlap in every way, shows what can happen to one; two
names (one thread) and two devices (one thread, no crash) were checked as well while
the module was written. A limit of 1 is below what can be wrong with one device
and its interface, 2 is not, so a list is cut in the one case and complete in the other. One crash is enough because nothing is
remembered across it but the database and the disk. Symmetry is used only in
`HealthSafety`, `AlarmSafety` and `InventorySafety`, over the interchangeable threads, where only
invariants and properties of single steps are checked, all symmetric in the threads.

A race in the inventory is between two requests; started from tables that are
empty, filled or full, two requests meet each other in every order of their
queries, and what a third could add (a row created or deleted in between) is there
at the start instead. Two starts give a restart over a job that is still running
and a status request across it. Three tokens of two accounts give a session, a
second one of the same user and one of another; the page polls, so calls of every
session are in flight. Six lines make three ports with fields, an unknown header before, between or
after known ones, and a blank description at the end of a block.

### Fairness

Each thread is weakly fair in its own steps (`RequestStep(w)`, `BackupStep(w)`,
`JobStep`, `Call(e)`): TCP probe, SSH session and HTTP POST all carry timeouts
(`tcp_check_timeout`, Netmiko's, `n8n_webhook_timeout`), and a database statement is
taken to return. httpx's timeout is per operation, so a server that sends a byte now
and then could hold a call for longer than the configured value; the model takes
the wait to end all the same. No fairness is assumed of requests being made,
devices being created or deleted, crashes, the scheduler firing, n8n, or the
network. `UnexpectedError` (an exception httpx does not class as a request error)
is not part of what is fair, so `CallEnds` does not lean on it.

`SchedulerLifecycle` takes it that a trigger's interval passes again and again and
that runs end (which `JobAndRequestsEnd` shows for the health job).
`Collection` is fair in its own waits, each of which has a timeout, and not in the device's
answers: `CallEnds` holds for one that never prints. In `WebSession` every call is
answered or fails, the tab handles what has arrived, and the pages poll (React
Query's `refetchInterval` of the landing page); for `RevokedSessionEnds` the
server, asked again and again, is reached at last (strong fairness of `Serve` for
the page's calls). Nothing is assumed of the user.

### What the violations show

The three violating runs are disagreements between the code and its
documentation; `findings` in `PROJECT.json` quotes both sides.

1. `JobAborts`: deleting a device while the job checks it makes `run_health_check`
   raise; the `except` block that is to contain this logs `device.id` and raises
   again. The remaining devices are not checked in this run.
2. `JobStale`: in the job's session the refresh of one device's record opens the
   transaction that dates the next device's record. A request that starts later
   and ends earlier is dated later, although its record is older, and the older result
   is shown as the latest. For requests alone `LatestIsFresh` holds, and is proved.
3. `BackupPartialFile`: a write that fails midway leaves its file.

Further disagreements met while modelling, without a run of their own:

* `README.md:446` reports a recovery "only on the transition": two overlapping
  health checks both read the outage as previous and both report the recovery.
  `RecoveryIffTransition` holds for checks that do not overlap.
* `README.md:706` reports an interface's recovery on its transition: the previous
  row is chosen by date, and dates are those of transactions' starts. Of two
  overlapping checks the one that began first may store its row, down, last;
  nobody's previous row is ever that one, and the recovery is not reported.
* `alarm_service.py:58` means to avoid a duplicate entry: when a check commits
  between the two passes, an interface is listed as down with its old row and
  with errors with its new one.
* `README.md:439` sees no chance of a record without its event, but a crash between
  commit and dispatch loses the event for good (the other half of the sentence, no event without
  its record, is `EventHasRecord`).
* The docstrings of the check functions say "never raises", although a
  deletion makes them raise (`RaisesOnlyIfDeleted` states the exact extent).
* `README.md:421` says a slow n8n cannot slow down an API call, while retries and
  sleeps happen in the caller's thread (`BackoffIsLinear` says by how much).
* `README.md:919` makes the first registration the only open one: two that overlap both find
  no user and both become administrators (`OnlyTheEntitledChange` bounds this to
  requests that arrived while there was no account).
* A registration that loses a race for an e-mail address is answered "username is
  already taken" (`user_service.py:47`, `ConflictHasReason` allows for both).
* An explicit null is answered 409, duplicate address, by `PUT /devices/{id}`
  and 500 by `PATCH /auth/users/{id}`.
* A second deletion that overlaps the first is answered 204, not 404.
* `vendor_adapters.py:86` leaves a field that is not printed at None; it is
  filled from the lines of a following interface whose header is not recognised,
  and a blank description is filled from the next line. On a Huawei device such a foreign
  value even wins over the interface's own: `vendor_adapters.py:151-156` searches the
  whole block for `Duplex:` and `Speed :` before it looks for `full-duplex` and
  `100M-speed` (`OwnValuesWin` bounds this).
* `alarm_service.py:19-20` says the list cannot disagree with what the health endpoints show
  as current; of more problems than the limit (50, or 10 on the dashboard) it leaves out the
  older ones, however long they last (`QuietListIsExact`, `SteadyDownIsListed`).

## Proofs

Proved with TLAPS for every value of the constants (any number of devices,
threads, requests, crashes, calls, attempts, accounts, starts, lines), from
the assumptions each module states about its constants and nothing else. Hardly any
of these properties is inductive; each proof module defines `IInv`, the type
invariant and the facts below, proves that it holds initially and that every action
keeps it (one lemma per action), and draws the properties from it. Actions
that leave the tables alone are dealt with once (`QuietStep` and its like).

**`HealthCheckProofs`** (`ChecksRaiseOnlyIfDeleted`, `EventsHaveRecords`,
`LatestRecordIsFresh`, `OutagesAreReported`, `RecoveriesAreTransitions`, and of the
job `JobsAbortOnlyIfDeleted`, `JobsAccountForTheirFleet`, `JobKeepsPromises`). `IInv`
holds of the requests and beside the job, and adds:

* `RowsInOrder`: ids and dates stay behind `nextId` and `clock`; `NextRowInOrder(w)`
  says the same for the row a thread has yet to store.
* `DeviceIsKnown(w)`: past the lookup, a check's device is in the inventory or was
  deleted. Hence "not in the inventory" means "deleted".
* `RecordIsKnown(w)`: between commit and dispatch the record is in the table with
  the status found, or the device was deleted.
* `RaiseIsExplained(w)`: a session is broken only when its check has raised.

Three invariants are proved on top of it:

* `ReportInv`: the record a thread has stored is its own (`OwnsItsRow`), so that the
  event it goes on to send is that record's.
* `FreshInv`: whatever had been stored when a row's check was requested is dated before
  that row, because the request's transaction, which dates the row, starts after
  `began` was read. This one is about the requests alone: a job keeps one transaction
  from check to check, and `JobStale` shows that freshness fails there.
* `TransitionInv`: as long as no other check of its device has stored anything since
  it was requested, what a check has read as the previous status (`PrevIsRight`)
  is that of the latest record from before the request (`OutageBefore`), because
  the records it read were the ones there then.

For the job, `JobInOrder` says that its fleet is known and finite and that its thread is
idle between jobs and otherwise checks a device of the fleet; `JobCountsAddUp` (a count
of finite sets, by `FiniteSetTheorems`) and `FleetIsCovered` (whatever the loop
has reached and still exists has its record, or its check is under way) give the accounting.
Every step of a system with the job is a step of a check, a step of its environment
or one that leaves records and events alone (`JobStepIsQuiet`), so that `ReportInv`
and `TransitionInv` carry over lemma by lemma: `JobKeepsPromises`.

**`WebhookProofs`** (`DeliveredIsTaken`, `SleepsAddUp`, `AnswersEndPosting`,
`Implementation`). `CallInOrder` says that a call about to post has read no final
answer, that a success it has read is one n8n acted on, and that it sleeps only
if another attempt is left. For the refinement under the mapping `answer` (from
`pc`) and `copies` (`taken`), a call's step confirms, gives up or stutters
(`CallRefines`), and n8n's step takes a copy or stutters (`HandleRefines`).

**`BackupProofs`** (`SuccessesHaveFiles`, `FilesAreAccountedFor`,
`BackupsRaiseOnlyIfDeleted`, `RecordsHaveEvents`). `TaskInv` says what a run's locals
mean at each stage, above all that the file it opened is as it left it, or
shared with another run (`HasFile`); `RunsDiffer` that no two threads work for one request;
`RowInv` and `EventInv` what holds of a stored row and of an event. Until a crash, every path
ever opened has its reason (`Accounted`) and every row its event or a thread about to
send it (`ReportedOrHeld`).

**`AlarmProofs`** (of interface checks `InterfaceChecksRaiseOnlyIfDeleted`,
`StoredRowsAreReported`, `RecoveriesAreTransitions`; of alarm lists
`ListingLeavesChecksAlone`, `QuietListsAreExact`, `SteadyOutagesAreListed`).
`WorkerInOrder(w)` says that the rows a thread is reporting say what its check saw and
that nothing was dispatched yet for the names it has left; `WorkersApart` that no two
threads report the same rows; `DispatchesAreRight` that each dispatch reported a
recovery exactly when the newest other row it found of the name was down, which
is what the code compares with; only for an undisturbed check is that the row
from before it. A list reads the tables and writes none, so `AlarmSpec` implies `Spec` and
everything above holds beside it. `QuietSoFar` says what each pass has put into the list, as
long as nothing is committed, and that the answer is one of its `MostRecent`;
`SteadyIsFound` that a problem which lasts is in the
list, belongs to a device its pass has yet to query or was cut off by a full list
none of whose entries is older. For the last part a problem's date must never decrease
while it lasts (`ProblemsAge`): rows stay as long as their device
(`RowsRemain`), and a record or row that becomes the latest is not dated before the one it
follows. `MostRecentEntries` is all that is used of the cut itself. That no interface is
called by the value that stands for a null (`NameAssumption`) keeps the problems of devices and
of interfaces apart.

**`InventoryProofs`** (`FailuresNeedDeletion`, `ChangesAreEntitled`,
`FieldsAreKept`, `ConflictsHaveReasons`). `ShapeInv` says that a request carries and has
loaded what its next query reads; `RightsInv` that the role a request was let in with is one its
caller held since it arrived, or that there was no account then; `DeviceInv` that an id once found is
never handed out again, so that a device which is gone was deleted. Uniqueness follows
from the constraints alone, whatever the queries before them saw; the three
action properties are proved step by step from `IInv`.

**`SchedulerProofs`** (`AtMostOneScheduler`, `StatusCoherence`). `RunningInv`: only the
newest scheduler can be running, and the global names it, or is about to. `ReaderInv`:
a status request never holds a scheduler that is still being started, so what it
holds runs only while the global still names it; this carries coherence
through its three reads.

**`CollectionProofs`** (`TablesAreWhole`, `FailuresAreNamed`, `SessionsAreClosed`,
`OwnValuesWinAlways`, `RowsMatchThePorts`). `SessionInv` says where the session is open;
`CommandInv` that every command is left, failed or prompted for, and only one of the
three; `ErrorInv` that an exception on its way out of the `with` block is the command's own.
For the rows of a table, `TextInv` adds that a device prints ports in turn, each a header,
then its description, then its speed (`Ordered`), and that every block has an end
(`BlocksEnd`). The latter is a fact about finite sequences that would need
induction over the text; as an invariant of the steps that print the text it needs
none. `BlockIsFound` and `OwnLineIsRead` are about the two searches of the parsers: the
end `CHOOSE` picks is the one there is, and the first match in a block is the port's own line
(`OwnLineIsFirst`); a speed in the block that is not the port's own is one of a port
without a recognised header (`ForeignSpeeds`), which is as far as the second pattern can
lead the parser astray.

**`WebSessionProofs`** (`ShownUserIsTheCaller`, `SessionsEndByThemselves`).
`OverlapInv`: as long as no login overlaps another call, the load check and a login
run alone, the user shown is the token's, and while there is a token every call of the pages in flight was made with it. So
no answer to an earlier session is left when a new one begins, which is why, without an
overlap, a 401 that drops the token was meant for it unless it answers a login form; with an
overlap it need not be, and the theorem does not claim it.

Every invariant and action property of the passing runs is a theorem. Only model-checked:

* liveness under fairness (`RequestIsAnswered`, `JobAndRequestsEnd`, both `CallEnds`,
  `JobsRecur`, `WaitsEnd`, `RevokedSessionEnds`), which is outside what the prover can do;
* what the runs that expect a violation refute (`JobNeverAborts`, freshness under the
  job, `FailureLeavesNoFile`): a counterexample on a small instance is the proof.

## What is not modelled, and the plan

What is left, in this order:

1. **Backup and interface jobs**: the fan-out of `HealthJob` over `Backup` and
   `Interfaces`, whose bodies would then share one session over the fleet.
2. **Order of events**: `HealthCheck` composed with `Webhook`; the recovery of a device may reach
   n8n before its outage, and nothing in the code promises otherwise.
3. **Connection pool**: a check holds a connection while it probes; waiters and
   their timeout as a bounded resource.
4. **Two tabs** that share `localStorage`.

Left out for good: rendering of the frontend pages, request validation and
response layout, passwords and the contents of tokens, the arithmetic of the metric
parsers (pure functions of one line each), logging, settings parsing, and the SSH and HTTP
libraries beyond the outcomes the code distinguishes.
