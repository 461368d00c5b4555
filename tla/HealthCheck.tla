---------------------------- MODULE HealthCheck ----------------------------
(***************************************************************************)
(* Health checks of NetAutoOps: POST /monitoring/devices/{id}/check runs   *)
(* run_health_check(db, device) in a thread of the server's pool, one      *)
(* SQLAlchemy session per request, against one PostgreSQL database shared  *)
(* with the requests that create and delete devices.                       *)
(*                                                                         *)
(* What the session does is part of the model because the code depends on  *)
(* it: a commit expires every loaded instance, so the next access to       *)
(* device.id is a SELECT that raises when the row is gone; a flush that    *)
(* fails leaves the session unusable until rollback(); and the column      *)
(* default func.now() is the START time of the transaction that inserts.   *)
(***************************************************************************)
EXTENDS Naturals, FiniteSets

CONSTANTS
    Device,       \* device ids the database sequence will hand out
    Supported,    \* those whose vendor has an adapter
    Worker,       \* threads that may run a check
    PasswordSet,  \* settings.device_ssh_password is configured
    MaxRequests,  \* bound: checks requested in one behaviour
    MaxCrashes    \* bound: crashes of the server process

ASSUME ConstantsAssumption ==
    /\ Supported \subseteq Device
    /\ PasswordSet \in BOOLEAN
    /\ MaxRequests \in Nat
    /\ MaxCrashes \in Nat

VARIABLES
    devices,   \* ids present in table devices
    deleted,   \* ids that were in it and were deleted (never reused)
    health,    \* rows of table device_health
    nextId,    \* next value of the device_health id sequence
    clock,     \* database clock: every transaction start takes the next value
    events,    \* events handed to the webhook, each with the row it reports
    check,     \* per worker: where run_health_check stands and its locals
    session,   \* per worker: its SQLAlchemy session
    requests,  \* requests so far (bounded by MaxRequests)
    crashes    \* crashes so far (bounded by MaxCrashes)

database == <<devices, deleted, health, nextId>>
vars == <<devices, deleted, health, nextId, clock, events, check, session,
          requests, crashes>>

Status == {"UP", "DOWN", "ERROR"}
Outage == {"DOWN", "ERROR"}
None == "none"

\* a row: `at` is checked_at; `began` is auxiliary, the id sequence's value
\* when the check was requested: the rows below it were already stored then
Row == [id : Nat, dev : Device, status : Status, at : Nat, began : Nat]

Stage == {"idle", "authenticated", "called", "compared", "probed", "saved",
          "refreshed", "loaded", "returned", "raised"}

Check == [pc : Stage, dev : Device \cup {None}, began : Nat,
          prev : Status \cup {None}, found : Status \cup {None}, row : Nat]

\* loaded: devices whose attributes are held, not expired; at: start time of
\* the open transaction; broken: a flush failed and nothing rolled back
Session == [loaded : SUBSET Device, at : Nat, broken : BOOLEAN]

NoCheck == [pc |-> "idle", dev |-> None, began |-> 0, prev |-> None,
            found |-> None, row |-> 0]
NoSession == [loaded |-> {}, at |-> 0, broken |-> FALSE]

EventType == {"device_down", "health_check_failed", "device_recovered"}
Event == [type : EventType, dev : Device, row : Nat]

HealthOf(d) == {r \in health : r.dev = d}

\* mutant: the descending order is forgotten
Newer_Ascending(r, q) == r.at < q.at \/ (r.at = q.at /\ r.id < q.id)

\* ORDER BY checked_at DESC, id DESC
Newer(r, q) == r.at > q.at \/ (r.at = q.at /\ r.id > q.id)

\* r is what get_health_history(limit=1) and get_fleet_health return
IsLatest(r) == \A q \in HealthOf(r.dev) : ~Newer(q, r)

----------------------------------------------------------------------------
(* Sessions *)

\* the first statement after a commit opens a transaction
BeginTransaction(w, loaded) ==
    /\ clock' = clock + 1
    /\ session' = [session EXCEPT ![w].loaded = loaded, ![w].at = clock + 1]

Goto(w, stage) == check' = [check EXCEPT ![w].pc = stage]

\* reading an attribute of device d through w's session does not raise
Readable(w, d) ==
    d \in session[w].loaded \/ (~session[w].broken /\ d \in devices)

----------------------------------------------------------------------------
(* The request: authentication, lookup, answer *)

\* require_operator reads the user: the request's transaction starts here
Authenticate(w, d) ==
    /\ check[w].pc = "idle"
    /\ requests < MaxRequests
    /\ requests' = requests + 1
    /\ BeginTransaction(w, {})
    /\ check' = [check EXCEPT ![w] = [NoCheck EXCEPT
                    !.pc = "authenticated", !.dev = d, !.began = nextId]]
    /\ UNCHANGED <<database, events, crashes>>

\* mutant: no 404, the check is called with whatever db.get returned
GetDevice_NoCheck(w) ==
    /\ check[w].pc = "authenticated"
    /\ session' = [session EXCEPT ![w].loaded = {check[w].dev} \cap devices]
    /\ Goto(w, "called")
    /\ UNCHANGED <<database, clock, events, requests, crashes>>

\* get_device, or 404
GetDevice(w) ==
    /\ check[w].pc = "authenticated"
    /\ \/ /\ check[w].dev \in devices
          /\ session' = [session EXCEPT ![w].loaded = {check[w].dev}]
          /\ Goto(w, "called")
       \/ /\ check[w].dev \notin devices
          /\ session' = [session EXCEPT ![w] = NoSession]
          /\ check' = [check EXCEPT ![w] = NoCheck]
    /\ UNCHANGED <<database, clock, events, requests, crashes>>

\* mutant: nothing answers for an exception
Respond_OnlyReturned(w) ==
    /\ check[w].pc = "returned"
    /\ session' = [session EXCEPT ![w] = NoSession]
    /\ check' = [check EXCEPT ![w] = NoCheck]
    /\ UNCHANGED <<database, clock, events, requests, crashes>>

\* 201 with the record, or 500; get_db closes the session
Respond(w) ==
    /\ check[w].pc \in {"returned", "raised"}
    /\ session' = [session EXCEPT ![w] = NoSession]
    /\ check' = [check EXCEPT ![w] = NoCheck]
    /\ UNCHANGED <<database, clock, events, requests, crashes>>

----------------------------------------------------------------------------
(* run_health_check *)

\* the access raises: ObjectDeletedError, or PendingRollbackError
Raise(w) == Goto(w, "raised") /\ UNCHANGED <<clock, session>>

\* device.id in the first log line, then the newest stored record
ReadPrevious(w) ==
    /\ check[w].pc = "called"
    /\ LET d == check[w].dev IN
       \/ /\ ~Readable(w, d)
          /\ Raise(w)
       \/ /\ Readable(w, d)
          /\ session' = [session EXCEPT ![w].loaded = @ \cup {d}]
          /\ \/ /\ HealthOf(d) = {}
                /\ Goto(w, "compared")
             \/ \E r \in HealthOf(d) :
                   /\ IsLatest(r)
                   /\ check' = [check EXCEPT ![w].pc = "compared",
                                             ![w].prev = r.status]
          /\ UNCHANGED clock
    /\ UNCHANGED <<database, events, requests, crashes>>

\* adapter, TCP handshake, credentials, SSH: the first that fails decides
ProbeResults(d) ==
    IF d \notin Supported THEN {"ERROR"}
    ELSE {"DOWN", "ERROR"} \cup (IF PasswordSet THEN {"UP"} ELSE {})

Probe(w) ==
    /\ check[w].pc = "compared"
    /\ \E result \in ProbeResults(check[w].dev) :
          check' = [check EXCEPT ![w].pc = "probed", ![w].found = result]
    /\ UNCHANGED <<database, clock, events, session, requests, crashes>>

\* _save: INSERT and COMMIT. The foreign key refuses a deleted device, and
\* nobody rolls back; either way every loaded instance expires
Save(w) ==
    /\ check[w].pc = "probed"
    /\ LET d == check[w].dev IN
       \/ /\ d \in devices
          /\ health' = health \cup
                {[id |-> nextId, dev |-> d, status |-> check[w].found,
                  at |-> session[w].at, began |-> check[w].began]}
          /\ check' = [check EXCEPT ![w].pc = "saved", ![w].row = nextId]
          /\ session' = [session EXCEPT ![w].loaded = {}]
       \/ /\ d \notin devices
          /\ session' = [session EXCEPT ![w].loaded = {}, ![w].broken = TRUE]
          /\ Goto(w, "raised")
          /\ UNCHANGED health
    /\ nextId' = nextId + 1
    /\ UNCHANGED <<devices, deleted, clock, events, requests, crashes>>

RowExists(i) == \E r \in health : r.id = i

\* db.refresh(record) opens the next transaction; the cascade may have
\* removed the record
RefreshRecord(w) ==
    /\ check[w].pc = "saved"
    /\ BeginTransaction(w, {})
    /\ Goto(w, IF RowExists(check[w].row) THEN "refreshed" ELSE "raised")
    /\ UNCHANGED <<database, events, requests, crashes>>

\* device.id in the last log line reloads the expired device
ReloadDevice(w) ==
    /\ check[w].pc = "refreshed"
    /\ LET d == check[w].dev IN
       \/ /\ Readable(w, d)
          /\ session' = [session EXCEPT ![w].loaded = @ \cup {d}]
          /\ Goto(w, "loaded")
          /\ UNCHANGED clock
       \/ /\ ~Readable(w, d)
          /\ Raise(w)
    /\ UNCHANGED <<database, events, requests, crashes>>

\* mutants: the branch for ERROR is missing; every UP is a recovery
EventsFor_NoError(prev, status) ==
    CASE status = "DOWN" -> {"device_down"}
      [] status = "UP" /\ prev \in Outage -> {"device_recovered"}
      [] OTHER -> {}
EventsFor_EveryUp(prev, status) ==
    CASE status = "DOWN"  -> {"device_down"}
      [] status = "ERROR" -> {"health_check_failed"}
      [] status = "UP"    -> {"device_recovered"}

\* _dispatch_health_event: what a status, after a previous one, is reported as
EventsFor(prev, status) ==
    CASE status = "DOWN"  -> {"device_down"}
      [] status = "ERROR" -> {"health_check_failed"}
      [] status = "UP"    -> IF prev \in Outage THEN {"device_recovered"}
                                                ELSE {}

\* mutant: the event may be sent before the record is committed
DispatchEvent_BeforeCommit(w) ==
    /\ check[w].pc \in {"probed", "loaded"}
    /\ events' = events \cup
          {[type |-> t, dev |-> check[w].dev, row |-> nextId] :
              t \in EventsFor(check[w].prev, check[w].found)}
    /\ Goto(w, "returned")
    /\ UNCHANGED <<database, clock, session, requests, crashes>>

DispatchEvent(w) ==
    /\ check[w].pc = "loaded"
    /\ events' = events \cup
          {[type |-> t, dev |-> check[w].dev, row |-> check[w].row] :
              t \in EventsFor(check[w].prev, check[w].found)}
    /\ Goto(w, "returned")
    /\ UNCHANGED <<database, clock, session, requests, crashes>>

----------------------------------------------------------------------------
(* The rest of the system *)

\* mutant: the id of a deleted device is handed out again
CreateDevice_ReusesIds(d) ==
    /\ d \notin devices
    /\ devices' = devices \cup {d}
    /\ UNCHANGED <<deleted, health, nextId, clock, events, check, session,
                   requests, crashes>>

CreateDevice(d) ==
    /\ d \notin devices \cup deleted
    /\ devices' = devices \cup {d}
    /\ UNCHANGED <<deleted, health, nextId, clock, events, check, session,
                   requests, crashes>>

\* delete_device: ON DELETE CASCADE takes the device's rows along
DeleteDevice(d) ==
    /\ d \in devices
    /\ devices' = devices \ {d}
    /\ deleted' = deleted \cup {d}
    /\ health' = health \ HealthOf(d)
    /\ UNCHANGED <<nextId, clock, events, check, session, requests, crashes>>

\* the server process dies: threads and sessions go, the database stays
Crash ==
    /\ crashes < MaxCrashes
    /\ crashes' = crashes + 1
    /\ check' = [w \in Worker |-> NoCheck]
    /\ session' = [w \in Worker |-> NoSession]
    /\ UNCHANGED <<database, clock, events, requests>>

----------------------------------------------------------------------------
Init ==
    /\ devices = {}
    /\ deleted = {}
    /\ health = {}
    /\ nextId = 1
    /\ clock = 0
    /\ events = {}
    /\ check = [w \in Worker |-> NoCheck]
    /\ session = [w \in Worker |-> NoSession]
    /\ requests = 0
    /\ crashes = 0

\* the steps of run_health_check itself, whoever called it
CheckStep(w) ==
    \/ ReadPrevious(w)
    \/ Probe(w)
    \/ Save(w)
    \/ RefreshRecord(w)
    \/ ReloadDevice(w)
    \/ DispatchEvent(w)

\* a thread goes on once the request has reached it
RequestStep(w) == GetDevice(w) \/ CheckStep(w) \/ Respond(w)

Environment ==
    \/ \E d \in Device : CreateDevice(d) \/ DeleteDevice(d)
    \/ Crash

Next ==
    \/ \E w \in Worker : RequestStep(w) \/ \E d \in Device : Authenticate(w, d)
    \/ Environment

\* every external call of a check has a timeout, so a started one goes on
Fairness == \A w \in Worker : WF_vars(RequestStep(w))

Spec == Init /\ [][Next]_vars /\ Fairness

----------------------------------------------------------------------------
(* Properties *)

TypeOK ==
    /\ devices \subseteq Device
    /\ deleted \subseteq Device
    /\ devices \cap deleted = {}
    /\ health \subseteq Row
    /\ nextId \in Nat
    /\ clock \in Nat
    /\ events \subseteq Event
    /\ check \in [Worker -> Check]
    /\ session \in [Worker -> Session]
    /\ requests \in Nat
    /\ crashes \in Nat

\* A check raises only for a device that was deleted while it ran: no other
\* interleaving of checks, commits and expired attributes makes it fail.
RaisesOnlyIfDeleted ==
    \A w \in Worker : check[w].pc = "raised" => check[w].dev \in deleted

RecordOf(d, i, status) == \E r \in HealthOf(d) : r.id = i /\ r.status = status

StatusOf(type) ==
    CASE type = "device_down"         -> "DOWN"
      [] type = "health_check_failed" -> "ERROR"
      [] type = "device_recovered"    -> "UP"

\* Every event reports a stored record of its own device, with the status the
\* event's type stands for, as long as the device exists ("no chance of an
\* event firing without a corresponding database record").
EventHasRecord ==
    \A e \in events :
        e.dev \in deleted \/ RecordOf(e.dev, e.row, StatusOf(e.type))

\* Nothing that was stored before a check was requested can be shown by
\* get_fleet_health in place of that check's own record.
LatestIsFresh ==
    \A r, s \in health :
        r.dev = s.dev /\ IsLatest(r) => s.began <= r.id

\* a worker still has to dispatch for row i
Handling(i) ==
    \E w \in Worker : /\ check[w].row = i
                      /\ check[w].pc \in {"saved", "refreshed", "loaded"}

Reported(i, types) == \E e \in events : e.row = i /\ e.type \in types

\* "or vice versa": once its check is over, a record of an outage has its
\* event. Only a crash between COMMIT and dispatch can keep it from being sent.
OutageIsReported ==
    crashes = 0 => \A r \in health : r.status \in Outage =>
        Handling(r.id) \/ Reported(r.id, {"device_down", "health_check_failed"})

\* the newest of the rows that were stored when r's check was requested
Precedes(p, r) ==
    LET before == {q \in HealthOf(r.dev) : q.id < r.began}
    IN  p \in before /\ \A q \in before : ~Newer(q, p)

\* Unless the process died, a successful check that no other check of its
\* device was stored during reports a recovery exactly when the record before
\* it was an outage ("only on the transition"), and never a second time.
\* Without the exception two overlapping checks refute it.
RecoveryIffTransition ==
    crashes = 0 => \A r \in health :
        \/ r.status # "UP"
        \/ Handling(r.id)
        \/ \E q \in HealthOf(r.dev) : q.id >= r.began /\ q.id < r.id
        \/ Reported(r.id, {"device_recovered"}) <=>
              \E p \in HealthOf(r.dev) : Precedes(p, r) /\ p.status \in Outage

\* Every request that got past authentication is answered.
RequestIsAnswered ==
    \A w \in Worker : check[w].pc = "authenticated" ~> check[w].pc = "idle"

=============================================================================
