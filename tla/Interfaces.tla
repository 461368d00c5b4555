----------------------------- MODULE Interfaces -----------------------------
(***************************************************************************)
(* Interface checks of NetAutoOps: run_interface_check stores one row per  *)
(* interface a device reports, all in one transaction, and then looks up   *)
(* each row's predecessor to decide which events to fire.  A failed check  *)
(* stores nothing.  Rows accumulate; the newest per name is the snapshot.  *)
(*                                                                         *)
(* Sessions behave as in HealthCheck; only the places where they can raise *)
(* are kept.  The rows of one check share its number as their id: what     *)
(* orders rows of one name, and tells them apart, is the check.            *)
(***************************************************************************)
EXTENDS Naturals

CONSTANTS
    Device,       \* device ids the database sequence will hand out
    Supported,    \* those whose vendor has an adapter
    Name,         \* interface names
    Worker,       \* threads that may run a check
    PasswordSet,  \* settings.device_ssh_password is configured
    MaxRequests,  \* bound: checks requested
    MaxCrashes    \* bound: crashes of the server process

ASSUME ConstantsAssumption ==
    /\ Supported \subseteq Device
    /\ PasswordSet \in BOOLEAN
    /\ {MaxRequests, MaxCrashes} \subseteq Nat

VARIABLES
    devices,   \* ids present in table devices
    deleted,   \* ids that were deleted (never reused)
    rows,      \* rows of table device_interfaces
    nextId,    \* number of the next check that stores rows
    clock,     \* database clock: the transaction a request begins with takes the
               \* next value; the later ones of a check date nothing
    events,    \* events handed to the webhook
    handled,   \* auxiliary: rows whose events were dispatched, and when
    check,     \* per worker: where run_interface_check stands
    requests,  \* requests so far
    crashes    \* crashes so far

vars == <<devices, deleted, rows, nextId, clock, events, handled,
          check, requests, crashes>>
database == <<devices, deleted, rows, nextId>>

None == "none"

\* what a device reports of an interface
State == [oper : {"up", "down"}, errors : BOOLEAN]
Report == UNION {[names -> State] : names \in SUBSET Name}

\* at is checked_at; began, auxiliary, is nextId when the check was requested
Row == [id : Nat, dev : Device, name : Name, oper : {"up", "down"},
        errors : BOOLEAN, at : Nat, began : Nat]

Stage == {"idle", "called", "parsed", "saved", "reporting", "returned", "raised"}

\* at: start of the session's transaction; todo: rows whose events are due
Check == [pc : Stage, dev : Device \cup {None}, began : Nat, at : Nat,
          seen : Report, row : Nat, todo : SUBSET Name]

NoCheck == [pc |-> "idle", dev |-> None, began |-> 0, at |-> 0,
            seen |-> [name \in {} |-> None], row |-> 0, todo |-> {}]

EventType == {"interface_down", "interface_recovered", "interface_errors_detected"}
Event == [type : EventType, dev : Device, name : Name, row : Nat]

RowsOf(d, name) == {r \in rows : r.dev = d /\ r.name = name}

\* ORDER BY checked_at DESC, id DESC
Newer(r, q) == r.at > q.at \/ (r.at = q.at /\ r.id > q.id)

\* the first of S in that order, if any
Newest(S) == {r \in S : \A q \in S : ~Newer(q, r)}

Goto(w, stage) == check' = [check EXCEPT ![w].pc = stage]

----------------------------------------------------------------------------
\* authentication opens the transaction, get_device finds the device
Request(w, d) ==
    /\ check[w].pc = "idle"
    /\ requests < MaxRequests
    /\ d \in devices
    /\ requests' = requests + 1
    /\ clock' = clock + 1
    /\ check' = [check EXCEPT ![w] = [NoCheck EXCEPT
                    !.pc = "called", !.dev = d, !.began = nextId, !.at = clock + 1]]
    /\ UNCHANGED <<database, events, handled, crashes>>

\* adapter, TCP handshake, credentials, command, parser: if one fails the
\* answer is an error without rows
Collect(w) ==
    /\ check[w].pc = "called"
    /\ \/ Goto(w, "returned")
       \/ /\ check[w].dev \in Supported
          /\ PasswordSet
          /\ \E report \in Report :
                check' = [check EXCEPT ![w].pc = "parsed", ![w].seen = report]
    /\ UNCHANGED <<database, clock, events, handled, requests, crashes>>

RowsFrom(c) ==
    {[id |-> nextId, dev |-> c.dev, name |-> name, oper |-> c.seen[name].oper,
      errors |-> c.seen[name].errors, at |-> c.at, began |-> c.began] :
        name \in DOMAIN c.seen}

\* mutant: no rollback, so that device.id in the handler always raises
Save_NoRollback(w) ==
    /\ check[w].pc = "parsed"
    /\ DOMAIN check[w].seen # {}
    /\ Goto(w, "raised")
    /\ nextId' = nextId + 1
    /\ UNCHANGED <<devices, deleted, rows, clock, events, handled, requests, crashes>>

\* add_all and commit. The database may refuse a value or, for a deleted
\* device, the foreign key; then the handler rolls back, which expires the
\* device, and reads device.id. Without rows there is nothing to refuse.
Save(w) ==
    /\ check[w].pc = "parsed"
    /\ \/ /\ DOMAIN check[w].seen = {} \/ check[w].dev \in devices
          /\ rows' = rows \cup RowsFrom(check[w])
          /\ check' = [check EXCEPT ![w].pc = "saved", ![w].row = nextId,
                                    ![w].todo = DOMAIN check[w].seen]
       \/ /\ DOMAIN check[w].seen # {}
          /\ Goto(w, IF check[w].dev \in devices THEN "returned" ELSE "raised")
          /\ UNCHANGED rows
    /\ nextId' = nextId + 1
    /\ UNCHANGED <<devices, deleted, clock, events, handled, requests, crashes>>

\* refresh of every row, then device.id in the log line: each raises if a
\* deletion came first, the former by way of the handler
Reload(w) ==
    /\ check[w].pc = "saved"
    /\ Goto(w, IF check[w].dev \in devices THEN "reporting" ELSE "raised")
    /\ UNCHANGED <<database, clock, events, handled, requests, crashes>>

\* mutant: a recovery is reported without looking at the previous row
EventsFor_EveryUp(previous, state) ==
    (IF state.oper = "down" THEN {"interface_down"} ELSE {"interface_recovered"})
    \cup (IF state.errors THEN {"interface_errors_detected"} ELSE {})

\* previous: the operational states of the row before, a set of at most one
EventsFor(previous, state) ==
    (IF state.oper = "down" THEN {"interface_down"}
     ELSE IF "down" \in previous THEN {"interface_recovered"} ELSE {})
    \cup (IF state.errors THEN {"interface_errors_detected"} ELSE {})

\* mutant: errors are reported only for interfaces that are up
DispatchEvents_UpOnly(w, name) ==
    /\ check[w].pc = "reporting"
    /\ name \in check[w].todo
    /\ LET d == check[w].dev
           others == {r \in RowsOf(d, name) : r.id # check[w].row}
           state == check[w].seen[name]
           types == EventsFor({r.oper : r \in Newest(others)}, state)
       IN  events' = events \cup
             {[type |-> t, dev |-> d, name |-> name, row |-> check[w].row] :
                 t \in types \ (IF state.oper = "down"
                                THEN {"interface_errors_detected"} ELSE {})}
    /\ handled' = handled \cup {[row |-> check[w].row, name |-> name, next |-> nextId]}
    /\ check' = [check EXCEPT ![w].todo = @ \ {name}]
    /\ UNCHANGED <<database, clock, requests, crashes>>

\* one pass of _dispatch_interface_events' loop: the newest OTHER row of the
\* name, as the database has it now, counts as the previous one
DispatchEvents(w, name) ==
    /\ check[w].pc = "reporting"
    /\ name \in check[w].todo
    /\ LET d == check[w].dev
           others == {r \in RowsOf(d, name) : r.id # check[w].row}
           types == EventsFor({r.oper : r \in Newest(others)}, check[w].seen[name])
       IN  events' = events \cup
             {[type |-> t, dev |-> d, name |-> name, row |-> check[w].row] : t \in types}
    /\ handled' = handled \cup {[row |-> check[w].row, name |-> name, next |-> nextId]}
    /\ check' = [check EXCEPT ![w].todo = @ \ {name}]
    /\ UNCHANGED <<database, clock, requests, crashes>>

\* 201 with the result, or 500
Respond(w) ==
    /\ check[w].pc \in {"returned", "raised"} \/
       (check[w].pc = "reporting" /\ check[w].todo = {})
    /\ check' = [check EXCEPT ![w] = NoCheck]
    /\ UNCHANGED <<database, clock, events, handled, requests, crashes>>

----------------------------------------------------------------------------
(* The rest of the system *)

\* mutant: the id of a deleted device is handed out again
CreateDevice_ReusesIds(d) ==
    /\ d \notin devices
    /\ devices' = devices \cup {d}
    /\ UNCHANGED <<deleted, rows, nextId, clock, events, handled, check,
                   requests, crashes>>

CreateDevice(d) ==
    /\ d \notin devices \cup deleted
    /\ devices' = devices \cup {d}
    /\ UNCHANGED <<deleted, rows, nextId, clock, events, handled, check,
                   requests, crashes>>

\* delete_device: the rows cascade
DeleteDevice(d) ==
    /\ d \in devices
    /\ devices' = devices \ {d}
    /\ deleted' = deleted \cup {d}
    /\ rows' = {r \in rows : r.dev # d}
    /\ UNCHANGED <<nextId, clock, events, handled, check, requests, crashes>>

Crash ==
    /\ crashes < MaxCrashes
    /\ crashes' = crashes + 1
    /\ check' = [w \in Worker |-> NoCheck]
    /\ UNCHANGED <<database, clock, events, handled, requests>>

----------------------------------------------------------------------------
Init ==
    /\ devices = {}
    /\ deleted = {}
    /\ rows = {}
    /\ nextId = 1
    /\ clock = 0
    /\ events = {}
    /\ handled = {}
    /\ check = [w \in Worker |-> NoCheck]
    /\ requests = 0
    /\ crashes = 0

CheckStep(w) ==
    \/ Collect(w)
    \/ Save(w)
    \/ Reload(w)
    \/ \E name \in Name : DispatchEvents(w, name)
    \/ Respond(w)

Next ==
    \/ \E w \in Worker : CheckStep(w) \/ \E d \in Device : Request(w, d)
    \/ \E d \in Device : CreateDevice(d) \/ DeleteDevice(d)
    \/ Crash

Spec == Init /\ [][Next]_vars

----------------------------------------------------------------------------
(* Properties *)

TypeOK ==
    /\ devices \subseteq Device
    /\ deleted \subseteq Device
    /\ devices \cap deleted = {}
    /\ rows \subseteq Row
    /\ nextId \in Nat
    /\ clock \in Nat
    /\ events \subseteq Event
    /\ handled \subseteq [row : Nat, name : Name, next : Nat]
    /\ check \in [Worker -> Check]
    /\ requests \in 0..MaxRequests
    /\ crashes \in 0..MaxCrashes

\* A check raises only for a device that was deleted while it ran; whatever
\* else the database refuses becomes an error result.
RaisesOnlyIfDeleted ==
    \A w \in Worker : check[w].pc = "raised" => check[w].dev \in deleted

\* a worker still has to dispatch for this row
Handling(r) ==
    \E w \in Worker : /\ check[w].row = r.id
                      /\ check[w].pc = "saved" \/
                         (check[w].pc = "reporting" /\ r.name \in check[w].todo)

Reported(r, type) ==
    [type |-> type, dev |-> r.dev, name |-> r.name, row |-> r.id] \in events

\* "a failed interface check simply produces zero interface rows": unless the
\* process died, every stored row is on its way to its events or has had them,
\* the ones its state calls for; no other check's rows are in the table.
RowsAreReported ==
    crashes = 0 => \A r \in rows :
        \/ Handling(r)
        \/ /\ Reported(r, "interface_down") <=> r.oper = "down"
           /\ Reported(r, "interface_errors_detected") <=> r.errors

\* r's events were dispatched, and no other row of its name was stored since
\* the check was requested and until then
Undisturbed(r) ==
    \E t \in handled :
        /\ t.row = r.id /\ t.name = r.name
        /\ \A q \in RowsOf(r.dev, r.name) :
              q.id = r.id \/ q.id < r.began \/ q.id >= t.next

\* Such a row reports a recovery exactly when it is up and the newest row
\* before it was down.
RecoveryIffTransition ==
    \A r \in rows : Undisturbed(r) =>
        (Reported(r, "interface_recovered") <=>
            /\ r.oper = "up"
            /\ \E p \in Newest({q \in RowsOf(r.dev, r.name) : q.id < r.began}) :
                  p.oper = "down")

=============================================================================
