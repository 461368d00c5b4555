------------------------------- MODULE Alarms -------------------------------
(***************************************************************************)
(* GET /alarms beside health and interface checks: get_recent_alarms goes  *)
(* over the fleet three times, for devices whose latest health record is   *)
(* an outage, for interfaces that are down and for those with errors, one  *)
(* query per device each time.  Checks commit in between.  The answer is   *)
(* the most recent of the entries, as many as the request asks for.        *)
(*                                                                         *)
(* Of the health records only the latest per device is kept (see           *)
(* HealthCheck for how it comes about).  Which of two equally old entries  *)
(* goes first is left open; the order of the answer itself is left out.    *)
(***************************************************************************)
EXTENDS Interfaces, FiniteSets

CONSTANTS
    Limit,             \* the numbers of entries a request may ask for
    MaxListings,       \* bound: alarm lists requested
    MaxHealthChecks    \* bound: health checks that store a record

ASSUME ListingAssumption ==
    /\ Limit \subseteq 1..200
    /\ {MaxListings, MaxHealthChecks} \subseteq Nat

\* None stands for a null, which no interface is called
ASSUME NameAssumption == None \notin Name

VARIABLES
    health,          \* the latest record of the devices that have one
    healthChecks,    \* records stored so far
    listing,         \* the request's locals
    steady           \* auxiliary: the problems there have been since it began

healthVars == <<health, healthChecks>>
alarmVars == <<vars, healthVars, listing, steady>>

\* a record of device_health; at is checked_at
Health == [status : {"up", "down", "error"}, at : Nat]

\* interface_alarms: the id it is keyed by is a row's, here check and name; an
\* entry about a device has neither
Entry == [dev : Device, name : Name \cup {None}, row : Nat,
          severity : {"down", "error", "errors_detected"}, at : Nat]

Listing == [pc : {"idle", "health", "down", "errors_detected", "answered"},
            todo : SUBSET Device,      \* devices this pass has yet to query
            entries : SUBSET Entry,
            limit : Nat,
            quiet : BOOLEAN,           \* auxiliary: no check committed meanwhile
            count : Nat]

NoListing == [pc |-> "idle", todo |-> {}, entries |-> {}, limit |-> 0,
              quiet |-> TRUE, count |-> 0]

\* get_device_interfaces: the newest row of every name
Snapshot(d) == UNION {Newest(RowsOf(d, name)) : name \in Name}

Unwell == {d \in DOMAIN health : health[d].status # "up"}

\* device, interface if it is one's, what is wrong, when that was observed
Problem == Device \X (Name \cup {None}) \X {"down", "error", "errors_detected"} \X Nat

\* what /monitoring/health and /interfaces/health show as wrong
Problems ==
    {<<d, None, health[d].status, health[d].at>> : d \in Unwell}
    \cup {<<r.dev, r.name, "down", r.at>> :
        r \in {q \in UNION {Snapshot(d) : d \in devices} : q.oper = "down"}}
    \cup {<<r.dev, r.name, "errors_detected", r.at>> :
        r \in {q \in UNION {Snapshot(d) : d \in devices} : q.errors}}

\* the same problem, whenever observed
Same(p, q) == p[1] = q[1] /\ p[2] = q[2] /\ p[3] = q[3]

EntriesOf(S, severity) ==
    {[dev |-> r.dev, name |-> r.name, row |-> r.id, severity |-> severity, at |-> r.at] :
        r \in S}

\* mutant: sorted without reverse=True
MostRecent_Oldest(entries, limit) ==
    IF Cardinality(entries) <= limit THEN {entries}
    ELSE {A \in SUBSET entries : /\ Cardinality(A) = limit
                                 /\ \A e \in A, f \in entries \ A : e.at <= f.at}

\* alarms.sort(checked_at, reverse=True) and alarms[:limit]: the possible outcomes
MostRecent(entries, limit) ==
    IF Cardinality(entries) <= limit THEN {entries}
    ELSE {A \in SUBSET entries : /\ Cardinality(A) = limit
                                 /\ \A e \in A, f \in entries \ A : e.at >= f.at}

----------------------------------------------------------------------------
\* the first pass asks for the devices
ListAlarms ==
    /\ listing.pc = "idle"
    /\ listing.count < MaxListings
    /\ listing' = [listing EXCEPT !.pc = "health", !.todo = devices,
                                  !.quiet = TRUE, !.count = @ + 1]
    /\ steady' = Problems
    /\ UNCHANGED <<vars, healthVars>>

\* get_fleet_health, one device: the query is made whether it has a record or not
ReadHealth(d) ==
    /\ listing.pc = "health"
    /\ d \in listing.todo
    /\ listing' = [listing EXCEPT
          !.todo = @ \ {d},
          !.entries = @ \cup
              {[dev |-> e, name |-> None, row |-> 0, severity |-> health[e].status,
                at |-> health[e].at] : e \in {d} \cap Unwell}]
    /\ UNCHANGED <<vars, healthVars, steady>>

\* the second pass asks for the devices again
StartDown ==
    /\ listing.pc = "health"
    /\ listing.todo = {}
    /\ listing' = [listing EXCEPT !.pc = "down", !.todo = devices]
    /\ UNCHANGED <<vars, healthVars, steady>>

\* get_fleet_interfaces(oper_status="down"), one device
ReadDown(d) ==
    /\ listing.pc = "down"
    /\ d \in listing.todo
    /\ listing' = [listing EXCEPT
          !.todo = @ \ {d},
          !.entries = @ \cup EntriesOf({r \in Snapshot(d) : r.oper = "down"}, "down")]
    /\ UNCHANGED <<vars, healthVars, steady>>

\* and so does the third
StartErrors ==
    /\ listing.pc = "down"
    /\ listing.todo = {}
    /\ listing' = [listing EXCEPT !.pc = "errors_detected", !.todo = devices]
    /\ UNCHANGED <<vars, healthVars, steady>>

\* mutant: the errors of a row take the place of the entry it has
ReadErrors_Overwrites(d) ==
    /\ listing.pc = "errors_detected"
    /\ d \in listing.todo
    /\ LET new == EntriesOf({r \in Snapshot(d) : r.errors}, "errors_detected")
           hidden == {e \in listing.entries : \E n \in new :
                         e.dev = n.dev /\ e.name = n.name /\ e.row = n.row}
       IN  listing' = [listing EXCEPT !.todo = @ \ {d},
                                      !.entries = (@ \ hidden) \cup new]
    /\ UNCHANGED <<vars, healthVars, steady>>

\* get_fleet_interfaces(has_errors=True), one device; a row already reported
\* as down is skipped
ReadErrors(d) ==
    /\ listing.pc = "errors_detected"
    /\ d \in listing.todo
    /\ LET known(r) == \E e \in listing.entries :
                          e.dev = r.dev /\ e.name = r.name /\ e.row = r.id
           new == {r \in Snapshot(d) : r.errors /\ ~known(r)}
       IN  listing' = [listing EXCEPT
              !.todo = @ \ {d},
              !.entries = @ \cup EntriesOf(new, "errors_detected")]
    /\ UNCHANGED <<vars, healthVars, steady>>

\* limit: a parameter of the request, which nothing reads before
AnswerAlarms(limit) ==
    /\ listing.pc = "errors_detected"
    /\ listing.todo = {}
    /\ \E answer \in MostRecent(listing.entries, limit) :
          listing' = [listing EXCEPT !.pc = "answered", !.entries = answer, !.limit = limit]
    /\ UNCHANGED <<vars, healthVars, steady>>

EndListing ==
    /\ listing.pc = "answered"
    /\ listing' = [NoListing EXCEPT !.count = listing.count]
    /\ steady' = {}
    /\ UNCHANGED <<vars, healthVars>>

\* run_health_check, in another thread, stores what becomes the latest record:
\* nobody here sees one that does not. Its date is that of a transaction, of
\* which nothing is known but that it began by now.
StoreHealth(d, status, at) ==
    /\ d \in devices
    /\ healthChecks < MaxHealthChecks
    /\ d \in DOMAIN health => health[d].at <= at
    /\ healthChecks' = healthChecks + 1
    /\ health' = [e \in DOMAIN health \cup {d} |->
                     IF e = d THEN [status |-> status, at |-> at] ELSE health[e]]
    /\ UNCHANGED vars

\* ON DELETE CASCADE
Cascade ==
    /\ health' = [e \in DOMAIN health \cap devices' |-> health[e]]
    /\ UNCHANGED healthChecks

----------------------------------------------------------------------------
AlarmInit ==
    /\ Init
    /\ health = [d \in {} |-> None]
    /\ healthChecks = 0
    /\ listing = NoListing
    /\ steady = {}

AlarmStep ==
    \/ \E d \in Device : ReadHealth(d) \/ ReadDown(d) \/ ReadErrors(d)
    \/ StartDown
    \/ StartErrors
    \/ \E limit \in Limit : AnswerAlarms(limit)
    \/ EndListing

\* what the auxiliary variables make of anyone else's step; a crash takes the
\* request with it
Observe ==
    /\ steady' = {p \in steady : \E q \in Problems' : Same(p, q)}
    /\ listing' = IF crashes' # crashes THEN [NoListing EXCEPT !.count = listing.count]
                  ELSE [listing EXCEPT !.quiet = @ /\ UNCHANGED <<rows, devices, health>>]

Others ==
    \/ \E d \in Device, status \in {"up", "down", "error"}, at \in 0..clock :
          StoreHealth(d, status, at)
    \/ Next /\ Cascade

AlarmNext == ListAlarms \/ AlarmStep \/ (Others /\ Observe)

AlarmSpec == AlarmInit /\ [][AlarmNext]_alarmVars

----------------------------------------------------------------------------
(* Properties *)

AlarmTypeOK ==
    /\ TypeOK
    /\ DOMAIN health \subseteq devices
    /\ \A d \in DOMAIN health : health[d] \in Health
    /\ healthChecks \in 0..MaxHealthChecks
    /\ listing \in Listing
    /\ steady \subseteq Problem

\* the list has as many entries as were asked for
IsFull == Cardinality(listing.entries) = listing.limit

\* A list no check committed during "can never disagree with what
\* /monitoring/health or /interfaces/health already show as current": nothing
\* else is in it, an interface that is down with errors only as down, no more
\* than was asked for, and what is left out is left out of a full list for
\* being no more recent than anything in it.
QuietListIsExact ==
    (listing.pc = "answered" /\ listing.quiet) =>
        LET shown == {<<e.dev, e.name, e.severity, e.at>> : e \in listing.entries}
            active == {p \in Problems : p[3] = "errors_detected" =>
                          <<p[1], p[2], "down", p[4]>> \notin Problems}
        IN  /\ shown \subseteq active
            /\ Cardinality(listing.entries) <= listing.limit
            /\ \A p \in active \ shown : IsFull /\ \A q \in shown : q[4] >= p[4]

\* A device or an interface that is down from the request to the answer is
\* listed, as down, whatever commits in between; so is a device in error. It
\* makes way only in a full list, for entries no older than the outage was
\* when the request came.
SteadyDownIsListed ==
    listing.pc = "answered" =>
        \A p \in steady : p[3] # "errors_detected" =>
            \/ \E e \in listing.entries :
                  e.dev = p[1] /\ e.name = p[2] /\ e.severity = p[3]
            \/ IsFull /\ \A e \in listing.entries : e.at >= p[4]
=============================================================================
