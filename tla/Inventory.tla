----------------------------- MODULE Inventory ------------------------------
(***************************************************************************)
(* The device inventory of NetAutoOps, composed with Accounts: POST, PUT   *)
(* and DELETE /devices are authorised against table users, and share the   *)
(* server's threads with the requests that change it.  create_device and   *)
(* update_device check the address with a query and then rely on the       *)
(* unique constraint; each can be overtaken between any two of its queries.*)
(***************************************************************************)
EXTENDS Accounts, Sequences

CONSTANTS
    Address,       \* IP addresses
    DeviceChange,  \* bodies of PUT: functions from the fields set to values
    FoundDevices   \* contents table devices may have when the server starts,
                   \* with the ids from 1 on

\* the columns of table devices; status stands for those without a constraint
\* but NOT NULL
Device == [ip_address : Address, status : {"active", "inactive"}]

AddressesDiffer(table) ==
    \A i, j \in DOMAIN table : i # j => table[i].ip_address # table[j].ip_address

ASSUME InventoryAssumption ==
    /\ \A table \in FoundDevices : table \in Seq(Device) /\ AddressesDiffer(table)
    /\ \A c \in DeviceChange :
          /\ DOMAIN c \subseteq {"ip_address", "status"}
          /\ "ip_address" \in DOMAIN c => c["ip_address"] \in Address \cup {Null}
          /\ "status" \in DOMAIN c => c["status"] \in {"active", "inactive", Null}

VARIABLES
    devices,   \* table devices: a function from the ids in use
    nextId     \* its id sequence: a refused INSERT takes an id as well

inventoryVars == <<accountVars, devices, nextId>>

DeviceBody == [ip_address : Address] \cup [id : Nat] \cup
              [id : Nat, change : DeviceChange]

Change(w) == request[w].body.change

----------------------------------------------------------------------------
\* a device that is not i has this address: what the query and the constraint see
Held(address, i) == \E k \in DOMAIN devices : k # i /\ devices[k].ip_address = address

\* mutant: the query forgets Device.id != device_id
FindHolder_AnyDevice(address, i) == \E k \in DOMAIN devices : devices[k].ip_address = address

FindHolder(address, i) == Held(address, i)

AddressViolation(address, i) == Held(address, i)

\* mutant: the handler of IntegrityError is lost
Refused_Uncaught(w) == Answer(w, "500")

\* except IntegrityError, whatever the constraint: rollback, DuplicateIPError
Refused(w) == Answer(w, "409")

\* create_device: existing = ... ip_address == device_in.ip_address
FindExisting(w) ==
    /\ At(w, "create", "authorised")
    /\ IF FindHolder(request[w].body.ip_address, 0) THEN Answer(w, "409")
       ELSE Proceed(w, "checked")
    /\ UNCHANGED <<users, rights, requests, devices, nextId>>

\* create_device: INSERT and COMMIT; from here on the body holds the new id
InsertDevice(w) ==
    /\ At(w, "create", "checked")
    /\ LET address == request[w].body.ip_address IN
       IF AddressViolation(address, 0)
       THEN Refused(w) /\ UNCHANGED devices
       ELSE /\ devices' = [i \in DOMAIN devices \cup {nextId} |->
                              IF i = nextId
                              THEN [ip_address |-> address, status |-> "active"]
                              ELSE devices[i]]
            /\ request' = [request EXCEPT ![w].pc = "stored",
                                          ![w].body = [id |-> nextId]]
    /\ nextId' = nextId + 1
    /\ UNCHANGED <<users, rights, requests>>

\* db.refresh(device) raises when the row is gone by now
RefreshDevice(w) ==
    /\ request[w].pc = "stored"
    /\ Answer(w, CASE request[w].body.id \notin DOMAIN devices -> "500"
                   [] request[w].op = "create" -> "201"
                   [] OTHER                    -> "200")
    /\ UNCHANGED <<users, rights, requests, devices, nextId>>

\* get_device, for an update or a deletion
GetDevice(w) ==
    /\ request[w].op \in {"update", "delete"}
    /\ request[w].pc = "authorised"
    /\ IF request[w].body.id \notin DOMAIN devices THEN Answer(w, "404")
       ELSE request' = [request EXCEPT ![w].pc = "loaded",
                                       ![w].loaded = devices[request[w].body.id]]
    /\ UNCHANGED <<users, rights, requests, devices, nextId>>

\* update_device: only an address that differs from the one loaded is looked up
CheckAddress(w) ==
    /\ At(w, "update", "loaded")
    /\ IF /\ "ip_address" \in DOMAIN Change(w)
          /\ Change(w)["ip_address"] # request[w].loaded.ip_address
          /\ FindHolder(Change(w)["ip_address"], request[w].body.id)
       THEN Answer(w, "409")
       ELSE Proceed(w, "checked")
    /\ UNCHANGED <<users, rights, requests, devices, nextId>>

\* update_device: COMMIT.  Nothing is written when nothing differs from what
\* was loaded; an UPDATE that meets no row raises StaleDataError, uncaught.
CommitUpdate(w) ==
    /\ At(w, "update", "checked")
    /\ LET i == request[w].body.id
           dirty == {f \in DOMAIN Change(w) : Change(w)[f] # request[w].loaded[f]}
       IN  CASE dirty = {} -> Proceed(w, "stored") /\ UNCHANGED devices
             [] dirty # {} /\ i \notin DOMAIN devices ->
                   Answer(w, "500") /\ UNCHANGED devices
             [] dirty # {} /\ i \in DOMAIN devices ->
                   IF \/ HasNull(Change(w))
                      \/ /\ "ip_address" \in dirty
                         /\ AddressViolation(Change(w)["ip_address"], i)
                   THEN Refused(w) /\ UNCHANGED devices
                   ELSE /\ devices' = [devices EXCEPT ![i] =
                                          Written(@, request[w].loaded, Change(w))]
                        /\ Proceed(w, "stored")
    /\ UNCHANGED <<users, rights, requests, nextId>>

\* delete_device: a DELETE that meets no row only warns
CommitDelete(w) ==
    /\ At(w, "delete", "loaded")
    /\ devices' = [i \in DOMAIN devices \ {request[w].body.id} |-> devices[i]]
    /\ Answer(w, "204")
    /\ UNCHANGED <<users, rights, requests, nextId>>

----------------------------------------------------------------------------
InventoryInit ==
    /\ Init
    /\ devices \in FoundDevices
    /\ nextId = 1 + Len(devices)

\* a request for /devices arrives; any id may be asked for, the next one too
ArriveDevice(w) ==
    \E caller \in DOMAIN users :
       \/ \E address \in Address : Arrive(w, "create", caller, [ip_address |-> address])
       \/ \E i \in 1..nextId :
             \/ Arrive(w, "delete", caller, [id |-> i])
             \/ \E c \in DeviceChange :
                   Arrive(w, "update", caller, [id |-> i, change |-> c])

DeviceStep(w) ==
    \/ FindExisting(w) \/ InsertDevice(w) \/ RefreshDevice(w)
    \/ GetDevice(w) \/ CheckAddress(w) \/ CommitUpdate(w) \/ CommitDelete(w)

InventoryNext ==
    \E w \in Worker :
       \/ /\ ArriveAny(w) \/ ArriveDevice(w) \/ RequestStep(w)
          /\ UNCHANGED <<devices, nextId>>
       \/ DeviceStep(w)

InventorySpec == InventoryInit /\ [][InventoryNext]_inventoryVars

----------------------------------------------------------------------------
(* Properties *)

Operation == {"register", "patch", "create", "update", "delete"}

Request ==
    [pc : Stage, op : Operation \cup {None}, caller : Username \cup {None},
     body : UserBody \cup DeviceBody \cup {Empty}, role : Role \cup {None},
     sawEmpty : BOOLEAN, loaded : User \cup Device \cup {Empty},
     early : BOOLEAN, reply : Reply]

InventoryTypeOK ==
    /\ TypeOK
    /\ request \in [Worker -> Request]
    /\ nextId \in Nat \ {0}
    /\ DOMAIN devices \subseteq 1..(nextId - 1)
    /\ devices \in [DOMAIN devices -> Device]

\* No two devices share an address, whatever requests overlap.
AddressesAreUnique == AddressesDiffer(devices)

\* A request for a device fails with an internal error only when the device was
\* deleted while it ran.
RaisesOnlyIfDeleted ==
    \A w \in Worker :
        (request[w].op \notin {"register", "patch"} /\ request[w].reply = "500") =>
            request[w].body.id \in 1..(nextId - 1) \ DOMAIN devices

\* When a request is refused as a conflict, another account has the username or
\* the e-mail address at that moment ("already taken"), another device has the
\* address ("409 if the IP address already exists on another device"), or the
\* body sets a column to null, of which README.md:128 does not know.
ConflictHasReason ==
    [][\A w \in Worker :
        (request[w].reply # "409" /\ request'[w].reply = "409") =>
            LET body == request[w].body  op == request[w].op IN
            CASE op = "register" ->
                   body.name \in DOMAIN users \/ EmailTaken(body.email)
              [] op = "create" -> Held(body.ip_address, 0)
              [] op = "update" ->
                   \/ HasNull(body.change)
                   \/ "ip_address" \in DOMAIN body.change /\
                         Held(body.change["ip_address"], body.id)]_inventoryVars

\* An update changes only its device and the fields it sets, to the values it
\* sets: two that overlap do not undo each other's fields.
UpdateKeepsOtherFields ==
    [][\A i \in DOMAIN devices \cap DOMAIN devices' : \A f \in DOMAIN devices[i] :
        devices'[i][f] # devices[i][f] =>
            \E w \in Worker :
                /\ request'[w] # request[w]
                /\ request[w].op = "update"
                /\ request[w].body.id = i
                /\ f \in DOMAIN Change(w)
                /\ devices'[i][f] = Change(w)[f]]_inventoryVars

\* The inventory changes only by requests of accounts that were, at some time
\* since the request arrived, active and at least operators: demotion and
\* deactivation hold from the next request on.
InventoryChangesByOperators ==
    [][\A w \in Worker :
        (devices' # devices /\ request'[w] # request[w]) =>
            rights[w] \cap {"operator", "admin"} # {}]_inventoryVars

\* Both: nothing changes but by those entitled to change it.
OnlyTheEntitledChange == AccountsChangeByAdmins /\ InventoryChangesByOperators

\* Both: overlapping updates, of a device or an account, keep each other's
\* fields.
UpdatesKeepOtherFields == PatchKeepsOtherFields /\ UpdateKeepsOtherFields

=============================================================================
