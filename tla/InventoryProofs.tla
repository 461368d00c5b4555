-------------------------- MODULE InventoryProofs ---------------------------
(***************************************************************************)
(* Theorems about Inventory and, with it, Accounts, for any number of      *)
(* accounts, addresses, threads and requests: type correctness, that       *)
(* e-mail and IP addresses are unique, why requests fail and are refused,  *)
(* and whose requests change what.                                         *)
(***************************************************************************)
EXTENDS Inventory, SequenceTheorems, TLAPS

Authorised == {"authorised", "admitted", "named", "checked", "loaded", "stored"}
OnDevices == {"create", "update", "delete"}

\* what a request of each kind carries; a creation keeps the id it was given
BodyOf(op) ==
    CASE op = "register" -> [name : Username, email : Email, role : Role]
      [] op = "patch"    -> [name : Username, change : UserPatch]
      [] op = "create"   -> [ip_address : Address] \cup [id : Nat]
      [] op = "update"   -> [id : Nat, change : DeviceChange]
      [] OTHER           -> [id : Nat]

\* how far a request of each kind can be
StageOf(op) ==
    {"called", "authorised", "answered"} \cup
    CASE op = "register" -> {"admitted", "named", "checked"}
      [] op = "patch"    -> {"loaded"}
      [] op = "create"   -> {"checked", "stored"}
      [] op = "update"   -> {"loaded", "checked", "stored"}
      [] OTHER           -> {"loaded"}

\* A request carries and has loaded what its next step reads.
ShapeInv(r) ==
    \/ r.pc = "idle" /\ r.op = None /\ r.reply = None
    \/ /\ r.op \in Operation
       /\ r.pc \in StageOf(r.op)
       /\ r.body \in BodyOf(r.op)
       /\ (r.op = "create" /\ r.pc \in {"called", "authorised", "checked"}) =>
             r.body \in [ip_address : Address]
       /\ (r.op = "create" /\ r.pc = "stored") => r.body \in [id : Nat]
       /\ (r.op = "patch" /\ r.pc = "loaded") => r.loaded \in User
       /\ (r.op = "update" /\ r.pc \in {"loaded", "checked"}) => r.loaded \in Device
       /\ r.reply # None => r.pc = "answered"

\* The rights a request acts with are rights its caller had since it arrived;
\* the exception saw an empty table, so no account existed when it arrived.
RightsInv(r, held) ==
    /\ RolesOf(users, r.caller) \subseteq held
    /\ r.role # None => r.role \in held
    /\ r.caller \in DOMAIN users \cup {None}
    /\ (r.pc # "idle" /\ DOMAIN users = {}) => r.early
    /\ r.sawEmpty => r.caller = None /\ r.early
    /\ (r.pc = "authorised" /\ r.caller # None) => r.role # None /\ r.loaded \in User
    /\ r.pc \in Authorised =>
          /\ r.op = "patch" => r.role = "admin" /\ r.caller # None
          /\ r.op \in OnDevices => r.role \in {"operator", "admin"}
          /\ (r.op = "register" /\ r.pc # "authorised") => r.sawEmpty \/ r.role = "admin"

\* A request that has found its device knows an id that is not handed out
\* again, and fails only when that device is gone.
DeviceInv(r) ==
    /\ (r.op \in OnDevices /\ r.pc \in {"loaded", "stored"}) =>
          r.body.id \in 1..(nextId - 1)
    /\ (r.op = "update" /\ r.pc = "checked") => r.body.id \in 1..(nextId - 1)
    /\ (r.op \in OnDevices /\ r.reply = "500") =>
          r.body.id \in 1..(nextId - 1) \ DOMAIN devices

WorkerInv(w) ==
    ShapeInv(request[w]) /\ RightsInv(request[w], rights[w]) /\ DeviceInv(request[w])

IInv ==
    /\ InventoryTypeOK
    /\ EmailsAreUnique
    /\ AddressesAreUnique
    /\ \A w \in Worker : WorkerInv(w)

----------------------------------------------------------------------------
(* Requests *)

\* What an answer, or a step to the next query, leaves of a request.
Same(q, r) ==
    /\ q.op = r.op /\ q.caller = r.caller /\ q.body = r.body /\ q.role = r.role
    /\ q.sawEmpty = r.sawEmpty /\ q.loaded = r.loaded /\ q.early = r.early

\* What an answer makes of a request.
LEMMA AnswerRecord ==
    ASSUME request \in [Worker -> Request], NEW w \in Worker,
           NEW reply \in Reply, Answer(w, reply)
    PROVE  \E q \in Request :
              /\ request' = [request EXCEPT ![w] = q]
              /\ q.pc = "answered" /\ q.reply = reply /\ Same(q, request[w])
<1> DEFINE q == [request[w] EXCEPT !.pc = "answered", !.reply = reply]
<1>1. request[w] \in Request
  OBVIOUS
<1>2. q \in Request /\ q.pc = "answered" /\ q.reply = reply /\ Same(q, request[w])
  BY <1>1 DEF Request, Same, Stage
<1>3. request' = [request EXCEPT ![w] = q]
  BY DEF Answer
<1> HIDE DEF q
<1> QED
  BY <1>2, <1>3

\* What a step to the next query makes of a request.
LEMMA ProceedRecord ==
    ASSUME request \in [Worker -> Request], NEW w \in Worker,
           NEW pc \in Stage, Proceed(w, pc)
    PROVE  \E q \in Request :
              /\ request' = [request EXCEPT ![w] = q]
              /\ q.pc = pc /\ q.reply = request[w].reply /\ Same(q, request[w])
<1> DEFINE q == [request[w] EXCEPT !.pc = pc]
<1>1. request[w] \in Request
  OBVIOUS
<1>2. q \in Request /\ q.pc = pc /\ q.reply = request[w].reply /\ Same(q, request[w])
  BY <1>1 DEF Request, Same
<1>3. request' = [request EXCEPT ![w] = q]
  BY DEF Proceed
<1> HIDE DEF q
<1> QED
  BY <1>2, <1>3

\* A step of one worker keeps what is known of the others' requests, if accounts
\* are only added, rights only gained, and no id is used twice.
LEMMA StepPreserves ==
    ASSUME IInv, NEW w \in Worker, NEW q \in Request,
           request' = [request EXCEPT ![w] = q],
           users' \in UserTable, rights' \in [Worker -> SUBSET Role], requests' \in Nat,
           nextId' \in Nat, nextId' >= nextId,
           DOMAIN devices' \subseteq 1..(nextId' - 1),
           devices' \in [DOMAIN devices' -> Device],
           EmailsAreUnique', AddressesAreUnique',
           DOMAIN users \subseteq DOMAIN users',
           \A v \in Worker \ {w} :
              /\ rights[v] \subseteq rights'[v]
              /\ RolesOf(users', request[v].caller) \subseteq rights'[v],
           \A i \in 1..(nextId - 1) : i \in DOMAIN devices' => i \in DOMAIN devices,
           ShapeInv(q), RightsInv(q, rights[w])', DeviceInv(q)'
    PROVE  IInv'
<1>1. /\ request' \in [Worker -> Request] /\ request'[w] = q
      /\ \A v \in Worker \ {w} : request'[v] = request[v]
  BY DEF IInv, InventoryTypeOK
<1>2. nextId \in Nat \ {0} /\ nextId' \in Nat \ {0}
  BY DEF IInv, InventoryTypeOK
<1>3. InventoryTypeOK'
  BY <1>1, <1>2 DEF IInv, InventoryTypeOK, TypeOK
<1>4. WorkerInv(w)'
  BY <1>1 DEF WorkerInv
<1>5. ASSUME NEW v \in Worker \ {w}
      PROVE  WorkerInv(v)'
  <2>1. /\ ShapeInv(request[v]) /\ RightsInv(request[v], rights[v])
        /\ DeviceInv(request[v]) /\ request'[v] = request[v]
    BY <1>1 DEF IInv, WorkerInv
  <2>2. RightsInv(request[v], rights[v])' 
    BY <2>1 DEF RightsInv
  <2>3. DeviceInv(request[v])'
    BY <1>2, <2>1 DEF DeviceInv
  <2> QED
    BY <2>1, <2>2, <2>3 DEF WorkerInv
<1> QED
  BY <1>3, <1>4, <1>5 DEF IInv

\* A step that only reads the tables.
LEMMA ReadPreserves ==
    ASSUME IInv, NEW w \in Worker, NEW q \in Request,
           request' = [request EXCEPT ![w] = q],
           UNCHANGED <<users, rights, requests, devices, nextId>>,
           ShapeInv(q), RightsInv(q, rights[w]), DeviceInv(q)
    PROVE  IInv'
<1>1. /\ InventoryTypeOK /\ EmailsAreUnique /\ AddressesAreUnique
      /\ \A v \in Worker : RolesOf(users, request[v].caller) \subseteq rights[v]
  BY DEF IInv, WorkerInv, RightsInv
<1>2. EmailsAreUnique' /\ AddressesAreUnique'
  BY <1>1 DEF EmailsAreUnique, AddressesAreUnique
<1>3. RightsInv(q, rights[w])' /\ DeviceInv(q)'
  BY DEF RightsInv, DeviceInv
<1>4. /\ users' \in UserTable /\ rights' \in [Worker -> SUBSET Role]
      /\ requests' \in Nat /\ nextId' \in Nat /\ nextId' >= nextId
      /\ DOMAIN devices' \subseteq 1..(nextId' - 1)
      /\ devices' \in [DOMAIN devices' -> Device]
  BY <1>1 DEF InventoryTypeOK, TypeOK
<1>5. /\ DOMAIN users \subseteq DOMAIN users'
      /\ \A v \in Worker \ {w} :
            /\ rights[v] \subseteq rights'[v]
            /\ RolesOf(users', request[v].caller) \subseteq rights'[v]
      /\ \A i \in 1..(nextId - 1) : i \in DOMAIN devices' => i \in DOMAIN devices
  BY <1>1
<1> QED
  BY <1>2, <1>3, <1>4, <1>5, StepPreserves

\* What is known of a request that is running.
LEMMA Known ==
    ASSUME IInv, NEW w \in Worker
    PROVE  /\ request \in [Worker -> Request] /\ request[w] \in Request
           /\ ShapeInv(request[w])
           /\ RightsInv(request[w], rights[w])
           /\ DeviceInv(request[w])
           /\ nextId \in Nat \ {0}
BY DEF IInv, InventoryTypeOK, WorkerInv

\* An answered request keeps what is known of it.
LEMMA AnsweredIsKnown ==
    ASSUME IInv, NEW w \in Worker, NEW reply \in Reply, NEW q \in Request,
           request[w].pc # "idle",
           q.pc = "answered", q.reply = reply, Same(q, request[w]),
           (reply = "500" /\ request[w].op \in OnDevices) =>
               request[w].body.id \in 1..(nextId - 1) \ DOMAIN devices
    PROVE  ShapeInv(q) /\ RightsInv(q, rights[w]) /\ DeviceInv(q)
<1>1. ShapeInv(q)
  BY Known DEF ShapeInv, Same, StageOf
<1>2. RightsInv(q, rights[w])
  BY Known DEF RightsInv, Same, Authorised
<1>3. DeviceInv(q)
  BY DEF DeviceInv, Same
<1> QED
  BY <1>1, <1>2, <1>3

\* A refusal, or an answer that changes nothing.
LEMMA AnswerPreserves ==
    ASSUME IInv, NEW w \in Worker, NEW reply \in Reply,
           request[w].pc # "idle", Answer(w, reply),
           UNCHANGED <<users, rights, requests, devices, nextId>>,
           (reply = "500" /\ request[w].op \in OnDevices) =>
               request[w].body.id \in 1..(nextId - 1) \ DOMAIN devices
    PROVE  IInv'
<1>1. PICK q \in Request : /\ request' = [request EXCEPT ![w] = q]
                           /\ q.pc = "answered" /\ q.reply = reply
                           /\ Same(q, request[w])
  BY Known, AnswerRecord
<1>2. ShapeInv(q) /\ RightsInv(q, rights[w]) /\ DeviceInv(q)
  BY <1>1, AnsweredIsKnown
<1> QED
  BY <1>1, <1>2, ReadPreserves

----------------------------------------------------------------------------
(* The steps that read *)

\* Authorisation.
LEMMA AuthenticatePreserves ==
    ASSUME IInv, NEW w \in Worker, Authenticate(w), UNCHANGED <<devices, nextId>>
    PROVE  IInv'
<1>1. /\ request[w].pc = "called" /\ request[w].op \in Operation
      /\ UNCHANGED <<users, rights, requests, devices, nextId>>
  BY Known DEF Authenticate, ShapeInv
<1>2. CASE Answer(w, "401") \/ Answer(w, "403")
  BY <1>1, <1>2, AnswerPreserves DEF Reply
<1>3. CASE request[w].caller = None /\ request[w].op = "register" /\ Proceed(w, "authorised")
  <2>1. PICK q \in Request : /\ request' = [request EXCEPT ![w] = q]
                             /\ q.pc = "authorised" /\ q.reply = request[w].reply
                             /\ Same(q, request[w])
    BY <1>3, Known, ProceedRecord DEF Stage
  <2>2. ShapeInv(q)
    BY <1>1, <1>3, <2>1, Known DEF ShapeInv, Same, StageOf
  <2>3. RightsInv(q, rights[w])
    BY <1>1, <1>3, <2>1, Known DEF RightsInv, Same, Authorised, OnDevices
  <2>4. DeviceInv(q)
    BY <1>1, <1>3, <2>1 DEF DeviceInv, Same, OnDevices
  <2> QED
    BY <1>1, <2>1, <2>2, <2>3, <2>4, ReadPreserves
<1>4. CASE /\ Active(request[w].caller)
           /\ MayEnter(users[request[w].caller].role, request[w].op)
           /\ request' = [request EXCEPT
                            ![w].pc = "authorised",
                            ![w].role = users[request[w].caller].role,
                            ![w].loaded = users[request[w].caller]]
  <2> DEFINE row == users[request[w].caller]
             q == [request[w] EXCEPT !.pc = "authorised", !.role = row.role, !.loaded = row]
  <2>1. row \in User /\ request[w].caller \in DOMAIN users
    BY <1>4 DEF IInv, InventoryTypeOK, TypeOK, UserTable, Active
  <2>2. row.role \in rights[w]
    <3>1. row.role \in RolesOf(users, request[w].caller)
      BY <1>4 DEF RolesOf, Active
    <3> QED
      BY <3>1, Known DEF RightsInv
  <2>3. request' = [request EXCEPT ![w] = q]
    BY <1>4
  <2>4. row.role \in Role /\ row.role # None
    BY <2>1 DEF User, Role, None
  <2>5. /\ request[w].op = "patch" => row.role = "admin"
        /\ request[w].op \in OnDevices => row.role \in {"operator", "admin"}
    BY <1>4, <2>4 DEF MayEnter, Required, ROLE_LEVEL, OnDevices, Role
  <2> HIDE DEF row
  <2>6. /\ q \in Request /\ q.pc = "authorised" /\ q.role = row.role /\ q.loaded = row
        /\ q.op = request[w].op /\ q.caller = request[w].caller /\ q.body = request[w].body
        /\ q.sawEmpty = request[w].sawEmpty /\ q.early = request[w].early
        /\ q.reply = request[w].reply
    BY <2>1, <2>4, Known DEF Request, Stage
  <2> HIDE DEF q
  <2>7. ShapeInv(q)
    BY <1>1, <2>6, Known DEF ShapeInv, StageOf
  <2>8. request[w].caller # None
    BY <2>1, AccountsAssumption DEF IInv, InventoryTypeOK, TypeOK, UserTable
  <2>9. RightsInv(q, rights[w])
    BY <1>1, <2>1, <2>2, <2>4, <2>5, <2>6, <2>8, Known DEF RightsInv, Authorised, OnDevices
  <2>10. DeviceInv(q)
    BY <1>1, <2>6, Known DEF DeviceInv, ShapeInv
  <2>11. \E r \in Request : /\ request' = [request EXCEPT ![w] = r]
                            /\ ShapeInv(r) /\ RightsInv(r, rights[w]) /\ DeviceInv(r)
    BY <2>3, <2>6, <2>7, <2>9, <2>10
  <2> QED
    BY <1>1, <2>11, ReadPreserves
<1> QED
  BY <1>2, <1>3, <1>4 DEF Authenticate

\* A query after which the request goes on, with the same contents.
LEMMA ProceedPreserves ==
    ASSUME IInv, NEW w \in Worker, NEW pc \in Stage \ {"idle", "authorised"},
           request[w].pc \in Authorised, Proceed(w, pc),
           UNCHANGED <<users, rights, requests, devices, nextId>>,
           pc \in StageOf(request[w].op),
           request[w].op = "create" => pc = "checked" /\ request[w].pc = "authorised",
           (request[w].op = "patch" /\ pc = "loaded") => request[w].loaded \in User,
           request[w].op = "update" => request[w].pc \in {"loaded", "checked"},
           request[w].op \in OnDevices /\ pc = "loaded" => request[w].body.id \in 1..(nextId - 1),
           (request[w].op = "register" /\ request[w].pc = "authorised") =>
               request[w].sawEmpty \/ request[w].role = "admin"
    PROVE  IInv'
<1>1. PICK q \in Request : /\ request' = [request EXCEPT ![w] = q]
                           /\ q.pc = pc /\ q.reply = request[w].reply
                           /\ Same(q, request[w])
  BY Known, ProceedRecord
<1>2. request[w].op \in Operation /\ request[w].reply = None
  BY Known DEF ShapeInv, Authorised
<1>3. ShapeInv(q)
  BY <1>1, <1>2, Known DEF ShapeInv, Same, Authorised
<1>4. RightsInv(q, rights[w])
  BY <1>1, <1>2, Known DEF RightsInv, Same, Authorised, OnDevices
<1>5. DeviceInv(q)
  BY <1>1, <1>2, Known DEF DeviceInv, Same, OnDevices, None, StageOf
<1> QED
  BY <1>1, <1>3, <1>4, <1>5, ReadPreserves

\* The queries of a registration, and the load of a PATCH.
LEMMA AccountReadsPreserve ==
    ASSUME IInv, NEW w \in Worker, UNCHANGED <<devices, nextId>>,
           \/ CheckBootstrap(w) \/ FindUsername(w) \/ FindEmail(w) \/ GetUser(w)
    PROVE  IInv'
<1>1. UNCHANGED <<users, rights, requests, devices, nextId>>
  BY DEF CheckBootstrap, FindUsername, FindEmail, GetUser
<1>2. CASE CheckBootstrap(w)
  <2>1. request[w].op = "register" /\ request[w].pc = "authorised"
    BY <1>2 DEF CheckBootstrap, At
  <2>2. CASE Answer(w, "401") \/ Answer(w, "403")
    BY <1>1, <2>1, <2>2, AnswerPreserves DEF Reply
  <2>3. CASE /\ DOMAIN users = {}
             /\ request' = [request EXCEPT ![w].pc = "admitted", ![w].sawEmpty = TRUE]
    <3> DEFINE q == [request[w] EXCEPT !.pc = "admitted", !.sawEmpty = TRUE]
    <3>1. request' = [request EXCEPT ![w] = q]
      BY <2>3
    <3>2. /\ q \in Request /\ q.pc = "admitted" /\ q.sawEmpty = TRUE
          /\ q.op = request[w].op /\ q.caller = request[w].caller
          /\ q.body = request[w].body /\ q.early = request[w].early
          /\ q.role = request[w].role /\ q.reply = request[w].reply
      BY Known DEF Request, Stage
    <3> HIDE DEF q
    <3>3. ShapeInv(q)
      BY <2>1, <3>2, Known DEF ShapeInv, StageOf
    <3>4. RightsInv(q, rights[w])
      BY <2>1, <2>3, <3>2, Known DEF RightsInv, OnDevices
    <3>5. DeviceInv(q)
      BY <2>1, <3>2 DEF DeviceInv, OnDevices
    <3>6. \E r \in Request : /\ request' = [request EXCEPT ![w] = r]
                             /\ ShapeInv(r) /\ RightsInv(r, rights[w]) /\ DeviceInv(r)
      BY <3>1, <3>2, <3>3, <3>4, <3>5
    <3> QED
      BY <1>1, <3>6, ReadPreserves
  <2>4. CASE /\ request[w].caller # None /\ Proceed(w, "admitted")
             /\ ~(ROLE_LEVEL[request[w].role] < ROLE_LEVEL["admin"])
    <3>1. request[w].role \in Role
      BY <2>1, <2>4, Known DEF RightsInv, Request
    <3>2. request[w].role = "admin"
      BY <2>4, <3>1 DEF ROLE_LEVEL, Role
    <3> QED
      BY <1>1, <2>1, <2>4, <3>2, ProceedPreserves
      DEF Stage, StageOf, Authorised, OnDevices
  <2> QED
    BY <1>2, <2>2, <2>3, <2>4 DEF CheckBootstrap, UsersExist
<1>3. CASE FindUsername(w) \/ FindEmail(w)
  <2>1. request[w].op = "register" /\ request[w].pc \in {"admitted", "named"}
    BY <1>3 DEF FindUsername, FindEmail, At
  <2>2. Answer(w, "409") \/ Proceed(w, "named") \/ Proceed(w, "checked")
    BY <1>3 DEF FindUsername, FindEmail
  <2>3. CASE Answer(w, "409")
    BY <1>1, <2>1, <2>3, AnswerPreserves DEF Reply
  <2>4. CASE Proceed(w, "named") \/ Proceed(w, "checked")
    BY <1>1, <2>1, <2>4, ProceedPreserves DEF Stage, StageOf, Authorised, OnDevices
  <2> QED
    BY <2>2, <2>3, <2>4
<1>4. CASE GetUser(w)
  <2>1. request[w].op = "patch" /\ request[w].pc = "authorised"
    BY <1>4 DEF GetUser, At
  <2>2. CASE Answer(w, "404")
    BY <1>1, <2>1, <2>2, AnswerPreserves DEF Reply
  <2>3. CASE ~Answer(w, "404")
    <3> DEFINE n == request[w].body.name
               row == IF n = request[w].caller THEN request[w].loaded ELSE users[n]
               q == [request[w] EXCEPT !.pc = "loaded", !.loaded = row]
    <3>1. n \in DOMAIN users /\ request' = [request EXCEPT ![w] = q]
      BY <1>4, <2>3, Known DEF GetUser
    <3>2. row \in User
      BY <2>1, <3>1, Known DEF RightsInv, Authorised, IInv, InventoryTypeOK, TypeOK, UserTable
    <3> HIDE DEF row
    <3>3. /\ q \in Request /\ q.pc = "loaded" /\ q.loaded = row
          /\ q.op = request[w].op /\ q.caller = request[w].caller
          /\ q.body = request[w].body /\ q.early = request[w].early
          /\ q.role = request[w].role /\ q.reply = request[w].reply
          /\ q.sawEmpty = request[w].sawEmpty
      BY <3>2, Known DEF Request, Stage
    <3> HIDE DEF q
    <3>4. ShapeInv(q)
      BY <2>1, <3>2, <3>3, Known DEF ShapeInv, StageOf
    <3>5. RightsInv(q, rights[w])
      BY <2>1, <3>3, Known DEF RightsInv, OnDevices, Authorised
    <3>6. DeviceInv(q)
      BY <2>1, <3>3 DEF DeviceInv, OnDevices
    <3>7. \E r \in Request : /\ request' = [request EXCEPT ![w] = r]
                             /\ ShapeInv(r) /\ RightsInv(r, rights[w]) /\ DeviceInv(r)
      BY <3>1, <3>3, <3>4, <3>5, <3>6
    <3> QED
      BY <1>1, <3>7, ReadPreserves
  <2> QED
    BY <2>2, <2>3
<1> QED
  BY <1>2, <1>3, <1>4

\* The queries of the requests for devices.
LEMMA DeviceReadsPreserve ==
    ASSUME IInv, NEW w \in Worker,
           \/ FindExisting(w) \/ RefreshDevice(w) \/ GetDevice(w) \/ CheckAddress(w)
    PROVE  IInv'
<1>1. UNCHANGED <<users, rights, requests, devices, nextId>>
  BY DEF FindExisting, RefreshDevice, GetDevice, CheckAddress
<1>2. CASE FindExisting(w)
  <2>1. request[w].op = "create" /\ request[w].pc = "authorised"
    BY <1>2 DEF FindExisting, At
  <2>2. CASE Answer(w, "409")
    BY <1>1, <2>1, <2>2, AnswerPreserves DEF Reply
  <2>3. CASE Proceed(w, "checked")
    BY <1>1, <2>1, <2>3, ProceedPreserves DEF Stage, StageOf, Authorised, OnDevices
  <2> QED
    BY <1>2, <2>2, <2>3 DEF FindExisting
<1>3. CASE RefreshDevice(w)
  <2>1. /\ request[w].pc = "stored"
        /\ request[w].op \in {"create", "update"}
    BY <1>3, Known DEF RefreshDevice, ShapeInv, StageOf, Operation
  <2>2. request[w].body.id \in 1..(nextId - 1)
    BY <2>1, Known DEF DeviceInv, OnDevices
  <2>3. CASE request[w].body.id \notin DOMAIN devices /\ Answer(w, "500")
    BY <1>1, <2>1, <2>2, <2>3, AnswerPreserves DEF Reply
  <2>4. CASE Answer(w, "201") \/ Answer(w, "200")
    BY <1>1, <2>1, <2>4, AnswerPreserves DEF Reply
  <2> QED
    BY <1>3, <2>1, <2>3, <2>4 DEF RefreshDevice
<1>4. CASE GetDevice(w)
  <2>1. request[w].op \in {"update", "delete"} /\ request[w].pc = "authorised"
    BY <1>4 DEF GetDevice
  <2>2. CASE Answer(w, "404")
    BY <1>1, <2>1, <2>2, AnswerPreserves DEF Reply
  <2>3. CASE ~Answer(w, "404")
    <3> DEFINE i == request[w].body.id
               q == [request[w] EXCEPT !.pc = "loaded", !.loaded = devices[i]]
    <3>1. i \in DOMAIN devices /\ request' = [request EXCEPT ![w] = q]
      BY <1>4, <2>3 DEF GetDevice
    <3>2. devices[i] \in Device /\ i \in 1..(nextId - 1)
      BY <3>1 DEF IInv, InventoryTypeOK
    <3>3. /\ q \in Request /\ q.pc = "loaded" /\ q.loaded = devices[i]
          /\ q.op = request[w].op /\ q.caller = request[w].caller
          /\ q.body = request[w].body /\ q.early = request[w].early
          /\ q.role = request[w].role /\ q.reply = request[w].reply
          /\ q.sawEmpty = request[w].sawEmpty
      BY <3>2, Known DEF Request, Stage
    <3> HIDE DEF q
    <3>4. ShapeInv(q)
      BY <2>1, <3>2, <3>3, Known DEF ShapeInv, StageOf
    <3>5. RightsInv(q, rights[w])
      BY <2>1, <3>3, Known DEF RightsInv, OnDevices, Authorised
    <3>6. DeviceInv(q)
      BY <2>1, <3>2, <3>3, Known DEF DeviceInv, OnDevices, ShapeInv, None
    <3>7. \E r \in Request : /\ request' = [request EXCEPT ![w] = r]
                             /\ ShapeInv(r) /\ RightsInv(r, rights[w]) /\ DeviceInv(r)
      BY <3>1, <3>3, <3>4, <3>5, <3>6
    <3> QED
      BY <1>1, <3>7, ReadPreserves
  <2> QED
    BY <2>2, <2>3
<1>5. CASE CheckAddress(w)
  <2>1. request[w].op = "update" /\ request[w].pc = "loaded"
    BY <1>5 DEF CheckAddress, At
  <2>2. CASE Answer(w, "409")
    BY <1>1, <2>1, <2>2, AnswerPreserves DEF Reply
  <2>3. CASE Proceed(w, "checked")
    BY <1>1, <2>1, <2>3, ProceedPreserves DEF Stage, StageOf, Authorised, OnDevices
  <2> QED
    BY <1>5, <2>2, <2>3 DEF CheckAddress
<1> QED
  BY <1>2, <1>3, <1>4, <1>5

----------------------------------------------------------------------------
(* The steps that write *)

\* What an update writes to a row of either table.
LEMMA WrittenUser ==
    ASSUME NEW row \in User, NEW loaded \in User, NEW change \in UserPatch,
           ~HasNull(change)
    PROVE  /\ Written(row, loaded, change) \in User
           /\ Written(row, loaded, change).email = row.email
<1>1. /\ "email" \notin DOMAIN change
      /\ "role" \in DOMAIN change => change["role"] \in Role
      /\ "status" \in DOMAIN change => change["status"] \in {"active", "inactive"}
  BY AccountsAssumption DEF HasNull
<1>2. DOMAIN row = {"email", "role", "status"}
  BY DEF User
<1> QED
  BY <1>1, <1>2 DEF Written, User

\* A request arrives.
LEMMA ArrivePreserves ==
    ASSUME IInv, NEW w \in Worker, NEW op \in Operation, NEW caller,
           NEW body \in UserBody \cup DeviceBody, body \in BodyOf(op),
           op = "create" => body \in [ip_address : Address],
           Arrive(w, op, caller, body), UNCHANGED <<devices, nextId>>
    PROVE  IInv'
<1> DEFINE empty == DOMAIN users = {}
           q == [NoRequest EXCEPT !.pc = "called", !.op = op, !.caller = caller,
                                  !.body = body, !.early = empty]
<1>1. /\ caller \in DOMAIN users \cup {None}
      /\ request' = [request EXCEPT ![w] = q]
      /\ rights' = [rights EXCEPT ![w] = RolesOf(users, caller)]
      /\ requests' = requests + 1 /\ users' = users
  BY DEF Arrive
<1>2. /\ users \in UserTable /\ rights \in [Worker -> SUBSET Role] /\ requests \in Nat
      /\ nextId \in Nat \ {0} /\ devices \in [DOMAIN devices -> Device]
      /\ DOMAIN devices \subseteq 1..(nextId - 1)
  BY DEF IInv, InventoryTypeOK, TypeOK
<1>3. empty \in BOOLEAN
  OBVIOUS
<1>4. caller \in Username \cup {None}
  BY <1>1, <1>2 DEF UserTable
<1>5. empty => DOMAIN users = {}
  OBVIOUS
<1>6. DOMAIN users = {} => empty = TRUE
  OBVIOUS
<1> HIDE DEF empty
<1>7. /\ q \in Request /\ q.pc = "called" /\ q.op = op /\ q.caller = caller
      /\ q.body = body /\ q.early = empty /\ q.role = None /\ q.sawEmpty = FALSE
      /\ q.reply = None
  BY <1>3, <1>4 DEF Request, NoRequest, Stage, Reply
<1> HIDE DEF q
<1>8. RolesOf(users, caller) \in SUBSET Role
  BY <1>2 DEF RolesOf, UserTable, User
<1>9. /\ rights' \in [Worker -> SUBSET Role] /\ rights'[w] = RolesOf(users, caller)
      /\ \A v \in Worker \ {w} : rights'[v] = rights[v]
  BY <1>1, <1>2, <1>8
<1>10. ShapeInv(q)
  BY <1>7 DEF ShapeInv, StageOf
<1>11. RightsInv(q, RolesOf(users, caller))
  BY <1>1, <1>6, <1>7 DEF RightsInv, Authorised
<1>12. DeviceInv(q)
  BY <1>7 DEF DeviceInv, None
<1>13. \E r \in Request :
          /\ request' = [request EXCEPT ![w] = r]
          /\ ShapeInv(r) /\ RightsInv(r, RolesOf(users, caller)) /\ DeviceInv(r)
  BY <1>1, <1>7, <1>10, <1>11, <1>12
<1>14. PICK r \in Request :
          /\ request' = [request EXCEPT ![w] = r]
          /\ ShapeInv(r) /\ RightsInv(r, RolesOf(users, caller)) /\ DeviceInv(r)
  BY <1>13
<1>15. RightsInv(r, rights[w])' /\ DeviceInv(r)'
  BY <1>1, <1>9, <1>14 DEF RightsInv, DeviceInv
<1>16. \A v \in Worker \ {w} :
          /\ rights[v] \subseteq rights'[v]
          /\ RolesOf(users', request[v].caller) \subseteq rights'[v]
  BY <1>1, <1>9 DEF IInv, WorkerInv, RightsInv
<1>17. EmailsAreUnique' /\ AddressesAreUnique'
  BY <1>1 DEF IInv, EmailsAreUnique, AddressesAreUnique
<1>18. /\ users' \in UserTable /\ requests' \in Nat
       /\ nextId' \in Nat /\ nextId' >= nextId
       /\ DOMAIN devices' \subseteq 1..(nextId' - 1)
       /\ devices' \in [DOMAIN devices' -> Device]
       /\ DOMAIN users \subseteq DOMAIN users'
       /\ \A i \in 1..(nextId - 1) : i \in DOMAIN devices' => i \in DOMAIN devices
  BY <1>1, <1>2
<1> QED
  BY <1>9, <1>14, <1>15, <1>16, <1>17, <1>18, StepPreserves

\* A request for an account, or for a device, arrives.
LEMMA ArrivalsPreserve ==
    ASSUME IInv, NEW w \in Worker, ArriveAny(w) \/ ArriveDevice(w),
           UNCHANGED <<devices, nextId>>
    PROVE  IInv'
<1>1. CASE ArriveAny(w)
  <2>1. PICK caller \in DOMAIN users \cup {None}, body \in UserBody :
           Arrive(w, IF "email" \in DOMAIN body THEN "register" ELSE "patch", caller, body)
    BY <1>1 DEF ArriveAny
  <2>2. CASE body \in [name : Username, email : Email, role : Role]
    <3>1. "email" \in DOMAIN body
      BY <2>2
    <3>2. body \in BodyOf("register")
      BY <2>2 DEF BodyOf
    <3>3. Arrive(w, "register", caller, body)
      BY <2>1, <3>1
    <3> QED
      BY <3>2, <3>3, ArrivePreserves DEF Operation
  <2>3. CASE body \in [name : Username, change : UserPatch]
    <3>1. "email" \notin DOMAIN body
      BY <2>3
    <3>2. body \in BodyOf("patch")
      BY <2>3 DEF BodyOf
    <3>3. Arrive(w, "patch", caller, body)
      BY <2>1, <3>1
    <3> QED
      BY <3>2, <3>3, ArrivePreserves DEF Operation
  <2> QED
    BY <2>1, <2>2, <2>3 DEF UserBody
<1>2. CASE ArriveDevice(w)
  <2>1. PICK caller \in DOMAIN users :
           \/ \E address \in Address : Arrive(w, "create", caller, [ip_address |-> address])
           \/ \E i \in 1..nextId :
                 \/ Arrive(w, "delete", caller, [id |-> i])
                 \/ \E c \in DeviceChange :
                       Arrive(w, "update", caller, [id |-> i, change |-> c])
    BY <1>2 DEF ArriveDevice
  <2>2. CASE \E address \in Address : Arrive(w, "create", caller, [ip_address |-> address])
    <3>1. PICK address \in Address : Arrive(w, "create", caller, [ip_address |-> address])
      BY <2>2
    <3>2. [ip_address |-> address] \in [ip_address : Address]
      OBVIOUS
    <3>3. [ip_address |-> address] \in BodyOf("create") \cap DeviceBody
      BY <3>2 DEF BodyOf, DeviceBody
    <3> QED
      BY <3>1, <3>2, <3>3, ArrivePreserves DEF Operation
  <2>3. CASE \E i \in 1..nextId : Arrive(w, "delete", caller, [id |-> i])
    <3>1. PICK i \in 1..nextId : Arrive(w, "delete", caller, [id |-> i])
      BY <2>3
    <3>2. [id |-> i] \in BodyOf("delete") \cap DeviceBody
      BY Known DEF BodyOf, DeviceBody
    <3> QED
      BY <3>1, <3>2, ArrivePreserves DEF Operation
  <2>4. CASE \E i \in 1..nextId, c \in DeviceChange :
                Arrive(w, "update", caller, [id |-> i, change |-> c])
    <3>1. PICK i \in 1..nextId, c \in DeviceChange :
             Arrive(w, "update", caller, [id |-> i, change |-> c])
      BY <2>4
    <3>2. [id |-> i, change |-> c] \in BodyOf("update") \cap DeviceBody
      BY Known DEF BodyOf, DeviceBody
    <3> QED
      BY <3>1, <3>2, ArrivePreserves DEF Operation
  <2> QED
    BY <2>1, <2>2, <2>3, <2>4
<1> QED
  BY <1>1, <1>2

\* A change to the accounts that only adds or keeps them, and that the
\* auxiliary variable witnesses.
LEMMA UsersChange ==
    ASSUME IInv, NEW w \in Worker, NEW reply \in Reply \ {"500"}, Answer(w, reply),
           request[w].pc # "idle", request[w].op \notin OnDevices,
           users' \in UserTable, DOMAIN users \subseteq DOMAIN users', DOMAIN users' # {},
           EmailsDiffer(users'), Witness,
           UNCHANGED <<requests, devices, nextId>>
    PROVE  IInv'
<1>1. PICK q \in Request : /\ request' = [request EXCEPT ![w] = q]
                           /\ q.pc = "answered" /\ q.reply = reply
                           /\ Same(q, request[w])
  BY Known, AnswerRecord
<1>2. ShapeInv(q) /\ RightsInv(q, rights[w]) /\ DeviceInv(q)
  BY <1>1, AnsweredIsKnown
<1>3. \A v \in Worker : rights'[v] = rights[v] \cup RolesOf(users', request[v].caller)
  BY DEF Witness
<1>4. rights' \in [Worker -> SUBSET Role]
  <2>1. \A v \in Worker : RolesOf(users', request[v].caller) \in SUBSET Role
    BY DEF RolesOf, UserTable, User
  <2> QED
    BY <2>1 DEF Witness, IInv, InventoryTypeOK, TypeOK
<1>5. RightsInv(q, rights[w])'
  BY <1>1, <1>2, <1>3 DEF RightsInv, Same, Authorised
<1>6. DeviceInv(q)' /\ EmailsAreUnique' /\ AddressesAreUnique'
  BY <1>2 DEF DeviceInv, EmailsAreUnique, IInv, AddressesAreUnique
<1>7. /\ requests' \in Nat /\ nextId' \in Nat /\ nextId' >= nextId
      /\ DOMAIN devices' \subseteq 1..(nextId' - 1)
      /\ devices' \in [DOMAIN devices' -> Device]
      /\ \A i \in 1..(nextId - 1) : i \in DOMAIN devices' => i \in DOMAIN devices
  BY DEF IInv, InventoryTypeOK, TypeOK
<1> QED
  BY <1>1, <1>2, <1>3, <1>4, <1>5, <1>6, <1>7, StepPreserves

\* INSERT and UPDATE of an account.
LEMMA AccountWritesPreserve ==
    ASSUME IInv, NEW w \in Worker, InsertUser(w) \/ CommitPatch(w),
           UNCHANGED <<devices, nextId>>
    PROVE  IInv'
<1>1. PICK names \in SUBSET Username : users \in [names -> User]
  BY DEF IInv, InventoryTypeOK, TypeOK, UserTable
<1>2. EmailsDiffer(users)
  BY DEF IInv, EmailsAreUnique
<1>3. CASE InsertUser(w)
  <2> DEFINE body == request[w].body
             row == [email |-> body.email, status |-> "active",
                     role |-> IF request[w].sawEmpty THEN "admin" ELSE body.role]
  <2>1. /\ request[w].op = "register" /\ request[w].pc = "checked"
        /\ requests' = requests
    BY <1>3 DEF InsertUser, At
  <2>2. body \in [name : Username, email : Email, role : Role]
    BY <2>1, Known DEF ShapeInv, BodyOf
  <2>3. row \in User
    BY <2>2 DEF User, Role
  <2>4. CASE Answer(w, "409") /\ UNCHANGED <<users, rights>>
    BY <2>1, <2>4, AnswerPreserves DEF Reply, OnDevices
  <2>5. CASE /\ ~UniqueViolation(body.name, body.email)
             /\ users' = [n \in DOMAIN users \cup {body.name} |->
                             IF n = body.name THEN row ELSE users[n]]
             /\ Answer(w, "201") /\ Witness
    <3> HIDE DEF row
    <3>1. users' \in [names \cup {body.name} -> User]
      BY <1>1, <2>3, <2>5
    <3>2. users' \in UserTable /\ DOMAIN users \subseteq DOMAIN users' /\ DOMAIN users' # {}
      BY <1>1, <2>2, <3>1 DEF UserTable
    <3>3. row.email = body.email
      BY DEF row
    <3>4. EmailsDiffer(users')
      BY <1>1, <1>2, <2>5, <3>3 DEF EmailsDiffer, UniqueViolation, EmailTaken
    <3> QED
      BY <2>1, <2>5, <3>2, <3>4, UsersChange DEF Reply, OnDevices
  <2> QED
    BY <1>3, <2>4, <2>5 DEF InsertUser
<1>4. CASE CommitPatch(w)
  <2> DEFINE n == request[w].body.name
             change == request[w].body.change
             row == Written(users[n], request[w].loaded, change)
  <2>1. /\ request[w].op = "patch" /\ request[w].pc = "loaded"
        /\ requests' = requests
    BY <1>4 DEF CommitPatch, At
  <2>2. n \in Username /\ change \in UserPatch /\ request[w].loaded \in User
    BY <2>1, Known DEF ShapeInv, BodyOf
  <2>3. CASE Answer(w, "500") /\ UNCHANGED <<users, rights>>
    BY <2>1, <2>3, AnswerPreserves DEF Reply, OnDevices
  <2>4. CASE /\ ~HasNull(change) /\ users' = [users EXCEPT ![n] = row]
             /\ Answer(w, "200") /\ Witness
    <3>1. CASE n \in DOMAIN users
      <4>1. row \in User /\ row.email = users[n].email
        BY <1>1, <2>2, <2>4, <3>1, WrittenUser
      <4> HIDE DEF row
      <4>2. users' \in [names -> User]
        BY <1>1, <2>4, <4>1
      <4>3. users' \in UserTable /\ DOMAIN users \subseteq DOMAIN users' /\ DOMAIN users' # {}
        BY <1>1, <3>1, <4>2 DEF UserTable
      <4>4. EmailsDiffer(users')
        BY <1>1, <1>2, <2>4, <4>1 DEF EmailsDiffer
      <4> QED
        BY <2>1, <2>4, <4>3, <4>4, UsersChange DEF Reply, OnDevices
    <3>2. CASE n \notin DOMAIN users
      <4>1. users' = users
        BY <1>1, <2>4, <3>2
      <4>2. request[w].caller \in DOMAIN users
        BY <2>1, Known DEF RightsInv, Authorised
      <4>3. users' \in UserTable /\ DOMAIN users' # {} /\ EmailsDiffer(users')
        BY <1>1, <1>2, <4>1, <4>2 DEF UserTable
      <4> QED
        BY <2>1, <2>4, <4>1, <4>3, UsersChange DEF Reply, OnDevices
    <3> QED
      BY <3>1, <3>2
  <2> QED
    BY <1>4, <2>3, <2>4 DEF CommitPatch
<1> QED
  BY <1>3, <1>4

\* A change to the devices by a request that goes on as q.
LEMMA DevicesChange ==
    ASSUME IInv, NEW w \in Worker, NEW q \in Request,
           request' = [request EXCEPT ![w] = q],
           UNCHANGED <<users, rights, requests>>,
           nextId' \in Nat, nextId' >= nextId,
           DOMAIN devices' \subseteq 1..(nextId' - 1),
           devices' \in [DOMAIN devices' -> Device],
           AddressesDiffer(devices'),
           \A i \in 1..(nextId - 1) : i \in DOMAIN devices' => i \in DOMAIN devices,
           ShapeInv(q), RightsInv(q, rights[w]), DeviceInv(q)'
    PROVE  IInv'
<1>1. /\ users' \in UserTable /\ rights' \in [Worker -> SUBSET Role] /\ requests' \in Nat
      /\ DOMAIN users \subseteq DOMAIN users'
  BY DEF IInv, InventoryTypeOK, TypeOK
<1>2. \A v \in Worker \ {w} : /\ rights[v] \subseteq rights'[v]
                              /\ RolesOf(users', request[v].caller) \subseteq rights'[v]
  BY DEF IInv, WorkerInv, RightsInv
<1>3. RightsInv(q, rights[w])' /\ EmailsAreUnique' /\ AddressesAreUnique'
  BY DEF RightsInv, IInv, EmailsAreUnique, AddressesAreUnique
<1> QED
  BY <1>1, <1>2, <1>3, StepPreserves

\* INSERT of a device.
LEMMA InsertDevicePreserves ==
    ASSUME IInv, NEW w \in Worker, InsertDevice(w)
    PROVE  IInv'
<1> DEFINE address == request[w].body.ip_address
           row == [ip_address |-> address, status |-> "active"]
<1>1. /\ request[w].op = "create" /\ request[w].pc = "checked"
      /\ nextId' = nextId + 1 /\ UNCHANGED <<users, rights, requests>>
  BY DEF InsertDevice, At
<1>2. /\ nextId \in Nat \ {0} /\ devices \in [DOMAIN devices -> Device]
      /\ DOMAIN devices \subseteq 1..(nextId - 1) /\ AddressesDiffer(devices)
  BY DEF IInv, InventoryTypeOK, AddressesAreUnique
<1>3. row \in Device /\ row.ip_address = address
  BY <1>1, Known DEF ShapeInv, Device
<1>4. nextId' \in Nat /\ nextId' >= nextId /\ nextId' - 1 = nextId
  BY <1>1, <1>2
<1>5. CASE Answer(w, "409") /\ UNCHANGED devices
  <2>1. PICK q \in Request : /\ request' = [request EXCEPT ![w] = q]
                             /\ q.pc = "answered" /\ q.reply = "409"
                             /\ Same(q, request[w])
    BY <1>5, Known, AnswerRecord DEF Reply
  <2>2. ShapeInv(q) /\ RightsInv(q, rights[w])
    BY <1>1, <2>1, AnsweredIsKnown DEF Reply
  <2>3. DeviceInv(q)'
    BY <2>1 DEF DeviceInv
  <2>4. /\ DOMAIN devices' \subseteq 1..(nextId' - 1)
        /\ devices' \in [DOMAIN devices' -> Device] /\ AddressesDiffer(devices')
    BY <1>2, <1>4, <1>5
  <2> QED
    BY <1>1, <1>4, <1>5, <2>1, <2>2, <2>3, <2>4, DevicesChange
<1>6. CASE /\ ~AddressViolation(address, 0)
           /\ devices' = [i \in DOMAIN devices \cup {nextId} |->
                              IF i = nextId THEN row ELSE devices[i]]
           /\ request' = [request EXCEPT ![w].pc = "stored",
                                         ![w].body = [id |-> nextId]]
  <2> DEFINE q == [request[w] EXCEPT !.pc = "stored", !.body = [id |-> nextId]]
  <2>1. request' = [request EXCEPT ![w] = q]
    BY <1>6
  <2>2. [id |-> nextId] \in [id : Nat]
    BY <1>2
  <2>3. /\ q \in Request /\ q.pc = "stored" /\ q.body = [id |-> nextId]
        /\ q.op = request[w].op /\ q.caller = request[w].caller
        /\ q.early = request[w].early /\ q.sawEmpty = request[w].sawEmpty
        /\ q.role = request[w].role /\ q.reply = request[w].reply
    BY <2>2, Known DEF Request, Stage, DeviceBody
  <2>4. q.body.id = nextId
    BY <2>3
  <2> HIDE DEF q, row
  <2>5. ShapeInv(q)
    BY <1>1, <2>2, <2>3, Known DEF ShapeInv, StageOf, BodyOf
  <2>6. RightsInv(q, rights[w])
    BY <1>1, <2>3, Known DEF RightsInv, Authorised, OnDevices
  <2>7. q.reply = None
    BY <1>1, <2>3, Known DEF ShapeInv
  <2>8. q.body.id \in 1..(nextId' - 1)
    BY <1>2, <1>4, <2>4
  <2>9. \E r \in Request : /\ request' = [request EXCEPT ![w] = r]
                           /\ ShapeInv(r) /\ RightsInv(r, rights[w])
                           /\ r.reply = None /\ r.body.id \in 1..(nextId' - 1)
    BY <2>1, <2>3, <2>5, <2>6, <2>7, <2>8
  <2>10. PICK r \in Request : /\ request' = [request EXCEPT ![w] = r]
                              /\ ShapeInv(r) /\ RightsInv(r, rights[w])
                              /\ r.reply = None /\ r.body.id \in 1..(nextId' - 1)
    BY <2>9
  <2>11. DeviceInv(r)'
    BY <2>10 DEF DeviceInv, None
  <2>12. /\ DOMAIN devices' \subseteq 1..(nextId' - 1)
         /\ devices' \in [DOMAIN devices' -> Device]
         /\ \A i \in 1..(nextId - 1) : i \in DOMAIN devices' => i \in DOMAIN devices
    BY <1>2, <1>3, <1>4, <1>6
  <2>13. AddressesDiffer(devices')
    <3>1. \A k \in DOMAIN devices : devices[k].ip_address # address
      BY <1>2, <1>6 DEF AddressViolation, Held
    <3>2. nextId \notin DOMAIN devices
      BY <1>2
    <3> QED
      BY <1>2, <1>3, <1>6, <3>1, <3>2 DEF AddressesDiffer
  <2> QED
    BY <1>1, <1>4, <2>10, <2>11, <2>12, <2>13, DevicesChange
<1> QED
  BY <1>5, <1>6 DEF InsertDevice, Refused

\* UPDATE and DELETE of a device.
LEMMA DeviceWritesPreserve ==
    ASSUME IInv, NEW w \in Worker, CommitUpdate(w) \/ CommitDelete(w)
    PROVE  IInv'
<1> DEFINE i == request[w].body.id
<1>1. /\ nextId \in Nat \ {0} /\ devices \in [DOMAIN devices -> Device]
      /\ DOMAIN devices \subseteq 1..(nextId - 1) /\ AddressesDiffer(devices)
  BY DEF IInv, InventoryTypeOK, AddressesAreUnique
<1>2. UNCHANGED <<users, rights, requests, nextId>>
  BY DEF CommitUpdate, CommitDelete
<1>3. CASE CommitUpdate(w)
  <2> DEFINE loaded == request[w].loaded
             change == request[w].body.change
             dirty == {f \in DOMAIN change : change[f] # loaded[f]}
             row == Written(devices[i], loaded, change)
  <2>1. request[w].op = "update" /\ request[w].pc = "checked"
    BY <1>3 DEF CommitUpdate, At
  <2>2. /\ change \in DeviceChange /\ loaded \in Device
        /\ i \in 1..(nextId - 1)
    BY <2>1, Known DEF ShapeInv, BodyOf, DeviceInv
  <2>3. CASE Proceed(w, "stored") /\ UNCHANGED devices
    BY <1>2, <2>1, <2>3, ProceedPreserves DEF Stage, StageOf, Authorised, OnDevices
  <2>4. CASE i \notin DOMAIN devices /\ Answer(w, "500") /\ UNCHANGED devices
    BY <1>2, <2>1, <2>2, <2>4, AnswerPreserves DEF Reply
  <2>5. CASE Answer(w, "409") /\ UNCHANGED devices
    BY <1>2, <2>1, <2>5, AnswerPreserves DEF Reply
  <2>6. CASE /\ i \in DOMAIN devices /\ ~HasNull(change)
             /\ ~("ip_address" \in dirty /\ AddressViolation(change["ip_address"], i))
             /\ devices' = [devices EXCEPT ![i] = row]
             /\ Proceed(w, "stored")
    <3>1. /\ row \in Device
          /\ \/ row.ip_address = devices[i].ip_address
             \/ "ip_address" \in dirty /\ row.ip_address = change["ip_address"]
      <4>1. devices[i] \in Device /\ ~HasNull(change)
        BY <1>1, <2>6
      <4>2. /\ "ip_address" \in DOMAIN change => change["ip_address"] \in Address
            /\ "status" \in DOMAIN change => change["status"] \in {"active", "inactive"}
        BY <2>2, <4>1, InventoryAssumption DEF HasNull
      <4>3. DOMAIN devices[i] = {"ip_address", "status"}
        BY <4>1 DEF Device
      <4> HIDE DEF i, loaded, change
      <4> QED
        BY <2>2, <4>1, <4>2, <4>3 DEF Written, Device
    <3>2. \A k \in DOMAIN devices \ {i} : devices[k].ip_address # row.ip_address
      BY <1>1, <2>6, <3>1 DEF AddressViolation, Held, AddressesDiffer
    <3> HIDE DEF row
    <3>3. devices' \in [DOMAIN devices -> Device] /\ AddressesDiffer(devices')
      BY <1>1, <2>6, <3>1, <3>2 DEF AddressesDiffer
    <3>4. PICK q \in Request : /\ request' = [request EXCEPT ![w] = q]
                               /\ q.pc = "stored" /\ q.reply = request[w].reply
                               /\ Same(q, request[w])
      BY <2>6, Known, ProceedRecord DEF Stage
    <3>5. ShapeInv(q)
      BY <2>1, <3>4, Known DEF ShapeInv, Same, StageOf
    <3>6. RightsInv(q, rights[w])
      BY <2>1, <3>4, Known DEF RightsInv, Same, Authorised, OnDevices
    <3>7. q.reply = None /\ q.body.id \in 1..(nextId' - 1)
      BY <1>2, <2>1, <2>2, <3>4, Known DEF ShapeInv, Same
    <3>8. DeviceInv(q)'
      BY <3>7 DEF DeviceInv, None
    <3>9. /\ nextId' \in Nat /\ nextId' >= nextId
          /\ DOMAIN devices' \subseteq 1..(nextId' - 1)
          /\ devices' \in [DOMAIN devices' -> Device]
          /\ \A k \in 1..(nextId - 1) : k \in DOMAIN devices' => k \in DOMAIN devices
      BY <1>1, <1>2, <3>3
    <3> QED
      BY <1>2, <3>3, <3>4, <3>5, <3>6, <3>8, <3>9, DevicesChange
  <2> QED
    BY <1>3, <2>3, <2>4, <2>5, <2>6 DEF CommitUpdate, Refused, Change
<1>4. CASE CommitDelete(w)
  <2>1. /\ request[w].op = "delete" /\ request[w].pc = "loaded"
        /\ devices' = [k \in DOMAIN devices \ {i} |-> devices[k]]
        /\ Answer(w, "204")
    BY <1>4 DEF CommitDelete, At
  <2>2. PICK q \in Request : /\ request' = [request EXCEPT ![w] = q]
                             /\ q.pc = "answered" /\ q.reply = "204"
                             /\ Same(q, request[w])
    BY <2>1, Known, AnswerRecord DEF Reply
  <2>3. ShapeInv(q) /\ RightsInv(q, rights[w])
    BY <2>1, <2>2, AnsweredIsKnown DEF Reply
  <2>4. DeviceInv(q)'
    BY <2>2 DEF DeviceInv
  <2>5. /\ nextId' \in Nat /\ nextId' >= nextId
        /\ DOMAIN devices' \subseteq 1..(nextId' - 1)
        /\ devices' \in [DOMAIN devices' -> Device]
        /\ AddressesDiffer(devices')
        /\ \A k \in 1..(nextId - 1) : k \in DOMAIN devices' => k \in DOMAIN devices
    BY <1>1, <1>2, <2>1 DEF AddressesDiffer
  <2> QED
    BY <1>2, <2>2, <2>3, <2>4, <2>5, DevicesChange
<1> QED
  BY <1>3, <1>4

----------------------------------------------------------------------------
(* The invariant *)

\* The invariant holds initially.
LEMMA InitEstablishes == InventoryInit => IInv
<1> SUFFICES ASSUME InventoryInit PROVE IInv
  OBVIOUS
<1>1. /\ users \in UserTable /\ EmailsDiffer(users)
      /\ request = [w \in Worker |-> NoRequest]
      /\ rights = [w \in Worker |-> {}] /\ requests = 0
  BY AccountsAssumption DEF InventoryInit, Init
<1>2. devices \in Seq(Device) /\ AddressesDiffer(devices) /\ nextId = 1 + Len(devices)
  BY InventoryAssumption DEF InventoryInit
<1>3. /\ Len(devices) \in Nat /\ devices \in [1..Len(devices) -> Device]
      /\ DOMAIN devices = 1..Len(devices)
  BY <1>2, LenProperties
<1>4. /\ NoRequest \in Request /\ NoRequest.pc = "idle" /\ NoRequest.op = None
      /\ NoRequest.role = None /\ NoRequest.caller = None
      /\ NoRequest.sawEmpty = FALSE /\ NoRequest.reply = None
  BY DEF Request, NoRequest, Stage, Reply
<1>5. InventoryTypeOK
  BY <1>1, <1>2, <1>3, <1>4 DEF InventoryTypeOK, TypeOK
<1>6. RolesOf(users, None) = {}
  BY <1>1, AccountsAssumption DEF RolesOf, UserTable
<1>7. ASSUME NEW w \in Worker
      PROVE  WorkerInv(w)
  <2>1. request[w] = NoRequest /\ rights[w] = {}
    BY <1>1
  <2>2. ShapeInv(NoRequest)
    BY <1>4 DEF ShapeInv
  <2>3. RightsInv(NoRequest, {})
    BY <1>4, <1>6 DEF RightsInv, Authorised
  <2>4. DeviceInv(NoRequest)
    BY <1>4 DEF DeviceInv, OnDevices, None
  <2> QED
    BY <2>1, <2>2, <2>3, <2>4 DEF WorkerInv
<1> QED
  BY <1>1, <1>2, <1>5, <1>7 DEF IInv, EmailsAreUnique, AddressesAreUnique

\* The invariant is inductive.
LEMMA NextPreserves == IInv /\ [InventoryNext]_inventoryVars => IInv'
<1> SUFFICES ASSUME IInv, [InventoryNext]_inventoryVars PROVE IInv'
  OBVIOUS
<1>1. CASE UNCHANGED inventoryVars
  <2>1. InventoryTypeOK'
    BY <1>1 DEF inventoryVars, accountVars, IInv, InventoryTypeOK, TypeOK
  <2>2. EmailsAreUnique' /\ AddressesAreUnique'
    BY <1>1 DEF inventoryVars, accountVars, IInv, EmailsAreUnique, AddressesAreUnique
  <2>3. ASSUME NEW w \in Worker
        PROVE  WorkerInv(w)'
    BY <1>1 DEF inventoryVars, accountVars, IInv, WorkerInv, RightsInv, DeviceInv
  <2> QED
    BY <2>1, <2>2, <2>3 DEF IInv
<1>2. CASE InventoryNext
  <2>1. PICK w \in Worker :
           \/ /\ ArriveAny(w) \/ ArriveDevice(w) \/ RequestStep(w)
              /\ UNCHANGED <<devices, nextId>>
           \/ DeviceStep(w)
    BY <1>2 DEF InventoryNext
  <2>2. CASE (ArriveAny(w) \/ ArriveDevice(w)) /\ UNCHANGED <<devices, nextId>>
    BY <2>2, ArrivalsPreserve
  <2>3. CASE RequestStep(w) /\ UNCHANGED <<devices, nextId>>
    BY <2>3, AuthenticatePreserves, AccountReadsPreserve, AccountWritesPreserve
    DEF RequestStep
  <2>4. CASE DeviceStep(w)
    BY <2>4, DeviceReadsPreserve, InsertDevicePreserves, DeviceWritesPreserve
    DEF DeviceStep
  <2> QED
    BY <2>1, <2>2, <2>3, <2>4
<1> QED
  BY <1>1, <1>2

\* The inductive invariant holds in every reachable state.
THEOREM Invariance == InventorySpec => []IInv
BY InitEstablishes, NextPreserves, PTL DEF InventorySpec

----------------------------------------------------------------------------
(* Theorems *)

\* Type correctness.
THEOREM TypeCorrectness == InventorySpec => []InventoryTypeOK
<1>1. IInv => InventoryTypeOK
  BY DEF IInv
<1> QED
  BY <1>1, Invariance, PTL

\* No two accounts share an e-mail address and no two devices an address,
\* whatever requests overlap between their queries and their writes.
THEOREM Uniqueness == InventorySpec => [](EmailsAreUnique /\ AddressesAreUnique)
<1>1. IInv => EmailsAreUnique /\ AddressesAreUnique
  BY DEF IInv
<1> QED
  BY <1>1, Invariance, PTL

\* A request for a device fails with an internal error only when the device was
\* deleted while it ran.
THEOREM FailuresNeedDeletion == InventorySpec => []RaisesOnlyIfDeleted
<1>1. IInv => RaisesOnlyIfDeleted
  <2> SUFFICES ASSUME IInv, NEW w \in Worker,
                      request[w].op \notin {"register", "patch"}, request[w].reply = "500"
               PROVE  request[w].body.id \in 1..(nextId - 1) \ DOMAIN devices
    BY DEF RaisesOnlyIfDeleted
  <2>1. request[w].op \in OnDevices
    BY Known DEF ShapeInv, Operation, OnDevices, Request, None, Reply
  <2> QED
    BY <2>1, Known DEF DeviceInv
<1> QED
  BY <1>1, Invariance, PTL

\* A step that writes a table is a step of one request, past its authorisation.
LEMMA OneWriter ==
    ASSUME IInv, [InventoryNext]_inventoryVars, users' # users \/ devices' # devices
    PROVE  \E w \in Worker :
              /\ \A v \in Worker \ {w} : request'[v] = request[v]
              /\ \/ InsertUser(w) \/ CommitPatch(w)
                 \/ InsertDevice(w) \/ CommitUpdate(w) \/ CommitDelete(w)
              /\ users' # users => InsertUser(w) \/ CommitPatch(w)
              /\ devices' # devices => InsertDevice(w) \/ CommitUpdate(w) \/ CommitDelete(w)
<1>1. PICK w \in Worker :
         \/ /\ ArriveAny(w) \/ ArriveDevice(w) \/ RequestStep(w)
            /\ UNCHANGED <<devices, nextId>>
         \/ DeviceStep(w)
  BY DEF InventoryNext, inventoryVars, accountVars
<1>2. users' = users \/ InsertUser(w) \/ CommitPatch(w)
  BY <1>1 DEF ArriveAny, ArriveDevice, Arrive, RequestStep, Authenticate, CheckBootstrap,
              FindUsername, FindEmail, GetUser, DeviceStep, FindExisting, InsertDevice,
              RefreshDevice, GetDevice, CheckAddress, CommitUpdate, CommitDelete
<1>3. devices' = devices \/ InsertDevice(w) \/ CommitUpdate(w) \/ CommitDelete(w)
  BY <1>1 DEF DeviceStep, FindExisting, RefreshDevice, GetDevice, CheckAddress
<1>4. /\ InsertUser(w) \/ CommitPatch(w) => UNCHANGED <<devices, nextId>>
      /\ InsertDevice(w) \/ CommitUpdate(w) \/ CommitDelete(w) => UNCHANGED users
  <2>1. InsertDevice(w) \/ CommitUpdate(w) \/ CommitDelete(w) => UNCHANGED users
    BY DEF InsertDevice, CommitUpdate, CommitDelete
  <2>2. ASSUME InsertUser(w) \/ CommitPatch(w) PROVE UNCHANGED <<devices, nextId>>
    <3>1. request[w].op \in {"register", "patch"} /\ request[w].pc \in {"checked", "loaded"}
      BY <2>2 DEF InsertUser, CommitPatch, At
    <3>2. ~DeviceStep(w)
      BY <3>1 DEF DeviceStep, FindExisting, InsertDevice, RefreshDevice, GetDevice,
                  CheckAddress, CommitUpdate, CommitDelete, At
    <3> QED
      BY <1>1, <3>2
  <2> QED
    BY <2>1, <2>2
<1>5. request \in [Worker -> Request]
  BY DEF IInv, InventoryTypeOK
<1>6. ASSUME InsertUser(w) \/ CommitPatch(w) \/ InsertDevice(w)
             \/ CommitUpdate(w) \/ CommitDelete(w),
             NEW v \in Worker \ {w}
      PROVE  request'[v] = request[v]
  BY <1>5, <1>6 DEF InsertUser, CommitPatch, InsertDevice, CommitUpdate, CommitDelete,
                    Answer, Proceed, Refused
<1> QED
  BY <1>2, <1>3, <1>4, <1>6

\* Accounts are changed only by requests of callers who were administrators at
\* some time since the request arrived, or by the first registrations; devices
\* only by requests of callers who were at least operators.
THEOREM ChangesAreEntitled == InventorySpec => OnlyTheEntitledChange
<1>1. IInv /\ [InventoryNext]_inventoryVars =>
         [\A w \in Worker :
            (users' # users /\ request'[w] # request[w]) =>
                \/ "admin" \in rights[w]
                \/ /\ request[w].caller = None
                   /\ request[w].early
                   /\ users'[request[w].body.name].role = "admin"]_accountVars
  <2> SUFFICES ASSUME IInv, [InventoryNext]_inventoryVars, NEW w \in Worker,
                      users' # users, request'[w] # request[w]
               PROVE  \/ "admin" \in rights[w]
                      \/ /\ request[w].caller = None
                         /\ request[w].early
                         /\ users'[request[w].body.name].role = "admin"
    OBVIOUS
  <2>1. InsertUser(w) \/ CommitPatch(w)
    BY OneWriter
  <2>2. CASE InsertUser(w)
    <3>1. request[w].op = "register" /\ request[w].pc = "checked"
      BY <2>2 DEF InsertUser, At
    <3>2. request[w].sawEmpty \/ request[w].role = "admin"
      BY <3>1, Known DEF RightsInv, Authorised
    <3>3. CASE request[w].role = "admin"
      BY <3>3, Known DEF RightsInv, None
    <3>4. CASE request[w].sawEmpty
      <4>1. request[w].caller = None /\ request[w].early
        BY <3>4, Known DEF RightsInv
      <4>2. users'[request[w].body.name].role = "admin"
        BY <2>2, <3>4 DEF InsertUser
      <4> QED
        BY <4>1, <4>2
    <3> QED
      BY <3>2, <3>3, <3>4
  <2>3. CASE CommitPatch(w)
    BY <2>3, Known DEF CommitPatch, At, RightsInv, Authorised, None
  <2> QED
    BY <2>1, <2>2, <2>3
<1>2. IInv /\ [InventoryNext]_inventoryVars =>
         [\A w \in Worker :
            (devices' # devices /\ request'[w] # request[w]) =>
                rights[w] \cap {"operator", "admin"} # {}]_inventoryVars
  <2> SUFFICES ASSUME IInv, [InventoryNext]_inventoryVars, NEW w \in Worker,
                      devices' # devices, request'[w] # request[w]
               PROVE  rights[w] \cap {"operator", "admin"} # {}
    OBVIOUS
  <2>1. InsertDevice(w) \/ CommitUpdate(w) \/ CommitDelete(w)
    BY OneWriter
  <2>2. request[w].op \in OnDevices /\ request[w].pc \in Authorised
    BY <2>1 DEF InsertDevice, CommitUpdate, CommitDelete, At, OnDevices, Authorised
  <2>3. request[w].role \in {"operator", "admin"} /\ request[w].role \in rights[w]
    BY <2>2, Known DEF RightsInv, None
  <2> QED
    BY <2>3
<1>3. InventorySpec => AccountsChangeByAdmins
  BY <1>1, Invariance, PTL DEF InventorySpec, AccountsChangeByAdmins
<1>4. InventorySpec => InventoryChangesByOperators
  BY <1>2, Invariance, PTL DEF InventorySpec, InventoryChangesByOperators
<1> QED
  BY <1>3, <1>4 DEF OnlyTheEntitledChange

\* A PATCH or an update changes only the row it names and the fields it sets, to
\* the values it sets, whatever overlaps with it.
THEOREM FieldsAreKept == InventorySpec => UpdatesKeepOtherFields
<1>1. IInv /\ [InventoryNext]_inventoryVars =>
         [\A n \in DOMAIN users : \A f \in DOMAIN users[n] :
            users'[n][f] # users[n][f] =>
                \E w \in Worker :
                    /\ request'[w] # request[w]
                    /\ request[w].op = "patch"
                    /\ request[w].body.name = n
                    /\ f \in DOMAIN request[w].body.change
                    /\ users'[n][f] = request[w].body.change[f]]_accountVars
  <2> SUFFICES ASSUME IInv, [InventoryNext]_inventoryVars,
                      NEW n \in DOMAIN users, NEW f \in DOMAIN users[n],
                      users'[n][f] # users[n][f]
               PROVE  \E w \in Worker :
                          /\ request'[w] # request[w]
                          /\ request[w].op = "patch"
                          /\ request[w].body.name = n
                          /\ f \in DOMAIN request[w].body.change
                          /\ users'[n][f] = request[w].body.change[f]
    OBVIOUS
  <2>1. PICK w \in Worker : InsertUser(w) \/ CommitPatch(w)
    BY OneWriter
  <2>2. ~InsertUser(w)
    BY DEF InsertUser, UniqueViolation
  <2>3. /\ request[w].op = "patch" /\ request[w].pc = "loaded"
        /\ users' = [users EXCEPT ![request[w].body.name] =
                        Written(@, request[w].loaded, request[w].body.change)]
        /\ Answer(w, "200")
    BY <2>1, <2>2 DEF CommitPatch, At
  <2>4. n = request[w].body.name
    BY <2>3
  <2>5. /\ f \in DOMAIN request[w].body.change
        /\ users'[n][f] = request[w].body.change[f]
    BY <2>3, <2>4 DEF Written
  <2>6. request'[w] # request[w]
    BY <2>3, Known DEF Answer, Request
  <2> QED
    BY <2>3, <2>4, <2>5, <2>6
<1>2. IInv /\ [InventoryNext]_inventoryVars =>
         [\A i \in DOMAIN devices \cap DOMAIN devices' : \A f \in DOMAIN devices[i] :
            devices'[i][f] # devices[i][f] =>
                \E w \in Worker :
                    /\ request'[w] # request[w]
                    /\ request[w].op = "update"
                    /\ request[w].body.id = i
                    /\ f \in DOMAIN Change(w)
                    /\ devices'[i][f] = Change(w)[f]]_inventoryVars
  <2> SUFFICES ASSUME IInv, [InventoryNext]_inventoryVars,
                      NEW i \in DOMAIN devices, i \in DOMAIN devices',
                      NEW f \in DOMAIN devices[i],
                      devices'[i][f] # devices[i][f]
               PROVE  \E w \in Worker :
                          /\ request'[w] # request[w]
                          /\ request[w].op = "update"
                          /\ request[w].body.id = i
                          /\ f \in DOMAIN Change(w)
                          /\ devices'[i][f] = Change(w)[f]
    OBVIOUS
  <2>1. PICK w \in Worker : InsertDevice(w) \/ CommitUpdate(w) \/ CommitDelete(w)
    BY OneWriter
  <2>2. ~InsertDevice(w)
    <3>1. i # nextId
      BY DEF IInv, InventoryTypeOK
    <3> QED
      BY <3>1 DEF InsertDevice
  <2>3. ~CommitDelete(w)
    BY DEF CommitDelete
  <2>4. /\ request[w].op = "update" /\ request[w].pc = "checked"
        /\ devices' = [devices EXCEPT ![request[w].body.id] =
                          Written(@, request[w].loaded, Change(w))]
        /\ Proceed(w, "stored")
    BY <2>1, <2>2, <2>3 DEF CommitUpdate, At
  <2>5. i = request[w].body.id
    BY <2>4
  <2>6. f \in DOMAIN Change(w) /\ devices'[i][f] = Change(w)[f]
    BY <2>4, <2>5 DEF Written
  <2>7. request'[w] # request[w]
    BY <2>4, Known DEF Proceed, Request
  <2> QED
    BY <2>4, <2>5, <2>6, <2>7
<1>3. InventorySpec => PatchKeepsOtherFields
  BY <1>1, Invariance, PTL DEF InventorySpec, PatchKeepsOtherFields
<1>4. InventorySpec => UpdateKeepsOtherFields
  BY <1>2, Invariance, PTL DEF InventorySpec, UpdateKeepsOtherFields
<1> QED
  BY <1>3, <1>4 DEF UpdatesKeepOtherFields

\* What is refused as a conflict is one at that moment, or sets a column to null.
THEOREM ConflictsHaveReasons == InventorySpec => ConflictHasReason
<1>1. IInv /\ [InventoryNext]_inventoryVars =>
         [\A w \in Worker :
            (request[w].reply # "409" /\ request'[w].reply = "409") =>
                LET body == request[w].body  op == request[w].op IN
                CASE op = "register" ->
                       body.name \in DOMAIN users \/ EmailTaken(body.email)
                  [] op = "create" -> Held(body.ip_address, 0)
                  [] op = "update" ->
                       \/ HasNull(body.change)
                       \/ "ip_address" \in DOMAIN body.change /\
                             Held(body.change["ip_address"], body.id)]_inventoryVars
  <2> DEFINE body(w) == request[w].body
             Reason(w) ==
                \/ /\ request[w].op = "register"
                   /\ body(w).name \in DOMAIN users \/ EmailTaken(body(w).email)
                \/ request[w].op = "create" /\ Held(body(w).ip_address, 0)
                \/ /\ request[w].op = "update"
                   /\ \/ HasNull(body(w).change)
                      \/ /\ "ip_address" \in DOMAIN body(w).change
                         /\ Held(body(w).change["ip_address"], body(w).id)
  <2> SUFFICES ASSUME IInv, [InventoryNext]_inventoryVars, NEW w \in Worker,
                      request[w].reply # "409", request'[w].reply = "409"
               PROVE  Reason(w)
    OBVIOUS
  <2>1. PICK v \in Worker :
           \/ /\ ArriveAny(v) \/ ArriveDevice(v) \/ RequestStep(v)
              /\ UNCHANGED <<devices, nextId>>
           \/ DeviceStep(v)
    BY DEF InventoryNext, inventoryVars, accountVars
  <2>2. request \in [Worker -> Request]
    BY DEF IInv, InventoryTypeOK
  <2>3. /\ request[w] \in Request /\ request[v] \in Request
        /\ \A q : request' = [request EXCEPT ![v] = q] => w = v /\ q.reply = "409"
    BY <2>2
  <2>4. \A reply : Answer(v, reply) => w = v /\ reply = "409"
    <3> SUFFICES ASSUME NEW reply, Answer(v, reply) PROVE w = v /\ reply = "409"
      OBVIOUS
    <3> DEFINE q == [request[v] EXCEPT !.pc = "answered", !.reply = reply]
    <3>1. request' = [request EXCEPT ![v] = q] /\ q.reply = reply
      BY <2>3 DEF Answer, Request
    <3> QED
      BY <2>3, <3>1
  <2>5. \A pc : ~Proceed(v, pc)
    <3> SUFFICES ASSUME NEW pc, Proceed(v, pc) PROVE FALSE
      OBVIOUS
    <3> DEFINE q == [request[v] EXCEPT !.pc = pc]
    <3>1. request' = [request EXCEPT ![v] = q] /\ q.reply = request[v].reply
      BY <2>3 DEF Proceed, Request
    <3> QED
      BY <2>3, <3>1
  <2>6. ~ArriveAny(v) /\ ~ArriveDevice(v)
    <3>1. ASSUME NEW op, NEW caller, NEW content, Arrive(v, op, caller, content)
          PROVE  FALSE
      <4> DEFINE q == [NoRequest EXCEPT !.pc = "called", !.op = op, !.caller = caller,
                                        !.body = content, !.early = DOMAIN users = {}]
      <4>1. request' = [request EXCEPT ![v] = q]
        BY <3>1 DEF Arrive
      <4>2. q.reply = None
        BY DEF NoRequest
      <4> QED
        BY <2>3, <4>1, <4>2 DEF None
    <3> QED
      BY <3>1 DEF ArriveAny, ArriveDevice
  <2>7. ~Authenticate(v)
    <3> SUFFICES ASSUME Authenticate(v) PROVE FALSE
      OBVIOUS
    <3> DEFINE q == [request[v] EXCEPT !.pc = "authorised",
                                       !.role = users[request[v].caller].role,
                                       !.loaded = users[request[v].caller]]
    <3>0. \/ Answer(v, "401") \/ Answer(v, "403") \/ Proceed(v, "authorised")
          \/ request' = [request EXCEPT ![v] = q]
      BY DEF Authenticate
    <3>1. request' = [request EXCEPT ![v] = q]
      <4>1. ~Answer(v, "401") /\ ~Answer(v, "403") /\ ~Proceed(v, "authorised")
        BY <2>4, <2>5
      <4> QED
        BY <3>0, <4>1
    <3>2. q.reply = request[v].reply
      BY <2>3 DEF Request
    <3> QED
      BY <2>3, <3>1, <3>2
  <2>8. ~GetUser(v) /\ ~GetDevice(v)
    <3> SUFFICES ASSUME NEW row,
                        request' = [request EXCEPT ![v].pc = "loaded", ![v].loaded = row]
                 PROVE  FALSE
      BY <2>4 DEF GetUser, GetDevice
    <3> DEFINE q == [request[v] EXCEPT !.pc = "loaded", !.loaded = row]
    <3>1. request' = [request EXCEPT ![v] = q] /\ q.reply = request[v].reply
      BY <2>3 DEF Request
    <3> QED
      BY <2>3, <3>1
  <2>9. ~CheckBootstrap(v)
    <3> SUFFICES ASSUME CheckBootstrap(v) PROVE FALSE
      OBVIOUS
    <3> DEFINE q == [request[v] EXCEPT !.pc = "admitted", !.sawEmpty = TRUE]
    <3>0. \/ Answer(v, "401") \/ Answer(v, "403") \/ Proceed(v, "admitted")
          \/ request' = [request EXCEPT ![v] = q]
      BY DEF CheckBootstrap
    <3>1. request' = [request EXCEPT ![v] = q]
      <4>1. ~Answer(v, "401") /\ ~Answer(v, "403") /\ ~Proceed(v, "admitted")
        BY <2>4, <2>5
      <4> QED
        BY <3>0, <4>1
    <3>2. q.reply = request[v].reply
      BY <2>3 DEF Request
    <3> QED
      BY <2>3, <3>1, <3>2
  <2>10. ~CommitPatch(v) /\ ~RefreshDevice(v) /\ ~CommitDelete(v)
    BY <2>4 DEF CommitPatch, RefreshDevice, CommitDelete
  <2>11. CASE FindUsername(v) \/ FindEmail(v) \/ InsertUser(v)
    BY <2>4, <2>5, <2>11 DEF FindUsername, FindEmail, InsertUser, At, NameTaken,
                             UniqueViolation
  <2>12. ASSUME InsertDevice(v) PROVE Reason(w)
    <3>1. request[v].op = "create"
      BY <2>12 DEF InsertDevice, At
    <3>2. CASE AddressViolation(request[v].body.ip_address, 0)
      BY <2>4, <2>12, <3>1, <3>2 DEF InsertDevice, AddressViolation, Refused
    <3>3. CASE ~AddressViolation(request[v].body.ip_address, 0)
      <4> DEFINE q == [request[v] EXCEPT !.pc = "stored", !.body = [id |-> nextId]]
      <4>1. request' = [request EXCEPT ![v] = q]
        BY <2>12, <3>3 DEF InsertDevice
      <4>2. q.reply = request[v].reply
        BY <2>3 DEF Request
      <4> QED
        BY <2>3, <4>1, <4>2
    <3> QED
      BY <3>2, <3>3
  <2>13. CASE FindExisting(v)
    BY <2>4, <2>5, <2>13 DEF FindExisting, At, FindHolder
  <2>14. CASE CheckAddress(v)
    BY <2>4, <2>5, <2>14 DEF CheckAddress, At, FindHolder, Change
  <2>15. CASE CommitUpdate(v)
    <3> DEFINE i == request[v].body.id
               dirty == {f \in DOMAIN Change(v) : Change(v)[f] # request[v].loaded[f]}
    <3>1. request[v].op = "update"
      BY <2>15 DEF CommitUpdate, At
    <3>2. ~Proceed(v, "stored") /\ ~Answer(v, "500")
      BY <2>4, <2>5
    <3>3. \/ HasNull(Change(v))
          \/ "ip_address" \in dirty /\ AddressViolation(Change(v)["ip_address"], i)
      BY <2>15, <3>2 DEF CommitUpdate
    <3>4. w = v
      BY <2>4, <2>15, <3>2 DEF CommitUpdate, Refused
    <3> QED
      BY <3>1, <3>3, <3>4 DEF AddressViolation, Change
  <2> QED
    BY <2>1, <2>6, <2>7, <2>8, <2>9, <2>10, <2>11, <2>12, <2>13, <2>14, <2>15
    DEF RequestStep, DeviceStep
<1> QED
  BY <1>1, Invariance, PTL DEF InventorySpec, ConflictHasReason
=============================================================================
