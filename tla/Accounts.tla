------------------------------ MODULE Accounts ------------------------------
(***************************************************************************)
(* Accounts of NetAutoOps and the authorisation of requests: get_current_  *)
(* user reads the caller's row at the start of a request, POST             *)
(* /auth/register checks the table, the username and the e-mail address    *)
(* one query after the other before it inserts, PATCH /auth/users/{id}     *)
(* writes the fields that differ from what its session loaded.  Requests   *)
(* run in threads of the server, each in a session of its own; every query *)
(* sees what has been committed by then.                                   *)
(*                                                                         *)
(* An account is known by its username: usernames and ids are never        *)
(* changed, and accounts are never deleted.                                *)
(***************************************************************************)
EXTENDS Naturals

CONSTANTS
    Username,     \* usernames that may be registered
    Email,        \* e-mail addresses
    UserPatch,    \* bodies of PATCH: functions from the fields set to values
    FoundUsers,   \* contents table users may have when the server starts
    Worker,       \* threads that may run a request
    MaxRequests   \* bound: requests that arrive

None == "none"
Null == "null"    \* an explicit null in a request's body
Empty == <<>>     \* no body read, no row loaded yet

Role == {"viewer", "operator", "admin"}
ROLE_LEVEL == [viewer |-> 0, operator |-> 1, admin |-> 2]

\* columns of table users besides the username
User == [email : Email, role : Role, status : {"active", "inactive"}]
UserTable == UNION {[names -> User] : names \in SUBSET Username}

EmailsDiffer(table) ==
    \A m, n \in DOMAIN table : m # n => table[m].email # table[n].email

ASSUME AccountsAssumption ==
    /\ None \notin Username
    /\ FoundUsers \subseteq {table \in UserTable : EmailsDiffer(table)}
    /\ UserPatch \subseteq
          UNION {[fields -> Role \cup {"active", "inactive", Null}] :
                    fields \in SUBSET {"role", "status"}}
    /\ \A p \in UserPatch :
          /\ "role" \in DOMAIN p => p["role"] \in Role \cup {Null}
          /\ "status" \in DOMAIN p => p["status"] \in {"active", "inactive", Null}
    /\ MaxRequests \in Nat

VARIABLES
    users,     \* table users: a function from the usernames registered
    request,   \* per worker: the request it runs and how far it is
    rights,    \* auxiliary: roles the caller held, active, since its request arrived
    requests   \* requests so far

accountVars == <<users, request, rights, requests>>

UserBody ==
    [name : Username, email : Email, role : Role] \cup
    [name : Username, change : UserPatch]

\* role, sawEmpty: what the queries so far have answered; loaded: the row the
\* session holds; early, auxiliary: no account existed when the request arrived
NoRequest == [pc |-> "idle", op |-> None, caller |-> None, body |-> Empty,
              role |-> None, sawEmpty |-> FALSE, loaded |-> Empty,
              early |-> FALSE, reply |-> None]

Stage == {"idle", "called", "authorised", "admitted", "named", "checked",
          "loaded", "stored", "answered"}
Reply == {None, "200", "201", "204", "401", "403", "404", "409", "500"}

Active(n) == n \in DOMAIN users /\ users[n].status = "active"

\* the roles n holds while active
RolesOf(table, n) ==
    {table[m].role : m \in {k \in DOMAIN table : k = n /\ table[k].status = "active"}}

Answer(w, reply) ==
    request' = [request EXCEPT ![w].pc = "answered", ![w].reply = reply]

Proceed(w, pc) == request' = [request EXCEPT ![w].pc = pc]

At(w, op, pc) == request[w].op = op /\ request[w].pc = pc

----------------------------------------------------------------------------
(* Authorisation *)

\* a request arrives, with the token of an account or with none
Arrive(w, op, caller, body) ==
    /\ request[w].pc \in {"idle", "answered"}
    /\ requests < MaxRequests
    /\ caller \in DOMAIN users \cup {None}
    /\ request' = [request EXCEPT ![w] =
                     [NoRequest EXCEPT !.pc = "called", !.op = op, !.caller = caller,
                                       !.body = body, !.early = DOMAIN users = {}]]
    /\ rights' = [rights EXCEPT ![w] = RolesOf(users, caller)]
    /\ requests' = requests + 1
    /\ UNCHANGED users

\* the least role each endpoint asks for (register: no role yet)
Required(op) == CASE op = "register" -> "viewer"
                  [] op = "patch"    -> "admin"
                  [] OTHER           -> "operator"

MayEnter(role, op) == ROLE_LEVEL[role] >= ROLE_LEVEL[Required(op)]

\* get_current_user, get_optional_current_user, require_role: a missing token
\* is tolerated by register only, one that has expired never
Authenticate(w) ==
    /\ request[w].pc = "called"
    /\ \/ /\ request[w].caller = None
          /\ IF request[w].op = "register" THEN Proceed(w, "authorised")
             ELSE Answer(w, "401")
       \/ request[w].caller # None /\ Answer(w, "401")  \* expired
       \/ /\ request[w].caller # None
          /\ ~Active(request[w].caller)
          /\ Answer(w, "401")
       \/ /\ Active(request[w].caller)
          /\ LET role == users[request[w].caller].role IN
             IF MayEnter(role, request[w].op)
             THEN request' = [request EXCEPT
                                ![w].pc = "authorised", ![w].role = role,
                                ![w].loaded = users[request[w].caller]]
             ELSE Answer(w, "403")
    /\ UNCHANGED <<users, rights, requests>>

----------------------------------------------------------------------------
(* POST /auth/register *)

\* mutant: registration reopens when no administrator is left
UsersExist_Admins == \E n \in DOMAIN users : Active(n) /\ users[n].role = "admin"

UsersExist == DOMAIN users # {}

CheckBootstrap(w) ==
    /\ At(w, "register", "authorised")
    /\ CASE ~UsersExist ->
              request' = [request EXCEPT ![w].pc = "admitted", ![w].sawEmpty = TRUE]
         [] UsersExist /\ request[w].caller = None -> Answer(w, "401")
         [] UsersExist /\ request[w].caller # None ->
              IF ROLE_LEVEL[request[w].role] < ROLE_LEVEL["admin"]
              THEN Answer(w, "403")
              ELSE Proceed(w, "admitted")
    /\ UNCHANGED <<users, rights, requests>>

NameTaken(name) == name \in DOMAIN users

FindUsername(w) ==
    /\ At(w, "register", "admitted")
    /\ IF NameTaken(request[w].body.name) THEN Answer(w, "409")
       ELSE Proceed(w, "named")
    /\ UNCHANGED <<users, rights, requests>>

EmailTaken(email) == \E n \in DOMAIN users : users[n].email = email

FindEmail(w) ==
    /\ At(w, "register", "named")
    /\ IF EmailTaken(request[w].body.email) THEN Answer(w, "409")
       ELSE Proceed(w, "checked")
    /\ UNCHANGED <<users, rights, requests>>

\* what the unique constraints of the table refuse
UniqueViolation(name, email) == name \in DOMAIN users \/ EmailTaken(email)

\* what the auxiliary variable makes of a change to the table
Witness == rights' = [w \in Worker |-> rights[w] \cup RolesOf(users', request[w].caller)]

\* INSERT and COMMIT; a refused one is rolled back and answered like a taken name
InsertUser(w) ==
    /\ At(w, "register", "checked")
    /\ LET body == request[w].body
           row  == [email |-> body.email, status |-> "active",
                    role |-> IF request[w].sawEmpty THEN "admin" ELSE body.role]
       IN  IF UniqueViolation(body.name, body.email)
           THEN Answer(w, "409") /\ UNCHANGED <<users, rights>>
           ELSE /\ users' = [n \in DOMAIN users \cup {body.name} |->
                                IF n = body.name THEN row ELSE users[n]]
                /\ Answer(w, "201")
                /\ Witness
    /\ UNCHANGED requests

----------------------------------------------------------------------------
(* PATCH /auth/users/{user_id} *)

\* the caller's own row is in the session since it authenticated, and a query
\* that finds it again does not refresh it
GetUser(w) ==
    /\ At(w, "patch", "authorised")
    /\ LET n == request[w].body.name IN
       IF n \notin DOMAIN users THEN Answer(w, "404")
       ELSE request' = [request EXCEPT
                          ![w].pc = "loaded",
                          ![w].loaded = IF n = request[w].caller THEN @ ELSE users[n]]
    /\ UNCHANGED <<users, rights, requests>>

\* mutant: the row is written as it was loaded, with the change applied
Written_WholeRow(row, loaded, change) ==
    [f \in DOMAIN row |-> IF f \in DOMAIN change THEN change[f] ELSE loaded[f]]

\* the UPDATE a flush emits: the columns set to something else than was loaded
Written(row, loaded, change) ==
    [f \in DOMAIN row |-> IF f \in DOMAIN change /\ change[f] # loaded[f]
                          THEN change[f] ELSE row[f]]

HasNull(change) == \E f \in DOMAIN change : change[f] = Null

\* setattr, COMMIT and refresh; the columns are NOT NULL and nothing catches
\* the refusal
CommitPatch(w) ==
    /\ At(w, "patch", "loaded")
    /\ LET n == request[w].body.name  change == request[w].body.change IN
       IF HasNull(change)
       THEN Answer(w, "500") /\ UNCHANGED <<users, rights>>
       ELSE /\ users' = [users EXCEPT ![n] = Written(@, request[w].loaded, change)]
            /\ Answer(w, "200")
            /\ Witness
    /\ UNCHANGED requests

----------------------------------------------------------------------------
Init ==
    /\ users \in FoundUsers
    /\ request = [w \in Worker |-> NoRequest]
    /\ rights = [w \in Worker |-> {}]
    /\ requests = 0

ArriveAny(w) ==
    \E caller \in DOMAIN users \cup {None}, body \in UserBody :
       Arrive(w, IF "email" \in DOMAIN body THEN "register" ELSE "patch", caller, body)

RequestStep(w) ==
    \/ Authenticate(w)
    \/ CheckBootstrap(w) \/ FindUsername(w) \/ FindEmail(w) \/ InsertUser(w)
    \/ GetUser(w) \/ CommitPatch(w)

Next == \E w \in Worker : ArriveAny(w) \/ RequestStep(w)

Spec == Init /\ [][Next]_accountVars

----------------------------------------------------------------------------
(* Properties *)

\* the type of request depends on the other endpoints: see Inventory
TypeOK ==
    /\ users \in UserTable
    /\ rights \in [Worker -> SUBSET Role]
    /\ requests \in Nat

\* No two accounts share an e-mail address, whatever registrations overlap.
EmailsAreUnique == EmailsDiffer(users)

\* Accounts change only by requests of those who, at some time since the request
\* arrived, were active administrators ("takes effect on the very next
\* request"), with one exception: requests without a token that arrived while
\* there was no account, and they add administrators only.  So once the last
\* administrator is demoted or deactivated, accounts never change again:
\* nothing reopens registration.
AccountsChangeByAdmins ==
    [][\A w \in Worker :
        (users' # users /\ request'[w] # request[w]) =>
            \/ "admin" \in rights[w]
            \/ /\ request[w].caller = None
               /\ request[w].early
               /\ users'[request[w].body.name].role = "admin"]_accountVars

\* A PATCH changes only the account it names and the fields it sets, to the
\* values it sets: two that overlap do not undo each other's fields.
PatchKeepsOtherFields ==
    [][\A n \in DOMAIN users : \A f \in DOMAIN users[n] :
        users'[n][f] # users[n][f] =>
            \E w \in Worker :
                /\ request'[w] # request[w]
                /\ request[w].op = "patch"
                /\ request[w].body.name = n
                /\ f \in DOMAIN request[w].body.change
                /\ users'[n][f] = request[w].body.change[f]]_accountVars

=============================================================================
