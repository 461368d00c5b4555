----------------------------- MODULE WebSession -----------------------------
(***************************************************************************)
(* The session of the NetAutoOps frontend in one browser tab: AuthProvider *)
(* keeps the token (in a ref and in localStorage, always both), the user   *)
(* shown and a status; apiFetch sends calls with the token of the moment   *)
(* and clears the session on every 401.  The check of a stored token at    *)
(* load, a login and the pages' polling are in flight at once, and their   *)
(* answers arrive in any order.                                            *)
(***************************************************************************)
EXTENDS Naturals

CONSTANTS
    Token,      \* tokens the server may issue
    OwnerOf,    \* the account each is issued for
    Page,       \* calls a page may have in flight at once
    MaxReloads  \* bound: times the user reloads the page

None == "none"
Load == "load"      \* the check of a stored token when the page loads
Login == "login"    \* POST /auth/login, then GET /auth/me
Slot == {Load, Login} \cup Page

ASSUME WebSessionAssumption ==
    /\ None \notin Token
    /\ {Load, Login} \cap Page = {}
    /\ DOMAIN OwnerOf = Token
    /\ MaxReloads \in Nat

VARIABLES
    token,       \* tokenRef.current and localStorage
    user,        \* the user shown: an account or None
    status,      \* loading, authenticated or unauthenticated
    submitting,  \* the login form is disabled
    call,        \* per slot: the call in flight
    valid,       \* the tokens the server accepts
    issued,      \* the tokens it has issued
    overlap,     \* auxiliary: since the page was loaded, a login was submitted
                 \* while another call was in flight
    reloads      \* reloads so far

shown == <<token, user, status>>
server == <<valid, issued>>
sessionVars == <<token, user, status, submitting, call, valid, issued, overlap, reloads>>
aux == <<overlap, reloads>>

\* asks: what the call is; with: its token; got: the token it was answered
NoCall == [pc |-> "idle", asks |-> None, with |-> None, reply |-> None, got |-> None]

Sent(asks, with) == [NoCall EXCEPT !.pc = "sent", !.asks = asks, !.with = with]

Replied(s, asks, reply) ==
    call[s].pc = "replied" /\ call[s].asks = asks /\ call[s].reply \in reply

----------------------------------------------------------------------------
(* The server and the network *)

Reply(s, reply, got) ==
    call' = [call EXCEPT ![s].pc = "replied", ![s].reply = reply, ![s].got = got]

\* /auth/login: right or wrong credentials; anything else: the token decides
Serve(s) ==
    /\ call[s].pc = "sent"
    /\ \/ /\ call[s].asks = "login"
          /\ \/ Reply(s, "401", None) /\ UNCHANGED server
             \/ \E t \in Token \ issued :
                   /\ Reply(s, "ok", t)
                   /\ valid' = valid \cup {t}
                   /\ issued' = issued \cup {t}
       \/ /\ call[s].asks # "login"
          /\ Reply(s, IF call[s].with \in valid THEN "ok" ELSE "401", None)
          /\ UNCHANGED server
    /\ UNCHANGED <<shown, submitting, aux>>

\* the API is unreachable, or answers with another error
Fail(s) ==
    /\ call[s].pc = "sent"
    /\ Reply(s, "failed", None)
    /\ UNCHANGED <<shown, submitting, aux, server>>

\* a token expires, or its account is deactivated
Revoke(t) ==
    /\ t \in valid
    /\ valid' = valid \ {t}
    /\ UNCHANGED <<shown, submitting, aux, call, issued>>

----------------------------------------------------------------------------
(* What the user does *)

\* the page is (re)loaded: nothing but localStorage survives, and the mount
\* effect checks a token it finds there
LoadedStatus == IF token = None THEN "unauthenticated" ELSE "loading"
LoadedCalls == [s \in Slot |-> IF s = Load /\ token # None
                               THEN Sent("me", token) ELSE NoCall]

Reload ==
    /\ reloads < MaxReloads
    /\ reloads' = reloads + 1
    /\ user' = None
    /\ status' = LoadedStatus
    /\ call' = LoadedCalls
    /\ submitting' = FALSE
    /\ overlap' = FALSE
    /\ UNCHANGED <<token, server>>

\* the login page redirects once authenticated; it does not wait for "loading".
\* One login at a time: a login page left and opened again would submit another
\* while the first is in flight, which is left out (it is an overlap as well).
Submit ==
    /\ status # "authenticated"
    /\ ~submitting
    /\ call[Login].pc = "idle"
    /\ submitting' = TRUE
    /\ call' = [call EXCEPT ![Login] = Sent("login", None)]
    /\ overlap' = (overlap \/ \E s \in Slot : call[s].pc # "idle")
    /\ UNCHANGED <<shown, server, reloads>>

\* mutant: the status is left as it was
ClearSession_KeepsStatus ==
    /\ token' = None
    /\ user' = None
    /\ UNCHANGED status

\* clearSession
ClearSession ==
    /\ token' = None
    /\ user' = None
    /\ status' = "unauthenticated"

Logout ==
    /\ status = "authenticated"
    /\ ClearSession
    /\ UNCHANGED <<submitting, call, aux, server>>

\* a page that RequireAuth lets render fetches, polls, or saves something
CallApi(p) ==
    /\ status = "authenticated"
    /\ call[p].pc = "idle"
    /\ call' = [call EXCEPT ![p] = Sent("page", token)]
    /\ UNCHANGED <<shown, submitting, aux, server>>

----------------------------------------------------------------------------
(* Answers reach the tab *)

\* setUser(me), setStatus("authenticated"): the account the token asked about
ShowUser(s) ==
    /\ user' = OwnerOf[call[s].with]
    /\ status' = "authenticated"
    /\ UNCHANGED token

Done(s) == call' = [call EXCEPT ![s] = NoCall]

\* mutant: the load check has no catch, only apiFetch's reaction to a 401
LoadFailure_Uncaught == {"401"}

\* what ends the load check in its catch
LoadFailure == {"401", "failed"}

LoadAnswered ==
    /\ \/ Replied(Load, "me", {"ok"}) /\ ShowUser(Load)
       \/ Replied(Load, "me", LoadFailure) /\ ClearSession
       \/ Replied(Load, "me", {"failed"} \ LoadFailure) /\ UNCHANGED shown
    /\ Done(Load)
    /\ UNCHANGED <<submitting, aux, server>>

\* const { access_token } = ...
AccessToken(answer) == answer.got

\* the token of the answer is stored, and asked for its user
LoginAccepted ==
    /\ Replied(Login, "login", {"ok"})
    /\ token' = AccessToken(call[Login])
    /\ call' = [call EXCEPT ![Login] = Sent("me", token')]
    /\ UNCHANGED <<user, status, submitting, aux, server>>

\* finally { setSubmitting(false) }, whatever the answers were
LoginEnds ==
    /\ \/ Replied(Login, "me", {"ok"}) /\ ShowUser(Login)
       \/ call[Login].reply = "401" /\ ClearSession
       \/ call[Login].reply = "failed" /\ UNCHANGED shown
    /\ call[Login].pc = "replied"
    /\ submitting' = FALSE
    /\ Done(Login)
    /\ UNCHANGED <<aux, server>>

\* mutant: a page shows the error of a 401 instead of ending the session
Unauthorised_Ignored == UNCHANGED shown

\* onUnauthorized
Unauthorised == ClearSession

\* mutant: a call that did not reach the API ends the session as well
EndsSession_AnyFailure == {"401", "failed"}

\* response.status === 401
EndsSession == {"401"}

PageAnswered(p) ==
    /\ \/ Replied(p, "page", {"ok", "failed"} \ EndsSession) /\ UNCHANGED shown
       \/ Replied(p, "page", EndsSession) /\ Unauthorised
    /\ Done(p)
    /\ UNCHANGED <<submitting, aux, server>>

----------------------------------------------------------------------------
Init ==
    /\ token \in Token \cup {None}
    /\ issued = Token \cap {token}
    /\ valid \in SUBSET issued
    /\ user = None
    /\ status = LoadedStatus
    /\ submitting = FALSE
    /\ call = LoadedCalls
    /\ overlap = FALSE
    /\ reloads = 0

Answered == LoadAnswered \/ LoginAccepted \/ LoginEnds \/ \E p \in Page : PageAnswered(p)

Next ==
    \/ Reload \/ Submit \/ Logout
    \/ \E p \in Page : CallApi(p)
    \/ \E s \in Slot : Serve(s) \/ Fail(s)
    \/ \E t \in Token : Revoke(t)
    \/ Answered

\* every call is answered or fails, answers are handled; the landing page
\* polls, and it is not always the network that answers
Fairness ==
    /\ \A s \in Slot : WF_sessionVars(Serve(s) \/ Fail(s))
    /\ WF_sessionVars(LoadAnswered) /\ WF_sessionVars(LoginAccepted) /\ WF_sessionVars(LoginEnds)
    /\ \A p \in Page : /\ WF_sessionVars(PageAnswered(p))
                       /\ WF_sessionVars(CallApi(p))
                       /\ SF_sessionVars(Serve(p))

Spec == Init /\ [][Next]_sessionVars /\ Fairness

----------------------------------------------------------------------------
(* Properties *)

Account == {OwnerOf[t] : t \in Token}

TypeOK ==
    /\ token \in Token \cup {None}
    /\ user \in Account \cup {None}
    /\ status \in {"loading", "authenticated", "unauthenticated"}
    /\ {submitting, overlap} \subseteq BOOLEAN
    /\ call \in [Slot -> [pc : {"idle", "sent", "replied"},
                          asks : {None, "login", "me", "page"},
                          with : Token \cup {None},
                          reply : {None, "ok", "401", "failed"},
                          got : Token \cup {None}]]
    /\ valid \subseteq issued
    /\ issued \subseteq Token
    /\ reloads \in 0..MaxReloads

\* As long as nobody submits the login form while another call is in flight,
\* the user shown is the owner of the token that is sent with every call: late
\* answers of pages, logouts and reloads cannot part the two.
ShownUserOwnsToken ==
    ~overlap /\ status = "authenticated" =>
        token # None /\ user = OwnerOf[token]

\* A stored token is dropped only by logout, by a 401, or by a load check that
\* fails in any way; an unreachable API never ends a session that is shown.
\* Without overlap the call was made with that very token, or it was a refused
\* login and no session was shown: one whose token was stored but whose user
\* could not be fetched is dropped when the password is mistyped next.
SessionEndsByItself ==
    [][token # None /\ token' = None =>
        \/ status = "authenticated" /\ UNCHANGED call
        \/ \E s \in Slot :
              /\ call[s].pc = "replied" /\ call'[s] = NoCall
              /\ call[s].reply = "401" \/ (s = Load /\ (status = "loading" \/ overlap))
              /\ \/ overlap
                 \/ call[s].with = token
                 \/ call[s].asks = "login" /\ status = "unauthenticated"]_sessionVars

\* "Checking session..." ends.
LoadingEnds == status = "loading" ~> status # "loading"

\* The login form does not stay disabled.
SubmitEnds == submitting ~> ~submitting

\* Both: the user is never kept waiting for good.
WaitsEnd == LoadingEnds /\ SubmitEnds

\* On a page that polls, a session whose token the server no longer accepts
\* ends, also one that overlapping answers left without a token.
RevokedSessionEnds ==
    [](status = "authenticated" /\ token \notin valid =>
          <>(status # "authenticated" \/ token \in valid))

=============================================================================
