-------------------------- MODULE WebSessionProofs --------------------------
(***************************************************************************)
(* Theorems about WebSession, for any tokens, accounts and pages: type     *)
(* correctness, that the user shown owns the token that is sent as long as *)
(* no login overlaps another call, and what may end a session.             *)
(***************************************************************************)
EXTENDS WebSession, TLAPS

\* a call of a slot
CallRecord == [pc : {"idle", "sent", "replied"}, asks : {None, "login", "me", "page"},
               with : Token \cup {None}, reply : {None, "ok", "401", "failed"},
               got : Token \cup {None}]

\* Each slot asks for what it is there for, and asks about a token it has.
CallInv(s) ==
    /\ call[s].asks = "me" => call[s].with # None
    /\ (call[s].pc = "replied" /\ call[s].asks = "login" /\ call[s].reply = "ok") =>
          call[s].got # None

InFlight(s) == call[s].pc # "idle"
Alone(s) == \A q \in Slot : InFlight(q) => q = s

\* Without overlapping logins the load check and a login run on their own, on
\* the token of the session they are about, and so do the pages' calls.
OverlapInv ==
    ~overlap =>
        /\ InFlight(Load) => /\ status = "loading" /\ Alone(Load)
                             /\ token # None /\ call[Load].with = token
        /\ InFlight(Login) => /\ status = "unauthenticated" /\ Alone(Login)
                              /\ call[Login].asks \in {"login", "me"}
                              /\ call[Login].asks = "me" => call[Login].with = token
        /\ status = "loading" => InFlight(Load)
        /\ status = "authenticated" => token # None /\ user = OwnerOf[token]
        /\ \A p \in Page : (InFlight(p) /\ token # None) => call[p].with = token

IInv == TypeOK /\ (\A s \in Slot : CallInv(s)) /\ OverlapInv

----------------------------------------------------------------------------
(* Lemmas *)

\* Replacing the call of one slot leaves the others alone.
LEMMA CallUpdate ==
    ASSUME call \in [Slot -> CallRecord], NEW s \in Slot, NEW c \in CallRecord,
           call' = [call EXCEPT ![s] = c]
    PROVE  /\ call' \in [Slot -> CallRecord]
           /\ call'[s] = c
           /\ \A q \in Slot \ {s} : call'[q] = call[q]
OBVIOUS

\* Slots and calls.
LEMMA Slots ==
    /\ Load \in Slot /\ Login \in Slot /\ Load # Login
    /\ Page \subseteq Slot /\ Load \notin Page /\ Login \notin Page
    /\ NoCall \in CallRecord /\ NoCall.pc = "idle" /\ NoCall.asks = None
    /\ None \notin Token
BY WebSessionAssumption DEF Slot, Load, Login, NoCall, CallRecord, None

\* What a call that is sent is.
LEMMA SentCall ==
    ASSUME NEW a \in {"login", "me", "page"}, NEW t \in Token \cup {None}
    PROVE  /\ Sent(a, t) \in CallRecord
           /\ Sent(a, t).pc = "sent" /\ Sent(a, t).asks = a /\ Sent(a, t).with = t
BY DEF Sent, NoCall, CallRecord, None

\* A call that is answered is answered.
LEMMA ReplyUpdate ==
    ASSUME call \in [Slot -> CallRecord], NEW s \in Slot,
           NEW r \in {"ok", "401", "failed"}, NEW t \in Token \cup {None},
           Reply(s, r, t)
    PROVE  /\ call' \in [Slot -> CallRecord]
           /\ call'[s].pc = "replied" /\ call'[s].reply = r /\ call'[s].got = t
           /\ call'[s].asks = call[s].asks /\ call'[s].with = call[s].with
           /\ \A q \in Slot \ {s} : call'[q] = call[q]
<1> DEFINE c == [call[s] EXCEPT !.pc = "replied", !.reply = r, !.got = t]
<1>1. call[s] \in CallRecord
  OBVIOUS
<1>2. /\ c \in CallRecord /\ c.pc = "replied" /\ c.reply = r /\ c.got = t
      /\ c.asks = call[s].asks /\ c.with = call[s].with
  BY <1>1 DEF CallRecord
<1>3. call' = [call EXCEPT ![s] = c]
  BY DEF Reply
<1> HIDE DEF c
<1> QED
  BY <1>2, <1>3, CallUpdate

\* The owner of a token is an account.
LEMMA Owners == \A t \in Token : OwnerOf[t] \in Account
BY DEF Account

\* What a page finds in localStorage when it is loaded, and the check it starts.
LEMMA LoadedState ==
    ASSUME token \in Token \cup {None}
    PROVE  /\ LoadedStatus \in {"loading", "unauthenticated"}
           /\ LoadedStatus = "loading" <=> token # None
           /\ LoadedCalls \in [Slot -> CallRecord]
           /\ \A s \in Slot : LoadedCalls[s] =
                 IF s = Load /\ token # None THEN Sent("me", token) ELSE NoCall
<1>1. token # None => Sent("me", token) \in CallRecord
  BY SentCall
<1> QED
  BY <1>1, Slots DEF LoadedStatus, LoadedCalls

\* A page that has just been loaded satisfies the invariant.
LEMMA LoadedIsInvariant ==
    ASSUME token' \in Token \cup {None}, token' = token,
           user' = None, status' = LoadedStatus, call' = LoadedCalls,
           submitting' = FALSE, overlap' = FALSE,
           valid' \subseteq issued', issued' \subseteq Token, reloads' \in 0..MaxReloads
    PROVE  IInv'
<1>1. /\ status' \in {"loading", "unauthenticated"}
      /\ status' = "loading" <=> token # None
      /\ call' \in [Slot -> CallRecord]
      /\ \A s \in Slot : call'[s] =
            IF s = Load /\ token # None THEN Sent("me", token) ELSE NoCall
  BY LoadedState
<1>2. TypeOK'
  BY <1>1 DEF TypeOK, CallRecord
<1>3. token # None => /\ Sent("me", token).pc = "sent"
                      /\ Sent("me", token).asks = "me" /\ Sent("me", token).with = token
  BY SentCall
<1>4. ASSUME NEW s \in Slot
      PROVE  CallInv(s)'
  BY <1>1, <1>3, Slots DEF CallInv, None
<1>5. OverlapInv'
  BY <1>1, <1>3, Slots DEF OverlapInv, InFlight, Alone
<1> QED
  BY <1>2, <1>4, <1>5 DEF IInv

\* The invariant holds initially.
LEMMA InitEstablishes == Init => IInv
<1> SUFFICES ASSUME Init PROVE IInv
  OBVIOUS
<1>1. /\ LoadedStatus \in {"loading", "unauthenticated"}
      /\ LoadedStatus = "loading" <=> token # None
      /\ LoadedCalls \in [Slot -> CallRecord]
      /\ \A s \in Slot : LoadedCalls[s] =
            IF s = Load /\ token # None THEN Sent("me", token) ELSE NoCall
  BY LoadedState DEF Init
<1>2. TypeOK
  <2>1. valid \subseteq issued /\ issued \subseteq Token
    BY DEF Init
  <2>2. reloads \in 0..MaxReloads
    BY WebSessionAssumption DEF Init
  <2> QED
    BY <1>1, <2>1, <2>2 DEF Init, TypeOK, CallRecord
<1>3. token # None => /\ Sent("me", token).pc = "sent"
                      /\ Sent("me", token).asks = "me" /\ Sent("me", token).with = token
  BY SentCall DEF Init
<1>4. ASSUME NEW s \in Slot
      PROVE  CallInv(s)
  BY <1>1, <1>3, Slots DEF Init, CallInv, None
<1>5. OverlapInv
  BY <1>1, <1>3, Slots DEF Init, OverlapInv, InFlight, Alone
<1> QED
  BY <1>2, <1>4, <1>5 DEF IInv

\* The server, the network and the clock of its tokens do not touch the tab.
LEMMA ServerPreserves ==
    ASSUME IInv, \/ \E s \in Slot : Serve(s) \/ Fail(s)
                 \/ \E t \in Token : Revoke(t)
    PROVE  IInv'
<1>1. /\ TypeOK /\ call \in [Slot -> CallRecord] /\ OverlapInv
      /\ \A s \in Slot : CallInv(s)
  BY DEF IInv, TypeOK, CallRecord
<1>2. CASE \E t \in Token : Revoke(t)
  <2>1. TypeOK'
    BY <1>1, <1>2 DEF TypeOK, Revoke, shown, aux
  <2>2. OverlapInv' /\ \A s \in Slot : CallInv(s)'
    BY <1>1, <1>2 DEF OverlapInv, CallInv, InFlight, Alone, Revoke, shown, aux
  <2> QED
    BY <2>1, <2>2 DEF IInv
<1>3. CASE \E s \in Slot : Serve(s) \/ Fail(s)
  <2>1. PICK s \in Slot : Serve(s) \/ Fail(s)
    BY <1>3
  <2>2. /\ UNCHANGED <<shown, submitting, aux>>
        /\ valid' \subseteq issued' /\ issued' \subseteq Token
        /\ call[s].pc = "sent"
    BY <1>1, <2>1 DEF Serve, Fail, TypeOK, server
  <2>3. PICK r \in {"ok", "401", "failed"}, t \in Token \cup {None} :
           /\ Reply(s, r, t)
           /\ (call[s].asks = "login" /\ r = "ok") => t # None
    <3>1. CASE Fail(s)
      BY <3>1 DEF Fail
    <3>2. CASE Serve(s) /\ call[s].asks = "login"
      BY <3>2, Slots DEF Serve
    <3>3. CASE Serve(s) /\ call[s].asks # "login"
      BY <3>3 DEF Serve
    <3> QED
      BY <2>1, <3>1, <3>2, <3>3
  <2>4. /\ call' \in [Slot -> CallRecord]
        /\ call'[s].pc = "replied" /\ call'[s].reply = r /\ call'[s].got = t
        /\ call'[s].asks = call[s].asks /\ call'[s].with = call[s].with
        /\ \A q \in Slot \ {s} : call'[q] = call[q]
    BY <1>1, <2>3, ReplyUpdate
  <2>5. TypeOK'
    BY <1>1, <2>2, <2>4 DEF TypeOK, CallRecord, shown, aux
  <2>6. ASSUME NEW q \in Slot
        PROVE  CallInv(q)'
    BY <1>1, <2>3, <2>4 DEF CallInv
  <2>7. \A q \in Slot : /\ InFlight(q)' <=> InFlight(q)
                        /\ call'[q].asks = call[q].asks /\ call'[q].with = call[q].with
    BY <2>2, <2>4 DEF InFlight
  <2>8. OverlapInv'
    BY <1>1, <2>2, <2>7, Slots DEF OverlapInv, Alone, shown, aux
  <2> QED
    BY <2>5, <2>6, <2>8 DEF IInv
<1> QED
  BY <1>2, <1>3

\* A slot whose call ends, while the session changes as ClearSession or
\* ShowUser does or not at all.
LEMMA DonePreserves ==
    ASSUME IInv, NEW s \in Slot, Done(s), InFlight(s),
           UNCHANGED <<valid, issued, aux>>, submitting' \in BOOLEAN,
           \/ ClearSession
           \/ UNCHANGED shown /\ s # Load
           \/ /\ ShowUser(s) /\ call[s].with # None
              /\ ~overlap => s \in {Load, Login} /\ call[s].with = token
    PROVE  IInv'
<1>1. /\ TypeOK /\ call \in [Slot -> CallRecord] /\ OverlapInv
      /\ \A q \in Slot : CallInv(q)
      /\ call[s] \in CallRecord
  BY DEF IInv, TypeOK, CallRecord
<1>2. /\ call' \in [Slot -> CallRecord]
      /\ call'[s] = NoCall
      /\ \A q \in Slot \ {s} : call'[q] = call[q]
  <2>1. call' = [call EXCEPT ![s] = NoCall]
    BY DEF Done
  <2> QED
    BY <1>1, <2>1, CallUpdate, Slots
<1>3. /\ token' \in Token \cup {None} /\ user' \in Account \cup {None}
      /\ status' \in {"loading", "authenticated", "unauthenticated"}
  BY <1>1, Owners DEF ClearSession, ShowUser, shown, TypeOK, CallRecord
<1>4. TypeOK'
  BY <1>1, <1>2, <1>3 DEF TypeOK, CallRecord, aux
<1>5. ASSUME NEW q \in Slot
      PROVE  CallInv(q)'
  BY <1>1, <1>2, Slots DEF CallInv, None
<1>6. /\ ~InFlight(s)'
      /\ \A q \in Slot : InFlight(q)' => q # s /\ InFlight(q) /\ call'[q] = call[q]
  BY <1>2, Slots DEF InFlight
<1>7. ASSUME ~overlap
      PROVE  /\ InFlight(Load)' => /\ status' = "loading" /\ Alone(Load)'
                                   /\ token' # None /\ call'[Load].with = token'
             /\ InFlight(Login)' =>
                   /\ status' = "unauthenticated" /\ Alone(Login)'
                   /\ call'[Login].asks \in {"login", "me"}
                   /\ call'[Login].asks = "me" => call'[Login].with = token'
  <2>1. ~InFlight(Load)' /\ (InFlight(Login)' => FALSE)
    BY <1>1, <1>6, <1>7, Slots DEF OverlapInv, Alone
  <2> QED
    BY <2>1
<1>8. ASSUME ~overlap
      PROVE  /\ status' = "loading" => InFlight(Load)'
             /\ status' = "authenticated" => token' # None /\ user' = OwnerOf[token']
             /\ \A p \in Page : (InFlight(p)' /\ token' # None) => call'[p].with = token'
  <2>1. CASE ClearSession
    BY <2>1 DEF ClearSession
  <2>2. CASE UNCHANGED shown /\ s # Load
    BY <1>1, <1>2, <1>6, <1>8, <2>2, Slots DEF shown, OverlapInv, InFlight
  <2>3. CASE ShowUser(s) /\ call[s].with # None /\ s \in {Load, Login} /\ call[s].with = token
    BY <1>1, <1>6, <1>8, <2>3, Slots DEF ShowUser, OverlapInv, Alone
  <2> QED
    BY <1>8, <2>1, <2>2, <2>3
<1>9. OverlapInv'
  BY <1>7, <1>8 DEF OverlapInv, aux
<1> QED
  BY <1>4, <1>5, <1>9 DEF IInv

\* Answers handled by the tab, other than the token of a login.
LEMMA AnswersPreserve ==
    ASSUME IInv, LoadAnswered \/ LoginEnds \/ \E p \in Page : PageAnswered(p)
    PROVE  IInv'
<1>1. /\ TypeOK /\ OverlapInv /\ \A q \in Slot : CallInv(q)
  BY DEF IInv
<1>2. CASE LoadAnswered
  <2>1. Done(Load) /\ InFlight(Load) /\ UNCHANGED <<submitting, aux, valid, issued>>
    BY <1>2 DEF LoadAnswered, Replied, InFlight, server
  <2>2. ClearSession \/ (ShowUser(Load) /\ call[Load].asks = "me")
    BY <1>2 DEF LoadAnswered, Replied, LoadFailure
  <2>3. call[Load].asks = "me" => call[Load].with # None
    BY <1>1, Slots DEF CallInv
  <2>4. ~overlap => call[Load].with = token
    BY <1>1, <2>1 DEF OverlapInv
  <2> QED
    BY <1>1, <2>1, <2>2, <2>3, <2>4, Slots, DonePreserves DEF TypeOK
<1>3. CASE LoginEnds
  <2>1. Done(Login) /\ InFlight(Login) /\ UNCHANGED <<aux, valid, issued>>
    BY <1>3 DEF LoginEnds, InFlight, server
  <2>2. submitting' \in BOOLEAN
    BY <1>3 DEF LoginEnds
  <2>3. \/ ClearSession \/ UNCHANGED shown
        \/ ShowUser(Login) /\ call[Login].asks = "me"
    BY <1>3 DEF LoginEnds, Replied
  <2>4. call[Login].asks = "me" => /\ call[Login].with # None
                                   /\ ~overlap => call[Login].with = token
    BY <1>1, <2>1, Slots DEF CallInv, OverlapInv
  <2> QED
    BY <2>1, <2>2, <2>3, <2>4, Slots, DonePreserves
<1>4. CASE \E p \in Page : PageAnswered(p)
  <2>1. PICK p \in Page : PageAnswered(p)
    BY <1>4
  <2>2. Done(p) /\ InFlight(p) /\ UNCHANGED <<submitting, aux, valid, issued>>
    BY <2>1 DEF PageAnswered, Replied, InFlight, server
  <2>3. ClearSession \/ UNCHANGED shown
    BY <2>1 DEF PageAnswered, Unauthorised
  <2>4. p \in Slot /\ p # Load /\ submitting' \in BOOLEAN
    BY <1>1, <2>2, Slots DEF TypeOK
  <2> QED
    BY <2>2, <2>3, <2>4, DonePreserves
<1> QED
  BY <1>2, <1>3, <1>4

\* A login is submitted, its token arrives and is asked for its user, a page
\* calls.
LEMMA CallsPreserve ==
    ASSUME IInv, Submit \/ LoginAccepted \/ \E p \in Page : CallApi(p)
    PROVE  IInv'
<1>1. /\ TypeOK /\ call \in [Slot -> CallRecord] /\ OverlapInv
      /\ \A q \in Slot : CallInv(q)
  BY DEF IInv, TypeOK, CallRecord
<1>2. CASE Submit
  <2>1. /\ Sent("login", None) \in CallRecord
        /\ Sent("login", None).pc = "sent" /\ Sent("login", None).asks = "login"
    BY SentCall
  <2>2. /\ call' = [call EXCEPT ![Login] = Sent("login", None)]
        /\ UNCHANGED <<shown, valid, issued, reloads>> /\ submitting' = TRUE
        /\ status # "authenticated" /\ call[Login].pc = "idle"
    BY <1>2 DEF Submit, server
  <2>3. /\ call' \in [Slot -> CallRecord] /\ call'[Login] = Sent("login", None)
        /\ \A q \in Slot \ {Login} : call'[q] = call[q]
    BY <1>1, <2>1, <2>2, CallUpdate, Slots
  <2>4. /\ overlap' \in BOOLEAN
        /\ ~overlap' => ~overlap /\ \A q \in Slot : ~InFlight(q)
    BY <1>1, <1>2 DEF Submit, InFlight, TypeOK
  <2>5. TypeOK'
    BY <1>1, <2>2, <2>3, <2>4 DEF TypeOK, CallRecord, shown
  <2>6. ASSUME NEW q \in Slot
        PROVE  CallInv(q)'
    BY <1>1, <2>1, <2>3 DEF CallInv
  <2>7. ASSUME ~overlap'
        PROVE  OverlapInv'
    <3>1. /\ ~overlap /\ \A q \in Slot : ~InFlight(q)
          /\ \A q \in Slot : InFlight(q)' => q = Login
      BY <2>3, <2>4, <2>7 DEF InFlight
    <3>2. status = "unauthenticated"
      BY <1>1, <2>2, <3>1, Slots DEF OverlapInv, TypeOK
    <3> QED
      BY <2>1, <2>2, <2>3, <3>1, <3>2, Slots DEF OverlapInv, Alone, shown
  <2>8. OverlapInv'
    BY <2>7 DEF OverlapInv
  <2> QED
    BY <2>5, <2>6, <2>8 DEF IInv
<1>3. CASE LoginAccepted
  <2> DEFINE t == call[Login].got
  <2>1. /\ token' = t /\ call' = [call EXCEPT ![Login] = Sent("me", t)]
        /\ UNCHANGED <<user, status, submitting, aux, valid, issued>>
        /\ InFlight(Login) /\ call[Login].asks = "login"
        /\ call[Login].pc = "replied" /\ call[Login].reply = "ok"
    BY <1>3 DEF LoginAccepted, AccessToken, Replied, InFlight, server
  <2>2. t \in Token
    BY <1>1, <2>1, Slots DEF CallInv, CallRecord
  <2> HIDE DEF t
  <2>3. /\ Sent("me", t) \in CallRecord /\ Sent("me", t).pc = "sent"
        /\ Sent("me", t).asks = "me" /\ Sent("me", t).with = t /\ t # None
    BY <2>2, SentCall, Slots
  <2>4. /\ call' \in [Slot -> CallRecord] /\ call'[Login] = Sent("me", t)
        /\ \A q \in Slot \ {Login} : call'[q] = call[q]
    BY <1>1, <2>1, <2>3, CallUpdate, Slots
  <2>5. TypeOK'
    BY <1>1, <2>1, <2>2, <2>4 DEF TypeOK, CallRecord, aux
  <2>6. ASSUME NEW q \in Slot
        PROVE  CallInv(q)'
    BY <1>1, <2>3, <2>4 DEF CallInv
  <2>7. ASSUME ~overlap
        PROVE  /\ status = "unauthenticated" /\ Alone(Login)
               /\ Alone(Login)'
    BY <1>1, <2>1, <2>4, <2>7, Slots DEF OverlapInv, Alone, InFlight
  <2>8. OverlapInv'
    BY <1>1, <2>1, <2>3, <2>4, <2>7, Slots DEF OverlapInv, Alone, aux, InFlight
  <2> QED
    BY <2>5, <2>6, <2>8 DEF IInv
<1>4. CASE \E p \in Page : CallApi(p)
  <2>1. PICK p \in Page : CallApi(p)
    BY <1>4
  <2>2. /\ call' = [call EXCEPT ![p] = Sent("page", token)]
        /\ UNCHANGED <<shown, submitting, aux, valid, issued>>
        /\ status = "authenticated" /\ call[p].pc = "idle" /\ p \in Slot
    BY <2>1, Slots DEF CallApi, server
  <2>3. /\ Sent("page", token) \in CallRecord /\ Sent("page", token).pc = "sent"
        /\ Sent("page", token).asks = "page" /\ Sent("page", token).with = token
    BY <1>1, SentCall DEF TypeOK
  <2>4. /\ call' \in [Slot -> CallRecord] /\ call'[p] = Sent("page", token)
        /\ \A q \in Slot \ {p} : call'[q] = call[q]
    BY <1>1, <2>2, <2>3, CallUpdate
  <2>5. TypeOK'
    BY <1>1, <2>2, <2>4 DEF TypeOK, CallRecord, shown, aux
  <2>6. ASSUME NEW q \in Slot
        PROVE  CallInv(q)'
    BY <1>1, <2>3, <2>4 DEF CallInv
  <2>7. ASSUME ~overlap
        PROVE  ~InFlight(Load)' /\ ~InFlight(Login)'
    BY <1>1, <2>1, <2>2, <2>4, <2>7, Slots DEF OverlapInv, InFlight
  <2>8. OverlapInv'
    BY <1>1, <2>2, <2>3, <2>4, <2>7, Slots DEF OverlapInv, shown, aux, InFlight
  <2> QED
    BY <2>5, <2>6, <2>8 DEF IInv
<1> QED
  BY <1>2, <1>3, <1>4

\* The user logs out or loads the page again.
LEMMA LeavingPreserves == ASSUME IInv, Reload \/ Logout PROVE IInv'
<1>1. /\ TypeOK /\ OverlapInv /\ \A q \in Slot : CallInv(q)
  BY DEF IInv
<1>2. CASE Reload
  <2>1. /\ token' = token /\ user' = None /\ status' = LoadedStatus
        /\ call' = LoadedCalls /\ submitting' = FALSE /\ overlap' = FALSE
        /\ UNCHANGED <<valid, issued>>
    BY <1>2 DEF Reload, server
  <2>2. reloads' \in 0..MaxReloads
    BY <1>1, <1>2, WebSessionAssumption DEF Reload, TypeOK
  <2> QED
    BY <1>1, <2>1, <2>2, LoadedIsInvariant DEF TypeOK
<1>3. CASE Logout
  <2>1. /\ token' = None /\ user' = None /\ status' = "unauthenticated"
        /\ UNCHANGED <<submitting, call, aux, valid, issued>>
        /\ status = "authenticated"
    BY <1>3 DEF Logout, ClearSession, server
  <2>2. TypeOK'
    BY <1>1, <2>1 DEF TypeOK, aux
  <2>3. OverlapInv' /\ \A q \in Slot : CallInv(q)'
    BY <1>1, <2>1 DEF OverlapInv, CallInv, InFlight, Alone, aux
  <2> QED
    BY <2>2, <2>3 DEF IInv
<1> QED
  BY <1>2, <1>3

\* The invariant is inductive.
LEMMA NextPreserves == IInv /\ [Next]_sessionVars => IInv'
<1> SUFFICES ASSUME IInv, [Next]_sessionVars PROVE IInv'
  OBVIOUS
<1>1. CASE UNCHANGED sessionVars
  <2>1. TypeOK'
    BY <1>1 DEF sessionVars, IInv, TypeOK
  <2>2. OverlapInv' /\ \A q \in Slot : CallInv(q)'
    BY <1>1 DEF sessionVars, IInv, OverlapInv, CallInv, InFlight, Alone
  <2> QED
    BY <2>1, <2>2 DEF IInv
<1> QED
  BY <1>1, ServerPreserves, AnswersPreserve, CallsPreserve, LeavingPreserves
  DEF Next, Answered

\* The inductive invariant holds in every reachable state.
THEOREM Invariance == Spec => []IInv
BY InitEstablishes, NextPreserves, PTL DEF Spec

----------------------------------------------------------------------------
(* Theorems *)

\* Type correctness.
THEOREM TypeCorrectness == Spec => []TypeOK
<1>1. IInv => TypeOK
  BY DEF IInv
<1> QED
  BY <1>1, Invariance, PTL

\* As long as no login overlaps another call, the account the tab shows is the
\* owner of the token it sends, however late answers arrive.
THEOREM ShownUserIsTheCaller == Spec => []ShownUserOwnsToken
<1>1. IInv => ShownUserOwnsToken
  BY DEF IInv, OverlapInv, ShownUserOwnsToken
<1> QED
  BY <1>1, Invariance, PTL

\* A session ends by logout, a 401 or a failed load check; without overlapping
\* logins the call was made with its own token, or was a refused login while no
\* session was shown.
THEOREM SessionsEndByThemselves == Spec => SessionEndsByItself
<1> DEFINE EndedBy(s) ==
       /\ call[s].pc = "replied" /\ call'[s] = NoCall
       /\ call[s].reply = "401" \/ (s = Load /\ (status = "loading" \/ overlap))
       /\ \/ overlap
          \/ call[s].with = token
          \/ call[s].asks = "login" /\ status = "unauthenticated"
           Reason == token # None /\ token' = None =>
       (status = "authenticated" /\ UNCHANGED call) \/ \E s \in Slot : EndedBy(s)
<1>1. IInv /\ [Next]_sessionVars => [Reason]_sessionVars
  <2> SUFFICES ASSUME IInv, Next, token # None, token' = None
               PROVE  (status = "authenticated" /\ UNCHANGED call)
                      \/ \E s \in Slot : EndedBy(s)
    OBVIOUS
  <2>1. /\ TypeOK /\ call \in [Slot -> CallRecord] /\ OverlapInv
        /\ \A q \in Slot : CallInv(q)
    BY DEF IInv, TypeOK, CallRecord
  <2>2. ASSUME NEW s \in Slot, Done(s)
        PROVE  call'[s] = NoCall
    BY <2>1, <2>2 DEF Done
  <2>3. CASE LoadAnswered
    <3>1. call[Load].pc = "replied" /\ call'[Load] = NoCall
      BY <2>2, <2>3, Slots DEF LoadAnswered, Replied
    <3>2. ~overlap => status = "loading" /\ call[Load].with = token
      BY <2>1, <3>1 DEF OverlapInv, InFlight
    <3> QED
      BY <3>1, <3>2, Slots
  <2>4. CASE LoginEnds
    <3>1. call[Login].pc = "replied" /\ call'[Login] = NoCall
      BY <2>2, <2>4, Slots DEF LoginEnds
    <3>2. call[Login].reply = "401"
      BY <2>4 DEF LoginEnds, ShowUser, shown
    <3>3. \/ overlap
          \/ call[Login].with = token
          \/ call[Login].asks = "login" /\ status = "unauthenticated"
      BY <2>1, <3>1 DEF OverlapInv, InFlight
    <3> QED
      BY <3>1, <3>2, <3>3, Slots
  <2>5. CASE \E p \in Page : PageAnswered(p)
    <3>1. PICK p \in Page : PageAnswered(p)
      BY <2>5
    <3>2. call[p].pc = "replied" /\ call'[p] = NoCall /\ call[p].reply = "401"
      BY <2>2, <3>1, Slots DEF PageAnswered, Replied, EndsSession, shown
    <3>3. overlap \/ call[p].with = token
      BY <2>1, <3>2 DEF OverlapInv, InFlight
    <3> QED
      BY <3>2, <3>3, Slots
  <2>6. CASE LoginAccepted
    BY <2>1, <2>6, Slots DEF LoginAccepted, AccessToken, Replied, CallInv
  <2>7. CASE Logout
    BY <2>7 DEF Logout
  <2>8. CASE Reload \/ Submit \/ \E p \in Page : CallApi(p)
    BY <2>8 DEF Reload, Submit, CallApi, shown
  <2>9. CASE (\E s \in Slot : Serve(s) \/ Fail(s)) \/ \E t \in Token : Revoke(t)
    BY <2>9 DEF Serve, Fail, Revoke, shown
  <2> QED
    BY <2>3, <2>4, <2>5, <2>6, <2>7, <2>8, <2>9 DEF Next, Answered
<1> QED
  BY <1>1, Invariance, PTL DEF Spec, SessionEndsByItself

=============================================================================
