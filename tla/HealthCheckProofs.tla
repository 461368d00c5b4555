-------------------------- MODULE HealthCheckProofs --------------------------
(***************************************************************************)
(* Safety of HealthCheck and HealthJob for any number of devices, threads, *)
(* requests and crashes: type correctness, what makes a check raise, the   *)
(* record behind every event, the event behind every outage that was       *)
(* recorded, recoveries, and what the scheduled job counts. The invariants *)
(* of the checks are shared by the requests and the job; that the record   *)
(* shown as latest is fresh holds of the requests only.                    *)
(***************************************************************************)
EXTENDS HealthJob, FiniteSetTheorems, TLAPS

Probing == {"authenticated", "called", "compared", "probed"}
Stored == {"saved", "refreshed", "loaded"}

\* ids and checked_at of rows are behind the counters they came from
RowsInOrder ==
    \A r \in health :
        /\ r.id < nextId
        /\ r.at <= clock
        /\ r.began <= nextId

\* the same for the row a worker is about to store
NextRowInOrder(w) ==
    /\ session[w].at <= clock
    /\ check[w].began <= nextId

\* a check past get_device is of a device that exists or existed
DeviceIsKnown(w) ==
    check[w].pc \notin {"idle", "authenticated"} =>
        check[w].dev \in devices \cup deleted

\* once saved, the record a worker reports is there or was cascaded away
RecordIsKnown(w) ==
    /\ check[w].pc \in Stored \cup {"probed"} => check[w].found \in Status
    /\ check[w].pc \in Stored =>
          \/ check[w].dev \in deleted
          \/ RecordOf(check[w].dev, check[w].row, check[w].found)

\* the two ways to raise both need a deletion
RaiseIsExplained(w) ==
    /\ session[w].broken => check[w].pc = "raised" /\ session[w].loaded = {}
    /\ check[w].pc = "raised" => check[w].dev \in deleted

WorkerInOrder(w) ==
    /\ NextRowInOrder(w)
    /\ DeviceIsKnown(w)
    /\ RecordIsKnown(w)
    /\ RaiseIsExplained(w)

IInv ==
    /\ TypeOK
    /\ RowsInOrder
    /\ EventHasRecord
    /\ \A w \in Worker : WorkerInOrder(w)

-----------------------------------------------------------------------------
(* What an update of one worker's records does *)

\* Replacing one worker's check leaves the others' alone.
LEMMA CheckUpdate ==
  ASSUME check \in [Worker -> Check], NEW w \in Worker, NEW c \in Check,
         check' = [check EXCEPT ![w] = c]
  PROVE  /\ check' \in [Worker -> Check]
         /\ check'[w] = c
         /\ \A v \in Worker \ {w} : check'[v] = check[v]
  OBVIOUS

\* The same for its session.
LEMMA SessionUpdate ==
  ASSUME session \in [Worker -> Session], NEW w \in Worker, NEW s \in Session,
         session' = [session EXCEPT ![w] = s]
  PROVE  /\ session' \in [Worker -> Session]
         /\ session'[w] = s
         /\ \A v \in Worker \ {w} : session'[v] = session[v]
  OBVIOUS

\* Goto moves one worker on and touches nothing else of its check.
LEMMA GotoUpdate ==
  ASSUME check \in [Worker -> Check], NEW w \in Worker, NEW stage \in Stage,
         Goto(w, stage)
  PROVE  /\ check' \in [Worker -> Check]
         /\ check'[w] = [check[w] EXCEPT !.pc = stage]
         /\ check'[w].pc = stage
         /\ check'[w].dev = check[w].dev
         /\ check'[w].began = check[w].began
         /\ check'[w].found = check[w].found
         /\ check'[w].row = check[w].row
         /\ \A v \in Worker \ {w} : check'[v] = check[v]
  <1>1. check[w] \in Check
    OBVIOUS
  <1>2. [check[w] EXCEPT !.pc = stage] \in Check
    BY <1>1 DEF Check
  <1>3. check' = [check EXCEPT ![w] = [check[w] EXCEPT !.pc = stage]]
    BY DEF Goto
  <1>4. /\ check' \in [Worker -> Check]
        /\ check'[w] = [check[w] EXCEPT !.pc = stage]
        /\ \A v \in Worker \ {w} : check'[v] = check[v]
    BY <1>2, <1>3, CheckUpdate
  <1> QED BY <1>1, <1>4 DEF Check

\* Opening a transaction dates the session and keeps whether it is broken.
LEMMA BeginUpdate ==
  ASSUME session \in [Worker -> Session], clock \in Nat, NEW w \in Worker,
         BeginTransaction(w, {})
  PROVE  /\ session' \in [Worker -> Session]
         /\ session'[w].at = clock + 1
         /\ session'[w].broken = session[w].broken
         /\ \A v \in Worker \ {w} : session'[v] = session[v]
         /\ clock' = clock + 1
  <1> DEFINE s == [session[w] EXCEPT !.loaded = {}, !.at = clock + 1]
  <1>1. session[w] \in Session /\ clock + 1 \in Nat
    OBVIOUS
  <1>2. s \in Session /\ s.at = clock + 1 /\ s.broken = session[w].broken
    BY <1>1 DEF Session
  <1>3. session' = [session EXCEPT ![w] = s] /\ clock' = clock + 1
    BY DEF BeginTransaction
  <1> HIDE DEF s
  <1> QED BY <1>2, <1>3, SessionUpdate

\* Loading a device's attributes changes nothing the invariant reads.
LEMMA LoadUpdate ==
  ASSUME session \in [Worker -> Session], NEW w \in Worker,
         NEW L \in SUBSET Device, session' = [session EXCEPT ![w].loaded = L]
  PROVE  /\ session' \in [Worker -> Session]
         /\ session'[w].at = session[w].at
         /\ session'[w].broken = session[w].broken
         /\ \A v \in Worker \ {w} : session'[v] = session[v]
  <1> DEFINE s == [session[w] EXCEPT !.loaded = L]
  <1>1. session[w] \in Session
    OBVIOUS
  <1>2. s \in Session /\ s.at = session[w].at /\ s.broken = session[w].broken
    BY <1>1 DEF Session
  <1>3. session' = [session EXCEPT ![w] = s]
    OBVIOUS
  <1> HIDE DEF s
  <1> QED BY <1>2, <1>3, SessionUpdate

\* A step that leaves the database and the events alone keeps the order of the
\* rows, the events' records, and what is known of every worker it does not
\* move.
LEMMA QuietStep ==
  ASSUME IInv, UNCHANGED <<database, events>>, clock' \in Nat, clock' >= clock
  PROVE  /\ RowsInOrder'
         /\ EventHasRecord'
         /\ \A v \in Worker : check'[v] = check[v] /\ session'[v] = session[v]
                                => WorkerInOrder(v)'
  <1>1. RowsInOrder'
    BY DEF IInv, TypeOK, RowsInOrder, database, Row
  <1>2. EventHasRecord'
    BY DEF IInv, EventHasRecord, RecordOf, HealthOf, database
  <1>3. ASSUME NEW v \in Worker, check'[v] = check[v], session'[v] = session[v]
        PROVE  WorkerInOrder(v)'
    <2>1. NextRowInOrder(v)'
      BY <1>3 DEF IInv, TypeOK, WorkerInOrder, NextRowInOrder, Session, database
    <2> QED
      BY <1>3, <2>1 DEF IInv, WorkerInOrder, DeviceIsKnown, RecordIsKnown,
         RaiseIsExplained, RecordOf, HealthOf, database
  <1> QED BY <1>1, <1>2, <1>3

-----------------------------------------------------------------------------
(* The invariant holds initially and is kept by every action *)

\* The initial states satisfy it.
LEMMA InitHolds == Init => IInv
  BY DEF Init, IInv, TypeOK, RowsInOrder, EventHasRecord, WorkerInOrder,
     NextRowInOrder, DeviceIsKnown, RecordIsKnown, RaiseIsExplained, NoCheck,
     NoSession, Check, Session, Stage, Status, None, Probing, Stored, Row, Event

\* A request's first query fixes what its row will be dated.
LEMMA AuthenticateHolds ==
  ASSUME IInv, NEW w \in Worker, NEW d \in Device, Authenticate(w, d)
  PROVE  IInv'
  <1> DEFINE c == [NoCheck EXCEPT !.pc = "authenticated", !.dev = d, !.began = nextId]
  <1>1. c \in Check /\ c.pc = "authenticated" /\ c.began = nextId
    BY DEF IInv, TypeOK, NoCheck, Check, Stage, None
  <1>2. check' = [check EXCEPT ![w] = c]
    BY DEF Authenticate
  <1> HIDE DEF c
  <1>3. /\ check' \in [Worker -> Check]
        /\ check'[w] = c
        /\ \A v \in Worker \ {w} : check'[v] = check[v]
    BY <1>1, <1>2, CheckUpdate DEF IInv, TypeOK
  <1>4. /\ session' \in [Worker -> Session]
        /\ session'[w].at = clock + 1
        /\ session'[w].broken = session[w].broken
        /\ \A v \in Worker \ {w} : session'[v] = session[v]
        /\ clock' = clock + 1
    BY BeginUpdate DEF IInv, TypeOK, Authenticate
  <1>5. TypeOK'
    BY <1>3, <1>4 DEF IInv, TypeOK, Authenticate, database
  <1>6. ~session[w].broken
    BY DEF IInv, WorkerInOrder, RaiseIsExplained, Authenticate, TypeOK, Session
  <1>7. WorkerInOrder(w)'
    BY <1>1, <1>3, <1>4, <1>6 DEF IInv, TypeOK, RowsInOrder, WorkerInOrder,
       NextRowInOrder, DeviceIsKnown, RecordIsKnown, RaiseIsExplained,
       Authenticate, database, Probing, Stored, Row
  <1>8. clock' \in Nat /\ clock' >= clock
    BY <1>4 DEF IInv, TypeOK
  <1> QED BY <1>3, <1>4, <1>5, <1>7, <1>8, QuietStep DEF IInv, Authenticate

\* NoCheck and NoSession say nothing that could be wrong.
LEMMA IdleWorker ==
  ASSUME IInv, NEW w \in Worker, check'[w] = NoCheck, session'[w] = NoSession,
         clock' \in Nat, nextId' \in Nat
  PROVE  WorkerInOrder(w)'
  BY DEF WorkerInOrder, NextRowInOrder, DeviceIsKnown, RecordIsKnown,
     RaiseIsExplained, NoCheck, NoSession, Probing, Stored

\* NoCheck and NoSession are records of the right kind.
LEMMA IdleTypes == NoCheck \in Check /\ NoSession \in Session
  BY DEF NoCheck, NoSession, Check, Session, Stage, None

\* get_device finds the device or answers 404.
LEMMA GetDeviceHolds ==
  ASSUME IInv, NEW w \in Worker, GetDevice(w)
  PROVE  IInv'
  <1>1. CASE check[w].dev \in devices
    <2>1. Goto(w, "called") /\ session' = [session EXCEPT ![w].loaded = {check[w].dev}]
      BY <1>1 DEF GetDevice
    <2>2. /\ check' \in [Worker -> Check]
          /\ check'[w].pc = "called"
          /\ check'[w].dev = check[w].dev
          /\ check'[w].began = check[w].began
          /\ \A v \in Worker \ {w} : check'[v] = check[v]
      BY <2>1, GotoUpdate DEF IInv, TypeOK, Stage
    <2>3. /\ session' \in [Worker -> Session]
          /\ session'[w].at = session[w].at
          /\ session'[w].broken = session[w].broken
          /\ \A v \in Worker \ {w} : session'[v] = session[v]
      <3> DEFINE L == {check[w].dev}
      <3>1. L \in SUBSET Device /\ session' = [session EXCEPT ![w].loaded = L]
        BY <1>1, <2>1 DEF IInv, TypeOK
      <3> HIDE DEF L
      <3> QED BY <3>1, LoadUpdate DEF IInv, TypeOK
    <2>4. TypeOK'
      BY <2>2, <2>3 DEF IInv, TypeOK, GetDevice, database
    <2>5. WorkerInOrder(w)'
      BY <1>1, <2>2, <2>3 DEF IInv, WorkerInOrder, NextRowInOrder,
         DeviceIsKnown, RecordIsKnown, RaiseIsExplained, GetDevice, database,
         Probing, Stored
    <2> QED BY <2>2, <2>3, <2>4, <2>5, QuietStep DEF IInv, TypeOK, GetDevice
  <1>2. CASE check[w].dev \notin devices
    <2>1. /\ check' = [check EXCEPT ![w] = NoCheck]
          /\ session' = [session EXCEPT ![w] = NoSession]
      BY <1>2 DEF GetDevice
    <2>2. /\ check' \in [Worker -> Check] /\ session' \in [Worker -> Session]
          /\ check'[w] = NoCheck /\ session'[w] = NoSession
          /\ \A v \in Worker \ {w} : check'[v] = check[v] /\ session'[v] = session[v]
      BY <2>1, IdleTypes, CheckUpdate, SessionUpdate DEF IInv, TypeOK
    <2>3. TypeOK'
      BY <2>2 DEF IInv, TypeOK, GetDevice, database
    <2> QED BY <2>2, <2>3, IdleWorker, QuietStep DEF IInv, TypeOK, GetDevice
  <1> QED BY <1>1, <1>2

\* The answer ends the request.
LEMMA RespondHolds ==
  ASSUME IInv, NEW w \in Worker, Respond(w)
  PROVE  IInv'
  <1>1. /\ check' \in [Worker -> Check] /\ session' \in [Worker -> Session]
        /\ check'[w] = NoCheck /\ session'[w] = NoSession
        /\ \A v \in Worker \ {w} : check'[v] = check[v] /\ session'[v] = session[v]
    BY IdleTypes, CheckUpdate, SessionUpdate DEF IInv, TypeOK, Respond
  <1>2. TypeOK'
    BY <1>1 DEF IInv, TypeOK, Respond, database
  <1> QED BY <1>1, <1>2, IdleWorker, QuietStep DEF IInv, TypeOK, Respond

\* A device that cannot be read by a session that is not broken is deleted.
LEMMA UnreadableIsDeleted ==
  ASSUME IInv, NEW w \in Worker, check[w].pc \notin {"idle", "authenticated", "raised"},
         ~Readable(w, check[w].dev)
  PROVE  check[w].dev \in deleted
  BY DEF IInv, TypeOK, WorkerInOrder, DeviceIsKnown, RaiseIsExplained, Readable, Session

\* Raising for a deleted device keeps the invariant.
LEMMA RaiseHolds ==
  ASSUME IInv, NEW w \in Worker, check[w].pc \notin {"idle", "authenticated", "raised"},
         ~Readable(w, check[w].dev), Raise(w),
         UNCHANGED <<database, events, requests, crashes>>
  PROVE  IInv'
  <1>1. /\ check' \in [Worker -> Check]
        /\ check'[w].pc = "raised"
        /\ check'[w].dev = check[w].dev
        /\ check'[w].began = check[w].began
        /\ \A v \in Worker \ {w} : check'[v] = check[v]
    BY GotoUpdate DEF IInv, TypeOK, Stage, Raise
  <1>2. TypeOK'
    BY <1>1 DEF IInv, TypeOK, Raise, database
  <1>3. WorkerInOrder(w)'
    BY <1>1, UnreadableIsDeleted DEF IInv, WorkerInOrder, NextRowInOrder,
       DeviceIsKnown, RecordIsKnown, RaiseIsExplained, Raise, database,
       Probing, Stored
  <1> QED BY <1>1, <1>2, <1>3, QuietStep DEF IInv, TypeOK, Raise

\* Reading the previous status.
LEMMA ReadPreviousHolds ==
  ASSUME IInv, NEW w \in Worker, ReadPrevious(w)
  PROVE  IInv'
  <1> DEFINE d == check[w].dev
  <1>0. /\ check[w] \in Check /\ check[w].pc = "called"
        /\ UNCHANGED <<database, events, requests, crashes>>
    BY DEF IInv, TypeOK, ReadPrevious
  <1>1. CASE ~Readable(w, d)
    BY <1>0, <1>1, RaiseHolds DEF ReadPrevious
  <1>2. CASE Readable(w, d)
    <2>1. session' = [session EXCEPT ![w].loaded = session[w].loaded \cup {d}] /\ clock' = clock
      BY <1>2 DEF ReadPrevious, IInv, TypeOK
    <2>2. d \in Device /\ session[w].loaded \in SUBSET Device
      BY <1>0, <1>2 DEF IInv, TypeOK, WorkerInOrder, DeviceIsKnown, Session
    <2>3. /\ session' \in [Worker -> Session]
          /\ session'[w].at = session[w].at
          /\ session'[w].broken = session[w].broken
          /\ \A v \in Worker \ {w} : session'[v] = session[v]
      <3> DEFINE L == session[w].loaded \cup {d}
      <3>1. L \in SUBSET Device /\ session' = [session EXCEPT ![w].loaded = L]
        BY <2>1, <2>2
      <3> HIDE DEF L
      <3> QED BY <3>1, LoadUpdate DEF IInv, TypeOK
    <2>4. \E p \in Status \cup {None} :
             check' = [check EXCEPT ![w] = [check[w] EXCEPT !.pc = "compared", !.prev = p]]
      <3>1. CASE HealthOf(d) = {} /\ Goto(w, "compared")
        <4>1. [check[w] EXCEPT !.pc = "compared", !.prev = check[w].prev]
                = [check[w] EXCEPT !.pc = "compared"]
          BY <1>0 DEF Check
        <4>2. check' = [check EXCEPT ![w] = [check[w] EXCEPT !.pc = "compared"]]
          BY <3>1 DEF Goto
        <4> QED BY <1>0, <4>1, <4>2 DEF Check
      <3>2. ASSUME NEW r \in HealthOf(d),
                   check' = [check EXCEPT ![w].pc = "compared", ![w].prev = r.status]
            PROVE  \E p \in Status \cup {None} :
                     check' = [check EXCEPT ![w] = [check[w] EXCEPT !.pc = "compared", !.prev = p]]
        <4>1. r.status \in Status
          BY DEF IInv, TypeOK, HealthOf, Row
        <4>2. check' = [check EXCEPT ![w] = [check[w] EXCEPT !.pc = "compared", !.prev = r.status]]
          BY <3>2 DEF IInv, TypeOK
        <4> QED BY <4>1, <4>2
      <3> QED BY <1>2, <3>1, <3>2 DEF ReadPrevious
    <2>5. PICK p \in Status \cup {None} :
             check' = [check EXCEPT ![w] = [check[w] EXCEPT !.pc = "compared", !.prev = p]]
      BY <2>4
    <2> DEFINE c == [check[w] EXCEPT !.pc = "compared", !.prev = p]
    <2>6. c \in Check /\ c.pc = "compared" /\ c.dev = d /\ c.began = check[w].began
      BY <1>0 DEF Check, Stage
    <2> HIDE DEF c
    <2>7. /\ check' \in [Worker -> Check]
          /\ check'[w] = c
          /\ \A v \in Worker \ {w} : check'[v] = check[v]
      BY <2>5, <2>6, CheckUpdate DEF IInv, TypeOK, c
    <2>8. TypeOK'
      BY <1>0, <2>1, <2>3, <2>7 DEF IInv, TypeOK, database
    <2>9. WorkerInOrder(w)'
      BY <1>0, <2>1, <2>3, <2>6, <2>7 DEF IInv, WorkerInOrder, NextRowInOrder,
         DeviceIsKnown, RecordIsKnown, RaiseIsExplained, database, Probing, Stored
    <2> QED BY <1>0, <2>1, <2>3, <2>7, <2>8, <2>9, QuietStep DEF IInv, TypeOK
  <1> QED BY <1>1, <1>2

\* The probe only chooses a status.
LEMMA ProbeHolds ==
  ASSUME IInv, NEW w \in Worker, Probe(w)
  PROVE  IInv'
  <1>1. PICK result \in Status :
           check' = [check EXCEPT ![w].pc = "probed", ![w].found = result]
    BY DEF Probe, ProbeResults, Status
  <1> DEFINE c == [check[w] EXCEPT !.pc = "probed", !.found = result]
  <1>2. check[w] \in Check
    BY DEF IInv, TypeOK
  <1>3. /\ c \in Check /\ c.pc = "probed" /\ c.dev = check[w].dev
        /\ c.began = check[w].began /\ c.found = result
    BY <1>2 DEF Check, Stage
  <1>4. check' = [check EXCEPT ![w] = c]
    BY <1>1
  <1> HIDE DEF c
  <1>5. /\ check' \in [Worker -> Check]
        /\ check'[w] = c
        /\ \A v \in Worker \ {w} : check'[v] = check[v]
    BY <1>3, <1>4, CheckUpdate DEF IInv, TypeOK
  <1>6. TypeOK'
    BY <1>5 DEF IInv, TypeOK, Probe, database
  <1>7. WorkerInOrder(w)'
    BY <1>3, <1>5 DEF IInv, WorkerInOrder, NextRowInOrder, DeviceIsKnown,
       RecordIsKnown, RaiseIsExplained, Probe, database, Probing, Stored
  <1> QED BY <1>5, <1>6, <1>7, QuietStep DEF IInv, TypeOK, Probe

\* A failed flush marks the session and drops what it had loaded.
LEMMA BreakUpdate ==
  ASSUME session \in [Worker -> Session], NEW w \in Worker,
         session' = [session EXCEPT ![w].loaded = {}, ![w].broken = TRUE]
  PROVE  /\ session' \in [Worker -> Session]
         /\ session'[w].at = session[w].at
         /\ session'[w].loaded = {}
         /\ \A v \in Worker \ {w} : session'[v] = session[v]
  <1> DEFINE s == [session[w] EXCEPT !.loaded = {}, !.broken = TRUE]
  <1>1. session[w] \in Session
    OBVIOUS
  <1>2. s \in Session /\ s.at = session[w].at /\ s.loaded = {}
    BY <1>1 DEF Session
  <1>3. session' = [session EXCEPT ![w] = s]
    OBVIOUS
  <1> HIDE DEF s
  <1> QED BY <1>2, <1>3, SessionUpdate

\* A commit leaves the record behind it that the worker goes on with; a refusal
\* means that the device is gone.
LEMMA SaveHolds ==
  ASSUME IInv, NEW w \in Worker, Save(w)
  PROVE  IInv'
  <1> DEFINE d == check[w].dev
             new == [id |-> nextId, dev |-> d, status |-> check[w].found,
                     at |-> session[w].at, began |-> check[w].began]
  <1>0. /\ check[w] \in Check /\ check[w].pc = "probed" /\ session[w] \in Session
        /\ nextId' = nextId + 1 /\ clock' = clock /\ clock \in Nat /\ nextId \in Nat
        /\ UNCHANGED <<devices, deleted, events, requests, crashes>>
    BY DEF IInv, TypeOK, Save
  <1>1. CASE d \in devices
    <2>1. /\ health' = health \cup {new}
          /\ check' = [check EXCEPT ![w].pc = "saved", ![w].row = nextId]
          /\ session' = [session EXCEPT ![w].loaded = {}]
      BY <1>1 DEF Save
    <2>2. new \in Row
      BY <1>0, <1>1 DEF IInv, TypeOK, WorkerInOrder, RecordIsKnown, Row, Check, Session
    <2> DEFINE c == [check[w] EXCEPT !.pc = "saved", !.row = nextId]
    <2>3. /\ c \in Check /\ c.pc = "saved" /\ c.dev = d /\ c.row = nextId
          /\ c.began = check[w].began /\ c.found = check[w].found
      BY <1>0 DEF Check, Stage
    <2>4. check' = [check EXCEPT ![w] = c]
      BY <2>1
    <2> HIDE DEF c
    <2>5. /\ check' \in [Worker -> Check]
          /\ check'[w] = c
          /\ \A v \in Worker \ {w} : check'[v] = check[v]
      BY <2>3, <2>4, CheckUpdate DEF IInv, TypeOK
    <2>6. /\ session' \in [Worker -> Session]
          /\ session'[w].at = session[w].at
          /\ session'[w].broken = session[w].broken
          /\ \A v \in Worker \ {w} : session'[v] = session[v]
      BY <2>1, LoadUpdate DEF IInv, TypeOK
    <2>7. TypeOK'
      BY <1>0, <2>1, <2>2, <2>5, <2>6 DEF IInv, TypeOK
    <2>8. new.at <= clock /\ new.began <= nextId /\ new.id = nextId
      BY <1>0 DEF IInv, WorkerInOrder, NextRowInOrder, Probing
    <2>9. RowsInOrder'
      <3>1. ASSUME NEW r \in health'
            PROVE  r.id < nextId' /\ r.at <= clock' /\ r.began <= nextId'
        <4>1. r \in Row /\ r.id <= nextId /\ r.at <= clock /\ r.began <= nextId
          BY <2>1, <2>2, <2>8 DEF IInv, TypeOK, RowsInOrder, Row
        <4> QED BY <1>0, <4>1 DEF Row
      <3> QED BY <3>1 DEF RowsInOrder
    <2>10. \A e, i, s : RecordOf(e, i, s) => RecordOf(e, i, s)'
      BY <2>1 DEF RecordOf, HealthOf
    <2>11. \E r \in health' : r.dev = d /\ r.id = nextId /\ r.status = check[w].found
      <3>1. new \in health'
        BY <2>1
      <3>2. new.dev = d /\ new.id = nextId /\ new.status = check[w].found
        OBVIOUS
      <3> QED BY <3>1, <3>2
    <2>12. EventHasRecord'
      BY <1>0, <2>10 DEF IInv, EventHasRecord
    <2>13. ASSUME NEW v \in Worker
           PROVE  WorkerInOrder(v)'
      <3>1. CASE v = w
        <4>1. RecordOf(check[w].dev, check[w].row, check[w].found)'
          BY <2>3, <2>5, <2>11 DEF RecordOf, HealthOf
        <4>2. check[w].began \in Nat /\ ~session[w].broken /\ check[w].found \in Status
          BY <1>0 DEF IInv, WorkerInOrder, RaiseIsExplained, RecordIsKnown, Check, Session
        <4>3. NextRowInOrder(w)'
          BY <1>0, <2>3, <2>5, <2>6, <2>8, <4>2 DEF NextRowInOrder
        <4>4. DeviceIsKnown(w)'
          BY <1>0, <1>1, <2>3, <2>5 DEF DeviceIsKnown
        <4>5. RecordIsKnown(w)' /\ RaiseIsExplained(w)'
          BY <2>3, <2>5, <2>6, <4>1, <4>2 DEF RecordIsKnown, RaiseIsExplained, Stored
        <4> QED BY <3>1, <4>3, <4>4, <4>5 DEF WorkerInOrder
      <3>2. CASE v # w
        <4>1. check'[v] = check[v] /\ session'[v] = session[v] /\ check[v] \in Check
          BY <2>5, <2>6, <3>2 DEF IInv, TypeOK
        <4>2. check[v].began \in Nat /\ check[v].began <= nextId /\ session[v].at <= clock
          BY <4>1 DEF IInv, WorkerInOrder, NextRowInOrder, Check
        <4>4. NextRowInOrder(v)'
          BY <1>0, <4>1, <4>2 DEF NextRowInOrder
        <4> QED BY <1>0, <2>10, <4>1, <4>4 DEF IInv, WorkerInOrder, DeviceIsKnown,
                RecordIsKnown, RaiseIsExplained
      <3> QED BY <3>1, <3>2
    <2> QED BY <2>7, <2>9, <2>12, <2>13 DEF IInv
  <1>2. CASE d \notin devices
    <2>1. /\ Goto(w, "raised") /\ health' = health
          /\ session' = [session EXCEPT ![w].loaded = {}, ![w].broken = TRUE]
      BY <1>2 DEF Save
    <2>2. /\ check' \in [Worker -> Check]
          /\ check'[w].pc = "raised"
          /\ check'[w].dev = check[w].dev
          /\ check'[w].began = check[w].began
          /\ \A v \in Worker \ {w} : check'[v] = check[v]
      BY <2>1, GotoUpdate DEF IInv, TypeOK, Stage
    <2>3. /\ session' \in [Worker -> Session]
          /\ session'[w].at = session[w].at
          /\ session'[w].loaded = {}
          /\ \A v \in Worker \ {w} : session'[v] = session[v]
      BY <2>1, BreakUpdate DEF IInv, TypeOK
    <2>4. TypeOK'
      BY <1>0, <2>1, <2>2, <2>3 DEF IInv, TypeOK
    <2>5. RowsInOrder'
      BY <1>0, <2>1 DEF IInv, TypeOK, RowsInOrder, Row
    <2>6. \A e, i, s : RecordOf(e, i, s) => RecordOf(e, i, s)'
      BY <2>1 DEF RecordOf, HealthOf
    <2>7. EventHasRecord'
      BY <1>0, <2>6 DEF IInv, EventHasRecord
    <2>8. d \in deleted
      BY <1>0, <1>2 DEF IInv, WorkerInOrder, DeviceIsKnown
    <2>9. ASSUME NEW v \in Worker
          PROVE  WorkerInOrder(v)'
      <3>1. check[v] \in Check
        BY DEF IInv, TypeOK
      <3>2. NextRowInOrder(v)'
        BY <1>0, <2>1, <2>2, <2>3, <3>1 DEF IInv, WorkerInOrder, NextRowInOrder,
           Check, Probing
      <3>3. CASE v = w
        BY <3>2, <3>3, <1>0, <2>2, <2>3, <2>8 DEF IInv, WorkerInOrder, DeviceIsKnown,
           RecordIsKnown, RaiseIsExplained, Stored
      <3>4. CASE v # w
        BY <3>2, <3>4, <1>0, <2>2, <2>3, <2>6 DEF IInv, WorkerInOrder,
           DeviceIsKnown, RecordIsKnown, RaiseIsExplained
      <3> QED BY <3>3, <3>4
    <2> QED BY <2>4, <2>5, <2>7, <2>9 DEF IInv
  <1> QED BY <1>1, <1>2

\* refresh raises only when the cascade took the record.
LEMMA RefreshRecordHolds ==
  ASSUME IInv, NEW w \in Worker, RefreshRecord(w)
  PROVE  IInv'
  <1>0. /\ check[w] \in Check /\ session[w] \in Session /\ check[w].pc = "saved"
        /\ nextId \in Nat /\ clock \in Nat
        /\ UNCHANGED <<database, events, requests, crashes>>
    BY DEF IInv, TypeOK, RefreshRecord
  <1>1. PICK stage \in {"refreshed", "raised"} :
           Goto(w, stage) /\ (stage = "raised" <=> ~RowExists(check[w].row))
    BY DEF RefreshRecord
  <1>2. /\ check' \in [Worker -> Check]
        /\ check'[w].pc = stage
        /\ check'[w].dev = check[w].dev
        /\ check'[w].began = check[w].began
        /\ check'[w].found = check[w].found
        /\ check'[w].row = check[w].row
        /\ \A v \in Worker \ {w} : check'[v] = check[v]
    <2>1. stage \in Stage
      BY DEF Stage
    <2> QED BY <1>1, <2>1, GotoUpdate DEF IInv, TypeOK
  <1>3. /\ session' \in [Worker -> Session]
        /\ session'[w].at = clock + 1
        /\ session'[w].broken = session[w].broken
        /\ \A v \in Worker \ {w} : session'[v] = session[v]
        /\ clock' = clock + 1
    BY BeginUpdate DEF IInv, TypeOK, RefreshRecord
  <1>4. TypeOK'
    BY <1>0, <1>2, <1>3 DEF IInv, TypeOK, database
  <1>5. stage = "raised" => check[w].dev \in deleted
    BY <1>0, <1>1 DEF IInv, WorkerInOrder, RecordIsKnown, RecordOf, HealthOf,
       RowExists, Stored
  <1>6. ~session[w].broken /\ check[w].began <= nextId /\ check[w].found \in Status
    BY <1>0 DEF IInv, WorkerInOrder, RaiseIsExplained, NextRowInOrder,
       RecordIsKnown, Stored, Session
  <1>7. NextRowInOrder(w)' /\ DeviceIsKnown(w)' /\ RaiseIsExplained(w)'
    BY <1>0, <1>2, <1>3, <1>5, <1>6 DEF IInv, WorkerInOrder, NextRowInOrder,
       DeviceIsKnown, RaiseIsExplained, database, Probing
  <1>8. RecordIsKnown(w)'
    BY <1>0, <1>2, <1>6 DEF IInv, WorkerInOrder, RecordIsKnown, RecordOf,
       HealthOf, database, Stored
  <1>9. clock' \in Nat /\ clock' >= clock
    BY <1>0, <1>3
  <1> QED
    BY <1>0, <1>2, <1>3, <1>4, <1>7, <1>8, <1>9, QuietStep DEF IInv, WorkerInOrder

\* The reload raises only for a deleted device.
LEMMA ReloadDeviceHolds ==
  ASSUME IInv, NEW w \in Worker, ReloadDevice(w)
  PROVE  IInv'
  <1> DEFINE d == check[w].dev
  <1>0. /\ check[w] \in Check /\ check[w].pc = "refreshed"
        /\ UNCHANGED <<database, events, requests, crashes>>
    BY DEF IInv, TypeOK, ReloadDevice
  <1>1. CASE ~Readable(w, d)
    BY <1>0, <1>1, RaiseHolds DEF ReloadDevice
  <1>2. CASE Readable(w, d)
    <2>1. /\ session' = [session EXCEPT ![w].loaded = session[w].loaded \cup {d}]
          /\ Goto(w, "loaded") /\ clock' = clock
      BY <1>2 DEF ReloadDevice, IInv, TypeOK
    <2>2. d \in Device /\ session[w].loaded \in SUBSET Device
      BY <1>0, <1>2 DEF IInv, TypeOK, WorkerInOrder, DeviceIsKnown, Session
    <2>3. /\ session' \in [Worker -> Session]
          /\ session'[w].at = session[w].at
          /\ session'[w].broken = session[w].broken
          /\ \A v \in Worker \ {w} : session'[v] = session[v]
      <3> DEFINE L == session[w].loaded \cup {d}
      <3>1. L \in SUBSET Device /\ session' = [session EXCEPT ![w].loaded = L]
        BY <2>1, <2>2
      <3> HIDE DEF L
      <3> QED BY <3>1, LoadUpdate DEF IInv, TypeOK
    <2>4. /\ check' \in [Worker -> Check]
          /\ check'[w].pc = "loaded"
          /\ check'[w].dev = check[w].dev
          /\ check'[w].began = check[w].began
          /\ check'[w].found = check[w].found
          /\ check'[w].row = check[w].row
          /\ \A v \in Worker \ {w} : check'[v] = check[v]
      BY <2>1, GotoUpdate DEF IInv, TypeOK, Stage
    <2>5. TypeOK'
      BY <1>0, <2>1, <2>3, <2>4 DEF IInv, TypeOK, database
    <2>6. NextRowInOrder(w)' /\ DeviceIsKnown(w)' /\ RaiseIsExplained(w)'
      BY <1>0, <2>1, <2>3, <2>4 DEF IInv, WorkerInOrder, NextRowInOrder,
         DeviceIsKnown, RaiseIsExplained, database, Probing
    <2>7. RecordIsKnown(w)'
      BY <1>0, <2>4 DEF IInv, WorkerInOrder, RecordIsKnown, RecordOf, HealthOf,
         database, Stored
    <2> QED BY <1>0, <2>1, <2>3, <2>4, <2>5, <2>6, <2>7, QuietStep
            DEF IInv, TypeOK, WorkerInOrder
  <1> QED BY <1>1, <1>2

\* An event's type stands for the status it was derived from.
LEMMA EventsMatchStatus ==
  ASSUME NEW prev, NEW status \in Status, NEW t \in EventsFor(prev, status)
  PROVE  t \in EventType /\ StatusOf(t) = status
  BY DEF EventsFor, StatusOf, Status, EventType

\* What is dispatched stands on the record the worker has just stored.
LEMMA DispatchEventHolds ==
  ASSUME IInv, NEW w \in Worker, DispatchEvent(w)
  PROVE  IInv'
  <1> DEFINE c == check[w]
             new == {[type |-> t, dev |-> c.dev, row |-> c.row] :
                        t \in EventsFor(c.prev, c.found)}
  <1>0. /\ c \in Check /\ c.pc = "loaded" /\ Goto(w, "returned")
        /\ events' = events \cup new
        /\ UNCHANGED <<database, clock, session, requests, crashes>>
    BY DEF IInv, TypeOK, DispatchEvent
  <1>1. /\ c.found \in Status
        /\ c.dev \in deleted \/ RecordOf(c.dev, c.row, c.found)
        /\ c.dev \in devices \cup deleted
    BY <1>0 DEF IInv, WorkerInOrder, RecordIsKnown, DeviceIsKnown, Stored
  <1>2. /\ check' \in [Worker -> Check]
        /\ check'[w].pc = "returned"
        /\ check'[w].dev = check[w].dev
        /\ check'[w].began = check[w].began
        /\ \A v \in Worker \ {w} : check'[v] = check[v]
    BY <1>0, GotoUpdate DEF IInv, TypeOK, Stage
  <1>3. new \subseteq Event
    BY <1>0, <1>1, EventsMatchStatus DEF IInv, TypeOK, Event, Check
  <1>4. TypeOK'
    BY <1>0, <1>2, <1>3 DEF IInv, TypeOK, database
  <1>5. RowsInOrder'
    BY <1>0 DEF IInv, RowsInOrder, database
  <1>6. EventHasRecord'
    <2>1. ASSUME NEW e \in events'
          PROVE  e.dev \in deleted \/ RecordOf(e.dev, e.row, StatusOf(e.type))
      <3>1. CASE e \in events
        BY <3>1 DEF IInv, EventHasRecord
      <3>2. CASE e \in new
        <4>1. PICK t \in EventsFor(c.prev, c.found) :
                 e = [type |-> t, dev |-> c.dev, row |-> c.row]
          BY <3>2
        <4>2. StatusOf(t) = c.found
          BY <1>1, EventsMatchStatus
        <4> QED BY <1>1, <4>1, <4>2
      <3> QED BY <1>0, <2>1, <3>1, <3>2
    <2> QED BY <1>0, <2>1 DEF EventHasRecord, RecordOf, HealthOf, database
  <1>7. ASSUME NEW v \in Worker
        PROVE  WorkerInOrder(v)'
    <2>1. CASE v = w
      BY <2>1, <1>0, <1>2 DEF IInv, WorkerInOrder, NextRowInOrder,
         DeviceIsKnown, RecordIsKnown, RaiseIsExplained, database, Probing, Stored
    <2>2. CASE v # w
      BY <2>2, <1>0, <1>2 DEF IInv, WorkerInOrder, NextRowInOrder,
         DeviceIsKnown, RecordIsKnown, RaiseIsExplained, RecordOf, HealthOf,
         database, Probing, Stored
    <2> QED BY <2>1, <2>2
  <1> QED BY <1>4, <1>5, <1>6, <1>7 DEF IInv

\* A new device changes nothing that is known of the others.
LEMMA CreateDeviceHolds ==
  ASSUME IInv, NEW d \in Device, CreateDevice(d)
  PROVE  IInv'
  <1>1. TypeOK'
    BY DEF IInv, TypeOK, CreateDevice
  <1>2. RowsInOrder' /\ EventHasRecord'
    BY DEF IInv, RowsInOrder, EventHasRecord, RecordOf, HealthOf, CreateDevice
  <1>3. \A v \in Worker : WorkerInOrder(v)'
    BY DEF IInv, WorkerInOrder, NextRowInOrder, DeviceIsKnown, RecordIsKnown,
       RaiseIsExplained, RecordOf, HealthOf, CreateDevice
  <1> QED BY <1>1, <1>2, <1>3 DEF IInv

\* A deletion takes rows of its own device only, and the device is then known
\* to be deleted.
LEMMA DeleteDeviceHolds ==
  ASSUME IInv, NEW d \in Device, DeleteDevice(d)
  PROVE  IInv'
  <1>0. /\ health' \subseteq health /\ deleted' = deleted \cup {d}
        /\ devices' = devices \ {d} /\ d \in devices
        /\ UNCHANGED <<nextId, clock, events, check, session, requests, crashes>>
    BY DEF DeleteDevice
  <1>1. TypeOK'
    BY <1>0 DEF IInv, TypeOK
  <1>2. RowsInOrder'
    BY <1>0 DEF IInv, RowsInOrder
  <1>3. \A e, i, s : RecordOf(e, i, s) => e \in deleted' \/ RecordOf(e, i, s)'
    BY DEF RecordOf, HealthOf, DeleteDevice
  <1>4. EventHasRecord'
    BY <1>0, <1>3 DEF IInv, EventHasRecord
  <1>5. \A v \in Worker : WorkerInOrder(v)'
    BY <1>0, <1>3 DEF IInv, WorkerInOrder, NextRowInOrder, DeviceIsKnown,
       RecordIsKnown, RaiseIsExplained
  <1> QED BY <1>1, <1>2, <1>4, <1>5 DEF IInv

\* After a crash every worker is idle and the rows are as they were.
LEMMA CrashHolds ==
  ASSUME IInv, Crash
  PROVE  IInv'
  <1>1. /\ check' \in [Worker -> Check] /\ session' \in [Worker -> Session]
        /\ \A v \in Worker : check'[v] = NoCheck /\ session'[v] = NoSession
    BY IdleTypes DEF Crash
  <1>2. TypeOK'
    BY <1>1 DEF IInv, TypeOK, Crash, database
  <1>3. RowsInOrder' /\ EventHasRecord'
    BY DEF IInv, RowsInOrder, EventHasRecord, RecordOf, HealthOf, Crash, database
  <1>4. ASSUME NEW v \in Worker PROVE WorkerInOrder(v)'
    BY <1>1, IdleWorker DEF IInv, TypeOK, Crash, database
  <1> QED BY <1>2, <1>3, <1>4 DEF IInv

\* Every step keeps the invariant.
LEMMA NextHolds == IInv /\ [Next]_vars => IInv'
  <1> SUFFICES ASSUME IInv, [Next]_vars
               PROVE  IInv'
    OBVIOUS
  <1>1. CASE UNCHANGED vars
    BY <1>1 DEF IInv, TypeOK, RowsInOrder, EventHasRecord, WorkerInOrder,
       NextRowInOrder, DeviceIsKnown, RecordIsKnown, RaiseIsExplained, RecordOf,
       HealthOf, vars
  <1>2. ASSUME NEW w \in Worker, RequestStep(w) PROVE IInv'
    BY <1>2, GetDeviceHolds, RespondHolds, ReadPreviousHolds, ProbeHolds,
       SaveHolds, RefreshRecordHolds, ReloadDeviceHolds, DispatchEventHolds
       DEF RequestStep, CheckStep
  <1>3. ASSUME NEW w \in Worker, NEW d \in Device, Authenticate(w, d) PROVE IInv'
    BY <1>3, AuthenticateHolds
  <1>4. CASE Environment
    BY <1>4, CreateDeviceHolds, DeleteDeviceHolds, CrashHolds DEF Environment
  <1> QED BY <1>1, <1>2, <1>3, <1>4 DEF Next

-----------------------------------------------------------------------------
(* Outages and their events: an invariant on top of the first *)

\* The record a worker has stored, if it is still there, is its own.
OwnsItsRow(w) ==
    check[w].pc \in Stored =>
        /\ check[w].row < nextId
        /\ \A r \in health : r.id = check[w].row =>
              r.dev = check[w].dev /\ r.status = check[w].found

ReportInv ==
    /\ \A r \in health : r.dev \in devices
    /\ \A w \in Worker : OwnsItsRow(w)
    /\ OutageIsReported

\* A step of one worker that stores nothing: what it had in its hands it has
\* still, or it has been reported, or the record is gone.
LEMMA ReportQuietStep ==
  ASSUME IInv, ReportInv, NEW w \in Worker,
         \A v \in Worker \ {w} : check'[v] = check[v],
         UNCHANGED <<devices, health, nextId, crashes>>, events \subseteq events',
         check'[w].pc \in Stored =>
            /\ check[w].pc \in Stored /\ check'[w].row = check[w].row
            /\ check'[w].dev = check[w].dev /\ check'[w].found = check[w].found,
         (check[w].pc \in Stored /\ check'[w].pc \notin Stored) =>
             \A r \in health : (r.id = check[w].row /\ r.status \in Outage) =>
                Reported(r.id, {"device_down", "health_check_failed"})'
  PROVE  ReportInv'
  <1>1. \A v \in Worker : OwnsItsRow(v)'
    BY DEF ReportInv, OwnsItsRow
  <1>2. ASSUME crashes' = 0, NEW r \in health', r.status \in Outage
        PROVE  \/ Handling(r.id)'
               \/ Reported(r.id, {"device_down", "health_check_failed"})'
    <2>1. \/ Handling(r.id)
          \/ Reported(r.id, {"device_down", "health_check_failed"})
      BY <1>2 DEF ReportInv, OutageIsReported
    <2>2. CASE Reported(r.id, {"device_down", "health_check_failed"})
      BY <2>2 DEF Reported
    <2>3. CASE check[w].pc \in Stored /\ check[w].row = r.id
      BY <1>2, <2>3 DEF Handling, Stored
    <2>4. CASE \E v \in Worker \ {w} : check[v].pc \in Stored /\ check[v].row = r.id
      BY <1>2, <2>4 DEF Handling, Stored
    <2> QED
      BY <2>1, <2>2, <2>3, <2>4 DEF Handling, Stored
  <1> QED
    BY <1>1, <1>2 DEF ReportInv, OutageIsReported

\* The steps of a worker before it stores, and after it has dispatched.
LEMMA ReportOutsideHolds ==
  ASSUME IInv, ReportInv, NEW w \in Worker,
         \/ \E d \in Device : Authenticate(w, d)
         \/ GetDevice(w) \/ Respond(w) \/ ReadPrevious(w) \/ Probe(w)
  PROVE  ReportInv'
  <1>1. /\ check[w].pc \notin Stored
        /\ UNCHANGED <<devices, health, nextId, crashes, events>>
    BY DEF Authenticate, GetDevice, Respond, ReadPrevious, Probe, Stored, database
  <1>2. check \in [Worker -> Check] /\ check[w] \in Check
    BY DEF IInv, TypeOK
  <1>3. \A v \in Worker \ {w} : check'[v] = check[v]
    BY <1>2 DEF Authenticate, GetDevice, Respond, ReadPrevious, Probe, Raise, Goto
  <1>4. check'[w].pc \notin Stored
    <2>1. NoCheck.pc = "idle" /\ "idle" \notin Stored
      BY DEF NoCheck, Stored
    <2>2. CASE \E d \in Device : Authenticate(w, d)
      <3>1. PICK d \in Device :
               check'[w] = [NoCheck EXCEPT !.pc = "authenticated", !.dev = d, !.began = nextId]
        BY <1>2, <2>2 DEF Authenticate
      <3> QED
        BY <3>1 DEF NoCheck, Stored
    <2>3. CASE GetDevice(w) \/ Respond(w)
      <3>1. check'[w] = NoCheck \/ Goto(w, "called")
        BY <1>2, <2>3 DEF GetDevice, Respond
      <3>2. CASE Goto(w, "called")
        BY <1>2, <3>2, GotoUpdate DEF Stage, Stored
      <3> QED
        BY <2>1, <3>1, <3>2
    <2>4. CASE ReadPrevious(w)
      <3>1. CASE Goto(w, "raised") \/ Goto(w, "compared")
        BY <1>2, <3>1, GotoUpdate DEF Stage, Stored
      <3>2. ASSUME NEW r \in health,
                   check' = [check EXCEPT ![w].pc = "compared", ![w].prev = r.status]
            PROVE  check'[w].pc \notin Stored
        BY <1>2, <3>2 DEF Check, Stored
      <3> QED
        BY <2>4, <3>1, <3>2 DEF ReadPrevious, Raise, HealthOf
    <2>5. CASE Probe(w)
      <3>1. PICK result : check' = [check EXCEPT ![w].pc = "probed", ![w].found = result]
        BY <2>5 DEF Probe
      <3> QED
        BY <1>2, <3>1 DEF Check, Stored
    <2> QED
      BY <2>2, <2>3, <2>4, <2>5
  <1> QED
    BY <1>1, <1>3, <1>4, ReportQuietStep

\* Between the commit and the dispatch, a worker that raises has lost its record
\* to the cascade.
LEMMA RaisedRowIsGone ==
  ASSUME IInv, ReportInv, NEW w \in Worker, RefreshRecord(w) \/ ReloadDevice(w)
  PROVE  \E stage \in {"refreshed", "loaded", "raised"} :
            /\ Goto(w, stage)
            /\ stage = "raised" => \A r \in health : r.id # check[w].row
  <1>1. check[w].pc \in {"saved", "refreshed"}
    BY DEF RefreshRecord, ReloadDevice
  <1>2. PICK stage \in {"refreshed", "loaded", "raised"} :
           /\ Goto(w, stage)
           /\ stage = "raised" =>
                 ~RowExists(check[w].row) \/ ~Readable(w, check[w].dev)
    BY DEF RefreshRecord, ReloadDevice, Raise
  <1>3. stage = "raised" => \A r \in health : r.id # check[w].row
    <2> SUFFICES ASSUME stage = "raised", NEW r \in health, r.id = check[w].row
                 PROVE  FALSE
      OBVIOUS
    <2>1. ~Readable(w, check[w].dev)
      BY <1>2 DEF RowExists
    <2>2. check[w].dev \in deleted
      BY <1>1, <2>1, UnreadableIsDeleted
    <2>3. r.dev = check[w].dev /\ r.dev \in devices
      BY <1>1 DEF ReportInv, OwnsItsRow, Stored
    <2> QED
      BY <2>2, <2>3 DEF IInv, TypeOK
  <1> QED BY <1>2, <1>3

\* So it owes no report.
LEMMA ReportReloadHolds ==
  ASSUME IInv, ReportInv, NEW w \in Worker, RefreshRecord(w) \/ ReloadDevice(w)
  PROVE  ReportInv'
  <1>1. /\ check[w].pc \in {"saved", "refreshed"}
        /\ UNCHANGED <<devices, health, nextId, crashes, events>>
    BY DEF RefreshRecord, ReloadDevice, database
  <1>2. PICK stage \in {"refreshed", "loaded", "raised"} :
           /\ Goto(w, stage)
           /\ stage = "raised" => \A r \in health : r.id # check[w].row
    BY RaisedRowIsGone
  <1>3. /\ check'[w].pc = stage /\ check'[w].dev = check[w].dev
        /\ check'[w].found = check[w].found /\ check'[w].row = check[w].row
        /\ \A v \in Worker \ {w} : check'[v] = check[v]
    <2>1. stage \in Stage
      BY DEF Stage
    <2> QED
      BY <1>2, <2>1, GotoUpdate DEF IInv, TypeOK
  <1>5. check[w].pc \in Stored /\ (check'[w].pc \notin Stored => stage = "raised")
    BY <1>1, <1>3 DEF Stored
  <1> QED
    BY <1>1, <1>2, <1>3, <1>5, ReportQuietStep

\* The dispatch reports the outage a worker has recorded.
LEMMA ReportDispatchHolds ==
  ASSUME IInv, ReportInv, NEW w \in Worker, DispatchEvent(w)
  PROVE  ReportInv'
  <1>1. /\ check[w].pc = "loaded" /\ Goto(w, "returned")
        /\ UNCHANGED <<devices, health, nextId, crashes>>
        /\ events' = events \cup
              {[type |-> t, dev |-> check[w].dev, row |-> check[w].row] :
                  t \in EventsFor(check[w].prev, check[w].found)}
    BY DEF DispatchEvent, database
  <1>2. /\ check'[w].pc = "returned"
        /\ \A v \in Worker \ {w} : check'[v] = check[v]
    BY <1>1, GotoUpdate DEF IInv, TypeOK, Stage
  <1>3. ASSUME NEW r \in health, r.id = check[w].row, r.status \in Outage
        PROVE  Reported(r.id, {"device_down", "health_check_failed"})'
    <2>1. r.status = check[w].found
      BY <1>1, <1>3 DEF ReportInv, OwnsItsRow, Stored
    <2>2. PICK t \in {"device_down", "health_check_failed"} :
             t \in EventsFor(check[w].prev, check[w].found)
      BY <1>3, <2>1 DEF EventsFor, Outage
    <2> DEFINE e == [type |-> t, dev |-> check[w].dev, row |-> check[w].row]
    <2>3. e \in events' /\ e.row = r.id /\ e.type = t
      BY <1>1, <1>3, <2>2
    <2> HIDE DEF e
    <2> QED
      BY <2>2, <2>3 DEF Reported
  <1> QED
    BY <1>1, <1>2, <1>3, ReportQuietStep DEF Stored

\* A commit leaves the new record in the hands of its worker.
LEMMA ReportSaveHolds ==
  ASSUME IInv, ReportInv, NEW w \in Worker, Save(w)
  PROVE  ReportInv'
  <1>1. /\ check[w].pc = "probed" /\ nextId' = nextId + 1 /\ nextId \in Nat
        /\ check \in [Worker -> Check] /\ check[w] \in Check
        /\ UNCHANGED <<devices, crashes, events>>
    BY DEF Save, IInv, TypeOK
  <1>2. \A r \in health : r.id < nextId /\ r.id \in Nat
    BY DEF IInv, RowsInOrder, TypeOK, Row
  <1>3. CASE Goto(w, "raised") /\ UNCHANGED health
    <2>1. /\ check'[w].pc = "raised"
          /\ \A v \in Worker \ {w} : check'[v] = check[v]
      BY <1>1, <1>3, GotoUpdate DEF Stage
    <2>2. ASSUME NEW v \in Worker PROVE OwnsItsRow(v)'
      <3>1. check[v] \in Check /\ OwnsItsRow(v)
        BY DEF IInv, TypeOK, ReportInv
      <3> QED
        BY <1>1, <1>3, <2>1, <3>1 DEF OwnsItsRow, Stored, Check
    <2>3. OutageIsReported'
      BY <1>1, <1>3, <2>1 DEF ReportInv, OutageIsReported, Handling, Reported
    <2> QED
      BY <1>1, <1>3, <2>2, <2>3 DEF ReportInv
  <1>4. ASSUME NEW row,
               row = [id |-> nextId, dev |-> check[w].dev, status |-> check[w].found,
                      at |-> session[w].at, began |-> check[w].began],
               check[w].dev \in devices, health' = health \cup {row},
               check' = [check EXCEPT ![w].pc = "saved", ![w].row = nextId]
        PROVE  ReportInv'
    <2>1. row.id = nextId /\ row.dev = check[w].dev /\ row.status = check[w].found
      BY <1>4
    <2>2. /\ check'[w].pc = "saved" /\ check'[w].row = nextId
          /\ check'[w].dev = check[w].dev /\ check'[w].found = check[w].found
          /\ \A v \in Worker \ {w} : check'[v] = check[v]
      BY <1>1, <1>4 DEF Check
    <2>3. ASSUME NEW v \in Worker PROVE OwnsItsRow(v)'
      <3>1. CASE v = w
        BY <1>1, <1>2, <1>4, <2>1, <2>2, <3>1 DEF OwnsItsRow
      <3>2. CASE v # w
        <4>1. check[v] \in Check /\ OwnsItsRow(v)
          BY DEF IInv, TypeOK, ReportInv
        <4> QED
          BY <1>1, <1>4, <2>1, <2>2, <3>2, <4>1 DEF OwnsItsRow, Check
      <3> QED
        BY <3>1, <3>2
    <2>4. ASSUME crashes' = 0, NEW r \in health', r.status \in Outage
          PROVE  \/ Handling(r.id)'
                 \/ Reported(r.id, {"device_down", "health_check_failed"})'
      <3>1. CASE r = row
        BY <2>1, <2>2, <3>1 DEF Handling
      <3>2. CASE r \in health
        <4>1. \/ Handling(r.id)
              \/ Reported(r.id, {"device_down", "health_check_failed"})
          BY <1>1, <2>4, <3>2 DEF ReportInv, OutageIsReported
        <4> QED
          BY <1>1, <2>2, <4>1 DEF Handling, Reported
      <3> QED
        BY <1>4, <3>1, <3>2
    <2>5. \A r \in health' : r.dev \in devices'
      BY <1>1, <1>4, <2>1 DEF ReportInv
    <2> QED
      BY <2>3, <2>4, <2>5 DEF ReportInv, OutageIsReported
  <1> QED
    BY <1>3, <1>4 DEF Save

\* Devices come and go with their records; a crash ends what is claimed.
LEMMA ReportEnvironmentHolds ==
  ASSUME IInv, ReportInv, Environment
  PROVE  ReportInv'
  <1>1. ASSUME NEW d \in Device, CreateDevice(d) PROVE ReportInv'
    BY <1>1 DEF CreateDevice, ReportInv, OwnsItsRow, OutageIsReported, Handling, Reported
  <1>2. ASSUME NEW d \in Device, DeleteDevice(d) PROVE ReportInv'
    BY <1>2 DEF DeleteDevice, HealthOf, ReportInv, OwnsItsRow, OutageIsReported,
                Handling, Reported
  <1>3. ASSUME Crash PROVE ReportInv'
    <2>1. /\ crashes' # 0 /\ UNCHANGED <<devices, health>>
          /\ \A v \in Worker : check'[v] = NoCheck
      BY <1>3 DEF Crash, database, IInv, TypeOK
    <2>2. \A v \in Worker : OwnsItsRow(v)'
      BY <2>1 DEF OwnsItsRow, NoCheck, Stored
    <2> QED
      BY <2>1, <2>2 DEF ReportInv, OutageIsReported
  <1> QED
    BY <1>1, <1>2, <1>3 DEF Environment

\* Every step keeps the second invariant.
LEMMA ReportNextHolds == IInv /\ ReportInv /\ [Next]_vars => ReportInv'
  <1> SUFFICES ASSUME IInv, ReportInv, [Next]_vars
               PROVE  ReportInv'
    OBVIOUS
  <1>1. CASE UNCHANGED vars
    BY <1>1 DEF vars, ReportInv, OwnsItsRow, OutageIsReported, Handling, Reported
  <1>2. ASSUME NEW w \in Worker, RequestStep(w) \/ \E d \in Device : Authenticate(w, d)
        PROVE  ReportInv'
    BY <1>2, ReportOutsideHolds, ReportReloadHolds, ReportDispatchHolds, ReportSaveHolds
       DEF RequestStep, CheckStep
  <1> QED BY <1>1, <1>2, ReportEnvironmentHolds DEF Next

-----------------------------------------------------------------------------
(* What a step of a check leaves alone, for the two invariants below *)

\* A step of w other than Save keeps what w's check is about, reads the previous
\* status only when it compares, and keeps the transaction until it has stored.
Moves(w) ==
    /\ \A v \in Worker \ {w} : check'[v] = check[v] /\ session'[v] = session[v]
    /\ check'[w].pc # "idle" =>
          /\ check'[w].dev = check[w].dev
          /\ check'[w].began = check[w].began
          /\ check'[w].row = check[w].row
          /\ check'[w].pc # "compared" => check'[w].prev = check[w].prev
    /\ check'[w].pc \in Probing => session'[w].at = session[w].at
    /\ check'[w].pc \notin {"authenticated", "saved"}
    /\ check'[w].pc = "called" => check[w].pc = "authenticated"
    /\ check'[w].pc = "compared" => check[w].pc = "called"
    /\ check'[w].pc = "probed" => check[w].pc = "compared"
    /\ check'[w].pc = "refreshed" => check[w].pc = "saved"
    /\ check'[w].pc = "loaded" => check[w].pc = "refreshed"
    /\ check'[w].pc = "returned" => check[w].pc = "loaded"
    /\ check'[w].pc = "idle" => check[w].pc \in {"authenticated", "returned", "raised"}
    /\ check[w].pc \in Stored /\ check'[w].pc \notin Stored =>
          check[w].pc = "loaded" \/ check'[w].pc = "raised"

\* Goto moves in this sense when its session goes along.
LEMMA GotoMoves ==
  ASSUME IInv, NEW w \in Worker, NEW stage \in Stage \ {"idle", "authenticated", "saved"},
         Goto(w, stage),
         \A v \in Worker \ {w} : session'[v] = session[v],
         stage \in Probing => session'[w].at = session[w].at,
         stage = "called" => check[w].pc = "authenticated",
         stage = "compared" => check[w].pc = "called",
         stage = "probed" => check[w].pc = "compared",
         stage = "refreshed" => check[w].pc = "saved",
         stage = "loaded" => check[w].pc = "refreshed",
         stage = "returned" => check[w].pc = "loaded",
         check[w].pc \in Stored /\ stage \notin Stored =>
            check[w].pc = "loaded" \/ stage = "raised"
  PROVE  Moves(w)
  <1>1. check[w] \in Check
    BY DEF IInv, TypeOK
  <1>2. /\ check'[w] = [check[w] EXCEPT !.pc = stage]
        /\ \A v \in Worker \ {w} : check'[v] = check[v]
    BY GotoUpdate DEF IInv, TypeOK
  <1>3. /\ check'[w].pc = stage
        /\ check'[w].dev = check[w].dev
        /\ check'[w].began = check[w].began
        /\ check'[w].row = check[w].row
        /\ check'[w].prev = check[w].prev
    BY <1>1, <1>2 DEF Check
  <1> QED BY <1>2, <1>3 DEF Moves

\* So do the ends of a request.
LEMMA EndMoves ==
  ASSUME IInv, NEW w \in Worker, check[w].pc \in {"authenticated", "returned", "raised"},
         check' = [check EXCEPT ![w] = NoCheck],
         \A v \in Worker \ {w} : session'[v] = session[v]
  PROVE  Moves(w)
  <1>1. check'[w] = NoCheck /\ \A v \in Worker \ {w} : check'[v] = check[v]
    BY IdleTypes, CheckUpdate DEF IInv, TypeOK
  <1>2. check'[w].pc = "idle"
    BY <1>1 DEF NoCheck
  <1> QED BY <1>1, <1>2 DEF Moves, Probing, Stored

\* Every step of a check moves, but for the one that stores.
LEMMA StepsMove ==
  ASSUME IInv, NEW w \in Worker,
         \/ GetDevice(w) \/ ReadPrevious(w) \/ Probe(w) \/ RefreshRecord(w)
         \/ ReloadDevice(w) \/ DispatchEvent(w) \/ Respond(w)
  PROVE  Moves(w)
  <1>0. /\ check \in [Worker -> Check] /\ session \in [Worker -> Session]
        /\ check[w] \in Check /\ session[w] \in Session
    BY DEF IInv, TypeOK
  <1>1. CASE GetDevice(w)
    <2>1. \A v \in Worker \ {w} : session'[v] = session[v]
      BY <1>0, <1>1 DEF GetDevice
    <2>2. CASE Goto(w, "called") /\ session' = [session EXCEPT ![w].loaded = {check[w].dev}]
      <3>1. session'[w].at = session[w].at
        BY <1>0, <2>2 DEF Session
      <3> QED BY <1>1, <2>1, <2>2, <3>1, GotoMoves DEF GetDevice, Stage, Probing, Stored
    <2>3. CASE check' = [check EXCEPT ![w] = NoCheck]
      BY <1>1, <2>1, <2>3, EndMoves DEF GetDevice, Stored
    <2> QED BY <1>1, <2>2, <2>3 DEF GetDevice
  <1>2. CASE ReadPrevious(w)
    <2>1. /\ \A v \in Worker \ {w} : session'[v] = session[v]
          /\ session'[w].at = session[w].at
      BY <1>0, <1>2 DEF ReadPrevious, Raise, Session
    <2>2. ASSUME NEW stage \in {"compared", "raised"}, Goto(w, stage) PROVE Moves(w)
      BY <1>2, <2>1, <2>2, GotoMoves DEF ReadPrevious, Stage, Probing, Stored
    <2>3. ASSUME NEW r,
                 check' = [check EXCEPT ![w].pc = "compared", ![w].prev = r.status]
          PROVE  Moves(w)
      <3>1. /\ check'[w].pc = "compared" /\ check'[w].dev = check[w].dev
            /\ check'[w].began = check[w].began /\ check'[w].row = check[w].row
            /\ \A v \in Worker \ {w} : check'[v] = check[v]
        BY <1>0, <2>3 DEF Check
      <3> QED BY <1>2, <2>1, <3>1 DEF ReadPrevious, Moves, Stored
    <2> QED BY <1>2, <2>2, <2>3 DEF ReadPrevious, Raise
  <1>3. CASE Probe(w)
    <2>1. PICK result : check' = [check EXCEPT ![w].pc = "probed", ![w].found = result]
      BY <1>3 DEF Probe
    <2>2. /\ check'[w].pc = "probed" /\ check'[w].dev = check[w].dev
          /\ check'[w].began = check[w].began /\ check'[w].row = check[w].row
          /\ check'[w].prev = check[w].prev
          /\ \A v \in Worker \ {w} : check'[v] = check[v]
      BY <1>0, <2>1 DEF Check
    <2> QED BY <1>3, <2>2 DEF Probe, Moves, Stored
  <1>4. CASE RefreshRecord(w)
    <2>1. \A v \in Worker \ {w} : session'[v] = session[v]
      BY <1>0, <1>4 DEF RefreshRecord, BeginTransaction
    <2>2. PICK stage \in {"refreshed", "raised"} : Goto(w, stage)
      BY <1>4 DEF RefreshRecord
    <2> QED BY <1>4, <2>1, <2>2, GotoMoves DEF RefreshRecord, Stage, Probing, Stored
  <1>5. CASE ReloadDevice(w)
    <2>1. \A v \in Worker \ {w} : session'[v] = session[v]
      BY <1>0, <1>5 DEF ReloadDevice, Raise
    <2>2. PICK stage \in {"loaded", "raised"} : Goto(w, stage)
      BY <1>5 DEF ReloadDevice, Raise
    <2> QED BY <1>5, <2>1, <2>2, GotoMoves DEF ReloadDevice, Stage, Probing, Stored
  <1>6. CASE DispatchEvent(w)
    BY <1>6, GotoMoves DEF DispatchEvent, Stage, Probing, Stored
  <1>7. CASE Respond(w)
    <2>1. \A v \in Worker \ {w} : session'[v] = session[v]
      BY <1>0, <1>7 DEF Respond
    <2> QED BY <1>7, <2>1, EndMoves DEF Respond, Stored
  <1> QED BY <1>1, <1>2, <1>3, <1>4, <1>5, <1>6, <1>7

\* A request starts with what NoCheck says, the next id and the next time.
LEMMA AuthenticateStarts ==
  ASSUME IInv, NEW w \in Worker, NEW d \in Device, Authenticate(w, d)
  PROVE  /\ check'[w].pc = "authenticated" /\ check'[w].dev = d
         /\ check'[w].began = nextId /\ check'[w].prev = None
         /\ session'[w].at = clock + 1
         /\ \A v \in Worker \ {w} : check'[v] = check[v] /\ session'[v] = session[v]
  <1> DEFINE c == [NoCheck EXCEPT !.pc = "authenticated", !.dev = d, !.began = nextId]
  <1>1. c.pc = "authenticated" /\ c.dev = d /\ c.began = nextId /\ c.prev = None
    BY DEF NoCheck
  <1>2. check'[w] = c /\ \A v \in Worker \ {w} : check'[v] = check[v]
    BY DEF Authenticate, IInv, TypeOK
  <1> HIDE DEF c
  <1>3. /\ session'[w].at = clock + 1
        /\ \A v \in Worker \ {w} : session'[v] = session[v]
    BY BeginUpdate DEF IInv, TypeOK, Authenticate
  <1> QED BY <1>1, <1>2, <1>3

\* Save stores a record of what the worker found, or raises.
LEMMA SaveStores ==
  ASSUME IInv, NEW w \in Worker, Save(w)
  PROVE  /\ check[w].pc = "probed" /\ nextId' = nextId + 1 /\ nextId \in Nat
         /\ UNCHANGED <<devices, deleted, clock, events, crashes>>
         /\ \A v \in Worker \ {w} : check'[v] = check[v] /\ session'[v] = session[v]
         /\ \/ /\ check[w].dev \notin devices
               /\ check'[w].pc = "raised" /\ health' = health
            \/ /\ check'[w].pc = "saved" /\ check'[w].row = nextId
               /\ check'[w].dev = check[w].dev /\ check'[w].began = check[w].began
               /\ check'[w].prev = check[w].prev /\ check'[w].found = check[w].found
               /\ check[w].dev \in devices
               /\ \E r \in Row :
                     /\ health' = health \cup {r}
                     /\ r.id = nextId /\ r.dev = check[w].dev
                     /\ r.began = check[w].began /\ r.at = session[w].at
                     /\ r.status = check[w].found
  <1> DEFINE d == check[w].dev
             new == [id |-> nextId, dev |-> d, status |-> check[w].found,
                     at |-> session[w].at, began |-> check[w].began]
  <1>0. /\ check \in [Worker -> Check] /\ session \in [Worker -> Session]
        /\ check[w] \in Check /\ session[w] \in Session
        /\ check[w].pc = "probed" /\ nextId' = nextId + 1 /\ nextId \in Nat
        /\ UNCHANGED <<devices, deleted, clock, events, crashes>>
    BY DEF IInv, TypeOK, Save
  <1>1. \A v \in Worker \ {w} : check'[v] = check[v] /\ session'[v] = session[v]
    BY <1>0 DEF Save, Goto
  <1>2. CASE d \notin devices
    <2>1. Goto(w, "raised") /\ health' = health
      BY <1>2 DEF Save
    <2>2. check'[w].pc = "raised"
      BY <1>0, <2>1, GotoUpdate DEF Stage
    <2> QED BY <1>0, <1>1, <1>2, <2>1, <2>2
  <1>3. CASE d \in devices
    <2>1. /\ health' = health \cup {new}
          /\ check' = [check EXCEPT ![w].pc = "saved", ![w].row = nextId]
      BY <1>3 DEF Save
    <2>2. /\ check'[w].pc = "saved" /\ check'[w].row = nextId
          /\ check'[w].dev = d /\ check'[w].began = check[w].began
          /\ check'[w].prev = check[w].prev /\ check'[w].found = check[w].found
      BY <1>0, <2>1 DEF Check
    <2>3. new \in Row
      BY <1>0, <1>3 DEF IInv, TypeOK, WorkerInOrder, RecordIsKnown, Row, Check, Session
    <2>4. /\ new.id = nextId /\ new.dev = d /\ new.began = check[w].began
          /\ new.at = session[w].at /\ new.status = check[w].found
      OBVIOUS
    <2> HIDE DEF new
    <2> QED BY <1>0, <1>1, <1>3, <2>1, <2>2, <2>3, <2>4
  <1> QED BY <1>2, <1>3

-----------------------------------------------------------------------------
(* Freshness: an invariant of the requests alone, on top of the first *)

\* Whatever was stored before a check was requested is dated before the
\* transaction that stored its record,
RowsFollowRequests ==
    \A r, q \in health : q.id < r.began => q.at < r.at

\* or will store it.
NextRowFollows(w) ==
    check[w].pc \in Probing =>
        \A q \in health : q.id < check[w].began => q.at < session[w].at

FreshInv ==
    /\ RowsFollowRequests
    /\ \A w \in Worker : NextRowFollows(w)

\* Every step of the requests keeps the order of dates.
LEMMA FreshNextHolds == IInv /\ FreshInv /\ [Next]_vars => FreshInv'
  <1> SUFFICES ASSUME IInv, FreshInv, [Next]_vars PROVE FreshInv'
    OBVIOUS
  <1>0. /\ check \in [Worker -> Check] /\ session \in [Worker -> Session]
        /\ nextId \in Nat /\ clock \in Nat /\ health \subseteq Row
    BY DEF IInv, TypeOK
  <1>1. ASSUME NEW w \in Worker, NEW d \in Device, Authenticate(w, d)
        PROVE  FreshInv'
    <2>1. health' = health
      BY <1>1 DEF Authenticate, database
    <2>2. NextRowFollows(w)'
      BY <1>0, <1>1, <2>1, AuthenticateStarts DEF NextRowFollows, IInv, RowsInOrder, Row
    <2> QED BY <1>1, <2>1, <2>2, AuthenticateStarts
            DEF FreshInv, RowsFollowRequests, NextRowFollows
  <1>2. ASSUME NEW w \in Worker,
               \/ GetDevice(w) \/ ReadPrevious(w) \/ Probe(w) \/ RefreshRecord(w)
               \/ ReloadDevice(w) \/ DispatchEvent(w) \/ Respond(w)
        PROVE  FreshInv'
    <2>1. health' = health
      BY <1>2 DEF GetDevice, ReadPrevious, Probe, RefreshRecord, ReloadDevice,
         DispatchEvent, Respond, database
    <2>2. Moves(w)
      BY <1>2, StepsMove
    <2>3. NextRowFollows(w)'
      BY <2>1, <2>2 DEF Moves, FreshInv, NextRowFollows, Probing
    <2> QED BY <2>1, <2>2, <2>3 DEF Moves, FreshInv, RowsFollowRequests, NextRowFollows
  <1>3. ASSUME NEW w \in Worker, Save(w)
        PROVE  FreshInv'
    <2>1. check'[w].pc \notin Probing
      BY <1>3, SaveStores DEF Probing
    <2>2. CASE health' = health
      BY <1>3, <2>1, <2>2, SaveStores DEF FreshInv, RowsFollowRequests, NextRowFollows
    <2>3. ASSUME NEW r \in Row, health' = health \cup {r},
                 r.id = nextId, r.began = check[w].began, r.at = session[w].at
          PROVE  FreshInv'
      <3>1. \A q \in health : q.id < r.began => q.at < r.at
        BY <1>3, <2>3, SaveStores DEF FreshInv, NextRowFollows, Probing
      <3>2. ~(r.id < r.began)
        BY <1>0, <2>3 DEF IInv, WorkerInOrder, NextRowInOrder, Row
      <3>3. \A q \in health : ~(r.id < q.began)
        BY <1>0, <2>3 DEF IInv, RowsInOrder, Row
      <3>4. \A v \in Worker : ~(r.id < check[v].began)
        BY <1>0, <2>3 DEF IInv, WorkerInOrder, NextRowInOrder, Check
      <3>5. RowsFollowRequests'
        BY <2>3, <3>1, <3>2, <3>3 DEF FreshInv, RowsFollowRequests
      <3>6. ASSUME NEW v \in Worker \ {w} PROVE NextRowFollows(v)'
        BY <1>3, <2>3, <3>4, SaveStores DEF FreshInv, NextRowFollows
      <3> QED BY <2>1, <3>5, <3>6 DEF FreshInv, NextRowFollows
    <2> QED BY <1>3, <2>2, <2>3, SaveStores
  <1>4. CASE Environment
    <2>1. ASSUME NEW d \in Device, CreateDevice(d) \/ DeleteDevice(d)
          PROVE  FreshInv'
      BY <2>1 DEF CreateDevice, DeleteDevice, FreshInv, RowsFollowRequests, NextRowFollows
    <2>2. CASE Crash
      <3>1. health' = health /\ \A v \in Worker : check'[v].pc \notin Probing
        BY <2>2 DEF Crash, database, NoCheck, Probing
      <3> QED BY <3>1 DEF FreshInv, RowsFollowRequests, NextRowFollows
    <2> QED BY <1>4, <2>1, <2>2 DEF Environment
  <1>5. CASE UNCHANGED vars
    BY <1>5 DEF vars, FreshInv, RowsFollowRequests, NextRowFollows
  <1> QED BY <1>1, <1>2, <1>3, <1>4, <1>5 DEF Next, RequestStep, CheckStep

-----------------------------------------------------------------------------
(* Recoveries: an invariant on top of the first and of ReportInv *)

\* the newest of the records of d below id n is an outage
OutageBefore(d, n) ==
    \E p \in HealthOf(d) :
        /\ p.id < n
        /\ \A q \in HealthOf(d) : q.id < n => ~Newer(q, p)
        /\ p.status \in Outage

\* No other record of its device was stored since the check was requested, up
\* to its own if it has one.
IsAlone(w) ==
    \A q \in HealthOf(check[w].dev) :
        q.id < check[w].began \/ (check[w].pc \in Stored /\ q.id >= check[w].row)

\* The previous status is unknown until it is read.
NothingReadYet(w) ==
    check[w].pc \in {"authenticated", "called"} => check[w].prev = None

\* The status read as the previous one is then that of the record before.
PrevIsRight(w) ==
    (/\ check[w].pc \in {"compared", "probed"} \cup Stored
     /\ check[w].dev \in devices
     /\ IsAlone(w))
        => (check[w].prev \in Outage <=> OutageBefore(check[w].dev, check[w].began))

\* The row in a worker's hands carries its request and has had no event.
RowIsFresh(w) ==
    check[w].pc \in Stored =>
        /\ \A r \in health : r.id = check[w].row => r.began = check[w].began
        /\ \A e \in events : e.row # check[w].row
        /\ \A v \in Worker \ {w} :
              check[v].pc \in Stored => check[v].row # check[w].row

TransitionInv ==
    /\ \A r, q \in health : r.id = q.id => r = q
    /\ \A e \in events : e.row < nextId
    /\ \A w \in Worker : NothingReadYet(w) /\ PrevIsRight(w) /\ RowIsFresh(w)
    /\ RecoveryIffTransition

\* In these terms, what the property says of one record.
RecoveryIsRight(r) ==
    \/ r.status # "UP"
    \/ Handling(r.id)
    \/ \E q \in HealthOf(r.dev) : q.id >= r.began /\ q.id < r.id
    \/ Reported(r.id, {"device_recovered"}) <=> OutageBefore(r.dev, r.began)

\* The property says it of every record, before a step and after it.
LEMMA RecoveryByRow ==
  /\ RecoveryIffTransition <=> (crashes = 0 => \A r \in health : RecoveryIsRight(r))
  /\ RecoveryIffTransition' <=> (crashes = 0 => \A r \in health : RecoveryIsRight(r))'
  <1>1. /\ \A r : OutageBefore(r.dev, r.began) <=>
                    \E p \in HealthOf(r.dev) : Precedes(p, r) /\ p.status \in Outage
        /\ \A r : OutageBefore(r.dev, r.began)' <=>
                    \E p \in HealthOf(r.dev)' : Precedes(p, r)' /\ p.status \in Outage
    BY DEF OutageBefore, Precedes
  <1> QED BY <1>1 DEF RecoveryIffTransition, RecoveryIsRight

\* Of the rows of one device at most one is the newest.
LEMMA LatestIsUnique ==
  ASSUME IInv, TransitionInv, NEW r \in health, NEW q \in health,
         ~Newer(q, r), ~Newer(r, q)
  PROVE  q = r
  <1>1. r \in Row /\ q \in Row
    BY DEF IInv, TypeOK
  <1>2. q.id = r.id
    BY <1>1 DEF Newer, Row
  <1> QED BY <1>2 DEF TransitionInv

\* What was before a check depends on the records alone.
LEMMA SameRecords ==
  ASSUME health' = health
  PROVE  /\ \A d : HealthOf(d)' = HealthOf(d)
         /\ \A d, n : OutageBefore(d, n)' <=> OutageBefore(d, n)
  BY DEF OutageBefore, HealthOf, Newer

\* A step of one worker that neither stores nor reports.
LEMMA TransitionQuietStep ==
  ASSUME IInv, TransitionInv, NEW w \in Worker,
         \A v \in Worker \ {w} : check'[v] = check[v],
         UNCHANGED <<devices, health, events, crashes>>,
         nextId' \in Nat, nextId' >= nextId,
         NothingReadYet(w)', PrevIsRight(w)',
         check'[w].pc \in Stored =>
            /\ check[w].pc \in Stored /\ check'[w].row = check[w].row
            /\ check'[w].began = check[w].began,
         check[w].pc \in Stored /\ check'[w].pc \notin Stored =>
            \A r \in health : r.id # check[w].row
  PROVE  TransitionInv'
  <1>1. \A e \in events' : e.row < nextId'
    BY DEF TransitionInv, IInv, TypeOK, Event
  <1>2. ASSUME NEW v \in Worker \ {w}
        PROVE  PrevIsRight(v)'
    <2>1. PrevIsRight(v)
      BY DEF TransitionInv
    <2> QED BY <2>1, SameRecords DEF PrevIsRight, IsAlone
  <1>3. ASSUME NEW v \in Worker
        PROVE  RowIsFresh(v)'
    <2>1. \A u \in Worker : RowIsFresh(u)
      BY DEF TransitionInv
    <2>2. ASSUME NEW u \in Worker, check'[u].pc \in Stored
          PROVE  /\ check[u].pc \in Stored /\ check'[u].row = check[u].row
                 /\ check'[u].began = check[u].began
      BY <2>2
    <2> HIDE DEF Stored
    <2> QED BY <2>1, <2>2 DEF RowIsFresh
  <1>4. ASSUME crashes' = 0, NEW r \in health
        PROVE  RecoveryIsRight(r)'
    <2>1. RecoveryIsRight(r)
      BY <1>4, RecoveryByRow DEF TransitionInv
    <2>2. Handling(r.id) => Handling(r.id)'
      BY DEF Handling, Stored
    <2>3. Reported(r.id, {"device_recovered"})' <=> Reported(r.id, {"device_recovered"})
      BY DEF Reported
    <2> QED BY <2>1, <2>2, <2>3, SameRecords DEF RecoveryIsRight
  <1>5. RecoveryIffTransition'
    BY <1>4, RecoveryByRow
  <1> QED BY <1>1, <1>2, <1>3, <1>5 DEF TransitionInv, NothingReadYet

\* What a check reads as the previous record is the newest of its device.
LEMMA ReadPreviousIsRight ==
  ASSUME IInv, TransitionInv, NEW w \in Worker, ReadPrevious(w)
  PROVE  PrevIsRight(w)'
  <1> DEFINE d == check[w].dev
  <1>0. /\ check \in [Worker -> Check] /\ check[w] \in Check /\ check[w].pc = "called"
        /\ UNCHANGED <<devices, health>>
    BY DEF IInv, TypeOK, ReadPrevious, database
  <1>1. check[w].prev = None
    BY <1>0 DEF TransitionInv, NothingReadYet
  <1>2. CASE Goto(w, "raised")
    <2>1. check'[w].pc = "raised"
      BY <1>0, <1>2, GotoUpdate DEF Stage
    <2> QED BY <2>1 DEF PrevIsRight, Stored
  <1>3. CASE HealthOf(d) = {} /\ Goto(w, "compared")
    <2>1. check'[w] = [check[w] EXCEPT !.pc = "compared"]
      BY <1>0, <1>3, GotoUpdate DEF Stage
    <2>2. check'[w].dev = d /\ check'[w].prev = None
      BY <1>0, <1>1, <2>1 DEF Check
    <2>3. ~OutageBefore(check[w].dev, check[w].began)'
      BY <1>0, <1>3, <2>2 DEF OutageBefore, HealthOf
    <2> QED BY <2>2, <2>3 DEF PrevIsRight, Outage, None
  <1>4. ASSUME NEW r \in HealthOf(d), IsLatest(r),
               check' = [check EXCEPT ![w].pc = "compared", ![w].prev = r.status]
        PROVE  PrevIsRight(w)'
    <2>1. /\ check'[w].pc = "compared" /\ check'[w].dev = d
          /\ check'[w].began = check[w].began /\ check'[w].prev = r.status
      BY <1>0, <1>4 DEF Check
    <2> SUFFICES ASSUME \A q \in HealthOf(d) : q.id < check[w].began
                 PROVE  r.status \in Outage <=> OutageBefore(d, check[w].began)
      <3>1. IsAlone(w)' => \A q \in HealthOf(d) : q.id < check[w].began
        BY <1>0, <2>1 DEF IsAlone, HealthOf, Stored
      <3>2. OutageBefore(check[w].dev, check[w].began)' <=> OutageBefore(d, check[w].began)
        BY <1>0, <2>1 DEF OutageBefore, HealthOf, Newer
      <3> QED BY <2>1, <3>1, <3>2 DEF PrevIsRight
    <2>2. r \in health /\ r.dev = d
      BY DEF HealthOf
    <2>3. \A q \in HealthOf(d) : ~Newer(q, r)
      BY <1>4, <2>2 DEF IsLatest
    <2>4. ASSUME NEW p \in HealthOf(d), \A q \in HealthOf(d) : ~Newer(q, p)
          PROVE  p = r
      BY <2>2, <2>3, <2>4, LatestIsUnique DEF HealthOf
    <2>5. OutageBefore(d, check[w].began) <=>
             \E p \in HealthOf(d) : (\A q \in HealthOf(d) : ~Newer(q, p)) /\ p.status \in Outage
      BY DEF OutageBefore
    <2> QED BY <2>3, <2>4, <2>5
  <1> QED BY <1>2, <1>3, <1>4 DEF ReadPrevious, Raise

\* The steps that neither store nor report.
LEMMA TransitionMoveHolds ==
  ASSUME IInv, ReportInv, TransitionInv, NEW w \in Worker,
         \/ GetDevice(w) \/ ReadPrevious(w) \/ Probe(w) \/ RefreshRecord(w)
         \/ ReloadDevice(w) \/ Respond(w)
  PROVE  TransitionInv'
  <1>1. Moves(w)
    BY StepsMove
  <1>2. UNCHANGED <<devices, health, nextId, events, crashes>> /\ nextId \in Nat
    BY DEF GetDevice, ReadPrevious, Probe, RefreshRecord, ReloadDevice, Respond,
       database, IInv, TypeOK
  <1>3. NothingReadYet(w)'
    BY <1>1 DEF Moves, TransitionInv, NothingReadYet
  <1>4. PrevIsRight(w)'
    <2>1. CASE ReadPrevious(w)
      BY <2>1, ReadPreviousIsRight
    <2>2. CASE ~ReadPrevious(w)
      <3> SUFFICES ASSUME check'[w].pc \in {"compared", "probed"} \cup Stored,
                          check'[w].dev \in devices, IsAlone(w)'
                   PROVE  check'[w].prev \in Outage
                            <=> OutageBefore(check'[w].dev, check'[w].began)
        BY <1>2, SameRecords DEF PrevIsRight, OutageBefore
      <3>1. check[w].pc # "called"
        BY <2>2 DEF GetDevice, Probe, RefreshRecord, ReloadDevice, Respond
      <3>2. /\ check[w].pc \in {"compared", "probed"} \cup Stored
            /\ check'[w].pc \in Stored => check[w].pc \in Stored
            /\ check'[w].dev = check[w].dev /\ check'[w].began = check[w].began
            /\ check'[w].row = check[w].row /\ check'[w].prev = check[w].prev
        BY <1>1, <3>1 DEF Moves, Stored
      <3>3. IsAlone(w)
        BY <1>2, <3>2 DEF IsAlone, HealthOf
      <3>4. PrevIsRight(w)
        BY DEF TransitionInv
      <3> QED BY <3>2, <3>3, <3>4 DEF PrevIsRight
    <2> QED BY <2>1, <2>2
  <1>5. check'[w].pc \in Stored =>
            /\ check[w].pc \in Stored /\ check'[w].row = check[w].row
            /\ check'[w].began = check[w].began
    BY <1>1 DEF Moves, Stored
  <1>6. ASSUME check[w].pc \in Stored, check'[w].pc \notin Stored
        PROVE  \A r \in health : r.id # check[w].row
    <2>1. RefreshRecord(w) \/ ReloadDevice(w)
      BY <1>6 DEF GetDevice, ReadPrevious, Probe, Respond, Stored
    <2>2. PICK stage \in {"refreshed", "loaded", "raised"} :
             /\ Goto(w, stage)
             /\ stage = "raised" => \A r \in health : r.id # check[w].row
      BY <2>1, RaisedRowIsGone
    <2>3. check'[w].pc = stage
      <3>1. stage \in Stage
        BY DEF Stage
      <3> QED BY <2>2, <3>1, GotoUpdate DEF IInv, TypeOK
    <2> QED BY <1>6, <2>2, <2>3 DEF Stored
  <1>7. \A v \in Worker \ {w} : check'[v] = check[v]
    BY <1>1 DEF Moves
  <1> HIDE DEF Stored
  <1> QED BY <1>2, <1>3, <1>4, <1>5, <1>6, <1>7, TransitionQuietStep

\* A request that starts has read nothing.
LEMMA TransitionAuthenticateHolds ==
  ASSUME IInv, TransitionInv, NEW w \in Worker, NEW d \in Device, Authenticate(w, d)
  PROVE  TransitionInv'
  <1>1. /\ check'[w].pc = "authenticated" /\ check'[w].prev = None
        /\ \A v \in Worker \ {w} : check'[v] = check[v]
        /\ check[w].pc = "idle" /\ nextId \in Nat
        /\ UNCHANGED <<devices, health, nextId, events, crashes>>
    BY AuthenticateStarts DEF Authenticate, database, IInv, TypeOK
  <1>2. NothingReadYet(w)' /\ PrevIsRight(w)'
    BY <1>1 DEF NothingReadYet, PrevIsRight, Stored
  <1> QED BY <1>1, <1>2, TransitionQuietStep DEF Stored

\* A new record is the last one, and in the hands of its worker.
LEMMA TransitionSaveHolds ==
  ASSUME IInv, ReportInv, TransitionInv, NEW w \in Worker, Save(w)
  PROVE  TransitionInv'
  <1>0. /\ check[w].pc = "probed" /\ nextId' = nextId + 1 /\ nextId \in Nat
        /\ UNCHANGED <<devices, deleted, clock, events, crashes>>
        /\ \A v \in Worker \ {w} : check'[v] = check[v]
    BY SaveStores
  <1>1. CASE check'[w].pc = "raised" /\ health' = health
    <2>1. NothingReadYet(w)' /\ PrevIsRight(w)'
      BY <1>1 DEF NothingReadYet, PrevIsRight, Stored
    <2>2. check'[w].pc \notin Stored /\ check[w].pc \notin Stored
      BY <1>0, <1>1 DEF Stored
    <2>3. nextId' \in Nat /\ nextId' >= nextId
      BY <1>0
    <2> HIDE DEF Stored
    <2> QED BY <1>0, <1>1, <2>1, <2>2, <2>3, TransitionQuietStep
  <1>2. ASSUME NEW r \in Row, health' = health \cup {r},
               r.id = nextId, r.dev = check[w].dev, r.began = check[w].began,
               check'[w].pc = "saved", check'[w].row = nextId,
               check'[w].dev = check[w].dev, check'[w].began = check[w].began,
               check'[w].prev = check[w].prev
        PROVE  TransitionInv'
    <2>1. \A q \in health : q \in Row /\ q.id < nextId /\ q.began <= nextId
      BY DEF IInv, TypeOK, RowsInOrder
    <2>2. \A v \in Worker : check[v] \in Check /\ check[v].began <= nextId
      BY DEF IInv, TypeOK, WorkerInOrder, NextRowInOrder
    <2>3. \A v \in Worker : check[v].pc \in Stored => check[v].row < nextId
      BY DEF ReportInv, OwnsItsRow
    <2>4. \A d : HealthOf(d) \subseteq HealthOf(d)' /\ HealthOf(d)' \subseteq HealthOf(d) \cup {r}
      BY <1>2 DEF HealthOf
    <2>5. ASSUME NEW d, NEW n \in Nat, n <= nextId
          PROVE  OutageBefore(d, n)' <=> OutageBefore(d, n)
      <3>1. ~(r.id < n)
        BY <1>0, <1>2, <2>5
      <3> QED BY <2>4, <3>1 DEF OutageBefore, Newer
    <2>6. \A p, q \in health' : p.id = q.id => p = q
      BY <1>2, <2>1 DEF TransitionInv, Row
    <2>7. \A e \in events' : e.row < nextId'
      BY <1>0 DEF TransitionInv, IInv, TypeOK, Event
    <2>8. ASSUME NEW v \in Worker PROVE RowIsFresh(v)'
      <3>1. CASE v = w
        <4>1. \A q \in health' : q.id = nextId => q = r
          BY <1>2, <2>1 DEF Row
        <4>2. \A e \in events : e.row # nextId
          BY <1>0 DEF TransitionInv, IInv, TypeOK, Event
        <4>3. \A u \in Worker \ {w} : check[u].pc \in Stored => check[u].row # nextId
          BY <1>0, <2>2, <2>3 DEF Check
        <4> QED BY <1>0, <1>2, <3>1, <4>1, <4>2, <4>3 DEF RowIsFresh
      <3>2. CASE v # w
        <4>1. RowIsFresh(v) /\ check'[v] = check[v]
          BY <1>0, <3>2 DEF TransitionInv
        <4>2. check[v].pc \in Stored => check[v].row # nextId
          BY <1>0, <2>2, <2>3 DEF Check
        <4> QED BY <1>0, <1>2, <3>2, <4>1, <4>2 DEF RowIsFresh
      <3> QED BY <3>1, <3>2
    <2>9. ASSUME NEW v \in Worker PROVE PrevIsRight(v)'
      <3>1. PrevIsRight(v) /\ check[v].began \in Nat
        BY <2>2 DEF TransitionInv, Check
      <3>2. /\ check'[v].dev = check[v].dev /\ check'[v].began = check[v].began
            /\ check'[v].prev = check[v].prev
        BY <1>0, <1>2
      <3>3. \A d, n : n \in Nat /\ n <= nextId => (OutageBefore(d, n)' <=> OutageBefore(d, n))
        BY <2>5
      <3>4. IsAlone(v)' => IsAlone(v)
        <4>1. CASE v = w
          <5>1. \A q \in HealthOf(check[w].dev) : q \in health /\ ~(q.id >= nextId)
            BY <1>0, <2>1 DEF HealthOf, Row
          <5>2. HealthOf(check[w].dev) \subseteq HealthOf(check[w].dev)'
            BY <1>2 DEF HealthOf
          <5> QED BY <1>2, <4>1, <5>1, <5>2 DEF IsAlone, Stored
        <4>2. CASE v # w
          BY <1>0, <2>4, <4>2 DEF IsAlone
        <4> QED BY <4>1, <4>2
      <3>5. check'[v].pc \in {"compared", "probed"} \cup Stored
               => check[v].pc \in {"compared", "probed"} \cup Stored
        BY <1>0
      <3> QED BY <1>0, <2>2, <3>1, <3>2, <3>3, <3>4, <3>5 DEF PrevIsRight
    <2>10. ASSUME crashes' = 0, NEW q \in health' PROVE RecoveryIsRight(q)'
      <3>1. CASE q = r
        BY <1>2, <3>1 DEF RecoveryIsRight, Handling
      <3>2. CASE q \in health
        <4>1. RecoveryIsRight(q)
          BY <1>0, <2>10, <3>2, RecoveryByRow DEF TransitionInv
        <4>2. Handling(q.id) => Handling(q.id)'
          BY <1>0 DEF Handling
        <4>3. OutageBefore(q.dev, q.began)' <=> OutageBefore(q.dev, q.began)
          BY <2>1, <2>5, <3>2 DEF Row
        <4> QED BY <1>0, <2>4, <4>1, <4>2, <4>3 DEF RecoveryIsRight, Reported
      <3> QED BY <1>2, <3>1, <3>2
    <2>11. RecoveryIffTransition'
      BY <2>10, RecoveryByRow
    <2>12. \A v \in Worker : NothingReadYet(v)'
      BY <1>0, <1>2 DEF TransitionInv, NothingReadYet
    <2> QED BY <2>6, <2>7, <2>8, <2>9, <2>11, <2>12 DEF TransitionInv
  <1> QED BY <1>1, <1>2, SaveStores

\* The dispatch reports a recovery exactly when the record before was an outage,
\* unless another record was stored during the check.
LEMMA TransitionDispatchHolds ==
  ASSUME IInv, ReportInv, TransitionInv, NEW w \in Worker, DispatchEvent(w)
  PROVE  TransitionInv'
  <1> DEFINE c == check[w]
             new == {[type |-> t, dev |-> c.dev, row |-> c.row] :
                        t \in EventsFor(c.prev, c.found)}
  <1>0. /\ c \in Check /\ c.pc = "loaded" /\ Goto(w, "returned")
        /\ events' = events \cup new
        /\ UNCHANGED <<devices, health, nextId, crashes>>
    BY DEF IInv, TypeOK, DispatchEvent, database
  <1>1. /\ check'[w].pc = "returned"
        /\ \A v \in Worker \ {w} : check'[v] = check[v]
    BY <1>0, GotoUpdate DEF IInv, TypeOK, Stage
  <1>2. c.row < nextId /\ OwnsItsRow(w) /\ RowIsFresh(w) /\ PrevIsRight(w)
    BY <1>0 DEF ReportInv, OwnsItsRow, TransitionInv, Stored
  <1>3. \A e \in new : e.row = c.row
    OBVIOUS
  <1> HIDE DEF new
  <1>4. \A e \in events' : e.row < nextId'
    BY <1>0, <1>2, <1>3 DEF TransitionInv
  <1>5. ASSUME NEW v \in Worker
        PROVE  NothingReadYet(v)' /\ PrevIsRight(v)' /\ RowIsFresh(v)'
    <2>1. CASE v = w
      BY <1>1, <2>1 DEF NothingReadYet, PrevIsRight, RowIsFresh, Stored
    <2>2. CASE v # w
      <3>1. NothingReadYet(v) /\ PrevIsRight(v) /\ RowIsFresh(v) /\ check'[v] = check[v]
        BY <1>1, <2>2 DEF TransitionInv
      <3>2. NothingReadYet(v)' /\ PrevIsRight(v)'
        BY <1>0, <3>1, SameRecords DEF NothingReadYet, PrevIsRight, IsAlone
      <3>3. \A u \in Worker \ {v} : check'[u].pc \in Stored =>
               check[u].pc \in Stored /\ check'[u].row = check[u].row
        BY <1>1 DEF Stored
      <3>4. check[v].pc \in Stored => check[v].row # c.row
        BY <1>0, <2>2, <3>1 DEF RowIsFresh, Stored
      <3>5. RowIsFresh(v)'
        BY <1>0, <1>3, <3>1, <3>3, <3>4 DEF RowIsFresh
      <3> QED BY <3>2, <3>5
    <2> QED BY <2>1, <2>2
  <1>6. ASSUME crashes' = 0, NEW r \in health PROVE RecoveryIsRight(r)'
    <2>1. CASE r.id # c.row
      <3>1. RecoveryIsRight(r)
        BY <1>0, <1>6, RecoveryByRow DEF TransitionInv
      <3>2. Handling(r.id) => Handling(r.id)'
        BY <1>1, <2>1 DEF Handling
      <3>3. Reported(r.id, {"device_recovered"})' <=> Reported(r.id, {"device_recovered"})
        BY <1>0, <1>3, <2>1 DEF Reported
      <3> QED BY <1>0, <3>1, <3>2, <3>3, SameRecords DEF RecoveryIsRight
    <2>2. CASE r.id = c.row /\ r.status = "UP"
      <3>1. /\ r.dev = c.dev /\ r.status = c.found /\ r.began = c.began
            /\ \A e \in events : e.row # c.row
            /\ c.dev \in devices
        BY <1>0, <1>2, <2>2 DEF OwnsItsRow, RowIsFresh, ReportInv, Stored
      <3>2. Reported(r.id, {"device_recovered"})' <=> c.prev \in Outage
        <4>1. "device_recovered" \in EventsFor(c.prev, c.found) <=> c.prev \in Outage
          BY <2>2, <3>1 DEF EventsFor
        <4>2. (\E e \in new : e.row = c.row /\ e.type = "device_recovered")
                 <=> "device_recovered" \in EventsFor(c.prev, c.found)
          <5>1. ASSUME "device_recovered" \in EventsFor(c.prev, c.found)
                PROVE  \E e \in new : e.row = c.row /\ e.type = "device_recovered"
            <6> DEFINE e == [type |-> "device_recovered", dev |-> c.dev, row |-> c.row]
            <6>1. e \in new
              BY <5>1 DEF new
            <6> QED BY <6>1
          <5>2. \A e \in new : e.type \in EventsFor(c.prev, c.found)
            BY DEF new
          <5> QED BY <5>1, <5>2
        <4>3. Reported(r.id, {"device_recovered"})'
                 <=> \E e \in events \cup new : e.row = c.row /\ e.type = "device_recovered"
          BY <1>0, <2>2 DEF Reported
        <4> QED BY <3>1, <4>1, <4>2, <4>3
      <3>3. CASE IsAlone(w)
        <4>1. c.prev \in Outage <=> OutageBefore(r.dev, r.began)
          BY <1>0, <1>2, <3>1, <3>3 DEF PrevIsRight, Stored
        <4>2. OutageBefore(r.dev, r.began)' <=> OutageBefore(r.dev, r.began)
          BY <1>0, SameRecords
        <4> QED BY <3>2, <4>1, <4>2 DEF RecoveryIsRight
      <3>4. CASE ~IsAlone(w)
        <4>1. PICK q \in HealthOf(r.dev) : ~(q.id < r.began) /\ ~(q.id >= r.id)
          BY <1>0, <2>2, <3>1, <3>4 DEF IsAlone, Stored
        <4>2. q \in Row /\ r \in Row
          BY DEF HealthOf, IInv, TypeOK
        <4>3. q.id >= r.began /\ q.id < r.id
          BY <4>1, <4>2 DEF Row
        <4> QED BY <1>0, <4>3, SameRecords DEF RecoveryIsRight
      <3> QED BY <3>3, <3>4
    <2>3. CASE r.status # "UP"
      BY <2>3 DEF RecoveryIsRight
    <2> QED BY <2>1, <2>2, <2>3
  <1>7. RecoveryIffTransition'
    BY <1>0, <1>6, RecoveryByRow
  <1> QED BY <1>0, <1>4, <1>5, <1>7 DEF TransitionInv

\* The rest of the system.
LEMMA TransitionEnvironmentHolds ==
  ASSUME IInv, TransitionInv, Environment
  PROVE  TransitionInv'
  <1>1. ASSUME NEW d \in Device, CreateDevice(d) PROVE TransitionInv'
    <2>1. /\ d \notin devices \cup deleted /\ devices' = devices \cup {d}
          /\ UNCHANGED <<health, nextId, events, check, crashes>>
      BY <1>1 DEF CreateDevice
    <2>2. ASSUME NEW v \in Worker
          PROVE  NothingReadYet(v)' /\ PrevIsRight(v)' /\ RowIsFresh(v)'
      <3>1. NothingReadYet(v) /\ PrevIsRight(v) /\ RowIsFresh(v) /\ DeviceIsKnown(v)
        BY DEF TransitionInv, IInv, WorkerInOrder
      <3>2. check[v].pc \in {"compared", "probed"} \cup Stored => check[v].dev # d
        BY <2>1, <3>1 DEF DeviceIsKnown, Stored
      <3>3. PrevIsRight(v)'
        BY <2>1, <3>1, <3>2, SameRecords DEF PrevIsRight, IsAlone
      <3> QED BY <2>1, <3>1, <3>3 DEF NothingReadYet, RowIsFresh
    <2>3. ASSUME crashes' = 0, NEW r \in health PROVE RecoveryIsRight(r)'
      <3>1. RecoveryIsRight(r)
        BY <2>1, <2>3, RecoveryByRow DEF TransitionInv
      <3> QED BY <2>1, <3>1, SameRecords DEF RecoveryIsRight, Handling, Reported
    <2>4. RecoveryIffTransition'
      BY <2>1, <2>3, RecoveryByRow
    <2> QED BY <2>1, <2>2, <2>4 DEF TransitionInv
  <1>2. ASSUME NEW d \in Device, DeleteDevice(d) PROVE TransitionInv'
    <2>1. /\ devices' = devices \ {d} /\ health' = health \ HealthOf(d)
          /\ UNCHANGED <<nextId, events, check, crashes>>
      BY <1>2 DEF DeleteDevice
    <2>2. \A e : e # d => HealthOf(e)' = HealthOf(e)
      BY <2>1 DEF HealthOf
    <2>3. \A e, n : e # d => (OutageBefore(e, n)' <=> OutageBefore(e, n))
      BY <2>2 DEF OutageBefore, Newer
    <2>4. ASSUME NEW v \in Worker
          PROVE  NothingReadYet(v)' /\ PrevIsRight(v)' /\ RowIsFresh(v)'
      <3>1. NothingReadYet(v) /\ PrevIsRight(v) /\ RowIsFresh(v)
        BY DEF TransitionInv
      <3>2. check[v].dev # d => (IsAlone(v)' <=> IsAlone(v))
        BY <2>1, <2>2 DEF IsAlone
      <3>3. PrevIsRight(v)'
        BY <2>1, <2>3, <3>1, <3>2 DEF PrevIsRight
      <3> QED BY <2>1, <3>1, <3>3 DEF NothingReadYet, RowIsFresh
    <2>5. ASSUME crashes' = 0, NEW r \in health' PROVE RecoveryIsRight(r)'
      <3>1. r \in health /\ r.dev # d
        BY <2>1 DEF HealthOf
      <3>2. RecoveryIsRight(r)
        BY <2>1, <2>5, <3>1, RecoveryByRow DEF TransitionInv
      <3> QED BY <2>1, <2>2, <2>3, <3>1, <3>2 DEF RecoveryIsRight, Handling, Reported
    <2>6. RecoveryIffTransition'
      BY <2>5, RecoveryByRow
    <2> QED BY <2>1, <2>4, <2>6 DEF TransitionInv
  <1>3. ASSUME Crash PROVE TransitionInv'
    <2>1. /\ crashes' # 0 /\ UNCHANGED <<health, events, nextId>>
          /\ \A v \in Worker : check'[v] = NoCheck
      BY <1>3 DEF Crash, database, IInv, TypeOK
    <2>2. \A v \in Worker : NothingReadYet(v)' /\ PrevIsRight(v)' /\ RowIsFresh(v)'
      BY <2>1 DEF NothingReadYet, PrevIsRight, RowIsFresh, NoCheck, Stored
    <2> QED BY <2>1, <2>2, RecoveryByRow DEF TransitionInv
  <1> QED BY <1>1, <1>2, <1>3 DEF Environment

\* Every step of the requests keeps the invariant.
LEMMA TransitionNextHolds == IInv /\ ReportInv /\ TransitionInv /\ [Next]_vars => TransitionInv'
  <1> SUFFICES ASSUME IInv, ReportInv, TransitionInv, [Next]_vars
               PROVE  TransitionInv'
    OBVIOUS
  <1>1. CASE UNCHANGED vars
    <2>1. UNCHANGED <<devices, health, nextId, events, check, crashes>>
      BY <1>1 DEF vars
    <2>2. ASSUME NEW v \in Worker
          PROVE  NothingReadYet(v)' /\ PrevIsRight(v)' /\ RowIsFresh(v)'
      BY <2>1, SameRecords DEF TransitionInv, NothingReadYet, PrevIsRight, RowIsFresh, IsAlone
    <2>3. ASSUME crashes' = 0, NEW r \in health PROVE RecoveryIsRight(r)'
      <3>1. RecoveryIsRight(r)
        BY <2>1, <2>3, RecoveryByRow DEF TransitionInv
      <3> QED BY <2>1, <3>1, SameRecords DEF RecoveryIsRight, Handling, Reported
    <2>4. RecoveryIffTransition'
      BY <2>1, <2>3, RecoveryByRow
    <2> QED BY <2>1, <2>2, <2>4 DEF TransitionInv
  <1>2. ASSUME NEW w \in Worker, RequestStep(w) \/ \E d \in Device : Authenticate(w, d)
        PROVE  TransitionInv'
    BY <1>2, TransitionMoveHolds, TransitionSaveHolds, TransitionDispatchHolds,
       TransitionAuthenticateHolds DEF RequestStep, CheckStep
  <1> QED BY <1>1, <1>2, TransitionEnvironmentHolds DEF Next

-----------------------------------------------------------------------------
(* The scheduled job: the first invariant survives in the session it carries *)
(* from check to check; freshness does not                                   *)

\* The fleet of a job is known and finite; its thread is idle between jobs and
\* otherwise checks a device of the fleet.
JobInOrder ==
    /\ job \in Job
    /\ IsFiniteSet(devices)
    /\ IsFiniteSet(job.fleet)
    /\ job.fleet \subseteq devices \cup deleted
    /\ job.todo \subseteq job.fleet
    /\ job.first <= nextId
    /\ job.state # "running" => check[JobWorker].pc = "idle"
    /\ job.state = "completed" => job.todo = {}
    /\ check[JobWorker].pc # "authenticated"
    /\ check[JobWorker].pc # "idle" => check[JobWorker].dev \in job.fleet

\* A thread moves on, the job's by a step of its check: the job then waits.
ThreadStep ==
    \/ CheckStep(JobWorker)
    \/ \E w \in Requester : RequestStep(w) \/ \E d \in Device : Authenticate(w, d)

\* What a waiting job can rely on: no device comes or goes, no record is lost,
\* its check neither starts nor ends, and goes on to raise or to store a record.
JobWaits ==
    /\ UNCHANGED <<devices, deleted>>
    /\ health \subseteq health' /\ nextId' >= nextId
    /\ check'[JobWorker].pc = "idle" <=> check[JobWorker].pc = "idle"
    /\ check'[JobWorker].pc # "authenticated"
    /\ check'[JobWorker].dev = check[JobWorker].dev
    /\ check[JobWorker].pc \in Probing \cup {"raised"} =>
          \/ check'[JobWorker].pc \in Probing \cup {"raised"}
          \/ \E r \in health' : r.dev = check[JobWorker].dev /\ r.id = nextId

\* Every step of a thread keeps the first invariant and lets the job wait.
LEMMA ThreadStepWaits ==
  ASSUME IInv, JobInOrder, ThreadStep
  PROVE  IInv' /\ JobWaits
  <1>0. /\ JobWorker \in Worker /\ nextId \in Nat
        /\ check \in [Worker -> Check] /\ check[JobWorker] \in Check
    BY JobAssumption DEF IInv, TypeOK
  <1>1. IInv'
    BY <1>0, AuthenticateHolds, GetDeviceHolds, RespondHolds, ReadPreviousHolds,
       ProbeHolds, SaveHolds, RefreshRecordHolds, ReloadDeviceHolds, DispatchEventHolds
       DEF ThreadStep, Requester, RequestStep, CheckStep
  <1>2. check'[JobWorker] \in Check
    BY <1>0, <1>1 DEF IInv, TypeOK
  <1>3. ASSUME NEW w \in Worker,
               \/ GetDevice(w) \/ ReadPrevious(w) \/ Probe(w) \/ RefreshRecord(w)
               \/ ReloadDevice(w) \/ DispatchEvent(w) \/ Respond(w)
               \/ \E d \in Device : Authenticate(w, d),
               w # JobWorker \/ CheckStep(w)
        PROVE  JobWaits
    <2>1. UNCHANGED <<devices, deleted, health, nextId>>
      BY <1>3 DEF GetDevice, ReadPrevious, Probe, RefreshRecord, ReloadDevice,
         DispatchEvent, Respond, Authenticate, database
    <2>2. CASE w # JobWorker
      <3>1. check'[JobWorker] = check[JobWorker]
        BY <1>0, <1>3, <2>2, StepsMove, AuthenticateStarts DEF Moves
      <3> QED BY <1>0, <2>1, <3>1 DEF JobWaits, JobInOrder
    <2>3. CASE w = JobWorker /\ CheckStep(w)
      <3>1. check[w].pc \in {"called", "compared", "probed"} \cup Stored
        BY <2>3 DEF CheckStep, ReadPrevious, Probe, Save, RefreshRecord,
           ReloadDevice, DispatchEvent, Stored
      <3>2. Moves(w)
        BY <1>3, <3>1, StepsMove DEF Authenticate, Stored
      <3>3. check'[w].pc # "idle"
        BY <3>1, <3>2 DEF Moves, Stored
      <3>4. check[w].pc \in Probing =>
               check'[w].pc \in {"called", "compared", "probed", "raised"}
        BY <1>2, <2>3, <3>2, <3>3 DEF Moves, Check, Stage, Probing
      <3> QED BY <1>0, <2>1, <2>3, <3>1, <3>2, <3>3, <3>4 DEF JobWaits, Moves, Probing, Stored
    <2> QED BY <1>3, <2>2, <2>3
  <1>4. ASSUME NEW w \in Worker, Save(w)
        PROVE  JobWaits
    <2>1. /\ UNCHANGED <<devices, deleted>> /\ nextId' >= nextId
          /\ health \subseteq health'
      BY <1>0, <1>4, SaveStores
    <2>2. CASE w # JobWorker
      <3>1. check'[JobWorker] = check[JobWorker]
        BY <1>0, <1>4, <2>2, SaveStores
      <3> QED BY <2>1, <3>1 DEF JobWaits, JobInOrder
    <2>3. CASE w = JobWorker
      <3>1. check'[w].dev = check[w].dev
        BY <1>0, <1>4 DEF Save, Goto, Check
      <3>2. check[w].pc = "probed" /\ check'[w].pc \in {"raised", "saved"}
        BY <1>4, SaveStores
      <3>3. check'[w].pc = "raised" \/ \E r \in health' : r.dev = check[w].dev /\ r.id = nextId
        BY <1>4, SaveStores
      <3> QED BY <2>1, <2>3, <3>1, <3>2, <3>3 DEF JobWaits
    <2> QED BY <2>2, <2>3
  <1> QED BY <1>0, <1>1, <1>3, <1>4 DEF ThreadStep, Requester, RequestStep, CheckStep

\* The job's thread starts a session with the inventory query.
LEMMA StartJobHolds ==
  ASSUME IInv, JobInOrder, StartJob
  PROVE  IInv'
  <1> DEFINE s == [session[JobWorker] EXCEPT !.loaded = devices, !.at = clock + 1]
  <1>0. /\ JobWorker \in Worker /\ session[JobWorker] \in Session
        /\ session \in [Worker -> Session] /\ clock \in Nat
        /\ check[JobWorker].pc = "idle"
        /\ UNCHANGED <<database, events, check, requests, crashes>>
    BY JobAssumption DEF IInv, TypeOK, StartJob, JobInOrder
  <1>1. /\ s \in Session /\ s.at = clock + 1 /\ s.broken = session[JobWorker].broken
        /\ session' = [session EXCEPT ![JobWorker] = s]
        /\ clock' = clock + 1
    <2>1. devices \in SUBSET Device /\ clock + 1 \in Nat
      BY <1>0 DEF IInv, TypeOK
    <2>2. s \in Session /\ s.at = clock + 1 /\ s.broken = session[JobWorker].broken
      BY <1>0, <2>1 DEF Session
    <2>3. session' = [session EXCEPT ![JobWorker] = s] /\ clock' = clock + 1
      BY <1>0 DEF StartJob, BeginTransaction
    <2> QED BY <2>2, <2>3
  <1> HIDE DEF s
  <1>2. /\ session' \in [Worker -> Session] /\ session'[JobWorker] = s
        /\ \A v \in Worker \ {JobWorker} : session'[v] = session[v]
    BY <1>0, <1>1, SessionUpdate
  <1>3. TypeOK'
    BY <1>0, <1>1, <1>2 DEF IInv, TypeOK, database
  <1>4. ~session[JobWorker].broken
    BY <1>0 DEF IInv, WorkerInOrder, RaiseIsExplained, Session
  <1>5. WorkerInOrder(JobWorker)'
    BY <1>0, <1>1, <1>2, <1>4 DEF IInv, WorkerInOrder, NextRowInOrder,
       DeviceIsKnown, RecordIsKnown, RaiseIsExplained, database, Stored
  <1>6. clock' \in Nat /\ clock' >= clock
    BY <1>0, <1>1
  <1> QED BY <1>0, <1>2, <1>3, <1>5, <1>6, QuietStep DEF IInv

\* The loop goes on to a device of the fleet.
LEMMA NextDeviceHolds ==
  ASSUME IInv, JobInOrder, NEW d \in Device, NextDevice(d)
  PROVE  /\ IInv'
         /\ check'[JobWorker].pc = "called" /\ check'[JobWorker].dev = d
  <1> DEFINE c == [NoCheck EXCEPT !.pc = "called", !.dev = d, !.began = nextId]
  <1>0. /\ JobWorker \in Worker /\ session[JobWorker] \in Session /\ nextId \in Nat
        /\ check[JobWorker].pc = "idle" /\ d \in devices \cup deleted
        /\ clock \in Nat /\ check \in [Worker -> Check]
        /\ UNCHANGED <<database, clock, events, session, requests, crashes>>
    BY JobAssumption DEF IInv, TypeOK, NextDevice, JobInOrder
  <1>1. c \in Check /\ c.pc = "called" /\ c.dev = d /\ c.began = nextId
    BY <1>0 DEF NoCheck, Check, Stage, None
  <1>2. check' = [check EXCEPT ![JobWorker] = c]
    BY DEF NextDevice
  <1> HIDE DEF c
  <1>3. /\ check' \in [Worker -> Check] /\ check'[JobWorker] = c
        /\ \A v \in Worker \ {JobWorker} : check'[v] = check[v]
    BY <1>0, <1>1, <1>2, CheckUpdate
  <1>4. TypeOK'
    BY <1>0, <1>3 DEF IInv, TypeOK, database
  <1>5. ~session[JobWorker].broken
    BY <1>0 DEF IInv, WorkerInOrder, RaiseIsExplained, Session
  <1>6. WorkerInOrder(JobWorker)'
    BY <1>0, <1>1, <1>3, <1>5 DEF IInv, WorkerInOrder, NextRowInOrder,
       DeviceIsKnown, RecordIsKnown, RaiseIsExplained, database, Stored
  <1> QED BY <1>0, <1>1, <1>3, <1>4, <1>6, QuietStep DEF IInv

\* A check of the job ends: its thread is idle again, in the same session or in
\* none, and no broken session is carried on.
LEMMA JobCheckEnds ==
  ASSUME IInv, CountResult \/ CountFailure
  PROVE  /\ IInv'
         /\ check'[JobWorker] = NoCheck
         /\ UNCHANGED <<database, events>>
  <1>0. /\ JobWorker \in Worker /\ session[JobWorker] \in Session
        /\ session \in [Worker -> Session] /\ check \in [Worker -> Check]
        /\ nextId \in Nat /\ clock \in Nat
        /\ UNCHANGED <<database, clock, events, requests, crashes>>
    BY JobAssumption DEF IInv, TypeOK, CountResult, CountFailure
  <1>1. /\ check' \in [Worker -> Check] /\ check'[JobWorker] = NoCheck
        /\ \A v \in Worker \ {JobWorker} : check'[v] = check[v]
    BY <1>0, IdleTypes, CheckUpdate DEF CountResult, CountFailure
  <1>2. /\ session' \in [Worker -> Session]
        /\ \A v \in Worker \ {JobWorker} : session'[v] = session[v]
        /\ \/ session'[JobWorker] = NoSession
           \/ session'[JobWorker] = session[JobWorker] /\ ~session[JobWorker].broken
    <2>1. CASE session' = session /\ ~session[JobWorker].broken
      BY <1>0, <2>1
    <2>2. CASE session' = [session EXCEPT ![JobWorker] = NoSession]
      BY <1>0, <2>2, IdleTypes, SessionUpdate
    <2>3. CASE CountResult
      BY <1>0, <2>1, <2>3 DEF CountResult, IInv, WorkerInOrder, RaiseIsExplained, Session
    <2>4. CASE CountFailure
      <3>1. session[JobWorker].broken => ~Readable(JobWorker, check[JobWorker].dev)
        BY <1>0 DEF IInv, WorkerInOrder, RaiseIsExplained, Readable
      <3> QED BY <1>0, <2>1, <2>2, <2>4, <3>1 DEF CountFailure, Session
    <2> QED BY <2>3, <2>4
  <1>3. TypeOK'
    BY <1>0, <1>1, <1>2 DEF IInv, TypeOK, database
  <1>4. WorkerInOrder(JobWorker)'
    <2>1. session[JobWorker].at <= clock
      BY <1>0 DEF IInv, WorkerInOrder, NextRowInOrder
    <2> QED BY <1>0, <1>1, <1>2, <2>1 DEF WorkerInOrder, NextRowInOrder, DeviceIsKnown,
            RecordIsKnown, RaiseIsExplained, NoCheck, NoSession, Stored, database
  <1> QED BY <1>0, <1>1, <1>2, <1>3, <1>4, QuietStep DEF IInv

\* The loop ends and the session is closed.
LEMMA CompleteJobHolds ==
  ASSUME IInv, CompleteJob
  PROVE  IInv'
  <1>0. /\ JobWorker \in Worker /\ session \in [Worker -> Session]
        /\ check[JobWorker].pc = "idle" /\ clock \in Nat
        /\ UNCHANGED <<database, clock, events, check, requests, crashes>>
    BY JobAssumption DEF IInv, TypeOK, CompleteJob
  <1>1. /\ session' \in [Worker -> Session] /\ session'[JobWorker] = NoSession
        /\ \A v \in Worker \ {JobWorker} : session'[v] = session[v]
    BY <1>0, IdleTypes, SessionUpdate DEF CompleteJob
  <1>2. TypeOK'
    BY <1>0, <1>1 DEF IInv, TypeOK, database
  <1>3. WorkerInOrder(JobWorker)'
    BY <1>0, <1>1 DEF IInv, WorkerInOrder, NextRowInOrder, DeviceIsKnown,
       RecordIsKnown, RaiseIsExplained, NoSession, Stored, database
  <1> QED BY <1>0, <1>1, <1>2, <1>3, QuietStep DEF IInv

\* A new job lists the devices and has counted nothing.
LEMMA StartJobUpdates ==
  ASSUME job \in Job, devices \subseteq Device, nextId \in Nat, StartJob
  PROVE  /\ job' \in Job /\ job'.state = "running"
         /\ job'.fleet = devices /\ job'.todo = devices /\ job'.first = nextId
         /\ job'.processed = 0 /\ job'.succeeded = 0 /\ job'.failed = 0
  <1> DEFINE j == [NoJob EXCEPT !.state = "running", !.fleet = devices,
                                !.todo = devices, !.first = nextId,
                                !.runs = job.runs + 1]
  <1>1. job.runs + 1 \in Nat /\ devices \in SUBSET Device
    BY DEF Job
  <1>2. /\ j \in Job /\ j.state = "running"
        /\ j.fleet = devices /\ j.todo = devices /\ j.first = nextId
        /\ j.processed = 0 /\ j.succeeded = 0 /\ j.failed = 0
    BY <1>1 DEF NoJob, Job
  <1> HIDE DEF j
  <1> QED BY <1>2 DEF StartJob, j

\* The next device leaves the list and is being processed.
LEMMA NextDeviceUpdates ==
  ASSUME job \in Job, NEW d, NextDevice(d)
  PROVE  /\ job' \in Job /\ job'.state = job.state
         /\ job'.fleet = job.fleet /\ job'.todo = job.todo \ {d} /\ job'.first = job.first
         /\ job'.processed = job.processed + 1
         /\ job'.succeeded = job.succeeded /\ job'.failed = job.failed
  <1>1. job.processed + 1 \in Nat /\ job.todo \ {d} \in SUBSET Device
    BY DEF Job
  <1>2. job' = [job EXCEPT !.todo = job.todo \ {d}, !.processed = job.processed + 1]
    BY DEF NextDevice
  <1> QED BY <1>1, <1>2 DEF Job

\* A check that ends is counted once, and only one that raised can abort the job.
LEMMA JobCheckEndsUpdates ==
  ASSUME job \in Job, CountResult \/ CountFailure
  PROVE  /\ job' \in Job /\ job'.state \in {job.state, "aborted"}
         /\ job'.fleet = job.fleet /\ job'.todo = job.todo /\ job'.first = job.first
         /\ job'.processed = job.processed
         /\ job'.succeeded + job'.failed = job.succeeded + job.failed + 1
         /\ job'.state # job.state => check[JobWorker].pc = "raised"
  <1>1. /\ job.succeeded \in Nat /\ job.failed \in Nat
        /\ job.succeeded + 1 \in Nat /\ job.failed + 1 \in Nat
    BY DEF Job
  <1>2. CASE job' = [job EXCEPT !.succeeded = job.succeeded + 1] /\ CountResult
    BY <1>1, <1>2 DEF Job
  <1>3. CASE job' = [job EXCEPT !.failed = job.failed + 1] /\ CountResult
    BY <1>1, <1>3 DEF Job
  <1>4. ASSUME NEW s \in {job.state, "aborted"}, check[JobWorker].pc = "raised",
               job' = [job EXCEPT !.failed = job.failed + 1, !.state = s]
        PROVE  /\ job' \in Job /\ job'.state \in {job.state, "aborted"}
               /\ job'.fleet = job.fleet /\ job'.todo = job.todo
               /\ job'.first = job.first
               /\ job'.processed = job.processed
               /\ job'.succeeded + job'.failed = job.succeeded + job.failed + 1
    <2>1. s \in {"waiting", "running", "completed", "aborted"}
      BY DEF Job
    <2>2. /\ job' \in Job /\ job'.state = s
          /\ job'.fleet = job.fleet /\ job'.todo = job.todo
          /\ job'.first = job.first /\ job'.processed = job.processed
          /\ job'.succeeded = job.succeeded /\ job'.failed = job.failed + 1
      BY <1>1, <1>4, <2>1 DEF Job
    <2> QED BY <1>1, <2>2
  <1>5. CASE CountFailure
    <2>1. PICK s \in {job.state, "aborted"} :
             job' = [job EXCEPT !.failed = job.failed + 1, !.state = s]
      BY <1>5 DEF CountFailure
    <2>2. check[JobWorker].pc = "raised"
      BY <1>5 DEF CountFailure
    <2> QED BY <1>4, <2>1, <2>2
  <1> QED BY <1>2, <1>3, <1>5 DEF CountResult

\* The end of the loop counts nothing.
LEMMA CompleteJobUpdates ==
  ASSUME job \in Job, CompleteJob
  PROVE  /\ job' \in Job /\ job'.state = "completed"
         /\ job'.fleet = job.fleet /\ job'.todo = job.todo /\ job'.first = job.first
         /\ job'.processed = job.processed
         /\ job'.succeeded = job.succeeded /\ job'.failed = job.failed
  BY DEF CompleteJob, Job

\* A crash forgets the job.
LEMMA JobCrashUpdates ==
  ASSUME job \in Job, JobCrash
  PROVE  /\ job' \in Job /\ job'.state = "waiting"
         /\ job'.fleet = {} /\ job'.todo = {} /\ job'.first = 0
         /\ job'.processed = 0 /\ job'.succeeded = 0 /\ job'.failed = 0
  BY DEF JobCrash, NoJob, Job

\* Every step keeps the first invariant and the order of the job.
LEMMA JobNextHolds == IInv /\ JobInOrder /\ [JobNext]_jobVars => IInv' /\ JobInOrder'
  <1> SUFFICES ASSUME IInv, JobInOrder, [JobNext]_jobVars
               PROVE  IInv' /\ JobInOrder'
    OBVIOUS
  <1>0. /\ JobWorker \in Worker /\ nextId \in Nat /\ job \in Job
        /\ devices \subseteq Device /\ IsFiniteSet(devices) /\ IsFiniteSet(job.fleet)
    BY JobAssumption DEF IInv, TypeOK, JobInOrder
  <1>1. CASE StartJob
    <2>1. /\ devices' = devices /\ deleted' = deleted /\ nextId' = nextId /\ check' = check
          /\ check[JobWorker].pc = "idle"
      BY <1>1 DEF StartJob, database, JobInOrder
    <2>2. JobInOrder'
      BY <1>0, <1>1, <2>1, StartJobUpdates DEF JobInOrder
    <2> QED BY <1>1, <2>2, StartJobHolds
  <1>2. ASSUME NEW d \in Device, NextDevice(d) PROVE IInv' /\ JobInOrder'
    <2>1. IInv' /\ check'[JobWorker].pc = "called" /\ check'[JobWorker].dev = d
      BY <1>2, NextDeviceHolds
    <2>2. /\ UNCHANGED <<devices, deleted, nextId>> /\ d \in job.todo
          /\ job.state = "running"
      BY <1>2 DEF NextDevice, database
    <2> QED BY <1>0, <1>2, <2>1, <2>2, NextDeviceUpdates DEF JobInOrder
  <1>3. CASE CountResult \/ CountFailure
    <2>1. /\ IInv' /\ check'[JobWorker].pc = "idle"
          /\ UNCHANGED <<devices, deleted, nextId>>
      BY <1>3, JobCheckEnds DEF NoCheck, database
    <2>2. check[JobWorker].pc # "idle"
      BY <1>3 DEF CountResult, CountFailure
    <2> QED BY <1>0, <1>3, <2>1, <2>2, JobCheckEndsUpdates DEF JobInOrder
  <1>4. CASE CompleteJob
    <2>1. /\ UNCHANGED <<devices, deleted, nextId, check>> /\ check[JobWorker].pc = "idle"
          /\ job.todo = {}
      BY <1>4 DEF CompleteJob, database
    <2> QED BY <1>0, <1>4, <2>1, CompleteJobUpdates, CompleteJobHolds DEF JobInOrder
  <1>5. CASE ThreadStep /\ UNCHANGED job
    <2>1. IInv' /\ JobWaits
      BY <1>5, ThreadStepWaits
    <2>2. nextId' \in Nat /\ job.first \in Nat
      BY <1>0, <2>1 DEF IInv, TypeOK, Job
    <2> QED BY <1>0, <1>5, <2>1, <2>2 DEF JobWaits, JobInOrder
  <1>6. ASSUME NEW d \in Device, CreateDevice(d) \/ DeleteDevice(d), UNCHANGED job
        PROVE  IInv' /\ JobInOrder'
    <2>1. IInv'
      BY <1>6, CreateDeviceHolds, DeleteDeviceHolds
    <2>2. IsFiniteSet(devices')
      BY <1>0, <1>6, FS_AddElement, FS_RemoveElement DEF CreateDevice, DeleteDevice
    <2>3. /\ devices \cup deleted \subseteq devices' \cup deleted'
          /\ UNCHANGED <<nextId, check>>
      BY <1>6 DEF CreateDevice, DeleteDevice
    <2> QED BY <1>6, <2>1, <2>2, <2>3 DEF JobInOrder
  <1>7. CASE JobCrash
    <2>1. /\ UNCHANGED <<devices, deleted, nextId>>
          /\ check'[JobWorker].pc = "idle"
      BY <1>0, <1>7 DEF JobCrash, Crash, database, NoCheck
    <2>2. IInv'
      BY <1>7, CrashHolds DEF JobCrash
    <2> QED BY <1>0, <1>7, <2>1, <2>2, JobCrashUpdates, FS_EmptySet DEF JobInOrder
  <1>8. CASE UNCHANGED jobVars
    BY <1>8, NextHolds DEF jobVars, vars, JobInOrder
  <1> QED BY <1>1, <1>2, <1>3, <1>4, <1>5, <1>6, <1>7, <1>8
          DEF JobNext, JobStep, ThreadStep

\* Every step keeps the counts of the job.
LEMMA JobCountsHold ==
  IInv /\ JobInOrder /\ JobCountsAddUp /\ [JobNext]_jobVars => JobCountsAddUp'
  <1> SUFFICES ASSUME IInv, JobInOrder, JobCountsAddUp, [JobNext]_jobVars
               PROVE  JobCountsAddUp'
    OBVIOUS
  <1>0. /\ JobWorker \in Worker /\ nextId \in Nat /\ job \in Job
        /\ devices \subseteq Device /\ IsFiniteSet(devices) /\ IsFiniteSet(job.fleet)
        /\ job.processed \in Nat /\ job.succeeded \in Nat /\ job.failed \in Nat
        /\ IsFiniteSet(job.todo)
    BY JobAssumption, FS_Subset DEF IInv, TypeOK, JobInOrder, Job
  <1>1. Cardinality(job.todo) \in Nat /\ Cardinality(job.fleet) \in Nat
    BY <1>0, FS_CardinalityType
  <1>2. CASE StartJob
    <2>1. check' = check /\ check[JobWorker].pc = "idle"
      BY <1>2 DEF StartJob, JobInOrder
    <2>2. Cardinality(devices) \in Nat
      BY <1>0, FS_CardinalityType
    <2>3. /\ job'.fleet = devices /\ job'.todo = devices
          /\ job'.processed = 0 /\ job'.succeeded = 0 /\ job'.failed = 0
      BY <1>0, <1>2, StartJobUpdates
    <2> QED BY <2>1, <2>2, <2>3 DEF JobCountsAddUp
  <1>3. ASSUME NEW d \in Device, NextDevice(d) PROVE JobCountsAddUp'
    <2>1. check'[JobWorker].pc = "called" /\ check[JobWorker].pc = "idle" /\ d \in job.todo
      BY <1>3, NextDeviceHolds DEF NextDevice
    <2>2. Cardinality(job.todo \ {d}) = Cardinality(job.todo) - 1
      BY <1>0, <2>1, FS_RemoveElement
    <2>3. /\ job'.fleet = job.fleet /\ job'.todo = job.todo \ {d}
          /\ job'.processed = job.processed + 1
          /\ job'.succeeded = job.succeeded /\ job'.failed = job.failed
      BY <1>0, <1>3, NextDeviceUpdates
    <2> QED BY <1>0, <1>1, <2>1, <2>2, <2>3 DEF JobCountsAddUp
  <1>4. CASE CountResult \/ CountFailure
    <2>1. check'[JobWorker].pc = "idle" /\ check[JobWorker].pc # "idle"
      BY <1>4, JobCheckEnds DEF CountResult, CountFailure, NoCheck
    <2>2. /\ job'.fleet = job.fleet /\ job'.todo = job.todo
          /\ job'.processed = job.processed
          /\ job'.succeeded + job'.failed = job.succeeded + job.failed + 1
      BY <1>0, <1>4, JobCheckEndsUpdates
    <2> QED BY <1>0, <2>1, <2>2 DEF JobCountsAddUp
  <1>5. CASE CompleteJob
    <2>1. check' = check
      BY <1>5 DEF CompleteJob
    <2> QED BY <1>0, <1>5, <2>1, CompleteJobUpdates DEF JobCountsAddUp
  <1>6. CASE ThreadStep /\ UNCHANGED job
    BY <1>6, ThreadStepWaits DEF JobWaits, JobCountsAddUp
  <1>7. ASSUME NEW d \in Device, CreateDevice(d) \/ DeleteDevice(d), UNCHANGED job
        PROVE  JobCountsAddUp'
    BY <1>7 DEF CreateDevice, DeleteDevice, JobCountsAddUp
  <1>8. CASE JobCrash
    <2>1. check'[JobWorker].pc = "idle"
      BY <1>0, <1>8 DEF JobCrash, Crash, NoCheck
    <2>2. Cardinality({}) = 0
      BY FS_EmptySet
    <2>3. /\ job'.fleet = {} /\ job'.todo = {}
          /\ job'.processed = 0 /\ job'.succeeded = 0 /\ job'.failed = 0
      BY <1>0, <1>8, JobCrashUpdates
    <2> QED BY <2>1, <2>2, <2>3 DEF JobCountsAddUp
  <1>9. CASE UNCHANGED jobVars
    BY <1>9 DEF jobVars, vars, JobCountsAddUp
  <1> QED BY <1>2, <1>3, <1>4, <1>5, <1>6, <1>7, <1>8, <1>9
          DEF JobNext, JobStep, ThreadStep

\* Every step keeps the reason for an abort.
LEMMA JobAbortHolds ==
  IInv /\ JobInOrder /\ JobAbortsOnlyIfDeleted /\ [JobNext]_jobVars => JobAbortsOnlyIfDeleted'
  <1> SUFFICES ASSUME IInv, JobInOrder, JobAbortsOnlyIfDeleted, [JobNext]_jobVars
               PROVE  JobAbortsOnlyIfDeleted'
    OBVIOUS
  <1>0. /\ JobWorker \in Worker /\ nextId \in Nat /\ job \in Job /\ devices \subseteq Device
    BY JobAssumption DEF IInv, TypeOK, JobInOrder
  <1>1. CASE StartJob
    BY <1>0, <1>1, StartJobUpdates DEF JobAbortsOnlyIfDeleted
  <1>2. ASSUME NEW d \in Device, NextDevice(d) PROVE JobAbortsOnlyIfDeleted'
    BY <1>0, <1>2, NextDeviceUpdates DEF JobAbortsOnlyIfDeleted, NextDevice, database
  <1>3. CASE CountResult \/ CountFailure
    <2>1. /\ deleted' = deleted
          /\ check[JobWorker].pc = "raised" => check[JobWorker].dev \in deleted
          /\ check[JobWorker].pc = "raised" => check[JobWorker].dev \in job.fleet
      BY <1>0, <1>3, JobCheckEnds DEF database, IInv, WorkerInOrder, RaiseIsExplained, JobInOrder
    <2> QED BY <1>0, <1>3, <2>1, JobCheckEndsUpdates DEF JobAbortsOnlyIfDeleted
  <1>4. CASE CompleteJob
    BY <1>0, <1>4, CompleteJobUpdates DEF JobAbortsOnlyIfDeleted
  <1>5. CASE ThreadStep /\ UNCHANGED job
    BY <1>5, ThreadStepWaits DEF JobWaits, JobAbortsOnlyIfDeleted
  <1>6. ASSUME NEW d \in Device, CreateDevice(d) \/ DeleteDevice(d), UNCHANGED job
        PROVE  JobAbortsOnlyIfDeleted'
    BY <1>6 DEF CreateDevice, DeleteDevice, JobAbortsOnlyIfDeleted
  <1>7. CASE JobCrash
    BY <1>0, <1>7, JobCrashUpdates DEF JobAbortsOnlyIfDeleted
  <1>8. CASE UNCHANGED jobVars
    BY <1>8 DEF jobVars, vars, JobAbortsOnlyIfDeleted
  <1> QED BY <1>1, <1>2, <1>3, <1>4, <1>5, <1>6, <1>7, <1>8
          DEF JobNext, JobStep, ThreadStep

\* the job has left a record of d
Covered(d) == \E r \in health : r.dev = d /\ r.id >= job.first

\* Whatever the loop has reached and still exists has its record, unless its
\* check is under way.
FleetIsCovered ==
    job.state \in {"running", "completed"} =>
        \A d \in (job.fleet \cap devices) \ job.todo :
            \/ Covered(d)
            \/ check[JobWorker].dev = d /\ check[JobWorker].pc \in Probing \cup {"raised"}

\* Every step keeps the fleet covered: a check of the job leaves a record or
\* raises, and raises only for a device that is gone.
LEMMA JobCoverHolds ==
  IInv /\ JobInOrder /\ FleetIsCovered /\ [JobNext]_jobVars => FleetIsCovered'
  <1> SUFFICES ASSUME IInv, JobInOrder, FleetIsCovered, [JobNext]_jobVars
               PROVE  FleetIsCovered'
    OBVIOUS
  <1>0. /\ JobWorker \in Worker /\ nextId \in Nat /\ job \in Job
        /\ devices \subseteq Device /\ job.first \in Nat /\ job.first <= nextId
    BY JobAssumption DEF IInv, TypeOK, JobInOrder, Job
  <1>1. CASE StartJob
    <2>1. job'.fleet = devices /\ job'.todo = devices
      BY <1>0, <1>1, StartJobUpdates
    <2> QED BY <2>1 DEF FleetIsCovered
  <1>2. ASSUME NEW d \in Device, NextDevice(d) PROVE FleetIsCovered'
    <2>1. /\ check'[JobWorker].pc = "called" /\ check'[JobWorker].dev = d
          /\ check[JobWorker].pc = "idle"
          /\ UNCHANGED <<devices, health>>
      BY <1>2, NextDeviceHolds DEF NextDevice, database
    <2>2. /\ job'.state = job.state /\ job'.fleet = job.fleet
          /\ job'.todo = job.todo \ {d} /\ job'.first = job.first
      BY <1>0, <1>2, NextDeviceUpdates
    <2> QED BY <2>1, <2>2 DEF FleetIsCovered, Covered, Probing
  <1>3. CASE CountResult \/ CountFailure
    <2>1. /\ UNCHANGED <<devices, deleted, health>>
          /\ check[JobWorker].pc \in {"returned", "raised"}
      BY <1>3, JobCheckEnds DEF database, CountResult, CountFailure
    <2>2. check[JobWorker].pc = "raised" => check[JobWorker].dev \notin devices
      BY <1>0 DEF IInv, TypeOK, WorkerInOrder, RaiseIsExplained
    <2>3. /\ job'.state \in {job.state, "aborted"} /\ job'.fleet = job.fleet
          /\ job'.todo = job.todo /\ job'.first = job.first
      BY <1>0, <1>3, JobCheckEndsUpdates
    <2> QED BY <2>1, <2>2, <2>3 DEF FleetIsCovered, Covered, Probing
  <1>4. CASE CompleteJob
    <2>1. job.state = "running" /\ UNCHANGED <<devices, health, check>>
      BY <1>4 DEF CompleteJob, database
    <2> QED BY <1>0, <1>4, <2>1, CompleteJobUpdates DEF FleetIsCovered, Covered
  <1>5. CASE ThreadStep /\ UNCHANGED job
    <2>1. JobWaits
      BY <1>5, ThreadStepWaits
    <2>2. \A d : Covered(d) => Covered(d)'
      BY <1>5, <2>1 DEF JobWaits, Covered
    <2>3. check[JobWorker].pc \in Probing \cup {"raised"} =>
             \/ Covered(check[JobWorker].dev)'
             \/ check'[JobWorker].pc \in Probing \cup {"raised"}
      BY <1>0, <1>5, <2>1 DEF JobWaits, Covered
    <2> QED BY <1>5, <2>1, <2>2, <2>3 DEF JobWaits, FleetIsCovered
  <1>6. ASSUME NEW d \in Device, CreateDevice(d) \/ DeleteDevice(d), UNCHANGED job
        PROVE  FleetIsCovered'
    <2>1. CASE CreateDevice(d)
      <3>1. /\ d \notin job.fleet /\ devices' = devices \cup {d}
            /\ UNCHANGED <<health, check>>
        BY <2>1 DEF CreateDevice, JobInOrder
      <3> QED BY <1>6, <3>1 DEF FleetIsCovered, Covered
    <2>2. CASE DeleteDevice(d)
      <3>1. /\ devices' = devices \ {d} /\ UNCHANGED check
            /\ \A r \in health : r.dev # d => r \in health'
        BY <2>2 DEF DeleteDevice, HealthOf
      <3> QED BY <1>6, <3>1 DEF FleetIsCovered, Covered
    <2> QED BY <1>6, <2>1, <2>2
  <1>7. CASE JobCrash
    BY <1>0, <1>7, JobCrashUpdates DEF FleetIsCovered
  <1>8. CASE UNCHANGED jobVars
    BY <1>8 DEF jobVars, vars, FleetIsCovered, Covered
  <1> QED BY <1>1, <1>2, <1>3, <1>4, <1>5, <1>6, <1>7, <1>8
          DEF JobNext, JobStep, ThreadStep

\* The job's own steps neither store nor report, and start with nothing read.
LEMMA JobStepIsQuiet ==
  ASSUME IInv, JobInOrder,
         \/ StartJob \/ CountResult \/ CountFailure \/ CompleteJob
         \/ \E d \in Device : NextDevice(d)
  PROVE  /\ UNCHANGED <<devices, health, nextId, events, crashes>>
         /\ \A v \in Worker \ {JobWorker} : check'[v] = check[v]
         /\ check[JobWorker].pc \notin Stored
         /\ check'[JobWorker].pc \in {"idle", "called"}
         /\ check'[JobWorker].pc = "called" => check'[JobWorker].prev = None
  <1>0. /\ JobWorker \in Worker /\ check \in [Worker -> Check]
        /\ UNCHANGED <<devices, health, nextId, events, crashes>>
    BY JobAssumption DEF IInv, TypeOK, StartJob, NextDevice, CountResult, CountFailure,
       CompleteJob, database
  <1>1. CASE StartJob \/ CompleteJob
    <2>1. check' = check /\ check[JobWorker].pc = "idle"
      BY <1>1 DEF StartJob, CompleteJob, JobInOrder
    <2> QED BY <1>0, <2>1 DEF Stored
  <1>2. CASE CountResult \/ CountFailure
    <2>1. /\ check' = [check EXCEPT ![JobWorker] = NoCheck]
          /\ check[JobWorker].pc \in {"returned", "raised"}
      BY <1>2 DEF CountResult, CountFailure
    <2> QED BY <1>0, <2>1 DEF NoCheck, Stored
  <1>3. ASSUME NEW d \in Device, NextDevice(d)
        PROVE  /\ \A v \in Worker \ {JobWorker} : check'[v] = check[v]
               /\ check[JobWorker].pc = "idle"
               /\ check'[JobWorker].pc = "called" /\ check'[JobWorker].prev = None
    BY <1>0, <1>3 DEF NextDevice, NoCheck
  <1> QED BY <1>0, <1>1, <1>2, <1>3 DEF Stored

\* What the requests keep about outages and their events, the job keeps too.
LEMMA JobReportHolds ==
  IInv /\ JobInOrder /\ ReportInv /\ [JobNext]_jobVars => ReportInv'
  <1> SUFFICES ASSUME IInv, JobInOrder, ReportInv, [JobNext]_jobVars
               PROVE  ReportInv'
    OBVIOUS
  <1>0. JobWorker \in Worker
    BY JobAssumption
  <1>1. CASE \/ StartJob \/ CountResult \/ CountFailure \/ CompleteJob
             \/ \E d \in Device : NextDevice(d)
    <2>1. check'[JobWorker].pc \notin Stored
      BY <1>1, JobStepIsQuiet DEF Stored
    <2> QED BY <1>0, <1>1, <2>1, JobStepIsQuiet, ReportQuietStep
  <1>2. CASE ThreadStep
    BY <1>0, <1>2, ReportOutsideHolds, ReportReloadHolds, ReportDispatchHolds,
       ReportSaveHolds DEF ThreadStep, Requester, RequestStep, CheckStep
  <1>3. CASE Environment
    BY <1>3, ReportEnvironmentHolds
  <1>4. CASE UNCHANGED vars
    BY <1>4, ReportNextHolds
  <1> QED BY <1>1, <1>2, <1>3, <1>4
          DEF JobNext, JobStep, ThreadStep, JobCrash, Environment, jobVars

\* So it is with recoveries.
LEMMA JobTransitionHolds ==
  IInv /\ JobInOrder /\ ReportInv /\ TransitionInv /\ [JobNext]_jobVars => TransitionInv'
  <1> SUFFICES ASSUME IInv, JobInOrder, ReportInv, TransitionInv, [JobNext]_jobVars
               PROVE  TransitionInv'
    OBVIOUS
  <1>0. JobWorker \in Worker /\ nextId \in Nat
    BY JobAssumption DEF IInv, TypeOK
  <1>1. CASE \/ StartJob \/ CountResult \/ CountFailure \/ CompleteJob
             \/ \E d \in Device : NextDevice(d)
    <2>1. check'[JobWorker].pc \notin Stored /\ check[JobWorker].pc \notin Stored
      BY <1>1, JobStepIsQuiet DEF Stored
    <2>2. NothingReadYet(JobWorker)' /\ PrevIsRight(JobWorker)'
      BY <1>1, <2>1, JobStepIsQuiet DEF NothingReadYet, PrevIsRight
    <2>3. nextId' \in Nat /\ nextId' >= nextId
      BY <1>0, <1>1, JobStepIsQuiet
    <2> QED BY <1>0, <1>1, <2>1, <2>2, <2>3, JobStepIsQuiet, TransitionQuietStep
  <1>2. CASE ThreadStep
    BY <1>0, <1>2, TransitionMoveHolds, TransitionSaveHolds, TransitionDispatchHolds,
       TransitionAuthenticateHolds DEF ThreadStep, Requester, RequestStep, CheckStep
  <1>3. CASE Environment
    BY <1>3, TransitionEnvironmentHolds
  <1>4. CASE UNCHANGED vars
    BY <1>4, TransitionNextHolds
  <1> QED BY <1>1, <1>2, <1>3, <1>4
          DEF JobNext, JobStep, ThreadStep, JobCrash, Environment, jobVars

-----------------------------------------------------------------------------
(* Theorems *)

\* The invariant holds in every reachable state.
THEOREM Invariance == Spec => []IInv
  <1> QED BY InitHolds, NextHolds, PTL DEF Spec

\* Types are correct in every reachable state.
THEOREM TypeCorrectness == Spec => []TypeOK
  <1>1. IInv => TypeOK
    BY DEF IInv
  <1> QED BY <1>1, Invariance, PTL

\* A health check raises only if its device was deleted while it ran.
THEOREM ChecksRaiseOnlyIfDeleted == Spec => []RaisesOnlyIfDeleted
  <1>1. IInv => RaisesOnlyIfDeleted
    BY DEF IInv, WorkerInOrder, RaiseIsExplained, RaisesOnlyIfDeleted
  <1> QED BY <1>1, Invariance, PTL

\* Every health event stands on a stored record of its device and status, until
\* the device is deleted.
THEOREM EventsHaveRecords == Spec => []EventHasRecord
  <1>1. IInv => EventHasRecord
    BY DEF IInv
  <1> QED BY <1>1, Invariance, PTL

\* Unless the process died, every outage a check recorded has its event, once the
\* check is over.
THEOREM OutagesAreReported == Spec => []OutageIsReported
  <1>1. Init => ReportInv
    BY DEF Init, ReportInv, OwnsItsRow, OutageIsReported, NoCheck, Stored
  <1>2. ReportInv => OutageIsReported
    BY DEF ReportInv
  <1> QED BY <1>1, <1>2, ReportNextHolds, Invariance, PTL DEF Spec

\* The record shown as a device's latest is never one that was stored before
\* another stored check of the device was even requested.
THEOREM LatestRecordIsFresh == Spec => []LatestIsFresh
  <1>1. Init => FreshInv
    BY DEF Init, FreshInv, RowsFollowRequests, NextRowFollows
  <1>2. IInv /\ FreshInv => LatestIsFresh
    <2> SUFFICES ASSUME IInv, FreshInv, NEW r \in health, NEW s \in health,
                        r.dev = s.dev, IsLatest(r)
                 PROVE  s.began <= r.id
      BY DEF LatestIsFresh
    <2>1. r \in Row /\ s \in Row
      BY DEF IInv, TypeOK
    <2>2. ~Newer(s, r)
      BY DEF IsLatest, HealthOf
    <2>3. ~(r.at < s.at)
      BY <2>1, <2>2 DEF Newer, Row
    <2>4. ~(r.id < s.began)
      BY <2>3 DEF FreshInv, RowsFollowRequests
    <2> QED BY <2>1, <2>4 DEF Row
  <1> QED BY <1>1, <1>2, FreshNextHolds, Invariance, PTL DEF Spec

\* Unless the process died, a successful check that no other check of its device
\* was stored during has reported a recovery exactly when the record before it
\* was an outage.
THEOREM RecoveriesAreTransitions == Spec => []RecoveryIffTransition
  <1>1. Init => ReportInv
    BY DEF Init, ReportInv, OwnsItsRow, OutageIsReported, NoCheck, Stored
  <1>2. Init => TransitionInv
    BY DEF Init, TransitionInv, NothingReadYet, PrevIsRight, RowIsFresh,
       RecoveryIffTransition, NoCheck, Stored
  <1>3. TransitionInv => RecoveryIffTransition
    BY DEF TransitionInv
  <1> QED BY <1>1, <1>2, <1>3, ReportNextHolds, TransitionNextHolds, Invariance, PTL
          DEF Spec

\* Beside the job the first invariant holds too, and the job is in order.
THEOREM JobInvariance == JobSpec => [](IInv /\ JobInOrder)
  <1>1. JobInit => IInv /\ JobInOrder
    <2> SUFFICES ASSUME JobInit PROVE IInv /\ JobInOrder
      OBVIOUS
    <2>1. /\ job = NoJob /\ devices = {} /\ nextId = 1 /\ IInv
          /\ check[JobWorker] = NoCheck
      BY JobAssumption, InitHolds DEF JobInit, Init
    <2>2. JobInOrder
      BY <2>1, FS_EmptySet DEF JobInOrder, NoJob, Job, NoCheck
    <2> QED BY <2>1, <2>2
  <1> QED BY <1>1, JobNextHolds, PTL DEF JobSpec

\* Types are correct beside the job.
THEOREM JobTypeCorrectness == JobSpec => []JobTypeOK
  <1>1. IInv /\ JobInOrder => JobTypeOK
    BY DEF IInv, JobInOrder, JobTypeOK
  <1> QED BY <1>1, JobInvariance, PTL

\* A scheduled job is aborted only by the deletion of a device it had listed.
THEOREM JobsAbortOnlyIfDeleted == JobSpec => []JobAbortsOnlyIfDeleted
  <1>1. JobInit => JobAbortsOnlyIfDeleted
    BY DEF JobInit, NoJob, JobAbortsOnlyIfDeleted
  <1> QED BY <1>1, JobAbortHolds, JobInvariance, PTL DEF JobSpec

\* The counts of a job add up, and one that completes leaves a record of every
\* device of its fleet that still exists.
THEOREM JobsAccountForTheirFleet == JobSpec => []JobAccountsForFleet
  <1>1. JobInit => JobCountsAddUp /\ FleetIsCovered
    <2> SUFFICES ASSUME JobInit PROVE JobCountsAddUp /\ FleetIsCovered
      OBVIOUS
    <2>1. job = NoJob /\ check[JobWorker].pc = "idle"
      BY JobAssumption DEF JobInit, Init, NoCheck
    <2>2. JobCountsAddUp
      BY <2>1, FS_EmptySet DEF NoJob, JobCountsAddUp
    <2>3. FleetIsCovered
      BY <2>1 DEF NoJob, FleetIsCovered
    <2> QED BY <2>2, <2>3
  <1>2. IInv /\ JobInOrder /\ JobCountsAddUp /\ FleetIsCovered => JobAccountsForFleet
    BY DEF JobInOrder, FleetIsCovered, Covered, JobAccountsForFleet,
       CompletedJobCoversFleet, HealthOf, Probing
  <1> QED BY <1>1, <1>2, JobCountsHold, JobCoverHolds, JobInvariance, PTL DEF JobSpec

\* The records and events of a system with the job keep what the requests
\* promise: no check raises but for a deletion, every event has its record, every
\* outage its event, and recoveries are transitions.
THEOREM JobKeepsPromises ==
  JobSpec => [](RaisesOnlyIfDeleted /\ EventHasRecord /\ OutageIsReported
                  /\ RecoveryIffTransition)
  <1>1. JobInit => ReportInv
    BY DEF JobInit, Init, ReportInv, OwnsItsRow, OutageIsReported, NoCheck, Stored
  <1>2. JobInit => TransitionInv
    BY DEF JobInit, Init, TransitionInv, NothingReadYet, PrevIsRight, RowIsFresh,
       RecoveryIffTransition, NoCheck, Stored
  <1>3. IInv /\ ReportInv /\ TransitionInv =>
           RaisesOnlyIfDeleted /\ EventHasRecord /\ OutageIsReported /\ RecoveryIffTransition
    BY DEF IInv, ReportInv, TransitionInv, WorkerInOrder, RaiseIsExplained,
       RaisesOnlyIfDeleted
  <1> QED BY <1>1, <1>2, <1>3, JobReportHolds, JobTransitionHolds, JobInvariance, PTL
          DEF JobSpec
=============================================================================
