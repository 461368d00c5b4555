----------------------------- MODULE AlarmProofs -----------------------------
(***************************************************************************)
(* Safety of Interfaces and of Alarms for any number of devices, interface *)
(* names, threads, requests and crashes: when a check raises, that stored  *)
(* rows get their events and recoveries are told from steady states, and   *)
(* what an alarm list contains whatever commits while it is put together.  *)
(***************************************************************************)
EXTENDS Alarms, TLAPS

\* the check's rows are stored and its events not all dispatched
Storing == {"saved", "reporting"}

\* A row is of an existing device, got its number after its check was
\* requested, and is the only one of its check and name.
RowsInOrder ==
    \A r \in rows :
        /\ r.dev \in devices
        /\ r.began <= r.id
        /\ 1 <= r.id
        /\ r.id < nextId
        /\ \A q \in rows : q.id = r.id /\ q.name = r.name => q = r

\* events and dispatches are about checks that stored their rows before
ReportsInOrder ==
    /\ 1 <= nextId
    /\ \A e \in events : e.row < nextId
    /\ \A t \in handled : t.row < t.next /\ t.next <= nextId

\* what the row of a check says is what the check saw
IsSeenBy(r, c) ==
    /\ r.dev = c.dev
    /\ r.name \in DOMAIN c.seen
    /\ r.oper = c.seen[r.name].oper
    /\ r.errors = c.seen[r.name].errors

\* nothing was dispatched yet for this row
IsPending(row, name) ==
    /\ \A e \in events : ~(e.row = row /\ e.name = name)
    /\ \A t \in handled : ~(t.row = row /\ t.name = name)

WorkerInOrder(w) ==
    /\ check[w].pc # "idle" => check[w].dev \in devices \cup deleted
    /\ check[w].began <= nextId
    /\ check[w].pc = "raised" => check[w].dev \in deleted
    /\ check[w].pc \in Storing =>
          /\ check[w].row < nextId
          /\ \A r \in rows : r.id = check[w].row => IsSeenBy(r, check[w])
          /\ check[w].todo \subseteq DOMAIN check[w].seen
          /\ \A name \in check[w].todo : IsPending(check[w].row, name)
    /\ check[w].pc = "saved" => check[w].todo = DOMAIN check[w].seen

\* two checks never report the same rows
WorkersApart ==
    \A v, w \in Worker :
        v # w /\ check[v].pc \in Storing /\ check[w].pc \in Storing =>
            check[v].row # check[w].row

\* the rows of r's name that the dispatch t found beside r
Before(r, t) == {q \in RowsOf(r.dev, r.name) : q.id # r.id /\ q.id < t.next}

\* A recovery was reported if and only if the newest of those was down.
DispatchesAreRight ==
    \A t \in handled, r \in rows :
        t.row = r.id /\ t.name = r.name =>
            (Reported(r, "interface_recovered") <=>
                r.oper = "up" /\ \E p \in Newest(Before(r, t)) : p.oper = "down")

IInv ==
    /\ TypeOK
    /\ RowsInOrder
    /\ ReportsInOrder
    /\ \A w \in Worker : WorkerInOrder(w)
    /\ WorkersApart
    /\ RowsAreReported
    /\ DispatchesAreRight

-----------------------------------------------------------------------------
(* Interfaces: what an update of one worker's check does *)

\* Replacing one worker's check leaves the others' alone.
LEMMA CheckUpdate ==
  ASSUME check \in [Worker -> Check], NEW w \in Worker, NEW c \in Check,
         check' = [check EXCEPT ![w] = c]
  PROVE  /\ check' \in [Worker -> Check]
         /\ check'[w] = c
         /\ \A v \in Worker \ {w} : check'[v] = check[v]
  OBVIOUS

\* NoCheck is a check, of no device and with nothing to report.
LEMMA NoCheckType ==
  /\ NoCheck \in Check
  /\ NoCheck.pc = "idle" /\ NoCheck.began = 0 /\ NoCheck.row = 0
  <1>1. [name \in {} |-> None] \in [{} -> State]
    OBVIOUS
  <1>2. [name \in {} |-> None] \in Report
    BY <1>1 DEF Report
  <1> QED BY <1>2 DEF NoCheck, Check, Stage

\* A report says of some of the names whether they are up and have errors.
LEMMA ReportType ==
  ASSUME NEW seen \in Report
  PROVE  /\ DOMAIN seen \subseteq Name
         /\ \A name \in DOMAIN seen : seen[name] \in State
  BY DEF Report

\* Goto moves one worker on and touches nothing else of its check.
LEMMA GotoUpdate ==
  ASSUME check \in [Worker -> Check], NEW w \in Worker, NEW stage \in Stage,
         Goto(w, stage)
  PROVE  \E c \in Check :
            /\ check' = [check EXCEPT ![w] = c]
            /\ c.pc = stage
            /\ c.dev = check[w].dev
            /\ c.began = check[w].began
            /\ c.seen = check[w].seen
            /\ c.row = check[w].row
            /\ c.todo = check[w].todo
  <1> DEFINE c == [check[w] EXCEPT !.pc = stage]
  <1>1. check[w] \in Check
    OBVIOUS
  <1>2. /\ c \in Check
        /\ c.pc = stage
        /\ c.dev = check[w].dev
        /\ c.began = check[w].began
        /\ c.seen = check[w].seen
        /\ c.row = check[w].row
        /\ c.todo = check[w].todo
    BY <1>1 DEF Check
  <1>3. check' = [check EXCEPT ![w] = c]
    BY DEF Goto
  <1> HIDE DEF c
  <1> QED BY <1>2, <1>3

\* A step that leaves the tables, the events and the dispatches alone keeps
\* what the invariant says of them.
LEMMA QuietTables ==
  ASSUME IInv, UNCHANGED <<devices, rows, events, handled>>,
         nextId' \in Nat, nextId' >= nextId
  PROVE  /\ RowsInOrder'
         /\ ReportsInOrder'
         /\ DispatchesAreRight'
  <1>1. RowsInOrder'
    BY DEF IInv, TypeOK, RowsInOrder, Row
  <1>2. ReportsInOrder'
    BY DEF IInv, TypeOK, ReportsInOrder, Event
  <1>3. DispatchesAreRight'
    BY DEF IInv, DispatchesAreRight, Reported, Before, RowsOf, Newest, Newer
  <1> QED BY <1>1, <1>2, <1>3

\* The same of a worker it does not move.
LEMMA QuietWorker ==
  ASSUME IInv, UNCHANGED <<devices, deleted, rows, events, handled>>,
         nextId' \in Nat, nextId' >= nextId,
         NEW w \in Worker, check'[w] = check[w]
  PROVE  WorkerInOrder(w)'
  BY DEF IInv, TypeOK, WorkerInOrder, IsSeenBy, IsPending, Check

\* Such a step moves one worker: the invariant holds after it if it holds of
\* that worker, which reports no other rows than before and does not give up
\* rows that are in the table.
LEMMA MoveHolds ==
  ASSUME IInv, UNCHANGED <<devices, deleted, rows, events, handled, crashes>>,
         nextId' \in Nat, nextId' >= nextId, clock' \in Nat,
         requests' \in 0..MaxRequests,
         NEW w \in Worker, NEW c \in Check, check' = [check EXCEPT ![w] = c],
         WorkerInOrder(w)',
         c.pc \in Storing => check[w].pc \in Storing /\ c.row = check[w].row,
         \A r \in rows :
            (/\ check[w].row = r.id
             /\ \/ check[w].pc = "saved"
                \/ check[w].pc = "reporting" /\ r.name \in check[w].todo)
            => /\ c.row = r.id
               /\ c.pc = "saved" \/ (c.pc = "reporting" /\ r.name \in c.todo)
  PROVE  IInv'
  <1>1. /\ check' \in [Worker -> Check]
        /\ check'[w] = c
        /\ \A v \in Worker \ {w} : check'[v] = check[v]
    BY CheckUpdate DEF IInv, TypeOK
  <1>2. TypeOK'
    BY <1>1 DEF IInv, TypeOK
  <1>3. WorkersApart'
    BY <1>1 DEF IInv, WorkersApart
  <1>4. ASSUME NEW r \in rows, Handling(r)
        PROVE  Handling(r)'
    BY <1>1, <1>4 DEF Handling
  <1>5. RowsAreReported'
    BY <1>4 DEF IInv, RowsAreReported, Reported
  <1> QED BY <1>1, <1>2, <1>3, <1>5, QuietTables, QuietWorker DEF IInv

-----------------------------------------------------------------------------
(* Interfaces: the invariant holds initially and is kept by every action *)

\* The initial states satisfy it.
LEMMA InitHolds == Init => IInv
  <1> SUFFICES ASSUME Init PROVE IInv
    OBVIOUS
  <1>1. check \in [Worker -> Check]
        /\ \A w \in Worker : /\ check[w].pc = "idle"
                             /\ check[w].began = 0
    BY NoCheckType DEF Init
  <1>2. TypeOK
    BY <1>1, ConstantsAssumption DEF Init, TypeOK
  <1>3. \A w \in Worker : WorkerInOrder(w)
    BY <1>1 DEF Init, WorkerInOrder, Storing
  <1>4. WorkersApart
    BY <1>1 DEF WorkersApart, Storing
  <1> QED BY <1>2, <1>3, <1>4 DEF Init, IInv, RowsInOrder, ReportsInOrder,
          RowsAreReported, DispatchesAreRight

\* A request finds its device.
LEMMA RequestHolds ==
  ASSUME IInv, NEW w \in Worker, NEW d \in Device, Request(w, d)
  PROVE  IInv'
  <1> DEFINE c == [NoCheck EXCEPT
                    !.pc = "called", !.dev = d, !.began = nextId, !.at = clock + 1]
  <1>0. nextId \in Nat /\ clock + 1 \in Nat
    BY DEF IInv, TypeOK
  <1>1. /\ c \in Check
        /\ c.pc = "called" /\ c.dev = d /\ c.began = nextId
    BY <1>0, NoCheckType DEF Check, Stage
  <1>2. check' = [check EXCEPT ![w] = c]
    BY DEF Request
  <1> HIDE DEF c
  <1>3. check'[w] = c
    BY <1>1, <1>2, CheckUpdate DEF IInv, TypeOK
  <1>4. WorkerInOrder(w)'
    BY <1>1, <1>3 DEF Request, IInv, TypeOK, WorkerInOrder, Storing, database
  <1>5. requests' \in 0..MaxRequests /\ clock' \in Nat
    BY ConstantsAssumption DEF IInv, TypeOK, Request
  <1>6. /\ UNCHANGED <<devices, deleted, rows, events, handled, crashes>>
        /\ nextId' \in Nat /\ nextId' >= nextId
        /\ check[w].pc = "idle"
    BY DEF Request, IInv, TypeOK, database
  <1>7. c.pc \notin Storing
    BY <1>1 DEF Storing
  <1> QED BY <1>1, <1>2, <1>4, <1>5, <1>6, <1>7, MoveHolds

\* The device answers or does not.
LEMMA CollectHolds ==
  ASSUME IInv, NEW w \in Worker, Collect(w)
  PROVE  IInv'
  <1>0. check[w] \in Check
    BY DEF IInv, TypeOK
  <1>1. PICK c \in Check : /\ check' = [check EXCEPT ![w] = c]
                           /\ c.pc \in {"returned", "parsed"}
                           /\ c.dev = check[w].dev /\ c.began = check[w].began
    <2>1. CASE Goto(w, "returned")
      BY <2>1, GotoUpdate DEF IInv, TypeOK, Stage
    <2>2. ASSUME NEW report \in Report,
                 check' = [check EXCEPT ![w].pc = "parsed", ![w].seen = report]
          PROVE  \E c \in Check : /\ check' = [check EXCEPT ![w] = c]
                                  /\ c.pc \in {"returned", "parsed"}
                                  /\ c.dev = check[w].dev /\ c.began = check[w].began
      <3> DEFINE c == [check[w] EXCEPT !.pc = "parsed", !.seen = report]
      <3>1. /\ c \in Check /\ c.pc = "parsed"
            /\ c.dev = check[w].dev /\ c.began = check[w].began
        BY <1>0 DEF Check, Stage
      <3>2. check' = [check EXCEPT ![w] = c]
        BY <2>2
      <3> HIDE DEF c
      <3> QED BY <3>1, <3>2
    <2> QED BY <2>1, <2>2 DEF Collect
  <1>2. check'[w] = c
    BY <1>1, CheckUpdate DEF IInv, TypeOK
  <1>3. WorkerInOrder(w)'
    BY <1>1, <1>2 DEF Collect, IInv, WorkerInOrder, Storing, database
  <1>4. /\ UNCHANGED <<devices, deleted, rows, events, handled, crashes>>
        /\ nextId' \in Nat /\ nextId' >= nextId
        /\ clock' \in Nat /\ requests' \in 0..MaxRequests
        /\ check[w].pc = "called"
    BY DEF Collect, IInv, TypeOK, database
  <1>5. c.pc \notin Storing
    BY <1>1 DEF Storing
  <1> QED BY <1>1, <1>3, <1>4, <1>5, MoveHolds

\* The answer ends the request: nothing is left to report.
LEMMA RespondHolds ==
  ASSUME IInv, NEW w \in Worker, Respond(w)
  PROVE  IInv'
  <1>1. check' = [check EXCEPT ![w] = NoCheck]
    BY DEF Respond
  <1>2. check'[w] = NoCheck
    BY <1>1, NoCheckType, CheckUpdate DEF IInv, TypeOK
  <1>3. WorkerInOrder(w)'
    BY <1>2, NoCheckType DEF Respond, IInv, TypeOK, WorkerInOrder, Storing, database
  <1>4. /\ UNCHANGED <<devices, deleted, rows, events, handled, crashes>>
        /\ nextId' \in Nat /\ nextId' >= nextId
        /\ clock' \in Nat /\ requests' \in 0..MaxRequests
    BY DEF Respond, IInv, TypeOK, database
  <1>5. /\ NoCheck.pc \notin Storing
        /\ check[w].pc # "saved"
        /\ check[w].pc = "reporting" => check[w].todo = {}
    BY NoCheckType DEF Respond, Storing
  <1> QED BY <1>1, <1>3, <1>4, <1>5, NoCheckType, MoveHolds

\* If the rows cannot be loaded again the device is gone, and they with it.
LEMMA ReloadHolds ==
  ASSUME IInv, NEW w \in Worker, Reload(w)
  PROVE  IInv'
  <1> DEFINE stage == IF check[w].dev \in devices THEN "reporting" ELSE "raised"
  <1>0. check[w].pc = "saved" /\ stage \in Stage
    BY DEF Reload, Stage
  <1>1. PICK c \in Check : /\ check' = [check EXCEPT ![w] = c]
                           /\ c.pc = stage
                           /\ c.dev = check[w].dev
                           /\ c.began = check[w].began
                           /\ c.seen = check[w].seen
                           /\ c.row = check[w].row
                           /\ c.todo = check[w].todo
    BY <1>0, GotoUpdate DEF IInv, TypeOK, Reload
  <1>3. check'[w] = c
    BY <1>1, CheckUpdate DEF IInv, TypeOK
  <1>4. c.pc = "reporting" \/ (c.pc = "raised" /\ check[w].dev \notin devices)
    BY <1>1
  <1>5. WorkerInOrder(w)'
    BY <1>0, <1>1, <1>3, <1>4 DEF Reload, IInv, TypeOK, WorkerInOrder, IsSeenBy,
       IsPending, Storing, database
  <1>6. ASSUME NEW r \in rows, r.id = check[w].row
        PROVE  c.pc = "reporting" /\ r.name \in c.todo
    BY <1>0, <1>1, <1>4, <1>6 DEF IInv, WorkerInOrder, RowsInOrder, IsSeenBy, Storing
  <1>7. /\ UNCHANGED <<devices, deleted, rows, events, handled, crashes>>
        /\ nextId' \in Nat /\ nextId' >= nextId
        /\ clock' \in Nat /\ requests' \in 0..MaxRequests
    BY DEF Reload, IInv, TypeOK, database
  <1>8. check[w].pc \in Storing
    BY <1>0 DEF Storing
  <1> QED BY <1>1, <1>5, <1>6, <1>7, <1>8, MoveHolds

\* The rows of a check carry the next number and what the check saw.
LEMMA RowsFromCheck ==
  ASSUME NEW c \in Check, NEW r \in RowsFrom(c)
  PROVE  /\ r.id = nextId
         /\ r.began = c.began
         /\ IsSeenBy(r, c)
         /\ \A q \in RowsFrom(c) : q.name = r.name => q = r
         /\ nextId \in Nat /\ c.dev \in Device => r \in Row
  <1>1. c.seen \in Report /\ c.at \in Nat /\ c.began \in Nat
    BY DEF Check
  <1>2. /\ DOMAIN c.seen \subseteq Name
        /\ \A name \in DOMAIN c.seen : c.seen[name] \in State
    BY <1>1, ReportType
  <1>3. PICK name \in DOMAIN c.seen :
           r = [id |-> nextId, dev |-> c.dev, name |-> name,
                oper |-> c.seen[name].oper, errors |-> c.seen[name].errors,
                at |-> c.at, began |-> c.began]
    BY DEF RowsFrom
  <1>4. /\ r.id = nextId
        /\ r.began = c.began
        /\ IsSeenBy(r, c)
    BY <1>3 DEF IsSeenBy
  <1>5. ASSUME NEW q \in RowsFrom(c), q.name = r.name
        PROVE  q = r
    BY <1>3, <1>5 DEF RowsFrom
  <1>6. nextId \in Nat /\ c.dev \in Device => r \in Row
    BY <1>1, <1>2, <1>3 DEF Row, State
  <1> QED BY <1>4, <1>5, <1>6

\* What the database refuses takes a number but stores nothing.
LEMMA RefusedHolds ==
  ASSUME IInv, NEW w \in Worker, check[w].pc = "parsed",
         Goto(w, IF check[w].dev \in devices THEN "returned" ELSE "raised"),
         rows' = rows, nextId' = nextId + 1,
         UNCHANGED <<devices, deleted, clock, events, handled, requests, crashes>>
  PROVE  IInv'
  <1> DEFINE stage == IF check[w].dev \in devices THEN "returned" ELSE "raised"
  <1>0. stage \in Stage
    BY DEF Stage
  <1>1. PICK c \in Check : /\ check' = [check EXCEPT ![w] = c]
                           /\ c.pc = stage
                           /\ c.dev = check[w].dev
                           /\ c.began = check[w].began
    BY <1>0, GotoUpdate DEF IInv, TypeOK
  <1>2. check'[w] = c
    BY <1>1, CheckUpdate DEF IInv, TypeOK
  <1>3. c.pc = "returned" \/ (c.pc = "raised" /\ check[w].dev \notin devices)
    BY <1>1
  <1>4. WorkerInOrder(w)'
    BY <1>1, <1>2, <1>3 DEF IInv, TypeOK, WorkerInOrder, Storing, Check
  <1>5. /\ UNCHANGED <<devices, deleted, rows, events, handled, crashes>>
        /\ nextId' \in Nat /\ nextId' >= nextId
        /\ clock' \in Nat /\ requests' \in 0..MaxRequests
    BY DEF IInv, TypeOK
  <1>6. c.pc \notin Storing
    BY <1>3 DEF Storing
  <1> QED BY <1>1, <1>4, <1>5, <1>6, MoveHolds

\* Rows that are stored have their events ahead of them.
LEMMA StoredHolds ==
  ASSUME IInv, NEW w \in Worker, check[w].pc = "parsed",
         DOMAIN check[w].seen = {} \/ check[w].dev \in devices,
         rows' = rows \cup RowsFrom(check[w]),
         check' = [check EXCEPT ![w].pc = "saved", ![w].row = nextId,
                                ![w].todo = DOMAIN check[w].seen],
         nextId' = nextId + 1,
         UNCHANGED <<devices, deleted, clock, events, handled, requests, crashes>>
  PROVE  IInv'
  <1> DEFINE new == RowsFrom(check[w])
             c == [check[w] EXCEPT !.pc = "saved", !.row = nextId,
                                   !.todo = DOMAIN check[w].seen]
  <1>0. /\ check[w] \in Check /\ check[w].seen \in Report /\ nextId \in Nat
        /\ check[w].began \in Nat /\ check[w].began <= nextId /\ nextId >= 1
        /\ check[w].dev \in devices \cup deleted
    BY DEF IInv, TypeOK, Check, WorkerInOrder, ReportsInOrder
  <1>1. /\ c \in Check
        /\ c.pc = "saved" /\ c.row = nextId /\ c.todo = DOMAIN c.seen
        /\ c.dev = check[w].dev /\ c.began = check[w].began
        /\ c.seen = check[w].seen
    BY <1>0, ReportType DEF Check, Stage
  <1>2. check' = [check EXCEPT ![w] = c]
    OBVIOUS
  <1> HIDE DEF c
  <1>3. /\ check' \in [Worker -> Check]
        /\ check'[w] = c
        /\ \A v \in Worker \ {w} : check'[v] = check[v]
    BY <1>1, <1>2, CheckUpdate DEF IInv, TypeOK
  <1>4. ASSUME NEW r \in new
        PROVE  /\ r.id = nextId /\ r.began = c.began /\ IsSeenBy(r, c)
               /\ r.dev \in devices /\ r \in Row
               /\ \A q \in new : q.name = r.name => q = r
    <2>1. /\ r.id = nextId /\ r.began = check[w].began /\ IsSeenBy(r, check[w])
          /\ \A q \in new : q.name = r.name => q = r
          /\ check[w].dev \in Device => r \in Row
      BY <1>0, RowsFromCheck
    <2>2. check[w].dev \in devices /\ devices \subseteq Device
      BY <2>1 DEF IsSeenBy, IInv, TypeOK
    <2> QED BY <1>1, <2>1, <2>2 DEF IsSeenBy
  <1> HIDE DEF new
  <1>5. rows' = rows \cup new
    BY DEF new
  <1>6. TypeOK'
    BY <1>0, <1>3, <1>4, <1>5 DEF IInv, TypeOK
  <1>7. RowsInOrder'
    BY <1>0, <1>1, <1>4, <1>5 DEF IInv, TypeOK, RowsInOrder, Row
  <1>8. ReportsInOrder'
    BY <1>0 DEF IInv, TypeOK, ReportsInOrder, Event
  <1>9. ASSUME NEW v \in Worker \ {w}
        PROVE  WorkerInOrder(v)'
    BY <1>0, <1>3, <1>4, <1>5 DEF IInv, TypeOK, WorkerInOrder, IsSeenBy, IsPending, Check
  <1>10. WorkerInOrder(w)'
    <2>1. \A name \in c.todo : /\ \A e \in events' : ~(e.row = nextId /\ e.name = name)
                               /\ \A t \in handled' : ~(t.row = nextId /\ t.name = name)
      BY <1>0 DEF IInv, TypeOK, ReportsInOrder, Event
    <2>2. ASSUME NEW r \in rows', r.id = nextId
          PROVE  IsSeenBy(r, c)
      BY <1>0, <1>4, <1>5, <2>2 DEF IInv, TypeOK, RowsInOrder, Row
    <2> QED BY <1>0, <1>1, <1>3, <2>1, <2>2 DEF WorkerInOrder, IsSeenBy, IsPending
  <1>11. WorkersApart'
    BY <1>0, <1>1, <1>3 DEF IInv, TypeOK, WorkerInOrder, WorkersApart, Check
  <1>12. RowsAreReported'
    <2>1. ASSUME NEW r \in rows, Handling(r)
          PROVE  Handling(r)'
      BY <1>3, <2>1 DEF Handling
    <2>2. ASSUME NEW r \in new
          PROVE  Handling(r)'
      BY <1>1, <1>3, <1>4 DEF Handling
    <2> QED BY <1>5, <2>1, <2>2 DEF IInv, RowsAreReported, Reported
  <1>13. DispatchesAreRight'
    <2> SUFFICES ASSUME NEW t \in handled, NEW r \in rows', t.row = r.id, t.name = r.name
                 PROVE  (Reported(r, "interface_recovered") <=>
                           r.oper = "up" /\ \E p \in Newest(Before(r, t)) : p.oper = "down")'
      BY DEF DispatchesAreRight
    <2>1. t.next \in Nat /\ t.row \in Nat /\ t.row < t.next /\ t.next <= nextId
      BY DEF IInv, TypeOK, ReportsInOrder
    <2>2. r \in rows
      BY <1>0, <1>4, <1>5, <2>1
    <2>3. Before(r, t)' = Before(r, t)
      BY <1>0, <1>4, <1>5, <2>1 DEF Before, RowsOf
    <2>4. Newest(Before(r, t))' = Newest(Before(r, t))
      BY <2>3 DEF Newest, Newer
    <2> QED BY <2>2, <2>4 DEF IInv, DispatchesAreRight, Reported
  <1> QED BY <1>3, <1>6, <1>7, <1>8, <1>9, <1>10, <1>11, <1>12, <1>13 DEF IInv

\* Either way.
LEMMA SaveHolds ==
  ASSUME IInv, NEW w \in Worker, Save(w)
  PROVE  IInv'
  BY RefusedHolds, StoredHolds DEF Save

\* The types EventsFor calls for, one by one.
LEMMA EventsForTypes ==
  ASSUME NEW previous, NEW state \in State
  PROVE  /\ EventsFor(previous, state) \subseteq EventType
         /\ "interface_down" \in EventsFor(previous, state) <=> state.oper = "down"
         /\ "interface_errors_detected" \in EventsFor(previous, state) <=> state.errors
         /\ "interface_recovered" \in EventsFor(previous, state)
               <=> state.oper = "up" /\ "down" \in previous
  BY DEF EventsFor, EventType, State

\* One pass of the loop reports the row it is about and no other.
LEMMA DispatchEventsHolds ==
  ASSUME IInv, NEW w \in Worker, NEW name \in Name, DispatchEvents(w, name)
  PROVE  IInv'
  <1> DEFINE d == check[w].dev
             row == check[w].row
             state == check[w].seen[name]
             others == {r \in RowsOf(d, name) : r.id # row}
             types == EventsFor({r.oper : r \in Newest(others)}, state)
             new == {[type |-> t, dev |-> d, name |-> name, row |-> row] : t \in types}
             done == [row |-> row, name |-> name, next |-> nextId]
             c == [check[w] EXCEPT !.todo = @ \ {name}]
  <1>0. /\ check[w] \in Check /\ check[w].pc = "reporting" /\ name \in check[w].todo
        /\ check[w].pc \in Storing /\ name \in DOMAIN check[w].seen
        /\ row \in Nat /\ row < nextId /\ nextId \in Nat /\ d \in Device
        /\ state \in State
    BY ReportType DEF IInv, TypeOK, Check, WorkerInOrder, Storing, DispatchEvents
  <1>1. /\ c \in Check
        /\ c.pc = "reporting" /\ c.row = row /\ c.todo = check[w].todo \ {name}
        /\ c.dev = d /\ c.began = check[w].began /\ c.seen = check[w].seen
    BY <1>0 DEF Check
  <1>2. /\ check' = [check EXCEPT ![w] = c]
        /\ events' = events \cup new
        /\ handled' = handled \cup {done}
        /\ UNCHANGED <<devices, deleted, rows, nextId, clock, requests, crashes>>
    BY DEF DispatchEvents, database
  <1> HIDE DEF c
  <1>3. /\ check' \in [Worker -> Check]
        /\ check'[w] = c
        /\ \A v \in Worker \ {w} : check'[v] = check[v]
    BY <1>1, <1>2, CheckUpdate DEF IInv, TypeOK
  <1>4. /\ types \subseteq EventType
        /\ "interface_down" \in types <=> state.oper = "down"
        /\ "interface_errors_detected" \in types <=> state.errors
        /\ "interface_recovered" \in types
              <=> state.oper = "up" /\ \E p \in Newest(others) : p.oper = "down"
    BY <1>0, EventsForTypes
  <1> HIDE DEF types
  <1>5. \A e \in new : e \in Event /\ e.row = row /\ e.name = name
    BY <1>0, <1>4 DEF Event
  <1>6. IsPending(row, name)
    BY <1>0 DEF IInv, WorkerInOrder
  <1>7. \A v \in Worker \ {w} : check[v].pc \in Storing => check[v].row # row
    BY <1>0 DEF IInv, WorkersApart
  <1>8. TypeOK'
    BY <1>0, <1>2, <1>3, <1>5 DEF IInv, TypeOK
  <1>9. RowsInOrder' /\ ReportsInOrder'
    BY <1>0, <1>2, <1>5 DEF IInv, RowsInOrder, ReportsInOrder
  <1>10. ASSUME NEW v \in Worker \ {w}
         PROVE  WorkerInOrder(v)'
    BY <1>2, <1>3, <1>5, <1>7 DEF IInv, WorkerInOrder, IsSeenBy, IsPending
  <1>11. WorkerInOrder(w)'
    BY <1>0, <1>1, <1>2, <1>3, <1>5 DEF IInv, WorkerInOrder, IsSeenBy, IsPending
  <1>12. WorkersApart'
    BY <1>0, <1>1, <1>3 DEF IInv, WorkersApart
  <1>13. ASSUME NEW r \in rows, ~(r.id = row /\ r.name = name), NEW type
         PROVE  Reported(r, type)' <=> Reported(r, type)
    BY <1>2, <1>5, <1>13 DEF Reported
  <1>14. ASSUME NEW r \in rows, r.id = row, r.name = name, NEW type
         PROVE  /\ Reported(r, type)' <=> type \in types
                /\ r.dev = d /\ r.oper = state.oper /\ r.errors = state.errors
    <2>1. r.dev = d /\ r.oper = state.oper /\ r.errors = state.errors
      BY <1>0, <1>14 DEF IInv, WorkerInOrder, IsSeenBy
    <2>2. ~Reported(r, type)
      BY <1>6, <1>14 DEF Reported, IsPending
    <2> QED BY <1>2, <1>14, <2>1, <2>2 DEF Reported
  <1> HIDE DEF new
  <1>15. RowsAreReported'
    <2>1. ASSUME NEW r \in rows, ~(r.id = row /\ r.name = name), Handling(r)
          PROVE  Handling(r)'
      BY <1>0, <1>1, <1>3, <2>1 DEF Handling
    <2>2. ASSUME NEW r \in rows, r.id = row, r.name = name
          PROVE  /\ Reported(r, "interface_down")' <=> r.oper = "down"
                 /\ Reported(r, "interface_errors_detected")' <=> r.errors
      BY <1>4, <1>14, <2>2
    <2> QED BY <1>2, <1>13, <2>1, <2>2 DEF IInv, RowsAreReported
  <1>16. DispatchesAreRight'
    <2> SUFFICES ASSUME NEW t \in handled', NEW r \in rows, t.row = r.id, t.name = r.name
                 PROVE  (Reported(r, "interface_recovered") <=>
                           r.oper = "up" /\ \E p \in Newest(Before(r, t)) : p.oper = "down")'
      BY <1>2 DEF DispatchesAreRight
    <2>0. Newest(Before(r, t))' = Newest(Before(r, t))
      BY <1>2 DEF Newest, Newer, Before, RowsOf
    <2>1. CASE r.id = row /\ r.name = name
      <3>1. t = done
        BY <1>2, <1>6, <2>1 DEF IsPending
      <3>2. Before(r, t) = others
        BY <1>14, <2>1, <3>1 DEF Before, RowsOf, IInv, RowsInOrder
      <3> QED BY <1>4, <1>14, <2>0, <2>1, <3>2
    <2>2. CASE ~(r.id = row /\ r.name = name)
      <3>1. t \in handled
        BY <1>2, <2>2
      <3> QED BY <1>13, <2>0, <2>2, <3>1 DEF IInv, DispatchesAreRight
    <2> QED BY <2>1, <2>2
  <1> QED BY <1>3, <1>8, <1>9, <1>10, <1>11, <1>12, <1>15, <1>16 DEF IInv

\* A new device has no rows yet.
LEMMA CreateDeviceHolds ==
  ASSUME IInv, NEW d \in Device, CreateDevice(d)
  PROVE  IInv'
  <1>1. /\ devices' = devices \cup {d} /\ d \notin deleted
        /\ UNCHANGED <<deleted, rows, nextId, clock, events, handled, check,
                       requests, crashes>>
    BY DEF CreateDevice
  <1>2. TypeOK'
    BY <1>1 DEF IInv, TypeOK
  <1>3. RowsInOrder' /\ ReportsInOrder' /\ WorkersApart'
    BY <1>1 DEF IInv, RowsInOrder, ReportsInOrder, WorkersApart
  <1>4. \A w \in Worker : WorkerInOrder(w)'
    BY <1>1 DEF IInv, WorkerInOrder, IsSeenBy, IsPending
  <1>5. RowsAreReported'
    BY <1>1 DEF IInv, RowsAreReported, Handling, Reported
  <1>6. DispatchesAreRight'
    BY <1>1 DEF IInv, DispatchesAreRight, Reported, Before, RowsOf, Newest, Newer
  <1> QED BY <1>2, <1>3, <1>4, <1>5, <1>6 DEF IInv

\* All rows of a name go together, so those that stay keep what was before them.
LEMMA DeleteDeviceHolds ==
  ASSUME IInv, NEW d \in Device, DeleteDevice(d)
  PROVE  IInv'
  <1>1. /\ devices' = devices \ {d} /\ deleted' = deleted \cup {d}
        /\ rows' = {r \in rows : r.dev # d}
        /\ UNCHANGED <<nextId, clock, events, handled, check, requests, crashes>>
    BY DEF DeleteDevice
  <1>2. TypeOK'
    BY <1>1 DEF IInv, TypeOK
  <1>3. RowsInOrder' /\ ReportsInOrder' /\ WorkersApart'
    BY <1>1 DEF IInv, RowsInOrder, ReportsInOrder, WorkersApart
  <1>4. \A w \in Worker : WorkerInOrder(w)'
    BY <1>1 DEF IInv, WorkerInOrder, IsSeenBy, IsPending
  <1>5. RowsAreReported'
    BY <1>1 DEF IInv, RowsAreReported, Handling, Reported
  <1>6. DispatchesAreRight'
    <2> SUFFICES ASSUME NEW t \in handled, NEW r \in rows', t.row = r.id, t.name = r.name
                 PROVE  (Reported(r, "interface_recovered") <=>
                           r.oper = "up" /\ \E p \in Newest(Before(r, t)) : p.oper = "down")'
      BY <1>1 DEF DispatchesAreRight
    <2>1. r \in rows /\ r.dev # d
      BY <1>1
    <2>2. Before(r, t)' = Before(r, t)
      BY <1>1, <2>1 DEF Before, RowsOf
    <2>3. Newest(Before(r, t))' = Newest(Before(r, t))
      BY <2>2 DEF Newest, Newer
    <2> QED BY <1>1, <2>1, <2>3 DEF IInv, DispatchesAreRight, Reported
  <1> QED BY <1>2, <1>3, <1>4, <1>5, <1>6 DEF IInv

\* A crash takes the checks with it, and the claim that rows are reported.
LEMMA CrashHolds ==
  ASSUME IInv, Crash
  PROVE  IInv'
  <1>1. /\ check' = [w \in Worker |-> NoCheck] /\ crashes' = crashes + 1
        /\ crashes' \in 0..MaxCrashes
        /\ UNCHANGED <<devices, deleted, rows, nextId, clock, events, handled, requests>>
    BY ConstantsAssumption DEF Crash, database, IInv, TypeOK
  <1>2. \A w \in Worker : check'[w] \in Check /\ check'[w].pc = "idle"
                            /\ check'[w].began = 0
    BY <1>1, NoCheckType
  <1>3. TypeOK'
    BY <1>1, NoCheckType DEF IInv, TypeOK
  <1>4. RowsInOrder' /\ ReportsInOrder' /\ DispatchesAreRight'
    BY <1>1, QuietTables DEF IInv, TypeOK
  <1>5. (\A w \in Worker : WorkerInOrder(w)') /\ WorkersApart'
    BY <1>1, <1>2 DEF WorkerInOrder, WorkersApart, Storing, IInv, TypeOK
  <1>6. crashes' # 0
    BY <1>1 DEF IInv, TypeOK
  <1> QED BY <1>3, <1>4, <1>5, <1>6 DEF IInv, RowsAreReported

\* So does one that changes nothing.
LEMMA StutterHolds ==
  ASSUME IInv, UNCHANGED vars
  PROVE  IInv'
  <1>1. UNCHANGED <<devices, deleted, rows, nextId, clock, events, handled, check,
                    requests, crashes>>
    BY DEF vars
  <1>2. TypeOK' /\ RowsInOrder' /\ ReportsInOrder' /\ WorkersApart'
    BY <1>1 DEF IInv, TypeOK, RowsInOrder, ReportsInOrder, WorkersApart
  <1>3. \A w \in Worker : WorkerInOrder(w)'
    BY <1>1 DEF IInv, WorkerInOrder, IsSeenBy, IsPending
  <1>4. RowsAreReported' /\ DispatchesAreRight'
    BY <1>1 DEF IInv, RowsAreReported, Handling, DispatchesAreRight, Reported,
       Before, RowsOf, Newest, Newer
  <1> QED BY <1>2, <1>3, <1>4 DEF IInv

\* Every step of the checks keeps the invariant.
LEMMA NextHolds == IInv /\ [Next]_vars => IInv'
  <1> SUFFICES ASSUME IInv, [Next]_vars PROVE IInv'
    OBVIOUS
  <1>1. ASSUME NEW w \in Worker, CheckStep(w)
        PROVE  IInv'
    BY <1>1, CollectHolds, SaveHolds, ReloadHolds, DispatchEventsHolds, RespondHolds
       DEF CheckStep
  <1>2. ASSUME NEW w \in Worker, NEW d \in Device, Request(w, d)
        PROVE  IInv'
    BY <1>2, RequestHolds
  <1>3. ASSUME NEW d \in Device, CreateDevice(d) \/ DeleteDevice(d)
        PROVE  IInv'
    BY <1>3, CreateDeviceHolds, DeleteDeviceHolds
  <1> QED BY <1>1, <1>2, <1>3, CrashHolds, StutterHolds DEF Next

\* What a dispatch found beside an undisturbed row is what was there before
\* its check was requested.
LEMMA RecoveriesFollow == IInv => RecoveryIffTransition
  <1> SUFFICES ASSUME IInv, NEW r \in rows, Undisturbed(r)
               PROVE  Reported(r, "interface_recovered") <=>
                        /\ r.oper = "up"
                        /\ \E p \in Newest({q \in RowsOf(r.dev, r.name) : q.id < r.began}) :
                              p.oper = "down"
    BY DEF RecoveryIffTransition
  <1>1. PICK t \in handled :
           /\ t.row = r.id /\ t.name = r.name
           /\ \A q \in RowsOf(r.dev, r.name) :
                 q.id = r.id \/ q.id < r.began \/ q.id >= t.next
    BY DEF Undisturbed
  <1>2. /\ r.began <= r.id /\ r.id < t.next
        /\ t.next \in Nat /\ r.id \in Nat /\ r.began \in Nat
        /\ \A q \in rows : q.id \in Nat
    BY <1>1 DEF IInv, TypeOK, RowsInOrder, ReportsInOrder, Row
  <1>3. Before(r, t) = {q \in RowsOf(r.dev, r.name) : q.id < r.began}
    BY <1>1, <1>2 DEF Before, RowsOf
  <1> QED BY <1>1, <1>3 DEF IInv, DispatchesAreRight

-----------------------------------------------------------------------------
(* Interfaces: what it guarantees *)

\* The invariant holds in every reachable state.
THEOREM ChecksInvariance == Spec => []IInv
  BY InitHolds, NextHolds, PTL DEF Spec

\* Every variable keeps its type.
THEOREM ChecksTypeCorrectness == Spec => []TypeOK
  <1>1. IInv => TypeOK
    BY DEF IInv
  <1> QED BY <1>1, ChecksInvariance, PTL

\* run_interface_check raises only for a device that was deleted meanwhile.
THEOREM InterfaceChecksRaiseOnlyIfDeleted == Spec => []RaisesOnlyIfDeleted
  <1>1. IInv => RaisesOnlyIfDeleted
    BY DEF IInv, WorkerInOrder, RaisesOnlyIfDeleted
  <1> QED BY <1>1, ChecksInvariance, PTL

\* Unless the process dies, a stored row has its events or is about to get them.
THEOREM StoredRowsAreReported == Spec => []RowsAreReported
  <1>1. IInv => RowsAreReported
    BY DEF IInv
  <1> QED BY <1>1, ChecksInvariance, PTL

\* An undisturbed check reports a recovery exactly when there was one.
THEOREM RecoveriesAreTransitions == Spec => []RecoveryIffTransition
  BY RecoveriesFollow, ChecksInvariance, PTL

-----------------------------------------------------------------------------
(* Alarms: the invariant *)

HealthEntries(D) ==
    {[dev |-> d, name |-> None, row |-> 0, severity |-> health[d].status,
      at |-> health[d].at] : d \in D \cap Unwell}

Latest(D) == UNION {Snapshot(d) : d \in D}

DownEntries(D) == EntriesOf({r \in Latest(D) : r.oper = "down"}, "down")

ErrorEntries(D) ==
    EntriesOf({r \in Latest(D) : r.errors /\ r.oper # "down"}, "errors_detected")

\* The entries so far are those of the devices the passes have been through,
\* while no check commits.
QuietSoFar ==
    listing.quiet =>
        LET done == devices \ listing.todo
        IN  /\ listing.todo \subseteq devices
            /\ listing.pc = "health" => listing.entries = HealthEntries(done)
            /\ listing.pc = "down" =>
                  listing.entries = HealthEntries(devices) \cup DownEntries(done)
            /\ listing.pc = "errors_detected" =>
                  listing.entries = HealthEntries(devices) \cup DownEntries(devices)
                                        \cup ErrorEntries(done)
            /\ listing.pc = "answered" =>
                  listing.entries \in
                     MostRecent(HealthEntries(devices) \cup DownEntries(devices)
                                   \cup ErrorEntries(devices), listing.limit)

\* p is listed, as it was when it was noted or as it was observed later
Listed(p) ==
    \E e \in listing.entries :
        e.dev = p[1] /\ e.name = p[2] /\ e.severity = p[3] /\ e.at >= p[4]

\* p had to make way for entries as recent
CutOff(p) == IsFull /\ \A e \in listing.entries : e.at >= p[4]

\* The pass that looks for p has listed it or is yet to query its device.
IsFound(p) ==
    /\ listing.pc = (IF p[2] = None THEN "health" ELSE "down") =>
          p[1] \in listing.todo \/ Listed(p)
    /\ listing.pc = "down" /\ p[2] = None => Listed(p)
    /\ listing.pc = "errors_detected" => Listed(p)
    /\ listing.pc = "answered" => Listed(p) \/ CutOff(p)

\* p is still a problem, perhaps observed again since
IsLasting(p) == \E q \in Problems : Same(p, q) /\ q[4] >= p[4]

SteadyIsFound ==
    \A p \in steady : IsLasting(p) /\ (p[3] # "errors_detected" => IsFound(p))

AlarmIInv ==
    /\ IInv
    /\ AlarmTypeOK
    /\ listing.pc = "idle" => listing.entries = {}
    /\ QuietSoFar
    /\ SteadyIsFound
-----------------------------------------------------------------------------
(* Alarms: lemmas on snapshots and problems *)

\* A list leaves the checks alone, and whoever else steps is one of theirs.
LEMMA AlarmNextIsNext == [AlarmNext]_alarmVars => [Next]_vars
  BY DEF AlarmNext, ListAlarms, AlarmStep, ReadHealth, ReadDown, ReadErrors,
     StartDown, StartErrors, AnswerAlarms, EndListing, Others, StoreHealth, alarmVars

\* The snapshot of a device has rows of that device, one per name.
LEMMA SnapshotRows ==
  ASSUME IInv, NEW d, NEW r \in Snapshot(d)
  PROVE  /\ r \in rows /\ r \in Row /\ r.dev = d /\ d \in devices
         /\ \A q \in Snapshot(d) : q.name = r.name => q = r
  <1>1. /\ r \in rows /\ r.dev = d /\ r \in Row /\ d \in devices
        /\ r \in Newest(RowsOf(d, r.name))
    BY DEF Snapshot, Newest, RowsOf, IInv, TypeOK, RowsInOrder
  <1>2. ASSUME NEW q \in Snapshot(d), q.name = r.name
        PROVE  q = r
    <2>1. /\ q \in rows /\ q.dev = d /\ q \in Row
          /\ q \in Newest(RowsOf(d, r.name))
      BY <1>2 DEF Snapshot, Newest, RowsOf, IInv, TypeOK
    <2>2. ~Newer(q, r) /\ ~Newer(r, q)
      BY <1>1, <2>1 DEF Newest
    <2>3. q.id = r.id
      BY <1>1, <2>1, <2>2 DEF Newer, Row
    <2> QED BY <1>1, <1>2, <2>1, <2>3 DEF IInv, RowsInOrder
  <1> QED BY <1>1, <1>2

\* The three kinds of problems.
LEMMA ProblemKinds ==
  ASSUME NEW p
  PROVE  p \in Problems <=>
           \/ \E d \in Unwell : p = <<d, None, health[d].status, health[d].at>>
           \/ \E r \in Latest(devices) : r.oper = "down" /\ p = <<r.dev, r.name, "down", r.at>>
           \/ \E r \in Latest(devices) :
                 r.errors /\ p = <<r.dev, r.name, "errors_detected", r.at>>
  BY DEF Problems, Latest

\* A list of two sets of devices together is that of the one and of the other.
LEMMA EntriesOfUnion ==
  ASSUME NEW A, NEW B
  PROVE  /\ HealthEntries(A \cup B) = HealthEntries(A) \cup HealthEntries(B)
         /\ DownEntries(A \cup B) = DownEntries(A) \cup DownEntries(B)
         /\ ErrorEntries(A \cup B) = ErrorEntries(A) \cup ErrorEntries(B)
  <1>1. HealthEntries(A \cup B) = HealthEntries(A) \cup HealthEntries(B)
    BY DEF HealthEntries
  <1>2. Latest(A \cup B) = Latest(A) \cup Latest(B)
    BY DEF Latest
  <1>3. DownEntries(A \cup B) = DownEntries(A) \cup DownEntries(B)
    BY <1>2 DEF DownEntries, EntriesOf
  <1>4. ErrorEntries(A \cup B) = ErrorEntries(A) \cup ErrorEntries(B)
    BY <1>2 DEF ErrorEntries, EntriesOf
  <1> QED BY <1>1, <1>3, <1>4

\* Of no device there is nothing to list.
LEMMA EntriesOfNone ==
  HealthEntries({}) = {} /\ DownEntries({}) = {} /\ ErrorEntries({}) = {}
  BY DEF HealthEntries, DownEntries, ErrorEntries, Latest, EntriesOf

\* What is listed and what is wrong depends on three tables.
LEMMA SameTables ==
  ASSUME UNCHANGED <<rows, devices, health>>
  PROVE  /\ Problems' = Problems
         /\ \A D : /\ HealthEntries(D)' = HealthEntries(D)
                   /\ DownEntries(D)' = DownEntries(D)
                   /\ ErrorEntries(D)' = ErrorEntries(D)
                   /\ Latest(D)' = Latest(D)
  <1>1. \A d : Snapshot(d)' = Snapshot(d)
    BY DEF Snapshot, Newest, Newer, RowsOf
  <1>2. \A D : Latest(D)' = Latest(D)
    BY <1>1 DEF Latest
  <1>3. Problems' = Problems
    BY <1>1 DEF Problems, Unwell
  <1> QED BY <1>2, <1>3 DEF HealthEntries, DownEntries, ErrorEntries, EntriesOf, Unwell

\* A problem names a device that exists.
LEMMA ProblemType ==
  ASSUME IInv, AlarmTypeOK, NEW p \in Problems
  PROVE  /\ p \in Problem /\ p[1] \in devices
         /\ p[4] \in Nat /\ IsLasting(p)
  <1>1. devices \subseteq Device
    BY DEF IInv, TypeOK
  <1>2. ASSUME NEW d \in Unwell, p = <<d, None, health[d].status, health[d].at>>
        PROVE  p \in Problem /\ p[1] \in devices
    <2>1. /\ d \in devices /\ health[d].status \in {"down", "error"}
          /\ health[d].at \in Nat
      BY DEF AlarmTypeOK, Unwell, Health
    <2> QED BY <1>1, <1>2, <2>1 DEF Problem
  <1>3. ASSUME NEW r \in Latest(devices)
        PROVE  r.dev \in devices /\ r.name \in Name /\ r.at \in Nat
    BY SnapshotRows DEF Latest, Row
  <1>4. p \in Problem /\ p[1] \in devices
    BY <1>1, <1>2, <1>3, ProblemKinds DEF Problem
  <1>5. p[4] \in Nat
    BY <1>4 DEF Problem
  <1>6. IsLasting(p)
    BY <1>5 DEF IsLasting, Same
  <1> QED BY <1>4, <1>5, <1>6

\* A step that leaves the tables alone keeps the invariant if what it does to
\* the list is right.
LEMMA ListingStep ==
  ASSUME AlarmIInv, UNCHANGED <<vars, healthVars>>, listing' \in Listing,
         steady' \subseteq steady \cup Problems,
         listing'.pc = "idle" => listing'.entries = {},
         QuietSoFar', \A p \in steady' : p[3] # "errors_detected" => IsFound(p)'
  PROVE  AlarmIInv'
  <1>1. UNCHANGED <<devices, rows, health, healthChecks>>
    BY DEF vars, healthVars
  <1>2. IInv'
    BY StutterHolds DEF AlarmIInv
  <1>3. Problems' = Problems
    BY <1>1, SameTables
  <1>4. ASSUME NEW p \in steady'
        PROVE  p \in Problem /\ IsLasting(p)'
    <2>1. p \in Problem /\ IsLasting(p)
      BY ProblemType DEF AlarmIInv, AlarmTypeOK, SteadyIsFound
    <2> QED BY <1>3, <2>1 DEF IsLasting, Same
  <1>5. AlarmTypeOK'
    BY <1>1, <1>2, <1>4 DEF AlarmIInv, AlarmTypeOK, IInv
  <1> QED BY <1>2, <1>4, <1>5 DEF AlarmIInv, SteadyIsFound

-----------------------------------------------------------------------------
(* Alarms: the invariant holds initially and is kept by every action *)

\* The initial states satisfy it.
LEMMA AlarmInitHolds == AlarmInit => AlarmIInv
  <1> SUFFICES ASSUME AlarmInit PROVE AlarmIInv
    OBVIOUS
  <1>1. IInv
    BY InitHolds DEF AlarmInit
  <1>2. listing \in Listing /\ listing.pc = "idle" /\ listing.todo = {} /\ listing.entries = {}
    BY DEF AlarmInit, NoListing, Listing
  <1>3. DOMAIN health = {} /\ healthChecks = 0 /\ steady = {}
    BY DEF AlarmInit
  <1>4. AlarmTypeOK
    BY <1>1, <1>2, <1>3, ListingAssumption DEF AlarmTypeOK, IInv
  <1>5. QuietSoFar
    BY <1>2 DEF QuietSoFar
  <1> QED BY <1>1, <1>2, <1>3, <1>4, <1>5 DEF AlarmIInv, SteadyIsFound

\* The request asks for the devices and has no entries yet.
LEMMA ListAlarmsHolds ==
  ASSUME AlarmIInv, ListAlarms
  PROVE  AlarmIInv'
  <1>1. /\ UNCHANGED <<vars, healthVars>> /\ UNCHANGED <<devices, rows, health>>
        /\ listing.pc = "idle" /\ listing.entries = {} /\ listing \in Listing
        /\ devices \in SUBSET Device
    BY DEF ListAlarms, vars, healthVars, AlarmIInv, AlarmTypeOK, TypeOK
  <1>2. /\ listing' \in Listing
        /\ listing'.pc = "health" /\ listing'.todo = devices /\ listing'.entries = {}
    <2>1. /\ listing.count + 1 \in Nat
          /\ listing' = [listing EXCEPT !.pc = "health", !.todo = devices,
                                        !.quiet = TRUE, !.count = listing.count + 1]
      BY <1>1 DEF ListAlarms, Listing
    <2> QED BY <1>1, <2>1 DEF Listing
  <1>3. steady' = Problems
    BY DEF ListAlarms
  <1>4. QuietSoFar'
    BY <1>1, <1>2, EntriesOfNone, SameTables DEF QuietSoFar
  <1>5. ASSUME NEW p \in steady'
        PROVE  IsFound(p)'
    BY <1>2, <1>3, ProblemType DEF AlarmIInv, IsFound
  <1> QED BY <1>1, <1>2, <1>3, <1>4, <1>5, ListingStep

\* A pass of any kind adds the entries of one device.
LEMMA ReadHealthHolds ==
  ASSUME AlarmIInv, NEW d \in Device, ReadHealth(d)
  PROVE  AlarmIInv'
  <1>1. /\ UNCHANGED <<vars, healthVars>> /\ UNCHANGED <<devices, rows, health>>
        /\ listing.pc = "health" /\ d \in listing.todo /\ listing \in Listing
        /\ steady' = steady
    BY DEF ReadHealth, vars, healthVars, AlarmIInv, AlarmTypeOK
  <1>2. /\ HealthEntries({d}) = {[dev |-> e, name |-> None, row |-> 0,
                  severity |-> health[e].status, at |-> health[e].at] : e \in {d} \cap Unwell}
        /\ HealthEntries({d}) \in SUBSET Entry
    <2>1. d \in Unwell => health[d].status \in {"down", "error"} /\ health[d].at \in Nat
      BY DEF AlarmIInv, AlarmTypeOK, Unwell, Health
    <2> QED BY <2>1 DEF HealthEntries, Entry
  <1>3. /\ listing' \in Listing
        /\ listing'.pc = "health" /\ listing'.todo = listing.todo \ {d}
        /\ listing'.entries = listing.entries \cup HealthEntries({d})
        /\ listing'.quiet = listing.quiet
    BY <1>1, <1>2 DEF ReadHealth, Listing
  <1>4. QuietSoFar'
    <2> SUFFICES ASSUME listing.quiet
                 PROVE  /\ listing'.todo \subseteq devices
                        /\ listing'.entries = HealthEntries(devices \ listing'.todo)
      BY <1>1, <1>3, SameTables DEF QuietSoFar
    <2>1. /\ listing.todo \subseteq devices
          /\ listing.entries = HealthEntries(devices \ listing.todo)
      BY <1>1 DEF AlarmIInv, QuietSoFar
    <2>2. devices \ listing'.todo = (devices \ listing.todo) \cup {d}
      BY <1>1, <1>3, <2>1
    <2>3. HealthEntries((devices \ listing.todo) \cup {d})
            = HealthEntries(devices \ listing.todo) \cup HealthEntries({d})
      BY EntriesOfUnion
    <2> QED BY <1>3, <2>1, <2>2, <2>3
  <1>5. ASSUME NEW p \in steady', p[3] # "errors_detected"
        PROVE  IsFound(p)'
    <2>1. IsFound(p) /\ \E q \in Problems : Same(p, q) /\ q[4] >= p[4]
      BY <1>1, <1>5 DEF AlarmIInv, SteadyIsFound, IsLasting
    <2>2. CASE p[2] = None /\ p[1] = d
      <3>1. PICK q \in Problems : Same(p, q) /\ q[4] >= p[4]
        BY <2>1
      <3>2. d \in Unwell /\ q = <<d, None, health[d].status, health[d].at>>
        <4>1. \A r \in Latest(devices) : r.name \in Name
          BY SnapshotRows DEF Latest, Row, AlarmIInv
        <4> QED BY <2>2, <3>1, <4>1, ProblemKinds, NameAssumption DEF Same
      <3> DEFINE e == [dev |-> d, name |-> None, row |-> 0, severity |-> health[d].status,
                       at |-> health[d].at]
      <3>3. e \in listing'.entries
        BY <1>3, <3>2 DEF HealthEntries
      <3>4. e.dev = p[1] /\ e.name = p[2] /\ e.severity = p[3] /\ e.at >= p[4]
        BY <3>1, <3>2 DEF Same
      <3> HIDE DEF e
      <3> QED BY <1>3, <3>3, <3>4 DEF IsFound, Listed
    <2>3. CASE ~(p[2] = None /\ p[1] = d)
      BY <1>1, <1>3, <2>1, <2>3 DEF IsFound, Listed
    <2> QED BY <2>2, <2>3
  <1> QED BY <1>1, <1>3, <1>4, <1>5, ListingStep DEF AlarmIInv, SteadyIsFound

\* Every device with a problem is in the list of devices of the second pass.
LEMMA StartDownHolds ==
  ASSUME AlarmIInv, StartDown
  PROVE  AlarmIInv'
  <1>1. /\ UNCHANGED <<vars, healthVars>> /\ UNCHANGED <<devices, rows, health>>
        /\ listing.pc = "health" /\ listing.todo = {} /\ listing \in Listing
        /\ devices \in SUBSET Device /\ steady' = steady
    BY DEF StartDown, vars, healthVars, AlarmIInv, AlarmTypeOK, TypeOK
  <1>2. /\ listing' \in Listing
        /\ listing'.pc = "down" /\ listing'.todo = devices
        /\ listing'.entries = listing.entries /\ listing'.quiet = listing.quiet
    BY <1>1 DEF StartDown, Listing
  <1>3. QuietSoFar'
    <2> SUFFICES ASSUME listing.quiet
                 PROVE  listing.entries = HealthEntries(devices) \cup DownEntries(devices \ devices)
      BY <1>1, <1>2, SameTables DEF QuietSoFar
    <2>1. listing.entries = HealthEntries(devices \ {})
      BY <1>1 DEF AlarmIInv, QuietSoFar
    <2>2. devices \ {} = devices /\ devices \ devices = {}
      OBVIOUS
    <2> QED BY <2>1, <2>2, EntriesOfNone
  <1>4. ASSUME NEW p \in steady', p[3] # "errors_detected"
        PROVE  IsFound(p)'
    <2>1. IsFound(p) /\ \E q \in Problems : Same(p, q)
      BY <1>1, <1>4 DEF AlarmIInv, SteadyIsFound, IsLasting
    <2>2. p[1] \in devices
      BY <2>1, ProblemType DEF AlarmIInv, Same
    <2> QED BY <1>1, <1>2, <2>1, <2>2 DEF IsFound, Listed
  <1> QED BY <1>1, <1>2, <1>3, <1>4, ListingStep DEF AlarmIInv, SteadyIsFound

\* Entries made of rows in the table are entries.
LEMMA EntriesOfRows ==
  ASSUME NEW S \in SUBSET rows, rows \subseteq Row,
         NEW severity \in {"down", "errors_detected"}
  PROVE  EntriesOf(S, severity) \in SUBSET Entry
  BY DEF EntriesOf, Entry, Row

\* The second pass adds one device's interfaces that are down.
LEMMA ReadDownHolds ==
  ASSUME AlarmIInv, NEW d \in Device, ReadDown(d)
  PROVE  AlarmIInv'
  <1>1. /\ UNCHANGED <<vars, healthVars>> /\ UNCHANGED <<devices, rows, health>>
        /\ listing.pc = "down" /\ d \in listing.todo /\ listing \in Listing
        /\ steady' = steady
    BY DEF ReadDown, vars, healthVars, AlarmIInv, AlarmTypeOK
  <1>2. Latest({d}) = Snapshot(d)
    BY DEF Latest
  <1>3. /\ DownEntries({d}) = EntriesOf({r \in Snapshot(d) : r.oper = "down"}, "down")
        /\ DownEntries({d}) \in SUBSET Entry
    <2>1. DownEntries({d}) = EntriesOf({r \in Snapshot(d) : r.oper = "down"}, "down")
      BY <1>2 DEF DownEntries
    <2>2. {r \in Snapshot(d) : r.oper = "down"} \in SUBSET rows /\ rows \subseteq Row
      BY SnapshotRows DEF AlarmIInv, IInv, TypeOK
    <2> QED BY <2>1, <2>2, EntriesOfRows
  <1>4. /\ listing' \in Listing
        /\ listing'.pc = "down" /\ listing'.todo = listing.todo \ {d}
        /\ listing'.entries = listing.entries \cup DownEntries({d})
        /\ listing'.quiet = listing.quiet
    BY <1>1, <1>3 DEF ReadDown, Listing
  <1>5. QuietSoFar'
    <2> SUFFICES ASSUME listing.quiet
                 PROVE  /\ listing'.todo \subseteq devices
                        /\ listing'.entries = HealthEntries(devices)
                               \cup DownEntries(devices \ listing'.todo)
      BY <1>1, <1>4, SameTables DEF QuietSoFar
    <2>1. /\ listing.todo \subseteq devices
          /\ listing.entries = HealthEntries(devices) \cup DownEntries(devices \ listing.todo)
      BY <1>1 DEF AlarmIInv, QuietSoFar
    <2>2. devices \ listing'.todo = (devices \ listing.todo) \cup {d}
      BY <1>1, <1>4, <2>1
    <2>3. DownEntries((devices \ listing.todo) \cup {d})
            = DownEntries(devices \ listing.todo) \cup DownEntries({d})
      BY EntriesOfUnion
    <2> QED BY <1>4, <2>1, <2>2, <2>3
  <1>6. ASSUME NEW p \in steady', p[3] # "errors_detected"
        PROVE  IsFound(p)'
    <2>1. IsFound(p) /\ \E q \in Problems : Same(p, q) /\ q[4] >= p[4]
      BY <1>1, <1>6 DEF AlarmIInv, SteadyIsFound, IsLasting
    <2>2. CASE p[2] # None /\ p[1] = d
      <3>1. PICK q \in Problems : Same(p, q) /\ q[4] >= p[4]
        BY <2>1
      <3>2. PICK r \in Latest(devices) : r.oper = "down" /\ q = <<r.dev, r.name, "down", r.at>>
        BY <1>6, <2>2, <3>1, ProblemKinds DEF Same
      <3>3. r \in Snapshot(d)
        BY <2>2, <3>1, <3>2, SnapshotRows DEF Latest, AlarmIInv, Same
      <3> DEFINE e == [dev |-> r.dev, name |-> r.name, row |-> r.id, severity |-> "down",
                       at |-> r.at]
      <3>4. e \in listing'.entries
        BY <1>3, <1>4, <3>2, <3>3 DEF EntriesOf
      <3>5. e.dev = p[1] /\ e.name = p[2] /\ e.severity = p[3] /\ e.at >= p[4]
        BY <3>1, <3>2 DEF Same
      <3> HIDE DEF e
      <3> QED BY <1>4, <2>2, <3>4, <3>5 DEF IsFound, Listed
    <2>3. CASE ~(p[2] # None /\ p[1] = d)
      BY <1>1, <1>4, <2>1, <2>3 DEF IsFound, Listed
    <2> QED BY <2>2, <2>3
  <1> QED BY <1>1, <1>4, <1>5, <1>6, ListingStep DEF AlarmIInv, SteadyIsFound

\* After the second pass whatever has been down all along is listed.
LEMMA StartErrorsHolds ==
  ASSUME AlarmIInv, StartErrors
  PROVE  AlarmIInv'
  <1>1. /\ UNCHANGED <<vars, healthVars>> /\ UNCHANGED <<devices, rows, health>>
        /\ listing.pc = "down" /\ listing.todo = {} /\ listing \in Listing
        /\ devices \in SUBSET Device /\ steady' = steady
    BY DEF StartErrors, vars, healthVars, AlarmIInv, AlarmTypeOK, TypeOK
  <1>2. /\ listing' \in Listing
        /\ listing'.pc = "errors_detected" /\ listing'.todo = devices
        /\ listing'.entries = listing.entries /\ listing'.quiet = listing.quiet
    BY <1>1 DEF StartErrors, Listing
  <1>3. QuietSoFar'
    <2> SUFFICES ASSUME listing.quiet
                 PROVE  listing.entries = HealthEntries(devices) \cup DownEntries(devices)
                                              \cup ErrorEntries(devices \ devices)
      BY <1>1, <1>2, SameTables DEF QuietSoFar
    <2>1. listing.entries = HealthEntries(devices) \cup DownEntries(devices \ {})
      BY <1>1 DEF AlarmIInv, QuietSoFar
    <2>2. devices \ {} = devices /\ devices \ devices = {}
      OBVIOUS
    <2> QED BY <2>1, <2>2, EntriesOfNone
  <1>4. ASSUME NEW p \in steady', p[3] # "errors_detected"
        PROVE  IsFound(p)'
    <2>1. IsFound(p)
      BY <1>1, <1>4 DEF AlarmIInv, SteadyIsFound
    <2> QED BY <1>1, <1>2, <2>1 DEF IsFound, Listed
  <1> QED BY <1>1, <1>2, <1>3, <1>4, ListingStep DEF AlarmIInv, SteadyIsFound

\* While no check commits, the rows the third pass skips are those that are down.
LEMMA KnownIsDown ==
  ASSUME AlarmIInv, listing.quiet, listing.pc = "errors_detected",
         NEW d \in listing.todo, NEW r \in Snapshot(d)
  PROVE  (\E e \in listing.entries : e.dev = r.dev /\ e.name = r.name /\ e.row = r.id)
           <=> r.oper = "down"
  <1>1. /\ r \in Row /\ r.dev = d /\ d \in devices /\ r.name # None
        /\ \A q \in Snapshot(d) : q.name = r.name => q = r
    BY SnapshotRows, NameAssumption DEF AlarmIInv, Row
  <1>2. listing.entries = HealthEntries(devices) \cup DownEntries(devices)
                             \cup ErrorEntries(devices \ listing.todo)
    BY DEF AlarmIInv, QuietSoFar
  <1>3. ASSUME r.oper = "down"
        PROVE  \E e \in listing.entries : e.dev = r.dev /\ e.name = r.name /\ e.row = r.id
    <2> DEFINE e == [dev |-> r.dev, name |-> r.name, row |-> r.id, severity |-> "down",
                     at |-> r.at]
    <2>1. e \in DownEntries(devices)
      BY <1>1, <1>3 DEF DownEntries, EntriesOf, Latest
    <2>2. e.dev = r.dev /\ e.name = r.name /\ e.row = r.id
      OBVIOUS
    <2> HIDE DEF e
    <2> QED BY <1>2, <2>1, <2>2
  <1>4. ASSUME NEW e \in listing.entries, e.dev = r.dev, e.name = r.name
        PROVE  r.oper = "down"
    <2>1. CASE e \in HealthEntries(devices)
      BY <1>1, <1>4, <2>1 DEF HealthEntries
    <2>2. CASE e \in DownEntries(devices)
      <3>1. PICK q \in Latest(devices) : q.oper = "down" /\ e.dev = q.dev /\ e.name = q.name
        BY <2>2 DEF DownEntries, EntriesOf
      <3>2. q \in Snapshot(d)
        BY <1>1, <1>4, <3>1, SnapshotRows DEF Latest, AlarmIInv
      <3> QED BY <1>1, <1>4, <3>1, <3>2
    <2>3. CASE e \in ErrorEntries(devices \ listing.todo)
      <3>1. PICK q \in Latest(devices \ listing.todo) : e.dev = q.dev
        BY <2>3 DEF ErrorEntries, EntriesOf
      <3>2. q.dev \notin listing.todo
        BY <3>1, SnapshotRows DEF Latest, AlarmIInv
      <3> QED BY <1>1, <1>4, <3>1, <3>2
    <2> QED BY <1>2, <2>1, <2>2, <2>3
  <1> QED BY <1>3, <1>4

\* The third pass adds one device's interfaces with errors.
LEMMA ReadErrorsHolds ==
  ASSUME AlarmIInv, NEW d \in Device, ReadErrors(d)
  PROVE  AlarmIInv'
  <1> DEFINE known(r) == \E e \in listing.entries :
                            e.dev = r.dev /\ e.name = r.name /\ e.row = r.id
             new == {r \in Snapshot(d) : r.errors /\ ~known(r)}
             added == EntriesOf(new, "errors_detected")
  <1>1. /\ UNCHANGED <<vars, healthVars>> /\ UNCHANGED <<devices, rows, health>>
        /\ listing.pc = "errors_detected" /\ d \in listing.todo /\ listing \in Listing
        /\ steady' = steady
    BY DEF ReadErrors, vars, healthVars, AlarmIInv, AlarmTypeOK
  <1>2. added \in SUBSET Entry
    <2>1. new \in SUBSET rows /\ rows \subseteq Row
      BY SnapshotRows DEF AlarmIInv, IInv, TypeOK
    <2> QED BY <2>1, EntriesOfRows
  <1>3. listing' = [listing EXCEPT !.todo = @ \ {d}, !.entries = @ \cup added]
    BY DEF ReadErrors
  <1>4. listing.quiet => added = ErrorEntries({d})
    <2> SUFFICES ASSUME listing.quiet PROVE added = ErrorEntries({d})
      OBVIOUS
    <2>1. \A r \in Snapshot(d) : known(r) <=> r.oper = "down"
      BY <1>1, KnownIsDown
    <2>2. Latest({d}) = Snapshot(d)
      BY DEF Latest
    <2>3. new = {r \in Snapshot(d) : r.errors /\ r.oper # "down"}
      BY <2>1
    <2> QED BY <2>2, <2>3 DEF ErrorEntries
  <1> HIDE DEF added
  <1>5. /\ listing' \in Listing
        /\ listing'.pc = "errors_detected" /\ listing'.todo = listing.todo \ {d}
        /\ listing'.entries = listing.entries \cup added
        /\ listing'.quiet = listing.quiet
    BY <1>1, <1>2, <1>3 DEF Listing
  <1>6. QuietSoFar'
    <2> SUFFICES ASSUME listing.quiet
                 PROVE  /\ listing'.todo \subseteq devices
                        /\ listing'.entries = HealthEntries(devices) \cup DownEntries(devices)
                               \cup ErrorEntries(devices \ listing'.todo)
      BY <1>1, <1>5, SameTables DEF QuietSoFar
    <2>1. /\ listing.todo \subseteq devices
          /\ listing.entries = HealthEntries(devices) \cup DownEntries(devices)
                                  \cup ErrorEntries(devices \ listing.todo)
      BY <1>1 DEF AlarmIInv, QuietSoFar
    <2>2. devices \ listing'.todo = (devices \ listing.todo) \cup {d}
      BY <1>1, <1>5, <2>1
    <2>3. ErrorEntries((devices \ listing.todo) \cup {d})
            = ErrorEntries(devices \ listing.todo) \cup ErrorEntries({d})
      BY EntriesOfUnion
    <2> QED BY <1>4, <1>5, <2>1, <2>2, <2>3
  <1>7. ASSUME NEW p \in steady', p[3] # "errors_detected"
        PROVE  IsFound(p)'
    <2>1. IsFound(p)
      BY <1>1, <1>7 DEF AlarmIInv, SteadyIsFound
    <2> QED BY <1>1, <1>5, <2>1 DEF IsFound, Listed
  <1> QED BY <1>1, <1>5, <1>6, <1>7, ListingStep DEF AlarmIInv, SteadyIsFound

\* An entry is among the most recent or makes way for as many as were asked
\* for, none of them older.
LEMMA MostRecentEntries ==
  ASSUME NEW E, NEW limit \in Nat, NEW A \in MostRecent(E, limit)
  PROVE  /\ A \subseteq E /\ Cardinality(A) <= limit
         /\ \A f \in E \ A : Cardinality(A) = limit /\ \A e \in A : e.at >= f.at
  <1>1. CASE Cardinality(E) <= limit
    BY <1>1 DEF MostRecent
  <1>2. CASE ~(Cardinality(E) <= limit)
    BY <1>2 DEF MostRecent
  <1> QED BY <1>1, <1>2

\* The answer is the most recent of what the passes found.
LEMMA AnswerAlarmsHolds ==
  ASSUME AlarmIInv, NEW limit \in Limit, AnswerAlarms(limit)
  PROVE  AlarmIInv'
  <1>1. /\ UNCHANGED <<vars, healthVars>> /\ UNCHANGED <<devices, rows, health>>
        /\ listing.pc = "errors_detected" /\ listing.todo = {} /\ listing \in Listing
        /\ steady' = steady
    BY DEF AnswerAlarms, vars, healthVars, AlarmIInv, AlarmTypeOK
  <1>2. PICK answer \in MostRecent(listing.entries, limit) :
          listing' = [listing EXCEPT !.pc = "answered", !.entries = answer, !.limit = limit]
    BY DEF AnswerAlarms
  <1>3. limit \in Nat
    BY ListingAssumption
  <1>4. answer \in SUBSET Entry
    BY <1>1, <1>3, MostRecentEntries DEF Listing
  <1>5. /\ listing' \in Listing
        /\ listing'.pc = "answered" /\ listing'.todo = listing.todo
        /\ listing'.entries = answer /\ listing'.limit = limit
        /\ listing'.quiet = listing.quiet
    BY <1>1, <1>2, <1>3, <1>4 DEF Listing
  <1>6. QuietSoFar'
    <2> SUFFICES ASSUME listing.quiet
                 PROVE  answer \in MostRecent(HealthEntries(devices) \cup DownEntries(devices)
                                                  \cup ErrorEntries(devices), limit)
      BY <1>1, <1>5, SameTables DEF QuietSoFar, MostRecent
    <2>1. listing.entries = HealthEntries(devices) \cup DownEntries(devices)
                               \cup ErrorEntries(devices \ {})
      BY <1>1 DEF AlarmIInv, QuietSoFar
    <2>2. devices \ {} = devices
      OBVIOUS
    <2> QED BY <2>1, <2>2
  <1>7. ASSUME NEW p \in steady', p[3] # "errors_detected"
        PROVE  IsFound(p)'
    <2>1. Listed(p) /\ p[4] \in Nat
      BY <1>1, <1>7 DEF AlarmIInv, AlarmTypeOK, Problem, SteadyIsFound, IsFound
    <2>2. PICK f \in listing.entries : /\ f.dev = p[1] /\ f.name = p[2]
                                       /\ f.severity = p[3] /\ f.at >= p[4]
      BY <2>1 DEF Listed
    <2>3. CASE f \in answer
      BY <1>5, <2>2, <2>3 DEF IsFound, Listed
    <2>4. CASE f \notin answer
      <3>1. Cardinality(answer) = limit /\ \A e \in answer : e.at >= f.at
        BY <1>3, <2>2, <2>4, MostRecentEntries
      <3>2. f.at \in Nat /\ \A e \in answer : e.at \in Nat
        BY <1>1, <1>4, <2>2 DEF Listing, Entry
      <3>3. \A e \in answer : e.at >= p[4]
        BY <2>1, <2>2, <3>1, <3>2
      <3> QED BY <1>5, <3>1, <3>3 DEF IsFound, CutOff, IsFull
    <2> QED BY <2>3, <2>4
  <1> QED BY <1>1, <1>5, <1>6, <1>7, ListingStep DEF AlarmIInv, SteadyIsFound

\* The list is gone once it was answered.
LEMMA EndListingHolds ==
  ASSUME AlarmIInv, EndListing
  PROVE  AlarmIInv'
  <1>1. UNCHANGED <<vars, healthVars>> /\ listing \in Listing /\ steady' = {}
    BY DEF EndListing, AlarmIInv, AlarmTypeOK
  <1>2. /\ listing' \in Listing
        /\ listing'.pc = "idle" /\ listing'.todo = {} /\ listing'.entries = {}
    BY <1>1 DEF EndListing, NoListing, Listing
  <1>3. QuietSoFar'
    BY <1>2 DEF QuietSoFar
  <1> QED BY <1>1, <1>2, <1>3, ListingStep

\* Health records are of devices that exist, and are only replaced by records
\* at least as recent.
LEMMA HealthType ==
  ASSUME AlarmIInv, Others
  PROVE  /\ DOMAIN health' \subseteq devices'
         /\ \A d \in DOMAIN health' : health'[d] \in Health
         /\ healthChecks' \in 0..MaxHealthChecks
         /\ \A d \in DOMAIN health \cap DOMAIN health' : health'[d].at >= health[d].at
  <1>0. /\ DOMAIN health \subseteq devices
        /\ \A d \in DOMAIN health : health[d] \in Health /\ health[d].at \in Nat
        /\ healthChecks \in 0..MaxHealthChecks /\ clock \in Nat
    BY DEF AlarmIInv, AlarmTypeOK, IInv, TypeOK, Health
  <1>1. ASSUME NEW d \in Device, NEW status \in {"up", "down", "error"},
               NEW at \in 0..clock, StoreHealth(d, status, at)
        PROVE  /\ DOMAIN health' \subseteq devices'
               /\ \A e \in DOMAIN health' : health'[e] \in Health
               /\ healthChecks' \in 0..MaxHealthChecks
               /\ \A e \in DOMAIN health \cap DOMAIN health' :
                     health'[e].at >= health[e].at
    <2> DEFINE record == [status |-> status, at |-> at]
    <2>1. record \in Health /\ record.at = at /\ at \in Nat
      BY <1>0 DEF Health
    <2>2. /\ d \in devices /\ UNCHANGED devices
          /\ d \in DOMAIN health => health[d].at <= at
          /\ health' = [e \in DOMAIN health \cup {d} |-> IF e = d THEN record ELSE health[e]]
          /\ healthChecks < MaxHealthChecks /\ healthChecks' = healthChecks + 1
      BY <1>1 DEF StoreHealth, vars
    <2> HIDE DEF record
    <2> QED BY <1>0, <2>1, <2>2, ListingAssumption
  <1>2. CASE Next /\ Cascade
    BY <1>0, <1>2 DEF Cascade
  <1> QED BY <1>1, <1>2 DEF Others

\* The rows of a device are kept as long as the device is.
LEMMA RowsRemain ==
  ASSUME IInv, [Next]_vars
  PROVE  \A r \in rows : r.dev \in devices' => r \in rows'
  BY DEF Next, CheckStep, Collect, Save, Reload, DispatchEvents, Respond, Request,
     CreateDevice, DeleteDevice, Crash, Goto, database, vars

\* A problem seen after someone else's step is no older than it was before.
LEMMA ProblemsAge ==
  ASSUME AlarmIInv, IInv', Others, NEW p \in Problems, NEW q \in Problems', Same(p, q)
  PROVE  q[4] \in Nat /\ q[4] >= p[4]
  <1>0. \/ \E e \in Unwell' : q = <<e, None, health'[e].status, health'[e].at>>
        \/ \E n \in Latest(devices)' : \/ q = <<n.dev, n.name, "down", n.at>>
                                       \/ q = <<n.dev, n.name, "errors_detected", n.at>>
    BY DEF Problems, Latest
  <1>1. [Next]_vars
    BY DEF Others, StoreHealth
  <1>2. \A r \in Latest(devices)' : /\ r \in rows' /\ r \in Row /\ r.dev \in devices'
                                    /\ r \in Newest(RowsOf(r.dev, r.name))'
    BY DEF Latest, Snapshot, Newest, RowsOf, IInv, TypeOK, RowsInOrder
  <1>3. \A r \in Latest(devices) : r \in rows /\ r \in Row
    BY SnapshotRows DEF Latest, AlarmIInv
  <1>4. \A r \in rows \cup rows' : r.name # None
    BY NameAssumption DEF AlarmIInv, IInv, TypeOK, Row
  <1>5. /\ \A d \in Unwell' : health'[d].at \in Nat
        /\ \A d \in Unwell \cap Unwell' : health'[d].at >= health[d].at
    BY HealthType DEF Unwell, Health
  <1>6. CASE p[2] = None
    <2>1. PICK d \in Unwell : p = <<d, None, health[d].status, health[d].at>>
      BY <1>3, <1>4, <1>6, ProblemKinds
    <2>2. \A r \in Latest(devices)' : q[2] # r.name
      BY <1>2, <1>4, <1>6 DEF Same
    <2>3. PICK e \in Unwell' : q = <<e, None, health'[e].status, health'[e].at>>
      BY <1>0, <2>2
    <2> QED BY <1>5, <2>1, <2>3 DEF Same
  <1>7. CASE p[2] # None
    <2>1. PICK r \in Latest(devices) : p[1] = r.dev /\ p[2] = r.name /\ p[4] = r.at
      BY <1>7, ProblemKinds
    <2>2. PICK n \in Latest(devices)' : q[1] = n.dev /\ q[2] = n.name /\ q[4] = n.at
      BY <1>0, <1>7 DEF Same
    <2>3. n.dev = r.dev /\ n.name = r.name
      BY <2>1, <2>2 DEF Same
    <2>4. r \in RowsOf(n.dev, n.name)'
      BY <1>1, <1>2, <1>3, <2>3, RowsRemain DEF RowsOf, AlarmIInv
    <2>5. ~Newer(r, n)
      BY <1>2, <2>4 DEF Newest
    <2>6. r.at \in Nat /\ n.at \in Nat
      BY <1>2, <1>3 DEF Row
    <2> QED BY <2>1, <2>2, <2>5, <2>6 DEF Newer
  <1> QED BY <1>6, <1>7

\* Whoever else steps: a list without a commit stays exact, and what is still
\* wrong stays found.
LEMMA OthersHold ==
  ASSUME AlarmIInv, Others, Observe
  PROVE  AlarmIInv'
  <1>1. IInv'
    <2>1. [Next]_vars
      BY DEF Others, StoreHealth
    <2> QED BY <2>1, NextHolds DEF AlarmIInv
  <1>2. /\ listing \in Listing /\ steady \subseteq Problem
        /\ steady' = {p \in steady : \E q \in Problems' : Same(p, q)}
    BY DEF AlarmIInv, AlarmTypeOK, Observe
  <1>3. \/ /\ listing' \in Listing
           /\ listing'.pc = "idle" /\ listing'.todo = {} /\ listing'.entries = {}
        \/ /\ listing' \in Listing
           /\ listing'.pc = listing.pc /\ listing'.todo = listing.todo
           /\ listing'.entries = listing.entries /\ listing'.limit = listing.limit
           /\ listing'.quiet => listing.quiet /\ UNCHANGED <<rows, devices, health>>
    <2>1. CASE crashes' # crashes
      <3>1. listing' = [NoListing EXCEPT !.count = listing.count]
        BY <2>1 DEF Observe
      <3> QED BY <1>2, <3>1 DEF NoListing, Listing
    <2>2. CASE crashes' = crashes
      <3> DEFINE quiet == listing.quiet /\ UNCHANGED <<rows, devices, health>>
      <3>1. listing' = [listing EXCEPT !.quiet = quiet]
        BY <2>2 DEF Observe
      <3>2. quiet \in BOOLEAN
        OBVIOUS
      <3>3. quiet => listing.quiet /\ UNCHANGED <<rows, devices, health>>
        OBVIOUS
      <3> HIDE DEF quiet
      <3> QED BY <1>2, <3>1, <3>2, <3>3 DEF Listing
    <2> QED BY <2>1, <2>2
  <1>4. QuietSoFar'
    BY <1>3, SameTables DEF AlarmIInv, QuietSoFar, MostRecent
  <1>5. ASSUME NEW p \in steady'
        PROVE  IsLasting(p)' /\ (p[3] # "errors_detected" => IsFound(p)')
    <2>1. p \in steady /\ p[4] \in Nat /\ IsLasting(p)
      BY <1>2, <1>5 DEF AlarmIInv, SteadyIsFound, Problem
    <2>2. p[3] # "errors_detected" => IsFound(p)
      BY <2>1 DEF AlarmIInv, SteadyIsFound
    <2>3. PICK b \in Problems : Same(p, b) /\ b[4] >= p[4]
      BY <2>1 DEF IsLasting
    <2>4. PICK q \in Problems' : Same(p, q)
      BY <1>2, <1>5
    <2>5. b[4] \in Nat
      BY ProblemType DEF AlarmIInv
    <2>6. q[4] \in Nat /\ q[4] >= b[4]
      BY <1>1, <2>3, <2>4, ProblemsAge DEF Same
    <2>7. IsLasting(p)'
      BY <2>1, <2>3, <2>4, <2>5, <2>6 DEF IsLasting, Same
    <2> QED BY <1>3, <2>2, <2>7 DEF IsFound, Listed, CutOff, IsFull
  <1>6. AlarmTypeOK'
    BY <1>1, <1>2, <1>3, HealthType DEF AlarmIInv, AlarmTypeOK, IInv
  <1> QED BY <1>1, <1>3, <1>4, <1>5, <1>6 DEF AlarmIInv, SteadyIsFound

\* Every step keeps the invariant.
LEMMA AlarmNextHolds == AlarmIInv /\ [AlarmNext]_alarmVars => AlarmIInv'
  <1> SUFFICES ASSUME AlarmIInv, [AlarmNext]_alarmVars PROVE AlarmIInv'
    OBVIOUS
  <1>1. ASSUME NEW d \in Device, ReadHealth(d) \/ ReadDown(d) \/ ReadErrors(d)
        PROVE  AlarmIInv'
    BY <1>1, ReadHealthHolds, ReadDownHolds, ReadErrorsHolds
  <1>2. CASE UNCHANGED alarmVars
    <2>1. UNCHANGED <<vars, healthVars>> /\ UNCHANGED <<listing, steady>>
          /\ UNCHANGED <<devices, rows, health>>
      BY <1>2 DEF alarmVars, vars, healthVars
    <2>2. QuietSoFar'
      BY <2>1, SameTables DEF AlarmIInv, QuietSoFar, MostRecent
    <2>3. ASSUME NEW p \in steady', p[3] # "errors_detected"
          PROVE  IsFound(p)'
      BY <2>1, <2>3 DEF AlarmIInv, SteadyIsFound, IsFound, Listed, CutOff, IsFull
    <2> QED BY <2>1, <2>2, <2>3, ListingStep DEF AlarmIInv, AlarmTypeOK, SteadyIsFound
  <1> QED BY <1>1, <1>2, ListAlarmsHolds, StartDownHolds, StartErrorsHolds,
          AnswerAlarmsHolds, EndListingHolds, OthersHold DEF AlarmNext, AlarmStep

\* Rows of two latest snapshots that agree on device and name are the same row.
LEMMA LatestIsUnique ==
  ASSUME IInv, NEW r \in Latest(devices), NEW q \in Latest(devices),
         q.dev = r.dev, q.name = r.name
  PROVE  q = r
  BY SnapshotRows DEF Latest

\* What the passes find is what is wrong.
LEMMA CompleteListIsExact ==
  ASSUME AlarmIInv
  PROVE  LET complete == HealthEntries(devices) \cup DownEntries(devices)
                            \cup ErrorEntries(devices)
         IN  {<<e.dev, e.name, e.severity, e.at>> : e \in complete} =
             {p \in Problems :
                 p[3] = "errors_detected" => <<p[1], p[2], "down", p[4]>> \notin Problems}
  <1> DEFINE complete == HealthEntries(devices) \cup DownEntries(devices)
                            \cup ErrorEntries(devices)
  <1>1. /\ Unwell \subseteq devices
        /\ \A d \in Unwell : health[d].status \in {"down", "error"}
        /\ \A r \in Latest(devices) : r.name # None
    BY SnapshotRows, NameAssumption DEF AlarmIInv, AlarmTypeOK, Unwell, Health, Latest, Row
  <1>2. ASSUME NEW r \in Latest(devices)
        PROVE  <<r.dev, r.name, "down", r.at>> \in Problems <=> r.oper = "down"
    <2>1. ASSUME NEW q \in Latest(devices), q.oper = "down",
                 <<r.dev, r.name, "down", r.at>> = <<q.dev, q.name, "down", q.at>>
          PROVE  r.oper = "down"
      BY <2>1, LatestIsUnique DEF AlarmIInv
    <2> QED BY <1>1, <2>1, ProblemKinds
  <1>3. ASSUME NEW e \in complete
        PROVE  LET p == <<e.dev, e.name, e.severity, e.at>>
               IN  /\ p \in Problems
                   /\ p[3] = "errors_detected" =>
                         <<p[1], p[2], "down", p[4]>> \notin Problems
    <2>1. CASE e \in HealthEntries(devices)
      <3>1. PICK d \in Unwell :
               /\ health[d].status # "errors_detected"
               /\ e = [dev |-> d, name |-> None, row |-> 0, severity |-> health[d].status,
                       at |-> health[d].at]
        BY <1>1, <2>1 DEF HealthEntries
      <3> QED BY <3>1, ProblemKinds
    <2>2. CASE e \in DownEntries(devices)
      <3>1. PICK r \in Latest(devices) :
               /\ r.oper = "down"
               /\ e = [dev |-> r.dev, name |-> r.name, row |-> r.id, severity |-> "down",
                       at |-> r.at]
        BY <2>2 DEF DownEntries, EntriesOf
      <3> QED BY <3>1, ProblemKinds
    <2>3. CASE e \in ErrorEntries(devices)
      <3>1. PICK r \in Latest(devices) :
               /\ r.errors /\ r.oper # "down"
               /\ e = [dev |-> r.dev, name |-> r.name, row |-> r.id,
                       severity |-> "errors_detected", at |-> r.at]
        BY <2>3 DEF ErrorEntries, EntriesOf
      <3> QED BY <1>2, <3>1, ProblemKinds
    <2> QED BY <1>3, <2>1, <2>2, <2>3
  <1>4. ASSUME NEW p \in Problems,
               p[3] = "errors_detected" => <<p[1], p[2], "down", p[4]>> \notin Problems
        PROVE  \E e \in complete : p = <<e.dev, e.name, e.severity, e.at>>
    <2>1. ASSUME NEW d \in Unwell, p = <<d, None, health[d].status, health[d].at>>
          PROVE  \E e \in complete : p = <<e.dev, e.name, e.severity, e.at>>
      <3> DEFINE e == [dev |-> d, name |-> None, row |-> 0, severity |-> health[d].status,
                       at |-> health[d].at]
      <3>1. e \in HealthEntries(devices)
        BY <1>1, <2>1 DEF HealthEntries
      <3>2. p = <<e.dev, e.name, e.severity, e.at>>
        BY <2>1
      <3> HIDE DEF e
      <3> QED BY <3>1, <3>2
    <2>2. ASSUME NEW r \in Latest(devices), r.oper = "down",
                 p = <<r.dev, r.name, "down", r.at>>
          PROVE  \E e \in complete : p = <<e.dev, e.name, e.severity, e.at>>
      <3> DEFINE e == [dev |-> r.dev, name |-> r.name, row |-> r.id, severity |-> "down",
                       at |-> r.at]
      <3>1. e \in DownEntries(devices)
        BY <2>2 DEF DownEntries, EntriesOf
      <3>2. p = <<e.dev, e.name, e.severity, e.at>>
        BY <2>2
      <3> HIDE DEF e
      <3> QED BY <3>1, <3>2
    <2>3. ASSUME NEW r \in Latest(devices), r.errors,
                 p = <<r.dev, r.name, "errors_detected", r.at>>
          PROVE  \E e \in complete : p = <<e.dev, e.name, e.severity, e.at>>
      <3> DEFINE e == [dev |-> r.dev, name |-> r.name, row |-> r.id,
                       severity |-> "errors_detected", at |-> r.at]
      <3>1. r.oper # "down"
        BY <1>2, <1>4, <2>3
      <3>2. e \in ErrorEntries(devices)
        BY <2>3, <3>1 DEF ErrorEntries, EntriesOf
      <3>3. p = <<e.dev, e.name, e.severity, e.at>>
        BY <2>3
      <3> HIDE DEF e
      <3> QED BY <3>2, <3>3
    <2> QED BY <2>1, <2>2, <2>3, ProblemKinds
  <1> HIDE DEF complete
  <1>5. {<<e.dev, e.name, e.severity, e.at>> : e \in complete} =
           {p \in Problems :
               p[3] = "errors_detected" => <<p[1], p[2], "down", p[4]>> \notin Problems}
    BY <1>3, <1>4
  <1> QED BY <1>5 DEF complete

\* The most recent of it is in the answer.
LEMMA AnswerIsExact == AlarmIInv => QuietListIsExact
  <1> SUFFICES ASSUME AlarmIInv, listing.pc = "answered", listing.quiet
               PROVE  QuietListIsExact
    BY DEF QuietListIsExact
  <1> DEFINE AsProblem(e) == <<e.dev, e.name, e.severity, e.at>>
             complete == HealthEntries(devices) \cup DownEntries(devices)
                            \cup ErrorEntries(devices)
             active == {p \in Problems : p[3] = "errors_detected" =>
                           <<p[1], p[2], "down", p[4]>> \notin Problems}
             shown == {AsProblem(e) : e \in listing.entries}
  <1>1. {AsProblem(e) : e \in complete} = active
    BY CompleteListIsExact
  <1>2. listing.entries \in MostRecent(complete, listing.limit) /\ listing.limit \in Nat
    BY DEF AlarmIInv, QuietSoFar, AlarmTypeOK, Listing
  <1> HIDE DEF complete, active
  <1>3. /\ listing.entries \subseteq complete
        /\ Cardinality(listing.entries) <= listing.limit
        /\ \A f \in complete \ listing.entries :
              IsFull /\ \A e \in listing.entries : e.at >= f.at
    BY <1>2, MostRecentEntries DEF IsFull
  <1>4. shown \subseteq active
    BY <1>1, <1>3
  <1>5. ASSUME NEW p \in active \ shown
        PROVE  IsFull /\ \A q \in shown : q[4] >= p[4]
    <2>1. PICK f \in complete : p = AsProblem(f)
      BY <1>1
    <2>2. f \notin listing.entries
      BY <1>5, <2>1
    <2> QED BY <1>3, <2>1, <2>2
  <1> QED BY <1>3, <1>4, <1>5 DEF QuietListIsExact, active

-----------------------------------------------------------------------------
(* Alarms: what it guarantees *)

\* Reading the alarms beside the checks is no step of the checks: whatever
\* Spec guarantees holds with any number of lists being read.
THEOREM ListingLeavesChecksAlone == AlarmSpec => Spec
  <1>1. AlarmInit => Init
    BY DEF AlarmInit
  <1> QED BY <1>1, AlarmNextIsNext, PTL DEF AlarmSpec, Spec

\* The invariant holds in every reachable state.
THEOREM AlarmInvariance == AlarmSpec => []AlarmIInv
  BY AlarmInitHolds, AlarmNextHolds, PTL DEF AlarmSpec

\* Every variable keeps its type.
THEOREM AlarmTypeCorrectness == AlarmSpec => []AlarmTypeOK
  <1>1. AlarmIInv => AlarmTypeOK
    BY DEF AlarmIInv
  <1> QED BY <1>1, AlarmInvariance, PTL

\* Without a commit meanwhile GET /alarms shows what /monitoring/health and
\* /interfaces/health do, an interface that is down with errors once, and of
\* more than the limit the most recent.
THEOREM QuietListsAreExact == AlarmSpec => []QuietListIsExact
  BY AnswerIsExact, AlarmInvariance, PTL

\* What is down from the request to the answer is in the answer, unless as
\* many as the limit were observed no earlier.
THEOREM SteadyOutagesAreListed == AlarmSpec => []SteadyDownIsListed
  <1>1. AlarmIInv => SteadyDownIsListed
    BY DEF AlarmIInv, SteadyIsFound, IsFound, Listed, CutOff, SteadyDownIsListed
  <1> QED BY <1>1, AlarmInvariance, PTL

=============================================================================
