----------------------------- MODULE Collection -----------------------------
(***************************************************************************)
(* How NetAutoOps reads a device (app/monitoring): one of the three        *)
(* functions of netmiko_client opens an SSH session, runs the vendor's     *)
(* read-only commands and closes it, while the device prints its answer a  *)
(* line at a time and may hang, drop the session or refuse it; the parsers *)
(* of vendor_adapters then read what was printed.                          *)
(*                                                                         *)
(* A line is what the parsers tell apart: which port it is about and which *)
(* of their patterns it matches.  Of the eight fields of a port two stand  *)
(* for all: "description", whose pattern skips line ends before the text,  *)
(* and "speed", a field some ports print and others do not, on a Huawei    *)
(* device in one of two styles, as with its duplex.                        *)
(***************************************************************************)
EXTENDS Naturals, Sequences

CONSTANTS
    Heading,   \* <<admin, oper>> words a port may be announced with
    MaxLines   \* bound: lines of one answer

None == "none"
Other == "other"    \* words no header pattern matches, "up (spoofing)"
Key == {"version", "cpu", "memory"}
Field == {"description", "speed"}

\* the patterns: "Speed : 1000" and, on Huawei devices only, "100M-speed"
Kind == Field \cup {"alt speed"}
FieldOf(kind) == IF kind = "alt speed" THEN "speed" ELSE kind

ASSUME CollectionAssumption ==
    /\ Heading \subseteq {"up", "down", "administratively down", Other} \X {"up", "down"}
    /\ MaxLines \in Nat

\* collect_raw_outputs, fetch_running_config, fetch_interfaces_raw: the
\* commands each runs, in order
Function == {"collect", "running_config", "interfaces"}
CommandsOf == [f \in Function |->
    IF f = "collect" THEN <<"version", "cpu", "memory">> ELSE <<f>>]

VARIABLES
    pc,        \* where the call stands
    function,  \* the function of netmiko_client that was called
    vendor,    \* the device's vendor
    session,   \* the SSH session: none, open, closed
    alive,     \* the device still answers on it
    todo,      \* commands not yet finished
    screen,    \* what the device printed since the last command
    outputs,   \* answers to commands of collect: per key
    failed,    \* the keys of `errors`
    text,      \* what fetch_interfaces_raw returned: lines
    exc,       \* the exception being raised
    rows,      \* what parse_interfaces made of text
    metrics,   \* what the other parsers made of outputs
    prompted,  \* auxiliary: commands whose answer the device finished
    closeFailed \* auxiliary: closing the session raised

collectionVars == <<pc, function, vendor, session, alive, todo, screen, outputs,
                    failed, text, exc, rows, metrics, prompted, closeFailed>>
parsedVars == <<rows, metrics>>
aux == <<prompted, closeFailed>>

Vendor == {"cisco", "huawei", "nokia"}
Ended == {"done", "raised", "refused"}

----------------------------------------------------------------------------
(* Parsers: a header opens a block that runs to the next header they match; *)
(* each field is the first match of its pattern in the block, and if there  *)
(* is none the first of its second pattern.                                 *)

Line(port, kind, words, blank) ==
    [port |-> port, kind |-> kind, words |-> words, blank |-> blank]
NoWords == <<None, None>>

Recognised(line) == line.kind = "header" /\ line.words[1] # Other

Headers(lines) == {i \in DOMAIN lines : Recognised(lines[i])}

\* mutant: the block runs to the end of the output
BlockEnd_Output(lines, i) == Len(lines)

BlockEnd(lines, i) ==
    CHOOSE e \in i..Len(lines) :
        /\ \A j \in i + 1..e : j \notin Headers(lines)
        /\ e = Len(lines) \/ e + 1 \in Headers(lines)

\* mutant: the last match
FirstMatch_Last(matches) == CHOOSE i \in matches : \A j \in matches : j <= i

\* re.search
FirstMatch(matches) == CHOOSE i \in matches : \A j \in matches : i <= j

\* "Description:\s*(.+)": of a blank description the next line is taken
TextAt(lines, i) == IF lines[i].blank THEN i + 1 ELSE i

\* the matches of a pattern in the block of the header at i
Matches(lines, i, kind) ==
    {j \in i..BlockEnd(lines, i) :
        lines[j].kind = kind /\ TextAt(lines, j) <= BlockEnd(lines, i)}

\* search(pattern) or search(second pattern): the line read, or 0
FieldLine(lines, i, field) ==
    LET first == Matches(lines, i, field)
        second == IF field = "speed" THEN Matches(lines, i, "alt speed") ELSE {}
        matches == IF first # {} THEN first ELSE second
    IN  IF matches = {} THEN 0 ELSE TextAt(lines, FirstMatch(matches))

AdminStatus(word) == IF word = "administratively down" THEN "down" ELSE word

\* the rows of a text, by the index of their header; of a field, its line
Row(lines, i) ==
    [name |-> lines[i].port, admin |-> AdminStatus(lines[i].words[1]),
     oper |-> lines[i].words[2],
     from |-> [f \in Field |-> FieldLine(lines, i, f)]]
ParseInterfaces(lines) == {Row(lines, i) : i \in Headers(lines)}

\* parse_version, parse_cpu, parse_memory; of no output, no value
ParseMetric(answer) == IF answer = "value" THEN "value" ELSE None

----------------------------------------------------------------------------
(* The caller *)

\* get_vendor_adapter, or UnsupportedPlatformError
Call(f, v) ==
    /\ pc = "idle"
    /\ function' = f
    /\ vendor' = v
    /\ todo' = CommandsOf[f]
    /\ pc' = IF v \in Vendor THEN "called" ELSE "refused"
    /\ UNCHANGED <<session, alive, screen, outputs, failed, text, exc, aux, parsedVars>>

\* check_tcp_reachability
Probe ==
    /\ pc = "called"
    /\ pc' \in {"opening", "refused"}
    /\ UNCHANGED <<function, vendor, session, alive, todo, screen, outputs,
                   failed, text, exc, aux, parsedVars>>

----------------------------------------------------------------------------
(* The session *)

\* what ConnectHandler and its session raise
NetmikoError == {"NetmikoAuthenticationException", "NetmikoTimeoutException", "OtherError"}
CommandError == [f \in Function \ {"collect"} |->
    IF f = "running_config" THEN "BackupCommandError" ELSE "InterfaceCommandError"]

\* what _open_connection lets pass
DomainErrors == {"NetmikoConnectionError", "BackupCommandError", "InterfaceCommandError"}

\* the clauses of _open_connection
Leaving(e) == IF e \in DomainErrors THEN e ELSE "NetmikoConnectionError"

Open ==
    /\ pc = "opening"
    /\ \/ /\ session' = "open"
          /\ alive' = TRUE
          /\ pc' = "reading"
          /\ exc' = exc
       \/ /\ \E e \in NetmikoError : exc' = Leaving(e)
          /\ pc' = "raised"
          /\ UNCHANGED <<session, alive>>
    /\ UNCHANGED <<function, vendor, todo, screen, outputs, failed, text, aux, parsedVars>>

\* the device reboots, or the path to it is cut
Drop ==
    /\ alive
    /\ alive' = FALSE
    /\ UNCHANGED <<pc, function, vendor, session, todo, screen, outputs, failed,
                   text, exc, aux, parsedVars>>

Emit(line) ==
    /\ screen' = Append(screen, line)
    /\ UNCHANGED <<pc, function, vendor, session, alive, todo, outputs, failed,
                   text, exc, aux, parsedVars>>

Printing == pc = "reading" /\ function = "interfaces" /\ alive /\ Len(screen) < MaxLines
LastPort == IF screen = <<>> THEN 0 ELSE screen[Len(screen)].port

PrintHeader(words) ==
    /\ Printing
    /\ Emit(Line(LastPort + 1, "header", words, FALSE))

\* a port's description, if any, comes before its speed, if any
PrintField(kind, blank) ==
    /\ Printing
    /\ vendor # "nokia" /\ screen # <<>>
    /\ kind = "alt speed" => vendor = "huawei"
    /\ FieldOf(kind) = "speed" => ~blank
    /\ LET last == screen[Len(screen)] IN
       last.kind = "header" \/ (last.kind = "description" /\ FieldOf(kind) = "speed")
    /\ Emit(Line(LastPort, kind, NoWords, blank))

\* a command ends: the next one, or the end of the with block
NextCommand ==
    /\ todo' = Tail(todo)
    /\ pc' = IF Len(todo) = 1 THEN "closing" ELSE "reading"
    /\ screen' = <<>>

\* the prompt: send_command returns what was printed
Prompt ==
    /\ pc = "reading" /\ alive
    /\ \/ /\ function = "collect"
          /\ \E answer \in {"", "invalid input", "value", "zero total"} :
                /\ answer = "zero total" => Head(todo) = "memory" /\ vendor = "cisco"
                /\ outputs' = [outputs EXCEPT ![Head(todo)] = answer]
          /\ text' = text
       \/ function = "running_config" /\ UNCHANGED <<outputs, text>>
       \/ function = "interfaces" /\ text' = screen /\ outputs' = outputs
    /\ prompted' = prompted \cup {Head(todo)}
    /\ NextCommand
    /\ UNCHANGED <<function, vendor, session, alive, failed, exc, closeFailed, parsedVars>>

\* mutant: what was printed before the timeout is used
ReadFails_KeepsPartial ==
    /\ pc = "reading"
    /\ text' = screen
    /\ NextCommand
    /\ UNCHANGED <<function, vendor, session, alive, outputs, failed, exc,
                   aux, parsedVars>>

\* mutant: the first failing command ends the collection
ReadFails_Aborts ==
    /\ pc = "reading"
    /\ exc' = "OtherError"
    /\ todo' = <<>>
    /\ pc' = "closing"
    /\ screen' = <<>>
    /\ UNCHANGED <<function, vendor, session, alive, outputs, failed, text,
                   aux, parsedVars>>

\* mutant: no read_timeout, only a lost session ends the wait
Waited_Forever == ~alive

\* the device is waited for until read_timeout, whether it answers or not
Waited == TRUE

\* send_command raises: no prompt within read_timeout, or the session is gone
ReadFails ==
    /\ pc = "reading"
    /\ Waited
    /\ IF function = "collect"
       THEN failed' = failed \cup {Head(todo)} /\ exc' = exc
       ELSE exc' = CommandError[function] /\ failed' = failed
    /\ NextCommand
    /\ UNCHANGED <<function, vendor, session, alive, outputs, text, aux, parsedVars>>

\* with ConnectHandler(...) as conn: however the block is left
Closed(raising) == "closed"

\* closing may raise too, and then replaces what was raised
Close ==
    /\ pc = "closing"
    /\ session' = Closed(exc # None)
    /\ alive' = FALSE
    /\ \/ /\ exc' = IF exc = None THEN None ELSE Leaving(exc)
          /\ closeFailed' = FALSE
       \/ /\ \E e \in NetmikoError : exc' = Leaving(e)
          /\ closeFailed' = TRUE
    /\ pc' = IF exc' = None THEN "returned" ELSE "raised"
    /\ UNCHANGED <<function, vendor, todo, screen, outputs, failed, text, prompted, parsedVars>>

Parse ==
    /\ pc = "returned"
    /\ pc' = "done"
    /\ rows' = IF function = "interfaces" THEN ParseInterfaces(text) ELSE {}
    /\ metrics' = [k \in Key |-> ParseMetric(outputs[k])]
    /\ UNCHANGED <<function, vendor, session, alive, todo, screen, outputs,
                   failed, text, exc, aux>>

----------------------------------------------------------------------------
Init ==
    /\ pc = "idle"
    /\ function = "collect" /\ vendor = "cisco"
    /\ session = "none"
    /\ alive = FALSE
    /\ todo = <<>> /\ screen = <<>> /\ text = <<>>
    /\ outputs = [k \in Key |-> None] /\ metrics = [k \in Key |-> None]
    /\ failed = {} /\ prompted = {} /\ rows = {}
    /\ exc = None
    /\ closeFailed = FALSE

Next ==
    \/ \E f \in Function, v \in Vendor \cup {"juniper"} : Call(f, v)
    \/ Probe \/ Open \/ Drop
    \/ \E words \in Heading : PrintHeader(words)
    \/ \E k \in Kind, b \in BOOLEAN : PrintField(k, b)
    \/ Prompt \/ ReadFails \/ Close \/ Parse

\* every wait has a timeout: tcp_check_timeout, netmiko_timeout, read_timeout
Fairness ==
    /\ WF_collectionVars(Probe) /\ WF_collectionVars(Open)
    /\ WF_collectionVars(ReadFails) /\ WF_collectionVars(Close) /\ WF_collectionVars(Parse)

Spec == Init /\ [][Next]_collectionVars /\ Fairness

----------------------------------------------------------------------------
(* Properties *)

TypeOK ==
    /\ pc \in {"idle", "called", "opening", "reading", "closing", "returned"} \cup Ended
    /\ function \in Function
    /\ vendor \in Vendor \cup {"juniper"}
    /\ session \in {"none", "open", "closed"}
    /\ {alive, closeFailed} \subseteq BOOLEAN
    /\ todo \in Seq(Key \cup Function)
    /\ {screen, text} \subseteq Seq([port : Nat, kind : {"header"} \cup Kind,
                                     words : Heading \cup {NoWords}, blank : BOOLEAN])
    /\ outputs \in [Key -> {None, "", "invalid input", "value", "zero total"}]
    /\ metrics \in [Key -> {None, "value"}]
    /\ failed \subseteq Key
    /\ prompted \subseteq Key \cup Function
    /\ exc \in {None} \cup DomainErrors
    /\ rows \in {{}, ParseInterfaces(text)}

\* the lines on which a port says what a field is, in either style
Printed(p, f) ==
    {i \in DOMAIN text : text[i].port = p /\ FieldOf(text[i].kind) = f /\ ~text[i].blank}

\* What a port prints of itself is what its row says, though lines of a header
\* nobody recognised may follow in its block (_parse_cisco_interfaces,
\* _parse_huawei_interfaces). Only a value printed in the second style gives
\* way, and only to such a port's value in the first; never to one of a port
\* that has a row.
OwnValuesWin ==
    \A r \in rows, f \in Field : \A i \in Printed(r.name, f) :
        r.from[f] # i =>
            /\ text[i].kind # f
            /\ r.from[f] \in DOMAIN text /\ text[r.from[f]].kind = f
            /\ \A q \in rows : text[r.from[f]].port # q.name

\* When every header is one the patterns match, and no description is blank,
\* each row holds nothing but its own port's values, and no port is missing.
RowsMatchPorts ==
    (pc = "done" /\ \A i \in DOMAIN text : ~text[i].blank
                      /\ (text[i].kind = "header" => Recognised(text[i]))) =>
        /\ {r.name : r \in rows} = {text[i].port : i \in DOMAIN text}
        /\ \A r \in rows, f \in Field :
              r.from[f] \in Printed(r.name, f) \cup {0}

\* Rows are made only of an answer the device finished: an output cut off by a
\* timeout or a lost session is an error, never a shorter list of interfaces.
NoPartialTable == text # <<>> => "interfaces" \in prompted

\* A health collection that opened a session tries every command, keeps every
\* answer that came, and says of each other command that it failed.
OneFailureKeepsTheRest ==
    (function = "collect" /\ session = "closed") =>
        /\ failed = Key \ prompted
        /\ \A k \in prompted : outputs[k] # None

\* A command that fails on an open session is reported as that command's
\* error, not as a connection error, unless closing the session fails too.
CommandErrorIsKept ==
    (pc = "raised" /\ session = "closed" /\ ~closeFailed) =>
        /\ function # "collect"
        /\ exc = CommandError[function]

\* Both: whatever fails on an open session is named for what it was.
FailureIsNamed == OneFailureKeepsTheRest /\ CommandErrorIsKept

\* The device's session is closed by the time the caller goes on.
SessionIsClosed == pc \in {"returned"} \cup Ended => session # "open"

\* Every call ends, though the device may never answer.
CallEnds == pc = "called" ~> pc \in Ended
=============================================================================
