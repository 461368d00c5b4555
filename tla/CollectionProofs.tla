-------------------------- MODULE CollectionProofs --------------------------
(***************************************************************************)
(* Theorems about Collection, for every limit on an answer's length: type  *)
(* correctness, that a table cut short is never parsed, that failures are  *)
(* named for what they were, that the session is closed, and what the rows *)
(* of a parsed table say of the ports the device listed.                   *)
(***************************************************************************)
EXTENDS Collection, SequenceTheorems, WellFoundedInduction, TLAPS

SessionOpen == {"reading", "closing"}

\* the commands of the call still to be finished
Elements(s) == {s[i] : i \in 1..Len(s)}
Left == Elements(todo)

\* Where the session is open; nothing is known before it was opened.
SessionInv ==
    /\ pc \in {"idle", "called", "opening", "refused"} =>
          /\ session = "none" /\ failed = {} /\ prompted = {} /\ exc = None
          /\ text = <<>> /\ screen = <<>> /\ rows = {}
    /\ pc \in {"called", "opening"} => todo = CommandsOf[function]
    /\ session = "open" <=> pc \in SessionOpen
    /\ session = "closed" => pc \in {"returned", "done", "raised"}
    /\ pc \in {"returned", "done"} => session = "closed"

\* Every command is left, failed or prompted for, and only one of the three.
CommandInv ==
    session # "none" =>
        /\ \A i, k \in 1..Len(todo) : todo[i] = todo[k] => i = k
        /\ pc = "reading" <=> todo # <<>>
        /\ function = "collect" =>
              /\ Left = Key \ (failed \cup prompted)
              /\ failed \cap prompted = {}
              /\ \A k \in prompted : k \in Key /\ outputs[k] # None
        /\ (function # "collect" /\ todo # <<>>) => Left = {function}

\* An exception on its way out of the with block is the command's own.
ErrorInv ==
    /\ closeFailed => pc = "raised"
    /\ (session # "none" /\ ~closeFailed /\ exc # None) =>
          function # "collect" /\ exc = CommandError[function]
    /\ pc = "raised" => exc # None
    /\ rows # {} => pc = "done"

IInv == TypeOK /\ SessionInv /\ CommandInv /\ ErrorInv /\ NoPartialTable

----------------------------------------------------------------------------
(* Lemmas *)

\* What is left of a sequence without repetitions when its head is taken.
LEMMA TailOf ==
    ASSUME NEW S, NEW s \in Seq(S), s # <<>>,
           \A i, k \in 1..Len(s) : s[i] = s[k] => i = k
    PROVE  /\ Tail(s) \in Seq(S)
           /\ Head(s) \in S
           /\ Len(s) = 1 <=> Tail(s) = <<>>
           /\ \A i, k \in 1..Len(Tail(s)) : Tail(s)[i] = Tail(s)[k] => i = k
           /\ Elements(Tail(s)) = Elements(s) \ {Head(s)}
           /\ Head(s) \in Elements(s)
<1>1. /\ Tail(s) \in Seq(S) /\ Head(s) \in S /\ Head(s) = s[1]
      /\ Len(s) \in Nat \ {0} /\ Len(Tail(s)) = Len(s) - 1
      /\ \A i \in 1..Len(Tail(s)) : Tail(s)[i] = s[i + 1]
  <2>1. Len(s) \in Nat \ {0}
    BY EmptySeq
  <2>2. Head(s) = s[1]
    OBVIOUS
  <2> QED
    BY <2>1, <2>2, HeadTailProperties
<1>2. Len(s) = 1 <=> Tail(s) = <<>>
  <2>1. Tail(s) # <<>> => Len(Tail(s)) \in Nat \ {0}
    BY <1>1, EmptySeq
  <2>2. Tail(s) = <<>> => Len(Tail(s)) = 0
    BY EmptySeq
  <2> QED
    BY <1>1, <2>1, <2>2
<1>3. \A i, k \in 1..Len(Tail(s)) : Tail(s)[i] = Tail(s)[k] => i = k
  BY <1>1
<1>4. ASSUME NEW i \in 1..Len(s), s[i] # Head(s)
      PROVE  \E k \in 1..Len(Tail(s)) : Tail(s)[k] = s[i]
  <2>1. i - 1 \in 1..Len(Tail(s)) /\ (i - 1) + 1 = i
    BY <1>1, <1>4
  <2> QED
    BY <1>1, <2>1
<1>5. ASSUME NEW i \in 1..Len(Tail(s))
      PROVE  /\ \E k \in 1..Len(s) : Tail(s)[i] = s[k]
             /\ Tail(s)[i] # Head(s)
  BY <1>1
<1>6. Elements(Tail(s)) = Elements(s) \ {Head(s)}
  <2>1. ASSUME NEW x \in Elements(Tail(s))
        PROVE  x \in Elements(s) \ {Head(s)}
    BY <1>5, <2>1 DEF Elements
  <2>2. ASSUME NEW x \in Elements(s), x # Head(s)
        PROVE  x \in Elements(Tail(s))
    BY <1>4, <2>2 DEF Elements
  <2> QED
    BY <2>1, <2>2
<1>7. Head(s) \in Elements(s)
  BY <1>1 DEF Elements
<1> QED
  BY <1>1, <1>2, <1>3, <1>6, <1>7

\* The commands of a function are all different, and a collection's are Key.
LEMMA CommandsAreDistinct ==
    ASSUME NEW f \in Function
    PROVE  /\ CommandsOf[f] \in Seq(Key \cup Function)
           /\ CommandsOf[f] # <<>>
           /\ \A i, k \in 1..Len(CommandsOf[f]) : CommandsOf[f][i] = CommandsOf[f][k] => i = k
           /\ Elements(CommandsOf[f]) = IF f = "collect" THEN Key ELSE {f}
<1>1. CASE f = "collect"
  BY <1>1 DEF CommandsOf, Function, Key, Elements
<1>2. CASE f # "collect"
  BY <1>2 DEF CommandsOf, Function, Key, Elements
<1> QED
  BY <1>1, <1>2

\* The invariant holds initially.
LEMMA InitEstablishes == Init => IInv
<1> SUFFICES ASSUME Init PROVE IInv
  OBVIOUS
<1>1. TypeOK
  BY EmptySeq DEF Init, TypeOK, Function, Vendor, Ended, Key, DomainErrors, None
<1>2. SessionInv /\ CommandInv /\ ErrorInv /\ NoPartialTable
  BY DEF Init, SessionInv, CommandInv, ErrorInv, NoPartialTable, SessionOpen, None
<1> QED
  BY <1>1, <1>2 DEF IInv

\* Leaving a command behind, by its prompt or its failure.
LEMMA CommandLeft ==
    ASSUME IInv, pc = "reading", NextCommand
    PROVE  /\ todo' \in Seq(Key \cup Function)
           /\ Head(todo) \in Left /\ Left' = Left \ {Head(todo)}
           /\ \A i, k \in 1..Len(todo') : todo'[i] = todo'[k] => i = k
           /\ pc' \in SessionOpen
           /\ pc' = "reading" <=> todo' # <<>>
           /\ todo' = <<>> \/ function = "collect"
           /\ screen' = <<>>
           /\ session = "open" /\ Head(todo) \in Key \cup Function
<1>1. /\ session = "open" /\ todo # <<>> /\ todo \in Seq(Key \cup Function)
      /\ \A i, k \in 1..Len(todo) : todo[i] = todo[k] => i = k
  BY DEF IInv, TypeOK, SessionInv, CommandInv, SessionOpen
<1>2. /\ Tail(todo) \in Seq(Key \cup Function)
      /\ Head(todo) \in Key \cup Function
      /\ Len(todo) = 1 <=> Tail(todo) = <<>>
      /\ \A i, k \in 1..Len(Tail(todo)) : Tail(todo)[i] = Tail(todo)[k] => i = k
      /\ Elements(Tail(todo)) = Left \ {Head(todo)}
      /\ Head(todo) \in Left
  BY <1>1, TailOf DEF Left
<1>3. todo' = Tail(todo) /\ screen' = <<>>
      /\ pc' = IF Len(todo) = 1 THEN "closing" ELSE "reading"
  BY DEF NextCommand
<1>4. Left' = Left \ {Head(todo)}
  BY <1>2, <1>3 DEF Left
<1>5. ASSUME function # "collect"
      PROVE  todo' = <<>>
  <2>1. Left = {function}
    BY <1>1, <1>5 DEF IInv, CommandInv
  <2>2. Left' = {}
    BY <1>2, <1>4, <2>1
  <2>3. Len(todo') \notin Nat \ {0}
    <3>1. Len(todo') \in Nat \ {0} => todo'[1] \in Left'
      BY DEF Left, Elements
    <3> QED
      BY <2>2, <3>1
  <2> QED
    BY <1>2, <1>3, <2>3, EmptySeq
<1> QED
  BY <1>1, <1>2, <1>3, <1>4, <1>5 DEF SessionOpen

\* Before a session is open, and when nothing of the invariant's changes.
LEMMA OpeningPreserves ==
    ASSUME IInv, \/ \E f \in Function, v \in Vendor \cup {"juniper"} : Call(f, v)
                 \/ Probe \/ Open \/ Drop
    PROVE  IInv'
<1>1. CASE \E f \in Function, v \in Vendor \cup {"juniper"} : Call(f, v)
  <2>1. PICK f \in Function, v \in Vendor \cup {"juniper"} : Call(f, v)
    BY <1>1
  <2>2. TypeOK'
    BY <2>1, CommandsAreDistinct DEF IInv, TypeOK, Call, aux, parsedVars, Ended
  <2>3. SessionInv' /\ CommandInv' /\ ErrorInv' /\ NoPartialTable'
    BY <2>1 DEF IInv, SessionInv, CommandInv, ErrorInv, NoPartialTable, Call, aux,
                parsedVars, SessionOpen
  <2> QED
    BY <2>2, <2>3 DEF IInv
<1>2. CASE Probe
  <2>1. TypeOK'
    BY <1>2 DEF IInv, TypeOK, Probe, aux, parsedVars, Ended
  <2>2. SessionInv' /\ CommandInv' /\ ErrorInv' /\ NoPartialTable'
    BY <1>2 DEF IInv, SessionInv, CommandInv, ErrorInv, NoPartialTable, Probe, aux,
                parsedVars, SessionOpen
  <2> QED
    BY <2>1, <2>2 DEF IInv
<1>3. CASE Open
  <2>1. TypeOK'
    BY <1>3 DEF IInv, TypeOK, Open, aux, parsedVars, Ended, Leaving, DomainErrors
  <2>2. /\ pc = "opening" /\ session = "none" /\ exc = None /\ text = <<>> /\ rows = {}
        /\ failed = {} /\ prompted = {} /\ todo = CommandsOf[function]
        /\ UNCHANGED <<function, todo, screen, outputs, failed, text, aux, parsedVars>>
    BY <1>3 DEF IInv, SessionInv, Open
  <2>3. CASE pc' = "reading" /\ session' = "open" /\ exc' = exc
    <3>1. SessionInv' /\ ErrorInv' /\ NoPartialTable'
      BY <2>2, <2>3 DEF IInv, SessionInv, ErrorInv, NoPartialTable, aux, parsedVars,
                        SessionOpen
    <3>2. /\ todo' # <<>>
          /\ \A i, k \in 1..Len(todo') : todo'[i] = todo'[k] => i = k
          /\ Left' = IF function = "collect" THEN Key ELSE {function}
      BY <2>2, CommandsAreDistinct DEF IInv, TypeOK, Left
    <3>3. CommandInv'
      BY <2>2, <2>3, <3>2 DEF CommandInv, aux
    <3> QED
      BY <2>1, <3>1, <3>3 DEF IInv
  <2>4. CASE pc' = "raised" /\ session' = "none" /\ exc' # None
    <3>1. SessionInv' /\ CommandInv' /\ ErrorInv' /\ NoPartialTable'
      BY <2>2, <2>4 DEF IInv, SessionInv, CommandInv, ErrorInv, NoPartialTable, aux,
                        parsedVars, SessionOpen
    <3> QED
      BY <2>1, <3>1 DEF IInv
  <2> QED
    BY <1>3, <2>2, <2>3, <2>4 DEF Open, NetmikoError, Leaving, None, DomainErrors
<1>4. CASE Drop
  <2>1. TypeOK'
    BY <1>4 DEF IInv, TypeOK, Drop, aux, parsedVars
  <2>2. SessionInv' /\ CommandInv' /\ ErrorInv' /\ NoPartialTable'
    BY <1>4 DEF IInv, SessionInv, CommandInv, ErrorInv, NoPartialTable, Drop, aux,
                parsedVars, Left
  <2> QED
    BY <2>1, <2>2 DEF IInv
<1> QED
  BY <1>1, <1>2, <1>3, <1>4

\* What the device prints is a line of the type the parsers read.
LEMMA PrintingPreserves ==
    ASSUME IInv, \/ \E words \in Heading : PrintHeader(words)
                 \/ \E k \in Kind, b \in BOOLEAN : PrintField(k, b)
    PROVE  IInv'
<1> DEFINE LineType == [port : Nat, kind : {"header"} \cup Kind,
                        words : Heading \cup {NoWords}, blank : BOOLEAN]
<1>1. screen \in Seq(LineType) /\ (screen # <<>> => screen[Len(screen)] \in LineType)
  <2>1. screen \in Seq(LineType)
    BY DEF IInv, TypeOK
  <2> HIDE DEF LineType
  <2> QED
    BY <2>1, EmptySeq
<1>2. LastPort \in Nat /\ LastPort + 1 \in Nat
  BY <1>1 DEF LastPort
<1>3. PICK line \in LineType : Emit(line) /\ pc = "reading"
  <2>1. CASE \E words \in Heading : PrintHeader(words)
    <3>1. PICK words \in Heading : PrintHeader(words)
      BY <2>1
    <3>2. Line(LastPort + 1, "header", words, FALSE) \in LineType
      BY <1>2 DEF Line
    <3> QED
      BY <3>1, <3>2 DEF PrintHeader, Printing
  <2>2. CASE \E k \in Kind, b \in BOOLEAN : PrintField(k, b)
    <3>1. PICK k \in Kind, b \in BOOLEAN : PrintField(k, b)
      BY <2>2
    <3>2. Line(LastPort, k, NoWords, b) \in LineType
      BY <1>2 DEF Line
    <3> QED
      BY <3>1, <3>2 DEF PrintField, Printing
  <2> QED
    BY <2>1, <2>2
<1>4. screen' \in Seq(LineType)
  <2> HIDE DEF LineType
  <2> QED
    BY <1>1, <1>3, AppendProperties DEF Emit
<1>5. TypeOK'
  BY <1>3, <1>4 DEF IInv, TypeOK, Emit, aux, parsedVars
<1>6. SessionInv' /\ CommandInv' /\ ErrorInv' /\ NoPartialTable'
  BY <1>3 DEF IInv, SessionInv, CommandInv, ErrorInv, NoPartialTable, Emit, aux,
              parsedVars, Left
<1> QED
  BY <1>5, <1>6 DEF IInv

\* A command whose answer the device finished.
LEMMA PromptPreserves == ASSUME IInv, Prompt PROVE IInv'
<1> DEFINE command == Head(todo)
<1>1. /\ todo' \in Seq(Key \cup Function)
      /\ command \in Left /\ Left' = Left \ {command}
      /\ \A i, k \in 1..Len(todo') : todo'[i] = todo'[k] => i = k
      /\ pc' \in SessionOpen
      /\ pc' = "reading" <=> todo' # <<>>
      /\ todo' = <<>> \/ function = "collect"
      /\ screen' = <<>>
      /\ session = "open" /\ command \in Key \cup Function
      /\ pc = "reading" /\ todo # <<>>
  BY CommandLeft DEF Prompt, IInv, CommandInv
<1>2. /\ prompted' = prompted \cup {command}
      /\ UNCHANGED <<function, vendor, session, alive, failed, exc, closeFailed, rows, metrics>>
  BY DEF Prompt, parsedVars
<1>3. \/ /\ function = "collect" /\ text' = text
         /\ \E answer \in {"", "invalid input", "value", "zero total"} :
               outputs' = [outputs EXCEPT ![command] = answer]
      \/ function = "running_config" /\ UNCHANGED <<outputs, text>>
      \/ function = "interfaces" /\ text' = screen /\ outputs' = outputs
  BY DEF Prompt
<1>4. /\ function = "collect" => command \in Key \ (failed \cup prompted)
      /\ function # "collect" => command = function
  BY <1>1 DEF IInv, CommandInv
<1> HIDE DEF command
<1>5. rows = {} /\ session # "none" /\ session # "closed"
  BY <1>1 DEF IInv, ErrorInv
<1>6. TypeOK'
  <2>1. text' \in Seq([port : Nat, kind : {"header"} \cup Kind,
                       words : Heading \cup {NoWords}, blank : BOOLEAN])
    BY <1>3 DEF IInv, TypeOK
  <2>2. outputs' \in [Key -> {None, "", "invalid input", "value", "zero total"}]
    BY <1>3, <1>4 DEF IInv, TypeOK
  <2>3. screen' \in Seq([port : Nat, kind : {"header"} \cup Kind,
                         words : Heading \cup {NoWords}, blank : BOOLEAN])
    BY <1>1, EmptySeq
  <2>4. prompted' \subseteq Key \cup Function
    BY <1>1, <1>2 DEF IInv, TypeOK
  <2> QED
    BY <1>1, <1>2, <1>5, <2>1, <2>2, <2>3, <2>4 DEF IInv, TypeOK, SessionOpen
<1>7. SessionInv'
  BY <1>1, <1>2, <1>5 DEF IInv, SessionInv, SessionOpen
<1>8. CommandInv'
  <2>1. function = "collect" => \A k \in prompted' : k \in Key /\ outputs'[k] # None
    BY <1>2, <1>3, <1>4, <1>5 DEF IInv, CommandInv, TypeOK, None
  <2>2. function = "collect" => /\ Left' = Key \ (failed' \cup prompted')
                                /\ failed' \cap prompted' = {}
    BY <1>1, <1>2, <1>4, <1>5 DEF IInv, CommandInv
  <2>3. pc' = "reading" <=> todo' # <<>>
    BY <1>1
  <2> QED
    BY <1>1, <1>2, <1>5, <2>1, <2>2, <2>3 DEF CommandInv
<1>9. ErrorInv'
  BY <1>1, <1>2, <1>5 DEF IInv, ErrorInv, SessionOpen
<1>10. NoPartialTable'
  BY <1>2, <1>3, <1>4 DEF IInv, NoPartialTable
<1> QED
  BY <1>6, <1>7, <1>8, <1>9, <1>10 DEF IInv

\* A command that failed.
LEMMA ReadFailsPreserves == ASSUME IInv, ReadFails PROVE IInv'
<1> DEFINE command == Head(todo)
<1>1. /\ todo' \in Seq(Key \cup Function)
      /\ command \in Left /\ Left' = Left \ {command}
      /\ \A i, k \in 1..Len(todo') : todo'[i] = todo'[k] => i = k
      /\ pc' \in SessionOpen
      /\ pc' = "reading" <=> todo' # <<>>
      /\ todo' = <<>> \/ function = "collect"
      /\ screen' = <<>>
      /\ session = "open" /\ command \in Key \cup Function
      /\ pc = "reading" /\ todo # <<>>
  BY CommandLeft DEF ReadFails, IInv, CommandInv
<1>2. /\ UNCHANGED <<function, vendor, session, alive, outputs, text, rows, metrics,
                     prompted, closeFailed>>
      /\ function = "collect" => failed' = failed \cup {command} /\ exc' = exc
      /\ function # "collect" => exc' = CommandError[function] /\ failed' = failed
  BY DEF ReadFails, parsedVars, aux
<1>3. function = "collect" => command \in Key \ (failed \cup prompted)
  BY <1>1 DEF IInv, CommandInv
<1> HIDE DEF command
<1>4. rows = {} /\ session # "none" /\ session # "closed"
  BY <1>1 DEF IInv, ErrorInv
<1>5. function # "collect" => exc' \in DomainErrors
  BY <1>2 DEF IInv, TypeOK, CommandError, DomainErrors, Function
<1>6. TypeOK'
  <2>1. screen' \in Seq([port : Nat, kind : {"header"} \cup Kind,
                         words : Heading \cup {NoWords}, blank : BOOLEAN])
    BY <1>1, EmptySeq
  <2>2. failed' \subseteq Key /\ exc' \in {None} \cup DomainErrors
    BY <1>2, <1>3, <1>5 DEF IInv, TypeOK
  <2> QED
    BY <1>1, <1>2, <1>4, <2>1, <2>2 DEF IInv, TypeOK, SessionOpen
<1>7. SessionInv'
  BY <1>1, <1>2, <1>4 DEF IInv, SessionInv, SessionOpen
<1>8. CommandInv'
  <2>1. function = "collect" => /\ Left' = Key \ (failed' \cup prompted')
                                /\ failed' \cap prompted' = {}
    BY <1>1, <1>2, <1>3, <1>4 DEF IInv, CommandInv
  <2>2. pc' = "reading" <=> todo' # <<>>
    BY <1>1
  <2> QED
    BY <1>1, <1>2, <1>4, <2>1, <2>2 DEF IInv, CommandInv
<1>9. ErrorInv'
  BY <1>1, <1>2, <1>4 DEF IInv, ErrorInv, SessionOpen
<1>10. NoPartialTable'
  BY <1>2 DEF IInv, NoPartialTable
<1> QED
  BY <1>6, <1>7, <1>8, <1>9, <1>10 DEF IInv

\* The session is closed, and what was returned is parsed.
LEMMA ClosingPreserves == ASSUME IInv, Close \/ Parse PROVE IInv'
<1>1. CASE Close
  <2>1. /\ pc = "closing" /\ session = "open" /\ todo = <<>> /\ rows = {}
        /\ ~closeFailed
    BY <1>1 DEF Close, IInv, SessionInv, CommandInv, ErrorInv, SessionOpen, TypeOK
  <2>2. /\ session' = "closed" /\ alive' = FALSE
        /\ pc' = IF exc' = None THEN "returned" ELSE "raised"
        /\ UNCHANGED <<function, vendor, todo, screen, outputs, failed, text, prompted,
                       rows, metrics>>
    BY <1>1 DEF Close, Closed, parsedVars
  <2>3. /\ exc' \in {None} \cup DomainErrors
        /\ closeFailed' \in BOOLEAN
        /\ closeFailed' => exc' # None
        /\ ~closeFailed' => exc' = exc
    BY <1>1, <2>1 DEF Close, IInv, TypeOK, Leaving, DomainErrors, NetmikoError, None
  <2>4. TypeOK'
    BY <2>1, <2>2, <2>3 DEF IInv, TypeOK, Ended
  <2>5. SessionInv' /\ CommandInv' /\ ErrorInv' /\ NoPartialTable'
    BY <2>1, <2>2, <2>3
    DEF IInv, SessionInv, CommandInv, ErrorInv, NoPartialTable, SessionOpen, Left
  <2> QED
    BY <2>4, <2>5 DEF IInv
<1>2. CASE Parse
  <2>1. /\ pc = "returned" /\ pc' = "done" /\ session = "closed"
        /\ UNCHANGED <<function, vendor, session, alive, todo, screen, outputs, failed,
                       text, exc, prompted, closeFailed>>
        /\ rows' \in {{}, ParseInterfaces(text)}
    BY <1>2 DEF Parse, IInv, SessionInv, SessionOpen, aux
  <2>2. metrics' \in [Key -> {None, "value"}]
    BY <1>2 DEF Parse, ParseMetric
  <2>3. TypeOK'
    BY <2>1, <2>2 DEF IInv, TypeOK, Ended
  <2>4. SessionInv' /\ CommandInv' /\ ErrorInv' /\ NoPartialTable'
    BY <2>1
    DEF IInv, SessionInv, CommandInv, ErrorInv, NoPartialTable, SessionOpen, Left
  <2> QED
    BY <2>3, <2>4 DEF IInv
<1> QED
  BY <1>1, <1>2

\* The invariant is inductive.
LEMMA NextPreserves == IInv /\ [Next]_collectionVars => IInv'
<1> SUFFICES ASSUME IInv, [Next]_collectionVars PROVE IInv'
  OBVIOUS
<1>1. CASE UNCHANGED collectionVars
  <2>1. TypeOK'
    BY <1>1 DEF collectionVars, IInv, TypeOK
  <2>2. SessionInv' /\ CommandInv' /\ ErrorInv' /\ NoPartialTable'
    BY <1>1 DEF collectionVars, IInv, SessionInv, CommandInv, ErrorInv,
                NoPartialTable, Left
  <2> QED
    BY <2>1, <2>2 DEF IInv
<1> QED
  BY <1>1, OpeningPreserves, PrintingPreserves, PromptPreserves, ReadFailsPreserves,
     ClosingPreserves DEF Next

\* The inductive invariant holds in every reachable state.
THEOREM Invariance == Spec => []IInv
BY InitEstablishes, NextPreserves, PTL DEF Spec

----------------------------------------------------------------------------
(* What is printed and how it is parsed: an invariant on top of the first *)

\* the two ways of printing a speed
Speeds == {"speed", "alt speed"}

PrintedLine == [port : Nat, kind : {"header"} \cup Kind,
                words : Heading \cup {NoWords}, blank : BOOLEAN]

\* Ports are printed one after the other: a header, then the port's description,
\* then its speed; only a description may be blank.
Ordered(lines) ==
    \A i \in 1..Len(lines) :
        /\ \A k \in 1..i : lines[k].port <= lines[i].port
        /\ lines[i].kind = "header" => \A k \in 1..i - 1 : lines[k].port < lines[i].port
        /\ lines[i].kind # "header" =>
              /\ i > 1
              /\ lines[i - 1].port = lines[i].port
              /\ lines[i - 1].kind \in {"header", "description"}
        /\ lines[i].kind = "description" => lines[i - 1].kind = "header"
        /\ lines[i].kind \in Speeds => ~lines[i].blank

\* e is where the block of the header at i ends.
EndsBlock(lines, i, e) ==
    /\ \A j \in i + 1..e : j \notin Headers(lines)
    /\ e = Len(lines) \/ e + 1 \in Headers(lines)

\* Every block ends, so that the parsers' search for the end is never in vain.
BlocksEnd(lines) ==
    \A i \in Headers(lines) : \E e \in i..Len(lines) : EndsBlock(lines, i, e)

TextInv ==
    /\ Ordered(screen) /\ BlocksEnd(screen)
    /\ Ordered(text) /\ BlocksEnd(text)
    /\ function # "interfaces" => text = <<>>
    /\ pc = "done" => rows = ParseInterfaces(text)

\* The headers of a text, by their index.
LEMMA HeadersOf ==
    ASSUME NEW lines \in Seq(PrintedLine)
    PROVE  /\ Len(lines) \in Nat
           /\ \A i : i \in Headers(lines) <=>
                        i \in 1..Len(lines) /\ Recognised(lines[i])
           /\ \A i \in 1..Len(lines) : lines[i] \in PrintedLine
<1> HIDE DEF PrintedLine
<1>1. Len(lines) \in Nat /\ DOMAIN lines = 1..Len(lines)
  BY LenProperties
<1>2. \A i \in 1..Len(lines) : lines[i] \in PrintedLine
  BY LenProperties
<1> QED
  BY <1>1, <1>2 DEF Headers

\* A header of the next port, or a field of this one, keeps the order and leaves
\* every block an end.
LEMMA AppendKeepsOrder ==
    ASSUME NEW lines \in Seq(PrintedLine), NEW line \in PrintedLine,
           Ordered(lines), BlocksEnd(lines),
           \/ /\ line.kind = "header"
              /\ line.port = 1 + (IF lines = <<>> THEN 0 ELSE lines[Len(lines)].port)
           \/ /\ line.kind \in Kind /\ lines # <<>>
              /\ line.port = lines[Len(lines)].port
              /\ line.kind \in Speeds => ~line.blank
              /\ \/ lines[Len(lines)].kind = "header"
                 \/ lines[Len(lines)].kind = "description" /\ line.kind \in Speeds
    PROVE  /\ Append(lines, line) \in Seq(PrintedLine)
           /\ Ordered(Append(lines, line)) /\ BlocksEnd(Append(lines, line))
<1> DEFINE n == Len(lines)
           new == Append(lines, line)
<1>1. /\ new \in Seq(PrintedLine)
      /\ Len(new) = n + 1 /\ new[n + 1] = line
      /\ \A i \in 1..n : new[i] = lines[i]
  <2> HIDE DEF PrintedLine
  <2> QED
    BY AppendProperties
<1>2. /\ n \in Nat /\ (lines # <<>> => n > 0)
      /\ \A i \in 1..n : lines[i] \in PrintedLine
  <2> HIDE DEF PrintedLine
  <2> QED
    BY HeadersOf, EmptySeq
<1>3. \A i : i \in Headers(new) <=>
               i \in Headers(lines) \/ (i = n + 1 /\ Recognised(line))
  <2>1. \A i : i \in Headers(new) <=> i \in 1..n + 1 /\ Recognised(new[i])
    BY <1>1, HeadersOf
  <2>2. \A i : i \in Headers(lines) <=> i \in 1..n /\ Recognised(lines[i])
    BY HeadersOf
  <2> HIDE DEF new
  <2> QED
    BY <1>1, <1>2, <2>1, <2>2
<1> HIDE DEF new
<1>4. \A k \in 1..n : lines[k].port \in Nat /\ lines[k].port <= lines[n].port
  BY <1>2 DEF Ordered, PrintedLine
<1>5. Ordered(new)
  <2>1. ASSUME NEW i \in 1..n
        PROVE  /\ \A k \in 1..i : new[k].port <= new[i].port
               /\ new[i].kind = "header" => \A k \in 1..i - 1 : new[k].port < new[i].port
               /\ new[i].kind # "header" =>
                     /\ i > 1
                     /\ new[i - 1].port = new[i].port
                     /\ new[i - 1].kind \in {"header", "description"}
               /\ new[i].kind = "description" => new[i - 1].kind = "header"
               /\ new[i].kind \in Speeds => ~new[i].blank
    <3>1. i - 1 \in 1..n \/ i = 1
      BY <1>2
    <3>2. \A k \in 1..i : k \in 1..n
      BY <1>2
    <3>3. \A k \in 1..i : new[k] = lines[k]
      BY <1>1, <3>2
    <3>4. i > 1 => new[i - 1] = lines[i - 1]
      BY <1>1, <3>1
    <3>5. lines[i].kind = "description" => i > 1
      BY DEF Ordered
    <3>6. new[i] = lines[i] /\ (lines[i].kind \in Speeds => ~lines[i].blank)
      BY <1>1 DEF Ordered
    <3> QED
      BY <1>2, <3>3, <3>4, <3>5, <3>6 DEF Ordered
  <2>2. /\ \A k \in 1..n + 1 : new[k].port <= line.port
        /\ line.kind = "header" => \A k \in 1..n : new[k].port < line.port
        /\ line.kind # "header" =>
              /\ n > 0 /\ new[n].port = line.port
              /\ new[n].kind \in {"header", "description"}
        /\ line.kind = "description" => new[n].kind = "header"
        /\ line.kind \in Speeds => ~line.blank
    <3>1. line.port \in Nat /\ line.kind \in {"header"} \cup Kind
      BY DEF PrintedLine
    <3>2. \A k \in 1..n : new[k].port \in Nat /\ new[k].port <= lines[n].port
      BY <1>1, <1>4
    <3>3. \A k \in 1..n : lines # <<>>
      BY <1>2, EmptySeq
    <3>4. line.kind = "header" => \A k \in 1..n : new[k].port < line.port
      BY <1>2, <1>4, <3>1, <3>2, <3>3 DEF Kind, Field, Speeds
    <3>5. line.kind # "header" => n > 0 /\ new[n] = lines[n] /\ line.port = lines[n].port
      BY <1>1, <1>2
    <3>6. \A k \in 1..n + 1 : k \in 1..n \/ k = n + 1
      BY <1>2
    <3>7. \A k \in 1..n + 1 : new[k].port <= line.port
      BY <1>1, <1>2, <3>1, <3>2, <3>4, <3>5, <3>6
    <3> QED
      BY <3>1, <3>4, <3>5, <3>7 DEF Kind, Field, Speeds
  <2>3. \A i \in 1..n + 1 : i \in 1..n \/ (i = n + 1 /\ i - 1 = n)
    BY <1>2
  <2> QED
    BY <1>1, <1>2, <2>1, <2>2, <2>3 DEF Ordered
<1>6. BlocksEnd(new)
  <2>1. ASSUME NEW i \in Headers(new)
        PROVE  \E e \in i..n + 1 : EndsBlock(new, i, e)
    <3>1. CASE i = n + 1
      BY <1>1, <1>2, <3>1 DEF EndsBlock
    <3>2. CASE i \in Headers(lines)
      <4>1. PICK e \in i..n : EndsBlock(lines, i, e)
        BY <3>2 DEF BlocksEnd
      <4>2. i \in 1..n
        BY <3>2, HeadersOf
      <4>3. \A j \in i + 1..e : j \notin Headers(new)
        BY <1>2, <1>3, <4>1, <4>2 DEF EndsBlock
      <4>4. CASE e + 1 \in Headers(new)
        BY <1>2, <4>1, <4>2, <4>3, <4>4 DEF EndsBlock
      <4>5. CASE e + 1 \notin Headers(new)
        <5>1. e = n
          BY <1>3, <4>1, <4>5 DEF EndsBlock
        <5>2. \A j \in i + 1..n + 1 : j \in i + 1..e \/ j = e + 1
          BY <1>2, <4>2, <5>1
        <5> QED
          BY <1>1, <1>2, <4>2, <4>3, <4>5, <5>1, <5>2 DEF EndsBlock
      <4> QED
        BY <4>4, <4>5
    <3> QED
      BY <1>3, <3>1, <3>2
  <2> QED
    BY <1>1, <2>1 DEF BlocksEnd
<1> QED
  BY <1>1, <1>5, <1>6 DEF new

\* The parsers' search for the end of a block finds it.
LEMMA BlockIsFound ==
    ASSUME NEW lines, BlocksEnd(lines), NEW h \in Headers(lines)
    PROVE  /\ BlockEnd(lines, h) \in h..Len(lines)
           /\ EndsBlock(lines, h, BlockEnd(lines, h))
BY DEF BlocksEnd, BlockEnd, EndsBlock

\* A port has one header, and its fields follow it at once.
LEMMA FieldsFollowHeader ==
    ASSUME NEW lines \in Seq(PrintedLine), Ordered(lines),
           NEW h \in 1..Len(lines), lines[h].kind = "header",
           NEW i \in 1..Len(lines), lines[i].port = lines[h].port
    PROVE  /\ lines[i].kind = "header" => i = h
           /\ lines[i].kind = "description" => i = h + 1
           /\ lines[i].kind \in Speeds =>
                 i = h + 1 \/ (i = h + 2 /\ lines[h + 1].kind = "description")
<1>1. Len(lines) \in Nat /\ \A k \in 1..Len(lines) : lines[k].port \in Nat
  BY HeadersOf DEF PrintedLine
<1>2. ASSUME NEW k \in 1..Len(lines), lines[k].kind = "header", lines[k].port = lines[h].port
      PROVE  k = h
  <2>1. k < h => lines[k].port < lines[h].port
    BY <1>1 DEF Ordered
  <2>2. h < k => lines[h].port < lines[k].port
    BY <1>1, <1>2 DEF Ordered
  <2> QED
    BY <1>1, <1>2, <2>1, <2>2
<1>3. ASSUME NEW k \in 1..Len(lines), lines[k].kind = "description",
             lines[k].port = lines[h].port
      PROVE  k = h + 1
  <2>1. /\ k > 1 /\ lines[k - 1].port = lines[h].port /\ lines[k - 1].kind = "header"
    BY <1>3 DEF Ordered
  <2>2. k - 1 \in 1..Len(lines)
    BY <1>1, <2>1
  <2> QED
    BY <1>1, <1>2, <2>1, <2>2
<1>4. ASSUME lines[i].kind \in Speeds
      PROVE  i = h + 1 \/ (i = h + 2 /\ lines[h + 1].kind = "description")
  <2>1. /\ i > 1 /\ lines[i - 1].port = lines[h].port
        /\ lines[i - 1].kind \in {"header", "description"}
    BY <1>4 DEF Ordered, Speeds
  <2>2. i - 1 \in 1..Len(lines)
    BY <1>1, <2>1
  <2>3. CASE lines[i - 1].kind = "header"
    BY <1>1, <1>2, <2>1, <2>2, <2>3
  <2>4. CASE lines[i - 1].kind = "description"
    <3>1. i - 1 = h + 1
      BY <1>3, <2>1, <2>2, <2>4
    <3> QED
      BY <1>1, <2>4, <3>1
  <2> QED
    BY <2>1, <2>3, <2>4
<1> QED
  BY <1>2, <1>3, <1>4

\* Where a port prints a field of itself, that is the first match of the pattern.
LEMMA OwnLineIsFirst ==
    ASSUME NEW lines \in Seq(PrintedLine), Ordered(lines), BlocksEnd(lines),
           NEW h \in Headers(lines), NEW kind \in Kind, NEW i \in 1..Len(lines),
           lines[i].port = lines[h].port, lines[i].kind = kind, ~lines[i].blank
    PROVE  /\ i \in Matches(lines, h, kind) /\ TextAt(lines, i) = i
           /\ FirstMatch(Matches(lines, h, kind)) = i
<1> DEFINE end == BlockEnd(lines, h)
           matches == Matches(lines, h, kind)
<1>0. kind # "header" /\ (kind \in Speeds <=> kind # "description")
  BY DEF Kind, Field, Speeds
<1>1. /\ Len(lines) \in Nat /\ h \in 1..Len(lines) /\ lines[h].kind = "header"
      /\ end \in h..Len(lines) /\ EndsBlock(lines, h, end)
  BY HeadersOf, BlockIsFound DEF Recognised
<1>2. /\ kind = "description" => i = h + 1
      /\ kind \in Speeds => i = h + 1 \/ (i = h + 2 /\ lines[h + 1].kind = "description")
  BY <1>1, FieldsFollowHeader
<1>3. \A j \in h + 1..i : lines[j].kind \in {"description", kind}
  BY <1>0, <1>1, <1>2
<1>4. \A j \in h + 1..i : j \notin Headers(lines)
  BY <1>0, <1>3 DEF Headers, Recognised
<1>5. matches = {j \in h..end : lines[j].kind = kind /\ TextAt(lines, j) <= end}
  BY DEF Matches
<1> HIDE DEF end, matches
<1>6. i \in h..end
  <2>1. end + 1 \in Headers(lines) \/ end = Len(lines)
    BY <1>1 DEF EndsBlock
  <2>2. end < i => end + 1 \in h + 1..i /\ end # Len(lines)
    BY <1>1
  <2>3. i > h
    BY <1>0, <1>1, <1>2
  <2> QED
    BY <1>1, <1>4, <2>1, <2>2, <2>3
<1>7. i \in matches
  BY <1>1, <1>5, <1>6 DEF TextAt
<1>8. ASSUME NEW j \in matches PROVE i <= j
  <2>1. j \in h..end /\ lines[j].kind = kind
    BY <1>5
  <2>2. j # h
    BY <1>0, <1>1, <2>1
  <2>3. j < i => j = h + 1 /\ i = h + 2
    BY <1>0, <1>1, <1>2, <2>1, <2>2
  <2>4. i = h + 2 => lines[h + 1].kind # kind
    BY <1>0, <1>1, <1>2
  <2> QED
    BY <1>1, <2>1, <2>3, <2>4
<1>9. \A j \in matches : (\A k \in matches : j <= k) <=> j = i
  <2>1. \A j \in matches : j \in Int
    BY <1>1, <1>5
  <2> QED
    BY <1>7, <1>8, <2>1
<1> QED
  BY <1>7, <1>9 DEF FirstMatch, TextAt, matches

\* A set of line numbers has a least one.
LEMMA LeastExists ==
    ASSUME NEW S, S \subseteq Nat, S # {}
    PROVE  \E i \in S : \A j \in S : i <= j
<1> DEFINE R == OpToRel(<, Nat)
<1>1. IsWellFoundedOn(R, Nat)
  BY NatLessThanWellFounded
<1>2. \A i, j \in Nat : <<i, j>> \in R <=> i < j
  BY DEF OpToRel
<1> HIDE DEF R
<1>3. PICK i \in S : \A j \in S : ~(<<j, i>> \in R)
  BY <1>1, WFMin
<1>4. ASSUME NEW j \in S
      PROVE  i <= j
  <2>1. i \in Nat /\ j \in Nat
    OBVIOUS
  <2>2. j < i => <<j, i>> \in R
    BY <1>2, <2>1
  <2> QED
    BY <1>3, <2>1, <2>2
<1> QED
  BY <1>4

\* A speed in a block that is not its port's is one of a port whose header
\* nobody recognised.
LEMMA ForeignSpeeds ==
    ASSUME NEW lines \in Seq(PrintedLine), Ordered(lines), BlocksEnd(lines),
           NEW h \in Headers(lines), NEW j \in h..BlockEnd(lines, h),
           lines[j].kind \in Speeds, lines[j].port # lines[h].port
    PROVE  \A k \in Headers(lines) : lines[k].port # lines[j].port
<1> SUFFICES ASSUME NEW k \in Headers(lines), lines[k].port = lines[j].port
             PROVE  FALSE
  OBVIOUS
<1>1. /\ Len(lines) \in Nat /\ h \in 1..Len(lines) /\ lines[h].kind = "header"
      /\ BlockEnd(lines, h) \in h..Len(lines) /\ EndsBlock(lines, h, BlockEnd(lines, h))
      /\ k \in 1..Len(lines) /\ lines[k].kind = "header" /\ j \in 1..Len(lines)
  BY HeadersOf, BlockIsFound DEF Recognised
<1>2. j = k + 1 \/ (j = k + 2 /\ lines[k + 1].kind = "description")
  BY <1>1, FieldsFollowHeader
<1>3. k # h /\ j # h
  BY <1>1 DEF Speeds
<1>4. ~(k < h)
  BY <1>1, <1>2, <1>3
<1>5. k \in h + 1..BlockEnd(lines, h)
  BY <1>1, <1>2, <1>3, <1>4
<1> QED
  BY <1>1, <1>5 DEF EndsBlock

\* Where a port prints a field of itself, that is where the field is read,
\* unless it prints its speed in the second style and a port whose header
\* nobody recognised prints one in the first.
LEMMA OwnLineIsRead ==
    ASSUME NEW lines \in Seq(PrintedLine), Ordered(lines), BlocksEnd(lines),
           NEW h \in Headers(lines), NEW f \in Field, NEW i \in 1..Len(lines),
           lines[i].port = lines[h].port, lines[i].kind \in Kind,
           FieldOf(lines[i].kind) = f, ~lines[i].blank
    PROVE  \/ FieldLine(lines, h, f) = i
           \/ /\ lines[i].kind # f
              /\ \E j \in 1..Len(lines) :
                    /\ FieldLine(lines, h, f) = j /\ lines[j].kind = f
                    /\ \A k \in Headers(lines) : lines[k].port # lines[j].port
<1>1. CASE lines[i].kind = f
  <2>1. i \in Matches(lines, h, f) /\ TextAt(lines, i) = i
        /\ FirstMatch(Matches(lines, h, f)) = i
    BY <1>1, OwnLineIsFirst
  <2> QED
    BY <2>1 DEF FieldLine
<1>2. CASE lines[i].kind # f
  <2> DEFINE first == Matches(lines, h, "speed")
  <2>1. lines[i].kind = "alt speed" /\ f = "speed"
    BY <1>2 DEF FieldOf
  <2>2. /\ i \in Matches(lines, h, "alt speed") /\ TextAt(lines, i) = i
        /\ FirstMatch(Matches(lines, h, "alt speed")) = i
    BY <2>1, OwnLineIsFirst DEF Kind
  <2>3. CASE first = {}
    <3>1. FieldLine(lines, h, f) = i
      BY <2>1, <2>2, <2>3 DEF FieldLine
    <3> QED
      BY <3>1
  <2>4. CASE first # {}
    <3>1. /\ Len(lines) \in Nat /\ h \in 1..Len(lines) /\ lines[h].kind = "header"
          /\ BlockEnd(lines, h) \in h..Len(lines)
      BY HeadersOf, BlockIsFound DEF Recognised
    <3>2. /\ first \subseteq h..BlockEnd(lines, h)
          /\ \A j \in first : lines[j].kind = "speed"
      BY DEF Matches
    <3> HIDE DEF first
    <3>3. FirstMatch(first) \in first
      <4>1. first \subseteq Nat
        BY <3>1, <3>2
      <4>2. \E j \in first : \A k \in first : j <= k
        BY <2>4, <4>1, LeastExists
      <4> QED
        BY <4>2 DEF FirstMatch
    <3>4. PICK j \in first : j = FirstMatch(first)
      BY <3>3
    <3>5. j \in h..BlockEnd(lines, h) /\ j \in 1..Len(lines) /\ lines[j].kind = "speed"
      BY <3>1, <3>2
    <3>6. TextAt(lines, j) = j
      BY <3>5 DEF TextAt, Ordered, Speeds
    <3>7. FieldLine(lines, h, f) = j
      BY <2>1, <2>4, <3>4, <3>6 DEF FieldLine, first
    <3>8. lines[j].port # lines[h].port
      <4> SUFFICES ASSUME lines[j].port = lines[h].port PROVE FALSE
        OBVIOUS
      <4>1. j = h + 1 \/ (j = h + 2 /\ lines[h + 1].kind = "description")
        BY <3>1, <3>5, FieldsFollowHeader DEF Speeds
      <4>2. i = h + 1 \/ (i = h + 2 /\ lines[h + 1].kind = "description")
        BY <2>1, <3>1, FieldsFollowHeader DEF Speeds
      <4> QED
        BY <2>1, <3>1, <3>5, <4>1, <4>2
    <3>9. \A k \in Headers(lines) : lines[k].port # lines[j].port
      BY <3>5, <3>8, ForeignSpeeds DEF Speeds
    <3> QED
      BY <1>2, <2>1, <3>5, <3>7, <3>9
  <2> QED
    BY <2>3, <2>4
<1> QED
  BY <1>1, <1>2

\* When all headers are recognised and nothing is blank, a field is read from a
\* line of the port, or not at all.
LEMMA OnlyOwnLinesAreRead ==
    ASSUME NEW lines \in Seq(PrintedLine), Ordered(lines), BlocksEnd(lines),
           NEW h \in Headers(lines), NEW f \in Field,
           \A i \in 1..Len(lines) :
              ~lines[i].blank /\ (lines[i].kind = "header" => Recognised(lines[i]))
    PROVE  \/ FieldLine(lines, h, f) = 0
           \/ \E i \in 1..Len(lines) :
                 /\ lines[i].port = lines[h].port /\ FieldOf(lines[i].kind) = f
                 /\ FieldLine(lines, h, f) = i
<1> DEFINE end == BlockEnd(lines, h)
<1>1. /\ Len(lines) \in Nat /\ h \in 1..Len(lines) /\ lines[h].kind = "header"
      /\ end \in h..Len(lines) /\ EndsBlock(lines, h, end)
  BY HeadersOf, BlockIsFound DEF Recognised
<1> HIDE DEF end
<1>2. ASSUME NEW k \in h..end, lines[k].kind = "header" PROVE k = h
  <2>1. k \in Headers(lines)
    BY <1>1, <1>2, HeadersOf
  <2> QED
    BY <1>1, <1>2, <2>1 DEF EndsBlock
<1>3. ASSUME NEW kind \in Kind, NEW j \in Matches(lines, h, kind)
      PROVE  /\ j \in 1..Len(lines) /\ lines[j].kind = kind
             /\ lines[j].port = lines[h].port
  <2>1. /\ j \in h..end /\ lines[j].kind = kind /\ j \in 1..Len(lines)
        /\ j # h /\ j - 1 \in h..end
    <3>1. j \in h..end /\ lines[j].kind = kind
      BY DEF Matches, end
    <3>2. kind # "header"
      BY DEF Kind, Field
    <3> QED
      BY <1>1, <3>1, <3>2
  <2>2. /\ lines[j - 1].port = lines[j].port
        /\ lines[j - 1].kind \in {"header", "description"}
        /\ kind = "description" => lines[j - 1].kind = "header"
    BY <2>1 DEF Ordered, Kind, Field
  <2>3. CASE lines[j - 1].kind = "header"
    BY <1>2, <2>1, <2>2, <2>3
  <2>4. CASE lines[j - 1].kind = "description"
    <3>1. j - 1 # h /\ j - 2 \in h..end /\ j - 1 \in 1..Len(lines)
      BY <1>1, <2>1, <2>4
    <3>2. /\ lines[(j - 1) - 1].port = lines[j - 1].port
          /\ lines[(j - 1) - 1].kind = "header"
      BY <2>4, <3>1 DEF Ordered
    <3>3. (j - 1) - 1 = j - 2
      BY <1>1, <2>1
    <3> QED
      BY <1>2, <2>1, <2>2, <3>1, <3>2, <3>3
  <2> QED
    BY <2>1, <2>2, <2>3, <2>4
<1>4. ASSUME NEW kind \in Kind, Matches(lines, h, kind) # {}
      PROVE  \E i \in 1..Len(lines) :
                /\ lines[i].port = lines[h].port /\ lines[i].kind = kind
                /\ TextAt(lines, FirstMatch(Matches(lines, h, kind))) = i
  <2>1. PICK j \in Matches(lines, h, kind) : TRUE
    BY <1>4
  <2>2. j \in 1..Len(lines) /\ lines[j].kind = kind /\ lines[j].port = lines[h].port
    BY <1>3, <2>1
  <2>3. TextAt(lines, FirstMatch(Matches(lines, h, kind))) = j
    BY <2>2, OwnLineIsFirst
  <2> QED
    BY <2>2, <2>3
<1>5. CASE Matches(lines, h, f) # {}
  <2>1. FieldLine(lines, h, f) = TextAt(lines, FirstMatch(Matches(lines, h, f)))
    BY <1>5 DEF FieldLine
  <2> QED
    BY <1>4, <1>5, <2>1 DEF Kind, Field, FieldOf
<1>6. CASE Matches(lines, h, f) = {} /\ f = "speed" /\ Matches(lines, h, "alt speed") # {}
  <2>1. FieldLine(lines, h, f) = TextAt(lines, FirstMatch(Matches(lines, h, "alt speed")))
    BY <1>6 DEF FieldLine
  <2> QED
    BY <1>4, <1>6, <2>1 DEF Kind, FieldOf
<1>7. CASE Matches(lines, h, f) = {} /\ ~(f = "speed" /\ Matches(lines, h, "alt speed") # {})
  BY <1>7 DEF FieldLine
<1> QED
  BY <1>5, <1>6, <1>7

\* Nothing printed is in order, and has no rows.
LEMMA NothingPrinted ==
    Ordered(<<>>) /\ BlocksEnd(<<>>) /\ ParseInterfaces(<<>>) = {}
<1>1. <<>> \in Seq(PrintedLine) /\ Len(<<>>) = 0
  BY EmptySeq
<1>2. Headers(<<>>) = {}
  <2>1. \A i : i \in Headers(<<>>) <=> i \in 1..Len(<<>>) /\ Recognised(<<>>[i])
    BY <1>1, HeadersOf
  <2>2. 1..Len(<<>>) = {}
    BY <1>1
  <2> QED
    BY <2>1, <2>2, Zenon
<1> QED
  BY <1>1, <1>2 DEF Ordered, BlocksEnd, ParseInterfaces

\* Every step keeps what is printed in order, and the rows those of the text.
LEMMA TextPreserved == IInv /\ TextInv /\ [Next]_collectionVars => TextInv'
<1> SUFFICES ASSUME IInv, TextInv, [Next]_collectionVars PROVE TextInv'
  OBVIOUS
<1>1. screen \in Seq(PrintedLine) /\ text \in Seq(PrintedLine)
  BY DEF IInv, TypeOK, PrintedLine
<1>2. CASE UNCHANGED collectionVars
  BY <1>2 DEF collectionVars, TextInv
<1>3. CASE \E f \in Function, v \in Vendor \cup {"juniper"} : Call(f, v)
  <2>1. /\ text = <<>> /\ text' = text /\ screen' = screen
        /\ pc' \in {"called", "refused"}
    BY <1>3 DEF Call, IInv, SessionInv
  <2> QED
    BY <2>1 DEF TextInv
<1>4. CASE Probe \/ Open \/ Drop \/ Close
  <2>1. /\ UNCHANGED <<screen, text, function, rows>>
        /\ pc' = pc \/ pc' # "done"
    BY <1>4 DEF Probe, Open, Drop, Close, parsedVars
  <2> QED
    BY <2>1 DEF TextInv
<1>5. CASE \/ \E words \in Heading : PrintHeader(words)
           \/ \E k \in Kind, b \in BOOLEAN : PrintField(k, b)
  <2>1. LastPort \in Nat /\ (screen # <<>> => screen[Len(screen)] \in PrintedLine)
    <3>1. screen # <<>> => screen[Len(screen)] \in PrintedLine
      <4> HIDE DEF PrintedLine
      <4> QED
        BY <1>1, EmptySeq
    <3> QED
      BY <3>1 DEF LastPort, PrintedLine
  <2>2. PICK line \in PrintedLine :
           /\ Emit(line)
           /\ pc = "reading"
           /\ \/ line.kind = "header" /\ line.port = 1 + LastPort
              \/ /\ line.kind \in Kind /\ screen # <<>> /\ line.port = LastPort
                 /\ line.kind \in Speeds => ~line.blank
                 /\ \/ screen[Len(screen)].kind = "header"
                    \/ screen[Len(screen)].kind = "description" /\ line.kind \in Speeds
    <3>1. ASSUME NEW words \in Heading, PrintHeader(words)
          PROVE  /\ Line(LastPort + 1, "header", words, FALSE) \in PrintedLine
                 /\ Line(LastPort + 1, "header", words, FALSE).kind = "header"
                 /\ Line(LastPort + 1, "header", words, FALSE).port = 1 + LastPort
      BY <2>1 DEF Line, PrintedLine
    <3>2. ASSUME NEW k \in Kind, NEW b \in BOOLEAN, PrintField(k, b)
          PROVE  /\ Line(LastPort, k, NoWords, b) \in PrintedLine
                 /\ Line(LastPort, k, NoWords, b).kind = k
                 /\ Line(LastPort, k, NoWords, b).port = LastPort
                 /\ Line(LastPort, k, NoWords, b).blank = b
                 /\ k \in Speeds <=> FieldOf(k) = "speed"
      BY <2>1 DEF Line, PrintedLine, Kind, Field, FieldOf, Speeds
    <3>3. CASE \E words \in Heading : PrintHeader(words)
      BY <3>1, <3>3 DEF PrintHeader, Printing
    <3>4. CASE \E k \in Kind, b \in BOOLEAN : PrintField(k, b)
      <4>1. PICK k \in Kind, b \in BOOLEAN : PrintField(k, b)
        BY <3>4
      <4>2. /\ Emit(Line(LastPort, k, NoWords, b)) /\ pc = "reading" /\ screen # <<>>
            /\ FieldOf(k) = "speed" => ~b
            /\ \/ screen[Len(screen)].kind = "header"
               \/ screen[Len(screen)].kind = "description" /\ FieldOf(k) = "speed"
        BY <4>1 DEF PrintField, Printing
      <4> QED
        BY <3>2, <4>1, <4>2
    <3> QED
      BY <1>5, <3>3, <3>4
  <2>3. screen' = Append(screen, line) /\ UNCHANGED <<pc, function, text, rows>>
    BY <2>2 DEF Emit, parsedVars
  <2>4. Ordered(screen') /\ BlocksEnd(screen')
    BY <1>1, <2>2, <2>3, AppendKeepsOrder DEF TextInv, LastPort
  <2> QED
    BY <2>2, <2>3, <2>4 DEF TextInv
<1>6. CASE Prompt
  <2>1. /\ screen' = <<>> /\ pc' # "done" /\ function' = function
        /\ text' = text \/ (text' = screen /\ function = "interfaces")
    BY <1>6 DEF Prompt, NextCommand
  <2> QED
    BY <2>1, NothingPrinted DEF TextInv
<1>7. CASE ReadFails
  <2>1. /\ screen' = <<>> /\ pc' # "done" /\ function' = function /\ text' = text
    BY <1>7 DEF ReadFails, NextCommand
  <2> QED
    BY <2>1, NothingPrinted DEF TextInv
<1>8. CASE Parse
  <2>1. /\ UNCHANGED <<screen, text, function>>
        /\ rows' = IF function = "interfaces" THEN ParseInterfaces(text) ELSE {}
    BY <1>8 DEF Parse
  <2>2. rows' = ParseInterfaces(text)
    BY <2>1, NothingPrinted DEF TextInv
  <2> QED
    BY <2>1, <2>2 DEF TextInv
<1> QED
  BY <1>2, <1>3, <1>4, <1>5, <1>6, <1>7, <1>8 DEF Next

----------------------------------------------------------------------------
(* Theorems *)

\* Type correctness.
THEOREM TypeCorrectness == Spec => []TypeOK
<1>1. IInv => TypeOK
  BY DEF IInv
<1> QED
  BY <1>1, Invariance, PTL

\* fetch_interfaces_raw returns only an answer the device finished, however
\* long it is and wherever the session is lost.
THEOREM TablesAreWhole == Spec => []NoPartialTable
<1>1. IInv => NoPartialTable
  BY DEF IInv
<1> QED
  BY <1>1, Invariance, PTL

\* collect_raw_outputs keeps every answer and names every failure; the other
\* two functions raise the error of their own command.
THEOREM FailuresAreNamed == Spec => []FailureIsNamed
<1>1. IInv => FailureIsNamed
  <2> SUFFICES ASSUME IInv PROVE FailureIsNamed
    OBVIOUS
  <2>1. ASSUME function = "collect", session = "closed"
        PROVE  failed = Key \ prompted /\ \A k \in prompted : outputs[k] # None
    <3>1. todo = <<>>
      BY <2>1 DEF IInv, SessionInv, CommandInv
    <3>2. Left = {}
      BY <3>1, EmptySeq DEF Left, Elements
    <3> QED
      BY <2>1, <3>2 DEF IInv, TypeOK, CommandInv
  <2>2. CommandErrorIsKept
    BY DEF IInv, ErrorInv, CommandErrorIsKept
  <2> QED
    BY <2>1, <2>2 DEF FailureIsNamed, OneFailureKeepsTheRest
<1> QED
  BY <1>1, Invariance, PTL

\* The SSH session is closed on every path out of the three functions.
THEOREM SessionsAreClosed == Spec => []SessionIsClosed
<1>1. IInv => SessionIsClosed
  BY DEF IInv, SessionInv, SessionOpen, SessionIsClosed, Ended
<1> QED
  BY <1>1, Invariance, PTL

\* What is printed is in order, and the rows are those of the text returned.
THEOREM TextInvariance == Spec => []TextInv
<1>1. Init => TextInv
  BY NothingPrinted DEF Init, TextInv
<1> QED
  BY <1>1, TextPreserved, Invariance, PTL DEF Spec

\* A row is that of a header, and says of each field where it was read.
LEMMA RowsAreHeaders ==
    ASSUME IInv, TextInv, NEW r \in rows
    PROVE  \E h \in Headers(text) :
              /\ h \in 1..Len(text) /\ text[h].kind = "header"
              /\ r.name = text[h].port
              /\ \A f \in Field : r.from[f] = FieldLine(text, h, f)
<1>1. text \in Seq(PrintedLine) /\ rows = ParseInterfaces(text)
  BY DEF IInv, TypeOK, PrintedLine
<1>2. PICK h \in Headers(text) : r = Row(text, h)
  BY <1>1 DEF ParseInterfaces
<1> QED
  BY <1>1, <1>2, HeadersOf DEF Row, Recognised

\* What a port printed of itself is what its row says, unless it printed it in
\* the second style and a port without a row printed the same in the first.
THEOREM OwnValuesWinAlways == Spec => []OwnValuesWin
<1>1. IInv /\ TextInv => OwnValuesWin
  <2> SUFFICES ASSUME IInv, TextInv, NEW r \in rows, NEW f \in Field,
                      NEW i \in Printed(r.name, f), r.from[f] # i
               PROVE  /\ text[i].kind # f
                      /\ r.from[f] \in DOMAIN text /\ text[r.from[f]].kind = f
                      /\ \A q \in rows : text[r.from[f]].port # q.name
    BY DEF OwnValuesWin
  <2>1. text \in Seq(PrintedLine) /\ DOMAIN text = 1..Len(text)
    <3>1. text \in Seq(PrintedLine)
      BY DEF IInv, TypeOK, PrintedLine
    <3> HIDE DEF PrintedLine
    <3> QED
      BY <3>1, LenProperties
  <2>2. PICK h \in Headers(text) :
           r.name = text[h].port /\ r.from[f] = FieldLine(text, h, f)
    BY RowsAreHeaders
  <2>3. /\ i \in 1..Len(text) /\ text[i].port = text[h].port
        /\ FieldOf(text[i].kind) = f /\ ~text[i].blank /\ text[i].kind \in Kind
    BY <2>1, <2>2, HeadersOf DEF Printed, PrintedLine, FieldOf, Field, Kind
  <2>4. PICK j \in 1..Len(text) :
           /\ text[i].kind # f /\ FieldLine(text, h, f) = j /\ text[j].kind = f
           /\ \A k \in Headers(text) : text[k].port # text[j].port
    BY <2>1, <2>2, <2>3, OwnLineIsRead DEF TextInv
  <2>5. ASSUME NEW q \in rows
        PROVE  text[j].port # q.name
    BY <2>4, RowsAreHeaders
  <2> QED
    BY <2>1, <2>2, <2>4, <2>5
<1> QED
  BY <1>1, Invariance, TextInvariance, PTL

\* When the patterns match every header and nothing is blank, the table has every
\* port, and in its row nothing but the port's own values.
THEOREM RowsMatchThePorts == Spec => []RowsMatchPorts
<1>1. IInv /\ TextInv => RowsMatchPorts
  <2> SUFFICES ASSUME IInv, TextInv, pc = "done",
                      \A i \in DOMAIN text : ~text[i].blank
                         /\ (text[i].kind = "header" => Recognised(text[i]))
               PROVE  /\ {r.name : r \in rows} = {text[i].port : i \in DOMAIN text}
                      /\ \A r \in rows, f \in Field :
                            r.from[f] \in Printed(r.name, f) \cup {0}
    BY DEF RowsMatchPorts
  <2>1. text \in Seq(PrintedLine) /\ DOMAIN text = 1..Len(text) /\ Len(text) \in Nat
    <3>1. text \in Seq(PrintedLine)
      BY DEF IInv, TypeOK, PrintedLine
    <3> HIDE DEF PrintedLine
    <3> QED
      BY <3>1, LenProperties
  <2>2. ASSUME NEW h \in 1..Len(text), text[h].kind = "header"
        PROVE  text[h].port \in {r.name : r \in rows}
    <3>1. h \in Headers(text)
      BY <2>1, <2>2 DEF Headers
    <3>2. Row(text, h) \in rows
      BY <3>1 DEF TextInv, ParseInterfaces
    <3>3. Row(text, h).name = text[h].port
      BY DEF Row
    <3> QED
      BY <3>2, <3>3
  <2>3. ASSUME NEW i \in 1..Len(text)
        PROVE  text[i].port \in {r.name : r \in rows}
    <3>1. text[i].kind \in {"header", "description"} \cup Speeds
      BY <2>1, HeadersOf DEF PrintedLine, Kind, Field, Speeds
    <3>2. CASE text[i].kind = "header"
      BY <2>2, <3>2
    <3>3. ASSUME NEW j \in 1..Len(text), text[j].kind = "description"
          PROVE  text[j].port \in {r.name : r \in rows}
      <4>1. /\ j > 1 /\ text[j - 1].port = text[j].port /\ text[j - 1].kind = "header"
        BY <3>3 DEF TextInv, Ordered
      <4>2. j - 1 \in 1..Len(text)
        BY <2>1, <4>1
      <4> QED
        BY <2>2, <4>1, <4>2
    <3>4. CASE text[i].kind \in Speeds
      <4>1. /\ i > 1 /\ text[i - 1].port = text[i].port
            /\ text[i - 1].kind \in {"header", "description"}
        BY <3>4 DEF TextInv, Ordered, Speeds
      <4>2. i - 1 \in 1..Len(text)
        BY <2>1, <4>1
      <4>3. text[i - 1].port \in {r.name : r \in rows}
        BY <2>2, <3>3, <4>1, <4>2
      <4> QED
        BY <4>1, <4>3
    <3> QED
      BY <3>1, <3>2, <3>3, <3>4
  <2>4. ASSUME NEW r \in rows
        PROVE  \E i \in DOMAIN text : r.name = text[i].port
    BY <2>1, RowsAreHeaders
  <2>5. ASSUME NEW r \in rows, NEW f \in Field
        PROVE  r.from[f] \in Printed(r.name, f) \cup {0}
    <3>1. PICK h \in Headers(text) :
             r.name = text[h].port /\ r.from[f] = FieldLine(text, h, f)
      BY RowsAreHeaders
    <3>2. \/ FieldLine(text, h, f) = 0
          \/ \E i \in 1..Len(text) :
                /\ text[i].port = text[h].port /\ FieldOf(text[i].kind) = f
                /\ FieldLine(text, h, f) = i
      BY <2>1, OnlyOwnLinesAreRead DEF TextInv
    <3> QED
      BY <2>1, <3>1, <3>2 DEF Printed
  <2> QED
    BY <2>1, <2>3, <2>4, <2>5
<1> QED
  BY <1>1, Invariance, TextInvariance, PTL

=============================================================================
