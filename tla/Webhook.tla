------------------------------- MODULE Webhook -------------------------------
(***************************************************************************)
(* deliver_event and send_webhook: one event is POSTed to n8n, at most     *)
(* MaxAttempts times, with a sleep between attempts.  The client stops     *)
(* waiting for an attempt on a timeout or a connection error, but the POST *)
(* it made may still reach n8n, before or after the next attempt and even  *)
(* after the caller was told that the delivery failed.                     *)
(***************************************************************************)
EXTENDS Naturals

CONSTANTS
    Delivery,     \* calls of deliver_event
    Configured,   \* settings.n8n_webhook_url is set
    MaxAttempts   \* settings.n8n_webhook_max_retries; 0 is a legal setting

ASSUME ConfigurationAssumption ==
    /\ Configured \in BOOLEAN
    /\ MaxAttempts \in Nat

VARIABLES
    pc,        \* where each call stands
    attempt,   \* number of its current attempt, 0 before the first
    slept,     \* its sleeps so far, in units of retry_backoff_seconds
    flight,    \* posts <<call, attempt>> n8n has not handled yet
    taken,     \* attempts of each call n8n acted on
    reply      \* n8n's answer to the attempt the call waits for

vars == <<pc, attempt, slept, flight, taken, reply>>

Reply == {"success", "rejection", "serverError"}
NoReply == "none"
Final == {"skipped", "delivered", "failed"}

----------------------------------------------------------------------------
(* send_webhook *)

Post(e, k) ==
    /\ pc' = [pc EXCEPT ![e] = "waiting"]
    /\ attempt' = [attempt EXCEPT ![e] = k]
    /\ flight' = flight \cup {<<e, k>>}
    /\ reply' = [reply EXCEPT ![e] = NoReply]
    /\ UNCHANGED taken

Return(e, how) ==
    /\ pc' = [pc EXCEPT ![e] = how]
    /\ UNCHANGED <<attempt, slept, flight, taken, reply>>

\* WebhookNotConfiguredError, or the first pass of the loop if there is one
Start(e) ==
    /\ pc[e] = "idle"
    /\ IF ~Configured THEN Return(e, "skipped")
       ELSE IF MaxAttempts = 0 THEN Return(e, "failed")
       ELSE Post(e, 1) /\ UNCHANGED slept

\* the attempt is over without an answer that settles the delivery
AttemptFails(e) ==
    Return(e, IF attempt[e] < MaxAttempts THEN "backoff" ELSE "failed")

\* mutant: no timeout, only a post that is gone ends the wait
NoAnswer_NoTimeout(e) ==
    /\ pc[e] = "waiting"
    /\ reply[e] = NoReply
    /\ <<e, attempt[e]>> \notin flight
    /\ AttemptFails(e)

\* httpx.TimeoutException or RequestError; the post itself is not recalled
NoAnswer(e) ==
    /\ pc[e] = "waiting"
    /\ reply[e] = NoReply
    /\ AttemptFails(e)

\* mutant: everything below 500 counts as delivered
Delivered_Below500(e) ==
    /\ pc[e] = "waiting"
    /\ reply[e] \in {"success", "rejection"}
    /\ Return(e, "delivered")

\* status < 300
Delivered(e) ==
    /\ pc[e] = "waiting"
    /\ reply[e] = "success"
    /\ Return(e, "delivered")

\* mutant: a rejection is retried
Rejected_Retried(e) ==
    /\ pc[e] = "waiting"
    /\ reply[e] = "rejection"
    /\ AttemptFails(e)

\* status < 500: not retried
Rejected(e) ==
    /\ pc[e] = "waiting"
    /\ reply[e] = "rejection"
    /\ Return(e, "failed")

\* any other status
ServerError(e) ==
    /\ pc[e] = "waiting"
    /\ reply[e] = "serverError"
    /\ AttemptFails(e)

\* anything else httpx raises is no RequestError: deliver_event's last except
UnexpectedError(e) ==
    /\ pc[e] = "waiting"
    /\ Return(e, "failed")

\* mutant: the sleep does not grow with the attempt
Backoff_Constant(e) ==
    /\ pc[e] = "backoff"
    /\ slept' = [slept EXCEPT ![e] = @ + 1]
    /\ Post(e, attempt[e] + 1)

\* time.sleep(backoff * attempt), then the next pass
Backoff(e) ==
    /\ pc[e] = "backoff"
    /\ slept' = [slept EXCEPT ![e] = @ + attempt[e]]
    /\ Post(e, attempt[e] + 1)

----------------------------------------------------------------------------
(* n8n and the network *)

\* n8n handles a post and answers; a server error may come before or after it
\* acted. The answer is read only by a call still waiting for that attempt.
Handle(e, k) ==
    /\ <<e, k>> \in flight
    /\ flight' = flight \ {<<e, k>>}
    /\ \E r \in Reply :
          /\ \/ /\ r \in {"success", "serverError"}
                /\ taken' = [taken EXCEPT ![e] = @ \cup {k}]
             \/ /\ r \in {"rejection", "serverError"}
                /\ UNCHANGED taken
          /\ reply' = IF pc[e] = "waiting" /\ attempt[e] = k
                      THEN [reply EXCEPT ![e] = r] ELSE reply
    /\ UNCHANGED <<pc, attempt, slept>>

\* the post never arrives
Lose(e, k) ==
    /\ <<e, k>> \in flight
    /\ flight' = flight \ {<<e, k>>}
    /\ UNCHANGED <<pc, attempt, slept, taken, reply>>

----------------------------------------------------------------------------
Init ==
    /\ pc = [e \in Delivery |-> "idle"]
    /\ attempt = [e \in Delivery |-> 0]
    /\ slept = [e \in Delivery |-> 0]
    /\ flight = {}
    /\ taken = [e \in Delivery |-> {}]
    /\ reply = [e \in Delivery |-> NoReply]

Call(e) ==
    \/ Start(e)
    \/ NoAnswer(e)
    \/ Delivered(e)
    \/ Rejected(e)
    \/ ServerError(e)
    \/ Backoff(e)

Next ==
    \E e \in Delivery :
        Call(e) \/ UnexpectedError(e) \/
        \E k \in 1..MaxAttempts : Handle(e, k) \/ Lose(e, k)

\* the client's own timeout lets every call go on without n8n's help
Fairness == \A e \in Delivery : WF_vars(Call(e))

Spec == Init /\ [][Next]_vars /\ Fairness

----------------------------------------------------------------------------
(* Properties *)

TypeOK ==
    /\ pc \in [Delivery -> {"idle", "waiting", "backoff"} \cup Final]
    /\ attempt \in [Delivery -> 0..MaxAttempts]
    /\ slept \in [Delivery -> Nat]
    /\ flight \subseteq Delivery \X (1..MaxAttempts)
    /\ taken \in [Delivery -> SUBSET (1..MaxAttempts)]
    /\ reply \in [Delivery -> Reply \cup {NoReply}]

\* TRUE is returned "only on confirmed delivery": n8n acted on the attempt the
\* call was waiting for, not merely on some lost earlier one.
TrueMeansTaken == \A e \in Delivery : pc[e] = "delivered" => attempt[e] \in taken[e]

\* Sleeps before attempt k add up to 1 + 2 + ... + (k - 1) units; there is
\* none after the last attempt.
BackoffIsLinear ==
    \A e \in Delivery : attempt[e] > 0 =>
        2 * slept[e] = attempt[e] * (attempt[e] - 1)

\* A call that has read a rejection, or has answered its caller, posts nothing
\* more: "a 4xx response is not retried".
NoPostAfterAnswer ==
    [][\A e \in Delivery :
          (pc[e] \in Final \/ reply[e] \in {"success", "rejection"})
          => \A k \in 1..MaxAttempts : <<e, k>> \in flight' => <<e, k>> \in flight]_vars

\* Every call ends, n8n's help or not.
CallEnds == \A e \in Delivery : pc[e] # "idle" ~> pc[e] \in Final

\* The refinement: what the caller knows of a call, and what n8n has done.
answer == [e \in Delivery |->
             IF pc[e] = "delivered" THEN "delivered"
             ELSE IF pc[e] \in {"skipped", "failed"} THEN "notDelivered"
             ELSE "pending"]

Abstract == INSTANCE EventDelivery
                WITH MaxCopies <- MaxAttempts, copies <- taken

\* send_webhook implements EventDelivery.
ImplementsEventDelivery == Abstract!Spec
=============================================================================
