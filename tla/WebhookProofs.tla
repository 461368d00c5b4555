---------------------------- MODULE WebhookProofs ----------------------------
(***************************************************************************)
(* Safety of send_webhook for any number of calls and attempts, and that   *)
(* it implements EventDelivery.                                            *)
(***************************************************************************)
EXTENDS Webhook, TLAPS

\* What is known of a call besides its types: the attempts it has made, the
\* answers it may hold, and that a success it has read is one n8n acted on.
CallInOrder(e) ==
    /\ pc[e] = "idle" => attempt[e] = 0 /\ slept[e] = 0
    /\ pc[e] \in {"waiting", "backoff"} => attempt[e] >= 1
    /\ pc[e] = "backoff" => attempt[e] < MaxAttempts
    /\ pc[e] \in {"idle", "backoff"} => reply[e] \in {NoReply, "serverError"}
    /\ reply[e] = "success" => attempt[e] \in taken[e]
    /\ pc[e] = "delivered" => attempt[e] \in taken[e]

IInv ==
    /\ TypeOK
    /\ BackoffIsLinear
    /\ \A e \in Delivery : CallInOrder(e)

-----------------------------------------------------------------------------
(* The steps of a call *)

\* 1 + ... + (k - 1), plus k, is 1 + ... + k.
LEMMA OneMoreSleep ==
  ASSUME NEW k \in Nat, NEW s \in Nat, 2 * s = k * (k - 1)
  PROVE  2 * (s + k) = (k + 1) * ((k + 1) - 1)
  <1>1. k * (k - 1) = k * k - k
    OBVIOUS
  <1>2. (k + 1) * ((k + 1) - 1) = k * k + k
    OBVIOUS
  <1> QED BY <1>1, <1>2

\* A step that only moves one call's pc keeps the invariant if it keeps what
\* is known of that call.
LEMMA ReturnHolds ==
  ASSUME IInv, NEW e \in Delivery,
         NEW how \in {"backoff", "skipped", "delivered", "failed"}, Return(e, how),
         how = "backoff" => /\ attempt[e] >= 1 /\ attempt[e] < MaxAttempts
                            /\ reply[e] \in {NoReply, "serverError"},
         how = "delivered" => attempt[e] \in taken[e]
  PROVE  IInv'
  <1>1. TypeOK'
    BY DEF IInv, TypeOK, Return, Final
  <1>2. BackoffIsLinear'
    BY DEF IInv, BackoffIsLinear, Return
  <1>3. ASSUME NEW f \in Delivery PROVE CallInOrder(f)'
    BY DEF IInv, TypeOK, CallInOrder, Return
  <1> QED BY <1>1, <1>2, <1>3 DEF IInv

\* An attempt that fails is followed by a sleep only if another may be made.
LEMMA AttemptFailsHolds ==
  ASSUME IInv, NEW e \in Delivery, pc[e] = "waiting",
         reply[e] \in {NoReply, "serverError"}, AttemptFails(e)
  PROVE  IInv'
  <1>1. attempt[e] >= 1
    BY DEF IInv, CallInOrder
  <1>2. CASE attempt[e] < MaxAttempts
    BY <1>1, <1>2, ReturnHolds DEF AttemptFails
  <1>3. CASE ~(attempt[e] < MaxAttempts)
    BY <1>3, ReturnHolds DEF AttemptFails
  <1> QED BY <1>2, <1>3

\* A post is made with the sleeps its number asks for.
LEMMA PostHolds ==
  ASSUME IInv, NEW e \in Delivery, NEW k \in 1..MaxAttempts, Post(e, k),
         NEW s \in Nat, slept' = [slept EXCEPT ![e] = s], 2 * s = k * (k - 1),
         pc[e] # "delivered"
  PROVE  IInv'
  <1>0. MaxAttempts \in Nat
    BY ConfigurationAssumption
  <1>1. TypeOK'
    <2>1. <<e, k>> \in Delivery \X (1..MaxAttempts)
      OBVIOUS
    <2>2. k \in 0..MaxAttempts
      BY <1>0
    <2> QED BY <2>1, <2>2 DEF IInv, TypeOK, Post
  <1>2. BackoffIsLinear'
    BY DEF IInv, TypeOK, BackoffIsLinear, Post
  <1>3. ASSUME NEW f \in Delivery PROVE CallInOrder(f)'
    BY <1>0 DEF IInv, TypeOK, CallInOrder, Post, NoReply
  <1> QED BY <1>1, <1>2, <1>3 DEF IInv

\* The first post, or the answer that needs none.
LEMMA StartHolds ==
  ASSUME IInv, NEW e \in Delivery, Start(e)
  PROVE  IInv'
  <1>0. MaxAttempts \in Nat
    BY ConfigurationAssumption
  <1>1. CASE ~Configured
    BY <1>1, ReturnHolds DEF Start
  <1>2. CASE Configured /\ MaxAttempts = 0
    BY <1>2, ReturnHolds DEF Start
  <1>3. CASE Configured /\ MaxAttempts # 0
    <2> DEFINE k == 1
               none == 0
    <2>1. /\ k \in 1..MaxAttempts /\ none \in Nat /\ 2 * none = k * (k - 1)
          /\ Post(e, k) /\ pc[e] # "delivered"
      BY <1>0, <1>3 DEF Start
    <2>2. slept' = [slept EXCEPT ![e] = none]
      BY <1>3 DEF Start, IInv, TypeOK, CallInOrder
    <2> HIDE DEF k, none
    <2> QED BY <2>1, <2>2, PostHolds
  <1> QED BY <1>1, <1>2, <1>3

\* A later post, after the sleep before it.
LEMMA BackoffHolds ==
  ASSUME IInv, NEW e \in Delivery, Backoff(e)
  PROVE  IInv'
  <1>1. /\ MaxAttempts \in Nat /\ attempt[e] \in Nat /\ slept[e] \in Nat
        /\ attempt[e] >= 1 /\ attempt[e] < MaxAttempts /\ pc[e] = "backoff"
    BY ConfigurationAssumption DEF IInv, TypeOK, CallInOrder, Backoff
  <1>2. 2 * slept[e] = attempt[e] * (attempt[e] - 1)
    BY <1>1 DEF IInv, BackoffIsLinear
  <1> DEFINE s == slept[e] + attempt[e]
             k == attempt[e] + 1
  <1>3. /\ s \in Nat /\ k \in 1..MaxAttempts
        /\ slept' = [slept EXCEPT ![e] = s] /\ Post(e, k)
    BY <1>1 DEF Backoff
  <1>4. 2 * s = k * (k - 1)
    BY <1>1, <1>2, OneMoreSleep
  <1> HIDE DEF s, k
  <1> QED BY <1>1, <1>3, <1>4, PostHolds

\* The calls' own steps.
LEMMA CallHolds ==
  ASSUME IInv, NEW e \in Delivery, Call(e) \/ UnexpectedError(e)
  PROVE  IInv'
  <1>1. CASE Start(e)
    BY <1>1, StartHolds
  <1>2. CASE NoAnswer(e)
    BY <1>2, AttemptFailsHolds DEF NoAnswer
  <1>3. CASE Delivered(e)
    <2>1. attempt[e] \in taken[e] /\ Return(e, "delivered")
      BY <1>3 DEF Delivered, IInv, CallInOrder
    <2> QED BY <2>1, ReturnHolds
  <1>4. CASE Rejected(e)
    BY <1>4, ReturnHolds DEF Rejected
  <1>5. CASE ServerError(e)
    BY <1>5, AttemptFailsHolds DEF ServerError
  <1>6. CASE Backoff(e)
    BY <1>6, BackoffHolds
  <1>7. CASE UnexpectedError(e)
    BY <1>7, ReturnHolds DEF UnexpectedError
  <1> QED BY <1>1, <1>2, <1>3, <1>4, <1>5, <1>6, <1>7 DEF Call

\* n8n answers the attempt a call waits for only once it has acted on it.
LEMMA HandleHolds ==
  ASSUME IInv, NEW e \in Delivery, NEW k \in 1..MaxAttempts, Handle(e, k)
  PROVE  IInv'
  <1>1. PICK r \in Reply :
           /\ \/ r \in {"success", "serverError"} /\ taken' = [taken EXCEPT ![e] = @ \cup {k}]
              \/ r \in {"rejection", "serverError"} /\ UNCHANGED taken
           /\ reply' = IF pc[e] = "waiting" /\ attempt[e] = k
                       THEN [reply EXCEPT ![e] = r] ELSE reply
    BY DEF Handle
  <1>2. flight' \subseteq flight /\ UNCHANGED <<pc, attempt, slept>>
    BY DEF Handle
  <1>3. \A f \in Delivery : taken[f] \subseteq taken'[f]
    BY <1>1 DEF IInv, TypeOK
  <1>4. TypeOK'
    BY <1>1, <1>2 DEF IInv, TypeOK
  <1>5. BackoffIsLinear'
    BY <1>2 DEF IInv, BackoffIsLinear
  <1>6. ASSUME NEW f \in Delivery PROVE CallInOrder(f)'
    <2>1. reply'[f] = "success" => attempt'[f] \in taken'[f]
      BY <1>1, <1>2, <1>3 DEF IInv, TypeOK, CallInOrder
    <2>2. pc[f] \in {"idle", "backoff"} => reply'[f] = reply[f]
      BY <1>1 DEF IInv, TypeOK
    <2> QED BY <1>2, <1>3, <2>1, <2>2 DEF IInv, CallInOrder
  <1> QED BY <1>4, <1>5, <1>6 DEF IInv

\* A lost post changes nothing a call knows.
LEMMA LoseHolds ==
  ASSUME IInv, NEW e \in Delivery, NEW k \in 1..MaxAttempts, Lose(e, k)
  PROVE  IInv'
  BY DEF IInv, TypeOK, BackoffIsLinear, CallInOrder, Lose

\* The invariant holds initially.
LEMMA InitHolds == Init => IInv
  <1> SUFFICES ASSUME Init PROVE IInv
    OBVIOUS
  <1>1. TypeOK
    BY ConfigurationAssumption DEF Init, TypeOK, NoReply
  <1>2. BackoffIsLinear /\ \A e \in Delivery : CallInOrder(e)
    BY DEF Init, BackoffIsLinear, CallInOrder, NoReply
  <1> QED BY <1>1, <1>2 DEF IInv

\* Every step keeps it.
LEMMA NextHolds == IInv /\ [Next]_vars => IInv'
  <1> SUFFICES ASSUME IInv, [Next]_vars
               PROVE  IInv'
    OBVIOUS
  <1>1. CASE UNCHANGED vars
    BY <1>1 DEF IInv, TypeOK, BackoffIsLinear, CallInOrder, vars
  <1>2. ASSUME NEW e \in Delivery, Call(e) \/ UnexpectedError(e) PROVE IInv'
    BY <1>2, CallHolds
  <1>3. ASSUME NEW e \in Delivery, NEW k \in 1..MaxAttempts, Handle(e, k) \/ Lose(e, k)
        PROVE  IInv'
    BY <1>3, HandleHolds, LoseHolds
  <1> QED BY <1>1, <1>2, <1>3 DEF Next

-----------------------------------------------------------------------------
(* Theorems *)

\* The invariant holds in every reachable state.
THEOREM Invariance == Spec => []IInv
  <1> QED BY InitHolds, NextHolds, PTL DEF Spec

\* Types are correct in every reachable state: above all, no call goes past
\* MaxAttempts, whatever its value.
THEOREM TypeCorrectness == Spec => []TypeOK
  <1>1. IInv => TypeOK
    BY DEF IInv
  <1> QED BY <1>1, Invariance, PTL

\* deliver_event answers TRUE only for a delivery n8n acted on.
THEOREM DeliveredIsTaken == Spec => []TrueMeansTaken
  <1>1. IInv => TrueMeansTaken
    BY DEF IInv, CallInOrder, TrueMeansTaken
  <1> QED BY <1>1, Invariance, PTL

\* The sleeps before attempt k add up to k * (k - 1) / 2 units.
THEOREM SleepsAddUp == Spec => []BackoffIsLinear
  <1>1. IInv => BackoffIsLinear
    BY DEF IInv
  <1> QED BY <1>1, Invariance, PTL

\* Only the first post and the ones after a sleep add to what is in flight, and
\* a call about to make one holds no answer.
LEMMA OnlyCallsPost ==
  ASSUME IInv, Next, NEW e \in Delivery, NEW k \in 1..MaxAttempts,
         <<e, k>> \in flight', <<e, k>> \notin flight
  PROVE  pc[e] \in {"idle", "backoff"}
  <1>1. ASSUME NEW f \in Delivery, Call(f) \/ UnexpectedError(f)
        PROVE  pc[e] \in {"idle", "backoff"}
    <2>1. CASE Start(f)
      <3>1. Post(f, 1) /\ pc[f] = "idle"
        BY <2>1 DEF Start, Return
      <3> QED BY <3>1 DEF Post
    <2>2. CASE Backoff(f)
      <3>1. flight' = flight \cup {<<f, attempt[f] + 1>>} /\ pc[f] = "backoff"
        BY <2>2 DEF Backoff, Post
      <3> QED BY <3>1
    <2>3. CASE ~Start(f) /\ ~Backoff(f)
      BY <1>1, <2>3 DEF Call, NoAnswer, Delivered, Rejected, ServerError,
         UnexpectedError, AttemptFails, Return
    <2> QED BY <2>1, <2>2, <2>3
  <1>2. ASSUME NEW f \in Delivery, NEW i \in 1..MaxAttempts, Handle(f, i) \/ Lose(f, i)
        PROVE  FALSE
    BY <1>2 DEF Handle, Lose
  <1> QED BY <1>1, <1>2 DEF Next

\* A call that has read a rejection or a success, or has returned, posts
\* nothing more.
THEOREM AnswersEndPosting == Spec => NoPostAfterAnswer
  <1> DEFINE Silent ==
        \A e \in Delivery :
           (pc[e] \in Final \/ reply[e] \in {"success", "rejection"})
           => \A k \in 1..MaxAttempts : <<e, k>> \in flight' => <<e, k>> \in flight
  <1>1. IInv /\ [Next]_vars => [Silent]_vars
    <2> SUFFICES ASSUME IInv, Next, NEW e \in Delivery,
                        pc[e] \in Final \/ reply[e] \in {"success", "rejection"},
                        NEW k \in 1..MaxAttempts,
                        <<e, k>> \in flight', <<e, k>> \notin flight
                 PROVE  FALSE
      OBVIOUS
    <2>1. pc[e] \in {"idle", "backoff"}
      BY OnlyCallsPost
    <2> QED BY <2>1 DEF IInv, CallInOrder, Final, NoReply
  <1> QED BY <1>1, Invariance, PTL DEF Spec, NoPostAfterAnswer

-----------------------------------------------------------------------------
(* send_webhook implements EventDelivery *)

\* Moving one call to a final answer gives that call's answer and no other's.
LEMMA ReturnAnswers ==
  ASSUME TypeOK, NEW e \in Delivery, NEW how, Return(e, how)
  PROVE  answer' = [answer EXCEPT ![e] =
                      IF how = "delivered" THEN "delivered"
                      ELSE IF how \in {"skipped", "failed"} THEN "notDelivered"
                      ELSE "pending"]
  BY DEF TypeOK, Return, answer

\* A step that gives a call up.
LEMMA FailureGivesUp ==
  ASSUME TypeOK, NEW e \in Delivery, NEW how \in {"skipped", "failed"},
         Return(e, how), pc[e] \notin Final
  PROVE  Abstract!GiveUp(e)
  <1>1. answer[e] = "pending"
    BY DEF answer, Final
  <1>2. answer' = [answer EXCEPT ![e] = "notDelivered"]
    BY ReturnAnswers
  <1> QED BY <1>1, <1>2 DEF Abstract!GiveUp, Return

\* A step that leaves a call pending is a stutter of the abstract one.
LEMMA PendingStutters ==
  ASSUME TypeOK, NEW e \in Delivery, pc[e] \in {"idle", "waiting", "backoff"},
         NEW how \in {"waiting", "backoff"}, pc' = [pc EXCEPT ![e] = how],
         UNCHANGED taken
  PROVE  UNCHANGED <<answer, taken>>
  BY DEF TypeOK, answer

\* Each step of a call confirms, gives up, or stutters.
LEMMA CallRefines ==
  ASSUME IInv, NEW e \in Delivery, Call(e) \/ UnexpectedError(e)
  PROVE  Abstract!Confirm(e) \/ Abstract!GiveUp(e) \/ UNCHANGED <<answer, taken>>
  <1>0. TypeOK
    BY DEF IInv
  <1>1. CASE Start(e)
    <2>1. CASE Post(e, 1)
      BY <1>0, <1>1, <2>1, PendingStutters DEF Start, Post
    <2>2. CASE \E how \in {"skipped", "failed"} : Return(e, how)
      BY <1>0, <1>1, <2>2, FailureGivesUp DEF Start, Final
    <2> QED BY <1>1, <2>1, <2>2 DEF Start
  <1>2. ASSUME pc[e] = "waiting", AttemptFails(e)
        PROVE  Abstract!GiveUp(e) \/ UNCHANGED <<answer, taken>>
    <2>1. CASE attempt[e] < MaxAttempts
      <3>1. pc' = [pc EXCEPT ![e] = "backoff"] /\ UNCHANGED taken
        BY <1>2, <2>1 DEF AttemptFails, Return
      <3> QED BY <1>0, <1>2, <3>1, PendingStutters
    <2>2. CASE ~(attempt[e] < MaxAttempts)
      BY <1>0, <1>2, <2>2, FailureGivesUp DEF AttemptFails, Final
    <2> QED BY <2>1, <2>2
  <1>3. CASE Delivered(e)
    <2>1. answer[e] = "pending" /\ taken[e] # {}
      BY <1>3 DEF Delivered, answer, IInv, CallInOrder
    <2>2. answer' = [answer EXCEPT ![e] = "delivered"] /\ UNCHANGED taken
      BY <1>0, <1>3, ReturnAnswers DEF Delivered, Return
    <2> QED BY <2>1, <2>2 DEF Abstract!Confirm
  <1>4. CASE Rejected(e) \/ UnexpectedError(e)
    BY <1>0, <1>4, FailureGivesUp DEF Rejected, UnexpectedError, Final
  <1>5. CASE Backoff(e)
    BY <1>0, <1>5, PendingStutters DEF Backoff, Post
  <1> QED BY <1>1, <1>2, <1>3, <1>4, <1>5 DEF Call, NoAnswer, ServerError

\* n8n acting on a post is a copy taken, unless it is one already counted.
LEMMA HandleRefines ==
  ASSUME IInv, NEW e \in Delivery, NEW k \in 1..MaxAttempts, Handle(e, k)
  PROVE  Abstract!Take(e, k) \/ UNCHANGED <<answer, taken>>
  <1>1. answer' = answer
    BY DEF Handle, answer
  <1>2. taken' = [taken EXCEPT ![e] = @ \cup {k}] \/ taken' = taken
    BY DEF Handle
  <1>3. k \in taken[e] => [taken EXCEPT ![e] = @ \cup {k}] = taken
    BY DEF IInv, TypeOK
  <1> QED BY <1>1, <1>2, <1>3 DEF Abstract!Take

\* Webhook implements EventDelivery: what it tells its callers is what the
\* abstract specification promises.
THEOREM Implementation == Spec => ImplementsEventDelivery
  <1>1. Init => Abstract!Init
    BY DEF Init, Abstract!Init, answer
  <1>2. IInv /\ [Next]_vars => [Abstract!Next]_<<answer, taken>>
    <2> SUFFICES ASSUME IInv, [Next]_vars
                 PROVE  Abstract!Next \/ UNCHANGED <<answer, taken>>
      OBVIOUS
    <2>1. CASE UNCHANGED vars
      BY <2>1 DEF vars, answer
    <2>2. ASSUME NEW e \in Delivery, Call(e) \/ UnexpectedError(e)
          PROVE  Abstract!Next \/ UNCHANGED <<answer, taken>>
      BY <2>2, CallRefines DEF Abstract!Next
    <2>3. ASSUME NEW e \in Delivery, NEW k \in 1..MaxAttempts, Handle(e, k)
          PROVE  Abstract!Next \/ UNCHANGED <<answer, taken>>
      BY <2>3, HandleRefines DEF Abstract!Next
    <2>4. ASSUME NEW e \in Delivery, NEW k \in 1..MaxAttempts, Lose(e, k)
          PROVE  UNCHANGED <<answer, taken>>
      BY <2>4 DEF Lose, answer
    <2> QED BY <2>1, <2>2, <2>3, <2>4 DEF Next
  <1> QED BY <1>1, <1>2, Invariance, PTL DEF Spec, ImplementsEventDelivery, Abstract!Spec
=============================================================================
