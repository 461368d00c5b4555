---------------------------- MODULE EventDelivery ----------------------------
(***************************************************************************)
(* What deliver_event promises its caller about one event: at least one    *)
(* copy reached n8n when it answers TRUE, at most MaxCopies ever do, and   *)
(* FALSE promises nothing (a copy may have been taken, or may still be).   *)
(* Webhook is shown to implement this.                                     *)
(***************************************************************************)
EXTENDS Naturals

CONSTANTS
    Delivery,   \* calls of deliver_event
    MaxCopies   \* posts one call may make

VARIABLES
    answer,     \* what each call returned to its caller
    copies      \* which of its posts n8n has acted on

Answer == {"pending", "delivered", "notDelivered"}

\* n8n acts on one more post, whatever the caller was told
Take(e, k) ==
    /\ k \in 1..MaxCopies \ copies[e]
    /\ copies' = [copies EXCEPT ![e] = @ \cup {k}]
    /\ UNCHANGED answer

\* TRUE only on confirmed delivery
Confirm(e) ==
    /\ answer[e] = "pending"
    /\ copies[e] # {}
    /\ answer' = [answer EXCEPT ![e] = "delivered"]
    /\ UNCHANGED copies

GiveUp(e) ==
    /\ answer[e] = "pending"
    /\ answer' = [answer EXCEPT ![e] = "notDelivered"]
    /\ UNCHANGED copies

Init ==
    /\ answer = [e \in Delivery |-> "pending"]
    /\ copies = [e \in Delivery |-> {}]

Next ==
    \E e \in Delivery :
        Confirm(e) \/ GiveUp(e) \/ \E k \in 1..MaxCopies : Take(e, k)

Spec == Init /\ [][Next]_<<answer, copies>>
=============================================================================
