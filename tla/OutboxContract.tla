--------------------------- MODULE OutboxContract ---------------------------
(***************************************************************************)
(* What the transactional outbox promises to the rest of the backend,      *)
(* without workers, row locks, notifications or failures: an event is      *)
(* recorded once, taken for delivery once, reaches the topic only between  *)
(* those two moments and the moment it is confirmed, and is confirmed only *)
(* when at least one copy of it is in the topic.  Nothing moves backwards, *)
(* so no event is ever taken for delivery twice.  Delivery itself is NOT   *)
(* promised: a taken event may stay taken for ever (see Outbox).           *)
(***************************************************************************)
EXTENDS Naturals

CONSTANT Events

VARIABLES
    stage,      \* where each event is on its way to the topic
    copies      \* how many copies of each event the topic holds

cvars == <<stage, copies>>

Stages == {"none", "recorded", "taken", "confirmed"}

Init ==
    /\ stage = [e \in Events |-> "none"]
    /\ copies = [e \in Events |-> 0]

Record(e) ==
    /\ stage[e] = "none"
    /\ stage' = [stage EXCEPT ![e] = "recorded"]
    /\ UNCHANGED copies

\* A batch is taken in one step: the claim is one transaction.
Take(S) ==
    /\ \A e \in S : stage[e] = "recorded"
    /\ stage' = [e \in Events |-> IF e \in S THEN "taken" ELSE stage[e]]
    /\ UNCHANGED copies

Deliver(e) ==
    /\ stage[e] = "taken"
    /\ copies' = [copies EXCEPT ![e] = @ + 1]
    /\ UNCHANGED stage

Confirm(e) ==
    /\ stage[e] = "taken"
    /\ copies[e] > 0
    /\ stage' = [stage EXCEPT ![e] = "confirmed"]
    /\ UNCHANGED copies

Next ==
    \/ \E e \in Events : Record(e) \/ Deliver(e) \/ Confirm(e)
    \/ \E S \in SUBSET Events : Take(S)

Spec == Init /\ [][Next]_cvars
=============================================================================
