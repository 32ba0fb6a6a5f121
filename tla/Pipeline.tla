------------------------------ MODULE Pipeline ------------------------------
(***************************************************************************)
(* Registrations and the outbox worker over one table of events, to say    *)
(* what the readers of the topic may rely on.  The registrations are those *)
(* of Registration, step by step; of the worker only what its contract     *)
(* says is here (OutboxContract, which Outbox implements).  They meet in   *)
(* the commit: the row a request inserted is one the worker can claim from *)
(* then on, and not before.                                                *)
(***************************************************************************)
EXTENDS Registration

CONSTANT MaxCopies      \* bound: how often one event is appended to the topic

ASSUME MaxCopiesAssumption == MaxCopies \in Nat \ {0}

VARIABLES
    stage,      \* where each event is on its way to the topic
    copies      \* how many copies of each event the topic holds

pvars == <<vars, stage, copies>>

Worker == INSTANCE OutboxContract WITH Events <- Requests

\* What a commit makes visible in outbox_events.
Recorded(r) == event[r] # "committed" /\ event'[r] = "committed"

PipelineInit == Init /\ Worker!Init

\* A step of a registration; if it commits an event, that is recorded.
Register ==
    /\ Next
    /\ \/ \E r \in Requests : Recorded(r) /\ Worker!Record(r)
       \/ (\A r \in Requests : ~Recorded(r)) /\ UNCHANGED <<stage, copies>>

\* A step of the worker.
Work ==
    /\ \/ \E S \in SUBSET Requests : S # {} /\ Worker!Take(S)
       \/ \E r \in Requests : copies[r] < MaxCopies /\ Worker!Deliver(r)
       \/ \E r \in Requests : Worker!Confirm(r)
    /\ UNCHANGED vars

PipelineNext == Register \/ Work

PipelineSpec == PipelineInit /\ [][PipelineNext]_pvars

\* The handlers keep running; of the worker nothing is promised here (see
\* Outbox for what its fairness gives).
FairPipelineSpec == PipelineSpec /\ Fairness

-----------------------------------------------------------------------------
(* What the readers of the topic may rely on. *)

\* Every event in the topic is that of a form with images whose transaction was
\* committed; its product has a row, and that row's category is there; and the
\* images and points it speaks of are there and nobody is about to remove them,
\* unless the answer to the commit was lost: only then does a request that
\* believes it failed take the data of a sent event away.
TopicIsTrue ==
    \A r \in Requests : copies[r] > 0 =>
        /\ r \in InEffect /\ HasImages(input[r])
        /\ row[input[r].name] # NoRow /\ row[input[r].name].category \in category
        /\ tx[r] = "committed" =>
              images[r] = "stored" /\ points[r] = "stored" /\ cleaning[r] = "idle"

\* What a client was told and what the topic says agree: the event of a request
\* that was answered with 201 is on its way and is never withdrawn, and for one
\* that was answered with 200 or 400 nothing is ever sent.
AnswerMatchesTopic ==
    \A r \in Requests :
        /\ Answer(r) = 201 => stage[r] # "none"
        /\ Answer(r) \in {200, 400} => stage[r] = "none" /\ copies[r] = 0
=============================================================================
