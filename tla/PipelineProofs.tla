--------------------------- MODULE PipelineProofs ---------------------------
(***************************************************************************)
(* What the readers of the topic may rely on, for any number of requests,  *)
(* any forms, any failures and any worker that keeps its contract.         *)
(*                                                                         *)
(* A step of the pipeline is a step of Registration or leaves it alone, so *)
(* all that is proved of Registration holds here (PipelineRegisters).  New *)
(* is the link between the two sides (Link): the worker knows an event if  *)
(* and only if the transaction that inserted it was committed.             *)
(***************************************************************************)
EXTENDS Pipeline, RegistrationProofs

\* A request that took effect had passed the checks and its product is there,
\* with its category, whoever registered it again since.
Registered(r) ==
    r \in InEffect =>
        row[input[r].name] # NoRow /\ row[input[r].name].category \in category

\* The worker knows an event exactly from its commit on, and has sent none that
\* it does not know; only forms with images have one.
Link ==
    /\ stage \in [Requests -> Worker!Stages]
    /\ copies \in [Requests -> Nat]
    /\ \A r \in Requests :
          /\ stage[r] = "none" <=> event[r] # "committed"
          /\ copies[r] > 0 => stage[r] # "none"
          /\ event[r] = "committed" => HasImages(input[r])
          /\ Registered(r)

-----------------------------------------------------------------------------
LEMMA PipelineRegisters == PipelineSpec => Spec
<1>1. PipelineInit => Init
    BY DEF PipelineInit
<1>2. [PipelineNext]_pvars => [Next]_vars
    BY DEF PipelineNext, Register, Work, pvars
<1> QED
    BY <1>1, <1>2, PTL DEF PipelineSpec, Spec

\* A registration that takes effect leaves its product and category behind, and
\* commits an event only for a form with images.
LEMMA RegisterIsSeen ==
    ASSUME IInv, Link, NEW r \in Requests, Contract!Register(r), NEW q \in Requests
    PROVE  /\ event[q] = "committed" => event'[q] = "committed"
           /\ event'[q] = "committed" => event[q] = "committed" \/ q = r
           /\ event'[q] = "committed" => HasImages(input[q])'
           /\ Registered(q)'
<1> DEFINE asked == [p \in Requests |-> Asked(input[p])]
           recorded == {p \in Requests : event[p] = "committed"}
<1>0. /\ input[r] \in Inputs /\ input[r].name \in Names
      /\ row \in [Names -> Rows \cup {NoRow}]
    BY InputTypes DEF IInv, TypeOK
<1>1. /\ asked' = asked
      /\ InEffect' = InEffect \cup {r}
      /\ category' = category \cup {asked[r].row.category}
      /\ row' = [row EXCEPT ![asked[r].name] = asked[r].row]
      /\ recorded' = IF asked[r].withImages THEN recorded \cup {r} ELSE recorded
    BY DEF Contract!Register
<1>2. asked[q] = Asked(input[q]) /\ asked[r] = Asked(input[r]) /\ asked'[q] = Asked(input'[q])
    OBVIOUS
<1>3. /\ input'[q].name = input[q].name
      /\ HasImages(input[q])' <=> HasImages(input[q])
    <2>1. Asked(input'[q]) = Asked(input[q])
        BY <1>1, <1>2
    <2>2. Asked(input'[q]).name = Asked(input[q]).name
          /\ Asked(input'[q]).withImages = Asked(input[q]).withImages
        BY <2>1
    <2> QED
        BY <2>2 DEF Asked, HasImages
<1>4. Row(input[r]) # NoRow
    BY <1>0, InputsAssumption DEF Row, NoRow
<1>5. /\ event[q] = "committed" => event'[q] = "committed"
      /\ event'[q] = "committed" => event[q] = "committed" \/ q = r
      /\ event'[q] = "committed" => HasImages(input[q])'
    <2>1. recorded \subseteq recorded'
        BY <1>1
    <2>2. q \in recorded' => q \in recorded \/ (q = r /\ asked[r].withImages)
        BY <1>1
    <2>3. asked[r].withImages <=> HasImages(input[r])
        BY <1>2 DEF Asked
    <2> QED
        BY <1>3, <2>1, <2>2, <2>3 DEF Link
<1>6. row' = [row EXCEPT ![input[r].name] = Row(input[r])]
      /\ category' = category \cup {Row(input[r]).category}
    BY <1>1, <1>2 DEF Asked
<1>7. Registered(q)'
    <2>1. SUFFICES ASSUME q \in InEffect'
                   PROVE  /\ row'[input[q].name] # NoRow
                          /\ row'[input[q].name].category \in category'
        BY <1>3 DEF Registered
    <2>2. CASE input[q].name = input[r].name
        BY <1>0, <1>4, <1>6, <2>2
    <2>3. CASE input[q].name # input[r].name
        <3>1. q \in InEffect
            BY <1>1, <2>1, <2>3
        <3>2. row'[input[q].name] = row[input[q].name]
            BY <1>0, <1>6, <2>3, InputTypes DEF IInv
        <3> QED
            BY <1>6, <3>1, <3>2 DEF Link, Registered
    <2> QED
        BY <2>2, <2>3
<1> QED
    BY <1>5, <1>7

\* Both sides of the link move together in the commit of an event and are left
\* alone otherwise.
LEMMA RegisterKeepsLink ==
    ASSUME IInv, \A q \in Requests : Whole(q), Link, Register
    PROVE  Link'
<1>1. Quiet \/ \E r \in Requests : Contract!Register(r)
    BY StepKinds DEF Register
<1>2. ASSUME NEW q \in Requests
      PROVE  /\ event[q] = "committed" => event'[q] = "committed"
             /\ event'[q] = "committed" => HasImages(input[q])'
             /\ Registered(q)'
    <2>1. CASE Quiet
        BY <1>2, <2>1 DEF Quiet, Link, Registered, HasImages
    <2> QED
        BY <1>1, <1>2, <2>1, RegisterIsSeen
<1>3. CASE \E r \in Requests : Recorded(r) /\ Worker!Record(r)
    <2>1. PICK r \in Requests : Recorded(r) /\ Worker!Record(r)
        BY <1>3
    <2>2. /\ stage' \in [Requests -> Worker!Stages] /\ copies' = copies
          /\ stage[r] = "none" /\ stage'[r] = "recorded"
          /\ \A q \in Requests \ {r} : stage'[q] = stage[q]
        BY <2>1 DEF Link, Worker!Record, Worker!Stages
    <2>3. PICK p \in Requests : Contract!Register(p)
        BY <1>1, <2>1 DEF Quiet, Recorded
    <2>4. r = p
        BY <2>1, <2>3, RegisterIsSeen DEF Recorded
    <2>5. \A q \in Requests \ {r} : event'[q] = "committed" <=> event[q] = "committed"
        BY <2>3, <2>4, RegisterIsSeen
    <2> QED
        BY <1>2, <2>1, <2>2, <2>5 DEF Link, Recorded
<1>4. CASE (\A r \in Requests : ~Recorded(r)) /\ UNCHANGED <<stage, copies>>
    BY <1>2, <1>4 DEF Link, Recorded
<1> QED
    BY <1>3, <1>4 DEF Register

\* The worker's steps leave what was committed alone, and touch only events they
\* were told of.
LEMMA WorkKeepsLink ==
    ASSUME Link, Work
    PROVE  Link'
<1>1. \A q \in Requests : Registered(q)'
    BY DEF Work, vars, Link, Registered, InEffect
<1>2. /\ event' = event
      /\ \A q \in Requests : HasImages(input[q])' <=> HasImages(input[q])
    BY DEF Work, vars, HasImages
<1>3. ASSUME NEW S \in SUBSET Requests, Worker!Take(S) PROVE Link'
    BY <1>1, <1>2, <1>3 DEF Link, Worker!Take, Worker!Stages
<1>4. ASSUME NEW r \in Requests, Worker!Deliver(r) PROVE Link'
    BY <1>1, <1>2, <1>4 DEF Link, Worker!Deliver
<1>5. ASSUME NEW r \in Requests, Worker!Confirm(r) PROVE Link'
    BY <1>1, <1>2, <1>5 DEF Link, Worker!Confirm, Worker!Stages
<1> QED
    BY <1>3, <1>4, <1>5 DEF Work

\* The link of the two sides holds throughout.
THEOREM LinkHolds == PipelineSpec => []Link
<1>1. PipelineInit => Link
    BY DEF PipelineInit, Init, Worker!Init, Worker!Stages, Link, Registered, InEffect
<1>2. IInv /\ (\A r \in Requests : Whole(r)) /\ Link /\ [PipelineNext]_pvars => Link'
    <2> SUFFICES ASSUME IInv, \A r \in Requests : Whole(r), Link, [PipelineNext]_pvars
                 PROVE  Link'
        OBVIOUS
    <2>1. CASE UNCHANGED pvars
        BY <2>1 DEF pvars, vars, tables, Link, Registered, InEffect, HasImages
    <2> QED
        BY <2>1, RegisterKeepsLink, WorkKeepsLink DEF PipelineNext
<1> QED
    BY <1>1, <1>2, PipelineRegisters, InvariantHolds, WholeHolds, PTL DEF PipelineSpec

-----------------------------------------------------------------------------
(* What the readers of the topic may rely on. *)

\* However many requests run and whatever fails, an event in the topic is of a
\* committed form with images, its product and category are there, and so is its
\* data, but for a commit whose answer was lost.
THEOREM TopicHoldsTrueEvents == PipelineSpec => []TopicIsTrue
<1>1. Link /\ (\A r \in Requests : Whole(r)) /\ CommittedEventHasData => TopicIsTrue
    BY DEF Link, Registered, Whole, CommittedEventHasData, TopicIsTrue
<1> QED
    BY <1>1, LinkHolds, PipelineRegisters, WholeHolds, CommittedEventsHaveData, PTL

\* However many requests run and whatever fails, nothing goes to the topic for a
\* form whose client was told 200 or 400, and the event of one whose client was
\* told 201 is on its way and is never withdrawn.
THEOREM AnswersMatchTopic == PipelineSpec => []AnswerMatchesTopic
<1>1. Link /\ AnswerIsTrue => AnswerMatchesTopic
    <2> SUFFICES ASSUME Link, AnswerIsTrue, NEW r \in Requests
                 PROVE  /\ Answer(r) = 201 => stage[r] # "none"
                        /\ Answer(r) \in {200, 400} => stage[r] = "none" /\ copies[r] = 0
        BY DEF AnswerMatchesTopic
    <2>1. /\ Answer(r) = 201 => event[r] = "committed"
          /\ Answer(r) \in {200, 400} => event[r] = "none"
        BY DEF AnswerIsTrue
    <2> QED
        BY <2>1 DEF Link
<1> QED
    BY <1>1, LinkHolds, PipelineRegisters, AnswersAreTrue, PTL

\* Fed by registrations, the outbox keeps its contract, and its worker does not
\* disturb theirs: the two specifications hold of the composition together.
THEOREM PipelineKeepsContracts == PipelineSpec => Worker!Spec /\ RegistersAtomically
<1>1. PipelineInit => Worker!Init
    BY DEF PipelineInit
<1>2. [PipelineNext]_pvars => [Worker!Next]_(Worker!cvars)
    <2>1. Register => [Worker!Next]_(Worker!cvars)
        BY DEF Register, Worker!Next, Worker!cvars
    <2>2. Work => Worker!Next
        BY DEF Work, Worker!Next
    <2> QED
        BY <2>1, <2>2 DEF PipelineNext, pvars, Worker!cvars
<1> QED
    BY <1>1, <1>2, PipelineRegisters, RegistrationImplementsContract, PTL
       DEF PipelineSpec, Worker!Spec
=============================================================================
