---------------------------- MODULE OutboxProofs ----------------------------
(***************************************************************************)
(* Proofs about Outbox: its type invariant, the ownership of events, the   *)
(* absence of lost wakeups, and the refinement of OutboxContract, for any  *)
(* set of processes, any set of rows, any batch limit and any combination  *)
(* of failures.                                                            *)
(***************************************************************************)
EXTENDS Outbox, FiniteSetTheorems, WellFoundedInduction, TLAPS

-----------------------------------------------------------------------------
(* Facts about the operators of the model. *)

\* A goroutine is a process together with which of the two it is.
LEMMA ThreadFacts ==
    /\ \A t \in Threads : t[1] \in Nodes /\ t[2] \in {"run", "listen"} /\ t = <<t[1], t[2]>>
    /\ \A n \in Nodes : <<n, "run">> \in Threads /\ <<n, "listen">> \in Threads
BY DEF Threads

\* The mark of an empty hand is not a row.
LEMMA NoEventIsNotAnEvent == NoEvent \notin Events
BY EventsAssumption DEF NoEvent

\* A claim takes rows from where it is told to.
LEMMA OldestSubset ==
    ASSUME NEW S, NEW k
    PROVE  Oldest(S, k) \subseteq S
BY DEF Oldest

\* A non-empty set of rows has an oldest one.
LEMMA HasOldest ==
    ASSUME NEW S \in SUBSET Nat, S # {}
    PROVE  \E e \in S : \A f \in S : ~(f < e)
<1> DEFINE R == {ss \in Nat \X Nat : ss[1] < ss[2]}
<1>1. IsWellFoundedOn(R, Nat)
    BY NatLessThanWellFounded DEF OpToRel
<1> HIDE DEF R
<1>2. PICK e \in S : \A f \in S : ~(<<f, e>> \in R)
    BY <1>1, WFMin
<1>3. \A f \in S : ~(f < e)
    BY <1>2 DEF R
<1> QED
    BY <1>3

\* A claim comes back empty only when there is nothing to claim: this is what
\* entitles processBatch to take an empty answer for the end of the drain.
LEMMA OldestNonEmpty ==
    ASSUME NEW S \in SUBSET Nat, S # {}, NEW k \in Nat \ {0}
    PROVE  Oldest(S, k) # {}
<1>1. PICK e \in S : \A f \in S : ~(f < e)
    BY HasOldest
<1>2. {f \in S : f < e} = {}
    BY <1>1
<1>3. Cardinality({f \in S : f < e}) = 0
    BY <1>2, FS_EmptySet
<1> QED
    BY <1>3 DEF Oldest

-----------------------------------------------------------------------------
(* Type correctness. *)

\* Every step keeps the types.
LEMMA TypeStep == TypeOK /\ [Next]_vars => TypeOK'
<1> SUFFICES ASSUME TypeOK, [Next]_vars
             PROVE  TypeOK'
    OBVIOUS
<1> USE ThreadFacts, MaxCopiesAssumption
<1> USE DEF TypeOK, DrainPcs, RunPcs, ListenPcs, db, hands, sub, kafka, Goto
<1>1. ASSUME NEW e \in Events, CommitEvent(e) PROVE TypeOK'
    BY <1>1 DEF CommitEvent
<1>2. ASSUME NEW t \in Threads, Drain(t) PROVE TypeOK'
    <2>1. CASE ClaimQuery(t)
        BY <2>1, OldestSubset DEF ClaimQuery, Claimable, Pending, Forgotten
    <2>2. CASE ClaimCommit(t)
        BY <2>2 DEF ClaimCommit, MarkProcessing, AfterDrain
    <2>3. CASE ClaimFail(t)
        BY <2>3 DEF ClaimFail, AfterFailure, Pending
    <2>11. CASE ClaimForgotten(t)
        BY <2>11 DEF ClaimForgotten, AfterFailure, Pending
    <2>4. CASE ClaimCommitLost(t)
        BY <2>4 DEF ClaimCommitLost, MarkProcessing, AfterFailure, Pending
    <2>5. CASE SendStart(t)
        BY <2>5 DEF SendStart
    <2>6. CASE BatchDone(t)
        BY <2>6 DEF BatchDone
    <2>7. CASE SendOk(t)
        BY <2>7 DEF SendOk
    <2>8. CASE SendFail(t)
        BY <2>8 DEF SendFail
    <2>9. CASE MarkOk(t)
        BY <2>9 DEF MarkOk
    <2>10. CASE MarkFail(t)
        BY <2>10 DEF MarkFail
    <2> QED
        BY <1>2, <2>1, <2>2, <2>3, <2>4, <2>5, <2>6, <2>7, <2>8, <2>9, <2>10, <2>11 DEF Drain
<1>3. ASSUME NEW n \in Nodes, GoDown(n) PROVE TypeOK'
    BY <1>3 DEF GoDown, Pending
<1>4. ASSUME NEW n \in Nodes, Listen(n) PROVE TypeOK'
    <2>1. CASE ConnectOk(n)
        BY <2>1 DEF ConnectOk
    <2>2. CASE ConnectFail(n)
        BY <2>2 DEF ConnectFail
    <2>3. CASE LoopHead(n)
        BY <2>3 DEF LoopHead
    <2>4. CASE WaitEnds(n)
        BY <2>4 DEF WaitEnds
    <2>5. CASE Notified(n)
        <3>1. notif[n] - 1 \in Nat
            BY <2>5 DEF Notified
        <3> QED
            BY <2>5, <3>1 DEF Notified
    <2>6. CASE LossDetected(n)
        BY <2>6 DEF LossDetected, Pending
    <2>7. CASE RelistenFail(n)
        BY <2>7 DEF RelistenFail
    <2>8. CASE ReconnectFail(n)
        BY <2>8 DEF ReconnectFail
    <2>9. CASE ListenExit(n)
        BY <2>9 DEF ListenExit, Pending
    <2>10. CASE Panic(n)
        BY <2>10, <1>3 DEF Panic
    <2> QED
        BY <1>4, <2>1, <2>2, <2>3, <2>4, <2>5, <2>6, <2>7, <2>8, <2>9, <2>10 DEF Listen
<1>5. ASSUME NEW n \in Nodes, Writer(n) PROVE TypeOK'
    <2>1. PICK e \in Events : BrokerAppend(n, e) \/ WriterDrop(n, e)
        BY <1>5 DEF Writer
    <2>2. CASE BrokerAppend(n, e)
        <3>1. copies[e] + 1 \in 0 .. MaxCopies
            BY <2>2 DEF BrokerAppend
        <3> QED
            BY <2>2, <3>1 DEF BrokerAppend
    <2>3. CASE WriterDrop(n, e)
        BY <2>3 DEF WriterDrop
    <2> QED
        BY <2>1, <2>2, <2>3
<1>6. ASSUME NEW n \in Nodes, ConnLost(n) \/ Start(n) \/ Stop(n) \/ RunExit(n)
      PROVE  TypeOK'
    <2>1. CASE ConnLost(n)
        BY <2>1 DEF ConnLost
    <2>2. CASE Start(n)
        BY <2>2 DEF Start
    <2>3. CASE Stop(n)
        BY <2>3 DEF Stop
    <2>4. CASE RunExit(n)
        BY <2>4 DEF RunExit
    <2> QED
        BY <1>6, <2>1, <2>2, <2>3, <2>4
<1>7. ASSUME NEW n \in Nodes, Terminate(n) \/ Crash(n) PROVE TypeOK'
    BY <1>7, <1>3 DEF Terminate, Crash
<1>8. CASE UNCHANGED vars
    BY <1>8 DEF vars
<1> QED
    BY <1>1, <1>2, <1>4, <1>5, <1>6, <1>7, <1>8 DEF Next

\* Every reachable state is well typed: the statuses, the goroutines' places
\* and the bounds on copies are the ones the code has.
THEOREM TypeCorrect == Spec => []TypeOK
<1>1. Init => TypeOK
    BY MaxCopiesAssumption
       DEF Init, TypeOK, DrainPcs, RunPcs, ListenPcs, Threads
<1> QED
    BY <1>1, TypeStep, PTL DEF Spec

-----------------------------------------------------------------------------
(* Ownership of the events. *)

\* A step that moves no event and submits none disturbs only the places.
LEMMA QuietStep ==
    ASSUME Ownership,
           UNCHANGED <<status, claim, batch, cur, copies>>,
           \A n \in Nodes : wire'[n] \subseteq wire[n]
    PROVE  HeldStatus' /\ ClaimExclusive' /\ NoDuplicateSend' /\ ProcessedWasDelivered'
<1> USE DEF Ownership
<1>1. HeldStatus'
    BY DEF HeldStatus, InHand
<1>2. ClaimExclusive'
    BY DEF ClaimExclusive, InHand
<1>3. NoDuplicateSend'
    BY DEF NoDuplicateSend
<1>4. ProcessedWasDelivered'
    BY DEF ProcessedWasDelivered
<1> QED
    BY <1>1, <1>2, <1>3, <1>4

\* Places of the drain at which a goroutine may hold something.
HoldingPcs == {"claimed", "next", "sending", "mark"}

\* A goroutine that holds nothing moves to another such place.
LEMMA EmptyHandedStep ==
    ASSUME Ownership, NEW t \in Threads, NEW l,
           Goto(t, l),
           pc[t] \notin HoldingPcs \cup {"off"}, l \notin HoldingPcs \cup {"off"},
           UNCHANGED <<claim, batch, cur, copies, mode>>
    PROVE  Shape' /\ DownIsOff'
<1> USE ThreadFacts DEF Ownership, TypeOK, Goto, HoldingPcs
<1>1. Shape'
    BY DEF Shape
<1>2. DownIsOff'
    BY DEF DownIsOff
<1> QED
    BY <1>1, <1>2

\* The listener's own steps are made with empty hands.
LEMMA ListenStep ==
    ASSUME Ownership, NEW n \in Nodes, Listen(n), ~Panic(n)
    PROVE  /\ Shape' /\ DownIsOff' /\ HeldStatus'
           /\ ClaimExclusive' /\ NoDuplicateSend' /\ ProcessedWasDelivered'
<1> DEFINE t == <<n, "listen">>
<1>1. t \in Threads
    BY ThreadFacts
<1>2. /\ UNCHANGED <<status, claim, batch, cur, copies, wire, mode>>
      /\ pc[t] \in {"connect", "loop", "wait", "reconnect", "nilconn"}
      /\ \E l \in {"claim", "loop", "wait", "reconnect", "nilconn", "exited"} : Goto(t, l)
    BY DEF Listen, ConnectOk, ConnectFail, LoopHead, WaitEnds, Notified, LossDetected,
           RelistenFail, ReconnectFail, ListenExit, db, hands, kafka
<1>3. Shape' /\ DownIsOff'
    BY <1>1, <1>2, EmptyHandedStep DEF HoldingPcs
<1> QED
    BY <1>2, <1>3, QuietStep

\* A process that goes down drops what it holds and touches no row.
LEMMA GoDownStep ==
    ASSUME Ownership, NEW n \in Nodes, GoDown(n)
    PROVE  /\ Shape' /\ DownIsOff' /\ HeldStatus'
           /\ ClaimExclusive' /\ NoDuplicateSend' /\ ProcessedWasDelivered'
<1> USE ThreadFacts, NoEventIsNotAnEvent DEF Ownership, TypeOK, GoDown
<1>1. Shape'
    BY DEF Shape
<1>2. DownIsOff'
    BY DEF DownIsOff
<1>3. \A t \in Threads : claim'[t] \subseteq claim[t] /\ batch'[t] \subseteq batch[t]
                          /\ InHand(t)' \subseteq InHand(t)
    BY DEF InHand
<1>4. HeldStatus'
    BY <1>3 DEF HeldStatus
<1>5. ClaimExclusive'
    BY <1>3 DEF ClaimExclusive
<1>6. NoDuplicateSend'
    BY <1>3 DEF NoDuplicateSend
<1>7. ProcessedWasDelivered'
    BY DEF ProcessedWasDelivered
<1> QED
    BY <1>1, <1>2, <1>4, <1>5, <1>6, <1>7

\* The steps of a drain: claim, send, mark, and their failures.
LEMMA DrainStep ==
    ASSUME Ownership, TypeOK', NEW t \in Threads, Drain(t)
    PROVE  /\ Shape' /\ DownIsOff' /\ HeldStatus'
           /\ ClaimExclusive' /\ NoDuplicateSend' /\ ProcessedWasDelivered'
<1> USE ThreadFacts, NoEventIsNotAnEvent
    DEF Ownership, TypeOK, Goto, db, hands, sub, kafka
<1>1. CASE ClaimQuery(t)
    <2>1. Shape'
        BY <1>1 DEF ClaimQuery, Shape
    <2>2. DownIsOff'
        BY <1>1 DEF ClaimQuery, DownIsOff
    <2>3. HeldStatus'
        BY <1>1 DEF ClaimQuery, HeldStatus, InHand, Claimable, Pending, Locked, Oldest
    <2>4. ClaimExclusive'
        BY <1>1 DEF ClaimQuery, ClaimExclusive, HeldStatus, InHand, Claimable, Pending, Locked, Oldest
    <2>5. NoDuplicateSend'
        BY <1>1 DEF ClaimQuery, NoDuplicateSend, Claimable, Pending, Oldest
    <2>6. ProcessedWasDelivered'
        BY <1>1 DEF ClaimQuery, ProcessedWasDelivered
    <2> QED
        BY <2>1, <2>2, <2>3, <2>4, <2>5, <2>6
<1>2. CASE ClaimCommit(t)
    <2>1. Shape'
        BY <1>2 DEF ClaimCommit, Shape, MarkProcessing, AfterDrain, HeldStatus, ClaimExclusive
    <2>2. DownIsOff'
        BY <1>2 DEF ClaimCommit, DownIsOff, MarkProcessing, AfterDrain, Shape, HeldStatus, ClaimExclusive
    <2>3. HeldStatus'
        BY <1>2 DEF ClaimCommit, HeldStatus, InHand, MarkProcessing, AfterDrain, Shape, ClaimExclusive
    <2>4. ClaimExclusive'
        BY <1>2 DEF ClaimCommit, ClaimExclusive, InHand, MarkProcessing, AfterDrain, Shape, HeldStatus
    <2>5. NoDuplicateSend'
        BY <1>2 DEF ClaimCommit, NoDuplicateSend, MarkProcessing, AfterDrain, Shape, HeldStatus, ClaimExclusive
    <2>6. ProcessedWasDelivered'
        BY <1>2 DEF ClaimCommit, ProcessedWasDelivered, MarkProcessing, AfterDrain, Shape, HeldStatus, ClaimExclusive
    <2> QED
        BY <2>1, <2>2, <2>3, <2>4, <2>5, <2>6
<1>3. CASE ClaimFail(t)
    <2>1. Shape'
        BY <1>3 DEF ClaimFail, Shape, AfterFailure
    <2>2. DownIsOff'
        BY <1>3 DEF ClaimFail, DownIsOff, AfterFailure
    <2>3. HeldStatus'
        BY <1>3 DEF ClaimFail, HeldStatus, InHand, AfterFailure
    <2>4. ClaimExclusive'
        BY <1>3 DEF ClaimFail, ClaimExclusive, InHand, AfterFailure
    <2>5. NoDuplicateSend'
        BY <1>3 DEF ClaimFail, NoDuplicateSend, AfterFailure
    <2>6. ProcessedWasDelivered'
        BY <1>3 DEF ClaimFail, ProcessedWasDelivered, AfterFailure
    <2> QED
        BY <2>1, <2>2, <2>3, <2>4, <2>5, <2>6
<1>11. CASE ClaimForgotten(t)
    <2>1. Shape'
        BY <1>11 DEF ClaimForgotten, Shape, AfterFailure
    <2>2. DownIsOff'
        BY <1>11 DEF ClaimForgotten, DownIsOff, AfterFailure
    <2>3. HeldStatus'
        BY <1>11 DEF ClaimForgotten, HeldStatus, InHand, AfterFailure
    <2>4. ClaimExclusive'
        BY <1>11 DEF ClaimForgotten, ClaimExclusive, InHand, AfterFailure
    <2>5. NoDuplicateSend'
        BY <1>11 DEF ClaimForgotten, NoDuplicateSend, AfterFailure
    <2>6. ProcessedWasDelivered'
        BY <1>11 DEF ClaimForgotten, ProcessedWasDelivered, AfterFailure
    <2> QED
        BY <2>1, <2>2, <2>3, <2>4, <2>5, <2>6
<1>4. CASE ClaimCommitLost(t)
    <2>1. Shape'
        BY <1>4 DEF ClaimCommitLost, Shape, MarkProcessing, AfterFailure, HeldStatus, ClaimExclusive
    <2>2. DownIsOff'
        BY <1>4 DEF ClaimCommitLost, DownIsOff, MarkProcessing, AfterFailure, Shape, HeldStatus, ClaimExclusive
    <2>3. HeldStatus'
        BY <1>4 DEF ClaimCommitLost, HeldStatus, InHand, MarkProcessing, AfterFailure, Shape, ClaimExclusive
    <2>4. ClaimExclusive'
        BY <1>4 DEF ClaimCommitLost, ClaimExclusive, InHand, MarkProcessing, AfterFailure, Shape, HeldStatus
    <2>5. NoDuplicateSend'
        BY <1>4 DEF ClaimCommitLost, NoDuplicateSend, MarkProcessing, AfterFailure, Shape, HeldStatus, ClaimExclusive
    <2>6. ProcessedWasDelivered'
        BY <1>4 DEF ClaimCommitLost, ProcessedWasDelivered, MarkProcessing, AfterFailure, Shape, HeldStatus, ClaimExclusive
    <2> QED
        BY <2>1, <2>2, <2>3, <2>4, <2>5, <2>6
<1>5. CASE SendStart(t)
    <2>1. Shape'
        BY <1>5 DEF SendStart, Shape, HeldStatus, ClaimExclusive, InHand
    <2>2. DownIsOff'
        BY <1>5 DEF SendStart, DownIsOff, Shape, HeldStatus, ClaimExclusive, InHand
    <2>3. HeldStatus'
        BY <1>5 DEF SendStart, HeldStatus, InHand, Shape, ClaimExclusive
    <2>4. ClaimExclusive'
        BY <1>5 DEF SendStart, ClaimExclusive, InHand, Shape, HeldStatus
    <2>5. NoDuplicateSend'
        BY <1>5 DEF SendStart, NoDuplicateSend, Shape, HeldStatus, ClaimExclusive, InHand
    <2>6. ProcessedWasDelivered'
        BY <1>5 DEF SendStart, ProcessedWasDelivered, Shape, HeldStatus, ClaimExclusive, InHand
    <2> QED
        BY <2>1, <2>2, <2>3, <2>4, <2>5, <2>6
<1>6. CASE BatchDone(t)
    <2>1. Shape'
        BY <1>6 DEF BatchDone, Shape
    <2>2. DownIsOff'
        BY <1>6 DEF BatchDone, DownIsOff
    <2>3. UNCHANGED <<status, claim, batch, cur, copies>> /\ \A n \in Nodes : wire'[n] \subseteq wire[n]
        BY <1>6 DEF BatchDone
    <2> QED
        BY <2>1, <2>2, <2>3, QuietStep
<1>7. CASE SendOk(t)
    <2>1. Shape'
        BY <1>7 DEF SendOk, Shape
    <2>2. DownIsOff'
        BY <1>7 DEF SendOk, DownIsOff
    <2>3. UNCHANGED <<status, claim, batch, cur, copies>> /\ \A n \in Nodes : wire'[n] \subseteq wire[n]
        BY <1>7 DEF SendOk
    <2> QED
        BY <2>1, <2>2, <2>3, QuietStep
<1>8. CASE SendFail(t)
    <2>1. Shape'
        BY <1>8 DEF SendFail, Shape
    <2>2. DownIsOff'
        BY <1>8 DEF SendFail, DownIsOff, Shape
    <2>3. HeldStatus'
        BY <1>8 DEF SendFail, HeldStatus, InHand, Shape
    <2>4. ClaimExclusive'
        BY <1>8 DEF SendFail, ClaimExclusive, InHand, Shape
    <2>5. NoDuplicateSend'
        BY <1>8 DEF SendFail, NoDuplicateSend, Shape
    <2>6. ProcessedWasDelivered'
        BY <1>8 DEF SendFail, ProcessedWasDelivered, Shape
    <2> QED
        BY <2>1, <2>2, <2>3, <2>4, <2>5, <2>6
<1>9. CASE MarkOk(t)
    <2>1. Shape'
        BY <1>9 DEF MarkOk, Shape, HeldStatus, ClaimExclusive, InHand
    <2>2. DownIsOff'
        BY <1>9 DEF MarkOk, DownIsOff, Shape, HeldStatus, ClaimExclusive, InHand
    <2>3. HeldStatus'
        BY <1>9 DEF MarkOk, HeldStatus, InHand, Shape, ClaimExclusive
    <2>4. ClaimExclusive'
        BY <1>9 DEF MarkOk, ClaimExclusive, InHand, Shape, HeldStatus
    <2>5. NoDuplicateSend'
        BY <1>9 DEF MarkOk, NoDuplicateSend, Shape, HeldStatus, ClaimExclusive, InHand
    <2>6. ProcessedWasDelivered'
        BY <1>9 DEF MarkOk, ProcessedWasDelivered, Shape, HeldStatus, ClaimExclusive, InHand
    <2> QED
        BY <2>1, <2>2, <2>3, <2>4, <2>5, <2>6
<1>10. CASE MarkFail(t)
    <2>1. Shape'
        BY <1>10 DEF MarkFail, Shape
    <2>2. DownIsOff'
        BY <1>10 DEF MarkFail, DownIsOff, Shape
    <2>3. HeldStatus'
        BY <1>10 DEF MarkFail, HeldStatus, InHand, Shape
    <2>4. ClaimExclusive'
        BY <1>10 DEF MarkFail, ClaimExclusive, InHand, Shape
    <2>5. NoDuplicateSend'
        BY <1>10 DEF MarkFail, NoDuplicateSend, Shape
    <2>6. ProcessedWasDelivered'
        BY <1>10 DEF MarkFail, ProcessedWasDelivered, Shape
    <2> QED
        BY <2>1, <2>2, <2>3, <2>4, <2>5, <2>6
<1> QED
    BY <1>1, <1>2, <1>3, <1>4, <1>5, <1>6, <1>7, <1>8, <1>9, <1>10, <1>11 DEF Drain

\* The Kafka writer adds copies only of events already taken.
LEMMA WriterStep ==
    ASSUME Ownership, TypeOK', NEW n \in Nodes, Writer(n)
    PROVE  /\ Shape' /\ DownIsOff' /\ HeldStatus'
           /\ ClaimExclusive' /\ NoDuplicateSend' /\ ProcessedWasDelivered'
<1> USE ThreadFacts, NoEventIsNotAnEvent
    DEF Ownership, TypeOK, db, hands, sub
<1>1. PICK e \in Events : BrokerAppend(n, e) \/ WriterDrop(n, e)
    BY DEF Writer
<1>2. CASE BrokerAppend(n, e)
    <2>1. Shape'
        BY <1>2 DEF BrokerAppend, Shape
    <2>2. DownIsOff'
        BY <1>2 DEF BrokerAppend, DownIsOff
    <2>3. HeldStatus' /\ ClaimExclusive'
        BY <1>2 DEF BrokerAppend, HeldStatus, ClaimExclusive, InHand
    <2>4. NoDuplicateSend'
        BY <1>2 DEF BrokerAppend, NoDuplicateSend
    <2>5. ProcessedWasDelivered'
        BY <1>2 DEF BrokerAppend, ProcessedWasDelivered
    <2> QED
        BY <2>1, <2>2, <2>3, <2>4, <2>5
<1>3. CASE WriterDrop(n, e)
    <2>1. Shape' /\ DownIsOff'
        BY <1>3 DEF WriterDrop, Shape, DownIsOff
    <2>2. UNCHANGED <<status, claim, batch, cur, copies>> /\ \A m \in Nodes : wire'[m] \subseteq wire[m]
        BY <1>3 DEF WriterDrop
    <2> QED
        BY <2>1, <2>2, QuietStep
<1> QED
    BY <1>1, <1>2, <1>3

\* A registration adds a pending row that nobody holds.
LEMMA CommitEventStep ==
    ASSUME Ownership, NEW e \in Events, CommitEvent(e)
    PROVE  /\ Shape' /\ DownIsOff' /\ HeldStatus'
           /\ ClaimExclusive' /\ NoDuplicateSend' /\ ProcessedWasDelivered'
<1> USE DEF Ownership, TypeOK, CommitEvent, hands, kafka
<1>1. Shape' /\ DownIsOff'
    BY DEF Shape, DownIsOff
<1>2. HeldStatus' /\ ClaimExclusive'
    BY DEF HeldStatus, ClaimExclusive, InHand
<1>3. NoDuplicateSend' /\ ProcessedWasDelivered'
    BY DEF NoDuplicateSend, ProcessedWasDelivered
<1> QED
    BY <1>1, <1>2, <1>3

\* Start, stop and the ways a process ends.
LEMMA ProcessStep ==
    ASSUME Ownership, NEW n \in Nodes, ConnLost(n) \/ Start(n) \/ Stop(n) \/ RunExit(n)
    PROVE  /\ Shape' /\ DownIsOff' /\ HeldStatus'
           /\ ClaimExclusive' /\ NoDuplicateSend' /\ ProcessedWasDelivered'
<1> USE ThreadFacts DEF Ownership, TypeOK, db, hands, sub, kafka
<1>1. UNCHANGED <<status, claim, batch, cur, wire, copies>>
    BY DEF ConnLost, Start, Stop, RunExit
<1> DEFINE R == <<n, "run">>
           L == <<n, "listen">>
<1>a. /\ R \in Threads /\ L \in Threads /\ R # L
      /\ \A t \in Threads : t[1] = n <=> t = R \/ t = L
    <2>1. R \in Threads /\ L \in Threads /\ R # L /\ R[1] = n /\ L[1] = n
        BY DEF Threads
    <2>2. ASSUME NEW t \in Threads, t[1] = n
          PROVE  t = R \/ t = L
        <3>1. t[2] = "run" \/ t[2] = "listen"
            BY ThreadFacts
        <3>2. t = <<n, t[2]>>
            BY <2>2, ThreadFacts
        <3> QED
            BY <3>1, <3>2
    <2> QED
        BY <2>1, <2>2
<1> HIDE DEF R, L
<1>b. ASSUME Start(n)
      PROVE  /\ pc'[R] = "claim" /\ pc'[L] = "connect"
             /\ pc[R] = "off" /\ pc[L] = "off"
             /\ \A t \in Threads : t # R /\ t # L => pc'[t] = pc[t]
    BY <1>a, <1>b DEF Start, DownIsOff, R, L
<1>2. Shape'
    <2>1. CASE ConnLost(n) \/ Stop(n)
        BY <2>1 DEF ConnLost, Stop, Shape
    <2>2. CASE Start(n)
        BY <1>1, <1>a, <1>b, <2>2 DEF Shape
    <2>3. CASE RunExit(n)
        BY <2>3 DEF RunExit, Goto, Shape
    <2> QED
        BY <2>1, <2>2, <2>3
<1>3. DownIsOff'
    <2>1. CASE ConnLost(n)
        BY <2>1 DEF ConnLost, DownIsOff
    <2>2. CASE Start(n)
        BY <1>a, <1>b, <2>2 DEF Start, DownIsOff
    <2>3. CASE Stop(n)
        BY <2>3 DEF Stop, DownIsOff
    <2>4. CASE RunExit(n)
        BY <2>4 DEF RunExit, Goto, DownIsOff
    <2> QED
        BY <2>1, <2>2, <2>3, <2>4
<1> QED
    BY <1>1, <1>2, <1>3, QuietStep

\* Ownership is inductive.
LEMMA OwnershipStep == Ownership /\ [Next]_vars => Ownership'
<1> SUFFICES ASSUME Ownership, [Next]_vars
             PROVE  Ownership'
    OBVIOUS
<1>1. TypeOK'
    BY TypeStep DEF Ownership
<1> DEFINE Rest == /\ Shape /\ DownIsOff /\ HeldStatus
                   /\ ClaimExclusive /\ NoDuplicateSend /\ ProcessedWasDelivered
<1>2. Rest'
    <2>1. ASSUME NEW e \in Events, CommitEvent(e) PROVE Rest'
        BY <2>1, CommitEventStep
    <2>2. ASSUME NEW t \in Threads, Drain(t) PROVE Rest'
        BY <2>2, <1>1, DrainStep
    <2>3. ASSUME NEW n \in Nodes, GoDown(n) PROVE Rest'
        BY <2>3, GoDownStep
    <2>4. ASSUME NEW n \in Nodes, Listen(n) PROVE Rest'
        BY <2>3, <2>4, ListenStep DEF Panic
    <2>5. ASSUME NEW n \in Nodes, Writer(n) PROVE Rest'
        BY <2>5, <1>1, WriterStep
    <2>6. ASSUME NEW n \in Nodes, ConnLost(n) \/ Start(n) \/ Stop(n) \/ RunExit(n)
          PROVE  Rest'
        BY <2>6, ProcessStep
    <2>7. ASSUME NEW n \in Nodes, Terminate(n) \/ Crash(n) PROVE Rest'
        BY <2>7, <2>3 DEF Terminate, Crash
    <2>8. CASE UNCHANGED vars
        BY <2>8 DEF vars, Ownership, Shape, DownIsOff, HeldStatus, ClaimExclusive,
                    NoDuplicateSend, ProcessedWasDelivered, InHand
    <2> QED
        BY <2>1, <2>2, <2>4, <2>5, <2>6, <2>7, <2>8 DEF Next
<1> QED
    BY <1>1, <1>2 DEF Ownership

\* Every reachable state satisfies the inductive invariant of the drain: who
\* holds which event, and in which status it then is.
THEOREM OwnershipHolds == Spec => []Ownership
<1>1. Init => Ownership
    <2> SUFFICES ASSUME Init
                 PROVE  Ownership
        OBVIOUS
    <2> USE ThreadFacts, NoEventIsNotAnEvent DEF Init
    <2>1. TypeOK
        BY MaxCopiesAssumption DEF TypeOK, DrainPcs, RunPcs, ListenPcs, Threads
    <2>2. Shape /\ DownIsOff
        BY DEF Shape, DownIsOff
    <2>3. HeldStatus /\ ClaimExclusive
        BY DEF HeldStatus, ClaimExclusive, InHand
    <2>4. NoDuplicateSend /\ ProcessedWasDelivered
        BY DEF NoDuplicateSend, ProcessedWasDelivered
    <2> QED
        BY <2>1, <2>2, <2>3, <2>4 DEF Ownership
<1> QED
    BY <1>1, OwnershipStep, PTL DEF Spec

\* FOR UPDATE SKIP LOCKED keeps every event in at most one goroutine's hands,
\* however many processes run and whatever fails.
THEOREM ClaimsAreExclusive == Spec => []ClaimExclusive
<1>1. Ownership => ClaimExclusive
    BY DEF Ownership
<1> QED
    BY <1>1, OwnershipHolds, PTL

\* No event is submitted to Kafka twice, across goroutines, processes and
\* restarts: once handed to the writer it is never claimable again.
THEOREM NothingIsSentTwice == Spec => []NoDuplicateSend
<1>1. Ownership => NoDuplicateSend
    BY DEF Ownership
<1> QED
    BY <1>1, OwnershipHolds, PTL

\* An event marked processed has a copy in the topic.
THEOREM ProcessedEventsWereDelivered == Spec => []ProcessedWasDelivered
<1>1. Ownership => ProcessedWasDelivered
    BY DEF Ownership
<1> QED
    BY <1>1, OwnershipHolds, PTL

-----------------------------------------------------------------------------
(* No wakeup is lost. *)

\* An event is on the hook of a goroutine or of a notification.
Hooked ==
    \A e \in Claimable \ missed :
        \/ \E t \in Threads : WillQuery(t)
        \/ \E n \in Nodes : notif[n] > 0

\* A notification is unread only while the listener that will read it lives.
UnreadHasReader ==
    \A n \in Nodes :
        /\ notif[n] > 0 => pc[<<n, "listen">>] \in DrainPcs \cup {"loop", "wait"}
        /\ conn[n] # "none" => pc[<<n, "listen">>] \in DrainPcs \cup {"loop", "wait"}

Wakeup == UnreadHasReader /\ Hooked

\* Only a listener that reads keeps a connection, so no notification is left unread.
LEMMA ReaderStep ==
    ASSUME Ownership, UnreadHasReader, [Next]_vars
    PROVE  UnreadHasReader'
<1> USE ThreadFacts DEF Ownership, TypeOK, UnreadHasReader, DrainPcs, Goto, db, hands, sub, kafka
<1>1. ASSUME NEW e \in Events, CommitEvent(e) PROVE UnreadHasReader'
    BY <1>1 DEF CommitEvent
<1>2. ASSUME NEW t \in Threads, Drain(t) PROVE UnreadHasReader'
    <2>1. UNCHANGED <<conn, notif>> /\ pc[t] \in DrainPcs
        BY <1>2 DEF Drain, ClaimQuery, ClaimCommit, ClaimFail, ClaimForgotten, ClaimCommitLost, SendStart,
                    BatchDone, SendOk, SendFail, MarkOk, MarkFail
    <2>2. \E l : Goto(t, l) /\ (t[2] = "listen" => l \in DrainPcs \cup {"loop"})
        BY <1>2 DEF Drain, ClaimQuery, ClaimCommit, ClaimFail, ClaimForgotten, ClaimCommitLost, SendStart,
                    BatchDone, SendOk, SendFail, MarkOk, MarkFail, AfterDrain, AfterFailure
    <2>3. \A n \in Nodes : pc'[<<n, "listen">>] = pc[<<n, "listen">>]
                           \/ pc'[<<n, "listen">>] \in DrainPcs \cup {"loop"}
        <3>1. PICK l : Goto(t, l) /\ (t[2] = "listen" => l \in DrainPcs \cup {"loop"})
            BY <2>2
        <3>2. TAKE n \in Nodes
        <3>3. CASE t = <<n, "listen">>
            BY <3>1, <3>3
        <3>4. CASE t # <<n, "listen">>
            BY <3>1, <3>4
        <3> QED
            BY <3>3, <3>4
    <2> QED
        BY <2>1, <2>3
<1>3. ASSUME NEW n \in Nodes, GoDown(n) PROVE UnreadHasReader'
    <2>1. /\ conn'[n] = "none" /\ notif'[n] = 0
          /\ \A m \in Nodes \ {n} : conn'[m] = conn[m] /\ notif'[m] = notif[m]
        BY <1>3 DEF GoDown
    <2>2. \A m \in Nodes \ {n} : pc'[<<m, "listen">>] = pc[<<m, "listen">>]
        BY <1>3 DEF GoDown
    <2>3. \A m \in Nodes : m = n \/ m \in Nodes \ {n}
        OBVIOUS
    <2>4. ~(0 > 0)
        OBVIOUS
    <2> QED
        BY Zenon, <2>1, <2>2, <2>3, <2>4
<1>4. ASSUME NEW n \in Nodes, Listen(n) PROVE UnreadHasReader'
    <2>1. CASE ConnectOk(n) \/ ConnectFail(n)
        <3>1. CASE ConnectOk(n)
            BY <3>1 DEF ConnectOk
        <3>2. CASE ConnectFail(n)
            BY <3>2 DEF ConnectFail
        <3> QED
            BY <2>1, <3>1, <3>2
    <2>2. CASE LoopHead(n) \/ WaitEnds(n) \/ Notified(n)
        BY <2>2 DEF LoopHead, WaitEnds, Notified
    <2>3. CASE LossDetected(n) \/ ListenExit(n)
        <3>1. /\ conn'[n] = "none" /\ notif'[n] = 0
              /\ \A m \in Nodes \ {n} : conn'[m] = conn[m] /\ notif'[m] = notif[m]
            BY <2>3 DEF LossDetected, ListenExit
        <3>2. \A m \in Nodes \ {n} : pc'[<<m, "listen">>] = pc[<<m, "listen">>]
            BY <2>3 DEF LossDetected, ListenExit
        <3>3. \A m \in Nodes : m = n \/ m \in Nodes \ {n}
            OBVIOUS
        <3>4. ~(0 > 0)
            OBVIOUS
        <3> QED
            BY Zenon, <3>1, <3>2, <3>3, <3>4
    <2>4. CASE RelistenFail(n)
        BY <2>4 DEF RelistenFail
    <2>5. CASE ReconnectFail(n)
        BY <2>5 DEF ReconnectFail
    <2>6. CASE Panic(n)
        BY <2>6, <1>3 DEF Panic
    <2> QED
        BY <1>4, <2>1, <2>2, <2>3, <2>4, <2>5, <2>6 DEF Listen
<1>5. ASSUME NEW n \in Nodes, Writer(n) PROVE UnreadHasReader'
    BY <1>5 DEF Writer, BrokerAppend, WriterDrop
<1>6. ASSUME NEW n \in Nodes, ConnLost(n) \/ Start(n) \/ Stop(n) \/ RunExit(n)
      PROVE  UnreadHasReader'
    <2>1. CASE ConnLost(n)
        BY <2>1 DEF ConnLost
    <2>2. CASE Start(n)
        <3>1. pc[<<n, "listen">>] = "off"
            BY <2>2 DEF Start, DownIsOff
        <3> QED
            BY <2>2, <3>1 DEF Start
    <2>3. CASE Stop(n) \/ RunExit(n)
        BY <2>3 DEF Stop, RunExit
    <2> QED
        BY <1>6, <2>1, <2>2, <2>3
<1>7. ASSUME NEW n \in Nodes, Terminate(n) \/ Crash(n) PROVE UnreadHasReader'
    BY <1>7, <1>3 DEF Terminate, Crash
<1>8. CASE UNCHANGED vars
    BY <1>8 DEF vars
<1> QED
    BY <1>1, <1>2, <1>4, <1>5, <1>6, <1>7, <1>8 DEF Next

\* A step that keeps every hook, uncovers no row and forgets no loss.
LEMMA HooksKept ==
    ASSUME Hooked,
           Claimable' \subseteq Claimable, missed \subseteq missed',
           \A t \in Threads : WillQuery(t) => WillQuery(t)',
           \A n \in Nodes : notif[n] > 0 => notif'[n] > 0
    PROVE  Hooked'
BY DEF Hooked

\* A step after which every pending event counts as missed.
LEMMA AllMissed ==
    ASSUME Pending' \subseteq Pending, missed' = Pending
    PROVE  Hooked'
BY DEF Hooked, Claimable

\* A drain leaves a row only to a goroutine that queries again.
LEMMA DrainKeepsWakeup ==
    ASSUME Ownership, Hooked, NEW t \in Threads, Drain(t)
    PROVE  Hooked'
<1> USE ThreadFacts, NoEventIsNotAnEvent DEF Ownership, TypeOK, Goto, db, hands, sub, kafka
<1>1. CASE ClaimQuery(t)
    <2>1. Claimable' \subseteq Claimable
        <3>1. \A u \in Threads : claim[u] \subseteq claim'[u]
            BY <1>1 DEF ClaimQuery, Shape
        <3>2. Locked \subseteq Locked'
            BY <1>1, <3>1 DEF ClaimQuery, Locked, Forgotten
        <3>3. Pending' = Pending
            BY <1>1 DEF ClaimQuery, Pending
        <3> QED
            BY <3>2, <3>3 DEF Claimable
    <2>2. claim'[t] = {} => Claimable = {}
        BY <1>1, OldestNonEmpty, EventsAssumption, BatchLimitAssumption
           DEF ClaimQuery, Claimable, Pending
    <2>3. claim'[t] # {} => WillQuery(t)'
        BY <1>1 DEF ClaimQuery, WillQuery
    <2> QED
        BY <2>1, <2>2, <2>3 DEF Hooked
<1>2. CASE ClaimCommit(t)
    <2>1. Pending' = Pending \ claim[t]
        BY <1>2 DEF ClaimCommit, MarkProcessing, Pending, HeldStatus
    <2>2. Locked \subseteq Locked' \cup claim[t]
        BY <1>2 DEF ClaimCommit, Locked, Forgotten
    <2>3. Claimable' \subseteq Claimable
        BY <2>1, <2>2 DEF Claimable
    <2>4. \A u \in Threads : WillQuery(u) => WillQuery(u)'
        BY <1>2 DEF ClaimCommit, WillQuery
    <2> QED
        BY <1>2, <2>3, <2>4, HooksKept DEF ClaimCommit
<1>3. CASE ClaimFail(t) \/ ClaimForgotten(t) \/ ClaimCommitLost(t)
    <2>1. Pending' \subseteq Pending
        BY <1>3 DEF ClaimFail, ClaimForgotten, ClaimCommitLost, MarkProcessing, Pending
    <2> QED
        BY <1>3, <2>1, AllMissed DEF ClaimFail, ClaimForgotten, ClaimCommitLost
<1>4. CASE SendStart(t) \/ BatchDone(t) \/ SendOk(t) \/ SendFail(t) \/ MarkOk(t) \/ MarkFail(t)
    <2>1. UNCHANGED <<claim, forgotten, notif, missed>>
        BY <1>4 DEF SendStart, BatchDone, SendOk, SendFail, MarkOk, MarkFail
    <2>2. Pending' \subseteq Pending
        BY <1>4 DEF SendStart, BatchDone, SendOk, SendFail, MarkOk, MarkFail, Pending
    <2>3. Claimable' \subseteq Claimable
        BY <2>1, <2>2 DEF Claimable, Locked, Forgotten
    <2>4. \A u \in Threads : WillQuery(u) => WillQuery(u)'
        BY <1>4 DEF SendStart, BatchDone, SendOk, SendFail, MarkOk, MarkFail, WillQuery
    <2> QED
        BY <2>1, <2>3, <2>4, HooksKept
<1> QED
    BY <1>1, <1>2, <1>3, <1>4 DEF Drain

\* A listener trades a notification for a query, and counts what it loses.
LEMMA ListenKeepsWakeup ==
    ASSUME Ownership, UnreadHasReader, Hooked, NEW n \in Nodes, Listen(n), ~Panic(n)
    PROVE  Hooked'
<1> USE ThreadFacts DEF Ownership, TypeOK, Goto, db, hands, sub, kafka
<1>1. UNCHANGED <<status, claim, forgotten>>
    BY DEF Listen, ConnectOk, ConnectFail, LoopHead, WaitEnds, Notified, LossDetected,
           RelistenFail, ReconnectFail, ListenExit
<1>2. Pending' = Pending /\ Claimable' = Claimable
    BY <1>1 DEF Pending, Claimable, Locked, Forgotten
<1>3. CASE LossDetected(n) \/ ListenExit(n)
    BY <1>2, <1>3, AllMissed DEF LossDetected, ListenExit
<1>4. CASE Notified(n)
    <2>1. WillQuery(<<n, "listen">>)'
        BY <1>4 DEF Notified, WillQuery
    <2> QED
        BY <2>1 DEF Hooked
<1>5. CASE ConnectOk(n) \/ ConnectFail(n) \/ LoopHead(n) \/ WaitEnds(n)
           \/ RelistenFail(n) \/ ReconnectFail(n)
    <2>1. missed' = missed
        BY <1>5 DEF ConnectOk, ConnectFail, LoopHead, WaitEnds, RelistenFail, ReconnectFail
    <2>2. \A m \in Nodes : notif[m] > 0 => notif'[m] > 0
        <3>1. CASE ConnectOk(n)
            <4>1. ~(notif[n] > 0)
                BY <3>1 DEF ConnectOk, UnreadHasReader, DrainPcs
            <4> QED
                BY <3>1, <4>1 DEF ConnectOk
        <3>4. CASE ConnectFail(n)
            BY <3>4 DEF ConnectFail
        <3>2. CASE LoopHead(n) \/ WaitEnds(n)
            BY <3>2 DEF LoopHead, WaitEnds
        <3>3. CASE RelistenFail(n) \/ ReconnectFail(n)
            BY <3>3 DEF RelistenFail, ReconnectFail, UnreadHasReader, DrainPcs
        <3> QED
            BY <1>5, <3>1, <3>4, <3>2, <3>3
    <2>3. \A u \in Threads : WillQuery(u) => WillQuery(u)'
        BY <1>1, <1>5 DEF ConnectOk, ConnectFail, LoopHead, WaitEnds, RelistenFail,
                          ReconnectFail, WillQuery
    <2> QED
        BY <1>2, <2>1, <2>2, <2>3, HooksKept
<1> QED
    BY <1>3, <1>4, <1>5 DEF Listen

\* No step drops the last hook of a pending row.
LEMMA WakeupStep ==
    ASSUME Ownership, Wakeup, [Next]_vars
    PROVE  Wakeup'
<1> USE ThreadFacts DEF Ownership, TypeOK, Wakeup, Goto, db, hands, sub, kafka
<1>1. ASSUME NEW e \in Events, CommitEvent(e) PROVE Hooked'
    <2>1. Claimable' \subseteq Claimable \cup {e}
        BY <1>1 DEF CommitEvent, Claimable, Pending, Locked, Forgotten
    <2>2. e \in missed' \/ \E n \in Nodes : notif'[n] > 0
        BY <1>1 DEF CommitEvent
    <2>3. \A n \in Nodes : notif[n] > 0 => notif'[n] > 0
        BY <1>1 DEF CommitEvent
    <2>4. missed \subseteq missed' /\ \A u \in Threads : WillQuery(u) => WillQuery(u)'
        BY <1>1 DEF CommitEvent, WillQuery
    <2> QED
        BY <2>1, <2>2, <2>3, <2>4 DEF Hooked
<1>2. ASSUME NEW n \in Nodes, GoDown(n) PROVE Hooked'
    BY <1>2, AllMissed DEF GoDown, Pending
<1>3. ASSUME NEW n \in Nodes, Listen(n) PROVE Hooked'
    BY <1>2, <1>3, ListenKeepsWakeup DEF Panic
<1>4. ASSUME NEW n \in Nodes, Writer(n) PROVE Hooked'
    BY <1>4 DEF Writer, BrokerAppend, WriterDrop, Hooked, Claimable, Pending, Locked,
                Forgotten, WillQuery
<1>5. ASSUME NEW n \in Nodes, ConnLost(n) \/ Start(n) \/ Stop(n) \/ RunExit(n)
      PROVE  Hooked'
    <2>1. UNCHANGED <<status, claim, forgotten, notif, missed>>
        BY <1>5 DEF ConnLost, Start, Stop, RunExit
    <2>2. Claimable' = Claimable
        BY <2>1 DEF Claimable, Pending, Locked, Forgotten
    <2>3. \A u \in Threads : WillQuery(u) => WillQuery(u)'
        <3>1. CASE ConnLost(n) \/ Stop(n)
            BY <2>1, <3>1 DEF ConnLost, Stop, WillQuery
        <3>2. CASE Start(n)
            <4>1. \A u \in Threads : pc'[u] = pc[u] \/ pc[u] = "off"
                BY <3>2 DEF Start, DownIsOff
            <4> QED
                BY <2>1, <4>1 DEF WillQuery
        <3>3. CASE RunExit(n)
            BY <2>1, <3>3 DEF RunExit, WillQuery
        <3> QED
            BY <1>5, <3>1, <3>2, <3>3
    <2> QED
        BY <2>1, <2>2, <2>3, HooksKept
<1>6. CASE UNCHANGED vars
    <2>1. Claimable' = Claimable
        BY <1>6 DEF vars, Claimable, Pending, Locked, Forgotten
    <2>2. \A u \in Threads : WillQuery(u) => WillQuery(u)'
        BY <1>6 DEF vars, WillQuery
    <2>3. missed \subseteq missed' /\ \A n \in Nodes : notif[n] > 0 => notif'[n] > 0
        BY <1>6 DEF vars
    <2>4. Claimable' \subseteq Claimable
        BY <2>1
    <2> QED
        BY <2>2, <2>3, <2>4, HooksKept, ReaderStep
<1> QED
    BY <1>1, <1>2, <1>3, <1>4, <1>5, <1>6, ReaderStep, DrainKeepsWakeup
       DEF Next, Terminate, Crash

\* Both halves hold in every reachable state.
LEMMA WakeupHolds == Spec => []Wakeup
<1>1. Init => Wakeup
    BY ThreadFacts DEF Init, Wakeup, UnreadHasReader, Hooked, Claimable, Pending
<1>2. Ownership /\ Wakeup /\ [Next]_vars => Wakeup'
    BY WakeupStep
<1> QED
    BY <1>1, <1>2, OwnershipHolds, PTL DEF Spec

\* An event is never left pending with nobody on the hook for it, except for
\* the losses that `missed' names: of a connection, a claim or a process.  An
\* unread notification counts only where a listener still reads it.
THEOREM NoWakeupIsLost == Spec => []NoLostWakeup
<1>1. Wakeup => NoLostWakeup
    BY DEF Wakeup, Hooked, UnreadHasReader, NoLostWakeup, Reads
<1> QED
    BY <1>1, WakeupHolds, PTL

-----------------------------------------------------------------------------
(* The refinement of OutboxContract. *)

\* What is in a writer stays unmarked while its sender waits.
LEMMA InWriterStep ==
    ASSUME Ownership, WriterHoldsTaken, [Next]_vars
    PROVE  WriterHoldsTaken'
<1> USE ThreadFacts, NoEventIsNotAnEvent
    DEF Ownership, TypeOK, WriterHoldsTaken, Goto, db, hands, sub, kafka
<1>1. ASSUME NEW e \in Events, CommitEvent(e) PROVE WriterHoldsTaken'
    BY <1>1 DEF CommitEvent
<1>2. ASSUME NEW t \in Threads, Drain(t) PROVE WriterHoldsTaken'
    <2>1. CASE ClaimQuery(t) \/ ClaimFail(t) \/ ClaimForgotten(t) \/ BatchDone(t)
        BY <2>1 DEF ClaimQuery, ClaimFail, ClaimForgotten, BatchDone, Shape
    <2>2. CASE ClaimCommit(t) \/ ClaimCommitLost(t)
        BY <2>2 DEF ClaimCommit, ClaimCommitLost, MarkProcessing, Shape
    <2>3. CASE SendStart(t)
        <3>1. PICK e \in batch[t] : /\ cur' = [cur EXCEPT ![t] = e]
                                    /\ wire' = [wire EXCEPT ![t[1]] = @ \cup {e}]
            BY <2>3 DEF SendStart
        <3>2. /\ status[e] = "processing"
              /\ \A n \in Nodes : e \notin wire[n]
              /\ \A u \in Threads : u # t => cur[u] # e
            <4>1. e \in Events /\ e \in InHand(t)
                BY <3>1 DEF InHand
            <4>2. status[e] = "processing"
                BY <4>1 DEF HeldStatus
            <4>3. \A n \in Nodes : e \notin wire[n]
                BY <3>1, <4>1 DEF NoDuplicateSend
            <4>4. \A u \in Threads : u # t => e \notin InHand(u)
                BY <4>1 DEF ClaimExclusive
            <4>5. \A u \in Threads : u # t => cur[u] # e
                BY <4>1, <4>4 DEF InHand
            <4> QED
                BY <4>2, <4>3, <4>5
        <3>3. status' = status /\ pc' = [pc EXCEPT ![t] = "sending"] /\ pc[t] = "next" /\ cur[t] = NoEvent
            BY <2>3 DEF SendStart, Shape
        <3> QED
            BY <3>1, <3>2, <3>3
    <2>4. CASE SendOk(t)
        BY <2>4 DEF SendOk, Shape
    <2>5. CASE SendFail(t) \/ MarkFail(t)
        BY <2>5 DEF SendFail, MarkFail
    <2>6. CASE MarkOk(t)
        BY <2>6 DEF MarkOk
    <2> QED
        BY <1>2, <2>1, <2>2, <2>3, <2>4, <2>5, <2>6 DEF Drain
<1>3. ASSUME NEW n \in Nodes, GoDown(n) PROVE WriterHoldsTaken'
    BY <1>3 DEF GoDown
<1>4. ASSUME NEW n \in Nodes, Listen(n) PROVE WriterHoldsTaken'
    <2>1. CASE Panic(n)
        BY <2>1, <1>3 DEF Panic
    <2>2. CASE ~Panic(n)
        <3>1. /\ UNCHANGED <<status, cur, wire>>
              /\ pc[<<n, "listen">>] \in {"connect", "loop", "wait", "reconnect", "nilconn"}
              /\ \E l : Goto(<<n, "listen">>, l)
            BY <1>4, <2>2
               DEF Listen, ConnectOk, ConnectFail, LoopHead, WaitEnds, Notified, LossDetected,
                   RelistenFail, ReconnectFail, ListenExit
        <3>2. \A t \in Threads : t = <<n, "listen">> \/ pc'[t] = pc[t]
            BY <3>1
        <3>3. \A t \in Threads : pc[t] = "sending" => pc'[t] = "sending"
            BY Zenon, <3>1, <3>2
        <3> QED
            BY <3>1, <3>3
    <2> QED
        BY <2>1, <2>2
<1>5. ASSUME NEW n \in Nodes, Writer(n) PROVE WriterHoldsTaken'
    <2>1. UNCHANGED <<status, cur, pc>>
        BY <1>5 DEF Writer, BrokerAppend, WriterDrop
    <2>2. \A m \in Nodes : wire'[m] \subseteq wire[m]
        BY <1>5 DEF Writer, BrokerAppend, WriterDrop
    <2> QED
        BY <2>1, <2>2
<1>6. ASSUME NEW n \in Nodes, ConnLost(n) \/ Start(n) \/ Stop(n) \/ RunExit(n)
      PROVE  WriterHoldsTaken'
    <2>1. UNCHANGED <<status, cur, wire>>
        BY <1>6 DEF ConnLost, Start, Stop, RunExit
    <2>2. \A t \in Threads : pc[t] = "sending" => pc'[t] = "sending"
        <3>1. CASE ConnLost(n) \/ Stop(n)
            BY <3>1 DEF ConnLost, Stop
        <3>2. CASE Start(n)
            <4>1. \A t \in Threads : pc'[t] = pc[t] \/ pc[t] = "off"
                BY <3>2 DEF Start, DownIsOff
            <4> QED
                BY <4>1
        <3>3. CASE RunExit(n)
            <4>1. pc[<<n, "run">>] = "idle"
                BY <3>3 DEF RunExit
            <4>2. \A t \in Threads : t = <<n, "run">> \/ pc'[t] = pc[t]
                BY <3>3 DEF RunExit
            <4> QED
                BY <4>1, <4>2
        <3> QED
            BY <1>6, <3>1, <3>2, <3>3
    <2> QED
        BY <2>1, <2>2
<1>7. ASSUME NEW n \in Nodes, Terminate(n) \/ Crash(n) PROVE WriterHoldsTaken'
    BY <1>7, <1>3 DEF Terminate, Crash
<1>8. CASE UNCHANGED vars
    BY <1>8 DEF vars
<1> QED
    BY <1>1, <1>2, <1>4, <1>5, <1>6, <1>7, <1>8 DEF Next

\* Nothing is marked while a Kafka writer may still be sending it.
THEOREM WriterIsSynchronous == Spec => []WriterHoldsTaken
<1>1. Init => WriterHoldsTaken
    BY DEF Init, WriterHoldsTaken
<1>2. Ownership /\ WriterHoldsTaken /\ [Next]_vars => WriterHoldsTaken'
    BY InWriterStep
<1> QED
    BY <1>1, <1>2, OwnershipHolds, PTL DEF Spec

\* Every step is a step of the contract, or a stutter.
LEMMA ContractStep ==
    ASSUME Ownership, WriterHoldsTaken, [Next]_vars
    PROVE  [Contract!Next]_(Contract!cvars)
<1> USE ThreadFacts, NoEventIsNotAnEvent
    DEF Ownership, TypeOK, Goto, db, hands, sub, kafka
<1> DEFINE Stutter == UNCHANGED <<status, copies>>
<1>0. ASSUME Stutter PROVE UNCHANGED Contract!cvars
    BY <1>0 DEF Contract!cvars, stage
<1>1. ASSUME NEW e \in Events, CommitEvent(e) PROVE Contract!Record(e)
    BY <1>1 DEF CommitEvent, Contract!Record, stage
<1>2. ASSUME NEW t \in Threads, ClaimCommit(t) \/ ClaimCommitLost(t)
      PROVE  Contract!Take(claim[t])
    BY <1>2 DEF ClaimCommit, ClaimCommitLost, MarkProcessing, HeldStatus, Contract!Take, stage
<1>3. ASSUME NEW t \in Threads, MarkOk(t) PROVE Contract!Confirm(cur[t]) /\ cur[t] \in Events
    <2>1. cur[t] \in Events /\ status[cur[t]] = "processing" /\ copies[cur[t]] > 0
        BY <1>3 DEF MarkOk, Shape, HeldStatus, InHand
    <2> QED
        BY <1>3, <2>1 DEF MarkOk, Contract!Confirm, stage
<1>4. ASSUME NEW n \in Nodes, NEW e \in Events, BrokerAppend(n, e) PROVE Contract!Deliver(e)
    <2>1. status[e] = "processing"
        BY <1>4 DEF BrokerAppend, WriterHoldsTaken
    <2> QED
        BY <1>4, <2>1 DEF BrokerAppend, Contract!Deliver, stage
<1>5. ASSUME NEW t \in Threads,
             ClaimQuery(t) \/ ClaimFail(t) \/ ClaimForgotten(t) \/ SendStart(t)
             \/ BatchDone(t) \/ SendOk(t) \/ SendFail(t) \/ MarkFail(t)
      PROVE  Stutter
    BY <1>5 DEF ClaimQuery, ClaimFail, ClaimForgotten, SendStart, BatchDone, SendOk, SendFail, MarkFail
<1>6. ASSUME NEW n \in Nodes, Listen(n) PROVE Stutter
    BY <1>6 DEF Listen, ConnectOk, ConnectFail, LoopHead, WaitEnds, Notified, LossDetected,
                RelistenFail, ReconnectFail, ListenExit, Panic, GoDown
<1>7. ASSUME NEW n \in Nodes, NEW e \in Events, WriterDrop(n, e) PROVE Stutter
    BY <1>7 DEF WriterDrop
<1>8. ASSUME NEW n \in Nodes,
             ConnLost(n) \/ Start(n) \/ Stop(n) \/ RunExit(n) \/ Terminate(n) \/ Crash(n)
      PROVE  Stutter
    BY <1>8 DEF ConnLost, Start, Stop, RunExit, Terminate, Crash, GoDown
<1>9. CASE UNCHANGED vars
    BY <1>9, <1>0 DEF vars
<1> QED
    <2>1. ASSUME NEW t \in Threads, Drain(t)
          PROVE  Stutter \/ Contract!Take(claim[t]) \/ (Contract!Confirm(cur[t]) /\ cur[t] \in Events)
        BY <1>2, <1>3, <1>5, <2>1 DEF Drain
    <2>2. ASSUME NEW t \in Threads, Drain(t) PROVE [Contract!Next]_(Contract!cvars)
        BY <1>0, <2>1, <2>2 DEF Contract!Next
    <2>3. ASSUME NEW n \in Nodes, Writer(n) PROVE [Contract!Next]_(Contract!cvars)
        BY <1>0, <1>4, <1>7, <2>3 DEF Writer, Contract!Next
    <2> QED
        BY <1>0, <1>1, <1>6, <1>8, <1>9, <2>2, <2>3 DEF Next, Contract!Next

\* The worker, with any number of processes and any failures, implements the
\* outbox contract: an event is recorded, taken, delivered and confirmed in
\* that order, and no step is ever undone.
THEOREM WorkerImplementsContract == Spec => ImplementsContract
<1>1. Init => Contract!Init
    BY DEF Init, Contract!Init, stage
<1>2. Ownership /\ WriterHoldsTaken /\ [Next]_vars => [Contract!Next]_(Contract!cvars)
    BY ContractStep
<1> QED
    BY <1>1, <1>2, OwnershipHolds, WriterIsSynchronous, PTL
       DEF Spec, ImplementsContract, Contract!Spec

-----------------------------------------------------------------------------
(* Who strands an event. *)

\* Whoever loses a row without a failure hands it on to itself: from the claim
\* to the batch, from the batch to the send, and from there to its mark.
LEMMA DrainStrandsNothing ==
    ASSUME Ownership, NEW e \in Events, ~Stranded(e), NEW t \in Threads, Drain(t),
           ~SendFail(t), ~MarkFail(t), ~ClaimCommitLost(t)
    PROVE  ~Stranded(e)'
<1> USE ThreadFacts, NoEventIsNotAnEvent
    DEF Ownership, TypeOK, Goto, db, hands, sub, kafka
<1> DEFINE Held(s) == claim[s] \cup InHand(s)
           NewlyHeld(s) == claim'[s] \cup InHand(s)'
<1>1. CASE ClaimQuery(t)
    <2>1. \A s \in Threads : InHand(s)' = InHand(s)
        BY <1>1 DEF ClaimQuery, InHand
    <2>2. claim[t] = {} /\ \A s \in Threads \ {t} : claim'[s] = claim[s]
        BY <1>1 DEF ClaimQuery, Shape
    <2>3. status' = status
        BY <1>1 DEF ClaimQuery
    <2> QED
        BY <2>1, <2>2, <2>3 DEF Stranded
<1>2. CASE ClaimCommit(t)
    <2>1. Held(t) \subseteq NewlyHeld(t) /\ \A s \in Threads \ {t} : NewlyHeld(s) = Held(s)
        <3>1. claim' = [claim EXCEPT ![t] = {}] /\ batch' = [batch EXCEPT ![t] = claim[t]] /\ cur' = cur
            BY <1>2 DEF ClaimCommit
        <3>2. batch[t] = {}
            BY <1>2 DEF ClaimCommit, Shape
        <3>3. \A s \in Threads \ {t} : claim'[s] = claim[s] /\ batch'[s] = batch[s] /\ cur'[s] = cur[s]
            BY <3>1
        <3>4. claim'[t] = {} /\ batch'[t] = claim[t] /\ cur'[t] = cur[t]
            BY <3>1
        <3> QED
            BY <3>2, <3>3, <3>4 DEF InHand
    <2>2. status'[e] # status[e] => e \in claim[t]
        BY <1>2 DEF ClaimCommit, MarkProcessing
    <2> QED
        BY <2>1, <2>2 DEF Stranded
<1>3. CASE ClaimFail(t) \/ ClaimForgotten(t)
    <2>1. status' = status /\ \A s \in Threads : InHand(s)' = InHand(s)
        BY <1>3 DEF ClaimFail, ClaimForgotten, InHand
    <2>2. \A s \in Threads \ {t} : claim'[s] = claim[s]
        BY <1>3 DEF ClaimFail, ClaimForgotten
    <2>3. e \in claim[t] => status[e] = "pending"
        BY DEF HeldStatus
    <2> QED
        BY <2>1, <2>2, <2>3 DEF Stranded
<1>4. CASE SendStart(t)
    <2>1. status' = status /\ claim' = claim
        BY <1>4 DEF SendStart
    <2>2. InHand(t) \subseteq InHand(t)' /\ \A s \in Threads \ {t} : InHand(s)' = InHand(s)
        <3>1. PICK f \in batch[t] : /\ batch' = [batch EXCEPT ![t] = @ \ {f}]
                                    /\ cur' = [cur EXCEPT ![t] = f]
            BY <1>4 DEF SendStart
        <3>2. cur[t] \notin Events
            BY <1>4 DEF SendStart, Shape
        <3>3. \A s \in Threads \ {t} : batch'[s] = batch[s] /\ cur'[s] = cur[s]
            BY <3>1
        <3>4. batch'[t] = batch[t] \ {f} /\ cur'[t] = f
            BY <3>1
        <3> QED
            BY <3>2, <3>3, <3>4 DEF InHand
    <2> QED
        BY <2>1, <2>2 DEF Stranded
<1>5. CASE BatchDone(t) \/ SendOk(t)
    BY <1>5 DEF BatchDone, SendOk, Stranded, InHand
<1>6. CASE MarkOk(t)
    <2>1. cur[t] \in Events /\ status[cur[t]] = "processing"
        BY <1>6 DEF MarkOk, Shape, HeldStatus, InHand
    <2>2. status'[cur[t]] = "processed" /\ (e # cur[t] => status'[e] = status[e])
        BY <1>6, <2>1 DEF MarkOk
    <2>3. claim' = claim /\ \A s \in Threads : InHand(s) \subseteq InHand(s)' \cup {cur[t]}
        BY <1>6 DEF MarkOk, InHand
    <2> QED
        BY <2>1, <2>2, <2>3 DEF Stranded
<1> QED
    BY <1>1, <1>2, <1>3, <1>4, <1>5, <1>6 DEF Drain

\* Nor does a step outside the drains, as long as no process dies.
LEMMA OthersStrandNothing ==
    ASSUME Ownership, NEW e \in Events, ~Stranded(e),
           \/ \E f \in Events : CommitEvent(f)
           \/ \E n \in Nodes : \/ (Listen(n) /\ ~Panic(n)) \/ Writer(n) \/ ConnLost(n)
                               \/ Start(n) \/ Stop(n) \/ RunExit(n)
    PROVE  ~Stranded(e)'
<1>1. UNCHANGED <<claim, batch, cur>>
    BY DEF CommitEvent, Listen, ConnectOk, ConnectFail, LoopHead, WaitEnds, Notified,
           LossDetected, RelistenFail, ReconnectFail, ListenExit, Writer, BrokerAppend,
           WriterDrop, ConnLost, Start, Stop, RunExit, db, hands, kafka
<1>2. status'[e] = "processing" => status[e] = "processing"
    <2>1. CASE \E f \in Events : CommitEvent(f)
        BY <2>1 DEF CommitEvent, Ownership, TypeOK
    <2>2. CASE ~\E f \in Events : CommitEvent(f)
        BY <2>2 DEF Listen, ConnectOk, ConnectFail, LoopHead, WaitEnds, Notified,
               LossDetected, RelistenFail, ReconnectFail, ListenExit, Writer, BrokerAppend,
               WriterDrop, ConnLost, Start, Stop, RunExit, db
    <2> QED
        BY <2>1, <2>2
<1> QED
    BY <1>1, <1>2 DEF Stranded, InHand

\* Only a failed send or mark, a claim whose answer was lost, or the end of a
\* process leaves a claimed event with nobody to finish it (outbox_worker.go,
\* processBatch): whatever else happens, whoever claimed it still has it.
THEOREM OnlyFailuresStrand == Spec => StrandedByFailure
<1> DEFINE Failure ==
        \/ \E t \in Threads : SendFail(t) \/ MarkFail(t) \/ ClaimCommitLost(t)
        \/ \E n \in Nodes : GoDown(n)
<1>1. ASSUME Ownership, [Next]_vars, NEW e \in Events, ~Stranded(e), Stranded(e)'
      PROVE  Failure
    <2>1. CASE UNCHANGED vars
        BY <1>1, <2>1 DEF vars, db, hands, sub, kafka, Stranded, InHand
    <2>2. ASSUME NEW t \in Threads, Drain(t) PROVE Failure
        BY <1>1, <2>2, DrainStrandsNothing
    <2>3. ASSUME NEW n \in Nodes, Panic(n) \/ Terminate(n) \/ Crash(n) PROVE Failure
        BY <2>3 DEF Panic, Terminate, Crash
    <2> QED
        BY <1>1, <2>1, <2>2, <2>3, OthersStrandNothing DEF Next
<1>2. Ownership /\ [Next]_vars =>
          [(\E e \in Events : ~Stranded(e) /\ Stranded(e)') => Failure]_vars
    BY <1>1
<1> QED
    BY <1>2, OwnershipHolds, PTL DEF Spec, StrandedByFailure
=============================================================================
