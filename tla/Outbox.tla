------------------------------- MODULE Outbox -------------------------------
(***************************************************************************)
(* The outbox worker (internal/infrastructure/kafka/outbox_worker.go) with *)
(* the table it drains (internal/repository/pgdb/outbox_event_repo.go) and *)
(* the Kafka writer it feeds (internal/infrastructure/kafka/producer.go).  *)
(*                                                                         *)
(* Every process of the backend, a node, runs two goroutines over the same *)
(* table: `run' drains it once at startup, `listen' drains it whenever its *)
(* LISTEN connection delivers a notification.  A claim is one Postgres     *)
(* transaction in two steps: the UPDATE ... SKIP LOCKED that locks the     *)
(* rows, and the COMMIT that makes them `processing'.                      *)
(*                                                                         *)
(* An event is a natural number, its place in created_at order.            *)
(***************************************************************************)
EXTENDS Integers, FiniteSets

CONSTANTS
    Nodes,          \* the processes that run a worker
    Events,         \* the rows the registrations may insert
    BatchLimit,     \* GetAndMarkAsProcessing's limit (10 in processBatch)
    MaxCopies,      \* bound: times the broker may append one submission
    Faults          \* which failures may happen

FaultClasses == {"crash", "stop", "db", "rows", "kafka", "conn"}

ASSUME EventsAssumption == Events \subseteq Nat
ASSUME BatchLimitAssumption == BatchLimit \in Nat \ {0}
ASSUME MaxCopiesAssumption == MaxCopies \in Nat \ {0}
ASSUME FaultsAssumption == Faults \subseteq FaultClasses

Threads == Nodes \X {"run", "listen"}
NoEvent == -1

VARIABLES
    status,     \* outbox_events.status; "absent" before the insert commits
    claim,      \* rows locked by a thread's uncommitted claim
    forgotten,  \* claims of a node that were never ended, each the set of the
                \*   rows that it still locks
    batch,      \* claimed events a thread has not yet handed over: a set,
                \*   because RETURNING gives them in no particular order
    cur,        \* the event a thread is sending or marking
    pc,         \* where each thread is
    conn,       \* the LISTEN connection each node's listener reads
    notif,      \* notifications the listener has not read yet
    wire,       \* events inside a node's Kafka writer
    copies,     \* copies of each event in the topic
    mode,       \* each process: down, up, or stopping (context cancelled)
    missed      \* ghost: pending events whose notification was lost in one
                \*   of the ways that nothing in the code makes up for

db     == <<status, claim, forgotten>>
hands  == <<batch, cur>>
sub    == <<conn, notif>>
kafka  == <<wire, copies>>
vars   == <<status, claim, forgotten, batch, cur, pc, conn, notif, wire, copies, mode, missed>>

DrainPcs  == {"claim", "claimed", "next", "sending", "mark"}
RunPcs    == DrainPcs \cup {"off", "idle", "exited"}
ListenPcs == DrainPcs \cup
               {"off", "connect", "loop", "wait", "reconnect", "nilconn", "exited"}

TypeOK ==
    /\ status \in [Events -> {"absent", "pending", "processing", "processed"}]
    /\ claim \in [Threads -> SUBSET Events]
    /\ forgotten \in [Nodes -> SUBSET SUBSET Events]
    /\ batch \in [Threads -> SUBSET Events]
    /\ cur \in [Threads -> Events \cup {NoEvent}]
    /\ pc \in [Threads -> RunPcs \cup ListenPcs]
    /\ \A n \in Nodes : pc[<<n, "run">>] \in RunPcs /\ pc[<<n, "listen">>] \in ListenPcs
    /\ conn \in [Nodes -> {"none", "listening", "lost"}]
    /\ notif \in [Nodes -> Nat]
    /\ wire \in [Nodes -> SUBSET Events]
    /\ copies \in [Events -> 0 .. MaxCopies]
    /\ mode \in [Nodes -> {"down", "up", "stopping"}]
    /\ missed \in SUBSET Events

Init ==
    /\ status = [e \in Events |-> "absent"]
    /\ claim = [t \in Threads |-> {}]
    /\ forgotten = [n \in Nodes |-> {}]
    /\ batch = [t \in Threads |-> {}]
    /\ cur = [t \in Threads |-> NoEvent]
    /\ pc = [t \in Threads |-> "off"]
    /\ conn = [n \in Nodes |-> "none"]
    /\ notif = [n \in Nodes |-> 0]
    /\ wire = [n \in Nodes |-> {}]
    /\ copies = [e \in Events |-> 0]
    /\ mode = [n \in Nodes |-> "down"]
    /\ missed = {}

-----------------------------------------------------------------------------
Pending == {e \in Events : status[e] = "pending"}
Forgotten == UNION UNION {forgotten[n] : n \in Nodes}
Locked == UNION {claim[t] : t \in Threads} \cup Forgotten

\* Mutant of Claimable: a claim without SKIP LOCKED.
ClaimableLockedToo == Pending

\* WHERE status = 'pending' ... FOR UPDATE SKIP LOCKED
Claimable == Pending \ Locked

\* ORDER BY created_at LIMIT k
Oldest(S, k) == {e \in S : Cardinality({f \in S : f < e}) < k}

\* A call that carries the worker's context may fail once the context is
\* cancelled (one already under way may still succeed), and otherwise only
\* when its fault class is switched on.
MayFail(n, class) == class \in Faults \/ mode[n] = "stopping"

Goto(t, l) == pc' = [pc EXCEPT ![t] = l]

\* Mutant of AfterDrain: the listener stops after its first drain.
AfterDrainIdle(t) == "idle"

\* The end of a drain: `run' waits for the end of its context, the listener
\* goes back to the head of its loop.
AfterDrain(t) == IF t[2] = "run" THEN "idle" ELSE "loop"

\* Mutant of AfterFailure: a failed claim also ends the listener.
AfterFailureExits(t) == "exited"

\* A failed claim: `run' returns for good, the listener breaks off the drain.
AfterFailure(t) == IF t[2] = "run" THEN "exited" ELSE "loop"

-----------------------------------------------------------------------------
(* A registration commits: its INSERT and its NOTIFY take effect together. *)
(* The NOTIFY reaches the connections that are listening at that moment.   *)

CommitEvent(e) ==
    /\ \E n \in Nodes : mode[n] # "down"
    /\ status[e] = "absent"
    /\ status' = [status EXCEPT ![e] = "pending"]
    /\ notif' = [n \in Nodes |-> IF conn[n] = "listening" THEN notif[n] + 1 ELSE notif[n]]
    /\ missed' = IF \E n \in Nodes : conn[n] = "listening" THEN missed ELSE missed \cup {e}
    /\ UNCHANGED <<claim, forgotten, hands, pc, conn, kafka, mode>>

-----------------------------------------------------------------------------
(* The claim: GetAndMarkAsProcessing. *)

\* Whatever is pending will be claimed by this drain or by whoever holds its
\* lock, but for the rows that a forgotten claim keeps locked.
ClaimQuery(t) ==
    /\ pc[t] = "claim"
    /\ claim' = [claim EXCEPT ![t] = Oldest(Claimable, BatchLimit)]
    /\ Goto(t, "claimed")
    /\ missed' = Forgotten
    /\ UNCHANGED <<status, forgotten, hands, sub, kafka, mode>>

MarkProcessing(S) ==
    status' = [e \in Events |-> IF e \in S THEN "processing" ELSE status[e]]

ClaimCommit(t) ==
    /\ pc[t] = "claimed"
    /\ MarkProcessing(claim[t])
    /\ claim' = [claim EXCEPT ![t] = {}]
    /\ batch' = [batch EXCEPT ![t] = claim[t]]
    /\ Goto(t, IF claim[t] = {} THEN AfterDrain(t) ELSE "next")
    /\ UNCHANGED <<forgotten, cur, sub, kafka, mode, missed>>

\* BEGIN, the query or the COMMIT fails: the rows stay pending, and nobody
\* comes back for them.
ClaimFail(t) ==
    /\ pc[t] \in {"claim", "claimed"}
    /\ MayFail(t[1], "db")
    /\ claim' = [claim EXCEPT ![t] = {}]
    /\ Goto(t, AfterFailure(t))
    /\ missed' = Pending
    /\ UNCHANGED <<status, forgotten, hands, sub, kafka, mode>>

\* Reading the rows fails.  The error is an err of its own, so that the deferred
\* function neither rolls back nor commits: the rows stay pending, and the claim
\* keeps its connection while the process lives, and its locks as well unless
\* the error came from the server or broke the connection.
ClaimForgotten(t) ==
    /\ pc[t] = "claimed"
    /\ MayFail(t[1], "rows")
    /\ claim' = [claim EXCEPT ![t] = {}]
    /\ \E locks \in {claim[t], {}} :
        forgotten' = [forgotten EXCEPT ![t[1]] = @ \cup {locks}]
    /\ Goto(t, AfterFailure(t))
    /\ missed' = Pending
    /\ UNCHANGED <<status, hands, sub, kafka, mode>>

\* The server commits but the answer is lost: the rows are processing and
\* the worker does not know which.
ClaimCommitLost(t) ==
    /\ pc[t] = "claimed"
    /\ MayFail(t[1], "db")
    /\ MarkProcessing(claim[t])
    /\ claim' = [claim EXCEPT ![t] = {}]
    /\ Goto(t, AfterFailure(t))
    /\ missed' = Pending
    /\ UNCHANGED <<forgotten, hands, sub, kafka, mode>>

-----------------------------------------------------------------------------
(* The batch loop of processBatch: send one event, mark it, take the next. *)

SendStart(t) ==
    /\ pc[t] = "next"
    /\ \E e \in batch[t] :
        /\ batch' = [batch EXCEPT ![t] = @ \ {e}]
        /\ cur' = [cur EXCEPT ![t] = e]
        /\ wire' = [wire EXCEPT ![t[1]] = @ \cup {e}]
    /\ Goto(t, "sending")
    /\ UNCHANGED <<db, sub, copies, mode, missed>>

\* Mutants of BatchDone: the rest of the batch is forgotten; one batch per
\* notification.
BatchDoneEarly(t) ==
    /\ pc[t] = "next"
    /\ batch' = [batch EXCEPT ![t] = {}]
    /\ Goto(t, "claim")
    /\ UNCHANGED <<db, cur, sub, kafka, mode, missed>>

BatchDoneOnce(t) ==
    /\ pc[t] = "next"
    /\ batch[t] = {}
    /\ Goto(t, AfterDrain(t))
    /\ UNCHANGED <<db, hands, sub, kafka, mode, missed>>

BatchDone(t) ==
    /\ pc[t] = "next"
    /\ batch[t] = {}
    /\ Goto(t, "claim")
    /\ UNCHANGED <<db, hands, sub, kafka, mode, missed>>

\* Mutant of SendOk: an asynchronous writer.
SendOkAsync(t) ==
    /\ pc[t] = "sending"
    /\ Goto(t, "mark")
    /\ UNCHANGED <<db, hands, sub, kafka, mode, missed>>

\* WriteMessages returns nil: the leader has acknowledged (RequireOne).
SendOk(t) ==
    /\ pc[t] = "sending"
    /\ copies[cur[t]] > 0
    /\ wire' = [wire EXCEPT ![t[1]] = @ \ {cur[t]}]
    /\ Goto(t, "mark")
    /\ UNCHANGED <<db, hands, sub, copies, mode, missed>>

\* WriteMessages returns an error.  Retryable or permanent, processBatch only
\* continues with the next event.  The message may still be in the writer or
\* on its way to the broker.
SendFail(t) ==
    /\ pc[t] = "sending"
    /\ MayFail(t[1], "kafka")
    /\ cur' = [cur EXCEPT ![t] = NoEvent]
    /\ Goto(t, "next")
    /\ UNCHANGED <<db, batch, sub, kafka, mode, missed>>

\* UPDATE ... WHERE id = $2 AND status = 'processing'
MarkOk(t) ==
    /\ pc[t] = "mark"
    /\ status' = [status EXCEPT ![cur[t]] = IF @ = "processing" THEN "processed" ELSE @]
    /\ cur' = [cur EXCEPT ![t] = NoEvent]
    /\ Goto(t, "next")
    /\ UNCHANGED <<claim, forgotten, batch, sub, kafka, mode, missed>>

\* Mutant of MarkFail: the event is given back instead.
MarkFailGivesBack(t) ==
    /\ pc[t] = "mark"
    /\ MayFail(t[1], "db")
    /\ status' = [status EXCEPT ![cur[t]] = "pending"]
    /\ cur' = [cur EXCEPT ![t] = NoEvent]
    /\ Goto(t, "next")
    /\ UNCHANGED <<claim, forgotten, batch, sub, kafka, mode, missed>>

\* The error is logged; the event stays processing.
MarkFail(t) ==
    /\ pc[t] = "mark"
    /\ MayFail(t[1], "db")
    /\ cur' = [cur EXCEPT ![t] = NoEvent]
    /\ Goto(t, "next")
    /\ UNCHANGED <<db, batch, sub, kafka, mode, missed>>

-----------------------------------------------------------------------------
(* The Kafka writer and the broker. *)

\* The broker appends the message.  The writer repeats an attempt whose
\* acknowledgement it did not get, so it may append it again.
BrokerAppend(n, e) ==
    /\ e \in wire[n]
    /\ copies[e] < MaxCopies
    /\ copies' = [copies EXCEPT ![e] = @ + 1]
    /\ UNCHANGED <<db, hands, pc, sub, wire, mode, missed>>

\* The writer is done with a message whose caller no longer waits.
WriterDrop(n, e) ==
    /\ e \in wire[n]
    /\ \A t \in Threads : ~(t[1] = n /\ pc[t] = "sending" /\ cur[t] = e)
    /\ wire' = [wire EXCEPT ![n] = @ \ {e}]
    /\ UNCHANGED <<db, hands, pc, sub, copies, mode, missed>>

-----------------------------------------------------------------------------
(* The listener: listenOutboxNotifications. *)

ConnectOk(n) ==
    /\ pc[<<n, "listen">>] \in {"connect", "reconnect"}
    /\ conn' = [conn EXCEPT ![n] = "listening"]
    /\ notif' = [notif EXCEPT ![n] = 0]
    /\ Goto(<<n, "listen">>, "loop")
    /\ UNCHANGED <<db, hands, kafka, mode, missed>>

\* The first connect or LISTEN fails: the listener returns for good.
ConnectFail(n) ==
    /\ pc[<<n, "listen">>] = "connect"
    /\ MayFail(n, "conn")
    /\ Goto(<<n, "listen">>, "exited")
    /\ UNCHANGED <<db, hands, sub, kafka, mode, missed>>

\* Mutant of LoopHead: no look at the context.
LoopHeadBlind(n) ==
    /\ pc[<<n, "listen">>] = "loop"
    /\ Goto(<<n, "listen">>, "wait")
    /\ UNCHANGED <<db, hands, sub, kafka, mode, missed>>

\* The head of the loop looks at the context and at stop before it waits.
LoopHead(n) ==
    /\ pc[<<n, "listen">>] = "loop"
    /\ mode[n] = "up"
    /\ Goto(<<n, "listen">>, "wait")
    /\ UNCHANGED <<db, hands, sub, kafka, mode, missed>>

\* The 30 second timeout, or the cancellation of the context.
WaitEnds(n) ==
    /\ pc[<<n, "listen">>] = "wait"
    /\ (conn[n] = "listening" /\ notif[n] = 0) \/ mode[n] = "stopping"
    /\ Goto(<<n, "listen">>, "loop")
    /\ UNCHANGED <<db, hands, sub, kafka, mode, missed>>

Notified(n) ==
    /\ pc[<<n, "listen">>] = "wait"
    /\ notif[n] > 0
    /\ notif' = [notif EXCEPT ![n] = @ - 1]
    /\ Goto(<<n, "listen">>, "claim")
    /\ UNCHANGED <<db, hands, conn, kafka, mode, missed>>

ConnLost(n) ==
    /\ "conn" \in Faults
    /\ conn[n] = "listening"
    /\ conn' = [conn EXCEPT ![n] = "lost"]
    /\ UNCHANGED <<db, hands, pc, notif, kafka, mode, missed>>

\* WaitForNotification reports the loss; what the old connection had not
\* delivered is gone, and the new one does not start with a drain.
LossDetected(n) ==
    /\ pc[<<n, "listen">>] = "wait"
    /\ conn[n] = "lost"
    /\ conn' = [conn EXCEPT ![n] = "none"]
    /\ notif' = [notif EXCEPT ![n] = 0]
    /\ missed' = Pending
    /\ Goto(<<n, "listen">>, "reconnect")
    /\ UNCHANGED <<db, hands, kafka, mode>>

\* The new connection is made but LISTEN fails on it: the closed connection
\* is waited on, and fails again.
RelistenFail(n) ==
    /\ pc[<<n, "listen">>] = "reconnect"
    /\ MayFail(n, "conn")
    /\ conn' = [conn EXCEPT ![n] = "lost"]
    /\ Goto(<<n, "listen">>, "loop")
    /\ UNCHANGED <<db, hands, notif, kafka, mode, missed>>

\* pgx.Connect fails: the captured conn is now nil.
ReconnectFail(n) ==
    /\ pc[<<n, "listen">>] = "reconnect"
    /\ MayFail(n, "conn")
    /\ Goto(<<n, "listen">>, "nilconn")
    /\ UNCHANGED <<db, hands, sub, kafka, mode, missed>>

-----------------------------------------------------------------------------
(* The process: start, graceful stop, death. *)

\* Mutant of Start: what an earlier process had claimed is pending again.
StartRequeues(n) ==
    /\ mode[n] = "down"
    /\ mode' = [mode EXCEPT ![n] = "up"]
    /\ pc' = [pc EXCEPT ![<<n, "run">>] = "claim", ![<<n, "listen">>] = "connect"]
    /\ status' = [e \in Events |-> IF status[e] = "processing" THEN "pending" ELSE status[e]]
    /\ UNCHANGED <<claim, forgotten, hands, sub, kafka, missed>>

Start(n) ==
    /\ mode[n] = "down"
    /\ mode' = [mode EXCEPT ![n] = "up"]
    /\ pc' = [pc EXCEPT ![<<n, "run">>] = "claim", ![<<n, "listen">>] = "connect"]
    /\ UNCHANGED <<db, hands, sub, kafka, missed>>

\* The closer cancels the worker's context, closes stop and waits.
Stop(n) ==
    /\ "stop" \in Faults
    /\ mode[n] = "up"
    /\ mode' = [mode EXCEPT ![n] = "stopping"]
    /\ UNCHANGED <<db, hands, pc, sub, kafka, missed>>

RunExit(n) ==
    /\ pc[<<n, "run">>] = "idle"
    /\ mode[n] = "stopping"
    /\ Goto(<<n, "run">>, "exited")
    /\ UNCHANGED <<db, hands, sub, kafka, mode, missed>>

\* The deferred Close closes the first connection; one made later lasts until
\* the process ends, but nobody reads it any more.
ListenExit(n) ==
    /\ pc[<<n, "listen">>] \in {"loop", "nilconn"}
    /\ mode[n] = "stopping"
    /\ Goto(<<n, "listen">>, "exited")
    /\ conn' = [conn EXCEPT ![n] = "none"]
    /\ notif' = [notif EXCEPT ![n] = 0]
    /\ missed' = Pending
    /\ UNCHANGED <<db, hands, kafka, mode>>

\* Everything the process held in memory is gone, and the server rolls back
\* its open claims, the forgotten ones too.
GoDown(n) ==
    /\ mode' = [mode EXCEPT ![n] = "down"]
    /\ pc' = [t \in Threads |-> IF t[1] = n THEN "off" ELSE pc[t]]
    /\ claim' = [t \in Threads |-> IF t[1] = n THEN {} ELSE claim[t]]
    /\ forgotten' = [forgotten EXCEPT ![n] = {}]
    /\ batch' = [t \in Threads |-> IF t[1] = n THEN {} ELSE batch[t]]
    /\ cur' = [t \in Threads |-> IF t[1] = n THEN NoEvent ELSE cur[t]]
    /\ conn' = [conn EXCEPT ![n] = "none"]
    /\ notif' = [notif EXCEPT ![n] = 0]
    /\ wire' = [wire EXCEPT ![n] = {}]
    /\ missed' = Pending
    /\ UNCHANGED <<status, copies>>

\* wg.Wait returns.
Stopped(n) ==
    /\ mode[n] = "stopping"
    /\ pc[<<n, "run">>] = "exited"
    /\ pc[<<n, "listen">>] = "exited"

\* The producer is closed with its writer flushed, then the pool, which waits
\* for every connection: after a forgotten claim only a kill ends the process.
Terminate(n) ==
    /\ Stopped(n)
    /\ wire[n] = {}
    /\ forgotten[n] = {}
    /\ GoDown(n)

\* WaitForNotification on a nil *pgx.Conn panics, which ends the process.
Panic(n) ==
    /\ pc[<<n, "listen">>] = "nilconn"
    /\ mode[n] = "up"
    /\ GoDown(n)

\* Killed, or the graceful stop was cut short.
Crash(n) ==
    /\ "crash" \in Faults
    /\ mode[n] # "down"
    /\ GoDown(n)

-----------------------------------------------------------------------------
Drain(t) ==
    \/ ClaimQuery(t) \/ ClaimCommit(t)
    \/ ClaimFail(t) \/ ClaimForgotten(t) \/ ClaimCommitLost(t)
    \/ SendStart(t) \/ BatchDone(t) \/ SendOk(t) \/ SendFail(t)
    \/ MarkOk(t) \/ MarkFail(t)

Listen(n) ==
    \/ ConnectOk(n) \/ ConnectFail(n)
    \/ LoopHead(n) \/ WaitEnds(n) \/ Notified(n) \/ LossDetected(n)
    \/ RelistenFail(n) \/ ReconnectFail(n) \/ ListenExit(n) \/ Panic(n)

Writer(n) == \E e \in Events : BrokerAppend(n, e) \/ WriterDrop(n, e)

Next ==
    \/ \E e \in Events : CommitEvent(e)
    \/ \E t \in Threads : Drain(t)
    \/ \E n \in Nodes :
        \/ Listen(n) \/ Writer(n) \/ ConnLost(n)
        \/ Start(n) \/ Stop(n) \/ RunExit(n) \/ Terminate(n) \/ Crash(n)

Spec == Init /\ [][Next]_vars

(* The Go scheduler runs every goroutine, the driver calls all return, the  *)
(* writer makes progress on every message, and the container is restarted.  *)
Fairness ==
    /\ \A t \in Threads : WF_vars(Drain(t))
    /\ \A n \in Nodes :
        /\ WF_vars(Listen(n))
        /\ WF_vars(RunExit(n))
        /\ WF_vars(Start(n))
        /\ WF_vars(Terminate(n))
        /\ \A e \in Events : WF_vars(BrokerAppend(n, e)) /\ WF_vars(WriterDrop(n, e))

FairSpec == Spec /\ Fairness

-----------------------------------------------------------------------------
(* Safety *)

InHand(t) == batch[t] \cup {e \in Events : e = cur[t]}

\* No event is in the hands of two goroutines, of one process or of two:
\* what FOR UPDATE SKIP LOCKED is for (GetAndMarkAsProcessing).
ClaimExclusive ==
    \A t, u \in Threads : t # u =>
        (claim[t] \cup InHand(t)) \cap (claim[u] \cup InHand(u)) = {}

\* An event that is in the topic, or inside a Kafka writer and so perhaps on its
\* way there, is never up for another claim, whatever has failed since or was
\* started again: no event gets into the topic by two submissions.  A retry of
\* a send that has failed for good would not offend it; one of a send that only
\* reported an error would.
NoDuplicateSend ==
    \A e \in Events :
        copies[e] > 0 \/ (\E n \in Nodes : e \in wire[n]) =>
            /\ status[e] \in {"processing", "processed"}
            /\ \A t \in Threads : e \notin claim[t] \cup batch[t]

\* An event still inside a Kafka writer is not marked, and the only goroutine
\* that may hold it is one of that process that waits for the answer: the
\* writer is synchronous, so nothing is marked on the strength of a send that
\* is not over (NewProducer sets no Async).
WriterHoldsTaken ==
    \A n \in Nodes : \A e \in wire[n] :
        /\ status[e] = "processing"
        /\ \A t \in Threads : cur[t] = e => pc[t] = "sending" /\ t[1] = n

\* MarkAsProcessed never records a delivery that did not happen, although
\* failed sends and dead processes leave events behind as processing.
ProcessedWasDelivered ==
    \A e \in Events : status[e] = "processed" => copies[e] > 0

\* The goroutine will query the table again before it comes to rest.
WillQuery(t) ==
    \/ pc[t] \in {"claim", "next", "sending", "mark"}
    \/ pc[t] = "claimed" /\ claim[t] # {}

\* The listener is alive and will look for notifications.
Reads(n) == pc[<<n, "listen">>] \in DrainPcs \cup {"loop", "wait"}

\* A pending event that nobody has locked is always on somebody's hook: a
\* goroutine that will still query, or a notification not yet read whose
\* listener still reads.  The exceptions are the events in `missed', and those
\* are only the ones whose notification was lost with a connection, a failed
\* claim or a process.  This is what draining until an empty batch is for: a
\* row that one query skipped as locked or did not see yet must not be
\* forgotten.
NoLostWakeup ==
    \A e \in Claimable \ missed :
        \/ \E t \in Threads : WillQuery(t)
        \/ \E n \in Nodes : notif[n] > 0 /\ Reads(n)

\* An event nobody holds any more although it is neither pending nor done.
Stranded(e) ==
    /\ status[e] = "processing"
    /\ \A t \in Threads : e \notin claim[t] \cup InHand(t)

\* Only a failure strands an event: a send or a mark that failed, a claim whose
\* answer was lost, a process that died.  Where nothing fails, an event that
\* processBatch has claimed is marked in the end.
StrandedByFailure ==
    [][(\E e \in Events : ~Stranded(e) /\ Stranded(e)') =>
          \/ \E t \in Threads : SendFail(t) \/ MarkFail(t) \/ ClaimCommitLost(t)
          \/ \E n \in Nodes : GoDown(n)]_vars

-----------------------------------------------------------------------------
(* What makes the safety properties inductive. *)

\* What a goroutine holds at each point of the drain.
Shape ==
    \A t \in Threads :
        /\ claim[t] # {} => pc[t] = "claimed"
        /\ batch[t] # {} => pc[t] \in {"next", "sending", "mark"}
        /\ cur[t] # NoEvent <=> pc[t] \in {"sending", "mark"}
        /\ cur[t] \notin batch[t]
        /\ pc[t] = "mark" => copies[cur[t]] > 0

DownIsOff ==
    \A t \in Threads : mode[t[1]] = "down" <=> pc[t] = "off"

\* A locked row is still pending, a claimed one is processing: between its
\* claim and its mark nobody else changes an event's status.
HeldStatus ==
    \A t \in Threads :
        /\ \A e \in claim[t] : status[e] = "pending"
        /\ \A e \in InHand(t) : status[e] = "processing"

Ownership ==
    /\ TypeOK
    /\ Shape
    /\ DownIsOff
    /\ HeldStatus
    /\ ClaimExclusive
    /\ NoDuplicateSend
    /\ ProcessedWasDelivered

-----------------------------------------------------------------------------
(* The worker implements the outbox contract. *)

stage == [e \in Events |->
            CASE status[e] = "absent"     -> "none"
              [] status[e] = "pending"    -> "recorded"
              [] status[e] = "processing" -> "taken"
              [] OTHER                    -> "confirmed"]

Contract == INSTANCE OutboxContract
    WITH Events <- Events, stage <- stage, copies <- copies

\* Whatever fails, the table and the topic together move as the contract
\* says: recorded, taken, delivered, confirmed, and never back.
ImplementsContract == Contract!Spec

-----------------------------------------------------------------------------
(* Liveness *)

\* Whatever fails, an event does not linger: it is delivered and marked, or
\* stranded by a send, a mark or a process that failed, or the last thing that
\* would have noticed it was lost, or a forgotten claim keeps it locked.
EventuallySettled ==
    \A e \in Events :
        status[e] = "pending" /\ e \notin missed ~>
            status[e] = "processed" \/ Stranded(e) \/ e \in missed

\* Stop (outbox_worker.go:54) returns: wg.Wait is not left waiting for a
\* goroutine that drains, sends, reconnects or waits for a notification.  Then the
\* process ends, unless a forgotten claim holds its pool open.
ShutdownCompletes ==
    \A n \in Nodes :
        mode[n] = "stopping" ~> mode[n] = "down" \/ (Stopped(n) /\ forgotten[n] # {})

-----------------------------------------------------------------------------
(* What the documents and messages of the repository say of the worker. *)

\* images/worker.svg:1 run() processes what has accumulated, and
\* listenOutboxNotifications() listens for NOTIFY (in Russian): between
\* them, without any failure, every committed event is processed.
EveryEventProcessed ==
    \A e \in Events : status[e] = "pending" ~> status[e] = "processed"

\* outbox_worker.go:118 "Connection lost ... Reconnecting" and :123 "Reconnect
\* failed", after which the loop goes on: losing the LISTEN connection does
\* not end the process.
ConnectionLossIsSurvived ==
    [][\A n \in Nodes : mode[n] = "up" => mode'[n] # "down"]_vars
=============================================================================
