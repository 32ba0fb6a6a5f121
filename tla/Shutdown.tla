------------------------------ MODULE Shutdown ------------------------------
(***************************************************************************)
(* The end of the process: App.Run waits for a signal and lets the Closer  *)
(* (pkg/closer/closer.go) close, in the reverse order of their             *)
(* registration by App.init... (internal/app/app.go), everything the       *)
(* process has opened, while requests, calls, the outbox worker and the    *)
(* background removal of images are still running.                         *)
(*                                                                         *)
(* Every function is given to a goroutine of its own.  When the ten        *)
(* seconds of the graceful part are over, the functions that were not seen *)
(* to return are run again, all at once, the interrupted one for the       *)
(* second time.  The pool of Postgres is what all of them share: db.Close   *)
(* waits for every connection, also for one that nobody will give back.    *)
(***************************************************************************)
EXTENDS Integers, Sequences, FiniteSets

CONSTANTS
    Requests,       \* HTTP requests that register a product
    Calls,          \* gRPC calls that read products
    Threads,        \* goroutines of the outbox worker
    PoolSize,       \* connections of the pool
    Faults          \* which failures may happen

FaultClasses == {"leak", "close"}

ASSUME FaultsAssumption == Faults \subseteq FaultClasses
ASSUME WorkAssumption == Requests \cap Calls = {} /\ Threads \cap (Requests \cup Calls) = {}
ASSUME PoolSizeAssumption == PoolSize \in Nat \ {0}

\* Mutant of Order: the functions are closed in the order of registration.
OrderFifo == <<"http", "grpc", "worker", "cleanup", "clients", "db">>

\* The functions in the order of their registration; they are run from the
\* end.  The clients of Qdrant, Redis, the ML service and Kafka, registered
\* one after the other, are one function here: none of them waits for anybody.
Order == <<"db", "clients", "cleanup", "worker", "grpc", "http">>

Funcs == {Order[i] : i \in 1 .. Len(Order)}
Stores == {"db", "clients"}
Work == Requests \cup Calls
Attempts == {"graceful", "forced"}
Over == {"ok", "error"}

VARIABLES
    phase,      \* of the main goroutine
    idx,        \* position of the function being closed; stopIdx when forced
    late,       \* which of the two time limits are over
    errors,     \* whether an error was collected
    run,        \* each attempt at each function
    open,       \* servers that accept, and whether the pool does
    work,       \* each request and call
    threads,    \* goroutines of the outbox worker that have not ended
    stopped,    \* the worker's stop channel is closed, its context cancelled
    cleaning,   \* requests whose images are being removed in the background
    conns,      \* who holds a connection of the pool
    leaked      \* how many connections nobody will give back

closing  == <<phase, idx, late, errors>>
pool     == <<conns, leaked>>
activity == <<work, threads, cleaning, pool>>
vars     == <<phase, idx, late, errors, run, open, work, threads, stopped, cleaning,
              conns, leaked>>

TypeOK ==
    /\ phase \in {"serving", "graceful", "forced", "closed", "panicked"}
    /\ idx \in 0 .. Len(Order)
    /\ late \subseteq Attempts
    /\ errors \in BOOLEAN
    /\ run \in [Attempts -> [Funcs -> {"idle", "spawned", "running"} \cup Over]]
    /\ open \subseteq {"http", "grpc", "pool"}
    /\ work \in [Work -> {"new", "handled", "querying", "filling", "done"}]
    /\ threads \subseteq Threads
    /\ stopped \in BOOLEAN
    /\ cleaning \subseteq Requests
    /\ conns \subseteq Work \cup Threads
    /\ leaked \in 0 .. PoolSize - Cardinality(conns)

Init ==
    /\ phase = "serving"
    /\ idx = Len(Order)
    /\ late = {}
    /\ errors = FALSE
    /\ run = [a \in Attempts |-> [f \in Funcs |-> "idle"]]
    /\ open = {"http", "grpc", "pool"}
    /\ work = [w \in Work |-> "new"]
    /\ threads = Threads
    /\ stopped = FALSE
    /\ cleaning = {}
    /\ conns = {}
    /\ leaked = 0

Alive == phase \notin {"closed", "panicked"}
Active(S) == {w \in S : work[w] \in {"handled", "querying"}}

\* Calls that were answered, but whose cache fill still uses Redis.
Filling == {c \in Calls : work[c] = "filling"}

-----------------------------------------------------------------------------
(* What is going on while the functions are run. *)

Accept(w) ==
    /\ Alive
    /\ work[w] = "new"
    /\ (IF w \in Requests THEN "http" ELSE "grpc") \in open
    /\ work' = [work EXCEPT ![w] = "handled"]
    /\ UNCHANGED <<closing, run, open, threads, stopped, cleaning, pool>>

\* The pool has a connection to give; who waits for one is served in turn.
PoolGives == "pool" \in open /\ Cardinality(conns) + leaked < PoolSize

\* A handler takes a connection: the transaction, or the query.
Acquire(w) ==
    /\ Alive
    /\ work[w] = "handled"
    /\ PoolGives
    /\ work' = [work EXCEPT ![w] = "querying"]
    /\ conns' = conns \cup {w}
    /\ UNCHANGED <<closing, run, open, threads, stopped, cleaning, leaked>>

\* The input is refused, the client goes away, or the pool is closed: nothing
\* was uploaded yet.
Refuse(w) ==
    /\ Alive
    /\ work[w] = "handled"
    /\ work' = [work EXCEPT ![w] = "done"]
    /\ UNCHANGED <<closing, run, open, threads, stopped, cleaning, pool>>

\* Mutant of Release: the transaction is never ended.
ReleaseNever(h) == UNCHANGED pool

\* A commit or a rollback gives the connection of its holder back.
Release(h) ==
    /\ conns' = conns \ {h}
    /\ UNCHANGED leaked

\* Mutant of EndWork: whatever failed has its images removed.
EndWorkCleansAll(w) ==
    /\ Alive
    /\ work[w] = "querying"
    /\ work' = [work EXCEPT ![w] = "done"]
    /\ Release(w)
    /\ cleaning' \in {cleaning, cleaning \cup {w}}
    /\ UNCHANGED <<closing, run, open, threads, stopped>>

\* The handler ends; a registration that failed leaves its images to the
\* background, whose WaitGroup counts them before the handler returns, and a
\* call that was answered from Postgres leaves a goroutine that fills the
\* cache, which nothing counts.
EndWork(w) ==
    /\ Alive
    /\ work[w] = "querying"
    /\ \/ work' = [work EXCEPT ![w] = "done"]
       \/ w \in Calls /\ work' = [work EXCEPT ![w] = "filling"]
    /\ Release(w)
    /\ cleaning' \in {cleaning} \cup {cleaning \cup {r} : r \in Requests \cap {w}}
    /\ UNCHANGED <<closing, run, open, threads, stopped>>

\* The fill ends, with its products in Redis or not: at the latest after its
\* 500 milliseconds.
EndFill(c) ==
    /\ Alive
    /\ c \in Filling
    /\ work' = [work EXCEPT ![c] = "done"]
    /\ UNCHANGED <<closing, run, open, threads, stopped, cleaning, pool>>

\* Its holder forgets a connection: there is one less for the others.
Forget(h) ==
    /\ conns' = conns \ {h}
    /\ leaked' = leaked + 1

\* A registration that returns without its rollback.
Leak(r) ==
    /\ Alive
    /\ "leak" \in Faults
    /\ work[r] = "querying"
    /\ work' = [work EXCEPT ![r] = "done"]
    /\ Forget(r)
    /\ UNCHANGED <<closing, run, open, threads, stopped, cleaning>>

\* The images are removed, or given up.
EndCleanup(r) ==
    /\ Alive
    /\ r \in cleaning
    /\ cleaning' = cleaning \ {r}
    /\ UNCHANGED <<closing, run, open, work, threads, stopped, pool>>

-----------------------------------------------------------------------------
(* A goroutine of the outbox worker. *)

\* A claim or a mark begins; with a cancelled context it would not.
Query(t) ==
    /\ Alive
    /\ t \in threads \ conns
    /\ ~stopped
    /\ PoolGives
    /\ conns' = conns \cup {t}
    /\ UNCHANGED <<closing, run, open, work, threads, stopped, cleaning, leaked>>

\* It ends with a commit or a rollback.
Answer(t) ==
    /\ Alive
    /\ t \in threads \cap conns
    /\ Release(t)
    /\ UNCHANGED <<closing, run, open, work, threads, stopped, cleaning>>

\* Reading the claimed rows fails, because the connection broke or because the
\* context was cancelled in the middle: the error is an err of its own, and
\* the deferred rollback is skipped.
LeakClaim(t) ==
    /\ Alive
    /\ "leak" \in Faults \/ stopped
    /\ t \in threads \cap conns
    /\ Forget(t)
    /\ UNCHANGED <<closing, run, open, work, threads, stopped, cleaning>>

\* The goroutine ends: it was told to, or its claim or its LISTEN connection
\* failed.
WorkerEnd(t) ==
    /\ Alive
    /\ t \in threads \ conns
    /\ threads' = threads \ {t}
    /\ UNCHANGED <<closing, run, open, work, stopped, cleaning, pool>>

-----------------------------------------------------------------------------
(* The functions. *)

\* An attempt when its goroutine is started.  Where nothing that is modelled
\* tells a function that was begun from one that will be, it is begun.
Spawned(f) == IF f \in {"cleanup", "clients"} THEN "running" ELSE "spawned"

\* A forced attempt: the clients wait for nobody and their error is only
\* logged, so theirs is over as soon as it is begun.
Forced(f) == IF f = "clients" THEN "ok" ELSE Spawned(f)

\* OutboxWorker.Stop closes the channel `stop' each time it is called.
Panics(f) == f = "worker" /\ stopped

\* The goroutine of an attempt begins the function: no more connections are
\* accepted, no more connections of the pool given out, the worker is told.
RunFunc(a, f) ==
    /\ Alive
    /\ run[a][f] = "spawned"
    /\ IF Panics(f) THEN phase' = "panicked" /\ UNCHANGED <<run, open, stopped>>
       ELSE /\ run' = [run EXCEPT ![a][f] = "running"]
            /\ open' = open \ (IF f = "db" THEN {"pool"} ELSE {f})
            /\ stopped' = (stopped \/ f = "worker")
            /\ UNCHANGED phase
    /\ UNCHANGED <<idx, late, errors, activity>>

\* What a function waits for is over.
Settled(f) ==
    CASE f = "http" -> Active(Requests) = {}
      [] f = "grpc" -> Active(Calls) = {}
      [] f = "worker" -> threads = {}
      [] f = "cleanup" -> cleaning = {}
      [] f = "db" -> conns = {} /\ leaked = 0
      [] OTHER -> TRUE

\* The functions that give up when their time is over.
Bounded == {"http", "grpc", "cleanup"}

MayFail(a, f) == (f \in Bounded /\ a \in late) \/ (f = "clients" /\ "close" \in Faults)

\* The error of a forced attempt is only logged, and not told apart here.
Failed(a) == IF a = "graceful" THEN "error" ELSE "ok"

\* Mutant of Return: running out of time is not reported.
ReturnSilently(a, f) ==
    /\ Alive
    /\ run[a][f] = "running"
    /\ Settled(f) \/ (f \in Bounded /\ a \in late)
    /\ run' = [run EXCEPT ![a][f] = "ok"]
    /\ UNCHANGED <<closing, open, activity, stopped>>

Return(a, f) ==
    /\ Alive
    /\ run[a][f] = "running"
    /\ \/ /\ Settled(f)
          /\ run' = [run EXCEPT ![a][f] = "ok"]
       \/ /\ MayFail(a, f)
          /\ run' = [run EXCEPT ![a][f] = Failed(a)]
    /\ UNCHANGED <<closing, open, activity, stopped>>

-----------------------------------------------------------------------------
(* The main goroutine: App.Run, Closer.Close. *)

\* SIGINT, SIGTERM, or the end of one of the servers.
Signal ==
    /\ phase = "serving"
    /\ phase' = "graceful"
    /\ UNCHANGED <<idx, late, errors, run, open, activity, stopped>>

\* gracefulClose hands the next function to a goroutine.
Spawn ==
    /\ phase = "graceful"
    /\ run["graceful"][Order[idx]] = "idle"
    /\ run' = [run EXCEPT !["graceful"][Order[idx]] = Spawned(Order[idx])]
    /\ UNCHANGED <<closing, open, activity, stopped>>

\* The function has returned: on to the one registered before it.
Collect ==
    /\ phase = "graceful"
    /\ run["graceful"][Order[idx]] \in Over
    /\ errors' = (errors \/ run["graceful"][Order[idx]] = "error")
    /\ idx' = idx - 1
    /\ phase' = IF idx = 1 THEN "closed" ELSE phase
    /\ UNCHANGED <<late, run, open, activity, stopped>>

\* Mutant of Interrupt: the context is ignored.
InterruptNever == FALSE

\* The context is over before the function was seen to return (both may be
\* the case, and select takes any): forcedClose starts funcs[:stopIdx+1].
Interrupt ==
    /\ phase = "graceful"
    /\ "graceful" \in late
    /\ run["graceful"][Order[idx]] # "idle"
    /\ phase' = "forced"
    /\ errors' = TRUE
    /\ run' = [run EXCEPT !["forced"] =
                 [f \in Funcs |-> IF \E i \in 1 .. idx : Order[i] = f THEN Forced(f) ELSE "idle"]]
    /\ UNCHANGED <<idx, late, open, activity, stopped>>

\* wg.Wait: every one of them has returned.
ForcedEnd ==
    /\ phase = "forced"
    /\ \A f \in Funcs : run["forced"][f] \in {"idle"} \cup Over
    /\ phase' = "closed"
    /\ UNCHANGED <<idx, late, errors, run, open, activity, stopped>>

\* Ten seconds for the graceful part, five for the forced one.
TimeIsUp(a) ==
    /\ phase = a
    /\ a \notin late
    /\ late' = late \cup {a}
    /\ UNCHANGED <<phase, idx, errors, run, open, activity, stopped>>

-----------------------------------------------------------------------------
Main == Signal \/ Spawn \/ Collect \/ Interrupt \/ ForcedEnd

Handler(w) == Acquire(w) \/ Refuse(w) \/ EndWork(w)

Next ==
    \/ Main
    \/ \E a \in Attempts : TimeIsUp(a) \/ \E f \in Funcs : RunFunc(a, f) \/ Return(a, f)
    \/ \E w \in Work : Accept(w) \/ Handler(w)
    \/ \E r \in Requests : Leak(r) \/ EndCleanup(r)
    \/ \E c \in Calls : EndFill(c)
    \/ \E t \in Threads : Query(t) \/ Answer(t) \/ LeakClaim(t) \/ WorkerEnd(t)

Spec == Init /\ [][Next]_vars

\* What each goroutine does a finite number of times: one condition for all of
\* these steps gives every one of them.
Finite ==
    \/ Spawn \/ Collect \/ Interrupt \/ ForcedEnd
    \/ \E a \in Attempts : TimeIsUp(a) \/ \E f \in Funcs : RunFunc(a, f) \/ Return(a, f)
    \/ \E w \in Work : EndWork(w) \/ ("pool" \notin open /\ Refuse(w))
    \/ \E r \in Requests : EndCleanup(r)
    \/ \E c \in Calls : EndFill(c)

\* Goroutines run, time passes, handlers, removals and fills end, statements are
\* answered, the worker ends once it was told to, and the pool serves those
\* who wait in turn.  Nothing promises that a signal ever comes, or that a
\* client gives up waiting.
Fairness ==
    /\ WF_vars(Finite)
    /\ \A w \in Work : SF_vars(Acquire(w))
    /\ \A t \in Threads : WF_vars(Answer(t) \/ LeakClaim(t) \/ (stopped /\ WorkerEnd(t)))

FairSpec == Spec /\ Fairness

-----------------------------------------------------------------------------
(* Safety *)

\* Everything that uses a store.
Users == Active(Work) \cup threads \cup cleaning \cup Filling

\* As long as no function has failed or run out of time, a store is closed
\* only when nobody is left who uses it, but for the cache fills: this is what
\* the order of registration in app.go is for.  Nothing waits for a fill, so
\* the client of Redis may be closed while one uses it.
StoresOutliveUsers ==
    phase = "graceful" /\ ~errors =>
        \A f \in Stores : run["graceful"][f] # "idle" => Users \subseteq Filling

\* A shutdown that reports no error has left no handler, no goroutine of the
\* worker, no removal of images and no connection, forgotten or in use.  What
\* it may leave behind are cache fills, which the end of the process cuts off.
CleanCloseLeavesOnlyFills ==
    phase = "closed" /\ ~errors => Users \subseteq Filling /\ conns = {} /\ leaked = 0

-----------------------------------------------------------------------------
(* Liveness *)

\* A handler that waits for a connection gets one, however busy the worker is,
\* unless forgotten connections have used the pool up or the process ends.
PoolServes ==
    \A w \in Work : work[w] = "handled" ~> work[w] # "handled" \/ leaked = PoolSize \/ ~Alive

\* The shutdown ends, unless a connection was forgotten: its graceful part ends
\* all the same, but db.Close never returns, and forcedClose waits for it
\* beyond its five seconds.
ShutdownEnds == phase = "graceful" ~> ~Alive \/ (phase = "forced" /\ leaked > 0)

-----------------------------------------------------------------------------
(* What the comments of the code say of it. *)

\* closer.go:51 (in Russian): "If the context is cancelled before the end, the
\* remaining functions are closed forcibly".
RemainingAreClosed ==
    phase = "forced" ~> \A f \in Funcs : \E a \in Attempts : run[a][f] \in Over
=============================================================================
