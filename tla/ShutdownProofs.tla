--------------------------- MODULE ShutdownProofs ---------------------------
(***************************************************************************)
(* What holds of Shutdown for any number of requests, calls, goroutines of *)
(* the worker and connections.                                             *)
(*                                                                         *)
(* The graceful part takes one function after the other: those above idx   *)
(* are over, those below it have not begun (InTurn).  A function that was  *)
(* begun has shut its door, one that returned without an error has seen    *)
(* the last of its users leave, and nobody comes in through a door that is *)
(* shut (DoorsShut, UsersGone).                                            *)
(***************************************************************************)
EXTENDS Shutdown, FiniteSetTheorems, TLAPS

Graceful(f) == run["graceful"][f]
Begun == {"running"} \cup Over

\* Where main is, and what it has met.
MainInv ==
    /\ phase = "serving" => idx = 6 /\ \A f \in Funcs : Graceful(f) = "idle"
    /\ phase = "graceful" => idx # 0
    /\ phase = "forced" => errors
    /\ phase = "closed" => errors \/ idx = 0

\* The graceful part goes through the functions one by one.
InTurn ==
    \A i \in 1 .. 6 :
        /\ i < idx => Graceful(Order[i]) = "idle"
        /\ i > idx => Graceful(Order[i]) \in Over
        /\ i > idx /\ ~errors => Graceful(Order[i]) = "ok"

\* What a function does first.
DoorsShut ==
    /\ Graceful("http") \in Begun => "http" \notin open
    /\ Graceful("grpc") \in Begun => "grpc" \notin open
    /\ Graceful("db") \in Begun => "pool" \notin open

\* What it has waited for.
UsersGone ==
    /\ Graceful("http") = "ok" => Active(Requests) = {}
    /\ Graceful("grpc") = "ok" => Active(Calls) = {}
    /\ Graceful("worker") = "ok" => threads = {}
    /\ Graceful("http") = "ok" /\ Graceful("cleanup") = "ok" => cleaning = {}
    /\ Graceful("db") = "ok" => conns = {} /\ leaked = 0

\* Whoever is in the middle of a query holds one connection.
PoolInv ==
    /\ IsFiniteSet(conns)
    /\ \A w \in Work : work[w] = "querying" <=> w \in conns

IInv == TypeOK /\ MainInv /\ InTurn /\ DoorsShut /\ UsersGone /\ PoolInv

-----------------------------------------------------------------------------
LEMMA OrderIs ==
    /\ Len(Order) = 6
    /\ Order[1] = "db" /\ Order[2] = "clients" /\ Order[3] = "cleanup"
    /\ Order[4] = "worker" /\ Order[5] = "grpc" /\ Order[6] = "http"
    BY DEF Order

LEMMA FuncsAre == Funcs = {"db", "clients", "cleanup", "worker", "grpc", "http"}
<1>1. Funcs = {Order[i] : i \in 1 .. 6}
    BY OrderIs DEF Funcs
<1> QED
    BY <1>1, OrderIs

LEMMA InitIInv == Init => IInv
<1> SUFFICES ASSUME Init PROVE IInv
    OBVIOUS
<1> USE DEF Init
<1>1. Cardinality(conns) = 0 /\ IsFiniteSet(conns)
    BY FS_EmptySet
<1>2. leaked \in 0 .. PoolSize - Cardinality(conns)
    BY <1>1, PoolSizeAssumption
<1>3. TypeOK
    <2>1. run \in [Attempts -> [Funcs -> {"idle", "spawned", "running"} \cup Over]]
        OBVIOUS
    <2>2. idx \in 0 .. Len(Order)
        BY OrderIs
    <2> QED
        BY <1>2, <2>1, <2>2 DEF TypeOK
<1>4. MainInv /\ InTurn
    BY OrderIs, FuncsAre DEF MainInv, InTurn, Graceful, Attempts
<1>5. DoorsShut /\ UsersGone
    BY FuncsAre DEF DoorsShut, UsersGone, Graceful, Begun, Over, Attempts
<1>6. PoolInv
    BY <1>1 DEF PoolInv
<1> QED
    BY <1>3, <1>4, <1>5, <1>6 DEF IInv

-----------------------------------------------------------------------------
(* The users: handlers, goroutines of the worker, removals of images. *)

\* A connection is taken only where one is free.
LEMMA TakeFits ==
    ASSUME IInv, PoolGives, NEW h, conns' = conns \cup {h}, leaked' = leaked
    PROVE  IsFiniteSet(conns') /\ leaked' \in 0 .. PoolSize - Cardinality(conns')
<1> DEFINE c == Cardinality(conns)
           d == Cardinality(conns \cup {h})
<1>1. IsFiniteSet(conns) /\ IsFiniteSet(conns \cup {h})
    BY FS_AddElement DEF IInv, PoolInv
<1>2. d = c \/ d = c + 1
    BY <1>1, FS_AddElement
<1>3. c \in Nat /\ d \in Nat
    BY <1>1, FS_CardinalityType
<1>4. leaked \in 0 .. PoolSize - c /\ c + leaked < PoolSize
    BY DEF IInv, TypeOK, PoolGives
<1> HIDE DEF c, d
<1>5. leaked \in 0 .. PoolSize - d
    BY <1>2, <1>3, <1>4, PoolSizeAssumption
<1> QED
    BY <1>1, <1>5 DEF d

\* A connection that is given back makes room, and one that is forgotten keeps
\* the room it had.
LEMMA GiveFits ==
    ASSUME IInv, NEW h, conns' = conns \ {h}, leaked' \in {leaked, leaked + 1},
           leaked' = leaked \/ h \in conns
    PROVE  IsFiniteSet(conns') /\ leaked' \in 0 .. PoolSize - Cardinality(conns')
<1> DEFINE c == Cardinality(conns)
           d == Cardinality(conns \ {h})
<1>1. IsFiniteSet(conns) /\ IsFiniteSet(conns \ {h})
    BY FS_RemoveElement DEF IInv, PoolInv
<1>2. d = IF h \in conns THEN c - 1 ELSE c
    BY <1>1, FS_RemoveElement
<1>3. c \in Nat /\ d \in Nat
    BY <1>1, FS_CardinalityType
<1>4. leaked \in 0 .. PoolSize - c
    BY DEF IInv, TypeOK
<1> HIDE DEF c, d
<1>5. leaked' \in 0 .. PoolSize - d
    BY <1>2, <1>3, <1>4, PoolSizeAssumption
<1> QED
    BY <1>1, <1>5 DEF d

\* Steps of the users leave main and the functions alone.
LEMMA UserStep ==
    ASSUME IInv, UNCHANGED <<closing, run, open, stopped>>, PoolInv',
           work' \in [Work -> {"new", "handled", "querying", "filling", "done"}],
           threads' \subseteq threads, cleaning' \subseteq Requests,
           conns' \subseteq Work \cup Threads,
           leaked' \in 0 .. PoolSize - Cardinality(conns'), UsersGone'
    PROVE  IInv'
<1> USE DEF IInv, closing
<1>1. TypeOK'
    BY DEF TypeOK
<1>2. MainInv' /\ InTurn' /\ DoorsShut'
    BY DEF MainInv, InTurn, DoorsShut, Graceful
<1> QED
    BY <1>1, <1>2

LEMMA HandlersKeep ==
    ASSUME IInv, NEW w \in Work, Accept(w) \/ Handler(w)
    PROVE  IInv'
<1> USE DEF IInv
<1>1. CASE Accept(w)
    <2>1. PoolInv'
        BY <1>1 DEF Accept, TypeOK, PoolInv, pool
    <2>2. UsersGone'
        BY <1>1, WorkAssumption
        DEF Accept, TypeOK, UsersGone, DoorsShut, Graceful, Active, Begun, Over, Work, pool
    <2> QED
        BY <1>1, <2>1, <2>2, UserStep DEF Accept, TypeOK, pool
<1>2. CASE Acquire(w)
    <2>1. PoolInv'
        BY <1>2, TakeFits DEF Acquire, TypeOK, PoolInv
    <2>2. UsersGone'
        BY <1>2 DEF Acquire, PoolGives, TypeOK, UsersGone, DoorsShut, Graceful, Active, Begun, Over, Work
    <2>3. leaked' \in 0 .. PoolSize - Cardinality(conns')
        BY <1>2, TakeFits DEF Acquire
    <2> QED
        BY <1>2, <2>1, <2>2, <2>3, UserStep DEF Acquire, TypeOK
<1>3. CASE Refuse(w)
    <2>1. PoolInv'
        BY <1>3 DEF Refuse, TypeOK, PoolInv, pool
    <2>2. UsersGone'
        BY <1>3 DEF Refuse, TypeOK, UsersGone, Graceful, Active, Work, pool
    <2> QED
        BY <1>3, <2>1, <2>2, UserStep DEF Refuse, TypeOK, pool
<1>4. CASE EndWork(w)
    <2>0. PICK o \in {"filling", "done"} : work' = [work EXCEPT ![w] = o]
        BY <1>4 DEF EndWork
    <2>1. PoolInv'
        BY <1>4, <2>0, GiveFits DEF EndWork, Release, TypeOK, PoolInv
    <2>2. w \in Requests \/ cleaning' = cleaning
        BY <1>4 DEF EndWork
    <2>3. w \in Requests => Graceful("http") # "ok"
        BY <1>4 DEF EndWork, UsersGone, Active
    <2>4. UsersGone'
        BY <1>4, <2>0, <2>2, <2>3 DEF EndWork, Release, TypeOK, UsersGone, Graceful, Active, Work
    <2>5. leaked' \in 0 .. PoolSize - Cardinality(conns')
        BY <1>4, GiveFits DEF EndWork, Release
    <2>6. cleaning' \subseteq Requests
        BY <1>4 DEF EndWork, TypeOK
    <2> QED
        BY <1>4, <2>0, <2>1, <2>4, <2>5, <2>6, UserStep DEF EndWork, Release, TypeOK
<1> QED
    BY <1>1, <1>2, <1>3, <1>4 DEF Handler

LEMMA RequestsKeep ==
    ASSUME IInv, NEW r \in Requests, Leak(r) \/ EndCleanup(r)
    PROVE  IInv'
<1> USE DEF IInv
<1>0. r \in Work
    BY DEF Work
<1>1. CASE Leak(r)
    <2>1. r \in conns
        BY <1>0, <1>1 DEF Leak, PoolInv
    <2>2. PoolInv'
        BY <1>0, <1>1, GiveFits DEF Leak, Forget, TypeOK, PoolInv
    <2>3. UsersGone'
        BY <1>0, <1>1, <2>1 DEF Leak, Forget, TypeOK, UsersGone, Graceful, Active, Work
    <2>4. leaked' \in 0 .. PoolSize - Cardinality(conns')
        BY <1>1, <2>1, GiveFits DEF Leak, Forget
    <2> QED
        BY <1>0, <1>1, <2>2, <2>3, <2>4, UserStep DEF Leak, Forget, TypeOK
<1>2. CASE EndCleanup(r)
    <2>1. PoolInv'
        BY <1>2 DEF EndCleanup, PoolInv, pool
    <2>2. UsersGone'
        BY <1>2 DEF EndCleanup, UsersGone, Graceful, Active, pool
    <2> QED
        BY <1>2, <2>1, <2>2, UserStep DEF EndCleanup, TypeOK, pool
<1> QED
    BY <1>1, <1>2

\* The end of a cache fill concerns no function and no connection.
LEMMA FillKeeps ==
    ASSUME IInv, NEW c \in Calls, EndFill(c)
    PROVE  IInv'
<1> USE DEF IInv
<1>0. c \in Work /\ work[c] = "filling"
    BY DEF EndFill, Filling, Work
<1>1. PoolInv'
    BY <1>0 DEF EndFill, TypeOK, PoolInv, pool
<1>2. UsersGone'
    BY <1>0 DEF EndFill, TypeOK, UsersGone, Graceful, Active, Work, pool
<1> QED
    BY <1>0, <1>1, <1>2, UserStep DEF EndFill, TypeOK, pool

LEMMA WorkerKeeps ==
    ASSUME IInv, NEW t \in Threads, Query(t) \/ Answer(t) \/ LeakClaim(t) \/ WorkerEnd(t)
    PROVE  IInv'
<1> USE DEF IInv
<1>0. t \notin Work
    BY WorkAssumption DEF Work
<1>1. CASE Query(t)
    <2>1. PoolInv'
        BY <1>0, <1>1, TakeFits DEF Query, TypeOK, PoolInv
    <2>2. UsersGone'
        BY <1>1 DEF Query, PoolGives, UsersGone, DoorsShut, Graceful, Active, Begun, Over
    <2>3. leaked' \in 0 .. PoolSize - Cardinality(conns')
        BY <1>1, TakeFits DEF Query
    <2> QED
        BY <1>1, <2>1, <2>2, <2>3, UserStep DEF Query, TypeOK
<1>2. CASE Answer(t)
    <2>1. PoolInv'
        BY <1>0, <1>2, GiveFits DEF Answer, Release, TypeOK, PoolInv
    <2>2. UsersGone'
        BY <1>2 DEF Answer, Release, UsersGone, Graceful, Active
    <2>3. leaked' \in 0 .. PoolSize - Cardinality(conns')
        BY <1>2, GiveFits DEF Answer, Release
    <2> QED
        BY <1>2, <2>1, <2>2, <2>3, UserStep DEF Answer, Release, TypeOK
<1>3. CASE LeakClaim(t)
    <2>1. PoolInv'
        BY <1>0, <1>3, GiveFits DEF LeakClaim, Forget, TypeOK, PoolInv
    <2>2. UsersGone'
        BY <1>3 DEF LeakClaim, Forget, UsersGone, Graceful, Active
    <2>3. leaked' \in 0 .. PoolSize - Cardinality(conns')
        BY <1>3, GiveFits DEF LeakClaim, Forget
    <2> QED
        BY <1>3, <2>1, <2>2, <2>3, UserStep DEF LeakClaim, Forget, TypeOK
<1>4. CASE WorkerEnd(t)
    <2>1. PoolInv'
        BY <1>4 DEF WorkerEnd, PoolInv, pool
    <2>2. UsersGone'
        BY <1>4 DEF WorkerEnd, UsersGone, Graceful, Active, pool
    <2> QED
        BY <1>4, <2>1, <2>2, UserStep DEF WorkerEnd, TypeOK, pool
<1> QED
    BY <1>1, <1>2, <1>3, <1>4

-----------------------------------------------------------------------------
(* The functions, and main. *)

\* An attempt at a function is begun, or returns.
LEMMA FunctionsKeep ==
    ASSUME IInv, NEW a \in Attempts, NEW f \in Funcs, RunFunc(a, f) \/ Return(a, f)
    PROVE  IInv'
<1> USE DEF IInv
<1>0. /\ Over = {"ok", "error"} /\ Attempts = {"graceful", "forced"}
      /\ Graceful(f) \in {"idle", "spawned", "running", "ok", "error"}
    BY DEF Over, Attempts, Graceful, TypeOK
<1>1. PICK i \in 1 .. 6 : Order[i] = f
    BY OrderIs, FuncsAre
<1>2. CASE RunFunc(a, f) /\ Panics(f)
    <2>1. /\ phase' = "panicked"
          /\ UNCHANGED <<idx, late, errors, run, open, stopped, activity>>
        BY <1>2 DEF RunFunc
    <2> QED
        BY <2>1 DEF activity, pool, TypeOK, MainInv, InTurn, DoorsShut, UsersGone, PoolInv, Graceful, Active
<1>3. CASE RunFunc(a, f) /\ ~Panics(f)
    <2>1. /\ run[a][f] = "spawned" /\ run' = [run EXCEPT ![a][f] = "running"]
          /\ open' = open \ (IF f = "db" THEN {"pool"} ELSE {f})
          /\ stopped' = (stopped \/ f = "worker")
          /\ UNCHANGED <<phase, idx, late, errors, work, threads, cleaning, conns, leaked>>
        BY <1>3 DEF RunFunc, activity, pool
    <2>2. TypeOK'
        BY <2>1 DEF TypeOK
    <2>3. \A g \in Funcs : Graceful(g)' = IF a = "graceful" /\ g = f THEN "running" ELSE Graceful(g)
        BY <1>0, <2>1 DEF TypeOK, Graceful
    <2>4. a = "graceful" => i = idx /\ phase # "serving"
        BY <1>0, <1>1, <2>1 DEF TypeOK, InTurn, MainInv, Graceful
    <2>5. MainInv' /\ InTurn'
        BY <1>1, <2>1, <2>3, <2>4, OrderIs, FuncsAre DEF MainInv, InTurn
    <2>6. DoorsShut'
        BY <2>1, <2>3, FuncsAre DEF DoorsShut
    <2>7. UsersGone' /\ PoolInv'
        BY <2>1, <2>3, FuncsAre DEF UsersGone, Active, PoolInv
    <2> QED
        BY <2>2, <2>5, <2>6, <2>7
<1>4. CASE Return(a, f)
    <2>1. PICK o \in Over : run' = [run EXCEPT ![a][f] = o]
        BY <1>4 DEF Return, Failed, Over
    <2>2. /\ run[a][f] = "running"
          /\ UNCHANGED <<phase, idx, late, errors, open, stopped, work, threads, cleaning, conns, leaked>>
        BY <1>4 DEF Return, closing, activity, pool
    <2>3. TypeOK'
        BY <2>1, <2>2 DEF TypeOK
    <2>4. \A g \in Funcs : Graceful(g)' = IF a = "graceful" /\ g = f THEN o ELSE Graceful(g)
        BY <1>0, <2>1 DEF TypeOK, Graceful
    <2>5. a = "graceful" => i = idx /\ phase # "serving"
        BY <1>0, <1>1, <2>2 DEF TypeOK, InTurn, MainInv, Graceful
    <2>6. MainInv' /\ InTurn'
        BY <1>1, <2>2, <2>4, <2>5, OrderIs, FuncsAre DEF MainInv, InTurn
    <2>7. DoorsShut'
        BY <1>0, <2>2, <2>4, FuncsAre DEF DoorsShut, Begun, Graceful
    <2>8. a = "graceful" /\ o = "ok" => Settled(f)
        BY <1>4, <2>1, <2>4 DEF Return, Failed, TypeOK, Graceful
    <2>9. a = "graceful" /\ f = "http" => Graceful("cleanup") = "idle"
        BY <1>1, <2>5, OrderIs DEF InTurn
    <2>10. UsersGone'
        BY <1>0, <2>2, <2>4, <2>8, <2>9, FuncsAre DEF UsersGone, Active, Settled
    <2> QED
        BY <2>2, <2>3, <2>6, <2>7, <2>10 DEF PoolInv
<1> QED
    BY <1>2, <1>3, <1>4

LEMMA MainKeeps ==
    ASSUME IInv, Main \/ \E a \in Attempts : TimeIsUp(a)
    PROVE  IInv'
<1> USE DEF IInv
<1>0. idx \in 0 .. 6
    BY OrderIs DEF TypeOK
<1>1. UNCHANGED <<open, stopped, work, threads, cleaning, conns, leaked>>
    BY DEF Main, Signal, Spawn, Collect, Interrupt, ForcedEnd, TimeIsUp, activity, pool
<1>2. CASE Signal \/ \E a \in Attempts : TimeIsUp(a)
    <2>1. /\ UNCHANGED <<idx, errors, run>> /\ late' \subseteq Attempts
          /\ phase' = phase \/ (phase = "serving" /\ phase' = "graceful")
        BY <1>2 DEF Signal, TimeIsUp, TypeOK
    <2>2. TypeOK'
        BY <1>1, <2>1 DEF TypeOK
    <2>3. MainInv' /\ InTurn'
        BY <2>1 DEF MainInv, InTurn, Graceful
    <2> QED
        BY <1>1, <2>1, <2>2, <2>3 DEF DoorsShut, UsersGone, PoolInv, Graceful, Active
<1>3. CASE Spawn
    <2> DEFINE f == Order[idx]
    <2>1. f \in Funcs /\ idx \in 1 .. 6
        BY <1>0, <1>3, OrderIs, FuncsAre DEF Spawn, MainInv
    <2>2. /\ Graceful(f) = "idle" /\ Spawned(f) \in {"spawned", "running"}
          /\ Spawned(f) = "running" => f \in {"cleanup", "clients"}
          /\ run' = [run EXCEPT !["graceful"][f] = Spawned(f)]
          /\ UNCHANGED <<phase, idx, late, errors>> /\ phase = "graceful"
        BY <1>3 DEF Spawn, Spawned, Graceful, closing
    <2>3. \A g \in Funcs : Graceful(g)' = IF g = f THEN Spawned(f) ELSE Graceful(g)
        BY <2>1, <2>2 DEF TypeOK, Graceful, Attempts
    <2>4. TypeOK'
        BY <1>1, <2>1, <2>2 DEF TypeOK, Attempts
    <2>5. MainInv' /\ InTurn'
        BY <2>1, <2>2, <2>3, OrderIs, FuncsAre DEF MainInv, InTurn
    <2>6. DoorsShut' /\ UsersGone' /\ PoolInv'
        BY <1>1, <2>2, <2>3, FuncsAre DEF DoorsShut, UsersGone, PoolInv, Active, Begun, Over
    <2> QED
        BY <2>4, <2>5, <2>6
<1>4. CASE Collect
    <2>1. idx' = idx - 1 /\ idx \in 1 .. 6 /\ run' = run
        BY <1>0, <1>4 DEF Collect, MainInv
    <2>2. TypeOK'
        BY <1>1, <1>4, <2>1, OrderIs DEF Collect, TypeOK
    <2>3. MainInv'
        BY <1>4, <2>1 DEF Collect, MainInv
    <2>4. InTurn'
        <3>1. /\ Graceful(Order[idx]) \in Over
              /\ ~errors' => ~errors /\ Graceful(Order[idx]) # "error"
            BY <1>4 DEF Collect, Graceful
        <3>2. \A i \in 1 .. 6 : Graceful(Order[i])' = Graceful(Order[i])
            BY <2>1 DEF Graceful
        <3> QED
            BY <2>1, <3>1, <3>2 DEF InTurn, Over
    <2> QED
        BY <1>1, <2>1, <2>2, <2>3, <2>4 DEF DoorsShut, UsersGone, PoolInv, Graceful, Active
<1>5. CASE Interrupt
    <2>1. \A g \in Funcs : Graceful(g)' = Graceful(g)
        BY <1>5 DEF Interrupt, Graceful, TypeOK
    <2>2. TypeOK'
        BY <1>1, <1>5 DEF Interrupt, TypeOK, Spawned, Forced, Over
    <2>3. MainInv' /\ InTurn'
        BY <1>5, <2>1, OrderIs, FuncsAre DEF Interrupt, MainInv, InTurn
    <2> QED
        BY <1>1, <2>1, <2>2, <2>3, FuncsAre DEF DoorsShut, UsersGone, PoolInv, Active
<1>6. CASE ForcedEnd
    BY <1>1, <1>6 DEF ForcedEnd, TypeOK, MainInv, InTurn, DoorsShut, UsersGone, PoolInv, Graceful, Active
<1> QED
    BY <1>2, <1>3, <1>4, <1>5, <1>6 DEF Main

LEMMA NextKeeps == IInv /\ [Next]_vars => IInv'
<1> SUFFICES ASSUME IInv, [Next]_vars PROVE IInv'
    OBVIOUS
<1>1. CASE UNCHANGED vars
    BY <1>1 DEF vars, IInv, TypeOK, MainInv, InTurn, DoorsShut, UsersGone, PoolInv, Graceful, Active
<1>2. CASE Next
    BY <1>2, HandlersKeep, RequestsKeep, FillKeeps, WorkerKeeps, FunctionsKeep, MainKeeps DEF Next
<1> QED
    BY <1>1, <1>2

-----------------------------------------------------------------------------
(* The theorems. *)

\* One function after the other is closed, and each has shut its door and seen
\* its users leave: the invariant the two theorems below rest on.
THEOREM InvariantHolds == Spec => []IInv
    BY InitIInv, NextKeeps, PTL DEF Spec

\* The state of the shutdown keeps its types; in particular no more connections
\* are in use or forgotten than the pool has.
THEOREM TypeCorrect == Spec => []TypeOK
<1>1. IInv => TypeOK
    BY DEF IInv
<1> QED
    BY <1>1, InvariantHolds, PTL

\* Once the functions of servers, worker and cleanup have returned without an
\* error, nobody is left whom one of them waits for.
LEMMA NobodyIsLeft ==
    ASSUME IInv, Graceful("http") = "ok", Graceful("grpc") = "ok",
           Graceful("worker") = "ok", Graceful("cleanup") = "ok"
    PROVE  Users \subseteq Filling
    BY DEF IInv, UsersGone, Users, Active, Work

\* The order of the registration in app.go keeps Postgres and the clients open
\* until the last handler, goroutine and removal of images is over.  It does
\* nothing for the cache fills, which no function waits for.
THEOREM StoresAreClosedLast == Spec => []StoresOutliveUsers
<1>1. IInv => StoresOutliveUsers
    <2> SUFFICES ASSUME IInv, phase = "graceful", ~errors, NEW f \in Stores, Graceful(f) # "idle"
                 PROVE  Users \subseteq Filling
        BY DEF StoresOutliveUsers, Graceful
    <2>1. idx \in 0 .. 2
        BY OrderIs DEF IInv, TypeOK, InTurn, Stores
    <2> QED
        BY <2>1, OrderIs, NobodyIsLeft DEF IInv, InTurn
<1> QED
    BY <1>1, InvariantHolds, PTL

\* A shutdown that reports no error has left no connection behind, and of the
\* users at most the cache fills.
THEOREM CleanCloseIsClean == Spec => []CleanCloseLeavesOnlyFills
<1>1. IInv => CleanCloseLeavesOnlyFills
    <2> SUFFICES ASSUME IInv, phase = "closed", ~errors
                 PROVE  Users \subseteq Filling /\ conns = {} /\ leaked = 0
        BY DEF CleanCloseLeavesOnlyFills
    <2>1. \A i \in 1 .. 6 : Graceful(Order[i]) = "ok"
        BY DEF IInv, MainInv, InTurn
    <2> QED
        BY <2>1, OrderIs, NobodyIsLeft DEF IInv, UsersGone
<1> QED
    BY <1>1, InvariantHolds, PTL
=============================================================================
