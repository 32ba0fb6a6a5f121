---------------------------- MODULE ProductCache ----------------------------
(***************************************************************************)
(* ProductUseCase.GetProductsInfo (internal/usecase/product_usecase.go),   *)
(* read through the Redis cache (internal/repository/redis/cache_repo.go), *)
(* against the registrations that change a product and then drop it from   *)
(* the cache.                                                              *)
(*                                                                         *)
(* What is known of a product is its version: 0 while it does not exist,   *)
(* one more with every commit that changes it.  A call answers before its  *)
(* background goroutine has filled the cache, and the SETs of one fill run *)
(* one by one (a pipeline is not a transaction), each against whatever     *)
(* commits, purges and other fills do meanwhile.                           *)
(***************************************************************************)
EXTENDS Integers, FiniteSets

CONSTANTS
    Products,       \* ids of products
    Calls,          \* calls of GetProductsInfo
    MaxVersion,     \* bound: changes of one product
    Faults          \* which failures may happen

FaultClasses == {"redis", "db", "midway"}

ASSUME MaxVersionAssumption == MaxVersion \in Nat \ {0}
ASSUME FaultsAssumption == Faults \subseteq FaultClasses

Versions == 0 .. MaxVersion

VARIABLES
    row,        \* the committed version of each product
    cache,      \* the cached version of each product, 0 for none
    purging,    \* commits whose DEL has not reached Redis: product, version
    filling,    \* SETs of background fills still to come: call, product, version
    pc,         \* where each call is
    asked,      \* the ids of the request
    hit,        \* what MGET gave the call, 0 for a miss
    answer,     \* what the call returned, 0 for a product not found
    before,     \* observer: the versions when the call began
    quiet,      \* observer: products with nothing under way when it began
    late        \* observer: products whose purge was lost or overtaken by a fill

call == <<pc, asked, hit, answer, before, quiet>>
vars == <<row, cache, purging, filling, pc, asked, hit, answer, before, quiet, late>>

TypeOK ==
    /\ row \in [Products -> Versions]
    /\ cache \in [Products -> Versions]
    /\ purging \subseteq Products \X Versions
    /\ filling \subseteq Calls \X Products \X Versions
    /\ pc \in [Calls -> {"new", "cache", "table", "done", "failed"}]
    /\ asked \in [Calls -> SUBSET Products]
    /\ hit \in [Calls -> [Products -> Versions]]
    /\ answer \in [Calls -> [Products -> Versions]]
    /\ before \in [Calls -> [Products -> Versions]]
    /\ quiet \in [Calls -> SUBSET Products]
    /\ late \subseteq Products

Nothing == [p \in Products |-> 0]

Init ==
    /\ row \in [Products -> Versions]
    /\ cache = Nothing
    /\ purging = {}
    /\ filling = {}
    /\ pc = [c \in Calls |-> "new"]
    /\ asked = [c \in Calls |-> {}]
    /\ hit = [c \in Calls |-> Nothing]
    /\ answer = [c \in Calls |-> Nothing]
    /\ before = [c \in Calls |-> Nothing]
    /\ quiet = [c \in Calls |-> {}]
    /\ late = {}

-----------------------------------------------------------------------------
(* A registration commits, and drops the product from the cache after it.  *)

\* Mutant of CommitProduct: the purge was made before the commit.
CommitAfterPurge(p) ==
    /\ row[p] < MaxVersion
    /\ row' = [row EXCEPT ![p] = @ + 1]
    /\ UNCHANGED <<cache, purging, filling, call, late>>

CommitProduct(p) ==
    /\ row[p] < MaxVersion
    /\ row' = [row EXCEPT ![p] = @ + 1]
    /\ purging' = purging \cup {<<p, row[p] + 1>>}
    /\ UNCHANGED <<cache, filling, call, late>>

Purge(d) ==
    /\ d \in purging
    /\ purging' = purging \ {d}
    /\ cache' = [cache EXCEPT ![d[1]] = 0]
    /\ late' = late \ {d[1]}
    /\ UNCHANGED <<row, filling, call>>

\* DeleteProducts swallows its error, or the process dies before it.
PurgeLost(d) ==
    /\ d \in purging
    /\ "redis" \in Faults
    /\ purging' = purging \ {d}
    /\ late' = late \cup {d[1]}
    /\ UNCHANGED <<row, cache, filling, call>>

\* Mutant of Expire: no time to live.
NeverExpires(p) == FALSE

\* The time to live of the entry is over.
Expire(p) ==
    /\ cache[p] # 0
    /\ cache' = [cache EXCEPT ![p] = 0]
    /\ late' = late \ {p}
    /\ UNCHANGED <<row, purging, filling, call>>

-----------------------------------------------------------------------------
(* One call of GetProductsInfo. *)

\* Nothing is under way that could put an old version into the cache.
Quiet(p) ==
    /\ p \notin late
    /\ \A d \in purging : d[1] # p
    /\ \A f \in filling : f[2] = p => f[3] = row[p]

\* The service has made a set of the ids; an empty one is refused at once.
Ask(c, S) ==
    /\ pc[c] = "new"
    /\ S # {}
    /\ asked' = [asked EXCEPT ![c] = S]
    /\ before' = [before EXCEPT ![c] = [p \in Products |-> IF p \in S THEN row[p] ELSE 0]]
    /\ quiet' = [quiet EXCEPT ![c] = {p \in S : Quiet(p)}]
    /\ pc' = [pc EXCEPT ![c] = "cache"]
    /\ UNCHANGED <<row, cache, purging, filling, hit, answer, late>>

\* Mutant of Respond: the rows of the table are left out.
RespondCached(c, cached, found) == answer' = [answer EXCEPT ![c] = cached]

\* What the call returns: the cached products, then those of the table.
Respond(c, cached, found) ==
    answer' = [answer EXCEPT ![c] =
                 [p \in Products |-> IF cached[p] # 0 THEN cached[p] ELSE found[p]]]

\* MGET, one command: when it has every product, the table is not asked.
GetCached(c) ==
    /\ pc[c] = "cache"
    /\ LET cached == [p \in Products |-> IF p \in asked[c] THEN cache[p] ELSE 0]
       IN  \/ /\ \A p \in asked[c] : cached[p] # 0
              /\ Respond(c, cached, Nothing)
              /\ pc' = [pc EXCEPT ![c] = "done"]
              /\ UNCHANGED hit
           \/ /\ \E p \in asked[c] : cached[p] = 0
              /\ hit' = [hit EXCEPT ![c] = cached]
              /\ pc' = [pc EXCEPT ![c] = "table"]
              /\ UNCHANGED answer
    /\ UNCHANGED <<row, cache, purging, filling, asked, before, quiet, late>>

\* Redis does not answer: every product is looked up in the table.
GetCachedFail(c) ==
    /\ pc[c] = "cache"
    /\ "redis" \in Faults
    /\ pc' = [pc EXCEPT ![c] = "table"]
    /\ UNCHANGED <<row, cache, purging, filling, asked, hit, answer, before, quiet, late>>

Missing(c) == {p \in asked[c] : hit[c][p] = 0}

\* The rows S of the missing products arrive: the call answers and leaves the
\* fill of the cache to the background.
Found(c, S) ==
    LET found == [p \in Products |-> IF p \in S THEN row[p] ELSE 0]
    IN  /\ Respond(c, hit[c], found)
        /\ filling' = filling \cup {<<c, p, row[p]>> : p \in {q \in S : row[q] # 0}}
        /\ pc' = [pc EXCEPT ![c] = "done"]
        /\ hit' = [hit EXCEPT ![c] = Nothing]
        /\ UNCHANGED <<row, cache, purging, asked, before, quiet, late>>

ReadTable(c) ==
    /\ pc[c] = "table"
    /\ Found(c, Missing(c))

\* The connection breaks or the context ends between two rows: rows.Next
\* stops, nobody asks rows.Err, and what came is taken for everything.
ReadTableMidway(c) ==
    /\ pc[c] = "table"
    /\ "midway" \in Faults
    /\ \E S \in (SUBSET Missing(c)) \ {Missing(c)} : Found(c, S)

ReadTableFail(c) ==
    /\ pc[c] = "table"
    /\ "db" \in Faults
    /\ pc' = [pc EXCEPT ![c] = "failed"]
    /\ UNCHANGED <<row, cache, purging, filling, asked, hit, answer, before, quiet, late>>

-----------------------------------------------------------------------------
(* The background fill: SetProducts. *)

\* Mutant of Fill: it stores a version that is still to be committed.
FillNext(f) ==
    /\ f \in filling
    /\ filling' = filling \ {f}
    /\ cache' = [cache EXCEPT ![f[2]] = f[3] + 1]
    /\ late' = late \ {f[2]}
    /\ UNCHANGED <<row, purging, call>>

Fill(f) ==
    /\ f \in filling
    /\ filling' = filling \ {f}
    /\ cache' = [cache EXCEPT ![f[2]] = f[3]]
    /\ late' = IF f[3] = row[f[2]] \/ \E d \in purging : d[1] = f[2] /\ d[2] > f[3]
               THEN late \ {f[2]} ELSE late \cup {f[2]}
    /\ UNCHANGED <<row, purging, call>>

\* The 500 milliseconds are over, Redis refuses, or the process dies.
FillLost(f) ==
    /\ f \in filling
    /\ "redis" \in Faults
    /\ filling' = filling \ {f}
    /\ UNCHANGED <<row, cache, purging, call, late>>

-----------------------------------------------------------------------------
Call(c) ==
    \/ GetCached(c) \/ GetCachedFail(c)
    \/ ReadTable(c) \/ ReadTableMidway(c) \/ ReadTableFail(c)

Background ==
    \/ \E d \in purging : Purge(d) \/ PurgeLost(d)
    \/ \E f \in filling : Fill(f) \/ FillLost(f)

Next ==
    \/ \E p \in Products : CommitProduct(p) \/ Expire(p)
    \/ \E c \in Calls : Call(c) \/ \E S \in SUBSET Products : Ask(c, S)
    \/ Background

Spec == Init /\ [][Next]_vars

(* Goroutines run, Redis answers or refuses, and entries expire. *)
Fairness ==
    /\ \A c \in Calls : WF_vars(Call(c))
    /\ WF_vars(Background)
    /\ \A p \in Products : WF_vars(Expire(p))

FairSpec == Spec /\ Fairness

-----------------------------------------------------------------------------
(* Safety *)

\* The cache never knows a version that was not committed, and neither does a
\* fill that is still to come: dirty data of an open transaction stays out.
CachedWasCommitted ==
    /\ \A p \in Products : cache[p] <= row[p]
    /\ \A f \in filling : 1 <= f[3] /\ f[3] <= row[f[2]]

\* An old version in the cache is on its way out: the purge of the commit that
\* outdated it is still to come.  The exceptions are in `late': a purge that
\* was lost, and a fill that had read before a commit and lands after its
\* purge.  This is why RegisterNewProduct purges after the commit.
StaleIsPurged ==
    \A p \in Products \ late :
        cache[p] \notin {0, row[p]} => \E d \in purging : d[1] = p /\ d[2] > cache[p]

\* A call never returns less than what was committed when it began, if
\* nothing was under way then that could bring an old version back.
FreshIfQuiet ==
    \A c \in Calls : pc[c] = "done" =>
        \A p \in quiet[c] : answer[c][p] = 0 \/ answer[c][p] >= before[c][p]

\* Whatever else fails, only an answer cut off midway makes a call report a
\* product that existed when it began as not found.
NotFoundOnlyMidway ==
    [][\A c \in Calls : pc[c] # "done" /\ pc'[c] = "done" =>
          \/ \A p \in asked[c] : before[c][p] > 0 => answer'[c][p] > 0
          \/ ReadTableMidway(c)]_vars

-----------------------------------------------------------------------------
(* Liveness *)

\* Once the registrations and the calls are over, the cache comes to agree
\* with the table, and stays so, even after a lost purge or a late fill.
CacheConverges == <>[](\A p \in Products : cache[p] \in {0, row[p]})

=============================================================================
