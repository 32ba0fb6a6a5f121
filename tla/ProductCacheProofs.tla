------------------------- MODULE ProductCacheProofs -------------------------
(***************************************************************************)
(* Proofs about ProductCache: for any products, any number of calls, any   *)
(* bound on the versions and any failures, the cache holds only committed  *)
(* versions, an old one is on its way out but for the named exceptions,    *)
(* and a call that begins in quiet never answers with something older.     *)
(***************************************************************************)
EXTENDS ProductCache, TLAPS

-----------------------------------------------------------------------------
(* Type correctness. *)

\* A purge and a SET name a product and a version of it.
LEMMA RecordFacts ==
    ASSUME TypeOK
    PROVE  /\ \A d \in purging : d = <<d[1], d[2]>> /\ d[1] \in Products /\ d[2] \in Versions
           /\ \A f \in filling : /\ f = <<f[1], f[2], f[3]>>
                                 /\ f[1] \in Calls /\ f[2] \in Products /\ f[3] \in Versions
BY DEF TypeOK

\* Every step keeps the types.
LEMMA TypeStep == TypeOK /\ [Next]_vars => TypeOK'
<1> SUFFICES ASSUME TypeOK, [Next]_vars
             PROVE  TypeOK'
    OBVIOUS
<1> USE MaxVersionAssumption DEF TypeOK, Versions, call
<1>1. ASSUME NEW p \in Products, CommitProduct(p) PROVE TypeOK'
    BY <1>1 DEF CommitProduct
<1>2. ASSUME NEW p \in Products, Expire(p) PROVE TypeOK'
    BY <1>2 DEF Expire
<1>3. ASSUME NEW d \in purging, Purge(d) \/ PurgeLost(d) PROVE TypeOK'
    BY <1>3, RecordFacts DEF Purge, PurgeLost
<1>4. ASSUME NEW f \in filling, Fill(f) \/ FillLost(f) PROVE TypeOK'
    BY <1>4, RecordFacts DEF Fill, FillLost
<1>5. ASSUME NEW c \in Calls, NEW S \in SUBSET Products, Ask(c, S) PROVE TypeOK'
    <2>1. [p \in Products |-> IF p \in S THEN row[p] ELSE 0] \in [Products -> Versions]
        OBVIOUS
    <2> QED
        BY <1>5, <2>1 DEF Ask
<1>6. ASSUME NEW c \in Calls, GetCached(c) PROVE TypeOK'
    <2> DEFINE cached == [p \in Products |-> IF p \in asked[c] THEN cache[p] ELSE 0]
    <2>1. cached \in [Products -> Versions]
        OBVIOUS
    <2>2. [p \in Products |-> IF cached[p] # 0 THEN cached[p] ELSE Nothing[p]]
             \in [Products -> Versions]
        BY <2>1 DEF Nothing
    <2>3. /\ \/ /\ answer' = [answer EXCEPT ![c] =
                                [p \in Products |-> IF cached[p] # 0 THEN cached[p] ELSE Nothing[p]]]
                /\ pc' = [pc EXCEPT ![c] = "done"] /\ UNCHANGED hit
             \/ /\ hit' = [hit EXCEPT ![c] = cached]
                /\ pc' = [pc EXCEPT ![c] = "table"] /\ UNCHANGED answer
          /\ UNCHANGED <<row, cache, purging, filling, asked, before, quiet, late>>
        BY <1>6 DEF GetCached, Respond
    <2> HIDE DEF cached
    <2>4. answer' \in [Calls -> [Products -> Versions]]
        BY <2>2, <2>3
    <2>5. hit' \in [Calls -> [Products -> Versions]]
        BY <2>1, <2>3
    <2>6. pc' \in [Calls -> {"new", "cache", "table", "done", "failed"}]
        BY <2>3
    <2> QED
        BY <2>3, <2>4, <2>5, <2>6
<1>7. ASSUME NEW c \in Calls, NEW S \in SUBSET Products, Found(c, S) PROVE TypeOK'
    <2> DEFINE found == [p \in Products |-> IF p \in S THEN row[p] ELSE 0]
    <2>1. [p \in Products |-> IF hit[c][p] # 0 THEN hit[c][p] ELSE found[p]]
             \in [Products -> Versions]
        OBVIOUS
    <2>2. Nothing \in [Products -> Versions]
        BY DEF Nothing
    <2>3. {<<c, p, row[p]>> : p \in {q \in S : row[q] # 0}} \subseteq Calls \X Products \X Versions
        OBVIOUS
    <2> QED
        BY <1>7, <2>1, <2>2, <2>3 DEF Found, Respond
<1>8. ASSUME NEW c \in Calls, Call(c) PROVE TypeOK'
    <2>1. CASE GetCachedFail(c) \/ ReadTableFail(c)
        BY <2>1 DEF GetCachedFail, ReadTableFail
    <2>2. CASE ReadTable(c) \/ ReadTableMidway(c)
        <3>1. PICK S \in SUBSET Products : Found(c, S)
            BY <2>2 DEF ReadTable, ReadTableMidway, Missing
        <3> QED
            BY <3>1, <1>7
    <2> QED
        BY <1>6, <1>8, <2>1, <2>2 DEF Call
<1>9. CASE UNCHANGED vars
    BY <1>9 DEF vars
<1> QED
    BY <1>1, <1>2, <1>3, <1>4, <1>5, <1>8, <1>9 DEF Next, Background

\* Whatever calls, commits and failures do, the state keeps its types, and
\* every version in it stays within the bound.
THEOREM TypeCorrect == Spec => []TypeOK
<1>1. Init => TypeOK
    BY MaxVersionAssumption DEF Init, TypeOK, Nothing, Versions
<1> QED
    BY <1>1, TypeStep, PTL DEF Spec

-----------------------------------------------------------------------------
(* The cache and the table. *)

\* The two facts about the cache are preserved together with the types.
LEMMA CacheStep ==
    ASSUME TypeOK, CachedWasCommitted, StaleIsPurged, [Next]_vars
    PROVE  CachedWasCommitted' /\ StaleIsPurged'
<1> USE DEF TypeOK, Versions, CachedWasCommitted, StaleIsPurged, call
<1>1. ASSUME NEW p \in Products, CommitProduct(p) PROVE CachedWasCommitted' /\ StaleIsPurged'
    <2>1. /\ row[p] < MaxVersion
          /\ row' = [row EXCEPT ![p] = @ + 1]
          /\ purging' = purging \cup {<<p, row[p] + 1>>}
          /\ UNCHANGED <<cache, filling, late>>
        BY <1>1 DEF CommitProduct
    <2>2. CachedWasCommitted'
        BY <2>1, RecordFacts, MaxVersionAssumption
    <2>3. StaleIsPurged'
        <3> SUFFICES ASSUME NEW q \in Products \ late, cache[q] \notin {0, row'[q]}
                     PROVE  \E d \in purging' : d[1] = q /\ d[2] > cache[q]
            BY <2>1
        <3>1. CASE q # p
            BY <2>1, <3>1
        <3>2. CASE q = p
            <4>1. <<p, row[p] + 1>> \in purging' /\ cache[p] < row[p] + 1
                BY <2>1, MaxVersionAssumption
            <4> QED
                BY <3>2, <4>1
        <3> QED
            BY <3>1, <3>2
    <2> QED
        BY <2>2, <2>3
<1>2. ASSUME NEW p \in Products, Expire(p) PROVE CachedWasCommitted' /\ StaleIsPurged'
    BY <1>2, MaxVersionAssumption DEF Expire
<1>3. ASSUME NEW d \in purging, Purge(d) \/ PurgeLost(d)
      PROVE  CachedWasCommitted' /\ StaleIsPurged'
    <2>1. d[1] \in Products /\ d[2] \in Versions
        BY RecordFacts
    <2>2. CASE Purge(d)
        <3>1. CachedWasCommitted'
            BY <2>1, <2>2, RecordFacts, MaxVersionAssumption DEF Purge
        <3>2. \A q \in Products \ late' : q # d[1] => q \notin late /\ cache'[q] = cache[q]
            BY <2>1, <2>2 DEF Purge
        <3>3. \A e \in purging : e[1] # d[1] => e \in purging'
            BY <2>2 DEF Purge
        <3>4. cache'[d[1]] = 0 /\ row' = row
            BY <2>1, <2>2 DEF Purge
        <3> QED
            BY <3>1, <3>2, <3>3, <3>4
    <2>3. CASE PurgeLost(d)
        <3>1. UNCHANGED <<row, cache, filling>> /\ late' = late \cup {d[1]}
            BY <2>3 DEF PurgeLost
        <3>2. \A e \in purging : e[1] # d[1] => e \in purging'
            BY <2>3 DEF PurgeLost
        <3> QED
            BY <3>1, <3>2
    <2> QED
        BY <1>3, <2>2, <2>3
<1>4. ASSUME NEW f \in filling, Fill(f) \/ FillLost(f)
      PROVE  CachedWasCommitted' /\ StaleIsPurged'
    BY <1>4, RecordFacts, MaxVersionAssumption DEF Fill, FillLost
<1>5. ASSUME NEW c \in Calls, Call(c) \/ \E S \in SUBSET Products : Ask(c, S)
      PROVE  CachedWasCommitted' /\ StaleIsPurged'
    <2>1. UNCHANGED <<row, cache, purging, late>>
        BY <1>5 DEF Ask, Call, GetCached, GetCachedFail, ReadTable, ReadTableMidway,
                    ReadTableFail, Found
    <2>2. \A f \in filling' : f \in filling \/ \E p \in Products : f[2] = p /\ f[3] = row[p] /\ row[p] # 0
        <3>1. CASE ReadTable(c) \/ ReadTableMidway(c)
            <4>1. PICK S \in SUBSET Products : Found(c, S)
                BY <3>1 DEF ReadTable, ReadTableMidway, Missing
            <4>2. filling' = filling \cup {<<c, p, row[p]>> : p \in {q \in S : row[q] # 0}}
                BY <4>1 DEF Found
            <4> QED
                BY <4>2
        <3>2. CASE ~(ReadTable(c) \/ ReadTableMidway(c))
            BY <1>5, <3>2 DEF Ask, Call, GetCached, GetCachedFail, ReadTableFail
        <3> QED
            BY <3>1, <3>2
    <2> QED
        BY <2>1, <2>2, MaxVersionAssumption
<1>6. CASE UNCHANGED vars
    BY <1>6 DEF vars
<1> QED
    BY <1>1, <1>2, <1>3, <1>4, <1>5, <1>6 DEF Next, Background

\* Both hold in every reachable state.
LEMMA CacheHolds == Spec => [](CachedWasCommitted /\ StaleIsPurged)
<1>1. Init => CachedWasCommitted /\ StaleIsPurged
    BY MaxVersionAssumption DEF Init, CachedWasCommitted, StaleIsPurged, Nothing, Versions
<1>2. TypeOK /\ (CachedWasCommitted /\ StaleIsPurged) /\ [Next]_vars
         => (CachedWasCommitted /\ StaleIsPurged)'
    BY CacheStep
<1> QED
    BY <1>1, <1>2, TypeCorrect, PTL DEF Spec

\* Neither the cache nor a fill on its way ever holds a version that was not
\* committed.
THEOREM OnlyCommittedIsCached == Spec => []CachedWasCommitted
BY CacheHolds, PTL

\* An old version in the cache is about to be purged, unless its purge was
\* lost or a late fill overtook it.
THEOREM StaleEntriesArePurged == Spec => []StaleIsPurged
BY CacheHolds, PTL

-----------------------------------------------------------------------------
(* What a call answers. *)

\* From a quiet beginning on, nothing older than what the call found committed
\* can reach the cache, the fills, the hits or the answer.
QuietStaysQuiet ==
    \A c \in Calls : \A p \in quiet[c] :
        /\ before[c][p] <= row[p]
        /\ cache[p] = 0 \/ before[c][p] <= cache[p]
        /\ \A f \in filling : f[2] = p => before[c][p] <= f[3]
        /\ hit[c][p] = 0 \/ before[c][p] <= hit[c][p]
        /\ answer[c][p] = 0 \/ before[c][p] <= answer[c][p]
        /\ p \in asked[c]

\* A call that has not begun knows nothing.
NewKnowsNothing ==
    \A c \in Calls : pc[c] = "new" => hit[c] = Nothing /\ answer[c] = Nothing

\* Every step keeps what a call may answer.
LEMMA QuietStep ==
    ASSUME TypeOK, CachedWasCommitted, StaleIsPurged, QuietStaysQuiet, NewKnowsNothing,
           [Next]_vars
    PROVE  QuietStaysQuiet' /\ NewKnowsNothing'
<1> USE DEF TypeOK, Versions, QuietStaysQuiet, NewKnowsNothing, call
<1>1. ASSUME NEW p \in Products, CommitProduct(p) PROVE QuietStaysQuiet' /\ NewKnowsNothing'
    BY <1>1, MaxVersionAssumption DEF CommitProduct
<1>2. ASSUME NEW p \in Products, Expire(p) PROVE QuietStaysQuiet' /\ NewKnowsNothing'
    BY <1>2, MaxVersionAssumption DEF Expire
<1>3. ASSUME NEW d \in purging, Purge(d) \/ PurgeLost(d)
      PROVE  QuietStaysQuiet' /\ NewKnowsNothing'
    BY <1>3, RecordFacts, MaxVersionAssumption DEF Purge, PurgeLost
<1>4. ASSUME NEW f \in filling, Fill(f) \/ FillLost(f)
      PROVE  QuietStaysQuiet' /\ NewKnowsNothing'
    BY <1>4, RecordFacts, MaxVersionAssumption DEF Fill, FillLost
<1>5. ASSUME NEW c \in Calls, NEW S \in SUBSET Products, Ask(c, S)
      PROVE  QuietStaysQuiet' /\ NewKnowsNothing'
    <2>1. \A p \in S : Quiet(p) =>
             /\ cache[p] = 0 \/ cache[p] = row[p]
             /\ \A f \in filling : f[2] = p => f[3] = row[p]
        BY DEF Quiet, StaleIsPurged
    <2>2. /\ hit[c] = Nothing /\ answer[c] = Nothing
          /\ asked' = [asked EXCEPT ![c] = S]
          /\ before' = [before EXCEPT ![c] = [p \in Products |-> IF p \in S THEN row[p] ELSE 0]]
          /\ quiet' = [quiet EXCEPT ![c] = {p \in S : Quiet(p)}]
          /\ pc' = [pc EXCEPT ![c] = "cache"]
          /\ UNCHANGED <<row, cache, purging, filling, hit, answer, late>>
        BY <1>5 DEF Ask
    <2>3. \A p \in Products : Nothing[p] = 0
        BY DEF Nothing
    <2>4. QuietStaysQuiet'
        <3> SUFFICES ASSUME NEW b \in Calls, NEW p \in quiet'[b]
                     PROVE  /\ before'[b][p] <= row[p]
                            /\ cache[p] = 0 \/ before'[b][p] <= cache[p]
                            /\ \A f \in filling : f[2] = p => before'[b][p] <= f[3]
                            /\ hit[b][p] = 0 \/ before'[b][p] <= hit[b][p]
                            /\ answer[b][p] = 0 \/ before'[b][p] <= answer[b][p]
                            /\ p \in asked'[b]
            BY <2>2
        <3>1. CASE b # c
            BY <2>2, <3>1
        <3>2. CASE b = c
            <4>1. p \in S /\ Quiet(p) /\ before'[b][p] = row[p]
                BY <2>2, <3>2
            <4> QED
                BY <2>1, <2>2, <2>3, <3>2, <4>1, MaxVersionAssumption
        <3> QED
            BY <3>1, <3>2
    <2> QED
        BY <2>2, <2>4
<1>6. ASSUME NEW c \in Calls, GetCached(c) PROVE QuietStaysQuiet' /\ NewKnowsNothing'
    <2> DEFINE cached == [p \in Products |-> IF p \in asked[c] THEN cache[p] ELSE 0]
    <2>1. /\ pc[c] = "cache"
          /\ \/ /\ answer' = [answer EXCEPT ![c] =
                                [p \in Products |-> IF cached[p] # 0 THEN cached[p] ELSE Nothing[p]]]
                /\ pc' = [pc EXCEPT ![c] = "done"] /\ UNCHANGED hit
             \/ /\ hit' = [hit EXCEPT ![c] = cached]
                /\ pc' = [pc EXCEPT ![c] = "table"] /\ UNCHANGED answer
          /\ UNCHANGED <<row, cache, purging, filling, asked, before, quiet, late>>
        BY <1>6 DEF GetCached, Respond
    <2>2. \A p \in quiet[c] : /\ cached[p] = 0 \/ before[c][p] <= cached[p]
                              /\ Nothing[p] = 0
        BY DEF Nothing
    <2> HIDE DEF cached
    <2>3. NewKnowsNothing'
        BY <2>1
    <2>4. CASE pc'[c] = "done"
        <3>1. /\ answer' = [answer EXCEPT ![c] =
                              [p \in Products |-> IF cached[p] # 0 THEN cached[p] ELSE Nothing[p]]]
              /\ UNCHANGED <<row, cache, purging, filling, asked, hit, before, quiet, late>>
            BY <2>1, <2>4
        <3> QED
            BY <2>2, <2>3, <3>1
    <2>5. CASE pc'[c] = "table"
        <3>1. /\ hit' = [hit EXCEPT ![c] = cached]
              /\ UNCHANGED <<row, cache, purging, filling, asked, answer, before, quiet, late>>
            BY <2>1, <2>5
        <3> QED
            BY <2>2, <2>3, <3>1
    <2> QED
        BY <2>1, <2>4, <2>5
<1>7. ASSUME NEW c \in Calls, NEW S \in SUBSET Products, pc[c] = "table", Found(c, S)
      PROVE  QuietStaysQuiet' /\ NewKnowsNothing'
    <2> DEFINE found == [p \in Products |-> IF p \in S THEN row[p] ELSE 0]
    <2> DEFINE result == [p \in Products |-> IF hit[c][p] # 0 THEN hit[c][p] ELSE found[p]]
    <2>1. /\ answer' = [answer EXCEPT ![c] = result]
          /\ pc' = [pc EXCEPT ![c] = "done"]
          /\ hit' = [hit EXCEPT ![c] = Nothing]
          /\ UNCHANGED <<row, cache, purging, asked, before, quiet, late>>
        BY <1>7 DEF Found, Respond
    <2>2. \A f \in filling' : f \in filling \/ (f[2] \in Products /\ f[3] = row[f[2]])
        BY <1>7 DEF Found
    <2>3. \A p \in quiet[c] : /\ result[p] = 0 \/ before[c][p] <= result[p]
                              /\ Nothing[p] = 0
        BY DEF Nothing
    <2> HIDE DEF result
    <2>4. NewKnowsNothing'
        BY <2>1, <1>7
    <2>5. QuietStaysQuiet'
        BY <2>1, <2>2, <2>3
    <2> QED
        BY <2>4, <2>5
<1>8. ASSUME NEW c \in Calls, Call(c) PROVE QuietStaysQuiet' /\ NewKnowsNothing'
    <2>1. CASE GetCachedFail(c) \/ ReadTableFail(c)
        BY <2>1 DEF GetCachedFail, ReadTableFail
    <2>2. CASE ReadTable(c) \/ ReadTableMidway(c)
        <3>1. PICK S \in SUBSET Products : Found(c, S)
            BY <2>2 DEF ReadTable, ReadTableMidway, Missing
        <3>2. pc[c] = "table"
            BY <2>2 DEF ReadTable, ReadTableMidway
        <3> QED
            BY <3>1, <3>2, <1>7
    <2> QED
        BY <1>6, <1>8, <2>1, <2>2 DEF Call
<1>9. CASE UNCHANGED vars
    BY <1>9 DEF vars
<1> QED
    BY <1>1, <1>2, <1>3, <1>4, <1>5, <1>8, <1>9 DEF Next, Background

\* A call that begins while nothing about a product is under way never answers
\* with a version of it older than the one committed then.
THEOREM QuietCallsAreFresh == Spec => []FreshIfQuiet
<1>1. Init => QuietStaysQuiet /\ NewKnowsNothing
    BY DEF Init, QuietStaysQuiet, NewKnowsNothing
<1>2. TypeOK /\ (CachedWasCommitted /\ StaleIsPurged) /\ (QuietStaysQuiet /\ NewKnowsNothing)
         /\ [Next]_vars => (QuietStaysQuiet /\ NewKnowsNothing)'
    BY QuietStep
<1>3. TypeOK /\ QuietStaysQuiet => FreshIfQuiet
    BY DEF QuietStaysQuiet, FreshIfQuiet, TypeOK, Versions
<1> QED
    BY <1>1, <1>2, <1>3, TypeCorrect, CacheHolds, PTL DEF Spec

-----------------------------------------------------------------------------
(* What a call reports as not found. *)

\* A product is never taken back: whatever a call found committed when it
\* began, the table still has that version of it or a later one.
RowsOnlyGrow == \A c \in Calls : \A p \in Products : before[c][p] <= row[p]

LEMMA RowsStep == TypeOK /\ RowsOnlyGrow /\ [Next]_vars => RowsOnlyGrow'
<1> SUFFICES ASSUME TypeOK, RowsOnlyGrow, [Next]_vars
             PROVE  RowsOnlyGrow'
    OBVIOUS
<1> USE MaxVersionAssumption DEF TypeOK, Versions, RowsOnlyGrow, call
<1>1. ASSUME NEW p \in Products, CommitProduct(p) PROVE RowsOnlyGrow'
    BY <1>1 DEF CommitProduct
<1>2. ASSUME NEW c \in Calls, NEW S \in SUBSET Products, Ask(c, S) PROVE RowsOnlyGrow'
    <2>1. /\ before' = [before EXCEPT ![c] = [p \in Products |-> IF p \in S THEN row[p] ELSE 0]]
          /\ row' = row
        BY <1>2 DEF Ask
    <2> QED
        BY <2>1
<1>3. CASE UNCHANGED <<row, before>>
    BY <1>3
<1>4. ASSUME NEW c \in Calls, Call(c) PROVE UNCHANGED <<row, before>>
    BY <1>4 DEF Call, GetCached, GetCachedFail, ReadTable, ReadTableMidway, ReadTableFail, Found
<1>5. ASSUME Background \/ (\E p \in Products : Expire(p)) PROVE UNCHANGED <<row, before>>
    BY <1>5 DEF Background, Purge, PurgeLost, Fill, FillLost, Expire
<1> QED
    BY <1>1, <1>2, <1>3, <1>4, <1>5 DEF Next, vars

\* Only these steps end a call with an answer.
LEMMA AnswerComesFrom ==
    ASSUME TypeOK, [Next]_vars, NEW c \in Calls, pc[c] # "done", pc'[c] = "done"
    PROVE  GetCached(c) \/ ReadTable(c) \/ ReadTableMidway(c)
<1> USE DEF TypeOK, call
<1>1. ASSUME NEW d \in Calls, Call(d) PROVE d = c /\ ~GetCachedFail(c) /\ ~ReadTableFail(c)
    BY <1>1 DEF Call, GetCached, GetCachedFail, ReadTable, ReadTableMidway, ReadTableFail, Found
<1>2. ASSUME NEW d \in Calls, NEW S \in SUBSET Products, Ask(d, S) PROVE FALSE
    BY <1>2 DEF Ask
<1>3. ASSUME NEW p \in Products, CommitProduct(p) \/ Expire(p) PROVE FALSE
    BY <1>3 DEF CommitProduct, Expire
<1>4. ASSUME Background PROVE FALSE
    BY <1>4 DEF Background, Purge, PurgeLost, Fill, FillLost
<1>5. ~UNCHANGED vars
    BY DEF vars
<1> QED
    BY <1>1, <1>2, <1>3, <1>4, <1>5 DEF Next, Call

\* A call that answers from the cache alone has found all it was asked for.
LEMMA CachedAnswerIsComplete ==
    ASSUME TypeOK, NEW c \in Calls, GetCached(c), pc'[c] = "done", NEW p \in asked[c]
    PROVE  answer'[c][p] > 0
<1> DEFINE cached == [q \in Products |-> IF q \in asked[c] THEN cache[q] ELSE 0]
<1>1. cached \in [Products -> Versions] /\ p \in Products
    <2>1. p \in Products
        BY DEF TypeOK
    <2>2. \A q \in Products : (IF q \in asked[c] THEN cache[q] ELSE 0) \in Versions
        BY MaxVersionAssumption DEF TypeOK, Versions
    <2> QED
        BY <2>1, <2>2
<1>2. /\ cached[p] # 0
      /\ answer' = [answer EXCEPT ![c] =
                      [q \in Products |-> IF cached[q] # 0 THEN cached[q] ELSE Nothing[q]]]
    BY DEF GetCached, Respond, TypeOK
<1> HIDE DEF cached
<1>3. answer'[c][p] = cached[p]
    BY <1>1, <1>2 DEF TypeOK
<1> QED
    BY <1>1, <1>2, <1>3, MaxVersionAssumption DEF Versions

\* One that has read the whole table has found all that existed before it.
LEMMA TableAnswerIsComplete ==
    ASSUME TypeOK, RowsOnlyGrow, NEW c \in Calls, ReadTable(c),
           NEW p \in asked[c], before[c][p] > 0
    PROVE  answer'[c][p] > 0
<1> DEFINE found == [q \in Products |-> IF q \in Missing(c) THEN row[q] ELSE 0]
<1>1. p \in Products /\ row[p] \in Versions /\ hit[c][p] \in Versions /\ before[c][p] \in Versions
    BY DEF TypeOK
<1>2. before[c][p] <= row[p]
    BY <1>1 DEF RowsOnlyGrow
<1>3. answer' = [answer EXCEPT ![c] =
                   [q \in Products |-> IF hit[c][q] # 0 THEN hit[c][q] ELSE found[q]]]
    BY DEF ReadTable, Found, Respond
<1>4. hit[c][p] = 0 => found[p] = row[p]
    BY <1>1 DEF Missing
<1> HIDE DEF found
<1>5. answer'[c][p] = IF hit[c][p] # 0 THEN hit[c][p] ELSE found[p]
    BY <1>1, <1>3 DEF TypeOK
<1> QED
    BY <1>1, <1>2, <1>4, <1>5, MaxVersionAssumption DEF Versions

\* GetProductsInfo leaves out a product that existed when it began only when
\* the rows of the table were cut off midway and rows.Err was not asked: no
\* commit, purge, fill, expiry or failure of Redis makes one disappear.
THEOREM NothingDisappears == Spec => NotFoundOnlyMidway
<1>1. Init => RowsOnlyGrow
    BY MaxVersionAssumption DEF Init, RowsOnlyGrow, Nothing, Versions
<1>2. ASSUME TypeOK, RowsOnlyGrow, [Next]_vars, NEW c \in Calls, pc[c] # "done", pc'[c] = "done"
      PROVE  \/ \A p \in asked[c] : before[c][p] > 0 => answer'[c][p] > 0
             \/ ReadTableMidway(c)
    BY <1>2, AnswerComesFrom, CachedAnswerIsComplete, TableAnswerIsComplete
<1>3. TypeOK /\ RowsOnlyGrow /\ [Next]_vars =>
          [\A c \in Calls : pc[c] # "done" /\ pc'[c] = "done" =>
              \/ \A p \in asked[c] : before[c][p] > 0 => answer'[c][p] > 0
              \/ ReadTableMidway(c)]_vars
    BY <1>2
<1> QED
    BY <1>1, <1>3, RowsStep, TypeCorrect, PTL DEF Spec, NotFoundOnlyMidway
=============================================================================
