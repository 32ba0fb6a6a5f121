--------------------------- MODULE StartupProofs ---------------------------
(***************************************************************************)
(* What holds of Startup for any number of processes, any environments and *)
(* any number of failing calls.                                            *)
(***************************************************************************)
EXTENDS Startup, TLAPS

\* The steps that come after the schema, the bucket, the collection and the
\* topic are there.
PastTopic == {"listen", "serving"}
PastCollection == PastTopic \cup {"redis", "topic", "makeTopic"}
PastBucket == PastCollection \cup {"collection", "makeCollection"}
PastSchema == PastBucket \cup {"ping", "bucket", "makeBucket"}

\* What a process has passed stays passed.
Behind ==
    \A p \in Processes :
        /\ pc[p] \in PastSchema => schema = "done"
        /\ pc[p] \in PastBucket => "bucket" \in made
        /\ pc[p] \in PastCollection => "collection" \in made
        /\ pc[p] \in PastTopic => "topic" \in made

\* A migration is run by one process, on a schema that says so.
OneMigrator ==
    \A p, q \in Processes : pc[p] = "migrating" =>
        schema = "dirty" /\ (pc[q] = "migrating" => p = q)

\* A schema is dirty while it is migrated, or after a failure.
DirtyForCause ==
    schema = "dirty" => troubles > 0 \/ \E p \in Processes : pc[p] = "migrating"

IInv == TypeOK /\ Behind /\ OneMigrator /\ DirtyForCause

-----------------------------------------------------------------------------
LEMMA InitIInv == Init => IInv
    BY EnvsAssumption, MaxTroublesAssumption
    DEF Init, IInv, TypeOK, Behind, OneMigrator, DirtyForCause, Things, Starting,
        PastSchema, PastBucket, PastCollection, PastTopic

\* A process moves, and the stores stay as they are.
LEMMA MoveKeeps ==
    ASSUME IInv, NEW p \in Processes, NEW l \in Starting \cup {"off", "serving"},
           Goto(p, l), UNCHANGED <<env, stores>>,
           pc[p] # "migrating", l # "migrating",
           l \in PastSchema => schema = "done",
           l \in PastBucket => "bucket" \in made,
           l \in PastCollection => "collection" \in made,
           l \in PastTopic => "topic" \in made
    PROVE  IInv'
<1> USE DEF IInv, Goto, stores
<1>1. TypeOK'
    BY DEF TypeOK
<1>2. Behind'
    BY DEF TypeOK, Behind
<1>3. OneMigrator'
    BY DEF TypeOK, OneMigrator
<1>4. DirtyForCause'
    BY DEF TypeOK, DirtyForCause
<1> QED
    BY <1>1, <1>2, <1>3, <1>4

\* A thing is made, and the process goes on or ends.
LEMMA MakingKeeps ==
    ASSUME IInv, NEW p \in Processes, NEW thing \in Things,
           NEW l \in Starting \cup {"off"}, Goto(p, l),
           made' = made \cup {thing}, UNCHANGED <<env, schema, troubles>>,
           pc[p] # "migrating", l # "migrating",
           l \in PastSchema => schema = "done",
           l \in PastBucket => "bucket" \in made',
           l \in PastCollection => "collection" \in made',
           l \in PastTopic => "topic" \in made'
    PROVE  IInv'
<1> USE DEF IInv, Goto
<1>1. TypeOK'
    BY DEF TypeOK
<1>2. Behind'
    BY DEF TypeOK, Behind
<1>3. OneMigrator'
    BY DEF TypeOK, OneMigrator
<1>4. DirtyForCause'
    BY DEF TypeOK, DirtyForCause
<1> QED
    BY <1>1, <1>2, <1>3, <1>4

LEMMA MigrationKeeps ==
    ASSUME IInv, NEW p \in Processes, BeginMigration(p) \/ EndMigration(p)
    PROVE  IInv'
<1> USE DEF IInv, TypeOK, Goto, Starting
<1>1. CASE BeginMigration(p)
    <2>1. TypeOK'
        BY <1>1 DEF BeginMigration
    <2>2. Behind'
        BY <1>1 DEF BeginMigration, Behind, PastSchema, PastBucket, PastCollection, PastTopic
    <2>3. OneMigrator'
        BY <1>1 DEF BeginMigration, NobodyMigrates, OneMigrator
    <2>4. DirtyForCause'
        BY <1>1 DEF BeginMigration, NobodyMigrates, DirtyForCause
    <2> QED
        BY <2>1, <2>2, <2>3, <2>4
<1>2. CASE EndMigration(p)
    <2>1. TypeOK'
        BY <1>2 DEF EndMigration
    <2>2. Behind'
        BY <1>2 DEF EndMigration, Behind, PastSchema, PastBucket, PastCollection, PastTopic
    <2>3. OneMigrator'
        BY <1>2 DEF EndMigration, OneMigrator
    <2>4. DirtyForCause'
        BY <1>2 DEF EndMigration, DirtyForCause
    <2> QED
        BY <2>1, <2>2, <2>3, <2>4
<1> QED
    BY <1>1, <1>2

LEMMA FailKeeps ==
    ASSUME IInv, NEW p \in Processes, Fail(p)
    PROVE  IInv'
<1> USE DEF IInv, TypeOK
<1>1. pc' = [pc EXCEPT ![p] = "off"] /\ env' = env /\ troubles' = troubles + 1
    BY DEF Fail, Goto
<1>2. made \subseteq made' /\ made' \subseteq Things
    BY DEF Fail, Things
<1>3. (pc[p] = "migrating" /\ schema' \in {"dirty", "done"}) \/ schema' = schema
    BY DEF Fail
<1>4. TypeOK'
    BY <1>1, <1>2, <1>3, MaxTroublesAssumption DEF Fail
<1>5. schema = "done" => schema' = "done"
    BY <1>3 DEF OneMigrator
<1>6. Behind'
    BY <1>1, <1>2, <1>5 DEF Behind, PastSchema, PastBucket, PastCollection, PastTopic
<1>7. OneMigrator'
    BY <1>1, <1>3 DEF OneMigrator
<1>8. DirtyForCause'
    BY <1>1 DEF DirtyForCause
<1> QED
    BY <1>4, <1>6, <1>7, <1>8

LEMMA StepKeeps ==
    ASSUME IInv, NEW p \in Processes, Step(p)
    PROVE  IInv'
<1> USE DEF IInv, Starting, PastSchema, PastBucket, PastCollection, PastTopic
<1>1. CASE Boot(p)
    BY <1>1, MoveKeeps DEF Boot
<1>2. CASE Load(p) \/ Connect(p)
    BY <1>2, MoveKeeps DEF Load, Connect, Passes
<1>3. CASE Refuse(p)
    <2>1. pc[p] # "migrating"
        BY <1>3 DEF Refuse, Refused, Unusable
    <2> QED
        BY <1>3, <2>1, MoveKeeps DEF Refuse
<1>4. CASE BeginMigration(p) \/ EndMigration(p)
    BY <1>4, MigrationKeeps
<1>5. CASE PingDb(p) \/ PingRedis(p) \/ Listen(p)
    BY <1>5, MoveKeeps DEF PingDb, PingRedis, Listen, Passes, Behind
<1>6. CASE EnsureBucket(p)
    <2>1. CASE Find(p, "bucket", "bucket", "makeBucket", "collection")
        BY <2>1, MoveKeeps DEF Find, Behind
    <2>2. CASE Make(p, "makeBucket", "bucket", "collection")
        BY <2>2, MakingKeeps DEF Make, Behind, Things
    <2> QED
        BY <1>6, <2>1, <2>2 DEF EnsureBucket
<1>7. CASE EnsureCollection(p)
    <2>1. CASE Find(p, "collection", "collection", "makeCollection", "redis")
        BY <2>1, MoveKeeps DEF Find, Behind
    <2>2. CASE Make(p, "makeCollection", "collection", "redis")
        BY <2>2, MakingKeeps DEF Make, Behind, Things
    <2> QED
        BY <1>7, <2>1, <2>2 DEF EnsureCollection
<1>8. CASE EnsureTopic(p)
    <2>1. CASE Find(p, "topic", "topic", "makeTopic", "listen")
        BY <2>1, MoveKeeps DEF Find, Behind
    <2>2. CASE Passes(p, "topic", "makeTopic")
        BY <2>2, MoveKeeps DEF Passes, Behind
    <2>3. CASE pc[p] = "makeTopic" /\ made' = made \cup {"topic"} /\ Goto(p, "listen")
               /\ UNCHANGED <<env, schema, troubles>>
        BY <2>3, MakingKeeps DEF Behind, Things
    <2> QED
        BY <1>8, <2>1, <2>2, <2>3 DEF EnsureTopic
<1> QED
    BY <1>1, <1>2, <1>3, <1>4, <1>5, <1>6, <1>7, <1>8 DEF Step

LEMMA NextKeeps == IInv /\ [Next]_vars => IInv'
<1> SUFFICES ASSUME IInv, [Next]_vars PROVE IInv'
    OBVIOUS
<1>1. CASE UNCHANGED vars
    BY <1>1 DEF vars, IInv, TypeOK, Behind, OneMigrator, DirtyForCause
<1>2. CASE Next
    BY <1>1, <1>2, StepKeeps, FailKeeps DEF Next
<1> QED
    BY <1>1, <1>2

\* The state of Startup keeps its types, for any processes and environments.
THEOREM TypeCorrect == Spec => []TypeOK
<1>1. IInv => TypeOK
    BY DEF IInv
<1> QED
    BY <1>1, InitIInv, NextKeeps, PTL DEF Spec

\* No process serves before the schema, the bucket, the collection and the
\* topic are there, however many start at once and whatever fails.
THEOREM ReadyWhenServing == Spec => []ServesOnlyWhenReady
<1>1. IInv => ServesOnlyWhenReady
    BY DEF IInv, TypeOK, Behind, ServesOnlyWhenReady, Things, PastSchema, PastBucket,
           PastCollection, PastTopic
<1> QED
    BY <1>1, InitIInv, NextKeeps, PTL DEF Spec

\* A start fails for a cause: in particular, no start fails because another
\* process is in the middle of the migration or has made the topic.
THEOREM FailuresHaveCauses == Spec => StartFailsForCause
<1> DEFINE Cause(p) ==
        \/ troubles' > troubles
        \/ ~Usable
        \/ schema = "dirty" /\ troubles > 0
        \/ pc[p] = "makeBucket" /\ "bucket" \in made
        \/ pc[p] = "makeCollection" /\ "collection" \in made
<1>1. ASSUME IInv, Next, NEW p \in Processes, pc[p] \in Starting, pc'[p] = "off"
      PROVE  Cause(p)
    <2> USE DEF IInv, TypeOK, Goto, Starting
    <2>1. ASSUME NEW q \in Processes, Step(q) PROVE Cause(p)
        <3>1. p = q
            <4>1. \E l \in Starting \cup {"off", "serving"} : Goto(q, l)
                BY <2>1 DEF Step, Boot, Load, Connect, PingDb, PingRedis, Listen, Passes, Refuse,
                            BeginMigration, EndMigration, EnsureBucket, EnsureCollection,
                            EnsureTopic, Find, Make
            <4> QED
                BY <1>1, <4>1
        <3>2. CASE Refuse(q)
            BY <1>1, <3>1, <3>2 DEF Refuse, Usable
        <3>3. CASE BeginMigration(q)
            BY <1>1, <3>1, <3>3 DEF BeginMigration, NobodyMigrates, DirtyForCause
        <3>4. CASE EnsureBucket(q) \/ EnsureCollection(q) \/ EnsureTopic(q)
            BY <1>1, <3>1, <3>4 DEF EnsureBucket, EnsureCollection, EnsureTopic, Find, Make, Passes
        <3>5. CASE Boot(q) \/ Load(q) \/ Connect(q) \/ EndMigration(q) \/ PingDb(q)
                   \/ PingRedis(q) \/ Listen(q)
            BY <1>1, <3>1, <3>5
               DEF Boot, Load, Connect, EndMigration, PingDb, PingRedis, Listen, Passes
        <3> QED
            BY <2>1, <3>2, <3>3, <3>4, <3>5 DEF Step
    <2>2. ASSUME NEW q \in Processes, Fail(q) PROVE Cause(p)
        BY <1>1, <2>2, MaxTroublesAssumption DEF Fail
    <2>3. CASE UNCHANGED vars
        BY <1>1, <2>3 DEF vars
    <2> QED
        BY <1>1, <2>1, <2>2, <2>3 DEF Next
<1>2. IInv /\ [Next]_vars =>
        [\A p \in Processes : pc[p] \in Starting /\ pc'[p] = "off" => Cause(p)]_vars
    BY <1>1
<1> QED
    BY <1>2, InitIInv, NextKeeps, PTL DEF Spec, StartFailsForCause
=============================================================================
