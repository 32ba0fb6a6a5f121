------------------------------ MODULE Startup ------------------------------
(***************************************************************************)
(* How a process comes up: main, cfg.Load, App.NewApp and Run, for several *)
(* processes that share the stores and one environment, and are started    *)
(* again whenever they end ("restart: unless-stopped").                    *)
(*                                                                         *)
(* NewApp migrates the schema and looks for the bucket, the collection and *)
(* the topic, making what is missing.  Each call to a store is one step;   *)
(* looking and making are two calls, so another process can come between.  *)
(* Any error ends the process with nothing undone, and, unless it is one   *)
(* of the two servers that does not come up, nothing closed.               *)
(***************************************************************************)
EXTENDS Naturals

CONSTANTS
    Processes,      \* processes that share the stores
    Envs,           \* what may be wrong with the environment
    MaxTroubles     \* bound: calls that fail, and processes that are killed

-----------------------------------------------------------------------------
(* The environment.  It is described by what deviates from a value that is *)
(* set, can be parsed and makes sense.                                     *)

PGDBVars == [required |-> {"POSTGRES_USER", "POSTGRES_PASSWORD", "POSTGRES_DB"},
             parsed   |-> {},
             other    |-> {"POSTGRES_HOST", "POSTGRES_PORT", "SSL_MODE"}]

HTTPVars == [required |-> {},
             parsed   |-> {"HTTP_READ_TIMEOUT", "HTTP_WRITE_TIMEOUT", "KEEP_ALIVE"},
             other    |-> {"HTTP_PORT"}]

RedisVars == [required |-> {},
              parsed   |-> {"REDIS_DB_ID", "MAX_RETRIES", "DIAL_TIMEOUT", "READ_TIMEOUT",
                            "WRITE_TIMEOUT", "PRODUCT_TTL"},
              other    |-> {"REDIS_ADDR", "REDIS_USER", "REDIS_PASSWORD"}]

MinIOVars == [required |-> {},
              parsed   |-> {"MINIO_USE_SSL"},
              other    |-> {"MINIO_ENDPOINT", "BUCKET_NAME", "MINIO_ROOT_USER",
                            "MINIO_ROOT_PASSWORD"}]

QdrantVars == [required |-> {},
               parsed   |-> {"QDRANT_GRPC_PORT", "QDRANT_USE_TLS", "VECTOR_SIZE"},
               other    |-> {"QDRANT_HOST", "QDRANT__SERVICE__API_KEY", "COLLECTION_NAME"}]

KafkaVars == [required |-> {"KAFKA_BROKERS", "KAFKA_TOPIC"},
              parsed   |-> {"KAFKA_PARTITIONS", "REPLICATION_FACTOR"},
              other    |-> {"KAFKA_NETWORK_MODE"}]

GRPCVars == [required |-> {}, parsed |-> {}, other |-> {"GRPC_PORT", "GRPC_NETWORK_MODE"}]

MLVars == [required |-> {}, parsed |-> {}, other |-> {"ML_HOST", "ML_PORT"}]

Loaders == {PGDBVars, HTTPVars, RedisVars, MinIOVars, QdrantVars, KafkaVars, GRPCVars, MLVars}

Vars == UNION {l.required \cup l.parsed \cup l.other : l \in Loaders}

ASSUME EnvsAssumption == Envs \subseteq SUBSET (Vars \X {"unset", "malformed", "zero"})
ASSUME MaxTroublesAssumption == MaxTroubles \in Nat

-----------------------------------------------------------------------------
VARIABLES
    env,        \* what is wrong with the environment
    pc,         \* where each process is: off, starting or serving
    schema,     \* what schema_migrations says: none, dirty, done
    made,       \* which of the bucket, the collection and the topic exist
    troubles    \* how many calls have failed or processes were killed

stores == <<schema, made, troubles>>
vars   == <<env, pc, schema, made, troubles>>

Things == {"bucket", "collection", "topic"}
Starting == {"load", "connect", "migrations", "migrating", "ping", "bucket", "makeBucket",
             "collection", "makeCollection", "redis", "topic", "makeTopic", "listen"}

TypeOK ==
    /\ env \in Envs
    /\ pc \in [Processes -> Starting \cup {"off", "serving"}]
    /\ schema \in {"none", "dirty", "done"}
    /\ made \subseteq Things
    /\ troubles \in 0 .. MaxTroubles

\* The stores are empty or left by an earlier version of the deployment.
Init ==
    /\ env \in Envs
    /\ pc = [p \in Processes |-> "off"]
    /\ schema \in {"none", "done"}
    /\ made \in SUBSET Things
    /\ troubles = 0

Goto(p, l) == pc' = [pc EXCEPT ![p] = l]

\* Load refuses a required variable that is empty and a value it cannot
\* parse; an empty one of the others has a default, or is passed on.
Loads ==
    \A l \in Loaders :
        /\ \A v \in l.required : <<v, "unset">> \notin env
        /\ \A v \in l.parsed : <<v, "malformed">> \notin env

\* What Load lets through and the step that finally needs it refuses.  The DSN
\* of Postgres quotes none of its values, so that a blank in one malforms it; no
\* call is signed without MinIO's user and password.  A name that its store does
\* not take may be refused at the making only: it counts for the look, since
\* nothing of that name can be there.  The client of the ML service comes right
\* before the topic, and only parses its target.
Unusable(at) ==
    CASE at = "connect"        -> (PGDBVars.required \cup PGDBVars.other) \X {"malformed"}
      [] at = "bucket"         -> ({"MINIO_ENDPOINT", "BUCKET_NAME"} \X {"malformed"}) \cup
                                  ((MinIOVars.other \ {"MINIO_ENDPOINT"}) \X {"unset"})
      [] at = "collection"     -> (QdrantVars.other \X {"malformed"}) \cup {<<"COLLECTION_NAME", "unset">>}
      [] at = "makeCollection" -> {<<"VECTOR_SIZE", "zero">>}
      [] at = "redis"          -> {<<"REDIS_ADDR", "malformed">>}
      [] at = "topic"          -> (MLVars.other \cup KafkaVars.required \cup KafkaVars.other) \X {"malformed"}
      [] at = "makeTopic"      -> KafkaVars.parsed \X {"zero"}
      [] at = "listen"         -> (HTTPVars.other \cup GRPCVars.other) \X {"malformed"}
      [] OTHER                 -> {}

Refused(at) == IF at = "load" THEN ~Loads ELSE env \cap Unusable(at) # {}

\* The environment suits every step, also the calls that make things.
Usable == \A at \in Starting : ~Refused(at)

-----------------------------------------------------------------------------
(* A start, step by step. *)

Boot(p) ==
    /\ pc[p] = "off"
    /\ Goto(p, "load")
    /\ UNCHANGED <<env, stores>>

\* A step that changes nothing in the stores, and the one after it.
Passes(p, at, next) ==
    /\ pc[p] = at
    /\ ~Refused(at)
    /\ Goto(p, next)
    /\ UNCHANGED <<env, stores>>

Load(p) == Passes(p, "load", "connect")
Connect(p) == Passes(p, "connect", "migrations")
PingDb(p) == Passes(p, "ping", "bucket")
PingRedis(p) == Passes(p, "redis", "topic")
Listen(p) == Passes(p, "listen", "serving")

\* An error of the configuration, at whatever step it shows: os.Exit(1).
Refuse(p) ==
    /\ Refused(pc[p])
    /\ Goto(p, "off")
    /\ UNCHANGED <<env, stores>>

\* golang-migrate holds an advisory lock of Postgres from the look at the
\* version to the end of the migration.
NobodyMigrates == \A p \in Processes : pc[p] # "migrating"

\* m.Up: the version is recorded as dirty before the migration is run.
BeginMigration(p) ==
    /\ pc[p] = "migrations"
    /\ NobodyMigrates
    /\ \/ schema = "none" /\ schema' = "dirty" /\ Goto(p, "migrating")
       \/ schema = "done" /\ schema' = schema /\ Goto(p, "ping")       \* ErrNoChange
       \/ schema = "dirty" /\ schema' = schema /\ Goto(p, "off")       \* ErrDirty
    /\ UNCHANGED <<env, made, troubles>>

EndMigration(p) ==
    /\ pc[p] = "migrating"
    /\ schema' = "done"
    /\ Goto(p, "ping")
    /\ UNCHANGED <<env, made, troubles>>

\* BucketExists, CollectionExists, ReadPartitions: is it there?
Find(p, at, thing, make, next) ==
    /\ pc[p] = at
    /\ ~Refused(at)
    /\ Goto(p, IF thing \in made THEN next ELSE make)
    /\ UNCHANGED <<env, stores>>

\* Mutant of Make: what is made has another name than what was looked for.
MakeMisnamed(p, at, thing, next) ==
    /\ pc[p] = at
    /\ ~Refused(at)
    /\ made' = made \cup {at}
    /\ Goto(p, IF thing \in made THEN "off" ELSE next)
    /\ UNCHANGED <<env, schema, troubles>>

\* MakeBucket and CreateCollection fail when somebody else was faster.
Make(p, at, thing, next) ==
    /\ pc[p] = at
    /\ ~Refused(at)
    /\ made' = made \cup {thing}
    /\ Goto(p, IF thing \in made THEN "off" ELSE next)
    /\ UNCHANGED <<env, schema, troubles>>

\* Mutant of EnsureBucket: the bucket is made without looking for it.
MakeBucketBlindly(p) ==
    \/ Passes(p, "bucket", "makeBucket")
    \/ Make(p, "makeBucket", "bucket", "collection")

EnsureBucket(p) ==
    \/ Find(p, "bucket", "bucket", "makeBucket", "collection")
    \/ Make(p, "makeBucket", "bucket", "collection")

EnsureCollection(p) ==
    \/ Find(p, "collection", "collection", "makeCollection", "redis")
    \/ Make(p, "makeCollection", "collection", "redis")

\* Mutants of EnsureTopic: an existing topic is an error; running out of time is
\* none.
EnsureTopicOnce(p) ==
    \/ Passes(p, "topic", "makeTopic")
    \/ Make(p, "makeTopic", "topic", "listen")
EnsureTopicHopefully(p) ==
    \/ Find(p, "topic", "topic", "makeTopic", "listen")
    \/ Passes(p, "makeTopic", "listen")

\* An error of ReadPartitions counts as "no such topic", and CreateTopics does
\* not mind a topic that exists.
EnsureTopic(p) ==
    \/ Find(p, "topic", "topic", "makeTopic", "listen")
    \/ /\ troubles < MaxTroubles
       /\ Passes(p, "topic", "makeTopic")
    \/ /\ pc[p] = "makeTopic"
       /\ ~Refused("makeTopic")
       /\ made' = made \cup {"topic"}
       /\ Goto(p, "listen")
       /\ UNCHANGED <<env, schema, troubles>>

\* A call fails or runs out of time and main exits, or the process is killed,
\* also by a SIGTERM that comes before signal.Notify: the stores do not see a
\* difference.  What the call was to do may have been done all the same.
Fail(p) ==
    /\ pc[p] # "off"
    /\ troubles < MaxTroubles
    /\ troubles' = troubles + 1
    /\ made' \in {made} \cup
          {made \cup {thing} : thing \in
              CASE pc[p] = "makeBucket"     -> {"bucket"}
                [] pc[p] = "makeCollection" -> {"collection"}
                [] pc[p] = "makeTopic"      -> {"topic"}
                [] OTHER                    -> {}}
    /\ schema' \in IF pc[p] = "migrating" THEN {"dirty", "done"} ELSE {schema}
    /\ Goto(p, "off")
    /\ UNCHANGED env

Step(p) ==
    \/ Boot(p) \/ Load(p) \/ Connect(p) \/ Refuse(p)
    \/ BeginMigration(p) \/ EndMigration(p) \/ PingDb(p)
    \/ EnsureBucket(p) \/ EnsureCollection(p) \/ PingRedis(p) \/ EnsureTopic(p)
    \/ Listen(p)

AllServe == \A p \in Processes : pc[p] = "serving"

Next ==
    \/ \E p \in Processes : Step(p) \/ Fail(p)
    \/ AllServe /\ UNCHANGED vars

Spec == Init /\ [][Next]_vars

\* A start goes on, and a process that has ended is started again.
FairSpec == Spec /\ \A p \in Processes : WF_vars(Step(p))

-----------------------------------------------------------------------------
(* Safety *)

\* A process serves only when everything its handlers rely on is there: the
\* schema is whole, and the bucket, the collection and the topic exist, whoever
\* made them and whatever failed on the way.
ServesOnlyWhenReady ==
    \A p \in Processes : pc[p] = "serving" => schema = "done" /\ made = Things

\* With an environment that suits, a start fails only by a failing call; on a
\* schema some failure has left dirty; or when another process has made the
\* bucket or the collection between the look and the making.  Never for the
\* topic, and never for a migration in progress.
StartFailsForCause ==
    [][\A p \in Processes : pc[p] \in Starting /\ pc'[p] = "off" =>
          \/ troubles' > troubles
          \/ ~Usable
          \/ schema = "dirty" /\ troubles > 0
          \/ pc[p] = "makeBucket" /\ "bucket" \in made
          \/ pc[p] = "makeCollection" /\ "collection" \in made]_vars

-----------------------------------------------------------------------------
(* Liveness *)

\* Once calls no longer fail, every process serves in the end, however the
\* others came between, unless the environment does not suit or a migration
\* was broken off: nothing in the program repairs these two, and the
\* processes are started again for ever.
EveryStartSettles ==
    \A p \in Processes : <>[](pc[p] = "serving" \/ ~Usable \/ schema = "dirty")
=============================================================================
