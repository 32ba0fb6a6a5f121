----------------------------- MODULE MCStartup -----------------------------
(* Instances of Startup for TLC. *)
EXTENDS Startup

CONSTANTS p1, p2

\* Nothing is wrong; one variable is, at each loader and at each step that
\* refuses one; and a default is taken.
SomeEnvs ==
    {{}} \cup
    {{d} : d \in {<<"POSTGRES_DB", "unset">>, <<"KEEP_ALIVE", "malformed">>,
                  <<"PRODUCT_TTL", "malformed">>, <<"MINIO_USE_SSL", "malformed">>,
                  <<"VECTOR_SIZE", "malformed">>, <<"KAFKA_BROKERS", "unset">>,
                  <<"POSTGRES_PORT", "malformed">>, <<"BUCKET_NAME", "unset">>,
                  <<"COLLECTION_NAME", "unset">>, <<"VECTOR_SIZE", "zero">>,
                  <<"KAFKA_PARTITIONS", "zero">>, <<"HTTP_PORT", "malformed">>,
                  <<"POSTGRES_PASSWORD", "malformed">>, <<"COLLECTION_NAME", "malformed">>,
                  <<"REDIS_ADDR", "malformed">>, <<"KAFKA_TOPIC", "malformed">>,
                  <<"KAFKA_NETWORK_MODE", "malformed">>, <<"GRPC_NETWORK_MODE", "malformed">>,
                  <<"PRODUCT_TTL", "unset">>}}
=============================================================================
