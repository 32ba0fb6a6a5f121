# Retail Vision Catalog backend: a TLA+ verification project

This directory holds TLA+ models of the Go backend in `src/`, the TLC
configurations that check them and the TLAPS proofs about them. Every
definition is translated from the Go and SQL sources (`PROJECT.json`, `map`,
names the lines); the README and diagrams of the repository are only quoted
where the code says something else.

## 1. Inventory

The backend registers products (HTTP), answers for them (gRPC), and tells the
ML side of each new set of embeddings through a transactional outbox (Kafka).
One process contains all of the following; several processes may share the
stores.

| Component | State | Operations | Talks to |
|---|---|---|---|
| `internal/usecase/product_usecase.go` `RegisterNewProduct` | one Postgres transaction, the image keys and embeddings made so far, a named `err` a deferred function reads | create category, upsert product, vectorize, upload, store points, insert event, commit, purge the cache; deferred rollback and cleanup | Postgres, ML service, MinIO, Qdrant, Redis |
| same file, `GetProductsInfo` | none of its own; a background goroutine | MGET, query of the misses, answer, background fill | Redis, Postgres |
| `pgdb/category_repo.go`, `product_repo.go` | tables `categories`, `products` | idempotent insert/upsert in one statement, batch read | Postgres |
| `pgdb/outbox_event_repo.go` | table `outbox_events` (`pending`, `processing`, `processed`) | insert + NOTIFY, claim with SKIP LOCKED, mark | Postgres |
| `kafka/outbox_worker.go` | two goroutines, a LISTEN connection, a `stop` channel | startup drain, drain per notification, reconnect, stop | outbox repository, Kafka producer |
| `kafka/producer.go` | a synchronous kafka-go writer | send one event | Kafka |
| `minio/minio_infra.go` | a semaphore and an errgroup per upload, a WaitGroup of background cleanups | parallel upload, cleanup with retries, wait at shutdown | MinIO |
| `qdrant/embedding_repo.go` | a collection of points | upsert, delete | Qdrant |
| `redis/cache_repo.go` | one key per product with a TTL | MGET, pipeline of SETs, DEL | Redis |
| `ml-service/ml_service.go` | a semaphore and an errgroup per attempt | parallel calls, retries of the whole set | ML service (gRPC) |
| `app/app.go`, `pkg/closer/closer.go` | the list of closing functions | build, run, close in reverse order, by force when time is over | everything |
| `delivery/v1/http`, `delivery/v1/grpc` | none | parse and check the form and the price, call the use case, map errors to a status | use case |
| `cmd/app/main.go`, `cfg/cfg.go` | some forty environment variables | load, refuse or default each of them, exit on error | operating system |
| `pkg/postgres`, `pkg/clients` | the pool's connections; the schema's version, the bucket, the collection | connect, migrate, ping, look for and make what is missing, close | Postgres, MinIO, Qdrant, Redis |
| `domain`, `converter`, `logger`, `e`, `tr`, `jitter`, `docs` | none that changes | | |

What is hard here, and which property answers for it, is listed line by line
under `hazards` in `PROJECT.json`. In short:

* **Outbox.** Four or more goroutines claim from one table; sends fail in the
  middle of a batch; an answer of Kafka or Postgres is lost; processes die
  between claim and mark; notifications come before the LISTEN, while a drain
  runs, or on a connection that is already lost; a reconnect fails. Correct
  means: no event in two hands, none sent twice, none marked without a
  delivery, none forgotten while somebody could still have noticed it, and
  `Stop` returns.
* **Registration.** Concurrent requests share categories and products; the
  statement they run sees two different moments of the database; a failure at
  any of a dozen places must undo what was done in four stores. Correct means:
  committed events have their data, failed requests leave nothing, the events
  of a product enter the outbox in commit order, and nobody waits in a circle.
* **Images of a request.** A goroutine per image, fewer slots than images, errors
  and a client that goes away while calls are in flight, attempts made again as
  a whole. Correct means: every vector keeps the key of its own image, what was
  stored in vain is removed, an attempt starts afresh, and nobody waits for a
  slot for ever.
* **Product cache.** A fill may come after the commit and the purge that made
  it stale; a purge may be lost; the table's answer may be cut off. Correct
  means: nothing uncommitted is cached, stale entries are on their way out,
  and in the end cache and table agree.
* **Input and status.** Prices come as decimals with an exponent of any sign,
  are compared before they are scaled and rounded after their places were
  counted; the status is drawn from whatever error came out. Correct means: the
  price in the table is the one that was written, and the status tells the truth.
* **Start.** Several processes come up over the same stores; looking for a bucket
  and making it are two calls; a migration may be broken off; variables are
  passed on unchecked and refused steps later. Correct means: who serves finds
  everything it needs, a start fails for a reason, and in the end all serve.
* **Shutdown.** Handlers, the worker, cleanups and cache fills are running while
  the stores they use are closed, and time may be up at any point. Correct means:
  stores outlive their users, a shutdown without errors has left nothing behind,
  who waits for a connection of the pool gets one, and the shutdown ends. The
  cache fills fall short of the first two.

## 2. Modules

| Module | What it is |
|---|---|
| `OutboxContract` | abstract specification: an event is recorded, taken, delivered and confirmed, never backwards |
| `Outbox` | the worker, the table and the writer in detail; refines the contract |
| `OutboxProofs` | TLAPS: types, the inductive invariant `Ownership`, its consequences, no lost wakeup, who strands an event, refinement |
| `HttpInput` | the checks of a form in their order, the price as a decimal, the status of each error |
| `HttpInputProofs` | TLAPS: powers of ten, an accepted price is exact and within the limit |
| `RegistrationContract` | abstract specification: a form takes effect at one moment, once and as a whole |
| `Registration` | concurrent `registerNewProduct` calls, from form to status, over all stores; refines the contract |
| `RegistrationProofs` | TLAPS: types, order of events, data of committed events, compensation, answers, prices, row locks, races, refinement, what the outbox sees |
| `Pipeline` | registrations and the outbox worker over one table, composed through `OutboxContract` |
| `PipelineProofs` | TLAPS: what the readers of the topic may rely on; both contracts hold of the composition |
| `FanOut` | the goroutines behind `VectorizeRequest` and `UploadImages`, and `getEmbeddings` |
| `FanOutProofs` | TLAPS: types and slots, vectors keep their keys, failures are cleaned and have causes, the whole as steps of `Registration` |
| `ProductCache` | `GetProductsInfo` through the cache, against commits and purges |
| `ProductCacheProofs` | TLAPS: types, only committed versions are cached, stale entries are purged, quiet calls are fresh, nothing disappears |
| `Startup` | the environment and the start of several processes over shared stores |
| `StartupProofs` | TLAPS: types, who serves is ready, failures have causes |
| `Shutdown` | the closer, and what runs and shares the pool while it closes |
| `ShutdownProofs` | TLAPS: types, stores are closed after all users but cache fills, what a clean close may leave |
| `MCOutbox`, `MCRegistration`, `MCPipeline`, `MCFanOut`, `MCProductCache`, `MCStartup`, `MCShutdown` | constants of the TLC runs |

The operators named "Mutant of X" next to X are plausible bugs; each property
of each passing run is shown to catch one of them (`mutants`).

### Outbox

A *node* is a process; its threads are `<<n, "run">>` and `<<n, "listen">>`,
the two goroutines of `Start`. `pc` follows `processBatch`: `claim` (about to
call `GetAndMarkAsProcessing`), `claimed` (the UPDATE has locked rows, the
COMMIT is to come), `next` (about to take the next event), `sending` (inside
`WriteMessages`), `mark` (inside `MarkAsProcessed`). Between them lie exactly
the points where another goroutine, a failure or a crash can come. A claim is
two steps, because SKIP LOCKED lets others see the locks in between. `status`
is the column, `claim` the row locks, `batch` and `cur` the local variables of
`processBatch`, `notif` what the connection has buffered, `wire` and `copies`
the writer and the topic. A batch is a set: `UPDATE ... RETURNING` promises no
order. A send that fails may still be in the writer and may be appended later.
A claim whose rows cannot be read (`outbox_event_repo.go:105`, `:126`) ends in
`ClaimForgotten`: nobody ends its transaction, so `forgotten` keeps it, with or
without the locks on its rows, until the process is killed; `Terminate` never
happens while there is one, because `db.Close` waits for its connection.
`OutboxContract` is instantiated with `stage` for its state, and the run checks
its whole specification (`ImplementsContract`): every step of the worker is a
step or a stutter of the contract. `missed` is a ghost variable: pending events
whose notification was lost in one of the ways for which the code has no second
look (a claim that failed or was forgotten, a listener that is not connected, a
process that is down).

### Registration

`HttpInput` holds the checks of `registerNewProduct`, `parsePriceToCents`,
`parseImages` and `validateProduct` as a sequence in the order of the code: the
first that fails is the error (`Refusal`), and `Status` is `ToHTTPResponse`. A
price is `coef * 10^exp`, as the decimal library keeps it, so that `Exceeds` and
`Kopecks` compute what the library does (`TenTo` is the power of ten). A form may carry more than one mistake.
A request is refused (`RefuseForm`) or begins its transaction; `Answer` is the
status a client gets, drawn from where its request ended.

Each call to a store is a step of `Handle(r)`. The two upserts have the
semantics of READ COMMITTED: the insert waits for a conflicting open
transaction and sees its result, the SELECT of the same statement reads the
snapshot taken when the statement began. `seen` remembers that snapshot.
`uncompensated` is a return with an error that the deferred function does not
see: `ErrNoChanges` (`:118`) and the error declared inside the `if` at `:153`.
A failure is a *fault class*; once a request's context is cancelled any call
with it may fail. The background cleanup is a process of its own.
`RegistrationContract` is instantiated with the committed tables and with
`InEffect`, the requests whose transaction was committed, acknowledged or not
(`RegistersAtomically`).

### Pipeline

The composition of the two: `Register` is a step of `Registration`, and if it
commits an event, that event is recorded with the worker in the same step,
because both are the one row of `outbox_events`. `Work` is what `OutboxContract`
lets the worker do with the events it knows. The details of the worker need not
be here: `Outbox` implements this contract (`WorkerImplementsContract`), and a
registration does nothing to it but `Record` (`RegistrationFeedsOutbox`).

### FanOut

One request's images, from the first call of the ML service to the embeddings;
`Registration` takes each of these stages as one step. Both stages share the
same goroutine: `select` (waiting for a slot or for the group to be cancelled),
`call`, `served` (the service is done and the answer on its way), `failing` (the
slot is given back, the group does not know yet) and `done`. A successful
goroutine's write under the mutex and its release of the slot are one step,
because nobody reads the slice before `g.Wait`. The two `select` statements may
take either branch when both are ready. `stage` and `attempt` belong to the
caller: a failed attempt at the vectors is followed by a pause and a new group,
a failed upload by the removal of the keys written so far. An unsupported type
of an image is a call that fails. `lost` are objects MinIO stored although the
call reported an error: no key came back, so nothing can remove them. `faulty`
remembers which attempts had an error that was not their context's.

### ProductCache

A product is its version, one more per commit. A commit leaves a purge to be
done, a call that read the table leaves its SETs to be done, one by one.
`late` records products whose purge was lost or whose old version was put in
after its purge; `before` and `quiet` are observers of what a call began with.
An entry that somebody else purged without need (a commit without changes) is
the effect of `Expire`.

### Shutdown

The registered functions are a sequence, closed from the end. Each attempt at
one is `idle`, `spawned`, `running`, `ok` or `error`; `Settled` says when what
it waits for is over. Handlers and the worker take their connections from one
pool of `PoolSize` and wait while it has none. The `select` of `gracefulClose` is `Collect` or `Interrupt`, both
possible when both channels are ready. The clients of Qdrant, Redis, the ML
service and Kafka are one function, because none of them waits for anybody. A call
that was answered from Postgres may leave its cache fill behind (`filling`), which
writes to Redis for up to 500 ms and which no function waits for. A request that
returns without its rollback (`product_usecase.go:118`, `:153`) and a claim whose
rows cannot be read (`outbox_event_repo.go:105`, `:126`) forget their
connection: `leaked` counts what nobody will give back. Two things are drawn
together because nothing tells them apart: a function without a door of its own is
begun when its goroutine is started, and the forced closing of the clients, which
waits for nobody and whose error is only logged, is over at once. After
`closed` the process exits, and whatever still runs is lost with it.

### Startup

`Vars` are the variables `Load` reads, by loader: `required` (refused when
empty), `parsed` (refused when they cannot be), and the others, which have a
default or are passed on as they are. `env` is what deviates from a sensible
environment, `Refused(at)` which step that stops: `Load` itself, or, for what it
lets through, the step whose client or store does not take the form of the value
(`Unusable`; a blank in the unquoted DSN, a network mode that is none, a bucket
without a valid name). A step of a process is a call
to a store; `Find` and `Make` are the two calls of "make it if it is missing",
so that another process can come between them. `schema` is what
`schema_migrations` says; golang-migrate marks it dirty before the migration and
clean after it, and refuses a dirty one. Whatever ends a process (an error, a kill), it is started
again: the compose file says `restart: unless-stopped`.

## 3. Runs

| Run | Instance | Question |
|---|---|---|
| `Outbox_nodes` | 2 processes, 2 events, batches of up to 2, processes die and restart, Postgres and Kafka fail | safety of the worker, the strengthened invariant, and the refinement of the contract |
| `Outbox_progress` | 1 process, 2 events, batches of 1, up to 2 copies, all faults, fair | what strands an event; every event settles; `Stop` returns |
| `Outbox_startup_window` | 1 process, no faults | *violated*: an event committed between startup drain and LISTEN |
| `Outbox_reconnect` | 1 process, connections break | *violated*: a failed reconnect ends the process |
| `Registration_faults` | 2 requests, 1 product, 2 categories, 2 prices in 3 spellings, with and without images, a form for each refusal, all faults but Qdrant's | compensation, agreement of the stores, price and status, and the refinement of the contract |
| `Pipeline_progress` | 3 requests, 2 products, 2 categories, with images, without and with too many, behind them the worker's contract, no faults, fair | races, circular waits, and what clients are told and the topic says |
| `Registration_no_changes` | requests without images | *violated*: `ErrNoChanges` leaves the transaction open |
| `FanOut_all` | 4 images, 2 slots, 3 attempts, all faults, fair | vectors and keys, cleanup, retries and slots of one request |
| `ProductCache_reads` | 1 product, 4 versions, 2 calls, all faults, fair | freshness and convergence of the cache |
| `Startup` | 2 processes, 20 environments, stores empty or filled, 2 failures or kills, fair | readiness, causes of failure, and that all serve in the end |
| `Shutdown_close` | 1 request, 1 call, 1 worker goroutine, 2 connections, leaks and failing clients, fair | order and end of the shutdown, service of the pool |
| `Shutdown_interrupted` | 1 worker goroutine | *violated*: a second `Stop` of the worker panics |

*Bounds.* Two processes with two goroutines each give every pair of claimants
there is (same process, same goroutine of two processes, mixed). Two events
in one batch let the second be sent, or not, after the first failed, and let two
processes share the rows between them; in `Outbox_progress` batches of one make
a drain take several batches and end in an empty one. `MaxCopies` bounds how
often the broker appends one submission; two are enough to have a duplicate. Two requests show every race between a pair; the third in
`Pipeline_progress` is there for circles of waits and for a request that
comes between two others. Its three forms with images are, up to names, any that
three requests can bring; the one without is answered with 200 or, if it changes
nothing, with 400, the one with eleven images with 400. The requests differ in
nothing but their forms, so the run lets them bring the forms in one order only
(`InOrder`), which divides the work by up to six and leaves no case out. It has no
failures, because `FailsOnlyAfterWait` and
`EveryRequestReturns` are about their absence; that `TopicIsTrue` and
`AnswerMatchesTopic` survive every failure, a lost answer to the commit included, is
proved (section 5). One product is enough for the cache, because nothing relates
two products but an answer cut off between them, and with one product the answer
can still be cut off before its only row; three changes let one version be read,
a second committed and purged, and a third in flight. With two products two
calls are out of reach, and with one call nothing would ever be found in the
cache. `MaxRoubles` stands for the billion of `parsePriceToCents`: at 1 the
limit the code enforces is 100 roubles, and prices lie below, at and
just above it. In
`FanOut` four images on two slots leave goroutines waiting whatever the others
do, and three attempts, the number the configuration sets, have a first, a
middle and a last one. In `Shutdown` one user of each kind is enough to
hold up each function; a second goroutine of the worker only makes the same
wait longer. Three users of two connections have to wait, and two leaks use the
pool up. In `Startup` two processes give every race between a look and a
making, and `MaxTroubles` = 2 lets each of them fail, or one fail twice.

*Deadlock* is checked wherever the system cannot stop by itself. `ProductCache_reads`,
`FanOut_all`, `Outbox_reconnect` and the shutdown runs turn it off: there the
calls end, the process ends, or it hangs in `db.Close`, and each cfg says so.

*Fairness.* Weak fairness of each goroutine's own steps: the Go scheduler runs
every goroutine, driver calls return (with an answer or an error), the writer
gets to each message, and the container is restarted after it ends. Nothing is
assumed about failures, about a signal, about a connection being lost or the
session of an abandoned transaction being ended. In `ProductCache` entries
expire, because they are written with a TTL. In `FanOut` calls and pauses end; the
client may go away or not. In `Shutdown` both time limits run
out, handlers and cleanups end (one weak fairness condition for all the steps
that each goroutine takes a finite number of times), and a goroutine of the
worker ends once it was told to. A handler that waits for a connection
has strong fairness: the pool has one again and again rather than all the time,
and pgxpool serves those who wait in turn. In `Startup` each process goes on, and
is started again when it has ended.

## 4. What the checks show

* Events are claimed by one goroutine at a time (`ClaimExclusive`); one that is
  in the topic, or in a writer and so perhaps on its way there, is never up for
  another claim (`NoDuplicateSend`; it allows a retry of a send that has failed
  for good, which the code announces and does not have); nothing is marked on the strength of
  a send that is not over (`WriterHoldsTaken`); and the worker as a whole does
  what the contract promises: only recorded events are taken, only delivered
  ones confirmed, none goes backwards (`ImplementsContract`).
* A pending event is forgotten only in the named ways (`NoLostWakeup`,
  `EventuallySettled`), and stuck as `processing` only by a failure
  (`StrandedByFailure`).
* Registrations of one product put their events into the outbox one after the
  other (`OneOpenEventPerProduct`), category, row and event of a request appear
  together or not at all (`RegistersAtomically`), the events of acknowledged
  commits have their data (`CommittedEventHasData`; a commit whose answer was
  lost loses them), failed requests are undone (`FailedIsCompensated`,
  `FailedImagesGoAway`), the status is true of the stores (`AnswerIsTrue`), the
  price in the table is to the kopeck one that a committed request asked for
  (`StoredPriceIsWritten`), and without failures only a race over something new
  makes a request fail (`FailsOnlyAfterWait`) and only a transaction that
  `ErrNoChanges` left open can keep one waiting (`EveryRequestReturns`).
* Every event in the topic is of a committed form with images, whose product,
  category and data are there unless the answer to the commit was lost
  (`TopicIsTrue`), and topic and answers agree (`AnswerMatchesTopic`): nothing is
  ever sent for a client that was told 200 or 400, and an event promised with
  201 is never withdrawn. That it is delivered is not promised.
* Every embedding has the vector and the key of the same image, the vectors of
  one attempt (`PairsMatch`); a failed request has handed every key it got to
  the removal (`FailedIsCleaned`), fails only when each attempt had an error of
  its own (`FailsForCause`), and always returns (`FanOutReturns`).
* An old version in the cache is about to be purged but for two exceptions
  (`StaleIsPurged`), which expiry repairs (`CacheConverges`).
* A process serves only over a whole schema with bucket, collection and topic
  (`ServesOnlyWhenReady`), a start fails only for a named reason
  (`StartFailsForCause`), and all processes serve in the end unless the
  environment is wrong or a migration was broken off (`EveryStartSettles`).
* Who waits for a connection gets one, unless forgotten ones have used the
  pool up (`PoolServes`).
* Stores are closed after their users, the cache fills excepted, as long as
  nothing fails (`StoresOutliveUsers`), a shutdown without errors leaves nothing
  but such fills behind (`CleanCloseLeavesOnlyFills`), and a leaked connection is
  the only thing that can hold it up (`ShutdownEnds`).

### Disagreements between the code and what it says

With a run that shows them: the startup window, the failed reconnect, the
transaction left open by `ErrNoChanges` (and by the shadowed `err` at `:153`),
and the second `Stop` of the worker. Met while modelling,
and part of the models:

* `outbox_worker.go:172` logs "Temporary Kafka failure, will retry" (and `:170`
  speaks of adding retries), and nothing retries: the row stays `processing`, which no query selects. Rows a dead
  process had claimed share that fate, although `images/worker.svg` has the
  startup drain process all accumulated events.
* `images/worker.svg` says batches are sorted by creation date; the ORDER BY is
  in the sub-select only, and RETURNING keeps no order.
* `category_repo.go:24` and `product_usecase.go:269` call the upserts
  idempotent. When a concurrent transaction commits the same new row, the
  statement inserts nothing and its SELECT, on the older snapshot, finds
  nothing: the request fails (`FailsOnlyAfterWait` names these two cases).
* `cache_repo.go:74` calls `SetProducts` atomic; it is a pipeline, not a
  transaction. A fill may also overtake a purge and keep an old version in the
  cache until its TTL ends.
* `closer.go:86` says the index returned is that of the last function that was
  closed; it is that of the first that was not. Its use as
  `funcs[:stopIdx+1]` is what runs the interrupted function a second time.
* `closer.go:28` gives the forced part a time limit, but `wg.Wait` ignores it:
  with a leaked connection `db.Close` never returns.
* `app.go:141` says that `Shutdown` stops all components of the application
  properly. The goroutine that `GetProductsInfo` leaves behind to fill the cache
  (`product_usecase.go:219`) is known to nobody: the client of Redis
  (`app.go:225`) may be closed while it writes, the shutdown may end without
  an error while it runs, and what it then loses is only logged. `Filling` is the
  exception both properties of the order of closing have to make.
* `helpers.go:98` compares a price in roubles with a limit in kopecks: the limit
  is a hundred times the one `:80` and `:97` name.
* `e.go:20` lists errors under "400 Bad Request", of which `ErrProductNameRequired`,
  `ErrPriceMustBePositive` and `ErrFileTooLarge` are answered with 500, because
  `ToHTTPResponse` does not know them; a body that cannot be parsed and a price
  of blanks are logged as 400 and answered with 500 as well
  (`product_handler.go:43`, `:49`).
* The annotations of the handler require images and promise 201; without images
  the request is served, and answered with 200.
* `product_repo.go` does not ask `rows.Err` after its loop (`:97`): an answer that is cut off midway is
  taken for a whole one, and existing products are reported as not found.
  `NotFoundOnlyMidway` shows that nothing else does that.
* `outbox_event_repo.go:105` and `:126` set an `err` of their own scope: a claim
  that fails while its rows are read is neither rolled back nor committed. Its
  connection is lost to the pool (`leaked` in `Shutdown`), and its rows may stay
  locked while the process lives (`forgotten` in `Outbox`).
* A process killed inside a migration leaves the schema dirty, and no later start
  gets past it: the restart policy of the containers turns that into a loop.
* `ml_service.go:50` reports the number of attempts and drops the error, so that
  an unsupported type, which no further attempt can cure, is tried again and
  ends as an internal error, where `helpers.go:55` has a status of its own for
  it.

## 5. What is proved

The theorems hold for every value of the constants that satisfies the named
assumptions of the modules (`EventsAssumption`, `BatchLimitAssumption`,
`MaxCopiesAssumption` (of `Outbox` and of `Pipeline`), `MaxVersionAssumption`,
`NumImagesAssumption`, `LimitAssumption`, `MaxRetriesAssumption`, `MaxRoublesAssumption`,
`InputsAssumption`, `PricesAssumption`, `EnvsAssumption`, `MaxTroublesAssumption`,
`PoolSizeAssumption`, `WorkAssumption`, `FaultsAssumption`); nothing else is
assumed, but that `OnlyRacesFail` is about instances without failures. The limits of `FanOut` are positive because `cfg.go` sets them to 10, 8
and 3.

**Outbox.** `ClaimExclusive` alone is not inductive: after a claim commits, the
rows are in a goroutine's hands only because their status was `pending` while
locked, and `processing` since. `Ownership` adds this: `Shape` (what a goroutine
holds at each `pc`), `DownIsOff` (a process that is down has no goroutine) and
`HeldStatus` (locked rows are pending, held ones processing). From it,
`ClaimsAreExclusive`, `NothingIsSentTwice` and
`ProcessedEventsWereDelivered` are immediate; forgotten claims do not enter into
it, because their rows stay pending. `WriterIsSynchronous`
and `NoWakeupIsLost` are further invariants proved on top of it; the second needs
that an unread notification, and an open connection, belong to a listener that
still reads (`UnreadHasReader`). `WorkerImplementsContract` maps each step to a step or a stutter
of `OutboxContract` under the refinement mapping `stage`; it needs `Ownership`
to know that only recorded events are taken and only delivered ones confirmed.
`OnlyFailuresStrand` proves `StrandedByFailure`: for each step of a drain, that
every event it lets go of is either back with its goroutine or marked.

**ProductCache.** `CachedWasCommitted` and `StaleIsPurged` are inductive
together with the types: a fill may only put in a version its call had read,
and a commit that outdates an entry adds the purge that will remove it.
`FreshIfQuiet` needs more: from a quiet beginning on, nothing older than what
the call found committed can be in the cache, in a fill, among its hits or in
its answer (`QuietStaysQuiet`), and a call that has not begun knows nothing
(`NewKnowsNothing`). `NothingDisappears` proves `NotFoundOnlyMidway` from
`RowsOnlyGrow`: what was committed when a call began still has a row when it
answers, whether the row or the cache, which knows no product without one,
gives the answer.

**FanOut.** `Slots` counts the goroutines that hold a slot; with it, the free
slots stay between none and `Limit`. `Written` says that a goroutine writes its
own answer of this attempt at its own position and that no goroutine outlives
the call that started it; `PairsMatch` follows, and with `Kept` (where each
stored object is in the course of its goroutine) `FailedIsCleaned`. `Caused`
carries through the attempts that each error is one of the attempt it ends,
which gives `FailsForCause`. `FanOutIsStepsOfRegistration` ties the module to
`Registration`: under a refinement mapping every step of every goroutine is one
of the steps `Registration` takes for the images of a request (`GetVectors`,
`UploadImages`, `UploadFail`, `GetEmbeddings`, a failure, `Cancel`) or nothing.
It needs `Kept` (no key is given to the removal before the upload has failed)
and `Prompted` (no goroutine has an error without a fault or a cancelled
context), because `Registration` lets a call fail only for such a cause. The
objects in `lost` are the one thing `Registration` does not see: no key came
back for them.

**Registration.** Nearly every step changes one request only (`Aside`), so the
invariant is a statement about each request, `RequestInv`: on the way to the
commit (`Forward`) and back (`Backward`) the place in the handler tells the state
of the transaction, of the row's lock and of what lies in the stores, and an
acknowledged commit keeps its data (`Committed`). The one fact about two
requests is `Exclusive`: two open transactions never hold one product. It is
kept because the upsert takes the product only when nobody holds it and no step
reopens a transaction. `OneOpenEventPerProduct`, `CommittedEventHasData`,
`FailedIsCompensated` and `AnswerIsTrue` follow without induction,
`RowsChangeUnderLock` because the only steps that write rows are the commits of
a holder. `FailsOnlyAfterWait` is proved for instances without failures, where
nobody's context is cancelled either (`NoneCancelled`). `InputsAssumption` says
that the category of a row is never that of the row that is not there.

**Prices.** `StoredPriceIsWritten` joins two halves. `AcceptedPriceIsExact`
(`HttpInputProofs`) is arithmetic: a form that is not refused has failed none of
twelve checks, so its price is a number with at most two decimal places, its
amount in kopecks is at least 1 and at most the limit, and the rounding has
rounded nothing. It rests on the powers of ten, which are a recursive function.
The provers cannot use the induction theorems of the library, which take an
operator; so `SetInduction` states induction over a *set* of numbers and derives
it from the least number outside it. With it, tables of the first n powers exist
and agree (`PowersExist`, `PowersAgree`), therefore the function the equation
of `TenTo` describes does (`TenToIsDefined`), and it is positive and grows
(`TenToFacts`). The other half is the invariant `RowsAreForms`: each draft is the
row of its own request's form, and each row of the table is the form of a
request whose transaction was committed, which `CommittedStays` keeps true.
`PricesAssumption` says that a decimal is a pair of integers.

**Registering as a whole.** `RegistrationImplementsContract` needs to know, at
the commit, that what is about to be published is the whole form. `Whole` says
so of every open transaction: its category is there or comes with it, and while
it holds its product its draft is what the form says or, if it had nothing to
write, the row itself is, and nobody changes it (`Exclusive`). The event is the
one `Forward` tells of. All other steps publish nothing (`Quiet`); in
particular, an ending transaction takes nothing with it that was committed
(`DiscardIsQuiet`). `RegistrationFeedsOutbox` draws the conclusion for the
other side: to the outbox, registrations do only what `OutboxContract` calls
`Record`. So `Outbox` may let events appear in one step, and the two
specifications meet in one contract.

**The topic.** In `Pipeline` they do meet. Every step of it is a step of
`Registration` or leaves that alone (`PipelineRegisters`), so all that is proved
of registrations holds there. `Link` joins the sides: the worker knows an event
if and only if its transaction was committed, only forms with images have one,
and whoever took effect has a row whose category is there, although another
request may have written the row again since. It is inductive because a step of
`Registration` commits one form as a whole or nothing (`StepKinds`, once more), so
that what the worker is told of is exactly one event. From it and what was
proved before, `TopicHoldsTrueEvents` and `AnswersMatchTopic` follow, and
`PipelineKeepsContracts`: both contracts hold of the composition.

**Startup.** What a process has behind it, at each step, is in the stores:
`Behind` relates the step to the schema and to what is made; what is made stays.
`OneMigrator` (the advisory lock) makes the schema's `dirty` the work of the one
process inside a migration, or of a failure (`DirtyForCause`).

**Shutdown.** `InTurn` is the course of the graceful part: the functions above
the index are over, those below it have not begun, and as long as there is no
error those above have returned `ok`. `DoorsShut` says what a function does
first, `UsersGone` what it has seen before it returned; the removals of images
stay away only once no handler is left to start one, which is why that part
speaks of two functions. No function has such a part for the cache fills, so that
`StoresAreClosedLast` and `CleanCloseIsClean` say of the users that are left only
that they are fills. `PoolInv` (who is in a query holds a connection) is
needed to count the connections.

**Only model-checked:** every liveness property (`EventuallySettled`,
`ShutdownCompletes`, `EveryRequestReturns`, `FailedImagesGoAway`,
`CacheConverges`, `PoolServes`, `ShutdownEnds`, `FanOutReturns`,
`EveryStartSettles`): fairness and ENABLED are out of the prover's reach. Every
invariant and every action property of the passing runs is a theorem.
`RowsChangeUnderLock`, `CachedWasCommitted`, `FanOutIsStepsOfRegistration` and `RegistrationFeedsOutbox`
are proved and no run checks them.

## 6. What is not modelled

* Plain data, converters, logging, wrapping of errors, the generated API
  documents: nothing in them changes state that a property could be about.
* Values of the environment that have the right form and are wrong: a password, the
  address of another host.
* Decoding errors of rows and cache entries the program itself has written.
* The conversion of gRPC answers and errors, and the middlewares of the router.
* `GetPayloadBytes` (pure serialisation) and `WriteMessage` (never called).
* The length of pauses and time-outs: a call answers, fails, or runs out of time,
  at any moment.
* In `Registration` the uploads and the vectors are one step each; `FanOut` has
  their details. In `Startup` a store that does not answer is a call that fails.

## 7. Plan

Done, in this order: `Outbox` with its contract and proofs, `Registration`,
`ProductCache` with its proofs, `Shutdown`, `FanOut` with its proofs, `HttpInput`
under `Registration`, `Startup` with its proofs, `RegistrationProofs`, the pool
in `Shutdown`, `ShutdownProofs`, `HttpInputProofs`, `RegistrationContract`,
`FanOut` as steps of `Registration`, and `Pipeline` with its proofs. To come, the most important first:

1. The removals and the worker of `Shutdown` tied to `Registration` and `Outbox`
   in the way `FanOut` is tied to `Registration`.
2. The conversion of gRPC errors into codes, and the order of the ids in an
   answer.
