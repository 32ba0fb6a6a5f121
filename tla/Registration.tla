---------------------------- MODULE Registration ----------------------------
(***************************************************************************)
(* ProductUseCase.RegisterNewProduct (internal/usecase/product_usecase.go) *)
(* run by concurrent requests, from the form of each (HttpInput) to its    *)
(* status, over the stores it writes: the categories, products and         *)
(* outbox_events tables in one Postgres transaction, the images in MinIO,  *)
(* the points in Qdrant and the cached product in Redis.                   *)
(*                                                                         *)
(* Each call to a store is one step.  The two upserts have the semantics   *)
(* READ COMMITTED gives to INSERT ... ON CONFLICT followed by a SELECT in  *)
(* the same statement: the insert waits for a conflicting open transaction *)
(* and sees what it committed, while the SELECT still reads the snapshot   *)
(* taken when the statement began.                                         *)
(***************************************************************************)
EXTENDS HttpInput, FiniteSets

CONSTANTS
    Requests,       \* calls of registerNewProduct
    Inputs,         \* the forms they may bring: body, name, category, price, files
    Faults          \* which failures may happen

FaultClasses == {"cancel", "db", "commit", "ml", "store", "qdrant", "crash"}

ASSUME FaultsAssumption == Faults \subseteq FaultClasses
\* "none" is the category of the row that is not there.
ASSUME InputsAssumption == \A i \in Inputs : i.category # "none"
\* A decimal is a big integer and an exponent.
ASSUME PricesAssumption == \A i \in Inputs : i.price.coef \in Int /\ i.price.exp \in Int

Names == {i.name : i \in Inputs}
Categories == {i.category : i \in Inputs}

\* A row of products, as the upsert compares it.
Row(i) == [category |-> i.category, price |-> Kopecks(i.price)]
NoRow == [category |-> "none", price |-> 0]
Rows == {Row(i) : i \in {j \in Inputs : Refusal(j) = "none"}}

HasImages(i) == i.files.count > 0

VARIABLES
    input,      \* each request's form
    pc,         \* where each request is
    cancelled,  \* requests whose context is cancelled: the client went away
    tx,         \* each request's transaction
    category,   \* committed rows of categories
    newCat,     \* requests whose transaction inserted its category
    row,        \* committed row of products, by name
    held,       \* requests whose transaction locks its product row or key
    seen,       \* waiting requests whose snapshot already had the product
    draft,      \* the product row a transaction has written, or NoRow
    event,      \* the outbox row: none, inserted (uncommitted), committed
    images,     \* the request's objects in MinIO
    points,     \* the request's points in Qdrant
    cleaning,   \* the background removal of the images
    purged      \* requests that dropped the product from the cache

tables == <<category, row, event>>
locks  == <<newCat, held, seen, draft>>
stores == <<images, points, cleaning>>
vars   == <<input, pc, cancelled, tx, category, newCat, row, held, seen, draft,
            event, images, points, cleaning, purged>>

\* How a call may end: refused for its form; ok; failed, after the deferred
\* compensation; returned with ErrNoChanges or another error but without it;
\* dead with its process.
Returned == {"refused", "ok", "failed", "noChanges", "uncompensated"}
Final == Returned \cup {"dead"}
Steps == {"category", "catWait", "product", "rowWait", "vectors", "upload", "embed",
          "qdrant", "outbox", "commit", "purge", "unwind", "unpoint"}

TypeOK ==
    /\ input \in [Requests -> Inputs]
    /\ pc \in [Requests -> {"new"} \cup Steps \cup Final]
    /\ cancelled \subseteq Requests
    /\ tx \in [Requests -> {"none", "open", "committed", "rolledback", "unknown"}]
    /\ category \subseteq Categories
    /\ newCat \subseteq Requests
    /\ row \in [Names -> Rows \cup {NoRow}]
    /\ held \subseteq Requests
    /\ seen \subseteq Requests
    /\ draft \in [Requests -> Rows \cup {NoRow}]
    /\ event \in [Requests -> {"none", "inserted", "committed"}]
    /\ images \in [Requests -> {"none", "stored"}]
    /\ points \in [Requests -> {"none", "stored"}]
    /\ cleaning \in [Requests -> {"idle", "running", "gaveup"}]
    /\ purged \subseteq Requests

Init ==
    /\ input \in [Requests -> Inputs]
    /\ pc = [r \in Requests |-> "new"]
    /\ cancelled = {}
    /\ tx = [r \in Requests |-> "none"]
    /\ category = {}
    /\ newCat = {}
    /\ row = [n \in Names |-> NoRow]
    /\ held = {}
    /\ seen = {}
    /\ draft = [r \in Requests |-> NoRow]
    /\ event = [r \in Requests |-> "none"]
    /\ images = [r \in Requests |-> "none"]
    /\ points = [r \in Requests |-> "none"]
    /\ cleaning = [r \in Requests |-> "idle"]
    /\ purged = {}

-----------------------------------------------------------------------------
Goto(r, l) == pc' = [pc EXCEPT ![r] = l]

\* A call with the request's context may fail once that is cancelled, and
\* otherwise only when its fault class is switched on.
MayFail(r, class) == class \in Faults \/ r \in cancelled

\* The open transactions that hold the key of r's category, or r's product.
CategoryHolders(r) ==
    {q \in newCat \ {r} : tx[q] = "open" /\ input[q].category = input[r].category}

\* Mutant of ProductHolders: the products' key is the category.
HoldersByCategory(r) ==
    {q \in held \ {r} : tx[q] = "open" /\ input[q].category = input[r].category}
ProductHolders(r) ==
    {q \in held \ {r} : tx[q] = "open" /\ input[q].name = input[r].name}

\* A call fails and the outer err is set: the deferred function will run.
Fails(r, at, class) ==
    /\ pc[r] = at
    /\ MayFail(r, class)
    /\ Goto(r, "unwind")
    /\ UNCHANGED <<input, cancelled, tx, tables, locks, stores, purged>>

-----------------------------------------------------------------------------
(* The form is checked, and then the transaction begins; a failed Begin    *)
(* returns before the defer.                                               *)

RefuseForm(r) ==
    /\ pc[r] = "new"
    /\ Refusal(input[r]) # "none"
    /\ Goto(r, "refused")
    /\ UNCHANGED <<input, cancelled, tx, tables, locks, stores, purged>>

Begin(r) ==
    /\ pc[r] = "new"
    /\ Refusal(input[r]) = "none"
    /\ tx' = [tx EXCEPT ![r] = "open"]
    /\ Goto(r, "category")
    /\ UNCHANGED <<input, cancelled, tables, locks, stores, purged>>

BeginFail(r) ==
    /\ pc[r] = "new"
    /\ Refusal(input[r]) = "none"
    /\ MayFail(r, "db")
    /\ Goto(r, "failed")
    /\ UNCHANGED <<input, cancelled, tx, tables, locks, stores, purged>>

-----------------------------------------------------------------------------
(* CategoryRepo.Create: INSERT ... ON CONFLICT DO NOTHING, then SELECT. *)

\* Mutant of CreateCategory: ON CONFLICT DO NOTHING without the SELECT.
CreateCategoryOnce(r) ==
    /\ pc[r] = "category"
    /\ IF input[r].category \in category THEN
            /\ newCat' = newCat
            /\ Goto(r, "unwind")
       ELSE IF CategoryHolders(r) = {} THEN
            /\ newCat' = newCat \cup {r}
            /\ Goto(r, "product")
       ELSE /\ newCat' = newCat
            /\ Goto(r, "catWait")
    /\ UNCHANGED <<input, cancelled, tx, tables, held, seen, draft, stores, purged>>

CreateCategory(r) ==
    /\ pc[r] = "category"
    /\ IF input[r].category \in category THEN
            /\ newCat' = newCat
            /\ Goto(r, "product")
       ELSE IF CategoryHolders(r) = {} THEN
            /\ newCat' = newCat \cup {r}
            /\ Goto(r, "product")
       ELSE /\ newCat' = newCat
            /\ Goto(r, "catWait")
    /\ UNCHANGED <<input, cancelled, tx, tables, held, seen, draft, stores, purged>>

\* The wait is over.  If the other transaction committed, there is nothing to
\* insert and the old snapshot has nothing to select: Scan gets ErrNoRows.
CategoryWaited(r) ==
    /\ pc[r] = "catWait"
    /\ CategoryHolders(r) = {}
    /\ IF input[r].category \in category THEN
            /\ newCat' = newCat
            /\ Goto(r, "unwind")
       ELSE /\ newCat' = newCat \cup {r}
            /\ Goto(r, "product")
    /\ UNCHANGED <<input, cancelled, tx, tables, held, seen, draft, stores, purged>>

-----------------------------------------------------------------------------
(* ProductRepo.Upsert: INSERT ... ON CONFLICT DO UPDATE ... WHERE the row  *)
(* is distinct, else SELECT.  The conflicting row is locked to the end of  *)
(* the transaction even when the WHERE leaves it unchanged.                *)

UpsertWaits(r) ==
    /\ pc[r] = "product"
    /\ ProductHolders(r) # {}
    /\ seen' = IF row[input[r].name] # NoRow THEN seen \cup {r} ELSE seen
    /\ Goto(r, "rowWait")
    /\ UNCHANGED <<input, cancelled, tx, tables, newCat, held, draft, stores, purged>>

\* Mutant of AfterUpsert: a product without images is announced as well.
AfterUpsertNotifies(r, noChanges) ==
    IF HasImages(input[r]) THEN "vectors"
    ELSE IF noChanges THEN "noChanges"
    ELSE "outbox"

\* Where the request goes once the upsert has returned a row.
AfterUpsert(r, noChanges) ==
    IF HasImages(input[r]) THEN "vectors"
    ELSE IF noChanges THEN "noChanges"      \* ErrNoChanges, outer err still nil
    ELSE "commit"

UpsertProduct(r) ==
    /\ pc[r] \in {"product", "rowWait"}
    /\ ProductHolders(r) = {}
    /\ held' = held \cup {r}
    /\ LET old     == row[input[r].name]
           new     == Row(input[r])
           visible == IF pc[r] = "product" THEN old # NoRow ELSE r \in seen
       IN  IF old # new THEN
                /\ draft' = [draft EXCEPT ![r] = new]
                /\ Goto(r, AfterUpsert(r, FALSE))
           ELSE /\ draft' = draft
                /\ Goto(r, IF visible THEN AfterUpsert(r, TRUE) ELSE "unwind")
    /\ UNCHANGED <<input, cancelled, tx, tables, newCat, seen, stores, purged>>

-----------------------------------------------------------------------------
(* The images: vectors from the ML service, objects, embeddings, points. *)

GetVectors(r) ==
    /\ pc[r] = "vectors"
    /\ Goto(r, "upload")
    /\ UNCHANGED <<input, cancelled, tx, tables, locks, stores, purged>>

UploadImages(r) ==
    /\ pc[r] = "upload"
    /\ images' = [images EXCEPT ![r] = "stored"]
    /\ Goto(r, "embed")
    /\ UNCHANGED <<input, cancelled, tx, tables, locks, points, cleaning, purged>>

\* One upload fails: UploadImages removes in the background those that did not.
UploadFail(r) ==
    /\ pc[r] = "upload"
    /\ MayFail(r, "store")
    /\ \E some \in BOOLEAN :
        /\ images' = [images EXCEPT ![r] = IF some THEN "stored" ELSE "none"]
        /\ cleaning' = [cleaning EXCEPT ![r] = IF some THEN "running" ELSE "idle"]
    /\ Goto(r, "unwind")
    /\ UNCHANGED <<input, cancelled, tx, tables, locks, points, purged>>

\* getEmbeddings: as many vectors as keys, and none of them empty.
GetEmbeddings(r) ==
    /\ pc[r] = "embed"
    /\ Goto(r, "qdrant")
    /\ UNCHANGED <<input, cancelled, tx, tables, locks, stores, purged>>

UpsertEmbeddings(r) ==
    /\ pc[r] = "qdrant"
    /\ points' = [points EXCEPT ![r] = "stored"]
    /\ Goto(r, "outbox")
    /\ UNCHANGED <<input, cancelled, tx, tables, locks, images, cleaning, purged>>

\* Mutant of UpsertEmbeddingsFail: the error is ignored.
UpsertEmbeddingsIgnored(r) ==
    /\ pc[r] = "qdrant"
    /\ MayFail(r, "qdrant")
    /\ Goto(r, "outbox")
    /\ UNCHANGED <<input, cancelled, tx, tables, locks, stores, purged>>

\* The error is in an err of its own: the deferred function sees nil.  The
\* points may have been stored all the same.
UpsertEmbeddingsFail(r) ==
    /\ pc[r] = "qdrant"
    /\ MayFail(r, "qdrant")
    /\ \E some \in {"none", "stored"} : points' = [points EXCEPT ![r] = some]
    /\ Goto(r, "uncompensated")
    /\ UNCHANGED <<input, cancelled, tx, tables, locks, images, cleaning, purged>>

\* Mutant of CreateEvent: the insert takes a connection of its own.
CreateEventOutside(r) ==
    /\ pc[r] = "outbox"
    /\ event' = [event EXCEPT ![r] = "committed"]
    /\ Goto(r, "commit")
    /\ UNCHANGED <<input, cancelled, tx, category, row, locks, stores, purged>>

\* OutboxEventRepo.Create: the row and the NOTIFY, in the same transaction.
CreateEvent(r) ==
    /\ pc[r] = "outbox"
    /\ event' = [event EXCEPT ![r] = "inserted"]
    /\ Goto(r, "commit")
    /\ UNCHANGED <<input, cancelled, tx, category, row, locks, stores, purged>>

-----------------------------------------------------------------------------
(* The end of the transaction, and what it does to the rows and locks. *)

\* Mutant of Publish: the category is stored under the product's name.
PublishNameAsCategory(r) ==
    /\ category' = IF r \in newCat THEN category \cup {input[r].name} ELSE category
    /\ row' = IF draft[r] # NoRow THEN [row EXCEPT ![input[r].name] = draft[r]] ELSE row
    /\ event' = [event EXCEPT ![r] = IF @ = "inserted" THEN "committed" ELSE @]

Publish(r) ==
    /\ category' = IF r \in newCat THEN category \cup {input[r].category} ELSE category
    /\ row' = IF draft[r] # NoRow THEN [row EXCEPT ![input[r].name] = draft[r]] ELSE row
    /\ event' = [event EXCEPT ![r] = IF @ = "inserted" THEN "committed" ELSE @]

\* The end of a transaction that leaves nothing: its rows and locks are gone.
Discard(S) ==
    /\ newCat' = newCat \ S
    /\ held' = held \ S
    /\ draft' = [r \in Requests |-> IF r \in S THEN NoRow ELSE draft[r]]
    /\ event' = [r \in Requests |-> IF r \in S THEN "none" ELSE event[r]]

\* Mutant of Commit: it is never called.
CommitForgotten(r) ==
    /\ pc[r] = "commit"
    /\ Goto(r, "purge")
    /\ UNCHANGED <<input, cancelled, tx, tables, locks, stores, purged>>

Commit(r) ==
    /\ pc[r] = "commit"
    /\ tx' = [tx EXCEPT ![r] = "committed"]
    /\ Publish(r)
    /\ Goto(r, "purge")
    /\ UNCHANGED <<input, cancelled, locks, stores, purged>>

\* Mutant of CommitFail: the error is ignored.
CommitFailIgnored(r) ==
    /\ pc[r] = "commit"
    /\ MayFail(r, "db")
    /\ tx' = [tx EXCEPT ![r] = "rolledback"]
    /\ Discard({r})
    /\ Goto(r, "purge")
    /\ UNCHANGED <<input, cancelled, category, row, seen, stores, purged>>

CommitFail(r) ==
    /\ pc[r] = "commit"
    /\ MayFail(r, "db")
    /\ tx' = [tx EXCEPT ![r] = "rolledback"]
    /\ Discard({r})
    /\ Goto(r, "unwind")
    /\ UNCHANGED <<input, cancelled, category, row, seen, stores, purged>>

\* The server commits and the answer is lost: the call reports an error.
CommitLost(r) ==
    /\ pc[r] = "commit"
    /\ "commit" \in Faults
    /\ tx' = [tx EXCEPT ![r] = "unknown"]
    /\ Publish(r)
    /\ Goto(r, "unwind")
    /\ UNCHANGED <<input, cancelled, locks, stores, purged>>

\* CacheRepo.DeleteProducts: its errors are logged and swallowed.
Purge(r) ==
    /\ pc[r] = "purge"
    /\ \/ purged' = purged \cup {r}
       \/ MayFail(r, "db") /\ UNCHANGED purged
    /\ Goto(r, "ok")
    /\ UNCHANGED <<input, cancelled, tx, tables, locks, stores>>

-----------------------------------------------------------------------------
(* The deferred compensation: rollback, images, points. *)

\* Mutant of Unwind: the images are forgotten.
UnwindKeepsImages(r) ==
    /\ pc[r] = "unwind"
    /\ \/ /\ tx[r] = "open"
          /\ tx' = [tx EXCEPT ![r] = "rolledback"]
          /\ Discard({r})
       \/ /\ tx[r] # "open" \/ r \in cancelled
          /\ UNCHANGED <<tx, event, newCat, held, draft>>
    /\ Goto(r, "unpoint")
    /\ UNCHANGED <<input, cancelled, category, row, seen, stores, purged>>

\* IsActive is FALSE after a commit was tried.  Whether it still is TRUE when
\* the context was cancelled is the library's affair: then the rollback may
\* be skipped.
Unwind(r) ==
    /\ pc[r] = "unwind"
    /\ \/ /\ tx[r] = "open"
          /\ tx' = [tx EXCEPT ![r] = "rolledback"]
          /\ Discard({r})
       \/ /\ tx[r] # "open" \/ r \in cancelled
          /\ UNCHANGED <<tx, event, newCat, held, draft>>
    /\ cleaning' = IF images[r] = "stored" /\ cleaning[r] = "idle"
                   THEN [cleaning EXCEPT ![r] = "running"] ELSE cleaning
    /\ Goto(r, "unpoint")
    /\ UNCHANGED <<input, cancelled, category, row, seen, images, points, purged>>

\* embeddingRepo.Delete, with the context of the request; its error is logged.
DeletePoints(r) ==
    /\ pc[r] = "unpoint"
    /\ \/ points' = [points EXCEPT ![r] = "none"]
       \/ MayFail(r, "qdrant") /\ UNCHANGED points
    /\ Goto(r, "failed")
    /\ UNCHANGED <<input, cancelled, tx, tables, locks, images, cleaning, purged>>

\* cleanupUploadedKeys: in the background, three attempts for every key.
CleanupImages(r) ==
    /\ cleaning[r] = "running"
    /\ \/ /\ images' = [images EXCEPT ![r] = "none"]
          /\ cleaning' = [cleaning EXCEPT ![r] = "idle"]
       \/ /\ "store" \in Faults
          /\ images' = images
          /\ cleaning' = [cleaning EXCEPT ![r] = "gaveup"]
    /\ UNCHANGED <<input, pc, cancelled, tx, tables, locks, points, purged>>

-----------------------------------------------------------------------------
(* The client, the connection and the process. *)

Cancel(r) ==
    /\ "cancel" \in Faults
    /\ pc[r] \in Steps
    /\ r \notin cancelled
    /\ cancelled' = cancelled \cup {r}
    /\ UNCHANGED <<input, pc, tx, tables, locks, stores, purged>>

\* A transaction left open lasts until something outside ends its session.
Reclaim(r) ==
    /\ pc[r] \in Returned
    /\ tx[r] = "open"
    /\ tx' = [tx EXCEPT ![r] = "rolledback"]
    /\ Discard({r})
    /\ UNCHANGED <<input, pc, cancelled, category, row, seen, stores, purged>>

\* The process dies: Postgres rolls every open transaction back, and nobody
\* is left to compensate.
Crash ==
    /\ "crash" \in Faults
    /\ \E r \in Requests : pc[r] \in Steps
    /\ pc' = [r \in Requests |-> IF pc[r] \in Steps THEN "dead" ELSE pc[r]]
    /\ tx' = [r \in Requests |-> IF tx[r] = "open" THEN "rolledback" ELSE tx[r]]
    /\ Discard({r \in Requests : tx[r] = "open"})
    /\ cleaning' = [r \in Requests |-> IF cleaning[r] = "running" THEN "gaveup" ELSE cleaning[r]]
    /\ UNCHANGED <<input, cancelled, category, row, seen, images, points, purged>>

-----------------------------------------------------------------------------
(* The status the client gets once the handler has returned. *)

\* 0 stands for no answer yet, or none any more.
Answer(r) ==
    CASE pc[r] = "refused"                     -> Status(Refusal(input[r]))
      [] pc[r] = "noChanges"                   -> Status("ErrNoChanges")
      [] pc[r] \in {"failed", "uncompensated"} -> 500
      [] pc[r] = "ok"                          -> IF HasImages(input[r]) THEN 201 ELSE 200
      [] OTHER                                 -> 0

-----------------------------------------------------------------------------
Handle(r) ==
    \/ RefuseForm(r) \/ Begin(r) \/ BeginFail(r)
    \/ CreateCategory(r) \/ CategoryWaited(r) \/ Fails(r, "category", "db")
    \/ UpsertWaits(r) \/ UpsertProduct(r) \/ Fails(r, "product", "db")
    \/ GetVectors(r) \/ Fails(r, "vectors", "ml")
    \/ UploadImages(r) \/ UploadFail(r)
    \/ GetEmbeddings(r) \/ Fails(r, "embed", "ml")
    \/ UpsertEmbeddings(r) \/ UpsertEmbeddingsFail(r)
    \/ CreateEvent(r) \/ Fails(r, "outbox", "db")
    \/ Commit(r) \/ CommitFail(r) \/ CommitLost(r) \/ Purge(r)
    \/ Unwind(r) \/ DeletePoints(r)

\* A statement that waits for a lock is interrupted with its context.
WaitInterrupted(r) == Fails(r, "catWait", "db") \/ Fails(r, "rowWait", "db")

Done == \A r \in Requests : pc[r] \in Final /\ cleaning[r] # "running"

Next ==
    \/ \E r \in Requests :
        Handle(r) \/ WaitInterrupted(r) \/ CleanupImages(r) \/ Cancel(r) \/ Reclaim(r)
    \/ Crash
    \/ Done /\ UNCHANGED vars

Spec == Init /\ [][Next]_vars

\* Every handler and every cleanup goroutine keeps running.  Nothing promises
\* that the session of an abandoned transaction ever ends.
Fairness == \A r \in Requests : WF_vars(Handle(r)) /\ WF_vars(CleanupImages(r))

FairSpec == Spec /\ Fairness

-----------------------------------------------------------------------------
(* Safety *)

\* Two open transactions never both hold an event of one product.  The lock
\* the upsert takes on the product's row or key lasts to the end of the
\* transaction, even when the upsert changes nothing: so the events of a
\* product are created in the order in which they commit, which is the order
\* of created_at that the outbox worker goes by.
OneOpenEventPerProduct ==
    \A r, q \in Requests :
        r # q /\ event[r] = "inserted" /\ event[q] = "inserted" =>
            input[r].name # input[q].name

\* The event of an acknowledged commit speaks of images and points that exist
\* and that nobody is removing, whatever became of the request or the process
\* after it.  A commit whose answer was lost is left out: its request removes
\* them, as if it had failed.
CommittedEventHasData ==
    \A r \in Requests :
        event[r] = "committed" /\ tx[r] = "committed" =>
            images[r] = "stored" /\ points[r] = "stored" /\ cleaning[r] = "idle"

\* A request that failed and went through the deferred function is undone:
\* no transaction is left open, no uncommitted event, its images are gone or
\* were given to the cleanup, and so are its points unless Qdrant refused or
\* the client had gone away.
FailedIsCompensated ==
    \A r \in Requests : pc[r] = "failed" =>
        /\ event[r] # "inserted" \/ r \in cancelled
        /\ tx[r] # "open" \/ r \in cancelled
        /\ images[r] = "stored" => cleaning[r] # "idle"
        /\ points[r] = "stored" => r \in cancelled \/ "qdrant" \in Faults

\* The status tells the client what became of its request: 201, the product
\* and its event are committed; 200, the product is, and there is no event;
\* 400, nothing of the request is left in any store; 500, it has failed, or its
\* commit was not answered, but it never is a commit that was acknowledged.
AnswerIsTrue ==
    \A r \in Requests :
        /\ Answer(r) = 201 => tx[r] = "committed" /\ event[r] = "committed"
        /\ Answer(r) = 200 => tx[r] = "committed" /\ event[r] = "none"
        /\ Answer(r) = 400 =>
              /\ tx[r] \in {"none", "open", "rolledback"} /\ event[r] = "none"
              /\ draft[r] = NoRow /\ images[r] = "none" /\ points[r] = "none"
        /\ Answer(r) = 500 => tx[r] # "committed"

\* A price in the table is to the kopeck the one that some request for the
\* product wrote and committed, never one of a request that was rolled back:
\* positive, and within the limit the code enforces, a hundred times the one
\* its comment names.
StoredPriceIsWritten ==
    \A n \in Names : row[n] # NoRow =>
        /\ row[n].price \in 1 .. 100 * (100 * MaxRoubles)
        /\ \E r \in Requests :
              /\ input[r].name = n /\ input[r].category = row[n].category
              /\ input[r].price.kind = "number" /\ Worth(input[r].price, row[n].price)
              /\ tx[r] \in {"committed", "unknown"}

\* What was committed changes only in the commit of a transaction that holds
\* the product: no row is written under another request's feet.
RowsChangeUnderLock ==
    [][\A n \in Names : row'[n] # row[n] =>
          \E r \in held : /\ input[r].name = n
                          /\ tx[r] = "open" /\ tx'[r] \in {"committed", "unknown"}
                          /\ \A q \in held : tx[q] = "open" /\ input[q].name = n => q = r]_vars

\* While nothing fails, a request fails only where it waited for another one
\* that then committed the same category or product: both upserts are
\* idempotent but for that race.
FailsOnlyAfterWait ==
    [][\A r \in Requests : pc[r] # "unwind" /\ pc'[r] = "unwind" =>
          \/ pc[r] = "catWait" /\ input[r].category \in category
          \/ pc[r] = "rowWait" /\ row[input[r].name] = Row(input[r])]_vars

-----------------------------------------------------------------------------
(* What registering promises *)

\* What a form asks for, and the requests whose transaction was committed,
\* whether or not the answer arrived.
Asked(i) == [name |-> i.name, row |-> Row(i), withImages |-> HasImages(i)]
InEffect == {r \in Requests : tx[r] \in {"committed", "unknown"}}

Contract == INSTANCE RegistrationContract WITH
    Forms      <- {Asked(i) : i \in Inputs},
    asked      <- [r \in Requests |-> Asked(input[r])],
    registered <- InEffect,
    categories <- category,
    products   <- row,
    events     <- {r \in Requests : event[r] = "committed"}

\* Whatever waits, fails, is cancelled or dies: category, product and event of
\* a request appear together in its commit or not at all, also where the upsert
\* had nothing to change and the row was there before.
RegistersAtomically == Contract!Spec

-----------------------------------------------------------------------------
(* Liveness *)

\* Without failures every request ends: waiting for categories and products
\* in this order never ends in a circle.  What can keep a request waiting is
\* only a transaction that ErrNoChanges left open (see RollbackOnError), and
\* only as long as its session lasts.
EveryRequestReturns ==
    \A r \in Requests :
        \/ <>(pc[r] \in Returned)
        \/ <>[](\E q \in Requests \ {r} : pc[q] = "noChanges" /\ tx[q] = "open")

\* The images of a failed request are removed in the end, unless MinIO refuses
\* three times or the process dies first.
FailedImagesGoAway ==
    \A r \in Requests :
        pc[r] = "failed" ~> images[r] = "none" \/ cleaning[r] = "gaveup"

-----------------------------------------------------------------------------
(* What the comments of the code say of it. *)

\* product_usecase.go:79 (in Russian) "If an error happened, the transaction is
\* rolled back and the uploaded images are cleaned up".
RollbackOnError ==
    \A r \in Requests : pc[r] \in {"failed", "noChanges", "uncompensated"} =>
        /\ tx[r] # "open"
        /\ images[r] = "stored" => cleaning[r] # "idle"
=============================================================================
