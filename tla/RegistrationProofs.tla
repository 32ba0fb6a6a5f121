------------------------- MODULE RegistrationProofs -------------------------
(***************************************************************************)
(* What holds of Registration for any number of requests, any forms and    *)
(* any class of failures.                                                  *)
(*                                                                         *)
(* Nearly everything a step does, it does to one request: so the inductive *)
(* invariant says of each request what its place in the handler tells of   *)
(* its transaction and of its data in the stores (RequestInv), and of two  *)
(* requests only that they never hold one product together (Exclusive).    *)
(***************************************************************************)
EXTENDS Registration, HttpInputProofs, TLAPS

\* Nothing was written for the request.
Untouched(r) ==
    /\ event[r] = "none" /\ draft[r] = NoRow
    /\ images[r] = "none" /\ points[r] = "none" /\ cleaning[r] = "idle"

\* On the way to the commit.
Forward(r) ==
    /\ pc[r] \in {"new", "refused"} => tx[r] = "none" /\ Untouched(r) /\ r \notin held
    /\ pc[r] \in {"category", "catWait", "product", "rowWait"} =>
          tx[r] = "open" /\ Untouched(r) /\ r \notin held
    /\ pc[r] \in {"vectors", "upload", "embed", "qdrant", "outbox"} =>
          /\ HasImages(input[r]) /\ tx[r] = "open" /\ r \in held
          /\ event[r] = "none" /\ cleaning[r] = "idle"
    /\ pc[r] \in {"embed", "qdrant", "outbox"} => images[r] = "stored"
    /\ pc[r] = "outbox" => points[r] = "stored"
    /\ pc[r] = "commit" =>
          /\ tx[r] = "open" /\ r \in held /\ cleaning[r] = "idle"
          /\ event[r] = IF HasImages(input[r]) THEN "inserted" ELSE "none"
          /\ HasImages(input[r]) => images[r] = "stored" /\ points[r] = "stored"
    /\ pc[r] \in {"purge", "ok"} =>
          /\ tx[r] = "committed"
          /\ event[r] = IF HasImages(input[r]) THEN "committed" ELSE "none"

\* On the way back.
Backward(r) ==
    /\ pc[r] = "noChanges" => Untouched(r) /\ tx[r] \in {"open", "rolledback"}
    /\ pc[r] \in {"unwind", "unpoint", "failed", "uncompensated"} => tx[r] # "committed"
    /\ pc[r] \in {"unpoint", "failed"} =>
          /\ tx[r] = "open" => r \in cancelled
          /\ images[r] = "stored" => cleaning[r] # "idle"
    /\ pc[r] = "failed" /\ points[r] = "stored" => r \in cancelled \/ "qdrant" \in Faults

\* Whose commit was acknowledged keeps its data.
Committed(r) ==
    tx[r] = "committed" =>
        /\ pc[r] \in {"purge", "ok", "dead"} /\ cleaning[r] = "idle"
        /\ event[r] = "committed" => images[r] = "stored" /\ points[r] = "stored"

RequestInv(r) ==
    /\ pc[r] \notin {"new", "refused"} => Refusal(input[r]) = "none"
    /\ event[r] = "inserted" => pc[r] = "commit"
    /\ draft[r] # NoRow => r \in held
    /\ Forward(r) /\ Backward(r) /\ Committed(r)

\* Two open transactions never hold one product.
Exclusive ==
    \A r, q \in held :
        r # q /\ tx[r] = "open" /\ tx[q] = "open" => input[r].name # input[q].name

IInv == TypeOK /\ (\A r \in Requests : RequestInv(r)) /\ Exclusive

\* A step of r leaves what belongs to the other requests alone.
Aside(r) ==
    /\ input' = input /\ cancelled' = cancelled
    /\ \A q \in Requests \ {r} :
          /\ pc'[q] = pc[q] /\ tx'[q] = tx[q] /\ draft'[q] = draft[q] /\ event'[q] = event[q]
          /\ images'[q] = images[q] /\ points'[q] = points[q] /\ cleaning'[q] = cleaning[q]
          /\ q \in held' <=> q \in held

-----------------------------------------------------------------------------
LEMMA InputTypes ==
    ASSUME TypeOK, NEW r \in Requests
    PROVE  /\ input[r] \in Inputs
           /\ input[r].name \in Names
           /\ input[r].category \in Categories
           /\ Refusal(input[r]) = "none" => Row(input[r]) \in Rows
    BY DEF TypeOK, Names, Categories, Rows

LEMMA InitIInv == Init => IInv
<1> SUFFICES ASSUME Init PROVE IInv
    OBVIOUS
<1>1. TypeOK
    BY DEF Init, TypeOK
<1>2. ASSUME NEW r \in Requests PROVE RequestInv(r)
    BY DEF Init, RequestInv, Forward, Backward, Committed, Untouched
<1>3. Exclusive
    BY DEF Init, Exclusive
<1> QED
    BY <1>1, <1>2, <1>3 DEF IInv

\* What a step of r has to show.
LEMMA StepKeeps ==
    ASSUME IInv, NEW r \in Requests, TypeOK', Aside(r), RequestInv(r)', Exclusive'
    PROVE  IInv'
<1>1. ASSUME NEW q \in Requests, q # r PROVE RequestInv(q)'
    <2>1. RequestInv(q)
        BY DEF IInv
    <2> QED
        BY <1>1, <2>1 DEF Aside, RequestInv, Forward, Backward, Committed, Untouched
<1> QED
    BY <1>1 DEF IInv

\* Locks that are kept or given up stay exclusive.
LEMMA ReleaseKeepsExclusive ==
    ASSUME IInv, input' = input, held' \subseteq held,
           \A q \in Requests : tx'[q] = "open" => tx[q] = "open"
    PROVE  Exclusive'
    BY DEF IInv, TypeOK, Exclusive

\* A step that moves r on and touches neither its transaction nor its data.
LEMMA MoveKeeps ==
    ASSUME IInv, NEW r \in Requests, NEW l \in Steps \cup Final, Goto(r, l),
           UNCHANGED <<input, cancelled, tx, tables, held, draft, stores>>,
           newCat' \subseteq Requests, seen' \subseteq Requests, purged' \subseteq Requests,
           RequestInv(r)'
    PROVE  IInv'
<1> USE DEF tables, stores
<1>1. TypeOK'
    BY DEF IInv, TypeOK, Goto
<1>2. Aside(r)
    BY DEF IInv, TypeOK, Goto, Aside
<1>3. Exclusive'
    BY ReleaseKeepsExclusive
<1> QED
    BY <1>1, <1>2, <1>3, StepKeeps

-----------------------------------------------------------------------------
(* The steps that only move on. *)

LEMMA MovesKeep ==
    ASSUME IInv, NEW r \in Requests,
           \/ RefuseForm(r) \/ BeginFail(r) \/ CreateCategory(r) \/ CategoryWaited(r)
           \/ UpsertWaits(r) \/ GetVectors(r) \/ GetEmbeddings(r) \/ Purge(r)
    PROVE  IInv'
<1>0. TypeOK /\ RequestInv(r)
    BY DEF IInv
<1> USE <1>0 DEF Goto, Steps, Final, Returned, locks, stores, tables
<1> DEFINE Kept == UNCHANGED <<input, cancelled, tx, tables, held, draft, stores>>
<1>1. CASE RefuseForm(r)
    <2>1. Goto(r, "refused") /\ Kept /\ UNCHANGED <<newCat, seen, purged>>
        BY <1>1 DEF RefuseForm
    <2>2. RequestInv(r)'
        BY <1>1, <2>1 DEF RefuseForm, TypeOK, RequestInv, Forward, Backward, Committed, Untouched
    <2> QED
        BY <2>1, <2>2, MoveKeeps DEF TypeOK
<1>2. CASE BeginFail(r)
    <2>1. Goto(r, "failed") /\ Kept /\ UNCHANGED <<newCat, seen, purged>>
        BY <1>2 DEF BeginFail
    <2>2. RequestInv(r)'
        BY <1>2, <2>1 DEF BeginFail, TypeOK, RequestInv, Forward, Backward, Committed, Untouched
    <2> QED
        BY <2>1, <2>2, MoveKeeps DEF TypeOK
<1>3. CASE CreateCategory(r)
    <2>1. PICK l \in {"product", "catWait"} : Goto(r, l)
        BY <1>3 DEF CreateCategory
    <2>2. Kept /\ UNCHANGED <<seen, purged>> /\ newCat' \subseteq Requests
        BY <1>3 DEF CreateCategory, TypeOK
    <2>3. RequestInv(r)'
        BY <1>3, <2>1, <2>2
        DEF CreateCategory, TypeOK, RequestInv, Forward, Backward, Committed, Untouched
    <2> QED
        BY <2>1, <2>2, <2>3, MoveKeeps DEF TypeOK
<1>4. CASE CategoryWaited(r)
    <2>1. PICK l \in {"product", "unwind"} : Goto(r, l)
        BY <1>4 DEF CategoryWaited
    <2>2. Kept /\ UNCHANGED <<seen, purged>> /\ newCat' \subseteq Requests
        BY <1>4 DEF CategoryWaited, TypeOK
    <2>3. RequestInv(r)'
        BY <1>4, <2>1, <2>2
        DEF CategoryWaited, TypeOK, RequestInv, Forward, Backward, Committed, Untouched
    <2> QED
        BY <2>1, <2>2, <2>3, MoveKeeps DEF TypeOK
<1>5. CASE UpsertWaits(r)
    <2>1. Goto(r, "rowWait") /\ Kept /\ UNCHANGED <<newCat, purged>> /\ seen' \subseteq Requests
        BY <1>5 DEF UpsertWaits, TypeOK
    <2>2. RequestInv(r)'
        BY <1>5, <2>1 DEF UpsertWaits, TypeOK, RequestInv, Forward, Backward, Committed, Untouched
    <2> QED
        BY <2>1, <2>2, MoveKeeps DEF TypeOK
<1>6. CASE GetVectors(r)
    <2>1. Goto(r, "upload") /\ Kept /\ UNCHANGED <<newCat, seen, purged>>
        BY <1>6 DEF GetVectors
    <2>2. RequestInv(r)'
        BY <1>6, <2>1 DEF GetVectors, TypeOK, RequestInv, Forward, Backward, Committed
    <2> QED
        BY <2>1, <2>2, MoveKeeps DEF TypeOK
<1>7. CASE GetEmbeddings(r)
    <2>1. Goto(r, "qdrant") /\ Kept /\ UNCHANGED <<newCat, seen, purged>>
        BY <1>7 DEF GetEmbeddings
    <2>2. RequestInv(r)'
        BY <1>7, <2>1 DEF GetEmbeddings, TypeOK, RequestInv, Forward, Backward, Committed
    <2> QED
        BY <2>1, <2>2, MoveKeeps DEF TypeOK
<1>8. CASE Purge(r)
    <2>1. Goto(r, "ok") /\ Kept /\ UNCHANGED <<newCat, seen>> /\ purged' \subseteq Requests
        BY <1>8 DEF Purge, TypeOK
    <2>2. RequestInv(r)'
        BY <1>8, <2>1 DEF Purge, TypeOK, RequestInv, Forward, Backward, Committed
    <2> QED
        BY <2>1, <2>2, MoveKeeps DEF TypeOK
<1> QED
    BY <1>1, <1>2, <1>3, <1>4, <1>5, <1>6, <1>7, <1>8

LEMMA FailsKeeps ==
    ASSUME IInv, NEW r \in Requests,
           NEW at \in {"category", "catWait", "product", "rowWait", "vectors", "embed", "outbox"},
           NEW class, Fails(r, at, class)
    PROVE  IInv'
<1>0. TypeOK /\ RequestInv(r)
    BY DEF IInv
<1> USE <1>0 DEF Goto, Steps, locks, stores, tables
<1>1. /\ Goto(r, "unwind") /\ UNCHANGED <<newCat, seen, purged>>
      /\ UNCHANGED <<input, cancelled, tx, tables, held, draft, stores>>
    BY DEF Fails
<1>2. RequestInv(r)'
    BY <1>1 DEF Fails, TypeOK, RequestInv, Forward, Backward, Committed, Untouched
<1> QED
    BY <1>1, <1>2, MoveKeeps DEF TypeOK

-----------------------------------------------------------------------------
(* The transaction begins, and takes the product. *)

LEMMA BeginKeeps ==
    ASSUME IInv, NEW r \in Requests, Begin(r)
    PROVE  IInv'
<1>0. TypeOK /\ RequestInv(r)
    BY DEF IInv
<1> USE <1>0 DEF Begin, Goto, locks, stores, tables
<1>1. TypeOK'
    BY DEF TypeOK, Steps
<1>2. Aside(r)
    BY DEF TypeOK, Aside
<1>3. RequestInv(r)'
    BY DEF TypeOK, RequestInv, Forward, Backward, Committed, Untouched
<1>4. Exclusive'
    <2>1. r \notin held
        BY DEF RequestInv, Forward
    <2> QED
        BY <2>1 DEF IInv, TypeOK, Exclusive
<1> QED
    BY <1>1, <1>2, <1>3, <1>4, StepKeeps

LEMMA UpsertKeeps ==
    ASSUME IInv, NEW r \in Requests, UpsertProduct(r)
    PROVE  IInv'
<1>0. TypeOK /\ RequestInv(r)
    BY DEF IInv
<1>1. Row(input[r]) \in Rows /\ input[r].name \in Names
    BY <1>0, InputTypes DEF UpsertProduct, RequestInv
<1>2. /\ UNCHANGED <<input, cancelled, tx, tables, newCat, seen, stores, purged>>
      /\ pc[r] \in {"product", "rowWait"} /\ held' = held \cup {r}
    BY DEF UpsertProduct
<1>3. draft' \in {draft, [draft EXCEPT ![r] = Row(input[r])]}
    BY DEF UpsertProduct
<1>4. PICK l \in {"vectors", "noChanges", "commit", "unwind"} :
          /\ Goto(r, l)
          /\ l = "vectors" => HasImages(input[r])
          /\ l \in {"noChanges", "commit"} => ~HasImages(input[r])
          /\ l = "noChanges" => draft' = draft
    BY DEF UpsertProduct, AfterUpsert
<1> USE <1>0, <1>2, <1>3, <1>4 DEF Goto, stores, tables
<1>5. TypeOK'
    BY <1>1 DEF TypeOK, Steps, Final, Returned
<1>6. Aside(r)
    BY DEF TypeOK, Aside
<1>7. RequestInv(r)'
    BY DEF TypeOK, RequestInv, Forward, Backward, Committed, Untouched
<1>8. Exclusive'
    <2>1. \A q \in held \ {r} : tx[q] = "open" => input[q].name # input[r].name
        BY DEF UpsertProduct, ProductHolders
    <2> QED
        BY <2>1 DEF IInv, TypeOK, Exclusive
<1> QED
    BY <1>5, <1>6, <1>7, <1>8, StepKeeps

-----------------------------------------------------------------------------
(* The images, the points and the event. *)

LEMMA StoresKeep ==
    ASSUME IInv, NEW r \in Requests,
           \/ UploadImages(r) \/ UploadFail(r) \/ UpsertEmbeddings(r)
           \/ UpsertEmbeddingsFail(r) \/ CreateEvent(r) \/ DeletePoints(r) \/ CleanupImages(r)
    PROVE  IInv'
<1>0. TypeOK /\ RequestInv(r)
    BY DEF IInv
<1>1. UNCHANGED <<input, cancelled, tx, category, row, locks, purged>>
    BY DEF UploadImages, UploadFail, UpsertEmbeddings, UpsertEmbeddingsFail, CreateEvent,
           DeletePoints, CleanupImages, tables
<1>2. Exclusive'
    BY <1>1, ReleaseKeepsExclusive DEF locks
<1> USE <1>0, <1>1 DEF Goto, locks, stores, tables
<1>3. CASE UploadImages(r)
    <2>1. TypeOK'
        BY <1>3 DEF UploadImages, TypeOK, Steps
    <2>2. Aside(r)
        BY <1>3 DEF UploadImages, TypeOK, Aside
    <2>3. RequestInv(r)'
        BY <1>3 DEF UploadImages, TypeOK, RequestInv, Forward, Backward, Committed
    <2> QED
        BY <1>2, <2>1, <2>2, <2>3, StepKeeps
<1>4. CASE UploadFail(r)
    <2>1. PICK some \in BOOLEAN :
              /\ images' = [images EXCEPT ![r] = IF some THEN "stored" ELSE "none"]
              /\ cleaning' = [cleaning EXCEPT ![r] = IF some THEN "running" ELSE "idle"]
        BY <1>4 DEF UploadFail
    <2>2. TypeOK'
        BY <1>4, <2>1 DEF UploadFail, TypeOK, Steps
    <2>3. Aside(r)
        BY <1>4, <2>1 DEF UploadFail, TypeOK, Aside
    <2>4. RequestInv(r)'
        BY <1>4, <2>1 DEF UploadFail, TypeOK, RequestInv, Forward, Backward, Committed
    <2> QED
        BY <1>2, <2>2, <2>3, <2>4, StepKeeps
<1>5. CASE UpsertEmbeddings(r)
    <2>1. TypeOK'
        BY <1>5 DEF UpsertEmbeddings, TypeOK, Steps
    <2>2. Aside(r)
        BY <1>5 DEF UpsertEmbeddings, TypeOK, Aside
    <2>3. RequestInv(r)'
        BY <1>5 DEF UpsertEmbeddings, TypeOK, RequestInv, Forward, Backward, Committed
    <2> QED
        BY <1>2, <2>1, <2>2, <2>3, StepKeeps
<1>6. CASE UpsertEmbeddingsFail(r)
    <2>1. PICK some \in {"none", "stored"} : points' = [points EXCEPT ![r] = some]
        BY <1>6 DEF UpsertEmbeddingsFail
    <2>2. TypeOK'
        BY <1>6, <2>1 DEF UpsertEmbeddingsFail, TypeOK, Final, Returned
    <2>3. Aside(r)
        BY <1>6, <2>1 DEF UpsertEmbeddingsFail, TypeOK, Aside
    <2>4. RequestInv(r)'
        BY <1>6, <2>1 DEF UpsertEmbeddingsFail, TypeOK, RequestInv, Forward, Backward, Committed
    <2> QED
        BY <1>2, <2>2, <2>3, <2>4, StepKeeps
<1>7. CASE CreateEvent(r)
    <2>1. TypeOK'
        BY <1>7 DEF CreateEvent, TypeOK, Steps
    <2>2. Aside(r)
        BY <1>7 DEF CreateEvent, TypeOK, Aside
    <2>3. RequestInv(r)'
        BY <1>7 DEF CreateEvent, TypeOK, RequestInv, Forward, Backward, Committed
    <2> QED
        BY <1>2, <2>1, <2>2, <2>3, StepKeeps
<1>8. CASE DeletePoints(r)
    <2>1. points' = [points EXCEPT ![r] = "none"] \/ (MayFail(r, "qdrant") /\ points' = points)
        BY <1>8 DEF DeletePoints
    <2>2. TypeOK'
        BY <1>8, <2>1 DEF DeletePoints, TypeOK, Final, Returned
    <2>3. Aside(r)
        BY <1>8, <2>1 DEF DeletePoints, TypeOK, Aside
    <2>4. RequestInv(r)'
        BY <1>8, <2>1 DEF DeletePoints, MayFail, TypeOK, RequestInv, Forward, Backward, Committed
    <2> QED
        BY <1>2, <2>2, <2>3, <2>4, StepKeeps
<1>9. CASE CleanupImages(r)
    <2>1. TypeOK'
        BY <1>9 DEF CleanupImages, TypeOK
    <2>2. Aside(r)
        BY <1>9 DEF CleanupImages, TypeOK, Aside
    <2>3. RequestInv(r)'
        BY <1>9 DEF CleanupImages, TypeOK, RequestInv, Forward, Backward, Committed, Untouched
    <2> QED
        BY <1>2, <2>1, <2>2, <2>3, StepKeeps
<1> QED
    BY <1>3, <1>4, <1>5, <1>6, <1>7, <1>8, <1>9

-----------------------------------------------------------------------------
(* The end of the transaction. *)

LEMMA DiscardTypes ==
    ASSUME TypeOK, NEW S \in SUBSET Requests, Discard(S)
    PROVE  /\ newCat' \subseteq Requests /\ held' \subseteq Requests
           /\ draft' \in [Requests -> Rows \cup {NoRow}]
           /\ event' \in [Requests -> {"none", "inserted", "committed"}]
    BY DEF Discard, TypeOK

LEMMA PublishTypes ==
    ASSUME TypeOK, NEW r \in Requests, Publish(r)
    PROVE  /\ category' \subseteq Categories
           /\ row' \in [Names -> Rows \cup {NoRow}]
           /\ event' \in [Requests -> {"none", "inserted", "committed"}]
<1>1. category' \subseteq Categories
    BY InputTypes DEF Publish, TypeOK
<1>2. row' \in [Names -> Rows \cup {NoRow}]
    BY InputTypes DEF Publish, TypeOK
<1>3. event' \in [Requests -> {"none", "inserted", "committed"}]
    BY DEF Publish, TypeOK
<1> QED
    BY <1>1, <1>2, <1>3

LEMMA CommitsKeep ==
    ASSUME IInv, NEW r \in Requests, Commit(r) \/ CommitLost(r)
    PROVE  IInv'
<1>0. TypeOK /\ RequestInv(r)
    BY DEF IInv
<1>1. PICK l \in {"purge", "unwind"}, t \in {"committed", "unknown"} :
          /\ Goto(r, l) /\ tx' = [tx EXCEPT ![r] = t]
          /\ l = "purge" <=> t = "committed"
    BY DEF Commit, CommitLost
<1>2. /\ pc[r] = "commit" /\ Publish(r)
      /\ UNCHANGED <<input, cancelled, locks, stores, purged>>
    BY DEF Commit, CommitLost
<1>3. event' = [event EXCEPT ![r] = IF @ = "inserted" THEN "committed" ELSE @]
    BY <1>2 DEF Publish
<1> USE <1>0, <1>1, <1>2, <1>3 DEF Goto, locks, stores
<1>4. TypeOK'
    BY PublishTypes DEF TypeOK, Steps
<1>5. Aside(r)
    BY DEF TypeOK, Aside
<1>6. RequestInv(r)'
    BY DEF TypeOK, RequestInv, Forward, Backward, Committed
<1>7. Exclusive'
    BY ReleaseKeepsExclusive DEF TypeOK
<1> QED
    BY <1>4, <1>5, <1>6, <1>7, StepKeeps

LEMMA CommitFailKeeps ==
    ASSUME IInv, NEW r \in Requests, CommitFail(r)
    PROVE  IInv'
<1>0. TypeOK /\ RequestInv(r)
    BY DEF IInv
<1> USE <1>0 DEF CommitFail, Goto, stores
<1>1. TypeOK'
    BY DiscardTypes DEF TypeOK, Steps
<1>2. Aside(r)
    BY DEF TypeOK, Aside, Discard
<1>3. RequestInv(r)'
    BY DEF TypeOK, RequestInv, Forward, Backward, Committed, Discard
<1>4. Exclusive'
    BY ReleaseKeepsExclusive DEF TypeOK, Discard
<1> QED
    BY <1>1, <1>2, <1>3, <1>4, StepKeeps

LEMMA UnwindKeeps ==
    ASSUME IInv, NEW r \in Requests, Unwind(r)
    PROVE  IInv'
<1>0. TypeOK /\ RequestInv(r)
    BY DEF IInv
<1>1. /\ pc[r] = "unwind" /\ Goto(r, "unpoint")
      /\ UNCHANGED <<input, cancelled, category, row, seen, images, points, purged>>
      /\ cleaning' = IF images[r] = "stored" /\ cleaning[r] = "idle"
                     THEN [cleaning EXCEPT ![r] = "running"] ELSE cleaning
    BY DEF Unwind
<1> USE <1>0, <1>1 DEF Goto
<1>2. CASE tx[r] = "open" /\ tx' = [tx EXCEPT ![r] = "rolledback"] /\ Discard({r})
    <2>1. TypeOK'
        BY <1>2, DiscardTypes DEF TypeOK, Steps
    <2>2. Aside(r)
        BY <1>2 DEF TypeOK, Aside, Discard
    <2>3. RequestInv(r)'
        BY <1>2 DEF TypeOK, RequestInv, Forward, Backward, Committed, Discard
    <2>4. Exclusive'
        BY <1>2, ReleaseKeepsExclusive DEF TypeOK, Discard
    <2> QED
        BY <2>1, <2>2, <2>3, <2>4, StepKeeps
<1>3. CASE (tx[r] # "open" \/ r \in cancelled) /\ UNCHANGED <<tx, event, newCat, held, draft>>
    <2>1. TypeOK'
        BY <1>3 DEF TypeOK, Steps
    <2>2. Aside(r)
        BY <1>3 DEF TypeOK, Aside
    <2>3. RequestInv(r)'
        BY <1>3 DEF TypeOK, RequestInv, Forward, Backward, Committed
    <2>4. Exclusive'
        BY <1>3, ReleaseKeepsExclusive
    <2> QED
        BY <2>1, <2>2, <2>3, <2>4, StepKeeps
<1> QED
    BY <1>2, <1>3 DEF Unwind

LEMMA ReclaimKeeps ==
    ASSUME IInv, NEW r \in Requests, Reclaim(r)
    PROVE  IInv'
<1>0. TypeOK /\ RequestInv(r)
    BY DEF IInv
<1> USE <1>0 DEF Reclaim, stores
<1>1. TypeOK'
    BY DiscardTypes DEF TypeOK
<1>2. Aside(r)
    BY DEF TypeOK, Aside, Discard
<1>3. RequestInv(r)'
    BY DEF TypeOK, RequestInv, Forward, Backward, Committed, Untouched, Returned, Discard
<1>4. Exclusive'
    BY ReleaseKeepsExclusive DEF TypeOK, Discard
<1> QED
    BY <1>1, <1>2, <1>3, <1>4, StepKeeps

-----------------------------------------------------------------------------
(* The client and the process. *)

LEMMA CancelKeeps ==
    ASSUME IInv, NEW r \in Requests, Cancel(r)
    PROVE  IInv'
<1> USE DEF Cancel, locks, stores, tables
<1>1. TypeOK'
    BY DEF IInv, TypeOK
<1>2. ASSUME NEW q \in Requests PROVE RequestInv(q)'
    <2>1. RequestInv(q)
        BY DEF IInv
    <2> QED
        BY <2>1 DEF RequestInv, Forward, Backward, Committed, Untouched
<1>3. Exclusive'
    BY ReleaseKeepsExclusive
<1> QED
    BY <1>1, <1>2, <1>3 DEF IInv

LEMMA CrashKeeps ==
    ASSUME IInv, Crash
    PROVE  IInv'
<1> DEFINE S == {r \in Requests : tx[r] = "open"}
<1>0. TypeOK
    BY DEF IInv
<1>1. /\ UNCHANGED <<input, cancelled, category, row, seen, images, points, purged>>
      /\ pc' = [r \in Requests |-> IF pc[r] \in Steps THEN "dead" ELSE pc[r]]
      /\ tx' = [r \in Requests |-> IF tx[r] = "open" THEN "rolledback" ELSE tx[r]]
      /\ cleaning' = [r \in Requests |->
                        IF cleaning[r] = "running" THEN "gaveup" ELSE cleaning[r]]
      /\ S \in SUBSET Requests /\ Discard(S)
    BY DEF Crash
<1> HIDE DEF S
<1>2. TypeOK'
    <2>1. pc' \in [Requests -> {"new"} \cup Steps \cup Final]
        BY <1>0, <1>1 DEF TypeOK, Final
    <2> QED
        BY <1>0, <1>1, <2>1, DiscardTypes DEF TypeOK
<1>3. ASSUME NEW q \in Requests PROVE RequestInv(q)'
    <2>1. RequestInv(q)
        BY DEF IInv
    <2>2. event'[q] = (IF tx[q] = "open" THEN "none" ELSE event[q])
        BY <1>1 DEF Discard, S
    <2>3. draft'[q] = (IF tx[q] = "open" THEN NoRow ELSE draft[q])
        BY <1>1 DEF Discard, S
    <2>4. q \in held' <=> q \in held /\ tx[q] # "open"
        BY <1>1 DEF Discard, S
    <2>5. CASE pc[q] \in Steps
        <3>1. pc'[q] = "dead"
            BY <1>1, <2>5
        <3> QED
            BY <1>0, <1>1, <2>1, <2>2, <2>3, <2>4, <2>5, <3>1
            DEF TypeOK, RequestInv, Forward, Backward, Committed, Steps
    <2>6. CASE pc[q] \notin Steps
        <3>1. pc'[q] = pc[q]
            BY <1>1, <2>6
        <3> QED
            BY <1>0, <1>1, <2>1, <2>2, <2>3, <2>4, <2>6, <3>1
            DEF TypeOK, RequestInv, Forward, Backward, Committed, Untouched, Steps
    <2> QED
        BY <2>5, <2>6
<1>4. Exclusive'
    BY <1>0, <1>1, ReleaseKeepsExclusive DEF Discard
<1> QED
    BY <1>2, <1>3, <1>4 DEF IInv

-----------------------------------------------------------------------------
LEMMA NextKeeps ==
    ASSUME IInv, [Next]_vars
    PROVE  IInv'
<1>1. CASE UNCHANGED vars
    BY <1>1 DEF vars, tables, locks, stores, IInv, TypeOK, RequestInv, Forward, Backward,
                Committed, Untouched, Exclusive
<1>2. ASSUME NEW r \in Requests, Handle(r) PROVE IInv'
    BY <1>2, MovesKeep, FailsKeeps, BeginKeeps, UpsertKeeps, StoresKeep, CommitsKeep,
       CommitFailKeeps, UnwindKeeps
    DEF Handle
<1>3. ASSUME NEW r \in Requests, WaitInterrupted(r) PROVE IInv'
    BY <1>3, FailsKeeps DEF WaitInterrupted
<1> QED
    BY <1>1, <1>2, <1>3, StoresKeep, CancelKeeps, ReclaimKeeps, CrashKeeps DEF Next

\* The state keeps its types, and each request's place in the handler tells
\* what it has in the stores: the invariant everything below rests on.
THEOREM InvariantHolds == Spec => []IInv
    BY InitIInv, NextKeeps, PTL DEF Spec

\* The state of the registrations keeps its types.
THEOREM TypeCorrect == Spec => []TypeOK
<1>1. IInv => TypeOK
    BY DEF IInv
<1> QED
    BY <1>1, InvariantHolds, PTL

\* However many requests bring one product, their events are written one
\* transaction after the other.
THEOREM EventsAreInCommitOrder == Spec => []OneOpenEventPerProduct
<1>1. IInv => OneOpenEventPerProduct
    <2> SUFFICES ASSUME IInv, NEW r \in Requests, NEW q \in Requests, r # q,
                        event[r] = "inserted", event[q] = "inserted"
                 PROVE  input[r].name # input[q].name
        BY DEF OneOpenEventPerProduct
    <2>1. \A p \in {r, q} : p \in held /\ tx[p] = "open"
        BY DEF IInv, RequestInv, Forward
    <2> QED
        BY <2>1 DEF IInv, Exclusive
<1> QED
    BY <1>1, InvariantHolds, PTL

\* Nothing that fails, is retried or dies after the handler has seen its commit
\* answered takes the event's images and points away.  Where the answer was
\* lost, the deferred function does take them away.
THEOREM CommittedEventsHaveData == Spec => []CommittedEventHasData
<1>1. IInv => CommittedEventHasData
    BY DEF IInv, RequestInv, Committed, CommittedEventHasData
<1> QED
    BY <1>1, InvariantHolds, PTL

\* The deferred function undoes what a failed request has done.
THEOREM FailuresAreCompensated == Spec => []FailedIsCompensated
<1>1. IInv => FailedIsCompensated
    BY DEF IInv, RequestInv, Backward, FailedIsCompensated
<1> QED
    BY <1>1, InvariantHolds, PTL

LEMMA AnswerCases ==
    ASSUME TypeOK, NEW r \in Requests
    PROVE  /\ Answer(r) = 201 => pc[r] = "ok" /\ HasImages(input[r])
           /\ Answer(r) = 200 => pc[r] = "ok" /\ ~HasImages(input[r])
           /\ Answer(r) = 400 => pc[r] \in {"refused", "noChanges"}
           /\ Answer(r) = 500 => pc[r] \in {"refused", "noChanges", "failed", "uncompensated"}
<1>1. \A error : Status(error) \in {400, 500}
    BY DEF Status
<1>2. CASE pc[r] = "refused"
    BY <1>1, <1>2 DEF Answer
<1>3. CASE pc[r] = "noChanges"
    BY <1>1, <1>3 DEF Answer
<1>4. CASE pc[r] \in {"failed", "uncompensated"}
    BY <1>4 DEF Answer
<1>5. CASE pc[r] = "ok"
    BY <1>5 DEF Answer
<1>6. CASE pc[r] \notin {"refused", "noChanges", "failed", "uncompensated", "ok"}
    BY <1>6 DEF Answer
<1> QED
    BY <1>2, <1>3, <1>4, <1>5, <1>6

\* The status a client gets is true of the stores.
THEOREM AnswersAreTrue == Spec => []AnswerIsTrue
<1>1. IInv => AnswerIsTrue
    <2> SUFFICES ASSUME IInv, NEW r \in Requests
                 PROVE  /\ Answer(r) = 201 => tx[r] = "committed" /\ event[r] = "committed"
                        /\ Answer(r) = 200 => tx[r] = "committed" /\ event[r] = "none"
                        /\ Answer(r) = 400 =>
                              /\ tx[r] \in {"none", "open", "rolledback"} /\ event[r] = "none"
                              /\ draft[r] = NoRow /\ images[r] = "none" /\ points[r] = "none"
                        /\ Answer(r) = 500 => tx[r] # "committed"
        BY DEF AnswerIsTrue
    <2> QED
        BY AnswerCases DEF IInv, RequestInv, Forward, Backward, Untouched
<1> QED
    BY <1>1, InvariantHolds, PTL

-----------------------------------------------------------------------------
(* What a step may never do. *)

LEMMA OnlyCommitsWriteRows ==
    ASSUME Next, row' # row
    PROVE  \E r \in Requests : Commit(r) \/ CommitLost(r)
<1> USE DEF tables
<1>1. ASSUME NEW r \in Requests, NEW at, NEW class, Fails(r, at, class) PROVE FALSE
    BY <1>1 DEF Fails
<1>2. ASSUME NEW r \in Requests, Handle(r) PROVE Commit(r) \/ CommitLost(r)
    <2>1. CASE RefuseForm(r) \/ Begin(r) \/ BeginFail(r) \/ CreateCategory(r) \/ CategoryWaited(r)
        BY <2>1 DEF RefuseForm, Begin, BeginFail, CreateCategory, CategoryWaited
    <2>2. CASE UpsertWaits(r) \/ UpsertProduct(r) \/ GetVectors(r) \/ UploadImages(r)
              \/ UploadFail(r) \/ GetEmbeddings(r) \/ UpsertEmbeddings(r)
        BY <2>2 DEF UpsertWaits, UpsertProduct, GetVectors, UploadImages, UploadFail,
                    GetEmbeddings, UpsertEmbeddings
    <2>3. CASE UpsertEmbeddingsFail(r) \/ CreateEvent(r) \/ CommitFail(r) \/ Purge(r)
              \/ Unwind(r) \/ DeletePoints(r)
        BY <2>3 DEF UpsertEmbeddingsFail, CreateEvent, CommitFail, Purge, Unwind, DeletePoints
    <2> QED
        BY <1>1, <1>2, <2>1, <2>2, <2>3 DEF Handle
<1>3. ASSUME NEW r \in Requests, WaitInterrupted(r) PROVE FALSE
    BY <1>1, <1>3 DEF WaitInterrupted
<1>4. ASSUME NEW r \in Requests, CleanupImages(r) \/ Cancel(r) \/ Reclaim(r) PROVE FALSE
    BY <1>4 DEF CleanupImages, Cancel, Reclaim
<1>5. ~Crash /\ ~UNCHANGED vars
    BY DEF Crash, vars
<1> QED
    BY <1>2, <1>3, <1>4, <1>5 DEF Next

\* A committed product changes only in the commit of the one transaction that
\* holds it.
THEOREM RowsAreWrittenUnderLock == Spec => RowsChangeUnderLock
<1>1. ASSUME IInv, [Next]_vars
      PROVE  [\A n \in Names : row'[n] # row[n] =>
                 \E r \in held :
                     /\ input[r].name = n
                     /\ tx[r] = "open" /\ tx'[r] \in {"committed", "unknown"}
                     /\ \A q \in held : tx[q] = "open" /\ input[q].name = n => q = r]_vars
    <2> SUFFICES ASSUME Next, NEW n \in Names, row'[n] # row[n]
                 PROVE  \E r \in held :
                           /\ input[r].name = n
                           /\ tx[r] = "open" /\ tx'[r] \in {"committed", "unknown"}
                           /\ \A q \in held : tx[q] = "open" /\ input[q].name = n => q = r
        BY <1>1 DEF vars
    <2>1. PICK r \in Requests : Commit(r) \/ CommitLost(r)
        BY OnlyCommitsWriteRows
    <2>2. /\ pc[r] = "commit" /\ Publish(r)
          /\ tx'[r] \in {"committed", "unknown"}
        BY <1>1, <2>1 DEF Commit, CommitLost, IInv, TypeOK
    <2>3. n = input[r].name
        BY <1>1, <2>2 DEF Publish, IInv, TypeOK
    <2>4. r \in held /\ tx[r] = "open"
        BY <1>1, <2>2 DEF IInv, RequestInv, Forward
    <2> QED
        BY <1>1, <2>2, <2>3, <2>4 DEF IInv, Exclusive
<1> QED
    BY <1>1, InvariantHolds, PTL DEF Spec, RowsChangeUnderLock

\* Without failures nobody's context is cancelled.
NoneCancelled == cancelled = {}

LEMMA NobodyIsCancelled ==
    ASSUME Faults = {}
    PROVE  Spec => []NoneCancelled
<1>1. Init => NoneCancelled
    BY DEF Init, NoneCancelled
<1>2. ASSUME NoneCancelled, [Next]_vars PROVE NoneCancelled'
    <2>1. ASSUME NEW r \in Requests, Handle(r) PROVE cancelled' = cancelled
        BY <2>1 DEF Handle, RefuseForm, Begin, BeginFail, CreateCategory, CategoryWaited, Fails,
            UpsertWaits, UpsertProduct, GetVectors, UploadImages, UploadFail, GetEmbeddings,
            UpsertEmbeddings, UpsertEmbeddingsFail, CreateEvent, Commit, CommitFail, CommitLost,
            Purge, Unwind, DeletePoints
    <2>2. ASSUME NEW r \in Requests, WaitInterrupted(r) \/ CleanupImages(r) \/ Cancel(r) \/ Reclaim(r)
          PROVE  cancelled' = cancelled
        BY <2>2 DEF WaitInterrupted, Fails, CleanupImages, Cancel, Reclaim
    <2>3. Crash \/ UNCHANGED vars => cancelled' = cancelled
        BY DEF Crash, vars
    <2> QED
        BY <1>2, <2>1, <2>2, <2>3 DEF Next, NoneCancelled
<1> QED
    BY <1>1, <1>2, PTL DEF Spec

\* What a step without failures may unwind: a wait that ended with another
\* request's commit of the same row.
RaceOnly(r) ==
    \/ pc[r] = "catWait" /\ input[r].category \in category
    \/ pc[r] = "rowWait" /\ row[input[r].name] = Row(input[r])

LEMMA MovesUnwindAfterRace ==
    ASSUME Faults = {}, IInv, NoneCancelled, NEW r \in Requests, Handle(r) \/ WaitInterrupted(r),
           NEW q \in Requests, pc[q] # "unwind", pc'[q] = "unwind"
    PROVE  RaceOnly(q)
<1>0. TypeOK
    BY DEF IInv
<1>1. \A class : ~MayFail(r, class)
    BY DEF MayFail, NoneCancelled
<1>2. \A at, class : ~Fails(r, at, class)
    BY <1>1 DEF Fails
<1>3. q = r
    <2>1. \E l : Goto(r, l)
        BY <1>2 DEF Handle, WaitInterrupted, RefuseForm, Begin, BeginFail, CreateCategory,
            CategoryWaited, UpsertWaits, UpsertProduct, GetVectors, UploadImages, UploadFail,
            GetEmbeddings, UpsertEmbeddings, UpsertEmbeddingsFail, CreateEvent, Commit,
            CommitFail, CommitLost, Purge, Unwind, DeletePoints
    <2> QED
        BY <1>0, <2>1 DEF Goto, TypeOK
<1>4. CASE CategoryWaited(r)
    BY <1>0, <1>3, <1>4 DEF CategoryWaited, Goto, RaceOnly, TypeOK
<1>5. CASE UpsertProduct(r)
    <2>1. Row(input[r]) # NoRow
        BY <1>0, InputTypes, InputsAssumption DEF Row, NoRow
    <2>2. AfterUpsert(r, TRUE) # "unwind" /\ AfterUpsert(r, FALSE) # "unwind"
        BY DEF AfterUpsert
    <2>3. pc[r] # "product"
        BY <1>0, <1>3, <1>5, <2>1, <2>2 DEF UpsertProduct, Goto, TypeOK
    <2>4. row[input[r].name] = Row(input[r])
        BY <1>0, <1>3, <1>5, <2>2 DEF UpsertProduct, Goto, TypeOK
    <2> QED
        BY <1>3, <1>5, <2>3, <2>4 DEF UpsertProduct, RaceOnly
<1>6. CASE \/ RefuseForm(r) \/ Begin(r) \/ CreateCategory(r) \/ UpsertWaits(r) \/ GetVectors(r)
          \/ UploadImages(r) \/ GetEmbeddings(r) \/ UpsertEmbeddings(r) \/ CreateEvent(r)
          \/ Commit(r) \/ Purge(r) \/ DeletePoints(r)
    <2>1. \E l \in {"refused", "category", "product", "catWait", "rowWait", "upload", "embed",
                    "qdrant", "outbox", "commit", "purge", "ok", "failed"} : Goto(r, l)
        BY <1>6 DEF RefuseForm, Begin, CreateCategory, UpsertWaits, GetVectors, UploadImages,
            GetEmbeddings, UpsertEmbeddings, CreateEvent, Commit, Purge, DeletePoints
    <2> QED
        BY <1>0, <1>3, <2>1 DEF Goto, TypeOK
<1>7. ~BeginFail(r) /\ ~UploadFail(r) /\ ~UpsertEmbeddingsFail(r) /\ ~CommitFail(r) /\ ~CommitLost(r)
    BY <1>1 DEF BeginFail, UploadFail, UpsertEmbeddingsFail, CommitFail, CommitLost
<1>8. ~Unwind(r)
    BY <1>3 DEF Unwind
<1> QED
    BY <1>2, <1>4, <1>5, <1>6, <1>7, <1>8 DEF Handle, WaitInterrupted

\* Without failures both upserts are idempotent but for the race with another
\* request that brings the same new row.
THEOREM OnlyRacesFail ==
    ASSUME Faults = {}
    PROVE  Spec => FailsOnlyAfterWait
<1>1. ASSUME IInv, NoneCancelled, [Next]_vars
      PROVE  [\A r \in Requests : pc[r] # "unwind" /\ pc'[r] = "unwind" =>
                 \/ pc[r] = "catWait" /\ input[r].category \in category
                 \/ pc[r] = "rowWait" /\ row[input[r].name] = Row(input[r])]_vars
    <2> SUFFICES ASSUME Next, NEW q \in Requests, pc[q] # "unwind", pc'[q] = "unwind"
                 PROVE  RaceOnly(q)
        BY <1>1 DEF RaceOnly
    <2>1. ASSUME NEW r \in Requests, CleanupImages(r) \/ Cancel(r) \/ Reclaim(r) PROVE FALSE
        BY <2>1 DEF CleanupImages, Cancel, Reclaim
    <2>2. ~Crash /\ ~UNCHANGED vars
        BY DEF Crash, vars
    <2> QED
        BY <1>1, <2>1, <2>2, MovesUnwindAfterRace DEF Next
<1> QED
    BY <1>1, InvariantHolds, NobodyIsCancelled, PTL DEF Spec, FailsOnlyAfterWait

-----------------------------------------------------------------------------
(* What the rows of products say. *)

\* A transaction writes the row of its own form.
OwnDraft(r) == draft[r] # NoRow => draft[r] = Row(input[r]) /\ Refusal(input[r]) = "none"

\* A row of the table is the form of a request that committed it.
WrittenBy(n, r) ==
    /\ input[r].name = n /\ Refusal(input[r]) = "none" /\ row[n] = Row(input[r])
    /\ tx[r] \in {"committed", "unknown"}

RowsAreForms ==
    /\ \A r \in Requests : OwnDraft(r)
    /\ \A n \in Names : row[n] # NoRow => \E r \in Requests : WrittenBy(n, r)

\* A draft is made by the upsert, and otherwise kept or dropped.
LEMMA DraftStep ==
    ASSUME IInv, Next, NEW q \in Requests
    PROVE  /\ input' = input
           /\ \/ draft'[q] \in {draft[q], NoRow}
              \/ draft'[q] = Row(input[q]) /\ Refusal(input[q]) = "none"
<1> DEFINE Kept == input' = input /\ draft' = draft
           Good == \/ draft'[q] \in {draft[q], NoRow}
                   \/ draft'[q] = Row(input[q]) /\ Refusal(input[q]) = "none"
<1>0. TypeOK
    BY DEF IInv
<1> USE DEF locks
<1>1. ASSUME NEW S, Discard(S), input' = input PROVE input' = input /\ Good
    BY <1>1 DEF Discard
<1>2. ASSUME NEW r \in Requests, NEW at, NEW class, Fails(r, at, class) PROVE Kept
    BY <1>2 DEF Fails
<1>3. ASSUME NEW r \in Requests, Handle(r) PROVE input' = input /\ Good
    <2>1. CASE RefuseForm(r) \/ Begin(r) \/ BeginFail(r) \/ CreateCategory(r) \/ CategoryWaited(r)
        BY <2>1 DEF RefuseForm, Begin, BeginFail, CreateCategory, CategoryWaited
    <2>2. CASE UpsertWaits(r) \/ GetVectors(r) \/ UploadImages(r) \/ UploadFail(r)
              \/ GetEmbeddings(r) \/ UpsertEmbeddings(r)
        BY <2>2 DEF UpsertWaits, GetVectors, UploadImages, UploadFail, GetEmbeddings,
                    UpsertEmbeddings
    <2>3. CASE UpsertEmbeddingsFail(r) \/ CreateEvent(r) \/ Commit(r) \/ CommitLost(r)
              \/ Purge(r) \/ DeletePoints(r)
        BY <2>3 DEF UpsertEmbeddingsFail, CreateEvent, Commit, CommitLost, Purge, DeletePoints
    <2>4. CASE CommitFail(r)
        BY <1>1, <2>4 DEF CommitFail
    <2>5. CASE Unwind(r)
        BY <1>1, <2>5 DEF Unwind
    <2>6. CASE UpsertProduct(r)
        <3>1. input' = input /\ pc[r] \in {"product", "rowWait"}
            BY <2>6 DEF UpsertProduct
        <3>2. Refusal(input[r]) = "none"
            BY <3>1 DEF IInv, RequestInv
        <3>3. draft' \in {draft, [draft EXCEPT ![r] = Row(input[r])]}
            BY <2>6 DEF UpsertProduct
        <3> QED
            BY <1>0, <3>1, <3>2, <3>3 DEF TypeOK
    <2> QED
        BY <1>2, <1>3, <2>1, <2>2, <2>3, <2>4, <2>5, <2>6 DEF Handle
<1>4. ASSUME NEW r \in Requests, WaitInterrupted(r) \/ CleanupImages(r) \/ Cancel(r) PROVE Kept
    BY <1>2, <1>4 DEF WaitInterrupted, CleanupImages, Cancel
<1>5. ASSUME NEW r \in Requests, Reclaim(r) PROVE input' = input /\ Good
    BY <1>1, <1>5 DEF Reclaim
<1>6. CASE Crash
    BY <1>1, <1>6 DEF Crash
<1>7. CASE UNCHANGED vars
    BY <1>7 DEF vars
<1> QED
    BY <1>3, <1>4, <1>5, <1>6, <1>7 DEF Next

\* What is committed stays committed.
LEMMA CommittedStays ==
    ASSUME IInv, Next, NEW q \in Requests, tx[q] \in {"committed", "unknown"}
    PROVE  tx'[q] = tx[q]
<1>0. TypeOK /\ \A r \in Requests : RequestInv(r)
    BY DEF IInv
<1> USE <1>0 DEF TypeOK
<1>1. ASSUME NEW r \in Requests, NEW at, NEW class, Fails(r, at, class) PROVE tx' = tx
    BY <1>1 DEF Fails
<1>2. ASSUME NEW r \in Requests, Handle(r) PROVE tx'[q] = tx[q]
    <2>1. CASE Begin(r)
        BY <2>1 DEF Begin, RequestInv, Forward
    <2>2. CASE Commit(r) \/ CommitFail(r) \/ CommitLost(r)
        BY <2>2 DEF Commit, CommitFail, CommitLost, RequestInv, Forward
    <2>3. CASE Unwind(r)
        BY <2>3 DEF Unwind
    <2>4. CASE RefuseForm(r) \/ BeginFail(r) \/ CreateCategory(r) \/ CategoryWaited(r)
              \/ UpsertWaits(r) \/ UpsertProduct(r) \/ GetVectors(r)
        BY <2>4 DEF RefuseForm, BeginFail, CreateCategory, CategoryWaited, UpsertWaits,
                    UpsertProduct, GetVectors
    <2>5. CASE UploadImages(r) \/ UploadFail(r) \/ GetEmbeddings(r) \/ UpsertEmbeddings(r)
              \/ UpsertEmbeddingsFail(r) \/ CreateEvent(r) \/ Purge(r) \/ DeletePoints(r)
        BY <2>5 DEF UploadImages, UploadFail, GetEmbeddings, UpsertEmbeddings,
                    UpsertEmbeddingsFail, CreateEvent, Purge, DeletePoints
    <2> QED
        BY <1>1, <1>2, <2>1, <2>2, <2>3, <2>4, <2>5 DEF Handle
<1>3. ASSUME NEW r \in Requests, WaitInterrupted(r) \/ CleanupImages(r) \/ Cancel(r) PROVE tx' = tx
    BY <1>1, <1>3 DEF WaitInterrupted, CleanupImages, Cancel
<1>4. ASSUME NEW r \in Requests, Reclaim(r) PROVE tx'[q] = tx[q]
    BY <1>4 DEF Reclaim
<1>5. Crash => tx'[q] = tx[q]
    BY DEF Crash
<1>6. UNCHANGED vars => tx' = tx
    BY DEF vars
<1> QED
    BY <1>2, <1>3, <1>4, <1>5, <1>6 DEF Next

LEMMA RowsAreFormsStep == IInv /\ RowsAreForms /\ [Next]_vars => RowsAreForms'
<1> SUFFICES ASSUME IInv, RowsAreForms, Next
             PROVE  RowsAreForms'
    BY DEF RowsAreForms, OwnDraft, WrittenBy, vars, tables, locks
<1>1. input' = input
    BY DraftStep DEF Next, Crash, vars
<1>2. ASSUME NEW q \in Requests PROVE OwnDraft(q)'
    <2>1. OwnDraft(q)
        BY DEF RowsAreForms
    <2> QED
        BY <1>1, <2>1, DraftStep DEF OwnDraft, Row
<1>3. ASSUME NEW n \in Names, row'[n] = row[n], NEW q \in Requests, WrittenBy(n, q)
      PROVE  WrittenBy(n, q)'
    BY <1>1, <1>3, CommittedStays DEF WrittenBy, Row
<1>4. ASSUME NEW n \in Names, row'[n] # row[n] PROVE \E q \in Requests : WrittenBy(n, q)'
    <2>1. PICK r \in Requests : Commit(r) \/ CommitLost(r)
        BY <1>4, OnlyCommitsWriteRows
    <2>2. Publish(r) /\ tx'[r] \in {"committed", "unknown"}
        BY <2>1 DEF Commit, CommitLost, IInv, TypeOK
    <2>3. n = input[r].name /\ draft[r] # NoRow /\ row'[n] = draft[r]
        BY <1>4, <2>2 DEF Publish, IInv, TypeOK
    <2>4. draft[r] = Row(input[r]) /\ Refusal(input[r]) = "none"
        BY <2>3 DEF RowsAreForms, OwnDraft
    <2>5. WrittenBy(n, r)'
        BY <1>1, <2>2, <2>3, <2>4 DEF WrittenBy, Row
    <2> QED
        BY <2>5
<1>5. ASSUME NEW n \in Names, row'[n] # NoRow PROVE \E q \in Requests : WrittenBy(n, q)'
    <2>1. CASE row'[n] = row[n]
        <3>1. PICK q \in Requests : WrittenBy(n, q)
            BY <1>5, <2>1 DEF RowsAreForms
        <3> QED
            BY <1>3, <2>1, <3>1
    <2> QED
        BY <1>4, <2>1
<1> QED
    BY <1>1, <1>2, <1>5 DEF RowsAreForms, Names

\* Every price in the table is to the kopeck the one of a form that passed the
\* checks and whose transaction committed: rounding, the limit, a rollback and
\* a race of two requests never leave another one.
THEOREM StoredPricesAreWritten == Spec => []StoredPriceIsWritten
<1>1. Init => RowsAreForms
    BY DEF Init, RowsAreForms, OwnDraft
<1>2. IInv /\ RowsAreForms => StoredPriceIsWritten
    <2> SUFFICES ASSUME IInv, RowsAreForms, NEW n \in Names, row[n] # NoRow
                 PROVE  /\ row[n].price \in 1 .. 100 * (100 * MaxRoubles)
                        /\ \E r \in Requests :
                              /\ input[r].name = n /\ input[r].category = row[n].category
                              /\ input[r].price.kind = "number"
                              /\ Worth(input[r].price, row[n].price)
                              /\ tx[r] \in {"committed", "unknown"}
        BY DEF StoredPriceIsWritten
    <2>1. PICK r \in Requests : WrittenBy(n, r)
        BY DEF RowsAreForms
    <2>2. row[n].category = input[r].category /\ row[n].price = Kopecks(input[r].price)
        BY <2>1 DEF WrittenBy, Row
    <2>3. input[r].price.coef \in Int /\ input[r].price.exp \in Int
        BY InputTypes, PricesAssumption DEF IInv
    <2>4. /\ input[r].price.kind = "number"
          /\ Kopecks(input[r].price) \in 1 .. 100 * (100 * MaxRoubles)
          /\ Worth(input[r].price, Kopecks(input[r].price))
        BY <2>1, <2>3, AcceptedPriceIsExact DEF WrittenBy
    <2> QED
        BY <2>1, <2>2, <2>4 DEF WrittenBy
<1> QED
    BY <1>1, <1>2, RowsAreFormsStep, InvariantHolds, PTL DEF Spec

-----------------------------------------------------------------------------
(* Registering takes effect at one moment and as a whole. *)

AfterCategory ==
    {"product", "rowWait", "vectors", "upload", "embed", "qdrant", "outbox", "commit"}

\* What a transaction will commit: while it holds its product, its draft or, if
\* it had nothing to write, the row itself is what the form says; its category
\* is there or comes with it.
Whole(r) ==
    /\ tx[r] = "open" /\ r \in held =>
          IF draft[r] = NoRow THEN row[input[r].name] = Row(input[r])
          ELSE draft[r] = Row(input[r])
    /\ pc[r] \in AfterCategory => input[r].category \in category \/ r \in newCat
    /\ event[r] = "committed" => r \in InEffect

\* A step that changes neither transactions, tables nor held products, and
\* brings nobody past its category.
Moves ==
    /\ UNCHANGED <<input, tx, tables, newCat, held, draft>>
    /\ \A q \in Requests : pc'[q] \in AfterCategory => pc[q] \in AfterCategory

\* Nothing is committed in the step.
Quiet ==
    /\ input' = input /\ category' = category /\ row' = row
    /\ \A q \in Requests : /\ q \in InEffect' <=> q \in InEffect
                           /\ event'[q] = "committed" <=> event[q] = "committed"

LEMMA MovesAreQuiet ==
    ASSUME Moves, \A q \in Requests : Whole(q)
    PROVE  Quiet /\ \A q \in Requests : Whole(q)'
<1>1. Quiet
    BY DEF Moves, Quiet, InEffect, tables
<1>2. ASSUME NEW q \in Requests PROVE Whole(q)'
    BY <1>2 DEF Moves, Whole, InEffect, tables, Row
<1> QED
    BY <1>1, <1>2

\* The steps that only move on.
LEMMA MoveSteps ==
    ASSUME IInv, NEW r \in Requests,
           \/ RefuseForm(r) \/ BeginFail(r) \/ UpsertWaits(r) \/ GetVectors(r) \/ UploadImages(r)
           \/ UploadFail(r) \/ GetEmbeddings(r) \/ UpsertEmbeddings(r) \/ UpsertEmbeddingsFail(r)
           \/ Purge(r) \/ DeletePoints(r) \/ CleanupImages(r) \/ Cancel(r)
    PROVE  Moves
<1>0. TypeOK
    BY DEF IInv
<1> USE <1>0 DEF TypeOK, Moves, AfterCategory, Goto, tables, locks
<1>1. CASE RefuseForm(r) \/ BeginFail(r) \/ UpsertWaits(r) \/ GetVectors(r)
    BY <1>1 DEF RefuseForm, BeginFail, UpsertWaits, GetVectors
<1>2. CASE UploadImages(r) \/ UploadFail(r) \/ GetEmbeddings(r) \/ UpsertEmbeddings(r)
    BY <1>2 DEF UploadImages, UploadFail, GetEmbeddings, UpsertEmbeddings
<1>3. CASE UpsertEmbeddingsFail(r) \/ Purge(r) \/ DeletePoints(r)
    BY <1>3 DEF UpsertEmbeddingsFail, Purge, DeletePoints
<1>4. CASE CleanupImages(r) \/ Cancel(r)
    BY <1>4 DEF CleanupImages, Cancel
<1> QED
    BY <1>1, <1>2, <1>3, <1>4

LEMMA FailsMoves ==
    ASSUME IInv, NEW r \in Requests, NEW at, NEW class, Fails(r, at, class)
    PROVE  Moves
<1> USE DEF IInv, TypeOK, Moves, AfterCategory, Goto, tables, locks
<1> QED
    BY DEF Fails

\* A transaction that ends without a commit takes nothing with it that was
\* committed.
LEMMA DiscardIsQuiet ==
    ASSUME IInv, \A q \in Requests : Whole(q), NEW S \in SUBSET Requests, Discard(S),
           UNCHANGED <<input, category, row>>,
           \A q \in Requests :
               IF q \in S THEN tx[q] = "open" /\ tx'[q] = "rolledback" /\ pc'[q] \notin AfterCategory
               ELSE tx'[q] = tx[q] /\ (pc'[q] \in AfterCategory => pc[q] \in AfterCategory)
    PROVE  Quiet /\ \A q \in Requests : Whole(q)'
<1>1. ASSUME NEW q \in Requests, q \in S
      PROVE  /\ q \notin InEffect /\ q \notin InEffect' /\ event[q] # "committed"
             /\ event'[q] # "committed" /\ Whole(q)'
    BY <1>1 DEF Discard, Whole, InEffect
<1>2. ASSUME NEW q \in Requests, q \notin S
      PROVE  /\ q \in InEffect' <=> q \in InEffect
             /\ event'[q] = event[q] /\ Whole(q)'
    BY <1>2 DEF Discard, Whole, InEffect, Row
<1> QED
    BY <1>1, <1>2 DEF Quiet

\* The category, the begin, the upsert and the event.
LEMMA BuildingIsQuiet ==
    ASSUME IInv, \A q \in Requests : Whole(q), NEW r \in Requests,
           \/ Begin(r) \/ CreateCategory(r) \/ CategoryWaited(r)
           \/ UpsertProduct(r) \/ CreateEvent(r)
    PROVE  Quiet /\ \A q \in Requests : Whole(q)'
<1>0. TypeOK /\ RequestInv(r) /\ Whole(r)
    BY DEF IInv
<1> USE <1>0 DEF TypeOK, Goto, tables, locks, InEffect, AfterCategory
<1>1. CASE Begin(r)
    <2>1. Quiet
        BY <1>1 DEF Begin, Quiet, RequestInv, Forward
    <2>2. ASSUME NEW q \in Requests PROVE Whole(q)'
        BY <1>1, <2>2 DEF Begin, Whole, Row, RequestInv, Forward, Untouched
    <2> QED
        BY <2>1, <2>2
<1>2. CASE CreateCategory(r) \/ CategoryWaited(r)
    <2>1. Quiet
        BY <1>2 DEF CreateCategory, CategoryWaited, Quiet
    <2>2. ASSUME NEW q \in Requests PROVE Whole(q)'
        BY <1>2, <2>2 DEF CreateCategory, CategoryWaited, Whole, Row
    <2> QED
        BY <2>1, <2>2
<1>3. CASE UpsertProduct(r)
    <2>1. Quiet
        BY <1>3 DEF UpsertProduct, Quiet
    <2>2. Row(input[r]) \in Rows
        BY <1>3, InputTypes DEF UpsertProduct, RequestInv
    <2>3. \/ draft' = [draft EXCEPT ![r] = Row(input[r])]
          \/ draft' = draft /\ row[input[r].name] = Row(input[r])
        BY <1>3 DEF UpsertProduct
    <2>4. /\ held' = held \cup {r} /\ UNCHANGED <<input, tx, tables, newCat>>
          /\ pc[r] \in {"product", "rowWait"} /\ \A q \in Requests \ {r} : pc'[q] = pc[q]
        BY <1>3 DEF UpsertProduct
    <2>5. draft[r] = NoRow
        BY <2>4 DEF RequestInv, Forward, Untouched
    <2>6. Row(input[r]) # NoRow
        BY InputTypes, InputsAssumption DEF Row, NoRow
    <2>7. Whole(r)'
        <3>1. Row(input[r])' = Row(input[r])
            BY <2>4 DEF Row
        <3>2. IF draft'[r] = NoRow THEN row'[input'[r].name] = Row(input[r])
              ELSE draft'[r] = Row(input[r])
            BY <2>3, <2>4, <2>5, <2>6
        <3> QED
            BY <2>4, <3>1, <3>2 DEF Whole
    <2>8. ASSUME NEW q \in Requests \ {r} PROVE Whole(q)'
        <3>1. draft'[q] = draft[q]
            BY <2>3
        <3> QED
            BY <2>4, <3>1 DEF Whole, Row
    <2> QED
        BY <2>1, <2>7, <2>8
<1>4. CASE CreateEvent(r)
    <2>1. event[r] = "none" /\ event' = [event EXCEPT ![r] = "inserted"]
        BY <1>4 DEF CreateEvent, RequestInv, Forward
    <2>2. Quiet
        BY <1>4, <2>1 DEF CreateEvent, Quiet
    <2>3. ASSUME NEW q \in Requests PROVE Whole(q)'
        BY <1>4, <2>1, <2>3 DEF CreateEvent, Whole, Row
    <2> QED
        BY <2>2, <2>3
<1> QED
    BY <1>1, <1>2, <1>3, <1>4

\* Everything that ends a transaction without a commit.
LEMMA EndingsAreQuiet ==
    ASSUME IInv, \A q \in Requests : Whole(q),
           \/ \E r \in Requests : CommitFail(r) \/ Unwind(r) \/ Reclaim(r)
           \/ Crash
    PROVE  Quiet /\ \A q \in Requests : Whole(q)'
<1>0. TypeOK
    BY DEF IInv
<1> USE <1>0 DEF TypeOK, Goto, AfterCategory
<1>1. ASSUME NEW r \in Requests, CommitFail(r) PROVE Quiet /\ \A q \in Requests : Whole(q)'
    <2>1. tx[r] = "open"
        BY <1>1 DEF CommitFail, IInv, RequestInv, Forward
    <2> QED
        BY <1>1, <2>1, DiscardIsQuiet DEF CommitFail
<1>2. ASSUME NEW r \in Requests, Unwind(r) PROVE Quiet /\ \A q \in Requests : Whole(q)'
    <2>1. CASE Discard({r}) /\ tx[r] = "open" /\ tx' = [tx EXCEPT ![r] = "rolledback"]
        BY <1>2, <2>1, DiscardIsQuiet DEF Unwind
    <2>2. CASE UNCHANGED <<tx, event, newCat, held, draft>>
        <3>1. Moves
            BY <1>2, <2>2 DEF Unwind, Moves, tables
        <3> QED
            BY <3>1, MovesAreQuiet
    <2> QED
        BY <1>2, <2>1, <2>2 DEF Unwind
<1>3. ASSUME NEW r \in Requests, Reclaim(r) PROVE Quiet /\ \A q \in Requests : Whole(q)'
    BY <1>3, DiscardIsQuiet DEF Reclaim, Returned
<1>4. CASE Crash
    <2> DEFINE S == {r \in Requests : tx[r] = "open"}
    <2>1. \A q \in Requests : pc'[q] \in AfterCategory => pc[q] \in AfterCategory
        BY <1>4 DEF Crash, Steps
    <2>2. \A q \in S : pc'[q] \notin AfterCategory
        BY <1>4 DEF Crash, Steps
    <2> QED
        BY <1>4, <2>1, <2>2, DiscardIsQuiet DEF Crash
<1> QED
    BY <1>1, <1>2, <1>3, <1>4

\* The commit makes the whole of the form take effect, and nobody else's.
LEMMA CommitsRegister ==
    ASSUME IInv, \A q \in Requests : Whole(q), NEW r \in Requests, Commit(r) \/ CommitLost(r)
    PROVE  Contract!Register(r) /\ \A q \in Requests : Whole(q)'
<1>0. TypeOK /\ RequestInv(r) /\ Whole(r) /\ input[r] \in Inputs /\ input[r].name \in Names
    BY InputTypes DEF IInv
<1>1. /\ pc[r] = "commit" /\ tx[r] = "open" /\ r \in held
      /\ event[r] = IF HasImages(input[r]) THEN "inserted" ELSE "none"
    BY <1>0 DEF Commit, CommitLost, RequestInv, Forward
<1>2. PICK t \in {"committed", "unknown"} : tx' = [tx EXCEPT ![r] = t]
    BY DEF Commit, CommitLost
<1>3. /\ Publish(r) /\ UNCHANGED <<input, newCat, held, draft>>
      /\ pc'[r] \notin AfterCategory /\ \A q \in Requests \ {r} : pc'[q] = pc[q]
    BY <1>0 DEF Commit, CommitLost, Goto, locks, AfterCategory, TypeOK
<1>4. category' = category \cup {input[r].category}
    BY <1>0, <1>1, <1>3 DEF Publish, Whole, AfterCategory
<1>5. row' = [row EXCEPT ![input[r].name] = Row(input[r])]
    <2>1. CASE draft[r] = NoRow
        BY <1>0, <1>1, <1>3, <2>1 DEF Publish, Whole, TypeOK
    <2>2. CASE draft[r] # NoRow
        BY <1>0, <1>1, <1>3, <2>2 DEF Publish, Whole
    <2> QED
        BY <2>1, <2>2
<1>6. event' = [event EXCEPT ![r] = IF HasImages(input[r]) THEN "committed" ELSE "none"]
    BY <1>0, <1>1, <1>3 DEF Publish, TypeOK
<1>7. Contract!Register(r)
    <2>1. r \notin InEffect /\ InEffect' = InEffect \cup {r}
        BY <1>0, <1>1, <1>2 DEF InEffect, TypeOK
    <2>2. {q \in Requests : event'[q] = "committed"} =
             IF HasImages(input[r]) THEN {q \in Requests : event[q] = "committed"} \cup {r}
             ELSE {q \in Requests : event[q] = "committed"}
        BY <1>0, <1>1, <1>6 DEF TypeOK
    <2>3. [q \in Requests |-> Asked(input[q])]' = [q \in Requests |-> Asked(input[q])]
        BY <1>3 DEF Asked, Row, HasImages
    <2> QED
        BY <1>4, <1>5, <2>1, <2>2, <2>3 DEF Contract!Register, Asked, Row
<1>8. Whole(r)'
    BY <1>0, <1>2, <1>3 DEF Whole, InEffect, TypeOK
<1>9. ASSUME NEW q \in Requests \ {r} PROVE Whole(q)'
    <2>1. /\ Whole(q) /\ tx'[q] = tx[q] /\ event'[q] = event[q]
          /\ category \subseteq category' /\ Row(input[q])' = Row(input[q])
        BY <1>0, <1>2, <1>3, <1>4, <1>6 DEF TypeOK, Row
    <2>2. ASSUME tx[q] = "open", q \in held PROVE row'[input[q].name] = row[input[q].name]
        BY <1>0, <1>1, <1>5, <2>2 DEF IInv, Exclusive, TypeOK
    <2> QED
        BY <1>3, <2>1, <2>2 DEF Whole, InEffect
<1> QED
    BY <1>7, <1>8, <1>9

LEMMA StepKinds ==
    ASSUME IInv, \A q \in Requests : Whole(q), [Next]_vars
    PROVE  /\ \A q \in Requests : Whole(q)'
           /\ Quiet \/ \E r \in Requests : Contract!Register(r)
<1>1. CASE UNCHANGED vars
    <2>1. Moves
        BY <1>1 DEF Moves, vars, tables
    <2> QED
        BY <2>1, MovesAreQuiet
<1>2. ASSUME NEW r \in Requests, NEW at, NEW class, Fails(r, at, class)
      PROVE  Quiet /\ \A q \in Requests : Whole(q)'
    BY <1>2, FailsMoves, MovesAreQuiet
<1>3. ASSUME NEW r \in Requests, Handle(r)
      PROVE  /\ \A q \in Requests : Whole(q)'
             /\ Quiet \/ Contract!Register(r)
    <2>1. CASE \/ RefuseForm(r) \/ BeginFail(r) \/ UpsertWaits(r) \/ GetVectors(r)
               \/ UploadImages(r) \/ UploadFail(r) \/ GetEmbeddings(r) \/ UpsertEmbeddings(r)
               \/ UpsertEmbeddingsFail(r) \/ Purge(r) \/ DeletePoints(r)
        BY <2>1, MoveSteps, MovesAreQuiet
    <2>2. CASE \/ Begin(r) \/ CreateCategory(r) \/ CategoryWaited(r)
               \/ UpsertProduct(r) \/ CreateEvent(r)
        BY <2>2, BuildingIsQuiet
    <2>3. CASE Commit(r) \/ CommitLost(r)
        BY <2>3, CommitsRegister
    <2>4. CASE CommitFail(r) \/ Unwind(r)
        BY <2>4, EndingsAreQuiet
    <2> QED
        BY <1>2, <1>3, <2>1, <2>2, <2>3, <2>4 DEF Handle
<1>4. ASSUME NEW r \in Requests, WaitInterrupted(r) PROVE Quiet /\ \A q \in Requests : Whole(q)'
    BY <1>2, <1>4 DEF WaitInterrupted
<1>5. ASSUME NEW r \in Requests, CleanupImages(r) \/ Cancel(r)
      PROVE  Quiet /\ \A q \in Requests : Whole(q)'
    BY <1>5, MoveSteps, MovesAreQuiet
<1>6. ASSUME (\E r \in Requests : Reclaim(r)) \/ Crash
      PROVE  Quiet /\ \A q \in Requests : Whole(q)'
    BY <1>6, EndingsAreQuiet
<1> QED
    BY <1>1, <1>3, <1>4, <1>5, <1>6 DEF Next

LEMMA WholeHolds == Spec => [](\A r \in Requests : Whole(r))
<1>1. Init => \A r \in Requests : Whole(r)
    BY DEF Init, Whole, InEffect, AfterCategory
<1>2. IInv /\ (\A r \in Requests : Whole(r)) /\ [Next]_vars => (\A r \in Requests : Whole(r))'
    BY StepKinds
<1> QED
    BY <1>1, <1>2, InvariantHolds, PTL DEF Spec

\* However many requests run and whatever fails, a registration takes effect at
\* one moment and as a whole: the category, the row of the product as the form
\* says it, and the event in the outbox, or nothing of them, and for ever.
THEOREM RegistrationImplementsContract == Spec => RegistersAtomically
<1>1. Init => Contract!Init
    <2> SUFFICES ASSUME Init PROVE Contract!Init
        OBVIOUS
    <2>1. [r \in Requests |-> Asked(input[r])] \in [Requests -> {Asked(i) : i \in Inputs}]
        BY DEF Init
    <2>2. Names = {f.name : f \in {Asked(i) : i \in Inputs}}
        <3>1. \A i \in Inputs : Asked(i).name = i.name
            BY DEF Asked
        <3>2. \A n : n \in Names <=> \E i \in Inputs : n = i.name
            BY DEF Names
        <3>3. \A n : n \in {f.name : f \in {Asked(i) : i \in Inputs}}
                        <=> \E i \in Inputs : n = Asked(i).name
            BY Zenon
        <3> QED
            BY <3>1, <3>2, <3>3
    <2>3. InEffect = {} /\ {r \in Requests : event[r] = "committed"} = {}
        BY DEF Init, InEffect
    <2> QED
        BY <2>1, <2>2, <2>3 DEF Init, Contract!Init
<1>2. IInv /\ (\A r \in Requests : Whole(r)) /\ [Next]_vars => [Contract!Next]_(Contract!rvars)
    <2> SUFFICES ASSUME IInv, \A r \in Requests : Whole(r), [Next]_vars
                 PROVE  [Contract!Next]_(Contract!rvars)
        OBVIOUS
    <2>1. ASSUME Quiet PROVE UNCHANGED Contract!rvars
        <3>1. [q \in Requests |-> Asked(input[q])]' = [q \in Requests |-> Asked(input[q])]
            BY <2>1 DEF Quiet, Asked, Row, HasImages
        <3>2. InEffect' = InEffect
            BY <2>1 DEF Quiet, InEffect
        <3>3. {q \in Requests : event[q] = "committed"}' = {q \in Requests : event[q] = "committed"}
            BY <2>1 DEF Quiet
        <3> QED
            BY <2>1, <3>1, <3>2, <3>3 DEF Quiet, Contract!rvars
    <2> QED
        BY <2>1, StepKinds DEF Contract!Next
<1> QED
    BY <1>1, <1>2, InvariantHolds, WholeHolds, PTL DEF Spec, RegistersAtomically, Contract!Spec

-----------------------------------------------------------------------------
(* What the outbox worker sees of the registrations. *)

\* A request's event as OutboxContract speaks of it: nobody takes it yet.
Feed == INSTANCE OutboxContract WITH
    Events <- Requests,
    stage  <- [r \in Requests |-> IF event[r] = "committed" THEN "recorded" ELSE "none"],
    copies <- [r \in Requests |-> 0]

\* Registrations do to the outbox only what its contract calls Record: an event
\* appears in one step, once, and no rollback or compensation withdraws it or
\* brings it back.  So the worker's model may let an event appear in one step
\* (CommitEvent of Outbox), whatever the transaction behind it went through.
THEOREM RegistrationFeedsOutbox == Spec => Feed!Spec
<1> DEFINE recorded == {r \in Requests : event[r] = "committed"}
           stages == [r \in Requests |-> IF event[r] = "committed" THEN "recorded" ELSE "none"]
<1>1. Init => Feed!Init
    BY DEF Init, Feed!Init
<1>2. IInv /\ (\A r \in Requests : Whole(r)) /\ [Next]_vars => [Feed!Next]_(Feed!cvars)
    <2> SUFFICES ASSUME IInv, \A r \in Requests : Whole(r), [Next]_vars
                 PROVE  [Feed!Next]_(Feed!cvars)
        OBVIOUS
    <2>1. ASSUME recorded' = recorded PROVE UNCHANGED Feed!cvars
        <3>1. \A r \in Requests : event'[r] = "committed" <=> event[r] = "committed"
            BY <2>1
        <3> QED
            BY <3>1 DEF Feed!cvars
    <2>2. ASSUME NEW r \in Requests, r \notin recorded, recorded' = recorded \cup {r}
          PROVE  Feed!Record(r)
        <3>1. event'[r] = "committed" /\ event[r] # "committed"
            BY <2>2
        <3>2. \A q \in Requests \ {r} : event'[q] = "committed" <=> event[q] = "committed"
            BY <2>2
        <3>3. stages' = [stages EXCEPT ![r] = "recorded"]
            BY <3>1, <3>2
        <3> QED
            BY <3>1, <3>3 DEF Feed!Record
    <2>3. CASE Quiet
        <3>1. recorded' = recorded
            BY <2>3 DEF Quiet
        <3> QED
            BY <2>1, <3>1
    <2>4. ASSUME NEW r \in Requests, Contract!Register(r) PROVE [Feed!Next]_(Feed!cvars)
        <3>1. r \notin recorded
            BY <2>4 DEF Contract!Register, Whole
        <3>2. recorded' = recorded \/ recorded' = recorded \cup {r}
            BY <2>4 DEF Contract!Register
        <3> QED
            BY <2>1, <2>2, <3>1, <3>2 DEF Feed!Next
    <2> QED
        BY <2>3, <2>4, StepKinds
<1> QED
    BY <1>1, <1>2, InvariantHolds, WholeHolds, PTL DEF Spec, Feed!Spec
=============================================================================
