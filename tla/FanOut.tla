-------------------------------- MODULE FanOut --------------------------------
(***************************************************************************)
(* The images of one request to RegisterNewProduct: the ML service makes a *)
(* vector of each (MLService.VectorizeRequest), MinIO stores each          *)
(* (MinioInfrastructure.UploadImages), and getEmbeddings pairs the vectors *)
(* with the keys by their positions.                                       *)
(*                                                                         *)
(* Both start a goroutine per image in an errgroup.  A goroutine takes a   *)
(* slot of a semaphore or gives up when the group is cancelled, makes its  *)
(* call, writes the answer at its own position and returns; the first      *)
(* error cancels the group, and the caller waits for all of them.  The     *)
(* vectors are tried again as a whole, the upload is not.                  *)
(***************************************************************************)
EXTENDS Integers

CONSTANTS
    NumImages,      \* images of the request
    Limit,          \* slots: MaxConcurrent and UploadImagesLimit
    MaxRetries,     \* attempts at the vectors, MLServiceCfg.MaxRetries
    Faults          \* which failures may happen

FaultClasses == {"call", "cancel", "empty"}

ASSUME NumImagesAssumption == NumImages \in Nat \ {0}
ASSUME LimitAssumption == Limit \in Nat \ {0}
ASSUME MaxRetriesAssumption == MaxRetries \in Nat \ {0}
ASSUME FaultsAssumption == Faults \subseteq FaultClasses

Images == 1 .. NumImages
Stages == {"vectorize", "upload", "pair"}

\* How often a stage is tried.
Tries(s) == IF s = "vectorize" THEN MaxRetries ELSE 1

\* An answer names the attempt and the image it was given for.
None == <<>>
Answers == ((1 .. MaxRetries) \X Images) \cup {None}

VARIABLES
    stage,      \* what the request is doing with its images
    caller,     \* the goroutine of the request
    attempt,    \* at this stage, from 1
    ctx,        \* the context of the request
    broken,     \* the errgroup has seen an error and is cancelled
    free,       \* free slots of the semaphore
    pc,         \* the goroutine of each image
    answer,     \* the slice the goroutines write to: vectors, later keys
    vectors,    \* what VectorizeRequest returned
    pairs,      \* the embeddings: a vector and a key
    stored,     \* images whose object is in MinIO
    cleaned,    \* images whose key was given to cleanupUploadedKeys
    lost,       \* observer: stored, but the call reported an error
    faulty      \* observer: the attempts with an error of their own

group   == <<broken, free, pc, answer>>
request == <<stage, caller, attempt, vectors, pairs>>
objects == <<stored, cleaned, lost>>
vars    == <<stage, caller, attempt, ctx, broken, free, pc, answer, vectors,
             pairs, stored, cleaned, lost, faulty>>

TypeOK ==
    /\ stage \in Stages
    /\ caller \in {"wait", "pause", "ok", "failed"}
    /\ attempt \in 1 .. Tries(stage)
    /\ ctx \in {"live", "cancelled"}
    /\ broken \in BOOLEAN
    /\ free \in 0 .. Limit
    /\ pc \in [Images -> {"select", "call", "served", "failing", "done"}]
    /\ answer \in [Images -> Answers]
    /\ vectors \in [Images -> Answers]
    /\ pairs \in [Images -> Answers \X Answers]
    /\ stored \subseteq Images
    /\ cleaned \subseteq Images
    /\ lost \subseteq stored
    /\ faulty \subseteq Stages \X (1 .. MaxRetries)

Init ==
    /\ stage = "vectorize"
    /\ caller = "wait"
    /\ attempt = 1
    /\ ctx = "live"
    /\ broken = FALSE
    /\ free = Limit
    /\ pc = [i \in Images |-> "select"]
    /\ answer = [i \in Images |-> None]
    /\ vectors = [i \in Images |-> None]
    /\ pairs = [i \in Images |-> <<None, None>>]
    /\ stored = {}
    /\ cleaned = {}
    /\ lost = {}
    /\ faulty = {}

\* A new errgroup, semaphore and slice.
NewGroup ==
    /\ broken' = FALSE
    /\ free' = Limit
    /\ pc' = [i \in Images |-> "select"]
    /\ answer' = [i \in Images |-> None]

\* gctx, which ends with the group and with the request.
GroupCancelled == broken \/ ctx = "cancelled"

Goto(i, label) == pc' = [pc EXCEPT ![i] = label]

-----------------------------------------------------------------------------
(* The goroutine of an image. *)

\* The select takes either branch when both are ready.
TakeSlot(i) ==
    /\ pc[i] = "select"
    /\ free > 0
    /\ free' = free - 1
    /\ Goto(i, "call")
    /\ UNCHANGED <<request, ctx, broken, answer, objects, faulty>>

\* Mutant of GiveUp: the slot is given back by a goroutine that has none.
GiveUpReleases(i) ==
    /\ pc[i] = "select"
    /\ GroupCancelled
    /\ free' = free + 1
    /\ Goto(i, "failing")
    /\ UNCHANGED <<request, ctx, broken, answer, objects, faulty>>

GiveUp(i) ==
    /\ pc[i] = "select"
    /\ GroupCancelled
    /\ Goto(i, "failing")
    /\ UNCHANGED <<request, ctx, broken, free, answer, objects, faulty>>

\* The service has done its work; the answer is on its way.
Serve(i) ==
    /\ pc[i] = "call"
    /\ Goto(i, "served")
    /\ stored' = IF stage = "upload" THEN stored \cup {i} ELSE stored
    /\ UNCHANGED <<request, ctx, broken, free, answer, cleaned, lost, faulty>>

\* An unsupported type, an error of the call, or its context has ended.  The
\* slot is given back before the group learns of the error.
Fail(i) ==
    /\ pc[i] \in {"call", "served"}
    /\ GroupCancelled \/ "call" \in Faults
    /\ Goto(i, "failing")
    /\ free' = free + 1
    /\ lost' = IF i \in stored THEN lost \cup {i} ELSE lost
    /\ faulty' = IF GroupCancelled THEN faulty ELSE faulty \cup {<<stage, attempt>>}
    /\ UNCHANGED <<request, ctx, broken, answer, stored, cleaned>>

\* Mutant of Record: the answers are appended as they come.
RecordAppend(i) ==
    /\ pc[i] = "served"
    /\ \E p \in Images :
        /\ answer[p] = None
        /\ \A q \in Images : answer[q] = None => p <= q
        /\ answer' = [answer EXCEPT ![p] = <<attempt, i>>]
    /\ free' = free + 1
    /\ Goto(i, "done")
    /\ UNCHANGED <<request, ctx, broken, objects, faulty>>

\* Mutant of Record: the slot is given back on errors only.
RecordKeepsSlot(i) ==
    /\ pc[i] = "served"
    /\ answer' = [answer EXCEPT ![i] = <<attempt, i>>]
    /\ Goto(i, "done")
    /\ UNCHANGED <<request, ctx, broken, free, objects, faulty>>

Record(i) ==
    /\ pc[i] = "served"
    /\ answer' = [answer EXCEPT ![i] = <<attempt, i>>]
    /\ free' = free + 1
    /\ Goto(i, "done")
    /\ UNCHANGED <<request, ctx, broken, objects, faulty>>

\* The errgroup receives the error of a goroutine.
Abort(i) ==
    /\ pc[i] = "failing"
    /\ broken' = TRUE
    /\ Goto(i, "done")
    /\ UNCHANGED <<request, ctx, free, answer, objects, faulty>>

-----------------------------------------------------------------------------
(* The goroutine of the request. *)

\* g.Wait returns.
Waited == stage # "pair" /\ caller = "wait" /\ \A i \in Images : pc[i] = "done"

\* The keys the slice holds.
Keys == {answer[p][2] : p \in {q \in Images : answer[q] # None}}

VectorsReady ==
    /\ Waited /\ ~broken
    /\ stage = "vectorize"
    /\ stage' = "upload"
    /\ attempt' = 1
    /\ vectors' = answer
    /\ NewGroup
    /\ UNCHANGED <<caller, ctx, pairs, objects, faulty>>

KeysReady ==
    /\ Waited /\ ~broken
    /\ stage = "upload"
    /\ stage' = "pair"
    /\ UNCHANGED <<caller, attempt, ctx, group, vectors, pairs, objects, faulty>>

\* Not the last attempt: a pause comes next.
AttemptFailed ==
    /\ Waited /\ broken
    /\ attempt < Tries(stage)
    /\ caller' = "pause"
    /\ UNCHANGED <<stage, attempt, ctx, group, vectors, pairs, objects, faulty>>

\* Mutant of StageFailed: the first error is returned at once.
StageFailedEarly ==
    /\ caller = "wait" /\ stage # "pair" /\ broken
    /\ attempt = Tries(stage)
    /\ caller' = "failed"
    /\ cleaned' = IF stage = "upload" THEN cleaned \cup Keys ELSE cleaned
    /\ UNCHANGED <<stage, attempt, ctx, group, vectors, pairs, stored, lost, faulty>>

\* The last attempt: the deferred function of UploadImages has the keys
\* removed that were written.
StageFailed ==
    /\ Waited /\ broken
    /\ attempt = Tries(stage)
    /\ caller' = "failed"
    /\ cleaned' = IF stage = "upload" THEN cleaned \cup Keys ELSE cleaned
    /\ UNCHANGED <<stage, attempt, ctx, group, vectors, pairs, stored, lost, faulty>>

\* Mutant of NextAttempt: the group of the failed attempt is used again.
NextAttemptStale ==
    /\ caller = "pause"
    /\ caller' = "wait"
    /\ attempt' = attempt + 1
    /\ free' = Limit
    /\ pc' = [i \in Images |-> "select"]
    /\ answer' = [i \in Images |-> None]
    /\ UNCHANGED <<stage, ctx, broken, vectors, pairs, objects, faulty>>

\* time.After fires, perhaps when the request's context has ended too.
NextAttempt ==
    /\ caller = "pause"
    /\ caller' = "wait"
    /\ attempt' = attempt + 1
    /\ NewGroup
    /\ UNCHANGED <<stage, ctx, vectors, pairs, objects, faulty>>

PauseCancelled ==
    /\ caller = "pause"
    /\ ctx = "cancelled"
    /\ caller' = "failed"
    /\ UNCHANGED <<stage, attempt, ctx, group, vectors, pairs, objects, faulty>>

Pair ==
    /\ stage = "pair" /\ caller = "wait"
    /\ pairs' = [i \in Images |-> <<vectors[i], answer[i]>>]
    /\ caller' = "ok"
    /\ UNCHANGED <<stage, attempt, ctx, group, vectors, objects, faulty>>

\* The service had answered with an empty vector: the deferred function of
\* RegisterNewProduct has the images removed.
PairFails ==
    /\ stage = "pair" /\ caller = "wait"
    /\ "empty" \in Faults
    /\ caller' = "failed"
    /\ cleaned' = cleaned \cup Keys
    /\ faulty' = faulty \cup {<<stage, attempt>>}
    /\ UNCHANGED <<stage, attempt, ctx, group, vectors, pairs, stored, lost>>

\* The client of the request goes away.
Cancel ==
    /\ "cancel" \in Faults
    /\ ctx = "live"
    /\ caller \in {"wait", "pause"}
    /\ ctx' = "cancelled"
    /\ UNCHANGED <<request, group, objects, faulty>>

-----------------------------------------------------------------------------

Goroutine(i) ==
    \/ TakeSlot(i) \/ GiveUp(i) \/ Serve(i)
    \/ Fail(i) \/ Record(i) \/ Abort(i)

Request ==
    \/ VectorsReady \/ KeysReady
    \/ AttemptFailed \/ StageFailed
    \/ NextAttempt \/ PauseCancelled
    \/ Pair \/ PairFails

Next ==
    \/ \E i \in Images : Goroutine(i)
    \/ Request
    \/ Cancel

Spec == Init /\ [][Next]_vars

\* Every goroutine goes on, every call ends, a pause ends.
FairSpec ==
    /\ Spec
    /\ \A i \in Images : WF_vars(Goroutine(i))
    /\ WF_vars(Request)

-----------------------------------------------------------------------------
(* Properties. *)

\* Every embedding has the vector and the key of one and the same image, and
\* the vectors come from one attempt, in whatever order the goroutines of
\* vectorizeBatch and UploadImages have answered.
PairsMatch ==
    caller = "ok" =>
        \E a \in 1 .. MaxRetries : pairs = [i \in Images |-> <<<<a, i>>, <<1, i>>>>]

\* When the images of a request have failed, every object whose key came back
\* from MinIO was given to the background removal, and a request that got its
\* embeddings has lost none of its objects (UploadImages and the deferred
\* functions).
FailedIsCleaned ==
    /\ caller = "failed" => stored \ lost \subseteq cleaned
    /\ caller = "ok" => stored = Images /\ cleaned = {}

\* As long as its client waits, a request fails only if every attempt at the
\* failing stage had an error of its own: an attempt never inherits the
\* cancelled group of the one before (VectorizeRequest).
FailsForCause ==
    caller = "failed" /\ ctx = "live" =>
        \A a \in 1 .. Tries(stage) : <<stage, a>> \in faulty

\* VectorizeRequest, UploadImages and getEmbeddings return: no goroutine is
\* left waiting for a slot.
FanOutReturns == <>(caller \in {"ok", "failed"})
=============================================================================
