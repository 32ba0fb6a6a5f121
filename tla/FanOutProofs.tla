----------------------------- MODULE FanOutProofs -----------------------------
(***************************************************************************)
(* Proofs about FanOut, for any number of images, slots and attempts and   *)
(* any failures.                                                           *)
(***************************************************************************)
EXTENDS FanOut, FiniteSetTheorems, TLAPS

\* TypeOK without the range of the free slots; a pause is never the last word.
Types ==
    /\ stage \in Stages
    /\ caller \in {"wait", "pause", "ok", "failed"}
    /\ attempt \in 1 .. Tries(stage)
    /\ caller = "pause" => attempt < Tries(stage)
    /\ ctx \in {"live", "cancelled"}
    /\ broken \in BOOLEAN
    /\ free \in Int
    /\ pc \in [Images -> {"select", "call", "served", "failing", "done"}]
    /\ answer \in [Images -> Answers]
    /\ vectors \in [Images -> Answers]
    /\ pairs \in [Images -> Answers \X Answers]
    /\ stored \subseteq Images
    /\ cleaned \subseteq Images
    /\ lost \subseteq stored
    /\ faulty \subseteq Stages \X (1 .. MaxRetries)

\* What an answer is.
LEMMA AnswerFacts ==
    ASSUME NEW a \in 1 .. MaxRetries, NEW i \in Images
    PROVE  /\ <<a, i>> \in Answers
           /\ <<a, i>> # None
           /\ <<a, i>>[2] = i
BY DEF Answers, None

LEMMA NoneIsAnswer == None \in Answers
BY DEF Answers

LEMMA TriesFacts ==
    /\ Stages = {"vectorize", "upload", "pair"}
    /\ \A s \in Stages : Tries(s) \in 1 .. MaxRetries /\ 1 \in 1 .. Tries(s)
BY MaxRetriesAssumption DEF Stages, Tries

\* What a new group looks like.
LEMMA NewGroupTypes ==
    ASSUME NewGroup
    PROVE  /\ free' \in Int /\ broken' \in BOOLEAN
           /\ pc' \in [Images -> {"select", "call", "served", "failing", "done"}]
           /\ answer' \in [Images -> Answers]
<1>1. free' \in Int
    BY LimitAssumption DEF NewGroup
<1>4. broken' \in BOOLEAN
    BY DEF NewGroup
<1>2. pc' \in [Images -> {"select", "call", "served", "failing", "done"}]
    BY DEF NewGroup
<1>3. answer' \in [Images -> Answers]
    BY NoneIsAnswer DEF NewGroup
<1> QED BY <1>1, <1>2, <1>3, <1>4

LEMMA TypesInit == Init => Types
<1> SUFFICES ASSUME Init PROVE Types
    OBVIOUS
<1>1. /\ stage \in Stages /\ attempt \in 1 .. Tries(stage) /\ ctx \in {"live", "cancelled"}
      /\ caller = "wait"
    BY TriesFacts DEF Init
<1>6. free \in Int
    BY LimitAssumption DEF Init
<1>7. broken \in BOOLEAN
    BY DEF Init
<1>2. pc \in [Images -> {"select", "call", "served", "failing", "done"}]
    BY DEF Init
<1>3. answer \in [Images -> Answers] /\ vectors \in [Images -> Answers]
    BY NoneIsAnswer DEF Init
<1>4. pairs \in [Images -> Answers \X Answers]
    BY NoneIsAnswer DEF Init
<1>5. stored = {} /\ cleaned = {} /\ lost = {} /\ faulty = {}
    BY DEF Init
<1> QED BY <1>1, <1>2, <1>3, <1>4, <1>5, <1>6, <1>7 DEF Types

LEMMA TypesStep == Types /\ [Next]_vars => Types'
<1> SUFFICES ASSUME Types, [Next]_vars PROVE Types'
    OBVIOUS
<1> USE DEF Types, Goto
<1>a. /\ attempt \in 1 .. MaxRetries /\ MaxRetries \in Nat \ {0} /\ Limit \in Nat \ {0}
      /\ Tries(stage) \in Nat
    BY TriesFacts, MaxRetriesAssumption, LimitAssumption
<1>1. ASSUME NEW i \in Images, TakeSlot(i) PROVE Types'
    BY <1>1 DEF TakeSlot, request, objects
<1>2. ASSUME NEW i \in Images, GiveUp(i) PROVE Types'
    BY <1>2 DEF GiveUp, request, objects
<1>3. ASSUME NEW i \in Images, Serve(i) PROVE Types'
    BY <1>3 DEF Serve, request
<1>4. ASSUME NEW i \in Images, Fail(i) PROVE Types'
    BY <1>4, <1>a DEF Fail, request
<1>5. ASSUME NEW i \in Images, Record(i) PROVE Types'
    BY <1>5, <1>a, AnswerFacts DEF Record, request, objects
<1>6. ASSUME NEW i \in Images, Abort(i) PROVE Types'
    BY <1>6 DEF Abort, request, objects
<1>7. ASSUME VectorsReady PROVE Types'
  <2>1. stage' = "upload" /\ "upload" \in Stages /\ attempt' = 1 /\ caller' = "wait"
      BY <1>7, TriesFacts DEF VectorsReady, Waited
  <2>2. attempt' \in 1 .. Tries(stage')
      BY <2>1, TriesFacts
  <2>3. /\ free' \in Int /\ broken' \in BOOLEAN
        /\ pc' \in [Images -> {"select", "call", "served", "failing", "done"}]
        /\ answer' \in [Images -> Answers] /\ vectors' \in [Images -> Answers]
        BY <1>7, NewGroupTypes DEF VectorsReady
  <2>4. UNCHANGED <<ctx, pairs, stored, cleaned, lost, faulty>>
      BY <1>7 DEF VectorsReady, objects
  <2> QED BY <2>1, <2>2, <2>3, <2>4
<1>8. ASSUME KeysReady PROVE Types'
    BY <1>8, <1>a, TriesFacts DEF KeysReady, group, objects, Tries, Waited
<1>9. ASSUME AttemptFailed PROVE Types'
    BY <1>9 DEF AttemptFailed, group, objects
<1>10. ASSUME StageFailed PROVE Types'
  <2>1. Keys \subseteq Images
      BY DEF Keys, Answers, None
  <2> QED BY <1>10, <2>1 DEF StageFailed, group
<1>11. ASSUME NextAttempt PROVE Types'
  <2>1. /\ free' \in Int /\ broken' \in BOOLEAN
        /\ pc' \in [Images -> {"select", "call", "served", "failing", "done"}]
        /\ answer' \in [Images -> Answers]
        BY <1>11, NewGroupTypes DEF NextAttempt
  <2>2. UNCHANGED <<stage, ctx, vectors, pairs, stored, cleaned, lost, faulty>>
      BY <1>11 DEF NextAttempt, objects
  <2>3. caller' = "wait" /\ attempt' \in 1 .. Tries(stage)
      BY <1>11, <1>a DEF NextAttempt
  <2> QED BY <2>1, <2>2, <2>3
<1>12. ASSUME PauseCancelled PROVE Types'
    BY <1>12 DEF PauseCancelled, group, objects
<1>13. ASSUME Pair PROVE Types'
    BY <1>13 DEF Pair, group, objects
<1>14. ASSUME PairFails PROVE Types'
  <2>1. Keys \subseteq Images
      BY DEF Keys, Answers, None
  <2> QED BY <1>14, <2>1, <1>a DEF PairFails, group
<1>15. ASSUME Cancel PROVE Types'
    BY <1>15 DEF Cancel, request, group, objects
<1>16. ASSUME UNCHANGED vars PROVE Types'
    BY <1>16 DEF vars
<1> QED
    BY <1>1, <1>2, <1>3, <1>4, <1>5, <1>6, <1>7, <1>8, <1>9, <1>10, <1>11, <1>12,
       <1>13, <1>14, <1>15, <1>16 DEF Next, Goroutine, Request
\* Only the vectors are tried more than once.
LEMMA OneTry == Types /\ stage # "vectorize" => attempt = 1 /\ caller # "pause" /\ Tries(stage) = 1
BY DEF Types, Tries

LEMMA FreshGroup ==
    NewGroup => ~broken' /\ \A j \in Images : pc'[j] = "select" /\ answer'[j] = None
BY DEF NewGroup

THEOREM TypesHold == Spec => []Types
BY TypesInit, TypesStep, PTL DEF Spec

-----------------------------------------------------------------------------
(* Vectors and keys. *)

\* At its own position a goroutine writes its own answer, one of this attempt;
\* a group without an error has written all of them when it is over.  No
\* goroutine outlives the call that started it.
Written ==
    /\ \A j \in Images : answer[j] # None => answer[j] = <<attempt, j>>
    /\ \A j \in Images : pc[j] = "done" /\ ~broken => answer[j] = <<attempt, j>>
    /\ stage = "pair" => ~broken /\ \A j \in Images : pc[j] = "done"
    /\ caller # "wait" => \A j \in Images : pc[j] = "done"
    /\ stage # "vectorize" =>
        \E a \in 1 .. MaxRetries : vectors = [j \in Images |-> <<a, j>>]
    /\ PairsMatch

LEMMA WrittenInit == Init => Written
BY DEF Init, Written, PairsMatch

LEMMA WrittenStep == Types /\ Written /\ [Next]_vars => Written'
<1> SUFFICES ASSUME Types, Written, [Next]_vars PROVE Written'
    OBVIOUS
<1> USE DEF Types, Written, Goto, PairsMatch
<1>1. ASSUME NEW i \in Images, TakeSlot(i) PROVE Written'
    BY <1>1 DEF TakeSlot, request, group, objects
<1>2. ASSUME NEW i \in Images, GiveUp(i) PROVE Written'
    BY <1>2 DEF GiveUp, request, group, objects
<1>3. ASSUME NEW i \in Images, Serve(i) PROVE Written'
    BY <1>3 DEF Serve, request, group, objects
<1>4. ASSUME NEW i \in Images, Fail(i) PROVE Written'
    BY <1>4 DEF Fail, request, group, objects
<1>5. ASSUME NEW i \in Images, Record(i) PROVE Written'
    BY <1>5 DEF Record, request, group, objects
<1>6. ASSUME NEW i \in Images, Abort(i) PROVE Written'
    BY <1>6 DEF Abort, request, group, objects
<1>7. ASSUME VectorsReady PROVE Written'
  <2>1. /\ ~broken' /\ \A j \in Images : pc'[j] = "select" /\ answer'[j] = None
        /\ stage' = "upload" /\ caller' = "wait"
      BY <1>7, FreshGroup DEF VectorsReady, Waited
  <2>2. attempt \in 1 .. MaxRetries
      BY TriesFacts, MaxRetriesAssumption
  <2>3. vectors' = [j \in Images |-> <<attempt, j>>]
      BY <1>7 DEF VectorsReady, Waited
  <2> QED BY <2>1, <2>2, <2>3
<1>8. ASSUME KeysReady PROVE Written'
    BY <1>8 DEF KeysReady, Waited, request, group, objects
<1>9. ASSUME AttemptFailed PROVE Written'
    BY <1>9 DEF AttemptFailed, Waited, request, group, objects
<1>10. ASSUME StageFailed PROVE Written'
    BY <1>10 DEF StageFailed, Waited, request, group, objects
<1>11. ASSUME NextAttempt PROVE Written'
  <2>1. /\ ~broken' /\ \A j \in Images : pc'[j] = "select" /\ answer'[j] = None
        /\ stage' = stage /\ caller' = "wait" /\ vectors' = vectors
      BY <1>11, FreshGroup DEF NextAttempt
  <2>2. stage = "vectorize"
      BY <1>11, OneTry DEF NextAttempt
  <2> QED BY <2>1, <2>2
<1>12. ASSUME PauseCancelled PROVE Written'
    BY <1>12 DEF PauseCancelled, request, group, objects
<1>13. ASSUME Pair PROVE Written'
  <2>1. /\ attempt = 1 /\ UNCHANGED <<stage, attempt, broken, pc, answer, vectors>>
        /\ pairs' = [j \in Images |-> <<vectors[j], answer[j]>>]
        /\ stage # "vectorize"
      BY <1>13, OneTry DEF Pair, group
  <2>2. \A j \in Images : answer[j] = <<1, j>>
      BY <1>13, <2>1 DEF Pair
  <2>3. PICK a \in 1 .. MaxRetries : vectors = [j \in Images |-> <<a, j>>]
      BY <2>1
  <2>4. pairs' = [j \in Images |-> <<<<a, j>>, <<1, j>>>>]
      BY <2>1, <2>2, <2>3
  <2>5. PairsMatch'
      BY <2>4
  <2>6. ~broken /\ \A j \in Images : pc[j] = "done"
      BY <1>13 DEF Pair
  <2> QED BY <2>1, <2>2, <2>3, <2>5, <2>6
<1>14. ASSUME PairFails PROVE Written'
    BY <1>14 DEF PairFails, request, group, objects
<1>15. ASSUME Cancel PROVE Written'
    BY <1>15 DEF Cancel, request, group, objects
<1>16. ASSUME UNCHANGED vars PROVE Written'
    BY <1>16 DEF vars
<1> QED
    BY <1>1, <1>2, <1>3, <1>4, <1>5, <1>6, <1>7, <1>8, <1>9, <1>10, <1>11, <1>12,
       <1>13, <1>14, <1>15, <1>16 DEF Next, Goroutine, Request

-----------------------------------------------------------------------------
(* Objects and their removal. *)

\* An object is stored by the goroutine that was served; when that goroutine
\* has ended, its key is in the slice unless the call reported an error.
Kept ==
    /\ stage = "vectorize" => stored = {}
    /\ \A j \in stored : pc[j] \notin {"select", "call"}
    /\ \A j \in stored : pc[j] \in {"failing", "done"} => j \in lost \/ answer[j] # None
    /\ \A j \in Images :
        stage # "vectorize" /\ (pc[j] = "served" \/ answer[j] # None) => j \in stored
    /\ caller # "failed" => cleaned = {}
    /\ FailedIsCleaned

LEMMA KeptInit == Init => Kept
BY DEF Init, Kept, FailedIsCleaned, None

\* Once every goroutine has ended, the slice has every key that came back.
LEMMA WrittenKeys ==
    ASSUME Types, Written, Kept, \A j \in Images : pc[j] = "done"
    PROVE  stored \ lost \subseteq Keys
<1> SUFFICES ASSUME NEW j \in stored, j \notin lost PROVE j \in Keys
    OBVIOUS
<1>1. j \in Images /\ answer[j] # None
    BY DEF Types, Kept
<1>2. answer[j] = <<attempt, j>>
    BY <1>1 DEF Written
<1>3. answer[j][2] = j
    BY <1>2
<1> QED BY <1>1, <1>3 DEF Keys

LEMMA KeptStep == Types /\ Written /\ Kept /\ [Next]_vars => Kept'
<1> SUFFICES ASSUME Types, Written, Kept, [Next]_vars PROVE Kept'
    OBVIOUS
<1> USE DEF Types, Written, Kept, Goto, FailedIsCleaned
<1>1. ASSUME NEW i \in Images, TakeSlot(i) PROVE Kept'
    BY <1>1 DEF TakeSlot, request, group, objects
<1>2. ASSUME NEW i \in Images, GiveUp(i) PROVE Kept'
    BY <1>2 DEF GiveUp, request, group, objects
<1>3. ASSUME NEW i \in Images, Serve(i) PROVE Kept'
  <2>1. CASE stage = "upload"
    <3>1. caller = "wait"
        BY <1>3 DEF Serve
    <3> QED BY <1>3, <2>1, <3>1 DEF Serve, request
  <2>2. CASE stage = "vectorize"
      BY <1>3, <2>2 DEF Serve, request
  <2>3. stage # "pair"
      BY <1>3 DEF Serve
  <2> QED BY <2>1, <2>2, <2>3, TriesFacts
<1>4. ASSUME NEW i \in Images, Fail(i) PROVE Kept'
    BY <1>4 DEF Fail, request, group, objects
<1>5. ASSUME NEW i \in Images, Record(i) PROVE Kept'
  <2>1. answer'[i] # None /\ \A j \in Images \ {i} : answer'[j] = answer[j] /\ pc'[j] = pc[j]
      BY <1>5, AnswerFacts, TriesFacts, MaxRetriesAssumption DEF Record
  <2>2. /\ pc[i] = "served" /\ pc'[i] = "done"
        /\ UNCHANGED <<stage, caller, stored, lost, cleaned>>
      BY <1>5 DEF Record, request, objects
  <2> QED BY <2>1, <2>2
<1>6. ASSUME NEW i \in Images, Abort(i) PROVE Kept'
    BY <1>6 DEF Abort, request, group, objects
<1>7. ASSUME VectorsReady PROVE Kept'
    BY <1>7 DEF VectorsReady, NewGroup, Waited, request, group, objects
<1>8. ASSUME KeysReady PROVE Kept'
    BY <1>8 DEF KeysReady, Waited, request, group, objects
<1>9. ASSUME AttemptFailed PROVE Kept'
    BY <1>9 DEF AttemptFailed, Waited, request, group, objects
<1>10. ASSUME StageFailed PROVE Kept'
  <2>1. stored \ lost \subseteq Keys
      BY <1>10, WrittenKeys DEF StageFailed, Waited
  <2>2. /\ UNCHANGED <<stage, pc, answer, stored, lost>> /\ caller' = "failed"
        /\ stored \ lost \subseteq cleaned'
      BY <1>10, <2>1, TriesFacts DEF StageFailed, Waited, group
  <2> QED BY <2>2
<1>11. ASSUME NextAttempt PROVE Kept'
  <2>1. /\ stage = "vectorize" /\ stored = {} /\ caller' = "wait"
        /\ UNCHANGED <<stage, stored, cleaned, lost>>
      BY <1>11, OneTry DEF NextAttempt, objects
  <2> QED BY <1>11, <2>1 DEF NextAttempt
<1>12. ASSUME PauseCancelled PROVE Kept'
  <2>1. stored = {}
      BY <1>12, OneTry DEF PauseCancelled
  <2> QED BY <1>12, <2>1 DEF PauseCancelled, group, objects
<1>13. ASSUME Pair PROVE Kept'
  <2>1. \A j \in Images : answer[j] # None
      BY <1>13, AnswerFacts, TriesFacts, MaxRetriesAssumption DEF Pair
  <2>2. stored = Images /\ cleaned = {}
      BY <1>13, <2>1 DEF Pair
  <2> QED BY <1>13, <2>2 DEF Pair, group, objects
<1>14. ASSUME PairFails PROVE Kept'
  <2>1. stored \ lost \subseteq Keys
      BY <1>14, WrittenKeys DEF PairFails
  <2>2. /\ UNCHANGED <<stage, pc, answer, stored, lost>> /\ caller' = "failed"
        /\ cleaned' = cleaned \cup Keys
      BY <1>14 DEF PairFails, group
  <2> QED BY <2>1, <2>2
<1>15. ASSUME Cancel PROVE Kept'
    BY <1>15 DEF Cancel, request, group, objects
<1>16. ASSUME UNCHANGED vars PROVE Kept'
    BY <1>16 DEF vars
<1> QED
    BY <1>1, <1>2, <1>3, <1>4, <1>5, <1>6, <1>7, <1>8, <1>9, <1>10, <1>11, <1>12,
       <1>13, <1>14, <1>15, <1>16 DEF Next, Goroutine, Request

-----------------------------------------------------------------------------
(* Causes of a failure. *)

\* While the client waits, an error is never older than the attempt it ends.
Caused ==
    ctx = "live" =>
        /\ \A a \in 1 .. attempt - 1 : <<stage, a>> \in faulty
        /\ broken \/ caller \in {"pause", "failed"} => <<stage, attempt>> \in faulty
        /\ \A j \in Images : pc[j] = "failing" => <<stage, attempt>> \in faulty
        /\ caller = "failed" => attempt = Tries(stage)

LEMMA CausedInit == Init => Caused
BY DEF Init, Caused

LEMMA CausedStep == Types /\ Caused /\ [Next]_vars => Caused'
<1> SUFFICES ASSUME Types, Caused, [Next]_vars PROVE Caused'
    OBVIOUS
<1> USE DEF Types, Caused, Goto, GroupCancelled
<1>1. ASSUME NEW i \in Images, TakeSlot(i) PROVE Caused'
    BY <1>1 DEF TakeSlot, request, group, objects
<1>2. ASSUME NEW i \in Images, GiveUp(i) PROVE Caused'
    BY <1>2 DEF GiveUp, request, group, objects
<1>3. ASSUME NEW i \in Images, Serve(i) PROVE Caused'
    BY <1>3 DEF Serve, request, group, objects
<1>4. ASSUME NEW i \in Images, Fail(i) PROVE Caused'
    BY <1>4 DEF Fail, request, group, objects
<1>5. ASSUME NEW i \in Images, Record(i) PROVE Caused'
    BY <1>5 DEF Record, request, group, objects
<1>6. ASSUME NEW i \in Images, Abort(i) PROVE Caused'
    BY <1>6 DEF Abort, request, group, objects
<1>7. ASSUME VectorsReady PROVE Caused'
    BY <1>7 DEF VectorsReady, NewGroup, Waited, request, group, objects
<1>8. ASSUME KeysReady PROVE Caused'
  <2>1. attempt = 1 /\ UNCHANGED <<attempt, ctx, broken, pc, caller, faulty>>
      BY <1>8, OneTry DEF KeysReady, group
  <2>2. 1 .. attempt' - 1 = {}
      BY <2>1
  <2>3. /\ ~broken /\ \A j \in Images : pc[j] = "done"
        /\ caller = "wait"
      BY <1>8 DEF KeysReady, Waited
  <2> QED BY <2>1, <2>2, <2>3
<1>9. ASSUME AttemptFailed PROVE Caused'
    BY <1>9 DEF AttemptFailed, Waited, request, group, objects
<1>10. ASSUME StageFailed PROVE Caused'
    BY <1>10 DEF StageFailed, Waited, request, group, objects
<1>11. ASSUME NextAttempt PROVE Caused'
    BY <1>11 DEF NextAttempt, NewGroup, request, group, objects
<1>12. ASSUME PauseCancelled PROVE Caused'
    BY <1>12 DEF PauseCancelled, request, group, objects
<1>13. ASSUME Pair PROVE Caused'
    BY <1>13 DEF Pair, request, group, objects
<1>14. ASSUME PairFails PROVE Caused'
  <2>1. attempt = 1 /\ Tries(stage) = 1
      BY <1>14, OneTry DEF PairFails
  <2>2. /\ UNCHANGED <<stage, attempt, ctx, broken, pc>> /\ faulty' = faulty \cup {<<stage, attempt>>}
      BY <1>14 DEF PairFails, group
  <2>3. 1 .. attempt' - 1 = {}
      BY <2>1, <2>2
  <2> QED BY <2>1, <2>2, <2>3
<1>15. ASSUME Cancel PROVE Caused'
    BY <1>15 DEF Cancel, request, group, objects
<1>16. ASSUME UNCHANGED vars PROVE Caused'
    BY <1>16 DEF vars
<1> QED
    BY <1>1, <1>2, <1>3, <1>4, <1>5, <1>6, <1>7, <1>8, <1>9, <1>10, <1>11, <1>12,
       <1>13, <1>14, <1>15, <1>16 DEF Next, Goroutine, Request

-----------------------------------------------------------------------------
(* Slots. *)

\* Who has a slot.
Holders == {j \in Images : pc[j] \in {"call", "served"}}

Slots == free >= 0 /\ free = Limit - Cardinality(Holders)

LEMMA HoldersFinite == IsFiniteSet(Holders) /\ Cardinality(Holders) \in Nat
<1>1. IsFiniteSet(Images)
    BY FS_Interval, NumImagesAssumption DEF Images
<1>2. Holders \subseteq Images
    BY DEF Holders
<1> QED BY <1>1, <1>2, FS_Subset, FS_CardinalityType

\* Without goroutines that hold a slot all are free.
LEMMA NoHolders ==
    ASSUME \A j \in Images : pc[j] \notin {"call", "served"}, free = Limit
    PROVE  Slots
<1>1. Holders = {}
    BY DEF Holders
<1> QED BY <1>1, FS_EmptySet, LimitAssumption DEF Slots

LEMMA SlotsInit == Init => Slots
BY NoHolders DEF Init

LEMMA SlotsStep == Types /\ Slots /\ [Next]_vars => Slots'
<1> SUFFICES ASSUME Types, Slots, [Next]_vars PROVE Slots'
    OBVIOUS
<1>a. free \in Int /\ Limit \in Int /\ Cardinality(Holders) \in Nat /\ IsFiniteSet(Holders)
    BY HoldersFinite, LimitAssumption DEF Types
<1>b. ASSUME UNCHANGED <<free, pc>> PROVE Slots'
    BY <1>b DEF Slots, Holders
<1>c. ASSUME NewGroup PROVE Slots'
  <2>1. free' = Limit /\ \A j \in Images : pc'[j] = "select"
      BY <1>c DEF NewGroup
  <2>2. Holders' = {}
      BY <2>1 DEF Holders
  <2>3. Cardinality(Holders') = 0
      BY <2>2, FS_EmptySet
  <2> QED BY <2>1, <2>3, LimitAssumption DEF Slots
<1>d. ASSUME NEW i \in Images, pc[i] \in {"call", "served"}, free' = free + 1,
             pc'[i] \notin {"call", "served"},
             \A j \in Images \ {i} : pc'[j] = pc[j]
      PROVE  Slots'
  <2>1. Holders' = Holders \ {i} /\ i \in Holders
      BY <1>d DEF Holders
  <2>2. Cardinality(Holders \ {i}) = Cardinality(Holders) - 1
      BY <1>a, <2>1, FS_RemoveElement
  <2>3. Cardinality(Holders') = Cardinality(Holders) - 1
      BY <2>1, <2>2
  <2> QED BY <1>a, <1>d, <2>3 DEF Slots
<1>e. ASSUME NEW i \in Images, NEW label, Goto(i, label),
             free' = free, pc[i] \in {"call", "served"} <=> label \in {"call", "served"}
      PROVE  Slots'
  <2>1. Holders' = Holders
      BY <1>e DEF Holders, Goto, Types
  <2> QED BY <1>e, <2>1 DEF Slots
<1>1. ASSUME NEW i \in Images, TakeSlot(i) PROVE Slots'
  <2>1. free > 0 /\ free' = free - 1
      BY <1>1 DEF TakeSlot
  <2>2. Holders' = Holders \cup {i} /\ i \notin Holders
      BY <1>1 DEF TakeSlot, Holders, Goto, Types
  <2>3. Cardinality(Holders \cup {i}) = Cardinality(Holders) + 1
      BY <1>a, <2>2, FS_AddElement
  <2>4. Cardinality(Holders') = Cardinality(Holders) + 1
      BY <2>2, <2>3
  <2> QED BY <1>a, <2>1, <2>4 DEF Slots
<1>2. ASSUME NEW i \in Images, GiveUp(i) PROVE Slots'
    BY <1>2, <1>e DEF GiveUp
<1>3. ASSUME NEW i \in Images, Serve(i) PROVE Slots'
    BY <1>3, <1>e DEF Serve
<1>4. ASSUME NEW i \in Images, Fail(i) PROVE Slots'
    BY <1>4, <1>d DEF Fail, Goto, Types
<1>5. ASSUME NEW i \in Images, Record(i) PROVE Slots'
    BY <1>5, <1>d DEF Record, Goto, Types
<1>6. ASSUME NEW i \in Images, Abort(i) PROVE Slots'
    BY <1>6, <1>e DEF Abort
<1>7. ASSUME VectorsReady \/ NextAttempt PROVE Slots'
    BY <1>7, <1>c DEF VectorsReady, NextAttempt
<1>8. ASSUME KeysReady \/ AttemptFailed \/ StageFailed \/ PauseCancelled \/ Pair \/ PairFails
      PROVE  Slots'
    BY <1>8, <1>b DEF KeysReady, AttemptFailed, StageFailed, PauseCancelled, Pair, PairFails, group
<1>9. ASSUME Cancel PROVE Slots'
    BY <1>9, <1>b DEF Cancel, group
<1>10. ASSUME UNCHANGED vars PROVE Slots'
    BY <1>10, <1>b DEF vars
<1> QED
    BY <1>1, <1>2, <1>3, <1>4, <1>5, <1>6, <1>7, <1>8, <1>9, <1>10
       DEF Next, Goroutine, Request

-----------------------------------------------------------------------------
(* The theorems. *)

\* The state of FanOut keeps its types; in particular no goroutine gives back
\* a slot it did not have, so that never more than Limit calls run at a time
\* (the semaphores of UploadImages and vectorizeBatch).
THEOREM TypeCorrect == Spec => []TypeOK
<1>1. Types /\ Slots => TypeOK
  <2>1. ASSUME Types, Slots PROVE free \in 0 .. Limit
      BY <2>1, HoldersFinite, LimitAssumption DEF Types, Slots
  <2> QED BY <2>1 DEF Types, TypeOK
<1>2. Spec => []Slots
    BY SlotsInit, SlotsStep, TypesHold, PTL DEF Spec
<1> QED BY <1>1, <1>2, TypesHold, PTL

\* Every embedding has the vector and the key of its own image, the vectors
\* from one attempt, for any number of images, slots and attempts
\* (vectorizeBatch, UploadImages, getEmbeddings).
THEOREM VectorsKeepTheirKeys == Spec => []PairsMatch
<1>1. Written => PairsMatch
    BY DEF Written
<1> QED BY <1>1, WrittenInit, WrittenStep, TypesHold, PTL DEF Spec

\* A request whose images failed has given every key it got to the removal
\* (the deferred functions of UploadImages and RegisterNewProduct).
THEOREM FailuresAreCleaned == Spec => []FailedIsCleaned
<1>1. Spec => []Written
    BY WrittenInit, WrittenStep, TypesHold, PTL DEF Spec
<1>2. Kept => FailedIsCleaned
    BY DEF Kept
<1> QED BY <1>1, <1>2, KeptInit, KeptStep, TypesHold, PTL DEF Spec

\* A request whose client waits fails only when every attempt had an error of
\* its own (VectorizeRequest).
THEOREM FailuresHaveCauses == Spec => []FailsForCause
<1>1. Types /\ Caused => FailsForCause
  <2> SUFFICES ASSUME Types, Caused, caller = "failed", ctx = "live",
                      NEW a \in 1 .. Tries(stage)
               PROVE  <<stage, a>> \in faulty
      BY DEF FailsForCause
  <2>1. attempt = Tries(stage) /\ <<stage, attempt>> \in faulty
      BY DEF Caused
  <2>2. CASE a = attempt
      BY <2>1, <2>2
  <2>3. CASE a # attempt
    <3>1. attempt \in Nat /\ a \in Nat
        BY TriesFacts, MaxRetriesAssumption DEF Types
    <3>2. a \in 1 .. attempt - 1
        BY <2>1, <2>3, <3>1
    <3> QED BY <3>2 DEF Caused
  <2> QED BY <2>2, <2>3
<1> QED BY <1>1, CausedInit, CausedStep, TypesHold, PTL DEF Spec

-----------------------------------------------------------------------------
(* The whole fan-out as steps of one registration.  Registration takes one *)
(* step for the vectors, one for the upload and one for the embeddings;    *)
(* here every step of every goroutine is shown to be one of these or       *)
(* nothing, for a request that has just upserted its product.              *)

Brought == [body |-> "multipart", name |-> "p", category |-> "c",
            price |-> [kind |-> "number", coef |-> 1, exp |-> 0],
            files |-> [count |-> NumImages, worst |-> "ok"]]

\* The request, as Registration knows it.
Req == 1
Only(x) == [r \in {Req} |-> x]

\* Where RegisterNewProduct is.
Place ==
    IF caller = "failed" THEN "unwind"
    ELSE IF caller = "ok" THEN "qdrant"
    ELSE IF stage = "vectorize" THEN "vectors"
    ELSE IF stage = "upload" THEN "upload" ELSE "embed"

\* UploadImages itself has its images removed; what getEmbeddings wants removed
\* is removed by Unwind, which follows.
Removing == stage = "upload" /\ cleaned # {}

FaultsOfRequest ==
    (IF "cancel" \in Faults THEN {"cancel"} ELSE {})
    \cup (IF "call" \in Faults THEN {"ml", "store"} ELSE {})
    \cup (IF "empty" \in Faults THEN {"ml"} ELSE {})

R == INSTANCE Registration WITH
    MaxRoubles <- 1,
    Requests   <- {Req},
    Inputs     <- {Brought},
    Faults     <- FaultsOfRequest,
    input      <- Only(Brought),
    pc         <- Only(Place),
    cancelled  <- IF ctx = "cancelled" THEN {Req} ELSE {},
    tx         <- Only("open"),
    category   <- {"c"},
    newCat     <- {},
    row        <- [n \in {"p"} |-> [category |-> "none", price |-> 0]],
    held       <- {Req},
    seen       <- {},
    draft      <- Only([category |-> "c", price |-> 100]),
    event      <- Only("none"),
    images     <- Only(IF stage = "pair" \/ Removing THEN "stored" ELSE "none"),
    points     <- Only("none"),
    cleaning   <- Only(IF Removing THEN "running" ELSE "idle"),
    purged     <- {}

StepOfRequest ==
    \/ R!GetVectors(Req)    \/ R!Fails(Req, "vectors", "ml")
    \/ R!UploadImages(Req)  \/ R!UploadFail(Req)
    \/ R!GetEmbeddings(Req) \/ R!Fails(Req, "embed", "ml")
    \/ R!Cancel(Req)

\* No goroutine has an error of which nothing was the cause.
Prompted ==
    broken \/ (\E i \in Images : pc[i] = "failing") =>
        "call" \in Faults \/ ctx = "cancelled"

LEMMA PromptedStep == Types /\ Prompted /\ [Next]_vars => Prompted'
<1> SUFFICES ASSUME Types, Prompted, [Next]_vars PROVE Prompted'
    OBVIOUS
<1> USE DEF Types, Prompted, Goto
<1>1. ASSUME NEW i \in Images, Goroutine(i) PROVE Prompted'
  <2>1. CASE TakeSlot(i) \/ Serve(i) \/ Record(i)
      BY <2>1 DEF TakeSlot, Serve, Record
  <2>2. CASE GiveUp(i) \/ Fail(i)
      BY <2>2 DEF GiveUp, Fail, GroupCancelled
  <2>3. CASE Abort(i)
      BY <2>3 DEF Abort
  <2> QED BY <1>1, <2>1, <2>2, <2>3 DEF Goroutine
<1>2. ASSUME Request PROVE Prompted'
    BY <1>2 DEF Request, VectorsReady, KeysReady, AttemptFailed, StageFailed, NextAttempt,
                PauseCancelled, Pair, PairFails, NewGroup, group
<1>3. ASSUME Cancel PROVE Prompted'
    BY <1>3 DEF Cancel, group
<1>4. ASSUME UNCHANGED vars PROVE Prompted'
    BY <1>4 DEF vars
<1> QED BY <1>1, <1>2, <1>3, <1>4 DEF Next

\* What a step of the images leaves alone of the registration.
LEMMA RestOfRequest ==
    UNCHANGED <<Only(Brought), Only("open"), {"c"}, {}, {Req}, Only("none"),
                [n \in {"p"} |-> [category |-> "none", price |-> 0]],
                Only([category |-> "c", price |-> 100])>>
BY DEF Only, Brought, Req

LEMMA RequestStep ==
    ASSUME Types, Kept, Prompted, [Next]_vars
    PROVE  [StepOfRequest]_(R!vars)
<1> USE DEF Only, Req
<1>1. ASSUME UNCHANGED <<Place, Removing, stage, ctx>> PROVE UNCHANGED R!vars
    BY <1>1, RestOfRequest DEF R!vars
<1>2. ASSUME NEW i \in Images, Goroutine(i) PROVE UNCHANGED <<Place, Removing, stage, ctx>>
    BY <1>2 DEF Goroutine, TakeSlot, GiveUp, Serve, Fail, Record, Abort, request, objects,
                Place, Removing
<1>3. CASE VectorsReady
  <2>1. /\ Place = "vectors" /\ Place' = "upload" /\ ctx' = ctx
        /\ stage = "vectorize" /\ stage' = "upload" /\ ~Removing /\ ~Removing'
      BY <1>3 DEF VectorsReady, Waited, Place, Removing, Kept, objects
  <2> QED BY <2>1, RestOfRequest
      DEF StepOfRequest, R!GetVectors, R!Goto, R!tables, R!locks, R!stores
<1>4. CASE KeysReady
  <2>1. /\ Place = "upload" /\ Place' = "embed" /\ ctx' = ctx
        /\ stage = "upload" /\ stage' = "pair" /\ ~Removing /\ ~Removing'
      BY <1>4 DEF KeysReady, Waited, Place, Removing, Kept, objects
  <2> QED BY <2>1, RestOfRequest
      DEF StepOfRequest, R!UploadImages, R!Goto, R!tables, R!locks
<1>5. CASE AttemptFailed \/ NextAttempt
  <2>1. UNCHANGED <<Place, Removing, stage, ctx>>
      BY <1>5 DEF AttemptFailed, NextAttempt, Waited, Place, Removing, objects
  <2> QED BY <1>1, <2>1
<1>6. CASE StageFailed
  <2>1. /\ Waited /\ caller' = "failed" /\ ctx' = ctx /\ stage' = stage
        /\ Place' = "unwind" /\ cleaned = {}
      BY <1>6 DEF StageFailed, Waited, Place, Kept
  <2>2. "call" \in Faults \/ ctx = "cancelled"
      BY <1>6 DEF StageFailed, Prompted
  <2>3. CASE stage = "vectorize"
    <3>1. Place = "vectors" /\ ~Removing /\ ~Removing'
        BY <2>1, <2>3 DEF Waited, Place, Removing
    <3>2. R!MayFail(Req, "ml")
        BY <2>2 DEF R!MayFail, FaultsOfRequest
    <3> QED BY <2>1, <2>3, <3>1, <3>2, RestOfRequest
        DEF StepOfRequest, R!Fails, R!Goto, R!tables, R!locks, R!stores
  <2>4. CASE stage = "upload"
    <3>1. Place = "upload" /\ ~Removing
        BY <2>1, <2>4 DEF Waited, Place, Removing
    <3>2. R!MayFail(Req, "store")
        BY <2>2 DEF R!MayFail, FaultsOfRequest
    <3>3. R!UploadFail(Req)
        BY <2>1, <2>4, <3>1, <3>2, RestOfRequest DEF R!UploadFail, R!Goto, R!tables, R!locks
    <3> QED BY <3>3 DEF StepOfRequest
  <2> QED BY <2>1, <2>3, <2>4, TriesFacts DEF Types, Waited
<1>7. CASE PauseCancelled
  <2>1. /\ caller = "pause" /\ caller' = "failed" /\ ctx = "cancelled" /\ ctx' = ctx
        /\ stage' = stage /\ stage = "vectorize" /\ ~Removing /\ ~Removing'
      BY <1>7, OneTry DEF PauseCancelled, Removing
  <2>2. Place = "vectors" /\ Place' = "unwind"
      BY <2>1 DEF Place
  <2>3. R!MayFail(Req, "ml")
      BY <2>1 DEF R!MayFail
  <2> QED BY <2>1, <2>2, <2>3, RestOfRequest
      DEF StepOfRequest, R!Fails, R!Goto, R!tables, R!locks, R!stores
<1>8. CASE Pair
  <2>1. /\ Place = "embed" /\ Place' = "qdrant" /\ ctx' = ctx
        /\ stage = "pair" /\ stage' = "pair" /\ ~Removing /\ ~Removing'
      BY <1>8 DEF Pair, Place, Removing, objects
  <2> QED BY <2>1, RestOfRequest
      DEF StepOfRequest, R!GetEmbeddings, R!Goto, R!tables, R!locks, R!stores
<1>9. CASE PairFails
  <2>1. /\ Place = "embed" /\ Place' = "unwind" /\ ctx' = ctx
        /\ stage = "pair" /\ stage' = "pair" /\ ~Removing /\ ~Removing'
      BY <1>9 DEF PairFails, Place, Removing
  <2>2. R!MayFail(Req, "ml")
      BY <1>9 DEF PairFails, R!MayFail, FaultsOfRequest
  <2> QED BY <2>1, <2>2, RestOfRequest
      DEF StepOfRequest, R!Fails, R!Goto, R!tables, R!locks, R!stores
<1>10. CASE Cancel
  <2>1. /\ ctx = "live" /\ ctx' = "cancelled" /\ UNCHANGED <<stage, Place, Removing>>
        /\ "cancel" \in FaultsOfRequest
      BY <1>10 DEF Cancel, request, objects, Place, Removing, FaultsOfRequest
  <2>2. Place \in R!Steps
      BY <1>10 DEF Cancel, Place, R!Steps
  <2> QED BY <2>1, <2>2, RestOfRequest
      DEF StepOfRequest, R!Cancel, R!tables, R!locks, R!stores
<1>11. CASE UNCHANGED vars
    BY <1>1, <1>11 DEF vars, Place, Removing
<1> QED BY <1>1, <1>2, <1>3, <1>4, <1>5, <1>6, <1>7, <1>8, <1>9, <1>10, <1>11
    DEF Next, Request

\* However the goroutines of a request's images run, fail, are cancelled and
\* are tried again, Registration sees one of the steps it takes for them: all
\* images are there with their embeddings, or the request is on its way back,
\* with the images it knows of in the hands of the removal or of Unwind; and it
\* never fails there without a fault or a client that went away.
THEOREM FanOutIsStepsOfRegistration == Spec => [][StepOfRequest]_(R!vars)
<1>1. Init => Prompted
    BY DEF Init, Prompted
<1>2. Spec => []Kept
  <2>1. Spec => []Written
      BY WrittenInit, WrittenStep, TypesHold, PTL DEF Spec
  <2> QED BY <2>1, KeptInit, KeptStep, TypesHold, PTL DEF Spec
<1>3. Types /\ Kept /\ Prompted /\ [Next]_vars => [StepOfRequest]_(R!vars)
    BY RequestStep
<1> QED BY <1>1, <1>2, <1>3, PromptedStep, TypesHold, PTL DEF Spec
=============================================================================
