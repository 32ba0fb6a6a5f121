-------------------------- MODULE HttpInputProofs --------------------------
(***************************************************************************)
(* Proofs about HttpInput: what the checks of a form let through, for any  *)
(* form and any limit.                                                     *)
(*                                                                         *)
(* The power of ten is a recursive function, and the equation it is meant  *)
(* to satisfy has to be proved before it can be used: that some function   *)
(* on Nat satisfies it.  The induction for this is that of a set of        *)
(* numbers which has 0 and the successor of each of its members.           *)
(***************************************************************************)
EXTENDS HttpInput, SequenceTheorems, WellFoundedInduction, TLAPS

-----------------------------------------------------------------------------
(* The power of ten. *)

\* A non-empty set of numbers has a least one.
LEMMA HasLeast ==
    ASSUME NEW S \in SUBSET Nat, S # {}
    PROVE  \E x \in S : \A y \in S : x <= y
<1> DEFINE R == {ss \in Nat \X Nat : ss[1] < ss[2]}
<1>1. IsWellFoundedOn(R, Nat)
    BY NatLessThanWellFounded DEF OpToRel
<1> HIDE DEF R
<1>2. PICK x \in S : \A y \in S : ~(<<y, x>> \in R)
    BY <1>1, WFMin
<1>3. \A y \in S : ~(y < x)
    BY <1>2 DEF R
<1> QED
    BY <1>3

\* Induction, for a set of numbers.
LEMMA SetInduction ==
    ASSUME NEW S, 0 \in S, \A n \in Nat : n \in S => n + 1 \in S
    PROVE  Nat \subseteq S
<1> SUFFICES ASSUME Nat \ S # {}
             PROVE  FALSE
    OBVIOUS
<1>1. PICK x \in Nat \ S : \A y \in Nat \ S : x <= y
    BY HasLeast
<1>2. x # 0 /\ x - 1 \in Nat \ S
    BY <1>1
<1> QED
    BY <1>1, <1>2

\* g has the powers of ten up to n.
PowersUpTo(n) ==
    {g \in [0 .. n -> Nat] : g[0] = 1 /\ \A k \in 1 .. n : g[k] = 10 * g[k - 1]}

\* There is such a table for every n,
LEMMA PowersExist == \A n \in Nat : PowersUpTo(n) # {}
<1> DEFINE S == {n \in Nat : PowersUpTo(n) # {}}
<1>1. 0 \in S
    <2>1. [k \in 0 .. 0 |-> 1] \in PowersUpTo(0)
        BY DEF PowersUpTo
    <2> QED
        BY <2>1
<1>2. ASSUME NEW n \in Nat, n \in S PROVE n + 1 \in S
    <2>1. PICK g : g \in PowersUpTo(n)
        BY <1>2
    <2> DEFINE h == [k \in 0 .. n + 1 |-> IF k = n + 1 THEN 10 * g[n] ELSE g[k]]
    <2>2. g \in [0 .. n -> Nat] /\ g[0] = 1 /\ \A k \in 1 .. n : g[k] = 10 * g[k - 1]
        BY <2>1 DEF PowersUpTo
    <2>3. h \in [0 .. n + 1 -> Nat]
        BY <2>2
    <2>4. h[0] = 1
        BY <2>2
    <2>5. ASSUME NEW k \in 1 .. n + 1 PROVE h[k] = 10 * h[k - 1]
        BY <2>2, <2>5
    <2>6. h \in PowersUpTo(n + 1)
        BY <2>3, <2>4, <2>5 DEF PowersUpTo
    <2> QED
        BY <2>6
<1> HIDE DEF S
<1>3. Nat \subseteq S
    BY <1>1, <1>2, SetInduction
<1> QED
    BY <1>3 DEF S

\* and all tables agree where they are defined.
LEMMA PowersAgree ==
    ASSUME NEW m \in Nat, NEW n \in Nat, NEW g \in PowersUpTo(m), NEW h \in PowersUpTo(n),
           NEW k \in Nat, k <= m, k <= n
    PROVE  g[k] = h[k]
<1> DEFINE S == {i \in Nat : i <= m /\ i <= n => g[i] = h[i]}
<1>1. 0 \in S
    BY DEF PowersUpTo
<1>2. ASSUME NEW i \in Nat, i \in S PROVE i + 1 \in S
    <2> SUFFICES ASSUME i + 1 <= m, i + 1 <= n
                 PROVE  g[i + 1] = h[i + 1]
        OBVIOUS
    <2>1. g[i] = h[i]
        BY <1>2
    <2>2. i + 1 \in 1 .. m /\ i + 1 \in 1 .. n /\ (i + 1) - 1 = i
        OBVIOUS
    <2>3. g[i + 1] = 10 * g[(i + 1) - 1]
        BY <2>2 DEF PowersUpTo
    <2>4. h[i + 1] = 10 * h[(i + 1) - 1]
        BY <2>2 DEF PowersUpTo
    <2> QED
        BY <2>1, <2>2, <2>3, <2>4
<1> HIDE DEF S
<1>3. Nat \subseteq S
    BY <1>1, <1>2, SetInduction
<1> QED
    BY <1>3 DEF S

\* The equation that defines TenTo has a solution, so TenTo is one.
THEOREM TenToIsDefined ==
    /\ TenTo \in [Nat -> Nat]
    /\ TenTo[0] = 1
    /\ \A n \in Nat : TenTo[n + 1] = 10 * TenTo[n]
<1> DEFINE table(n) == CHOOSE g : g \in PowersUpTo(n)
           f == [n \in Nat |-> table(n)[n]]
           Solves(h) == h = [n \in Nat |-> IF n = 0 THEN 1 ELSE 10 * h[n - 1]]
<1>1. \A n \in Nat : table(n) \in PowersUpTo(n)
    BY PowersExist
<1> HIDE DEF table
<1>2. ASSUME NEW n \in Nat PROVE f[n] \in Nat /\ f[n] = table(n)[n]
    BY <1>1 DEF PowersUpTo
<1>3. f[0] = 1
    BY <1>1, <1>2 DEF PowersUpTo
<1>4. ASSUME NEW n \in Nat \ {0} PROVE f[n] = 10 * f[n - 1]
    <2>1. n - 1 \in Nat /\ n - 1 <= n /\ n \in 1 .. n
        OBVIOUS
    <2>2. table(n)[n] = 10 * table(n)[n - 1]
        BY <1>1, <2>1 DEF PowersUpTo
    <2>3. table(n)[n - 1] = table(n - 1)[n - 1]
        BY <1>1, <2>1, PowersAgree
    <2> QED
        BY <1>2, <2>1, <2>2, <2>3
<1>5. f \in [Nat -> Nat]
    BY <1>2
<1> HIDE DEF f
<1>6. \A n \in Nat : f[n] = IF n = 0 THEN 1 ELSE 10 * f[n - 1]
    BY <1>3, <1>4
<1>7. Solves(f)
    BY <1>5, <1>6
<1>8. TenTo = CHOOSE h : Solves(h)
    BY DEF TenTo
<1>9. Solves(TenTo)
    BY <1>7, <1>8
<1>10. \A n \in Nat : TenTo[n] = IF n = 0 THEN 1 ELSE 10 * TenTo[n - 1]
    BY <1>9
<1>11. TenTo[0] = 1 /\ \A n \in Nat : TenTo[n + 1] = 10 * TenTo[n]
    BY <1>10
<1>12. \A n \in Nat : TenTo[n] \in Nat
    <2> DEFINE S == {n \in Nat : TenTo[n] \in Nat}
    <2>1. 0 \in S
        BY <1>11
    <2>2. ASSUME NEW n \in Nat, n \in S PROVE n + 1 \in S
        BY <1>11, <2>2
    <2> HIDE DEF S
    <2>3. Nat \subseteq S
        BY <2>1, <2>2, SetInduction
    <2> QED
        BY <2>3 DEF S
<1>13. TenTo \in [Nat -> Nat]
    <2>1. TenTo = [n \in Nat |-> TenTo[n]]
        BY <1>9
    <2> QED
        BY <1>12, <2>1
<1> QED
    BY <1>11, <1>13

\* Multiplying by a hundred adds two places; the first powers.
LEMMA TenToFacts ==
    /\ \A n \in Nat : TenTo[n] \in Nat \ {0} /\ TenTo[n + 2] = 100 * TenTo[n]
    /\ TenTo[0] = 1 /\ TenTo[1] = 10 /\ TenTo[2] = 100
<1>1. ASSUME NEW n \in Nat PROVE TenTo[n + 2] = 100 * TenTo[n]
    <2>1. TenTo[n] \in Nat /\ TenTo[n + 1] = 10 * TenTo[n]
        BY TenToIsDefined
    <2>2. TenTo[(n + 1) + 1] = 10 * TenTo[n + 1] /\ (n + 1) + 1 = n + 2
        BY TenToIsDefined
    <2> QED
        BY <2>1, <2>2
<1>2. TenTo[0] = 1 /\ TenTo[0 + 1] = 10 * TenTo[0] /\ TenTo[1 + 1] = 10 * TenTo[1]
    BY TenToIsDefined
<1>3. \A n \in Nat : TenTo[n] # 0
    <2> DEFINE S == {n \in Nat : TenTo[n] # 0}
    <2>1. 0 \in S
        BY TenToIsDefined
    <2>2. ASSUME NEW n \in Nat, n \in S PROVE n + 1 \in S
        BY <2>2, TenToIsDefined
    <2> HIDE DEF S
    <2>3. Nat \subseteq S
        BY <2>1, <2>2, SetInduction
    <2> QED
        BY <2>3 DEF S
<1>4. TenTo[0] = 1 /\ TenTo[1] = 10 /\ TenTo[2] = 100
    BY <1>2
<1>5. \A n \in Nat : TenTo[n] \in Nat
    BY TenToIsDefined
<1> QED
    BY <1>1, <1>3, <1>4, <1>5

-----------------------------------------------------------------------------
(* The checks of a form. *)

\* Two lists that are joined: the length, the first entries and the last.
LEMMA JoinedLen ==
    ASSUME NEW X, NEW s \in Seq(X), NEW t \in Seq(X)
    PROVE  s \o t \in Seq(X) /\ Len(s \o t) = Len(s) + Len(t)
BY ConcatProperties

LEMMA JoinedFirst ==
    ASSUME NEW X, NEW s \in Seq(X), NEW t \in Seq(X), NEW i \in 1 .. Len(s)
    PROVE  (s \o t)[i] = s[i]
<1>1. i \in 1 .. Len(s) + Len(t) /\ i <= Len(s)
    BY LenProperties
<1> QED
    BY <1>1, ConcatProperties, Zenon

LEMMA JoinedLast ==
    ASSUME NEW X, NEW s \in Seq(X), NEW t \in Seq(X), NEW i \in 1 .. Len(t)
    PROVE  (s \o t)[Len(s) + i] = t[i]
<1>1. /\ Len(s) + i \in 1 .. Len(s) + Len(t) /\ ~(Len(s) + i <= Len(s))
      /\ Len(s) + i - Len(s) = i
    BY LenProperties
<1>2. \A k \in 1 .. Len(s) + Len(t) : (s \o t)[k] = IF k <= Len(s) THEN s[k] ELSE t[k - Len(s)]
    BY ConcatProperties
<1> QED
    BY <1>1, <1>2

\* The checks one by one, in the order in which the code makes them.
LEMMA TwelveChecks ==
    ASSUME NEW f
    PROVE  /\ DOMAIN Checks(f) = 1 .. 12
           /\ Checks(f)[5] = PriceChecks(f.price)[2]
           /\ Checks(f)[6] = PriceChecks(f.price)[3]
           /\ Checks(f)[7] = PriceChecks(f.price)[4]
           /\ Checks(f)[12] = ProductChecks(f)[2]
           /\ \A i \in 1 .. 12 : Checks(f)[i].error # "none"
<1> DEFINE a1 == Check(f.body = "other", "ErrExpectedMultipart")
           a2 == Check(f.body = "broken", "multipart error")
           a3 == Check(f.name = "" \/ f.category = "" \/ f.price.kind = "", "ErrMissingFields")
           b1 == Check(f.price.kind = " ", "price is empty")
           b2 == Check(f.price.kind # "number" \/ f.price.coef < 0, "ErrInvalidPrice")
           b3 == Check(Exceeds(f.price, MaxRoubles * 100), "ErrInvalidPrice")
           b4 == Check(f.price.exp < -2, "ErrPricePrecision")
           c1 == Check(f.files.count > MaxImageCount, "ErrTooManyImages")
           c2 == Check(f.files.worst = "unreadable", "ErrInternalServerError")
           c3 == Check(f.files.worst = "large", "ErrFileTooLarge")
           d1 == Check(f.name \in Blank, "ErrProductNameRequired")
           d2 == Check(f.price.coef <= 0, "ErrPriceMustBePositive")
<1>1. /\ FormChecks(f) = <<a1, a2, a3>>
      /\ PriceChecks(f.price) = <<b1, b2, b3, b4>>
      /\ ImageChecks(f.files) = <<c1, c2, c3>>
      /\ ProductChecks(f) = <<d1, d2>>
    BY Zenon DEF FormChecks, PriceChecks, ImageChecks, ProductChecks
<1>2. /\ a1.error # "none" /\ a2.error # "none" /\ a3.error # "none"
      /\ b1.error # "none" /\ b2.error # "none" /\ b3.error # "none" /\ b4.error # "none"
      /\ c1.error # "none" /\ c2.error # "none" /\ c3.error # "none"
      /\ d1.error # "none" /\ d2.error # "none"
    BY Zenon DEF Check
<1> HIDE DEF a1, a2, a3, b1, b2, b3, b4, c1, c2, c3, d1, d2
<1> DEFINE X == {a1, a2, a3, b1, b2, b3, b4, c1, c2, c3, d1, d2}
           F == FormChecks(f)
           P == PriceChecks(f.price)
           I == ImageChecks(f.files)
           U == ProductChecks(f)
<1>3. F \in Seq(X) /\ P \in Seq(X) /\ I \in Seq(X) /\ U \in Seq(X)
    BY <1>1
<1>4. Len(F) = 3 /\ Len(P) = 4 /\ Len(I) = 3 /\ Len(U) = 2
    BY <1>1
<1>5. \A x \in X : x.error # "none"
    BY <1>2
<1> HIDE DEF X, F, P, I, U
<1> DEFINE FP == F \o P
           FPI == FP \o I
<1> HIDE DEF FP, FPI
<1>6. FP \in Seq(X) /\ Len(FP) = 7 /\ FP[5] = P[2] /\ FP[6] = P[3] /\ FP[7] = P[4]
    <2>1. FP \in Seq(X) /\ Len(FP) = Len(F) + Len(P)
        BY <1>3, JoinedLen DEF FP
    <2>2. ASSUME NEW i \in 1 .. Len(P) PROVE FP[Len(F) + i] = P[i]
        BY <1>3, JoinedLast, Zenon DEF FP
    <2> QED
        BY <1>4, <2>1, <2>2
<1>7. FPI \in Seq(X) /\ Len(FPI) = 10 /\ \A i \in 1 .. 7 : FPI[i] = FP[i]
    <2>1. FPI \in Seq(X) /\ Len(FPI) = Len(FP) + Len(I)
        BY <1>3, <1>6, JoinedLen DEF FPI
    <2>2. ASSUME NEW i \in 1 .. Len(FP) PROVE FPI[i] = FP[i]
        BY <1>3, <1>6, JoinedFirst, Zenon DEF FPI
    <2> QED
        BY <1>4, <1>6, <2>1, <2>2
<1> DEFINE all == FPI \o U
<1> HIDE DEF all
<1>8. /\ all \in Seq(X) /\ Len(all) = 12
      /\ \A i \in 1 .. 7 : all[i] = FPI[i]
      /\ all[12] = U[2]
    <2>1. all \in Seq(X) /\ Len(all) = Len(FPI) + Len(U)
        BY <1>3, <1>7, JoinedLen DEF all
    <2>2. ASSUME NEW i \in 1 .. Len(FPI) PROVE all[i] = FPI[i]
        BY <1>3, <1>7, JoinedFirst, Zenon DEF all
    <2>3. ASSUME NEW i \in 1 .. Len(U) PROVE all[Len(FPI) + i] = U[i]
        <3>1. FPI \in Seq(X) /\ U \in Seq(X)
            BY <1>3, <1>7
        <3> QED
            BY <3>1, JoinedLast, Zenon DEF all
    <2> QED
        BY <1>4, <1>7, <2>1, <2>2, <2>3
<1>9. Checks(f) = all
    BY Zenon DEF Checks, F, P, I, U, FP, FPI, all
<1>10. DOMAIN Checks(f) = 1 .. 12 /\ \A i \in 1 .. 12 : Checks(f)[i].error # "none"
    <2>1. Checks(f) \in Seq(X) /\ Len(Checks(f)) = 12
        BY <1>8, <1>9
    <2>2. DOMAIN Checks(f) = 1 .. 12
        BY <2>1
    <2>3. \A i \in 1 .. 12 : Checks(f)[i] \in X
        BY <2>1, ElementOfSeq
    <2> QED
        BY <1>5, <2>2, <2>3
<1>11. /\ Checks(f)[5] = P[2] /\ Checks(f)[6] = P[3] /\ Checks(f)[7] = P[4]
       /\ Checks(f)[12] = U[2]
    <2>1. \A i \in 1 .. 7 : Checks(f)[i] = FP[i]
        BY <1>7, <1>8, <1>9
    <2>2. 5 \in 1 .. 7 /\ 6 \in 1 .. 7 /\ 7 \in 1 .. 7
        OBVIOUS
    <2> QED
        BY <1>6, <1>8, <1>9, <2>1, <2>2
<1> QED
    BY <1>10, <1>11, Zenon DEF P, U

\* A form that is not refused fails none of the checks.
LEMMA NothingFailed ==
    ASSUME NEW f, Refusal(f) = "none"
    PROVE  \A i \in 1 .. 12 : ~Checks(f)[i].failed
<1> DEFINE failing == {i \in DOMAIN Checks(f) : Checks(f)[i].failed}
<1> SUFFICES ASSUME failing # {}
             PROVE  FALSE
    BY TwelveChecks
<1>1. failing \subseteq 1 .. 12
    BY TwelveChecks
<1>2. PICK x \in failing : \A y \in failing : x <= y
    BY <1>1, HasLeast
<1>3. Min(failing) \in failing
    BY <1>2 DEF Min
<1>4. Refusal(f) = Checks(f)[Min(failing)].error
    BY DEF Refusal
<1> QED
    BY <1>1, <1>3, <1>4, TwelveChecks

\* So its price is a positive number within the limit and with at most two
\* decimal places.
LEMMA AcceptedPrice ==
    ASSUME NEW f, Refusal(f) = "none", f.price.coef \in Int, f.price.exp \in Int
    PROVE  /\ f.price.kind = "number" /\ f.price.coef > 0 /\ f.price.exp >= -2
           /\ ~Exceeds(f.price, MaxRoubles * 100)
<1>0. \A i \in 1 .. 12 : ~Checks(f)[i].failed
    BY NothingFailed
<1>1. /\ ~PriceChecks(f.price)[2].failed /\ ~PriceChecks(f.price)[3].failed
      /\ ~PriceChecks(f.price)[4].failed /\ ~ProductChecks(f)[2].failed
    <2>1. 5 \in 1 .. 12 /\ 6 \in 1 .. 12 /\ 7 \in 1 .. 12 /\ 12 \in 1 .. 12
        OBVIOUS
    <2>2. ~Checks(f)[5].failed /\ ~Checks(f)[6].failed /\ ~Checks(f)[7].failed /\ ~Checks(f)[12].failed
        BY <1>0, <2>1, Zenon
    <2> QED
        BY <2>2, TwelveChecks, Zenon
<1>2. f.price.kind = "number"
    BY <1>1 DEF PriceChecks, Check
<1>3. ~Exceeds(f.price, MaxRoubles * 100)
    BY <1>1 DEF PriceChecks, Check
<1>4. ~(f.price.exp < -2)
    BY <1>1 DEF PriceChecks, Check
<1>5. ~(f.price.coef <= 0)
    BY <1>1 DEF ProductChecks, Check
<1> QED
    BY <1>2, <1>3, <1>4, <1>5

\* What registerNewProduct lets through is stored to the kopeck: the product
\* with 100 and its rounding lose nothing of a price the checks accept, and
\* the amount is positive and at most a hundred times the limit in kopecks
\* (parsePriceToCents compares roubles with kopecks).
THEOREM AcceptedPriceIsExact ==
    ASSUME NEW f, Refusal(f) = "none", f.price.coef \in Int, f.price.exp \in Int
    PROVE  /\ f.price.kind = "number"
           /\ Kopecks(f.price) \in 1 .. 100 * (100 * MaxRoubles)
           /\ Worth(f.price, Kopecks(f.price))
<1> DEFINE c == f.price.coef
           e == f.price.exp
           limit == MaxRoubles * 100
<1>1. f.price.kind = "number" /\ c > 0 /\ e >= -2 /\ ~Exceeds(f.price, limit)
    BY AcceptedPrice
<1>2. c \in Nat \ {0} /\ e \in Int /\ limit \in Nat
    BY <1>1, MaxRoublesAssumption
<1>3. Kopecks(f.price) = c * TenTo[e + 2]
    BY <1>1, Zenon DEF Kopecks
<1>4. CASE e >= 0
    <2>1. e \in Nat /\ TenTo[e] \in Nat \ {0} /\ TenTo[e + 2] = 100 * TenTo[e]
        BY <1>2, <1>4, TenToFacts
    <2>2. ~(c * TenTo[e] > limit)
        BY <1>1, <1>4, Zenon DEF Exceeds
    <2> DEFINE t == TenTo[e]
    <2>3. t \in Nat \ {0} /\ Kopecks(f.price) = c * (100 * t) /\ ~(c * t > limit)
        BY <1>3, <2>1, <2>2
    <2>4. Worth(f.price, Kopecks(f.price)) <=> Kopecks(f.price) = 100 * c * t
        BY <1>4, Zenon DEF Worth
    <2> HIDE DEF c, e, t, limit
    <2>5. c * t \in Nat \ {0} /\ c * (100 * t) = 100 * (c * t) /\ 100 * c * t = 100 * (c * t)
        BY <1>2, <2>3
    <2>6. Kopecks(f.price) \in 1 .. 100 * limit
        BY <1>2, <2>3, <2>5
    <2> QED
        BY <1>1, <2>3, <2>4, <2>5, <2>6, MaxRoublesAssumption DEF limit
<1>5. CASE e = -1
    <2>1. Kopecks(f.price) = c * 10
        BY <1>2, <1>3, <1>5, TenToFacts
    <2>2. ~(c > limit * 10)
        BY <1>1, <1>5, TenToFacts DEF Exceeds
    <2>3. Worth(f.price, Kopecks(f.price)) <=> Kopecks(f.price) * 10 = 100 * c
        BY <1>5, TenToFacts DEF Worth
    <2> HIDE DEF c, e
    <2> QED
        BY <1>1, <1>2, <2>1, <2>2, <2>3, MaxRoublesAssumption
<1>6. CASE e = -2
    <2>1. Kopecks(f.price) = c
        BY <1>2, <1>3, <1>6, TenToFacts
    <2>2. ~(c > limit * 100)
        BY <1>1, <1>6, TenToFacts DEF Exceeds
    <2>3. Worth(f.price, Kopecks(f.price)) <=> Kopecks(f.price) * 100 = 100 * c
        BY <1>6, TenToFacts DEF Worth
    <2> HIDE DEF c, e
    <2> QED
        BY <1>1, <1>2, <2>1, <2>2, <2>3, MaxRoublesAssumption
<1> QED
    BY <1>1, <1>2, <1>4, <1>5, <1>6
=============================================================================
