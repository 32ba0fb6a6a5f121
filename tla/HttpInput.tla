----------------------------- MODULE HttpInput -----------------------------
(***************************************************************************)
(* What registerNewProduct does with a request before and after the use    *)
(* case: the checks of the form in the order the code makes them, the      *)
(* price as shopspring's decimal reads it, and the status of each error    *)
(* (internal/delivery/v1/http, and validateProduct of the use case).       *)
(*                                                                         *)
(* A price is a decimal as the library keeps it: coef * 10^exp.  A text    *)
(* that is no number has another kind.                                     *)
(***************************************************************************)
EXTENDS Integers, Sequences, FiniteSetsExt

CONSTANT MaxRoubles     \* the 1_000_000_000 of parsePriceToCents

ASSUME MaxRoublesAssumption == MaxRoubles \in Nat \ {0}

MaxImageCount == 10

\* What strings.TrimSpace leaves nothing of.
Blank == {"", " "}

\* A power of ten, as the library rescales a coefficient.
TenTo[n \in Nat] == IF n = 0 THEN 1 ELSE 10 * TenTo[n - 1]

\* p is more than n: cmp of two decimals.
Exceeds(p, n) ==
    IF p.exp >= 0 THEN p.coef * TenTo[p.exp] > n ELSE p.coef > n * TenTo[-p.exp]

\* Mul(100).Round(0).IntPart(): halves are rounded away from zero.
Kopecks(p) ==
    IF p.exp >= -2 THEN p.coef * TenTo[p.exp + 2]
    ELSE LET unit == TenTo[-2 - p.exp] IN (2 * p.coef + unit) \div (2 * unit)

\* p is worth exactly n kopecks, with no rounding.
Worth(p, n) ==
    IF p.exp >= 0 THEN n = 100 * p.coef * TenTo[p.exp] ELSE n * TenTo[-p.exp] = 100 * p.coef

Check(failed, error) == [failed |-> failed, error |-> error]

FormChecks(f) == <<
    Check(f.body = "other", "ErrExpectedMultipart"),
    Check(f.body = "broken", "multipart error"),
    Check(f.name = "" \/ f.category = "" \/ f.price.kind = "", "ErrMissingFields") >>

\* Mutant of PriceChecks: any number of decimal places is accepted.
PriceChecksImprecise(p) == <<
    Check(p.kind = " ", "price is empty"),
    Check(p.kind # "number" \/ p.coef < 0, "ErrInvalidPrice"),
    Check(Exceeds(p, MaxRoubles * 100), "ErrInvalidPrice") >>

\* The limit is in kopecks and the price in roubles.
PriceChecks(p) == <<
    Check(p.kind = " ", "price is empty"),
    Check(p.kind # "number" \/ p.coef < 0, "ErrInvalidPrice"),
    Check(Exceeds(p, MaxRoubles * 100), "ErrInvalidPrice"),
    Check(p.exp < -2, "ErrPricePrecision") >>

\* ErrNoImages is tolerated by both who ask.
ImageChecks(files) == <<
    Check(files.count > MaxImageCount, "ErrTooManyImages"),
    Check(files.worst = "unreadable", "ErrInternalServerError"),
    Check(files.worst = "large", "ErrFileTooLarge") >>

\* validateProduct, before anything is begun.
ProductChecks(f) == <<
    Check(f.name \in Blank, "ErrProductNameRequired"),
    Check(f.price.coef <= 0, "ErrPriceMustBePositive") >>

Checks(f) == FormChecks(f) \o PriceChecks(f.price) \o ImageChecks(f.files) \o ProductChecks(f)

\* The error that ends a request before the transaction, or "none".
Refusal(f) ==
    LET checks  == Checks(f)
        failing == {i \in DOMAIN checks : checks[i].failed}
    IN  IF failing = {} THEN "none" ELSE checks[Min(failing)].error

\* The errors ToHTTPResponse knows; ErrNoImages never reaches it.
BadRequests == {"ErrStatusBadRequest", "ErrExpectedMultipart", "ErrMissingFields",
                "ErrInvalidPrice", "ErrPricePrecision", "ErrTooManyImages",
                "ErrNoImages", "ErrNoChanges", "ErrUnsupportedMediaType"}

Status(error) == IF error \in BadRequests THEN 400 ELSE 500
=============================================================================
