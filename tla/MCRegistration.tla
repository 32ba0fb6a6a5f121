--------------------------- MODULE MCRegistration ---------------------------
(* Instances of Registration for TLC. *)
EXTENDS Registration, TLC

CONSTANTS r1, r2, r3

\* Prices as decimals: 1, 1.0, 100.00 (the limit when MaxRoubles is 1).
Number(coef, exp) == [kind |-> "number", coef |-> coef, exp |-> exp]
NotNumber(kind) == [kind |-> kind, coef |-> 0, exp |-> 0]

Files(n) == [count |-> n, worst |-> "ok"]

Form(n, c, p, f) ==
    [body |-> "multipart", name |-> n, category |-> c, price |-> p, files |-> f]

Forms(names, categories, prices, files) ==
    {Form(n, c, p, f) : n \in names, c \in categories, p \in prices, f \in files}

Plain == Form("p", "c", Number(1, 0), Files(0))

\* One form for each check that may refuse it, and some that fail two of them.
BadForms ==
    {[Plain EXCEPT !.body = b] : b \in {"other", "broken"}}
    \cup {[Plain EXCEPT !.name = n] : n \in Blank}
    \cup {[Plain EXCEPT !.price = p] : p \in
            {NotNumber(" "), NotNumber("words"), Number(-1, 0), Number(0, 0),
             Number(10001, -2), Number(1005, -3)}}
    \cup {[Plain EXCEPT !.files = f] : f \in
            {Files(11), [count |-> 2, worst |-> "large"], [count |-> 1, worst |-> "unreadable"]}}
    \cup {[Plain EXCEPT !.name = " ", !.price = Number(100001, -3)]}

\* One product, asked for with another category or another price, with and
\* without images; its price written in another way; and what is refused.
OneProduct ==
    Forms({"p"}, {"c", "d"}, {Number(1, 0)}, {Files(0), Files(1)})
    \cup Forms({"p"}, {"c"}, {Number(10000, -2)}, {Files(0), Files(1)})
    \cup {Form("p", "c", Number(10, -1), Files(0))}
    \cup BadForms

\* One product at one price, without images.
NoImages == {Plain}

NoFault == {}
AllButQdrant == FaultClasses \ {"qdrant"}

RequestSymmetry == Permutations(Requests)
=============================================================================
