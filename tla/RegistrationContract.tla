------------------------ MODULE RegistrationContract ------------------------
(***************************************************************************)
(* What registering a product promises, without transactions, locks, waits *)
(* or failures: a form takes effect at one moment, once and as a whole.    *)
(* Its category is there, its product's row is exactly what the form says, *)
(* and if it brought images its event is recorded, all in one step; and    *)
(* nothing that took effect is ever taken back.  That a form takes effect  *)
(* at all is NOT promised.                                                 *)
(***************************************************************************)
CONSTANTS
    Requests,
    Forms,      \* what may be asked: a product's name, its row, with or without images
    NoRow       \* the row of a product nobody registered

VARIABLES
    asked,      \* what each request asks for
    registered, \* the requests that took effect
    categories, \* the categories
    products,   \* the row of each product
    events      \* the requests whose event is recorded for the outbox

rvars == <<asked, registered, categories, products, events>>

Init ==
    /\ asked \in [Requests -> Forms]
    /\ registered = {}
    /\ categories = {}
    /\ products = [n \in {f.name : f \in Forms} |-> NoRow]
    /\ events = {}

Register(r) ==
    /\ r \notin registered
    /\ registered' = registered \cup {r}
    /\ categories' = categories \cup {asked[r].row.category}
    /\ products' = [products EXCEPT ![asked[r].name] = asked[r].row]
    /\ events' = IF asked[r].withImages THEN events \cup {r} ELSE events
    /\ UNCHANGED asked

Next == \E r \in Requests : Register(r)

Spec == Init /\ [][Next]_rvars
=============================================================================
