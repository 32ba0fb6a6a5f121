----------------------------- MODULE MCPipeline -----------------------------
(* Instances of Pipeline for TLC. *)
EXTENDS Pipeline, MCRegistration

\* Two products in two categories at one price, with images; one of them once
\* more without images, and once with more images than a form may bring.  Up to
\* the names these three forms with images are any three of the four there are.
FormsInOrder == <<
    Form("p", "c", Number(1, 0), Files(10)),
    Form("p", "d", Number(1, 0), Files(10)),
    Form("q", "c", Number(1, 0), Files(10)),
    Form("p", "c", Number(1, 0), Files(0)),
    Form("p", "c", Number(1, 0), Files(11)) >>

Crossed == Range(FormsInOrder)

\* The requests differ only in the forms they bring, so that which of them
\* brings which does not matter: they bring them in this order.
InOrder ==
    \E i, j, k \in DOMAIN FormsInOrder :
        /\ i <= j /\ j <= k
        /\ input = r1 :> FormsInOrder[i] @@ r2 :> FormsInOrder[j] @@ r3 :> FormsInOrder[k]

OrderedInit == PipelineInit /\ InOrder

OrderedSpec == OrderedInit /\ [][PipelineNext]_pvars /\ Fairness
=============================================================================
