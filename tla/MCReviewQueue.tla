----------------------------- MODULE MCReviewQueue -----------------------------
(***************************************************************************)
(* Instances of ReviewQueue for TLC.                                       *)
(***************************************************************************)
EXTENDS ReviewQueue, TLC

CONSTANTS i1, i2, draft, w1, w2, withheld

\* One escalation and one high-stakes abstention.
BothOrigins == i1 :> "escalate" @@ i2 :> "abstain"
OneEscalation == i1 :> "escalate"
SameDraft == [i \in Item |-> draft]

Symmetry == Permutations(Call) \cup Permutations({w1, w2})
================================================================================
