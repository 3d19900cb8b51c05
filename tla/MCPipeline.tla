------------------------------- MODULE MCPipeline -------------------------------
(***************************************************************************)
(* Instances of Pipeline for TLC: which stages may raise, and how often.   *)
(***************************************************************************)
EXTENDS Pipeline, TLC

None == [s \in FaultPoints |-> 0]
Only(stages) == [s \in FaultPoints |-> IF s \in stages THEN 1 ELSE 0]

\* Each stage may raise once, the reviser too.
EachOnce == Only(FaultPoints)

\* The two stages that may stop half way through the claims.
LoopFaults == Only({"verify", "retrieve"})

\* The reviser alone, twice: the smallest outage that meets the ceiling.
ReviserTwice == [None EXCEPT !["revise"] = 2]

Symmetry == Permutations(ClaimId)
================================================================================
