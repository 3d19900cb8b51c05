------------------------------ MODULE MCAssessment ------------------------------
(***************************************************************************)
(* Instances of Assessment for TLC.                                        *)
(***************************************************************************)
EXTENDS Assessment

FreshClaim(kind, crit, cited) ==
    [kind |-> kind, crit |-> crit, cited |-> cited, entail |-> 0, contra |-> 0,
     verdict |-> "unverified", split |-> 0, risk |-> 0, level |-> "low"]

Critical == FreshClaim("checkable", 80, TRUE)

\* The first claim is critical and has passages; the others are like it, or
\* minor and without any, or creative.
SomeFresh ==
    LET Others == {Critical, FreshClaim("checkable", 40, FALSE),
                   FreshClaim("creative", 40, FALSE)}
    IN  {f \in [1 .. N -> Others] : N > 0 => f[1] = Critical}

\* Every claim shares an entity with all the claims before it.
Chain == [c \in 1 .. N |-> 1 .. (c - 1)]

\* escalation is the rule's 0.5 + 0.55 * risk; depth 0 takes an override.
Request(task, depth, risk, escalation, hollow) ==
    [task |-> task, depth |-> depth, risk |-> risk, escalation |-> escalation,
     confidence |-> 60, hollow |-> hollow, deps |-> Chain]

SomeRequests ==
    {Request("high_stakes", 2, 80, 94, FALSE), Request("high_stakes", 2, 20, 61, FALSE),
     Request("factual", 0, 20, 61, FALSE), Request("factual", 0, 20, 61, TRUE)}
================================================================================
