----------------------------- MODULE MCServing -----------------------------
(* Small instances of Serving: a request that works in a thread, one that may *)
(* make the loop wait, and an evaluation.                                     *)
EXTENDS Serving

CONSTANTS g1, g2, e1

By(route, credential) == [route |-> route, credential |-> credential]

\* Requests by key count against the limit and query on the loop; those by
\* token reach the pool from a thread.
SomeLoads ==
    {[r \in Request |-> CASE r = g1 -> By("generate", "token")
                          [] r = g2 -> By("read", "key")
                          [] r = e1 -> By("eval", "key")],
     [r \in Request |-> CASE r = g1 -> By("generate", "key")
                          [] r = g2 -> By("ready", "none")
                          [] r = e1 -> By("eval", "token")],
     [r \in Request |-> CASE r = g1 -> By("generate", "key")
                          [] r = g2 -> By("read", "token")
                          [] r = e1 -> By("ready", "none")]}
=============================================================================
