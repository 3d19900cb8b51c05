------------------------------- MODULE GraphFlow -------------------------------
(***************************************************************************)
(* What orchestration/graph.py promises about the order of the stages: the *)
(* LangGraph state machine the repository documents.  A request walks the  *)
(* nodes along the declared edges; the only choice is the conditional edge *)
(* after "creativity", and the only way on from "revise" is back through   *)
(* "decompose".  orchestration/pipeline.py, the code that serves requests, *)
(* unrolls this graph by hand; module Pipeline is that unrolling and is    *)
(* shown to implement this module.                                         *)
(***************************************************************************)
EXTENDS Naturals

CONSTANT MaxRevisionLoops   \* settings.max_revision_loops

VARIABLES
    node,     \* the node the graph executes next, "END", or "failed"
    loops     \* state.revision_loops

vars == <<node, loops>>

\* The unconditional edges of build_graph, "revise" -> "decompose" apart.
Edges ==
    { <<"intent", "risk">>, <<"risk", "policy">>, <<"policy", "pre_retrieve">>,
      <<"pre_retrieve", "generate">>, <<"generate", "decompose">>,
      <<"decompose", "retrieve">>, <<"retrieve", "verify">>,
      <<"verify", "risk_scoring">>, <<"risk_scoring", "creativity">>,
      <<"decide", "finalize">>, <<"finalize", "END">> }

Init ==
    /\ node = "intent"
    /\ loops = 0

Follow ==
    /\ <<node, node'>> \in Edges
    /\ UNCHANGED loops

\* needs_revision: it may ask for a revision only below the limit.
Branch ==
    /\ node = "creativity"
    /\ \/ node' = "revise" /\ loops < MaxRevisionLoops
       \/ node' = "decide"
    /\ UNCHANGED loops

\* The reviser counts its attempt unless its model call raised.
Revise ==
    /\ node = "revise"
    /\ node' = "decompose"
    /\ loops' \in {loops, loops + 1}

\* The two nodes that no Agent.run wraps end the request with an exception.
Raise ==
    /\ node \in {"pre_retrieve", "risk_scoring"}
    /\ node' = "failed"
    /\ UNCHANGED loops

Next == Follow \/ Branch \/ Revise \/ Raise

Spec == Init /\ [][Next]_vars
================================================================================
