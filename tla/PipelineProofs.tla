----------------------------- MODULE PipelineProofs -----------------------------
(***************************************************************************)
(* Theorems about Pipeline, for every set of claims, every limit on the    *)
(* revision loop and every budget of exceptions.                           *)
(***************************************************************************)
EXTENDS Pipeline, Integers, TLAPS

--------------------------------------------------------------------------------
\* Lemmas about the claim graph

\* A function over the claims of a graph, with claims as values, is a claim
\* graph: rewriting the claims one by one leaves one.
LEMMA GraphUpdate ==
    ASSUME NEW g \in ClaimGraph, NEW h,
           h = [c \in DOMAIN g |-> h[c]],
           \A c \in DOMAIN g : h[c] \in Claim
    PROVE  h \in ClaimGraph
  <1>1. PICK S \in SUBSET ClaimId : g \in [S -> Claim]
    BY DEF ClaimGraph
  <1>2. DOMAIN g = S
    BY <1>1
  <1>3. h \in [S -> Claim]
    BY <1>2
  <1>4. QED
    BY <1>3 DEF ClaimGraph

\* The claims of a graph are claims.
LEMMA GraphRange ==
    ASSUME NEW g \in ClaimGraph, NEW c \in DOMAIN g
    PROVE  g[c] \in Claim
  BY DEF ClaimGraph

\* What the decomposer creates are claims, none of them scored.
LEMMA FreshIsClaim == FreshClaims \subseteq Claim
  <1>1. SUFFICES ASSUME NEW k \in {"checkable", "creative", "opinion"}, NEW b \in BOOLEAN
                 PROVE  FreshClaim(k, b) \in Claim
    BY DEF FreshClaims
  <1>2. QED
    BY DEF FreshClaim, Claim, Verdicts, Contras

LEMMA FreshGraph ==
    ASSUME NEW S \in SUBSET ClaimId, NEW g \in [S -> FreshClaims]
    PROVE  g \in ClaimGraph
  BY FreshIsClaim DEF ClaimGraph

--------------------------------------------------------------------------------
\* Type correctness

LEMMA InitType == Init => TypeOK
  <1>1. SUFFICES ASSUME Init PROVE TypeOK
    OBVIOUS
  <1>2. claims \in ClaimGraph
    <2>1. NoClaims \in [{} -> Claim]
      BY DEF NoClaims
    <2>2. {} \in SUBSET ClaimId
      OBVIOUS
    <2>3. NoClaims \in ClaimGraph
      BY <2>1, <2>2 DEF ClaimGraph
    <2>4. QED
      BY <1>1, <2>3 DEF Init
  <1>3. QED
    BY <1>1, <1>2 DEF Init, TypeOK, TaskTypes, Draft, NothingStored, Actions

\* An exception is counted in a natural number.
LEMMA RaisesType ==
    ASSUME TypeOK, NEW s \in FaultPoints, Raises(s)
    PROVE  faults' \in [FaultPoints -> Nat]
  <1>1. faults \in [FaultPoints -> Nat]
    BY DEF TypeOK
  <1>2. faults[s] + 1 \in Nat
    BY <1>1
  <1>3. QED
    BY <1>1, <1>2 DEF Raises

\* Giving claims their passages leaves a claim graph.
LEMMA CiteType ==
    ASSUME TypeOK, NEW reached, NEW found
    PROVE  Cite(reached, found) \in ClaimGraph
  <1>1. ASSUME NEW c \in Ids PROVE Cite(reached, found)[c] \in Claim
    <2>1. claims[c] \in Claim
      BY GraphRange DEF TypeOK, Ids
    <2>2. (c \in found) \in BOOLEAN
      OBVIOUS
    <2>3. QED
      BY <2>1, <2>2 DEF Cite, Claim
  <1>2. QED
    BY <1>1, GraphUpdate DEF TypeOK, Cite, Ids

\* Whatever text a draft holds, it is a draft.
LEMMA DraftType ==
    ASSUME NEW t \in {"degenerate", "substantive"}
    PROVE  /\ [text |-> t, author |-> "generator"] \in Draft
           /\ [text |-> t, author |-> "reviser"] \in Draft
  BY DEF Draft

\* Every step of the pipeline keeps the types.
LEMMA NextType == TypeOK /\ [Next]_vars => TypeOK'
  <1> SUFFICES ASSUME TypeOK, [Next]_vars PROVE TypeOK'
    OBVIOUS
  <1>1. CASE Intent
    BY <1>1, TasksAssumption DEF TypeOK, Intent, Goto
  <1>2. CASE Risk
    BY <1>2 DEF TypeOK, Risk, Goto
  <1>3. CASE Policy
    BY <1>3, RaisesType DEF TypeOK, Policy, Goto, FaultPoints
  <1>4. CASE PreRetrieve
    BY <1>4, RaisesType DEF TypeOK, PreRetrieve, Goto, FaultPoints
  <1>5. CASE Generate
    <2>1. draft' \in Draft
      BY <1>5, DraftType DEF TypeOK, Generate
    <2>4. inSync' \in BOOLEAN
      BY <1>5 DEF TypeOK, Generate
    <2>2. faults' \in [FaultPoints -> Nat]
      BY <1>5, RaisesType DEF TypeOK, Generate, FaultPoints
    <2>3. QED
      BY <1>5, <2>1, <2>2, <2>4 DEF TypeOK, Generate, Goto
  <1>6. CASE Decompose
    <2>1. claims' \in ClaimGraph
      BY <1>6, FreshGraph DEF TypeOK, Decompose
    <2>2. faults' \in [FaultPoints -> Nat]
      BY <1>6, RaisesType DEF TypeOK, Decompose, FaultPoints
    <2>3. pc' \in {"retrieve", "decide"} /\ iter' \in Nat
      BY <1>6 DEF TypeOK, Decompose, NextPass
    <2>4. QED
      BY <1>6, <2>1, <2>2, <2>3 DEF TypeOK, Decompose
  <1>7. CASE Retrieve
    <2>1. claims' \in ClaimGraph
      BY <1>7, CiteType DEF TypeOK, Retrieve, RetrieveAll, RetrievePart
    <2>2. faults' \in [FaultPoints -> Nat]
      BY <1>7, RaisesType DEF TypeOK, Retrieve, RetrieveAll, RetrievePart, FaultPoints
    <2>3. pool' \in BOOLEAN /\ txn' \in {"open", "aborted"}
      BY <1>7 DEF TypeOK, Retrieve, RetrieveAll, RetrievePart
    <2>4. QED
      BY <1>7, <2>1, <2>2, <2>3 DEF TypeOK, Retrieve, Goto
  <1>8. CASE Verify
    <2>1. claims' \in ClaimGraph
      <3>1. PICK verdict \in [Ids -> Verdicts], contra \in [Ids -> Contras] :
               claims' = [c \in Ids |-> [claims[c] EXCEPT !.verdict = verdict[c],
                                                         !.contra = contra[c]]]
        BY <1>8 DEF Verify
      <3>2. \A c \in Ids : claims'[c] \in Claim
        BY <3>1, GraphRange DEF TypeOK, Ids, Claim
      <3>3. QED
        BY <3>1, <3>2, GraphUpdate DEF TypeOK, Ids
    <2>2. faults' \in [FaultPoints -> Nat]
      BY <1>8, RaisesType DEF TypeOK, Verify, FaultPoints
    <2>3. QED
      BY <1>8, <2>1, <2>2 DEF TypeOK, Verify, Goto
  <1>9. CASE RiskScoring
    <2>1. claims' \in ClaimGraph
      <3>1. CASE claims' = claims
        BY <3>1 DEF TypeOK
      <3>2. ASSUME NEW level \in [Ids -> {"low", "high"}],
                   claims' = [c \in Ids |-> [claims[c] EXCEPT !.risk = level[c]]]
            PROVE  claims' \in ClaimGraph
        <4>1. \A c \in Ids : claims'[c] \in Claim
          BY <3>2, GraphRange DEF TypeOK, Ids, Claim
        <4>2. QED
          BY <3>2, <4>1, GraphUpdate DEF TypeOK, Ids
      <3>3. QED
        BY <1>9, <3>1, <3>2 DEF RiskScoring
    <2>2. faults' \in [FaultPoints -> Nat]
      BY <1>9, RaisesType DEF TypeOK, RiskScoring, FaultPoints
    <2>3. QED
      BY <1>9, <2>1, <2>2 DEF TypeOK, RiskScoring, Goto
  <1>10. CASE Creativity
    BY <1>10 DEF TypeOK, Creativity, Goto
  <1>11. CASE Revise
    <2>1. draft' \in Draft
      BY <1>11, DraftType DEF TypeOK, Revise, Attempt, ReviseAnswered, ReviseRaised
    <2>4. inSync' \in BOOLEAN
      BY <1>11 DEF TypeOK, Revise, Attempt, ReviseAnswered, ReviseRaised
    <2>5. loops' \in Nat
      BY <1>11 DEF TypeOK, Revise, Attempt, ReviseAnswered, ReviseRaised
    <2>2. faults' \in [FaultPoints -> Nat]
      BY <1>11, RaisesType
         DEF TypeOK, Revise, Attempt, ReviseAnswered, ReviseRaised, FaultPoints
    <2>3. QED
      BY <1>11, <2>1, <2>2, <2>4, <2>5 DEF TypeOK, Revise, Goto
  <1>12. CASE Decide
    BY <1>12 DEF TypeOK, Decide, Decision, Goto, Actions
  <1>13. CASE Finalize
    BY <1>13 DEF TypeOK, Finalize, Goto
  <1>14. CASE Persist
    <2>1. stored' \in [action : Actions \cup {"none"}, queued : BOOLEAN]
      <3>1. Queued \in BOOLEAN
        BY DEF Queued
      <3>2. [action |-> action, queued |-> Queued]
               \in [action : Actions \cup {"none"}, queued : BOOLEAN]
        BY <3>1 DEF TypeOK
      <3>3. QED
        BY <1>14, <3>2 DEF TypeOK, Persist
    <2>2. faults' \in [FaultPoints -> Nat]
      BY <1>14, RaisesType DEF TypeOK, Persist, FaultPoints
    <2>3. QED
      BY <1>14, <2>1, <2>2 DEF TypeOK, Persist, Goto
  <1>15. CASE UNCHANGED vars
    BY <1>15 DEF TypeOK, vars
  <1>16. QED
    BY <1>1, <1>2, <1>3, <1>4, <1>5, <1>6, <1>7, <1>8, <1>9, <1>10, <1>11,
       <1>12, <1>13, <1>14, <1>15 DEF Next, Terminated

--------------------------------------------------------------------------------
\* The loop: how often it turned, and what holds when it is left

\* Every variable keeps its type, in every behaviour.
THEOREM TypeCorrect == Spec => []TypeOK
  <1>1. QED
    BY InitType, NextType, PTL DEF Spec

\* A stage other than the reviser leaves the count of reviser exceptions alone.
LEMMA RaisesOther ==
    ASSUME TypeOK, NEW s \in FaultPoints, s # "revise", Raises(s)
    PROVE  faults'["revise"] = faults["revise"]
  BY DEF TypeOK, Raises, FaultPoints

\* Every stage but the decomposer and the reviser leaves the counters of the
\* loop alone and stays in its part of the run.
LEMMA OtherSteps ==
    ASSUME TypeOK, [Next]_vars, ~Decompose, ~Revise
    PROVE  /\ iter' = iter /\ loops' = loops
           /\ faults'["revise"] = faults["revise"]
           /\ pc \in Before => pc' \in Before \cup {"crashed"}
           /\ pc \in Pass => pc' \in Pass \cup {"decide", "crashed"}
           /\ pc \in After \cup {"crashed"} => pc' \in After \cup {"crashed"}
  <1>1. CASE Intent
    BY <1>1 DEF Intent, Goto, Before, Pass, After
  <1>2. CASE Risk
    BY <1>2 DEF Risk, Goto, Before, Pass, After
  <1>3. CASE Policy
    BY <1>3, RaisesOther DEF Policy, Goto, Before, Pass, After, FaultPoints
  <1>4. CASE PreRetrieve
    BY <1>4, RaisesOther DEF PreRetrieve, Goto, Before, Pass, After, FaultPoints
  <1>5. CASE Generate
    BY <1>5, RaisesOther DEF Generate, Goto, Before, Pass, After, FaultPoints
  <1>6. CASE Retrieve
    BY <1>6, RaisesOther
       DEF Retrieve, RetrieveAll, RetrievePart, Goto, Before, Pass, After, FaultPoints
  <1>7. CASE Verify
    BY <1>7, RaisesOther DEF Verify, Goto, Before, Pass, After, FaultPoints
  <1>8. CASE RiskScoring
    BY <1>8, RaisesOther DEF RiskScoring, Goto, Before, Pass, After, FaultPoints
  <1>9. CASE Creativity
    BY <1>9 DEF Creativity, Goto, Before, Pass, After
  <1>10. CASE Decide
    BY <1>10 DEF Decide, Goto, Before, Pass, After
  <1>11. CASE Finalize
    BY <1>11 DEF Finalize, Goto, Before, Pass, After
  <1>12. CASE Persist
    BY <1>12, RaisesOther DEF Persist, Goto, Before, Pass, After, FaultPoints
  <1>13. CASE UNCHANGED vars
    BY <1>13 DEF vars
  <1>14. QED
    BY <1>1, <1>2, <1>3, <1>4, <1>5, <1>6, <1>7, <1>8, <1>9, <1>10, <1>11,
       <1>12, <1>13 DEF Next, Terminated

\* Every pass is paid for by a counted revision or by an exception.
LEMMA LoopCountStep ==
    ASSUME TypeOK, LoopCount, LoopExit, [Next]_vars
    PROVE  LoopCount'
  <1> USE LoopsAssumption, BudgetAssumption
  <1>1. /\ iter \in Nat /\ loops \in Nat
        /\ faults \in [FaultPoints -> Nat] /\ faults["revise"] \in Nat
    BY DEF TypeOK, FaultPoints
  <1>2. CASE Decompose
    <2>1. faults'["revise"] = faults["revise"] /\ loops' = loops
      BY <1>2, RaisesOther DEF Decompose, FaultPoints
    <2>2. pc = "decompose" /\ pc' \in {"retrieve", "decide"}
      BY <1>2 DEF Decompose, NextPass
    <2>3. iter' <= MaxRevisionLoops + 2
      BY <1>1, <1>2 DEF Decompose, NextPass, LoopCount
    <2>4. pc' = "retrieve" => iter' = iter + 1
      BY <1>2 DEF Decompose, NextPass
    <2>5. QED
      BY <1>1, <2>1, <2>2, <2>3, <2>4 DEF LoopCount, Counted, Before, Pass
  <1>3. CASE Revise
    <2>1. pc = "revise" /\ pc' = "decompose" /\ iter' = iter
      BY <1>3 DEF Revise, Goto
    <2>2. loops < MaxRevisionLoops
      BY <2>1 DEF LoopExit
    <2>3. CASE ReviseAnswered
      BY <1>1, <2>1, <2>2, <2>3 DEF ReviseAnswered, LoopCount, Counted, Before, Pass
    <2>4. CASE ReviseRaised
      <3>1. loops' = loops
        BY <2>4 DEF ReviseRaised
      <3>2. \/ /\ faults["revise"] < FaultBudget["revise"]
               /\ faults'["revise"] = faults["revise"] + 1
            \/ /\ "revise" \in Down /\ faults["revise"] = FaultBudget["revise"]
               /\ faults'["revise"] = faults["revise"]
        BY <1>1, <2>4 DEF ReviseRaised, Raises, FaultPoints
      <3>3. FaultBudget["revise"] \in Nat
        BY DEF FaultPoints
      <3>4. QED
        BY <1>1, <2>1, <3>1, <3>2, <3>3 DEF LoopCount, Counted, Before, Pass
    <2>5. Problems # {}
      BY <2>1 DEF LoopExit
    <2>6. QED
      BY <1>3, <2>3, <2>4, <2>5 DEF Revise, Attempt
  <1>4. CASE ~Decompose /\ ~Revise
    <2>1. pc \in Before \cup Pass \cup After \cup {"crashed"}
      BY DEF TypeOK, Before, Pass, After
    <2>2. pc' \in Before => pc \in Before
      BY <1>4, <2>1, OtherSteps DEF Before, Pass, After
    <2>3. pc' \in Pass => pc \in Pass
      BY <1>4, <2>1, OtherSteps DEF Before, Pass, After
    <2>4. QED
      BY <1>4, <2>2, <2>3, OtherSteps DEF LoopCount, Counted
  <1>5. QED
    BY <1>2, <1>3, <1>4

\* Scoring reaches every claim, and what needs_revision objects to is among the
\* reviser's problems.
LEMMA LoopExitStep ==
    ASSUME TypeOK, LoopCount, LoopExit, [Next]_vars
    PROVE  LoopExit'
  <1> USE LoopsAssumption, BudgetAssumption
  <1>1. /\ iter \in Nat /\ loops \in Nat
        /\ faults \in [FaultPoints -> Nat] /\ faults["revise"] \in Nat
    BY DEF TypeOK, FaultPoints
  <1>2. ASSUME UNCHANGED <<pc, loops, claims>>, faults'["revise"] = faults["revise"]
        PROVE  LoopExit'
    BY <1>2 DEF LoopExit, Analysed, Ids, Problems
  <1>3. ASSUME pc' \in Before \cup {"retrieve", "verify", "risk_scoring", "crashed"}
        PROVE  LoopExit'
    BY <1>3 DEF LoopExit, Before, After
  <1>4. ASSUME UNCHANGED claims, faults'["revise"] = faults["revise"],
               pc \in After, pc' \in After \cup {"crashed"}
        PROVE  LoopExit'
    BY <1>4 DEF LoopExit, Analysed, Ids, After
  <1>5. CASE Intent \/ Risk \/ Policy \/ PreRetrieve \/ Generate \/ Retrieve \/ Verify
    BY <1>3, <1>5
       DEF Intent, Risk, Policy, PreRetrieve, Generate, Retrieve, Verify, Goto, Before
  <1>6. CASE Decompose
    <2>1. CASE pc' = "retrieve"
      BY <1>3, <2>1
    <2>2. CASE pc' = "decide"
      <3>1. iter >= MaxRevisionLoops + 2 /\ pc = "decompose"
        BY <1>1, <1>6, <2>2 DEF Decompose, NextPass
      <3>2. faults'["revise"] = faults["revise"]
        BY <1>6, RaisesOther DEF Decompose, FaultPoints
      <3>3. CASE Counted
        BY <1>1, <2>2, <3>1, <3>2, <3>3 DEF LoopCount, LoopExit, Before
      <3>4. CASE ~Counted
        <4>1. faults["revise"] >= FaultBudget["revise"] /\ FaultBudget["revise"] >= 2
              /\ FaultBudget["revise"] \in Nat
          BY <1>1, <3>4 DEF Counted, FaultPoints
        <4>2. QED
          BY <1>1, <2>2, <3>2, <4>1 DEF LoopExit
      <3>5. QED
        BY <3>3, <3>4
    <2>3. QED
      BY <1>6, <2>1, <2>2 DEF Decompose, NextPass
  <1>7. CASE RiskScoring
    <2>1. CASE pc' = "crashed"
      BY <1>3, <2>1
    <2>2. ASSUME NEW level \in [Ids -> {"low", "high"}], pc' = "creativity",
                 claims' = [c \in Ids |-> [claims[c] EXCEPT !.risk = level[c]]]
          PROVE  LoopExit'
      <3>1. \A c \in Ids : claims[c] \in Claim
        BY GraphRange DEF TypeOK, Ids
      <3>2. Ids' = Ids
        BY <2>2 DEF Ids
      <3>3. \A c \in Ids : claims'[c].risk # "unscored"
        BY <2>2, <3>1 DEF Claim
      <3>4. Analysed'
        BY <3>2, <3>3 DEF Analysed
      <3>5. QED
        BY <2>2, <3>4 DEF LoopExit, After
    <2>3. QED
      BY <1>7, <2>1, <2>2 DEF RiskScoring, Goto
  <1>8. CASE Creativity
    <2>1. Analysed /\ UNCHANGED <<claims, loops, faults>>
      BY <1>8 DEF Creativity, LoopExit
    <2>2. Analysed' /\ Problems' = Problems
      BY <2>1 DEF Analysed, Ids, Problems
    <2>3. CriticalUnsupported \cup Troubling \subseteq Problems
      BY DEF CriticalUnsupported, Troubling, Problems
    <2>4. pc' = "revise" => loops < MaxRevisionLoops /\ Problems # {}
      BY <1>8, <2>3 DEF Creativity, Goto, NeedsRevision
    <2>5. QED
      BY <2>1, <2>2, <2>4 DEF LoopExit
  <1>9. CASE Revise
    BY <1>3, <1>9 DEF Revise, Goto, Before
  <1>10. CASE Decide \/ Finalize
    BY <1>4, <1>10 DEF Decide, Finalize, Goto, After
  <1>11. CASE Persist
    BY <1>4, <1>11, RaisesOther DEF Persist, Goto, After, FaultPoints
  <1>12. CASE UNCHANGED vars
    BY <1>2, <1>12 DEF vars
  <1>13. QED
    BY <1>5, <1>6, <1>7, <1>8, <1>9, <1>10, <1>11, <1>12 DEF Next, Terminated

\* The response exists from the end of the graph on, and not before.
LEMMA RespondedStep ==
    ASSUME TypeOK, Responded, [Next]_vars
    PROVE  Responded'
  <1>1. CASE Finalize
    BY <1>1 DEF Finalize, Goto, Responded
  <1>2. CASE ~Finalize /\ UNCHANGED vars
    BY <1>2 DEF Responded, vars
  <1>3. ASSUME Next, ~Finalize, ~UNCHANGED vars
        PROVE  response' = response /\ pc \notin {"done", "crashed"}
               /\ (pc # "persist" => pc' \notin {"persist", "done"})
               /\ (pc = "persist" => pc' \in {"done", "crashed"})
    BY <1>3 DEF Next, Terminated, Intent, Risk, Policy, PreRetrieve, Generate,
       Decompose, NextPass, Retrieve, Verify, RiskScoring, Creativity, Revise,
       Decide, Persist, Goto
  <1>4. QED
    BY <1>1, <1>2, <1>3 DEF Responded

--------------------------------------------------------------------------------
\* A risk the loop could not remove

\* A critical unsupported claim of high risk decides the escalation of a
\* high-stakes request: it is over the budget whatever the thresholds are.
LEMMA RiskyIsOver ==
    ASSUME NEW c \in Ids, RiskyClaim(c), task = "high_stakes"
    PROVE  CertainlyOver
  BY DEF RiskyClaim, CertainlyOver, Spends, CriticalUnsupported

\* What the last analysis found is carried to the decision, and by it.
LEMMA RiskCarriedStep ==
    ASSUME TypeOK, LoopCount, LoopExit, RiskCarried, [Next]_vars
    PROVE  RiskCarried'
  <1> USE LoopsAssumption, BudgetAssumption
  <1>1. /\ iter \in Nat /\ loops \in Nat
        /\ faults \in [FaultPoints -> Nat] /\ faults["revise"] \in Nat
    BY DEF TypeOK, FaultPoints
  <1>2. ASSUME pc' \notin {"decide", "finalize", "persist"}
        PROVE  RiskCarried'
    BY <1>2 DEF RiskCarried
  <1>3. CASE Intent \/ Risk \/ Policy \/ PreRetrieve \/ Generate \/ Retrieve \/ Verify
             \/ RiskScoring \/ Revise
    BY <1>2, <1>3
       DEF Intent, Risk, Policy, PreRetrieve, Generate, Retrieve, Verify, RiskScoring,
           Revise, Goto
  <1>4. CASE Decompose
    <2>1. CASE pc' = "retrieve"
      BY <1>2, <2>1
    <2>2. CASE pc' = "decide"
      <3>1. iter >= MaxRevisionLoops + 2 /\ pc = "decompose"
        BY <1>1, <1>4, <2>2 DEF Decompose, NextPass
      <3>2. faults'["revise"] = faults["revise"]
        BY <1>4, RaisesOther DEF Decompose, FaultPoints
      <3>3. faults["revise"] >= 2
        <4>1. CASE Counted
          BY <1>1, <3>1, <4>1 DEF LoopCount, Before
        <4>2. CASE ~Counted
          BY <1>1, <4>2 DEF Counted, FaultPoints
        <4>3. QED
          BY <4>1, <4>2
      <3>4. QED
        BY <1>1, <2>2, <3>2, <3>3 DEF RiskCarried
    <2>3. QED
      BY <1>4, <2>1, <2>2 DEF Decompose, NextPass
  <1>5. CASE Creativity
    <2>1. UNCHANGED claims /\ pc' \in {"revise", "decide"}
      BY <1>5 DEF Creativity, Goto
    <2>2. ASSUME atRisk' PROVE \E c \in Ids' : RiskyClaim(c)'
      <3>1. PICK c \in CriticalUnsupported :
                  claims[c].kind = "checkable" /\ claims[c].risk = "high"
        BY <1>5, <2>2 DEF Creativity
      <3>2. c \in Ids /\ RiskyClaim(c)
        BY <3>1 DEF RiskyClaim, CriticalUnsupported
      <3>3. c \in Ids' /\ RiskyClaim(c)'
        BY <2>1, <3>2 DEF Ids, RiskyClaim, CriticalUnsupported
      <3>4. QED
        BY <3>3
    <2>3. QED
      BY <2>1, <2>2 DEF RiskCarried
  <1>6. CASE Decide
    <2>1. pc' = "finalize" /\ pc = "decide"
          /\ UNCHANGED <<atRisk, faults, task, policy, draft>>
      BY <1>6 DEF Decide, Goto
    <2>2. ASSUME atRisk, faults["revise"] < 2, task = "high_stakes", policy # "none"
          PROVE  action' \in {"escalate", "abstain"}
      <3>1. CertainlyOver
        BY <2>1, <2>2, RiskyIsOver DEF RiskCarried
      <3>2. PICK hollow, offTopic, disagree, over, unsure, gap \in BOOLEAN :
                  /\ over
                  /\ action' = Decision(hollow, offTopic, disagree, over, unsure, gap)
        <4>1. PICK noClaims, offTopic, disagree, over, unsure, gap \in BOOLEAN :
                  /\ CertainlyOver => over
                  /\ action' = Decision(draft.text = "degenerate" \/ noClaims,
                                        offTopic, disagree, over, unsure, gap)
          BY <1>6, <2>2 DEF Decide
        <4>2. (draft.text = "degenerate" \/ noClaims) \in BOOLEAN
          OBVIOUS
        <4>3. QED
          BY <3>1, <4>1, <4>2
      <3>3. QED
        BY <2>2, <3>2 DEF Decision
    <2>3. QED
      BY <2>1, <2>2 DEF RiskCarried
  <1>7. CASE Finalize
    BY <1>7 DEF Finalize, Goto, RiskCarried
  <1>8. CASE Persist
    BY <1>2, <1>8 DEF Persist, Goto
  <1>9. CASE UNCHANGED vars
    BY <1>9 DEF vars, RiskCarried, Ids, RiskyClaim, CriticalUnsupported
  <1>10. QED
    BY <1>3, <1>4, <1>5, <1>6, <1>7, <1>8, <1>9 DEF Next, Terminated

\* The record of such a request has its row in the review queue.
LEMMA QueuedStep ==
    ASSUME TypeOK, RiskCarried, UnresolvedRiskIsQueued, [Next]_vars
    PROVE  UnresolvedRiskIsQueued'
  <1>1. CASE Persist
    <2>1. CASE pc' = "done"
      <3>1. faults' = faults /\ stored' = [action |-> action, queued |-> Queued]
            /\ UNCHANGED <<atRisk, task, policy>> /\ pc = "persist"
        BY <1>1, <2>1 DEF Persist, Goto
      <3>2. stored'.queued = Queued
        BY <3>1
      <3>3. QED
        BY <2>1, <3>1, <3>2 DEF RiskCarried, UnresolvedRiskIsQueued, Queued
    <2>2. CASE pc' # "done"
      BY <2>2 DEF UnresolvedRiskIsQueued
    <2>3. QED
      BY <2>1, <2>2
  <1>2. CASE UNCHANGED vars
    BY <1>2 DEF vars, UnresolvedRiskIsQueued
  <1>3. ASSUME Next, ~Persist, ~UNCHANGED vars
        PROVE  pc' # "done"
    BY <1>3 DEF Next, Terminated, Intent, Risk, Policy, PreRetrieve, Generate,
       Decompose, NextPass, Retrieve, Verify, RiskScoring, Creativity, Revise,
       Decide, Finalize, Goto
  <1>4. QED
    BY <1>1, <1>2, <1>3 DEF UnresolvedRiskIsQueued

\* The invariant holds at the start.
LEMMA InitIInv == Init => IInv
  <1>1. SUFFICES ASSUME Init PROVE IInv
    OBVIOUS
  <1>2. TypeOK
    BY <1>1, InitType
  <1>3. LoopCount
    BY <1>1, LoopsAssumption, BudgetAssumption
       DEF Init, LoopCount, Counted, Before, Pass, FaultPoints
  <1>4. LoopExit /\ Responded /\ RiskCarried /\ UnresolvedRiskIsQueued
    BY <1>1 DEF Init, LoopExit, Responded, RiskCarried, UnresolvedRiskIsQueued, After
  <1>5. QED
    BY <1>2, <1>3, <1>4 DEF IInv

\* And every step keeps it.
LEMMA NextIInv == IInv /\ [Next]_vars => IInv'
  BY NextType, LoopCountStep, LoopExitStep, RespondedStep, RiskCarriedStep, QueuedStep
     DEF IInv

\* The inductive invariant of the pipeline: its loop counts and what they imply.
THEOREM Invariant == Spec => []IInv
  BY InitIInv, NextIInv, PTL DEF Spec

--------------------------------------------------------------------------------
\* The theorems

\* No decision on claims that were never analysed, while the reviser's model
\* fails at most once: a consequence of the passes the loop has to spare.
THEOREM DecisionsRestOnAnalysis == Spec => []DecidedOnAnalysedClaims
  <1>1. IInv => DecidedOnAnalysedClaims
    BY DEF IInv, TypeOK, FaultPoints, LoopExit, Analysed, After, DecidedOnAnalysedClaims
  <1>2. QED
    BY <1>1, Invariant, PTL

\* A high-stakes request with an unresolved risk is in the review queue once it
\* is stored, for whatever thresholds and relevance scores.
THEOREM RiskReachesTheQueue == Spec => []UnresolvedRiskIsQueued
  <1>1. IInv => UnresolvedRiskIsQueued
    BY DEF IInv
  <1>2. QED
    BY <1>1, Invariant, PTL

\* The reviser never runs for nothing.
THEOREM RevisionsHaveWork == Spec => []RevisionHasWork
  <1>1. IInv => RevisionHasWork
    BY DEF IInv, LoopExit, RevisionHasWork
  <1>2. QED
    BY <1>1, Invariant, PTL

\* The start of run_pipeline is the entry point of the graph.
LEMMA GraphInit == Init => Graph!Init
  BY DEF Init, Graph!Init, GraphNode

\* With fewer than two exceptions of the reviser the ceiling is out of reach.
LEMMA CeilingOutOfReach ==
    ASSUME IInv, pc = "decompose", FaultBudget["revise"] <= 1
    PROVE  iter < MaxRevisionLoops + 2
  <1>1. "revise" \notin Down
    BY BudgetAssumption DEF FaultPoints
  <1>2. iter = loops + faults["revise"]
    BY <1>1 DEF IInv, LoopCount, Counted, Before
  <1>3. /\ iter \in Nat /\ loops \in Nat /\ faults["revise"] \in Nat
        /\ MaxRevisionLoops \in Nat /\ FaultBudget["revise"] \in Nat
    BY LoopsAssumption, BudgetAssumption DEF IInv, TypeOK, FaultPoints
  <1>4. QED
    BY <1>2, <1>3 DEF IInv, LoopCount

\* Every step of the unrolled loop is an edge of the graph, or none.
LEMMA GraphStep ==
    ASSUME IInv, [Next]_vars, FaultBudget["revise"] <= 1
    PROVE  [Graph!Next]_(Graph!vars)
  <1>1. CASE Intent \/ Risk \/ Policy \/ Generate \/ Retrieve \/ Verify \/ Decide
    BY <1>1 DEF Intent, Risk, Policy, Generate, Retrieve, Verify, Decide, Goto,
       GraphNode, Graph!Next, Graph!Follow, Graph!Edges
  <1>2. CASE PreRetrieve \/ RiskScoring
    <2>1. response = "none" /\ UNCHANGED <<response, loops>>
      BY <1>2 DEF IInv, Responded, PreRetrieve, RiskScoring
    <2>2. QED
      BY <1>2, <2>1 DEF PreRetrieve, RiskScoring, Goto, GraphNode,
         Graph!Next, Graph!Follow, Graph!Edges, Graph!Raise
  <1>3. CASE Decompose
    <2>1. pc = "decompose" /\ pc' = "retrieve" /\ UNCHANGED loops
      BY <1>3, CeilingOutOfReach DEF Decompose, NextPass
    <2>2. QED
      BY <2>1 DEF GraphNode, Graph!Next, Graph!Follow, Graph!Edges
  <1>4. CASE Creativity
    <2>1. /\ pc = "creativity" /\ UNCHANGED loops
          /\ \/ pc' = "revise" /\ loops < MaxRevisionLoops
             \/ pc' = "decide"
      BY <1>4 DEF Creativity, Goto, NeedsRevision
    <2>2. QED
      BY <2>1 DEF GraphNode, Graph!Next, Graph!Branch
  <1>5. CASE Revise
    <2>1. pc = "revise" /\ pc' = "decompose" /\ loops' \in {loops, loops + 1}
      BY <1>5 DEF Revise, Attempt, Goto, ReviseAnswered, ReviseRaised
    <2>2. QED
      BY <2>1 DEF GraphNode, Graph!Next, Graph!Revise
  <1>6. CASE Finalize
    <2>1. pc = "finalize" /\ pc' = "persist" /\ UNCHANGED loops
      BY <1>6 DEF Finalize, Goto
    <2>2. QED
      BY <2>1 DEF GraphNode, Graph!Next, Graph!Follow, Graph!Edges
  <1>7. CASE Persist
    <2>1. /\ pc = "persist" /\ pc' \in {"done", "crashed"} /\ UNCHANGED <<loops, response>>
          /\ response # "none"
      BY <1>7 DEF Persist, Goto, IInv, Responded
    <2>2. QED
      BY <2>1 DEF GraphNode, Graph!vars
  <1>8. CASE UNCHANGED vars
    BY <1>8 DEF vars, GraphNode, Graph!vars
  <1>9. QED
    BY <1>1, <1>2, <1>3, <1>4, <1>5, <1>6, <1>7, <1>8 DEF Next, Terminated

\* run_pipeline implements the canonical graph as long as the reviser's model
\* can fail at most once per request; MCPipeline_ceiling shows that two
\* failures are enough to leave it.
THEOREM PipelineImplementsGraph ==
    ASSUME FaultBudget["revise"] <= 1
    PROVE  Spec => ImplementsGraph
  <1>1. IInv /\ [Next]_vars => [Graph!Next]_(Graph!vars)
    BY GraphStep
  <1>2. QED
    BY <1>1, GraphInit, Invariant, PTL DEF Spec, Graph!Spec, ImplementsGraph

--------------------------------------------------------------------------------
\* The record and its response

\* A stage that raises has been counted, even when its budget was spent before.
LEMMA RaisesCounts ==
    ASSUME TypeOK, NEW s \in FaultPoints, Raises(s)
    PROVE  faults'[s] # 0 /\ \A t \in FaultPoints \ {s} : faults'[t] = faults[t]
  <1>1. faults \in [FaultPoints -> Nat]
    BY DEF TypeOK
  <1>2. CASE faults' = [faults EXCEPT ![s] = @ + 1]
    BY <1>1, <1>2
  <1>3. CASE s \in Down /\ faults[s] = FaultBudget[s] /\ UNCHANGED faults
    BY <1>1, <1>3, BudgetAssumption
  <1>4. QED
    BY <1>2, <1>3 DEF Raises

\* Only a rewritten draft separates claims and draft, and the decomposer is next.
InSyncOrDue == pc # "decompose" /\ faults["decompose"] = 0 => inSync

LEMMA InSyncStep ==
    ASSUME TypeOK, InSyncOrDue, [Next]_vars
    PROVE  InSyncOrDue'
  <1>1. CASE Decompose
    BY <1>1, RaisesCounts DEF Decompose, InSyncOrDue, FaultPoints
  <1>2. CASE Generate \/ Revise
    BY <1>2 DEF Generate, Revise, Goto, InSyncOrDue
  <1>3. ASSUME UNCHANGED inSync, pc # "decompose", faults'["decompose"] = faults["decompose"]
        PROVE  InSyncOrDue'
    BY <1>3 DEF InSyncOrDue
  <1>4. CASE Intent \/ Risk \/ Creativity \/ Decide \/ Finalize
    BY <1>3, <1>4 DEF Intent, Risk, Creativity, Decide, Finalize
  <1>5. ASSUME NEW s \in FaultPoints \ {"decompose"}, Raises(s)
        PROVE  faults'["decompose"] = faults["decompose"]
    BY <1>5, RaisesCounts DEF FaultPoints
  <1>6. CASE Policy \/ PreRetrieve \/ Verify \/ RiskScoring \/ Persist
    BY <1>3, <1>5, <1>6 DEF Policy, PreRetrieve, Verify, RiskScoring, Persist, FaultPoints
  <1>7. CASE Retrieve
    BY <1>3, <1>5, <1>7 DEF Retrieve, RetrieveAll, RetrievePart, FaultPoints
  <1>8. CASE UNCHANGED vars
    BY <1>8 DEF vars, InSyncOrDue
  <1>9. QED
    BY <1>1, <1>2, <1>4, <1>6, <1>7, <1>8 DEF Next, Terminated

\* The stored claims are those of the delivered text unless a decomposition
\* failed, however often generation, retrieval, verification or revision did.
THEOREM RecordsMatchResponses == Spec => []RecordMatchesResponse
  <1>1. Init => InSyncOrDue
    BY DEF Init, InSyncOrDue
  <1>2. TypeOK /\ InSyncOrDue /\ [Next]_vars => InSyncOrDue'
    BY InSyncStep
  <1>3. InSyncOrDue => RecordMatchesResponse
    BY DEF InSyncOrDue, RecordMatchesResponse
  <1>4. QED
    BY <1>1, <1>2, <1>3, TypeCorrect, PTL DEF Spec

--------------------------------------------------------------------------------
\* What a plain answer rests on

\* Every checkable claim has a verdict, and support comes from cited evidence.
Judged ==
    \A c \in Checkable :
        /\ claims[c].verdict # "unverified"
        /\ claims[c].verdict = "supported" => claims[c].cited

\* From the verifier to the next decomposition, and from the break of the loop
\* to the end, the claims are judged; no critical claim is left when the action
\* is "answer".
Backed ==
    policy # "none" /\ faults["verify"] = 0 =>
        /\ pc \in {"risk_scoring", "creativity", "revise"} => Judged
        /\ pc \in After /\ faults["revise"] < 2 => Judged
        /\ pc \in {"finalize", "persist", "done"} /\ action = "answer" => CriticalUnsupported = {}
        /\ pc = "done" => stored.action = action

\* A verifier that does not raise judges every claim.
LEMMA VerifyJudges ==
    ASSUME TypeOK, Verify, policy # "none", faults'["verify"] = 0
    PROVE  Judged'
  <1>1. UNCHANGED faults
    BY RaisesCounts DEF Verify, FaultPoints
  <1>2. PICK done \in SUBSET Ids, touched \in SUBSET Ids :
          /\ \/ done = Ids
             \/ Raises("verify")
          /\ \E verdict \in [Ids -> Verdicts] :
                /\ \A c \in Ids :
                      verdict[c] \in IF c \in done THEN VerdictsOf(c) ELSE {claims[c].verdict}
                /\ \E contra \in [Ids -> Contras] :
                      claims' = [c \in Ids |-> [claims[c] EXCEPT !.verdict = verdict[c],
                                                                 !.contra = contra[c]]]
    BY DEF Verify
  <1>3. done = Ids
    BY <1>2, RaisesCounts DEF FaultPoints
  <1>4. PICK verdict \in [Ids -> Verdicts], contra \in [Ids -> Contras] :
          /\ \A c \in Ids : verdict[c] \in VerdictsOf(c)
          /\ claims' = [c \in Ids |-> [claims[c] EXCEPT !.verdict = verdict[c],
                                                        !.contra = contra[c]]]
    BY <1>2, <1>3
  <1>5. \A c \in Ids : claims[c] \in Claim
    BY GraphRange DEF TypeOK, Ids
  <1>6. /\ Ids' = Ids
        /\ \A c \in Ids : /\ claims'[c].kind = claims[c].kind
                          /\ claims'[c].cited = claims[c].cited
                          /\ claims'[c].verdict = verdict[c]
    BY <1>4, <1>5 DEF Ids, Claim
  <1>7. ASSUME NEW c \in Ids, claims[c].kind = "checkable"
        PROVE  /\ verdict[c] # "unverified"
               /\ verdict[c] = "supported" => claims[c].cited
    BY <1>4, <1>5, <1>7 DEF VerdictsOf, Claim
  <1>8. QED
    BY <1>6, <1>7 DEF Judged, Checkable

\* Scoring changes no verdict and no citation.
LEMMA ScoringKeepsJudged ==
    ASSUME TypeOK, RiskScoring, Judged
    PROVE  Judged'
  <1>1. \A c \in Ids : claims[c] \in Claim
    BY GraphRange DEF TypeOK, Ids
  <1>2. CASE UNCHANGED claims
    BY <1>2 DEF Judged, Checkable, Ids
  <1>3. ASSUME NEW level \in [Ids -> {"low", "high"}],
               claims' = [c \in Ids |-> [claims[c] EXCEPT !.risk = level[c]]]
        PROVE  Judged'
    <2>1. /\ Ids' = Ids
          /\ \A c \in Ids : /\ claims'[c].kind = claims[c].kind
                            /\ claims'[c].cited = claims[c].cited
                            /\ claims'[c].verdict = claims[c].verdict
      BY <1>1, <1>3 DEF Ids, Claim
    <2>2. QED
      BY <2>1 DEF Judged, Checkable
  <1>4. QED
    BY <1>2, <1>3 DEF RiskScoring

\* "answer" is the last branch of the chain: no critical claim is left for it.
LEMMA AnswerLeavesNothing ==
    ASSUME Decide, policy # "none", action' = "answer"
    PROVE  CriticalUnsupported = {}
  <1>1. \E hollow, offTopic, disagree, over, unsure, gap :
            action' = Decision(hollow, offTopic, disagree, over, unsure, gap)
    BY DEF Decide
  <1>2. QED
    BY <1>1 DEF Decision

LEMMA BackedStep ==
    ASSUME IInv, IInv', Backed, [Next]_vars
    PROVE  Backed'
  <1> USE DEF After
  <1>1. TypeOK
    BY DEF IInv, TypeOK
  <1>2. ASSUME pc' \notin {"risk_scoring", "creativity", "revise"} \cup After
        PROVE  Backed'
    BY <1>2 DEF Backed
  <1>3. ASSUME NEW s \in FaultPoints, Raises(s)
        PROVE  /\ s # "verify" => faults'["verify"] = faults["verify"]
               /\ s # "revise" => faults'["revise"] = faults["revise"]
    BY <1>1, <1>3, RaisesCounts DEF FaultPoints
  <1>4. CASE Intent \/ Risk \/ Policy \/ PreRetrieve \/ Generate \/ Retrieve \/ Revise
    BY <1>2, <1>4 DEF Intent, Risk, Policy, PreRetrieve, Generate, Retrieve, Revise, Goto
  <1>5. CASE Decompose
    <2>1. CASE pc' = "retrieve"
      BY <1>2, <2>1
    <2>2. CASE pc' = "decide"
      <3>1. iter >= MaxRevisionLoops + 2 /\ pc = "decompose"
        BY <1>1, <1>5, <2>2, LoopsAssumption DEF Decompose, NextPass, TypeOK
      <3>2. faults'["revise"] = faults["revise"]
        BY <1>1, <1>5, RaisesOther DEF Decompose, FaultPoints
      <3>3. /\ iter \in Nat /\ loops \in Nat /\ MaxRevisionLoops \in Nat
            /\ faults["revise"] \in Nat /\ FaultBudget["revise"] \in Nat
        BY <1>1, LoopsAssumption, BudgetAssumption DEF TypeOK, FaultPoints
      <3>4. ~(faults["revise"] < 2)
        <4>1. CASE Counted
          BY <3>1, <3>3, <4>1 DEF IInv, LoopCount, Before
        <4>2. CASE ~Counted
          BY <3>3, <4>2, BudgetAssumption DEF Counted, FaultPoints
        <4>3. QED
          BY <4>1, <4>2
      <3>5. QED
        BY <2>2, <3>2, <3>4 DEF Backed
    <2>3. QED
      BY <1>5, <2>1, <2>2 DEF Decompose, NextPass
  <1>6. CASE Verify
    BY <1>1, <1>6, VerifyJudges DEF Verify, Goto, Backed
  <1>7. CASE RiskScoring
    <2>1. UNCHANGED <<policy, action, stored>> /\ pc = "risk_scoring" /\ pc' \in {"creativity", "crashed"}
          /\ faults'["verify"] = faults["verify"]
      BY <1>3, <1>7 DEF RiskScoring, Goto, FaultPoints
    <2>2. QED
      BY <1>1, <1>7, <2>1, ScoringKeepsJudged DEF Backed
  <1>8. CASE Creativity
    <2>1. UNCHANGED <<policy, faults, claims>> /\ pc = "creativity" /\ pc' \in {"revise", "decide"}
      BY <1>8 DEF Creativity, Goto
    <2>2. Judged' <=> Judged
      BY <2>1 DEF Judged, Checkable, Ids
    <2>3. QED
      BY <2>1, <2>2 DEF Backed
  <1>9. CASE Decide
    <2>1. UNCHANGED <<policy, faults, claims>> /\ pc = "decide" /\ pc' = "finalize"
      BY <1>9 DEF Decide, Goto
    <2>2. (Judged' <=> Judged) /\ CriticalUnsupported' = CriticalUnsupported
      BY <2>1 DEF Judged, Checkable, Ids, CriticalUnsupported
    <2>3. QED
      BY <1>9, <2>1, <2>2, AnswerLeavesNothing DEF Backed
  <1>10. CASE Finalize
    <2>1. UNCHANGED <<policy, faults, claims, action>> /\ pc = "finalize" /\ pc' = "persist"
      BY <1>10 DEF Finalize, Goto
    <2>2. (Judged' <=> Judged) /\ CriticalUnsupported' = CriticalUnsupported
      BY <2>1 DEF Judged, Checkable, Ids, CriticalUnsupported
    <2>3. QED
      BY <2>1, <2>2 DEF Backed
  <1>11. CASE Persist
    <2>1. CASE pc' = "crashed"
      BY <1>2, <2>1
    <2>2. CASE pc' = "done"
      <3>1. /\ UNCHANGED <<policy, faults, claims, action>> /\ pc = "persist"
            /\ stored' = [action |-> action, queued |-> Queued]
        BY <1>11, <2>2 DEF Persist, Goto
      <3>2. (Judged' <=> Judged) /\ CriticalUnsupported' = CriticalUnsupported
        BY <3>1 DEF Judged, Checkable, Ids, CriticalUnsupported
      <3>3. QED
        BY <2>2, <3>1, <3>2 DEF Backed
    <2>3. QED
      BY <1>11, <2>1, <2>2 DEF Persist, Goto
  <1>12. CASE UNCHANGED vars
    BY <1>12 DEF vars, Backed, Judged, Checkable, Ids, CriticalUnsupported
  <1>13. QED
    BY <1>4, <1>5, <1>6, <1>7, <1>8, <1>9, <1>10, <1>11, <1>12 DEF Next, Terminated

\* A plain answer's critical checkable claims are supported by cited evidence,
\* whatever failed but the verifier and, twice, the reviser; for any claims,
\* loop limit and faults.
THEOREM AnswersAreBacked == Spec => []AnswerIsBacked
  <1>1. Init => Backed
    BY DEF Init, Backed, After
  <1>2. IInv /\ IInv' /\ Backed /\ [Next]_vars => Backed'
    BY BackedStep
  <1>3. IInv /\ Backed => AnswerIsBacked
    <2>1. SUFFICES ASSUME TypeOK, Backed, pc = "done", stored.action = "answer",
                          policy # "none", faults["verify"] = 0, faults["revise"] < 2,
                          NEW c \in Checkable, claims[c].critical
                   PROVE  claims[c].verdict = "supported" /\ claims[c].cited
      BY DEF IInv, AnswerIsBacked
    <2>2. Judged /\ CriticalUnsupported = {} /\ c \in Ids
      BY <2>1 DEF Backed, After, Checkable
    <2>3. claims[c].verdict \in Verdicts
      BY <2>1, <2>2, GraphRange DEF TypeOK, Ids, Claim
    <2>4. QED
      BY <2>1, <2>2, <2>3 DEF Judged, CriticalUnsupported, Verdicts
  <1>4. QED
    BY <1>1, <1>2, <1>3, Invariant, PTL DEF Spec

--------------------------------------------------------------------------------
\* Every step brings the end nearer

\* The stages left from stage p on, to the end of the pass and after the loop.
StagesFrom(p) ==
    CASE p = "intent" -> 14 [] p = "risk" -> 13 [] p = "policy" -> 12
      [] p = "pre_retrieve" -> 11 [] p = "generate" -> 10
      [] p = "retrieve" -> 9 [] p = "verify" -> 8 [] p = "risk_scoring" -> 7
      [] p = "creativity" -> 6 [] p = "revise" -> 5 [] p = "decompose" -> 4
      [] p = "decide" -> 3 [] p = "finalize" -> 2 [] p = "persist" -> 1
      [] p \in {"done", "crashed"} -> 0

\* Each pass the loop has not begun costs six stages.
StepsLeft == 6 * (MaxRevisionLoops + 2 - iter) + StagesFrom(pc)

\* A step of the request leaves fewer steps to take, and never fewer than none.
StepAdvances == StepsLeft' < StepsLeft /\ 0 <= StepsLeft'

LEMMA StageTable ==
    /\ StagesFrom("intent") = 14 /\ StagesFrom("risk") = 13 /\ StagesFrom("policy") = 12
    /\ StagesFrom("pre_retrieve") = 11 /\ StagesFrom("generate") = 10
    /\ StagesFrom("retrieve") = 9 /\ StagesFrom("verify") = 8
    /\ StagesFrom("risk_scoring") = 7 /\ StagesFrom("creativity") = 6
    /\ StagesFrom("revise") = 5 /\ StagesFrom("decompose") = 4 /\ StagesFrom("decide") = 3
    /\ StagesFrom("finalize") = 2 /\ StagesFrom("persist") = 1
    /\ StagesFrom("done") = 0 /\ StagesFrom("crashed") = 0
  BY DEF StagesFrom

\* Where a stage other than the decomposer may lead, whatever it raises.
LEMMA StageFalls ==
    ASSUME TypeOK, Next, ~Decompose, ~Terminated
    PROVE  StagesFrom(pc') < StagesFrom(pc) /\ iter' = iter
  <1>1. CASE Intent
    BY <1>1, StageTable DEF Intent, Goto
  <1>2. CASE Risk
    BY <1>2, StageTable DEF Risk, Goto
  <1>3. CASE Policy
    BY <1>3, StageTable DEF Policy, Goto
  <1>4. CASE PreRetrieve
    <2>1. pc = "pre_retrieve" /\ pc' \in {"generate", "crashed"} /\ iter' = iter
      BY <1>4 DEF PreRetrieve, Goto
    <2>2. QED
      BY <2>1, StageTable
  <1>5. CASE Generate
    BY <1>5, StageTable DEF Generate, Goto
  <1>6. CASE Retrieve
    BY <1>6, StageTable DEF Retrieve, Goto
  <1>7. CASE Verify
    <2>1. pc = "verify" /\ pc' = "risk_scoring" /\ iter' = iter
      BY <1>7 DEF Verify, Goto
    <2>2. QED
      BY <2>1, StageTable
  <1>8. CASE RiskScoring
    BY <1>8, StageTable DEF RiskScoring, Goto
  <1>9. CASE Creativity
    BY <1>9, StageTable DEF Creativity, Goto
  <1>10. CASE Revise
    BY <1>10, StageTable DEF Revise, Goto
  <1>11. CASE Decide
    BY <1>11, StageTable DEF Decide, Goto
  <1>12. CASE Finalize
    BY <1>12, StageTable DEF Finalize, Goto
  <1>13. CASE Persist
    BY <1>13, StageTable DEF Persist, Goto
  <1>14. QED
    BY <1>1, <1>2, <1>3, <1>4, <1>5, <1>6, <1>7, <1>8, <1>9, <1>10, <1>11,
       <1>12, <1>13 DEF Next

LEMMA StageRange ==
    ASSUME TypeOK
    PROVE  StagesFrom(pc) \in Int /\ 0 <= StagesFrom(pc) /\ StagesFrom(pc) <= 14
  BY StageTable DEF TypeOK

LEMMA AdvanceStep ==
    ASSUME IInv, IInv', Next, ~Terminated
    PROVE  StepAdvances
  <1>1. /\ TypeOK /\ TypeOK'
        /\ iter \in Int /\ iter' \in Int /\ iter' <= MaxRevisionLoops + 2
        /\ MaxRevisionLoops \in Int
    BY LoopsAssumption DEF IInv, LoopCount, TypeOK
  <1>2. /\ StagesFrom(pc) \in Int
        /\ StagesFrom(pc') \in Int /\ 0 <= StagesFrom(pc')
    <2>1. StagesFrom(pc') \in Int /\ 0 <= StagesFrom(pc')
      BY <1>1, StageTable DEF TypeOK
    <2>2. QED
      BY <1>1, <2>1, StageRange
  <1>3. \/ StagesFrom(pc') < StagesFrom(pc) /\ iter' = iter
        \/ StagesFrom(pc) = 4 /\ StagesFrom(pc') = 9 /\ iter' = iter + 1
    <2>1. CASE Decompose
      BY <2>1, StageTable DEF Decompose, NextPass
    <2>2. CASE ~Decompose
      BY <1>1, <2>2, StageFalls
    <2>3. QED
      BY <2>1, <2>2
  <1>4. /\ StepsLeft = 6 * (MaxRevisionLoops + 2 - iter) + StagesFrom(pc)
        /\ StepsLeft' = 6 * (MaxRevisionLoops + 2 - iter') + StagesFrom(pc')
    BY DEF StepsLeft
  <1>5. QED
    BY <1>1, <1>2, <1>3, <1>4 DEF StepAdvances

\* No request runs on: whatever the models return and however often the stages
\* raise, each step of run_pipeline leaves fewer to take, of at most
\* 6 * (max_revision_loops + 2) + 14.  What Terminates needs besides is only
\* that a stage which can be taken is.
THEOREM EveryStepAdvances ==
    Spec => [][StepAdvances]_vars /\ [](StepsLeft <= 6 * (MaxRevisionLoops + 2) + 14)
  <1> DEFINE Bounded == StepsLeft <= 6 * (MaxRevisionLoops + 2) + 14
  <1>1. IInv /\ IInv' /\ [Next]_vars => [StepAdvances]_vars
    BY AdvanceStep DEF Terminated
  <1>2. IInv => Bounded
    <2>1. ASSUME IInv PROVE Bounded
      <3>1. TypeOK /\ iter \in Int /\ 0 <= iter /\ MaxRevisionLoops \in Int
        BY <2>1, LoopsAssumption DEF IInv, TypeOK
      <3>2. StagesFrom(pc) \in Int /\ StagesFrom(pc) <= 14
        BY <3>1, StageRange
      <3>3. QED
        BY <3>1, <3>2 DEF StepsLeft
    <2>2. QED
      BY <2>1
  <1>3. QED
    BY <1>1, <1>2, Invariant, PTL DEF Spec
================================================================================
