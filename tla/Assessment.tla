------------------------------- MODULE Assessment -------------------------------
(***************************************************************************)
(* The numbers behind one pass of the pipeline: how agents 8 and 9 judge   *)
(* each claim, how the claim risk graph is scored and propagated, and what *)
(* agent 12 makes of it.  Module Pipeline leaves all of them free within   *)
(* what it knows of a claim; this module computes them and is shown to     *)
(* take only steps Pipeline allows.                                        *)
(*                                                                         *)
(* It is the last pass: no revision is left, the claims are fresh and have *)
(* had their retrieval.  Scores, criticality and confidence are hundredths,*)
(* a risk score is in ten-thousandths (the code rounds it to four digits), *)
(* what the risk model returns one digit finer.                            *)
(***************************************************************************)
EXTENDS Integers, FiniteSets, FiniteSetsExt

CONSTANTS
    N,          \* the number of claims
    Fresh,      \* the claims before the pass, functions on 1 .. N
    Scores,     \* what the NLI model may return
    Risks,      \* what the risk model may return
    Requests    \* what the pass is given: task, depth, risk, deps and so on

Claims == 1 .. N

Hundredths == 0 .. 100
RiskScore == 0 .. 10000
Proba == 0 .. 100000
MaxFloor == 5000      \* decay * 1.0
Verdicts == {"supported", "refuted", "insufficient"}

TaskTypes == {"high_stakes", "factual", "analytical", "mixed", "creative"}

\* split is the disagreement of the claim's votes, in sixths.
ClaimType ==
    [kind : {"checkable", "creative", "opinion"}, crit : Hundredths, cited : BOOLEAN,
     entail : Hundredths, contra : Hundredths, verdict : Verdicts \cup {"unverified"},
     split : 0 .. 6, risk : RiskScore, level : {"low", "medium", "high"}]

\* An earlier claim that shares an entity with c is in deps[c] (a05).
ASSUME SizeAssumption == N \in Nat
ASSUME ScaleAssumption ==
    Scores \subseteq Hundredths /\ Risks \subseteq Proba
ASSUME DepsAssumption ==
    \A r \in Requests :
        /\ r.deps \in [Claims -> SUBSET Claims]
        /\ \A c \in Claims : \A d \in r.deps[c] : d < c
ASSUME RequestAssumption ==
    \A r \in Requests : r.task \in TaskTypes /\ r.risk \in Hundredths
ASSUME FreshAssumption ==
    \A f \in Fresh :
        /\ f \in [Claims -> ClaimType]
        /\ \A c \in Claims : /\ f[c].verdict = "unverified" /\ f[c].contra = 0
                             /\ f[c].risk = 0 /\ f[c].level = "low"

VARIABLES
    req,      \* the request: task type, policy, signals, dependencies
    pc,       \* the stage
    todo,     \* claims the current loop has still to visit
    claims,   \* state.claim_graph.claims
    ballot,   \* a08's lists verdicts and entail_scores, for the claim at hand
    base,     \* propagate_risk's base_risk
    raised,   \* a08 raised at some claim
    action    \* state.action

vars == <<req, pc, todo, claims, ballot, base, raised, action>>

NoBallot == [of |-> 0, votes |-> [x \in {} |-> "insufficient"]]
Checkable(c) == claims[c].kind = "checkable"

Init ==
    /\ req \in Requests
    /\ pc = "verify"
    /\ todo = Claims
    /\ claims \in Fresh
    /\ ballot = NoBallot
    /\ base = [c \in Claims |-> 0]
    /\ raised = FALSE
    /\ action = "answer"

--------------------------------------------------------------------------------
\* Agent 8, consensus.py

\* a08: the verdict of the NLI scores.
NliVerdict(e, k) ==
    IF e >= 60 /\ k < 40 THEN "supported"
    ELSE IF k >= 55 THEN "refuted"
    ELSE "insufficient"

\* _VERDICT_SCORE
VerdictScore(v) ==
    CASE v = "supported" -> 100 [] v = "insufficient" -> 40 [] v = "refuted" -> 0

\* A vote's weight: 0.5 and its entailment score.
Weight(x, v, e) ==
    50 + CASE x = "nli" -> e
           [] x = "llm" -> IF v = "supported" THEN 70 ELSE 20
           [] x = "falsifier" -> 10

VotesFor(votes, v) == Cardinality({x \in DOMAIN votes : votes[x] = v})

\* resolve_claim: the weighted mean of the scores, against 0.66 and 0.25.
UnweightedVerdict(votes, e) ==
    IF VotesFor(votes, "supported") > 0 THEN "supported"
    ELSE IF VotesFor(votes, "refuted") > 0 THEN "refuted"
    ELSE "insufficient"

ResolvedVerdict(votes, e) ==
    LET Of(x) == IF x \in DOMAIN votes THEN Weight(x, votes[x], e) ELSE 0
        For(x) == IF x \in DOMAIN votes THEN VerdictScore(votes[x]) * Of(x) ELSE 0
        den == Of("nli") + Of("llm") + Of("falsifier")
        num == For("nli") + For("llm") + For("falsifier")
    IN  IF num >= 66 * den THEN "supported"
        ELSE IF num <= 25 * den THEN "refuted"
        ELSE "insufficient"

\* claim_disagreement, in sixths: one less the share of the largest camp.
Disagreement(votes) ==
    LET n == Cardinality(DOMAIN votes)
        top == Max({VotesFor(votes, v) : v \in Verdicts})
    IN  IF n < 2 THEN 0 ELSE 6 - (6 * top) \div n

AtHand(c) == pc = "verify" /\ c \in todo /\ \A d \in todo : c <= d

\* A creative claim keeps "unverified".
Skip(c) ==
    /\ AtHand(c)
    /\ ~Checkable(c)
    /\ todo' = todo \ {c}
    /\ UNCHANGED <<req, pc, claims, ballot, base, raised, action>>

\* The NLI pass over the claim's passages; without one there is no score.
Nli(c) ==
    /\ AtHand(c)
    /\ Checkable(c)
    /\ ballot.of # c
    /\ \/ /\ claims[c].cited
          /\ \E e \in Scores, k \in Scores :
                /\ claims' = [claims EXCEPT ![c].entail = e, ![c].contra = k]
                /\ ballot' = [of |-> c, votes |-> [x \in {"nli"} |-> NliVerdict(e, k)]]
       \/ /\ ~claims[c].cited
          /\ ballot' = [of |-> c, votes |-> [x \in {"nli"} |-> "insufficient"]]
          /\ UNCHANGED claims
    /\ UNCHANGED <<req, pc, todo, base, raised, action>>

\* The verifier model is asked from depth 1 on or for criticality 0.7, and an
\* answer it cannot be held to gives no vote; the counterfactual probe only
\* ever adds a refutation.
Consulted(c) == claims[c].cited /\ (req.depth >= 1 \/ claims[c].crit >= 70)
Probed(c) == claims[c].cited /\ req.depth >= 2 /\ claims[c].crit >= 60

\* a08's verdicts: the NLI vote v0, the model's vote v unless it was not asked
\* or gave none, the probe's refutation.
Votes(v0, silent, v, falsified) ==
    [x \in {"nli"} \cup (IF silent THEN {} ELSE {"llm"})
                   \cup (IF falsified THEN {"falsifier"} ELSE {}) |->
        IF x = "nli" THEN v0 ELSE IF x = "llm" THEN v ELSE "refuted"]

\* resolve_claim: disagreement and verdict.
Resolved(claim, votes) ==
    [claim EXCEPT !.verdict = ResolvedVerdict(votes, claim.entail),
                  !.split = Disagreement(votes)]

Resolve(c) ==
    /\ AtHand(c)
    /\ ballot.of = c
    /\ \E silent \in BOOLEAN, v \in Verdicts, falsified \in BOOLEAN :
          /\ ~silent => Consulted(c)
          /\ falsified => Probed(c)
          /\ ballot' = [of |-> c, votes |-> Votes(ballot.votes["nli"], silent, v, falsified)]
    /\ claims' = [claims EXCEPT ![c] = Resolved(@, ballot'.votes)]
    /\ todo' = todo \ {c}
    /\ UNCHANGED <<req, pc, base, raised, action>>

\* A model call raises at a claim with passages; Agent.run ends the agent.
Raise(c) ==
    /\ AtHand(c)
    /\ Checkable(c) /\ claims[c].cited
    /\ raised' = TRUE
    /\ todo' = {}
    /\ UNCHANGED <<req, pc, claims, ballot, base, action>>

--------------------------------------------------------------------------------
\* Agent 9

\* Its scan of a claim's passages; the LLM back end leaves it out, which is the
\* choice of finding nothing.
Rescanned(c) ==
    /\ req.depth >= 1 /\ Checkable(c) /\ claims[c].cited
    /\ claims[c].contra > 20 \/ claims[c].crit >= 60 \/ claims[c].verdict # "supported"

Conflicting ==
    {p \in SUBSET {c \in Claims : claims[c].kind # "creative"} : Cardinality(p) = 2}

Contradict ==
    /\ pc = "verify" /\ todo = {}
    /\ \E found \in [Claims -> Scores \cup {0}],
          pairs \in SUBSET (IF req.depth >= 1 THEN Conflicting ELSE {}) :
          claims' = [c \in Claims |-> [claims[c] EXCEPT !.contra =
                        Max({@, IF Rescanned(c) THEN found[c] ELSE 0,
                             IF c \in UNION pairs THEN 60 ELSE 0})]]
    /\ pc' = "risk_scoring"
    /\ ballot' = NoBallot
    /\ UNCHANGED <<req, todo, base, raised, action>>

--------------------------------------------------------------------------------
\* n_risk_scoring: score_claim, propagate_risk

Level(p) == IF p >= 60000 THEN "high" ELSE IF p >= 35000 THEN "medium" ELSE "low"
Rounded(p) == (p + 5) \div 10

\* score_claim on every claim; the learned model is free.
Score ==
    /\ pc = "risk_scoring"
    /\ \E proba \in [Claims -> Risks] :
          /\ claims' = [c \in Claims |-> [claims[c] EXCEPT !.risk = Rounded(proba[c]),
                                                           !.level = Level(proba[c])]]
          /\ base' = [c \in Claims |-> Rounded(proba[c])]
    /\ pc' = "propagate"
    /\ todo' = Claims
    /\ UNCHANGED <<req, ballot, raised, action>>

\* round(0.5 * n, 4): the half digit may go either way.
WeakDecay(n) == {(7 * n) \div 10}
Decayed(n) == {n \div 2, (n + 1) \div 2}

\* The larger of what the claim brought and what its dependencies leave it.
Accumulated(own, floor) == own + floor
Lifted(own, floor) == IF floor > own THEN floor ELSE own

\* One turn of the loop, in any topological order.
Propagate(c) ==
    /\ pc = "propagate"
    /\ c \in todo
    /\ req.deps[c] \cap todo = {}
    /\ todo' = todo \ {c}
    /\ \/ req.deps[c] = {} /\ UNCHANGED claims
       \/ \E d \in req.deps[c] :
             /\ \A x \in req.deps[c] : claims[x].risk <= claims[d].risk
             /\ \E floor \in Decayed(claims[d].risk) :
                   claims' = [claims EXCEPT ![c].risk = Lifted(base[c], floor)]
    /\ UNCHANGED <<req, pc, ballot, base, raised, action>>

\* Agent 10 and the test of needs_revision, which finds no revision left.
Creativity ==
    /\ pc = "propagate" /\ todo = {}
    /\ pc' = "decide"
    /\ base' = [c \in Claims |-> 0]
    /\ UNCHANGED <<req, todo, claims, ballot, raised, action>>

--------------------------------------------------------------------------------
\* Agent 12, budget.py, consensus.py

CheckableClaims == {c \in Claims : Checkable(c)}

CriticalUnsupported ==
    {c \in Claims : claims[c].crit >= 50 /\ claims[c].verdict \in {"refuted", "insufficient"}}

\* budget_for, in ten-thousandths; criticality is 0.5 + 0.5 * risk.
Tolerance ==
    LET allowed == (CASE req.task = "high_stakes" -> 5 [] req.task = "factual" -> 20
                      [] req.task = "analytical" -> 35 [] req.task = "mixed" -> 50
                      [] req.task = "creative" -> 85) * 100 - 15 * req.risk
    IN  IF allowed < 200 THEN 200 ELSE allowed

\* consumed: risk * criticality summed, in millionths.
ConsumedByRefuted ==
    MapThenSumSet(LAMBDA c : claims[c].risk * claims[c].crit,
                  {c \in CheckableClaims : claims[c].verdict = "refuted"})

Consumed ==
    MapThenSumSet(LAMBDA c : claims[c].risk * claims[c].crit,
                  {c \in CheckableClaims : claims[c].verdict # "supported"})

OverBudget == Consumed > 100 * Tolerance

\* request_disagreement >= escalation_threshold: the mean over all claims.
Disagree ==
    100 * MapThenSumSet(LAMBDA c : claims[c].split, Claims)
        >= 6 * N * req.escalation /\ (N > 0 \/ req.escalation <= 0)

\* consistency_gap > 0.25: 0.35 * confidence + 0.40 * strength
\* + 0.25 * (1 - max_risk) less strength, the mean entailment of the checkable
\* claims.
Gap ==
    LET k == Cardinality(CheckableClaims)
        top == Max({claims[c].risk : c \in Claims} \cup {0})
        strength == MapThenSumSet(LAMBDA c : claims[c].entail, CheckableClaims)
        rest == 3500 * req.confidence + 25 * (10000 - top)
    IN  IF k > 0 THEN k * rest - 6000 * strength > 250000 * k
        ELSE rest - (IF req.task = "creative" THEN 600000 ELSE 0) > 250000

\* The if/elif chain of a12; req.hollow stands for its tests of the draft,
\* `unsure` for a calibrated confidence below the abstention threshold.
Decided(unsure) ==
    IF req.hollow THEN "abstain"
    ELSE IF Disagree \/ (OverBudget /\ req.task = "high_stakes") THEN "escalate"
    ELSE IF unsure /\ CriticalUnsupported # {} THEN "abstain"
    ELSE IF CriticalUnsupported # {} \/ OverBudget \/ Gap THEN "qualify"
    ELSE "answer"

Decide ==
    /\ pc = "decide"
    /\ \E unsure \in BOOLEAN : action' = Decided(unsure)
    /\ pc' = "finalize"
    /\ UNCHANGED <<req, todo, claims, ballot, base, raised>>

Terminated == pc = "finalize" /\ UNCHANGED vars

Next ==
    \/ \E c \in Claims : Skip(c) \/ Nli(c) \/ Resolve(c) \/ Raise(c) \/ Propagate(c)
    \/ Contradict \/ Score \/ Creativity \/ Decide
    \/ Terminated

Spec == Init /\ [][Next]_vars
--------------------------------------------------------------------------------
\* Properties

\* Every variable has its type.
TypeOK ==
    /\ req \in Requests
    /\ pc \in {"verify", "risk_scoring", "propagate", "decide", "finalize"}
    /\ todo \subseteq Claims
    /\ claims \in [Claims -> ClaimType]
    /\ base \in [Claims -> RiskScore]
    /\ raised \in BOOLEAN
    /\ action \in {"answer", "qualify", "abstain", "escalate"}

\* Weighting the votes never turns a strict majority around: a claim most of
\* its votes refute is not supported, one most of them support is not refuted,
\* and no verdict is given that nobody voted for.
Judged == IF ballot.of \in Claims /\ ballot.of \notin todo THEN {ballot.of} ELSE {}

MajorityStands ==
    \A c \in Judged :
        LET n == Cardinality(DOMAIN ballot.votes)
            v == claims[c].verdict
        IN  /\ 2 * VotesFor(ballot.votes, "refuted") > n => v # "supported"
            /\ 2 * VotesFor(ballot.votes, "supported") > n => v # "refuted"
            /\ v \in {"supported", "refuted"} => VotesFor(ballot.votes, v) > 0

Propagated == pc \in {"decide", "finalize"} \/ (pc = "propagate" /\ todo = {})

LevelFits(level, r) == IF level = "high" THEN r >= 6000 ELSE r <= 6000

\* risk_level is set before propagation and never again, yet it is the level of
\* the propagated score where it counts: needs_revision and the reviser, who
\* read the level, see a high risk exactly where the budget, which reads the
\* score, does (at 0.6 itself rounding may go either way).
LevelMatchesRisk ==
    Propagated => \A c \in Claims : LevelFits(claims[c].level, claims[c].risk)

\* What propagate_risk's docstring promises, in whatever topological order it
\* runs: each claim is at least half as risky as its riskiest dependency, none
\* is lifted beyond the riskiest claim there was, and none loses risk.
FloorHolds ==
    /\ Propagated => \A c \in Claims : \A d \in req.deps[c] :
          claims[d].risk <= 2 * claims[c].risk + 1
    /\ pc = "propagate" => \A c \in Claims :
          /\ claims[c].risk >= base[c]
          /\ \E d \in Claims : claims[c].risk <= base[d]

\* The inductive invariant: the levels fit the scores they were taken from, what
\* propagation lifts it lifts to at most 0.5, and what it has visited it does
\* not have to visit again.
Scored ==
    pc = "propagate" => \A c \in Claims :
        /\ LevelFits(claims[c].level, base[c])
        /\ claims[c].risk >= base[c]
        /\ claims[c].risk = base[c] \/ claims[c].risk <= MaxFloor
        /\ \E d \in Claims : claims[c].risk <= base[d]

Settled ==
    pc \in {"propagate", "decide", "finalize"} => \A c \in Claims \ todo :
        /\ req.deps[c] \cap todo = {}
        /\ \A d \in req.deps[c] : claims[d].risk <= 2 * claims[c].risk + 1

IInv ==
    /\ TypeOK /\ Scored /\ Settled
    /\ pc \in {"decide", "finalize"} => todo = {} /\ LevelMatchesRisk

\* The pass as module Pipeline sees it: a08 and a09 together are its Verify, the
\* scoring and its propagation its RiskScoring.
PipePc ==
    IF pc = "verify" THEN "verify"
    ELSE IF pc = "propagate" /\ todo = {} THEN "creativity"
    ELSE IF pc \in {"risk_scoring", "propagate"} THEN "risk_scoring"
    ELSE pc

PipeContra(k) == IF k > 55 THEN 2 ELSE IF k > 50 THEN 1 ELSE 0

PipeClaims ==
    [c \in Claims |->
        [kind |-> claims[c].kind,
         critical |-> claims[c].crit >= 50,
         cited |-> claims[c].cited,
         verdict |-> IF pc = "verify" THEN "unverified" ELSE claims[c].verdict,
         contra |-> IF pc = "verify" THEN 0 ELSE PipeContra(claims[c].contra),
         risk |-> IF PipePc \in {"verify", "risk_scoring"} THEN "unscored"
                  ELSE IF claims[c].level = "high" THEN "high" ELSE "low"]]

PipeAtRisk ==
    /\ pc \in {"decide", "finalize"}
    /\ \E c \in CriticalUnsupported : Checkable(c) /\ claims[c].level = "high"

PipeFaults == {"policy", "pre_retrieve", "generate", "decompose", "retrieve",
               "verify", "risk_scoring", "revise", "persist"}
PipeBudget == [s \in PipeFaults |-> 1]
NoneDown == {}
NothingDone == [s \in PipeFaults |-> 0]

Pipe == INSTANCE Pipeline WITH
    ClaimId <- Claims, Tasks <- TaskTypes, MaxRevisionLoops <- 1,
    FaultBudget <- PipeBudget, Down <- NoneDown,
    pc <- PipePc, iter <- 2, loops <- 1, task <- req.task, policy <- "tight",
    draft <- [text |-> IF req.hollow THEN "degenerate" ELSE "substantive",
              author |-> "generator"],
    claims <- PipeClaims, inSync <- TRUE,
    pool <- (\E c \in Claims : claims[c].cited),
    action <- action, response <- "none", txn <- "open",
    stored <- [action |-> "none", queued |-> FALSE],
    faults <- [NothingDone EXCEPT !["verify"] = IF raised /\ pc # "verify" THEN 1 ELSE 0],
    atRisk <- PipeAtRisk

\* The computed verdicts, scores and decisions are among those Pipeline allows:
\* what Pipeline assumes about budgets, votes and levels is what the numbers do.
ImplementsPipeline ==
    [][\/ UNCHANGED <<PipePc, PipeClaims, action>>
       \/ Pipe!Verify \/ Pipe!RiskScoring \/ Pipe!Creativity \/ Pipe!Decide]_vars
================================================================================
