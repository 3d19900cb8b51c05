-------------------------------- MODULE Pipeline --------------------------------
(***************************************************************************)
(* One request through run_pipeline: the thirteen agents, the bounded      *)
(* revision loop, the decision, the stored record.  Every agent runs under *)
(* Agent.run, which swallows any exception and keeps what the agent had    *)
(* already written; pre-retrieval, risk scoring and the final write do not *)
(* and end the request.  Which exceptions happen is a choice of the        *)
(* environment, bounded per stage by FaultBudget.                          *)
(*                                                                         *)
(* A text is abstracted to whether it says anything (a12 _is_degenerate)   *)
(* and who wrote it; a claim to the facts the control flow tests.          *)
(***************************************************************************)
EXTENDS Naturals

CONSTANTS
    ClaimId,            \* the claims a draft may be split into
    Tasks,              \* the task types the intent classifier may return
    MaxRevisionLoops,   \* settings.max_revision_loops
    FaultBudget,        \* how often each stage may raise
    Down                \* stages that may go on raising forever: the count of
                        \* their exceptions stops at the budget

TaskTypes == {"factual", "analytical", "creative", "mixed", "high_stakes"}

\* The stages where an exception changes what happens next.  The others
\* (intent, risk, contradiction, creativity) only lose their own output, and
\* that outcome is among the ones they have anyway.
FaultPoints == {"policy", "pre_retrieve", "generate", "decompose", "retrieve",
                "verify", "risk_scoring", "revise", "persist"}

ASSUME TasksAssumption == Tasks \subseteq TaskTypes
ASSUME LoopsAssumption == MaxRevisionLoops \in Nat
ASSUME BudgetAssumption ==
    /\ FaultBudget \in [FaultPoints -> Nat]
    /\ Down \subseteq FaultPoints
    /\ \A s \in Down : FaultBudget[s] >= 2

VARIABLES
    pc,        \* the stage run_pipeline executes next
    iter,      \* passes of the for loop begun so far
    loops,     \* state.revision_loops
    task,      \* state.task_type
    policy,    \* state.policy (and state.signals): "none", or "wide" when
               \* creativity_allowance > 0.7, else "tight"
    draft,     \* state.chosen_candidate and state.revised
    claims,    \* state.claim_graph.claims
    inSync,    \* the claims were extracted from the current draft
    pool,      \* state.evidence is not empty
    action,    \* state.action
    response,  \* what state.final_response holds
    txn,       \* the request's database transaction
    stored,    \* the rows persist_request wrote
    faults,    \* exceptions raised so far, by stage
    atRisk     \* history: the last analysed pass still held a critical
               \* unsupported claim of high risk

vars == <<pc, iter, loops, task, policy, draft, claims, inSync, pool, action,
          response, txn, stored, faults, atRisk>>

--------------------------------------------------------------------------------
\* Data

Verdicts == {"unverified", "supported", "refuted", "insufficient"}
Contras == 0 .. 2     \* contradiction_score: <= 0.5, up to 0.55, above 0.55

Claim == [kind : {"checkable", "creative", "opinion"},
          critical : BOOLEAN,          \* criticality >= 0.5
          cited : BOOLEAN,             \* evidence_ids meets state.evidence
          verdict : Verdicts,
          contra : Contras,
          risk : {"unscored", "low", "high"}]

ClaimGraph == UNION {[S -> Claim] : S \in SUBSET ClaimId}

Draft == [text : {"degenerate", "substantive"},
          author : {"none", "generator", "reviser"}]

NothingStored == [action |-> "none", queued |-> FALSE]
Actions == {"answer", "qualify", "abstain", "escalate"}

Ids == DOMAIN claims
Checkable == {c \in Ids : claims[c].kind = "checkable"}

\* A claim as the decomposer creates it.
FreshClaim(kind, critical) ==
    [kind |-> kind, critical |-> critical, cited |-> FALSE,
     verdict |-> "unverified", contra |-> 0, risk |-> "unscored"]

FreshClaims == {FreshClaim(k, b) : k \in {"checkable", "creative", "opinion"},
                                   b \in BOOLEAN}

NoClaims == [c \in {} |-> FreshClaim("checkable", FALSE)]

\* ClaimGraph.critical_unsupported
CriticalUnsupported ==
    {c \in Ids : claims[c].critical /\ claims[c].verdict \in {"refuted", "insufficient"}}

\* The claims needs_revision calls a problem.
Troubling == {c \in Ids : claims[c].risk = "high" \/ claims[c].contra = 2}

\* needs_revision
NeedsRevision ==
    /\ loops < MaxRevisionLoops
    /\ CriticalUnsupported \cup Troubling # {}
    /\ ~(policy = "wide" /\ CriticalUnsupported = {})

NarrowProblems ==
    {c \in Ids : \/ claims[c].verdict \in {"refuted", "insufficient"}
                 \/ claims[c].contra = 2}

\* The reviser's own list of problem claims.
Problems ==
    {c \in Ids : \/ claims[c].verdict \in {"refuted", "insufficient"}
                 \/ claims[c].risk = "high"
                 \/ claims[c].contra >= 1}

\* Claims that spend the hallucination budget (budget.consumed); a claim that
\* no scoring has reached has risk 0 and spends nothing.
Spends(c) ==
    /\ claims[c].kind = "checkable"
    /\ claims[c].verdict # "supported"
    /\ claims[c].risk # "unscored"

\* A high-risk critical claim spends at least 0.6 * 0.5, above the budgets of
\* these two task types.
CertainlyOver ==
    /\ task \in {"high_stakes", "factual"}
    /\ \E c \in Ids : Spends(c) /\ claims[c].critical /\ claims[c].risk = "high"

--------------------------------------------------------------------------------
\* Control

Raises(stage) ==
    \/ /\ faults[stage] < FaultBudget[stage]
       /\ faults' = [faults EXCEPT ![stage] = @ + 1]
    \/ /\ stage \in Down
       /\ faults[stage] = FaultBudget[stage]
       /\ UNCHANGED faults

Goto(stage) == pc' = stage

Init ==
    /\ pc = "intent"
    /\ iter = 0
    /\ loops = 0
    /\ task = "factual"
    /\ policy = "none"
    /\ draft = [text |-> "degenerate", author |-> "none"]
    /\ claims = NoClaims
    /\ inSync = TRUE
    /\ pool = FALSE
    /\ action = "answer"
    /\ response = "none"
    /\ txn = "open"
    /\ stored = NothingStored
    /\ faults = [s \in FaultPoints |-> 0]
    /\ atRisk = FALSE

\* a01: any task type; an exception keeps the default, also a task type.
Intent ==
    /\ pc = "intent"
    /\ task' \in Tasks \cup {task}
    /\ Goto("risk")
    /\ UNCHANGED <<iter, loops, policy, draft, claims, inSync, pool, action,
                   response, txn, stored, faults, atRisk>>

\* a02: writes the risk score, which only the policy reads.
Risk ==
    /\ pc = "risk"
    /\ Goto("policy")
    /\ UNCHANGED <<iter, loops, task, policy, draft, claims, inSync, pool,
                   action, response, txn, stored, faults, atRisk>>

\* a03: signals and policy are assigned last and together, so an override the
\* loop cannot apply leaves both None.
Policy ==
    /\ pc = "policy"
    /\ \/ policy' \in {"tight", "wide"} /\ UNCHANGED faults
       \/ Raises("policy") /\ UNCHANGED policy
    /\ Goto("pre_retrieve")
    /\ UNCHANGED <<iter, loops, task, draft, claims, inSync, pool, action,
                   response, txn, stored, atRisk>>

\* n_pre_retrieve: skipped without a policy or below its grounding bound; not
\* wrapped, so a failing retrieval ends the request.
PreRetrieve ==
    /\ pc = "pre_retrieve"
    /\ \/ /\ pool' \in IF policy = "none" THEN {FALSE} ELSE BOOLEAN
          /\ Goto("generate")
          /\ UNCHANGED faults
       \/ /\ policy # "none"
          /\ Raises("pre_retrieve")
          /\ Goto("crashed")
          /\ UNCHANGED pool
    /\ UNCHANGED <<iter, loops, task, policy, draft, claims, inSync, action,
                   response, txn, stored, atRisk>>

\* a04: without a policy, or when a model call raises, no draft is chosen.
Generate ==
    /\ pc = "generate"
    /\ \/ /\ policy # "none"
          /\ \E t \in {"degenerate", "substantive"} :
                draft' = [text |-> t, author |-> "generator"]
          /\ inSync' = FALSE
          /\ UNCHANGED faults
       \/ policy = "none" /\ UNCHANGED <<draft, inSync, faults>>
       \/ Raises("generate") /\ policy # "none" /\ UNCHANGED <<draft, inSync>>
    /\ Goto("decompose")
    /\ UNCHANGED <<iter, loops, task, policy, claims, pool, action, response,
                   txn, stored, atRisk>>

\* The for loop of run_pipeline: another pass, or out at the ceiling.
NextPassForever == pc' = "retrieve" /\ UNCHANGED iter

NextPassOneFewer ==
    IF iter < MaxRevisionLoops + 1
    THEN pc' = "retrieve" /\ iter' = iter + 1
    ELSE pc' = "decide" /\ UNCHANGED iter

NextPass ==
    IF iter < MaxRevisionLoops + 2
    THEN pc' = "retrieve" /\ iter' = iter + 1
    ELSE pc' = "decide" /\ UNCHANGED iter

\* a05: a new graph of fresh claims replaces the old one; an exception keeps it.
Decompose ==
    /\ pc = "decompose"
    /\ \/ /\ \E S \in SUBSET ClaimId : claims' \in [S -> FreshClaims]
          /\ inSync' = TRUE
          /\ UNCHANGED faults
       \/ Raises("decompose") /\ UNCHANGED <<claims, inSync>>
    /\ NextPass
    /\ UNCHANGED <<loops, task, policy, draft, pool, action, response, txn,
                   stored, atRisk>>

--------------------------------------------------------------------------------
\* One pass of the loop

\* The claims after retrieval gave passages to `found`, having come as far as
\* the claims in `reached`.
Cite(reached, found) ==
    [c \in Ids |-> [claims[c] EXCEPT !.cited = IF c \in reached THEN c \in found ELSE @]]

\* a06 to its end: state.evidence is what the checkable claims found, and what
\* pre-retrieval had put there is gone.  a07 reads the database afterwards.
RetrieveAll ==
    /\ policy # "none"
    /\ \E found \in SUBSET Checkable :
          /\ claims' = Cite(Checkable, found)
          /\ pool' = (found # {})
          /\ \/ UNCHANGED <<faults, txn>>
             \/ found # {} /\ Raises("retrieve") /\ txn' = "aborted"

\* a06 raises at some claim: earlier claims have their passages, but those
\* count only if the evidence already in the state holds them.
RetrievePart ==
    /\ policy # "none"
    /\ \E reached \in SUBSET Checkable :
          /\ reached # Checkable
          /\ \E found \in SUBSET (IF pool THEN reached ELSE {}) :
                claims' = Cite(reached, found)
    /\ \/ txn = "aborted" /\ UNCHANGED <<faults, txn>>
       \/ Raises("retrieve") /\ txn' \in {txn, "aborted"}
    /\ UNCHANGED pool

Retrieve ==
    /\ pc = "retrieve"
    /\ \/ RetrieveAll
       \/ RetrievePart
       \/ policy = "none" /\ UNCHANGED <<claims, pool, faults, txn>>
    /\ Goto("verify")
    /\ UNCHANGED <<iter, loops, task, policy, draft, inSync, action, response,
                   stored, atRisk>>

\* The verdicts a08 may give claim c.
VerdictsOfLenient(c) ==
    IF claims[c].kind # "checkable" THEN {"unverified"}
    ELSE {"supported", "refuted", "insufficient"}

VerdictsOf(c) ==
    IF claims[c].kind # "checkable" THEN {"unverified"}
    ELSE IF ~claims[c].cited THEN {"insufficient"}
    ELSE {"supported", "refuted", "insufficient"}

\* a08 then a09.  `done` are the claims a08 judged; it raises only at a claim
\* with passages, whose contradiction score it has by then written.  a09 may
\* raise a contradiction score: of a checkable claim against its passages, or
\* of two claims against each other.
Verify ==
    /\ pc = "verify"
    /\ \E done \in SUBSET Ids, touched \in SUBSET Ids :
          /\ \/ policy = "none" /\ touched = {} /\ done = {} /\ UNCHANGED faults
             \/ policy # "none" /\ touched = Ids /\ done = Ids /\ UNCHANGED faults
             \/ /\ policy # "none"
                /\ \E c \in Checkable \ done : claims[c].cited /\ touched = done \cup {c}
                /\ Raises("verify")
          /\ \E verdict \in [Ids -> Verdicts] :
                /\ \A c \in Ids :
                      verdict[c] \in IF c \in done THEN VerdictsOf(c) ELSE {claims[c].verdict}
                /\ \E contra \in [Ids -> Contras] :
                      /\ \A c \in Ids :
                            \/ contra[c] = claims[c].contra
                            \/ /\ c \in Checkable /\ claims[c].cited
                               /\ (c \in touched \/ contra[c] > claims[c].contra)
                            \/ /\ contra[c] = 2 /\ claims[c].kind # "creative"
                               /\ \E d \in Ids \ {c} : contra[d] = 2 /\ claims[d].kind # "creative"
                      /\ claims' = [c \in Ids |-> [claims[c] EXCEPT !.verdict = verdict[c],
                                                                    !.contra = contra[c]]]
    /\ Goto("risk_scoring")
    /\ UNCHANGED <<iter, loops, task, policy, draft, inSync, pool, action,
                   response, txn, stored, atRisk>>

\* n_risk_scoring: every claim of the graph, not wrapped.
RiskScoring ==
    /\ pc = "risk_scoring"
    /\ \/ /\ \E level \in [Ids -> {"low", "high"}] :
                claims' = [c \in Ids |-> [claims[c] EXCEPT !.risk = level[c]]]
          /\ Goto("creativity")
          /\ UNCHANGED faults
       \/ Raises("risk_scoring") /\ Goto("crashed") /\ UNCHANGED claims
    /\ UNCHANGED <<iter, loops, task, policy, draft, inSync, pool, action,
                   response, txn, stored, atRisk>>

\* a10 writes nothing the control flow reads; then the test of needs_revision.
Creativity ==
    /\ pc = "creativity"
    /\ Goto(IF NeedsRevision THEN "revise" ELSE "decide")
    /\ atRisk' = \E c \in CriticalUnsupported :
                    claims[c].kind = "checkable" /\ claims[c].risk = "high"
    /\ UNCHANGED <<iter, loops, task, policy, draft, claims, inSync, pool,
                   action, response, txn, stored, faults>>

\* a11 when its model call returns: the text is taken, or dropped as too
\* short; both count as an attempt.
ReviseAnswered ==
    /\ \/ UNCHANGED <<draft, inSync>>
       \/ /\ \E t \in {"degenerate", "substantive"} :
                draft' = [text |-> t, author |-> "reviser"]
          /\ inSync' = FALSE
    /\ loops' = loops + 1
    /\ UNCHANGED faults

\* a11 when the call raises: the attempt is not counted.
ReviseRaised ==
    /\ Raises("revise")
    /\ UNCHANGED <<draft, inSync, loops>>

\* a11: without a problem claim it returns at once.
Attempt ==
    IF Problems = {} THEN UNCHANGED <<draft, inSync, loops, faults>>
    ELSE ReviseAnswered \/ ReviseRaised

ReviseWithoutDecompose ==
    /\ pc = "revise"
    /\ Attempt
    /\ Goto("retrieve")
    /\ UNCHANGED <<iter, task, policy, claims, pool, action, response, txn,
                   stored, atRisk>>

Revise ==
    /\ pc = "revise"
    /\ Attempt
    /\ Goto("decompose")
    /\ UNCHANGED <<iter, task, policy, claims, pool, action, response, txn,
                   stored, atRisk>>

--------------------------------------------------------------------------------
\* Decision, response, record

DecisionWithoutDefault(hollow, offTopic, disagree, over, unsure, gap) ==
    IF hollow \/ offTopic THEN "abstain"
    ELSE IF disagree \/ (over /\ task = "high_stakes") THEN "escalate"
    ELSE IF unsure /\ CriticalUnsupported # {} THEN "abstain"
    ELSE IF CriticalUnsupported # {} \/ over \/ gap THEN "qualify"
    ELSE "none"

DecisionWithoutBudget(hollow, offTopic, disagree, over, unsure, gap) ==
    IF hollow \/ offTopic THEN "abstain"
    ELSE IF disagree THEN "escalate"
    ELSE IF unsure /\ CriticalUnsupported # {} THEN "abstain"
    ELSE IF CriticalUnsupported # {} \/ over \/ gap THEN "qualify"
    ELSE "answer"

\* a12: how the if/elif chain orders its tests.
Decision(hollow, offTopic, disagree, over, unsure, gap) ==
    IF hollow \/ offTopic THEN "abstain"
    ELSE IF disagree \/ (over /\ task = "high_stakes") THEN "escalate"
    ELSE IF unsure /\ CriticalUnsupported # {} THEN "abstain"
    ELSE IF CriticalUnsupported # {} \/ over \/ gap THEN "qualify"
    ELSE "answer"

\* a12.  Its conditions are read off the state as far as the abstraction holds
\* them; relevance scores, confidence and thresholds are free.  Without
\* signals it raises before it writes anything.
Decide ==
    /\ pc = "decide"
    /\ \/ policy = "none" /\ UNCHANGED action
       \/ /\ policy # "none"
          /\ \E noClaims, offTopic, disagree, over, unsure, gap \in BOOLEAN :
                /\ noClaims => Ids = {} /\ task # "creative"
                /\ offTopic => pool /\ task # "creative"
                /\ CertainlyOver => over
                /\ over => \E c \in Ids : Spends(c)
                /\ action' = Decision(draft.text = "degenerate" \/ noClaims,
                                      offTopic, disagree, over, unsure, gap)
    /\ Goto("finalize")
    /\ UNCHANGED <<iter, loops, task, policy, draft, claims, inSync, pool,
                   response, txn, stored, faults, atRisk>>

\* n_finalize, with the audit agent, which only assembles the trace.
Finalize ==
    /\ pc = "finalize"
    /\ response' = CASE action = "abstain" -> "withheld"
                      [] action \in {"qualify", "escalate"} -> "bannered"
                      [] OTHER -> "draft"
    /\ Goto("persist")
    /\ UNCHANGED <<iter, loops, task, policy, draft, claims, inSync, pool,
                   action, txn, stored, faults, atRisk>>

\* persist_request: request, claims, runs and trace, and a review-queue row
\* for an escalation or a high-stakes abstention.
Queued == action = "escalate" \/ (action = "abstain" /\ task = "high_stakes")

Persist ==
    /\ pc = "persist"
    /\ \/ /\ txn = "open"
          /\ stored' = [action |-> action, queued |-> Queued]
          /\ Goto("done")
          /\ UNCHANGED faults
       \/ txn = "aborted" /\ Goto("crashed") /\ UNCHANGED <<stored, faults>>
       \/ Raises("persist") /\ Goto("crashed") /\ UNCHANGED stored
    /\ UNCHANGED <<iter, loops, task, policy, draft, claims, inSync, pool,
                   action, response, txn, atRisk>>

Terminated == pc \in {"done", "crashed"} /\ UNCHANGED vars

Next ==
    \/ Intent \/ Risk \/ Policy \/ PreRetrieve \/ Generate \/ Decompose
    \/ Retrieve \/ Verify \/ RiskScoring \/ Creativity \/ Revise
    \/ Decide \/ Finalize \/ Persist
    \/ Terminated

Spec == Init /\ [][Next]_vars

\* run_pipeline is one thread; every stage returns or raises, the model calls
\* included (the adapters pass a timeout).
FairSpec == Spec /\ WF_vars(Next)

--------------------------------------------------------------------------------
\* Properties

\* Every variable has its type.
TypeOK ==
    /\ pc \in {"intent", "risk", "policy", "pre_retrieve", "generate", "decompose",
               "retrieve", "verify", "risk_scoring", "creativity", "revise",
               "decide", "finalize", "persist", "done", "crashed"}
    /\ iter \in Nat
    /\ loops \in Nat
    /\ task \in TaskTypes
    /\ policy \in {"none", "tight", "wide"}
    /\ draft \in Draft
    /\ claims \in ClaimGraph
    /\ inSync \in BOOLEAN
    /\ pool \in BOOLEAN
    /\ action \in Actions
    /\ response \in {"none", "draft", "bannered", "withheld"}
    /\ txn \in {"open", "aborted"}
    /\ stored \in [action : Actions \cup {"none"}, queued : BOOLEAN]
    /\ faults \in [FaultPoints -> Nat]
    /\ atRisk \in BOOLEAN

\* The decision, the response and the record rest on claims that retrieval,
\* verification and risk scoring have been through, as long as the reviser's
\* model failed at most once: the ceiling of the for loop leaves two passes
\* more than revisions can use up.
DecidedOnAnalysedClaims ==
    /\ pc \in {"decide", "finalize", "persist", "done"}
    /\ faults["revise"] < 2
    => \A c \in Ids : claims[c].risk # "unscored"

\* A high-stakes request whose last analysis still held a high-risk critical
\* claim the evidence does not support ends in the review queue, however the
\* loop was left (the reviser failing at most once).
UnresolvedRiskIsQueued ==
    /\ pc = "done"
    /\ task = "high_stakes" /\ policy # "none"
    /\ atRisk
    /\ faults["revise"] < 2
    => stored.queued

\* A plain answer has every critical checkable claim supported by evidence that
\* is in the state, even when generation, decomposition or retrieval failed on
\* the way; only a failed verifier (and the two failures above) can undo this.
AnswerIsBacked ==
    /\ pc = "done" /\ stored.action = "answer" /\ policy # "none"
    /\ faults["verify"] = 0 /\ faults["revise"] < 2
    => \A c \in Checkable :
          claims[c].critical => claims[c].verdict = "supported" /\ claims[c].cited

\* The claims stored with a response are the claims of that response, unless a
\* decomposition failed: no path delivers a rewritten draft under the claims of
\* the draft before it.
RecordMatchesResponse == pc = "done" /\ faults["decompose"] = 0 => inSync

\* What needs_revision calls a problem, the reviser finds too.  Otherwise it
\* would return without counting, and the loop would repeat the same draft until
\* its ceiling.
RevisionHasWork == pc = "revise" => Problems # {}

\* Every request ends, even when the reviser's model is down for good.
Terminates == <>(pc \in {"done", "crashed"})

\* run_pipeline as the graph of orchestration/graph.py: the write to the
\* database comes after the graph's end.
GraphNode ==
    IF pc \in {"persist", "done"} THEN "END"
    ELSE IF pc # "crashed" THEN pc
    ELSE IF response = "none" THEN "failed" ELSE "END"

Graph == INSTANCE GraphFlow WITH node <- GraphNode

\* The unrolled loop takes only the edges the canonical graph has.
ImplementsGraph == Graph!Spec

--------------------------------------------------------------------------------
\* The inductive invariant behind the theorems of PipelineProofs

Before == {"intent", "risk", "policy", "pre_retrieve", "generate", "decompose"}
Pass == {"retrieve", "verify", "risk_scoring", "creativity", "revise"}
After == {"decide", "finalize", "persist", "done"}

Analysed == \A c \in Ids : claims[c].risk # "unscored"

\* The count of reviser exceptions is exact: it has not stopped at its budget.
Counted == "revise" \notin Down \/ faults["revise"] < FaultBudget["revise"]

\* Each pass but the current one ended in a counted revision or an exception.
LoopCount ==
    /\ loops <= MaxRevisionLoops
    /\ iter <= MaxRevisionLoops + 2
    /\ faults["revise"] <= FaultBudget["revise"]
    /\ Counted /\ pc \in Before => iter = loops + faults["revise"]
    /\ Counted /\ pc \in Pass => iter = loops + faults["revise"] + 1

\* Hence the loop is left either by its break, with every claim scored, or at
\* the ceiling, which only two exceptions of the reviser can reach.
LoopExit ==
    /\ pc \in {"creativity", "revise"} => Analysed
    /\ pc = "revise" => loops < MaxRevisionLoops /\ Problems # {}
    /\ pc \in After => Analysed \/ faults["revise"] >= 2

\* Where the request stands with its response, for the mapping to the graph.
Responded ==
    /\ pc \in {"persist", "done"} => response # "none"
    /\ pc \notin {"persist", "done", "crashed"} => response = "none"

\* The claim that made the last analysis a risk is still there to be decided
\* upon, and once decided the action is one that reaches the queue.
RiskyClaim(c) ==
    /\ c \in CriticalUnsupported
    /\ claims[c].kind = "checkable"
    /\ claims[c].risk = "high"

RiskCarried ==
    LET owed == atRisk /\ faults["revise"] < 2 IN
    /\ pc = "decide" /\ owed => \E c \in Ids : RiskyClaim(c)
    /\ pc \in {"finalize", "persist"} /\ owed /\ task = "high_stakes" /\ policy # "none"
       => action \in {"escalate", "abstain"}

IInv == TypeOK /\ LoopCount /\ LoopExit /\ Responded /\ RiskCarried
                /\ UnresolvedRiskIsQueued
================================================================================
