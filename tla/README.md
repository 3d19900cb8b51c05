# A verification project for MA-AHAF

TLA+ models of the multi-agent framework in `ma-ahaf/` (hallucination attenuation for
language models), the TLC configurations that check them on small instances, and
theorems checked by TLAPS. Paths below are relative to `ma-ahaf/backend/app/` unless
they start with `docs/` or `scripts/`, which are under `ma-ahaf/` and
`ma-ahaf/backend/`.

## 1. The system

A FastAPI service answers `POST /v1/generate` by running thirteen agents over one
mutable `RequestState`; the result is stored in PostgreSQL and doubtful responses are
queued for a human.

| Component | State it keeps | Operations | Talks to |
|---|---|---|---|
| Request pipeline (`orchestration/pipeline.py`, `nodes.py`, `agents/base.py`) | `RequestState`: claims, draft, policy, action, loop count | the thirteen agents in order, a revision loop, decision, response, `_persist` | every agent, the session |
| State graph (`orchestration/graph.py`) | none at run time | the documented edges | compared with the pipeline |
| Policy controller (`agents/a03`, `controller/arcop.py`) | `PolicyVector` | rules, profile, learned blend, overrides | read by a04 to a12 |
| Verification and decision (`a08`, `a09`, `a12`, `controller/*`, `claimgraph/*`) | verdict, scores, level of each claim | votes, contradiction scan, scoring, propagation, budgets, decision | read by `needs_revision`, a11 |
| Generation, decomposition, retrieval, revision (`a04`, `a05`, `a06`, `a07`, `a11`) | draft, claim graph, evidence | one call per pass | language model, database, cache |
| Review queue (`api/routes_review.py`, `db/repositories.py`) | `escalation_queue`, `requests`, `audit_traces` rows | enqueue with the response, `resolve` | overlapping transactions |
| Serving (`api/deps.py`, `core/ratelimit.py`, `db/session.py`, the routes) | connection pool, event loop, Redis counters | authenticate, limit, hand to a thread, commit | every route |
| Gateway and NLI (`llm/gateway.py`, `nlp/nli.py`) | the usage meter of a request, a process-wide gateway | completions, entailment | shared by all threads |
| Knowledge base and evidence cache (`api/routes_kb.py`, `retrieval/`) | documents, chunks, Redis entries with a TTL | ingest, search, cache | a06 |
| Evaluation (`api/routes_eval.py`, `eval/`) | `eval_runs` rows | start, background job | runs the pipeline |
| Artifacts (`ml/registry.py`, `ml/retrain_from_eval.py`) | process-wide cache, joblib files | load, promote | a05, a07, arcop, risk model, calibration |
| Local evaluation (`scripts/eval_local.py`) | rows and sinks in memory, four files and a pointer | one item after the other, each in a thread with a timeout | pipeline, gateway, retraining |
| Demo server (`scripts/serve_demo.py`) | dictionaries of requests and escalations | generate, resolve a review, run an evaluation | pipeline |
| Admin, metrics, telemetry, configuration, migrations, dashboard, report scripts | - | reads, one-row writes, formatting | - |

What is hard here:

* **Exceptions.** `Agent.run` swallows every exception of an agent and keeps what the
  agent had written so far; risk scoring, pre-retrieval and the final write are not
  wrapped. A later agent may read claims of which half were judged in this pass and
  half in the one before.
* **The loop.** Two counters with different rules (passes of the `for`, counted
  revisions) and two exits; `needs_revision` and the reviser each have a list of what a
  problem is.
* **Order of writes.** Levels are set before propagation changes the scores, verdicts
  before contradictions are known, the policy by three parties in turn.
* **Overlapping reviews.** No lock and no version between reading a queue item and
  committing a decision; the ORM writes only attributes that differ from what was loaded.
* **One loop, one pool.** `get_principal` queries the database on the event loop; when
  no connection is free the loop waits, and with it the requests that would return one.
* **Shared process state.** A global gateway, a cache of models filled by whichever
  thread is first, a Redis cache filled by whichever search is last.
* **Work that outlives its request**: background evaluations whose row may not be there
  yet, pipelines abandoned at a timeout that go on calling the model.

What makes each component correct is said with its module below; `PROJECT.json` lists
each hazard at its line.

## 2. The modules

| Module | Models | Role |
|---|---|---|
| `Pipeline` | `run_pipeline` with its agents, exceptions, transaction and record | detailed specification |
| `GraphFlow` | `build_graph` | abstract specification of `Pipeline` |
| `Assessment` | the last pass with its numbers: a08, a09, scoring, propagation, a12 | refines four steps of `Pipeline` |
| `Policy` | a03 and `controller/arcop.py` with exact arithmetic | component |
| `ReviewQueue` | `persist_request` and `resolve` as overlapping transactions | detailed specification |
| `ReviewRecord` | one decision per item, and the response follows it | abstract specification of `ReviewQueue` |
| `Serving` | event loop, threads, pool, rate limit, background evaluation, crash | component |
| `Usage` | meters and the global gateway | component |
| `EvidenceCache` | lookup, search and store of evidence; ingestion | component |
| `Registry` | `registry.load` and the promotion of models | component |
| `LocalEval` | `main` of `scripts/eval_local.py`, its threads and files | component |
| `DemoServer` | `scripts/serve_demo.py` | component |
| `MC*` | values of the constants for TLC; `MCSharing` and `MCScripts` put modules side by side | |
| `*Proofs` | theorems; `RefinementProofs` is that of `Assessment` and `Pipeline`, `SharingProofs` and `ScriptsProofs` those of the modules put side by side | |

### Pipeline

`pc` is the statement of `run_pipeline` to be executed; each agent is one action named
after its node (`Intent`, `Risk`, `Policy`, `PreRetrieve`, `Generate`, `Decompose`,
`Retrieve` for a06 with a07, `Verify` for a08 with a09, `RiskScoring` with
`propagate_risk`, `Creativity` with the test of `needs_revision`, `Revise`, `Decide`,
`Finalize` with a13, `Persist` with the queue row and the commit). One request is one
thread, so an agent is atomic. Where it can stop half way, the action has the
partial outcome as well (`RetrievePart`, the `done` and `touched` sets of `Verify`).

A claim is reduced to what control flow tests: its kind, whether its criticality
reaches 0.5, whether its passages are in the state, its verdict, its contradiction
score (three ranges, cut at 0.5 and 0.55) and its level. A draft is reduced to whether
`_is_degenerate` holds of it. Thresholds of `Decide` that depend on scores are choices;
only what holds for all scores is kept (`CertainlyOver`: one high-risk critical claim
spends at least 0.3, more than the budgets of high-stakes and factual requests).
`FaultBudget` bounds how often a stage may raise, `Down` names stages that may raise
forever. `atRisk` and `inSync` are history variables.

* `DecidedOnAnalysedClaims`: the decision never rests on claims that were not
  retrieved for, verified and scored.
* `UnresolvedRiskIsQueued`: a high-stakes request with an unresolved high risk is in
  the review queue.
* `AnswerIsBacked`: a plain answer has its critical claims supported and cited.
* `RecordMatchesResponse`: the stored claims are those of the delivered draft, unless a
  decomposition failed.
* `RevisionHasWork`: what `needs_revision` objects to, the reviser finds.
* `ImplementsGraph`: the unrolled loop takes only edges of `GraphFlow`.
* `Terminates`: the request ends, with the reviser's model down for good too.

### Assessment

The claims of a last pass with numbers: scores in hundredths, risk in ten-thousandths
(the four digits the code rounds to). a08's loop is one action per vote (`Skip`, `Nli`,
`Resolve`), with the votes of NLI, the independent verifier and the probe weighted as
`resolve_claim` does; `Raise` is an exception at a claim. `Contradict` is a09, `Score`
the risk model (its probability a free choice) with rounding and levels, `Propagate`
one turn of `propagate_risk` in any topological order (the decomposer's dependencies
are acyclic, so `topological_sort` never raises), `Decide` the budget, the
disagreement, the confidence gap and the if/elif chain of a12.

* `MajorityStands`: weights never turn a strict majority of votes around.
* `LevelMatchesRisk`: levels set before propagation still fit the scores after it.
* `FloorHolds`: propagation is the bounded floor its docstring promises.
* `ImplementsPipeline`: under the mapping at the end of the module every step is a
  `Verify`, `RiskScoring`, `Creativity` or `Decide` of `Pipeline`, or none. This is what
  justifies the abstractions of `Pipeline`.

Its constants are what the pass is given. `RequestAssumption` (one of the classifier's five
labels, a risk in [0, 1]), `FreshAssumption` (claims as `claimgraph/schema.py` creates them:
unverified, no contradiction, no risk, level low) and `DepsAssumption` (a claim depends on
earlier ones, as a05 links them) say no more than the code that builds them.

### Policy

One action per step of a03: `Rule`, `ApplyProfile`, `Learned` (absent, raising or a
prediction at most 0.1 outside the [0, 1] its trees were fitted to, `ModelsAssumption`), one
`Override(k)` per key in any order, `OverrideRaises` for an attribute without arithmetic or
setter, `Assign`. Numbers are integers of 1/2000000, so every coefficient and halving is
exact.

* `RiskyIsVerified`, `RiskyIsRevised`: nobody takes a risky request below standard
  verification or out of the revision loop. The second rests on that range: the blend of
  the creativity reaches 0.69, `needs_revision` tests 0.70.
* `LooseningBounded`: profile, model and override together lower what protects a risky
  request by 0.45 at most.
* `DisagreementHasRoom`: the threshold that a12 compares with the judges' disagreement is
  within its range up to a risk of 0.303, and, for predictions in the assumed range, never
  near zero unless the caller wants it.
* `TypeOK` says that a field can leave its declared [0, 1] by 0.3 downwards.

### ReviewQueue

Each member of `Call` is one call of `resolve`: `Begin` checks the item, `Load` reads the
request, `Commit` writes the attributes that differ from what was loaded (`Flushed`) and
the trace, `Rollback` leaves nothing, and the call may be sent again. Any number of calls
overlap under READ COMMITTED. Nothing in the model ties a call to a person: the subject
the code stores is a label of an API key or of a token that clients share, and one
reviewer may submit twice. Texts are values that any call may bring, so two calls may say
the same, or what the stored draft says; that is when the ORM has nothing to write. One
tenant is modelled, because the query for the item refuses others. `SequentialSpec` is
the same code with one call open at a time, whoever makes it.

* `TraceAgrees`, `EscalationIsPending`: with any overlap the row and the trace have the
  decision of one call, and no decided response stays marked as escalated.
* `RevisedTextStands`: a recorded revision is the text delivered, if it says something
  new, i.e. neither the stored draft nor what another decision has brought. Without that
  condition it is false of the code (section 4).
* `ImplementsRecord` holds of `SequentialSpec`; with overlapping calls a decision is not
  final, as `review_overwritten` shows.

### Serving

`pc` is where the handling of a request stands; a request has a route (a pipeline, a query,
an evaluation, `/ready`) and a credential. `waiting` is the request for which the event loop
sits in the pool: every action on the loop needs `LoopIsFree`. `Send` enters the
dependencies, `CheckRateLimit` is INCR in Redis (counted, unreachable, or counted with the
answer lost; what EXPIRE does is not modelled, since the next window counts under a key of
its own), `Resume` the rest of `get_principal` with its synchronous checkout, `Unblock` and
`LoopTimesOut` the two ends of a wait, `Start` the hand-over to a thread, `RunPipeline`,
`Persist`, `StartEval` and the five read handlers the work, `Close` the end of
`session_scope` back on the loop. The background job is `StartJob`, `RunEvaluation`, then
`RecordOutcome` or `FailToRecord`; `Crash` loses everything that is not committed. Whether a
key is good, a row exists or a query fails is a choice.

`pyproject.toml` asks for `fastapi>=0.111`, and releases differ in whether the session of
a request is closed before or after its background tasks: `commitFirst`, chosen at the
start, once for the behaviour.

* `PoolAccounted`: a connection belongs to a session that is being handled; the loop
  never waits for a request that already has one.
* `RateRespected`: at most `Limit` requests of a window pass on an answer of Redis, and
  only requests counted above it are refused.
* `RunRecorded`: an announced evaluation run is there and gets its outcome, unless its
  job met a crash, an aborted transaction or an empty pool. Where sessions are closed
  last, an announced run is never recorded.
* `EveryoneServed`: no mutual wait of loop, threads and pool lasts. It assumes that Redis
  answers or fails: `db/cache.py` makes its client without a socket timeout, so a Redis
  that accepts the connection and then hangs would hold the request for good.

### Usage, EvidenceCache, Registry

`Usage`: a pipeline creates a meter and publishes its gateway (`StartPipe`); `AskModel`
and `AskNLI` bind the meter a call will be charged to, `Answer` charges it, `Fail` does
not; `PersistUsage` and `Respond` read it, at two moments. A meter is the set of calls it
was charged for. Charging is one step: under CPython's lock each integer counter is
updated between two switches (the cost is added a moment later, and nobody reads
`by_role`).

* `ChargedOnce`: each answered call is on exactly one bill.
* `AloneIsExact`: a request that met no other is billed for its own calls.

`EvidenceCache`: `_cached_retrieve` is `LookUp`, a search and `Store`; the search is
`VectorSearch` (its first statement), `SearchFurther` (the keyword search, and both for
each further query) and `Rank` (fusion, MMR, reranker). Between these steps others store,
documents are committed or rolled back (`Ingest`, `CloseIngest`), entries expire (`Tick`)
and Redis may be away. A search is not complete in the code: its statements have a LIMIT,
the vector index is approximate, MMR and the reranker keep a few passages. So each
statement finds *any* part of what is committed, and ranking keeps any part of that (some
of it, if there is any). An entry records for whom, how and when its search was made, and
which documents its first statement could have found (`considered`).

* `EvidenceIsOnesOwn`: a tenant gets evidence of its own, a strict retrieval that of a
  strict search.
* `DocumentsAreConsidered`: what the cache adds to the delay of a new document is bounded.
  A retrieval that begins after the commit has the evidence of a search that could have
  found the document, or of one that found something else, began no later than the
  commit and was stored less than the TTL ago. A search that found nothing delays nobody,
  although it is stored like any other. Whether a search that could find a document does
  is a matter of its ranking, about which nothing is claimed.

`Registry`: `load` is `LoadArtifact` (first look), `TakeLock`, `LookAgain` (second look,
missing file) and `ReadFile`; another process promotes models by `Retrain`, `Dump` and
`Dumped`, a file being torn in between; `Restart` empties the cache.

* `ReadOnce`: a file is read at most once in the life of a process, by one thread.

The three share no variable. `MCSharing` declares the variables of all, and `part` names
the module a behaviour exercises: one run, and no product of state spaces.

### LocalEval, DemoServer

`LocalEval`: the main thread is `Submit`, `Result` (a state, an exception or the
timeout), `GradeClaim`, `Calibrate` (the calibration row), `FinishRow` (the
reported row), `FailToGrade`, `Baseline`, then `Write`,
`OpenPointer` and `WritePointer`; a pipeline is `StartThread`, `CallModel`, `EndThread`
and is not stopped when it is abandoned. `Die` may come at any step.

* `EveryItemAccounted`: each item is reported, timed out or failed, one of them, and its
  row is its own. Its calibration row follows all its training rows; an item whose grading
  raised may leave rows for retraining, one that timed out leaves none.
* `TokensExact`: until a first timeout, a row's usage is that of its pipeline and grading.
* `PointerIsWhole`: `latest.txt` never names a run with a file missing.

`DemoServer`: on the loop, `Record` writes the trace and `Enqueue` the queue item, and the
endpoints in threads may run between the two; a review is
`Open`, `SetStatus`, `SetDecision`, `SetResponse`, `SetAction`, each one assignment in a
thread.

* `ReviewsAreDelivered`: pending items show the request as the pipeline left it, an item
  reviewed once shows that review, and an action is the pipeline's or some decision's.

`MCScripts` puts the two side by side with `script`, as `MCSharing` does.

## 3. The runs

| Run | Instance | Shows |
|---|---|---|
| `pipeline_one_claim` | 1 claim, 2 loops, each stage may raise once; 1.6 million states | the safety properties and `ImplementsGraph` |
| `pipeline_two_claims` | 2 claims (symmetric), 1 loop, a06 to a09 may stop half way | `AnswerIsBacked`, which depends on several claims |
| `pipeline_reviser_down` | reviser raising forever, fairness | `Terminates` |
| `pipeline_ceiling` | reviser raises twice | **violated** `ImplementsGraph` |
| `review_three` | 3 calls (symmetric), 2 items of either origin, 4 texts: the draft, two revisions (symmetric), a notice; 26 thousand states | `TraceAgrees`, `EscalationIsPending`, `RevisedTextStands` |
| `review_alone` | the same calls one at a time; 51 thousand states | the refinement of `ReviewRecord` |
| `review_overwritten` | 2 calls, 1 item | **violated** `DecisionsNotOverwritten` |
| `assessment` | 2 claims, scores and risks on each side of each bound; 755 thousand states | all properties of `Assessment` |
| `policy` | 8 risks around the bounds, every task and profile, extreme models and overrides | all properties of `Policy` |
| `serving` | 3 requests in three mixes of routes and credentials, 1 connection, 1 thread, limit 1, 2 windows, 1 crash; 490 thousand states | all properties of `Serving`, liveness included |
| `sharing` | 3 pipelines with 2 calls each; 2 retrievals, 2 tenants, 2 documents, TTL 2 in 3 instants; 2 threads, 2 models, 1 promotion, 1 restart; 3.5 million states (symmetric) | the properties of `Usage`, `EvidenceCache` and `Registry` |
| `scripts` | 2 items of 1 call and up to 1 claim; 2 prompts, 2 reviews (symmetric); 477 thousand states | the properties of `LocalEval` and `DemoServer` |

Why the bounds are enough. Agents treat claims alike and look at another claim only in
the contradiction scan and in propagation, so two claims show every pairwise effect;
the proofs cover any number. Two revision loops are the configured default, and
`MaxRevisionLoops` is a constant in the proofs. Scores and risks are taken on each side
of each threshold. Three calls on an item let one decision be lost under another while a
third holds a copy of the first; two revision texts let calls agree or differ, and each may
also bring the draft or the notice of a rejection.

In `serving` one connection, one thread and a limit of one make every resource the
bottleneck, and three requests are what a circular wait takes: one that holds, one the loop
waits for, one that needs a thread; the crash may fall on any step. In `sharing` a third
pipeline can publish its gateway between two calls of the others; two retrievals show a slow
search overtaking a fast one; with a TTL of two, an entry is served at the instant after it
was stored and gone at the next, and a search may outlast it. Two documents let a search
find one and miss the other. In `scripts` two items are an abandoned pipeline and one it
disturbs. `CallBudget`, `Calls`, `MaxClaims`, `LastTime`, `LastWindow`, `Promotions`,
`Restarts` and `CrashBudget` bound what the code leaves unbounded.

Deadlock is checked in the pipeline, assessment and policy runs, whose modules stutter
explicitly at their end (`Terminated`). In the others everything may be over: all items
reviewed, all requests answered, the clock at its bound.

**Fairness.** `Terminates` needs `WF_vars(Next)`: one thread executes the request, every
statement returns or raises, and model calls have timeouts; nothing is assumed about
which outcome a stage has. `EveryoneServed` needs weak fairness of `Step(r)` and
`JobStep(r)`: the loop and the threads go on and the pool's timer runs out. Clients, the
clock, the limiter's window and crashes owe nothing. Weak fairness is enough because
each wait ends by an action of its own (`LoopTimesOut`) that stays enabled
while no connection is returned, and because a request waiting for a thread is passed
over only by finitely many others.

## 4. Findings

1. `pipeline_ceiling`. `docs/architecture.md` says the loop executes the nodes of the
   graph. When the reviser raises twice (not counted), the `for` loop is used up right
   after a decomposition, and the decision is taken on claims nobody analysed: with risk
   0 and verdict `unverified` they spend no budget, and a high-stakes request is not
   escalated.
2. `review_overwritten`. `docs/security-review.md` says decisions are appended, not
   overwritten. Two calls that both read `pending` both commit.

Observed while modelling, without a run of their own:

* Decision. The action defaults to `answer`: if a03 raises (an override naming a
  non-numeric attribute is enough), generation and decision raise too and an empty draft
  is delivered as an answer (`orchestration/state.py:77`); the properties of `Pipeline`
  exclude requests without a policy for this reason. A claim supported by a08 and found
  contradicted by a09 on the last pass is answered with the reason "evidence sufficient
  and consistent" (`a12_abstention.py:137`). A claim left `unverified` by a raising
  verifier can be answered, which FR-8 of `docs/SRS.md` excludes.
* Policy. A comment and the architecture document bound overrides to 0.3 of loosening; the clip
  (`a03_policy_controller.py:34-36`) bounds them from below only, and creativity and the
  escalation threshold are loosened by raising them. A field can reach -0.3, a negative
  creativity giving a negative sampling temperature; any override of `candidates` gives
  exactly one. The learned blend has no floor for grounding, creativity or escalation.
  The rules' escalation threshold (0.5 + 0.55 * risk) exceeds the largest disagreement
  of three votes (2/3) for risks above 0.3. The tenant's stored profile (FR-20) is never
  read by generation.
* Review. An approval keeps the banner that says the response is queued for review. Two
  overlapping calls can leave an approval's action under a recorded rejection. A recorded
  revision can be missing from the response: call 1 commits a text, call 2, which passed
  the check before, loads it and brings the same text, a rejection commits, and call 2
  commits with nothing to write to the request (`routes_review.py:133`); a double
  submission, or a revision that repeats the draft, is enough. In the
  demo server an approval after a rejection leaves the withheld text with action
  `answer`.
* Serving. Where the framework closes sessions last, the background job never finds its
  run and the run is rolled back: a client holds an id that never existed.
* Usage. NLI calls go on the bill of the pipeline that started last, also after it was
  stored; retries that fail are billed by the provider and metered nowhere; the usage
  stored and the usage answered can differ.
* Evidence. A slow search overwrites the newer entry of a fast one and starts its hour
  anew; intensities on the same side of 0.7 share a key, so the first to search decides
  the size of the pool for the others.
* Models. A file read while it is promoted, or missing, is remembered as absent until
  the process restarts; the risk model and the calibrator in use may come from different
  retrainings.
* Local evaluation. Grading's NLI calls count as the item's tokens; `latest.txt` can be
  left empty by a death at the wrong moment; `os._exit(0)` reports success after an
  exception; the deltas compare averages over unequal sets of items.

## 5. The proofs

The theorems say `Spec => []P`, `Spec => [][A]_vars` or `Spec => Abstract!Spec`, for all
values of the constants under the named assumptions of the modules. Of the properties the
passing runs check, only the two liveness properties are not stated by a theorem.

**PipelineProofs** (`TypeCorrect`, `Invariant`, `DecisionsRestOnAnalysis`,
`RiskReachesTheQueue`, `RevisionsHaveWork`, `RecordsMatchResponses`, `AnswersAreBacked`,
`PipelineImplementsGraph`, `EveryStepAdvances`). Types apart, none of these properties is
inductive. `LoopCount` counts: each pass but the current one was paid for by a counted
revision or by an exception of the reviser, so `iter = loops + faults["revise"] + 1` within
a pass. The loop goes on only while `loops < MaxRevisionLoops`, hence the ceiling
`MaxRevisionLoops + 2` needs two exceptions. So with at most one, the loop is left by its
`break`, after a scored pass (`LoopExit`). `RiskCarried` takes the claim that made the last
pass risky to the decision, where it is over any high-stakes budget, to the action and to
the queue row. `PipelineImplementsGraph` assumes that the reviser raises at most once;
finding 1 shows the assumption is needed. `AnswersAreBacked` follows the critical claims
from the verifier to the decision: with the loop left by its `break`, they were judged after
the last draft was decomposed. `RecordsMatchResponses` says where draft and claims may
differ: between a generation or a revision and the decomposition that follows it on every
path. `EveryStepAdvances` is the part of `Terminates` that needs no fairness: `StepsLeft`,
the passes left times the six stages of a pass plus the stages left, is a natural number
that every step lowers and that never exceeds `6 * (MaxRevisionLoops + 2) + 14`. With an
agent that fails for good, too, the request is through after that many steps.

**ReviewQueueProofs** (`TypeCorrect`, `Invariant`, `TraceFollowsQueue`,
`RevisionIsDelivered`, `EscalationsEnd`, `OneCallIsCurrent`, `QueueImplementsRecord`). What
a lost update can do to a text is limited by where texts come from: whatever a response,
or the copy an open call holds, says is the draft or was brought by a decision that has
committed (`SaidBefore`). A revision with a text of another kind therefore differs from
the copy its call loaded, is in the UPDATE, and stands when it is the recorded decision.
Nor can a lost update leave an escalation behind: the first to commit loaded the action
the request was stored with, and no later decision wants "escalate" (`Escalations`).
`QueueImplementsRecord` and `OneCallIsCurrent` are about `SequentialSpec`: with one call
open at a time a loaded copy stays current (`CallsAreCurrent`), and each commit is a
decision of `ReviewRecord`.

**AssessmentProofs** (`Types`, `LevelsMatch`, `FloorsHold`, `MajoritiesStand`). Propagation
lifts a score to at most half of another, 0.5 after rounding, below the 0.6 of the level
"high" (`Scored`); a visited claim never depends on one still to be visited, so what it was
lifted against no longer moves (`Settled`). `MajoritiesStand` is about three voters whose
weights are 0.5 to 1.5, 0.7 or 1.2, and 0.6: `WeightedMajority` compares the weighted mean
with its thresholds 0.66 and 0.25 for every combination and every score of the first.

**RefinementProofs** (`VerifyingHolds`, `PassImplementsPipeline`, `DangerIsEscalated`). The
invariant `Verifying` says what a verification that is under way may leave behind when an
exception ends it: a claim still to be judged has no verdict, one without passages at most
`insufficient` and no contradiction score (`Fits`), and without an exception every claim
visited is judged (`Covered`). From it each of the eight actions is a stutter or one step of
`Pipeline` under the mapping, with the witnesses written out (`SimulationStep`). `Decide` is
the hard one: `Pipeline` knows only that one critical claim of high risk is *certainly* over
budget. The budget is a sum over the checkable claims, taken by a fold; `ConsumedIsASum`
bounds it from below by any of its terms, by induction on the finite set (`LeastSubset`: a
non-empty set of subsets of a finite set has a smallest one). A term of such a claim is at
least 0.3, the tolerances of high-stakes and factual requests are at most 0.2
(`BudgetIsSpent`). `DangerIsEscalated` is what follows for the caller: unless there is
no draft to speak of, no score of another claim, no disagreement and no threshold keeps such
a high-stakes pass from a person.

**PolicyProofs** (`Types`, `RiskyVerified`, `RiskyRevised`, `LooseningIsBounded`,
`DisagreementsHaveRoom`). `Stages`
says what each step made of the rules' vector: a key is visited once, so a field is
lowered once by an override, from a value the blend did not lower below the profile's.
The bounds are then arithmetic on the coefficients.

**ServingProofs** (`TypeCorrect`, `ConnectionsAreAccounted`, `RateIsRespected`,
`RunsAreRecorded`, `NobodyWaitsForNobody`, `EveryStepAdvances`), for any mix of requests,
pool, threads, limit and crashes. The
answers of Redis to the requests of one window are distinct numbers (`Counted`), so
mapping a request let through to its number is an injection into `1..Limit`.
`PoolAccounted` is its own invariant, taken one request at a time (`Holder`): a step of
one request leaves what is said of the others alone. `RunRecorded` needs that a job
belongs to an announced evaluation, whose row its job can see (`Announced`).

`NobodyWaitsForNobody` is deadlock freedom, the part of `EveryoneServed` that needs no
fairness. `CanGoOn(r)` writes out the guards of `r`'s steps (`NobodyGoesOnOtherwise` proves
that no step is taken without them; TLC has compared them with `ENABLED` on every
state of the instance `serving`, which is no proof of the other direction). When nobody can
go on, no thread is busy, so no job or request waits for one; the loop then waits
for a connection, which is free or whose wait the pool ends, so it does not wait either; and
then there is nobody left to wait. `EveryStepAdvances` adds that a step
takes one request or its job forward in a finite order and leaves the others where they are.
What is left to fairness is only that each gets its turn.

**SharingProofs** (`BillsAreExactTogether`, `BillOfOneAlone`, `EvidenceIsNotMixedUp`,
`DelayIsBounded`, `FilesAreReadOnce`, with the invariants `UsageInvariance`,
`CacheInvariance`, `RegistryInvariance`). `SharingIsEach` shows that a behaviour of
`MCSharing`, where one module moves and the others rest, is one of each module, so what is
proved of a module holds of the run (`SharingTypes` among it). *Usage*: a pending call is not
answered yet (`PendingIsNew`), so it lands on one bill; a pipeline that met no other
owns the gateway while it runs and is nobody's target (`Alone`). *EvidenceCache*: an entry,
and a result, is sound: it holds documents of its tenant, and every committed one that its
search could not have found became visible only when that search had begun (`Sound`);
entries carry the tenant and strictness of their key and are younger than the TTL
(`EntriesSound`). A result is that of the retrieval's own search, which began after the
retrieval, or was served while it was alive and held evidence (`ResultsSound`). Nothing is
assumed of what a search picks. *Registry*: the lock is held by exactly the thread between the
second look and the end of the read (`LockIsExclusive`), which therefore reads a name that
is still unknown and whose file is there (`ReadsAreDue`).

**ScriptsProofs** (`EveryItemCounts`, `TokensAreExact`, `PointerNeverTorn`,
`ReviewsDelivered`, with `EvalInvariance` and `DemoInvariance`; `ScriptsAreEach` and
`ScriptsTypes` as above). *LocalEval*: an item that the loop has passed has exactly one
outcome and the one at hand has none (`OneOutcome`, `AtHand`); a calibration row comes after
the last training row (`Rows`). As long as nothing timed out, the pipelines of later items
have not begun (`Unbegun`) and the published meter is that of the item at hand, which holds
just the calls of its pipeline and its grading (`OneAtATime`); the finished row keeps that
number (`CleanTokens`). The pointer is written after the files (`PointerFollows`).
*DemoServer*: the request of an item nobody opened stands as the pipeline left it, and when
one call alone is reviewing it, the call's program counter says which of its assignments the
trace shows (`TraceFollowsReview`); an item leaves `pending` with the first of them
(`ReviewsAreOfEntries`).

The assumptions are the named ones in the modules (bounds are natural numbers, inputs
lie in the ranges the code's types give them, placeholders such as `NoRequest` are not
members), those in the theorems that need them, that the reviser raises at most once and
that calls of `resolve` come one at a time (`SequentialSpec`), the range of a learned
model's predictions (`ModelsAssumption`), and what is said above of the atomicity of charging.

Only model-checked: `Terminates` and `EveryoneServed`. Liveness under fairness is out of the
installed provers' reach; their safety halves are the rank and deadlock theorems above. The
induction theorems of the library take an operator as a parameter and cannot be used either;
the one induction the proofs need, over finite sets, is done with the well-foundedness of
strict inclusion, which needs none. No proved module uses recursive operators. Of the two
properties that runs find violated, `ImplementsGraph` is proved under the assumption that
finding 1 shows to be needed; `DecisionsNotOverwritten` is false.

## 6. What is not modelled, and what is left

Numbers of the learned models, embeddings and rankings, prompts and parsing are data
that no modelled control reads; where they decide something they are free choices.
Calibration is the choice `unsure` in `Assessment`. Configuration is validated once at
start-up, telemetry, hashing and redaction are functions of one input, migrations and
seeds run once and alone; report generators and the dashboard format what is stored. The
admin routes write one row each; `Serving` takes them as reads. The content of the audit
trace and of the queue item's reason is text no modelled behaviour reads, so what an
audit agent that raises leaves out of them is noted as a hazard and not checked.

What would add most, in order:

1. `Policy` composed with `Assessment`: the thresholds computed by one and used by the
   other, where `DisagreementHasRoom` speaks of the threshold alone.
2. The audit trace as data of `Pipeline`, with `Pipeline`'s record as the input of
   `ReviewQueue`: what a reviewer sees of a request whose audit agent raised.
3. Abstract specifications: a bounded buffer for the pool, a map with expiry for the
   cache, a job record for evaluation runs.
