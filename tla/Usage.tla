------------------------------- MODULE Usage -------------------------------
(***************************************************************************)
(* What the calls to the language model cost, and whose bill they go on.   *)
(*                                                                         *)
(* Every pipeline creates a UsageMeter and a Gateway that charges it, and  *)
(* publishes the gateway in a global of app.nlp.nli so that NLI judged by  *)
(* the language model is metered too.  The worker threads of a process     *)
(* share that global: NLI calls are charged to the pipeline that published *)
(* its gateway last, not to the one that makes them.                       *)
(*                                                                         *)
(* A meter is the set of calls it was charged for; calls, tokens and cost  *)
(* are read off that set together.  A meter's counters are only touched    *)
(* between two calls of the interpreter, so that charging is one step.     *)
(***************************************************************************)
EXTENDS Naturals

CONSTANTS
    Pipe,         \* the runs of the pipeline in one process
    NoPipe,       \* no gateway was published yet
    CallBudget    \* bound: calls to the language model by one pipeline

ASSUME UsageConstants == NoPipe \notin Pipe /\ CallBudget \in Nat

VARIABLES
    stage,        \* where each pipeline stands
    gateway,      \* nli._gateway, named by the pipeline it belongs to
    asked,        \* calls each pipeline has made
    target,       \* the meter that the pipeline's pending call will be charged to
    meter,        \* the calls charged to each pipeline's meter
    answered,     \* history: the calls the model has answered
    stored,       \* the usage written to the database by _persist
    reported,     \* the usage in the answer
    met           \* history: pipelines that ran at the same time as another

usageVars == <<stage, gateway, asked, target, meter, answered, stored, reported, met>>

Call == Pipe \X (1..CallBudget)
Caller(c) == c[1]

Running(p) == stage[p] \in {"working", "calling", "persisted"}

UsageTypeOK ==
    /\ stage \in [Pipe -> {"idle", "working", "calling", "persisted", "failed", "done"}]
    /\ gateway \in Pipe \union {NoPipe}
    /\ asked \in [Pipe -> 0..CallBudget]
    /\ target \in [Pipe -> Pipe \union {NoPipe}]
    /\ meter \in [Pipe -> SUBSET Call]
    /\ answered \subseteq Call
    /\ stored \in [Pipe -> SUBSET Call]
    /\ reported \in [Pipe -> SUBSET Call]
    /\ met \subseteq Pipe

UsageInit ==
    /\ stage = [p \in Pipe |-> "idle"]
    /\ gateway = NoPipe
    /\ asked = [p \in Pipe |-> 0]
    /\ target = [p \in Pipe |-> NoPipe]
    /\ meter = [p \in Pipe |-> {}]
    /\ answered = {}
    /\ stored = [p \in Pipe |-> {}]
    /\ reported = [p \in Pipe |-> {}]
    /\ met = {}

\* set_gateway: what the global holds once p has started.
NeverPublished(p) == IF gateway = NoPipe THEN p ELSE gateway
Published(p) == p

\* run_pipeline starts: a meter, a gateway, and the global points to it.
StartPipe(p) ==
    /\ stage[p] = "idle"
    /\ stage' = [stage EXCEPT ![p] = "working"]
    /\ gateway' = Published(p)
    /\ met' = LET others == {q \in Pipe : Running(q)}
              IN IF others = {} THEN met ELSE met \union others \union {p}
    /\ UNCHANGED <<asked, target, meter, answered, stored, reported>>

\* The call leaves for the provider; the gateway it went through is bound.
Ask(p, m) ==
    /\ stage[p] = "working" /\ asked[p] < CallBudget
    /\ stage' = [stage EXCEPT ![p] = "calling"]
    /\ asked' = [asked EXCEPT ![p] = @ + 1]
    /\ target' = [target EXCEPT ![p] = m]
    /\ UNCHANGED <<gateway, meter, answered, stored, reported, met>>

\* An agent calls its own gateway.
AskModel(p) == Ask(p, p)

\* entail or best_support with the language model as its backend.
AskNLI(p) == Ask(p, gateway)

\* Gateway.complete charges the meter once the adapter has answered.
Charged(p) == [meter EXCEPT ![target[p]] = @ \union {<<p, asked[p]>>}]

Answer(p) ==
    /\ stage[p] = "calling"
    /\ stage' = [stage EXCEPT ![p] = "working"]
    /\ meter' = Charged(p)
    /\ answered' = answered \union {<<p, asked[p]>>}
    /\ UNCHANGED <<gateway, asked, target, stored, reported, met>>

\* The adapter raises after its retries; the agent that asked swallows it.
ChargedAnyway(p) == Charged(p)
MeterAfterFailure(p) == meter

Fail(p) ==
    /\ stage[p] = "calling"
    /\ stage' = [stage EXCEPT ![p] = "working"]
    /\ meter' = MeterAfterFailure(p)
    /\ UNCHANGED <<gateway, asked, target, answered, stored, reported, met>>

\* _persist reads the meter into the request's row, or the database refuses.
PersistUsage(p) ==
    /\ stage[p] = "working"
    /\ \/ /\ stage' = [stage EXCEPT ![p] = "persisted"]
          /\ stored' = [stored EXCEPT ![p] = meter[p]]
       \/ /\ stage' = [stage EXCEPT ![p] = "failed"]
          /\ UNCHANGED stored
    /\ UNCHANGED <<gateway, asked, target, meter, answered, reported, met>>

\* The route reads the meter again for the answer.
Respond(p) ==
    /\ stage[p] = "persisted"
    /\ stage' = [stage EXCEPT ![p] = "done"]
    /\ reported' = [reported EXCEPT ![p] = meter[p]]
    /\ UNCHANGED <<gateway, asked, target, meter, answered, stored, met>>

UsageStep(p) ==
    \/ StartPipe(p) \/ AskModel(p) \/ AskNLI(p) \/ Answer(p) \/ Fail(p)
    \/ PersistUsage(p) \/ Respond(p)

UsageNext == \E p \in Pipe : UsageStep(p)

UsageSpec == UsageInit /\ [][UsageNext]_usageVars

-----------------------------------------------------------------------------
\* Properties.

\* However the pipelines of a process interleave, every call the model answered
\* is on exactly one bill, and no bill holds a call that was not answered: the
\* sum over requests is exact even where the split is not (Gateway.complete,
\* set_gateway).
ChargedOnce ==
    /\ \A c \in answered : \E p \in Pipe : c \in meter[p]
    /\ \A p, q \in Pipe : p # q => meter[p] \intersect meter[q] = {}
    /\ \A p \in Pipe : meter[p] \subseteq answered

\* The calls of p that the model answered.
OwnCalls(p) == {c \in answered : Caller(c) = p}

\* A request that ran alone is billed for its own calls and nothing else, and
\* its row and its answer say the same, although the global may still point to
\* a pipeline of the past when it starts, and to it when others run later
\* (run_pipeline, _persist, generate).
AloneIsExact ==
    \A p \in Pipe \ met :
        /\ stage[p] = "done" => stored[p] = OwnCalls(p) /\ reported[p] = OwnCalls(p)
        /\ stage[p] = "persisted" => stored[p] = OwnCalls(p)
=============================================================================
