--------------------------------- MODULE Policy ---------------------------------
(***************************************************************************)
(* The operating point of a request: agent 3 and controller/arcop.py.  The *)
(* rules compute a policy vector from the request's risk and task type, a  *)
(* profile shifts it, a learned model is blended in, and the caller's      *)
(* overrides are applied one by one.  Profile, model and overrides each    *)
(* come from someone else; what the later agents rely on is what is left   *)
(* after all three.                                                        *)
(*                                                                         *)
(* Arithmetic is exact: One stands for 1.0, risk is in thousandths and     *)
(* criticality is 0.5 + 0.5 * risk, as agent 3 sets it.                    *)
(***************************************************************************)
EXTENDS Integers

CONSTANTS
    Risks,       \* the risk scores of agent 2
    Models,      \* what the learned policy may predict, functions on Fields
    Overrides    \* policy_overrides: functions from some of Keys to values

Fields == {"grounding_intensity", "verification_depth", "creativity_allowance",
           "citation_requirement", "abstention_threshold", "escalation_threshold"}

\* Besides the fields a caller may name the number of candidates, an attribute
\* that is not a number (rationale, depth_bucket, a method) or none at all.
Keys == Fields \cup {"candidates", "other_attribute", "no_attribute"}

Thousandths == 0 .. 1000
Tasks == {"factual", "analytical", "creative", "mixed", "high_stakes"}
Profiles == {"strict", "balanced", "creative"}

ASSUME RisksAssumption == \A r \in Risks : r \in Thousandths
\* Boosted trees fitted to targets in [0, 1] may overshoot; a tenth is allowed for.
ASSUME ModelsAssumption ==
    \A m \in Models : /\ m \in [Fields -> Int]
                     /\ \A f \in Fields : m[f] <= 2200000
                     /\ m["escalation_threshold"] >= -200000
ASSUME OverridesAssumption ==
    \A o \in Overrides : DOMAIN o \subseteq Keys /\ \A k \in DOMAIN o : o[k] \in Int

VARIABLES
    pc,          \* the step of agent 3
    risk,        \* state.risk_score
    task,        \* state.task_type
    profile,     \* state.policy_profile
    overrides,   \* state.policy_overrides
    pv,          \* the policy vector being built
    candidates,  \* its number of candidates
    left,        \* override keys the loop has still to visit
    policy       \* state.policy is set, to pv and candidates

vars == <<pc, risk, task, profile, overrides, pv, candidates, left, policy>>
request == <<risk, task, profile, overrides>>

One == 2000000
Pct(n) == 20000 * n
OfRisk(n) == 20 * n * risk
OfCriticality(n) == 10 * n * (1000 + risk)

\* _INTENT_CREATIVITY, in per cent
Demand ==
    CASE task = "factual" -> 5 [] task = "analytical" -> 25 [] task = "creative" -> 95
      [] task = "mixed" -> 55 [] task = "high_stakes" -> 0
OfDemand(n) == 200 * n * Demand

\* np.clip: when the bounds cross, the upper one wins.
Clip(x, low, high) ==
    LET raised == IF x < low THEN low ELSE x IN IF raised > high THEN high ELSE raised
Unit(x) == Clip(x, 0, One)
Larger(x, y) == IF x < y THEN y ELSE x

Init ==
    /\ pc = "rule"
    /\ risk \in Risks
    /\ task \in Tasks
    /\ profile \in Profiles
    /\ overrides \in Overrides
    /\ pv = [f \in Fields |-> IF f = "escalation_threshold" THEN Pct(70) ELSE Pct(50)]
    /\ candidates = One
    /\ left = DOMAIN overrides
    /\ policy = FALSE

\* _rule_policy before its clips; evidence coverage and source agreement are 0.5,
\* cost and latency budgets 1.
Ruled(f) ==
    CASE f = "grounding_intensity" ->
            Pct(35) + OfRisk(45) + OfCriticality(25) - OfDemand(30)
      [] f = "verification_depth" ->
            Pct(20) + OfRisk(55) + OfCriticality(35) + 250000 - OfDemand(30)
      [] f = "creativity_allowance" ->
            Pct(15) + OfDemand(80) - OfRisk(45) - OfCriticality(30)
      [] f = "citation_requirement" ->
            Pct(20) + OfCriticality(65) + OfRisk(40) - OfDemand(30)
      [] f = "abstention_threshold" ->
            Clip(Pct(20) + OfCriticality(45) + OfRisk(35) - Pct(15), Pct(5), Pct(90))
      [] f = "escalation_threshold" ->
            Clip(Pct(35) + OfRisk(40) + OfCriticality(30), Pct(10), Pct(95))

Rule ==
    /\ pc = "rule"
    /\ pv' = [f \in Fields |-> Unit(Ruled(f))]
    /\ candidates' = (IF Demand < 20 THEN 1 ELSE IF Demand > 70 THEN 3 ELSE 2) * One
    /\ pc' = "profile"
    /\ UNCHANGED <<request, left, policy>>

\* PROFILES, in per cent
Shift(f) ==
    IF f = "escalation_threshold" THEN 0
    ELSE CASE profile = "balanced" -> 0
           [] profile = "strict" ->
                (CASE f = "grounding_intensity" -> 15 [] f = "creativity_allowance" -> -10
                   [] f = "abstention_threshold" -> 10 [] OTHER -> 20)
           [] profile = "creative" ->
                (CASE f = "creativity_allowance" -> 20 [] f = "abstention_threshold" -> -5
                   [] OTHER -> -15)

\* _apply_profile
ApplyProfile ==
    /\ pc = "profile"
    /\ pv' = [f \in Fields |-> Unit(pv[f] + Pct(Shift(f)))]
    /\ pc' = "learned"
    /\ UNCHANGED <<request, candidates, left, policy>>

\* The fields the blend may not lower below the rules.
Floored(f) ==
    \/ f \in {"verification_depth", "abstention_threshold"} /\ risk > 600
    \/ f = "citation_requirement" /\ 1000 + risk > 1200

ModelOnly(r, m) == Unit(m)
Blend(r, m) == Unit((r + m) \div 2)

UnflooredBlend(f, m) == Blend(pv[f], m)
Blended(f, m) ==
    IF Floored(f) THEN Larger(Blend(pv[f], m), pv[f]) ELSE Blend(pv[f], m)

\* policy(): without an artifact, and when the prediction raises, the rules stand.
Learned ==
    /\ pc = "learned"
    /\ \/ UNCHANGED pv
       \/ \E m \in Models : pv' = [f \in Fields |-> Blended(f, m[f])]
    /\ pc' = "override"
    /\ UNCHANGED <<request, candidates, left, policy>>

\* "overrides may loosen at most 0.3 from the computed safe value"
UncappedOverride(base, val) == Larger(val, base - Pct(30))
FreeOverride(base, val) == Clip(val, 0, One)
Overridden(base, val) == Clip(val, base - Pct(30), One)

\* One turn of the loop over the overrides; a key that is no attribute is skipped.
Override(k) ==
    /\ pc = "override"
    /\ k \in left
    /\ left' = left \ {k}
    /\ \/ /\ k \in Fields
          /\ pv' = [pv EXCEPT ![k] = Overridden(@, overrides[k])]
          /\ UNCHANGED candidates
       \/ /\ k = "candidates"
          /\ candidates' = Overridden(candidates, overrides[k])
          /\ UNCHANGED pv
       \/ k = "no_attribute" /\ UNCHANGED <<pv, candidates>>
    /\ UNCHANGED <<pc, request, policy>>

\* An attribute without arithmetic or without setter raises; Agent.run goes on
\* without a policy.
OverrideRaises ==
    /\ pc = "override"
    /\ "other_attribute" \in left
    /\ pc' = "done"
    /\ UNCHANGED <<request, pv, candidates, left, policy>>

\* state.signals and state.policy are assigned last.
Assign ==
    /\ pc = "override"
    /\ left = {}
    /\ policy' = TRUE
    /\ pc' = "done"
    /\ UNCHANGED <<request, pv, candidates, left>>

Terminated == pc = "done" /\ UNCHANGED vars

Next ==
    \/ Rule \/ ApplyProfile \/ Learned
    \/ (\E k \in Keys : Override(k))
    \/ OverrideRaises \/ Assign
    \/ Terminated

Spec == Init /\ [][Next]_vars

--------------------------------------------------------------------------------
\* Properties

\* What PolicyVector.depth_bucket, n_pre_retrieve and needs_revision read.
Light == pv["verification_depth"] < Pct(34)
SkipsRevision == pv["creativity_allowance"] > Pct(70)

\* Every variable has its type; a field stays within 0.3 of the range the model
\* class declares, whatever a model predicts (ModelsAssumption) or the caller asks for.
TypeOK ==
    /\ pc \in {"rule", "profile", "learned", "override", "done"}
    /\ risk \in Thousandths /\ task \in Tasks /\ profile \in Profiles
    /\ overrides \in Overrides
    /\ pv \in [Fields -> Int]
    /\ \A f \in Fields : pv[f] >= 0 - Pct(30) /\ pv[f] <= One
    /\ candidates \in Int
    /\ left \subseteq DOMAIN overrides
    /\ policy \in BOOLEAN

\* No profile, no learned model and no override takes a risky factual, analytical
\* or high-stakes request below standard verification; and a risky request of
\* any type stays there unless the caller overrides the depth itself.
RiskyIsVerified ==
    policy /\ risk > 600
    /\ (task \in {"factual", "analytical", "high_stakes"}
        \/ "verification_depth" \notin DOMAIN overrides)
    => ~Light

\* No profile, and no learned model that predicts within a tenth of the [0, 1] it
\* was fitted to (ModelsAssumption), opens a risky request that is not creative so far that
\* needs_revision would leave its high-risk claims unrevised; only an override of
\* the creativity itself can.  The blend reaches 0.69 of the 0.70 tested.
RiskyIsRevised ==
    policy /\ risk > 600 /\ task # "creative"
    /\ "creativity_allowance" \notin DOMAIN overrides
    => ~SkipsRevision

\* Profile, model and override together lower what protects a risky request by
\* 0.45 at most: the model nothing, the profile 0.15, the override 0.3.
LooseningBounded ==
    policy =>
        \A f \in {"verification_depth", "abstention_threshold", "citation_requirement"} :
            Floored(f) => pv[f] >= Unit(Ruled(f)) - Pct(45)

\* The disagreement of a claim's judges is 1 - top/n for at most three votes, hence
\* at most 2/3 and, when they agree, 0; a12 escalates when it reaches the
\* threshold.  By the rules and any profile it can reach it just up to a risk of
\* 0.303: above that disagreement escalates nothing.  And a model that predicts
\* within a tenth of the [0, 1] it was fitted to (ModelsAssumption) leaves a threshold that the
\* caller does not override at 0.2 or more, so that requests whose judges agree
\* are not escalated for disagreement.
DisagreementHasRoom ==
    /\ pc = "learned" => (3 * pv["escalation_threshold"] <= 2 * One <=> risk <= 303)
    /\ policy /\ "escalation_threshold" \notin DOMAIN overrides
          => pv["escalation_threshold"] >= Pct(20)

--------------------------------------------------------------------------------
\* The inductive invariant: what each step has made of the rules' vector.

Profiled(f) == Unit(Unit(Ruled(f)) + Pct(Shift(f)))
Untouched(k) == k \notin DOMAIN overrides \/ k \in left

Stages ==
    /\ pc = "profile" => \A f \in Fields : pv[f] = Unit(Ruled(f))
    /\ pc = "learned" => \A f \in Fields : pv[f] = Profiled(f)
    /\ pc \in {"override", "done"} =>
          /\ \A f \in Fields : Floored(f) =>
                /\ pv[f] >= Profiled(f) - Pct(30)
                /\ Untouched(f) => pv[f] >= Profiled(f)
          /\ Untouched("creativity_allowance")
             => 2 * pv["creativity_allowance"] <= Profiled("creativity_allowance") + Pct(110)
          /\ Untouched("escalation_threshold") => pv["escalation_threshold"] >= Pct(20)

InRange == \A f \in Fields : pv[f] <= One /\ (Untouched(f) => pv[f] >= 0)

IInv == TypeOK /\ InRange /\ Stages /\ (policy => pc = "done" /\ left = {})
================================================================================
