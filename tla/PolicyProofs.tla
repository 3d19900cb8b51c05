------------------------------ MODULE PolicyProofs ------------------------------
(***************************************************************************)
(* What is left of the rules' protection of a risky request, for every     *)
(* risk score, profile, learned model and set of overrides.                *)
(***************************************************************************)
EXTENDS Policy, TLAPS

--------------------------------------------------------------------------------
\* Arithmetic

\* Unit keeps a number in its range and is monotonic where it matters.
LEMMA UnitRange ==
    ASSUME NEW x \in Int
    PROVE  /\ Unit(x) \in Int /\ 0 <= Unit(x) /\ Unit(x) <= One
           /\ x <= One => Unit(x) >= x
           /\ x >= 0 => Unit(x) <= x
  BY DEF Unit, Clip, One

\* A blend of a score in range with a prediction stays in range and near them.
LEMMA BlendRange ==
    ASSUME NEW r \in Int, 0 <= r, r <= One, NEW m \in Int, m <= 2200000
    PROVE  /\ Blend(r, m) \in Int /\ 0 <= Blend(r, m) /\ Blend(r, m) <= One
           /\ 2 * Blend(r, m) <= r + Pct(110)
           /\ r >= 1000000 /\ m >= -200000 => Blend(r, m) >= Pct(20)
  BY DEF Blend, Unit, Clip, One, Pct

\* An override moves a score down by 0.3 at most and never above 1.
LEMMA OverriddenRange ==
    ASSUME NEW base \in Int, NEW val \in Int
    PROVE  /\ Overridden(base, val) \in Int
           /\ Overridden(base, val) <= One
           /\ base <= One => Overridden(base, val) >= base - Pct(30)
  BY DEF Overridden, Clip, One, Pct

\* The rules' values are numbers, and so are those of the profile.
LEMMA RuledInt ==
    ASSUME TypeOK, NEW f \in Fields
    PROVE  Ruled(f) \in Int
  <1>1. risk \in Int
    BY DEF TypeOK, Thousandths
  <1>2. Demand \in Int
    BY DEF TypeOK, Tasks, Demand
  <1> HIDE DEF Demand
  <1>3. \A n \in Int : /\ Pct(n) \in Int /\ OfDemand(n) \in Int
    BY <1>2 DEF Pct, OfDemand
  <1>4. QED
    BY <1>1, <1>2 DEF Ruled, Fields, Pct, OfRisk, OfCriticality, OfDemand, Clip

LEMMA ProfiledRange ==
    ASSUME TypeOK, NEW f \in Fields
    PROVE  /\ Unit(Ruled(f)) \in Int /\ 0 <= Unit(Ruled(f)) /\ Unit(Ruled(f)) <= One
           /\ Profiled(f) \in Int /\ 0 <= Profiled(f) /\ Profiled(f) <= One
           /\ Profiled(f) >= Unit(Ruled(f)) - Pct(15)
  <1>1. /\ Unit(Ruled(f)) \in Int /\ 0 <= Unit(Ruled(f)) /\ Unit(Ruled(f)) <= One
    BY RuledInt, UnitRange
  <1>2. Shift(f) \in Int /\ Shift(f) >= -15
    BY DEF Shift, TypeOK, Profiles, Fields
  <1> HIDE DEF Unit, Shift
  <1>3. Unit(Ruled(f)) + Pct(Shift(f)) \in Int
        /\ Unit(Ruled(f)) + Pct(Shift(f)) >= Unit(Ruled(f)) - Pct(15)
    BY <1>1, <1>2 DEF Pct
  <1>4. /\ Profiled(f) \in Int /\ 0 <= Profiled(f) /\ Profiled(f) <= One
    BY <1>3, UnitRange DEF Profiled
  <1>5. Profiled(f) >= Unit(Ruled(f)) - Pct(15)
    <2> DEFINE x == Unit(Ruled(f)) + Pct(Shift(f))
    <2>1. CASE x <= One
      BY <1>1, <1>3, <1>4, <2>1, UnitRange DEF Profiled, Pct
    <2>2. CASE x > One
      BY <1>1, <1>3, <2>2 DEF Profiled, Unit, Clip, One, Pct
    <2>3. QED
      BY <1>3, <2>1, <2>2 DEF One
  <1>6. QED
    BY <1>1, <1>4, <1>5

\* With risk above 0.6 the rules ask for so much depth that a profile leaves at
\* least 0.34 for any task, and 0.64 for the three that make plain claims.
LEMMA RiskyDepth ==
    ASSUME TypeOK, risk > 600
    PROVE  /\ Profiled("verification_depth") >= Pct(34)
           /\ task \in {"factual", "analytical", "high_stakes"}
              => Profiled("verification_depth") >= Pct(64)
  <1>1. risk \in Int /\ risk > 600
    BY DEF TypeOK, Thousandths
  <1> DEFINE v == Ruled("verification_depth")
  <1>2. v = 400000 + 1100 * risk + 350 * (1000 + risk) + 250000 - 6000 * Demand
    BY DEF Ruled, Pct, OfRisk, OfCriticality, OfDemand
  <1>3. /\ Demand \in Int /\ Demand <= 95
        /\ task \in {"factual", "analytical", "high_stakes"} => Demand <= 25
    BY DEF TypeOK, Tasks, Demand
  <1>4. /\ v \in Int /\ v >= 1300000
        /\ task \in {"factual", "analytical", "high_stakes"} => v >= 1600000
    <2> HIDE DEF v, Demand
    <2>1. QED
      BY <1>1, <1>2, <1>3
  <1>5. /\ Unit(v) \in Int /\ Unit(v) >= 1300000
        /\ task \in {"factual", "analytical", "high_stakes"} => Unit(v) >= 1600000
    <2> HIDE DEF v
    <2>1. QED
      BY <1>4 DEF Unit, Clip, One
  <1>6. "verification_depth" \in Fields
    BY DEF Fields
  <1>7. Profiled("verification_depth") >= Unit(v) - Pct(15)
        /\ Profiled("verification_depth") \in Int
    BY <1>6, ProfiledRange
  <1>8. QED
    <2> HIDE DEF v
    <2>1. QED
      BY <1>5, <1>7 DEF Pct

\* And for little enough creativity that half of it and half of any prediction
\* stay below 0.7, unless the task itself is creative.
LEMMA RiskyCreativity ==
    ASSUME TypeOK, risk > 600, task # "creative"
    PROVE  Profiled("creativity_allowance") + Pct(110) <= 2 * Pct(70)
  <1>1. risk \in Int /\ risk > 600
    BY DEF TypeOK, Thousandths
  <1> DEFINE c == Ruled("creativity_allowance")
  <1>2. c = 300000 + 16000 * Demand - 900 * risk - 300 * (1000 + risk)
    BY DEF Ruled, Pct, OfRisk, OfCriticality, OfDemand
  <1>3. Demand \in Int /\ Demand <= 55
    BY DEF TypeOK, Tasks, Demand
  <1>4. c \in Int /\ c <= 160000
    <2> HIDE DEF c, Demand
    <2>1. QED
      BY <1>1, <1>2, <1>3
  <1>5. Unit(c) \in Int /\ Unit(c) <= 160000
    <2> HIDE DEF c
    <2>1. QED
      BY <1>4 DEF Unit, Clip, One
  <1>6. Shift("creativity_allowance") \in Int /\ Shift("creativity_allowance") <= 20
    BY DEF Shift, TypeOK, Profiles
  <1>7. Profiled("creativity_allowance") <= 560000
    <2> DEFINE u == Unit(c)
               s == Shift("creativity_allowance")
    <2>1. u \in Int /\ u <= 160000 /\ s \in Int /\ s <= 20
      BY <1>5, <1>6
    <2>2. Profiled("creativity_allowance") = Unit(u + Pct(s))
      BY DEF Profiled
    <2> HIDE DEF u, s
    <2>3. QED
      BY <2>1, <2>2 DEF Unit, Clip, One, Pct
  <1>8. Profiled("creativity_allowance") \in Int
    BY ProfiledRange DEF Fields
  <1>9. QED
    BY <1>7, <1>8 DEF Pct

\* The escalation threshold of the rules, which no profile shifts: at least 0.5,
\* and within the reach of a disagreement of 2/3 up to a risk of 0.303.
LEMMA EscalationByRules ==
    ASSUME TypeOK
    PROVE  /\ Profiled("escalation_threshold") >= 1000000
           /\ 3 * Profiled("escalation_threshold") <= 2 * One <=> risk <= 303
  <1>1. risk \in Int /\ 0 <= risk /\ risk <= 1000
    BY DEF TypeOK, Thousandths
  <1>2. Ruled("escalation_threshold")
           = Clip(700000 + 800 * risk + 300 * (1000 + risk), 200000, 1900000)
    BY DEF Ruled, Pct, OfRisk, OfCriticality
  <1>3. Shift("escalation_threshold") = 0
    BY DEF Shift
  <1> DEFINE e == Ruled("escalation_threshold")
  <1>4. /\ e \in Int /\ e >= 1000000 /\ e <= One
        /\ 3 * e <= 2 * One <=> risk <= 303
    BY <1>1, <1>2 DEF Clip, One
  <1>5. Profiled("escalation_threshold") = Unit(Unit(e) + 0)
    BY <1>3 DEF Profiled, Pct
  <1> HIDE DEF e
  <1>6. Profiled("escalation_threshold") = e
    BY <1>4, <1>5 DEF Unit, Clip, One
  <1>7. QED
    BY <1>4, <1>6

--------------------------------------------------------------------------------
\* The inductive invariant

LEMMA InitInvariant == Init => IInv
  <1> SUFFICES ASSUME Init PROVE IInv
    OBVIOUS
  <1>1. risk \in Thousandths
    BY RisksAssumption DEF Init
  <1>2. /\ pv \in [Fields -> Int]
        /\ \A f \in Fields : 0 <= pv[f] /\ pv[f] <= One
    BY DEF Init, Pct, One
  <1>3. candidates \in Int
    BY DEF Init, One
  <1>4. \A f \in Fields : pv[f] >= 0 - Pct(30) /\ pv[f] <= One
    BY <1>2 DEF Pct
  <1>5. TypeOK
    BY <1>1, <1>2, <1>3, <1>4 DEF Init, TypeOK
  <1>6. QED
    BY <1>2, <1>5 DEF Init, IInv, InRange, Stages

\* Profiled and Floored are read off the request, which no step changes.
LEMMA RequestKept ==
    ASSUME TypeOK, [Next]_vars
    PROVE  /\ UNCHANGED request
           /\ \A f \in Fields : /\ Ruled(f)' = Ruled(f) /\ Profiled(f)' = Profiled(f)
                                /\ Floored(f)' = Floored(f)
  <1>1. UNCHANGED request
    BY DEF Next, Rule, ApplyProfile, Learned, Override, OverrideRaises, Assign, Terminated,
           vars, request
  <1>2. risk' = risk /\ task' = task /\ profile' = profile
    BY <1>1 DEF request
  <1>3. \A f \in Fields : Ruled(f)' = Ruled(f)
    BY <1>2 DEF Ruled, OfRisk, OfCriticality, OfDemand, Demand
  <1>4. \A f \in Fields : Shift(f)' = Shift(f) /\ Floored(f)' = Floored(f)
    BY <1>2 DEF Shift, Floored
  <1>5. QED
    BY <1>1, <1>3, <1>4 DEF Profiled

LEMMA RuleStep == IInv /\ Rule => IInv'
  <1> SUFFICES ASSUME IInv, Rule PROVE IInv'
    OBVIOUS
  <1>1. TypeOK /\ [Next]_vars /\ left = left' /\ overrides' = overrides
    BY DEF IInv, Rule, Next, request
  <1>2. \A f \in Fields : /\ pv'[f] = Unit(Ruled(f)) /\ Ruled(f)' = Ruled(f)
                          /\ pv'[f] \in Int /\ 0 <= pv'[f] /\ pv'[f] <= One
    BY <1>1, ProfiledRange, RequestKept DEF Rule
  <1>3. pv' \in [Fields -> Int]
    BY <1>2 DEF Rule
  <1>4. \A f \in Fields : pv'[f] >= 0 - Pct(30) /\ pv'[f] <= One
    BY <1>2 DEF Pct
  <1>5. candidates' \in Int
    BY DEF Rule, One
  <1>6. TypeOK'
    BY <1>1, <1>3, <1>4, <1>5 DEF Rule, TypeOK, request
  <1>7. InRange'
    BY <1>2 DEF InRange
  <1>8. Stages'
    BY <1>2 DEF Rule, Stages, Unit, Clip, One
  <1>9. QED
    BY <1>6, <1>7, <1>8 DEF IInv, Rule

LEMMA ProfileStep == IInv /\ ApplyProfile => IInv'
  <1> SUFFICES ASSUME IInv, ApplyProfile PROVE IInv'
    OBVIOUS
  <1>1. TypeOK /\ [Next]_vars /\ pc = "profile" /\ pc' = "learned" /\ UNCHANGED request
    BY DEF IInv, ApplyProfile, Next
  <1>2. \A f \in Fields : /\ pv'[f] = Profiled(f) /\ Profiled(f)' = Profiled(f)
                          /\ pv'[f] \in Int /\ 0 <= pv'[f] /\ pv'[f] <= One
    <2>1. TAKE f \in Fields
    <2>2. pv[f] = Unit(Ruled(f))
      BY <1>1 DEF IInv, Stages
    <2>3. pv'[f] = Profiled(f)
      BY <2>2 DEF ApplyProfile, Profiled
    <2>4. QED
      BY <1>1, <2>3, ProfiledRange, RequestKept
  <1>3. pv' \in [Fields -> Int]
    BY <1>2 DEF ApplyProfile
  <1>4. \A f \in Fields : pv'[f] >= 0 - Pct(30) /\ pv'[f] <= One
    BY <1>2 DEF Pct
  <1>5. TypeOK'
    BY <1>1, <1>3, <1>4 DEF ApplyProfile, TypeOK, request
  <1>6. InRange'
    BY <1>2 DEF InRange
  <1>7. Stages'
    BY <1>1, <1>2 DEF Stages
  <1>8. QED
    BY <1>1, <1>5, <1>6, <1>7 DEF IInv, ApplyProfile

LEMMA LearnedStep == IInv /\ Learned => IInv'
  <1> SUFFICES ASSUME IInv, Learned PROVE IInv'
    OBVIOUS
  <1>1. /\ TypeOK /\ [Next]_vars /\ pc = "learned" /\ pc' = "override"
        /\ UNCHANGED request /\ left' = left /\ policy' = policy /\ candidates' = candidates
    BY DEF IInv, Learned, Next
  <1>2. ASSUME NEW f \in Fields
        PROVE  /\ pv[f] = Profiled(f) /\ Profiled(f)' = Profiled(f) /\ Floored(f)' = Floored(f)
               /\ Profiled(f) \in Int /\ 0 <= Profiled(f) /\ Profiled(f) <= One
    BY <1>1, ProfiledRange, RequestKept DEF IInv, Stages
  <1>3. /\ pv' \in [Fields -> Int]
        /\ \A f \in Fields :
              /\ pv'[f] \in Int /\ 0 <= pv'[f] /\ pv'[f] <= One
              /\ Floored(f) => pv'[f] >= Profiled(f)
              /\ ~Floored(f) => 2 * pv'[f] <= Profiled(f) + Pct(110)
    <2>1. CASE UNCHANGED pv
      <3>1. \A f \in Fields : 2 * pv[f] <= Profiled(f) + Pct(110)
        BY <1>2 DEF One, Pct
      <3>2. QED
        BY <1>1, <1>2, <2>1, <3>1 DEF TypeOK
    <2>2. ASSUME NEW m \in Models, pv' = [f \in Fields |-> Blended(f, m[f])]
          PROVE  /\ pv' \in [Fields -> Int]
                 /\ \A f \in Fields :
                       /\ pv'[f] \in Int /\ 0 <= pv'[f] /\ pv'[f] <= One
                       /\ Floored(f) => pv'[f] >= Profiled(f)
                       /\ ~Floored(f) => 2 * pv'[f] <= Profiled(f) + Pct(110)
      <3>1. ASSUME NEW f \in Fields
            PROVE  /\ pv'[f] \in Int /\ 0 <= pv'[f] /\ pv'[f] <= One
                   /\ Floored(f) => pv'[f] >= Profiled(f)
                   /\ ~Floored(f) => 2 * pv'[f] <= Profiled(f) + Pct(110)
        <4>1. m[f] \in Int /\ m[f] <= 2200000
          BY ModelsAssumption
        <4> DEFINE b == Blend(pv[f], m[f])
        <4>2. /\ b \in Int /\ 0 <= b /\ b <= One
              /\ 2 * b <= Profiled(f) + Pct(110)
          BY <1>2, <4>1, BlendRange
        <4>3. pv'[f] = IF Floored(f) THEN Larger(b, pv[f]) ELSE b
          BY <2>2 DEF Blended
        <4> HIDE DEF b
        <4>4. CASE Floored(f)
          BY <1>2, <4>2, <4>3, <4>4 DEF Larger
        <4>5. CASE ~Floored(f)
          BY <4>2, <4>3, <4>5
        <4>6. QED
          BY <4>4, <4>5
      <3>2. QED
        BY <2>2, <3>1
    <2>3. QED
      BY <2>1, <2>2 DEF Learned
  <1>4. \A f \in Fields : pv'[f] >= 0 - Pct(30) /\ pv'[f] <= One
    BY <1>3 DEF Pct
  <1>5. TypeOK'
    BY <1>1, <1>3, <1>4 DEF TypeOK, request
  <1>6. InRange'
    BY <1>3 DEF InRange
  <1>7. \A f \in Fields : Floored(f) => pv'[f] >= Profiled(f) - Pct(30)
    BY <1>2, <1>3 DEF Pct
  <1>8. pv'["escalation_threshold"] >= Pct(20)
    <2> DEFINE f == "escalation_threshold"
    <2>1. f \in Fields /\ ~Floored(f)
      BY DEF Fields, Floored
    <2>2. /\ pv[f] = Profiled(f) /\ pv[f] \in Int /\ 0 <= pv[f] /\ pv[f] <= One
          /\ pv[f] >= 1000000
      BY <1>1, <1>2, <2>1, EscalationByRules
    <2>3. CASE UNCHANGED pv
      BY <2>2, <2>3 DEF Pct
    <2>4. ASSUME NEW m \in Models, pv' = [g \in Fields |-> Blended(g, m[g])]
          PROVE  pv'[f] >= Pct(20)
      <3>1. m[f] \in Int /\ m[f] <= 2200000 /\ m[f] >= -200000
        BY <2>1, ModelsAssumption
      <3>2. pv'[f] = Blend(pv[f], m[f])
        BY <2>1, <2>4 DEF Blended
      <3>3. QED
        BY <2>2, <3>1, <3>2, BlendRange
    <2>5. QED
      BY <2>3, <2>4 DEF Learned
  <1>9. Stages'
    <2>1. ~Floored("creativity_allowance") /\ "creativity_allowance" \in Fields
      BY DEF Floored, Fields
    <2>2. QED
      BY <1>1, <1>2, <1>3, <1>7, <1>8, <2>1 DEF Stages
  <1>10. QED
    BY <1>1, <1>5, <1>6, <1>9 DEF IInv

\* A field is lowered once, from a value no model and no override has lowered.
LEMMA OverrideStep ==
    ASSUME IInv, NEW k \in Keys, Override(k)
    PROVE  IInv'
  <1>1. /\ TypeOK /\ [Next]_vars /\ pc = "override" /\ pc' = "override" /\ k \in left
        /\ UNCHANGED request /\ overrides' = overrides
        /\ left' = left \ {k} /\ policy' = policy
    BY DEF IInv, Override, Next, request
  <1>2. overrides[k] \in Int /\ k \in DOMAIN overrides
    BY <1>1, OverridesAssumption DEF TypeOK
  <1>3. ASSUME NEW f \in Fields
        PROVE  /\ pv[f] \in Int /\ pv[f] <= One /\ (Untouched(f) => 0 <= pv[f])
               /\ pv[f] >= 0 - Pct(30)
               /\ Profiled(f)' = Profiled(f) /\ Floored(f)' = Floored(f)
               /\ Profiled(f) \in Int
               /\ Floored(f) => /\ pv[f] >= Profiled(f) - Pct(30)
                                /\ Untouched(f) => pv[f] >= Profiled(f)
    BY <1>1, ProfiledRange, RequestKept DEF IInv, InRange, Stages, TypeOK
  <1>4. /\ pv' \in [Fields -> Int] /\ candidates' \in Int
        /\ \A f \in Fields : IF f = k THEN pv'[f] = Overridden(pv[f], overrides[f])
                                      ELSE pv'[f] = pv[f]
    <2>1. CASE k \in Fields
      <3>1. pv[k] \in Int
        BY <1>3, <2>1
      <3>2. Overridden(pv[k], overrides[k]) \in Int
        BY <1>2, <3>1, OverriddenRange
      <3>3. pv' = [pv EXCEPT ![k] = Overridden(pv[k], overrides[k])] /\ candidates' = candidates
        BY <2>1 DEF Override, Fields
      <3>4. QED
        BY <1>1, <2>1, <3>2, <3>3 DEF TypeOK
    <2>2. CASE k \notin Fields
      <3>1. pv' = pv
        BY <2>2 DEF Override
      <3>2. candidates' \in Int
        BY <1>1, <1>2, OverriddenRange, <2>2 DEF Override, TypeOK
      <3>3. QED
        BY <1>1, <2>2, <3>1, <3>2 DEF TypeOK
    <2>3. QED
      BY <2>1, <2>2
  <1>5. ASSUME NEW f \in Fields
        PROVE  /\ pv'[f] <= One /\ pv'[f] >= 0 - Pct(30)
               /\ Untouched(f)' => Untouched(f) /\ pv'[f] = pv[f]
               /\ Floored(f) => /\ pv'[f] >= Profiled(f) - Pct(30)
                                /\ Untouched(f)' => pv'[f] >= Profiled(f)
    <2>1. CASE f = k
      <3>1. Untouched(f) /\ ~Untouched(f)'
        BY <1>1, <1>2, <2>1 DEF Untouched
      <3>2. /\ pv'[f] \in Int /\ pv'[f] <= One /\ pv'[f] >= pv[f] - Pct(30)
        <4>1. pv'[f] = Overridden(pv[f], overrides[f])
          BY <1>4, <2>1
        <4>2. QED
          BY <1>2, <1>3, <2>1, <4>1, OverriddenRange
      <3>3. QED
        BY <1>3, <3>1, <3>2 DEF Pct
    <2>2. CASE f # k
      <3>1. pv'[f] = pv[f] /\ (Untouched(f)' => Untouched(f))
        BY <1>1, <1>4, <2>2 DEF Untouched
      <3>2. QED
        BY <1>3, <3>1
    <2>3. QED
      BY <2>1, <2>2
  <1>6. TypeOK'
    BY <1>1, <1>4, <1>5 DEF TypeOK, request
  <1>7. InRange'
    BY <1>3, <1>5 DEF InRange
  <1>8. Stages'
    <2>1. "creativity_allowance" \in Fields
      BY DEF Fields
    <2>2. Untouched("creativity_allowance")'
          => 2 * pv'["creativity_allowance"] <= Profiled("creativity_allowance") + Pct(110)
      BY <1>1, <1>5, <2>1 DEF IInv, Stages
    <2>3. "escalation_threshold" \in Fields
      BY DEF Fields
    <2>4. Untouched("escalation_threshold")' => pv'["escalation_threshold"] >= Pct(20)
      BY <1>1, <1>5, <2>3 DEF IInv, Stages
    <2>5. QED
      BY <1>1, <1>3, <1>5, <2>1, <2>2, <2>4 DEF Stages
  <1>9. QED
    BY <1>1, <1>6, <1>7, <1>8 DEF IInv

LEMMA Invariant == Spec => []IInv
  <1>1. Init => IInv
    BY InitInvariant
  <1>2. IInv /\ [Next]_vars => IInv'
    <2> SUFFICES ASSUME IInv, [Next]_vars PROVE IInv'
      OBVIOUS
    <2>1. CASE OverrideRaises \/ Assign \/ UNCHANGED vars
      <3>1. /\ TypeOK /\ pv' = pv /\ left' = left /\ candidates' = candidates
            /\ UNCHANGED request /\ policy' \in BOOLEAN
            /\ \/ pc' = pc
               \/ pc = "override" /\ pc' = "done"
            /\ policy' => pc' = "done" /\ left' = {}
        <4>1. CASE OverrideRaises
          <5>1. policy = FALSE
            BY <4>1 DEF IInv, TypeOK, OverrideRaises
          <5>2. QED
            BY <4>1, <5>1 DEF IInv, OverrideRaises, request
        <4>2. CASE Assign
          BY <4>2 DEF IInv, Assign, request
        <4>3. CASE UNCHANGED vars
          <5>1. policy \in BOOLEAN
            BY DEF IInv, TypeOK
          <5>2. QED
            BY <4>3, <5>1 DEF IInv, vars, request
        <4>4. QED
          BY <2>1, <4>1, <4>2, <4>3
      <3>2. \A f \in Fields : /\ Ruled(f)' = Ruled(f) /\ Profiled(f)' = Profiled(f)
                              /\ Floored(f)' = Floored(f)
        BY <3>1, RequestKept
      <3>3. \A f \in Fields : Untouched(f)' = Untouched(f)
        BY <3>1 DEF Untouched, request
      <3>4. TypeOK'
        BY <3>1 DEF TypeOK, request
      <3>5. InRange'
        BY <3>1, <3>3 DEF IInv, InRange
      <3>6. Stages'
        <4>1. {"creativity_allowance", "escalation_threshold"} \subseteq Fields
          BY DEF Fields
        <4>2. CASE pc' = pc
          BY <3>1, <3>2, <3>3, <4>1, <4>2 DEF IInv, Stages
        <4>3. CASE pc = "override" /\ pc' = "done"
          BY <3>1, <3>2, <3>3, <4>1, <4>3 DEF IInv, Stages
        <4>4. QED
          BY <3>1, <4>2, <4>3
      <3>7. QED
        BY <3>1, <3>4, <3>5, <3>6 DEF IInv
    <2>2. QED
      BY <2>1, RuleStep, ProfileStep, LearnedStep, OverrideStep DEF Next, Terminated
  <1>3. QED
    BY <1>1, <1>2, PTL DEF Spec

--------------------------------------------------------------------------------
\* Theorems

\* A policy field leaves the range the model class declares by at most 0.3, and
\* only where an override asked for it.
THEOREM Types == Spec => []TypeOK
  <1>1. IInv => TypeOK
    BY DEF IInv
  <1>2. QED
    BY <1>1, Invariant, PTL

\* Standard verification of risky requests survives every profile, every learned
\* model and, for plain factual tasks, every override.
THEOREM RiskyVerified == Spec => []RiskyIsVerified
  <1>1. IInv => RiskyIsVerified
    <2> SUFFICES ASSUME IInv, policy, risk > 600,
                        \/ task \in {"factual", "analytical", "high_stakes"}
                        \/ "verification_depth" \notin DOMAIN overrides
                 PROVE  ~Light
      BY DEF RiskyIsVerified
    <2> DEFINE f == "verification_depth"
    <2>1. f \in Fields /\ Floored(f) /\ pc = "done" /\ left = {}
      BY DEF Fields, Floored, IInv
    <2>2. /\ pv[f] \in Int /\ Profiled(f) \in Int
          /\ pv[f] >= Profiled(f) - Pct(30)
          /\ f \notin DOMAIN overrides => pv[f] >= Profiled(f)
      BY <2>1, ProfiledRange DEF IInv, TypeOK, Stages, Untouched
    <2>3. /\ Profiled(f) >= Pct(34)
          /\ task \in {"factual", "analytical", "high_stakes"} => Profiled(f) >= Pct(64)
      BY RiskyDepth DEF IInv
    <2>4. QED
      BY <2>2, <2>3 DEF Light, Pct
  <1>2. QED
    BY <1>1, Invariant, PTL

\* No profile, and no learned model within the range assumed of it, makes a risky
\* request that is not creative skip its revisions.
THEOREM RiskyRevised == Spec => []RiskyIsRevised
  <1>1. IInv => RiskyIsRevised
    <2> SUFFICES ASSUME IInv, policy, risk > 600, task # "creative",
                        "creativity_allowance" \notin DOMAIN overrides
                 PROVE  ~SkipsRevision
      BY DEF RiskyIsRevised
    <2> DEFINE f == "creativity_allowance"
    <2>1. pc = "done" /\ f \in Fields
      BY DEF IInv, Fields
    <2>2. pv[f] \in Int /\ 2 * pv[f] <= Profiled(f) + Pct(110)
      BY <2>1 DEF IInv, TypeOK, Stages, Untouched
    <2>3. Profiled(f) + Pct(110) <= 2 * Pct(70) /\ Profiled(f) \in Int
      BY <2>1, RiskyCreativity, ProfiledRange DEF IInv
    <2>4. QED
      BY <2>2, <2>3 DEF SkipsRevision, Pct
  <1>2. QED
    BY <1>1, Invariant, PTL

\* Profile, model and override together take at most 0.45 from each protection.
THEOREM LooseningIsBounded == Spec => []LooseningBounded
  <1>1. IInv => LooseningBounded
    <2> SUFFICES ASSUME IInv, policy,
                        NEW f \in {"verification_depth", "abstention_threshold",
                                   "citation_requirement"}, Floored(f)
                 PROVE  pv[f] >= Unit(Ruled(f)) - Pct(45)
      BY DEF LooseningBounded
    <2>1. f \in Fields /\ pc = "done"
      BY DEF Fields, IInv
    <2>2. pv[f] \in Int /\ pv[f] >= Profiled(f) - Pct(30)
      BY <2>1 DEF IInv, TypeOK, Stages
    <2>3. /\ Unit(Ruled(f)) \in Int /\ Profiled(f) \in Int
          /\ Profiled(f) >= Unit(Ruled(f)) - Pct(15)
      BY <2>1, ProfiledRange DEF IInv
    <2> HIDE DEF Unit
    <2>4. QED
      BY <2>2, <2>3 DEF Pct
  <1>2. QED
    BY <1>1, Invariant, PTL

\* The rules' escalation threshold is within the reach of disagreeing judges up to
\* a risk of 0.303 only, and no learned model within the range assumed of it brings
\* it near zero.
THEOREM DisagreementsHaveRoom == Spec => []DisagreementHasRoom
  <1>1. IInv => DisagreementHasRoom
    <2> DEFINE f == "escalation_threshold"
    <2> SUFFICES ASSUME IInv PROVE DisagreementHasRoom
      OBVIOUS
    <2>1. f \in Fields
      BY DEF Fields
    <2>2. pc = "learned" => (3 * pv[f] <= 2 * One <=> risk <= 303)
      BY <2>1, EscalationByRules DEF IInv, Stages
    <2>3. policy /\ f \notin DOMAIN overrides => pv[f] >= Pct(20)
      BY DEF IInv, Stages, Untouched
    <2>4. QED
      BY <2>2, <2>3 DEF DisagreementHasRoom
  <1>2. QED
    BY <1>1, Invariant, PTL

================================================================================
