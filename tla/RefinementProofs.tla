---------------------------- MODULE RefinementProofs ----------------------------
(***************************************************************************)
(* The computed pass is one that Pipeline allows, for any number of claims *)
(* and whatever the models return.                                         *)
(***************************************************************************)
EXTENDS AssessmentProofs

--------------------------------------------------------------------------------
\* Sums over a set, which the library defines by recursion on its subsets

\* A set of subsets of a finite set has a smallest one.
LEMMA LeastSubset ==
    ASSUME NEW S, IsFiniteSet(S), NEW B \in SUBSET SUBSET S, B # {}
    PROVE  \E s \in B : \A t \in SUBSET s : t # s => t \notin B
  <1>1. IsWellFoundedOn(StrictSubsetOrdering(S), FiniteSubsetsOf(S))
    BY FS_StrictSubsetOrderingWellFounded
  <1>2. B \subseteq FiniteSubsetsOf(S)
    BY FS_FiniteSubsetsOfFinite
  <1>3. PICK s \in B : \A t \in B : <<t, s>> \notin StrictSubsetOrdering(S)
    BY <1>1, <1>2, WFMin
  <1>4. ASSUME NEW t \in SUBSET s, t # s, t \in B PROVE FALSE
    BY <1>3, <1>4 DEF StrictSubsetOrdering
  <1>5. QED
    BY <1>4

\* What the fold takes from a set next.
Some(t) == CHOOSE x \in t : TRUE

LEMMA SomeIn == \A t : t # {} => Some(t) \in t
  BY DEF Some

\* g sums w over each set in D.
Sums(g, w, D) == g = [t \in D |-> IF t = {} THEN 0 ELSE w[Some(t)] + g[t \ {Some(t)}]]

UpTo(S, s) == {t \in SUBSET S : Cardinality(t) <= Cardinality(s)}

\* The recursion has a solution.
LEMMA SumExists ==
    ASSUME NEW S, IsFiniteSet(S), NEW w \in [S -> Nat]
    PROVE  \E g : Sums(g, w, SUBSET S)
  <1> DEFINE B == {s \in SUBSET S : ~ \E g : Sums(g, w, UpTo(S, s))}
  <1>0. \A t \in SUBSET S : IsFiniteSet(t) /\ Cardinality(t) \in Nat
    BY FS_Subset, FS_CardinalityType
  <1>1. B = {}
    <2>1. SUFFICES ASSUME B # {} PROVE FALSE
      OBVIOUS
    <2>2. PICK s \in B : \A t \in SUBSET s : t # s => t \notin B
      <3>1. B \in SUBSET SUBSET S
        OBVIOUS
      <3> HIDE DEF B
      <3>2. QED
        BY <2>1, <3>1, LeastSubset
    <2>3. s \in SUBSET S /\ ~ \E g : Sums(g, w, UpTo(S, s))
      BY <2>2
    <2>4. CASE s = {}
      <3>1. UpTo(S, s) = {{}}
        BY <2>3, <2>4, <1>0, FS_EmptySet DEF UpTo
      <3>2. Sums([t \in {{}} |-> 0], w, {{}})
        BY DEF Sums
      <3>3. QED
        BY <2>3, <3>1, <3>2
    <2>5. CASE s # {}
      <3> DEFINE r == s \ {Some(s)}
      <3>1. Some(s) \in s
        BY <2>5, SomeIn
      <3>2. r \in SUBSET S /\ r \notin B
        BY <2>2, <2>3, <3>1
      <3>3. PICK g : Sums(g, w, UpTo(S, r))
        BY <3>2
      <3>4. Cardinality(r) = Cardinality(s) - 1
        BY <1>0, <2>3, <3>1, FS_RemoveElement
      <3> DEFINE h == [t \in UpTo(S, s) |->
                          IF t = {} THEN 0 ELSE w[Some(t)] + g[t \ {Some(t)}]]
      <3> HIDE DEF r
      <3>5. ASSUME NEW t \in UpTo(S, s), t # {}
            PROVE  t \ {Some(t)} \in UpTo(S, r) /\ Some(t) \in S
        <4>1. Some(t) \in t /\ t \in SUBSET S
          BY <3>5, SomeIn DEF UpTo
        <4>2. Cardinality(t \ {Some(t)}) = Cardinality(t) - 1
          BY <1>0, <4>1, FS_RemoveElement
        <4>3. Cardinality(t) <= Cardinality(s)
          BY DEF UpTo
        <4>4. Cardinality(t \ {Some(t)}) <= Cardinality(r)
          BY <1>0, <2>3, <3>4, <4>1, <4>2, <4>3
        <4>5. QED
          BY <4>1, <4>4 DEF UpTo
      <3>6. \A t \in UpTo(S, r) : t \in UpTo(S, s) /\ h[t] = g[t]
        <4>1. TAKE t \in UpTo(S, r)
        <4>2. t \in UpTo(S, s)
          BY <1>0, <2>3, <3>2, <3>4 DEF UpTo
        <4>3. QED
          BY <3>3, <4>2 DEF Sums
      <3>7. ASSUME NEW t \in UpTo(S, s), t # {}
            PROVE  g[t \ {Some(t)}] = h[t \ {Some(t)}]
        BY <3>5, <3>6, <3>7
      <3>8. Sums(h, w, UpTo(S, s))
        BY <3>7 DEF Sums
      <3>9. QED
        BY <2>3, <3>8
    <2>6. QED
      BY <2>4, <2>5
  <1>2. \E g : Sums(g, w, UpTo(S, S))
    BY <1>1
  <1>3. UpTo(S, S) = SUBSET S
    BY FS_Subset DEF UpTo
  <1>4. QED
    BY <1>2, <1>3

\* A sum is no less than any of its terms, and the sum of nothing is 0.
LEMMA SumBounds ==
    ASSUME NEW S, IsFiniteSet(S), NEW w \in [S -> Nat], NEW g, Sums(g, w, SUBSET S)
    PROVE  /\ g[S] \in Nat
           /\ \A x \in S : w[x] <= g[S]
           /\ S = {} => g[S] = 0
  <1> DEFINE Bounded(s) == g[s] \in Nat /\ \A x \in s : w[x] <= g[s]
             B == {s \in SUBSET S : ~Bounded(s)}
  <1>1. B = {}
    <2>1. SUFFICES ASSUME B # {} PROVE FALSE
      OBVIOUS
    <2>2. PICK s \in B : \A t \in SUBSET s : t # s => t \notin B
      <3>1. B \in SUBSET SUBSET S
        OBVIOUS
      <3> HIDE DEF B
      <3>2. QED
        BY <2>1, <3>1, LeastSubset
    <2>3. s \in SUBSET S /\ ~Bounded(s)
      BY <2>2
    <2>4. s # {}
      BY <2>3 DEF Sums
    <2> DEFINE r == s \ {Some(s)}
    <2>5. Some(s) \in s /\ r \in SUBSET S /\ r \notin B
      BY <2>2, <2>3, <2>4, SomeIn
    <2>6. g[s] = w[Some(s)] + g[r]
      BY <2>3, <2>4 DEF Sums
    <2>7. g[r] \in Nat /\ \A x \in r : w[x] <= g[r]
      BY <2>5
    <2>8. \A x \in s : w[x] \in Nat /\ (x = Some(s) \/ x \in r)
      BY <2>3
    <2>9. Bounded(s)
      <3> HIDE DEF r
      <3>1. QED
        BY <2>5, <2>6, <2>7, <2>8
    <2>10. QED
      BY <2>3, <2>9
  <1>2. QED
    BY <1>1 DEF Sums

--------------------------------------------------------------------------------
\* The hallucination budget

\* What a claim consumes of it.
Cost == [c \in Claims |-> claims[c].risk * claims[c].crit]

Spending == {c \in CheckableClaims : claims[c].verdict # "supported"}

LEMMA ConsumedIsASum ==
    ASSUME TypeOK
    PROVE  /\ [c \in Spending |-> Cost[c]] \in [Spending -> Nat]
           /\ \E g : /\ Sums(g, [c \in Spending |-> Cost[c]], SUBSET Spending)
                     /\ Consumed = g[Spending]
  <1>1. IsFiniteSet(Spending) /\ Spending \subseteq Claims
    <2>1. IsFiniteSet(Claims)
      BY SizeAssumption, FS_Interval DEF Claims
    <2>2. QED
      BY <2>1, FS_Subset DEF Spending, CheckableClaims
  <1> DEFINE w == [c \in Spending |-> Cost[c]]
  <1>2. w \in [Spending -> Nat]
    <2>1. ASSUME NEW c \in Claims PROVE claims[c].risk * claims[c].crit \in Nat
      <3>1. claims[c].risk \in Nat /\ claims[c].crit \in Nat
        <4>1. claims[c].risk \in RiskScore /\ claims[c].crit \in Hundredths
          BY DEF TypeOK, ClaimType
        <4>2. RiskScore \subseteq Nat /\ Hundredths \subseteq Nat
          BY DEF RiskScore, Hundredths
        <4>3. QED
          BY <4>1, <4>2
      <3>2. QED
        BY <3>1
    <2>2. QED
      BY <1>1, <2>1 DEF Cost
  <1> DEFINE Solves(f) == f = [s \in SUBSET Spending |->
                                  IF s = {} THEN 0
                                  ELSE LET x == CHOOSE x \in s : TRUE
                                       IN  claims[x].risk * claims[x].crit + f[s \ {x}]]
             iter == CHOOSE f : Solves(f)
  <1>3. Consumed = iter[Spending]
    BY DEF Consumed, Spending, MapThenSumSet, MapThenFoldSet
  <1>4. PICK g : Sums(g, w, SUBSET Spending)
    <2> HIDE DEF w
    <2>1. QED
      BY <1>1, <1>2, SumExists
  <1>5. ASSUME NEW f PROVE Solves(f) <=> Sums(f, w, SUBSET Spending)
    <2>1. ASSUME NEW s \in SUBSET Spending, s # {}
          PROVE  w[Some(s)] = claims[Some(s)].risk * claims[Some(s)].crit
      BY <1>1, <2>1, SomeIn DEF Cost
    <2>2. QED
      BY <2>1 DEF Some, Sums
  <1>6. Solves(iter)
    <2>1. Solves(g)
      BY <1>4, <1>5
    <2> HIDE DEF Solves
    <2>2. QED
      BY <2>1
  <1>7. Sums(iter, w, SUBSET Spending)
    <2> HIDE DEF Solves, w
    <2>1. QED
      BY <1>5, <1>6
  <1>8. QED
    BY <1>2, <1>3, <1>7

LEMMA CheckableAreFinite == IsFiniteSet(Spending)
  <1>1. IsFiniteSet(Claims)
    BY SizeAssumption, FS_Interval DEF Claims
  <1>2. QED
    BY <1>1, FS_Subset DEF Spending, CheckableClaims

\* What the budget of each task type allows.
LEMMA ToleranceRange ==
    ASSUME TypeOK
    PROVE  /\ Tolerance \in Int /\ Tolerance >= 200
           /\ req.task \in {"high_stakes", "factual"} => Tolerance <= 2000
  <1>1. req.task \in TaskTypes /\ req.risk \in Hundredths
    BY RequestAssumption DEF TypeOK
  <1>2. req.risk \in Int /\ 0 <= req.risk /\ req.risk <= 100
    BY <1>1 DEF Hundredths
  <1>3. QED
    BY <1>1, <1>2 DEF Tolerance, TaskTypes

LEMMA ProductBound ==
    ASSUME NEW m \in Nat, NEW n \in Nat, m >= 6000, n >= 50
    PROVE  m * n >= 300000
  OBVIOUS

\* The budget is not exceeded unless some claim spends of it, and a claim of
\* high risk that matters exceeds the two tight ones by itself.
LEMMA BudgetIsSpent ==
    ASSUME TypeOK
    PROVE  /\ OverBudget => Spending # {}
           /\ req.task \in {"high_stakes", "factual"} =>
                 \A c \in Spending : claims[c].risk >= 6000 /\ claims[c].crit >= 50 => OverBudget
  <1> DEFINE w == [c \in Spending |-> Cost[c]]
  <1>1. PICK g : Sums(g, w, SUBSET Spending) /\ Consumed = g[Spending]
    BY ConsumedIsASum
  <1>2. w \in [Spending -> Nat]
    BY ConsumedIsASum
  <1>3. /\ Consumed \in Nat
        /\ \A c \in Spending : w[c] <= Consumed
        /\ Spending = {} => Consumed = 0
    <2> HIDE DEF w
    <2>1. QED
      BY <1>1, <1>2, CheckableAreFinite, SumBounds
  <1>4. ASSUME NEW c \in Spending, claims[c].risk >= 6000, claims[c].crit >= 50
        PROVE  w[c] >= 300000
    <2>1. w[c] = claims[c].risk * claims[c].crit
      BY DEF Cost, Spending, CheckableClaims
    <2>2. claims[c].risk \in RiskScore /\ claims[c].crit \in Hundredths
      BY DEF TypeOK, ClaimType, Spending, CheckableClaims
    <2>3. RiskScore \subseteq Nat /\ Hundredths \subseteq Nat
      BY DEF RiskScore, Hundredths
    <2>4. claims[c].risk \in Nat /\ claims[c].crit \in Nat
      BY <2>2, <2>3
    <2>5. QED
      BY <1>4, <2>1, <2>4, ProductBound
  <1>5. \A c \in Spending : w[c] \in Nat
    BY <1>2
  <1> HIDE DEF w
  <1>6. QED
    BY <1>3, <1>4, <1>5, ToleranceRange DEF OverBudget

--------------------------------------------------------------------------------
\* What agent 8 has done so far, when agent 9 or an exception ends it

NliOnly == [x \in {"nli"} |-> "insufficient"]

\* A claim still to be judged, or that is none to be judged, has no verdict;
\* one without passages is at most insufficient; only a claim with passages has
\* a contradiction score of its own.
Fits(claim, pending) ==
    /\ pending \/ claim.kind # "checkable" => claim.verdict = "unverified"
    /\ claim.kind = "checkable" /\ ~claim.cited => claim.verdict \in {"unverified", "insufficient"}
    /\ claim.kind # "checkable" \/ ~claim.cited => claim.contra = 0

\* Without an exception every checkable claim visited is judged; the claim at
\* which the agent raised is not, and has passages.
Covered ==
    IF raised
    THEN todo = {} /\ \E c \in CheckableClaims : claims[c].cited /\ claims[c].verdict = "unverified"
    ELSE \A c \in CheckableClaims \ todo : claims[c].verdict # "unverified"

Verifying ==
    pc = "verify" =>
        /\ \A c \in Claims : Fits(claims[c], c \in todo)
        /\ ballot.of \in todo => /\ Checkable(ballot.of)
                                 /\ ~claims[ballot.of].cited => ballot.votes = NliOnly
        /\ Covered

\* Nothing can be said of a claim without passages.
LEMMA NoPassagesNoVerdict ==
    ASSUME NEW e \in Hundredths, NEW v
    PROVE  ResolvedVerdict(Votes("insufficient", TRUE, v, FALSE), e) = "insufficient"
  <1> DEFINE votes == Votes("insufficient", TRUE, v, FALSE)
  <1>1. DOMAIN votes = {"nli"} /\ votes["nli"] = "insufficient"
    BY DEF Votes
  <1>2. e \in Int /\ 0 <= e
    BY DEF Hundredths
  <1> DEFINE Of(x) == IF x \in DOMAIN votes THEN Weight(x, votes[x], e) ELSE 0
             For(x) == IF x \in DOMAIN votes THEN VerdictScore(votes[x]) * Of(x) ELSE 0
  <1>3. /\ Of("nli") = 50 + e /\ Of("llm") = 0 /\ Of("falsifier") = 0
        /\ For("nli") = 40 * (50 + e) /\ For("llm") = 0 /\ For("falsifier") = 0
    BY <1>1 DEF Weight, VerdictScore
  <1>4. /\ Of("nli") + Of("llm") + Of("falsifier") = 50 + e
        /\ For("nli") + For("llm") + For("falsifier") = 40 * (50 + e)
    <2> HIDE DEF Of, For
    <2>1. QED
      BY <1>2, <1>3
  <1>5. ~(40 * (50 + e) >= 66 * (50 + e)) /\ ~(40 * (50 + e) <= 25 * (50 + e))
    BY <1>2
  <1>6. QED
    BY <1>4, <1>5 DEF ResolvedVerdict

LEMMA ResolvedIsVerdict ==
    ASSUME NEW votes, NEW e
    PROVE  ResolvedVerdict(votes, e) \in Verdicts
  BY DEF ResolvedVerdict, Verdicts

LEMMA VerifyingStep ==
    ASSUME TypeOK, Verifying, [Next]_vars
    PROVE  Verifying'
  <1>0. \A d \in Claims : claims[d] \in ClaimType
    BY DEF TypeOK
  <1>1. ASSUME NEW c \in Claims, Skip(c) PROVE Verifying'
    <2>1. /\ pc = "verify" /\ c \in todo /\ ~Checkable(c) /\ todo' = todo \ {c}
          /\ UNCHANGED <<pc, claims, ballot, raised>>
      BY <1>1 DEF Skip, AtHand
    <2>2. \A d \in Claims : Fits(claims'[d], d \in todo')
      BY <2>1 DEF Verifying, Fits
    <2>3. Covered'
      BY <2>1 DEF Verifying, Covered, CheckableClaims, Checkable
    <2>4. QED
      BY <2>1, <2>2, <2>3 DEF Verifying, Checkable
  <1>2. ASSUME NEW c \in Claims, Nli(c) PROVE Verifying'
    <2>1. /\ pc = "verify" /\ c \in todo /\ Checkable(c) /\ ballot'.of = c
          /\ UNCHANGED <<pc, todo, raised>>
      <3>1. \E votes : ballot' = [of |-> c, votes |-> votes]
        BY <1>2 DEF Nli
      <3>2. QED
        BY <1>2, <3>1 DEF Nli, AtHand
    <2>0. ~claims[c].cited => claims' = claims /\ ballot'.votes = NliOnly
      <3>1. ~claims[c].cited => claims' = claims /\ ballot' = [of |-> c, votes |-> NliOnly]
        BY <1>2 DEF Nli, NliOnly
      <3>2. QED
        BY <3>1
    <2>2. claims[c].cited => \E e, k : claims' = [claims EXCEPT ![c].entail = e, ![c].contra = k]
      BY <1>2 DEF Nli
    <2>3. \A d \in Claims :
             /\ claims'[d].kind = claims[d].kind /\ claims'[d].cited = claims[d].cited
             /\ claims'[d].verdict = claims[d].verdict
             /\ claims'[d].contra = claims[d].contra \/ (d = c /\ claims[c].cited)
      <3>1. CASE claims[c].cited
        <4>1. PICK e, k : claims' = [claims EXCEPT ![c].entail = e, ![c].contra = k]
          BY <2>2, <3>1
        <4>2. \A d \in Claims : claims'[d] = IF d = c
                 THEN [claims[c] EXCEPT !.entail = e, !.contra = k] ELSE claims[d]
          BY <4>1 DEF TypeOK
        <4>3. \E r : /\ claims'[c] = r /\ r.kind = claims[c].kind
                     /\ r.cited = claims[c].cited /\ r.verdict = claims[c].verdict
          <5>1. claims'[c] = [claims[c] EXCEPT !.entail = e, !.contra = k]
            BY <4>2
          <5>2. claims[c] \in ClaimType
            BY <1>0
          <5>3. QED
            BY <5>1, <5>2 DEF ClaimType
        <4>4. QED
          BY <3>1, <4>2, <4>3
      <3>2. CASE ~claims[c].cited
        BY <2>0, <3>2
      <3>3. QED
        BY <3>1, <3>2
    <2>4. \A d \in Claims : Fits(claims'[d], d \in todo')
      BY <2>1, <2>3 DEF Verifying, Fits, Checkable
    <2>5. Covered'
      BY <2>1, <2>3 DEF Verifying, Covered, CheckableClaims, Checkable
    <2>6. Checkable(c)' /\ (~claims'[c].cited => ballot'.votes = NliOnly)
      BY <2>0, <2>1, <2>3 DEF Checkable
    <2>7. QED
      BY <2>1, <2>4, <2>5, <2>6 DEF Verifying
  <1>3. ASSUME NEW c \in Claims, Resolve(c) PROVE Verifying'
    <2>1. /\ pc = "verify" /\ c \in todo /\ ballot.of = c /\ ballot'.of = c
          /\ claims' = [claims EXCEPT ![c] = Resolved(@, ballot'.votes)]
          /\ todo' = todo \ {c}
          /\ UNCHANGED <<pc, raised>>
      BY <1>3 DEF Resolve, AtHand
    <2>2. /\ \A d \in Claims \ {c} : claims'[d] = claims[d]
          /\ claims'[c] = Resolved(claims[c], ballot'.votes)
      BY <2>1 DEF TypeOK
    <2>3. /\ claims'[c].kind = claims[c].kind /\ claims'[c].cited = claims[c].cited
          /\ claims'[c].contra = claims[c].contra
          /\ claims'[c].verdict = ResolvedVerdict(ballot'.votes, claims[c].entail)
      BY <1>0, <2>2 DEF Resolved, ClaimType
    <2>4. Checkable(c) /\ (~claims[c].cited => ballot.votes = NliOnly)
      BY <2>1 DEF Verifying
    <2>5. claims'[c].verdict \in Verdicts
      BY <2>3, ResolvedIsVerdict
    <2>6. ~claims[c].cited => claims'[c].verdict = "insufficient"
      <3>1. SUFFICES ASSUME ~claims[c].cited PROVE claims'[c].verdict = "insufficient"
        OBVIOUS
      <3>2. PICK silent \in BOOLEAN, v \in Verdicts, falsified \in BOOLEAN :
               /\ ~silent => Consulted(c)
               /\ falsified => Probed(c)
               /\ ballot' = [of |-> c, votes |-> Votes(ballot.votes["nli"], silent, v, falsified)]
        BY <1>3 DEF Resolve
      <3>3. silent = TRUE /\ falsified = FALSE
        BY <3>1, <3>2 DEF Consulted, Probed
      <3>4. ballot.votes["nli"] = "insufficient"
        BY <2>4, <3>1 DEF NliOnly
      <3>5. claims[c].entail \in Hundredths
        BY <1>0 DEF ClaimType
      <3>6. QED
        BY <2>3, <3>2, <3>3, <3>4, <3>5, NoPassagesNoVerdict
    <2>7. \A d \in Claims : Fits(claims'[d], d \in todo')
      BY <2>1, <2>2, <2>3, <2>4, <2>6 DEF Verifying, Fits, Checkable
    <2>8. Covered'
      BY <2>1, <2>2, <2>3, <2>5 DEF Verifying, Covered, CheckableClaims, Checkable, Verdicts
    <2>9. QED
      BY <2>1, <2>7, <2>8 DEF Verifying
  <1>4. ASSUME NEW c \in Claims, Raise(c) PROVE Verifying'
    <2>1. /\ pc = "verify" /\ c \in todo /\ Checkable(c) /\ claims[c].cited
          /\ raised' = TRUE /\ todo' = {}
          /\ UNCHANGED <<pc, claims, ballot>>
      BY <1>4 DEF Raise, AtHand
    <2>2. claims[c].verdict = "unverified"
      BY <2>1 DEF Verifying, Fits
    <2>3. QED
      BY <2>1, <2>2 DEF Verifying, Fits, Covered, CheckableClaims, Checkable
  <1>5. CASE Contradict \/ Score \/ Creativity \/ Decide \/ \E c \in Claims : Propagate(c)
    BY <1>5 DEF Contradict, Score, Creativity, Decide, Propagate, Verifying
  <1>6. CASE UNCHANGED vars
    BY <1>6 DEF vars, Verifying, Covered, CheckableClaims, Checkable
  <1>7. QED
    BY <1>1, <1>2, <1>3, <1>4, <1>5, <1>6 DEF Next, Terminated

--------------------------------------------------------------------------------
\* The steps of the pass, as Pipeline sees them

\* Nothing but a claim's scores changes.
SameClaim(c) ==
    /\ claims'[c].kind = claims[c].kind
    /\ claims'[c].crit = claims[c].crit
    /\ claims'[c].cited = claims[c].cited

SameVerdict(c) ==
    claims'[c].verdict = claims[c].verdict /\ claims'[c].contra = claims[c].contra

\* While agent 8 is at work, Pipeline sees nothing.
LEMMA VerifyingStutters ==
    ASSUME pc = "verify", pc' = "verify", UNCHANGED action, \A c \in Claims : SameClaim(c)
    PROVE  UNCHANGED <<PipePc, PipeClaims, action>>
  <1>1. PipePc = "verify" /\ PipePc' = "verify"
    BY DEF PipePc
  <1>2. PipeClaims' = PipeClaims
    BY <1>1 DEF PipeClaims, SameClaim
  <1>3. QED
    BY <1>1, <1>2

\* Nor while the scores are propagated.
LEMMA ScoringStutters ==
    ASSUME pc # "verify", pc' # "verify", PipePc = "risk_scoring", PipePc' = "risk_scoring",
           UNCHANGED action, \A c \in Claims : SameClaim(c) /\ SameVerdict(c)
    PROVE  UNCHANGED <<PipePc, PipeClaims, action>>
  <1>1. PipeClaims' = PipeClaims
    BY DEF PipeClaims, SameClaim, SameVerdict
  <1>2. QED
    BY <1>1

\* The last step of the propagation is Pipeline's scoring.
LEMMA ScoringIsRiskScoring ==
    ASSUME pc # "verify", pc' # "verify", PipePc = "risk_scoring", PipePc' = "creativity",
           UNCHANGED <<action, req, raised>>, \A c \in Claims : SameClaim(c) /\ SameVerdict(c)
    PROVE  Pipe!RiskScoring
  <1> DEFINE level == [c \in Claims |-> IF claims'[c].level = "high" THEN "high" ELSE "low"]
  <1>1. Pipe!Ids = Claims
    BY DEF Pipe!Ids, PipeClaims
  <1>2. level \in [Claims -> {"low", "high"}]
    OBVIOUS
  <1>3. PipeClaims' = [c \in Claims |-> [PipeClaims[c] EXCEPT !.risk = level[c]]]
    BY DEF PipeClaims, SameClaim, SameVerdict
  <1>4. PipeAtRisk' = PipeAtRisk
    <2>1. PipeAtRisk = FALSE /\ PipeAtRisk' = FALSE
      BY DEF PipeAtRisk, PipePc
    <2>2. QED
      BY <2>1
  <1>5. (\E c \in Claims : claims[c].cited) = (\E c \in Claims : claims'[c].cited)
    BY DEF SameClaim
  <1>6. QED
    BY <1>1, <1>2, <1>3, <1>4, <1>5 DEF Pipe!RiskScoring, Pipe!Goto

\* No revision is left, so agent 10 is followed by the decision.
LEMMA CreativityIsCreativity ==
    ASSUME TypeOK, Creativity
    PROVE  Pipe!Creativity
  <1>1. PipePc = "creativity" /\ PipePc' = "decide" /\ pc # "verify" /\ pc' = "decide"
    BY DEF Creativity, PipePc
  <1>2. UNCHANGED <<req, claims, raised, action>>
    BY DEF Creativity
  <1>3. PipeClaims' = PipeClaims
    BY <1>1, <1>2 DEF PipeClaims
  <1>4. ~Pipe!NeedsRevision
    BY DEF Pipe!NeedsRevision
  <1>5. PipeAtRisk' = (\E c \in Pipe!CriticalUnsupported :
                          PipeClaims[c].kind = "checkable" /\ PipeClaims[c].risk = "high")
    BY <1>1, <1>2 DEF PipeAtRisk, PipeClaims, Pipe!CriticalUnsupported, Pipe!Ids,
                      CriticalUnsupported, Checkable
  <1>6. QED
    BY <1>1, <1>2, <1>3, <1>4, <1>5 DEF Pipe!Creativity, Pipe!Goto

\* A contradiction score after agent 9: the one it had, what the scan found, or
\* 0.6 for two claims that conflict.
LEMMA MaxIsOneOfThree ==
    ASSUME NEW x \in Int, NEW y \in Int, NEW z \in Int
    PROVE  Max({x, y, z}) \in {x, y, z} /\ z <= Max({x, y, z})
  <1>1. \E m \in {x, y, z} : \A n \in {x, y, z} : m >= n
    <2>1. CASE x >= y /\ x >= z
      BY <2>1
    <2>2. CASE y >= x /\ y >= z
      BY <2>2
    <2>3. CASE z >= x /\ z >= y
      BY <2>3
    <2>4. QED
      BY <2>1, <2>2, <2>3
  <1>2. /\ Max({x, y, z}) \in {x, y, z}
        /\ \A n \in {x, y, z} : Max({x, y, z}) >= n
    BY <1>1 DEF Max
  <1>3. Max({x, y, z}) >= z /\ Max({x, y, z}) \in Int
    BY <1>2
  <1>4. QED
    BY <1>2, <1>3

\* Agents 8 and 9 together are Pipeline's verification.
LEMMA ContradictIsVerify ==
    ASSUME TypeOK, Verifying, Contradict
    PROVE  Pipe!Verify
  <1>0. /\ pc = "verify" /\ todo = {} /\ pc' = "risk_scoring"
        /\ PipePc = "verify" /\ PipePc' = "risk_scoring"
        /\ UNCHANGED <<req, raised, action>>
    BY DEF Contradict, PipePc
  <1>1. PICK found \in [Claims -> Scores \cup {0}],
             pairs \in SUBSET (IF req.depth >= 1 THEN Conflicting ELSE {}) :
               claims' = [c \in Claims |-> [claims[c] EXCEPT !.contra =
                             Max({@, IF Rescanned(c) THEN found[c] ELSE 0,
                                  IF c \in UNION pairs THEN 60 ELSE 0})]]
    BY DEF Contradict
  <1>2. \A c \in Claims : SameClaim(c) /\ claims'[c].verdict = claims[c].verdict
    BY <1>1 DEF TypeOK, ClaimType, SameClaim
  <1>3. ASSUME NEW c \in Claims
        PROVE  /\ claims'[c].contra \in Int /\ claims[c].contra \in Int
               /\ c \in UNION pairs => claims'[c].contra >= 60
               /\ \/ claims'[c].contra <= claims[c].contra
                  \/ claims'[c].contra <= 0
                  \/ Checkable(c) /\ claims[c].cited
                  \/ c \in UNION pairs
    <2> DEFINE scan == IF Rescanned(c) THEN found[c] ELSE 0
               pair == IF c \in UNION pairs THEN 60 ELSE 0
               old == claims[c].contra
    <2>1. claims[c] \in ClaimType /\ old \in Hundredths /\ found[c] \in Scores \cup {0}
      BY DEF TypeOK, ClaimType
    <2>2. Hundredths \subseteq Int /\ Scores \cup {0} \subseteq Int
      <3>1. Hundredths \subseteq Int
        BY DEF Hundredths
      <3>2. QED
        BY <3>1, ScaleAssumption
    <2>3. old \in Int /\ scan \in Int /\ pair \in Int
      <3>1. old \in Int /\ found[c] \in Int
        BY <2>1, <2>2
      <3>2. QED
        BY <3>1
    <2>4. claims'[c].contra = Max({old, scan, pair})
      BY <1>1, <2>1 DEF ClaimType
    <2>5. Max({old, scan, pair}) \in {old, scan, pair} /\ pair <= Max({old, scan, pair})
      <3> HIDE DEF scan, pair, old
      <3>1. QED
        BY <2>3, MaxIsOneOfThree
    <2>6. scan = 0 \/ (Checkable(c) /\ claims[c].cited)
      BY DEF Rescanned
    <2>7. pair = 0 \/ c \in UNION pairs
      OBVIOUS
    <2>8. c \in UNION pairs => pair = 60
      OBVIOUS
    <2>9. QED
      <3> HIDE DEF scan, pair
      <3>1. QED
        BY <2>3, <2>4, <2>5, <2>6, <2>7, <2>8
  <1>4. ASSUME NEW c \in UNION pairs
        PROVE  /\ c \in Claims /\ claims[c].kind # "creative"
               /\ \E d \in (UNION pairs) \ {c} : d \in Claims /\ claims[d].kind # "creative"
    <2>1. PICK p \in pairs : c \in p
      OBVIOUS
    <2>2. p \in Conflicting
      BY <2>1
    <2>3. p \subseteq {d \in Claims : claims[d].kind # "creative"} /\ Cardinality(p) = 2
      BY <2>2 DEF Conflicting
    <2>4. \E d \in p : d # c
      <3>1. SUFFICES ASSUME p = {c} PROVE FALSE
        BY <2>1
      <3>2. Cardinality({c}) = 1
        BY FS_Singleton
      <3>3. QED
        BY <2>3, <3>1, <3>2
    <2>5. QED
      BY <2>1, <2>3, <2>4
  <1>5. /\ Pipe!Ids = Claims
        /\ PipeClaims = [c \in Claims |->
              [kind |-> claims[c].kind, critical |-> claims[c].crit >= 50,
               cited |-> claims[c].cited, verdict |-> "unverified", contra |-> 0,
               risk |-> "unscored"]]
    BY <1>0 DEF Pipe!Ids, PipeClaims
  <1> DEFINE verdict == [c \in Claims |-> claims[c].verdict]
             contra == [c \in Claims |-> PipeContra(claims'[c].contra)]
             judged == IF raised THEN {c \in Claims : claims[c].verdict # "unverified"} ELSE Claims
  <1>6. PipeClaims' = [c \in Claims |-> [PipeClaims[c] EXCEPT !.verdict = verdict[c],
                                                              !.contra = contra[c]]]
    BY <1>0, <1>2, <1>5 DEF PipeClaims, SameClaim
  <1>7. verdict \in [Claims -> Pipe!Verdicts] /\ contra \in [Claims -> Pipe!Contras]
    BY DEF Pipe!Verdicts, Pipe!Contras, PipeContra, TypeOK, ClaimType, Verdicts
  <1>8. \A c \in Claims :
           verdict[c] \in IF c \in judged THEN Pipe!VerdictsOf(c) ELSE {PipeClaims[c].verdict}
    BY <1>0, <1>5 DEF Verifying, Fits, Covered, CheckableClaims, Checkable, Pipe!VerdictsOf,
                      TypeOK, ClaimType, Verdicts
  <1>9. ASSUME NEW c \in Claims
        PROVE  \/ contra[c] = PipeClaims[c].contra
               \/ /\ c \in Pipe!Checkable /\ PipeClaims[c].cited
                  /\ contra[c] > PipeClaims[c].contra
               \/ /\ contra[c] = 2 /\ PipeClaims[c].kind # "creative"
                  /\ \E d \in Claims \ {c} : contra[d] = 2 /\ PipeClaims[d].kind # "creative"
    <2>1. CASE c \in UNION pairs
      <3>1. PICK d \in (UNION pairs) \ {c} : d \in Claims /\ claims[d].kind # "creative"
        BY <1>4, <2>1
      <3>2. \A x \in Claims : x \in UNION pairs => PipeContra(claims'[x].contra) = 2
        BY <1>3 DEF PipeContra
      <3>3. contra[c] = 2 /\ contra[d] = 2
        BY <2>1, <3>1, <3>2
      <3>4. claims[c].kind # "creative"
        BY <1>4, <2>1
      <3>5. PipeClaims[c].kind # "creative" /\ PipeClaims[d].kind # "creative"
        BY <1>5, <3>1, <3>4
      <3>6. QED
        BY <3>1, <3>3, <3>5
    <2>2. CASE Checkable(c) /\ claims[c].cited
      BY <1>5, <2>2 DEF PipeContra, Pipe!Checkable, Checkable
    <2>3. CASE c \notin UNION pairs /\ ~(Checkable(c) /\ claims[c].cited)
      <3>1. claims[c].contra = 0
        BY <1>0, <2>3 DEF Verifying, Fits, Checkable
      <3>2. claims'[c].contra <= 0
        BY <1>3, <2>3, <3>1
      <3>3. QED
        BY <1>3, <1>5, <3>2 DEF PipeContra
    <2>4. QED
      BY <2>1, <2>2, <2>3
  <1>10. \E touched \in SUBSET Claims :
            \/ /\ touched = Claims /\ judged = Claims
               /\ UNCHANGED [NothingDone EXCEPT !["verify"] =
                                IF raised /\ pc # "verify" THEN 1 ELSE 0]
            \/ /\ \E c \in Pipe!Checkable \ judged :
                     PipeClaims[c].cited /\ touched = judged \cup {c}
               /\ Pipe!Raises("verify")
    <2>1. CASE ~raised
      BY <1>0, <2>1
    <2>2. CASE raised
      <3>1. PICK c \in CheckableClaims : claims[c].cited /\ claims[c].verdict = "unverified"
        BY <1>0, <2>2 DEF Verifying, Covered
      <3>2. /\ c \in Pipe!Checkable \ judged /\ PipeClaims[c].cited
            /\ judged \cup {c} \in SUBSET Claims
        BY <1>5, <2>2, <3>1 DEF CheckableClaims, Checkable, Pipe!Checkable
      <3>3. Pipe!Raises("verify")
        BY <1>0, <2>2 DEF Pipe!Raises, NothingDone, PipeBudget, PipeFaults
      <3>4. QED
        BY <3>2, <3>3
    <2>3. QED
      BY <2>1, <2>2
  <1>11. PipeAtRisk' = PipeAtRisk
    <2>1. PipeAtRisk = FALSE /\ PipeAtRisk' = FALSE
      BY <1>0 DEF PipeAtRisk
    <2>2. QED
      BY <2>1
  <1>12. (\E c \in Claims : claims[c].cited) = (\E c \in Claims : claims'[c].cited)
    BY <1>2 DEF SameClaim
  <1>13. Pipe!Ids = Claims /\ judged \in SUBSET Claims
    BY <1>5
  <1> HIDE DEF judged, verdict, contra
  <1>14. PICK touched \in SUBSET Claims :
            \/ /\ touched = Claims /\ judged = Claims
               /\ UNCHANGED [NothingDone EXCEPT !["verify"] =
                                IF raised /\ pc # "verify" THEN 1 ELSE 0]
            \/ /\ \E c \in Pipe!Checkable \ judged :
                     PipeClaims[c].cited /\ touched = judged \cup {c}
               /\ Pipe!Raises("verify")
    BY <1>10
  <1>15. \A c \in Claims :
            \/ contra[c] = PipeClaims[c].contra
            \/ /\ c \in Pipe!Checkable /\ PipeClaims[c].cited
               /\ (c \in touched \/ contra[c] > PipeClaims[c].contra)
            \/ /\ contra[c] = 2 /\ PipeClaims[c].kind # "creative"
               /\ \E d \in Claims \ {c} : contra[d] = 2 /\ PipeClaims[d].kind # "creative"
    BY <1>9
  <1>16. /\ UNCHANGED <<PipeAtRisk, req, action, (\E c \in Claims : claims[c].cited)>>
         /\ PipePc = "verify" /\ Pipe!Goto("risk_scoring")
    BY <1>0, <1>11, <1>12 DEF Pipe!Goto
  <1> DEFINE
    Ended(d, t) ==
        \/ /\ "tight" # "none" /\ t = Pipe!Ids /\ d = Pipe!Ids
           /\ UNCHANGED [NothingDone EXCEPT !["verify"] =
                            IF raised /\ pc # "verify" THEN 1 ELSE 0]
        \/ /\ "tight" # "none"
           /\ \E c \in Pipe!Checkable \ d : PipeClaims[c].cited /\ t = d \cup {c}
           /\ Pipe!Raises("verify")
    Gave(d, t) ==
        \E v \in [Pipe!Ids -> Pipe!Verdicts] :
            /\ \A c \in Pipe!Ids :
                  v[c] \in IF c \in d THEN Pipe!VerdictsOf(c) ELSE {PipeClaims[c].verdict}
            /\ \E k \in [Pipe!Ids -> Pipe!Contras] :
                  /\ \A c \in Pipe!Ids :
                        \/ k[c] = PipeClaims[c].contra
                        \/ /\ c \in Pipe!Checkable /\ PipeClaims[c].cited
                           /\ (c \in t \/ k[c] > PipeClaims[c].contra)
                        \/ /\ k[c] = 2 /\ PipeClaims[c].kind # "creative"
                           /\ \E x \in Pipe!Ids \ {c} : k[x] = 2 /\ PipeClaims[x].kind # "creative"
                  /\ PipeClaims' = [c \in Pipe!Ids |-> [PipeClaims[c] EXCEPT !.verdict = v[c],
                                                                        !.contra = k[c]]]
  <1>17. Ended(judged, touched)
    BY <1>13, <1>14
  <1>18. Gave(judged, touched)
    <2>1. verdict \in [Pipe!Ids -> Pipe!Verdicts] /\ contra \in [Pipe!Ids -> Pipe!Contras]
      BY <1>7, <1>13
    <2>2. \A c \in Pipe!Ids : verdict[c] \in
             IF c \in judged THEN Pipe!VerdictsOf(c) ELSE {PipeClaims[c].verdict}
      BY <1>8, <1>13
    <2>3. \A c \in Pipe!Ids :
             \/ contra[c] = PipeClaims[c].contra
             \/ /\ c \in Pipe!Checkable /\ PipeClaims[c].cited
                /\ (c \in touched \/ contra[c] > PipeClaims[c].contra)
             \/ /\ contra[c] = 2 /\ PipeClaims[c].kind # "creative"
                /\ \E x \in Pipe!Ids \ {c} : contra[x] = 2 /\ PipeClaims[x].kind # "creative"
      BY <1>13, <1>15
    <2>4. PipeClaims' = [c \in Pipe!Ids |-> [PipeClaims[c] EXCEPT !.verdict = verdict[c],
                                                                 !.contra = contra[c]]]
      BY <1>6, <1>13
    <2>5. QED
      BY <2>1, <2>2, <2>3, <2>4
  <1>19. \E d, t \in SUBSET Pipe!Ids : Ended(d, t) /\ Gave(d, t)
    <2> HIDE DEF Ended, Gave
    <2>1. QED
      BY <1>13, <1>17, <1>18
  <1>20. QED
    BY <1>16, <1>19 DEF Pipe!Verify

\* The computed decision is one Pipeline allows: the budget is exceeded wherever
\* Pipeline says it certainly is, and only where it says it can be.
LEMMA DecideIsDecide ==
    ASSUME TypeOK, IInv, Decide
    PROVE  Pipe!Decide
  <1>1. /\ pc = "decide" /\ pc' = "finalize" /\ PipePc = "decide" /\ PipePc' = "finalize"
        /\ UNCHANGED <<req, claims, raised>>
    BY DEF Decide, PipePc
  <1>2. PICK unsure \in BOOLEAN : action' = Decided(unsure)
    BY DEF Decide
  <1>3. /\ Pipe!Ids = Claims
        /\ PipeClaims = [c \in Claims |->
              [kind |-> claims[c].kind, critical |-> claims[c].crit >= 50,
               cited |-> claims[c].cited, verdict |-> claims[c].verdict,
               contra |-> PipeContra(claims[c].contra),
               risk |-> IF claims[c].level = "high" THEN "high" ELSE "low"]]
    BY <1>1 DEF Pipe!Ids, PipeClaims
  <1>4. PipeClaims' = PipeClaims
    BY <1>1 DEF PipeClaims
  <1>5. Pipe!CriticalUnsupported = CriticalUnsupported
    BY <1>3 DEF Pipe!CriticalUnsupported, CriticalUnsupported
  <1>6. \A c \in Claims : Pipe!Spends(c) <=> c \in Spending
    BY <1>3 DEF Pipe!Spends, Spending, CheckableClaims, Checkable
  <1>7. OverBudget => \E c \in Pipe!Ids : Pipe!Spends(c)
    <2>1. Spending \subseteq Claims
      BY DEF Spending, CheckableClaims
    <2>2. QED
      BY <1>3, <1>6, <2>1, BudgetIsSpent
  <1>8. Pipe!CertainlyOver => OverBudget
    <2>1. SUFFICES ASSUME Pipe!CertainlyOver PROVE OverBudget
      OBVIOUS
    <2>2. req.task \in {"high_stakes", "factual"}
      BY <2>1 DEF Pipe!CertainlyOver
    <2>3. PICK c \in Claims : /\ Pipe!Spends(c) /\ PipeClaims[c].critical
                              /\ PipeClaims[c].risk = "high"
      BY <1>3, <2>1 DEF Pipe!CertainlyOver
    <2>4. c \in Spending /\ claims[c].crit >= 50 /\ claims[c].level = "high"
      BY <1>3, <1>6, <2>3
    <2>5. claims[c].risk >= 6000
      BY <1>1, <2>4 DEF IInv, LevelMatchesRisk, Propagated, LevelFits
    <2>6. QED
      BY <2>2, <2>4, <2>5, BudgetIsSpent
  <1> DEFINE text == IF req.hollow THEN "degenerate" ELSE "substantive"
             disagreed == IF Disagree THEN TRUE ELSE FALSE
             exceeded == IF OverBudget THEN TRUE ELSE FALSE
             gapped == IF Gap THEN TRUE ELSE FALSE
  <1>9. /\ disagreed \in BOOLEAN /\ exceeded \in BOOLEAN /\ gapped \in BOOLEAN
        /\ exceeded <=> OverBudget
    OBVIOUS
  <1>10. action' = Pipe!Decision(text = "degenerate" \/ FALSE, FALSE, disagreed, exceeded,
                                 unsure, gapped)
    BY <1>2, <1>5 DEF Decided, Pipe!Decision
  <1>11. PipeAtRisk' = PipeAtRisk
    <2>1. pc \in {"decide", "finalize"} /\ pc' \in {"decide", "finalize"}
      BY <1>1
    <2>2. QED
      BY <1>1, <2>1 DEF PipeAtRisk, CriticalUnsupported, Checkable
  <1>12. \E noClaims, offTopic, disagree, over, unsure_, gap \in BOOLEAN :
            /\ noClaims => Pipe!Ids = {} /\ req.task # "creative"
            /\ offTopic => (\E c \in Claims : claims[c].cited) /\ req.task # "creative"
            /\ Pipe!CertainlyOver => over
            /\ over => \E c \in Pipe!Ids : Pipe!Spends(c)
            /\ action' = Pipe!Decision(text = "degenerate" \/ noClaims,
                                      offTopic, disagree, over, unsure_, gap)
    <2> HIDE DEF text, disagreed, exceeded, gapped
    <2>1. QED
      BY <1>7, <1>8, <1>9, <1>10
  <1>13. QED
    BY <1>1, <1>4, <1>11, <1>12 DEF Pipe!Decide, Pipe!Goto

\* A step of the pass is a step of Pipeline's, or none.
PipelineStep ==
    \/ UNCHANGED <<PipePc, PipeClaims, action>>
    \/ Pipe!Verify \/ Pipe!RiskScoring \/ Pipe!Creativity \/ Pipe!Decide

LEMMA SimulationStep ==
    ASSUME TypeOK, IInv, Verifying, [Next]_vars
    PROVE  PipelineStep
  <1>0. \A d \in Claims : claims[d] \in ClaimType
    BY DEF TypeOK
  <1>1. ASSUME NEW c \in Claims, Skip(c) \/ Raise(c) PROVE PipelineStep
    BY <1>1, VerifyingStutters DEF Skip, Raise, AtHand, SameClaim, PipelineStep
  <1>2. ASSUME NEW c \in Claims, Nli(c) PROVE PipelineStep
    <2>1. pc = "verify" /\ pc' = "verify" /\ UNCHANGED action
      BY <1>2 DEF Nli, AtHand
    <2>2. \/ UNCHANGED claims
          \/ \E e, k : claims' = [claims EXCEPT ![c].entail = e, ![c].contra = k]
      BY <1>2 DEF Nli
    <2>3. \A d \in Claims : SameClaim(d)
      <3>1. ASSUME NEW e, NEW k, claims' = [claims EXCEPT ![c].entail = e, ![c].contra = k],
                   NEW d \in Claims
            PROVE  SameClaim(d)
        <4>1. claims'[d] = IF d = c THEN [claims[c] EXCEPT !.entail = e, !.contra = k]
                           ELSE claims[d]
          BY <3>1 DEF TypeOK
        <4>2. claims[c] \in ClaimType
          BY <1>0
        <4>3. QED
          BY <4>1, <4>2 DEF ClaimType, SameClaim
      <3>2. QED
        BY <2>2, <3>1 DEF SameClaim
    <2>4. QED
      BY <2>1, <2>3, VerifyingStutters DEF PipelineStep
  <1>3. ASSUME NEW c \in Claims, Resolve(c) PROVE PipelineStep
    <2>1. /\ pc = "verify" /\ pc' = "verify" /\ UNCHANGED action
          /\ claims' = [claims EXCEPT ![c] = Resolved(@, ballot'.votes)]
      BY <1>3 DEF Resolve, AtHand
    <2>2. \A d \in Claims : claims'[d] = IF d = c THEN Resolved(claims[c], ballot'.votes)
                                         ELSE claims[d]
      BY <2>1 DEF TypeOK
    <2>3. \A d \in Claims : SameClaim(d)
      <3>1. claims[c] \in ClaimType
        BY <1>0
      <3>2. SameClaim(c)
        BY <2>2, <3>1 DEF Resolved, ClaimType, SameClaim
      <3>3. QED
        BY <2>2, <3>2 DEF SameClaim
    <2>4. QED
      BY <2>1, <2>3, VerifyingStutters DEF PipelineStep
  <1>4. CASE Contradict
    BY <1>4, ContradictIsVerify DEF PipelineStep
  <1>5. CASE Score
    <2>1. /\ pc = "risk_scoring" /\ pc' = "propagate" /\ todo' = Claims
          /\ UNCHANGED <<req, raised, action>>
          /\ \E proba : claims' = [c \in Claims |-> [claims[c] EXCEPT
                                       !.risk = Rounded(proba[c]), !.level = Level(proba[c])]]
      BY <1>5 DEF Score
    <2>2. \A d \in Claims : SameClaim(d) /\ SameVerdict(d)
      <3>1. TAKE d \in Claims
      <3>2. claims[d] \in ClaimType
        BY <1>0
      <3>3. \E r, l : claims'[d] = [claims[d] EXCEPT !.risk = r, !.level = l]
        BY <2>1
      <3>4. QED
        BY <3>2, <3>3 DEF ClaimType, SameClaim, SameVerdict
    <2>3. PipePc = "risk_scoring" /\ PipePc' \in {"risk_scoring", "creativity"}
      BY <2>1 DEF PipePc
    <2>4. QED
      BY <2>1, <2>2, <2>3, ScoringStutters, ScoringIsRiskScoring DEF PipelineStep
  <1>6. ASSUME NEW c \in Claims, Propagate(c) PROVE PipelineStep
    <2>1. /\ pc = "propagate" /\ pc' = "propagate" /\ c \in todo
          /\ UNCHANGED <<req, raised, action>>
          /\ UNCHANGED claims \/ \E r : claims' = [claims EXCEPT ![c].risk = r]
      BY <1>6 DEF Propagate
    <2>2. \A d \in Claims : SameClaim(d) /\ SameVerdict(d)
      <3>1. ASSUME NEW r, claims' = [claims EXCEPT ![c].risk = r], NEW d \in Claims
            PROVE  SameClaim(d) /\ SameVerdict(d)
        <4>1. claims'[d] = IF d = c THEN [claims[c] EXCEPT !.risk = r] ELSE claims[d]
          BY <3>1 DEF TypeOK
        <4>2. claims[c] \in ClaimType
          BY <1>0
        <4>3. QED
          BY <4>1, <4>2 DEF ClaimType, SameClaim, SameVerdict
      <3>2. QED
        BY <2>1, <3>1 DEF SameClaim, SameVerdict
    <2>3. PipePc = "risk_scoring" /\ PipePc' \in {"risk_scoring", "creativity"}
      BY <2>1 DEF PipePc
    <2>4. QED
      BY <2>1, <2>2, <2>3, ScoringStutters, ScoringIsRiskScoring DEF PipelineStep
  <1>7. CASE Creativity
    BY <1>7, CreativityIsCreativity DEF PipelineStep
  <1>8. CASE Decide
    BY <1>8, DecideIsDecide DEF PipelineStep
  <1>9. CASE UNCHANGED vars
    BY <1>9 DEF vars, PipelineStep, PipePc, PipeClaims
  <1>10. QED
    BY <1>1, <1>2, <1>3, <1>4, <1>5, <1>6, <1>7, <1>8, <1>9 DEF Next, Terminated

\* While it verifies, the pass keeps to what Pipeline knows of an unfinished
\* verification.
THEOREM VerifyingHolds == Spec => []Verifying
  <1>1. Init => Verifying
    <2> SUFFICES ASSUME Init PROVE Verifying
      OBVIOUS
    <2>1. 0 \notin Claims
      BY SizeAssumption DEF Claims
    <2>2. \A c \in Claims : claims[c].verdict = "unverified" /\ claims[c].contra = 0
      BY FreshAssumption DEF Init
    <2>3. QED
      BY <2>1, <2>2 DEF Init, NoBallot, Verifying, Fits, Covered, CheckableClaims
  <1>2. TypeOK /\ Verifying /\ [Next]_vars => Verifying'
    BY VerifyingStep
  <1>3. QED
    BY <1>1, <1>2, Types, PTL DEF Spec

\* The computed pass implements Pipeline's: whatever votes, scores and budgets it
\* computes, each of its steps is one Pipeline allows, for any number of claims.
THEOREM PassImplementsPipeline == Spec => ImplementsPipeline
  <1>1. TypeOK /\ IInv /\ Verifying /\ [Next]_vars => [PipelineStep]_vars
    BY SimulationStep
  <1>2. Spec => [][PipelineStep]_vars
    BY <1>1, Types, Invariant, VerifyingHolds, PTL DEF Spec
  <1>3. QED
    BY <1>2, PTL DEF ImplementsPipeline, PipelineStep

--------------------------------------------------------------------------------
\* What the numbers add up to

\* A claim that must not reach the reader of a high-stakes answer.
Dangerous(c) ==
    /\ Checkable(c) /\ claims[c].crit >= 50
    /\ claims[c].verdict # "supported" /\ claims[c].level = "high"

\* A high-stakes draft with one such claim is escalated, not answered or banner-
\* marked, unless there is no draft to speak of.
DangerEscalates ==
    /\ pc = "finalize" /\ req.task = "high_stakes" /\ ~req.hollow
    /\ \E c \in Claims : Dangerous(c)
    => action = "escalate"

LEMMA DangerIsOverBudget ==
    ASSUME IInv, pc = "decide", req.task = "high_stakes", NEW c \in Claims, Dangerous(c)
    PROVE  OverBudget
  <1>1. c \in Spending /\ claims[c].crit >= 50
    BY DEF Dangerous, Spending, CheckableClaims
  <1>2. claims[c].risk >= 6000
    BY DEF IInv, LevelMatchesRisk, Propagated, LevelFits, Dangerous
  <1>3. QED
    BY <1>1, <1>2, BudgetIsSpent DEF IInv

LEMMA DangerStep ==
    ASSUME IInv, DangerEscalates, [Next]_vars
    PROVE  DangerEscalates'
  <1>1. CASE UNCHANGED vars
    BY <1>1 DEF vars, DangerEscalates, Dangerous, Checkable
  <1>2. CASE Decide
    <2>1. SUFFICES ASSUME req.task = "high_stakes", ~req.hollow,
                          NEW c \in Claims, Dangerous(c)
                   PROVE  action' = "escalate"
      BY <1>2 DEF Decide, DangerEscalates, Dangerous, Checkable
    <2>2. pc = "decide" /\ \E unsure \in BOOLEAN : action' = Decided(unsure)
      BY <1>2 DEF Decide
    <2>3. OverBudget
      BY <2>1, <2>2, DangerIsOverBudget
    <2>4. QED
      BY <2>1, <2>2, <2>3 DEF Decided
  <1>3. CASE \/ Contradict \/ Score \/ Creativity
             \/ \E c \in Claims : Skip(c) \/ Nli(c) \/ Resolve(c) \/ Raise(c) \/ Propagate(c)
    <2>1. pc' # "finalize"
      BY <1>3 DEF Contradict, Score, Creativity, Skip, Nli, Resolve, Raise, Propagate, AtHand
    <2>2. QED
      BY <2>1 DEF DangerEscalates
  <1>4. QED
    BY <1>1, <1>2, <1>3 DEF Next, Terminated

\* One critical checkable claim of high risk that the evidence does not support
\* is enough to send a high-stakes answer to a person, for any number of claims
\* and whatever the other scores, votes and thresholds are.
THEOREM DangerIsEscalated == Spec => []DangerEscalates
  <1>1. Init => DangerEscalates
    BY DEF Init, DangerEscalates
  <1>2. IInv /\ DangerEscalates /\ [Next]_vars => DangerEscalates'
    BY DangerStep
  <1>3. QED
    BY <1>1, <1>2, Invariant, PTL DEF Spec
================================================================================
