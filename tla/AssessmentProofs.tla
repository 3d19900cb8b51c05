---------------------------- MODULE AssessmentProofs ----------------------------
(***************************************************************************)
(* What holds of a pass for any number of claims, whatever the models      *)
(* return and in whatever topological order the risk is propagated.        *)
(***************************************************************************)
EXTENDS Assessment, FiniteSetTheorems, TLAPS

--------------------------------------------------------------------------------
\* The numbers

\* Rounding keeps a score in its range and, but for 0.6 itself, on its side of
\* the bound of the level "high".
LEMMA RoundedLevel ==
    ASSUME NEW p \in Proba
    PROVE  /\ Rounded(p) \in RiskScore
           /\ Level(p) \in {"low", "medium", "high"}
           /\ LevelFits(Level(p), Rounded(p))
  BY DEF Rounded, Level, LevelFits, Proba, RiskScore

\* What a score is.
LEMMA ScoreRange ==
    /\ \A n \in RiskScore : n \in Int /\ 0 <= n /\ n <= 10000
    /\ \A n \in Int : 0 <= n /\ n <= 10000 => n \in RiskScore
  BY DEF RiskScore

\* Half a score, however rounded.
LEMMA DecayedBound ==
    ASSUME NEW n \in RiskScore, NEW f \in Decayed(n)
    PROVE  /\ f \in Int /\ 0 <= f /\ f <= MaxFloor
           /\ f <= n
           /\ n <= 2 * f + 1
  BY DEF Decayed, RiskScore, MaxFloor

\* The larger of two scores.
LEMMA LiftedBound ==
    ASSUME NEW own \in Int, NEW floor \in Int
    PROVE  /\ Lifted(own, floor) >= own
           /\ Lifted(own, floor) >= floor
           /\ Lifted(own, floor) = own \/ Lifted(own, floor) = floor
  BY DEF Lifted

\* The largest of three scores is one of them.
LEMMA MaxOfThree ==
    ASSUME NEW a \in Hundredths, NEW b \in Hundredths, NEW c \in Hundredths
    PROVE  Max({a, b, c}) \in Hundredths
  <1>1. \E x \in {a, b, c} : \A y \in {a, b, c} : x >= y
    <2>1. CASE a >= b /\ a >= c BY <2>1 DEF Hundredths
    <2>2. CASE b >= a /\ b >= c BY <2>2 DEF Hundredths
    <2>3. CASE c >= a /\ c >= b BY <2>3 DEF Hundredths
    <2>4. QED BY <2>1, <2>2, <2>3 DEF Hundredths
  <1>2. Max({a, b, c}) \in {a, b, c}
    BY <1>1 DEF Max
  <1>3. QED
    BY <1>2

\* The disagreement of at most three votes is a number of sixths.
LEMMA DisagreementType ==
    ASSUME NEW votes, DOMAIN votes \subseteq {"nli", "llm", "falsifier"}
    PROVE  Disagreement(votes) \in 0 .. 6
  <1> DEFINE n == Cardinality(DOMAIN votes)
             tops == {VotesFor(votes, v) : v \in Verdicts}
  <1>1. IsFiniteSet(DOMAIN votes) /\ n \in 0 .. 3
    <2>1. IsFiniteSet({"nli", "llm", "falsifier"})
          /\ Cardinality({"nli", "llm", "falsifier"}) <= 3
      <3>1. IsFiniteSet({"nli"}) /\ Cardinality({"nli"}) = 1
        BY FS_Singleton
      <3>2. IsFiniteSet({"nli"} \cup {"llm"}) /\ Cardinality({"nli"} \cup {"llm"}) \in 0 .. 2
        BY <3>1, FS_AddElement
      <3>3. IsFiniteSet(({"nli"} \cup {"llm"}) \cup {"falsifier"})
            /\ Cardinality(({"nli"} \cup {"llm"}) \cup {"falsifier"}) \in 0 .. 3
        BY <3>2, FS_AddElement
      <3>4. ({"nli"} \cup {"llm"}) \cup {"falsifier"} = {"nli", "llm", "falsifier"}
        OBVIOUS
      <3>5. QED
        BY <3>3, <3>4
    <2>2. IsFiniteSet(DOMAIN votes)
          /\ Cardinality(DOMAIN votes) <= Cardinality({"nli", "llm", "falsifier"})
      BY <2>1, FS_Subset
    <2>3. n \in Nat /\ Cardinality({"nli", "llm", "falsifier"}) \in Nat
      BY <2>1, <2>2, FS_CardinalityType
    <2>4. QED
      BY <2>1, <2>2, <2>3
  <1>2. \A v \in Verdicts : VotesFor(votes, v) \in 0 .. n
    <2>1. TAKE v \in Verdicts
    <2>2. {x \in DOMAIN votes : votes[x] = v} \subseteq DOMAIN votes
      OBVIOUS
    <2>3. IsFiniteSet({x \in DOMAIN votes : votes[x] = v})
          /\ Cardinality({x \in DOMAIN votes : votes[x] = v}) <= n
      BY <1>1, <2>2, FS_Subset
    <2>4. Cardinality({x \in DOMAIN votes : votes[x] = v}) \in Nat
      BY <2>3, FS_CardinalityType
    <2>5. QED
      BY <1>1, <2>3, <2>4 DEF VotesFor
  <1>3. Max(tops) \in 0 .. n
    <2>1. \E x \in tops : \A y \in tops : x >= y
      <3> DEFINE s == VotesFor(votes, "supported")
                 r == VotesFor(votes, "refuted")
                 i == VotesFor(votes, "insufficient")
      <3>1. tops = {s, r, i}
        BY DEF Verdicts
      <3>2. s \in Int /\ r \in Int /\ i \in Int
        BY <1>1, <1>2 DEF Verdicts
      <3> HIDE DEF tops, s, r, i
      <3>3. CASE s >= r /\ s >= i BY <3>1, <3>2, <3>3
      <3>4. CASE r >= s /\ r >= i BY <3>1, <3>2, <3>4
      <3>5. CASE i >= s /\ i >= r BY <3>1, <3>2, <3>5
      <3>6. QED BY <3>2, <3>3, <3>4, <3>5
    <2>2. Max(tops) \in tops
      BY <2>1 DEF Max
    <2>3. QED
      BY <1>2, <2>2
  <1> DEFINE top == Max(tops)
  <1>4. (IF n < 2 THEN 0 ELSE 6 - (6 * top) \div n) \in 0 .. 6
    <2> HIDE DEF n, top
    <2>1. CASE n < 2 BY <2>1
    <2>2. CASE n = 2 BY <1>3, <2>2 DEF top
    <2>3. CASE n = 3 BY <1>3, <2>3 DEF top
    <2>4. QED BY <1>1, <2>1, <2>2, <2>3
  <1>5. QED
    BY <1>4 DEF Disagreement

--------------------------------------------------------------------------------
\* Types

LEMMA InitInvariant == Init => IInv
  <1> SUFFICES ASSUME Init PROVE IInv
    OBVIOUS
  <1>1. claims \in [Claims -> ClaimType]
    BY FreshAssumption DEF Init
  <1>2. base \in [Claims -> RiskScore]
    BY DEF Init, RiskScore
  <1>3. TypeOK
    BY <1>1, <1>2 DEF Init, TypeOK
  <1>4. QED
    BY <1>3 DEF Init, IInv, Scored, Settled

LEMMA ContradictType == TypeOK /\ Contradict => claims' \in [Claims -> ClaimType]
  <1> SUFFICES ASSUME TypeOK, Contradict PROVE claims' \in [Claims -> ClaimType]
    OBVIOUS
  <1>1. PICK found \in [Claims -> Scores \cup {0}],
             pairs \in SUBSET (IF req.depth >= 1 THEN Conflicting ELSE {}) :
          claims' = [c \in Claims |-> [claims[c] EXCEPT !.contra =
                        Max({@, IF Rescanned(c) THEN found[c] ELSE 0,
                             IF c \in UNION pairs THEN 60 ELSE 0})]]
    BY DEF Contradict
  <1>2. ASSUME NEW c \in Claims PROVE claims'[c] \in ClaimType
    <2> DEFINE k == Max({claims[c].contra, IF Rescanned(c) THEN found[c] ELSE 0,
                         IF c \in UNION pairs THEN 60 ELSE 0})
    <2>1. claims[c] \in ClaimType
      BY DEF TypeOK
    <2>2. /\ (IF Rescanned(c) THEN found[c] ELSE 0) \in Hundredths
          /\ (IF c \in UNION pairs THEN 60 ELSE 0) \in Hundredths
          /\ claims[c].contra \in Hundredths
      <3>1. \A n \in Scores \cup {0} : n \in Hundredths
        BY ScaleAssumption DEF Hundredths
      <3>2. found[c] \in Hundredths /\ 0 \in Hundredths /\ 60 \in Hundredths
        BY <3>1 DEF Hundredths
      <3>3. QED
        BY <2>1, <3>2 DEF ClaimType
    <2>3. k \in Hundredths
      BY <2>2, MaxOfThree
    <2>4. claims'[c] = [claims[c] EXCEPT !.contra = k]
      BY <1>1
    <2> HIDE DEF k
    <2>5. QED
      BY <2>1, <2>3, <2>4 DEF ClaimType
  <1>3. QED
    BY <1>1, <1>2

LEMMA ResolveType ==
    ASSUME TypeOK, NEW c \in Claims, Resolve(c)
    PROVE  claims' \in [Claims -> ClaimType]
  <1>1. PICK silent \in BOOLEAN, v \in Verdicts, falsified \in BOOLEAN :
          ballot'.votes = Votes(ballot.votes["nli"], silent, v, falsified)
    BY DEF Resolve
  <1>2. DOMAIN ballot'.votes \subseteq {"nli", "llm", "falsifier"}
    BY <1>1 DEF Votes
  <1>3. Disagreement(ballot'.votes) \in 0 .. 6
    BY <1>2, DisagreementType
  <1>4. ResolvedVerdict(ballot'.votes, claims[c].entail) \in Verdicts
    BY DEF ResolvedVerdict, Verdicts
  <1>5. Resolved(claims[c], ballot'.votes) \in ClaimType
    BY <1>3, <1>4 DEF TypeOK, ClaimType, Resolved
  <1>6. QED
    BY <1>5 DEF Resolve, TypeOK

LEMMA ScoreStep ==
    ASSUME TypeOK, Score
    PROVE  /\ claims' \in [Claims -> ClaimType]
           /\ base' \in [Claims -> RiskScore]
           /\ \A c \in Claims : /\ claims'[c].risk = base'[c]
                                /\ LevelFits(claims'[c].level, base'[c])
  <1>1. PICK proba \in [Claims -> Risks] :
          /\ claims' = [c \in Claims |-> [claims[c] EXCEPT !.risk = Rounded(proba[c]),
                                                           !.level = Level(proba[c])]]
          /\ base' = [c \in Claims |-> Rounded(proba[c])]
    BY DEF Score
  <1>2. ASSUME NEW c \in Claims
        PROVE  /\ claims'[c] \in ClaimType
               /\ base'[c] \in RiskScore
               /\ claims'[c].risk = base'[c]
               /\ LevelFits(claims'[c].level, base'[c])
    <2>1. proba[c] \in Proba
      BY ScaleAssumption
    <2>2. /\ Rounded(proba[c]) \in RiskScore
          /\ Level(proba[c]) \in {"low", "medium", "high"}
          /\ LevelFits(Level(proba[c]), Rounded(proba[c]))
      BY <2>1, RoundedLevel
    <2>3. claims[c] \in ClaimType
      BY DEF TypeOK
    <2>4. QED
      BY <1>1, <2>2, <2>3 DEF ClaimType
  <1>3. QED
    BY <1>1, <1>2

\* A turn of the propagation changes one score, and leaves it at least its base,
\* at least half the riskiest dependency and at most that dependency or the base.
LEMMA PropagateStep ==
    ASSUME TypeOK, NEW c \in Claims, Propagate(c), req.deps[c] # {}
    PROVE  \E r \in RiskScore :
              /\ claims' = [claims EXCEPT ![c].risk = r]
              /\ r >= base[c]
              /\ \/ r = base[c]
                 \/ r <= MaxFloor /\ \E d \in Claims : r <= claims[d].risk
              /\ \A x \in req.deps[c] : claims[x].risk <= 2 * r + 1
  <1>1. PICK d \in req.deps[c] :
          /\ \A x \in req.deps[c] : claims[x].risk <= claims[d].risk
          /\ \E floor \in Decayed(claims[d].risk) :
                claims' = [claims EXCEPT ![c].risk = Lifted(base[c], floor)]
    BY DEF Propagate
  <1>2. PICK floor \in Decayed(claims[d].risk) :
          claims' = [claims EXCEPT ![c].risk = Lifted(base[c], floor)]
    BY <1>1
  <1>3. req.deps[c] \subseteq Claims
    BY DepsAssumption DEF TypeOK
  <1>4. \A x \in Claims : claims[x].risk \in RiskScore
    BY DEF TypeOK, ClaimType
  <1>5. /\ floor \in Int /\ 0 <= floor /\ floor <= MaxFloor
        /\ floor <= claims[d].risk /\ claims[d].risk <= 2 * floor + 1
    BY <1>3, <1>4, DecayedBound
  <1>6. base[c] \in RiskScore
    BY DEF TypeOK
  <1> DEFINE r == Lifted(base[c], floor)
  <1>7. r >= base[c] /\ r >= floor /\ (r = base[c] \/ r = floor)
    <2>1. base[c] \in Int /\ floor \in Int
      BY <1>5, <1>6, ScoreRange
    <2>2. QED
      BY <2>1, LiftedBound
  <1>8. claims' = [claims EXCEPT ![c].risk = r]
    BY <1>2
  <1> HIDE DEF r
  <1>9. r \in RiskScore
    BY <1>5, <1>6, <1>7, ScoreRange DEF MaxFloor
  <1>10. r = base[c] \/ (r <= MaxFloor /\ \E x \in Claims : r <= claims[x].risk)
    <2>1. CASE r = base[c]
      BY <2>1
    <2>2. CASE r = floor
      BY <1>3, <1>5, <2>2
    <2>3. QED
      BY <1>7, <2>1, <2>2
  <1>11. ASSUME NEW x \in req.deps[c] PROVE claims[x].risk <= 2 * r + 1
    <2>1. claims[x].risk \in Int /\ claims[d].risk \in Int
      BY <1>3, <1>4, ScoreRange
    <2>2. floor \in Int /\ r \in Int
      BY <1>5, <1>9, ScoreRange
    <2>3. claims[x].risk <= claims[d].risk
      BY <1>1
    <2>4. QED
      BY <1>5, <1>7, <2>1, <2>2, <2>3
  <1>12. QED
    BY <1>7, <1>8, <1>9, <1>10, <1>11, Zenon

--------------------------------------------------------------------------------
\* The inductive invariant

LEMMA TypeStep == TypeOK /\ [Next]_vars => TypeOK'
  <1> SUFFICES ASSUME TypeOK, [Next]_vars PROVE TypeOK'
    OBVIOUS
  <1>1. ASSUME NEW c \in Claims, Skip(c) \/ Raise(c) PROVE TypeOK'
    BY <1>1 DEF TypeOK, Skip, Raise
  <1>2. ASSUME NEW c \in Claims, Nli(c) PROVE TypeOK'
    <2>1. CASE UNCHANGED claims
      BY <1>2, <2>1 DEF TypeOK, Nli
    <2>2. ASSUME NEW e \in Scores, NEW k \in Scores,
                 claims' = [claims EXCEPT ![c].entail = e, ![c].contra = k]
          PROVE  TypeOK'
      <3>1. e \in Hundredths /\ k \in Hundredths
        BY ScaleAssumption
      <3>2. [claims[c] EXCEPT !.entail = e, !.contra = k] \in ClaimType
        BY <3>1 DEF TypeOK, ClaimType
      <3>3. claims' = [claims EXCEPT ![c] = [claims[c] EXCEPT !.entail = e, !.contra = k]]
        BY <2>2 DEF TypeOK
      <3>4. claims' \in [Claims -> ClaimType]
        BY <3>2, <3>3 DEF TypeOK
      <3>5. QED
        BY <1>2, <3>4 DEF TypeOK, Nli
    <2>3. QED
      BY <1>2, <2>1, <2>2 DEF Nli
  <1>3. ASSUME NEW c \in Claims, Resolve(c) PROVE TypeOK'
    <2>1. claims' \in [Claims -> ClaimType]
      BY <1>3, ResolveType
    <2>2. QED
      BY <1>3, <2>1 DEF TypeOK, Resolve
  <1>4. CASE Contradict
    BY <1>4, ContradictType DEF TypeOK, Contradict
  <1>5. CASE Score
    BY <1>5, ScoreStep DEF TypeOK, Score
  <1>6. ASSUME NEW c \in Claims, Propagate(c) PROVE TypeOK'
    <2>1. claims' \in [Claims -> ClaimType]
      <3>1. CASE req.deps[c] = {}
        BY <1>6, <3>1 DEF Propagate, TypeOK
      <3>2. CASE req.deps[c] # {}
        <4>1. PICK r \in RiskScore : claims' = [claims EXCEPT ![c].risk = r]
          BY <1>6, <3>2, PropagateStep
        <4>2. QED
          BY <4>1 DEF TypeOK, ClaimType
      <3>3. QED
        BY <3>1, <3>2
    <2>2. QED
      BY <1>6, <2>1 DEF TypeOK, Propagate
  <1>7. CASE Creativity
    <2>1. 0 \in RiskScore
      BY ScoreRange
    <2>2. base' \in [Claims -> RiskScore]
      BY <1>7, <2>1 DEF Creativity
    <2>3. QED
      BY <1>7, <2>2 DEF TypeOK, Creativity
  <1>8. CASE Decide
    BY <1>8 DEF TypeOK, Decide, Decided
  <1>9. CASE UNCHANGED vars
    BY <1>9 DEF TypeOK, vars
  <1>10. QED
    BY <1>1, <1>2, <1>3, <1>4, <1>5, <1>6, <1>7, <1>8, <1>9 DEF Next, Terminated

\* What a turn of the propagation leaves true of the scores.
LEMMA ScoredStep ==
    ASSUME TypeOK, Scored, NEW c \in Claims, Propagate(c)
    PROVE  Scored'
  <1>1. CASE req.deps[c] = {}
    BY <1>1 DEF Propagate, Scored
  <1>2. CASE req.deps[c] # {}
    <2>1. PICK r \in RiskScore :
            /\ claims' = [claims EXCEPT ![c].risk = r]
            /\ r >= base[c]
            /\ \/ r = base[c]
               \/ r <= MaxFloor /\ \E d \in Claims : r <= claims[d].risk
      BY <1>2, PropagateStep
    <2>2. base' = base /\ pc = "propagate" /\ pc' = "propagate"
      BY DEF Propagate
    <2>3. /\ \A x \in Claims \ {c} : claims'[x] = claims[x]
          /\ claims'[c].risk = r
          /\ claims'[c].level = claims[c].level
      BY <2>1 DEF TypeOK, ClaimType
    <2>4. \A x \in Claims : claims[x].risk \in Int /\ base[x] \in Int
      BY ScoreRange DEF TypeOK, ClaimType
    <2>5. \E d \in Claims : r <= base[d]
      <3>1. CASE r = base[c]
        BY <2>4, <3>1
      <3>2. ASSUME NEW d \in Claims, r <= claims[d].risk PROVE \E e \in Claims : r <= base[e]
        <4>1. PICK e \in Claims : claims[d].risk <= base[e]
          BY <2>2 DEF Scored
        <4>2. r \in Int
          BY ScoreRange
        <4>3. r <= base[e]
          BY <2>4, <3>2, <4>1, <4>2
        <4>4. QED
          BY <4>3
      <3>3. QED
        BY <2>1, <3>1, <3>2
    <2>6. ASSUME NEW x \in Claims
          PROVE  /\ LevelFits(claims'[x].level, base[x])
                 /\ claims'[x].risk >= base[x]
                 /\ claims'[x].risk = base[x] \/ claims'[x].risk <= MaxFloor
                 /\ \E d \in Claims : claims'[x].risk <= base[d]
      <3>1. CASE x = c
        BY <2>1, <2>2, <2>3, <2>5, <3>1 DEF Scored
      <3>2. CASE x # c
        BY <2>2, <2>3, <3>2 DEF Scored
      <3>3. QED
        BY <3>1, <3>2
    <2>7. QED
      BY <2>2, <2>6 DEF Scored
  <1>3. QED
    BY <1>1, <1>2

\* The claims already visited do not depend on the one being visited.
LEMMA SettledStep ==
    ASSUME TypeOK, Settled, NEW c \in Claims, Propagate(c)
    PROVE  Settled'
  <1> DEFINE Fine(s, x) == \A d \in req.deps[x] : s[d].risk <= 2 * s[x].risk + 1
  <1>1. /\ pc = "propagate" /\ c \in todo /\ todo' = todo \ {c} /\ req' = req
        /\ req.deps[c] \cap todo = {}
    BY DEF Propagate
  <1>2. \A x \in Claims \ todo : req.deps[x] \cap todo = {} /\ Fine(claims, x)
    BY <1>1 DEF Settled
  <1>3. \A x \in Claims : c \notin req.deps[x] \/ x \in todo
    BY <1>1, <1>2
  <1>4. /\ \A x \in Claims \ {c} : claims'[x] = claims[x]
        /\ Fine(claims', c)
    <2>1. CASE req.deps[c] = {}
      BY <2>1 DEF Propagate
    <2>2. CASE req.deps[c] # {}
      <3>1. PICK r \in RiskScore :
              /\ claims' = [claims EXCEPT ![c].risk = r]
              /\ \A x \in req.deps[c] : claims[x].risk <= 2 * r + 1
        BY <2>2, PropagateStep
      <3>2. /\ \A x \in Claims \ {c} : claims'[x] = claims[x]
            /\ claims'[c].risk = r
        BY <3>1 DEF TypeOK, ClaimType
      <3>3. req.deps[c] \subseteq Claims \ {c}
        BY <1>1, DepsAssumption DEF TypeOK
      <3>4. QED
        BY <3>1, <3>2, <3>3
    <2>3. QED
      BY <2>1, <2>2
  <1>5. ASSUME NEW x \in Claims \ todo' PROVE req.deps[x] \cap todo' = {} /\ Fine(claims', x)
    <2>1. CASE x = c
      BY <1>1, <1>4, <2>1
    <2>2. CASE x # c
      <3>1. x \in Claims \ todo
        BY <1>1, <2>2
      <3>2. req.deps[x] \subseteq Claims \ {c}
        BY <1>3, <3>1, DepsAssumption DEF TypeOK
      <3>3. QED
        BY <1>1, <1>2, <1>4, <2>2, <3>1, <3>2
    <2>3. QED
      BY <2>1, <2>2
  <1>6. QED
    BY <1>1, <1>5 DEF Settled

LEMMA NextInvariant == IInv /\ [Next]_vars => IInv'
  <1> SUFFICES ASSUME IInv, [Next]_vars PROVE IInv'
    OBVIOUS
  <1>1. TypeOK /\ TypeOK' /\ Scored /\ Settled
    BY TypeStep DEF IInv
  <1>2. ASSUME NEW c \in Claims, Skip(c) \/ Nli(c) \/ Resolve(c) \/ Raise(c) PROVE IInv'
    <2>1. pc' = "verify"
      BY <1>2 DEF Skip, Nli, Resolve, Raise, AtHand
    <2>2. QED
      BY <1>1, <2>1 DEF IInv, Scored, Settled
  <1>3. CASE Contradict
    BY <1>1, <1>3 DEF Contradict, IInv, Scored, Settled
  <1>4. CASE Score
    <2>1. \A c \in Claims : /\ claims'[c].risk = base'[c]
                             /\ LevelFits(claims'[c].level, base'[c])
                             /\ base'[c] \in Int
      BY <1>1, <1>4, ScoreStep, ScoreRange DEF TypeOK
    <2>2. pc' = "propagate" /\ todo' = Claims
      BY <1>4 DEF Score
    <2>3. Scored'
      BY <2>1 DEF Scored
    <2>4. QED
      BY <1>1, <2>2, <2>3 DEF IInv, Settled
  <1>5. ASSUME NEW c \in Claims, Propagate(c) PROVE IInv'
    <2>1. pc' = "propagate"
      BY <1>5 DEF Propagate
    <2>2. QED
      BY <1>1, <1>5, <2>1, ScoredStep, SettledStep DEF IInv
  <1>6. CASE Creativity
    <2>1. /\ pc = "propagate" /\ todo = {} /\ pc' = "decide"
          /\ todo' = todo /\ claims' = claims /\ req' = req
      BY <1>6 DEF Creativity
    <2>2. ASSUME NEW c \in Claims PROVE LevelFits(claims[c].level, claims[c].risk)
      <3>1. /\ LevelFits(claims[c].level, base[c])
            /\ claims[c].risk >= base[c]
            /\ claims[c].risk = base[c] \/ claims[c].risk <= MaxFloor
        BY <1>1, <2>1 DEF Scored
      <3>2. claims[c].risk \in Int /\ base[c] \in Int
        BY <1>1, ScoreRange DEF TypeOK, ClaimType
      <3>3. QED
        BY <3>1, <3>2 DEF LevelFits, MaxFloor
    <2>3. LevelMatchesRisk'
      BY <2>1, <2>2 DEF LevelMatchesRisk
    <2>4. QED
      BY <1>1, <2>1, <2>3 DEF IInv, Scored, Settled
  <1>7. CASE Decide
    BY <1>1, <1>7 DEF Decide, IInv, Scored, Settled, LevelMatchesRisk, Propagated
  <1>8. CASE UNCHANGED vars
    BY <1>1, <1>8 DEF vars, IInv, Scored, Settled, LevelMatchesRisk, Propagated
  <1>9. QED
    BY <1>2, <1>3, <1>4, <1>5, <1>6, <1>7, <1>8 DEF Next, Terminated

LEMMA Invariant == Spec => []IInv
  <1>1. Init => IInv
    BY InitInvariant
  <1>2. IInv /\ [Next]_vars => IInv'
    BY NextInvariant
  <1>3. QED
    BY <1>1, <1>2, PTL DEF Spec

--------------------------------------------------------------------------------
\* Theorems

\* Every variable keeps its type: verdicts, scores and levels stay in range for
\* whatever the NLI model, the verifier model and the risk model return.
THEOREM Types == Spec => []TypeOK
  <1>1. IInv => TypeOK
    BY DEF IInv
  <1>2. QED
    BY <1>1, Invariant, PTL

\* After propagation the level of a claim still fits its score: lifting cannot
\* reach 0.6, so the level set before it need not be set again.
THEOREM LevelsMatch == Spec => []LevelMatchesRisk
  <1>1. IInv => LevelMatchesRisk
    <2> SUFFICES ASSUME IInv, Propagated, NEW c \in Claims
                 PROVE  LevelFits(claims[c].level, claims[c].risk)
      BY DEF LevelMatchesRisk
    <2>1. CASE pc \in {"decide", "finalize"}
      BY <2>1 DEF IInv, LevelMatchesRisk
    <2>2. CASE pc = "propagate"
      <3>1. /\ LevelFits(claims[c].level, base[c])
            /\ claims[c].risk >= base[c]
            /\ claims[c].risk = base[c] \/ claims[c].risk <= MaxFloor
        BY <2>2 DEF IInv, Scored
      <3>2. claims[c].risk \in Int /\ base[c] \in Int
        BY ScoreRange DEF IInv, TypeOK, ClaimType
      <3>3. QED
        BY <3>1, <3>2 DEF LevelFits, MaxFloor
    <2>3. QED
      BY <2>1, <2>2 DEF Propagated
  <1>2. QED
    BY <1>1, Invariant, PTL

\* What propagate_risk's docstring promises: a claim is at least half as risky
\* as each claim it depends on, and none exceeds the highest score there was.
THEOREM FloorsHold == Spec => []FloorHolds
  <1>1. IInv => FloorHolds
    <2> SUFFICES ASSUME IInv PROVE FloorHolds
      OBVIOUS
    <2>1. Propagated => pc \in {"propagate", "decide", "finalize"} /\ todo = {}
      BY DEF Propagated, IInv
    <2>2. ASSUME Propagated, NEW c \in Claims, NEW d \in req.deps[c]
          PROVE  claims[d].risk <= 2 * claims[c].risk + 1
      BY <2>1, <2>2 DEF IInv, Settled
    <2>3. pc = "propagate" => \A c \in Claims :
             /\ claims[c].risk >= base[c]
             /\ \E d \in Claims : claims[c].risk <= base[d]
      BY DEF IInv, Scored
    <2>4. QED
      BY <2>2, <2>3 DEF FloorHolds
  <1>2. QED
    BY <1>1, Invariant, PTL

--------------------------------------------------------------------------------
\* Votes

Bit(b) == IF b THEN 1 ELSE 0

\* How many of the three voters a test picks.
LEMMA CountVoters ==
    ASSUME NEW a \in BOOLEAN, NEW b \in BOOLEAN, NEW c \in BOOLEAN, NEW S,
           S = {x \in {"nli", "llm", "falsifier"} :
                   \/ x = "nli" /\ a
                   \/ x = "llm" /\ b
                   \/ x = "falsifier" /\ c}
    PROVE  Cardinality(S) = Bit(a) + Bit(b) + Bit(c)
  <1> DEFINE A == IF a THEN {"nli"} ELSE {}
             B == IF b THEN A \cup {"llm"} ELSE A
             C == IF c THEN B \cup {"falsifier"} ELSE B
  <1>1. IsFiniteSet(A) /\ Cardinality(A) = Bit(a)
    BY FS_EmptySet, FS_Singleton DEF Bit
  <1>2. IsFiniteSet(B) /\ Cardinality(B) = Bit(a) + Bit(b)
    <2>1. "llm" \notin A
      OBVIOUS
    <2>2. CASE b
      BY <1>1, <2>1, <2>2, FS_AddElement DEF Bit
    <2>3. CASE ~b
      BY <1>1, <2>3 DEF Bit
    <2>4. QED
      BY <2>2, <2>3
  <1>3. Cardinality(C) = Bit(a) + Bit(b) + Bit(c)
    <2>1. "falsifier" \notin B
      OBVIOUS
    <2>2. CASE c
      BY <1>2, <2>1, <2>2, FS_AddElement DEF Bit
    <2>3. CASE ~c
      BY <1>2, <2>3 DEF Bit
    <2>4. QED
      BY <2>2, <2>3
  <1>4. S = C
    OBVIOUS
  <1>5. QED
    BY <1>3, <1>4

\* What MajorityStands says of the votes on one claim.
Majority(votes, v) ==
    LET n == Cardinality(DOMAIN votes)
    IN  /\ 2 * VotesFor(votes, "refuted") > n => v # "supported"
        /\ 2 * VotesFor(votes, "supported") > n => v # "refuted"
        /\ v \in {"supported", "refuted"} => VotesFor(votes, v) > 0

\* The weighted mean never turns a strict majority around, whatever the NLI
\* score that weighs the first vote.
LEMMA WeightedMajority ==
    ASSUME NEW v0 \in Verdicts, NEW silent \in BOOLEAN, NEW v \in Verdicts,
           NEW falsified \in BOOLEAN, NEW e \in Hundredths
    PROVE  Majority(Votes(v0, silent, v, falsified),
                    ResolvedVerdict(Votes(v0, silent, v, falsified), e))
  <1> DEFINE votes == Votes(v0, silent, v, falsified)
             result == ResolvedVerdict(votes, e)
  <1>1. /\ DOMAIN votes = {x \in {"nli", "llm", "falsifier"} :
                              \/ x = "nli" /\ TRUE
                              \/ x = "llm" /\ ~silent
                              \/ x = "falsifier" /\ falsified}
        /\ votes["nli"] = v0
        /\ ~silent => votes["llm"] = v
        /\ falsified => votes["falsifier"] = "refuted"
    BY DEF Votes
  <1>2. Cardinality(DOMAIN votes) = 1 + Bit(~silent) + Bit(falsified)
    <2>1. Cardinality(DOMAIN votes) = Bit(TRUE) + Bit(~silent) + Bit(falsified)
      BY <1>1, CountVoters
    <2>2. QED
      BY <2>1 DEF Bit
  <1>3. \A w \in Verdicts :
          VotesFor(votes, w) = Bit(v0 = w) + Bit(~silent /\ v = w) + Bit(falsified /\ w = "refuted")
    <2>1. TAKE w \in Verdicts
    <2>2. {x \in DOMAIN votes : votes[x] = w}
             = {x \in {"nli", "llm", "falsifier"} :
                   \/ x = "nli" /\ v0 = w
                   \/ x = "llm" /\ (~silent /\ v = w)
                   \/ x = "falsifier" /\ (falsified /\ w = "refuted")}
      BY <1>1
    <2>3. /\ (v0 = w) \in BOOLEAN /\ (~silent /\ v = w) \in BOOLEAN
          /\ (falsified /\ w = "refuted") \in BOOLEAN
      OBVIOUS
    <2>4. QED
      BY <2>2, <2>3, CountVoters DEF VotesFor
  <1> DEFINE llm == IF silent THEN 0 ELSE IF v = "supported" THEN 120 ELSE 70
             probe == IF falsified THEN 60 ELSE 0
             num == VerdictScore(v0) * (50 + e) + VerdictScore(v) * llm
             den == 50 + e + llm + probe
  <1>4. result = IF num >= 66 * den THEN "supported"
                 ELSE IF num <= 25 * den THEN "refuted" ELSE "insufficient"
    <2> DEFINE Of(x) == IF x \in DOMAIN votes THEN Weight(x, votes[x], e) ELSE 0
               For(x) == IF x \in DOMAIN votes THEN VerdictScore(votes[x]) * Of(x) ELSE 0
    <2>1. Of("nli") = 50 + e /\ For("nli") = VerdictScore(v0) * (50 + e)
      BY <1>1 DEF Weight
    <2>2. Of("llm") = llm /\ For("llm") = VerdictScore(v) * llm
      BY <1>1 DEF Weight, VerdictScore, Verdicts
    <2>3. Of("falsifier") = probe /\ For("falsifier") = 0
      BY <1>1 DEF Weight, VerdictScore
    <2>4. /\ Of("nli") + Of("llm") + Of("falsifier") = den
          /\ For("nli") + For("llm") + For("falsifier") = num
      <3>1. /\ VerdictScore(v0) * (50 + e) \in Int /\ VerdictScore(v) * llm \in Int
            /\ e \in Int /\ llm \in Int /\ probe \in Int
        BY DEF VerdictScore, Verdicts, Hundredths
      <3> HIDE DEF Of, For, llm, probe
      <3>2. Of("nli") + Of("llm") + Of("falsifier") = den
        BY <2>1, <2>2, <2>3, <3>1
      <3>3. For("nli") + For("llm") + For("falsifier") = num
        BY <2>1, <2>2, <2>3, <3>1
      <3>4. QED
        BY <3>2, <3>3
    <2>5. QED
      BY <2>4 DEF ResolvedVerdict
  <1> HIDE DEF votes
  <1>5. e \in Int /\ 0 <= e /\ e <= 100
    BY DEF Hundredths
  <1>6. /\ 2 * VotesFor(votes, "refuted") > Cardinality(DOMAIN votes) => result # "supported"
        /\ 2 * VotesFor(votes, "supported") > Cardinality(DOMAIN votes) => result # "refuted"
    <2> HIDE DEF result
    <2>1. CASE silent
      BY <2>1, <1>2, <1>3, <1>4, <1>5 DEF Verdicts, VerdictScore, Bit
    <2>2. CASE ~silent
      BY <2>2, <1>2, <1>3, <1>4, <1>5 DEF Verdicts, VerdictScore, Bit
    <2>3. QED
      BY <2>1, <2>2
  <1>7. result \in {"supported", "refuted"} => VotesFor(votes, result) > 0
    <2> HIDE DEF result
    <2>1. CASE silent
      BY <2>1, <1>2, <1>3, <1>4, <1>5 DEF Verdicts, VerdictScore, Bit
    <2>2. CASE ~silent
      BY <2>2, <1>2, <1>3, <1>4, <1>5 DEF Verdicts, VerdictScore, Bit
    <2>3. QED
      BY <2>1, <2>2
  <1>8. QED
    BY <1>6, <1>7 DEF votes, Majority

\* The claim at hand has no verdict yet, the first vote on it is the NLI model's,
\* and the last claim that was judged has the verdict of its votes.
VotesAtHand ==
    /\ pc = "verify" => \A c \in todo : claims[c].verdict = "unverified"
    /\ pc # "verify" => ballot.of = 0
    /\ ballot.of \in todo => ballot.votes["nli"] \in Verdicts
    /\ \A c \in Judged : \/ claims[c].verdict = "unverified"
                         \/ Majority(ballot.votes, claims[c].verdict)

LEMMA NliVoteType == \A e, k : NliVerdict(e, k) \in Verdicts
  BY DEF NliVerdict, Verdicts

LEMMA VotesStep ==
    ASSUME TypeOK, VotesAtHand, [Next]_vars
    PROVE  VotesAtHand'
  <1> USE SizeAssumption
  <1>1. 0 \notin Claims
    BY DEF Claims
  <1>2. ASSUME NEW c \in Claims, Skip(c) PROVE VotesAtHand'
    <2>1. ballot.of # c \/ claims[c].verdict = "unverified"
      BY <1>2 DEF VotesAtHand, Skip, AtHand
    <2>2. QED
      BY <1>2, <2>1 DEF VotesAtHand, Skip, AtHand, Judged
  <1>3. ASSUME NEW c \in Claims, Nli(c) PROVE VotesAtHand'
    <2>0. /\ pc = "verify" /\ c \in todo /\ UNCHANGED <<todo, pc>>
          /\ \E w \in Verdicts : ballot' = [of |-> c, votes |-> [x \in {"nli"} |-> w]]
          /\ \/ \E e, k : claims' = [claims EXCEPT ![c].entail = e, ![c].contra = k]
             \/ UNCHANGED claims
      <3>1. "insufficient" \in Verdicts
        BY DEF Verdicts
      <3>2. CASE claims[c].cited
        <4>1. PICK e \in Scores, k \in Scores :
                 /\ claims' = [claims EXCEPT ![c].entail = e, ![c].contra = k]
                 /\ ballot' = [of |-> c, votes |-> [x \in {"nli"} |-> NliVerdict(e, k)]]
          BY <1>3, <3>2 DEF Nli
        <4>2. NliVerdict(e, k) \in Verdicts
          BY NliVoteType
        <4>3. QED
          BY <1>3, <4>1, <4>2 DEF Nli, AtHand
      <3>3. CASE ~claims[c].cited
        BY <1>3, <3>1, <3>3 DEF Nli, AtHand
      <3>4. QED
        BY <3>2, <3>3
    <2>1. ballot'.of = c /\ c \in todo /\ todo' = todo /\ pc' = pc /\ pc = "verify"
      BY <2>0
    <2>2. ballot'.votes["nli"] \in Verdicts
      BY <2>0
    <2>3. \A d \in Claims : claims'[d].verdict = claims[d].verdict
      <3>1. ASSUME NEW e, NEW k, claims' = [claims EXCEPT ![c].entail = e, ![c].contra = k],
                   NEW d \in Claims
            PROVE  claims'[d].verdict = claims[d].verdict
        <4>1. claims \in [Claims -> ClaimType] /\ claims[c] \in ClaimType
          BY DEF TypeOK
        <4>2. claims'[d] = IF d = c THEN [claims[c] EXCEPT !.entail = e, !.contra = k]
                           ELSE claims[d]
          BY <3>1, <4>1
        <4>3. [claims[c] EXCEPT !.entail = e, !.contra = k].verdict = claims[c].verdict
          BY <4>1 DEF ClaimType
        <4>4. QED
          BY <4>2, <4>3
      <3>2. QED
        BY <2>0, <3>1
    <2>4. \A d \in todo : d \in Claims
      BY DEF TypeOK
    <2>5. Judged' = {}
      BY <2>1 DEF Judged
    <2>6. QED
      BY <2>1, <2>2, <2>3, <2>4, <2>5 DEF VotesAtHand
  <1>4. ASSUME NEW c \in Claims, Resolve(c) PROVE VotesAtHand'
    <2>1. PICK silent \in BOOLEAN, v \in Verdicts, falsified \in BOOLEAN :
             ballot' = [of |-> c, votes |-> Votes(ballot.votes["nli"], silent, v, falsified)]
      BY <1>4 DEF Resolve
    <2>2. /\ pc = "verify" /\ pc' = "verify" /\ todo' = todo \ {c} /\ todo \subseteq Claims
          /\ ballot.votes["nli"] \in Verdicts
          /\ claims' = [claims EXCEPT ![c] = Resolved(@, ballot'.votes)]
      BY <1>4 DEF Resolve, AtHand, VotesAtHand, TypeOK
    <2>3. /\ claims[c] \in ClaimType /\ claims[c].entail \in Hundredths
          /\ \A d \in Claims \ {c} : claims'[d] = claims[d]
          /\ claims'[c] = Resolved(claims[c], ballot'.votes)
      BY <2>2 DEF TypeOK, ClaimType
    <2>4. claims'[c].verdict = ResolvedVerdict(ballot'.votes, claims[c].entail)
      BY <2>3 DEF Resolved, ClaimType
    <2>5. Majority(ballot'.votes, claims'[c].verdict)
      BY <2>1, <2>2, <2>3, <2>4, WeightedMajority
    <2>6. Judged' = {c} /\ ballot'.of = c
      BY <2>1, <2>2 DEF Judged
    <2>7. \A d \in todo' : claims'[d].verdict = "unverified"
      BY <2>2, <2>3 DEF VotesAtHand
    <2>8. Majority(ballot.votes, claims[c].verdict)'
      BY <2>5 DEF Majority, VotesFor
    <2>9. QED
      BY <2>2, <2>6, <2>7, <2>8 DEF VotesAtHand
  <1>5. ASSUME NEW c \in Claims, Raise(c) PROVE VotesAtHand'
    <2>1. /\ pc = "verify" /\ pc' = "verify" /\ todo' = {} /\ UNCHANGED <<claims, ballot>>
          /\ c \in todo
      BY <1>5 DEF Raise, AtHand
    <2>2. \A d \in Judged' : \/ d \in Judged
                             \/ d \in todo
      BY <2>1 DEF Judged
    <2>3. QED
      BY <2>1, <2>2 DEF VotesAtHand
  <1>6. CASE Contradict
    BY <1>1, <1>6 DEF Contradict, VotesAtHand, Judged, NoBallot, TypeOK
  <1>7. ASSUME pc # "verify", pc' # "verify", UNCHANGED ballot PROVE VotesAtHand'
    <2>1. ballot'.of = 0
      BY <1>7 DEF VotesAtHand
    <2>2. Judged' = {} /\ todo' \subseteq Claims
      BY <1>1, <2>1, TypeStep DEF Judged, TypeOK
    <2>3. QED
      BY <1>1, <1>7, <2>1, <2>2 DEF VotesAtHand
  <1>8. CASE Score \/ Creativity \/ Decide \/ \E c \in Claims : Propagate(c)
    BY <1>7, <1>8 DEF Score, Creativity, Decide, Propagate
  <1>9. CASE UNCHANGED vars
    BY <1>9 DEF vars, VotesAtHand, Judged
  <1>10. QED
    BY <1>2, <1>3, <1>4, <1>5, <1>6, <1>8, <1>9 DEF Next, Terminated

\* The weights of resolve_claim never overrule a strict majority, and no verdict
\* is given that nobody voted for, for any claims and scores.
THEOREM MajoritiesStand == Spec => []MajorityStands
  <1>1. Init => VotesAtHand
    <2> SUFFICES ASSUME Init PROVE VotesAtHand
      OBVIOUS
    <2>1. Judged = {} /\ 0 \notin Claims
      BY SizeAssumption DEF Init, NoBallot, Judged, Claims
    <2>2. \A c \in Claims : claims[c].verdict = "unverified"
      BY FreshAssumption DEF Init
    <2>3. QED
      BY <2>1, <2>2 DEF Init, NoBallot, VotesAtHand
  <1>2. TypeOK /\ VotesAtHand /\ [Next]_vars => VotesAtHand'
    BY VotesStep
  <1>3. VotesAtHand => MajorityStands
    BY DEF VotesAtHand, MajorityStands, Majority
  <1>4. QED
    BY <1>1, <1>2, <1>3, Types, PTL DEF Spec
================================================================================
