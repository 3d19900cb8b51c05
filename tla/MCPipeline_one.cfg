SPECIFICATION Spec
CONSTANTS
    ClaimId = {c1}
    Tasks = {"high_stakes", "creative"}
    MaxRevisionLoops = 2
    FaultBudget <- EachOnce
    Down = {}
INVARIANTS TypeOK DecidedOnAnalysedClaims UnresolvedRiskIsQueued AnswerIsBacked RecordMatchesResponse RevisionHasWork
PROPERTIES ImplementsGraph
