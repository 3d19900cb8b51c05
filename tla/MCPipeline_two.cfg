SPECIFICATION Spec
CONSTANTS
    ClaimId = {c1, c2}
    Tasks = {"high_stakes"}
    MaxRevisionLoops = 1
    FaultBudget <- LoopFaults
    Down = {}
INVARIANTS AnswerIsBacked
SYMMETRY Symmetry
