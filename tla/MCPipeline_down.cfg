SPECIFICATION FairSpec
CONSTANTS
    ClaimId = {c1}
    Tasks = {"high_stakes"}
    MaxRevisionLoops = 2
    FaultBudget <- ReviserTwice
    Down = {"revise"}
PROPERTIES Terminates
