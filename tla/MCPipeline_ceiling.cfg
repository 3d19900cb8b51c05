SPECIFICATION Spec
CONSTANTS
    ClaimId = {c1}
    Tasks = {"high_stakes"}
    MaxRevisionLoops = 2
    FaultBudget <- ReviserTwice
    Down = {}
PROPERTIES ImplementsGraph
