SPECIFICATION Spec
CONSTANTS
    N = 2
    Fresh <- SomeFresh
    Requests <- SomeRequests
    Scores = {5, 53, 90}
    Risks = {20001, 59998, 100000}
INVARIANTS TypeOK MajorityStands LevelMatchesRisk FloorHolds
PROPERTIES ImplementsPipeline
