SPECIFICATION Spec
CONSTANTS
    Risks = {0, 200, 201, 303, 304, 600, 601, 1000}
    Models <- SomeModels
    Overrides <- SomeOverrides
INVARIANTS TypeOK RiskyIsVerified RiskyIsRevised LooseningBounded DisagreementHasRoom
