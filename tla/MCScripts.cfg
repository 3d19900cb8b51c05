SPECIFICATION ScriptsSpec
CONSTANTS
    q1 = q1
    q2 = q2
    v1 = v1
    v2 = v2
    Items = 2
    Calls = 1
    MaxClaims = 1
    Prompt = {q1, q2}
    Review = {v1, v2}
INVARIANTS ScriptsTypeOK EveryItemAccounted TokensExact PointerIsWhole ReviewsAreDelivered
SYMMETRY Interchangeable
CHECK_DEADLOCK FALSE
