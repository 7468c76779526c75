CONSTANTS
    c1 = c1
    c2 = c2
    r1 = r1
    w1 = w1
    w2 = w2
    Capabilities = {c1, c2}
    Seeds = {c1}
    Candidates = {c2}
    Verifiable = {c1}
    Calls <- MCCalls
    Requests = {r1}
    Workers = {w1, w2}
    NoCall = NoCall
    NoRequest = NoRequest
    NoCapability = NoCapability
    MaxOutcomes = 5
    MaxFaults = 1
SPECIFICATION Spec
SYMMETRY Symmetry
INVARIANTS TypeOK TrustIsEarned SerialOutcomesCount CallsArePermitted AnswersAreCounted
