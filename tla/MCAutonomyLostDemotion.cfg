CONSTANTS
    c1 = c1
    c2 = c2
    r1 = r1
    w1 = w1
    w2 = w2
    Capabilities = {c1}
    Seeds = {c1}
    Candidates = {}
    Verifiable = {c1}
    Calls <- PlainCall
    Requests = {r1}
    Workers = {w1, w2}
    NoCall = NoCall
    NoRequest = NoRequest
    NoCapability = NoCapability
    MaxOutcomes = 3
    MaxFaults = 0
SPECIFICATION Spec
SYMMETRY Symmetry
INVARIANT ContradictionsCount
