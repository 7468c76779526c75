CONSTANTS
    m1 = m1
    m2 = m2
    w1 = w1
    w2 = w2
    Monitors = {m1, m2}
    Interval <- MCInterval
    Workers = {w1, w2}
    NoMonitor = NoMonitor
    MaxTime = 2
    MaxFaults = 1
SPECIFICATION Spec
SYMMETRY Symmetry
INVARIANTS TypeOK StoppedForCause SerialStreakCounts RunsAreSpaced
PROPERTY DisabledStays
