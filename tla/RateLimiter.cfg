SPECIFICATION Spec
CONSTANTS
    r1 = r1
    r2 = r2
    Requests = {r1, r2}
    Limit = 2
    Window = 3
    MaxDelay = 3
    MaxTime = 7
INVARIANT CounterWithinLimit
INVARIANT WindowWithinLimit
INVARIANT NoBoundarySpike
INVARIANT RemainingIsHonest
SYMMETRY Symmetry
