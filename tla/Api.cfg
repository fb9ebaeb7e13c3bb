SPECIFICATION Spec
CONSTANTS
    c1 = c1
    c2 = c2
    a1 = a1
    a2 = a2
    proxy = proxy
    None = None
    Callers = {c1, c2}
    Addresses = {a1, a2, proxy}
    Scenarios <- MCScenarios
    Seeds = 2
    Retries = 2
    Limit = 2
    Window = 3
INVARIANT LoadTestPasses
INVARIANT WorkIsLimited
INVARIANT ServedByThirdAttempt
PROPERTY RefusedForOwnRequests
