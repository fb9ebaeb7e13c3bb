SPECIFICATION HistorySpec
CONSTANTS
    c1 = c1
    r1 = r1
    r2 = r2
    None = None
    Codes = {c1}
    Requests = {r1, r2}
    Operations = {"redirect", "create", "activate", "deactivate", "delete"}
    MaxAttempts = 2
    MayFail = TRUE
    MaxId = 3
INVARIANT CoherentWhenCalm
INVARIANT StaleOnlyByRace
INVARIANT ServesTheLink
PROPERTY ChangedOnlyByItsReader
PROPERTY DeletedFadesAway
PROPERTY EveryRequestAnswered
