SPECIFICATION Spec
CONSTANTS
    None = None
    c1 = c1
    c2 = c2
    Clients = {c1, c2}
    Targets = {1, 2}
    Times = {1, 2}
    Scenarios <- MCScenarios
    Filters <- MCFilters
    Sorts <- MCSorts
    PerPage = 1
    MaxHeld = 2
INVARIANT IdKeepsCode
INVARIANT EditsLostOnlyByOldEntities
INVARIANT PagesMissOnlyAfterDeletes
PROPERTY DeletedReturnsForAnother
PROPERTY ListingsAsAsked
SYMMETRY Symmetry
CHECK_DEADLOCK FALSE
