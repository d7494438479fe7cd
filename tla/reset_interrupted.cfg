SPECIFICATION Spec
CONSTANTS
    Fetchers = {f1, f2}
    Inserters = {i1, i2}
    TotalPages = 4
    ChanSize = 1
    Catalogue <- SmallCatalogue
INVARIANTS
    FailureChangesNothing
CHECK_DEADLOCK FALSE
