CONSTANTS
    MaxRow = 5
    PerPage = 2
    Limit = 2
    PageLimit = 3
    Overfetch = 2
    TypedId = 2
    Tokens <- MCTokens
    NewRows <- MCNewRows
    Catalogs <- MCCatalogs
    MaxRegistry = 4
SPECIFICATION Spec
INVARIANTS
    NothingPassedOver
    MissesOnlyTheLate
    EnterLeadsToASuggestion
    BestOnceFirst
PROPERTY
    PagesAreSlices
\* The table is full and the reader has read it.
CHECK_DEADLOCK FALSE
