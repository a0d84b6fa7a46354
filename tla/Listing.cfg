\* Three rows, two ticks, pages of one or two rows.
SPECIFICATION ListSpec
CONSTANTS
    Ids = {1, 2, 3}
    Filters = {"queued", "running"}
    NoFilter = NoFilter
    NoLimit = NoLimit
    NoCursor = NoCursor
    Limits = {1, 2}
    DefaultPageSize = 2
    MaxPageSize = 2
    MaxTime = 1
INVARIANTS ListInv PagesDescend WalkIsComplete
PROPERTIES WalkEnds
