SPECIFICATION FairSpec
CONSTANTS
    Drivers = {d1, d2}
    Beats = {h1}
    Searches = {q1}
    Places = {1, 2}
    Radius = 1
    Count = 1
    None = None
INVARIANTS TypeOK ReportedWasAlive SteadyIsIndexed IndexedIsDurable
PROPERTIES DepartedStaysOut DeadAreEvicted
