SPECIFICATION Spec
CONSTANTS
    f1 = f1  f2 = f2  u1 = u1  u2 = u2  u3 = u3  d1 = d1  d2 = d2  b1 = b1  p1 = p1  p2 = p2
    None = None
    Phones = {f1, f2}
    Users = {u1, u2, u3}
    Drivers = {d1, d2}
    Bookings = {b1}
    Procs = {p1, p2}
    Settings <- AllSettings
SYMMETRY Interchangeable
INVARIANTS TypeOK OneRatingPerRide ReferencesLive RidesNotOrphaned ProfilesMatchAccounts
PROPERTIES DeletionDetaches OthersKept
CHECK_DEADLOCK FALSE
