SPECIFICATION FairSpec
CONSTANTS
    d1 = d1  d2 = d2  b1 = b1
    None = None
    Unreadable = Unreadable
    Drivers = {d1, d2}
    Bookings = {b1}
    Vehicles = {"loading", "small"}
    Sizes = {"small_package", "large_package", "other"}
    Assists <- SomeAssists
    Distances <- SomeDistances
INVARIANTS TypeOK StoredAssistPriced EstimateRounded
PROPERTIES AssistNeedsLoadingVehicle SettledNotOffered OfferedWhileDue
