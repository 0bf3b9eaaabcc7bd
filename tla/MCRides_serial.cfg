SPECIFICATION FairSpec
CONSTANTS
    b1 = b1
    b2 = b2
    d1 = d1
    d2 = d2
    p1 = p1
    p2 = p2
    None = None
    Bookings = {b1}
    Drivers = {d1, d2}
    Procs = {p1}
    Handlers <- SerialHandlers
    PatchStatuses <- EndsOnly
    Approved = {d1, d2}
    PaymentMethods = {"cash", "wallet"}
    Fare = 100
    WaitCharge = 20
    FinalFares <- Unchanged
    MaxAttempts = 2
    MaxRows = 4
INVARIANTS SettledExactly LiveCodeUsable OverHasNoCode LedgerHasRide OnTripHasRide
PROPERTIES BudgetOnlySpent ImplementsLifecycle StaleRequestResolved
