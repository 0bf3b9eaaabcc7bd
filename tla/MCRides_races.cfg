SPECIFICATION Spec
CONSTANTS
    b1 = b1
    b2 = b2
    d1 = d1
    d2 = d2
    p1 = p1
    p2 = p2
    None = None
    Bookings = {b1}
    Drivers = {d1}
    Procs = {p1, p2}
    Handlers <- RaceHandlers
    PatchStatuses <- CancelsOnly
    Approved = {d1}
    PaymentMethods = {"cash"}
    Fare = 100
    WaitCharge = 20
    FinalFares <- Unchanged
    MaxAttempts = 1
    MaxRows = 0
INVARIANTS TypeOK VerifiedAfterRelease WaitChargeJustified RideUnderWay
SYMMETRY Slots
