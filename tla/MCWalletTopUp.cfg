SPECIFICATION Spec
CONSTANTS
    Users = {u1, u2}
    Orders = {o1, o2}
    Procs = {p1, p2}
    None = None
    Amounts = {1, 3}
    MaxCalls = 2
INVARIANTS TypeOK SucceededWasPaid SuccessIsCredited BalanceBacked
SYMMETRY Slots
CHECK_DEADLOCK FALSE
