SPECIFICATION Spec
CONSTANTS
    Users = {u1, u2}
    Orders = {o1, o2}
    Procs = {p1}
    None = None
    Amounts = {1}
    MaxCalls = 2
INVARIANTS CreditedOnce
CHECK_DEADLOCK FALSE
