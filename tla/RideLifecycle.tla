--------------------------- MODULE RideLifecycle ---------------------------
(***************************************************************************)
(* What the ride core promises for a booking, without sessions, rows or    *)
(* codes: it is requested, given to at most one driver and never to        *)
(* another, boarded at most once, and when it is over it stays over; a     *)
(* driver is paid for it at most once, at the moment it ends.              *)
(***************************************************************************)
CONSTANTS Bookings, Drivers, None

VARIABLES
    stage,   \* "none", "requested", "assigned", "riding", "over" or "gone"
    rider,   \* the driver the booking was given to
    paid     \* the bookings a driver was paid for

vars == <<stage, rider, paid>>

Init ==
    /\ stage = [b \in Bookings |-> "none"]
    /\ rider = [b \in Bookings |-> None]
    /\ paid = {}

Request(b) ==
    /\ stage[b] = "none"
    /\ stage' = [stage EXCEPT ![b] = "requested"]
    /\ UNCHANGED <<rider, paid>>

Assign(b, d) ==
    /\ stage[b] = "requested"
    /\ stage' = [stage EXCEPT ![b] = "assigned"]
    /\ rider' = [rider EXCEPT ![b] = d]
    /\ UNCHANGED paid

Board(b) ==
    /\ stage[b] = "assigned"
    /\ stage' = [stage EXCEPT ![b] = "riding"]
    /\ UNCHANGED <<rider, paid>>

\* Requests that nobody took are dropped together.
Expire(S) ==
    /\ \A b \in S : stage[b] = "requested"
    /\ stage' = [b \in Bookings |-> IF b \in S THEN "over" ELSE stage[b]]
    /\ UNCHANGED <<rider, paid>>

\* A booking ends without pay from any stage, and with pay only while a driver
\* has it.
Cancel(b) ==
    /\ stage[b] \in {"requested", "assigned", "riding"}
    /\ stage' = [stage EXCEPT ![b] = "over"]
    /\ UNCHANGED <<rider, paid>>

Settle(b) ==
    /\ stage[b] \in {"assigned", "riding"}
    /\ b \notin paid
    /\ stage' = [stage EXCEPT ![b] = "over"]
    /\ paid' = paid \cup {b}
    /\ UNCHANGED rider

Remove(b) ==
    /\ stage[b] \notin {"none", "gone"}
    /\ stage' = [stage EXCEPT ![b] = "gone"]
    /\ rider' = [rider EXCEPT ![b] = None]
    /\ paid' = paid \ {b}

Next ==
    \/ \E b \in Bookings : Request(b) \/ Board(b) \/ Cancel(b) \/ Settle(b) \/ Remove(b)
    \/ \E b \in Bookings, d \in Drivers : Assign(b, d)
    \/ \E S \in SUBSET Bookings : Expire(S)

Spec == Init /\ [][Next]_vars
=============================================================================
