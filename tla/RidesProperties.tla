-------------------------- MODULE RidesProperties --------------------------
(***************************************************************************)
(* What is claimed of the ride core of module Rides.                       *)
(***************************************************************************)
EXTENDS Rides

\* Every column, ledger row, rejection and session stays within its type;
\* in particular the attempt budget of a code never leaves 0 .. MaxAttempts,
\* whatever requests race (driver/router.py verify_ride_otp).
TypeOK ==
    /\ table \in [Bookings -> {"unused", "row", "deleted"}]
    /\ bookings \in [Bookings -> Booking]
    /\ drivers \in [Drivers -> Driver]
    /\ ledger \in [Drivers -> Seq(Txn)]
    /\ rejections \in SUBSET (Drivers \X Bookings)
    /\ session \in [Procs -> Session]

-----------------------------------------------------------------------------
(* Whatever requests race *)

\* A ride is only marked verified after its code was released to the passenger
\* (start_ride), although start, verify, cancel and the passenger's PATCH each
\* commit what they decided on rows read earlier.
VerifiedAfterRelease ==
    \A b \in Bookings : bookings[b].otp_verified => bookings[b].otp_released

\* A passenger is charged for waiting only on a ride whose driver had arrived
\* and whose code was verified, although arrived_at and wait_charge_amount are
\* written by requests that may overlap.
WaitChargeJustified ==
    \A b \in Bookings :
        bookings[b].wait_charge_amount # 0 =>
            bookings[b].arrived_at # "null" /\ bookings[b].otp_verified

\* The wallet ledger names a booking only while its row is there, and only a
\* booking that a driver completed: settlement and completion are committed
\* together (complete_ride), and deleting the booking detaches the rows.
LedgerHasRide ==
    \A d \in Drivers : \A i \in DOMAIN ledger[d] :
        LET b == ledger[d][i].booking_id IN
        b # None => Exists(b) /\ bookings[b].completed_at

\* While passengers only end bookings (PATCH with COMPLETED or CANCELLED), a
\* ride under way has a driver, and an ONGOING one was boarded with the code,
\* although accepts, verifications and PATCHes race on the same row.
RideUnderWay ==
    \A b \in Bookings :
        /\ bookings[b].status \in {"ACCEPTED", "ONGOING"} => bookings[b].driver_id # None
        /\ bookings[b].status = "ONGOING" => bookings[b].otp_verified

-----------------------------------------------------------------------------
(* One request at a time, passengers only ending bookings *)

\* What complete_ride owes for a fare: the fare itself unless it was paid in
\* cash, less the commission.
Settlement(bk) ==
    LET credit == IF bk.payment_method = "cash" THEN <<>>
                  ELSE <<[type |-> "RIDE_CREDIT", amount |-> bk.fare]>>
        commission == Commission(bk.fare)
    IN  IF commission > 0
        THEN Append(credit, [type |-> "ORDER_DEDUCTION", amount |-> -commission])
        ELSE credit

\* The rows that name b are those that are owed, in that order.
Lists(rows, b, owed) ==
    \E at \in [DOMAIN owed -> DOMAIN rows] :
        /\ \A i, j \in DOMAIN owed : i < j => at[i] < at[j]
        /\ \A k \in DOMAIN rows :
              rows[k].booking_id = b <=> \E i \in DOMAIN owed : at[i] = k
        /\ \A i \in DOMAIN owed : /\ rows[at[i]].type = owed[i].type
                                  /\ rows[at[i]].amount = owed[i].amount

\* A completed booking is settled once and exactly: the ledger of its driver
\* holds the rows its final fare calls for and no other ledger holds any; a
\* booking that was not completed by its driver has none.
SettledExactly ==
    \A b \in Bookings, d \in Drivers :
        Exists(b) =>
            Lists(ledger[d], b,
                  IF bookings[b].completed_at /\ bookings[b].driver_id = d
                  THEN Settlement(bookings[b])
                  ELSE <<>>)

\* A driver that is "on_trip" has a booking under way: every way a ride ends
\* frees its driver (unless the admin panel set the status).
OnTripHasRide ==
    \A d \in Drivers : drivers[d].status = "on_trip" =>
        \E b \in Bookings : /\ Exists(b)
                            /\ bookings[b].driver_id = d
                            /\ bookings[b].status \in {"ACCEPTED", "ONGOING"}

\* A code the passenger still sees can still be entered: it has attempts left.
LiveCodeUsable ==
    \A b \in Bookings : bookings[b].ride_otp_expires_at = "live" =>
        bookings[b].ride_otp_attempts_remaining \notin {None, 0}

\* A booking that is over has neither a code nor an attempt budget, however it
\* ended.
OverHasNoCode ==
    \A b \in Bookings : bookings[b].status \in TerminalStates =>
        /\ bookings[b].ride_otp_expires_at = "null"
        /\ bookings[b].ride_otp_attempts_remaining = None

\* Wrong guesses are never forgotten: a budget grows only when the passenger
\* is given a new code because no valid one was out.
BudgetOnlySpent ==
    [][\A b \in Bookings :
         LET before == bookings[b].ride_otp_attempts_remaining
             after == bookings'[b].ride_otp_attempts_remaining
         IN  before # None /\ after # None /\ after > before =>
                bookings[b].ride_otp_expires_at # "live"]_vars

\* Refinement: read by status and driver, the core implements RideLifecycle.
StageOf(b) ==
    CASE table[b] = "unused" -> "none"
      [] table[b] = "deleted" -> "gone"
      [] OTHER -> CASE bookings[b].status = "PENDING" -> "requested"
                    [] bookings[b].status = "ACCEPTED" -> "assigned"
                    [] bookings[b].status = "ONGOING" -> "riding"
                    [] OTHER -> "over"

PaidFor(b) == \E d \in Drivers : \E i \in DOMAIN ledger[d] : ledger[d][i].booking_id = b

Lifecycle == INSTANCE RideLifecycle WITH
    stage <- [b \in Bookings |-> StageOf(b)],
    rider <- [b \in Bookings |-> bookings[b].driver_id],
    paid <- {b \in Bookings : PaidFor(b)}

\* With one request slot and passengers that only end bookings, every commit of
\* the ride core is a step of the lifecycle a booking is promised.
ImplementsLifecycle == Lifecycle!Spec

-----------------------------------------------------------------------------
(* Liveness *)

\* Requests are served: a request in a slot ends, and the passenger's app keeps
\* polling /bookings/me, so that a poll is served again and again.
Fairness ==
    \A p \in Procs :
        /\ WF_vars(SessionStep(p) \/ AddRideCredit(p) \/ AddCommission(p))
        /\ SF_vars(ListMyBookings(p))

FairSpec == Spec /\ Fairness

\* A request that nobody accepts within its time to live does not linger: it
\* is cancelled, accepted, or deleted.
StaleRequestResolved ==
    \A b \in Bookings :
        (Exists(b) /\ bookings[b].status = "PENDING" /\ bookings[b].created_at = "stale")
            ~> (~Exists(b) \/ bookings[b].status # "PENDING")

-----------------------------------------------------------------------------
(* What the repository says of the core *)

\* models/wallet.py: balance_after is the running balance after the row.
RunningBalance ==
    \A d \in Drivers : \A i \in DOMAIN ledger[d] :
        ledger[d][i].balance_after =
            (IF i = 1 THEN 0 ELSE ledger[d][i - 1].balance_after) + ledger[d][i].amount

\* driver/router.py, complete_ride: a double tap writes no duplicate entries.
NoDuplicateEntries ==
    \A d \in Drivers : \A i, j \in DOMAIN ledger[d] :
        /\ i # j
        /\ ledger[d][i].booking_id = ledger[d][j].booking_id
        /\ ledger[d][i].booking_id # None
        => ledger[d][i].type # ledger[d][j].type

\* README.md: approval is required before a driver can go online.
OnlineIsApproved ==
    \A d \in Drivers : drivers[d].status = "online" => drivers[d].documents_verified
=============================================================================
