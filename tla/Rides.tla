------------------------------- MODULE Rides -------------------------------
(***************************************************************************)
(* The ride core of the GoCity backend: booking rows, driver rows, the     *)
(* driver wallet ledger and the rejection table, and the passenger, driver *)
(* and admin endpoints that change them.                                   *)
(*                                                                         *)
(* FastAPI runs every synchronous endpoint on a thread of its pool, with a *)
(* SQLAlchemy session of its own, without locks and without a version      *)
(* column.  A request is therefore a process that READS the rows it needs  *)
(* into its session, decides on what it read, and later COMMITS.  A commit *)
(* updates, by primary key, the columns whose value differs from the value *)
(* that was read (the unit of work's net changes) and nothing else.        *)
(*                                                                         *)
(* Procs is the set of request slots: one slot makes requests serial, two  *)
(* let them race.  Handlers is the set of endpoints the clients call.      *)
(*                                                                         *)
(* Foreign keys are taken to be enforced, as on PostgreSQL: a row that     *)
(* names a deleted booking is detached or deleted with it (DeleteRow).  On *)
(* SQLite, as core/database.py configures it, it would stay as it is;      *)
(* module Accounts has both.                                               *)
(***************************************************************************)
EXTENDS Integers, Sequences

CONSTANTS
    Bookings,        \* booking ids (an id is never reused)
    Drivers,         \* driver ids, each with a registered profile
    Procs,           \* request slots of the server
    None,            \* SQL NULL / Python None
    Handlers,        \* the endpoints that are called
    PatchStatuses,   \* the values passengers send to PATCH /bookings/{id}/status
    Approved,        \* drivers whose documents were approved beforehand
    PaymentMethods,  \* payment methods of the bookings that are created
    Fare,            \* fare of a new booking
    WaitCharge,      \* charge for waiting past the grace period
    FinalFares,      \* values of final_fare a driver may send (None: not sent)
    MaxAttempts,     \* RIDE_OTP_MAX_VERIFY_ATTEMPTS
    MaxRows          \* bound: ledger rows of one driver

BookingStatus == {"PENDING", "ACCEPTED", "ONGOING", "COMPLETED", "CANCELLED"}
TerminalStates == {"COMPLETED", "CANCELLED"}
DriverStatus == {"offline", "online", "on_trip"}
DocumentStatus == {"pending", "submitted", "verified", "rejected"}

ASSUME RidesAssumption ==
    /\ None \notin Bookings \cup Drivers \cup Int
    /\ PatchStatuses \subseteq BookingStatus
    /\ Approved \subseteq Drivers
    /\ PaymentMethods \subseteq {"cash", "wallet"}
    /\ Fare \in Int /\ WaitCharge \in Int
    /\ FinalFares \subseteq Int \cup {None}
    /\ MaxAttempts \in Nat \ {0}
    /\ MaxRows \in Nat

(***************************************************************************)
(* Rows.  A timestamp is abstracted to what the code compares it with:     *)
(* created_at with the request TTL, ride_otp_expires_at with now, and      *)
(* arrived_at with the waiting grace period.                               *)
(***************************************************************************)
Booking == [status : BookingStatus,
            driver_id : Drivers \cup {None},
            payment_method : {"cash", "wallet"},
            fare : Int,
            created_at : {"fresh", "stale"},
            ride_otp_expires_at : {"null", "live", "expired"},
            ride_otp_attempts_remaining : (0 .. MaxAttempts) \cup {None},
            otp_released : BOOLEAN,
            otp_verified : BOOLEAN,
            arrived_at : {"null", "in_grace", "past_grace"},
            wait_charge_amount : Int,
            completed_at : BOOLEAN]

Driver == [status : DriverStatus,
           documents_verified : BOOLEAN,
           document_verification_status : DocumentStatus]

Txn == [type : {"RIDE_CREDIT", "ORDER_DEDUCTION"},
        amount : Int,
        balance_after : Int,
        booking_id : Bookings \cup {None}]

\* The row a create endpoint inserts.
NewBooking(method) ==
    [status |-> "PENDING", driver_id |-> None, payment_method |-> method,
     fare |-> Fare, created_at |-> "fresh",
     ride_otp_expires_at |-> "null", ride_otp_attempts_remaining |-> None,
     otp_released |-> FALSE, otp_verified |-> FALSE, arrived_at |-> "null",
     wait_charge_amount |-> 0, completed_at |-> FALSE]

\* The profile of a driver that has just been registered, and after approval.
NewDriver == [status |-> "offline", documents_verified |-> FALSE,
              document_verification_status |-> "pending"]
ApprovedDriver == [status |-> "offline", documents_verified |-> TRUE,
                   document_verification_status |-> "verified"]

\* Place-holder for the row of an id that is not in the table.
NoBooking == NewBooking("cash")

(***************************************************************************)
(* A request in flight: the rows as read (drv, bk) and as the handler left *)
(* them in its session (newDrv, newBk), the inserts that wait for the      *)
(* commit, and what follows it.                                            *)
(***************************************************************************)
Session == [phase : {"idle", "gated", "credit", "commission", "flush", "delete"},
            driver : Drivers \cup {None},
            booking : Bookings \cup {None},
            drv : Driver, newDrv : Driver,
            bk : Booking, newBk : Booking,
            rejection : BOOLEAN,
            txns : Seq(Txn),
            after : {"idle", "delete"}]

Idle == [phase |-> "idle", driver |-> None, booking |-> None,
         drv |-> NewDriver, newDrv |-> NewDriver,
         bk |-> NoBooking, newBk |-> NoBooking,
         rejection |-> FALSE, txns |-> <<>>, after |-> "idle"]

VARIABLES
    table,       \* which booking ids are rows: "unused", "row" or "deleted"
    bookings,    \* the booking rows
    drivers,     \* the driver rows
    ledger,      \* per driver, the wallet ledger in id order
    rejections,  \* driver_ride_rejections
    session      \* the session of each request slot

db == <<table, bookings, drivers, ledger, rejections>>
vars == <<table, bookings, drivers, ledger, rejections, session>>

Init ==
    /\ table = [b \in Bookings |-> "unused"]
    /\ bookings = [b \in Bookings |-> NoBooking]
    /\ drivers = [d \in Drivers |-> IF d \in Approved THEN ApprovedDriver ELSE NewDriver]
    /\ ledger = [d \in Drivers |-> <<>>]
    /\ rejections = {}
    /\ session = [p \in Procs |-> Idle]

-----------------------------------------------------------------------------
(* Sessions.  An operator that a comment calls a slip is not part of the model: *)
(* it is the definition after it with one plausible mistake, kept to show that  *)
(* the properties notice it.                                                    *)

\* The columns the unit of work writes: those whose value is not the one read.
Flush(row, seen, new) ==
    [c \in DOMAIN row |-> IF new[c] = seen[c] THEN row[c] ELSE new[c]]

Free(p) == session[p].phase = "idle"
Gated(p) == session[p].phase = "gated"
Exists(b) == table[b] = "row"

\* The handler has run up to its commit; the database is untouched so far.
Stage(p, s) ==
    /\ session' = [session EXCEPT ![p] = s]
    /\ UNCHANGED db

\* _get_driver: read the caller's profile and pass the verification gate.
GetDriver(p, d) ==
    /\ Free(p)
    /\ drivers[d].documents_verified
    /\ Stage(p, [Idle EXCEPT !.phase = "gated", !.driver = d,
                             !.drv = drivers[d], !.newDrv = drivers[d]])

\* A driver endpoint read booking b and is ready to commit new values for it
\* and a new status for its driver.
StageRide(p, b, newBk, newStatus) ==
    Stage(p, [session[p] EXCEPT !.phase = "flush", !.booking = b,
                                !.bk = bookings[b], !.newBk = newBk,
                                !.newDrv.status = newStatus])

\* booking.driver, loaded by the same query as the booking (joinedload).
BookingDriver(bk) == IF bk.driver_id = None THEN NewDriver ELSE drivers[bk.driver_id]

\* An UPDATE that matches no row (StaleDataError), or an insert whose booking
\* is gone (foreign key): the request fails and the transaction rolls back.
RowGone(s) ==
    /\ s.booking # None
    /\ ~Exists(s.booking)
    /\ s.newBk # s.bk \/ s.rejection

\* db.commit(): one transaction writes everything the session holds.
Commit(p) ==
    LET s == session[p] IN
    /\ s.phase = "flush"
    /\ ~RowGone(s)
    /\ bookings' = [b \in Bookings |->
                      IF b = s.booking THEN Flush(bookings[b], s.bk, s.newBk)
                                       ELSE bookings[b]]
    /\ drivers' = [d \in Drivers |->
                     IF d = s.driver THEN Flush(drivers[d], s.drv, s.newDrv)
                                     ELSE drivers[d]]
    /\ ledger' = [d \in Drivers |->
                    IF d = s.driver THEN ledger[d] \o s.txns ELSE ledger[d]]
    /\ rejections' = IF s.rejection THEN rejections \cup {<<s.driver, s.booking>>}
                                    ELSE rejections
    /\ session' = [session EXCEPT ![p] =
                     IF s.after = "delete"
                     THEN [Idle EXCEPT !.phase = "delete", !.booking = s.booking]
                     ELSE Idle]
    /\ UNCHANGED table

CommitFails(p) ==
    /\ session[p].phase = "flush"
    /\ RowGone(session[p])
    /\ Stage(p, Idle)

\* The request ends without (further) effect: a refusal, an endpoint that only
\* reads, or a crash of the server between a read and the commit.
EndRequest(p) ==
    /\ ~Free(p)
    /\ Stage(p, Idle)

-----------------------------------------------------------------------------
(* Passenger endpoints: app/booking/router.py *)

CreateBooking(p, b, method) ==
    /\ "create" \in Handlers
    /\ Free(p)
    /\ table[b] = "unused"
    /\ table' = [table EXCEPT ![b] = "row"]
    /\ bookings' = [bookings EXCEPT ![b] = NewBooking(method)]
    /\ UNCHANGED <<drivers, ledger, rejections, session>>

\* A slip: the cutoff compared the wrong way round.
ExpireFreshBookings ==
    bookings' = [b \in Bookings |->
                   IF Exists(b) /\ bookings[b].status = "PENDING"
                                /\ bookings[b].created_at = "fresh"
                   THEN [bookings[b] EXCEPT !.status = "CANCELLED"]
                   ELSE bookings[b]]

\* expire_stale_pending_bookings: one bulk UPDATE, whose WHERE clause the
\* database re-evaluates on each row it locks.
ExpireStalePendingBookings ==
    bookings' = [b \in Bookings |->
                   IF /\ Exists(b)
                      /\ bookings[b].status = "PENDING"
                      /\ bookings[b].created_at = "stale"
                   THEN [bookings[b] EXCEPT !.status = "CANCELLED"]
                   ELSE bookings[b]]

ListMyBookings(p) ==
    /\ "list" \in Handlers
    /\ Free(p)
    /\ ExpireStalePendingBookings
    /\ UNCHANGED <<table, drivers, ledger, rejections, session>>

\* Two slips: the attempt budget is left behind; the release is taken back too.
ClearExpiry(bk) == [bk EXCEPT !.ride_otp_expires_at = "null"]
RevokeCode(bk) == [bk EXCEPT !.ride_otp_expires_at = "null",
                             !.ride_otp_attempts_remaining = None,
                             !.otp_released = FALSE]

\* What every way out of a ride does to its code.
ClearCode(bk) == [bk EXCEPT !.ride_otp_expires_at = "null",
                            !.ride_otp_attempts_remaining = None]

\* A slip: a cancelled ride does not free its driver.
FreedOnCompletion(bk, newStatus) ==
    IF newStatus = "COMPLETED" /\ bk.driver_id # None THEN "online"
    ELSE BookingDriver(bk).status

\* The status of the booking's driver once the booking has a new status.
FreedStatus(bk, newStatus) ==
    IF newStatus \in TerminalStates /\ bk.driver_id # None THEN "online"
    ELSE BookingDriver(bk).status

UpdateBookingStatus(p, b, newStatus) ==
    LET bk == bookings[b]
        drv == BookingDriver(bk)
        set == [bk EXCEPT !.status = newStatus]
    IN  /\ "patch" \in Handlers
        /\ Free(p)
        /\ Exists(b)
        /\ Stage(p, [Idle EXCEPT !.phase = "flush", !.booking = b,
                                 !.driver = bk.driver_id, !.drv = drv,
                                 !.newDrv = [drv EXCEPT !.status = FreedStatus(bk, newStatus)],
                                 !.bk = bk,
                                 !.newBk = IF newStatus \in TerminalStates
                                           THEN ClearCode(set) ELSE set])

\* delete_booking: the driver is freed and committed first, the row goes in a
\* second transaction.
DeleteBooking(p, b) ==
    LET bk == bookings[b]
        drv == BookingDriver(bk)
        assigned == bk.driver_id # None
    IN  /\ "delete" \in Handlers
        /\ Free(p)
        /\ Exists(b)
        /\ Stage(p, IF assigned
                    THEN [Idle EXCEPT !.phase = "flush", !.booking = b,
                                      !.driver = bk.driver_id, !.drv = drv,
                                      !.newDrv = [drv EXCEPT !.status = "online"],
                                      !.after = "delete"]
                    ELSE [Idle EXCEPT !.phase = "delete", !.booking = b])

\* A slip: the ledger keeps pointing at the deleted booking.
KeepRows(rows, b) == rows

\* ON DELETE SET NULL of driver_wallet_transactions.booking_id, by the database.
DetachRows(rows, b) ==
    [i \in DOMAIN rows |->
        IF rows[i].booking_id = b THEN [rows[i] EXCEPT !.booking_id = None] ELSE rows[i]]

DeleteRow(p) ==
    LET b == session[p].booking IN
    /\ session[p].phase = "delete"
    /\ Exists(b)
    /\ table' = [table EXCEPT ![b] = "deleted"]
    /\ bookings' = [bookings EXCEPT ![b] = NoBooking]
    /\ ledger' = [d \in Drivers |-> DetachRows(ledger[d], b)]
    /\ rejections' = {r \in rejections : r[2] # b}
    /\ session' = [session EXCEPT ![p] = Idle]
    /\ UNCHANGED drivers

-----------------------------------------------------------------------------
(* Driver endpoints: app/driver/router.py, after the gate of GetDriver *)

StageDriver(p, newStatus) ==
    Stage(p, [session[p] EXCEPT !.phase = "flush", !.newDrv.status = newStatus])

GoOnline(p) ==
    /\ "go_online" \in Handlers
    /\ Gated(p)
    /\ StageDriver(p, "online")

GoOffline(p) ==
    /\ "go_offline" \in Handlers
    /\ Gated(p)
    /\ StageDriver(p, "offline")

\* get_available_rides: the poll expires stale requests before it reads.
GetAvailableRides(p) ==
    /\ "available" \in Handlers
    /\ Gated(p)
    /\ ExpireStalePendingBookings
    /\ session' = [session EXCEPT ![p] = Idle]
    /\ UNCHANGED <<table, drivers, ledger, rejections>>

\* A slip: the status is not looked at.
Known(b) == Exists(b)

Acceptable(b) == Exists(b) /\ bookings[b].status = "PENDING"

AcceptRide(p, b) ==
    /\ "accept" \in Handlers
    /\ Gated(p)
    /\ Acceptable(b)
    /\ StageRide(p, b, [bookings[b] EXCEPT !.driver_id = session[p].driver,
                                           !.status = "ACCEPTED"],
                 "on_trip")

\* INSERT ... ON CONFLICT DO NOTHING.
RejectRide(p, b) ==
    /\ "reject" \in Handlers
    /\ Gated(p)
    /\ Exists(b)
    /\ Stage(p, [session[p] EXCEPT !.phase = "flush", !.booking = b,
                                   !.bk = bookings[b], !.newBk = bookings[b],
                                   !.rejection = TRUE])

\* The booking belongs to the calling driver.
Mine(p, b) ==
    /\ Gated(p)
    /\ Exists(b)
    /\ bookings[b].driver_id = session[p].driver

\* Inside the geofence; a second tap returns the booking unchanged.
ArriveAtPickup(p, b) ==
    /\ "arrived" \in Handlers
    /\ Mine(p, b)
    /\ bookings[b].status = "ACCEPTED"
    /\ bookings[b].arrived_at = "null"
    /\ StageRide(p, b, [bookings[b] EXCEPT !.arrived_at = "in_grace"],
                 session[p].drv.status)

\* A slip: a repeated tap on "Start Trip" refills the attempts.
ReissueCode(bk) == [bk EXCEPT !.ride_otp_expires_at = "live",
                              !.ride_otp_attempts_remaining = MaxAttempts,
                              !.otp_released = TRUE]

\* While the released code is still valid only a missing attempt budget is
\* filled in; otherwise a fresh code is issued.
ReleaseCode(bk) ==
    LET valid == bk.otp_released /\ bk.ride_otp_expires_at = "live"
        budget == IF valid /\ bk.ride_otp_attempts_remaining # None
                  THEN bk.ride_otp_attempts_remaining ELSE MaxAttempts
    IN  [bk EXCEPT !.ride_otp_expires_at = "live",
                   !.ride_otp_attempts_remaining = budget,
                   !.otp_released = TRUE]

StartRide(p, b) ==
    /\ "start" \in Handlers
    /\ Mine(p, b)
    /\ bookings[b].status = "ACCEPTED"
    /\ StageRide(p, b, ReleaseCode(bookings[b]), session[p].drv.status)

\* A slip: a spent budget is not refused.
MayGuess(p, b) ==
    /\ "verify" \in Handlers
    /\ Mine(p, b)
    /\ bookings[b].status = "ACCEPTED"
    /\ bookings[b].otp_released
    /\ bookings[b].ride_otp_attempts_remaining # None

\* The guards verify_ride_otp puts before it compares the code.
MayVerify(p, b) ==
    /\ "verify" \in Handlers
    /\ Mine(p, b)
    /\ bookings[b].status = "ACCEPTED"
    /\ bookings[b].otp_released
    /\ bookings[b].ride_otp_attempts_remaining \notin {None, 0}

\* A slip: the last wrong guess leaves the code standing.
OnlySpendAttempt(bk) == [bk EXCEPT !.ride_otp_attempts_remaining = @ - 1]

SpendAttempt(bk) ==
    LET left == bk.ride_otp_attempts_remaining - 1
        spent == [bk EXCEPT !.ride_otp_attempts_remaining = left]
    IN  IF left <= 0 THEN [spent EXCEPT !.ride_otp_expires_at = "null"] ELSE spent

\* A wrong code, or any code once the released one has expired.
VerifyWrongOtp(p, b) ==
    /\ MayVerify(p, b)
    /\ StageRide(p, b, SpendAttempt(bookings[b]), session[p].drv.status)

\* A slip: no arrival counts as a long wait.
WaitChargeUnlessInGrace(bk) == IF bk.arrived_at = "in_grace" THEN 0 ELSE WaitCharge

\* Waiting past the grace period after ARRIVED is charged when the ride starts.
WaitChargeOf(bk) ==
    CASE bk.arrived_at = "null" -> bk.wait_charge_amount
      [] bk.arrived_at = "in_grace" -> 0
      [] bk.arrived_at = "past_grace" -> WaitCharge

\* A slip: the ride starts without being marked verified.
BoardedUnmarked(bk) ==
    [ClearCode(bk) EXCEPT !.status = "ONGOING", !.wait_charge_amount = WaitChargeOf(bk)]

Boarded(bk) ==
    [ClearCode(bk) EXCEPT !.otp_verified = TRUE,
                          !.status = "ONGOING",
                          !.wait_charge_amount = WaitChargeOf(bk)]

VerifyRightOtp(p, b) ==
    /\ MayVerify(p, b)
    /\ bookings[b].ride_otp_expires_at = "live"
    /\ StageRide(p, b, Boarded(bookings[b]), session[p].drv.status)

Commission(total) == (total * 15) \div 100

\* _wallet_balance: balance_after of the driver's last committed row.  The
\* session has autoflush off, so rows it has only added are not seen.
WalletBalance(d) ==
    IF ledger[d] = <<>> THEN 0 ELSE ledger[d][Len(ledger[d])].balance_after

\* A slip: a second tap on "Complete Trip" is not recognised.
NotCancelled(bk) == bk.status # "CANCELLED"

\* The two early returns of complete_ride.
Completable(bk) == bk.status \notin TerminalStates

\* complete_ride up to the wallet: not guarded by ONGOING.
CompleteRide(p, b, finalFare) ==
    LET bk == bookings[b]
        base == IF finalFare # None THEN finalFare ELSE bk.fare
    IN  /\ "complete" \in Handlers
        /\ Mine(p, b)
        /\ Completable(bk)
        /\ Len(ledger[session[p].driver]) + 2 <= MaxRows
        /\ Stage(p, [session[p] EXCEPT
                       !.phase = IF bk.payment_method # "cash" THEN "credit" ELSE "commission",
                       !.booking = b,
                       !.bk = bk,
                       !.newBk = [ClearCode(bk) EXCEPT !.fare = base + bk.wait_charge_amount,
                                                       !.status = "COMPLETED",
                                                       !.completed_at = TRUE],
                       !.newDrv.status = "online"])

\* _add_wallet_transaction appends to the session, not to the table.
AddWalletTransaction(s, type, amount) ==
    Append(s.txns, [type |-> type, amount |-> amount,
                    balance_after |-> WalletBalance(s.driver) + amount,
                    booking_id |-> s.booking])

AddRideCredit(p) ==
    LET s == session[p] IN
    /\ s.phase = "credit"
    /\ Stage(p, [s EXCEPT !.phase = "commission",
                          !.txns = AddWalletTransaction(s, "RIDE_CREDIT", s.newBk.fare)])

AddCommission(p) ==
    LET s == session[p]
        commission == Commission(s.newBk.fare)
    IN  /\ s.phase = "commission"
        /\ Stage(p, [s EXCEPT !.phase = "flush",
                              !.txns = IF commission > 0
                                       THEN AddWalletTransaction(s, "ORDER_DEDUCTION", -commission)
                                       ELSE s.txns])

\* cancel_ride: whatever the status; the driver is never offered it again.
CancelRide(p, b) ==
    /\ "cancel" \in Handlers
    /\ Mine(p, b)
    /\ Stage(p, [session[p] EXCEPT !.phase = "flush", !.booking = b, !.bk = bookings[b],
                                   !.newBk = [ClearCode(bookings[b]) EXCEPT !.status = "CANCELLED"],
                                   !.newDrv.status = "online",
                                   !.rejection = TRUE])

-----------------------------------------------------------------------------
(* Documents and the admin panel *)

StageProfile(p, d, newDrv) ==
    /\ Free(p)
    /\ Stage(p, [Idle EXCEPT !.phase = "flush", !.driver = d,
                             !.drv = drivers[d], !.newDrv = newDrv])

Submitted(drv) == [drv EXCEPT !.documents_verified = FALSE,
                              !.document_verification_status = "submitted"]

\* upload_driver_documents: open to unverified drivers; it awaits the three
\* uploads between the read and the commit.
UploadDocuments(p, d) ==
    /\ "upload" \in Handlers
    /\ StageProfile(p, d, Submitted(drivers[d]))

\* The development master licence, and the admin's approval.
ApproveDocuments(p, d) ==
    /\ "approve" \in Handlers
    /\ StageProfile(p, d, [drivers[d] EXCEPT !.documents_verified = TRUE,
                                             !.document_verification_status = "verified"])

RejectDocuments(p, d) ==
    /\ "reject_documents" \in Handlers
    /\ StageProfile(p, d, [drivers[d] EXCEPT !.documents_verified = FALSE,
                                             !.document_verification_status = "rejected",
                                             !.status = IF @ = "online" THEN "offline" ELSE @])

UpdateDriverStatus(p, d, newStatus) ==
    /\ "set_status" \in Handlers
    /\ newStatus = "online" => drivers[d].documents_verified
    /\ StageProfile(p, d, [drivers[d] EXCEPT !.status = newStatus])

-----------------------------------------------------------------------------
(* The passing of time, let pass only while the code compares it: the age   *)
(* of a request while it is PENDING, a code and the grace period while the   *)
(* booking is ACCEPTED.                                                      *)

TimeStep(b) ==
    /\ Exists(b)
    /\ UNCHANGED <<table, drivers, ledger, rejections, session>>

RequestGoesStale(b) ==
    /\ bookings[b].status = "PENDING" /\ bookings[b].created_at = "fresh"
    /\ bookings' = [bookings EXCEPT ![b].created_at = "stale"]
    /\ TimeStep(b)

CodeExpires(b) ==
    /\ bookings[b].status = "ACCEPTED" /\ bookings[b].ride_otp_expires_at = "live"
    /\ bookings' = [bookings EXCEPT ![b].ride_otp_expires_at = "expired"]
    /\ TimeStep(b)

GraceEnds(b) ==
    /\ bookings[b].status = "ACCEPTED" /\ bookings[b].arrived_at = "in_grace"
    /\ bookings' = [bookings EXCEPT ![b].arrived_at = "past_grace"]
    /\ TimeStep(b)

-----------------------------------------------------------------------------
PassengerStep(p) ==
    \/ ListMyBookings(p)
    \/ DeleteRow(p)
    \/ \E b \in Bookings :
          \/ \E method \in PaymentMethods : CreateBooking(p, b, method)
          \/ \E newStatus \in PatchStatuses : UpdateBookingStatus(p, b, newStatus)
          \/ DeleteBooking(p, b)

DriverStep(p) ==
    \/ \E d \in Drivers : GetDriver(p, d)
    \/ GoOnline(p)
    \/ GoOffline(p)
    \/ GetAvailableRides(p)
    \/ \E b \in Bookings :
          \/ AcceptRide(p, b)
          \/ RejectRide(p, b)
          \/ ArriveAtPickup(p, b)
          \/ StartRide(p, b)
          \/ VerifyWrongOtp(p, b)
          \/ VerifyRightOtp(p, b)
          \/ CancelRide(p, b)
          \/ \E finalFare \in FinalFares : CompleteRide(p, b, finalFare)
    \/ AddRideCredit(p)
    \/ AddCommission(p)

ProfileStep(p) ==
    \E d \in Drivers :
        \/ UploadDocuments(p, d)
        \/ ApproveDocuments(p, d)
        \/ RejectDocuments(p, d)
        \/ \E newStatus \in DriverStatus : UpdateDriverStatus(p, d, newStatus)

SessionStep(p) == Commit(p) \/ CommitFails(p) \/ EndRequest(p)

TimePasses ==
    \E b \in Bookings : RequestGoesStale(b) \/ CodeExpires(b) \/ GraceEnds(b)

Next ==
    \/ \E p \in Procs : PassengerStep(p) \/ DriverStep(p) \/ ProfileStep(p) \/ SessionStep(p)
    \/ TimePasses

Spec == Init /\ [][Next]_vars
=============================================================================
