---------------------------- MODULE Rides_proofs ----------------------------
(***************************************************************************)
(* Safety of the ride core for any number of bookings, drivers and racing  *)
(* requests.                                                               *)
(*                                                                         *)
(* A commit writes the columns a request changed over a row that others    *)
(* may have changed meanwhile, so what a request decided on is lost unless *)
(* something it read still stands.  Five columns only move one way         *)
(* (Reached): that is what makes the properties inductive.                 *)
(***************************************************************************)
EXTENDS RidesProperties, SequenceTheorems, TLAPS

\* The one-way columns: what holds of the earlier row holds of the later one.
Reached(earlier, later) ==
    /\ earlier.otp_released => later.otp_released
    /\ earlier.otp_verified => later.otp_verified
    /\ earlier.completed_at => later.completed_at
    /\ earlier.arrived_at # "null" => later.arrived_at # "null"
    /\ earlier.driver_id # None => later.driver_id # None

\* The passengers' PATCH only ends bookings.
OnlyEnds == PatchStatuses \subseteq TerminalStates

\* What VerifiedAfterRelease, WaitChargeJustified and RideUnderWay say of one row.
Coherent(bk) ==
    /\ bk.otp_verified => bk.otp_released
    /\ bk.wait_charge_amount # 0 => bk.arrived_at # "null" /\ bk.otp_verified
    /\ OnlyEnds => /\ bk.status \in {"ACCEPTED", "ONGOING"} => bk.driver_id # None
                   /\ bk.status = "ONGOING" => bk.otp_verified

\* The shape of a session in each phase.
Shape(s) ==
    /\ s.phase = "gated" => s.driver \in Drivers /\ s.txns = <<>> /\ ~s.rejection
    /\ s.phase = "delete" \/ s.after = "delete" => s.booking \in Bookings
    /\ s.rejection => s.driver \in Drivers /\ s.booking \in Bookings
    /\ s.phase \in {"credit", "commission"} \/ s.txns # <<>> =>
          /\ s.driver \in Drivers /\ s.booking \in Bookings
          /\ s.bk.status # "COMPLETED" /\ s.newBk.status = "COMPLETED"
          /\ s.newBk.completed_at
    /\ \A i \in 1 .. Len(s.txns) : s.txns[i].booking_id = s.booking

\* What a session read still stands in the database, given that nothing was lost.
Stands(s) ==
    s.booking \in Bookings =>
        /\ table[s.booking] # "unused"
        /\ Exists(s.booking) => Reached(s.bk, bookings[s.booking])

SessionOK(s) ==
    /\ Shape(s)
    /\ Coherent(s.newBk)
    /\ Reached(s.bk, s.newBk)
    /\ Stands(s)

\* The inductive invariant.
Inv ==
    /\ TypeOK
    /\ \A b \in Bookings : Coherent(bookings[b])
    /\ LedgerHasRide
    /\ \A p \in Procs : SessionOK(session[p])

-----------------------------------------------------------------------------
(* Flush *)

LEMMA FlushBooking ==
    ASSUME NEW row \in Booking, NEW seen \in Booking, NEW new \in Booking
    PROVE  /\ Flush(row, seen, new) \in Booking
           /\ \A c \in DOMAIN row : Flush(row, seen, new)[c] =
                 IF new[c] = seen[c] THEN row[c] ELSE new[c]
<1>1. /\ DOMAIN row = {"status", "driver_id", "payment_method", "fare", "created_at",
                    "ride_otp_expires_at", "ride_otp_attempts_remaining", "otp_released",
                    "otp_verified", "arrived_at", "wait_charge_amount", "completed_at"}
  BY DEF Booking
<1>2. Flush(row, seen, new) \in Booking
  BY <1>1 DEF Booking, Flush
<1> QED BY <1>2 DEF Flush

LEMMA FlushDriver ==
    ASSUME NEW row \in Driver, NEW seen \in Driver, NEW new \in Driver
    PROVE  Flush(row, seen, new) \in Driver
  BY DEF Driver, Flush

\* A commit loses none of the one-way columns and keeps the row coherent, if
\* what the session read still stands.
LEMMA FlushKeeps ==
    ASSUME NEW row \in Booking, NEW seen \in Booking, NEW new \in Booking,
           Reached(seen, row), Reached(seen, new), Coherent(row), Coherent(new)
    PROVE  /\ Reached(row, Flush(row, seen, new))
           /\ Coherent(Flush(row, seen, new))
           /\ new.completed_at => Flush(row, seen, new).completed_at
<1> DEFINE out == Flush(row, seen, new)
<1>1. /\ out.otp_released = IF new.otp_released = seen.otp_released
                             THEN row.otp_released ELSE new.otp_released
      /\ out.otp_verified = IF new.otp_verified = seen.otp_verified
                             THEN row.otp_verified ELSE new.otp_verified
      /\ out.completed_at = IF new.completed_at = seen.completed_at
                             THEN row.completed_at ELSE new.completed_at
      /\ out.arrived_at = IF new.arrived_at = seen.arrived_at
                           THEN row.arrived_at ELSE new.arrived_at
      /\ out.wait_charge_amount = IF new.wait_charge_amount = seen.wait_charge_amount
                                   THEN row.wait_charge_amount ELSE new.wait_charge_amount
      /\ out.driver_id = IF new.driver_id = seen.driver_id
                          THEN row.driver_id ELSE new.driver_id
      /\ out.status = IF new.status = seen.status THEN row.status ELSE new.status
  BY DEF Booking, Flush
<1>2. /\ row.otp_released \in BOOLEAN /\ seen.otp_released \in BOOLEAN /\ new.otp_released \in BOOLEAN
      /\ row.otp_verified \in BOOLEAN /\ seen.otp_verified \in BOOLEAN /\ new.otp_verified \in BOOLEAN
      /\ row.completed_at \in BOOLEAN /\ seen.completed_at \in BOOLEAN /\ new.completed_at \in BOOLEAN
  BY DEF Booking
<1>3. Reached(row, out)
  BY <1>1, <1>2 DEF Reached
<1>4. Coherent(out)
  <2> HIDE DEF out
  <2>1. /\ out.otp_verified => out.otp_released
        /\ out.wait_charge_amount # 0 => out.arrived_at # "null" /\ out.otp_verified
    BY <1>1, <1>2 DEF Reached, Coherent
  <2>2. ASSUME OnlyEnds, out.status \in {"ACCEPTED", "ONGOING"}
        PROVE  out.driver_id # None /\ (out.status = "ONGOING" => out.otp_verified)
    <3>1. CASE new.status = seen.status
      <4>1. row.driver_id # None /\ (out.status = "ONGOING" => row.otp_verified)
        BY <1>1, <2>2, <3>1 DEF Coherent
      <4> QED BY <1>3, <4>1 DEF Reached
    <3>2. CASE new.status # seen.status
      <4>1. new.driver_id # None /\ (out.status = "ONGOING" => new.otp_verified)
        BY <1>1, <2>2, <3>2 DEF Coherent
      <4> QED BY <1>1, <1>2, <4>1 DEF Reached
    <3> QED BY <3>1, <3>2
  <2> QED BY <2>1, <2>2 DEF Coherent
<1>5. new.completed_at => out.completed_at
  BY <1>1, <1>2 DEF Reached
<1> QED BY <1>3, <1>4, <1>5

LEMMA ReachedTransitive ==
    ASSUME NEW x, NEW y, NEW z, Reached(x, y), Reached(y, z)
    PROVE  Reached(x, z)
  BY DEF Reached

-----------------------------------------------------------------------------
(* Steps that only change a session *)

LEMMA StageKeeps ==
    ASSUME Inv, NEW p \in Procs, NEW s \in Session, SessionOK(s), Stage(p, s)
    PROVE  Inv'
<1>1. /\ UNCHANGED <<table, bookings, drivers, ledger, rejections>>
      /\ session' = [session EXCEPT ![p] = s]
  BY DEF Stage, db
<1>2. TypeOK'
  BY <1>1 DEF Inv, TypeOK
<1>3. (\A b \in Bookings : Coherent(bookings[b]))' /\ LedgerHasRide'
  BY <1>1 DEF Inv, LedgerHasRide, Exists
<1>4. ASSUME NEW q \in Procs PROVE SessionOK(session[q])'
  <2>1. SessionOK(session'[q])
    BY <1>1 DEF Inv, TypeOK
  <2> QED BY <1>1, <2>1 DEF SessionOK, Shape, Stands, Exists
<1> QED BY <1>2, <1>3, <1>4 DEF Inv

LEMMA IdleOK == Idle \in Session /\ SessionOK(Idle)
<1> USE RidesAssumption
<1>1. NoBooking \in Booking /\ NewDriver \in Driver
  BY DEF NoBooking, NewBooking, NewDriver, Booking, Driver, BookingStatus, DriverStatus,
         DocumentStatus
<1>2. Idle \in Session
  BY <1>1, EmptySeq DEF Idle, Session
<1>3. SessionOK(Idle)
  BY DEF Idle, SessionOK, Shape, Stands, Coherent, Reached, NoBooking, NewBooking
<1> QED BY <1>2, <1>3

\* A request that starts from an idle slot and reads driver d.
LEMMA StageProfileKeeps ==
    ASSUME Inv, NEW p \in Procs, NEW d \in Drivers, NEW new \in Driver,
           StageProfile(p, d, new)
    PROVE  Inv'
<1> DEFINE s == [Idle EXCEPT !.phase = "flush", !.driver = d, !.drv = drivers[d], !.newDrv = new]
<1>1. s \in Session
  BY IdleOK DEF Inv, TypeOK, Idle, Session
<1>2. SessionOK(s)
  BY IdleOK DEF SessionOK, Shape, Stands, Coherent, Reached, Idle
<1> QED BY <1>1, <1>2, StageKeeps DEF StageProfile

\* A gated request that stages a new value of booking b.
LEMMA StageRideKeeps ==
    ASSUME Inv, NEW p \in Procs, NEW b \in Bookings, NEW new \in Booking,
           NEW newStatus \in DriverStatus,
           Gated(p), Exists(b), Coherent(new), Reached(bookings[b], new),
           StageRide(p, b, new, newStatus)
    PROVE  Inv'
<1> DEFINE s == [session[p] EXCEPT !.phase = "flush", !.booking = b, !.bk = bookings[b],
                                   !.newBk = new, !.newDrv.status = newStatus]
<1>1. session[p] \in Session /\ bookings[b] \in Booking
  BY DEF Inv, TypeOK
<1>2. s \in Session
  BY <1>1 DEF Session, Driver
<1>3. /\ s.phase = "flush" /\ s.booking = b /\ s.bk = bookings[b] /\ s.newBk = new
      /\ s.txns = <<>> /\ ~s.rejection
  BY <1>1 DEF Session, Gated, Inv, SessionOK, Shape
<1>4. SessionOK(s)
  <2> HIDE DEF s
  <2>1. \A i \in 1 .. Len(s.txns) : s.txns[i].booking_id = s.booking
    BY <1>3
  <2>2. Shape(s)
    BY <1>3, <2>1 DEF Shape
  <2>3. Stands(s)
    BY <1>3 DEF Stands, Exists, Reached
  <2> QED BY <1>3, <2>2, <2>3 DEF SessionOK
<1> QED BY <1>2, <1>4, StageKeeps DEF StageRide

-----------------------------------------------------------------------------
(* Handlers, one lemma each *)

LEMMA GetDriverKeeps ==
    ASSUME Inv, NEW p \in Procs, NEW d \in Drivers, GetDriver(p, d) PROVE Inv'
<1> DEFINE s == [Idle EXCEPT !.phase = "gated", !.driver = d,
                             !.drv = drivers[d], !.newDrv = drivers[d]]
<1>1. s \in Session
  BY IdleOK DEF Inv, TypeOK, Idle, Session
<1>2. SessionOK(s)
  BY IdleOK DEF SessionOK, Shape, Stands, Coherent, Reached, Idle
<1> QED BY <1>1, <1>2, StageKeeps DEF GetDriver

LEMMA StageDriverKeeps ==
    ASSUME Inv, NEW p \in Procs, NEW newStatus \in DriverStatus,
           Gated(p), StageDriver(p, newStatus)
    PROVE  Inv'
<1> DEFINE s == [session[p] EXCEPT !.phase = "flush", !.newDrv.status = newStatus]
<1>1. session[p] \in Session /\ SessionOK(session[p])
  BY DEF Inv, TypeOK
<1>2. s \in Session
  BY <1>1 DEF Session, Driver
<1>3. SessionOK(s)
  BY <1>1 DEF SessionOK, Shape, Stands, Gated, Session
<1> QED BY <1>2, <1>3, StageKeeps DEF StageDriver

LEMMA AcceptRideKeeps ==
    ASSUME Inv, NEW p \in Procs, NEW b \in Bookings, AcceptRide(p, b) PROVE Inv'
<1> DEFINE new == [bookings[b] EXCEPT !.driver_id = session[p].driver, !.status = "ACCEPTED"]
<1>1. session[p].driver \in Drivers /\ session[p].driver # None
  BY RidesAssumption DEF AcceptRide, Gated, Inv, SessionOK, Shape
<1>2. bookings[b] \in Booking /\ Coherent(bookings[b])
  BY DEF Inv, TypeOK
<1>3. new \in Booking
  BY <1>1, <1>2 DEF Booking, BookingStatus
<1>4. Coherent(new) /\ Reached(bookings[b], new)
  BY <1>1, <1>2 DEF Coherent, Reached, Booking
<1> QED BY <1>3, <1>4, StageRideKeeps DEF AcceptRide, Acceptable, DriverStatus

LEMMA RejectRideKeeps ==
    ASSUME Inv, NEW p \in Procs, NEW b \in Bookings, RejectRide(p, b) PROVE Inv'
<1> DEFINE s == [session[p] EXCEPT !.phase = "flush", !.booking = b, !.bk = bookings[b],
                                   !.newBk = bookings[b], !.rejection = TRUE]
<1>1. session[p] \in Session /\ SessionOK(session[p]) /\ bookings[b] \in Booking
      /\ Coherent(bookings[b])
  BY DEF Inv, TypeOK
<1>2. s \in Session
  BY <1>1 DEF Session
<1>3. SessionOK(s)
  BY <1>1 DEF SessionOK, Shape, Stands, Reached, RejectRide, Gated, Exists, Session
<1> QED BY <1>2, <1>3, StageKeeps DEF RejectRide

LEMMA ArriveAtPickupKeeps ==
    ASSUME Inv, NEW p \in Procs, NEW b \in Bookings, ArriveAtPickup(p, b) PROVE Inv'
<1> DEFINE new == [bookings[b] EXCEPT !.arrived_at = "in_grace"]
<1>1. bookings[b] \in Booking /\ Coherent(bookings[b]) /\ session[p] \in Session
  BY DEF Inv, TypeOK
<1>2. new \in Booking
  BY <1>1 DEF Booking
<1>3. Coherent(new) /\ Reached(bookings[b], new)
  BY <1>1 DEF Coherent, Reached, Booking
<1>4. session[p].drv.status \in DriverStatus
  BY <1>1 DEF Session, Driver
<1> QED BY <1>2, <1>3, <1>4, StageRideKeeps DEF ArriveAtPickup, Mine

LEMMA StartRideKeeps ==
    ASSUME Inv, NEW p \in Procs, NEW b \in Bookings, StartRide(p, b) PROVE Inv'
<1> DEFINE bk == bookings[b]
           valid == bk.otp_released /\ bk.ride_otp_expires_at = "live"
           budget == IF valid /\ bk.ride_otp_attempts_remaining # None
                     THEN bk.ride_otp_attempts_remaining ELSE MaxAttempts
           new == [bk EXCEPT !.ride_otp_expires_at = "live",
                             !.ride_otp_attempts_remaining = budget,
                             !.otp_released = TRUE]
<1>1. bk \in Booking /\ Coherent(bk) /\ session[p] \in Session
  BY DEF Inv, TypeOK
<1>2. budget \in (0 .. MaxAttempts) \cup {None}
  BY <1>1, RidesAssumption DEF Booking
<1>3. new \in Booking
  <2> HIDE DEF budget
  <2> QED BY <1>1, <1>2 DEF Booking
<1>4. Coherent(new) /\ Reached(bk, new)
  <2> HIDE DEF budget
  <2> QED BY <1>1 DEF Coherent, Reached, Booking
<1>5. session[p].drv.status \in DriverStatus
  BY <1>1 DEF Session, Driver
<1> QED BY <1>3, <1>4, <1>5, StageRideKeeps DEF StartRide, ReleaseCode, Mine

LEMMA VerifyWrongOtpKeeps ==
    ASSUME Inv, NEW p \in Procs, NEW b \in Bookings, VerifyWrongOtp(p, b) PROVE Inv'
<1> DEFINE bk == bookings[b]
           left == bk.ride_otp_attempts_remaining - 1
           spent == [bk EXCEPT !.ride_otp_attempts_remaining = left]
           new == IF left <= 0 THEN [spent EXCEPT !.ride_otp_expires_at = "null"] ELSE spent
<1>1. bk \in Booking /\ Coherent(bk) /\ session[p] \in Session
  BY DEF Inv, TypeOK
<1>2. bk.ride_otp_attempts_remaining \in 1 .. MaxAttempts
  BY <1>1, RidesAssumption DEF VerifyWrongOtp, MayVerify, Booking
<1>3. left \in 0 .. MaxAttempts
  BY <1>2, RidesAssumption
<1>4. new \in Booking
  <2> HIDE DEF left
  <2> QED BY <1>1, <1>3 DEF Booking
<1>5. Coherent(new) /\ Reached(bk, new)
  <2> HIDE DEF left
  <2> QED BY <1>1 DEF Coherent, Reached, Booking
<1>6. session[p].drv.status \in DriverStatus
  BY <1>1 DEF Session, Driver
<1> QED BY <1>4, <1>5, <1>6, StageRideKeeps DEF VerifyWrongOtp, SpendAttempt, MayVerify, Mine

\* ClearCode touches neither the one-way columns nor the waiting charge.
LEMMA ClearCodeKeeps ==
    ASSUME NEW bk \in Booking
    PROVE  /\ ClearCode(bk) \in Booking
           /\ Reached(bk, ClearCode(bk))
           /\ Coherent(bk) => Coherent(ClearCode(bk))
  BY DEF ClearCode, Booking, Reached, Coherent

LEMMA VerifyRightOtpKeeps ==
    ASSUME Inv, NEW p \in Procs, NEW b \in Bookings, VerifyRightOtp(p, b) PROVE Inv'
<1> DEFINE bk == bookings[b]
           new == [ClearCode(bk) EXCEPT !.otp_verified = TRUE, !.status = "ONGOING",
                                        !.wait_charge_amount = WaitChargeOf(bk)]
<1>1. bk \in Booking /\ Coherent(bk) /\ session[p] \in Session
  BY DEF Inv, TypeOK
<1>2. WaitChargeOf(bk) \in Int
  BY <1>1, RidesAssumption DEF WaitChargeOf, Booking
<1>3. WaitChargeOf(bk) # 0 => bk.arrived_at # "null"
  BY <1>1 DEF WaitChargeOf, Booking, Coherent
<1>4. bk.otp_released /\ bk.status = "ACCEPTED"
  BY DEF VerifyRightOtp, MayVerify
<1>5. new \in Booking
  BY <1>1, <1>2 DEF ClearCode, Booking, BookingStatus
<1>6. Coherent(new) /\ Reached(bk, new)
  BY <1>1, <1>3, <1>4 DEF ClearCode, Coherent, Reached, Booking
<1>7. session[p].drv.status \in DriverStatus
  BY <1>1 DEF Session, Driver
<1> QED BY <1>5, <1>6, <1>7, StageRideKeeps DEF VerifyRightOtp, Boarded, MayVerify, Mine

LEMMA CompleteRideKeeps ==
    ASSUME Inv, NEW p \in Procs, NEW b \in Bookings, NEW finalFare \in FinalFares,
           CompleteRide(p, b, finalFare)
    PROVE  Inv'
<1> DEFINE bk == bookings[b]
           base == IF finalFare # None THEN finalFare ELSE bk.fare
           total == base + bk.wait_charge_amount
           new == [ClearCode(bk) EXCEPT !.fare = total,
                                        !.status = "COMPLETED", !.completed_at = TRUE]
           s == [session[p] EXCEPT
                   !.phase = IF bk.payment_method # "cash" THEN "credit" ELSE "commission",
                   !.booking = b, !.bk = bk, !.newBk = new, !.newDrv.status = "online"]
<1>1. /\ bk \in Booking /\ Coherent(bk)
      /\ session[p] \in Session /\ SessionOK(session[p])
  BY DEF Inv, TypeOK
<1>2. total \in Int
  <2>1. base \in Int /\ bk.wait_charge_amount \in Int
    BY <1>1, RidesAssumption DEF Booking
  <2> HIDE DEF base
  <2> QED BY <2>1
<1>3. new \in Booking
  <2> HIDE DEF total
  <2> QED BY <1>1, <1>2 DEF ClearCode, Booking, BookingStatus
<1>4. Coherent(new) /\ Reached(bk, new)
  <2> HIDE DEF total
  <2> QED BY <1>1 DEF ClearCode, Coherent, Reached, Booking
<1>5. new.status = "COMPLETED" /\ new.completed_at /\ bk.status # "COMPLETED"
  <2>1. bk.status # "COMPLETED"
    BY DEF CompleteRide, Completable, TerminalStates
  <2> HIDE DEF total
  <2> QED BY <1>1, <2>1 DEF ClearCode, Booking
<1> HIDE DEF new
<1>6. s \in Session
  BY <1>1, <1>3 DEF Session, Driver, DriverStatus
<1>7. /\ session[p].driver \in Drivers /\ session[p].txns = <<>> /\ ~session[p].rejection
      /\ table[b] = "row"
  BY <1>1 DEF CompleteRide, Mine, Gated, Exists, SessionOK, Shape
<1>8. /\ s.phase \in {"credit", "commission"} /\ s.booking = b /\ s.bk = bk /\ s.newBk = new
      /\ s.txns = <<>> /\ ~s.rejection /\ s.driver \in Drivers
  BY <1>1, <1>7 DEF Session
<1>9. SessionOK(s)
  <2> HIDE DEF s
  <2>1. \A i \in 1 .. Len(s.txns) : s.txns[i].booking_id = s.booking
    BY <1>8
  <2>2. Shape(s)
    BY <1>5, <1>8, <2>1 DEF Shape
  <2>3. Stands(s)
    BY <1>7, <1>8 DEF Stands, Reached
  <2> QED BY <1>4, <1>8, <2>2, <2>3 DEF SessionOK
<1>10. Stage(p, s)
  BY DEF CompleteRide, new
<1> QED BY <1>6, <1>9, <1>10, StageKeeps

\* Appending one ledger row to a session keeps it well formed.
LEMMA AddWalletTransactionKeeps ==
    ASSUME Inv, NEW s \in Session, SessionOK(s), s.phase \in {"credit", "commission"},
           NEW type \in {"RIDE_CREDIT", "ORDER_DEDUCTION"}, NEW amount \in Int
    PROVE  /\ AddWalletTransaction(s, type, amount) \in Seq(Txn)
           /\ \A i \in 1 .. Len(AddWalletTransaction(s, type, amount)) :
                 AddWalletTransaction(s, type, amount)[i].booking_id = s.booking
<1> DEFINE row == [type |-> type, amount |-> amount,
                   balance_after |-> WalletBalance(s.driver) + amount,
                   booking_id |-> s.booking]
<1>1. s.driver \in Drivers /\ s.booking \in Bookings /\ s.txns \in Seq(Txn)
  BY DEF SessionOK, Shape, Session
<1>2. ledger[s.driver] \in Seq(Txn)
  BY <1>1 DEF Inv, TypeOK
<1>3. WalletBalance(s.driver) \in Int
  <2>1. CASE ledger[s.driver] = <<>>
    BY <2>1 DEF WalletBalance
  <2>2. CASE ledger[s.driver] # <<>>
    <3>1. Len(ledger[s.driver]) \in 1 .. Len(ledger[s.driver])
      BY <1>2, <2>2, EmptySeq
    <3>2. ledger[s.driver][Len(ledger[s.driver])] \in Txn
      BY <1>2, <3>1, ElementOfSeq
    <3> QED BY <2>2, <3>2 DEF WalletBalance, Txn
  <2> QED BY <2>1, <2>2
<1>4. row \in Txn /\ row.booking_id = s.booking
  <2> DEFINE balance == WalletBalance(s.driver) + amount
  <2>1. balance \in Int
    BY <1>3
  <2> HIDE DEF balance
  <2>2. [type |-> type, amount |-> amount, balance_after |-> balance,
         booking_id |-> s.booking] \in Txn
    BY <1>1, <2>1 DEF Txn
  <2> QED BY <2>2 DEF balance
<1>5. AddWalletTransaction(s, type, amount) = Append(s.txns, row)
  BY DEF AddWalletTransaction
<1> HIDE DEF row
<1>6. /\ Append(s.txns, row) \in Seq(Txn)
      /\ Len(Append(s.txns, row)) = Len(s.txns) + 1
      /\ \A i \in 1 .. Len(s.txns) : Append(s.txns, row)[i] = s.txns[i]
      /\ Append(s.txns, row)[Len(s.txns) + 1] = row
  BY <1>1, <1>4, AppendProperties
<1>7. \A i \in 1 .. Len(s.txns) : s.txns[i].booking_id = s.booking
  BY DEF SessionOK, Shape
<1>8. Len(s.txns) \in Nat
  BY <1>1, LenProperties
<1> QED BY <1>4, <1>5, <1>6, <1>7, <1>8

LEMMA CommissionIsInt == \A total \in Int : Commission(total) \in Int
  BY DEF Commission

\* The next phase of complete_ride, with the rows added so far.
LEMMA WalletStepKeeps ==
    ASSUME Inv, NEW p \in Procs, session[p].phase \in {"credit", "commission"},
           NEW next \in {"commission", "flush"}, NEW rows \in Seq(Txn),
           \A i \in 1 .. Len(rows) : rows[i].booking_id = session[p].booking,
           Stage(p, [session[p] EXCEPT !.phase = next, !.txns = rows])
    PROVE  Inv'
<1> DEFINE s == [session[p] EXCEPT !.phase = next, !.txns = rows]
<1>1. session[p] \in Session /\ SessionOK(session[p])
  BY DEF Inv, TypeOK
<1>2. s \in Session
  BY <1>1 DEF Session
<1>3. /\ s.phase = next /\ s.txns = rows /\ s.driver = session[p].driver
      /\ s.booking = session[p].booking /\ s.bk = session[p].bk
      /\ s.newBk = session[p].newBk /\ s.rejection = session[p].rejection
      /\ s.after = session[p].after
  BY <1>1 DEF Session
<1>4. SessionOK(s)
  <2> HIDE DEF s
  <2>1. Shape(s)
    BY <1>1, <1>3 DEF SessionOK, Shape
  <2> QED BY <1>1, <1>3, <2>1 DEF SessionOK, Stands
<1> QED BY <1>2, <1>4, StageKeeps

LEMMA AddRideCreditKeeps ==
    ASSUME Inv, NEW p \in Procs, AddRideCredit(p) PROVE Inv'
<1> DEFINE s == session[p]
           rows == AddWalletTransaction(s, "RIDE_CREDIT", s.newBk.fare)
<1>1. s \in Session /\ SessionOK(s) /\ s.phase = "credit"
  BY DEF Inv, TypeOK, AddRideCredit
<1>2. s.newBk.fare \in Int
  BY <1>1 DEF Session, Booking
<1>3. /\ rows \in Seq(Txn)
      /\ \A i \in 1 .. Len(rows) : rows[i].booking_id = s.booking
  BY <1>1, <1>2, AddWalletTransactionKeeps
<1>4. Stage(p, [s EXCEPT !.phase = "commission", !.txns = rows])
  BY DEF AddRideCredit
<1> HIDE DEF rows
<1> QED BY <1>1, <1>3, <1>4, WalletStepKeeps

LEMMA AddCommissionKeeps ==
    ASSUME Inv, NEW p \in Procs, AddCommission(p) PROVE Inv'
<1> DEFINE s == session[p]
           commission == Commission(s.newBk.fare)
           added == AddWalletTransaction(s, "ORDER_DEDUCTION", -commission)
           rows == IF commission > 0 THEN added ELSE s.txns
<1>1. s \in Session /\ SessionOK(s) /\ s.phase = "commission"
  BY DEF Inv, TypeOK, AddCommission
<1>2. commission \in Int
  BY <1>1, CommissionIsInt DEF Session, Booking
<1>3. -commission \in Int
  <2> HIDE DEF commission
  <2> QED BY <1>2
<1>4. /\ added \in Seq(Txn)
      /\ \A i \in 1 .. Len(added) : added[i].booking_id = s.booking
  BY <1>1, <1>3, AddWalletTransactionKeeps
<1>5. /\ s.txns \in Seq(Txn)
      /\ \A i \in 1 .. Len(s.txns) : s.txns[i].booking_id = s.booking
  BY <1>1 DEF Session, SessionOK, Shape
<1>6. /\ rows \in Seq(Txn)
      /\ \A i \in 1 .. Len(rows) : rows[i].booking_id = s.booking
  <2> HIDE DEF commission, added
  <2> QED BY <1>4, <1>5
<1>7. Stage(p, [s EXCEPT !.phase = "flush", !.txns = rows])
  BY DEF AddCommission
<1> HIDE DEF rows
<1> QED BY <1>1, <1>6, <1>7, WalletStepKeeps

LEMMA CancelRideKeeps ==
    ASSUME Inv, NEW p \in Procs, NEW b \in Bookings, CancelRide(p, b) PROVE Inv'
<1> DEFINE bk == bookings[b]
           new == [ClearCode(bk) EXCEPT !.status = "CANCELLED"]
           s == [session[p] EXCEPT !.phase = "flush", !.booking = b, !.bk = bk,
                                   !.newBk = new, !.newDrv.status = "online",
                                   !.rejection = TRUE]
<1>1. /\ bk \in Booking /\ Coherent(bk)
      /\ session[p] \in Session /\ SessionOK(session[p])
  BY DEF Inv, TypeOK
<1>2. new \in Booking /\ Coherent(new) /\ Reached(bk, new)
  BY <1>1 DEF ClearCode, Booking, BookingStatus, Coherent, Reached
<1> HIDE DEF new
<1>3. s \in Session
  BY <1>1, <1>2 DEF Session, Driver, DriverStatus
<1>4. session[p].driver \in Drivers /\ session[p].txns = <<>> /\ table[b] = "row"
  BY <1>1 DEF CancelRide, Mine, Gated, Exists, SessionOK, Shape
<1>5. /\ s.phase = "flush" /\ s.booking = b /\ s.bk = bk /\ s.newBk = new
      /\ s.txns = <<>> /\ s.driver \in Drivers
  BY <1>1, <1>4 DEF Session
<1>6. SessionOK(s)
  <2> HIDE DEF s
  <2>1. \A i \in 1 .. Len(s.txns) : s.txns[i].booking_id = s.booking
    BY <1>5
  <2>2. Shape(s)
    BY <1>5, <2>1 DEF Shape
  <2>3. Stands(s)
    BY <1>4, <1>5 DEF Stands, Reached
  <2> QED BY <1>2, <1>5, <2>2, <2>3 DEF SessionOK
<1>7. Stage(p, s)
  BY DEF CancelRide, new
<1> QED BY <1>3, <1>6, <1>7, StageKeeps

\* The driver read with a booking, if it has one.
LEMMA BookingDriverType ==
    ASSUME Inv, NEW bk \in Booking
    PROVE  BookingDriver(bk) \in Driver
<1>1. NewDriver \in Driver
  BY DEF NewDriver, Driver, DriverStatus, DocumentStatus
<1> QED BY <1>1 DEF BookingDriver, Inv, TypeOK, Booking

LEMMA UpdateBookingStatusKeeps ==
    ASSUME Inv, NEW p \in Procs, NEW b \in Bookings, NEW newStatus \in PatchStatuses,
           UpdateBookingStatus(p, b, newStatus)
    PROVE  Inv'
<1> DEFINE bk == bookings[b]
           drv == BookingDriver(bk)
           ends == newStatus \in TerminalStates
           freed == IF ends /\ bk.driver_id # None THEN "online" ELSE drv.status
           set == [bk EXCEPT !.status = newStatus]
           new == IF ends THEN ClearCode(set) ELSE set
           newDrv == [drv EXCEPT !.status = freed]
           s == [Idle EXCEPT !.phase = "flush", !.booking = b, !.driver = bk.driver_id,
                             !.drv = drv, !.newDrv = newDrv, !.bk = bk, !.newBk = new]
<1>1. /\ bk \in Booking /\ Coherent(bk) /\ table[b] = "row"
      /\ bk.driver_id \in Drivers \cup {None}
  BY DEF Inv, TypeOK, UpdateBookingStatus, Exists, Booking
<1>2. drv \in Driver
  BY <1>1, BookingDriverType
<1>3. newDrv \in Driver
  <2> HIDE DEF drv
  <2> QED BY <1>2 DEF Driver, DriverStatus
<1>4. new \in Booking /\ Coherent(new) /\ Reached(bk, new)
  <2>1. set \in Booking /\ Coherent(set) /\ Reached(bk, set)
    BY <1>1, RidesAssumption DEF Booking, Coherent, Reached, OnlyEnds, TerminalStates
  <2> HIDE DEF set, ends
  <2> QED BY <2>1, ClearCodeKeeps, ReachedTransitive
<1> HIDE DEF new, newDrv, drv
<1>5. s \in Session
  BY <1>1, <1>2, <1>3, <1>4, IdleOK DEF Idle, Session
<1>6. /\ s.phase = "flush" /\ s.booking = b /\ s.bk = bk /\ s.newBk = new
      /\ s.txns = <<>> /\ ~s.rejection
  BY DEF Idle
<1>7. SessionOK(s)
  <2> HIDE DEF s
  <2>1. \A i \in 1 .. Len(s.txns) : s.txns[i].booking_id = s.booking
    BY <1>6
  <2>2. Shape(s)
    BY <1>6, <2>1 DEF Shape
  <2>3. Stands(s)
    BY <1>1, <1>6 DEF Stands, Reached
  <2> QED BY <1>4, <1>6, <2>2, <2>3 DEF SessionOK
<1>8. Stage(p, s)
  BY DEF UpdateBookingStatus, FreedStatus, new, newDrv, drv
<1> QED BY <1>5, <1>7, <1>8, StageKeeps

LEMMA DeleteBookingKeeps ==
    ASSUME Inv, NEW p \in Procs, NEW b \in Bookings, DeleteBooking(p, b) PROVE Inv'
<1> DEFINE bk == bookings[b]
           drv == BookingDriver(bk)
           newDrv == [drv EXCEPT !.status = "online"]
           freeing == [Idle EXCEPT !.phase = "flush", !.booking = b, !.driver = bk.driver_id,
                                   !.drv = drv, !.newDrv = newDrv, !.after = "delete"]
           deleting == [Idle EXCEPT !.phase = "delete", !.booking = b]
<1>1. bk \in Booking /\ table[b] = "row" /\ bk.driver_id \in Drivers \cup {None}
  BY DEF Inv, TypeOK, DeleteBooking, Exists, Booking
<1>2. drv \in Driver
  BY <1>1, BookingDriverType
<1> HIDE DEF drv
<1>3. newDrv \in Driver
  BY <1>2 DEF Driver, DriverStatus
<1> HIDE DEF newDrv
<1>4. freeing \in Session /\ deleting \in Session
  BY <1>1, <1>2, <1>3, IdleOK DEF Idle, Session
<1>5. SessionOK(freeing) /\ SessionOK(deleting)
  BY <1>1 DEF SessionOK, Shape, Stands, Coherent, Reached, Idle, NoBooking, NewBooking
<1>6. Stage(p, freeing) \/ Stage(p, deleting)
  BY DEF DeleteBooking, drv, newDrv
<1> QED BY <1>4, <1>5, <1>6, StageKeeps

\* Endpoints that replace a driver's status or documents.
LEMMA ProfileKeeps ==
    ASSUME Inv, NEW p \in Procs, NEW d \in Drivers, NEW newStatus \in DriverStatus,
           \/ UploadDocuments(p, d) \/ ApproveDocuments(p, d)
           \/ RejectDocuments(p, d) \/ UpdateDriverStatus(p, d, newStatus)
    PROVE  Inv'
<1>1. drivers[d] \in Driver
  BY DEF Inv, TypeOK
<1>2. CASE UploadDocuments(p, d)
  <2> DEFINE new == [drivers[d] EXCEPT !.documents_verified = FALSE,
                                       !.document_verification_status = "submitted"]
  <2>1. new \in Driver
    BY <1>1 DEF Driver, DocumentStatus
  <2> QED BY <1>2, <2>1, StageProfileKeeps DEF UploadDocuments, Submitted
<1>3. CASE ApproveDocuments(p, d)
  <2> DEFINE new == [drivers[d] EXCEPT !.documents_verified = TRUE,
                                       !.document_verification_status = "verified"]
  <2>1. new \in Driver
    BY <1>1 DEF Driver, DocumentStatus
  <2> QED BY <1>3, <2>1, StageProfileKeeps DEF ApproveDocuments
<1>4. CASE RejectDocuments(p, d)
  <2> DEFINE new == [drivers[d] EXCEPT !.documents_verified = FALSE,
                                       !.document_verification_status = "rejected",
                                       !.status = IF @ = "online" THEN "offline" ELSE @]
  <2>1. new \in Driver
    BY <1>1 DEF Driver, DocumentStatus, DriverStatus
  <2> QED BY <1>4, <2>1, StageProfileKeeps DEF RejectDocuments
<1>5. CASE UpdateDriverStatus(p, d, newStatus)
  <2> DEFINE new == [drivers[d] EXCEPT !.status = newStatus]
  <2>1. new \in Driver
    BY <1>1 DEF Driver
  <2> QED BY <1>5, <2>1, StageProfileKeeps DEF UpdateDriverStatus
<1> QED BY <1>2, <1>3, <1>4, <1>5

-----------------------------------------------------------------------------
(* Steps that change the database *)

\* The booking rows after a step: typed, coherent, and where a row was there
\* and still is, nothing of the one-way columns is lost.
RowsAdvance ==
    /\ bookings' \in [Bookings -> Booking]
    /\ \A b \in Bookings : Coherent(bookings'[b])
    /\ \A b \in Bookings : table[b] # "unused" =>
          /\ table'[b] # "unused"
          /\ table'[b] = "row" => table[b] = "row" /\ Reached(bookings[b], bookings'[b])

LEMMA SessionsSurvive ==
    ASSUME Inv, RowsAdvance, NEW q \in Procs, session'[q] = session[q]
    PROVE  SessionOK(session[q])'
<1>1. SessionOK(session[q]) /\ session[q] \in Session
  BY DEF Inv, TypeOK
<1>2. Stands(session[q])'
  <2>1. SUFFICES ASSUME session[q].booking \in Bookings
                 PROVE  /\ table'[session[q].booking] # "unused"
                        /\ table'[session[q].booking] = "row" =>
                              Reached(session[q].bk, bookings'[session[q].booking])
    BY DEF Stands, Exists
  <2> DEFINE b == session[q].booking
  <2>2. /\ table[b] # "unused"
        /\ table[b] = "row" => Reached(session[q].bk, bookings[b])
    BY <1>1, <2>1 DEF SessionOK, Stands, Exists
  <2>3. /\ table'[b] # "unused"
        /\ table'[b] = "row" => table[b] = "row" /\ Reached(bookings[b], bookings'[b])
    BY <2>1, <2>2 DEF RowsAdvance
  <2> QED BY <2>2, <2>3, ReachedTransitive
<1> QED BY <1>1, <1>2 DEF SessionOK, Shape

\* A step of the rows alone: listing, polling and the passing of time.
LEMMA RowsStep ==
    ASSUME Inv, RowsAdvance, UNCHANGED <<table, drivers, ledger, rejections>>,
           session' \in [Procs -> Session],
           \A q \in Procs : session'[q] = session[q] \/ session'[q] = Idle
    PROVE  Inv'
<1>1. TypeOK'
  BY DEF Inv, TypeOK, RowsAdvance
<1>2. LedgerHasRide'
  <2> SUFFICES ASSUME NEW d \in Drivers, NEW i \in DOMAIN ledger[d],
                      ledger[d][i].booking_id # None
               PROVE  /\ table[ledger[d][i].booking_id] = "row"
                      /\ bookings'[ledger[d][i].booking_id].completed_at
    BY DEF LedgerHasRide, Exists
  <2> DEFINE b == ledger[d][i].booking_id
  <2>1. table[b] = "row" /\ bookings[b].completed_at
    BY DEF Inv, LedgerHasRide, Exists
  <2>2. b \in Bookings
    <3>1. ledger[d] \in Seq(Txn)
      BY DEF Inv, TypeOK
    <3>2. ledger[d][i] \in Txn
      BY <3>1, LenProperties, ElementOfSeq
    <3> QED BY <3>2 DEF Txn
  <2>3. Reached(bookings[b], bookings'[b])
    BY <2>1, <2>2 DEF RowsAdvance
  <2> QED BY <2>1, <2>3 DEF Reached
<1>3. ASSUME NEW q \in Procs PROVE SessionOK(session[q])'
  <2>1. CASE session'[q] = session[q]
    BY <2>1, SessionsSurvive
  <2>2. CASE session'[q] = Idle
    BY <2>2, RidesAssumption DEF SessionOK, Shape, Stands, Coherent, Reached, Idle, NoBooking, NewBooking
  <2> QED BY <2>1, <2>2
<1> QED BY <1>1, <1>2, <1>3 DEF Inv, RowsAdvance

LEMMA ExpiryAdvances ==
    ASSUME Inv, ExpireStalePendingBookings, UNCHANGED table
    PROVE  RowsAdvance
<1>1. ASSUME NEW b \in Bookings
      PROVE  /\ bookings'[b] \in Booking /\ Coherent(bookings'[b])
             /\ Reached(bookings[b], bookings'[b])
  <2>1. bookings[b] \in Booking /\ Coherent(bookings[b])
    BY DEF Inv, TypeOK
  <2> DEFINE new == [bookings[b] EXCEPT !.status = "CANCELLED"]
  <2>2. new \in Booking /\ Coherent(new) /\ Reached(bookings[b], new)
    BY <2>1 DEF Booking, BookingStatus, Coherent, Reached
  <2>3. bookings'[b] = new \/ bookings'[b] = bookings[b]
    BY DEF ExpireStalePendingBookings
  <2>4. Reached(bookings[b], bookings[b])
    BY DEF Reached
  <2> HIDE DEF new
  <2> QED BY <2>1, <2>2, <2>3, <2>4
<1>2. bookings' \in [Bookings -> Booking]
  BY <1>1 DEF ExpireStalePendingBookings
<1> QED BY <1>1, <1>2 DEF RowsAdvance

LEMMA ListMyBookingsKeeps ==
    ASSUME Inv, NEW p \in Procs, ListMyBookings(p) PROVE Inv'
<1>1. RowsAdvance
  BY ExpiryAdvances DEF ListMyBookings
<1>2. session' \in [Procs -> Session] /\ \A q \in Procs : session'[q] = session[q]
  BY DEF ListMyBookings, Inv, TypeOK
<1> QED BY <1>1, <1>2, RowsStep DEF ListMyBookings

LEMMA GetAvailableRidesKeeps ==
    ASSUME Inv, NEW p \in Procs, GetAvailableRides(p) PROVE Inv'
<1>1. RowsAdvance
  BY ExpiryAdvances DEF GetAvailableRides
<1>2. /\ session' \in [Procs -> Session]
      /\ \A q \in Procs : session'[q] = session[q] \/ session'[q] = Idle
  BY IdleOK DEF GetAvailableRides, Inv, TypeOK
<1> QED BY <1>1, <1>2, RowsStep DEF GetAvailableRides

LEMMA TimePassesKeeps ==
    ASSUME Inv, TimePasses PROVE Inv'
<1>1. PICK b \in Bookings : RequestGoesStale(b) \/ CodeExpires(b) \/ GraceEnds(b)
  BY DEF TimePasses
<1>2. bookings[b] \in Booking /\ Coherent(bookings[b])
  BY DEF Inv, TypeOK
<1>3. PICK new \in Booking : /\ bookings' = [bookings EXCEPT ![b] = new]
                             /\ Coherent(new) /\ Reached(bookings[b], new)
  <2>1. CASE RequestGoesStale(b)
    <3> DEFINE new == [bookings[b] EXCEPT !.created_at = "stale"]
    <3>1. new \in Booking /\ Coherent(new) /\ Reached(bookings[b], new)
      BY <1>2 DEF Booking, Coherent, Reached
    <3> QED BY <2>1, <3>1 DEF RequestGoesStale
  <2>2. CASE CodeExpires(b)
    <3> DEFINE new == [bookings[b] EXCEPT !.ride_otp_expires_at = "expired"]
    <3>1. new \in Booking /\ Coherent(new) /\ Reached(bookings[b], new)
      BY <1>2 DEF Booking, Coherent, Reached
    <3> QED BY <2>2, <3>1 DEF CodeExpires
  <2>3. CASE GraceEnds(b)
    <3> DEFINE new == [bookings[b] EXCEPT !.arrived_at = "past_grace"]
    <3>1. new \in Booking /\ Coherent(new) /\ Reached(bookings[b], new)
      BY <1>2 DEF Booking, Coherent, Reached
    <3> QED BY <2>3, <3>1 DEF GraceEnds
  <2> QED BY <1>1, <2>1, <2>2, <2>3
<1>4. UNCHANGED <<table, drivers, ledger, rejections, session>>
  BY <1>1 DEF RequestGoesStale, CodeExpires, GraceEnds, TimeStep
<1>5. bookings' \in [Bookings -> Booking]
  BY <1>3 DEF Inv, TypeOK
<1>6. \A c \in Bookings : Coherent(bookings'[c]) /\ Reached(bookings[c], bookings'[c])
  BY <1>3 DEF Inv, TypeOK, Reached
<1>7. RowsAdvance
  BY <1>4, <1>5, <1>6 DEF RowsAdvance
<1>8. session' \in [Procs -> Session] /\ \A q \in Procs : session'[q] = session[q]
  BY <1>4 DEF Inv, TypeOK
<1> QED BY <1>4, <1>7, <1>8, RowsStep

\* The ledger names only rows that are there and completed, and of Bookings.
LEMMA LedgerEntry ==
    ASSUME Inv, NEW d \in Drivers, NEW i \in DOMAIN ledger[d], ledger[d][i].booking_id # None
    PROVE  /\ ledger[d][i].booking_id \in Bookings
           /\ table[ledger[d][i].booking_id] = "row"
           /\ bookings[ledger[d][i].booking_id].completed_at
<1>1. ledger[d] \in Seq(Txn)
  BY DEF Inv, TypeOK
<1>2. ledger[d][i] \in Txn
  BY <1>1, LenProperties, ElementOfSeq
<1> QED BY <1>2 DEF Txn, Inv, LedgerHasRide, Exists

LEMMA CreateBookingKeeps ==
    ASSUME Inv, NEW p \in Procs, NEW b \in Bookings, NEW method \in PaymentMethods,
           CreateBooking(p, b, method)
    PROVE  Inv'
<1>1. NewBooking(method) \in Booking /\ Coherent(NewBooking(method))
  BY RidesAssumption DEF NewBooking, Booking, BookingStatus, Coherent
<1>2. /\ table[b] = "unused"
      /\ table' = [table EXCEPT ![b] = "row"]
      /\ bookings' = [bookings EXCEPT ![b] = NewBooking(method)]
      /\ UNCHANGED <<drivers, ledger, rejections, session>>
  BY DEF CreateBooking
<1>3. TypeOK'
  BY <1>1, <1>2 DEF Inv, TypeOK
<1>4. RowsAdvance
  BY <1>1, <1>2 DEF RowsAdvance, Inv, TypeOK, Reached
<1>5. LedgerHasRide'
  <2> SUFFICES ASSUME NEW d \in Drivers, NEW i \in DOMAIN ledger[d],
                      ledger[d][i].booking_id # None
               PROVE  /\ table'[ledger[d][i].booking_id] = "row"
                      /\ bookings'[ledger[d][i].booking_id].completed_at
    BY <1>2 DEF LedgerHasRide, Exists
  <2>1. /\ ledger[d][i].booking_id \in Bookings
        /\ table[ledger[d][i].booking_id] = "row"
        /\ bookings[ledger[d][i].booking_id].completed_at
    BY LedgerEntry
  <2>2. ledger[d][i].booking_id # b
    BY <1>2, <2>1
  <2> QED BY <1>2, <2>1, <2>2 DEF Inv, TypeOK
<1>6. ASSUME NEW q \in Procs PROVE SessionOK(session[q])'
  BY <1>2, <1>4, SessionsSurvive
<1> QED BY <1>3, <1>4, <1>5, <1>6 DEF Inv, RowsAdvance

\* Detaching a deleted booking leaves every ledger row in place and in type.
LEMMA DetachRowsType ==
    ASSUME NEW rows \in Seq(Txn), NEW b \in Bookings
    PROVE  /\ DetachRows(rows, b) \in Seq(Txn)
           /\ DOMAIN DetachRows(rows, b) = DOMAIN rows
           /\ \A i \in DOMAIN rows :
                 DetachRows(rows, b)[i].booking_id =
                    IF rows[i].booking_id = b THEN None ELSE rows[i].booking_id
<1>1. DOMAIN rows = 1 .. Len(rows) /\ Len(rows) \in Nat
  BY LenProperties
<1>2. ASSUME NEW i \in DOMAIN rows
      PROVE  /\ DetachRows(rows, b)[i] \in Txn
             /\ DetachRows(rows, b)[i].booking_id =
                    IF rows[i].booking_id = b THEN None ELSE rows[i].booking_id
  <2>1. rows[i] \in Txn
    BY <1>1, ElementOfSeq
  <2>2. DetachRows(rows, b)[i] = IF rows[i].booking_id = b
                                THEN [rows[i] EXCEPT !.booking_id = None] ELSE rows[i]
    BY DEF DetachRows
  <2> QED BY <2>1, <2>2 DEF Txn
<1>3. DetachRows(rows, b) \in [1 .. Len(rows) -> Txn]
  BY <1>1, <1>2 DEF DetachRows
<1>4. DetachRows(rows, b) \in Seq(Txn)
  BY <1>1, <1>3
<1> QED BY <1>1, <1>2, <1>4 DEF DetachRows

LEMMA DeleteRowKeeps ==
    ASSUME Inv, NEW p \in Procs, DeleteRow(p) PROVE Inv'
<1> DEFINE b == session[p].booking
<1>1. b \in Bookings /\ table[b] = "row"
  BY DEF DeleteRow, Inv, SessionOK, Shape, Exists
<1>2. /\ table' = [table EXCEPT ![b] = "deleted"]
      /\ bookings' = [bookings EXCEPT ![b] = NoBooking]
      /\ ledger' = [d \in Drivers |-> DetachRows(ledger[d], b)]
      /\ rejections' = {r \in rejections : r[2] # b}
      /\ session' = [session EXCEPT ![p] = Idle]
      /\ UNCHANGED drivers
  BY DEF DeleteRow
<1>3. NoBooking \in Booking /\ Coherent(NoBooking)
  BY RidesAssumption DEF NoBooking, NewBooking, Booking, BookingStatus, Coherent
<1>4. ASSUME NEW d \in Drivers
      PROVE  /\ ledger'[d] \in Seq(Txn) /\ DOMAIN ledger'[d] = DOMAIN ledger[d]
             /\ \A i \in DOMAIN ledger[d] : ledger'[d][i].booking_id =
                   IF ledger[d][i].booking_id = b THEN None ELSE ledger[d][i].booking_id
  <2>1. ledger[d] \in Seq(Txn)
    BY DEF Inv, TypeOK
  <2> QED BY <1>1, <1>2, <2>1, DetachRowsType
<1>5. TypeOK'
  <2>1. ledger' \in [Drivers -> Seq(Txn)]
    BY <1>2, <1>4
  <2> QED BY <1>2, <1>3, <2>1, IdleOK DEF Inv, TypeOK
<1>6. RowsAdvance
  BY <1>1, <1>2, <1>3 DEF RowsAdvance, Inv, TypeOK, Reached
<1>7. LedgerHasRide'
  <2> SUFFICES ASSUME NEW d \in Drivers, NEW i \in DOMAIN ledger'[d],
                      ledger'[d][i].booking_id # None
               PROVE  /\ table'[ledger'[d][i].booking_id] = "row"
                      /\ bookings'[ledger'[d][i].booking_id].completed_at
    BY DEF LedgerHasRide, Exists
  <2>1. i \in DOMAIN ledger[d]
    BY <1>4
  <2>2. /\ ledger[d][i].booking_id # b
        /\ ledger'[d][i].booking_id = ledger[d][i].booking_id
    BY <1>4, <2>1
  <2>3. /\ ledger[d][i].booking_id \in Bookings
        /\ table[ledger[d][i].booking_id] = "row"
        /\ bookings[ledger[d][i].booking_id].completed_at
    BY <2>1, <2>2, LedgerEntry
  <2> QED BY <1>2, <2>2, <2>3 DEF Inv, TypeOK
<1>8. ASSUME NEW q \in Procs PROVE SessionOK(session[q])'
  <2>1. CASE q = p
    <3>1. session'[q] = Idle
      BY <1>2, <2>1 DEF Inv, TypeOK
    <3> QED BY <3>1, RidesAssumption
            DEF SessionOK, Shape, Stands, Coherent, Reached, Idle, NoBooking, NewBooking
  <2>2. CASE q # p
    BY <1>2, <1>6, <2>2, SessionsSurvive DEF Inv, TypeOK
  <2> QED BY <2>1, <2>2
<1> QED BY <1>5, <1>6, <1>7, <1>8 DEF Inv, RowsAdvance

\* A commit that changes nothing of a row leaves it as it is.
LEMMA FlushSame ==
    ASSUME NEW row \in Booking, NEW seen
    PROVE  Flush(row, seen, seen) = row
  BY DEF Flush, Booking

\* An element of a concatenated ledger comes from one of its parts.
LEMMA ConcatRows ==
    ASSUME NEW l \in Seq(Txn), NEW t \in Seq(Txn)
    PROVE  /\ l \o t \in Seq(Txn)
           /\ \A i \in DOMAIN (l \o t) :
                 \/ i \in DOMAIN l /\ (l \o t)[i] = l[i]
                 \/ \E j \in 1 .. Len(t) : (l \o t)[i] = t[j]
<1>1. /\ l \o t \in Seq(Txn)
      /\ Len(l \o t) = Len(l) + Len(t)
      /\ \A i \in 1 .. Len(l) + Len(t) : (l \o t)[i] =
            IF i <= Len(l) THEN l[i] ELSE t[i - Len(l)]
  BY ConcatProperties
<1>2. /\ DOMAIN (l \o t) = 1 .. Len(l \o t) /\ DOMAIN l = 1 .. Len(l)
      /\ Len(l) \in Nat /\ Len(t) \in Nat
  BY <1>1, LenProperties
<1>3. ASSUME NEW i \in DOMAIN (l \o t)
      PROVE  \/ i \in DOMAIN l /\ (l \o t)[i] = l[i]
             \/ \E j \in 1 .. Len(t) : (l \o t)[i] = t[j]
  <2>1. CASE i <= Len(l)
    BY <1>1, <1>2, <2>1
  <2>2. CASE i > Len(l)
    <3>1. i - Len(l) \in 1 .. Len(t) /\ (l \o t)[i] = t[i - Len(l)]
      BY <1>1, <1>2, <2>2
    <3> QED BY <3>1
  <2> QED BY <1>1, <1>2, <2>1, <2>2
<1> QED BY <1>1, <1>3

\* What a slot may hold after a commit: nothing, or the second half of a
\* deletion.
LEMMA IdleAfter == SessionOK(Idle)'
  BY RidesAssumption
     DEF SessionOK, Shape, Stands, Coherent, Reached, Idle, NoBooking, NewBooking

LEMMA DeleteAfter ==
    ASSUME NEW c \in Bookings, table'[c] # "unused", NEW a \in Session,
           a.phase = "delete", a.booking = c, a.txns = <<>>, ~a.rejection,
           a.bk = NoBooking, a.newBk = NoBooking
    PROVE  SessionOK(a)'
<1>1. Shape(a)
  BY DEF Shape
<1>2. Coherent(a.newBk) /\ Reached(a.bk, a.newBk)
  BY DEF Coherent, Reached, NoBooking, NewBooking
<1>3. Stands(a)'
  BY DEF Stands, Reached, NoBooking, NewBooking
<1> QED BY <1>1, <1>2, <1>3 DEF SessionOK, Shape

LEMMA CommitKeeps ==
    ASSUME Inv, NEW p \in Procs, Commit(p) PROVE Inv'
<1> DEFINE s == session[p]
<1>1. s \in Session /\ SessionOK(s)
  BY DEF Inv, TypeOK
<1>2. /\ ~RowGone(s)
      /\ bookings' = [b \in Bookings |->
                        IF b = s.booking THEN Flush(bookings[b], s.bk, s.newBk)
                                         ELSE bookings[b]]
      /\ drivers' = [d \in Drivers |->
                       IF d = s.driver THEN Flush(drivers[d], s.drv, s.newDrv)
                                       ELSE drivers[d]]
      /\ ledger' = [d \in Drivers |->
                      IF d = s.driver THEN ledger[d] \o s.txns ELSE ledger[d]]
      /\ rejections' = IF s.rejection THEN rejections \cup {<<s.driver, s.booking>>}
                                      ELSE rejections
      /\ UNCHANGED table
  BY DEF Commit
<1> HIDE DEF s
<1>3. /\ s.bk \in Booking /\ s.newBk \in Booking /\ s.drv \in Driver /\ s.newDrv \in Driver
      /\ s.txns \in Seq(Txn) /\ s.booking \in Bookings \cup {None}
      /\ s.driver \in Drivers \cup {None}
  BY <1>1 DEF Session
<1>4. ASSUME NEW b \in Bookings
      PROVE  /\ bookings'[b] \in Booking /\ Coherent(bookings'[b])
             /\ table[b] = "row" => /\ Reached(bookings[b], bookings'[b])
                                    /\ b = s.booking /\ s.newBk.completed_at =>
                                          bookings'[b].completed_at
  <2>1. bookings[b] \in Booking /\ Coherent(bookings[b]) /\ Reached(bookings[b], bookings[b])
    BY DEF Inv, TypeOK, Reached
  <2>2. CASE b # s.booking
    BY <1>2, <2>1, <2>2
  <2>3. CASE b = s.booking /\ table[b] = "row"
    <3>1. bookings'[b] = Flush(bookings[b], s.bk, s.newBk)
      BY <1>2, <2>3
    <3>2. Reached(s.bk, bookings[b]) /\ Reached(s.bk, s.newBk) /\ Coherent(s.newBk)
      BY <1>1, <2>3 DEF SessionOK, Stands, Exists
    <3>3. Flush(bookings[b], s.bk, s.newBk) \in Booking
      BY <1>3, <2>1, FlushBooking
    <3>4. /\ Reached(bookings[b], Flush(bookings[b], s.bk, s.newBk))
          /\ Coherent(Flush(bookings[b], s.bk, s.newBk))
          /\ s.newBk.completed_at => Flush(bookings[b], s.bk, s.newBk).completed_at
      BY <1>3, <2>1, <3>2, FlushKeeps
    <3> QED BY <3>1, <3>3, <3>4
  <2>4. CASE b = s.booking /\ table[b] # "row"
    <3>1. s.newBk = s.bk
      BY <1>2, <2>4, RidesAssumption DEF RowGone, Exists
    <3>2. bookings'[b] = bookings[b]
      BY <1>2, <2>1, <2>4, <3>1, FlushSame
    <3> QED BY <2>1, <2>4, <3>2
  <2> QED BY <2>2, <2>3, <2>4
<1>5. RowsAdvance
  BY <1>2, <1>4 DEF RowsAdvance
<1>6. s.txns # <<>> => /\ s.booking \in Bookings /\ table[s.booking] = "row"
                       /\ s.newBk.completed_at
  <2>1. s.txns # <<>> => /\ s.booking \in Bookings /\ s.newBk.completed_at
                         /\ s.newBk # s.bk
    BY <1>1 DEF SessionOK, Shape
  <2> QED BY <1>2, <2>1, RidesAssumption DEF RowGone, Exists
<1>7. ASSUME NEW d \in Drivers
      PROVE  /\ ledger'[d] \in Seq(Txn)
             /\ \A i \in DOMAIN ledger'[d] :
                   LET b == ledger'[d][i].booking_id IN
                   b # None => /\ b \in Bookings /\ table[b] = "row"
                               /\ bookings'[b].completed_at
  <2>1. ledger[d] \in Seq(Txn)
    BY DEF Inv, TypeOK
  <2>2. \A i \in DOMAIN ledger[d] :
           LET b == ledger[d][i].booking_id IN
           b # None => /\ b \in Bookings /\ table[b] = "row" /\ bookings'[b].completed_at
    BY <1>4, LedgerEntry DEF Reached
  <2>3. CASE d # s.driver
    BY <1>2, <2>1, <2>2, <2>3
  <2>4. CASE d = s.driver
    <3>1. ledger'[d] = ledger[d] \o s.txns
      BY <1>2, <2>4
    <3>2. /\ ledger[d] \o s.txns \in Seq(Txn)
          /\ \A i \in DOMAIN (ledger[d] \o s.txns) :
                \/ i \in DOMAIN ledger[d] /\ (ledger[d] \o s.txns)[i] = ledger[d][i]
                \/ \E j \in 1 .. Len(s.txns) : (ledger[d] \o s.txns)[i] = s.txns[j]
      BY <1>3, <2>1, ConcatRows
    <3>3. ASSUME NEW j \in 1 .. Len(s.txns)
          PROVE  /\ s.txns[j].booking_id \in Bookings
                 /\ table[s.txns[j].booking_id] = "row"
                 /\ bookings'[s.txns[j].booking_id].completed_at
      <4>1. s.txns[j].booking_id = s.booking /\ s.txns # <<>>
        BY <1>1 DEF SessionOK, Shape
      <4> QED BY <1>4, <1>6, <4>1
    <3>4. ASSUME NEW i \in DOMAIN ledger'[d], ledger'[d][i].booking_id # None
          PROVE  /\ ledger'[d][i].booking_id \in Bookings
                 /\ table[ledger'[d][i].booking_id] = "row"
                 /\ bookings'[ledger'[d][i].booking_id].completed_at
      <4>1. CASE i \in DOMAIN ledger[d] /\ ledger'[d][i] = ledger[d][i]
        BY <2>2, <3>4, <4>1
      <4>2. CASE \E j \in 1 .. Len(s.txns) : ledger'[d][i] = s.txns[j]
        BY <3>3, <4>2
      <4> QED BY <3>1, <3>2, <4>1, <4>2
    <3> QED BY <3>1, <3>2, <3>4
  <2> QED BY <2>3, <2>4
<1>8. LedgerHasRide'
  BY <1>2, <1>7 DEF LedgerHasRide, Exists
<1>9. PICK a \in Session : session' = [session EXCEPT ![p] = a] /\ SessionOK(a)'
  <2>1. CASE s.after # "delete"
    BY <2>1, IdleOK, IdleAfter DEF Commit, s
  <2>2. CASE s.after = "delete"
    <3> DEFINE rest == [Idle EXCEPT !.phase = "delete", !.booking = s.booking]
    <3>1. s.booking \in Bookings /\ table'[s.booking] # "unused"
      BY <1>1, <1>2, <2>2 DEF SessionOK, Shape, Stands
    <3>2. rest \in Session
      BY <3>1, IdleOK DEF Idle, Session
    <3>3. /\ rest.phase = "delete" /\ rest.booking = s.booking /\ rest.txns = <<>>
          /\ ~rest.rejection /\ rest.bk = NoBooking /\ rest.newBk = NoBooking
      BY DEF Idle
    <3>4. session' = [session EXCEPT ![p] = rest]
      BY <2>2 DEF Commit, s
    <3> HIDE DEF rest
    <3>5. PICK c \in Bookings, a \in Session : c = s.booking /\ a = rest
      BY <3>1, <3>2
    <3>6. SessionOK(a)'
      BY <3>1, <3>3, <3>5, DeleteAfter
    <3> QED BY <3>4, <3>5, <3>6
  <2> QED BY <2>1, <2>2
<1>10. TypeOK'
  <2>1. bookings' \in [Bookings -> Booking]
    BY <1>2, <1>4
  <2>2. drivers' \in [Drivers -> Driver]
    BY <1>2, <1>3, FlushDriver DEF Inv, TypeOK
  <2>3. ledger' \in [Drivers -> Seq(Txn)]
    BY <1>2, <1>7
  <2>4. rejections' \in SUBSET (Drivers \X Bookings)
    BY <1>1, <1>2 DEF Inv, TypeOK, SessionOK, Shape
  <2>5. session' \in [Procs -> Session]
    BY <1>9 DEF Inv, TypeOK
  <2> QED BY <1>2, <2>1, <2>2, <2>3, <2>4, <2>5 DEF Inv, TypeOK
<1>11. ASSUME NEW q \in Procs PROVE SessionOK(session[q])'
  <2>1. CASE q = p
    <3>1. session'[q] = a
      BY <1>9, <2>1 DEF Inv, TypeOK
    <3> QED BY <1>9, <3>1
  <2>2. CASE q # p
    <3>1. session'[q] = session[q]
      BY <1>9, <2>2 DEF Inv, TypeOK
    <3> QED BY <1>5, <3>1, SessionsSurvive
  <2> QED BY <2>1, <2>2
<1> QED BY <1>5, <1>8, <1>10, <1>11 DEF Inv, RowsAdvance

-----------------------------------------------------------------------------
(* The theorems *)

LEMMA InitInv == Init => Inv
<1> SUFFICES ASSUME Init PROVE Inv
  OBVIOUS
<1>1. NoBooking \in Booking /\ Coherent(NoBooking)
  BY RidesAssumption DEF NoBooking, NewBooking, Booking, BookingStatus, Coherent
<1>2. NewDriver \in Driver /\ ApprovedDriver \in Driver
  BY DEF NewDriver, ApprovedDriver, Driver, DriverStatus, DocumentStatus
<1>3. TypeOK
  BY <1>1, <1>2, IdleOK, EmptySeq DEF Init, TypeOK
<1>4. LedgerHasRide
  <2>1. \A d \in Drivers : DOMAIN ledger[d] = {}
    BY DEF Init
  <2> QED BY <2>1 DEF LedgerHasRide
<1> QED BY <1>1, <1>3, <1>4, IdleOK DEF Init, Inv

LEMMA NextInv == Inv /\ [Next]_vars => Inv'
<1> SUFFICES ASSUME Inv, [Next]_vars PROVE Inv'
  OBVIOUS
<1>1. CASE UNCHANGED vars
  BY <1>1 DEF vars, Inv, TypeOK, LedgerHasRide, SessionOK, Shape, Stands, Exists
<1>2. CASE TimePasses
  BY <1>2, TimePassesKeeps
<1>3. ASSUME NEW p \in Procs, PassengerStep(p) PROVE Inv'
  <2>1. CASE ListMyBookings(p)
    BY <2>1, ListMyBookingsKeeps
  <2>2. CASE DeleteRow(p)
    BY <2>2, DeleteRowKeeps
  <2>3. ASSUME NEW b \in Bookings, NEW method \in PaymentMethods, CreateBooking(p, b, method)
        PROVE  Inv'
    BY <2>3, CreateBookingKeeps
  <2>4. ASSUME NEW b \in Bookings, NEW newStatus \in PatchStatuses,
               UpdateBookingStatus(p, b, newStatus)
        PROVE  Inv'
    BY <2>4, UpdateBookingStatusKeeps
  <2>5. ASSUME NEW b \in Bookings, DeleteBooking(p, b) PROVE Inv'
    BY <2>5, DeleteBookingKeeps
  <2> QED BY <1>3, <2>1, <2>2, <2>3, <2>4, <2>5 DEF PassengerStep
<1>4. ASSUME NEW p \in Procs, DriverStep(p) PROVE Inv'
  <2>1. ASSUME NEW d \in Drivers, GetDriver(p, d) PROVE Inv'
    BY <2>1, GetDriverKeeps
  <2>2. CASE GoOnline(p)
    BY <2>2, StageDriverKeeps DEF GoOnline, DriverStatus
  <2>3. CASE GoOffline(p)
    BY <2>3, StageDriverKeeps DEF GoOffline, DriverStatus
  <2>4. CASE GetAvailableRides(p)
    BY <2>4, GetAvailableRidesKeeps
  <2>5. ASSUME NEW b \in Bookings,
               \/ AcceptRide(p, b) \/ RejectRide(p, b) \/ ArriveAtPickup(p, b)
               \/ StartRide(p, b) \/ VerifyWrongOtp(p, b) \/ VerifyRightOtp(p, b)
               \/ CancelRide(p, b)
        PROVE  Inv'
    BY <2>5, AcceptRideKeeps, RejectRideKeeps, ArriveAtPickupKeeps, StartRideKeeps,
       VerifyWrongOtpKeeps, VerifyRightOtpKeeps, CancelRideKeeps
  <2>6. ASSUME NEW b \in Bookings, NEW finalFare \in FinalFares, CompleteRide(p, b, finalFare)
        PROVE  Inv'
    BY <2>6, CompleteRideKeeps
  <2>7. CASE AddRideCredit(p)
    BY <2>7, AddRideCreditKeeps
  <2>8. CASE AddCommission(p)
    BY <2>8, AddCommissionKeeps
  <2> QED BY <1>4, <2>1, <2>2, <2>3, <2>4, <2>5, <2>6, <2>7, <2>8 DEF DriverStep
<1>5. ASSUME NEW p \in Procs, ProfileStep(p) PROVE Inv'
  <2>1. PICK d \in Drivers : \/ UploadDocuments(p, d) \/ ApproveDocuments(p, d)
                             \/ RejectDocuments(p, d)
                             \/ \E newStatus \in DriverStatus :
                                    UpdateDriverStatus(p, d, newStatus)
    BY <1>5 DEF ProfileStep
  <2>2. "offline" \in DriverStatus
    BY DEF DriverStatus
  <2> QED BY <2>1, <2>2, ProfileKeeps
<1>6. ASSUME NEW p \in Procs, SessionStep(p) PROVE Inv'
  <2>1. CASE Commit(p)
    BY <2>1, CommitKeeps
  <2>2. CASE CommitFails(p) \/ EndRequest(p)
    BY <2>2, IdleOK, StageKeeps DEF CommitFails, EndRequest
  <2> QED BY <1>6, <2>1, <2>2 DEF SessionStep
<1> QED BY <1>1, <1>2, <1>3, <1>4, <1>5, <1>6 DEF Next

LEMMA Invariance == Spec => []Inv
  BY InitInv, NextInv, PTL DEF Spec

\* Type correctness: whatever requests race, every column, ledger row and
\* session keeps its type, and an attempt budget stays within 0 .. MaxAttempts.
THEOREM TypeCorrect == Spec => []TypeOK
<1>1. Inv => TypeOK
  BY DEF Inv
<1> QED BY <1>1, Invariance, PTL

\* The code was released before a ride is marked verified (start_ride and
\* verify_ride_otp), for any number of overlapping requests.
THEOREM ReleasedBeforeVerified == Spec => []VerifiedAfterRelease
<1>1. Inv => VerifiedAfterRelease
  BY DEF Inv, Coherent, VerifiedAfterRelease
<1> QED BY <1>1, Invariance, PTL

\* No passenger pays for waiting without an arrival and a verified start
\* (arrive_at_pickup and verify_ride_otp), for any number of requests.
THEOREM WaitingIsJustified == Spec => []WaitChargeJustified
<1>1. Inv => WaitChargeJustified
  BY DEF Inv, Coherent, WaitChargeJustified
<1> QED BY <1>1, Invariance, PTL

\* The ledger never names a booking that is not there or that no driver
\* completed (complete_ride and delete_booking), for any number of requests.
THEOREM LedgerIsGrounded == Spec => []LedgerHasRide
<1>1. Inv => LedgerHasRide
  BY DEF Inv
<1> QED BY <1>1, Invariance, PTL

\* Where passengers only end bookings, a ride under way has a driver and an ONGOING
\* one was boarded with its code, whatever accepts, verifications, cancellations
\* and deletions overlap (accept_ride, verify_ride_otp, update_booking_status).
THEOREM RidesHaveDrivers ==
    ASSUME PatchStatuses \subseteq TerminalStates
    PROVE  Spec => []RideUnderWay
<1>1. Inv => RideUnderWay
  BY DEF Inv, Coherent, OnlyEnds, RideUnderWay
<1> QED BY <1>1, Invariance, PTL
=============================================================================
