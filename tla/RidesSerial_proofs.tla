-------------------------- MODULE RidesSerial_proofs --------------------------
(***************************************************************************)
(* What the handlers of the ride core achieve when no two requests         *)
(* overlap and passengers only end bookings, for any number of bookings    *)
(* and drivers: codes, budgets, documents and drivers stay in step, the    *)
(* core implements the lifecycle of a booking, every completed ride is     *)
(* settled once and in full, and nobody who is not approved goes online    *)
(* through the gate.                                                       *)
(*                                                                         *)
(* With one request at a time only time passes between what a request      *)
(* reads and its commit (Aged), so a commit makes of the row what the      *)
(* handler made of the one it read.                                        *)
(***************************************************************************)
EXTENDS Rides_proofs

\* One request slot, and passengers that only end bookings.
OneByOne ==
    /\ \A p, q \in Procs : p = q
    /\ PatchStatuses \subseteq TerminalStates

UnderWay == {"ACCEPTED", "ONGOING"}

\* What time makes of a row, as far as anybody looks.
Aged(bk, row) ==
    /\ row.status = bk.status
    /\ row.driver_id = bk.driver_id
    /\ row.ride_otp_attempts_remaining = bk.ride_otp_attempts_remaining
    /\ row.otp_released = bk.otp_released
    /\ row.completed_at = bk.completed_at
    /\ \/ row.ride_otp_expires_at = bk.ride_otp_expires_at
       \/ row.ride_otp_expires_at = "expired" /\ bk.ride_otp_expires_at = "live"

\* The columns of a row agree.
RowOK(bk) ==
    /\ bk.status \notin UnderWay => /\ bk.ride_otp_expires_at = "null"
                                    /\ bk.ride_otp_attempts_remaining = None
    /\ bk.status = "PENDING" <=> bk.driver_id = None /\ bk.status \notin TerminalStates
    /\ bk.completed_at => bk.status \in TerminalStates
    /\ bk.ride_otp_expires_at = "live" => /\ bk.otp_released
                                          /\ bk.ride_otp_attempts_remaining \notin {None, 0}

Agree(drv) == drv.documents_verified <=> drv.document_verification_status = "verified"

\* What a request of driver d may make of a row.
Change(bk, new, d) ==
    /\ RowOK(new)
    /\ \/ new.status = bk.status /\ new.driver_id = bk.driver_id
       \/ bk.status = "PENDING" /\ new.status = "ACCEPTED" /\ new.driver_id = d /\ d \in Drivers
       \/ bk.status = "ACCEPTED" /\ new.status = "ONGOING" /\ new.driver_id = bk.driver_id
       \/ new.status \in TerminalStates /\ new.driver_id = bk.driver_id
    /\ LET before == bk.ride_otp_attempts_remaining
           after == new.ride_otp_attempts_remaining
       IN  before # None /\ after # None /\ after > before => bk.ride_otp_expires_at # "live"

\* A request keeps its driver in step with its booking.
InStep(s) ==
    /\ s.newBk # s.bk /\ s.bk.status \in UnderWay /\ s.newBk.status \in TerminalStates =>
          s.driver = s.bk.driver_id /\ s.newDrv.status # "on_trip"
    /\ s.driver \in Drivers /\ s.newDrv.status = "on_trip" =>
          \/ s.drv.status = "on_trip"
          \/ "set_status" \in Handlers
          \/ s.newBk # s.bk /\ s.newBk.status = "ACCEPTED" /\ s.newBk.driver_id = s.driver

\* What a request read is what is there, but for the time that has passed.
Current(s) ==
    /\ s.phase = "idle" => s = Idle
    /\ s.phase \in {"idle", "gated", "delete"} => s.newBk = s.bk /\ s.newDrv = s.drv
    /\ s.phase \in {"idle", "gated"} => s.after = "idle"
    /\ s.driver \in Drivers => s.drv = drivers[s.driver]
    /\ Agree(s.newDrv)
    /\ s.newBk # s.bk =>
          /\ s.booking \in Bookings /\ Exists(s.booking)
          /\ Aged(s.bk, bookings[s.booking])
          /\ Change(s.bk, s.newBk, s.driver)
    /\ s.phase \in {"credit", "commission"} \/ s.txns # <<>> =>
          s.bk.status \in UnderWay /\ s.newBk.status = "COMPLETED"
    /\ InStep(s)
    /\ s.after = "delete" =>
          /\ s.newBk = s.bk
          /\ bookings[s.booking].driver_id = s.driver
          /\ s.newDrv.status # "on_trip"
    /\ s.phase = "delete" =>
          \A d \in Drivers : bookings[s.booking].driver_id = d => drivers[d].status # "on_trip"

\* The inductive invariant, besides Inv.
SerialInv ==
    /\ \A b \in Bookings : RowOK(bookings[b]) /\ (Exists(b) \/ bookings[b] = NoBooking)
    /\ \A d \in Drivers : Agree(drivers[d])
    /\ "set_status" \in Handlers \/ OnTripHasRide
    /\ \A p \in Procs : Current(session[p])

-----------------------------------------------------------------------------
(* Sessions *)

LEMMA NoneIsNothing == None \notin Drivers /\ None \notin Bookings /\ None \notin Int
  BY RidesAssumption

\* A slot at rest reads nothing, in any state.
LEMMA IdleCurrent == Current(Idle) /\ Current(Idle)'
<1>1. /\ Idle.phase = "idle" /\ Idle.driver = None /\ Idle.after = "idle" /\ Idle.txns = <<>>
      /\ Idle.newBk = Idle.bk /\ Idle.newDrv = Idle.drv /\ Idle.newDrv = NewDriver
  BY DEF Idle
<1>2. Agree(NewDriver)
  BY DEF Agree, NewDriver
<1> QED BY <1>1, <1>2, NoneIsNothing DEF Current, InStep

\* A step of the only slot that leaves the database alone.
LEMMA StageSerial ==
    ASSUME OneByOne, Inv, SerialInv, NEW p \in Procs, NEW s \in Session, Current(s), Stage(p, s)
    PROVE  SerialInv'
<1>1. /\ UNCHANGED <<table, bookings, drivers, ledger, rejections>>
      /\ session' = [session EXCEPT ![p] = s]
  BY DEF Stage, db
<1>2. Current(s)'
  BY <1>1 DEF Current, Exists
<1>3. ASSUME NEW q \in Procs PROVE Current(session[q])'
  <2>1. session'[q] = s
    BY <1>1 DEF OneByOne, Inv, TypeOK
  <2> QED BY <1>2, <2>1
<1> QED BY <1>1, <1>3 DEF SerialInv, Exists, OnTripHasRide

\* What a gated request has read.
LEMMA GatedSession ==
    ASSUME Inv, SerialInv, NEW p \in Procs, Gated(p)
    PROVE  /\ session[p] \in Session
           /\ session[p].driver \in Drivers
           /\ session[p].drv = drivers[session[p].driver]
           /\ session[p].drv \in Driver
           /\ session[p].newDrv = session[p].drv
           /\ session[p].newBk = session[p].bk
           /\ session[p].txns = <<>> /\ ~session[p].rejection
           /\ session[p].after = "idle"
           /\ Agree(session[p].drv)
<1>1. session[p] \in Session /\ Current(session[p]) /\ Shape(session[p])
  BY DEF Inv, TypeOK, SerialInv, SessionOK
<1> QED BY <1>1 DEF Gated, Current, Shape, Session

\* The row of a booking that is there.
LEMMA TheRow ==
    ASSUME Inv, SerialInv, NEW b \in Bookings
    PROVE  bookings[b] \in Booking /\ RowOK(bookings[b])
  BY DEF Inv, TypeOK, SerialInv

\* No time has passed yet.
LEMMA AgedSame == ASSUME NEW bk PROVE Aged(bk, bk)
  BY DEF Aged

\* A driver endpoint that stages a new row that is not the end of the ride.
LEMMA StageRideSerial ==
    ASSUME OneByOne, Inv, SerialInv, NEW p \in Procs, NEW b \in Bookings, NEW new \in Booking,
           NEW newStatus \in DriverStatus, Gated(p), Exists(b),
           Change(bookings[b], new, session[p].driver), new.status \notin TerminalStates,
           newStatus = "on_trip" =>
              \/ session[p].drv.status = "on_trip"
              \/ new # bookings[b] /\ new.status = "ACCEPTED" /\ new.driver_id = session[p].driver,
           StageRide(p, b, new, newStatus)
    PROVE  SerialInv'
<1> DEFINE s == [session[p] EXCEPT !.phase = "flush", !.booking = b, !.bk = bookings[b],
                                   !.newBk = new, !.newDrv.status = newStatus]
<1>1. session[p] \in Session /\ bookings[b] \in Booking
  BY DEF Inv, TypeOK
<1>2. s \in Session
  BY <1>1 DEF Session, Driver
<1>3. /\ s.phase = "flush" /\ s.booking = b /\ s.bk = bookings[b] /\ s.newBk = new
      /\ s.driver = session[p].driver /\ s.drv = session[p].drv /\ s.after = "idle"
      /\ s.txns = <<>> /\ s.newDrv.status = newStatus
      /\ Agree(s.newDrv)
  BY <1>1, GatedSession DEF Session, Driver, Agree
<1>4. Stage(p, s)
  BY DEF StageRide
<1> HIDE DEF s
<1>5. InStep(s)
  BY <1>3 DEF InStep
<1>6. Current(s)
  BY <1>3, <1>5, GatedSession, AgedSame DEF Current
<1> QED BY <1>2, <1>4, <1>6, StageSerial

-----------------------------------------------------------------------------
(* Driver endpoints *)

LEMMA GetDriverSerial ==
    ASSUME OneByOne, Inv, SerialInv, NEW p \in Procs, NEW d \in Drivers, GetDriver(p, d)
    PROVE  SerialInv'
<1> DEFINE s == [Idle EXCEPT !.phase = "gated", !.driver = d,
                             !.drv = drivers[d], !.newDrv = drivers[d]]
<1>1. s \in Session
  BY IdleOK DEF Inv, TypeOK, Idle, Session
<1>2. /\ s.phase = "gated" /\ s.driver = d /\ s.drv = drivers[d] /\ s.newDrv = drivers[d]
      /\ s.newBk = s.bk /\ s.txns = <<>> /\ s.after = "idle"
  BY DEF Idle
<1>3. Stage(p, s)
  BY DEF GetDriver
<1> HIDE DEF s
<1>4. Agree(drivers[d])
  BY DEF SerialInv
<1>5. Current(s)
  BY <1>2, <1>4 DEF Current, InStep
<1> QED BY <1>1, <1>3, <1>5, StageSerial

LEMMA StageDriverSerial ==
    ASSUME OneByOne, Inv, SerialInv, NEW p \in Procs, NEW newStatus \in {"online", "offline"},
           Gated(p), StageDriver(p, newStatus)
    PROVE  SerialInv'
<1> DEFINE s == [session[p] EXCEPT !.phase = "flush", !.newDrv.status = newStatus]
<1>1. s \in Session
  <2>1. session[p] \in Session /\ newStatus \in DriverStatus
    BY DEF Inv, TypeOK, DriverStatus
  <2> QED BY <2>1 DEF Session, Driver
<1>2. /\ s.phase = "flush" /\ s.driver = session[p].driver /\ s.drv = session[p].drv
      /\ s.newBk = s.bk /\ s.txns = <<>> /\ s.after = "idle" /\ s.newDrv.status # "on_trip"
      /\ Agree(s.newDrv)
  BY GatedSession DEF Session, Driver, Agree
<1>3. Stage(p, s)
  BY DEF StageDriver
<1> HIDE DEF s
<1>4. Current(s)
  BY <1>2, GatedSession DEF Current, InStep
<1> QED BY <1>1, <1>3, <1>4, StageSerial

LEMMA AcceptRideSerial ==
    ASSUME OneByOne, Inv, SerialInv, NEW p \in Procs, NEW b \in Bookings, AcceptRide(p, b)
    PROVE  SerialInv'
<1> DEFINE bk == bookings[b]
           new == [bk EXCEPT !.driver_id = session[p].driver, !.status = "ACCEPTED"]
<1>1. /\ session[p].driver \in Drivers /\ bk.status = "PENDING"
      /\ Gated(p) /\ Exists(b)
  BY GatedSession DEF AcceptRide, Acceptable
<1>2. bk \in Booking /\ RowOK(bk)
  BY TheRow
<1>3. /\ new \in Booking /\ new.status = "ACCEPTED" /\ new.driver_id = session[p].driver
      /\ new.ride_otp_expires_at = bk.ride_otp_expires_at
      /\ new.ride_otp_attempts_remaining = bk.ride_otp_attempts_remaining
      /\ new.completed_at = bk.completed_at /\ new # bk
  BY <1>1, <1>2 DEF Booking, BookingStatus
<1> HIDE DEF new
<1>4. Change(bk, new, session[p].driver)
  BY <1>1, <1>2, <1>3, NoneIsNothing DEF Change, RowOK, UnderWay, TerminalStates
<1>5. StageRide(p, b, new, "on_trip")
  BY DEF AcceptRide, new
<1> QED BY <1>1, <1>3, <1>4, <1>5, StageRideSerial DEF TerminalStates, DriverStatus

LEMMA RejectRideSerial ==
    ASSUME OneByOne, Inv, SerialInv, NEW p \in Procs, NEW b \in Bookings, RejectRide(p, b)
    PROVE  SerialInv'
<1> DEFINE s == [session[p] EXCEPT !.phase = "flush", !.booking = b, !.bk = bookings[b],
                                   !.newBk = bookings[b], !.rejection = TRUE]
<1>1. Gated(p)
  BY DEF RejectRide
<1>2. s \in Session
  BY <1>1, GatedSession, TheRow DEF Session
<1>3. /\ s.phase = "flush" /\ s.driver = session[p].driver /\ s.drv = session[p].drv
      /\ s.newDrv = s.drv /\ s.newBk = s.bk /\ s.txns = <<>> /\ s.after = "idle"
  BY <1>1, GatedSession DEF Session
<1>4. Stage(p, s)
  BY DEF RejectRide
<1> HIDE DEF s
<1>5. Current(s)
  BY <1>1, <1>3, GatedSession DEF Current, InStep
<1> QED BY <1>2, <1>4, <1>5, StageSerial

LEMMA ArriveAtPickupSerial ==
    ASSUME OneByOne, Inv, SerialInv, NEW p \in Procs, NEW b \in Bookings, ArriveAtPickup(p, b)
    PROVE  SerialInv'
<1> DEFINE bk == bookings[b]
           new == [bk EXCEPT !.arrived_at = "in_grace"]
<1>1. bk \in Booking /\ RowOK(bk) /\ bk.status = "ACCEPTED" /\ Gated(p) /\ Exists(b)
  BY TheRow DEF ArriveAtPickup, Mine
<1>2. new \in Booking /\ Aged(bk, new) /\ new.ride_otp_expires_at = bk.ride_otp_expires_at
  BY <1>1 DEF Booking, Aged
<1> HIDE DEF new
<1>3. Change(bk, new, session[p].driver) /\ new.status = "ACCEPTED"
  BY <1>1, <1>2 DEF Change, RowOK, Aged, Booking
<1>4. session[p].drv.status \in DriverStatus
  BY <1>1, GatedSession DEF Driver
<1>5. StageRide(p, b, new, session[p].drv.status)
  BY DEF ArriveAtPickup, new
<1> QED BY <1>1, <1>2, <1>3, <1>4, <1>5, StageRideSerial DEF TerminalStates

LEMMA StartRideSerial ==
    ASSUME OneByOne, Inv, SerialInv, NEW p \in Procs, NEW b \in Bookings, StartRide(p, b)
    PROVE  SerialInv'
<1> DEFINE bk == bookings[b]
           valid == bk.otp_released /\ bk.ride_otp_expires_at = "live"
           budget == IF valid /\ bk.ride_otp_attempts_remaining # None
                     THEN bk.ride_otp_attempts_remaining ELSE MaxAttempts
           new == [bk EXCEPT !.ride_otp_expires_at = "live",
                             !.ride_otp_attempts_remaining = budget,
                             !.otp_released = TRUE]
<1>1. bk \in Booking /\ RowOK(bk) /\ bk.status = "ACCEPTED" /\ Gated(p) /\ Exists(b)
  BY TheRow DEF StartRide, Mine
<1>2. /\ budget \in (0 .. MaxAttempts) \cup {None}
      /\ budget # None /\ budget # 0
      /\ bk.ride_otp_expires_at = "live" => budget = bk.ride_otp_attempts_remaining
  BY <1>1, RidesAssumption DEF Booking, RowOK
<1> HIDE DEF budget
<1>3. /\ new \in Booking /\ new.status = "ACCEPTED" /\ new.driver_id = bk.driver_id
      /\ new.otp_released /\ new.ride_otp_attempts_remaining = budget
      /\ new.completed_at = bk.completed_at
  BY <1>1, <1>2 DEF Booking
<1> HIDE DEF new
<1>4. RowOK(new)
  BY <1>1, <1>2, <1>3 DEF RowOK, UnderWay, TerminalStates
<1>5. Change(bk, new, session[p].driver)
  BY <1>1, <1>2, <1>3, <1>4 DEF Change, Booking
<1>6. session[p].drv.status \in DriverStatus
  BY <1>1, GatedSession DEF Driver
<1>7. StageRide(p, b, new, session[p].drv.status)
  BY DEF StartRide, ReleaseCode, new, budget
<1> QED BY <1>1, <1>3, <1>5, <1>6, <1>7, StageRideSerial DEF TerminalStates

LEMMA VerifyWrongOtpSerial ==
    ASSUME OneByOne, Inv, SerialInv, NEW p \in Procs, NEW b \in Bookings, VerifyWrongOtp(p, b)
    PROVE  SerialInv'
<1> DEFINE bk == bookings[b]
           left == bk.ride_otp_attempts_remaining - 1
           spent == [bk EXCEPT !.ride_otp_attempts_remaining = left]
           new == IF left <= 0 THEN [spent EXCEPT !.ride_otp_expires_at = "null"] ELSE spent
<1>1. /\ bk \in Booking /\ RowOK(bk) /\ bk.status = "ACCEPTED" /\ Gated(p) /\ Exists(b)
      /\ bk.ride_otp_attempts_remaining \notin {None, 0}
  BY TheRow DEF VerifyWrongOtp, MayVerify, Mine
<1>2. /\ left \in 0 .. MaxAttempts /\ left < bk.ride_otp_attempts_remaining
      /\ left # None /\ bk.ride_otp_attempts_remaining \in Nat
  BY <1>1, RidesAssumption DEF Booking
<1> HIDE DEF left
<1>3. /\ spent \in Booking /\ spent.status = "ACCEPTED" /\ spent.driver_id = bk.driver_id
      /\ spent.otp_released = bk.otp_released /\ spent.ride_otp_attempts_remaining = left
      /\ spent.completed_at = bk.completed_at
      /\ spent.ride_otp_expires_at = bk.ride_otp_expires_at
  BY <1>1, <1>2 DEF Booking
<1> HIDE DEF spent
<1>4. /\ new \in Booking /\ new.status = "ACCEPTED" /\ new.driver_id = bk.driver_id
      /\ new.otp_released = bk.otp_released /\ new.ride_otp_attempts_remaining = left
      /\ new.completed_at = bk.completed_at
      /\ new.ride_otp_expires_at = "live" => bk.ride_otp_expires_at = "live" /\ left # 0
  <2>1. CASE left <= 0
    BY <1>3, <2>1 DEF Booking
  <2>2. CASE ~(left <= 0)
    BY <1>2, <1>3, <2>2
  <2> QED BY <2>1, <2>2
<1> HIDE DEF new
<1>5. RowOK(new)
  BY <1>1, <1>2, <1>4 DEF RowOK, UnderWay, TerminalStates
<1>6. Change(bk, new, session[p].driver)
  BY <1>1, <1>2, <1>4, <1>5 DEF Change
<1>7. session[p].drv.status \in DriverStatus
  BY <1>1, GatedSession DEF Driver
<1>8. StageRide(p, b, new, session[p].drv.status)
  BY DEF VerifyWrongOtp, SpendAttempt, new, spent, left
<1> QED BY <1>1, <1>4, <1>6, <1>7, <1>8, StageRideSerial DEF TerminalStates

\* A row whose code was cleared, with the columns that RowOK looks at.
LEMMA Cleared ==
    ASSUME NEW bk \in Booking
    PROVE  /\ ClearCode(bk) \in Booking
           /\ ClearCode(bk).status = bk.status
           /\ ClearCode(bk).driver_id = bk.driver_id
           /\ ClearCode(bk).ride_otp_expires_at = "null"
           /\ ClearCode(bk).ride_otp_attempts_remaining = None
           /\ ClearCode(bk).otp_released = bk.otp_released
           /\ ClearCode(bk).completed_at = bk.completed_at
  BY DEF ClearCode, Booking

LEMMA VerifyRightOtpSerial ==
    ASSUME OneByOne, Inv, SerialInv, NEW p \in Procs, NEW b \in Bookings, VerifyRightOtp(p, b)
    PROVE  SerialInv'
<1> DEFINE bk == bookings[b]
           clear == ClearCode(bk)
           charge == WaitChargeOf(bk)
           new == [clear EXCEPT !.otp_verified = TRUE, !.status = "ONGOING",
                                !.wait_charge_amount = charge]
<1>1. bk \in Booking /\ RowOK(bk) /\ bk.status = "ACCEPTED" /\ Gated(p) /\ Exists(b)
  BY TheRow DEF VerifyRightOtp, MayVerify, Mine
<1>2. charge \in Int
  BY <1>1, RidesAssumption DEF WaitChargeOf, Booking
<1>3. /\ clear \in Booking /\ clear.driver_id = bk.driver_id
      /\ clear.ride_otp_expires_at = "null" /\ clear.ride_otp_attempts_remaining = None
      /\ clear.completed_at = bk.completed_at
  BY <1>1, Cleared
<1> HIDE DEF charge, clear
<1>4. /\ new \in Booking /\ new.status = "ONGOING" /\ new.driver_id = bk.driver_id
      /\ new.ride_otp_expires_at = "null" /\ new.ride_otp_attempts_remaining = None
      /\ new.completed_at = bk.completed_at
  BY <1>2, <1>3 DEF Booking, BookingStatus
<1> HIDE DEF new
<1>5. Change(bk, new, session[p].driver)
  BY <1>1, <1>4 DEF Change, RowOK, UnderWay, TerminalStates
<1>6. session[p].drv.status \in DriverStatus
  BY <1>1, GatedSession DEF Driver
<1>7. StageRide(p, b, new, session[p].drv.status)
  BY DEF VerifyRightOtp, Boarded, new, clear, charge
<1> QED BY <1>1, <1>4, <1>5, <1>6, <1>7, StageRideSerial DEF TerminalStates

\* Every way a ride ends clears its code and leaves it with its driver.
LEMMA Ended ==
    ASSUME NEW bk \in Booking, NEW new \in Booking, NEW d,
           new.status \in TerminalStates, new.driver_id = bk.driver_id,
           new.ride_otp_expires_at = "null", new.ride_otp_attempts_remaining = None
    PROVE  Change(bk, new, d)
  BY DEF Change, RowOK, UnderWay, TerminalStates

LEMMA CompleteRideSerial ==
    ASSUME OneByOne, Inv, SerialInv, NEW p \in Procs, NEW b \in Bookings,
           NEW finalFare \in FinalFares, CompleteRide(p, b, finalFare)
    PROVE  SerialInv'
<1> DEFINE bk == bookings[b]
           base == IF finalFare # None THEN finalFare ELSE bk.fare
           total == base + bk.wait_charge_amount
           clear == ClearCode(bk)
           new == [clear EXCEPT !.fare = total, !.status = "COMPLETED", !.completed_at = TRUE]
           next == IF bk.payment_method # "cash" THEN "credit" ELSE "commission"
           s == [session[p] EXCEPT !.phase = next, !.booking = b, !.bk = bk, !.newBk = new,
                                   !.newDrv.status = "online"]
<1>1. /\ bk \in Booking /\ RowOK(bk) /\ Gated(p) /\ Exists(b)
      /\ bk.driver_id = session[p].driver /\ bk.status \notin TerminalStates
  BY TheRow DEF CompleteRide, Mine, Completable
<1>2. bk.status \in UnderWay
  BY <1>1, GatedSession, NoneIsNothing
     DEF RowOK, UnderWay, TerminalStates, Booking, BookingStatus
<1>3. total \in Int
  <2>1. base \in Int /\ bk.wait_charge_amount \in Int
    BY <1>1, RidesAssumption DEF Booking
  <2> HIDE DEF base
  <2> QED BY <2>1
<1>4. /\ clear \in Booking /\ clear.driver_id = bk.driver_id
      /\ clear.ride_otp_expires_at = "null" /\ clear.ride_otp_attempts_remaining = None
  BY <1>1, Cleared
<1> HIDE DEF total, clear
<1>5. /\ new \in Booking /\ new.status = "COMPLETED" /\ new.driver_id = bk.driver_id
      /\ new.ride_otp_expires_at = "null" /\ new.ride_otp_attempts_remaining = None
  BY <1>3, <1>4 DEF Booking, BookingStatus
<1> HIDE DEF new
<1>6. Change(bk, new, session[p].driver)
  BY <1>1, <1>5, Ended DEF TerminalStates
<1>7. session[p] \in Session /\ next \in {"credit", "commission"}
  BY <1>1, GatedSession
<1> HIDE DEF next
<1>8. s \in Session
  BY <1>1, <1>5, <1>7 DEF Session, Driver, DriverStatus
<1>9. /\ s.phase = next /\ s.booking = b /\ s.bk = bk /\ s.newBk = new
      /\ s.driver = session[p].driver /\ s.drv = session[p].drv /\ s.after = "idle"
      /\ s.newDrv.status # "on_trip" /\ Agree(s.newDrv)
  BY <1>1, <1>7, GatedSession DEF Session, Driver, Agree
<1>10. Stage(p, s)
  BY DEF CompleteRide, new, next, clear, total
<1> HIDE DEF s
<1>11. InStep(s)
  BY <1>1, <1>9 DEF InStep
<1>12. Current(s)
  BY <1>1, <1>2, <1>5, <1>6, <1>7, <1>9, <1>11, GatedSession, AgedSame DEF Current
<1> QED BY <1>8, <1>10, <1>12, StageSerial

LEMMA WalletStepSerial ==
    ASSUME OneByOne, Inv, SerialInv, NEW p \in Procs, session[p].phase \in {"credit", "commission"},
           NEW next \in {"commission", "flush"}, NEW rows \in Seq(Txn),
           Stage(p, [session[p] EXCEPT !.phase = next, !.txns = rows])
    PROVE  SerialInv'
<1> DEFINE s == [session[p] EXCEPT !.phase = next, !.txns = rows]
<1>1. session[p] \in Session /\ Current(session[p])
  BY DEF Inv, TypeOK, SerialInv
<1>2. s \in Session
  BY <1>1 DEF Session
<1>3. /\ s.phase = next /\ s.driver = session[p].driver /\ s.booking = session[p].booking
      /\ s.bk = session[p].bk /\ s.newBk = session[p].newBk
      /\ s.drv = session[p].drv /\ s.newDrv = session[p].newDrv /\ s.after = session[p].after
  BY <1>1 DEF Session
<1> HIDE DEF s
<1>4. Current(s)
  BY <1>1, <1>3 DEF Current, InStep
<1> QED BY <1>2, <1>4, StageSerial DEF s

LEMMA AddRideCreditSerial ==
    ASSUME OneByOne, Inv, SerialInv, NEW p \in Procs, AddRideCredit(p)
    PROVE  SerialInv'
<1> DEFINE s == session[p]
           rows == AddWalletTransaction(s, "RIDE_CREDIT", s.newBk.fare)
<1>1. s \in Session /\ SessionOK(s) /\ s.phase = "credit"
  BY DEF Inv, TypeOK, AddRideCredit
<1>2. s.newBk.fare \in Int
  BY <1>1 DEF Session, Booking
<1>3. rows \in Seq(Txn)
  BY <1>1, <1>2, AddWalletTransactionKeeps
<1>4. Stage(p, [s EXCEPT !.phase = "commission", !.txns = rows])
  BY DEF AddRideCredit
<1> HIDE DEF rows
<1> QED BY <1>1, <1>3, <1>4, WalletStepSerial

LEMMA AddCommissionSerial ==
    ASSUME OneByOne, Inv, SerialInv, NEW p \in Procs, AddCommission(p)
    PROVE  SerialInv'
<1> DEFINE s == session[p]
           commission == Commission(s.newBk.fare)
           added == AddWalletTransaction(s, "ORDER_DEDUCTION", -commission)
           rows == IF commission > 0 THEN added ELSE s.txns
<1>1. s \in Session /\ SessionOK(s) /\ s.phase = "commission"
  BY DEF Inv, TypeOK, AddCommission
<1>2. commission \in Int
  BY <1>1, CommissionIsInt DEF Session, Booking
<1>3. -commission \in Int
  <2> HIDE DEF commission
  <2> QED BY <1>2
<1>4. added \in Seq(Txn) /\ s.txns \in Seq(Txn)
  BY <1>1, <1>3, AddWalletTransactionKeeps DEF Session
<1>5. rows \in Seq(Txn)
  <2> HIDE DEF commission, added
  <2> QED BY <1>4
<1>6. Stage(p, [s EXCEPT !.phase = "flush", !.txns = rows])
  BY DEF AddCommission
<1> HIDE DEF rows
<1> QED BY <1>1, <1>5, <1>6, WalletStepSerial

LEMMA CancelRideSerial ==
    ASSUME OneByOne, Inv, SerialInv, NEW p \in Procs, NEW b \in Bookings, CancelRide(p, b)
    PROVE  SerialInv'
<1> DEFINE bk == bookings[b]
           clear == ClearCode(bk)
           new == [clear EXCEPT !.status = "CANCELLED"]
           s == [session[p] EXCEPT !.phase = "flush", !.booking = b, !.bk = bk, !.newBk = new,
                                   !.newDrv.status = "online", !.rejection = TRUE]
<1>1. bk \in Booking /\ Gated(p) /\ Exists(b) /\ bk.driver_id = session[p].driver
  BY TheRow DEF CancelRide, Mine
<1>2. /\ clear \in Booking /\ clear.driver_id = bk.driver_id
      /\ clear.ride_otp_expires_at = "null" /\ clear.ride_otp_attempts_remaining = None
  BY <1>1, Cleared
<1> HIDE DEF clear
<1>3. /\ new \in Booking /\ new.status = "CANCELLED" /\ new.driver_id = bk.driver_id
      /\ new.ride_otp_expires_at = "null" /\ new.ride_otp_attempts_remaining = None
  BY <1>2 DEF Booking, BookingStatus
<1> HIDE DEF new
<1>4. Change(bk, new, session[p].driver)
  BY <1>1, <1>3, Ended DEF TerminalStates
<1>5. session[p] \in Session
  BY <1>1, GatedSession
<1>6. s \in Session
  BY <1>1, <1>3, <1>5 DEF Session, Driver, DriverStatus
<1>7. /\ s.phase = "flush" /\ s.booking = b /\ s.bk = bk /\ s.newBk = new
      /\ s.driver = session[p].driver /\ s.drv = session[p].drv /\ s.after = "idle"
      /\ s.newDrv.status # "on_trip" /\ Agree(s.newDrv) /\ s.txns = <<>>
  BY <1>1, <1>5, GatedSession DEF Session, Driver, Agree
<1>8. Stage(p, s)
  BY DEF CancelRide, new, clear
<1> HIDE DEF s
<1>9. Current(s)
  BY <1>1, <1>4, <1>7, GatedSession, AgedSame DEF Current, InStep
<1> QED BY <1>6, <1>8, <1>9, StageSerial

-----------------------------------------------------------------------------
(* Passenger endpoints, documents and the admin panel *)

\* booking.driver is a driver row, with documents that agree.
LEMMA TheDriver ==
    ASSUME Inv, SerialInv, NEW bk \in Booking
    PROVE  /\ BookingDriver(bk) \in Driver
           /\ Agree(BookingDriver(bk))
           /\ bk.driver_id \in Drivers => BookingDriver(bk) = drivers[bk.driver_id]
<1>1. NewDriver \in Driver /\ Agree(NewDriver)
  BY DEF NewDriver, Driver, DriverStatus, DocumentStatus, Agree
<1>2. CASE bk.driver_id = None
  BY <1>1, <1>2, NoneIsNothing DEF BookingDriver
<1>3. CASE bk.driver_id # None
  <2>1. bk.driver_id \in Drivers
    BY <1>3 DEF Booking
  <2> QED BY <1>3, <2>1 DEF BookingDriver, Inv, TypeOK, SerialInv
<1> QED BY <1>2, <1>3

LEMMA UpdateBookingStatusSerial ==
    ASSUME OneByOne, Inv, SerialInv, NEW p \in Procs, NEW b \in Bookings,
           NEW newStatus \in PatchStatuses, UpdateBookingStatus(p, b, newStatus)
    PROVE  SerialInv'
<1> DEFINE bk == bookings[b]
           drv == BookingDriver(bk)
           set == [bk EXCEPT !.status = newStatus]
           clear == ClearCode(set)
           freed == FreedStatus(bk, newStatus)
           newBk == IF newStatus \in TerminalStates THEN clear ELSE set
           s == [Idle EXCEPT !.phase = "flush", !.booking = b, !.driver = bk.driver_id,
                             !.drv = drv, !.newDrv = [drv EXCEPT !.status = freed],
                             !.bk = bk, !.newBk = newBk]
<1>1. bk \in Booking /\ RowOK(bk) /\ Exists(b) /\ newStatus \in TerminalStates
  BY TheRow DEF UpdateBookingStatus, OneByOne
<1>2. /\ drv \in Driver /\ Agree(drv)
      /\ bk.driver_id \in Drivers => drv = drivers[bk.driver_id]
  BY <1>1, TheDriver
<1>3. set \in Booking /\ set.status = newStatus /\ set.driver_id = bk.driver_id
  BY <1>1 DEF Booking, BookingStatus, TerminalStates
<1> HIDE DEF set
<1>4. /\ clear \in Booking /\ clear.status = newStatus /\ clear.driver_id = bk.driver_id
      /\ clear.ride_otp_expires_at = "null" /\ clear.ride_otp_attempts_remaining = None
  BY <1>3, Cleared
<1>5. newBk = clear
  BY <1>1
<1> HIDE DEF clear, newBk
<1>6. Change(bk, newBk, bk.driver_id)
  BY <1>1, <1>4, <1>5, Ended
<1>7. /\ freed \in DriverStatus
      /\ bk.driver_id \in Drivers => freed = "online"
  BY <1>1, <1>2, NoneIsNothing DEF FreedStatus, DriverStatus, Driver
<1> HIDE DEF freed, drv
<1>8. bk.status \in UnderWay => bk.driver_id \in Drivers
  BY <1>1 DEF RowOK, UnderWay, TerminalStates, Booking
<1>9. [drv EXCEPT !.status = freed] \in Driver /\ Agree([drv EXCEPT !.status = freed])
      /\ [drv EXCEPT !.status = freed].status = freed
  BY <1>2, <1>7 DEF Driver, Agree
<1>10. /\ s.phase = "flush" /\ s.booking = b /\ s.bk = bk /\ s.newBk = newBk
       /\ s.driver = bk.driver_id /\ s.drv = drv /\ s.after = "idle" /\ s.txns = <<>>
       /\ s.newDrv = [drv EXCEPT !.status = freed]
  BY DEF Idle
<1>11. s \in Session
  <2>1. bk.driver_id \in Drivers \cup {None}
    BY <1>1 DEF Booking
  <2> QED BY <1>1, <1>2, <1>4, <1>5, <1>9, <2>1, IdleOK DEF Session, Idle
<1>12. Stage(p, s)
  BY DEF UpdateBookingStatus, drv, freed, set, clear, newBk
<1> HIDE DEF s
<1>13. InStep(s)
  BY <1>7, <1>8, <1>9, <1>10 DEF InStep
<1>14. Current(s)
  BY <1>1, <1>2, <1>6, <1>9, <1>10, <1>13, AgedSame DEF Current
<1> QED BY <1>11, <1>12, <1>14, StageSerial

LEMMA DeleteBookingSerial ==
    ASSUME OneByOne, Inv, SerialInv, NEW p \in Procs, NEW b \in Bookings, DeleteBooking(p, b)
    PROVE  SerialInv'
<1> DEFINE bk == bookings[b]
           drv == BookingDriver(bk)
           freed == [drv EXCEPT !.status = "online"]
           s == [Idle EXCEPT !.phase = "flush", !.booking = b, !.driver = bk.driver_id,
                             !.drv = drv, !.newDrv = freed, !.after = "delete"]
           t == [Idle EXCEPT !.phase = "delete", !.booking = b]
<1>1. bk \in Booking
  BY TheRow
<1>2. /\ drv \in Driver /\ Agree(drv)
      /\ bk.driver_id \in Drivers => drv = drivers[bk.driver_id]
  BY <1>1, TheDriver
<1> HIDE DEF drv
<1>3. freed \in Driver /\ Agree(freed) /\ freed.status = "online"
  BY <1>2 DEF Driver, DriverStatus, Agree
<1> HIDE DEF freed
<1>4. CASE bk.driver_id # None
  <2>1. /\ s.phase = "flush" /\ s.booking = b /\ s.driver = bk.driver_id /\ s.drv = drv
        /\ s.newDrv = freed /\ s.newBk = s.bk /\ s.txns = <<>> /\ s.after = "delete"
    BY DEF Idle
  <2>2. s \in Session
    <3>1. bk.driver_id \in Drivers \cup {None}
      BY <1>1 DEF Booking
    <3> QED BY <1>2, <1>3, <3>1, IdleOK DEF Session, Idle
  <2>3. Stage(p, s)
    BY <1>4 DEF DeleteBooking, freed, drv
  <2> HIDE DEF s
  <2>4. Current(s)
    BY <1>2, <1>3, <2>1 DEF Current, InStep
  <2> QED BY <2>2, <2>3, <2>4, StageSerial
<1>5. CASE bk.driver_id = None
  <2>1. /\ t.phase = "delete" /\ t.booking = b /\ t.driver = None /\ t.newDrv = NewDriver
        /\ t.newDrv = t.drv /\ t.newBk = t.bk /\ t.txns = <<>> /\ t.after = "idle"
    BY DEF Idle
  <2>2. t \in Session
    BY IdleOK DEF Session, Idle
  <2>3. Stage(p, t)
    BY <1>5 DEF DeleteBooking
  <2>4. Agree(NewDriver)
    BY DEF Agree, NewDriver
  <2> HIDE DEF t
  <2>5. Current(t)
    BY <1>5, <2>1, <2>4, NoneIsNothing DEF Current, InStep
  <2> QED BY <2>2, <2>3, <2>5, StageSerial
<1> QED BY <1>4, <1>5

\* A profile is written with documents that agree, and with a status that does
\* not put the driver on a trip.
LEMMA StageProfileSerial ==
    ASSUME OneByOne, Inv, SerialInv, NEW p \in Procs, NEW d \in Drivers, NEW new \in Driver,
           Agree(new),
           new.status = "on_trip" => drivers[d].status = "on_trip" \/ "set_status" \in Handlers,
           StageProfile(p, d, new)
    PROVE  SerialInv'
<1> DEFINE s == [Idle EXCEPT !.phase = "flush", !.driver = d, !.drv = drivers[d], !.newDrv = new]
<1>1. s \in Session
  BY IdleOK DEF Inv, TypeOK, Idle, Session
<1>2. /\ s.phase = "flush" /\ s.driver = d /\ s.drv = drivers[d] /\ s.newDrv = new
      /\ s.newBk = s.bk /\ s.txns = <<>> /\ s.after = "idle"
  BY DEF Idle
<1>3. Stage(p, s)
  BY DEF StageProfile
<1> HIDE DEF s
<1>4. Current(s)
  BY <1>2 DEF Current, InStep
<1> QED BY <1>1, <1>3, <1>4, StageSerial

LEMMA ProfileStepSerial ==
    ASSUME OneByOne, Inv, SerialInv, NEW p \in Procs, ProfileStep(p)
    PROVE  SerialInv'
<1>1. PICK d \in Drivers :
        \/ UploadDocuments(p, d)
        \/ ApproveDocuments(p, d)
        \/ RejectDocuments(p, d)
        \/ \E newStatus \in DriverStatus : UpdateDriverStatus(p, d, newStatus)
  BY DEF ProfileStep
<1> DEFINE drv == drivers[d]
<1>2. drv \in Driver /\ Agree(drv)
  BY DEF Inv, TypeOK, SerialInv
<1>3. CASE UploadDocuments(p, d)
  <2> DEFINE new == Submitted(drv)
  <2>1. new \in Driver /\ Agree(new) /\ new.status = drv.status
    BY <1>2 DEF Submitted, Driver, DocumentStatus, Agree
  <2>2. StageProfile(p, d, new)
    BY <1>3 DEF UploadDocuments
  <2> HIDE DEF new
  <2> QED BY <2>1, <2>2, StageProfileSerial
<1>4. CASE ApproveDocuments(p, d)
  <2> DEFINE new == [drv EXCEPT !.documents_verified = TRUE,
                                !.document_verification_status = "verified"]
  <2>1. new \in Driver /\ Agree(new) /\ new.status = drv.status
    BY <1>2 DEF Driver, DocumentStatus, Agree
  <2>2. StageProfile(p, d, new)
    BY <1>4 DEF ApproveDocuments
  <2> HIDE DEF new
  <2> QED BY <2>1, <2>2, StageProfileSerial
<1>5. CASE RejectDocuments(p, d)
  <2> DEFINE new == [drv EXCEPT !.documents_verified = FALSE,
                                !.document_verification_status = "rejected",
                                !.status = IF @ = "online" THEN "offline" ELSE @]
  <2>1. new \in Driver /\ Agree(new) /\ (new.status = "on_trip" => drv.status = "on_trip")
    BY <1>2 DEF Driver, DriverStatus, DocumentStatus, Agree
  <2>2. StageProfile(p, d, new)
    BY <1>5 DEF RejectDocuments
  <2> HIDE DEF new
  <2> QED BY <2>1, <2>2, StageProfileSerial
<1>6. ASSUME NEW newStatus \in DriverStatus, UpdateDriverStatus(p, d, newStatus)
      PROVE  SerialInv'
  <2> DEFINE new == [drv EXCEPT !.status = newStatus]
  <2>1. new \in Driver /\ Agree(new)
    BY <1>2 DEF Driver, Agree
  <2>2. StageProfile(p, d, new) /\ "set_status" \in Handlers
    BY <1>6 DEF UpdateDriverStatus
  <2> HIDE DEF new
  <2> QED BY <2>1, <2>2, StageProfileSerial
<1> QED BY <1>1, <1>3, <1>4, <1>5, <1>6

-----------------------------------------------------------------------------
(* Steps that write the booking rows and leave the only slot at rest *)

\* While the slot is at rest, a step that keeps every row in order keeps the
\* invariant: a driver's ride is not lost as long as its row stays under way.
LEMMA RestingSerial ==
    ASSUME OneByOne, Inv, SerialInv, NEW p \in Procs, session'[p] = Idle,
           UNCHANGED drivers,
           ASSUME NEW b \in Bookings
           PROVE  /\ RowOK(bookings'[b]) /\ (table'[b] = "row" \/ bookings'[b] = NoBooking)
                  /\ Exists(b) /\ bookings[b].status \in UnderWay =>
                        /\ table'[b] = "row"
                        /\ bookings'[b].status = bookings[b].status
                        /\ bookings'[b].driver_id = bookings[b].driver_id
    PROVE  SerialInv'
<1>1. (\A b \in Bookings : RowOK(bookings[b]) /\ (Exists(b) \/ bookings[b] = NoBooking))'
  BY DEF Exists
<1>2. (\A d \in Drivers : Agree(drivers[d]))'
  BY DEF SerialInv
<1>3. ("set_status" \in Handlers \/ OnTripHasRide)'
  BY DEF SerialInv, OnTripHasRide, Exists, UnderWay
<1>4. (\A q \in Procs : Current(session[q]))'
  <2>1. \A q \in Procs : session'[q] = Idle
    BY DEF OneByOne
  <2> QED BY <2>1, IdleCurrent
<1> QED BY <1>1, <1>2, <1>3, <1>4 DEF SerialInv

LEMMA NewBookingOK ==
    ASSUME NEW method PROVE RowOK(NewBooking(method)) /\ RowOK(NoBooking)
  BY DEF NewBooking, NoBooking, RowOK, UnderWay, TerminalStates

LEMMA CreateBookingSerial ==
    ASSUME OneByOne, Inv, SerialInv, NEW p \in Procs, NEW b \in Bookings,
           NEW method \in PaymentMethods, CreateBooking(p, b, method)
    PROVE  SerialInv'
<1>1. /\ table[b] = "unused" /\ table' = [table EXCEPT ![b] = "row"]
      /\ bookings' = [bookings EXCEPT ![b] = NewBooking(method)]
      /\ UNCHANGED drivers
  BY DEF CreateBooking
<1>2. session'[p] = Idle
  BY DEF CreateBooking, Free, SerialInv, Current
<1>3. ASSUME NEW c \in Bookings
      PROVE  /\ RowOK(bookings'[c]) /\ (table'[c] = "row" \/ bookings'[c] = NoBooking)
             /\ Exists(c) /\ bookings[c].status \in UnderWay =>
                   /\ table'[c] = "row"
                   /\ bookings'[c].status = bookings[c].status
                   /\ bookings'[c].driver_id = bookings[c].driver_id
  <2>1. RowOK(bookings[c]) /\ (Exists(c) \/ bookings[c] = NoBooking)
    BY DEF SerialInv
  <2>2. CASE c = b
    BY <1>1, <2>2, NewBookingOK DEF Inv, TypeOK, Exists
  <2>3. CASE c # b
    BY <1>1, <2>1, <2>3 DEF Inv, TypeOK, Exists
  <2> QED BY <2>2, <2>3
<1> QED BY <1>1, <1>2, <1>3, RestingSerial

LEMMA ExpireStaleSerial ==
    ASSUME OneByOne, Inv, SerialInv, NEW p \in Procs, ExpireStalePendingBookings,
           session'[p] = Idle, UNCHANGED <<table, drivers>>
    PROVE  SerialInv'
<1>1. ASSUME NEW b \in Bookings
      PROVE  /\ RowOK(bookings'[b]) /\ (table'[b] = "row" \/ bookings'[b] = NoBooking)
             /\ Exists(b) /\ bookings[b].status \in UnderWay =>
                   /\ table'[b] = "row"
                   /\ bookings'[b].status = bookings[b].status
                   /\ bookings'[b].driver_id = bookings[b].driver_id
  <2>1. /\ RowOK(bookings[b]) /\ bookings[b] \in Booking
        /\ Exists(b) \/ bookings[b] = NoBooking
    BY TheRow DEF SerialInv
  <2>2. CASE /\ Exists(b) /\ bookings[b].status = "PENDING"
             /\ bookings[b].created_at = "stale"
    <3> DEFINE new == [bookings[b] EXCEPT !.status = "CANCELLED"]
    <3>1. bookings'[b] = new
      BY <2>2 DEF ExpireStalePendingBookings
    <3>2. /\ new.status = "CANCELLED" /\ new.driver_id = bookings[b].driver_id
          /\ new.ride_otp_expires_at = bookings[b].ride_otp_expires_at
          /\ new.ride_otp_attempts_remaining = bookings[b].ride_otp_attempts_remaining
      BY <2>1 DEF Booking
    <3> HIDE DEF new
    <3>3. RowOK(new)
      BY <2>1, <2>2, <3>2 DEF RowOK, UnderWay, TerminalStates
    <3> QED BY <2>2, <3>1, <3>3 DEF UnderWay, Exists
  <2>3. CASE ~ /\ Exists(b) /\ bookings[b].status = "PENDING"
               /\ bookings[b].created_at = "stale"
    <3>1. bookings'[b] = bookings[b]
      BY <2>3 DEF ExpireStalePendingBookings
    <3> QED BY <2>1, <3>1 DEF Exists
  <2> QED BY <2>2, <2>3
<1> QED BY <1>1, RestingSerial

\* The slot that deletes a row read, in its own transaction, that no driver is
\* on a trip for it.
LEMMA DeleteRowSerial ==
    ASSUME OneByOne, Inv, SerialInv, NEW p \in Procs, DeleteRow(p)
    PROVE  SerialInv'
<1> DEFINE b == session[p].booking
<1>1. /\ session[p].phase = "delete" /\ Exists(b) /\ session'[p] = Idle
      /\ table' = [table EXCEPT ![b] = "deleted"]
      /\ bookings' = [bookings EXCEPT ![b] = NoBooking]
      /\ UNCHANGED drivers
  BY DEF DeleteRow, Inv, TypeOK
<1>2. b \in Bookings
  BY <1>1 DEF Inv, SessionOK, Shape
<1>3. \A d \in Drivers : bookings[b].driver_id = d => drivers[d].status # "on_trip"
  BY <1>1 DEF SerialInv, Current
<1>4. ASSUME NEW c \in Bookings
      PROVE  /\ RowOK(bookings'[c]) /\ (table'[c] = "row" \/ bookings'[c] = NoBooking)
             /\ c # b => table'[c] = table[c] /\ bookings'[c] = bookings[c]
  <2>1. RowOK(bookings[c]) /\ (Exists(c) \/ bookings[c] = NoBooking)
    BY DEF SerialInv
  <2>2. CASE c = b
    BY <1>1, <1>2, <2>2, NewBookingOK DEF Inv, TypeOK
  <2>3. CASE c # b
    BY <1>1, <2>1, <2>3 DEF Inv, TypeOK, Exists
  <2> QED BY <2>2, <2>3
<1>5. ("set_status" \in Handlers \/ OnTripHasRide)'
  BY <1>1, <1>3, <1>4 DEF SerialInv, OnTripHasRide, Exists
<1>6. (\A q \in Procs : Current(session[q]))'
  BY <1>1, IdleCurrent DEF OneByOne
<1>7. (\A d \in Drivers : Agree(drivers[d]))'
  BY <1>1 DEF SerialInv
<1> QED BY <1>4, <1>5, <1>6, <1>7 DEF SerialInv, Exists

-----------------------------------------------------------------------------
(* Time and commits *)

LEMMA AgedRowOK == ASSUME NEW bk, NEW row, RowOK(bk), Aged(bk, row) PROVE RowOK(row)
  BY DEF RowOK, Aged, UnderWay, TerminalStates

LEMMA AgedTransitive ==
    ASSUME NEW x, NEW y, NEW z, Aged(x, y), Aged(y, z) PROVE Aged(x, z)
  BY DEF Aged

LEMMA TimeAges ==
    ASSUME Inv, TimePasses
    PROVE  /\ UNCHANGED <<table, drivers, ledger, rejections, session>>
           /\ \A c \in Bookings : Aged(bookings[c], bookings'[c])
           /\ \A c \in Bookings : Exists(c) \/ bookings'[c] = bookings[c]
<1>1. PICK b \in Bookings : RequestGoesStale(b) \/ CodeExpires(b) \/ GraceEnds(b)
  BY DEF TimePasses
<1>2. bookings[b] \in Booking /\ bookings \in [Bookings -> Booking]
  BY DEF Inv, TypeOK
<1>3. UNCHANGED <<table, drivers, ledger, rejections, session>> /\ Exists(b)
  BY <1>1 DEF RequestGoesStale, CodeExpires, GraceEnds, TimeStep
<1>4. \E new : Aged(bookings[b], new) /\ bookings' = [bookings EXCEPT ![b] = new]
  <2>1. CASE RequestGoesStale(b)
    <3>1. Aged(bookings[b], [bookings[b] EXCEPT !.created_at = "stale"])
      BY <1>2 DEF Aged, Booking
    <3> QED BY <2>1, <3>1 DEF RequestGoesStale
  <2>2. CASE CodeExpires(b)
    <3>1. Aged(bookings[b], [bookings[b] EXCEPT !.ride_otp_expires_at = "expired"])
      BY <1>2, <2>2 DEF Aged, Booking, CodeExpires
    <3> QED BY <2>2, <3>1 DEF CodeExpires
  <2>3. CASE GraceEnds(b)
    <3>1. Aged(bookings[b], [bookings[b] EXCEPT !.arrived_at = "past_grace"])
      BY <1>2 DEF Aged, Booking
    <3> QED BY <2>3, <3>1 DEF GraceEnds
  <2> QED BY <1>1, <2>1, <2>2, <2>3
<1> QED BY <1>2, <1>3, <1>4, AgedSame

LEMMA TimePassesSerial ==
    ASSUME OneByOne, Inv, SerialInv, TimePasses PROVE SerialInv'
<1>1. /\ UNCHANGED <<table, drivers, session>>
      /\ \A b \in Bookings : Aged(bookings[b], bookings'[b])
      /\ \A b \in Bookings : Exists(b) \/ bookings'[b] = bookings[b]
  BY TimeAges
<1>2. (\A b \in Bookings : RowOK(bookings[b]) /\ (Exists(b) \/ bookings[b] = NoBooking))'
  BY <1>1, AgedRowOK DEF SerialInv, Exists
<1>3. ("set_status" \in Handlers \/ OnTripHasRide)'
  BY <1>1 DEF SerialInv, OnTripHasRide, Exists, Aged
<1>4. ASSUME NEW p \in Procs PROVE Current(session[p])'
  <2> DEFINE s == session[p]
  <2>1. Current(s) /\ Shape(s) /\ s' = s
    BY <1>1 DEF SerialInv, Inv, SessionOK
  <2>2. s.booking \in Bookings => bookings'[s.booking].driver_id = bookings[s.booking].driver_id
    BY <1>1 DEF Aged
  <2>3. s.booking \in Bookings /\ Aged(s.bk, bookings[s.booking]) =>
           Aged(s.bk, bookings'[s.booking])
    BY <1>1, AgedTransitive
  <2> HIDE DEF s
  <2>4. Current(s)'
    BY <1>1, <2>1, <2>2, <2>3 DEF Current, Shape, Exists, InStep
  <2> QED BY <2>4 DEF s
<1> QED BY <1>1, <1>2, <1>3, <1>4 DEF SerialInv

\* Over a row that only aged, a commit writes what the handler made of it.
LEMMA AgedFlush ==
    ASSUME NEW row \in Booking, NEW bk \in Booking, NEW new \in Booking, Aged(bk, row)
    PROVE  Aged(new, Flush(row, bk, new))
<1> DEFINE out == Flush(row, bk, new)
<1>1. /\ out.status = IF new.status = bk.status THEN row.status ELSE new.status
      /\ out.driver_id = IF new.driver_id = bk.driver_id THEN row.driver_id ELSE new.driver_id
      /\ out.ride_otp_attempts_remaining =
            IF new.ride_otp_attempts_remaining = bk.ride_otp_attempts_remaining
            THEN row.ride_otp_attempts_remaining ELSE new.ride_otp_attempts_remaining
      /\ out.otp_released = IF new.otp_released = bk.otp_released
                            THEN row.otp_released ELSE new.otp_released
      /\ out.completed_at = IF new.completed_at = bk.completed_at
                            THEN row.completed_at ELSE new.completed_at
      /\ out.ride_otp_expires_at = IF new.ride_otp_expires_at = bk.ride_otp_expires_at
                                   THEN row.ride_otp_expires_at ELSE new.ride_otp_expires_at
  BY DEF Booking, Flush
<1> HIDE DEF out
<1>2. Aged(new, out)
  BY <1>1 DEF Aged
<1> QED BY <1>2 DEF out

LEMMA FlushRead ==
    ASSUME NEW row \in Driver, NEW new \in Driver PROVE Flush(row, row, new) = new
  BY DEF Driver, Flush

\* What the commit of the only slot does.
LEMMA CommitEffect ==
    ASSUME OneByOne, Inv, SerialInv, NEW p \in Procs, Commit(p)
    PROVE  LET s == session[p] IN
           /\ UNCHANGED table
           /\ \A b \in Bookings : b # s.booking \/ s.newBk = s.bk => bookings'[b] = bookings[b]
           /\ s.newBk # s.bk =>
                 /\ s.booking \in Bookings /\ Exists(s.booking)
                 /\ Aged(s.bk, bookings[s.booking])
                 /\ Change(s.bk, s.newBk, s.driver)
                 /\ Aged(s.newBk, bookings'[s.booking])
           /\ \A d \in Drivers : drivers'[d] = IF d = s.driver THEN s.newDrv ELSE drivers[d]
<1> DEFINE s == session[p]
<1>1. s \in Session /\ Current(s)
  BY DEF Inv, TypeOK, SerialInv
<1>2. /\ bookings' = [b \in Bookings |->
                        IF b = s.booking THEN Flush(bookings[b], s.bk, s.newBk)
                                         ELSE bookings[b]]
      /\ drivers' = [d \in Drivers |->
                       IF d = s.driver THEN Flush(drivers[d], s.drv, s.newDrv)
                                       ELSE drivers[d]]
      /\ UNCHANGED table
  BY DEF Commit
<1> HIDE DEF s
<1>3. s.bk \in Booking /\ s.newBk \in Booking /\ s.drv \in Driver /\ s.newDrv \in Driver
  BY <1>1 DEF Session
<1>4. \A b \in Bookings : bookings[b] \in Booking
  BY DEF Inv, TypeOK
<1>5. \A b \in Bookings : b # s.booking \/ s.newBk = s.bk => bookings'[b] = bookings[b]
  BY <1>2, <1>4, FlushSame
<1>6. s.newBk # s.bk =>
         /\ s.booking \in Bookings /\ Exists(s.booking)
         /\ Aged(s.bk, bookings[s.booking])
         /\ Change(s.bk, s.newBk, s.driver)
         /\ Aged(s.newBk, bookings'[s.booking])
  BY <1>1, <1>2, <1>3, <1>4, AgedFlush DEF Current
<1>7. \A d \in Drivers : drivers'[d] = IF d = s.driver THEN s.newDrv ELSE drivers[d]
  BY <1>1, <1>2, <1>3, FlushRead DEF Current
<1> QED BY <1>2, <1>5, <1>6, <1>7 DEF s

\* The second half of a deletion holds nothing but its booking.
LEMMA DeletionCurrent ==
    ASSUME NEW a, a.phase = "delete", a.driver = None, a.newDrv = NewDriver, a.newDrv = a.drv,
           a.newBk = a.bk, a.txns = <<>>, a.after = "idle",
           \A d \in Drivers : bookings'[a.booking].driver_id = d => drivers'[d].status # "on_trip"
    PROVE  Current(a)'
<1>1. Agree(NewDriver)
  BY DEF Agree, NewDriver
<1> QED BY <1>1, NoneIsNothing DEF Current, InStep

LEMMA CommitSerial ==
    ASSUME OneByOne, Inv, SerialInv, NEW p \in Procs, Commit(p)
    PROVE  SerialInv'
<1> DEFINE s == session[p]
<1>1. s \in Session /\ Current(s) /\ Shape(s)
  BY DEF Inv, TypeOK, SerialInv, SessionOK
<1>2. /\ UNCHANGED table
      /\ \A b \in Bookings : b # s.booking \/ s.newBk = s.bk => bookings'[b] = bookings[b]
      /\ s.newBk # s.bk =>
            /\ s.booking \in Bookings /\ Exists(s.booking)
            /\ Aged(s.bk, bookings[s.booking])
            /\ Change(s.bk, s.newBk, s.driver)
            /\ Aged(s.newBk, bookings'[s.booking])
      /\ \A d \in Drivers : drivers'[d] = IF d = s.driver THEN s.newDrv ELSE drivers[d]
  BY CommitEffect
<1>3. session'[p] = IF s.after = "delete"
                    THEN [Idle EXCEPT !.phase = "delete", !.booking = s.booking] ELSE Idle
  BY DEF Commit, Inv, TypeOK
<1> HIDE DEF s
<1>4. (\A b \in Bookings : RowOK(bookings[b]) /\ (Exists(b) \/ bookings[b] = NoBooking))'
  <2> SUFFICES ASSUME NEW b \in Bookings
               PROVE  RowOK(bookings'[b]) /\ (table'[b] = "row" \/ bookings'[b] = NoBooking)
    BY DEF Exists
  <2>1. RowOK(bookings[b]) /\ (table[b] = "row" \/ bookings[b] = NoBooking)
    BY DEF SerialInv, Exists
  <2>2. CASE b # s.booking \/ s.newBk = s.bk
    BY <1>2, <2>1, <2>2
  <2>3. CASE b = s.booking /\ s.newBk # s.bk
    BY <1>2, <2>3, AgedRowOK DEF Change, Exists
  <2> QED BY <2>2, <2>3
<1>5. (\A d \in Drivers : Agree(drivers[d]))'
  BY <1>1, <1>2 DEF SerialInv, Current
<1>6. ("set_status" \in Handlers \/ OnTripHasRide)'
  <2> SUFFICES ASSUME "set_status" \notin Handlers, NEW d \in Drivers,
                      drivers'[d].status = "on_trip"
               PROVE  \E b \in Bookings : /\ table'[b] = "row" /\ bookings'[b].driver_id = d
                                          /\ bookings'[b].status \in UnderWay
    BY DEF OnTripHasRide, Exists, UnderWay
  <2>1. CASE s.driver = d /\ s.newBk # s.bk /\ s.newBk.status = "ACCEPTED" /\ s.newBk.driver_id = d
    BY <1>2, <2>1 DEF Aged, Exists, UnderWay
  <2>2. CASE drivers[d].status = "on_trip"
    <3>1. PICK b \in Bookings : /\ Exists(b) /\ bookings[b].driver_id = d
                                /\ bookings[b].status \in UnderWay
      BY <2>2 DEF SerialInv, OnTripHasRide, UnderWay
    <3>2. CASE b # s.booking \/ s.newBk = s.bk
      BY <1>2, <3>1, <3>2 DEF Exists
    <3>3. CASE b = s.booking /\ s.newBk # s.bk
      <4>1. /\ s.bk.status \in UnderWay /\ s.bk.driver_id = d
            /\ bookings'[b].status = s.newBk.status /\ bookings'[b].driver_id = s.newBk.driver_id
            /\ Change(s.bk, s.newBk, s.driver)
        BY <1>2, <3>1, <3>3 DEF Aged
      <4>2. s.newBk.status \notin TerminalStates
        BY <1>1, <1>2, <3>3, <4>1 DEF Current, InStep
      <4>3. s.newBk.status \in UnderWay /\ s.newBk.driver_id = d
        BY <4>1, <4>2 DEF Change, UnderWay
      <4> QED BY <1>2, <3>1, <4>1, <4>3 DEF Exists
    <3> QED BY <3>2, <3>3
  <2>3. \/ drivers[d].status = "on_trip"
        \/ s.driver = d /\ s.newDrv.status = "on_trip"
    <3>1. drivers'[d] = IF d = s.driver THEN s.newDrv ELSE drivers[d]
      BY <1>2
    <3> QED BY <3>1
  <2>4. s.driver = d /\ s.newDrv.status = "on_trip" =>
           \/ drivers[d].status = "on_trip"
           \/ s.newBk # s.bk /\ s.newBk.status = "ACCEPTED" /\ s.newBk.driver_id = d
    BY <1>1 DEF Current, InStep
  <2> QED BY <2>1, <2>2, <2>3, <2>4
<1>7. ASSUME NEW q \in Procs PROVE Current(session[q])'
  <2>1. session'[q] = session'[p]
    BY DEF OneByOne
  <2>2. CASE s.after # "delete"
    BY <1>3, <2>1, <2>2, IdleCurrent
  <2>3. CASE s.after = "delete"
    <3> DEFINE t == [Idle EXCEPT !.phase = "delete", !.booking = s.booking]
    <3>1. /\ t.phase = "delete" /\ t.booking = s.booking /\ t.driver = None
          /\ t.newDrv = NewDriver
          /\ t.newDrv = t.drv /\ t.newBk = t.bk /\ t.txns = <<>> /\ t.after = "idle"
      BY DEF Idle
    <3>2. session'[q] = t
      BY <1>3, <2>1, <2>3
    <3>3. \A d \in Drivers : bookings'[s.booking].driver_id = d => drivers'[d].status # "on_trip"
      BY <1>1, <1>2, <2>3 DEF Current, Shape
    <3> HIDE DEF t
    <3>4. PICK a : a = t
      OBVIOUS
    <3>5. Current(a)'
      BY <3>1, <3>3, <3>4, DeletionCurrent
    <3> QED BY <3>2, <3>4, <3>5
  <2> QED BY <2>2, <2>3
<1> QED BY <1>4, <1>5, <1>6, <1>7 DEF SerialInv

-----------------------------------------------------------------------------
(* The invariant *)

LEMMA InitSerial == Init => SerialInv
<1> SUFFICES ASSUME Init PROVE SerialInv
  OBVIOUS
<1>1. \A d \in Drivers : Agree(drivers[d]) /\ drivers[d].status # "on_trip"
  BY DEF Init, Agree, NewDriver, ApprovedDriver
<1> QED BY <1>1, NewBookingOK, IdleCurrent DEF Init, SerialInv, OnTripHasRide

LEMMA RestSerial ==
    ASSUME OneByOne, Inv, SerialInv, NEW p \in Procs, Stage(p, Idle) PROVE SerialInv'
  BY StageSerial, IdleOK, IdleCurrent

LEMMA PassengerStepSerial ==
    ASSUME OneByOne, Inv, SerialInv, NEW p \in Procs, PassengerStep(p) PROVE SerialInv'
<1>1. CASE ListMyBookings(p)
  <2>1. session'[p] = Idle
    BY <1>1 DEF ListMyBookings, Free, SerialInv, Current
  <2> QED BY <1>1, <2>1, ExpireStaleSerial DEF ListMyBookings
<1>2. CASE DeleteRow(p)
  BY <1>2, DeleteRowSerial
<1>3. ASSUME NEW b \in Bookings, NEW method \in PaymentMethods, CreateBooking(p, b, method)
      PROVE  SerialInv'
  BY <1>3, CreateBookingSerial
<1>4. ASSUME NEW b \in Bookings, NEW newStatus \in PatchStatuses,
             UpdateBookingStatus(p, b, newStatus)
      PROVE  SerialInv'
  BY <1>4, UpdateBookingStatusSerial
<1>5. ASSUME NEW b \in Bookings, DeleteBooking(p, b) PROVE SerialInv'
  BY <1>5, DeleteBookingSerial
<1> QED BY <1>1, <1>2, <1>3, <1>4, <1>5 DEF PassengerStep

LEMMA DriverStepSerial ==
    ASSUME OneByOne, Inv, SerialInv, NEW p \in Procs, DriverStep(p) PROVE SerialInv'
<1>1. ASSUME NEW d \in Drivers, GetDriver(p, d) PROVE SerialInv'
  BY <1>1, GetDriverSerial
<1>2. CASE GoOnline(p) \/ GoOffline(p)
  BY <1>2, StageDriverSerial DEF GoOnline, GoOffline
<1>3. CASE GetAvailableRides(p)
  <2>1. session'[p] = Idle
    BY <1>3 DEF GetAvailableRides, Inv, TypeOK
  <2> QED BY <1>3, <2>1, ExpireStaleSerial DEF GetAvailableRides
<1>4. ASSUME NEW b \in Bookings,
             \/ AcceptRide(p, b) \/ RejectRide(p, b) \/ ArriveAtPickup(p, b)
             \/ StartRide(p, b) \/ VerifyWrongOtp(p, b) \/ VerifyRightOtp(p, b)
             \/ CancelRide(p, b)
      PROVE  SerialInv'
  BY <1>4, AcceptRideSerial, RejectRideSerial, ArriveAtPickupSerial, StartRideSerial,
     VerifyWrongOtpSerial, VerifyRightOtpSerial, CancelRideSerial
<1>5. ASSUME NEW b \in Bookings, NEW finalFare \in FinalFares, CompleteRide(p, b, finalFare)
      PROVE  SerialInv'
  BY <1>5, CompleteRideSerial
<1>6. CASE AddRideCredit(p) \/ AddCommission(p)
  BY <1>6, AddRideCreditSerial, AddCommissionSerial
<1> QED BY <1>1, <1>2, <1>3, <1>4, <1>5, <1>6 DEF DriverStep

LEMMA NextSerial == OneByOne /\ Inv /\ SerialInv /\ [Next]_vars => SerialInv'
<1> SUFFICES ASSUME OneByOne, Inv, SerialInv, [Next]_vars PROVE SerialInv'
  OBVIOUS
<1>1. CASE UNCHANGED vars
  <2>1. UNCHANGED <<table, bookings, drivers, session>>
    BY <1>1 DEF vars
  <2> QED BY <2>1 DEF SerialInv, OnTripHasRide, Exists, Current
<1>2. CASE TimePasses
  BY <1>2, TimePassesSerial
<1>3. ASSUME NEW p \in Procs,
             PassengerStep(p) \/ DriverStep(p) \/ ProfileStep(p) \/ SessionStep(p)
      PROVE  SerialInv'
  <2>1. CASE SessionStep(p)
    BY <2>1, CommitSerial, RestSerial DEF SessionStep, CommitFails, EndRequest
  <2> QED BY <1>3, <2>1, PassengerStepSerial, DriverStepSerial, ProfileStepSerial
<1> QED BY <1>1, <1>2, <1>3 DEF Next

LEMMA SerialInvariance ==
    ASSUME OneByOne PROVE Spec => [](Inv /\ SerialInv)
<1>1. Init => Inv /\ SerialInv
  BY InitInv, InitSerial
<1>2. Inv /\ SerialInv /\ [Next]_vars => (Inv /\ SerialInv)'
  BY NextInv, NextSerial
<1> QED BY <1>1, <1>2, PTL DEF Spec

-----------------------------------------------------------------------------
(* The theorems *)

\* documents_verified and the lifecycle of document_verification_status agree.
DocumentsAgree ==
    \A d \in Drivers :
        drivers[d].documents_verified <=> drivers[d].document_verification_status = "verified"

\* documents_verified and document_verification_status never drift apart
\* (upload_driver_documents, approve and reject in the admin panel).
THEOREM DocumentsStayInStep ==
    ASSUME OneByOne PROVE Spec => []DocumentsAgree
<1>1. SerialInv => DocumentsAgree
  BY DEF SerialInv, Agree, DocumentsAgree
<1> QED BY <1>1, SerialInvariance, PTL

\* Every way a booking ends (complete_ride, cancel_ride, update_booking_status,
\* expire_stale_pending_bookings) leaves neither a code nor an attempt budget.
THEOREM NoCodeOutlivesRide ==
    ASSUME OneByOne PROVE Spec => []OverHasNoCode
<1>1. SerialInv => OverHasNoCode
  BY DEF SerialInv, RowOK, UnderWay, TerminalStates, OverHasNoCode
<1> QED BY <1>1, SerialInvariance, PTL

\* A code that is still shown to the passenger has an attempt left
\* (start_ride and verify_ride_otp).
THEOREM ShownCodeIsUsable ==
    ASSUME OneByOne PROVE Spec => []LiveCodeUsable
<1>1. SerialInv => LiveCodeUsable
  BY DEF SerialInv, RowOK, LiveCodeUsable
<1> QED BY <1>1, SerialInvariance, PTL

\* No driver is left on a trip without a ride, unless the admin panel sets the
\* status: every ending and the deletion of a booking free its driver.
THEOREM NobodyIsStranded ==
    ASSUME OneByOne, "set_status" \notin Handlers PROVE Spec => []OnTripHasRide
<1>1. SerialInv => OnTripHasRide
  BY DEF SerialInv
<1> QED BY <1>1, SerialInvariance, PTL

\* The steps by what they do to the database.
LEMMA StepKinds ==
    ASSUME [Next]_vars
    PROVE  \/ UNCHANGED <<table, bookings, drivers, ledger>>
           \/ \E p \in Procs : Commit(p)
           \/ \E p \in Procs : DeleteRow(p)
           \/ \E p \in Procs, b \in Bookings, method \in PaymentMethods :
                 CreateBooking(p, b, method)
           \/ ExpireStalePendingBookings /\ UNCHANGED <<table, drivers, ledger>>
           \/ TimePasses
<1>1. CASE UNCHANGED vars
  BY <1>1 DEF vars
<1>2. ASSUME NEW p \in Procs, PassengerStep(p)
      PROVE  \/ UNCHANGED <<table, bookings, drivers, ledger>>
             \/ DeleteRow(p)
             \/ \E b \in Bookings, method \in PaymentMethods : CreateBooking(p, b, method)
             \/ ExpireStalePendingBookings /\ UNCHANGED <<table, drivers, ledger>>
  BY <1>2 DEF PassengerStep, ListMyBookings, UpdateBookingStatus, DeleteBooking, Stage, db
<1>3. ASSUME NEW p \in Procs, DriverStep(p)
      PROVE  \/ UNCHANGED <<table, bookings, drivers, ledger>>
             \/ ExpireStalePendingBookings /\ UNCHANGED <<table, drivers, ledger>>
  BY <1>3 DEF DriverStep, GetDriver, GoOnline, GoOffline, GetAvailableRides, AcceptRide,
     RejectRide, ArriveAtPickup, StartRide, VerifyWrongOtp, VerifyRightOtp, CancelRide,
     CompleteRide, AddRideCredit, AddCommission, StageDriver, StageRide, Stage, db
<1>4. ASSUME NEW p \in Procs, ProfileStep(p)
      PROVE  UNCHANGED <<table, bookings, drivers, ledger>>
  BY <1>4 DEF ProfileStep, UploadDocuments, ApproveDocuments, RejectDocuments,
     UpdateDriverStatus, StageProfile, Stage, db
<1>5. ASSUME NEW p \in Procs, SessionStep(p)
      PROVE  Commit(p) \/ UNCHANGED <<table, bookings, drivers, ledger>>
  BY <1>5 DEF SessionStep, CommitFails, EndRequest, Stage, db
<1> QED BY <1>1, <1>2, <1>3, <1>4, <1>5 DEF Next

LEMMA BudgetStep ==
    ASSUME OneByOne, Inv, SerialInv, [Next]_vars, NEW b \in Bookings
    PROVE  LET before == bookings[b].ride_otp_attempts_remaining
               after == bookings'[b].ride_otp_attempts_remaining
           IN  before # None /\ after # None /\ after > before =>
                  bookings[b].ride_otp_expires_at # "live"
<1> DEFINE before == bookings[b].ride_otp_attempts_remaining
           after == bookings'[b].ride_otp_attempts_remaining
<1>1. bookings[b] \in Booking
  BY DEF Inv, TypeOK
<1>2. before # None => before \in Int /\ ~(before > before)
  BY <1>1 DEF Booking
<1>3. CASE after = before \/ after = None
  BY <1>2, <1>3
<1>4. ASSUME NEW p \in Procs, Commit(p), after # before
      PROVE  before # None /\ after # None /\ after > before =>
                bookings[b].ride_otp_expires_at # "live"
  <2>1. /\ session[p].newBk # session[p].bk /\ b = session[p].booking
        /\ Aged(session[p].bk, bookings[b])
        /\ Change(session[p].bk, session[p].newBk, session[p].driver)
        /\ Aged(session[p].newBk, bookings'[b])
    BY <1>4, CommitEffect
  <2> QED BY <2>1 DEF Aged, Change
<1>5. ASSUME NEW p \in Procs, DeleteRow(p) PROVE after = before \/ after = None
  BY <1>5 DEF DeleteRow, NoBooking, NewBooking, Inv, TypeOK
<1>6. ASSUME NEW p \in Procs, NEW c \in Bookings, NEW method \in PaymentMethods,
             CreateBooking(p, c, method)
      PROVE  after = before \/ after = None
  BY <1>6 DEF CreateBooking, NewBooking, Inv, TypeOK
<1>7. CASE ExpireStalePendingBookings
  BY <1>1, <1>3, <1>7 DEF ExpireStalePendingBookings, Booking
<1>8. CASE TimePasses
  BY <1>3, <1>8, TimeAges DEF Aged
<1> QED BY <1>3, <1>4, <1>5, <1>6, <1>7, <1>8, StepKinds

\* Wrong guesses are never forgotten while a code is valid (verify_ride_otp and
\* a repeated start_ride).
THEOREM GuessesAreNotForgotten ==
    ASSUME OneByOne PROVE Spec => BudgetOnlySpent
<1>1. Inv /\ SerialInv /\ [Next]_vars =>
        \A b \in Bookings :
          LET before == bookings[b].ride_otp_attempts_remaining
              after == bookings'[b].ride_otp_attempts_remaining
          IN  before # None /\ after # None /\ after > before =>
                 bookings[b].ride_otp_expires_at # "live"
  BY BudgetStep
<1> QED BY <1>1, SerialInvariance, PTL DEF Spec, BudgetOnlySpent

-----------------------------------------------------------------------------
(* The lifecycle *)

\* What a step shows of booking b to the lifecycle.
SameStage(b) == StageOf(b)' = StageOf(b) /\ bookings'[b].driver_id = bookings[b].driver_id
SamePay(b) == PaidFor(b)' <=> PaidFor(b)

LEMMA Stages ==
    ASSUME NEW b \in Bookings
    PROVE  /\ table[b] = "unused" => StageOf(b) = "none"
           /\ table[b] = "row" =>
                 /\ bookings[b].status = "PENDING" => StageOf(b) = "requested"
                 /\ bookings[b].status = "ACCEPTED" => StageOf(b) = "assigned"
                 /\ bookings[b].status = "ONGOING" => StageOf(b) = "riding"
                 /\ bookings[b].status \in TerminalStates => StageOf(b) = "over"
           /\ table'[b] = "deleted" => StageOf(b)' = "gone"
           /\ table'[b] = "row" =>
                 /\ bookings'[b].status = "PENDING" => StageOf(b)' = "requested"
                 /\ bookings'[b].status = "ACCEPTED" => StageOf(b)' = "assigned"
                 /\ bookings'[b].status = "ONGOING" => StageOf(b)' = "riding"
                 /\ bookings'[b].status \in TerminalStates => StageOf(b)' = "over"
  BY DEF StageOf, TerminalStates

\* Where table and status stay, so does the stage.
LEMMA StageSame ==
    ASSUME NEW b \in Bookings, table'[b] = table[b], bookings'[b].status = bookings[b].status
    PROVE  StageOf(b)' = StageOf(b)
  BY DEF StageOf

LEMMA PaySame == ASSUME NEW b, UNCHANGED ledger PROVE SamePay(b)
  BY DEF SamePay, PaidFor

\* A step that shows nothing is a stutter of the lifecycle.
LEMMA Stutters ==
    ASSUME \A b \in Bookings : SameStage(b) /\ SamePay(b)
    PROVE  UNCHANGED Lifecycle!vars
  BY DEF Lifecycle!vars, SameStage, SamePay

\* A step of one booking, told by what it shows.
LEMMA ShowsRequest ==
    ASSUME NEW b \in Bookings, StageOf(b) = "none", StageOf(b)' = "requested",
           bookings'[b].driver_id = bookings[b].driver_id,
           \A c \in Bookings : (c # b => SameStage(c)) /\ SamePay(c)
    PROVE  Lifecycle!Next
<1>1. Lifecycle!Request(b)
  BY DEF Lifecycle!Request, SameStage, SamePay
<1> QED BY <1>1 DEF Lifecycle!Next

LEMMA ShowsAssign ==
    ASSUME NEW b \in Bookings, NEW d \in Drivers,
           StageOf(b) = "requested", StageOf(b)' = "assigned", bookings'[b].driver_id = d,
           \A c \in Bookings : (c # b => SameStage(c)) /\ SamePay(c)
    PROVE  Lifecycle!Next
<1>1. Lifecycle!Assign(b, d)
  BY DEF Lifecycle!Assign, SameStage, SamePay
<1> QED BY <1>1 DEF Lifecycle!Next

LEMMA ShowsBoard ==
    ASSUME NEW b \in Bookings, StageOf(b) = "assigned", StageOf(b)' = "riding",
           bookings'[b].driver_id = bookings[b].driver_id,
           \A c \in Bookings : (c # b => SameStage(c)) /\ SamePay(c)
    PROVE  Lifecycle!Next
<1>1. Lifecycle!Board(b)
  BY DEF Lifecycle!Board, SameStage, SamePay
<1> QED BY <1>1 DEF Lifecycle!Next

LEMMA ShowsCancel ==
    ASSUME NEW b \in Bookings, StageOf(b) \in {"requested", "assigned", "riding"},
           StageOf(b)' = "over", bookings'[b].driver_id = bookings[b].driver_id,
           \A c \in Bookings : (c # b => SameStage(c)) /\ SamePay(c)
    PROVE  Lifecycle!Next
<1>1. Lifecycle!Cancel(b)
  BY DEF Lifecycle!Cancel, SameStage, SamePay
<1> QED BY <1>1 DEF Lifecycle!Next

LEMMA ShowsSettle ==
    ASSUME NEW b \in Bookings, StageOf(b) \in {"assigned", "riding"},
           StageOf(b)' = "over", bookings'[b].driver_id = bookings[b].driver_id,
           ~PaidFor(b), PaidFor(b)',
           \A c \in Bookings : c # b => SameStage(c) /\ SamePay(c)
    PROVE  Lifecycle!Next
<1>1. Lifecycle!Settle(b)
  BY DEF Lifecycle!Settle, SameStage, SamePay
<1> QED BY <1>1 DEF Lifecycle!Next

LEMMA ShowsRemove ==
    ASSUME NEW b \in Bookings, StageOf(b) \notin {"none", "gone"}, StageOf(b)' = "gone",
           bookings'[b].driver_id = None, ~PaidFor(b)',
           \A c \in Bookings : c # b => SameStage(c) /\ SamePay(c)
    PROVE  Lifecycle!Next
<1>1. Lifecycle!Remove(b)
  BY DEF Lifecycle!Remove, SameStage, SamePay
<1> QED BY <1>1 DEF Lifecycle!Next

LEMMA ShowsExpire ==
    ASSUME NEW S \in SUBSET Bookings, \A b \in S : StageOf(b) = "requested" /\ StageOf(b)' = "over",
           \A b \in Bookings : /\ bookings'[b].driver_id = bookings[b].driver_id
                               /\ b \notin S => SameStage(b)
                               /\ SamePay(b)
    PROVE  Lifecycle!Next
<1>1. Lifecycle!Expire(S)
  BY DEF Lifecycle!Expire, SameStage, SamePay
<1> QED BY <1>1 DEF Lifecycle!Next

\* The rows name booking b.
Names(rows, b) == \E i \in DOMAIN rows : rows[i].booking_id = b

LEMMA ConcatNames ==
    ASSUME NEW l \in Seq(Txn), NEW t \in Seq(Txn), NEW b
    PROVE  Names(l \o t, b) <=> Names(l, b) \/ Names(t, b)
<1>1. /\ Len(l \o t) = Len(l) + Len(t)
      /\ \A i \in 1 .. Len(l) + Len(t) : (l \o t)[i] =
            IF i <= Len(l) THEN l[i] ELSE t[i - Len(l)]
      /\ l \o t \in Seq(Txn)
  BY ConcatProperties
<1>2. /\ DOMAIN (l \o t) = 1 .. Len(l) + Len(t)
      /\ DOMAIN l = 1 .. Len(l) /\ DOMAIN t = 1 .. Len(t)
      /\ Len(l) \in Nat /\ Len(t) \in Nat
  BY <1>1, LenProperties
<1>3. ASSUME NEW i \in DOMAIN l PROVE i \in DOMAIN (l \o t) /\ (l \o t)[i] = l[i]
  BY <1>1, <1>2
<1>4. ASSUME NEW j \in DOMAIN t
      PROVE  Len(l) + j \in DOMAIN (l \o t) /\ (l \o t)[Len(l) + j] = t[j]
  <2>1. Len(l) + j \in 1 .. Len(l) + Len(t) /\ ~(Len(l) + j <= Len(l)) /\ Len(l) + j - Len(l) = j
    BY <1>2
  <2> QED BY <1>1, <1>2, <2>1
<1>5. ASSUME NEW i \in DOMAIN (l \o t)
      PROVE  \/ i \in DOMAIN l /\ (l \o t)[i] = l[i]
             \/ \E j \in DOMAIN t : (l \o t)[i] = t[j]
  BY <1>2, ConcatRows
<1> QED BY <1>3, <1>4, <1>5 DEF Names

\* A commit pays for its own booking, and only if it inserts ledger rows.
LEMMA CommitPays ==
    ASSUME Inv, NEW p \in Procs, Commit(p), NEW b
    PROVE  PaidFor(b)' <=> PaidFor(b) \/ (session[p].txns # <<>> /\ b = session[p].booking)
<1> DEFINE s == session[p]
<1>1. s \in Session /\ Shape(s)
  BY DEF Inv, TypeOK, SessionOK
<1>2. ledger' = [d \in Drivers |-> IF d = s.driver THEN ledger[d] \o s.txns ELSE ledger[d]]
  BY DEF Commit
<1> HIDE DEF s
<1>3. s.txns \in Seq(Txn)
  BY <1>1 DEF Session
<1>4. DOMAIN s.txns = 1 .. Len(s.txns) /\ Len(s.txns) \in Nat
      /\ (s.txns # <<>> <=> Len(s.txns) # 0)
  BY <1>3, LenProperties, EmptySeq
<1>5. ASSUME NEW d \in Drivers
      PROVE  Names(ledger'[d], b) <=> Names(ledger[d], b) \/ (d = s.driver /\ Names(s.txns, b))
  <2>1. ledger[d] \in Seq(Txn)
    BY DEF Inv, TypeOK
  <2>2. Names(ledger[d] \o s.txns, b) <=> Names(ledger[d], b) \/ Names(s.txns, b)
    BY <1>3, <2>1, ConcatNames
  <2>3. ledger'[d] = IF d = s.driver THEN ledger[d] \o s.txns ELSE ledger[d]
    BY <1>2
  <2> QED BY <2>2, <2>3
<1>6. Names(s.txns, b) <=> s.txns # <<>> /\ b = s.booking
  BY <1>1, <1>4 DEF Names, Shape
<1>7. s.txns # <<>> => s.driver \in Drivers
  BY <1>1 DEF Shape
<1>8. /\ PaidFor(b) <=> \E d \in Drivers : Names(ledger[d], b)
      /\ PaidFor(b)' <=> \E d \in Drivers : Names(ledger'[d], b)
  BY DEF PaidFor, Names
<1> QED BY <1>5, <1>6, <1>7, <1>8 DEF s

\* A booking that is still under way has not been paid for.
LEMMA UnpaidUnderWay ==
    ASSUME Inv, SerialInv, NEW b \in Bookings, bookings[b].status \in UnderWay
    PROVE  ~PaidFor(b)
<1> SUFFICES ASSUME NEW d \in Drivers, NEW i \in DOMAIN ledger[d], ledger[d][i].booking_id = b
             PROVE  FALSE
  BY DEF PaidFor
<1>1. bookings[b].completed_at
  BY NoneIsNothing, LedgerEntry
<1> QED BY <1>1 DEF SerialInv, RowOK, UnderWay, TerminalStates

-----------------------------------------------------------------------------
(* Every step is a step of the lifecycle or shows nothing *)

LEMMA CommitShows ==
    ASSUME OneByOne, Inv, SerialInv, NEW p \in Procs, Commit(p)
    PROVE  Lifecycle!Next \/ UNCHANGED Lifecycle!vars
<1> DEFINE s == session[p]
<1> PICK b : b = s.booking
  OBVIOUS
<1>1. s \in Session /\ Current(s)
  BY DEF Inv, TypeOK, SerialInv
<1>2. /\ UNCHANGED table
      /\ \A c \in Bookings : c # b \/ s.newBk = s.bk => bookings'[c] = bookings[c]
      /\ s.newBk # s.bk =>
            /\ b \in Bookings /\ Exists(b)
            /\ Aged(s.bk, bookings[b])
            /\ Change(s.bk, s.newBk, s.driver)
            /\ Aged(s.newBk, bookings'[b])
  BY CommitEffect
<1>3. \A c : PaidFor(c)' <=> PaidFor(c) \/ (s.txns # <<>> /\ c = b)
  BY CommitPays
<1>4. s.txns # <<>> => /\ s.newBk # s.bk /\ s.bk.status \in UnderWay
                       /\ s.newBk.status = "COMPLETED"
  BY <1>1 DEF Current, UnderWay
<1> HIDE DEF s
<1>5. \A c \in Bookings : c # b => SameStage(c) /\ SamePay(c)
  BY <1>2, <1>3, StageSame DEF SameStage, SamePay
<1>6. s.txns = <<>> => \A c \in Bookings : SamePay(c)
  BY <1>3 DEF SamePay
<1>7. CASE s.newBk = s.bk
  <2>1. s.txns = <<>>
    BY <1>4, <1>7
  <2>2. \A c \in Bookings : SameStage(c)
    BY <1>2, <1>7, StageSame DEF SameStage
  <2> QED BY <1>6, <2>1, <2>2, Stutters
<1>8. CASE s.newBk # s.bk
  <2>1. /\ b \in Bookings /\ table[b] = "row" /\ table'[b] = "row"
        /\ bookings[b].status = s.bk.status /\ bookings[b].driver_id = s.bk.driver_id
        /\ bookings'[b].status = s.newBk.status /\ bookings'[b].driver_id = s.newBk.driver_id
        /\ Change(s.bk, s.newBk, s.driver)
    BY <1>2, <1>8 DEF Aged, Exists
  <2>2. \/ s.newBk.status = s.bk.status /\ s.newBk.driver_id = s.bk.driver_id
        \/ /\ s.bk.status = "PENDING" /\ s.newBk.status = "ACCEPTED"
           /\ s.newBk.driver_id = s.driver /\ s.driver \in Drivers
        \/ /\ s.bk.status = "ACCEPTED" /\ s.newBk.status = "ONGOING"
           /\ s.newBk.driver_id = s.bk.driver_id
        \/ s.newBk.status \in TerminalStates /\ s.newBk.driver_id = s.bk.driver_id
    BY <2>1 DEF Change
  <2>3. bookings[b].status \in BookingStatus
    BY <2>1 DEF Inv, TypeOK, Booking
  <2>4. CASE s.newBk.status = s.bk.status /\ s.newBk.driver_id = s.bk.driver_id
    <3>1. s.txns = <<>>
      BY <1>4, <2>4 DEF UnderWay
    <3>2. SameStage(b)
      BY <2>1, <2>4, StageSame DEF SameStage
    <3> QED BY <1>5, <1>6, <3>1, <3>2, Stutters
  <2>5. CASE /\ s.bk.status = "PENDING" /\ s.newBk.status = "ACCEPTED"
             /\ s.newBk.driver_id = s.driver /\ s.driver \in Drivers
    <3>1. s.txns = <<>>
      BY <1>4, <2>5
    <3>2. StageOf(b) = "requested" /\ StageOf(b)' = "assigned"
      BY <2>1, <2>5, Stages
    <3> QED BY <1>5, <1>6, <2>1, <2>5, <3>1, <3>2, ShowsAssign
  <2>6. CASE /\ s.bk.status = "ACCEPTED" /\ s.newBk.status = "ONGOING"
             /\ s.newBk.driver_id = s.bk.driver_id
    <3>1. s.txns = <<>>
      BY <1>4, <2>6
    <3>2. StageOf(b) = "assigned" /\ StageOf(b)' = "riding"
      BY <2>1, <2>6, Stages
    <3> QED BY <1>5, <1>6, <2>1, <2>6, <3>1, <3>2, ShowsBoard
  <2>7. CASE s.newBk.status \in TerminalStates /\ s.newBk.driver_id = s.bk.driver_id
    <3>1. StageOf(b)' = "over" /\ bookings'[b].driver_id = bookings[b].driver_id
      BY <2>1, <2>7, Stages
    <3>2. CASE s.txns # <<>>
      <4>1. ~PaidFor(b) /\ PaidFor(b)'
        BY <1>3, <1>4, <2>1, <3>2, UnpaidUnderWay
      <4>2. StageOf(b) \in {"assigned", "riding"}
        BY <1>4, <2>1, <3>2, Stages DEF UnderWay
      <4> QED BY <1>5, <2>1, <3>1, <4>1, <4>2, ShowsSettle
    <3>3. CASE s.txns = <<>> /\ bookings[b].status \in TerminalStates
      <4>1. SameStage(b)
        BY <2>1, <3>1, <3>3, Stages DEF SameStage
      <4> QED BY <1>5, <1>6, <3>3, <4>1, Stutters
    <3>4. CASE s.txns = <<>> /\ bookings[b].status \notin TerminalStates
      <4>1. StageOf(b) \in {"requested", "assigned", "riding"}
        BY <2>1, <2>3, <3>4, Stages DEF BookingStatus, TerminalStates
      <4> QED BY <1>5, <1>6, <2>1, <3>1, <3>4, <4>1, ShowsCancel
    <3> QED BY <3>2, <3>3, <3>4
  <2> QED BY <2>2, <2>4, <2>5, <2>6, <2>7
<1> QED BY <1>7, <1>8

LEMMA DeleteRowShows ==
    ASSUME Inv, NEW p \in Procs, DeleteRow(p)
    PROVE  Lifecycle!Next
<1> PICK b : b = session[p].booking
  OBVIOUS
<1>1. /\ b \in Bookings /\ table[b] = "row"
      /\ table' = [table EXCEPT ![b] = "deleted"]
      /\ bookings' = [bookings EXCEPT ![b] = NoBooking]
      /\ ledger' = [d \in Drivers |-> DetachRows(ledger[d], b)]
  BY DEF DeleteRow, Inv, SessionOK, Shape, Exists
<1>2. bookings[b].status \in BookingStatus
  BY <1>1 DEF Inv, TypeOK, Booking
<1>3. /\ table'[b] = "deleted" /\ bookings'[b].driver_id = None
      /\ \A c \in Bookings : c # b => table'[c] = table[c] /\ bookings'[c] = bookings[c]
  BY <1>1 DEF Inv, TypeOK, NoBooking, NewBooking
<1>4. StageOf(b) \notin {"none", "gone"} /\ StageOf(b)' = "gone"
  BY <1>1, <1>2, <1>3, Stages DEF BookingStatus, TerminalStates
<1>5. ASSUME NEW c \in Bookings PROVE PaidFor(c)' <=> PaidFor(c) /\ c # b
  <2>1. ASSUME NEW d \in Drivers
        PROVE  /\ DOMAIN ledger'[d] = DOMAIN ledger[d]
               /\ \A i \in DOMAIN ledger[d] : ledger'[d][i].booking_id =
                     IF ledger[d][i].booking_id = b THEN None ELSE ledger[d][i].booking_id
    <3>1. ledger[d] \in Seq(Txn)
      BY DEF Inv, TypeOK
    <3> QED BY <1>1, <3>1, DetachRowsType
  <2> QED BY <2>1, NoneIsNothing DEF PaidFor
<1>6. \A c \in Bookings : c # b => SameStage(c) /\ SamePay(c)
  BY <1>3, <1>5, StageSame DEF SameStage, SamePay
<1> QED BY <1>1, <1>3, <1>4, <1>5, <1>6, ShowsRemove

LEMMA CreateBookingShows ==
    ASSUME Inv, SerialInv, NEW p \in Procs, NEW b \in Bookings, NEW method \in PaymentMethods,
           CreateBooking(p, b, method)
    PROVE  Lifecycle!Next
<1>1. /\ table[b] = "unused"
      /\ table' = [table EXCEPT ![b] = "row"]
      /\ bookings' = [bookings EXCEPT ![b] = NewBooking(method)]
      /\ UNCHANGED ledger
  BY DEF CreateBooking
<1>2. bookings[b].driver_id = None
  BY <1>1 DEF SerialInv, Exists, NoBooking, NewBooking
<1>3. /\ table'[b] = "row" /\ bookings'[b].status = "PENDING" /\ bookings'[b].driver_id = None
      /\ \A c \in Bookings : c # b => table'[c] = table[c] /\ bookings'[c] = bookings[c]
  BY <1>1 DEF Inv, TypeOK, NewBooking
<1>4. StageOf(b) = "none" /\ StageOf(b)' = "requested"
  BY <1>1, <1>3, Stages
<1>5. \A c \in Bookings : (c # b => SameStage(c)) /\ SamePay(c)
  BY <1>1, <1>3, StageSame, PaySame DEF SameStage
<1> QED BY <1>2, <1>3, <1>4, <1>5, ShowsRequest

LEMMA ExpiryShows ==
    ASSUME Inv, ExpireStalePendingBookings, UNCHANGED <<table, drivers, ledger>>
    PROVE  Lifecycle!Next
<1> DEFINE S == {b \in Bookings : /\ Exists(b) /\ bookings[b].status = "PENDING"
                                  /\ bookings[b].created_at = "stale"}
<1>1. ASSUME NEW b \in S PROVE StageOf(b) = "requested" /\ StageOf(b)' = "over"
  <2>1. bookings[b] \in Booking /\ bookings'[b] = [bookings[b] EXCEPT !.status = "CANCELLED"]
    BY DEF Inv, TypeOK, ExpireStalePendingBookings
  <2>2. bookings'[b].status = "CANCELLED"
    BY <2>1 DEF Booking
  <2> QED BY <2>2, Stages DEF Exists, TerminalStates
<1>2. ASSUME NEW b \in Bookings
      PROVE  /\ bookings'[b].driver_id = bookings[b].driver_id
             /\ b \notin S => SameStage(b)
             /\ SamePay(b)
  <2>1. /\ bookings'[b].driver_id = bookings[b].driver_id
        /\ b \notin S => bookings'[b] = bookings[b]
    BY DEF Inv, TypeOK, ExpireStalePendingBookings, Booking
  <2> QED BY <2>1, StageSame, PaySame DEF SameStage
<1> HIDE DEF S
<1>3. S \in SUBSET Bookings
  BY DEF S
<1> QED BY <1>1, <1>2, <1>3, ShowsExpire

LEMMA StepShows ==
    ASSUME OneByOne, Inv, SerialInv, [Next]_vars
    PROVE  Lifecycle!Next \/ UNCHANGED Lifecycle!vars
<1>1. CASE UNCHANGED <<table, bookings, drivers, ledger>>
  <2>1. \A b \in Bookings : SameStage(b) /\ SamePay(b)
    BY <1>1, StageSame, PaySame DEF SameStage
  <2> QED BY <2>1, Stutters
<1>2. CASE TimePasses
  <2>1. \A b \in Bookings : SameStage(b) /\ SamePay(b)
    BY <1>2, TimeAges, StageSame, PaySame DEF SameStage, Aged
  <2> QED BY <2>1, Stutters
<1> QED BY <1>1, <1>2, CommitShows, DeleteRowShows, CreateBookingShows, ExpiryShows, StepKinds

LEMMA InitShows == Init => Lifecycle!Init
<1> SUFFICES ASSUME Init PROVE Lifecycle!Init
  OBVIOUS
<1>1. \A b \in Bookings : StageOf(b) = "none" /\ bookings[b].driver_id = None
  BY DEF Init, StageOf, NoBooking, NewBooking
<1>2. \A d \in Drivers : DOMAIN ledger[d] = {}
  BY DEF Init
<1>3. \A b \in Bookings : ~PaidFor(b)
  BY <1>2 DEF PaidFor
<1> QED BY <1>1, <1>3 DEF Lifecycle!Init

\* One request at a time, the ride core keeps the promise of RideLifecycle for
\* every booking: given to one driver at most, boarded at most once, over for
\* good, and paid for at most once, at its end.
THEOREM LifecycleIsKept ==
    ASSUME OneByOne PROVE Spec => ImplementsLifecycle
<1>1. Inv /\ SerialInv /\ [Next]_vars => [Lifecycle!Next]_(Lifecycle!vars)
  BY StepShows
<1> QED BY <1>1, InitShows, SerialInvariance, PTL DEF Spec, ImplementsLifecycle, Lifecycle!Spec

-----------------------------------------------------------------------------
(* The settlement *)

\* What the rows of a bill are made of.
SameBill(x, y) ==
    /\ y.fare = x.fare
    /\ y.payment_method = x.payment_method
    /\ y.completed_at = x.completed_at
    /\ y.driver_id = x.driver_id

\* The request completes its booking.
Completes(s) == s.newBk.completed_at /\ ~s.bk.completed_at

\* The first part of a settlement.
Credit(bk) ==
    IF bk.payment_method = "cash" THEN <<>>
    ELSE <<[type |-> "RIDE_CREDIT", amount |-> bk.fare]>>

Entry == [type : {"RIDE_CREDIT", "ORDER_DEDUCTION"}, amount : Int]

Matches(rows, owed) ==
    /\ DOMAIN rows = DOMAIN owed
    /\ \A i \in DOMAIN owed : rows[i].type = owed[i].type /\ rows[i].amount = owed[i].amount

\* A request works on the bill that is there, and has staged what its phase of
\* the settlement calls for, on top of the driver's last balance.
Billed(s) ==
    /\ s.newBk.payment_method = s.bk.payment_method
    /\ s.newBk # s.bk => SameBill(s.bk, bookings[s.booking])
    /\ s.bk.completed_at => SameBill(s.bk, s.newBk)
    /\ ~Completes(s) => s.txns = <<>>
    /\ Completes(s) =>
          /\ s.newBk.driver_id = s.driver
          /\ s.phase \in {"credit", "commission", "flush"}
          /\ s.phase = "credit" => s.txns = <<>> /\ s.newBk.payment_method # "cash"
          /\ s.phase = "commission" => Matches(s.txns, Credit(s.newBk))
          /\ s.phase = "flush" => Matches(s.txns, Settlement(s.newBk))
    /\ \A i \in DOMAIN s.txns :
          s.txns[i].balance_after = WalletBalance(s.driver) + s.txns[i].amount

\* Every ride is paid in cash.
CashOnly == PaymentMethods \subseteq {"cash"}

\* The inductive invariant, besides Inv and SerialInv.
SettleInv ==
    /\ SettledExactly
    /\ \A p \in Procs : Billed(session[p])
    /\ CashOnly => /\ \A b \in Bookings : bookings[b].payment_method = "cash"
                   /\ RunningBalance

-----------------------------------------------------------------------------
(* Lists of rows *)

\* Where the elements of a concatenation come from.
LEMMA ConcatAt ==
    ASSUME NEW l \in Seq(Txn), NEW t \in Seq(Txn)
    PROVE  /\ l \o t \in Seq(Txn)
           /\ DOMAIN l = 1 .. Len(l) /\ DOMAIN t = 1 .. Len(t)
           /\ Len(l) \in Nat /\ Len(t) \in Nat
           /\ DOMAIN (l \o t) = 1 .. (Len(l) + Len(t))
           /\ \A i \in DOMAIN l : (l \o t)[i] = l[i]
           /\ \A j \in DOMAIN t : (l \o t)[Len(l) + j] = t[j]
           /\ \A k \in DOMAIN (l \o t) :
                 k \in DOMAIN l \/ \E j \in DOMAIN t : k = Len(l) + j
<1>1. /\ l \o t \in Seq(Txn)
      /\ Len(l \o t) = Len(l) + Len(t)
      /\ \A i \in 1 .. Len(l) + Len(t) : (l \o t)[i] =
            IF i <= Len(l) THEN l[i] ELSE t[i - Len(l)]
  BY ConcatProperties
<1>2. /\ DOMAIN (l \o t) = 1 .. (Len(l) + Len(t)) /\ DOMAIN l = 1 .. Len(l)
      /\ DOMAIN t = 1 .. Len(t) /\ Len(l) \in Nat /\ Len(t) \in Nat
  BY <1>1, LenProperties
<1>3. \A i \in DOMAIN l : (l \o t)[i] = l[i]
  BY <1>1, <1>2
<1>4. ASSUME NEW j \in DOMAIN t PROVE (l \o t)[Len(l) + j] = t[j]
  <2>1. Len(l) + j \in 1 .. Len(l) + Len(t) /\ ~(Len(l) + j <= Len(l)) /\ Len(l) + j - Len(l) = j
    BY <1>2
  <2> QED BY <1>1, <2>1
<1>5. ASSUME NEW k \in DOMAIN (l \o t), k \notin DOMAIN l
      PROVE  \E j \in DOMAIN t : k = Len(l) + j
  <2>1. k - Len(l) \in DOMAIN t /\ k = Len(l) + (k - Len(l))
    BY <1>2, <1>5
  <2> QED BY <2>1
<1> QED BY <1>1, <1>2, <1>3, <1>4, <1>5

\* Nothing is listed where nothing names b.
LEMMA ListsNothing ==
    ASSUME NEW rows, NEW b, ~Names(rows, b) PROVE Lists(rows, b, <<>>)
<1> DEFINE owed == <<>>
           at == [i \in DOMAIN owed |-> 0]
<1>1. DOMAIN owed = {} /\ at \in [DOMAIN owed -> DOMAIN rows]
  OBVIOUS
<1>2. \A k \in DOMAIN rows : rows[k].booking_id # b
  BY DEF Names
<1> HIDE DEF owed, at
<1>3. Lists(rows, b, owed)
  BY <1>1, <1>2 DEF Lists
<1> QED BY <1>3 DEF owed

\* Rows of other bookings change nothing.
LEMMA ListsOthers ==
    ASSUME NEW l \in Seq(Txn), NEW t \in Seq(Txn), NEW b, NEW owed,
           Lists(l, b, owed), ~Names(t, b)
    PROVE  Lists(l \o t, b, owed)
<1>1. PICK at \in [DOMAIN owed -> DOMAIN l] :
         /\ \A i, j \in DOMAIN owed : i < j => at[i] < at[j]
         /\ \A k \in DOMAIN l :
               l[k].booking_id = b <=> \E i \in DOMAIN owed : at[i] = k
         /\ \A i \in DOMAIN owed : /\ l[at[i]].type = owed[i].type
                                   /\ l[at[i]].amount = owed[i].amount
  BY DEF Lists
<1>2. DOMAIN l \subseteq DOMAIN (l \o t)
  BY ConcatAt
<1>3. at \in [DOMAIN owed -> DOMAIN (l \o t)]
  BY <1>2
<1>4. ASSUME NEW k \in DOMAIN (l \o t)
      PROVE  (l \o t)[k].booking_id = b <=> \E i \in DOMAIN owed : at[i] = k
  <2>1. CASE k \in DOMAIN l
    BY <1>1, <2>1, ConcatAt
  <2>2. CASE k \notin DOMAIN l
    <3>1. PICK j \in DOMAIN t : k = Len(l) + j
      BY <2>2, ConcatAt
    <3>2. (l \o t)[k].booking_id # b
      BY <3>1, ConcatAt DEF Names
    <3> QED BY <2>2, <3>2
  <2> QED BY <2>1, <2>2
<1>5. \A i \in DOMAIN owed : (l \o t)[at[i]] = l[at[i]]
  BY ConcatAt
<1>6. \A i \in DOMAIN owed : /\ (l \o t)[at[i]].type = owed[i].type
                             /\ (l \o t)[at[i]].amount = owed[i].amount
  BY <1>1, <1>5
<1> QED BY <1>1, <1>3, <1>4, <1>6 DEF Lists

\* The rows that settle b follow rows that do not name it.
LEMMA ListsSettled ==
    ASSUME NEW l \in Seq(Txn), NEW t \in Seq(Txn), NEW b, NEW owed,
           ~Names(l, b), Matches(t, owed), \A i \in DOMAIN t : t[i].booking_id = b
    PROVE  Lists(l \o t, b, owed)
<1> DEFINE n == Len(l)
           at == [i \in DOMAIN owed |-> n + i]
<1>1. /\ n \in Nat /\ DOMAIN owed = 1 .. Len(t) /\ Len(t) \in Nat
      /\ DOMAIN (l \o t) = 1 .. (n + Len(t)) /\ DOMAIN l = 1 .. n
      /\ \A i \in DOMAIN owed : (l \o t)[n + i] = t[i]
  BY ConcatAt DEF Matches
<1> HIDE DEF n
<1>2. at \in [DOMAIN owed -> DOMAIN (l \o t)]
  BY <1>1
<1>3. \A i, j \in DOMAIN owed : i < j => at[i] < at[j]
  BY <1>1
<1>4. ASSUME NEW k \in DOMAIN (l \o t)
      PROVE  (l \o t)[k].booking_id = b <=> \E i \in DOMAIN owed : at[i] = k
  <2>1. CASE k \in DOMAIN l
    <3>1. (l \o t)[k].booking_id # b
      BY <2>1, ConcatAt DEF Names
    <3>2. \A i \in DOMAIN owed : at[i] # k
      BY <1>1, <2>1
    <3> QED BY <3>1, <3>2
  <2>2. CASE k \notin DOMAIN l
    <3>1. PICK j \in DOMAIN t : k = n + j
      BY <2>2, ConcatAt DEF n
    <3>2. j \in DOMAIN owed /\ at[j] = k
      BY <3>1 DEF Matches
    <3>3. (l \o t)[k].booking_id = b
      BY <1>1, <3>1, <3>2
    <3> QED BY <3>2, <3>3
  <2> QED BY <2>1, <2>2
<1>5. \A i \in DOMAIN owed : /\ (l \o t)[at[i]].type = owed[i].type
                             /\ (l \o t)[at[i]].amount = owed[i].amount
  BY <1>1 DEF Matches
<1> HIDE DEF at
<1> QED BY <1>2, <1>3, <1>4, <1>5 DEF Lists

\* Detaching the rows of another booking changes nothing.
LEMMA DetachRowsAt ==
    ASSUME NEW rows \in Seq(Txn), NEW b
    PROVE  /\ DOMAIN DetachRows(rows, b) = DOMAIN rows
           /\ \A i \in DOMAIN rows :
                 /\ DetachRows(rows, b)[i].type = rows[i].type
                 /\ DetachRows(rows, b)[i].amount = rows[i].amount
                 /\ DetachRows(rows, b)[i].balance_after = rows[i].balance_after
                 /\ DetachRows(rows, b)[i].booking_id =
                       IF rows[i].booking_id = b THEN None ELSE rows[i].booking_id
<1>1. DOMAIN rows = 1 .. Len(rows) /\ Len(rows) \in Nat
  BY LenProperties
<1>2. DOMAIN DetachRows(rows, b) = DOMAIN rows
  BY DEF DetachRows
<1>3. ASSUME NEW i \in DOMAIN rows
      PROVE  LET r == DetachRows(rows, b)[i] IN
             /\ r.type = rows[i].type /\ r.amount = rows[i].amount
             /\ r.balance_after = rows[i].balance_after
             /\ r.booking_id = IF rows[i].booking_id = b THEN None ELSE rows[i].booking_id
  <2>1. rows[i] \in Txn
    BY <1>1, ElementOfSeq
  <2>2. DetachRows(rows, b)[i] = IF rows[i].booking_id = b
                                THEN [rows[i] EXCEPT !.booking_id = None] ELSE rows[i]
    BY DEF DetachRows
  <2> QED BY <2>1, <2>2 DEF Txn
<1> QED BY <1>2, <1>3

LEMMA ListsDetached ==
    ASSUME NEW rows \in Seq(Txn), NEW b, NEW c \in Bookings, c # b, NEW owed, Lists(rows, c, owed)
    PROVE  Lists(DetachRows(rows, b), c, owed)
<1> DEFINE out == DetachRows(rows, b)
<1>1. PICK at \in [DOMAIN owed -> DOMAIN rows] :
         /\ \A i, j \in DOMAIN owed : i < j => at[i] < at[j]
         /\ \A k \in DOMAIN rows :
               rows[k].booking_id = c <=> \E i \in DOMAIN owed : at[i] = k
         /\ \A i \in DOMAIN owed : /\ rows[at[i]].type = owed[i].type
                                   /\ rows[at[i]].amount = owed[i].amount
  BY DEF Lists
<1>2. /\ DOMAIN out = DOMAIN rows
      /\ \A i \in DOMAIN rows : /\ out[i].type = rows[i].type
                                /\ out[i].amount = rows[i].amount
                                /\ out[i].booking_id = c <=> rows[i].booking_id = c
  BY DetachRowsAt, NoneIsNothing
<1> HIDE DEF out
<1>3. Lists(out, c, owed)
  <2>1. at \in [DOMAIN owed -> DOMAIN out]
    BY <1>2
  <2>2. \A k \in DOMAIN out : out[k].booking_id = c <=> \E i \in DOMAIN owed : at[i] = k
    BY <1>1, <1>2
  <2>3. \A i \in DOMAIN owed : out[at[i]].type = owed[i].type /\ out[at[i]].amount = owed[i].amount
    BY <1>1, <1>2
  <2> QED BY <1>1, <2>1, <2>2, <2>3 DEF Lists
<1> QED BY <1>3 DEF out

\* Staging one row more.
LEMMA MatchesAppend ==
    ASSUME NEW rows \in Seq(Txn), NEW owed \in Seq(Entry), Matches(rows, owed),
           NEW r \in Txn, NEW e \in Entry, r.type = e.type, r.amount = e.amount
    PROVE  Matches(Append(rows, r), Append(owed, e))
<1>1. /\ DOMAIN rows = 1 .. Len(rows) /\ DOMAIN owed = 1 .. Len(owed)
      /\ Len(rows) \in Nat /\ Len(owed) \in Nat
  BY LenProperties
<1>2. Len(rows) = Len(owed)
  <2> DEFINE m == Len(rows)
             n == Len(owed)
  <2>1. m \in Nat /\ n \in Nat /\ 1 .. m = 1 .. n
    BY <1>1 DEF Matches
  <2> HIDE DEF m, n
  <2>2. (m \in 1 .. m <=> m # 0) /\ (n \in 1 .. n <=> n # 0)
    BY <2>1
  <2>3. m <= n /\ n <= m
    BY <2>1, <2>2
  <2> QED BY <2>1, <2>3 DEF m, n
<1>3. /\ Append(rows, r) \in Seq(Txn) /\ Len(Append(rows, r)) = Len(rows) + 1
      /\ \A i \in 1 .. Len(rows) : Append(rows, r)[i] = rows[i]
      /\ Append(rows, r)[Len(rows) + 1] = r
  BY AppendProperties
<1>4. /\ Append(owed, e) \in Seq(Entry) /\ Len(Append(owed, e)) = Len(owed) + 1
      /\ \A i \in 1 .. Len(owed) : Append(owed, e)[i] = owed[i]
      /\ Append(owed, e)[Len(owed) + 1] = e
  BY AppendProperties
<1>5. /\ DOMAIN Append(rows, r) = 1 .. (Len(rows) + 1)
      /\ DOMAIN Append(owed, e) = 1 .. (Len(rows) + 1)
  BY <1>2, <1>3, <1>4, LenProperties
<1>6. ASSUME NEW i \in 1 .. (Len(rows) + 1)
      PROVE  /\ Append(rows, r)[i].type = Append(owed, e)[i].type
             /\ Append(rows, r)[i].amount = Append(owed, e)[i].amount
  <2>1. CASE i = Len(rows) + 1
    BY <1>2, <1>3, <1>4, <2>1
  <2>2. CASE i # Len(rows) + 1
    <3>1. i \in 1 .. Len(rows)
      BY <1>1, <2>2
    <3>2. Append(rows, r)[i] = rows[i] /\ Append(owed, e)[i] = owed[i]
      BY <1>2, <1>3, <1>4, <3>1
    <3>3. rows[i].type = owed[i].type /\ rows[i].amount = owed[i].amount
      BY <1>1, <1>2, <3>1 DEF Matches
    <3> QED BY <3>2, <3>3
  <2> QED BY <2>1, <2>2
<1> QED BY <1>5, <1>6 DEF Matches


-----------------------------------------------------------------------------
(* The settlement: requests up to their commit *)

\* A session that changes no row and inserts none.
LEMMA QuietBilled ==
    ASSUME NEW s, s.newBk = s.bk, s.txns = <<>> PROVE Billed(s) /\ Billed(s)'
<1>1. ~Completes(s) /\ DOMAIN s.txns = {}
  BY DEF Completes
<1> QED BY <1>1 DEF Billed, SameBill, Completes

\* A session that changes the row it read, but not what it is billed for.
LEMMA RowBilled ==
    ASSUME NEW s, s.bk = bookings[s.booking], s.txns = <<>>,
           s.newBk.payment_method = s.bk.payment_method,
           s.newBk.completed_at = s.bk.completed_at,
           s.bk.completed_at => SameBill(s.bk, s.newBk)
    PROVE  Billed(s)
<1>1. ~Completes(s) /\ DOMAIN s.txns = {}
  BY DEF Completes
<1>2. SameBill(s.bk, bookings[s.booking])
  BY DEF SameBill
<1> QED BY <1>1, <1>2 DEF Billed

\* A step of the only slot that leaves the database alone.
LEMMA StageSettles ==
    ASSUME OneByOne, Inv, SettleInv, NEW p \in Procs, NEW s, Billed(s), Stage(p, s)
    PROVE  SettleInv'
<1>1. /\ UNCHANGED <<table, bookings, drivers, ledger, rejections>>
      /\ session' = [session EXCEPT ![p] = s]
  BY DEF Stage, db
<1>2. Billed(s)'
  BY <1>1 DEF Billed, WalletBalance
<1>3. ASSUME NEW q \in Procs PROVE Billed(session[q])'
  <2>1. session'[q] = s
    BY <1>1 DEF OneByOne, Inv, TypeOK
  <2> QED BY <1>2, <2>1
<1>4. SettledExactly' /\ (CashOnly => RunningBalance')
  BY <1>1 DEF SettleInv, SettledExactly, RunningBalance, Exists
<1> QED BY <1>1, <1>3, <1>4 DEF SettleInv

LEMMA RestSettles ==
    ASSUME OneByOne, Inv, SettleInv, NEW p \in Procs, Stage(p, Idle) PROVE SettleInv'
<1>1. Idle.newBk = Idle.bk /\ Idle.txns = <<>>
  BY DEF Idle
<1> QED BY <1>1, QuietBilled, StageSettles

LEMMA QuietDriverStepsSettle ==
    ASSUME OneByOne, Inv, SerialInv, SettleInv, NEW p \in Procs,
           \/ \E d \in Drivers : GetDriver(p, d)
           \/ GoOnline(p)
           \/ GoOffline(p)
           \/ \E b \in Bookings : RejectRide(p, b)
    PROVE  SettleInv'
<1>1. ASSUME NEW d \in Drivers, GetDriver(p, d) PROVE SettleInv'
  <2> DEFINE s == [Idle EXCEPT !.phase = "gated", !.driver = d,
                               !.drv = drivers[d], !.newDrv = drivers[d]]
  <2>1. s.newBk = s.bk /\ s.txns = <<>>
    BY DEF Idle
  <2>2. Stage(p, s)
    BY <1>1 DEF GetDriver
  <2> HIDE DEF s
  <2> QED BY <2>1, <2>2, QuietBilled, StageSettles
<1>2. ASSUME NEW newStatus, Gated(p), StageDriver(p, newStatus) PROVE SettleInv'
  <2> DEFINE s == [session[p] EXCEPT !.phase = "flush", !.newDrv.status = newStatus]
  <2>1. s.newBk = s.bk /\ s.txns = <<>>
    BY <1>2, GatedSession DEF Session
  <2>2. Stage(p, s)
    BY <1>2 DEF StageDriver
  <2> HIDE DEF s
  <2> QED BY <2>1, <2>2, QuietBilled, StageSettles
<1>3. ASSUME NEW b \in Bookings, RejectRide(p, b) PROVE SettleInv'
  <2> DEFINE s == [session[p] EXCEPT !.phase = "flush", !.booking = b, !.bk = bookings[b],
                                     !.newBk = bookings[b], !.rejection = TRUE]
  <2>1. s.newBk = s.bk /\ s.txns = <<>>
    BY <1>3, GatedSession DEF RejectRide, Session
  <2>2. Stage(p, s)
    BY <1>3 DEF RejectRide
  <2> HIDE DEF s
  <2> QED BY <2>1, <2>2, QuietBilled, StageSettles
<1> QED BY <1>1, <1>2, <1>3 DEF GoOnline, GoOffline

\* A driver endpoint that stages a new row, with what it is billed for.
LEMMA StageRideSettles ==
    ASSUME OneByOne, Inv, SerialInv, SettleInv, NEW p \in Procs, NEW b \in Bookings, NEW new,
           NEW newStatus, Gated(p), bookings[b].status \notin TerminalStates,
           new.payment_method = bookings[b].payment_method,
           new.completed_at = bookings[b].completed_at,
           StageRide(p, b, new, newStatus)
    PROVE  SettleInv'
<1> DEFINE s == [session[p] EXCEPT !.phase = "flush", !.booking = b, !.bk = bookings[b],
                                   !.newBk = new, !.newDrv.status = newStatus]
<1>1. /\ s.booking = b /\ s.bk = bookings[b] /\ s.newBk = new /\ s.txns = <<>>
  BY GatedSession DEF Session
<1>2. ~bookings[b].completed_at
  BY TheRow DEF RowOK
<1>3. Stage(p, s)
  BY DEF StageRide
<1> HIDE DEF s
<1>4. Billed(s)
  BY <1>1, <1>2, RowBilled
<1> QED BY <1>3, <1>4, StageSettles

LEMMA RideStepsSettle ==
    ASSUME OneByOne, Inv, SerialInv, SettleInv, NEW p \in Procs, NEW b \in Bookings,
           \/ AcceptRide(p, b) \/ ArriveAtPickup(p, b) \/ StartRide(p, b)
           \/ VerifyWrongOtp(p, b) \/ VerifyRightOtp(p, b)
    PROVE  SettleInv'
<1> PICK bk : bk = bookings[b]
  OBVIOUS
<1>1. bk \in Booking
  BY TheRow
<1>2. Gated(p) /\ bk.status \notin TerminalStates
  BY DEF AcceptRide, Acceptable, ArriveAtPickup, StartRide, VerifyWrongOtp, VerifyRightOtp,
         MayVerify, Mine, TerminalStates
<1>3. CASE AcceptRide(p, b)
  <2> DEFINE new == [bk EXCEPT !.driver_id = session[p].driver, !.status = "ACCEPTED"]
  <2>1. new.payment_method = bk.payment_method /\ new.completed_at = bk.completed_at
    BY <1>1 DEF Booking
  <2>2. StageRide(p, b, new, "on_trip")
    BY <1>3 DEF AcceptRide
  <2> HIDE DEF new
  <2> QED BY <1>2, <2>1, <2>2, StageRideSettles
<1>4. CASE ArriveAtPickup(p, b)
  <2> DEFINE new == [bk EXCEPT !.arrived_at = "in_grace"]
  <2>1. new.payment_method = bk.payment_method /\ new.completed_at = bk.completed_at
    BY <1>1 DEF Booking
  <2>2. StageRide(p, b, new, session[p].drv.status)
    BY <1>4 DEF ArriveAtPickup
  <2> HIDE DEF new
  <2> QED BY <1>2, <2>1, <2>2, StageRideSettles
<1>5. CASE StartRide(p, b)
  <2> DEFINE new == ReleaseCode(bk)
  <2>1. new.payment_method = bk.payment_method /\ new.completed_at = bk.completed_at
    BY <1>1 DEF Booking, ReleaseCode
  <2>2. StageRide(p, b, new, session[p].drv.status)
    BY <1>5 DEF StartRide
  <2> HIDE DEF new
  <2> QED BY <1>2, <2>1, <2>2, StageRideSettles
<1>6. CASE VerifyWrongOtp(p, b)
  <2> DEFINE new == SpendAttempt(bk)
  <2>1. new.payment_method = bk.payment_method /\ new.completed_at = bk.completed_at
    <3> DEFINE left == bk.ride_otp_attempts_remaining - 1
               spent == [bk EXCEPT !.ride_otp_attempts_remaining = left]
               cleared == [spent EXCEPT !.ride_otp_expires_at = "null"]
    <3>1. /\ spent.payment_method = bk.payment_method /\ spent.completed_at = bk.completed_at
          /\ cleared.payment_method = bk.payment_method
          /\ cleared.completed_at = bk.completed_at
      BY <1>1 DEF Booking
    <3>2. new = IF left <= 0 THEN cleared ELSE spent
      BY DEF SpendAttempt
    <3> HIDE DEF left, spent, cleared, new
    <3> QED BY <3>1, <3>2
  <2>2. StageRide(p, b, new, session[p].drv.status)
    BY <1>6 DEF VerifyWrongOtp
  <2> HIDE DEF new
  <2> QED BY <1>2, <2>1, <2>2, StageRideSettles
<1>7. CASE VerifyRightOtp(p, b)
  <2> DEFINE new == Boarded(bk)
  <2>1. new.payment_method = bk.payment_method /\ new.completed_at = bk.completed_at
    BY <1>1 DEF Booking, Boarded, ClearCode
  <2>2. StageRide(p, b, new, session[p].drv.status)
    BY <1>7 DEF VerifyRightOtp
  <2> HIDE DEF new
  <2> QED BY <1>2, <2>1, <2>2, StageRideSettles
<1> QED BY <1>3, <1>4, <1>5, <1>6, <1>7

LEMMA CancelRideSettles ==
    ASSUME OneByOne, Inv, SerialInv, SettleInv, NEW p \in Procs, NEW b \in Bookings,
           CancelRide(p, b)
    PROVE  SettleInv'
<1> DEFINE bk == bookings[b]
           new == [ClearCode(bk) EXCEPT !.status = "CANCELLED"]
           s == [session[p] EXCEPT !.phase = "flush", !.booking = b, !.bk = bk, !.newBk = new,
                                   !.newDrv.status = "online", !.rejection = TRUE]
<1>1. bk \in Booking /\ Gated(p)
  BY TheRow DEF CancelRide, Mine
<1>2. SameBill(bk, new)
  BY <1>1 DEF SameBill, ClearCode, Booking
<1> HIDE DEF new
<1>3. s.booking = b /\ s.bk = bk /\ s.newBk = new /\ s.txns = <<>>
  BY <1>1, GatedSession DEF Session
<1>4. Stage(p, s)
  BY DEF CancelRide, new
<1> HIDE DEF s
<1>5. Billed(s)
  BY <1>2, <1>3, RowBilled DEF SameBill
<1> QED BY <1>4, <1>5, StageSettles

LEMMA UpdateBookingStatusSettles ==
    ASSUME OneByOne, Inv, SerialInv, SettleInv, NEW p \in Procs, NEW b \in Bookings,
           NEW newStatus \in PatchStatuses, UpdateBookingStatus(p, b, newStatus)
    PROVE  SettleInv'
<1> DEFINE bk == bookings[b]
           drv == BookingDriver(bk)
           set == [bk EXCEPT !.status = newStatus]
           newBk == IF newStatus \in TerminalStates THEN ClearCode(set) ELSE set
           newDrv == [drv EXCEPT !.status = FreedStatus(bk, newStatus)]
           s == [Idle EXCEPT !.phase = "flush", !.booking = b, !.driver = bk.driver_id,
                             !.drv = drv, !.newDrv = newDrv, !.bk = bk, !.newBk = newBk]
<1>1. bk \in Booking
  BY TheRow
<1>2. SameBill(bk, newBk)
  BY <1>1 DEF SameBill, ClearCode, Booking
<1> HIDE DEF newBk, drv, newDrv
<1>3. s.booking = b /\ s.bk = bk /\ s.newBk = newBk /\ s.txns = <<>>
  BY DEF Idle
<1>4. Stage(p, s)
  BY DEF UpdateBookingStatus, drv, newDrv, newBk
<1> HIDE DEF s
<1>5. Billed(s)
  BY <1>2, <1>3, RowBilled DEF SameBill
<1> QED BY <1>4, <1>5, StageSettles

LEMMA DeleteBookingSettles ==
    ASSUME OneByOne, Inv, SettleInv, NEW p \in Procs, NEW b \in Bookings, DeleteBooking(p, b)
    PROVE  SettleInv'
<1> DEFINE drv == BookingDriver(bookings[b])
           freed == [drv EXCEPT !.status = "online"]
           s == [Idle EXCEPT !.phase = "flush", !.booking = b, !.driver = bookings[b].driver_id,
                             !.drv = drv, !.newDrv = freed, !.after = "delete"]
           t == [Idle EXCEPT !.phase = "delete", !.booking = b]
<1> HIDE DEF drv, freed
<1>1. s.newBk = s.bk /\ s.txns = <<>> /\ t.newBk = t.bk /\ t.txns = <<>>
  BY DEF Idle
<1>2. Stage(p, s) \/ Stage(p, t)
  BY DEF DeleteBooking, drv, freed
<1> HIDE DEF s, t
<1> QED BY <1>1, <1>2, QuietBilled, StageSettles

LEMMA ProfileStepSettles ==
    ASSUME OneByOne, Inv, SettleInv, NEW p \in Procs, ProfileStep(p)
    PROVE  SettleInv'
<1>1. PICK d \in Drivers : \E new : StageProfile(p, d, new)
  BY DEF ProfileStep, UploadDocuments, ApproveDocuments, RejectDocuments, UpdateDriverStatus
<1> PICK new : StageProfile(p, d, new)
  BY <1>1
<1> DEFINE s == [Idle EXCEPT !.phase = "flush", !.driver = d, !.drv = drivers[d], !.newDrv = new]
<1>2. s.newBk = s.bk /\ s.txns = <<>>
  BY DEF Idle
<1>3. Stage(p, s)
  BY <1>1 DEF StageProfile
<1> HIDE DEF s
<1> QED BY <1>2, <1>3, QuietBilled, StageSettles

\* complete_ride has changed the row it read, and owes the settlement.
LEMMA CompleteRideSettles ==
    ASSUME OneByOne, Inv, SerialInv, SettleInv, NEW p \in Procs, NEW b \in Bookings,
           NEW finalFare \in FinalFares, CompleteRide(p, b, finalFare)
    PROVE  SettleInv'
<1> DEFINE bk == bookings[b]
           base == IF finalFare # None THEN finalFare ELSE bk.fare
           total == base + bk.wait_charge_amount
           clear == ClearCode(bk)
           new == [clear EXCEPT !.fare = total, !.status = "COMPLETED", !.completed_at = TRUE]
           next == IF bk.payment_method # "cash" THEN "credit" ELSE "commission"
           s == [session[p] EXCEPT !.phase = next, !.booking = b, !.bk = bk, !.newBk = new,
                                   !.newDrv.status = "online"]
<1>1. /\ bk \in Booking /\ Gated(p) /\ bk.driver_id = session[p].driver
      /\ ~bk.completed_at
  BY TheRow DEF CompleteRide, Mine, Completable, RowOK
<1>2. /\ clear \in Booking /\ clear.driver_id = bk.driver_id
      /\ clear.payment_method = bk.payment_method
  BY <1>1 DEF ClearCode, Booking
<1> HIDE DEF total, clear
<1>3. /\ new.driver_id = bk.driver_id /\ new.payment_method = bk.payment_method
      /\ new.completed_at
  BY <1>2 DEF Booking
<1>4. /\ next \in {"credit", "commission"}
      /\ next = "credit" <=> bk.payment_method # "cash"
  OBVIOUS
<1>5. session[p].txns = <<>> /\ session[p] \in Session
  BY <1>1, GatedSession
<1> HIDE DEF new, next
<1>6. /\ s.phase = next /\ s.booking = b /\ s.bk = bk /\ s.newBk = new
      /\ s.driver = session[p].driver /\ s.txns = <<>>
  BY <1>5 DEF Session
<1>7. Stage(p, s)
  BY DEF CompleteRide, new, next, clear, total
<1> HIDE DEF s
<1>8. next = "commission" => Matches(s.txns, Credit(new))
  BY <1>3, <1>4, <1>6 DEF Matches, Credit
<1>9. SameBill(s.bk, bookings[s.booking])
  BY <1>6 DEF SameBill
<1>10. DOMAIN s.txns = {}
  BY <1>6
<1>11. Billed(s)
  BY <1>1, <1>3, <1>4, <1>6, <1>8, <1>9, <1>10 DEF Billed, Completes
<1> QED BY <1>7, <1>11, StageSettles

\* While complete_ride writes the wallet it completes a booking that was not
\* completed before.
LEMMA WalletCompletes ==
    ASSUME Inv, SerialInv, NEW p \in Procs,
           session[p].phase \in {"credit", "commission"} \/ session[p].txns # <<>>
    PROVE  /\ Completes(session[p])
           /\ session[p].newBk # session[p].bk
           /\ session[p].driver \in Drivers /\ session[p].booking \in Bookings
<1>1. Current(session[p]) /\ Shape(session[p])
  BY DEF Inv, SerialInv, SessionOK
<1> PICK s : s = session[p]
  OBVIOUS
<1>2. /\ s.bk.status \in UnderWay /\ s.newBk.status = "COMPLETED" /\ s.newBk.completed_at
      /\ s.driver \in Drivers /\ s.booking \in Bookings
  BY <1>1 DEF Current, Shape
<1>3. s.newBk # s.bk
  BY <1>2 DEF UnderWay
<1>4. Aged(s.bk, bookings[s.booking])
  BY <1>1, <1>3 DEF Current
<1>5. RowOK(bookings[s.booking])
  BY <1>2 DEF SerialInv
<1>6. ~s.bk.completed_at
  BY <1>2, <1>4, <1>5 DEF Aged, RowOK, UnderWay, TerminalStates
<1> QED BY <1>2, <1>3, <1>6 DEF Completes

\* A wallet step that leaves the staged rows as owed so far.
LEMMA WalletStepSettles ==
    ASSUME OneByOne, Inv, SerialInv, SettleInv, NEW p \in Procs,
           session[p].phase \in {"credit", "commission"},
           NEW next \in {"commission", "flush"}, NEW rows,
           next = "commission" => Matches(rows, Credit(session[p].newBk)),
           next = "flush" => Matches(rows, Settlement(session[p].newBk)),
           \A i \in DOMAIN rows :
              rows[i].balance_after = WalletBalance(session[p].driver) + rows[i].amount,
           Stage(p, [session[p] EXCEPT !.phase = next, !.txns = rows])
    PROVE  SettleInv'
<1> DEFINE s == [session[p] EXCEPT !.phase = next, !.txns = rows]
<1>1. session[p] \in Session /\ Billed(session[p]) /\ Completes(session[p])
  BY WalletCompletes DEF Inv, TypeOK, SettleInv
<1>2. /\ s.phase = next /\ s.txns = rows /\ s.driver = session[p].driver
      /\ s.booking = session[p].booking /\ s.bk = session[p].bk /\ s.newBk = session[p].newBk
  BY <1>1 DEF Session
<1> HIDE DEF s
<1>3. Billed(s)
  BY <1>1, <1>2 DEF Billed, Completes
<1> QED BY <1>3, StageSettles DEF s

\* The row that _add_wallet_transaction appends.
LEMMA AddedRow ==
    ASSUME Inv, NEW s \in Session, SessionOK(s), s.phase \in {"credit", "commission"},
           NEW type \in {"RIDE_CREDIT", "ORDER_DEDUCTION"}, NEW amount \in Int
    PROVE  \E r \in Txn : /\ AddWalletTransaction(s, type, amount) = Append(s.txns, r)
                          /\ r.type = type /\ r.amount = amount
                          /\ r.balance_after = WalletBalance(s.driver) + amount
<1> DEFINE r == [type |-> type, amount |-> amount,
                 balance_after |-> WalletBalance(s.driver) + amount, booking_id |-> s.booking]
<1>1. AddWalletTransaction(s, type, amount) = Append(s.txns, r)
  BY DEF AddWalletTransaction
<1>2. /\ r.type = type /\ r.amount = amount
      /\ r.balance_after = WalletBalance(s.driver) + amount
  OBVIOUS
<1>3. s.txns \in Seq(Txn) /\ Len(s.txns) \in Nat
  BY LenProperties DEF Session
<1> HIDE DEF r
<1>4. Append(s.txns, r)[Len(s.txns) + 1] = r /\ Len(Append(s.txns, r)) = Len(s.txns) + 1
  BY <1>3
<1>5. Append(s.txns, r) \in Seq(Txn)
  BY <1>1, AddWalletTransactionKeeps
<1>6. r \in Txn
  BY <1>3, <1>4, <1>5, ElementOfSeq
<1> QED BY <1>1, <1>2, <1>6

\* Staging one row more on top of the driver's last committed balance.
LEMMA AppendBalance ==
    ASSUME NEW rows \in Seq(Txn), NEW r \in Txn, NEW base,
           \A i \in DOMAIN rows : rows[i].balance_after = base + rows[i].amount,
           r.balance_after = base + r.amount
    PROVE  \A i \in DOMAIN Append(rows, r) :
              Append(rows, r)[i].balance_after = base + Append(rows, r)[i].amount
<1>1. DOMAIN rows = 1 .. Len(rows) /\ Len(rows) \in Nat
  BY LenProperties
<1>2. /\ Append(rows, r) \in Seq(Txn) /\ Len(Append(rows, r)) = Len(rows) + 1
      /\ \A i \in 1 .. Len(rows) : Append(rows, r)[i] = rows[i]
      /\ Append(rows, r)[Len(rows) + 1] = r
  BY AppendProperties
<1>3. DOMAIN Append(rows, r) = 1 .. (Len(rows) + 1)
  BY <1>2, LenProperties
<1> QED BY <1>1, <1>2, <1>3

LEMMA AddRideCreditSettles ==
    ASSUME OneByOne, Inv, SerialInv, SettleInv, NEW p \in Procs, AddRideCredit(p)
    PROVE  SettleInv'
<1> PICK s : s = session[p]
  OBVIOUS
<1>1. s \in Session /\ SessionOK(s) /\ s.phase = "credit" /\ Billed(s) /\ Completes(s)
  BY WalletCompletes DEF Inv, TypeOK, AddRideCredit, SettleInv
<1>2. s.newBk.fare \in Int
  BY <1>1 DEF Session, Booking
<1>3. PICK r \in Txn : /\ AddWalletTransaction(s, "RIDE_CREDIT", s.newBk.fare) = Append(s.txns, r)
                       /\ r.type = "RIDE_CREDIT" /\ r.amount = s.newBk.fare
                       /\ r.balance_after = WalletBalance(s.driver) + s.newBk.fare
  BY <1>1, <1>2, AddedRow
<1> DEFINE e == [type |-> "RIDE_CREDIT", amount |-> s.newBk.fare]
<1>4. e \in Entry /\ e.type = "RIDE_CREDIT" /\ e.amount = s.newBk.fare
  BY <1>2 DEF Entry
<1>5. s.txns = <<>> /\ s.newBk.payment_method # "cash"
  BY <1>1 DEF Billed
<1>6. Credit(s.newBk) = <<e>>
  BY <1>5 DEF Credit
<1> HIDE DEF e
<1>7. Matches(Append(<<>>, r), Append(<<>>, e))
  <2>1. Matches(<<>>, <<>>) /\ <<>> \in Seq(Txn) /\ <<>> \in Seq(Entry)
    BY EmptySeq DEF Matches
  <2> QED BY <1>3, <1>4, <2>1, MatchesAppend
<1>8. Append(<<>>, e) = <<e>>
  OBVIOUS
<1>9. \A i \in DOMAIN Append(<<>>, r) :
         Append(<<>>, r)[i].balance_after = WalletBalance(s.driver) + Append(<<>>, r)[i].amount
  <2>1. <<>> \in Seq(Txn) /\ DOMAIN <<>> = {}
    BY EmptySeq
  <2>2. r.balance_after = WalletBalance(s.driver) + r.amount
    BY <1>3
  <2> HIDE DEF WalletBalance
  <2> QED BY <2>1, <2>2, AppendBalance
<1>10. Stage(p, [s EXCEPT !.phase = "commission", !.txns = Append(<<>>, r)])
  BY <1>3, <1>5 DEF AddRideCredit
<1> QED BY <1>1, <1>6, <1>7, <1>8, <1>9, <1>10, WalletStepSettles

LEMMA AddCommissionSettles ==
    ASSUME OneByOne, Inv, SerialInv, SettleInv, NEW p \in Procs, AddCommission(p)
    PROVE  SettleInv'
<1> PICK s : s = session[p]
  OBVIOUS
<1> PICK commission : commission = Commission(s.newBk.fare)
  OBVIOUS
<1>1. s \in Session /\ SessionOK(s) /\ s.phase = "commission" /\ Billed(s) /\ Completes(s)
  BY WalletCompletes DEF Inv, TypeOK, AddCommission, SettleInv
<1>2. commission \in Int /\ s.newBk.fare \in Int
  BY <1>1, CommissionIsInt DEF Session, Booking
<1>3. -commission \in Int
  BY <1>2
<1>4. /\ Matches(s.txns, Credit(s.newBk)) /\ s.txns \in Seq(Txn)
      /\ \A i \in DOMAIN s.txns :
            s.txns[i].balance_after = WalletBalance(s.driver) + s.txns[i].amount
  BY <1>1 DEF Billed, Session
<1>5. CASE commission > 0
  <2>1. PICK r \in Txn :
           /\ AddWalletTransaction(s, "ORDER_DEDUCTION", -commission) = Append(s.txns, r)
           /\ r.type = "ORDER_DEDUCTION" /\ r.amount = -commission
           /\ r.balance_after = WalletBalance(s.driver) + (-commission)
    BY <1>1, <1>3, AddedRow
  <2> DEFINE e == [type |-> "ORDER_DEDUCTION", amount |-> -commission]
  <2>2. e \in Entry /\ e.type = "ORDER_DEDUCTION" /\ e.amount = -commission
    BY <1>3 DEF Entry
  <2>3. Settlement(s.newBk) = Append(Credit(s.newBk), e)
    BY <1>5 DEF Settlement, Credit
  <2> HIDE DEF e
  <2>4. Credit(s.newBk) \in Seq(Entry)
    <3>1. CASE s.newBk.payment_method = "cash"
      BY <3>1, EmptySeq DEF Credit
    <3>2. CASE s.newBk.payment_method # "cash"
      <4> DEFINE c == [type |-> "RIDE_CREDIT", amount |-> s.newBk.fare]
      <4>1. c \in Entry
        BY <1>2 DEF Entry
      <4>2. Credit(s.newBk) = <<c>>
        BY <3>2 DEF Credit
      <4> HIDE DEF c
      <4> QED BY <4>1, <4>2
    <3> QED BY <3>1, <3>2
  <2>5. Matches(Append(s.txns, r), Settlement(s.newBk))
    BY <1>4, <2>1, <2>2, <2>3, <2>4, MatchesAppend
  <2>6. \A i \in DOMAIN Append(s.txns, r) : Append(s.txns, r)[i].balance_after =
                                             WalletBalance(s.driver) + Append(s.txns, r)[i].amount
    <3>1. r.balance_after = WalletBalance(s.driver) + r.amount
      BY <2>1
    <3> QED BY <1>4, <3>1, AppendBalance
  <2>7. Stage(p, [s EXCEPT !.phase = "flush", !.txns = Append(s.txns, r)])
    BY <1>5, <2>1 DEF AddCommission
  <2> QED BY <1>1, <2>5, <2>6, <2>7, WalletStepSettles
<1>6. CASE ~(commission > 0)
  <2>1. Settlement(s.newBk) = Credit(s.newBk)
    BY <1>6 DEF Settlement, Credit
  <2>2. Stage(p, [s EXCEPT !.phase = "flush", !.txns = s.txns])
    BY <1>6 DEF AddCommission
  <2> QED BY <1>1, <1>4, <2>1, <2>2, WalletStepSettles
<1> QED BY <1>5, <1>6

-----------------------------------------------------------------------------
(* The settlement: steps that write the rows *)

\* What booking bk owes in the ledger of driver d.
Owed(bk, d) == IF bk.completed_at /\ bk.driver_id = d THEN Settlement(bk) ELSE <<>>

LEMMA OwedSame ==
    ASSUME NEW x, NEW y, SameBill(x, y), NEW d PROVE Owed(x, d) = Owed(y, d)
  BY DEF SameBill, Owed, Settlement

\* No ledger names a booking that was not completed.
LEMMA NamedIsCompleted ==
    ASSUME Inv, NEW b \in Bookings, ~bookings[b].completed_at, NEW d \in Drivers
    PROVE  ~Names(ledger[d], b)
  BY NoneIsNothing DEF Inv, LedgerHasRide, Names

LEMMA NamedIsCompletedAfter ==
    ASSUME Inv', NEW b \in Bookings, ~bookings'[b].completed_at, NEW d \in Drivers
    PROVE  ~Names(ledger'[d], b)
  BY NoneIsNothing DEF Inv, LedgerHasRide, Names

\* Where the ledgers stay, so does what they list, for a bill that stays.
LEMMA BillsStay ==
    ASSUME Inv', SettledExactly, UNCHANGED ledger,
           \A b \in Bookings : table'[b] = "row" =>
              \/ Exists(b) /\ SameBill(bookings[b], bookings'[b])
              \/ ~bookings'[b].completed_at
    PROVE  SettledExactly'
<1> SUFFICES ASSUME NEW b \in Bookings, NEW d \in Drivers, table'[b] = "row"
             PROVE  Lists(ledger'[d], b, Owed(bookings'[b], d))
  BY DEF SettledExactly, Exists, Owed, Settlement
<1>1. CASE ~bookings'[b].completed_at
  <2>1. Owed(bookings'[b], d) = <<>>
    BY <1>1 DEF Owed
  <2> QED BY <1>1, <2>1, NamedIsCompletedAfter, ListsNothing
<1>2. CASE Exists(b) /\ SameBill(bookings[b], bookings'[b])
  <2>1. Lists(ledger[d], b, Owed(bookings[b], d))
    BY <1>2 DEF SettledExactly, Owed
  <2> QED BY <1>2, <2>1, OwedSame
<1> QED BY <1>1, <1>2

\* A step that leaves the only slot with nothing to commit and the ledgers as
\* they are.
LEMMA RestingSettles ==
    ASSUME OneByOne, Inv', SettleInv, NEW p \in Procs, NEW s, session'[p] = s,
           s.newBk = s.bk, s.txns = <<>>, UNCHANGED ledger,
           \A b \in Bookings : table'[b] = "row" =>
              \/ Exists(b) /\ SameBill(bookings[b], bookings'[b])
              \/ ~bookings'[b].completed_at,
           CashOnly => \A b \in Bookings : bookings'[b].payment_method = "cash"
    PROVE  SettleInv'
<1>1. SettledExactly'
  BY BillsStay DEF SettleInv
<1>2. CashOnly => RunningBalance'
  BY DEF SettleInv, RunningBalance
<1>3. ASSUME NEW q \in Procs PROVE Billed(session[q])'
  <2>1. session'[q] = s
    BY DEF OneByOne
  <2>2. Billed(s)'
    BY QuietBilled
  <2> QED BY <2>1, <2>2
<1> QED BY <1>1, <1>2, <1>3 DEF SettleInv

LEMMA CreateBookingSettles ==
    ASSUME OneByOne, Inv, Inv', SerialInv, SettleInv, NEW p \in Procs, NEW b \in Bookings,
           NEW method \in PaymentMethods, CreateBooking(p, b, method)
    PROVE  SettleInv'
<1>1. /\ table' = [table EXCEPT ![b] = "row"]
      /\ bookings' = [bookings EXCEPT ![b] = NewBooking(method)]
      /\ UNCHANGED ledger
  BY DEF CreateBooking
<1>2. PICK s : s = Idle
  OBVIOUS
<1>3. session'[p] = s
  BY <1>2 DEF CreateBooking, Free, SerialInv, Current
<1>4. s.newBk = s.bk /\ s.txns = <<>>
  BY <1>2 DEF Idle
<1>5. ASSUME NEW c \in Bookings, table'[c] = "row"
      PROVE  \/ Exists(c) /\ SameBill(bookings[c], bookings'[c])
             \/ ~bookings'[c].completed_at
  BY <1>1, <1>5 DEF Inv, TypeOK, Exists, SameBill, NewBooking
<1>6. ASSUME CashOnly, NEW c \in Bookings PROVE bookings'[c].payment_method = "cash"
  BY <1>1, <1>6 DEF Inv, TypeOK, SettleInv, CashOnly, NewBooking
<1> QED BY <1>1, <1>3, <1>4, <1>5, <1>6, RestingSettles

LEMMA ExpiryBills ==
    ASSUME Inv, ExpireStalePendingBookings, NEW b \in Bookings
    PROVE  SameBill(bookings[b], bookings'[b])
<1>1. bookings[b] \in Booking
  BY DEF Inv, TypeOK
<1> QED BY <1>1 DEF ExpireStalePendingBookings, SameBill, Booking

LEMMA ExpirySettles ==
    ASSUME OneByOne, Inv, Inv', SettleInv, NEW p \in Procs, ExpireStalePendingBookings,
           session'[p] = Idle, UNCHANGED <<table, ledger>>
    PROVE  SettleInv'
<1>1. PICK s : s = Idle
  OBVIOUS
<1>2. s.newBk = s.bk /\ s.txns = <<>>
  BY <1>1 DEF Idle
<1>3. \A b \in Bookings : SameBill(bookings[b], bookings'[b])
  BY ExpiryBills
<1>4. CashOnly => \A b \in Bookings : bookings'[b].payment_method = "cash"
  BY <1>3 DEF SettleInv, SameBill
<1> QED BY <1>1, <1>2, <1>3, <1>4, RestingSettles DEF Exists

LEMMA TimeBills ==
    ASSUME Inv, TimePasses, NEW c \in Bookings
    PROVE  SameBill(bookings[c], bookings'[c])
<1>1. PICK b \in Bookings : RequestGoesStale(b) \/ CodeExpires(b) \/ GraceEnds(b)
  BY DEF TimePasses
<1>2. bookings[b] \in Booking /\ bookings \in [Bookings -> Booking]
  BY DEF Inv, TypeOK
<1>3. \E new : SameBill(bookings[b], new) /\ bookings' = [bookings EXCEPT ![b] = new]
  <2>1. CASE RequestGoesStale(b)
    <3>1. SameBill(bookings[b], [bookings[b] EXCEPT !.created_at = "stale"])
      BY <1>2 DEF SameBill, Booking
    <3> QED BY <2>1, <3>1 DEF RequestGoesStale
  <2>2. CASE CodeExpires(b)
    <3>1. SameBill(bookings[b], [bookings[b] EXCEPT !.ride_otp_expires_at = "expired"])
      BY <1>2 DEF SameBill, Booking
    <3> QED BY <2>2, <3>1 DEF CodeExpires
  <2>3. CASE GraceEnds(b)
    <3>1. SameBill(bookings[b], [bookings[b] EXCEPT !.arrived_at = "past_grace"])
      BY <1>2 DEF SameBill, Booking
    <3> QED BY <2>3, <3>1 DEF GraceEnds
  <2> QED BY <1>1, <2>1, <2>2, <2>3
<1> QED BY <1>2, <1>3 DEF SameBill

LEMMA TimeSettles ==
    ASSUME OneByOne, Inv, Inv', SerialInv, SettleInv, TimePasses PROVE SettleInv'
<1>1. UNCHANGED <<table, drivers, ledger, rejections, session>>
  BY TimeAges
<1>2. \A b \in Bookings : SameBill(bookings[b], bookings'[b])
  BY TimeBills
<1>3. SettledExactly'
  BY <1>1, <1>2, BillsStay DEF SettleInv, Exists
<1>4. CashOnly => RunningBalance' /\ \A b \in Bookings : bookings'[b].payment_method = "cash"
  BY <1>1, <1>2 DEF SettleInv, RunningBalance, SameBill
<1>5. ASSUME NEW p \in Procs PROVE Billed(session[p])'
  <2> PICK s : s = session[p]
    OBVIOUS
  <2>1. Billed(s) /\ Current(s) /\ session'[p] = s
    BY <1>1 DEF SettleInv, SerialInv
  <2>2. s.newBk # s.bk => s.booking \in Bookings
    BY <2>1 DEF Current
  <2>3. s.newBk # s.bk => SameBill(s.bk, bookings'[s.booking])
    BY <1>2, <2>1, <2>2 DEF Billed, SameBill
  <2>4. Billed(s)'
    BY <1>1, <2>1, <2>3 DEF Billed, WalletBalance
  <2> QED BY <2>1, <2>4
<1> QED BY <1>3, <1>4, <1>5 DEF SettleInv

LEMMA DeleteRowSettles ==
    ASSUME OneByOne, Inv, SettleInv, NEW p \in Procs, DeleteRow(p)
    PROVE  SettleInv'
<1> PICK b : b = session[p].booking
  OBVIOUS
<1>1. /\ b \in Bookings
      /\ table' = [table EXCEPT ![b] = "deleted"]
      /\ bookings' = [bookings EXCEPT ![b] = NoBooking]
      /\ ledger' = [d \in Drivers |-> DetachRows(ledger[d], b)]
      /\ session'[p] = Idle
  BY DEF DeleteRow, Inv, TypeOK, SessionOK, Shape
<1>2. \A d \in Drivers : ledger[d] \in Seq(Txn)
  BY DEF Inv, TypeOK
<1>3. SettledExactly'
  <2> SUFFICES ASSUME NEW c \in Bookings, NEW d \in Drivers, table'[c] = "row"
               PROVE  Lists(ledger'[d], c, Owed(bookings'[c], d))
    BY DEF SettledExactly, Exists, Owed, Settlement
  <2>1. c # b /\ table[c] = "row" /\ bookings'[c] = bookings[c]
    BY <1>1 DEF Inv, TypeOK
  <2>2. Lists(ledger[d], c, Owed(bookings[c], d))
    BY <2>1 DEF SettleInv, SettledExactly, Owed, Exists
  <2> QED BY <1>1, <1>2, <2>1, <2>2, ListsDetached
<1>4. CashOnly => \A c \in Bookings : bookings'[c].payment_method = "cash"
  BY <1>1 DEF SettleInv, Inv, TypeOK, NoBooking, NewBooking
<1>5. ASSUME CashOnly PROVE RunningBalance'
  <2> SUFFICES ASSUME NEW d \in Drivers, NEW i \in DOMAIN ledger'[d]
               PROVE  ledger'[d][i].balance_after =
                         (IF i = 1 THEN 0 ELSE ledger'[d][i - 1].balance_after)
                            + ledger'[d][i].amount
    BY DEF RunningBalance
  <2> PICK rows : rows = ledger[d]
    OBVIOUS
  <2> DEFINE out == DetachRows(rows, b)
  <2>1. /\ rows \in Seq(Txn) /\ DOMAIN out = DOMAIN rows /\ ledger'[d] = out
        /\ \A k \in DOMAIN rows : /\ out[k].balance_after = rows[k].balance_after
                                  /\ out[k].amount = rows[k].amount
    BY <1>1, <1>2, DetachRowsAt
  <2> HIDE DEF out
  <2>2. DOMAIN rows = 1 .. Len(rows) /\ Len(rows) \in Nat
    BY <2>1, LenProperties
  <2>3. i \in DOMAIN rows /\ (i # 1 => i - 1 \in DOMAIN rows)
    BY <2>1, <2>2
  <2>4. rows[i].balance_after =
           (IF i = 1 THEN 0 ELSE rows[i - 1].balance_after) + rows[i].amount
    BY <1>5, <2>3 DEF SettleInv, RunningBalance
  <2> QED BY <2>1, <2>3, <2>4
<1>6. ASSUME NEW q \in Procs PROVE Billed(session[q])'
  <2>1. PICK s : s = Idle
    OBVIOUS
  <2>2. s.newBk = s.bk /\ s.txns = <<>>
    BY <2>1 DEF Idle
  <2>3. Billed(s)' /\ session'[q] = s
    BY <1>1, <2>1, <2>2, QuietBilled DEF OneByOne
  <2> QED BY <2>3
<1> QED BY <1>3, <1>4, <1>5, <1>6 DEF SettleInv

-----------------------------------------------------------------------------
(* The settlement: commits *)

\* A commit over a row whose bill is the one that was read.
LEMMA FlushBill ==
    ASSUME NEW row \in Booking, NEW bk \in Booking, NEW new \in Booking
    PROVE  /\ SameBill(bk, row) => SameBill(new, Flush(row, bk, new))
           /\ new.payment_method = bk.payment_method =>
                 Flush(row, bk, new).payment_method = row.payment_method
<1> DEFINE out == Flush(row, bk, new)
<1>1. /\ out.fare = IF new.fare = bk.fare THEN row.fare ELSE new.fare
      /\ out.payment_method = IF new.payment_method = bk.payment_method
                              THEN row.payment_method ELSE new.payment_method
      /\ out.completed_at = IF new.completed_at = bk.completed_at
                            THEN row.completed_at ELSE new.completed_at
      /\ out.driver_id = IF new.driver_id = bk.driver_id THEN row.driver_id ELSE new.driver_id
  BY DEF Booking, Flush
<1> HIDE DEF out
<1>2. SameBill(bk, row) => SameBill(new, out)
  BY <1>1 DEF SameBill
<1>3. new.payment_method = bk.payment_method => out.payment_method = row.payment_method
  BY <1>1
<1> QED BY <1>2, <1>3 DEF out

\* What a commit does to the bills.
LEMMA CommitBills ==
    ASSUME Inv, SerialInv, SettleInv, NEW p \in Procs, Commit(p), NEW b \in Bookings
    PROVE  /\ bookings'[b].payment_method = bookings[b].payment_method
           /\ b # session[p].booking => bookings'[b] = bookings[b]
           /\ b = session[p].booking =>
                 IF Completes(session[p])
                 THEN ~bookings[b].completed_at /\ SameBill(session[p].newBk, bookings'[b])
                 ELSE \/ SameBill(bookings[b], bookings'[b])
                      \/ ~bookings'[b].completed_at
<1> PICK s : s = session[p]
  OBVIOUS
<1>1. s \in Session /\ Billed(s) /\ bookings[b] \in Booking
  BY DEF Inv, TypeOK, SettleInv
<1>2. s.bk \in Booking /\ s.newBk \in Booking
  BY <1>1 DEF Session
<1>3. bookings'[b] = IF b = s.booking THEN Flush(bookings[b], s.bk, s.newBk) ELSE bookings[b]
  BY DEF Commit
<1>4. CASE b # s.booking
  BY <1>3, <1>4
<1>5. CASE b = s.booking /\ s.newBk = s.bk
  <2>1. bookings'[b] = bookings[b] /\ ~Completes(s)
    BY <1>1, <1>3, <1>5, FlushSame DEF Completes
  <2> QED BY <1>5, <2>1 DEF SameBill
<1>6. CASE b = s.booking /\ s.newBk # s.bk
  <2>1. SameBill(s.bk, bookings[b]) /\ s.newBk.payment_method = s.bk.payment_method
    BY <1>1, <1>6 DEF Billed
  <2>2. /\ SameBill(s.newBk, bookings'[b])
        /\ bookings'[b].payment_method = bookings[b].payment_method
    BY <1>1, <1>2, <1>3, <1>6, <2>1, FlushBill
  <2>3. CASE Completes(s)
    BY <1>6, <2>1, <2>2, <2>3 DEF Completes, SameBill
  <2>4. CASE ~Completes(s)
    <3>1. \/ ~s.newBk.completed_at
          \/ SameBill(s.bk, s.newBk)
      BY <1>1, <2>4 DEF Completes, Billed
    <3>2. ~s.newBk.completed_at => ~bookings'[b].completed_at
      BY <2>2 DEF SameBill
    <3>3. SameBill(s.bk, s.newBk) => SameBill(bookings[b], bookings'[b])
      BY <2>1, <2>2 DEF SameBill
    <3> QED BY <1>6, <2>2, <2>4, <3>1, <3>2, <3>3
  <2> QED BY <2>3, <2>4
<1> QED BY <1>4, <1>5, <1>6

\* The commit of complete_ride lists its settlement, and nobody else's.
LEMMA CompletionListed ==
    ASSUME Inv, Inv', SerialInv, SettleInv, NEW p \in Procs, Commit(p),
           session[p].txns # <<>> \/ Completes(session[p])
    PROVE  SettledExactly'
<1> PICK s : s = session[p]
  OBVIOUS
<1> SUFFICES ASSUME NEW b \in Bookings, NEW d \in Drivers, table'[b] = "row"
             PROVE  Lists(ledger'[d], b, Owed(bookings'[b], d))
  BY DEF SettledExactly, Exists, Owed, Settlement
<1>1. /\ s \in Session /\ Billed(s) /\ Shape(s) /\ s.phase = "flush"
      /\ ledger[d] \in Seq(Txn) /\ s.txns \in Seq(Txn) /\ table[b] = "row"
  BY DEF Inv, TypeOK, SessionOK, SettleInv, Commit, Session
<1>2. Completes(s)
  BY <1>1 DEF Billed
<1>3. Matches(s.txns, Settlement(s.newBk)) /\ s.newBk.driver_id = s.driver
      /\ s.newBk.completed_at
  BY <1>1, <1>2 DEF Billed, Completes
<1>4. ledger'[d] = IF d = s.driver THEN ledger[d] \o s.txns ELSE ledger[d]
  BY DEF Commit
<1>5. \A i \in DOMAIN s.txns : s.txns[i].booking_id = s.booking
  BY <1>1, LenProperties DEF Shape
<1>6. CASE b # s.booking
  <2>1. bookings'[b] = bookings[b]
    BY <1>6, CommitBills
  <2>2. Lists(ledger[d], b, Owed(bookings[b], d))
    BY <1>1 DEF SettleInv, SettledExactly, Owed, Exists
  <2>3. ~Names(s.txns, b)
    BY <1>5, <1>6 DEF Names
  <2>4. Lists(ledger[d] \o s.txns, b, Owed(bookings[b], d))
    BY <1>1, <2>2, <2>3, ListsOthers
  <2> QED BY <1>4, <2>1, <2>2, <2>4
<1>7. CASE b = s.booking
  <2>1. ~bookings[b].completed_at /\ SameBill(s.newBk, bookings'[b])
    BY <1>2, <1>7, CommitBills
  <2>2. ~Names(ledger[d], b)
    BY <2>1, NamedIsCompleted
  <2>3. Owed(bookings'[b], d) = Owed(s.newBk, d)
    BY <2>1, OwedSame
  <2>4. CASE d = s.driver
    <3>1. Owed(s.newBk, d) = Settlement(s.newBk)
      BY <1>3, <2>4 DEF Owed
    <3>2. Lists(ledger[d] \o s.txns, b, Settlement(s.newBk))
      BY <1>1, <1>3, <1>5, <1>7, <2>2, ListsSettled
    <3> QED BY <1>4, <2>3, <2>4, <3>1, <3>2
  <2>5. CASE d # s.driver
    <3>1. Owed(s.newBk, d) = <<>>
      BY <1>3, <2>5 DEF Owed
    <3> QED BY <1>4, <2>2, <2>3, <2>5, <3>1, ListsNothing
  <2> QED BY <2>4, <2>5
<1> QED BY <1>6, <1>7

\* A list with a running balance, and one row more computed from its last.
Running(rows) ==
    \A i \in DOMAIN rows : rows[i].balance_after =
        (IF i = 1 THEN 0 ELSE rows[i - 1].balance_after) + rows[i].amount

LEMMA AppendRunning ==
    ASSUME NEW l \in Seq(Txn), NEW t \in Seq(Txn), Running(l), DOMAIN t \subseteq {1},
           \A j \in DOMAIN t : t[j].balance_after =
              (IF l = <<>> THEN 0 ELSE l[Len(l)].balance_after) + t[j].amount
    PROVE  Running(l \o t)
<1> DEFINE n == Len(l)
           out == l \o t
<1>1. /\ DOMAIN l = 1 .. n /\ n \in Nat
      /\ \A i \in DOMAIN l : out[i] = l[i]
      /\ \A j \in DOMAIN t : out[n + j] = t[j]
      /\ \A k \in DOMAIN out : k \in DOMAIN l \/ \E j \in DOMAIN t : k = n + j
  BY ConcatAt
<1>2. l = <<>> <=> n = 0
  BY EmptySeq
<1> HIDE DEF n, out
<1>3. ASSUME NEW k \in DOMAIN out
      PROVE  out[k].balance_after =
                (IF k = 1 THEN 0 ELSE out[k - 1].balance_after) + out[k].amount
  <2>1. CASE k \in DOMAIN l
    <3>1. k # 1 => k - 1 \in DOMAIN l
      BY <1>1, <2>1
    <3>2. l[k].balance_after = (IF k = 1 THEN 0 ELSE l[k - 1].balance_after) + l[k].amount
      BY <2>1 DEF Running
    <3> QED BY <1>1, <2>1, <3>1, <3>2
  <2>2. CASE k \notin DOMAIN l
    <3>1. 1 \in DOMAIN t /\ k = n + 1
      BY <1>1, <2>2
    <3>2. out[k] = t[1]
      BY <1>1, <3>1
    <3>3. t[1].balance_after =
             (IF l = <<>> THEN 0 ELSE l[n].balance_after) + t[1].amount
      BY <3>1 DEF n
    <3>4. (k = 1 <=> l = <<>>) /\ k - 1 = n
      BY <1>1, <1>2, <3>1
    <3>5. l # <<>> => n \in DOMAIN l /\ out[n] = l[n]
      BY <1>1, <1>2
    <3> QED BY <3>2, <3>3, <3>4, <3>5
  <2> QED BY <2>1, <2>2
<1>4. Running(out)
  BY <1>3 DEF Running
<1> QED BY <1>4 DEF out

\* A ride paid in cash is settled with one row at most.
LEMMA CashSettlement ==
    ASSUME NEW bk, bk.payment_method = "cash" PROVE DOMAIN Settlement(bk) \subseteq {1}
<1> DEFINE e == [type |-> "ORDER_DEDUCTION", amount |-> -Commission(bk.fare)]
<1>1. Settlement(bk) = <<>> \/ Settlement(bk) = Append(<<>>, e)
  BY DEF Settlement
<1> HIDE DEF e
<1> QED BY <1>1

LEMMA CommitRuns ==
    ASSUME Inv, SerialInv, SettleInv, CashOnly, NEW p \in Procs, Commit(p)
    PROVE  RunningBalance'
<1> PICK s : s = session[p]
  OBVIOUS
<1>1. s \in Session /\ Billed(s) /\ Current(s) /\ s.phase = "flush" /\ s.txns \in Seq(Txn)
  BY DEF Inv, TypeOK, SettleInv, SerialInv, Commit, Session
<1>2. DOMAIN s.txns \subseteq {1}
  <2>1. CASE ~Completes(s)
    BY <1>1, <2>1 DEF Billed
  <2>2. CASE Completes(s)
    <3>1. s.newBk # s.bk
      BY <2>2 DEF Completes
    <3>2. s.booking \in Bookings /\ SameBill(s.bk, bookings[s.booking])
      BY <1>1, <3>1 DEF Current, Billed
    <3>3. s.newBk.payment_method = "cash"
      BY <1>1, <3>2 DEF Billed, SettleInv, SameBill
    <3>4. DOMAIN s.txns = DOMAIN Settlement(s.newBk)
      BY <1>1, <2>2 DEF Billed, Matches
    <3> QED BY <3>3, <3>4, CashSettlement
  <2> QED BY <2>1, <2>2
<1>3. \A j \in DOMAIN s.txns :
         s.txns[j].balance_after = WalletBalance(s.driver) + s.txns[j].amount
  BY <1>1 DEF Billed
<1>4. ASSUME NEW d \in Drivers PROVE Running(ledger'[d])
  <2>1. ledger[d] \in Seq(Txn) /\ Running(ledger[d])
    BY DEF Inv, TypeOK, SettleInv, RunningBalance, Running
  <2>2. CASE d # s.driver
    BY <2>1, <2>2 DEF Commit
  <2>3. CASE d = s.driver
    <3>1. Running(ledger[d] \o s.txns)
      BY <1>1, <1>2, <1>3, <2>1, <2>3, AppendRunning DEF WalletBalance
    <3> QED BY <2>3, <3>1 DEF Commit
  <2> QED BY <2>2, <2>3
<1> QED BY <1>4 DEF RunningBalance, Running

LEMMA CommitSettles ==
    ASSUME OneByOne, Inv, Inv', SerialInv, SettleInv, NEW p \in Procs, Commit(p)
    PROVE  SettleInv'
<1> PICK s : s = session[p]
  OBVIOUS
<1>1. s \in Session /\ Billed(s)
  BY DEF Inv, TypeOK, SettleInv
<1>2. SettledExactly'
  <2>1. CASE s.txns # <<>> \/ Completes(s)
    BY <2>1, CompletionListed
  <2>2. CASE s.txns = <<>> /\ ~Completes(s)
    <3>1. UNCHANGED ledger
      <4>1. ASSUME NEW d \in Drivers PROVE ledger'[d] = ledger[d]
        <5>1. ledger[d] \in Seq(Txn)
          BY DEF Inv, TypeOK
        <5>2. ledger[d] \o <<>> = ledger[d]
          BY <5>1
        <5> QED BY <2>2, <5>2 DEF Commit
      <4>2. DOMAIN ledger' = Drivers /\ DOMAIN ledger = Drivers
        BY DEF Commit, Inv, TypeOK
      <4>3. ledger \in [Drivers -> Seq(Txn)] /\ ledger' \in [Drivers -> Seq(Txn)]
        BY DEF Inv, TypeOK
      <4> QED BY <4>1, <4>3
    <3>2. \A b \in Bookings : \/ SameBill(bookings[b], bookings'[b])
                              \/ ~bookings'[b].completed_at
      BY <2>2, CommitBills DEF SameBill
    <3>3. UNCHANGED table
      BY DEF Commit
    <3> QED BY <3>1, <3>2, <3>3, BillsStay DEF SettleInv, Exists
  <2> QED BY <2>1, <2>2
<1>3. CashOnly => \A b \in Bookings : bookings'[b].payment_method = "cash"
  BY CommitBills DEF SettleInv
<1>4. CashOnly => RunningBalance'
  BY CommitRuns
<1>5. ASSUME NEW q \in Procs PROVE Billed(session[q])'
  <2> DEFINE t == [Idle EXCEPT !.phase = "delete", !.booking = s.booking]
  <2>1. session'[p] = IF s.after = "delete" THEN t ELSE Idle
    BY DEF Commit, Inv, TypeOK
  <2>2. t.newBk = t.bk /\ t.txns = <<>> /\ Idle.newBk = Idle.bk /\ Idle.txns = <<>>
    BY DEF Idle
  <2> HIDE DEF t
  <2>3. PICK a : a = IF s.after = "delete" THEN t ELSE Idle
    OBVIOUS
  <2>4. a.newBk = a.bk /\ a.txns = <<>>
    BY <2>2, <2>3
  <2>5. Billed(a)' /\ session'[q] = a
    BY <2>1, <2>3, <2>4, QuietBilled DEF OneByOne
  <2> QED BY <2>5
<1> QED BY <1>2, <1>3, <1>4, <1>5 DEF SettleInv

-----------------------------------------------------------------------------
(* The settlement: the invariant and the theorems *)

LEMMA InitSettles == Init => SettleInv
<1> SUFFICES ASSUME Init PROVE SettleInv
  OBVIOUS
<1>1. PICK s : s = Idle
  OBVIOUS
<1>2. s.newBk = s.bk /\ s.txns = <<>>
  BY <1>1 DEF Idle
<1>3. Billed(s)
  BY <1>2, QuietBilled
<1>4. \A p \in Procs : session[p] = s
  BY <1>1 DEF Init
<1>5. SettledExactly
  BY DEF Init, SettledExactly, Exists
<1>6. RunningBalance /\ \A b \in Bookings : bookings[b].payment_method = "cash"
  BY DEF Init, RunningBalance, NoBooking, NewBooking
<1> QED BY <1>3, <1>4, <1>5, <1>6 DEF SettleInv

LEMMA PassengerStepSettles ==
    ASSUME OneByOne, Inv, Inv', SerialInv, SettleInv, NEW p \in Procs, PassengerStep(p)
    PROVE  SettleInv'
<1>1. CASE ListMyBookings(p)
  <2>1. session'[p] = Idle
    BY <1>1 DEF ListMyBookings, Free, SerialInv, Current
  <2> QED BY <1>1, <2>1, ExpirySettles DEF ListMyBookings
<1>2. CASE DeleteRow(p)
  BY <1>2, DeleteRowSettles
<1>3. ASSUME NEW b \in Bookings, NEW method \in PaymentMethods, CreateBooking(p, b, method)
      PROVE  SettleInv'
  BY <1>3, CreateBookingSettles
<1>4. ASSUME NEW b \in Bookings, NEW newStatus \in PatchStatuses,
             UpdateBookingStatus(p, b, newStatus)
      PROVE  SettleInv'
  BY <1>4, UpdateBookingStatusSettles
<1>5. ASSUME NEW b \in Bookings, DeleteBooking(p, b) PROVE SettleInv'
  BY <1>5, DeleteBookingSettles
<1> QED BY <1>1, <1>2, <1>3, <1>4, <1>5 DEF PassengerStep

LEMMA DriverStepSettles ==
    ASSUME OneByOne, Inv, Inv', SerialInv, SettleInv, NEW p \in Procs, DriverStep(p)
    PROVE  SettleInv'
<1>1. CASE \/ \E d \in Drivers : GetDriver(p, d)
           \/ GoOnline(p) \/ GoOffline(p)
           \/ \E b \in Bookings : RejectRide(p, b)
  BY <1>1, QuietDriverStepsSettle
<1>2. CASE GetAvailableRides(p)
  <2>1. session'[p] = Idle
    BY <1>2 DEF GetAvailableRides, Inv, TypeOK
  <2> QED BY <1>2, <2>1, ExpirySettles DEF GetAvailableRides
<1>3. ASSUME NEW b \in Bookings,
             \/ AcceptRide(p, b) \/ ArriveAtPickup(p, b) \/ StartRide(p, b)
             \/ VerifyWrongOtp(p, b) \/ VerifyRightOtp(p, b)
      PROVE  SettleInv'
  BY <1>3, RideStepsSettle
<1>4. ASSUME NEW b \in Bookings, CancelRide(p, b) PROVE SettleInv'
  BY <1>4, CancelRideSettles
<1>5. ASSUME NEW b \in Bookings, NEW finalFare \in FinalFares, CompleteRide(p, b, finalFare)
      PROVE  SettleInv'
  BY <1>5, CompleteRideSettles
<1>6. CASE AddRideCredit(p) \/ AddCommission(p)
  BY <1>6, AddRideCreditSettles, AddCommissionSettles
<1> QED BY <1>1, <1>2, <1>3, <1>4, <1>5, <1>6 DEF DriverStep

LEMMA NextSettles ==
    OneByOne /\ Inv /\ Inv' /\ SerialInv /\ SettleInv /\ [Next]_vars => SettleInv'
<1> SUFFICES ASSUME OneByOne, Inv, Inv', SerialInv, SettleInv, [Next]_vars PROVE SettleInv'
  OBVIOUS
<1>1. CASE UNCHANGED vars
  <2>1. UNCHANGED <<table, bookings, ledger, session>>
    BY <1>1 DEF vars
  <2>2. SettledExactly' /\ (CashOnly => RunningBalance')
    BY <2>1 DEF SettleInv, SettledExactly, RunningBalance, Exists
  <2>3. \A p \in Procs : Billed(session[p])'
    BY <2>1 DEF SettleInv, Billed, WalletBalance
  <2> QED BY <2>1, <2>2, <2>3 DEF SettleInv
<1>2. CASE TimePasses
  BY <1>2, TimeSettles
<1>3. ASSUME NEW p \in Procs,
             PassengerStep(p) \/ DriverStep(p) \/ ProfileStep(p) \/ SessionStep(p)
      PROVE  SettleInv'
  <2>1. CASE SessionStep(p)
    BY <2>1, CommitSettles, RestSettles DEF SessionStep, CommitFails, EndRequest
  <2> QED BY <1>3, <2>1, PassengerStepSettles, DriverStepSettles, ProfileStepSettles
<1> QED BY <1>1, <1>2, <1>3 DEF Next

LEMMA SettleInvariance ==
    ASSUME OneByOne PROVE Spec => [](Inv /\ SerialInv /\ SettleInv)
<1>1. Init => Inv /\ SerialInv /\ SettleInv
  BY InitInv, InitSerial, InitSettles
<1>2. Inv /\ SerialInv /\ SettleInv /\ [Next]_vars => (Inv /\ SerialInv /\ SettleInv)'
  BY NextInv, NextSerial, NextSettles
<1> QED BY <1>1, <1>2, PTL DEF Spec

\* One request at a time, complete_ride settles each ride once and in full: the
\* ledger of its driver holds exactly the rows its final fare calls for, in
\* their order, nobody else's holds any, and nothing that happens to the booking
\* later changes that.
THEOREM RidesAreSettled ==
    ASSUME OneByOne PROVE Spec => []SettledExactly
<1>1. SettleInv => SettledExactly
  BY DEF SettleInv
<1> QED BY <1>1, SettleInvariance, PTL

\* The rows of a settlement are of different types.
LEMMA SettlementTypes ==
    ASSUME NEW bk, NEW i \in DOMAIN Settlement(bk), NEW j \in DOMAIN Settlement(bk), i # j
    PROVE  Settlement(bk)[i].type # Settlement(bk)[j].type
<1> DEFINE c == [type |-> "RIDE_CREDIT", amount |-> bk.fare]
           e == [type |-> "ORDER_DEDUCTION", amount |-> -Commission(bk.fare)]
<1>1. c.type = "RIDE_CREDIT" /\ e.type = "ORDER_DEDUCTION"
  OBVIOUS
<1>2. \/ Settlement(bk) = <<>> \/ Settlement(bk) = <<c>>
      \/ Settlement(bk) = Append(<<>>, e) \/ Settlement(bk) = Append(<<c>>, e)
  BY DEF Settlement
<1> HIDE DEF c, e
<1>3. Append(<<>>, e) = <<e>>
  OBVIOUS
<1>4. /\ DOMAIN Append(<<c>>, e) = 1 .. 2
      /\ Append(<<c>>, e)[1] = c /\ Append(<<c>>, e)[2] = e
  <2> DEFINE S == {c, e}
  <2>1. <<c>> \in Seq(S) /\ e \in S /\ Len(<<c>>) = 1 /\ <<c>>[1] = c
    OBVIOUS
  <2> HIDE DEF S
  <2>2. /\ Append(<<c>>, e) \in Seq(S) /\ Len(Append(<<c>>, e)) = 2
        /\ Append(<<c>>, e)[1] = c /\ Append(<<c>>, e)[2] = e
    BY <2>1, AppendProperties
  <2> QED BY <2>2, LenProperties
<1>5. Settlement(bk) = Append(<<c>>, e)
  BY <1>2, <1>3
<1> QED BY <1>1, <1>4, <1>5

\* That a double tap on "Complete Trip" writes no duplicate entries
\* (complete_ride) is true of taps that follow each other: the duplicates need
\* two requests that overlap.
THEOREM SecondTapWritesNothing ==
    ASSUME OneByOne PROVE Spec => []NoDuplicateEntries
<1>1. ASSUME Inv, SettleInv PROVE NoDuplicateEntries
  <2> SUFFICES ASSUME NEW d \in Drivers, NEW i \in DOMAIN ledger[d], NEW j \in DOMAIN ledger[d],
                      i # j, ledger[d][i].booking_id = ledger[d][j].booking_id,
                      ledger[d][i].booking_id # None
               PROVE  ledger[d][i].type # ledger[d][j].type
    BY DEF NoDuplicateEntries
  <2> PICK b : b = ledger[d][i].booking_id
    OBVIOUS
  <2>1. b \in Bookings /\ Exists(b)
    BY <1>1, LedgerEntry DEF Exists
  <2> PICK owed : owed = Owed(bookings[b], d)
    OBVIOUS
  <2>2. Lists(ledger[d], b, owed)
    BY <1>1, <2>1 DEF SettleInv, SettledExactly, Owed
  <2>3. PICK at \in [DOMAIN owed -> DOMAIN ledger[d]] :
           /\ \A k \in DOMAIN ledger[d] :
                 ledger[d][k].booking_id = b <=> \E m \in DOMAIN owed : at[m] = k
           /\ \A m \in DOMAIN owed : ledger[d][at[m]].type = owed[m].type
    BY <2>2 DEF Lists
  <2>4. PICK m \in DOMAIN owed, n \in DOMAIN owed : at[m] = i /\ at[n] = j
    BY <2>3
  <2>5. owed = Settlement(bookings[b])
    BY <2>4 DEF Owed
  <2> QED BY <2>3, <2>4, <2>5, SettlementTypes
<1> QED BY <1>1, SettleInvariance, PTL

\* balance_after is the running balance (models/wallet.py) as long as requests
\* do not overlap and every ride is paid in cash, so that complete_ride adds one
\* row at most: it is the second row of a settlement, computed from the same
\* committed balance, that breaks it.
THEOREM CashBalanceRuns ==
    ASSUME OneByOne, CashOnly PROVE Spec => []RunningBalance
<1>1. SettleInv => RunningBalance
  BY DEF SettleInv
<1> QED BY <1>1, SettleInvariance, PTL

-----------------------------------------------------------------------------
(* The verification gate *)

\* A request that has passed the gate, or means to put its driver online, holds
\* an approved driver.
Approves(s) ==
    s.phase \in {"gated", "credit", "commission"} \/ s.newDrv.status = "online" =>
        s.newDrv.documents_verified

GateInv == OnlineIsApproved /\ \A p \in Procs : Approves(session[p])

\* The endpoints that look at a driver's documents before they put the driver
\* online, take the driver offline with the approval, or do neither: all but new
\* papers, and passengers that end a ride.
GateKept == Handlers \cap {"upload", "patch", "delete"} = {}

LEMMA IdleApproves == Approves(Idle)
  BY DEF Approves, Idle, NewDriver

\* A step of the only slot that leaves the drivers alone.
LEMMA StageGate ==
    ASSUME OneByOne, TypeOK, GateInv, NEW p \in Procs, NEW s, Approves(s), Stage(p, s)
    PROVE  GateInv'
<1>1. UNCHANGED drivers /\ session' = [session EXCEPT ![p] = s]
  BY DEF Stage, db
<1>2. ASSUME NEW q \in Procs PROVE Approves(session'[q])
  BY <1>1 DEF OneByOne, TypeOK
<1>3. OnlineIsApproved'
  BY <1>1 DEF GateInv, OnlineIsApproved
<1> QED BY <1>2, <1>3 DEF GateInv, Approves

LEMMA RestGate ==
    ASSUME OneByOne, TypeOK, GateInv, NEW p \in Procs, Stage(p, Idle) PROVE GateInv'
  BY StageGate, IdleApproves

\* What a handler makes of a gated session is approved, whatever the status.
LEMMA GatedGate ==
    ASSUME OneByOne, TypeOK, GateInv, NEW p \in Procs, NEW s, Stage(p, s),
           session[p].phase \in {"gated", "credit", "commission"},
           s.newDrv.documents_verified = session[p].newDrv.documents_verified
    PROVE  GateInv'
<1>1. Approves(s)
  BY DEF GateInv, Approves
<1> QED BY <1>1, StageGate

LEMMA DriverStepGate ==
    ASSUME OneByOne, TypeOK, GateInv, NEW p \in Procs, DriverStep(p) PROVE GateInv'
<1>1. session[p] \in Session
  BY DEF TypeOK
<1>2. ASSUME NEW d \in Drivers, GetDriver(p, d) PROVE GateInv'
  <2> DEFINE s == [Idle EXCEPT !.phase = "gated", !.driver = d,
                               !.drv = drivers[d], !.newDrv = drivers[d]]
  <2>1. Approves(s)
    BY <1>2 DEF GetDriver, Approves, Idle
  <2>2. Stage(p, s)
    BY <1>2 DEF GetDriver
  <2> HIDE DEF s
  <2> QED BY <2>1, <2>2, StageGate
<1>3. ASSUME NEW newStatus, Gated(p), StageDriver(p, newStatus) PROVE GateInv'
  <2> DEFINE s == [session[p] EXCEPT !.phase = "flush", !.newDrv.status = newStatus]
  <2>1. s.newDrv.documents_verified = session[p].newDrv.documents_verified
    BY <1>1 DEF Session, Driver
  <2>2. Stage(p, s)
    BY <1>3 DEF StageDriver
  <2> HIDE DEF s
  <2> QED BY <1>3, <2>1, <2>2, GatedGate DEF Gated
<1>4. CASE GetAvailableRides(p)
  <2>1. UNCHANGED drivers /\ session' = [session EXCEPT ![p] = Idle]
    BY <1>4 DEF GetAvailableRides
  <2>2. ASSUME NEW q \in Procs PROVE Approves(session'[q])
    BY <2>1, IdleApproves DEF OneByOne, TypeOK
  <2> QED BY <2>1, <2>2 DEF GateInv, OnlineIsApproved, Approves
<1>5. ASSUME NEW b, NEW new, NEW newStatus, Gated(p), StageRide(p, b, new, newStatus)
      PROVE  GateInv'
  <2> DEFINE s == [session[p] EXCEPT !.phase = "flush", !.booking = b,
                                     !.bk = bookings[b], !.newBk = new,
                                     !.newDrv.status = newStatus]
  <2>1. s.newDrv.documents_verified = session[p].newDrv.documents_verified
    BY <1>1 DEF Session, Driver
  <2>2. Stage(p, s)
    BY <1>5 DEF StageRide
  <2> HIDE DEF s
  <2> QED BY <1>5, <2>1, <2>2, GatedGate DEF Gated
<1>6. ASSUME NEW b \in Bookings, RejectRide(p, b) PROVE GateInv'
  <2> DEFINE s == [session[p] EXCEPT !.phase = "flush", !.booking = b,
                                     !.bk = bookings[b], !.newBk = bookings[b],
                                     !.rejection = TRUE]
  <2>1. s.newDrv.documents_verified = session[p].newDrv.documents_verified
    BY <1>1 DEF Session, Driver
  <2>2. Stage(p, s) /\ Gated(p)
    BY <1>6 DEF RejectRide
  <2> HIDE DEF s
  <2> QED BY <2>1, <2>2, GatedGate DEF Gated
<1>7. ASSUME NEW b \in Bookings, CancelRide(p, b) PROVE GateInv'
  <2> DEFINE s == [session[p] EXCEPT !.phase = "flush", !.booking = b, !.bk = bookings[b],
                                     !.newBk = [ClearCode(bookings[b]) EXCEPT !.status = "CANCELLED"],
                                     !.newDrv.status = "online",
                                     !.rejection = TRUE]
  <2>1. s.newDrv.documents_verified = session[p].newDrv.documents_verified
    BY <1>1 DEF Session, Driver
  <2>2. Stage(p, s) /\ Gated(p)
    BY <1>7 DEF CancelRide, Mine
  <2> HIDE DEF s
  <2> QED BY <2>1, <2>2, GatedGate DEF Gated
<1>8. ASSUME NEW b \in Bookings, NEW finalFare \in FinalFares, CompleteRide(p, b, finalFare)
      PROVE  GateInv'
  <2>1. PICK ph, new :
           Stage(p, [session[p] EXCEPT !.phase = ph, !.booking = b, !.bk = bookings[b],
                                       !.newBk = new, !.newDrv.status = "online"])
    BY <1>8 DEF CompleteRide
  <2> DEFINE s == [session[p] EXCEPT !.phase = ph, !.booking = b, !.bk = bookings[b],
                                     !.newBk = new, !.newDrv.status = "online"]
  <2>2. s.newDrv.documents_verified = session[p].newDrv.documents_verified
    BY <1>1 DEF Session, Driver
  <2>3. Stage(p, s) /\ Gated(p)
    BY <1>8, <2>1 DEF CompleteRide, Mine
  <2> HIDE DEF s
  <2> QED BY <2>2, <2>3, GatedGate DEF Gated
<1>9. CASE AddRideCredit(p) \/ AddCommission(p)
  <2>1. PICK ph, txns : /\ Stage(p, [session[p] EXCEPT !.phase = ph, !.txns = txns])
                        /\ session[p].phase \in {"credit", "commission"}
    BY <1>9 DEF AddRideCredit, AddCommission
  <2> DEFINE s == [session[p] EXCEPT !.phase = ph, !.txns = txns]
  <2>2. s.newDrv.documents_verified = session[p].newDrv.documents_verified
    BY <1>1 DEF Session
  <2> HIDE DEF s
  <2> QED BY <2>1, <2>2, GatedGate DEF s
<1>10. ASSUME NEW b \in Bookings,
              \/ AcceptRide(p, b) \/ ArriveAtPickup(p, b) \/ StartRide(p, b)
              \/ VerifyWrongOtp(p, b) \/ VerifyRightOtp(p, b)
       PROVE  GateInv'
  BY <1>5, <1>10 DEF AcceptRide, ArriveAtPickup, StartRide, VerifyWrongOtp, VerifyRightOtp,
                     MayVerify, Mine
<1> QED BY <1>2, <1>3, <1>4, <1>6, <1>7, <1>8, <1>9, <1>10 DEF DriverStep, GoOnline, GoOffline

LEMMA PassengerStepGate ==
    ASSUME OneByOne, GateKept, TypeOK, GateInv, NEW p \in Procs, PassengerStep(p) PROVE GateInv'
<1>1. CASE DeleteRow(p)
  <2>1. UNCHANGED drivers /\ session' = [session EXCEPT ![p] = Idle]
    BY <1>1 DEF DeleteRow
  <2>2. ASSUME NEW q \in Procs PROVE Approves(session'[q])
    BY <2>1, IdleApproves DEF OneByOne, TypeOK
  <2> QED BY <2>1, <2>2 DEF GateInv, OnlineIsApproved, Approves
<1>2. ASSUME UNCHANGED <<drivers, session>> PROVE GateInv'
  BY <1>2 DEF GateInv, OnlineIsApproved, Approves
<1> QED BY <1>1, <1>2 DEF PassengerStep, ListMyBookings, CreateBooking, UpdateBookingStatus,
                          DeleteBooking, GateKept

LEMMA ProfileStepGate ==
    ASSUME OneByOne, GateKept, TypeOK, GateInv, NEW p \in Procs, ProfileStep(p) PROVE GateInv'
<1>1. ASSUME NEW d \in Drivers, NEW newDrv, StageProfile(p, d, newDrv),
             newDrv.status = "online" => newDrv.documents_verified
      PROVE  GateInv'
  <2> DEFINE s == [Idle EXCEPT !.phase = "flush", !.driver = d, !.drv = drivers[d],
                               !.newDrv = newDrv]
  <2>1. Approves(s)
    BY <1>1 DEF Approves, Idle
  <2>2. Stage(p, s)
    BY <1>1 DEF StageProfile
  <2> HIDE DEF s
  <2> QED BY <2>1, <2>2, StageGate
<1>2. PICK d \in Drivers : \/ UploadDocuments(p, d) \/ ApproveDocuments(p, d)
                           \/ RejectDocuments(p, d)
                           \/ \E newStatus \in DriverStatus : UpdateDriverStatus(p, d, newStatus)
  BY DEF ProfileStep
<1>3. drivers[d] \in Driver
  BY DEF TypeOK
<1>4. ~UploadDocuments(p, d)
  BY DEF UploadDocuments, GateKept
<1>5. CASE ApproveDocuments(p, d)
  BY <1>1, <1>3, <1>5 DEF ApproveDocuments, Driver
<1>6. CASE RejectDocuments(p, d)
  <2> DEFINE new == [drivers[d] EXCEPT !.documents_verified = FALSE,
                                       !.document_verification_status = "rejected",
                                       !.status = IF @ = "online" THEN "offline" ELSE @]
  <2>1. new.status # "online"
    BY <1>3 DEF Driver
  <2>2. StageProfile(p, d, new)
    BY <1>6 DEF RejectDocuments
  <2> HIDE DEF new
  <2> QED BY <1>1, <2>1, <2>2
<1>7. ASSUME NEW newStatus \in DriverStatus, UpdateDriverStatus(p, d, newStatus) PROVE GateInv'
  BY <1>1, <1>3, <1>7 DEF UpdateDriverStatus, Driver
<1> QED BY <1>2, <1>4, <1>5, <1>6, <1>7

LEMMA CommitGate ==
    ASSUME OneByOne, Inv, SerialInv, GateInv, NEW p \in Procs, Commit(p) PROVE GateInv'
<1>1. \A d \in Drivers :
         drivers'[d] = IF d = session[p].driver THEN session[p].newDrv ELSE drivers[d]
  BY CommitEffect
<1>2. OnlineIsApproved'
  BY <1>1 DEF GateInv, OnlineIsApproved, Approves
<1>3. PICK s : s = session'[p] /\ Approves(s)
  <2>1. session'[p] = Idle \/
        session'[p] = [Idle EXCEPT !.phase = "delete", !.booking = session[p].booking]
    BY DEF Commit, Inv, TypeOK
  <2>2. Approves([Idle EXCEPT !.phase = "delete", !.booking = session[p].booking])
    BY DEF Approves, Idle, NewDriver
  <2> QED BY <2>1, <2>2, IdleApproves
<1>4. ASSUME NEW q \in Procs PROVE Approves(session'[q])
  BY <1>3 DEF OneByOne
<1> QED BY <1>2, <1>4 DEF GateInv, Approves

LEMMA NextGate ==
    OneByOne /\ GateKept /\ Inv /\ SerialInv /\ GateInv /\ [Next]_vars => GateInv'
<1> SUFFICES ASSUME OneByOne, GateKept, Inv, SerialInv, GateInv, [Next]_vars PROVE GateInv'
  OBVIOUS
<1>1. TypeOK
  BY DEF Inv
<1>2. ASSUME UNCHANGED <<drivers, session>> PROVE GateInv'
  BY <1>2 DEF GateInv, OnlineIsApproved, Approves
<1>3. CASE UNCHANGED vars
  BY <1>2, <1>3 DEF vars
<1>4. CASE TimePasses
  BY <1>2, <1>4 DEF TimePasses, RequestGoesStale, CodeExpires, GraceEnds, TimeStep
<1>5. ASSUME NEW p \in Procs,
             PassengerStep(p) \/ DriverStep(p) \/ ProfileStep(p) \/ SessionStep(p)
      PROVE  GateInv'
  <2>1. CASE SessionStep(p)
    BY <1>1, <2>1, CommitGate, RestGate DEF SessionStep, CommitFails, EndRequest
  <2> QED BY <1>1, <1>5, <2>1, PassengerStepGate, DriverStepGate, ProfileStepGate
<1> QED BY <1>3, <1>4, <1>5 DEF Next

\* That approval is required before a driver can go online (README.md) holds of
\* everything drivers and the panel do, a rejection during a ride included: it
\* takes new papers, or a passenger that ends the ride, to have a driver online
\* who is not approved.
THEOREM ApprovalIsRequired ==
    ASSUME OneByOne, GateKept PROVE Spec => []OnlineIsApproved
<1>1. Init => GateInv
  <2> SUFFICES ASSUME Init PROVE GateInv
    OBVIOUS
  <2>1. OnlineIsApproved
    BY DEF Init, OnlineIsApproved, NewDriver, ApprovedDriver
  <2> QED BY <2>1, IdleApproves DEF Init, GateInv
<1>2. GateInv => OnlineIsApproved
  BY DEF GateInv
<1> QED BY <1>1, <1>2, NextGate, SerialInvariance, PTL DEF Spec
=============================================================================
