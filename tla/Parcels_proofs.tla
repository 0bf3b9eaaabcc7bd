---------------------------- MODULE Parcels_proofs ----------------------------
(***************************************************************************)
(* Proofs about fares, for every distance and waiting time, and about the  *)
(* parcel dispatch, for any drivers, bookings, payloads, sizes, vehicles   *)
(* and distances: the types, the price of an add-on, the estimate, and     *)
(* what the answer of a poll may hold.  Fares are only divided by ten      *)
(* (tenths of a kilometre) and sixty (seconds of a minute).                *)
(***************************************************************************)
EXTENDS ParcelsProperties, TLAPS

-----------------------------------------------------------------------------
(* Rounding *)

\* A quotient and a remainder.
LEMMA DivTen == ASSUME NEW n \in Int
                PROVE  /\ n \div 10 \in Int /\ n % 10 \in 0 .. 9
                       /\ n = 10 * (n \div 10) + (n % 10)
  OBVIOUS

LEMMA DivSixty == ASSUME NEW n \in Int
                  PROVE  /\ n \div 60 \in Int /\ n % 60 \in 0 .. 59
                         /\ n = 60 * (n \div 60) + (n % 60)
  OBVIOUS

\* Round to tenths is at most half a tenth off, and even if it is just that.
LEMMA RoundTen ==
  ASSUME NEW n \in Int
  PROVE  /\ Round(n, 10) \in Int
         /\ 10 * Round(n, 10) - n \in -5 .. 5
         /\ 10 * Round(n, 10) - n \in {-5, 5} => Round(n, 10) % 2 = 0
<1> DEFINE q == n \div 10
           r == n % 10
<1>1. q \in Int /\ r \in 0 .. 9 /\ n = 10 * q + r
  BY DivTen
<1>2. Round(n, 10) = IF 2 * r > 10 \/ (2 * r = 10 /\ q % 2 = 1) THEN q + 1 ELSE q
  BY DEF Round
<1>3. q % 2 \in {0, 1} /\ (q % 2 = 1 => (q + 1) % 2 = 0)
  BY <1>1
<1> HIDE DEF q, r
<1> QED
  BY <1>1, <1>2, <1>3

\* It is monotone.
LEMMA RoundTenMonotone ==
  ASSUME NEW m \in Int, NEW n \in Int, m <= n
  PROVE  Round(m, 10) <= Round(n, 10)
<1>1. CASE m = n
  BY <1>1, RoundTen
<1>2. CASE m # n
  <2>1. /\ Round(m, 10) \in Int /\ Round(n, 10) \in Int
        /\ 10 * Round(m, 10) <= m + 5 /\ 10 * Round(n, 10) >= n - 5
        /\ 10 * Round(m, 10) - m \in {-5, 5} => Round(m, 10) % 2 = 0
        /\ 10 * Round(n, 10) - n \in {-5, 5} => Round(n, 10) % 2 = 0
    BY RoundTen
  <2> QED
    BY <1>2, <2>1
<1> QED
  BY <1>1, <1>2

LEMMA RoundSixty ==
  ASSUME NEW n \in Int
  PROVE  /\ Round(n, 60) \in Int
         /\ 60 * Round(n, 60) - n \in -30 .. 30
<1> DEFINE q == n \div 60
           r == n % 60
<1>1. q \in Int /\ r \in 0 .. 59 /\ n = 60 * q + r
  BY DivSixty
<1>2. Round(n, 60) = IF 2 * r > 60 \/ (2 * r = 60 /\ q % 2 = 1) THEN q + 1 ELSE q
  BY DEF Round
<1> HIDE DEF q, r
<1> QED
  BY <1>1, <1>2

-----------------------------------------------------------------------------
(* The fare of a distance *)

\* A fare is never negative, and none is due for a negative distance
\* (fare_for_distance).
THEOREM NoNegativeFare ==
  \A tenths \in Int : /\ FareForDistance(tenths, 0) \in Nat
                      /\ tenths <= 0 => FareForDistance(tenths, 0) = 0
<1> SUFFICES ASSUME NEW tenths \in Int
             PROVE  /\ FareForDistance(tenths, 0) \in Nat
                    /\ tenths <= 0 => FareForDistance(tenths, 0) = 0
  OBVIOUS
<1> DEFINE paid == AtLeast(AtLeast(tenths, 0) * PerKmRate, 0 * 10)
<1>1. paid \in Int /\ 0 <= paid
  BY DEF AtLeast, PerKmRate
<1>2. FareForDistance(tenths, 0) = Round(paid, 10)
  BY DEF FareForDistance
<1>3. Round(0, 10) = 0
  BY DEF Round
<1>4. tenths <= 0 => paid = 0
  BY DEF AtLeast, PerKmRate
<1> HIDE DEF paid
<1>5. Round(0, 10) <= Round(paid, 10) /\ Round(paid, 10) \in Int
  BY <1>1, RoundTen, RoundTenMonotone
<1> QED
  BY <1>2, <1>3, <1>4, <1>5

\* From the first metre on a fare is the distance at the rate, rounded.
LEMMA FareIsRounded ==
  ASSUME NEW tenths \in Nat
  PROVE  FareForDistance(tenths, 0) = Round(19 * tenths, 10)
<1>1. AtLeast(AtLeast(tenths, 0) * PerKmRate, 0 * 10) = 19 * tenths
  BY DEF AtLeast, PerKmRate
<1> QED
  BY <1>1 DEF FareForDistance

\* A longer trip never costs less.
THEOREM FareGrows ==
  \A s, t \in Nat : s <= t => FareForDistance(s, 0) <= FareForDistance(t, 0)
<1> SUFFICES ASSUME NEW s \in Nat, NEW t \in Nat, s <= t
             PROVE  FareForDistance(s, 0) <= FareForDistance(t, 0)
  OBVIOUS
<1>1. 19 * s \in Int /\ 19 * t \in Int /\ 19 * s <= 19 * t
  OBVIOUS
<1>2. Round(19 * s, 10) <= Round(19 * t, 10)
  BY <1>1, RoundTenMonotone
<1> QED
  BY <1>2, FareIsRounded

-----------------------------------------------------------------------------
(* The wait charge *)

\* The grace period is free, its last second included (verify_ride_otp).
THEOREM GraceIsFree == \A waited \in Int : waited <= 180 => WaitChargePaise(waited) = 0
<1> SUFFICES ASSUME NEW waited \in Int, waited <= 180
             PROVE  WaitChargePaise(waited) = 0
  OBVIOUS
<1>1. Chargeable(waited) = 0
  BY DEF Chargeable, AtLeast, WaitGraceSeconds
<1>2. WaitChargePaise(waited) = Round(0, 60)
  BY <1>1 DEF WaitChargePaise, WaitChargePerMin
<1> QED
  BY <1>2 DEF Round

\* After it every full minute costs two rupees more, whenever it begins: nothing
\* is gained or lost by the rounding (verify_ride_otp).
THEOREM MinuteCostsTheRate ==
  \A waited \in Int :
     waited >= 180 => WaitChargePaise(waited + 60) = WaitChargePaise(waited) + 200
<1> SUFFICES ASSUME NEW waited \in Int, waited >= 180
             PROVE  WaitChargePaise(waited + 60) = WaitChargePaise(waited) + 200
  OBVIOUS
<1> DEFINE n == (waited - 180) * 200
<1>1. /\ WaitChargePaise(waited) = Round(n, 60)
      /\ WaitChargePaise(waited + 60) = Round(n + 12000, 60)
  BY DEF WaitChargePaise, Chargeable, AtLeast, WaitGraceSeconds, WaitChargePerMin
<1>2. n \in Int
  OBVIOUS
<1> HIDE DEF n
<1>3. (n + 12000) \div 60 = n \div 60 + 200 /\ (n + 12000) % 60 = n % 60
  BY <1>2
<1>4. n \div 60 \in Int /\ (n \div 60 + 200) % 2 = (n \div 60) % 2
  BY <1>2
<1> QED
  BY <1>1, <1>3, <1>4 DEF Round

\* Waiting longer never costs less (verify_ride_otp).
THEOREM WaitChargeGrows ==
  \A s, t \in Int : s <= t => WaitChargePaise(s) <= WaitChargePaise(t)
<1> SUFFICES ASSUME NEW s \in Int, NEW t \in Int, s <= t
             PROVE  WaitChargePaise(s) <= WaitChargePaise(t)
  OBVIOUS
<1> DEFINE m == Chargeable(s) * 200
           n == Chargeable(t) * 200
<1>1. m \in Int /\ n \in Int /\ (m = n \/ m + 200 <= n)
  BY DEF Chargeable, AtLeast, WaitGraceSeconds
<1>2. WaitChargePaise(s) = Round(m, 60) /\ WaitChargePaise(t) = Round(n, 60)
  BY DEF WaitChargePaise, WaitChargePerMin
<1> HIDE DEF m, n
<1>3. CASE m = n
  BY <1>1, <1>2, <1>3, RoundSixty
<1>4. CASE m + 200 <= n
  <2>1. /\ Round(m, 60) \in Int /\ 60 * Round(m, 60) <= m + 30
        /\ Round(n, 60) \in Int /\ 60 * Round(n, 60) >= n - 30
    BY <1>1, RoundSixty
  <2> QED
    BY <1>1, <1>2, <1>4, <2>1
<1> QED
  BY <1>1, <1>3, <1>4

-----------------------------------------------------------------------------
(* Constants *)

\* None is no driver, vehicle, size, payload or stored add-on.
LEMMA NoneIsNothing ==
  /\ None \notin Drivers /\ None \notin Vehicles /\ None \notin Sizes
  /\ None \notin Payload /\ None \notin StoredAssist /\ None \notin Int
BY ParcelsAssumption, LoadAssistAssumption

LEMMA NoPollType == NoPoll \in Poll
BY DEF NoPoll, Poll

-----------------------------------------------------------------------------
(* The price of an add-on *)

\* What a valid location adds: its floors and, without a lift, the surcharge.
LEMMA LocationPriced ==
  ASSUME NEW l \in Location \cup {None}, LocationValid(l)
  PROVE  /\ l # None
         /\ BillableFloorCount(l) \in Nat /\ NoLift(l) \in {0, 1}
         /\ LocationFare(l) = BillableFloorCount(l) * 100 + NoLift(l) * 150
         /\ LocationFare(l) >= 0
<1>1. l # None /\ l \in Location
  BY DEF LocationValid
<1>2. CASE l.isGroundFloor = "true"
  BY <1>1, <1>2 DEF BillableFloorCount, NoLift, LocationFare
<1>3. CASE l.isGroundFloor # "true"
  <2>1. l.floorNumber \in Int /\ l.floorNumber > 0
    BY <1>1, <1>3, NoneIsNothing DEF LocationValid, UpstairsDescribed, Positive, Location
  <2>2. BillableFloorCount(l) = l.floorNumber
    BY <1>3 DEF BillableFloorCount
  <2>3. CASE l.liftAvailable = "true"
    <3>1. NoLift(l) = 0 /\ LocationFare(l) = 100 * l.floorNumber + 0
      BY <1>3, <2>3 DEF NoLift, LocationFare
    <3> QED
      BY <1>1, <2>1, <2>2, <3>1
  <2>4. CASE l.liftAvailable # "true"
    <3>1. NoLift(l) = 1 /\ LocationFare(l) = 100 * l.floorNumber + 150
      BY <1>3, <2>4 DEF NoLift, LocationFare
    <3> QED
      BY <1>1, <2>1, <2>2, <3>1
  <2> QED
    BY <2>3, <2>4
<1> QED
  BY <1>2, <1>3

\* A valid add-on is complete, and its fare is the sum of its parts.
LEMMA ValidIsPriced ==
  ASSUME NEW a \in Payload, AssistValid(a)
  PROVE  /\ a.itemCount \in Int /\ a.itemCount > 0 /\ a.goodsType = "allowed"
         /\ a.maxItemWeightKg \notin {None, Unreadable} => a.maxItemWeightKg <= 50
         /\ \A l \in {a.pickup, a.drop} : l # None /\ LocationFare(l) >= 0
         /\ ServiceFare(a) \in Int
         /\ ServiceFare(a) = 50 + 7 * a.itemCount + LocationFare(a.pickup) + LocationFare(a.drop)
<1>1. a.itemCount \in Int /\ a.itemCount > 0
  BY NoneIsNothing DEF AssistValid, Positive, Payload
<1>2. a.goodsType = "allowed"
  BY DEF AssistValid, IsProhibitedGoods, Payload
<1>3. a.maxItemWeightKg \notin {None, Unreadable} => a.maxItemWeightKg <= 50
  BY DEF AssistValid, IsProhibitedGoods, Payload, MaxItemWeightKg
<1>4. /\ a.pickup \in Location \cup {None} /\ LocationValid(a.pickup)
      /\ a.drop \in Location \cup {None} /\ LocationValid(a.drop)
  BY DEF AssistValid, Payload
<1>5. /\ a.pickup # None /\ BillableFloorCount(a.pickup) \in Nat /\ NoLift(a.pickup) \in {0, 1}
      /\ LocationFare(a.pickup) = BillableFloorCount(a.pickup) * 100 + NoLift(a.pickup) * 150
      /\ LocationFare(a.pickup) >= 0
  BY <1>4, LocationPriced
<1>6. /\ a.drop # None /\ BillableFloorCount(a.drop) \in Nat /\ NoLift(a.drop) \in {0, 1}
      /\ LocationFare(a.drop) = BillableFloorCount(a.drop) * 100 + NoLift(a.drop) * 150
      /\ LocationFare(a.drop) >= 0
  BY <1>4, LocationPriced
<1>7. ServiceFare(a) = 50 + a.itemCount * 7
        + (BillableFloorCount(a.pickup) + BillableFloorCount(a.drop)) * 100
        + (NoLift(a.pickup) + NoLift(a.drop)) * 150
  BY DEF ServiceFare, BaseServiceFee, PerItemRate, PerFloorRate, NoLiftSurcharge
<1> QED
  BY <1>1, <1>2, <1>3, <1>5, <1>6, <1>7

\* What a booking stores is nothing or an add-on with its fare.
LEMMA ProcessedType ==
  ASSUME NEW a \in Assists, NEW size \in Sizes, Accepts(a, size)
  PROVE  /\ ProcessLoadAssist(a) \in StoredAssist \cup {None}
         /\ ProcessLoadAssist(a) # None =>
              /\ a \in Payload /\ a.selected = "true" /\ AssistValid(a)
              /\ size \in LoadAssistParcelSizes
              /\ ProcessLoadAssist(a).assist = a
              /\ ProcessLoadAssist(a).serviceFare = ServiceFare(a)
<1>1. CASE Selected(a)
  <2>1. a \in Payload /\ a.selected = "true" /\ AssistValid(a) /\ size \in LoadAssistParcelSizes
    BY <1>1, ParcelsAssumption DEF Selected, Accepts
  <2>2. ServiceFare(a) \in Int
    BY <2>1, ValidIsPriced
  <2>3. ProcessLoadAssist(a) = [assist |-> a, serviceFare |-> ServiceFare(a)]
    BY <1>1 DEF ProcessLoadAssist
  <2> QED
    BY <2>1, <2>2, <2>3 DEF StoredAssist
<1>2. CASE ~Selected(a)
  BY <1>2 DEF ProcessLoadAssist
<1> QED
  BY <1>1, <1>2

-----------------------------------------------------------------------------
(* The estimate *)

LEMMA FareType == ASSUME NEW t \in Int PROVE FareForDistance(t, 0) \in Int
<1>1. AtLeast(AtLeast(t, 0) * PerKmRate, 0 * 10) \in Int
  BY DEF AtLeast, PerKmRate
<1> QED
  BY <1>1, RoundTen DEF FareForDistance

\* The fare of any distance, in terms of the distance that counts.
LEMMA FareOfPositive ==
  ASSUME NEW tenths \in Int
  PROVE  FareForDistance(tenths, 0) = Round(19 * AtLeast(tenths, 0), 10)
<1>1. AtLeast(AtLeast(tenths, 0) * PerKmRate, 0 * 10) = 19 * AtLeast(tenths, 0)
  BY DEF AtLeast, PerKmRate
<1> QED
  BY <1>1 DEF FareForDistance

LEMMA FareRounded ==
  ASSUME NEW tenths \in Int, NEW t, t = AtLeast(tenths, 0),
         NEW fare, fare = FareForDistance(tenths, 0)
  PROVE  /\ 2 * (10 * fare - 19 * t) \in -10 .. 10
         /\ 2 * (10 * fare - 19 * t) \in {-10, 10} => fare % 2 = 0
         /\ fare <= FareForDistance(t + 1, 0)
         /\ t = 100 => fare = 190
         /\ t = 25 => fare = 48
<1>1. t \in Nat /\ 19 * t \in Int
  BY DEF AtLeast
<1>2. fare = Round(19 * t, 10)
  BY FareOfPositive
<1>3. /\ fare \in Int /\ 10 * fare - 19 * t \in -5 .. 5
      /\ 10 * fare - 19 * t \in {-5, 5} => fare % 2 = 0
  BY <1>1, <1>2, RoundTen
<1>4. fare <= FareForDistance(t + 1, 0)
  <2>1. t + 1 \in Nat /\ 19 * (t + 1) \in Int /\ 19 * t <= 19 * (t + 1)
    BY <1>1
  <2>2. FareForDistance(t + 1, 0) = Round(19 * (t + 1), 10)
    BY <2>1, FareIsRounded
  <2>3. Round(19 * t, 10) <= Round(19 * (t + 1), 10)
    BY <1>1, <2>1, RoundTenMonotone
  <2> QED
    BY <1>2, <2>2, <2>3
<1> QED
  BY <1>1, <1>3, <1>4

-----------------------------------------------------------------------------
(* Types *)

Types ==
    /\ bookings \in [Bookings -> Booking]
    /\ vehicles \in [Drivers -> Vehicles]
    /\ rejections \subseteq Drivers \X Bookings
    /\ poll \in [Drivers -> Poll]
    /\ quote \in Quote \cup {None}
    /\ offers \in [Drivers -> SUBSET Bookings]
    /\ settled \in [Drivers -> SUBSET Bookings]

\* A poll has a vehicle wherever the next step looks at it.
PollsReady ==
    \A d \in Drivers : poll[d].phase \in {"sweep", "bookings"} => poll[d].vehicle # None

LEMMA TypeOKParts == TypeOK <=> Types /\ PollsReady
BY DEF TypeOK, Types, PollsReady

\* A row whose status changes stays a row.
LEMMA SetStatusType ==
  ASSUME Types, NEW b \in Bookings, NEW status \in BookingStatus, NEW d \in Drivers \cup {None},
         SetStatus(b, status, d)
  PROVE  bookings' \in [Bookings -> Booking]
<1> DEFINE row == [bookings[b] EXCEPT !.status = status, !.driver = d, !.stale = FALSE]
<1>1. row \in Booking
  <2>1. bookings[b] \in Booking
    BY DEF Types
  <2> QED
    BY <2>1 DEF Booking
<1>2. bookings' = [bookings EXCEPT ![b] = row]
  <2>1. bookings \in [Bookings -> Booking] /\ bookings[b] \in Booking
    BY DEF Types
  <2> QED
    BY <2>1 DEF SetStatus, Booking
<1> HIDE DEF row
<1> QED
  BY <1>1, <1>2 DEF Types

LEMMA SetPollType ==
  ASSUME Types, NEW d \in Drivers, NEW q \in Poll, SetPoll(d, q)
  PROVE  poll' \in [Drivers -> Poll]
BY DEF Types, SetPoll

LEMMA VehicleOfType ==
  ASSUME Types, NEW d \in Drivers
  PROVE  VehicleOf(d) \in Vehicles /\ VehicleOf(d) # None
BY NoneIsNothing DEF Types, VehicleOf, Poll

LEMMA TypesInvariant == Spec => [](Types /\ PollsReady)
<1>1. Init => Types /\ PollsReady
  BY NoPollType DEF Init, Types, PollsReady, Booking, BookingStatus, NoPoll
<1>2. Types /\ PollsReady /\ [Next]_vars => Types' /\ PollsReady'
  <2> SUFFICES ASSUME Types, PollsReady, [Next]_vars PROVE Types' /\ PollsReady'
    OBVIOUS
  <2>1. ASSUME NEW tenths \in Distances, FareEstimate(tenths) PROVE Types' /\ PollsReady'
    <3>1. FareForDistance(tenths, 0) \in Int
      BY ParcelsAssumption, FareType
    <3>2. quote' \in Quote
      BY <2>1, <3>1 DEF FareEstimate, Quote
    <3> QED
      BY <2>1, <3>2 DEF FareEstimate, Types, PollsReady
  <2>2. ASSUME NEW b \in Bookings, NEW size \in Sizes, NEW a \in Assists,
               CreateParcelBooking(b, size, a)
        PROVE  Types' /\ PollsReady'
    <3>1. ProcessLoadAssist(a) \in StoredAssist \cup {None}
      BY <2>2, ProcessedType DEF CreateParcelBooking
    <3>2. [status |-> "PENDING", size |-> size, stale |-> FALSE,
           load_assist |-> ProcessLoadAssist(a), driver |-> None] \in Booking
      BY <3>1 DEF Booking, BookingStatus
    <3>3. bookings' \in [Bookings -> Booking]
      BY <2>2, <3>2 DEF CreateParcelBooking, Types
    <3> QED
      BY <2>2, <3>3 DEF CreateParcelBooking, Types, PollsReady
  <2>3. ASSUME NEW b \in Bookings, EndBooking(b) PROVE Types' /\ PollsReady'
    <3>1. bookings[b].driver \in Drivers \cup {None}
      BY DEF Types, Booking
    <3>2. bookings' \in [Bookings -> Booking]
      BY <2>3, <3>1, SetStatusType DEF EndBooking, BookingStatus
    <3> QED
      BY <2>3, <3>2 DEF EndBooking, SetStatus, Types, PollsReady
  <2>4. ASSUME NEW b \in Bookings, RequestGoesStale(b) PROVE Types' /\ PollsReady'
    BY <2>4 DEF RequestGoesStale, Types, PollsReady, Booking
  <2>5. ASSUME NEW d \in Drivers, NEW v \in Vehicles, UpdateDriverProfile(d, v)
        PROVE  Types' /\ PollsReady'
    BY <2>5 DEF UpdateDriverProfile, Types, PollsReady
  <2>6. ASSUME NEW d \in Drivers, NEW b \in Bookings, RejectRide(d, b) PROVE Types' /\ PollsReady'
    BY <2>6 DEF RejectRide, Types, PollsReady
  <2>7. ASSUME NEW d \in Drivers, NEW b \in Bookings, AcceptRide(d, b) PROVE Types' /\ PollsReady'
    <3>1. bookings' \in [Bookings -> Booking]
      BY <2>7, SetStatusType DEF AcceptRide, BookingStatus
    <3> QED
      BY <2>7, <3>1 DEF AcceptRide, SetStatus, Types, PollsReady
  <2>8. ASSUME NEW d \in Drivers, NEW b \in Bookings, CancelRide(d, b) PROVE Types' /\ PollsReady'
    <3>1. bookings' \in [Bookings -> Booking]
      BY <2>8, SetStatusType DEF CancelRide, BookingStatus
    <3> QED
      BY <2>8, <3>1 DEF CancelRide, SetStatus, Types, PollsReady
  <2>9. ASSUME NEW d \in Drivers, PollAvailableRides(d) PROVE Types' /\ PollsReady'
    <3> DEFINE q == [phase |-> "sweep", vehicle |-> vehicles[d], rejected |-> {}]
    <3>1. q \in Poll /\ q.vehicle # None
      BY NoneIsNothing DEF Types, Poll
    <3>2. poll' = [poll EXCEPT ![d] = q]
      BY <2>9 DEF PollAvailableRides, SetPoll
    <3>3. settled' \in [Drivers -> SUBSET Bookings]
      BY <2>9 DEF PollAvailableRides, Types, RejectedBy, StalePending
    <3> HIDE DEF q
    <3> QED
      BY <2>9, <3>1, <3>2, <3>3 DEF PollAvailableRides, SetPoll, Types, PollsReady
  <2>10. ASSUME NEW d \in Drivers, SweepStaleBookings(d) PROVE Types' /\ PollsReady'
    <3> DEFINE q == [poll[d] EXCEPT !.phase = "rejections",
                                    !.vehicle = IF StalePending # {} THEN None ELSE @]
    <3>1. q \in Poll /\ q.phase = "rejections"
      BY DEF Types, Poll
    <3>2. poll' = [poll EXCEPT ![d] = q]
      BY <2>10 DEF SweepStaleBookings, SetPoll
    <3>3. bookings' \in [Bookings -> Booking]
      BY <2>10 DEF SweepStaleBookings, Types, Booking, BookingStatus
    <3> HIDE DEF q
    <3> QED
      BY <2>10, <3>1, <3>2, <3>3 DEF SweepStaleBookings, SetPoll, Types, PollsReady
  <2>11. ASSUME NEW d \in Drivers, ReadRejectedIds(d) PROVE Types' /\ PollsReady'
    <3> DEFINE q == [phase |-> "bookings", vehicle |-> VehicleOf(d), rejected |-> RejectedIds(d)]
    <3>1. q \in Poll /\ q.vehicle # None
      BY VehicleOfType DEF Poll, RejectedIds, RejectedBy
    <3>2. poll' = [poll EXCEPT ![d] = q]
      BY <2>11 DEF ReadRejectedIds, SetPoll
    <3> HIDE DEF q
    <3> QED
      BY <2>11, <3>1, <3>2 DEF ReadRejectedIds, SetPoll, Types, PollsReady
  <2>12. ASSUME NEW d \in Drivers, AnswerPoll(d) PROVE Types' /\ PollsReady'
    <3>1. poll' = [poll EXCEPT ![d] = NoPoll] /\ poll' \in [Drivers -> Poll]
      BY <2>12, NoPollType DEF AnswerPoll, SetPoll, Types
    <3>2. offers' \in [Drivers -> SUBSET Bookings] /\ settled' \in [Drivers -> SUBSET Bookings]
      BY <2>12 DEF AnswerPoll, Types, PendingBookings
    <3> QED
      BY <2>12, <3>1, <3>2 DEF AnswerPoll, SetPoll, Types, PollsReady, NoPoll
  <2>13. CASE UNCHANGED vars
    BY <2>13 DEF vars, Types, PollsReady
  <2> QED
    BY <2>1, <2>2, <2>3, <2>4, <2>5, <2>6, <2>7, <2>8, <2>9, <2>10, <2>11, <2>12, <2>13
    DEF Next, PollStep
<1> QED
  BY <1>1, <1>2, PTL DEF Spec

\* Rows, polls, offers and estimates keep their types, and a poll that compares
\* vehicles has one, whatever commits in its middle (TypeOK).
THEOREM TypeCorrect == Spec => []TypeOK
BY TypesInvariant, TypeOKParts, PTL

-----------------------------------------------------------------------------
(* Add-ons *)

\* What is stored with a booking, and with which sizes.
AssistStored ==
    \A b \in Bookings : bookings[b].load_assist # None =>
        /\ bookings[b].size \in LoadAssistParcelSizes
        /\ bookings[b].load_assist.assist \in Payload
        /\ bookings[b].load_assist.assist.selected = "true"
        /\ AssistValid(bookings[b].load_assist.assist)
        /\ bookings[b].load_assist.serviceFare = ServiceFare(bookings[b].load_assist.assist)

\* Every step but a creation keeps the size and the add-on of every booking.
LEMMA AssistKept ==
  ASSUME AssistStored,
         \A b \in Bookings : /\ bookings'[b].load_assist = bookings[b].load_assist
                             /\ bookings'[b].size = bookings[b].size
  PROVE  AssistStored'
BY DEF AssistStored

LEMMA SetStatusKeeps ==
  ASSUME Types, NEW b \in Bookings, NEW status, NEW d, SetStatus(b, status, d)
  PROVE  \A c \in Bookings : /\ bookings'[c].load_assist = bookings[c].load_assist
                             /\ bookings'[c].size = bookings[c].size
BY DEF Types, SetStatus, Booking

LEMMA AssistInvariant == Spec => []AssistStored
<1>1. Init => AssistStored
  BY DEF Init, AssistStored
<1>2. Types /\ AssistStored /\ [Next]_vars => AssistStored'
  <2> SUFFICES ASSUME Types, AssistStored, [Next]_vars PROVE AssistStored'
    OBVIOUS
  <2>1. ASSUME NEW tenths \in Distances, FareEstimate(tenths) PROVE AssistStored'
    BY <2>1, AssistKept DEF FareEstimate
  <2>2. ASSUME NEW b \in Bookings, NEW size \in Sizes, NEW a \in Assists,
               CreateParcelBooking(b, size, a)
        PROVE  AssistStored'
    <3> DEFINE row == [status |-> "PENDING", size |-> size, stale |-> FALSE,
                       load_assist |-> ProcessLoadAssist(a), driver |-> None]
    <3>1. row.size = size /\ row.load_assist = ProcessLoadAssist(a)
      OBVIOUS
    <3>2. bookings' = [bookings EXCEPT ![b] = row]
      BY <2>2 DEF CreateParcelBooking
    <3>3. ProcessLoadAssist(a) # None =>
            /\ size \in LoadAssistParcelSizes
            /\ a \in Payload /\ a.selected = "true" /\ AssistValid(a)
            /\ ProcessLoadAssist(a).assist = a
            /\ ProcessLoadAssist(a).serviceFare = ServiceFare(a)
      BY <2>2, ProcessedType DEF CreateParcelBooking
    <3> HIDE DEF row
    <3>4. ASSUME NEW c \in Bookings, bookings'[c].load_assist # None
          PROVE  /\ bookings'[c].size \in LoadAssistParcelSizes
                 /\ bookings'[c].load_assist.assist \in Payload
                 /\ bookings'[c].load_assist.assist.selected = "true"
                 /\ AssistValid(bookings'[c].load_assist.assist)
                 /\ bookings'[c].load_assist.serviceFare
                      = ServiceFare(bookings'[c].load_assist.assist)
      <4>1. CASE c = b
        <5>1. bookings'[c] = row
          BY <3>2, <4>1 DEF Types
        <5> QED
          BY <3>1, <3>3, <3>4, <5>1
      <4>2. CASE c # b
        <5>1. bookings'[c] = bookings[c]
          BY <3>2, <4>2 DEF Types
        <5> QED
          BY <3>4, <5>1 DEF AssistStored
      <4> QED
        BY <4>1, <4>2
    <3> QED
      BY <3>4 DEF AssistStored
  <2>3. ASSUME NEW b \in Bookings, EndBooking(b) PROVE AssistStored'
    BY <2>3, SetStatusKeeps, AssistKept DEF EndBooking
  <2>4. ASSUME NEW b \in Bookings, RequestGoesStale(b) PROVE AssistStored'
    BY <2>4, AssistKept DEF RequestGoesStale, Types, Booking
  <2>5. ASSUME NEW d \in Drivers, NEW v \in Vehicles, UpdateDriverProfile(d, v)
        PROVE  AssistStored'
    BY <2>5, AssistKept DEF UpdateDriverProfile
  <2>6. ASSUME NEW d \in Drivers, NEW b \in Bookings, RejectRide(d, b) PROVE AssistStored'
    BY <2>6, AssistKept DEF RejectRide
  <2>7. ASSUME NEW d \in Drivers, NEW b \in Bookings, AcceptRide(d, b) PROVE AssistStored'
    BY <2>7, SetStatusKeeps, AssistKept DEF AcceptRide
  <2>8. ASSUME NEW d \in Drivers, NEW b \in Bookings, CancelRide(d, b) PROVE AssistStored'
    BY <2>8, SetStatusKeeps, AssistKept DEF CancelRide
  <2>9. ASSUME NEW d \in Drivers, PollAvailableRides(d) PROVE AssistStored'
    BY <2>9, AssistKept DEF PollAvailableRides
  <2>10. ASSUME NEW d \in Drivers, SweepStaleBookings(d) PROVE AssistStored'
    BY <2>10, AssistKept DEF SweepStaleBookings, Types, Booking
  <2>11. ASSUME NEW d \in Drivers, ReadRejectedIds(d) PROVE AssistStored'
    BY <2>11, AssistKept DEF ReadRejectedIds
  <2>12. ASSUME NEW d \in Drivers, AnswerPoll(d) PROVE AssistStored'
    BY <2>12, AssistKept DEF AnswerPoll
  <2>13. CASE UNCHANGED vars
    BY <2>13, AssistKept DEF vars
  <2> QED
    BY <2>1, <2>2, <2>3, <2>4, <2>5, <2>6, <2>7, <2>8, <2>9, <2>10, <2>11, <2>12, <2>13
    DEF Next, PollStep
<1> QED
  BY <1>1, <1>2, TypesInvariant, PTL DEF Spec

\* Whatever is sent, an add-on that was saved is complete and carries the fare that
\* the server computed, floor by floor (StoredAssistPriced).
THEOREM AddOnsArePriced == Spec => []StoredAssistPriced
<1>1. AssistStored => StoredAssistPriced
  <2> SUFFICES ASSUME AssistStored, NEW b \in Bookings, bookings[b].load_assist # None,
                      NEW s, s = bookings[b].load_assist, NEW a, a = s.assist
               PROVE  /\ a.selected = "true" /\ a.itemCount > 0 /\ a.goodsType = "allowed"
                      /\ a.maxItemWeightKg \notin {None, Unreadable} => a.maxItemWeightKg <= 50
                      /\ \A l \in {a.pickup, a.drop} : l # None /\ LocationFare(l) >= 0
                      /\ s.serviceFare =
                           50 + 7 * a.itemCount + LocationFare(a.pickup) + LocationFare(a.drop)
    BY DEF StoredAssistPriced
  <2>1. a \in Payload /\ a.selected = "true" /\ AssistValid(a) /\ s.serviceFare = ServiceFare(a)
    BY DEF AssistStored
  <2> QED
    BY <2>1, ValidIsPriced
<1> QED
  BY <1>1, AssistInvariant, PTL

\* The two lists of sizes agree: a parcel with the add-on is only answered to a
\* poll that read a loading vehicle (AssistNeedsLoadingVehicle).
THEOREM AddOnsNeedLoadingVehicles == Spec => AssistNeedsLoadingVehicle
<1> DEFINE Answers == \A d \in Drivers : AnswerPoll(d) =>
             \A b \in offers'[d] : bookings[b].load_assist # None => poll[d].vehicle = "loading"
<1>1. Types /\ AssistStored /\ [Next]_vars => [Answers]_vars
  <2> SUFFICES ASSUME Types, AssistStored, NEW d \in Drivers, AnswerPoll(d),
                      NEW b \in offers'[d], bookings[b].load_assist # None
               PROVE  poll[d].vehicle = "loading"
    OBVIOUS
  <2>1. b \in Bookings /\ DriverCanCarryParcel(poll[d].vehicle, bookings[b].size)
    BY DEF AnswerPoll, Types, PendingBookings
  <2>2. bookings[b].size \in LoadAssistParcelSizes
    BY <2>1 DEF AssistStored
  <2> QED
    BY <2>1, <2>2 DEF DriverCanCarryParcel, SmallParcelSizes, LoadAssistParcelSizes
<1> QED
  BY <1>1, TypesInvariant, AssistInvariant, PTL DEF Spec, AssistNeedsLoadingVehicle

-----------------------------------------------------------------------------
(* Estimates *)

QuoteIsFare == quote # None => /\ quote.tenths \in Int
                               /\ quote.fare = FareForDistance(quote.tenths, 0)

\* An estimate is the rounded fare of its distance (EstimateRounded).
THEOREM EstimatesAreRounded == Spec => []EstimateRounded
<1>1. Init => QuoteIsFare
  BY DEF Init, QuoteIsFare
<1>2. QuoteIsFare /\ [Next]_vars => QuoteIsFare'
  <2> SUFFICES ASSUME QuoteIsFare, [Next]_vars PROVE QuoteIsFare'
    OBVIOUS
  <2>1. ASSUME NEW tenths \in Distances, FareEstimate(tenths) PROVE QuoteIsFare'
    BY <2>1, ParcelsAssumption DEF FareEstimate, QuoteIsFare
  <2>2. ASSUME NEW b \in Bookings, NEW size \in Sizes, NEW a \in Assists,
               CreateParcelBooking(b, size, a)
        PROVE  QuoteIsFare'
    BY <2>2 DEF CreateParcelBooking, QuoteIsFare
  <2>3. CASE quote' = quote
    BY <2>3 DEF QuoteIsFare
  <2> QED
    BY <2>1, <2>2, <2>3
    DEF Next, EndBooking, RequestGoesStale, UpdateDriverProfile, RejectRide, AcceptRide,
        CancelRide, PollStep, PollAvailableRides, SweepStaleBookings, ReadRejectedIds,
        AnswerPoll, SetStatus, SetPoll, vars
<1>3. QuoteIsFare => EstimateRounded
  BY FareRounded DEF QuoteIsFare, EstimateRounded
<1> QED
  BY <1>1, <1>2, <1>3, PTL DEF Spec

-----------------------------------------------------------------------------
(* Polls *)

\* A booking that no poll may answer any more.
Gone(b) == bookings[b].status \notin {"PENDING", "unused"}

\* What was settled before a poll began is rejected, gone or, until the poll has
\* swept, still stale; what it has read of the rejections stays with it.
PollsHonest ==
    \A d \in Drivers : \A b \in settled[d] :
        /\ poll[d].phase # "idle"
        /\ Gone(b) \/ <<d, b>> \in rejections \/ b \in StalePending
        /\ poll[d].phase # "sweep" => Gone(b) \/ <<d, b>> \in rejections
        /\ poll[d].phase = "bookings" => Gone(b) \/ b \in poll[d].rejected

\* Steps that begin, continue or end no poll only ever settle more.
LEMMA HonestKept ==
  ASSUME Types, PollsHonest, poll' = poll, settled' = settled,
         rejections \subseteq rejections',
         \A b \in Bookings : /\ Gone(b) => Gone(b)'
                             /\ b \in StalePending => Gone(b)' \/ b \in StalePending'
  PROVE  PollsHonest'
<1> SUFFICES ASSUME NEW d \in Drivers, NEW b \in settled[d]
             PROVE  /\ poll[d].phase # "idle"
                    /\ Gone(b)' \/ <<d, b>> \in rejections' \/ b \in StalePending'
                    /\ poll[d].phase # "sweep" => Gone(b)' \/ <<d, b>> \in rejections'
                    /\ poll[d].phase = "bookings" => Gone(b)' \/ b \in poll[d].rejected
  BY DEF PollsHonest
<1>1. b \in Bookings
  BY DEF Types
<1> QED
  BY <1>1 DEF PollsHonest

\* So does a step of another driver's poll.
LEMMA HonestElsewhere ==
  ASSUME Types, PollsHonest, NEW d \in Drivers,
         \A e \in Drivers \ {d} : poll'[e] = poll[e] /\ settled'[e] = settled[e],
         rejections' = rejections,
         \A b \in Bookings : /\ Gone(b) => Gone(b)'
                             /\ b \in StalePending => Gone(b)' \/ b \in StalePending',
         \A b \in settled'[d] :
            /\ poll'[d].phase # "idle"
            /\ Gone(b)' \/ <<d, b>> \in rejections \/ b \in StalePending'
            /\ poll'[d].phase # "sweep" => Gone(b)' \/ <<d, b>> \in rejections
            /\ poll'[d].phase = "bookings" => Gone(b)' \/ b \in poll'[d].rejected
  PROVE  PollsHonest'
<1> SUFFICES ASSUME NEW e \in Drivers, NEW b \in settled'[e]
             PROVE  /\ poll'[e].phase # "idle"
                    /\ Gone(b)' \/ <<e, b>> \in rejections \/ b \in StalePending'
                    /\ poll'[e].phase # "sweep" => Gone(b)' \/ <<e, b>> \in rejections
                    /\ poll'[e].phase = "bookings" => Gone(b)' \/ b \in poll'[e].rejected
  BY DEF PollsHonest
<1>1. CASE e = d
  BY <1>1
<1>2. CASE e # d
  <2>1. poll'[e] = poll[e] /\ settled'[e] = settled[e]
    BY <1>2
  <2>2. b \in settled[e] /\ b \in Bookings
    BY <2>1 DEF Types
  <2> QED
    BY <2>1, <2>2 DEF PollsHonest
<1> QED
  BY <1>1, <1>2

\* No status brings a booking back that is gone.
LEMMA StatusGone ==
  ASSUME Types, NEW b \in Bookings, NEW status \in {"ACCEPTED", "over"}, NEW d,
         SetStatus(b, status, d)
  PROVE  \A c \in Bookings : /\ Gone(c) => Gone(c)'
                             /\ c \in StalePending => Gone(c)' \/ c \in StalePending'
<1> SUFFICES ASSUME NEW c \in Bookings
             PROVE  /\ Gone(c) => Gone(c)'
                    /\ c \in StalePending => Gone(c)' \/ c \in StalePending'
  OBVIOUS
<1>1. CASE c = b
  <2>1. bookings'[c].status = status
    BY <1>1 DEF SetStatus, Types, Booking
  <2> QED
    BY <2>1 DEF Gone
<1>2. CASE c # b
  <2>1. bookings'[c] = bookings[c]
    BY <1>2 DEF SetStatus, Types
  <2> QED
    BY <2>1 DEF Gone, StalePending
<1> QED
  BY <1>1, <1>2

LEMMA HonestInvariant == Spec => []PollsHonest
<1>1. Init => PollsHonest
  BY DEF Init, PollsHonest
<1>2. Types /\ PollsHonest /\ [Next]_vars => PollsHonest'
  <2> SUFFICES ASSUME Types, PollsHonest, [Next]_vars PROVE PollsHonest'
    OBVIOUS
  <2>1. ASSUME NEW tenths \in Distances, FareEstimate(tenths) PROVE PollsHonest'
    BY <2>1, HonestKept DEF FareEstimate, Gone, StalePending
  <2>2. ASSUME NEW b \in Bookings, NEW size \in Sizes, NEW a \in Assists,
               CreateParcelBooking(b, size, a)
        PROVE  PollsHonest'
    <3>1. bookings[b].status = "unused" /\ \A c \in Bookings \ {b} : bookings'[c] = bookings[c]
      BY <2>2 DEF CreateParcelBooking, Types
    <3>2. \A c \in Bookings : /\ Gone(c) => Gone(c)'
                              /\ c \in StalePending => Gone(c)' \/ c \in StalePending'
      BY <3>1 DEF Gone, StalePending
    <3> QED
      BY <2>2, <3>2, HonestKept DEF CreateParcelBooking
  <2>3. ASSUME NEW b \in Bookings, EndBooking(b) PROVE PollsHonest'
    <3>1. SetStatus(b, "over", bookings[b].driver) /\ rejections' = rejections
      BY <2>3 DEF EndBooking
    <3> QED
      BY <3>1, StatusGone, HonestKept DEF SetStatus
  <2>4. ASSUME NEW b \in Bookings, RequestGoesStale(b) PROVE PollsHonest'
    <3>1. /\ bookings'[b].status = "PENDING" /\ bookings'[b].stale
          /\ \A c \in Bookings \ {b} : bookings'[c] = bookings[c]
      BY <2>4 DEF RequestGoesStale, Types, Booking
    <3>2. ~Gone(b)
      BY <2>4 DEF RequestGoesStale, Gone
    <3>3. \A c \in Bookings : /\ Gone(c) => Gone(c)'
                              /\ c \in StalePending => Gone(c)' \/ c \in StalePending'
      BY <3>1, <3>2 DEF Gone, StalePending
    <3> QED
      BY <2>4, <3>3, HonestKept DEF RequestGoesStale
  <2>5. ASSUME NEW d \in Drivers, NEW v \in Vehicles, UpdateDriverProfile(d, v) PROVE PollsHonest'
    BY <2>5, HonestKept DEF UpdateDriverProfile, Gone, StalePending
  <2>6. ASSUME NEW d \in Drivers, NEW b \in Bookings, RejectRide(d, b) PROVE PollsHonest'
    BY <2>6, HonestKept DEF RejectRide, Gone, StalePending
  <2>7. ASSUME NEW d \in Drivers, NEW b \in Bookings, AcceptRide(d, b) PROVE PollsHonest'
    <3>1. SetStatus(b, "ACCEPTED", d) /\ rejections' = rejections
      BY <2>7 DEF AcceptRide
    <3> QED
      BY <3>1, StatusGone, HonestKept DEF SetStatus
  <2>8. ASSUME NEW d \in Drivers, NEW b \in Bookings, CancelRide(d, b) PROVE PollsHonest'
    <3>1. SetStatus(b, "over", d) /\ rejections \subseteq rejections'
      BY <2>8 DEF CancelRide
    <3> QED
      BY <3>1, StatusGone, HonestKept DEF SetStatus
  <2>9. ASSUME NEW d \in Drivers, PollAvailableRides(d) PROVE PollsHonest'
    <3>1. /\ poll'[d].phase = "sweep"
          /\ settled'[d] = RejectedBy(d) \cup StalePending
          /\ \A e \in Drivers \ {d} : poll'[e] = poll[e] /\ settled'[e] = settled[e]
          /\ rejections' = rejections /\ bookings' = bookings
      BY <2>9 DEF PollAvailableRides, SetPoll, Types
    <3> QED
      BY <3>1, HonestElsewhere DEF RejectedBy, StalePending, Gone
  <2>10. ASSUME NEW d \in Drivers, SweepStaleBookings(d) PROVE PollsHonest'
    <3>1. /\ poll[d].phase = "sweep" /\ poll'[d].phase = "rejections"
          /\ settled' = settled /\ rejections' = rejections
          /\ \A e \in Drivers \ {d} : poll'[e] = poll[e]
      BY <2>10 DEF SweepStaleBookings, SetPoll, Types, Poll
    <3>2. \A c \in Bookings : /\ c \in StalePending => Gone(c)'
                              /\ Gone(c) => Gone(c)'
      <4> SUFFICES ASSUME NEW c \in Bookings
                   PROVE  (c \in StalePending => Gone(c)') /\ (Gone(c) => Gone(c)')
        OBVIOUS
      <4>1. bookings'[c] = IF c \in StalePending
                           THEN [bookings[c] EXCEPT !.status = "over", !.stale = FALSE]
                           ELSE bookings[c]
        BY <2>10 DEF SweepStaleBookings
      <4>2. c \in StalePending => bookings'[c].status = "over"
        BY <4>1 DEF Types, Booking
      <4> QED
        BY <4>1, <4>2 DEF Gone
    <3>3. settled[d] \subseteq Bookings
      BY DEF Types
    <3> QED
      BY <3>1, <3>2, <3>3, HonestElsewhere DEF PollsHonest
  <2>11. ASSUME NEW d \in Drivers, ReadRejectedIds(d) PROVE PollsHonest'
    <3>1. /\ poll[d].phase = "rejections" /\ poll'[d].phase = "bookings"
          /\ poll'[d].rejected = RejectedBy(d)
          /\ settled' = settled /\ rejections' = rejections /\ bookings' = bookings
          /\ \A e \in Drivers \ {d} : poll'[e] = poll[e]
      BY <2>11 DEF ReadRejectedIds, SetPoll, Types, RejectedIds
    <3>2. \A b \in settled[d] : Gone(b) \/ (<<d, b>> \in rejections /\ b \in poll'[d].rejected)
      BY <3>1 DEF PollsHonest, RejectedBy, Types
    <3>3. \A b \in Bookings : (Gone(b)' <=> Gone(b)) /\ (b \in StalePending' <=> b \in StalePending)
      BY <3>1 DEF Gone, StalePending
    <3>4. settled[d] \subseteq Bookings
      BY DEF Types
    <3> QED
      BY <3>1, <3>2, <3>3, <3>4, HonestElsewhere
  <2>12. ASSUME NEW d \in Drivers, AnswerPoll(d) PROVE PollsHonest'
    <3>1. /\ settled'[d] = {}
          /\ rejections' = rejections /\ bookings' = bookings
          /\ \A e \in Drivers \ {d} : poll'[e] = poll[e] /\ settled'[e] = settled[e]
      BY <2>12 DEF AnswerPoll, SetPoll, Types
    <3> QED
      BY <3>1, HonestElsewhere DEF Gone, StalePending
  <2>13. CASE UNCHANGED vars
    BY <2>13, HonestKept DEF vars, Gone, StalePending
  <2> QED
    BY <2>1, <2>2, <2>3, <2>4, <2>5, <2>6, <2>7, <2>8, <2>9, <2>10, <2>11, <2>12, <2>13
    DEF Next, PollStep
<1> QED
  BY <1>1, <1>2, TypesInvariant, PTL DEF Spec

\* Whatever commits while a poll is under way, its answer holds nothing that the
\* driver had rejected or that had gone stale before it began (SettledNotOffered).
THEOREM SettledStaysSettled == Spec => SettledNotOffered
<1> DEFINE Answers == \A d \in Drivers : AnswerPoll(d) => offers'[d] \cap settled[d] = {}
<1>1. Types /\ PollsHonest /\ [Next]_vars => [Answers]_vars
  <2> SUFFICES ASSUME Types, PollsHonest, NEW d \in Drivers, AnswerPoll(d),
                      NEW b \in settled[d], b \in offers'[d]
               PROVE  FALSE
    OBVIOUS
  <2>1. bookings[b].status = "PENDING" /\ b \notin poll[d].rejected
    BY DEF AnswerPoll, Types, PendingBookings
  <2>2. poll[d].phase = "bookings"
    BY DEF AnswerPoll
  <2> QED
    BY <2>1, <2>2 DEF PollsHonest, Gone
<1> QED
  BY <1>1, TypesInvariant, HonestInvariant, PTL DEF Spec, SettledNotOffered
=============================================================================
