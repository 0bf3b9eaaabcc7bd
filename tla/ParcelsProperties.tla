------------------------- MODULE ParcelsProperties -------------------------
(* What is claimed of the parcel dispatch of module Parcels. *)
EXTENDS Parcels

\* Rows, polls and answers keep their types; a poll that reads the bookings has
\* a vehicle to compare them with.
TypeOK ==
    /\ bookings \in [Bookings -> Booking]
    /\ vehicles \in [Drivers -> Vehicles]
    /\ rejections \subseteq Drivers \X Bookings
    /\ poll \in [Drivers -> Poll]
    /\ quote \in Quote \cup {None}
    /\ offers \in [Drivers -> SUBSET Bookings]
    /\ settled \in [Drivers -> SUBSET Bookings]
    /\ \A d \in Drivers : poll[d].phase \in {"sweep", "bookings"} => poll[d].vehicle # None

\* What one location adds to the fare of the add-on, floor by floor.
LocationFare(l) ==
    IF l.isGroundFloor = "true" THEN 0
    ELSE 100 * l.floorNumber + (IF l.liftAvailable = "true" THEN 0 ELSE 150)

\* An add-on that was saved was asked for, is complete, and carries the fare the
\* server computed from it: at least one item is billed and no floor is negative,
\* whatever was sent (_process_load_assist, calculate_service_fare).
StoredAssistPriced ==
    \A b \in Bookings : bookings[b].load_assist # None =>
        LET s == bookings[b].load_assist
            a == s.assist
        IN  /\ a.selected = "true" /\ a.itemCount > 0 /\ a.goodsType = "allowed"
            /\ a.maxItemWeightKg \notin {None, Unreadable} => a.maxItemWeightKg <= 50
            /\ \A l \in {a.pickup, a.drop} : l # None /\ LocationFare(l) >= 0
            /\ s.serviceFare =
                 50 + 7 * a.itemCount + LocationFare(a.pickup) + LocationFare(a.drop)

\* A parcel with the add-on is only ever answered to a poll that read a loading
\* vehicle: the two lists of parcel sizes agree ("Must stay in sync with
\* _SMALL_PARCEL_SIZES", booking/router.py).
AssistNeedsLoadingVehicle ==
    [][\A d \in Drivers : AnswerPoll(d) =>
         \A b \in offers'[d] : bookings[b].load_assist # None => poll[d].vehicle = "loading"]_vars

\* A request the driver had dismissed or cancelled, or that had gone stale,
\* before the poll began is not in its answer, whatever commits while the poll
\* is under way ("never offered again", "never lingers here", get_available_rides).
SettledNotOffered ==
    [][\A d \in Drivers : AnswerPoll(d) => offers'[d] \cap settled[d] = {}]_vars

\* A parcel that stays pending and that the driver's vehicle can carry is offered
\* over and over, unless this driver rejected it; another driver's rejection does
\* not matter ("remains visible to every other driver", reject_ride).  Loading
\* vehicles carry every size, the others the small ones.
Due(d, b) ==
    /\ bookings[b].status = "PENDING"
    /\ <<d, b>> \notin rejections
    /\ IF bookings[b].size \in SmallParcelSizes THEN vehicles[d] # "unknown"
                                               ELSE vehicles[d] = "loading"

OfferedWhileDue ==
    \A d \in Drivers, b \in Bookings : <>[]Due(d, b) => []<>(b \in offers[d])

\* An estimate is within half a rupee of the distance at 19 rupees a kilometre, an
\* even number if it is exactly half a rupee away, and one more tenth of a kilometre
\* never costs less; a negative distance is quoted as none.  The examples are those
\* of fare_for_distance.
EstimateRounded ==
    quote # None =>
        LET t == AtLeast(quote.tenths, 0)
            off == 2 * (10 * quote.fare - 19 * t)
        IN  /\ off \in -10 .. 10
            /\ off \in {-10, 10} => quote.fare % 2 = 0
            /\ quote.fare <= FareForDistance(t + 1, 0)
            /\ t = 100 => quote.fare = 190
            /\ t = 25 => quote.fare = 48

\* The app polls again once an answer has come, and the server answers.
Fairness == \A d \in Drivers : WF_vars(PollStep(d))

FairSpec == Spec /\ Fairness
=============================================================================
