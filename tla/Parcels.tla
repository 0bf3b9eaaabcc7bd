------------------------------ MODULE Parcels ------------------------------
(***************************************************************************)
(* Dispatch of parcels: a parcel booking with its loading/unloading add-on *)
(* is created, and each driver's app polls for the requests that the       *)
(* driver may be offered.  The poll decides on the vehicle, the rejections *)
(* and the pending bookings, which it reads one after the other while      *)
(* other requests commit.  What happens to an accepted ride is the matter  *)
(* of module Rides; here its endpoints are one step each.                  *)
(***************************************************************************)
EXTENDS LoadAssist, Fares, FiniteSets

CONSTANTS
    Drivers,
    Bookings,       \* booking ids
    Vehicles,       \* vehicle types drivers register, by the keyword they contain
    Sizes,          \* parcel sizes passengers send
    Assists,        \* add-on payloads passengers send, None for no add-on
    Distances       \* distances that are asked for, in tenths of a kilometre

SmallParcelSizes == {"small_package", "medium_package"}
LoadAssistParcelSizes == {"large_package", "bulk_package"}

\* "unused" while the id is no row, "over" for COMPLETED and CANCELLED.
BookingStatus == {"unused", "PENDING", "ACCEPTED", "over"}

StoredAssist == [assist : Payload, serviceFare : Int]

ASSUME ParcelsAssumption ==
    /\ Vehicles \subseteq {"loading", "small", "unknown"}
    /\ Sizes \subseteq SmallParcelSizes \cup LoadAssistParcelSizes \cup {"other"}
    /\ Assists \subseteq Payload \cup {None}
    /\ Distances \subseteq Int
    /\ None \notin Payload \cup StoredAssist \cup Drivers \cup Vehicles \cup Sizes

Booking == [status : BookingStatus, size : Sizes \cup {None}, stale : BOOLEAN,
            load_assist : StoredAssist \cup {None}, driver : Drivers \cup {None}]

\* A poll in flight: the vehicle and the rejections as read; vehicle is None
\* while the row has to be read again, after the commit of the sweep.
Poll == [phase : {"idle", "sweep", "rejections", "bookings"},
         vehicle : Vehicles \cup {None},
         rejected : SUBSET Bookings]

Quote == [tenths : Distances, fare : Int]

NoPoll == [phase |-> "idle", vehicle |-> None, rejected |-> {}]

VARIABLES
    bookings,
    vehicles,       \* drivers.vehicle_type
    rejections,     \* driver_ride_rejections
    poll,           \* each driver's poll
    quote,          \* the estimate on the passenger's form, None while there is none
    offers,         \* the answer each driver saw last
    settled         \* history: what must not be in the answer of the poll under
                    \* way, rejected or stale before it began

vars == <<bookings, vehicles, rejections, poll, quote, offers, settled>>

Init ==
    /\ bookings = [b \in Bookings |-> [status |-> "unused", size |-> None, stale |-> FALSE,
                                       load_assist |-> None, driver |-> None]]
    /\ vehicles \in [Drivers -> Vehicles]
    /\ rejections = {}
    /\ poll = [d \in Drivers |-> NoPoll]
    /\ quote = None
    /\ offers = [d \in Drivers |-> {}]
    /\ settled = [d \in Drivers |-> {}]

-----------------------------------------------------------------------------
(* Creating: app/booking/router.py.  An operator that a comment calls a slip *)
(* is not part of the model: it is the definition after it with one mistake, *)
(* kept to show that the properties notice it.                               *)

Selected(a) == a # None /\ a.selected = "true"

\* fare_estimate, for the form that is about to be sent.
FareEstimate(tenths) ==
    /\ \E b \in Bookings : bookings[b].status = "unused"
    /\ quote' = [tenths |-> tenths, fare |-> FareForDistance(tenths, 0)]
    /\ UNCHANGED <<bookings, vehicles, rejections, poll, offers, settled>>

\* A slip: the sizes are not compared with the drivers' list.
AnySize(a, size) == Selected(a) => AssistValid(a)

\* The two refusals of _process_load_assist.
Accepts(a, size) == Selected(a) => size \in LoadAssistParcelSizes /\ AssistValid(a)

\* What _process_load_assist returns; an add-on that is not selected is dropped.
ProcessLoadAssist(a) ==
    IF Selected(a) THEN [assist |-> a, serviceFare |-> ServiceFare(a)] ELSE None

CreateParcelBooking(b, size, a) ==
    /\ bookings[b].status = "unused"
    /\ Accepts(a, size)
    /\ bookings' = [bookings EXCEPT ![b] = [status |-> "PENDING", size |-> size, stale |-> FALSE,
                                            load_assist |-> ProcessLoadAssist(a),
                                            driver |-> None]]
    /\ quote' = None
    /\ UNCHANGED <<vehicles, rejections, poll, offers, settled>>

\* The age of a booking only matters while it is pending.
SetStatus(b, status, d) ==
    /\ bookings' = [bookings EXCEPT ![b].status = status, ![b].driver = d, ![b].stale = FALSE]
    /\ UNCHANGED <<vehicles, poll, quote, offers, settled>>

\* The passenger completes or cancels it.
EndBooking(b) ==
    /\ bookings[b].status \in {"PENDING", "ACCEPTED"}
    /\ SetStatus(b, "over", bookings[b].driver)
    /\ UNCHANGED rejections

RequestGoesStale(b) ==
    /\ bookings[b].status = "PENDING"
    /\ ~bookings[b].stale
    /\ bookings' = [bookings EXCEPT ![b].stale = TRUE]
    /\ UNCHANGED <<vehicles, rejections, poll, quote, offers, settled>>

-----------------------------------------------------------------------------
(* Drivers: app/driver/router.py *)

UpdateDriverProfile(d, v) ==
    /\ vehicles' = [vehicles EXCEPT ![d] = v]
    /\ UNCHANGED <<bookings, rejections, poll, quote, offers, settled>>

RejectRide(d, b) ==
    /\ bookings[b].status # "unused"
    /\ rejections' = rejections \cup {<<d, b>>}
    /\ UNCHANGED <<bookings, vehicles, poll, quote, offers, settled>>

\* Any pending booking, offered or not.
AcceptRide(d, b) ==
    /\ bookings[b].status = "PENDING"
    /\ SetStatus(b, "ACCEPTED", d)
    /\ UNCHANGED rejections

CancelRide(d, b) ==
    /\ bookings[b].driver = d
    /\ SetStatus(b, "over", d)
    /\ rejections' = rejections \cup {<<d, b>>}

RejectedBy(d) == {b \in Bookings : <<d, b>> \in rejections}
StalePending == {b \in Bookings : bookings[b].status = "PENDING" /\ bookings[b].stale}

SetPoll(d, q) ==
    /\ poll' = [poll EXCEPT ![d] = q]
    /\ UNCHANGED <<vehicles, rejections, quote>>

\* get_available_rides: _get_driver reads the profile.
PollAvailableRides(d) ==
    /\ poll[d].phase = "idle"
    /\ SetPoll(d, [phase |-> "sweep", vehicle |-> vehicles[d], rejected |-> {}])
    /\ settled' = [settled EXCEPT ![d] = RejectedBy(d) \cup StalePending]
    /\ UNCHANGED <<bookings, offers>>

\* expire_stale_pending_bookings; if it commits, the session forgets the profile.
SweepStaleBookings(d) ==
    /\ poll[d].phase = "sweep"
    /\ bookings' = [b \in Bookings |->
                      IF b \in StalePending THEN [bookings[b] EXCEPT !.status = "over",
                                                                     !.stale = FALSE]
                                            ELSE bookings[b]]
    /\ SetPoll(d, [poll[d] EXCEPT !.phase = "rejections",
                                  !.vehicle = IF StalePending # {} THEN None ELSE @])
    /\ UNCHANGED <<offers, settled>>

\* A slip: whatever anybody rejected is left out.
RejectedByAnyone(d) == {b \in Bookings : \E e \in Drivers : <<e, b>> \in rejections}

\* A slip: dismissed requests come back with the next poll.
RejectedByNone(d) == {b \in {} : <<d, b>> \in rejections}

RejectedIds(d) == RejectedBy(d)

\* A slip: the profile the sweep made the session forget stays forgotten.
KeptVehicle(d) == poll[d].vehicle

\* driver.id, the filter's argument, reads a forgotten profile again.
VehicleOf(d) == IF poll[d].vehicle = None THEN vehicles[d] ELSE poll[d].vehicle

ReadRejectedIds(d) ==
    /\ poll[d].phase = "rejections"
    /\ SetPoll(d, [phase |-> "bookings",
                   vehicle |-> VehicleOf(d),
                   rejected |-> RejectedIds(d)])
    /\ UNCHANGED <<bookings, offers, settled>>

DriverCanCarryParcel(vehicle, size) ==
    \/ vehicle = "loading"
    \/ vehicle = "small" /\ size \in SmallParcelSizes

PendingBookings == {b \in Bookings : bookings[b].status = "PENDING"}

AnswerPoll(d) ==
    /\ poll[d].phase = "bookings"
    /\ offers' = [offers EXCEPT ![d] =
                    {b \in PendingBookings \ poll[d].rejected :
                        DriverCanCarryParcel(poll[d].vehicle, bookings[b].size)}]
    /\ SetPoll(d, NoPoll)
    /\ settled' = [settled EXCEPT ![d] = {}]
    /\ UNCHANGED bookings

PollStep(d) ==
    PollAvailableRides(d) \/ SweepStaleBookings(d) \/ ReadRejectedIds(d) \/ AnswerPoll(d)

Next ==
    \/ \E tenths \in Distances : FareEstimate(tenths)
    \/ \E b \in Bookings :
         \/ \E size \in Sizes, a \in Assists : CreateParcelBooking(b, size, a)
         \/ EndBooking(b) \/ RequestGoesStale(b)
    \/ \E d \in Drivers :
         \/ \E v \in Vehicles : UpdateDriverProfile(d, v)
         \/ \E b \in Bookings : RejectRide(d, b) \/ AcceptRide(d, b) \/ CancelRide(d, b)
         \/ PollStep(d)

Spec == Init /\ [][Next]_vars
=============================================================================
