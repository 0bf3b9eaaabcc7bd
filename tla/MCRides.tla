------------------------------ MODULE MCRides ------------------------------
(* Instances of the ride core for TLC. *)
EXTENDS RidesProperties, TLC

CONSTANTS b1, b2, d1, d2, p1, p2

PassengerHandlers == {"create", "list", "patch", "delete"}
RideHandlers == {"accept", "arrived", "start", "verify", "complete", "cancel"}
DriverHandlers == {"go_online", "go_offline", "available", "reject"} \cup RideHandlers
DocumentHandlers == {"upload", "approve", "reject_documents"}

\* What the app's own screens send: an end of the ride, or its cancellation.
EndsOnly == TerminalStates
CancelsOnly == {"CANCELLED"}

Unchanged == {None}
Slots == Permutations(Procs)

\* One run per question: the handlers that can interfere in it.
SerialHandlers == PassengerHandlers \cup DocumentHandlers \cup (DriverHandlers \ {"reject"})
RaceHandlers == {"create", "patch", "delete", "reject", "set_status"} \cup (RideHandlers \ {"complete", "cancel"})
GateHandlers == {"approve", "reject_documents", "create", "patch", "accept", "go_online"}
TripHandlers == {"create", "accept", "complete"}
=============================================================================
