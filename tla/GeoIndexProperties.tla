--------------------------- MODULE GeoIndexProperties ---------------------------
(* What is claimed of the live driver index of module GeoIndex. *)
EXTENDS GeoIndex

\* Keys, rows and requests keep their types; in particular a heartbeat that
\* writes to Redis knows its driver and position.
TypeOK ==
    /\ redis \in {"up", "down"}
    /\ index \in [Drivers -> Places \cup {None}]
    /\ alive \in SUBSET Drivers
    /\ rows \in [Drivers -> DriverRow]
    /\ beat \in [Beats -> Beat]
    /\ \A h \in Beats : beat[h].phase # "idle" => beat[h].driver # None /\ beat[h].place # None
    /\ search \in [Searches -> Search]
    /\ steady \in SUBSET Drivers

\* nearby reports, from Redis, only drivers whose alive marker existed at some
\* moment of the search, whatever expired or was evicted while it ran.
ReportedWasAlive ==
    \A q \in Searches : search[q].source = "redis" => search[q].results \subseteq search[q].seen

\* A driver whose heartbeats keep the marker alive stays in the index: no search,
\* however old, evicts it (heartbeat, and the opportunistic ZREM of nearby).
SteadyIsIndexed == \A d \in steady : d \in alive /\ index[d] # None

\* A driver that any search can report and whose row has not been deleted has a
\* position in it, so that the fallback to the database knows every indexed
\* driver (driver_heartbeat).
IndexedIsDurable ==
    \A d \in Drivers : index[d] # None /\ rows[d].there => rows[d].location # None

\* A driver whose row is gone, whose marker has run out and of whom no heartbeat
\* has got past its ping.
Departed(d) ==
    /\ ~rows[d].there
    /\ d \notin alive
    /\ \A h \in Beats : beat[h].driver = d => beat[h].phase \notin {"geoadd", "alive"}

\* delete_account removes the row only.  Redis forgets the driver for good all
\* the same: once the marker has run out no heartbeat, not even one that had
\* saved its position before the row went, brings marker or index entry back.
DepartedStaysOut ==
    [][\A d \in Drivers : Departed(d) =>
          Departed(d)' /\ (index[d] = None => index'[d] = None)]_vars

-----------------------------------------------------------------------------
(* Liveness.  Riders poll while their map is open, the event loop runs what   *)
(* can run, and a marker that is not set again expires.  Nothing is assumed   *)
(* of drivers or of Redis.                                                    *)
Fairness ==
    /\ \A q \in Searches : WF_vars(GetNearbyDrivers(q) \/ SearchStep(q))
    /\ \A d \in Drivers : WF_vars(MarkerExpires(d))

FairSpec == Spec /\ Fairness

Quiet == \A h \in Beats : beat[h].phase = "idle"

\* Once the heartbeats have stopped and Redis stays up, the part of the index
\* that riders ask for empties, although a search sees only the Count nearest
\* and may find no more than members that are dead already (nearby).
DeadAreEvicted == (<>[](Quiet /\ redis = "up")) => <>[](InRange = {})
=============================================================================
