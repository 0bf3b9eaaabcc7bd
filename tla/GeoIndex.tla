------------------------------- MODULE GeoIndex -------------------------------
(***************************************************************************)
(* The live driver index: app/geo.  A heartbeat saves the position in the  *)
(* driver's row and then writes the geo set and the alive marker to Redis; *)
(* a search reads the geo set, looks for the marker of each driver found,  *)
(* reports those that have one and evicts the others.                      *)
(*                                                                         *)
(* The endpoints are coroutines: they give way at every call to Redis.     *)
(* The pipelines are not transactions, so their commands are separate      *)
(* steps, between which the commands of other requests may run.            *)
(*                                                                         *)
(* A position is its distance from the riders, who all ask from one place. *)
(* The cached profiles (driver:{id}:meta), the note of the rider's last    *)
(* query and the pub/sub channel are left out: nothing here reads them     *)
(* to decide.                                                              *)
(***************************************************************************)
EXTENDS Integers, FiniteSets

CONSTANTS
    Drivers,
    Beats,      \* slots for heartbeats under way
    Searches,   \* slots for searches under way
    Places,     \* distances from the riders, in km
    Radius,     \* DEFAULT_RADIUS_KM
    Count,      \* DEFAULT_COUNT
    None

ASSUME GeoIndexAssumption ==
    /\ Places \subseteq Nat
    /\ Radius \in Nat
    /\ Count \in Nat
    /\ None \notin Drivers \cup Int

\* The columns of a driver's row that the index shares with the ride core, and
\* whether there still is a row.
DriverRow == [there : BOOLEAN, online : BOOLEAN, location : Places \cup {None}]

Beat == [phase : {"idle", "ping", "geoadd", "alive"},
         driver : Drivers \cup {None},
         place : Places \cup {None}]

\* A search under way, or the last one that was answered in the slot.
Search == [phase : {"idle", "ping", "geosearch", "exists", "evict"},
           source : {None, "redis", "database"},
           candidates : SUBSET Drivers,  \* found, the marker not looked at yet
           results : SUBSET Drivers,
           stale : SUBSET Drivers,
           seen : SUBSET Drivers]        \* history: had a marker meanwhile

VARIABLES
    redis,    \* is Redis reachable: "up" or "down"
    index,    \* drivers:online, per driver the position or None
    alive,    \* the drivers whose alive marker exists
    rows,     \* the driver rows
    beat,     \* the heartbeat in each slot
    search,   \* the search in each slot
    steady    \* history: indexed by a heartbeat that no eviction under way
              \* was about to undo, and never without a marker since

vars == <<redis, index, alive, rows, beat, search, steady>>

NoBeat == [phase |-> "idle", driver |-> None, place |-> None]
NoSearch == [phase |-> "idle", source |-> None, candidates |-> {}, results |-> {},
             stale |-> {}, seen |-> {}]

Init ==
    /\ redis = "up"
    /\ index = [d \in Drivers |-> None]
    /\ alive = {}
    /\ rows = [d \in Drivers |-> [there |-> TRUE, online |-> FALSE, location |-> None]]
    /\ beat = [h \in Beats |-> NoBeat]
    /\ search = [q \in Searches |-> NoSearch]
    /\ steady = {}

-----------------------------------------------------------------------------
(* An operator that a comment calls a slip is not part of the model: it is   *)
(* the definition after it with one plausible mistake.                       *)

\* A slip: the durable copy is forgotten.
NotSaved(d, x) == rows

\* driver_heartbeat writes the row first ...
Saved(d, x) == [rows EXCEPT ![d].location = x]

\* A slip: the position is read from the row before it is saved there.
ReceivedOld(d, x) == [phase |-> "ping", driver |-> d, place |-> rows[d].location]

Received(d, x) == [phase |-> "ping", driver |-> d, place |-> x]

DriverHeartbeat(h, d, x) ==
    /\ beat[h].phase = "idle"
    /\ rows[d].there
    /\ rows' = Saved(d, x)
    /\ beat' = [beat EXCEPT ![h] = Received(d, x)]
    /\ UNCHANGED <<redis, index, alive, search, steady>>

\* A slip: the profile is kept from before the commit and not read again.
PingWithOldProfile(h) ==
    /\ beat[h].phase = "ping"
    /\ redis = "up"
    /\ beat' = [beat EXCEPT ![h].phase = "geoadd"]
    /\ UNCHANGED <<redis, index, alive, rows, search, steady>>

\* ... and goes on if Redis answers the ping and the row, which the commit has
\* expired and the arguments of heartbeat read again, is still there.
PingBeforeBeat(h) ==
    /\ beat[h].phase = "ping"
    /\ redis = "up"
    /\ rows[beat[h].driver].there
    /\ beat' = [beat EXCEPT ![h].phase = "geoadd"]
    /\ UNCHANGED <<redis, index, alive, rows, search, steady>>

\* heartbeat: GEOADD drivers:online
GeoAdd(h) ==
    /\ beat[h].phase = "geoadd"
    /\ redis = "up"
    /\ index' = [index EXCEPT ![beat[h].driver] = beat[h].place]
    /\ beat' = [beat EXCEPT ![h].phase = "alive"]
    /\ UNCHANGED <<redis, alive, rows, search, steady>>

\* Is a search about to evict d?
Doomed(d) == \E q \in Searches : d \in search[q].stale

\* The search, if it is under way, saw the marker of d.
SawMarker(s, d) == IF s.phase = "idle" THEN s ELSE [s EXCEPT !.seen = @ \cup {d}]

\* heartbeat: SET driver:{id}:alive 1 EX 25
SetAlive(h) ==
    LET d == beat[h].driver IN
    /\ beat[h].phase = "alive"
    /\ redis = "up"
    /\ alive' = alive \cup {d}
    /\ steady' = IF index[d] # None /\ ~Doomed(d) THEN steady \cup {d} ELSE steady
    /\ search' = [q \in Searches |-> SawMarker(search[q], d)]
    /\ beat' = [beat EXCEPT ![h] = NoBeat]
    /\ UNCHANGED <<redis, index, rows>>

\* The heartbeat ends early: Redis does not answer, the row has been deleted, or
\* the server went down.
BeatFails(h) ==
    /\ beat[h].phase # "idle"
    /\ beat' = [beat EXCEPT ![h] = NoBeat]
    /\ UNCHANGED <<redis, index, alive, rows, search, steady>>

\* External: 25 seconds have passed without a heartbeat.
MarkerExpires(d) ==
    /\ d \in alive
    /\ alive' = alive \ {d}
    /\ steady' = steady \ {d}
    /\ UNCHANGED <<redis, index, rows, beat, search>>

-----------------------------------------------------------------------------
\* The other writers of the shared row (modules Rides and Accounts): going
\* online, ...
GoOnline(d, x) ==
    /\ rows[d].there
    /\ rows' = [rows EXCEPT ![d].online = TRUE, ![d].location = x]
    /\ UNCHANGED <<redis, index, alive, beat, search, steady>>

\* ... going offline, entering or leaving a trip, ...
StatusChanges(d) ==
    /\ rows[d].there
    /\ rows' = [rows EXCEPT ![d].online = ~@]
    /\ UNCHANGED <<redis, index, alive, beat, search, steady>>

\* ... reporting a position outside of a heartbeat, ...
UpdateLocation(d, x) ==
    /\ rows[d].there
    /\ rows' = [rows EXCEPT ![d].location = x]
    /\ UNCHANGED <<redis, index, alive, beat, search, steady>>

\* ... and delete_account, which removes the row and leaves Redis alone.
DeleteDriver(d) ==
    /\ rows[d].there
    /\ rows' = [rows EXCEPT ![d] = [there |-> FALSE, online |-> FALSE, location |-> None]]
    /\ UNCHANGED <<redis, index, alive, beat, search, steady>>

-----------------------------------------------------------------------------
Answer(q, results, source) ==
    search' = [search EXCEPT ![q] = [NoSearch EXCEPT !.source = source,
                                                     !.results = results,
                                                     !.seen = search[q].seen \cap results]]

GetNearbyDrivers(q) ==
    /\ search[q].phase = "idle"
    /\ search' = [search EXCEPT ![q] = [NoSearch EXCEPT !.phase = "ping", !.seen = alive]]
    /\ UNCHANGED <<redis, index, alive, rows, beat, steady>>

PingBeforeSearch(q) ==
    /\ search[q].phase = "ping"
    /\ redis = "up"
    /\ search' = [search EXCEPT ![q].phase = "geosearch"]
    /\ UNCHANGED <<redis, index, alive, rows, beat, steady>>

InRange == {d \in Drivers : index[d] # None /\ index[d] <= Radius}

\* GEOSEARCH ... ASC COUNT: the Count nearest, in any order at equal distance.
Nearest(found) ==
    /\ found \subseteq InRange
    /\ Cardinality(found) = IF Cardinality(InRange) <= Count THEN Cardinality(InRange)
                            ELSE Count
    /\ \A d \in found, e \in InRange \ found : index[d] <= index[e]

GeoSearch(q, found) ==
    /\ search[q].phase = "geosearch"
    /\ redis = "up"
    /\ Nearest(found)
    /\ IF found = {} THEN Answer(q, {}, "redis")
       ELSE search' = [search EXCEPT ![q].phase = "exists", ![q].candidates = found]
    /\ UNCHANGED <<redis, index, alive, rows, beat, steady>>

\* A slip: the marker is not looked at.
AnyMember(d) == TRUE

IsAlive(d) == d \in alive

\* The search once the marker of d was looked for: the loop over the answers
\* keeps d or calls it stale.
Checked(s, d) ==
    LET rest == s.candidates \ {d} IN
    [s EXCEPT !.phase = IF rest = {} THEN "evict" ELSE "exists",
              !.candidates = rest,
              !.results = IF IsAlive(d) THEN @ \cup {d} ELSE @,
              !.stale = IF IsAlive(d) THEN @ ELSE @ \cup {d}]

\* One EXISTS of the pipeline.
CheckAlive(q, d) ==
    /\ search[q].phase = "exists"
    /\ redis = "up"
    /\ d \in search[q].candidates
    /\ search' = [search EXCEPT ![q] = Checked(@, d)]
    /\ UNCHANGED <<redis, index, alive, rows, beat, steady>>

\* A slip: every driver in range but the reported ones is evicted.
UnreportedInRange(s) == InRange \ s.results
\* A slip: nothing is evicted.
Nobody(s) == {}

Evicted(s) == s.stale

\* ZREM drivers:online <stale ids>, and the answer.
EvictStale(q) ==
    /\ search[q].phase = "evict"
    /\ redis = "up"
    /\ index' = [d \in Drivers |-> IF d \in Evicted(search[q]) THEN None ELSE index[d]]
    /\ Answer(q, search[q].results, "redis")
    /\ UNCHANGED <<redis, alive, rows, beat, steady>>

\* _nearby_from_database, when the ping or a later command failed.
NearbyFromDatabase(q) ==
    /\ search[q].phase # "idle"
    /\ redis = "down"
    /\ Answer(q, {d \in Drivers : /\ rows[d].there /\ rows[d].online
                                  /\ rows[d].location # None
                                  /\ rows[d].location <= Radius}, "database")
    /\ UNCHANGED <<redis, index, alive, rows, beat, steady>>

-----------------------------------------------------------------------------
\* External: the connection to Redis is lost; it comes back with its data or
\* restarted without.
RedisFails ==
    /\ redis = "up"
    /\ redis' = "down"
    /\ UNCHANGED <<index, alive, rows, beat, search, steady>>

RedisReturns ==
    /\ redis = "down"
    /\ redis' = "up"
    /\ \/ UNCHANGED <<index, alive, steady>>
       \/ /\ index' = [d \in Drivers |-> None]
          /\ alive' = {}
          /\ steady' = {}
    /\ UNCHANGED <<rows, beat, search>>

BeatStep(h) == PingBeforeBeat(h) \/ GeoAdd(h) \/ SetAlive(h) \/ BeatFails(h)

SearchStep(q) ==
    \/ PingBeforeSearch(q)
    \/ \E found \in SUBSET Drivers : GeoSearch(q, found)
    \/ \E d \in Drivers : CheckAlive(q, d)
    \/ EvictStale(q)
    \/ NearbyFromDatabase(q)

Next ==
    \/ \E h \in Beats :
          \/ \E d \in Drivers, x \in Places : DriverHeartbeat(h, d, x)
          \/ BeatStep(h)
    \/ \E d \in Drivers :
          \/ MarkerExpires(d)
          \/ \E x \in Places : GoOnline(d, x) \/ UpdateLocation(d, x)
          \/ StatusChanges(d)
          \/ DeleteDriver(d)
    \/ \E q \in Searches : GetNearbyDrivers(q) \/ SearchStep(q)
    \/ RedisFails
    \/ RedisReturns

Spec == Init /\ [][Next]_vars
=============================================================================
