---------------------------- MODULE GeoIndex_proofs ----------------------------
(***************************************************************************)
(* Proofs about the live driver index, for any drivers, slots, places,     *)
(* radius and count.  First the types; the three invariants are then each  *)
(* strengthened by what a request under way holds.                         *)
(***************************************************************************)
EXTENDS GeoIndexProperties, TLAPS

\* None is no driver and no position.
LEMMA NoneIsNothing == None \notin Drivers /\ None \notin Places
<1>1. Nat \subseteq Int
  OBVIOUS
<1> QED
  BY <1>1, GeoIndexAssumption

\* The record of an idle search slot is a search.
LEMMA NoSearchType == NoSearch \in Search
  BY DEF NoSearch, Search

\* An answer of a well-typed set of drivers keeps the search slots typed.
LEMMA AnswerType ==
  ASSUME TypeOK, NEW q \in Searches, NEW results \in SUBSET Drivers,
         NEW source \in {"redis", "database"}, Answer(q, results, source)
  PROVE  search' \in [Searches -> Search]
  BY NoSearchType DEF TypeOK, Answer, Search, NoSearch

\* So does looking for a marker, and seeing one.
LEMMA CheckedType ==
  ASSUME NEW s \in Search, NEW d \in Drivers
  PROVE  Checked(s, d) \in Search /\ SawMarker(s, d) \in Search
<1> DEFINE rest == s.candidates \ {d}
           phase == IF rest = {} THEN "evict" ELSE "exists"
           results == IF IsAlive(d) THEN s.results \cup {d} ELSE s.results
           stale == IF IsAlive(d) THEN s.stale ELSE s.stale \cup {d}
<1>1. /\ phase \in {"evict", "exists"}
      /\ rest \in SUBSET Drivers
      /\ results \in SUBSET Drivers
      /\ stale \in SUBSET Drivers
  BY DEF Search
<1>2. Checked(s, d) = [s EXCEPT !.phase = phase, !.candidates = rest,
                                !.results = results, !.stale = stale]
  BY DEF Checked
<1> HIDE DEF rest, phase, results, stale
<1>4. Checked(s, d) \in Search
  BY <1>1, <1>2 DEF Search
<1>3. SawMarker(s, d) \in Search
  BY DEF SawMarker, Search
<1> QED
  BY <1>3, <1>4

-----------------------------------------------------------------------------
\* The keys of Redis, the rows and the requests keep their types (TypeOK).
THEOREM TypeCorrect == Spec => []TypeOK
<1>1. Init => TypeOK
  <2>1. ASSUME Init PROVE search \in [Searches -> Search]
    BY <2>1, NoSearchType DEF Init
  <2>2. ASSUME Init PROVE beat \in [Beats -> Beat]
    BY <2>2 DEF Init, NoBeat, Beat
  <2> QED
    BY <2>1, <2>2, NoneIsNothing DEF Init, TypeOK, NoBeat, DriverRow
<1>2. TypeOK /\ [Next]_vars => TypeOK'
  <2> SUFFICES ASSUME TypeOK, [Next]_vars PROVE TypeOK'
    OBVIOUS
  <2> USE NoneIsNothing
  <2>1. ASSUME NEW h \in Beats, NEW d \in Drivers, NEW x \in Places, DriverHeartbeat(h, d, x)
        PROVE  TypeOK'
    <3>1. rows' \in [Drivers -> DriverRow]
      BY <2>1 DEF TypeOK, DriverHeartbeat, Saved, DriverRow
    <3>2. /\ beat' \in [Beats -> Beat]
          /\ \A g \in Beats : beat'[g].phase # "idle" =>
                beat'[g].driver # None /\ beat'[g].place # None
      BY <2>1 DEF TypeOK, DriverHeartbeat, Received, Beat
    <3> QED
      BY <2>1, <3>1, <3>2 DEF TypeOK, DriverHeartbeat
  <2>2. ASSUME NEW h \in Beats, PingBeforeBeat(h) PROVE TypeOK'
    BY <2>2 DEF TypeOK, PingBeforeBeat, Beat
  <2>3. ASSUME NEW h \in Beats, GeoAdd(h) PROVE TypeOK'
    <3>1. index' \in [Drivers -> Places \cup {None}]
      BY <2>3 DEF TypeOK, GeoAdd, Beat
    <3>2. /\ beat' \in [Beats -> Beat]
          /\ \A g \in Beats : beat'[g].phase # "idle" =>
                beat'[g].driver # None /\ beat'[g].place # None
      BY <2>3 DEF TypeOK, GeoAdd, Beat
    <3> QED
      BY <2>3, <3>1, <3>2 DEF TypeOK, GeoAdd
  <2>4. ASSUME NEW h \in Beats, SetAlive(h) PROVE TypeOK'
    <3>1. beat[h].driver \in Drivers
      BY <2>4 DEF TypeOK, SetAlive, Beat
    <3>2. search' \in [Searches -> Search]
      BY <2>4, <3>1, CheckedType DEF TypeOK, SetAlive
    <3>3. /\ alive' \in SUBSET Drivers
          /\ steady' \in SUBSET Drivers
      BY <2>4, <3>1 DEF TypeOK, SetAlive
    <3>4. /\ beat' \in [Beats -> Beat]
          /\ \A g \in Beats : beat'[g].phase # "idle" =>
                beat'[g].driver # None /\ beat'[g].place # None
      BY <2>4 DEF TypeOK, SetAlive, NoBeat, Beat
    <3> QED
      BY <2>4, <3>2, <3>3, <3>4 DEF TypeOK, SetAlive
  <2>5. ASSUME NEW h \in Beats, BeatFails(h) PROVE TypeOK'
    BY <2>5 DEF TypeOK, BeatFails, NoBeat, Beat
  <2>6. ASSUME NEW d \in Drivers, MarkerExpires(d) PROVE TypeOK'
    BY <2>6 DEF TypeOK, MarkerExpires
  <2>7. ASSUME NEW d \in Drivers, NEW x \in Places, GoOnline(d, x) PROVE TypeOK'
    BY <2>7 DEF TypeOK, GoOnline, DriverRow
  <2>8. ASSUME NEW d \in Drivers, StatusChanges(d) PROVE TypeOK'
    BY <2>8 DEF TypeOK, StatusChanges, DriverRow
  <2>18. ASSUME NEW d \in Drivers, NEW x \in Places, UpdateLocation(d, x) PROVE TypeOK'
    BY <2>18 DEF TypeOK, UpdateLocation, DriverRow
  <2>19. ASSUME NEW d \in Drivers, DeleteDriver(d) PROVE TypeOK'
    BY <2>19 DEF TypeOK, DeleteDriver, DriverRow
  <2>9. ASSUME NEW q \in Searches, GetNearbyDrivers(q) PROVE TypeOK'
    BY <2>9 DEF TypeOK, GetNearbyDrivers, NoSearch, Search
  <2>10. ASSUME NEW q \in Searches, PingBeforeSearch(q) PROVE TypeOK'
    BY <2>10 DEF TypeOK, PingBeforeSearch, Search
  <2>11. ASSUME NEW q \in Searches, NEW found \in SUBSET Drivers, GeoSearch(q, found)
         PROVE  TypeOK'
    <3>1. CASE found = {}
      <4>1. search' \in [Searches -> Search]
        BY <2>11, <3>1, AnswerType DEF GeoSearch
      <4> QED
        BY <2>11, <4>1 DEF TypeOK, GeoSearch
    <3>2. CASE found # {}
      BY <2>11, <3>2 DEF TypeOK, GeoSearch, Search
    <3> QED
      BY <3>1, <3>2
  <2>12. ASSUME NEW q \in Searches, NEW d \in Drivers, CheckAlive(q, d) PROVE TypeOK'
    <3>1. search' \in [Searches -> Search]
      BY <2>12, CheckedType DEF TypeOK, CheckAlive
    <3> QED
      BY <2>12, <3>1 DEF TypeOK, CheckAlive
  <2>13. ASSUME NEW q \in Searches, EvictStale(q) PROVE TypeOK'
    <3>1. search[q].results \in SUBSET Drivers
      BY DEF TypeOK, Search
    <3>2. search' \in [Searches -> Search]
      BY <2>13, <3>1, AnswerType DEF EvictStale
    <3> QED
      BY <2>13, <3>2 DEF TypeOK, EvictStale
  <2>14. ASSUME NEW q \in Searches, NearbyFromDatabase(q) PROVE TypeOK'
    <3>1. search' \in [Searches -> Search]
      BY <2>14, AnswerType DEF NearbyFromDatabase
    <3> QED
      BY <2>14, <3>1 DEF TypeOK, NearbyFromDatabase
  <2>15. ASSUME RedisFails PROVE TypeOK'
    BY <2>15 DEF TypeOK, RedisFails
  <2>16. ASSUME RedisReturns PROVE TypeOK'
    BY <2>16 DEF TypeOK, RedisReturns
  <2>17. ASSUME UNCHANGED vars PROVE TypeOK'
    BY <2>17 DEF TypeOK, vars
  <2> QED
    BY <2>1, <2>2, <2>3, <2>4, <2>5, <2>6, <2>7, <2>8, <2>9, <2>10, <2>11, <2>12,
       <2>13, <2>14, <2>15, <2>16, <2>17, <2>18, <2>19 DEF Next, BeatStep, SearchStep
<1> QED
  BY <1>1, <1>2, PTL DEF Spec
-----------------------------------------------------------------------------
\* No search is about to evict a steady driver: it would have to find the
\* driver without a marker first.
Undisturbed == \A d \in steady : d \in alive /\ index[d] # None /\ ~Doomed(d)

\* A driver whose heartbeats keep the marker alive stays in the index
\* (SteadyIsIndexed), however many searches and heartbeats overlap.
THEOREM SteadyStaysIndexed == Spec => []SteadyIsIndexed
<1>1. Init => Undisturbed
  BY DEF Init, Undisturbed
<1>2. TypeOK /\ Undisturbed /\ [Next]_vars => Undisturbed'
  <2> SUFFICES ASSUME TypeOK, Undisturbed, [Next]_vars PROVE Undisturbed'
    OBVIOUS
  <2> USE NoneIsNothing
  <2>1. ASSUME UNCHANGED <<index, alive, search, steady>> PROVE Undisturbed'
    BY <2>1 DEF Undisturbed, Doomed
  <2>2. ASSUME NEW h \in Beats, GeoAdd(h) PROVE Undisturbed'
    <3>1. beat[h].place # None
      BY <2>2 DEF GeoAdd, TypeOK
    <3> QED
      BY <2>2, <3>1 DEF TypeOK, GeoAdd, Undisturbed, Doomed
  <2>3. ASSUME NEW h \in Beats, SetAlive(h) PROVE Undisturbed'
    <3>1. \A q \in Searches : search'[q].stale = search[q].stale
      BY <2>3 DEF TypeOK, SetAlive, SawMarker, Search
    <3>2. \A d : Doomed(d)' <=> Doomed(d)
      BY <3>1 DEF Doomed
    <3> QED
      BY <2>3, <3>2 DEF SetAlive, Undisturbed
  <2>4. ASSUME NEW d \in Drivers, MarkerExpires(d) PROVE Undisturbed'
    BY <2>4 DEF MarkerExpires, Undisturbed, Doomed
  <2>5. ASSUME NEW q \in Searches, GetNearbyDrivers(q) PROVE Undisturbed'
    BY <2>5 DEF TypeOK, GetNearbyDrivers, NoSearch, Undisturbed, Doomed
  <2>6. ASSUME NEW q \in Searches, PingBeforeSearch(q) PROVE Undisturbed'
    BY <2>6 DEF TypeOK, PingBeforeSearch, Search, Undisturbed, Doomed
  <2>7. ASSUME NEW q \in Searches, NEW found \in SUBSET Drivers, GeoSearch(q, found)
        PROVE  Undisturbed'
    <3>1. ASSUME NEW p \in Searches PROVE search'[p].stale \subseteq search[p].stale
      <4>1. CASE found = {}
        BY <2>7, <4>1 DEF TypeOK, GeoSearch, Answer, NoSearch
      <4>2. CASE found # {}
        BY <2>7, <4>2 DEF TypeOK, GeoSearch, Search
      <4> QED
        BY <4>1, <4>2
    <3>2. \A e : Doomed(e)' => Doomed(e)
      BY <3>1 DEF Doomed
    <3> QED
      BY <2>7, <3>2 DEF GeoSearch, Undisturbed
  <2>8. ASSUME NEW q \in Searches, NEW d \in Drivers, CheckAlive(q, d) PROVE Undisturbed'
    <3>1. search'[q].stale \subseteq search[q].stale \cup ({d} \ alive)
      BY <2>8 DEF TypeOK, CheckAlive, Checked, IsAlive, Search
    <3>2. \A p \in Searches \ {q} : search'[p] = search[p]
      BY <2>8 DEF TypeOK, CheckAlive
    <3>3. \A e \in alive : Doomed(e)' => Doomed(e)
      BY <3>1, <3>2 DEF Doomed
    <3> QED
      BY <2>8, <3>3 DEF CheckAlive, Undisturbed
  <2>9. ASSUME NEW q \in Searches, EvictStale(q) PROVE Undisturbed'
    <3>1. \A e \in steady : e \notin search[q].stale
      BY DEF Undisturbed, Doomed
    <3>2. \A e \in steady : index'[e] = index[e]
      BY <2>9, <3>1 DEF TypeOK, EvictStale, Evicted
    <3>3. \A e : Doomed(e)' => Doomed(e)
      BY <2>9 DEF TypeOK, EvictStale, Answer, NoSearch, Doomed
    <3> QED
      BY <2>9, <3>2, <3>3 DEF EvictStale, Undisturbed
  <2>10. ASSUME NEW q \in Searches, NearbyFromDatabase(q) PROVE Undisturbed'
    BY <2>10 DEF TypeOK, NearbyFromDatabase, Answer, NoSearch, Undisturbed, Doomed
  <2>11. ASSUME RedisReturns PROVE Undisturbed'
    BY <2>11 DEF RedisReturns, Undisturbed, Doomed
  <2> QED
    BY <2>1, <2>2, <2>3, <2>4, <2>5, <2>6, <2>7, <2>8, <2>9, <2>10, <2>11
       DEF Next, BeatStep, SearchStep, vars, DriverHeartbeat, PingBeforeBeat, BeatFails,
           GoOnline, StatusChanges, UpdateLocation, DeleteDriver,
           RedisFails
<1>3. Undisturbed => SteadyIsIndexed
  BY DEF Undisturbed, SteadyIsIndexed
<1> QED
  BY <1>1, <1>2, <1>3, TypeCorrect, PTL DEF Spec

-----------------------------------------------------------------------------
\* A search under way has seen every marker that exists, and what it is going
\* to report.
Watching(s) == s.phase # "idle" => alive \subseteq s.seen /\ s.results \subseteq s.seen

Attentive == \A q \in Searches : Watching(search[q])

\* From Redis, nearby reports only drivers whose marker existed at some moment
\* of the search (ReportedWasAlive).
THEOREM ReportsAreLive == Spec => []ReportedWasAlive
<1> DEFINE IInv == Attentive /\ ReportedWasAlive
<1>1. Init => IInv
  BY DEF Init, NoSearch, Attentive, Watching, ReportedWasAlive
<1>2. TypeOK /\ IInv /\ [Next]_vars => IInv'
  <2> SUFFICES ASSUME TypeOK, Attentive, ReportedWasAlive, [Next]_vars PROVE IInv'
    OBVIOUS
  <2>1. ASSUME alive' \subseteq alive, search' = search PROVE IInv'
    BY <2>1 DEF Attentive, Watching, ReportedWasAlive
  <2>2. ASSUME NEW h \in Beats, SetAlive(h) PROVE IInv'
    <3>1. ASSUME NEW q \in Searches, search[q].phase = "idle"
          PROVE  search'[q] = search[q]
      BY <2>2, <3>1 DEF SetAlive, SawMarker
    <3>2. ASSUME NEW q \in Searches, search[q].phase # "idle"
          PROVE  /\ search'[q].phase = search[q].phase
                 /\ search'[q].source = search[q].source
                 /\ search'[q].results = search[q].results
                 /\ search'[q].seen = search[q].seen \cup {beat[h].driver}
      BY <2>2, <3>2 DEF TypeOK, SetAlive, SawMarker, Search
    <3>3. alive' = alive \cup {beat[h].driver}
      BY <2>2 DEF SetAlive
    <3>4. ASSUME NEW q \in Searches
          PROVE  /\ Watching(search[q])'
                 /\ search'[q].source = "redis" => search'[q].results \subseteq search'[q].seen
      BY <3>1, <3>2, <3>3 DEF Attentive, Watching, ReportedWasAlive
    <3> QED
      BY <3>4 DEF Attentive, ReportedWasAlive
  <2>3. ASSUME NEW q \in Searches, alive' = alive,
               \A p \in Searches \ {q} : search'[p] = search[p],
               Watching(search[q])',
               search'[q].source = "redis" => search'[q].results \subseteq search'[q].seen
        PROVE  IInv'
    BY <2>3 DEF Attentive, Watching, ReportedWasAlive
  <2>4. ASSUME NEW q \in Searches, NEW results \in SUBSET Drivers,
               NEW source \in {"redis", "database"}, Answer(q, results, source),
               alive' = alive, source = "redis" => results \subseteq search[q].seen
        PROVE  IInv'
    <3>1. \A p \in Searches \ {q} : search'[p] = search[p]
      BY <2>4 DEF TypeOK, Answer
    <3>2. /\ search'[q].phase = "idle"
          /\ search'[q].source = source
          /\ search'[q].results = results
          /\ search'[q].seen = search[q].seen \cap results
      BY <2>4 DEF TypeOK, Answer, NoSearch
    <3> QED
      BY <2>3, <2>4, <3>1, <3>2 DEF Watching
  <2>5. ASSUME NEW q \in Searches, GetNearbyDrivers(q) PROVE IInv'
    <3>1. /\ alive' = alive
          /\ \A p \in Searches \ {q} : search'[p] = search[p]
          /\ search'[q] = [NoSearch EXCEPT !.phase = "ping", !.seen = alive]
      BY <2>5 DEF TypeOK, GetNearbyDrivers
    <3>2. /\ search'[q].results = {}
          /\ search'[q].seen = alive
      BY <3>1 DEF NoSearch
    <3> QED
      BY <2>3, <3>1, <3>2 DEF Watching
  <2>6. ASSUME NEW q \in Searches, PingBeforeSearch(q) PROVE IInv'
    <3>1. /\ alive' = alive
          /\ \A p \in Searches \ {q} : search'[p] = search[p]
          /\ search'[q] = [search[q] EXCEPT !.phase = "geosearch"]
      BY <2>6 DEF TypeOK, PingBeforeSearch
    <3>2. /\ search'[q].results = search[q].results
          /\ search'[q].seen = search[q].seen
          /\ search[q].phase # "idle"
      BY <2>6, <3>1 DEF TypeOK, Search, PingBeforeSearch
    <3> QED
      BY <2>3, <3>1, <3>2 DEF Watching, Attentive
  <2>7. ASSUME NEW q \in Searches, NEW found \in SUBSET Drivers, GeoSearch(q, found)
        PROVE  IInv'
    <3>1. CASE found = {}
      BY <2>4, <2>7, <3>1 DEF GeoSearch
    <3>2. CASE found # {}
      <4>1. /\ alive' = alive
            /\ \A p \in Searches \ {q} : search'[p] = search[p]
            /\ search'[q].results = search[q].results
            /\ search'[q].seen = search[q].seen
            /\ search[q].phase # "idle"
        BY <2>7, <3>2 DEF TypeOK, Search, GeoSearch
      <4> QED
        BY <2>3, <4>1 DEF Watching, Attentive
    <3> QED
      BY <3>1, <3>2
  <2>8. ASSUME NEW q \in Searches, NEW d \in Drivers, CheckAlive(q, d) PROVE IInv'
    <3>1. /\ alive' = alive
          /\ \A p \in Searches \ {q} : search'[p] = search[p]
          /\ search'[q] = Checked(search[q], d)
          /\ search[q].phase # "idle"
      BY <2>8 DEF TypeOK, CheckAlive
    <3>2. /\ search'[q].results \subseteq search[q].results \cup ({d} \cap alive)
          /\ search'[q].seen = search[q].seen
      BY <3>1 DEF TypeOK, Search, Checked, IsAlive
    <3> QED
      BY <2>3, <3>1, <3>2 DEF Watching, Attentive
  <2>9. ASSUME NEW q \in Searches, EvictStale(q) PROVE IInv'
    <3>1. search[q].results \in SUBSET Drivers
      BY DEF TypeOK, Search
    <3> QED
      BY <2>4, <2>9, <3>1 DEF EvictStale, Attentive, Watching
  <2>10. ASSUME NEW q \in Searches, NearbyFromDatabase(q) PROVE IInv'
    BY <2>4, <2>10 DEF NearbyFromDatabase
  <2>11. ASSUME RedisReturns PROVE IInv'
    BY <2>1, <2>11 DEF RedisReturns
  <2>12. ASSUME NEW d \in Drivers, MarkerExpires(d) PROVE IInv'
    BY <2>1, <2>12 DEF MarkerExpires
  <2>13. ASSUME UNCHANGED <<alive, search>> PROVE IInv'
    BY <2>1, <2>13
  <2> HIDE DEF IInv
  <2> QED
    BY <2>2, <2>5, <2>6, <2>7, <2>8, <2>9, <2>10, <2>11, <2>12, <2>13
       DEF Next, BeatStep, SearchStep, vars, DriverHeartbeat, PingBeforeBeat, GeoAdd,
           BeatFails, GoOnline, StatusChanges, UpdateLocation, DeleteDriver,
           RedisFails
<1> QED
  BY <1>1, <1>2, TypeCorrect, PTL DEF Spec

-----------------------------------------------------------------------------
\* A heartbeat that goes on to Redis has saved a position.
BeatIsSaved ==
    \A h \in Beats : beat[h].phase # "idle" /\ rows[beat[h].driver].there =>
        rows[beat[h].driver].location # None

\* Every indexed driver whose account still exists has a position in its row,
\* for the fallback to the database (IndexedIsDurable), whatever requests and
\* deletions run between the commands of a heartbeat.
THEOREM IndexIsDurable == Spec => []IndexedIsDurable
<1> DEFINE IInv == BeatIsSaved /\ IndexedIsDurable
<1>1. Init => IInv
  BY DEF Init, NoBeat, BeatIsSaved, IndexedIsDurable
<1>2. TypeOK /\ IInv /\ [Next]_vars => IInv'
  <2> SUFFICES ASSUME TypeOK, BeatIsSaved, IndexedIsDurable, [Next]_vars PROVE IInv'
    OBVIOUS
  <2> USE NoneIsNothing
  <2>1. ASSUME UNCHANGED <<index, rows, beat>> PROVE IInv'
    BY <2>1 DEF BeatIsSaved, IndexedIsDurable
  <2>2. ASSUME NEW h \in Beats, NEW d \in Drivers, NEW x \in Places, DriverHeartbeat(h, d, x)
        PROVE  IInv'
    BY <2>2 DEF TypeOK, DriverHeartbeat, Saved, Received, DriverRow, BeatIsSaved,
                IndexedIsDurable
  <2>3. ASSUME NEW h \in Beats, PingBeforeBeat(h) PROVE IInv'
    BY <2>3 DEF TypeOK, PingBeforeBeat, Beat, BeatIsSaved, IndexedIsDurable
  <2>4. ASSUME NEW h \in Beats, GeoAdd(h) PROVE IInv'
    BY <2>4 DEF TypeOK, GeoAdd, Beat, BeatIsSaved, IndexedIsDurable
  <2>5. ASSUME NEW h \in Beats, SetAlive(h) PROVE IInv'
    BY <2>5 DEF TypeOK, SetAlive, NoBeat, BeatIsSaved, IndexedIsDurable
  <2>6. ASSUME NEW h \in Beats, BeatFails(h) PROVE IInv'
    BY <2>6 DEF TypeOK, BeatFails, NoBeat, BeatIsSaved, IndexedIsDurable
  <2>7. ASSUME NEW d \in Drivers, NEW x \in Places, GoOnline(d, x) PROVE IInv'
    <3>1. /\ \A e \in Drivers : rows'[e] = IF e = d THEN [rows[d] EXCEPT !.online = TRUE, !.location = x]
                                           ELSE rows[e]
          /\ UNCHANGED <<index, beat>>
      BY <2>7 DEF TypeOK, GoOnline
    <3>2. rows'[d].location = x /\ x # None
      BY <3>1 DEF TypeOK, DriverRow
    <3> QED
      BY <3>1, <3>2 DEF TypeOK, Beat, BeatIsSaved, IndexedIsDurable
  <2>8. ASSUME NEW d \in Drivers, StatusChanges(d) PROVE IInv'
    BY <2>8 DEF TypeOK, StatusChanges, DriverRow, BeatIsSaved, IndexedIsDurable
  <2>11. ASSUME NEW d \in Drivers, NEW x \in Places, UpdateLocation(d, x) PROVE IInv'
    BY <2>11 DEF TypeOK, UpdateLocation, DriverRow, BeatIsSaved, IndexedIsDurable
  <2>12. ASSUME NEW d \in Drivers, DeleteDriver(d) PROVE IInv'
    BY <2>12 DEF TypeOK, DeleteDriver, DriverRow, BeatIsSaved, IndexedIsDurable
  <2>9. ASSUME NEW q \in Searches, EvictStale(q) PROVE IInv'
    BY <2>9 DEF TypeOK, EvictStale, BeatIsSaved, IndexedIsDurable
  <2>10. ASSUME RedisReturns PROVE IInv'
    BY <2>10 DEF TypeOK, RedisReturns, BeatIsSaved, IndexedIsDurable
  <2> HIDE DEF IInv
  <2> QED
    BY <2>1, <2>2, <2>3, <2>4, <2>5, <2>6, <2>7, <2>8, <2>9, <2>10, <2>11,
       <2>12
       DEF Next, BeatStep, SearchStep, vars, MarkerExpires, GetNearbyDrivers,
           PingBeforeSearch, GeoSearch, CheckAlive, NearbyFromDatabase, RedisFails
<1> QED
  BY <1>1, <1>2, TypeCorrect, PTL DEF Spec

-----------------------------------------------------------------------------
\* Once a deleted driver's marker has run out, no command of any request brings
\* marker or index entry back (DepartedStaysOut).
THEOREM DeletedDriversLeave == Spec => DepartedStaysOut
<1> DEFINE Kept(d) == Departed(d) => Departed(d)' /\ (index[d] = None => index'[d] = None)
<1>1. TypeOK /\ [Next]_vars => \A d \in Drivers : Kept(d)
  <2> SUFFICES ASSUME TypeOK, [Next]_vars, NEW d \in Drivers, Departed(d)
               PROVE  Departed(d)' /\ (index[d] = None => index'[d] = None)
    OBVIOUS
  <2> DEFINE Goal == Departed(d)' /\ (index[d] = None => index'[d] = None)
  <2>1. ASSUME UNCHANGED <<rows, beat>>, alive' \subseteq alive, index' \in {index, [e \in Drivers |-> None]}
        PROVE  Goal
    BY <2>1 DEF Departed
  <2>2. ASSUME NEW h \in Beats, NEW e \in Drivers, NEW x \in Places, DriverHeartbeat(h, e, x)
        PROVE  Goal
    BY <2>2 DEF TypeOK, DriverHeartbeat, Saved, Received, DriverRow, Departed
  <2>3. ASSUME NEW h \in Beats, PingBeforeBeat(h) PROVE Goal
    BY <2>3 DEF TypeOK, PingBeforeBeat, Beat, Departed
  <2>4. ASSUME NEW h \in Beats, GeoAdd(h) PROVE Goal
    <3>1. beat[h].driver # d
      BY <2>4 DEF GeoAdd, Departed
    <3> QED
      BY <2>4, <3>1 DEF TypeOK, GeoAdd, Beat, Departed
  <2>5. ASSUME NEW h \in Beats, SetAlive(h) PROVE Goal
    <3>1. beat[h].driver # d
      BY <2>5 DEF SetAlive, Departed
    <3> QED
      BY <2>5, <3>1 DEF TypeOK, SetAlive, NoBeat, Departed
  <2>6. ASSUME NEW h \in Beats, BeatFails(h) PROVE Goal
    BY <2>6 DEF TypeOK, BeatFails, NoBeat, Departed
  <2>7. ASSUME NEW e \in Drivers, NEW x \in Places, GoOnline(e, x) \/ UpdateLocation(e, x)
        PROVE  Goal
    BY <2>7 DEF TypeOK, GoOnline, UpdateLocation, DriverRow, Departed
  <2>8. ASSUME NEW e \in Drivers, StatusChanges(e) \/ DeleteDriver(e) PROVE Goal
    BY <2>8 DEF TypeOK, StatusChanges, DeleteDriver, DriverRow, Departed
  <2>9. ASSUME NEW q \in Searches, EvictStale(q) PROVE Goal
    BY <2>9 DEF TypeOK, EvictStale, Departed
  <2>10. ASSUME NEW e \in Drivers, MarkerExpires(e) PROVE Goal
    BY <2>1, <2>10 DEF MarkerExpires
  <2>11. ASSUME RedisReturns PROVE Goal
    BY <2>1, <2>11 DEF RedisReturns
  <2>12. ASSUME UNCHANGED <<index, alive, rows, beat>> PROVE Goal
    BY <2>1, <2>12
  <2> HIDE DEF Goal
  <2>13. Goal
    BY <2>2, <2>3, <2>4, <2>5, <2>6, <2>7, <2>8, <2>9, <2>10, <2>11, <2>12
       DEF Next, BeatStep, SearchStep, vars, GetNearbyDrivers, PingBeforeSearch, GeoSearch,
           CheckAlive, NearbyFromDatabase, RedisFails
  <2> QED
    BY <2>13 DEF Goal
<1>2. [][\A d \in Drivers : Kept(d)]_vars => DepartedStaysOut
  BY PTL DEF DepartedStaysOut
<1>3. TypeOK /\ [Next]_vars => [\A d \in Drivers : Kept(d)]_vars
  BY <1>1
<1> QED
  BY <1>2, <1>3, TypeCorrect, PTL DEF Spec
=============================================================================
