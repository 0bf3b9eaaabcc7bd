--------------------- MODULE AccountsReferences_proofs ---------------------
(***************************************************************************)
(* Proofs that nothing is left pointing at a deleted account, for any      *)
(* number of racing requests where the database enforces foreign keys and  *)
(* one request at a time where it does not; that rides under way keep      *)
(* their people; and that others keep what is theirs.                      *)
(***************************************************************************)
EXTENDS Accounts_proofs

\* What a request read is true until it commits, when requests do not overlap.
Known(s) ==
    /\ s.user \in Refs(Ids(users))
    /\ s.driver \in Refs(Ids(drivers))
    /\ s.op \in {"register_driver", "profile"} => NoProfile(s.phone)
    /\ s.op = "profile" \/ (s.op = "register_driver" /\ s.user # None) =>
          \E r \in users : r.phone = s.phone
    /\ s.op = "accept" => \A b \in bookings : b.id = s.booking => b.status = "PENDING"
    /\ s.op \in {"complete", "cancel", "patch", "delete_booking"} =>
          /\ \A b \in bookings : b.id = s.booking => b.driver = s.driver
          /\ \A d \in drivers : d.id = s.driver /\ d.status = "on_trip" => s.moves
    /\ s.op = "patch" => s.status \in {"COMPLETED", "CANCELLED"}
    /\ s.op = "drop" => \A b \in bookings, d \in drivers :
          b.id = s.booking /\ b.driver = d.id => d.status # "on_trip"
    /\ s.op = "set_status" => "set_status" \in setting.handlers
    /\ s.op = "go_online" => s.status # "on_trip"
    /\ s.op = "delete" =>
          /\ s.owned = {b.id : b \in {x \in bookings : x.user = s.user}}
          /\ ActiveRides(s.user, s.driver) = {}
          /\ \A r \in users, d \in drivers : r.id = s.user /\ d.phone = r.phone => d.id = s.driver

OneAtATime ==
    /\ \A p \in Procs : session[p].op = "idle" => session[p] = Idle
    /\ \A p, q \in Procs : p # q => session[p] = Idle \/ session[q] = Idle
    /\ \A p \in Procs : Known(session[p])

\* A ride that is on has a driver, and a driver that is busy has a ride, unless the panel
\* said so.
BusyWithARide ==
    /\ \A b \in bookings : b.status = "ACCEPTED" => b.driver # None
    /\ "set_status" \notin setting.handlers =>
          \A d \in drivers : d.status = "on_trip" =>
             \E b \in bookings : b.driver = d.id /\ b.status = "ACCEPTED"

IInv ==
    /\ ReferencesLive
    /\ ~setting.racing => OneAtATime /\ LinkedByPhone /\ BusyWithARide
-----------------------------------------------------------------------------
(* Requests *)

\* The tables the invariant reads stay as they are.
LEMMA StaysKnown ==
  ASSUME NEW s, Known(s), UNCHANGED <<setting, users, drivers, bookings>>
  PROVE  Known(s)'
BY DEF Known, Ids, NoProfile, DriversOf, ActiveRides

\* Between requests there is nothing to know.
LEMMA IdleKnown == Known(Idle)'
BY DEF Known, Idle, Refs

LEMMA SameTables ==
  ASSUME IInv, UNCHANGED <<setting, tables>>, ~setting.racing => OneAtATime'
  PROVE  IInv'
BY DEF IInv, tables, ReferencesLive, PeopleThere, RidesThere, Ids, LinkedByPhone, BusyWithARide

\* A handler that starts alone read what it holds.
LEMMA StageKeeps ==
  ASSUME TypeOK, IInv, NEW p \in Procs, NEW handler, NEW s, Calls(p, handler), Stage(p, s),
         s.op # "idle", ~setting.racing => Known(s)
  PROVE  IInv'
<1>1. session \in [Procs -> Session] /\ session' = [session EXCEPT ![p] = s]
  BY DEF TypeOK, Stage
<1>2. ASSUME ~setting.racing PROVE OneAtATime'
  <2>1. \A q \in Procs : session[q] = Idle
    BY <1>2 DEF Calls, IInv, OneAtATime
  <2>2. \A q \in Procs : session'[q] = IF q = p THEN s ELSE Idle
    BY <1>1, <2>1
  <2>3. Known(s)'
    BY <1>2, StaysKnown DEF Stage, tables
  <2>4. \A q \in Procs : Known(session[q])'
    BY <2>2, <2>3, IdleKnown
  <2>5. \A q \in Procs : session'[q].op = "idle" => session'[q] = Idle
    BY <2>2
  <2>6. \A q, o \in Procs : q # o => session'[q] = Idle \/ session'[o] = Idle
    BY <2>2
  <2> QED
    BY <2>4, <2>5, <2>6 DEF OneAtATime
<1>3. UNCHANGED <<setting, tables>>
  BY DEF Stage
<1> QED
  BY <1>2, <1>3, SameTables

\* The request that ends was the only one.
LEMMA EndsAlone ==
  ASSUME TypeOK, OneAtATime, NEW p \in Procs, session[p].op # "idle",
         session' = [session EXCEPT ![p] = Idle]
  PROVE  OneAtATime'
<1>1. session \in [Procs -> Session] /\ session[p] # Idle
  BY DEF TypeOK, Idle
<1>2. \A q \in Procs : session'[q] = Idle
  BY <1>1 DEF OneAtATime
<1>3. \A q \in Procs : Known(session[q])'
  BY <1>2, IdleKnown
<1> QED
  BY <1>2, <1>3 DEF OneAtATime

LEMMA CommitKeeps ==
  ASSUME TypeOK, IInv, NEW p \in Procs, NEW op, op # "idle", Commits(p, op),
         ReferencesLive', ~setting.racing => LinkedByPhone' /\ BusyWithARide'
  PROVE  IInv'
<1>1. ASSUME ~setting.racing PROVE OneAtATime'
  BY <1>1, EndsAlone DEF IInv, Commits
<1>2. setting' = setting
  BY DEF Commits
<1> QED
  BY <1>1, <1>2 DEF IInv

\* A commit that leaves accounts, profiles and bookings alone.
LEMMA RowsUnchanged ==
  ASSUME IInv, UNCHANGED <<setting, users, drivers, bookings>>
  PROVE  ~setting.racing => LinkedByPhone' /\ BusyWithARide'
BY DEF IInv, LinkedByPhone, BusyWithARide

\* A reference that the database checks, or that was read a moment ago.
LEMMA Refer ==
  ASSUME IInv, NEW p \in Procs, ~setting.racing \/ setting.foreignKeys
  PROVE  /\ session[p].user \in Users /\ Refers(session[p].user, users)
               => session[p].user \in Ids(users)
         /\ session[p].driver \in Drivers /\ Refers(session[p].driver, drivers)
               => session[p].driver \in Ids(drivers)
<1>1. CASE setting.foreignKeys
  BY <1>1 DEF Refers
<1>2. CASE ~setting.racing
  BY <1>2, NoneIsNothing DEF IInv, OneAtATime, Known, Refs
<1> QED
  BY <1>1, <1>2

-----------------------------------------------------------------------------
(* What each handler reads is there when it is read *)

LEMMA RegisterKeeps ==
  ASSUME TypeOK, IInv, NEW p \in Procs, NEW phone \in Phones, Register(p, phone)
  PROVE  IInv'
<1> DEFINE s == [Idle EXCEPT !.op = "register", !.phone = phone]
<1>1. Known(s) /\ s.op # "idle"
  BY DEF Known, Idle, Refs
<1>2. Calls(p, "register") /\ Stage(p, s)
  BY DEF Register
<1> HIDE DEF s
<1> QED
  BY <1>1, <1>2, StageKeeps

LEMMA RegisterDriverKeeps ==
  ASSUME TypeOK, IInv, NEW p \in Procs, NEW phone \in Phones, RegisterDriver(p, phone)
  PROVE  IInv'
<1> DEFINE s == [Idle EXCEPT !.op = "register_driver", !.phone = phone]
           t(r) == [Idle EXCEPT !.op = "register_driver", !.phone = phone,
                                 !.user = r.id, !.seen = r.role, !.role = "RIDER"]
<1>1. Calls(p, "register_driver") /\ NoProfile(phone)
  BY DEF RegisterDriver
<1>2. Known(s) /\ s.op # "idle"
  BY <1>1 DEF Known, Idle, Refs
<1>3. ASSUME NEW r \in users, r.phone = phone PROVE Known(t(r)) /\ t(r).op # "idle"
  <2>1. r.id \in Refs(Ids(users))
    BY DEF Refs, Ids
  <2> QED
    BY <2>1, <1>1, <1>3 DEF Known, Idle, Refs
<1>4. Stage(p, s) \/ \E r \in users : r.phone = phone /\ Stage(p, t(r))
  BY DEF RegisterDriver
<1> HIDE DEF s, t
<1> QED
  BY <1>1, <1>2, <1>3, <1>4, StageKeeps

LEMMA SetupProfileKeeps ==
  ASSUME TypeOK, IInv, NEW p \in Procs, NEW r \in users, NEW role, SetupProfile(p, r, role)
  PROVE  IInv'
<1> DEFINE s == [Idle EXCEPT !.op = "setup", !.user = r.id, !.seen = r.role, !.role = role]
<1>1. Known(s) /\ s.op # "idle"
  BY DEF Known, Idle, Refs, Ids
<1>2. Calls(p, "setup") /\ Stage(p, s)
  BY DEF SetupProfile
<1> HIDE DEF s
<1> QED
  BY <1>1, <1>2, StageKeeps

LEMMA CreateProfileKeeps ==
  ASSUME TypeOK, IInv, NEW p \in Procs, NEW r \in users, CreateProfile(p, r)
  PROVE  IInv'
<1> DEFINE s == [Idle EXCEPT !.op = "profile", !.user = r.id, !.phone = r.phone]
<1>1. Calls(p, "profile") /\ NoProfile(r.phone) /\ Stage(p, s)
  BY DEF CreateProfile
<1>2. r.id \in Refs(Ids(users))
  BY DEF Refs, Ids
<1>3. Known(s) /\ s.op # "idle"
  BY <1>1, <1>2 DEF Known, Idle, Refs
<1> HIDE DEF s
<1> QED
  BY <1>1, <1>3, StageKeeps

LEMMA CreateBookingKeeps ==
  ASSUME TypeOK, IInv, NEW p \in Procs, NEW r \in users, CreateBooking(p, r)
  PROVE  IInv'
<1> DEFINE s == [Idle EXCEPT !.op = "book", !.user = r.id]
<1>1. Known(s) /\ s.op # "idle"
  BY DEF Known, Idle, Refs, Ids
<1>2. Calls(p, "book") /\ Stage(p, s)
  BY DEF CreateBooking
<1> HIDE DEF s
<1> QED
  BY <1>1, <1>2, StageKeeps

LEMMA ReadUserKeeps ==
  ASSUME TypeOK, IInv, NEW p \in Procs, NEW op \in {"place", "order"}, NEW r \in users,
         ReadUser(p, op, r)
  PROVE  IInv'
<1> DEFINE s == [Idle EXCEPT !.op = op, !.user = r.id]
<1>1. Known(s) /\ s.op # "idle"
  BY DEF Known, Idle, Refs, Ids
<1>2. Calls(p, op) /\ Stage(p, s)
  BY DEF ReadUser
<1> HIDE DEF s
<1> QED
  BY <1>1, <1>2, StageKeeps

LEMMA SimulateKeeps ==
  ASSUME TypeOK, IInv, NEW p \in Procs, NEW r \in users, NEW b \in Refs(Bookings),
         SimulateNotification(p, r, b)
  PROVE  IInv'
<1> DEFINE s == [Idle EXCEPT !.op = "notify", !.user = r.id, !.booking = b]
<1>1. Known(s) /\ s.op # "idle"
  BY DEF Known, Idle, Refs, Ids
<1>2. Calls(p, "notify") /\ Stage(p, s)
  BY DEF SimulateNotification
<1> HIDE DEF s
<1> QED
  BY <1>1, <1>2, StageKeeps

\* A primary key names one row.
LEMMA TheRow ==
  ASSUME NEW T, UniqueIds(T), NEW r \in T
  PROVE  \A q \in T : q.id = r.id => q = r
BY DEF UniqueIds

LEMMA AcceptKeeps ==
  ASSUME TypeOK, IInv, NEW p \in Procs, NEW d \in drivers, NEW b \in bookings, AcceptRide(p, d, b)
  PROVE  IInv'
<1> DEFINE moves == d.status # "on_trip"
           s == [Idle EXCEPT !.op = "accept", !.driver = d.id, !.moves = moves, !.booking = b.id]
<1>1. Calls(p, "accept") /\ Stage(p, s) /\ b.status = "PENDING"
  BY DEF AcceptRide, StageRide
<1>2. d.id \in Refs(Ids(drivers))
  BY DEF Refs, Ids
<1>3. \A q \in bookings : q.id = b.id => q = b
  BY TheRow DEF TypeOK
<1> HIDE DEF moves
<1>4. Known(s) /\ s.op # "idle"
  BY <1>1, <1>2, <1>3 DEF Known, Idle, Refs
<1> HIDE DEF s
<1> QED
  BY <1>1, <1>4, StageKeeps

LEMMA CompleteKeeps ==
  ASSUME TypeOK, IInv, NEW p \in Procs, NEW d \in drivers, NEW b \in bookings, CompleteRide(p, d, b)
  PROVE  IInv'
<1> DEFINE moves == d.status # "online"
           s == [Idle EXCEPT !.op = "complete", !.driver = d.id, !.moves = moves, !.booking = b.id]
<1>1. Calls(p, "complete") /\ Stage(p, s) /\ b.driver = d.id
  BY DEF CompleteRide, StageRide
<1>2. d.id \in Refs(Ids(drivers))
  BY DEF Refs, Ids
<1>3. \A q \in bookings : q.id = b.id => q = b
  BY TheRow DEF TypeOK
<1>4. \A e \in drivers : e.id = d.id /\ e.status = "on_trip" => moves
  BY TheRow DEF TypeOK
<1> HIDE DEF moves
<1>5. Known(s) /\ s.op # "idle"
  BY <1>1, <1>2, <1>3, <1>4 DEF Known, Idle, Refs
<1> HIDE DEF s
<1> QED
  BY <1>1, <1>5, StageKeeps

LEMMA RejectKeeps ==
  ASSUME TypeOK, IInv, NEW p \in Procs, NEW d \in drivers, NEW b \in bookings, RejectRide(p, d, b)
  PROVE  IInv'
<1> DEFINE moves == d.status # d.status
           s == [Idle EXCEPT !.op = "reject", !.driver = d.id, !.moves = moves, !.booking = b.id]
<1>1. Calls(p, "reject") /\ Stage(p, s)
  BY DEF RejectRide, StageRide
<1> HIDE DEF moves
<1>2. Known(s) /\ s.op # "idle"
  BY DEF Known, Idle, Refs, Ids
<1> HIDE DEF s
<1> QED
  BY <1>1, <1>2, StageKeeps

LEMMA PatchKeeps ==
  ASSUME TypeOK, IInv, NEW p \in Procs, NEW b \in bookings,
         NEW status \in {"COMPLETED", "CANCELLED"}, UpdateBookingStatus(p, b, status)
  PROVE  IInv'
<1> DEFINE moves == \E d \in drivers : d.id = b.driver /\ d.status # "online"
           s == [Idle EXCEPT !.op = "patch", !.booking = b.id, !.driver = b.driver,
                              !.moves = moves, !.status = status]
<1>1. Calls(p, "patch") /\ Stage(p, s)
  BY DEF UpdateBookingStatus
<1>2. \A q \in bookings : q.id = b.id => q = b
  BY TheRow DEF TypeOK
<1>3. \A e \in drivers : e.id = b.driver /\ e.status = "on_trip" => moves
  OBVIOUS
<1> HIDE DEF moves
<1>4. ASSUME ~setting.racing PROVE Known(s)
  <2>1. b.driver \in Refs(Ids(drivers))
    BY <1>4 DEF IInv, ReferencesLive, PeopleThere
  <2> QED
    BY <1>2, <1>3, <2>1 DEF Known, Idle, Refs
<1>5. s.op # "idle"
  BY DEF Idle
<1> HIDE DEF s
<1> QED
  BY <1>1, <1>4, <1>5, StageKeeps

LEMMA RateKeeps ==
  ASSUME TypeOK, IInv, NEW p \in Procs, NEW d \in drivers, NEW b \in bookings, RateCustomer(p, d, b)
  PROVE  IInv'
<1> DEFINE s == [Idle EXCEPT !.op = "rate", !.driver = d.id, !.booking = b.id, !.user = b.user]
<1>1. Calls(p, "rate") /\ Stage(p, s)
  BY DEF RateCustomer
<1>2. ASSUME ~setting.racing PROVE Known(s)
  <2>1. d.id \in Refs(Ids(drivers)) /\ b.user \in Refs(Ids(users))
    BY <1>2 DEF IInv, ReferencesLive, PeopleThere, Refs, Ids
  <2> QED
    BY <2>1 DEF Known, Idle, Refs
<1>3. s.op # "idle"
  BY DEF Idle
<1> HIDE DEF s
<1> QED
  BY <1>1, <1>2, <1>3, StageKeeps

LEMMA CancelKeeps ==
  ASSUME TypeOK, IInv, NEW p \in Procs, NEW d \in drivers, NEW b \in bookings, CancelRide(p, d, b)
  PROVE  IInv'
<1> DEFINE moves == d.status # "online"
           s == [Idle EXCEPT !.op = "cancel", !.driver = d.id, !.moves = moves,
                              !.booking = b.id, !.status = b.status]
<1>1. Calls(p, "cancel") /\ Stage(p, s) /\ b.driver = d.id
  BY DEF CancelRide
<1>2. d.id \in Refs(Ids(drivers))
  BY DEF Refs, Ids
<1>3. \A q \in bookings : q.id = b.id => q = b
  BY TheRow DEF TypeOK
<1>4. \A e \in drivers : e.id = d.id /\ e.status = "on_trip" => moves
  BY TheRow DEF TypeOK
<1> HIDE DEF moves
<1>5. Known(s) /\ s.op # "idle"
  BY <1>1, <1>2, <1>3, <1>4 DEF Known, Idle, Refs
<1> HIDE DEF s
<1> QED
  BY <1>1, <1>5, StageKeeps

\* A driver's status is about to be set, to "on_trip" by the panel only.
LEMMA StatusKeeps ==
  ASSUME TypeOK, IInv, NEW p \in Procs, NEW d \in drivers, NEW status,
         UpdateDriverStatus(p, d, status) \/ (status # "on_trip" /\ GoOnline(p, d, status))
  PROVE  IInv'
<1>1. PICK op \in {"set_status", "go_online"} :
        /\ Calls(p, op) /\ StageStatus(p, op, d, status)
        /\ op = "go_online" => status # "on_trip"
  BY DEF UpdateDriverStatus, GoOnline
<1> DEFINE moves == d.status # status
           s == [Idle EXCEPT !.op = op, !.driver = d.id, !.moves = moves, !.status = status]
<1>2. Stage(p, s)
  BY <1>1 DEF StageStatus
<1>3. d.id \in Refs(Ids(drivers)) /\ op \in setting.handlers
  BY <1>1 DEF Refs, Ids, Calls
<1> HIDE DEF moves
<1>4. Known(s) /\ s.op # "idle"
  BY <1>1, <1>3 DEF Known, Idle, Refs
<1> HIDE DEF s
<1> QED
  BY <1>1, <1>2, <1>4, StageKeeps

\* A booking is about to be removed: its driver is freed first, if it has one.
LEMMA DeleteBookingKeeps ==
  ASSUME TypeOK, IInv, NEW p \in Procs, NEW b \in bookings, DeleteBooking(p, b)
  PROVE  IInv'
<1> DEFINE moves == \E d \in drivers : d.id = b.driver /\ d.status # "online"
           op == IF b.driver \in Ids(drivers) THEN "delete_booking" ELSE "drop"
           s == [Idle EXCEPT !.op = op, !.user = b.user, !.booking = b.id, !.driver = b.driver,
                              !.moves = moves]
<1>1. Calls(p, "delete_booking") /\ Stage(p, s) /\ b.user \in Refs(Ids(users))
  BY DEF DeleteBooking, Refs
<1>2. \A q \in bookings : q.id = b.id => q = b
  BY TheRow DEF TypeOK
<1>3. \A e \in drivers : e.id = b.driver /\ e.status = "on_trip" => moves
  OBVIOUS
<1>4. /\ op \in {"delete_booking", "drop"}
      /\ op = "drop" => \A d \in drivers : b.driver # d.id
  BY DEF Ids
<1> HIDE DEF moves, op
<1>5. ASSUME ~setting.racing PROVE Known(s)
  <2>1. b.driver \in Refs(Ids(drivers))
    BY <1>5 DEF IInv, ReferencesLive, PeopleThere
  <2> QED
    BY <1>1, <1>2, <1>3, <1>4, <2>1 DEF Known, Idle, Refs
<1>6. s.op # "idle"
  BY <1>4 DEF Idle
<1> HIDE DEF s
<1> QED
  BY <1>1, <1>5, <1>6, StageKeeps

\* The deletion finds the one profile of the account, no active ride of either,
\* and all bookings of the account.
LEMMA DeleteAccountKeeps ==
  ASSUME TypeOK, IInv, NEW p \in Procs, NEW r \in users, DeleteAccount(p, r)
  PROVE  IInv'
<1> DEFINE owned == {b.id : b \in {x \in bookings : x.user = r.id}}
           s(d) == [Idle EXCEPT !.op = "delete", !.user = r.id, !.driver = d, !.owned = owned]
<1>1. /\ Calls(p, "delete")
      /\ \E d \in IF NoProfile(r.phone) THEN {None} ELSE Ids(DriversOf(r.phone)) :
             ActiveRides(r.id, d) = {} /\ Stage(p, s(d))
  BY DEF DeleteAccount
<1>2. PICK d \in IF NoProfile(r.phone) THEN {None} ELSE Ids(DriversOf(r.phone)) :
            ActiveRides(r.id, d) = {} /\ Stage(p, s(d))
  BY <1>1
<1>3. ASSUME ~setting.racing PROVE Known(s(d))
  <2>1. d \in Refs(Ids(drivers)) /\ r.id \in Refs(Ids(users))
    BY DEF Refs, Ids, DriversOf
  <2>2. \A q \in users, e \in drivers : q.id = r.id /\ e.phone = q.phone => e.id = d
    <3>1. \A q \in users : q.id = r.id => q = r
      BY TheRow DEF TypeOK
    <3>2. \A e, f \in drivers : e.phone = f.phone => e = f
      BY <1>3 DEF IInv, LinkedByPhone
    <3> QED
      BY <3>1, <3>2 DEF NoProfile, DriversOf, Ids
  <2> QED
    BY <1>2, <2>1, <2>2 DEF Known, Idle, Refs
<1>4. s(d).op # "idle"
  BY DEF Idle
<1> HIDE DEF s
<1> QED
  BY <1>1, <1>2, <1>3, <1>4, StageKeeps

-----------------------------------------------------------------------------
(* Commits *)

\* Rows that stay or come keep every reference to them.
LEMMA MorePeople ==
  ASSUME PeopleThere,
         Ids(users) \subseteq Ids(users'), Ids(drivers) \subseteq Ids(drivers'),
         \A b \in bookings' : \/ b.user \in Ids(users') /\ b.driver \in Refs(Ids(drivers'))
                              \/ b \in bookings,
         \A n \in notifications' : n \in notifications \/ n.user \in Ids(users'),
         \A q \in ratings' :
            q \in ratings \/ (q.user \in Ids(users') /\ q.driver \in Ids(drivers')),
         \A row \in rejections' \cup ledger' :
            row \in rejections \cup ledger \/ row.driver \in Ids(drivers'),
         \A u \in wallets' \cup places' : u \in wallets \cup places \/ u \in Ids(users')
  PROVE  PeopleThere'
<1> DEFINE U == Ids(users)
           D == Ids(drivers)
<1>1. U' = Ids(users') /\ D' = Ids(drivers')
  BY DEF Ids
<1>2. U \subseteq U' /\ D \subseteq D'
  BY <1>1
<1>3. PeopleThere' <=>
        /\ \A b \in bookings' : b.user \in U' /\ b.driver \in Refs(D')
        /\ \A n \in notifications' : n.user \in U'
        /\ \A q \in ratings' : q.user \in U' /\ q.driver \in D'
        /\ \A row \in rejections' \cup ledger' : row.driver \in D'
        /\ wallets' \cup places' \subseteq U'
  BY <1>1 DEF PeopleThere, Refs
<1> QED
  BY <1>1, <1>2, <1>3 DEF PeopleThere, Refs

LEMMA MoreRides ==
  ASSUME RidesThere, Ids(bookings) \subseteq Ids(bookings'),
         \A row \in notifications' \cup ledger' :
            row \in notifications \cup ledger \/ row.booking \in Refs(Ids(bookings')),
         \A row \in ratings' \cup rejections' :
            row \in ratings \cup rejections \/ row.booking \in Ids(bookings')
  PROVE  RidesThere'
<1> DEFINE B == Ids(bookings)
<1>1. B' = Ids(bookings')
  BY DEF Ids
<1>2. RidesThere' <=>
        /\ \A row \in notifications' \cup ledger' : row.booking \in Refs(B')
        /\ \A row \in ratings' \cup rejections' : row.booking \in B'
  BY <1>1 DEF RidesThere, Refs
<1> QED
  BY <1>1, <1>2 DEF RidesThere, Refs

LEMMA CommitRegisterKeeps ==
  ASSUME TypeOK, AllReady, IInv, NEW p \in Procs, NEW u \in Users, CommitRegister(p, u)
  PROVE  IInv'
<1>1. /\ Commits(p, "register") /\ users \subseteq users' /\ Ids(users) \subseteq Ids(users')
      /\ UNCHANGED <<setting, drivers, bookings, notifications, ratings, rejections, ledger, wallets,
                     places>>
  BY DEF CommitRegister, InsertUser, Ids, Commits
<1>2. (PeopleThere => PeopleThere') /\ (RidesThere => RidesThere')
  BY <1>1, MorePeople, MoreRides
<1>3. ~setting.racing => LinkedByPhone' /\ BusyWithARide'
  BY <1>1 DEF IInv, LinkedByPhone, BusyWithARide
<1> QED
  BY <1>1, <1>2, <1>3, CommitKeeps DEF IInv, ReferencesLive

LEMMA CommitSetupKeeps ==
  ASSUME TypeOK, AllReady, IInv, NEW p \in Procs, CommitSetup(p)
  PROVE  IInv'
<1>1. /\ Commits(p, "setup") /\ users' = {WithRole(r, session[p]) : r \in users}
      /\ UNCHANGED <<setting, drivers, bookings, notifications, ratings, rejections, ledger, wallets,
                     places>>
  BY DEF CommitSetup, Commits
<1>2. Ids(users') = Ids(users) /\ \A r \in users : WithRole(r, session[p]).phone = r.phone
  <2>1. users \subseteq User /\ UniqueIds(users) /\ Ready(session[p])
    BY DEF TypeOK, AllReady
  <2> QED
    BY <1>1, <2>1, WithRoleRows DEF Ready
<1>3. (PeopleThere => PeopleThere') /\ (RidesThere => RidesThere')
  BY <1>1, <1>2, MorePeople, MoreRides
<1>4. ~setting.racing => LinkedByPhone' /\ BusyWithARide'
  BY <1>1, <1>2 DEF IInv, LinkedByPhone, BusyWithARide
<1> QED
  BY <1>1, <1>3, <1>4, CommitKeeps DEF IInv, ReferencesLive

\* A profile is added for a number that has an account and had no profile.
LEMMA LinkedProfile ==
  ASSUME LinkedByPhone, NEW d, NEW phone, NoProfile(phone),
         drivers' = drivers \cup {NewDriver(d, phone)},
         \E r \in users' : r.phone = phone,
         \A r \in users : \E q \in users' : q.phone = r.phone
  PROVE  LinkedByPhone'
<1>1. NewDriver(d, phone).phone = phone
  BY DEF NewDriver
<1>2. \A e \in drivers : e.phone # phone
  BY DEF NoProfile, DriversOf
<1> QED
  BY <1>1, <1>2 DEF LinkedByPhone

\* It is not busy.
LEMMA IdleProfile ==
  ASSUME BusyWithARide, NEW d, NEW phone, drivers' = drivers \cup {NewDriver(d, phone)},
         bookings' = bookings, setting' = setting
  PROVE  BusyWithARide'
BY DEF BusyWithARide, NewDriver

LEMMA CommitRegisterDriverKeeps ==
  ASSUME TypeOK, AllReady, IInv, NEW p \in Procs, NEW u \in Users, NEW d \in Drivers,
         CommitRegisterDriver(p, u, d)
  PROVE  IInv'
<1> DEFINE s == session[p]
<1>1. /\ Commits(p, "register_driver") /\ drivers' = drivers \cup {NewDriver(d, s.phone)}
      /\ UNCHANGED <<setting, bookings, notifications, ratings, rejections, ledger, wallets, places>>
      /\ \/ s.user = None /\ InsertUser(u, s.phone, "RIDER")
         \/ s.user # None /\ users' = {WithRole(r, s) : r \in users}
      /\ s.op = "register_driver"
  BY DEF CommitRegisterDriver, Commits
<1>2. Ids(drivers) \subseteq Ids(drivers')
  BY <1>1 DEF Ids
<1>3. /\ Ids(users) \subseteq Ids(users')
      /\ \A r \in users : \E q \in users' : q.phone = r.phone
  <2>1. CASE InsertUser(u, s.phone, "RIDER")
    BY <2>1 DEF InsertUser, Ids
  <2>2. CASE users' = {WithRole(r, s) : r \in users}
    <3>1. users \subseteq User /\ UniqueIds(users) /\ Ready(s)
      BY DEF TypeOK, AllReady
    <3> QED
      BY <2>2, <3>1, WithRoleRows DEF Ready
  <2> QED
    BY <1>1, <2>1, <2>2
<1>4. (PeopleThere => PeopleThere') /\ (RidesThere => RidesThere')
  BY <1>1, <1>2, <1>3, MorePeople, MoreRides
<1>5. ASSUME ~setting.racing PROVE LinkedByPhone' /\ BusyWithARide'
  <2>1. NoProfile(s.phone) /\ (s.user # None => \E r \in users : r.phone = s.phone)
    BY <1>1, <1>5 DEF IInv, OneAtATime, Known
  <2>2. \E r \in users' : r.phone = s.phone
    BY <1>1, <1>3, <2>1 DEF InsertUser
  <2>3. LinkedByPhone /\ BusyWithARide
    BY <1>5 DEF IInv
  <2> HIDE DEF s
  <2> QED
    BY <1>1, <1>3, <2>1, <2>2, <2>3, LinkedProfile, IdleProfile
<1> QED
  BY <1>1, <1>4, <1>5, CommitKeeps DEF IInv, ReferencesLive

LEMMA CommitProfileKeeps ==
  ASSUME TypeOK, AllReady, IInv, NEW p \in Procs, NEW d \in Drivers, CommitProfile(p, d)
  PROVE  IInv'
<1> DEFINE s == session[p]
<1>1. /\ Commits(p, "profile") /\ drivers' = drivers \cup {NewDriver(d, s.phone)}
      /\ UNCHANGED <<setting, users, bookings, notifications, ratings, rejections, ledger, wallets,
                     places>>
      /\ s.op = "profile"
  BY DEF CommitProfile, Commits
<1>2. Ids(drivers) \subseteq Ids(drivers')
  BY <1>1 DEF Ids
<1>3. (PeopleThere => PeopleThere') /\ (RidesThere => RidesThere')
  BY <1>1, <1>2, MorePeople, MoreRides
<1>4. ASSUME ~setting.racing PROVE LinkedByPhone' /\ BusyWithARide'
  <2>1. NoProfile(s.phone) /\ \E r \in users : r.phone = s.phone
    BY <1>1, <1>4 DEF IInv, OneAtATime, Known
  <2>2. LinkedByPhone /\ BusyWithARide
    BY <1>4 DEF IInv
  <2> HIDE DEF s
  <2> QED
    BY <1>1, <2>1, <2>2, LinkedProfile, IdleProfile
<1> QED
  BY <1>1, <1>3, <1>4, CommitKeeps DEF IInv, ReferencesLive

LEMMA CommitBookingKeeps ==
  ASSUME TypeOK, AllReady, IInv, NEW p \in Procs, NEW b \in Bookings, CommitBooking(p, b)
  PROVE  IInv'
<1> DEFINE s == session[p]
           row == [id |-> b, user |-> s.user, driver |-> None, status |-> "PENDING"]
<1>1. /\ Commits(p, "book") /\ bookings' = bookings \cup {row} /\ Refers(s.user, users)
      /\ UNCHANGED <<setting, users, drivers, notifications, ratings, rejections, ledger, wallets,
                     places>>
  BY DEF CommitBooking, Commits
<1>2. s.user \in Users
  BY <1>1, Committing DEF Ready
<1>3. row.user = s.user /\ row.driver = None /\ row.status # "ACCEPTED"
  OBVIOUS
<1> HIDE DEF row
<1>4. Ids(bookings) \subseteq Ids(bookings')
  BY <1>1 DEF Ids
<1>5. ASSUME ~setting.racing \/ setting.foreignKeys PROVE PeopleThere'
  <2>1. s.user \in Ids(users)
    BY <1>1, <1>2, <1>5, Refer
  <2>2. row.user \in Ids(users') /\ row.driver \in Refs(Ids(drivers'))
    BY <1>1, <1>3, <2>1 DEF Refs
  <2>3. PeopleThere
    BY <1>5 DEF IInv, ReferencesLive
  <2> HIDE DEF s
  <2> QED
    BY <1>1, <2>2, <2>3, MorePeople
<1>7. RidesThere => RidesThere'
  BY <1>1, <1>4, MoreRides
<1>6. ~setting.racing => LinkedByPhone' /\ BusyWithARide'
  BY <1>1, <1>3 DEF IInv, LinkedByPhone, BusyWithARide
<1> QED
  BY <1>1, <1>5, <1>6, <1>7, CommitKeeps DEF IInv, ReferencesLive

\* A driver who changes status keeps id and phone.
LEMMA MovedDriver ==
  ASSUME TypeOK, NEW s, NEW status \in DriverStatus, MoveDriver(s, status), users' = users
  PROVE  /\ Ids(drivers') = Ids(drivers)
         /\ LinkedByPhone => LinkedByPhone'
         /\ \A d \in drivers' : d.status # status => d \in drivers
         /\ s.moves => \A d \in drivers' : d.id = s.driver => d.status = status
         /\ \A d \in drivers' : d \in drivers \/ d.id = s.driver
<1>1. PICK F : /\ drivers' = {F[d] : d \in drivers}
               /\ \A d \in drivers :
                     /\ F[d].id = d.id /\ F[d].phone = d.phone
                     /\ F[d] = d \/ (F[d].status = status /\ d.id = s.driver)
                     /\ s.moves /\ d.id = s.driver => F[d].status = status
  <2> DEFINE G == [d \in drivers |-> IF s.moves /\ d.id = s.driver
                                     THEN [d EXCEPT !.status = status] ELSE d]
  <2>1. \A d \in drivers : /\ G[d].id = d.id /\ G[d].phone = d.phone
                           /\ G[d] = d \/ (G[d].status = status /\ d.id = s.driver)
                           /\ s.moves /\ d.id = s.driver => G[d].status = status
    BY DEF TypeOK, Driver
  <2>2. drivers' = {G[d] : d \in drivers}
    BY DEF MoveDriver, WithStatus
  <2> HIDE DEF G
  <2> WITNESS G
  <2> QED
    BY <2>1, <2>2
<1>2. Ids(drivers') = Ids(drivers)
  BY <1>1 DEF Ids
<1>3. ASSUME LinkedByPhone PROVE LinkedByPhone'
  BY <1>1, <1>3 DEF LinkedByPhone
<1>4. \A d \in drivers' : d.status # status => d \in drivers
  BY <1>1
<1>5. s.moves => \A d \in drivers' : d.id = s.driver => d.status = status
  BY <1>1
<1>6. \A d \in drivers' : d \in drivers \/ d.id = s.driver
  BY <1>1
<1> QED
  BY <1>2, <1>3, <1>4, <1>5, <1>6

\* A driver is freed or set aside; only the panel makes it busy without a ride.
LEMMA StatusIsSet ==
  ASSUME TypeOK, LinkedByPhone, BusyWithARide, NEW s, NEW status \in DriverStatus,
         MoveDriver(s, status), UNCHANGED <<setting, users, bookings>>,
         status = "on_trip" => "set_status" \in setting.handlers
  PROVE  LinkedByPhone' /\ BusyWithARide'
<1>1. LinkedByPhone' /\ \A d \in drivers' : d.status # status => d \in drivers
  BY MovedDriver
<1> QED
  BY <1>1 DEF BusyWithARide

LEMMA CommitAcceptKeeps ==
  ASSUME TypeOK, AllReady, IInv, NEW p \in Procs, CommitAccept(p)
  PROVE  IInv'
<1> DEFINE s == session[p]
           F == [b \in bookings |-> IF b.id = s.booking
                                    THEN [b EXCEPT !.driver = s.driver, !.status = "ACCEPTED"]
                                    ELSE b]
<1>1. /\ Commits(p, "accept") /\ Refers(s.driver, drivers) /\ MoveDriver(s, "on_trip")
      /\ s.booking \in Ids(bookings) /\ bookings' = {F[b] : b \in bookings}
      /\ UNCHANGED <<setting, users, notifications, ratings, rejections, ledger, wallets, places>>
      /\ s.op = "accept"
  BY DEF CommitAccept, UpdateBooking, Commits
<1>2. s.driver \in Drivers
  BY <1>1, Committing DEF Ready
<1>3. \A b \in bookings :
        /\ F[b].id = b.id /\ F[b].user = b.user
        /\ b.id # s.booking => F[b] = b
        /\ b.id = s.booking => F[b].driver = s.driver /\ F[b].status = "ACCEPTED"
  BY DEF TypeOK, Booking
<1> HIDE DEF F, s
<1>4. Ids(bookings') = Ids(bookings)
  BY <1>1, <1>3 DEF Ids
<1>5. Ids(drivers') = Ids(drivers)
  BY <1>1, MovedDriver DEF DriverStatus
<1>6. ASSUME ~setting.racing \/ setting.foreignKeys PROVE PeopleThere'
  <2>1. s.driver \in Ids(drivers)
    BY <1>1, <1>2, <1>6, Refer DEF s
  <2>2. PeopleThere
    BY <1>6 DEF IInv, ReferencesLive
  <2>3. \A b \in bookings : F[b].user \in Ids(users) /\ F[b].driver \in Refs(Ids(drivers))
    BY <1>3, <2>1, <2>2 DEF PeopleThere, Refs
  <2> QED
    BY <1>1, <1>5, <2>2, <2>3, MorePeople
<1>8. RidesThere => RidesThere'
  BY <1>1, <1>4, MoreRides
<1>7. ASSUME ~setting.racing PROVE LinkedByPhone' /\ BusyWithARide'
  <2>1. LinkedByPhone /\ BusyWithARide
    BY <1>7 DEF IInv
  <2>2. LinkedByPhone'
    BY <1>1, <2>1, MovedDriver DEF DriverStatus
  <2>3. \A b \in bookings : b.status = "ACCEPTED" => b.id # s.booking
    BY <1>1, <1>7 DEF IInv, OneAtATime, Known, s
  <2>4. \A b \in bookings' : b.status = "ACCEPTED" => b.driver # None
    BY <1>1, <1>2, <1>3, <2>1, NoneIsNothing DEF BusyWithARide
  <2>5. ASSUME NEW d \in drivers', d.status = "on_trip", "set_status" \notin setting.handlers
        PROVE  \E b \in bookings' : b.driver = d.id /\ b.status = "ACCEPTED"
    <3>1. CASE d \in drivers
      <4>1. PICK b \in bookings : b.driver = d.id /\ b.status = "ACCEPTED"
        BY <2>1, <2>5, <3>1 DEF BusyWithARide
      <4> QED
        BY <1>1, <1>3, <2>3, <4>1
    <3>2. CASE d.id = s.driver
      BY <1>1, <1>3, <3>2 DEF Ids
    <3> QED
      BY <1>1, <3>1, <3>2, MovedDriver DEF DriverStatus
  <2> QED
    BY <1>1, <2>2, <2>4, <2>5 DEF BusyWithARide
<1> QED
  BY <1>1, <1>6, <1>7, <1>8, CommitKeeps DEF IInv, ReferencesLive

\* A ride ends: its driver, if busy, is freed with the same commit.
LEMMA RideEnds ==
  ASSUME TypeOK, IInv, NEW s, s.op \in {"complete", "cancel", "patch"}, MoveDriver(s, "online"),
         NEW status, bookings' = Ended(s.booking, status), UNCHANGED <<setting, users>>
  PROVE  /\ Ids(bookings') = Ids(bookings) /\ Ids(drivers') = Ids(drivers)
         /\ \A b \in bookings' : \E a \in bookings : b.user = a.user /\ b.driver = a.driver
         /\ ~setting.racing /\ Known(s) /\ status # "ACCEPTED" => LinkedByPhone' /\ BusyWithARide'
<1> DEFINE F == [b \in bookings |-> IF b.id = s.booking THEN [b EXCEPT !.status = status] ELSE b]
<1>1. \A b \in bookings : /\ F[b].id = b.id /\ F[b].user = b.user /\ F[b].driver = b.driver
                          /\ b.id # s.booking => F[b] = b
                          /\ b.id = s.booking => F[b].status = status
  BY DEF TypeOK, Booking
<1>2. bookings' = {F[b] : b \in bookings}
  BY DEF Ended
<1> HIDE DEF F
<1>3. Ids(bookings') = Ids(bookings) /\ Ids(drivers') = Ids(drivers)
  BY <1>1, <1>2, MovedDriver DEF Ids, DriverStatus
<1>4. \A b \in bookings' : \E a \in bookings : b.user = a.user /\ b.driver = a.driver
  BY <1>1, <1>2
<1>5. ASSUME ~setting.racing, Known(s), status # "ACCEPTED" PROVE LinkedByPhone' /\ BusyWithARide'
  <2>1. LinkedByPhone /\ BusyWithARide
    BY <1>5 DEF IInv
  <2>2. LinkedByPhone'
    BY <2>1, MovedDriver DEF DriverStatus
  <2>3. /\ \A b \in bookings : b.id = s.booking => b.driver = s.driver
        /\ \A d \in drivers : d.id = s.driver /\ d.status = "on_trip" => s.moves
    BY <1>5 DEF Known
  <2>4. \A b \in bookings' : b.status = "ACCEPTED" => b.driver # None
    BY <1>1, <1>2, <1>5, <2>1 DEF BusyWithARide
  <2>5. ASSUME NEW d \in drivers', d.status = "on_trip", "set_status" \notin setting.handlers
        PROVE  \E b \in bookings' : b.driver = d.id /\ b.status = "ACCEPTED"
    <3>1. d \in drivers /\ (s.moves => d.id # s.driver)
      BY <2>5, MovedDriver DEF DriverStatus
    <3>2. PICK b \in bookings : b.driver = d.id /\ b.status = "ACCEPTED"
      BY <2>1, <2>5, <3>1 DEF BusyWithARide
    <3>3. b.id # s.booking
      BY <2>3, <2>5, <3>1, <3>2
    <3> QED
      BY <1>1, <1>2, <3>2, <3>3
  <2> QED
    BY <2>2, <2>4, <2>5 DEF BusyWithARide
<1> QED
  BY <1>3, <1>4, <1>5

LEMMA CommitCompleteKeeps ==
  ASSUME TypeOK, AllReady, IInv, NEW p \in Procs, CommitComplete(p)
  PROVE  IInv'
<1> DEFINE s == session[p]
           row == [driver |-> s.driver, booking |-> s.booking]
<1>1. /\ Commits(p, "complete") /\ Refers(s.driver, drivers) /\ MoveDriver(s, "online")
      /\ bookings' = Ended(s.booking, "COMPLETED")
      /\ s.booking \in Ids(bookings)
      /\ ledger' = ledger \cup {row}
      /\ UNCHANGED <<setting, users, notifications, ratings, rejections, wallets, places>>
      /\ s.op = "complete"
  BY DEF CommitComplete, Commits
<1>2. s.driver \in Drivers /\ row.driver = s.driver /\ row.booking = s.booking
  BY <1>1, Committing DEF Ready
<1>3. ~setting.racing => Known(s)
  BY DEF IInv, OneAtATime
<1>4. ~setting.racing \/ setting.foreignKeys => s.driver \in Ids(drivers)
  BY <1>1, <1>2, Refer
<1> HIDE DEF s, row
<1>5. /\ Ids(bookings') = Ids(bookings) /\ Ids(drivers') = Ids(drivers)
      /\ \A b \in bookings' : \E a \in bookings : b.user = a.user /\ b.driver = a.driver
      /\ ~setting.racing => LinkedByPhone' /\ BusyWithARide'
  BY <1>1, <1>3, RideEnds
<1>6. ASSUME ~setting.racing \/ setting.foreignKeys PROVE PeopleThere'
  <2>1. PeopleThere
    BY <1>6 DEF IInv, ReferencesLive
  <2>2. \A b \in bookings' : b.user \in Ids(users) /\ b.driver \in Refs(Ids(drivers))
    BY <1>5, <2>1 DEF PeopleThere
  <2>3. row.driver \in Ids(drivers')
    BY <1>1, <1>2, <1>4, <1>5, <1>6
  <2> QED
    BY <1>1, <1>5, <2>1, <2>2, <2>3, MorePeople
<1>7. RidesThere => RidesThere'
  <2>1. row.booking \in Refs(Ids(bookings'))
    BY <1>1, <1>2, <1>5 DEF Refs
  <2> QED
    BY <1>1, <1>5, <2>1, MoreRides
<1> QED
  BY <1>1, <1>5, <1>6, <1>7, CommitKeeps DEF IInv, ReferencesLive

LEMMA CommitStatusKeeps ==
  ASSUME TypeOK, AllReady, IInv, NEW p \in Procs, CommitStatus(p)
  PROVE  IInv'
<1> DEFINE s == session[p]
<1>1. /\ Commits(p, "patch") /\ MoveDriver(s, "online")
      /\ bookings' = Ended(s.booking, s.status)
      /\ UNCHANGED <<setting, users, notifications, ratings, rejections, ledger, wallets, places>>
      /\ s.op = "patch"
  BY DEF CommitStatus, Commits
<1>2. ~setting.racing => Known(s) /\ s.status # "ACCEPTED"
  BY <1>1 DEF IInv, OneAtATime, Known
<1> HIDE DEF s
<1>3. /\ Ids(bookings') = Ids(bookings) /\ Ids(drivers') = Ids(drivers)
      /\ \A b \in bookings' : \E a \in bookings : b.user = a.user /\ b.driver = a.driver
      /\ ~setting.racing => LinkedByPhone' /\ BusyWithARide'
  BY <1>1, <1>2, RideEnds
<1>4. ASSUME ~setting.racing \/ setting.foreignKeys PROVE PeopleThere'
  <2>1. PeopleThere
    BY <1>4 DEF IInv, ReferencesLive
  <2>2. \A b \in bookings' : b.user \in Ids(users) /\ b.driver \in Refs(Ids(drivers))
    BY <1>3, <2>1 DEF PeopleThere
  <2> QED
    BY <1>1, <1>3, <2>1, <2>2, MorePeople
<1>5. RidesThere => RidesThere'
  BY <1>1, <1>3, MoreRides
<1> QED
  BY <1>1, <1>3, <1>4, <1>5, CommitKeeps DEF IInv, ReferencesLive

\* The driver's cancellation: the ride ends, or had been cancelled before.
LEMMA CommitCancelKeeps ==
  ASSUME TypeOK, AllReady, IInv, NEW p \in Procs, CommitCancel(p)
  PROVE  IInv'
<1> DEFINE s == session[p]
           row == [driver |-> s.driver, booking |-> s.booking]
<1>1. /\ Commits(p, "cancel") /\ MoveDriver(s, "online")
      /\ Refers(s.driver, drivers) /\ Refers(s.booking, bookings)
      /\ bookings' = bookings \/ bookings' = Ended(s.booking, "CANCELLED")
      /\ rejections' = rejections \cup {row}
      /\ UNCHANGED <<setting, users, notifications, ratings, ledger, wallets, places>>
      /\ s.op = "cancel"
  BY DEF CommitCancel, Commits
<1>2. s.driver \in Drivers /\ s.booking \in Bookings
  BY <1>1, Committing DEF Ready
<1>3. ~setting.racing => Known(s)
  BY DEF IInv, OneAtATime
<1>4. ~setting.racing \/ setting.foreignKeys => s.driver \in Ids(drivers)
  BY <1>1, <1>2, Refer
<1> HIDE DEF s
<1>5. /\ Ids(bookings') = Ids(bookings) /\ Ids(drivers') = Ids(drivers)
      /\ \A b \in bookings' : \E a \in bookings : b.user = a.user /\ b.driver = a.driver
      /\ ~setting.racing => LinkedByPhone' /\ BusyWithARide'
  <2>1. CASE bookings' = bookings
    <3>1. Ids(bookings') = Ids(bookings) /\ Ids(drivers') = Ids(drivers)
      BY <1>1, <2>1, MovedDriver DEF DriverStatus
    <3>2. ASSUME ~setting.racing PROVE LinkedByPhone' /\ BusyWithARide'
      BY <1>1, <2>1, <3>2, StatusIsSet DEF IInv, DriverStatus
    <3> QED
      BY <2>1, <3>1, <3>2
  <2>2. CASE bookings' = Ended(s.booking, "CANCELLED")
    BY <1>1, <1>3, <2>2, RideEnds
  <2> QED
    BY <1>1, <2>1, <2>2
<1>6. ASSUME ~setting.racing \/ setting.foreignKeys PROVE PeopleThere'
  <2>1. PeopleThere
    BY <1>6 DEF IInv, ReferencesLive
  <2>2. \A b \in bookings' : b.user \in Ids(users) /\ b.driver \in Refs(Ids(drivers))
    BY <1>5, <2>1 DEF PeopleThere
  <2>3. row.driver \in Ids(drivers')
    BY <1>4, <1>5, <1>6
  <2> HIDE DEF row
  <2> QED
    BY <1>1, <1>5, <2>1, <2>2, <2>3, MorePeople
<1>7. ASSUME setting.foreignKeys PROVE RidesThere'
  <2>1. row.booking \in Ids(bookings') /\ RidesThere
    BY <1>1, <1>5, <1>7 DEF Refers, IInv, ReferencesLive
  <2> HIDE DEF row
  <2> QED
    BY <1>1, <1>5, <2>1, MoreRides
<1> QED
  BY <1>1, <1>5, <1>6, <1>7, CommitKeeps DEF ReferencesLive

\* Profiles that change status.
LEMMA SameReferences ==
  ASSUME IInv, Ids(drivers') = Ids(drivers),
         UNCHANGED <<setting, users, bookings, notifications, ratings, rejections, ledger, wallets,
                     places>>
  PROVE  ReferencesLive'
<1>1. PeopleThere => PeopleThere'
  BY MorePeople
<1>2. RidesThere => RidesThere'
  BY MoreRides
<1> QED
  BY <1>1, <1>2 DEF IInv, ReferencesLive

LEMMA CommitDriverStatusKeeps ==
  ASSUME TypeOK, AllReady, IInv, NEW p \in Procs, CommitDriverStatus(p)
  PROVE  IInv'
<1> DEFINE s == session[p]
<1>1. PICK op \in {"set_status", "go_online"} : Commits(p, op) /\ s.op = op
  BY DEF CommitDriverStatus, Commits
<1>2. /\ MoveDriver(s, s.status)
      /\ UNCHANGED <<setting, users, bookings, notifications, ratings, rejections, ledger, wallets,
                     places>>
  BY DEF CommitDriverStatus, Commits
<1>3. s.status \in DriverStatus
  BY <1>1, Committing DEF Ready
<1>4. ~setting.racing /\ s.status = "on_trip" => "set_status" \in setting.handlers
  BY <1>1 DEF IInv, OneAtATime, Known
<1> HIDE DEF s
<1>5. ReferencesLive'
  BY <1>2, <1>3, MovedDriver, SameReferences
<1>6. ~setting.racing => LinkedByPhone' /\ BusyWithARide'
  BY <1>2, <1>3, <1>4, StatusIsSet DEF IInv
<1> QED
  BY <1>1, <1>5, <1>6, CommitKeeps

\* The driver of a booking that is about to be removed is no longer busy.
LEMMA FreeDriverKeeps ==
  ASSUME TypeOK, IInv, NEW p \in Procs, FreeDriver(p)
  PROVE  IInv'
<1>1. PICK s \in Session : s = session[p]
  BY DEF TypeOK
<1> DEFINE t == [s EXCEPT !.op = "drop"]
<1>2. /\ s.op = "delete_booking" /\ MoveDriver(s, "online")
      /\ session \in [Procs -> Session] /\ session' = [session EXCEPT ![p] = t]
      /\ UNCHANGED <<setting, users, bookings, notifications, ratings, rejections, ledger, wallets,
                     places>>
  BY <1>1 DEF FreeDriver, TypeOK
<1>3. /\ t.op = "drop" /\ t.user = s.user /\ t.driver = s.driver /\ t.booking = s.booking
  BY DEF Session
<1> HIDE DEF t
<1>4. ReferencesLive'
  BY <1>2, MovedDriver, SameReferences DEF DriverStatus
<1>5. ASSUME ~setting.racing PROVE OneAtATime' /\ LinkedByPhone' /\ BusyWithARide'
  <2>1. LinkedByPhone' /\ BusyWithARide'
    BY <1>2, <1>5, StatusIsSet DEF IInv, DriverStatus
  <2>2. Known(s) /\ session[p] # Idle
    BY <1>1, <1>2, <1>5 DEF IInv, OneAtATime, Idle
  <2>3. \A q \in Procs : session'[q] = IF q = p THEN t ELSE Idle
    BY <1>2, <1>5, <2>2 DEF IInv, OneAtATime
  <2>4. Known(t)'
    <3>1. t.user \in Refs(Ids(users')) /\ t.driver \in Refs(Ids(drivers'))
      BY <1>2, <1>3, <2>2, MovedDriver DEF Known, DriverStatus
    <3>2. ASSUME NEW b \in bookings', NEW d \in drivers', b.id = t.booking, b.driver = d.id
          PROVE  d.status # "on_trip"
      <4>1. b.driver = s.driver /\ \A e \in drivers : e.id = s.driver /\ e.status = "on_trip" => s.moves
        BY <1>2, <1>3, <2>2, <3>2 DEF Known
      <4>2. /\ d.status # "online" => d \in drivers
            /\ s.moves => (d.id = s.driver => d.status = "online")
        BY <1>2, MovedDriver DEF DriverStatus
      <4> QED
        BY <3>2, <4>1, <4>2
    <3>3. Ids(users)' = Ids(users') /\ Ids(drivers)' = Ids(drivers')
      BY DEF Ids
    <3> QED
      BY <1>3, <3>1, <3>2, <3>3 DEF Known, Refs
  <2>5. \A q \in Procs : Known(session[q])'
    BY <2>3, <2>4, IdleKnown
  <2>6. \A q \in Procs : session'[q].op = "idle" => session'[q] = Idle
    BY <1>3, <2>3
  <2>7. \A q, o \in Procs : q # o => session'[q] = Idle \/ session'[o] = Idle
    BY <2>3
  <2> QED
    BY <2>1, <2>5, <2>6, <2>7 DEF OneAtATime
<1> QED
  BY <1>2, <1>4, <1>5 DEF IInv

\* Ratings, rejections, notifications, saved places and wallets: only references
\* to accounts, profiles and bookings that are checked.
LEMMA CommitRatingKeeps ==
  ASSUME TypeOK, AllReady, IInv, NEW p \in Procs, NEW stars \in Stars, CommitRating(p, stars)
  PROVE  IInv'
<1> DEFINE s == session[p]
           row == [booking |-> s.booking, driver |-> s.driver, user |-> s.user, stars |-> stars]
<1>1. /\ Commits(p, "rate") /\ ratings' = ratings \cup {row}
      /\ Refers(s.booking, bookings) /\ Refers(s.driver, drivers) /\ Refers(s.user, users)
      /\ UNCHANGED <<setting, users, drivers, bookings, notifications, rejections, ledger, wallets,
                     places>>
  BY DEF CommitRating, Commits
<1>2. s.driver \in Drivers /\ s.booking \in Bookings /\ s.user \in Users
  BY <1>1, Committing DEF Ready
<1>3. ASSUME ~setting.racing \/ setting.foreignKeys PROVE PeopleThere'
  <2>1. row.user \in Ids(users) /\ row.driver \in Ids(drivers)
    BY <1>1, <1>2, <1>3, Refer
  <2>2. PeopleThere
    BY <1>3 DEF IInv, ReferencesLive
  <2> HIDE DEF row
  <2> QED
    BY <1>1, <2>1, <2>2, MorePeople
<1>4. ASSUME setting.foreignKeys PROVE RidesThere'
  <2>1. row.booking \in Ids(bookings) /\ RidesThere
    BY <1>1, <1>4 DEF Refers, IInv, ReferencesLive
  <2> HIDE DEF row
  <2> QED
    BY <1>1, <2>1, MoreRides
<1> QED
  BY <1>1, <1>3, <1>4, RowsUnchanged, CommitKeeps DEF ReferencesLive

LEMMA CommitRejectionKeeps ==
  ASSUME TypeOK, AllReady, IInv, NEW p \in Procs, CommitRejection(p)
  PROVE  IInv'
<1> DEFINE s == session[p]
           row == [driver |-> s.driver, booking |-> s.booking]
<1>1. /\ Commits(p, "reject") /\ rejections' = rejections \cup {row}
      /\ Refers(s.booking, bookings) /\ Refers(s.driver, drivers)
      /\ UNCHANGED <<setting, users, drivers, bookings, notifications, ratings, ledger, wallets,
                     places>>
  BY DEF CommitRejection, Commits
<1>2. s.driver \in Drivers /\ s.booking \in Bookings
  BY <1>1, Committing DEF Ready
<1>3. ASSUME ~setting.racing \/ setting.foreignKeys PROVE PeopleThere'
  <2>1. row.driver \in Ids(drivers)
    BY <1>1, <1>2, <1>3, Refer
  <2>2. PeopleThere
    BY <1>3 DEF IInv, ReferencesLive
  <2> HIDE DEF row
  <2> QED
    BY <1>1, <2>1, <2>2, MorePeople
<1>4. ASSUME setting.foreignKeys PROVE RidesThere'
  <2>1. row.booking \in Ids(bookings) /\ RidesThere
    BY <1>1, <1>4 DEF Refers, IInv, ReferencesLive
  <2> HIDE DEF row
  <2> QED
    BY <1>1, <2>1, MoreRides
<1> QED
  BY <1>1, <1>3, <1>4, RowsUnchanged, CommitKeeps DEF ReferencesLive

LEMMA CommitOwnedKeeps ==
  ASSUME TypeOK, AllReady, IInv, NEW p \in Procs, CommitPlace(p) \/ CommitOrder(p)
  PROVE  IInv'
<1>1. PICK op \in {"place", "order"} :
        /\ Commits(p, op) /\ Refers(session[p].user, users)
        /\ wallets' \cup places' \subseteq wallets \cup places \cup {session[p].user}
        /\ UNCHANGED <<setting, users, drivers, bookings, notifications, ratings, rejections, ledger>>
  BY DEF CommitPlace, CommitOrder, Commits
<1>2. session[p].user \in Users
  BY <1>1, Committing DEF Ready
<1>3. ASSUME ~setting.racing \/ setting.foreignKeys PROVE PeopleThere'
  <2>1. session[p].user \in Ids(users)
    BY <1>1, <1>2, <1>3, Refer
  <2>2. PeopleThere
    BY <1>3 DEF IInv, ReferencesLive
  <2> QED
    BY <1>1, <2>1, <2>2, MorePeople
<1>4. RidesThere => RidesThere'
  BY <1>1, MoreRides
<1> QED
  BY <1>1, <1>3, <1>4, RowsUnchanged, CommitKeeps DEF IInv, ReferencesLive

LEMMA CommitNotificationKeeps ==
  ASSUME TypeOK, AllReady, IInv, NEW p \in Procs, CommitNotification(p)
  PROVE  IInv'
<1> DEFINE s == session[p]
           row == [user |-> s.user, booking |-> s.booking, read |-> FALSE, old |-> FALSE]
<1>1. /\ Commits(p, "notify") /\ notifications' = notifications \cup {row}
      /\ Refers(s.user, users) /\ (s.booking # None => Refers(s.booking, bookings))
      /\ UNCHANGED <<setting, users, drivers, bookings, ratings, rejections, ledger, wallets, places>>
  BY DEF CommitNotification, Commits, Notify
<1>2. s.user \in Users /\ s.booking \in Refs(Bookings)
  BY <1>1, Committing DEF Ready, Session
<1>3. ASSUME ~setting.racing \/ setting.foreignKeys PROVE PeopleThere'
  <2>1. row.user \in Ids(users)
    BY <1>1, <1>2, <1>3, Refer
  <2>2. PeopleThere
    BY <1>3 DEF IInv, ReferencesLive
  <2> HIDE DEF row
  <2> QED
    BY <1>1, <2>1, <2>2, MorePeople
<1>4. ASSUME setting.foreignKeys PROVE RidesThere'
  <2>1. row.booking \in Refs(Ids(bookings)) /\ RidesThere
    BY <1>1, <1>4 DEF Refers, Refs, IInv, ReferencesLive
  <2> HIDE DEF row
  <2> QED
    BY <1>1, <2>1, MoreRides
<1> QED
  BY <1>1, <1>3, <1>4, RowsUnchanged, CommitKeeps DEF ReferencesLive

\* Steps that commit at once: what they write refers to what was referred to.
LEMMA AtOnce ==
  ASSUME IInv, PeopleThere => PeopleThere', RidesThere => RidesThere',
         UNCHANGED <<setting, users, drivers, bookings, session>>
  PROVE  IInv'
<1>1. ~setting.racing => LinkedByPhone' /\ BusyWithARide'
  BY RowsUnchanged
<1>2. ASSUME OneAtATime PROVE OneAtATime'
  <2>1. \A p \in Procs : Known(session[p])'
    BY <1>2, StaysKnown DEF OneAtATime
  <2> QED
    BY <1>2, <2>1 DEF OneAtATime
<1> QED
  BY <1>1, <1>2 DEF IInv, ReferencesLive

\* Notifications are read, age or are swept: none changes whom it is about.
LEMMA NotifyKeeps ==
  ASSUME IInv, NEW notes, Notify(notes), UNCHANGED <<setting, session>>,
         \A n \in notes : \E m \in notifications : n.user = m.user /\ n.booking = m.booking
  PROVE  IInv'
<1>1. /\ notifications' = notes
      /\ UNCHANGED <<users, drivers, bookings, ratings, rejections, ledger, wallets, places>>
  BY DEF Notify
<1>2. ASSUME PeopleThere PROVE PeopleThere'
  <2>1. \A n \in notes : n.user \in Ids(users)
    BY <1>2 DEF PeopleThere
  <2> QED
    BY <1>1, <1>2, <2>1, MorePeople
<1>3. ASSUME RidesThere PROVE RidesThere'
  <2>1. \A n \in notes : n.booking \in Refs(Ids(bookings))
    BY <1>3 DEF RidesThere
  <2> QED
    BY <1>1, <1>3, <2>1, MoreRides
<1> QED
  BY <1>1, <1>2, <1>3, AtOnce

LEMMA NotificationKeeps ==
  ASSUME TypeOK, IInv,
         \/ \E p \in Procs : \/ \E n \in notifications : MarkAsRead(p, n)
                             \/ \E r \in users : MarkAllAsRead(p, r)
         \/ \E n \in notifications : NotificationAges(n)
         \/ PurgeExpiredNotifications
  PROVE  IInv'
<1>1. ASSUME NEW n \in notifications,
             \/ \E p \in Procs : MarkAsRead(p, n)
             \/ NotificationAges(n)
      PROVE  IInv'
  <2>1. PICK m : /\ Notify((notifications \ {n}) \cup {m})
                 /\ m.user = n.user /\ m.booking = n.booking
                 /\ UNCHANGED <<setting, session>>
    <3>1. /\ [n EXCEPT !.read = TRUE].user = n.user /\ [n EXCEPT !.read = TRUE].booking = n.booking
          /\ [n EXCEPT !.old = TRUE].user = n.user /\ [n EXCEPT !.old = TRUE].booking = n.booking
      BY DEF TypeOK, Notification
    <3> QED
      BY <1>1, <3>1 DEF MarkAsRead, NotificationAges
  <2> QED
    BY <2>1, NotifyKeeps
<1>2. ASSUME NEW p \in Procs, NEW r \in users, MarkAllAsRead(p, r) PROVE IInv'
  <2> DEFINE notes == {IF n.user = r.id THEN [n EXCEPT !.read = TRUE] ELSE n : n \in notifications}
  <2>1. Notify(notes) /\ UNCHANGED <<setting, session>>
    BY <1>2 DEF MarkAllAsRead
  <2>2. \A n \in notes : \E m \in notifications : n.user = m.user /\ n.booking = m.booking
    BY DEF TypeOK, Notification
  <2> HIDE DEF notes
  <2> QED
    BY <2>1, <2>2, NotifyKeeps
<1>3. ASSUME PurgeExpiredNotifications PROVE IInv'
  BY <1>3, NotifyKeeps DEF PurgeExpiredNotifications, Recent
<1> QED
  BY <1>1, <1>2, <1>3

LEMMA DeletePlaceKeeps ==
  ASSUME IInv, NEW p \in Procs, NEW r \in users, DeleteSavedPlace(p, r)
  PROVE  IInv'
<1>1. /\ places' \subseteq places
      /\ UNCHANGED <<setting, users, drivers, bookings, notifications, ratings, rejections, ledger,
                     wallets, session>>
  BY DEF DeleteSavedPlace
<1>2. (PeopleThere => PeopleThere') /\ (RidesThere => RidesThere')
  BY <1>1, MorePeople, MoreRides
<1> QED
  BY <1>1, <1>2, AtOnce

LEMMA EndRequestKeeps ==
  ASSUME TypeOK, IInv, NEW p \in Procs, EndRequest(p)
  PROVE  IInv'
<1>1. /\ session[p].op # "idle" /\ session' = [session EXCEPT ![p] = Idle]
      /\ UNCHANGED <<setting, tables>>
  BY DEF EndRequest
<1>2. ~setting.racing => OneAtATime'
  BY <1>1, EndsAlone DEF IInv
<1> QED
  BY <1>1, <1>2, SameTables

-----------------------------------------------------------------------------
(* The deletion *)

\* The rows that a deletion leaves behind.
LEMMA RowsLeft ==
  ASSUME NEW T, NEW id
  PROVE  Ids(T \ Where(T, id)) = Ids(T) \ {id}
BY DEF Ids, Where

LEMMA DetachedRows ==
  ASSUME TypeOK, NEW gone
  PROVE  /\ \A n \in notifications :
              /\ Detached(n, gone).user = n.user
              /\ Detached(n, gone).booking = IF n.booking \in gone THEN None ELSE n.booking
         /\ \A t \in ledger :
              /\ Detached(t, gone).driver = t.driver
              /\ Detached(t, gone).booking = IF t.booking \in gone THEN None ELSE t.booking
<1>1. ASSUME NEW n \in notifications
      PROVE  /\ Detached(n, gone).user = n.user
             /\ Detached(n, gone).booking = IF n.booking \in gone THEN None ELSE n.booking
  BY DEF TypeOK, Detached, Notification
<1>2. ASSUME NEW t \in ledger
      PROVE  /\ Detached(t, gone).driver = t.driver
             /\ Detached(t, gone).booking = IF t.booking \in gone THEN None ELSE t.booking
  BY DEF TypeOK, Detached, Txn
<1> QED
  BY <1>1, <1>2

\* Bookings of other accounts stay, without the driver that is deleted.
LEMMA KeptBookingsAre ==
  ASSUME TypeOK, NEW s
  PROVE  /\ \A b \in KeptBookings(s) :
              \E a \in bookings : /\ a.user # s.user /\ b.id = a.id /\ b.user = a.user
                                  /\ b.status = a.status
                                  /\ b.driver = None \/ (b.driver = a.driver /\ b.driver # s.driver)
                                  /\ b.driver = None => a.driver \in {None, s.driver}
         /\ \A a \in bookings : a.user # s.user =>
              \E b \in KeptBookings(s) : /\ b.id = a.id /\ b.status = a.status
                                         /\ a.driver # s.driver => b.driver = a.driver
<1> DEFINE T == {x \in bookings : x.user # s.user}
           F == [b \in T |-> IF s.driver # None /\ b.driver = s.driver
                             THEN [b EXCEPT !.driver = None] ELSE b]
<1>1. \A b \in T : /\ b \in bookings /\ b.user # s.user
                   /\ F[b].id = b.id /\ F[b].user = b.user /\ F[b].status = b.status
                   /\ F[b].driver = IF s.driver # None /\ b.driver = s.driver THEN None ELSE b.driver
  BY DEF TypeOK, Booking
<1>2. KeptBookings(s) = {F[b] : b \in T} /\ \A a \in bookings : a.user # s.user => a \in T
  BY DEF KeptBookings
<1> HIDE DEF T, F
<1> QED
  BY <1>1, <1>2

\* The bookings of the account, by their ids.
RidesOf(u) == {b.id : b \in {x \in bookings : x.user = u}}

\* The writes of a deletion, for the set of bookings it takes references away from.
Deletes(s, gone) ==
    /\ users' = users \ Where(users, s.user)
    /\ drivers' = drivers \ Where(drivers, s.driver)
    /\ bookings' = KeptBookings(s)
    /\ notifications' = KeptNotifications(s, gone)
    /\ ratings' = {q \in ratings : /\ q.user # s.user
                                   /\ q.driver # s.driver
                                   /\ q.booking \notin gone}
    /\ rejections' = KeptRejections(s, gone)
    /\ ledger' = {Detached(t, gone) : t \in {x \in ledger : x.driver # s.driver}}
    /\ places' = places \ {s.user}
    /\ wallets' = wallets /\ s.user \notin wallets

\* Nothing refers to the account or the profile that is deleted.
LEMMA DeletionCleans ==
  ASSUME TypeOK, PeopleThere, NEW s, NEW gone, Deletes(s, gone)
  PROVE  PeopleThere'
<1> DEFINE U == Ids(users)
           D == Ids(drivers)
<1>1. U' = U \ {s.user} /\ D' = D \ {s.driver}
  BY RowsLeft DEF Deletes, Ids
<1>2. \A b \in bookings' : b.user \in U' /\ b.driver \in Refs(D')
  <2>1. TAKE b \in bookings'
  <2>2. PICK a \in bookings : /\ a.user # s.user /\ b.user = a.user
                              /\ b.driver = None \/ (b.driver = a.driver /\ b.driver # s.driver)
    BY KeptBookingsAre DEF Deletes
  <2>3. a.user \in U /\ a.driver \in Refs(D)
    BY DEF PeopleThere
  <2> QED
    BY <1>1, <2>2, <2>3 DEF Refs
<1>3. \A n \in notifications' : n.user \in U'
  <2>1. TAKE n \in notifications'
  <2>2. PICK m \in notifications : m.user # s.user /\ n = Detached(m, gone)
    BY DEF Deletes, KeptNotifications
  <2>3. m.user \in U /\ n.user = m.user
    BY <2>2, DetachedRows DEF PeopleThere
  <2> HIDE DEF U, D
  <2> QED
    BY <1>1, <2>2, <2>3
<1>4. \A q \in ratings' : q.user \in U' /\ q.driver \in D'
  <2>1. TAKE q \in ratings'
  <2>2. q \in ratings /\ q.user # s.user /\ q.driver # s.driver
    BY DEF Deletes
  <2>3. q.user \in U /\ q.driver \in D
    BY <2>2 DEF PeopleThere
  <2> HIDE DEF U, D
  <2> QED
    BY <1>1, <2>2, <2>3
<1>5. \A q \in rejections' : q.driver \in D'
  <2>1. TAKE q \in rejections'
  <2>2. q \in rejections /\ q.driver # s.driver
    BY DEF Deletes, KeptRejections
  <2>3. q.driver \in D
    BY <2>2 DEF PeopleThere
  <2> HIDE DEF U, D
  <2> QED
    BY <1>1, <2>2, <2>3
<1>6. \A t \in ledger' : t.driver \in D'
  <2>1. TAKE t \in ledger'
  <2>2. PICK x \in ledger : x.driver # s.driver /\ t = Detached(x, gone)
    BY DEF Deletes
  <2>3. x.driver \in D /\ t.driver = x.driver
    BY <2>2, DetachedRows DEF PeopleThere
  <2> HIDE DEF U, D
  <2> QED
    BY <1>1, <2>2, <2>3
<1>7. wallets' \cup places' \subseteq U'
  <2>1. wallets \cup places \subseteq U
    BY DEF PeopleThere
  <2> QED
    BY <1>1, <2>1 DEF Deletes
<1> QED
  BY <1>2, <1>3, <1>4, <1>5, <1>6, <1>7 DEF PeopleThere

\* The rows that stay name a booking of gone no more.
LEMMA NamesLeft ==
  ASSUME TypeOK, NEW s, NEW gone, Deletes(s, gone)
  PROVE  /\ \A row \in notifications' \cup ledger' :
              \E old \in notifications \cup ledger :
                 row.booking = IF old.booking \in gone THEN None ELSE old.booking
         /\ \A row \in ratings' \cup rejections' :
              row \in ratings \cup rejections /\ row.booking \notin gone
<1>1. ASSUME NEW row \in notifications' \cup ledger'
      PROVE  \E old \in notifications \cup ledger :
                 row.booking = IF old.booking \in gone THEN None ELSE old.booking
  <2>1. \/ \E old \in notifications : row = Detached(old, gone)
        \/ \E old \in ledger : row = Detached(old, gone)
    BY <1>1 DEF Deletes, KeptNotifications
  <2> QED
    BY <2>1, DetachedRows
<1>2. \A row \in ratings' \cup rejections' : row \in ratings \cup rejections /\ row.booking \notin gone
  BY DEF Deletes, KeptRejections
<1> QED
  BY <1>1, <1>2

\* When the bookings of the account are among those, nothing refers to one that is deleted.
LEMMA DeletionDetachesRides ==
  ASSUME TypeOK, NEW s, NEW gone, Deletes(s, gone), RidesOf(s.user) \subseteq gone
  PROVE  /\ RidesThere => RidesThere'
         /\ TakesItsRides
<1> DEFINE B == Ids(bookings)
<1>1. B' = Ids(KeptBookings(s))
  BY DEF Deletes, Ids
<1>2. \A id \in B : id \in B' \/ id \in gone
  <2>1. \A a \in bookings : a.user = s.user => a.id \in gone
    BY DEF RidesOf
  <2>2. ASSUME NEW a \in bookings, a.user # s.user PROVE a.id \in B'
    <3>1. PICK b \in KeptBookings(s) : b.id = a.id
      BY <2>2, KeptBookingsAre
    <3>2. a.id \in Ids(KeptBookings(s))
      BY <3>1 DEF Ids
    <3> HIDE DEF B
    <3> QED
      BY <1>1, <3>2
  <2> QED
    BY <2>1, <2>2 DEF Ids
<1>3. ASSUME RidesThere PROVE RidesThere'
  <2>1. /\ \A row \in notifications \cup ledger : row.booking \in Refs(B)
        /\ \A row \in ratings \cup rejections : row.booking \in B
    BY <1>3 DEF RidesThere
  <2> HIDE DEF B
  <2>2. \A row \in notifications' \cup ledger' : row.booking \in Refs(B')
    BY <1>2, <2>1, NamesLeft DEF Refs
  <2>3. \A row \in ratings' \cup rejections' : row.booking \in B'
    BY <1>2, <2>1, NamesLeft
  <2>4. Refs(B)' = Refs(B')
    BY DEF Refs
  <2> QED
    BY <2>2, <2>3, <2>4 DEF RidesThere, B
<1>4. TakesItsRides
  <2> SUFFICES ASSUME NEW b \in bookings, b.user \in Ids(users) \ Ids(users)'
               PROVE  /\ b.id \notin Ids(bookings)'
                      /\ \A row \in notifications' \cup ratings' \cup rejections' \cup ledger' :
                            row.booking # b.id
    BY DEF TakesItsRides
  <2>1. Ids(users)' = Ids(users) \ {s.user}
    BY RowsLeft DEF Deletes, Ids
  <2>2. b.user = s.user /\ b.id \in gone /\ b.id # None
    BY <2>1, NoneIsNothing DEF RidesOf, TypeOK, Booking
  <2>3. \A x \in bookings' : x.id # b.id
    <3>1. TAKE x \in bookings'
    <3>2. PICK a \in bookings : a.user # s.user /\ x.id = a.id
      BY KeptBookingsAre DEF Deletes
    <3> QED
      BY <2>2, <3>2 DEF TypeOK, UniqueIds
  <2>4. \A row \in notifications' \cup ledger' : row.booking # b.id
    BY <2>2, NamesLeft
  <2>5. \A row \in ratings' \cup rejections' : row.booking # b.id
    BY <2>2, NamesLeft
  <2> QED
    BY <2>3, <2>4, <2>5 DEF Ids
<1> QED
  BY <1>3, <1>4

\* No ride under way loses its driver, and no profile stays without its account.
LEMMA DeletionLinks ==
  ASSUME TypeOK, LinkedByPhone, BusyWithARide, NEW s, NEW gone, Deletes(s, gone),
         Known(s), s.op = "delete", setting' = setting
  PROVE  LinkedByPhone' /\ BusyWithARide'
<1>1. /\ \A d \in drivers' : d \in drivers /\ d.id # s.driver
      /\ \A r \in users : r.id # s.user => r \in users'
      /\ bookings' = KeptBookings(s)
  BY DEF Deletes, Where
<1>2. \A b \in bookings : b.status = "ACCEPTED" =>
        b.user # s.user /\ b.driver # None /\ b.driver # s.driver
  BY DEF Known, ActiveRides, ActiveStatuses, BusyWithARide
<1>3. LinkedByPhone'
  <2>1. \A d, e \in drivers' : d.phone = e.phone => d = e
    BY <1>1 DEF LinkedByPhone
  <2>2. ASSUME NEW d \in drivers' PROVE \E r \in users' : r.phone = d.phone
    BY <1>1 DEF LinkedByPhone, Known
  <2> QED
    BY <2>1, <2>2 DEF LinkedByPhone
<1>4. \A b \in bookings' : b.status = "ACCEPTED" => b.driver # None
  <2>1. TAKE b \in bookings'
  <2>2. PICK a \in bookings : b.status = a.status /\ (b.driver = None => a.driver \in {None, s.driver})
    BY <1>1, KeptBookingsAre
  <2> QED
    BY <1>2, <2>2
<1>5. ASSUME NEW d \in drivers', d.status = "on_trip", "set_status" \notin setting.handlers
      PROVE  \E b \in bookings' : b.driver = d.id /\ b.status = "ACCEPTED"
  <2>1. PICK a \in bookings : a.driver = d.id /\ a.status = "ACCEPTED"
    BY <1>1, <1>5 DEF BusyWithARide
  <2>2. a.user # s.user /\ a.driver # s.driver
    BY <1>2, <2>1
  <2>3. PICK b \in KeptBookings(s) : b.status = a.status /\ b.driver = a.driver
    BY <2>2, KeptBookingsAre
  <2> QED
    BY <1>1, <2>1, <2>3
<1> QED
  BY <1>3, <1>4, <1>5 DEF BusyWithARide

\* The bookings of the account are among those it takes references away from.
LEMMA DeletionIsComplete ==
  ASSUME TypeOK, IInv, NEW p \in Procs, CommitDelete(p), NEW gone,
         gone = session[p].owned \cup (IF setting.foreignKeys THEN RidesOf(session[p].user) ELSE {})
  PROVE  /\ Commits(p, "delete") /\ Deletes(session[p], gone) /\ session[p].op = "delete"
         /\ setting' = setting
         /\ ~setting.racing \/ setting.foreignKeys => RidesOf(session[p].user) \subseteq gone
<1>1. /\ Commits(p, "delete") /\ Deletes(session[p], gone) /\ session[p].op = "delete"
      /\ setting' = setting
  BY DEF CommitDelete, Commits, Deletes, Blocked, RidesOf
<1>2. ASSUME ~setting.racing PROVE RidesOf(session[p].user) \subseteq gone
  BY <1>1, <1>2 DEF IInv, OneAtATime, Known, RidesOf
<1> QED
  BY <1>1, <1>2

LEMMA CommitDeleteKeeps ==
  ASSUME TypeOK, AllReady, IInv, NEW p \in Procs, CommitDelete(p)
  PROVE  IInv'
<1> DEFINE s == session[p]
           gone == s.owned \cup (IF setting.foreignKeys THEN RidesOf(s.user) ELSE {})
<1>1. /\ Commits(p, "delete") /\ Deletes(s, gone) /\ s.op = "delete" /\ setting' = setting
      /\ setting.foreignKeys => RidesOf(s.user) \subseteq gone
  BY DeletionIsComplete
<1>2. ~setting.racing => Known(s)
  BY DEF IInv, OneAtATime
<1> HIDE DEF gone, s
<1>3. PeopleThere => PeopleThere'
  BY <1>1, DeletionCleans
<1>4. setting.foreignKeys /\ RidesThere => RidesThere'
  BY <1>1, DeletionDetachesRides
<1>5. ~setting.racing => LinkedByPhone' /\ BusyWithARide'
  BY <1>1, <1>2, DeletionLinks DEF IInv
<1> QED
  BY <1>1, <1>3, <1>4, <1>5, CommitKeeps DEF IInv, ReferencesLive

\* A booking goes without its account: with foreign keys nothing keeps naming it.
LEMMA CommitDropKeeps ==
  ASSUME TypeOK, AllReady, IInv, NEW p \in Procs, CommitDrop(p)
  PROVE  IInv'
<1> DEFINE s == session[p]
           gone == IF setting.foreignKeys THEN {s.booking} ELSE {}
<1>1. /\ Commits(p, "drop") /\ s.op = "drop" /\ setting' = setting
      /\ bookings' = bookings \ Where(bookings, s.booking)
      /\ notifications' = {Detached(n, gone) : n \in notifications}
      /\ ratings' = {q \in ratings : q.booking \notin gone}
      /\ rejections' = {q \in rejections : q.booking \notin gone}
      /\ ledger' = {Detached(t, gone) : t \in ledger}
      /\ UNCHANGED <<users, drivers, wallets, places>>
  BY DEF CommitDrop, Commits
<1>2. ~setting.racing => Known(s)
  BY DEF IInv, OneAtATime
<1>3. setting.foreignKeys => gone = {s.booking}
  OBVIOUS
<1> HIDE DEF gone, s
<1>4. ASSUME PeopleThere PROVE PeopleThere'
  <2>1. \A n \in notifications' : n.user \in Ids(users')
    BY <1>1, <1>4, DetachedRows DEF PeopleThere
  <2>2. \A row \in ledger' : row.driver \in Ids(drivers')
    BY <1>1, <1>4, DetachedRows DEF PeopleThere
  <2> QED
    BY <1>1, <1>4, <2>1, <2>2, MorePeople
<1>5. ASSUME setting.foreignKeys, RidesThere PROVE RidesThere'
  <2> DEFINE B == Ids(bookings)
  <2>1. B' = B \ {s.booking}
    BY <1>1, RowsLeft DEF Ids
  <2>2. /\ \A row \in notifications \cup ledger : row.booking \in Refs(B)
        /\ \A row \in ratings \cup rejections : row.booking \in B
    BY <1>5 DEF RidesThere
  <2> HIDE DEF B
  <2>3. \A row \in notifications' \cup ledger' : row.booking \in Refs(B')
    BY <1>1, <1>3, <1>5, <2>1, <2>2, DetachedRows DEF Refs
  <2>4. \A row \in ratings' \cup rejections' : row.booking \in B'
    BY <1>1, <1>3, <1>5, <2>1, <2>2
  <2>5. Refs(B)' = Refs(B')
    BY DEF Refs
  <2> QED
    BY <2>3, <2>4, <2>5 DEF RidesThere, B
<1>6. ASSUME ~setting.racing PROVE LinkedByPhone' /\ BusyWithARide'
  <2>1. LinkedByPhone /\ BusyWithARide /\ Known(s)
    BY <1>2, <1>6 DEF IInv
  <2>2. bookings' \subseteq bookings /\ \A b \in bookings : b.id # s.booking => b \in bookings'
    BY <1>1 DEF Where
  <2>3. ASSUME NEW d \in drivers, d.status = "on_trip", "set_status" \notin setting.handlers
        PROVE  \E b \in bookings' : b.driver = d.id /\ b.status = "ACCEPTED"
    <3>1. PICK b \in bookings : b.driver = d.id /\ b.status = "ACCEPTED"
      BY <2>1, <2>3 DEF BusyWithARide
    <3>2. b.id # s.booking
      BY <1>1, <2>1, <2>3, <3>1 DEF Known
    <3> QED
      BY <2>2, <3>1, <3>2
  <2> QED
    BY <1>1, <2>1, <2>2, <2>3 DEF LinkedByPhone, BusyWithARide
<1> QED
  BY <1>1, <1>4, <1>5, <1>6, CommitKeeps DEF IInv, ReferencesLive

-----------------------------------------------------------------------------
(* The theorems *)

LEMMA InitKeeps == Init => IInv
<1> SUFFICES ASSUME Init PROVE IInv
  OBVIOUS
<1>1. PeopleThere /\ RidesThere /\ LinkedByPhone /\ BusyWithARide
  BY DEF Init, PeopleThere, RidesThere, LinkedByPhone, BusyWithARide
<1>2. Known(Idle)
  BY DEF Known, Idle, Refs
<1>3. OneAtATime
  BY <1>2 DEF Init, OneAtATime
<1> QED
  BY <1>1, <1>3 DEF IInv, ReferencesLive

LEMMA NextKeeps == TypeOK /\ AllReady /\ IInv /\ [Next]_vars => IInv'
<1> SUFFICES ASSUME TypeOK, AllReady, IInv, [Next]_vars PROVE IInv'
  OBVIOUS
<1>1. CASE UNCHANGED vars
  <2>1. UNCHANGED <<setting, tables, session>>
    BY <1>1 DEF vars
  <2>2. ASSUME OneAtATime PROVE OneAtATime'
    <3>1. \A p \in Procs : Known(session[p])'
      BY <2>1, <2>2, StaysKnown DEF OneAtATime, tables
    <3> QED
      BY <2>1, <2>2, <3>1 DEF OneAtATime
  <2> QED
    BY <2>1, <2>2, SameTables DEF IInv
<1>2. ASSUME NEW p \in Procs, AccountStep(p) PROVE IInv'
  BY <1>2, RegisterKeeps, RegisterDriverKeeps, SetupProfileKeeps, CreateProfileKeeps,
     DeleteAccountKeeps, CommitRegisterKeeps, CommitRegisterDriverKeeps, CommitProfileKeeps,
     CommitSetupKeeps, CommitDeleteKeeps, EndRequestKeeps, StatusKeeps, CommitDriverStatusKeeps
     DEF AccountStep, DeleteFails
<1>3. ASSUME NEW p \in Procs, RideStep(p) PROVE IInv'
  BY <1>3, CreateBookingKeeps, AcceptKeeps, CompleteKeeps, RateKeeps, RejectKeeps, PatchKeeps,
     CommitBookingKeeps, CommitAcceptKeeps, CommitCompleteKeeps, CommitStatusKeeps,
     CommitRejectionKeeps, CommitRatingKeeps, CancelKeeps, CommitCancelKeeps,
     DeleteBookingKeeps, FreeDriverKeeps, CommitDropKeeps
     DEF RideStep
<1>4. ASSUME NEW p \in Procs, OwnedStep(p) PROVE IInv'
  BY <1>4, ReadUserKeeps, SimulateKeeps, NotificationKeeps, DeletePlaceKeeps, CommitOwnedKeeps,
     CommitNotificationKeeps
     DEF OwnedStep
<1>5. ASSUME (\E n \in notifications : NotificationAges(n)) \/ PurgeExpiredNotifications PROVE IInv'
  BY <1>5, NotificationKeeps
<1> QED
  BY <1>1, <1>2, <1>3, <1>4, <1>5 DEF Next

LEMMA AlwaysKnown == Spec => [](TypeOK /\ IInv)
BY InitTypes, NextTypes, InitKeeps, NextKeeps, PTL DEF Spec

\* Nothing refers to an account or a profile that is gone, with foreign keys whatever races
\* with the deletion, and one request at a time by the handler's own statements; nothing
\* refers to a booking that is gone if foreign keys are enforced.
THEOREM DeletionLeavesNothing == Spec => []ReferencesLive
<1>1. IInv => ReferencesLive
  BY DEF IInv
<1> QED
  BY <1>1, AlwaysKnown, PTL

\* One request at a time, a number has one driver profile, which goes with its account.
THEOREM ProfilesFollowAccounts == Spec => []ProfilesMatchAccounts
<1>1. IInv => ProfilesMatchAccounts
  BY DEF IInv, ProfilesMatchAccounts
<1> QED
  BY <1>1, AlwaysKnown, PTL

\* One request at a time, no ride under way loses its passenger or its driver; and a driver
\* is busy with such a ride only, unless the panel's endpoint for the status is called.
THEOREM RidesKeepTheirPeople == Spec => []RidesNotOrphaned
<1>1. TypeOK /\ IInv => RidesNotOrphaned
  <2> SUFFICES ASSUME TypeOK, IInv, ~setting.racing
               PROVE  /\ \A b \in bookings : b.status = "ACCEPTED" =>
                            /\ b.user \in Ids(users)
                            /\ \E d \in drivers, r \in users : b.driver = d.id /\ r.phone = d.phone
                      /\ "set_status" \notin setting.handlers =>
                            \A d \in drivers : d.status = "on_trip" =>
                               \E b \in bookings : b.driver = d.id /\ b.status = "ACCEPTED"
    BY DEF RidesNotOrphaned
  <2>1. PeopleThere /\ LinkedByPhone /\ BusyWithARide
    BY DEF IInv, ReferencesLive
  <2>2. ASSUME NEW b \in bookings, b.status = "ACCEPTED"
        PROVE  /\ b.user \in Ids(users)
               /\ \E d \in drivers, r \in users : b.driver = d.id /\ r.phone = d.phone
    <3>1. b.user \in Ids(users) /\ b.driver \in Ids(drivers)
      BY <2>1, <2>2 DEF PeopleThere, BusyWithARide, Refs
    <3>2. PICK d \in drivers : b.driver = d.id
      BY <3>1 DEF Ids
    <3>3. PICK r \in users : r.phone = d.phone
      BY <2>1 DEF LinkedByPhone
    <3> QED
      BY <3>1, <3>2, <3>3
  <2> QED
    BY <2>1, <2>2 DEF BusyWithARide
<1> QED
  BY <1>1, AlwaysKnown, PTL

\* Accounts leave by their deletion only.
LEMMA AccountsStay ==
  ASSUME TypeOK, AllReady, [Next]_vars, \A p \in Procs : ~CommitDelete(p)
  PROVE  Ids(users) \subseteq Ids(users)'
<1>1. ASSUME NEW p \in Procs, NEW u \in Users, NEW role, InsertUser(u, session[p].phone, role)
      PROVE  Ids(users) \subseteq Ids(users)'
  BY <1>1 DEF InsertUser, Ids
<1>2. ASSUME NEW p \in Procs, users' = {WithRole(r, session[p]) : r \in users}
      PROVE  Ids(users) \subseteq Ids(users)'
  <2>1. users \subseteq User /\ UniqueIds(users) /\ Ready(session[p])
    BY DEF TypeOK, AllReady
  <2>2. Ids(users') = Ids(users)
    BY <1>2, <2>1, WithRoleRows DEF Ready
  <2> QED
    BY <2>2 DEF Ids
<1>3. ASSUME users' = users PROVE Ids(users) \subseteq Ids(users)'
  BY <1>3 DEF Ids
<1>4. ASSUME NEW p \in Procs, AccountStep(p) PROVE Ids(users) \subseteq Ids(users)'
  <2>1. \/ users' = users \/ users' = {WithRole(r, session[p]) : r \in users}
        \/ \E u \in Users : \E role \in UserRole : InsertUser(u, session[p].phone, role)
    BY <1>4 DEF AccountStep, Register, RegisterDriver, SetupProfile, CreateProfile, DeleteAccount,
                CommitRegister, CommitRegisterDriver, CommitProfile, CommitSetup, DeleteFails,
                UpdateDriverStatus, GoOnline, StageStatus, CommitDriverStatus, EndRequest, Stage,
                tables, UserRole
  <2> QED
    BY <2>1, <1>1, <1>2, <1>3
<1>5. ASSUME NEW p \in Procs, RideStep(p) PROVE users' = users
  BY <1>5 DEF RideStep, CreateBooking, AcceptRide, CompleteRide, RateCustomer, RejectRide, StageRide,
              UpdateBookingStatus, CancelRide, DeleteBooking, FreeDriver, CommitDrop, CommitCancel,
              Stage, tables, CommitBooking, CommitAccept, CommitComplete, CommitStatus,
              CommitRejection, CommitRating
<1>6. ASSUME NEW p \in Procs, OwnedStep(p) PROVE users' = users
  BY <1>6 DEF OwnedStep, ReadUser, DeleteSavedPlace, MarkAllAsRead, SimulateNotification, MarkAsRead,
              CommitPlace, CommitNotification, CommitOrder, Notify, Stage, tables
<1>7. ASSUME (\E n \in notifications : NotificationAges(n)) \/ PurgeExpiredNotifications \/ UNCHANGED vars
      PROVE  users' = users
  BY <1>7 DEF NotificationAges, PurgeExpiredNotifications, Notify, vars, tables
<1> QED
  BY <1>3, <1>4, <1>5, <1>6, <1>7 DEF Next

\* The bookings of a deleted account go with it and nothing keeps naming them, by the
\* handler's own statements one request at a time, and whatever races if foreign keys are
\* enforced.
THEOREM DeletionTakesItsRides == Spec => DeletionDetaches
<1>1. TypeOK /\ AllReady /\ IInv /\ [Next]_vars =>
        [~setting.racing \/ setting.foreignKeys => TakesItsRides]_vars
  <2> SUFFICES ASSUME TypeOK, AllReady, IInv, [Next]_vars, ~setting.racing \/ setting.foreignKeys
               PROVE  TakesItsRides
    OBVIOUS
  <2>1. ASSUME NEW p \in Procs, CommitDelete(p) PROVE TakesItsRides
    BY <2>1, DeletionIsComplete, DeletionDetachesRides
  <2>2. ASSUME \A p \in Procs : ~CommitDelete(p) PROVE TakesItsRides
    BY <2>2, AccountsStay DEF TakesItsRides
  <2> QED
    BY <2>1, <2>2
<1> QED
  BY <1>1, AlwaysKnown, InitTypes, NextTypes, PTL DEF Spec, DeletionDetaches

-----------------------------------------------------------------------------
(* What a deletion leaves to others *)

\* The requests that remove bookings, and the bookings they are about.
Removing == {"delete", "delete_booking", "drop"}
Named(s) == IF s.op = "delete" THEN s.owned ELSE {s.booking}

\* They are the user's own, as long as they are there.
OwnedAreOwn ==
    \A p \in Procs : session[p].op \in Removing =>
        /\ Named(session[p]) \subseteq issued
        /\ \A b \in bookings : b.id \in Named(session[p]) => b.user = session[p].user

\* A request becomes one of these only in its handler.
LEMMA StagedOther ==
  ASSUME TypeOK, NEW q \in Procs, NEW s, Stage(q, s), s.op \notin Removing, NEW p \in Procs
  PROVE  session'[p] = session[p] \/ session'[p].op \notin Removing
BY DEF Stage, TypeOK

LEMMA EndedOther ==
  ASSUME TypeOK, NEW q \in Procs, session' = [session EXCEPT ![q] = Idle], NEW p \in Procs
  PROVE  session'[p] = session[p] \/ session'[p].op \notin Removing
BY DEF TypeOK, Idle, Removing

LEMMA DeletionsStart ==
  ASSUME TypeOK, [Next]_vars, NEW p \in Procs
  PROVE  \/ session'[p] = session[p] \/ session'[p].op \notin Removing
         \/ \E r \in users : DeleteAccount(p, r)
         \/ \E b \in bookings : DeleteBooking(p, b)
         \/ FreeDriver(p)
<1> DEFINE Other == session'[p] = session[p] \/ session'[p].op \notin Removing
<1>1. ASSUME NEW q \in Procs, AccountStep(q) PROVE Other \/ \E r \in users : DeleteAccount(p, r)
  <2>1. ASSUME NEW s, Stage(q, s), s.op \notin Removing PROVE Other
    BY <2>1, StagedOther
  <2>2. ASSUME NEW ph \in Phones, Register(q, ph) \/ RegisterDriver(q, ph) PROVE Other
    <3>1. CASE Register(q, ph)
      BY <3>1 DEF Register, Idle, Stage, TypeOK, Removing
    <3>2. CASE RegisterDriver(q, ph)
      <4> DEFINE s == [Idle EXCEPT !.op = "register_driver", !.phone = ph]
                 x(r) == [Idle EXCEPT !.op = "register_driver", !.phone = ph,
                                       !.user = r.id, !.seen = r.role, !.role = "RIDER"]
      <4>1. Stage(q, s) \/ \E r \in users : Stage(q, x(r))
        BY <3>2 DEF RegisterDriver
      <4>2. s.op \notin Removing /\ \A r \in users : x(r).op \notin Removing
        BY DEF Idle, Removing
      <4> HIDE DEF s, x, Other
      <4> QED
        BY <2>1, <4>1, <4>2
    <3> QED
      BY <2>2, <3>1, <3>2
  <2>3. ASSUME NEW r \in users,
               CreateProfile(q, r) \/ \E role \in UserRole : SetupProfile(q, r, role)
        PROVE  Other
    BY <2>3 DEF CreateProfile, SetupProfile, Idle, Stage, TypeOK, Removing
  <2>4. ASSUME NEW r \in users, DeleteAccount(q, r) PROVE Other \/ \E x \in users : DeleteAccount(p, x)
    <3>1. CASE p = q
      BY <2>4, <3>1
    <3>2. CASE p # q
      BY <2>4, <3>2 DEF DeleteAccount, Stage, TypeOK
    <3> QED
      BY <3>1, <3>2
  <2>5. ASSUME session' = [session EXCEPT ![q] = Idle] PROVE Other
    BY <2>5, EndedOther
  <2>6. ASSUME NEW d \in drivers, NEW status, UpdateDriverStatus(q, d, status) \/ GoOnline(q, d, status)
        PROVE  Other
    <3>1. PICK op \in {"set_status", "go_online"} : StageStatus(q, op, d, status)
      BY <2>6 DEF UpdateDriverStatus, GoOnline
    <3> DEFINE moves == d.status # status
               s == [Idle EXCEPT !.op = op, !.driver = d.id, !.moves = moves, !.status = status]
    <3>2. Stage(q, s)
      BY <3>1 DEF StageStatus
    <3> HIDE DEF moves
    <3>3. s.op \notin Removing
      BY DEF Idle, Removing
    <3> HIDE DEF s, Other
    <3> QED
      BY <2>1, <3>2, <3>3
  <2> HIDE DEF Other
  <2> QED
    BY <1>1, <2>2, <2>3, <2>4, <2>5, <2>6
       DEF AccountStep, CommitDriverStatus, CommitRegister, CommitRegisterDriver, CommitProfile, CommitSetup, CommitDelete,
           DeleteFails, EndRequest, Commits
<1>2. ASSUME NEW q \in Procs, RideStep(q)
      PROVE  Other \/ (\E b \in bookings : DeleteBooking(p, b)) \/ FreeDriver(p)
  <2>1. ASSUME NEW s, Stage(q, s), s.op \notin Removing PROVE Other
    BY <2>1, StagedOther
  <2>2. ASSUME NEW r \in users, CreateBooking(q, r) PROVE Other
    BY <2>2 DEF CreateBooking, Idle, Stage, TypeOK, Removing
  <2>3. ASSUME NEW d \in drivers, NEW b \in bookings, NEW status,
               NEW op \in {"accept", "complete", "reject"}, StageRide(q, op, d, b, status)
        PROVE  Other
    <3> DEFINE moves == d.status # status
               s == [Idle EXCEPT !.op = op, !.driver = d.id, !.moves = moves, !.booking = b.id]
    <3>1. Stage(q, s)
      BY <2>3 DEF StageRide
    <3> HIDE DEF moves
    <3>2. s.op \notin Removing
      BY DEF Idle, Removing
    <3> HIDE DEF s, Other
    <3> QED
      BY <2>1, <3>1, <3>2
  <2>4. ASSUME NEW d \in drivers, NEW b \in bookings, RateCustomer(q, d, b) PROVE Other
    BY <2>4 DEF RateCustomer, Idle, Stage, TypeOK, Removing
  <2>5. ASSUME NEW b \in bookings, NEW status, UpdateBookingStatus(q, b, status) PROVE Other
    <3> DEFINE moves == \E d \in drivers : d.id = b.driver /\ d.status # "online"
               s == [Idle EXCEPT !.op = "patch", !.booking = b.id, !.driver = b.driver,
                                  !.moves = moves, !.status = status]
    <3>1. Stage(q, s)
      BY <2>5 DEF UpdateBookingStatus
    <3> HIDE DEF moves
    <3>2. s.op \notin Removing
      BY DEF Idle, Removing
    <3> HIDE DEF s, Other
    <3> QED
      BY <2>1, <3>1, <3>2
  <2>6. ASSUME session' = [session EXCEPT ![q] = Idle] PROVE Other
    BY <2>6, EndedOther
  <2>7. ASSUME NEW d \in drivers, NEW b \in bookings, CancelRide(q, d, b) PROVE Other
    <3> DEFINE moves == d.status # "online"
               s == [Idle EXCEPT !.op = "cancel", !.driver = d.id, !.moves = moves,
                                  !.booking = b.id, !.status = b.status]
    <3>1. Stage(q, s)
      BY <2>7 DEF CancelRide
    <3> HIDE DEF moves
    <3>2. s.op \notin Removing
      BY DEF Idle, Removing
    <3> HIDE DEF s, Other
    <3> QED
      BY <2>1, <3>1, <3>2
  <2>8. ASSUME NEW b \in bookings, DeleteBooking(q, b) PROVE Other \/ DeleteBooking(p, b)
    BY <2>8 DEF DeleteBooking, Stage, TypeOK
  <2>9. FreeDriver(q) => Other \/ FreeDriver(p)
    BY DEF FreeDriver, TypeOK
  <2> HIDE DEF Other
  <2> QED
    BY <1>2, <2>2, <2>3, <2>4, <2>5, <2>6, <2>7, <2>8, <2>9
       DEF RideStep, CommitCancel, CommitDrop, AcceptRide, CompleteRide, RejectRide, CommitBooking, CommitAccept, CommitComplete,
           CommitStatus, CommitRejection, CommitRating, Commits
<1>3. ASSUME NEW q \in Procs, OwnedStep(q) PROVE Other
  <2>1. ASSUME NEW s, Stage(q, s), s.op \notin Removing PROVE Other
    BY <2>1, StagedOther
  <2>2. ASSUME NEW r \in users,
               \/ ReadUser(q, "place", r) \/ ReadUser(q, "order", r)
               \/ \E b \in Refs(Bookings) : SimulateNotification(q, r, b)
        PROVE  Other
    BY <2>2 DEF ReadUser, SimulateNotification, Idle, Stage, TypeOK, Removing
  <2>3. ASSUME session' = [session EXCEPT ![q] = Idle] PROVE Other
    BY <2>3, EndedOther
  <2>4. ASSUME session' = session PROVE Other
    BY <2>4
  <2> HIDE DEF Other
  <2> QED
    BY <1>3, <2>2, <2>3, <2>4
       DEF OwnedStep, DeleteSavedPlace, MarkAllAsRead, MarkAsRead, CommitPlace, CommitNotification,
           CommitOrder, Commits
<1>4. ASSUME (\E n \in notifications : NotificationAges(n)) \/ PurgeExpiredNotifications PROVE Other
  BY <1>4 DEF NotificationAges, PurgeExpiredNotifications
<1>5. CASE UNCHANGED vars
  BY <1>5 DEF vars
<1> HIDE DEF Other
<1> QED
  BY <1>1, <1>2, <1>3, <1>4, <1>5 DEF Next, Other

\* Bookings keep their account, and new ones have new ids.
LEMMA BookingsStay ==
  ASSUME TypeOK, [Next]_vars
  PROVE  /\ issued \subseteq issued'
         /\ \A b \in bookings' : \/ \E a \in bookings : a.id = b.id /\ a.user = b.user
                                 \/ b.id \notin issued
         /\ Ids(bookings) \subseteq Ids(bookings') \/ \E p \in Procs : CommitDelete(p) \/ CommitDrop(p)
<1> DEFINE Goal == /\ issued \subseteq issued'
                   /\ \A b \in bookings' : \/ \E a \in bookings : a.id = b.id /\ a.user = b.user
                                           \/ b.id \notin issued
                   /\ Ids(bookings) \subseteq Ids(bookings') \/ \E p \in Procs : CommitDelete(p) \/ CommitDrop(p)
<1>1. ASSUME issued \subseteq issued', bookings' = bookings PROVE Goal
  BY <1>1
<1>2. ASSUME UNCHANGED vars PROVE Goal
  BY <1>1, <1>2 DEF vars, tables
<1>3. ASSUME NEW p \in Procs, CommitDelete(p) PROVE Goal
  <2>1. issued' = issued /\ bookings' = KeptBookings(session[p])
    BY <1>3 DEF CommitDelete
  <2>2. \A b \in bookings' : \E a \in bookings : a.id = b.id /\ a.user = b.user
    BY <2>1, KeptBookingsAre
  <2> QED
    BY <1>3, <2>1, <2>2
<1>4. ASSUME NEW p \in Procs, AccountStep(p), ~CommitDelete(p)
      PROVE  issued \subseteq issued' /\ bookings' = bookings
  BY <1>4 DEF AccountStep, Register, RegisterDriver, SetupProfile, CreateProfile, DeleteAccount,
              CommitRegister, CommitRegisterDriver, CommitProfile, CommitSetup, DeleteFails,
              UpdateDriverStatus, GoOnline, StageStatus, CommitDriverStatus, EndRequest, Stage,
              tables
<1>5. ASSUME NEW p \in Procs, NEW b \in Bookings, CommitBooking(p, b) PROVE Goal
  BY <1>5 DEF CommitBooking, Fresh, Ids
<1>6. ASSUME NEW s, NEW status, bookings' = Ended(s, status), issued' = issued PROVE Goal
  <2> DEFINE F == [b \in bookings |-> IF b.id = s THEN [b EXCEPT !.status = status] ELSE b]
  <2>1. \A b \in bookings : F[b].id = b.id /\ F[b].user = b.user
    BY DEF TypeOK, Booking
  <2>2. bookings' = {F[b] : b \in bookings}
    BY <1>6 DEF Ended
  <2> HIDE DEF F
  <2> QED
    BY <1>6, <2>1, <2>2 DEF Ids
<1>7. ASSUME NEW p \in Procs, CommitAccept(p) PROVE Goal
  <2> DEFINE s == session[p]
             F == [b \in bookings |-> IF b.id = s.booking
                                      THEN [b EXCEPT !.driver = s.driver, !.status = "ACCEPTED"]
                                      ELSE b]
  <2>1. \A b \in bookings : F[b].id = b.id /\ F[b].user = b.user
    BY DEF TypeOK, Booking
  <2>2. bookings' = {F[b] : b \in bookings} /\ issued' = issued
    BY <1>7 DEF CommitAccept, UpdateBooking
  <2> HIDE DEF F
  <2> QED
    BY <2>1, <2>2 DEF Ids
<1>8. ASSUME NEW p \in Procs, RideStep(p) PROVE Goal
  <2>1. \/ bookings' = bookings /\ issued' = issued
        \/ \E b \in Bookings : CommitBooking(p, b)
        \/ CommitAccept(p) \/ CommitComplete(p) \/ CommitStatus(p) \/ CommitCancel(p) \/ CommitDrop(p)
    BY <1>8 DEF RideStep, CreateBooking, AcceptRide, CompleteRide, RateCustomer, RejectRide, StageRide,
                UpdateBookingStatus, CancelRide, DeleteBooking, FreeDriver, Stage, tables,
                CommitRejection, CommitRating
  <2> DEFINE s == session[p]
  <2>2. CommitComplete(p) => issued' = issued /\ bookings' = Ended(s.booking, "COMPLETED")
    BY DEF CommitComplete, Ended
  <2>3. CommitStatus(p) => issued' = issued /\ bookings' = Ended(s.booking, s.status)
    BY DEF CommitStatus, Ended
  <2>4. CommitCancel(p) => /\ issued' = issued
                           /\ bookings' = bookings \/ bookings' = Ended(s.booking, "CANCELLED")
    BY DEF CommitCancel, Ended
  <2>5. CommitDrop(p) => Goal
    BY DEF CommitDrop, Where
  <2> HIDE DEF Goal, s
  <2> QED
    BY <2>1, <2>2, <2>3, <2>4, <2>5, <1>1, <1>5, <1>6, <1>7
<1>9. ASSUME NEW p \in Procs, OwnedStep(p) PROVE bookings' = bookings /\ issued' = issued
  BY <1>9 DEF OwnedStep, ReadUser, DeleteSavedPlace, MarkAllAsRead, SimulateNotification, MarkAsRead,
              CommitPlace, CommitNotification, CommitOrder, Notify, Stage, tables
<1>10. ASSUME (\E n \in notifications : NotificationAges(n)) \/ PurgeExpiredNotifications
       PROVE  Goal
  <2>1. bookings' = bookings /\ issued' = issued
    BY <1>10 DEF NotificationAges, PurgeExpiredNotifications, Notify
  <2> QED
    BY <2>1, <1>1
<1>11. Goal
  <2> HIDE DEF Goal
  <2>1. ASSUME NEW p \in Procs, AccountStep(p) PROVE Goal
    BY <2>1, <1>1, <1>3, <1>4
  <2>2. ASSUME NEW p \in Procs, OwnedStep(p) PROVE Goal
    BY <2>2, <1>1, <1>9
  <2> QED
    BY <1>2, <1>8, <1>10, <2>1, <2>2 DEF Next
<1> QED
  BY <1>11

LEMMA NextOwned == TypeOK /\ OwnedAreOwn /\ [Next]_vars => OwnedAreOwn'
<1> DEFINE Own(s) == /\ Named(s) \subseteq issued'
                     /\ \A b \in bookings' : b.id \in Named(s) => b.user = s.user
<1> SUFFICES ASSUME TypeOK, OwnedAreOwn, [Next]_vars, NEW p \in Procs, session'[p].op \in Removing
             PROVE  Own(session'[p])
  BY DEF OwnedAreOwn, Named
<1>1. ASSUME NEW s, s.op \in Removing, Named(s) \subseteq issued,
             \A b \in bookings : b.id \in Named(s) => b.user = s.user
      PROVE  Own(s)
  BY <1>1, BookingsStay
<1> HIDE DEF Own
<1>2. CASE session'[p] = session[p]
  BY <1>1, <1>2 DEF OwnedAreOwn
<1>3. ASSUME NEW r \in users, DeleteAccount(p, r) PROVE Own(session'[p])
  <2> DEFINE owned == {b.id : b \in {x \in bookings : x.user = r.id}}
  <2>1. session'[p].op = "delete" /\ session'[p].owned = owned /\ session'[p].user = r.id
    BY <1>3 DEF DeleteAccount, Stage, TypeOK, Idle
  <2>2. owned \subseteq issued /\ \A b \in bookings : b.id \in owned => b.user = r.id
    BY DEF TypeOK, Ids, UniqueIds
  <2> HIDE DEF owned
  <2>3. Named(session'[p]) = owned
    BY <2>1 DEF Named
  <2> QED
    BY <1>1, <2>1, <2>2, <2>3
<1>4. ASSUME NEW b \in bookings, DeleteBooking(p, b) PROVE Own(session'[p])
  <2>1. session'[p].op # "delete" /\ session'[p].booking = b.id /\ session'[p].user = b.user
    BY <1>4 DEF DeleteBooking, Stage, TypeOK, Idle
  <2>2. b.id \in issued /\ \A q \in bookings : q.id = b.id => q.user = b.user
    BY DEF TypeOK, Ids, UniqueIds
  <2> QED
    BY <1>1, <2>1, <2>2 DEF Named
<1>5. CASE FreeDriver(p)
  <2>1. PICK s \in Session : s = session[p]
    BY DEF TypeOK
  <2>2. s.op = "delete_booking" /\ session'[p] = [s EXCEPT !.op = "drop"]
    BY <1>5, <2>1 DEF FreeDriver, TypeOK
  <2>3. session'[p].op = "drop" /\ session'[p].booking = s.booking /\ session'[p].user = s.user
    BY <2>2 DEF Session
  <2>4. Named(session'[p]) = {s.booking}
    BY <2>3 DEF Named
  <2>5. s.booking \in issued /\ \A b \in bookings : b.id = s.booking => b.user = s.user
    BY <2>1, <2>2 DEF OwnedAreOwn, Named, Removing
  <2> QED
    BY <1>1, <2>3, <2>4, <2>5
<1> QED
  BY <1>2, <1>3, <1>4, <1>5, DeletionsStart

\* Steps that take nothing away but old notifications.
LEMMA NothingLost ==
  ASSUME Ids(bookings) \subseteq Ids(bookings'), wallets \subseteq wallets', ledger \subseteq ledger',
         ratings \subseteq ratings',
         \A n \in notifications : ~n.old =>
            \E m \in notifications' : m.user = n.user /\ m.booking \in {n.booking, None}
  PROVE  LeftToOthers
<1>1. \A b \in bookings : b.id \in Ids(bookings)'
  BY DEF Ids
<1> QED
  BY <1>1 DEF LeftToOthers

\* What a deletion takes away is of the account, of its profile or about its bookings.
LEMMA DeletionLeaves ==
  ASSUME TypeOK, OwnedAreOwn, NEW p \in Procs, CommitDelete(p)
  PROVE  LeftToOthers
<1> DEFINE s == session[p]
           gone == s.owned \cup (IF setting.foreignKeys THEN RidesOf(s.user) ELSE {})
<1>1. Deletes(s, gone) /\ s.op = "delete"
  BY DEF CommitDelete, Commits, Deletes, Blocked, RidesOf
<1>2. \A b \in bookings : b.id \in s.owned => b.user = s.user
  BY <1>1 DEF OwnedAreOwn, Named, Removing
<1>3. \A b \in bookings : b.id \in gone => b.user = s.user
  BY <1>2 DEF RidesOf, TypeOK, UniqueIds
<1> HIDE DEF gone, s
<1>4. /\ Ids(users)' = Ids(users) \ {s.user} /\ Ids(drivers)' = Ids(drivers) \ {s.driver}
      /\ bookings' = KeptBookings(s) /\ wallets' = wallets
  BY <1>1, RowsLeft DEF Deletes, Ids
<1>5. ASSUME NEW b \in bookings, b.user # s.user PROVE b.id \in Ids(bookings)'
  <2>1. PICK a \in KeptBookings(s) : a.id = b.id
    BY <1>5, KeptBookingsAre
  <2> QED
    BY <1>4, <2>1 DEF Ids
<1>6. ASSUME NEW n \in notifications, n.user # s.user
      PROVE  \E m \in notifications' : m.user = n.user /\ m.booking \in {n.booking, None}
  <2>1. Detached(n, gone) \in notifications'
    BY <1>1, <1>6 DEF Deletes, KeptNotifications
  <2>2. Detached(n, gone).user = n.user /\ Detached(n, gone).booking \in {n.booking, None}
    BY DetachedRows
  <2> QED
    BY <2>1, <2>2
<1>7. ASSUME NEW t \in ledger, t.driver # s.driver
      PROVE  \E q \in ledger' : q.driver = t.driver /\ q.booking \in {t.booking, None}
  <2>1. Detached(t, gone) \in ledger'
    BY <1>1, <1>7 DEF Deletes
  <2>2. Detached(t, gone).driver = t.driver /\ Detached(t, gone).booking \in {t.booking, None}
    BY DetachedRows
  <2> QED
    BY <2>1, <2>2
<1>8. ASSUME NEW id \in gone PROVE id \notin Ids(bookings)'
  <2>1. \A b \in bookings' : b.id # id
    <3>1. TAKE b \in bookings'
    <3>2. PICK a \in bookings : a.user # s.user /\ b.id = a.id
      BY <1>4, KeptBookingsAre
    <3> QED
      BY <1>3, <1>8, <3>2
  <2> QED
    BY <2>1 DEF Ids
<1>9. ASSUME NEW q \in ratings, q \notin ratings'
      PROVE  \/ q.booking \notin Ids(bookings)' \/ q.driver \notin Ids(drivers)'
             \/ q.user \notin Ids(users)'
  <2>1. q.user = s.user \/ q.driver = s.driver \/ q.booking \in gone
    BY <1>1, <1>9 DEF Deletes
  <2> QED
    BY <1>4, <1>8, <2>1
<1> QED
  BY <1>4, <1>5, <1>6, <1>7, <1>9 DEF LeftToOthers

\* A user's own request takes the booking it names, and what is said of it.
LEMMA DropLeaves ==
  ASSUME TypeOK, OwnedAreOwn, NEW p \in Procs, CommitDrop(p)
  PROVE  LeftToOthers
<1> DEFINE s == session[p]
           gone == IF setting.foreignKeys THEN {s.booking} ELSE {}
<1>1. /\ s.op = "drop" /\ UNCHANGED <<users, drivers, wallets>>
      /\ bookings' = bookings \ Where(bookings, s.booking)
      /\ notifications' = {Detached(n, gone) : n \in notifications}
      /\ ratings' = {q \in ratings : q.booking \notin gone}
      /\ ledger' = {Detached(t, gone) : t \in ledger}
      /\ gone \subseteq {s.booking}
  BY DEF CommitDrop, Commits
<1>2. \A b \in bookings : b.id = s.booking => b.user = s.user
  BY <1>1 DEF OwnedAreOwn, Named, Removing
<1>3. \A u, b : s.user = u /\ s.booking = b.id => Dropped(u, b)
  BY <1>1 DEF Dropped
<1> HIDE DEF gone, s
<1>4. Ids(bookings)' = Ids(bookings) \ {s.booking}
  BY <1>1, RowsLeft DEF Ids
<1>5. \A b \in bookings : b.id \in Ids(bookings)' \/ Dropped(b.user, b)
  BY <1>2, <1>3, <1>4 DEF Ids
<1>6. \A n \in notifications : \E m \in notifications' : m.user = n.user /\ m.booking \in {n.booking, None}
  BY <1>1, DetachedRows
<1>7. \A t \in ledger : \E q \in ledger' : q.driver = t.driver /\ q.booking \in {t.booking, None}
  BY <1>1, DetachedRows
<1>8. \A q \in ratings : q \in ratings' \/ q.booking \notin Ids(bookings)'
  BY <1>1, <1>4
<1> QED
  BY <1>1, <1>5, <1>6, <1>7, <1>8 DEF LeftToOthers

LEMMA NextLeaves == TypeOK /\ OwnedAreOwn /\ [Next]_vars => LeftToOthers
<1> SUFFICES ASSUME TypeOK, OwnedAreOwn, [Next]_vars,
                    \A p \in Procs : ~CommitDelete(p) /\ ~CommitDrop(p)
             PROVE  LeftToOthers
  BY DeletionLeaves, DropLeaves
<1>1. Ids(bookings) \subseteq Ids(bookings')
  BY BookingsStay
<1> DEFINE Kept(n) == \E m \in notifications' : m.user = n.user /\ m.booking \in {n.booking, None}
           Grows == /\ wallets \subseteq wallets' /\ ledger \subseteq ledger' /\ ratings \subseteq ratings'
                    /\ \A n \in notifications : ~n.old => Kept(n)
<1>2. ASSUME wallets \subseteq wallets', ledger \subseteq ledger', ratings \subseteq ratings',
             notifications \subseteq notifications'
      PROVE  Grows
  BY <1>2
<1>3. ASSUME NEW p \in Procs, AccountStep(p)
      PROVE  UNCHANGED <<wallets, ledger, ratings, notifications>>
  BY <1>3 DEF AccountStep, Register, RegisterDriver, SetupProfile, CreateProfile, DeleteAccount,
              CommitRegister, CommitRegisterDriver, CommitProfile, CommitSetup, DeleteFails,
              UpdateDriverStatus, GoOnline, StageStatus, CommitDriverStatus, EndRequest, Stage,
              tables
<1>4. ASSUME NEW p \in Procs, RideStep(p)
      PROVE  /\ wallets \subseteq wallets' /\ ledger \subseteq ledger' /\ ratings \subseteq ratings'
             /\ notifications \subseteq notifications'
  BY <1>4 DEF RideStep, CreateBooking, AcceptRide, CompleteRide, RateCustomer, RejectRide, StageRide,
              UpdateBookingStatus, CancelRide, DeleteBooking, FreeDriver, CommitCancel, Stage, tables,
              CommitBooking, CommitAccept, CommitComplete, CommitStatus, CommitRejection, CommitRating
<1>5. ASSUME NEW notes, Notify(notes), \A n \in notifications : ~n.old =>
                \E m \in notes : m.user = n.user /\ m.booking = n.booking
      PROVE  Grows
  BY <1>5 DEF Notify
<1>6. ASSUME NEW n \in notifications, (\E p \in Procs : MarkAsRead(p, n)) \/ NotificationAges(n)
      PROVE  Grows
  <2>1. PICK m : Notify((notifications \ {n}) \cup {m}) /\ m.user = n.user /\ m.booking = n.booking
    <3>1. /\ [n EXCEPT !.read = TRUE].user = n.user /\ [n EXCEPT !.read = TRUE].booking = n.booking
          /\ [n EXCEPT !.old = TRUE].user = n.user /\ [n EXCEPT !.old = TRUE].booking = n.booking
      BY DEF TypeOK, Notification
    <3> QED
      BY <1>6, <3>1 DEF MarkAsRead, NotificationAges
  <2> HIDE DEF Grows
  <2> QED
    BY <2>1, <1>5
<1>7. ASSUME NEW p \in Procs, NEW r \in users, MarkAllAsRead(p, r) PROVE Grows
  <2> DEFINE F == [n \in notifications |-> IF n.user = r.id THEN [n EXCEPT !.read = TRUE] ELSE n]
             notes == {F[n] : n \in notifications}
  <2>1. Notify(notes)
    BY <1>7 DEF MarkAllAsRead
  <2>2. \A n \in notifications : F[n].user = n.user /\ F[n].booking = n.booking
    BY DEF TypeOK, Notification
  <2> HIDE DEF F
  <2>3. \A n \in notifications : \E m \in notes : m.user = n.user /\ m.booking = n.booking
    BY <2>2
  <2> HIDE DEF notes, Grows
  <2> QED
    BY <2>1, <2>3, <1>5
<1>8. ASSUME PurgeExpiredNotifications PROVE Grows
  <2>1. Notify(Recent) /\ \A n \in notifications : ~n.old =>
          \E m \in Recent : m.user = n.user /\ m.booking = n.booking
    BY <1>8 DEF PurgeExpiredNotifications, Recent
  <2> HIDE DEF Grows
  <2> QED
    BY <2>1, <1>5
<1>9. ASSUME NEW p \in Procs, OwnedStep(p) PROVE Grows
  <2>1. \/ /\ wallets \subseteq wallets' /\ ledger \subseteq ledger' /\ ratings \subseteq ratings'
           /\ notifications \subseteq notifications'
        \/ \E n \in notifications : MarkAsRead(p, n)
        \/ \E r \in users : MarkAllAsRead(p, r)
    BY <1>9 DEF OwnedStep, ReadUser, DeleteSavedPlace, SimulateNotification, CommitPlace,
                CommitNotification, CommitOrder, Notify, Stage, tables
  <2> HIDE DEF Grows
  <2> QED
    BY <2>1, <1>2, <1>6, <1>7
<1>10. Grows
  <2>1. ASSUME UNCHANGED vars PROVE Grows
    BY <2>1, <1>2 DEF vars, tables
  <2>2. ASSUME NEW p \in Procs, AccountStep(p) PROVE Grows
    BY <2>2, <1>2, <1>3
  <2>3. ASSUME NEW p \in Procs, RideStep(p) PROVE Grows
    BY <2>3, <1>2, <1>4
  <2> HIDE DEF Grows
  <2> QED
    BY <2>1, <2>2, <2>3, <1>6, <1>8, <1>9 DEF Next
<1> QED
  BY <1>1, <1>10, NothingLost

\* No step, a deletion that races with others included, takes a rating, the ledger, the
\* wallet or a recent notification from an account that stays, nor a booking that its user
\* did not ask to delete.
THEOREM OthersKeepTheirs == Spec => OthersKept
<1>1. Init => OwnedAreOwn
  BY DEF Init, OwnedAreOwn, Removing, Idle
<1>2. TypeOK /\ OwnedAreOwn /\ [Next]_vars => OwnedAreOwn' /\ [LeftToOthers]_vars
  BY NextOwned, NextLeaves
<1> QED
  BY <1>1, <1>2, InitTypes, NextTypes, PTL DEF Spec, OthersKept

=============================================================================
