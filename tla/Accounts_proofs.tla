---------------------------- MODULE Accounts_proofs ----------------------------
(***************************************************************************)
(* Proofs about accounts, for any numbers of phones, accounts, bookings    *)
(* and racing requests, with or without foreign keys.                      *)
(***************************************************************************)
EXTENDS AccountsProperties, TLAPS

LEMMA NoneIsNothing ==
  /\ None \notin Users /\ None \notin Drivers /\ None \notin Bookings
  /\ None \notin Phones /\ None \notin UserRole
BY AccountsAssumption

LEMMA IdleType == Idle \in Session
BY DEF Idle, Session, Refs, BookingStatus

-----------------------------------------------------------------------------
(* Tables: rows are added, changed in place, or removed *)

LEMMA AddedRow ==
  ASSUME NEW T, NEW row, UniqueIds(T), row.id \notin Ids(T)
  PROVE  UniqueIds(T \cup {row}) /\ Ids(T \cup {row}) = Ids(T) \cup {row.id}
BY DEF UniqueIds, Ids

LEMMA MappedRows ==
  ASSUME NEW T, NEW F, UniqueIds(T), \A r \in T : F[r].id = r.id
  PROVE  UniqueIds({F[r] : r \in T}) /\ Ids({F[r] : r \in T}) = Ids(T)
BY DEF UniqueIds, Ids

LEMMA FewerRows ==
  ASSUME NEW T, NEW S \in SUBSET T, UniqueIds(T)
  PROVE  UniqueIds(S) /\ Ids(S) \subseteq Ids(T)
BY DEF UniqueIds, Ids

\* Rows of accounts whose role is written.
LEMMA WithRoleRows ==
  ASSUME users \subseteq User, UniqueIds(users),
         NEW s, s.role # s.seen => s.role \in UserRole,
         NEW T, T = {WithRole(r, s) : r \in users}
  PROVE  /\ T \subseteq User /\ UniqueIds(T) /\ Ids(T) = Ids(users)
         /\ \A r \in users : WithRole(r, s).id = r.id /\ WithRole(r, s).phone = r.phone
<1> DEFINE F == [r \in users |-> WithRole(r, s)]
<1>1. ASSUME NEW r \in users
      PROVE  WithRole(r, s) \in User /\ WithRole(r, s).id = r.id /\ WithRole(r, s).phone = r.phone
  <2>1. r \in User
    OBVIOUS
  <2>2. CASE r.id = s.user /\ s.role # s.seen
    <3>1. WithRole(r, s) = [r EXCEPT !.role = s.role] /\ s.role \in UserRole
      BY <2>2 DEF WithRole
    <3> QED
      BY <2>1, <3>1 DEF User
  <2>3. CASE ~(r.id = s.user /\ s.role # s.seen)
    BY <2>1, <2>3 DEF WithRole
  <2> QED
    BY <2>2, <2>3
<1>2. T = {F[r] : r \in users} /\ \A r \in users : F[r].id = r.id
  BY <1>1
<1>3. T \subseteq User
  BY <1>1
<1> HIDE DEF F
<1>4. UniqueIds({F[r] : r \in users}) /\ Ids({F[r] : r \in users}) = Ids(users)
  BY <1>2, MappedRows
<1> QED
  BY <1>1, <1>2, <1>3, <1>4

\* Profiles whose status is written.
LEMMA WithStatusRows ==
  ASSUME drivers \subseteq Driver, UniqueIds(drivers),
         NEW id, NEW status \in DriverStatus
  PROVE  /\ WithStatus(id, status) \subseteq Driver
         /\ UniqueIds(WithStatus(id, status)) /\ Ids(WithStatus(id, status)) = Ids(drivers)
<1> DEFINE F == [d \in drivers |-> IF d.id = id THEN [d EXCEPT !.status = status] ELSE d]
<1>1. ASSUME NEW d \in drivers PROVE F[d] \in Driver /\ F[d].id = d.id
  BY DEF Driver
<1>2. WithStatus(id, status) = {F[d] : d \in drivers}
  BY DEF WithStatus
<1>3. \A d \in drivers : F[d].id = d.id
  BY <1>1
<1>4. {F[d] : d \in drivers} \subseteq Driver
  BY <1>1
<1> HIDE DEF F
<1> QED
  BY <1>2, <1>3, <1>4, MappedRows

LEMMA MoveDriverRows ==
  ASSUME drivers \subseteq Driver, UniqueIds(drivers),
         NEW s, NEW status \in DriverStatus, MoveDriver(s, status)
  PROVE  drivers' \subseteq Driver /\ UniqueIds(drivers') /\ Ids(drivers') = Ids(drivers)
BY WithStatusRows DEF MoveDriver

\* Bookings that get a driver and a status.
LEMMA UpdatedBookings ==
  ASSUME bookings \subseteq Booking, UniqueIds(bookings),
         NEW s, NEW driver \in Refs(Drivers), NEW status \in BookingStatus,
         UpdateBooking(s, driver, status)
  PROVE  bookings' \subseteq Booking /\ UniqueIds(bookings') /\ Ids(bookings') = Ids(bookings)
<1> DEFINE F == [b \in bookings |-> IF b.id = s.booking
                                    THEN [b EXCEPT !.driver = driver, !.status = status] ELSE b]
<1>1. ASSUME NEW b \in bookings PROVE F[b] \in Booking /\ F[b].id = b.id
  BY DEF Booking
<1>2. bookings' = {F[b] : b \in bookings}
  BY DEF UpdateBooking
<1> HIDE DEF F
<1> QED
  BY <1>1, <1>2, MappedRows

\* Bookings that get a status only.
LEMMA EndedBookings ==
  ASSUME bookings \subseteq Booking, UniqueIds(bookings), NEW id, NEW status \in BookingStatus,
         bookings' = Ended(id, status)
  PROVE  bookings' \subseteq Booking /\ UniqueIds(bookings') /\ Ids(bookings') = Ids(bookings)
<1> DEFINE F == [b \in bookings |-> IF b.id = id THEN [b EXCEPT !.status = status] ELSE b]
<1>1. ASSUME NEW b \in bookings PROVE F[b] \in Booking /\ F[b].id = b.id
  BY DEF Booking
<1>2. bookings' = {F[b] : b \in bookings}
  BY DEF Ended
<1> HIDE DEF F
<1> QED
  BY <1>1, <1>2, MappedRows

\* The bookings a deletion leaves, some of them without their driver.
LEMMA KeptBookingsRows ==
  ASSUME bookings \subseteq Booking, UniqueIds(bookings), NEW s
  PROVE  /\ KeptBookings(s) \subseteq Booking /\ UniqueIds(KeptBookings(s))
         /\ Ids(KeptBookings(s)) \subseteq Ids(bookings)
<1> DEFINE T == {x \in bookings : x.user # s.user}
           F == [b \in T |-> IF s.driver # None /\ b.driver = s.driver
                             THEN [b EXCEPT !.driver = None] ELSE b]
<1>1. ASSUME NEW b \in T PROVE F[b] \in Booking /\ F[b].id = b.id
  BY DEF Booking, Refs
<1>2. KeptBookings(s) = {F[b] : b \in T}
  BY DEF KeptBookings
<1>3. T \in SUBSET bookings
  OBVIOUS
<1> HIDE DEF F, T
<1>4. UniqueIds(T) /\ Ids(T) \subseteq Ids(bookings)
  BY <1>3, FewerRows
<1>5. UniqueIds({F[b] : b \in T}) /\ Ids({F[b] : b \in T}) = Ids(T)
  BY <1>1, <1>4, MappedRows
<1> QED
  BY <1>1, <1>2, <1>4, <1>5

-----------------------------------------------------------------------------
(* Types *)

\* What the commit of a request relies on of what its handler read.
Ready(s) ==
    /\ s.role # s.seen => s.role \in UserRole
    /\ s.op \in {"register", "register_driver", "profile"} => s.phone \in Phones
    /\ s.op \in {"book", "rate", "place", "notify", "order", "delete"} => s.user \in Users
    /\ s.op \in {"accept", "complete", "cancel", "rate", "reject"} =>
          s.driver \in Drivers /\ s.booking \in Bookings
    /\ s.op = "patch" => s.status \in BookingStatus
    /\ s.op \in {"set_status", "go_online"} => s.status \in DriverStatus

AllReady == \A p \in Procs : Ready(session[p])

LEMMA IdleReady == Ready(Idle)
BY DEF Ready, Idle

LEMMA StageTypes ==
  ASSUME TypeOK, AllReady, NEW p \in Procs, NEW s \in Session, Ready(s), Stage(p, s)
  PROVE  TypeOK' /\ AllReady'
<1>1. session' = [session EXCEPT ![p] = s] /\ session \in [Procs -> Session]
  BY DEF Stage, TypeOK
<1>2. session' \in [Procs -> Session] /\ AllReady'
  BY <1>1 DEF AllReady
<1> QED
  BY <1>2 DEF TypeOK, Stage, tables

LEMMA IdleAgain ==
  ASSUME TypeOK, AllReady, NEW p \in Procs, session' = [session EXCEPT ![p] = Idle]
  PROVE  session' \in [Procs -> Session] /\ AllReady'
<1>1. session \in [Procs -> Session]
  BY DEF TypeOK
<1> QED
  BY <1>1, IdleType, IdleReady DEF AllReady

\* Every request a handler stages is one its commit can rely on.
LEMMA RegisterTypes ==
  ASSUME TypeOK, AllReady, NEW p \in Procs, NEW phone \in Phones, Register(p, phone)
  PROVE  TypeOK' /\ AllReady'
<1> DEFINE s == [Idle EXCEPT !.op = "register", !.phone = phone]
<1>1. s \in Session
  BY IdleType DEF Session, Refs, HandlerNames, UserRole
<1>2. Ready(s)
  BY IdleType DEF Ready, Session, Idle, UserRole
<1>3. Stage(p, s)
  BY DEF Register, ReadUser, StageRide, DriversOf
<1> HIDE DEF s
<1> QED
  BY <1>1, <1>2, <1>3, StageTypes

LEMMA SetupProfileTypes ==
  ASSUME TypeOK, AllReady, NEW p \in Procs, NEW r \in users, NEW role \in UserRole, SetupProfile(p, r, role)
  PROVE  TypeOK' /\ AllReady'
<1> DEFINE s == [Idle EXCEPT !.op = "setup", !.user = r.id, !.seen = r.role, !.role = role]
<1>0. r.id \in Users /\ r.phone \in Phones /\ r.role \in UserRole
  BY DEF TypeOK, User
<1>1. s \in Session
  BY <1>0, IdleType DEF Session, Refs, HandlerNames, UserRole
<1>2. Ready(s)
  BY <1>0, IdleType DEF Ready, Session, Idle, UserRole
<1>3. Stage(p, s)
  BY DEF SetupProfile, ReadUser, StageRide, DriversOf
<1> HIDE DEF s
<1> QED
  BY <1>1, <1>2, <1>3, StageTypes

LEMMA CreateProfileTypes ==
  ASSUME TypeOK, AllReady, NEW p \in Procs, NEW r \in users, CreateProfile(p, r)
  PROVE  TypeOK' /\ AllReady'
<1> DEFINE s == [Idle EXCEPT !.op = "profile", !.user = r.id, !.phone = r.phone]
<1>0. r.id \in Users /\ r.phone \in Phones /\ r.role \in UserRole
  BY DEF TypeOK, User
<1>1. s \in Session
  BY <1>0, IdleType DEF Session, Refs, HandlerNames, UserRole
<1>2. Ready(s)
  BY <1>0, IdleType DEF Ready, Session, Idle, UserRole
<1>3. Stage(p, s)
  BY DEF CreateProfile, ReadUser, StageRide, DriversOf
<1> HIDE DEF s
<1> QED
  BY <1>1, <1>2, <1>3, StageTypes

LEMMA CreateBookingTypes ==
  ASSUME TypeOK, AllReady, NEW p \in Procs, NEW r \in users, CreateBooking(p, r)
  PROVE  TypeOK' /\ AllReady'
<1> DEFINE s == [Idle EXCEPT !.op = "book", !.user = r.id]
<1>0. r.id \in Users /\ r.phone \in Phones /\ r.role \in UserRole
  BY DEF TypeOK, User
<1>1. s \in Session
  BY <1>0, IdleType DEF Session, Refs, HandlerNames, UserRole
<1>2. Ready(s)
  BY <1>0, IdleType DEF Ready, Session, Idle, UserRole
<1>3. Stage(p, s)
  BY DEF CreateBooking, ReadUser, StageRide, DriversOf
<1> HIDE DEF s
<1> QED
  BY <1>1, <1>2, <1>3, StageTypes

LEMMA ReadUserTypes ==
  ASSUME TypeOK, AllReady, NEW p \in Procs, NEW op \in {"place", "order"}, NEW r \in users, ReadUser(p, op, r)
  PROVE  TypeOK' /\ AllReady'
<1> DEFINE s == [Idle EXCEPT !.op = op, !.user = r.id]
<1>0. r.id \in Users /\ r.phone \in Phones /\ r.role \in UserRole
  BY DEF TypeOK, User
<1>1. s \in Session
  BY <1>0, IdleType DEF Session, Refs, HandlerNames, UserRole
<1>2. Ready(s)
  BY <1>0, IdleType DEF Ready, Session, Idle, UserRole
<1>3. Stage(p, s)
  BY DEF ReadUser, ReadUser, StageRide, DriversOf
<1> HIDE DEF s
<1> QED
  BY <1>1, <1>2, <1>3, StageTypes

LEMMA SimulateTypes ==
  ASSUME TypeOK, AllReady, NEW p \in Procs, NEW r \in users, NEW b \in Refs(Bookings),
         SimulateNotification(p, r, b)
  PROVE  TypeOK' /\ AllReady'
<1> DEFINE s == [Idle EXCEPT !.op = "notify", !.user = r.id, !.booking = b]
<1>0. /\ r.id \in Users /\ r.phone \in Phones /\ r.role \in UserRole
  BY DEF TypeOK, User
<1>1. s \in Session
  BY <1>0, IdleType DEF Session, Refs, HandlerNames, UserRole
<1>2. Ready(s)
  BY <1>0, IdleType DEF Ready, Session, Idle, UserRole
<1>3. Stage(p, s)
  BY DEF SimulateNotification, ReadUser, StageRide, DriversOf
<1> HIDE DEF s
<1> QED
  BY <1>1, <1>2, <1>3, StageTypes

LEMMA StageRideTypes ==
  ASSUME TypeOK, AllReady, NEW p \in Procs, NEW op \in {"accept", "complete", "reject"},
         NEW d \in drivers, NEW b \in bookings, NEW status, StageRide(p, op, d, b, status)
  PROVE  TypeOK' /\ AllReady'
<1> DEFINE moves == d.status # status
           s == [Idle EXCEPT !.op = op, !.driver = d.id, !.moves = moves, !.booking = b.id]
<1>0. /\ d.id \in Refs(Drivers) /\ d.id \in Drivers
      /\ b.id \in Refs(Bookings) /\ b.id \in Bookings
      /\ op \in HandlerNames \cup {"drop", "idle"} /\ moves \in BOOLEAN
  BY DEF TypeOK, Driver, Booking, Refs, HandlerNames
<1>1. Stage(p, s)
  BY DEF StageRide
<1> HIDE DEF moves
<1>2. s \in Session
  BY <1>0, IdleType DEF Session
<1>3. Ready(s)
  BY <1>0, IdleType DEF Ready, Session, Idle
<1> HIDE DEF s
<1> QED
  BY <1>1, <1>2, <1>3, StageTypes

LEMMA RateTypes ==
  ASSUME TypeOK, AllReady, NEW p \in Procs, NEW d \in drivers, NEW b \in bookings, RateCustomer(p, d, b)
  PROVE  TypeOK' /\ AllReady'
<1> DEFINE s == [Idle EXCEPT !.op = "rate", !.driver = d.id, !.booking = b.id, !.user = b.user]
<1>0. /\ d.id \in Drivers /\ b.id \in Bookings /\ b.user \in Users
      /\ b.driver \in Refs(Drivers) /\ b.status \in BookingStatus
  BY DEF TypeOK, Driver, Booking
<1>1. s \in Session
  BY <1>0, IdleType DEF Session, Refs, HandlerNames, UserRole
<1>2. Ready(s)
  BY <1>0, IdleType DEF Ready, Session, Idle, UserRole
<1>3. Stage(p, s)
  BY DEF RateCustomer, ReadUser, StageRide, DriversOf
<1> HIDE DEF s
<1> QED
  BY <1>1, <1>2, <1>3, StageTypes

LEMMA PatchTypes ==
  ASSUME TypeOK, AllReady, NEW p \in Procs, NEW b \in bookings,
         NEW status \in {"COMPLETED", "CANCELLED"}, UpdateBookingStatus(p, b, status)
  PROVE  TypeOK' /\ AllReady'
<1> DEFINE moves == \E d \in drivers : d.id = b.driver /\ d.status # "online"
           s == [Idle EXCEPT !.op = "patch", !.booking = b.id, !.driver = b.driver,
                              !.moves = moves, !.status = status]
<1>0. /\ b.id \in Refs(Bookings) /\ b.driver \in Refs(Drivers)
      /\ "patch" \in HandlerNames \cup {"drop", "idle"} /\ moves \in BOOLEAN
      /\ status \in BookingStatus
  BY DEF TypeOK, Booking, Refs, HandlerNames, BookingStatus
<1>1. Stage(p, s)
  BY DEF UpdateBookingStatus
<1> HIDE DEF moves
<1>2. s \in Session
  BY <1>0, IdleType DEF Session
<1>3. Ready(s)
  BY <1>0, IdleType DEF Ready, Session, Idle
<1> HIDE DEF s
<1> QED
  BY <1>1, <1>2, <1>3, StageTypes

LEMMA CancelTypes ==
  ASSUME TypeOK, AllReady, NEW p \in Procs, NEW d \in drivers, NEW b \in bookings, CancelRide(p, d, b)
  PROVE  TypeOK' /\ AllReady'
<1> DEFINE moves == d.status # "online"
           s == [Idle EXCEPT !.op = "cancel", !.driver = d.id, !.moves = moves,
                              !.booking = b.id, !.status = b.status]
<1>0. /\ d.id \in Refs(Drivers) /\ d.id \in Drivers
      /\ b.id \in Refs(Bookings) /\ b.id \in Bookings /\ b.status \in BookingStatus
      /\ "cancel" \in HandlerNames \cup {"drop", "idle"} /\ moves \in BOOLEAN
  BY DEF TypeOK, Driver, Booking, Refs, HandlerNames
<1>1. Stage(p, s)
  BY DEF CancelRide
<1> HIDE DEF moves
<1>2. s \in Session
  BY <1>0, IdleType DEF Session
<1>3. Ready(s)
  BY <1>0, IdleType DEF Ready, Session, Idle
<1> HIDE DEF s
<1> QED
  BY <1>1, <1>2, <1>3, StageTypes

LEMMA DeleteBookingTypes ==
  ASSUME TypeOK, AllReady, NEW p \in Procs, NEW b \in bookings, DeleteBooking(p, b)
  PROVE  TypeOK' /\ AllReady'
<1> DEFINE moves == \E d \in drivers : d.id = b.driver /\ d.status # "online"
           op == IF b.driver \in Ids(drivers) THEN "delete_booking" ELSE "drop"
           s == [Idle EXCEPT !.op = op, !.user = b.user, !.booking = b.id, !.driver = b.driver,
                              !.moves = moves]
<1>0. /\ b.id \in Refs(Bookings) /\ b.user \in Refs(Users) /\ b.driver \in Refs(Drivers)
      /\ op \in HandlerNames \cup {"drop", "idle"} /\ moves \in BOOLEAN
      /\ op \in {"delete_booking", "drop"}
  BY DEF TypeOK, Booking, Refs, HandlerNames
<1>1. Stage(p, s)
  BY DEF DeleteBooking
<1> HIDE DEF moves, op
<1>2. s \in Session
  BY <1>0, IdleType DEF Session
<1>3. Ready(s)
  BY <1>0, IdleType DEF Ready, Session, Idle
<1> HIDE DEF s
<1> QED
  BY <1>1, <1>2, <1>3, StageTypes

LEMMA StageStatusTypes ==
  ASSUME TypeOK, AllReady, NEW p \in Procs, NEW op \in {"set_status", "go_online"},
         NEW d \in drivers, NEW status \in DriverStatus, StageStatus(p, op, d, status)
  PROVE  TypeOK' /\ AllReady'
<1> DEFINE moves == d.status # status
           s == [Idle EXCEPT !.op = op, !.driver = d.id, !.moves = moves, !.status = status]
<1>0. /\ d.id \in Refs(Drivers) /\ moves \in BOOLEAN
      /\ op \in HandlerNames \cup {"drop", "idle"}
  BY DEF TypeOK, Driver, Refs, HandlerNames
<1>1. Stage(p, s)
  BY DEF StageStatus
<1> HIDE DEF moves
<1>2. s \in Session
  BY <1>0, IdleType DEF Session
<1>3. Ready(s)
  BY <1>0, IdleType DEF Ready, Session, Idle
<1> HIDE DEF s
<1> QED
  BY <1>1, <1>2, <1>3, StageTypes

LEMMA RegisterDriverTypes ==
  ASSUME TypeOK, AllReady, NEW p \in Procs, NEW phone \in Phones, RegisterDriver(p, phone)
  PROVE  TypeOK' /\ AllReady'
<1> DEFINE s == [Idle EXCEPT !.op = "register_driver", !.phone = phone]
           t(r) == [Idle EXCEPT !.op = "register_driver", !.phone = phone,
                                 !.user = r.id, !.seen = r.role, !.role = "RIDER"]
<1>1. s \in Session /\ Ready(s)
  BY IdleType DEF Session, Refs, HandlerNames, Ready, Idle
<1>2. ASSUME NEW r \in users PROVE t(r) \in Session /\ Ready(t(r))
  <2>1. r.id \in Users /\ r.role \in UserRole /\ "RIDER" \in UserRole
    BY DEF TypeOK, User, UserRole
  <2>2. t(r) \in Session
    BY <2>1, IdleType DEF Session, Refs, HandlerNames
  <2> QED
    BY <2>1, <2>2, IdleType DEF Ready, Session, Idle
<1>3. Stage(p, s) \/ \E r \in users : Stage(p, t(r))
  BY DEF RegisterDriver
<1> HIDE DEF s, t
<1> QED
  BY <1>1, <1>2, <1>3, StageTypes

LEMMA DeleteAccountTypes ==
  ASSUME TypeOK, AllReady, NEW p \in Procs, NEW r \in users, DeleteAccount(p, r)
  PROVE  TypeOK' /\ AllReady'
<1> DEFINE owned == {b.id : b \in {x \in bookings : x.user = r.id}}
           s(d) == [Idle EXCEPT !.op = "delete", !.user = r.id, !.driver = d, !.owned = owned]
<1>0. /\ r.id \in Users /\ r.id \in Refs(Users) /\ "delete" \in HandlerNames \cup {"drop", "idle"}
      /\ owned \in SUBSET Bookings
      /\ Ids(DriversOf(r.phone)) \subseteq Drivers
  BY DEF TypeOK, User, Booking, Driver, Refs, HandlerNames, Ids, DriversOf
<1>1. PICK d \in Refs(Drivers) : Stage(p, s(d))
  BY <1>0 DEF DeleteAccount, Refs
<1> HIDE DEF owned
<1>2. s(d) \in Session
  BY <1>0, IdleType DEF Session
<1>3. Ready(s(d))
  BY <1>0, IdleType DEF Ready, Session, Idle
<1> HIDE DEF s
<1> QED
  BY <1>1, <1>2, <1>3, StageTypes

-----------------------------------------------------------------------------
\* What TypeOK says of the tables.
Tables ==
    /\ issued \subseteq Users \cup Drivers \cup Bookings
    /\ users \subseteq User /\ UniqueIds(users)
    /\ drivers \subseteq Driver /\ UniqueIds(drivers)
    /\ bookings \subseteq Booking /\ UniqueIds(bookings)
    /\ Ids(users) \cup Ids(drivers) \cup Ids(bookings) \subseteq issued
    /\ notifications \subseteq Notification
    /\ ratings \subseteq Rating
    /\ rejections \subseteq Rejection
    /\ ledger \subseteq Txn
    /\ wallets \subseteq Users
    /\ places \subseteq Users

LEMMA CommitTypes ==
  ASSUME TypeOK, AllReady, NEW p \in Procs, NEW op, Commits(p, op), Tables'
  PROVE  TypeOK' /\ AllReady'
<1>1. session' \in [Procs -> Session] /\ AllReady'
  BY IdleAgain DEF Commits
<1> QED
  BY <1>1 DEF TypeOK, Tables, Commits

\* Where a request that commits stands.
LEMMA Committing ==
  ASSUME TypeOK, AllReady, NEW p \in Procs, NEW op, Commits(p, op)
  PROVE  Tables /\ session[p] \in Session /\ session[p].op = op /\ Ready(session[p])
BY DEF TypeOK, Tables, AllReady, Commits

LEMMA CommitRegisterTypes ==
  ASSUME TypeOK, AllReady, NEW p \in Procs, NEW u \in Users, CommitRegister(p, u)
  PROVE  TypeOK' /\ AllReady'
<1> DEFINE row == [id |-> u, phone |-> session[p].phone, role |-> "USER"]
<1>1. Commits(p, "register") /\ Fresh(u) /\ users' = users \cup {row} /\ issued' = issued \cup {u}
  BY DEF CommitRegister, InsertUser
<1>2. Tables /\ session[p].phone \in Phones
  BY <1>1, Committing DEF Ready
<1>3. row \in User /\ row.id = u /\ u \notin Ids(users)
  BY <1>1, <1>2 DEF User, UserRole, Fresh, Tables
<1> HIDE DEF row
<1>4. users' \subseteq User /\ UniqueIds(users') /\ Ids(users') = Ids(users) \cup {u}
  BY <1>1, <1>2, <1>3, AddedRow DEF Tables
<1>5. Tables'
  BY <1>1, <1>2, <1>4 DEF Tables, CommitRegister
<1> QED
  BY <1>1, <1>5, CommitTypes

LEMMA CommitSetupTypes ==
  ASSUME TypeOK, AllReady, NEW p \in Procs, CommitSetup(p)
  PROVE  TypeOK' /\ AllReady'
<1>1. Commits(p, "setup") /\ users' = {WithRole(r, session[p]) : r \in users}
  BY DEF CommitSetup
<1>2. Tables /\ Ready(session[p])
  BY <1>1, Committing
<1>3. users' \subseteq User /\ UniqueIds(users') /\ Ids(users') = Ids(users)
  BY <1>1, <1>2, WithRoleRows DEF Tables, Ready
<1>4. Tables'
  BY <1>2, <1>3 DEF Tables, CommitSetup
<1> QED
  BY <1>1, <1>4, CommitTypes

\* A profile is inserted, by the panel or by the first call of a rider.
LEMMA AddedDriver ==
  ASSUME Tables, NEW d \in Drivers, Fresh(d), NEW phone \in Phones,
         drivers' = drivers \cup {NewDriver(d, phone)}
  PROVE  drivers' \subseteq Driver /\ UniqueIds(drivers') /\ Ids(drivers') = Ids(drivers) \cup {d}
<1>1. NewDriver(d, phone) \in Driver /\ NewDriver(d, phone).id = d /\ d \notin Ids(drivers)
  BY DEF NewDriver, Driver, DriverStatus, Fresh, Tables
<1> QED
  BY <1>1, AddedRow DEF Tables

LEMMA CommitRegisterDriverTypes ==
  ASSUME TypeOK, AllReady, NEW p \in Procs, NEW u \in Users, NEW d \in Drivers,
         CommitRegisterDriver(p, u, d)
  PROVE  TypeOK' /\ AllReady'
<1> DEFINE s == session[p]
           row == [id |-> u, phone |-> s.phone, role |-> "RIDER"]
<1>1. /\ Commits(p, "register_driver") /\ Fresh(d)
      /\ drivers' = drivers \cup {NewDriver(d, s.phone)}
  BY DEF CommitRegisterDriver
<1>2. Tables /\ s.phone \in Phones /\ Ready(s)
  BY <1>1, Committing DEF Ready
<1>3. drivers' \subseteq Driver /\ UniqueIds(drivers') /\ Ids(drivers') = Ids(drivers) \cup {d}
  BY <1>1, <1>2, AddedDriver
<1>4. CASE InsertUser(u, s.phone, "RIDER") /\ issued' = issued \cup {u, d}
  <2>1. Fresh(u) /\ users' = users \cup {row}
    BY <1>4 DEF InsertUser
  <2>2. row \in User /\ row.id = u /\ u \notin Ids(users)
    BY <2>1, <1>2 DEF User, UserRole, Fresh, Tables
  <2> HIDE DEF row
  <2>3. users' \subseteq User /\ UniqueIds(users') /\ Ids(users') = Ids(users) \cup {u}
    BY <2>1, <2>2, <1>2, AddedRow DEF Tables
  <2>4. Tables'
    BY <1>2, <1>3, <1>4, <2>3 DEF Tables, CommitRegisterDriver
  <2> QED
    BY <1>1, <2>4, CommitTypes
<1>5. CASE users' = {WithRole(r, s) : r \in users} /\ issued' = issued \cup {d}
  <2>1. users' \subseteq User /\ UniqueIds(users') /\ Ids(users') = Ids(users)
    BY <1>5, <1>2, WithRoleRows DEF Tables, Ready
  <2>2. Tables'
    BY <1>2, <1>3, <1>5, <2>1 DEF Tables, CommitRegisterDriver
  <2> QED
    BY <1>1, <2>2, CommitTypes
<1> QED
  BY <1>4, <1>5 DEF CommitRegisterDriver

LEMMA CommitProfileTypes ==
  ASSUME TypeOK, AllReady, NEW p \in Procs, NEW d \in Drivers, CommitProfile(p, d)
  PROVE  TypeOK' /\ AllReady'
<1>1. /\ Commits(p, "profile") /\ Fresh(d)
      /\ drivers' = drivers \cup {NewDriver(d, session[p].phone)}
  BY DEF CommitProfile
<1>2. Tables /\ session[p].phone \in Phones
  BY <1>1, Committing DEF Ready
<1>3. drivers' \subseteq Driver /\ UniqueIds(drivers') /\ Ids(drivers') = Ids(drivers) \cup {d}
  BY <1>1, <1>2, AddedDriver
<1>4. Tables'
  BY <1>2, <1>3 DEF Tables, CommitProfile
<1> QED
  BY <1>1, <1>4, CommitTypes

LEMMA CommitBookingTypes ==
  ASSUME TypeOK, AllReady, NEW p \in Procs, NEW b \in Bookings, CommitBooking(p, b)
  PROVE  TypeOK' /\ AllReady'
<1> DEFINE row == [id |-> b, user |-> session[p].user, driver |-> None, status |-> "PENDING"]
<1>1. /\ Commits(p, "book") /\ Fresh(b)
      /\ bookings' = bookings \cup {row} /\ issued' = issued \cup {b}
  BY DEF CommitBooking
<1>2. Tables /\ session[p].user \in Users
  BY <1>1, Committing DEF Ready
<1>3. row \in Booking /\ row.id = b /\ b \notin Ids(bookings)
  BY <1>1, <1>2 DEF Booking, BookingStatus, Refs, Fresh, Tables
<1> HIDE DEF row
<1>4. bookings' \subseteq Booking /\ UniqueIds(bookings') /\ Ids(bookings') = Ids(bookings) \cup {b}
  BY <1>1, <1>2, <1>3, AddedRow DEF Tables
<1>5. Tables'
  BY <1>1, <1>2, <1>4 DEF Tables, CommitBooking
<1> QED
  BY <1>1, <1>5, CommitTypes

LEMMA CommitAcceptTypes ==
  ASSUME TypeOK, AllReady, NEW p \in Procs, CommitAccept(p)
  PROVE  TypeOK' /\ AllReady'
<1>1. /\ Commits(p, "accept") /\ MoveDriver(session[p], "on_trip")
      /\ UpdateBooking(session[p], session[p].driver, "ACCEPTED")
  BY DEF CommitAccept
<1>2. Tables /\ session[p].driver \in Refs(Drivers)
  BY <1>1, Committing DEF Ready, Refs
<1>3. drivers' \subseteq Driver /\ UniqueIds(drivers') /\ Ids(drivers') = Ids(drivers)
  BY <1>1, <1>2, MoveDriverRows DEF Tables, DriverStatus
<1>4. bookings' \subseteq Booking /\ UniqueIds(bookings') /\ Ids(bookings') = Ids(bookings)
  BY <1>1, <1>2, UpdatedBookings DEF Tables, BookingStatus
<1>5. Tables'
  BY <1>2, <1>3, <1>4 DEF Tables, CommitAccept
<1> QED
  BY <1>1, <1>5, CommitTypes

LEMMA CommitCompleteTypes ==
  ASSUME TypeOK, AllReady, NEW p \in Procs, CommitComplete(p)
  PROVE  TypeOK' /\ AllReady'
<1> DEFINE s == session[p]
<1>1. /\ Commits(p, "complete") /\ MoveDriver(s, "online")
      /\ bookings' = Ended(s.booking, "COMPLETED")
      /\ ledger' = ledger \cup {[driver |-> s.driver, booking |-> s.booking]}
  BY DEF CommitComplete
<1>2. Tables /\ s.driver \in Drivers /\ s.booking \in Refs(Bookings)
  BY <1>1, Committing DEF Ready, Refs
<1>3. drivers' \subseteq Driver /\ UniqueIds(drivers') /\ Ids(drivers') = Ids(drivers)
  BY <1>1, <1>2, MoveDriverRows DEF Tables, DriverStatus
<1>4. bookings' \subseteq Booking /\ UniqueIds(bookings') /\ Ids(bookings') = Ids(bookings)
  BY <1>1, <1>2, EndedBookings DEF Tables, BookingStatus
<1>5. ledger' \subseteq Txn
  BY <1>1, <1>2 DEF Tables, Txn
<1>6. Tables'
  BY <1>2, <1>3, <1>4, <1>5 DEF Tables, CommitComplete
<1> QED
  BY <1>1, <1>6, CommitTypes

LEMMA CommitStatusTypes ==
  ASSUME TypeOK, AllReady, NEW p \in Procs, CommitStatus(p)
  PROVE  TypeOK' /\ AllReady'
<1> DEFINE s == session[p]
<1>1. /\ Commits(p, "patch") /\ MoveDriver(s, "online")
      /\ bookings' = Ended(s.booking, s.status)
  BY DEF CommitStatus
<1>2. Tables /\ s.status \in BookingStatus
  BY <1>1, Committing DEF Ready
<1>3. drivers' \subseteq Driver /\ UniqueIds(drivers') /\ Ids(drivers') = Ids(drivers)
  BY <1>1, <1>2, MoveDriverRows DEF Tables, DriverStatus
<1>4. bookings' \subseteq Booking /\ UniqueIds(bookings') /\ Ids(bookings') = Ids(bookings)
  BY <1>1, <1>2, EndedBookings DEF Tables
<1>5. Tables'
  BY <1>2, <1>3, <1>4 DEF Tables, CommitStatus
<1> QED
  BY <1>1, <1>5, CommitTypes

LEMMA CommitCancelTypes ==
  ASSUME TypeOK, AllReady, NEW p \in Procs, CommitCancel(p)
  PROVE  TypeOK' /\ AllReady'
<1> DEFINE s == session[p]
<1>1. /\ Commits(p, "cancel") /\ MoveDriver(s, "online")
      /\ bookings' = bookings \/ bookings' = Ended(s.booking, "CANCELLED")
      /\ rejections' = rejections \cup {[driver |-> s.driver, booking |-> s.booking]}
  BY DEF CommitCancel
<1>2. Tables /\ s.driver \in Drivers /\ s.booking \in Bookings
  BY <1>1, Committing DEF Ready
<1>3. drivers' \subseteq Driver /\ UniqueIds(drivers') /\ Ids(drivers') = Ids(drivers)
  BY <1>1, <1>2, MoveDriverRows DEF Tables, DriverStatus
<1>4. bookings' \subseteq Booking /\ UniqueIds(bookings') /\ Ids(bookings') = Ids(bookings)
  <2>1. CASE bookings' = bookings
    BY <1>2, <2>1 DEF Tables, Ids, UniqueIds
  <2>2. CASE bookings' = Ended(s.booking, "CANCELLED")
    BY <1>2, <2>2, EndedBookings DEF Tables, BookingStatus
  <2> QED
    BY <1>1, <2>1, <2>2
<1>5. rejections' \subseteq Rejection
  BY <1>1, <1>2 DEF Tables, Rejection
<1>6. Tables'
  BY <1>2, <1>3, <1>4, <1>5 DEF Tables, CommitCancel
<1> QED
  BY <1>1, <1>6, CommitTypes

LEMMA CommitDriverStatusTypes ==
  ASSUME TypeOK, AllReady, NEW p \in Procs, CommitDriverStatus(p)
  PROVE  TypeOK' /\ AllReady'
<1> DEFINE s == session[p]
<1>1. PICK op \in {"set_status", "go_online"} : Commits(p, op)
  BY DEF CommitDriverStatus
<1>2. Tables /\ s.status \in DriverStatus
  BY <1>1, Committing DEF Ready
<1>3. MoveDriver(s, s.status)
  BY DEF CommitDriverStatus
<1>4. drivers' \subseteq Driver /\ UniqueIds(drivers') /\ Ids(drivers') = Ids(drivers)
  BY <1>2, <1>3, MoveDriverRows DEF Tables
<1>5. Tables'
  BY <1>2, <1>4 DEF Tables, CommitDriverStatus
<1> QED
  BY <1>1, <1>5, CommitTypes

\* The first commit of a request that deletes a booking.
LEMMA FreeDriverTypes ==
  ASSUME TypeOK, AllReady, NEW p \in Procs, FreeDriver(p)
  PROVE  TypeOK' /\ AllReady'
<1> DEFINE s == [session[p] EXCEPT !.op = "drop"]
<1>1. /\ session[p] \in Session /\ Ready(session[p]) /\ session \in [Procs -> Session]
      /\ session[p].op = "delete_booking"
  BY DEF TypeOK, AllReady, FreeDriver
<1>2. s \in Session /\ session' = [session EXCEPT ![p] = s]
  BY <1>1 DEF Session, FreeDriver
<1>3. Ready(s)
  BY <1>1 DEF Ready, Session
<1> HIDE DEF s
<1>4. session' \in [Procs -> Session] /\ AllReady'
  BY <1>1, <1>2, <1>3 DEF AllReady
<1>5. drivers' \subseteq Driver /\ UniqueIds(drivers') /\ Ids(drivers') = Ids(drivers)
  BY MoveDriverRows DEF TypeOK, FreeDriver, DriverStatus
<1> QED
  BY <1>4, <1>5 DEF TypeOK, FreeDriver

LEMMA CommitRatingTypes ==
  ASSUME TypeOK, AllReady, NEW p \in Procs, NEW stars \in Stars, CommitRating(p, stars)
  PROVE  TypeOK' /\ AllReady'
<1> DEFINE s == session[p]
<1>1. /\ Commits(p, "rate")
      /\ ratings' = ratings \cup {[booking |-> s.booking, driver |-> s.driver, user |-> s.user,
                                    stars |-> stars]}
  BY DEF CommitRating
<1>2. Tables /\ s.driver \in Drivers /\ s.booking \in Bookings /\ s.user \in Users
  BY <1>1, Committing DEF Ready
<1>3. ratings' \subseteq Rating
  BY <1>1, <1>2 DEF Tables, Rating
<1>4. Tables'
  BY <1>2, <1>3 DEF Tables, CommitRating
<1> QED
  BY <1>1, <1>4, CommitTypes

LEMMA CommitRejectionTypes ==
  ASSUME TypeOK, AllReady, NEW p \in Procs, CommitRejection(p)
  PROVE  TypeOK' /\ AllReady'
<1> DEFINE s == session[p]
<1>1. /\ Commits(p, "reject")
      /\ rejections' = rejections \cup {[driver |-> s.driver, booking |-> s.booking]}
  BY DEF CommitRejection
<1>2. Tables /\ s.driver \in Drivers /\ s.booking \in Bookings
  BY <1>1, Committing DEF Ready
<1>3. rejections' \subseteq Rejection
  BY <1>1, <1>2 DEF Tables, Rejection
<1>4. Tables'
  BY <1>2, <1>3 DEF Tables, CommitRejection
<1> QED
  BY <1>1, <1>4, CommitTypes

\* Saved places and wallets.
LEMMA CommitOwnedTypes ==
  ASSUME TypeOK, AllReady, NEW p \in Procs, CommitPlace(p) \/ CommitOrder(p)
  PROVE  TypeOK' /\ AllReady'
<1>1. CASE CommitPlace(p)
  <2>1. Commits(p, "place")
    BY <1>1 DEF CommitPlace
  <2>2. Tables /\ session[p].user \in Users
    BY <2>1, Committing DEF Ready
  <2>3. Tables'
    BY <1>1, <2>2 DEF Tables, CommitPlace
  <2> QED
    BY <2>1, <2>3, CommitTypes
<1>2. CASE CommitOrder(p)
  <2>1. Commits(p, "order")
    BY <1>2 DEF CommitOrder
  <2>2. Tables /\ session[p].user \in Users
    BY <2>1, Committing DEF Ready
  <2>3. Tables'
    BY <1>2, <2>2 DEF Tables, CommitOrder
  <2> QED
    BY <2>1, <2>3, CommitTypes
<1> QED
  BY <1>1, <1>2

\* Notifications that are about no booking once their booking is gone, and the
\* ledger rows that lose theirs.
LEMMA DetachedType ==
  ASSUME NEW gone
  PROVE  /\ \A n \in Notification : /\ Detached(n, gone) \in Notification
                                    /\ Detached(n, gone).user = n.user
         /\ \A t \in Txn : Detached(t, gone) \in Txn /\ Detached(t, gone).driver = t.driver
<1>1. ASSUME NEW n \in Notification
      PROVE  Detached(n, gone) \in Notification /\ Detached(n, gone).user = n.user
  BY DEF Detached, Notification, Refs
<1>2. ASSUME NEW t \in Txn PROVE Detached(t, gone) \in Txn /\ Detached(t, gone).driver = t.driver
  BY DEF Detached, Txn, Refs
<1> QED
  BY <1>1, <1>2

LEMMA CommitDropTypes ==
  ASSUME TypeOK, AllReady, NEW p \in Procs, CommitDrop(p)
  PROVE  TypeOK' /\ AllReady'
<1> DEFINE s == session[p]
           gone == IF setting.foreignKeys THEN {s.booking} ELSE {}
<1>1. /\ Commits(p, "drop")
      /\ bookings' = bookings \ Where(bookings, s.booking)
      /\ notifications' = {Detached(n, gone) : n \in notifications}
      /\ ratings' \subseteq ratings
      /\ rejections' \subseteq rejections
      /\ ledger' = {Detached(t, gone) : t \in ledger}
      /\ UNCHANGED <<issued, users, drivers, wallets, places>>
  BY DEF CommitDrop
<1> HIDE DEF gone
<1>2. Tables
  BY <1>1, Committing
<1>3. bookings' \subseteq Booking /\ UniqueIds(bookings') /\ Ids(bookings') \subseteq Ids(bookings)
  BY <1>1, <1>2, FewerRows DEF Tables
<1>4. notifications' \subseteq Notification
  BY <1>1, <1>2, DetachedType DEF Tables
<1>5. ledger' \subseteq Txn
  BY <1>1, <1>2, DetachedType DEF Tables
<1>6. Tables'
  BY <1>1, <1>2, <1>3, <1>4, <1>5 DEF Tables
<1> QED
  BY <1>1, <1>6, CommitTypes

\* Every set of notifications a handler writes is one.
LEMMA NotifyTypes ==
  ASSUME Tables, NEW notes \in SUBSET Notification, Notify(notes)
  PROVE  Tables'
BY DEF Notify, Tables

LEMMA CommitNotificationTypes ==
  ASSUME TypeOK, AllReady, NEW p \in Procs, CommitNotification(p)
  PROVE  TypeOK' /\ AllReady'
<1> DEFINE row == [user |-> session[p].user, booking |-> session[p].booking,
                   read |-> FALSE, old |-> FALSE]
<1>1. Commits(p, "notify") /\ Notify(notifications \cup {row})
  BY DEF CommitNotification
<1>2. Tables /\ session[p].user \in Users /\ session[p].booking \in Refs(Bookings)
  BY <1>1, Committing DEF Ready, Session
<1>3. row \in Notification
  BY <1>2 DEF Notification
<1> HIDE DEF row
<1>4. Tables'
  BY <1>1, <1>2, <1>3, NotifyTypes DEF Tables
<1> QED
  BY <1>1, <1>4, CommitTypes

\* Notifications that are read, age or are swept.
LEMMA NotificationTypes ==
  ASSUME TypeOK, AllReady,
         \/ \E p \in Procs : \/ \E n \in notifications : MarkAsRead(p, n)
                             \/ \E r \in users : MarkAllAsRead(p, r)
         \/ \E n \in notifications : NotificationAges(n)
         \/ PurgeExpiredNotifications
  PROVE  TypeOK' /\ AllReady'
<1> USE DEF TypeOK, Tables, AllReady
<1>1. PICK notes \in SUBSET Notification : Notify(notes) /\ UNCHANGED <<setting, session>>
  <2>1. CASE \E p \in Procs, n \in notifications : MarkAsRead(p, n)
    BY <2>1 DEF MarkAsRead, Notification
  <2>2. CASE \E n \in notifications : NotificationAges(n)
    BY <2>2 DEF NotificationAges, Notification
  <2>3. CASE \E p \in Procs, r \in users : MarkAllAsRead(p, r)
    <3>1. PICK r \in users :
            /\ Notify({IF n.user = r.id THEN [n EXCEPT !.read = TRUE] ELSE n : n \in notifications})
            /\ UNCHANGED <<setting, session>>
      BY <2>3 DEF MarkAllAsRead
    <3>2. \A n \in notifications :
            (IF n.user = r.id THEN [n EXCEPT !.read = TRUE] ELSE n) \in Notification
      BY DEF Notification
    <3> QED
      BY <3>1, <3>2
  <2>4. CASE PurgeExpiredNotifications
    BY <2>4 DEF PurgeExpiredNotifications, Recent
  <2> QED
    BY <2>1, <2>2, <2>3, <2>4
<1>2. Tables'
  BY <1>1, NotifyTypes
<1> QED
  BY <1>1, <1>2

LEMMA CommitDeleteTypes ==
  ASSUME TypeOK, AllReady, NEW p \in Procs, CommitDelete(p)
  PROVE  TypeOK' /\ AllReady'
<1> DEFINE s == session[p]
           rides == {b.id : b \in {x \in bookings : x.user = s.user}}
           gone == s.owned \cup (IF setting.foreignKeys THEN rides ELSE {})
<1>1. /\ Commits(p, "delete")
      /\ users' = users \ Where(users, s.user)
      /\ drivers' = drivers \ Where(drivers, s.driver)
      /\ bookings' = KeptBookings(s)
      /\ notifications' = KeptNotifications(s, gone)
      /\ ratings' \subseteq ratings
      /\ rejections' \subseteq rejections
      /\ ledger' = {Detached(t, gone) : t \in {x \in ledger : x.driver # s.driver}}
      /\ places' = places \ {s.user}
      /\ issued' = issued /\ wallets' = wallets
  BY DEF CommitDelete, KeptRejections
<1> HIDE DEF gone
<1>2. Tables
  BY <1>1, Committing
<1>3. users' \subseteq User /\ UniqueIds(users') /\ Ids(users') \subseteq Ids(users)
  BY <1>1, <1>2, FewerRows DEF Tables
<1>4. drivers' \subseteq Driver /\ UniqueIds(drivers') /\ Ids(drivers') \subseteq Ids(drivers)
  BY <1>1, <1>2, FewerRows DEF Tables
<1>5. bookings' \subseteq Booking /\ UniqueIds(bookings') /\ Ids(bookings') \subseteq Ids(bookings)
  BY <1>1, <1>2, KeptBookingsRows DEF Tables
<1>6. notifications' \subseteq Notification
  BY <1>1, <1>2, DetachedType DEF Tables, KeptNotifications
<1>7. ledger' \subseteq Txn
  BY <1>1, <1>2, DetachedType DEF Tables
<1>8. Tables'
  BY <1>1, <1>2, <1>3, <1>4, <1>5, <1>6, <1>7 DEF Tables
<1> QED
  BY <1>1, <1>8, CommitTypes

LEMMA EndRequestTypes ==
  ASSUME TypeOK, AllReady, NEW p \in Procs, EndRequest(p)
  PROVE  TypeOK' /\ AllReady'
<1>1. session' \in [Procs -> Session] /\ AllReady'
  BY IdleAgain DEF EndRequest
<1> QED
  BY <1>1 DEF TypeOK, EndRequest, tables

LEMMA InitTypes == Init => TypeOK /\ AllReady
BY IdleType, IdleReady DEF Init, TypeOK, AllReady, UniqueIds, Ids

\* A driver's status is set by the panel or by the driver.
LEMMA StatusTypes ==
  ASSUME TypeOK, AllReady, NEW p \in Procs,
         \/ \E d \in drivers : \/ \E status \in DriverStatus : UpdateDriverStatus(p, d, status)
                              \/ \E status \in {"online", "offline"} : GoOnline(p, d, status)
         \/ CommitDriverStatus(p)
  PROVE  TypeOK' /\ AllReady'
<1>1. ASSUME NEW d \in drivers, NEW status \in DriverStatus,
             UpdateDriverStatus(p, d, status) \/ GoOnline(p, d, status)
      PROVE  TypeOK' /\ AllReady'
  BY <1>1, StageStatusTypes DEF UpdateDriverStatus, GoOnline
<1> QED
  BY <1>1, CommitDriverStatusTypes DEF DriverStatus

LEMMA NextTypes == TypeOK /\ AllReady /\ [Next]_vars => TypeOK' /\ AllReady'
<1> SUFFICES ASSUME TypeOK, AllReady, [Next]_vars PROVE TypeOK' /\ AllReady'
  OBVIOUS
<1>1. CASE UNCHANGED vars
  BY <1>1 DEF TypeOK, AllReady, vars, tables
<1>2. ASSUME NEW p \in Procs, AccountStep(p) PROVE TypeOK' /\ AllReady'
  BY <1>2, RegisterTypes, RegisterDriverTypes, SetupProfileTypes, CreateProfileTypes,
     DeleteAccountTypes, CommitRegisterTypes, CommitRegisterDriverTypes, CommitProfileTypes,
     CommitSetupTypes, CommitDeleteTypes, EndRequestTypes, StatusTypes
     DEF AccountStep, DeleteFails
<1>3. ASSUME NEW p \in Procs, RideStep(p) PROVE TypeOK' /\ AllReady'
  <2>1. ASSUME NEW d \in drivers, NEW b \in bookings,
               AcceptRide(p, d, b) \/ CompleteRide(p, d, b) \/ RejectRide(p, d, b)
        PROVE  TypeOK' /\ AllReady'
    BY <2>1, StageRideTypes DEF AcceptRide, CompleteRide, RejectRide
  <2> QED
    BY <1>3, <2>1, CreateBookingTypes, RateTypes, PatchTypes, CommitBookingTypes, CommitAcceptTypes,
       CommitCompleteTypes, CommitStatusTypes, CommitRejectionTypes, CommitRatingTypes,
       CancelTypes, CommitCancelTypes, DeleteBookingTypes, FreeDriverTypes, CommitDropTypes
       DEF RideStep
<1>4. ASSUME NEW p \in Procs, OwnedStep(p) PROVE TypeOK' /\ AllReady'
  <2>1. ASSUME NEW r \in users, DeleteSavedPlace(p, r) PROVE TypeOK' /\ AllReady'
    BY <2>1 DEF DeleteSavedPlace, TypeOK, AllReady
  <2> QED
    BY <1>4, <2>1, ReadUserTypes, SimulateTypes, NotificationTypes, CommitOwnedTypes,
       CommitNotificationTypes
       DEF OwnedStep
<1>5. ASSUME (\E n \in notifications : NotificationAges(n)) \/ PurgeExpiredNotifications
      PROVE  TypeOK' /\ AllReady'
  BY <1>5, NotificationTypes
<1> QED
  BY <1>1, <1>2, <1>3, <1>4, <1>5 DEF Next

LEMMA AlwaysTyped == Spec => [](TypeOK /\ AllReady)
BY InitTypes, NextTypes, PTL DEF Spec

\* The tables hold rows of their types with primary keys that name one row, and
\* every request holds what its handler read: all handlers of Accounts.
THEOREM TypeCorrect == Spec => []TypeOK
BY AlwaysTyped, PTL

-----------------------------------------------------------------------------
(* The two unique constraints *)

\* Accounts change in four ways.
UsersStep ==
    \/ users' \subseteq users
    \/ \E p \in Procs : users' = {WithRole(r, session[p]) : r \in users}
    \/ \E u \in Users, phone \in Phones, role \in UserRole :
          /\ PhoneFree(phone)
          /\ users' = users \cup {[id |-> u, phone |-> phone, role |-> role]}

LEMMA UsersChange ==
  ASSUME TypeOK, AllReady, [Next]_vars
  PROVE  UsersStep
<1>1. CASE UNCHANGED vars
  BY <1>1 DEF vars, tables, UsersStep
<1>2. ASSUME NEW p \in Procs, AccountStep(p) PROVE UsersStep
  <2>1. ASSUME users' = users PROVE UsersStep
    BY <2>1 DEF UsersStep
  <2>2. ASSUME NEW u \in Users, CommitRegister(p, u) PROVE UsersStep
    <3>1. InsertUser(u, session[p].phone, "USER") /\ session[p].phone \in Phones
      BY <2>2, Committing DEF CommitRegister, Ready
    <3> QED
      BY <3>1 DEF InsertUser, UsersStep, UserRole
  <2>3. ASSUME NEW u \in Users, NEW d \in Drivers, CommitRegisterDriver(p, u, d) PROVE UsersStep
    <3>1. /\ session[p].phone \in Phones
          /\ \/ InsertUser(u, session[p].phone, "RIDER")
             \/ users' = {WithRole(r, session[p]) : r \in users}
      BY <2>3, Committing DEF CommitRegisterDriver, Ready
    <3> QED
      BY <3>1 DEF InsertUser, UsersStep, UserRole
  <2>4. ASSUME CommitSetup(p) PROVE UsersStep
    BY <2>4 DEF CommitSetup, UsersStep
  <2>5. ASSUME CommitDelete(p) PROVE UsersStep
    BY <2>5 DEF CommitDelete, UsersStep
  <2> QED
    BY <1>2, <2>1, <2>2, <2>3, <2>4, <2>5
       DEF AccountStep, Register, RegisterDriver, SetupProfile, CreateProfile, DeleteAccount,
           CommitProfile, DeleteFails, EndRequest, Stage, tables, UpdateDriverStatus, GoOnline,
           StageStatus, CommitDriverStatus
<1>3. ASSUME NEW p \in Procs, RideStep(p) PROVE users' = users
  BY <1>3 DEF RideStep, CreateBooking, AcceptRide, CompleteRide, RateCustomer, RejectRide, StageRide,
              UpdateBookingStatus, Stage, tables, CommitBooking, CommitAccept, CommitComplete,
              CommitStatus, CommitRejection, CommitRating, CancelRide, CommitCancel, DeleteBooking,
              FreeDriver, CommitDrop
<1>4. ASSUME NEW p \in Procs, OwnedStep(p) PROVE users' = users
  BY <1>4 DEF OwnedStep, ReadUser, DeleteSavedPlace, MarkAllAsRead, SimulateNotification, MarkAsRead,
              CommitPlace, CommitNotification, CommitOrder, Notify, Stage, tables
<1>5. ASSUME NEW n \in notifications, NotificationAges(n) PROVE users' = users
  BY <1>5 DEF NotificationAges, Notify
<1>6. ASSUME PurgeExpiredNotifications PROVE users' = users
  BY <1>6 DEF PurgeExpiredNotifications, Notify
<1> QED
  BY <1>1, <1>2, <1>3, <1>4, <1>5, <1>6 DEF Next, UsersStep

\* A phone has one account, however registrations, the panel's creations and
\* deletions race: the unique constraint is there when two requests both found
\* the number free (verify_otp_endpoint, create_user, create_driver).
OneAccountPerPhone == \A r, q \in users : r.phone = q.phone => r = q

LEMMA NextOneAccount ==
  TypeOK /\ AllReady /\ OneAccountPerPhone /\ [Next]_vars => OneAccountPerPhone'
<1> SUFFICES ASSUME TypeOK, AllReady, OneAccountPerPhone, [Next]_vars
             PROVE  OneAccountPerPhone'
  OBVIOUS
<1>1. CASE users' \subseteq users
  BY <1>1 DEF OneAccountPerPhone
<1>2. ASSUME NEW p \in Procs, users' = {WithRole(r, session[p]) : r \in users}
      PROVE  OneAccountPerPhone'
  <2>1. users \subseteq User /\ UniqueIds(users) /\ Ready(session[p])
    BY DEF TypeOK, AllReady
  <2>2. \A r \in users : WithRole(r, session[p]).phone = r.phone
    BY <2>1, WithRoleRows DEF Ready
  <2> QED
    BY <1>2, <2>2 DEF OneAccountPerPhone
<1>3. ASSUME NEW u, NEW phone, NEW role, PhoneFree(phone),
             users' = users \cup {[id |-> u, phone |-> phone, role |-> role]}
      PROVE  OneAccountPerPhone'
  BY <1>3 DEF OneAccountPerPhone, PhoneFree
<1> QED
  BY <1>1, <1>2, <1>3, UsersChange DEF UsersStep

\* However logins, registrations by the panel and deletions race, a phone number
\* has one account.
THEOREM PhonesAreUnique == Spec => []OneAccountPerPhone
<1>1. Init => OneAccountPerPhone
  BY DEF Init, OneAccountPerPhone
<1> QED
  BY <1>1, NextOneAccount, AlwaysTyped, PTL DEF Spec

\* Ratings are inserted one at a time, under the constraint, or deleted.
LEMMA NextOneRating == OneRatingPerRide /\ [Next]_vars => OneRatingPerRide'
<1> SUFFICES ASSUME OneRatingPerRide, [Next]_vars PROVE OneRatingPerRide'
  OBVIOUS
<1>1. ASSUME ratings' \subseteq ratings PROVE OneRatingPerRide'
  BY <1>1 DEF OneRatingPerRide
<1>2. ASSUME NEW p \in Procs, NEW stars \in Stars, CommitRating(p, stars) PROVE OneRatingPerRide'
  BY <1>2 DEF CommitRating, NotRated, OneRatingPerRide
<1>3. CASE UNCHANGED vars
  BY <1>1, <1>3 DEF vars, tables
<1>4. ASSUME NEW p \in Procs, AccountStep(p) PROVE ratings' \subseteq ratings
  BY <1>4 DEF AccountStep, Register, RegisterDriver, SetupProfile, CreateProfile, DeleteAccount,
              CommitRegister, CommitRegisterDriver, CommitProfile, CommitSetup, CommitDelete,
              DeleteFails, EndRequest, Stage, tables, UpdateDriverStatus, GoOnline, StageStatus,
              CommitDriverStatus
<1>5. ASSUME NEW p \in Procs, RideStep(p)
      PROVE  ratings' \subseteq ratings \/ \E stars \in Stars : CommitRating(p, stars)
  BY <1>5 DEF RideStep, CreateBooking, AcceptRide, CompleteRide, RateCustomer, RejectRide, StageRide,
              UpdateBookingStatus, Stage, tables, CommitBooking, CommitAccept, CommitComplete,
              CommitStatus, CommitRejection, CancelRide, CommitCancel, DeleteBooking, FreeDriver,
              CommitDrop
<1>6. ASSUME NEW p \in Procs, OwnedStep(p) PROVE ratings' \subseteq ratings
  BY <1>6 DEF OwnedStep, ReadUser, DeleteSavedPlace, MarkAllAsRead, SimulateNotification, MarkAsRead,
              CommitPlace, CommitNotification, CommitOrder, Notify, Stage, tables
<1>7. ASSUME NEW n \in notifications, NotificationAges(n) PROVE ratings' \subseteq ratings
  BY <1>7 DEF NotificationAges, Notify
<1>8. ASSUME PurgeExpiredNotifications PROVE ratings' \subseteq ratings
  BY <1>8 DEF PurgeExpiredNotifications, Notify
<1> QED
  BY <1>1, <1>2, <1>3, <1>4, <1>5, <1>6, <1>7, <1>8 DEF Next

\* A ride is rated once, although two requests may both have found it unrated.
THEOREM RidesAreRatedOnce == Spec => []OneRatingPerRide
<1>1. Init => OneRatingPerRide
  BY DEF Init, OneRatingPerRide
<1> QED
  BY <1>1, NextOneRating, PTL DEF Spec

=============================================================================
