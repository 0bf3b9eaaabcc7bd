------------------------------ MODULE Accounts ------------------------------
(***************************************************************************)
(* Accounts and everything that hangs on them: user rows, the driver       *)
(* profiles linked to them by phone number, and the rows that refer to     *)
(* either, from the first login to the deletion of the account.            *)
(*                                                                         *)
(* A table is a set of rows and a bulk statement one set expression.  As   *)
(* in module Rides a request is a process with a session: it READS what    *)
(* its handler decides on, and COMMITS later, when the database checks the *)
(* constraints.  A ride is reduced to what account deletion asks of it.    *)
(***************************************************************************)
EXTENDS Integers, FiniteSets

CONSTANTS
    Phones,     \* phone numbers, as _normalise_phone returns them
    Users,      \* user ids (an id is never issued twice)
    Drivers,    \* driver ids
    Bookings,   \* booking ids
    Procs,      \* request slots of the server
    None,       \* SQL NULL / Python None
    Settings    \* the settings that are considered, see Setting

UserRole == {"USER", "RIDER"}
BookingStatus == {"PENDING", "ACCEPTED", "COMPLETED", "CANCELLED"}  \* ACCEPTED or ONGOING
ActiveStatuses == {"PENDING", "ACCEPTED"}
Refs(S) == S \cup {None}

DriverStatus == {"offline", "online", "on_trip"}

\* The endpoints that write a column kept here.  complete, cancel, patch and delete_booking
\* end a ride; the sweep of stale requests writes what patch writes of a PENDING one.
HandlerNames ==
    {"register", "register_driver", "setup", "profile", "set_status", "go_online",
     "book", "accept", "complete", "cancel", "patch", "delete_booking", "rate", "reject",
     "place", "notify", "read", "purge", "order", "delete"}

\* Whether the database enforces foreign keys (PostgreSQL does, SQLite as it is
\* configured here does not), whether requests overlap, and which endpoints are called.
Setting == [foreignKeys : BOOLEAN, racing : BOOLEAN, handlers : SUBSET HandlerNames]

ASSUME AccountsAssumption ==
    /\ None \notin Users \cup Drivers \cup Bookings \cup Phones \cup UserRole
    /\ Settings \subseteq Setting

User == [id : Users, phone : Phones, role : UserRole]
Driver == [id : Drivers, phone : Phones, status : DriverStatus]
Booking == [id : Bookings, user : Users, driver : Refs(Drivers), status : BookingStatus]
Notification == [user : Users, booking : Refs(Bookings), read : BOOLEAN, old : BOOLEAN]
Stars == {1, 5}         \* of the scale 1 .. 5, two that tell ratings apart
Rating == [booking : Bookings, driver : Drivers, user : Users, stars : Stars]
Rejection == [driver : Drivers, booking : Bookings]
Txn == [driver : Drivers, booking : Refs(Bookings)]

\* A request: the handler, and the ids and columns it read.  One that deletes a booking
\* commits twice; "drop" is its second part.
Session == [op : HandlerNames \cup {"drop", "idle"},
            user : Refs(Users), phone : Refs(Phones),
            seen : Refs(UserRole), role : Refs(UserRole),
            driver : Refs(Drivers), moves : BOOLEAN,    \* moves: its status will change
            booking : Refs(Bookings), status : BookingStatus \cup DriverStatus,
            owned : SUBSET Bookings]

Idle == [op |-> "idle", user |-> None, phone |-> None, seen |-> None, role |-> None,
         driver |-> None, moves |-> FALSE, booking |-> None, status |-> "PENDING", owned |-> {}]

VARIABLES
    setting,        \* chosen once
    issued,         \* the ids handed out so far
    users, drivers, bookings, notifications, ratings, rejections, ledger,
    wallets,        \* the users that have a wallet, with payment_transactions
    places,         \* the users that have a saved place
    session

tables == <<users, drivers, bookings, notifications, ratings, rejections, ledger, wallets, places>>
vars == <<setting, issued, tables, session>>

Init ==
    /\ setting \in Settings
    /\ issued = {}
    /\ users = {} /\ drivers = {} /\ bookings = {} /\ notifications = {} /\ ratings = {}
    /\ rejections = {} /\ ledger = {} /\ wallets = {} /\ places = {}
    /\ session = [p \in Procs |-> Idle]

-----------------------------------------------------------------------------
(* Sessions, keys and references.  An operator that a comment calls a slip  *)
(* is not part of the model: it is the definition after it with one         *)
(* plausible mistake, kept to show that the properties notice it.           *)

Calls(p, handler) ==
    /\ handler \in setting.handlers
    /\ \A q \in IF setting.racing THEN {p} ELSE Procs : session[q].op = "idle"

\* The handler has run up to its commit; the database is untouched so far.
Stage(p, s) ==
    /\ session' = [session EXCEPT ![p] = s]
    /\ UNCHANGED <<setting, issued, tables>>

Commits(p, op) ==
    /\ session[p].op = op
    /\ session' = [session EXCEPT ![p] = Idle]
    /\ UNCHANGED setting

\* A refusal, a constraint that fails at the commit, or a crash before it.
EndRequest(p) ==
    /\ session[p].op # "idle"
    /\ session' = [session EXCEPT ![p] = Idle]
    /\ UNCHANGED <<setting, issued, tables>>

Ids(table) == {row.id : row \in table}
Where(table, id) == {row \in table : row.id = id}

Fresh(id) == id \notin issued

\* A foreign key of a row that is inserted or changed.
Refers(id, table) == setting.foreignKeys => id \in Ids(table)

PhoneFree(phone) == \A r \in users : r.phone # phone

\* query(Driver).filter(Driver.phone == phone).first(): no order is given.
DriversOf(phone) == {d \in drivers : d.phone = phone}

-----------------------------------------------------------------------------
(* Logging in and registering: app/user/router.py, app/admin/router.py *)

InsertUser(u, phone, role) ==
    /\ Fresh(u)
    /\ PhoneFree(phone)
    /\ users' = users \cup {[id |-> u, phone |-> phone, role |-> role]}

\* A right code for an unknown phone, or the admin's create_user.
Register(p, phone) ==
    /\ Calls(p, "register")
    /\ PhoneFree(phone)
    /\ Stage(p, [Idle EXCEPT !.op = "register", !.phone = phone])

CommitRegister(p, u) ==
    /\ Commits(p, "register")
    /\ InsertUser(u, session[p].phone, "USER")
    /\ issued' = issued \cup {u}
    /\ UNCHANGED <<drivers, bookings, notifications, ratings, rejections, ledger, wallets, places>>

\* The role in a session is written if it is not the one that was read.
WithRole(r, s) == IF r.id = s.user /\ s.role # s.seen THEN [r EXCEPT !.role = s.role] ELSE r

SetupProfile(p, r, role) ==
    /\ Calls(p, "setup")
    /\ Stage(p, [Idle EXCEPT !.op = "setup", !.user = r.id, !.seen = r.role, !.role = role])

CommitSetup(p) ==
    /\ Commits(p, "setup")
    /\ session[p].user \in Ids(users)
    /\ users' = {WithRole(r, session[p]) : r \in users}
    /\ UNCHANGED <<issued, drivers, bookings, notifications, ratings, rejections, ledger, wallets,
                   places>>

\* A slip: the phone column is left unset.
PhoneUnset(d, phone) == [id |-> d, phone |-> None, status |-> "offline"]

NewDriver(d, phone) == [id |-> d, phone |-> phone, status |-> "offline"]

\* A slip: the phone is not looked up among the profiles.
NoLookup(phone) == phone \in Phones

NoProfile(phone) == DriversOf(phone) = {}

\* create_driver of the admin panel, for a phone with or without an account.
RegisterDriver(p, phone) ==
    /\ Calls(p, "register_driver")
    /\ NoProfile(phone)
    /\ \/ /\ PhoneFree(phone)
          /\ Stage(p, [Idle EXCEPT !.op = "register_driver", !.phone = phone])
       \/ \E r \in users :
             /\ r.phone = phone
             /\ Stage(p, [Idle EXCEPT !.op = "register_driver", !.phone = phone,
                                      !.user = r.id, !.seen = r.role, !.role = "RIDER"])

CommitRegisterDriver(p, u, d) ==
    LET s == session[p] IN
    /\ Commits(p, "register_driver")
    /\ Fresh(d)
    /\ drivers' = drivers \cup {NewDriver(d, s.phone)}
    /\ \/ /\ s.user = None
          /\ InsertUser(u, s.phone, "RIDER")
          /\ issued' = issued \cup {u, d}
       \/ /\ s.user # None
          /\ s.user \in Ids(users) \/ s.seen = s.role
          /\ users' = {WithRole(r, s) : r \in users}
          /\ issued' = issued \cup {d}
    /\ UNCHANGED <<bookings, notifications, ratings, rejections, ledger, wallets, places>>

\* _get_driver(auto_create=True): the first call creates the profile.  Profiles without an
\* account, which _ensure_seed_drivers inserts into an empty table, are left out.
CreateProfile(p, r) ==
    /\ Calls(p, "profile")
    /\ r.role = "RIDER"
    /\ NoProfile(r.phone)
    /\ Stage(p, [Idle EXCEPT !.op = "profile", !.user = r.id, !.phone = r.phone])

CommitProfile(p, d) ==
    /\ Commits(p, "profile")
    /\ Fresh(d)
    /\ drivers' = drivers \cup {NewDriver(d, session[p].phone)}
    /\ issued' = issued \cup {d}
    /\ UNCHANGED <<users, bookings, notifications, ratings, rejections, ledger, wallets, places>>

\* The caller of a driver endpoint is a rider with the phone of the profile.
CalledBy(d) == \E r \in users : r.phone = d.phone /\ r.role = "RIDER"

\* The UPDATE of a driver that is gone fails (StaleDataError).
WithStatus(id, status) ==
    {IF d.id = id THEN [d EXCEPT !.status = status] ELSE d : d \in drivers}

MoveDriver(s, status) ==
    /\ s.moves => s.driver \in Ids(drivers)
    /\ drivers' = IF s.moves THEN WithStatus(s.driver, status) ELSE drivers

StageStatus(p, op, d, status) ==
    Stage(p, [Idle EXCEPT !.op = op, !.driver = d.id, !.moves = d.status # status,
                          !.status = status])

\* The panel sets any status, whatever ride there is; rejected papers set "offline".
UpdateDriverStatus(p, d, status) ==
    /\ Calls(p, "set_status")
    /\ StageStatus(p, "set_status", d, status)

GoOnline(p, d, status) ==
    /\ Calls(p, "go_online")
    /\ CalledBy(d)
    /\ StageStatus(p, "go_online", d, status)

CommitDriverStatus(p) ==
    LET s == session[p] IN
    /\ \E op \in {"set_status", "go_online"} : Commits(p, op)
    /\ MoveDriver(s, s.status)
    /\ UNCHANGED <<issued, users, bookings, notifications, ratings, rejections, ledger, wallets,
                   places>>

-----------------------------------------------------------------------------
(* Rides, as far as accounts are concerned *)

CreateBooking(p, r) ==
    /\ Calls(p, "book")
    /\ Stage(p, [Idle EXCEPT !.op = "book", !.user = r.id])

CommitBooking(p, b) ==
    LET s == session[p] IN
    /\ Commits(p, "book")
    /\ Fresh(b)
    /\ Refers(s.user, users)
    /\ bookings' = bookings \cup {[id |-> b, user |-> s.user, driver |-> None, status |-> "PENDING"]}
    /\ issued' = issued \cup {b}
    /\ UNCHANGED <<users, drivers, notifications, ratings, rejections, ledger, wallets, places>>

\* A driver endpoint read profile d and booking b.
StageRide(p, op, d, b, status) ==
    Stage(p, [Idle EXCEPT !.op = op, !.driver = d.id, !.moves = d.status # status,
                          !.booking = b.id])

Ended(id, status) == {IF b.id = id THEN [b EXCEPT !.status = status] ELSE b : b \in bookings}

\* So does the UPDATE of a booking that is gone.
UpdateBooking(s, driver, status) ==
    /\ s.booking \in Ids(bookings)
    /\ bookings' = {IF b.id = s.booking THEN [b EXCEPT !.driver = driver, !.status = status] ELSE b
                       : b \in bookings}

AcceptRide(p, d, b) ==
    /\ Calls(p, "accept")
    /\ CalledBy(d)
    /\ b.status = "PENDING"
    /\ StageRide(p, "accept", d, b, "on_trip")

CommitAccept(p) ==
    LET s == session[p] IN
    /\ Commits(p, "accept")
    /\ Refers(s.driver, drivers)
    /\ UpdateBooking(s, s.driver, "ACCEPTED")
    /\ MoveDriver(s, "on_trip")
    /\ UNCHANGED <<issued, users, notifications, ratings, rejections, ledger, wallets, places>>

CompleteRide(p, d, b) ==
    /\ Calls(p, "complete")
    /\ CalledBy(d)
    /\ b.driver = d.id
    /\ b.status = "ACCEPTED"
    /\ StageRide(p, "complete", d, b, "online")

\* The ride's ledger rows are inserted with the new status.
CommitComplete(p) ==
    LET s == session[p] IN
    /\ Commits(p, "complete")
    /\ s.booking \in Ids(bookings)
    /\ Refers(s.driver, drivers)
    /\ bookings' = Ended(s.booking, "COMPLETED")
    /\ MoveDriver(s, "online")
    /\ ledger' = ledger \cup {[driver |-> s.driver, booking |-> s.booking]}
    /\ UNCHANGED <<issued, users, notifications, ratings, rejections, wallets, places>>

\* The passenger ends a booking that is not over; its driver is freed.
UpdateBookingStatus(p, b, status) ==
    /\ Calls(p, "patch")
    /\ b.status \in ActiveStatuses
    /\ Stage(p, [Idle EXCEPT !.op = "patch", !.booking = b.id, !.driver = b.driver,
                             !.moves = \E d \in drivers : d.id = b.driver /\ d.status # "online",
                             !.status = status])

CommitStatus(p) ==
    LET s == session[p] IN
    /\ Commits(p, "patch")
    /\ s.booking \in Ids(bookings)
    /\ bookings' = Ended(s.booking, s.status)
    /\ MoveDriver(s, "online")
    /\ UNCHANGED <<issued, users, notifications, ratings, rejections, ledger, wallets, places>>

\* The driver cancels: a booking of any status, which is never offered to it again.
CancelRide(p, d, b) ==
    /\ Calls(p, "cancel")
    /\ CalledBy(d)
    /\ b.driver = d.id
    /\ Stage(p, [Idle EXCEPT !.op = "cancel", !.driver = d.id, !.moves = d.status # "online",
                             !.booking = b.id, !.status = b.status])

\* The status is written if it was another one.
CommitCancel(p) ==
    LET s == session[p] IN
    /\ Commits(p, "cancel")
    /\ Refers(s.driver, drivers) /\ Refers(s.booking, bookings)
    /\ \/ s.status = "CANCELLED" /\ bookings' = bookings
       \/ /\ s.status # "CANCELLED"
          /\ s.booking \in Ids(bookings)
          /\ bookings' = Ended(s.booking, "CANCELLED")
    /\ MoveDriver(s, "online")
    /\ rejections' = rejections \cup {[driver |-> s.driver, booking |-> s.booking]}
    /\ UNCHANGED <<issued, users, notifications, ratings, ledger, wallets, places>>

\* A slip: the insert does not meet the unique constraint.
Unrated(b) == b \in Bookings

NotRated(b) == \A r \in ratings : r.booking # b

RateCustomer(p, d, b) ==
    /\ Calls(p, "rate")
    /\ CalledBy(d)
    /\ b.driver = d.id
    /\ b.status = "COMPLETED"
    /\ NotRated(b.id)
    /\ Stage(p, [Idle EXCEPT !.op = "rate", !.driver = d.id, !.booking = b.id, !.user = b.user])

CommitRating(p, stars) ==
    LET s == session[p] IN
    /\ Commits(p, "rate")
    /\ NotRated(s.booking)
    /\ Refers(s.booking, bookings) /\ Refers(s.driver, drivers) /\ Refers(s.user, users)
    /\ ratings' = ratings \cup {[booking |-> s.booking, driver |-> s.driver, user |-> s.user,
                                  stars |-> stars]}
    /\ UNCHANGED <<issued, users, drivers, bookings, notifications, rejections, ledger, wallets,
                   places>>

RejectRide(p, d, b) ==
    /\ Calls(p, "reject")
    /\ CalledBy(d)
    /\ StageRide(p, "reject", d, b, d.status)

CommitRejection(p) ==
    LET s == session[p] IN
    /\ Commits(p, "reject")
    /\ Refers(s.driver, drivers) /\ Refers(s.booking, bookings)
    /\ rejections' = rejections \cup {[driver |-> s.driver, booking |-> s.booking]}
    /\ UNCHANGED <<issued, users, drivers, bookings, notifications, ratings, ledger, wallets, places>>

\* The owner removes a booking of any status.  A driver it has is freed first, by a
\* commit of its own.
DeleteBooking(p, b) ==
    /\ Calls(p, "delete_booking")
    /\ b.user \in Ids(users)
    /\ Stage(p, [Idle EXCEPT !.op = IF b.driver \in Ids(drivers) THEN "delete_booking" ELSE "drop",
                             !.user = b.user, !.booking = b.id, !.driver = b.driver,
                             !.moves = \E d \in drivers : d.id = b.driver /\ d.status # "online"])

FreeDriver(p) ==
    /\ session[p].op = "delete_booking"
    /\ session' = [session EXCEPT ![p].op = "drop"]
    /\ MoveDriver(session[p], "online")
    /\ UNCHANGED <<setting, issued, users, bookings, notifications, ratings, rejections, ledger,
                   wallets, places>>

Detached(row, gone) == IF row.booking \in gone THEN [row EXCEPT !.booking = None] ELSE row

\* ON DELETE clauses act if foreign keys are enforced; otherwise rows that name the
\* booking keep naming it.
CommitDrop(p) ==
    LET s == session[p]
        gone == IF setting.foreignKeys THEN {s.booking} ELSE {}
    IN  /\ Commits(p, "drop")
        /\ bookings' = bookings \ Where(bookings, s.booking)
        /\ notifications' = {Detached(n, gone) : n \in notifications}
        /\ ratings' = {q \in ratings : q.booking \notin gone}
        /\ rejections' = {q \in rejections : q.booking \notin gone}
        /\ ledger' = {Detached(t, gone) : t \in ledger}
        /\ UNCHANGED <<issued, users, drivers, wallets, places>>

-----------------------------------------------------------------------------
(* Saved places, notifications and their retention, the wallet: rows that   *)
(* refer to a user.  Where nothing read is relied on, one step is enough.   *)

ReadUser(p, op, r) ==
    /\ Calls(p, op)
    /\ Stage(p, [Idle EXCEPT !.op = op, !.user = r.id])

CommitPlace(p) ==
    /\ Commits(p, "place")
    /\ Refers(session[p].user, users)
    /\ places' = places \cup {session[p].user}
    /\ UNCHANGED <<issued, users, drivers, bookings, notifications, ratings, rejections, ledger,
                   wallets>>

DeleteSavedPlace(p, r) ==
    /\ Calls(p, "place")
    /\ places' = places \ {r.id}
    /\ UNCHANGED <<setting, issued, users, drivers, bookings, notifications, ratings, rejections,
                   ledger, wallets, session>>

Notify(notes) ==
    /\ notifications' = notes
    /\ UNCHANGED <<issued, users, drivers, bookings, ratings, rejections, ledger, wallets, places>>

\* About any booking id, or about none: whether there is such a booking is not asked.
SimulateNotification(p, r, b) ==
    /\ Calls(p, "notify")
    /\ Stage(p, [Idle EXCEPT !.op = "notify", !.user = r.id, !.booking = b])

CommitNotification(p) ==
    LET s == session[p] IN
    /\ Commits(p, "notify")
    /\ Refers(s.user, users)
    /\ s.booking # None => Refers(s.booking, bookings)
    /\ Notify(notifications \cup
              {[user |-> s.user, booking |-> s.booking, read |-> FALSE, old |-> FALSE]})

MarkAsRead(p, n) ==
    /\ Calls(p, "read")
    /\ Notify((notifications \ {n}) \cup {[n EXCEPT !.read = TRUE]})
    /\ UNCHANGED <<setting, session>>

MarkAllAsRead(p, r) ==
    /\ Calls(p, "read")
    /\ Notify({IF n.user = r.id THEN [n EXCEPT !.read = TRUE] ELSE n : n \in notifications})
    /\ UNCHANGED <<setting, session>>

NotificationAges(n) ==
    /\ "purge" \in setting.handlers
    /\ Notify((notifications \ {n}) \cup {[n EXCEPT !.old = TRUE]})
    /\ UNCHANGED <<setting, session>>

Recent == {n \in notifications : ~n.old}

PurgeExpiredNotifications ==
    /\ "purge" \in setting.handlers
    /\ Notify(Recent)
    /\ UNCHANGED <<setting, session>>

\* create_order: the wallet is saved with its first payment_transactions row.
CommitOrder(p) ==
    /\ Commits(p, "order")
    /\ Refers(session[p].user, users)
    /\ wallets' = wallets \cup {session[p].user}
    /\ UNCHANGED <<issued, users, drivers, bookings, notifications, ratings, rejections, ledger, places>>

-----------------------------------------------------------------------------
(* Deleting an account: app/user/router.py *)

\* A slip: only the account's own bookings are looked at.
OwnActive(u, d) == {b \in bookings : b.user = u /\ b.status \in ActiveStatuses}

ActiveRides(u, d) ==
    {b \in bookings : b.status \in ActiveStatuses /\ (b.user = u \/ (d # None /\ b.driver = d))}

DeleteAccount(p, r) ==
    /\ Calls(p, "delete")
    /\ \E d \in IF NoProfile(r.phone) THEN {None} ELSE Ids(DriversOf(r.phone)) :
          /\ ActiveRides(r.id, d) = {}
          /\ Stage(p, [Idle EXCEPT !.op = "delete", !.user = r.id, !.driver = d,
                                   !.owned = {b.id : b \in {x \in bookings : x.user = r.id}}])

\* The rows of payment_transactions cannot lose their wallet (NOT NULL), and the
\* relationship from the wallet to them does not delete them.
Blocked(s) == s.user \in wallets

\* A slip: what other users were told about the bookings is thrown away.
DropNotifications(s, gone) ==
    {n \in notifications : n.user # s.user /\ n.booking \notin gone}

\* A slip: the notifications keep pointing at the bookings.
LeaveNotifications(s, gone) == {n \in notifications : n.user # s.user}

KeptNotifications(s, gone) ==
    {Detached(n, gone) : n \in {m \in notifications : m.user # s.user}}

KeptBookings(s) ==
    {IF s.driver # None /\ b.driver = s.driver THEN [b EXCEPT !.driver = None] ELSE b :
       b \in {x \in bookings : x.user # s.user}}

\* A slip: the rejections of the profile stay.
OwnRejections(s, gone) == {q \in rejections : q.booking \notin gone}

KeptRejections(s, gone) == {q \in rejections : q.driver # s.driver /\ q.booking \notin gone}

\* Bookings of the account, those made since it was read included, are deleted
\* in bulk; ON DELETE clauses act for the latter if foreign keys are enforced.
CommitDelete(p) ==
    LET s == session[p]
        rides == {b.id : b \in {x \in bookings : x.user = s.user}}
        gone == s.owned \cup (IF setting.foreignKeys THEN rides ELSE {})
    IN  /\ Commits(p, "delete")
        /\ ~Blocked(s)
        /\ users' = users \ Where(users, s.user)
        /\ drivers' = drivers \ Where(drivers, s.driver)
        /\ bookings' = KeptBookings(s)
        /\ notifications' = KeptNotifications(s, gone)
        /\ ratings' = {q \in ratings : /\ q.user # s.user
                                       /\ q.driver # s.driver
                                       /\ q.booking \notin gone}
        /\ rejections' = KeptRejections(s, gone)
        /\ ledger' = {Detached(t, gone) : t \in {x \in ledger : x.driver # s.driver}}
        /\ places' = places \ {s.user}
        /\ UNCHANGED <<issued, wallets>>

\* The IntegrityError is answered with a 500 after a rollback.
DeleteFails(p) ==
    /\ session[p].op = "delete"
    /\ Blocked(session[p])
    /\ EndRequest(p)

-----------------------------------------------------------------------------
AccountStep(p) ==
    \/ \E ph \in Phones : Register(p, ph) \/ RegisterDriver(p, ph)
    \/ \E r \in users : \/ \E role \in UserRole : SetupProfile(p, r, role)
                        \/ CreateProfile(p, r)
                        \/ DeleteAccount(p, r)
    \/ \E u \in Users : CommitRegister(p, u)
    \/ \E u \in Users, d \in Drivers : CommitRegisterDriver(p, u, d)
    \/ \E d \in Drivers : CommitProfile(p, d)
    \/ \E d \in drivers : \/ \E status \in DriverStatus : UpdateDriverStatus(p, d, status)
                          \/ \E status \in {"online", "offline"} : GoOnline(p, d, status)
    \/ CommitDriverStatus(p)
    \/ CommitSetup(p) \/ CommitDelete(p) \/ DeleteFails(p) \/ EndRequest(p)

RideStep(p) ==
    \/ \E r \in users : CreateBooking(p, r)
    \/ \E b \in Bookings : CommitBooking(p, b)
    \/ \E d \in drivers, b \in bookings : AcceptRide(p, d, b) \/ CompleteRide(p, d, b)
                                          \/ RateCustomer(p, d, b) \/ RejectRide(p, d, b)
                                          \/ CancelRide(p, d, b)
    \/ \E b \in bookings, status \in {"COMPLETED", "CANCELLED"} : UpdateBookingStatus(p, b, status)
    \/ \E b \in bookings : DeleteBooking(p, b)
    \/ FreeDriver(p) \/ CommitDrop(p) \/ CommitCancel(p)
    \/ CommitAccept(p) \/ CommitComplete(p) \/ CommitStatus(p) \/ CommitRejection(p)
    \/ \E stars \in Stars : CommitRating(p, stars)

OwnedStep(p) ==
    \/ \E r \in users : \/ ReadUser(p, "place", r) \/ ReadUser(p, "order", r)
                        \/ DeleteSavedPlace(p, r) \/ MarkAllAsRead(p, r)
                        \/ \E b \in Refs(Bookings) : SimulateNotification(p, r, b)
    \/ \E n \in notifications : MarkAsRead(p, n)
    \/ CommitPlace(p) \/ CommitNotification(p) \/ CommitOrder(p)

Next ==
    \/ \E p \in Procs : AccountStep(p) \/ RideStep(p) \/ OwnedStep(p)
    \/ \E n \in notifications : NotificationAges(n)
    \/ PurgeExpiredNotifications

Spec == Init /\ [][Next]_vars
=============================================================================
