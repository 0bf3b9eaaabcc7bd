------------------------- MODULE AccountsProperties -------------------------
(* What is claimed of the tables of module Accounts. *)
EXTENDS Accounts

UniqueIds(table) == \A r, q \in table : r.id = q.id => r = q

\* Every table holds rows of its type, a primary key names one row, and was handed
\* out; requests hold what their handlers read.
TypeOK ==
    /\ setting \in Settings
    /\ issued \subseteq Users \cup Drivers \cup Bookings
    /\ users \subseteq User /\ UniqueIds(users)
    /\ drivers \subseteq Driver /\ UniqueIds(drivers)
    /\ bookings \subseteq Booking /\ UniqueIds(bookings)
    /\ Ids(users) \cup Ids(drivers) \cup Ids(bookings) \subseteq issued
    /\ notifications \subseteq Notification
    /\ ratings \subseteq Rating
    /\ rejections \subseteq Rejection
    /\ ledger \subseteq Txn
    /\ wallets \subseteq Users
    /\ places \subseteq Users
    /\ session \in [Procs -> Session]

\* A ride is rated once although the endpoint looks for a rating and then
\* inserts one: two taps that both found none are told apart by the constraint.
OneRatingPerRide == \A r, q \in ratings : r.booking = q.booking => r = q

\* Every column that refers to an account or a profile names one that is there.
PeopleThere ==
    /\ \A b \in bookings : b.user \in Ids(users) /\ b.driver \in Refs(Ids(drivers))
    /\ \A n \in notifications : n.user \in Ids(users)
    /\ \A q \in ratings : q.user \in Ids(users) /\ q.driver \in Ids(drivers)
    /\ \A row \in rejections \cup ledger : row.driver \in Ids(drivers)
    /\ wallets \cup places \subseteq Ids(users)

\* Every column that refers to a booking names one that is there.
RidesThere ==
    /\ \A row \in notifications \cup ledger : row.booking \in Refs(Ids(bookings))
    /\ \A row \in ratings \cup rejections : row.booking \in Ids(bookings)

\* Nothing refers to an account or a profile that is gone: with foreign keys whatever
\* races with the deletion, and without them (SQLite) one request at a time, by the
\* statements of delete_account alone.  Nothing refers to a booking that is gone if
\* foreign keys are enforced; delete_booking relies on them.
ReferencesLive ==
    /\ ~setting.racing \/ setting.foreignKeys => PeopleThere
    /\ setting.foreignKeys => RidesThere

\* The bookings of an account that goes, and all that is said of them.
TakesItsRides ==
    \A b \in bookings : b.user \in Ids(users) \ Ids(users)' =>
        /\ b.id \notin Ids(bookings)'
        /\ \A row \in notifications' \cup ratings' \cup rejections' \cup ledger' : row.booking # b.id

\* When an account is deleted, its bookings go with it and no row of another table keeps
\* naming one of them, even on SQLite, where delete_account has to see to it itself
\* ("rather than relying on database-specific foreign-key cascade configuration").
DeletionDetaches == [][~setting.racing \/ setting.foreignKeys => TakesItsRides]_vars

\* A ride under way has its passenger and its driver, and the driver an account; unless
\* the panel may set it, a driver is busy with a ride, never with one whose passenger
\* has left ("avoids orphaning an in-progress ride", delete_account).
RidesNotOrphaned ==
    ~setting.racing =>
        /\ \A b \in bookings : b.status = "ACCEPTED" =>
              /\ b.user \in Ids(users)
              /\ \E d \in drivers, r \in users : b.driver = d.id /\ r.phone = d.phone
        /\ "set_status" \notin setting.handlers =>
              \A d \in drivers : d.status = "on_trip" =>
                 \E b \in bookings : b.driver = d.id /\ b.status = "ACCEPTED"

\* A number has one profile at most, and an account if it has a profile.
LinkedByPhone ==
    /\ \A d, e \in drivers : d.phone = e.phone => d = e
    /\ \A d \in drivers : \E r \in users : r.phone = d.phone

\* Profiles and accounts are linked by phone number only, without a constraint:
\* one request at a time there is at most one profile per number, and it does not
\* survive the account it belongs to.
ProfilesMatchAccounts == ~setting.racing => LinkedByPhone

\* The user asked for this booking to be deleted (delete_booking).
Dropped(u, b) == \E p \in Procs : /\ session[p].op = "drop"
                                  /\ session[p].user = u /\ session[p].booking = b.id

\* Accounts that stay, and their profiles, keep what refers to them; so do the rides
\* that stay.
LeftToOthers ==
    /\ \A u \in Ids(users) \cap Ids(users)' :
          /\ \A b \in bookings : b.user = u => b.id \in Ids(bookings)' \/ Dropped(u, b)
          /\ \A n \in notifications : n.user = u /\ ~n.old =>
                \E m \in notifications' : m.user = u /\ m.booking \in {n.booking, None}
          /\ u \in wallets => u \in wallets'
    /\ \A d \in Ids(drivers) \cap Ids(drivers)' :
          \A t \in ledger : t.driver = d =>
             \E q \in ledger' : q.driver = d /\ q.booking \in {t.booking, None}
    /\ \A q \in ratings :
          \/ q \in ratings'
          \/ q.booking \notin Ids(bookings)' \/ q.driver \notin Ids(drivers)'
          \/ q.user \notin Ids(users)'

\* Whatever another account's deletion removes, an account that stays keeps the
\* bookings it does not delete itself, its ledger and its notifications (detached at most), its wallet; the
\* retention sweep takes old notifications only.
OthersKept == [][LeftToOthers]_vars

\* A deletion that found no active ride is carried out ("Permanently delete the
\* authenticated account and its personal data", delete_account).
DeletionGoesThrough == \A p \in Procs : session[p].op = "delete" => ~Blocked(session[p])
=============================================================================
