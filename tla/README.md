# GoCity backend: specifications

TLA+ specifications of the GoCity backend (`src/`, a FastAPI service over SQLAlchemy,
PostgreSQL and Redis), model-checked with TLC and, where marked, proved with TLAPS.
`PROJECT.json` is the machine-readable index: which definition stands for which lines,
the runs, the mutants, the hazards, the findings and the theorems.

## 1. Inventory

| part | state it keeps | operations | interacts through |
|---|---|---|---|
| Ride core: `booking/`, `driver/`, part of `admin/`, `services/ride_otp.py` | rows of `bookings`, `drivers`, `driver_wallet_transactions`, `driver_ride_rejections` | passenger: create (ride, cab, parcel), list, PATCH status, delete; driver: go online/offline, poll, accept, reject, arrive, start, verify code, complete, cancel, upload documents; admin: approve/reject documents, set status | shared rows, no locks, no version column |
| Login codes: `services/otp.py`, `user/router.py` | `OTP_STORE`, one record per phone, in process memory | send, verify, lazy expiry, development master code | a lock; the SMS provider is awaited between two critical sections |
| Wallet top-ups: `payment/` | `user_wallets`, `payment_transactions` | create order, verify (fail, or succeed and credit) | Razorpay; two commits per verification |
| Live driver index: `geo/`, `websocket/driver_status.py` | Redis: a geo set, an alive marker with a time to live, cached meta | heartbeat, go offline, nearby (evicts lazily), publish moves | Redis pipelines without MULTI |
| Accounts: `user/router.py`, `user/service.py`, part of `admin/` | `users`, the `drivers` profiles linked to them by phone number, and every row that refers to either | log in or register, set up a profile, create users and drivers and set a driver's status from the panel, delete a booking, delete the account | constraints of the database, cascades into all other rows |
| Notifications, saved places, customer ratings | `notifications`, `saved_places`, `customer_ratings` | create, read, detach, delete; rate a ride | rows that refer to accounts, profiles and bookings |
| Retention: `services/retention.py` | none of its own | two bulk statements a day | old notifications; codes of earlier versions |
| Parcels: `load_assist/service.py`, `utils/fare.py`, the parcel parts of `booking/router.py` and `driver/router.py` | the add-on and its fare in a booking, the vehicle of a driver, its rejections | estimate, create, poll, reject, accept, cancel, change the vehicle | one list of parcel sizes on each side, read at different moments of a poll |
| Placeholders: `ride/`, `repositories/`, `services/dispatch_service.py`, `tracking_service.py`, `core/websocket` | none | none | the repository marks them as stubs |

What is hard about this code: synchronous endpoints run on a thread pool, each with a session
of its own, and decide on rows they read some time before they commit. The unit of work writes
only the columns that differ from what was read, so two requests that overlap merge column by
column. Some handlers commit twice. The login code store is changed on both sides of an await.
`PROJECT.json` lists each hazard at its line, with the property that covers it or the reason
that none does.

What makes each part correct:

- Ride core: a booking is given to one driver, boarded with a code that was released, settled
  once and exactly, stays over once it is over, and leaves neither a code nor an occupied driver
  behind; a stale request does not linger.
- Login codes: a code works once, guesses are bounded, a code that was not delivered is not
  left, and a live code is not lost to an older delivery.
- Wallet top-ups: a transaction is SUCCEEDED only if it was paid, and then it reaches a balance;
  a balance is what the paid orders brought, each counted once.
- Live index: a driver that is reported was alive, one that keeps beating is not evicted, dead ones
  and deleted ones leave, and an outage of Redis finds the positions in the database.
- Accounts: a number has one account and a ride one rating; a deletion leaves no reference to what
  it removed, orphans no ride, and takes nothing from anybody else.
- Parcels and fares: an add-on is complete and priced by the server, goes to vehicles that can load,
  a request that was dismissed stays dismissed and one that is due is offered; a fare is rounded
  as Python rounds, and more distance or waiting never costs less.

## 2. Modules

| module | what it is |
|---|---|
| `Rides` | the ride core, one action per endpoint phase |
| `RideLifecycle` | abstract: what a booking is promised (requested, assigned, riding, over, gone; paid at most once) |
| `RidesProperties` | invariants, action property, refinement of `RideLifecycle`, fairness and liveness |
| `Rides_proofs` | proofs about `Rides` under any races |
| `RidesSerial_proofs` | proofs about `Rides` one request at a time: the refinement of `RideLifecycle`, the settlement of rides, the gate; extends `Rides_proofs` |
| `MCRides` + five cfgs | instances |
| `LoginOtp`, `LoginOtpProperties`, `LoginOtp_proofs`, `MCLoginOtp` | the login codes |
| `WalletTopUp`, `WalletTopUpProperties`, `WalletTopUp_proofs`, `MCWalletTopUp` + two cfgs | the wallet top-ups |
| `GeoIndex`, `GeoIndexProperties`, `GeoIndex_proofs`, `MCGeoIndex` + cfg | the live driver index |
| `Accounts`, `AccountsProperties`, `MCAccounts` + two cfgs | accounts and all rows that hang on them |
| `Accounts_proofs`, `AccountsReferences_proofs` | types and uniqueness; references, profiles, rides and what others keep |
| `Fares` | the fare of a distance and the wait charge, as functions |
| `LoadAssist` | validation and price of the loading/unloading add-on, as operators |
| `Parcels`, `ParcelsProperties`, `MCParcels` + cfg | the dispatch of parcels; extends `LoadAssist` and `Fares` |
| `Parcels_proofs` | proofs about `Fares` and `Parcels` |

### Rides and the code

A request is a process with a session record. `GetDriver` is `_get_driver` (it reads the driver
and passes the verification gate); the endpoint's action then reads the booking, applies the
handler's guards and *stages* new values; `Commit` is `db.commit()` and writes, by `Flush`, the
columns whose new value differs from the one read. `CommitFails` is the rollback when the row is
gone. `EndRequest` stands for refusals, for endpoints that only read, and for a crash between a
read and the commit (nothing but the database survives it). `CreateBooking`, the bulk expiry and
`DeleteRow` read nothing they later rely on and are single steps.

| action | endpoint |
|---|---|
| `CreateBooking` | `POST /bookings/ride`, `/cab`, `/parcel` |
| `ListMyBookings`, `GetAvailableRides` | the polls, which first run `expire_stale_pending_bookings` |
| `UpdateBookingStatus`, `DeleteBooking` + `DeleteRow` | passenger PATCH and DELETE (two transactions) |
| `GoOnline`, `GoOffline`, `AcceptRide`, `RejectRide`, `ArriveAtPickup`, `StartRide`, `VerifyWrongOtp`/`VerifyRightOtp`, `CancelRide` | the driver endpoints of the same names |
| `CompleteRide`, `AddRideCredit`, `AddCommission` | `complete_ride` up to its first, between its first and second, and after its second query of the wallet balance |
| `UploadDocuments`, `ApproveDocuments`, `RejectDocuments`, `UpdateDriverStatus` | document upload and the admin panel; the development master licence has the effect of `ApproveDocuments` |
| `RequestGoesStale`, `CodeExpires`, `GraceEnds` | time |

Abstractions. A timestamp is what the code compares it with: `created_at` is fresh or stale,
`ride_otp_expires_at` null, live or expired, `arrived_at` null, in or past the grace period. The
code is derived from the booking id and the expiry, so "the right code" is one that is entered
while the expiry is live. Amounts are whole numbers and the commission is rounded down. The
geofence is a choice of whether the handler goes on. Positions and texts are left out; vehicle types,
parcels and the amounts of fares and wait charges are the matter of `Parcels` and `Fares`,
registration, ratings and account deletion that of `Accounts` (here every driver has a profile).
Foreign keys are taken to be enforced, as PostgreSQL does: when a booking is deleted, `DetachRows` and
`DeleteRow` do what the ON DELETE clauses say. SQLite as `core/database.py` configures it would leave
the rows as they are; `Accounts` has both databases.

`BookingStatus` of the PATCH endpoint is any value of the enum; the constant `PatchStatuses` says
which ones passengers send. The app's own screens only end bookings, and the runs use
`{COMPLETED, CANCELLED}`; the theorems hold for every subset.

### LoginOtp and the code

`SendOtp`/`VerifyOtp` are the calls up to the lock (the clock is read there), `RateLimited` and
`StoreCode` the first critical section of `send_otp`, `Delivered`/`DeliveryFails` what follows the
awaited provider, `NoCode`/`RightCode`/`WrongCode` the critical section of `verify_otp`. `Restart`
loses the dictionary and the requests. Codes are numbered, so two codes never coincide by chance.
`accepted`, `failed` and `wrong` are history variables.

### WalletTopUp and the code

`CreateOrder`/`CommitOrder` are `create_order` (with `get_or_create_wallet`, whose INSERT may lose
the race for the unique constraint), `VerifyPayment` is `verify_payment` up to its first commit,
`MarkTransactionFailed` and `MarkTransactionSucceeded` that commit, `ReadBalance` and
`CreditWallet` the second one: the balance is read again after the first commit and written as a
number. `Pay` is Razorpay Checkout, outside the repository. Live mode only; in stub mode every
signature verifies. `debit_wallet` has no caller. Any user may verify any recorded order, as in
the endpoint. `topups` (the orders added to a balance), `credits` (how often an order was added),
`overlapped` (whose balance was written while another request held the number it had read) and `cut`
(the orders whose request broke off between the two commits) are history variables.

### GeoIndex and the code

`DriverHeartbeat` saves the position in the row (read and commit are one step: nothing is awaited
between them, and a concurrent write of the same row leaves one of the two positions either way),
`PingBeforeBeat`, `GeoAdd` and `SetAlive` are the calls to Redis that follow. `GetNearbyDrivers`,
`PingBeforeSearch`, `GeoSearch`, `CheckAlive` (one EXISTS each, in any order) and `EvictStale` are a
search; when Redis is down it is answered by `NearbyFromDatabase`, at whatever point it had
reached. `MarkerExpires`, `RedisFails` and `RedisReturns` are the environment; an outage may lose
the data. `GoOnline`, `StatusChanges`, `UpdateLocation` and `DeleteDriver` are the other writers of the
row. `DeleteDriver` is `delete_account` (`user/router.py:349`): the row goes, the index entry and the
marker stay, and a heartbeat that has committed but not yet read the row again ends at its ping. Its id is not
given to another driver. A
server that goes down is a search that takes no further step and a heartbeat that ends early. A
position is its distance from the riders. `seen` and `steady` are history variables. Left out are
the cached profiles, the note of the rider's last query, and the pub/sub channel with its
WebSocket bridge: nothing modelled decides on them. The index's own `go_offline` has no caller. The
time to live is 25 seconds in `geo/service.py:30`; `geo/README.md:23` still says 10.

### Accounts and the code

A table is a set of rows and a bulk statement is a set expression. A request reads (`Register`,
`SetupProfile`, `DeleteAccount`, ...) and commits later (`CommitRegister`, ...); at the commit the
database checks unique columns, the foreign keys if it enforces them, and that an UPDATE finds its
row. `EndRequest` is a refusal, a constraint that fails, or a crash. `setting` is chosen once: whether
foreign keys are enforced (PostgreSQL; SQLite as `core/database.py` configures it does not), whether
requests overlap, and which endpoints are called.

| action | code |
|---|---|
| `Register`, `SetupProfile` | `verify_otp_endpoint` for an unknown number and the panel's `create_user`; the profile endpoints that write the role |
| `RegisterDriver`, `CreateProfile` | the panel's `create_driver`; `_get_driver(auto_create=True)` |
| `UpdateDriverStatus`, `GoOnline` with `CommitDriverStatus` | the panel's status endpoint, which asks for no ride; `go_online` and `go_offline` |
| `CreateBooking`, `AcceptRide`, `CompleteRide`, `UpdateBookingStatus`, `CancelRide`, `RejectRide`, `RateCustomer` | the ride endpoints, reduced to the rows and columns that a deletion touches |
| `DeleteBooking`, `FreeDriver`, `CommitDrop` | `delete_booking`: its driver is freed by a first commit, the row goes with a second one; the rows that name the booking follow only if foreign keys are enforced |
| `ReadUser` with `CommitPlace` or `CommitOrder`, `DeleteSavedPlace` | saved places; the first top-up order |
| `SimulateNotification`, `MarkAsRead`, `MarkAllAsRead`, `NotificationAges`, `PurgeExpiredNotifications` | notifications and their retention |
| `DeleteAccount`, `CommitDelete`, `DeleteFails` | `delete_account`: the profile and the active bookings are read, then everything is deleted in one transaction |

Abstractions. Ids are never issued twice (SQLite may hand the last one out again). A ride is PENDING,
ACCEPTED (which stands for ONGOING too), COMPLETED or CANCELLED; `Rides` models it in full. The
passenger's PATCH is called on active bookings only. A wallet is saved together with its first
order. Ratings are of two values. A notification may name any booking id, as in the endpoint. The
documents of a driver and the gate that asks for them are left out here, so more calls go through than in
the code; the seeded demo drivers too (`_ensure_seed_drivers`, `booking/router.py:115-131`: profiles
without an account in an empty table, for which `ProfilesMatchAccounts` would not hold). The
endpoints that write none of the columns kept here (texts, pictures, push tokens, positions, codes and
their verification) have no action. The sweep of codes that earlier versions stored is left out: no line
writes that column any more.

### Parcels, LoadAssist, Fares and the code

`FareEstimate` and `CreateParcelBooking` are the passenger's endpoints (`_process_load_assist`,
`validate_load_assist_payload` and `calculate_service_fare` are `Accepts`, `AssistValid` and
`ServiceFare`). A poll (`get_available_rides`) is four steps, because other requests commit between
them: `PollAvailableRides` reads the profile, `SweepStaleBookings` runs
`expire_stale_pending_bookings`, whose commit makes the session forget the profile,
`ReadRejectedIds` reads the rejections (and the profile again, if it was forgotten), `AnswerPoll`
reads the pending bookings and filters them by `_driver_can_carry_parcel`. `RejectRide`, `AcceptRide`,
`CancelRide`, `EndBooking` and `UpdateDriverProfile` are single steps: their own races are the
matter of `Rides`. `settled` is a history variable.

Abstractions. A vehicle is the keyword its name contains; COMPLETED and CANCELLED are one status,
`over`; the age of a booking is kept while it is pending. A payload field is abstracted to what
the validation asks of it, and `textsValid` stands for the two texts; JSON `true` counts as the integer 1, as in Python. Amounts are exact numbers
(rupees, or paise where the code keeps two digits), where the code has floats; `Round` is Python's
rounding of halves to the even number. `build_load_assist_payload` and `create_driver_handoff` have no
caller and are left out.

### Slips

Operators whose comment calls them a *slip* are not used by any specification. Each is the
operator it precedes with one plausible mistake in it; substituting it must break the property
named beside it in `PROJECT.json` under `mutants`. They show that the properties notice the code.

## 3. Runs

| run | bounds | shows |
|---|---|---|
| `rides_serial` | 1 booking, 2 drivers, 1 request slot, 2 attempts, fairness; all endpoints but the bare reject and the panel's status change | exact settlement, budget, code and driver in step, refinement of `RideLifecycle`, a stale request is resolved (371,536 states) |
| `rides_races` | 1 booking, 1 driver, 2 slots, 1 attempt, from the order to the boarding; passengers only cancel or delete | what is committed over a stale row, or a row that is gone, boards nobody unverified, charges no wait that was not, and leaves no ride without a driver (1.85 million states) |
| `login_otp` | 2 phones, 2 requests, 3 codes, clock up to 2, 2 attempts | all login code properties |
| `wallet_topup` | 2 users, 2 orders, 2 slots, 2 verify calls per order, amounts 1 and 3 | all wallet properties (434,445 states) |
| `geo_index` | 2 drivers, 1 heartbeat and 1 search at a time, 2 distances, radius 1, count 1, fairness | all live index properties (934,720 states) |
| `accounts` | 2 numbers, 3 user ids, 2 drivers, 1 booking, 2 slots; one by one without foreign keys, racing with them | one rating per ride, references, profiles, rides, what a deletion takes along and what others keep (331,822 states) |
| `parcels` | 2 drivers, 1 booking, 2 vehicles, 3 sizes, some 25 payloads, distances -0.5 to 10 km, fairness | price and destination of add-ons, dismissed requests stay away, due ones are offered, estimates (392,172 states) |
| `rides_balance`, `rides_double_tap`, `rides_online_gate`, `wallet_replay`, `accounts_wallet` | as small as shows the case | the findings, section 5 |

Why the bounds are enough. Two slots make every pair of endpoints overlap at every point between a
read and a commit; a third request would only merge into the same row a column that one of the two
already has. Two drivers let a booking be fought over; a booking id that is never reused means that
further bookings repeat what the first did. Two attempts separate the last wrong guess from an
earlier one. Three login codes give an old code, its successor and a resend for the other phone. Two
numbers and three user ids let an account be deleted and its number return while another account
stays; two driver ids let a profile come back. The settings of `MCAccounts` name the endpoints that
can interfere with one deletion, a group at a time; the proofs allow any set of them. In
`parcels` every payload but one is wrong in a different field, and the distances contain exact halves on
both sides. `MaxRows`, `MaxCodes`, `MaxTime` and `MaxCalls` are the only bounds on what would
grow: ledger rows, codes, the clock, verify calls. Two rows per completion fit into `MaxRows`;
`rides_races` completes nothing and has none. `SYMMETRY` is used only in runs without liveness,
over identifiers that no definition tells apart.

Deadlock is checked except in the wallet and the accounts runs: there orders, verify calls and ids
are bounded and the system really comes to rest.

Serial and racing properties. `SettledExactly`, `LiveCodeUsable`, `OverHasNoCode`,
`BudgetOnlySpent`, `OnTripHasRide`, the refinement of `RideLifecycle`, `DocumentsAgree` (proved only),
`RidesNotOrphaned` and `ProfilesMatchAccounts` hold with one request at a time and do *not* hold with
two, because nothing serialises requests on a row. They state the logic of the handlers.
`VerifiedAfterRelease`, `WaitChargeJustified`, `LedgerHasRide`, `RideUnderWay`, `TypeOK`,
`OneAccountPerPhone` (proved only), `OneRatingPerRide`, `OthersKept` and everything about login codes, wallets,
parcels and the live index hold under races; so do `ReferencesLive` and `DeletionDetaches` where foreign
keys are enforced. Without foreign keys, one request at a time, accounts and profiles are never
named after they are gone, and neither are the bookings of a deleted account (`DeletionDetaches`); a
booking that its passenger deletes is, because `delete_booking` leaves that to the database, and so is one
that a notification made up (`RidesThere` is claimed with foreign keys only). A driver is
`on_trip` without a ride if the panel said so: `OnTripHasRide` and that part of `RidesNotOrphaned` set
the panel's status endpoint aside. `LedgerHasRide` is model-checked one request at a time and proved for all interleavings.

In `geo_index` a count of 1 with two drivers makes a dead member crowd out the other, one search and
one heartbeat already interleave command by command; the proofs cover any number of both.

Fairness in `rides_serial`: weak fairness of the steps that end a request in a slot (the
server works on what it has accepted), and strong fairness of `ListMyBookings` (the passenger's
app polls while it searches and the pool of slots is handed out fairly, so a poll that is possible
again and again is served). Nothing is assumed about drivers or about other calls. Fairness in
`parcels`: weak fairness of the steps of each driver's poll (the app polls again once an answer has
come, and the server answers); nothing is assumed about anybody else. Fairness in `geo_index`: weak
fairness of searches (riders poll while the map is open, the event loop runs what can run) and of
the expiry of markers. `DeadAreEvicted` is about runs in which heartbeats have stopped and Redis
stays up, so nothing is assumed about either, and a marker that expires is one nobody sets again.

## 4. Proofs

| theorem | states | for |
|---|---|---|
| `Rides_proofs!TypeCorrect`, `ReleasedBeforeVerified`, `WaitingIsJustified`, `LedgerIsGrounded` | `TypeOK`, `VerifiedAfterRelease`, `WaitChargeJustified`, `LedgerHasRide` | any bookings, drivers, slots, endpoints, PATCH values |
| `Rides_proofs!RidesHaveDrivers` | `RideUnderWay` | the same, where PATCH only ends bookings |
| `RidesSerial_proofs!LifecycleIsKept`, `NobodyIsStranded`, `RidesAreSettled`, `GuessesAreNotForgotten`, `ShownCodeIsUsable`, `NoCodeOutlivesRide`, `DocumentsStayInStep` | `ImplementsLifecycle`, `OnTripHasRide`, `SettledExactly`, `BudgetOnlySpent`, `LiveCodeUsable`, `OverHasNoCode`, `DocumentsAgree` | any bookings and drivers, one slot, PATCH only ends bookings (`OnTripHasRide`: the panel sets no status) |
| `RidesSerial_proofs!SecondTapWritesNothing` | `NoDuplicateEntries` | the same: where finding 2 ends |
| `RidesSerial_proofs!CashBalanceRuns` | `RunningBalance` | the same, every ride paid in cash: where finding 1 ends |
| `RidesSerial_proofs!ApprovalIsRequired` | `OnlineIsApproved` | the same, no new papers, passengers end no ride: where finding 3 ends |
| `LoginOtp_proofs!TypeCorrect`, `CodeWorksOnce`, `BoundedGuessing`, `FailedCodeGone`, `NoCodeLost` | `TypeOK`, `UsedOnce`, `GuessesBounded`, `FailedNotStored`, `LiveCodeKept` | any phones, requests, codes, times |
| `GeoIndex_proofs!TypeCorrect`, `SteadyStaysIndexed`, `ReportsAreLive`, `IndexIsDurable`, `DeletedDriversLeave` | `TypeOK`, `SteadyIsIndexed`, `ReportedWasAlive`, `IndexedIsDurable`, `DepartedStaysOut` | any drivers, slots, distances, radius, count |
| `WalletTopUp_proofs!TypeCorrect`, `SuccessIsPaid`, `WalletForOrder`, `VerifiedIsCredited`, `BalanceIsBacked` | `TypeOK`, `SucceededWasPaid`, `OrderHasWallet`, `SuccessIsCredited`, `BalanceBacked` | any users, orders, slots, amounts, calls |
| `WalletTopUp_proofs!OneCreditPerCall` | an order has no more credits than verify calls | the same |
| `WalletTopUp_proofs!CreditedOnceIfCalledOnce` | `CreditedOnce` | the same, one verify call per order: where finding 4 ends |
| `Accounts_proofs!TypeCorrect`, `PhonesAreUnique`, `RidesAreRatedOnce` | `TypeOK`, `OneAccountPerPhone`, `OneRatingPerRide` | any numbers, accounts, profiles, bookings, slots, settings |
| `AccountsReferences_proofs!DeletionLeavesNothing`, `DeletionTakesItsRides`, `ProfilesFollowAccounts`, `RidesKeepTheirPeople`, `OthersKeepTheirs` | `ReferencesLive`, `DeletionDetaches`, `ProfilesMatchAccounts`, `RidesNotOrphaned`, `OthersKept` | the same |
| `Parcels_proofs!TypeCorrect`, `AddOnsArePriced`, `AddOnsNeedLoadingVehicles`, `EstimatesAreRounded`, `SettledStaysSettled` | `TypeOK`, `StoredAssistPriced`, `AssistNeedsLoadingVehicle`, `EstimateRounded`, `SettledNotOffered` | any drivers, bookings, vehicles, sizes, payloads, distances |
| `Parcels_proofs!NoNegativeFare`, `FareGrows`, `GraceIsFree`, `MinuteCostsTheRate`, `WaitChargeGrows` | facts about `FareForDistance` and `WaitChargePaise` | every distance and waiting time |

The only assumptions on constants are `RidesAssumption`, `LoginOtpAssumption`, `WalletTopUpAssumption`,
`GeoIndexAssumption`, `AccountsAssumption`, `LoadAssistAssumption` and `ParcelsAssumption`: the types
of the constants, and that None is none of the other values. TLC evaluates them in every run.
The theorems of `RidesHaveDrivers`' row and of the rows of `RidesSerial_proofs` assume in addition
what the last column says, and so does `CreditedOnceIfCalledOnce`; their statements name it (`OneByOne`,
`CashOnly` and `GateKept` are definitions of these modules). Four theorems state, under such
conditions, the promise that a violating run refutes in general: they say which behaviour a finding
rests on, and that without it the promise is kept.

The argument in `Rides_proofs`. None of the properties is inductive: a session in flight holds
values it read earlier, and its commit puts them over a row that moved on. What saves the
properties is that five columns only move one way (`otp_released`, `otp_verified`, `completed_at`,
`arrived_at`, and `driver_id` once it is set: `Reached`), so that what a session read is still *reached* by the row when it
commits (`Stands`), even across the deletion of the row. The invariant `Inv` adds to `TypeOK` and
the properties that every session is coherent in itself, extends what it read, and still stands
(`SessionOK`); `FlushKeeps` is the lemma that a column-wise merge of two such rows is coherent.
There is one lemma per endpoint and one for each kind of commit.

The argument in `RidesSerial_proofs`. With one slot nobody writes between a request's read and its
commit, but time passes there: a code may have expired and a grace period ended. So the row that is
committed to is the one that was read, `Aged`, and the commit makes of it what the handler made of
the one it read (`AgedFlush`). `SerialInv` says of rows that their columns agree (`RowOK`) and of the
request that what it read is there but for age (`Current`), that what it is about to write is a legal
`Change` of it, and that it keeps its driver in step with the booking (`InStep`). For the refinement,
`StepKinds` sorts the steps by what they do to the database, `CommitPays` shows that a commit pays
for its own booking only, and each kind is one action of the lifecycle (`ShowsAssign`, `ShowsSettle`,
...) or a stutter.

The settlement, in the same module. `SettledExactly` says that the rows of a booking in the ledger of
its driver are those its final fare calls for, in their order, and that nobody else has any. The
invariant `SettleInv` adds what a request under way has staged (`Billed`): it works on the bill that is
there, holds no rows unless it completes the booking, and in each phase of `complete_ride` exactly the
part of the `Settlement` that is behind it. A commit appends these rows (`ListsSettled` for the booking
they name, `ListsOthers` for the others, whose rows stay where they were); a deletion takes the name
off the rows of one booking (`ListsDetached`). That a booking has no row before it is completed is
`LedgerHasRide`. Where every ride is paid in cash a completion appends at most one row, computed
from the last one, so the balance runs (`CommitRuns`).

The gate, in the same module. `GateInv` says that a request that passed the gate, or is about to put its
driver online, holds an approved driver (`Approves`). With one slot nobody can revoke the
approval before it commits.

The argument in `LoginOtp_proofs`. A code is in one place at a time: with the request that
generated it, in one record, or spent (`Placed`); a record's attempts and the wrong guesses add up
(`RecordOK`). Most steps only drop records, which one lemma covers (`DroppingKeeps`).

The argument in `WalletTopUp_proofs`. A payment id is never taken back and a wallet never goes
away, so what a request read of either still stands when it commits (`SessionOK`); orders under
creation are pairwise different. For `BalanceBacked` it
is not enough to look at the balances: the number that a request is about to write must be covered by
the orders that were added when it read it, and be all of them unless somebody wrote in between
(`SessionBacked`); the orders added to a balance are recorded and paid and have been added at least once
(`UserBacked`). A request that then adds an order a second time gives up the premise `AddedOnce`; a
first addition adds exactly its amount to what was received. `overlapped` is raised by the write that leaves
another request with an old number, so every shortfall has its overlap. For the credits, the
verifications of an order that are still to credit it are counted (`Counted`), and the count changes
by the share of one request at a step (`VerifyingStep`). What sums and counts need is shown of a
smallest set that would violate it (`SmallestSubset`), by the well-foundedness of strict inclusion on
finite sets.

The argument in `GeoIndex_proofs`. A steady driver has a marker, so no search can put it among the
stale (`Undisturbed`); a search under way has seen every marker that exists (`Attentive`); a
heartbeat that goes on to Redis has saved its position (`BeatIsSaved`), or its row is gone. That a
deleted driver stays out is inductive as it is: only a heartbeat past its ping writes to Redis, and the ping
finds no row.

The argument in `Accounts_proofs`. A commit inserts rows of the types its request read, so `TypeOK`
is strengthened by `Ready`: a request holds the columns its commit will rely on. Every id in use was
issued and a new one was not, so primary keys stay unique; the two uniqueness theorems follow
from the constraint that the commit itself checks, whatever the handler had found before.

The argument in `AccountsReferences_proofs`. Under races with foreign keys every commit is checked
against the rows that are there, and `CommitDelete` takes along what refers to what it removes. One
request at a time the references must follow from what was read: `IInv` adds that there is at most
one request (`OneAtATime`), that what it read is still true (`Known`), that a number has one profile
and a profile an account (`LinkedByPhone`), and that a ride has a driver and a driver on a
trip a ride, the latter unless the panel's status endpoint is among the handlers (`BusyWithARide`): a profile that `delete_account` overlooked would be one whose number
has another profile, and a ride it orphaned would be one it did not find by the passenger or by
that profile. `DeletionDetaches` follows from the same invariant: with
foreign keys the cascades take along what names a booking, without them the bookings that were read are
all there are. For `OthersKept` the invariant is that the bookings a request is about to remove, by the
deletion of an account or of a booking, belong to its user or are gone (`OwnedAreOwn`), so what it
detaches or deletes is nobody else's.

The argument in `Parcels_proofs`. A poll has a vehicle in the phases that use it (`PollsReady`);
every stored add-on passed `AssistValid` and was priced (an invariant over bookings, with the size it
was admitted for), and the sizes of the two lists are disjoint. A request that was settled when a
poll began is, at each of its phases, rejected by this driver, stale, swept, or already among
what the poll read. The theorems about fares work with quotients and remainders by ten and by sixty, the
only divisors in use.

Only model-checked: liveness (`StaleRequestResolved`, `DeadAreEvicted`, `OfferedWhileDue`), which is
out of the prover's reach, as is ENABLED. Every other property of the passing runs has a theorem. The
other way round, `DocumentsAgree`, `OrderHasWallet` and `OneAccountPerPhone`, which follow closely from single
statements or constraints of the code, are stated in the modules of their proofs and are in no run. The
library's induction theorems take an operator as a parameter, which the provers cannot instantiate; where
induction over finite sets was needed, a smallest counterexample did.

## 5. Findings

1. `rides_balance`: `balance_after` of the commission row leaves out the fare credited in the
   same transaction, because the session does not autoflush (`driver/router.py:295`,
   `core/database.py:118`, against `models/wallet.py:3-6`). Rides paid in cash, one
   request at a time, do not show it (`CashBalanceRuns`).
2. `rides_double_tap`: overlapping calls to complete a ride write the ledger twice
   (`driver/router.py:766`, against the comment at 767-768). A second tap that follows the first
   writes nothing (`SecondTapWritesNothing`).
3. `rides_online_gate`: a driver rejected during a ride is put online when the ride ends
   (`booking/router.py:476`, against `README.md:68-69` and `admin/router.py:356`).
   One request at a time, only endings by the passenger and new papers, which take back an approval
   and leave the status, have a driver online who is not approved (`ApprovalIsRequired`).
4. `wallet_replay`: a verification that is repeated after success credits again
   (`payment/repository.py:149`, against `payment/router.py:149-150`). No call credits twice
   (`OneCreditPerCall`), and where no order is added twice, overlaps lose credits at worst
   (`BalanceIsBacked`).
5. `accounts_wallet`: an account that ever ordered a top-up cannot be deleted, because the wallet's
   transactions can neither lose their wallet nor are deleted with it (`user/router.py:357`, against
   `user/router.py:247-253`).

Disagreements too small for a run: `geo/service.py:3` and `geo/README.md:4` say that locations live
only in Redis, but a heartbeat saves them in the driver's row first (`geo/router.py:154`), and
`geo/README.md:88` says that the endpoints answer 503 without Redis, where they fall back to these
rows. `user/router.py:247` says that the personal data is deleted with the account, but the cached
name of a driver, which has no time to live, stays in Redis (`geo/service.py:81`); the only code that
deletes it, `go_offline` of the index, has no caller. The comment at `user/router.py:230` says that `users.email`
is UNIQUE, but `models/user.py:29` declares an index without it, so the 400 it announces never occurs. A
driver's poll that is under way when its rejection commits may still answer the rejected request,
once. `models/payment.py:8-9` says that the balance "is updated atomically whenever a transaction row
is inserted": the row is inserted with the order, and the balance follows a commit after the row is
marked SUCCEEDED (`payment/repository.py:123`), so a break in between loses the credit unless verify is called again
(`SuccessIsCredited` names the case). `user/router.py:351-352` deletes bookings explicitly "rather than
relying on database-specific foreign-key cascade configuration"; `delete_booking` relies on it
(`booking/router.py:516`), and on SQLite ratings, rejections, ledger rows and notifications keep naming the
booking that is gone. The index entry of a driver whose account is deleted stays in Redis until its
marker has run out and searches have evicted it. An accept that commits between the check of `delete_account` and its deletes is detached: the
ride stays ACCEPTED without a driver.

## 6. Not modelled, and why

- The cached profiles and the pub/sub channel of the live index, with its WebSocket bridge: no decision
  rests on either. A late backfill may show riders an old name or vehicle until the driver's next
  heartbeat writes the profile again; moves are dropped freely.
- Names, addresses, pictures, push tokens, positions on a ride (`update_ride_location`), corrections
  of texts by the panel: updates of one row that nothing else reads before it writes.
- Lists, counts, earnings, document downloads: read-only.
- Verification, by one user, of an order of another in `Accounts` (it is in `WalletTopUp`).
- The distance between two points (trigonometry), floating-point error: amounts are exact here.
- Stubs, start-up, configuration, logging, scripts, migrations: no state that requests change.
- Widths of integers: no counter in the code can overflow (amounts are floats or BIGINT).

## 7. Plan

1. Done: ride core and its abstract lifecycle, login codes, wallet top-ups, live driver index,
   accounts with notifications, places, ratings and retention, parcels, load assist and fares, with
   the proofs above.
2. The profile cache and the pub/sub channel of the live index (a late backfill over a newer
   profile, moves published out of order).
3. An abstract wallet (a balance is the sum of what succeeded) that `WalletTopUp` refines when
   verifications of a user do not overlap or repeat.
4. Done: every invariant and action property of the passing runs is proved, and for the findings about
   rides and top-ups the conditions under which the promise holds.
5. Proofs: what races may break and what they may not of the properties that are proved one request at a
   time (`SettledExactly` when completions do not overlap but everything else does).
