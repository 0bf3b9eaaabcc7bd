------------------------------ MODULE LoginOtp ------------------------------
(***************************************************************************)
(* Login codes: app/services/otp.py behind POST /send-otp and /verify-otp. *)
(*                                                                         *)
(* One in-process dictionary holds at most one record per phone.  Every    *)
(* access to it is a critical section of _STORE_LOCK, but the clock is     *)
(* read before the lock is taken, and send_otp awaits the SMS provider     *)
(* between its two critical sections; requests interleave at those points. *)
(*                                                                         *)
(* Codes are numbered in the order they are generated: that two random     *)
(* codes coincide (one chance in 900000) is left out.  A process restart   *)
(* loses the dictionary and the requests in flight.                        *)
(***************************************************************************)
EXTENDS Integers

CONSTANTS
    Phones,       \* normalised phone numbers
    Procs,        \* requests the server handles at a time
    None,
    TTL,          \* OTP_TTL_SECONDS
    Cooldown,     \* OTP_RESEND_COOLDOWN_SECONDS
    MaxAttempts,  \* OTP_MAX_VERIFY_ATTEMPTS
    MasterCode,   \* whether OTP_DEV_MASTER_CODE is enabled
    MaxCodes,     \* bound: codes generated
    MaxTime       \* bound: the clock

Codes == 1 .. MaxCodes

Record == [code : Codes,
           expires_at : Nat,
           resend_available_at : Nat,
           attempts_remaining : 1 .. MaxAttempts]

ASSUME LoginOtpAssumption ==
    /\ TTL \in Nat \ {0} /\ Cooldown \in Nat \ {0}
    /\ MaxAttempts \in Nat \ {0}
    /\ MasterCode \in BOOLEAN
    /\ MaxCodes \in Nat /\ MaxTime \in Nat
    /\ None \notin Record

\* A request: what it was sent (code 0 was never issued) and the clock it read.
Request == [phase : {"idle", "send", "deliver", "verify"},
            phone : Phones \cup {None},
            code : Codes \cup {0},
            now : Nat]

Idle == [phase |-> "idle", phone |-> None, code |-> 0, now |-> 0]

VARIABLES
    store,    \* OTP_STORE: per phone its record or None
    request,  \* the request in each slot
    clock,    \* time.monotonic()
    issued,   \* the number of codes generated so far
    accepted, \* history: the codes that logged somebody in
    failed,   \* history: the codes the provider refused
    wrong     \* history: wrong guesses made while a code was the stored one

vars == <<store, request, clock, issued, accepted, failed, wrong>>

Init ==
    /\ store = [ph \in Phones |-> None]
    /\ request = [p \in Procs |-> Idle]
    /\ clock = 0
    /\ issued = 0
    /\ accepted = {}
    /\ failed = {}
    /\ wrong = [c \in Codes |-> 0]

-----------------------------------------------------------------------------
Enter(p, r) ==
    /\ request[p].phase = "idle"
    /\ request' = [request EXCEPT ![p] = r]

Leave(p) == request' = [request EXCEPT ![p] = Idle]

\* _clear_expired_records: the whole dictionary, by the clock the caller read.
ClearExpired(now) ==
    [ph \in Phones |->
        IF store[ph] # None /\ store[ph].expires_at <= now THEN None ELSE store[ph]]

\* generate_otp, and send_otp up to its first critical section.
SendOtp(p, ph) ==
    /\ issued < MaxCodes
    /\ issued' = issued + 1
    /\ Enter(p, [phase |-> "send", phone |-> ph, code |-> issued + 1, now |-> clock])
    /\ UNCHANGED <<store, clock, accepted, failed, wrong>>

\* A record younger than the resend cooldown stands in the way.
CoolingDown(ph, now) ==
    LET previous == ClearExpired(now)[ph] IN
    previous # None /\ previous.resend_available_at > now

RateLimited(p) ==
    LET r == request[p] IN
    /\ r.phase = "send"
    /\ CoolingDown(r.phone, r.now)
    /\ store' = ClearExpired(r.now)
    /\ Leave(p)
    /\ UNCHANGED <<clock, issued, accepted, failed, wrong>>

\* The first critical section of send_otp; the delivery is awaited after it.
StoreCode(p) ==
    LET r == request[p] IN
    /\ r.phase = "send"
    /\ ~CoolingDown(r.phone, r.now)
    /\ store' = [ClearExpired(r.now) EXCEPT ![r.phone] =
                    [code |-> r.code,
                     expires_at |-> r.now + TTL,
                     resend_available_at |-> r.now + Cooldown,
                     attempts_remaining |-> MaxAttempts]]
    /\ request' = [request EXCEPT ![p].phase = "deliver"]
    /\ UNCHANGED <<clock, issued, accepted, failed, wrong>>

Delivered(p) ==
    /\ request[p].phase = "deliver"
    /\ Leave(p)
    /\ UNCHANGED <<store, clock, issued, accepted, failed, wrong>>

\* Two slips: a failure removes nothing; a failure removes whatever is stored.
KeepStored(ph, code) == store
RemoveAny(ph, code) == [store EXCEPT ![ph] = None]

\* The record of ph goes if it still is the one this request stored.
RemoveOwn(ph, code) ==
    [store EXCEPT ![ph] = IF @ # None /\ @.code = code THEN None ELSE @]

\* The provider refuses the code or cannot be reached (OTPDeliveryError).
DeliveryFails(p) ==
    LET r == request[p] IN
    /\ r.phase = "deliver"
    /\ store' = RemoveOwn(r.phone, r.code)
    /\ failed' = failed \cup {r.code}
    /\ Leave(p)
    /\ UNCHANGED <<clock, issued, accepted, wrong>>

\* verify_otp up to its critical section.
VerifyOtp(p, ph, code) ==
    /\ Enter(p, [phase |-> "verify", phone |-> ph, code |-> code, now |-> clock])
    /\ UNCHANGED <<store, clock, issued, accepted, failed, wrong>>

\* The record verify_otp finds.
Found(r) == ClearExpired(r.now)[r.phone]

NoCode(p) ==
    LET r == request[p] IN
    /\ r.phase = "verify"
    /\ Found(r) = None
    /\ store' = ClearExpired(r.now)
    /\ Leave(p)
    /\ UNCHANGED <<clock, issued, accepted, failed, wrong>>

\* A slip: the code that was used stays in the store.
LeaveCode(r) == ClearExpired(r.now)

ConsumeCode(r) == [ClearExpired(r.now) EXCEPT ![r.phone] = None]

RightCode(p) ==
    LET r == request[p] IN
    /\ r.phase = "verify"
    /\ Found(r) # None
    /\ Found(r).code = r.code
    /\ store' = ConsumeCode(r)
    /\ accepted' = accepted \cup {r.code}
    /\ Leave(p)
    /\ UNCHANGED <<clock, issued, failed, wrong>>

\* Two slips: the budget is not spent; the record outlives its last attempt.
FreeGuess(r) == ClearExpired(r.now)
SpendPastZero(r) ==
    LET left == Found(r).attempts_remaining - 1 IN
    [ClearExpired(r.now) EXCEPT ![r.phone] =
        IF left < 0 THEN None ELSE [@ EXCEPT !.attempts_remaining = left]]

\* One attempt less; the last one removes the record.
SpendAttempt(r) ==
    LET left == Found(r).attempts_remaining - 1 IN
    [ClearExpired(r.now) EXCEPT ![r.phone] =
        IF left <= 0 THEN None ELSE [@ EXCEPT !.attempts_remaining = left]]

WrongCode(p) ==
    LET r == request[p] IN
    /\ r.phase = "verify"
    /\ Found(r) # None
    /\ Found(r).code # r.code
    /\ store' = SpendAttempt(r)
    /\ wrong' = [wrong EXCEPT ![Found(r).code] = @ + 1]
    /\ Leave(p)
    /\ UNCHANGED <<clock, issued, accepted, failed>>

\* The development master code logs in and drops the record, whatever its age.
VerifyMasterCode(p, ph) ==
    /\ MasterCode
    /\ request[p].phase = "idle"
    /\ store' = [store EXCEPT ![ph] = None]
    /\ UNCHANGED <<request, clock, issued, accepted, failed, wrong>>

Tick ==
    /\ clock < MaxTime
    /\ clock' = clock + 1
    /\ UNCHANGED <<store, request, issued, accepted, failed, wrong>>

Restart ==
    /\ store' = [ph \in Phones |-> None]
    /\ request' = [p \in Procs |-> Idle]
    /\ UNCHANGED <<clock, issued, accepted, failed, wrong>>

SendStep(p) ==
    \/ \E ph \in Phones : SendOtp(p, ph)
    \/ RateLimited(p)
    \/ StoreCode(p)
    \/ Delivered(p)
    \/ DeliveryFails(p)

VerifyStep(p) ==
    \/ \E ph \in Phones : VerifyMasterCode(p, ph)
    \/ \E ph \in Phones, code \in 0 .. issued : VerifyOtp(p, ph, code)
    \/ NoCode(p)
    \/ RightCode(p)
    \/ WrongCode(p)

Next ==
    \/ \E p \in Procs : SendStep(p) \/ VerifyStep(p)
    \/ Tick
    \/ Restart

Spec == Init /\ [][Next]_vars
=============================================================================
