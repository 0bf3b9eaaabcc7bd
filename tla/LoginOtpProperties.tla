------------------------- MODULE LoginOtpProperties -------------------------
(* What is claimed of the login codes of module LoginOtp. *)
EXTENDS LoginOtp

\* Records, requests and histories keep their types; a stored record always has
\* an attempt left (verify_otp drops it with the last one).
TypeOK ==
    /\ store \in [Phones -> Record \cup {None}]
    /\ request \in [Procs -> Request]
    /\ clock \in Nat
    /\ issued \in 0 .. MaxCodes
    /\ accepted \in SUBSET Codes
    /\ failed \in SUBSET Codes
    /\ wrong \in [Codes -> 0 .. MaxAttempts]

\* A code logs in at most once: one that was used is in no record, and no
\* request that is still on its way will put it back ("verify an OTP once",
\* verify_otp; requests that race for the same code included).
UsedOnce ==
    \A c \in accepted :
        /\ \A ph \in Phones : store[ph] # None => store[ph].code # c
        /\ \A p \in Procs : request[p].phase = "send" => request[p].code # c

\* The retry budget is bounded per code, whatever guesses race and however
\* often the code is re-sent: the attempts left and the wrong guesses made
\* against a stored code add up to the budget.
GuessesBounded ==
    \A ph \in Phones : store[ph] # None =>
        wrong[store[ph].code] + store[ph].attempts_remaining = MaxAttempts

\* A code whose delivery failed is not left behind for the passenger to be
\* asked for (send_otp removes the record it created).
FailedNotStored ==
    \A ph \in Phones : store[ph] # None => store[ph].code \notin failed

\* A code that was sent out is not lost before its time: it is used, guessed
\* away, refused by the provider or outlived, or, once it is older than the
\* resend cooldown, replaced.  In particular the late failure of an older
\* delivery does not take the newer code away (send_otp compares the digests).
LiveCodeKept ==
    [][\A ph \in Phones :
         LET old == store[ph] new == store'[ph] IN
         old # None /\ (new = None \/ new.code # old.code) =>
            \/ old.code \in accepted' \cup failed'
            \/ wrong'[old.code] = MaxAttempts
            \/ old.expires_at <= clock
            \/ new # None /\ old.resend_available_at <= clock
            \/ Restart \/ \E p \in Procs : VerifyMasterCode(p, ph)]_vars
=============================================================================
