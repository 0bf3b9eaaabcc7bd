-------------------------- MODULE LoginOtp_proofs --------------------------
(***************************************************************************)
(* Safety of the login codes for any number of phones, requests and codes. *)
(*                                                                         *)
(* The key is that a code is in one place at a time: with the request that *)
(* generated it until it is stored, then in one record, and never again    *)
(* once it has left the record (Placed).                                   *)
(***************************************************************************)
EXTENDS LoginOtpProperties, TLAPS

Sending(p) == request[p].phase = "send"

\* A code a request is about to store is new: nothing knows it yet.
Fresh(c) ==
    /\ c \in 1 .. issued
    /\ c \notin accepted /\ c \notin failed
    /\ wrong[c] = 0
    /\ \A ph \in Phones : store[ph] # None => store[ph].code # c

Placed ==
    /\ \A p \in Procs : Sending(p) => Fresh(request[p].code)
    /\ \A p, q \in Procs : /\ p # q /\ Sending(p)
                           /\ request[q].phase \in {"send", "deliver"}
                           => request[p].code # request[q].code
    /\ \A p \in Procs : request[p].phase = "deliver" =>
          /\ request[p].code \in 1 .. issued
          /\ \A ph \in Phones : store[ph] # None /\ store[ph].code = request[p].code =>
                ph = request[p].phone
    /\ \A c \in Codes : c > issued => c \notin accepted /\ c \notin failed /\ wrong[c] = 0
    /\ \A ph, other \in Phones :
          ph # other /\ store[ph] # None /\ store[other] # None =>
             store[ph].code # store[other].code

\* A stored record: an issued code, unused and not refused, with the attempts
\* that the wrong guesses have left.
RecordOK(rec) ==
    /\ rec.code \in 1 .. issued
    /\ rec.code \notin accepted
    /\ rec.code \notin failed
    /\ wrong[rec.code] + rec.attempts_remaining = MaxAttempts

\* The clock a request read has not run ahead, and who is working for a phone.
Entered ==
    \A p \in Procs : /\ request[p].now <= clock
                     /\ request[p].phase # "idle" => request[p].phone \in Phones
                     /\ request[p].phase \in {"send", "deliver"} => request[p].code \in Codes

\* The inductive invariant.
Inv ==
    /\ TypeOK
    /\ Entered
    /\ Placed
    /\ \A ph \in Phones : store[ph] # None => RecordOK(store[ph])

-----------------------------------------------------------------------------
LEMMA Cleared ==
    ASSUME NEW now, NEW ph \in Phones
    PROVE  ClearExpired(now)[ph] # None => ClearExpired(now)[ph] = store[ph]
  BY DEF ClearExpired

LEMMA ClearedType ==
    ASSUME TypeOK, NEW now
    PROVE  ClearExpired(now) \in [Phones -> Record \cup {None}]
  BY DEF ClearExpired, TypeOK

LEMMA IdleType == Idle \in Request
  BY DEF Idle, Request

\* A step that stores and generates nothing: records may go, slots may be freed
\* or taken by a verification, and one code that is in no other place may be
\* added to the accepted or the failed ones.
LEMMA DroppingKeeps ==
    ASSUME Inv,
           store' \in [Phones -> Record \cup {None}],
           \A ph \in Phones : store'[ph] # None => store'[ph] = store[ph],
           request' \in [Procs -> Request],
           \A p \in Procs : \/ request'[p] = request[p]
                            \/ request'[p].phase = "idle" /\ request'[p].now <= clock
                            \/ /\ request'[p].phase = "verify" /\ request'[p].phone \in Phones
                               /\ request'[p].now <= clock,
           clock' \in Nat, clock <= clock',
           UNCHANGED <<issued, wrong>>,
           NEW S \in SUBSET (1 .. issued),
           \A c \in S : /\ \A ph \in Phones : store'[ph] # None => store'[ph].code # c
                        /\ \A p \in Procs : request'[p].phase = "send" => request'[p].code # c,
           accepted' \in SUBSET (accepted \cup S), failed' \in SUBSET (failed \cup S)
    PROVE  Inv'
<1>1. TypeOK'
  <2>1. 1 .. issued \subseteq Codes
    BY LoginOtpAssumption DEF Inv, TypeOK, Codes
  <2>2. accepted' \in SUBSET Codes /\ failed' \in SUBSET Codes
    BY <2>1 DEF Inv, TypeOK
  <2> QED BY <2>2 DEF Inv, TypeOK
<1>2. Entered'
  <2> SUFFICES ASSUME NEW p \in Procs
               PROVE  /\ request'[p].now <= clock'
                      /\ request'[p].phase # "idle" => request'[p].phone \in Phones
                      /\ request'[p].phase \in {"send", "deliver"} => request'[p].code \in Codes
    BY DEF Entered
  <2>1. request[p] \in Request /\ request'[p] \in Request /\ clock \in Nat
    BY DEF Inv, TypeOK
  <2>2. request'[p].now \in Nat
    BY <2>1 DEF Request
  <2> QED BY <2>1, <2>2 DEF Inv, Entered
<1>3. ASSUME NEW p \in Procs, request'[p].phase \in {"send", "deliver"}
      PROVE  request'[p] = request[p]
  BY <1>3
<1>4. Placed'
  <2>1. ASSUME NEW p \in Procs, Sending(p)' PROVE Fresh(request[p].code)'
    <3>1. request'[p] = request[p] /\ Sending(p)
      BY <1>3, <2>1 DEF Sending
    <3>2. Fresh(request[p].code)
      BY <3>1 DEF Inv, Placed
    <3>3. request[p].code \notin S
      BY <2>1, <3>1 DEF Sending
    <3> QED BY <3>1, <3>2, <3>3 DEF Fresh
  <2>2. ASSUME NEW p \in Procs, NEW q \in Procs, p # q, Sending(p)',
               request'[q].phase \in {"send", "deliver"}
        PROVE  request'[p].code # request'[q].code
    BY <1>3, <2>2 DEF Sending, Inv, Placed
  <2>3. ASSUME NEW p \in Procs, request'[p].phase = "deliver"
        PROVE  /\ request'[p].code \in 1 .. issued'
               /\ \A ph \in Phones : store'[ph] # None /\ store'[ph].code = request'[p].code =>
                     ph = request'[p].phone
    BY <1>3, <2>3 DEF Inv, Placed
  <2>4. ASSUME NEW c \in Codes, c > issued'
        PROVE  c \notin accepted' /\ c \notin failed' /\ wrong'[c] = 0
    <3>1. issued \in Nat /\ c \in Nat /\ c > issued
      BY <2>4 DEF Inv, TypeOK, Codes
    <3>2. c \notin S
      BY <3>1
    <3> QED BY <2>4, <3>2 DEF Inv, Placed
  <2>5. ASSUME NEW ph \in Phones, NEW other \in Phones, ph # other,
               store'[ph] # None, store'[other] # None
        PROVE  store'[ph].code # store'[other].code
    BY <2>5 DEF Inv, Placed
  <2> QED BY <2>1, <2>2, <2>3, <2>4, <2>5 DEF Placed
<1>5. ASSUME NEW ph \in Phones, store'[ph] # None PROVE RecordOK(store[ph])'
  <2>1. store'[ph] = store[ph] /\ RecordOK(store[ph])
    BY <1>5 DEF Inv
  <2>2. store[ph].code \notin S
    BY <1>5, <2>1
  <2> QED BY <2>1, <2>2 DEF RecordOK
<1> QED BY <1>1, <1>2, <1>4, <1>5 DEF Inv

-----------------------------------------------------------------------------
(* Actions, one lemma each *)

LEMMA SendOtpKeeps ==
    ASSUME Inv, NEW p \in Procs, NEW ph \in Phones, SendOtp(p, ph) PROVE Inv'
<1> DEFINE new == issued + 1
           r == [phase |-> "send", phone |-> ph, code |-> new, now |-> clock]
<1>1. /\ issued \in Nat /\ new \in Codes /\ issued' = new
      /\ request' = [request EXCEPT ![p] = r]
      /\ UNCHANGED <<store, clock, accepted, failed, wrong>>
  BY LoginOtpAssumption DEF SendOtp, Enter, Inv, TypeOK, Codes
<1>2. r \in Request /\ clock \in Nat
  BY <1>1 DEF Request, Inv, TypeOK
<1>3. /\ request'[p] = r
      /\ \A q \in Procs \ {p} : request'[q] = request[q]
  BY <1>1 DEF Inv, TypeOK
<1>4. TypeOK'
  BY <1>1, <1>2, LoginOtpAssumption DEF Inv, TypeOK, Codes
<1>5. Entered'
  BY <1>1, <1>2, <1>3 DEF Inv, Entered
<1>6. \A c \in 1 .. issued : c \in 1 .. new /\ c # new
  BY <1>1
<1>7. /\ new \notin accepted /\ new \notin failed /\ wrong[new] = 0
      /\ \A other \in Phones : store[other] # None => store[other].code # new
  BY <1>1, <1>6 DEF Inv, Placed, RecordOK
<1> HIDE DEF new
<1>8. Placed'
  <2>1. ASSUME NEW q \in Procs, Sending(q)' PROVE Fresh(request[q].code)'
    <3>1. CASE q = p
      <4>1. request'[q].code = new /\ new \in 1 .. issued'
        BY <1>1, <1>3, <3>1 DEF Codes
      <4> QED BY <1>1, <1>7, <4>1 DEF Fresh
    <3>2. CASE q # p
      <4>1. request'[q] = request[q] /\ Fresh(request[q].code)
        BY <1>3, <2>1, <3>2 DEF Inv, Placed, Sending
      <4> QED BY <1>1, <1>6, <4>1 DEF Fresh
    <3> QED BY <3>1, <3>2
  <2>2. ASSUME NEW q \in Procs, NEW t \in Procs, q # t, Sending(q)',
               request'[t].phase \in {"send", "deliver"}
        PROVE  request'[q].code # request'[t].code
    <3>1. ASSUME NEW u \in Procs, u # p, request'[u].phase \in {"send", "deliver"}
          PROVE  request'[u] = request[u] /\ request[u].code \in 1 .. issued
      BY <1>3, <3>1 DEF Inv, Placed, Sending, Fresh
    <3>2. request'[p].code = new
      BY <1>3
    <3>3. CASE q # p /\ t # p
      BY <1>3, <2>2, <3>3 DEF Inv, Placed, Sending
    <3>4. CASE q = p \/ t = p
      BY <1>6, <2>2, <3>1, <3>2, <3>4 DEF Sending
    <3> QED BY <3>3, <3>4
  <2>3. ASSUME NEW q \in Procs, request'[q].phase = "deliver"
        PROVE  /\ request'[q].code \in 1 .. issued'
               /\ \A other \in Phones :
                     store'[other] # None /\ store'[other].code = request'[q].code =>
                        other = request'[q].phone
    <3>1. request'[q] = request[q]
      BY <1>3, <2>3
    <3> QED BY <1>1, <1>6, <2>3, <3>1 DEF Inv, Placed
  <2>4. ASSUME NEW c \in Codes, c > issued'
        PROVE  c \notin accepted' /\ c \notin failed' /\ wrong'[c] = 0
    <3>1. c > issued
      BY <1>1, <2>4 DEF new, Codes
    <3> QED BY <1>1, <3>1 DEF Inv, Placed
  <2>5. ASSUME NEW a \in Phones, NEW o \in Phones, a # o, store'[a] # None, store'[o] # None
        PROVE  store'[a].code # store'[o].code
    BY <1>1, <2>5 DEF Inv, Placed
  <2> QED BY <2>1, <2>2, <2>3, <2>4, <2>5 DEF Placed
<1>9. ASSUME NEW other \in Phones, store'[other] # None PROVE RecordOK(store[other])'
  BY <1>1, <1>6, <1>9 DEF Inv, RecordOK
<1> QED BY <1>4, <1>5, <1>8, <1>9 DEF Inv

LEMMA StoreCodeKeeps ==
    ASSUME Inv, NEW p \in Procs, StoreCode(p) PROVE Inv'
<1> DEFINE r == request[p]
           rec == [code |-> r.code, expires_at |-> r.now + TTL,
                   resend_available_at |-> r.now + Cooldown,
                   attempts_remaining |-> MaxAttempts]
<1>1. /\ r \in Request /\ r.phase = "send" /\ r.phone \in Phones /\ r.code \in Codes
      /\ Fresh(r.code)
  BY DEF Inv, TypeOK, Entered, Placed, Sending, StoreCode
<1>2. /\ store' = [ClearExpired(r.now) EXCEPT ![r.phone] = rec]
      /\ request' = [request EXCEPT ![p].phase = "deliver"]
      /\ UNCHANGED <<clock, issued, accepted, failed, wrong>>
  BY DEF StoreCode
<1>3. rec \in Record /\ rec # None
  BY <1>1, LoginOtpAssumption DEF Record, Request
<1>4. rec.code = r.code /\ rec.attempts_remaining = MaxAttempts
  OBVIOUS
<1> HIDE DEF rec
<1>5. ClearExpired(r.now) \in [Phones -> Record \cup {None}]
  BY ClearedType DEF Inv
<1>6. /\ store'[r.phone] = rec
      /\ \A ph \in Phones \ {r.phone} : store'[ph] # None => store'[ph] = store[ph]
      /\ store' \in [Phones -> Record \cup {None}]
  BY <1>1, <1>2, <1>3, <1>5, Cleared
<1>7. /\ request'[p] = [r EXCEPT !.phase = "deliver"]
      /\ \A q \in Procs \ {p} : request'[q] = request[q]
  BY <1>2 DEF Inv, TypeOK
<1>8. /\ request'[p] \in Request
      /\ request'[p].phase = "deliver" /\ request'[p].code = r.code
      /\ request'[p].phone = r.phone /\ request'[p].now = r.now
  BY <1>1, <1>7 DEF Request
<1>9. TypeOK'
  BY <1>2, <1>6, <1>7, <1>8 DEF Inv, TypeOK
<1>10. Entered'
  BY <1>1, <1>2, <1>7, <1>8 DEF Inv, Entered
<1>11. Placed'
  <2>1. ASSUME NEW q \in Procs, Sending(q)' PROVE Fresh(request[q].code)'
    <3>1. q # p /\ request'[q] = request[q] /\ Sending(q)
      BY <1>7, <1>8, <2>1 DEF Sending
    <3>2. Fresh(request[q].code) /\ request[q].code # r.code
      BY <1>1, <3>1 DEF Inv, Placed
    <3> QED BY <1>2, <1>4, <1>6, <3>1, <3>2 DEF Fresh
  <2>2. ASSUME NEW q \in Procs, NEW t \in Procs, q # t, Sending(q)',
               request'[t].phase \in {"send", "deliver"}
        PROVE  request'[q].code # request'[t].code
    <3>1. q # p /\ request'[q] = request[q] /\ Sending(q)
      BY <1>7, <1>8, <2>2 DEF Sending
    <3>2. request'[t].code = request[t].code /\ request[t].phase \in {"send", "deliver"}
      BY <1>1, <1>7, <1>8, <2>2
    <3> QED BY <2>2, <3>1, <3>2 DEF Inv, Placed
  <2>3. ASSUME NEW q \in Procs, request'[q].phase = "deliver"
        PROVE  /\ request'[q].code \in 1 .. issued'
               /\ \A ph \in Phones : store'[ph] # None /\ store'[ph].code = request'[q].code =>
                     ph = request'[q].phone
    <3>1. CASE q = p
      BY <1>1, <1>2, <1>6, <1>8, <3>1 DEF Fresh
    <3>2. CASE q # p
      <4>1. /\ request'[q] = request[q] /\ request[q].phase = "deliver"
            /\ request[q].code # r.code
        BY <1>1, <1>7, <2>3, <3>2 DEF Inv, Placed, Sending
      <4> QED BY <1>2, <1>4, <1>6, <4>1 DEF Inv, Placed
    <3> QED BY <3>1, <3>2
  <2>4. \A c \in Codes : c > issued' => c \notin accepted' /\ c \notin failed' /\ wrong'[c] = 0
    BY <1>2 DEF Inv, Placed
  <2>5. ASSUME NEW a \in Phones, NEW o \in Phones, a # o, store'[a] # None, store'[o] # None
        PROVE  store'[a].code # store'[o].code
    <3>1. CASE a # r.phone /\ o # r.phone
      BY <1>6, <2>5, <3>1 DEF Inv, Placed
    <3>2. CASE a = r.phone \/ o = r.phone
      BY <1>1, <1>4, <1>6, <2>5, <3>2 DEF Fresh
    <3> QED BY <3>1, <3>2
  <2> QED BY <2>1, <2>2, <2>3, <2>4, <2>5 DEF Placed
<1>12. ASSUME NEW ph \in Phones, store'[ph] # None PROVE RecordOK(store[ph])'
  <2>1. CASE ph = r.phone
    BY <1>1, <1>2, <1>4, <1>6, <2>1, LoginOtpAssumption DEF RecordOK, Fresh
  <2>2. CASE ph # r.phone
    BY <1>2, <1>6, <1>12, <2>2 DEF Inv, RecordOK
  <2> QED BY <2>1, <2>2
<1> QED BY <1>9, <1>10, <1>11, <1>12 DEF Inv

LEMMA WrongCodeKeeps ==
    ASSUME Inv, NEW p \in Procs, WrongCode(p) PROVE Inv'
<1> DEFINE r == request[p]
           rec == Found(r)
           left == rec.attempts_remaining - 1
           less == [rec EXCEPT !.attempts_remaining = left]
<1>1. r \in Request /\ r.phase = "verify" /\ r.phone \in Phones
  BY DEF Inv, TypeOK, Entered, WrongCode
<1>2. rec = store[r.phone] /\ rec # None /\ rec \in Record /\ RecordOK(rec)
  BY <1>1, Cleared DEF WrongCode, Found, Inv, TypeOK
<1>3. /\ store' = SpendAttempt(r)
      /\ wrong' = [wrong EXCEPT ![rec.code] = @ + 1]
      /\ request' = [request EXCEPT ![p] = Idle]
      /\ UNCHANGED <<clock, issued, accepted, failed>>
  BY DEF WrongCode, Leave
<1>4. rec.attempts_remaining \in 1 .. MaxAttempts /\ rec.code \in Codes
  BY <1>2 DEF Record
<1>5. wrong \in [Codes -> 0 .. MaxAttempts] /\ wrong[rec.code] + rec.attempts_remaining = MaxAttempts
  BY <1>2 DEF RecordOK, Inv, TypeOK
<1>6. /\ wrong'[rec.code] = wrong[rec.code] + 1 /\ wrong'[rec.code] + left = MaxAttempts
      /\ wrong'[rec.code] \in 0 .. MaxAttempts
      /\ left > 0 => left \in 1 .. MaxAttempts
  BY <1>3, <1>4, <1>5, LoginOtpAssumption
<1>7. \A c \in Codes : c # rec.code => wrong'[c] = wrong[c]
  BY <1>3, <1>5
<1>8. wrong' \in [Codes -> 0 .. MaxAttempts]
  BY <1>3, <1>4, <1>5, <1>6
<1>9. store' = [ClearExpired(r.now) EXCEPT ![r.phone] = IF left <= 0 THEN None ELSE less]
  BY <1>2, <1>3, <1>1, ClearedType DEF SpendAttempt, Found, Inv
<1>10. left > 0 => /\ less \in Record /\ less.code = rec.code
                   /\ less.attempts_remaining = left
  BY <1>2, <1>6 DEF Record
<1> HIDE DEF rec, left, less
<1>11. left \in Int
  BY <1>4 DEF left
<1>12. /\ store' \in [Phones -> Record \cup {None}]
       /\ \A ph \in Phones \ {r.phone} : store'[ph] # None => store'[ph] = store[ph]
       /\ store'[r.phone] # None => store'[r.phone] = less /\ left > 0
  <2>1. ClearExpired(r.now) \in [Phones -> Record \cup {None}]
    BY ClearedType DEF Inv
  <2> QED BY <1>1, <1>9, <1>10, <1>11, <2>1, Cleared
<1>13. /\ request'[p] = Idle /\ \A q \in Procs \ {p} : request'[q] = request[q]
       /\ request' \in [Procs -> Request] /\ clock \in Nat
  BY <1>3, IdleType DEF Inv, TypeOK
<1>14. Idle.phase = "idle" /\ Idle.now = 0
  BY DEF Idle
<1>15. \A ph \in Phones : store'[ph] # None => store[ph] # None /\ store'[ph].code = store[ph].code
  BY <1>2, <1>10, <1>12
<1>16. TypeOK'
  BY <1>3, <1>8, <1>12, <1>13 DEF Inv, TypeOK
<1>17. Entered'
  BY <1>3, <1>13, <1>14 DEF Inv, Entered
<1>18. Placed'
  <2>1. ASSUME NEW q \in Procs, request'[q].phase \in {"send", "deliver"}
        PROVE  q # p /\ request'[q] = request[q]
    BY <1>13, <1>14, <2>1
  <2>2. ASSUME NEW q \in Procs, Sending(q)' PROVE Fresh(request[q].code)'
    <3>1. request'[q] = request[q] /\ Fresh(request[q].code) /\ request[q].code \in Codes
      BY <2>1, <2>2 DEF Inv, Placed, Entered, Sending
    <3>2. request[q].code # rec.code
      BY <1>1, <1>2, <3>1 DEF Fresh
    <3>3. wrong'[request[q].code] = 0
      BY <1>7, <3>1, <3>2 DEF Fresh
    <3> QED BY <1>3, <1>15, <3>1, <3>3 DEF Fresh
  <2>3. ASSUME NEW q \in Procs, NEW t \in Procs, q # t, Sending(q)',
               request'[t].phase \in {"send", "deliver"}
        PROVE  request'[q].code # request'[t].code
    BY <2>1, <2>3 DEF Inv, Placed, Sending
  <2>4. ASSUME NEW q \in Procs, request'[q].phase = "deliver"
        PROVE  /\ request'[q].code \in 1 .. issued'
               /\ \A ph \in Phones : store'[ph] # None /\ store'[ph].code = request'[q].code =>
                     ph = request'[q].phone
    BY <1>3, <1>15, <2>1, <2>4 DEF Inv, Placed
  <2>5. ASSUME NEW c \in Codes, c > issued'
        PROVE  c \notin accepted' /\ c \notin failed' /\ wrong'[c] = 0
    <3>1. c # rec.code
      BY <1>2, <1>3, <2>5 DEF RecordOK, Inv, TypeOK, Codes
    <3> QED BY <1>3, <1>7, <2>5, <3>1 DEF Inv, Placed
  <2>6. ASSUME NEW a \in Phones, NEW o \in Phones, a # o, store'[a] # None, store'[o] # None
        PROVE  store'[a].code # store'[o].code
    BY <1>15, <2>6 DEF Inv, Placed
  <2> QED BY <2>2, <2>3, <2>4, <2>5, <2>6 DEF Placed
<1>19. ASSUME NEW ph \in Phones, store'[ph] # None PROVE RecordOK(store[ph])'
  <2>1. CASE ph = r.phone
    <3>1. store'[ph] = less /\ left > 0
      BY <1>12, <1>19, <2>1
    <3> QED BY <1>2, <1>3, <1>6, <1>10, <3>1 DEF RecordOK
  <2>2. CASE ph # r.phone
    <3>1. store'[ph] = store[ph] /\ RecordOK(store[ph]) /\ store[ph] \in Record
      BY <1>12, <1>19, <2>2 DEF Inv, TypeOK
    <3>2. store[ph].code # rec.code /\ store[ph].code \in Codes
      BY <1>1, <1>2, <1>19, <2>2, <3>1 DEF Inv, Placed, Record
    <3> QED BY <1>3, <1>7, <3>1, <3>2 DEF RecordOK
  <2> QED BY <2>1, <2>2
<1> QED BY <1>16, <1>17, <1>18, <1>19 DEF Inv

\* A slot that is freed, and one that is taken by a verification.
LEMMA SlotFreed ==
    ASSUME Inv, NEW p \in Procs, Leave(p)
    PROVE  /\ request' \in [Procs -> Request]
           /\ \A q \in Procs : \/ request'[q] = request[q]
                               \/ request'[q].phase = "idle" /\ request'[q].now <= clock
           /\ request'[p].phase = "idle"
<1>1. Idle.phase = "idle" /\ Idle.now = 0
  BY DEF Idle
<1>2. request \in [Procs -> Request] /\ 0 <= clock
  BY DEF Inv, TypeOK
<1>3. request' = [request EXCEPT ![p] = Idle]
  BY DEF Leave
<1> QED BY <1>1, <1>2, <1>3, IdleType

\* The steps of send_otp and verify_otp that only clear the store.
LEMMA ClearingKeeps ==
    ASSUME Inv, NEW p \in Procs, RateLimited(p) \/ NoCode(p) \/ Delivered(p)
    PROVE  Inv'
<1>1. /\ store' \in [Phones -> Record \cup {None}]
      /\ \A ph \in Phones : store'[ph] # None => store'[ph] = store[ph]
  BY Cleared, ClearedType DEF RateLimited, NoCode, Delivered, Inv, TypeOK
<1>2. Leave(p) /\ UNCHANGED <<clock, issued, accepted, failed, wrong>>
  BY DEF RateLimited, NoCode, Delivered
<1>3. clock \in Nat /\ clock <= clock
  BY DEF Inv, TypeOK
<1> DEFINE S == {}
<1>4. S \in SUBSET (1 .. issued) /\ \A c \in S : FALSE
  OBVIOUS
<1>5. accepted' \in SUBSET (accepted \cup S) /\ failed' \in SUBSET (failed \cup S)
  BY <1>2
<1> HIDE DEF S
<1> QED BY <1>1, <1>2, <1>3, <1>4, <1>5, SlotFreed, DroppingKeeps

LEMMA DeliveryFailsKeeps ==
    ASSUME Inv, NEW p \in Procs, DeliveryFails(p) PROVE Inv'
<1> DEFINE r == request[p]
           S == {r.code}
<1>1. /\ r.phase = "deliver" /\ r.phone \in Phones /\ r.code \in 1 .. issued
      /\ \A ph \in Phones : store[ph] # None /\ store[ph].code = r.code => ph = r.phone
  BY DEF Inv, Entered, Placed, DeliveryFails
<1>2. /\ store' = RemoveOwn(r.phone, r.code) /\ failed' = failed \cup {r.code}
      /\ Leave(p) /\ UNCHANGED <<clock, issued, accepted, wrong>>
  BY DEF DeliveryFails
<1>3. /\ store' \in [Phones -> Record \cup {None}]
      /\ \A ph \in Phones : store'[ph] # None => store'[ph] = store[ph]
      /\ store'[r.phone] # None => store[r.phone].code # r.code
  BY <1>1, <1>2 DEF RemoveOwn, Inv, TypeOK
<1>4. \A ph \in Phones : store'[ph] # None => store'[ph].code # r.code
  BY <1>1, <1>3
<1>5. ASSUME NEW q \in Procs, request'[q].phase = "send" PROVE request'[q].code # r.code
  <2>1. request'[q] = request[q] /\ q # p
    BY <1>2, <1>5, SlotFreed
  <2> QED BY <1>1, <1>5, <2>1 DEF Inv, Placed, Sending
<1>6. clock \in Nat /\ clock <= clock
  BY DEF Inv, TypeOK
<1>7. /\ S \in SUBSET (1 .. issued)
      /\ accepted' \in SUBSET (accepted \cup S) /\ failed' \in SUBSET (failed \cup S)
  BY <1>1, <1>2
<1>8. \A c \in S : c = r.code
  OBVIOUS
<1> HIDE DEF S
<1> QED BY <1>2, <1>3, <1>4, <1>5, <1>6, <1>7, <1>8, SlotFreed, DroppingKeeps

LEMMA RightCodeKeeps ==
    ASSUME Inv, NEW p \in Procs, RightCode(p) PROVE Inv'
<1> DEFINE r == request[p]
           S == {r.code}
<1>1. /\ r.phase = "verify" /\ r.phone \in Phones
      /\ Found(r) # None /\ Found(r).code = r.code
      /\ store' = ConsumeCode(r) /\ accepted' = accepted \cup {r.code}
      /\ Leave(p) /\ UNCHANGED <<clock, issued, failed, wrong>>
  BY DEF Inv, Entered, RightCode
<1>2. store[r.phone] # None /\ store[r.phone].code = r.code /\ r.code \in 1 .. issued
  BY <1>1, Cleared DEF Found, Inv, RecordOK
<1>3. ClearExpired(r.now) \in [Phones -> Record \cup {None}]
  BY ClearedType DEF Inv
<1>4. /\ store' \in [Phones -> Record \cup {None}]
      /\ \A ph \in Phones : store'[ph] # None => store'[ph] = store[ph]
      /\ store'[r.phone] = None
  BY <1>1, <1>3, Cleared DEF ConsumeCode
<1>5. \A ph \in Phones : store'[ph] # None => store'[ph].code # r.code
  BY <1>1, <1>2, <1>4 DEF Inv, Placed
<1>6. ASSUME NEW q \in Procs, request'[q].phase = "send" PROVE request'[q].code # r.code
  <2>1. request'[q] = request[q]
    BY <1>1, <1>6, SlotFreed
  <2> QED BY <1>1, <1>2, <1>6, <2>1 DEF Inv, Placed, Sending, Fresh
<1>7. clock \in Nat /\ clock <= clock
  BY DEF Inv, TypeOK
<1>8. /\ S \in SUBSET (1 .. issued)
      /\ accepted' \in SUBSET (accepted \cup S) /\ failed' \in SUBSET (failed \cup S)
  BY <1>1, <1>2
<1>9. \A c \in S : c = r.code
  OBVIOUS
<1> HIDE DEF S
<1> QED BY <1>1, <1>4, <1>5, <1>6, <1>7, <1>8, <1>9, SlotFreed, DroppingKeeps

\* Steps of a free slot, of the clock and of the process.
LEMMA OthersKeep ==
    ASSUME Inv,
           \/ \E p \in Procs, ph \in Phones : VerifyMasterCode(p, ph)
           \/ \E p \in Procs, ph \in Phones, code \in 0 .. issued : VerifyOtp(p, ph, code)
           \/ Tick \/ Restart
    PROVE  Inv'
<1>1. Idle.phase = "idle" /\ Idle.now = 0
  BY DEF Idle
<1>2. /\ clock' \in Nat /\ clock <= clock' /\ clock \in Nat
      /\ UNCHANGED <<issued, accepted, failed, wrong>>
  <2>1. clock \in Nat
    BY DEF Inv, TypeOK
  <2>2. (clock' = clock \/ clock' = clock + 1) /\ UNCHANGED <<issued, accepted, failed, wrong>>
    BY DEF VerifyMasterCode, VerifyOtp, Tick, Restart
  <2> QED BY <2>1, <2>2
<1>3. /\ store' \in [Phones -> Record \cup {None}]
      /\ \A ph \in Phones : store'[ph] # None => store'[ph] = store[ph]
  BY DEF VerifyMasterCode, VerifyOtp, Tick, Restart, Inv, TypeOK
<1>4. /\ request' \in [Procs -> Request]
      /\ \A q \in Procs : \/ request'[q] = request[q]
                          \/ request'[q].phase = "idle" /\ request'[q].now <= clock
                          \/ /\ request'[q].phase = "verify" /\ request'[q].phone \in Phones
                             /\ request'[q].now <= clock
  <2>0. request \in [Procs -> Request]
    BY DEF Inv, TypeOK
  <2>1. CASE UNCHANGED request
    BY <2>0, <2>1
  <2>2. CASE request' = [p \in Procs |-> Idle]
    BY <1>1, <1>2, <2>2, IdleType
  <2>3. ASSUME NEW p \in Procs, NEW ph \in Phones, NEW code \in 0 .. issued, VerifyOtp(p, ph, code)
        PROVE  <1>4!:
    <3> DEFINE r == [phase |-> "verify", phone |-> ph, code |-> code, now |-> clock]
    <3>1. code \in Codes \cup {0}
      BY LoginOtpAssumption DEF Inv, TypeOK, Codes
    <3>2. r \in Request
      BY <1>2, <3>1 DEF Request
    <3>3. request' = [request EXCEPT ![p] = r]
      BY <2>3 DEF VerifyOtp, Enter
    <3>4. r.phase = "verify" /\ r.phone = ph /\ r.now = clock
      OBVIOUS
    <3> HIDE DEF r
    <3> QED BY <1>2, <3>2, <3>3, <3>4 DEF Inv, TypeOK
  <2>4. CASE \E p \in Procs, ph \in Phones : VerifyMasterCode(p, ph)
    BY <2>1, <2>4 DEF VerifyMasterCode
  <2>5. CASE Tick \/ Restart
    BY <2>1, <2>2, <2>5 DEF Tick, Restart
  <2> QED BY <2>3, <2>4, <2>5
<1> DEFINE S == {}
<1>5. S \in SUBSET (1 .. issued) /\ \A c \in S : FALSE
  OBVIOUS
<1>6. accepted' \in SUBSET (accepted \cup S) /\ failed' \in SUBSET (failed \cup S)
  BY <1>2
<1> HIDE DEF S
<1> QED BY <1>2, <1>3, <1>4, <1>5, <1>6, DroppingKeeps

-----------------------------------------------------------------------------
(* The theorems *)

LEMMA InitInv == Init => Inv
<1> SUFFICES ASSUME Init PROVE Inv
  OBVIOUS
<1>1. Idle.phase = "idle" /\ Idle.now = 0
  BY DEF Idle
<1>2. TypeOK
  BY IdleType, LoginOtpAssumption DEF Init, TypeOK
<1>3. Entered /\ Placed
  BY <1>1 DEF Init, Entered, Placed, Sending
<1> QED BY <1>2, <1>3 DEF Init, Inv

LEMMA NextInv == Inv /\ [Next]_vars => Inv'
<1> SUFFICES ASSUME Inv, [Next]_vars PROVE Inv'
  OBVIOUS
<1>1. CASE UNCHANGED vars
  BY <1>1 DEF vars, Inv, TypeOK, Entered, Placed, Sending, Fresh, RecordOK
<1>2. ASSUME NEW p \in Procs, SendStep(p) PROVE Inv'
  <2>1. ASSUME NEW ph \in Phones, SendOtp(p, ph) PROVE Inv'
    BY <2>1, SendOtpKeeps
  <2>2. CASE RateLimited(p) \/ Delivered(p)
    BY <2>2, ClearingKeeps
  <2>3. CASE StoreCode(p)
    BY <2>3, StoreCodeKeeps
  <2>4. CASE DeliveryFails(p)
    BY <2>4, DeliveryFailsKeeps
  <2> QED BY <1>2, <2>1, <2>2, <2>3, <2>4 DEF SendStep
<1>3. ASSUME NEW p \in Procs, VerifyStep(p) PROVE Inv'
  <2>1. CASE NoCode(p)
    BY <2>1, ClearingKeeps
  <2>2. CASE RightCode(p)
    BY <2>2, RightCodeKeeps
  <2>3. CASE WrongCode(p)
    BY <2>3, WrongCodeKeeps
  <2> QED BY <1>3, <2>1, <2>2, <2>3, OthersKeep DEF VerifyStep
<1>4. CASE Tick \/ Restart
  BY <1>4, OthersKeep
<1> QED BY <1>1, <1>2, <1>3, <1>4 DEF Next

LEMMA Invariance == Spec => []Inv
  BY InitInv, NextInv, PTL DEF Spec

\* Type correctness; in particular a record in the store always has an attempt
\* left, whatever requests interleave (verify_otp).
THEOREM TypeCorrect == Spec => []TypeOK
<1>1. Inv => TypeOK
  BY DEF Inv
<1> QED BY <1>1, Invariance, PTL

\* A login code works once, for any number of requests that race for it
\* (verify_otp consumes the record before it answers).
THEOREM CodeWorksOnce == Spec => []UsedOnce
<1>1. Inv => UsedOnce
  BY DEF Inv, UsedOnce, RecordOK, Placed, Sending, Fresh
<1> QED BY <1>1, Invariance, PTL

\* The guesses against one code never exceed its budget, for any number of
\* requests (verify_otp spends an attempt under the lock).
THEOREM BoundedGuessing == Spec => []GuessesBounded
<1>1. Inv => GuessesBounded
  BY DEF Inv, GuessesBounded, RecordOK
<1> QED BY <1>1, Invariance, PTL

\* A code whose delivery failed does not stay in the store, whatever happened
\* to the phone's record while the delivery was awaited (send_otp).
THEOREM FailedCodeGone == Spec => []FailedNotStored
<1>1. Inv => FailedNotStored
  BY DEF Inv, FailedNotStored, RecordOK
<1> QED BY <1>1, Invariance, PTL

\* What one step may do to a stored code.
Excused(ph) ==
    \/ store[ph].code \in accepted' \cup failed'
    \/ wrong'[store[ph].code] = MaxAttempts
    \/ store[ph].expires_at <= clock
    \/ store'[ph] # None /\ store[ph].resend_available_at <= clock
    \/ Restart \/ \E p \in Procs : VerifyMasterCode(p, ph)

\* A record that clearing by an earlier clock removes has expired by now.
LEMMA ClearedExpired ==
    ASSUME Inv, NEW p \in Procs, NEW ph \in Phones, store[ph] # None,
           ClearExpired(request[p].now)[ph] # store[ph]
    PROVE  store[ph].expires_at <= clock
<1>1. request[p].now <= clock /\ request[p].now \in Nat /\ clock \in Nat
  BY DEF Inv, TypeOK, Entered, Request
<1>2. store[ph].expires_at <= request[p].now
  BY DEF ClearExpired
<1>3. store[ph].expires_at \in Nat
  BY DEF Inv, TypeOK, Record
<1> QED BY <1>1, <1>2, <1>3

LEMMA StepExcused ==
    ASSUME Inv, [Next]_vars, NEW ph \in Phones, store[ph] # None,
           store'[ph] = None \/ store'[ph].code # store[ph].code
    PROVE  Excused(ph)
<1>1. store \in [Phones -> Record \cup {None}]
  BY DEF Inv, TypeOK
<1>2. ~UNCHANGED store
  OBVIOUS
<1>3. ASSUME NEW p \in Procs, RateLimited(p) \/ NoCode(p) PROVE Excused(ph)
  <2>1. ClearExpired(request[p].now)[ph] # store[ph]
    BY <1>3 DEF RateLimited, NoCode
  <2> QED BY <2>1, ClearedExpired DEF Excused
<1>4. ASSUME NEW p \in Procs, StoreCode(p) PROVE Excused(ph)
  <2> DEFINE r == request[p]
  <2>1. CASE ClearExpired(r.now)[ph] # store[ph]
    BY <2>1, ClearedExpired DEF Excused
  <2>2. CASE ClearExpired(r.now)[ph] = store[ph]
    <3>1. ClearExpired(r.now) \in [Phones -> Record \cup {None}]
      BY ClearedType DEF Inv
    <3>2. ph = r.phone
      BY <1>4, <2>2, <3>1 DEF StoreCode
    <3>3. ~(store[ph].resend_available_at > r.now)
      BY <1>4, <2>2, <3>2 DEF StoreCode, CoolingDown
    <3>4. r.now <= clock /\ r.now \in Nat /\ clock \in Nat /\ store[ph].resend_available_at \in Nat
      BY DEF Inv, TypeOK, Entered, Request, Record
    <3>5. store'[ph] # None
      <4> DEFINE rec == [code |-> r.code, expires_at |-> r.now + TTL,
                         resend_available_at |-> r.now + Cooldown,
                         attempts_remaining |-> MaxAttempts]
      <4>1. r \in Request /\ r.code \in Codes
        BY <1>4 DEF Inv, TypeOK, Entered, StoreCode
      <4>2. rec \in Record
        BY <3>4, <4>1, LoginOtpAssumption DEF Record
      <4>3. store' = [ClearExpired(r.now) EXCEPT ![ph] = rec]
        BY <1>4, <3>2 DEF StoreCode
      <4> HIDE DEF rec
      <4> QED BY <3>1, <4>2, <4>3, LoginOtpAssumption
    <3> QED BY <3>3, <3>4, <3>5 DEF Excused
  <2> QED BY <2>1, <2>2
<1>5. ASSUME NEW p \in Procs, DeliveryFails(p) PROVE Excused(ph)
  <2>1. store[ph].code = request[p].code
    BY <1>1, <1>5 DEF DeliveryFails, RemoveOwn
  <2> QED BY <1>5, <2>1 DEF DeliveryFails, Excused
<1>6. ASSUME NEW p \in Procs, RightCode(p) PROVE Excused(ph)
  <2> DEFINE r == request[p]
  <2>1. CASE ClearExpired(r.now)[ph] # store[ph]
    BY <2>1, ClearedExpired DEF Excused
  <2>2. CASE ClearExpired(r.now)[ph] = store[ph]
    <3>1. ClearExpired(r.now) \in [Phones -> Record \cup {None}]
      BY ClearedType DEF Inv
    <3>2. ph = r.phone
      BY <1>6, <2>2, <3>1 DEF RightCode, ConsumeCode
    <3>3. store[ph].code \in accepted'
      BY <1>6, <2>2, <3>2 DEF RightCode, Found
    <3> QED BY <3>3 DEF Excused
  <2> QED BY <2>1, <2>2
<1>7. ASSUME NEW p \in Procs, WrongCode(p) PROVE Excused(ph)
  <2> DEFINE r == request[p]
             left == store[ph].attempts_remaining - 1
  <2>1. CASE ClearExpired(r.now)[ph] # store[ph]
    BY <2>1, ClearedExpired DEF Excused
  <2>2. CASE ClearExpired(r.now)[ph] = store[ph]
    <3>1. ClearExpired(r.now) \in [Phones -> Record \cup {None}]
      BY ClearedType DEF Inv
    <3>2. ph = r.phone
      BY <1>7, <2>2, <3>1 DEF WrongCode, SpendAttempt
    <3>3. Found(r) = store[ph] /\ store[ph] \in Record /\ RecordOK(store[ph])
      BY <1>1, <2>2, <3>2 DEF Found, Inv
    <3>4. store'[ph] = IF left <= 0 THEN None
                       ELSE [store[ph] EXCEPT !.attempts_remaining = left]
      BY <1>7, <2>2, <3>1, <3>2, <3>3 DEF WrongCode, SpendAttempt
    <3>5. left <= 0
      <4>1. [store[ph] EXCEPT !.attempts_remaining = left].code = store[ph].code
        BY <3>3 DEF Record
      <4>2. CASE ~(left <= 0)
        <5>1. store'[ph] = [store[ph] EXCEPT !.attempts_remaining = left]
          BY <3>4, <4>2
        <5>2. left \in 1 .. MaxAttempts
          BY <3>3, <4>2, LoginOtpAssumption DEF Record
        <5> HIDE DEF left
        <5>3. [store[ph] EXCEPT !.attempts_remaining = left] \in Record
          BY <3>3, <5>2 DEF Record
        <5> QED BY <4>1, <5>1, <5>3, LoginOtpAssumption DEF left
      <4> QED BY <4>2
    <3>6. /\ wrong \in [Codes -> 0 .. MaxAttempts] /\ store[ph].code \in Codes
          /\ store[ph].attempts_remaining \in 1 .. MaxAttempts
          /\ wrong[store[ph].code] + store[ph].attempts_remaining = MaxAttempts
      BY <3>3 DEF Inv, TypeOK, Record, RecordOK
    <3>7. wrong'[store[ph].code] = wrong[store[ph].code] + 1
      BY <1>7, <3>3, <3>6 DEF WrongCode
    <3> QED BY <3>5, <3>6, <3>7, LoginOtpAssumption DEF Excused
  <2> QED BY <2>1, <2>2
<1>8. ASSUME NEW p \in Procs, NEW other \in Phones, VerifyMasterCode(p, other) PROVE Excused(ph)
  <2>1. ph = other
    BY <1>1, <1>8 DEF VerifyMasterCode
  <2> QED BY <1>8, <2>1 DEF Excused
<1>9. CASE Restart
  BY <1>9 DEF Excused
<1>10. CASE UNCHANGED vars
  BY <1>2, <1>10 DEF vars
<1>11. ASSUME NEW p \in Procs, SendStep(p) PROVE Excused(ph)
  BY <1>2, <1>3, <1>4, <1>5, <1>11 DEF SendStep, SendOtp, Delivered
<1>12. ASSUME NEW p \in Procs, VerifyStep(p) PROVE Excused(ph)
  BY <1>2, <1>3, <1>6, <1>7, <1>8, <1>12 DEF VerifyStep, VerifyOtp
<1> QED BY <1>2, <1>9, <1>10, <1>11, <1>12 DEF Next, Tick

\* No code that was sent out is lost before its time (send_otp, verify_otp),
\* for any number of requests, deliveries that fail late included.
THEOREM NoCodeLost == Spec => LiveCodeKept
<1>1. Inv /\ [Next]_vars =>
         \A ph \in Phones :
            LET old == store[ph] new == store'[ph] IN
            old # None /\ (new = None \/ new.code # old.code) =>
               \/ old.code \in accepted' \cup failed'
               \/ wrong'[old.code] = MaxAttempts
               \/ old.expires_at <= clock
               \/ new # None /\ old.resend_available_at <= clock
               \/ Restart \/ \E p \in Procs : VerifyMasterCode(p, ph)
  BY StepExcused DEF Excused
<1> QED BY <1>1, Invariance, PTL DEF Spec, LiveCodeKept
=============================================================================
