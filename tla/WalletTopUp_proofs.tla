------------------------- MODULE WalletTopUp_proofs -------------------------
(***************************************************************************)
(* Safety of the wallet top-ups for any number of users, orders and racing *)
(* requests.                                                               *)
(*                                                                         *)
(* A verification writes the columns it changed over a transaction that    *)
(* another one may have changed meanwhile.  A payment id is never taken    *)
(* back and a wallet never goes away, so what a request read of them still *)
(* stands when it commits (SessionOK).                                     *)
(***************************************************************************)
EXTENDS WalletTopUpProperties, FiniteSetTheorems, WellFoundedInduction, TLAPS

\* A SUCCEEDED transaction of o was paid and names its payment.
Truthful(txn, o) == txn.status = "SUCCEEDED" => o \in paid /\ txn.razorpay_payment_id

\* A recorded order belongs to a wallet that exists, however the first orders
\* of a user race to create it (get_or_create_wallet, create_order).
OrderHasWallet ==
    \A o \in recorded : wallets[transactions[o].wallet] # None

\* What a request has read or is about to insert.
SessionOK(s) ==
    /\ s.phase # "idle" => s.order \in Orders
    /\ s.phase = "order" =>
          /\ s.order \notin recorded
          /\ s.txn.wallet = s.user
          /\ s.txn.status = "PENDING"
    /\ s.phase \in {"fail", "succeed", "credit", "write"} =>
          /\ s.order \in recorded
          /\ Truthful(s.txn, s.order)
          /\ s.txn.razorpay_payment_id => transactions[s.order].razorpay_payment_id
    /\ s.phase = "succeed" => s.order \in paid
    /\ s.phase \in {"order", "succeed"} /\ ~s.create => wallets[s.user] # None
    /\ s.phase \in {"credit", "write"} => wallets[s.user] # None

\* The types of the history variables.
GhostsOK ==
    /\ topups \in [Users -> SUBSET Orders]
    /\ credits \in [Orders -> Nat]
    /\ overlapped \in SUBSET Users
    /\ cut \in SUBSET Orders

\* The inductive invariant.
Inv ==
    /\ TypeOK
    /\ SucceededWasPaid
    /\ OrderHasWallet
    /\ \A p \in Procs : SessionOK(session[p])
    /\ \A p, q \in Procs :
          session[p].phase = "order" /\ session[q].phase = "order" /\ p # q =>
              session[p].order # session[q].order

-----------------------------------------------------------------------------
LEMMA AnyUserType == AnyUser \in Users
  BY WalletTopUpAssumption DEF AnyUser

LEMMA IdleType ==
    ASSUME NEW u \in Users
    PROVE  Idle(u) \in Session /\ NoTransaction(u) \in PaymentTransaction
<1>1. NoTransaction(u) \in PaymentTransaction
  BY DEF NoTransaction, PaymentTransaction, PaymentStatus
<1> QED BY <1>1 DEF Idle, Session

LEMMA RequestType ==
    ASSUME NEW ph \in {"order", "fail", "succeed"}, NEW u \in Users, NEW o \in Orders,
           NEW txn \in PaymentTransaction
    PROVE  LET s == Request(ph, u, o, txn) IN
           /\ s \in Session
           /\ s.phase = ph /\ s.user = u /\ s.order = o /\ s.txn = txn
           /\ ~s.create => wallets[u] # None
<1>1. NeedsWallet(u) \in BOOLEAN /\ (~NeedsWallet(u) => wallets[u] # None)
  BY DEF NeedsWallet
<1> QED BY <1>1 DEF Request, Session

\* A commit keeps the types, the wallet and the amount of a transaction, never
\* takes a payment id back, and leaves the transaction truthful if what the
\* request read of it still stands.
LEMMA FlushKeeps ==
    ASSUME NEW row \in PaymentTransaction, NEW seen \in PaymentTransaction,
           NEW new \in PaymentTransaction, NEW o,
           Truthful(row, o), Truthful(new, o),
           seen.razorpay_payment_id => row.razorpay_payment_id,
           seen.razorpay_payment_id => new.razorpay_payment_id,
           new.wallet = seen.wallet
    PROVE  LET out == Flush(row, seen, new) IN
           /\ out \in PaymentTransaction
           /\ out.wallet = row.wallet
           /\ Truthful(out, o)
           /\ row.razorpay_payment_id => out.razorpay_payment_id
<1> DEFINE out == Flush(row, seen, new)
<1>1. out \in PaymentTransaction
  BY DEF PaymentTransaction, Flush
<1>2. /\ out.status = IF new.status = seen.status THEN row.status ELSE new.status
      /\ out.razorpay_payment_id = IF new.razorpay_payment_id = seen.razorpay_payment_id
                                   THEN row.razorpay_payment_id ELSE new.razorpay_payment_id
      /\ out.wallet = row.wallet
  BY DEF PaymentTransaction, Flush
<1>3. /\ row.razorpay_payment_id \in BOOLEAN /\ seen.razorpay_payment_id \in BOOLEAN
      /\ new.razorpay_payment_id \in BOOLEAN
  BY DEF PaymentTransaction
<1>4. row.razorpay_payment_id => out.razorpay_payment_id
  BY <1>2, <1>3
<1>5. new.razorpay_payment_id => out.razorpay_payment_id
  BY <1>2, <1>3
<1>6. Truthful(out, o)
  BY <1>2, <1>4, <1>5 DEF Truthful
<1> QED BY <1>1, <1>2, <1>4, <1>6

\* A step of request p that leaves orders alone: every part of the invariant
\* that speaks of another request still holds if wallets stay, payments stay
\* and no payment id is taken back.
LEMMA StepKeeps ==
    ASSUME Inv, NEW p \in Procs, NEW s \in Session,
           session' = [session EXCEPT ![p] = s],
           s.phase = "order" => session[p].phase = "order",
           s.phase = "order" => s.order = session[p].order,
           SessionOK(s)',
           wallets' \in [Users -> Nat \cup {None}],
           \A u \in Users : wallets[u] # None => wallets'[u] # None,
           transactions' \in [Orders -> PaymentTransaction],
           \A o \in Orders :
              /\ transactions'[o].wallet = transactions[o].wallet
              /\ Truthful(transactions[o], o)'
              /\ transactions[o].razorpay_payment_id => transactions'[o].razorpay_payment_id,
           UNCHANGED <<recorded, paid>>,
           calls' \in [Orders -> 0 .. MaxCalls],
           GhostsOK'
    PROVE  Inv'
<1>1. TypeOK'
  BY DEF Inv, TypeOK, GhostsOK
<1>2. SucceededWasPaid'
  BY DEF SucceededWasPaid, Truthful
<1>3. OrderHasWallet'
  <2> SUFFICES ASSUME NEW o \in recorded PROVE wallets'[transactions'[o].wallet] # None
    BY DEF OrderHasWallet
  <2>1. o \in Orders /\ transactions[o] \in PaymentTransaction
    BY DEF Inv, TypeOK
  <2>2. transactions[o].wallet \in Users
    BY <2>1 DEF PaymentTransaction
  <2>3. wallets[transactions[o].wallet] # None
    BY DEF Inv, OrderHasWallet
  <2> QED BY <2>1, <2>2, <2>3
<1>4. ASSUME NEW q \in Procs PROVE SessionOK(session[q])'
  <2>1. CASE q = p
    <3>1. session'[q] = s
      BY <2>1 DEF Inv, TypeOK
    <3> QED BY <3>1 DEF SessionOK, Truthful
  <2>2. CASE q # p
    <3>1. session'[q] = session[q] /\ SessionOK(session[q]) /\ session[q] \in Session
      BY <2>2 DEF Inv, TypeOK
    <3>2. session[q].user \in Users
      BY <3>1 DEF Session
    <3> QED BY <3>1, <3>2 DEF SessionOK, Truthful
  <2> QED BY <2>1, <2>2
<1>5. (\A r, q \in Procs : session[r].phase = "order" /\ session[q].phase = "order" /\ r # q
          => session[r].order # session[q].order)'
  BY DEF Inv, TypeOK
<1> QED BY <1>1, <1>2, <1>3, <1>4, <1>5 DEF Inv

\* A request that ends without changing a row.
LEMMA RestOK == AtRest \in Session /\ SessionOK(AtRest)
  BY AnyUserType, IdleType DEF AtRest, SessionOK, Idle

LEMMA RestOKAfter ==
    ASSUME NEW p PROVE SessionOK(AtRest)'
  BY DEF AtRest, SessionOK, Idle

LEMMA RestPhase == AtRest.phase = "idle"
  BY DEF AtRest, Idle

\* The transactions are truthful before a step.
LEMMA AllTruthful ==
    ASSUME Inv, NEW o \in Orders PROVE Truthful(transactions[o], o)
  BY DEF Inv, SucceededWasPaid, Truthful

-----------------------------------------------------------------------------
LEMMA InitInv == Init => Inv
<1> SUFFICES ASSUME Init PROVE Inv
  OBVIOUS
<1>1. session \in [Procs -> Session] /\ \A p \in Procs : session[p] = AtRest
  BY RestOK DEF Init
<1>2. /\ transactions \in [Orders -> PaymentTransaction]
      /\ \A o \in Orders : transactions[o].status = "PENDING"
  BY AnyUserType, IdleType DEF Init, NoTransaction
<1>3. TypeOK
  BY <1>1, <1>2, WalletTopUpAssumption DEF TypeOK, Init
<1>4. SucceededWasPaid /\ OrderHasWallet
  BY <1>2 DEF SucceededWasPaid, OrderHasWallet, Init
<1>5. \A p \in Procs : SessionOK(session[p])
  BY <1>1, RestOK
<1>6. \A p \in Procs : session[p].phase = "idle"
  BY <1>1, RestPhase
<1> QED BY <1>3, <1>4, <1>5, <1>6 DEF Inv

LEMMA CreateOrderKeeps ==
    ASSUME Inv, NEW p \in Procs, NEW u \in Users, NEW o \in Orders, NEW a \in Amounts,
           CreateOrder(p, u, o, a)
    PROVE  Inv'
<1> DEFINE txn == [NoTransaction(u) EXCEPT !.amount_paise = a * 100]
           s == Request("order", u, o, txn)
<1>1. /\ session' = [session EXCEPT ![p] = s]
      /\ UNCHANGED <<wallets, recorded, transactions, paid, calls, topups, credits, overlapped, cut>>
      /\ o \notin recorded /\ \A q \in Procs : session[q].order # o
  BY DEF CreateOrder, Stage, db, ghosts
<1>2. a * 100 \in Nat
  BY WalletTopUpAssumption
<1>3. txn \in PaymentTransaction /\ txn.wallet = u /\ txn.status = "PENDING"
  BY <1>2 DEF NoTransaction, PaymentTransaction, PaymentStatus
<1> HIDE DEF txn
<1>4. /\ s \in Session /\ s.phase = "order" /\ s.user = u /\ s.order = o /\ s.txn = txn
      /\ ~s.create => wallets[u] # None
  BY <1>3, RequestType
<1> HIDE DEF s
<1>5. s \in Session
  BY <1>4
<1>6. s.phase = "order" /\ s.order = o
  BY <1>4
<1>7. SessionOK(s)
  BY <1>1, <1>3, <1>4 DEF SessionOK
<1>8. TypeOK'
  BY <1>1, <1>5 DEF Inv, TypeOK
<1>9. \A q \in Procs : session'[q] = IF q = p THEN s ELSE session[q]
  BY <1>1 DEF Inv, TypeOK
<1>10. SucceededWasPaid' /\ OrderHasWallet'
  BY <1>1 DEF Inv, SucceededWasPaid, OrderHasWallet
<1>11. ASSUME NEW q \in Procs PROVE SessionOK(session[q])'
  <2>1. SessionOK(session'[q])
    BY <1>7, <1>9 DEF Inv
  <2> QED BY <1>1, <2>1 DEF SessionOK, Truthful
<1>12. (\A r, q \in Procs : session[r].phase = "order" /\ session[q].phase = "order" /\ r # q
          => session[r].order # session[q].order)'
  BY <1>1, <1>4, <1>9 DEF Inv
<1> QED BY <1>8, <1>10, <1>11, <1>12 DEF Inv

\* What get_or_create_wallet leaves behind.
LEMMA WithWalletKeeps ==
    ASSUME Inv, NEW s \in Session, ~WalletTaken(s)
    PROVE  /\ WithWallet(s) \in [Users -> Nat \cup {None}]
           /\ \A u \in Users : wallets[u] # None => WithWallet(s)[u] # None
           /\ s.create \/ wallets[s.user] # None => WithWallet(s)[s.user] # None
<1>1. s.user \in Users /\ s.create \in BOOLEAN /\ wallets \in [Users -> Nat \cup {None}]
  BY DEF Inv, TypeOK, Session
<1>2. 0 # None
  BY WalletTopUpAssumption
<1> QED BY <1>1, <1>2 DEF WithWallet, WalletTaken

LEMMA CommitOrderKeeps ==
    ASSUME Inv, NEW p \in Procs, CommitOrder(p)
    PROVE  Inv'
<1> DEFINE s == session[p]
<1>1. /\ s.phase = "order" /\ ~WalletTaken(s)
      /\ wallets' = WithWallet(s)
      /\ recorded' = recorded \cup {s.order}
      /\ transactions' = [transactions EXCEPT ![s.order] = s.txn]
      /\ session' = [session EXCEPT ![p] = AtRest]
      /\ UNCHANGED <<paid, calls, topups, credits, overlapped, cut>>
  BY DEF CommitOrder, Stage, ghosts
<1>2. /\ s \in Session /\ s.user \in Users /\ s.txn \in PaymentTransaction
      /\ SessionOK(s)
  BY DEF Inv, TypeOK, Session
<1>3. /\ s.order \in Orders /\ s.order \notin recorded
      /\ s.txn.wallet = s.user /\ s.txn.status = "PENDING"
      /\ s.create \/ wallets[s.user] # None
  BY <1>1, <1>2 DEF SessionOK, Session
<1>4. /\ WithWallet(s) \in [Users -> Nat \cup {None}]
      /\ \A u \in Users : wallets[u] # None => WithWallet(s)[u] # None
      /\ WithWallet(s)[s.user] # None
  BY <1>1, <1>2, <1>3, WithWalletKeeps
<1>5. /\ \A q \in Procs : session'[q] = IF q = p THEN AtRest ELSE session[q]
      /\ \A o \in Orders : transactions'[o] = IF o = s.order THEN s.txn ELSE transactions[o]
  BY <1>1 DEF Inv, TypeOK
<1> HIDE DEF s
<1>6. TypeOK'
  BY <1>1, <1>2, <1>3, <1>4, RestOK DEF Inv, TypeOK
<1>7. SucceededWasPaid'
  BY <1>1, <1>3, <1>5 DEF Inv, SucceededWasPaid
<1>8. OrderHasWallet'
  <2> SUFFICES ASSUME NEW o \in recorded' PROVE wallets'[transactions'[o].wallet] # None
    BY DEF OrderHasWallet
  <2>1. CASE o = s.order
    BY <1>1, <1>3, <1>4, <1>5, <2>1
  <2>2. CASE o # s.order
    <3>1. o \in recorded /\ o \in Orders
      BY <1>1, <2>2 DEF Inv, TypeOK
    <3>2. transactions[o].wallet \in Users
      BY <3>1 DEF Inv, TypeOK, PaymentTransaction
    <3> QED BY <1>1, <1>4, <1>5, <2>2, <3>1, <3>2 DEF Inv, OrderHasWallet
  <2> QED BY <2>1, <2>2
<1>9. ASSUME NEW q \in Procs PROVE SessionOK(session[q])'
  <2>1. CASE q = p
    BY <1>5, <2>1, RestOKAfter, RestPhase DEF SessionOK
  <2>2. CASE q # p
    <3>1. /\ session'[q] = session[q] /\ SessionOK(session[q])
          /\ session[q].user \in Users
      BY <1>5, <2>2 DEF Inv, TypeOK, Session
    <3>2. session[q].phase = "order" => session[q].order # s.order
      BY <1>1, <2>2 DEF Inv, s
    <3>3. session[q].order \in recorded => session[q].order # s.order
      BY <1>3
    <3> QED BY <1>1, <1>4, <1>5, <3>1, <3>2, <3>3 DEF SessionOK, Truthful, Inv, TypeOK
  <2> QED BY <2>1, <2>2
<1>10. (\A r, q \in Procs : session[r].phase = "order" /\ session[q].phase = "order" /\ r # q
          => session[r].order # session[q].order)'
  BY <1>5, RestPhase DEF Inv
<1> QED BY <1>6, <1>7, <1>8, <1>9, <1>10 DEF Inv

LEMMA PayKeeps ==
    ASSUME Inv, NEW o \in Orders, Pay(o)
    PROVE  Inv'
<1>1. /\ paid' = paid \cup {o}
      /\ UNCHANGED <<wallets, recorded, transactions, session, calls, topups, credits, overlapped, cut>>
  BY DEF Pay, db, ghosts
<1>2. TypeOK' /\ SucceededWasPaid' /\ OrderHasWallet'
  BY <1>1 DEF Inv, TypeOK, SucceededWasPaid, OrderHasWallet
<1>3. ASSUME NEW q \in Procs PROVE SessionOK(session[q])'
  BY <1>1 DEF Inv, SessionOK, Truthful
<1> QED BY <1>1, <1>2, <1>3 DEF Inv

LEMMA VerifyPaymentKeeps ==
    ASSUME Inv, NEW p \in Procs, NEW u \in Users, NEW o \in Orders, NEW signed \in BOOLEAN,
           VerifyPayment(p, u, o, signed)
    PROVE  Inv'
<1> DEFINE ph == IF signed THEN "succeed" ELSE "fail"
           s == Request(ph, u, o, transactions[o])
<1>1. /\ session' = [session EXCEPT ![p] = s]
      /\ UNCHANGED <<wallets, recorded, transactions, paid, topups, credits, overlapped, cut>>
      /\ calls' = [calls EXCEPT ![o] = @ + 1] /\ calls[o] < MaxCalls
      /\ o \in recorded /\ (signed => o \in paid)
  BY DEF VerifyPayment, Verified, Stage, db, ghosts
<1>2. transactions[o] \in PaymentTransaction
  BY DEF Inv, TypeOK
<1>3. ph \in {"fail", "succeed"} /\ (ph = "succeed" => signed)
  OBVIOUS
<1> HIDE DEF ph
<1>4. /\ s \in Session /\ s.phase = ph /\ s.user = u /\ s.order = o
      /\ s.txn = transactions[o] /\ (~s.create => wallets[u] # None)
  BY <1>2, <1>3, RequestType
<1> HIDE DEF s
<1>5. SessionOK(s)
  BY <1>1, <1>3, <1>4, AllTruthful DEF SessionOK
<1>6. s.phase # "order"
  BY <1>3, <1>4
<1>7. calls' \in [Orders -> 0 .. MaxCalls]
  BY <1>1, WalletTopUpAssumption DEF Inv, TypeOK
<1>8. PICK c \in Session : c = s
  BY <1>4
<1>9. SessionOK(c)'
  BY <1>1, <1>5, <1>8 DEF SessionOK, Truthful
<1>10. \A x \in Orders : Truthful(transactions[x], x)'
  BY <1>1, AllTruthful DEF Truthful
<1>11. /\ session' = [session EXCEPT ![p] = c] /\ c.phase # "order"
       /\ wallets' \in [Users -> Nat \cup {None}]
       /\ transactions' \in [Orders -> PaymentTransaction]
       /\ GhostsOK'
  BY <1>1, <1>6, <1>8 DEF Inv, TypeOK, GhostsOK
<1> QED BY <1>1, <1>7, <1>9, <1>10, <1>11, StepKeeps

LEMMA FailedKeeps ==
    ASSUME Inv, NEW p \in Procs, MarkTransactionFailed(p)
    PROVE  Inv'
<1> DEFINE s == session[p]
           o == s.order
           new == [s.txn EXCEPT !.status = "FAILED"]
<1>1. /\ s.phase = "fail"
      /\ transactions' = [transactions EXCEPT ![o] = Flush(@, s.txn, new)]
      /\ session' = [session EXCEPT ![p] = AtRest]
      /\ UNCHANGED <<wallets, recorded, paid, calls, topups, credits, overlapped, cut>>
  BY DEF MarkTransactionFailed, Stage, ghosts
<1>2. /\ s.txn \in PaymentTransaction /\ o \in Orders
      /\ s.txn.razorpay_payment_id => transactions[o].razorpay_payment_id
      /\ transactions[o] \in PaymentTransaction
  BY <1>1 DEF Inv, TypeOK, Session, SessionOK
<1>3. /\ new \in PaymentTransaction /\ Truthful(new, o) /\ new.wallet = s.txn.wallet
      /\ new.razorpay_payment_id = s.txn.razorpay_payment_id
  BY <1>2 DEF PaymentTransaction, PaymentStatus, Truthful
<1> DEFINE out == Flush(transactions[o], s.txn, new)
<1>4. /\ out \in PaymentTransaction /\ out.wallet = transactions[o].wallet
      /\ Truthful(out, o)
      /\ transactions[o].razorpay_payment_id => out.razorpay_payment_id
  BY <1>2, <1>3, FlushKeeps, AllTruthful
<1>5. /\ transactions' \in [Orders -> PaymentTransaction]
      /\ \A x \in Orders : transactions'[x] = IF x = o THEN out ELSE transactions[x]
  BY <1>1, <1>4 DEF Inv, TypeOK
<1> HIDE DEF out, new, s, o
<1>6. ASSUME NEW x \in Orders
      PROVE  /\ transactions'[x].wallet = transactions[x].wallet
             /\ Truthful(transactions[x], x)'
             /\ transactions[x].razorpay_payment_id => transactions'[x].razorpay_payment_id
  BY <1>1, <1>4, <1>5, AllTruthful DEF Truthful
<1> QED BY <1>1, <1>5, <1>6, RestOK, RestOKAfter, RestPhase, StepKeeps DEF Inv, TypeOK, GhostsOK

LEMMA SucceededKeeps ==
    ASSUME Inv, NEW p \in Procs, MarkTransactionSucceeded(p)
    PROVE  Inv'
<1> DEFINE s == session[p]
           o == s.order
           new == [s.txn EXCEPT !.status = "SUCCEEDED", !.razorpay_payment_id = TRUE]
           next == [s EXCEPT !.phase = "credit"]
<1>1. /\ s.phase = "succeed" /\ ~WalletTaken(s)
      /\ wallets' = WithWallet(s)
      /\ transactions' = [transactions EXCEPT ![o] = Flush(@, s.txn, new)]
      /\ session' = [session EXCEPT ![p] = next]
      /\ UNCHANGED <<recorded, paid, calls, topups, credits, overlapped, cut>>
  BY DEF MarkTransactionSucceeded, Stage, ghosts
<1>2. s \in Session /\ SessionOK(s)
  BY DEF Inv, TypeOK
<1>3. /\ s.user \in Users /\ s.txn \in PaymentTransaction /\ s.create \in BOOLEAN
      /\ o \in Orders /\ o \in paid /\ o \in recorded
      /\ s.txn.razorpay_payment_id => transactions[o].razorpay_payment_id
      /\ Truthful(s.txn, o)
      /\ s.create \/ wallets[s.user] # None
      /\ transactions[o] \in PaymentTransaction
  BY <1>1, <1>2 DEF Inv, TypeOK, Session, SessionOK
<1>4. /\ new \in PaymentTransaction /\ Truthful(new, o) /\ new.wallet = s.txn.wallet
      /\ new.razorpay_payment_id
  BY <1>3 DEF PaymentTransaction, PaymentStatus, Truthful
<1> DEFINE out == Flush(transactions[o], s.txn, new)
<1>5. /\ out \in PaymentTransaction /\ out.wallet = transactions[o].wallet
      /\ Truthful(out, o)
      /\ transactions[o].razorpay_payment_id => out.razorpay_payment_id
  BY <1>3, <1>4, FlushKeeps, AllTruthful
<1>6. /\ transactions' \in [Orders -> PaymentTransaction]
      /\ \A x \in Orders : transactions'[x] = IF x = o THEN out ELSE transactions[x]
  BY <1>1, <1>5 DEF Inv, TypeOK
<1>7. /\ wallets' \in [Users -> Nat \cup {None}]
      /\ \A u \in Users : wallets[u] # None => wallets'[u] # None
      /\ wallets'[s.user] # None
  BY <1>1, <1>2, <1>3, WithWalletKeeps
<1>8. GhostsOK'
  BY <1>1 DEF Inv, TypeOK, GhostsOK
<1>9. /\ next \in Session /\ next.phase = "credit" /\ next.order = o /\ next.txn = s.txn
      /\ next.user = s.user /\ next.create = s.create
  BY <1>2 DEF Session
<1> HIDE DEF out, new
<1>10. ASSUME NEW x \in Orders
       PROVE  /\ transactions'[x].wallet = transactions[x].wallet
              /\ Truthful(transactions[x], x)'
              /\ transactions[x].razorpay_payment_id => transactions'[x].razorpay_payment_id
  BY <1>1, <1>5, <1>6, AllTruthful DEF Truthful
<1> HIDE DEF next, s, o
<1>11. PICK c \in Session : c = next
  BY <1>9
<1>12. SessionOK(c)'
  <2>1. /\ c.phase = "credit" /\ c.order \in Orders /\ c.order \in recorded
        /\ Truthful(c.txn, c.order) /\ wallets'[c.user] # None
        /\ c.txn.razorpay_payment_id => transactions[c.order].razorpay_payment_id
    BY <1>3, <1>7, <1>9, <1>11
  <2>2. Truthful(c.txn, c.order)'
    BY <1>1, <2>1 DEF Truthful
  <2> QED BY <1>1, <1>10, <2>1, <2>2 DEF SessionOK
<1>13. /\ session' = [session EXCEPT ![p] = c] /\ c.phase # "order"
       /\ calls' \in [Orders -> 0 .. MaxCalls]
  BY <1>1, <1>9, <1>11 DEF Inv, TypeOK
<1> QED BY <1>1, <1>6, <1>7, <1>8, <1>10, <1>12, <1>13, StepKeeps

LEMMA ReadBalanceKeeps ==
    ASSUME Inv, NEW p \in Procs, ReadBalance(p)
    PROVE  Inv'
<1> DEFINE s == session[p]
           next == [s EXCEPT !.phase = "write", !.balance = wallets[s.user]]
<1>1. /\ s.phase = "credit"
      /\ session' = [session EXCEPT ![p] = next]
      /\ UNCHANGED <<wallets, recorded, transactions, paid, calls, topups, credits, overlapped, cut>>
  BY DEF ReadBalance, Stage, db, ghosts
<1>2. s \in Session /\ SessionOK(s)
  BY DEF Inv, TypeOK
<1>3. wallets[s.user] \in Nat
  BY <1>1, <1>2 DEF Inv, TypeOK, Session, SessionOK
<1>4. /\ next \in Session /\ next.phase = "write" /\ next.order = s.order /\ next.txn = s.txn
      /\ next.user = s.user
  BY <1>2, <1>3 DEF Session
<1> HIDE DEF next
<1>5. SessionOK(next)
  BY <1>1, <1>2, <1>4 DEF SessionOK
<1>6. PICK c \in Session : c = next
  BY <1>4
<1>7. SessionOK(c)'
  BY <1>1, <1>5, <1>6 DEF SessionOK, Truthful
<1>8. \A x \in Orders : Truthful(transactions[x], x)'
  BY <1>1, AllTruthful DEF Truthful
<1>9. /\ session' = [session EXCEPT ![p] = c] /\ c.phase # "order"
      /\ wallets' \in [Users -> Nat \cup {None}]
      /\ transactions' \in [Orders -> PaymentTransaction]
      /\ calls' \in [Orders -> 0 .. MaxCalls]
      /\ GhostsOK'
  BY <1>1, <1>4, <1>6 DEF Inv, TypeOK, GhostsOK
<1> QED BY <1>1, <1>7, <1>8, <1>9, StepKeeps

LEMMA CreditWalletKeeps ==
    ASSUME Inv, NEW p \in Procs, CreditWallet(p)
    PROVE  Inv'
<1> DEFINE s == session[p]
<1>1. /\ s.phase = "write"
      /\ wallets' = [wallets EXCEPT ![s.user] = s.balance + s.txn.amount_paise]
      /\ topups' = [topups EXCEPT ![s.user] = @ \cup {s.order}]
      /\ credits' = [credits EXCEPT ![s.order] = @ + 1]
      /\ overlapped' \in {overlapped, overlapped \cup {s.user}}
      /\ session' = [session EXCEPT ![p] = AtRest]
      /\ UNCHANGED <<recorded, transactions, paid, calls, cut>>
  BY DEF CreditWallet, Credited, Stage
<1>2. s.balance + s.txn.amount_paise \in Nat
  BY DEF Inv, TypeOK, Session, PaymentTransaction
<1>3. /\ wallets' \in [Users -> Nat \cup {None}]
      /\ \A u \in Users : wallets[u] # None => wallets'[u] # None
  <2> DEFINE sum == s.balance + s.txn.amount_paise
  <2>1. sum \in Nat /\ sum # None
    BY <1>2, WalletTopUpAssumption
  <2>2. wallets \in [Users -> Nat \cup {None}] /\ wallets' = [wallets EXCEPT ![s.user] = sum]
    BY <1>1 DEF Inv, TypeOK
  <2> HIDE DEF sum
  <2> QED BY <2>1, <2>2
<1>4. GhostsOK'
  <2>1. s.order \in Orders /\ s.user \in Users
    BY <1>1 DEF Inv, TypeOK, Session, SessionOK
  <2>2. /\ topups \in [Users -> SUBSET Orders] /\ credits \in [Orders -> Nat]
        /\ overlapped \in SUBSET Users /\ cut \in SUBSET Orders
    BY DEF Inv, TypeOK
  <2> HIDE DEF s
  <2>3. topups' \in [Users -> SUBSET Orders] /\ credits' \in [Orders -> Nat]
    BY <1>1, <2>1, <2>2
  <2> QED BY <1>1, <2>1, <2>2, <2>3 DEF GhostsOK
<1>5. \A x \in Orders : Truthful(transactions[x], x)'
  BY <1>1, AllTruthful DEF Truthful
<1> QED BY <1>1, <1>3, <1>4, <1>5, RestOK, RestOKAfter, RestPhase, StepKeeps DEF Inv, TypeOK, GhostsOK

LEMMA EndRequestKeeps ==
    ASSUME Inv, NEW p \in Procs, EndRequest(p)
    PROVE  Inv'
<1>1. /\ session' = [session EXCEPT ![p] = AtRest]
      /\ cut' \in {cut, cut \cup {session[p].order}}
      /\ session[p].order \in Orders
      /\ UNCHANGED <<wallets, recorded, transactions, paid, calls, topups, credits, overlapped>>
  BY DEF EndRequest, Free, Stage, db, Inv, SessionOK
<1>2. \A x \in Orders : Truthful(transactions[x], x)'
  BY <1>1, AllTruthful DEF Truthful
<1> QED BY <1>1, <1>2, RestOK, RestOKAfter, RestPhase, StepKeeps DEF Inv, TypeOK, GhostsOK

LEMMA StutterKeeps == ASSUME Inv, UNCHANGED vars PROVE Inv'
<1>1. UNCHANGED <<wallets, recorded, transactions, session, paid, calls, topups, credits, overlapped, cut>>
  BY DEF vars, db, ghosts
<1> QED BY <1>1 DEF Inv, TypeOK, SucceededWasPaid, OrderHasWallet, SessionOK, Truthful

LEMMA Invariance == Spec => []Inv
<1>1. Inv /\ [Next]_vars => Inv'
  <2> SUFFICES ASSUME Inv, [Next]_vars PROVE Inv'
    OBVIOUS
  <2>1. ASSUME NEW p \in Procs, NEW u \in Users, NEW o \in Orders, NEW a \in Amounts,
               CreateOrder(p, u, o, a)
        PROVE  Inv'
    BY <2>1, CreateOrderKeeps
  <2>2. ASSUME NEW p \in Procs, NEW u \in Users, NEW o \in Orders, NEW signed \in BOOLEAN,
               VerifyPayment(p, u, o, signed)
        PROVE  Inv'
    BY <2>2, VerifyPaymentKeeps
  <2>3. ASSUME NEW p \in Procs, CommitOrder(p) PROVE Inv'
    BY <2>3, CommitOrderKeeps
  <2>4. ASSUME NEW p \in Procs, MarkTransactionFailed(p) PROVE Inv'
    BY <2>4, FailedKeeps
  <2>5. ASSUME NEW p \in Procs, MarkTransactionSucceeded(p) PROVE Inv'
    BY <2>5, SucceededKeeps
  <2>6. ASSUME NEW p \in Procs, ReadBalance(p) PROVE Inv'
    BY <2>6, ReadBalanceKeeps
  <2>7. ASSUME NEW p \in Procs, CreditWallet(p) PROVE Inv'
    BY <2>7, CreditWalletKeeps
  <2>8. ASSUME NEW p \in Procs, EndRequest(p) PROVE Inv'
    BY <2>8, EndRequestKeeps
  <2>9. ASSUME NEW o \in Orders, Pay(o) PROVE Inv'
    BY <2>9, PayKeeps
  <2>10. CASE UNCHANGED vars
    BY <2>10, StutterKeeps
  <2> QED BY <2>1, <2>2, <2>3, <2>4, <2>5, <2>6, <2>7, <2>8, <2>9, <2>10 DEF Next
<1> QED BY <1>1, InitInv, PTL DEF Spec

-----------------------------------------------------------------------------
\* Sums over finite sets.  SumFunctionOnSet takes one element after the other;
\* each fact below is shown of a smallest set that would violate it.

LEMMA SmallestSubset ==
    ASSUME NEW S, IsFiniteSet(S), NEW T, T \subseteq SUBSET S, T # {}
    PROVE  \E s \in T : \A t \in T : t \subseteq s => t = s
<1>1. T \subseteq FiniteSubsetsOf(S)
  BY FS_Subset DEF FiniteSubsetsOf
<1>2. PICK s \in T : \A t \in T : ~ (<<t, s>> \in StrictSubsetOrdering(S))
  BY <1>1, FS_StrictSubsetOrderingWellFounded, WFMin
<1> QED BY <1>2 DEF StrictSubsetOrdering

Some(s) == CHOOSE x \in s : TRUE

\* f sums w over every subset of S, one element chosen at a time.
IsSum(f, w, S) ==
    f = [s \in SUBSET S |-> IF s = {} THEN 0 ELSE w[Some(s)] + f[s \ {Some(s)}]]

LEMMA SomeIn == ASSUME NEW s, s # {} PROVE Some(s) \in s
  BY DEF Some

LEMMA SumAt ==
    ASSUME NEW w, NEW S, NEW f, IsSum(f, w, S), NEW s \in SUBSET S
    PROVE  f[s] = IF s = {} THEN 0 ELSE w[Some(s)] + f[s \ {Some(s)}]
  BY DEF IsSum

\* Two sums agree on a finite set on which their summands do.
LEMMA SumUnique ==
    ASSUME NEW w, NEW v, NEW S, NEW R, NEW f, NEW g, IsFiniteSet(S),
           IsSum(f, w, S), IsSum(g, v, R), NEW s0 \in SUBSET S, s0 \subseteq R,
           \A x \in s0 : w[x] = v[x]
    PROVE  f[s0] = g[s0]
<1> DEFINE T == {s \in SUBSET s0 : f[s] # g[s]}
<1> SUFFICES ASSUME T # {} PROVE FALSE
  OBVIOUS
<1>1. PICK s \in T : \A t \in T : t \subseteq s => t = s
  <2>1. T \subseteq SUBSET S
    OBVIOUS
  <2> HIDE DEF T
  <2> QED BY <2>1, SmallestSubset
<1>2. /\ f[s] = IF s = {} THEN 0 ELSE w[Some(s)] + f[s \ {Some(s)}]
      /\ g[s] = IF s = {} THEN 0 ELSE v[Some(s)] + g[s \ {Some(s)}]
  <2>1. s \in SUBSET S /\ s \in SUBSET R
    OBVIOUS
  <2> HIDE DEF T
  <2>2. f[s] = IF s = {} THEN 0 ELSE w[Some(s)] + f[s \ {Some(s)}]
    BY <2>1, SumAt
  <2>3. g[s] = IF s = {} THEN 0 ELSE v[Some(s)] + g[s \ {Some(s)}]
    BY <2>1, SumAt
  <2> QED BY <2>2, <2>3
<1>3. s # {} /\ Some(s) \in s
  BY <1>2, SomeIn
<1>4. s \ {Some(s)} \notin T
  BY <1>1, <1>3
<1>5. f[s \ {Some(s)}] = g[s \ {Some(s)}] /\ w[Some(s)] = v[Some(s)]
  BY <1>3, <1>4
<1> QED BY <1>2, <1>3, <1>5

\* The function a sum is computed with exists.
LEMMA SumExists ==
    ASSUME NEW w, NEW S, IsFiniteSet(S)
    PROVE  \E f : IsSum(f, w, S)
<1> DEFINE T == {s \in SUBSET S : ~ \E f : IsSum(f, w, s)}
<1> SUFFICES ASSUME T # {} PROVE FALSE
  OBVIOUS
<1>1. PICK s \in T : \A t \in T : t \subseteq s => t = s
  <2>1. T \subseteq SUBSET S
    OBVIOUS
  <2> HIDE DEF T
  <2> QED BY <2>1, SmallestSubset
<1> DEFINE F == [t \in (SUBSET s) \ {s} |-> CHOOSE f : IsSum(f, w, t)]
           V(t) == IF t = {} THEN 0 ELSE w[Some(t)] + F[t \ {Some(t)}][t \ {Some(t)}]
           g == [t \in SUBSET s |-> V(t)]
<1>2. ASSUME NEW t \in SUBSET s, t # s PROVE IsSum(F[t], w, t)
  <2>1. \E f : IsSum(f, w, t)
    BY <1>1, <1>2
  <2>2. F[t] = CHOOSE f : IsSum(f, w, t)
    BY <1>2
  <2> QED BY <2>1, <2>2
<1>3. ASSUME NEW t \in SUBSET s, t # {} PROVE g[t \ {Some(t)}] = F[t \ {Some(t)}][t \ {Some(t)}]
  <2> DEFINE u == t \ {Some(t)}
  <2>1. u \in SUBSET s /\ u # s
    BY <1>3, SomeIn
  <2>2. F[u][u] = IF u = {} THEN 0 ELSE w[Some(u)] + F[u][u \ {Some(u)}]
    <3>1. IsSum(F[u], w, u) /\ u \in SUBSET u
      BY <1>2, <2>1
    <3> HIDE DEF F, u
    <3> QED BY <3>1, SumAt
  <2>3. CASE u = {}
    BY <2>1, <2>2, <2>3
  <2>4. CASE u # {}
    <3> DEFINE r == u \ {Some(u)}
    <3>1. r \in SUBSET s /\ r # s /\ r \subseteq u /\ IsFiniteSet(u)
      BY <2>1, FS_Subset
    <3>2. IsSum(F[u], w, u) /\ IsSum(F[r], w, r)
      BY <1>2, <2>1, <3>1
    <3> HIDE DEF F, r, u
    <3>3. F[u][r] = F[r][r]
      BY <3>1, <3>2, SumUnique
    <3> USE DEF r
    <3>4. g[u] = w[Some(u)] + F[r][r]
      BY <2>1, <2>4
    <3> QED BY <2>2, <2>4, <3>3, <3>4 DEF u
  <2> QED BY <2>3, <2>4
<1>4. IsSum(g, w, s)
  <2> HIDE DEF F
  <2>1. \A t \in SUBSET s : V(t) = IF t = {} THEN 0 ELSE w[Some(t)] + g[t \ {Some(t)}]
    BY <1>3
  <2> QED BY <2>1 DEF IsSum
<1> QED BY <1>1, <1>4

\* SumFunctionOnSet is such a sum.
LEMMA SumIs ==
    ASSUME NEW w, NEW S, IsFiniteSet(S)
    PROVE  \E f : IsSum(f, w, S) /\ SumFunctionOnSet(w, S) = f[S]
<1>1. \E f : IsSum(f, w, S)
  BY SumExists
<1> QED BY <1>1 DEF SumFunctionOnSet, FoldFunctionOnSet, MapThenFoldSet, IsSum, Some

LEMMA SumEmpty == ASSUME NEW w PROVE SumFunctionOnSet(w, {}) = 0
  BY SumIs, SumAt, FS_EmptySet

LEMMA SumSame ==
    ASSUME NEW w, NEW v, NEW S, IsFiniteSet(S), \A x \in S : w[x] = v[x]
    PROVE  SumFunctionOnSet(w, S) = SumFunctionOnSet(v, S)
  BY SumIs, SumUnique

LEMMA SumSome ==
    ASSUME NEW w, NEW S, IsFiniteSet(S), S # {}
    PROVE  SumFunctionOnSet(w, S) = w[Some(S)] + SumFunctionOnSet(w, S \ {Some(S)})
<1> DEFINE R == S \ {Some(S)}
<1>1. IsFiniteSet(R) /\ R \in SUBSET S
  BY FS_Subset
<1>2. PICK f : IsSum(f, w, S) /\ SumFunctionOnSet(w, S) = f[S]
  BY SumIs
<1>3. PICK g : IsSum(g, w, R) /\ SumFunctionOnSet(w, R) = g[R]
  BY <1>1, SumIs
<1>4. f[S] = w[Some(S)] + f[R]
  BY <1>2, SumAt
<1> HIDE DEF R
<1>5. f[R] = g[R]
  BY <1>1, <1>2, <1>3, SumUnique
<1> QED BY <1>2, <1>3, <1>4, <1>5 DEF R

LEMMA SumNat ==
    ASSUME NEW w, NEW S, IsFiniteSet(S), \A x \in S : w[x] \in Nat
    PROVE  SumFunctionOnSet(w, S) \in Nat
<1> DEFINE T == {s \in SUBSET S : SumFunctionOnSet(w, s) \notin Nat}
<1> SUFFICES ASSUME T # {} PROVE FALSE
  OBVIOUS
<1>1. PICK s \in T : \A t \in T : t \subseteq s => t = s
  <2>1. T \subseteq SUBSET S
    OBVIOUS
  <2> HIDE DEF T
  <2> QED BY <2>1, SmallestSubset
<1>2. s # {} /\ IsFiniteSet(s) /\ Some(s) \in s
  <2>1. s \in SUBSET S /\ SumFunctionOnSet(w, s) \notin Nat
    OBVIOUS
  <2> HIDE DEF T
  <2>2. s # {}
    BY <2>1, SumEmpty
  <2> QED BY <2>1, <2>2, FS_Subset, SomeIn
<1>3. SumFunctionOnSet(w, s \ {Some(s)}) \in Nat
  BY <1>1, <1>2
<1> QED BY <1>2, <1>3, SumSome

\* Any element can be taken out first.
LEMMA SumRemove ==
    ASSUME NEW w, NEW S, IsFiniteSet(S), \A x \in S : w[x] \in Nat, NEW y \in S
    PROVE  SumFunctionOnSet(w, S) = w[y] + SumFunctionOnSet(w, S \ {y})
<1> DEFINE Bad(s) == \E x \in s : SumFunctionOnSet(w, s) # w[x] + SumFunctionOnSet(w, s \ {x})
           T == {s \in SUBSET S : Bad(s)}
<1> SUFFICES ASSUME T # {} PROVE FALSE
  OBVIOUS
<1>1. PICK s \in T : \A t \in T : t \subseteq s => t = s
  <2>1. T \subseteq SUBSET S
    OBVIOUS
  <2> HIDE DEF T
  <2> QED BY <2>1, SmallestSubset
<1>2. PICK x \in s : SumFunctionOnSet(w, s) # w[x] + SumFunctionOnSet(w, s \ {x})
  OBVIOUS
<1> DEFINE c == Some(s)
<1>3. c \in s /\ IsFiniteSet(s) /\ SumFunctionOnSet(w, s) = w[c] + SumFunctionOnSet(w, s \ {c})
  BY SomeIn, FS_Subset, SumSome
<1>4. x # c
  BY <1>2, <1>3
<1> HIDE DEF c
<1>5. SumFunctionOnSet(w, s \ {c}) = w[x] + SumFunctionOnSet(w, (s \ {c}) \ {x})
  <2>1. s \ {c} \notin T
    BY <1>1, <1>3
  <2> QED BY <2>1, <1>3, <1>4
<1>6. SumFunctionOnSet(w, s \ {x}) = w[c] + SumFunctionOnSet(w, (s \ {x}) \ {c})
  <2>1. s \ {x} \notin T
    BY <1>1, <1>2
  <2> QED BY <2>1, <1>3, <1>4
<1>7. (s \ {c}) \ {x} = (s \ {x}) \ {c}
  OBVIOUS
<1>8. IsFiniteSet((s \ {x}) \ {c}) /\ SumFunctionOnSet(w, (s \ {x}) \ {c}) \in Nat
  BY <1>3, FS_Subset, SumNat
<1>9. w[x] \in Nat /\ w[c] \in Nat
  BY <1>3
<1> HIDE DEF T
<1> DEFINE k == SumFunctionOnSet(w, (s \ {x}) \ {c})
<1>10. SumFunctionOnSet(w, s \ {c}) = w[x] + k /\ SumFunctionOnSet(w, s \ {x}) = w[c] + k
  BY <1>5, <1>6, <1>7
<1>11. k \in Nat
  BY <1>8
<1> HIDE DEF k
<1>12. SumFunctionOnSet(w, s) = w[c] + (w[x] + k) /\ w[x] + SumFunctionOnSet(w, s \ {x}) = w[x] + (w[c] + k)
  BY <1>3, <1>10
<1> QED BY <1>2, <1>9, <1>11, <1>12
-----------------------------------------------------------------------------

-----------------------------------------------------------------------------
\* Balances.  A request that is about to write a balance holds a number it read
\* earlier: what had been received by then, unless an order came in twice.
SessionBacked(s) ==
    /\ s.phase \in {"fail", "succeed", "credit", "write"} =>
          s.txn.amount_paise = transactions[s.order].amount_paise
    /\ s.phase \in {"succeed", "credit", "write"} => s.order \in paid
    /\ s.phase = "write" /\ AddedOnce(s.user) =>
          /\ s.balance <= Received(s.user)
          /\ s.user \notin overlapped => s.balance = Received(s.user)

UserBacked(u) ==
    /\ IsFiniteSet(topups[u])
    /\ topups[u] \subseteq recorded \cap paid
    /\ wallets[u] = None => topups[u] = {}
    /\ \A o \in topups[u] : credits[o] >= 1

Backed ==
    /\ BalanceBacked
    /\ \A u \in Users : UserBacked(u)
    /\ \A p \in Procs : SessionBacked(session[p])

\* What was received is a number: the amounts of the orders added, all paid.
LEMMA ReceivedIs ==
    ASSUME Inv, Backed, NEW u \in Users
    PROVE  /\ Received(u) \in Nat
           /\ Received(u) = SumFunctionOnSet([o \in Orders |-> transactions[o].amount_paise],
                                             topups[u])
<1>1. topups[u] \cap paid = topups[u] /\ IsFiniteSet(topups[u]) /\ topups[u] \subseteq Orders
  BY DEF Backed, UserBacked, Inv, TypeOK
<1> DEFINE w == [o \in Orders |-> transactions[o].amount_paise]
<1>2. \A o \in topups[u] : w[o] \in Nat
  BY <1>1 DEF Inv, TypeOK, PaymentTransaction
<1> HIDE DEF w
<1>3. SumFunctionOnSet(w, topups[u]) \in Nat
  BY <1>1, <1>2, SumNat
<1> QED BY <1>1, <1>3 DEF Received, w

\* It stays as long as no order is added, whatever orders are recorded or paid.
LEMMA ReceivedStays ==
    ASSUME Inv, Backed, NEW u \in Users, topups'[u] = topups[u],
           paid \subseteq paid',
           \A o \in recorded : transactions'[o].amount_paise = transactions[o].amount_paise
    PROVE  Received(u)' = Received(u)
<1> DEFINE w == [o \in Orders |-> transactions[o].amount_paise]
           v == [o \in Orders |-> transactions'[o].amount_paise]
           S == topups[u]
<1>1. /\ IsFiniteSet(S) /\ S \subseteq Orders /\ S \subseteq recorded
      /\ S \cap paid = S /\ topups'[u] \cap paid' = S
  BY DEF Backed, UserBacked, Inv, TypeOK
<1>2. \A o \in S : w[o] = v[o]
  BY <1>1
<1>3. Received(u) = SumFunctionOnSet(w, S) /\ Received(u)' = SumFunctionOnSet(v, S)
  BY <1>1 DEF Received
<1> HIDE DEF w, v, S
<1>4. SumFunctionOnSet(w, S) = SumFunctionOnSet(v, S)
  BY <1>1, <1>2, SumSame
<1> QED BY <1>3, <1>4

\* An order that is added for the first time brings its amount.
LEMMA ReceivedGrows ==
    ASSUME Inv, Backed, NEW u \in Users, NEW o \in Orders, o \in paid, o \notin topups[u],
           topups'[u] = topups[u] \cup {o}, UNCHANGED <<paid, transactions>>
    PROVE  Received(u)' = Received(u) + transactions[o].amount_paise
<1> DEFINE w == [x \in Orders |-> transactions[x].amount_paise]
           S == topups[u]
           R == S \cup {o}
<1>1. /\ IsFiniteSet(S) /\ S \subseteq Orders
      /\ S \cap paid = S /\ topups'[u] \cap paid' = R
  BY DEF Backed, UserBacked, Inv, TypeOK
<1>2. Received(u) = SumFunctionOnSet(w, S) /\ Received(u)' = SumFunctionOnSet(w, R)
  BY <1>1 DEF Received
<1>3. /\ \A x \in R : w[x] \in Nat
      /\ w[o] = transactions[o].amount_paise
      /\ o \in R /\ R \ {o} = S
  BY <1>1 DEF Inv, TypeOK, PaymentTransaction
<1>4. IsFiniteSet(R)
  BY <1>1, FS_AddElement
<1> HIDE DEF w, R, S
<1>5. SumFunctionOnSet(w, R) = w[o] + SumFunctionOnSet(w, S)
  BY <1>3, <1>4, SumRemove
<1>6. SumFunctionOnSet(w, S) \in Nat /\ w[o] \in Nat
  <2>1. \A x \in S : w[x] \in Nat
    BY <1>3 DEF R
  <2> QED BY <1>1, <1>3, <2>1, SumNat
<1> QED BY <1>2, <1>3, <1>5, <1>6

\* A request of another slot stays backed if no order is added to its user's
\* balance.
LEMMA SessionStaysBacked ==
    ASSUME Inv, Backed, NEW q \in Procs, session'[q] = session[q],
           topups'[session[q].user] = topups[session[q].user],
           UNCHANGED credits,
           paid \subseteq paid',
           overlapped \subseteq overlapped',
           \A o \in recorded : transactions'[o].amount_paise = transactions[o].amount_paise
    PROVE  SessionBacked(session[q])'
<1>1. PICK s \in Session : s = session[q]
  BY DEF Inv, TypeOK
<1>2. s.user \in Users /\ SessionOK(s) /\ SessionBacked(s) /\ topups'[s.user] = topups[s.user]
  BY <1>1 DEF Session, Inv, Backed
<1>3. PICK u \in Users : u = s.user
  BY <1>2
<1>4. Received(u)' = Received(u)
  BY <1>2, <1>3, ReceivedStays
<1>5. AddedOnce(u)' => AddedOnce(u)
  BY <1>2, <1>3 DEF AddedOnce
<1>6. s.phase \in {"fail", "succeed", "credit", "write"} => s.order \in recorded
  BY <1>2 DEF SessionOK
<1>7. SessionBacked(s)'
  BY <1>2, <1>3, <1>4, <1>5, <1>6 DEF SessionBacked
<1> QED BY <1>1, <1>7 DEF SessionBacked

\* The steps of request p that add nothing to a balance.
LEMMA QuietBacked ==
    ASSUME Inv, Backed, NEW p \in Procs, NEW c \in Session,
           session' = [session EXCEPT ![p] = c],
           SessionBacked(c)',
           \A u \in Users : wallets'[u] = wallets[u] \/ (wallets[u] = None /\ wallets'[u] = 0),
           recorded \subseteq recorded',
           \A o \in recorded : transactions'[o].amount_paise = transactions[o].amount_paise,
           UNCHANGED <<paid, topups, credits, overlapped>>
    PROVE  Backed'
<1>1. ASSUME NEW u \in Users PROVE Received(u)' = Received(u)
  BY ReceivedStays
<1>2. BalanceBacked'
  <2> SUFFICES ASSUME NEW u \in Users, wallets'[u] # None, AddedOnce(u)'
               PROVE  /\ wallets'[u] <= Received(u)'
                      /\ u \notin overlapped' => wallets'[u] = Received(u)'
    BY DEF BalanceBacked
  <2>1. AddedOnce(u)
    BY DEF AddedOnce
  <2>2. CASE wallets'[u] = wallets[u]
    BY <1>1, <2>1, <2>2 DEF Backed, BalanceBacked
  <2>3. CASE wallets[u] = None /\ wallets'[u] = 0
    <3>1. topups[u] = {}
      BY <2>3 DEF Backed, UserBacked
    <3>2. Received(u) = 0
      BY <3>1, ReceivedIs, SumEmpty
    <3> QED BY <1>1, <2>3, <3>2
  <2> QED BY <2>2, <2>3
<1>3. ASSUME NEW u \in Users PROVE UserBacked(u)'
  BY WalletTopUpAssumption DEF Backed, UserBacked
<1>4. ASSUME NEW q \in Procs PROVE SessionBacked(session[q])'
  <2>1. session'[q] = IF q = p THEN c ELSE session[q]
    BY DEF Inv, TypeOK
  <2>2. CASE q = p
    BY <2>1, <2>2 DEF SessionBacked
  <2>3. CASE q # p
    BY <2>1, <2>3, SessionStaysBacked
  <2> QED BY <2>2, <2>3
<1> QED BY <1>2, <1>3, <1>4 DEF Backed

\* The step that writes a balance.
LEMMA CreditBacked ==
    ASSUME Inv, Inv', Backed, NEW p \in Procs, CreditWallet(p)
    PROVE  Backed'
<1>1. PICK s \in Session : s = session[p]
  BY DEF Inv, TypeOK
<1>2. PICK o \in Orders, u \in Users : o = s.order /\ u = s.user
  BY <1>1 DEF CreditWallet, Inv, SessionOK, Session
<1> DEFINE amount == transactions[o].amount_paise
<1>3. /\ s.phase = "write"
      /\ wallets' = [wallets EXCEPT ![u] = s.balance + s.txn.amount_paise]
      /\ topups' = [topups EXCEPT ![u] = @ \cup {o}]
      /\ credits' = [credits EXCEPT ![o] = @ + 1]
      /\ overlapped' = IF AlsoWriting(p, u) THEN overlapped \cup {u} ELSE overlapped
      /\ session' = [session EXCEPT ![p] = AtRest]
      /\ UNCHANGED <<recorded, transactions, paid>>
  BY <1>1, <1>2 DEF CreditWallet, Credited, Stage
<1>4. /\ SessionOK(s) /\ SessionBacked(s) /\ UserBacked(u)
      /\ s.balance \in Nat /\ amount \in Nat
      /\ \A x \in Orders : credits[x] \in Nat
      /\ \A x \in Users : topups[x] \subseteq Orders
  BY <1>1, <1>2 DEF Inv, TypeOK, Backed, Session, PaymentTransaction
<1>5. /\ o \in recorded /\ o \in paid
      /\ wallets' = [wallets EXCEPT ![u] = s.balance + amount]
      /\ AddedOnce(u) => /\ s.balance <= Received(u)
                         /\ u \notin overlapped => s.balance = Received(u)
  BY <1>2, <1>3, <1>4 DEF SessionOK, SessionBacked
<1>6. /\ \A x \in Users : wallets'[x] = IF x = u THEN s.balance + amount ELSE wallets[x]
      /\ \A x \in Users : topups'[x] = IF x = u THEN topups[u] \cup {o} ELSE topups[x]
      /\ \A x \in Orders : credits'[x] = IF x = o THEN credits[o] + 1 ELSE credits[x]
      /\ \A q \in Procs : session'[q] = IF q = p THEN AtRest ELSE session[q]
      /\ overlapped \subseteq overlapped'
  BY <1>3, <1>5 DEF Inv, TypeOK
<1> HIDE DEF amount
<1>7. ASSUME NEW x \in Users, AddedOnce(x)'
      PROVE  AddedOnce(x) /\ (x = u => o \notin topups[u])
  <2>1. \A y \in topups'[x] : credits'[y] <= 1
    BY <1>7 DEF AddedOnce
  <2>2. \A y \in topups[x] : y \in Orders /\ y \in topups'[x] /\ credits[y] <= credits'[y]
    BY <1>4, <1>6
  <2>3. AddedOnce(x)
    <3> SUFFICES ASSUME NEW y \in topups[x] PROVE credits[y] <= 1
      BY DEF AddedOnce
    <3>1. credits[y] \in Nat /\ credits'[y] \in Nat /\ credits'[y] <= 1 /\ credits[y] <= credits'[y]
      BY <1>4, <1>6, <2>1, <2>2
    <3> QED BY <3>1
  <2>4. ASSUME x = u, o \in topups[u] PROVE FALSE
    <3>1. credits[o] >= 1 /\ credits'[o] = credits[o] + 1 /\ credits'[o] <= 1
      BY <1>4, <1>6, <2>1, <2>4 DEF UserBacked
    <3> QED BY <1>4, <3>1
  <2> QED BY <2>3, <2>4
<1>8. ASSUME NEW x \in Users, x # u PROVE Received(x)' = Received(x)
  BY <1>3, <1>6, <1>8, ReceivedStays
<1>9. ASSUME AddedOnce(u)' PROVE Received(u)' = Received(u) + amount /\ Received(u) \in Nat
  BY <1>3, <1>5, <1>6, <1>7, <1>9, ReceivedGrows, ReceivedIs DEF amount
<1>10. BalanceBacked'
  <2> SUFFICES ASSUME NEW x \in Users, wallets'[x] # None, AddedOnce(x)'
               PROVE  /\ wallets'[x] <= Received(x)'
                      /\ x \notin overlapped' => wallets'[x] = Received(x)'
    BY DEF BalanceBacked
  <2>1. AddedOnce(x)
    BY <1>7
  <2>2. CASE x = u
    <3>1. AddedOnce(u)' /\ AddedOnce(u)
      BY <2>1, <2>2 DEF AddedOnce
    <3>2. Received(u)' = Received(u) + amount /\ Received(u) \in Nat
      BY <1>9, <3>1
    <3>3. wallets'[u] <= Received(u)' /\ (u \notin overlapped' => wallets'[u] = Received(u)')
      BY <1>4, <1>5, <1>6, <3>1, <3>2
    <3> QED BY <2>2, <3>3 DEF Received
  <2>3. CASE x # u
    BY <1>6, <1>8, <2>1, <2>3 DEF Backed, BalanceBacked
  <2> QED BY <2>2, <2>3
<1>11. ASSUME NEW x \in Users PROVE UserBacked(x)'
  <2>1. UserBacked(x) /\ topups[x] \subseteq Orders
    BY <1>4 DEF Backed
  <2>2. IsFiniteSet(topups[u] \cup {o})
    BY <1>4, FS_AddElement DEF UserBacked
  <2>3. IsFiniteSet(topups'[x]) /\ topups'[x] \subseteq recorded \cap paid
    BY <1>5, <1>6, <2>1, <2>2 DEF UserBacked
  <2>4. wallets'[x] = None => topups'[x] = {}
    <3>1. s.balance + amount \in Nat
      BY <1>4 DEF amount
    <3>2. x = u => wallets'[x] # None
      BY <1>6, <3>1, WalletTopUpAssumption
    <3> QED BY <1>6, <2>1, <3>2 DEF UserBacked
  <2>5. ASSUME NEW y \in topups'[x] PROVE credits'[y] >= 1
    <3>1. y \in Orders /\ credits[y] \in Nat /\ (y # o => y \in topups[x])
      BY <1>4, <1>6
    <3>2. y # o => credits[y] >= 1
      BY <2>1, <3>1 DEF UserBacked
    <3> QED BY <1>6, <3>1, <3>2
  <2> QED BY <1>3, <2>3, <2>4, <2>5 DEF UserBacked
<1>12. ASSUME NEW q \in Procs PROVE SessionBacked(session[q])'
  <2>1. CASE q = p
    BY <1>6, <2>1, RestPhase DEF SessionBacked
  <2>2. CASE q # p
    <3>1. PICK t \in Session : t = session[q]
      BY DEF Inv, TypeOK
    <3>2. PICK v \in Users : v = t.user
      BY <3>1 DEF Session
    <3>3. SessionBacked(t) /\ session'[q] = t
      BY <1>6, <2>2, <3>1 DEF Backed
    <3>4. /\ t.phase \in {"fail", "succeed", "credit", "write"} =>
                 t.txn.amount_paise = transactions'[t.order].amount_paise
          /\ t.phase \in {"succeed", "credit", "write"} => t.order \in paid'
      BY <1>3, <3>3 DEF SessionBacked
    <3>5. ASSUME t.phase = "write", AddedOnce(v)'
          PROVE  t.balance <= Received(v)' /\ (v \notin overlapped' => t.balance = Received(v)')
      <4>1. AddedOnce(v)
        BY <1>7, <3>5
      <4>2. t.balance <= Received(v) /\ (v \notin overlapped => t.balance = Received(v))
        BY <3>2, <3>3, <3>5, <4>1 DEF SessionBacked
      <4>3. CASE v = u
        <5>1. AlsoWriting(p, u)
          BY <2>2, <3>1, <3>2, <3>5, <4>3 DEF AlsoWriting
        <5>2. u \in overlapped'
          BY <1>3, <5>1
        <5>3. AddedOnce(u)'
          BY <3>5, <4>3 DEF AddedOnce
        <5>4. Received(u)' = Received(u) + amount /\ Received(u) \in Nat /\ t.balance \in Nat
          BY <1>9, <5>3, <3>1 DEF Session
        <5>5. t.balance <= Received(u)'
          BY <1>4, <4>2, <4>3, <5>4 DEF amount
        <5> QED BY <4>3, <5>2, <5>5 DEF Received
      <4>4. CASE v # u
        BY <1>6, <1>8, <4>2, <4>4
      <4> QED BY <4>3, <4>4
    <3>6. SessionBacked(t)'
      BY <3>2, <3>4, <3>5 DEF SessionBacked
    <3> QED BY <3>3, <3>6 DEF SessionBacked
  <2> QED BY <2>1, <2>2
<1> QED BY <1>10, <1>11, <1>12 DEF Backed

-----------------------------------------------------------------------------
LEMMA InitBacked == Init => Backed
<1> SUFFICES ASSUME Init PROVE Backed
  OBVIOUS
<1>1. BalanceBacked
  BY DEF Init, BalanceBacked
<1>2. \A u \in Users : UserBacked(u)
  BY FS_EmptySet DEF Init, UserBacked
<1>3. \A p \in Procs : SessionBacked(session[p])
  BY RestPhase DEF Init, SessionBacked
<1> QED BY <1>1, <1>2, <1>3 DEF Backed

LEMMA SessionAfter ==
    ASSUME Inv, Inv', NEW p \in Procs, NEW s, session' = [session EXCEPT ![p] = s]
    PROVE  s \in Session
<1>1. session'[p] = s /\ session'[p] \in Session
  BY DEF Inv, TypeOK
<1> QED BY <1>1

LEMMA WithWalletValues ==
    ASSUME Inv, NEW s \in Session, ~WalletTaken(s), NEW u \in Users
    PROVE  WithWallet(s)[u] = wallets[u] \/ (wallets[u] = None /\ WithWallet(s)[u] = 0)
  BY DEF WithWallet, WalletTaken, Inv, TypeOK

\* A commit leaves an amount that the request did not change.
LEMMA FlushAmount ==
    ASSUME NEW row \in PaymentTransaction, NEW seen \in PaymentTransaction,
           NEW new \in PaymentTransaction, new.amount_paise = seen.amount_paise
    PROVE  Flush(row, seen, new).amount_paise = row.amount_paise
  BY DEF Flush, PaymentTransaction

LEMMA BackedInductive == Inv /\ Inv' /\ Backed /\ [Next]_vars => Backed'
<1> SUFFICES ASSUME Inv, Inv', Backed, [Next]_vars PROVE Backed'
  OBVIOUS
<1>1. ASSUME NEW p \in Procs, NEW u \in Users, NEW o \in Orders, NEW a \in Amounts,
             CreateOrder(p, u, o, a)
      PROVE  Backed'
  <2> DEFINE s == Request("order", u, o, [NoTransaction(u) EXCEPT !.amount_paise = a * 100])
  <2>1. /\ session' = [session EXCEPT ![p] = s]
        /\ UNCHANGED <<wallets, recorded, transactions, paid, topups, credits, overlapped>>
    BY <1>1 DEF CreateOrder, Stage, db, ghosts
  <2>2. s.phase = "order"
    BY DEF Request
  <2> HIDE DEF s
  <2>3. PICK c \in Session : c = s
    BY <2>1, SessionAfter
  <2>4. SessionBacked(c)'
    BY <2>2, <2>3 DEF SessionBacked
  <2> QED BY <2>1, <2>3, <2>4, QuietBacked
<1>2. ASSUME NEW p \in Procs, NEW u \in Users, NEW o \in Orders, NEW signed \in BOOLEAN,
             VerifyPayment(p, u, o, signed)
      PROVE  Backed'
  <2> DEFINE ph == IF signed THEN "succeed" ELSE "fail"
             s == Request(ph, u, o, transactions[o])
  <2>1. /\ session' = [session EXCEPT ![p] = s]
        /\ (signed => o \in paid)
        /\ UNCHANGED <<wallets, recorded, transactions, paid, topups, credits, overlapped>>
    BY <1>2 DEF VerifyPayment, Verified, Stage, db, ghosts
  <2>2. s.phase = ph /\ s.order = o /\ s.txn = transactions[o]
    BY DEF Request
  <2>3. ph \in {"succeed", "fail"} /\ (ph = "succeed" => signed)
    OBVIOUS
  <2> HIDE DEF s, ph
  <2>4. PICK c \in Session : c = s
    BY <2>1, SessionAfter
  <2>5. SessionBacked(c)'
    BY <2>1, <2>2, <2>3, <2>4 DEF SessionBacked
  <2> QED BY <2>1, <2>4, <2>5, QuietBacked
<1>3. ASSUME NEW p \in Procs, CommitOrder(p) PROVE Backed'
  <2>1. PICK s \in Session : s = session[p]
    BY DEF Inv, TypeOK
  <2>2. /\ session' = [session EXCEPT ![p] = AtRest]
        /\ wallets' = WithWallet(s) /\ ~WalletTaken(s)
        /\ recorded' = recorded \cup {s.order}
        /\ transactions' = [transactions EXCEPT ![s.order] = s.txn]
        /\ UNCHANGED <<paid, topups, credits, overlapped>>
        /\ s.order \notin recorded
    BY <1>3, <2>1 DEF CommitOrder, Stage, ghosts, Inv, SessionOK
  <2>3. \A u \in Users : wallets'[u] = wallets[u] \/ (wallets[u] = None /\ wallets'[u] = 0)
    BY <2>2, WithWalletValues
  <2>4. \A o \in recorded : transactions'[o].amount_paise = transactions[o].amount_paise
    BY <2>2 DEF Inv, TypeOK
  <2>5. SessionBacked(AtRest)'
    BY RestPhase DEF SessionBacked, AtRest, Idle
  <2>6. recorded \subseteq recorded'
    BY <2>2
  <2> QED BY <2>2, <2>3, <2>4, <2>5, <2>6, RestOK, QuietBacked
<1>4. ASSUME NEW p \in Procs, MarkTransactionFailed(p) PROVE Backed'
  <2>1. PICK s \in Session : s = session[p]
    BY DEF Inv, TypeOK
  <2> DEFINE new == [s.txn EXCEPT !.status = "FAILED"]
  <2>2. /\ session' = [session EXCEPT ![p] = AtRest]
        /\ transactions' = [transactions EXCEPT ![s.order] = Flush(@, s.txn, new)]
        /\ UNCHANGED <<wallets, recorded, paid, topups, credits, overlapped>>
    BY <1>4, <2>1 DEF MarkTransactionFailed, Stage, ghosts
  <2>3. new \in PaymentTransaction /\ new.amount_paise = s.txn.amount_paise
    BY <2>1 DEF Session, PaymentTransaction, PaymentStatus
  <2> HIDE DEF new
  <2>4. ASSUME NEW o \in recorded
        PROVE  transactions'[o].amount_paise = transactions[o].amount_paise
    <3>1. o \in Orders /\ transactions[o] \in PaymentTransaction /\ s.txn \in PaymentTransaction
      BY <2>1 DEF Inv, TypeOK, Session
    <3>2. Flush(transactions[o], s.txn, new).amount_paise = transactions[o].amount_paise
      BY <2>3, <3>1, FlushAmount
    <3> QED BY <2>2, <3>1, <3>2 DEF Inv, TypeOK
  <2>5. SessionBacked(AtRest)'
    BY RestPhase DEF SessionBacked, AtRest, Idle
  <2> QED BY <2>2, <2>4, <2>5, RestOK, QuietBacked
<1>5. ASSUME NEW p \in Procs, MarkTransactionSucceeded(p) PROVE Backed'
  <2>1. PICK s \in Session : s = session[p]
    BY DEF Inv, TypeOK
  <2> DEFINE new == [s.txn EXCEPT !.status = "SUCCEEDED", !.razorpay_payment_id = TRUE]
             next == [s EXCEPT !.phase = "credit"]
  <2>2. /\ s.phase = "succeed" /\ ~WalletTaken(s)
        /\ session' = [session EXCEPT ![p] = next]
        /\ wallets' = WithWallet(s)
        /\ transactions' = [transactions EXCEPT ![s.order] = Flush(@, s.txn, new)]
        /\ UNCHANGED <<recorded, paid, topups, credits, overlapped>>
    BY <1>5, <2>1 DEF MarkTransactionSucceeded, Stage, ghosts
  <2>3. /\ new \in PaymentTransaction /\ new.amount_paise = s.txn.amount_paise
        /\ next.phase = "credit" /\ next.order = s.order /\ next.txn = s.txn
    BY <2>1 DEF Session, PaymentTransaction, PaymentStatus
  <2>4. PICK c \in Session : c = next
    BY <2>2, SessionAfter
  <2> HIDE DEF new, next
  <2>5. ASSUME NEW o \in recorded
        PROVE  transactions'[o].amount_paise = transactions[o].amount_paise
    <3>1. o \in Orders /\ transactions[o] \in PaymentTransaction /\ s.txn \in PaymentTransaction
      BY <2>1 DEF Inv, TypeOK, Session
    <3>2. Flush(transactions[o], s.txn, new).amount_paise = transactions[o].amount_paise
      BY <2>3, <3>1, FlushAmount
    <3> QED BY <2>2, <3>1, <3>2 DEF Inv, TypeOK
  <2>6. /\ s.order \in recorded /\ s.order \in paid
        /\ s.txn.amount_paise = transactions[s.order].amount_paise
    BY <2>1, <2>2 DEF Inv, SessionOK, Backed, SessionBacked
  <2>7. c.phase = "credit" /\ c.order \in recorded /\ c.order \in paid
        /\ c.txn.amount_paise = transactions[c.order].amount_paise
    BY <2>3, <2>4, <2>6
  <2>8. SessionBacked(c)'
    BY <2>2, <2>5, <2>7 DEF SessionBacked
  <2>9. \A u \in Users : wallets'[u] = wallets[u] \/ (wallets[u] = None /\ wallets'[u] = 0)
    BY <2>2, WithWalletValues
  <2> QED BY <2>2, <2>4, <2>5, <2>8, <2>9, QuietBacked
<1>6. ASSUME NEW p \in Procs, ReadBalance(p) PROVE Backed'
  <2>1. PICK s \in Session : s = session[p]
    BY DEF Inv, TypeOK
  <2>2. PICK u \in Users : u = s.user
    BY <2>1 DEF Session
  <2> DEFINE next == [s EXCEPT !.phase = "write", !.balance = wallets[s.user]]
  <2>3. /\ s.phase = "credit"
        /\ session' = [session EXCEPT ![p] = next]
        /\ UNCHANGED <<wallets, recorded, transactions, paid, topups, credits, overlapped>>
    BY <1>6, <2>1 DEF ReadBalance, Stage, db, ghosts
  <2>4. /\ next.phase = "write" /\ next.order = s.order /\ next.txn = s.txn
        /\ next.user = u /\ next.balance = wallets[u]
    BY <2>1, <2>2 DEF Session
  <2>5. PICK c \in Session : c = next
    BY <2>3, SessionAfter
  <2> HIDE DEF next
  <2>6. /\ s.order \in paid /\ wallets[u] # None
        /\ s.txn.amount_paise = transactions[s.order].amount_paise
    BY <2>1, <2>2, <2>3 DEF Inv, SessionOK, Backed, SessionBacked
  <2>7. AddedOnce(u) => /\ wallets[u] <= Received(u)
                        /\ u \notin overlapped => wallets[u] = Received(u)
    BY <2>6 DEF Backed, BalanceBacked
  <2>8. SessionBacked(c)
    BY <2>4, <2>5, <2>6, <2>7 DEF SessionBacked
  <2>9. /\ \A x \in Users : AddedOnce(x)' = AddedOnce(x) /\ Received(x)' = Received(x)
        /\ c.user \in Users
    BY <2>3, <2>5 DEF AddedOnce, Received, Session
  <2>10. SessionBacked(c)'
    BY <2>3, <2>8, <2>9 DEF SessionBacked
  <2> QED BY <2>3, <2>5, <2>10, QuietBacked
<1>7. ASSUME NEW p \in Procs, CreditWallet(p) PROVE Backed'
  BY <1>7, CreditBacked
<1>8. ASSUME NEW p \in Procs, EndRequest(p) PROVE Backed'
  <2>1. /\ session' = [session EXCEPT ![p] = AtRest]
        /\ UNCHANGED <<wallets, recorded, transactions, paid, topups, credits, overlapped>>
    BY <1>8 DEF EndRequest, Stage, db
  <2>2. SessionBacked(AtRest)'
    BY RestPhase DEF SessionBacked, AtRest, Idle
  <2> QED BY <2>1, <2>2, RestOK, QuietBacked
<1>9. ASSUME NEW o \in Orders, Pay(o) PROVE Backed'
  <2>1. /\ paid' = paid \cup {o}
        /\ UNCHANGED <<wallets, recorded, transactions, session, topups, credits, overlapped>>
    BY <1>9 DEF Pay, db, ghosts
  <2>2. \A u \in Users : Received(u)' = Received(u)
    BY <2>1, ReceivedStays
  <2>3. BalanceBacked'
    BY <2>1, <2>2 DEF Backed, BalanceBacked, AddedOnce
  <2>4. \A u \in Users : UserBacked(u)'
    BY <2>1 DEF Backed, UserBacked
  <2>5. ASSUME NEW q \in Procs PROVE SessionBacked(session[q])'
    BY <2>1, SessionStaysBacked
  <2> QED BY <2>3, <2>4, <2>5 DEF Backed
<1>10. CASE UNCHANGED vars
  <2>1. UNCHANGED <<wallets, recorded, transactions, session, paid, topups, credits, overlapped>>
    BY <1>10 DEF vars, db, ghosts
  <2> QED BY <2>1 DEF Backed, BalanceBacked, UserBacked, SessionBacked, AddedOnce, Received
<1> QED BY <1>1, <1>2, <1>3, <1>4, <1>5, <1>6, <1>7, <1>8, <1>9, <1>10 DEF Next

-----------------------------------------------------------------------------
\* A verified payment is not lost but by a request that broke off.
LEMMA CreditedStep ==
    ASSUME Inv, Inv', SuccessIsCredited, [Next]_vars
    PROVE  SuccessIsCredited'
<1> SUFFICES ASSUME NEW o \in Orders, transactions'[o].status = "SUCCEEDED"
             PROVE  \/ credits'[o] >= 1
                    \/ o \in cut'
                    \/ \E p \in Procs : session'[p].phase \in {"credit", "write"}
                                        /\ session'[p].order = o
  BY DEF SuccessIsCredited
<1> DEFINE Held(q) == session[q].phase \in {"credit", "write"} /\ session[q].order = o
           Kept(q) == session'[q].phase \in {"credit", "write"} /\ session'[q].order = o
           Before == \/ credits[o] >= 1 \/ o \in cut
                     \/ \E p \in Procs : Held(p)
<1>1. /\ transactions[o].status = "SUCCEEDED" => Before
      /\ credits[o] \in Nat
      /\ \A p \in Procs : session[p] \in Session
  BY DEF SuccessIsCredited, Inv, TypeOK
<1>2. ASSUME NEW p \in Procs, NEW s, session' = [session EXCEPT ![p] = s],
             ~Held(p), UNCHANGED credits, cut \subseteq cut',
             transactions'[o].status = transactions[o].status
      PROVE  credits'[o] >= 1 \/ o \in cut' \/ \E q \in Procs : Kept(q)
  <2>1. ASSUME NEW q \in Procs, Held(q) PROVE Kept(q)
    BY <1>2, <2>1 DEF Inv, TypeOK
  <2> QED BY <1>1, <1>2, <2>1
<1>3. ASSUME NEW p \in Procs, NEW u \in Users, NEW x \in Orders, NEW a \in Amounts,
             CreateOrder(p, u, x, a)
      PROVE  credits'[o] >= 1 \/ o \in cut' \/ \E q \in Procs : Kept(q)
  BY <1>2, <1>3 DEF CreateOrder, Free, Stage, db, ghosts
<1>4. ASSUME NEW p \in Procs, NEW u \in Users, NEW x \in Orders, NEW signed \in BOOLEAN,
             VerifyPayment(p, u, x, signed)
      PROVE  credits'[o] >= 1 \/ o \in cut' \/ \E q \in Procs : Kept(q)
  BY <1>2, <1>4 DEF VerifyPayment, Free, Stage, db, ghosts
<1>5. ASSUME NEW p \in Procs, CommitOrder(p)
      PROVE  credits'[o] >= 1 \/ o \in cut' \/ \E q \in Procs : Kept(q)
  <2>1. session[p].phase = "order" /\ session[p].txn.status = "PENDING"
    BY <1>5 DEF CommitOrder, Inv, SessionOK
  <2>2. transactions'[o].status = transactions[o].status
    BY <1>5, <2>1 DEF CommitOrder, Inv, TypeOK
  <2> QED BY <1>2, <1>5, <2>1, <2>2 DEF CommitOrder, Stage, ghosts
<1>6. ASSUME NEW p \in Procs, MarkTransactionFailed(p)
      PROVE  credits'[o] >= 1 \/ o \in cut' \/ \E q \in Procs : Kept(q)
  <2>1. PICK s \in Session : s = session[p]
    BY <1>1
  <2> DEFINE new == [s.txn EXCEPT !.status = "FAILED"]
  <2>2. /\ s.phase = "fail" /\ session' = [session EXCEPT ![p] = AtRest]
        /\ transactions' = [transactions EXCEPT ![s.order] = Flush(@, s.txn, new)]
        /\ UNCHANGED <<credits, cut>>
    BY <1>6, <2>1 DEF MarkTransactionFailed, Stage, ghosts
  <2>3. transactions[o] \in PaymentTransaction /\ s.txn \in PaymentTransaction
    BY <2>1 DEF Inv, TypeOK, Session
  <2>4. new.status = "FAILED"
    BY <2>3 DEF PaymentTransaction
  <2> HIDE DEF new
  <2>5. Flush(transactions[o], s.txn, new).status \in {transactions[o].status, "FAILED"}
    BY <2>3, <2>4 DEF Flush, PaymentTransaction
  <2>6. transactions'[o] \in {transactions[o], Flush(transactions[o], s.txn, new)}
    BY <2>2 DEF Inv, TypeOK
  <2>7. transactions'[o].status = transactions[o].status
    BY <2>5, <2>6
  <2> QED BY <1>2, <2>1, <2>2, <2>7
<1>7. ASSUME NEW p \in Procs, MarkTransactionSucceeded(p)
      PROVE  credits'[o] >= 1 \/ o \in cut' \/ \E q \in Procs : Kept(q)
  <2>1. PICK s \in Session : s = session[p]
    BY <1>1
  <2> DEFINE next == [s EXCEPT !.phase = "credit"]
  <2>2. /\ s.phase = "succeed" /\ session' = [session EXCEPT ![p] = next]
        /\ \E new : transactions' = [transactions EXCEPT ![s.order] = Flush(@, s.txn, new)]
        /\ UNCHANGED <<credits, cut>>
    BY <1>7, <2>1 DEF MarkTransactionSucceeded, Stage, ghosts
  <2>3. next.phase = "credit" /\ next.order = s.order
    BY <2>1 DEF Session
  <2> HIDE DEF next
  <2>4. CASE s.order = o
    <3>1. session'[p] = next
      BY <2>2 DEF Inv, TypeOK
    <3> QED BY <2>3, <2>4, <3>1
  <2>5. CASE s.order # o
    <3>1. transactions'[o].status = transactions[o].status
      BY <2>2, <2>5 DEF Inv, TypeOK
    <3> QED BY <1>2, <2>1, <2>2, <3>1
  <2> QED BY <2>4, <2>5
<1>8. ASSUME NEW p \in Procs, ReadBalance(p)
      PROVE  credits'[o] >= 1 \/ o \in cut' \/ \E q \in Procs : Kept(q)
  <2>1. PICK s \in Session : s = session[p]
    BY <1>1
  <2> DEFINE next == [s EXCEPT !.phase = "write", !.balance = wallets[s.user]]
  <2>2. /\ session' = [session EXCEPT ![p] = next]
        /\ UNCHANGED <<transactions, credits, cut>>
    BY <1>8, <2>1 DEF ReadBalance, Stage, db, ghosts
  <2>3. next.phase = "write" /\ next.order = s.order
    BY <2>1 DEF Session
  <2> HIDE DEF next
  <2>4. CASE Held(p)
    <3>1. session'[p] = next
      BY <2>2 DEF Inv, TypeOK
    <3> QED BY <2>1, <2>3, <2>4, <3>1
  <2>5. CASE ~Held(p)
    BY <1>2, <2>2, <2>5
  <2> QED BY <2>4, <2>5
<1>9. ASSUME NEW p \in Procs, CreditWallet(p)
      PROVE  credits'[o] >= 1 \/ o \in cut' \/ \E q \in Procs : Kept(q)
  <2>1. /\ session' = [session EXCEPT ![p] = AtRest]
        /\ credits' = [credits EXCEPT ![session[p].order] = @ + 1]
        /\ UNCHANGED <<transactions, cut>>
    BY <1>9 DEF CreditWallet, Stage
  <2>2. CASE session[p].order = o
    <3>1. credits'[o] = credits[o] + 1
      BY <2>1, <2>2 DEF Inv, TypeOK
    <3> QED BY <1>1, <3>1
  <2>3. CASE session[p].order # o
    <3>1. credits'[o] = credits[o]
      BY <2>1, <2>3 DEF Inv, TypeOK
    <3>2. ASSUME NEW q \in Procs, Held(q) PROVE Kept(q)
      BY <2>1, <2>3, <3>2 DEF Inv, TypeOK
    <3> QED BY <1>1, <2>1, <3>1, <3>2
  <2> QED BY <2>2, <2>3
<1>10. ASSUME NEW p \in Procs, EndRequest(p)
       PROVE  credits'[o] >= 1 \/ o \in cut' \/ \E q \in Procs : Kept(q)
  <2>1. /\ session' = [session EXCEPT ![p] = AtRest]
        /\ cut' = IF session[p].phase \in {"credit", "write"} THEN cut \cup {session[p].order}
                  ELSE cut
        /\ UNCHANGED <<transactions, credits>>
    BY <1>10 DEF EndRequest, Stage, db
  <2>2. CASE Held(p)
    BY <2>1, <2>2
  <2>3. CASE ~Held(p)
    BY <1>2, <2>1, <2>3
  <2> QED BY <2>2, <2>3
<1>11. CASE UNCHANGED <<transactions, session, credits, cut>>
  BY <1>1, <1>11
<1>12. ASSUME NEW x \in Orders, Pay(x)
       PROVE  credits'[o] >= 1 \/ o \in cut' \/ \E q \in Procs : Kept(q)
  BY <1>11, <1>12 DEF Pay, db, ghosts
<1>13. CASE UNCHANGED vars
  BY <1>11, <1>13 DEF vars, db, ghosts
<1> QED BY <1>3, <1>4, <1>5, <1>6, <1>7, <1>8, <1>9, <1>10, <1>12, <1>13 DEF Next

-----------------------------------------------------------------------------
\* Credits.  Every call of verify that passed adds at most one credit: it is
\* either still under way or counted in credits.
Verifying(o) ==
    {p \in Procs : session[p].phase \in {"succeed", "credit", "write"}
                   /\ session[p].order = o}

Counted ==
    \A o \in Orders : /\ IsFiniteSet(Verifying(o))
                      /\ credits[o] + Cardinality(Verifying(o)) <= calls[o]

\* What a request adds to the number of verifications of o.
One(s, o) == IF s.phase \in {"succeed", "credit", "write"} /\ s.order = o THEN 1 ELSE 0

\* A step of request p replaces what it adds and nobody else's.
LEMMA VerifyingStep ==
    ASSUME Inv, Counted, NEW p \in Procs, NEW c \in Session,
           session' = [session EXCEPT ![p] = c], NEW o \in Orders
    PROVE  /\ IsFiniteSet(Verifying(o))'
           /\ \E rest \in Nat : /\ Cardinality(Verifying(o)) = rest + One(session[p], o)
                                /\ Cardinality(Verifying(o))' = rest + One(c, o)
<1> DEFINE S == Verifying(o)
           R == {q \in Procs : session'[q].phase \in {"succeed", "credit", "write"}
                               /\ session'[q].order = o}
           O == S \ {p}
<1>1. \A q \in Procs : session'[q] = IF q = p THEN c ELSE session[q]
  BY DEF Inv, TypeOK
<1>2. Verifying(o)' = R
  BY DEF Verifying
<1>3. /\ p \notin O
      /\ S = IF One(session[p], o) = 1 THEN O \cup {p} ELSE O
      /\ R = IF One(c, o) = 1 THEN O \cup {p} ELSE O
  BY <1>1 DEF Verifying, One
<1>4. IsFiniteSet(S) /\ IsFiniteSet(O)
  BY FS_Subset DEF Counted
<1> HIDE DEF S, R, O
<1>5. /\ Cardinality(O) \in Nat
      /\ IsFiniteSet(O \cup {p}) /\ Cardinality(O \cup {p}) = Cardinality(O) + 1
  BY <1>3, <1>4, FS_AddElement, FS_CardinalityType
<1>6. One(session[p], o) \in {0, 1} /\ One(c, o) \in {0, 1}
  BY DEF One
<1>7. /\ Cardinality(S) = Cardinality(O) + One(session[p], o)
      /\ Cardinality(R) = Cardinality(O) + One(c, o) /\ IsFiniteSet(R)
  BY <1>3, <1>4, <1>5, <1>6
<1> QED BY <1>2, <1>5, <1>7 DEF S

\* A step keeps the count if a credit or a verification it adds is paid for by
\* a call it makes or a verification it ends.
LEMMA CountedStep ==
    ASSUME Inv, Inv', Counted, NEW p \in Procs, NEW c \in Session,
           session' = [session EXCEPT ![p] = c],
           \A o \in Orders :
              credits'[o] + One(c, o) + calls[o] <= credits[o] + One(session[p], o) + calls'[o]
    PROVE  Counted'
<1> SUFFICES ASSUME NEW o \in Orders
             PROVE  (IsFiniteSet(Verifying(o))
                     /\ credits[o] + Cardinality(Verifying(o)) <= calls[o])'
  BY DEF Counted
<1>1. PICK rest \in Nat : /\ Cardinality(Verifying(o)) = rest + One(session[p], o)
                          /\ Cardinality(Verifying(o))' = rest + One(c, o)
  BY VerifyingStep
<1>2. /\ credits[o] \in Nat /\ credits'[o] \in Nat /\ calls[o] \in Nat /\ calls'[o] \in Nat
      /\ One(c, o) \in Nat /\ One(session[p], o) \in Nat
  BY WalletTopUpAssumption DEF Inv, TypeOK, One
<1>3. credits[o] + Cardinality(Verifying(o)) <= calls[o]
  BY DEF Counted
<1>4. IsFiniteSet(Verifying(o))'
  BY VerifyingStep
<1>5. credits'[o] + Cardinality(Verifying(o))' <= calls'[o]
  BY <1>1, <1>2, <1>3
<1> QED BY <1>4, <1>5

\* The steps that neither call nor credit.
LEMMA QuietCounted ==
    ASSUME Inv, Inv', Counted, NEW p \in Procs, NEW c \in Session,
           session' = [session EXCEPT ![p] = c],
           \A o \in Orders : One(c, o) <= One(session[p], o),
           UNCHANGED <<calls, credits>>
    PROVE  Counted'
<1>1. \A o \in Orders : /\ credits[o] \in Nat /\ calls[o] \in Nat
                        /\ One(c, o) \in Nat /\ One(session[p], o) \in Nat
  BY WalletTopUpAssumption DEF Inv, TypeOK, One
<1>2. \A o \in Orders :
         credits'[o] + One(c, o) + calls[o] <= credits[o] + One(session[p], o) + calls'[o]
  BY <1>1
<1> QED BY <1>2, CountedStep

LEMMA RestCounts ==
    ASSUME NEW s, NEW o PROVE One(AtRest, o) = 0 /\ One(s, o) \in {0, 1}
  BY RestPhase DEF One

LEMMA InitCounted == Init => Counted
<1> SUFFICES ASSUME Init PROVE Counted
  OBVIOUS
<1>1. \A o \in Orders : Verifying(o) = {}
  BY RestPhase DEF Init, Verifying
<1> QED BY <1>1, FS_EmptySet DEF Counted, Init

LEMMA CountedInductive == Inv /\ Inv' /\ Counted /\ [Next]_vars => Counted'
<1> SUFFICES ASSUME Inv, Inv', Counted, [Next]_vars PROVE Counted'
  OBVIOUS
<1>1. ASSUME NEW p \in Procs, NEW u \in Users, NEW o \in Orders, NEW a \in Amounts,
             CreateOrder(p, u, o, a)
      PROVE  Counted'
  <2> DEFINE s == Request("order", u, o, [NoTransaction(u) EXCEPT !.amount_paise = a * 100])
  <2>1. session' = [session EXCEPT ![p] = s] /\ UNCHANGED <<calls, credits>>
    BY <1>1 DEF CreateOrder, Stage, db, ghosts
  <2>2. s.phase = "order"
    BY DEF Request
  <2> HIDE DEF s
  <2>3. \A x \in Orders : One(s, x) <= One(session[p], x)
    BY <2>2, RestCounts DEF One
  <2>4. s \in Session
    BY <2>1, SessionAfter
  <2> QED BY <2>1, <2>3, <2>4, QuietCounted
<1>2. ASSUME NEW p \in Procs, NEW u \in Users, NEW o \in Orders, NEW signed \in BOOLEAN,
             VerifyPayment(p, u, o, signed)
      PROVE  Counted'
  <2> DEFINE s == Request(IF Verified(o, signed) THEN "succeed" ELSE "fail",
                          u, o, transactions[o])
  <2>1. /\ session' = [session EXCEPT ![p] = s]
        /\ calls' = [calls EXCEPT ![o] = @ + 1] /\ credits' = credits
    BY <1>2 DEF VerifyPayment, Stage, db, ghosts
  <2>2. s.order = o
    BY DEF Request
  <2> HIDE DEF s
  <2>3. \A x \in Orders : /\ credits[x] \in Nat /\ calls[x] \in Nat
                          /\ calls'[x] = IF x = o THEN calls[x] + 1 ELSE calls[x]
                          /\ x # o => One(s, x) = 0
    BY <2>1, <2>2, WalletTopUpAssumption DEF Inv, TypeOK, One
  <2>4. \A x \in Orders :
           credits'[x] + One(s, x) + calls[x] <= credits[x] + One(session[p], x) + calls'[x]
    BY <2>1, <2>3, RestCounts
  <2>5. s \in Session
    BY <2>1, SessionAfter
  <2>6. PICK c \in Session : c = s
    BY <2>5
  <2> QED BY <2>1, <2>4, <2>6, CountedStep
<1>3. ASSUME NEW p \in Procs,
             \/ CommitOrder(p) \/ MarkTransactionFailed(p) \/ EndRequest(p)
      PROVE  Counted'
  <2>1. session' = [session EXCEPT ![p] = AtRest] /\ UNCHANGED <<calls, credits>>
    BY <1>3 DEF CommitOrder, MarkTransactionFailed, EndRequest, Stage, db, ghosts
  <2>2. \A x \in Orders : One(AtRest, x) <= One(session[p], x)
    BY RestCounts
  <2> QED BY <2>1, <2>2, RestOK, QuietCounted
<1>4. ASSUME NEW p \in Procs, MarkTransactionSucceeded(p) \/ ReadBalance(p)
      PROVE  Counted'
  <2> DEFINE s == session[p]
  <2>1. /\ s.phase \in {"succeed", "credit"} /\ UNCHANGED <<calls, credits>>
        /\ \/ session' = [session EXCEPT ![p] = [s EXCEPT !.phase = "credit"]]
           \/ session' = [session EXCEPT ![p] = [s EXCEPT !.phase = "write",
                                                          !.balance = wallets[s.user]]]
    BY <1>4 DEF MarkTransactionSucceeded, ReadBalance, Stage, db, ghosts
  <2>2. PICK c \in Session :
           /\ session' = [session EXCEPT ![p] = c]
           /\ c.phase \in {"credit", "write"} /\ c.order = s.order
    <3>1. s \in Session
      BY DEF Inv, TypeOK
    <3> QED BY <2>1, <3>1, SessionAfter DEF Session
  <2>3. \A x \in Orders : One(c, x) <= One(s, x)
    BY <2>1, <2>2 DEF One
  <2> QED BY <2>1, <2>2, <2>3, QuietCounted
<1>5. ASSUME NEW p \in Procs, CreditWallet(p) PROVE Counted'
  <2> DEFINE s == session[p]
  <2>1. /\ s.phase = "write" /\ calls' = calls
        /\ credits' = [credits EXCEPT ![s.order] = @ + 1]
        /\ session' = [session EXCEPT ![p] = AtRest]
    BY <1>5 DEF CreditWallet, Stage
  <2>2. \A x \in Orders : /\ credits[x] \in Nat /\ calls[x] \in Nat
                          /\ credits'[x] = credits[x] + One(s, x)
    BY <2>1, WalletTopUpAssumption DEF Inv, TypeOK, One
  <2>3. \A x \in Orders :
           credits'[x] + One(AtRest, x) + calls[x] <= credits[x] + One(s, x) + calls'[x]
    BY <2>1, <2>2, RestCounts
  <2> QED BY <2>1, <2>3, RestOK, CountedStep
<1>6. CASE UNCHANGED <<session, calls, credits>>
  BY <1>6 DEF Counted, Verifying
<1>7. ASSUME NEW o \in Orders, Pay(o) PROVE Counted'
  BY <1>6, <1>7 DEF Pay, db, ghosts
<1>8. CASE UNCHANGED vars
  BY <1>6, <1>8 DEF vars, db, ghosts
<1> QED BY <1>1, <1>2, <1>3, <1>4, <1>5, <1>7, <1>8 DEF Next

-----------------------------------------------------------------------------
\* Rows and sessions keep their types; a balance that is added to is a number.
THEOREM TypeCorrect == Spec => []TypeOK
<1>1. Inv => TypeOK
  BY DEF Inv
<1> QED BY <1>1, Invariance, PTL

\* A SUCCEEDED transaction was paid and names its payment, whatever
\* verifications overlap.
THEOREM SuccessIsPaid == Spec => []SucceededWasPaid
<1>1. Inv => SucceededWasPaid
  BY DEF Inv
<1> QED BY <1>1, Invariance, PTL

\* Every recorded order belongs to a wallet that exists, whatever first orders
\* of a user overlap.
THEOREM WalletForOrder == Spec => []OrderHasWallet
<1>1. Inv => OrderHasWallet
  BY DEF Inv
<1> QED BY <1>1, Invariance, PTL

\* A verified payment reaches a balance unless the request broke off between
\* its two commits: no race, with another verification or for the wallet, loses
\* it.
THEOREM VerifiedIsCredited == Spec => []SuccessIsCredited
<1>1. Init => SuccessIsCredited
  BY AnyUserType DEF Init, SuccessIsCredited, NoTransaction
<1>2. Inv /\ Inv' /\ SuccessIsCredited /\ [Next]_vars => SuccessIsCredited'
  BY CreditedStep
<1> QED BY <1>1, <1>2, Invariance, PTL DEF Spec

\* As long as no order of theirs is added twice, a user has exactly what the
\* paid orders brought, each counted once, and less only after two credits of
\* that user overlapped: a verification that fails, overlaps or is retried
\* after a crash never makes up a credit.
THEOREM BalanceIsBacked == Spec => []BalanceBacked
<1>1. Spec => []Backed
  BY InitBacked, BackedInductive, Invariance, PTL DEF Spec
<1>2. Backed => BalanceBacked
  BY DEF Backed
<1> QED BY <1>1, <1>2, PTL

\* An order is credited at most as often as verify was called for it: no call
\* credits twice, however calls overlap or break off.
THEOREM OneCreditPerCall == Spec => [](\A o \in Orders : credits[o] <= calls[o])
<1>1. Spec => []Counted
  BY InitCounted, CountedInductive, Invariance, PTL DEF Spec
<1>2. Inv /\ Counted => \A o \in Orders : credits[o] <= calls[o]
  <2> SUFFICES ASSUME Inv, Counted, NEW o \in Orders PROVE credits[o] <= calls[o]
    OBVIOUS
  <2>1. Cardinality(Verifying(o)) \in Nat /\ credits[o] + Cardinality(Verifying(o)) <= calls[o]
    BY FS_CardinalityType DEF Counted
  <2> QED BY <2>1, WalletTopUpAssumption DEF Inv, TypeOK
<1> QED BY <1>1, <1>2, Invariance, PTL

\* If verify is called once for an order, the order is credited once: only a
\* repeated call, which nothing in verify_payment refuses, credits it again.
THEOREM CreditedOnceIfCalledOnce == MaxCalls <= 1 => (Spec => []CreditedOnce)
<1> SUFFICES ASSUME MaxCalls <= 1 PROVE Spec => []CreditedOnce
  OBVIOUS
<1>1. Inv /\ (\A o \in Orders : credits[o] <= calls[o]) => CreditedOnce
  BY WalletTopUpAssumption DEF Inv, TypeOK, CreditedOnce
<1> QED BY <1>1, Invariance, OneCreditPerCall, PTL
=============================================================================
