----------------------------- MODULE WalletTopUp -----------------------------
(***************************************************************************)
(* Wallet top-ups: app/payment, live mode.  An order is recorded PENDING;  *)
(* the passenger pays in Checkout; the app then calls verify with the      *)
(* signed callback, which marks the transaction and credits the wallet.    *)
(*                                                                         *)
(* As in module Rides, every request is a thread with a session of its own *)
(* and a commit writes the columns whose value differs from the one read.  *)
(* verify_payment commits twice: the status of the transaction first, then *)
(* the balance, which it reads again in between (a commit expires what the *)
(* session holds) and writes as a number, not as an increment.             *)
(*                                                                         *)
(* Flushing an INSERT and committing it are one step: a second INSERT of   *)
(* the same unique key waits for that commit and then fails.               *)
(***************************************************************************)
EXTENDS Integers

CONSTANTS
    Users,
    Orders,     \* Razorpay order ids (never reused)
    Procs,      \* request slots of the server
    None,
    Amounts,    \* amounts of the orders, in rupees
    MaxCalls    \* bound: verify calls per order

ASSUME WalletTopUpAssumption ==
    /\ Users # {}
    /\ None \notin Users \cup Orders \cup Int
    /\ Amounts \subseteq Nat \ {0}
    /\ MaxCalls \in Nat

PaymentStatus == {"PENDING", "SUCCEEDED", "FAILED"}

PaymentTransaction == [wallet : Users,
                       amount_paise : Nat,
                       status : PaymentStatus,
                       razorpay_payment_id : BOOLEAN]

\* Place-holder for the transaction of an order that is not recorded.
NoTransaction(u) == [wallet |-> u, amount_paise |-> 0, status |-> "PENDING",
                     razorpay_payment_id |-> FALSE]

\* A request in flight: the transaction it read or is about to insert, whether
\* it found no wallet, and the balance it read.
Session == [phase : {"idle", "order", "fail", "succeed", "credit", "write"},
            user : Users,
            order : Orders \cup {None},
            txn : PaymentTransaction,
            create : BOOLEAN,
            balance : Nat]

VARIABLES
    wallets,       \* user_wallets: per user the balance in paise, or None
    recorded,      \* the orders that have a row in payment_transactions
    transactions,  \* those rows
    session,       \* the request in each slot
    paid,          \* external: the orders paid in Checkout
    calls,         \* how often verify was called for an order
    topups,        \* history: per user the orders added to the balance
    credits,       \* history: how often an order was added to a balance
    overlapped,    \* history: the users whose balance was written while another
                   \* request held the number it had read of it
    cut            \* history: the orders whose verification broke off after its
                   \* first commit

db == <<wallets, recorded, transactions>>
ghosts == <<topups, credits, overlapped, cut>>
vars == <<db, session, paid, calls, ghosts>>

Idle(u) == [phase |-> "idle", user |-> u, order |-> None, txn |-> NoTransaction(u),
            create |-> FALSE, balance |-> 0]
AnyUser == CHOOSE u \in Users : TRUE
AtRest == Idle(AnyUser)

Init ==
    /\ wallets = [u \in Users |-> None]
    /\ recorded = {}
    /\ transactions = [o \in Orders |-> NoTransaction(AnyUser)]
    /\ session = [p \in Procs |-> AtRest]
    /\ paid = {}
    /\ calls = [o \in Orders |-> 0]
    /\ topups = [u \in Users |-> {}]
    /\ credits = [o \in Orders |-> 0]
    /\ overlapped = {}
    /\ cut = {}

-----------------------------------------------------------------------------
Free(p) == session[p].phase = "idle"
Stage(p, s) == session' = [session EXCEPT ![p] = s]

\* The columns the unit of work writes: those whose value is not the one read.
Flush(row, seen, new) ==
    [c \in DOMAIN row |-> IF new[c] = seen[c] THEN row[c] ELSE new[c]]

NeedsWallet(u) == wallets[u] = None

\* A request of u about order o, once it has looked for the wallet of u.
Request(phase, u, o, txn) ==
    [phase |-> phase, user |-> u, order |-> o, txn |-> txn,
     create |-> NeedsWallet(u), balance |-> 0]

\* get_or_create_wallet: the INSERT of a wallet meets the unique constraint on
\* user_id if another request created one in the meantime.
WalletTaken(s) == s.create /\ wallets[s.user] # None

\* A slip: the new wallet is not saved.
NoNewWallet(s) == wallets

WithWallet(s) == IF s.create THEN [wallets EXCEPT ![s.user] = 0] ELSE wallets

\* create_order up to its flushes; Razorpay has answered with a new order id.
CreateOrder(p, u, o, amount) ==
    /\ Free(p)
    /\ o \notin recorded /\ \A q \in Procs : session[q].order # o
    /\ Stage(p, Request("order", u, o,
                        [NoTransaction(u) EXCEPT !.amount_paise = amount * 100]))
    /\ UNCHANGED <<db, paid, calls, ghosts>>

CommitOrder(p) ==
    LET s == session[p] IN
    /\ s.phase = "order"
    /\ ~WalletTaken(s)
    /\ wallets' = WithWallet(s)
    /\ recorded' = recorded \cup {s.order}
    /\ transactions' = [transactions EXCEPT ![s.order] = s.txn]
    /\ Stage(p, AtRest)
    /\ UNCHANGED <<paid, calls, ghosts>>

\* External: the passenger pays the order in Checkout.
Pay(o) ==
    /\ o \in recorded \ paid
    /\ paid' = paid \cup {o}
    /\ UNCHANGED <<db, session, calls, ghosts>>

\* A slip: the outcome of the comparison is not looked at.
AnySignature(o, signed) == TRUE

\* verify_razorpay_signature: the callback is the one Checkout signed.
Verified(o, signed) == signed

\* verify_payment up to its first commit.
VerifyPayment(p, u, o, signed) ==
    /\ Free(p)
    /\ o \in recorded
    /\ signed => o \in paid
    /\ calls[o] < MaxCalls
    /\ calls' = [calls EXCEPT ![o] = @ + 1]
    /\ Stage(p, Request(IF Verified(o, signed) THEN "succeed" ELSE "fail",
                        u, o, transactions[o]))
    /\ UNCHANGED <<db, paid, ghosts>>

\* mark_transaction_failed, whatever the status was.
MarkTransactionFailed(p) ==
    LET s == session[p] IN
    /\ s.phase = "fail"
    /\ transactions' = [transactions EXCEPT
                          ![s.order] = Flush(@, s.txn, [s.txn EXCEPT !.status = "FAILED"])]
    /\ Stage(p, AtRest)
    /\ UNCHANGED <<wallets, recorded, paid, calls, ghosts>>

\* A slip: the status is committed before get_or_create_wallet.
MarkBeforeWallet(p) ==
    LET s == session[p]
        new == [s.txn EXCEPT !.status = "SUCCEEDED", !.razorpay_payment_id = TRUE]
    IN  /\ s.phase = "succeed"
        /\ wallets' = IF WalletTaken(s) THEN wallets ELSE WithWallet(s)
        /\ transactions' = [transactions EXCEPT ![s.order] = Flush(@, s.txn, new)]
        /\ Stage(p, IF WalletTaken(s) THEN AtRest ELSE [s EXCEPT !.phase = "credit"])
        /\ UNCHANGED <<recorded, paid, calls, ghosts>>

\* mark_transaction_succeeded; commits the wallet too if it was created.
MarkTransactionSucceeded(p) ==
    LET s == session[p]
        new == [s.txn EXCEPT !.status = "SUCCEEDED", !.razorpay_payment_id = TRUE]
    IN  /\ s.phase = "succeed"
        /\ ~WalletTaken(s)
        /\ wallets' = WithWallet(s)
        /\ transactions' = [transactions EXCEPT ![s.order] = Flush(@, s.txn, new)]
        /\ Stage(p, [s EXCEPT !.phase = "credit"])
        /\ UNCHANGED <<recorded, paid, calls, ghosts>>

\* credit_wallet: wallet.balance_paise is loaded ...
ReadBalance(p) ==
    LET s == session[p] IN
    /\ s.phase = "credit"
    /\ Stage(p, [s EXCEPT !.phase = "write", !.balance = wallets[s.user]])
    /\ UNCHANGED <<db, paid, calls, ghosts>>

\* A slip: rupees are taken for paise.
CreditedInRupees(s) == s.balance + s.txn.amount_paise * 100

Credited(s) == s.balance + s.txn.amount_paise

\* Another request is about to write the balance of u as well.
AlsoWriting(p, u) ==
    \E q \in Procs \ {p} : session[q].phase = "write" /\ session[q].user = u

\* ... and the sum is committed.
CreditWallet(p) ==
    LET s == session[p] IN
    /\ s.phase = "write"
    /\ wallets' = [wallets EXCEPT ![s.user] = Credited(s)]
    /\ topups' = [topups EXCEPT ![s.user] = @ \cup {s.order}]
    /\ credits' = [credits EXCEPT ![s.order] = @ + 1]
    /\ overlapped' = IF AlsoWriting(p, s.user) THEN overlapped \cup {s.user} ELSE overlapped
    /\ Stage(p, AtRest)
    /\ UNCHANGED <<recorded, transactions, paid, calls, cut>>

\* The request fails on the unique constraint, or the server goes down.
EndRequest(p) ==
    /\ ~Free(p)
    /\ cut' = IF session[p].phase \in {"credit", "write"} THEN cut \cup {session[p].order}
              ELSE cut
    /\ Stage(p, AtRest)
    /\ UNCHANGED <<db, paid, calls, topups, credits, overlapped>>

Next ==
    \/ \E p \in Procs :
          \/ \E u \in Users, o \in Orders, a \in Amounts : CreateOrder(p, u, o, a)
          \/ \E u \in Users, o \in Orders, signed \in BOOLEAN : VerifyPayment(p, u, o, signed)
          \/ CommitOrder(p)
          \/ MarkTransactionFailed(p)
          \/ MarkTransactionSucceeded(p)
          \/ ReadBalance(p)
          \/ CreditWallet(p)
          \/ EndRequest(p)
    \/ \E o \in Orders : Pay(o)

Spec == Init /\ [][Next]_vars
=============================================================================
