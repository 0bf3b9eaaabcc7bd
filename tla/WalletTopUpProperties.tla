------------------------ MODULE WalletTopUpProperties ------------------------
(* What is claimed of the wallet top-ups of module WalletTopUp. *)
EXTENDS WalletTopUp, Functions

\* Rows and sessions keep their types; in particular a request that is about to
\* credit a wallet has one (get_or_create_wallet, credit_wallet).
TypeOK ==
    /\ wallets \in [Users -> Nat \cup {None}]
    /\ recorded \in SUBSET Orders
    /\ transactions \in [Orders -> PaymentTransaction]
    /\ session \in [Procs -> Session]
    /\ paid \in SUBSET Orders
    /\ calls \in [Orders -> 0 .. MaxCalls]
    /\ topups \in [Users -> SUBSET Orders]
    /\ credits \in [Orders -> Nat]
    /\ overlapped \in SUBSET Users
    /\ cut \in SUBSET Orders

\* A transaction is SUCCEEDED only if its order was paid, and then the payment
\* is named in it, although a verification that failed and one that passed may
\* commit their columns over each other (verify_payment).
SucceededWasPaid ==
    \A o \in Orders : transactions[o].status = "SUCCEEDED" =>
        o \in paid /\ transactions[o].razorpay_payment_id

\* A verified payment reaches a balance: if a transaction is SUCCEEDED, its
\* order was added to one, or a request is about to add it, or a request broke
\* off between the two commits of verify_payment.  Nothing else loses it, not
\* even a race for the wallet the credit goes to.
SuccessIsCredited ==
    \A o \in Orders : transactions[o].status = "SUCCEEDED" =>
        \/ credits[o] >= 1
        \/ o \in cut
        \/ \E p \in Procs : session[p].phase \in {"credit", "write"} /\ session[p].order = o

\* The paise of the paid orders that were added to the balance of u, each order
\* counted once.
Received(u) ==
    SumFunctionOnSet([o \in Orders |-> transactions[o].amount_paise], topups[u] \cap paid)

AddedOnce(u) == \A o \in topups[u] : credits[o] <= 1

\* As long as no order of theirs is added twice, a user has no more than what
\* the paid orders brought, however verifications overlap, break off and are
\* retried; and not less either, unless two credits of that user overlapped
\* (credit_wallet writes a number it read before).
BalanceBacked ==
    \A u \in Users : wallets[u] # None /\ AddedOnce(u) =>
        /\ wallets[u] <= Received(u)
        /\ u \notin overlapped => wallets[u] = Received(u)

-----------------------------------------------------------------------------
\* payment/router.py: the look-up of a PENDING transaction guards against
\* replaying an order that is already verified, so it is credited once.
CreditedOnce == \A o \in Orders : credits[o] <= 1
=============================================================================
