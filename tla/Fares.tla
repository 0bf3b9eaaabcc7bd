------------------------------- MODULE Fares -------------------------------
(***************************************************************************)
(* The fare arithmetic of the GoCity backend, in exact numbers: distances  *)
(* in tenths of a kilometre, waiting in seconds, amounts in rupees or,     *)
(* where the code keeps two digits, in paise.                              *)
(***************************************************************************)
EXTENDS Integers

PerKmRate == 19             \* rupees
WaitGraceSeconds == 3 * 60
WaitChargePerMin == 200     \* paise

AtLeast(n, bound) == IF n < bound THEN bound ELSE n

\* A slip: halves always go up.
RoundHalfUp(n, d) == (2 * n + d) \div (2 * d)

\* Python's round of n/d: to the nearest whole number, halves to the even one.
Round(n, d) ==
    LET q == n \div d
        r == n % d
    IN  IF 2 * r > d \/ (2 * r = d /\ q % 2 = 1) THEN q + 1 ELSE q

\* fare_for_distance, in rupees.
FareForDistance(tenths, minimumFare) ==
    Round(AtLeast(AtLeast(tenths, 0) * PerKmRate, minimumFare * 10), 10)

Chargeable(waited) == AtLeast(waited - WaitGraceSeconds, 0)

\* The wait charge of verify_ride_otp, in paise.
WaitChargePaise(waited) == Round(Chargeable(waited) * WaitChargePerMin, 60)
=============================================================================
