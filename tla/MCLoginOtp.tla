----------------------------- MODULE MCLoginOtp -----------------------------
(* An instance of the login codes for TLC. *)
EXTENDS LoginOtpProperties, TLC

Renaming == Permutations(Procs) \cup Permutations(Phones)
=============================================================================
