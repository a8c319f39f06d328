----------------------------- MODULE MCLogonBrake -----------------------------
(* LogonBrake with four attempts and two passwords, which are interchangeable.   *)
EXTENDS LogonBrake, TLC

Simmetrie == Permutations(Tentativo) \union Permutations(Password)
=============================================================================
