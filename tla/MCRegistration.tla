--------------------------- MODULE MCRegistration ---------------------------
(* Registration for TLC: requests and devices are interchangeable.         *)
EXTENDS Registration, TLC

RegistrationSymmetry == Permutations(Handlers) \cup Permutations(Contacts)
=============================================================================
