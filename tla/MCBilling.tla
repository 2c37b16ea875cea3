------------------------------ MODULE MCBilling ------------------------------
(* Billing with interchangeable members and requests.                        *)
EXTENDS Billing, TLC

Symmetry == Permutations(User) \cup Permutations(Request)
=============================================================================
