------------------------------ MODULE MCAccess ------------------------------
(* Requests, emails, tenants and keys are interchangeable.                 *)
EXTENDS Access, TLC

AccessSymmetry ==
  Permutations(Requests) \cup Permutations(Emails)
    \cup Permutations(Tenants) \cup Permutations(Keys)
=============================================================================
