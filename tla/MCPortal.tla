-------------------------------- MODULE MCPortal -------------------------------
(* ApplicantPortal on a small instance: interchangeable browsers and addresses. *)
EXTENDS ApplicantPortal, TLC

SymPeople == Permutations(Browsers) \cup Permutations(Emails)
================================================================================
