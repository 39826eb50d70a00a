-------------------------------- MODULE MCRace --------------------------------
(***************************************************************************)
(* Model checking AuthorityRace.                                           *)
(***************************************************************************)
EXTENDS AuthorityRace, TLC

Symmetry == Permutations(Apps) \cup Permutations(Desks)
=============================================================================
