----------------------------- MODULE MCPlantilla -----------------------------
(***************************************************************************)
(* Model checking PlantillaVacancy: symmetry and the bounds of the runs.   *)
(***************************************************************************)
EXTENDS PlantillaVacancy, TLC

Symmetry == Permutations(Apps)

(* The bound of the two-applicant runs: intake is not suspended (as far as *)
(* the cases go a suspended vacancy is a closed one that can reopen).      *)
NotSuspended == posting.status # "suspended"
=============================================================================
