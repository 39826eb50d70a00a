-------------------------------- MODULE MCCos --------------------------------
(***************************************************************************)
(* Model checking CosVacancy: symmetry and the bounds of the runs.         *)
(***************************************************************************)
EXTENDS CosVacancy, TLC

Symmetry == Permutations(Apps)

(* The bounds of the two-applicant runs, whose subject is the rounds: the  *)
(* vacancy stays in its intake period, which no later COS step asks about, *)
(* no document is flagged and nobody misses the exam.                      *)
RoundsOnly ==
  /\ posting.status \in {"active", "cancelled"} /\ posting.day = "before"
  /\ \A a \in Apps :
       /\ \A s \in ScreeningStages : ~file[a].screening[s].flagged
       /\ \A s \in ScreeningStages : file[a].exam[s] \in {"open", "completed"}

(* The one-batch run leaves the cancellation to the others as well.        *)
RoundOfActiveVacancy == RoundsOnly /\ posting.status = "active"
=============================================================================
