------------------------------ MODULE WorkflowMap ------------------------------
(***************************************************************************)
(* The workflow map: which steps a branch and level go through, in which   *)
(* stage each step is worked, who holds a case in a stage, and which       *)
(* application status goes with the stage.  It is the pure part of the     *)
(* workflow (services/workflow_map.py); it has no state.                   *)
(*                                                                         *)
(* An open review stage and the application status that goes with it carry *)
(* the same name in the source, and do so here.                            *)
(***************************************************************************)
EXTENDS Naturals

Branches == {"plantilla", "cos"}
Levels   == {1, 2}

ScreeningStages == {"secretariat_review", "hrm_chief_review"}
ReviewStages == ScreeningStages \cup
                  {"hrmpsb_review", "appointing_authority_review"}
OpenStages == ReviewStages \cup {"completion"}
Stages     == OpenStages \cup {"closed"}

Roles == {"secretariat", "hrm_chief", "hrmpsb_member", "appointing_authority"}
ScreeningReviewRoles == {"secretariat", "hrm_chief"}

(* The value a blank role, stage or status has. *)
Blank == "none"

-----------------------------------------------------------------------------
(* The office of a level: the Secretariat takes in Level 1, the HRM Chief  *)
(* Level 2, and the completion step goes back to that office.              *)

CompletionOwner(level) == IF level = 1 THEN "secretariat" ELSE "hrm_chief"

IntakeStage(level) == IF level = 1 THEN "secretariat_review"
                                   ELSE "hrm_chief_review"

StageOwner(stage, level) ==
  CASE stage = "secretariat_review"          -> "secretariat"
    [] stage = "hrm_chief_review"            -> "hrm_chief"
    [] stage = "hrmpsb_review"               -> "hrmpsb_member"
    [] stage = "appointing_authority_review" -> "appointing_authority"
    [] stage = "completion"                  -> CompletionOwner(level)
    [] OTHER                                 -> Blank

LevelOwner(level) == StageOwner(IntakeStage(level), level)

StatusForStage(stage) ==
  CASE stage \in ReviewStages -> stage
    [] stage = "completion"   -> "approved"
    [] OTHER                  -> Blank

-----------------------------------------------------------------------------
(* The sections worked in a stage, merged over both levels, and the order  *)
(* every branch works them in.  A stage a branch does not use has none.    *)

SectionOrder ==
  [section \in {"screening", "exam", "interview", "deliberation", "car",
                "decision", "completion"} |->
     CASE section = "screening"    -> 1
       [] section = "exam"         -> 2
       [] section = "interview"    -> 3
       [] section = "deliberation" -> 4
       [] section = "car"          -> 4
       [] section = "decision"     -> 5
       [] section = "completion"   -> 6]

PlantillaSections(stage) ==
  CASE stage \in ScreeningStages              -> {"screening", "exam"}
    [] stage = "hrmpsb_review"                -> {"interview", "car"}
    [] stage = "appointing_authority_review"  -> {"decision"}
    [] stage \in {"completion", "closed"}     -> {"completion"}
    [] OTHER                                  -> {}

CosSections(stage) ==
  CASE stage = "secretariat_review"       -> {"screening", "exam"}
    [] stage = "hrm_chief_review"         -> {"screening", "exam", "interview",
                                              "deliberation", "decision"}
    [] stage \in {"completion", "closed"} -> {"completion"}
    [] OTHER                              -> {}

SectionsAt(branch, stage) ==
  IF branch = "plantilla" THEN PlantillaSections(stage) ELSE CosSections(stage)

(* The stages the steps of a branch and level are worked in.               *)
StepStages(branch, level) ==
  CASE branch = "plantilla" -> {IntakeStage(level), "hrmpsb_review",
                                "appointing_authority_review", "completion"}
    [] branch = "cos"       -> {IntakeStage(level), "hrm_chief_review", "completion"}
================================================================================
