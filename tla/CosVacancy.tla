------------------------------ MODULE CosVacancy ------------------------------
(***************************************************************************)
(* A contract-of-service vacancy: the shared case operations plus the      *)
(* HRM Chief's selection rounds.  A round freezes the candidates who are   *)
(* at the deliberation step when it opens and fills its slots with picks   *)
(* from them.  A one-batch vacancy runs a single round and closes the      *)
(* members it does not pick; an open pool runs one round after another and *)
(* keeps them (services/cos_selection.py).                                 *)
(***************************************************************************)
EXTENDS CaseWorkflow

CONSTANTS Positions,     \* slots of the round of a one-batch vacancy
          RescindCutoff  \* office policy: "never", "case_closed" or "contract_recorded"

ASSUME CosAssumption == Branch = "cos"
\* The applications of a vacancy are the rows of a table.
ASSUME ApplicationsAssumption == IsFiniteSet(Apps)
ASSUME PositionsAssumption == Positions \in Nat \ {0}
ASSUME CutoffAssumption ==
  RescindCutoff \in {"never", "case_closed", "contract_recorded"}

VARIABLES
  round,   \* the latest selection round
  picks,   \* the applications its standing picks name
  earlier  \* the applications the standing picks of earlier rounds name

vars == <<case, overrides, file, posting, round, picks, earlier>>

Round == [status  : {Blank, "open", "resolved", "closed_short"},
          slots   : Nat,
          members : SUBSET Apps]

(* The rows of finalized picks that were not taken back.                   *)
CosVacancyDeliberations == SUBSET Apps

TypeOK == /\ CaseTypeOK
          /\ round \in Round
          /\ picks \in CosVacancyDeliberations
          /\ earlier \in CosVacancyDeliberations

Init == /\ CaseInit
        /\ round = [status |-> Blank, slots |-> 0, members |-> {}]
        /\ picks = {}
        /\ earlier = {}

Selected == picks \cup earlier

-----------------------------------------------------------------------------
(* The pool of a round *)

AtDeliberation(a) == AtSection(a, "deliberation") /\ a \notin Selected

(* Who may join a round: an absence waiting for a decision keeps out.      *)
Eligible == {a \in Apps : /\ ActiveUnlocked(a)
                          /\ case[a].stage = "hrm_chief_review"
                          /\ AtDeliberation(a)
                          /\ \A k \in Assessments : file[a].absence[k] \notin ReviewStages}

(* With a round open the pool is its frozen membership.                    *)
PickPool == IF round.status = "open" THEN {m \in round.members : ActiveUnlocked(m)}
                                     ELSE Eligible

RoundOpened(slots) == [status |-> "open", slots |-> slots, members |-> Eligible]

(* The round a pick belongs to: the open one, or the one the pick opens.   *)
PickRound == IF round.status = "open"
               THEN round ELSE RoundOpened(IF OpenPool THEN 1 ELSE Positions)
PickRoundPicks == IF round.status = "open" THEN picks ELSE {}

(* A one-batch vacancy never gets a second round.                          *)
CanPick(chosen) == /\ round.status = "open" \/ OpenPool \/ round.status = Blank
                   /\ chosen \in PickPool
                   /\ Cardinality(PickRoundPicks) < PickRound.slots
                   /\ chosen \notin PickRoundPicks

(* A new round makes the standing picks of the last one history.           *)
EarlierAfterPick == IF round.status = "open" THEN earlier ELSE earlier \cup picks

-----------------------------------------------------------------------------
(* The HRM Chief *)

OpenRound(slots) ==
  /\ OpenPool
  /\ round.status # "open"
  /\ slots \in 1..Cardinality(Eligible)
  /\ round' = RoundOpened(slots)
  /\ picks' = {}
  /\ earlier' = earlier \cup picks
  /\ UNCHANGED <<case, overrides, file, posting>>

(* A pick saved as a draft changes nothing but the round it may open.      *)
SaveDraftPick(chosen) ==
  /\ round.status # "open"
  /\ CanPick(chosen)
  /\ round' = PickRound
  /\ picks' = PickRoundPicks
  /\ earlier' = EarlierAfterPick
  /\ UNCHANGED <<case, overrides, file, posting>>

FaultyUnpicked(members, picked) == {}
FaultyUnpickedOfPool(members, picked) == {m \in members \ picked : ActiveUnlocked(m)}

(* The members a finished one-batch round closes as not selected.          *)
Unpicked(members, picked) ==
  IF OpenPool THEN {} ELSE {m \in members \ picked : ActiveUnlocked(m)}

(* The pick that fills the last slot resolves the round.                   *)
RoundAfterPick(picked) ==
  [PickRound EXCEPT !.status =
     IF Cardinality(picked) >= PickRound.slots THEN "resolved" ELSE "open"]

(* The finalized pick is the selection: it appoints the chosen applicant.  *)
FinalizePick(chosen) ==
  LET picked   == PickRoundPicks \cup {chosen}
      unpicked == IF RoundAfterPick(picked).status = "resolved"
                    THEN Unpicked(PickRound.members, picked) ELSE {}
  IN  /\ CanPick(chosen)
      /\ case[chosen].stage = "hrm_chief_review"
      /\ AtDeliberation(chosen)
      /\ CanProcess("hrm_chief", chosen)
      /\ round' = RoundAfterPick(picked)
      /\ picks' = picked
      /\ earlier' = EarlierAfterPick
      /\ Transition([a \in {chosen} \cup unpicked |->
           IF a = chosen THEN Moved(case[a], "approved", CompletionOwner(Level))
                         ELSE Moved(case[a], "rejected", Blank)])
      /\ file' = [file EXCEPT ![chosen].completion = Restarted(@)]
      /\ UNCHANGED <<overrides, posting>>

CloseRoundShort ==
  /\ round.status = "open"
  /\ Cardinality(picks) < round.slots
  /\ round' = [round EXCEPT !.status = "closed_short"]
  /\ CloseAll(Unpicked(round.members, picks), "rejected")
  /\ UNCHANGED <<overrides, file, posting, picks, earlier>>

PastCutoff(a) ==
  \/ RescindCutoff # "never" /\ case[a].stage = "closed"
  \/ RescindCutoff = "contract_recorded"
       /\ file[a].completion \in {"referenced", "ready"}

FaultyRestored(winner) == {m \in round.members : case[m].caseStatus = "rejected"}

(* Who goes back to the deliberation when a pick is taken back, and the    *)
(* round it leaves.                                                        *)
Restored(winner) == {winner} \cup {m \in round.members : case[m].caseStatus = "rejected"}

FaultyRoundAfterRescission == round

RoundAfterRescission == [round EXCEPT !.status = "open"]

RescindPick(winner) ==
  /\ winner \in picks
  /\ ~PastCutoff(winner)
  /\ picks' = picks \ {winner}
  /\ round' = RoundAfterRescission
  /\ Transition([a \in Restored(winner) |-> Moved(case[a], "hrm_chief_review", "hrm_chief")])
  /\ file' = [file EXCEPT ![winner].completion = Voided(@)]
  /\ UNCHANGED <<overrides, posting, earlier>>

DeliberationPage ==
  \/ \E slots \in 1..Cardinality(Eligible) : OpenRound(slots)
  \/ CloseRoundShort
  \/ \E chosen \in Apps : SaveDraftPick(chosen) \/ FinalizePick(chosen)

(* A Plantilla report moves nothing here.                                  *)
Next ==
  \/ CaseStep(Selected, {}) /\ UNCHANGED <<round, picks, earlier>>
  \/ DeliberationPage
  \/ \E a \in Apps : RescindPick(a)

Spec == Init /\ [][Next]_vars

-----------------------------------------------------------------------------
(* The lifecycle this vacancy implements: one batch has room for its        *)
(* positions, an open pool for everybody.                                  *)

Lifecycle == INSTANCE CaseLifecycle
               WITH phase <- Phases, selected <- Selected,
                    Capacity <- IF OpenPool THEN Cardinality(Apps) ELSE Positions

-----------------------------------------------------------------------------
(* Properties *)

(* The vacancy keeps the promises of the abstract lifecycle through its     *)
(* rounds: it never appoints more people than it has positions, and whoever *)
(* a round did not choose comes back only when a pick is taken back         *)
(* (services/cos_selection.py, reopen.py).                                  *)
KeepsTheLifecycle == Lifecycle!Spec

(* Only those a standing pick names are approved, in completion or closed  *)
(* there; whatever is recorded for completion is theirs too, so nothing of *)
(* a pick taken back survives it (selection.record_final_decision,         *)
(* cos_selection.rescind_cos_vacancy_deliberation, reopen).                *)
AppointedIsPicked ==
  \A a \in Apps :
    \/ case[a].status = "approved"
    \/ "completion" \in {case[a].stage, case[a].lockedStage}
    \/ file[a].completion \in {"tracked", "referenced", "ready"}
    => a \in Selected

(* The state of a round agrees with its picks through picks, short closes  *)
(* and rescissions: an open round has a slot to fill, a resolved one has   *)
(* none, and a round never appoints more people than its slots.            *)
SlotsMatchStatus ==
  /\ round.status \in {"open", "closed_short"} => Cardinality(picks) < round.slots
  /\ round.status = "resolved" => Cardinality(picks) = round.slots
  /\ picks \subseteq round.members
  /\ picks \cap earlier = {}

(* A one-batch round is over, with somebody picked.                        *)
Decided == /\ ~OpenPool
           /\ round.status \in {"resolved", "closed_short"}
           /\ picks # {}

(* When a one-batch round is decided, nobody it did not choose is left in  *)
(* process, and as long as the decision stands a member it closed is not   *)
(* brought back.  A member whose documents were with the applicant is      *)
(* neither closed nor chosen: it is still open when it answers             *)
(* (cos_selection._close_cos_round_unpicked and the RD-7 guard of          *)
(* reopen.py).                                                             *)
NotPickedAreDecided ==
  [][Decided' =>
       \A m \in round'.members \ picks' :
         IF Decided THEN case[m].locked => case'[m].locked
                    ELSE case'[m].caseStatus # "active"]_vars

(* A standing pick of an earlier round is history: it is never dropped by  *)
(* a later round, and in an open pool a round that ends closes nobody      *)
(* (cos_selection._resolve_cos_selection_round, close short, rescind).     *)
EarlierRoundsStand ==
  [][/\ earlier \subseteq earlier'
     /\ \A a \in Apps : (OpenPool /\ round' # round /\ ~case[a].locked)
                           => ~case'[a].locked]_vars

(* Who is picked stays appointed as long as the pick stands, unless an     *)
(* absence was still waiting for a decision when it was made.              *)
PickedStayAppointed ==
  [][\A a \in Selected \cap Selected' :
       ( /\ case[a].status = "approved"
         /\ \A k \in Assessments : file[a].absence[k] \notin ReviewStages )
         => case'[a].status = "approved"]_vars
=============================================================================
