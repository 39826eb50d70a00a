--------------------------- MODULE PlantillaVacancy ---------------------------
(***************************************************************************)
(* A Plantilla vacancy: the shared case operations plus the Comparative    *)
(* Assessment Report (CAR), which ranks every candidate the panel holds,   *)
(* and the Appointing Authority's decision on it: selection, no            *)
(* appointment, return for correction, and taking a selection back.        *)
(***************************************************************************)
EXTENDS CaseWorkflow

CONSTANT RescindCutoff  \* office policy: "never", "case_closed" or "contract_recorded"

ASSUME PlantillaAssumption == Branch = "plantilla"
ASSUME CutoffAssumption ==
  RescindCutoff \in {"never", "case_closed", "contract_recorded"}

VARIABLES
  car,       \* the vacancy's report and the applications on it
  selection  \* the application of the selection that stands, or NoApp

vars == <<case, overrides, file, posting, car, selection>>

(* final: a finalized report that was not returned; items: its candidates. *)
CarReport == [drafted : BOOLEAN, final : BOOLEAN, items : SUBSET Apps]

(* At most one selection of a vacancy stands; those taken back are history. *)
FinalSelection == Apps \cup {NoApp}

TypeOK == /\ CaseTypeOK
          /\ car \in CarReport
          /\ selection \in FinalSelection

Init == /\ CaseInit
        /\ car = [drafted |-> FALSE, final |-> FALSE, items |-> {}]
        /\ selection = NoApp

Selected == {selection} \ {NoApp}
Reported == IF car.final THEN car.items ELSE {}

-----------------------------------------------------------------------------
(* The report *)

AtPanel == {a \in Apps : /\ case[a].status = "hrmpsb_review"
                         /\ case[a].stage = "hrmpsb_review"
                         /\ ActiveUnlocked(a)}

(* The records the ranking is computed from.                               *)
Assessed(a) == /\ file[a].screening[IntakeStage(Level)].verdict # Blank
               /\ file[a].exam[IntakeStage(Level)] # "open"
               /\ Session(a).state = "final"

FaultyScored(a) == TRUE

Scored(a) == /\ file[a].exam[IntakeStage(Level)] = "completed"
             /\ ~Session(a).absent

(* The Secretariat prepares the report, from any case at the report step,  *)
(* for every candidate the panel holds.                                    *)
CanPrepareCar == /\ PoolIsFinal
                 /\ ~car.final
                 /\ \E a \in AtPanel : Session(a).state = "final"
                 /\ \A a \in AtPanel : Assessed(a)

DraftCar ==
  /\ CanPrepareCar
  /\ ~car.drafted
  /\ car' = [car EXCEPT !.drafted = TRUE]
  /\ UNCHANGED <<case, overrides, file, posting, selection>>

CanFinalizeCar == /\ CanPrepareCar
                  /\ car.drafted
                  /\ \A a \in AtPanel : Scored(a)

(* The rows of cases sent to the authority.                                *)
ToAuthority(sent) == [a \in sent |-> Moved(case[a], "appointing_authority_review",
                                                   "appointing_authority")]

FinalizeCar ==
  /\ CanFinalizeCar
  /\ car' = [car EXCEPT !.final = TRUE, !.items = AtPanel]
  /\ Transition(ToAuthority(AtPanel))
  /\ UNCHANGED <<overrides, file, posting, selection>>

-----------------------------------------------------------------------------
(* The Appointing Authority *)

(* A candidate who withdrew or whose vacancy was cancelled is passed over; *)
(* anyone else who left the authority's step blocks the decision.          *)
Contenders ==
  {a \in car.items : case[a].status \notin {"withdrawn", "vacancy_cancelled"}}

WithAuthority(a) == /\ case[a].status = "appointing_authority_review"
                    /\ case[a].stage = "appointing_authority_review"
                    /\ case[a].handler = "appointing_authority"
                    /\ ~case[a].locked

(* The decision is taken on the page of a case the authority holds.        *)
CanDecide == /\ selection = NoApp
             /\ car.final
             /\ \E a \in Apps : WithAuthority(a)
             /\ Contenders # {}
             /\ \A a \in Contenders : WithAuthority(a)

ToPanel(sent) == [a \in sent |-> Moved(case[a], "hrmpsb_review", "hrmpsb_member")]

ReturnCar ==
  /\ CanDecide
  /\ car' = [car EXCEPT !.final = FALSE]
  /\ Transition(ToPanel(Contenders))
  /\ UNCHANGED <<overrides, file, posting, selection>>

RecordNoAppointment ==
  /\ CanDecide
  /\ CloseAll(Contenders, "rejected")
  /\ UNCHANGED <<overrides, file, posting, car, selection>>

SelectionOf(winner) ==
  [a \in Contenders |->
     IF a = winner THEN Moved(case[a], "approved", CompletionOwner(Level))
                   ELSE Moved(case[a], "rejected", Blank)]

(* A completion record voided by an earlier rescission starts afresh.      *)
RecordFinalSelection(winner) ==
  /\ CanDecide
  /\ winner \in Contenders
  /\ selection' = winner
  /\ Transition(SelectionOf(winner))
  /\ file' = [file EXCEPT ![winner].completion = Restarted(@)]
  /\ UNCHANGED <<overrides, posting, car>>

AuthorityPage == \/ RecordNoAppointment
                 \/ \E winner \in Apps : RecordFinalSelection(winner)

PastCutoff(a) ==
  \/ RescindCutoff # "never" /\ case[a].stage = "closed"
  \/ RescindCutoff = "contract_recorded"
       /\ file[a].completion \in {"referenced", "ready"}

FaultyRestored == {a \in car.items : case[a].caseStatus = "rejected"}
FaultyRestoredVacancy == {selection} \cup {a \in Apps : case[a].caseStatus = "rejected"}

(* The winner and the candidates of the report closed as not selected go   *)
(* back to the authority.                                                  *)
Restored == {selection} \cup {a \in car.items : case[a].caseStatus = "rejected"}

CanRescind == selection # NoApp /\ ~PastCutoff(selection)

RescindFinalSelection ==
  /\ CanRescind
  /\ selection' = NoApp
  /\ Transition(ToAuthority(Restored))
  /\ file' = [file EXCEPT ![selection].completion = Voided(@)]
  /\ UNCHANGED <<overrides, posting, car>>

Next ==
  \/ CaseStep(Selected, Reported) /\ UNCHANGED <<car, selection>>
  \/ DraftCar
  \/ FinalizeCar
  \/ ReturnCar
  \/ AuthorityPage
  \/ RescindFinalSelection

Spec == Init /\ [][Next]_vars

-----------------------------------------------------------------------------
(* The offices at work *)

(* What an office does next for a case.  Any of these may be put off, and  *)
(* anything else may happen meanwhile, but a page that is offered again    *)
(* and again is used in the end: documents are judged, an exam is held and *)
(* attended, an absence decided, a panel rates, a report is finalized, the *)
(* authority decides, and a closing day passes.                            *)
Screen(a) == \E role \in Roles : \/ FinalizeQualified(role, a)
                                 \/ FinalizeNotQualified(role, a)
                                 \/ RemoveFromBatch(role, a)

HoldExam == \E role \in Roles : FinalizeExams(role, [a \in ExamPool |-> "completed"])

DecideAbsence(a) == \E role \in Roles, k \in Assessments :
                      RescheduleAbsentee(role, a, k) \/ EndAfterAbsence(role, a, k)

DayEnds == posting.day = "closing_day" /\ NextDay

OfficesWork ==
  /\ \A a \in Apps : /\ SF_vars(Screen(a) /\ UNCHANGED <<car, selection>>)
                     /\ SF_vars(DecideAbsence(a) /\ UNCHANGED <<car, selection>>)
                     /\ SF_vars(/\ \E role \in Roles : RateInterview(role, a)
                               /\ UNCHANGED <<car, selection>>)
  /\ SF_vars((\E role \in Roles : ScheduleExam(role)) /\ UNCHANGED <<car, selection>>)
  /\ SF_vars(HoldExam /\ UNCHANGED <<car, selection>>)
  /\ SF_vars((\E role \in Roles : ScheduleInterviews(role)) /\ UNCHANGED <<car, selection>>)
  /\ SF_vars((\E role \in Roles : FinalizeInterviews(role)) /\ UNCHANGED <<car, selection>>)
  /\ SF_vars(DraftCar) /\ SF_vars(FinalizeCar)
  /\ SF_vars(AuthorityPage)
  /\ WF_vars(NextDay /\ UNCHANGED <<car, selection>>)
  /\ SF_vars(DayEnds /\ UNCHANGED <<car, selection>>)

FairSpec == Spec /\ OfficesWork

-----------------------------------------------------------------------------
(* The lifecycle this vacancy implements *)

Lifecycle == INSTANCE CaseLifecycle
               WITH phase <- Phases, selected <- Selected, Capacity <- 1

-----------------------------------------------------------------------------
(* Properties *)

(* The vacancy keeps the promises of the abstract lifecycle, with room for *)
(* one appointment: no step, batch movement or repair has an effect on who *)
(* is open, out or appointed that the lifecycle does not name (every       *)
(* caller of routing.transition_case).                                     *)
KeepsTheLifecycle == Lifecycle!Spec

(* Only the applicant the standing selection names is ever approved, is in *)
(* completion or was closed there: two appointments to one item, or an     *)
(* appointment left behind by a rescission, cannot be recorded             *)
(* (selection.record_final_selection, rescind_final_selection, reopen).    *)
AppointedIsSelected ==
  \A a \in Apps :
    case[a].status = "approved" \/ "completion" \in {case[a].stage, case[a].lockedStage}
      => a = selection

(* Nobody reaches the authority or an appointment without a Qualified      *)
(* screening and an interview that was sat and finalized, or with an exam  *)
(* that was missed or waived: absentees leave the pooled batch before the  *)
(* report ranks it (car.generate_comparative_assessment_report).           *)
ScoredBeforeAuthority ==
  \A a \in Apps :
    case[a].status \in {"appointing_authority_review", "approved"} =>
      /\ file[a].screening[IntakeStage(Level)].verdict = "qualified"
      /\ file[a].exam[IntakeStage(Level)] \notin {"absent", "waived"}
      /\ Session(a).state = "final"
      /\ ~Session(a).absent

(* A live completion record belongs to the standing selection: what was    *)
(* recorded for a selection taken back is void and never carried into the  *)
(* next one (selection._void_completion_record_for_rescission).            *)
CompletionFollowsSelection ==
  \A a \in Apps :
    file[a].completion \in {"tracked", "referenced", "ready"} => a = selection

(* While a selection stands every other candidate of the report is closed  *)
(* (selection._close_car_item_as_non_selected, RD-7 in reopen.py).         *)
NotSelectedStayClosed ==
  selection # NoApp => \A a \in car.items \ {selection} : case[a].locked

(* A closed case only ever comes back to the step it was closed at, a      *)
(* withdrawn one included; the one exception is the appointee whose        *)
(* selection is taken back (reopen_recruitment_case and the restored       *)
(* candidates of rescind_final_selection).                                 *)
ReopenedWhereItLeft ==
  [][\A a \in Apps : (case[a].locked /\ ~case'[a].locked /\ a # selection)
                       => case'[a].stage = case[a].lockedStage]_vars

(* The appointee stays appointed until the selection is taken back, unless *)
(* an absence was still waiting for a decision when the selection was made *)
(* (intake.record_application_withdrawal, routing and reopen guards).      *)
AppointeeStays ==
  [][( /\ selection # NoApp
       /\ selection' = selection
       /\ case[selection].status = "approved"
       /\ \A k \in Assessments : file[selection].absence[k] = Blank )
       => case'[selection].status = "approved"]_vars

(* A no-show whose case was reopened and whom the panel then rated: the    *)
(* session is still marked absent, so it can neither be finalized with its *)
(* ratings nor without them, and no page takes either off.                 *)
RatedNoShow(a) == Session(a).absent /\ Session(a).ratings # "none"

(* A case the maintenance command moved to the panel with an absence still *)
(* waiting for its decision: the exam was missed or was reopened behind    *)
(* the panel, and no page of the panel's step finalizes it.                *)
UnexaminedAtPanel(a) == /\ case[a].stage = "hrmpsb_review"
                        /\ file[a].exam[IntakeStage(Level)] # "completed"

(* Whoever applied is decided in the end: through loans, returned          *)
(* documents, extensions, missed sittings and corrections there is always  *)
(* a page on which somebody may take the case on, but for the two states   *)
(* above (screening, exam, interview and routing guards, together).        *)
DecidedInTheEnd ==
  \A a \in Apps :
    Submitted(a) ~> \/ case[a].locked
                    \/ case[a].status = "approved"
                    \/ RatedNoShow(a)
                    \/ UnexaminedAtPanel(a)
=============================================================================
