------------------------ MODULE PlantillaVacancy_proofs ------------------------
(***************************************************************************)
(* Proofs about PlantillaVacancy for any set of applications, either level *)
(* and any rescission cutoff: its types, the alignment of every case row,  *)
(* that nobody but the applicant of the standing selection is ever         *)
(* appointed, that the vacancy implements the abstract lifecycle, what a   *)
(* selection closes and keeps, and that the records a case rests on stay   *)
(* behind it.  The last part is about the requests that overlap at the     *)
(* authority (AuthorityRace), for any number of them.                      *)
(*                                                                         *)
(* What the operations both branches share keep is in CaseWorkflow_proofs, *)
(* with the standing selection as the set of those who may be appointed;   *)
(* the lemmas here add the report and the authority, action by action.     *)
(***************************************************************************)
EXTENDS AuthorityRace, CaseWorkflow_proofs, FiniteSetTheorems

(* The inductive invariant: the other variables have their types, every    *)
(* row is a good one, and only the selected applicant is appointed.        *)
RestOK == /\ RecordsOK
          /\ car \in CarReport
          /\ selection \in Apps \cup {NoApp}

IInv == RestOK /\ Standing(case, Selected)

USE BranchAssumption, LevelAssumption, PlantillaAssumption, OpenPoolAssumption,
    NoAppAssumption, CutoffAssumption
  DEF BranchAssumption, LevelAssumption, PlantillaAssumption, OpenPoolAssumption,
      NoAppAssumption, CutoffAssumption

-----------------------------------------------------------------------------
(* The report and the Appointing Authority *)

(* A step that leaves the report and the selection alone.                  *)
LEMMA SelectionStands ==
  ASSUME IInv, UNCHANGED <<car, selection>>, RecordsOK', Standing(case', Selected)
  PROVE  IInv'
  <1>1. Selected' = Selected
    BY DEF Selected
  <1> QED BY <1>1 DEF IInv, RestOK

(* A movement of cases, whatever becomes of the selection.                 *)
LEMMA AuthorityMovement ==
  ASSUME IInv, NEW to, Transition(to), RestOK',
         \A a \in Apps \cap DOMAIN to :
           to[a] \in GoodRows /\ (NotAppointed(to[a]) \/ a \in Selected'),
         \A a \in Apps \ DOMAIN to : NotAppointed(case[a]) \/ a \in Selected'
  PROVE  IInv'
  <1>1. Standing(case', Selected')
    BY Movement DEF IInv
  <1> QED BY <1>1 DEF IInv

(* Moving cases to the authority or back to the panel.                     *)
LEMMA ReviewMovement ==
  ASSUME IInv, RestOK', NEW moving \in SUBSET Apps, NEW status, NEW role,
         <<status, role>> \in {<<"hrmpsb_review", "hrmpsb_member">>,
           <<"appointing_authority_review", "appointing_authority">>},
         Transition([a \in moving |-> Moved(case[a], status, role)]),
         \A a \in Apps \ moving : NotAppointed(case[a]) \/ a \in Selected'
  PROVE  IInv'
  <1> DEFINE to == [a \in moving |-> Moved(case[a], status, role)]
  <1>1. \A a \in Apps \cap DOMAIN to : to[a] \in GoodRows
                                      /\ (NotAppointed(to[a]) \/ a \in Selected')
    <2> SUFFICES ASSUME NEW a \in moving
                 PROVE  /\ Moved(case[a], status, role) \in GoodRows
                        /\ NotAppointed(Moved(case[a], status, role))
      OBVIOUS
    <2>1. case[a] \in CaseRow
      BY DEF IInv, Standing, GoodRows
    <2> QED BY <2>1, MovedToPanel, MovedToAuthority
  <1>2. Transition(to) /\ DOMAIN to = moving
    OBVIOUS
  <1> HIDE DEF to
  <1> QED BY <1>1, <1>2, AuthorityMovement

LEMMA DraftCarStep ==
  ASSUME IInv, DraftCar
  PROVE  IInv'
  <1>1. RestOK' /\ Selected' = Selected /\ case' = case
    BY DEF DraftCar, IInv, RestOK, RecordsOK, CarReport, Selected
  <1> QED BY <1>1 DEF IInv

LEMMA FinalizeCarStep ==
  ASSUME IInv, FinalizeCar
  PROVE  IInv'
  <1>1. RestOK' /\ AtPanel \in SUBSET Apps
    BY DEF FinalizeCar, IInv, RestOK, RecordsOK, CarReport, AtPanel
  <1>2. \A a \in Apps \ AtPanel : NotAppointed(case[a]) \/ a \in Selected'
    BY DEF FinalizeCar, IInv, Standing, Selected
  <1> QED BY <1>1, <1>2, ReviewMovement DEF FinalizeCar, ToAuthority

LEMMA ReturnCarStep ==
  ASSUME IInv, ReturnCar
  PROVE  IInv'
  <1>1. RestOK' /\ Contenders \in SUBSET Apps
    BY DEF ReturnCar, IInv, RestOK, RecordsOK, CarReport, Contenders
  <1>2. \A a \in Apps \ Contenders : NotAppointed(case[a]) \/ a \in Selected'
    BY DEF ReturnCar, IInv, Standing, Selected
  <1> QED BY <1>1, <1>2, ReviewMovement DEF ReturnCar, ToPanel

(* What the authority holds is open.                                       *)
LEMMA ContendersAreOpen ==
  ASSUME IInv, CanDecide
  PROVE  /\ Contenders \in SUBSET Apps
         /\ \A a \in Contenders : case[a].caseStatus \in {"active", "awaiting"}
  <1>1. Contenders \in SUBSET Apps
    BY DEF Contenders, IInv, RestOK, CarReport
  <1>2. \A a \in Apps : WithAuthority(a) =>
          case[a].caseStatus \in {"active", "awaiting"}
    BY HeldCaseIsOpen DEF WithAuthority, IInv, Standing, Roles
  <1> QED BY <1>1, <1>2 DEF CanDecide

LEMMA NoAppointmentStep ==
  ASSUME IInv, RecordNoAppointment
  PROVE  IInv'
  <1>1. RecordsOK /\ Standing(case, Selected) /\ RecordsOK' /\ UNCHANGED <<car, selection>>
    BY DEF RecordNoAppointment, IInv, RestOK, RecordsOK
  <1>2. CanDecide /\ CloseAll(Contenders, "rejected")
    BY DEF RecordNoAppointment
  <1>3. Standing(case', Selected)
    BY <1>1, <1>2, ContendersAreOpen, ClosingStep
  <1> QED BY <1>1, <1>3, SelectionStands

(* Nobody is appointed before the decision, so the winner is the only one  *)
(* after it.                                                               *)
LEMMA SelectionStep ==
  ASSUME IInv, NEW winner \in Apps, RecordFinalSelection(winner)
  PROVE  IInv'
  <1> DEFINE to == [a \in Contenders |->
                      IF a = winner THEN Moved(case[a], "approved", CompletionOwner(Level))
                                    ELSE Moved(case[a], "rejected", Blank)]
  <1>1. \A a \in Apps : case[a] \in GoodRows /\ case[a] \in CaseRow
                          /\ NotAppointed(case[a])
    BY DEF RecordFinalSelection, CanDecide, IInv, Standing, Selected, GoodRows
  <1>2. RestOK'
    <2> DEFINE completion == Restarted(file[winner].completion)
    <2>1. [file[winner] EXCEPT !.completion = completion] \in ApplicationFile
      BY FileFields DEF ApplicationFile, CompletionRecord, Restarted, IInv, RestOK
    <2>2. file' = [file EXCEPT ![winner] =
                     [file[winner] EXCEPT !.completion = completion]]
      BY DEF RecordFinalSelection, IInv, RestOK, RecordsOK
    <2> HIDE DEF completion
    <2> QED BY <2>1, <2>2 DEF RecordFinalSelection, IInv, RestOK, RecordsOK
  <1>5. winner \in Selected'
    BY DEF RecordFinalSelection, Selected
  <1>3. \A a \in Apps \cap DOMAIN to : to[a] \in GoodRows
                                      /\ (NotAppointed(to[a]) \/ a \in Selected')
    <2> SUFFICES ASSUME NEW a \in Contenders
                 PROVE  to[a] \in GoodRows /\ (NotAppointed(to[a]) \/ a \in Selected')
      OBVIOUS
    <2>1. a \in Apps /\ case[a].caseStatus \in {"active", "awaiting"}
      BY ContendersAreOpen DEF RecordFinalSelection
    <2>2. CASE a = winner
      BY <1>1, <1>5, <2>1, <2>2, MovedToCompletion
    <2>3. CASE a # winner
      <3>1. /\ Moved(case[a], "rejected", Blank) \in GoodRows
            /\ NotAppointed(Moved(case[a], "rejected", Blank))
        BY <1>1, <2>1, ClosedRow
      <3> QED BY <2>3, <3>1
    <2> QED BY <2>2, <2>3
  <1>4. Transition(to)
    BY DEF RecordFinalSelection, SelectionOf
  <1> HIDE DEF to
  <1> QED BY <1>1, <1>2, <1>3, <1>4, AuthorityMovement

LEMMA RescindStep ==
  ASSUME IInv, RescindFinalSelection
  PROVE  IInv'
  <1>1. selection \in Apps /\ Restored \in SUBSET Apps
    BY DEF RescindFinalSelection, CanRescind, Restored, IInv, RestOK, CarReport
  <1>2. RestOK'
    <2> DEFINE completion == Voided(file[selection].completion)
    <2>1. [file[selection] EXCEPT !.completion = completion] \in ApplicationFile
      BY <1>1, FileFields DEF ApplicationFile, CompletionRecord, Voided, IInv, RestOK
    <2>2. file' = [file EXCEPT ![selection] =
                     [file[selection] EXCEPT !.completion = completion]]
      BY <1>1 DEF RescindFinalSelection, IInv, RestOK, RecordsOK
    <2> HIDE DEF completion
    <2> QED BY <1>1, <2>1, <2>2 DEF RescindFinalSelection, IInv, RestOK, RecordsOK
  <1>3. \A a \in Apps \ Restored : NotAppointed(case[a])
    BY DEF Restored, IInv, Standing, Selected
  <1>4. Transition([a \in Restored |-> Moved(case[a], "appointing_authority_review",
                                                      "appointing_authority")])
    BY DEF RescindFinalSelection, ToAuthority
  <1> QED BY <1>1, <1>2, <1>3, <1>4, ReviewMovement

-----------------------------------------------------------------------------
(* The invariant *)

LEMMA InitInvariant == Init => IInv
  <1> SUFFICES ASSUME Init PROVE IInv
    OBVIOUS
  <1>1. RecordsOK /\ Standing(case, Selected)
    BY InitialCases DEF Init
  <1>2. car \in CarReport /\ selection \in Apps \cup {NoApp}
    BY DEF Init, CarReport
  <1> QED BY <1>1, <1>2 DEF IInv, RestOK

LEMMA ReportedApps ==
  ASSUME IInv
  PROVE  Reported \in SUBSET Apps
  BY DEF Reported, IInv, RestOK, CarReport

LEMMA CaseStepInvariant ==
  ASSUME IInv, UNCHANGED <<car, selection>>, CaseStep(Selected, Reported)
  PROVE  IInv'
  <1>1. RecordsOK' /\ Standing(case', Selected)
    BY ReportedApps, CaseStepKeeps DEF IInv, RestOK
  <1> QED BY <1>1, SelectionStands


-----------------------------------------------------------------------------
(* Every reachable state of the vacancy satisfies the inductive invariant: *)
(* whatever the offices, the panel, the authority and the applicants do,   *)
(* in whatever order (the services of the Plantilla branch).               *)
THEOREM Invariance == Spec => []IInv
  <1>1. IInv /\ [Next]_vars => IInv'
    <2> SUFFICES ASSUME IInv, [Next]_vars PROVE IInv'
      OBVIOUS
    <2>1. CASE CaseStep(Selected, Reported) /\ UNCHANGED <<car, selection>>
      BY <2>1, CaseStepInvariant
    <2>2. CASE DraftCar
      BY <2>2, DraftCarStep
    <2>3. CASE FinalizeCar
      BY <2>3, FinalizeCarStep
    <2>4. CASE ReturnCar
      BY <2>4, ReturnCarStep
    <2>5. CASE RecordNoAppointment
      BY <2>5, NoAppointmentStep
    <2>6. CASE \E winner \in Apps : RecordFinalSelection(winner)
      BY <2>6, SelectionStep
    <2>7. CASE RescindFinalSelection
      BY <2>7, RescindStep
    <2>8. CASE UNCHANGED vars
      BY <2>8 DEF vars, IInv, RestOK, RecordsOK, Standing, Selected
    <2> QED BY <2>1, <2>2, <2>3, <2>4, <2>5, <2>6, <2>7, <2>8
            DEF Next, AuthorityPage
  <1> QED BY InitInvariant, <1>1, PTL DEF Spec

(* Every variable keeps its type: no stage, status or holder outside the   *)
(* source's enumerations is ever written (models.py, the enumerations).    *)
THEOREM TypeCorrect == Spec => []TypeOK
  <1>1. IInv => TypeOK
    BY DEF IInv, RestOK, RecordsOK, Standing, Selected, TypeOK, CaseTypeOK, GoodRows, FinalSelection
  <1> QED BY Invariance, <1>1, PTL

(* For any number of applications at either level, the status, the stage,  *)
(* the lock and the holder of every case agree and the stage is one of its *)
(* branch and level (routing.transition_case and all its callers).         *)
THEOREM Aligned == Spec => []CaseAlignment
  <1>1. IInv => CaseAlignment
    BY DEF IInv, Standing, Selected, GoodRows, CaseAlignment
  <1> QED BY Invariance, <1>1, PTL

(* For any number of applications, whoever is approved, in completion or   *)
(* was closed there is the applicant of the selection that stands, so at   *)
(* most one is (selection.record_final_selection and its rescission).      *)
THEOREM OnlyTheSelectedIsAppointed == Spec => []AppointedIsSelected
  <1>1. IInv => AppointedIsSelected
    BY DEF IInv, Standing, Selected, NotAppointed, AppointedIsSelected
  <1> QED BY Invariance, <1>1, PTL
-----------------------------------------------------------------------------
(* The lifecycle *)

Mapped == <<Phases, Selected>>

AbstractStep == Lifecycle!Next \/ UNCHANGED Mapped

(* The phase of an application in a state of the invariant.                *)
LEMMA PhaseNow ==
  ASSUME IInv, NEW a \in Apps
  PROVE  /\ case[a] \in GoodRows /\ case[a] \in CaseRow /\ case[a].status \in Statuses
         /\ Phases[a] = Phase(case[a].status)
         /\ Phases[a] = "open" <=> /\ case[a].caseStatus \in {"active", "awaiting"}
                                   /\ case[a].stage # "completion"
         /\ case[a].status = "approved" => a = selection
         /\ case[a].stage = "completion" => a = selection
  BY PhaseAt DEF IInv, Selected

(* What an office may process is open.                                     *)
LEMMA ProcessedHere ==
  ASSUME IInv, NEW a \in Apps, NEW role \in Roles, CanProcess(role, a)
  PROVE  /\ case[a].caseStatus \in {"active", "awaiting"}
         /\ case[a] \in GoodRows
  BY ProcessedIsOpen DEF IInv

LEMMA WithPhases ==
  ASSUME NEW moved, NEW p
  PROVE  PhasesWith(moved, p) = Lifecycle!MovedTo(moved, p)
  BY DEF PhasesWith, Lifecycle!MovedTo

(* What the shared operations do is a step of the lifecycle: it asks of    *)
(* them what LifecycleMove says.                                           *)
LEMMA MoveOfTheLifecycle ==
  ASSUME LifecycleMove(Selected), selection' = selection
  PROVE  AbstractStep
  <1>1. Selected' = Selected
    BY DEF Selected
  <1>2. Lifecycle!In("open") = {a \in Apps : Phases[a] = "open"}
    BY DEF Lifecycle!In
  <1>3. CASE Phases' = Phases
    BY <1>1, <1>3 DEF AbstractStep, Mapped
  <1>4. ASSUME NEW a \in Apps, Phases[a] = "draft", Phases' = PhasesWith({a}, "open")
        PROVE  AbstractStep
    <2>1. Lifecycle!Submit(a)
      BY <1>1, <1>4, WithPhases DEF Lifecycle!Submit
    <2> QED
      BY <2>1 DEF AbstractStep, Lifecycle!Next
  <1>5. ASSUME NEW a \in Apps, Phases[a] = "open", Phases' = PhasesWith({a}, "withdrawn")
        PROVE  AbstractStep
    <2>1. Lifecycle!Withdraw(a)
      BY <1>1, <1>5, WithPhases DEF Lifecycle!Withdraw
    <2> QED
      BY <2>1 DEF AbstractStep, Lifecycle!Next
  <1>6. ASSUME NEW out \in SUBSET Apps, \A a \in out : Phases[a] = "open",
               Phases' = PhasesWith(out, "rejected")
        PROVE  AbstractStep
    <2>1. Lifecycle!Reject(out)
      BY <1>1, <1>2, <1>6, WithPhases DEF Lifecycle!Reject
    <2> QED
      BY <2>1 DEF AbstractStep, Lifecycle!Next
  <1>7. CASE /\ Selected = {}
             /\ Phases' = PhasesWith({a \in Apps : Phases[a] = "open"}, "vacancy_cancelled")
    <2>1. Lifecycle!Cancel
      BY <1>1, <1>2, <1>7, WithPhases DEF Lifecycle!Cancel
    <2> QED
      BY <2>1 DEF AbstractStep, Lifecycle!Next
  <1>8. ASSUME NEW a \in Apps, NEW p \in {"open", "appointed"}, Phases[a] \in Exits,
               Selected = {} \/ a \in Selected, p = "appointed" => a \in Selected,
               Phases' = PhasesWith({a}, p)
        PROVE  AbstractStep
    <2>1. Lifecycle!Reopen(a)
      BY <1>1, <1>8, WithPhases DEF Lifecycle!Reopen, Lifecycle!Exits, Exits
    <2> QED
      BY <2>1 DEF AbstractStep, Lifecycle!Next
  <1>9. ASSUME NEW a \in Selected \cap Apps, Phases[a] = "appointed",
               Phases' = PhasesWith({a}, "rejected")
        PROVE  AbstractStep
    <2>1. Lifecycle!Drop(a)
      BY <1>1, <1>9, WithPhases DEF Lifecycle!Drop
    <2> QED
      BY <2>1 DEF AbstractStep, Lifecycle!Next
  <1> QED
    BY <1>3, <1>4, <1>5, <1>6, <1>7, <1>8, <1>9 DEF LifecycleMove

(* Open cases rejected together.                                           *)
LEMMA Rejection ==
  ASSUME IInv, NEW out \in SUBSET Apps, selection' = selection,
         \A a \in out : Phases[a] = "open",
         Phases' = PhasesWith(out, "rejected")
  PROVE  AbstractStep
  BY MoveOfTheLifecycle DEF LifecycleMove


(* Cases that move within a phase.                                         *)
LEMMA MovedWithin ==
  ASSUME IInv, NEW to, Transition(to), selection' = selection,
         \A a \in Apps \cap DOMAIN to : Phase(to[a].status) = Phases[a]
  PROVE  AbstractStep
  <1>1. LifecycleMove(Selected)
    BY SamePhase DEF IInv
  <1> QED
    BY <1>1, MoveOfTheLifecycle

(* Cases in review go to another review.                                   *)
LEMMA ReviewPhases ==
  ASSUME IInv, UNCHANGED selection, NEW moving \in SUBSET Apps, NEW status \in ReviewStages,
         NEW role, Transition([a \in moving |-> Moved(case[a], status, role)]),
         \A a \in moving : case[a].status \in ReviewStages
  PROVE  AbstractStep
  <1> DEFINE to == [a \in moving |-> Moved(case[a], status, role)]
  <1>1. status \in Statuses /\ Phase(status) = "open"
    BY PhaseOf DEF Statuses
  <1>2. \A a \in moving : to[a].status = status
    BY PhaseNow, MovedStatus
  <1>3. \A a \in moving : Phases[a] = "open"
    BY PhaseNow, PhaseOf
  <1>4. Transition(to) /\ DOMAIN to = moving
    OBVIOUS
  <1> HIDE DEF to
  <1> QED
    BY <1>1, <1>2, <1>3, <1>4, MovedWithin

(* What the authority decides on is open.                                  *)
LEMMA ContendersInReview ==
  ASSUME IInv, CanDecide
  PROVE  /\ Contenders \in SUBSET Apps
         /\ \A a \in Contenders : case[a].status \in ReviewStages /\ Phases[a] = "open"
         /\ Selected = {}
  <1>1. Contenders \in SUBSET Apps
    BY DEF Contenders, IInv, RestOK, RecordsOK, CarReport
  <1>2. \A a \in Contenders : case[a].status = "appointing_authority_review"
    BY DEF CanDecide, WithAuthority
  <1> QED
    BY <1>1, <1>2, PhaseNow, PhaseOf DEF CanDecide, Selected, ReviewStages

LEMMA ReportPhases ==
  ASSUME IInv, FinalizeCar \/ ReturnCar
  PROVE  AbstractStep
  <1>1. CASE FinalizeCar
    <2>1. /\ UNCHANGED selection
          /\ Transition([a \in AtPanel |-> Moved(case[a], "appointing_authority_review",
                                                          "appointing_authority")])
      BY <1>1 DEF FinalizeCar, ToAuthority
    <2>2. /\ AtPanel \in SUBSET Apps
          /\ \A a \in AtPanel : case[a].status \in ReviewStages
      BY DEF AtPanel, ReviewStages
    <2>3. "appointing_authority_review" \in ReviewStages
      BY DEF ReviewStages
    <2> QED
      BY <2>1, <2>2, <2>3, ReviewPhases
  <1>2. CASE ReturnCar
    <2>1. /\ UNCHANGED selection
          /\ Transition([a \in Contenders |-> Moved(case[a], "hrmpsb_review",
                                                             "hrmpsb_member")])
      BY <1>2 DEF ReturnCar, ToPanel
    <2>2. /\ Contenders \in SUBSET Apps
          /\ \A a \in Contenders : case[a].status \in ReviewStages
      BY <1>2, ContendersInReview DEF ReturnCar
    <2>3. "hrmpsb_review" \in ReviewStages
      BY DEF ReviewStages
    <2> QED
      BY <2>1, <2>2, <2>3, ReviewPhases
  <1> QED
    BY <1>1, <1>2

LEMMA NoAppointmentPhases ==
  ASSUME IInv, RecordNoAppointment
  PROVE  AbstractStep
  <1>1. CanDecide /\ CloseAll(Contenders, "rejected") /\ selection' = selection
    BY DEF RecordNoAppointment
  <1>2. /\ Contenders \in SUBSET Apps
        /\ \A a \in Contenders : Phases[a] = "open"
    BY <1>1, ContendersInReview
  <1>3. Phases' = PhasesWith(Contenders, "rejected")
    BY <1>1, <1>2, AllClosed DEF Exits, IInv
  <1> QED
    BY <1>1, <1>2, <1>3, Rejection

(* The decision appoints one of the contenders and rejects the others.     *)
LEMMA SelectionPhases ==
  ASSUME IInv, NEW winner \in Apps, RecordFinalSelection(winner)
  PROVE  AbstractStep
  <1> DEFINE out == Contenders \ {winner}
             to == SelectionOf(winner)
  <1>1. /\ CanDecide /\ winner \in Contenders /\ selection' = winner
        /\ Transition(to)
    BY DEF RecordFinalSelection
  <1>2. /\ Contenders \in SUBSET Apps /\ Selected = {}
        /\ \A a \in Contenders : Phases[a] = "open"
    BY <1>1, ContendersInReview
  <1>3. /\ DOMAIN to = Contenders
        /\ \A a \in Contenders : to[a].status = IF a = winner THEN "approved" ELSE "rejected"
    <2>1. \A a \in Contenders : case[a] \in CaseRow
      BY <1>2, PhaseNow
    <2> QED
      BY <2>1, MovedStatus DEF SelectionOf
  <1>4. Phase("approved") = "appointed" /\ Phase("rejected") = "rejected"
    BY DEF Phase, ReviewStages, ScreeningStages
  <1> HIDE DEF to
  <1>5. Phases' = [b \in Apps |-> IF b = winner THEN "appointed"
                                  ELSE Lifecycle!MovedTo(out, "rejected")[b]]
    <2>1. \A b \in Apps : Phases'[b] =
            IF b = winner THEN "appointed"
            ELSE IF b \in out THEN "rejected" ELSE Phases[b]
      BY <1>1, <1>2, <1>3, <1>4 DEF Phases, Transition
    <2>2. \A b \in Apps : Lifecycle!MovedTo(out, "rejected")[b] =
                            IF b \in out THEN "rejected" ELSE Phases[b]
      BY DEF Lifecycle!MovedTo
    <2> QED
      BY <2>1, <2>2 DEF Phases
  <1>6. Selected' = Selected \cup {winner}
    BY <1>1, <1>2 DEF Selected
  <1>7. Lifecycle!Cardinality(Selected) < 1
    <2>1. Lifecycle!Cardinality({}) = Cardinality({})
      BY Zenon DEF Lifecycle!Cardinality, Cardinality
    <2> QED
      BY <1>2, <2>1, FS_EmptySet
  <1>8. out \subseteq Lifecycle!In("open") \ {winner}
    BY <1>2 DEF Lifecycle!In
  <1>9. Phases[winner] = "open" /\ winner \notin Selected /\ out \in SUBSET Apps
    BY <1>1, <1>2
  <1> HIDE DEF out
  <1>10. Lifecycle!Appoint(winner, out)
    BY <1>5, <1>6, <1>7, <1>8, <1>9 DEF Lifecycle!Appoint
  <1> QED
    BY <1>9, <1>10 DEF AbstractStep, Lifecycle!Next

(* A rescission brings back the appointee and, of the report, only those   *)
(* who were rejected.                                                      *)
LEMMA RescindPhases ==
  ASSUME IInv, RescindFinalSelection
  PROVE  AbstractStep
  <1> DEFINE back == Restored \ {selection}
             to == ToAuthority(Restored)
  <1>1. /\ selection # NoApp /\ selection' = NoApp /\ Transition(to)
    BY DEF RescindFinalSelection, CanRescind
  <1>2. selection \in Apps /\ Restored \in SUBSET Apps /\ selection \in Restored
    BY <1>1 DEF Restored, IInv, RestOK, RecordsOK, CarReport
  <1>3. \A a \in back : Phases[a] = "rejected"
    <2>1. \A a \in back : a \in Apps /\ case[a].caseStatus = "rejected"
      BY <1>2 DEF Restored
    <2>2. Phase("rejected") = "rejected"
      BY DEF Phase, ReviewStages, ScreeningStages
    <2> QED
      BY <2>1, <2>2, PhaseNow, RejectedRow
  <1>4. /\ DOMAIN to = Restored
        /\ \A a \in Restored : Phase(to[a].status) = "open"
    <2>1. \A a \in Restored : case[a] \in CaseRow
      BY <1>2, PhaseNow
    <2>2. Phase("appointing_authority_review") = "open"
      BY DEF Phase, ReviewStages, ScreeningStages
    <2> QED
      BY <2>1, <2>2, MovedStatus DEF ToAuthority
  <1> HIDE DEF to
  <1>5. Phases' = Lifecycle!MovedTo(Restored, "open")
    BY <1>1, <1>2, <1>4, NewPhase, WithPhases
  <1>6. Restored = {selection} \cup back
    BY <1>2
  <1>7. selection \in Selected /\ Selected' = Selected \ {selection}
    BY <1>1, <1>2 DEF Selected
  <1>8. back \subseteq Lifecycle!In("rejected") /\ back \in SUBSET Apps
    BY <1>2, <1>3 DEF Lifecycle!In
  <1> HIDE DEF back
  <1>9. Lifecycle!TakeBack(selection, back)
    BY <1>5, <1>6, <1>7, <1>8 DEF Lifecycle!TakeBack
  <1> QED
    BY <1>2, <1>8, <1>9 DEF AbstractStep, Lifecycle!Next

(* Every step of the vacancy is a step of the lifecycle or none at all.    *)
THEOREM StepSimulation ==
  ASSUME IInv, [Next]_vars
  PROVE  [Lifecycle!Next]_<<Phases, Selected>>
  <1> SUFFICES AbstractStep
    BY DEF AbstractStep, Mapped
  <1>1. CASE CaseStep(Selected, Reported) /\ UNCHANGED <<car, selection>>
    BY <1>1, ReportedApps, CaseStepPhases, MoveOfTheLifecycle DEF IInv
  <1>2. CASE DraftCar \/ UNCHANGED vars
    BY <1>2 DEF DraftCar, vars, AbstractStep, Mapped, Phases, Selected
  <1>3. CASE FinalizeCar \/ ReturnCar
    BY <1>3, ReportPhases
  <1>4. CASE AuthorityPage
    BY <1>4, NoAppointmentPhases, SelectionPhases DEF AuthorityPage
  <1>5. CASE RescindFinalSelection
    BY <1>5, RescindPhases
  <1> QED
    BY <1>1, <1>2, <1>3, <1>4, <1>5 DEF Next

(* The vacancy implements the lifecycle: whatever is done to any number of *)
(* applications, at either level, nobody is open, out or appointed but by  *)
(* a step the lifecycle names, and one appointment at most stands          *)
(* (routing.transition_case and every caller of it).                       *)
THEOREM ImplementsLifecycle == Spec => KeepsTheLifecycle
  <1>1. Init => Lifecycle!Init
    BY DEF Init, CaseInit, Lifecycle!Init, Phases, Phase, DraftCase, Selected,
           ReviewStages, ScreeningStages
  <1>2. IInv /\ [Next]_vars => [Lifecycle!Next]_<<Phases, Selected>>
    BY StepSimulation
  <1> QED
    BY <1>1, <1>2, Invariance, PTL
       DEF Spec, KeepsTheLifecycle, Lifecycle!Spec, Lifecycle!lifecycle

-----------------------------------------------------------------------------
(* Who moves: what the shared operations do, in a state of the invariant *)

LEMMA WhoMovesHere ==
  ASSUME IInv, NEW a \in Apps, CaseStep(Selected, Reported)
  PROVE  \/ case'[a] = case[a]
         \/ Phases[a] = "open"
         \/ SubmitApplication(a)
         \/ Reopen(a, Selected)
         \/ \E role \in Roles : \/ CloseCase(role, a)
                                \/ \E k \in Assessments : EndAfterAbsence(role, a, k)
  BY ReportedApps, WhoMoves DEF IInv

LEMMA ClosedStaysHere ==
  ASSUME IInv, NEW a \in Apps, CaseStep(Selected, Reported), case[a].locked
  PROVE  case'[a] = case[a] \/ Reopen(a, Selected)
  BY ReportedApps, ClosedStays DEF IInv

LEMMA ReopenedHere ==
  ASSUME IInv, NEW a \in Apps, Reopen(a, Selected)
  PROVE  /\ case'[a].stage = case[a].lockedStage
         /\ case[a].status = "approved" => case'[a].status = "approved"
  BY ReopenedAt DEF IInv

LEMMA CompletionHere ==
  ASSUME IInv, NEW a \in Apps, CaseStep(Selected, Reported)
  PROVE  file'[a].completion = file[a].completion \/ a = selection
  BY CompletionOfCases DEF IInv, RestOK, Selected

-----------------------------------------------------------------------------
(* The competition a selection decided *)

(* While a selection stands its report does, and the other candidates of   *)
(* it are closed, those not selected from the authority's step.            *)
CompetitionOK ==
  selection # NoApp =>
    /\ car.final
    /\ \A a \in car.items \ {selection} :
         /\ case[a].locked
         /\ case[a].caseStatus = "rejected" =>
              case[a].lockedStage = "appointing_authority_review"

(* The decision closes every contender but the winner from where they are. *)
LEMMA DecisionCloses ==
  ASSUME IInv, NEW winner \in Apps, RecordFinalSelection(winner),
         NEW a \in car.items, a # winner
  PROVE  /\ case'[a].locked
         /\ case'[a].caseStatus = "rejected" =>
              case'[a].lockedStage = "appointing_authority_review"
  <1>1. a \in Apps /\ Contenders \in SUBSET Apps
    BY DEF Contenders, IInv, RestOK, RecordsOK, CarReport
  <1>2. Transition(SelectionOf(winner)) /\ CanDecide
    BY DEF RecordFinalSelection
  <1>3. CASE a \in Contenders
    <2>1. case'[a] = Moved(case[a], "rejected", Blank)
      BY <1>1, <1>2, <1>3 DEF Transition, SelectionOf
    <2>2. Moved(case[a], "rejected", Blank) =
            [status |-> "rejected", stage |-> "closed", caseStatus |-> "rejected",
             handler |-> Blank, locked |-> TRUE, lockedStage |-> case[a].stage]
      BY DEF Moved, ReviewStages, ScreeningStages
    <2>3. case[a].stage = "appointing_authority_review"
      BY <1>2, <1>3 DEF CanDecide, WithAuthority
    <2> QED
      BY <2>1, <2>2, <2>3
  <1>4. CASE a \notin Contenders
    <2>1. case'[a] = case[a]
      BY <1>1, <1>2, <1>4 DEF Transition, SelectionOf
    <2>2. case[a].status \in {"withdrawn", "vacancy_cancelled"}
      BY <1>4 DEF Contenders
    <2>3. ClosedAs(case[a])
      BY <1>1, <2>2, PhaseNow DEF GoodRows, RowAligned
    <2> QED
      BY <2>1, <2>2, <2>3 DEF ClosedAs
  <1> QED
    BY <1>3, <1>4

(* The competition of a standing selection stays decided.                  *)
THEOREM CompetitionDecided == Spec => [](IInv /\ CompetitionOK)
  <1>1. Init => CompetitionOK
    BY DEF Init, CompetitionOK
  <1>2. IInv /\ CompetitionOK /\ [Next]_vars => CompetitionOK'
    <2> SUFFICES ASSUME IInv, CompetitionOK, [Next]_vars, selection' # NoApp
                 PROVE  /\ car'.final
                        /\ \A a \in car'.items \ {selection'} :
                             /\ case'[a].locked
                             /\ case'[a].caseStatus = "rejected" =>
                                  case'[a].lockedStage = "appointing_authority_review"
      BY DEF CompetitionOK
    <2>1. CASE CaseStep(Selected, Reported) /\ UNCHANGED <<car, selection>>
      <3>1. ASSUME NEW a \in car.items, a # selection
            PROVE  case'[a] = case[a]
        <4>1. a \in Apps /\ a \notin Selected /\ Selected # {} /\ case[a].locked
          BY <2>1, <3>1 DEF IInv, RestOK, RecordsOK, CarReport, Selected, CompetitionOK
        <4>2. ~Reopen(a, Selected)
          BY <4>1 DEF Reopen, CanReopen, CompetitionAllows
        <4> QED
          BY <2>1, <4>1, <4>2, ClosedStaysHere
      <3> QED
        BY <2>1, <3>1 DEF CompetitionOK
    <2>2. CASE DraftCar \/ FinalizeCar
      BY <2>2 DEF DraftCar, FinalizeCar, CanFinalizeCar, CanPrepareCar, CompetitionOK
    <2>3. CASE ReturnCar \/ RecordNoAppointment \/ RescindFinalSelection
      BY <2>3 DEF ReturnCar, RecordNoAppointment, CanDecide, RescindFinalSelection
    <2>4. ASSUME NEW winner \in Apps, RecordFinalSelection(winner)
          PROVE  /\ car'.final
                 /\ \A a \in car'.items \ {selection'} :
                      /\ case'[a].locked
                      /\ case'[a].caseStatus = "rejected" =>
                           case'[a].lockedStage = "appointing_authority_review"
      <3>1. car' = car /\ car.final /\ selection' = winner
        BY <2>4 DEF RecordFinalSelection, CanDecide
      <3> QED
        BY <2>4, <3>1, DecisionCloses
    <2>5. CASE UNCHANGED vars
      BY <2>5 DEF vars, CompetitionOK
    <2> QED
      BY <2>1, <2>2, <2>3, <2>4, <2>5 DEF Next, AuthorityPage
  <1> QED
    BY <1>1, <1>2, Invariance, PTL DEF Spec

(* For any number of candidates, nobody of the report is open while the    *)
(* selection stands: loans, reopenings, the maintenance command and        *)
(* absences included (selection._close_car_item_as_non_selected, RD-7 in   *)
(* reopen.py).                                                             *)
THEOREM TheOthersStayClosed == Spec => []NotSelectedStayClosed
  <1>1. CompetitionOK => NotSelectedStayClosed
    BY DEF CompetitionOK, NotSelectedStayClosed
  <1> QED
    BY <1>1, CompetitionDecided, PTL

(* The authority's steps move cases it holds, or that are with the panel.  *)
LEMMA WhoMovesAtAuthority ==
  ASSUME IInv, NEW a \in Apps,
         FinalizeCar \/ ReturnCar \/ AuthorityPage
  PROVE  case'[a] = case[a] \/ Phases[a] = "open"
  <1>1. CASE FinalizeCar
    <2>1. a \in AtPanel => case[a].status \in ReviewStages
      BY DEF AtPanel, ReviewStages
    <2>2. a \in AtPanel => Phases[a] = "open"
      BY <2>1, PhaseNow, PhaseOf
    <2> QED
      BY <1>1, <2>2 DEF FinalizeCar, Transition, ToAuthority
  <1>2. CASE ReturnCar \/ AuthorityPage
    <2>1. CanDecide
      BY <1>2 DEF ReturnCar, AuthorityPage, RecordNoAppointment, RecordFinalSelection
    <2>2. a \in Contenders => Phases[a] = "open"
      BY <2>1, ContendersInReview
    <2>3. CASE ReturnCar
      BY <2>2, <2>3 DEF ReturnCar, Transition, ToPanel
    <2>4. CASE RecordNoAppointment
      BY <2>2, <2>4 DEF RecordNoAppointment, CloseAll, Transition
    <2>5. ASSUME NEW winner \in Apps, RecordFinalSelection(winner)
          PROVE  case'[a] = case[a] \/ Phases[a] = "open"
      <3>1. Transition(SelectionOf(winner))
        BY <2>5 DEF RecordFinalSelection
      <3> QED
        BY <2>2, <3>1 DEF Transition, SelectionOf
    <2> QED
      BY <1>2, <2>3, <2>4, <2>5 DEF AuthorityPage
  <1> QED
    BY <1>1, <1>2

(* For any number of applications, a closed case comes back only to the    *)
(* step it was closed at, those a rescission restores included             *)
(* (reopen_recruitment_case, rescind_final_selection).                     *)
THEOREM BackWhereTheyLeft == Spec => ReopenedWhereItLeft
  <1>1. ASSUME IInv, CompetitionOK, [Next]_vars, NEW a \in Apps,
               case[a].locked, ~case'[a].locked, a # selection
        PROVE  case'[a].stage = case[a].lockedStage
    <2>1. Phases[a] # "open"
      BY <1>1, PhaseNow, OpenCase
    <2>2. CASE CaseStep(Selected, Reported)
      BY <1>1, <2>2, ClosedStaysHere, ReopenedHere
    <2>3. CASE FinalizeCar \/ ReturnCar \/ AuthorityPage
      BY <1>1, <2>1, <2>3, WhoMovesAtAuthority
    <2>4. CASE RescindFinalSelection
      <3>1. Transition(ToAuthority(Restored)) /\ selection # NoApp
        BY <2>4 DEF RescindFinalSelection, CanRescind
      <3>2. a \in Restored
        BY <1>1, <3>1 DEF Transition, ToAuthority
      <3>3. a \in car.items /\ case[a].caseStatus = "rejected"
        BY <1>1, <3>2 DEF Restored
      <3>4. case[a].lockedStage = "appointing_authority_review"
        BY <1>1, <3>1, <3>3 DEF CompetitionOK
      <3>5. case'[a] = Moved(case[a], "appointing_authority_review", "appointing_authority")
        BY <3>1, <3>2 DEF Transition, ToAuthority
      <3>6. Moved(case[a], "appointing_authority_review", "appointing_authority").stage
              = "appointing_authority_review"
        BY DEF Moved, ReviewStages
      <3> QED
        BY <3>4, <3>5, <3>6
    <2>5. CASE DraftCar \/ UNCHANGED vars
      BY <1>1, <2>5 DEF DraftCar, vars
    <2> QED
      BY <1>1, <2>2, <2>3, <2>4, <2>5 DEF Next
  <1>2. IInv /\ CompetitionOK /\ [Next]_vars =>
          \A a \in Apps : (case[a].locked /\ ~case'[a].locked /\ a # selection)
                            => case'[a].stage = case[a].lockedStage
    BY <1>1
  <1> QED
    BY <1>2, CompetitionDecided, PTL DEF Spec, ReopenedWhereItLeft

(* For any number of applications, the appointee with no absence left to   *)
(* decide stays approved for as long as the selection stands               *)
(* (intake.record_application_withdrawal, routing and reopen guards).      *)
THEOREM AppointeeKept == Spec => AppointeeStays
  <1>1. ASSUME IInv, [Next]_vars, selection # NoApp, selection' = selection,
               case[selection].status = "approved",
               \A k \in Assessments : file[selection].absence[k] = Blank
        PROVE  case'[selection].status = "approved"
    <2>1. selection \in Apps
      BY <1>1 DEF IInv, RestOK, RecordsOK
    <2>2. Phases[selection] = "appointed"
      BY <1>1, <2>1, PhaseNow, PhaseOf
    <2>3. CASE CaseStep(Selected, Reported)
      <3>1. ~SubmitApplication(selection)
        BY <1>1 DEF SubmitApplication, Submitted
      <3>2. ASSUME NEW role \in Roles, CloseCase(role, selection)
            PROVE  case'[selection].status = "approved"
        <4>1. case'[selection] = Moved(case[selection], "approved", Blank)
          BY <1>1, <2>1, <3>2, OneMoved DEF CloseCase
        <4> QED
          BY <1>1, <2>1, <4>1, PhaseNow, MovedStatus
      <3>3. ASSUME NEW role \in Roles, NEW k \in Assessments
            PROVE  ~EndAfterAbsence(role, selection, k)
        BY <1>1 DEF EndAfterAbsence, ReviewStages, ScreeningStages, Blank
      <3>4. Reopen(selection, Selected) => case'[selection].status = "approved"
        BY <1>1, <2>1, ReopenedHere
      <3> QED
        BY <1>1, <2>1, <2>2, <2>3, <3>1, <3>2, <3>3, <3>4, WhoMovesHere
    <2>4. CASE FinalizeCar \/ ReturnCar \/ AuthorityPage
      BY <1>1, <2>1, <2>2, <2>4, WhoMovesAtAuthority
    <2>5. CASE RescindFinalSelection
      BY <1>1, <2>5 DEF RescindFinalSelection
    <2>6. CASE DraftCar \/ UNCHANGED vars
      BY <1>1, <2>6 DEF DraftCar, vars
    <2> QED
      BY <1>1, <2>3, <2>4, <2>5, <2>6 DEF Next
  <1>2. IInv /\ [Next]_vars =>
          (( /\ selection # NoApp
             /\ selection' = selection
             /\ case[selection].status = "approved"
             /\ \A k \in Assessments : file[selection].absence[k] = Blank )
              => case'[selection].status = "approved")
    BY <1>1
  <1> QED
    BY <1>2, Invariance, PTL DEF Spec, AppointeeStays




(* For any number of applications and any cutoff, a live completion record *)
(* is the standing selection's: a rescission voids it in the same step and *)
(* the next selection of the same applicant starts a new one               *)
(* (selection._void_completion_record_for_rescission).                     *)
THEOREM CompletionIsTheSelections == Spec => []CompletionFollowsSelection
  <1> DEFINE live == {"tracked", "referenced", "ready"}
  <1>1. Init => CompletionFollowsSelection
    BY DEF Init, CaseInit, EmptyFile, CompletionFollowsSelection, Blank
  <1>2. IInv /\ CompletionFollowsSelection /\ [Next]_vars => CompletionFollowsSelection'
    <2> SUFFICES ASSUME IInv, CompletionFollowsSelection, [Next]_vars, NEW a \in Apps,
                        file'[a].completion \in live
                 PROVE  a = selection'
      BY DEF CompletionFollowsSelection
    <2>1. CASE CaseStep(Selected, Reported) /\ UNCHANGED <<car, selection>>
      BY <2>1, CompletionHere DEF CompletionFollowsSelection
    <2>2. CASE DraftCar \/ FinalizeCar \/ ReturnCar \/ RecordNoAppointment \/ UNCHANGED vars
      BY <2>2 DEF DraftCar, FinalizeCar, ReturnCar, RecordNoAppointment, vars,
                  CompletionFollowsSelection
    <2>3. ASSUME NEW winner \in Apps, RecordFinalSelection(winner)
          PROVE  a = selection'
      <3>1. selection = NoApp /\ selection' = winner
        BY <2>3 DEF RecordFinalSelection, CanDecide
      <3>2. file[a].completion \notin live
        BY <3>1 DEF CompletionFollowsSelection
      <3>3. a # winner => file'[a] = file[a]
        BY <2>3 DEF RecordFinalSelection, IInv, RestOK, RecordsOK
      <3> QED
        BY <3>1, <3>2, <3>3
    <2>4. CASE RescindFinalSelection
      <3>1. file' = [file EXCEPT ![selection] =
                       [file[selection] EXCEPT !.completion = Voided(@)]]
        BY <2>4 DEF RescindFinalSelection
      <3>2. Voided(file[selection].completion) \notin live
        BY DEF Voided, Blank
      <3>3. a # selection
        BY <3>1, <3>2 DEF IInv, RestOK, RecordsOK, ApplicationFile
      <3> QED
        BY <3>1, <3>3 DEF CompletionFollowsSelection, IInv, RestOK, RecordsOK
    <2> QED
      BY <2>1, <2>2, <2>3, <2>4 DEF Next, AuthorityPage
  <1> QED
    BY <1>1, <1>2, Invariance, PTL DEF Spec

-----------------------------------------------------------------------------
(* Level 2 cases of the Secretariat *)

(* For any number of applications, a Level 2 case in the Secretariat's     *)
(* hands has an active override through every loan, recall, return, exam,  *)
(* reopening and decision (routing hand-off and recall,                    *)
(* access.user_can_process_application).                                   *)
THEOREM SecretariatHasItsOverride == Spec => []SecretariatHoldsByOverride
  <1>1. Init => SecretariatHoldsByOverride
    BY DEF Init, CaseInit, DraftCase, Blank, SecretariatHoldsByOverride
  <1>2. IInv /\ SecretariatHoldsByOverride /\ [Next]_vars => SecretariatHoldsByOverride'
    <2> SUFFICES ASSUME IInv, SecretariatHoldsByOverride, [Next]_vars, Level = 2
                 PROVE  SecretariatHoldsByOverride'
      BY DEF SecretariatHoldsByOverride
    <2>1. CASE CaseStep(Selected, Reported)
      BY <2>1, OverridesOfCases, ReportedApps DEF IInv
    <2>2. ASSUME NEW to, Transition(to), UNCHANGED overrides,
                 \A a \in Apps \cap DOMAIN to : to[a].handler # "secretariat"
          PROVE  SecretariatHoldsByOverride'
      BY <2>2, OverridesFollow
    <2>3. ASSUME NEW a \in Apps
          PROVE  /\ Moved(case[a], "appointing_authority_review",
                          "appointing_authority").handler # "secretariat"
                 /\ Moved(case[a], "hrmpsb_review", "hrmpsb_member").handler # "secretariat"
                 /\ Moved(case[a], "rejected", Blank).handler # "secretariat"
                 /\ Moved(case[a], "approved", CompletionOwner(Level)).handler # "secretariat"
      BY <2>3, MovedHandler, PhaseNow DEF Blank, CompletionOwner
    <2>4. CASE FinalizeCar \/ RescindFinalSelection
      <3>1. UNCHANGED overrides /\ \E sent : Transition(ToAuthority(sent))
        BY <2>4 DEF FinalizeCar, RescindFinalSelection
      <3> QED
        BY <2>2, <2>3, <3>1 DEF ToAuthority
    <2>5. CASE ReturnCar
      BY <2>2, <2>3, <2>5 DEF ReturnCar, ToPanel
    <2>6. CASE RecordNoAppointment
      BY <2>2, <2>3, <2>6 DEF RecordNoAppointment, CloseAll
    <2>7. ASSUME NEW winner \in Apps, RecordFinalSelection(winner)
          PROVE  SecretariatHoldsByOverride'
      BY <2>2, <2>3, <2>7 DEF RecordFinalSelection, SelectionOf
    <2>8. CASE DraftCar \/ UNCHANGED vars
      BY <2>8 DEF DraftCar, vars, SecretariatHoldsByOverride
    <2> QED
      BY <2>1, <2>4, <2>5, <2>6, <2>7, <2>8 DEF Next, AuthorityPage
  <1> QED
    BY <1>1, <1>2, Invariance, PTL DEF Spec

-----------------------------------------------------------------------------
(* The records behind a case *)

Intake == IntakeStage(Level)

Late == {"appointing_authority_review", "completion"}

Verdict(f) == f.screening[Intake].verdict

ScreeningDone(row, f) ==
  /\ Verdict(f) # "qualified" => f.exam[Intake] = "open" /\ Place(row) \in {Blank, Intake}
  /\ Verdict(f) = "not_qualified" => row.locked
  /\ row.caseStatus \in {Blank, "awaiting"} => Verdict(f) = Blank

AbsencesFiled(row, f) ==
  /\ f.absence["examination"] \in {Blank, Intake}
  /\ f.absence["interview"] \in {Blank, "hrmpsb_review"}
  /\ f.absence["interview"] # Blank => f.session.absent
  /\ (row.caseStatus = "active" /\ row.stage = Intake /\ f.exam[Intake] # "open")
       => f.absence["examination"] = Intake
  /\ ( /\ row.caseStatus = "active"
       /\ row.stage = "hrmpsb_review"
       /\ f.session.state = "final"
       /\ f.session.absent ) => f.absence["interview"] = "hrmpsb_review"

SittingsDone(row, f) ==
  /\ Place(row) \in {Blank, Intake} => f.session.state = Blank /\ ~f.session.absent
  /\ Place(row) \in Late => /\ f.exam[Intake] \notin {"absent", "waived"}
                            /\ f.session.state = "final"
                            /\ ~f.session.absent

RecordsOf(row, f) == /\ ScreeningDone(row, f)
                     /\ AbsencesFiled(row, f)
                     /\ SittingsDone(row, f)

(* Nobody on a finalized report is back with the panel, and the selected   *)
(* applicant is on it.                                                     *)
RecordsKept == /\ \A a \in Apps : RecordsOf(case[a], file[a])
               /\ car.final => \A a \in car.items : Place(case[a]) \in Late
               /\ selection # NoApp => selection \in car.items

(* What a step owes every application.                                     *)
Advances(a) == /\ RecordsOf(case'[a], file'[a])
               /\ Place(case[a]) \in Late => Place(case'[a]) \in Late

-----------------------------------------------------------------------------
(* Stages and rows *)

LEMMA IntakeFacts ==
  /\ Intake \in ScreeningStages /\ Intake \in ReviewStages
  /\ Intake # Blank /\ Intake \notin Late
  /\ Intake # "hrmpsb_review" /\ Intake # "completion" /\ Intake # "closed"
  /\ StepStages(Branch, Level) = {Intake, "hrmpsb_review", "appointing_authority_review",
                                  "completion"}
  /\ \A s \in ScreeningStages : s \in StepStages(Branch, Level) => s = Intake
  <1>1. Intake \in {"secretariat_review", "hrm_chief_review"}
    BY DEF Intake, IntakeStage
  <1>2. StepStages(Branch, Level) = {Intake, "hrmpsb_review", "appointing_authority_review",
                                     "completion"}
    BY DEF Intake, StepStages
  <1> HIDE DEF Intake
  <1>3. \A s \in ScreeningStages : s \in StepStages(Branch, Level) => s = Intake
    BY <1>2 DEF ScreeningStages
  <1>4. Intake \in ScreeningStages /\ Intake \in ReviewStages
    BY <1>1 DEF ScreeningStages, ReviewStages
  <1>5. Intake # Blank /\ Intake \notin Late
    BY <1>1 DEF Blank, Late
  <1> QED
    BY <1>1, <1>2, <1>3, <1>4, <1>5

LEMMA Open ==
  ASSUME NEW row \in GoodRows, row.caseStatus \in {"active", "awaiting"}
  PROVE  /\ row \in CaseRow /\ ~row.locked /\ Place(row) = row.stage
         /\ row.stage \in StepStages(Branch, Level)
         /\ row.stage \in ScreeningStages => row.stage = Intake
         /\ row.caseStatus = "awaiting" => row.stage = Intake
  <1>1. row \in CaseRow /\ ~row.locked /\ row.stage \in StepStages(Branch, Level)
    BY OpenCase DEF GoodRows
  <1>2. row.caseStatus = "awaiting" => row.stage \in ScreeningStages
    BY AwaitingCase DEF AwaitingApplicant
  <1> QED
    BY <1>1, <1>2, IntakeFacts DEF Place

-----------------------------------------------------------------------------
(* Edits of a file *)

(* The parts RecordsOf looks at.                                           *)
LEMMA SameRecords ==
  ASSUME NEW row, NEW f, NEW g, RecordsOf(row, f),
         Verdict(g) = Verdict(f), g.exam = f.exam, g.session = f.session,
         g.absence = f.absence
  PROVE  RecordsOf(row, g)
  BY DEF RecordsOf, ScreeningDone, AbsencesFiled, SittingsDone

LEMMA FileParts ==
  ASSUME IInv, NEW a \in Apps
  PROVE  /\ file[a] \in ApplicationFile
         /\ file[a].screening \in [ScreeningStages -> ScreeningRecord]
         /\ file[a].screening[Intake] \in ScreeningRecord
         /\ file[a].exam \in [ScreeningStages -> ExamRecord]
         /\ file[a].session \in InterviewSession
         /\ file[a].session.absent \in BOOLEAN
         /\ DOMAIN file[a].absence = Assessments
  BY IntakeFacts DEF IInv, RestOK, RecordsOK, ApplicationFile, InterviewSession

LEMMA Untouched ==
  ASSUME RecordsKept, NEW a \in Apps, case'[a] = case[a], file'[a] = file[a]
  PROVE  Advances(a)
  BY DEF RecordsKept, Advances

LEMMA RowNow ==
  ASSUME IInv, RecordsKept, NEW a \in Apps
  PROVE  /\ case[a] \in GoodRows /\ case[a] \in CaseRow
         /\ RecordsOf(case[a], file[a])
         /\ file \in [Apps -> ApplicationFile]
  BY PhaseNow DEF RecordsKept, IInv, RestOK, RecordsOK

LEMMA ProcessedAt ==
  ASSUME IInv, NEW a \in Apps, NEW role \in Roles, CanProcess(role, a)
  PROVE  /\ case[a].caseStatus \in {"active", "awaiting"}
         /\ case[a] \in CaseRow /\ ~case[a].locked /\ Place(case[a]) = case[a].stage
         /\ case[a].stage \in ScreeningStages => case[a].stage = Intake
  BY ProcessedHere, Open

(* At the screening section nothing has been decided yet.                  *)
LEMMA AtScreening ==
  ASSUME IInv, RecordsKept, NEW a \in Apps, NEW role \in Roles, CanManageScreening(role, a)
  PROVE  /\ case[a].stage = Intake /\ ~case[a].locked /\ Place(case[a]) = Intake
         /\ case[a].caseStatus \in {"active", "awaiting"}
         /\ Verdict(file[a]) = Blank /\ file[a].exam[Intake] = "open"
  <1>1. /\ CanProcess(role, a) /\ case[a].stage \in ScreeningStages
        /\ AtSection(a, "screening")
    BY DEF CanManageScreening
  <1>2. /\ case[a].stage = Intake /\ ~case[a].locked /\ Place(case[a]) = Intake
        /\ case[a].caseStatus \in {"active", "awaiting"}
    BY <1>1, ProcessedAt
  <1>3. Verdict(file[a]) = Blank
    BY <1>1, <1>2 DEF AtSection, SectionComplete, Screening, Verdict
  <1>4. Verdict(file[a]) # "qualified"
    BY <1>3 DEF Blank
  <1> QED
    BY <1>2, <1>3, <1>4, RowNow DEF RecordsOf, ScreeningDone

(* An edit of the screening record of the stage.                           *)
LEMMA ScreeningEdit ==
  ASSUME IInv, NEW a \in Apps, NEW record,
         file' = [file EXCEPT ![a] = [file[a] EXCEPT !.screening =
                    [file[a].screening EXCEPT ![Intake] = record]]]
  PROVE  /\ Verdict(file'[a]) = record.verdict /\ file'[a].exam = file[a].exam
         /\ file'[a].session = file[a].session /\ file'[a].absence = file[a].absence
  <1> DEFINE f == file[a]
             edited == [f.screening EXCEPT ![Intake] = record]
  <1>1. file'[a] = [f EXCEPT !.screening = edited] /\ f \in ApplicationFile
    BY FileParts DEF IInv, RestOK, RecordsOK
  <1>2. edited[Intake] = record
    BY FileParts, IntakeFacts
  <1> HIDE DEF edited, f
  <1>3. /\ file'[a].screening = edited /\ file'[a].exam = f.exam
        /\ file'[a].session = f.session /\ file'[a].absence = f.absence
    BY <1>1 DEF ApplicationFile
  <1>4. Verdict(file'[a]) = record.verdict
    BY <1>2, <1>3 DEF Verdict
  <1> QED
    BY <1>3, <1>4 DEF f

LEMMA ScreeningKeeps ==
  ASSUME IInv, RecordsKept, NEW a \in Apps, NEW role \in Roles,
         ScreeningPage(role, a) \/ RemoveFromBatch(role, a)
  PROVE  Advances(a)
  <1> DEFINE f == file[a]
             g == file'[a]
             record == f.screening[Intake]
  <1>1. RecordsOf(case[a], f) /\ case[a] \in CaseRow
    BY RowNow
  <1>2. CanManageScreening(role, a)
    BY DEF ScreeningPage, SaveScreeningDraft, FinalizeQualified, FinalizeNotQualified,
           ReturnDocuments, RemoveFromBatch
  <1>3. /\ case[a].stage = Intake /\ ~case[a].locked /\ Place(case[a]) = Intake
        /\ case[a].caseStatus \in {"active", "awaiting"}
        /\ Verdict(f) = Blank /\ f.exam[Intake] = "open"
    BY <1>2, AtScreening
  <1>4. ASSUME NEW flagged \in BOOLEAN, SaveScreeningDraft(role, a, flagged)
        PROVE  Advances(a)
    <2> DEFINE new == [record EXCEPT !.flagged = flagged]
    <2>1. /\ file' = [file EXCEPT ![a] = [f EXCEPT !.screening =
                        [f.screening EXCEPT ![Intake] = new]]]
          /\ case' = case
      BY <1>3, <1>4 DEF SaveScreeningDraft
    <2>2. new.verdict = Verdict(f)
      BY FileParts DEF ScreeningRecord, Verdict
    <2> HIDE DEF new
    <2>3. Verdict(g) = Verdict(f) /\ g.exam = f.exam /\ g.session = f.session
            /\ g.absence = f.absence
      BY <2>1, <2>2, ScreeningEdit
    <2> HIDE DEF f, g, record
    <2>4. RecordsOf(case[a], g)
      BY <1>1, <2>3, SameRecords
    <2> QED
      BY <2>1, <2>4 DEF Advances, g
  <1>5. CASE FinalizeQualified(role, a)
    <2> DEFINE new == [verdict |-> "qualified", flagged |-> FALSE]
    <2>1. /\ file' = [file EXCEPT ![a] = [f EXCEPT !.screening =
                        [f.screening EXCEPT ![Intake] = new]]]
          /\ case' = case /\ case[a].caseStatus = "active"
      BY <1>3, <1>5 DEF FinalizeQualified
    <2>2. new.verdict = "qualified"
      OBVIOUS
    <2> HIDE DEF new
    <2>3. Verdict(g) = "qualified" /\ g.exam = f.exam /\ g.session = f.session
            /\ g.absence = f.absence
      BY <2>1, <2>2, ScreeningEdit
    <2> HIDE DEF f, g, record
    <2>4. RecordsOf(case[a], g)
      BY <1>1, <1>3, <2>1, <2>3
      DEF RecordsOf, ScreeningDone, AbsencesFiled, SittingsDone, Blank
    <2> QED
      BY <2>1, <2>4 DEF Advances, g
  <1>6. CASE FinalizeNotQualified(role, a)
    <2> DEFINE new == [record EXCEPT !.verdict = "not_qualified"]
               r == Moved(case[a], "rejected", Blank)
    <2>1. /\ file' = [file EXCEPT ![a] = [f EXCEPT !.screening =
                        [f.screening EXCEPT ![Intake] = new]]]
          /\ case'[a] = r
      BY <1>3, <1>6, OneMoved DEF FinalizeNotQualified
    <2>2. new.verdict = "not_qualified"
      BY FileParts DEF ScreeningRecord
    <2> HIDE DEF new
    <2>3. Verdict(g) = "not_qualified" /\ g.exam = f.exam /\ g.session = f.session
            /\ g.absence = f.absence
      BY <2>1, <2>2, ScreeningEdit
    <2>4. r.stage = "closed" /\ r.caseStatus = "rejected" /\ r.locked /\ Place(r) = Intake
      BY <1>3, ToClosed DEF Exits
    <2> HIDE DEF f, g, record, r
    <2>5. RecordsOf(r, g) /\ Place(case[a]) \notin Late
      BY <1>1, <1>3, <2>3, <2>4, IntakeFacts
      DEF RecordsOf, ScreeningDone, AbsencesFiled, SittingsDone, Blank
    <2> QED
      BY <2>1, <2>5 DEF Advances, g
  <1>7. CASE ReturnDocuments(role, a)
    <2> DEFINE new == [record EXCEPT !.flagged = TRUE]
               r == Moved(case[a], "returned", case[a].handler)
    <2>1. /\ file' = [file EXCEPT ![a] = [f EXCEPT !.screening =
                        [f.screening EXCEPT ![Intake] = new]]]
          /\ case'[a] = r
      BY <1>3, <1>7, OneMoved DEF ReturnDocuments
    <2>2. new.verdict = Blank
      BY <1>3, FileParts DEF ScreeningRecord, Verdict
    <2> HIDE DEF new
    <2>3. Verdict(g) = Blank /\ g.exam = f.exam /\ g.session = f.session
            /\ g.absence = f.absence
      BY <2>1, <2>2, ScreeningEdit
    <2>4. r.stage = Intake /\ r.caseStatus = "awaiting" /\ ~r.locked /\ Place(r) = Intake
      BY <1>1, <1>3, ToApplicant
    <2> HIDE DEF f, g, record, r
    <2>5. RecordsOf(r, g) /\ Place(case[a]) \notin Late
      BY <1>1, <1>3, <2>3, <2>4, IntakeFacts
      DEF RecordsOf, ScreeningDone, AbsencesFiled, SittingsDone, Blank
    <2> QED
      BY <2>1, <2>5 DEF Advances, g
  <1>8. CASE RemoveFromBatch(role, a)
    <2> DEFINE r == Moved(case[a], "rejected", Blank)
    <2>1. case'[a] = r /\ file' = file
      BY <1>8, OneMoved DEF RemoveFromBatch
    <2>2. r.stage = "closed" /\ r.caseStatus = "rejected" /\ r.locked /\ Place(r) = Intake
      BY <1>3, ToClosed DEF Exits
    <2> HIDE DEF r, f
    <2>3. RecordsOf(r, f) /\ Place(case[a]) \notin Late
      BY <1>1, <1>3, <2>2, IntakeFacts
      DEF RecordsOf, ScreeningDone, AbsencesFiled, SittingsDone, Blank
    <2> QED
      BY <2>1, <2>3 DEF Advances, f
  <1> QED
    BY <1>4, <1>5, <1>6, <1>7, <1>8 DEF ScreeningPage

-----------------------------------------------------------------------------
(* Movements *)

(* A case that is closed, whether or not an absence is decided with it.    *)
LEMMA ClosingKeeps ==
  ASSUME IInv, RecordsKept, NEW a \in Apps, NEW status \in Exits \cup {"approved"},
         case[a].caseStatus \in {"active", "awaiting"},
         case'[a] = Moved(case[a], status, Blank),
         Verdict(file'[a]) = Verdict(file[a]), file'[a].exam = file[a].exam,
         file'[a].session = file[a].session,
         \A k \in Assessments : file'[a].absence[k] \in {file[a].absence[k], Blank}
  PROVE  Advances(a)
  <1> DEFINE f == file[a]
             g == file'[a]
             row == case[a]
             r == case'[a]
  <1>1. RecordsOf(row, f) /\ ~row.locked /\ Place(row) = row.stage
    BY RowNow, Open
  <1>2. r.stage = "closed" /\ r.caseStatus = status /\ r.locked /\ Place(r) = row.stage
    BY ToClosed
  <1>3. /\ g.absence["examination"] \in {f.absence["examination"], Blank}
        /\ g.absence["interview"] \in {f.absence["interview"], Blank}
    BY DEF Assessments
  <1>4. "closed" # Intake /\ status \notin {Blank, "awaiting", "active"}
    BY IntakeFacts DEF Exits, Blank
  <1>5. Verdict(g) = Verdict(f) /\ g.exam = f.exam /\ g.session = f.session
    OBVIOUS
  <1> HIDE DEF f, g, row, r
  <1>6. ScreeningDone(r, g)
    BY <1>1, <1>2, <1>4, <1>5 DEF RecordsOf, ScreeningDone
  <1>7. AbsencesFiled(r, g)
    BY <1>1, <1>2, <1>3, <1>4, <1>5 DEF RecordsOf, AbsencesFiled
  <1>8. SittingsDone(r, g)
    BY <1>1, <1>2, <1>5 DEF RecordsOf, SittingsDone
  <1> QED
    BY <1>1, <1>2, <1>6, <1>7, <1>8 DEF Advances, RecordsOf, g, r, row

(* A case that changes hands where it is.                                  *)
LEMMA HandingKeeps ==
  ASSUME IInv, RecordsKept, NEW a \in Apps, NEW role,
         case[a].caseStatus \in {"active", "awaiting"}, case[a].stage = Intake,
         case'[a] = Moved(case[a], case[a].status, role), file'[a] = file[a]
  PROVE  Advances(a)
  <1> DEFINE f == file[a]
             row == case[a]
             r == case'[a]
  <1>1. /\ RecordsOf(row, f) /\ row \in GoodRows /\ row \in CaseRow
        /\ ~row.locked /\ Place(row) = Intake
    BY RowNow, Open
  <1>2. /\ row.caseStatus = "active" => row.status = Intake
        /\ row.caseStatus = "awaiting" => row.status = "returned"
    BY <1>1, OpenCase, AwaitingStatus, IntakeFacts
  <1>3. /\ r.stage = row.stage /\ r.caseStatus = row.caseStatus
        /\ ~r.locked /\ Place(r) = Place(row)
    BY <1>1, <1>2, ToReview, ToApplicant, IntakeFacts
  <1> HIDE DEF f, row, r
  <1>4. RecordsOf(r, f)
    BY <1>1, <1>3 DEF RecordsOf, ScreeningDone, AbsencesFiled, SittingsDone
  <1> QED
    BY <1>3, <1>4 DEF Advances, f, row, r

(* A case that leaves intake for the panel with its documents Qualified.   *)
LEMMA PanelReceives ==
  ASSUME IInv, RecordsKept, NEW a \in Apps, Place(case[a]) = Intake,
         case'[a] = Moved(case[a], "hrmpsb_review", "hrmpsb_member"),
         Verdict(file[a]) = "qualified",
         Verdict(file'[a]) = Verdict(file[a]), file'[a].session = file[a].session,
         file'[a].absence = file[a].absence
  PROVE  Advances(a)
  <1> DEFINE f == file[a]
             g == file'[a]
             row == case[a]
             r == case'[a]
  <1>1. RecordsOf(row, f) /\ Place(row) = Intake
    BY RowNow
  <1>2. /\ r.stage = "hrmpsb_review" /\ r.caseStatus = "active"
        /\ ~r.locked /\ Place(r) = "hrmpsb_review"
    BY ToReview DEF ReviewStages
  <1>3. Verdict(g) = "qualified" /\ g.session = f.session /\ g.absence = f.absence
    OBVIOUS
  <1> HIDE DEF f, g, row, r
  <1>4. f.session.state = Blank
    BY <1>1 DEF RecordsOf, SittingsDone
  <1>5. RecordsOf(r, g)
    BY <1>1, <1>2, <1>3, <1>4, IntakeFacts
    DEF RecordsOf, ScreeningDone, AbsencesFiled, SittingsDone, Blank, Late
  <1> QED
    BY <1>1, <1>5, IntakeFacts DEF Advances, g, row, r

-----------------------------------------------------------------------------
(* The exam *)

LEMMA AtExam ==
  ASSUME IInv, RecordsKept, NEW a \in ExamPool, NEW role \in Roles, CanManageExam(role, a)
  PROVE  /\ a \in Apps /\ case[a].stage = Intake /\ Place(case[a]) = Intake
         /\ case[a].caseStatus = "active" /\ ~case[a].locked
         /\ Verdict(file[a]) = "qualified" /\ file[a].exam[Intake] = "open"
  <1>1. /\ a \in Apps /\ case[a].caseStatus = "active" /\ AtSection(a, "exam")
        /\ case[a].stage \in ScreeningStages
    BY DEF ExamPool, ActiveUnlocked, CanManageExam
  <1>2. case[a].stage = Intake /\ Place(case[a]) = Intake /\ ~case[a].locked
    BY <1>1, RowNow, Open
  <1>3. SectionsAt(Branch, Intake) = {"screening", "exam"}
    BY IntakeFacts DEF SectionsAt, PlantillaSections, Late
  <1>4. SectionOrder["screening"] < SectionOrder["exam"]
    BY DEF SectionOrder
  <1>5. SectionComplete(a, "screening") /\ ~SectionComplete(a, "exam")
    BY <1>1, <1>2, <1>3, <1>4 DEF AtSection
  <1>6. Verdict(file[a]) # Blank /\ file[a].exam[Intake] = "open"
    BY <1>2, <1>5 DEF SectionComplete, Screening, Exam, Verdict
  <1>7. Verdict(file[a]) # "not_qualified"
    BY <1>1, <1>2, RowNow DEF RecordsOf, ScreeningDone
  <1>8. Verdict(file[a]) \in {Blank, "qualified", "not_qualified"}
    BY <1>1, FileParts DEF Verdict, ScreeningRecord
  <1> QED
    BY <1>1, <1>2, <1>6, <1>7, <1>8

LEMMA ExamResultFiled ==
  ASSUME IInv, RecordsKept, NEW a \in Apps, case[a].stage = Intake,
         NEW result \in {"completed", "absent", "waived"}
  PROVE  LET f == file[a]
             g == ExamFiled(a, result)
         IN  /\ g.screening = f.screening /\ g.session = f.session
             /\ g.exam[Intake] = result
             /\ g.absence["interview"] = f.absence["interview"]
             /\ g.absence["examination"] = IF result = "absent" THEN Intake
                                           ELSE f.absence["examination"]
             /\ result # "absent" => g.absence = f.absence
  <1> DEFINE f == file[a]
             filed == [f EXCEPT !.exam[Intake] = result]
             g == ExamFiled(a, result)
  <1>1. filed.screening = f.screening /\ filed.session = f.session
          /\ filed.absence = f.absence /\ filed.exam[Intake] = result
          /\ "absence" \in DOMAIN filed /\ DOMAIN f.absence = Assessments
    BY FileParts, IntakeFacts DEF ApplicationFile
  <1>2. g = IF result = "absent" THEN WithAbsence(filed, "examination", Intake) ELSE filed
    BY DEF ExamFiled
  <1>3. f.absence["examination"] \in {Blank, Intake}
    BY RowNow DEF RecordsOf, AbsencesFiled
  <1>4. Intake \in ReviewStages /\ Blank \notin ReviewStages
    BY IntakeFacts DEF ReviewStages, ScreeningStages, Blank
  <1> HIDE DEF filed, g, f
  <1>5. CASE result # "absent"
    BY <1>1, <1>2, <1>5 DEF f, g
  <1>6. CASE result = "absent" /\ f.absence["examination"] = Blank
    <2>1. g = [filed EXCEPT !.absence = [f.absence EXCEPT !["examination"] = Intake]]
      BY <1>1, <1>2, <1>4, <1>6 DEF WithAbsence
    <2>2. [f.absence EXCEPT !["examination"] = Intake]["examination"] = Intake
      BY <1>1 DEF Assessments
    <2>3. [f.absence EXCEPT !["examination"] = Intake]["interview"] = f.absence["interview"]
      BY <1>1 DEF Assessments
    <2>4. /\ g.screening = filed.screening /\ g.session = filed.session
          /\ g.exam = filed.exam
          /\ g.absence = [f.absence EXCEPT !["examination"] = Intake]
      BY <1>1, <2>1
    <2> QED
      BY <1>1, <1>6, <2>2, <2>3, <2>4 DEF f, g
  <1>7. CASE result = "absent" /\ f.absence["examination"] = Intake
    <2>1. g = filed
      BY <1>1, <1>2, <1>4, <1>7 DEF WithAbsence
    <2> QED
      BY <1>1, <1>7, <2>1 DEF f, g
  <1> QED
    BY <1>3, <1>5, <1>6, <1>7 DEF g, f

LEMMA ExamsKeep ==
  ASSUME IInv, RecordsKept, NEW a \in Apps, NEW role \in Roles,
         \/ ScheduleExam(role)
         \/ \E result \in [ExamPool -> {"completed", "absent", "waived"}] :
              FinalizeExams(role, result)
  PROVE  Advances(a)
  <1>1. RecordsOf(case[a], file[a])
    BY RowNow
  <1>2. CASE ScheduleExam(role)
    <2>1. /\ case' = case /\ Verdict(file'[a]) = Verdict(file[a])
          /\ file'[a].exam = file[a].exam /\ file'[a].session = file[a].session
          /\ file'[a].absence = file[a].absence
      BY <1>2, FileParts DEF ScheduleExam, Verdict, ApplicationFile
    <2>2. RecordsOf(case[a], file'[a])
      BY <1>1, <2>1, SameRecords
    <2> QED
      BY <2>1, <2>2 DEF Advances
  <1>3. ASSUME NEW result \in [ExamPool -> {"completed", "absent", "waived"}],
               FinalizeExams(role, result)
        PROVE  Advances(a)
    <2>1. CASE a \notin ExamPool
      BY <1>3, <2>1, Untouched DEF FinalizeExams, Transition
    <2>2. CASE a \in ExamPool
      <3> DEFINE f == file[a]
                 g == file'[a]
                 row == case[a]
      <3>1. CanManageExam(role, a) /\ g = ExamFiled(a, result[a])
              /\ case'[a] = AfterExamResult(a, result[a])
        BY <1>3, <2>2 DEF FinalizeExams, Transition
      <3>2. /\ row.stage = Intake /\ Place(row) = Intake
            /\ row.caseStatus = "active" /\ ~row.locked
            /\ Verdict(f) = "qualified"
        BY <2>2, <3>1, AtExam
      <3>3. /\ g.screening = f.screening /\ g.session = f.session
            /\ g.exam[Intake] = result[a]
            /\ g.absence["interview"] = f.absence["interview"]
            /\ g.absence["examination"] = IF result[a] = "absent" THEN Intake
                                          ELSE f.absence["examination"]
            /\ result[a] # "absent" => g.absence = f.absence
        BY <2>2, <3>1, <3>2, ExamResultFiled
      <3>4. Verdict(g) = Verdict(f)
        BY <3>3 DEF Verdict
      <3>5. CASE result[a] = "completed"
        <4>1. case'[a] = Moved(row, "hrmpsb_review", "hrmpsb_member")
          BY <3>1, <3>5 DEF AfterExamResult, AfterExam
        <4> QED
          BY <3>2, <3>3, <3>4, <3>5, <4>1, PanelReceives
      <3>6. CASE result[a] = "waived"
        <4>1. case'[a] = Moved(row, "rejected", Blank)
          BY <3>1, <3>6 DEF AfterExamResult
        <4>2. /\ case'[a].stage = "closed" /\ case'[a].caseStatus = "rejected"
              /\ case'[a].locked /\ Place(case'[a]) = Intake
          BY <3>2, <4>1, ToClosed DEF Exits
        <4> HIDE DEF f, g, row
        <4>3. RecordsOf(case'[a], g)
          BY <1>1, <3>2, <3>3, <3>4, <3>6, <4>2, IntakeFacts
          DEF RecordsOf, ScreeningDone, AbsencesFiled, SittingsDone, Blank, f, row
        <4> QED
          BY <3>2, <4>3, IntakeFacts DEF Advances, g, row
      <3>7. CASE result[a] = "absent"
        <4>1. case'[a] = row
          BY <3>1, <3>7 DEF AfterExamResult
        <4> HIDE DEF f, g, row
        <4>2. RecordsOf(row, g)
          BY <1>1, <3>2, <3>3, <3>4, <3>7, IntakeFacts
          DEF RecordsOf, ScreeningDone, AbsencesFiled, SittingsDone, Blank, f, row
        <4> QED
          BY <4>1, <4>2 DEF Advances, g, row
      <3> QED
        BY <2>2, <3>5, <3>6, <3>7
    <2> QED
      BY <2>1, <2>2
  <1> QED
    BY <1>2, <1>3

(* The maintenance command finds nobody of a finalized report at the panel. *)
LEMMA RepairKeeps ==
  ASSUME IInv, RecordsKept, NEW a \in Apps, Repair(Reported)
  PROVE  Advances(a)
  <1> DEFINE examined == {b \in Apps : /\ ActiveUnlocked(b)
                                       /\ LeavesAfterExam(case[b].stage)
                                       /\ Exam(b) # "open"}
             atPanel == {b \in Reported : /\ case[b].status = "hrmpsb_review"
                                          /\ case[b].handler = "hrmpsb_member"}
  <1>1. /\ Transition([b \in examined \cup atPanel |->
             IF b \in examined THEN AfterExam(b)
             ELSE Moved(case[b], "appointing_authority_review", "appointing_authority")])
        /\ file' = file
    BY DEF Repair
  <1>2. a \notin atPanel
    <2> SUFFICES ASSUME a \in atPanel PROVE FALSE
      OBVIOUS
    <2>1. Place(case[a]) \in Late /\ case[a].status = "hrmpsb_review"
      BY DEF Reported, RecordsKept
    <2>2. InReview(case[a])
      BY <2>1, RowNow DEF GoodRows, RowAligned, ReviewStages
    <2> QED
      BY <2>1, <2>2 DEF InReview, Place, Late
  <1>3. CASE a \in examined
    <2>1. /\ case[a].caseStatus = "active" /\ case[a].stage \in ScreeningStages
          /\ Exam(a) # "open"
      BY <1>3 DEF ActiveUnlocked, LeavesAfterExam
    <2>2. case[a].stage = Intake /\ Place(case[a]) = Intake
      BY <2>1, RowNow, Open
    <2>3. Verdict(file[a]) = "qualified"
      BY <2>1, <2>2, RowNow DEF RecordsOf, ScreeningDone, Exam
    <2> HIDE DEF examined, atPanel
    <2>4. case'[a] = AfterExam(a)
      BY <1>1, <1>3 DEF Transition
    <2>5. case'[a] = Moved(case[a], "hrmpsb_review", "hrmpsb_member")
      BY <2>4 DEF AfterExam
    <2> QED
      BY <1>1, <2>2, <2>3, <2>5, PanelReceives
  <1>4. CASE a \notin examined
    <2> HIDE DEF examined, atPanel
    <2> QED
      BY <1>1, <1>2, <1>4, Untouched DEF Transition
  <1> QED
    BY <1>3, <1>4

-----------------------------------------------------------------------------
(* The interview *)

LEMMA AtInterview ==
  ASSUME IInv, RecordsKept, NEW a \in Apps, case[a].stage = "hrmpsb_review",
         case[a].caseStatus = "active"
  PROVE  Place(case[a]) = "hrmpsb_review" /\ RecordsOf(case[a], file[a])
  BY RowNow, Open

(* An open session says nothing of the panel's step.                       *)
LEMMA OpenSessionKeeps ==
  ASSUME IInv, RecordsKept, NEW a \in Apps, case[a].stage = "hrmpsb_review",
         case[a].caseStatus = "active", case'[a] = case[a],
         Verdict(file'[a]) = Verdict(file[a]), file'[a].exam = file[a].exam,
         file'[a].absence = file[a].absence,
         file'[a].session.state # "final",
         file'[a].session.absent = file[a].session.absent
  PROVE  Advances(a)
  <1> DEFINE f == file[a]
             g == file'[a]
             row == case[a]
  <1>1. Place(row) = "hrmpsb_review" /\ RecordsOf(row, f) /\ row.stage = "hrmpsb_review"
    BY AtInterview
  <1>2. Verdict(g) = Verdict(f) /\ g.exam = f.exam /\ g.absence = f.absence
          /\ g.session.state # "final" /\ g.session.absent = f.session.absent
    OBVIOUS
  <1> HIDE DEF f, g, row
  <1>3. RecordsOf(row, g)
    BY <1>1, <1>2, IntakeFacts
    DEF RecordsOf, ScreeningDone, AbsencesFiled, SittingsDone, Blank, Late
  <1> QED
    BY <1>3 DEF Advances, g, row

LEMMA FinalSessionKeeps ==
  ASSUME IInv, RecordsKept, NEW a \in Apps, case[a].stage = "hrmpsb_review",
         case[a].caseStatus = "active", case'[a] = case[a],
         NEW absent \in BOOLEAN, file'[a] = SessionFinal(a, absent),
         file[a].session.absent => absent
  PROVE  Advances(a)
  <1> DEFINE f == file[a]
             g == file'[a]
             row == case[a]
             closed == [f EXCEPT !.session.state = "final", !.session.absent = absent]
  <1>1. Place(row) = "hrmpsb_review" /\ RecordsOf(row, f) /\ row.stage = "hrmpsb_review"
    BY AtInterview
  <1>2. /\ closed.screening = f.screening /\ closed.exam = f.exam
        /\ closed.absence = f.absence
        /\ "absence" \in DOMAIN closed /\ DOMAIN f.absence = Assessments
    BY FileParts DEF ApplicationFile
  <1>3. closed.session.state = "final" /\ (closed.session.absent <=> absent)
    <2> DEFINE session == [f.session EXCEPT !.state = "final", !.absent = absent]
    <2>1. session.state = "final" /\ (session.absent <=> absent)
      BY FileParts DEF InterviewSession
    <2>2. closed.session = session
      BY FileParts DEF ApplicationFile
    <2> QED
      BY <2>1, <2>2
  <1>4. g = IF absent THEN WithAbsence(closed, "interview", "hrmpsb_review") ELSE closed
    BY DEF SessionFinal
  <1>5. f.absence["interview"] \in {Blank, "hrmpsb_review"}
    BY <1>1 DEF RecordsOf, AbsencesFiled
  <1>6. file[a].session.absent => absent
    OBVIOUS
  <1> HIDE DEF f, g, row, closed
  <1>7. /\ g.screening = f.screening /\ g.exam = f.exam
        /\ g.session = closed.session
        /\ g.absence["examination"] = f.absence["examination"]
        /\ g.absence["interview"] = IF absent THEN "hrmpsb_review"
                                              ELSE f.absence["interview"]
    <2>1. CASE ~absent
      BY <1>2, <1>4, <2>1
    <2>2. CASE absent /\ f.absence["interview"] = Blank
      <3> DEFINE filed == [f.absence EXCEPT !["interview"] = "hrmpsb_review"]
      <3>1. g = [closed EXCEPT !.absence = filed]
        BY <1>2, <1>4, <2>2 DEF WithAbsence, ReviewStages, ScreeningStages, Blank
      <3>2. filed["interview"] = "hrmpsb_review"
              /\ filed["examination"] = f.absence["examination"]
        BY <1>2 DEF Assessments
      <3> HIDE DEF filed
      <3>3. /\ g.screening = closed.screening /\ g.exam = closed.exam
            /\ g.session = closed.session /\ g.absence = filed
        BY <1>2, <3>1
      <3> QED
        BY <1>2, <2>2, <3>2, <3>3
    <2>3. CASE absent /\ f.absence["interview"] = "hrmpsb_review"
      <3>1. g = closed
        BY <1>2, <1>4, <2>3 DEF WithAbsence, ReviewStages
      <3> QED
        BY <1>2, <2>3, <3>1
    <2> QED
      BY <1>5, <2>1, <2>2, <2>3
  <1>8. Verdict(g) = Verdict(f)
    BY <1>7 DEF Verdict
  <1>9. f.session.absent => absent
    BY <1>6 DEF f
  <1>10. RecordsOf(row, g)
    BY <1>1, <1>3, <1>7, <1>8, <1>9, IntakeFacts
    DEF RecordsOf, ScreeningDone, AbsencesFiled, SittingsDone, Blank, Late
  <1> QED
    BY <1>10 DEF Advances, g, row

LEMMA InterviewsKeep ==
  ASSUME IInv, RecordsKept, NEW a \in Apps, NEW role \in Roles, InterviewConsole(role)
  PROVE  Advances(a)
  <1>1. ASSUME NEW b \in InterviewPool
        PROVE  /\ b \in Apps /\ case[b].stage = "hrmpsb_review"
               /\ case[b].caseStatus = "active"
    BY DEF InterviewPool, InterviewStage, ActiveUnlocked
  <1>2. CASE ScheduleInterviews(role)
    <2>1. CASE a \notin InterviewPool
      BY <1>2, <2>1, Untouched DEF ScheduleInterviews
    <2>2. CASE a \in InterviewPool
      <3> DEFINE session == [file[a].session EXCEPT !.state = "open"]
      <3>1. session.state = "open" /\ session.absent = file[a].session.absent
        BY FileParts DEF InterviewSession
      <3>2. file'[a] = [file[a] EXCEPT !.session = session] /\ case' = case
        BY <1>2, <2>2 DEF ScheduleInterviews
      <3> HIDE DEF session
      <3>3. /\ file'[a].session = session /\ file'[a].screening = file[a].screening
            /\ file'[a].exam = file[a].exam /\ file'[a].absence = file[a].absence
        BY <3>2, FileParts DEF ApplicationFile
      <3>4. Verdict(file'[a]) = Verdict(file[a])
        BY <3>3 DEF Verdict
      <3> QED
        BY <1>1, <2>2, <3>1, <3>2, <3>3, <3>4, OpenSessionKeeps
    <2> QED
      BY <2>1, <2>2
  <1>3. CASE FinalizeInterviews(role)
    <2>1. CASE a \notin InterviewPool
      BY <1>3, <2>1, Untouched DEF FinalizeInterviews
    <2>2. CASE a \in InterviewPool
      <3> DEFINE absent == file[a].session.absent
      <3>1. /\ file'[a] = SessionFinal(a, absent) /\ case' = case
            /\ absent \in BOOLEAN
        BY <1>3, <2>2, FileParts DEF FinalizeInterviews, Session
      <3> QED
        BY <1>1, <2>2, <3>1, FinalSessionKeeps
    <2> QED
      BY <2>1, <2>2
  <1>4. ASSUME NEW b \in InterviewPool, MarkInterviewAbsent(role, b)
        PROVE  Advances(a)
    <2>1. b \in Apps /\ case' = case /\ file' = [file EXCEPT ![b] = SessionFinal(b, TRUE)]
      BY <1>1, <1>4 DEF MarkInterviewAbsent
    <2>2. CASE a # b
      BY <2>1, <2>2, Untouched, RowNow
    <2>3. CASE a = b
      <3>1. file'[a] = SessionFinal(a, TRUE)
        BY <2>1, <2>3, RowNow
      <3> QED
        BY <1>1, <2>1, <2>3, <3>1, FinalSessionKeeps
    <2> QED
      BY <2>2, <2>3
  <1> QED
    BY <1>2, <1>3, <1>4 DEF InterviewConsole, SaveCosScores

LEMMA RatingKeeps ==
  ASSUME IInv, RecordsKept, NEW a \in Apps, NEW role \in Roles, RateInterview(role, a)
  PROVE  Advances(a)
  <1> DEFINE ratings == IF file[a].session.ratings = "none" THEN "some" ELSE "quorum"
             session == [file[a].session EXCEPT !.ratings = ratings]
  <1>1. /\ session.state = file[a].session.state
        /\ session.absent = file[a].session.absent
    BY FileParts DEF InterviewSession
  <1>2. /\ file' = [file EXCEPT ![a] = [file[a] EXCEPT !.session = session]]
        /\ case' = case /\ file[a].session.state = "open"
        /\ case[a].stage = "hrmpsb_review" /\ ~case[a].locked
    BY DEF RateInterview, CanSupportInterview, CanProcess, ActiveUnlocked, Session
  <1> HIDE DEF session
  <1>3. file'[a] = [file[a] EXCEPT !.session = session]
    BY <1>2, RowNow
  <1>4. /\ file'[a].session = session /\ file'[a].screening = file[a].screening
        /\ file'[a].exam = file[a].exam /\ file'[a].absence = file[a].absence
    BY <1>3, FileParts DEF ApplicationFile
  <1>5. Verdict(file'[a]) = Verdict(file[a])
    BY <1>4 DEF Verdict
  <1>6. case[a].caseStatus = "active"
    BY <1>2, RowNow, PanelCaseIsOpen, Open, IntakeFacts
  <1> QED
    BY <1>1, <1>2, <1>4, <1>5, <1>6, OpenSessionKeeps

-----------------------------------------------------------------------------
(* Absences *)

LEMMA AbsenceOpen ==
  ASSUME IInv, RecordsKept, NEW a \in Apps, NEW role \in Roles, NEW k \in Assessments,
         CanManageAbsence(role, a, k)
  PROVE  /\ case[a].caseStatus \in {"active", "awaiting"}
         /\ ~case[a].locked /\ Place(case[a]) = case[a].stage
         /\ RecordsOf(case[a], file[a])
  <1>1. CASE CanProcess(role, a)
    BY <1>1, ProcessedAt, RowNow
  <1>2. CASE ~case[a].locked /\ case[a].stage = "hrmpsb_review"
    BY <1>2, PanelCaseIsOpen, Open, RowNow
  <1> QED
    BY <1>1, <1>2 DEF CanManageAbsence

LEMMA EndingKeeps ==
  ASSUME IInv, RecordsKept, NEW a \in Apps, NEW role \in Roles, NEW k \in Assessments,
         EndAfterAbsence(role, a, k)
  PROVE  Advances(a)
  <1> DEFINE absence == [file[a].absence EXCEPT ![k] = Blank]
  <1>1. /\ file' = [file EXCEPT ![a] = [file[a] EXCEPT !.absence = absence]]
        /\ case'[a] = Moved(case[a], "rejected", Blank)
        /\ CanManageAbsence(role, a, k)
    BY OneMoved DEF EndAfterAbsence, AbsenceDecided
  <1>2. \A j \in Assessments : absence[j] \in {file[a].absence[j], Blank}
    BY FileParts
  <1> HIDE DEF absence
  <1>3. /\ file'[a].absence = absence /\ file'[a].screening = file[a].screening
        /\ file'[a].exam = file[a].exam /\ file'[a].session = file[a].session
    BY <1>1, RowNow, FileParts DEF ApplicationFile
  <1>4. Verdict(file'[a]) = Verdict(file[a])
    BY <1>3 DEF Verdict
  <1>5. case[a].caseStatus \in {"active", "awaiting"}
    BY <1>1, AbsenceOpen
  <1> QED
    BY <1>1, <1>2, <1>3, <1>4, <1>5, ClosingKeeps DEF Exits

LEMMA ExamRescheduled ==
  ASSUME IInv, RecordsKept, NEW a \in Apps, NEW role \in Roles,
         RescheduleAbsentee(role, a, "examination")
  PROVE  Advances(a)
  <1> DEFINE f == file[a]
             g == file'[a]
             row == case[a]
             exam == [f.exam EXCEPT ![Intake] = "open"]
             absence == [f.absence EXCEPT !["examination"] = Blank]
  <1>1. RecordsOf(row, f)
    BY RowNow
  <1>2. f.absence["examination"] = Intake
    BY <1>1 DEF RescheduleAbsentee, RecordsOf, AbsencesFiled, ReviewStages, ScreeningStages,
                Blank
  <1>3. /\ g = [[f EXCEPT !.exam = exam] EXCEPT !.absence = absence] /\ case' = case
    <2>1. SittingReopened(a, "examination") = [f EXCEPT !.exam = exam]
      BY <1>2 DEF SittingReopened
    <2>2. file'[a] = [SittingReopened(a, "examination") EXCEPT
                        !.absence["examination"] = AbsenceDecided("examination")]
      BY RowNow DEF RescheduleAbsentee
    <2>3. [f EXCEPT !.exam = exam].absence = f.absence
      BY FileParts DEF ApplicationFile
    <2> QED
      BY <2>1, <2>2, <2>3 DEF RescheduleAbsentee, AbsenceDecided
  <1>4. /\ exam[Intake] = "open" /\ absence["examination"] = Blank
        /\ absence["interview"] = f.absence["interview"]
    BY FileParts, IntakeFacts DEF Assessments
  <1> HIDE DEF exam, absence
  <1>5. /\ g.exam = exam /\ g.absence = absence
        /\ g.screening = f.screening /\ g.session = f.session
    BY <1>3, FileParts DEF ApplicationFile
  <1>6. Verdict(g) = Verdict(f)
    BY <1>5 DEF Verdict
  <1> HIDE DEF f, g, row
  <1>7. RecordsOf(row, g)
    BY <1>1, <1>4, <1>5, <1>6
    DEF RecordsOf, ScreeningDone, AbsencesFiled, SittingsDone, Blank
  <1> QED
    BY <1>3, <1>7 DEF Advances, g, row

LEMMA InterviewRescheduled ==
  ASSUME IInv, RecordsKept, NEW a \in Apps, NEW role \in Roles,
         RescheduleAbsentee(role, a, "interview")
  PROVE  Advances(a)
  <1> DEFINE f == file[a]
             g == file'[a]
             row == case[a]
             session == [f.session EXCEPT !.state = IF @ = Blank THEN Blank ELSE "open",
                                          !.absent = FALSE]
             absence == [f.absence EXCEPT !["interview"] = Blank]
  <1>1. RecordsOf(row, f)
    BY RowNow
  <1>2. f.absence["interview"] # Blank
    BY DEF RescheduleAbsentee, ReviewStages, ScreeningStages, Blank
  <1>3. /\ g = [[f EXCEPT !.session = session] EXCEPT !.absence = absence] /\ case' = case
    <2>1. SittingReopened(a, "interview") = [f EXCEPT !.session = session]
      BY FileParts DEF SittingReopened, ApplicationFile
    <2>2. file'[a] = [SittingReopened(a, "interview") EXCEPT
                        !.absence["interview"] = AbsenceDecided("interview")]
      BY RowNow DEF RescheduleAbsentee
    <2>3. [f EXCEPT !.session = session].absence = f.absence
      BY FileParts DEF ApplicationFile
    <2> HIDE DEF session
    <2> QED
      BY <2>1, <2>2, <2>3 DEF RescheduleAbsentee, AbsenceDecided
  <1>4. /\ session.state # "final" /\ ~session.absent
        /\ absence["interview"] = Blank
        /\ absence["examination"] = f.absence["examination"]
    BY FileParts DEF Assessments, InterviewSession, Blank
  <1> HIDE DEF session, absence
  <1>5. /\ g.session = session /\ g.absence = absence
        /\ g.screening = f.screening /\ g.exam = f.exam
    BY <1>3, FileParts DEF ApplicationFile
  <1>6. Verdict(g) = Verdict(f)
    BY <1>5 DEF Verdict
  <1> HIDE DEF f, g, row
  <1>7. Place(row) \notin {Blank, Intake} \cup Late
    BY <1>1, <1>2 DEF RecordsOf, AbsencesFiled, SittingsDone
  <1>8. RecordsOf(row, g)
    BY <1>1, <1>4, <1>5, <1>6, <1>7
    DEF RecordsOf, ScreeningDone, AbsencesFiled, SittingsDone, Blank
  <1> QED
    BY <1>3, <1>8 DEF Advances, g, row

-----------------------------------------------------------------------------
(* The other operations of a case *)

LEMMA SubmissionKeeps ==
  ASSUME IInv, RecordsKept, NEW a \in Apps, SubmitApplication(a)
  PROVE  Advances(a)
  <1> DEFINE f == file[a]
             r == case'[a]
  <1>1. case[a] = DraftCase /\ RecordsOf(case[a], f)
    BY RowNow DEF SubmitApplication, Submitted, GoodRows, RowAligned
  <1>2. Place(case[a]) = Blank /\ case[a].caseStatus = Blank
    BY <1>1 DEF DraftCase, Place
  <1>3. StatusForStage(Intake) = Intake
    BY IntakeFacts DEF StatusForStage
  <1>4. r = Moved(case[a], Intake, LevelOwner(Level)) /\ file' = file
    BY <1>3, OneMoved DEF SubmitApplication, Intake
  <1>5. r.stage = Intake /\ r.caseStatus = "active" /\ ~r.locked /\ Place(r) = Intake
    BY <1>4, ToReview, IntakeFacts
  <1> HIDE DEF f, r
  <1>6. Verdict(f) = Blank
    BY <1>1, <1>2 DEF RecordsOf, ScreeningDone
  <1>7. RecordsOf(r, f)
    BY <1>1, <1>2, <1>5, <1>6, IntakeFacts
    DEF RecordsOf, ScreeningDone, AbsencesFiled, SittingsDone, Blank
  <1> QED
    BY <1>2, <1>4, <1>7 DEF Advances, f, r, Late, Blank

LEMMA ResubmissionKeeps ==
  ASSUME IInv, RecordsKept, NEW a \in Apps, SubmitDocumentResubmission(a)
  PROVE  Advances(a)
  <1> DEFINE f == file[a]
             g == file'[a]
             row == case[a]
             r == case'[a]
             record == [verdict |-> Blank, flagged |-> FALSE]
  <1>1. RecordsOf(row, f) /\ row.caseStatus = "awaiting"
    BY RowNow DEF SubmitDocumentResubmission
  <1>2. row.stage = Intake /\ Place(row) = Intake
    BY <1>1, RowNow, Open
  <1>3. StatusForStage(Intake) = Intake
    BY IntakeFacts DEF StatusForStage
  <1>4. r = Moved(row, Intake, row.handler)
    BY <1>2, <1>3, OneMoved DEF SubmitDocumentResubmission
  <1>5. r.stage = Intake /\ r.caseStatus = "active" /\ ~r.locked /\ Place(r) = Intake
    BY <1>4, ToReview, IntakeFacts
  <1>6. file' = [file EXCEPT ![a] = [f EXCEPT !.screening =
                   [f.screening EXCEPT ![Intake] = record]]]
    BY <1>2 DEF SubmitDocumentResubmission
  <1>7. record.verdict = Blank
    OBVIOUS
  <1> HIDE DEF record
  <1>8. Verdict(g) = Blank /\ g.exam = f.exam /\ g.session = f.session
          /\ g.absence = f.absence
    BY <1>6, <1>7, ScreeningEdit
  <1> HIDE DEF f, g, row, r
  <1>9. Verdict(f) = Blank
    BY <1>1 DEF RecordsOf, ScreeningDone
  <1>10. RecordsOf(r, g)
    BY <1>1, <1>2, <1>5, <1>8, <1>9
    DEF RecordsOf, ScreeningDone, AbsencesFiled, SittingsDone, Blank
  <1> QED
    BY <1>2, <1>10, IntakeFacts DEF Advances, g, r, row

LEMMA OfficeKeeps ==
  ASSUME IInv, RecordsKept, NEW a \in Apps, NEW role \in Roles, OfficeStep(role, a)
  PROVE  Advances(a)
  <1>1. CASE RecordWithdrawal(role, a)
    <2>1. /\ case[a].caseStatus \in {"active", "awaiting"}
          /\ case'[a] = Moved(case[a], "withdrawn", Blank) /\ file' = file
      BY <1>1, OneMoved DEF RecordWithdrawal, CanRecordWithdrawal, InFlight
    <2> QED
      BY <2>1, ClosingKeeps DEF Exits
  <1>2. CASE CloseCase(role, a)
    <2>1. /\ case[a].caseStatus \in {"active", "awaiting"}
          /\ case'[a] = Moved(case[a], "approved", Blank) /\ file' = file
      BY <1>2, OneMoved, ProcessedAt DEF CloseCase, CanManageCompletion
    <2> QED
      BY <2>1, ClosingKeeps
  <1>3. ASSUME NEW value \in {"tracked", "referenced", "ready"}, SaveCompletion(role, a, value)
        PROVE  Advances(a)
    <2>1. case' = case /\ file'[a] = [file[a] EXCEPT !.completion = value]
      BY <1>3, RowNow DEF SaveCompletion
    <2>2. /\ file'[a].screening = file[a].screening /\ file'[a].exam = file[a].exam
          /\ file'[a].session = file[a].session /\ file'[a].absence = file[a].absence
      BY <2>1, FileParts DEF ApplicationFile
    <2>3. Verdict(file'[a]) = Verdict(file[a])
      BY <2>2 DEF Verdict
    <2>4. RecordsOf(case[a], file'[a])
      BY <2>2, <2>3, RowNow, SameRecords
    <2> QED
      BY <2>1, <2>4 DEF Advances
  <1>4. ASSUME NEW k \in Assessments, RescheduleAbsentee(role, a, k)
        PROVE  Advances(a)
    BY <1>4, ExamRescheduled, InterviewRescheduled DEF Assessments
  <1> QED
    BY <1>1, <1>2, <1>3, <1>4, ScreeningKeeps, RatingKeeps, EndingKeeps
    DEF OfficeStep, AbsencePage, CompletionPage

LEMMA LoansKeep ==
  ASSUME IInv, RecordsKept, NEW a \in Apps,
         \/ \E role \in Roles : HandOffPage(role)
         \/ \E b \in Apps : GrantOverride(b)
  PROVE  Advances(a)
  <1>1. ASSUME NEW sent \in SUBSET Apps, NEW role, file' = file,
               Transition([b \in sent |-> Moved(case[b], case[b].status, role)]),
               a \in sent => /\ case[a].caseStatus \in {"active", "awaiting"}
                             /\ case[a].stage = Intake
        PROVE  Advances(a)
    <2>1. CASE a \in sent
      BY <1>1, <2>1, HandingKeeps DEF Transition
    <2>2. CASE a \notin sent
      BY <1>1, <2>2, Untouched DEF Transition
    <2> QED
      BY <2>1, <2>2
  <1>2. ASSUME NEW role \in Roles, HandOffBatch(role)
        PROVE  Advances(a)
    BY <1>1, <1>2 DEF HandOffBatch, BatchHeldBy, SendToOtherOffice, Loanable, Intake
  <1>3. ASSUME NEW role \in Roles, RecallBatch(role)
        PROVE  Advances(a)
    BY <1>1, <1>3 DEF RecallBatch, LoanedOut, Loanable, Intake
  <1>4. ASSUME NEW b \in Apps, GrantOverride(b)
        PROVE  Advances(a)
    <2>1. /\ Transition([c \in {b} |-> Moved(case[c], case[c].status,
                                             OtherOffice("hrm_chief"))])
          /\ file' = file /\ case[b].status = "hrm_chief_review"
          /\ case[b].stage = "hrm_chief_review" /\ Level = 2
      BY <1>4 DEF GrantOverride, SendToOtherOffice
    <2>2. case[b].stage = Intake
      BY <2>1 DEF Intake, IntakeStage
    <2>3. case[b].caseStatus = "active"
      BY <2>1, RowNow DEF GoodRows, RowAligned, InReview, ReviewStages, ScreeningStages
    <2> QED
      BY <1>1, <2>1, <2>2, <2>3
  <1> QED
    BY <1>2, <1>3, <1>4 DEF HandOffPage

(* A reopened case has its last record reopened where one is kept there.   *)
LEMMA ReopeningKeeps ==
  ASSUME IInv, RecordsKept, NEW a \in Apps, Reopen(a, Selected)
  PROVE  Advances(a)
  <1> DEFINE f == file[a]
             g == file'[a]
             row == case[a]
             r == case'[a]
             stage == row.lockedStage
  <1>1. RecordsOf(row, f) /\ row.locked /\ stage \in StepStages(Branch, Level)
    BY RowNow, LockedRow DEF Reopen, CanReopen
  <1>2. Place(row) = stage
    BY <1>1 DEF Place
  <1>3. r = Moved(row, StatusForStage(stage), StageOwner(stage, Level))
          /\ g = CorrectedAt(a, stage)
    BY OneMoved, RowNow DEF Reopen
  <1>4. r.stage = stage /\ r.caseStatus = "active" /\ ~r.locked /\ Place(r) = stage
    <2>1. CASE stage = "completion"
      <3>1. StatusForStage(stage) = "approved" /\ StageOwner(stage, Level) # Blank
        BY <2>1 DEF StatusForStage, StageOwner, CompletionOwner, ReviewStages,
                    ScreeningStages, Blank
      <3> QED
        BY <1>3, <2>1, <3>1, ToCompletion
    <2>2. CASE stage # "completion"
      <3>1. stage \in ReviewStages
        BY <1>1, <2>2, IntakeFacts DEF ReviewStages
      <3>2. StatusForStage(stage) = stage
        BY <3>1 DEF StatusForStage, ReviewStages, ScreeningStages
      <3> QED
        BY <1>3, <3>1, <3>2, ToReview
    <2> QED
      BY <2>1, <2>2
  <1>5. stage # Intake => "exam" \notin SectionsAt(Branch, stage)
    BY <1>1, IntakeFacts DEF SectionsAt, PlantillaSections, ScreeningStages
  <1>6. "interview" \in SectionsAt(Branch, stage) <=> stage = "hrmpsb_review"
    BY <1>1, IntakeFacts DEF SectionsAt, PlantillaSections, ScreeningStages
  <1>7. CASE stage = Intake
    <2>1. SectionsAt(Branch, stage) = {"screening", "exam"}
      BY <1>7, IntakeFacts DEF SectionsAt, PlantillaSections, Late
    <2>2. CASE f.exam[Intake] # "open"
      <3> DEFINE exam == [f.exam EXCEPT ![Intake] = "open"]
      <3>1. exam[Intake] = "open"
        BY FileParts, IntakeFacts
      <3>2. g = [f EXCEPT !.exam = exam]
        BY <1>3, <1>7, <2>1, <2>2 DEF CorrectedAt
      <3> HIDE DEF exam
      <3>3. g.exam = exam /\ g.screening = f.screening /\ g.session = f.session
              /\ g.absence = f.absence
        BY <3>2, FileParts DEF ApplicationFile
      <3>4. Verdict(g) = Verdict(f) /\ Verdict(f) = "qualified"
        BY <1>1, <2>2, <3>3 DEF RecordsOf, ScreeningDone, Verdict
      <3> HIDE DEF f, g, row, r, stage
      <3>5. RecordsOf(r, g)
        BY <1>1, <1>2, <1>4, <1>7, <3>1, <3>3, <3>4, IntakeFacts
        DEF RecordsOf, ScreeningDone, AbsencesFiled, SittingsDone, Blank
      <3> QED
        BY <1>2, <1>4, <3>5 DEF Advances, g, r, row
    <2>3. CASE f.exam[Intake] = "open"
      <3> DEFINE record == [f.screening[Intake] EXCEPT !.verdict = Blank]
      <3>1. record.verdict = Blank
        BY FileParts DEF ScreeningRecord
      <3>2. file' = [file EXCEPT ![a] = [f EXCEPT !.screening =
                       [f.screening EXCEPT ![Intake] = record]]]
        BY <1>7, <2>1, <2>3 DEF CorrectedAt, Reopen
      <3> HIDE DEF record
      <3>3. Verdict(g) = Blank /\ g.exam = f.exam /\ g.session = f.session
              /\ g.absence = f.absence
        BY <3>1, <3>2, ScreeningEdit
      <3> HIDE DEF f, g, row, r, stage
      <3>4. RecordsOf(r, g)
        BY <1>1, <1>2, <1>4, <1>7, <2>3, <3>3, IntakeFacts
        DEF RecordsOf, ScreeningDone, AbsencesFiled, SittingsDone, Blank
      <3> QED
        BY <1>2, <1>4, <3>4 DEF Advances, g, r, row
    <2> QED
      BY <2>2, <2>3
  <1>8. CASE stage = "hrmpsb_review" /\ f.session.state = "final"
    <2> DEFINE session == [f.session EXCEPT !.state = "open"]
    <2>1. session.state = "open" /\ session.absent = f.session.absent
      BY FileParts DEF InterviewSession
    <2>2. g = [f EXCEPT !.session = session]
      BY <1>3, <1>6, <1>8 DEF CorrectedAt, Session
    <2> HIDE DEF session
    <2>3. g.session = session /\ g.exam = f.exam /\ g.screening = f.screening
            /\ g.absence = f.absence
      BY <2>2, FileParts DEF ApplicationFile
    <2>4. Verdict(g) = Verdict(f)
      BY <2>3 DEF Verdict
    <2> HIDE DEF f, g, row, r, stage
    <2>5. RecordsOf(r, g)
      BY <1>1, <1>2, <1>4, <1>8, <2>1, <2>3, <2>4, IntakeFacts
      DEF RecordsOf, ScreeningDone, AbsencesFiled, SittingsDone, Blank, Late
    <2> QED
      BY <1>2, <1>4, <2>5 DEF Advances, g, r, row
  <1>9. CASE stage # Intake /\ ~(stage = "hrmpsb_review" /\ f.session.state = "final")
    <2>1. g = f
      BY <1>3, <1>5, <1>6, <1>9 DEF CorrectedAt, Session
    <2>2. stage # Blank
      BY <1>1, IntakeFacts DEF Blank
    <2> HIDE DEF f, g, row, r, stage
    <2>3. RecordsOf(r, g)
      BY <1>1, <1>2, <1>4, <1>9, <2>1, <2>2, IntakeFacts
      DEF RecordsOf, ScreeningDone, AbsencesFiled, SittingsDone, Blank
    <2> QED
      BY <1>2, <1>4, <2>3 DEF Advances, g, r, row
  <1> QED
    BY <1>7, <1>8, <1>9


(* Every operation of the shared case owes every application its records.  *)
LEMMA CasesKeep ==
  ASSUME IInv, RecordsKept, NEW a \in Apps, CaseStep(Selected, Reported)
  PROVE  Advances(a)
  <1>1. CASE \/ NextDay
             \/ \E day \in {"before", "closing_day"} : ExtendIntake(day)
             \/ \E new \in {"active", "suspended", "closed"} :
                  UpdateEntryStatus(new, Selected # {} /\ ~OpenPool)
    BY <1>1, Untouched DEF NextDay, ExtendIntake, UpdateEntryStatus
  <1>2. CASE CancelEntry(Selected # {})
    <2>1. CASE a \in InFlight
      <3>1. /\ case[a].caseStatus \in {"active", "awaiting"}
            /\ case'[a] = Moved(case[a], "vacancy_cancelled", Blank) /\ file' = file
        BY <1>2, <2>1 DEF CancelEntry, CloseAll, Transition, InFlight
      <3> QED
        BY <3>1, ClosingKeeps DEF Exits
    <2>2. CASE a \notin InFlight
      BY <1>2, <2>2, Untouched DEF CancelEntry, CloseAll, Transition
    <2> QED
      BY <2>1, <2>2
  <1>3. ASSUME NEW b \in Apps,
               \/ SubmitApplication(b) \/ SubmitDocumentResubmission(b)
               \/ Reopen(b, Selected)
        PROVE  Advances(a)
    BY <1>3, OthersOutside, Untouched, SubmissionKeeps, ResubmissionKeeps, ReopeningKeeps
    DEF IInv, RestOK
  <1>4. ASSUME NEW b \in Apps, NEW role \in Roles, OfficeStep(role, b)
        PROVE  Advances(a)
    BY <1>4, OthersInOffice, Untouched, OfficeKeeps DEF IInv, RestOK
  <1>5. ASSUME NEW role \in Roles, ExamConsole(role)
        PROVE  Advances(a)
    BY <1>5, ExamsKeep DEF ExamConsole
  <1> QED
    BY <1>1, <1>2, <1>3, <1>4, <1>5, InterviewsKeep, LoansKeep, RepairKeeps DEF CaseStep

-----------------------------------------------------------------------------
(* The report and the authority *)

(* Whoever is at a late step may be sent to another, or back to the panel. *)
LEMMA LateMoves ==
  ASSUME NEW row, NEW r, NEW f, NEW g, RecordsOf(row, f), Place(row) \in Late,
         NEW s \in Late \cup {"hrmpsb_review"},
         r.stage = s, r.caseStatus = "active", ~r.locked, Place(r) = s,
         Verdict(g) = Verdict(f), g.exam = f.exam, g.session = f.session,
         g.absence = f.absence
  PROVE  RecordsOf(r, g)
  <1>1. s # Blank /\ s # Intake /\ Place(row) # Blank /\ Place(row) # Intake
    BY IntakeFacts DEF Late, Blank
  <1>2. Verdict(f) = "qualified" /\ ~f.session.absent
    BY <1>1 DEF RecordsOf, ScreeningDone, SittingsDone
  <1> QED
    BY <1>1, <1>2, IntakeFacts
    DEF RecordsOf, ScreeningDone, AbsencesFiled, SittingsDone, Blank

(* The panel's candidates have every record when the report is finalized.  *)
LEMMA ReportFinalized ==
  ASSUME IInv, RecordsKept, NEW a \in Apps, FinalizeCar
  PROVE  /\ Advances(a)
         /\ a \in car'.items => Place(case'[a]) \in Late
  <1>1. /\ file' = file /\ car'.items = AtPanel
        /\ Transition(ToAuthority(AtPanel))
        /\ \A b \in AtPanel : Assessed(b) /\ Scored(b)
    BY DEF FinalizeCar, CanFinalizeCar, CanPrepareCar, IInv, RestOK, RecordsOK, CarReport
  <1>2. CASE a \notin AtPanel
    BY <1>1, <1>2, Untouched DEF Transition, ToAuthority
  <1>3. CASE a \in AtPanel
    <2> DEFINE f == file[a]
               row == case[a]
               r == case'[a]
    <2>1. /\ row.stage = "hrmpsb_review" /\ ~row.locked
          /\ Verdict(f) # Blank /\ f.exam[Intake] = "completed"
          /\ f.session.state = "final" /\ ~f.session.absent
      BY <1>1, <1>3 DEF AtPanel, ActiveUnlocked, Assessed, Scored, Session, Verdict, Intake
    <2>2. RecordsOf(row, f) /\ Place(row) = "hrmpsb_review"
      BY <2>1, RowNow DEF Place
    <2>3. r = Moved(row, "appointing_authority_review", "appointing_authority")
      BY <1>1, <1>3 DEF Transition, ToAuthority
    <2>4. "appointing_authority_review" \in ReviewStages
      BY DEF ReviewStages
    <2>5. /\ r.stage = "appointing_authority_review" /\ r.caseStatus = "active"
          /\ ~r.locked /\ Place(r) = "appointing_authority_review"
      BY <2>3, <2>4, ToReview
    <2> HIDE DEF f, row, r
    <2>6. Verdict(f) = "qualified"
      BY <2>2, IntakeFacts DEF RecordsOf, ScreeningDone, Blank
    <2>7. RecordsOf(r, f)
      BY <2>1, <2>2, <2>5, <2>6, IntakeFacts
      DEF RecordsOf, ScreeningDone, AbsencesFiled, SittingsDone, Blank, Late
    <2> QED
      BY <1>1, <2>2, <2>5, <2>7 DEF Advances, Late, f, r, row
  <1> QED
    BY <1>1, <1>2, <1>3

LEMMA WithAuthorityNow ==
  ASSUME IInv, CanDecide, NEW a \in Contenders
  PROVE  /\ a \in Apps /\ case[a].caseStatus \in {"active", "awaiting"}
         /\ Place(case[a]) = "appointing_authority_review"
  BY ContendersAreOpen DEF CanDecide, WithAuthority, Place

(* A report sent back takes its contenders to the panel.                   *)
LEMMA ReportReturned ==
  ASSUME IInv, RecordsKept, NEW a \in Apps, ReturnCar
  PROVE  RecordsOf(case'[a], file'[a])
  <1>1. CanDecide /\ Transition(ToPanel(Contenders)) /\ file' = file
    BY DEF ReturnCar
  <1>2. CASE a \notin Contenders
    BY <1>1, <1>2, RowNow DEF Transition, ToPanel
  <1>3. CASE a \in Contenders
    <2> DEFINE r == case'[a]
    <2>1. Place(case[a]) \in Late
      BY <1>1, <1>3, WithAuthorityNow DEF Late
    <2>2. r = Moved(case[a], "hrmpsb_review", "hrmpsb_member")
      BY <1>1, <1>3 DEF Transition, ToPanel
    <2>3. "hrmpsb_review" \in ReviewStages
      BY DEF ReviewStages
    <2>4. /\ r.stage = "hrmpsb_review" /\ r.caseStatus = "active" /\ ~r.locked
          /\ Place(r) = "hrmpsb_review"
      BY <2>2, <2>3, ToReview
    <2> HIDE DEF r
    <2>5. RecordsOf(r, file[a])
      BY <2>1, <2>4, RowNow, LateMoves
    <2> QED
      BY <1>1, <2>5 DEF r
  <1> QED
    BY <1>2, <1>3

(* An edit of the completion record.                                       *)
LEMMA CompletionEdit ==
  ASSUME IInv, NEW a \in Apps, NEW b \in Apps, NEW value,
         file' = [file EXCEPT ![b] = [file[b] EXCEPT !.completion = value]]
  PROVE  /\ Verdict(file'[a]) = Verdict(file[a]) /\ file'[a].exam = file[a].exam
         /\ file'[a].session = file[a].session /\ file'[a].absence = file[a].absence
  <1>1. CASE a = b
    <2>1. file'[a] = [file[a] EXCEPT !.completion = value]
      BY <1>1 DEF IInv, RestOK, RecordsOK
    <2>2. /\ file'[a].screening = file[a].screening /\ file'[a].exam = file[a].exam
          /\ file'[a].session = file[a].session /\ file'[a].absence = file[a].absence
      BY <2>1, FileParts DEF ApplicationFile
    <2> QED
      BY <2>2 DEF Verdict
  <1>2. CASE a # b
    BY <1>2 DEF IInv, RestOK, RecordsOK
  <1> QED
    BY <1>1, <1>2

(* Everybody else of the report is closed, and the winner is completed.    *)
LEMMA DecisionKeeps ==
  ASSUME IInv, RecordsKept, NEW a \in Apps, AuthorityPage
  PROVE  Advances(a)
  <1>1. CASE RecordNoAppointment
    <2>1. CanDecide /\ file' = file /\ CloseAll(Contenders, "rejected")
      BY <1>1 DEF RecordNoAppointment
    <2>2. CASE a \in Contenders
      <3>1. case'[a] = Moved(case[a], "rejected", Blank)
        BY <2>1, <2>2 DEF CloseAll, Transition
      <3> QED
        BY <2>1, <2>2, <3>1, WithAuthorityNow, ClosingKeeps DEF Exits
    <2>3. CASE a \notin Contenders
      BY <2>1, <2>3, Untouched DEF CloseAll, Transition
    <2> QED
      BY <2>2, <2>3
  <1>2. ASSUME NEW winner \in Apps, RecordFinalSelection(winner)
        PROVE  Advances(a)
    <2>1. /\ CanDecide /\ winner \in Contenders /\ Transition(SelectionOf(winner))
          /\ \E value : file' = [file EXCEPT ![winner] =
                                   [file[winner] EXCEPT !.completion = value]]
      BY <1>2 DEF RecordFinalSelection
    <2>2. /\ Verdict(file'[a]) = Verdict(file[a]) /\ file'[a].exam = file[a].exam
          /\ file'[a].session = file[a].session /\ file'[a].absence = file[a].absence
      BY <2>1, CompletionEdit
    <2>3. CASE a \notin Contenders
      <3>1. case'[a] = case[a]
        BY <2>1, <2>3 DEF Transition, SelectionOf
      <3> QED
        BY <2>2, <3>1, RowNow, SameRecords DEF Advances
    <2>4. CASE a \in Contenders /\ a # winner
      <3>1. case'[a] = Moved(case[a], "rejected", Blank)
        BY <2>1, <2>4 DEF Transition, SelectionOf
      <3> QED
        BY <2>1, <2>2, <2>4, <3>1, WithAuthorityNow, ClosingKeeps DEF Exits
    <2>5. CASE a = winner
      <3> DEFINE r == case'[a]
      <3>1. r = Moved(case[a], "approved", CompletionOwner(Level))
        BY <2>1, <2>5 DEF Transition, SelectionOf
      <3>2. CompletionOwner(Level) # Blank
        BY DEF CompletionOwner, Blank
      <3>3. r.stage = "completion" /\ r.caseStatus = "active" /\ ~r.locked
              /\ Place(r) = "completion"
        BY <3>1, <3>2, ToCompletion
      <3>4. Place(case[a]) \in Late
        BY <2>1, <2>5, WithAuthorityNow DEF Late
      <3>5. "completion" \in Late
        BY DEF Late
      <3> HIDE DEF r
      <3>6. RecordsOf(r, file'[a])
        BY <2>2, <3>3, <3>4, <3>5, RowNow, LateMoves
      <3> QED
        BY <3>3, <3>5, <3>6 DEF Advances, r
    <2> QED
      BY <2>3, <2>4, <2>5
  <1> QED
    BY <1>1, <1>2 DEF AuthorityPage

(* Whoever a selection taken back restores was on its report.              *)
LEMMA RescissionKeeps ==
  ASSUME IInv, CompetitionOK, RecordsKept, NEW a \in Apps, RescindFinalSelection
  PROVE  Advances(a)
  <1>1. /\ selection # NoApp /\ selection \in Apps
        /\ Transition(ToAuthority(Restored))
        /\ \E value : file' = [file EXCEPT ![selection] =
                                 [file[selection] EXCEPT !.completion = value]]
    BY DEF RescindFinalSelection, CanRescind, IInv, RestOK, RecordsOK
  <1>2. /\ Verdict(file'[a]) = Verdict(file[a]) /\ file'[a].exam = file[a].exam
        /\ file'[a].session = file[a].session /\ file'[a].absence = file[a].absence
    BY <1>1, CompletionEdit
  <1>3. CASE a \notin Restored
    <2>1. case'[a] = case[a]
      BY <1>1, <1>3 DEF Transition, ToAuthority
    <2> QED
      BY <1>2, <2>1, RowNow, SameRecords DEF Advances
  <1>4. CASE a \in Restored
    <2> DEFINE r == case'[a]
    <2>1. a \in car.items /\ Place(case[a]) \in Late
      BY <1>1, <1>4 DEF Restored, RecordsKept, CompetitionOK
    <2>2. r = Moved(case[a], "appointing_authority_review", "appointing_authority")
      BY <1>1, <1>4 DEF Transition, ToAuthority
    <2>3. /\ "appointing_authority_review" \in ReviewStages
          /\ "appointing_authority_review" \in Late
      BY DEF ReviewStages, Late
    <2>4. /\ r.stage = "appointing_authority_review" /\ r.caseStatus = "active"
          /\ ~r.locked /\ Place(r) = "appointing_authority_review"
      BY <2>2, <2>3, ToReview
    <2> HIDE DEF r
    <2>5. RecordsOf(r, file'[a])
      BY <1>2, <2>1, <2>3, <2>4, RowNow, LateMoves
    <2> QED
      BY <2>3, <2>4, <2>5 DEF Advances, r
  <1> QED
    BY <1>3, <1>4

-----------------------------------------------------------------------------
(* The records *)

LEMMA RecordsAtFirst == Init => RecordsKept
  <1> SUFFICES ASSUME Init PROVE RecordsKept
    OBVIOUS
  <1>1. /\ case = [a \in Apps |-> DraftCase] /\ file = [a \in Apps |-> EmptyFile]
        /\ ~car.final /\ selection = NoApp
    BY DEF Init, CaseInit
  <1>2. /\ Place(DraftCase) = Blank /\ DraftCase.caseStatus = Blank
        /\ DraftCase.stage = Blank /\ ~DraftCase.locked
    BY DEF DraftCase, Place
  <1>3. /\ Verdict(EmptyFile) = Blank /\ EmptyFile.exam[Intake] = "open"
        /\ EmptyFile.session.state = Blank /\ ~EmptyFile.session.absent
        /\ EmptyFile.absence["examination"] = Blank
        /\ EmptyFile.absence["interview"] = Blank
    BY IntakeFacts DEF EmptyFile, Verdict, Assessments
  <1>4. RecordsOf(DraftCase, EmptyFile)
    BY <1>2, <1>3, IntakeFacts
    DEF RecordsOf, ScreeningDone, AbsencesFiled, SittingsDone, Blank, Late
  <1> QED
    BY <1>1, <1>4 DEF RecordsKept

LEMMA RecordsAdvance ==
  ASSUME IInv, RecordsKept, car' = car, selection' \in {selection, NoApp} \cup car.items,
         \A a \in Apps : Advances(a)
  PROVE  RecordsKept'
  <1>1. car.items \in SUBSET Apps
    BY DEF IInv, RestOK, RecordsOK, CarReport
  <1> QED
    BY <1>1 DEF RecordsKept, Advances, RecordsOf, Place

(* For any number of applications at either level, the records of every    *)
(* case are those its step asks for, and whoever is on a finalized report  *)
(* is past the panel (screening, exam, interview, car and selection        *)
(* services, together).                                                    *)
THEOREM RecordsInvariant == Spec => [](IInv /\ CompetitionOK /\ RecordsKept)
  <1>1. Init => RecordsKept
    BY RecordsAtFirst
  <1>2. IInv /\ CompetitionOK /\ RecordsKept /\ [Next]_vars => RecordsKept'
    <2> SUFFICES ASSUME IInv, CompetitionOK, RecordsKept, [Next]_vars
                 PROVE  RecordsKept'
      OBVIOUS
    <2>1. CASE CaseStep(Selected, Reported) /\ UNCHANGED <<car, selection>>
      BY <2>1, CasesKeep, RecordsAdvance
    <2>2. CASE DraftCar
      <3>1. /\ UNCHANGED <<case, file, selection>>
            /\ car'.final = car.final /\ car'.items = car.items
        BY <2>2 DEF DraftCar, IInv, RestOK, RecordsOK, CarReport
      <3> QED
        BY <3>1 DEF RecordsKept, RecordsOf, Place
    <2>3. CASE FinalizeCar
      <3>1. selection' = NoApp /\ car'.items \in SUBSET Apps
        BY <2>3 DEF FinalizeCar, CanFinalizeCar, CanPrepareCar, CompetitionOK, AtPanel,
                    IInv, RestOK, RecordsOK, CarReport
      <3>2. \A a \in Apps : /\ RecordsOf(case'[a], file'[a])
                            /\ a \in car'.items => Place(case'[a]) \in Late
        BY <2>3, ReportFinalized DEF Advances
      <3> QED
        BY <3>1, <3>2 DEF RecordsKept, RecordsOf, Place
    <2>4. CASE ReturnCar
      <3>1. selection' = NoApp /\ ~car'.final
        BY <2>4 DEF ReturnCar, CanDecide, IInv, RestOK, RecordsOK, CarReport
      <3>2. \A a \in Apps : RecordsOf(case'[a], file'[a])
        BY <2>4, ReportReturned
      <3> QED
        BY <3>1, <3>2 DEF RecordsKept, RecordsOf
    <2>5. CASE AuthorityPage
      <3>1. car' = car /\ selection' \in {selection, NoApp} \cup car.items
        BY <2>5 DEF AuthorityPage, RecordNoAppointment, RecordFinalSelection, Contenders
      <3>2. \A a \in Apps : Advances(a)
        BY <2>5, DecisionKeeps
      <3> QED
        BY <3>1, <3>2, RecordsAdvance
    <2>6. CASE RescindFinalSelection
      <3>1. car' = car /\ selection' = NoApp
        BY <2>6 DEF RescindFinalSelection
      <3>2. \A a \in Apps : Advances(a)
        BY <2>6, RescissionKeeps
      <3> QED
        BY <3>1, <3>2, RecordsAdvance
    <2>7. CASE UNCHANGED vars
      BY <2>7 DEF vars, RecordsKept, RecordsOf, Place
    <2> QED
      BY <2>1, <2>2, <2>3, <2>4, <2>5, <2>6, <2>7 DEF Next
  <1> QED
    BY <1>1, <1>2, CompetitionDecided, PTL DEF Spec

(* For any number of candidates, nobody reaches the authority or an        *)
(* appointment unqualified, unheard or absent, whatever was returned,      *)
(* reopened, rescheduled, repaired or taken back on the way                *)
(* (car.generate_comparative_assessment_report).                           *)
THEOREM ScoredAtAuthority == Spec => []ScoredBeforeAuthority
  <1>1. ASSUME IInv, RecordsKept, NEW a \in Apps,
               case[a].status \in {"appointing_authority_review", "approved"}
        PROVE  /\ Verdict(file[a]) = "qualified"
               /\ file[a].exam[Intake] \notin {"absent", "waived"}
               /\ file[a].session.state = "final" /\ ~file[a].session.absent
    <2>1. Place(case[a]) \in Late
      <3>1. CASE case[a].status = "appointing_authority_review"
        <4>1. InReview(case[a])
          BY <1>1, <3>1, RowNow DEF GoodRows, RowAligned, ReviewStages
        <4> QED
          BY <3>1, <4>1 DEF InReview, Place, Late
      <3>2. CASE case[a].status = "approved"
        <4>1. \/ InCompletion(case[a])
              \/ ClosedAs(case[a]) /\ case[a].lockedStage = "completion"
          BY <1>1, <3>2, RowNow DEF GoodRows, RowAligned
        <4> QED
          BY <4>1 DEF InCompletion, ClosedAs, Place, Late
      <3> QED
        BY <1>1, <3>1, <3>2
    <2>2. Place(case[a]) # Blank /\ Place(case[a]) # Intake
      BY <2>1, IntakeFacts DEF Late, Blank
    <2> QED
      BY <1>1, <2>1, <2>2, RowNow DEF RecordsOf, ScreeningDone, SittingsDone
  <1>2. IInv /\ RecordsKept => ScoredBeforeAuthority
    BY <1>1 DEF ScoredBeforeAuthority, Verdict, Intake, Session
  <1> QED
    BY <1>2, RecordsInvariant, PTL

(* For any number of candidates, whoever is held by a finalized sitting    *)
(* has an absence the office can decide on (exam.record_attendance_absence *)
(* and reopen._assert_reopened_case_has_editable_work).                    *)
THEOREM NobodyParked == Spec => []ParkedForAbsence
  <1>1. ASSUME IInv, RecordsKept, NEW a \in Apps, ActiveUnlocked(a)
        PROVE  /\ (LeavesAfterExam(case[a].stage) /\ Exam(a) # "open")
                    => file[a].absence["examination"] = case[a].stage
               /\ (/\ case[a].stage = InterviewStage
                   /\ Session(a).state = "final"
                   /\ Session(a).absent)
                    => file[a].absence["interview"] = case[a].stage
    <2>1. case[a].caseStatus = "active" /\ RecordsOf(case[a], file[a])
      BY <1>1, RowNow DEF ActiveUnlocked
    <2>2. LeavesAfterExam(case[a].stage) => case[a].stage = Intake
      BY <1>1, <2>1, RowNow, Open DEF LeavesAfterExam
    <2>3. InterviewStage = "hrmpsb_review"
      BY DEF InterviewStage
    <2> QED
      BY <2>1, <2>2, <2>3 DEF RecordsOf, AbsencesFiled, Exam, Session
  <1>2. IInv /\ RecordsKept => ParkedForAbsence
    BY <1>1 DEF ParkedForAbsence
  <1> QED
    BY <1>2, RecordsInvariant, PTL

-----------------------------------------------------------------------------
(* Overlapping transactions at the authority's step (AuthorityRace).       *)
(* What is inductive says of every open request what it is going to write: *)
(* rows that are good in themselves and appoint nobody but the applicant   *)
(* it selects.  A selection and a decision that selects nobody are open    *)
(* only while no selection stands, because the vacancy's row keeps them    *)
(* apart from each other; a rescission whose selection row was not marked  *)
(* since takes the appointee's row along.                                  *)

Rowsets == UNION {[S -> GoodRows] : S \in SUBSET Apps}

Requests == [op : Operations \cup {Blank}, app : Apps \cup {NoApp}, to : Rowsets,
             current : BOOLEAN]

Deciding == {"select", "no_appointment"}

(* What the rows a request is going to write promise.                      *)
Planned(r) ==
  \A a \in DOMAIN r.to :
    /\ r.to[a].lockedStage # "completion"
    /\ NotAppointed(r.to[a]) \/ (r.op = "select" /\ a = r.app)
    /\ r.to[a].status = "rejected" => r.op \in Deciding

RaceOK ==
  /\ car \in CarReport /\ selection \in Apps \cup {NoApp}
  /\ Standing(case, Selected)
  /\ \A a \in Apps : case[a].lockedStage # "completion"
  /\ request \in [Desks -> Requests]
  /\ \A d \in Desks : Planned(request[d])
  /\ \A d \in Desks : request[d].op \in Deciding => selection = NoApp
  /\ \A d, e \in Desks :
       request[d].op \in VacancyLocked /\ request[e].op \in VacancyLocked => d = e
  /\ \A d \in Desks : request[d].op = "select" => request[d].app \in Apps
  /\ \A d \in Desks : request[d].op = "rescind" /\ request[d].current =>
                        selection \in Apps /\ selection \in DOMAIN request[d].to

(* Rows for some of the applications are a set of rows a request may hold. *)
LEMMA SomeRows ==
  ASSUME NEW S \in SUBSET Apps, NEW to \in [S -> GoodRows]
  PROVE  to \in Rowsets
  BY DEF Rowsets

LEMMA RowsHeld ==
  ASSUME NEW to \in Rowsets
  PROVE  DOMAIN to \subseteq Apps /\ \A a \in DOMAIN to : to[a] \in GoodRows
  BY DEF Rowsets

(* A read adds one request; what it checks is asked of the rows it plans.  *)
LEMMA ReadKeeps ==
  ASSUME RaceOK, NEW d \in Desks, NEW op \in Operations, NEW app \in Apps \cup {NoApp},
         NEW to \in Rowsets, Read(d, op, app, to),
         \A a \in DOMAIN to :
           /\ to[a].lockedStage # "completion"
           /\ NotAppointed(to[a]) \/ (op = "select" /\ a = app)
           /\ to[a].status = "rejected" => op \in Deciding,
         op \in Deciding => selection = NoApp,
         op = "select" => app \in Apps,
         op = "rescind" => selection \in Apps /\ selection \in DOMAIN to
  PROVE  RaceOK'
  <1> DEFINE r == [op |-> op, app |-> app, to |-> to, current |-> TRUE]
  <1>1. /\ r \in Requests /\ r.op = op /\ r.app = app /\ r.to = to
        /\ request' = [request EXCEPT ![d] = r]
        /\ VacancyRowFree(op)
        /\ UNCHANGED <<case, car, selection>>
    BY DEF Requests, Read, vars
  <1>2. Planned(r)
    BY <1>1 DEF Planned
  <1> HIDE DEF r
  <1>3. /\ request' \in [Desks -> Requests] /\ request'[d] = r
        /\ \A e \in Desks \ {d} : request'[e] = request[e]
    BY <1>1 DEF RaceOK
  <1>4. \A e \in Desks : Planned(request'[e])
    BY <1>2, <1>3 DEF RaceOK
  <1>5. \A e, f \in Desks :
          request'[e].op \in VacancyLocked /\ request'[f].op \in VacancyLocked => e = f
    BY <1>1, <1>3 DEF RaceOK, VacancyRowFree
  <1>6. /\ \A e \in Desks : request'[e].op \in Deciding => selection = NoApp
        /\ \A e \in Desks : request'[e].op = "select" => request'[e].app \in Apps
        /\ \A e \in Desks : request'[e].op = "rescind" /\ request'[e].current =>
                              selection \in Apps /\ selection \in DOMAIN request'[e].to
    BY <1>1, <1>3 DEF RaceOK
  <1>7. Standing(case', Selected') /\ \A a \in Apps : case'[a].lockedStage # "completion"
    <2>1. Selected' = Selected
      BY <1>1 DEF Selected
    <2> QED
      BY <1>1, <2>1 DEF RaceOK
  <1> QED
    BY <1>1, <1>3, <1>4, <1>5, <1>6, <1>7 DEF RaceOK

(* What the rows a request reads become, by the operation they are for.    *)
LEMMA ReviewRows ==
  ASSUME RaceOK, NEW moving \in SUBSET Apps, NEW status, NEW role,
         <<status, role>> \in {<<"hrmpsb_review", "hrmpsb_member">>,
           <<"appointing_authority_review", "appointing_authority">>}
  PROVE  LET to == [a \in moving |-> Moved(case[a], status, role)]
         IN  /\ to \in Rowsets /\ DOMAIN to = moving
             /\ \A a \in DOMAIN to : to[a].lockedStage # "completion" /\ NotAppointed(to[a])
                                     /\ to[a].status # "rejected"
  <1> DEFINE to == [a \in moving |-> Moved(case[a], status, role)]
  <1>1. ASSUME NEW a \in moving
        PROVE  /\ Moved(case[a], status, role) \in GoodRows
               /\ NotAppointed(Moved(case[a], status, role))
               /\ Moved(case[a], status, role).status # "rejected"
    <2>1. case[a] \in CaseRow
      BY DEF RaceOK, Standing, GoodRows
    <2>2. Moved(case[a], status, role).status = status
      BY DEF Moved, ReviewStages
    <2> QED
      BY <2>1, <2>2, MovedToAuthority, MovedToPanel
  <1>2. to \in Rowsets
    BY <1>1, SomeRows
  <1> QED
    BY <1>1, <1>2 DEF NotAppointed

LEMMA ReportKeeps ==
  ASSUME RaceOK, NEW d \in Desks, ReadReport(d) PROVE RaceOK'
  <1>1. AtPanel \in SUBSET Apps /\ Read(d, "report", NoApp, ToAuthority(AtPanel))
    BY DEF AtPanel, ReadReport
  <1>2. /\ ToAuthority(AtPanel) \in Rowsets
        /\ \A a \in DOMAIN ToAuthority(AtPanel) :
             /\ ToAuthority(AtPanel)[a].lockedStage # "completion"
             /\ NotAppointed(ToAuthority(AtPanel)[a])
             /\ ToAuthority(AtPanel)[a].status # "rejected"
    BY <1>1, ReviewRows DEF ToAuthority
  <1>3. "report" \in Operations /\ "report" \notin Deciding
    BY DEF Operations, Deciding
  <1> QED
    BY <1>1, <1>2, <1>3, ReadKeeps

LEMMA TakingBackKeeps ==
  ASSUME RaceOK, NEW d \in Desks, ReadRescission(d) PROVE RaceOK'
  <1>1. /\ Read(d, "rescind", selection, ToAuthority(Restored))
        /\ selection \in Apps /\ Restored \in SUBSET Apps /\ selection \in Restored
    BY DEF ReadRescission, CanRescind, Restored, RaceOK, CarReport
  <1>2. /\ ToAuthority(Restored) \in Rowsets /\ DOMAIN ToAuthority(Restored) = Restored
        /\ \A a \in DOMAIN ToAuthority(Restored) :
             /\ ToAuthority(Restored)[a].lockedStage # "completion"
             /\ NotAppointed(ToAuthority(Restored)[a])
             /\ ToAuthority(Restored)[a].status # "rejected"
    BY <1>1, ReviewRows DEF ToAuthority
  <1>3. "rescind" \in Operations /\ "rescind" \notin Deciding
    BY DEF Operations, Deciding
  <1> QED
    BY <1>1, <1>2, <1>3, ReadKeeps

(* A candidate the authority holds, and what a decision makes of them.     *)
LEMMA DecidedRows ==
  ASSUME RaceOK, CanDecide, NEW a \in Contenders
  PROVE  /\ a \in Apps
         /\ LET out == Moved(case[a], "rejected", Blank)
            IN  out \in GoodRows /\ NotAppointed(out)
         /\ LET in == Moved(case[a], "approved", CompletionOwner(Level))
            IN  in \in GoodRows /\ in.lockedStage # "completion" /\ in.status # "rejected"
  <1>1. a \in Apps /\ WithAuthority(a) /\ case[a] \in GoodRows
    BY DEF Contenders, CanDecide, RaceOK, CarReport, Standing
  <1>2. case[a].caseStatus = "active" /\ NotAppointed(case[a])
    BY <1>1 DEF WithAuthority, GoodRows, RowAligned, InReview, NotAppointed, ReviewStages, Blank
  <1>3. LET out == Moved(case[a], "rejected", Blank)
        IN  out \in GoodRows /\ NotAppointed(out)
    BY <1>1, <1>2, ClosedRow
  <1>4. LET in == Moved(case[a], "approved", CompletionOwner(Level))
        IN  in \in GoodRows /\ in.lockedStage # "completion" /\ in.status # "rejected"
    <2>1. case[a] \in CaseRow
      BY <1>1 DEF GoodRows
    <2>2. Moved(case[a], "approved", CompletionOwner(Level)) \in GoodRows
      BY <2>1, MovedToCompletion
    <2>3. /\ Moved(case[a], "approved", CompletionOwner(Level)).lockedStage = Blank
          /\ Moved(case[a], "approved", CompletionOwner(Level)).status = "approved"
      BY DEF Moved, CompletionOwner, ReviewStages, ScreeningStages, Blank
    <2> QED
      BY <2>2, <2>3 DEF Blank
  <1> QED
    BY <1>1, <1>3, <1>4

LEMMA DecidingKeeps ==
  ASSUME RaceOK, NEW d \in Desks, ReadDecision(d) PROVE RaceOK'
  <1>1. CanDecide /\ selection = NoApp /\ Contenders \in SUBSET Apps
    BY DEF ReadDecision, CanDecide, Contenders, RaceOK, CarReport
  <1>2. /\ {"select", "no_appointment", "return"} \subseteq Operations
        /\ Deciding = {"select", "no_appointment"}
    BY DEF Operations, Deciding
  <1>3. ASSUME NEW winner \in Contenders, Read(d, "select", winner, SelectionOf(winner))
        PROVE  RaceOK'
    <2> DEFINE to == SelectionOf(winner)
    <2>1. DOMAIN to = Contenders
      BY DEF SelectionOf
    <2>2. ASSUME NEW a \in Contenders
          PROVE  /\ to[a] \in GoodRows /\ to[a].lockedStage # "completion"
                 /\ NotAppointed(to[a]) \/ a = winner
      <3>1. to[a] = IF a = winner THEN Moved(case[a], "approved", CompletionOwner(Level))
                                  ELSE Moved(case[a], "rejected", Blank)
        BY DEF SelectionOf
      <3> QED
        BY <1>1, <3>1, DecidedRows DEF NotAppointed
    <2>3. to = [a \in Contenders |-> to[a]]
      BY DEF SelectionOf
    <2> HIDE DEF to
    <2>4. to \in [Contenders -> GoodRows]
      BY <2>2, <2>3
    <2>5. to \in Rowsets
      BY <1>1, <2>4, SomeRows
    <2> QED
      BY <1>1, <1>2, <1>3, <2>1, <2>2, <2>5, ReadKeeps DEF to
  <1>4. ASSUME Read(d, "no_appointment", NoApp,
                    [a \in Contenders |-> Moved(case[a], "rejected", Blank)])
        PROVE  RaceOK'
    <2> DEFINE to == [a \in Contenders |-> Moved(case[a], "rejected", Blank)]
    <2>1. \A a \in Contenders : to[a] \in GoodRows /\ NotAppointed(to[a])
      BY <1>1, DecidedRows
    <2>2. DOMAIN to = Contenders /\ to \in [Contenders -> GoodRows]
      BY <2>1
    <2>3. Read(d, "no_appointment", NoApp, to)
      BY <1>4
    <2> HIDE DEF to
    <2>4. to \in Rowsets
      BY <1>1, <2>2, SomeRows
    <2> QED
      BY <1>1, <1>2, <2>1, <2>2, <2>3, <2>4, ReadKeeps DEF NotAppointed
  <1>5. ASSUME Read(d, "return", NoApp, ToPanel(Contenders))
        PROVE  RaceOK'
    <2>1. /\ ToPanel(Contenders) \in Rowsets
          /\ \A a \in DOMAIN ToPanel(Contenders) :
               /\ ToPanel(Contenders)[a].lockedStage # "completion"
               /\ NotAppointed(ToPanel(Contenders)[a])
               /\ ToPanel(Contenders)[a].status # "rejected"
      BY <1>1, ReviewRows DEF ToPanel
    <2> QED
      BY <1>2, <1>5, <2>1, ReadKeeps
  <1> QED
    BY <1>3, <1>4, <1>5 DEF ReadDecision

LEMMA WithdrawalKeeps ==
  ASSUME RaceOK, NEW d \in Desks, NEW a \in Apps, ReadWithdrawal(d, a) PROVE RaceOK'
  <1> DEFINE out == Moved(case[a], "withdrawn", Blank)
             to == [b \in {a} |-> Moved(case[b], "withdrawn", Blank)]
  <1>1. /\ case[a].caseStatus \in {"active", "awaiting"}
        /\ case[a].stage # "completion"
        /\ Read(d, "withdraw", NoApp, to)
    BY DEF ReadWithdrawal, CanRecordWithdrawal, InFlight
  <1>2. case[a] \in GoodRows
    BY DEF RaceOK, Standing
  <1>3. out \in GoodRows /\ NotAppointed(out)
    BY <1>1, <1>2, MovedToClosed
  <1>4. out.status = "withdrawn"
    BY DEF Moved, ReviewStages, ScreeningStages
  <1>5. DOMAIN to = {a} /\ to[a] = out /\ to \in [{a} -> GoodRows]
    BY <1>3
  <1> HIDE DEF out, to
  <1>6. to \in Rowsets
    BY <1>5, SomeRows
  <1>7. "withdraw" \in Operations
    BY DEF Operations
  <1> QED
    BY <1>1, <1>3, <1>4, <1>5, <1>6, <1>7, ReadKeeps DEF NotAppointed, Deciding

LEMMA BringingBackKeeps ==
  ASSUME RaceOK, NEW d \in Desks, NEW a \in Apps, ReadReopening(d, a) PROVE RaceOK'
  <1> DEFINE stage == case[a].lockedStage
             back == Moved(case[a], StatusForStage(stage), StageOwner(stage, Level))
             to == [b \in {a} |->
                      Moved(case[b], StatusForStage(stage), StageOwner(stage, Level))]
  <1>1. /\ case[a].locked /\ StatusForStage(stage) # Blank
        /\ Read(d, "reopen", NoApp, to)
    BY DEF ReadReopening, CanReopen
  <1>2. case[a] \in GoodRows /\ case[a] \in CaseRow /\ stage # "completion"
    BY DEF RaceOK, Standing, GoodRows
  <1>3. stage \in ReviewStages /\ StatusForStage(stage) = stage
    BY <1>1, <1>2 DEF StatusForStage
  <1>4. stage \in StepStages(Branch, Level)
    BY <1>1, <1>2, LockedRow
  <1>5. back \in GoodRows /\ NotAppointed(back)
    BY <1>2, <1>3, <1>4, MovedToReview
  <1>6. back.status # "rejected"
    BY <1>3 DEF Moved, ReviewStages, ScreeningStages
  <1>7. DOMAIN to = {a} /\ to[a] = back /\ to \in [{a} -> GoodRows]
    BY <1>5
  <1> HIDE DEF back, to
  <1>8. to \in Rowsets
    BY <1>7, SomeRows
  <1>9. "reopen" \in Operations
    BY DEF Operations
  <1> QED
    BY <1>1, <1>5, <1>6, <1>7, <1>8, <1>9, ReadKeeps DEF NotAppointed, Deciding

(* What closing a request and marking the rows of others leaves of the     *)
(* requests: the committed one is gone, the others at most not current.    *)
LEMMA IdleRequest ==
  /\ Idle \in Requests /\ Idle.op = Blank /\ Idle.to = <<>> /\ Planned(Idle)
  /\ Blank \notin Operations
  <1>1. DOMAIN <<>> = {} /\ <<>> = [a \in {} |-> a] /\ {} \in SUBSET Apps
    OBVIOUS
  <1>2. <<>> \in [{} -> GoodRows]
    BY <1>1
  <1>3. <<>> \in Rowsets
    BY <1>1, <1>2, SomeRows
  <1>4. Idle.op = Blank /\ Idle.to = <<>> /\ Idle \in Requests
    BY <1>3 DEF Idle, Requests
  <1>5. Planned(Idle)
    BY <1>1, <1>4 DEF Planned
  <1> QED
    BY <1>4, <1>5 DEF Blank, Operations

LEMMA OldRequest ==
  ASSUME NEW r \in Requests
  PROVE  LET old == [r EXCEPT !.current = FALSE]
         IN  /\ old \in Requests /\ old.op = r.op /\ old.app = r.app /\ old.to = r.to
             /\ ~old.current
  BY DEF Requests

LEMMA RequestsLeft ==
  ASSUME RaceOK, NEW d \in Desks, request' = RequestsAfter(d)
  PROVE  /\ request' \in [Desks -> Requests] /\ request'[d] = Idle
         /\ \A e \in Desks \ {d} :
              /\ request'[e].op = request[e].op /\ request'[e].app = request[e].app
              /\ request'[e].to = request[e].to
              /\ request'[e].current => request[e].current
              /\ request'[e].current /\ request[e].op = request[d].op
                 /\ request[e].op \in {"rescind", "return"} => ~request[d].current
  <1>1. request' = [e \in Desks |-> RequestsAfter(d)[e]]
    BY DEF RequestsAfter
  <1>2. RequestsAfter(d)[d] = Idle
    BY DEF RequestsAfter
  <1>3. ASSUME NEW e \in Desks, e # d
        PROVE  \/ /\ RequestsAfter(d)[e] = [request[e] EXCEPT !.current = FALSE]
                  /\ request[d].current
               \/ /\ RequestsAfter(d)[e] = request[e]
                  /\ ~ /\ request[d].current
                       /\ request[e].op = request[d].op
                       /\ request[e].op \in {"rescind", "return"}
    BY <1>3 DEF RequestsAfter
  <1>4. ASSUME NEW e \in Desks, e # d
        PROVE  /\ RequestsAfter(d)[e] \in Requests
               /\ RequestsAfter(d)[e].op = request[e].op
               /\ RequestsAfter(d)[e].app = request[e].app
               /\ RequestsAfter(d)[e].to = request[e].to
               /\ RequestsAfter(d)[e].current => request[e].current
               /\ RequestsAfter(d)[e].current /\ request[e].op = request[d].op
                  /\ request[e].op \in {"rescind", "return"} => ~request[d].current
    <2>1. request[e] \in Requests
      BY <1>4 DEF RaceOK
    <2>2. CASE RequestsAfter(d)[e] = [request[e] EXCEPT !.current = FALSE]
      BY <2>1, <2>2, OldRequest
    <2>3. CASE /\ RequestsAfter(d)[e] = request[e]
               /\ ~ /\ request[d].current
                    /\ request[e].op = request[d].op
                    /\ request[e].op \in {"rescind", "return"}
      BY <2>1, <2>3
    <2> QED
      BY <1>3, <1>4, <2>2, <2>3
  <1> QED
    BY <1>1, <1>2, <1>4, IdleRequest

(* The requests left keep what RaceOK asks of them if a selection that     *)
(* changes does so for a reason they know of.                              *)
LEMMA RequestsKeep ==
  ASSUME RaceOK, NEW d \in Desks,
         request' \in [Desks -> Requests], request'[d] = Idle,
         \A e \in Desks \ {d} :
           /\ request'[e].op = request[e].op /\ request'[e].app = request[e].app
           /\ request'[e].to = request[e].to
           /\ request'[e].current => request[e].current,
         selection' \in Apps \cup {NoApp}, car' \in CarReport,
         selection' = selection \/ selection' = NoApp \/ request[d].op \in Deciding,
         \A e \in Desks \ {d} :
           request'[e].op = "rescind" /\ request'[e].current => selection' = selection,
         Standing(case', Selected'), \A a \in Apps : case'[a].lockedStage # "completion"
  PROVE  RaceOK'
  <1> USE IdleRequest
  <1>1. Deciding \subseteq VacancyLocked /\ VacancyLocked \subseteq Operations
        /\ "rescind" \in Operations /\ "select" \in Deciding
    BY DEF Deciding, VacancyLocked, Operations
  <1>2. \A e \in Desks : Planned(request'[e])
    <2>1. ASSUME NEW e \in Desks, e # d PROVE Planned(request'[e])
      BY <2>1 DEF RaceOK, Planned
    <2> QED
      BY <2>1
  <1>3. \A e, f \in Desks :
          request'[e].op \in VacancyLocked /\ request'[f].op \in VacancyLocked => e = f
    BY <1>1 DEF RaceOK
  <1>4. \A e \in Desks : request'[e].op \in Deciding => selection' = NoApp
    <2>1. ASSUME NEW e \in Desks, e # d, request'[e].op \in Deciding
          PROVE  selection' = NoApp
      BY <1>1, <2>1 DEF RaceOK
    <2> QED
      BY <1>1, <2>1
  <1>5. \A e \in Desks : request'[e].op = "select" => request'[e].app \in Apps
    BY <1>1 DEF RaceOK
  <1>6. \A e \in Desks : request'[e].op = "rescind" /\ request'[e].current =>
                           selection' \in Apps /\ selection' \in DOMAIN request'[e].to
    <2>1. ASSUME NEW e \in Desks, e # d, request'[e].op = "rescind", request'[e].current
          PROVE  selection' \in Apps /\ selection' \in DOMAIN request'[e].to
      BY <2>1 DEF RaceOK
    <2> QED
      BY <1>1, <2>1
  <1> QED
    BY <1>2, <1>3, <1>4, <1>5, <1>6 DEF RaceOK

LEMMA RollBackKeeps ==
  ASSUME RaceOK, NEW d \in Desks, RollBack(d) PROVE RaceOK'
  <1>1. request' = [request EXCEPT ![d] = Idle] /\ UNCHANGED <<case, car, selection>>
    BY DEF RollBack, vars
  <1>2. /\ request' \in [Desks -> Requests] /\ request'[d] = Idle
        /\ \A e \in Desks \ {d} : request'[e] = request[e]
    BY <1>1, IdleRequest DEF RaceOK
  <1>3. Standing(case', Selected') /\ \A a \in Apps : case'[a].lockedStage # "completion"
    <2>1. Selected' = Selected
      BY <1>1 DEF Selected
    <2> QED
      BY <1>1, <2>1 DEF RaceOK
  <1>4. selection' \in Apps \cup {NoApp} /\ car' \in CarReport /\ selection' = selection
    BY <1>1 DEF RaceOK
  <1> QED
    BY <1>2, <1>3, <1>4, RequestsKeep

(* A commit writes the rows that were planned, over whatever was committed *)
(* since they were read.                                                   *)
LEMMA CommitKeeps ==
  ASSUME RaceOK, NEW d \in Desks, Commit(d) PROVE RaceOK'
  <1> DEFINE r == request[d]
  <1>1. /\ r # Idle /\ (r.op = "select" => selection = NoApp)
        /\ case' = RowsWritten(r.to)
        /\ selection' = SelectionAfter(r)
        /\ car' = CarAfter(r)
        /\ request' = RequestsAfter(d)
    BY DEF Commit
  <1>2. /\ r \in Requests /\ Planned(r)
        /\ r.op = "select" => r.app \in Apps
        /\ r.op = "rescind" /\ r.current => selection \in Apps /\ selection \in DOMAIN r.to
    BY DEF RaceOK
  <1>3. DOMAIN r.to \subseteq Apps /\ \A a \in DOMAIN r.to : r.to[a] \in GoodRows
    BY <1>2, RowsHeld DEF Requests
  <1>4. /\ request' \in [Desks -> Requests] /\ request'[d] = Idle
        /\ \A e \in Desks \ {d} :
             /\ request'[e].op = request[e].op /\ request'[e].app = request[e].app
             /\ request'[e].to = request[e].to
             /\ request'[e].current => request[e].current
             /\ request'[e].current /\ request[e].op = r.op
                /\ request[e].op \in {"rescind", "return"} => ~r.current
    BY <1>1, RequestsLeft
  <1> HIDE DEF r
  <1>5. selection' = IF r.op = "select" THEN r.app
                     ELSE IF r.op = "rescind" /\ r.current THEN NoApp ELSE selection
    BY <1>1 DEF SelectionAfter
  <1>6. selection' \in Apps \cup {NoApp}
    BY <1>2, <1>5 DEF RaceOK
  <1>7. car' \in CarReport
    <2>1. car \in CarReport
      BY DEF RaceOK
    <2>2. CASE r.op = "report"
      <3>1. car' = [car EXCEPT !.final = TRUE, !.items = DOMAIN r.to]
        BY <1>1, <2>2 DEF CarAfter
      <3> QED
        BY <1>3, <2>1, <3>1 DEF CarReport
    <2>3. CASE r.op # "report"
      <3>1. car' = [car EXCEPT !.final = FALSE] \/ car' = car
        BY <1>1, <2>3 DEF CarAfter
      <3> QED
        BY <2>1, <3>1 DEF CarReport
    <2> QED
      BY <2>2, <2>3
  <1>8. \A a \in Apps : case'[a] = IF a \in DOMAIN r.to THEN r.to[a] ELSE case[a]
    BY <1>1 DEF RowsWritten
  <1>9. case' \in [Apps -> GoodRows] /\ \A a \in Apps : case'[a].lockedStage # "completion"
    <2>1. case' = [a \in Apps |-> case'[a]]
      BY <1>1 DEF RowsWritten
    <2>2. \A a \in Apps : case'[a] \in GoodRows /\ case'[a].lockedStage # "completion"
      BY <1>2, <1>3, <1>8 DEF RaceOK, Standing, Planned
    <2> QED
      BY <2>1, <2>2
  <1>10. ASSUME NEW a \in Apps PROVE NotAppointed(case'[a]) \/ a \in Selected'
    <2>1. CASE a \in DOMAIN r.to
      <3>1. NotAppointed(r.to[a]) \/ (r.op = "select" /\ a = r.app)
        BY <1>2, <2>1 DEF Planned
      <3> QED
        BY <1>5, <1>8, <2>1, <3>1, NoAppAssumption DEF Selected
    <2>2. CASE a \notin DOMAIN r.to
      <3>1. NotAppointed(case[a]) \/ (a = selection /\ selection # NoApp)
        BY DEF RaceOK, Standing, Selected
      <3>2. CASE a = selection /\ selection # NoApp
        <4>1. selection' = selection
          BY <1>1, <1>2, <1>5, <2>2, <3>2
        <4> QED
          BY <3>2, <4>1 DEF Selected
      <3> QED
        BY <1>8, <2>2, <3>1, <3>2
    <2> QED
      BY <2>1, <2>2
  <1>11. Standing(case', Selected')
    BY <1>9, <1>10 DEF Standing
  <1>12. selection' = selection \/ selection' = NoApp \/ r.op \in Deciding
    BY <1>5 DEF Deciding
  <1>13. ASSUME NEW e \in Desks \ {d}, request'[e].op = "rescind", request'[e].current
         PROVE  selection' = selection
    <2>1. request[e].op = "rescind" /\ request[e].current
      BY <1>4, <1>13
    <2>2. selection \in Apps
      BY <2>1 DEF RaceOK
    <2>3. ~(r.op = "rescind" /\ r.current)
      BY <1>4, <1>13, <2>1
    <2>4. r.op # "select"
      BY <1>1, <2>2, NoAppAssumption
    <2> QED
      BY <1>5, <2>3, <2>4
  <1> QED
    BY <1>4, <1>6, <1>7, <1>9, <1>11, <1>12, <1>13, RequestsKeep DEF r

(* The vacancy starts at the authority's step with no request open.        *)
LEMMA RaceStarts ==
  ASSUME RaceInit PROVE RaceOK
  <1>1. /\ case = [a \in Apps |-> AtAuthority]
        /\ car = [drafted |-> TRUE, final |-> TRUE, items |-> Apps]
        /\ selection = NoApp /\ request = [d \in Desks |-> Idle]
    BY DEF RaceInit
  <1>2. AtAuthority = [status |-> "appointing_authority_review",
                       stage |-> "appointing_authority_review", caseStatus |-> "active",
                       handler |-> "appointing_authority", locked |-> FALSE,
                       lockedStage |-> Blank]
    <2> DEFINE no == FALSE
               draft == [status |-> "draft", stage |-> Blank, caseStatus |-> Blank,
                         handler |-> Blank, locked |-> no, lockedStage |-> Blank]
    <2>1. AtAuthority = [draft EXCEPT !.status = "appointing_authority_review",
                                      !.stage = "appointing_authority_review",
                                      !.caseStatus = "active",
                                      !.handler = "appointing_authority"]
      BY Zenon DEF AtAuthority, DraftCase
    <2> HIDE DEF no
    <2>2. AtAuthority = [status |-> "appointing_authority_review",
                         stage |-> "appointing_authority_review", caseStatus |-> "active",
                         handler |-> "appointing_authority", locked |-> no,
                         lockedStage |-> Blank]
      BY <2>1
    <2> QED
      BY <2>2, Zenon DEF no
  <1>3. AtAuthority = Moved(DraftCase, "appointing_authority_review", "appointing_authority")
    BY <1>2 DEF Moved, ReviewStages
  <1>4. DraftCase \in CaseRow
    BY DEF DraftCase, CaseRow, Statuses, Stages, CaseStatuses, Roles, Blank
  <1>5. AtAuthority \in GoodRows /\ NotAppointed(AtAuthority)
    BY <1>3, <1>4, MovedToAuthority
  <1>6. Standing(case, Selected) /\ \A a \in Apps : case[a].lockedStage # "completion"
    BY <1>1, <1>5 DEF Standing, NotAppointed
  <1>7. car \in CarReport
    BY <1>1 DEF CarReport
  <1>8. /\ request \in [Desks -> Requests]
        /\ \A d \in Desks : request[d].op = Blank /\ Planned(request[d])
    BY <1>1, IdleRequest
  <1>9. Blank \notin VacancyLocked /\ Blank \notin Deciding /\ Blank # "rescind"
    BY DEF Blank, VacancyLocked, Deciding
  <1> QED
    BY <1>1, <1>6, <1>7, <1>8, <1>9 DEF RaceOK, Deciding

LEMMA RaceStep ==
  ASSUME RaceOK, [RaceNext]_raceVars PROVE RaceOK'
  <1>1. CASE UNCHANGED raceVars
    <2>1. UNCHANGED <<case, car, selection, request>> /\ Selected' = Selected
      BY <1>1 DEF raceVars, vars, Selected
    <2> QED
      BY <2>1 DEF RaceOK
  <1>2. ASSUME NEW d \in Desks, NEW a \in Apps, ReadWithdrawal(d, a) \/ ReadReopening(d, a)
        PROVE  RaceOK'
    BY <1>2, WithdrawalKeeps, BringingBackKeeps
  <1>3. ASSUME NEW d \in Desks,
               \/ ReadDecision(d) \/ ReadReport(d) \/ ReadRescission(d)
               \/ Commit(d) \/ RollBack(d)
        PROVE  RaceOK'
    BY <1>3, DecidingKeeps, ReportKeeps, TakingBackKeeps, CommitKeeps, RollBackKeeps
  <1> QED
    BY <1>1, <1>2, <1>3 DEF RaceNext

(* The invariant of the overlapping requests.                              *)
THEOREM RaceInvariance == RaceSpec => []RaceOK
  BY RaceStarts, RaceStep, PTL DEF RaceSpec

(* However the seven operations overlap, and whichever of them overwrites  *)
(* what another committed since it read: nobody but the applicant of the   *)
(* standing selection is appointed.                                        *)
THEOREM RaceAppointsTheSelected == RaceSpec => []AppointedIsSelected
<1>1. RaceOK => AppointedIsSelected
  BY DEF RaceOK, Standing, NotAppointed, Selected, AppointedIsSelected
<1> QED
  BY <1>1, RaceInvariance, PTL

(* A commit over another's leaves rows that still tell one story.          *)
THEOREM RaceAligned == RaceSpec => []CaseAlignment
<1>1. RaceOK => CaseAlignment
  BY DEF RaceOK, Standing, GoodRows, CaseAlignment
<1> QED
  BY <1>1, RaceInvariance, PTL

(* Decisions do not overlap: the lock of the vacancy's row keeps the two   *)
(* that close candidates apart from each other, and the database refuses a *)
(* second selection, so nothing that was being decided closes the          *)
(* appointee as not selected.                                              *)
THEOREM DecisionsKeptApart == RaceSpec => DecisionsDoNotOverlap
<1>1. ASSUME RaceOK, [RaceNext]_raceVars, selection # NoApp
      PROVE  /\ selection' \in {selection, NoApp}
             /\ (selection' = selection /\ case[selection].status = "approved")
                  => case'[selection].status # "rejected"
  <2>1. CASE UNCHANGED vars
    BY <2>1 DEF vars
  <2>2. ASSUME NEW d \in Desks, Commit(d)
        PROVE  /\ selection' \in {selection, NoApp}
               /\ (selection' = selection /\ case[selection].status = "approved")
                    => case'[selection].status # "rejected"
    <3> DEFINE r == request[d]
    <3>1. /\ r.op = "select" => selection = NoApp
          /\ case' = RowsWritten(r.to)
          /\ selection' = SelectionAfter(r)
      BY <2>2 DEF Commit
    <3>2. Planned(r) /\ r.op \notin Deciding /\ selection \in Apps
      BY <1>1 DEF RaceOK
    <3> HIDE DEF r
    <3>3. selection' \in {selection, NoApp}
      BY <1>1, <3>1 DEF SelectionAfter
    <3>4. case'[selection] =
            IF selection \in DOMAIN r.to THEN r.to[selection] ELSE case[selection]
      BY <3>1, <3>2 DEF RowsWritten
    <3>5. case[selection].status = "approved" => case'[selection].status # "rejected"
      BY <3>2, <3>4 DEF Planned
    <3> QED
      BY <3>3, <3>5
  <2>3. ASSUME NEW d \in Desks,
               \/ ReadDecision(d) \/ ReadReport(d) \/ ReadRescission(d) \/ RollBack(d)
               \/ \E a \in Apps : ReadWithdrawal(d, a) \/ ReadReopening(d, a)
        PROVE  UNCHANGED vars
    BY <2>3 DEF ReadDecision, ReadReport, ReadRescission, RollBack, ReadWithdrawal,
                ReadReopening, Read
  <2> QED
    BY <1>1, <2>1, <2>2, <2>3 DEF RaceNext, raceVars
<1>2. RaceOK /\ [RaceNext]_raceVars =>
        (selection # NoApp =>
           /\ selection' \in {selection, NoApp}
           /\ (selection' = selection /\ case[selection].status = "approved")
                => case'[selection].status # "rejected")
  BY <1>1
<1> QED
  BY <1>2, RaceInvariance, PTL DEF RaceSpec, DecisionsDoNotOverlap
=============================================================================
