----------------------------- MODULE CaseWorkflow -----------------------------
(***************************************************************************)
(* The recruitment cases of one vacancy: the stage machine every movement  *)
(* goes through (routing.transition_case) and the operations both branches *)
(* share: submission, screening, document returns, the batch exam, the     *)
(* batch interview, absences, batch loans, withdrawal, cancellation,       *)
(* reopening and completion.                                               *)
(*                                                                         *)
(* The module declares the state and the operations.  PlantillaVacancy and *)
(* CosVacancy extend it with the selection of their branch and compose     *)
(* Init, Next and the specification.                                       *)
(*                                                                         *)
(* Every operation is one atomic transaction here.                         *)
(*                                                                         *)
(* A definition whose name starts with Faulty is the one after it with a   *)
(* slip somebody could have made; no specification uses it, the mutation   *)
(* runs put it in the place of the real one.                               *)
(***************************************************************************)
EXTENDS WorkflowMap, FiniteSets

CONSTANTS
  Apps,      \* the applications of the vacancy
  Branch,    \* "plantilla" or "cos"
  Level,     \* 1 or 2
  OpenPool,  \* a COS vacancy with continuous intake: no closing date
  NoApp      \* no application

ASSUME BranchAssumption == Branch \in Branches
ASSUME LevelAssumption == Level \in Levels
ASSUME OpenPoolAssumption == OpenPool \in BOOLEAN /\ (OpenPool => Branch = "cos")
ASSUME NoAppAssumption == NoApp \notin Apps

VARIABLES
  case,       \* the case row and the application's status, per application
  overrides,  \* the applications with an active secretariat override
  file,       \* the records kept on each application, per application
  posting     \* the vacancy's status and where today is in its period

-----------------------------------------------------------------------------
(* Types *)

Statuses == {"draft", "returned", "approved", "rejected", "withdrawn",
             "vacancy_cancelled"} \cup ReviewStages
CaseStatuses == {Blank, "active", "awaiting", "approved", "rejected",
                 "withdrawn", "vacancy_cancelled"}

CaseRow == [status      : Statuses,
            stage       : Stages \cup {Blank},
            caseStatus  : CaseStatuses,
            handler     : Roles \cup {Blank},
            locked      : BOOLEAN,
            lockedStage : Stages \cup {Blank}]

(* A record that is not finalized has the verdict Blank or the exam result *)
(* "open"; flagged is a document marked for resubmission.                  *)
ScreeningRecord == [verdict : {Blank, "qualified", "not_qualified"},
                    flagged : BOOLEAN]
ExamRecord      == {"open", "completed", "absent", "waived"}

(* ratings is "quorum" once enough distinct members have rated.            *)
InterviewSession == [state   : {Blank, "open", "final"},
                     ratings : {"none", "some", "quorum"},
                     absent  : BOOLEAN]

Assessments == {"examination", "interview"}

(* How far what closing asks for has been recorded.                        *)
CompletionRecord == {Blank, "tracked", "referenced", "ready", "voided"}

(* absence is the review stage of the pending exception of an assessment;  *)
(* "decided" remembers an earlier one where the code asks for it.          *)
ApplicationFile ==
  [screening  : [ScreeningStages -> ScreeningRecord],
   exam       : [ScreeningStages -> ExamRecord],
   notified   : BOOLEAN,
   session    : InterviewSession,
   absence    : [Assessments -> ReviewStages \cup {Blank, "decided"}],
   completion : CompletionRecord]

Posting == [status : {"active", "suspended", "closed", "cancelled"},
            day    : {"before", "closing_day", "after"}]

CaseTypeOK == /\ case \in [Apps -> CaseRow]
              /\ overrides \subseteq Apps
              /\ file \in [Apps -> ApplicationFile]
              /\ posting \in Posting

DraftCase == [status |-> "draft", stage |-> Blank, caseStatus |-> Blank,
              handler |-> Blank, locked |-> FALSE, lockedStage |-> Blank]

EmptyFile ==
  [screening  |-> [s \in ScreeningStages |-> [verdict |-> Blank, flagged |-> FALSE]],
   exam       |-> [s \in ScreeningStages |-> "open"],
   notified   |-> FALSE,
   session    |-> [state |-> Blank, ratings |-> "none", absent |-> FALSE],
   absence    |-> [k \in Assessments |-> Blank],
   completion |-> Blank]

CaseInit == /\ case = [a \in Apps |-> DraftCase]
            /\ overrides = {}
            /\ file = [a \in Apps |-> EmptyFile]
            /\ posting = [status |-> "active", day |-> "before"]

-----------------------------------------------------------------------------
(* The stage machine *)

(* The row a case has after moving to a status and handler.                *)
Moved(row, status, role) ==
  CASE status \in ReviewStages ->
         [status |-> status, stage |-> status, caseStatus |-> "active",
          handler |-> role, locked |-> FALSE, lockedStage |-> Blank]
    [] status = "returned" ->
         [row EXCEPT !.status = status, !.caseStatus = "awaiting",
                     !.handler = role, !.locked = FALSE, !.lockedStage = Blank]
    [] status = "approved" /\ role # Blank ->
         [status |-> status, stage |-> "completion", caseStatus |-> "active",
          handler |-> role, locked |-> FALSE, lockedStage |-> Blank]
    [] OTHER ->
         [status |-> status, stage |-> "closed", caseStatus |-> status,
          handler |-> Blank, locked |-> TRUE, lockedStage |-> row.stage]

(* A movement is refused when the stage disagrees with the status.         *)
InSync(row) == row.status \in ReviewStages => row.stage = row.status

(* Move every application of the domain of "to" to the row given for it.   *)
Transition(to) ==
  /\ \A a \in DOMAIN to : InSync(case[a])
  /\ case' = [a \in Apps |-> IF a \in DOMAIN to THEN to[a] ELSE case[a]]

TransitionOne(a, status, role) ==
  Transition([b \in {a} |-> Moved(case[b], status, role)])

CloseAll(closing, status) ==
  Transition([a \in closing |-> Moved(case[a], status, Blank)])

-----------------------------------------------------------------------------
(* What the services ask of the state *)

Submitted(a) == case[a].status # "draft"
ActiveUnlocked(a) == case[a].caseStatus = "active" /\ ~case[a].locked
Loanable(a) == case[a].caseStatus \in {"active", "awaiting"} /\ ~case[a].locked

CanProcess(role, a) ==
  /\ case[a].handler = role
  /\ ~case[a].locked
  /\ (role = "secretariat" /\ Level = 2) => a \in overrides

Screening(a) == file[a].screening[case[a].stage]
Exam(a)      == file[a].exam[case[a].stage]
Session(a)   == file[a].session

SectionComplete(a, section) ==
  CASE section = "screening" -> Screening(a).verdict # Blank
    [] section = "exam"      -> Exam(a) # "open"
    [] section = "interview" -> Session(a).state = "final"
    [] OTHER                 -> FALSE

(* The case is at the first section of its stage that is not complete.     *)
AtSection(a, section) ==
  LET sections == SectionsAt(Branch, case[a].stage)
  IN  /\ section \in sections
      /\ ~SectionComplete(a, section)
      /\ \A earlier \in sections :
           SectionOrder[earlier] < SectionOrder[section]
             => SectionComplete(a, earlier)

CanManageScreening(role, a) ==
  /\ role \in ScreeningReviewRoles
  /\ case[a].stage \in ScreeningStages
  /\ AtSection(a, "screening")
  /\ CanProcess(role, a)

(* The stage the pooled batch occupies: the earlier stage wins.            *)
BatchStage ==
  LET occupied == {case[a].stage : a \in {b \in Apps : ActiveUnlocked(b)}}
  IN  CASE "secretariat_review" \in occupied -> "secretariat_review"
        [] "secretariat_review" \notin occupied
             /\ "hrm_chief_review" \in occupied -> "hrm_chief_review"
        [] OTHER -> IntakeStage(Level)

OutOfBatch == {"rejected", "withdrawn", "vacancy_cancelled"}

ScreenedIn(a) ==
  /\ case[a].caseStatus # "awaiting"
  /\ Screening(a) = [verdict |-> "qualified", flagged |-> FALSE]

PendingInBatch == {a \in Apps : /\ Submitted(a)
                                /\ case[a].status \notin OutOfBatch
                                /\ case[a].stage = BatchStage
                                /\ ~ScreenedIn(a)}

BatchReady == OpenPool \/ PendingInBatch = {}

(* The applicant pool of a Plantilla vacancy is settled when it is closed  *)
(* or its closing date has passed; COS vacancies have no such gate.        *)
PoolIsFinal == Branch = "plantilla"
                 => posting.status = "closed" \/ posting.day = "after"

OpenForIntake == /\ posting.status = "active"
                 /\ OpenPool \/ posting.day # "after"

CanManageExam(role, a) ==
  /\ role \in ScreeningReviewRoles
  /\ case[a].stage \in ScreeningStages
  /\ AtSection(a, "exam")
  /\ BatchReady
  /\ CanProcess(role, a)

ExamPool == {a \in Apps : /\ ActiveUnlocked(a)
                          /\ case[a].stage = BatchStage
                          /\ AtSection(a, "exam")}

InterviewStage == IF Branch = "cos" THEN "hrm_chief_review" ELSE "hrmpsb_review"

(* The office that supports the panel of a Plantilla interview.            *)
InterviewSupportRole == IF Level = 1 THEN "secretariat" ELSE "hrm_chief"

CanSupportInterview(role, a) ==
  /\ case[a].status = "hrmpsb_review"
  /\ ActiveUnlocked(a)
  /\ AtSection(a, "interview")
  /\ role = InterviewSupportRole

(* A COS session is only ever scheduled by the HRM Chief.                  *)
CanManageInterview(role, a) ==
  IF Branch = "plantilla" THEN CanSupportInterview(role, a)
  ELSE /\ role = "hrm_chief"
       /\ AtSection(a, "interview")
       /\ CanProcess(role, a)

InterviewPool == {a \in Apps : /\ ActiveUnlocked(a)
                               /\ case[a].stage = InterviewStage
                               /\ AtSection(a, "interview")}

-----------------------------------------------------------------------------
(* The vacancy's intake period *)

NextDay ==
  /\ ~OpenPool
  /\ posting.day # "after"
  /\ posting' = [posting EXCEPT !.day = IF posting.day = "before"
                                         THEN "closing_day" ELSE "after"]
  /\ UNCHANGED <<case, overrides, file>>

(* The closing date is moved to today or later.  Refused once closed, and  *)
(* (the office policy's default) once an exam of the vacancy is scheduled. *)
ExtendIntake(day) ==
  /\ ~OpenPool
  /\ posting.status # "closed"
  /\ \/ posting.day = "after" /\ day \in {"before", "closing_day"}
     \/ posting.day = "closing_day" /\ day = "before"
  /\ \A a \in Apps : ~file[a].notified
  /\ posting' = [posting EXCEPT !.day = day]
  /\ UNCHANGED <<case, overrides, file>>

(* A vacancy whose selection stands is not opened again; an early close is *)
(* refused; a closed open pool has been given a closing date, which no     *)
(* open pool may keep, so it takes no other status.                        *)
UpdateEntryStatus(new, selectionStands) ==
  /\ posting.status \notin {"cancelled", new}
  /\ new = "active" => ~selectionStands
  /\ new = "closed" => OpenPool \/ posting.day # "before"
  /\ ~(OpenPool /\ posting.status = "closed")
  /\ posting' = [posting EXCEPT !.status = new]
  /\ UNCHANGED <<case, overrides, file>>

InFlight == {a \in Apps : case[a].caseStatus \in {"active", "awaiting"}}

CancelEntry(selectionStands) ==
  /\ posting.status # "cancelled"
  /\ ~selectionStands
  /\ posting' = [posting EXCEPT !.status = "cancelled"]
  /\ CloseAll(InFlight, "vacancy_cancelled")
  /\ UNCHANGED <<overrides, file>>

-----------------------------------------------------------------------------
(* Intake *)

SubmitApplication(a) ==
  /\ ~Submitted(a)
  /\ OpenForIntake
  /\ TransitionOne(a, StatusForStage(IntakeStage(Level)), LevelOwner(Level))
  /\ UNCHANGED <<overrides, file, posting>>

(* The applicant returns the flagged documents: the record is reopened and *)
(* the case goes back to whoever has been holding it.                      *)
SubmitDocumentResubmission(a) ==
  /\ case[a].caseStatus = "awaiting"
  /\ Screening(a).flagged
  /\ file' = [file EXCEPT ![a].screening[case[a].stage] =
                 [verdict |-> Blank, flagged |-> FALSE]]
  /\ TransitionOne(a, StatusForStage(case[a].stage), case[a].handler)
  /\ UNCHANGED <<overrides, posting>>

(* Recorded by the handler, or by the level's office while the panel or    *)
(* the authority holds the case or (Office Policy) the case is on loan.    *)
FaultyCanRecordWithdrawal(role, a) ==
  /\ a \in InFlight
  /\ role \in ScreeningReviewRoles
  /\ CanProcess(role, a) \/ role = CompletionOwner(Level)

CanRecordWithdrawal(role, a) ==
  /\ a \in InFlight
  /\ case[a].stage \notin {"completion", "closed"}
  /\ role \in ScreeningReviewRoles
  /\ CanProcess(role, a) \/ role = CompletionOwner(Level)

RecordWithdrawal(role, a) ==
  /\ CanRecordWithdrawal(role, a)
  /\ TransitionOne(a, "withdrawn", Blank)
  /\ UNCHANGED <<overrides, file, posting>>

-----------------------------------------------------------------------------
(* Screening *)

(* A draft save of the review flags documents or takes the flags off.      *)
SaveScreeningDraft(role, a, flagged) ==
  /\ CanManageScreening(role, a)
  /\ Screening(a).flagged # flagged
  /\ file' = [file EXCEPT ![a].screening[case[a].stage].flagged = flagged]
  /\ UNCHANGED <<case, overrides, posting>>

(* Qualified needs every document complied.                                *)
FinalizeQualified(role, a) ==
  /\ CanManageScreening(role, a)
  /\ case[a].caseStatus # "awaiting"
  /\ file' = [file EXCEPT ![a].screening[case[a].stage] =
                 [verdict |-> "qualified", flagged |-> FALSE]]
  /\ UNCHANGED <<case, overrides, posting>>

(* Not Qualified is always allowed and rejects in the same transaction;    *)
(* flags changed in the same submission are SaveScreeningDraft before it.  *)
FinalizeNotQualified(role, a) ==
  /\ CanManageScreening(role, a)
  /\ file' = [file EXCEPT ![a].screening[case[a].stage].verdict = "not_qualified"]
  /\ TransitionOne(a, "rejected", Blank)
  /\ overrides' = IF role = "secretariat" THEN overrides \ {a} ELSE overrides
  /\ UNCHANGED posting

ReturnDocuments(role, a) ==
  /\ CanManageScreening(role, a)
  /\ file' = [file EXCEPT ![a].screening[case[a].stage].flagged = TRUE]
  /\ TransitionOne(a, "returned", case[a].handler)
  /\ UNCHANGED <<overrides, posting>>

(* Offered at the screening section to whoever processes the case.         *)
RemoveFromBatch(role, a) ==
  /\ case[a].caseStatus = "awaiting"
  /\ CanManageScreening(role, a)
  /\ TransitionOne(a, "rejected", Blank)
  /\ UNCHANGED <<overrides, file, posting>>

-----------------------------------------------------------------------------
(* The batch exam *)

ScheduleExam(role) ==
  /\ PoolIsFinal
  /\ ExamPool # {}
  /\ \A a \in ExamPool : CanManageExam(role, a)
  /\ file' = [a \in Apps |-> IF a \in ExamPool
                               THEN [file[a] EXCEPT !.notified = TRUE]
                               ELSE file[a]]
  /\ UNCHANGED <<case, overrides, posting>>

(* A pending exception is kept, whatever stage it was recorded at.         *)
WithAbsence(record, assessment, stage) ==
  IF record.absence[assessment] \notin ReviewStages
    THEN [record EXCEPT !.absence[assessment] = stage]
    ELSE record

ExamFiled(a, result) ==
  LET filed == [file[a] EXCEPT !.exam[case[a].stage] = result]
  IN  IF result = "absent" THEN WithAbsence(filed, "examination", case[a].stage)
                           ELSE filed

(* A completed exam takes the case out of this stage.                      *)
LeavesAfterExam(stage) == \/ Branch = "plantilla" /\ stage \in ScreeningStages
                          \/ Branch = "cos" /\ stage = "secretariat_review"

(* Where a completed exam takes a case.  A Level 2 Plantilla case held by  *)
(* the Secretariat goes back to the HRM Chief and on in one transaction.   *)
AfterExam(a) ==
  CASE Branch = "plantilla" -> Moved(case[a], "hrmpsb_review", "hrmpsb_member")
    [] Branch = "cos" /\ (\/ case[a].stage = "secretariat_review"
                          \/ case[a].handler = "secretariat") ->
         Moved(case[a], "hrm_chief_review", "hrm_chief")
    [] OTHER -> case[a]

FaultyAfterExamResult(a, result) ==
  CASE result = "completed" -> AfterExam(a)
    [] result = "waived"    -> Moved(case[a], "waived", Blank)
    [] result = "absent"    -> case[a]

AfterExamResult(a, result) ==
  CASE result = "completed" -> AfterExam(a)
    [] result = "waived"    -> Moved(case[a], "rejected", Blank)
    [] result = "absent"    -> case[a]

(* An override ends when the case leaves the Secretariat that used it.     *)
OverridesAfterRouting(routed) ==
  overrides \ {a \in routed : case[a].handler = "secretariat"}

(* All or nothing: one result for every member of the pool.                *)
FinalizeExams(role, result) ==
  /\ PoolIsFinal
  /\ ExamPool # {}
  /\ DOMAIN result = ExamPool
  /\ \A a \in ExamPool : CanManageExam(role, a) /\ file[a].notified
  /\ file' = [a \in Apps |-> IF a \in ExamPool THEN ExamFiled(a, result[a])
                                                 ELSE file[a]]
  /\ Transition([a \in ExamPool |-> AfterExamResult(a, result[a])])
  /\ overrides' = OverridesAfterRouting(
                    {a \in ExamPool : result[a] = "completed"})
  /\ UNCHANGED posting

(* The maintenance command: every active case whose exam is finalized but  *)
(* has not been routed, and every case on a finalized report still with    *)
(* the panel, moves on.                                                    *)
Repair(reported) ==
  LET examined == {a \in Apps : /\ ActiveUnlocked(a)
                                /\ LeavesAfterExam(case[a].stage)
                                /\ Exam(a) # "open"}
      atPanel  == {a \in reported : /\ case[a].status = "hrmpsb_review"
                                    /\ case[a].handler = "hrmpsb_member"}
  IN  /\ examined \cup atPanel # {}
      /\ Transition([a \in examined \cup atPanel |->
           IF a \in examined THEN AfterExam(a)
           ELSE Moved(case[a], "appointing_authority_review", "appointing_authority")])
      /\ overrides' = OverridesAfterRouting(examined)
      /\ UNCHANGED <<file, posting>>

-----------------------------------------------------------------------------
(* The batch interview *)

ScheduleInterviews(role) ==
  /\ PoolIsFinal
  /\ InterviewPool # {}
  /\ \A a \in InterviewPool :
       /\ CanManageInterview(role, a)
       /\ Session(a).absent => Session(a).ratings = "none"
  /\ file' = [a \in Apps |-> IF a \in InterviewPool
                               THEN [file[a] EXCEPT !.session.state = "open"]
                               ELSE file[a]]
  /\ UNCHANGED <<case, overrides, posting>>

(* A Plantilla rating, by a panel member or encoded by the support office. *)
RateInterview(role, a) ==
  /\ Branch = "plantilla"
  /\ case[a].stage = "hrmpsb_review"
  /\ AtSection(a, "interview")
  /\ \/ role = "hrmpsb_member" /\ CanProcess(role, a)
     \/ CanSupportInterview(role, a)
  /\ Session(a).state = "open"
  /\ Session(a).ratings # "quorum"
  /\ file' = [file EXCEPT ![a].session.ratings =
                 IF @ = "none" THEN "some" ELSE "quorum"]
  /\ UNCHANGED <<case, overrides, posting>>

(* The COS batch grid, saved as a draft: the rows with a score and the     *)
(* rows marked absent.  One score is the quorum.                           *)
SaveCosScores(role, scored, absent) ==
  /\ Branch = "cos"
  /\ scored \cup absent # {}
  /\ scored \cap absent = {}
  /\ scored \cup absent \subseteq InterviewPool
  /\ \A a \in scored :
       /\ CanManageInterview(role, a)
       /\ Session(a).state = "open"
       /\ Session(a).absent => file[a].absence["interview"] = Blank
  /\ \A a \in absent : Session(a).state = "open"
  /\ file' = [a \in Apps |->
       CASE a \in scored -> [file[a] EXCEPT !.session.absent = FALSE,
                                            !.session.ratings = "quorum"]
         [] a \in absent -> [file[a] EXCEPT !.session.absent = TRUE]
         [] OTHER        -> file[a]]
  /\ file' # file
  /\ UNCHANGED <<case, overrides, posting>>

(* A session finalized on an absence files the absence as well.            *)
SessionFinal(a, absent) ==
  LET closed == [file[a] EXCEPT !.session.state = "final",
                                !.session.absent = absent]
  IN  IF absent THEN WithAbsence(closed, "interview", case[a].stage) ELSE closed

MarkInterviewAbsent(role, a) ==
  /\ Session(a).state = "open"
  /\ CanManageInterview(role, a)
  /\ Session(a).ratings = "none"
  /\ file' = [file EXCEPT ![a] = SessionFinal(a, TRUE)]
  /\ UNCHANGED <<case, overrides, posting>>

(* All or nothing: every session of the pool has its quorum of raters, or  *)
(* is marked absent and has none.                                          *)
FinalizeInterviews(role) ==
  /\ PoolIsFinal
  /\ InterviewPool # {}
  /\ \A a \in InterviewPool :
       /\ CanManageInterview(role, a)
       /\ Session(a).state = "open"
       /\ Session(a).ratings = IF Session(a).absent THEN "none" ELSE "quorum"
  /\ file' = [a \in Apps |-> IF a \in InterviewPool
                               THEN SessionFinal(a, Session(a).absent)
                               ELSE file[a]]
  /\ UNCHANGED <<case, overrides, posting>>

-----------------------------------------------------------------------------
(* Absences *)

(* With the office policy that the level's office decides a panel absence, *)
(* that office decides it while the panel holds the case.                  *)
CanManageAbsence(role, a, assessment) ==
  \/ CanProcess(role, a)
  \/ /\ assessment = "interview"
     /\ Branch = "plantilla"
     /\ ~case[a].locked
     /\ case[a].stage = "hrmpsb_review"
     /\ file[a].absence[assessment] = "hrmpsb_review"
     /\ role = InterviewSupportRole

FaultySittingReopened(a, assessment) == file[a]

(* The missed sitting of the stage the absence was recorded at is reopened. *)
SittingReopened(a, assessment) ==
  IF assessment = "examination"
    THEN [file[a] EXCEPT !.exam[file[a].absence[assessment]] = "open"]
    ELSE [file[a] EXCEPT !.session.state  = IF @ = Blank THEN Blank ELSE "open",
                         !.session.absent = FALSE]

(* A decided interview absence still matters to a COS score: the batch     *)
(* grid refuses one on a session marked absent a second time.              *)
AbsenceDecided(assessment) ==
  IF Branch = "cos" /\ assessment = "interview" THEN "decided" ELSE Blank

RescheduleAbsentee(role, a, assessment) ==
  /\ file[a].absence[assessment] \in ReviewStages
  /\ CanManageAbsence(role, a, assessment)
  /\ file' = [file EXCEPT ![a] =
       [SittingReopened(a, assessment) EXCEPT
          !.absence[assessment] = AbsenceDecided(assessment)]]
  /\ UNCHANGED <<case, overrides, posting>>

EndAfterAbsence(role, a, assessment) ==
  /\ file[a].absence[assessment] \in ReviewStages
  /\ CanManageAbsence(role, a, assessment)
  /\ file' = [file EXCEPT ![a].absence[assessment] = AbsenceDecided(assessment)]
  /\ TransitionOne(a, "rejected", Blank)
  /\ UNCHANGED <<overrides, posting>>

-----------------------------------------------------------------------------
(* Batch loans between the Secretariat and the HRM Chief *)

OtherOffice(role) == IF role = "secretariat" THEN "hrm_chief" ELSE "secretariat"

FaultyBatchHeldBy(role) == {a \in Apps : Loanable(a) /\ case[a].handler = role}

BatchHeldBy(role) == {a \in Apps : /\ Loanable(a)
                                   /\ case[a].stage = IntakeStage(Level)
                                   /\ case[a].handler = role}

FaultyOverridesAfterHandOff(sent, target) == overrides \ sent

(* A Level 2 case sent to the Secretariat carries an override, which ends  *)
(* when it is sent back.                                                   *)
OverridesAfterHandOff(sent, target) ==
  IF Level = 2 /\ target = "secretariat" THEN overrides \cup sent
                                         ELSE overrides \ sent

SendToOtherOffice(sent, role) ==
  /\ \A a \in sent : CanProcess(role, a) /\ case[a].caseStatus # "awaiting"
  /\ Transition([a \in sent |->
       Moved(case[a], case[a].status, OtherOffice(role))])
  /\ overrides' = OverridesAfterHandOff(sent, OtherOffice(role))
  /\ UNCHANGED <<file, posting>>

HandOffBatch(role) ==
  /\ role \in ScreeningReviewRoles
  /\ BatchHeldBy(role) # {}
  /\ SendToOtherOffice(BatchHeldBy(role), role)

(* The override page of one Level 2 case lends that case alone.            *)
GrantOverride(a) ==
  /\ Level = 2
  /\ case[a].status = "hrm_chief_review"
  /\ case[a].stage = "hrm_chief_review"
  /\ SendToOtherOffice({a}, "hrm_chief")

LoanedOut(role) == {a \in Apps : /\ role = LevelOwner(Level)
                                 /\ Loanable(a)
                                 /\ case[a].stage = IntakeStage(Level)
                                 /\ case[a].handler \notin {role, Blank}}

RecallBatch(role) ==
  /\ LoanedOut(role) # {}
  /\ Transition([a \in LoanedOut(role) |-> Moved(case[a], case[a].status, role)])
  /\ overrides' = overrides \ LoanedOut(role)
  /\ UNCHANGED <<file, posting>>

-----------------------------------------------------------------------------
(* Reopening and completion *)

(* The last finalized record of the stage's sections is reopened.          *)
CorrectedAt(a, stage) ==
  LET sections == SectionsAt(Branch, stage)
  IN  CASE "interview" \in sections /\ Session(a).state = "final" ->
             [file[a] EXCEPT !.session.state = "open"]
        [] /\ ~("interview" \in sections /\ Session(a).state = "final")
           /\ "exam" \in sections
           /\ file[a].exam[stage] # "open" ->
             [file[a] EXCEPT !.exam[stage] = "open"]
        [] /\ ~("interview" \in sections /\ Session(a).state = "final")
           /\ "exam" \in sections
           /\ file[a].exam[stage] = "open" ->
             [file[a] EXCEPT !.screening[stage].verdict = Blank]
        [] OTHER -> file[a]

FaultyCompetitionAllows(a, selected) == TRUE

(* Once a selection stands only the case of someone it selected is         *)
(* reopened.                                                               *)
CompetitionAllows(a, selected) == selected = {} \/ a \in selected

CanReopen(a, selected) == /\ case[a].locked
                          /\ StatusForStage(case[a].lockedStage) # Blank
                          /\ CompetitionAllows(a, selected)

(* By the HRM Chief.                                                       *)
Reopen(a, selected) ==
  LET stage == case[a].lockedStage
  IN  /\ CanReopen(a, selected)
      /\ TransitionOne(a, StatusForStage(stage), StageOwner(stage, Level))
      /\ file' = [file EXCEPT ![a] = CorrectedAt(a, stage)]
      /\ UNCHANGED <<overrides, posting>>

FaultyVoided(completion) == completion

(* What a selection taken back leaves of the appointee's completion record, *)
(* and what the next selection of the same applicant makes of that.        *)
Voided(completion) == IF completion = Blank THEN Blank ELSE "voided"
Restarted(completion) == IF completion = "voided" THEN Blank ELSE completion

CanManageCompletion(role, a) ==
  /\ case[a].status = "approved"
  /\ case[a].stage = "completion"
  /\ CanProcess(role, a)

SaveCompletion(role, a, value) ==
  /\ CanManageCompletion(role, a)
  /\ file[a].completion \notin {"voided", value}
  /\ file' = [file EXCEPT ![a].completion = value]
  /\ UNCHANGED <<case, overrides, posting>>

(* The status stays approved; the case leaves completion for closed.       *)
CloseCase(role, a) ==
  /\ CanManageCompletion(role, a)
  /\ file[a].completion = "ready"
  /\ TransitionOne(a, case[a].status, Blank)
  /\ UNCHANGED <<overrides, file, posting>>

-----------------------------------------------------------------------------
(* What every movement keeps *)

(* Only at the level's intake stage may the other office hold a case: it   *)
(* is on loan there.                                                       *)
HandlerAligned(row) ==
  \/ row.handler = StageOwner(row.stage, Level)
  \/ /\ row.stage = IntakeStage(Level)
     /\ row.handler = OtherOffice(LevelOwner(Level))

InReview(row) == /\ row.stage = row.status
                 /\ row.stage \in StepStages(Branch, Level)
                 /\ row.caseStatus = "active"
                 /\ ~row.locked
                 /\ row.lockedStage = Blank
                 /\ HandlerAligned(row)

AwaitingApplicant(row) == /\ row.stage \in ScreeningStages
                          /\ row.stage \in StepStages(Branch, Level)
                          /\ row.caseStatus = "awaiting"
                          /\ ~row.locked
                          /\ row.lockedStage = Blank
                          /\ HandlerAligned(row)

InCompletion(row) == /\ row.stage = "completion"
                     /\ row.caseStatus = "active"
                     /\ ~row.locked
                     /\ row.lockedStage = Blank
                     /\ row.handler = CompletionOwner(Level)

ClosedAs(row) == /\ row.stage = "closed"
                 /\ row.caseStatus = row.status
                 /\ row.locked
                 /\ row.lockedStage \in StepStages(Branch, Level)
                 /\ row.handler = Blank

RowAligned(row) ==
  /\ row.status = "draft" => row = DraftCase
  /\ row.status \in ReviewStages => InReview(row)
  /\ row.status = "returned" => AwaitingApplicant(row)
  /\ row.status = "approved" =>
       InCompletion(row) \/ (ClosedAs(row) /\ row.lockedStage = "completion")
  /\ row.status \in {"rejected", "withdrawn", "vacancy_cancelled"} => ClosedAs(row)

(* The application's status, the case's stage, disposition, lock and       *)
(* handler always tell one story, whatever sequence of operations moved    *)
(* the case; no case enters a stage its branch and level do not have, and  *)
(* none is held by an office that neither owns its stage nor has it on     *)
(* loan at intake (routing.transition_case and every caller that passes it *)
(* a status and a handler).                                                *)
CaseAlignment == \A a \in Apps : RowAligned(case[a])

(* A Level 2 case in the Secretariat's hands always carries an active      *)
(* override: without one no office could work it                           *)
(* (access.user_can_process_application, routing hand-off and recall).     *)
SecretariatHoldsByOverride ==
  Level = 2 => \A a \in Apps : case[a].handler = "secretariat" => a \in overrides

(* Where an application is in the lifecycle of CaseLifecycle.              *)
Phase(status) == CASE status = "approved" -> "appointed"
                   [] status \in ReviewStages \cup {"returned"} -> "open"
                   [] OTHER -> status

Phases == [a \in Apps |-> Phase(case[a].status)]

(* An open case with a finalized exam at a screening stage it has not left *)
(* is waiting for the decision on a recorded absence, and so is a          *)
(* candidate who missed a finalized interview: nobody is parked with every *)
(* record locked and no decision to take (exam.record_attendance_absence,  *)
(* reopen._assert_reopened_case_has_editable_work).                        *)
ParkedForAbsence ==
  \A a \in Apps : ActiveUnlocked(a) =>
    /\ (LeavesAfterExam(case[a].stage) /\ Exam(a) # "open")
         => file[a].absence["examination"] = case[a].stage
    /\ (case[a].stage = InterviewStage /\ Session(a).state = "final" /\ Session(a).absent)
         => file[a].absence["interview"] = case[a].stage

-----------------------------------------------------------------------------
(* One step of an operation both branches share.  selected are the         *)
(* applications a selection that stands has named, reported those on the   *)
(* finalized report.                                                       *)

(* The screening page of a case.                                           *)
ScreeningPage(role, a) ==
  \/ \E flagged \in BOOLEAN : SaveScreeningDraft(role, a, flagged)
  \/ FinalizeQualified(role, a)
  \/ FinalizeNotQualified(role, a)
  \/ ReturnDocuments(role, a)

AbsencePage(role, a, assessment) == \/ RescheduleAbsentee(role, a, assessment)
                                    \/ EndAfterAbsence(role, a, assessment)

CompletionPage(role, a) ==
  \/ \E value \in {"tracked", "referenced", "ready"} : SaveCompletion(role, a, value)
  \/ CloseCase(role, a)

OfficeStep(role, a) ==
  \/ RecordWithdrawal(role, a)
  \/ ScreeningPage(role, a)
  \/ RemoveFromBatch(role, a)
  \/ RateInterview(role, a)
  \/ \E assessment \in Assessments : AbsencePage(role, a, assessment)
  \/ CompletionPage(role, a)

(* The vacancy's exam and interview consoles and its hand-off page.  The   *)
(* consoles are the only door: the pages of a case refuse an exam or an    *)
(* interview result.                                                       *)
ExamConsole(role) ==
  /\ BatchReady
  /\ \/ ScheduleExam(role)
     \/ \E result \in [ExamPool -> {"completed", "absent", "waived"}] :
          FinalizeExams(role, result)

InterviewConsole(role) ==
  \/ ScheduleInterviews(role)
  \/ FinalizeInterviews(role)
  \/ Branch = "plantilla" /\ \E a \in InterviewPool : MarkInterviewAbsent(role, a)
  \/ role \in ScreeningReviewRoles
       /\ \E scored, absent \in SUBSET Apps : SaveCosScores(role, scored, absent)

HandOffPage(role) == HandOffBatch(role) \/ RecallBatch(role)

CaseStep(selected, reported) ==
  \/ NextDay
  \/ \E day \in {"before", "closing_day"} : ExtendIntake(day)
  \/ \E new \in {"active", "suspended", "closed"} :
       UpdateEntryStatus(new, selected # {} /\ ~OpenPool)
  \/ CancelEntry(selected # {})
  \/ \E a \in Apps : \/ SubmitApplication(a)
                     \/ SubmitDocumentResubmission(a)
                     \/ GrantOverride(a)
                     \/ Reopen(a, selected)
                     \/ \E role \in Roles : OfficeStep(role, a)
  \/ \E role \in Roles : ExamConsole(role) \/ InterviewConsole(role) \/ HandOffPage(role)
  \/ Repair(reported)
=============================================================================
