-------------------------- MODULE CaseWorkflow_proofs --------------------------
(***************************************************************************)
(* Lemmas about the case operations both branches share, for any set of    *)
(* applications and either level.  The branches differ in who may be       *)
(* appointed, so the lemmas take that set of applications as a parameter S *)
(* and, for the maintenance command, the applications R of a finalized     *)
(* report.                                                                 *)
(*                                                                         *)
(* Every movement writes rows of the form Moved(row, status, role), so the *)
(* first lemmas say which of those are good rows and what replacing good   *)
(* rows by good rows keeps; the step lemmas then go action by action.      *)
(***************************************************************************)
EXTENDS CaseWorkflow, TLAPS

GoodRows == {row \in CaseRow : RowAligned(row)}

(* A row of somebody who is not appointed. *)
NotAppointed(row) == /\ row.status # "approved"
                     /\ row.stage # "completion"
                     /\ row.lockedStage # "completion"

(* Every row is a good one, and only applications of S are appointed.      *)
Standing(rows, S) == /\ rows \in [Apps -> GoodRows]
                     /\ \A a \in Apps : NotAppointed(rows[a]) \/ a \in S

(* The other variables have their types.                                   *)
RecordsOK == /\ overrides \subseteq Apps
             /\ file \in [Apps -> ApplicationFile]
             /\ posting \in Posting

USE BranchAssumption, LevelAssumption, OpenPoolAssumption, NoAppAssumption
  DEF BranchAssumption, LevelAssumption, OpenPoolAssumption, NoAppAssumption, Branches

-----------------------------------------------------------------------------
(* Good rows *)

LEMMA RowOfFields ==
  ASSUME NEW status \in Statuses, NEW stage \in Stages \cup {Blank},
         NEW caseStatus \in CaseStatuses, NEW handler \in Roles \cup {Blank},
         NEW locked \in BOOLEAN, NEW lockedStage \in Stages \cup {Blank}
  PROVE  [status |-> status, stage |-> stage, caseStatus |-> caseStatus,
          handler |-> handler, locked |-> locked, lockedStage |-> lockedStage]
           \in CaseRow
  BY DEF CaseRow

(* A movement to a review stage of the vacancy is good when it is given to *)
(* the stage's owner or, at intake, to the other office.                   *)
LEMMA MovedToReview ==
  ASSUME NEW row \in CaseRow, NEW status, NEW role,
         status \in ReviewStages, status \in StepStages(Branch, Level),
         \/ role = StageOwner(status, Level)
         \/ status = IntakeStage(Level) /\ role = OtherOffice(LevelOwner(Level))
  PROVE  /\ Moved(row, status, role) \in GoodRows
         /\ NotAppointed(Moved(row, status, role))
  <1> DEFINE r == Moved(row, status, role)
  <1>1. r = [status |-> status, stage |-> status, caseStatus |-> "active",
             handler |-> role, locked |-> FALSE, lockedStage |-> Blank]
    BY DEF Moved, ReviewStages, ScreeningStages
  <1>2. role \in Roles
    BY DEF StageOwner, IntakeStage, LevelOwner, OtherOffice, Roles, ReviewStages,
           ScreeningStages, CompletionOwner, Levels
  <1>3. r \in CaseRow
    BY <1>1, <1>2 DEF CaseRow, Statuses, CaseStatuses, Stages, OpenStages, Blank
  <1>4. RowAligned(r)
    BY <1>1 DEF RowAligned, InReview, HandlerAligned, Blank, ReviewStages,
                ScreeningStages
  <1>5. NotAppointed(r)
    BY <1>1 DEF NotAppointed, ReviewStages, ScreeningStages, Blank
  <1> QED BY <1>3, <1>4, <1>5 DEF GoodRows

LEMMA MovedToAuthority ==
  ASSUME Branch = "plantilla", NEW row \in CaseRow
  PROVE  LET r == Moved(row, "appointing_authority_review", "appointing_authority")
         IN  r \in GoodRows /\ NotAppointed(r)
  <1>1. /\ "appointing_authority_review" \in ReviewStages
        /\ "appointing_authority_review" \in StepStages(Branch, Level)
        /\ "appointing_authority" = StageOwner("appointing_authority_review", Level)
    BY DEF ReviewStages, StepStages, StageOwner
  <1> QED BY <1>1, MovedToReview

LEMMA MovedToPanel ==
  ASSUME Branch = "plantilla", NEW row \in CaseRow
  PROVE  LET r == Moved(row, "hrmpsb_review", "hrmpsb_member")
         IN  r \in GoodRows /\ NotAppointed(r)
  <1>1. /\ "hrmpsb_review" \in ReviewStages
        /\ "hrmpsb_review" \in StepStages(Branch, Level)
        /\ "hrmpsb_member" = StageOwner("hrmpsb_review", Level)
    BY DEF ReviewStages, StepStages, StageOwner
  <1> QED BY <1>1, MovedToReview

(* The HRM Chief's step of a COS vacancy.                                  *)
LEMMA MovedToChief ==
  ASSUME Branch = "cos", NEW row \in CaseRow
  PROVE  LET r == Moved(row, "hrm_chief_review", "hrm_chief")
         IN  r \in GoodRows /\ NotAppointed(r)
  <1>1. /\ "hrm_chief_review" \in ReviewStages
        /\ "hrm_chief_review" \in StepStages(Branch, Level)
        /\ "hrm_chief" = StageOwner("hrm_chief_review", Level)
    BY DEF ReviewStages, ScreeningStages, StepStages, StageOwner
  <1> QED BY <1>1, MovedToReview

(* Documents returned: the case waits at its stage, with the office that   *)
(* asked or, on a recall, with the one that lent it.                       *)
LEMMA MovedToReturned ==
  ASSUME NEW row \in GoodRows, NEW role,
         row.stage \in ScreeningStages, row.caseStatus \in {"active", "awaiting"},
         \/ role = StageOwner(row.stage, Level)
         \/ row.stage = IntakeStage(Level) /\ role = OtherOffice(LevelOwner(Level))
  PROVE  /\ Moved(row, "returned", role) \in GoodRows
         /\ NotAppointed(Moved(row, "returned", role))
  <1> DEFINE r == Moved(row, "returned", role)
  <1>1. r = [row EXCEPT !.status = "returned", !.caseStatus = "awaiting",
                        !.handler = role, !.locked = FALSE,
                        !.lockedStage = Blank]
    BY DEF Moved, ReviewStages, ScreeningStages
  <1>2. row \in CaseRow /\ RowAligned(row)
    BY DEF GoodRows
  <1>3. row.stage \in StepStages(Branch, Level)
    BY <1>2 DEF RowAligned, CaseRow, Statuses, ScreeningStages, ReviewStages,
                InReview, AwaitingApplicant, InCompletion, ClosedAs, DraftCase, Blank
  <1>4. role \in Roles
    BY DEF StageOwner, IntakeStage, LevelOwner, OtherOffice, Roles,
           ScreeningStages, CompletionOwner, Levels
  <1>5. r \in CaseRow
    BY <1>1, <1>2, <1>4 DEF CaseRow, Statuses, CaseStatuses, Blank
  <1>6. /\ r.stage = row.stage /\ r.handler = role /\ r.caseStatus = "awaiting"
        /\ r.status = "returned" /\ ~r.locked /\ r.lockedStage = Blank
    BY <1>1, <1>2 DEF CaseRow
  <1>7. RowAligned(r)
    BY <1>3, <1>6 DEF RowAligned, AwaitingApplicant, HandlerAligned,
                      ReviewStages, ScreeningStages
  <1>8. NotAppointed(r)
    BY <1>6 DEF NotAppointed, ScreeningStages, Blank
  <1> QED BY <1>5, <1>7, <1>8 DEF GoodRows

(* The appointee goes to the office of the level for completion.           *)
LEMMA MovedToCompletion ==
  ASSUME NEW row \in CaseRow, NEW role, role = CompletionOwner(Level)
  PROVE  Moved(row, "approved", role) \in GoodRows
  <1> DEFINE r == Moved(row, "approved", role)
  <1>1. role \in Roles /\ role # Blank
    BY DEF CompletionOwner, Roles, Blank
  <1>2. r = [status |-> "approved", stage |-> "completion", caseStatus |-> "active",
             handler |-> role, locked |-> FALSE, lockedStage |-> Blank]
    BY <1>1 DEF Moved, ReviewStages, ScreeningStages
  <1>3. /\ "approved" \in Statuses /\ "completion" \in Stages \cup {Blank}
        /\ "active" \in CaseStatuses /\ role \in Roles \cup {Blank}
        /\ FALSE \in BOOLEAN /\ Blank \in Stages \cup {Blank}
    BY <1>1 DEF Statuses, CaseStatuses, Stages, OpenStages
  <1>4. [status |-> "approved", stage |-> "completion", caseStatus |-> "active",
          handler |-> role, locked |-> FALSE, lockedStage |-> Blank] \in CaseRow
    BY <1>3, RowOfFields
  <1>5. RowAligned(r)
    BY <1>2 DEF RowAligned, InCompletion, ReviewStages, ScreeningStages, Blank
  <1> QED BY <1>2, <1>4, <1>5 DEF GoodRows

(* An open case is closed from a stage of its vacancy.                     *)
LEMMA OpenCase ==
  ASSUME NEW row \in GoodRows, row.caseStatus \in {"active", "awaiting"}
  PROVE  /\ row.stage \in StepStages(Branch, Level)
         /\ row.status # "draft"
         /\ ~row.locked
         /\ row.lockedStage = Blank
         /\ HandlerAligned(row)
         /\ row.stage # "completion" => row.status # "approved"
         /\ row.caseStatus = "active" /\ row.stage \in ReviewStages
              => row.status = row.stage
  <1>1. row \in CaseRow /\ RowAligned(row)
    BY DEF GoodRows
  <1>2. "completion" \in StepStages(Branch, Level)
    BY DEF StepStages
  <1>3. row.stage \in ReviewStages => StageOwner(row.stage, Level) # Blank
    BY DEF StageOwner, ReviewStages, ScreeningStages, Blank
  <1>4. CASE InReview(row)
    BY <1>1, <1>4 DEF InReview, RowAligned, DraftCase, Blank, AwaitingApplicant,
                      InCompletion, ClosedAs
  <1>5. CASE AwaitingApplicant(row)
    BY <1>1, <1>5 DEF InReview, RowAligned, DraftCase, Blank, AwaitingApplicant,
                      InCompletion, ClosedAs, ScreeningStages
  <1>6. CASE InCompletion(row)
    BY <1>1, <1>2, <1>6 DEF InReview, RowAligned, DraftCase, Blank,
         AwaitingApplicant, InCompletion, ClosedAs, HandlerAligned, StageOwner,
         ReviewStages, ScreeningStages
  <1> QED
    BY <1>1, <1>4, <1>5, <1>6 DEF RowAligned, CaseRow, Statuses, DraftCase,
                                  ClosedAs, Blank

LEMMA MovedToClosed ==
  ASSUME NEW row \in GoodRows, NEW status,
         row.caseStatus \in {"active", "awaiting"},
         \/ status \in {"rejected", "withdrawn", "vacancy_cancelled"}
         \/ status = "approved" /\ row.stage = "completion"
  PROVE  /\ Moved(row, status, Blank) \in GoodRows
         /\ status # "approved" /\ row.stage # "completion"
              => NotAppointed(Moved(row, status, Blank))
  <1> DEFINE r == Moved(row, status, Blank)
  <1>1. r = [status |-> status, stage |-> "closed", caseStatus |-> status,
             handler |-> Blank, locked |-> TRUE, lockedStage |-> row.stage]
    BY DEF Moved, ReviewStages, ScreeningStages
  <1>2. row.stage \in StepStages(Branch, Level) /\ row \in CaseRow
    BY OpenCase DEF GoodRows
  <1>3. r \in CaseRow
    BY <1>1, <1>2 DEF CaseRow, Statuses, CaseStatuses, Stages, OpenStages
  <1>4. RowAligned(r)
    BY <1>1, <1>2 DEF RowAligned, ClosedAs, ReviewStages, ScreeningStages
  <1> QED BY <1>1, <1>3, <1>4 DEF GoodRows, NotAppointed

(* Somebody's row that is not appointed stays so when it is closed.        *)
LEMMA ClosedRow ==
  ASSUME NEW row \in GoodRows, NEW status \in {"rejected", "withdrawn",
                                               "vacancy_cancelled"},
         row.caseStatus \in {"active", "awaiting"}
  PROVE  /\ Moved(row, status, Blank) \in GoodRows
         /\ NotAppointed(row) => NotAppointed(Moved(row, status, Blank))
  BY MovedToClosed DEF NotAppointed

(* A case somebody processes is open.                                      *)
LEMMA HeldCaseIsOpen ==
  ASSUME NEW row \in GoodRows, ~row.locked, row.handler \in Roles
  PROVE  row.caseStatus \in {"active", "awaiting"}
  BY DEF GoodRows, RowAligned, InReview, AwaitingApplicant, InCompletion, ClosedAs,
         DraftCase, CaseRow, Statuses, Roles, Blank

LEMMA PanelCaseIsOpen ==
  ASSUME NEW row \in GoodRows, ~row.locked, row.stage = "hrmpsb_review"
  PROVE  row.caseStatus \in {"active", "awaiting"}
  BY DEF GoodRows, RowAligned, InReview, AwaitingApplicant, InCompletion, ClosedAs,
         DraftCase, CaseRow, Statuses, Blank

LEMMA LockedRow ==
  ASSUME NEW row \in GoodRows, row.locked
  PROVE  row.lockedStage \in StepStages(Branch, Level)
  BY DEF GoodRows, RowAligned, InReview, AwaitingApplicant, InCompletion, ClosedAs,
         DraftCase, CaseRow, Statuses

LEMMA AwaitingStatus ==
  ASSUME NEW row \in GoodRows, row.caseStatus = "awaiting"
  PROVE  row.status = "returned"
  <1>1. /\ row.status \in Statuses /\ RowAligned(row)
    BY DEF GoodRows, CaseRow
  <1>2. ~InReview(row) /\ ~InCompletion(row) /\ row # DraftCase
    BY DEF InReview, InCompletion, DraftCase, Blank
  <1>3. row.status \in {"approved", "rejected", "withdrawn", "vacancy_cancelled"}
          => ~ClosedAs(row)
    BY DEF ClosedAs
  <1> QED BY <1>1, <1>2, <1>3 DEF RowAligned, Statuses

LEMMA AwaitingCase ==
  ASSUME NEW row \in GoodRows, row.caseStatus = "awaiting"
  PROVE  AwaitingApplicant(row)
  BY AwaitingStatus DEF GoodRows, RowAligned

(* At the intake stage the two holders are the two offices.                *)
LEMMA IntakeHolders ==
  ASSUME NEW row, HandlerAligned(row), row.stage = IntakeStage(Level)
  PROVE  /\ IntakeStage(Level) \in ScreeningStages
         /\ IntakeStage(Level) \in StepStages(Branch, Level)
         /\ LevelOwner(Level) = StageOwner(IntakeStage(Level), Level)
         /\ row.handler \in {LevelOwner(Level), OtherOffice(LevelOwner(Level))}
         /\ OtherOffice(OtherOffice(LevelOwner(Level))) = LevelOwner(Level)
  BY DEF HandlerAligned, IntakeStage, ScreeningStages, StepStages, LevelOwner,
         StageOwner, OtherOffice, Levels

-----------------------------------------------------------------------------
(* Steps *)

(* A step that only edits records keeps the invariant.                     *)
LEMMA RecordStep ==
  ASSUME NEW S, RecordsOK, Standing(case, S), UNCHANGED <<case, overrides>>,
         file' \in [Apps -> ApplicationFile], posting' \in Posting
  PROVE  RecordsOK' /\ Standing(case', S)
  BY DEF RecordsOK, Standing

(* After a movement to good rows the appointees are in S if those it        *)
(* appoints or leaves appointed are, whoever they were before.             *)
LEMMA Movement ==
  ASSUME NEW T, Standing(case, T), NEW to, Transition(to), NEW S,
         \A a \in Apps \cap DOMAIN to :
           /\ to[a] \in GoodRows
           /\ NotAppointed(to[a]) \/ a \in S,
         \A a \in Apps \ DOMAIN to : NotAppointed(case[a]) \/ a \in S
  PROVE  Standing(case', S)
  BY DEF Standing, Transition

LEMMA MovementOfOne ==
  ASSUME NEW S, RecordsOK, Standing(case, S), NEW a \in Apps, NEW status, NEW role,
         TransitionOne(a, status, role), RecordsOK',
         Moved(case[a], status, role) \in GoodRows,
         NotAppointed(Moved(case[a], status, role)) \/ a \in S
  PROVE  RecordsOK' /\ Standing(case', S)
  <1> DEFINE to == [b \in {a} |-> Moved(case[b], status, role)]
  <1>1. Transition(to)
    BY DEF TransitionOne
  <1>2. \A b \in Apps \cap DOMAIN to : to[b] \in GoodRows
                                      /\ (NotAppointed(to[b]) \/ b \in S)
    OBVIOUS
  <1>3. \A b \in Apps \ DOMAIN to : NotAppointed(case[b]) \/ b \in S
    BY DEF Standing
  <1> HIDE DEF to
  <1> QED BY <1>1, <1>2, <1>3, Movement

(* Closing open cases that are not in completion, whoever they are.        *)
LEMMA ClosingStep ==
  ASSUME NEW S, RecordsOK, Standing(case, S), NEW closing \in SUBSET Apps,
         NEW status \in {"rejected", "withdrawn", "vacancy_cancelled"},
         CloseAll(closing, status), RecordsOK',
         \A a \in closing : case[a].caseStatus \in {"active", "awaiting"}
  PROVE  RecordsOK' /\ Standing(case', S)
  <1> DEFINE to == [a \in closing |-> Moved(case[a], status, Blank)]
  <1>1. Transition(to)
    BY DEF CloseAll
  <1>2. \A a \in Apps \cap DOMAIN to : to[a] \in GoodRows
                                      /\ (NotAppointed(to[a]) \/ a \in S)
    <2> SUFFICES ASSUME NEW a \in closing
                 PROVE  /\ Moved(case[a], status, Blank) \in GoodRows
                        /\ NotAppointed(Moved(case[a], status, Blank)) \/ a \in S
      OBVIOUS
    <2>1. case[a] \in GoodRows /\ (NotAppointed(case[a]) \/ a \in S)
      BY DEF Standing
    <2> QED BY <2>1, ClosedRow
  <1>3. \A a \in Apps \ DOMAIN to : NotAppointed(case[a]) \/ a \in S
    BY DEF Standing
  <1> HIDE DEF to
  <1> QED BY <1>1, <1>2, <1>3, Movement

(* The edits of a screening record keep the type of the files.             *)
LEMMA RecordEdits ==
  ASSUME file \in [Apps -> ApplicationFile], NEW a \in Apps,
         NEW s \in ScreeningStages
  PROVE  /\ \A record \in ScreeningRecord :
              [file EXCEPT ![a].screening[s] = record] \in [Apps -> ApplicationFile]
         /\ \A flagged \in BOOLEAN :
              [file EXCEPT ![a].screening[s].flagged = flagged]
                \in [Apps -> ApplicationFile]
         /\ \A verdict \in {Blank, "qualified", "not_qualified"} :
              [file EXCEPT ![a].screening[s].verdict = verdict]
                \in [Apps -> ApplicationFile]
  <1>1. /\ file[a] \in ApplicationFile
        /\ file[a].screening \in [ScreeningStages -> ScreeningRecord]
        /\ file[a].screening[s] \in ScreeningRecord
    BY DEF ApplicationFile
  <1>2. ASSUME NEW record \in ScreeningRecord
        PROVE  [file EXCEPT ![a].screening[s] = record] \in [Apps -> ApplicationFile]
    <2> DEFINE f == [file[a] EXCEPT !.screening =
                       [file[a].screening EXCEPT ![s] = record]]
    <2>1. [file[a].screening EXCEPT ![s] = record]
            \in [ScreeningStages -> ScreeningRecord]
      BY <1>1
    <2>2. f \in ApplicationFile
      BY <1>1, <2>1 DEF ApplicationFile
    <2>3. [file EXCEPT ![a].screening[s] = record] = [file EXCEPT ![a] = f]
      OBVIOUS
    <2> HIDE DEF f
    <2> QED BY <2>2, <2>3
  <1>3. ASSUME NEW flagged \in BOOLEAN
        PROVE  [file EXCEPT ![a].screening[s].flagged = flagged]
                 \in [Apps -> ApplicationFile]
    <2>1. [file[a].screening[s] EXCEPT !.flagged = flagged] \in ScreeningRecord
      BY <1>1 DEF ScreeningRecord
    <2>2. [file EXCEPT ![a].screening[s].flagged = flagged]
            = [file EXCEPT ![a].screening[s] =
                 [file[a].screening[s] EXCEPT !.flagged = flagged]]
      OBVIOUS
    <2> QED BY <1>2, <2>1, <2>2
  <1>4. ASSUME NEW verdict \in {Blank, "qualified", "not_qualified"}
        PROVE  [file EXCEPT ![a].screening[s].verdict = verdict]
                 \in [Apps -> ApplicationFile]
    <2>1. [file[a].screening[s] EXCEPT !.verdict = verdict] \in ScreeningRecord
      BY <1>1 DEF ScreeningRecord
    <2>2. [file EXCEPT ![a].screening[s].verdict = verdict]
            = [file EXCEPT ![a].screening[s] =
                 [file[a].screening[s] EXCEPT !.verdict = verdict]]
      OBVIOUS
    <2> QED BY <1>2, <2>1, <2>2
  <1> QED BY <1>2, <1>3, <1>4

-----------------------------------------------------------------------------
(* Intake and the vacancy's period *)

LEMMA PostingSteps ==
  ASSUME NEW S, RecordsOK, Standing(case, S),
         \/ NextDay
         \/ \E day \in {"before", "closing_day"} : ExtendIntake(day)
         \/ \E new \in {"active", "suspended", "closed"} :
              UpdateEntryStatus(new, S # {} /\ ~OpenPool)
  PROVE  RecordsOK' /\ Standing(case', S)
  <1>1. /\ UNCHANGED <<case, overrides, file>>
        /\ \/ \E day \in {"before", "closing_day", "after"} :
                posting' = [posting EXCEPT !.day = day]
           \/ \E new \in {"active", "suspended", "closed"} :
                posting' = [posting EXCEPT !.status = new]
    BY DEF NextDay, ExtendIntake, UpdateEntryStatus
  <1>2. posting' \in Posting
    BY <1>1 DEF RecordsOK, Posting
  <1>3. file' \in [Apps -> ApplicationFile]
    BY <1>1 DEF RecordsOK
  <1> QED BY <1>1, <1>2, <1>3, RecordStep

LEMMA CancelStep ==
  ASSUME NEW S, RecordsOK, Standing(case, S), CancelEntry(S # {})
  PROVE  RecordsOK' /\ Standing(case', S)
  <1>1. RecordsOK'
    BY DEF CancelEntry, RecordsOK, Posting
  <1>2. CloseAll({a \in Apps : case[a].caseStatus \in {"active", "awaiting"}},
                 "vacancy_cancelled")
    BY DEF CancelEntry, InFlight
  <1> QED BY <1>1, <1>2, ClosingStep

LEMMA SubmitStep ==
  ASSUME NEW S, RecordsOK, Standing(case, S), NEW a \in Apps, SubmitApplication(a)
  PROVE  RecordsOK' /\ Standing(case', S)
  <1> DEFINE status == StatusForStage(IntakeStage(Level))
             role == LevelOwner(Level)
  <1>1. RecordsOK' /\ case[a] \in CaseRow
    BY DEF SubmitApplication, RecordsOK, Standing, GoodRows
  <1>2. /\ status \in ReviewStages
        /\ status \in StepStages(Branch, Level)
        /\ role = StageOwner(status, Level)
    BY DEF StatusForStage, IntakeStage, ReviewStages, ScreeningStages, StepStages,
           LevelOwner
  <1>3. /\ Moved(case[a], status, role) \in GoodRows
        /\ NotAppointed(Moved(case[a], status, role))
    BY <1>1, <1>2, MovedToReview
  <1>4. TransitionOne(a, status, role)
    BY DEF SubmitApplication
  <1> HIDE DEF status, role
  <1> QED BY <1>1, <1>3, <1>4, MovementOfOne

(* The case is at its stage, with the office that holds it.                *)
LEMMA ResubmitStep ==
  ASSUME NEW S, RecordsOK, Standing(case, S), NEW a \in Apps,
         SubmitDocumentResubmission(a)
  PROVE  RecordsOK' /\ Standing(case', S)
  <1> DEFINE status == StatusForStage(case[a].stage)
             role == case[a].handler
  <1>1. case[a] \in GoodRows /\ case[a] \in CaseRow
    BY DEF Standing, GoodRows
  <1>2. AwaitingApplicant(case[a])
    BY <1>1, AwaitingCase DEF SubmitDocumentResubmission
  <1>3. /\ status \in ReviewStages
        /\ status \in StepStages(Branch, Level)
        /\ \/ role = StageOwner(status, Level)
           \/ status = IntakeStage(Level) /\ role = OtherOffice(LevelOwner(Level))
    <2>1. case[a].stage \in ReviewStages
      BY <1>2 DEF AwaitingApplicant, ReviewStages
    <2>2. status = case[a].stage
      BY <2>1 DEF StatusForStage, ReviewStages, ScreeningStages
    <2> HIDE DEF status
    <2> QED BY <1>2, <2>1, <2>2 DEF AwaitingApplicant, HandlerAligned
  <1>4. /\ Moved(case[a], status, role) \in GoodRows
        /\ NotAppointed(Moved(case[a], status, role))
    BY <1>1, <1>3, MovedToReview
  <1>5. RecordsOK'
    <2>1. file' \in [Apps -> ApplicationFile]
      BY <1>2, RecordEdits
         DEF SubmitDocumentResubmission, RecordsOK, ScreeningRecord, Blank,
             AwaitingApplicant
    <2> QED BY <2>1 DEF SubmitDocumentResubmission, RecordsOK
  <1>6. TransitionOne(a, status, role)
    BY DEF SubmitDocumentResubmission
  <1> HIDE DEF status, role
  <1> QED BY <1>4, <1>5, <1>6, MovementOfOne

(* Rejecting or withdrawing the open case of one application.              *)
LEMMA ClosingOne ==
  ASSUME NEW S, RecordsOK, Standing(case, S), NEW a \in Apps, NEW status \in {"rejected", "withdrawn"},
         TransitionOne(a, status, Blank), RecordsOK',
         case[a].caseStatus \in {"active", "awaiting"}
  PROVE  RecordsOK' /\ Standing(case', S)
  <1>1. CloseAll({a}, status)
    BY DEF TransitionOne, CloseAll
  <1> QED BY <1>1, ClosingStep

(* Somebody who processes a case has an open case before them.             *)
LEMMA ProcessedIsOpen ==
  ASSUME NEW S, Standing(case, S), NEW a \in Apps, NEW role \in Roles, CanProcess(role, a)
  PROVE  /\ case[a].caseStatus \in {"active", "awaiting"}
         /\ case[a] \in GoodRows
  BY HeldCaseIsOpen DEF CanProcess, Standing

LEMMA WithdrawalStep ==
  ASSUME NEW S, RecordsOK, Standing(case, S), NEW a \in Apps, NEW role \in Roles,
         RecordWithdrawal(role, a)
  PROVE  RecordsOK' /\ Standing(case', S)
  <1>1. RecordsOK'
    BY DEF RecordWithdrawal, RecordsOK
  <1> QED BY <1>1, ClosingOne DEF RecordWithdrawal, CanRecordWithdrawal, InFlight

-----------------------------------------------------------------------------
(* Screening *)

LEMMA ScreeningRecordSteps ==
  ASSUME NEW S, RecordsOK, Standing(case, S), NEW a \in Apps, NEW role \in Roles,
         \/ \E flagged \in BOOLEAN : SaveScreeningDraft(role, a, flagged)
         \/ FinalizeQualified(role, a)
  PROVE  RecordsOK' /\ Standing(case', S)
  <1>1. UNCHANGED <<case, overrides, posting>>
    BY DEF SaveScreeningDraft, FinalizeQualified
  <1>2. file' \in [Apps -> ApplicationFile]
    <2>1. CASE \E flagged \in BOOLEAN : SaveScreeningDraft(role, a, flagged)
      <3>1. PICK flagged \in BOOLEAN : SaveScreeningDraft(role, a, flagged)
        BY <2>1
      <3>2. /\ file' = [file EXCEPT ![a].screening[case[a].stage].flagged = flagged]
            /\ case[a].stage \in ScreeningStages
        BY <3>1 DEF SaveScreeningDraft, CanManageScreening
      <3> QED BY <3>2, RecordEdits DEF RecordsOK
    <2>2. CASE FinalizeQualified(role, a)
      BY <2>2, RecordEdits DEF FinalizeQualified, CanManageScreening, RecordsOK,
                               ScreeningRecord
    <2> QED BY <2>1, <2>2
  <1> QED BY <1>1, <1>2, RecordStep DEF RecordsOK

LEMMA RejectionSteps ==
  ASSUME NEW S, RecordsOK, Standing(case, S), NEW a \in Apps, NEW role \in Roles,
         FinalizeNotQualified(role, a) \/ RemoveFromBatch(role, a)
  PROVE  RecordsOK' /\ Standing(case', S)
  <1>1. CanProcess(role, a) /\ TransitionOne(a, "rejected", Blank)
    BY DEF FinalizeNotQualified, RemoveFromBatch, CanManageScreening
  <1>2. file' \in [Apps -> ApplicationFile]
    <2>1. CASE FinalizeNotQualified(role, a)
      BY <2>1, RecordEdits DEF FinalizeNotQualified, CanManageScreening, RecordsOK
    <2>2. CASE RemoveFromBatch(role, a)
      BY <2>2 DEF RemoveFromBatch, RecordsOK
    <2> QED BY <2>1, <2>2
  <1>3. RecordsOK'
    BY <1>2 DEF FinalizeNotQualified, RemoveFromBatch, RecordsOK
  <1> QED BY <1>1, <1>3, ProcessedIsOpen, ClosingOne

LEMMA ReturnStep ==
  ASSUME NEW S, RecordsOK, Standing(case, S), NEW a \in Apps, NEW role \in Roles,
         ReturnDocuments(role, a)
  PROVE  RecordsOK' /\ Standing(case', S)
  <1> DEFINE holder == case[a].handler
  <1>1. /\ case[a].stage \in ScreeningStages
        /\ CanProcess(role, a)
        /\ TransitionOne(a, "returned", holder)
    BY DEF ReturnDocuments, CanManageScreening
  <1>2. file' \in [Apps -> ApplicationFile]
    BY RecordEdits DEF ReturnDocuments, CanManageScreening, RecordsOK
  <1>3. RecordsOK'
    BY <1>2 DEF ReturnDocuments, RecordsOK
  <1>4. case[a].caseStatus \in {"active", "awaiting"} /\ case[a] \in GoodRows
    BY <1>1, ProcessedIsOpen
  <1>5. HandlerAligned(case[a])
    BY <1>4, OpenCase
  <1>6. /\ Moved(case[a], "returned", holder) \in GoodRows
        /\ NotAppointed(Moved(case[a], "returned", holder))
    BY <1>1, <1>4, <1>5, MovedToReturned DEF HandlerAligned
  <1> HIDE DEF holder
  <1> QED BY <1>1, <1>3, <1>6, MovementOfOne

-----------------------------------------------------------------------------
(* The exam *)

LEMMA ScheduleExamStep ==
  ASSUME NEW S, RecordsOK, Standing(case, S), NEW role \in Roles, ScheduleExam(role)
  PROVE  RecordsOK' /\ Standing(case', S)
  <1>1. file' \in [Apps -> ApplicationFile]
    BY DEF ScheduleExam, RecordsOK, ApplicationFile
  <1> QED BY <1>1, RecordStep DEF ScheduleExam, RecordsOK

(* An exam filed is a record of an exam, an absence with its stage.        *)
LEMMA ExamFiledType ==
  ASSUME RecordsOK, NEW a \in Apps, NEW result \in {"completed", "absent", "waived"},
         case[a].stage \in ScreeningStages
  PROVE  ExamFiled(a, result) \in ApplicationFile
  <1> DEFINE filed == [file[a] EXCEPT !.exam[case[a].stage] = result]
  <1>1. filed \in ApplicationFile
    BY DEF RecordsOK, ApplicationFile, ExamRecord
  <1> HIDE DEF filed
  <1>2. WithAbsence(filed, "examination", case[a].stage) \in ApplicationFile
    BY <1>1 DEF WithAbsence, ApplicationFile, ReviewStages, Assessments
  <1> QED BY <1>1, <1>2 DEF ExamFiled, filed

(* The exam leads to the panel, closes the case or leaves it where it is.  *)
LEMMA AfterExamGood ==
  ASSUME NEW S, Standing(case, S), NEW a \in Apps, NEW result \in {"completed", "absent", "waived"},
         case[a].caseStatus = "active"
  PROVE  /\ AfterExamResult(a, result) \in GoodRows
         /\ NotAppointed(AfterExamResult(a, result)) \/ a \in S
  <1>1. /\ case[a] \in GoodRows /\ case[a] \in CaseRow
        /\ NotAppointed(case[a]) \/ a \in S
    BY DEF Standing, GoodRows
  <1>2. CASE result = "completed" /\ Branch = "plantilla"
    <2>1. AfterExamResult(a, result) = Moved(case[a], "hrmpsb_review", "hrmpsb_member")
      BY <1>2 DEF AfterExamResult, AfterExam
    <2> QED BY <1>1, <1>2, <2>1, MovedToPanel
  <1>5. CASE result = "completed" /\ Branch = "cos"
    <2>1. \/ AfterExamResult(a, result) = Moved(case[a], "hrm_chief_review", "hrm_chief")
          \/ AfterExamResult(a, result) = case[a]
      BY <1>5 DEF AfterExamResult, AfterExam
    <2> QED BY <1>1, <1>5, <2>1, MovedToChief
  <1>3. CASE result = "waived"
    <2>1. AfterExamResult(a, result) = Moved(case[a], "rejected", Blank)
      BY <1>3 DEF AfterExamResult
    <2> QED BY <1>1, <2>1, ClosedRow
  <1>4. CASE result = "absent"
    BY <1>1, <1>4 DEF AfterExamResult
  <1> QED BY <1>2, <1>3, <1>4, <1>5

LEMMA FinalizeExamsStep ==
  ASSUME NEW S, RecordsOK, Standing(case, S), NEW role \in Roles,
         NEW result \in [ExamPool -> {"completed", "absent", "waived"}],
         FinalizeExams(role, result)
  PROVE  RecordsOK' /\ Standing(case', S)
  <1> DEFINE to == [a \in ExamPool |-> AfterExamResult(a, result[a])]
  <1>1. \A a \in ExamPool : /\ a \in Apps
                            /\ case[a].caseStatus = "active"
                            /\ case[a].stage \in ScreeningStages
                            /\ result[a] \in {"completed", "absent", "waived"}
    BY DEF ExamPool, ActiveUnlocked, FinalizeExams, CanManageExam
  <1>2. file' \in [Apps -> ApplicationFile]
    BY <1>1, ExamFiledType DEF FinalizeExams, RecordsOK
  <1>3. RecordsOK'
    BY <1>2 DEF FinalizeExams, RecordsOK, OverridesAfterRouting
  <1>4. Transition(to)
    BY DEF FinalizeExams
  <1>5. \A a \in Apps \cap DOMAIN to : to[a] \in GoodRows
                                      /\ (NotAppointed(to[a]) \/ a \in S)
    BY <1>1, AfterExamGood
  <1>6. \A a \in Apps \ DOMAIN to : NotAppointed(case[a]) \/ a \in S
    BY DEF Standing
  <1> HIDE DEF to
  <1> QED BY <1>3, <1>4, <1>5, <1>6, Movement

-----------------------------------------------------------------------------
(* The interview and absences *)

LEMMA FileFields ==
  ASSUME RecordsOK, NEW a \in Apps
  PROVE  /\ file[a] \in ApplicationFile
         /\ file[a].exam \in [ScreeningStages -> ExamRecord]
         /\ file[a].session \in InterviewSession
  BY DEF RecordsOK, ApplicationFile

LEMMA SessionEdits ==
  ASSUME RecordsOK, NEW a \in Apps,
         NEW state \in {Blank, "open", "final"}, NEW absent \in BOOLEAN,
         NEW ratings \in {"none", "some", "quorum"}
  PROVE  /\ [file[a] EXCEPT !.session.state = state] \in ApplicationFile
         /\ [file[a] EXCEPT !.session.ratings = ratings] \in ApplicationFile
         /\ [file[a] EXCEPT !.session.state = state, !.session.absent = absent]
              \in ApplicationFile
  <1> DEFINE f == file[a]
             old == f.session
  <1>1. f \in ApplicationFile /\ old \in InterviewSession
    BY FileFields
  <1> HIDE DEF f
  <1>2. /\ [old EXCEPT !.state = state] \in InterviewSession
        /\ [old EXCEPT !.ratings = ratings] \in InterviewSession
        /\ [old EXCEPT !.state = state, !.absent = absent] \in InterviewSession
    BY <1>1 DEF InterviewSession
  <1>3. \A session \in InterviewSession : [f EXCEPT !.session = session] \in ApplicationFile
    BY <1>1 DEF ApplicationFile
  <1>4. /\ [f EXCEPT !.session.state = state]
             = [f EXCEPT !.session = [old EXCEPT !.state = state]]
        /\ [f EXCEPT !.session.ratings = ratings]
             = [f EXCEPT !.session = [old EXCEPT !.ratings = ratings]]
    OBVIOUS
  <1>5. [f EXCEPT !.session.state = state, !.session.absent = absent]
          = [f EXCEPT !.session = [old EXCEPT !.state = state, !.absent = absent]]
    BY <1>1 DEF ApplicationFile, InterviewSession
  <1> HIDE DEF old
  <1>6. /\ [f EXCEPT !.session.state = state] \in ApplicationFile
        /\ [f EXCEPT !.session.ratings = ratings] \in ApplicationFile
    BY <1>2, <1>3, <1>4
  <1>7. [f EXCEPT !.session.state = state, !.session.absent = absent]
          \in ApplicationFile
    BY <1>2, <1>3, <1>5
  <1> QED BY <1>6, <1>7 DEF f

LEMMA SessionFinalType ==
  ASSUME RecordsOK, NEW a \in Apps, NEW absent \in BOOLEAN,
         case[a].stage \in ReviewStages
  PROVE  SessionFinal(a, absent) \in ApplicationFile
  <1> DEFINE closed == [file[a] EXCEPT !.session.state = "final",
                                       !.session.absent = absent]
  <1>1. closed \in ApplicationFile
    BY SessionEdits
  <1> HIDE DEF closed
  <1>2. WithAbsence(closed, "interview", case[a].stage) \in ApplicationFile
    BY <1>1 DEF WithAbsence, ApplicationFile, Assessments
  <1> QED BY <1>1, <1>2 DEF SessionFinal, closed

LEMMA ScheduleInterviewsStep ==
  ASSUME NEW S, RecordsOK, Standing(case, S), NEW role \in Roles,
         ScheduleInterviews(role)
  PROVE  RecordsOK' /\ Standing(case', S)
  <1>1. \A a \in Apps : [file[a] EXCEPT !.session.state = "open"] \in ApplicationFile
    BY SessionEdits
  <1>2. file' \in [Apps -> ApplicationFile]
    BY <1>1 DEF ScheduleInterviews, RecordsOK
  <1> QED BY <1>2, RecordStep DEF ScheduleInterviews, RecordsOK

LEMMA FinalizeInterviewsStep ==
  ASSUME NEW S, RecordsOK, Standing(case, S), NEW role \in Roles,
         FinalizeInterviews(role)
  PROVE  RecordsOK' /\ Standing(case', S)
  <1>1. \A a \in InterviewPool : /\ case[a].stage \in ReviewStages
                                 /\ Session(a).absent \in BOOLEAN
    BY DEF InterviewPool, InterviewStage, ReviewStages, ScreeningStages, Session, RecordsOK,
           ApplicationFile, InterviewSession
  <1>2. \A a \in InterviewPool : SessionFinal(a, Session(a).absent) \in ApplicationFile
    BY <1>1, SessionFinalType DEF InterviewPool
  <1>3. file' \in [Apps -> ApplicationFile]
    BY <1>2 DEF FinalizeInterviews, RecordsOK
  <1> QED BY <1>3, RecordStep DEF FinalizeInterviews, RecordsOK

LEMMA SessionSteps ==
  ASSUME NEW S, RecordsOK, Standing(case, S), NEW a \in Apps, NEW role \in Roles,
         RateInterview(role, a) \/ MarkInterviewAbsent(role, a)
  PROVE  RecordsOK' /\ Standing(case', S)
  <1>1. CASE RateInterview(role, a)
    <2> DEFINE ratings == IF file[a].session.ratings = "none" THEN "some" ELSE "quorum"
    <2>1. [file[a] EXCEPT !.session.ratings = ratings] \in ApplicationFile
      BY SessionEdits
    <2>2. file' = [file EXCEPT ![a] = [file[a] EXCEPT !.session.ratings = ratings]]
      BY <1>1 DEF RateInterview, RecordsOK
    <2> HIDE DEF ratings
    <2>3. file' \in [Apps -> ApplicationFile]
      BY <2>1, <2>2 DEF RecordsOK
    <2> QED BY <1>1, <2>3, RecordStep DEF RateInterview, RecordsOK
  <1>2. CASE MarkInterviewAbsent(role, a)
    <2>1. case[a].stage \in ReviewStages
      BY <1>2 DEF MarkInterviewAbsent, CanManageInterview, CanSupportInterview,
                  AtSection, SectionsAt, PlantillaSections, CosSections,
                  ReviewStages, ScreeningStages
    <2>2. file' \in [Apps -> ApplicationFile]
      BY <1>2, <2>1, SessionFinalType DEF MarkInterviewAbsent, RecordsOK
    <2> QED BY <1>2, <2>2, RecordStep DEF MarkInterviewAbsent, RecordsOK
  <1> QED BY <1>1, <1>2

LEMMA ScoresStep ==
  ASSUME NEW S, RecordsOK, Standing(case, S), NEW role, NEW scored, NEW absent,
         SaveCosScores(role, scored, absent)
  PROVE  RecordsOK' /\ Standing(case', S)
  <1>1. ASSUME NEW a \in Apps
        PROVE  /\ [file[a] EXCEPT !.session.absent = FALSE, !.session.ratings = "quorum"]
                    \in ApplicationFile
               /\ [file[a] EXCEPT !.session.absent = TRUE] \in ApplicationFile
    <2> DEFINE f == file[a]
               old == f.session
               rated == [old EXCEPT !.absent = FALSE, !.ratings = "quorum"]
               missed == [old EXCEPT !.absent = TRUE]
    <2>1. f \in ApplicationFile /\ old \in InterviewSession
      BY FileFields
    <2> HIDE DEF f
    <2>2. rated \in InterviewSession /\ missed \in InterviewSession
      BY <2>1 DEF InterviewSession
    <2>3. \A session \in InterviewSession : [f EXCEPT !.session = session] \in ApplicationFile
      BY <2>1 DEF ApplicationFile
    <2>4. /\ [f EXCEPT !.session.absent = FALSE, !.session.ratings = "quorum"]
               = [f EXCEPT !.session = rated]
          /\ [f EXCEPT !.session.absent = TRUE] = [f EXCEPT !.session = missed]
      BY <2>1 DEF ApplicationFile, InterviewSession
    <2> HIDE DEF rated, missed
    <2> QED BY <2>2, <2>3, <2>4 DEF f
  <1>2. file' \in [Apps -> ApplicationFile]
    BY <1>1 DEF SaveCosScores, RecordsOK
  <1> QED BY <1>2, RecordStep DEF SaveCosScores, RecordsOK

(* The next sitting of an absentee, or the end of their application.       *)
LEMMA DecidedType ==
  ASSUME NEW record \in ApplicationFile, NEW assessment \in Assessments
  PROVE  [record EXCEPT !.absence[assessment] = AbsenceDecided(assessment)]
           \in ApplicationFile
  BY DEF ApplicationFile, AbsenceDecided, Assessments

LEMMA SittingReopenedType ==
  ASSUME RecordsOK, NEW a \in Apps, NEW assessment \in Assessments
  PROVE  SittingReopened(a, assessment) \in ApplicationFile
  <1>1. CASE assessment = "examination"
    <2>1. SittingReopened(a, assessment)
            = [file[a] EXCEPT !.exam[file[a].absence[assessment]] = "open"]
      BY <1>1 DEF SittingReopened
    <2> DEFINE f == file[a]
    <2>2. f \in ApplicationFile /\ f.exam \in [ScreeningStages -> ExamRecord]
      BY FileFields
    <2>3. [f.exam EXCEPT ![f.absence[assessment]] = "open"]
            \in [ScreeningStages -> ExamRecord]
      BY <2>2 DEF ExamRecord
    <2>4. [f EXCEPT !.exam[f.absence[assessment]] = "open"]
            = [f EXCEPT !.exam = [f.exam EXCEPT ![f.absence[assessment]] = "open"]]
      OBVIOUS
    <2>5. \A exam \in [ScreeningStages -> ExamRecord] :
            [f EXCEPT !.exam = exam] \in ApplicationFile
      BY <2>2 DEF ApplicationFile
    <2> QED BY <2>1, <2>3, <2>4, <2>5
  <1>2. CASE assessment = "interview"
    <2> DEFINE state == IF file[a].session.state = Blank THEN Blank ELSE "open"
    <2>1. SittingReopened(a, assessment)
            = [file[a] EXCEPT !.session.state = state, !.session.absent = FALSE]
      BY <1>2 DEF SittingReopened, RecordsOK, ApplicationFile, InterviewSession
    <2>2. state \in {Blank, "open"}
      OBVIOUS
    <2> HIDE DEF state
    <2> QED BY <2>1, <2>2, SessionEdits
  <1> QED BY <1>1, <1>2 DEF Assessments

LEMMA RescheduleStep ==
  ASSUME NEW S, RecordsOK, Standing(case, S), NEW a \in Apps, NEW role \in Roles,
         NEW assessment \in Assessments, RescheduleAbsentee(role, a, assessment)
  PROVE  RecordsOK' /\ Standing(case', S)
  <1>1. file' \in [Apps -> ApplicationFile]
    BY SittingReopenedType, DecidedType DEF RescheduleAbsentee, RecordsOK
  <1> QED BY <1>1, RecordStep DEF RescheduleAbsentee, RecordsOK

LEMMA EndAfterAbsenceStep ==
  ASSUME NEW S, RecordsOK, Standing(case, S), NEW a \in Apps, NEW role \in Roles,
         NEW assessment \in Assessments, EndAfterAbsence(role, a, assessment)
  PROVE  RecordsOK' /\ Standing(case', S)
  <1>1. RecordsOK'
    <2>1. file' = [file EXCEPT ![a] =
            [file[a] EXCEPT !.absence[assessment] = AbsenceDecided(assessment)]]
      BY DEF EndAfterAbsence
    <2>2. file' \in [Apps -> ApplicationFile]
      BY <2>1, DecidedType DEF RecordsOK
    <2> QED BY <2>2 DEF EndAfterAbsence, RecordsOK
  <1>2. case[a].caseStatus \in {"active", "awaiting"}
    <2>1. CASE CanProcess(role, a)
      BY <2>1, ProcessedIsOpen
    <2>2. CASE ~case[a].locked /\ case[a].stage = "hrmpsb_review"
      BY <2>2, PanelCaseIsOpen DEF Standing
    <2> QED BY <2>1, <2>2 DEF EndAfterAbsence, CanManageAbsence
  <1> QED BY <1>1, <1>2, ClosingOne DEF EndAfterAbsence

-----------------------------------------------------------------------------
(* Repair and loans *)

LEMMA RepairStep ==
  ASSUME NEW S, RecordsOK, Standing(case, S), NEW R \in SUBSET Apps,
         Branch = "plantilla" \/ R = {}, Repair(R)
  PROVE  RecordsOK' /\ Standing(case', S)
  <1> PICK examined \in SUBSET Apps, atPanel \in SUBSET R :
        /\ \A a \in examined : case[a].caseStatus = "active"
        /\ Transition([a \in examined \cup atPanel |->
             IF a \in examined THEN AfterExam(a)
             ELSE Moved(case[a], "appointing_authority_review",
                                 "appointing_authority")])
        /\ overrides' = OverridesAfterRouting(examined)
        /\ UNCHANGED <<file, posting>>
    <2> DEFINE ex == {a \in Apps : /\ ActiveUnlocked(a)
                                   /\ LeavesAfterExam(case[a].stage)
                                   /\ Exam(a) # "open"}
               at == {a \in R : /\ case[a].status = "hrmpsb_review"
                                       /\ case[a].handler = "hrmpsb_member"}
    <2>1. \A a \in ex : case[a].caseStatus = "active"
      BY DEF ActiveUnlocked
    <2>2. /\ Transition([a \in ex \cup at |->
               IF a \in ex THEN AfterExam(a)
               ELSE Moved(case[a], "appointing_authority_review",
                                   "appointing_authority")])
          /\ overrides' = OverridesAfterRouting(ex)
          /\ UNCHANGED <<file, posting>>
      BY DEF Repair
    <2>3. ex \in SUBSET Apps /\ at \in SUBSET R
      OBVIOUS
    <2> HIDE DEF ex, at
    <2> QED BY <2>1, <2>2, <2>3
  <1> DEFINE to == [a \in examined \cup atPanel |->
                      IF a \in examined THEN AfterExam(a)
                      ELSE Moved(case[a], "appointing_authority_review",
                                          "appointing_authority")]
  <1>1. RecordsOK'
    BY DEF RecordsOK, OverridesAfterRouting
  <1>2. \A a \in Apps \cap DOMAIN to : to[a] \in GoodRows
                                      /\ (NotAppointed(to[a]) \/ a \in S)
    <2> SUFFICES ASSUME NEW a \in examined \cup atPanel
                 PROVE  to[a] \in GoodRows /\ (NotAppointed(to[a]) \/ a \in S)
      OBVIOUS
    <2>1. CASE a \in examined
      <3>1. to[a] = AfterExamResult(a, "completed")
        BY <2>1 DEF AfterExamResult
      <3> QED BY <2>1, <3>1, AfterExamGood
    <2>2. CASE a \notin examined
      <3>1. to[a] = Moved(case[a], "appointing_authority_review",
                                   "appointing_authority")
        BY <2>2
      <3>2. case[a] \in CaseRow
        BY DEF Standing, GoodRows
      <3>3. Branch = "plantilla"
        BY <2>2
      <3> HIDE DEF to
      <3> QED BY <3>1, <3>2, <3>3, MovedToAuthority
    <2> QED BY <2>1, <2>2
  <1>3. \A a \in Apps \ DOMAIN to : NotAppointed(case[a]) \/ a \in S
    BY DEF Standing
  <1>4. Transition(to)
    OBVIOUS
  <1> HIDE DEF to
  <1> QED BY <1>1, <1>2, <1>3, <1>4, Movement

(* An open case at intake goes to either office, a returned one included.  *)
LEMMA LentRow ==
  ASSUME NEW row \in GoodRows, row.caseStatus \in {"active", "awaiting"},
         row.stage = IntakeStage(Level),
         NEW role \in {LevelOwner(Level), OtherOffice(LevelOwner(Level))}
  PROVE  /\ Moved(row, row.status, role) \in GoodRows
         /\ NotAppointed(Moved(row, row.status, role))
  <1>1. /\ IntakeStage(Level) \in ScreeningStages
        /\ IntakeStage(Level) \in ReviewStages
        /\ IntakeStage(Level) \in StepStages(Branch, Level)
        /\ LevelOwner(Level) = StageOwner(IntakeStage(Level), Level)
    BY DEF IntakeStage, ScreeningStages, ReviewStages, StepStages, LevelOwner
  <1>2. CASE row.caseStatus = "active"
    <2>1. row.status = row.stage /\ row \in CaseRow
      BY <1>1, <1>2, OpenCase DEF GoodRows
    <2> QED BY <1>1, <2>1, MovedToReview
  <1>3. CASE row.caseStatus = "awaiting"
    <2>1. row.status = "returned"
      BY <1>3, AwaitingStatus
    <2> QED BY <1>1, <2>1, MovedToReturned
  <1> QED BY <1>2, <1>3

LEMMA LoanStep ==
  ASSUME NEW S, RecordsOK, Standing(case, S), NEW sent \in SUBSET Apps,
         NEW role \in {LevelOwner(Level), OtherOffice(LevelOwner(Level))},
         \A a \in sent : /\ case[a].caseStatus \in {"active", "awaiting"}
                         /\ case[a].stage = IntakeStage(Level),
         Transition([a \in sent |-> Moved(case[a], case[a].status, role)]),
         RecordsOK'
  PROVE  RecordsOK' /\ Standing(case', S)
  <1> DEFINE to == [a \in sent |-> Moved(case[a], case[a].status, role)]
  <1>1. \A a \in Apps \cap DOMAIN to : to[a] \in GoodRows
                                      /\ (NotAppointed(to[a]) \/ a \in S)
    <2> SUFFICES ASSUME NEW a \in sent
                 PROVE  /\ Moved(case[a], case[a].status, role) \in GoodRows
                        /\ NotAppointed(Moved(case[a], case[a].status, role))
      OBVIOUS
    <2>1. case[a] \in GoodRows
      BY DEF Standing
    <2> QED BY <2>1, LentRow
  <1>2. \A a \in Apps \ DOMAIN to : NotAppointed(case[a]) \/ a \in S
    BY DEF Standing
  <1>3. Transition(to)
    OBVIOUS
  <1> HIDE DEF to
  <1> QED BY <1>1, <1>2, <1>3, Movement

LEMMA SendStep ==
  ASSUME NEW S, RecordsOK, Standing(case, S), NEW sent \in SUBSET Apps,
         NEW role \in {"secretariat", "hrm_chief"}, SendToOtherOffice(sent, role),
         \A a \in sent : case[a].stage = IntakeStage(Level)
  PROVE  RecordsOK' /\ Standing(case', S)
  <1>1. \A a \in sent : case[a].caseStatus \in {"active", "awaiting"}
    BY ProcessedIsOpen DEF SendToOtherOffice, Roles
  <1>2. OtherOffice(role) \in {LevelOwner(Level), OtherOffice(LevelOwner(Level))}
    BY DEF OtherOffice, LevelOwner, StageOwner, IntakeStage
  <1>3. RecordsOK'
    BY DEF SendToOtherOffice, OverridesAfterHandOff, RecordsOK
  <1>4. Transition([a \in sent |-> Moved(case[a], case[a].status, OtherOffice(role))])
    BY DEF SendToOtherOffice
  <1> QED BY <1>1, <1>2, <1>3, <1>4, LoanStep

LEMMA HandOffStep ==
  ASSUME NEW S, RecordsOK, Standing(case, S), NEW role \in Roles, HandOffBatch(role)
  PROVE  RecordsOK' /\ Standing(case', S)
  BY SendStep DEF HandOffBatch, BatchHeldBy, ScreeningReviewRoles

LEMMA GrantStep ==
  ASSUME NEW S, RecordsOK, Standing(case, S), NEW a \in Apps, GrantOverride(a)
  PROVE  RecordsOK' /\ Standing(case', S)
  <1>1. case[a].stage = IntakeStage(Level) /\ SendToOtherOffice({a}, "hrm_chief")
    BY DEF GrantOverride, IntakeStage
  <1> QED BY <1>1, SendStep

LEMMA RecallStep ==
  ASSUME NEW S, RecordsOK, Standing(case, S), NEW role \in Roles, RecallBatch(role)
  PROVE  RecordsOK' /\ Standing(case', S)
  <1>1. /\ LoanedOut(role) \in SUBSET Apps
        /\ role = LevelOwner(Level)
        /\ \A a \in LoanedOut(role) :
             /\ case[a].caseStatus \in {"active", "awaiting"}
             /\ case[a].stage = IntakeStage(Level)
    BY DEF RecallBatch, LoanedOut, Loanable
  <1>2. RecordsOK'
    BY DEF RecallBatch, RecordsOK
  <1> QED BY <1>1, <1>2, LoanStep DEF RecallBatch

-----------------------------------------------------------------------------
(* Reopening and completion *)

LEMMA CorrectedType ==
  ASSUME RecordsOK, NEW a \in Apps, NEW stage \in Stages
  PROVE  CorrectedAt(a, stage) \in ApplicationFile
  <1> DEFINE f == file[a]
  <1>1. f \in ApplicationFile /\ f.exam \in [ScreeningStages -> ExamRecord]
    BY FileFields
  <1>2. [f EXCEPT !.session.state = "open"] \in ApplicationFile
    <2>1. "open" \in {Blank, "open", "final"}
      OBVIOUS
    <2>2. f.session \in InterviewSession
      BY FileFields
    <2>3. [f.session EXCEPT !.state = "open"] \in InterviewSession
      BY <2>2 DEF InterviewSession
    <2>4. [f EXCEPT !.session.state = "open"]
            = [f EXCEPT !.session = [f.session EXCEPT !.state = "open"]]
      OBVIOUS
    <2>5. \A session \in InterviewSession :
            [f EXCEPT !.session = session] \in ApplicationFile
      BY <1>1 DEF ApplicationFile
    <2> QED BY <2>3, <2>4, <2>5
  <1>3. [f EXCEPT !.exam[stage] = "open"] \in ApplicationFile
    <2>1. [f.exam EXCEPT ![stage] = "open"] \in [ScreeningStages -> ExamRecord]
      BY <1>1 DEF ExamRecord
    <2>2. [f EXCEPT !.exam[stage] = "open"]
            = [f EXCEPT !.exam = [f.exam EXCEPT ![stage] = "open"]]
      OBVIOUS
    <2>3. \A exam \in [ScreeningStages -> ExamRecord] :
            [f EXCEPT !.exam = exam] \in ApplicationFile
      BY <1>1 DEF ApplicationFile
    <2> QED BY <2>1, <2>2, <2>3
  <1>4. CASE stage \in ScreeningStages
    <2>1. [f EXCEPT !.screening[stage].verdict = Blank] \in ApplicationFile
      <3>1. /\ f.screening \in [ScreeningStages -> ScreeningRecord]
            /\ f.screening[stage] \in ScreeningRecord
        BY <1>1, <1>4 DEF ApplicationFile
      <3>2. [f.screening[stage] EXCEPT !.verdict = Blank] \in ScreeningRecord
        BY <3>1 DEF ScreeningRecord
      <3>3. [f.screening EXCEPT ![stage] = [f.screening[stage] EXCEPT !.verdict = Blank]]
              \in [ScreeningStages -> ScreeningRecord]
        BY <3>1, <3>2
      <3>4. [f EXCEPT !.screening[stage].verdict = Blank]
              = [f EXCEPT !.screening =
                   [f.screening EXCEPT ![stage] =
                      [f.screening[stage] EXCEPT !.verdict = Blank]]]
        OBVIOUS
      <3>5. \A screening \in [ScreeningStages -> ScreeningRecord] :
              [f EXCEPT !.screening = screening] \in ApplicationFile
        BY <1>1 DEF ApplicationFile
      <3> QED BY <3>3, <3>4, <3>5
    <2> HIDE DEF f
    <2> QED BY <1>1, <1>2, <1>3, <2>1 DEF CorrectedAt, f, Session
  <1>5. CASE stage \notin ScreeningStages
    <2>1. "exam" \notin SectionsAt(Branch, stage)
      BY <1>5 DEF SectionsAt, PlantillaSections, CosSections, ScreeningStages
    <2> QED BY <1>1, <1>2, <2>1 DEF CorrectedAt, Session
  <1> QED BY <1>4, <1>5

(* A closed case reopens at the stage it was closed in; in completion that *)
(* is the selected applicant's.                                            *)
LEMMA ReopenStep ==
  ASSUME NEW S, RecordsOK, Standing(case, S), NEW a \in Apps, Reopen(a, S)
  PROVE  RecordsOK' /\ Standing(case', S)
  <1> DEFINE row == case[a]
             stage == row.lockedStage
             status == StatusForStage(stage)
             role == StageOwner(stage, Level)
  <1>1. row \in GoodRows /\ row \in CaseRow /\ (NotAppointed(row) \/ a \in S)
    BY DEF Standing, GoodRows
  <1>2. stage \in StepStages(Branch, Level)
    BY <1>1, LockedRow DEF Reopen, CanReopen
  <1>3. stage \in Stages
    BY <1>2 DEF StepStages, IntakeStage, Stages, OpenStages, ReviewStages, ScreeningStages
  <1>4. RecordsOK'
    <2>1. CorrectedAt(a, stage) \in ApplicationFile
      BY <1>3, CorrectedType
    <2> QED BY <2>1 DEF Reopen, RecordsOK
  <1>5. TransitionOne(a, status, role)
    BY DEF Reopen
  <1>6. CASE stage = "completion"
    <2>1. status = "approved" /\ role = CompletionOwner(Level)
      BY <1>6 DEF StatusForStage, StageOwner, ReviewStages, ScreeningStages
    <2>2. a \in S
      BY <1>1, <1>6 DEF NotAppointed
    <2>3. Moved(row, status, role) \in GoodRows
      BY <1>1, <2>1, MovedToCompletion
    <2> HIDE DEF row, status, role
    <2> QED BY <1>4, <1>5, <2>2, <2>3, MovementOfOne DEF row
  <1>7. CASE stage # "completion"
    <2>1. stage \in ReviewStages
      BY <1>2, <1>7 DEF StepStages, IntakeStage, ReviewStages, ScreeningStages
    <2>2. status = stage
      BY <2>1 DEF StatusForStage, ReviewStages, ScreeningStages
    <2>3. Moved(row, status, role) \in GoodRows /\ NotAppointed(Moved(row, status, role))
      BY <1>1, <1>2, <2>1, <2>2, MovedToReview
    <2> HIDE DEF row, status, role
    <2> QED BY <1>4, <1>5, <2>3, MovementOfOne DEF row
  <1> QED BY <1>6, <1>7

LEMMA CompletionRecordStep ==
  ASSUME NEW S, RecordsOK, Standing(case, S), NEW a \in Apps, NEW role \in Roles,
         NEW value \in {"tracked", "referenced", "ready"},
         SaveCompletion(role, a, value)
  PROVE  RecordsOK' /\ Standing(case', S)
  <1>1. [file[a] EXCEPT !.completion = value] \in ApplicationFile
    BY FileFields DEF ApplicationFile, CompletionRecord
  <1>2. file' \in [Apps -> ApplicationFile]
    BY <1>1 DEF SaveCompletion, RecordsOK
  <1> QED BY <1>2, RecordStep DEF SaveCompletion, RecordsOK

LEMMA CloseStep ==
  ASSUME NEW S, RecordsOK, Standing(case, S), NEW a \in Apps, NEW role \in Roles,
         CloseCase(role, a)
  PROVE  RecordsOK' /\ Standing(case', S)
  <1>1. /\ CanProcess(role, a)
        /\ case[a].status = "approved" /\ case[a].stage = "completion"
        /\ TransitionOne(a, "approved", Blank)
    BY DEF CloseCase, CanManageCompletion
  <1>2. a \in S
    BY <1>1 DEF Standing, NotAppointed
  <1>3. Moved(case[a], "approved", Blank) \in GoodRows
    BY <1>1, ProcessedIsOpen, MovedToClosed
  <1>4. RecordsOK'
    BY DEF CloseCase, RecordsOK
  <1> QED BY <1>1, <1>2, <1>3, <1>4, MovementOfOne

-----------------------------------------------------------------------------
(* All of them *)

LEMMA InitialCases ==
  ASSUME CaseInit, NEW S
  PROVE  RecordsOK /\ Standing(case, S)
  <1>1. EmptyFile \in ApplicationFile
    <2>1. [s \in ScreeningStages |-> [verdict |-> Blank, flagged |-> FALSE]]
            \in [ScreeningStages -> ScreeningRecord]
      BY DEF ScreeningRecord
    <2>2. [s \in ScreeningStages |-> "open"] \in [ScreeningStages -> ExamRecord]
      BY DEF ExamRecord
    <2>3. [k \in Assessments |-> Blank]
            \in [Assessments -> ReviewStages \cup {Blank, "decided"}]
      OBVIOUS
    <2>4. [state |-> Blank, ratings |-> "none", absent |-> FALSE] \in InterviewSession
      BY DEF InterviewSession, Blank
    <2> QED BY <2>1, <2>2, <2>3, <2>4 DEF EmptyFile, ApplicationFile, CompletionRecord, Blank
  <1>2. DraftCase \in GoodRows /\ NotAppointed(DraftCase)
    BY DEF GoodRows, CaseRow, RowAligned, DraftCase, NotAppointed, Statuses,
           CaseStatuses, ReviewStages, ScreeningStages, Blank
  <1>3. RecordsOK
    BY <1>1 DEF CaseInit, RecordsOK, Posting
  <1> QED BY <1>2, <1>3 DEF CaseInit, Standing

(* A step of the operations both branches share.                           *)
LEMMA CaseStepKeeps ==
  ASSUME NEW S, RecordsOK, Standing(case, S), NEW R \in SUBSET Apps,
         Branch = "plantilla" \/ R = {}, CaseStep(S, R)
  PROVE  RecordsOK' /\ Standing(case', S)
  <1>1. CASE \/ NextDay
             \/ \E day \in {"before", "closing_day"} : ExtendIntake(day)
             \/ \E new \in {"active", "suspended", "closed"} :
                  UpdateEntryStatus(new, S # {} /\ ~OpenPool)
    BY <1>1, PostingSteps
  <1>2. CASE CancelEntry(S # {})
    BY <1>2, CancelStep
  <1>3. ASSUME NEW a \in Apps,
               \/ SubmitApplication(a)
               \/ SubmitDocumentResubmission(a)
               \/ GrantOverride(a)
               \/ Reopen(a, S)
        PROVE  RecordsOK' /\ Standing(case', S)
    BY <1>3, SubmitStep, ResubmitStep, GrantStep, ReopenStep
  <1>4. ASSUME NEW a \in Apps, NEW role \in Roles, OfficeStep(role, a)
        PROVE  RecordsOK' /\ Standing(case', S)
    <2>1. CASE RecordWithdrawal(role, a)
      BY <2>1, WithdrawalStep
    <2>2. CASE \/ \E flagged \in BOOLEAN : SaveScreeningDraft(role, a, flagged)
               \/ FinalizeQualified(role, a)
      BY <2>2, ScreeningRecordSteps
    <2>3. CASE FinalizeNotQualified(role, a) \/ RemoveFromBatch(role, a)
      BY <2>3, RejectionSteps
    <2>4. CASE ReturnDocuments(role, a)
      BY <2>4, ReturnStep
    <2>5. CASE RateInterview(role, a)
      BY <2>5, SessionSteps
    <2>6. ASSUME NEW assessment \in Assessments,
                 \/ RescheduleAbsentee(role, a, assessment)
                 \/ EndAfterAbsence(role, a, assessment)
          PROVE  RecordsOK' /\ Standing(case', S)
      BY <2>6, RescheduleStep, EndAfterAbsenceStep
    <2>7. CASE \E value \in {"tracked", "referenced", "ready"} :
                 SaveCompletion(role, a, value)
      BY <2>7, CompletionRecordStep
    <2>8. CASE CloseCase(role, a)
      BY <2>8, CloseStep
    <2> QED BY <1>4, <2>1, <2>2, <2>3, <2>4, <2>5, <2>6, <2>7, <2>8
            DEF OfficeStep, ScreeningPage, AbsencePage, CompletionPage
  <1>5. ASSUME NEW role \in Roles, ExamConsole(role)
        PROVE  RecordsOK' /\ Standing(case', S)
    <2>1. CASE ScheduleExam(role)
      BY <2>1, ScheduleExamStep
    <2>2. CASE \E result \in [ExamPool -> {"completed", "absent", "waived"}] :
                 FinalizeExams(role, result)
      BY <2>2, FinalizeExamsStep
    <2> QED BY <1>5, <2>1, <2>2 DEF ExamConsole
  <1>6. ASSUME NEW role \in Roles, InterviewConsole(role)
        PROVE  RecordsOK' /\ Standing(case', S)
    <2>1. CASE ScheduleInterviews(role)
      BY <2>1, ScheduleInterviewsStep
    <2>2. CASE FinalizeInterviews(role)
      BY <2>2, FinalizeInterviewsStep
    <2>3. ASSUME NEW a \in InterviewPool, MarkInterviewAbsent(role, a)
          PROVE  RecordsOK' /\ Standing(case', S)
      BY <2>3, SessionSteps DEF InterviewPool
    <2>4. ASSUME NEW scored \in SUBSET Apps, NEW absent \in SUBSET Apps,
                 SaveCosScores(role, scored, absent)
          PROVE  RecordsOK' /\ Standing(case', S)
      BY <2>4, ScoresStep
    <2> QED BY <1>6, <2>1, <2>2, <2>3, <2>4 DEF InterviewConsole
  <1>7. ASSUME NEW role \in Roles, HandOffPage(role)
        PROVE  RecordsOK' /\ Standing(case', S)
    BY <1>7, HandOffStep, RecallStep DEF HandOffPage
  <1>8. CASE Repair(R)
    BY <1>8, RepairStep
  <1> QED BY <1>1, <1>2, <1>3, <1>4, <1>5, <1>6, <1>7, <1>8 DEF CaseStep

-----------------------------------------------------------------------------
(* Rows and phases *)

Exits == {"rejected", "withdrawn", "vacancy_cancelled"}

LEMMA PhaseOf ==
  ASSUME NEW status \in Statuses
  PROVE  /\ status \in ReviewStages \cup {"returned"} => Phase(status) = "open"
         /\ status = "approved" => Phase(status) = "appointed"
         /\ status \in Exits \cup {"draft"} => Phase(status) = status
         /\ Phase(status) = "open" => status \in ReviewStages \cup {"returned"}
         /\ Phase(status) \in {"draft", "open", "appointed"} \cup Exits
  BY DEF Phase, Statuses, ReviewStages, ScreeningStages, Exits

(* Whatever moves a case, the status it is given is the one it has.        *)
LEMMA MovedStatus ==
  ASSUME NEW row \in CaseRow, NEW status, NEW role
  PROVE  Moved(row, status, role).status = status
  BY DEF Moved, CaseRow

(* An open case is in review or with the applicant, or the appointee's.    *)
LEMMA OpenRow ==
  ASSUME NEW row \in GoodRows, row.caseStatus \in {"active", "awaiting"}
  PROVE  /\ row.stage # "completion" => row.status \in ReviewStages \cup {"returned"}
         /\ row.stage = "completion" => row.status = "approved"
  <1>1. /\ row.status \in Statuses /\ row.status # "draft"
        /\ row.stage # "completion" => row.status # "approved"
        /\ RowAligned(row)
    BY OpenCase DEF GoodRows, CaseRow
  <1>2. row.status \notin Exits
    BY <1>1 DEF RowAligned, ClosedAs, Exits
  <1>3. row.stage = "completion" => row.status \notin ReviewStages \cup {"returned"}
    BY <1>1 DEF RowAligned, InReview, AwaitingApplicant, ReviewStages, ScreeningStages
  <1> QED
    BY <1>1, <1>2, <1>3 DEF Statuses, Exits

(* And a case in review or with the applicant is open.                     *)
LEMMA ReviewRow ==
  ASSUME NEW row \in GoodRows, row.status \in ReviewStages \cup {"returned"}
  PROVE  /\ row.caseStatus \in {"active", "awaiting"}
         /\ row.stage # "completion"
  BY DEF GoodRows, RowAligned, InReview, AwaitingApplicant, ReviewStages, ScreeningStages

(* A closed case left by one of the exits, or was completed.               *)
LEMMA ClosedPhase ==
  ASSUME NEW row \in GoodRows, row.locked
  PROVE  /\ row.status \in Exits \cup {"approved"}
         /\ row.status = "approved" => row.lockedStage = "completion"
  <1>1. row.status \in Statuses /\ RowAligned(row)
    BY DEF GoodRows, CaseRow
  <1>2. /\ row.status \notin ReviewStages /\ row.status # "returned"
        /\ row.status # "draft"
        /\ row.status = "approved" => row.lockedStage = "completion"
    BY <1>1 DEF RowAligned, InReview, AwaitingApplicant, InCompletion, DraftCase
  <1> QED
    BY <1>1, <1>2 DEF Statuses, Exits

LEMMA RejectedRow ==
  ASSUME NEW row \in GoodRows, row.caseStatus = "rejected"
  PROVE  row.status = "rejected"
  <1>1. row.status \in Statuses /\ RowAligned(row)
    BY DEF GoodRows, CaseRow
  <1>2. ~InReview(row) /\ ~AwaitingApplicant(row) /\ ~InCompletion(row) /\ row # DraftCase
    BY DEF InReview, AwaitingApplicant, InCompletion, DraftCase, Blank
  <1> QED
    BY <1>1, <1>2 DEF RowAligned, Statuses, ClosedAs

(* The phase of an application in a state of the invariant.                *)
LEMMA PhaseAt ==
  ASSUME NEW S, Standing(case, S), NEW a \in Apps
  PROVE  /\ case[a] \in GoodRows /\ case[a] \in CaseRow /\ case[a].status \in Statuses
         /\ Phases[a] = Phase(case[a].status)
         /\ Phases[a] = "open" <=> /\ case[a].caseStatus \in {"active", "awaiting"}
                                   /\ case[a].stage # "completion"
         /\ case[a].status = "approved" => a \in S
         /\ case[a].stage = "completion" => a \in S
  <1>1. case[a] \in GoodRows /\ (NotAppointed(case[a]) \/ a \in S)
    BY DEF Standing
  <1>2. case[a] \in CaseRow /\ case[a].status \in Statuses
    BY <1>1 DEF GoodRows, CaseRow
  <1>3. Phases[a] = Phase(case[a].status)
    BY DEF Phases
  <1>4. Phase(case[a].status) = "open" <=> case[a].status \in ReviewStages \cup {"returned"}
    BY <1>2, PhaseOf
  <1> QED
    BY <1>1, <1>2, <1>3, <1>4, OpenRow, ReviewRow DEF NotAppointed

LEMMA OthersStay ==
  ASSUME NEW b \in Apps, NEW status, NEW role, TransitionOne(b, status, role),
         NEW a \in Apps, a # b
  PROVE  case'[a] = case[a]
  BY DEF TransitionOne, Transition

(* The row a movement of one case gives it.                                *)
LEMMA OneMoved ==
  ASSUME NEW a \in Apps, NEW status, NEW role, TransitionOne(a, status, role)
  PROVE  case'[a] = Moved(case[a], status, role)
  BY DEF TransitionOne, Transition

-----------------------------------------------------------------------------
(* The phases of a step *)

PhasesWith(moved, p) == [a \in Apps |-> IF a \in moved THEN p ELSE Phases[a]]

(* What the lifecycle lets the shared operations do to the phases while    *)
(* the applications of S are selected (CaseLifecycle, without Appoint and  *)
(* TakeBack).                                                              *)
LifecycleMove(S) ==
  \/ Phases' = Phases
  \/ \E a \in Apps : Phases[a] = "draft" /\ Phases' = PhasesWith({a}, "open")
  \/ \E a \in Apps : Phases[a] = "open" /\ Phases' = PhasesWith({a}, "withdrawn")
  \/ \E out \in SUBSET Apps : /\ \A a \in out : Phases[a] = "open"
                              /\ Phases' = PhasesWith(out, "rejected")
  \/ /\ S = {}
     /\ Phases' = PhasesWith({a \in Apps : Phases[a] = "open"}, "vacancy_cancelled")
  \/ \E a \in Apps, p \in {"open", "appointed"} :
       /\ Phases[a] \in Exits
       /\ S = {} \/ a \in S
       /\ p = "appointed" => a \in S
       /\ Phases' = PhasesWith({a}, p)
  \/ \E a \in S \cap Apps : /\ Phases[a] = "appointed"
                            /\ Phases' = PhasesWith({a}, "rejected")

(* Cases that move within a phase.                                         *)
LEMMA NoMovement ==
  ASSUME UNCHANGED case, NEW S
  PROVE  LifecycleMove(S)
  BY DEF LifecycleMove, Phases

LEMMA SamePhase ==
  ASSUME NEW S, Standing(case, S), NEW to, Transition(to),
         \A a \in Apps \cap DOMAIN to : Phase(to[a].status) = Phases[a]
  PROVE  LifecycleMove(S)
  <1>1. Phases' = Phases
    BY DEF Phases, Transition
  <1> QED
    BY <1>1 DEF LifecycleMove

(* Cases that move to one phase.                                           *)
LEMMA NewPhase ==
  ASSUME NEW to, Transition(to), DOMAIN to \subseteq Apps, NEW p,
         \A a \in DOMAIN to : Phase(to[a].status) = p
  PROVE  Phases' = PhasesWith(DOMAIN to, p)
  BY DEF Phases, Transition, PhasesWith

(* The same for the movement of one case.                                  *)
LEMMA OnePhase ==
  ASSUME NEW S, Standing(case, S), NEW a \in Apps, NEW status \in Statuses, NEW role,
         TransitionOne(a, status, role)
  PROVE  Phases' = PhasesWith({a}, Phase(status))
  <1> DEFINE to == [b \in {a} |-> Moved(case[b], status, role)]
  <1>1. case[a] \in CaseRow
    BY PhaseAt
  <1>2. Transition(to) /\ DOMAIN to = {a} /\ to[a] = Moved(case[a], status, role)
    BY DEF TransitionOne
  <1>3. to[a].status = status
    BY <1>1, <1>2, MovedStatus
  <1> HIDE DEF to
  <1> QED
    BY <1>2, <1>3, NewPhase

LEMMA OneSamePhase ==
  ASSUME NEW S, Standing(case, S), NEW a \in Apps, NEW status \in Statuses, NEW role,
         TransitionOne(a, status, role),
         Phase(status) = Phases[a]
  PROVE  LifecycleMove(S)
  <1>1. Phases' = PhasesWith({a}, Phase(status))
    BY OnePhase
  <1>2. Phases' = Phases
    BY <1>1 DEF PhasesWith, Phases
  <1> QED
    BY <1>2 DEF LifecycleMove

LEMMA OneRejected ==
  ASSUME NEW S, Standing(case, S), NEW a \in Apps, Phases[a] = "open",
         TransitionOne(a, "rejected", Blank)
  PROVE  LifecycleMove(S)
  <1>1. "rejected" \in Statuses /\ Phase("rejected") = "rejected"
    BY DEF Statuses, Phase, ReviewStages, ScreeningStages
  <1>2. Phases' = PhasesWith({a}, "rejected")
    BY <1>1, OnePhase
  <1> QED
    BY <1>2 DEF LifecycleMove

(* Closing cases moves them to the phase they are closed as.               *)
LEMMA AllClosed ==
  ASSUME NEW S, Standing(case, S), NEW closing \in SUBSET Apps, NEW status \in Exits,
         CloseAll(closing, status)
  PROVE  Phases' = PhasesWith(closing, status)
  <1> DEFINE to == [a \in closing |-> Moved(case[a], status, Blank)]
  <1>1. status \in Statuses /\ Phase(status) = status
    BY DEF Statuses, Phase, Exits, ReviewStages, ScreeningStages
  <1>2. Transition(to) /\ DOMAIN to = closing
    BY DEF CloseAll
  <1>3. \A a \in closing : to[a].status = status
    BY PhaseAt, MovedStatus
  <1> HIDE DEF to
  <1> QED
    BY <1>1, <1>2, <1>3, NewPhase

(* A cancellation ends every open case, and only while nobody is selected. *)
LEMMA CancelPhases ==
  ASSUME NEW S, Standing(case, S), CancelEntry(S # {})
  PROVE  LifecycleMove(S)
  <1>1. S = {} /\ CloseAll(InFlight, "vacancy_cancelled")
    BY DEF CancelEntry
  <1>3. InFlight = {a \in Apps : Phases[a] = "open"}
    BY <1>1, PhaseAt DEF InFlight
  <1>4. Phases' = PhasesWith(InFlight, "vacancy_cancelled")
    BY <1>1, AllClosed DEF InFlight, Exits
  <1> QED
    BY <1>1, <1>3, <1>4 DEF LifecycleMove

LEMMA SubmitPhases ==
  ASSUME NEW S, Standing(case, S), NEW a \in Apps, SubmitApplication(a)
  PROVE  LifecycleMove(S)
  <1> DEFINE status == StatusForStage(IntakeStage(Level))
  <1>1. TransitionOne(a, status, LevelOwner(Level)) /\ case[a].status = "draft"
    BY DEF SubmitApplication, Submitted
  <1>2. status \in ReviewStages /\ status \in Statuses
    BY DEF StatusForStage, IntakeStage, ReviewStages, ScreeningStages, Statuses
  <1>3. Phase(status) = "open" /\ Phases[a] = "draft"
    <2>1. "draft" \in Statuses
      BY DEF Statuses
    <2> QED
      BY <1>1, <1>2, <2>1, PhaseOf, PhaseAt
  <1> HIDE DEF status
  <1>4. Phases' = PhasesWith({a}, "open")
    BY <1>1, <1>2, <1>3, OnePhase
  <1> QED
    BY <1>3, <1>4 DEF LifecycleMove

LEMMA ResubmitPhases ==
  ASSUME NEW S, Standing(case, S), NEW a \in Apps, SubmitDocumentResubmission(a)
  PROVE  LifecycleMove(S)
  <1> DEFINE status == StatusForStage(case[a].stage)
  <1>1. TransitionOne(a, status, case[a].handler) /\ case[a].caseStatus = "awaiting"
    BY DEF SubmitDocumentResubmission
  <1>2. case[a].stage \in ScreeningStages
    BY <1>1, PhaseAt, AwaitingCase DEF AwaitingApplicant
  <1>3. status \in ReviewStages /\ status \in Statuses
    BY <1>2 DEF StatusForStage, ReviewStages, ScreeningStages, Statuses
  <1>4. Phase(status) = "open"
    BY <1>3, PhaseOf
  <1>5. Phases[a] = "open"
    BY <1>1, <1>2, PhaseAt DEF ScreeningStages
  <1> HIDE DEF status
  <1> QED
    BY <1>1, <1>3, <1>4, <1>5, OneSamePhase

LEMMA WithdrawalPhases ==
  ASSUME NEW S, Standing(case, S), NEW a \in Apps, NEW role \in Roles,
         RecordWithdrawal(role, a)
  PROVE  LifecycleMove(S)
  <1>1. TransitionOne(a, "withdrawn", Blank) /\ Phases[a] = "open"
    BY PhaseAt DEF RecordWithdrawal, CanRecordWithdrawal, InFlight
  <1>2. "withdrawn" \in Statuses /\ Phase("withdrawn") = "withdrawn"
    BY DEF Statuses, Phase, ReviewStages, ScreeningStages
  <1>3. Phases' = PhasesWith({a}, "withdrawn")
    BY <1>1, <1>2, OnePhase
  <1> QED
    BY <1>1, <1>3 DEF LifecycleMove

LEMMA ScreeningPhases ==
  ASSUME NEW S, Standing(case, S), NEW a \in Apps, NEW role \in Roles,
         \/ FinalizeNotQualified(role, a) \/ RemoveFromBatch(role, a)
         \/ ReturnDocuments(role, a)
  PROVE  LifecycleMove(S)
  <1>1. CanProcess(role, a) /\ case[a].stage \in ScreeningStages
    BY DEF FinalizeNotQualified, RemoveFromBatch, ReturnDocuments, CanManageScreening
  <1>2. Phases[a] = "open"
    BY <1>1, ProcessedIsOpen, PhaseAt DEF ScreeningStages
  <1>3. CASE FinalizeNotQualified(role, a) \/ RemoveFromBatch(role, a)
    BY <1>2, <1>3, OneRejected DEF FinalizeNotQualified, RemoveFromBatch
  <1>4. CASE ReturnDocuments(role, a)
    <2>1. "returned" \in Statuses /\ Phase("returned") = "open"
      BY DEF Statuses, Phase
    <2> QED
      BY <1>2, <1>4, <2>1, OneSamePhase DEF ReturnDocuments
  <1> QED
    BY <1>3, <1>4

(* What the exam makes of an open case.                                    *)
LEMMA ExamPhase ==
  ASSUME NEW S, Standing(case, S), NEW a \in Apps,
         NEW result \in {"completed", "absent", "waived"},
         Phases[a] = "open"
  PROVE  Phase(AfterExamResult(a, result).status) =
           IF result = "waived" THEN "rejected" ELSE "open"
  <1>1. case[a] \in CaseRow /\ Phase(case[a].status) = "open"
    BY PhaseAt
  <1>2. CASE result = "completed"
    <2>1. \/ AfterExamResult(a, result) = Moved(case[a], "hrmpsb_review", "hrmpsb_member")
          \/ AfterExamResult(a, result) = Moved(case[a], "hrm_chief_review", "hrm_chief")
          \/ AfterExamResult(a, result) = case[a]
      BY <1>2 DEF AfterExamResult, AfterExam
    <2>2. Phase("hrmpsb_review") = "open" /\ Phase("hrm_chief_review") = "open"
      BY DEF Phase, ReviewStages, ScreeningStages
    <2> QED
      BY <1>1, <1>2, <2>1, <2>2, MovedStatus
  <1>3. CASE result = "waived"
    <2>1. AfterExamResult(a, result) = Moved(case[a], "rejected", Blank)
      BY <1>3 DEF AfterExamResult
    <2>2. Phase("rejected") = "rejected"
      BY DEF Phase, ReviewStages, ScreeningStages
    <2> QED
      BY <1>1, <1>3, <2>1, <2>2, MovedStatus
  <1>4. CASE result = "absent"
    BY <1>1, <1>4 DEF AfterExamResult
  <1> QED
    BY <1>2, <1>3, <1>4

LEMMA ExamPhases ==
  ASSUME NEW S, Standing(case, S), NEW role \in Roles,
         NEW result \in [ExamPool -> {"completed", "absent", "waived"}],
         FinalizeExams(role, result)
  PROVE  LifecycleMove(S)
  <1> DEFINE to == [a \in ExamPool |-> AfterExamResult(a, result[a])]
             out == {a \in ExamPool : result[a] = "waived"}
  <1>1. Transition(to) /\ DOMAIN to = ExamPool
    BY DEF FinalizeExams
  <1>2. \A a \in ExamPool : /\ a \in Apps /\ Phases[a] = "open"
                            /\ result[a] \in {"completed", "absent", "waived"}
    <2>1. \A a \in ExamPool : /\ a \in Apps /\ case[a].caseStatus = "active"
                              /\ case[a].stage \in ScreeningStages
      BY DEF ExamPool, ActiveUnlocked, FinalizeExams, CanManageExam
    <2> QED
      BY <2>1, PhaseAt DEF ScreeningStages
  <1>3. \A a \in ExamPool : Phase(to[a].status) = IF a \in out THEN "rejected" ELSE "open"
    BY <1>2, ExamPhase
  <1> HIDE DEF to
  <1>4. Phases' = PhasesWith(out, "rejected")
    BY <1>1, <1>2, <1>3 DEF Phases, Transition, PhasesWith
  <1>5. out \in SUBSET Apps /\ \A a \in out : Phases[a] = "open"
    BY <1>2
  <1> HIDE DEF out
  <1> QED
    BY <1>4, <1>5 DEF LifecycleMove

(* The appointee whose absence was still to be decided is dropped; anybody *)
(* else is open and rejected.                                              *)
LEMMA AbsencePhases ==
  ASSUME NEW S, Standing(case, S), NEW a \in Apps, NEW role \in Roles,
         NEW assessment \in Assessments, EndAfterAbsence(role, a, assessment)
  PROVE  LifecycleMove(S)
  <1>1. TransitionOne(a, "rejected", Blank)
    BY DEF EndAfterAbsence
  <1>2. case[a].caseStatus \in {"active", "awaiting"}
    <2>1. CASE CanProcess(role, a)
      BY <2>1, ProcessedIsOpen
    <2>2. CASE ~case[a].locked /\ case[a].stage = "hrmpsb_review"
      BY <2>2, PanelCaseIsOpen DEF Standing
    <2> QED
      BY <2>1, <2>2 DEF EndAfterAbsence, CanManageAbsence
  <1>3. CASE case[a].stage # "completion"
    BY <1>1, <1>2, <1>3, PhaseAt, OneRejected
  <1>4. CASE case[a].stage = "completion"
    <2>1. a \in S
      BY <1>4, PhaseAt
    <2>2. Phases[a] = "appointed"
      BY <1>2, <1>4, PhaseAt, OpenRow, PhaseOf
    <2>3. "rejected" \in Statuses /\ Phase("rejected") = "rejected"
      BY DEF Statuses, Phase, ReviewStages, ScreeningStages
    <2>4. Phases' = PhasesWith({a}, "rejected")
      BY <1>1, <2>3, OnePhase
    <2> QED
      BY <2>1, <2>2, <2>4 DEF LifecycleMove
  <1> QED
    BY <1>3, <1>4

LEMMA RepairPhases ==
  ASSUME NEW S, Standing(case, S), NEW R \in SUBSET Apps, Repair(R)
  PROVE  LifecycleMove(S)
  <1> DEFINE examined == {a \in Apps : /\ ActiveUnlocked(a)
                                       /\ LeavesAfterExam(case[a].stage)
                                       /\ Exam(a) # "open"}
             atPanel == {a \in R : /\ case[a].status = "hrmpsb_review"
                                          /\ case[a].handler = "hrmpsb_member"}
             to == [a \in examined \cup atPanel |->
                      IF a \in examined THEN AfterExam(a)
                      ELSE Moved(case[a], "appointing_authority_review",
                                          "appointing_authority")]
  <1>1. Transition(to)
    BY DEF Repair
  <1>2. DOMAIN to = examined \cup atPanel /\ atPanel \subseteq Apps
    OBVIOUS
  <1>3. ASSUME NEW a \in examined
        PROVE  Phase(to[a].status) = "open" /\ Phases[a] = "open"
    <2>1. case[a].caseStatus = "active" /\ case[a].stage \in ScreeningStages
      BY <1>3 DEF ActiveUnlocked, LeavesAfterExam, ScreeningStages
    <2>2. Phases[a] = "open"
      BY <2>1, PhaseAt DEF ScreeningStages
    <2>3. to[a] = AfterExamResult(a, "completed")
      BY DEF AfterExamResult
    <2> HIDE DEF to
    <2> QED
      BY <2>2, <2>3, ExamPhase
  <1>4. ASSUME NEW a \in atPanel, a \notin examined
        PROVE  Phase(to[a].status) = "open" /\ Phases[a] = "open"
    <2>1. to[a] = Moved(case[a], "appointing_authority_review", "appointing_authority")
      BY <1>4
    <2>2. /\ Phase("appointing_authority_review") = "open"
          /\ Phase("hrmpsb_review") = "open"
      BY DEF Phase, ReviewStages, ScreeningStages
    <2>3. case[a].status = "hrmpsb_review"
      OBVIOUS
    <2> HIDE DEF to
    <2> QED
      BY <1>2, <2>1, <2>2, <2>3, PhaseAt, MovedStatus
  <1>5. \A a \in Apps \cap DOMAIN to : Phase(to[a].status) = Phases[a]
    BY <1>2, <1>3, <1>4
  <1> HIDE DEF to
  <1> QED
    BY <1>1, <1>5, SamePhase

(* Lending and recalling change the holder, never the status.              *)
LEMMA LoanPhases ==
  ASSUME NEW S, Standing(case, S), NEW sent \in SUBSET Apps, NEW role,
         Transition([a \in sent |-> Moved(case[a], case[a].status, role)])
  PROVE  LifecycleMove(S)
  <1> DEFINE to == [a \in sent |-> Moved(case[a], case[a].status, role)]
  <1>1. \A a \in sent : to[a].status = case[a].status
    BY PhaseAt, MovedStatus
  <1>2. Transition(to) /\ DOMAIN to = sent
    OBVIOUS
  <1> HIDE DEF to
  <1> QED
    BY <1>1, <1>2, SamePhase DEF Phases

LEMMA HandOffPhases ==
  ASSUME NEW S, Standing(case, S), 
         \/ \E role \in Roles : HandOffBatch(role) \/ RecallBatch(role)
         \/ \E a \in Apps : GrantOverride(a)
  PROVE  LifecycleMove(S)
  <1>1. ASSUME NEW role \in Roles, HandOffBatch(role)
        PROVE  LifecycleMove(S)
    BY <1>1, LoanPhases DEF HandOffBatch, SendToOtherOffice, BatchHeldBy
  <1>2. ASSUME NEW role \in Roles, RecallBatch(role)
        PROVE  LifecycleMove(S)
    BY <1>2, LoanPhases DEF RecallBatch, LoanedOut
  <1>3. ASSUME NEW a \in Apps, GrantOverride(a)
        PROVE  LifecycleMove(S)
    BY <1>3, LoanPhases DEF GrantOverride, SendToOtherOffice
  <1> QED
    BY <1>1, <1>2, <1>3

(* Somebody out comes back where they left; a completed case goes back to  *)
(* completion and is appointed before and after.                           *)
LEMMA ReopenPhases ==
  ASSUME NEW S, Standing(case, S), NEW a \in Apps, Reopen(a, S)
  PROVE  LifecycleMove(S)
  <1> DEFINE stage == case[a].lockedStage
             status == StatusForStage(stage)
             role == StageOwner(stage, Level)
  <1>1. /\ case[a].locked /\ TransitionOne(a, status, role)
        /\ S = {} \/ a \in S
    BY DEF Reopen, CanReopen, CompetitionAllows
  <1>2. case[a] \in GoodRows /\ stage \in StepStages(Branch, Level)
    BY <1>1, PhaseAt, LockedRow
  <1>3. case[a].status \in Exits \cup {"approved"}
        /\ (case[a].status = "approved" => stage = "completion")
    BY <1>1, <1>2, ClosedPhase
  <1>4. stage \in ReviewStages \cup {"completion"}
    BY <1>2 DEF StepStages, IntakeStage, ReviewStages, ScreeningStages
  <1>5. /\ stage = "completion" => status = "approved"
        /\ stage # "completion" => status \in ReviewStages
    BY <1>4 DEF StatusForStage, ReviewStages, ScreeningStages
  <1>6. status \in Statuses
    BY <1>5 DEF Statuses
  <1>7. Phase(status) = IF stage = "completion" THEN "appointed" ELSE "open"
    BY <1>5, <1>6, PhaseOf
  <1>8. stage = "completion" => a \in S
    BY <1>2 DEF Standing, NotAppointed
  <1> HIDE DEF status, role
  <1>9. CASE case[a].status = "approved"
    <2>1. Phases[a] = "appointed"
      BY <1>9, PhaseAt, PhaseOf
    <2> QED
      BY <1>1, <1>3, <1>6, <1>7, <1>9, <2>1, OneSamePhase
  <1>10. CASE case[a].status \in Exits
    <2>1. Phases[a] \in Exits
      BY <1>10, PhaseAt, PhaseOf
    <2>2. Phases' = PhasesWith({a}, Phase(status))
      BY <1>1, <1>6, OnePhase
    <2> QED
      BY <1>1, <1>7, <1>8, <2>1, <2>2 DEF LifecycleMove
  <1> QED
    BY <1>3, <1>9, <1>10

LEMMA ClosePhases ==
  ASSUME NEW S, Standing(case, S), NEW a \in Apps, NEW role \in Roles, CloseCase(role, a)
  PROVE  LifecycleMove(S)
  <1>1. case[a].status = "approved" /\ TransitionOne(a, "approved", Blank)
    BY DEF CloseCase, CanManageCompletion
  <1>2. "approved" \in Statuses /\ Phases[a] = Phase("approved")
    BY <1>1, PhaseAt DEF Statuses
  <1> QED
    BY <1>1, <1>2, OneSamePhase

LEMMA CaseStepPhases ==
  ASSUME NEW S, Standing(case, S), NEW R \in SUBSET Apps, CaseStep(S, R)
  PROVE  LifecycleMove(S)
  <1>1. CASE \/ NextDay
             \/ \E day \in {"before", "closing_day"} : ExtendIntake(day)
             \/ \E new \in {"active", "suspended", "closed"} :
                  UpdateEntryStatus(new, S # {} /\ ~OpenPool)
    BY <1>1, NoMovement DEF NextDay, ExtendIntake, UpdateEntryStatus
  <1>2. CASE CancelEntry(S # {})
    BY <1>2, CancelPhases
  <1>3. ASSUME NEW a \in Apps,
               \/ SubmitApplication(a)
               \/ SubmitDocumentResubmission(a)
               \/ GrantOverride(a)
               \/ Reopen(a, S)
        PROVE  LifecycleMove(S)
    BY <1>3, SubmitPhases, ResubmitPhases, HandOffPhases, ReopenPhases
  <1>4. ASSUME NEW a \in Apps, NEW role \in Roles, OfficeStep(role, a)
        PROVE  LifecycleMove(S)
    <2>1. CASE RecordWithdrawal(role, a)
      BY <2>1, WithdrawalPhases
    <2>2. CASE \/ \E flagged \in BOOLEAN : SaveScreeningDraft(role, a, flagged)
               \/ FinalizeQualified(role, a)
               \/ RateInterview(role, a)
      BY <2>2, NoMovement DEF SaveScreeningDraft, FinalizeQualified, RateInterview
    <2>3. CASE \/ FinalizeNotQualified(role, a) \/ RemoveFromBatch(role, a)
               \/ ReturnDocuments(role, a)
      BY <2>3, ScreeningPhases
    <2>4. ASSUME NEW assessment \in Assessments,
                 \/ RescheduleAbsentee(role, a, assessment)
                 \/ EndAfterAbsence(role, a, assessment)
          PROVE  LifecycleMove(S)
      BY <2>4, NoMovement, AbsencePhases DEF RescheduleAbsentee
    <2>5. CASE \E value \in {"tracked", "referenced", "ready"} :
                 SaveCompletion(role, a, value)
      BY <2>5, NoMovement DEF SaveCompletion
    <2>6. CASE CloseCase(role, a)
      BY <2>6, ClosePhases
    <2> QED BY <1>4, <2>1, <2>2, <2>3, <2>4, <2>5, <2>6
            DEF OfficeStep, ScreeningPage, AbsencePage, CompletionPage
  <1>5. ASSUME NEW role \in Roles, ExamConsole(role)
        PROVE  LifecycleMove(S)
    <2>1. CASE ScheduleExam(role)
      BY <2>1, NoMovement DEF ScheduleExam
    <2>2. CASE \E result \in [ExamPool -> {"completed", "absent", "waived"}] :
                 FinalizeExams(role, result)
      BY <2>2, ExamPhases
    <2> QED BY <1>5, <2>1, <2>2 DEF ExamConsole
  <1>6. ASSUME NEW role \in Roles, InterviewConsole(role)
        PROVE  LifecycleMove(S)
    <2>1. UNCHANGED case
      BY <1>6 DEF InterviewConsole, ScheduleInterviews, FinalizeInterviews,
             MarkInterviewAbsent, SaveCosScores
    <2> QED BY <2>1, NoMovement
  <1>7. ASSUME NEW role \in Roles, HandOffPage(role)
        PROVE  LifecycleMove(S)
    BY <1>7, HandOffPhases DEF HandOffPage
  <1>8. CASE Repair(R)
    BY <1>8, RepairPhases
  <1> QED BY <1>1, <1>2, <1>3, <1>4, <1>5, <1>6, <1>7, <1>8 DEF CaseStep

-----------------------------------------------------------------------------
(* Who moves *)

LEMMA WhoMovesInOffice ==
  ASSUME NEW S, Standing(case, S), NEW a \in Apps, NEW b \in Apps,
         NEW role \in Roles, OfficeStep(role, b)
  PROVE  \/ case'[a] = case[a]
         \/ Phases[a] = "open"
         \/ a = b /\ CloseCase(role, a)
         \/ a = b /\ \E k \in Assessments : EndAfterAbsence(role, a, k)
  <1>1. CASE RecordWithdrawal(role, b)
    BY <1>1, OthersStay, PhaseAt DEF RecordWithdrawal, CanRecordWithdrawal, InFlight
  <1>2. CASE \/ \E flagged \in BOOLEAN : SaveScreeningDraft(role, b, flagged)
             \/ FinalizeQualified(role, b)
             \/ RateInterview(role, b)
             \/ \E k \in Assessments : RescheduleAbsentee(role, b, k)
             \/ \E value \in {"tracked", "referenced", "ready"} :
                  SaveCompletion(role, b, value)
    BY <1>2 DEF SaveScreeningDraft, FinalizeQualified, RateInterview,
                RescheduleAbsentee, SaveCompletion
  <1>3. CASE \/ FinalizeNotQualified(role, b) \/ RemoveFromBatch(role, b)
             \/ ReturnDocuments(role, b)
    <2>1. /\ CanProcess(role, b) /\ case[b].stage \in ScreeningStages
          /\ \E status, holder : TransitionOne(b, status, holder)
      BY <1>3 DEF FinalizeNotQualified, RemoveFromBatch, ReturnDocuments,
                  CanManageScreening
    <2>2. Phases[b] = "open"
      BY <2>1, ProcessedIsOpen, PhaseAt DEF ScreeningStages
    <2> QED
      BY <2>1, <2>2, OthersStay
  <1>4. ASSUME NEW k \in Assessments, EndAfterAbsence(role, b, k)
        PROVE  \/ case'[a] = case[a]
               \/ a = b /\ EndAfterAbsence(role, a, k)
    BY <1>4, OthersStay DEF EndAfterAbsence
  <1>5. CASE CloseCase(role, b)
    BY <1>5, OthersStay DEF CloseCase
  <1> QED
    BY <1>1, <1>2, <1>3, <1>4, <1>5
    DEF OfficeStep, ScreeningPage, AbsencePage, CompletionPage

LEMMA WhoMovesInLoan ==
  ASSUME NEW S, Standing(case, S), NEW a \in Apps,
         \/ \E role \in Roles : HandOffPage(role)
         \/ \E b \in Apps : GrantOverride(b)
  PROVE  case'[a] = case[a] \/ Phases[a] = "open"
  <1> DEFINE atIntake == {b \in Apps : Loanable(b) /\ case[b].stage = IntakeStage(Level)}
  <1>1. ASSUME NEW sent \in SUBSET Apps, NEW role,
               Transition([b \in sent |-> Moved(case[b], case[b].status, role)]),
               a \in sent => Phases[a] = "open"
        PROVE  case'[a] = case[a] \/ Phases[a] = "open"
    BY <1>1 DEF Transition
  <1>2. a \in atIntake => Phases[a] = "open"
    BY PhaseAt DEF Loanable, IntakeStage
  <1> HIDE DEF atIntake
  <1>3. ASSUME NEW role \in Roles, HandOffBatch(role)
        PROVE  case'[a] = case[a] \/ Phases[a] = "open"
    <2>1. BatchHeldBy(role) \subseteq atIntake /\ BatchHeldBy(role) \in SUBSET Apps
      BY DEF BatchHeldBy, atIntake
    <2>2. Transition([b \in BatchHeldBy(role) |->
                        Moved(case[b], case[b].status, OtherOffice(role))])
      BY <1>3 DEF HandOffBatch, SendToOtherOffice
    <2> QED
      BY <1>1, <1>2, <2>1, <2>2
  <1>4. ASSUME NEW role \in Roles, RecallBatch(role)
        PROVE  case'[a] = case[a] \/ Phases[a] = "open"
    <2>1. LoanedOut(role) \subseteq atIntake /\ LoanedOut(role) \in SUBSET Apps
      BY DEF LoanedOut, atIntake
    <2>2. Transition([b \in LoanedOut(role) |-> Moved(case[b], case[b].status, role)])
      BY <1>4 DEF RecallBatch
    <2> QED
      BY <1>1, <1>2, <2>1, <2>2
  <1>5. ASSUME NEW b \in Apps, GrantOverride(b)
        PROVE  case'[a] = case[a] \/ Phases[a] = "open"
    <2>1. /\ case[b].status \in ReviewStages
          /\ Transition([c \in {b} |-> Moved(case[c], case[c].status,
                                             OtherOffice("hrm_chief"))])
      BY <1>5 DEF GrantOverride, SendToOtherOffice, ReviewStages, ScreeningStages
    <2>2. Phases[b] = "open"
      BY <2>1, PhaseAt, PhaseOf
    <2> QED
      BY <1>1, <2>1, <2>2
  <1> QED
    BY <1>3, <1>4, <1>5 DEF HandOffPage

LEMMA WhoMoves ==
  ASSUME NEW S, Standing(case, S), NEW R \in SUBSET Apps, NEW a \in Apps, CaseStep(S, R)
  PROVE  \/ case'[a] = case[a]
         \/ Phases[a] = "open"
         \/ SubmitApplication(a)
         \/ Reopen(a, S)
         \/ \E role \in Roles : \/ CloseCase(role, a)
                                \/ \E k \in Assessments : EndAfterAbsence(role, a, k)
  <1>1. CASE \/ NextDay
             \/ \E day \in {"before", "closing_day"} : ExtendIntake(day)
             \/ \E new \in {"active", "suspended", "closed"} :
                  UpdateEntryStatus(new, S # {} /\ ~OpenPool)
    BY <1>1 DEF NextDay, ExtendIntake, UpdateEntryStatus
  <1>2. CASE CancelEntry(S # {})
    <2>1. S = {}
      BY <1>2 DEF CancelEntry
    <2>3. a \in InFlight => Phases[a] = "open"
      BY <2>1, PhaseAt DEF InFlight
    <2> QED
      BY <1>2, <2>3 DEF CancelEntry, CloseAll, Transition
  <1>3. ASSUME NEW b \in Apps, SubmitApplication(b)
        PROVE  case'[a] = case[a] \/ SubmitApplication(a)
    BY <1>3, OthersStay DEF SubmitApplication
  <1>4. ASSUME NEW b \in Apps, Reopen(b, S)
        PROVE  case'[a] = case[a] \/ Reopen(a, S)
    <2>1. TransitionOne(b, StatusForStage(case[b].lockedStage),
                        StageOwner(case[b].lockedStage, Level))
      BY <1>4 DEF Reopen
    <2>2. a # b => case'[a] = case[a]
      BY <2>1, OthersStay
    <2> QED
      BY <1>4, <2>2
  <1>5. ASSUME NEW b \in Apps, SubmitDocumentResubmission(b)
        PROVE  case'[a] = case[a] \/ Phases[a] = "open"
    <2>1. /\ case[b].caseStatus = "awaiting"
          /\ \E status, holder : TransitionOne(b, status, holder)
      BY <1>5 DEF SubmitDocumentResubmission
    <2>2. Phases[b] = "open"
      BY <2>1, PhaseAt, AwaitingCase DEF AwaitingApplicant, ScreeningStages
    <2> QED
      BY <2>1, <2>2, OthersStay
  <1>6. ASSUME NEW role \in Roles, ExamConsole(role)
        PROVE  case'[a] = case[a] \/ Phases[a] = "open"
    <2>1. CASE ScheduleExam(role)
      BY <2>1 DEF ScheduleExam
    <2>2. ASSUME NEW result, FinalizeExams(role, result)
          PROVE  case'[a] = case[a] \/ Phases[a] = "open"
      <3>1. a \in ExamPool => case[a].caseStatus = "active" /\ case[a].stage \in ScreeningStages
        BY <2>2 DEF ExamPool, ActiveUnlocked, FinalizeExams, CanManageExam
      <3>2. a \in ExamPool => Phases[a] = "open"
        BY <3>1, PhaseAt DEF ScreeningStages
      <3> QED
        BY <2>2, <3>2 DEF FinalizeExams, Transition
    <2> QED
      BY <1>6, <2>1, <2>2 DEF ExamConsole
  <1>7. ASSUME NEW role \in Roles, InterviewConsole(role)
        PROVE  case'[a] = case[a]
    BY <1>7 DEF InterviewConsole, ScheduleInterviews, FinalizeInterviews,
                MarkInterviewAbsent, SaveCosScores
  <1>8. CASE Repair(R)
    <2> DEFINE examined == {b \in Apps : /\ ActiveUnlocked(b)
                                         /\ LeavesAfterExam(case[b].stage)
                                         /\ Exam(b) # "open"}
               atPanel == {b \in R : /\ case[b].status = "hrmpsb_review"
                                            /\ case[b].handler = "hrmpsb_member"}
    <2>1. a \in examined => Phases[a] = "open"
      BY PhaseAt DEF ActiveUnlocked, LeavesAfterExam, ScreeningStages
    <2>2. a \in atPanel => Phases[a] = "open"
      <3>1. a \in atPanel => case[a].status \in ReviewStages
        BY DEF ReviewStages
      <3> QED
        BY <3>1, PhaseAt, PhaseOf
    <2>3. Transition([b \in examined \cup atPanel |->
             IF b \in examined THEN AfterExam(b)
             ELSE Moved(case[b], "appointing_authority_review", "appointing_authority")])
      BY <1>8 DEF Repair
    <2> HIDE DEF examined, atPanel
    <2> QED
      BY <2>1, <2>2, <2>3 DEF Transition
  <1> QED
    BY <1>1, <1>2, <1>3, <1>4, <1>5, <1>6, <1>7, <1>8, WhoMovesInOffice, WhoMovesInLoan
    DEF CaseStep

(* A closed case is only ever moved by its reopening.                      *)
LEMMA ClosedStays ==
  ASSUME NEW S, Standing(case, S), NEW R \in SUBSET Apps, NEW a \in Apps, CaseStep(S, R), case[a].locked
  PROVE  case'[a] = case[a] \/ Reopen(a, S)
  <1>1. Phases[a] # "open"
    BY PhaseAt, OpenCase
  <1>2. ~SubmitApplication(a)
    BY PhaseAt DEF SubmitApplication, Submitted, GoodRows, RowAligned, DraftCase
  <1>3. ASSUME NEW role \in Roles
        PROVE  /\ ~CloseCase(role, a)
               /\ \A k \in Assessments : ~EndAfterAbsence(role, a, k)
    BY DEF CloseCase, CanManageCompletion, EndAfterAbsence, CanManageAbsence, CanProcess
  <1> QED
    BY <1>1, <1>2, <1>3, WhoMoves

(* Where a reopened case goes.                                             *)
LEMMA ReopenedAt ==
  ASSUME NEW S, Standing(case, S), NEW a \in Apps, Reopen(a, S)
  PROVE  /\ case'[a].stage = case[a].lockedStage
         /\ case[a].status = "approved" => case'[a].status = "approved"
  <1> DEFINE stage == case[a].lockedStage
             status == StatusForStage(stage)
             role == StageOwner(stage, Level)
  <1>1. case[a].locked /\ case'[a] = Moved(case[a], status, role)
    BY OneMoved DEF Reopen, CanReopen
  <1>2. case[a] \in GoodRows /\ stage \in StepStages(Branch, Level)
    BY <1>1, PhaseAt, LockedRow
  <1>3. stage \in ReviewStages \cup {"completion"}
    BY <1>2 DEF StepStages, IntakeStage, ReviewStages, ScreeningStages
  <1>4. CASE stage = "completion"
    <2>1. status = "approved" /\ role # Blank
      BY <1>4 DEF StatusForStage, StageOwner, CompletionOwner, ReviewStages,
                  ScreeningStages, Blank
    <2>2. Moved(case[a], "approved", role).stage = "completion"
      BY <2>1 DEF Moved, ReviewStages, ScreeningStages
    <2>3. Moved(case[a], "approved", role).status = "approved"
      BY PhaseAt, MovedStatus
    <2> HIDE DEF role, status
    <2> QED
      BY <1>1, <1>4, <2>1, <2>2, <2>3
  <1>5. CASE stage \in ReviewStages
    <2>1. status = stage
      BY <1>5 DEF StatusForStage, ReviewStages, ScreeningStages
    <2>2. Moved(case[a], stage, role).stage = stage
      <3>1. ASSUME NEW s \in ReviewStages, NEW r
            PROVE  Moved(case[a], s, r).stage = s
        BY <3>1 DEF Moved, ReviewStages, ScreeningStages
      <3> HIDE DEF role, status, stage
      <3> QED
        BY <1>5, <3>1
    <2>3. case[a].status # "approved"
      BY <1>1, <1>2, <1>5, ClosedPhase DEF ReviewStages, ScreeningStages
    <2> HIDE DEF role, status, stage
    <2> QED
      BY <1>1, <2>1, <2>2, <2>3 DEF stage
  <1> QED
    BY <1>3, <1>4, <1>5

-----------------------------------------------------------------------------
(* The completion record *)

(* An edit of another part of a file leaves the completion record alone.   *)
LEMMA OtherRecords ==
  ASSUME NEW record \in ApplicationFile, NEW value
  PROVE  /\ [record EXCEPT !.screening = value].completion = record.completion
         /\ [record EXCEPT !.exam = value].completion = record.completion
         /\ [record EXCEPT !.notified = value].completion = record.completion
         /\ [record EXCEPT !.session = value].completion = record.completion
         /\ [record EXCEPT !.absence = value].completion = record.completion
  BY DEF ApplicationFile

(* Filing an absence with an edited record.                                *)
LEMMA AbsenceFiled ==
  ASSUME NEW record, "completion" \in DOMAIN record, NEW k, NEW stage
  PROVE  WithAbsence(record, k, stage).completion = record.completion
  BY DEF WithAbsence

LEMMA CompletionInOffice ==
  ASSUME NEW S, RecordsOK, Standing(case, S), NEW a \in Apps, NEW b \in Apps,
         NEW role \in Roles, OfficeStep(role, b)
  PROVE  file'[a].completion = file[a].completion \/ a \in S
  <1> USE DEF RecordsOK
  <1>1. CASE \/ RecordWithdrawal(role, b) \/ RemoveFromBatch(role, b) \/ CloseCase(role, b)
    BY <1>1 DEF RecordWithdrawal, RemoveFromBatch, CloseCase
  <1>2. CASE \/ \E flagged \in BOOLEAN : SaveScreeningDraft(role, b, flagged)
             \/ FinalizeQualified(role, b)
             \/ FinalizeNotQualified(role, b)
             \/ ReturnDocuments(role, b)
    <2>1. \E value : file' = [file EXCEPT ![b] = [file[b] EXCEPT !.screening = value]]
      BY <1>2 DEF SaveScreeningDraft, FinalizeQualified, FinalizeNotQualified,
                  ReturnDocuments
    <2> QED
      BY <2>1, OtherRecords
  <1>3. CASE RateInterview(role, b)
    <2>1. \E value : file' = [file EXCEPT ![b] = [file[b] EXCEPT !.session = value]]
      BY <1>3 DEF RateInterview
    <2> QED
      BY <2>1, OtherRecords
  <1>4. ASSUME NEW k \in Assessments, RescheduleAbsentee(role, b, k)
        PROVE  file'[a].completion = file[a].completion
    <2>1. SittingReopened(b, k).completion = file[b].completion
      BY DEF SittingReopened
    <2> QED
      BY <1>4, <2>1 DEF RescheduleAbsentee
  <1>5. ASSUME NEW k \in Assessments, EndAfterAbsence(role, b, k)
        PROVE  file'[a].completion = file[a].completion
    <2>1. \E value : file' = [file EXCEPT ![b] = [file[b] EXCEPT !.absence = value]]
      BY <1>5 DEF EndAfterAbsence
    <2> QED
      BY <2>1, OtherRecords
  <1>6. ASSUME NEW value \in {"tracked", "referenced", "ready"}, SaveCompletion(role, b, value)
        PROVE  file'[a].completion = file[a].completion \/ a \in S
    <2>1. b \in S
      BY <1>6, PhaseAt DEF SaveCompletion, CanManageCompletion
    <2> QED
      BY <1>6, <2>1 DEF SaveCompletion
  <1> QED
    BY <1>1, <1>2, <1>3, <1>4, <1>5, <1>6
    DEF OfficeStep, ScreeningPage, AbsencePage, CompletionPage

LEMMA CompletionInConsole ==
  ASSUME RecordsOK, NEW a \in Apps, NEW role \in Roles,
         ExamConsole(role) \/ InterviewConsole(role)
  PROVE  file'[a].completion = file[a].completion
  <1> USE DEF RecordsOK
  <1>1. CASE ScheduleExam(role)
    BY <1>1, OtherRecords DEF ScheduleExam
  <1>2. ASSUME NEW result, FinalizeExams(role, result)
        PROVE  file'[a].completion = file[a].completion
    <2> DEFINE filed == [file[a] EXCEPT !.exam[case[a].stage] = result[a]]
    <2>1. /\ filed.completion = file[a].completion
          /\ "completion" \in DOMAIN filed
      BY OtherRecords DEF ApplicationFile
    <2>2. ExamFiled(a, result[a]) =
            IF result[a] = "absent" THEN WithAbsence(filed, "examination", case[a].stage)
                                    ELSE filed
      BY DEF ExamFiled
    <2> HIDE DEF filed
    <2>3. ExamFiled(a, result[a]).completion = file[a].completion
      BY <2>1, <2>2, AbsenceFiled
    <2> QED
      BY <1>2, <2>3 DEF FinalizeExams
  <1>3. CASE ScheduleInterviews(role)
    BY <1>3 DEF ScheduleInterviews
  <1>4. ASSUME NEW b \in Apps, NEW absent
        PROVE  SessionFinal(b, absent).completion = file[b].completion
    <2> DEFINE closed == [file[b] EXCEPT !.session.state = "final",
                                         !.session.absent = absent]
    <2>1. closed = [file[b] EXCEPT !.session = closed.session]
      BY DEF ApplicationFile
    <2>2. /\ closed.completion = file[b].completion
          /\ "completion" \in DOMAIN closed
      BY <2>1, OtherRecords DEF ApplicationFile
    <2>3. SessionFinal(b, absent) =
            IF absent THEN WithAbsence(closed, "interview", case[b].stage) ELSE closed
      BY DEF SessionFinal
    <2> HIDE DEF closed
    <2> QED
      BY <2>2, <2>3, AbsenceFiled
  <1>5. CASE FinalizeInterviews(role)
    BY <1>4, <1>5 DEF FinalizeInterviews
  <1>6. ASSUME NEW b \in InterviewPool, MarkInterviewAbsent(role, b)
        PROVE  file'[a].completion = file[a].completion
    BY <1>4, <1>6 DEF MarkInterviewAbsent, InterviewPool
  <1>7. ASSUME NEW scored, NEW absent, SaveCosScores(role, scored, absent)
        PROVE  file'[a].completion = file[a].completion
    <2>1. [file[a] EXCEPT !.session.absent = FALSE, !.session.ratings = "quorum"].completion
            = file[a].completion
      BY DEF ApplicationFile
    <2>2. [file[a] EXCEPT !.session.absent = TRUE].completion = file[a].completion
      BY DEF ApplicationFile
    <2> QED
      BY <1>7, <2>1, <2>2 DEF SaveCosScores
  <1> QED
    BY <1>1, <1>2, <1>3, <1>5, <1>6, <1>7 DEF ExamConsole, InterviewConsole

LEMMA CompletionOfCases ==
  ASSUME NEW S, RecordsOK, Standing(case, S), NEW R, NEW a \in Apps,
         CaseStep(S, R)
  PROVE  file'[a].completion = file[a].completion \/ a \in S
  <1> USE DEF RecordsOK
  <1>1. CASE \/ NextDay
             \/ \E day \in {"before", "closing_day"} : ExtendIntake(day)
             \/ \E new \in {"active", "suspended", "closed"} :
                  UpdateEntryStatus(new, S # {} /\ ~OpenPool)
             \/ CancelEntry(S # {})
             \/ Repair(R)
             \/ \E b \in Apps : SubmitApplication(b) \/ GrantOverride(b)
             \/ \E role \in Roles : HandOffPage(role)
    BY <1>1 DEF NextDay, ExtendIntake, UpdateEntryStatus, CancelEntry, Repair,
                SubmitApplication, GrantOverride, HandOffPage, HandOffBatch, RecallBatch,
                SendToOtherOffice
  <1>2. ASSUME NEW b \in Apps, SubmitDocumentResubmission(b)
        PROVE  file'[a].completion = file[a].completion
    <2>1. \E value : file' = [file EXCEPT ![b] = [file[b] EXCEPT !.screening = value]]
      BY <1>2 DEF SubmitDocumentResubmission
    <2> QED
      BY <2>1, OtherRecords
  <1>3. ASSUME NEW b \in Apps, Reopen(b, S)
        PROVE  file'[a].completion = file[a].completion
    <2>1. CorrectedAt(b, case[b].lockedStage).completion = file[b].completion
      BY DEF CorrectedAt
    <2> QED
      BY <1>3, <2>1 DEF Reopen
  <1> QED
    BY <1>1, <1>2, <1>3, CompletionInOffice, CompletionInConsole DEF CaseStep

-----------------------------------------------------------------------------
(* Level 2 cases of the Secretariat *)

LEMMA MovedHandler ==
  ASSUME NEW row \in CaseRow, NEW status, NEW role
  PROVE  Moved(row, status, role).handler \in {role, Blank}
  BY DEF Moved, CaseRow

(* A movement keeps the overrides in order when the Secretariat receives   *)
(* no case without one and no case that stays loses its own.               *)
LEMMA OverridesFollow ==
  ASSUME SecretariatHoldsByOverride, Level = 2, NEW to, Transition(to),
         \A a \in Apps : IF a \in DOMAIN to
                           THEN to[a].handler = "secretariat" => a \in overrides'
                           ELSE a \in overrides => a \in overrides'
  PROVE  SecretariatHoldsByOverride'
  BY DEF SecretariatHoldsByOverride, Transition

(* The common case: the overrides stay and the receiver is another office. *)
LEMMA OthersReceive ==
  ASSUME NEW S, Standing(case, S), SecretariatHoldsByOverride, Level = 2, UNCHANGED overrides,
         NEW a \in Apps, NEW status, NEW role, TransitionOne(a, status, role),
         role = "secretariat" => a \in overrides
  PROVE  SecretariatHoldsByOverride'
  <1>1. Moved(case[a], status, role).handler = "secretariat" => a \in overrides
    BY MovedHandler, PhaseAt DEF Blank
  <1>2. \A b \in Apps : case'[b].handler = "secretariat" => b \in overrides
    BY <1>1, OneMoved, OthersStay DEF SecretariatHoldsByOverride
  <1> QED
    BY <1>2 DEF SecretariatHoldsByOverride

LEMMA OverridesInOffice ==
  ASSUME NEW S, Standing(case, S), SecretariatHoldsByOverride, Level = 2, NEW a \in Apps, NEW role \in Roles,
         OfficeStep(role, a)
  PROVE  SecretariatHoldsByOverride'
  <1>1. CASE \/ \E flagged \in BOOLEAN : SaveScreeningDraft(role, a, flagged)
             \/ FinalizeQualified(role, a)
             \/ RateInterview(role, a)
             \/ \E k \in Assessments : RescheduleAbsentee(role, a, k)
             \/ \E value \in {"tracked", "referenced", "ready"} :
                  SaveCompletion(role, a, value)
    BY <1>1 DEF SaveScreeningDraft, FinalizeQualified, RateInterview,
                RescheduleAbsentee, SaveCompletion, SecretariatHoldsByOverride
  <1>2. CASE \/ RecordWithdrawal(role, a)
             \/ RemoveFromBatch(role, a)
             \/ \E k \in Assessments : EndAfterAbsence(role, a, k)
             \/ CloseCase(role, a)
    <2>1. UNCHANGED overrides /\ \E status : TransitionOne(a, status, Blank)
      BY <1>2 DEF RecordWithdrawal, RemoveFromBatch, EndAfterAbsence, CloseCase
    <2> QED
      BY <2>1, OthersReceive DEF Blank
  <1>3. CASE FinalizeNotQualified(role, a)
    <2>1. TransitionOne(a, "rejected", Blank) /\ \A b \in Apps \ {a} :
                                                  b \in overrides => b \in overrides'
      BY <1>3 DEF FinalizeNotQualified
    <2>2. case'[a].handler # "secretariat"
      BY <2>1, OneMoved, MovedHandler, PhaseAt DEF Blank
    <2>3. \A b \in Apps : case'[b].handler = "secretariat" => b \in overrides'
      BY <2>1, <2>2, OthersStay DEF SecretariatHoldsByOverride
    <2> QED
      BY <2>3 DEF SecretariatHoldsByOverride
  <1>4. CASE ReturnDocuments(role, a)
    <2>1. UNCHANGED overrides /\ TransitionOne(a, "returned", case[a].handler)
      BY <1>4 DEF ReturnDocuments
    <2> QED
      BY <2>1, OthersReceive DEF SecretariatHoldsByOverride
  <1> QED
    BY <1>1, <1>2, <1>3, <1>4 DEF OfficeStep, ScreeningPage, AbsencePage, CompletionPage

LEMMA OverridesInLoan ==
  ASSUME NEW S, Standing(case, S), SecretariatHoldsByOverride, Level = 2,
         \/ \E role \in Roles : HandOffPage(role)
         \/ \E b \in Apps : GrantOverride(b)
  PROVE  SecretariatHoldsByOverride'
  <1>1. ASSUME NEW sent \in SUBSET Apps, NEW role \in ScreeningReviewRoles,
               SendToOtherOffice(sent, role)
        PROVE  SecretariatHoldsByOverride'
    <2> DEFINE target == OtherOffice(role)
               to == [b \in sent |-> Moved(case[b], case[b].status, target)]
    <2>1. Transition(to) /\ overrides' = OverridesAfterHandOff(sent, target)
      BY <1>1 DEF SendToOtherOffice
    <2>2. \A b \in sent : to[b].handler \in {target, Blank}
      BY MovedHandler, PhaseAt
    <2>3. target \in {"secretariat", "hrm_chief"}
      BY DEF OtherOffice
    <2> HIDE DEF target
    <2>4. \A b \in Apps : IF b \in DOMAIN to
                            THEN to[b].handler = "secretariat" => b \in overrides'
                            ELSE b \in overrides => b \in overrides'
      BY <2>1, <2>2, <2>3 DEF OverridesAfterHandOff, Blank
    <2> HIDE DEF to
    <2> QED
      BY <2>1, <2>4, OverridesFollow
  <1>2. ASSUME NEW role \in Roles, HandOffBatch(role)
        PROVE  SecretariatHoldsByOverride'
    BY <1>1, <1>2 DEF HandOffBatch, BatchHeldBy
  <1>3. ASSUME NEW role \in Roles, RecallBatch(role)
        PROVE  SecretariatHoldsByOverride'
    <2> DEFINE sent == LoanedOut(role)
               to == [b \in sent |-> Moved(case[b], case[b].status, role)]
    <2>1. /\ Transition(to)
          /\ sent \in SUBSET Apps
          /\ sent # {}
          /\ overrides' = overrides \ sent
      BY <1>3 DEF RecallBatch, LoanedOut
    <2>2. role = "hrm_chief"
      BY <2>1 DEF LoanedOut, LevelOwner, IntakeStage, StageOwner
    <2>3. \A b \in sent : to[b].handler \in {role, Blank}
      BY <2>1, MovedHandler, PhaseAt
    <2> HIDE DEF sent
    <2>4. \A b \in Apps : IF b \in DOMAIN to
                            THEN to[b].handler = "secretariat" => b \in overrides'
                            ELSE b \in overrides => b \in overrides'
      BY <2>1, <2>2, <2>3 DEF Blank
    <2> HIDE DEF to
    <2> QED
      BY <2>1, <2>4, OverridesFollow
  <1>4. ASSUME NEW b \in Apps, GrantOverride(b)
        PROVE  SecretariatHoldsByOverride'
    BY <1>1, <1>4 DEF GrantOverride, ScreeningReviewRoles
  <1> QED
    BY <1>2, <1>3, <1>4 DEF HandOffPage

(* After the exam no case is with the Secretariat.                         *)
LEMMA OverridesAfterExam ==
  ASSUME NEW S, Standing(case, S), SecretariatHoldsByOverride, Level = 2, NEW to, Transition(to),
         NEW routed \in SUBSET Apps, overrides' = OverridesAfterRouting(routed),
         routed \subseteq DOMAIN to,
         \A a \in Apps \cap DOMAIN to :
           \/ to[a].handler # "secretariat"
           \/ a \notin routed /\ to[a] = case[a]
  PROVE  SecretariatHoldsByOverride'
  BY OverridesFollow DEF OverridesAfterRouting, SecretariatHoldsByOverride

LEMMA AfterTheExam ==
  ASSUME NEW S, Standing(case, S), NEW a \in Apps
  PROVE  /\ AfterExam(a).handler # "secretariat"
         /\ Moved(case[a], "rejected", Blank).handler # "secretariat"
         /\ Moved(case[a], "appointing_authority_review",
                  "appointing_authority").handler # "secretariat"
  BY MovedHandler, PhaseAt DEF AfterExam, Blank

(* Every operation both branches share keeps the overrides in order.       *)
LEMMA OverridesOfCases ==
  ASSUME NEW S, Standing(case, S), NEW R \in SUBSET Apps, SecretariatHoldsByOverride,
         Level = 2, CaseStep(S, R)
  PROVE  SecretariatHoldsByOverride'
  <1>1. CASE \/ NextDay
             \/ \E day \in {"before", "closing_day"} : ExtendIntake(day)
             \/ \E new \in {"active", "suspended", "closed"} :
                  UpdateEntryStatus(new, S # {} /\ ~OpenPool)
             \/ \E role \in Roles : InterviewConsole(role) \/ ScheduleExam(role)
    BY <1>1 DEF NextDay, ExtendIntake, UpdateEntryStatus, InterviewConsole,
                ScheduleInterviews, FinalizeInterviews, MarkInterviewAbsent,
                SaveCosScores, ScheduleExam, SecretariatHoldsByOverride
  <1>2. CASE CancelEntry(S # {})
    <2>1. CloseAll(InFlight, "vacancy_cancelled") /\ UNCHANGED overrides
      BY <1>2 DEF CancelEntry
    <2>2. \A a \in Apps : Moved(case[a], "vacancy_cancelled", Blank).handler
                            # "secretariat"
      BY MovedHandler, PhaseAt DEF Blank
    <2> QED
      BY <2>1, <2>2 DEF CloseAll, Transition, SecretariatHoldsByOverride, InFlight
  <1>3. ASSUME NEW a \in Apps,
               SubmitApplication(a) \/ SubmitDocumentResubmission(a) \/ Reopen(a, S)
        PROVE  SecretariatHoldsByOverride'
    <2>1. UNCHANGED overrides
      BY <1>3 DEF SubmitApplication, SubmitDocumentResubmission, Reopen
    <2>2. CASE SubmitApplication(a)
      <3>1. LevelOwner(Level) = "hrm_chief"
        BY DEF LevelOwner, IntakeStage, StageOwner
      <3> QED
        BY <2>1, <2>2, <3>1, OthersReceive DEF SubmitApplication
    <2>3. CASE SubmitDocumentResubmission(a)
      BY <2>1, <2>3, OthersReceive
      DEF SubmitDocumentResubmission, SecretariatHoldsByOverride
    <2>4. CASE Reopen(a, S)
      <3>1. case[a].lockedStage \in StepStages(Branch, Level)
        BY <2>4, PhaseAt, LockedRow DEF Reopen, CanReopen
      <3>2. StageOwner(case[a].lockedStage, Level) # "secretariat"
        BY <3>1 DEF StepStages, IntakeStage, StageOwner, CompletionOwner
      <3> QED
        BY <2>1, <2>4, <3>2, OthersReceive DEF Reopen
    <2> QED
      BY <1>3, <2>2, <2>3, <2>4
  <1>4. ASSUME NEW role \in Roles,
               NEW result \in [ExamPool -> {"completed", "absent", "waived"}],
               FinalizeExams(role, result)
        PROVE  SecretariatHoldsByOverride'
    <2> DEFINE to == [a \in ExamPool |-> AfterExamResult(a, result[a])]
               routed == {a \in ExamPool : result[a] = "completed"}
    <2>1. /\ Transition(to)
          /\ overrides' = OverridesAfterRouting(routed)
          /\ routed \in SUBSET Apps
          /\ routed \subseteq DOMAIN to
      BY <1>4 DEF FinalizeExams, ExamPool
    <2>2. \A a \in Apps \cap DOMAIN to :
            \/ to[a].handler # "secretariat"
            \/ a \notin routed /\ to[a] = case[a]
      BY AfterTheExam DEF AfterExamResult
    <2> HIDE DEF to, routed
    <2> QED
      BY <2>1, <2>2, OverridesAfterExam
  <1>5. CASE Repair(R)
    <2> DEFINE examined == {b \in Apps : /\ ActiveUnlocked(b)
                                         /\ LeavesAfterExam(case[b].stage)
                                         /\ Exam(b) # "open"}
               atPanel == {b \in R : /\ case[b].status = "hrmpsb_review"
                                     /\ case[b].handler = "hrmpsb_member"}
               to == [b \in examined \cup atPanel |->
                        IF b \in examined THEN AfterExam(b)
                        ELSE Moved(case[b], "appointing_authority_review",
                                            "appointing_authority")]
    <2>1. /\ Transition(to)
          /\ overrides' = OverridesAfterRouting(examined)
          /\ examined \in SUBSET Apps
          /\ examined \subseteq DOMAIN to
      BY <1>5 DEF Repair
    <2>2. \A a \in Apps \cap DOMAIN to : to[a].handler # "secretariat"
      <3>1. ASSUME NEW a \in Apps, a \in DOMAIN to
            PROVE  to[a] \in {AfterExam(a),
                              Moved(case[a], "appointing_authority_review",
                                             "appointing_authority")}
        <4> HIDE DEF examined, atPanel
        <4> QED
          BY <3>1
      <3> QED
        BY <3>1, AfterTheExam
    <2> HIDE DEF to, examined, atPanel
    <2> QED
      BY <2>1, <2>2, OverridesAfterExam
  <1> QED
    BY <1>1, <1>2, <1>3, <1>4, <1>5, OverridesInOffice, OverridesInLoan
    DEF CaseStep, ExamConsole

-----------------------------------------------------------------------------
(* Where a case is, and what a step of one case leaves alone *)

(* The step a case is at, or would come back to.                           *)
Place(row) == IF row.locked THEN row.lockedStage ELSE row.stage

LEMMA ToReview ==
  ASSUME NEW row, NEW s \in ReviewStages, NEW role
  PROVE  LET r == Moved(row, s, role)
         IN  r.stage = s /\ r.caseStatus = "active" /\ ~r.locked /\ Place(r) = s
  <1>1. Moved(row, s, role) =
          [status |-> s, stage |-> s, caseStatus |-> "active",
           handler |-> role, locked |-> FALSE, lockedStage |-> Blank]
    BY DEF Moved, ReviewStages, ScreeningStages
  <1> QED
    BY <1>1 DEF Place

LEMMA ToApplicant ==
  ASSUME NEW row \in CaseRow, NEW role
  PROVE  LET r == Moved(row, "returned", role)
         IN  r.stage = row.stage /\ r.caseStatus = "awaiting" /\ ~r.locked
               /\ Place(r) = row.stage
  <1> DEFINE r == Moved(row, "returned", role)
  <1>1. r = [row EXCEPT !.status = "returned", !.caseStatus = "awaiting",
                        !.handler = role, !.locked = FALSE,
                        !.lockedStage = Blank]
    BY DEF Moved, ReviewStages, ScreeningStages
  <1>2. r.stage = row.stage /\ r.caseStatus = "awaiting" /\ ~r.locked
    BY <1>1 DEF CaseRow
  <1> HIDE DEF r
  <1> QED
    BY <1>2 DEF r, Place

LEMMA ToClosed ==
  ASSUME NEW row, NEW status \in Exits \cup {"approved"}
  PROVE  LET r == Moved(row, status, Blank)
         IN  r.stage = "closed" /\ r.caseStatus = status /\ r.locked /\ Place(r) = row.stage
  <1>1. Moved(row, status, Blank) =
          [status |-> status, stage |-> "closed", caseStatus |-> status,
           handler |-> Blank, locked |-> TRUE, lockedStage |-> row.stage]
    BY DEF Moved, ReviewStages, ScreeningStages, Exits
  <1> QED
    BY <1>1 DEF Place

LEMMA ToCompletion ==
  ASSUME NEW row, NEW role, role # Blank
  PROVE  LET r == Moved(row, "approved", role)
         IN  r.stage = "completion" /\ r.caseStatus = "active" /\ ~r.locked
               /\ Place(r) = "completion"
  <1>1. Moved(row, "approved", role) =
          [status |-> "approved", stage |-> "completion", caseStatus |-> "active",
           handler |-> role, locked |-> FALSE, lockedStage |-> Blank]
    BY DEF Moved, ReviewStages, ScreeningStages
  <1> QED
    BY <1>1 DEF Place

(* What an office does with one case leaves the others alone.              *)
LEMMA OthersInOffice ==
  ASSUME RecordsOK, NEW a \in Apps, NEW b \in Apps, a # b, NEW role \in Roles,
         OfficeStep(role, b)
  PROVE  case'[a] = case[a] /\ file'[a] = file[a]
  <1>1. case'[a] = case[a]
    <2>1. CASE \/ RecordWithdrawal(role, b) \/ FinalizeNotQualified(role, b)
               \/ ReturnDocuments(role, b) \/ RemoveFromBatch(role, b)
               \/ CloseCase(role, b)
      <3>1. \E status, holder : TransitionOne(b, status, holder)
        BY <2>1 DEF RecordWithdrawal, FinalizeNotQualified, ReturnDocuments,
                    RemoveFromBatch, CloseCase
      <3> QED
        BY <3>1, OthersStay
    <2>2. CASE \E k \in Assessments : EndAfterAbsence(role, b, k)
      <3>1. \E status, holder : TransitionOne(b, status, holder)
        BY <2>2 DEF EndAfterAbsence
      <3> QED
        BY <3>1, OthersStay
    <2>3. CASE \/ \E flagged \in BOOLEAN : SaveScreeningDraft(role, b, flagged)
               \/ FinalizeQualified(role, b)
               \/ RateInterview(role, b)
               \/ \E k \in Assessments : RescheduleAbsentee(role, b, k)
               \/ \E value \in {"tracked", "referenced", "ready"} :
                    SaveCompletion(role, b, value)
      BY <2>3 DEF SaveScreeningDraft, FinalizeQualified, RateInterview,
                  RescheduleAbsentee, SaveCompletion
    <2> QED
      BY <2>1, <2>2, <2>3 DEF OfficeStep, ScreeningPage, AbsencePage, CompletionPage
  <1>2. \E new : file' = file \/ file' = [file EXCEPT ![b] = new]
    <2>1. CASE \/ RecordWithdrawal(role, b) \/ RemoveFromBatch(role, b) \/ CloseCase(role, b)
      BY <2>1 DEF RecordWithdrawal, RemoveFromBatch, CloseCase
    <2>2. CASE \E flagged \in BOOLEAN : SaveScreeningDraft(role, b, flagged)
      BY <2>2 DEF SaveScreeningDraft
    <2>3. CASE FinalizeQualified(role, b)
      BY <2>3 DEF FinalizeQualified
    <2>4. CASE FinalizeNotQualified(role, b)
      BY <2>4 DEF FinalizeNotQualified
    <2>5. CASE ReturnDocuments(role, b)
      BY <2>5 DEF ReturnDocuments
    <2>6. CASE RateInterview(role, b)
      BY <2>6 DEF RateInterview
    <2>7. ASSUME NEW k \in Assessments, RescheduleAbsentee(role, b, k)
          PROVE  \E new : file' = file \/ file' = [file EXCEPT ![b] = new]
      BY <2>7 DEF RescheduleAbsentee
    <2>8. ASSUME NEW k \in Assessments, EndAfterAbsence(role, b, k)
          PROVE  \E new : file' = file \/ file' = [file EXCEPT ![b] = new]
      BY <2>8 DEF EndAfterAbsence
    <2>9. ASSUME NEW value \in {"tracked", "referenced", "ready"},
                 SaveCompletion(role, b, value)
          PROVE  \E new : file' = file \/ file' = [file EXCEPT ![b] = new]
      BY <2>9 DEF SaveCompletion
    <2> QED
      BY <2>1, <2>2, <2>3, <2>4, <2>5, <2>6, <2>7, <2>8, <2>9
      DEF OfficeStep, ScreeningPage, AbsencePage, CompletionPage
  <1>3. file'[a] = file[a]
    BY <1>2 DEF RecordsOK
  <1> QED
    BY <1>1, <1>3

(* What happens to one case on the applicant's or the Chief's side leaves  *)
(* the others alone.                                                       *)
LEMMA OthersOutside ==
  ASSUME RecordsOK, NEW S, NEW a \in Apps, NEW b \in Apps, a # b,
         SubmitApplication(b) \/ SubmitDocumentResubmission(b) \/ Reopen(b, S)
  PROVE  case'[a] = case[a] /\ file'[a] = file[a]
  <1>1. CASE SubmitApplication(b)
    BY <1>1, OthersStay DEF SubmitApplication
  <1>2. CASE SubmitDocumentResubmission(b)
    <2>1. \E new : file' = [file EXCEPT ![b] = new]
      BY <1>2 DEF SubmitDocumentResubmission
    <2>2. \E status, holder : TransitionOne(b, status, holder)
      BY <1>2 DEF SubmitDocumentResubmission
    <2> QED
      BY <2>1, <2>2, OthersStay DEF RecordsOK
  <1>3. CASE Reopen(b, S)
    <2>1. \E new : file' = [file EXCEPT ![b] = new]
      BY <1>3 DEF Reopen
    <2>2. \E status, holder : TransitionOne(b, status, holder)
      BY <1>3 DEF Reopen
    <2> QED
      BY <2>1, <2>2, OthersStay DEF RecordsOK
  <1> QED
    BY <1>1, <1>2, <1>3
=============================================================================
