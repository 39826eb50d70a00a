------------------------------ MODULE VacancySetup ------------------------------
(***************************************************************************)
(* A vacancy as the office keeps it: its kind and dates, the status it is   *)
(* published, paused, closed and cancelled by, the documents it asks for,   *)
(* and what may still change once people have applied.  The vacancy is      *)
(* followed through its exam and its selection only as far as these forbid  *)
(* or allow a change; another posting may carry the same Plantilla item.    *)
(***************************************************************************)
EXTENDS Naturals, FiniteSets

CONSTANTS
  MaxDay,       \* bound on the clock
  Period,       \* days a Plantilla vacancy stays open by default (14 in the code)
  Forced,       \* documents every vacancy requires
  Elective,     \* documents the office may add
  None

ASSUME SetupAssumption ==
  /\ MaxDay \in Nat \ {0} /\ Period \in Nat \ {0}
  /\ Forced \cap Elective = {}
  /\ None \notin Nat /\ None # "plantilla"

VARIABLES
  day,          \* today
  vacancy,      \* the posting's row
  rival,        \* another open posting carries the same item number
  checklist,    \* the documents that apply, and those of them that are required
  supplied,     \* what each applicant's submission was complete with
  exam,         \* the day the batch exam was first scheduled
  lateOn,       \* the last day somebody applied after that
  selection,    \* a selection stands
  policy,       \* extensions after the exam is scheduled: allowed now, ever allowed
  redrafted     \* history: after the exam was scheduled the vacancy was a draft
                \* again and a later closing date was entered

applicants == <<supplied, lateOn>>
others == <<rival, checklist, selection>>
vars == <<day, vacancy, others, applicants, exam, policy, redrafted>>

--------------------------------------------------------------------------------
(* The records *)

Days == 1..MaxDay

Kinds == {"plantilla", "one batch", "open pool"}

Open == {"draft", "active", "suspended"}

Statuses == Open \cup {"none", "closed", "cancelled"}

Documents == Forced \cup Elective

NoVacancy ==
  [status |-> "none", kind |-> None, opens |-> 0, closing |-> None, standards |-> FALSE,
   extended |-> FALSE]

TypeOK ==
  /\ day \in Days
  /\ vacancy \in [status : Statuses, kind : Kinds \cup {None}, opens : 0..MaxDay,
                  closing : Days \cup {None}, standards : BOOLEAN, extended : BOOLEAN]
  /\ rival \in BOOLEAN
  /\ checklist.required \subseteq checklist.applies /\ checklist.applies \subseteq Documents
  /\ supplied \subseteq SUBSET Documents
  /\ exam \in 0..day /\ lateOn \in 0..day
  /\ selection \in BOOLEAN
  /\ policy \in [allowed : BOOLEAN, ever : BOOLEAN] /\ (policy.allowed => policy.ever)
  /\ redrafted \in BOOLEAN
  /\ vacancy.kind = "plantilla" => vacancy.closing # None
  /\ vacancy.status \in Open => (vacancy.kind = "open pool" <=> vacancy.closing = None)

Init ==
  /\ day = 1
  /\ vacancy = NoVacancy
  /\ rival \in BOOLEAN
  /\ checklist = [applies |-> {}, required |-> {}]
  /\ supplied = {}
  /\ exam = 0 /\ lateOn = 0
  /\ selection = FALSE
  /\ policy = [allowed |-> FALSE, ever |-> FALSE]
  /\ redrafted = FALSE

--------------------------------------------------------------------------------
(* What a posting's row allows *)

Live == supplied # {}

(* The dates each kind must have. *)
DatesFit(kind, opens, closing) ==
  IF kind = "open pool" THEN closing = None
  ELSE closing # None /\ closing >= opens

(* The database's own rule: one open Plantilla posting for each item. *)
FaultyItemFree(kind, status) == kind = "plantilla" /\ status = "draft" => ~rival
ItemFree(kind, status) == kind = "plantilla" /\ status \in Open => ~rival

(* The form asks more: no other open posting, whatever this one's status.   *)
EntersFreeItem(kind) == kind = "plantilla" => ~rival

Governs(v) == v.kind # "open pool"

IsOpenForIntake(v) ==
  v.status = "active" /\ v.opens <= day /\ (Governs(v) => day <= v.closing)

PoolIsFinal(v) ==
  v.status = "closed" \/ (Governs(v) /\ v.closing < day)

SelectionStands(v) == selection /\ v.kind # "open pool"

(* A vacancy closed without a date gets today's. *)
Closed(v) ==
  [v EXCEPT !.status = "closed", !.closing = IF @ = None THEN day ELSE @]

--------------------------------------------------------------------------------
(* The office's forms *)

DefaultClosing(kind, opens, closing) ==
  IF kind = "plantilla" /\ closing = None THEN opens + Period - 1 ELSE closing

CreateVacancy(kind, opens, entered, standards, publish) ==
  LET closing == DefaultClosing(kind, opens, entered)
      status == IF publish THEN "active" ELSE "draft"
  IN /\ vacancy.status = "none"
     /\ DatesFit(kind, opens, closing)
     /\ closing # None => closing >= day /\ closing <= MaxDay
     /\ EntersFreeItem(kind)
     /\ kind = "plantilla" /\ publish => standards
     /\ vacancy' = [status |-> status, kind |-> kind, opens |-> opens, closing |-> closing,
                    standards |-> standards, extended |-> FALSE]
     /\ UNCHANGED <<day, others, applicants, exam, policy, redrafted>>

Later(old, new) == old # None /\ new # None /\ new > old

(* A later closing date would make a second batch once the exam is set; a     *)
(* draft is not asked, though it may have been published before.              *)
FaultyMayExtend(v) == TRUE

MayExtend(v) == v.status = "draft" \/ exam = 0 \/ policy.allowed

IsExtension(v, closing) == v.status # "draft" /\ Later(v.closing, closing)

(* What people who applied relied on stays: the kind and the opening date.   *)
UpdateVacancy(kind, opens, entered, standards) ==
  LET v == vacancy
      closing == DefaultClosing(kind, opens, entered)
      moved == closing # None /\ closing # v.closing
      saved == [status |-> v.status, kind |-> kind, opens |-> opens, closing |-> closing,
                standards |-> standards, extended |-> v.extended \/ IsExtension(v, closing)]
  IN /\ v.status # "none"
     /\ DatesFit(kind, opens, closing)
     /\ closing # None => closing <= MaxDay
     /\ EntersFreeItem(kind)
     /\ moved => closing >= day /\ v.status # "closed"
     /\ Later(v.closing, closing) => MayExtend(v)
     /\ Live => kind = v.kind /\ opens = v.opens
     /\ vacancy' = IF v.status = "closed" THEN Closed(saved) ELSE saved
     /\ redrafted' = (redrafted \/ (v.status = "draft" /\ exam # 0 /\ Later(v.closing, closing)))
     /\ UNCHANGED <<day, others, applicants, exam, policy>>

(* The status comes with the address of the request, so it may be any but      *)
(* cancelled: a published vacancy can be made a draft again.  An open pool     *)
(* that was closed has a closing date, which one that is not may not have.     *)
Offered == Statuses \ {"none", "cancelled"}

CanBe(v, status) ==
  /\ v.status \notin {"none", "cancelled", status}
  /\ status = "active" => /\ ~SelectionStands(v)
                          /\ v.kind = "plantilla" => v.standards
  /\ status = "closed" /\ v.closing # None => v.closing <= day
  /\ status # "closed" => DatesFit(v.kind, v.opens, v.closing)

UpdateStatus(status) ==
  /\ CanBe(vacancy, status)
  /\ ItemFree(vacancy.kind, status)
  /\ vacancy' = IF status = "closed" THEN Closed(vacancy)
                ELSE [vacancy EXCEPT !.status = status]
  /\ UNCHANGED <<day, others, applicants, exam, policy, redrafted>>

CancelVacancy ==
  /\ vacancy.status \notin {"none", "cancelled"} /\ ~selection
  /\ vacancy' = [vacancy EXCEPT !.status = "cancelled"]
  /\ UNCHANGED <<day, others, applicants, exam, policy, redrafted>>

UpdatePolicy ==
  /\ policy' = [allowed |-> ~policy.allowed, ever |-> TRUE]
  /\ UNCHANGED <<day, vacancy, others, applicants, exam, redrafted>>

(* Another posting of the item is opened, or closed. *)
RivalChanges ==
  /\ rival \/ ~(vacancy.kind = "plantilla" /\ vacancy.status \in Open)
  /\ rival' = ~rival
  /\ UNCHANGED <<day, vacancy, checklist, selection, applicants, exam, policy, redrafted>>

--------------------------------------------------------------------------------
(* The checklist, saved by a second transaction of the same form *)

FaultyOnlyRelaxes(applies, required) == applies = checklist.applies

OnlyRelaxes(applies, required) ==
  /\ applies = checklist.applies
  /\ required \subseteq checklist.required

SetDocuments(applies, required) ==
  /\ vacancy.status # "none"
  /\ Forced \subseteq required /\ required \subseteq applies
  /\ Live => OnlyRelaxes(applies, required)
  /\ checklist' = [applies |-> applies, required |-> required]
  /\ UNCHANGED <<day, vacancy, rival, selection, applicants, exam, policy, redrafted>>

--------------------------------------------------------------------------------
(* Applicants, exam and selection *)

Submit ==
  /\ IsOpenForIntake(vacancy)
  /\ supplied' = supplied \cup {checklist.required}
  /\ lateOn' = IF exam # 0 THEN day ELSE lateOn
  /\ UNCHANGED <<day, vacancy, others, exam, policy, redrafted>>

(* A Plantilla batch sits together, so its pool must be final. *)
ScheduleExam ==
  /\ Live /\ exam = 0 /\ vacancy.status # "cancelled"
  /\ vacancy.kind = "plantilla" => PoolIsFinal(vacancy)
  /\ exam' = day
  /\ UNCHANGED <<day, vacancy, others, applicants, policy, redrafted>>

Select ==
  /\ exam # 0 /\ ~selection /\ vacancy.status # "cancelled"
  /\ vacancy.kind = "plantilla" => PoolIsFinal(vacancy)
  /\ selection' = TRUE
  /\ UNCHANGED <<day, vacancy, rival, checklist, applicants, exam, policy, redrafted>>

TakeBack ==
  /\ selection
  /\ selection' = FALSE
  /\ UNCHANGED <<day, vacancy, rival, checklist, applicants, exam, policy, redrafted>>

DayPasses ==
  /\ day < MaxDay
  /\ day' = day + 1
  /\ UNCHANGED <<vacancy, others, applicants, exam, policy, redrafted>>

Next ==
  \/ \E kind \in Kinds, opens \in Days, closing \in Days \cup {None}, s \in BOOLEAN :
       \/ \E publish \in BOOLEAN : CreateVacancy(kind, opens, closing, s, publish)
       \/ UpdateVacancy(kind, opens, closing, s)
  \/ \E status \in Offered : UpdateStatus(status)
  \/ \E applies, required \in SUBSET Documents : SetDocuments(applies, required)
  \/ CancelVacancy \/ UpdatePolicy \/ RivalChanges
  \/ Submit \/ ScheduleExam \/ Select \/ TakeBack \/ DayPasses

Spec == Init /\ [][Next]_vars

--------------------------------------------------------------------------------
(* Properties *)

(* An application that was complete when it was submitted stays complete:     *)
(* nobody is asked for a document that was not asked for on the day.          *)
CompleteStaysComplete ==
  \A documents \in supplied : checklist.required \subseteq documents

(* Nobody joins a Plantilla vacancy after its exam was scheduled, but on that *)
(* same day, unless the policy once allowed it or the vacancy was made a      *)
(* draft again and given a later closing date: no other order of changes to   *)
(* the kind, the dates and the status lets a second batch in.                 *)
NoSecondBatch ==
  vacancy.kind = "plantilla" /\ lateOn # 0 => policy.ever \/ redrafted \/ lateOn = exam

(* A Plantilla item is filled by one open posting at a time, also when a      *)
(* closed posting is set active again.                                        *)
OneOpenPostingPerItem ==
  rival => ~(vacancy.kind = "plantilla" /\ vacancy.status \in Open)
================================================================================
