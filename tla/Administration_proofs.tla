------------------------- MODULE Administration_proofs -------------------------
(***************************************************************************)
(* Proofs about the office's administration: the vacancies it posts        *)
(* (VacancySetup) and its own accounts (StaffAccounts), two specifications *)
(* that share no variable.                                                 *)
(***************************************************************************)
EXTENDS VacancySetup, StaffAccounts, SequenceTheorems, TLAPS

(***************************************************************************)
(* Vacancies, for any clock, period and set of documents.                  *)
(* The item rule and the checklist rule are inductive given the types.     *)
(* That nobody joins after the exam is not: it rests on what the exam      *)
(* found, a pool whose closing date had come, and on that date not moving  *)
(* later but in the two ways the property names.                           *)
(***************************************************************************)

Rows == [status : Statuses, kind : Kinds \cup {None}, opens : 0..MaxDay,
         closing : Days \cup {None}, standards : BOOLEAN, extended : BOOLEAN]

(* The part of the types the other invariants rest on.                     *)
RowsOK == /\ day \in Days
          /\ vacancy \in Rows
          /\ policy \in [allowed : BOOLEAN, ever : BOOLEAN]
          /\ policy.allowed => policy.ever
          /\ vacancy.kind = "plantilla" => vacancy.closing # None

(* The exam was set for people who applied, on or after a closing date     *)
(* that no form moves later unless the policy lets it or the vacancy is a  *)
(* draft again; and who applied after that did so the same day.            *)
PoolOK ==
  /\ supplied # {} => vacancy.status # "none"
  /\ exam \in 0..day /\ lateOn \in Nat
  /\ exam # 0 => supplied # {}
  /\ lateOn # 0 => exam # 0
  /\ vacancy.status = "closed" => vacancy.closing # None /\ vacancy.closing <= day
  /\ vacancy.kind = "plantilla" /\ exam # 0 /\ ~policy.ever /\ ~redrafted =>
       vacancy.closing <= exam /\ lateOn \in {0, exam}

USE SetupAssumption DEF SetupAssumption

(* What closing a posting does to its row.                                 *)
LEMMA ClosedRow ==
  ASSUME NEW v \in Rows, day \in Days
  PROVE  /\ Closed(v) \in Rows
         /\ Closed(v).status = "closed" /\ Closed(v).kind = v.kind
         /\ Closed(v).closing = IF v.closing = None THEN day ELSE v.closing
  BY DEF Closed, Rows, Statuses

(* What saving a posting's form does to its row.                           *)
LEMMA UpdatedRow ==
  ASSUME RowsOK, NEW kind \in Kinds, NEW opens \in Days, NEW entered \in Days \cup {None},
         NEW s \in BOOLEAN, UpdateVacancy(kind, opens, entered, s)
  PROVE  /\ vacancy' \in Rows
         /\ vacancy'.status = vacancy.status /\ vacancy'.kind = kind
         /\ vacancy.status # "none"
         /\ vacancy'.closing =
              IF DefaultClosing(kind, opens, entered) = None /\ vacancy.status = "closed"
                THEN day ELSE DefaultClosing(kind, opens, entered)
         /\ kind # "open pool" => DefaultClosing(kind, opens, entered) # None
  <1> DEFINE closing == DefaultClosing(kind, opens, entered)
             saved == [status |-> vacancy.status, kind |-> kind, opens |-> opens,
                       closing |-> closing, standards |-> s,
                       extended |-> vacancy.extended \/ IsExtension(vacancy, closing)]
  <1>1. closing \in Days \cup {None}
    <2>1. closing # None => closing <= MaxDay
      BY DEF UpdateVacancy
    <2> QED
      BY <2>1 DEF DefaultClosing, Days
  <1>2. saved \in Rows
    BY <1>1 DEF RowsOK, Rows, Days
  <1>3. vacancy' = IF vacancy.status = "closed" THEN Closed(saved) ELSE saved
    BY DEF UpdateVacancy
  <1>4. Closed(saved) \in Rows /\ Closed(saved).status = "closed" /\ Closed(saved).kind = kind
        /\ Closed(saved).closing = IF closing = None THEN day ELSE closing
    BY <1>2, ClosedRow DEF RowsOK
  <1>5. kind # "open pool" => closing # None
    BY DEF UpdateVacancy, DatesFit
  <1>6. vacancy.status # "none"
    BY DEF UpdateVacancy
  <1> QED
    BY <1>2, <1>3, <1>4, <1>5, <1>6

LEMMA CreatedRow ==
  ASSUME RowsOK, NEW kind \in Kinds, NEW opens \in Days, NEW entered \in Days \cup {None},
         NEW s \in BOOLEAN, NEW publish \in BOOLEAN,
         CreateVacancy(kind, opens, entered, s, publish)
  PROVE  /\ vacancy' \in Rows
         /\ vacancy.status = "none"
         /\ vacancy'.status \in {"draft", "active"} /\ vacancy'.kind = kind
         /\ kind # "open pool" => vacancy'.closing # None
  <1> DEFINE closing == DefaultClosing(kind, opens, entered)
  <1>1. /\ closing # None => closing <= MaxDay
        /\ vacancy.status = "none"
        /\ DatesFit(kind, opens, closing)
        /\ vacancy' = [status |-> IF publish THEN "active" ELSE "draft", kind |-> kind,
                       opens |-> opens, closing |-> closing, standards |-> s,
                       extended |-> FALSE]
    BY DEF CreateVacancy
  <1>2. closing \in Days \cup {None}
    BY <1>1 DEF DefaultClosing, Days
  <1>3. kind # "open pool" => closing # None
    BY <1>1 DEF DatesFit
  <1>4. ASSUME NEW status \in {"draft", "active"},
               vacancy' = [status |-> status, kind |-> kind, opens |-> opens,
                           closing |-> closing, standards |-> s, extended |-> FALSE]
        PROVE  /\ vacancy' \in Rows
               /\ vacancy'.status \in {"draft", "active"} /\ vacancy'.kind = kind
               /\ vacancy'.closing = closing
    BY <1>2, <1>4 DEF Rows, Days, Statuses, Open
  <1>5. (IF publish THEN "active" ELSE "draft") \in {"draft", "active"}
    OBVIOUS
  <1> QED
    BY <1>1, <1>3, <1>4, <1>5

LEMMA StatusRow ==
  ASSUME RowsOK, NEW status \in Offered, UpdateStatus(status)
  PROVE  /\ vacancy' \in Rows
         /\ vacancy'.status = status /\ vacancy'.kind = vacancy.kind
         /\ vacancy.status \notin {"none", "cancelled"}
         /\ vacancy'.closing =
              IF vacancy.closing = None /\ status = "closed" THEN day ELSE vacancy.closing
         /\ status = "closed" /\ vacancy.closing # None => vacancy.closing <= day
  <1>1. vacancy' = IF status = "closed" THEN Closed(vacancy)
                   ELSE [vacancy EXCEPT !.status = status]
    BY DEF UpdateStatus
  <1>2. /\ vacancy.status \notin {"none", "cancelled"}
        /\ status = "closed" /\ vacancy.closing # None => vacancy.closing <= day
    BY DEF UpdateStatus, CanBe
  <1>3. vacancy \in Rows /\ day \in Days
    BY DEF RowsOK
  <1>4. [vacancy EXCEPT !.status = status] \in Rows
    BY <1>3 DEF Rows, Offered
  <1> QED
    BY <1>1, <1>2, <1>3, <1>4, ClosedRow DEF Rows

(* Every variable the other invariants ask about keeps its type.           *)
THEOREM RowsInvariant == Spec => []RowsOK
<1>1. Init => RowsOK
  BY DEF Init, RowsOK, NoVacancy, Rows, Days, Statuses, Open, Kinds
<1>2. RowsOK /\ [Next]_vars => RowsOK'
  <2> SUFFICES ASSUME RowsOK, [Next]_vars PROVE RowsOK'
    OBVIOUS
  <2>1. ASSUME NEW kind \in Kinds, NEW opens \in Days, NEW closing \in Days \cup {None},
               NEW s \in BOOLEAN, NEW publish \in BOOLEAN,
               CreateVacancy(kind, opens, closing, s, publish)
        PROVE  RowsOK'
    <3>1. UNCHANGED <<day, policy>>
      BY <2>1 DEF CreateVacancy
    <3>2. vacancy' \in Rows /\ (vacancy'.kind = "plantilla" => vacancy'.closing # None)
      <4>1. /\ vacancy' \in Rows /\ vacancy'.kind = kind
            /\ kind # "open pool" => vacancy'.closing # None
        BY <2>1, CreatedRow
      <4> QED
        BY <4>1
    <3> QED
      BY <3>1, <3>2 DEF RowsOK
  <2>2. ASSUME NEW kind \in Kinds, NEW opens \in Days, NEW closing \in Days \cup {None},
               NEW s \in BOOLEAN, UpdateVacancy(kind, opens, closing, s)
        PROVE  RowsOK'
    <3>1. UNCHANGED <<day, policy>>
      BY <2>2 DEF UpdateVacancy
    <3>2. vacancy' \in Rows /\ (vacancy'.kind = "plantilla" => vacancy'.closing # None)
      <4>1. /\ vacancy' \in Rows /\ vacancy'.kind = kind
            /\ vacancy'.closing =
                 IF DefaultClosing(kind, opens, closing) = None /\ vacancy.status = "closed"
                   THEN day ELSE DefaultClosing(kind, opens, closing)
            /\ kind # "open pool" => DefaultClosing(kind, opens, closing) # None
        BY <2>2, UpdatedRow
      <4> QED
        BY <4>1
    <3> QED
      BY <3>1, <3>2 DEF RowsOK
  <2>3. ASSUME NEW status \in Offered, UpdateStatus(status)
        PROVE  RowsOK'
    <3>1. UNCHANGED <<day, policy>>
      BY <2>3 DEF UpdateStatus
    <3> QED
      BY <2>3, <3>1, StatusRow DEF RowsOK, Days
  <2>4. CASE CancelVacancy
    BY <2>4 DEF CancelVacancy, RowsOK, Rows, Statuses
  <2>5. CASE UpdatePolicy
    BY <2>5 DEF UpdatePolicy, RowsOK
  <2>6. CASE DayPasses
    BY <2>6 DEF DayPasses, RowsOK, Days
  <2>7. CASE UNCHANGED <<day, vacancy, policy>>
    BY <2>7 DEF RowsOK
  <2> QED
    BY <2>1, <2>2, <2>3, <2>4, <2>5, <2>6, <2>7
    DEF Next, vars, SetDocuments, RivalChanges, Submit, ScheduleExam, Select, TakeBack
<1> QED
  BY <1>1, <1>2, PTL DEF Spec

-----------------------------------------------------------------------------
(* The properties *)

(* A Plantilla item is filled by one open posting at a time: every form    *)
(* that opens a posting, or another of the item, asks for the other.       *)
THEOREM ItemFilledOnce == Spec => []OneOpenPostingPerItem
<1>1. Init => OneOpenPostingPerItem
  BY DEF Init, OneOpenPostingPerItem, NoVacancy, Open
<1>2. RowsOK /\ OneOpenPostingPerItem /\ [Next]_vars => OneOpenPostingPerItem'
  <2> SUFFICES ASSUME RowsOK, OneOpenPostingPerItem, [Next]_vars
               PROVE  OneOpenPostingPerItem'
    OBVIOUS
  <2>1. ASSUME NEW kind \in Kinds, NEW opens \in Days, NEW closing \in Days \cup {None},
               NEW s \in BOOLEAN, NEW publish \in BOOLEAN,
               CreateVacancy(kind, opens, closing, s, publish)
        PROVE  OneOpenPostingPerItem'
    <3>1. rival' = rival /\ EntersFreeItem(kind)
      BY <2>1 DEF CreateVacancy, others
    <3>2. vacancy'.kind = kind
      BY <2>1, CreatedRow
    <3> QED
      BY <3>1, <3>2 DEF EntersFreeItem, OneOpenPostingPerItem
  <2>2. ASSUME NEW kind \in Kinds, NEW opens \in Days, NEW closing \in Days \cup {None},
               NEW s \in BOOLEAN, UpdateVacancy(kind, opens, closing, s)
        PROVE  OneOpenPostingPerItem'
    <3>1. rival' = rival /\ EntersFreeItem(kind)
      BY <2>2 DEF UpdateVacancy, others
    <3>2. vacancy'.kind = kind
      BY <2>2, UpdatedRow
    <3> QED
      BY <3>1, <3>2 DEF EntersFreeItem, OneOpenPostingPerItem
  <2>3. ASSUME NEW status \in Offered, UpdateStatus(status)
        PROVE  OneOpenPostingPerItem'
    <3>1. rival' = rival /\ ItemFree(vacancy.kind, status)
      BY <2>3 DEF UpdateStatus, others
    <3>2. vacancy'.kind = vacancy.kind /\ vacancy'.status = status
      BY <2>3, StatusRow
    <3> QED
      BY <3>1, <3>2 DEF ItemFree, OneOpenPostingPerItem
  <2>4. CASE CancelVacancy
    BY <2>4 DEF CancelVacancy, others, OneOpenPostingPerItem, RowsOK, Rows, Open
  <2>5. CASE RivalChanges
    BY <2>5 DEF RivalChanges, OneOpenPostingPerItem
  <2>6. CASE UNCHANGED <<vacancy, rival>>
    BY <2>6 DEF OneOpenPostingPerItem
  <2> QED
    BY <2>1, <2>2, <2>3, <2>4, <2>5, <2>6
    DEF Next, vars, others, SetDocuments, UpdatePolicy, Submit, ScheduleExam, Select,
        TakeBack, DayPasses
<1> QED
  BY <1>1, <1>2, RowsInvariant, PTL DEF Spec

(* Nobody who applied lacks a document that was required later: with       *)
(* applications on record the checklist only relaxes.                      *)
THEOREM NobodyAskedAgain == Spec => []CompleteStaysComplete
<1>1. Init => CompleteStaysComplete
  BY DEF Init, CompleteStaysComplete
<1>2. CompleteStaysComplete /\ [Next]_vars => CompleteStaysComplete'
  <2> SUFFICES ASSUME CompleteStaysComplete, [Next]_vars
               PROVE  CompleteStaysComplete'
    OBVIOUS
  <2>1. ASSUME NEW applies \in SUBSET Documents, NEW required \in SUBSET Documents,
               SetDocuments(applies, required)
        PROVE  CompleteStaysComplete'
    <3>1. /\ supplied' = supplied /\ checklist'.required = required
          /\ supplied # {} => required \subseteq checklist.required
      BY <2>1 DEF SetDocuments, applicants, Live, OnlyRelaxes
    <3> QED
      BY <3>1 DEF CompleteStaysComplete
  <2>2. CASE Submit
    BY <2>2 DEF Submit, others, CompleteStaysComplete
  <2>3. CASE UNCHANGED <<checklist, supplied>>
    BY <2>3 DEF CompleteStaysComplete
  <2>4. ASSUME NEW kind, NEW opens, NEW closing, NEW s, NEW publish,
               \/ CreateVacancy(kind, opens, closing, s, publish)
               \/ UpdateVacancy(kind, opens, closing, s)
               \/ UpdateStatus(s)
        PROVE  UNCHANGED <<checklist, supplied>>
    BY <2>4 DEF CreateVacancy, UpdateVacancy, UpdateStatus, applicants, others
  <2>5. CASE CancelVacancy \/ UpdatePolicy \/ RivalChanges \/ ScheduleExam \/ Select
             \/ TakeBack \/ DayPasses \/ UNCHANGED vars
    BY <2>3, <2>5
    DEF vars, others, applicants, CancelVacancy, UpdatePolicy, RivalChanges, ScheduleExam, Select,
        TakeBack, DayPasses
  <2> QED
    BY <2>1, <2>2, <2>3, <2>4, <2>5 DEF Next
<1> QED
  BY <1>1, <1>2, PTL DEF Spec

(* What the exam found still holds: the closing date it waited for is not  *)
(* moved past it, so who applied after it did so on its day; only the      *)
(* policy, or a return to draft, lets the date move.                       *)
THEOREM PoolInvariant == Spec => []PoolOK
<1>1. Init => PoolOK
  BY DEF Init, PoolOK, NoVacancy
<1>2. RowsOK /\ RowsOK' /\ PoolOK /\ [Next]_vars => PoolOK'
  <2> SUFFICES ASSUME RowsOK, RowsOK', PoolOK, [Next]_vars
               PROVE  PoolOK'
    OBVIOUS
  <2> USE DEF applicants
  <2>t. /\ day \in Nat /\ exam \in Nat /\ lateOn \in Nat
        /\ vacancy.closing \in Nat \cup {None} /\ vacancy'.closing \in Nat \cup {None}
    BY DEF RowsOK, PoolOK, Rows, Days
  <2>1. ASSUME NEW kind \in Kinds, NEW opens \in Days, NEW closing \in Days \cup {None},
               NEW s \in BOOLEAN, NEW publish \in BOOLEAN,
               CreateVacancy(kind, opens, closing, s, publish)
        PROVE  PoolOK'
    <3>1. UNCHANGED <<day, supplied, lateOn, exam, policy, redrafted>>
      BY <2>1 DEF CreateVacancy
    <3>2. vacancy.status = "none" /\ vacancy'.status \in {"draft", "active"}
      BY <2>1, CreatedRow
    <3> QED
      BY <3>1, <3>2 DEF PoolOK
  <2>2. ASSUME NEW kind \in Kinds, NEW opens \in Days, NEW entered \in Days \cup {None},
               NEW s \in BOOLEAN, UpdateVacancy(kind, opens, entered, s)
        PROVE  PoolOK'
    <3> DEFINE closing == DefaultClosing(kind, opens, entered)
    <3>1. UNCHANGED <<day, supplied, lateOn, exam, policy>>
      BY <2>2 DEF UpdateVacancy
    <3>2. /\ vacancy'.status = vacancy.status /\ vacancy'.kind = kind
          /\ vacancy'.closing = IF closing = None /\ vacancy.status = "closed"
                                THEN day ELSE closing
          /\ kind # "open pool" => closing # None
      BY <2>2, UpdatedRow
    <3>3. /\ closing # None /\ closing # vacancy.closing => vacancy.status # "closed"
          /\ vacancy.closing # None /\ closing # None /\ closing > vacancy.closing =>
               vacancy.status = "draft" \/ exam = 0 \/ policy.allowed
          /\ supplied # {} => kind = vacancy.kind
          /\ redrafted' = (redrafted \/ (vacancy.status = "draft" /\ exam # 0 /\
                              vacancy.closing # None /\ closing # None /\ closing > vacancy.closing))
      BY <2>2 DEF UpdateVacancy, Later, MayExtend, Live
    <3> HIDE DEF closing
    <3>4. vacancy'.status = "closed" => vacancy'.closing # None /\ vacancy'.closing <= day'
      <4>1. vacancy.status = "closed" => vacancy.closing # None /\ vacancy.closing <= day
        BY DEF PoolOK
      <4>2. CASE closing = None
        <5>1. vacancy'.status = "closed" => vacancy'.closing = day
          BY <3>2, <4>2
        <5>2. day # None /\ day <= day'
          BY <2>t, <3>1
        <5> QED
          BY <3>1, <5>1, <5>2
      <4>3. CASE closing # None
        BY <3>1, <3>2, <3>3, <4>1, <4>3
      <4> QED
        BY <4>2, <4>3
    <3>5. ASSUME vacancy'.kind = "plantilla", exam' # 0, ~policy'.ever, ~redrafted'
          PROVE  vacancy'.closing <= exam' /\ lateOn' \in {0, exam'}
      <4>1. /\ vacancy.kind = "plantilla" /\ ~policy.allowed
            /\ vacancy.closing # None /\ vacancy.closing <= exam /\ lateOn \in {0, exam}
        BY <3>1, <3>2, <3>3, <3>5 DEF PoolOK, RowsOK
      <4>2. closing # None /\ vacancy'.closing = closing /\ closing \in Nat
        BY <2>t, <3>2, <3>5
      <4>3. ~(closing > vacancy.closing)
        BY <3>1, <3>3, <3>5, <4>1, <4>2
      <4> QED
        BY <2>t, <3>1, <4>1, <4>2, <4>3
    <3> QED
      BY <3>1, <3>2, <3>4, <3>5 DEF PoolOK
  <2>3. ASSUME NEW status \in Offered, UpdateStatus(status)
        PROVE  PoolOK'
    <3>1. UNCHANGED <<day, supplied, lateOn, exam, policy, redrafted>>
      BY <2>3 DEF UpdateStatus
    <3>2. /\ vacancy'.status = status /\ vacancy'.kind = vacancy.kind
          /\ vacancy.status \notin {"none", "cancelled"}
          /\ vacancy'.closing =
               IF vacancy.closing = None /\ status = "closed" THEN day ELSE vacancy.closing
          /\ status = "closed" /\ vacancy.closing # None => vacancy.closing <= day
      BY <2>3, StatusRow
    <3> QED
      BY <2>t, <3>1, <3>2 DEF PoolOK, RowsOK, Offered
  <2>4. CASE CancelVacancy
    BY <2>4 DEF CancelVacancy, PoolOK, RowsOK, Rows
  <2>5. CASE UpdatePolicy
    BY <2>5 DEF UpdatePolicy, PoolOK
  <2>6. CASE Submit
    <3>1. /\ UNCHANGED <<day, vacancy, exam, policy, redrafted>>
          /\ vacancy.status = "active" /\ supplied' # {}
          /\ vacancy.kind = "plantilla" => day <= vacancy.closing
          /\ lateOn' = IF exam # 0 THEN day ELSE lateOn
      BY <2>6 DEF Submit, IsOpenForIntake, Governs
    <3>2. exam <= day /\ lateOn' \in Nat /\ exam' \in 0..day' /\ (lateOn' # 0 => exam' # 0)
      BY <2>t, <3>1 DEF PoolOK
    <3>3. ASSUME vacancy.kind = "plantilla", exam # 0, ~policy.ever, ~redrafted
          PROVE  vacancy.closing <= exam /\ lateOn' \in {0, exam}
      <4>1. vacancy.closing <= exam /\ vacancy.closing # None
        BY <3>3 DEF PoolOK, RowsOK
      <4> QED
        BY <2>t, <3>1, <3>2, <3>3, <4>1
    <3> QED
      BY <3>1, <3>2, <3>3 DEF PoolOK
  <2>7. CASE ScheduleExam
    <3>1. /\ UNCHANGED <<day, vacancy, supplied, lateOn, policy, redrafted>>
          /\ exam = 0 /\ exam' = day /\ supplied # {}
          /\ vacancy.kind = "plantilla" => vacancy.status = "closed" \/ vacancy.closing < day
      BY <2>7 DEF ScheduleExam, PoolIsFinal, Governs, Live, applicants
    <3>2. lateOn = 0
      BY <3>1 DEF PoolOK
    <3>3. vacancy.kind = "plantilla" => vacancy.closing <= day
      BY <2>t, <3>1 DEF PoolOK, RowsOK
    <3> QED
      BY <2>t, <3>1, <3>2, <3>3 DEF PoolOK
  <2>8. CASE DayPasses
    BY <2>t, <2>8 DEF DayPasses, PoolOK
  <2>9. CASE UNCHANGED <<day, vacancy, supplied, lateOn, exam, policy, redrafted>>
    BY <2>9 DEF PoolOK
  <2> QED
    BY <2>1, <2>2, <2>3, <2>4, <2>5, <2>6, <2>7, <2>8, <2>9
    DEF Next, vars, SetDocuments, RivalChanges, Select, TakeBack
<1> QED
  BY <1>1, <1>2, RowsInvariant, PTL DEF Spec

(* Nobody joins a Plantilla batch after the day of its exam unless the     *)
(* policy ever allowed it or the vacancy was a draft again when a later    *)
(* closing date was entered.                                               *)
THEOREM BatchSitsTogether == Spec => []NoSecondBatch
<1>1. PoolOK => NoSecondBatch
  BY DEF PoolOK, NoSecondBatch
<1> QED
  BY <1>1, PoolInvariant, PTL

HIDE SetupAssumption DEF SetupAssumption

-----------------------------------------------------------------------------
(***************************************************************************)
(* Accounts, for any people, addresses, passwords, browsers and limits.    *)
(* Who holds which address and who administers are inductive once an       *)
(* account that is active exists.  That the code signed in with was not    *)
(* replaced is not: it rests on a new code voiding every code its issue    *)
(* found and on a voided code never being usable again.                    *)
(***************************************************************************)

AccountRows == [exists : BOOLEAN, admin : BOOLEAN, active : BOOLEAN, email : Emails \cup {Unset}]

AccountsOK ==
  /\ accounts \in [People -> AccountRows]
  /\ requests \subseteq [of : People, email : Emails]
  /\ \A p \in People : accounts[p].active => accounts[p].exists

Codes == [at : Nat, tries : Nat, used : BOOLEAN, seen : Nat]

Browsers ==
  [at : {"off", "unlocked", "asked", "issuing", "code", "in"}, code : Nat, seen : Nat, since : Nat]

BrowsersOK == browser \in [Clicks -> Browsers]

(* A code that the issue of another found is used, and a browser waits for *)
(* one that was issued.                                                    *)
CodesOK ==
  /\ time \in Nat
  /\ codes \in Seq(Codes)
  /\ BrowsersOK
  /\ \A m \in 1..Len(codes) : codes[m].seen < m
  /\ \A n, m \in 1..Len(codes) : n <= codes[m].seen => codes[n].used
  /\ \A b \in Clicks : browser[b].at = "code" => browser[b].code \in 1..Len(codes)
  /\ \A b \in Clicks : browser[b].at \in {"asked", "issuing"} => browser[b].code \in 0..Len(codes)
  /\ \A b \in Clicks : browser[b].at = "issuing" => browser[b].seen <= Len(codes)

(* Each step either leaves the accounts and their requests alone or is one *)
(* of six operations.                                                      *)
LEMMA AccountSteps ==
  ASSUME [AccountsNext]_accountsVars
  PROVE  \/ UNCHANGED <<accounts, requests>>
         \/ \E p \in People, e \in Emails, admin \in BOOLEAN,
               temporary \in Passwords \cup {Unset}, got \in {"saved", "both"} :
                 CreateAccount(p, e, admin, temporary, got)
         \/ \E p \in People, e \in Emails, admin \in BOOLEAN,
               a \in People, active \in BOOLEAN, delivered \in BOOLEAN :
                 UpdateAccount(a, p, e, admin, active, delivered)
         \/ \E a, p \in People : ToggleActive(a, p)
         \/ \E r \in requests : ConfirmEmail(r)
         \/ \E r \in requests : RequestExpires(r)
<1>1. CASE Tick \/ Unlock
  BY <1>1 DEF Tick, Unlock
<1>2. ASSUME NEW b \in Clicks,
             \/ PassLock(b) \/ FailPassword(b) \/ PassPassword(b) \/ Resend(b) \/ SignOut(b)
             \/ BeginIssue(b) \/ CommitIssue(b) \/ AbandonIssue(b)
             \/ \E right \in BOOLEAN : EnterCode(b, right)
      PROVE  UNCHANGED <<accounts, requests>>
  BY <1>2 DEF PassLock, FailPassword, PassPassword, Resend, SignOut, EnterCode,
                  BeginIssue, CommitIssue, AbandonIssue
<1>3. ASSUME NEW p \in People, NEW w \in Passwords, NEW got \in {"saved", "old", "both"},
             SetPassword(p, w, got)
      PROVE  UNCHANGED <<accounts, requests>>
  BY <1>3 DEF SetPassword
<1>4. CASE UNCHANGED accountsVars
  BY <1>4 DEF accountsVars
<1> QED
  BY <1>1, <1>2, <1>3, <1>4 DEF AccountsNext

(* What a new account's row is, and that the others are untouched.         *)
LEMMA CreatedAccount ==
  ASSUME AccountsOK, NEW p \in People, NEW e \in Emails, NEW admin \in BOOLEAN,
         NEW temporary, NEW got, CreateAccount(p, e, admin, temporary, got)
  PROVE  /\ accounts' \in [People -> AccountRows]
         /\ requests' = requests
         /\ ~accounts[p].exists /\ EmailFree(p, e)
         /\ accounts'[p].email = e /\ accounts'[p].exists
         /\ \A q \in People \ {p} : accounts'[q] = accounts[q]
  <1> DEFINE row == [exists |-> TRUE, admin |-> admin, active |-> TRUE, email |-> e]
  <1>1. /\ accounts' = [accounts EXCEPT ![p] = row]
        /\ requests' = requests
        /\ ~accounts[p].exists /\ EmailFree(p, e)
    BY DEF CreateAccount
  <1>2. row \in AccountRows /\ row.email = e /\ row.exists
    BY DEF AccountRows
  <1> HIDE DEF row
  <1> QED
    BY <1>1, <1>2 DEF AccountsOK

(* What the administration's form does to a row.                           *)
LEMMA UpdatedAccount ==
  ASSUME AccountsOK, NEW p \in People, NEW e \in Emails, NEW admin \in BOOLEAN,
         NEW a \in People, NEW active \in BOOLEAN, NEW delivered \in BOOLEAN,
         UpdateAccount(a, p, e, admin, active, delivered)
  PROVE  /\ accounts' \in [People -> AccountRows]
         /\ requests' \subseteq [of : People, email : Emails]
         /\ accounts'[p].email = accounts[p].email /\ accounts'[p].exists
         /\ accounts[p].exists
         /\ accounts'[p].admin = admin /\ accounts'[p].active = active
         /\ \A q \in People \ {p} : accounts'[q] = accounts[q]
         /\ Administers(a) /\ SparesItself(a, p, admin, active)
  <1>1. /\ accounts' = [accounts EXCEPT ![p].admin = admin, ![p].active = active]
        /\ accounts[p].exists
        /\ Administers(a) /\ SparesItself(a, p, admin, active)
        /\ requests' \subseteq requests \cup {[of |-> p, email |-> e]}
    BY DEF UpdateAccount
  <1>2. accounts[p] \in AccountRows /\ accounts'[p] \in AccountRows
    BY <1>1 DEF AccountsOK, AccountRows
  <1>3. [of |-> p, email |-> e] \in [of : People, email : Emails]
    OBVIOUS
  <1>4. requests' \subseteq [of : People, email : Emails]
    BY <1>1, <1>3 DEF AccountsOK
  <1> QED
    BY <1>1, <1>2, <1>4 DEF AccountsOK, AccountRows

(* What the switch does to a row: nobody throws their own.                 *)
LEMMA ToggledAccount ==
  ASSUME AccountsOK, NEW a \in People, NEW p \in People, ToggleActive(a, p)
  PROVE  /\ accounts' \in [People -> AccountRows]
         /\ requests' = requests
         /\ accounts'[p].email = accounts[p].email /\ accounts'[p].exists
         /\ accounts[p].exists
         /\ \A q \in People \ {p} : accounts'[q] = accounts[q]
         /\ Administers(a) /\ a # p
  <1>1. /\ accounts' = [accounts EXCEPT ![p].active = ~@]
        /\ accounts[p].exists /\ requests' = requests
        /\ Administers(a) /\ SparesItself(a, p, accounts[p].admin, ~accounts[p].active)
    BY DEF ToggleActive
  <1>2. accounts[p] \in AccountRows /\ accounts'[p] \in AccountRows
    BY <1>1 DEF AccountsOK, AccountRows
  <1>3. a # p
    BY <1>1 DEF Administers, SparesItself
  <1> QED
    BY <1>1, <1>2, <1>3 DEF AccountsOK, AccountRows

(* A confirmed address, and nothing else, is written.                      *)
LEMMA ConfirmedAccount ==
  ASSUME AccountsOK, NEW r \in requests, ConfirmEmail(r)
  PROVE  /\ r.of \in People /\ r.email \in Emails
         /\ accounts' \in [People -> AccountRows]
         /\ requests' = requests \ {r}
         /\ EmailFree(r.of, r.email) /\ accounts'[r.of].email = r.email
         /\ accounts'[r.of].exists = accounts[r.of].exists
         /\ accounts'[r.of].admin = accounts[r.of].admin
         /\ accounts'[r.of].active = accounts[r.of].active
         /\ \A q \in People \ {r.of} : accounts'[q] = accounts[q]
  <1>1. r.of \in People /\ r.email \in Emails
    BY DEF AccountsOK
  <1>2. /\ accounts' = [accounts EXCEPT ![r.of].email = r.email]
        /\ requests' = requests \ {r} /\ EmailFree(r.of, r.email)
    BY DEF ConfirmEmail
  <1>3. accounts[r.of] \in AccountRows /\ accounts'[r.of] \in AccountRows
    BY <1>1, <1>2 DEF AccountsOK, AccountRows
  <1> QED
    BY <1>1, <1>2, <1>3 DEF AccountsOK, AccountRows

-----------------------------------------------------------------------------
(* The types, and that an account in use was created.                      *)
THEOREM AccountsInvariant == AccountsSpec => []AccountsOK
<1>1. AccountsInit => AccountsOK
  BY DEF AccountsInit, AccountsOK, AccountRows, NoAccount
<1>2. AccountsOK /\ [AccountsNext]_accountsVars => AccountsOK'
  <2> SUFFICES ASSUME AccountsOK, [AccountsNext]_accountsVars PROVE AccountsOK'
    OBVIOUS
  <2>1. CASE UNCHANGED <<accounts, requests>>
    BY <2>1 DEF AccountsOK
  <2>2. ASSUME NEW p \in People, NEW e \in Emails, NEW admin \in BOOLEAN,
               NEW temporary \in Passwords \cup {Unset}, NEW got \in {"saved", "both"},
                CreateAccount(p, e, admin, temporary, got)
        PROVE  AccountsOK'
    BY <2>2, CreatedAccount DEF AccountsOK
  <2>3. ASSUME NEW p \in People, NEW e \in Emails, NEW admin \in BOOLEAN, NEW a \in People,
               NEW active \in BOOLEAN, NEW delivered \in BOOLEAN,
               UpdateAccount(a, p, e, admin, active, delivered)
        PROVE  AccountsOK'
    BY <2>3, UpdatedAccount DEF AccountsOK
  <2>4. ASSUME NEW a \in People, NEW p \in People, ToggleActive(a, p)
        PROVE  AccountsOK'
    BY <2>4, ToggledAccount DEF AccountsOK
  <2>5. ASSUME NEW r \in requests, ConfirmEmail(r)
        PROVE  AccountsOK'
    BY <2>5, ConfirmedAccount DEF AccountsOK
  <2>6. ASSUME NEW r \in requests, RequestExpires(r)
        PROVE  AccountsOK'
    BY <2>6 DEF RequestExpires, AccountsOK
  <2> QED
    BY <2>1, <2>2, <2>3, <2>4, <2>5, <2>6, AccountSteps
<1> QED
  BY <1>1, <1>2, PTL DEF AccountsSpec

(* No two accounts share an address: every form that writes one asks that  *)
(* it be free at that moment, the confirmation of an old request too.      *)
THEOREM OneAccountPerAddress == AccountsSpec => []OneEmailEach
<1>1. AccountsInit => OneEmailEach
  BY AccountsAssumption DEF AccountsInit, OneEmailEach, NoAccount, AccountsAssumption
<1>2. AccountsOK /\ OneEmailEach /\ [AccountsNext]_accountsVars => OneEmailEach'
  <2> SUFFICES ASSUME AccountsOK, OneEmailEach, [AccountsNext]_accountsVars PROVE OneEmailEach'
    OBVIOUS
  <2>1. CASE UNCHANGED <<accounts, requests>>
    BY <2>1 DEF OneEmailEach
  <2>2. ASSUME NEW p \in People, NEW e \in Emails, NEW admin \in BOOLEAN,
               NEW temporary \in Passwords \cup {Unset}, NEW got \in {"saved", "both"},
                CreateAccount(p, e, admin, temporary, got)
        PROVE  OneEmailEach'
    BY <2>2, CreatedAccount DEF OneEmailEach, EmailFree
  <2>3. ASSUME NEW p \in People, NEW e \in Emails, NEW admin \in BOOLEAN, NEW a \in People,
               NEW active \in BOOLEAN, NEW delivered \in BOOLEAN,
               UpdateAccount(a, p, e, admin, active, delivered)
        PROVE  OneEmailEach'
    BY <2>3, UpdatedAccount DEF OneEmailEach
  <2>4. ASSUME NEW a \in People, NEW p \in People, ToggleActive(a, p)
        PROVE  OneEmailEach'
    BY <2>4, ToggledAccount DEF OneEmailEach
  <2>5. ASSUME NEW r \in requests, ConfirmEmail(r)
        PROVE  OneEmailEach'
    BY <2>5, ConfirmedAccount DEF OneEmailEach, EmailFree
  <2>6. ASSUME NEW r \in requests, RequestExpires(r)
        PROVE  OneEmailEach'
    BY <2>6 DEF RequestExpires, OneEmailEach
  <2> QED
    BY <2>1, <2>2, <2>3, <2>4, <2>5, <2>6, AccountSteps
<1> QED
  BY <1>1, <1>2, AccountsInvariant, PTL DEF AccountsSpec

(* The office is never left without an administrator: whoever changes the  *)
(* accounts administers them, and nobody takes that away from themselves.  *)
THEOREM AdministratorLeft == AccountsSpec => []AnAdminRemains
<1>1. AccountsInit => AnAdminRemains
  BY AccountsAssumption DEF AccountsInit, AnAdminRemains, Administers, AccountsAssumption
<1>2. AccountsOK /\ AnAdminRemains /\ [AccountsNext]_accountsVars => AnAdminRemains'
  <2> SUFFICES ASSUME AccountsOK, AnAdminRemains, [AccountsNext]_accountsVars PROVE AnAdminRemains'
    OBVIOUS
  <2>1. CASE UNCHANGED <<accounts, requests>>
    BY <2>1 DEF AnAdminRemains, Administers
  <2>2. ASSUME NEW p \in People, NEW e \in Emails, NEW admin \in BOOLEAN,
               NEW temporary \in Passwords \cup {Unset}, NEW got \in {"saved", "both"},
                CreateAccount(p, e, admin, temporary, got)
        PROVE  AnAdminRemains'
    BY <2>2, CreatedAccount DEF AnAdminRemains, Administers, AccountsOK
  <2>3. ASSUME NEW p \in People, NEW e \in Emails, NEW admin \in BOOLEAN, NEW a \in People,
               NEW active \in BOOLEAN, NEW delivered \in BOOLEAN,
               UpdateAccount(a, p, e, admin, active, delivered)
        PROVE  AnAdminRemains'
    BY <2>3, UpdatedAccount DEF AnAdminRemains, Administers, SparesItself
  <2>4. ASSUME NEW a \in People, NEW p \in People, ToggleActive(a, p)
        PROVE  AnAdminRemains'
    BY <2>4, ToggledAccount DEF AnAdminRemains, Administers
  <2>5. ASSUME NEW r \in requests, ConfirmEmail(r)
        PROVE  AnAdminRemains'
    BY <2>5, ConfirmedAccount DEF AnAdminRemains, Administers
  <2>6. ASSUME NEW r \in requests, RequestExpires(r)
        PROVE  AnAdminRemains'
    BY <2>6 DEF RequestExpires, AnAdminRemains, Administers
  <2> QED
    BY <2>1, <2>2, <2>3, <2>4, <2>5, <2>6, AccountSteps
<1> QED
  BY <1>1, <1>2, AccountsInvariant, PTL DEF AccountsSpec

-----------------------------------------------------------------------------
(* A standing lock is not moved by the requests that passed the check      *)
(* before it: it keeps its end or is lifted.                               *)
THEOREM LockNeverMoves == AccountsSpec => LockKeepsItsEnd
<1>1. ASSUME [AccountsNext]_accountsVars
      PROVE  LockStands(time, attempt) => attempt'.until \in {attempt.until, Unset}
  <2>1. ASSUME NEW b \in Clicks, LockStands(time, attempt), FailPassword(b)
        PROVE  attempt' = attempt
    BY <2>1 DEF FailPassword, FailureRecorded
  <2>2. ASSUME NEW b \in Clicks, PassPassword(b)
        PROVE  attempt'.until = Unset
    BY <2>2 DEF PassPassword, NoAttempt
  <2>3. ASSUME Unlock
        PROVE  attempt'.until = Unset
    BY <2>3 DEF Unlock
  <2>4. ASSUME NEW b \in Clicks, PassLock(b)
        PROVE  ~LockStands(time, attempt)
    BY <2>4 DEF PassLock
  <2>5. ASSUME NEW b \in Clicks,
               \/ Resend(b) \/ SignOut(b) \/ \E right \in BOOLEAN : EnterCode(b, right)
               \/ BeginIssue(b) \/ CommitIssue(b) \/ AbandonIssue(b)
        PROVE  attempt' = attempt
    BY <2>5 DEF Resend, SignOut, EnterCode, BeginIssue, CommitIssue, AbandonIssue
  <2>6. CASE Tick \/ UNCHANGED accountsVars
    BY <2>6 DEF Tick, accountsVars, signIn
  <2>7. ASSUME NEW p \in People, NEW e \in Emails, NEW admin \in BOOLEAN,
               NEW temporary \in Passwords \cup {Unset}, NEW got \in {"saved", "both"},
                CreateAccount(p, e, admin, temporary, got)
        PROVE  attempt' = attempt
    BY <2>7 DEF CreateAccount, signIn
  <2>8. ASSUME NEW p \in People, NEW e \in Emails, NEW admin \in BOOLEAN, NEW a \in People,
               NEW active \in BOOLEAN, NEW delivered \in BOOLEAN,
               UpdateAccount(a, p, e, admin, active, delivered)
        PROVE  attempt' = attempt
    BY <2>8 DEF UpdateAccount, signIn
  <2>9. ASSUME \/ \E a, p \in People : ToggleActive(a, p)
               \/ \E r \in requests : ConfirmEmail(r) \/ RequestExpires(r)
        PROVE  attempt' = attempt
    BY <2>9 DEF ToggleActive, ConfirmEmail, RequestExpires, signIn
  <2>10. ASSUME NEW p \in People, NEW w \in Passwords, NEW got \in {"saved", "old", "both"},
                SetPassword(p, w, got)
         PROVE  attempt' = attempt
    BY <2>10 DEF SetPassword, signIn
  <2> QED
    BY <1>1, <2>1, <2>2, <2>3, <2>4, <2>5, <2>6, <2>7, <2>8, <2>9, <2>10 DEF AccountsNext
<1> QED
  BY <1>1, PTL DEF AccountsSpec, LockKeepsItsEnd

(* Each step either leaves the codes and the browsers alone or is a step   *)
(* of the sign-in that this lists.                                         *)
LEMMA CodeSteps ==
  ASSUME [AccountsNext]_accountsVars
  PROVE  \/ UNCHANGED <<codes, browser>> /\ (time' = time \/ time' = time + 1)
         \/ \E b \in Clicks : /\ time' = time
                             /\ \/ PassLock(b) \/ FailPassword(b) \/ PassPassword(b)
                                \/ Resend(b) \/ SignOut(b)
                                \/ BeginIssue(b) \/ CommitIssue(b) \/ AbandonIssue(b)
                                \/ \E right \in BOOLEAN : EnterCode(b, right)
<1>1. CASE Tick \/ Unlock \/ UNCHANGED accountsVars
  BY <1>1 DEF Tick, Unlock, accountsVars, signIn
<1>2. ASSUME NEW b \in Clicks,
             \/ PassLock(b) \/ FailPassword(b) \/ PassPassword(b) \/ Resend(b) \/ SignOut(b)
             \/ BeginIssue(b) \/ CommitIssue(b) \/ AbandonIssue(b)
             \/ \E right \in BOOLEAN : EnterCode(b, right)
      PROVE  time' = time
  BY <1>2 DEF PassLock, FailPassword, PassPassword, Resend, SignOut, EnterCode,
                  BeginIssue, CommitIssue, AbandonIssue
<1>3. ASSUME NEW p \in People, NEW e \in Emails, NEW admin \in BOOLEAN,
             NEW temporary \in Passwords \cup {Unset}, NEW got \in {"saved", "both"},
                CreateAccount(p, e, admin, temporary, got)
      PROVE  UNCHANGED <<codes, browser, time>>
  BY <1>3 DEF CreateAccount, signIn
<1>4. ASSUME NEW p \in People, NEW e \in Emails, NEW admin \in BOOLEAN, NEW a \in People,
             NEW active \in BOOLEAN, NEW delivered \in BOOLEAN,
             UpdateAccount(a, p, e, admin, active, delivered)
      PROVE  UNCHANGED <<codes, browser, time>>
  BY <1>4 DEF UpdateAccount, signIn
<1>5. ASSUME \/ \E a, p \in People : ToggleActive(a, p)
             \/ \E r \in requests : ConfirmEmail(r) \/ RequestExpires(r)
      PROVE  UNCHANGED <<codes, browser, time>>
  BY <1>5 DEF ToggleActive, ConfirmEmail, RequestExpires, signIn
<1>6. ASSUME NEW p \in People, NEW w \in Passwords, NEW got \in {"saved", "old", "both"},
             SetPassword(p, w, got)
      PROVE  UNCHANGED <<codes, browser, time>>
  BY <1>6 DEF SetPassword, signIn
<1> QED
  BY <1>1, <1>2, <1>3, <1>4, <1>5, <1>6 DEF AccountsNext

(* What a code that is spent, or was entered wrong, becomes.                *)
LEMMA ChangedCode ==
  ASSUME NEW c \in Codes
  PROVE  /\ Spent(c) \in Codes /\ Spent(c).used /\ Spent(c).seen = c.seen
         /\ Missed(c) \in Codes /\ Missed(c).seen = c.seen
  <1>1. MaxTries \in Nat
    BY AccountsAssumption DEF AccountsAssumption
  <1>2. (c.tries + 1 >= MaxTries) \in BOOLEAN /\ c.tries + 1 \in Nat
    BY <1>1 DEF Codes
  <1>3. Spent(c) \in Codes /\ Spent(c).used /\ Spent(c).seen = c.seen
    BY DEF Spent, Codes
  <1>4. Missed(c) \in Codes /\ Missed(c).seen = c.seen
    BY <1>2 DEF Missed, Codes
  <1> QED
    BY <1>3, <1>4

(* A new code voids all the others that its issue found.                   *)
LEMMA IssuedCode ==
  ASSUME CodesOK, NEW b \in Clicks, CommitIssue(b)
  PROVE  CodesOK'
  <1> DEFINE seen == browser[b].seen
             voided == Voided(seen)
             new == [at |-> browser[b].since, tries |-> 0, used |-> FALSE, seen |-> seen]
             to == At("code", Len(codes) + 1)
  <1>0. browser[b] \in Browsers /\ seen \in Nat /\ seen <= Len(codes) /\ Len(codes) \in Nat
    BY DEF CommitIssue, CodesOK, BrowsersOK, Browsers
  <1>1. codes' = Append(voided, new) /\ browser' = [browser EXCEPT ![b] = to] /\ time' = time
    BY DEF CommitIssue
  <1>2. new \in Codes /\ new.seen = seen
    BY <1>0 DEF Codes, Browsers
  <1>3. /\ voided \in Seq(Codes) /\ Len(voided) = Len(codes)
        /\ \A i \in 1..Len(codes) : /\ voided[i].seen = codes[i].seen
                                    /\ codes[i].used \/ i <= seen => voided[i].used
    <2>1. DOMAIN codes = 1..Len(codes) /\ Len(codes) \in Nat
      BY DEF CodesOK
    <2>2. \A i \in 1..Len(codes) : codes[i] \in Codes
      BY DEF CodesOK
    <2>3. \A i \in 1..Len(codes) : /\ Spent(codes[i]) \in Codes /\ Spent(codes[i]).used
                                   /\ Spent(codes[i]).seen = codes[i].seen
      BY <2>2, ChangedCode
    <2>4. voided = [i \in 1..Len(codes) |-> IF i <= seen THEN Spent(codes[i]) ELSE codes[i]]
      BY <2>1 DEF Voided
    <2> HIDE DEF voided
    <2> QED
      BY <2>1, <2>2, <2>3, <2>4
  <1>4. to \in Browsers /\ to.at = "code" /\ to.code = Len(codes) + 1
    BY <1>0 DEF At, Browsers
  <1> HIDE DEF new, to, voided, seen
  <1>5. /\ codes' \in Seq(Codes) /\ Len(codes') = Len(codes) + 1
        /\ \A i \in 1..Len(codes) : codes'[i] = voided[i]
        /\ codes'[Len(codes) + 1] = new
    BY <1>1, <1>2, <1>3
  <1>6. ASSUME NEW n \in 1..Len(codes'), NEW m \in 1..Len(codes'), n <= codes'[m].seen
        PROVE  codes'[n].used
    <2>1. CASE m = Len(codes) + 1
      <3>1. n <= seen
        BY <1>2, <1>5, <1>6, <2>1
      <3>2. n \in 1..Len(codes)
        BY <1>0, <1>5, <3>1
      <3> QED
        BY <1>3, <1>5, <3>1, <3>2
    <2>2. CASE m \in 1..Len(codes)
      <3>1. n <= codes[m].seen /\ codes[m].seen \in Nat
        <4>1. codes[m] \in Codes
          BY <2>2 DEF CodesOK
        <4> QED
          BY <1>3, <1>5, <1>6, <2>2, <4>1 DEF Codes
      <3>2. CASE n \in 1..Len(codes)
        BY <1>3, <1>5, <2>2, <3>1, <3>2 DEF CodesOK
      <3>3. CASE n = Len(codes) + 1
        BY <1>0, <2>2, <3>1, <3>3 DEF CodesOK
      <3> QED
        BY <1>0, <1>5, <3>2, <3>3
    <2> QED
      BY <1>0, <1>5, <2>1, <2>2
  <1>9. ASSUME NEW m \in 1..Len(codes') PROVE codes'[m].seen < m
    BY <1>0, <1>2, <1>3, <1>5 DEF CodesOK
  <1>7. browser' \in [Clicks -> Browsers] /\ browser'[b] = to
        /\ \A c \in Clicks \ {b} : browser'[c] = browser[c]
    BY <1>1, <1>4 DEF CodesOK, BrowsersOK
  <1>8. ASSUME NEW c \in Clicks
        PROVE  /\ browser'[c].at = "code" => browser'[c].code \in 1..Len(codes')
               /\ browser'[c].at \in {"asked", "issuing"} => browser'[c].code \in 0..Len(codes')
               /\ browser'[c].at = "issuing" => browser'[c].seen <= Len(codes')
    <2>1. CASE c = b
      BY <1>0, <1>4, <1>5, <1>7, <2>1
    <2>2. CASE c # b
      <3>1. browser[c] \in Browsers
        BY DEF CodesOK, BrowsersOK
      <3> QED
        BY <1>0, <1>5, <1>7, <2>2, <3>1 DEF CodesOK, Browsers
    <2> QED
      BY <2>1, <2>2
  <1> QED
    BY <1>1, <1>5, <1>6, <1>7, <1>8, <1>9 DEF CodesOK, BrowsersOK

(* What a browser of the sign-in may become without a new code.            *)
LEMMA MovedBrowser ==
  ASSUME CodesOK, NEW b \in Clicks, UNCHANGED <<codes, time>>,
         \/ PassLock(b) \/ FailPassword(b) \/ SignOut(b) \/ PassPassword(b) \/ Resend(b)
         \/ BeginIssue(b) \/ AbandonIssue(b)
  PROVE  /\ CodesOK'
         /\ browser'[b].at # "in"
         /\ \A c \in Clicks \ {b} : browser'[c] = browser[c]
  <1>1. browser[b] \in Browsers /\ Len(codes) \in Nat /\ time \in Nat
    BY DEF CodesOK, BrowsersOK
  <1>2. PICK to \in Browsers :
          /\ browser' = [browser EXCEPT ![b] = to]
          /\ to.at # "in"
          /\ to.at = "code" => to.code \in 1..Len(codes)
          /\ to.at \in {"asked", "issuing"} => to.code \in 0..Len(codes)
          /\ to.at = "issuing" => to.seen <= Len(codes)
    <2>1. CASE PassLock(b)
      <3> DEFINE moved == [browser[b] EXCEPT !.at = "unlocked"]
      <3>1. moved \in Browsers /\ moved.at = "unlocked" /\ browser' = [browser EXCEPT ![b] = moved]
        BY <1>1, <2>1 DEF PassLock, Browsers, CodesOK, BrowsersOK
      <3> HIDE DEF moved
      <3> QED
        BY <3>1
    <2>2. CASE browser' = [browser EXCEPT ![b] = OffLine]
      <3>1. OffLine \in Browsers /\ OffLine.at = "off"
        BY DEF At, OffLine, Browsers
      <3> QED
        BY <2>2, <3>1
    <2>3. CASE PassPassword(b) /\ CooledDown
      <3> DEFINE moved == At("asked", 0)
      <3>1. moved \in Browsers /\ moved.at = "asked" /\ moved.code = 0
        BY DEF Browsers, At
      <3>2. browser' = [browser EXCEPT ![b] = moved]
        BY <2>3 DEF PassPassword
      <3> HIDE DEF moved
      <3>3. /\ browser' = [browser EXCEPT ![b] = moved]
            /\ moved.at # "in"
            /\ moved.at = "code" => moved.code \in 1..Len(codes)
            /\ moved.at \in {"asked", "issuing"} => moved.code \in 0..Len(codes)
            /\ moved.at = "issuing" => moved.seen <= Len(codes)
        BY <1>1, <3>1, <3>2
      <3> QED
        BY <3>1, <3>3
    <2>4. CASE Resend(b)
      <3> DEFINE moved == [browser[b] EXCEPT !.at = "asked"]
      <3>1. /\ moved \in Browsers /\ moved.at = "asked" /\ moved.code = browser[b].code
            /\ browser' = [browser EXCEPT ![b] = moved]
        BY <1>1, <2>4 DEF Resend, Browsers, CodesOK, BrowsersOK
      <3>2. browser[b].code \in 1..Len(codes)
        BY <2>4 DEF Resend, CodesOK
      <3> HIDE DEF moved
      <3>3. /\ browser' = [browser EXCEPT ![b] = moved]
            /\ moved.at # "in"
            /\ moved.at = "code" => moved.code \in 1..Len(codes)
            /\ moved.at \in {"asked", "issuing"} => moved.code \in 0..Len(codes)
            /\ moved.at = "issuing" => moved.seen <= Len(codes)
        BY <1>1, <3>1, <3>2
      <3> QED
        BY <3>1, <3>3
    <2>5. CASE BeginIssue(b)
      <3> DEFINE moved == [browser[b] EXCEPT !.at = "issuing", !.seen = Len(codes), !.since = time]
      <3>1. /\ moved \in Browsers /\ moved.at = "issuing" /\ moved.code = browser[b].code
            /\ moved.seen = Len(codes) /\ browser' = [browser EXCEPT ![b] = moved]
        BY <1>1, <2>5 DEF BeginIssue, Browsers, CodesOK, BrowsersOK
      <3>2. browser[b].code \in 0..Len(codes)
        BY <2>5 DEF BeginIssue, CodesOK
      <3> HIDE DEF moved
      <3>3. /\ browser' = [browser EXCEPT ![b] = moved]
            /\ moved.at # "in"
            /\ moved.at = "code" => moved.code \in 1..Len(codes)
            /\ moved.at \in {"asked", "issuing"} => moved.code \in 0..Len(codes)
            /\ moved.at = "issuing" => moved.seen <= Len(codes)
        BY <1>1, <3>1, <3>2
      <3> QED
        BY <3>1, <3>3
    <2>6. CASE AbandonIssue(b)
      <3> DEFINE step == IF browser[b].code = 0 THEN "off" ELSE "code"
                 moved == At(step, browser[b].code)
      <3>1. browser[b].code \in 0..Len(codes) /\ browser' = [browser EXCEPT ![b] = moved]
        BY <2>6 DEF AbandonIssue, CodesOK
      <3>2. /\ step \in {"off", "code"} /\ browser[b].code \in Nat
            /\ step = "code" => browser[b].code \in 1..Len(codes)
        BY <1>1, <3>1
      <3> HIDE DEF step
      <3>3. moved \in Browsers /\ moved.at = step /\ moved.code = browser[b].code
        BY <3>2 DEF Browsers, At
      <3> HIDE DEF moved
      <3>4. /\ browser' = [browser EXCEPT ![b] = moved]
            /\ moved.at # "in"
            /\ moved.at = "code" => moved.code \in 1..Len(codes)
            /\ moved.at \in {"asked", "issuing"} => moved.code \in 0..Len(codes)
            /\ moved.at = "issuing" => moved.seen <= Len(codes)
        BY <3>1, <3>2, <3>3
      <3> QED
        BY <3>3, <3>4
    <2> QED
      BY <2>1, <2>2, <2>3, <2>4, <2>5, <2>6 DEF FailPassword, SignOut, PassPassword
  <1>3. /\ browser' \in [Clicks -> Browsers] /\ browser'[b] = to
        /\ \A c \in Clicks \ {b} : browser'[c] = browser[c]
    BY <1>2 DEF CodesOK, BrowsersOK
  <1> QED
    BY <1>2, <1>3 DEF CodesOK, BrowsersOK

(* What entering a code does to it.                                        *)
LEMMA EnteredCode ==
  ASSUME CodesOK, NEW b \in Clicks, NEW right \in BOOLEAN, EnterCode(b, right), time' = time
  PROVE  CodesOK'
  <1> DEFINE n == browser[b].code
  <1>1. browser[b].at = "code" /\ n \in 1..Len(codes) /\ codes[n] \in Codes
    BY DEF EnterCode, CodesOK
  <1>2. \/ UNCHANGED browser
        \/ browser' = [browser EXCEPT ![b].at = "in"]
    BY DEF EnterCode
  <1>3. \/ codes' = [codes EXCEPT ![n] = Spent(codes[n])]
        \/ codes' = [codes EXCEPT ![n] = Missed(codes[n])] /\ ~codes[n].used
    BY DEF EnterCode, Usable
  <1>4. PICK c \in Codes : /\ codes' = [codes EXCEPT ![n] = c] /\ c.seen = codes[n].seen
                           /\ c.used \/ ~codes[n].used
    BY <1>1, <1>3, ChangedCode, Zenon
  <1> HIDE DEF n
  <1>5. /\ codes' \in Seq(Codes) /\ Len(codes') = Len(codes)
        /\ codes'[n] = c
        /\ \A i \in 1..Len(codes) : i # n => codes'[i] = codes[i]
    BY <1>1, <1>4 DEF CodesOK
  <1>6. \A i \in 1..Len(codes) : codes'[i].seen = codes[i].seen /\ (codes[i].used => codes'[i].used)
    BY <1>4, <1>5
  <1>7. /\ \A m \in 1..Len(codes') : codes'[m].seen < m
        /\ \A i, m \in 1..Len(codes') : i <= codes'[m].seen => codes'[i].used
    BY <1>5, <1>6 DEF CodesOK
  <1>8. /\ browser' \in [Clicks -> Browsers]
        /\ \A d \in Clicks : browser'[d].at # "in" => browser'[d] = browser[d]
    <2>1. browser[b] \in Browsers
      BY DEF CodesOK, BrowsersOK
    <2> QED
      BY <1>2, <2>1 DEF CodesOK, BrowsersOK, Browsers
  <1>9. ASSUME NEW d \in Clicks
        PROVE  /\ browser'[d].at = "code" => browser'[d].code \in 1..Len(codes')
               /\ browser'[d].at \in {"asked", "issuing"} => browser'[d].code \in 0..Len(codes')
               /\ browser'[d].at = "issuing" => browser'[d].seen <= Len(codes')
    BY <1>5, <1>8 DEF CodesOK
  <1> QED
    BY <1>5, <1>7, <1>8, <1>9 DEF CodesOK, BrowsersOK

(* A code is unused only as long as no issue that found it was committed,  *)
(* whichever browser asked for which.                                      *)
THEOREM FoundCodesAreVoid == AccountsSpec => []CodesOK
<1>1. AccountsInit => CodesOK
  BY DEF AccountsInit, CodesOK, BrowsersOK, Browsers, OffLine, At
<1>2. CodesOK /\ [AccountsNext]_accountsVars => CodesOK'
  <2> SUFFICES ASSUME CodesOK, [AccountsNext]_accountsVars PROVE CodesOK'
    OBVIOUS
  <2>1. CASE UNCHANGED <<codes, browser>> /\ (time' = time \/ time' = time + 1)
    BY <2>1 DEF CodesOK, BrowsersOK
  <2>2. ASSUME NEW b \in Clicks,
               \/ PassLock(b) \/ FailPassword(b) \/ SignOut(b) \/ PassPassword(b) \/ Resend(b)
               \/ BeginIssue(b) \/ AbandonIssue(b)
        PROVE  CodesOK'
    <3>1. UNCHANGED <<codes, time>>
      BY <2>2 DEF PassLock, FailPassword, SignOut, PassPassword, Resend, BeginIssue, AbandonIssue
    <3> QED
      BY <2>2, <3>1, MovedBrowser
  <2>3. ASSUME NEW b \in Clicks, CommitIssue(b)
        PROVE  CodesOK'
    BY <2>3, IssuedCode
  <2>4. ASSUME NEW b \in Clicks, time' = time, NEW right \in BOOLEAN, EnterCode(b, right)
        PROVE  CodesOK'
    BY <2>4, EnteredCode
  <2> QED
    BY <2>1, <2>2, <2>3, <2>4, CodeSteps
<1> QED
  BY <1>1, <1>2, PTL DEF AccountsSpec

(* The code signed in with was not replaced: one that the issue of another *)
(* found is used, in every browser that still shows its form.              *)
THEOREM ReplacedCodeIsDead == AccountsSpec => NoReplacedCodeSignsIn
<1>1. ASSUME CodesOK, [AccountsNext]_accountsVars, NEW b \in Clicks,
             browser[b].at = "code", browser'[b].at = "in", NEW m \in DOMAIN codes
      PROVE  codes[m].seen < browser[b].code
  <2>1. ASSUME NEW d \in Clicks,
               \/ PassLock(d) \/ FailPassword(d) \/ SignOut(d) \/ PassPassword(d) \/ Resend(d)
               \/ BeginIssue(d) \/ AbandonIssue(d)
        PROVE  FALSE
    <3>1. UNCHANGED <<codes, time>>
      BY <2>1 DEF PassLock, FailPassword, SignOut, PassPassword, Resend, BeginIssue, AbandonIssue
    <3> QED
      BY <1>1, <2>1, <3>1, MovedBrowser
  <2>2. ASSUME NEW d \in Clicks, CommitIssue(d)
        PROVE  FALSE
    <3>1. browser' = [browser EXCEPT ![d] = At("code", Len(codes) + 1)]
      BY <2>2 DEF CommitIssue
    <3>2. At("code", Len(codes) + 1).at = "code"
      BY DEF At
    <3> QED
      BY <1>1, <3>1, <3>2 DEF CodesOK, BrowsersOK
  <2>3. ASSUME NEW d \in Clicks, NEW right \in BOOLEAN, EnterCode(d, right)
        PROVE  codes[m].seen < browser[b].code
    <3>1. \/ UNCHANGED browser
          \/ /\ browser' = [browser EXCEPT ![d].at = "in"]
             /\ ~codes[browser[d].code].used
      BY <2>3 DEF EnterCode, Usable
    <3>2. d = b /\ ~codes[browser[b].code].used
      BY <1>1, <3>1 DEF CodesOK, BrowsersOK, Browsers
    <3>3. /\ DOMAIN codes = 1..Len(codes) /\ browser[b].code \in 1..Len(codes)
          /\ codes[m].seen \in Nat /\ browser[b].code \in Nat
      <4>1. codes[m] \in Codes /\ DOMAIN codes = 1..Len(codes)
        BY <1>1 DEF CodesOK
      <4> QED
        BY <1>1, <4>1 DEF CodesOK, Codes
    <3> QED
      BY <1>1, <3>2, <3>3 DEF CodesOK
  <2>4. CASE UNCHANGED browser
    BY <1>1, <2>4
  <2> QED
    BY <1>1, <2>1, <2>2, <2>3, <2>4, CodeSteps
<1>2. CodesOK /\ [AccountsNext]_accountsVars =>
        \A b \in Clicks : browser[b].at = "code" /\ browser'[b].at = "in" =>
                           \A m \in DOMAIN codes : codes[m].seen < browser[b].code
  BY <1>1
<1> QED
  BY <1>2, FoundCodesAreVoid, PTL DEF AccountsSpec, NoReplacedCodeSignsIn

-----------------------------------------------------------------------------
(* Passwords.  What is remembered is a window of what was used: the newest *)
(* HistoryLimit of the old ones, preceded by the present one once a change *)
(* finished.  A change that ended early is made up for by the next, unless  *)
(* that one ends before it remembers anything.                             *)

Secrets == Passwords \cup {Unset}

PasswordsOK ==
  /\ password \in [People -> Secrets]
  /\ history \in [People -> Seq(Secrets)]
  /\ noted \in [People -> BOOLEAN]
  /\ past \in [People -> Seq(Secrets)]
  /\ \A p \in People :
       /\ password[p] \notin ToSet(Newest(past[p]))
       /\ noted[p] => history[p] = Newest(<<password[p]>> \o past[p])
       /\ ~noted[p] => history[p] = Newest(past[p])
       /\ ~accounts[p].exists => past[p] = <<>> /\ history[p] = <<>>

(* The newest of a sequence are its first HistoryLimit.                    *)
LEMMA NewestFirst ==
  ASSUME NEW s \in Seq(Secrets)
  PROVE  /\ Newest(s) \in Seq(Secrets)
         /\ Len(Newest(s)) = IF Len(s) < HistoryLimit THEN Len(s) ELSE HistoryLimit
         /\ \A i \in 1..Len(Newest(s)) : Newest(s)[i] = s[i]
  <1> DEFINE n == IF Len(s) < HistoryLimit THEN Len(s) ELSE HistoryLimit
  <1>1. n \in Nat /\ n <= Len(s) /\ Len(s) \in Nat
    BY AccountsAssumption DEF AccountsAssumption
  <1>2. Newest(s) = SubSeq(s, 1, n)
    BY DEF Newest
  <1> HIDE DEF n
  <1>3. \A i \in 1..n : s[i] \in Secrets
    BY <1>1
  <1>4. /\ SubSeq(s, 1, n) \in Seq(Secrets)
        /\ Len(SubSeq(s, 1, n)) = IF 1 <= n THEN n - 1 + 1 ELSE 0
        /\ \A i \in 1..(n - 1 + 1) : SubSeq(s, 1, n)[i] = s[1 + i - 1]
    BY <1>1, <1>3, SubSeqProperties
  <1>5. Len(Newest(s)) = n
    BY <1>1, <1>2, <1>4
  <1>6. \A i \in 1..n : Newest(s)[i] = s[i]
    BY <1>1, <1>2, <1>4
  <1> QED
    BY <1>2, <1>4, <1>5, <1>6 DEF n

(* A password put before the newest of some is put before all of them.     *)
LEMMA NewestOfMore ==
  ASSUME NEW s \in Seq(Secrets), NEW x \in Secrets
  PROVE  /\ <<x>> \o s \in Seq(Secrets)
         /\ Newest(<<x>> \o Newest(s)) = Newest(<<x>> \o s)
         /\ Newest(Newest(s)) = Newest(s)
         /\ x \in ToSet(Newest(<<x>> \o s))
         /\ ToSet(Newest(<<x>> \o s)) \subseteq {x} \cup ToSet(Newest(s))
  <1> DEFINE long == <<x>> \o s
             short == <<x>> \o Newest(s)
  <1>1. HistoryLimit \in Nat \ {0} /\ Len(s) \in Nat
    BY AccountsAssumption DEF AccountsAssumption
  <1>2. /\ Newest(s) \in Seq(Secrets)
        /\ Len(Newest(s)) = IF Len(s) < HistoryLimit THEN Len(s) ELSE HistoryLimit
        /\ \A i \in 1..Len(Newest(s)) : Newest(s)[i] = s[i]
    BY NewestFirst
  <1>3. ASSUME NEW t \in Seq(Secrets)
        PROVE  /\ <<x>> \o t \in Seq(Secrets)
               /\ Len(<<x>> \o t) = 1 + Len(t)
               /\ \A i \in 1..(1 + Len(t)) : (<<x>> \o t)[i] = IF i <= 1 THEN x ELSE t[i - 1]
    <2>1. <<x>> \in Seq(Secrets) /\ Len(<<x>>) = 1 /\ <<x>>[1] = x
      OBVIOUS
    <2> QED
      BY <2>1, ConcatProperties
  <1>4. /\ long \in Seq(Secrets) /\ Len(long) = 1 + Len(s)
        /\ \A i \in 1..(1 + Len(s)) : long[i] = IF i <= 1 THEN x ELSE s[i - 1]
    BY <1>3
  <1>5. /\ short \in Seq(Secrets) /\ Len(short) = 1 + Len(Newest(s))
        /\ \A i \in 1..(1 + Len(Newest(s))) : short[i] = IF i <= 1 THEN x ELSE Newest(s)[i - 1]
    BY <1>2, <1>3
  <1> HIDE DEF long, short
  <1>6. /\ Newest(long) \in Seq(Secrets)
        /\ Len(Newest(long)) = IF Len(long) < HistoryLimit THEN Len(long) ELSE HistoryLimit
        /\ \A i \in 1..Len(Newest(long)) : Newest(long)[i] = long[i]
    BY <1>4, NewestFirst
  <1>7. /\ Newest(short) \in Seq(Secrets)
        /\ Len(Newest(short)) = IF Len(short) < HistoryLimit THEN Len(short) ELSE HistoryLimit
        /\ \A i \in 1..Len(Newest(short)) : Newest(short)[i] = short[i]
    BY <1>5, NewestFirst
  <1>8. Newest(short) = Newest(long)
    <2>1. Len(Newest(short)) = Len(Newest(long))
      BY <1>1, <1>2, <1>4, <1>5, <1>6, <1>7
    <2>2. ASSUME NEW i \in 1..Len(Newest(short))
          PROVE  Newest(short)[i] = Newest(long)[i]
      <3>1. i \in Nat /\ 1 <= i /\ i <= HistoryLimit /\ i <= 1 + Len(s) /\ i <= 1 + Len(Newest(s))
        BY <1>1, <1>2, <1>4, <1>5, <1>6, <1>7
      <3>2. Newest(short)[i] = short[i] /\ Newest(long)[i] = long[i]
        BY <1>6, <1>7, <2>1
      <3>3. CASE i <= 1
        BY <1>4, <1>5, <3>1, <3>2, <3>3
      <3>4. CASE ~(i <= 1)
        <4>1. i - 1 \in 1..Len(Newest(s))
          BY <1>2, <3>1, <3>4
        <4> QED
          BY <1>2, <1>4, <1>5, <3>1, <3>2, <3>4, <4>1
      <3> QED
        BY <3>3, <3>4
    <2> QED
      BY <1>6, <1>7, <2>1, <2>2, SeqEqual
  <1>9. Newest(Newest(s)) = Newest(s)
    <2>1. /\ Newest(Newest(s)) \in Seq(Secrets)
          /\ Len(Newest(Newest(s))) =
               IF Len(Newest(s)) < HistoryLimit THEN Len(Newest(s)) ELSE HistoryLimit
          /\ \A i \in 1..Len(Newest(Newest(s))) : Newest(Newest(s))[i] = Newest(s)[i]
      BY <1>2, NewestFirst
    <2>2. Len(Newest(Newest(s))) = Len(Newest(s))
      BY <1>1, <1>2, <2>1
    <2> QED
      BY <1>2, <2>1, <2>2, SeqEqual
  <1>10. x \in ToSet(Newest(long))
    <2>1. 1 \in 1..Len(Newest(long))
      BY <1>1, <1>4, <1>6
    <2>2. Newest(long)[1] = x
      BY <1>1, <1>4, <1>6, <2>1
    <2>3. DOMAIN Newest(long) = 1..Len(Newest(long))
      BY <1>6
    <2> QED
      BY <2>1, <2>2, <2>3 DEF ToSet
  <1>11. ToSet(Newest(long)) \subseteq {x} \cup ToSet(Newest(s))
    <2> SUFFICES ASSUME NEW i \in DOMAIN Newest(long), Newest(long)[i] # x
                 PROVE  Newest(long)[i] \in ToSet(Newest(s))
      BY DEF ToSet
    <2>1. i \in 1..Len(Newest(long))
      BY <1>6
    <2>2. i \in Nat /\ ~(i <= 1) /\ i <= HistoryLimit /\ i <= 1 + Len(s)
          /\ Newest(long)[i] = s[i - 1]
      BY <1>1, <1>4, <1>6, <2>1
    <2>3. i - 1 \in 1..Len(Newest(s))
      BY <1>1, <1>2, <2>2
    <2>4. Newest(long)[i] = Newest(s)[i - 1] /\ i - 1 \in DOMAIN Newest(s)
      BY <1>2, <2>2, <2>3
    <2> QED
      BY <2>4 DEF ToSet
  <1> QED
    BY <1>4, <1>8, <1>9, <1>10, <1>11 DEF long, short

(* A change leaves the newest old passwords remembered, wherever it ended,  *)
(* whether the one before it was remembered in time or not, and the new one *)
(* is not among them.                                                       *)
LEMMA ChangedPassword ==
  ASSUME PasswordsOK, NEW p \in People, NEW w \in Passwords, NEW got \in {"saved", "old", "both"},
         SetPassword(p, w, got)
  PROVE  /\ password' = [password EXCEPT ![p] = w]
         /\ past' \in [People -> Seq(Secrets)] /\ history' \in [People -> Seq(Secrets)]
         /\ noted' \in [People -> BOOLEAN]
         /\ \A q \in People \ {p} : past'[q] = past[q] /\ history'[q] = history[q] /\ noted'[q] = noted[q]
         /\ w \notin ToSet(Newest(past'[p]))
         /\ noted'[p] => history'[p] = Newest(<<w>> \o past'[p])
         /\ ~noted'[p] => history'[p] = Newest(past'[p])
         /\ accounts' = accounts /\ accounts[p].exists
  <1> DEFINE now == password[p]
             before == past[p]
             kept == history[p]
             known == noted[p]
             all == <<now>> \o before
             after == IF known \/ got # "saved" THEN all ELSE before
             old == Remembered(kept, now)
             new == CASE got = "saved" -> kept
                      [] got = "old" -> old
                      [] got = "both" -> Remembered(old, w)
  <1>1. /\ now \in Secrets /\ before \in Seq(Secrets) /\ kept \in Seq(Secrets) /\ w \in Secrets
        /\ now \notin ToSet(Newest(before))
        /\ known \in BOOLEAN
        /\ known => kept = Newest(all)
        /\ ~known => kept = Newest(before)
    BY DEF PasswordsOK, Secrets
  <1>2. /\ w # now /\ w \notin ToSet(Newest(kept))
        /\ password' = [password EXCEPT ![p] = w]
        /\ past' = [past EXCEPT ![p] = after]
        /\ history' = [history EXCEPT ![p] = new]
        /\ noted' = [noted EXCEPT ![p] = got = "both"]
        /\ accounts' = accounts /\ accounts[p].exists
    BY DEF SetPassword, Reuses
  <1> HIDE DEF now, before, kept, known, new
  <1>3. /\ all \in Seq(Secrets)
        /\ Newest(<<now>> \o Newest(before)) = Newest(all)
        /\ Newest(Newest(before)) = Newest(before)
        /\ now \in ToSet(Newest(all))
        /\ ToSet(Newest(all)) \subseteq {now} \cup ToSet(Newest(before))
    BY <1>1, NewestOfMore
  <1>4. Newest(all) \in Seq(Secrets) /\ Newest(Newest(all)) = Newest(all)
        /\ <<w>> \o all \in Seq(Secrets)
        /\ Newest(<<w>> \o Newest(all)) = Newest(<<w>> \o all)
    BY <1>1, <1>3, NewestFirst, NewestOfMore
  <1> HIDE DEF all
  <1>5. old = Newest(all)
    <2>1. CASE ~known
      BY <1>1, <1>3, <2>1 DEF Remembered
    <2>2. CASE known
      BY <1>1, <1>3, <2>2 DEF Remembered
    <2> QED
      BY <1>1, <2>1, <2>2
  <1>6. w \notin ToSet(Newest(all))
    <2>1. CASE ~known
      BY <1>1, <1>2, <1>3, <2>1
    <2>2. CASE known
      BY <1>1, <1>2, <1>4, <2>2
    <2> QED
      BY <1>1, <2>1, <2>2
  <1>7. /\ Remembered(old, w) = Newest(<<w>> \o all)
        /\ Newest(<<w>> \o all) \in Seq(Secrets)
    BY <1>4, <1>5, <1>6, NewestFirst DEF Remembered
  <1> HIDE DEF old
  <1>8. /\ after \in Seq(Secrets) /\ new \in Seq(Secrets) /\ w \notin ToSet(Newest(after))
        /\ got = "both" => new = Newest(<<w>> \o after)
        /\ got # "both" => new = Newest(after)
    <2>1. CASE got = "saved" /\ ~known
      BY <1>1, <1>2, <1>3, <2>1 DEF new
    <2>2. CASE got = "saved" /\ known
      BY <1>1, <1>3, <1>6, <2>2 DEF new
    <2>3. CASE got = "old"
      BY <1>3, <1>4, <1>5, <1>6, <2>3 DEF new
    <2>4. CASE got = "both"
      BY <1>3, <1>6, <1>7, <2>4 DEF new
    <2> QED
      BY <1>1, <2>1, <2>2, <2>3, <2>4
  <1> HIDE DEF after
  <1>9. /\ past'[p] = after /\ past' \in [People -> Seq(Secrets)]
        /\ \A q \in People \ {p} : past'[q] = past[q]
        /\ history'[p] = new /\ history' \in [People -> Seq(Secrets)]
        /\ \A q \in People \ {p} : history'[q] = history[q]
    BY <1>2, <1>8 DEF PasswordsOK
  <1>10. /\ noted'[p] = (got = "both") /\ noted' \in [People -> BOOLEAN]
         /\ \A q \in People \ {p} : noted'[q] = noted[q]
    BY <1>2 DEF PasswordsOK
  <1> QED
    BY <1>2, <1>8, <1>9, <1>10

(* Passwords change when an account is created or its password is set, and *)
(* no account ceases to exist.                                             *)
LEMMA SecretSteps ==
  ASSUME AccountsOK, [AccountsNext]_accountsVars
  PROVE  \/ \E p \in People, e \in Emails, admin \in BOOLEAN,
               temporary \in Passwords \cup {Unset}, got \in {"saved", "both"} :
                 CreateAccount(p, e, admin, temporary, got)
         \/ \E p \in People, w \in Passwords, got \in {"saved", "old", "both"} : SetPassword(p, w, got)
         \/ UNCHANGED secrets /\ \A q \in People : accounts[q].exists => accounts'[q].exists
<1>1. CASE Tick \/ Unlock \/ UNCHANGED accountsVars
  BY <1>1 DEF Tick, Unlock, accountsVars
<1>2. ASSUME NEW b \in Clicks,
             \/ PassLock(b) \/ FailPassword(b) \/ PassPassword(b) \/ Resend(b) \/ SignOut(b)
             \/ BeginIssue(b) \/ CommitIssue(b) \/ AbandonIssue(b)
             \/ \E right \in BOOLEAN : EnterCode(b, right)
      PROVE  UNCHANGED secrets /\ accounts' = accounts
  BY <1>2 DEF PassLock, FailPassword, PassPassword, Resend, SignOut, EnterCode,
                  BeginIssue, CommitIssue, AbandonIssue
<1>3. ASSUME NEW p \in People, NEW e \in Emails, NEW admin \in BOOLEAN, NEW a \in People,
             NEW active \in BOOLEAN, NEW delivered \in BOOLEAN,
             UpdateAccount(a, p, e, admin, active, delivered)
      PROVE  UNCHANGED secrets /\ \A q \in People : accounts[q].exists => accounts'[q].exists
  BY <1>3 DEF UpdateAccount, AccountsOK, AccountRows
<1>4. ASSUME NEW a \in People, NEW p \in People, ToggleActive(a, p)
      PROVE  UNCHANGED secrets /\ \A q \in People : accounts[q].exists => accounts'[q].exists
  BY <1>4 DEF ToggleActive, AccountsOK, AccountRows
<1>5. ASSUME NEW r \in requests, ConfirmEmail(r) \/ RequestExpires(r)
      PROVE  UNCHANGED secrets /\ \A q \in People : accounts[q].exists => accounts'[q].exists
  BY <1>5 DEF ConfirmEmail, RequestExpires, AccountsOK, AccountRows
<1> QED
  BY <1>1, <1>2, <1>3, <1>4, <1>5 DEF AccountsNext

LEMMA NothingNewest ==
  HistoryLimit \in Nat \ {0} /\ <<>> \in Seq(Secrets) /\ Newest(<<>>) = <<>> /\ ToSet(<<>>) = {}
  <1>1. HistoryLimit \in Nat \ {0}
    BY AccountsAssumption DEF AccountsAssumption
  <1>2. <<>> \in Seq(Secrets) /\ Len(<<>>) = 0
    OBVIOUS
  <1>3. Newest(<<>>) \in Seq(Secrets)
        /\ Len(Newest(<<>>)) = IF Len(<<>>) < HistoryLimit THEN Len(<<>>) ELSE HistoryLimit
    BY <1>2, NewestFirst
  <1>4. Len(Newest(<<>>)) = 0
    BY <1>1, <1>2, <1>3
  <1>5. Newest(<<>>) = <<>>
    BY <1>3, <1>4, EmptySeq
  <1>6. ToSet(<<>>) = {}
    BY DEF ToSet
  <1> QED
    BY <1>1, <1>2, <1>5, <1>6

(* What is remembered stays a window of what was used.                     *)
THEOREM HistoryFollowsUse == AccountsSpec => []PasswordsOK
<1>0. HistoryLimit \in Nat \ {0} /\ <<>> \in Seq(Secrets) /\ Newest(<<>>) = <<>> /\ ToSet(<<>>) = {}
  BY NothingNewest
<1>1. AccountsInit => PasswordsOK
  BY <1>0 DEF AccountsInit, PasswordsOK, Secrets
<1>2. AccountsOK /\ PasswordsOK /\ [AccountsNext]_accountsVars => PasswordsOK'
  <2> SUFFICES ASSUME AccountsOK, PasswordsOK, [AccountsNext]_accountsVars PROVE PasswordsOK'
    OBVIOUS
  <2>1. ASSUME NEW p \in People, NEW e \in Emails, NEW admin \in BOOLEAN,
               NEW temporary \in Passwords \cup {Unset}, NEW got \in {"saved", "both"},
                CreateAccount(p, e, admin, temporary, got)
        PROVE  PasswordsOK'
    <3> DEFINE kept == got = "both" /\ temporary # Unset
               first == IF kept THEN Remembered(history[p], temporary) ELSE history[p]
    <3>1. /\ accounts' \in [People -> AccountRows] /\ ~accounts[p].exists /\ accounts'[p].exists
          /\ \A q \in People \ {p} : accounts'[q] = accounts[q]
      BY <2>1, CreatedAccount
    <3>2. /\ password' = [password EXCEPT ![p] = temporary]
          /\ history' = [history EXCEPT ![p] = first]
          /\ noted' = [noted EXCEPT ![p] = kept]
          /\ past' = past
      BY <2>1 DEF CreateAccount
    <3>3. past[p] = <<>> /\ history[p] = <<>> /\ temporary \in Secrets
      BY <2>1, <3>1 DEF PasswordsOK, Secrets
    <3>4. <<temporary>> \o <<>> \in Seq(Secrets)
      BY <1>0, <3>3, NewestOfMore
    <3>5. /\ first \in Seq(Secrets) /\ kept \in BOOLEAN
          /\ kept => first = Newest(<<temporary>> \o <<>>)
          /\ ~kept => first = Newest(<<>>)
      BY <1>0, <3>3, <3>4, NewestFirst DEF Remembered
    <3> HIDE DEF first, kept
    <3>6. /\ password' \in [People -> Secrets] /\ history' \in [People -> Seq(Secrets)]
          /\ past' \in [People -> Seq(Secrets)] /\ noted' \in [People -> BOOLEAN]
          /\ password'[p] = temporary /\ history'[p] = first /\ past'[p] = <<>> /\ noted'[p] = kept
          /\ \A q \in People \ {p} : password'[q] = password[q] /\ history'[q] = history[q]
                                     /\ past'[q] = past[q] /\ noted'[q] = noted[q]
      BY <3>2, <3>3, <3>5 DEF PasswordsOK
    <3>7. ASSUME NEW q \in People
          PROVE  /\ password'[q] \notin ToSet(Newest(past'[q]))
                 /\ noted'[q] => history'[q] = Newest(<<password'[q]>> \o past'[q])
                 /\ ~noted'[q] => history'[q] = Newest(past'[q])
                 /\ ~accounts'[q].exists => past'[q] = <<>> /\ history'[q] = <<>>
      <4>1. CASE q = p
        BY <1>0, <3>1, <3>5, <3>6, <4>1
      <4>2. CASE q # p
        BY <3>1, <3>6, <4>2 DEF PasswordsOK
      <4> QED
        BY <4>1, <4>2
    <3> QED
      BY <3>6, <3>7 DEF PasswordsOK
  <2>2. ASSUME NEW p \in People, NEW w \in Passwords, NEW got \in {"saved", "old", "both"},
               SetPassword(p, w, got)
        PROVE  PasswordsOK'
    <3>1. /\ password' = [password EXCEPT ![p] = w]
          /\ past' \in [People -> Seq(Secrets)] /\ history' \in [People -> Seq(Secrets)]
          /\ noted' \in [People -> BOOLEAN]
          /\ \A q \in People \ {p} : past'[q] = past[q] /\ history'[q] = history[q] /\ noted'[q] = noted[q]
          /\ w \notin ToSet(Newest(past'[p]))
          /\ noted'[p] => history'[p] = Newest(<<w>> \o past'[p])
          /\ ~noted'[p] => history'[p] = Newest(past'[p])
          /\ accounts' = accounts /\ accounts[p].exists
      BY <2>2, ChangedPassword
    <3>2. /\ password' \in [People -> Secrets] /\ password'[p] = w
          /\ \A q \in People \ {p} : password'[q] = password[q]
      BY <3>1 DEF PasswordsOK, Secrets
    <3>3. ASSUME NEW q \in People
          PROVE  /\ password'[q] \notin ToSet(Newest(past'[q]))
                 /\ noted'[q] => history'[q] = Newest(<<password'[q]>> \o past'[q])
                 /\ ~noted'[q] => history'[q] = Newest(past'[q])
                 /\ ~accounts'[q].exists => past'[q] = <<>> /\ history'[q] = <<>>
      <4>1. CASE q = p
        BY <3>1, <3>2, <4>1
      <4>2. CASE q # p
        BY <3>1, <3>2, <4>2 DEF PasswordsOK
      <4> QED
        BY <4>1, <4>2
    <3> QED
      BY <3>1, <3>2, <3>3 DEF PasswordsOK
  <2>3. ASSUME UNCHANGED secrets, \A q \in People : accounts[q].exists => accounts'[q].exists
        PROVE  PasswordsOK'
    BY <2>3 DEF secrets, PasswordsOK
  <2> QED
    BY <2>1, <2>2, <2>3, SecretSteps
<1> QED
  BY <1>1, <1>2, AccountsInvariant, PTL DEF AccountsSpec

(* A new password differs from the last HistoryLimit the account had: what *)
(* the change compares it with is the present one and the newest that are  *)
(* remembered, and those are the newest that were used, but for one whose  *)
(* own change and the next both ended before remembering it.               *)
THEOREM NoRecentPasswordAgain == AccountsSpec => RecentPasswordsDiffer
<1>1. ASSUME AccountsOK, PasswordsOK, [AccountsNext]_accountsVars, NEW p \in People,
             past'[p] # past[p] \/ password'[p] # password[p]
      PROVE  password'[p] \notin ToSet(Newest(past'[p]))
  <2>1. ASSUME NEW q \in People, NEW w \in Passwords, NEW got \in {"saved", "old", "both"},
               SetPassword(q, w, got)
        PROVE  password'[p] \notin ToSet(Newest(past'[p]))
    <3>1. /\ password' = [password EXCEPT ![q] = w]
          /\ past' \in [People -> Seq(Secrets)] /\ history' \in [People -> Seq(Secrets)]
          /\ noted' \in [People -> BOOLEAN]
          /\ \A r \in People \ {q} : past'[r] = past[r] /\ history'[r] = history[r] /\ noted'[r] = noted[r]
          /\ w \notin ToSet(Newest(past'[q]))
          /\ noted'[q] => history'[q] = Newest(<<w>> \o past'[q])
          /\ ~noted'[q] => history'[q] = Newest(past'[q])
          /\ accounts' = accounts /\ accounts[q].exists
      BY <1>1, <2>1, ChangedPassword
    <3>2. p = q
      BY <1>1, <3>1 DEF PasswordsOK
    <3>3. password'[p] = w
      BY <1>1, <3>1, <3>2 DEF PasswordsOK
    <3> QED
      BY <3>1, <3>2, <3>3
  <2>2. ASSUME NEW q \in People, NEW e \in Emails, NEW admin \in BOOLEAN,
               NEW temporary \in Passwords \cup {Unset}, NEW got \in {"saved", "both"},
               CreateAccount(q, e, admin, temporary, got)
        PROVE  password'[p] \notin ToSet(Newest(past'[p]))
    <3>1. past' = past /\ ~accounts[q].exists /\ password' = [password EXCEPT ![q] = temporary]
      BY <2>2 DEF CreateAccount
    <3>2. p = q
      BY <1>1, <3>1 DEF PasswordsOK
    <3>3. past'[p] = <<>>
      BY <1>1, <3>1, <3>2 DEF PasswordsOK
    <3> QED
      BY <3>3, NothingNewest
  <2>3. UNCHANGED secrets => past' = past /\ password' = password
    BY DEF secrets
  <2> QED
    BY <1>1, <2>1, <2>2, <2>3, SecretSteps
<1>2. AccountsOK /\ PasswordsOK /\ [AccountsNext]_accountsVars =>
        \A p \in People : past'[p] # past[p] \/ password'[p] # password[p] =>
          password'[p] \notin ToSet(Newest(past'[p]))
  BY <1>1
<1> QED
  BY <1>2, AccountsInvariant, HistoryFollowsUse, PTL DEF AccountsSpec, RecentPasswordsDiffer
================================================================================
