--------------------------------- MODULE Notices --------------------------------
(***************************************************************************)
(* What one applicant is told, and what the office believes the applicant  *)
(* was told.  An office action writes a row of the notification log inside *)
(* its transaction and the email leaves after the commit, in the same      *)
(* request and once: nothing retries it but an office user who sends the   *)
(* row again.  The exam and interview schedules the emails speak of, the   *)
(* applicant's status page, and the daily run that reminds of a deadline   *)
(* for returned documents are modelled with them.                          *)
(***************************************************************************)
EXTENDS Naturals, Sequences, FiniteSets

CONSTANTS
  Places,        \* venues
  Clicks,        \* requests to send a row again that are handled at once
  Runs,          \* runs of the reminder command that may overlap
  MaxNotices,    \* bound on the log
  MaxDay,        \* bound on the clock
  MaxExcused,    \* bound on the overlaps and kills that cost a deadline a reminder
  DaysAllowed,   \* days an applicant gets for returned documents (14 in the code)
  DueWithin,     \* days before a deadline within which it is reminded of (2)
  None

ASSUME NoticesAssumption ==
  /\ IsFiniteSet(Runs) /\ MaxExcused \in Nat
  /\ MaxNotices \in Nat \ {0} /\ MaxDay \in Nat \ {0} /\ DueWithin \in Nat
  /\ DaysAllowed \in Nat /\ DueWithin < DaysAllowed

VARIABLES
  day,          \* today
  status,       \* where the application stands
  exam,         \* the exam schedule of the case
  interview,    \* its interview session
  issued,       \* the last schedule of each the applicant was given notice of
  log,          \* the notification log, oldest row first
  clicks,       \* the row each "send again" request holds locked
  returned,     \* the deadline for returned documents, and its reminder stamp
  run,          \* what each run of the reminder command holds
  reminders,    \* how many reminders each deadline got
  excused       \* history: how often a run read a deadline that another was
                \* busy with, or was killed between its email and its stamp

office == <<status, exam, interview, issued>>
daily == <<returned, run, reminders, excused>>
vars == <<day, office, log, clicks, daily>>

--------------------------------------------------------------------------------
(* The records *)

Days == 1..MaxDay

Unscheduled == [on |-> 0, at |-> None, notified |-> FALSE]

Schedules ==
  {Unscheduled} \cup [on : Days, at : Places, notified : BOOLEAN]

Appointment(s) == <<s.on, s.at>>

Outcomes == {"approved", "rejected", "withdrawn", "cancelled"}

Letter ==
  [approved |-> "selected", rejected |-> "not selected",
   withdrawn |-> "withdrawal received", cancelled |-> "vacancy cancelled"]

Letters == {Letter[o] : o \in Outcomes}

Rows ==
  [kind : {"exam", "interview", "request", "checklist"} \cup Letters,
   on : 0..MaxDay,                                \* the date the email gives
   state : {"pending", "sent", "failed"},
   copyOf : 0..MaxNotices,
   recent : BOOLEAN]                              \* a copy of the last minute

Holding == [step : {"idle", "read", "mailed"}, due : 0..MaxDay]

Idle == [step |-> "idle", due |-> 0]

NotReturned == [due |-> 0, stamped |-> FALSE]

TypeOK ==
  /\ day \in Days
  /\ status \in {"applied"} \cup Outcomes
  /\ exam \in Schedules /\ interview \in Schedules
  /\ issued \in [{"exam", "interview"} -> (Days \X Places) \cup {<<0, None>>}]
  /\ log \in Seq(Rows) /\ Len(log) <= MaxNotices
  /\ clicks \in [Clicks -> 0..MaxNotices]
  /\ returned \in [due : 0..MaxDay, stamped : BOOLEAN]
  /\ run \in [Runs -> Holding]
  /\ reminders \in [Days -> Nat]
  /\ excused \in [Days -> Nat]

Init ==
  /\ day = 1
  /\ status = "applied"
  /\ exam = Unscheduled /\ interview = Unscheduled
  /\ issued = [e \in {"exam", "interview"} |-> <<0, None>>]
  /\ log = <<>>
  /\ clicks = [r \in Clicks |-> 0]
  /\ returned = NotReturned
  /\ run = [r \in Runs |-> Idle]
  /\ reminders = [d \in Days |-> 0]
  /\ excused = [d \in Days |-> 0]

--------------------------------------------------------------------------------
(* The log *)

Row(kind, on, source) ==
  [kind |-> kind, on |-> on, state |-> "pending", copyOf |-> source,
   recent |-> source # 0]

Queue(kind, on) ==
  /\ Len(log) < MaxNotices
  /\ log' = Append(log, Row(kind, on, 0))

Deliver(i) ==
  /\ log[i].state = "pending"
  /\ \E outcome \in {"sent", "failed"} : log' = [log EXCEPT ![i].state = outcome]
  /\ UNCHANGED <<day, office, clicks, daily>>

--------------------------------------------------------------------------------
(* Schedules *)

Past(s) == s.on < day

MaySave(old, on) == on >= day \/ (old # Unscheduled /\ old.on = on)

FaultyChangeNeedsNotice(old, on, at) == old.on # on
ChangeNeedsNotice(old, on, at) == Appointment(old) # <<on, at>>

SaveExam(on, at, byHand) ==
  /\ status = "applied"
  /\ MaySave(exam, on)
  /\ LET notify == ChangeNeedsNotice(exam, on, at)
     IN /\ exam' = [on |-> on, at |-> at, notified |-> exam.notified \/ notify]
        /\ issued' = IF notify THEN [issued EXCEPT !["exam"] = <<on, at>>] ELSE issued
        /\ IF notify /\ ~byHand THEN Queue("exam", on) ELSE UNCHANGED log
  /\ UNCHANGED <<day, status, interview, clicks, daily>>

SaveInterview(on, at, notify) ==
  /\ status = "applied"
  /\ MaySave(interview, on)
  /\ interview' = [on |-> on, at |-> at, notified |-> interview.notified \/ notify]
  /\ issued' = IF notify THEN [issued EXCEPT !["interview"] = <<on, at>>] ELSE issued
  /\ IF notify THEN Queue("interview", on) ELSE UNCHANGED log
  /\ UNCHANGED <<day, status, exam, clicks, daily>>

(* The application ends, or is approved, with its letter; the hard-copy      *)
(* checklist of the completion follows an approval.                         *)
End(outcome) ==
  /\ status = "applied"
  /\ status' = outcome
  /\ returned' = [returned EXCEPT !.due = 0]
  /\ Queue(Letter[outcome], 0)
  /\ UNCHANGED <<day, exam, interview, issued, clicks, run, reminders, excused>>

SendChecklist ==
  /\ status = "approved"
  /\ Queue("checklist", 0)
  /\ UNCHANGED <<day, office, clicks, daily>>

(* The schedule the applicant's status page shows as coming up. *)
Upcoming(s) == s.notified /\ ~Past(s)

--------------------------------------------------------------------------------
(* Sending a row again *)

ScheduleHasPassed(i) == log[i].kind \in {"exam", "interview"} /\ log[i].on < day

FaultyRowIsFree(i) == TRUE
RowIsFree(i) == \A r \in Clicks : clicks[r] # i

JustSentAgain(i) == \E j \in DOMAIN log : log[j].copyOf = i /\ log[j].recent

(* The request locks the row, and only then looks for a recent copy. *)
SendAgain(r, i) ==
  /\ clicks[r] = 0
  /\ ~ScheduleHasPassed(i)
  /\ RowIsFree(i)
  /\ ~JustSentAgain(i)
  /\ Len(log) < MaxNotices
  /\ clicks' = [clicks EXCEPT ![r] = i]
  /\ UNCHANGED <<day, office, log, daily>>

CommitCopy(r) ==
  /\ clicks[r] # 0
  /\ Len(log) < MaxNotices
  /\ log' = Append(log, Row(log[clicks[r]].kind, log[clicks[r]].on, clicks[r]))
  /\ clicks' = [clicks EXCEPT ![r] = 0]
  /\ UNCHANGED <<day, office, daily>>

--------------------------------------------------------------------------------
(* Returned documents and the daily reminder *)

ReturnDocuments ==
  /\ status = "applied" /\ returned.due = 0 /\ day + DaysAllowed <= MaxDay
  /\ returned' = [due |-> day + DaysAllowed, stamped |-> FALSE]
  /\ Queue("request", day + DaysAllowed)
  /\ UNCHANGED <<day, office, clicks, run, reminders, excused>>

ExtendDeadline(due) ==
  /\ returned.due # 0 /\ due >= day /\ due > returned.due
  /\ returned' = [due |-> due, stamped |-> FALSE]
  /\ Queue("request", due)
  /\ UNCHANGED <<day, office, clicks, run, reminders, excused>>

(* The documents come back, or the office stops waiting for them. *)
StopWaiting ==
  /\ returned.due # 0
  /\ returned' = [returned EXCEPT !.due = 0]
  /\ UNCHANGED <<day, office, log, clicks, run, reminders, excused>>

IsDue ==
  /\ returned.due # 0 /\ ~returned.stamped
  /\ day <= returned.due /\ returned.due <= day + DueWithin

(* A run looks for the deadlines that are due, mails one and only then      *)
(* stamps it; nothing keeps two runs apart, and none looks again before it   *)
(* mails.                                                                   *)
BusyWith(d) == {r \in Runs : run[r].step # "idle" /\ run[r].due = d}

RunReminders(r) ==
  /\ run[r].step = "idle" /\ IsDue
  /\ run' = [run EXCEPT ![r] = [step |-> "read", due |-> returned.due]]
  /\ IF BusyWith(returned.due) = {}
     THEN UNCHANGED excused
     ELSE /\ excused[returned.due] < MaxExcused
          /\ excused' = [excused EXCEPT ![returned.due] = @ + 1]
  /\ UNCHANGED <<day, office, log, clicks, returned, reminders>>

(* The email carries the deadline the run read.  When the mail server       *)
(* refuses it the deadline keeps its reminder for the next run.             *)
MailReminder(r) ==
  /\ run[r].step = "read"
  /\ \/ /\ run' = [run EXCEPT ![r].step = "mailed"]
        /\ reminders' = [reminders EXCEPT ![run[r].due] = @ + 1]
     \/ /\ run' = [run EXCEPT ![r] = Idle]
        /\ UNCHANGED reminders
  /\ UNCHANGED <<day, office, log, clicks, returned, excused>>

FaultyStamped == returned
Stamped == [returned EXCEPT !.stamped = TRUE]

StampReminder(r) ==
  /\ run[r].step = "mailed"
  /\ returned' = Stamped
  /\ run' = [run EXCEPT ![r] = Idle]
  /\ UNCHANGED <<day, office, log, clicks, reminders, excused>>

KillRun(r) ==
  /\ run[r].step # "idle"
  /\ IF run[r].step = "read"
     THEN UNCHANGED excused
     ELSE /\ excused[run[r].due] < MaxExcused
          /\ excused' = [excused EXCEPT ![run[r].due] = @ + 1]
  /\ run' = [run EXCEPT ![r] = Idle]
  /\ UNCHANGED <<day, office, log, clicks, returned, reminders>>

--------------------------------------------------------------------------------
(* Time *)

MinutePasses ==
  /\ \E i \in DOMAIN log : log[i].recent
  /\ log' = [i \in DOMAIN log |-> [log[i] EXCEPT !.recent = FALSE]]
  /\ UNCHANGED <<day, office, clicks, daily>>

DayPasses ==
  /\ day < MaxDay
  /\ day' = day + 1
  /\ log' = [i \in DOMAIN log |-> [log[i] EXCEPT !.recent = FALSE]]
  /\ UNCHANGED <<office, clicks, daily>>

Next ==
  \/ \E on \in Days, at \in Places, b \in BOOLEAN :
       SaveExam(on, at, b) \/ SaveInterview(on, at, b)
  \/ ReturnDocuments \/ \E due \in Days : ExtendDeadline(due)
  \/ \E i \in DOMAIN log : Deliver(i)
  \/ \E r \in Clicks : CommitCopy(r) \/ \E i \in DOMAIN log : SendAgain(r, i)
  \/ \E o \in Outcomes : End(o)
  \/ SendChecklist \/ StopWaiting
  \/ \E r \in Runs : RunReminders(r) \/ MailReminder(r) \/ StampReminder(r) \/ KillRun(r)
  \/ MinutePasses \/ DayPasses

Spec == Init /\ [][Next]_vars

--------------------------------------------------------------------------------
(* Properties *)

(* The applicant's portal shows an exam date only when a notice with that    *)
(* date and place was issued: a date moved, or its venue changed, never       *)
(* reaches the portal before its notice.                                      *)
ExamShownWasIssued == Upcoming(exam) => issued["exam"] = Appointment(exam)

(* A notice that failed or got lost is sent again once, however often and     *)
(* from however many pages it is asked for within a minute.                   *)
OneCopyAMinute ==
  \A i \in DOMAIN log :
    Cardinality({j \in DOMAIN log : log[j].copyOf = i /\ log[j].recent}) <= 1

(* A deadline is reminded of once, however often the command runs and        *)
(* whatever is extended meanwhile.  Each run that read the deadline while     *)
(* another was at it, and each one killed between its email and its stamp,    *)
(* may cost one more reminder, and nothing else does.                         *)
RemindedOnce == \A d \in Days : reminders[d] <= 1 + excused[d]
================================================================================
