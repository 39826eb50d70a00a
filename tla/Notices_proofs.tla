------------------------------ MODULE Notices_proofs -----------------------------
(***************************************************************************)
(* Proofs about what an applicant is told, for any number of venues,       *)
(* requests, notices and days.                                             *)
(*                                                                         *)
(* The log is kept by three facts: a row copies an earlier one, requests   *)
(* hold different rows, and a row that is held has no recent copy.  The    *)
(* reminder is kept by counting, for each deadline, the reminders sent and  *)
(* the runs about to send one against the ones excused, and by a deadline   *)
(* being set further ahead than a reminder looks, so that none comes back.  *)
(***************************************************************************)
EXTENDS Notices, FiniteSetTheorems, SequenceTheorems, TLAPS

USE NoticesAssumption DEF NoticesAssumption

Told == issued["exam"] = Appointment(exam)

Copies(i) == {j \in DOMAIN log : log[j].copyOf = i /\ log[j].recent}

Logged ==
  /\ \A j \in DOMAIN log : log[j].copyOf <= Len(log)
  /\ \A r \in Clicks : clicks[r] <= Len(log)
  /\ \A r, s \in Clicks : (clicks[r] # 0 /\ clicks[r] = clicks[s]) => r = s
  /\ \A r \in Clicks : clicks[r] # 0 => Copies(clicks[r]) = {}
  /\ \A i \in DOMAIN log : \A j, k \in Copies(i) : j = k

Looked(d) == d <= day + DueWithin /\ (returned.due = 0 \/ returned.due >= d)

Reading(d) == {r \in Runs : run[r].step = "read" /\ run[r].due = d}

(* A reminder, sent or about to be sent, is the deadline's first or was     *)
(* excused; one that would be sent now by a new run is too.                 *)
Reminded ==
  /\ \A d \in Days : reminders[d] + Cardinality(Reading(d)) <= excused[d] + 1
  /\ \A d \in Days : reminders[d] >= 1 => Looked(d)
  /\ \A r \in Runs : run[r].step # "idle" => run[r].due \in Days /\ Looked(run[r].due)
  /\ \A d \in Days : (returned.due = d /\ ~returned.stamped /\ BusyWith(d) = {})
       => reminders[d] <= excused[d]

IInv == TypeOK /\ Told /\ Logged /\ Reminded

-----------------------------------------------------------------------------
(* The log *)

LEMMA LogDomain ==
  ASSUME TypeOK
  PROVE  /\ DOMAIN log = 1..Len(log) /\ Len(log) \in Nat
         /\ \A i \in DOMAIN log : log[i] \in Rows
  BY DEF TypeOK

LEMMA AppendRow ==
  ASSUME TypeOK, NEW row \in Rows, Len(log) < MaxNotices, log' = Append(log, row)
  PROVE  /\ log' \in Seq(Rows) /\ Len(log') = Len(log) + 1 /\ Len(log') <= MaxNotices
         /\ DOMAIN log' = 1..(Len(log) + 1)
         /\ \A i \in 1..Len(log) : log'[i] = log[i]
         /\ log'[Len(log) + 1] = row
  <1>1. log \in Seq(Rows) /\ Len(log) \in Nat
    BY DEF TypeOK
  <1> QED
    BY <1>1

(* Rows whose state or age changes. *)
LEMMA RewriteRows ==
  ASSUME TypeOK, DOMAIN log' = DOMAIN log, log' = [i \in DOMAIN log |-> log'[i]],
         \A i \in DOMAIN log : log'[i] \in Rows
  PROVE  log' \in Seq(Rows) /\ Len(log') = Len(log)
  <1>1. DOMAIN log = 1..Len(log) /\ Len(log) \in Nat
    BY LogDomain
  <1>2. log' \in [1..Len(log) -> Rows]
    BY <1>1
  <1> QED
    BY <1>1, <1>2

LEMMA RewriteKeeps ==
  ASSUME TypeOK, Logged, UNCHANGED clicks,
         DOMAIN log' = DOMAIN log, Len(log') = Len(log),
         \A i \in DOMAIN log : /\ log'[i].copyOf = log[i].copyOf
                               /\ log'[i].recent => log[i].recent
  PROVE  Logged'
  <1>1. ASSUME NEW i PROVE Copies(i)' \subseteq Copies(i)
    BY DEF Copies
  <1>2. \A r \in Clicks : clicks[r] # 0 => Copies(clicks[r])' = {}
    BY <1>1 DEF Logged
  <1>3. \A i \in DOMAIN log : \A j, k \in Copies(i)' : j = k
    BY <1>1 DEF Logged
  <1> QED
    BY <1>2, <1>3 DEF Logged

(* A new row that copies none. *)
LEMMA QueueKeeps ==
  ASSUME TypeOK, Logged, UNCHANGED clicks,
         NEW kind, NEW on, Row(kind, on, 0) \in Rows, Queue(kind, on)
  PROVE  log' \in Seq(Rows) /\ Len(log') <= MaxNotices /\ Logged'
  <1> DEFINE row == Row(kind, on, 0)
  <1>1. row.copyOf = 0 /\ ~row.recent
    BY DEF Row
  <1>2. Len(log) < MaxNotices /\ log' = Append(log, row)
    BY DEF Queue
  <1> HIDE DEF row
  <1>3. /\ log' \in Seq(Rows) /\ Len(log') = Len(log) + 1 /\ Len(log') <= MaxNotices
        /\ DOMAIN log' = 1..(Len(log) + 1)
        /\ \A i \in 1..Len(log) : log'[i] = log[i]
        /\ log'[Len(log) + 1] = row
    BY <1>2, AppendRow DEF row
  <1>4. DOMAIN log = 1..Len(log) /\ Len(log) \in Nat
    BY LogDomain
  <1>5. \A i : Copies(i)' = Copies(i)
    BY <1>1, <1>3, <1>4 DEF Copies
  <1>7. Copies(Len(log) + 1) = {}
    BY <1>4 DEF Logged, Copies
  <1>8. \A j \in DOMAIN log' : log'[j].copyOf <= Len(log')
    <2> SUFFICES ASSUME NEW j \in DOMAIN log' PROVE log'[j].copyOf <= Len(log')
      OBVIOUS
    <2>1. CASE j = Len(log) + 1
      BY <1>1, <1>3, <1>4, <2>1
    <2>2. CASE j \in 1..Len(log)
      <3>1. log[j].copyOf <= Len(log) /\ log[j].copyOf \in Nat
        BY <1>4, <2>2, LogDomain DEF Logged, Rows
      <3> QED
        BY <1>3, <1>4, <2>2, <3>1
    <2> QED
      BY <1>3, <1>4, <2>1, <2>2
  <1>9. \A r \in Clicks : clicks[r] <= Len(log')
    BY <1>3, <1>4 DEF Logged, TypeOK
  <1>10. \A i \in DOMAIN log' : \A j, k \in Copies(i)' : j = k
    BY <1>3, <1>4, <1>5, <1>7 DEF Logged
  <1> QED
    BY <1>3, <1>5, <1>8, <1>9, <1>10 DEF Logged

(* The copy a request makes of the row it holds.                           *)
LEMMA CopyKeeps ==
  ASSUME TypeOK, Logged, NEW r \in Clicks, CommitCopy(r)
  PROVE  /\ log' \in Seq(Rows) /\ Len(log') <= MaxNotices
         /\ clicks' \in [Clicks -> 0..MaxNotices] /\ Logged'
  <1> DEFINE i == clicks[r]
             row == Row(log[i].kind, log[i].on, i)
  <1>1. DOMAIN log = 1..Len(log) /\ Len(log) \in Nat
    BY LogDomain
  <1>2. i \in DOMAIN log /\ i \in 0..MaxNotices
    BY <1>1 DEF CommitCopy, Logged, TypeOK
  <1>3. row \in Rows /\ row.copyOf = i /\ row.recent
    <2>1. log[i] \in Rows
      BY <1>2, LogDomain
    <2>2. (i # 0) = TRUE
      BY DEF CommitCopy
    <2>3. row = [kind |-> log[i].kind, on |-> log[i].on, state |-> "pending", copyOf |-> i,
                 recent |-> TRUE]
      BY <2>2, Zenon DEF Row
    <2> HIDE DEF row, i
    <2> QED
      BY <1>2, <2>1, <2>3 DEF Rows
  <1>4. Len(log) < MaxNotices /\ log' = Append(log, row) /\ clicks' = [clicks EXCEPT ![r] = 0]
    BY DEF CommitCopy
  <1> HIDE DEF row
  <1>5. /\ log' \in Seq(Rows) /\ Len(log') = Len(log) + 1 /\ Len(log') <= MaxNotices
        /\ DOMAIN log' = 1..(Len(log) + 1)
        /\ \A j \in 1..Len(log) : log'[j] = log[j]
        /\ log'[Len(log) + 1] = row
    BY <1>3, <1>4, AppendRow
  <1>6. \A k : Copies(k)' = IF k = i THEN Copies(k) \cup {Len(log) + 1} ELSE Copies(k)
    BY <1>1, <1>3, <1>5 DEF Copies
  <1>7. Copies(i) = {}
    BY DEF Logged, CommitCopy
  <1>8. Copies(Len(log) + 1) = {}
    BY <1>1 DEF Logged, Copies
  <1>9. \A j \in DOMAIN log' : log'[j].copyOf <= Len(log')
    <2> SUFFICES ASSUME NEW j \in DOMAIN log' PROVE log'[j].copyOf <= Len(log')
      OBVIOUS
    <2>1. CASE j = Len(log) + 1
      BY <1>1, <1>2, <1>3, <1>5, <2>1
    <2>2. CASE j \in 1..Len(log)
      <3>1. log[j].copyOf <= Len(log) /\ log[j].copyOf \in Nat
        BY <1>1, <2>2, LogDomain DEF Logged, Rows
      <3> QED
        BY <1>1, <1>5, <2>2, <3>1
    <2> QED
      BY <1>1, <1>5, <2>1, <2>2
  <1>10. clicks' \in [Clicks -> 0..MaxNotices] /\ \A s \in Clicks : clicks'[s] <= Len(log')
    BY <1>1, <1>4, <1>5 DEF Logged, TypeOK
  <1>11. \A s, t \in Clicks : (clicks'[s] # 0 /\ clicks'[s] = clicks'[t]) => s = t
    BY <1>4 DEF Logged, TypeOK
  <1>12. \A s \in Clicks : clicks'[s] # 0 => s # r /\ clicks'[s] = clicks[s] /\ clicks[s] # i
    BY <1>4 DEF Logged, TypeOK
  <1>13. \A s \in Clicks : clicks'[s] # 0 => Copies(clicks[s])' = {}
    BY <1>6, <1>12 DEF Logged
  <1>14. \A k \in DOMAIN log' : \A j, l \in Copies(k)' : j = l
    BY <1>1, <1>5, <1>6, <1>7, <1>8 DEF Logged
  <1>15. \A s \in Clicks : clicks'[s] # 0 => Copies(clicks[s])' = {j \in DOMAIN log' :
            log'[j].copyOf = clicks'[s] /\ log'[j].recent}
    BY <1>12 DEF Copies
  <1> QED
    BY <1>5, <1>9, <1>10, <1>11, <1>12, <1>13, <1>14, <1>15 DEF Logged, Copies

(* A request takes the lock of a row nobody holds, and finds no copy.      *)
LEMMA ClickKeeps ==
  ASSUME TypeOK, Logged, NEW r \in Clicks, NEW i \in DOMAIN log, SendAgain(r, i)
  PROVE  clicks' \in [Clicks -> 0..MaxNotices] /\ Logged'
  <1>1. DOMAIN log = 1..Len(log) /\ Len(log) \in Nat /\ Len(log) <= MaxNotices
    BY LogDomain DEF TypeOK
  <1>2. clicks' = [clicks EXCEPT ![r] = i] /\ UNCHANGED log
    BY DEF SendAgain
  <1>3. i # 0 /\ Copies(i) = {} /\ \A s \in Clicks : clicks[s] # i
    BY <1>1 DEF SendAgain, RowIsFree, JustSentAgain, Copies
  <1>4. clicks' \in [Clicks -> 0..MaxNotices] /\ \A s \in Clicks : clicks'[s] <= Len(log)
    BY <1>1, <1>2 DEF TypeOK, Logged
  <1>5. \A s, t \in Clicks : (clicks'[s] # 0 /\ clicks'[s] = clicks'[t]) => s = t
    BY <1>2, <1>3 DEF Logged, TypeOK
  <1>6. \A s \in Clicks : clicks'[s] # 0 => Copies(clicks'[s]) = {}
    BY <1>2, <1>3 DEF Logged, TypeOK
  <1>7. \A k : {j \in DOMAIN log' : log'[j].copyOf = k /\ log'[j].recent} = Copies(k)
    BY <1>2 DEF Copies
  <1>8. \A s \in Clicks : clicks'[s] # 0 => Copies(clicks[s])' = {}
    BY <1>6, <1>7 DEF Copies
  <1>9. \A k \in DOMAIN log' : \A j, l \in Copies(k)' : j = l
    BY <1>2, <1>7 DEF Logged, Copies
  <1> QED
    BY <1>2, <1>4, <1>5, <1>8, <1>9 DEF Logged

(* Time takes the age off every copy.                                      *)
LEMMA AgeKeeps ==
  ASSUME TypeOK, Logged, UNCHANGED clicks,
         log' = [i \in DOMAIN log |-> [log[i] EXCEPT !.recent = FALSE]]
  PROVE  log' \in Seq(Rows) /\ Len(log') <= MaxNotices /\ Logged'
  <1>1. \A i \in DOMAIN log : /\ log'[i] \in Rows /\ log'[i].copyOf = log[i].copyOf
                              /\ ~log'[i].recent
    BY LogDomain DEF Rows
  <1>2. DOMAIN log' = DOMAIN log /\ log' = [i \in DOMAIN log |-> log'[i]]
    OBVIOUS
  <1>3. log' \in Seq(Rows) /\ Len(log') = Len(log)
    BY <1>1, <1>2, RewriteRows
  <1>4. Logged'
    BY <1>1, <1>2, <1>3, RewriteKeeps
  <1> QED
    BY <1>3, <1>4 DEF TypeOK

LEMMA DeliverKeeps ==
  ASSUME TypeOK, Logged, NEW i \in DOMAIN log, Deliver(i)
  PROVE  log' \in Seq(Rows) /\ Len(log') <= MaxNotices /\ Logged'
  <1>1. PICK outcome \in {"sent", "failed"} : log' = [log EXCEPT ![i].state = outcome]
    BY DEF Deliver
  <1>2. \A j \in DOMAIN log : /\ log'[j] \in Rows /\ log'[j].copyOf = log[j].copyOf
                              /\ log'[j].recent = log[j].recent
    BY <1>1, LogDomain DEF Rows
  <1>3. DOMAIN log' = DOMAIN log /\ log' = [j \in DOMAIN log |-> log'[j]]
    BY <1>1, LogDomain DEF TypeOK
  <1>4. log' \in Seq(Rows) /\ Len(log') = Len(log)
    BY <1>2, <1>3, RewriteRows
  <1>5. Logged'
    BY <1>2, <1>3, <1>4, RewriteKeeps DEF Deliver
  <1> QED
    BY <1>4, <1>5 DEF TypeOK

-----------------------------------------------------------------------------
(* Schedules *)

(* A schedule is saved with a notice, or as it was last told.              *)
LEMMA ExamKeeps ==
  ASSUME TypeOK, Told, NEW on \in Days, NEW at \in Places, NEW byHand \in BOOLEAN,
         SaveExam(on, at, byHand)
  PROVE  /\ exam' \in Schedules
         /\ issued' \in [{"exam", "interview"} -> (Days \X Places) \cup {<<0, None>>}]
         /\ Told'
  <1> DEFINE notify == ChangeNeedsNotice(exam, on, at)
  <1>1. exam' = [on |-> on, at |-> at, notified |-> exam.notified \/ notify]
    BY DEF SaveExam
  <1>2. exam' \in Schedules /\ exam'.on = on /\ exam'.at = at
    <2>1. (exam.notified \/ notify) \in BOOLEAN
      OBVIOUS
    <2> QED
      BY <1>1, <2>1 DEF Schedules
  <1>3. CASE notify
    BY <1>2, <1>3 DEF SaveExam, TypeOK, Told, Appointment
  <1>4. CASE ~notify
    <2>1. issued' = issued /\ Appointment(exam) = <<on, at>>
      BY <1>4 DEF SaveExam, ChangeNeedsNotice
    <2> QED
      BY <1>2, <2>1 DEF TypeOK, Told, Appointment
  <1> QED
    BY <1>3, <1>4

LEMMA InterviewKeeps ==
  ASSUME TypeOK, Told, NEW on \in Days, NEW at \in Places, NEW notify \in BOOLEAN,
         SaveInterview(on, at, notify)
  PROVE  /\ interview' \in Schedules
         /\ issued' \in [{"exam", "interview"} -> (Days \X Places) \cup {<<0, None>>}]
         /\ Told'
  <1>1. interview' = [on |-> on, at |-> at, notified |-> interview.notified \/ notify]
    BY DEF SaveInterview
  <1>2. interview' \in Schedules
    <2>1. (interview.notified \/ notify) \in BOOLEAN
      OBVIOUS
    <2> QED
      BY <1>1, <2>1 DEF Schedules
  <1>3. CASE notify
    BY <1>2, <1>3 DEF SaveInterview, TypeOK, Told, Appointment
  <1>4. CASE ~notify
    BY <1>2, <1>4 DEF SaveInterview, TypeOK, Told, Appointment
  <1> QED
    BY <1>3, <1>4

(* A schedule's row, a letter, a checklist or a request may enter the log. *)
LEMMA NewRow ==
  ASSUME NEW kind \in {"exam", "interview", "request", "checklist"} \cup Letters,
         NEW on \in 0..MaxDay
  PROVE  Row(kind, on, 0) \in Rows
  <1> DEFINE row == Row(kind, on, 0)
  <1>1. (0 # 0) = FALSE
    OBVIOUS
  <1>2. row = [kind |-> kind, on |-> on, state |-> "pending", copyOf |-> 0, recent |-> FALSE]
    BY <1>1, Zenon DEF Row
  <1>3. 0 \in 0..MaxNotices
    OBVIOUS
  <1> HIDE DEF row
  <1>4. row \in Rows
    BY <1>2, <1>3 DEF Rows
  <1> QED
    BY <1>4 DEF row

-----------------------------------------------------------------------------
(* Deadlines and reminders *)

LEMMA StillWithin ==
  ASSUME NEW d \in Nat, NEW today \in Nat, NEW later \in Nat, today <= later,
         d <= today + DueWithin
  PROVE  d <= later + DueWithin
  OBVIOUS

LEMMA RemindedStays ==
  ASSUME TypeOK, Reminded, UNCHANGED daily, day' >= day, day' \in Days
  PROVE  Reminded'
  <1>1. /\ UNCHANGED <<returned, run, reminders, excused>>
        /\ \A d : Reading(d)' = Reading(d) /\ BusyWith(d)' = BusyWith(d)
    BY DEF daily, Reading, BusyWith
  <1>2. ASSUME NEW d \in Days, Looked(d) PROVE Looked(d)'
    <2>1. day \in Nat /\ day' \in Nat /\ d \in Nat
      BY DEF TypeOK, Days
    <2>2. d <= day + DueWithin
      BY <1>2 DEF Looked
    <2>3. day <= day'
      BY <2>1
    <2>4. d <= day' + DueWithin
      BY <2>1, <2>2, <2>3, StillWithin
    <2> QED
      BY <1>1, <1>2, <2>4 DEF Looked
  <1> QED
    BY <1>1, <1>2 DEF Reminded

(* A deadline that is set or moved lies further ahead than any that was    *)
(* reminded of, and one that is dropped is reminded of no more.            *)
LEMMA DeadlineKeeps ==
  ASSUME TypeOK, Reminded, UNCHANGED <<day, run, reminders, excused>>,
         \/ /\ returned' = [due |-> day + DaysAllowed, stamped |-> FALSE]
            /\ returned.due = 0 /\ day + DaysAllowed <= MaxDay
         \/ \E due \in Days : /\ returned.due # 0 /\ due > returned.due
                             /\ returned' = [due |-> due, stamped |-> FALSE]
         \/ returned' = [returned EXCEPT !.due = 0]
  PROVE  returned' \in [due : 0..MaxDay, stamped : BOOLEAN] /\ Reminded'
  <1>1. /\ returned.due \in 0..MaxDay /\ returned.stamped \in BOOLEAN /\ day \in Days
        /\ reminders \in [Days -> Nat] /\ excused \in [Days -> Nat]
        /\ \A d : Reading(d)' = Reading(d) /\ BusyWith(d)' = BusyWith(d)
    BY DEF TypeOK, Reading, BusyWith
  <1>2. CASE returned' = [returned EXCEPT !.due = 0]
    <2>1. returned \in [due : 0..MaxDay, stamped : BOOLEAN] /\ 0 \in 0..MaxDay
      BY DEF TypeOK
    <2>2. returned'.due = 0 /\ returned' \in [due : 0..MaxDay, stamped : BOOLEAN]
      BY <1>2, <2>1
    <2> QED
      BY <1>1, <2>2 DEF Reminded, Looked, Days
  <1>3. CASE \E due \in Days : /\ returned.due # 0 /\ due > returned.due
                              /\ returned' = [due |-> due, stamped |-> FALSE]
    <2> PICK due \in Days : /\ returned.due # 0 /\ due > returned.due
                           /\ returned' = [due |-> due, stamped |-> FALSE]
      BY <1>3
    <2>1. returned'.due = due /\ returned' \in [due : 0..MaxDay, stamped : BOOLEAN]
      BY DEF Days
    <2>2. \A d \in Days : Looked(d) => Looked(d)' /\ d # due
      BY <1>1, <2>1 DEF Looked, Days
    <2> QED
      BY <1>1, <2>1, <2>2 DEF Reminded, Days
  <1>4. CASE /\ returned' = [due |-> day + DaysAllowed, stamped |-> FALSE]
             /\ returned.due = 0 /\ day + DaysAllowed <= MaxDay
    <2>1. /\ returned'.due = day + DaysAllowed /\ day + DaysAllowed \in Days
          /\ returned' \in [due : 0..MaxDay, stamped : BOOLEAN]
      BY <1>1, <1>4 DEF Days
    <2>2. \A d \in Days : Looked(d) => Looked(d)' /\ d # day + DaysAllowed
      BY <1>1, <2>1 DEF Looked, Days
    <2> QED
      BY <1>1, <2>1, <2>2 DEF Reminded, Days
  <1> QED
    BY <1>2, <1>3, <1>4

LEMMA ReadingFinite ==
  ASSUME NEW d
  PROVE  IsFiniteSet(Reading(d)) /\ Cardinality(Reading(d)) \in Nat
  <1>1. Reading(d) \subseteq Runs
    BY DEF Reading
  <1> QED
    BY <1>1, FS_Subset, FS_CardinalityType

(* What a run takes up or leaves changes what is being read by one.        *)
LEMMA ReadingChanges ==
  ASSUME TypeOK, NEW r \in Runs, NEW to \in Holding, run' = [run EXCEPT ![r] = to], NEW d
  PROVE  /\ to.step = "read" /\ to.due = d
              => Cardinality(Reading(d)') <= Cardinality(Reading(d)) + 1
         /\ ~(to.step = "read" /\ to.due = d)
              => Cardinality(Reading(d)') <= Cardinality(Reading(d))
         /\ ~(to.step = "read" /\ to.due = d) /\ r \in Reading(d)
              => Cardinality(Reading(d)') = Cardinality(Reading(d)) - 1
         /\ Cardinality(Reading(d)') \in Nat
  <1>0. run \in [Runs -> Holding] /\ IsFiniteSet(Reading(d)) /\ Cardinality(Reading(d)) \in Nat
    BY ReadingFinite DEF TypeOK
  <1>1. CASE to.step = "read" /\ to.due = d
    <2>1. Reading(d)' = Reading(d) \cup {r}
      BY <1>0, <1>1 DEF Reading
    <2>2. Cardinality(Reading(d) \cup {r})
            = IF r \in Reading(d) THEN Cardinality(Reading(d)) ELSE Cardinality(Reading(d)) + 1
      BY <1>0, FS_AddElement
    <2> QED
      BY <1>0, <1>1, <2>1, <2>2
  <1>2. CASE ~(to.step = "read" /\ to.due = d)
    <2>1. Reading(d)' = Reading(d) \ {r}
      BY <1>0, <1>2 DEF Reading
    <2>2. Cardinality(Reading(d) \ {r})
            = IF r \in Reading(d) THEN Cardinality(Reading(d)) - 1 ELSE Cardinality(Reading(d))
      BY <1>0, FS_RemoveElement
    <2>3. r \in Reading(d) => Cardinality(Reading(d)) # 0
      BY <1>0, FS_EmptySet
    <2> QED
      BY <1>0, <1>2, <2>1, <2>2, <2>3
  <1> QED
    BY <1>1, <1>2

(* A run of the command reads a deadline, mails it and stamps it, or stops. *)
LEMMA ReadKeeps ==
  ASSUME TypeOK, Reminded, NEW r \in Runs, RunReminders(r)
  PROVE  run' \in [Runs -> Holding] /\ excused' \in [Days -> Nat] /\ Reminded'
  <1> DEFINE now == returned.due
             to == [step |-> "read", due |-> now]
  <1>1. /\ now \in Days /\ day \in Days /\ run \in [Runs -> Holding]
        /\ reminders \in [Days -> Nat] /\ excused \in [Days -> Nat]
        /\ ~returned.stamped /\ run[r].step = "idle" /\ run' = [run EXCEPT ![r] = to]
        /\ now # 0 /\ now <= day + DueWithin
        /\ UNCHANGED <<day, returned, reminders>>
    <2>1. /\ returned.due \in 0..MaxDay /\ day \in Days /\ run \in [Runs -> Holding]
          /\ reminders \in [Days -> Nat] /\ excused \in [Days -> Nat]
      BY DEF TypeOK
    <2>2. /\ run[r].step = "idle" /\ run' = [run EXCEPT ![r] = to]
          /\ UNCHANGED <<day, returned, reminders>>
      BY DEF RunReminders
    <2>3. now # 0 /\ ~returned.stamped /\ now <= day + DueWithin
      BY DEF RunReminders, IsDue
    <2>4. now \in Days
      BY <2>1, <2>3 DEF Days
    <2> QED
      BY <2>1, <2>2, <2>3, <2>4
  <1>2. to \in Holding /\ run' \in [Runs -> Holding] /\ to.step = "read" /\ to.due = now
    BY <1>1 DEF Holding, Days
  <1>3. excused' \in [Days -> Nat] /\ \A d \in Days : excused'[d] >= excused[d]
    BY <1>1 DEF RunReminders
  <1>4. reminders[now] + Cardinality(Reading(now)) + 1 <= excused'[now] + 1
    <2>1. CASE BusyWith(now) = {}
      <3>1. Reading(now) = {} /\ reminders[now] <= excused[now] /\ excused' = excused
        BY <1>1, <2>1 DEF Reading, BusyWith, Reminded, RunReminders
      <3> QED
        BY <1>1, <3>1, FS_EmptySet
    <2>2. CASE BusyWith(now) # {}
      <3>1. excused' = [excused EXCEPT ![now] = @ + 1]
        BY <2>2 DEF RunReminders
      <3>2. reminders[now] + Cardinality(Reading(now)) <= excused[now] + 1
        BY <1>1 DEF Reminded
      <3>3. Cardinality(Reading(now)) \in Nat
        BY ReadingFinite
      <3> QED
        BY <1>1, <3>1, <3>2, <3>3
    <2> QED
      BY <2>1, <2>2
  <1> HIDE DEF to, now
  <1>5. ASSUME NEW d \in Days
        PROVE  reminders[d] + Cardinality(Reading(d)') <= excused'[d] + 1
    <2>1. /\ Cardinality(Reading(d)') \in Nat /\ Cardinality(Reading(d)) \in Nat
          /\ d = now => Cardinality(Reading(d)') <= Cardinality(Reading(d)) + 1
          /\ d # now => Cardinality(Reading(d)') <= Cardinality(Reading(d))
      BY <1>1, <1>2, ReadingChanges, ReadingFinite
    <2>2. reminders[d] + Cardinality(Reading(d)) <= excused[d] + 1
      BY DEF Reminded
    <2> QED
      BY <1>1, <1>3, <1>4, <2>1, <2>2
  <1>6. \A d : Looked(d)' = Looked(d)
    BY <1>1 DEF Looked
  <1>7. r \in BusyWith(now)' /\ Looked(now)
    BY <1>1, <1>2 DEF BusyWith, Looked, now, Days
  <1>8. \A s \in Runs : run'[s].step # "idle" => run'[s].due \in Days /\ Looked(run'[s].due)
    BY <1>1, <1>2, <1>7 DEF Reminded
  <1>9. \A d \in Days : (returned.due = d /\ BusyWith(d)' = {}) => FALSE
    <2>1. BusyWith(now)' # {}
      BY <1>7
    <2> QED
      BY <1>1, <2>1 DEF now
  <1> QED
    BY <1>1, <1>2, <1>3, <1>5, <1>6, <1>8, <1>9 DEF Reminded

(* A run that lets go of a deadline: what it was busy with is stamped, is   *)
(* excused, or was never mailed.                                            *)
LEMMA LetGo ==
  ASSUME TypeOK, Reminded, NEW r \in Runs, run[r].step # "idle",
         run' = [run EXCEPT ![r] = Idle], UNCHANGED <<day, reminders>>,
         excused' \in [Days -> Nat], \A d \in Days : excused'[d] >= excused[d],
         returned'.due = returned.due,
         returned.stamped => returned'.stamped,
         \/ run[r].step = "read"
         \/ returned'.stamped
         \/ excused'[run[r].due] = excused[run[r].due] + 1
  PROVE  run' \in [Runs -> Holding] /\ Reminded'
  <1>1. /\ run \in [Runs -> Holding] /\ Idle \in Holding /\ Idle.step = "idle"
        /\ reminders \in [Days -> Nat] /\ excused \in [Days -> Nat]
    BY DEF TypeOK, Idle, Holding
  <1>2. /\ run' \in [Runs -> Holding] /\ run'[r].step = "idle"
        /\ \A s \in Runs : s # r => run'[s] = run[s]
    BY <1>1
  <1>3. \A d : Looked(d)' = Looked(d)
    BY DEF Looked
  <1>4. ASSUME NEW d \in Days
        PROVE  /\ Cardinality(Reading(d)') \in Nat /\ Cardinality(Reading(d)) \in Nat
               /\ Cardinality(Reading(d)') <= Cardinality(Reading(d))
               /\ reminders[d] + Cardinality(Reading(d)) <= excused[d] + 1
               /\ r \in Reading(d) => Cardinality(Reading(d)') = Cardinality(Reading(d)) - 1
    BY <1>1, ReadingChanges, ReadingFinite DEF Reminded
  <1>5. ASSUME NEW d \in Days PROVE reminders[d] + Cardinality(Reading(d)') <= excused'[d] + 1
    BY <1>1, <1>4
  <1>6. ASSUME NEW d \in Days, returned'.due = d, ~returned'.stamped, BusyWith(d)' = {}
        PROVE  reminders[d] <= excused'[d]
    <2>1. CASE run[r].due # d
      <3>1. BusyWith(d) = {}
        BY <1>2, <1>6, <2>1 DEF BusyWith
      <3> QED
        BY <1>1, <1>6, <3>1 DEF Reminded
    <2>2. CASE run[r].due = d /\ run[r].step = "read"
      <3>1. r \in Reading(d)
        BY <2>2 DEF Reading
      <3> QED
        BY <1>1, <1>4, <3>1
    <2>3. CASE run[r].due = d /\ run[r].step # "read"
      <3>1. excused'[d] = excused[d] + 1
        BY <1>6, <2>3
      <3> QED
        BY <1>1, <1>4, <3>1
    <2> QED
      BY <2>1, <2>2, <2>3
  <1>7. \A s \in Runs : run'[s].step # "idle" => run'[s].due \in Days /\ Looked(run'[s].due)
    BY <1>2 DEF Reminded
  <1> QED
    BY <1>2, <1>3, <1>5, <1>6, <1>7 DEF Reminded

LEMMA MailKeeps ==
  ASSUME TypeOK, Reminded, NEW r \in Runs, MailReminder(r)
  PROVE  run' \in [Runs -> Holding] /\ reminders' \in [Days -> Nat] /\ Reminded'
  <1>1. /\ run[r].step = "read" /\ run \in [Runs -> Holding]
        /\ reminders \in [Days -> Nat] /\ excused \in [Days -> Nat]
        /\ UNCHANGED <<day, returned, excused>>
    BY DEF MailReminder, TypeOK
  <1>2. CASE run' = [run EXCEPT ![r] = Idle] /\ UNCHANGED reminders
    <2>1. /\ excused' \in [Days -> Nat] /\ \A d \in Days : excused'[d] >= excused[d]
          /\ run[r].step # "idle"
      BY <1>1
    <2> QED
      BY <1>1, <1>2, <2>1, LetGo
  <1>3. CASE /\ run' = [run EXCEPT ![r].step = "mailed"]
             /\ reminders' = [reminders EXCEPT ![run[r].due] = @ + 1]
    <2> DEFINE to == [step |-> "mailed", due |-> run[r].due]
    <2>1. /\ to \in Holding /\ run' = [run EXCEPT ![r] = to]
          /\ run' \in [Runs -> Holding] /\ to.step = "mailed" /\ to.due = run[r].due
          /\ run[r].due \in Days /\ Looked(run[r].due)
      <3>1. run[r] \in Holding /\ run[r].step # "idle"
        BY <1>1
      <3>2. run[r].due \in Days /\ Looked(run[r].due) /\ run[r].due \in 0..MaxDay
        BY <3>1 DEF Reminded, Holding
      <3>3. to \in Holding
        BY <3>2 DEF Holding
      <3>4. [run[r] EXCEPT !.step = "mailed"] = to
        BY <3>1 DEF Holding
      <3> QED
        BY <1>1, <1>3, <3>2, <3>3, <3>4
    <2> HIDE DEF to
    <2>2. reminders' \in [Days -> Nat]
      BY <1>1, <1>3, <2>1
    <2>3. \A d : Looked(d)' = Looked(d)
      BY <1>1 DEF Looked
    <2>4. ASSUME NEW d \in Days
          PROVE  reminders'[d] + Cardinality(Reading(d)') <= excused[d] + 1
      <3>1. /\ Cardinality(Reading(d)') \in Nat /\ Cardinality(Reading(d)) \in Nat
            /\ Cardinality(Reading(d)') <= Cardinality(Reading(d))
            /\ r \in Reading(d) => Cardinality(Reading(d)') = Cardinality(Reading(d)) - 1
            /\ reminders[d] + Cardinality(Reading(d)) <= excused[d] + 1
        BY <1>1, <2>1, ReadingChanges, ReadingFinite DEF Reminded
      <3>2. d = run[r].due => r \in Reading(d)
        BY <1>1 DEF Reading
      <3> QED
        BY <1>1, <1>3, <3>1, <3>2
    <2>5. \A d : BusyWith(d)' = BusyWith(d)
      BY <1>1, <2>1 DEF BusyWith
    <2>6. ASSUME NEW d \in Days, returned.due = d, ~returned.stamped, BusyWith(d) = {}
          PROVE  reminders'[d] <= excused[d]
      <3>1. d # run[r].due
        BY <1>1, <2>6 DEF BusyWith
      <3> QED
        BY <1>1, <1>3, <2>6, <3>1 DEF Reminded
    <2>7. \A s \in Runs : run'[s].step # "idle" => run'[s].due \in Days /\ Looked(run'[s].due)
      BY <1>1, <2>1 DEF Reminded
    <2>8. \A d \in Days : reminders'[d] >= 1 => Looked(d)
      BY <1>1, <1>3, <2>1 DEF Reminded
    <2> QED
      BY <1>1, <2>1, <2>2, <2>3, <2>4, <2>5, <2>6, <2>7, <2>8 DEF Reminded
  <1> QED
    BY <1>2, <1>3 DEF MailReminder

LEMMA RunKeeps ==
  ASSUME TypeOK, Reminded, NEW r \in Runs,
         RunReminders(r) \/ MailReminder(r) \/ StampReminder(r) \/ KillRun(r)
  PROVE  /\ returned' \in [due : 0..MaxDay, stamped : BOOLEAN]
         /\ run' \in [Runs -> Holding]
         /\ reminders' \in [Days -> Nat] /\ excused' \in [Days -> Nat] /\ Reminded'
  <1>1. /\ returned \in [due : 0..MaxDay, stamped : BOOLEAN] /\ run \in [Runs -> Holding]
        /\ reminders \in [Days -> Nat] /\ excused \in [Days -> Nat]
    BY DEF TypeOK
  <1>2. CASE RunReminders(r)
    BY <1>1, <1>2, ReadKeeps DEF RunReminders
  <1>3. CASE MailReminder(r)
    BY <1>1, <1>3, MailKeeps DEF MailReminder
  <1>4. CASE StampReminder(r)
    <2>1. /\ returned' = [returned EXCEPT !.stamped = TRUE] /\ run' = [run EXCEPT ![r] = Idle]
          /\ run[r].step = "mailed" /\ UNCHANGED <<day, reminders, excused>>
      BY <1>4 DEF StampReminder, Stamped
    <2>2. /\ returned' \in [due : 0..MaxDay, stamped : BOOLEAN]
          /\ returned'.due = returned.due /\ returned'.stamped
      BY <1>1, <2>1
    <2>3. /\ excused' \in [Days -> Nat] /\ \A d \in Days : excused'[d] >= excused[d]
          /\ run[r].step # "idle"
      BY <1>1, <2>1
    <2>4. run' \in [Runs -> Holding] /\ Reminded'
      BY <2>1, <2>2, <2>3, LetGo
    <2> QED
      BY <1>1, <2>1, <2>2, <2>4
  <1>5. CASE KillRun(r)
    <2>1. /\ run[r].step # "idle" /\ run' = [run EXCEPT ![r] = Idle]
          /\ UNCHANGED <<day, returned, reminders>>
          /\ \/ run[r].step = "read" /\ UNCHANGED excused
             \/ excused' = [excused EXCEPT ![run[r].due] = @ + 1]
      BY <1>5 DEF KillRun
    <2>2. run[r].due \in Days
      BY <2>1 DEF Reminded
    <2>3. /\ excused' \in [Days -> Nat] /\ \A d \in Days : excused'[d] >= excused[d]
          /\ run[r].step = "read" \/ excused'[run[r].due] = excused[run[r].due] + 1
      BY <1>1, <2>1, <2>2
    <2>4. run' \in [Runs -> Holding] /\ Reminded'
      BY <2>1, <2>3, LetGo
    <2> QED
      BY <1>1, <2>1, <2>3, <2>4
  <1> QED
    BY <1>2, <1>3, <1>4, <1>5

-----------------------------------------------------------------------------
(* The invariant *)

LEMMA Start ==
  ASSUME Init
  PROVE  IInv
  <1>0. TypeOK
    <2>1. day \in Days /\ status \in {"applied"} \cup Outcomes
      BY DEF Init, Days
    <2>2. exam \in Schedules /\ interview \in Schedules
      BY DEF Init, Schedules
    <2>3. issued \in [{"exam", "interview"} -> (Days \X Places) \cup {<<0, None>>}]
      BY DEF Init
    <2>4. log \in Seq(Rows) /\ Len(log) <= MaxNotices
      BY DEF Init
    <2>5. /\ clicks \in [Clicks -> 0..MaxNotices]
          /\ reminders \in [Days -> Nat]
          /\ excused \in [Days -> Nat]
      <3>1. 0 \in 0..MaxNotices
        OBVIOUS
      <3> QED
        BY <3>1 DEF Init
    <2>6. returned \in [due : 0..MaxDay, stamped : BOOLEAN]
      BY DEF Init, NotReturned
    <2>7. run \in [Runs -> Holding]
      BY DEF Init, Idle, Holding
    <2> QED
      BY <2>1, <2>2, <2>3, <2>4, <2>5, <2>6, <2>7 DEF TypeOK
  <1>2. Told
    BY DEF Init, Told, Unscheduled, Appointment
  <1>3. DOMAIN log = {}
    BY DEF Init
  <1>4. Logged
    BY <1>3 DEF Init, Logged, Copies
  <1>5. Reminded
    <2>1. /\ \A d \in Days : reminders[d] = 0 /\ excused[d] = 0
          /\ \A r \in Runs : run[r].step = "idle"
          /\ \A d \in Days : Reading(d) = {}
      BY DEF Init, Idle, Reading
    <2>2. \A d \in Days : Cardinality(Reading(d)) = 0
      BY <2>1, FS_EmptySet
    <2> QED
      BY <2>1, <2>2 DEF Reminded
  <1> QED
    BY <1>0, <1>2, <1>4, <1>5 DEF IInv

LEMMA ScheduleStep ==
  ASSUME IInv, NEW on \in Days, NEW at \in Places, NEW b \in BOOLEAN,
         SaveExam(on, at, b) \/ SaveInterview(on, at, b)
  PROVE  IInv'
  <1>1. /\ Row("exam", on, 0) \in Rows /\ Row("interview", on, 0) \in Rows
    BY NewRow DEF Days
  <1>2. UNCHANGED <<day, status, clicks, daily>>
    BY DEF SaveExam, SaveInterview
  <1>3. log' \in Seq(Rows) /\ Len(log') <= MaxNotices /\ Logged'
    <2>1. CASE UNCHANGED log
      BY <1>2, <2>1 DEF IInv, TypeOK, Logged, Copies
    <2>2. CASE Queue("exam", on) \/ Queue("interview", on)
      BY <1>1, <1>2, <2>2, QueueKeeps DEF IInv
    <2> QED
      BY <2>1, <2>2 DEF SaveExam, SaveInterview
  <1>4. /\ exam' \in Schedules /\ interview' \in Schedules /\ Told'
        /\ issued' \in [{"exam", "interview"} -> (Days \X Places) \cup {<<0, None>>}]
    <2>1. CASE SaveExam(on, at, b)
      BY <2>1, ExamKeeps DEF IInv, TypeOK, SaveExam
    <2>2. CASE SaveInterview(on, at, b)
      BY <2>2, InterviewKeeps DEF IInv, TypeOK, SaveInterview
    <2> QED
      BY <2>1, <2>2
  <1>5. Reminded'
    BY <1>2, RemindedStays DEF IInv, TypeOK, Days
  <1>6. TypeOK'
    BY <1>2, <1>3, <1>4 DEF IInv, TypeOK, daily
  <1> QED
    BY <1>3, <1>4, <1>5, <1>6 DEF IInv

(* Steps that only write the log or hold a row of it. *)
LEMMA LogStep ==
  ASSUME IInv, UNCHANGED <<office, daily>>, day' \in Days, day' >= day,
         log' \in Seq(Rows), Len(log') <= MaxNotices, clicks' \in [Clicks -> 0..MaxNotices],
         Logged'
  PROVE  IInv'
  <1>1. Reminded'
    BY RemindedStays DEF IInv
  <1>2. TypeOK' /\ Told'
    BY DEF IInv, TypeOK, Told, office, daily
  <1> QED
    BY <1>1, <1>2 DEF IInv

LEMMA LetterStep ==
  ASSUME IInv, (\E o \in Outcomes : End(o)) \/ SendChecklist
  PROVE  IInv'
  <1>0. /\ day \in Days /\ day >= day /\ clicks \in [Clicks -> 0..MaxNotices]
        /\ 0 \in 0..MaxDay
    BY DEF IInv, TypeOK, Days
  <1>1. CASE SendChecklist
    <2>1. Row("checklist", 0, 0) \in Rows
      BY <1>0, NewRow
    <2>2. log' \in Seq(Rows) /\ Len(log') <= MaxNotices /\ Logged'
      BY <1>1, <2>1, QueueKeeps DEF IInv, SendChecklist
    <2> QED
      BY <1>0, <1>1, <2>2, LogStep DEF SendChecklist
  <1>2. ASSUME NEW o \in Outcomes, End(o) PROVE IInv'
    <2>1. Row(Letter[o], 0, 0) \in Rows
      <3>1. Letter[o] \in Letters
        BY DEF Letters
      <3> QED
        BY <1>0, <3>1, NewRow
    <2>2. log' \in Seq(Rows) /\ Len(log') <= MaxNotices /\ Logged'
      BY <1>2, <2>1, QueueKeeps DEF IInv, End
    <2>3. returned' \in [due : 0..MaxDay, stamped : BOOLEAN] /\ Reminded'
      BY <1>2, DeadlineKeeps DEF IInv, End
    <2>4. TypeOK' /\ Told'
      BY <1>2, <2>2, <2>3 DEF End, IInv, TypeOK, Told
    <2> QED
      BY <2>2, <2>3, <2>4 DEF IInv
  <1> QED
    BY <1>1, <1>2

LEMMA DeadlineStep ==
  ASSUME IInv, ReturnDocuments \/ (\E due \in Days : ExtendDeadline(due)) \/ StopWaiting
  PROVE  IInv'
  <1>1. log' \in Seq(Rows) /\ Len(log') <= MaxNotices /\ Logged'
    <2>1. CASE ReturnDocuments
      <3>1. Row("request", day + DaysAllowed, 0) \in Rows
        BY <2>1, NewRow DEF ReturnDocuments, IInv, TypeOK, Days
      <3> QED
        BY <2>1, <3>1, QueueKeeps DEF ReturnDocuments, IInv
    <2>2. ASSUME NEW due \in Days, ExtendDeadline(due)
          PROVE  log' \in Seq(Rows) /\ Len(log') <= MaxNotices /\ Logged'
      <3>1. Row("request", due, 0) \in Rows
        BY NewRow DEF Days
      <3> QED
        BY <2>2, <3>1, QueueKeeps DEF ExtendDeadline, IInv
    <2>3. CASE StopWaiting
      BY <2>3 DEF StopWaiting, IInv, TypeOK, Logged, Copies
    <2> QED
      BY <2>1, <2>2, <2>3
  <1>2. returned' \in [due : 0..MaxDay, stamped : BOOLEAN] /\ Reminded'
    BY DeadlineKeeps DEF IInv, ReturnDocuments, ExtendDeadline, StopWaiting
  <1>3. UNCHANGED <<day, office, clicks, run, reminders, excused>>
    BY DEF ReturnDocuments, ExtendDeadline, StopWaiting
  <1>4. TypeOK' /\ Told'
    BY <1>1, <1>2, <1>3 DEF IInv, TypeOK, Told, office
  <1> QED
    BY <1>1, <1>2, <1>4 DEF IInv

LEMMA ReminderStep ==
  ASSUME IInv, NEW r \in Runs,
         RunReminders(r) \/ MailReminder(r) \/ StampReminder(r) \/ KillRun(r)
  PROVE  IInv'
  <1>1. UNCHANGED <<day, office, log, clicks>>
    BY DEF RunReminders, MailReminder, StampReminder, KillRun
  <1>2. /\ returned' \in [due : 0..MaxDay, stamped : BOOLEAN]
        /\ run' \in [Runs -> Holding]
        /\ reminders' \in [Days -> Nat] /\ excused' \in [Days -> Nat] /\ Reminded'
    BY RunKeeps DEF IInv
  <1>3. Told' /\ Logged'
    BY <1>1 DEF IInv, Told, Logged, Copies, office
  <1>4. TypeOK'
    BY <1>1, <1>2 DEF IInv, TypeOK, office
  <1> QED
    BY <1>2, <1>3, <1>4 DEF IInv

LEMMA Step ==
  ASSUME IInv, [Next]_vars
  PROVE  IInv'
  <1>0. day \in Days /\ day >= day /\ log \in Seq(Rows) /\ Len(log) <= MaxNotices
        /\ clicks \in [Clicks -> 0..MaxNotices]
    BY DEF IInv, TypeOK, Days
  <1>1. ASSUME NEW i \in DOMAIN log, Deliver(i) PROVE IInv'
    BY <1>0, <1>1, DeliverKeeps, LogStep DEF Deliver, IInv
  <1>2. ASSUME NEW r \in Clicks, CommitCopy(r) PROVE IInv'
    BY <1>0, <1>2, CopyKeeps, LogStep DEF CommitCopy, IInv
  <1>3. ASSUME NEW r \in Clicks, NEW i \in DOMAIN log, SendAgain(r, i) PROVE IInv'
    BY <1>0, <1>3, ClickKeeps, LogStep DEF SendAgain, IInv
  <1>4. ASSUME MinutePasses \/ DayPasses PROVE IInv'
    <2>1. day' \in Days /\ day' >= day /\ UNCHANGED <<office, clicks, daily>>
      BY <1>0, <1>4 DEF MinutePasses, DayPasses, Days
    <2>2. log' \in Seq(Rows) /\ Len(log') <= MaxNotices /\ Logged'
      BY <1>4, <2>1, AgeKeeps DEF MinutePasses, DayPasses, IInv
    <2> QED
      BY <1>0, <2>1, <2>2, LogStep
  <1>5. CASE UNCHANGED vars
    <2>1. Logged'
      BY <1>5 DEF vars, Logged, Copies, IInv
    <2> QED
      BY <1>0, <1>5, <2>1, LogStep DEF vars
  <1> QED
    BY <1>1, <1>2, <1>3, <1>4, <1>5, ScheduleStep, LetterStep, DeadlineStep, ReminderStep
       DEF Next

LEMMA Invariant == Spec => []IInv
  BY Start, Step, PTL DEF Spec

-----------------------------------------------------------------------------
(* What the runs check *)

(* The variables of the notices keep their types.                          *)
THEOREM Typed == Spec => []TypeOK
  <1>1. IInv => TypeOK
    BY DEF IInv
  <1> QED
    BY <1>1, Invariant, PTL

(* The applicant's portal shows an exam date only when a notice with that  *)
(* date and place was issued (save_exam_schedule).                         *)
THEOREM ShownWasIssued == Spec => []ExamShownWasIssued
  <1>1. IInv => ExamShownWasIssued
    BY DEF IInv, Told, ExamShownWasIssued
  <1> QED
    BY <1>1, Invariant, PTL

(* A notice is sent again once a minute, however many requests ask for it  *)
(* at the same time (resend_notification).                                 *)
THEOREM OneCopy == Spec => []OneCopyAMinute
  <1>1. ASSUME IInv, NEW i \in DOMAIN log PROVE Cardinality(Copies(i)) <= 1
    <2>1. \A j, k \in Copies(i) : j = k
      BY <1>1 DEF IInv, Logged
    <2>2. CASE Copies(i) = {}
      BY <2>2, FS_EmptySet
    <2>3. CASE Copies(i) # {}
      <3>1. PICK j \in Copies(i) : TRUE
        BY <2>3
      <3>2. Copies(i) = {j}
        BY <2>1, <3>1
      <3>3. Cardinality({j}) = 1
        BY FS_Singleton
      <3> QED
        BY <3>2, <3>3
    <2> QED
      BY <2>2, <2>3
  <1>2. IInv => OneCopyAMinute
    BY <1>1 DEF OneCopyAMinute, Copies
  <1> QED
    BY <1>2, Invariant, PTL

(* A deadline is reminded of once, however many runs of the command overlap *)
(* or are killed, and once more for each run that read it while another was  *)
(* at it and each one killed between its email and its stamp                *)
(* (send_resubmission_reminders).                                          *)
THEOREM OneReminder == Spec => []RemindedOnce
  <1>1. ASSUME IInv, NEW d \in Days PROVE reminders[d] <= 1 + excused[d]
    <2>1. /\ reminders[d] \in Nat /\ excused[d] \in Nat
          /\ reminders[d] + Cardinality(Reading(d)) <= excused[d] + 1
      BY <1>1 DEF IInv, TypeOK, Reminded
    <2> QED
      BY <2>1, ReadingFinite
  <1>2. IInv => RemindedOnce
    BY <1>1 DEF RemindedOnce
  <1> QED
    BY <1>2, Invariant, PTL
====
