# RecruitGuard-CHD: TLA+ verification project

RecruitGuard-CHD is a Django application for the recruitment of the City Health
Department: vacancies, public applications, screening, batch examination and
interview, the Comparative Assessment Report (CAR), the Appointing Authority's
or the HRM Chief's selection, and the completion of the appointment.  Nearly all
of its logic is in `src/recruitment/services/` and in the applicant-facing
modules beside it; views decide which operations a page offers.  All state is in
database rows, every service call is (or should be) one transaction, and several
offices and applicants work on the same vacancy at the same time.

This directory models that system in TLA+, checks it with TLC and proves nearly
all of what it checks with TLAPS.

- [Inventory](#inventory)
- [Modules](#modules-and-how-they-correspond-to-the-code)
- [Runs](#runs)
- [What the modelling found](#what-the-modelling-found)
- [Proofs](#proofs)
- [Not modelled](#what-is-not-modelled-and-why)
- [Plan](#plan)

## Inventory

Two branches: *Plantilla* (permanent items: the panel ranks, the Appointing
Authority decides) and *COS* (contract of service: the HRM Chief picks).  Two
levels: the Secretariat takes in Level 1, the HRM Chief Level 2.

| component (source) | state | operations | what makes it correct |
|---|---|---|---|
| workflow map (`services/workflow_map.py`) | none | steps, owner, status and sections of a stage | the tables agree for the four combinations |
| stage machine and routing (`services/routing.py`, `access.py`) | case stage, disposition, handler, lock; application status; overrides | `transition_case`, automatic routing after exam and report, batch loan / recall, single-case override, removal from the batch, boundary repair | status, stage, disposition, handler and lock tell one story; whoever holds a case can work it; nobody is left undecided |
| vacancy (`entries.py`, `entry_views.py`, `forms.py`) | the posting, its checklist, the office policy | create, edit, extend, publish, suspend, close, set active again, cancel | one open posting per item; nobody joins after the exam; what applicants relied on stays |
| intake (`intake.py`, `portal_views.py`, `applicant_hub.py`) | application, applicant identity, one-time code, browser session | start or reuse a draft, verify, submit, resubmit, ask to withdraw, look up | one live application per applicant; one submission; a code proves the inbox it was sent to |
| applicant documents (`applicant_documents.py`, `requirements.py`, `evidence_vault.py`) | parts, versions, the reviewer's rows | add, remove, reuse, rebuild, stage, send again, clean up | what is reviewed is what was sent, and a submission is complete |
| screening (`screening.py`) | screening record per stage, document flags, resubmission deadline | draft / final review, return to the applicant, batch gate | the batch starts when everybody is screened |
| examination and attendance (`exam.py`) | exam record per stage, pending absences | schedule, batch results, absence, both decisions on it | an absentee waits for a decision and for nothing else |
| interview (`interview.py`) | session, panel, ratings by member, rating sheet | schedule, rate by three doors, absent, batch finalization | a result stands on a board of three to five members, once each |
| CAR (`car.py`) | weights, ETE ratings, report versions and items | score, draft, finalize, rank, return | everyone ranked has been assessed, on one split; places follow merit |
| authority (`selection.py`) | selection, report marks | return, no appointment, select, rescind | one appointee, on a standing report; rescission restores exactly the competition |
| COS rounds (`cos_selection.py`) | rounds, members, picks | open, draft and final pick, short close, rescind | a round never appoints more than its slots and decides on all of its members |
| reopening (`reopen.py`) | stage record corrections | reopen a closed case | a case comes back where it left, and nobody re-enters a decided competition |
| completion (`completion.py`) | completion record | track, close | belongs to the standing selection |
| notices (`notification_services.py`, commands) | notification log, schedules, reminder stamp | queue, deliver, send again, remind | the applicant was told what the portal shows; once |
| staff accounts (`identity.py`, `identity_views.py`) | accounts, pending address changes, password history, sign-in attempts, codes | create, change, confirm, sign in, unlock | addresses are unique, somebody administers, locks and codes mean what they say |
| row locks (`common.locks_workflow_row`) | row locks of one transaction | lock the case's or the vacancy's row | overlapping requests do not overwrite each other |
| evidence storage, audit, references, admin, templates | their own rows | | see "not modelled" |

How they interact: by direct calls inside one transaction.  Every movement of a
case ends in `routing.transition_case`.  Batch steps loop over the pool of a
vacancy and are all-or-nothing.  The components share the case row, so what one
office reads can be changed by another before it writes.  There are no worker
processes; emails go out after the commit, in the same request.  The clock
matters in four places: the closing date of a vacancy, the expiry of codes and
locks, the deadline for returned documents with its daily reminder run, and the
clean-up of abandoned drafts.

What is hard here: (1) operations of five offices and the applicant in any
order over a long life of a case (close, reopen, rescind, reschedule, lend,
recall); (2) facts recorded at one stage and used at another (an absence that
outlives the stage it was recorded at, the frozen membership of a round, the
items of a report, an accepted document that is replaced); (3) pools: one late,
lent, returned or absent candidate changes what the whole batch may do;
(4) requests that overlap: about half of the operations lock a row, and
`transition_case` writes what its caller read; (5) processes that end between
two steps: a mail sent but not stamped, a password saved but the old one not remembered.
`PROJECT.json` lists each as a hazard with its line and the properties that
cover it.

## Modules and how they correspond to the code

```
WorkflowMap            pure tables                         workflow_map.py
  CaseWorkflow         state + operations of both branches,  routing, access, entries, intake, screening,
                       and the pages that offer them         exam, interview, reopen, completion, views/
    PlantillaVacancy   + CAR and authority: Init, Next,     car.py, selection.py
                         fairness, refinement
      AuthorityRace    + requests that read, then commit    common.locks_workflow_row, transition_case
    CosVacancy         + selection rounds: Init, Next       cos_selection.py, selection.record_final_decision
CaseLifecycle          what both branches promise (abstract)
InterviewPanel         panel, members, three ways to rate   interview.py, access.py, entries.py
CandidateAssessment    weights, sheet, marks, ranks         car.py, entries.py, interview.py, exam.py
VacancySetup           the posting and its forms            entries.py, entry_views.py, forms.py
ApplicantPortal        drafts, codes, browsers              intake.py, portal_views.py, applicant_hub.py
ApplicantDocuments     parts, versions, verdicts            applicant_documents.py, evidence_vault.py, screening.py
Notices                log, schedules, reminders            notification_services.py, exam.py, commands
StaffAccounts          accounts and sign-in                 identity.py, identity_views.py
MC*                    symmetry and bounds for TLC

CaseWorkflow_proofs          lemmas on the operations both branches share
  PlantillaVacancy_proofs    PlantillaVacancy, its refinement, AuthorityRace
  CosVacancy_proofs          CosVacancy, its refinement
ApplicantPortal_proofs       ApplicantDocuments_proofs       Notices_proofs
Assessment_proofs            InterviewPanel and CandidateAssessment
Administration_proofs        VacancySetup and StaffAccounts
```

**WorkflowMap** has the tables of `workflow_map.py` as operators.  An open review
stage and its application status have the same name in the source, so one string
stands for both.

**CaseWorkflow** is one vacancy and its applications `Apps`.

- `case[a]` is the case row and the application's status: `status`, `stage`,
  `caseStatus` (the disposition), `handler`, `locked`, `lockedStage`.  The
  application's own copy of the handler is always written with the case's and is
  not kept separately.
- `overrides` is the set of applications with an active secretariat override.
- `file[a]` are the records kept on an application: the screening verdict and
  flag and the exam result per screening stage, whether the exam was notified,
  the interview session, the pending absence per assessment (with the stage it
  was recorded at), and the progress of the completion record.  Scores, dates,
  remarks and documents are abstracted to what guards ask: a verdict, a result,
  "no / some / a quorum of ratings", "tracked / contract reference recorded /
  ready to close".
- `posting` is the vacancy's status and where today is in its intake period.

`Moved(row, status, handler)` is what `transition_case` computes; `Transition`
applies it to a set of cases under the alignment guard of
`_ensure_case_stage_alignment`.  Every operation is one action with the guards of
the service (and of the view that is its only caller) and all that follows in
the same transaction: finalizing the batch exam also records absences, rejects
waived candidates, routes the others and consumes the overrides of those who
leave the Secretariat.  `CaseStep` is built page by page, as the office sees it:
`ScreeningPage`, `ExamConsole`, `InterviewConsole`, `HandOffPage`, `AbsencePage`,
`CompletionPage` are the post handlers of `views/` and name the operations a
page dispatches to.

**PlantillaVacancy** adds `car` (drafted, finalized and not returned, its items)
and `selection` (the applicant the standing selection names).  A rescinded
selection and a returned report are history that no guard reads, so only the
standing ones are kept.  **CosVacancy** adds `round` (the latest one: status,
slots, frozen members), `picks` (its standing picks) and `earlier` (standing
picks of earlier rounds: only the latest round can be rescinded).

**CaseLifecycle** is the abstract specification: each application is a draft,
open, appointed, or out for one of three reasons; at most `Capacity`
appointments stand; whoever left comes back only while nobody else is appointed,
or because an appointment is taken back.  `PlantillaVacancy!Lifecycle` and
`CosVacancy!Lifecycle` instantiate it with a refinement mapping (`phase` from the
application's status, `selected` from the standing selection or picks, `Capacity`
1 or the positions), and `KeepsTheLifecycle` says that every behaviour of the
detailed vacancy is one of the abstract.

**AuthorityRace** starts with every case at the authority on a finalized report
and runs the operations that meet there in two steps: a request *reads* (checks
its guards and works out its rows) and later *commits* them.  That is READ
COMMITTED as the code uses it.  An operation decorated with
`locks_workflow_row("vacancy...")` holds the vacancy's row from before its read,
so two such requests never overlap.  `transition_case` locks the case row with
`refresh=False`: the lock makes a second writer wait for the first, and the
second then writes what it had read.  Waiting changes the order of commits only,
so it needs no state of its own.  A deadlock of the two orders in which rows are
locked, or any error, is `RollBack`.  `current` records whether the selection or
report row a rescission or return has read was marked by another request of the
same kind in between, because such a request saves the mark on the old row again.  A
request whose row is stale marks that old row only: what others have read stays current.

**InterviewPanel** follows the panel interviews member by member, which
CaseWorkflow counts only up to a quorum: the standing panel and the vacancy's
end users, sessions, online ratings (`ratings`) and paper sheets (`sheets`).
`RateOnline`, `EncodeRating` and `UploadSheet` are the three doors.

**CandidateAssessment** computes: screening, exam and interview marks become
component scores and a total with the rounding of `_quantize_score`, and the
report ranks them.  Weights and rating sheet are edited until scoring locks them,
unlocked for a correction and locked again; the report is drafted, finalized,
returned.  `TopFiveIsMerit` states the reference definition the ranking loop of
`_car_draft_candidate_rows` and `car_item_is_within_top_five` are checked against.

**VacancySetup** is the posting's own row: kind, dates, status, checklist, the
policy on extensions, another posting of the same item (`rival`), and of the
applicants only what each was complete with.  `UpdateStatus` offers every status the
view's address admits: all but cancelled, so that a published vacancy can be a draft
again (`Offered`; `entry_views.py:317-328`), where the form asks less (`MayExtend`).
`redrafted` is a history variable for that route.

**ApplicantPortal** has the applications of a vacancy as a sequence, the browsers'
verified sessions and the requests in flight: `StartRead`/`StartSave` and
`SubmitRead`/`SubmitSave` split what the code reads and writes without a lock.
A code carries the address it was made for, as the hash in the source does.

**ApplicantDocuments** keeps for each requirement the files added to it
(`parts`), the current versions in the vault, and the reviewer's row.  Any number of
`Requests` overlap: uploads and removals (`BeginEdit`, `FinishEdit`), the saved answers
that may drop the rating (`SaveAnswers`, `AnswersSaved`), submissions and resubmissions
read in one step and write in another, with no row locked between (the version a write
follows may then be gone, and the request is refused: `Follows`).  `met` is a history
variable: the kinds of request that were in flight while a document was being changed.
The clean-up after a submission is a step of its own, and the process may end before it
(`CrashBeforePurge`).  `SaveReview` is one step: the case's row is locked before the
review reads the documents (`screening.py:420`), and a resubmission moves the case.

**Notices** has the notification log, the exam and interview schedules with what
was announced of them, requests to send a row again, and any number of reminder runs
(`Runs`), each in its three steps (find, mail, stamp), which `KillRun` may cut short.
Nothing keeps two runs apart and none looks at the stamp again before it mails.
`excused` counts for each deadline the runs that read it while another was at it and
those killed between the email and its stamp.

**StaffAccounts** has the accounts with their addresses and pending changes, the
passwords and what is remembered of them, and the sign-in of one account from
several browsers: the lock is read, the password checked and the failure counted
in separate transactions.  A change of password saves the new one, then remembers the
old one, then the new one, and may end after each (`got`; `noted` says whether the
present one was remembered).  The cooldown of a code is read before the transaction that
issues one (`CooledDown`, `BeginIssue`, `CommitIssue`), so issues overlap: one voids the
codes it found when it began, and `HeldByIssue` keeps a code it is voiding from being
entered meanwhile.  The definitions every specification has (initial states, steps,
types) carry a prefix here and in InterviewPanel (`AccountsNext`, `PanelInit`), because one
proof module reasons about each of them beside another module.

Definitions whose name starts with `Faulty` are small slips of the definition
below them.  No specification uses them; they are what the mutation runs in
`PROJECT.json` substitute, to show that each property notices a bug of this code.

## Runs

Deadlock is not checked because every part may really stop: everybody is closed
and the vacancy cancelled, the log is full, the clock has reached its bound.

| run | instance | asks |
|---|---|---|
| `plantilla_level1` | Level 1, 2 applicants, cutoff `contract_recorded` | the whole Plantilla life cycle: six properties of selection, rescission and reopening, and the refinement of `CaseLifecycle` |
| `plantilla_one_case` | Level 2, 1 applicant, cutoff `never`, no constraint, `FairSpec` | every state of one case; alignment, overrides, absences, and that it is decided in the end |
| `cos_one_batch` | Level 2, 2 applicants, 1 position | the single round: pick, short close, rescission, second pick, and the refinement |
| `cos_open_pool` | Level 1, 2 applicants, rounds of 1 or 2 slots | successive rounds of a vacancy with continuous intake |
| `authority_race` | 2 applicants, 3 overlapping requests of 7 kinds | what the vacancy's row lock does guarantee |
| `portal` | 2 addresses, 2 browsers, 2 applications, 2 codes, 1 wrong try, 2 office moves | drafts, codes and submissions that interleave |
| `documents` | 2 requirements, 2 files, 2 parts, 3 versions, 2 requests | the documents of one application, changed and sent by two overlapping requests, through submission, returns and clean-up |
| `notices` | 3 days, 3 notices, 2 copies at once, 2 reminder runs | schedules, failed mail, reminders |
| `assessment` | 3 candidates of two kinds, 2 splits, top 2 | ranks with ties, locks of weights and sheet |
| `setup` | 3 days, default period 2, 1 forced and 1 optional document | every form of the posting, for the three kinds of vacancy |
| `accounts` | 3 accounts and addresses, 4 passwords, 2 browsers, memory of 2 | uniqueness, administration, history, locks, codes |
| `claim_one_door_each` | 3 members, 2 candidates | one statement of the repository, violated |

### Properties

- `CaseAlignment`: status, stage, disposition, lock and handler agree, the stage
  belongs to the branch and level, and another office holds a case only on loan
  at its intake stage.
- `SecretariatHoldsByOverride`: a Level 2 case with the Secretariat has an active
  override, through loans, grants, returns and recalls in any order.
- `ParkedForAbsence`: an open case with a finalized exam it has not left, or a
  missed interview, waits for a decision somebody can take.
- `DecidedInTheEnd` (liveness): whoever applied is decided, or is in one of two
  states the code really can leave a case in (see "What the modelling found").
- `AppointedIsSelected`, `AppointedIsPicked`: nobody is approved, in completion or
  closed there without a standing selection; in COS the live completion record
  included.
- `ScoredBeforeAuthority`: absent, waived and unassessed candidates do not reach
  the authority.
- `CompletionFollowsSelection`: a live completion record belongs to the standing
  selection.
- `NotSelectedStayClosed`: while a selection stands the rest of its competition is
  closed.
- `NotPickedAreDecided`: the step that decides a one-batch round leaves no member active
  but those picked, and whom it closed stays closed while the decision stands.
- `SlotsMatchStatus`: the round's status, slots and picks agree.
- `EarlierRoundsStand`: earlier picks are never dropped, and the end of an
  open-pool round closes nobody.
- `ReopenedWhereItLeft`: a closed case comes back only to the step it was closed at.
- `AppointeeStays`, `PickedStayAppointed`: an appointee stays one until the
  selection is taken back, unless an absence was still to be decided.
- `KeepsTheLifecycle`: the refinement of `CaseLifecycle`, for both branches.
- `DecisionsDoNotOverlap`: with overlapping requests, a selection is recorded only
  when none stands and a decision taken at the same time never closes the appointee.
- `OneLiveApplicationEach`, `AcknowledgedOnce`, `LateCodeProvesNothing`: one live
  application per applicant, one acknowledgement per submission, and a code proves
  only the address it was sent to.
- `SubmittedComplete`, `DocumentMatchesParts`, `AcceptedIsShown`: a submission has
  all its documents with their contents, a document is made of the files on the
  page, an accepted one is the one shown.  Each holds however requests overlap, except
  for a document that was itself being changed by another request (for the second) or
  during a submission (for the first and third): `met`.
- `ExamShownWasIssued`, `OneCopyAMinute`, `RemindedOnce`: the portal shows an exam
  only as announced, a lost notice is copied once a minute, a deadline reminded of once,
  and once more for each run that overlapped another at it or was killed before it
  stamped the deadline.
- `TopFiveIsMerit`, `OneSplitUnlessUnlocked`, `ScoresSurvive`: places follow merit
  with ties, one split for everybody, no score lost to an edit of the sheet.
- `CompleteStaysComplete`, `NoSecondBatch`, `OneOpenPostingPerItem`: what was asked
  of an applicant on the day stays enough, nobody joins after the exam unless the policy
  allowed it or the date was moved while the vacancy was a draft again, one open
  posting per item.
- `OneEmailEach`, `AnAdminRemains`, `LockKeepsItsEnd`: as named.
  `RecentPasswordsDiffer`: a new password is none of the last ones, wherever earlier
  changes ended, except one whose own change and the next both ended before
  remembering it.  `NoReplacedCodeSignsIn`: a code that a later issue found and voided
  signs nobody in, in any browser.
- `TypeOK` of the Plantilla vacancy; the other modules' `TypeOK` are there for the
  reader and for the proofs.

### Fairness

`FairSpec` (PlantillaVacancy) assumes that offices work: screening a case,
scheduling and holding the exam, rating, finalizing the interviews, drafting and
finalizing the report, and deciding are each used in the end if they are offered
again and again (strong fairness, because a loan or a return for documents
takes the page away for a while), and days pass (weak fairness).  Nothing is assumed of
the applicant, of loans and recalls, of reopenings or of rescissions: they may
happen for ever, or never.  Neither is it assumed that the office recalls a case it
has lent: whoever holds the case has the pages.  A returned case does not wait for
its applicant, because the office may also judge it as it is or remove it
from the batch.  No other run assumes fairness.

### Bounds

- Two applicants: the statements relate one candidate to the rest of its pool or to
  the appointee, so two are the smallest pool with a winner and a loser, a lent and
  a kept case, a batch with one absentee.  Applicants are symmetric.  The liveness
  run has one: with two, the behaviour graph is beyond a run of minutes.
- `NotSuspended` (`plantilla_level1`): the vacancy is never suspended.  Only
  submission asks for the status "active" and only the batch gate for "closed";
  `plantilla_one_case` has no such bound.
- `RoundsOnly` (COS runs): the vacancy stays in its intake period (no COS step asks
  for it once everybody has applied), nothing is flagged and nobody misses the exam;
  absences at the interview remain.  `RoundOfActiveVacancy` (`cos_one_batch`) also
  leaves out the cancellation, which the open-pool run has.
- `Positions = 1` in the one-batch run.  In the open pool the HRM Chief chooses the
  slots of each round among 1 and 2.
- `portal`: `MaxApps`, `MaxCodes`, `MaxTries`, `MaxMoves` bound what is counted: two
  applications are a race for one, two codes a code that was replaced, one wrong try a
  locked code, two office moves a return and a correction of the address.
- `documents`: two requests that overlap are enough for every statement, which relates a
  change of a document to one other request.  Two files distinguish order and
  replacement, three versions a document sent twice again.  `OneMeeting` and
  `PlainOnceSubmitted` bound the states: of the draft those are followed in which at most
  one document was changed during another request; past its submission an application
  whose documents met no other request and have one file each.  What happens to documents
  that met is left out of the properties in any case, and the theorems have neither bound.
- `notices`: `OneSubject` follows the exam, the interview, the outcome or the returned
  documents in a behaviour; they share nothing but the log.  Two runs are an overlap;
  `MaxExcused = 2` is an overlap and a kill of one deadline.
- `assessment`: `N = 3` with `TopLimit = 2` makes a tie across the last place; marks are
  chosen so that rounding makes the tie on one split and not on the other.
  `OneSubject`: at most one candidate leaves, and a behaviour edits the weights or the
  sheet: what they have in common is the scoring that locks both.
- `setup`: three days are before, on and after a date; period 2 makes the default closing
  date differ from the opening one.
- `accounts`: `OneSubject` follows the accounts and addresses, the passwords of one
  account, or its sign-in, whose variables are disjoint.  Four passwords and three changes
  are a memory of two and one more, with two changes that end early.  Two failures lock; a
  lock, a count of failures and a code last two units of a clock of three.
- `claim_one_door_each`: three members make a board.

The largest runs are `documents` (4.1 million distinct states), `assessment` (1.9
million) and `portal` (1.7 million); each ends within two and a half minutes on two cores.

## What the modelling found

### A disagreement between code and comment

`claim_one_door_each`: `models.py:2867-2868` says of the paper sheet, "The same member
cannot rate twice through two doors: one digital rating and one paper sheet would count
as two raters toward the quorum".  The sheet is indeed refused after an online rating;
the other order is not checked.  In six steps: the panel is seated, an interview is
scheduled, its time comes, a sheet of a member is uploaded, and the member rates online
(or the office encodes the rating): `save_interview_rating` (`interview.py:623`) has no
look at the sheets.  The quorum counts distinct members (`BoardWhenFinal`, proved), but
`_average_interview_rating` (`interview.py:287-296`) averages both scores.

### Other behaviour a reader of the models should know

Each is a sequence of legal calls that a module here reaches, without a run of its own.

- A candidate finalized as absent whose case is closed and reopened gets an open session
  that still says absent; a panel member may rate it, and then it can neither be
  finalized with ratings nor lose them (`RatedNoShow`; `reopen.py:211-281` keeps the
  attendance, `interview.py:365-370` refuses).  `DecidedInTheEnd` excepts it.
- `repair_auto_advance_workflow_boundaries` (`routing.py:601`) asks only for a finalized
  exam and moves an absentee whose decision is pending to the panel, where nothing
  finalizes the exam (`UnexaminedAtPanel`, excepted as well; `exam.py:667-669` says the
  case waits).
- In a one-batch COS vacancy a frozen member who was reopened and then marked absent can
  be picked with the absence undecided (`cos_selection.py:169`); a candidate who reaches
  the deliberation after its round was opened is left there (`cos_selection.py:401`).
- A rescission restores more than its docstring says (`cos_selection.py:657-659`: members
  "closed as not selected").  `rescind_cos_vacancy_deliberation` (`cos_selection.py:695-702`)
  takes back every member of the round whose case is rejected: also one whose records
  were reopened while the round was open and who was then screened Not Qualified at the
  Chief's step.  In an open
  pool that applicant can be picked again with the verdict still Not Qualified; in a batch
  the case holds back the exam of the others.  The Secretariat's verdict at Level 1 cannot
  be passed by in this way (`AppointedWereHeard`).
- A frozen member whose documents are with the applicant when the round is decided is
  neither picked nor closed: `_close_cos_round_unpicked` closes active cases only
  (`cos_selection.py:889-895`).  When the applicant answers, an active case stands in a
  decided vacancy.  `NotPickedAreDecided` is stated on steps for this reason: as a
  statement about states ("no member is active while the decision stands") it is false.
- A withdrawal that commits while a decision that had read the case is open is
  overwritten with a rejection (`routing.py:834`); a return for correction, a rescission
  or a sibling's reopening that read the vacancy before a selection commits lands after
  it (`selection.py:750`, `1174`, `reopen.py:338`).
- A panel that exceeds five raters cannot be finalized, and no page takes a rating off:
  the encoding form offers every active member, not only the panel.
- The candidates of a returned report are not in the Secretariat's queue
  (`access.py:27-88`) though the page works.
- A rater of a vacancy without a named panel can be left off when its first end users
  are set: `set_vacancy_panel_end_users` keeps only raters who already are end users.
- A reschedule of an interview keeps the ratings given before; uploading a sheet locks
  the rating template but not the weights, which an online rating locks too.
- Two uploads to one requirement at the same time leave a document without one of the
  files, more files than `MAX_PARTS_PER_DOCUMENT`, or two current versions
  (`applicant_documents.py:249-302`: no row is locked between the read and the write).  A
  removal, or an answer "not applicable" taken back, that is in flight while the application
  is submitted leaves the submission without a document or with an older one
  (`portal_views.py:849-874`).  These are what `met` leaves out of the properties; without
  that exception TLC refutes each of the three with two requests.
- A verdict posted from a page opened before a resubmission is recorded for the version
  shown when it is saved, which that page did not show (`screening.py:268-335`).
- A vacancy with a scheduled exam can be made a draft again through the status address
  (`entry_views.py:317-328`, `entries.py:594-664`), given a later closing date there, since
  the form asks a draft nothing (`forms.py:3498-3504`), and set active: people join after
  the exam though the policy never allowed it.
- A change of password that ends right after the save (`identity_views.py:218-222`,
  `276-281`) remembers nothing.  One of them does no harm to a password whose own change
  finished.  Two in a row do: w1 to w2 and w2 to w3, both cut short, then w3 to w2 is accepted.
- Two sign-ins that ask for a code at the same time both pass the cooldown and neither
  voids the other's code (`identity.py:665-693`): both codes sign in.
- Two reminder runs that overlap both mail a deadline
  (`send_resubmission_reminders.py:30-48`, `intake.py:1010-1034`).
- Two administrators who deactivate each other in requests that overlap leave no
  administrator (`identity_views.py:569-582`, no row locked).  StaffAccounts has each as one
  step, so `AnAdminRemains` covers only the requests one after the other.
- An interview date saved without the notice option is on the portal without a notice;
  a superseded schedule still in the future can be sent again; a row of the log written by
  a request that ends between commit and delivery stays pending until it is sent again.
- A reminder run that meets an extension mails the old deadline and stamps the new one.
- After the weights were unlocked the report may stand on another split than the exam
  scores; an edit of the weights or of the sheet that overlaps the first rating writes a
  draft back over the lock.
- A closed open-pool vacancy has a closing date and can never be active again, though the
  list offers it; a vacancy set active again on its closing day takes applicants after the
  exam was scheduled that day; an edit may blank the qualification standards of an active
  one; the checklist is saved by a second transaction.
- A cancelled vacancy keeps a live application that was being submitted
  (`intake.py:1361`).

## Proofs

TLC checks the small instances above; the theorems hold for every value of the constants.
All are checked by TLAPS with Z3, Zenon and LS4 only.  Each proof module goes the same
way: lemmas on the operators the model is built from, one lemma for each operation that
says what it keeps, a lemma that joins them along `Next`, then the theorems.  The
inductive invariants were found with TLC on the runs' instances first.

Assumptions are those the modules state: the level is one of two, `NoApp` is no
application, the cutoff is one the policy form offers, times and limits are natural
numbers, `None` is not a name in use.  CosVacancy also assumes finitely many applications,
because a round counts its picks; nothing else asks for finiteness of the applications.

**CaseWorkflow_proofs** has what the two branches share.  The branches differ in who may be
appointed, so its lemmas take that set as a parameter: `Standing(rows, S)` says that every
row is a *good row* (status, stage, disposition, lock and handler agree) and that only
applications of `S` are approved or in completion.  `CaseAlignment` alone is almost
inductive: `transition_case` writes the five fields together, but reopening, loans and
overrides write some by hand.  Most lemmas only have to show that the stage an operation
asks for excludes whoever is appointed.

**PlantillaVacancy_proofs**: any finite or infinite set of applications, either level,
any cutoff.

- `IInv` is `RecordsOK` (types), the types of report and selection, and
  `Standing(case, Selected)`: from it `TypeCorrect`, `Aligned` and
  `OnlyTheSelectedIsAppointed`, which is not inductive by itself.
- `ImplementsLifecycle`, the refinement of `CaseLifecycle`: `StepSimulation` maps every
  step to a step of the lifecycle or to a stutter.  Where a movement takes an application
  follows from the status it is given (`LifecycleMove`); where it comes from follows from
  its good row, because the guards of the code speak of stage, lock and disposition and
  only the invariant turns those into "open", "appointed" or "left".
- `CompetitionDecided` is the invariant for `TheOthersStayClosed` and `BackWhereTheyLeft`:
  while a selection stands, its report does, and those not selected were closed at the
  authority's step.  Without the last part a rescission could not be known to restore them
  where they were.
- `AppointeeKept`, `CompletionIsTheSelections` and `SecretariatHasItsOverride` are
  inductive given `IInv`.  The last goes through every operation that moves a case: which
  office receives it, and what becomes of the overrides in the same step.
- `ScoredAtAuthority` and `NobodyParked` rest on `RecordsKept`.  A record is made at one
  step and asked for at another, after returns, loans, reopenings and rescissions.  The
  invariant says what the records of a case are at the step it is at or, if closed, the
  step it would be reopened at: past intake it was found qualified, at a late step it sat
  its exam and interview, held by a finalized sitting it has an absence filed, and
  everybody on a finalized report is at a late step, which a rescission that restores them
  needs.  Nobody at a late step goes back, except by the return of a report.
- Requests that overlap (AuthorityRace), for any number of them: `RaceInvariance`,
  `RaceAppointsTheSelected`, `RaceAligned`, `DecisionsKeptApart`.  `RaceOK` speaks of every
  open request: the rows it is going to write are good ones and appoint nobody but the
  applicant it selects; two requests that lock the vacancy's row are never open together;
  one that decides is open only while no selection stands; and a rescission whose selection
  row nobody marked since takes the appointee's row along.  That is why rows written over
  another commit cannot appoint anybody else.

**CosVacancy_proofs**: either level, any number of positions, a batch or an open pool.

- `IInv` adds to `Standing(case, Selected)`, with all standing picks as those who may be
  appointed: the picks fit the latest round (`RoundOK`), a member of a round is never the
  pick of an earlier one, a batch has one round of all its positions (`BatchOK`), and a live
  completion record belongs to a pick.  From it `TypeCorrect`, `Aligned`,
  `OnlyThePickedAreAppointed` and `SlotsAgree`.
- `PositionsAreEnough` joins the two: in a single batch the approved are among the picks, and
  the picks are no more than the positions.
- `TheOthersAreDecided`, `EarlierPicksStand`, `PickedAreKept` are about steps: what a round
  that ends closes, what a later round may not touch, and how a pick is lost.
- `ImplementsLifecycle`, for the same abstract lifecycle, with the positions of a batch, or
  the number of applicants of an open pool, as its capacity.
- `SecretariatHasItsOverride`, as for the Plantilla vacancy, through the lemmas on overrides
  both proofs take from CaseWorkflow_proofs.
- `NobodyParked` and `AppointedWereHeard` rest on `RecordsKept`.  A round freezes its members
  when it opens, and neither a pick nor a rescission that restores a member asks for a record
  again; between the two a case can be closed, its records reopened, its sitting
  rescheduled or recorded again.  So the invariant says, besides what the records of each case are at its
  step, that every member of the latest round keeps a scored interview with no absence of it
  to decide: who was scored cannot become an absentee, since ratings outlast a reopening.
  `AppointedHeard` says what follows for the appointed; no run has it as a property.  At the
  Chief's step it does not claim a verdict of Qualified, which is not invariant (see "What
  the modelling found").

**ApplicantPortal_proofs**: any addresses, browsers, applications, tries and codes.  That an
applicant has one live application (`OneLiveApplication`) has two halves: for an identity
the start found, the database refuses the second insert; for one it creates, no application
can have it yet, which rests on how identities and applications are numbered (`Owned`,
`Numbered`) and on what a request read being still on file when it writes (`Pending`).
`Acknowledged` needs that a draft has no receipt.  `OnlyItsOwnCode` is read off the steps.

**ApplicantDocuments_proofs**: any requirements, files, parts, versions and requests that
overlap; no hypothesis beside the constants'.  While the application is a draft, a document
that no two changes have met is `Undisturbed`: one current version, made of its parts, and at
most one change of it in flight, for which all it read is still so.  From the moment a
submission has made its checks, a document that was not being changed meanwhile is not
changed until a resubmission (`Late`).  A resubmission that another has overtaken follows a
version no longer current, and is refused.  From these `CompleteOnceSubmitted`,
`MadeOfItsParts` and `AcceptedVersionShown`.

**Notices_proofs**: any pages, venues, runs and days.  `ShownWasIssued` is inductive.
`OneCopy` needs that requests hold different rows and that a row held has no recent copy
(`Logged`).  `OneReminder` counts (`Reminded`): the reminders of a deadline and the runs about
to mail it are at most one more than what is excused, and one less while a run that would find
it unstamped and nobody at it could still start; and deadlines only grow past what was
reminded of, because an extension sets a deadline further ahead than a reminder looks.

**Assessment_proofs**: any members, candidates, marks and splits.  `BoardStands`: a finalized
session stands on three to five different members, or on an absence without ratings,
whatever the office does to panel and accounts afterwards; it is inductive given the types,
since the count is taken when the session is finalized and no door opens after that.
`EndUsersWhoRatedStay` is read off the steps.  `SplitStands` and `RatingsSurvive` rest on a
lock: a candidate past the exam has locked the weights, one with interview scores the sheet.
`PlacesFollowMerit` has three parts.  The sorted order exists: put each candidate at one more
than the number of those ahead of it, which is a bijection because the order is total.  The
places the loop hands out, equal scores sharing one, are one more than the number of better
scores; a least position at which this fails would contradict the position before it.  And
the ranks of a report are always those of its own scores, through drafting, finalizing and
returning it.

**Administration_proofs**: the posting, for any clock, period and set of documents, and the
accounts, for any number of them.

- `ItemFilledOnce` and `NobodyAskedAgain` are inductive given the types.
  `BatchSitsTogether` is not: it needs `PoolOK`, which says that the exam found a pool
  closed by its date, and that no form moves that date later unless the policy lets it or the
  vacancy is a draft again.  The edit that leaves the kind or the date out, the closing of a
  posting without date and the setting active again on the closing day decide it.
- `OneAccountPerAddress` and `AdministratorLeft` need that an active account exists
  (`AccountsOK`).  `LockNeverMoves` is read off the steps: the transactions of sign-ins that
  overlap can only count up to a lock, never past it.  `ReplacedCodeIsDead` needs
  `CodesOK` (`FoundCodesAreVoid`): every code that a committed issue found when it began is
  used, whichever issues overlapped.
- `NoRecentPasswordAgain` needs `PasswordsOK`: what is remembered is a window of what was
  used, the newest old passwords, preceded by the present one when its change finished
  (`HistoryFollowsUse`).  A change that ended early is made up for by the next, which looks at
  the present password and remembers it, unless that one ends before it remembers anything.

Only model-checked:

- `DecidedInTheEnd`: liveness under fairness is out of their reach;
- `OneDoorEach` is false, see above.

Every other property of the runs is stated by a theorem.

## What is not modelled, and why

- **Evidence storage**: encryption, file formats, storage quotas, malware scan hooks and
  downloads are input and output.  The versions and their currency are in
  ApplicantDocuments.
- **Audit trail**: every operation appends an entry and nothing reads them for a decision;
  the hash chain over them is arithmetic on data that no state depends on.
- **References, admin, templates, static files, deployment**: lookups and presentation.
- **Bell notifications** and wording of messages: they decide nothing.
- **Draft answers, captcha, rate limits, password reset mail**: the answers do not guard
  anything but the performance rating (CandidateAssessment has it); a rate limit or captcha only removes
  attempts, which the models may also do.
- **Qualification texts, justification rules, decision packets**: the form fields they
  require are taken as filled in.  The standards appear in VacancySetup as present or not.
- **Completion requirement rows and deadlines**: CaseWorkflow keeps how far the record has
  come, which is what the guards ask.
- **Dates of exam and interview in CaseWorkflow**: an exam can be scheduled and held at any
  time after its guard holds; Notices has the dates.
- **Exam results outside the batch**: the services exist; the views refuse them because every
  vacancy uses the batch exam (`vacancy_uses_batch_exam` is always true).  The same holds
  for the deliberation of a single case, kept for old records.
- **Overlapping requests** other than those of the authority (AuthorityRace), of the
  portal, of the documents, of the sign-in and its codes, and of the notices and reminder
  runs.  Elsewhere an operation is one step, which is exact where the code locks the row
  first, and an abstraction where it does not (changes of accounts among them).
- **Crashes**: an operation in one transaction is all or nothing, so the models have no
  half-done step there; where the code works after the commit (mail, clean-up, the
  reminder's stamp, the password history) the half-done state is modelled.

## Plan

Done, in this order: the workflow map and the case life cycle with both branches; the
requests that overlap at the authority; then intake, documents, notices, assessment,
posting, accounts and the panel; the abstract life cycle, refined by both branches; the
liveness of one case; the proofs of the Plantilla vacancy, then of the COS rounds, the
portal, the documents, the notices, the marks, the password history and the requests at
the authority; the overrides and records of the COS branch and the places of a report.

Left, by what it would say about the system:

- requests on accounts that overlap (two administrators who deactivate each other);
- a loan of a batch that overlaps a finalization, and the attempt counter of a code, as
  steps of two (hazards without a property); progress of a batch of two.
