---------------------------- MODULE ApplicantPortal ----------------------------
(***************************************************************************)
(* The applicants' side of one vacancy: an accountless applicant starts an *)
(* application with an e-mail address, proves the inbox with a one-time    *)
(* code, works on the draft for as long as the browser stays verified,     *)
(* submits it, follows it through My Applications and the status page and  *)
(* sends returned documents again, while the office returns, closes,       *)
(* withdraws and reopens it or corrects its address.                       *)
(*                                                                         *)
(* Starting and submitting are requests that read first and write later,   *)
(* without a row lock; everything else is one step.  Applications and      *)
(* applicant identities are numbered in the order they are created.        *)
(***************************************************************************)
EXTENDS Naturals, FiniteSets, FiniteSetsExt

CONSTANTS
  Emails,        \* the e-mail addresses people type
  Browsers,      \* browser sessions
  MaxApps,       \* bound on the applications ever started
  MaxTries,      \* wrong codes before a code is locked
  MaxCodes,      \* bound on the codes ever issued
  MaxMoves,      \* bound on what the office ever does
  None           \* no address, no request

ASSUME PortalAssumption ==
  /\ MaxApps \in Nat \ {0}
  /\ MaxTries \in Nat \ {0}
  /\ MaxCodes \in Nat
  /\ MaxMoves \in Nat
  /\ None \notin Emails \cup {"start", "submit"}

VARIABLES
  intake,        \* "open", "closed" or "cancelled": the vacancy's public period
  app,           \* the applications
  identity,      \* the e-mail of each applicant identity
  opened,        \* the applications each browser may open
  request,       \* the start or submission each browser has in flight
  issued,        \* codes issued so far, for MaxCodes
  moves          \* what the office did so far, for MaxMoves

vars == <<intake, app, identity, opened, request, issued, moves>>

--------------------------------------------------------------------------------
(* The records *)

Apps == 1..MaxApps
Identities == 1..MaxApps

Statuses ==
  {"none", "draft", "review", "returned", "decided", "withdrawn", "cancelled"}

(* Statuses that leave the way free for a new application. *)
ReapplicationStatuses == {"withdrawn", "cancelled"}

EndedStatuses == {"decided"} \cup ReapplicationStatuses

(* A one-time code that has not expired: the address it was made for and    *)
(* the wrong tries.  The resend cooldown only delays a code, and a code     *)
(* whose mail failed is one nobody enters.                                  *)
Codes == [to : Emails \cup {None}, tries : 0..MaxTries]

NoCode == [to |-> None, tries |-> 0]

NewCode(to) == [to |-> to, tries |-> 0]

Applications ==
  [status : Statuses, email : Emails \cup {None}, owner : Identities \cup {0},
   code : Codes, verified : BOOLEAN, receipts : 0..2, asked : BOOLEAN]

NoApplication ==
  [status |-> "none", email |-> None, owner |-> 0, code |-> NoCode,
   verified |-> FALSE, receipts |-> 0, asked |-> FALSE]

NoRequest == [op |-> None]

Requests ==
  [op : {None}]
    \cup [op : {"start"}, email : Emails, owner : Identities \cup {0}]
    \cup [op : {"submit"}, app : Apps]

TypeOK ==
  /\ intake \in {"open", "closed", "cancelled"}
  /\ app \in [Apps -> Applications]
  /\ identity \in [Identities -> Emails \cup {None}]
  /\ opened \in [Browsers -> SUBSET Apps]
  /\ request \in [Browsers -> Requests]
  /\ issued \in 0..MaxCodes
  /\ moves \in 0..MaxMoves

Init ==
  /\ intake = "open"
  /\ app = [a \in Apps |-> NoApplication]
  /\ identity = [i \in Identities |-> None]
  /\ opened = [b \in Browsers |-> {}]
  /\ request = [b \in Browsers |-> NoRequest]
  /\ issued = 0
  /\ moves = 0

Exists(a) == app[a].status # "none"
Submitted(a) == app[a].status \notin {"none", "draft"}
EditableByApplicant(a) == app[a].status \in {"draft", "returned"}
Live(a) == Exists(a) /\ app[a].status \notin ReapplicationStatuses

--------------------------------------------------------------------------------
(* Finding or creating the draft *)

(* The oldest identity with the address; 0 when there is none. *)
IdentityOf(e) ==
  LET found == {i \in Identities : identity[i] = e}
  IN  IF found = {} THEN 0 ELSE Min(found)

AlreadySubmitted(e) ==
  \E a \in Apps : Submitted(a) /\ Live(a) /\ app[a].email = e

OwnedBy(i) == {a \in Apps : Live(a) /\ i # 0 /\ app[a].owner = i}

DraftsOf(e) == {a \in Apps : app[a].status = "draft" /\ app[a].email = e}

(* What a start finds: the identity's own application, else a draft by      *)
(* address.                                                                 *)
Reusable(e) ==
  IF OwnedBy(IdentityOf(e)) # {} THEN OwnedBy(IdentityOf(e)) ELSE DraftsOf(e)

(* issue_application_otp: a new code replaces the old one, forgets its      *)
(* wrong tries and takes the verification back.                             *)
Issue(a) ==
  /\ issued < MaxCodes
  /\ issued' = issued + 1
  /\ app' = [app EXCEPT ![a].code = NewCode(app[a].email), ![a].verified = FALSE]

(* Starting again with an address that already has a draft: a new code goes *)
(* out.                                                                     *)
StartExisting(b, e) ==
  /\ request[b] = NoRequest
  /\ intake = "open"
  /\ ~AlreadySubmitted(e)
  /\ \E a \in Reusable(e) : app[a].status = "draft" /\ Issue(a)
  /\ UNCHANGED <<intake, identity, opened, request, moves>>

(* Starting with an address that has nothing yet: the reads, then the row.  *)
StartRead(b, e) ==
  /\ request[b] = NoRequest
  /\ intake = "open"
  /\ ~AlreadySubmitted(e)
  /\ Reusable(e) = {}
  /\ request' = [request EXCEPT
       ![b] = [op |-> "start", email |-> e, owner |-> IdentityOf(e)]]
  /\ UNCHANGED <<intake, app, identity, opened, issued, moves>>

NextFree(S) == Min(S)

(* The database refuses a second live application of one identity. *)
FaultyRoomFor(i) == TRUE
RoomFor(i) == OwnedBy(i) = {}

(* The draft and, for an unknown address, the identity are created and a    *)
(* first code goes out.                                                     *)
StartSave(b) ==
  LET r == request[b]
      free == {a \in Apps : ~Exists(a)}
      a == NextFree(free)
      owner == IF r.owner # 0 THEN r.owner
               ELSE NextFree({i \in Identities : identity[i] = None})
  IN  /\ r.op = "start"
      /\ request' = [request EXCEPT ![b] = NoRequest]
      /\ IF RoomFor(r.owner)
         THEN /\ free # {}
              /\ issued < MaxCodes
              /\ issued' = issued + 1
              /\ identity' = [identity EXCEPT ![owner] = r.email]
              /\ app' = [app EXCEPT ![a] =
                   [NoApplication EXCEPT
                      !.status = "draft", !.email = r.email, !.owner = owner,
                      !.code = NewCode(r.email)]]
         ELSE UNCHANGED <<app, identity, issued>>
      /\ UNCHANGED <<intake, opened, moves>>

--------------------------------------------------------------------------------
(* Codes *)

(* "Resend the code" on the verification page of a draft. *)
Resend(a) ==
  /\ app[a].status = "draft"
  /\ Issue(a)
  /\ UNCHANGED <<intake, identity, opened, request, moves>>

(* The page for returned documents asks for a code. *)
RequestResubmissionCode(a) ==
  /\ app[a].status = "returned"
  /\ Issue(a)
  /\ UNCHANGED <<intake, identity, opened, request, moves>>

(* The status page: a code for any submitted application, unless this       *)
(* browser already opened it.                                               *)
LookUpStatus(b, a) ==
  /\ Submitted(a)
  /\ a \notin opened[b]
  /\ Issue(a)
  /\ UNCHANGED <<intake, identity, opened, request, moves>>

Usable(code) == code.to # None /\ code.tries < MaxTries

(* The stored hash covers the application's address, so a code stops        *)
(* matching when the address is corrected.                                  *)
FaultyCodeMatches(a) == Usable(app[a].code)
CodeMatches(a) == Usable(app[a].code) /\ app[a].code.to = app[a].email

(* The session's draft access or, once submitted, its status stamp. *)
Opened(b, a) == [opened EXCEPT ![b] = @ \cup {a}]

(* The right code: it is not used up, and works until it expires. *)
EnterCode(b, a) ==
  /\ Exists(a)
  /\ CodeMatches(a)
  /\ app' = [app EXCEPT ![a].verified = TRUE, ![a].code.tries = 0]
  /\ opened' = Opened(b, a)
  /\ UNCHANGED <<intake, identity, request, issued, moves>>

EnterWrongCode(a) ==
  /\ Exists(a)
  /\ Usable(app[a].code)
  /\ app' = [app EXCEPT ![a].code.tries = @ + 1]
  /\ UNCHANGED <<intake, identity, opened, request, issued, moves>>

(* My Applications lists everything made with an address the browser       *)
(* signed in with (SignIn has how), the application's own or its            *)
(* identity's, and opens it without a further code.                         *)
ApplicationsFor(e) ==
  {a \in Apps : Exists(a) /\ (app[a].email = e \/ identity[app[a].owner] = e)}

OpenFromHub(b, a) ==
  /\ \E e \in Emails : a \in ApplicationsFor(e)
  /\ Submitted(a) \/ intake = "open"
  /\ app' = [app EXCEPT ![a].verified = @ \/ ~Submitted(a)]
  /\ opened' = Opened(b, a)
  /\ UNCHANGED <<intake, identity, request, issued, moves>>

(* Time: a code expires, a session lapses. *)
CodeExpires(a) ==
  /\ app[a].code # NoCode
  /\ app' = [app EXCEPT ![a].code = NoCode]
  /\ UNCHANGED <<intake, identity, opened, request, issued, moves>>

SessionLapses(b, a) ==
  /\ a \in opened[b]
  /\ opened' = [opened EXCEPT ![b] = @ \ {a}]
  /\ UNCHANGED <<intake, app, identity, request, issued, moves>>

--------------------------------------------------------------------------------
(* Submitting, following and sending again *)

HasDraftAccess(b, a) == app[a].status = "draft" /\ a \in opened[b]

(* Submit: the page's checks.  The answers and documents are taken as       *)
(* complete; ApplicantDocuments has what completes them.                    *)
SubmitRead(b, a) ==
  /\ request[b] = NoRequest
  /\ HasDraftAccess(b, a)
  /\ intake = "open"
  /\ app[a].verified
  /\ request' = [request EXCEPT ![b] = [op |-> "submit", app |-> a]]
  /\ UNCHANGED <<intake, app, identity, opened, issued, moves>>

(* The application is written and its case created; an application that     *)
(* already has a case takes the whole submission back.                      *)
FaultyNoCaseYet(a) == TRUE
NoCaseYet(a) == ~Submitted(a)

(* The browser that submitted follows the application; draft access of any  *)
(* other browser opens nothing any more.                                    *)
SubmitSave(b) ==
  LET a == request[b].app
  IN  /\ request[b].op = "submit"
      /\ request' = [request EXCEPT ![b] = NoRequest]
      /\ IF NoCaseYet(a)
         THEN /\ app' = [app EXCEPT ![a].status = "review",
                                    ![a].receipts = @ + 1]
              /\ opened' = [x \in Browsers |->
                   IF x = b THEN opened[x] \cup {a} ELSE opened[x] \ {a}]
         ELSE UNCHANGED <<app, opened>>
      /\ UNCHANGED <<intake, identity, issued, moves>>

(* The returned documents are sent again by a browser that opened the       *)
(* application; Documents has what they contain.                            *)
Resubmit(b, a) ==
  /\ app[a].status = "returned"
  /\ a \in opened[b]
  /\ app' = [app EXCEPT ![a].status = "review"]
  /\ UNCHANGED <<intake, identity, opened, request, issued, moves>>

MayAskToWithdraw(a) == Submitted(a) /\ app[a].status \notin EndedStatuses /\ ~app[a].asked

RequestWithdrawal(b, a) ==
  /\ MayAskToWithdraw(a)
  /\ a \in opened[b]
  /\ app' = [app EXCEPT ![a].asked = TRUE]
  /\ UNCHANGED <<intake, identity, opened, request, issued, moves>>

(* The status page's "Withdrawal requested" card. *)
WithdrawalPending(a) == app[a].asked /\ app[a].status \notin EndedStatuses

--------------------------------------------------------------------------------
(* The office *)

InProgress(a) == app[a].status \in {"review", "returned"}

OfficeMoves(a, status) ==
  /\ app' = [app EXCEPT ![a].status = status]
  /\ moves < MaxMoves
  /\ moves' = moves + 1
  /\ UNCHANGED <<intake, identity, opened, request, issued>>

ReturnDocuments(a) == app[a].status = "review" /\ OfficeMoves(a, "returned")

(* Approved or rejected: either way the application stays on record. *)
Decide(a) == app[a].status = "review" /\ OfficeMoves(a, "decided")

(* The office records a withdrawal, asked for on the page or elsewhere. *)
RecordWithdrawal(a) ==
  /\ InProgress(a)
  /\ OfficeMoves(a, "withdrawn")

(* A closed case is reopened; the database refuses it when the identity     *)
(* has applied again since.                                                 *)
ReopenCase(a) ==
  /\ app[a].status \in {"decided", "withdrawn"}
  /\ OwnedBy(app[a].owner) \subseteq {a}
  /\ OfficeMoves(a, "review")

(* The office corrects the applicant's address, until the case is closed: a *)
(* selected applicant's stays open for the completion.  The identity keeps  *)
(* its own address and an outstanding code stays addressed to the old inbox. *)
CorrectContact(a, e) ==
  /\ InProgress(a) \/ app[a].status = "decided"
  /\ app[a].email # e
  /\ ~\E x \in Apps \ {a} : Live(x) /\ app[x].email = e
  /\ app' = [app EXCEPT ![a].email = e]
  /\ moves < MaxMoves
  /\ moves' = moves + 1
  /\ UNCHANGED <<intake, identity, opened, request, issued>>

(* The closing day passes, or the vacancy is cancelled with every           *)
(* application under review.                                                *)
CloseIntake ==
  /\ intake = "open"
  /\ intake' = "closed"
  /\ UNCHANGED <<app, identity, opened, request, issued, moves>>

CancelVacancy ==
  /\ intake # "cancelled"
  /\ intake' = "cancelled"
  /\ app' = [a \in Apps |-> IF InProgress(a) THEN [app[a] EXCEPT !.status = "cancelled"]
                            ELSE app[a]]
  /\ UNCHANGED <<identity, opened, request, issued, moves>>

--------------------------------------------------------------------------------
ApplicantStep ==
  \/ \E b \in Browsers : \/ \E e \in Emails : \/ StartExisting(b, e)
                                              \/ StartRead(b, e)
                         \/ \E a \in Apps : \/ LookUpStatus(b, a)
                                            \/ EnterCode(b, a)
                                            \/ OpenFromHub(b, a)
                                            \/ SubmitRead(b, a)
                                            \/ Resubmit(b, a)
                                            \/ RequestWithdrawal(b, a)
                                            \/ SessionLapses(b, a)
                         \/ StartSave(b)
                         \/ SubmitSave(b)
  \/ \E a \in Apps : \/ Resend(a)
                     \/ RequestResubmissionCode(a)
                     \/ EnterWrongCode(a)
                     \/ CodeExpires(a)

OfficeStep ==
  \/ \E a \in Apps : \/ ReturnDocuments(a)
                     \/ Decide(a)
                     \/ RecordWithdrawal(a)
                     \/ ReopenCase(a)
                     \/ \E e \in Emails : CorrectContact(a, e)
  \/ CloseIntake
  \/ CancelVacancy

Next == ApplicantStep \/ OfficeStep

Spec == Init /\ [][Next]_vars

--------------------------------------------------------------------------------
(* Properties *)

(* One applicant has at most one live application for the vacancy, however  *)
(* starts, withdrawals, new applications and reopenings interleave.         *)
(* start_public_application_draft looks first and inserts later; reopening  *)
(* looks for nothing.                                                       *)
OneLiveApplicationEach == \A i \in Identities : Cardinality(OwnedBy(i)) <= 1

(* A submission is acknowledged once: the tracking code in the applicant's  *)
(* mail is the one on file, even when two browsers submit one draft at the  *)
(* same time (submit_application).                                          *)
AcknowledgedOnce == \A a \in Apps : app[a].receipts <= 1

(* The inbox of a submitted application is proved only by a code that was   *)
(* sent to its present address and not locked: after the office corrects    *)
(* the address, a code still on its way to the old one proves nothing       *)
(* (verify_application_otp, update_applicant_contact).                      *)
LateCodeProvesNothing ==
  [][\A a \in Apps : Submitted(a) /\ ~app[a].verified /\ app'[a].verified
       => app[a].code.to = app[a].email /\ app[a].code.tries < MaxTries]_vars
================================================================================
