------------------------- MODULE ApplicantPortal_proofs -------------------------
(***************************************************************************)
(* Proofs about the applicants' side of a vacancy, for any number of       *)
(* addresses, browsers, applications, tries, codes and office moves.       *)
(*                                                                         *)
(* An identity has one live application because the database refuses a     *)
(* second one for an identity the start found, and because an identity the *)
(* start creates is new: no application can have it yet.  The second half  *)
(* rests on the numbering of applications and identities (Numbered).       *)
(***************************************************************************)
EXTENDS ApplicantPortal, FiniteSetTheorems, WellFoundedInduction, TLAPS

USE PortalAssumption DEF PortalAssumption

(* Every application belongs to an identity on file, and an identity is    *)
(* only made with an application: there is one of the same number.         *)
Owned == \A a \in Apps :
           IF Exists(a) THEN app[a].owner \in Identities /\ identity[app[a].owner] # None
                        ELSE app[a].owner = 0

Numbered == \A i \in Identities : identity[i] # None => Exists(i)

(* What a request read is still on file when it writes.                    *)
Pending ==
  \A b \in Browsers :
    /\ (request[b].op = "start" /\ request[b].owner # 0)
         => identity[request[b].owner] # None
    /\ request[b].op = "submit" => Exists(request[b].app)

OneEach == \A a, b \in Apps : (Live(a) /\ Live(b) /\ app[a].owner = app[b].owner) => a = b

Receipts == \A a \in Apps : /\ app[a].receipts <= 1
                            /\ ~Submitted(a) => app[a].receipts = 0

IInv == TypeOK /\ Owned /\ Numbered /\ Pending /\ OneEach /\ Receipts

-----------------------------------------------------------------------------
(* The least number of a set: the shortest of the intervals that end in it. *)

LEMMA LeastNumber ==
  ASSUME NEW S \in SUBSET Nat, S # {}
  PROVE  Min(S) \in S /\ \A x \in S : Min(S) <= x
  <1> DEFINE Below == {1..x : x \in S}
  <1>1. Below # {} /\ Below \subseteq FiniteSubsetsOf(Nat)
    <2>1. ASSUME NEW x \in S PROVE 1..x \in FiniteSubsetsOf(Nat)
      BY FS_Interval DEF FiniteSubsetsOf
    <2> QED
      BY <2>1
  <1>2. IsWellFoundedOn(StrictSubsetOrdering(Nat), FiniteSubsetsOf(Nat))
    BY FS_StrictSubsetOrderingWellFounded
  <1>3. PICK T \in Below : \A U \in Below : ~(<<U, T>> \in StrictSubsetOrdering(Nat))
    <2> HIDE DEF Below
    <2> QED
      BY <1>1, <1>2, WFMin, Zenon
  <1>4. PICK x \in S : T = 1..x
    OBVIOUS
  <1>5. ASSUME NEW y \in S PROVE x <= y
    <2>1. SUFFICES ASSUME y < x PROVE FALSE
      OBVIOUS
    <2>2. 1..y \subseteq 1..x /\ 1..y # 1..x
      <3>1. x \in 1..x /\ x \notin 1..y
        BY <2>1
      <3> QED
        BY <2>1, <3>1
    <2>3. <<1..y, 1..x>> \in StrictSubsetOrdering(Nat)
      BY <2>2 DEF StrictSubsetOrdering
    <2> QED
      BY <1>3, <1>4, <2>3
  <1> QED
    BY <1>5 DEF Min
-----------------------------------------------------------------------------
(* Steps that leave an application where it is *)

(* The application keeps its number, its applicant, its place among the    *)
(* live ones and its acknowledgements.                                     *)
Kept(a) ==
  /\ app'[a].owner = app[a].owner
  /\ app'[a].receipts = app[a].receipts
  /\ Exists(a)' <=> Exists(a)
  /\ Live(a)' => Live(a)
  /\ Submitted(a)' <=> Submitted(a)

LEMMA KeptIsSafe ==
  ASSUME IInv, UNCHANGED identity, \A a \in Apps : Kept(a)
  PROVE  Owned' /\ Numbered' /\ OneEach' /\ Receipts'
  <1>1. Owned' /\ Numbered'
    BY DEF IInv, Owned, Numbered, Kept, Apps, Identities
  <1>2. OneEach'
    <2>1. SUFFICES ASSUME NEW a \in Apps, NEW b \in Apps,
                          Live(a)', Live(b)', app'[a].owner = app'[b].owner
                   PROVE  a = b
      BY DEF OneEach
    <2> QED
      BY <2>1 DEF IInv, OneEach, Kept
  <1>3. Receipts'
    BY DEF IInv, Receipts, Kept
  <1> QED
    BY <1>1, <1>2, <1>3

LEMMA PendingStays ==
  ASSUME IInv, UNCHANGED <<request, identity>>, \A a \in Apps : Exists(a) => Exists(a)'
  PROVE  Pending'
  <1> SUFFICES ASSUME NEW b \in Browsers
               PROVE  /\ (request[b].op = "start" /\ request[b].owner # 0)
                           => identity[request[b].owner] # None
                      /\ request[b].op = "submit" => Exists(request[b].app)'
    BY DEF Pending
  <1>1. request[b].op = "submit" => request[b].app \in Apps
    BY DEF IInv, TypeOK, Requests
  <1> QED
    BY <1>1 DEF IInv, Pending

(* Writing one application record that keeps all that. *)
LEMMA RecordKept ==
  ASSUME IInv, NEW a \in Apps, NEW r \in Applications, app' = [app EXCEPT ![a] = r],
         r.owner = app[a].owner, r.receipts = app[a].receipts,
         (r.status = "none") <=> (app[a].status = "none"),
         (r.status = "draft") <=> (app[a].status = "draft"),
         app[a].status \in ReapplicationStatuses => r.status \in ReapplicationStatuses
  PROVE  app' \in [Apps -> Applications] /\ \A x \in Apps : Kept(x)
  BY DEF Kept, Exists, Live, Submitted, IInv, TypeOK

LEMMA IssueKeeps ==
  ASSUME IInv, NEW a \in Apps, Issue(a)
  PROVE  /\ app' \in [Apps -> Applications]
         /\ issued' \in 0..MaxCodes
         /\ \A x \in Apps : Kept(x)
  <1>1. NewCode(app[a].email) \in Codes
    BY DEF IInv, TypeOK, Applications, Codes, NewCode
  <1> DEFINE r == [app[a] EXCEPT !.code = NewCode(app[a].email), !.verified = FALSE]
  <1>2. r \in Applications
    <2>1. app[a] \in Applications
      BY DEF IInv, TypeOK
    <2> QED
      BY <1>1, <2>1 DEF Applications
  <1>3. app' = [app EXCEPT ![a] = r]
    BY DEF Issue, IInv, TypeOK
  <1>4. r.owner = app[a].owner /\ r.receipts = app[a].receipts /\ r.status = app[a].status
    BY DEF IInv, TypeOK, Applications
  <1>5. issued' \in 0..MaxCodes
    BY DEF Issue, IInv, TypeOK
  <1> HIDE DEF r
  <1> QED
    BY <1>2, <1>3, <1>4, <1>5, RecordKept

(* Entering a code, right or wrong, its expiry, and My Applications.       *)
LEMMA CodeKeeps ==
  ASSUME IInv, NEW a \in Apps,
         \/ \E b \in Browsers : EnterCode(b, a) \/ OpenFromHub(b, a)
         \/ EnterWrongCode(a)
         \/ CodeExpires(a)
  PROVE  app' \in [Apps -> Applications] /\ \A x \in Apps : Kept(x)
  <1>1. app[a] \in Applications
    BY DEF IInv, TypeOK
  <1>2. app[a].code \in Codes
    BY <1>1 DEF Applications
  <1>3. CASE \E b \in Browsers : EnterCode(b, a)
    <2> DEFINE r == [app[a] EXCEPT !.verified = TRUE, !.code.tries = 0]
    <2>1. [app[a].code EXCEPT !.tries = 0] \in Codes
      BY <1>2 DEF Codes
    <2>2. r \in Applications
      BY <1>1, <2>1 DEF Applications
    <2>3. app' = [app EXCEPT ![a] = r]
      BY <1>1, <1>3 DEF EnterCode, IInv, TypeOK, Applications
    <2>4. r.owner = app[a].owner /\ r.receipts = app[a].receipts /\ r.status = app[a].status
      BY <1>1 DEF Applications
    <2> HIDE DEF r
    <2> QED BY <2>2, <2>3, <2>4, RecordKept
  <1>4. CASE \E b \in Browsers : OpenFromHub(b, a)
    <2> DEFINE r == [app[a] EXCEPT !.verified = @ \/ ~Submitted(a)]
    <2>1. (app[a].verified \/ ~Submitted(a)) \in BOOLEAN
      OBVIOUS
    <2>2. r \in Applications
      BY <1>1, <2>1 DEF Applications
    <2>3. app' = [app EXCEPT ![a] = r]
      BY <1>1, <1>4 DEF OpenFromHub, IInv, TypeOK, Applications
    <2>4. r.owner = app[a].owner /\ r.receipts = app[a].receipts /\ r.status = app[a].status
      BY <1>1 DEF Applications
    <2> HIDE DEF r
    <2> QED BY <2>2, <2>3, <2>4, RecordKept
  <1>5. CASE EnterWrongCode(a)
    <2> DEFINE r == [app[a] EXCEPT !.code.tries = @ + 1]
    <2>1. [app[a].code EXCEPT !.tries = @ + 1] \in Codes
      BY <1>2, <1>5 DEF Codes, EnterWrongCode, Usable
    <2>2. r \in Applications
      BY <1>1, <2>1 DEF Applications
    <2>3. app' = [app EXCEPT ![a] = r]
      BY <1>1, <1>5 DEF EnterWrongCode, IInv, TypeOK, Applications
    <2>4. r.owner = app[a].owner /\ r.receipts = app[a].receipts /\ r.status = app[a].status
      BY <1>1 DEF Applications
    <2> HIDE DEF r
    <2> QED BY <2>2, <2>3, <2>4, RecordKept
  <1>6. CASE CodeExpires(a)
    <2> DEFINE r == [app[a] EXCEPT !.code = NoCode]
    <2>1. NoCode \in Codes
      BY DEF Codes, NoCode
    <2>2. r \in Applications
      BY <1>1, <2>1 DEF Applications
    <2>3. app' = [app EXCEPT ![a] = r]
      BY <1>1, <1>6 DEF CodeExpires, IInv, TypeOK, Applications
    <2>4. r.owner = app[a].owner /\ r.receipts = app[a].receipts /\ r.status = app[a].status
      BY <1>1 DEF Applications
    <2> HIDE DEF r
    <2> QED BY <2>2, <2>3, <2>4, RecordKept
  <1> QED
    BY <1>3, <1>4, <1>5, <1>6

(* The office's moves other than reopening, and what an applicant asks of  *)
(* a submitted application.                                                *)
LEMMA OfficeKeeps ==
  ASSUME IInv, NEW a \in Apps,
         \/ \E b \in Browsers : Resubmit(b, a) \/ RequestWithdrawal(b, a)
         \/ ReturnDocuments(a) \/ Decide(a) \/ RecordWithdrawal(a)
         \/ \E e \in Emails : CorrectContact(a, e)
  PROVE  app' \in [Apps -> Applications] /\ \A x \in Apps : Kept(x)
  <1>1. app[a] \in Applications
    BY DEF IInv, TypeOK
  <1>2. ASSUME NEW s \in {"review", "returned", "decided", "withdrawn"},
               app[a].status \in {"review", "returned"},
               app' = [app EXCEPT ![a].status = s]
        PROVE  app' \in [Apps -> Applications] /\ \A x \in Apps : Kept(x)
    <2> DEFINE r == [app[a] EXCEPT !.status = s]
    <2>1. r \in Applications
      BY <1>1 DEF Applications, Statuses
    <2>2. app' = [app EXCEPT ![a] = r]
      BY <1>1, <1>2 DEF IInv, TypeOK, Applications
    <2>3. r.owner = app[a].owner /\ r.receipts = app[a].receipts /\ r.status = s
      BY <1>1 DEF Applications
    <2> HIDE DEF r
    <2> QED BY <1>2, <2>1, <2>2, <2>3, RecordKept DEF ReapplicationStatuses
  <1>3. CASE \/ \E b \in Browsers : Resubmit(b, a)
             \/ ReturnDocuments(a) \/ Decide(a) \/ RecordWithdrawal(a)
    BY <1>2, <1>3 DEF Resubmit, ReturnDocuments, Decide, RecordWithdrawal, OfficeMoves, InProgress
  <1>4. CASE \E b \in Browsers : RequestWithdrawal(b, a)
    <2> DEFINE r == [app[a] EXCEPT !.asked = TRUE]
    <2>1. r \in Applications
      BY <1>1 DEF Applications
    <2>2. app' = [app EXCEPT ![a] = r]
      BY <1>1, <1>4 DEF RequestWithdrawal, IInv, TypeOK, Applications
    <2>3. r.owner = app[a].owner /\ r.receipts = app[a].receipts /\ r.status = app[a].status
      BY <1>1 DEF Applications
    <2> HIDE DEF r
    <2> QED BY <2>1, <2>2, <2>3, RecordKept
  <1>5. CASE \E e \in Emails : CorrectContact(a, e)
    <2> PICK e \in Emails : CorrectContact(a, e)
      BY <1>5
    <2> DEFINE r == [app[a] EXCEPT !.email = e]
    <2>1. r \in Applications
      BY <1>1 DEF Applications
    <2>2. app' = [app EXCEPT ![a] = r]
      BY <1>1 DEF CorrectContact, IInv, TypeOK, Applications
    <2>3. r.owner = app[a].owner /\ r.receipts = app[a].receipts /\ r.status = app[a].status
      BY <1>1 DEF Applications
    <2> HIDE DEF r
    <2> QED BY <2>1, <2>2, <2>3, RecordKept
  <1> QED
    BY <1>3, <1>4, <1>5

LEMMA CancelKeeps ==
  ASSUME IInv, CancelVacancy
  PROVE  app' \in [Apps -> Applications] /\ \A x \in Apps : Kept(x)
  <1> SUFFICES ASSUME NEW x \in Apps PROVE app'[x] \in Applications /\ Kept(x)
    BY DEF CancelVacancy
  <1>1. app[x] \in Applications
    BY DEF IInv, TypeOK
  <1>2. CASE InProgress(x)
    <2> DEFINE r == [app[x] EXCEPT !.status = "cancelled"]
    <2>1. app'[x] = r
      BY <1>2 DEF CancelVacancy
    <2>2. /\ r \in Applications /\ r.status = "cancelled"
          /\ r.owner = app[x].owner /\ r.receipts = app[x].receipts
      BY <1>1 DEF Applications, Statuses
    <2> HIDE DEF r
    <2> QED
      BY <1>2, <2>1, <2>2 DEF Kept, InProgress, Exists, Live, Submitted, ReapplicationStatuses
  <1>3. CASE ~InProgress(x)
    <2>1. app'[x] = app[x]
      BY <1>3 DEF CancelVacancy
    <2> QED
      BY <1>1, <2>1 DEF Kept, Exists, Live, Submitted
  <1> QED
    BY <1>2, <1>3

-----------------------------------------------------------------------------
(* Steps that move an application among the live ones *)

(* Reopening: the database has compared the identity's other applications. *)
LEMMA ReopenIsSafe ==
  ASSUME IInv, NEW a \in Apps, ReopenCase(a)
  PROVE  IInv'
  <1>1. app[a] \in Applications
    BY DEF IInv, TypeOK
  <1> DEFINE r == [app[a] EXCEPT !.status = "review"]
  <1>2. /\ r \in Applications /\ r.status = "review"
        /\ r.owner = app[a].owner /\ r.receipts = app[a].receipts
    BY <1>1 DEF Applications, Statuses
  <1>3. app' = [app EXCEPT ![a] = r]
    BY <1>1 DEF ReopenCase, OfficeMoves, IInv, TypeOK, Applications
  <1>4. app[a].status \in {"decided", "withdrawn"}
    BY DEF ReopenCase
  <1> HIDE DEF r
  <1>5. TypeOK'
    BY <1>2, <1>3 DEF ReopenCase, OfficeMoves, IInv, TypeOK
  <1>6. \A x \in Apps : /\ app'[x].owner = app[x].owner
                        /\ app'[x].receipts = app[x].receipts
                        /\ app'[x].status = IF x = a THEN "review" ELSE app[x].status
    BY <1>2, <1>3 DEF IInv, TypeOK
  <1>7. Owned' /\ Numbered' /\ Receipts'
    BY <1>4, <1>6 DEF ReopenCase, OfficeMoves, IInv, Owned, Numbered, Receipts, Exists,
                     Submitted, Apps, Identities
  <1>8. OneEach'
    <2>1. ASSUME NEW x \in Apps, x # a, Live(x), app[x].owner = app[a].owner PROVE FALSE
      <3>1. app[a].owner # 0
        BY <1>4 DEF IInv, Owned, Exists, Identities
      <3>2. x \in OwnedBy(app[a].owner)
        BY <2>1, <3>1 DEF OwnedBy
      <3> QED
        BY <2>1, <3>2 DEF ReopenCase
    <2>2. \A x \in Apps : x # a => (Live(x)' <=> Live(x))
      BY <1>6 DEF Live, Exists
    <2> QED
      BY <1>6, <2>1, <2>2 DEF OneEach, IInv
  <1>9. Pending'
    <2>1. \A x \in Apps : Exists(x) => Exists(x)'
      BY <1>6 DEF Exists
    <2> QED
      BY <2>1, PendingStays DEF ReopenCase, OfficeMoves
  <1> QED
    BY <1>5, <1>7, <1>8, <1>9 DEF IInv

(* A submission: of two browsers that read the draft, one writes it.       *)
LEMMA SubmitIsSafe ==
  ASSUME IInv, NEW b \in Browsers, SubmitSave(b)
  PROVE  IInv'
  <1> DEFINE a == request[b].app
             r == [app[a] EXCEPT !.status = "review", !.receipts = @ + 1]
  <1>0. a \in Apps /\ Exists(a)
    BY DEF SubmitSave, IInv, TypeOK, Requests, Pending
  <1>1. app[a] \in Applications
    BY <1>0 DEF IInv, TypeOK
  <1>2. request' \in [Browsers -> Requests] /\ request' = [request EXCEPT ![b] = NoRequest]
    BY DEF SubmitSave, IInv, TypeOK, Requests, NoRequest
  <1>3. CASE ~NoCaseYet(a)
    <2>1. UNCHANGED <<intake, app, identity, opened, issued, moves>>
      BY <1>3 DEF SubmitSave
    <2>2. TypeOK' /\ Owned' /\ Numbered' /\ OneEach' /\ Receipts'
      BY <1>2, <2>1 DEF IInv, TypeOK, Owned, Numbered, OneEach, Receipts, Exists, Live, Submitted
    <2>3. Pending'
      BY <1>2, <2>1 DEF IInv, TypeOK, Pending, NoRequest, Exists
    <2> QED
      BY <2>2, <2>3 DEF IInv
  <1>4. CASE NoCaseYet(a)
    <2>1. app[a].receipts = 0 /\ app[a].status = "draft"
      BY <1>0, <1>4 DEF IInv, Receipts, NoCaseYet, Submitted, Exists
    <2>2. /\ r \in Applications /\ r.status = "review"
          /\ r.owner = app[a].owner /\ r.receipts = 1
      <3>1. r = [app[a] EXCEPT !.status = "review", !.receipts = 1]
        BY <2>1
      <3> DEFINE r1 == [app[a] EXCEPT !.status = "review"]
      <3> HIDE DEF a, r
      <3>2. r1 \in Applications /\ r1.status = "review" /\ r1.owner = app[a].owner
        BY <1>1 DEF Applications, Statuses
      <3>3. r = [r1 EXCEPT !.receipts = 1]
        BY <3>1
      <3> HIDE DEF r1
      <3> QED
        BY <3>2, <3>3 DEF Applications
    <2>3. app' = [app EXCEPT ![a] = r]
      BY <1>1, <1>4 DEF SubmitSave, IInv, TypeOK, Applications
    <2>4. UNCHANGED <<intake, identity, issued, moves>> /\ opened' \in [Browsers -> SUBSET Apps]
      <3> HIDE DEF r
      <3> QED BY <1>0, <1>4 DEF SubmitSave, IInv, TypeOK
    <2> HIDE DEF r
    <2>5. \A x \in Apps : /\ app'[x].owner = app[x].owner
                          /\ app'[x].receipts = IF x = a THEN 1 ELSE app[x].receipts
                          /\ app'[x].status = IF x = a THEN "review" ELSE app[x].status
      BY <1>0, <2>2, <2>3 DEF IInv, TypeOK
    <2> HIDE DEF a
    <2>6. TypeOK'
      BY <1>2, <2>2, <2>3, <2>4 DEF IInv, TypeOK
    <2>7. Owned' /\ Numbered' /\ Receipts'
      BY <1>0, <2>1, <2>4, <2>5 DEF IInv, Owned, Numbered, Receipts, Exists, Submitted, Apps,
                                   Identities
    <2>8. OneEach'
      <3>1. \A x \in Apps : Live(x)' <=> Live(x)
        BY <1>0, <2>1, <2>5 DEF Live, Exists, ReapplicationStatuses
      <3> QED
        BY <2>5, <3>1 DEF OneEach, IInv
    <2>9. Pending'
      <3>1. \A x \in Apps : Exists(x) => Exists(x)'
        BY <2>5 DEF Exists
      <3>2. \A x \in Browsers : request[x].op = "submit" => request[x].app \in Apps
        BY DEF IInv, TypeOK, Requests
      <3> QED
        BY <1>2, <2>4, <3>1, <3>2 DEF IInv, TypeOK, Pending, NoRequest
    <2> QED
      BY <2>6, <2>7, <2>8, <2>9 DEF IInv
  <1> QED
    BY <1>3, <1>4

(* The identity a start looks up is one on file.                           *)
LEMMA IdentityFound ==
  ASSUME IInv, NEW e \in Emails
  PROVE  /\ IdentityOf(e) \in Identities \cup {0}
         /\ IdentityOf(e) # 0 => identity[IdentityOf(e)] = e
  <1> DEFINE found == {i \in Identities : identity[i] = e}
  <1>1. CASE found = {}
    BY <1>1 DEF IdentityOf
  <1>2. CASE found # {}
    <2>1. found \in SUBSET Nat
      BY DEF Identities
    <2>2. Min(found) \in found
      <3> HIDE DEF found
      <3> QED BY <1>2, <2>1, LeastNumber
    <2> QED
      BY <1>2, <2>2 DEF IdentityOf
  <1> QED
    BY <1>1, <1>2

LEMMA StartReadIsSafe ==
  ASSUME IInv, NEW b \in Browsers, NEW e \in Emails, StartRead(b, e)
  PROVE  IInv'
  <1> DEFINE q == [op |-> "start", email |-> e, owner |-> IdentityOf(e)]
  <1>1. q \in Requests /\ (q.owner # 0 => identity[q.owner] # None) /\ q.op = "start"
    <2>1. e # None
      OBVIOUS
    <2> QED
      BY <2>1, IdentityFound DEF Requests
  <1>2. request' = [request EXCEPT ![b] = q]
    BY DEF StartRead
  <1>3. UNCHANGED <<intake, app, identity, opened, issued, moves>>
    BY DEF StartRead
  <1> HIDE DEF q
  <1>4. TypeOK' /\ Owned' /\ Numbered' /\ OneEach' /\ Receipts'
    BY <1>1, <1>2, <1>3 DEF IInv, TypeOK, Owned, Numbered, OneEach, Receipts, Exists, Live, Submitted
  <1>5. Pending'
    BY <1>1, <1>2, <1>3 DEF IInv, TypeOK, Pending, Exists
  <1> QED
    BY <1>4, <1>5 DEF IInv

(* A start that writes: for an identity it found the database has looked   *)
(* for a live application, and the identity it makes has none.             *)
LEMMA StartIsSafe ==
  ASSUME IInv, NEW b \in Browsers, StartSave(b)
  PROVE  IInv'
  <1> DEFINE q == request[b]
             free == {x \in Apps : ~Exists(x)}
             fresh == {i \in Identities : identity[i] = None}
             a == Min(free)
             owner == IF q.owner # 0 THEN q.owner ELSE Min(fresh)
             r == [NoApplication EXCEPT !.status = "draft", !.email = q.email, !.owner = owner,
                                        !.code = NewCode(q.email)]
  <1>1. q.email \in Emails /\ q.owner \in Identities \cup {0}
    BY DEF StartSave, IInv, TypeOK, Requests
  <1>2. request' \in [Browsers -> Requests] /\ request' = [request EXCEPT ![b] = NoRequest]
    BY DEF StartSave, IInv, TypeOK, Requests, NoRequest
  <1>3. CASE ~RoomFor(q.owner)
    <2>1. UNCHANGED <<intake, app, identity, opened, issued, moves>>
      BY <1>3 DEF StartSave
    <2>2. TypeOK' /\ Owned' /\ Numbered' /\ OneEach' /\ Receipts'
      BY <1>2, <2>1 DEF IInv, TypeOK, Owned, Numbered, OneEach, Receipts, Exists, Live, Submitted
    <2>3. Pending'
      BY <1>2, <2>1 DEF IInv, TypeOK, Pending, NoRequest, Exists
    <2> QED
      BY <2>2, <2>3 DEF IInv
  <1>4. CASE RoomFor(q.owner)
    <2>1. /\ free # {} /\ issued' \in 0..MaxCodes
          /\ identity' = [identity EXCEPT ![owner] = q.email]
          /\ app' = [app EXCEPT ![a] = r]
          /\ UNCHANGED <<intake, opened, moves>>
      BY <1>4 DEF StartSave, NextFree, IInv, TypeOK
    <2>2. a \in Apps /\ ~Exists(a) /\ \A x \in Apps : ~Exists(x) => a <= x
      <3>1. free \in SUBSET Nat
        BY DEF Apps
      <3>2. a \in free /\ \A x \in free : a <= x
        <4> HIDE DEF free
        <4> QED BY <2>1, <3>1, LeastNumber
      <3> QED
        BY <3>2
    <2>3. ~Exists(a) => identity[a] = None
      BY <2>2 DEF IInv, Numbered, Apps, Identities
    <2>4. q.owner = 0 => /\ owner \in Identities /\ identity[owner] = None
                         /\ owner <= a
      <3>1. fresh \in SUBSET Nat /\ a \in fresh
        BY <2>2, <2>3 DEF Identities, Apps
      <3>2. Min(fresh) \in fresh /\ Min(fresh) <= a
        <4> HIDE DEF fresh, a
        <4> QED BY <3>1, LeastNumber
      <3> QED
        BY <3>2
    <2>5. owner \in Identities
      BY <1>1, <2>4
    <2>6. q.owner # 0 => identity[owner] # None
      BY DEF StartSave, IInv, Pending
    <2>7. q.owner # 0 => ~\E x \in Apps : Live(x) /\ app[x].owner = owner
      BY <1>4 DEF RoomFor, OwnedBy
    <2>8. q.owner = 0 => ~\E x \in Apps : Live(x) /\ app[x].owner = owner
      BY <2>4 DEF IInv, Owned, Live
    <2>9. /\ r \in Applications /\ r.status = "draft" /\ r.owner = owner /\ r.receipts = 0
      <3>1. NewCode(q.email) \in Codes
        BY <1>1 DEF NewCode, Codes
      <3>2. NoApplication \in Applications
        BY DEF NoApplication, NoCode, Codes, Applications, Statuses
      <3> HIDE DEF owner, q
      <3> QED
        BY <1>1, <2>5, <3>1, <3>2 DEF Applications, Statuses, NoApplication
    <2> HIDE DEF r, owner, a, free, fresh
    <2>10. TypeOK'
      BY <1>1, <1>2, <2>1, <2>2, <2>5, <2>9 DEF IInv, TypeOK
    <2>11. /\ \A x \in Apps : app'[x] = IF x = a THEN r ELSE app[x]
           /\ \A i \in Identities : identity'[i] = IF i = owner THEN q.email ELSE identity[i]
           /\ q.email # None
      BY <1>1, <2>1 DEF IInv, TypeOK
    <2>12. Owned'
      BY <2>5, <2>9, <2>11 DEF IInv, Owned, Exists
    <2>13. owner # a => Exists(owner)
      <3>1. CASE q.owner # 0
        BY <2>5, <2>6, <3>1 DEF IInv, Numbered
      <3>2. CASE q.owner = 0
        BY <2>2, <2>4, <3>2 DEF Identities, Apps
      <3> QED
        BY <3>1, <3>2
    <2>14. Numbered'
      BY <2>2, <2>9, <2>11, <2>13 DEF IInv, Numbered, Exists, Apps, Identities
    <2>15. OneEach'
      <3>1. \A x \in Apps : x # a => (Live(x)' <=> Live(x)) /\ app'[x].owner = app[x].owner
        BY <2>11 DEF Live, Exists
      <3> QED
        BY <2>7, <2>8, <2>9, <2>11, <3>1 DEF IInv, OneEach
    <2>16. Receipts'
      BY <2>9, <2>11 DEF IInv, Receipts, Submitted
    <2>17. Pending'
      <3> SUFFICES ASSUME NEW x \in Browsers, x # b
                   PROVE  /\ (request[x].op = "start" /\ request[x].owner # 0)
                               => identity'[request[x].owner] # None
                          /\ request[x].op = "submit" => app'[request[x].app].status # "none"
        BY <1>2 DEF Pending, NoRequest, Exists, IInv, TypeOK
      <3>1. /\ request[x].op = "submit" => request[x].app \in Apps
            /\ request[x].op = "start" => request[x].owner \in Identities \cup {0}
        BY DEF IInv, TypeOK, Requests
      <3> HIDE DEF q
      <3>2. ASSUME request[x].op = "start", request[x].owner # 0
            PROVE  identity'[request[x].owner] # None
        BY <2>11, <3>1, <3>2 DEF IInv, Pending
      <3>3. ASSUME request[x].op = "submit" PROVE app'[request[x].app].status # "none"
        <4>1. Exists(request[x].app)
          BY <3>3 DEF IInv, Pending
        <4> QED
          BY <2>9, <2>11, <3>1, <3>3, <4>1 DEF Exists
      <3> QED
        BY <3>2, <3>3
    <2> QED
      BY <2>10, <2>12, <2>14, <2>15, <2>16, <2>17 DEF IInv
  <1> QED
    BY <1>3, <1>4

-----------------------------------------------------------------------------
(* The invariant *)

LEMMA Start ==
  ASSUME Init
  PROVE  IInv
  <1>1. NoApplication \in Applications
    BY DEF NoApplication, NoCode, Codes, Applications, Statuses
  <1>2. NoRequest \in Requests
    BY DEF NoRequest, Requests
  <1>3. TypeOK
    <2> USE <1>1, <1>2
    <2> QED BY DEF Init, TypeOK
  <1>4. Owned /\ Numbered /\ Receipts
    BY DEF Init, Owned, Numbered, Receipts, Exists, Submitted, NoApplication
  <1>5. OneEach
    BY DEF Init, OneEach, Live, Exists, NoApplication
  <1>6. Pending
    BY DEF Init, Pending, NoRequest
  <1> QED
    BY <1>3, <1>4, <1>5, <1>6 DEF IInv

(* What leaves every application where it is keeps the invariant.          *)
LEMMA KeptStep ==
  ASSUME IInv, app' \in [Apps -> Applications], \A x \in Apps : Kept(x),
         UNCHANGED <<identity, request>>,
         intake' \in {"open", "closed", "cancelled"}, opened' \in [Browsers -> SUBSET Apps],
         issued' \in 0..MaxCodes, moves' \in 0..MaxMoves
  PROVE  IInv'
  <1>1. TypeOK'
    BY DEF IInv, TypeOK
  <1>2. Pending'
    BY PendingStays DEF Kept
  <1> QED
    BY <1>1, <1>2, KeptIsSafe DEF IInv

LEMMA Step ==
  ASSUME IInv, [Next]_vars
  PROVE  IInv'
  <1> USE DEF Opened
  <1>1. ASSUME NEW b \in Browsers, NEW e \in Emails, StartExisting(b, e) PROVE IInv'
    <2>1. PICK a \in Apps : Issue(a)
      BY <1>1 DEF StartExisting, Reusable, OwnedBy, DraftsOf
    <2> QED
      BY <1>1, <2>1, IssueKeeps, KeptStep DEF StartExisting, IInv, TypeOK
  <1>2. ASSUME NEW a \in Apps,
               \/ Resend(a) \/ RequestResubmissionCode(a)
               \/ \E b \in Browsers : LookUpStatus(b, a)
        PROVE  IInv'
    <2>1. Issue(a) /\ UNCHANGED <<intake, identity, opened, request, moves>>
      BY <1>2 DEF Resend, RequestResubmissionCode, LookUpStatus
    <2> QED
      BY <2>1, IssueKeeps, KeptStep DEF IInv, TypeOK
  <1>3. ASSUME NEW a \in Apps,
               \/ \E b \in Browsers : EnterCode(b, a) \/ OpenFromHub(b, a)
               \/ EnterWrongCode(a) \/ CodeExpires(a)
        PROVE  IInv'
    <2>1. UNCHANGED <<intake, identity, request, issued, moves>> /\ opened' \in [Browsers -> SUBSET Apps]
      BY <1>3 DEF EnterCode, OpenFromHub, EnterWrongCode, CodeExpires, IInv, TypeOK
    <2> QED
      BY <1>3, <2>1, CodeKeeps, KeptStep DEF IInv, TypeOK
  <1>4. ASSUME NEW a \in Apps,
               \/ \E b \in Browsers : Resubmit(b, a) \/ RequestWithdrawal(b, a)
               \/ ReturnDocuments(a) \/ Decide(a) \/ RecordWithdrawal(a)
               \/ \E e \in Emails : CorrectContact(a, e)
        PROVE  IInv'
    <2>1. UNCHANGED <<intake, identity, opened, request, issued>> /\ moves' \in 0..MaxMoves
      BY <1>4 DEF Resubmit, RequestWithdrawal, ReturnDocuments, Decide, RecordWithdrawal,
                  CorrectContact, OfficeMoves, IInv, TypeOK
    <2> QED
      BY <1>4, <2>1, OfficeKeeps, KeptStep DEF IInv, TypeOK
  <1>5. ASSUME NEW a \in Apps, NEW b \in Browsers, SessionLapses(b, a) PROVE IInv'
    <2>1. \A x \in Apps : Kept(x)
      BY <1>5 DEF SessionLapses, Kept, Exists, Live, Submitted
    <2>2. opened' \in [Browsers -> SUBSET Apps]
      BY <1>5 DEF SessionLapses, IInv, TypeOK
    <2> QED
      BY <1>5, <2>1, <2>2, KeptStep DEF SessionLapses, IInv, TypeOK
  <1>6. ASSUME NEW a \in Apps, NEW b \in Browsers, SubmitRead(b, a) PROVE IInv'
    <2> DEFINE q == [op |-> "submit", app |-> a]
    <2>1. q \in Requests /\ q.op = "submit" /\ Exists(q.app)
      BY <1>6 DEF Requests, SubmitRead, HasDraftAccess, Exists
    <2>2. request' = [request EXCEPT ![b] = q]
      BY <1>6 DEF SubmitRead
    <2>3. UNCHANGED <<intake, app, identity, opened, issued, moves>>
      BY <1>6 DEF SubmitRead
    <2> HIDE DEF q
    <2>4. TypeOK' /\ Owned' /\ Numbered' /\ OneEach' /\ Receipts'
      BY <2>1, <2>2, <2>3 DEF IInv, TypeOK, Owned, Numbered, OneEach, Receipts, Exists, Live,
                             Submitted
    <2>5. Pending'
      BY <2>1, <2>2, <2>3 DEF IInv, TypeOK, Pending, Exists
    <2> QED
      BY <2>4, <2>5 DEF IInv
  <1>7. ASSUME CloseIntake PROVE IInv'
    <2>1. \A x \in Apps : Kept(x)
      BY <1>7 DEF CloseIntake, Kept, Exists, Live, Submitted
    <2> QED
      BY <1>7, <2>1, KeptStep DEF CloseIntake, IInv, TypeOK
  <1>8. ASSUME CancelVacancy PROVE IInv'
    <2>1. /\ UNCHANGED <<identity, opened, request, issued, moves>>
          /\ intake' \in {"open", "closed", "cancelled"}
      BY <1>8 DEF CancelVacancy
    <2> QED
      BY <1>8, <2>1, CancelKeeps, KeptStep DEF IInv, TypeOK
  <1>9. ASSUME UNCHANGED vars PROVE IInv'
    <2>1. \A x \in Apps : Kept(x)
      BY <1>9 DEF vars, Kept, Exists, Live, Submitted
    <2> QED
      BY <1>9, <2>1, KeptStep DEF vars, IInv, TypeOK
  <1>10. ASSUME ApplicantStep PROVE IInv'
    BY <1>1, <1>2, <1>3, <1>4, <1>5, <1>6, <1>10, StartReadIsSafe, StartIsSafe, SubmitIsSafe
       DEF ApplicantStep
  <1>11. ASSUME OfficeStep PROVE IInv'
    BY <1>4, <1>7, <1>8, <1>11, ReopenIsSafe DEF OfficeStep
  <1> QED
    BY <1>9, <1>10, <1>11 DEF Next

LEMMA Invariant == Spec => []IInv
  BY Start, Step, PTL DEF Spec

-----------------------------------------------------------------------------
(* What the runs check *)

(* The variables of the portal keep their types.                           *)
THEOREM Typed == Spec => []TypeOK
  <1>1. IInv => TypeOK
    BY DEF IInv
  <1> QED
    BY <1>1, Invariant, PTL

(* One applicant has at most one live application for the vacancy, however *)
(* starts, submissions, withdrawals, new applications and reopenings       *)
(* interleave (start_public_application_draft, reopen_recruitment_case).   *)
THEOREM OneLiveApplication == Spec => []OneLiveApplicationEach
  <1>1. ASSUME IInv, NEW i \in Identities PROVE Cardinality(OwnedBy(i)) <= 1
    <2>1. \A x, y \in OwnedBy(i) : x = y
      BY <1>1 DEF IInv, OneEach, OwnedBy
    <2>2. CASE OwnedBy(i) = {}
      BY <2>2, FS_EmptySet
    <2>3. CASE OwnedBy(i) # {}
      <3>1. PICK x \in OwnedBy(i) : TRUE
        BY <2>3
      <3>2. OwnedBy(i) = {x}
        BY <2>1, <3>1
      <3>3. Cardinality({x}) = 1
        BY FS_Singleton
      <3> QED
        BY <3>2, <3>3
    <2> QED
      BY <2>2, <2>3
  <1>2. IInv => OneLiveApplicationEach
    BY <1>1 DEF OneLiveApplicationEach
  <1> QED
    BY <1>2, Invariant, PTL

(* A submission is acknowledged once, even when several browsers submit    *)
(* one draft at the same time (submit_application).                        *)
THEOREM Acknowledged == Spec => []AcknowledgedOnce
  <1>1. IInv => AcknowledgedOnce
    BY DEF IInv, Receipts, AcknowledgedOnce
  <1> QED
    BY <1>1, Invariant, PTL

(* The inbox of a submitted application is proved only by a code that was  *)
(* sent to its present address and not locked: a code still on its way to  *)
(* an old address proves nothing (verify_application_otp).                 *)
THEOREM OnlyItsOwnCode == Spec => LateCodeProvesNothing
  <1> DEFINE Proves(a) == Submitted(a) /\ ~app[a].verified /\ app'[a].verified
             Good(a) == app[a].code.to = app[a].email /\ app[a].code.tries < MaxTries
  <1>1. ASSUME TypeOK, [Next]_vars, NEW a \in Apps, Proves(a) PROVE Good(a)
    <2>0. app[a] \in Applications
      BY <1>1 DEF TypeOK
    <2>1. ASSUME NEW x \in Apps, Issue(x) PROVE FALSE
      BY <1>1, <2>0, <2>1 DEF Issue, TypeOK, Applications
    <2>2. CASE \E x \in Apps : \/ \E b \in Browsers : \/ LookUpStatus(b, x) \/ SubmitRead(b, x)
                                                      \/ SessionLapses(b, x)
                             \/ Resend(x) \/ RequestResubmissionCode(x)
      BY <1>1, <2>1, <2>2 DEF LookUpStatus, Resend, RequestResubmissionCode, SubmitRead, SessionLapses
    <2>3. CASE \E b \in Browsers, e \in Emails : StartExisting(b, e) \/ StartRead(b, e)
      BY <1>1, <2>1, <2>3 DEF StartExisting, StartRead, Reusable, OwnedBy, DraftsOf
    <2>4. ASSUME NEW x \in Apps, NEW b \in Browsers, EnterCode(b, x) PROVE Good(a)
      BY <1>1, <2>0, <2>4 DEF EnterCode, CodeMatches, Usable, TypeOK, Applications
    <2>5. ASSUME NEW x \in Apps, NEW b \in Browsers, OpenFromHub(b, x) PROVE FALSE
      BY <1>1, <2>0, <2>5 DEF OpenFromHub, TypeOK, Applications
    <2>6. CASE \E x \in Apps : \/ \E b \in Browsers : Resubmit(b, x) \/ RequestWithdrawal(b, x)
                             \/ EnterWrongCode(x) \/ CodeExpires(x)
                             \/ ReturnDocuments(x) \/ Decide(x) \/ RecordWithdrawal(x)
                             \/ ReopenCase(x) \/ \E e \in Emails : CorrectContact(x, e)
      <3>1. app'[a].verified = app[a].verified
        <4>1. ASSUME NEW x \in Apps, NEW s, app' = [app EXCEPT ![x].status = s]
              PROVE  app'[a].verified = app[a].verified
          BY <2>0, <4>1 DEF TypeOK, Applications
        <4>2. ASSUME NEW x \in Apps, EnterWrongCode(x) PROVE app'[a].verified = app[a].verified
          BY <2>0, <4>2 DEF EnterWrongCode, TypeOK, Applications
        <4>3. ASSUME NEW x \in Apps, CodeExpires(x) PROVE app'[a].verified = app[a].verified
          BY <2>0, <4>3 DEF CodeExpires, TypeOK, Applications
        <4>4. ASSUME NEW x \in Apps, NEW b \in Browsers, RequestWithdrawal(b, x)
              PROVE  app'[a].verified = app[a].verified
          BY <2>0, <4>4 DEF RequestWithdrawal, TypeOK, Applications
        <4>5. ASSUME NEW x \in Apps, NEW e \in Emails, CorrectContact(x, e)
              PROVE  app'[a].verified = app[a].verified
          BY <2>0, <4>5 DEF CorrectContact, TypeOK, Applications
        <4> QED
          BY <2>6, <4>1, <4>2, <4>3, <4>4, <4>5
             DEF Resubmit, ReturnDocuments, Decide, RecordWithdrawal, ReopenCase, OfficeMoves
      <3> QED
        BY <1>1, <3>1
    <2>7. CASE CancelVacancy \/ CloseIntake \/ UNCHANGED vars
      BY <1>1, <2>0, <2>7 DEF CancelVacancy, CloseIntake, vars, Applications
    <2>8. CASE \E b \in Browsers : StartSave(b)
      <3>1. PICK b \in Browsers : StartSave(b)
        BY <2>8
      <3>2. CASE app' = app
        BY <1>1, <3>2
      <3>3. CASE app' # app
        <4> DEFINE x == Min({y \in Apps : ~Exists(y)})
                   q == request[b]
                   owner == IF q.owner # 0 THEN q.owner
                            ELSE Min({i \in Identities : identity[i] = None})
                   r == [NoApplication EXCEPT !.status = "draft", !.email = q.email,
                                              !.owner = owner, !.code = NewCode(q.email)]
        <4>1. app' = [app EXCEPT ![x] = r]
          BY <3>1, <3>3 DEF StartSave, NextFree
        <4>2. ~r.verified
          <5> HIDE DEF q, owner
          <5> QED BY DEF NoApplication
        <4> HIDE DEF r, x
        <4> QED
          BY <1>1, <4>1, <4>2 DEF TypeOK
      <3> QED
        BY <3>2, <3>3
    <2>9. CASE \E b \in Browsers : SubmitSave(b)
      <3>1. PICK b \in Browsers : SubmitSave(b)
        BY <2>9
      <3>2. CASE app' = app
        BY <1>1, <3>2
      <3>3. CASE app' # app
        <4> DEFINE x == request[b].app
                   r == [app[x] EXCEPT !.status = "review", !.receipts = @ + 1]
        <4>1. app' = [app EXCEPT ![x] = r]
          BY <3>1, <3>3 DEF SubmitSave, TypeOK
        <4>2. a = x => r.verified = app[a].verified
          BY <2>0 DEF Applications
        <4> HIDE DEF r, x
        <4> QED
          BY <1>1, <4>1, <4>2 DEF TypeOK
      <3> QED
        BY <3>2, <3>3
    <2> QED
      BY <1>1, <2>2, <2>3, <2>4, <2>5, <2>6, <2>7, <2>8, <2>9
         DEF Next, ApplicantStep, OfficeStep
  <1>2. TypeOK /\ [Next]_vars =>
          [\A a \in Apps : Submitted(a) /\ ~app[a].verified /\ app'[a].verified
             => app[a].code.to = app[a].email /\ app[a].code.tries < MaxTries]_vars
    BY <1>1
  <1> QED
    BY <1>2, Typed, PTL DEF Spec, LateCodeProvesNothing
====
