--------------------------- MODULE ApplicantDocuments ---------------------------
(***************************************************************************)
(* The documents of one application, from the first page the applicant     *)
(* adds to the reviewer's verdict on the last version.  While the          *)
(* application is a draft every requirement has parts (the files added to  *)
(* it) and the evidence vault keeps the one document rebuilt from them;    *)
(* once it is submitted the vault is the record, documents are returned    *)
(* and sent again, and parts are only the staging of what is sent again.   *)
(*                                                                         *)
(* Uploads, removals, answers, submissions and resubmissions read the      *)
(* tables first and write them later; no row is locked in between, so what *)
(* one of several Requests read may be stale when it writes.  A history    *)
(* variable keeps which kinds of request a change to a document met: the   *)
(* properties are about the documents that met none that harms them.       *)
(***************************************************************************)
EXTENDS Naturals, Sequences, FiniteSets, SequencesExt, FiniteSetsExt

CONSTANTS
  Codes,         \* the document requirements of the vacancy
  Optional,      \* those an application may leave out
  Letter,        \* the cover letter: written for one vacancy, never reused
  Rating,        \* the performance rating: dropped when "not applicable"
  Files,         \* the files the applicant has
  Requests,      \* requests of the applicant's pages handled at the same time
  MaxParts,      \* files one request adds to a document up to (10 in the code)
  MaxVersions,   \* bound on the versions of one document
  None           \* no request

ASSUME DocumentsAssumption ==
  /\ IsFiniteSet(Codes) /\ Letter \in Codes /\ Rating \in Codes
  /\ Optional \subseteq Codes \ {Letter}
  /\ MaxParts \in Nat \ {0}
  /\ MaxVersions \in Nat \ {0}
  /\ None \notin {"edit", "answers", "submit", "resubmit"}

VARIABLES
  status,          \* where the application is
  open,            \* the vacancy takes applications
  notApplicable,   \* the applicant has no performance rating
  parts,           \* the files added to each requirement, in order
  vault,           \* the versions of each document still marked current
  versions,        \* how many versions of each document were ever stored
  review,          \* the reviewer's row for each document
  overdue,         \* the deadline for returned documents has passed
  request,         \* what each request in flight has read
  purgeDue,        \* the parts of what was just sent are still to be deleted
  met              \* history: the kinds of request that were in flight while
                   \* a document was being changed

documents == <<notApplicable, parts, vault, versions>>
office == <<open, review, overdue>>
vars == <<status, documents, office, request, purgeDue, met>>

--------------------------------------------------------------------------------
(* The records *)

(* A version still marked current.  It may be archived, and a retention     *)
(* clean-up empties it; a superseded version plays no part any more.        *)
Versions ==
  [id : 1..MaxVersions, content : Seq(Files), archived : BOOLEAN, emptied : BOOLEAN]

NewVersion(id, content) ==
  [id |-> id, content |-> content, archived |-> FALSE, emptied |-> FALSE]

Rows == [status : {"open", "accepted", "flagged"}, id : 0..MaxVersions]

NoRow == [status |-> "open", id |-> 0]

Idle == [op |-> None]

Reads ==
  {Idle, [op |-> "submit"]}
    \cup [op : {"edit"}, code : Codes, part : Files, adds : BOOLEAN, content : Seq(Files),
          stores : BOOLEAN, previous : 0..MaxVersions]
    \cup [op : {"answers"}, code : {Rating}, no : BOOLEAN]
    \cup [op : {"resubmit"}, codes : SUBSET Codes, content : [Codes -> Seq(Files)],
          previous : [Codes -> 0..MaxVersions]]

TypeOK ==
  /\ status \in {"draft", "review", "returned", "ended"}
  /\ open \in BOOLEAN /\ notApplicable \in BOOLEAN
  /\ overdue \in BOOLEAN /\ purgeDue \in BOOLEAN
  /\ parts \in [Codes -> Seq(Files)]
  /\ vault \in [Codes -> SUBSET Versions]
  /\ versions \in [Codes -> 0..MaxVersions]
  /\ review \in [Codes -> Rows]
  /\ request \in [Requests -> Reads]
  /\ met \in [Codes -> SUBSET {"edit", "submit"}]

Init ==
  /\ status = "draft"
  /\ open = TRUE
  /\ notApplicable = FALSE
  /\ parts = [c \in Codes |-> <<>>]
  /\ vault = [c \in Codes |-> {}]
  /\ versions = [c \in Codes |-> 0]
  /\ review = [c \in Codes |-> NoRow]
  /\ overdue = FALSE
  /\ request = [r \in Requests |-> Idle]
  /\ purgeDue = FALSE
  /\ met = [c \in Codes |-> {}]

--------------------------------------------------------------------------------
(* Reading the vault *)

Unarchived(c) == {v \in vault[c] : ~v.archived}

(* get_current_applicant_document_map: of several the oldest is shown. *)
Oldest(S) == CHOOSE v \in S : \A w \in S : v.id <= w.id
Newest(S) == CHOOSE v \in S : \A w \in S : v.id >= w.id

HasDocument(c) == Unarchived(c) # {}
Shown(c) == Oldest(Unarchived(c))

(* The version a new one supersedes: archived ones count. *)
Previous(c) == IF vault[c] = {} THEN 0 ELSE Newest(vault[c]).id

Required(c) ==
  /\ c \notin Optional
  /\ c = Rating => ~notApplicable

Missing == {c \in Codes : Required(c) /\ ~HasDocument(c)}

Duplicates ==
  \E c, d \in Codes : /\ c # d /\ HasDocument(c) /\ HasDocument(d)
                      /\ Shown(c).content = Shown(d).content

Flagged == {c \in Codes : review[c].status = "flagged"}

(* What the resubmission page asks for. *)
Wanted == IF status = "returned" THEN Flagged ELSE {}

--------------------------------------------------------------------------------
(* Writing the vault *)

(* A version is added and the one it was read to follow is superseded. *)
Stored(c, content, previous) ==
  {v \in vault[c] : v.id # previous} \cup {NewVersion(versions[c] + 1, content)}

(* Versions of a family have distinct numbers: the insert is refused when   *)
(* the version it follows was superseded in the meantime.                   *)
Follows(c, previous) == previous = 0 \/ \E v \in vault[c] : v.id = previous

Archived(c) == {[v EXCEPT !.archived = TRUE] : v \in vault[c]}

--------------------------------------------------------------------------------
(* Requests in flight *)

Begin(r, what) == request[r] = Idle /\ request' = [request EXCEPT ![r] = what]

End(r) == request' = [request EXCEPT ![r] = Idle]

Editing(c) == \E r \in Requests : request[r].op \in {"edit", "answers"} /\ request[r].code = c

Submitting == \E r \in Requests : request[r].op = "submit"

InFlight(c) ==
  (IF Editing(c) THEN {"edit"} ELSE {}) \cup (IF Submitting THEN {"submit"} ELSE {})

(* A change to the documents of C begins. *)
Meets(C) == met' = [c \in Codes |-> IF c \in C THEN met[c] \cup InFlight(c) ELSE met[c]]

--------------------------------------------------------------------------------
(* The draft's page *)

Added(f) == \E c \in Codes : f \in Range(parts[c])

(* A file is removed by its own row. *)
Without(s, f) ==
  IF f \in Range(s) THEN RemoveAt(s, CHOOSE i \in DOMAIN s : s[i] = f) ELSE s

(* What is left makes a new version, unless the document shown is that      *)
(* already or nothing is left.                                              *)
NeedsVersion(c, content) ==
  content # <<>> /\ ~(HasDocument(c) /\ Shown(c).content = content)

(* A file is added or removed, and the document is rebuilt: what the        *)
(* request reads of both.                                                   *)
BeginEdit(r, c, f, adds, content) ==
  /\ status = "draft"
  /\ Begin(r, [op |-> "edit", code |-> c, part |-> f, adds |-> adds, content |-> content,
               stores |-> NeedsVersion(c, content), previous |-> Previous(c)])
  /\ Meets({c})
  /\ UNCHANGED <<status, documents, office, purgeDue>>

AddPart(r, c, f) ==
  /\ open /\ Len(parts[c]) < MaxParts /\ ~Added(f)
  /\ BeginEdit(r, c, f, TRUE, Append(parts[c], f))

(* The same with a file from an earlier application. *)
ReuseDocument(r, c, f) ==
  /\ c # Letter
  /\ ~HasDocument(c)
  /\ AddPart(r, c, f)

RemovePart(r, c, f) ==
  /\ open /\ f \in Range(parts[c])
  /\ BeginEdit(r, c, f, FALSE, Without(parts[c], f))

FaultyRebuilt(q) ==
  IF q.stores THEN Stored(q.code, q.content, q.previous) ELSE vault[q.code]
Rebuilt(q) ==
  IF q.stores THEN Stored(q.code, q.content, q.previous)
  ELSE IF q.content = <<>> THEN Archived(q.code) ELSE vault[q.code]

(* The part and the rebuilt document are written, or the whole request is   *)
(* refused.                                                                 *)
FinishEdit(r) ==
  LET q == request[r]  c == q.code
  IN  /\ q.op = "edit" /\ End(r)
      /\ IF q.stores /\ ~Follows(c, q.previous) THEN UNCHANGED <<parts, vault, versions>>
         ELSE /\ q.stores => versions[c] < MaxVersions
              /\ parts' = [parts EXCEPT ![c] = IF q.adds THEN Append(@, q.part)
                                               ELSE Without(@, q.part)]
              /\ vault' = [vault EXCEPT ![c] = Rebuilt(q)]
              /\ versions' = [versions EXCEPT ![c] = IF q.stores THEN @ + 1 ELSE @]
      /\ UNCHANGED <<status, notApplicable, office, purgeDue, met>>

(* The answers are saved as the applicant types: with "no rating" the       *)
(* rating's files are dropped.                                              *)
SaveAnswers(r, no) ==
  /\ status = "draft" /\ open
  /\ Begin(r, [op |-> "answers", code |-> Rating, no |-> no])
  /\ Meets({Rating})
  /\ UNCHANGED <<status, documents, office, purgeDue>>

AnswersSaved(r) ==
  LET no == request[r].no
  IN  /\ request[r].op = "answers" /\ End(r)
      /\ notApplicable' = no
      /\ parts' = IF no THEN [parts EXCEPT ![Rating] = <<>>] ELSE parts
      /\ vault' = IF no THEN [vault EXCEPT ![Rating] = Archived(Rating)] ELSE vault
      /\ UNCHANGED <<status, versions, office, purgeDue, met>>

(* Submit saves the answers (SaveAnswers) and then checks; another tab may  *)
(* be uploading all the while.                                              *)
FaultyComplete == ~Duplicates
Complete == Missing = {} /\ ~Duplicates

Submit(r) ==
  /\ status = "draft" /\ open
  /\ Complete
  /\ notApplicable => parts[Rating] = <<>>
  /\ Begin(r, [op |-> "submit"])
  /\ met' = [c \in Codes |-> IF Editing(c) THEN met[c] \cup {"submit"} ELSE met[c]]
  /\ UNCHANGED <<status, documents, office, purgeDue>>

Submitted(r) ==
  /\ request[r].op = "submit"
  /\ End(r)
  /\ status' = "review"
  /\ purgeDue' = TRUE
  /\ UNCHANGED <<documents, office, met>>

(* Once that is committed the parts go: a step of its own, which a crash    *)
(* leaves out.                                                              *)
PurgeParts ==
  /\ purgeDue
  /\ purgeDue' = FALSE
  /\ parts' = [c \in Codes |-> <<>>]
  /\ UNCHANGED <<status, notApplicable, vault, versions, office, request, met>>

CrashBeforePurge ==
  /\ purgeDue
  /\ purgeDue' = FALSE
  /\ UNCHANGED <<status, documents, office, request, met>>

--------------------------------------------------------------------------------
(* Returned documents *)

(* The cards of the resubmission page; the vault waits. *)
StagePart(c, f) ==
  /\ c \in Wanted
  /\ Len(parts[c]) < MaxParts
  /\ ~Added(f)
  /\ parts' = [parts EXCEPT ![c] = Append(@, f)]
  /\ UNCHANGED <<status, notApplicable, vault, versions, office, request, purgeDue, met>>

UnstagePart(c, i) ==
  /\ Wanted # {}
  /\ parts' = [parts EXCEPT ![c] = RemoveAt(@, i)]
  /\ UNCHANGED <<status, notApplicable, vault, versions, office, request, purgeDue, met>>

(* "Resubmit documents": every flagged document needs a file. *)
Resubmit(r) ==
  /\ Wanted # {} /\ ~overdue
  /\ \A c \in Wanted : parts[c] # <<>>
  /\ Begin(r, [op |-> "resubmit", codes |-> Wanted,
               content |-> [c \in Codes |-> IF c \in Wanted THEN parts[c] ELSE <<>>],
               previous |-> [c \in Codes |-> IF c \in Wanted THEN Previous(c) ELSE 0]])
  /\ UNCHANGED <<status, documents, office, purgeDue, met>>

(* The flagged documents get a new version and are up for review again.     *)
FaultyReset(codes) == review
Reset(codes) ==
  [c \in Codes |-> IF c \in codes THEN [review[c] EXCEPT !.status = "open"]
                   ELSE review[c]]

Resubmitted(r) ==
  LET q == request[r]
  IN  /\ q.op = "resubmit"
      /\ End(r)
      /\ IF \A c \in q.codes : Follows(c, q.previous[c])
         THEN /\ \A c \in q.codes : versions[c] < MaxVersions
              /\ vault' = [c \in Codes |->
                   IF c \in q.codes THEN Stored(c, q.content[c], q.previous[c])
                   ELSE vault[c]]
              /\ versions' = [c \in Codes |->
                   IF c \in q.codes THEN versions[c] + 1 ELSE versions[c]]
              /\ review' = Reset(q.codes)
              /\ status' = "review"
              /\ overdue' = FALSE
              /\ purgeDue' = TRUE
         ELSE UNCHANGED <<status, vault, versions, review, overdue, purgeDue>>
      /\ UNCHANGED <<notApplicable, parts, open, met>>

(* Looking at the resubmission page when nothing is asked for deletes what  *)
(* was staged.                                                              *)
VisitPage ==
  /\ status # "draft" /\ Wanted = {}
  /\ parts' = [c \in Codes |-> <<>>]
  /\ UNCHANGED <<status, notApplicable, vault, versions, office, request, purgeDue, met>>

--------------------------------------------------------------------------------
(* The office *)

(* A saved review: one row changes, and every row is set to the document    *)
(* now shown.                                                               *)
SavedRows(c, verdict) ==
  [d \in Codes |->
     IF ~HasDocument(d) THEN NoRow
     ELSE [status |-> IF d = c THEN verdict ELSE review[d].status, id |-> Shown(d).id]]

SaveReview(c, verdict) ==
  /\ status \in {"review", "returned"}
  /\ HasDocument(c)
  /\ review' = SavedRows(c, verdict)
  /\ UNCHANGED <<status, documents, open, overdue, request, purgeDue, met>>

ReturnDocuments ==
  /\ status = "review" /\ Flagged # {}
  /\ status' = "returned"
  /\ UNCHANGED <<documents, office, request, purgeDue, met>>

(* The verdict: qualified with every required document accepted, or not.    *)
Finalize(qualified) ==
  /\ status \in {"review", "returned"}
  /\ qualified => /\ status = "review"
                  /\ \A c \in Codes : Required(c) => review[c].status = "accepted"
  /\ status' = "ended"
  /\ UNCHANGED <<documents, office, request, purgeDue, met>>

(* The case is reopened at its screening. *)
Reopen ==
  /\ status = "ended"
  /\ status' = "review"
  /\ UNCHANGED <<documents, office, request, purgeDue, met>>

DeadlinePasses ==
  /\ status = "returned" /\ ~overdue
  /\ overdue' = TRUE
  /\ UNCHANGED <<status, documents, open, review, request, purgeDue, met>>

ExtendDeadline ==
  /\ status = "returned" /\ overdue
  /\ overdue' = FALSE
  /\ UNCHANGED <<status, documents, open, review, request, purgeDue, met>>

(* The vacancy is suspended or closed, and active again. *)
ShutOrOpen ==
  /\ status = "draft"
  /\ open' = ~open
  /\ UNCHANGED <<status, documents, review, overdue, request, purgeDue, met>>

(* The retention clean-up: the files of a draft nobody touched for a month  *)
(* while its vacancy takes no applications.                                 *)
Abandoned == status = "draft" /\ ~open

PurgeAbandonedDraft ==
  /\ Abandoned
  /\ parts' = [c \in Codes |-> <<>>]
  /\ vault' = [c \in Codes |->
       {[v EXCEPT !.archived = TRUE, !.emptied = TRUE] : v \in vault[c]}]
  /\ Meets(Codes)
  /\ UNCHANGED <<status, notApplicable, versions, office, request, purgeDue>>

--------------------------------------------------------------------------------
Next ==
  \/ \E r \in Requests, c \in Codes, f \in Files : \/ AddPart(r, c, f)
                                                   \/ ReuseDocument(r, c, f)
                                                   \/ RemovePart(r, c, f)
  \/ \E r \in Requests : \/ FinishEdit(r)
                         \/ \E no \in BOOLEAN : SaveAnswers(r, no)
                         \/ AnswersSaved(r)
                         \/ Submit(r)
                         \/ Submitted(r)
                         \/ Resubmit(r)
                         \/ Resubmitted(r)
  \/ \E c \in Codes : \/ \E i \in DOMAIN parts[c] : UnstagePart(c, i)
                      \/ \E f \in Files : StagePart(c, f)
                      \/ \E v \in {"open", "accepted", "flagged"} : SaveReview(c, v)
  \/ \E qualified \in BOOLEAN : Finalize(qualified)
  \/ PurgeParts
  \/ CrashBeforePurge
  \/ VisitPage
  \/ ReturnDocuments
  \/ Reopen
  \/ DeadlinePasses
  \/ ExtendDeadline
  \/ ShutOrOpen
  \/ PurgeAbandonedDraft

Spec == Init /\ [][Next]_vars

--------------------------------------------------------------------------------
(* Properties *)

(* A submitted application has every document its vacancy requires, each    *)
(* with its contents, after any sequence of additions, removals, retention  *)
(* clean-ups and resubmissions, from any number of browser tabs at once;     *)
(* only a document whose own files or answer were being changed while a      *)
(* submission was under way is left out (submit_application,                 *)
(* purge_abandoned_draft_files, submit_document_resubmission).               *)
SubmittedComplete ==
  status # "draft" =>
    \A c \in Codes : Required(c) /\ "submit" \notin met[c] => HasDocument(c) /\ ~Shown(c).emptied

(* The document reviewers will see is made of the files the applicant's     *)
(* page shows, in their order, and there is none when there is no file,     *)
(* whatever other requests do to the other documents meanwhile; only a       *)
(* document that two requests were changing at once is left out              *)
(* (rebuild_applicant_document).                                            *)
DocumentMatchesParts ==
  status = "draft" =>
    \A c \in Codes : "edit" \notin met[c] =>
      IF parts[c] = <<>> THEN ~HasDocument(c)
      ELSE HasDocument(c) /\ Shown(c).content = parts[c]

(* A document stays accepted only while the version that was accepted is    *)
(* the one shown: a version sent again is up for review again, also when     *)
(* the page is sent twice or a verdict is saved between its reading and its  *)
(* writing; only a document that was being changed while the application     *)
(* was submitted is left out (submit_document_resubmission,                  *)
(* save_screening_review).                                                   *)
AcceptedIsShown ==
  \A c \in Codes :
    review[c].status = "accepted" /\ "submit" \notin met[c] =>
      HasDocument(c) /\ Shown(c).id = review[c].id
================================================================================
