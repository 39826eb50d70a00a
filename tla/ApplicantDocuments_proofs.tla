------------------------ MODULE ApplicantDocuments_proofs ------------------------
(***************************************************************************)
(* Proofs about the documents of an application, for any number of         *)
(* requirements, files, parts, versions and requests at the same time.     *)
(*                                                                         *)
(* Two conditions carry them.  While the application is a draft, a         *)
(* document that no two changes have met has one current version, made of  *)
(* its parts, and at most one change of it in flight, for which everything *)
(* it read is still so (Undisturbed).  From the moment a submission has    *)
(* made its checks, a document that was not being changed meanwhile is not *)
(* changed any more, except by a resubmission (Late).                      *)
(***************************************************************************)
EXTENDS ApplicantDocuments, SequenceTheorems, WellFoundedInduction, TLAPS

USE DocumentsAssumption DEF DocumentsAssumption

Emptied == \A c \in Codes : \A v \in vault[c] : v.emptied => v.archived

Single(c) == \A v, w \in vault[c] : v = w

Matching(c) ==
  IF parts[c] = <<>> THEN \A v \in vault[c] : v.archived
  ELSE \E v \in vault[c] : ~v.archived /\ v.content = parts[c]

Changes(r, c) == request[r].op \in {"edit", "answers"} /\ request[r].code = c

(* What the request read, and what it will write. *)
AsRead(q) ==
  /\ \A v \in vault[q.code] : v.id = q.previous
  /\ q.content = IF q.adds THEN Append(parts[q.code], q.part)
                 ELSE Without(parts[q.code], q.part)
  /\ IF q.stores THEN q.content # <<>>
     ELSE q.content = <<>> \/ \E v \in vault[q.code] : ~v.archived /\ v.content = q.content

Undisturbed(c) ==
  /\ Single(c) /\ Matching(c)
  /\ \A r, s \in Requests : Changes(r, c) /\ Changes(s, c) => r = s
  /\ \A r \in Requests : request[r].op = "edit" /\ request[r].code = c => AsRead(request[r])

Drafts ==
  status = "draft" => \A c \in Codes : "edit" \notin met[c] => Undisturbed(c)

Late ==
  status # "draft" \/ Submitting =>
    \A c \in Codes : "submit" \notin met[c] => /\ ~Editing(c)
                                               /\ Required(c) => HasDocument(c)

Accepted ==
  \A c \in Codes : review[c].status = "accepted" =>
    /\ status # "draft"
    /\ "submit" \notin met[c] => HasDocument(c) /\ Shown(c).id = review[c].id

Sent == \A r \in Requests : request[r].op = "resubmit" => status # "draft"

IInv ==
  /\ TypeOK /\ Emptied /\ Drafts /\ Late /\ Accepted /\ Sent
  /\ purgeDue => status # "draft"

-----------------------------------------------------------------------------
(* The oldest and the newest of several versions *)

LEMMA LeastNumber ==
  ASSUME NEW S \in SUBSET Nat, S # {}
  PROVE  \E n \in S : \A m \in S : n <= m
  <1> DEFINE R == {ss \in Nat \X Nat : ss[1] < ss[2]}
  <1>1. IsWellFoundedOn(R, Nat)
    BY NatLessThanWellFounded DEF OpToRel
  <1>2. \A m, n \in Nat : m < n => <<m, n>> \in R
    OBVIOUS
  <1> HIDE DEF R
  <1>3. PICK n \in S : \A m \in S : ~(<<m, n>> \in R)
    BY <1>1, WFMin
  <1>4. \A m \in S : ~(m < n)
    BY <1>2, <1>3
  <1> QED
    BY <1>4

LEMMA GreatestNumber ==
  ASSUME NEW N \in Nat, NEW S \in SUBSET (0..N), S # {}
  PROVE  \E n \in S : \A m \in S : n >= m
  <1> DEFINE T == {N - m : m \in S}
  <1>1. T \in SUBSET Nat
    OBVIOUS
  <1>2. T # {}
    OBVIOUS
  <1>3. \A m \in S : N - m \in T
    OBVIOUS
  <1>4. \A k \in T : \E n \in S : k = N - n
    OBVIOUS
  <1> HIDE DEF T
  <1>5. PICK k \in T : \A l \in T : k <= l
    BY <1>1, <1>2, LeastNumber
  <1>6. PICK n \in S : k = N - n
    BY <1>4
  <1>7. \A m \in S : N - n <= N - m
    BY <1>3, <1>5, <1>6
  <1> QED
    BY <1>7

LEMMA OldestIs ==
  ASSUME NEW S \in SUBSET Versions, S # {}
  PROVE  Oldest(S) \in S
  <1> DEFINE T == {v.id : v \in S}
  <1>0. \A v \in S : v.id \in Nat
    BY DEF Versions
  <1>1. T \in SUBSET Nat
    BY <1>0
  <1>2. T # {}
    OBVIOUS
  <1>3. PICK n \in T : \A m \in T : n <= m
    BY <1>1, <1>2, LeastNumber
  <1>4. \E v \in S : \A w \in S : v.id <= w.id
    BY <1>3
  <1> QED
    BY <1>4 DEF Oldest

LEMMA NewestIs ==
  ASSUME NEW S \in SUBSET Versions, S # {}
  PROVE  Newest(S) \in S
  <1> DEFINE T == {v.id : v \in S}
  <1>0. \A v \in S : v.id \in 0..MaxVersions
    BY DEF Versions
  <1>1. T \in SUBSET (0..MaxVersions)
    BY <1>0
  <1>2. T # {}
    OBVIOUS
  <1>3. PICK n \in T : \A m \in T : n >= m
    <2> HIDE DEF T
    <2> QED
      BY <1>1, <1>2, GreatestNumber
  <1>4. \E v \in S : \A w \in S : v.id >= w.id
    BY <1>3
  <1> QED
    BY <1>4 DEF Newest

(* The version shown is one of the document's, and is not archived.        *)
LEMMA ShownIs ==
  ASSUME TypeOK, NEW c \in Codes, HasDocument(c)
  PROVE  Shown(c) \in vault[c] /\ ~Shown(c).archived /\ Shown(c).id \in 0..MaxVersions
  <1>1. Unarchived(c) \in SUBSET Versions /\ Unarchived(c) # {}
    BY DEF TypeOK, Unarchived, HasDocument
  <1>2. Shown(c) \in Unarchived(c)
    BY <1>1, OldestIs DEF Shown
  <1>3. Shown(c).id \in 0..MaxVersions
    BY <1>1, <1>2 DEF Versions
  <1> QED
    BY <1>2, <1>3 DEF Unarchived

LEMMA PreviousIs ==
  ASSUME TypeOK, NEW c \in Codes
  PROVE  /\ Previous(c) \in 0..MaxVersions
         /\ Single(c) => \A v \in vault[c] : v.id = Previous(c)
  <1>1. CASE vault[c] = {}
    BY <1>1 DEF Previous
  <1>2. CASE vault[c] # {}
    <2>1. vault[c] \in SUBSET Versions
      BY DEF TypeOK
    <2>2. Newest(vault[c]) \in vault[c]
      BY <1>2, <2>1, NewestIs
    <2>3. Previous(c) = Newest(vault[c]).id
      BY <1>2 DEF Previous
    <2>4. Newest(vault[c]).id \in 0..MaxVersions
      BY <2>1, <2>2 DEF Versions
    <2> QED
      BY <2>2, <2>3, <2>4 DEF Single
  <1> QED
    BY <1>1, <1>2

LEMMA OneIsShown ==
  ASSUME TypeOK, NEW c \in Codes, Single(c), NEW v \in vault[c], ~v.archived
  PROVE  HasDocument(c) /\ Shown(c) = v
  <1>1. HasDocument(c)
    BY DEF HasDocument, Unarchived
  <1> QED
    BY <1>1, ShownIs DEF Single

-----------------------------------------------------------------------------
(* What the vault operators return *)

LEMMA NewVersionIs ==
  ASSUME TypeOK, NEW c \in Codes, versions[c] < MaxVersions, NEW content \in Seq(Files)
  PROVE  LET n == NewVersion(versions[c] + 1, content)
         IN  /\ n \in Versions /\ n.content = content /\ n.id = versions[c] + 1
             /\ n.archived = FALSE /\ n.emptied = FALSE
  <1>1. versions[c] + 1 \in 1..MaxVersions
    BY DEF TypeOK
  <1> QED
    BY <1>1 DEF NewVersion, Versions

LEMMA StoredIs ==
  ASSUME TypeOK, Emptied, NEW c \in Codes, versions[c] < MaxVersions,
         NEW content \in Seq(Files), NEW previous
  PROVE  /\ Stored(c, content, previous) \in SUBSET Versions
         /\ \A v \in Stored(c, content, previous) : v.emptied => v.archived
         /\ \E v \in Stored(c, content, previous) : ~v.archived /\ v.content = content
         /\ (\A v \in vault[c] : v.id = previous) =>
              \A v, w \in Stored(c, content, previous) : v = w
  <1> DEFINE n == NewVersion(versions[c] + 1, content)
  <1>1. /\ n \in Versions /\ n.content = content
        /\ n.archived = FALSE /\ n.emptied = FALSE
    BY NewVersionIs
  <1> HIDE DEF n
  <1>2. Stored(c, content, previous) = {v \in vault[c] : v.id # previous} \cup {n}
    BY DEF Stored, n
  <1>3. vault[c] \in SUBSET Versions /\ \A v \in vault[c] : v.emptied => v.archived
    BY DEF TypeOK, Emptied
  <1> HIDE DEF TypeOK
  <1>4. n \in Stored(c, content, previous)
    BY <1>2
  <1>5. ~n.archived /\ n.content = content
    BY <1>1
  <1>6. \A v \in Stored(c, content, previous) : v \in vault[c] \/ v = n
    BY <1>2
  <1>7. (\A v \in vault[c] : v.id = previous) => Stored(c, content, previous) = {n}
    BY <1>2
  <1>8. Stored(c, content, previous) \in SUBSET Versions
    BY <1>1, <1>3, <1>6
  <1>9. \A v \in Stored(c, content, previous) : v.emptied => v.archived
    BY <1>1, <1>3, <1>6
  <1> QED
    BY <1>4, <1>5, <1>7, <1>8, <1>9

LEMMA ArchivedIs ==
  ASSUME TypeOK, NEW c \in Codes
  PROVE  /\ Archived(c) \in SUBSET Versions
         /\ \A v \in Archived(c) : v.archived
         /\ Single(c) => \A v, w \in Archived(c) : v = w
  <1>1. \A v \in vault[c] : v \in Versions
    BY DEF TypeOK
  <1>2. \A v \in Versions : LET a == [v EXCEPT !.archived = TRUE] IN a \in Versions /\ a.archived
    BY DEF Versions
  <1>3. Single(c) => \A v, w \in Archived(c) : v = w
    BY DEF Archived, Single
  <1> QED
    BY <1>1, <1>2, <1>3 DEF Archived

LEMMA RemovedIs ==
  ASSUME NEW s \in Seq(Files), NEW i \in DOMAIN s
  PROVE  RemoveAt(s, i) \in Seq(Files)
  <1>1. i \in 1..Len(s) /\ Len(s) \in Nat
    OBVIOUS
  <1> DEFINE a == SubSeq(s, 1, i - 1)
             b == SubSeq(s, i + 1, Len(s))
  <1>2. a \in Seq(Files)
    <2>1. \A j \in 1..(i - 1) : s[j] \in Files
      BY <1>1
    <2> QED
      BY <1>1, <2>1, SubSeqProperties
  <1>3. b \in Seq(Files)
    <2>1. \A j \in (i + 1)..Len(s) : s[j] \in Files
      BY <1>1
    <2> QED
      BY <1>1, <2>1, SubSeqProperties
  <1>4. a \o b \in Seq(Files)
    BY <1>2, <1>3, ConcatProperties
  <1> QED
    BY <1>4 DEF RemoveAt, a, b

LEMMA WithoutIs ==
  ASSUME NEW s \in Seq(Files), NEW f
  PROVE  Without(s, f) \in Seq(Files)
  <1>1. CASE f \in Range(s)
    <2>1. \E i \in DOMAIN s : s[i] = f
      BY <1>1 DEF Range
    <2>2. (CHOOSE i \in DOMAIN s : s[i] = f) \in DOMAIN s
      BY <2>1
    <2> QED
      BY <1>1, <2>2, RemovedIs DEF Without
  <1>2. CASE f \notin Range(s)
    BY <1>2 DEF Without
  <1> QED
    BY <1>1, <1>2

LEMMA AppendedIs ==
  ASSUME NEW s \in Seq(Files), NEW f \in Files
  PROVE  Append(s, f) \in Seq(Files) /\ Append(s, f) # <<>>
  <1>1. Len(Append(s, f)) = Len(s) + 1 /\ Len(s) \in Nat
    OBVIOUS
  <1>2. Append(s, f) # <<>>
    <2>1. SUFFICES ASSUME Append(s, f) = <<>> PROVE FALSE
      OBVIOUS
    <2>2. Len(Append(s, f)) = 0
      BY <2>1
    <2> QED
      BY <1>1, <2>2
  <1> QED
    BY <1>2

-----------------------------------------------------------------------------
(* Requests that begin and end *)

LEMMA BeginIs ==
  ASSUME TypeOK, NEW r \in Requests, NEW what \in Reads, Begin(r, what)
  PROVE  /\ request' \in [Requests -> Reads]
         /\ request[r] = Idle /\ request'[r] = what
         /\ \A s \in Requests : s # r => request'[s] = request[s]
  BY DEF TypeOK, Begin

LEMMA EndIs ==
  ASSUME TypeOK, NEW r \in Requests, End(r)
  PROVE  /\ request' \in [Requests -> Reads]
         /\ request'[r].op = None
         /\ \A s \in Requests : s # r => request'[s] = request[s]
  <1>1. Idle \in Reads /\ Idle.op = None
    BY DEF Idle, Reads
  <1> QED
    BY <1>1 DEF TypeOK, End

(* A request that ends leaves the others what they were.                   *)
LEMMA EndLeaves ==
  ASSUME TypeOK, NEW r \in Requests, End(r)
  PROVE  /\ \A s \in Requests, c \in Codes :
              Changes(s, c)' => Changes(s, c) /\ s # r /\ request'[s] = request[s]
         /\ \A c \in Codes : Editing(c)' => Editing(c)
         /\ Submitting' => Submitting
         /\ \A s \in Requests : (request'[s].op = "resubmit") => request[s].op = "resubmit"
  <1>1. request'[r].op \notin {"edit", "answers", "submit", "resubmit"}
    BY EndIs
  <1>2. \A s \in Requests : s # r => request'[s] = request[s]
    BY EndIs
  <1>3. \A s \in Requests, c \in Codes :
              Changes(s, c)' => Changes(s, c) /\ s # r /\ request'[s] = request[s]
    BY <1>1, <1>2 DEF Changes
  <1>4. \A c \in Codes : Editing(c)' => Editing(c)
    BY <1>1, <1>2 DEF Editing
  <1>5. Submitting' => Submitting
    BY <1>1, <1>2 DEF Submitting
  <1>6. \A s \in Requests : (request'[s].op = "resubmit") => request[s].op = "resubmit"
    BY <1>1, <1>2
  <1> QED
    BY <1>3, <1>4, <1>5, <1>6

LEMMA EditingIs ==
  ASSUME NEW c \in Codes
  PROVE  Editing(c) <=> \E r \in Requests : Changes(r, c)
  BY DEF Editing, Changes

(* What a change meets is remembered.                                      *)
LEMMA MeetsIs ==
  ASSUME TypeOK, NEW C \in SUBSET Codes, Meets(C)
  PROVE  /\ met' \in [Codes -> SUBSET {"edit", "submit"}]
         /\ \A c \in Codes : met[c] \subseteq met'[c]
         /\ \A c \in C : /\ "edit" \notin met'[c] => ~Editing(c)
                         /\ "submit" \notin met'[c] => ~Submitting
  <1>1. \A c \in Codes : InFlight(c) \subseteq {"edit", "submit"}
    BY DEF InFlight
  <1>2. \A c \in Codes : met'[c] = IF c \in C THEN met[c] \cup InFlight(c) ELSE met[c]
    BY DEF Meets
  <1>3. met' \in [Codes -> SUBSET {"edit", "submit"}]
    BY <1>1 DEF Meets, TypeOK
  <1>4. \A c \in C : /\ "edit" \notin met'[c] => ~Editing(c)
                     /\ "submit" \notin met'[c] => ~Submitting
    BY <1>2 DEF InFlight
  <1> QED
    BY <1>2, <1>3, <1>4

-----------------------------------------------------------------------------
(* A document that a step leaves alone *)

LEMMA UndisturbedStays ==
  ASSUME NEW c \in Codes, Undisturbed(c),
         parts'[c] = parts[c], vault'[c] = vault[c],
         \A s \in Requests : Changes(s, c)' => Changes(s, c) /\ request'[s] = request[s]
  PROVE  Undisturbed(c)'
  <1>1. Single(c)' /\ Matching(c)'
    BY DEF Undisturbed, Single, Matching
  <1>2. \A r, s \in Requests : Changes(r, c)' /\ Changes(s, c)' => r = s
    BY DEF Undisturbed
  <1>3. ASSUME NEW r \in Requests, request'[r].op = "edit", request'[r].code = c
        PROVE  AsRead(request[r])'
    <2>1. request'[r] = request[r]
      BY <1>3 DEF Changes
    <2>2. AsRead(request[r])
      BY <1>3, <2>1 DEF Undisturbed
    <2> QED
      BY <1>3, <2>1, <2>2 DEF AsRead
  <1> QED
    BY <1>1, <1>2, <1>3 DEF Undisturbed

LEMMA ShownStays ==
  ASSUME NEW c \in Codes, vault'[c] = vault[c]
  PROVE  (HasDocument(c)' <=> HasDocument(c)) /\ Shown(c)' = Shown(c)
  BY DEF HasDocument, Shown, Unarchived

-----------------------------------------------------------------------------
(* Steps that leave the documents alone *)

(* The office, and time. *)
LEMMA OfficeKeeps ==
  ASSUME IInv, UNCHANGED <<documents, request, met>>,
         status' \in {"draft", "review", "returned", "ended"},
         (status' = "draft") <=> (status = "draft"),
         open' \in BOOLEAN, overdue' \in BOOLEAN, purgeDue' \in BOOLEAN,
         purgeDue' => purgeDue,
         review' \in [Codes -> Rows], Accepted'
  PROVE  IInv'
  <1>1. TypeOK'
    BY DEF IInv, TypeOK, documents
  <1>2. Emptied' /\ Sent'
    BY DEF IInv, Emptied, Sent, documents
  <1>3. Drafts'
    BY UndisturbedStays DEF IInv, Drafts, documents, Changes
  <1>4. Late'
    BY ShownStays DEF IInv, Late, documents, Submitting, Editing, Required
  <1> QED
    BY <1>1, <1>2, <1>3, <1>4 DEF IInv

LEMMA RowsStay ==
  ASSUME IInv, UNCHANGED <<vault, review, met>>, (status' = "draft") <=> (status = "draft")
  PROVE  Accepted'
  BY ShownStays DEF IInv, Accepted

(* A saved review: every row is set to the version now shown.              *)
LEMMA ReviewIsSafe ==
  ASSUME IInv, NEW c \in Codes, NEW verdict \in {"open", "accepted", "flagged"},
         SaveReview(c, verdict)
  PROVE  IInv'
  <1>1. /\ UNCHANGED <<status, documents, open, overdue, request, purgeDue, met>>
        /\ status # "draft" /\ review' = SavedRows(c, verdict)
    BY DEF SaveReview
  <1>2. ASSUME NEW d \in Codes
        PROVE  /\ review'[d] \in Rows
               /\ review'[d].status = "accepted" =>
                    HasDocument(d) /\ Shown(d).id = review'[d].id
    <2>1. CASE ~HasDocument(d)
      <3>1. review'[d] = NoRow
        BY <1>1, <2>1 DEF SavedRows
      <3> QED
        BY <3>1 DEF NoRow, Rows
    <2>2. CASE HasDocument(d)
      <3>1. Shown(d).id \in 0..MaxVersions
        BY <2>2, ShownIs DEF IInv
      <3>2. review[d].status \in {"open", "accepted", "flagged"}
        BY DEF IInv, TypeOK, Rows
      <3>3. review'[d] = [status |-> IF d = c THEN verdict ELSE review[d].status,
                          id |-> Shown(d).id]
        BY <1>1, <2>2 DEF SavedRows
      <3> QED
        BY <2>2, <3>1, <3>2, <3>3 DEF Rows
    <2> QED
      BY <2>1, <2>2
  <1>3. review' \in [Codes -> Rows]
    BY <1>1, <1>2 DEF SavedRows
  <1>4. Accepted'
    BY <1>1, <1>2, ShownStays DEF Accepted, documents
  <1> QED
    BY <1>1, <1>3, <1>4, OfficeKeeps DEF IInv, TypeOK

(* Staging: once submitted, the files are only what is sent again.         *)
LEMMA StagingKeeps ==
  ASSUME IInv, status # "draft",
         UNCHANGED <<status, notApplicable, vault, versions, office, request, met>>,
         purgeDue' \in BOOLEAN, parts' \in [Codes -> Seq(Files)]
  PROVE  IInv'
  <1>1. TypeOK'
    BY DEF IInv, TypeOK, office
  <1>2. Emptied' /\ Sent' /\ Drafts'
    BY DEF IInv, Emptied, Sent, Drafts
  <1>3. Late' /\ Accepted'
    BY ShownStays DEF IInv, Late, Accepted, office, Submitting, Editing, Required
  <1> QED
    BY <1>1, <1>2, <1>3 DEF IInv

-----------------------------------------------------------------------------
(* A change to a draft's document *)

(* It begins, and is remembered by the changes it meets.                   *)
LEMMA BeginChange ==
  ASSUME IInv, NEW r \in Requests, NEW c \in Codes, NEW what \in Reads,
         what.op \in {"edit", "answers"}, what.code = c,
         status = "draft", Begin(r, what), Meets({c}),
         UNCHANGED <<status, documents, office, purgeDue>>,
         what.op = "edit" /\ Undisturbed(c) => AsRead(what)
  PROVE  IInv'
  <1>0. TypeOK /\ UNCHANGED <<status, notApplicable, parts, vault, versions, open, review,
                               overdue, purgeDue>>
    BY DEF IInv, documents, office
  <1>1. /\ request' \in [Requests -> Reads]
        /\ request[r] = Idle /\ request'[r] = what
        /\ \A s \in Requests : s # r => request'[s] = request[s]
    BY <1>0, BeginIs
  <1>2. /\ met' \in [Codes -> SUBSET {"edit", "submit"}]
        /\ \A d \in Codes : met[d] \subseteq met'[d]
        /\ "edit" \notin met'[c] => ~Editing(c)
        /\ "submit" \notin met'[c] => ~Submitting
    BY <1>0, MeetsIs
  <1>3. TypeOK'
    BY <1>0, <1>1, <1>2 DEF TypeOK
  <1>4. Emptied' /\ Sent'
    BY <1>0, <1>1 DEF IInv, Emptied, Sent
  <1>5. \A s \in Requests, d \in Codes : Changes(s, d)' /\ (s # r \/ d # c) =>
          Changes(s, d) /\ request'[s] = request[s]
    BY <1>1 DEF Changes
  <1>6. Drafts'
    <2> SUFFICES ASSUME NEW d \in Codes, "edit" \notin met'[d] PROVE Undisturbed(d)'
      BY DEF Drafts
    <2>1. Undisturbed(d)
      BY <1>2 DEF IInv, Drafts
    <2>2. CASE d # c
      BY <1>0, <1>5, <2>1, <2>2, UndisturbedStays
    <2>3. CASE d = c
      <3>1. \A s \in Requests : ~Changes(s, c)
        BY <1>2, <2>3, EditingIs
      <3>2. Single(d)' /\ Matching(d)'
        BY <1>0, <2>1 DEF Undisturbed, Single, Matching
      <3>3. \A s \in Requests : Changes(s, d)' => s = r
        BY <1>5, <2>3, <3>1
      <3>4. ASSUME NEW s \in Requests, request'[s].op = "edit", request'[s].code = d
            PROVE  AsRead(request[s])'
        <4>1. s = r /\ request'[s] = what
          BY <1>1, <3>3, <3>4 DEF Changes
        <4>2. AsRead(what)
          BY <2>1, <2>3, <3>4, <4>1
        <4> QED
          BY <1>0, <4>1, <4>2 DEF AsRead
      <3> QED
        BY <3>2, <3>3, <3>4 DEF Undisturbed
    <2> QED
      BY <2>2, <2>3
  <1>7. Late'
    <2>1. Submitting' => Submitting
      BY <1>1 DEF Submitting
    <2> SUFFICES ASSUME Submitting, NEW d \in Codes, "submit" \notin met'[d]
                 PROVE  ~Editing(d)' /\ (Required(d)' => HasDocument(d)')
      BY <1>0, <2>1 DEF Late
    <2>2. d # c
      BY <1>2
    <2>3. ~Editing(d) /\ (Required(d) => HasDocument(d))
      BY <1>2 DEF IInv, Late
    <2>4. ~Editing(d)'
      BY <1>1, <2>2, <2>3 DEF Editing
    <2>5. Required(d)' <=> Required(d)
      BY <1>0 DEF Required
    <2> QED
      BY <1>0, <2>3, <2>4, <2>5, ShownStays
  <1>8. Accepted'
    BY <1>0 DEF IInv, Accepted
  <1> QED
    BY <1>0, <1>3, <1>4, <1>6, <1>7, <1>8 DEF IInv

LEMMA EditBegins ==
  ASSUME IInv, NEW r \in Requests, NEW c \in Codes, NEW f \in Files, NEW adds \in BOOLEAN,
         NEW content \in Seq(Files),
         content = IF adds THEN Append(parts[c], f) ELSE Without(parts[c], f),
         BeginEdit(r, c, f, adds, content)
  PROVE  IInv'
  <1> DEFINE what == [op |-> "edit", code |-> c, part |-> f, adds |-> adds,
                      content |-> content, stores |-> NeedsVersion(c, content),
                      previous |-> Previous(c)]
  <1>1. /\ status = "draft" /\ Begin(r, what) /\ Meets({c})
        /\ UNCHANGED <<status, documents, office, purgeDue>>
    BY DEF BeginEdit
  <1>2. Previous(c) \in 0..MaxVersions
    BY PreviousIs DEF IInv
  <1>3. NeedsVersion(c, content) \in BOOLEAN
    BY DEF NeedsVersion
  <1>4. what \in Reads
    BY <1>2, <1>3 DEF Reads
  <1>5. Undisturbed(c) => AsRead(what)
    <2> SUFFICES ASSUME Undisturbed(c) PROVE AsRead(what)
      OBVIOUS
    <2>1. \A v \in vault[c] : v.id = Previous(c)
      BY PreviousIs DEF IInv, Undisturbed
    <2>2. NeedsVersion(c, content) => content # <<>>
      BY DEF NeedsVersion
    <2>3. ~NeedsVersion(c, content) =>
            content = <<>> \/ \E v \in vault[c] : ~v.archived /\ v.content = content
      BY ShownIs DEF NeedsVersion, IInv
    <2> QED
      BY <2>1, <2>2, <2>3 DEF AsRead
  <1>6. what.op = "edit" /\ what.code = c
    OBVIOUS
  <1> HIDE DEF what
  <1> QED
    BY <1>1, <1>4, <1>5, <1>6, BeginChange

LEMMA AddIsSafe ==
  ASSUME IInv, NEW r \in Requests, NEW c \in Codes, NEW f \in Files, AddPart(r, c, f)
  PROVE  IInv'
  <1>1. parts[c] \in Seq(Files)
    BY DEF IInv, TypeOK
  <1>2. Append(parts[c], f) \in Seq(Files)
    BY <1>1, AppendedIs
  <1>3. BeginEdit(r, c, f, TRUE, Append(parts[c], f))
    BY DEF AddPart
  <1> QED
    BY <1>2, <1>3, EditBegins

LEMMA RemoveIsSafe ==
  ASSUME IInv, NEW r \in Requests, NEW c \in Codes, NEW f \in Files, RemovePart(r, c, f)
  PROVE  IInv'
  <1>1. parts[c] \in Seq(Files)
    BY DEF IInv, TypeOK
  <1>2. Without(parts[c], f) \in Seq(Files)
    BY <1>1, WithoutIs
  <1>3. BeginEdit(r, c, f, FALSE, Without(parts[c], f))
    BY DEF RemovePart
  <1> QED
    BY <1>2, <1>3, EditBegins

LEMMA AnswersAreSafe ==
  ASSUME IInv, NEW r \in Requests, NEW no \in BOOLEAN, SaveAnswers(r, no)
  PROVE  IInv'
  <1> DEFINE what == [op |-> "answers", code |-> Rating, no |-> no]
  <1>1. /\ status = "draft" /\ Begin(r, what) /\ Meets({Rating})
        /\ UNCHANGED <<status, documents, office, purgeDue>>
    BY DEF SaveAnswers
  <1>2. what \in Reads /\ what.op = "answers" /\ what.code = Rating
    BY DEF Reads
  <1> HIDE DEF what
  <1> QED
    BY <1>1, <1>2, BeginChange

(* It is written: no other document changes, and its own only if nothing   *)
(* vouches for it or what was read is still so.                            *)
LEMMA ChangeIsSafe ==
  ASSUME IInv, NEW r \in Requests, NEW c \in Codes, Changes(r, c), End(r),
         UNCHANGED <<status, office, purgeDue, met>>,
         notApplicable' \in BOOLEAN, c # Rating => notApplicable' = notApplicable,
         parts' \in [Codes -> Seq(Files)], vault' \in [Codes -> SUBSET Versions],
         versions' \in [Codes -> 0..MaxVersions],
         \A d \in Codes : d # c => parts'[d] = parts[d] /\ vault'[d] = vault[d],
         \A v \in vault'[c] : v.emptied => v.archived,
         status = "draft" /\ Undisturbed(c) => Single(c)' /\ Matching(c)'
  PROVE  IInv'
  <1>0. TypeOK /\ UNCHANGED <<status, open, review, overdue, purgeDue, met>>
    BY DEF IInv, office
  <1>1. /\ \A s \in Requests, d \in Codes :
             Changes(s, d)' => Changes(s, d) /\ s # r /\ request'[s] = request[s]
        /\ \A d \in Codes : Editing(d)' => Editing(d)
        /\ Submitting' => Submitting
        /\ \A s \in Requests : (request'[s].op = "resubmit") => request[s].op = "resubmit"
    BY <1>0, EndLeaves
  <1>2. request' \in [Requests -> Reads]
    BY <1>0, EndIs
  <1>3. TypeOK'
    BY <1>0, <1>2 DEF TypeOK
  <1>4. Emptied' /\ Sent'
    <2>1. Emptied'
      BY DEF IInv, Emptied
    <2>2. Sent'
      BY <1>0, <1>1 DEF IInv, Sent
    <2> QED
      BY <2>1, <2>2
  <1>5. Editing(c)
    BY EditingIs
  <1>6. Drafts'
    <2> SUFFICES ASSUME status = "draft", NEW d \in Codes, "edit" \notin met[d]
                 PROVE  Undisturbed(d)'
      BY <1>0 DEF Drafts
    <2>1. Undisturbed(d)
      BY DEF IInv, Drafts
    <2>2. CASE d # c
      BY <1>1, <2>1, <2>2, UndisturbedStays
    <2>3. CASE d = c
      <3>1. Single(d)' /\ Matching(d)'
        BY <2>1, <2>3
      <3>2. \A s \in Requests : ~Changes(s, d)'
        BY <1>1, <2>1, <2>3 DEF Undisturbed
      <3> QED
        BY <3>1, <3>2 DEF Undisturbed, Changes
    <2> QED
      BY <2>2, <2>3
  <1>7. Late'
    <2> SUFFICES ASSUME status # "draft" \/ Submitting, NEW d \in Codes, "submit" \notin met[d]
                 PROVE  ~Editing(d)' /\ (Required(d)' => HasDocument(d)')
      BY <1>0, <1>1 DEF Late
    <2>1. ~Editing(d) /\ (Required(d) => HasDocument(d))
      BY DEF IInv, Late
    <2>2. d # c
      BY <1>5, <2>1
    <2>3. Required(d)' <=> Required(d)
      BY <2>2 DEF Required
    <2> QED
      BY <1>1, <2>1, <2>2, <2>3, ShownStays
  <1>8. Accepted'
    <2> SUFFICES ASSUME NEW d \in Codes, review[d].status = "accepted"
                 PROVE  /\ status # "draft"
                        /\ "submit" \notin met[d] =>
                             HasDocument(d)' /\ Shown(d).id' = review[d].id
      BY <1>0 DEF Accepted
    <2>1. /\ status # "draft"
          /\ "submit" \notin met[d] => HasDocument(d) /\ Shown(d).id = review[d].id
      BY DEF IInv, Accepted
    <2>2. "submit" \notin met[d] => d # c
      BY <1>5, <2>1 DEF IInv, Late
    <2> QED
      BY <2>1, <2>2, ShownStays
  <1> QED
    BY <1>0, <1>3, <1>4, <1>6, <1>7, <1>8 DEF IInv

LEMMA FinishIsSafe ==
  ASSUME IInv, NEW r \in Requests, FinishEdit(r)
  PROVE  IInv'
  <1>q. PICK q : q = request[r]
    OBVIOUS
  <1>c. PICK c : c = q.code
    OBVIOUS
  <1>0. TypeOK /\ Emptied
    BY DEF IInv
  <1>1. /\ q.op = "edit" /\ End(r)
        /\ UNCHANGED <<status, notApplicable, office, purgeDue, met>>
    BY <1>q DEF FinishEdit
  <1>2. /\ c \in Codes /\ q.part \in Files /\ q.content \in Seq(Files)
        /\ q.stores \in BOOLEAN /\ q.adds \in BOOLEAN
    <2>1. q \in Reads
      BY <1>0, <1>q DEF TypeOK
    <2> QED
      BY <1>1, <1>c, <2>1 DEF Reads, Idle
  <1>3. Changes(r, c)
    BY <1>1, <1>q, <1>c DEF Changes
  <1>4. notApplicable' \in BOOLEAN
    BY <1>0, <1>1 DEF TypeOK
  <1>5. Undisturbed(c) => AsRead(q)
    BY <1>1, <1>q, <1>c DEF Undisturbed
  <1>6. CASE UNCHANGED <<parts, vault, versions>>
    <2>1. /\ parts' \in [Codes -> Seq(Files)] /\ vault' \in [Codes -> SUBSET Versions]
          /\ versions' \in [Codes -> 0..MaxVersions]
      BY <1>0, <1>6 DEF TypeOK
    <2>2. Undisturbed(c) => Single(c)' /\ Matching(c)'
      BY <1>6 DEF Undisturbed, Single, Matching
    <2>3. \A v \in vault'[c] : v.emptied => v.archived
      BY <1>0, <1>2, <1>6 DEF Emptied
    <2> QED
      BY <1>1, <1>2, <1>3, <1>4, <1>6, <2>1, <2>2, <2>3, ChangeIsSafe
  <1>7. CASE ~UNCHANGED <<parts, vault, versions>>
    <2> DEFINE part == IF q.adds THEN Append(parts[c], q.part) ELSE Without(parts[c], q.part)
    <2>1. /\ q.stores => versions[c] < MaxVersions
          /\ parts' = [parts EXCEPT ![c] = part]
          /\ vault' = [vault EXCEPT ![c] = Rebuilt(q)]
          /\ versions' = [versions EXCEPT ![c] = IF q.stores THEN @ + 1 ELSE @]
      BY <1>7, <1>q, <1>c DEF FinishEdit
    <2>2. part \in Seq(Files)
      <3>1. parts[c] \in Seq(Files)
        BY <1>0, <1>2 DEF TypeOK
      <3> QED
        BY <1>2, <3>1, AppendedIs, WithoutIs
    <2>3. /\ Rebuilt(q) \in SUBSET Versions
          /\ \A v \in Rebuilt(q) : v.emptied => v.archived
          /\ Undisturbed(c) =>
               /\ \A v, w \in Rebuilt(q) : v = w
               /\ IF part = <<>> THEN \A v \in Rebuilt(q) : v.archived
                  ELSE \E v \in Rebuilt(q) : ~v.archived /\ v.content = part
      <3>1. Undisturbed(c) => q.content = part /\ Single(c)
        BY <1>5, <1>c DEF AsRead, Undisturbed
      <3>2. CASE q.stores
        <4>1. Rebuilt(q) = Stored(c, q.content, q.previous)
          BY <1>c, <3>2 DEF Rebuilt
        <4>2. Undisturbed(c) => q.content # <<>> /\ \A v \in vault[c] : v.id = q.previous
          BY <1>5, <1>c, <3>2 DEF AsRead
        <4>3. /\ Rebuilt(q) \in SUBSET Versions
              /\ \A v \in Rebuilt(q) : v.emptied => v.archived
              /\ \E v \in Rebuilt(q) : ~v.archived /\ v.content = q.content
              /\ (\A v \in vault[c] : v.id = q.previous) => \A v, w \in Rebuilt(q) : v = w
          BY <1>0, <1>2, <2>1, <3>2, <4>1, StoredIs
        <4> HIDE DEF part
        <4> QED
          BY <3>1, <4>2, <4>3
      <3>3. CASE ~q.stores /\ q.content = <<>>
        <4>1. Rebuilt(q) = Archived(c)
          BY <1>c, <3>3 DEF Rebuilt
        <4>2. /\ Archived(c) \in SUBSET Versions /\ \A v \in Archived(c) : v.archived
              /\ Single(c) => \A v, w \in Archived(c) : v = w
          BY <1>0, <1>2, ArchivedIs
        <4> HIDE DEF part
        <4> QED
          BY <3>1, <3>3, <4>1, <4>2
      <3>4. CASE ~q.stores /\ q.content # <<>>
        <4>1. Rebuilt(q) = vault[c]
          BY <1>c, <3>4 DEF Rebuilt
        <4>2. vault[c] \in SUBSET Versions /\ \A v \in vault[c] : v.emptied => v.archived
          BY <1>0, <1>2 DEF TypeOK, Emptied
        <4>3. Undisturbed(c) => \E v \in vault[c] : ~v.archived /\ v.content = q.content
          BY <1>5, <1>c, <3>4 DEF AsRead
        <4>4. Undisturbed(c) => \A v, w \in vault[c] : v = w
          BY DEF Undisturbed, Single
        <4> HIDE DEF part
        <4> QED
          BY <3>1, <3>4, <4>1, <4>2, <4>3, <4>4
      <3> QED
        BY <1>2, <3>2, <3>3, <3>4
    <2> HIDE DEF part
    <2>4. \A d \in Codes : /\ parts'[d] = IF d = c THEN part ELSE parts[d]
                           /\ vault'[d] = IF d = c THEN Rebuilt(q) ELSE vault[d]
      BY <1>0, <1>2, <2>1 DEF TypeOK
    <2>5. parts' \in [Codes -> Seq(Files)]
      BY <1>0, <1>2, <2>1, <2>2 DEF TypeOK
    <2>6. vault' \in [Codes -> SUBSET Versions]
      BY <1>0, <1>2, <2>1, <2>3 DEF TypeOK
    <2>7. versions' \in [Codes -> 0..MaxVersions]
      BY <1>0, <1>2, <2>1 DEF TypeOK
    <2>8. Undisturbed(c) => Single(c)' /\ Matching(c)'
      BY <1>2, <2>3, <2>4 DEF Single, Matching
    <2>9. \A v \in vault'[c] : v.emptied => v.archived
      BY <1>2, <2>3, <2>4
    <2> QED
      BY <1>1, <1>2, <1>3, <1>4, <2>4, <2>5, <2>6, <2>7, <2>8, <2>9, ChangeIsSafe
  <1> QED
    BY <1>6, <1>7

(* "No rating" drops the rating's files with its document.                 *)
LEMMA SavedIsSafe ==
  ASSUME IInv, NEW r \in Requests, AnswersSaved(r)
  PROVE  IInv'
  <1> DEFINE no == request[r].no
             old == Archived(Rating)
  <1>0. TypeOK /\ Emptied
    BY DEF IInv
  <1>1. /\ request[r].op = "answers" /\ End(r) /\ notApplicable' = no
        /\ parts' = IF no THEN [parts EXCEPT ![Rating] = <<>>] ELSE parts
        /\ vault' = IF no THEN [vault EXCEPT ![Rating] = old] ELSE vault
        /\ UNCHANGED <<status, versions, office, purgeDue, met>>
    BY DEF AnswersSaved
  <1>2. no \in BOOLEAN /\ request[r].code = Rating
    <2>1. request[r] \in Reads
      BY <1>0 DEF TypeOK
    <2> QED
      BY <1>1, <2>1 DEF Reads, Idle
  <1>3. Changes(r, Rating)
    BY <1>1, <1>2 DEF Changes
  <1>4. /\ old \in SUBSET Versions /\ \A v \in old : v.archived
        /\ Single(Rating) => \A v, w \in old : v = w
    BY <1>0, ArchivedIs
  <1> HIDE DEF old, no
  <1>5. /\ parts' \in [Codes -> Seq(Files)] /\ vault' \in [Codes -> SUBSET Versions]
        /\ versions' \in [Codes -> 0..MaxVersions]
    <2>1. <<>> \in Seq(Files)
      OBVIOUS
    <2> QED
      BY <1>0, <1>1, <1>2, <1>4, <2>1 DEF TypeOK
  <1>6. \A d \in Codes :
          /\ parts'[d] = IF no /\ d = Rating THEN <<>> ELSE parts[d]
          /\ vault'[d] = IF no /\ d = Rating THEN old ELSE vault[d]
    BY <1>0, <1>1, <1>2 DEF TypeOK
  <1>7. Undisturbed(Rating) => Single(Rating)' /\ Matching(Rating)'
    BY <1>2, <1>4, <1>6 DEF Undisturbed, Single, Matching
  <1>8. \A v \in vault'[Rating] : v.emptied => v.archived
    BY <1>0, <1>2, <1>4, <1>6 DEF Emptied
  <1> QED
    BY <1>1, <1>2, <1>3, <1>5, <1>6, <1>7, <1>8, ChangeIsSafe

(* The retention clean-up meets every request in flight.                   *)
LEMMA PurgeDraftIsSafe ==
  ASSUME IInv, PurgeAbandonedDraft
  PROVE  IInv'
  <1> DEFINE old(c) == {[v EXCEPT !.archived = TRUE, !.emptied = TRUE] : v \in vault[c]}
  <1>0. TypeOK
    BY DEF IInv
  <1>1. /\ status = "draft" /\ Meets(Codes)
        /\ parts' = [c \in Codes |-> <<>>] /\ vault' = [c \in Codes |-> old(c)]
        /\ UNCHANGED <<status, notApplicable, versions, open, review, overdue, request, purgeDue>>
    BY DEF PurgeAbandonedDraft, Abandoned, office
  <1>2. /\ met' \in [Codes -> SUBSET {"edit", "submit"}]
        /\ \A c \in Codes : /\ met[c] \subseteq met'[c]
                            /\ "edit" \notin met'[c] => ~Editing(c)
                            /\ "submit" \notin met'[c] => ~Submitting
    BY <1>0, <1>1, MeetsIs
  <1>3. ASSUME NEW c \in Codes
        PROVE  /\ old(c) \in SUBSET Versions /\ \A v \in old(c) : v.archived
               /\ Single(c) => \A v, w \in old(c) : v = w
    <2>1. \A v \in vault[c] : v \in Versions
      BY <1>0 DEF TypeOK
    <2>2. \A v \in Versions : LET a == [v EXCEPT !.archived = TRUE, !.emptied = TRUE]
                              IN  a \in Versions /\ a.archived
      BY DEF Versions
    <2> QED
      BY <2>1, <2>2 DEF Single
  <1> HIDE DEF old
  <1>4. TypeOK'
    <2>1. <<>> \in Seq(Files)
      OBVIOUS
    <2>2. parts' \in [Codes -> Seq(Files)] /\ vault' \in [Codes -> SUBSET Versions]
      BY <1>1, <1>3, <2>1
    <2> QED
      BY <1>0, <1>1, <1>2, <2>2 DEF TypeOK
  <1>5. Emptied' /\ Sent'
    BY <1>1, <1>3 DEF IInv, Emptied, Sent
  <1>6. Drafts'
    <2> SUFFICES ASSUME NEW c \in Codes, "edit" \notin met'[c] PROVE Undisturbed(c)'
      BY DEF Drafts
    <2>1. Undisturbed(c) /\ ~Editing(c)
      BY <1>1, <1>2 DEF IInv, Drafts
    <2>2. \A r \in Requests : ~Changes(r, c)'
      BY <1>1, <2>1, EditingIs DEF Changes
    <2>3. Single(c)' /\ Matching(c)'
      BY <1>1, <1>3, <2>1 DEF Undisturbed, Single, Matching
    <2> QED
      BY <2>2, <2>3 DEF Undisturbed, Changes
  <1>7. Late'
    BY <1>1, <1>2 DEF Late, Submitting
  <1>8. Accepted'
    BY <1>1 DEF IInv, Accepted
  <1> QED
    BY <1>1, <1>4, <1>5, <1>6, <1>7, <1>8 DEF IInv

-----------------------------------------------------------------------------
(* Sending the application, and what is returned *)

(* The checks of a submission: from here on a document is complete and left *)
(* alone, or was being changed.                                            *)
LEMMA SubmitIsSafe ==
  ASSUME IInv, NEW r \in Requests, Submit(r)
  PROVE  IInv'
  <1>0. TypeOK
    BY DEF IInv
  <1>1. /\ Complete /\ status = "draft" /\ Begin(r, [op |-> "submit"])
        /\ met' = [c \in Codes |-> IF Editing(c) THEN met[c] \cup {"submit"} ELSE met[c]]
        /\ UNCHANGED <<status, notApplicable, parts, vault, versions, open, review, overdue,
                       purgeDue>>
    BY DEF Submit, documents, office
  <1>2. /\ request' \in [Requests -> Reads]
        /\ request'[r] = [op |-> "submit"]
        /\ \A s \in Requests : s # r => request'[s] = request[s]
    <2>1. [op |-> "submit"] \in Reads
      BY DEF Reads
    <2> QED
      BY <1>0, <1>1, <2>1, BeginIs
  <1>3. TypeOK'
    <2>1. met' \in [Codes -> SUBSET {"edit", "submit"}]
      BY <1>0, <1>1 DEF TypeOK
    <2> QED
      BY <1>0, <1>1, <1>2, <2>1 DEF TypeOK
  <1>4. Emptied' /\ Sent'
    BY <1>1, <1>2 DEF IInv, Emptied, Sent
  <1>5. \A s \in Requests, c \in Codes :
          Changes(s, c)' => Changes(s, c) /\ request'[s] = request[s]
    BY <1>2 DEF Changes
  <1>6. \A c \in Codes : "edit" \notin met'[c] => "edit" \notin met[c]
    BY <1>1
  <1>7. Drafts'
    BY <1>1, <1>5, <1>6, UndisturbedStays DEF IInv, Drafts
  <1>8. Late'
    <2> SUFFICES ASSUME NEW c \in Codes, "submit" \notin met'[c]
                 PROVE  ~Editing(c)' /\ (Required(c)' => HasDocument(c)')
      BY DEF Late
    <2>1. ~Editing(c)
      BY <1>1
    <2>2. ~Editing(c)'
      BY <1>2, <2>1 DEF Editing
    <2>3. Required(c) => HasDocument(c)
      BY <1>1 DEF Complete, Missing
    <2>4. Required(c)' <=> Required(c)
      BY <1>1 DEF Required
    <2> QED
      BY <1>1, <2>2, <2>3, <2>4, ShownStays
  <1>9. Accepted'
    BY <1>1 DEF IInv, Accepted
  <1> QED
    BY <1>1, <1>3, <1>4, <1>7, <1>8, <1>9 DEF IInv

(* A page sent again reads what it will follow.                            *)
LEMMA ResubmitIsSafe ==
  ASSUME IInv, NEW r \in Requests, Resubmit(r)
  PROVE  IInv'
  <1> DEFINE what == [op |-> "resubmit", codes |-> Wanted,
                      content |-> [c \in Codes |-> IF c \in Wanted THEN parts[c] ELSE <<>>],
                      previous |-> [c \in Codes |-> IF c \in Wanted THEN Previous(c) ELSE 0]]
  <1>0. TypeOK
    BY DEF IInv
  <1>1. /\ status # "draft" /\ Begin(r, what)
        /\ UNCHANGED <<status, notApplicable, parts, vault, versions, open, review, overdue,
                       purgeDue, met>>
    BY DEF Resubmit, Wanted, documents, office
  <1>2. what \in Reads
    <2>1. Wanted \in SUBSET Codes
      BY DEF Wanted, Flagged
    <2>2. <<>> \in Seq(Files) /\ 0 \in 0..MaxVersions
      OBVIOUS
    <2>3. [c \in Codes |-> IF c \in Wanted THEN parts[c] ELSE <<>>] \in [Codes -> Seq(Files)]
      BY <1>0, <2>2 DEF TypeOK
    <2>4. [c \in Codes |-> IF c \in Wanted THEN Previous(c) ELSE 0] \in [Codes -> 0..MaxVersions]
      BY <1>0, <2>2, PreviousIs
    <2> QED
      BY <2>1, <2>3, <2>4 DEF Reads
  <1>3. what.op = "resubmit"
    OBVIOUS
  <1> HIDE DEF what
  <1>4. /\ request' \in [Requests -> Reads] /\ request'[r] = what
        /\ \A s \in Requests : s # r => request'[s] = request[s]
    BY <1>0, <1>1, <1>2, BeginIs
  <1>5. TypeOK'
    BY <1>0, <1>1, <1>4 DEF TypeOK
  <1>6. Emptied' /\ Sent' /\ Drafts' /\ Accepted'
    BY <1>1, ShownStays DEF IInv, Emptied, Sent, Drafts, Accepted
  <1>7. Late'
    <2> SUFFICES ASSUME NEW c \in Codes, "submit" \notin met[c]
                 PROVE  ~Editing(c)' /\ (Required(c)' => HasDocument(c)')
      BY <1>1 DEF Late
    <2>1. ~Editing(c) /\ (Required(c) => HasDocument(c))
      BY <1>1 DEF IInv, Late
    <2>2. ~Editing(c)'
      BY <1>3, <1>4, <2>1 DEF Editing
    <2>3. Required(c)' <=> Required(c)
      BY <1>1 DEF Required
    <2> QED
      BY <1>1, <2>1, <2>2, <2>3, ShownStays
  <1> QED
    BY <1>1, <1>5, <1>6, <1>7 DEF IInv

LEMMA SubmittedIsSafe ==
  ASSUME IInv, NEW r \in Requests, Submitted(r)
  PROVE  IInv'
  <1>0. TypeOK
    BY DEF IInv
  <1>1. /\ request[r].op = "submit" /\ End(r) /\ status' = "review" /\ purgeDue' = TRUE
        /\ UNCHANGED <<notApplicable, parts, vault, versions, open, review, overdue, met>>
    BY DEF Submitted, documents, office
  <1>2. request' \in [Requests -> Reads]
    BY <1>0, <1>1, EndIs
  <1>3. \A c \in Codes : Editing(c)' => Editing(c)
    BY <1>0, <1>1, EndLeaves
  <1>4. TypeOK'
    BY <1>0, <1>1, <1>2 DEF TypeOK
  <1>5. Emptied' /\ Sent' /\ Drafts' /\ Accepted'
    BY <1>1, ShownStays DEF IInv, Emptied, Sent, Drafts, Accepted
  <1>6. Late'
    <2> SUFFICES ASSUME NEW c \in Codes, "submit" \notin met[c]
                 PROVE  ~Editing(c)' /\ (Required(c)' => HasDocument(c)')
      BY <1>1 DEF Late
    <2>1. Submitting
      BY <1>1 DEF Submitting
    <2>2. ~Editing(c) /\ (Required(c) => HasDocument(c))
      BY <2>1 DEF IInv, Late
    <2>3. Required(c)' <=> Required(c)
      BY <1>1 DEF Required
    <2> QED
      BY <1>1, <1>3, <2>2, <2>3, ShownStays
  <1> QED
    BY <1>1, <1>4, <1>5, <1>6 DEF IInv

(* What was sent again gets a new version and is up for review; every other *)
(* document stays what it was.                                             *)
LEMMA ResubmittedIsSafe ==
  ASSUME IInv, NEW r \in Requests, Resubmitted(r)
  PROVE  IInv'
  <1>q. PICK q : q = request[r]
    OBVIOUS
  <1>0. TypeOK /\ Emptied
    BY DEF IInv
  <1>1. q.op = "resubmit" /\ End(r) /\ UNCHANGED <<notApplicable, parts, open, met>>
    BY <1>q DEF Resubmitted
  <1>2. q.codes \in SUBSET Codes /\ q.content \in [Codes -> Seq(Files)]
    <2>1. q \in Reads
      BY <1>0, <1>q DEF TypeOK
    <2>2. q \in [op : {"resubmit"}, codes : SUBSET Codes, content : [Codes -> Seq(Files)],
                previous : [Codes -> 0..MaxVersions]]
      BY <1>1, <2>1 DEF Reads, Idle
    <2> QED
      BY <2>2
  <1>3. status # "draft"
    BY <1>1, <1>q DEF IInv, Sent
  <1>4. request' \in [Requests -> Reads]
    BY <1>0, <1>1, EndIs
  <1>5. /\ \A c \in Codes : Editing(c)' => Editing(c)
        /\ \A s \in Requests : (request'[s].op = "resubmit") => request[s].op = "resubmit"
    BY <1>0, <1>1, EndLeaves
  <1>6. CASE UNCHANGED <<status, vault, versions, review, overdue, purgeDue>>
    <2>1. TypeOK'
      BY <1>0, <1>1, <1>4, <1>6 DEF TypeOK
    <2>2. Emptied' /\ Sent' /\ Drafts' /\ Accepted'
      BY <1>1, <1>3, <1>5, <1>6, ShownStays DEF IInv, Emptied, Sent, Drafts, Accepted
    <2>3. Late'
      BY <1>1, <1>3, <1>5, <1>6, ShownStays DEF IInv, Late, Required
    <2> QED
      BY <1>3, <1>6, <2>1, <2>2, <2>3 DEF IInv
  <1>7. CASE ~UNCHANGED <<status, vault, versions, review, overdue, purgeDue>>
    <2>1. /\ \A c \in q.codes : versions[c] < MaxVersions
          /\ vault' = [c \in Codes |->
               IF c \in q.codes THEN Stored(c, q.content[c], q.previous[c]) ELSE vault[c]]
          /\ versions' = [c \in Codes |-> IF c \in q.codes THEN versions[c] + 1 ELSE versions[c]]
          /\ review' = Reset(q.codes)
          /\ status' = "review" /\ overdue' = FALSE /\ purgeDue' = TRUE
      BY <1>7, <1>q DEF Resubmitted
    <2>2. ASSUME NEW c \in q.codes
          PROVE  /\ vault'[c] \in SUBSET Versions
                 /\ \A v \in vault'[c] : v.emptied => v.archived
                 /\ HasDocument(c)'
      <3>1. c \in Codes /\ versions[c] < MaxVersions /\ q.content[c] \in Seq(Files)
        BY <1>2, <2>1
      <3>2. vault'[c] = Stored(c, q.content[c], q.previous[c])
        BY <2>1, <3>1
      <3>3. /\ vault'[c] \in SUBSET Versions
            /\ \A v \in vault'[c] : v.emptied => v.archived
            /\ \E v \in vault'[c] : ~v.archived
        BY <1>0, <3>1, <3>2, StoredIs
      <3> QED
        BY <3>3 DEF HasDocument, Unarchived
    <2>3. \A c \in Codes : c \notin q.codes => vault'[c] = vault[c]
      BY <2>1
    <2>4. vault' \in [Codes -> SUBSET Versions]
      <3>1. \A c \in Codes : vault'[c] \in SUBSET Versions
        BY <1>0, <2>2, <2>3 DEF TypeOK
      <3> QED
        BY <2>1, <3>1
    <2>5. versions' \in [Codes -> 0..MaxVersions]
      BY <1>0, <2>1 DEF TypeOK
    <2>6. /\ review' \in [Codes -> Rows]
          /\ \A c \in Codes : IF c \in q.codes THEN review'[c].status = "open"
                               ELSE review'[c] = review[c]
      BY <1>0, <2>1 DEF TypeOK, Rows, Reset
    <2>7. TypeOK'
      BY <1>0, <1>1, <1>4, <2>1, <2>4, <2>5, <2>6 DEF TypeOK
    <2>8. Emptied'
      BY <1>0, <2>2, <2>3 DEF Emptied
    <2>9. Sent' /\ Drafts'
      BY <2>1 DEF Sent, Drafts
    <2>10. Accepted'
      BY <1>1, <2>1, <2>3, <2>6, ShownStays DEF IInv, Accepted
    <2>11. Late'
      <3> SUFFICES ASSUME NEW c \in Codes, "submit" \notin met[c]
                   PROVE  ~Editing(c)' /\ (Required(c)' => HasDocument(c)')
        BY <1>1 DEF Late
      <3>1. ~Editing(c) /\ (Required(c) => HasDocument(c))
        BY <1>3 DEF IInv, Late
      <3>2. Required(c)' <=> Required(c)
        BY <1>1 DEF Required
      <3> QED
        BY <1>5, <2>2, <2>3, <3>1, <3>2, ShownStays
    <2> QED
      BY <2>1, <2>7, <2>8, <2>9, <2>10, <2>11 DEF IInv
  <1> QED
    BY <1>6, <1>7

-----------------------------------------------------------------------------
(* The invariant *)

LEMMA Start ==
  ASSUME Init
  PROVE  IInv
  <1>1. <<>> \in Seq(Files) /\ NoRow \in Rows /\ Idle \in Reads
    BY DEF NoRow, Rows, Reads
  <1>2. TypeOK
    <2>1. 0 \in 0..MaxVersions /\ {} \in SUBSET Versions
      OBVIOUS
    <2>2. parts \in [Codes -> Seq(Files)] /\ vault \in [Codes -> SUBSET Versions]
      BY <1>1, <2>1 DEF Init
    <2>3. versions \in [Codes -> 0..MaxVersions] /\ review \in [Codes -> Rows]
      BY <1>1, <2>1 DEF Init
    <2>4. request \in [Requests -> Reads] /\ met \in [Codes -> SUBSET {"edit", "submit"}]
      BY <1>1 DEF Init
    <2>5. /\ status \in {"draft", "review", "returned", "ended"}
          /\ open \in BOOLEAN /\ notApplicable \in BOOLEAN
          /\ overdue \in BOOLEAN /\ purgeDue \in BOOLEAN
      BY DEF Init
    <2> QED
      BY <2>2, <2>3, <2>4, <2>5 DEF TypeOK
  <1>3. Emptied /\ purgeDue = FALSE /\ status = "draft"
    BY DEF Init, Emptied
  <1>4. \A r \in Requests : request[r].op \notin {"edit", "answers", "submit", "resubmit"}
    BY DEF Init, Idle
  <1>5. \A c \in Codes : Single(c) /\ Matching(c)
    BY DEF Init, Single, Matching
  <1>6. Drafts
    BY <1>4, <1>5 DEF Drafts, Undisturbed, Changes
  <1>7. Late /\ Sent
    BY <1>3, <1>4 DEF Late, Submitting, Sent
  <1>8. Accepted
    BY DEF Init, Accepted, NoRow
  <1> QED
    BY <1>2, <1>3, <1>6, <1>7, <1>8 DEF IInv

LEMMA Step ==
  ASSUME IInv, [Next]_vars
  PROVE  IInv'
  <1>0. TypeOK
    BY DEF IInv
  <1>1. ASSUME NEW c \in Codes, NEW f \in Files, StagePart(c, f) PROVE IInv'
    <2>1. /\ status # "draft" /\ parts' = [parts EXCEPT ![c] = Append(@, f)]
          /\ UNCHANGED <<status, notApplicable, vault, versions, office, request, purgeDue, met>>
      BY <1>1 DEF StagePart, Wanted
    <2>2. parts[c] \in Seq(Files)
      BY <1>0 DEF TypeOK
    <2>3. parts' \in [Codes -> Seq(Files)]
      BY <1>0, <2>1, <2>2, AppendedIs DEF TypeOK
    <2> QED
      BY <1>0, <2>1, <2>3, StagingKeeps DEF TypeOK
  <1>2. ASSUME NEW c \in Codes, NEW i \in DOMAIN parts[c], UnstagePart(c, i) PROVE IInv'
    <2>1. /\ status # "draft" /\ parts' = [parts EXCEPT ![c] = RemoveAt(@, i)]
          /\ UNCHANGED <<status, notApplicable, vault, versions, office, request, purgeDue, met>>
      BY <1>2 DEF UnstagePart, Wanted
    <2>2. RemoveAt(parts[c], i) \in Seq(Files)
      BY <1>0, RemovedIs DEF TypeOK
    <2>3. parts' \in [Codes -> Seq(Files)]
      BY <1>0, <2>1, <2>2 DEF TypeOK
    <2> QED
      BY <1>0, <2>1, <2>3, StagingKeeps DEF TypeOK
  <1>3. ASSUME PurgeParts \/ VisitPage PROVE IInv'
    <2>1. /\ status # "draft" /\ parts' = [c \in Codes |-> <<>>]
          /\ purgeDue' \in BOOLEAN
          /\ UNCHANGED <<status, notApplicable, vault, versions, office, request, met>>
      <3>1. CASE PurgeParts
        BY <3>1 DEF PurgeParts, IInv
      <3>2. CASE VisitPage
        BY <1>0, <3>2 DEF VisitPage, TypeOK
      <3> QED
        BY <1>3, <3>1, <3>2
    <2>2. <<>> \in Seq(Files)
      OBVIOUS
    <2>3. parts' \in [Codes -> Seq(Files)]
      BY <2>1, <2>2
    <2> QED
      BY <2>1, <2>3, StagingKeeps
  <1>4. ASSUME \/ CrashBeforePurge \/ ReturnDocuments \/ Reopen \/ DeadlinePasses
               \/ ExtendDeadline \/ ShutOrOpen \/ (\E qualified \in BOOLEAN : Finalize(qualified))
               \/ UNCHANGED vars
        PROVE  IInv'
    <2> DEFINE Quiet == /\ UNCHANGED <<documents, request, review, met>>
                        /\ status' \in {"draft", "review", "returned", "ended"}
                        /\ (status' = "draft") <=> (status = "draft")
                        /\ open' \in BOOLEAN /\ overdue' \in BOOLEAN /\ purgeDue' \in BOOLEAN
                        /\ purgeDue' => purgeDue
    <2>0. /\ status \in {"draft", "review", "returned", "ended"}
          /\ open \in BOOLEAN /\ overdue \in BOOLEAN /\ purgeDue \in BOOLEAN
      BY <1>0 DEF TypeOK
    <2>1. ASSUME CrashBeforePurge PROVE Quiet
      BY <2>0, <2>1 DEF CrashBeforePurge, office
    <2>2. ASSUME ReturnDocuments \/ Reopen PROVE Quiet
      BY <2>0, <2>2 DEF ReturnDocuments, Reopen, office
    <2>3. ASSUME DeadlinePasses \/ ExtendDeadline PROVE Quiet
      <3>1. CASE DeadlinePasses
        BY <2>0, <3>1 DEF DeadlinePasses
      <3>2. CASE ExtendDeadline
        BY <2>0, <3>2 DEF ExtendDeadline
      <3> QED
        BY <2>3, <3>1, <3>2
    <2>4. ASSUME ShutOrOpen PROVE Quiet
      BY <2>0, <2>4 DEF ShutOrOpen
    <2>5. ASSUME \E qualified \in BOOLEAN : Finalize(qualified) PROVE Quiet
      BY <2>0, <2>5 DEF Finalize, office
    <2>6. ASSUME UNCHANGED vars PROVE Quiet
      BY <2>0, <2>6 DEF vars, office
    <2>7. Quiet
      BY <1>4, <2>1, <2>2, <2>3, <2>4, <2>5, <2>6
    <2>8. Accepted'
      BY <2>7, RowsStay DEF documents
    <2> QED
      BY <1>0, <2>7, <2>8, OfficeKeeps DEF TypeOK
  <1> QED
    BY <1>1, <1>2, <1>3, <1>4, AddIsSafe, RemoveIsSafe, FinishIsSafe, AnswersAreSafe, SavedIsSafe,
       SubmitIsSafe, SubmittedIsSafe, ResubmitIsSafe, ResubmittedIsSafe, ReviewIsSafe,
       PurgeDraftIsSafe DEF Next, ReuseDocument

LEMMA Invariant == Spec => []IInv
  <1>1. IInv /\ [Next]_vars => IInv'
    BY Step
  <1> QED
    BY <1>1, Start, PTL DEF Spec

-----------------------------------------------------------------------------
(* What the run checks *)

(* The variables of the documents keep their types.                        *)
THEOREM Typed == Spec => []TypeOK
  <1>1. IInv => TypeOK
    BY DEF IInv
  <1> QED
    BY <1>1, Invariant, PTL

(* A submitted application has every document its vacancy requires, with   *)
(* its contents, whatever requests overlap: only a document that was being *)
(* changed while a submission was under way may be missing                 *)
(* (submit_application, purge_abandoned_draft_files,                       *)
(* submit_document_resubmission).                                          *)
THEOREM CompleteOnceSubmitted == Spec => []SubmittedComplete
  <1>1. ASSUME IInv, status # "draft", NEW c \in Codes, Required(c), "submit" \notin met[c]
        PROVE  HasDocument(c) /\ ~Shown(c).emptied
    <2>1. HasDocument(c)
      BY <1>1 DEF IInv, Late
    <2> QED
      BY <1>1, <2>1, ShownIs DEF IInv, Emptied
  <1>2. IInv => SubmittedComplete
    BY <1>1 DEF SubmittedComplete
  <1> QED
    BY <1>2, Invariant, PTL

(* The document reviewers will see is made of the files the applicant's    *)
(* page shows, in their order, however many requests change other          *)
(* documents meanwhile (rebuild_applicant_document).                       *)
THEOREM MadeOfItsParts == Spec => []DocumentMatchesParts
  <1>1. ASSUME IInv, status = "draft", NEW c \in Codes, "edit" \notin met[c]
        PROVE  IF parts[c] = <<>> THEN ~HasDocument(c)
               ELSE HasDocument(c) /\ Shown(c).content = parts[c]
    <2>1. Single(c) /\ Matching(c)
      BY <1>1 DEF IInv, Drafts, Undisturbed
    <2>2. CASE parts[c] = <<>>
      BY <2>1, <2>2 DEF Matching, HasDocument, Unarchived
    <2>3. CASE parts[c] # <<>>
      <3>1. PICK v \in vault[c] : ~v.archived /\ v.content = parts[c]
        BY <2>1, <2>3 DEF Matching
      <3> QED
        BY <1>1, <2>1, <2>3, <3>1, OneIsShown DEF IInv
    <2> QED
      BY <2>2, <2>3
  <1>2. IInv => DocumentMatchesParts
    BY <1>1 DEF DocumentMatchesParts
  <1> QED
    BY <1>2, Invariant, PTL

(* A document stays accepted only while the version that was accepted is   *)
(* the one shown, through pages sent twice and verdicts saved in between   *)
(* (submit_document_resubmission, save_screening_review).                  *)
THEOREM AcceptedVersionShown == Spec => []AcceptedIsShown
  <1>1. IInv => AcceptedIsShown
    BY DEF IInv, Accepted, AcceptedIsShown
  <1> QED
    BY <1>1, Invariant, PTL
=============================================================================
