--------------------------- MODULE CandidateAssessment ---------------------------
(***************************************************************************)
(* How a Plantilla vacancy turns marks into a ranking: the vacancy's        *)
(* assessment weights and its interview rating sheet, both edited until     *)
(* scoring locks them, the marks of the candidates, and the Comparative     *)
(* Assessment Report (CAR) that ranks them.  The stages of the cases are    *)
(* in CaseWorkflow; here a candidate is only as far as its scores are.      *)
(***************************************************************************)
EXTENDS Naturals, FiniteSets, Sequences

CONSTANTS
  N,          \* candidates, numbered by case reference
  Answers,    \* how a candidate may do: the marks each part will be given
  Weights,    \* the splits the office may enter, in tenths
  TopLimit,   \* how many ranks are open to deep selection (5 in the code)
  None

Candidates == 1..N

ASSUME AssessmentAssumption ==
  /\ N \in Nat \ {0} /\ TopLimit \in Nat \ {0} /\ None \notin Nat
  /\ \A a \in Answers : /\ {a.general, a.technical, a.interview, a.ete} \subseteq Nat
                        /\ a.documents \in Nat \cup {None}
  /\ Weights # {}
  /\ \A w \in Weights : /\ {w.ete, w.exam, w.interview, w.general, w.technical} \subseteq Nat
                        /\ w.ete + w.exam + w.interview = 10
                        /\ w.general + w.technical = 10

VARIABLES
  answers,    \* how each candidate does, fixed when the candidates apply
  weights,    \* the split in force, and whether scoring has locked it
  sheet,      \* the interview rating sheet: its state and its competencies
  at,         \* how far each candidate is
  exam,       \* the exam score of each, and the split it was computed on
  rated,      \* the competencies each candidate's interview scores are kept for
  ete,        \* the ETE rating of each, once entered by hand
  report,     \* the latest version of the CAR
  drafted,    \* a draft of the CAR exists
  selected,   \* a selection stands
  unlocked    \* the weights were ever unlocked for correction

marks == <<exam, rated, ete>>
car == <<report, drafted, selected>>
setup == <<weights, sheet, unlocked>>
vars == <<answers, setup, at, marks, car>>

--------------------------------------------------------------------------------
(* The records *)

Competencies == {"standard", "technical"}

VacancyAssessmentWeights == [split : Weights, locked : BOOLEAN]

CompetencyRatingTemplate ==
  [state : {"draft", "published", "locked"}, items : SUBSET Competencies]

NoReport ==
  [kind |-> "none", split |-> None, scores |-> <<>>, rank |-> <<>>]

Default == CHOOSE w \in Weights : TRUE

Init ==
  /\ answers \in [Candidates -> Answers]
  /\ weights = [split |-> Default, locked |-> FALSE]
  /\ sheet = [state |-> "draft", items |-> {"standard"}]
  /\ at = [c \in Candidates |-> "exam"]
  /\ exam = [c \in Candidates |-> [score |-> None, on |-> None]]
  /\ rated = [c \in Candidates |-> {}]
  /\ ete = [c \in Candidates |-> None]
  /\ report = NoReport
  /\ drafted = FALSE /\ selected = FALSE /\ unlocked = FALSE

TypeOK ==
  /\ answers \in [Candidates -> Answers]
  /\ weights \in VacancyAssessmentWeights
  /\ sheet \in CompetencyRatingTemplate
  /\ at \in [Candidates -> {"exam", "interview", "car", "authority", "out"}]
  /\ exam \in [Candidates -> [score : Nat \cup {None}, on : Weights \cup {None}]]
  /\ rated \in [Candidates -> SUBSET Competencies]
  /\ ete \in [Candidates -> {a.ete : a \in Answers} \cup {None}]
  /\ \A c \in Candidates : at[c] \in {"interview", "car", "authority"} => exam[c].score # None
  /\ report.kind \in {"none", "draft", "final", "returned"}
  /\ report.kind \in {"final", "returned"} => drafted
  /\ selected => report.kind = "final"

--------------------------------------------------------------------------------
(* Scores: two decimals, half up, on weights in percent.  Here marks are     *)
(* whole and weights are tenths.                                            *)

Quantize(tenths) == (tenths + 5) \div 10

ExamScore(c, w) ==
  Quantize(answers[c].technical * w.technical + answers[c].general * w.general)

(* The Secretariat's own rating replaces the score of the screening. *)
EteComponent(c) == IF ete[c] # None THEN ete[c] ELSE answers[c].documents

Overall(c, w) ==
  IF None \in {EteComponent(c), exam[c].score} THEN None
  ELSE Quantize(EteComponent(c) * w.ete + exam[c].score * w.exam
                + answers[c].interview * w.interview)

--------------------------------------------------------------------------------
(* The ranking *)

(* Best score first; the case reference only steadies the order. *)
Ahead(scores, c, d) == scores[c] > scores[d] \/ (scores[c] = scores[d] /\ c < d)

Scored(scores) == {c \in DOMAIN scores : scores[c] # None}

InOrder(scores) ==
  CHOOSE order \in [1..Cardinality(Scored(scores)) -> Scored(scores)] :
    \A i, j \in DOMAIN order : i < j => Ahead(scores, order[i], order[j])

(* Equal scores share one ordinal and the next one is skipped. *)
Places(scores) ==
  LET order == InOrder(scores)
      place[i \in 1..Len(order)] ==
        IF i > 1 /\ scores[order[i]] = scores[order[i - 1]] THEN place[i - 1] ELSE i
  IN place

FaultyRank(scores) ==
  [c \in DOMAIN scores |->
     IF scores[c] = None THEN None
     ELSE CHOOSE i \in 1..Len(InOrder(scores)) : InOrder(scores)[i] = c]

Rank(scores) ==
  [c \in DOMAIN scores |->
     IF scores[c] = None THEN None
     ELSE Places(scores)[CHOOSE i \in 1..Len(InOrder(scores)) : InOrder(scores)[i] = c]]

WithinTopFive(r, c) == r.rank[c] # None /\ r.rank[c] <= TopLimit

--------------------------------------------------------------------------------
(* Weights and rating sheet *)

FaultyLockedBy(w) == w

LockedBy(w) == [w EXCEPT !.locked = TRUE]

UpdateWeights(w) ==
  /\ ~weights.locked /\ w # weights.split
  /\ weights' = [weights EXCEPT !.split = w]
  /\ UNCHANGED <<answers, sheet, unlocked, at, marks, car>>

(* A sheet is opened to the panel only with a technical competency on it, and *)
(* stays open; scores go with a competency that is removed.                   *)
SaveSheet(items, publish) ==
  /\ sheet.state # "locked"
  /\ publish => "technical" \in items
  /\ sheet' = [state |-> IF publish THEN "published" ELSE sheet.state, items |-> items]
  /\ rated' = [c \in Candidates |-> rated[c] \cap items]
  /\ UNCHANGED <<answers, weights, unlocked, at, exam, ete, car>>

UnlockWeights ==
  /\ weights.locked /\ ~selected /\ report.kind # "final"
  /\ weights' = [weights EXCEPT !.locked = FALSE]
  /\ unlocked' = TRUE
  /\ UNCHANGED <<answers, sheet, at, marks, car>>

--------------------------------------------------------------------------------
(* Marks *)

(* The batch's results; who was absent sits later. *)
ScoreExams(batch) ==
  /\ batch # {} /\ \A c \in batch : at[c] = "exam"
  /\ exam' = [c \in Candidates |->
                IF c \in batch
                  THEN [score |-> ExamScore(c, weights.split), on |-> weights.split]
                  ELSE exam[c]]
  /\ at' = [c \in Candidates |-> IF c \in batch THEN "interview" ELSE at[c]]
  /\ weights' = LockedBy(weights)
  /\ UNCHANGED <<answers, sheet, unlocked, rated, ete, car>>

FaultyLockedSheet(s) == s

LockedSheet(s) == [s EXCEPT !.state = "locked"]

RateInterview(c) ==
  /\ at[c] = "interview" /\ sheet.state # "draft"
  /\ rated' = [rated EXCEPT ![c] = sheet.items]
  /\ sheet' = LockedSheet(sheet)
  /\ weights' = LockedBy(weights)
  /\ UNCHANGED <<answers, unlocked, at, exam, ete, car>>

(* The interviews of the vacancy are closed together. *)
FinalizeInterviews ==
  /\ \E c \in Candidates : at[c] = "interview"
  /\ \A c \in Candidates : at[c] = "interview" => rated[c] # {}
  /\ at' = [c \in Candidates |-> IF at[c] = "interview" THEN "car" ELSE at[c]]
  /\ UNCHANGED <<answers, setup, marks, car>>

(* Whoever prepares the CAR may rate any candidate of the vacancy. *)
RateETE(c) ==
  /\ \E d \in Candidates : at[d] = "car"
  /\ ete' = [ete EXCEPT ![c] = answers[c].ete]
  /\ UNCHANGED <<answers, setup, at, exam, rated, car>>

Leave(c) ==
  /\ at[c] \notin {"authority", "out"}
  /\ at' = [at EXCEPT ![c] = "out"]
  /\ UNCHANGED <<answers, setup, marks, car>>

--------------------------------------------------------------------------------
(* The Comparative Assessment Report *)

CanGenerate ==
  /\ report.kind # "final"
  /\ \E c \in Candidates : at[c] = "car"
  /\ \A c \in Candidates : at[c] # "interview"

Rows ==
  [c \in {d \in Candidates : at[d] = "car"} |-> Overall(c, weights.split)]

Generated(kind) ==
  [kind |-> kind, split |-> weights.split, scores |-> Rows, rank |-> Rank(Rows)]

DraftReport ==
  /\ CanGenerate
  /\ report' = Generated("draft")
  /\ drafted' = TRUE
  /\ UNCHANGED <<answers, setup, at, marks, selected>>

Complete == \A c \in DOMAIN Rows : Rows[c] # None

FinalizeReport ==
  /\ CanGenerate /\ drafted /\ Complete
  /\ report' = Generated("final")
  /\ at' = [c \in Candidates |-> IF at[c] = "car" THEN "authority" ELSE at[c]]
  /\ UNCHANGED <<answers, setup, marks, drafted, selected>>

ReturnReport ==
  /\ report.kind = "final" /\ ~selected
  /\ report' = [NoReport EXCEPT !.kind = "returned"]
  /\ at' = [c \in Candidates |-> IF at[c] = "authority" THEN "car" ELSE at[c]]
  /\ UNCHANGED <<answers, setup, marks, drafted, selected>>

Select ==
  /\ report.kind = "final" /\ ~selected
  /\ selected' = TRUE
  /\ UNCHANGED <<answers, setup, at, marks, report, drafted>>

TakeBack ==
  /\ selected
  /\ selected' = FALSE
  /\ UNCHANGED <<answers, setup, at, marks, report, drafted>>

Next ==
  \/ \E w \in Weights : UpdateWeights(w)
  \/ \E items \in SUBSET Competencies \ {{}}, publish \in BOOLEAN : SaveSheet(items, publish)
  \/ UnlockWeights
  \/ \E batch \in SUBSET Candidates : ScoreExams(batch)
  \/ \E c \in Candidates : RateInterview(c) \/ RateETE(c) \/ Leave(c)
  \/ FinalizeInterviews
  \/ DraftReport \/ FinalizeReport \/ ReturnReport \/ Select \/ TakeBack

Spec == Init /\ [][Next]_vars

--------------------------------------------------------------------------------
(* Properties *)

(* A candidate's place is one more than the number of candidates who scored  *)
(* strictly higher, so the top five holds exactly those whom fewer than five *)
(* beat: a tie across the fifth place is never cut, a case number never      *)
(* decides, and a candidate without a score has no place.                    *)
TopFiveIsMerit ==
  \A c \in DOMAIN report.scores :
    LET better == {d \in Scored(report.scores) : report.scores[d] > report.scores[c]}
    IN IF report.scores[c] = None
         THEN ~WithinTopFive(report, c)
         ELSE WithinTopFive(report, c) <=> Cardinality(better) < TopLimit

(* Unless somebody unlocked the weights, every exam score of the vacancy and *)
(* its report stand on one split, whoever sat late and however often the     *)
(* report came back.                                                         *)
OneSplitUnlessUnlocked ==
  unlocked \/
    /\ \A c \in Candidates : exam[c].on \in {None, weights.split}
    /\ report.split \in {None, weights.split}

(* The interview scores a rating was computed from are never lost: everybody *)
(* who was rated is still scored on every competency of the sheet.           *)
ScoresSurvive ==
  \A c \in Candidates : rated[c] # {} => rated[c] = sheet.items
================================================================================
