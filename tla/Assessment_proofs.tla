-------------------------- MODULE Assessment_proofs --------------------------
(***************************************************************************)
(* Proofs about how candidates are assessed, for any set of members and of *)
(* candidates, any answers and any splits: the panel interviews            *)
(* (InterviewPanel), then the marks and what they stand on                 *)
(* (CandidateAssessment).  The two share no variable.                      *)
(*                                                                         *)
(* BoardWhenFinal is inductive given the types: every rating action asks   *)
(* for an open session, so what FinalizeBatch saw of a session is what     *)
(* stays on record until the session is reopened.                          *)
(*                                                                         *)
(* The properties of the marks rest on a lock: a candidate past the exam   *)
(* has locked the weights, and a candidate with interview scores has       *)
(* locked the sheet.  Only the unlocking of the weights for a correction,  *)
(* which is kept on record, takes the first one off.                       *)
(***************************************************************************)
EXTENDS InterviewPanel, CandidateAssessment, FiniteSetTheorems, WellFoundedInduction, TLAPS

-----------------------------------------------------------------------------
(* The panel *)

(* Every variable keeps its type.                                          *)
THEOREM PanelTyped == PanelSpec => []PanelTypeOK
<1>1. PanelInit => PanelTypeOK
  BY DEF PanelInit, PanelTypeOK, InterviewSession, InterviewRatings, InterviewFallbackRatings
<1>2. PanelTypeOK /\ [PanelNext]_panelVars => PanelTypeOK'
  <2> SUFFICES ASSUME PanelTypeOK, [PanelNext]_panelVars PROVE PanelTypeOK'
    OBVIOUS
  <2> USE DEF PanelTypeOK, InterviewSession, InterviewRatings, InterviewFallbackRatings
  <2>1. CASE UNCHANGED panelVars
    BY <2>1 DEF panelVars
  <2>2. ASSUME NEW chosen \in SUBSET Members, SetCore(chosen) PROVE PanelTypeOK'
    BY <2>2 DEF SetCore
  <2>3. ASSUME NEW chosen \in SUBSET Members, SetEndUsers(chosen) PROVE PanelTypeOK'
    BY <2>3 DEF SetEndUsers
  <2>4. ASSUME NEW m \in Members, ToggleActive(m) PROVE PanelTypeOK'
    BY <2>4 DEF ToggleActive
  <2>5. CASE Schedule
    BY <2>5 DEF Schedule
  <2>6. CASE FinalizeBatch
    BY <2>6 DEF FinalizeBatch
  <2>7. ASSUME NEW c \in Interviewees, TimeComes(c) PROVE PanelTypeOK'
    BY <2>7 DEF TimeComes
  <2>8. ASSUME NEW c \in Interviewees, MarkAbsent(c) PROVE PanelTypeOK'
    BY <2>8 DEF MarkAbsent
  <2>9. ASSUME NEW c \in Interviewees, Reschedule(c) PROVE PanelTypeOK'
    BY <2>9 DEF Reschedule
  <2>10. ASSUME NEW c \in Interviewees, NEW decided \in BOOLEAN, Close(c, decided)
         PROVE PanelTypeOK'
    BY <2>10 DEF Close
  <2>11. ASSUME NEW c \in Interviewees, Reopen(c) PROVE PanelTypeOK'
    BY <2>11 DEF Reopen
  <2>12. ASSUME NEW c \in Interviewees, NEW m \in Members, SaveRating(m, c) PROVE PanelTypeOK'
    BY <2>12 DEF SaveRating
  <2>13. ASSUME NEW c \in Interviewees, NEW m \in Members, NEW replace \in BOOLEAN,
                UploadSheet(m, c, replace)
         PROVE PanelTypeOK'
    BY <2>13 DEF UploadSheet
  <2> QED
    BY <2>1, <2>2, <2>3, <2>4, <2>5, <2>6, <2>7, <2>8, <2>9, <2>10, <2>11,
       <2>12, <2>13 DEF PanelNext, RateOnline, EncodeRating
<1> QED
  BY <1>1, <1>2, PTL DEF PanelSpec

(* The board of a finalized session is what FinalizeBatch counted: nothing *)
(* that happens to a final session or to the panel adds or takes a rating. *)
THEOREM BoardStands == PanelSpec => []BoardWhenFinal
<1>1. PanelInit => BoardWhenFinal
  BY DEF PanelInit, BoardWhenFinal
<1>2. PanelTypeOK /\ BoardWhenFinal /\ [PanelNext]_panelVars => BoardWhenFinal'
  <2> SUFFICES ASSUME PanelTypeOK, BoardWhenFinal, [PanelNext]_panelVars,
                      NEW d \in Interviewees, session'[d].state = "final"
               PROVE  IF session'[d].absent THEN Raters(d)' = {} ELSE HasBoard(d)'
    BY DEF BoardWhenFinal
  <2> DEFINE Stands == IF session'[d].absent THEN Raters(d)' = {} ELSE HasBoard(d)'
  <2> USE DEF PanelTypeOK, InterviewSession
  <2>a. ASSUME UNCHANGED <<ratings, sheets>>,
               session[d].state = "final",
               session'[d].absent = session[d].absent
        PROVE  Stands
    BY <2>a DEF BoardWhenFinal, Raters, HasBoard
  <2>1. CASE UNCHANGED <<session, ratings, sheets>>
    BY <2>1, <2>a
  <2>2. CASE Schedule
    BY <2>2, <2>a DEF Schedule
  <2>3. CASE FinalizeBatch
    <3>1. CASE d \in Pool
      <4>1. Finalizable(d) /\ session'[d].absent = session[d].absent
        BY <2>3, <3>1 DEF FinalizeBatch
      <4>2. Raters(d)' = Raters(d)
        BY <2>3 DEF FinalizeBatch, Raters
      <4> QED
        BY <4>1, <4>2 DEF Finalizable, HasBoard
    <3>2. CASE d \notin Pool
      BY <2>3, <3>2, <2>a DEF FinalizeBatch
    <3> QED
      BY <3>1, <3>2
  <2>4. ASSUME NEW c \in Interviewees, TimeComes(c) PROVE Stands
    BY <2>4, <2>a DEF TimeComes
  <2>5. ASSUME NEW c \in Interviewees, MarkAbsent(c) PROVE Stands
    <3>1. CASE d = c
      BY <2>5, <3>1 DEF MarkAbsent, Raters
    <3>2. CASE d # c
      BY <2>5, <3>2, <2>a DEF MarkAbsent
    <3> QED
      BY <3>1, <3>2
  <2>6. ASSUME NEW c \in Interviewees, Reschedule(c) PROVE Stands
    BY <2>6, <2>a DEF Reschedule
  <2>7. ASSUME NEW c \in Interviewees, NEW decided \in BOOLEAN, Close(c, decided)
        PROVE  Stands
    BY <2>7, <2>a DEF Close
  <2>8. ASSUME NEW c \in Interviewees, Reopen(c) PROVE Stands
    BY <2>8, <2>a DEF Reopen
  <2>9. ASSUME NEW c \in Interviewees, NEW m \in Members,
               SaveRating(m, c) \/ \E replace \in BOOLEAN : UploadSheet(m, c, replace)
        PROVE  Stands
    <3>1. Scorable(c) /\ UNCHANGED session
      BY <2>9 DEF SaveRating, UploadSheet, SheetAccepted
    <3>2. d # c
      BY <3>1 DEF Scorable
    <3>3. Raters(d)' = Raters(d)
      BY <2>9, <3>2 DEF SaveRating, UploadSheet, Raters, InterviewRatings,
                        InterviewFallbackRatings
    <3> QED
      BY <3>1, <3>3 DEF BoardWhenFinal, HasBoard
  <2>10. (\E chosen \in SUBSET Members : SetCore(chosen) \/ SetEndUsers(chosen))
           \/ (\E m \in Members : ToggleActive(m)) \/ UNCHANGED panelVars
         => UNCHANGED <<session, ratings, sheets>>
    BY DEF SetCore, SetEndUsers, ToggleActive, panelVars
  <2> QED
    BY <2>1, <2>2, <2>3, <2>4, <2>5, <2>6, <2>7, <2>8, <2>9, <2>10
    DEF PanelNext, RateOnline, EncodeRating
<1> QED
  BY <1>1, <1>2, PanelTyped, PTL DEF PanelSpec

(* Only SetEndUsers changes the end users of a vacancy, and it refuses to  *)
(* leave out one who rated.                                                *)
THEOREM EndUsersWhoRatedStay == PanelSpec => EndUserRatersStay
<1>1. [PanelNext]_panelVars => [endUsers \cap VacancyRaters \subseteq endUsers']_panelVars
  <2> SUFFICES ASSUME [PanelNext]_panelVars PROVE endUsers \cap VacancyRaters \subseteq endUsers'
    OBVIOUS
  <2>1. ASSUME NEW asked \in SUBSET Members, SetEndUsers(asked)
        PROVE  endUsers \cap VacancyRaters \subseteq endUsers'
    BY <2>1 DEF SetEndUsers
  <2>2. CASE UNCHANGED endUsers
    BY <2>2
  <2> QED
    BY <2>1, <2>2
    DEF PanelNext, panelVars, SetCore, ToggleActive, Schedule, FinalizeBatch, TimeComes,
        MarkAbsent, Reschedule, Close, Reopen, RateOnline, EncodeRating,
        SaveRating, UploadSheet
<1> QED
  BY <1>1, PTL DEF PanelSpec, EndUserRatersStay

-----------------------------------------------------------------------------
(* The marks *)

USE AssessmentAssumption DEF AssessmentAssumption

(* What stands on the split in force. *)
OneSplit ==
  unlocked \/
    /\ \A c \in Candidates : /\ exam[c].on \in {None, weights.split}
                             /\ exam[c].on # None => weights.locked
                             /\ at[c] \in {"interview", "car", "authority"} => weights.locked
    /\ report.split \in {None, weights.split}
    /\ report.split # None => weights.locked

RatedOnSheet ==
  \A c \in Candidates : rated[c] # {} => rated[c] = sheet.items /\ sheet.state = "locked"

(* The scores a report may hold. *)
ScoreTables == UNION {[S -> Nat \cup {None}] : S \in SUBSET Candidates}

(* The ranks of the report are those of its scores. *)
Ranked ==
  /\ report.scores \in ScoreTables
  /\ report.scores # <<>> => report.rank = Rank(report.scores)

IInv == TypeOK /\ OneSplit /\ RatedOnSheet /\ Ranked

-----------------------------------------------------------------------------
(* The ranking *)

(* A nonempty set of numbers has a least one: the shortest of the intervals *)
(* that end in it.                                                         *)
LEMMA LeastOne ==
  ASSUME NEW S \in SUBSET Nat, S # {}
  PROVE  \E x \in S : \A y \in S : x <= y
  <1> DEFINE Below == {1..x : x \in S}
  <1>1. Below # {} /\ Below \subseteq FiniteSubsetsOf(Nat)
    <2>1. ASSUME NEW x \in S PROVE 1..x \in FiniteSubsetsOf(Nat)
      BY FS_Interval DEF FiniteSubsetsOf
    <2> QED
      BY <2>1
  <1>2. IsWellFoundedOn(StrictSubsetOrdering(Nat), FiniteSubsetsOf(Nat))
    BY FS_StrictSubsetOrderingWellFounded
  <1>3. PICK T \in Below : \A U \in Below : ~(<<U, T>> \in StrictSubsetOrdering(Nat))
    <2> HIDE DEF Below
    <2> QED
      BY <1>1, <1>2, WFMin, Zenon
  <1>4. PICK x \in S : T = 1..x
    OBVIOUS
  <1>5. ASSUME NEW y \in S PROVE x <= y
    <2>1. SUFFICES ASSUME y < x PROVE FALSE
      OBVIOUS
    <2>2. 1..y \subseteq 1..x /\ x \in 1..x /\ x \notin 1..y
      BY <2>1
    <2>3. <<1..y, 1..x>> \in StrictSubsetOrdering(Nat)
      BY <2>2 DEF StrictSubsetOrdering
    <2> QED
      BY <1>3, <1>4, <2>3
  <1> QED
    BY <1>5

Better(scores, c) == {d \in Scored(scores) : scores[d] > scores[c]}

InFront(scores, c) == {d \in Scored(scores) : Ahead(scores, d, c)}

(* Any two scored candidates are ordered one way, and whoever is in front  *)
(* of a candidate is in front of those it is in front of.                  *)
LEMMA AheadIsOrder ==
  ASSUME NEW scores \in ScoreTables
  PROVE  /\ IsFiniteSet(Scored(scores)) /\ Scored(scores) \subseteq Candidates
         /\ \A c \in Scored(scores) : scores[c] \in Nat
         /\ \A c, d \in Scored(scores) : c # d => Ahead(scores, c, d) \/ Ahead(scores, d, c)
         /\ \A c \in Scored(scores) : ~Ahead(scores, c, c)
         /\ \A c, d, e \in Scored(scores) :
              Ahead(scores, c, d) /\ Ahead(scores, d, e) => Ahead(scores, c, e)
  <1>1. PICK S \in SUBSET Candidates : scores \in [S -> Nat \cup {None}]
    BY DEF ScoreTables
  <1>2. Scored(scores) \subseteq Candidates /\ \A c \in Scored(scores) : scores[c] \in Nat
    BY <1>1 DEF Scored
  <1>3. IsFiniteSet(Candidates)
    BY FS_Interval DEF Candidates
  <1>4. IsFiniteSet(Scored(scores))
    BY <1>2, <1>3, FS_Subset
  <1>5. \A c \in Scored(scores) : c \in Nat
    BY <1>2 DEF Candidates
  <1> QED
    BY <1>2, <1>4, <1>5 DEF Ahead

(* The candidates can be put in order: each at one more than the number of *)
(* those in front of it.                                                   *)
LEMMA OrderExists ==
  ASSUME NEW scores \in ScoreTables
  PROVE  \E order \in [1..Cardinality(Scored(scores)) -> Scored(scores)] :
           \A i, j \in DOMAIN order : i < j => Ahead(scores, order[i], order[j])
  <1> DEFINE T == Scored(scores)
             n == Cardinality(T)
             place == [c \in T |-> Cardinality(InFront(scores, c)) + 1]
  <1>1. IsFiniteSet(T) /\ n \in Nat
    BY AheadIsOrder, FS_CardinalityType
  <1>2. \A c \in T : /\ IsFiniteSet(InFront(scores, c))
                     /\ Cardinality(InFront(scores, c)) \in Nat
                     /\ InFront(scores, c) \subseteq T
    BY <1>1, FS_Subset, FS_CardinalityType DEF InFront
  <1>3. ASSUME NEW c \in T PROVE place[c] \in 1..n
    <2>1. InFront(scores, c) \subseteq T \ {c}
      BY AheadIsOrder DEF InFront
    <2>2. IsFiniteSet(T \ {c}) /\ Cardinality(T \ {c}) = n - 1
      BY <1>1, FS_RemoveElement
    <2>3. Cardinality(InFront(scores, c)) <= n - 1
      BY <2>1, <2>2, FS_Subset
    <2> QED
      BY <1>1, <1>2, <2>3
  <1>4. ASSUME NEW c \in T, NEW d \in T, Ahead(scores, c, d) PROVE place[c] < place[d]
    <2>1. InFront(scores, c) \cup {c} \subseteq InFront(scores, d)
      BY <1>4, AheadIsOrder DEF InFront
    <2>2. c \notin InFront(scores, c)
      BY AheadIsOrder DEF InFront
    <2>3. Cardinality(InFront(scores, c) \cup {c}) = Cardinality(InFront(scores, c)) + 1
      BY <1>2, <2>2, FS_AddElement
    <2>4. Cardinality(InFront(scores, c) \cup {c}) <= Cardinality(InFront(scores, d))
      BY <1>2, <2>1, FS_Subset
    <2> QED
      BY <1>2, <2>3, <2>4
  <1>5. place \in [T -> 1..n]
    BY <1>3
  <1>6. ASSUME NEW c \in T, NEW d \in T, place[c] = place[d] PROVE c = d
    <2>1. place[c] \in Nat /\ place[d] \in Nat
      BY <1>3
    <2> HIDE DEF place, T
    <2>2. SUFFICES ASSUME c # d PROVE FALSE
      OBVIOUS
    <2>3. Ahead(scores, c, d) \/ Ahead(scores, d, c)
      BY <2>2, AheadIsOrder DEF T
    <2>4. place[c] < place[d] \/ place[d] < place[c]
      BY <1>4, <2>3
    <2> QED
      BY <1>6, <2>1, <2>4
  <1>7. place \in Injection(T, 1..n)
    <2> HIDE DEF place, T, n
    <2> QED
      BY <1>5, <1>6 DEF Injection, IsInjective
  <1>8. IsFiniteSet(1..n) /\ Cardinality(1..n) = n
    BY <1>1, FS_Interval
  <1>9. place \in Surjection(T, 1..n)
    <2> HIDE DEF place
    <2> QED
      BY <1>7, <1>8, FS_Injection
  <1>10. \A i \in 1..n : \E c \in T : place[c] = i
    <2> HIDE DEF place, T, n
    <2> QED
      BY <1>9 DEF Surjection
  <1> DEFINE order == [i \in 1..n |-> CHOOSE c \in T : place[c] = i]
  <1>11. \A i \in 1..n : order[i] \in T /\ place[order[i]] = i
    <2> HIDE DEF place, T, n
    <2> QED
      BY <1>10
  <1>12. order \in [1..n -> T]
    <2> HIDE DEF place, T, n
    <2> QED
      BY <1>11
  <1>13. ASSUME NEW i \in 1..n, NEW j \in 1..n, i < j PROVE Ahead(scores, order[i], order[j])
    <2> HIDE DEF place, T, order
    <2>1. order[i] # order[j]
      BY <1>11, <1>13
    <2>2. ~(place[order[j]] < place[order[i]])
      BY <1>1, <1>11, <1>13
    <2> QED
      BY <1>4, <1>11, <2>1, <2>2, AheadIsOrder DEF T
  <1> HIDE DEF order
  <1>14. DOMAIN order = 1..n
    BY <1>12
  <1> QED
    BY <1>12, <1>13, <1>14

(* The order of the ranking holds every scored candidate once, best first. *)
LEMMA RankingOrder ==
  ASSUME NEW scores \in ScoreTables
  PROVE  LET order == InOrder(scores)
             n == Cardinality(Scored(scores))
         IN  /\ n \in Nat /\ Len(order) = n /\ DOMAIN order = 1..n
             /\ order \in [1..n -> Scored(scores)]
             /\ \A i, j \in 1..n : i < j => Ahead(scores, order[i], order[j])
             /\ \A i, j \in 1..n : order[i] = order[j] => i = j
             /\ \A c \in Scored(scores) : \E i \in 1..n : order[i] = c
  <1> DEFINE T == Scored(scores)
             n == Cardinality(T)
             order == InOrder(scores)
  <1>1. IsFiniteSet(T) /\ n \in Nat
    BY AheadIsOrder, FS_CardinalityType
  <1>2. /\ order \in [1..n -> T]
        /\ \A i, j \in DOMAIN order : i < j => Ahead(scores, order[i], order[j])
    BY OrderExists DEF InOrder
  <1> HIDE DEF T, n, order
  <1>3. DOMAIN order = 1..n /\ Len(order) = n
    BY <1>1, <1>2
  <1>4. ASSUME NEW i \in 1..n, NEW j \in 1..n, order[i] = order[j] PROVE i = j
    <2>1. ~Ahead(scores, order[i], order[j]) /\ ~Ahead(scores, order[j], order[i])
      BY <1>2, <1>4, AheadIsOrder DEF T
    <2> QED
      BY <1>1, <1>2, <1>3, <2>1
  <1>5. order \in Injection(1..n, T)
    BY <1>2, <1>3, <1>4 DEF Injection, IsInjective
  <1>6. IsFiniteSet(1..n) /\ Cardinality(1..n) = n
    BY <1>1, FS_Interval
  <1>7. order \in Surjection(1..n, T)
    BY <1>1, <1>5, <1>6, FS_Injection DEF n
  <1>8. \A c \in T : \E i \in 1..n : order[i] = c
    BY <1>7 DEF Surjection
  <1> QED
    BY <1>1, <1>2, <1>3, <1>4, <1>8 DEF T, n, order

(* Who scored higher than a candidate: as many as are before it in the     *)
(* order, or as higher than the one before if the two are tied.            *)
LEMMA BetterBefore ==
  ASSUME NEW scores \in ScoreTables, NEW i \in 1..Cardinality(Scored(scores))
  PROVE  LET order == InOrder(scores)
         IN  /\ IsFiniteSet(Better(scores, order[i]))
             /\ Cardinality(Better(scores, order[i])) =
                  IF i > 1 /\ scores[order[i]] = scores[order[i - 1]]
                    THEN Cardinality(Better(scores, order[i - 1])) ELSE i - 1
  <1> DEFINE T == Scored(scores)
             n == Cardinality(T)
             order == InOrder(scores)
  <1>1. IsFiniteSet(T) /\ T \subseteq Candidates /\ \A c \in T : scores[c] \in Nat
    BY AheadIsOrder
  <1>2. /\ n \in Nat /\ order \in [1..n -> T]
        /\ \A j, k \in 1..n : j < k => Ahead(scores, order[j], order[k])
        /\ \A j, k \in 1..n : order[j] = order[k] => j = k
        /\ \A c \in T : \E j \in 1..n : order[j] = c
    BY RankingOrder
  <1>3. Better(scores, order[i]) \subseteq T
    BY DEF Better
  <1>4. IsFiniteSet(Better(scores, order[i]))
    BY <1>1, <1>3, FS_Subset
  <1> HIDE DEF T, n, order
  <1>5. CASE i > 1 /\ scores[order[i]] = scores[order[i - 1]]
    BY <1>4, <1>5 DEF Better, order
  <1>6. CASE ~(i > 1 /\ scores[order[i]] = scores[order[i - 1]])
    <2>1. i \in 1..n
      BY DEF n, T
    <2>2. ASSUME NEW j \in 1..n, j < i PROVE scores[order[j]] > scores[order[i]]
      <3>1. i - 1 \in 1..n /\ i > 1 /\ (j = i - 1 \/ j < i - 1)
        BY <1>2, <2>1, <2>2
      <3>2. scores[order[i - 1]] > scores[order[i]]
        BY <1>1, <1>2, <1>6, <2>1, <3>1 DEF Ahead
      <3>3. scores[order[j]] >= scores[order[i - 1]]
        BY <1>1, <1>2, <3>1 DEF Ahead
      <3> QED
        BY <1>1, <1>2, <2>1, <3>1, <3>2, <3>3
    <2>3. ASSUME NEW j \in 1..n, scores[order[j]] > scores[order[i]] PROVE j < i
      <3>1. SUFFICES ASSUME i <= j PROVE FALSE
        BY <1>2, <2>1
      <3>2. i = j \/ Ahead(scores, order[i], order[j])
        BY <1>2, <2>1, <3>1
      <3>3. scores[order[i]] >= scores[order[j]]
        BY <1>1, <1>2, <2>1, <3>2 DEF Ahead
      <3> QED
        BY <1>1, <1>2, <2>1, <2>3, <3>3
    <2>4. Better(scores, order[i]) = {order[j] : j \in 1..(i - 1)}
      <3>1. ASSUME NEW d \in Better(scores, order[i]) PROVE d \in {order[j] : j \in 1..(i - 1)}
        <4>1. PICK j \in 1..n : order[j] = d
          BY <1>2, <1>3, T = Scored(scores) DEF T
        <4>2. j < i
          BY <2>3, <4>1 DEF Better
        <4> QED
          BY <1>2, <2>1, <4>1, <4>2
      <3>2. ASSUME NEW j \in 1..(i - 1) PROVE order[j] \in Better(scores, order[i])
        BY <1>2, <2>1, <2>2 DEF Better, T
      <3> QED
        BY <3>1, <3>2
    <2> DEFINE front == [j \in 1..(i - 1) |-> order[j]]
    <2>5. front \in Bijection(1..(i - 1), Better(scores, order[i]))
      <3>1. front \in [1..(i - 1) -> Better(scores, order[i])]
        BY <2>4
      <3>2. ASSUME NEW j \in 1..(i - 1), NEW k \in 1..(i - 1), front[j] = front[k] PROVE j = k
        BY <1>2, <2>1, <3>2
      <3>3. \A d \in Better(scores, order[i]) : \E j \in 1..(i - 1) : front[j] = d
        BY <2>4
      <3> HIDE DEF front
      <3> QED
        BY <3>1, <3>2, <3>3 DEF Bijection, Injection, Surjection, IsInjective
    <2>6. ExistsBijection(1..(i - 1), Better(scores, order[i]))
      <3> HIDE DEF front
      <3> QED
        BY <2>5 DEF ExistsBijection
    <2>7. i - 1 \in Nat
      BY <1>2, <2>1
    <2>8. Cardinality(Better(scores, order[i])) = i - 1
      BY <2>6, <2>7, FS_CountingElements
    <2> QED
      BY <1>4, <1>6, <2>8 DEF order
  <1> QED
    BY <1>5, <1>6

(* The places handed out along the order: one more than the number of      *)
(* those who scored higher.                                                *)
LEMMA PlacesByMerit ==
  ASSUME NEW scores \in ScoreTables
  PROVE  \A i \in 1..Cardinality(Scored(scores)) :
           Places(scores)[i] = Cardinality(Better(scores, InOrder(scores)[i])) + 1
  <1> DEFINE n == Cardinality(Scored(scores))
             order == InOrder(scores)
             beaten(i) == Cardinality(Better(scores, order[i]))
             Along(f) == [i \in 1..n |->
                            IF i > 1 /\ scores[order[i]] = scores[order[i - 1]]
                              THEN f[i - 1] ELSE i]
             merit == [i \in 1..n |-> beaten(i) + 1]
             place == Places(scores)
  <1>1. n \in Nat /\ Len(order) = n
    BY RankingOrder
  <1>2. ASSUME NEW i \in 1..n
        PROVE  beaten(i) = IF i > 1 /\ scores[order[i]] = scores[order[i - 1]]
                             THEN beaten(i - 1) ELSE i - 1
    BY BetterBefore
  <1>3. place = CHOOSE f : f = Along(f)
    BY <1>1 DEF Places
  <1> HIDE DEF n, order, beaten, place
  <1>4. merit = Along(merit)
    <2>1. ASSUME NEW i \in 1..n PROVE merit[i] = Along(merit)[i]
      <3>1. CASE i > 1 /\ scores[order[i]] = scores[order[i - 1]]
        <4>1. i - 1 \in 1..n
          BY <1>1, <3>1
        <4> QED
          BY <1>2, <3>1, <4>1
      <3>2. CASE ~(i > 1 /\ scores[order[i]] = scores[order[i - 1]])
        BY <1>1, <1>2, <3>2
      <3> QED
        BY <3>1, <3>2
    <2> QED
      BY <2>1
  <1>5. place = Along(place)
    <2> HIDE DEF Along, merit
    <2> QED
      BY <1>3, <1>4
  <1> DEFINE Wrong == {i \in 1..n : place[i] # merit[i]}
  <1>6. Wrong = {}
    <2>1. SUFFICES ASSUME Wrong # {} PROVE FALSE
      OBVIOUS
    <2>2. PICK i \in Wrong : \A j \in Wrong : i <= j
      <3>1. Wrong \in SUBSET Nat
        BY <1>1
      <3> HIDE DEF Wrong
      <3> QED
        BY <2>1, <3>1, LeastOne
    <2>3. i \in 1..n /\ place[i] # merit[i]
      OBVIOUS
    <2>4. CASE i > 1 /\ scores[order[i]] = scores[order[i - 1]]
      <3>1. i - 1 \in 1..n /\ ~(i <= i - 1)
        BY <1>1, <2>3, <2>4
      <3>2. place[i - 1] = merit[i - 1]
        BY <2>2, <3>1
      <3>3. place[i] = place[i - 1]
        BY <1>5, <2>3, <2>4
      <3>4. merit[i] = merit[i - 1]
        BY <1>4, <2>3, <2>4
      <3> QED
        BY <2>3, <3>2, <3>3, <3>4
    <2>5. CASE ~(i > 1 /\ scores[order[i]] = scores[order[i - 1]])
      <3>1. place[i] = i
        BY <1>5, <2>3, <2>5
      <3>2. merit[i] = i
        BY <1>4, <2>3, <2>5
      <3> QED
        BY <2>3, <3>1, <3>2
    <2> QED
      BY <2>4, <2>5
  <1> QED
    BY <1>6 DEF beaten, n, order, place

(* The rank of a scored candidate is one more than the number of those who *)
(* scored higher; who has no score has no rank.                            *)
LEMMA RankByMerit ==
  ASSUME NEW scores \in ScoreTables, NEW c \in DOMAIN scores
  PROVE  /\ scores[c] = None => Rank(scores)[c] = None
         /\ scores[c] # None =>
              /\ Cardinality(Better(scores, c)) \in Nat
              /\ Rank(scores)[c] = Cardinality(Better(scores, c)) + 1
  <1>1. CASE scores[c] = None
    BY <1>1 DEF Rank
  <1>2. CASE scores[c] # None
    <2> DEFINE order == InOrder(scores)
               n == Cardinality(Scored(scores))
               i == CHOOSE j \in 1..Len(order) : order[j] = c
    <2>1. c \in Scored(scores)
      BY <1>2 DEF Scored
    <2>2. Len(order) = n /\ \E j \in 1..n : order[j] = c
      BY <2>1, RankingOrder
    <2>3. i \in 1..n /\ order[i] = c
      <3> HIDE DEF order, n
      <3> QED
        BY <2>2
    <2>4. Rank(scores)[c] = Places(scores)[i]
      BY <1>2 DEF Rank
    <2> HIDE DEF i
    <2>5. Places(scores)[i] = Cardinality(Better(scores, c)) + 1
      BY <2>3, PlacesByMerit
    <2>6. IsFiniteSet(Better(scores, c))
      BY <2>3, BetterBefore
    <2> QED
      BY <1>2, <2>4, <2>5, <2>6, FS_CardinalityType
  <1> QED
    BY <1>1, <1>2

-----------------------------------------------------------------------------
(* Marks and locks *)

(* A score is a whole number of points.                                    *)
LEMMA ScoreIsNumber ==
  ASSUME TypeOK, NEW c \in Candidates, NEW w \in Weights
  PROVE  ExamScore(c, w) \in Nat
  <1>1. /\ answers[c].technical \in Nat /\ answers[c].general \in Nat
        /\ w.technical \in Nat /\ w.general \in Nat
    BY DEF TypeOK
  <1> DEFINE p == answers[c].technical * w.technical
             q == answers[c].general * w.general
  <1>2. p \in Nat /\ q \in Nat
    BY <1>1
  <1> HIDE DEF p, q
  <1>3. ((p + q) + 5) \div 10 \in Nat
    BY <1>2
  <1> QED
    BY <1>3 DEF ExamScore, Quantize, p, q

LEMMA TotalIsNumber ==
  ASSUME TypeOK, NEW c \in Candidates, NEW w \in Weights
  PROVE  Overall(c, w) \in Nat \cup {None}
  <1>1. SUFFICES ASSUME EteComponent(c) # None, exam[c].score # None
                 PROVE  Overall(c, w) \in Nat
    BY DEF Overall
  <1>2. /\ ete[c] \in Nat \cup {None}
        /\ answers[c].documents \in Nat \cup {None}
        /\ answers[c].interview \in Nat /\ exam[c].score \in Nat
        /\ w.ete \in Nat /\ w.exam \in Nat /\ w.interview \in Nat
    <2>1. answers[c] \in Answers /\ w \in Weights
      BY DEF TypeOK
    <2>2. ete[c] \in {a.ete : a \in Answers} \cup {None}
      BY DEF TypeOK
    <2>3. exam[c].score \in Nat \cup {None}
      BY DEF TypeOK
    <2> QED
      BY <1>1, <2>1, <2>2, <2>3
  <1>3. EteComponent(c) \in Nat
    BY <1>1, <1>2 DEF EteComponent
  <1> DEFINE p == EteComponent(c) * w.ete
             q == exam[c].score * w.exam
             r == answers[c].interview * w.interview
  <1>4. p \in Nat /\ q \in Nat /\ r \in Nat
    BY <1>2, <1>3
  <1> HIDE DEF p, q, r
  <1>5. (p + q + r + 5) \div 10 \in Nat
    BY <1>4
  <1> QED
    BY <1>1, <1>5 DEF Overall, Quantize, p, q, r

(* The scores of a new report, and its ranks. *)
LEMMA NewReport ==
  ASSUME TypeOK, NEW kind
  PROVE  /\ Generated(kind).scores \in ScoreTables
         /\ Generated(kind).rank = Rank(Generated(kind).scores)
  <1>1. weights.split \in Weights
    BY DEF TypeOK, VacancyAssessmentWeights
  <1>2. \A c \in Candidates : Overall(c, weights.split) \in Nat \cup {None}
    BY <1>1, TotalIsNumber
  <1> DEFINE S == {d \in Candidates : at[d] = "car"}
  <1>3. S \in SUBSET Candidates /\ Rows \in [S -> Nat \cup {None}]
    BY <1>2 DEF Rows
  <1>4. Rows \in ScoreTables
    BY <1>3 DEF ScoreTables
  <1> QED
    BY <1>4 DEF Generated

LEMMA Locking ==
  ASSUME TypeOK
  PROVE  /\ LockedBy(weights) \in VacancyAssessmentWeights
         /\ LockedBy(weights).split = weights.split /\ LockedBy(weights).locked
         /\ LockedSheet(sheet) \in CompetencyRatingTemplate
         /\ LockedSheet(sheet).items = sheet.items /\ LockedSheet(sheet).state = "locked"
  BY DEF TypeOK, LockedBy, LockedSheet, VacancyAssessmentWeights, CompetencyRatingTemplate

(* A report without candidates has no scores. *)
LEMMA NoScores == <<>> \in ScoreTables
  <1>1. <<>> = [c \in {} |-> None]
    OBVIOUS
  <1>2. <<>> \in [{} -> Nat \cup {None}]
    BY <1>1
  <1> QED
    BY <1>2 DEF ScoreTables

LEMMA Start ==
  ASSUME Init
  PROVE  IInv
  <1>1. weights \in VacancyAssessmentWeights /\ sheet \in CompetencyRatingTemplate
    BY DEF Init, VacancyAssessmentWeights, CompetencyRatingTemplate, Competencies, Default
  <1>2. TypeOK
    BY <1>1 DEF Init, TypeOK, NoReport
  <1>3. OneSplit
    BY DEF Init, OneSplit, NoReport
  <1>4. RatedOnSheet
    BY DEF Init, RatedOnSheet
  <1>5. Ranked
    BY NoScores DEF Init, Ranked, NoReport
  <1> QED
    BY <1>2, <1>3, <1>4, <1>5 DEF IInv

-----------------------------------------------------------------------------
(* The office's weights and sheet *)

LEMMA WeightsStep ==
  ASSUME IInv, (\E w \in Weights : UpdateWeights(w)) \/ UnlockWeights
  PROVE  IInv'
  <1>0. weights \in [split : Weights, locked : BOOLEAN]
    BY DEF IInv, TypeOK, VacancyAssessmentWeights
  <1>1. UNCHANGED <<answers, sheet, at, marks, car>>
    BY DEF UpdateWeights, UnlockWeights
  <1>2. RatedOnSheet'
    BY <1>1 DEF IInv, RatedOnSheet, marks
  <1>5. Ranked'
    BY <1>1 DEF IInv, Ranked, car
  <1>3. CASE UnlockWeights
    <2>1. unlocked' = TRUE
      BY <1>3 DEF UnlockWeights
    <2>2. weights' \in VacancyAssessmentWeights
      BY <1>0, <1>3 DEF UnlockWeights, VacancyAssessmentWeights
    <2>3. TypeOK'
      BY <1>1, <2>2 DEF IInv, TypeOK, marks, car
    <2>4. OneSplit'
      BY <2>1 DEF OneSplit
    <2> QED
      BY <1>2, <1>5, <2>3, <2>4 DEF IInv
  <1>4. ASSUME NEW w \in Weights, UpdateWeights(w) PROVE IInv'
    <2>1. ~weights.locked /\ weights' = [weights EXCEPT !.split = w] /\ UNCHANGED unlocked
      BY <1>4 DEF UpdateWeights
    <2>2. weights' \in VacancyAssessmentWeights
      BY <1>0, <2>1 DEF VacancyAssessmentWeights
    <2>3. TypeOK'
      BY <1>1, <2>2 DEF IInv, TypeOK, marks, car
    <2>4. OneSplit'
      <3>1. unlocked \/ (/\ \A c \in Candidates : /\ exam[c].on = None
                                                 /\ at[c] \notin {"interview", "car", "authority"}
                         /\ report.split = None)
        BY <2>1 DEF IInv, OneSplit
      <3> QED
        BY <1>1, <2>1, <3>1 DEF OneSplit, marks, car
    <2> QED
      BY <1>2, <1>5, <2>3, <2>4 DEF IInv
  <1> QED
    BY <1>3, <1>4

(* The sheet is only saved before anybody has been rated. *)
LEMMA SheetStep ==
  ASSUME IInv, NEW items \in SUBSET Competencies \ {{}}, NEW publish \in BOOLEAN,
         SaveSheet(items, publish)
  PROVE  IInv'
  <1>1. /\ UNCHANGED <<answers, weights, unlocked, at, exam, ete, car>>
        /\ sheet.state # "locked"
        /\ sheet' = [state |-> IF publish THEN "published" ELSE sheet.state, items |-> items]
        /\ rated' = [c \in Candidates |-> rated[c] \cap items]
    BY DEF SaveSheet
  <1>2. \A c \in Candidates : rated[c] = {}
    BY <1>1 DEF IInv, RatedOnSheet
  <1>3. sheet' \in CompetencyRatingTemplate
    BY <1>1 DEF IInv, TypeOK, CompetencyRatingTemplate
  <1>4. rated' \in [Candidates -> SUBSET Competencies]
    BY <1>1, <1>2
  <1>5. TypeOK'
    BY <1>1, <1>3, <1>4 DEF IInv, TypeOK, car
  <1>6. RatedOnSheet'
    BY <1>1, <1>2 DEF RatedOnSheet
  <1>7. OneSplit'
    BY <1>1 DEF IInv, OneSplit, car
  <1>10. Ranked'
    BY <1>1 DEF IInv, Ranked, car
  <1> QED
    BY <1>5, <1>6, <1>7, <1>10 DEF IInv

-----------------------------------------------------------------------------
(* Marks *)

LEMMA ExamStep ==
  ASSUME IInv, NEW batch \in SUBSET Candidates, ScoreExams(batch)
  PROVE  IInv'
  <1>1. /\ exam' = [c \in Candidates |->
                      IF c \in batch
                        THEN [score |-> ExamScore(c, weights.split), on |-> weights.split]
                        ELSE exam[c]]
        /\ at' = [c \in Candidates |-> IF c \in batch THEN "interview" ELSE at[c]]
        /\ weights' = LockedBy(weights)
        /\ UNCHANGED <<answers, sheet, unlocked, rated, ete, car>>
    BY DEF ScoreExams
  <1>2. /\ weights.split \in Weights /\ weights'.split = weights.split /\ weights'.locked
        /\ weights' \in VacancyAssessmentWeights
    BY <1>1, Locking DEF IInv, TypeOK, VacancyAssessmentWeights
  <1>3. \A c \in Candidates : ExamScore(c, weights.split) \in Nat
    BY <1>2, ScoreIsNumber DEF IInv
  <1>4. exam' \in [Candidates -> [score : Nat \cup {None}, on : Weights \cup {None}]]
    BY <1>1, <1>2, <1>3 DEF IInv, TypeOK
  <1>5. at' \in [Candidates -> {"exam", "interview", "car", "authority", "out"}]
    BY <1>1 DEF IInv, TypeOK
  <1>6. \A c \in Candidates : at'[c] \in {"interview", "car", "authority"} => exam'[c].score # None
    BY <1>1, <1>3 DEF IInv, TypeOK
  <1>7. TypeOK'
    BY <1>1, <1>2, <1>4, <1>5, <1>6 DEF IInv, TypeOK, car
  <1>8. RatedOnSheet'
    BY <1>1 DEF IInv, RatedOnSheet
  <1>9. OneSplit'
    <2>1. \A c \in Candidates : exam'[c].on \in {exam[c].on, weights.split}
      BY <1>1
    <2> QED
      BY <1>1, <1>2, <2>1 DEF IInv, OneSplit, car
  <1>10. Ranked'
    BY <1>1 DEF IInv, Ranked, car
  <1> QED
    BY <1>7, <1>8, <1>9, <1>10 DEF IInv

LEMMA RatingStep ==
  ASSUME IInv, NEW c \in Candidates, RateInterview(c)
  PROVE  IInv'
  <1>1. /\ rated' = [rated EXCEPT ![c] = sheet.items]
        /\ sheet' = LockedSheet(sheet) /\ weights' = LockedBy(weights)
        /\ UNCHANGED <<answers, unlocked, at, exam, ete, car>>
    BY DEF RateInterview
  <1>2. /\ weights'.split = weights.split /\ weights'.locked
        /\ weights' \in VacancyAssessmentWeights
        /\ sheet' \in CompetencyRatingTemplate
        /\ sheet'.items = sheet.items /\ sheet'.state = "locked"
    BY <1>1, Locking DEF IInv
  <1>3. rated' \in [Candidates -> SUBSET Competencies]
    BY <1>1 DEF IInv, TypeOK, CompetencyRatingTemplate
  <1>4. TypeOK'
    BY <1>1, <1>2, <1>3 DEF IInv, TypeOK, car
  <1>5. RatedOnSheet'
    BY <1>1, <1>2 DEF IInv, RatedOnSheet, TypeOK
  <1>6. OneSplit'
    BY <1>1, <1>2 DEF IInv, OneSplit, car
  <1>10. Ranked'
    BY <1>1 DEF IInv, Ranked, car
  <1> QED
    BY <1>4, <1>5, <1>6, <1>10 DEF IInv

(* Candidates who move on or leave, and an ETE rating. *)
LEMMA CandidateStep ==
  ASSUME IInv,
         FinalizeInterviews \/ \E c \in Candidates : RateETE(c) \/ Leave(c)
  PROVE  IInv'
  <1>1. UNCHANGED <<answers, setup, exam, rated, car>>
    BY DEF FinalizeInterviews, RateETE, Leave, marks
  <1>2. ete' \in [Candidates -> {a.ete : a \in Answers} \cup {None}]
    BY DEF FinalizeInterviews, RateETE, Leave, marks, IInv, TypeOK
  <1>3. at' \in [Candidates -> {"exam", "interview", "car", "authority", "out"}]
    BY DEF FinalizeInterviews, RateETE, Leave, IInv, TypeOK
  <1>4. \A c \in Candidates : at'[c] = at[c] \/ at'[c] = "out"
                              \/ (at[c] = "interview" /\ at'[c] = "car")
    BY DEF FinalizeInterviews, RateETE, Leave, IInv, TypeOK
  <1>5. TypeOK'
    BY <1>1, <1>2, <1>3, <1>4 DEF IInv, TypeOK, setup, car
  <1>6. RatedOnSheet'
    BY <1>1 DEF IInv, RatedOnSheet, setup
  <1>7. OneSplit'
    BY <1>1, <1>4 DEF IInv, OneSplit, setup, car
  <1>10. Ranked'
    BY <1>1 DEF IInv, Ranked, car
  <1> QED
    BY <1>5, <1>6, <1>7, <1>10 DEF IInv

-----------------------------------------------------------------------------
(* The report *)

LEMMA ReportStep ==
  ASSUME IInv, DraftReport \/ FinalizeReport \/ ReturnReport \/ Select \/ TakeBack
  PROVE  IInv'
  <1>1. UNCHANGED <<answers, setup, marks>>
    BY DEF DraftReport, FinalizeReport, ReturnReport, Select, TakeBack
  <1>2. at' \in [Candidates -> {"exam", "interview", "car", "authority", "out"}]
    BY DEF DraftReport, FinalizeReport, ReturnReport, Select, TakeBack, IInv, TypeOK
  <1>3. \A c \in Candidates : \/ at'[c] = at[c]
                              \/ {at[c], at'[c]} = {"car", "authority"}
    BY DEF DraftReport, FinalizeReport, ReturnReport, Select, TakeBack, IInv, TypeOK
  <1>4. /\ report'.kind \in {"none", "draft", "final", "returned"}
        /\ report'.kind \in {"final", "returned"} => drafted'
        /\ selected' => report'.kind = "final"
    BY DEF DraftReport, FinalizeReport, ReturnReport, Select, TakeBack, CanGenerate, Generated,
           NoReport, IInv, TypeOK
  <1>5. \/ report'.split = report.split
        \/ report'.split = None
        \/ report'.split = weights.split /\ \E c \in Candidates : at[c] = "car"
    BY DEF DraftReport, FinalizeReport, ReturnReport, Select, TakeBack, CanGenerate, Generated,
           NoReport
  <1>6. TypeOK'
    BY <1>1, <1>2, <1>3, <1>4 DEF IInv, TypeOK, setup, marks
  <1>7. RatedOnSheet'
    BY <1>1 DEF IInv, RatedOnSheet, setup, marks
  <1>8. OneSplit'
    <2>1. OneSplit
      BY DEF IInv
    <2> QED
      BY <1>1, <1>3, <1>5, <2>1 DEF OneSplit, setup, marks
  <1>9. Ranked'
    <2>1. CASE DraftReport \/ FinalizeReport
      <3>1. PICK kind \in {"draft", "final"} : report' = Generated(kind)
        BY <2>1 DEF DraftReport, FinalizeReport
      <3> QED
        BY <3>1, NewReport DEF IInv, Ranked
    <2>2. CASE ReturnReport
      <3>1. report'.scores = <<>>
        BY <2>2 DEF ReturnReport, NoReport
      <3> QED
        BY <3>1, NoScores DEF Ranked
    <2>3. CASE Select \/ TakeBack
      BY <2>3 DEF Select, TakeBack, IInv, Ranked
    <2> QED
      BY <2>1, <2>2, <2>3
  <1> QED
    BY <1>6, <1>7, <1>8, <1>9 DEF IInv

LEMMA Step ==
  ASSUME IInv, [Next]_vars
  PROVE  IInv'
  <1>1. CASE UNCHANGED vars
    <2>1. UNCHANGED <<answers, weights, sheet, unlocked, at, exam, rated, ete, report, drafted,
                      selected>>
      BY <1>1 DEF vars, setup, marks, car
    <2> QED
      BY <2>1 DEF IInv, TypeOK, OneSplit, RatedOnSheet, Ranked
  <1> QED
    BY <1>1, WeightsStep, SheetStep, ExamStep, RatingStep, CandidateStep, ReportStep DEF Next

LEMMA Invariant == Spec => []IInv
  BY Start, Step, PTL DEF Spec

-----------------------------------------------------------------------------
(* What the run checks *)

(* The variables of the assessment keep their types, a report that is      *)
(* final was drafted, and a selection stands on a final report.            *)
THEOREM Typed == Spec => []TypeOK
  <1>1. IInv => TypeOK
    BY DEF IInv
  <1> QED
    BY <1>1, Invariant, PTL

(* Unless the weights were unlocked, every exam score of the vacancy and   *)
(* its report stand on one split (lock_vacancy_assessment_weights).        *)
THEOREM SplitStands == Spec => []OneSplitUnlessUnlocked
  <1>1. IInv => OneSplitUnlessUnlocked
    BY DEF IInv, OneSplit, OneSplitUnlessUnlocked
  <1> QED
    BY <1>1, Invariant, PTL

(* Whoever was rated is still scored on every competency of the sheet.     *)
THEOREM RatingsSurvive == Spec => []ScoresSurvive
  <1>1. IInv => ScoresSurvive
    BY DEF IInv, RatedOnSheet, ScoresSurvive
  <1> QED
    BY <1>1, Invariant, PTL

(* For any number of candidates and any scores: the top five are exactly   *)
(* those whom fewer than five beat, so a tie is never cut and a candidate  *)
(* without a score has no place (_car_draft_candidate_rows,                *)
(* car_item_is_within_top_five).                                           *)
THEOREM PlacesFollowMerit == Spec => []TopFiveIsMerit
  <1>1. ASSUME IInv PROVE TopFiveIsMerit
    <2> DEFINE scores == report.scores
    <2>1. SUFFICES ASSUME NEW c \in DOMAIN scores
                   PROVE  IF scores[c] = None
                            THEN ~WithinTopFive(report, c)
                            ELSE WithinTopFive(report, c) <=>
                                   Cardinality(Better(scores, c)) < TopLimit
      BY DEF TopFiveIsMerit, Better
    <2>2. scores # <<>>
      OBVIOUS
    <2>3. report.rank = Rank(scores) /\ scores \in ScoreTables
      BY <1>1, <2>2 DEF IInv, Ranked
    <2> HIDE DEF scores
    <2>4. CASE scores[c] = None
      BY <2>3, <2>4, RankByMerit DEF WithinTopFive
    <2>5. CASE scores[c] # None
      <3>1. /\ Cardinality(Better(scores, c)) \in Nat
            /\ report.rank[c] = Cardinality(Better(scores, c)) + 1
        BY <2>3, <2>5, RankByMerit
      <3> QED
        BY <2>5, <3>1 DEF WithinTopFive
    <2> QED
      BY <2>4, <2>5
  <1> QED
    BY <1>1, Invariant, PTL
=============================================================================
