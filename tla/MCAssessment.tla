------------------------------ MODULE MCAssessment ------------------------------
(* Three candidates who do well in one part or the other.  On the first      *)
(* split their totals differ by less than the rounding, so they tie; one     *)
(* kind has no screening score until an ETE rating is entered.  At most one  *)
(* candidate leaves.                                                         *)
EXTENDS CandidateAssessment

Strong == [general |-> 80, technical |-> 70, interview |-> 80, documents |-> 70, ete |-> 80]
Even   == [general |-> 70, technical |-> 80, interview |-> 80, documents |-> None, ete |-> 80]

MCAnswers == {Strong, Even}

MCWeights ==
  {[ete |-> 4, exam |-> 2, interview |-> 4, general |-> 6, technical |-> 4],
   [ete |-> 2, exam |-> 6, interview |-> 2, general |-> 4, technical |-> 6]}

(* The weights and the sheet meet only where scoring locks them, so a         *)
(* behaviour edits one or the other.                                         *)
OneSubject ==
  /\ Cardinality({c \in Candidates : at[c] = "out"}) <= 1
  /\ \/ sheet.state = "draft" /\ sheet.items = {"standard"}
     \/ sheet.state # "draft" /\ sheet.items = Competencies
     \/ weights.split = Default /\ ~unlocked
================================================================================
