--------------------------- MODULE CosVacancy_proofs ---------------------------
(***************************************************************************)
(* Proofs about CosVacancy for any finite set of applications, either      *)
(* level, any number of positions and any rescission cutoff, for a single  *)
(* batch and for an open pool: its types, the alignment of every case row, *)
(* that a round's state agrees with its picks, that only those picked are  *)
(* appointed and stay so, what a decided round closes, that the vacancy    *)
(* implements the abstract lifecycle, that a Level 2 case of the           *)
(* Secretariat has its override, and which records stand behind a case:    *)
(* nobody is parked on an absence, and whoever is appointed was heard.     *)
(*                                                                         *)
(* What the operations both branches share keep is in CaseWorkflow_proofs, *)
(* with the standing picks as the set of those who may be appointed.  What *)
(* makes the rounds work is that a member of a round is never the pick of  *)
(* an earlier one, and that every round but the first of a single batch    *)
(* needs an open pool.                                                     *)
(* The records need one thing more: a member of a round is scored, since a *)
(* pick, or a rescission that restores a member, asks no record again.     *)
(***************************************************************************)
EXTENDS CosVacancy, CaseWorkflow_proofs, FiniteSetTheorems

Live == {"tracked", "referenced", "ready"}

(* The latest round, its picks and the earlier ones.                       *)
RoundOK == /\ round \in Round
           /\ picks \in SUBSET Apps
           /\ earlier \in SUBSET Apps
           /\ SlotsMatchStatus
           /\ round.members \cap earlier = {}
           /\ round.status = Blank => picks = {}

(* A single batch has one round, with all of its positions.                *)
BatchOK == ~OpenPool => /\ earlier = {}
                        /\ round.status # Blank => round.slots = Positions

CompletionOK == \A a \in Apps : file[a].completion \in Live => a \in Selected

IInv == /\ RecordsOK
        /\ Standing(case, Selected)
        /\ RoundOK
        /\ BatchOK
        /\ CompletionOK

USE BranchAssumption, LevelAssumption, CosAssumption, OpenPoolAssumption,
    NoAppAssumption, CutoffAssumption, PositionsAssumption
  DEF BranchAssumption, LevelAssumption, CosAssumption, OpenPoolAssumption,
      NoAppAssumption, CutoffAssumption, PositionsAssumption

-----------------------------------------------------------------------------
(* Rounds and their picks *)

LEMMA Sizes ==
  ASSUME NEW P \in SUBSET Apps, NEW x
  PROVE  /\ Cardinality(P) \in Nat
         /\ Cardinality({}) = 0
         /\ Cardinality(P \cup {x}) = IF x \in P THEN Cardinality(P) ELSE Cardinality(P) + 1
         /\ Cardinality(P \ {x}) = IF x \in P THEN Cardinality(P) - 1 ELSE Cardinality(P)
  <1>1. IsFiniteSet(P)
    BY ApplicationsAssumption, FS_Subset DEF ApplicationsAssumption
  <1> QED
    BY <1>1, FS_EmptySet, FS_AddElement, FS_RemoveElement, FS_CardinalityType

(* Nobody a standing pick names is eligible.                               *)
LEMMA EligibleFacts ==
  ASSUME IInv
  PROVE  /\ Eligible \in SUBSET Apps
         /\ Eligible \cap Selected = {}
         /\ picks \cap earlier = {}
         /\ round.members \cap Selected = picks
         /\ Selected \in SUBSET Apps
  BY DEF Eligible, AtDeliberation, Selected, IInv, RoundOK, SlotsMatchStatus, Round

(* The round a pick belongs to is a sound one with a slot to fill.         *)
LEMMA PickFacts ==
  ASSUME IInv, NEW chosen \in Apps, CanPick(chosen)
  PROVE  /\ PickRound \in Round /\ PickRound.status = "open"
         /\ PickRoundPicks \in SUBSET Apps /\ EarlierAfterPick \in SUBSET Apps
         /\ PickRoundPicks \cup EarlierAfterPick = Selected
         /\ PickRoundPicks \subseteq PickRound.members
         /\ PickRound.members \cap EarlierAfterPick = {}
         /\ Cardinality(PickRoundPicks) < PickRound.slots
         /\ chosen \in PickRound.members /\ chosen \notin PickRoundPicks
         /\ ~OpenPool => EarlierAfterPick = {} /\ PickRound.slots = Positions
  <1>1. CASE round.status = "open"
    BY <1>1 DEF CanPick, PickPool, PickRound, PickRoundPicks, EarlierAfterPick, Selected,
                IInv, RoundOK, BatchOK, SlotsMatchStatus, Round, Blank
  <1>2. CASE round.status # "open"
    <2> DEFINE slots == IF OpenPool THEN 1 ELSE Positions
    <2>1. /\ PickRound = [status |-> "open", slots |-> slots, members |-> Eligible]
          /\ PickRoundPicks = {} /\ EarlierAfterPick = Selected
      BY <1>2 DEF PickRound, PickRoundPicks, EarlierAfterPick, RoundOpened, Selected
    <2>2. slots \in Nat /\ 0 < slots /\ (~OpenPool => slots = Positions)
      OBVIOUS
    <2> HIDE DEF slots
    <2>3. Eligible \in SUBSET Apps /\ Eligible \cap Selected = {} /\ Selected \in SUBSET Apps
      BY EligibleFacts
    <2>4. chosen \in Eligible /\ (~OpenPool => round.status = Blank)
      BY <1>2 DEF CanPick, PickPool
    <2>5. ~OpenPool => Selected = {}
      BY <2>4 DEF IInv, RoundOK, BatchOK, Selected
    <2>6. Cardinality({}) = 0
      BY Sizes
    <2> QED
      BY <2>1, <2>2, <2>3, <2>4, <2>5, <2>6 DEF Round
  <1> QED
    BY <1>1, <1>2

(* What a finalized pick makes of the round.                               *)
LEMMA PickedRound ==
  ASSUME IInv, NEW chosen \in Apps, FinalizePick(chosen)
  PROVE  RoundOK' /\ BatchOK' /\ Selected' = Selected \cup {chosen}
  <1> DEFINE picked == PickRoundPicks \cup {chosen}
             r == RoundAfterPick(picked)
  <1>1. CanPick(chosen) /\ round' = r /\ picks' = picked /\ earlier' = EarlierAfterPick
    BY DEF FinalizePick
  <1>2. /\ r.slots = PickRound.slots /\ r.members = PickRound.members /\ r \in Round
        /\ r.status = IF Cardinality(picked) >= PickRound.slots THEN "resolved" ELSE "open"
    BY <1>1, PickFacts DEF RoundAfterPick, Round
  <1>3. /\ Cardinality(picked) = Cardinality(PickRoundPicks) + 1
        /\ Cardinality(PickRoundPicks) \in Nat /\ PickRound.slots \in Nat
    BY <1>1, PickFacts, Sizes DEF Round
  <1>4. /\ r.status \in {"open", "closed_short"} => Cardinality(picked) < r.slots
        /\ r.status = "resolved" => Cardinality(picked) = r.slots
    BY <1>1, <1>2, <1>3, PickFacts
  <1>5. r.status # Blank
    BY <1>2 DEF Blank
  <1>6. /\ picked \subseteq r.members /\ picked \cap EarlierAfterPick = {}
        /\ r.members \cap EarlierAfterPick = {} /\ picked \in SUBSET Apps
        /\ EarlierAfterPick \in SUBSET Apps /\ picked \cup EarlierAfterPick = Selected \cup {chosen}
        /\ ~OpenPool => EarlierAfterPick = {} /\ r.slots = Positions
    BY <1>1, <1>2, PickFacts
  <1> HIDE DEF r, picked
  <1> QED
    BY <1>1, <1>2, <1>4, <1>5, <1>6 DEF RoundOK, BatchOK, SlotsMatchStatus, Selected

(* Opening a round, or saving a draft pick that opens one.                 *)
LEMMA OpenedRound ==
  ASSUME IInv, \/ \E slots \in 1..Cardinality(Eligible) : OpenRound(slots)
               \/ \E chosen \in Apps : SaveDraftPick(chosen)
  PROVE  RoundOK' /\ BatchOK' /\ Selected' = Selected
  <1>1. ASSUME NEW slots \in 1..Cardinality(Eligible), OpenRound(slots)
        PROVE  RoundOK' /\ BatchOK' /\ Selected' = Selected
    <2>0. Cardinality(Eligible) \in Nat /\ Cardinality({}) = 0
      BY EligibleFacts, Sizes
    <2>1. slots \in Nat /\ 0 < slots
      BY <2>0
    <2>2. /\ OpenPool /\ picks' = {} /\ earlier' = earlier \cup picks
          /\ round' = [status |-> "open", slots |-> slots, members |-> Eligible]
      BY <1>1 DEF OpenRound, RoundOpened
    <2> QED
      BY <2>0, <2>1, <2>2, EligibleFacts
         DEF RoundOK, BatchOK, SlotsMatchStatus, Round, Selected, Blank
  <1>2. ASSUME NEW chosen \in Apps, SaveDraftPick(chosen)
        PROVE  RoundOK' /\ BatchOK' /\ Selected' = Selected
    <2>1. CanPick(chosen) /\ round' = PickRound /\ picks' = PickRoundPicks
          /\ earlier' = EarlierAfterPick
      BY <1>2 DEF SaveDraftPick
    <2>2. PickRound.status # "resolved" /\ PickRound.status # Blank
      BY <2>1, PickFacts DEF Blank
    <2> QED
      BY <2>1, <2>2, PickFacts DEF RoundOK, BatchOK, SlotsMatchStatus, Selected
  <1> QED
    BY <1>1, <1>2

LEMMA ShortRound ==
  ASSUME IInv, CloseRoundShort
  PROVE  RoundOK' /\ BatchOK' /\ Selected' = Selected
  <1>1. /\ round' = [round EXCEPT !.status = "closed_short"]
        /\ picks' = picks /\ earlier' = earlier
        /\ round.status = "open" /\ Cardinality(picks) < round.slots
    BY DEF CloseRoundShort
  <1>2. /\ round' \in Round /\ round'.slots = round.slots
        /\ round'.members = round.members /\ round'.status = "closed_short"
    BY <1>1 DEF IInv, RoundOK, Round
  <1> QED
    BY <1>1, <1>2 DEF IInv, RoundOK, BatchOK, SlotsMatchStatus, Selected, Blank

(* Taking a pick back frees its slot.                                      *)
LEMMA RescindedRound ==
  ASSUME IInv, NEW winner \in Apps, RescindPick(winner)
  PROVE  /\ RoundOK' /\ BatchOK'
         /\ winner \in Selected /\ winner \notin Selected'
         /\ Selected' = Selected \ {winner}
  <1>1. /\ round' = [round EXCEPT !.status = "open"]
        /\ winner \in picks /\ picks' = picks \ {winner} /\ earlier' = earlier
    BY DEF RescindPick, RoundAfterRescission
  <1>2. /\ round' \in Round /\ round'.slots = round.slots
        /\ round'.members = round.members /\ round'.status = "open"
    BY <1>1 DEF IInv, RoundOK, Round
  <1>3. round.status # Blank /\ Cardinality(picks) <= round.slots
    <2>1. round.status \in {"open", "resolved", "closed_short"} /\ round.slots \in Nat
      BY <1>1 DEF IInv, RoundOK, Round
    <2>2. Cardinality(picks) \in Nat
      BY Sizes DEF IInv, RoundOK
    <2> QED
      BY <2>1, <2>2 DEF IInv, RoundOK, SlotsMatchStatus, Blank
  <1>4. Cardinality(picks \ {winner}) < round.slots
    <2>1. /\ Cardinality(picks \ {winner}) = Cardinality(picks) - 1
          /\ Cardinality(picks) \in Nat /\ round.slots \in Nat
      BY <1>1, Sizes DEF IInv, RoundOK, Round
    <2> QED
      BY <1>3, <2>1
  <1>5. winner \notin earlier
    BY <1>1 DEF IInv, RoundOK, SlotsMatchStatus
  <1> QED
    BY <1>1, <1>2, <1>3, <1>4, <1>5
       DEF IInv, RoundOK, BatchOK, SlotsMatchStatus, Selected, Blank

-----------------------------------------------------------------------------
(* The cases of a round *)

(* The chosen applicant is open and at the deliberation.                   *)
LEMMA ChosenIsOpen ==
  ASSUME IInv, NEW chosen \in Apps, FinalizePick(chosen)
  PROVE  /\ CanPick(chosen) /\ chosen \notin Selected
         /\ case[chosen].stage = "hrm_chief_review" /\ case[chosen].locked = FALSE
         /\ case[chosen].caseStatus \in {"active", "awaiting"}
  <1>1. /\ CanPick(chosen) /\ chosen \notin Selected /\ CanProcess("hrm_chief", chosen)
        /\ case[chosen].stage = "hrm_chief_review"
    BY DEF FinalizePick, AtDeliberation
  <1>2. case[chosen].caseStatus \in {"active", "awaiting"} /\ case[chosen] \in GoodRows
    BY <1>1, ProcessedIsOpen DEF IInv, Roles
  <1>3. ~case[chosen].locked /\ case[chosen].locked \in BOOLEAN
    BY <1>1, <1>2 DEF CanProcess, GoodRows, CaseRow
  <1> QED
    BY <1>1, <1>2, <1>3

(* Those a finished round closes are open and nobody's pick.               *)
LEMMA UnpickedAreOpen ==
  ASSUME IInv, NEW members \in SUBSET Apps, NEW picked, NEW a \in Unpicked(members, picked)
  PROVE  /\ a \in Apps /\ a \in members \ picked /\ ~OpenPool
         /\ case[a].caseStatus = "active" /\ ~case[a].locked
  BY DEF Unpicked, ActiveUnlocked

LEMMA PickedCases ==
  ASSUME IInv, NEW chosen \in Apps, FinalizePick(chosen)
  PROVE  RecordsOK' /\ Standing(case', Selected')
  <1> DEFINE picked   == PickRoundPicks \cup {chosen}
             unpicked == IF RoundAfterPick(picked).status = "resolved"
                           THEN Unpicked(PickRound.members, picked) ELSE {}
             to == [a \in {chosen} \cup unpicked |->
                      IF a = chosen THEN Moved(case[a], "approved", CompletionOwner(Level))
                                    ELSE Moved(case[a], "rejected", Blank)]
  <1>1. RecordsOK'
    <2> DEFINE completion == Restarted(file[chosen].completion)
    <2>1. [file[chosen] EXCEPT !.completion = completion] \in ApplicationFile
      BY FileFields DEF ApplicationFile, CompletionRecord, Restarted, IInv
    <2>2. file' = [file EXCEPT ![chosen] =
                     [file[chosen] EXCEPT !.completion = completion]]
      BY DEF FinalizePick, IInv, RecordsOK
    <2>3. UNCHANGED <<overrides, posting>>
      BY DEF FinalizePick
    <2> HIDE DEF completion
    <2> QED BY <2>1, <2>2, <2>3 DEF IInv, RecordsOK
  <1>2. Selected' = Selected \cup {chosen}
    BY PickedRound
  <1>3. \A a \in Apps \cap DOMAIN to : to[a] \in GoodRows
                                      /\ (NotAppointed(to[a]) \/ a \in Selected')
    <2> SUFFICES ASSUME NEW a \in {chosen} \cup unpicked
                 PROVE  to[a] \in GoodRows /\ (NotAppointed(to[a]) \/ a \in Selected')
      OBVIOUS
    <2>1. CASE a = chosen
      <3>1. case[a] \in CaseRow
        BY <2>1, PhaseAt DEF IInv
      <3> QED
        BY <1>2, <2>1, <3>1, MovedToCompletion
    <2>2. CASE a # chosen
      <3>1. /\ a \in Unpicked(PickRound.members, picked)
            /\ PickRound.members \in SUBSET Apps
        BY <2>2, ChosenIsOpen, PickFacts DEF Round
      <3>2. a \in Apps /\ case[a].caseStatus = "active" /\ a \in PickRound.members \ picked
        BY <3>1, UnpickedAreOpen
      <3>3. case[a] \in GoodRows /\ (NotAppointed(case[a]) \/ a \in Selected)
        BY <3>2 DEF IInv, Standing
      <3>4. /\ Moved(case[a], "rejected", Blank) \in GoodRows
            /\ NotAppointed(case[a]) => NotAppointed(Moved(case[a], "rejected", Blank))
        BY <3>2, <3>3, ClosedRow
      <3> QED
        BY <1>2, <2>2, <3>3, <3>4
    <2> QED BY <2>1, <2>2
  <1>4. Transition(to)
    BY DEF FinalizePick
  <1>5. \A a \in Apps \ DOMAIN to : NotAppointed(case[a]) \/ a \in Selected'
    BY <1>2 DEF IInv, Standing
  <1> HIDE DEF to
  <1> QED BY <1>1, <1>3, <1>4, <1>5, Movement DEF IInv

LEMMA ShortCases ==
  ASSUME IInv, CloseRoundShort
  PROVE  RecordsOK' /\ Standing(case', Selected')
  <1>1. RecordsOK /\ Standing(case, Selected) /\ RecordsOK' /\ Selected' = Selected
    BY ShortRound DEF CloseRoundShort, IInv, RecordsOK
  <1>2. CloseAll(Unpicked(round.members, picks), "rejected") /\ round.members \in SUBSET Apps
    BY DEF CloseRoundShort, IInv, RoundOK, Round
  <1>3. /\ Unpicked(round.members, picks) \in SUBSET Apps
        /\ \A a \in Unpicked(round.members, picks) :
              case[a].caseStatus \in {"active", "awaiting"}
    BY <1>2, UnpickedAreOpen
  <1>4. Standing(case', Selected)
    BY <1>1, <1>2, <1>3, ClosingStep
  <1> QED
    BY <1>1, <1>4

LEMMA RescindedCases ==
  ASSUME IInv, NEW winner \in Apps, RescindPick(winner)
  PROVE  /\ RecordsOK' /\ Standing(case', Selected')
         /\ Restored(winner) \in SUBSET Apps /\ winner \in Restored(winner)
  <1> DEFINE to == [a \in Restored(winner) |-> Moved(case[a], "hrm_chief_review", "hrm_chief")]
  <1>1. RecordsOK'
    <2> DEFINE completion == Voided(file[winner].completion)
    <2>1. [file[winner] EXCEPT !.completion = completion] \in ApplicationFile
      BY FileFields DEF ApplicationFile, CompletionRecord, Voided, IInv
    <2>2. file' = [file EXCEPT ![winner] =
                     [file[winner] EXCEPT !.completion = completion]]
      BY DEF RescindPick, IInv, RecordsOK
    <2>3. UNCHANGED <<overrides, posting>>
      BY DEF RescindPick
    <2> HIDE DEF completion
    <2> QED BY <2>1, <2>2, <2>3 DEF IInv, RecordsOK
  <1>2. Restored(winner) \in SUBSET Apps /\ winner \in Restored(winner)
    BY DEF Restored, IInv, RoundOK, Round
  <1>3. \A a \in Apps \cap DOMAIN to : to[a] \in GoodRows /\ NotAppointed(to[a])
    <2> SUFFICES ASSUME NEW a \in Restored(winner), a \in Apps
                 PROVE  to[a] \in GoodRows /\ NotAppointed(to[a])
      OBVIOUS
    <2>1. case[a] \in CaseRow
      BY PhaseAt DEF IInv
    <2> QED BY <2>1, MovedToChief
  <1>4. Transition(to)
    BY DEF RescindPick
  <1>5. \A a \in Apps \ DOMAIN to : NotAppointed(case[a]) \/ a \in Selected'
    BY <1>2, RescindedRound DEF IInv, Standing
  <1> HIDE DEF to
  <1> QED BY <1>1, <1>2, <1>3, <1>4, <1>5, Movement DEF IInv

-----------------------------------------------------------------------------
(* The invariant *)

LEMMA InitInvariant == Init => IInv
  <1> SUFFICES ASSUME Init PROVE IInv
    OBVIOUS
  <1>1. RecordsOK /\ Standing(case, Selected)
    BY InitialCases DEF Init
  <1>2. RoundOK /\ BatchOK
    BY DEF Init, RoundOK, BatchOK, SlotsMatchStatus, Round, Blank
  <1>3. CompletionOK
    BY DEF Init, CaseInit, CompletionOK, EmptyFile, Live, Blank
  <1> QED BY <1>1, <1>2, <1>3 DEF IInv

LEMMA CaseStepInvariant ==
  ASSUME IInv, UNCHANGED <<round, picks, earlier>>, CaseStep(Selected, {})
  PROVE  IInv'
  <1>1. Selected' = Selected
    BY DEF Selected
  <1>2. RecordsOK' /\ Standing(case', Selected)
    BY CaseStepKeeps DEF IInv
  <1>3. RoundOK' /\ BatchOK'
    BY DEF IInv, RoundOK, BatchOK, SlotsMatchStatus
  <1>4. CompletionOK'
    <2>1. \A a \in Apps : file'[a].completion = file[a].completion \/ a \in Selected
      BY CompletionOfCases DEF IInv
    <2> QED
      BY <1>1, <2>1 DEF CompletionOK, IInv
  <1> QED BY <1>1, <1>2, <1>3, <1>4 DEF IInv

LEMMA StepInvariant ==
  ASSUME IInv, [Next]_vars
  PROVE  IInv'
  <1>1. CASE CaseStep(Selected, {}) /\ UNCHANGED <<round, picks, earlier>>
    BY <1>1, CaseStepInvariant
  <1>2. CASE \/ \E slots \in 1..Cardinality(Eligible) : OpenRound(slots)
             \/ \E chosen \in Apps : SaveDraftPick(chosen)
    <2>1. UNCHANGED <<case, overrides, file, posting>>
      BY <1>2 DEF OpenRound, SaveDraftPick
    <2>2. RoundOK' /\ BatchOK' /\ Selected' = Selected
      BY <1>2, OpenedRound
    <2> QED
      BY <2>1, <2>2 DEF IInv, RecordsOK, CompletionOK
  <1>3. ASSUME NEW chosen \in Apps, FinalizePick(chosen)
        PROVE  IInv'
    <2>1. RoundOK' /\ BatchOK' /\ Selected' = Selected \cup {chosen}
      BY <1>3, PickedRound
    <2>2. RecordsOK' /\ Standing(case', Selected')
      BY <1>3, PickedCases
    <2>3. \A a \in Apps \ {chosen} : file'[a] = file[a]
      BY <1>3 DEF FinalizePick, IInv, RecordsOK
    <2>4. CompletionOK'
      BY <2>1, <2>3 DEF CompletionOK, IInv
    <2> QED
      BY <2>1, <2>2, <2>4 DEF IInv
  <1>4. CASE CloseRoundShort
    <2>1. UNCHANGED file
      BY <1>4 DEF CloseRoundShort
    <2> QED
      BY <1>4, <2>1, ShortRound, ShortCases DEF IInv, CompletionOK
  <1>5. ASSUME NEW winner \in Apps, RescindPick(winner)
        PROVE  IInv'
    <2>1. RoundOK' /\ BatchOK' /\ Selected' = Selected \ {winner}
      BY <1>5, RescindedRound
    <2>2. RecordsOK' /\ Standing(case', Selected')
      BY <1>5, RescindedCases
    <2>3. file' = [file EXCEPT ![winner] =
                     [file[winner] EXCEPT !.completion = Voided(file[winner].completion)]]
      BY <1>5 DEF RescindPick, IInv, RecordsOK
    <2>4. Voided(file[winner].completion) \notin Live
      BY DEF Voided, Blank, Live
    <2>5. file'[winner].completion = Voided(file[winner].completion)
      <3>1. file[winner] \in ApplicationFile
        BY DEF IInv, RecordsOK
      <3> QED
        BY <2>3, <3>1 DEF IInv, RecordsOK, ApplicationFile
    <2>6. \A a \in Apps \ {winner} : file'[a] = file[a]
      BY <2>3 DEF IInv, RecordsOK
    <2>7. CompletionOK'
      BY <2>1, <2>4, <2>5, <2>6 DEF CompletionOK, IInv
    <2> QED
      BY <2>1, <2>2, <2>7 DEF IInv
  <1>6. CASE UNCHANGED vars
    BY <1>6 DEF vars, IInv, RecordsOK, RoundOK, BatchOK, CompletionOK, SlotsMatchStatus, Selected
  <1> QED
    BY <1>1, <1>2, <1>3, <1>4, <1>5, <1>6 DEF Next, DeliberationPage

(* Every reachable state of the vacancy satisfies the inductive invariant: *)
(* whatever the offices, the applicants and the HRM Chief do, in whatever  *)
(* order (services/cos_selection.py and what it shares).                   *)
THEOREM Invariance == Spec => []IInv
  <1>1. IInv /\ [Next]_vars => IInv'
    BY StepInvariant
  <1> QED BY InitInvariant, <1>1, PTL DEF Spec

(* Every variable keeps its type, the rounds and their picks included      *)
(* (models.py, the enumerations).                                          *)
THEOREM TypeCorrect == Spec => []TypeOK
  <1>1. IInv => TypeOK
    BY DEF IInv, RecordsOK, Standing, RoundOK, TypeOK, CaseTypeOK, GoodRows,
           CosVacancyDeliberations
  <1> QED BY Invariance, <1>1, PTL

(* For any number of applications at either level, the status, the stage,  *)
(* the lock and the holder of every case agree and the stage is one of its *)
(* branch and level (routing.transition_case and all its callers).         *)
THEOREM Aligned == Spec => []CaseAlignment
  <1>1. IInv => CaseAlignment
    BY DEF IInv, Standing, GoodRows, CaseAlignment
  <1> QED BY Invariance, <1>1, PTL

(* For any number of applications and positions, only those a standing     *)
(* pick names are approved, in completion or closed there, and only theirs *)
(* are live completion records (selection.record_final_decision,           *)
(* cos_selection.rescind_cos_vacancy_deliberation).                        *)
THEOREM OnlyThePickedAreAppointed == Spec => []AppointedIsPicked
  <1>1. IInv => AppointedIsPicked
    BY DEF IInv, Standing, NotAppointed, CompletionOK, Live, AppointedIsPicked
  <1> QED BY Invariance, <1>1, PTL

(* For any number of slots, an open round has one to fill, a resolved one  *)
(* none, and no round appoints more people than its slots or somebody an   *)
(* earlier round appointed (cos_selection.save_cos_vacancy_deliberation    *)
(* and its rescission).                                                    *)
THEOREM SlotsAgree == Spec => []SlotsMatchStatus
  <1>1. IInv => SlotsMatchStatus
    BY DEF IInv, RoundOK
  <1> QED BY Invariance, <1>1, PTL

(* In a single batch, no more people are approved than it has positions.   *)
PositionsKept ==
  ~OpenPool => Cardinality({a \in Apps : case[a].status = "approved"}) <= Positions

(* For any number of applications and positions, a single batch never has  *)
(* more approved cases than positions, closed ones included, whatever      *)
(* rounds were closed short, reopened or taken back in between             *)
(* (cos_selection.save_cos_vacancy_deliberation and its rescission).       *)
THEOREM PositionsAreEnough == Spec => []PositionsKept
  <1>1. ASSUME IInv PROVE PositionsKept
    <2> DEFINE approved == {a \in Apps : case[a].status = "approved"}
    <2> SUFFICES ASSUME ~OpenPool PROVE Cardinality(approved) <= Positions
      BY DEF PositionsKept
    <2>1. approved \subseteq picks
      BY <1>1 DEF IInv, Standing, NotAppointed, BatchOK, Selected
    <2>2. IsFiniteSet(picks) /\ Cardinality(picks) \in Nat
      BY <1>1, ApplicationsAssumption, FS_Subset, FS_CardinalityType
         DEF ApplicationsAssumption, IInv, RoundOK
    <2>3. Cardinality(approved) \in Nat /\ Cardinality(approved) <= Cardinality(picks)
      <3> HIDE DEF approved
      <3> QED BY <2>1, <2>2, FS_Subset, FS_CardinalityType
    <2>4. Cardinality(picks) <= Positions
      <3>1. CASE round.status = Blank
        BY <1>1, <3>1, FS_EmptySet DEF IInv, RoundOK
      <3>2. CASE round.status # Blank
        BY <1>1, <2>2, <3>2 DEF IInv, RoundOK, BatchOK, Round, SlotsMatchStatus
      <3> QED BY <3>1, <3>2
    <2> HIDE DEF approved
    <2> QED BY <2>2, <2>3, <2>4
  <1> QED BY Invariance, <1>1, PTL

-----------------------------------------------------------------------------
(* What a round closes and keeps *)

(* The rows of the cases a finalized pick moves.                           *)
LEMMA PickMoves ==
  ASSUME IInv, NEW chosen \in Apps, FinalizePick(chosen), NEW a \in Apps
  PROVE  \/ /\ a = chosen /\ case'[a].status = "approved" /\ ~case'[a].locked
         \/ /\ a # chosen /\ round'.status = "resolved" /\ ~OpenPool
            /\ a \in round'.members \ picks' /\ ActiveUnlocked(a)
            /\ case'[a] = Moved(case[a], "rejected", Blank)
         \/ /\ a # chosen /\ case'[a] = case[a]
            /\ ~ ( /\ round'.status = "resolved" /\ ~OpenPool
                   /\ a \in round'.members \ picks' /\ ActiveUnlocked(a) )
  <1> DEFINE picked   == PickRoundPicks \cup {chosen}
             unpicked == IF RoundAfterPick(picked).status = "resolved"
                           THEN Unpicked(PickRound.members, picked) ELSE {}
             to == [b \in {chosen} \cup unpicked |->
                      IF b = chosen THEN Moved(case[b], "approved", CompletionOwner(Level))
                                    ELSE Moved(case[b], "rejected", Blank)]
  <1>1. /\ round' = RoundAfterPick(picked) /\ picks' = picked /\ CanPick(chosen)
        /\ Transition(to)
    BY DEF FinalizePick
  <1>2. round'.members = PickRound.members
    BY <1>1, PickFacts DEF RoundAfterPick, Round
  <1>3. a \in unpicked <=> /\ round'.status = "resolved" /\ ~OpenPool
                           /\ a \in round'.members \ picks' /\ ActiveUnlocked(a)
    BY <1>1, <1>2 DEF Unpicked
  <1>4. /\ DOMAIN to = {chosen} \cup unpicked
        /\ a = chosen => to[a] = Moved(case[a], "approved", CompletionOwner(Level))
        /\ a # chosen /\ a \in unpicked => to[a] = Moved(case[a], "rejected", Blank)
    OBVIOUS
  <1> HIDE DEF to, unpicked, picked
  <1>5. CASE a = chosen
    <2>1. case'[a] = Moved(case[a], "approved", CompletionOwner(Level))
      BY <1>1, <1>4, <1>5 DEF Transition
    <2>2. CompletionOwner(Level) # Blank
      BY DEF CompletionOwner, Blank
    <2> QED
      BY <1>5, <2>1, <2>2 DEF Moved, ReviewStages, ScreeningStages
  <1>6. CASE a # chosen /\ a \in unpicked
    BY <1>1, <1>3, <1>4, <1>6 DEF Transition
  <1>7. CASE a # chosen /\ a \notin unpicked
    BY <1>1, <1>3, <1>4, <1>7 DEF Transition
  <1> QED BY <1>5, <1>6, <1>7

(* A short close closes the active members without a pick, of a batch.     *)
LEMMA ShortMoves ==
  ASSUME IInv, CloseRoundShort, NEW a \in Apps
  PROVE  \/ /\ ~OpenPool /\ a \in round'.members \ picks' /\ ActiveUnlocked(a)
            /\ case'[a] = Moved(case[a], "rejected", Blank)
         \/ /\ case'[a] = case[a]
            /\ ~(~OpenPool /\ a \in round'.members \ picks' /\ ActiveUnlocked(a))
  <1> DEFINE closing == Unpicked(round.members, picks)
             to == [b \in closing |-> Moved(case[b], "rejected", Blank)]
  <1>1. picks' = picks /\ round'.members = round.members
    BY DEF CloseRoundShort, IInv, RoundOK, Round
  <1>2. Transition(to) /\ DOMAIN to = closing
    BY DEF CloseRoundShort, CloseAll
  <1>3. a \in closing <=> ~OpenPool /\ a \in round'.members \ picks' /\ ActiveUnlocked(a)
    BY <1>1 DEF Unpicked
  <1>4. a \in closing => to[a] = Moved(case[a], "rejected", Blank)
    OBVIOUS
  <1> HIDE DEF closing, to
  <1> QED BY <1>2, <1>3, <1>4 DEF Transition

LEMMA RescissionMoves ==
  ASSUME IInv, NEW winner \in Apps, RescindPick(winner), NEW a \in Apps
  PROVE  IF a \in Restored(winner)
           THEN case'[a].status = "hrm_chief_review" /\ ~case'[a].locked
           ELSE case'[a] = case[a]
  <1>1. Transition([b \in Restored(winner) |-> Moved(case[b], "hrm_chief_review", "hrm_chief")])
    BY DEF RescindPick
  <1>2. a \in Restored(winner) => case'[a] = Moved(case[a], "hrm_chief_review", "hrm_chief")
    BY <1>1 DEF Transition
  <1>3. a \notin Restored(winner) => case'[a] = case[a]
    BY <1>1 DEF Transition
  <1>4. LET r == Moved(case[a], "hrm_chief_review", "hrm_chief")
        IN  r.status = "hrm_chief_review" /\ ~r.locked
    BY DEF Moved, ReviewStages, ScreeningStages
  <1> QED BY <1>2, <1>3, <1>4

(* A case that is not active and unlocked is not active.                   *)
LEMMA NotInProcess ==
  ASSUME IInv, NEW a \in Apps, ~ActiveUnlocked(a)
  PROVE  case[a].caseStatus # "active"
  BY PhaseAt, OpenCase DEF ActiveUnlocked, IInv

(* For any number of applications and positions, a decided batch leaves    *)
(* nobody it did not choose in process, and while its decision stands it   *)
(* brings back none of those it closed                                     *)
(* (cos_selection._close_cos_round_unpicked, reopen.py).                   *)
THEOREM TheOthersAreDecided == Spec => NotPickedAreDecided
  <1>1. ASSUME IInv, [Next]_vars, Decided', NEW m \in round'.members \ picks'
        PROVE  IF Decided THEN case[m].locked => case'[m].locked
                          ELSE case'[m].caseStatus # "active"
    <2>1. IInv'
      BY <1>1, StepInvariant
    <2>2. m \in Apps /\ ~OpenPool
      BY <1>1, <2>1 DEF IInv, RoundOK, Round, Decided
    <2>3. CASE CaseStep(Selected, {}) /\ UNCHANGED <<round, picks, earlier>>
      <3>1. Decided /\ m \notin Selected /\ Selected # {}
        BY <1>1, <2>3, EligibleFacts DEF Decided, Selected
      <3>2. ~Reopen(m, Selected)
        BY <3>1 DEF Reopen, CanReopen, CompetitionAllows
      <3> QED
        BY <1>1, <2>2, <2>3, <3>1, <3>2, ClosedStays DEF IInv
    <2>4. CASE \/ \E slots \in 1..Cardinality(Eligible) : OpenRound(slots)
               \/ \E chosen \in Apps : SaveDraftPick(chosen)
               \/ \E winner \in Apps : RescindPick(winner)
      <3>1. CASE \E slots \in 1..Cardinality(Eligible) : OpenRound(slots)
        BY <2>2, <3>1 DEF OpenRound
      <3>2. ASSUME NEW chosen \in Apps, SaveDraftPick(chosen) PROVE FALSE
        <4>1. round'.status = "open"
          BY <1>1, <3>2, PickFacts DEF SaveDraftPick
        <4> QED BY <1>1, <4>1 DEF Decided
      <3>3. ASSUME NEW winner \in Apps, RescindPick(winner) PROVE FALSE
        <4>1. round'.status = "open"
          BY <1>1, <3>3 DEF RescindPick, RoundAfterRescission, IInv, RoundOK, Round
        <4> QED BY <1>1, <4>1 DEF Decided
      <3> QED BY <2>4, <3>1, <3>2, <3>3
    <2>5. ASSUME NEW chosen \in Apps, FinalizePick(chosen)
          PROVE  ~Decided /\ case'[m].caseStatus # "active"
      <3>1. ~Decided
        <4>1. round.status = "open" \/ round.status = Blank
          BY <2>2, <2>5 DEF FinalizePick, CanPick
        <4> QED BY <4>1 DEF Decided, Blank
      <3>2. /\ m # chosen /\ round'.status = "resolved"
        <4>1. chosen \in picks' /\ round'.status \in {"open", "resolved"}
          BY <1>1, <2>5, PickFacts DEF FinalizePick, RoundAfterPick, Round
        <4> QED
          BY <1>1, <4>1 DEF Decided
      <3>3. CASE ActiveUnlocked(m)
        <4>1. case'[m] = Moved(case[m], "rejected", Blank)
          BY <1>1, <2>2, <2>5, <3>2, <3>3, PickMoves
        <4> QED
          BY <3>1, <4>1 DEF Moved, ReviewStages, ScreeningStages
      <3>4. CASE ~ActiveUnlocked(m)
        <4>1. case'[m] = case[m]
          BY <1>1, <2>2, <2>5, <3>2, <3>4, PickMoves
        <4> QED
          BY <1>1, <2>2, <3>1, <3>4, <4>1, NotInProcess
      <3> QED BY <3>3, <3>4
    <2>6. CASE CloseRoundShort
      <3>1. ~Decided
        BY <2>6 DEF CloseRoundShort, Decided
      <3>2. CASE ActiveUnlocked(m)
        <4>1. case'[m] = Moved(case[m], "rejected", Blank)
          BY <1>1, <2>2, <2>6, <3>2, ShortMoves
        <4> QED
          BY <3>1, <4>1 DEF Moved, ReviewStages, ScreeningStages
      <3>3. CASE ~ActiveUnlocked(m)
        <4>1. case'[m] = case[m]
          BY <1>1, <2>2, <2>6, <3>3, ShortMoves
        <4> QED
          BY <1>1, <2>2, <3>1, <3>3, <4>1, NotInProcess
      <3> QED BY <3>2, <3>3
    <2>7. CASE UNCHANGED vars
      BY <1>1, <2>7 DEF vars, Decided
    <2> QED
      BY <1>1, <2>3, <2>4, <2>5, <2>6, <2>7 DEF Next, DeliberationPage
  <1>2. IInv /\ [Next]_vars =>
          (Decided' => \A m \in round'.members \ picks' :
             IF Decided THEN case[m].locked => case'[m].locked
                        ELSE case'[m].caseStatus # "active")
    BY <1>1
  <1> QED
    BY <1>2, Invariance, PTL DEF Spec, NotPickedAreDecided

(* For any number of rounds, a pick of an earlier round is never dropped,  *)
(* and no step of the rounds of an open pool closes anybody                *)
(* (cos_selection._resolve_cos_selection_round, close short, rescind).     *)
THEOREM EarlierPicksStand == Spec => EarlierRoundsStand
  <1>1. ASSUME IInv, [Next]_vars
        PROVE  earlier \subseteq earlier'
    BY <1>1 DEF Next, vars, DeliberationPage, OpenRound, SaveDraftPick, FinalizePick,
                CloseRoundShort, RescindPick, EarlierAfterPick
  <1>2. ASSUME IInv, [Next]_vars, NEW a \in Apps, OpenPool, round' # round, ~case[a].locked
        PROVE  ~case'[a].locked
    <2>1. CASE \/ \E slots \in 1..Cardinality(Eligible) : OpenRound(slots)
               \/ \E chosen \in Apps : SaveDraftPick(chosen)
      BY <1>2, <2>1 DEF OpenRound, SaveDraftPick
    <2>2. ASSUME NEW chosen \in Apps, FinalizePick(chosen)
          PROVE  ~case'[a].locked
      BY <1>2, <2>2, PickMoves
    <2>3. CASE CloseRoundShort
      BY <1>2, <2>3, ShortMoves
    <2>4. ASSUME NEW winner \in Apps, RescindPick(winner)
          PROVE  ~case'[a].locked
      BY <1>2, <2>4, RescissionMoves
    <2>5. CASE UNCHANGED round
      BY <1>2, <2>5
    <2> QED
      BY <1>2, <2>1, <2>2, <2>3, <2>4, <2>5 DEF Next, vars, DeliberationPage
  <1>3. IInv /\ [Next]_vars =>
          ( /\ earlier \subseteq earlier'
            /\ \A a \in Apps : (OpenPool /\ round' # round /\ ~case[a].locked)
                                  => ~case'[a].locked )
    BY <1>1, <1>2
  <1> QED
    BY <1>3, Invariance, PTL DEF Spec, EarlierRoundsStand

(* For any number of applications and rounds, who is picked stays          *)
(* appointed as long as the pick stands, unless an absence was still to be *)
(* decided (cos_selection.rescind_cos_vacancy_deliberation,                *)
(* completion.close_recruitment_case, reopen.py).                          *)
THEOREM PickedAreKept == Spec => PickedStayAppointed
  <1>1. ASSUME IInv, [Next]_vars, NEW a \in Selected \cap Selected',
               case[a].status = "approved",
               \A k \in Assessments : file[a].absence[k] \notin ReviewStages
        PROVE  case'[a].status = "approved"
    <2>1. a \in Apps /\ a \in Selected
      BY <1>1, EligibleFacts
    <2>2. Phases[a] # "open"
      BY <1>1, <2>1, PhaseAt, PhaseOf DEF IInv
    <2>3. CASE CaseStep(Selected, {})
      <3>1. ~SubmitApplication(a)
        BY <1>1 DEF SubmitApplication, Submitted
      <3>2. ASSUME NEW role \in Roles, CloseCase(role, a)
            PROVE  case'[a].status = "approved"
        <4>1. case'[a] = Moved(case[a], "approved", Blank)
          BY <1>1, <2>1, <3>2, OneMoved DEF CloseCase
        <4>2. case[a] \in CaseRow
          BY <1>1, <2>1, PhaseAt DEF IInv
        <4> QED
          BY <4>1, <4>2, MovedStatus
      <3>3. ASSUME NEW role \in Roles, NEW k \in Assessments
            PROVE  ~EndAfterAbsence(role, a, k)
        BY <1>1 DEF EndAfterAbsence
      <3>4. Reopen(a, Selected) => case'[a].status = "approved"
        BY <1>1, <2>1, ReopenedAt DEF IInv
      <3>5. \/ case'[a] = case[a]
            \/ Phases[a] = "open"
            \/ SubmitApplication(a)
            \/ Reopen(a, Selected)
            \/ \E role \in Roles : \/ CloseCase(role, a)
                                   \/ \E k \in Assessments : EndAfterAbsence(role, a, k)
        BY <1>1, <2>1, <2>3, WhoMoves DEF IInv
      <3> QED
        BY <1>1, <2>2, <3>1, <3>2, <3>3, <3>4, <3>5
    <2>4. CASE \/ \E slots \in 1..Cardinality(Eligible) : OpenRound(slots)
               \/ \E chosen \in Apps : SaveDraftPick(chosen)
      BY <1>1, <2>4 DEF OpenRound, SaveDraftPick
    <2>5. ASSUME NEW chosen \in Apps, FinalizePick(chosen)
          PROVE  case'[a].status = "approved"
      <3>1. a # chosen
        BY <1>1, <2>1, <2>5, ChosenIsOpen
      <3>2. a \notin round'.members \ picks'
        <4>1. IInv'
          BY <1>1, StepInvariant
        <4> QED
          BY <1>1, <4>1 DEF IInv, RoundOK, Selected
      <3> QED
        BY <1>1, <2>1, <2>5, <3>1, <3>2, PickMoves
    <2>6. CASE CloseRoundShort
      <3>1. a \notin round'.members \ picks'
        <4>1. IInv'
          BY <1>1, StepInvariant
        <4> QED
          BY <1>1, <4>1 DEF IInv, RoundOK, Selected
      <3> QED
        BY <1>1, <2>1, <2>6, <3>1, ShortMoves
    <2>7. ASSUME NEW winner \in Apps, RescindPick(winner)
          PROVE  case'[a].status = "approved"
      <3>1. a # winner
        BY <1>1, <2>7, RescindedRound
      <3>2. case[a].caseStatus # "rejected"
        BY <1>1, <2>1, PhaseAt, RejectedRow DEF IInv
      <3>3. a \notin Restored(winner)
        BY <3>1, <3>2 DEF Restored
      <3> QED
        BY <1>1, <2>1, <2>7, <3>3, RescissionMoves
    <2>8. CASE UNCHANGED vars
      BY <1>1, <2>8 DEF vars
    <2> QED
      BY <1>1, <2>3, <2>4, <2>5, <2>6, <2>7, <2>8 DEF Next, DeliberationPage
  <1>2. IInv /\ [Next]_vars =>
          \A a \in Selected \cap Selected' :
            ( /\ case[a].status = "approved"
              /\ \A k \in Assessments : file[a].absence[k] \notin ReviewStages )
              => case'[a].status = "approved"
    BY <1>1
  <1> QED
    BY <1>2, Invariance, PTL DEF Spec, PickedStayAppointed

-----------------------------------------------------------------------------
(* Level 2 cases of the Secretariat *)

(* For any number of applications, a Level 2 case in the Secretariat's     *)
(* hands has an active override in a COS vacancy too, whatever rounds,     *)
(* picks and rescissions do in between (routing hand-off and recall,       *)
(* access.user_can_process_application).                                   *)
THEOREM SecretariatHasItsOverride == Spec => []SecretariatHoldsByOverride
  <1>1. Init => SecretariatHoldsByOverride
    BY DEF Init, CaseInit, DraftCase, Blank, SecretariatHoldsByOverride
  <1>2. IInv /\ SecretariatHoldsByOverride /\ [Next]_vars => SecretariatHoldsByOverride'
    <2> SUFFICES ASSUME IInv, SecretariatHoldsByOverride, [Next]_vars, Level = 2
                 PROVE  SecretariatHoldsByOverride'
      BY DEF SecretariatHoldsByOverride
    <2>1. CASE CaseStep(Selected, {})
      BY <2>1, OverridesOfCases DEF IInv
    <2>2. ASSUME NEW to, Transition(to), UNCHANGED overrides,
                 \A a \in Apps \cap DOMAIN to : to[a].handler # "secretariat"
          PROVE  SecretariatHoldsByOverride'
      BY <2>2, OverridesFollow
    <2>3. ASSUME NEW a \in Apps
          PROVE  /\ Moved(case[a], "hrm_chief_review", "hrm_chief").handler # "secretariat"
                 /\ Moved(case[a], "rejected", Blank).handler # "secretariat"
                 /\ Moved(case[a], "approved", CompletionOwner(Level)).handler # "secretariat"
      BY <2>3, MovedHandler, PhaseAt DEF IInv, Blank, CompletionOwner
    <2>4. ASSUME NEW chosen \in Apps, FinalizePick(chosen)
          PROVE  SecretariatHoldsByOverride'
      <3>1. PICK unpicked :
              Transition([a \in {chosen} \cup unpicked |->
                IF a = chosen THEN Moved(case[a], "approved", CompletionOwner(Level))
                              ELSE Moved(case[a], "rejected", Blank)])
        BY <2>4 DEF FinalizePick
      <3> DEFINE to == [a \in {chosen} \cup unpicked |->
                          IF a = chosen THEN Moved(case[a], "approved", CompletionOwner(Level))
                                        ELSE Moved(case[a], "rejected", Blank)]
      <3>2. \A a \in Apps \cap DOMAIN to : to[a].handler # "secretariat"
        BY <2>3
      <3>3. Transition(to)
        BY <3>1
      <3> HIDE DEF to
      <3> QED
        BY <2>2, <2>4, <3>2, <3>3 DEF FinalizePick
    <2>5. CASE CloseRoundShort
      BY <2>2, <2>3, <2>5 DEF CloseRoundShort, CloseAll
    <2>6. ASSUME NEW winner \in Apps, RescindPick(winner)
          PROVE  SecretariatHoldsByOverride'
      BY <2>2, <2>3, <2>6 DEF RescindPick
    <2>7. CASE \/ \E slots \in 1..Cardinality(Eligible) : OpenRound(slots)
               \/ \E chosen \in Apps : SaveDraftPick(chosen)
               \/ UNCHANGED vars
      BY <2>7 DEF OpenRound, SaveDraftPick, vars, SecretariatHoldsByOverride
    <2> QED
      BY <2>1, <2>4, <2>5, <2>6, <2>7 DEF Next, DeliberationPage
  <1> QED
    BY <1>1, <1>2, Invariance, PTL DEF Spec

-----------------------------------------------------------------------------
(* The lifecycle *)

Mapped == <<Phases, Selected>>

AbstractStep == Lifecycle!Next \/ UNCHANGED Mapped

LEMMA WithPhases ==
  ASSUME NEW moved, NEW p
  PROVE  PhasesWith(moved, p) = Lifecycle!MovedTo(moved, p)
  BY DEF PhasesWith, Lifecycle!MovedTo

(* What the shared operations do is a step of the lifecycle: it asks of    *)
(* them what LifecycleMove says.                                           *)
LEMMA MoveOfTheLifecycle ==
  ASSUME LifecycleMove(Selected), Selected' = Selected
  PROVE  AbstractStep
  <1>2. Lifecycle!In("open") = {a \in Apps : Phases[a] = "open"}
    BY DEF Lifecycle!In
  <1>3. CASE Phases' = Phases
    BY <1>3 DEF AbstractStep, Mapped
  <1>4. ASSUME NEW a \in Apps, Phases[a] = "draft", Phases' = PhasesWith({a}, "open")
        PROVE  AbstractStep
    <2>1. Lifecycle!Submit(a)
      BY <1>4, WithPhases DEF Lifecycle!Submit
    <2> QED
      BY <2>1 DEF AbstractStep, Lifecycle!Next
  <1>5. ASSUME NEW a \in Apps, Phases[a] = "open", Phases' = PhasesWith({a}, "withdrawn")
        PROVE  AbstractStep
    <2>1. Lifecycle!Withdraw(a)
      BY <1>5, WithPhases DEF Lifecycle!Withdraw
    <2> QED
      BY <2>1 DEF AbstractStep, Lifecycle!Next
  <1>6. ASSUME NEW out \in SUBSET Apps, \A a \in out : Phases[a] = "open",
               Phases' = PhasesWith(out, "rejected")
        PROVE  AbstractStep
    <2>1. Lifecycle!Reject(out)
      BY <1>2, <1>6, WithPhases DEF Lifecycle!Reject
    <2> QED
      BY <2>1 DEF AbstractStep, Lifecycle!Next
  <1>7. CASE /\ Selected = {}
             /\ Phases' = PhasesWith({a \in Apps : Phases[a] = "open"}, "vacancy_cancelled")
    <2>1. Lifecycle!Cancel
      BY <1>2, <1>7, WithPhases DEF Lifecycle!Cancel
    <2> QED
      BY <2>1 DEF AbstractStep, Lifecycle!Next
  <1>8. ASSUME NEW a \in Apps, NEW p \in {"open", "appointed"}, Phases[a] \in Exits,
               Selected = {} \/ a \in Selected, p = "appointed" => a \in Selected,
               Phases' = PhasesWith({a}, p)
        PROVE  AbstractStep
    <2>1. Lifecycle!Reopen(a)
      BY <1>8, WithPhases DEF Lifecycle!Reopen, Lifecycle!Exits, Exits
    <2> QED
      BY <2>1 DEF AbstractStep, Lifecycle!Next
  <1>9. ASSUME NEW a \in Selected \cap Apps, Phases[a] = "appointed",
               Phases' = PhasesWith({a}, "rejected")
        PROVE  AbstractStep
    <2>1. Lifecycle!Drop(a)
      BY <1>9, WithPhases DEF Lifecycle!Drop
    <2> QED
      BY <2>1 DEF AbstractStep, Lifecycle!Next
  <1> QED
    BY <1>3, <1>4, <1>5, <1>6, <1>7, <1>8, <1>9 DEF LifecycleMove

(* Two reasons for there being room for one more: a batch appoints up to   *)
(* the slots of its only round, and an open pool has the one still open.   *)
LEMMA RoomForOne ==
  ASSUME IInv, NEW chosen \in Apps, FinalizePick(chosen)
  PROVE  Cardinality(Selected) < IF OpenPool THEN Cardinality(Apps) ELSE Positions
  <1>1. CanPick(chosen) /\ chosen \notin Selected
    BY ChosenIsOpen
  <1>2. CASE OpenPool
    <2>1. IsFiniteSet(Apps) /\ Selected \in SUBSET Apps
      BY ApplicationsAssumption, EligibleFacts DEF ApplicationsAssumption
    <2>2. /\ Cardinality(Selected) <= Cardinality(Apps)
          /\ Cardinality(Selected) # Cardinality(Apps)
      BY <1>1, <2>1, FS_Subset
    <2>3. Cardinality(Selected) \in Nat /\ Cardinality(Apps) \in Nat
      BY <2>1, Sizes
    <2> QED
      BY <1>2, <2>2, <2>3
  <1>3. CASE ~OpenPool
    BY <1>1, <1>3, PickFacts
  <1> QED
    BY <1>2, <1>3

(* A finalized pick appoints the chosen applicant and, when it decides a   *)
(* batch, rejects the open members it did not choose.                      *)
LEMMA PickPhases ==
  ASSUME IInv, NEW chosen \in Apps, FinalizePick(chosen)
  PROVE  AbstractStep
  <1> DEFINE out == {a \in Apps : /\ a # chosen /\ round'.status = "resolved" /\ ~OpenPool
                                  /\ a \in round'.members \ picks' /\ ActiveUnlocked(a)}
  <1>1. Selected' = Selected \cup {chosen} /\ RoundOK'
    BY PickedRound
  <1>2. chosen \notin Selected /\ Phases[chosen] = "open"
    <2>1. case[chosen].stage # "completion"
      BY ChosenIsOpen
    <2> QED
      BY <2>1, ChosenIsOpen, PhaseAt DEF IInv
  <1>3. out \subseteq Lifecycle!In("open") \ {chosen}
    <2> SUFFICES ASSUME NEW a \in out PROVE Phases[a] = "open" /\ a # chosen
      BY DEF Lifecycle!In
    <2>1. a \notin Selected' /\ a \in Apps /\ case[a].caseStatus = "active"
      BY <1>1 DEF RoundOK, Selected, ActiveUnlocked
    <2>2. case[a].stage # "completion"
      BY <1>1, <2>1, PhaseAt DEF IInv
    <2> QED
      BY <2>1, <2>2, PhaseAt DEF IInv
  <1>4. \A a \in Apps : Phases'[a] =
          IF a = chosen THEN "appointed" ELSE IF a \in out THEN "rejected" ELSE Phases[a]
    <2> SUFFICES ASSUME NEW a \in Apps
                 PROVE  Phases'[a] = IF a = chosen THEN "appointed"
                                     ELSE IF a \in out THEN "rejected" ELSE Phases[a]
      OBVIOUS
    <2>1. Phases[a] = Phase(case[a].status) /\ Phases'[a] = Phase(case'[a].status)
      BY DEF Phases
    <2>2. Phase("approved") = "appointed" /\ Phase("rejected") = "rejected"
      BY DEF Phase, ReviewStages, ScreeningStages
    <2>3. case[a] \in CaseRow
      BY PhaseAt DEF IInv
    <2>4. Moved(case[a], "rejected", Blank).status = "rejected"
      BY <2>3, MovedStatus
    <2> QED
      BY <2>1, <2>2, <2>4, PickMoves
  <1> HIDE DEF out
  <1>5. Phases' = [b \in Apps |-> IF b = chosen THEN "appointed"
                                  ELSE Lifecycle!MovedTo(out, "rejected")[b]]
    <2>1. \A b \in Apps : Lifecycle!MovedTo(out, "rejected")[b] =
                            IF b \in out THEN "rejected" ELSE Phases[b]
      BY DEF Lifecycle!MovedTo
    <2> QED
      BY <1>4, <2>1 DEF Phases
  <1>6. Lifecycle!Cardinality(Selected) < IF OpenPool THEN Cardinality(Apps) ELSE Positions
    <2>1. Lifecycle!Cardinality(Selected) = Cardinality(Selected)
      BY Zenon DEF Lifecycle!Cardinality, Cardinality
    <2> QED
      BY <2>1, RoomForOne
  <1>7. out \in SUBSET Apps
    BY <1>3 DEF Lifecycle!In
  <1>8. Lifecycle!Appoint(chosen, out)
    BY <1>1, <1>2, <1>3, <1>5, <1>6 DEF Lifecycle!Appoint
  <1> QED
    BY <1>7, <1>8 DEF AbstractStep, Lifecycle!Next

(* A short close rejects open members, or nobody.                          *)
LEMMA ShortPhases ==
  ASSUME IInv, CloseRoundShort
  PROVE  AbstractStep
  <1> DEFINE out == {a \in Apps : /\ ~OpenPool /\ a \in round'.members \ picks'
                                  /\ ActiveUnlocked(a)}
  <1>1. Selected' = Selected /\ RoundOK'
    BY ShortRound
  <1>2. \A a \in out : Phases[a] = "open"
    <2> SUFFICES ASSUME NEW a \in out PROVE Phases[a] = "open"
      OBVIOUS
    <2>1. a \notin Selected' /\ a \in Apps /\ case[a].caseStatus = "active"
      BY <1>1 DEF RoundOK, Selected, ActiveUnlocked
    <2>2. case[a].stage # "completion"
      BY <1>1, <2>1, PhaseAt DEF IInv
    <2> QED
      BY <2>1, <2>2, PhaseAt DEF IInv
  <1>3. \A a \in Apps : Phases'[a] = IF a \in out THEN "rejected" ELSE Phases[a]
    <2> SUFFICES ASSUME NEW a \in Apps
                 PROVE  Phases'[a] = IF a \in out THEN "rejected" ELSE Phases[a]
      OBVIOUS
    <2>1. Phases[a] = Phase(case[a].status) /\ Phases'[a] = Phase(case'[a].status)
      BY DEF Phases
    <2>2. Phase("rejected") = "rejected"
      BY DEF Phase, ReviewStages, ScreeningStages
    <2>3. Moved(case[a], "rejected", Blank).status = "rejected"
      BY PhaseAt, MovedStatus DEF IInv
    <2> QED
      BY <2>1, <2>2, <2>3, ShortMoves
  <1>4. out \in SUBSET Apps
    OBVIOUS
  <1> HIDE DEF out
  <1>5. Phases' = PhasesWith(out, "rejected")
    BY <1>3 DEF Phases, PhasesWith
  <1>6. LifecycleMove(Selected)
    BY <1>2, <1>4, <1>5 DEF LifecycleMove
  <1> QED
    BY <1>1, <1>6, MoveOfTheLifecycle

(* A pick taken back brings back the appointee and members the round had   *)
(* rejected.                                                               *)
LEMMA TakenBackPhases ==
  ASSUME IInv, NEW winner \in Apps, RescindPick(winner)
  PROVE  AbstractStep
  <1> DEFINE back == Restored(winner) \ {winner}
  <1>1. winner \in Selected /\ Selected' = Selected \ {winner}
    BY RescindedRound
  <1>2. Restored(winner) \in SUBSET Apps /\ winner \in Restored(winner)
    BY RescindedCases
  <1>3. back \subseteq Lifecycle!In("rejected") /\ back \in SUBSET Apps
    <2> SUFFICES ASSUME NEW a \in back PROVE a \in Apps /\ Phases[a] = "rejected"
      BY DEF Lifecycle!In
    <2>1. a \in Apps /\ case[a].caseStatus = "rejected"
      BY <1>2 DEF Restored
    <2>2. Phases[a] = Phase("rejected")
      BY <2>1, PhaseAt, RejectedRow DEF IInv
    <2> QED
      BY <2>1, <2>2 DEF Phase, ReviewStages, ScreeningStages
  <1>4. \A a \in Apps : Phases'[a] = IF a \in {winner} \cup back THEN "open" ELSE Phases[a]
    <2>1. Phase("hrm_chief_review") = "open"
      BY DEF Phase, ReviewStages, ScreeningStages
    <2> QED
      BY <1>2, <2>1, RescissionMoves DEF Phases
  <1> HIDE DEF back
  <1>5. Phases' = Lifecycle!MovedTo({winner} \cup back, "open")
    BY <1>4 DEF Phases, Lifecycle!MovedTo
  <1>6. Lifecycle!TakeBack(winner, back)
    BY <1>1, <1>3, <1>5 DEF Lifecycle!TakeBack
  <1> QED
    BY <1>3, <1>6 DEF AbstractStep, Lifecycle!Next

(* Every step of the vacancy is a step of the lifecycle or none at all.    *)
THEOREM StepSimulation ==
  ASSUME IInv, [Next]_vars
  PROVE  [Lifecycle!Next]_<<Phases, Selected>>
  <1> SUFFICES AbstractStep
    BY DEF AbstractStep, Mapped
  <1>1. CASE CaseStep(Selected, {}) /\ UNCHANGED <<round, picks, earlier>>
    <2>1. Selected' = Selected
      BY <1>1 DEF Selected
    <2>2. LifecycleMove(Selected)
      BY <1>1, CaseStepPhases DEF IInv
    <2> QED
      BY <2>1, <2>2, MoveOfTheLifecycle
  <1>2. CASE \/ \E slots \in 1..Cardinality(Eligible) : OpenRound(slots)
             \/ \E chosen \in Apps : SaveDraftPick(chosen)
    <2>1. UNCHANGED case
      BY <1>2 DEF OpenRound, SaveDraftPick
    <2> QED
      BY <1>2, <2>1, OpenedRound DEF AbstractStep, Mapped, Phases
  <1>3. CASE UNCHANGED vars
    BY <1>3 DEF vars, AbstractStep, Mapped, Phases, Selected
  <1> QED
    BY <1>1, <1>2, <1>3, PickPhases, ShortPhases, TakenBackPhases DEF Next, DeliberationPage

(* The vacancy implements the lifecycle: whatever the rounds do to any     *)
(* number of applications, no more are appointed than there are positions  *)
(* of a batch, and nobody is open, out or appointed but by a step the      *)
(* lifecycle names (services/cos_selection.py, routing.transition_case).   *)
THEOREM ImplementsLifecycle == Spec => KeepsTheLifecycle
  <1>1. Init => Lifecycle!Init
    BY DEF Init, CaseInit, Lifecycle!Init, Phases, Phase, DraftCase, Selected,
           ReviewStages, ScreeningStages
  <1>2. IInv /\ [Next]_vars => [Lifecycle!Next]_<<Phases, Selected>>
    BY StepSimulation
  <1> QED
    BY <1>1, <1>2, Invariance, PTL
       DEF Spec, KeepsTheLifecycle, Lifecycle!Spec, Lifecycle!lifecycle

-----------------------------------------------------------------------------
(* The records behind a case.  Nothing is kept of a candidate at the       *)
(* Chief's step before it gets there, an interview is only finalized on a  *)
(* screened candidate, with scores or as an absence, and the members of a  *)
(* round have been scored: from then on they cannot miss the interview.    *)

First == "secretariat_review"
Chief == "hrm_chief_review"

Verdict(f, stage) == f.screening[stage].verdict

(* The records of the Secretariat's step, which Level 1 starts at.          *)
AtFirst(row, f) ==
  /\ Verdict(f, First) # "qualified" =>
       f.exam[First] = "open" /\ Place(row) \in {Blank, First}
  /\ Verdict(f, First) = "not_qualified" => row.locked
  /\ (row.caseStatus = "awaiting" /\ row.stage = First) => Verdict(f, First) = Blank
  /\ (row.caseStatus = "active" /\ row.stage = First /\ f.exam[First] # "open")
       => f.absence["examination"] = First
  /\ Place(row) \in {Blank, First} =>
       /\ Verdict(f, Chief) = Blank
       /\ f.absence["examination"] \in {Blank, First}

(* Those of the Chief's.                                                   *)
AtChief(row, f) ==
  /\ Verdict(f, Chief) = Blank => f.session.state # "final"
  /\ f.session.state = "final" =>
       f.session.ratings = IF f.session.absent THEN "none" ELSE "quorum"
  /\ f.absence["interview"] \in {Blank, "decided", Chief}
  /\ (row.caseStatus = "awaiting" /\ row.stage = Chief) => Verdict(f, Chief) = Blank
  /\ ( /\ row.caseStatus = "active"
       /\ row.stage = Chief
       /\ f.session.state = "final"
       /\ f.session.absent ) => f.absence["interview"] = Chief
  /\ Place(row) = "completion" =>
       /\ f.session.state = "final"
       /\ ~f.session.absent
       /\ f.absence["interview"] # Chief

RecordsOf(row, f) ==
  /\ row.caseStatus = Blank => Verdict(f, First) = Blank /\ Verdict(f, Chief) = Blank
  /\ Level = 1 => AtFirst(row, f)
  /\ AtChief(row, f)

(* Somebody who was scored and has no interview absence to decide.         *)
Scored(row, f) == /\ Place(row) \in {Chief, "completion"}
                  /\ f.session.ratings = "quorum"
                  /\ f.absence["interview"] # Chief

RecordsKept == /\ \A a \in Apps : RecordsOf(case[a], file[a])
               /\ \A m \in round.members : Scored(case[m], file[m])

(* What a step owes an application.                                        *)
Keeps(row, f, r, g) == RecordsOf(r, g) /\ (Scored(row, f) => Scored(r, g))
Advances(a) == Keeps(case[a], file[a], case'[a], file'[a])

LEMMA StageNames ==
  /\ First \in ScreeningStages /\ Chief \in ScreeningStages
  /\ First \in ReviewStages /\ Chief \in ReviewStages
  /\ ScreeningStages = {First, Chief} /\ First # Chief
  /\ First # Blank /\ Chief # Blank
  /\ First # "completion" /\ Chief # "completion"
  /\ First # "closed" /\ Chief # "closed"
  /\ StepStages(Branch, Level) = {IntakeStage(Level), Chief, "completion"}
  /\ IntakeStage(Level) = IF Level = 1 THEN First ELSE Chief
  /\ SectionsAt(Branch, First) = {"screening", "exam"}
  /\ SectionsAt(Branch, Chief) = {"screening", "exam", "interview", "deliberation", "decision"}
  /\ SectionsAt(Branch, "completion") = {"completion"}
  BY DEF First, Chief, ScreeningStages, ReviewStages, Blank, StepStages, IntakeStage,
         SectionsAt, CosSections

LEMMA Open ==
  ASSUME NEW row \in GoodRows, row.caseStatus \in {"active", "awaiting"}
  PROVE  /\ row \in CaseRow /\ ~row.locked /\ Place(row) = row.stage
         /\ row.stage \in {First, Chief, "completion"}
         /\ row.stage = First => Level = 1
         /\ row.caseStatus = "awaiting" => row.stage # "completion"
  <1>1. row \in CaseRow /\ ~row.locked /\ row.stage \in StepStages(Branch, Level)
    BY OpenCase DEF GoodRows
  <1>2. row.caseStatus = "awaiting" => row.stage \in ScreeningStages
    BY AwaitingCase DEF AwaitingApplicant
  <1> QED
    BY <1>1, <1>2, StageNames DEF Place

LEMMA RowNow ==
  ASSUME IInv, RecordsKept, NEW a \in Apps
  PROVE  /\ case[a] \in GoodRows /\ case[a] \in CaseRow
         /\ RecordsOf(case[a], file[a])
         /\ file \in [Apps -> ApplicationFile] /\ file[a] \in ApplicationFile
  BY PhaseAt DEF IInv, RecordsOK, RecordsKept

LEMMA ProcessedAt ==
  ASSUME IInv, NEW a \in Apps, NEW role \in Roles, CanProcess(role, a)
  PROVE  /\ case[a].caseStatus \in {"active", "awaiting"}
         /\ case[a] \in GoodRows /\ case[a] \in CaseRow
         /\ ~case[a].locked /\ Place(case[a]) = case[a].stage
  BY ProcessedIsOpen, Open DEF IInv

LEMMA FileParts ==
  ASSUME NEW f \in ApplicationFile
  PROVE  /\ f.screening \in [ScreeningStages -> ScreeningRecord]
         /\ \A s \in ScreeningStages : f.screening[s] \in ScreeningRecord
         /\ f.exam \in [ScreeningStages -> ExamRecord]
         /\ f.session \in InterviewSession
         /\ f.session.absent \in BOOLEAN
         /\ DOMAIN f.absence = Assessments
  BY DEF ApplicationFile, InterviewSession

(* An edit of one part of a file leaves the others alone.                  *)
LEMMA Edited ==
  ASSUME NEW f \in ApplicationFile, NEW value
  PROVE  /\ LET g == [f EXCEPT !.screening = value]
            IN  g.screening = value /\ g.exam = f.exam /\ g.session = f.session
                  /\ g.absence = f.absence
         /\ LET g == [f EXCEPT !.exam = value]
            IN  g.screening = f.screening /\ g.exam = value /\ g.session = f.session
                  /\ g.absence = f.absence
         /\ LET g == [f EXCEPT !.session = value]
            IN  g.screening = f.screening /\ g.exam = f.exam /\ g.session = value
                  /\ g.absence = f.absence
         /\ LET g == [f EXCEPT !.absence = value]
            IN  g.screening = f.screening /\ g.exam = f.exam /\ g.session = f.session
                  /\ g.absence = value
         /\ LET g == [f EXCEPT !.completion = value]
            IN  g.screening = f.screening /\ g.exam = f.exam /\ g.session = f.session
                  /\ g.absence = f.absence
         /\ LET g == [f EXCEPT !.notified = value]
            IN  g.screening = f.screening /\ g.exam = f.exam /\ g.session = f.session
                  /\ g.absence = f.absence
  BY DEF ApplicationFile

(* What the records say of a case depends on these parts.                  *)
SameRecords(f, g) == /\ Verdict(g, First) = Verdict(f, First)
                     /\ Verdict(g, Chief) = Verdict(f, Chief)
                     /\ g.exam[First] = f.exam[First]
                     /\ g.session = f.session
                     /\ g.absence = f.absence

LEMMA SameKeeps ==
  ASSUME NEW row, NEW f, NEW g, RecordsOf(row, f), SameRecords(f, g)
  PROVE  Keeps(row, f, row, g)
  BY DEF Keeps, RecordsOf, AtFirst, AtChief, Scored, SameRecords

LEMMA SameParts ==
  ASSUME NEW f, NEW g, g.screening = f.screening, g.exam = f.exam,
         g.session = f.session, g.absence = f.absence
  PROVE  SameRecords(f, g)
  BY DEF SameRecords, Verdict

LEMMA Untouched ==
  ASSUME IInv, RecordsKept, NEW a \in Apps, case'[a] = case[a], file'[a] = file[a]
  PROVE  Advances(a)
  BY RowNow DEF Advances, Keeps

-----------------------------------------------------------------------------
(* Movements *)

(* A case that is closed, whatever absence is decided with it.             *)
LEMMA ClosedKeeps ==
  ASSUME NEW row, NEW r, NEW f, NEW g, RecordsOf(row, f),
         ~row.locked, Place(row) = row.stage, row.caseStatus \in {"active", "awaiting"},
         r.locked, r.stage = "closed", r.caseStatus \in Exits \cup {"approved"},
         Place(r) = row.stage,
         Verdict(g, First) = Verdict(f, First), Verdict(g, Chief) = Verdict(f, Chief),
         g.exam[First] = f.exam[First], g.session = f.session,
         g.absence["examination"] \in {f.absence["examination"], Blank},
         g.absence["interview"] \in {f.absence["interview"], "decided"}
  PROVE  Keeps(row, f, r, g)
  <1>1. "closed" # First /\ "closed" # Chief /\ "decided" # Chief
    BY DEF First, Chief
  <1>2. r.caseStatus \notin {Blank, "awaiting", "active"}
    BY DEF Exits, Blank
  <1>3. Level = 1 => AtFirst(r, g)
    BY <1>1, <1>2 DEF RecordsOf, AtFirst
  <1>4. AtChief(r, g)
    BY <1>1, <1>2 DEF RecordsOf, AtChief
  <1>5. Scored(row, f) => Scored(r, g)
    BY <1>1 DEF Scored
  <1> QED
    BY <1>2, <1>3, <1>4, <1>5 DEF Keeps, RecordsOf

LEMMA ClosingKeeps ==
  ASSUME IInv, RecordsKept, NEW a \in Apps, NEW status \in Exits \cup {"approved"},
         case[a].caseStatus \in {"active", "awaiting"},
         case'[a] = Moved(case[a], status, Blank),
         SameRecords(file[a], file'[a])
  PROVE  Advances(a)
  <1>1. RecordsOf(case[a], file[a]) /\ ~case[a].locked /\ Place(case[a]) = case[a].stage
    BY RowNow, Open
  <1>2. /\ case'[a].stage = "closed" /\ case'[a].caseStatus = status
        /\ case'[a].locked /\ Place(case'[a]) = case[a].stage
    BY ToClosed
  <1> QED
    BY <1>1, <1>2, ClosedKeeps DEF Advances, SameRecords

(* A case that stays at its step, whoever holds it now.                    *)
LEMMA StayKeeps ==
  ASSUME NEW row, NEW r, NEW f, NEW g, RecordsOf(row, f), SameRecords(f, g),
         ~row.locked, row.caseStatus \in {"active", "awaiting"},
         r.stage = row.stage, r.caseStatus = row.caseStatus, ~r.locked,
         Place(r) = Place(row)
  PROVE  Keeps(row, f, r, g)
  BY DEF Keeps, RecordsOf, AtFirst, AtChief, Scored, SameRecords

(* A case that goes back to the office with its record opened again, or    *)
(* the other way.                                                          *)
LEMMA BetweenKeeps ==
  ASSUME NEW row, NEW r, NEW f, NEW g, RecordsOf(row, f), SameRecords(f, g),
         ~row.locked, row.caseStatus \in {"active", "awaiting"},
         row.stage \in {First, Chief}, Place(row) = row.stage,
         Verdict(f, row.stage) = Blank,
         r.stage = row.stage, r.caseStatus \in {"active", "awaiting"}, ~r.locked,
         Place(r) = row.stage
  PROVE  Keeps(row, f, r, g)
  <1>1. Blank # "qualified" /\ Blank \notin {"active", "awaiting"} /\ First # Chief
    BY DEF Blank, First, Chief
  <1>2. Level = 1 => AtFirst(r, g)
    BY <1>1 DEF RecordsOf, AtFirst, SameRecords
  <1>3. AtChief(r, g)
    BY <1>1 DEF RecordsOf, AtChief, SameRecords
  <1> QED
    BY <1>1, <1>2, <1>3 DEF Keeps, RecordsOf, Scored, SameRecords

(* A case the Chief receives from the Secretariat's step.                  *)
LEMMA ChiefReceives ==
  ASSUME NEW row, NEW r, NEW f, NEW g, RecordsOf(row, f), Level = 1,
         Place(row) = First, Verdict(f, First) = "qualified",
         r.stage = Chief, r.caseStatus = "active", ~r.locked, Place(r) = Chief,
         Verdict(g, First) = Verdict(f, First), Verdict(g, Chief) = Verdict(f, Chief),
         g.session = f.session, g.absence = f.absence
  PROVE  Keeps(row, f, r, g)
  <1>1. /\ Blank # "qualified" /\ Blank # "active" /\ First # Chief /\ Chief # "completion"
        /\ Chief # Blank /\ First # "completion"
    BY DEF Blank, First, Chief
  <1>2. Verdict(f, Chief) = Blank /\ f.session.state # "final"
    BY <1>1 DEF RecordsOf, AtFirst, AtChief
  <1>3. Level = 1 => AtFirst(r, g)
    BY <1>1, <1>2 DEF RecordsOf, AtFirst
  <1>4. AtChief(r, g)
    BY <1>1, <1>2 DEF RecordsOf, AtChief
  <1> QED
    BY <1>1, <1>3, <1>4 DEF Keeps, RecordsOf, Scored

-----------------------------------------------------------------------------
(* Screening *)

(* At the screening section nothing has been decided of the step yet.      *)
LEMMA AtScreening ==
  ASSUME IInv, NEW a \in Apps, NEW role \in Roles, CanManageScreening(role, a)
  PROVE  /\ case[a].stage \in {First, Chief} /\ ~case[a].locked
         /\ Place(case[a]) = case[a].stage /\ case[a] \in CaseRow
         /\ case[a].caseStatus \in {"active", "awaiting"}
         /\ Verdict(file[a], case[a].stage) = Blank
  <1>1. /\ CanProcess(role, a) /\ case[a].stage \in ScreeningStages
        /\ AtSection(a, "screening")
    BY DEF CanManageScreening
  <1>2. Verdict(file[a], case[a].stage) = Blank
    BY <1>1 DEF AtSection, SectionComplete, Screening, Verdict
  <1> QED
    BY <1>1, <1>2, ProcessedAt, StageNames

(* An edit of the screening record of a step.                              *)
LEMMA ScreeningEdit ==
  ASSUME IInv, NEW a \in Apps, NEW s \in {First, Chief}, NEW record,
         file' = [file EXCEPT ![a] = [file[a] EXCEPT !.screening =
                    [file[a].screening EXCEPT ![s] = record]]]
  PROVE  /\ Verdict(file'[a], s) = record.verdict
         /\ \A t \in {First, Chief} : t # s => Verdict(file'[a], t) = Verdict(file[a], t)
         /\ file'[a].exam = file[a].exam /\ file'[a].session = file[a].session
         /\ file'[a].absence = file[a].absence
  <1> DEFINE f == file[a]
             edited == [f.screening EXCEPT ![s] = record]
  <1>1. f \in ApplicationFile /\ file'[a] = [f EXCEPT !.screening = edited]
    BY DEF IInv, RecordsOK
  <1>2. /\ edited[s] = record
        /\ \A t \in {First, Chief} : t # s => edited[t] = f.screening[t]
    BY <1>1, FileParts, StageNames
  <1> HIDE DEF edited, f
  <1>3. /\ file'[a].screening = edited /\ file'[a].exam = f.exam
        /\ file'[a].session = f.session /\ file'[a].absence = f.absence
    BY <1>1 DEF ApplicationFile
  <1> QED
    BY <1>2, <1>3 DEF Verdict, f

(* An edit that leaves the verdict of the step alone.                      *)
LEMMA SameVerdict ==
  ASSUME IInv, NEW a \in Apps, NEW s \in {First, Chief}, NEW record,
         file' = [file EXCEPT ![a] = [file[a] EXCEPT !.screening =
                    [file[a].screening EXCEPT ![s] = record]]],
         record.verdict = Verdict(file[a], s)
  PROVE  SameRecords(file[a], file'[a])
  BY ScreeningEdit, StageNames DEF SameRecords

(* Documents Qualified, with the case where it is.                         *)
LEMMA QualifiedKeeps ==
  ASSUME NEW row, NEW f, NEW g, RecordsOf(row, f), NEW s \in {First, Chief},
         row.stage = s, Place(row) = s, row.caseStatus = "active",
         Verdict(f, s) = Blank, Verdict(g, s) = "qualified",
         \A t \in {First, Chief} : t # s => Verdict(g, t) = Verdict(f, t),
         g.exam = f.exam, g.session = f.session, g.absence = f.absence
  PROVE  Keeps(row, f, row, g)
  <1>1. Blank # "qualified" /\ Blank # "active" /\ First # Chief /\ Chief # Blank
    BY DEF Blank, First, Chief
  <1>2. \/ s = First /\ Verdict(g, Chief) = Verdict(f, Chief)
        \/ s = Chief /\ Verdict(g, First) = Verdict(f, First)
    BY <1>1
  <1>3. Level = 1 => AtFirst(row, g)
    BY <1>1, <1>2 DEF RecordsOf, AtFirst
  <1>4. AtChief(row, g)
    BY <1>1, <1>2 DEF RecordsOf, AtChief
  <1> QED
    BY <1>1, <1>3, <1>4 DEF Keeps, RecordsOf, Scored

(* Not Qualified, with the case closed.                                    *)
LEMMA NotQualifiedKeeps ==
  ASSUME NEW row, NEW r, NEW f, NEW g, RecordsOf(row, f), NEW s \in {First, Chief},
         Place(row) = s, r.stage = "closed", r.caseStatus = "rejected", r.locked,
         Place(r) = s, Verdict(f, s) = Blank, Verdict(g, s) = "not_qualified",
         \A t \in {First, Chief} : t # s => Verdict(g, t) = Verdict(f, t),
         g.exam = f.exam, g.session = f.session, g.absence = f.absence
  PROVE  Keeps(row, f, r, g)
  <1>1. /\ First # Chief /\ First # Blank /\ Chief # Blank /\ First # "completion"
        /\ Chief # "completion" /\ Blank # "qualified"
        /\ "rejected" # Blank
    BY DEF Blank, First, Chief
  <1>2. Level = 1 => AtFirst(r, g)
    BY <1>1 DEF RecordsOf, AtFirst
  <1>3. AtChief(r, g)
    BY <1>1 DEF RecordsOf, AtChief
  <1> QED
    BY <1>1, <1>2, <1>3 DEF Keeps, RecordsOf, Scored

LEMMA ScreeningKeeps ==
  ASSUME IInv, RecordsKept, NEW a \in Apps, NEW role \in Roles,
         ScreeningPage(role, a) \/ RemoveFromBatch(role, a)
  PROVE  Advances(a)
  <1> DEFINE f == file[a]
             g == file'[a]
             row == case[a]
             s == row.stage
             record == f.screening[s]
  <1>1. RecordsOf(row, f) /\ row \in CaseRow /\ f \in ApplicationFile
    BY RowNow
  <1>2. CanManageScreening(role, a)
    BY DEF ScreeningPage, SaveScreeningDraft, FinalizeQualified, FinalizeNotQualified,
           ReturnDocuments, RemoveFromBatch
  <1>3. /\ s \in {First, Chief} /\ ~row.locked /\ Place(row) = s
        /\ row.caseStatus \in {"active", "awaiting"}
        /\ Verdict(f, s) = Blank
    BY <1>2, AtScreening
  <1>4. record \in ScreeningRecord /\ record.verdict = Blank
    BY <1>1, <1>3, FileParts, StageNames DEF Verdict
  <1>5. ASSUME NEW flagged \in BOOLEAN, SaveScreeningDraft(role, a, flagged)
        PROVE  Advances(a)
    <2> DEFINE new == [record EXCEPT !.flagged = flagged]
    <2>1. /\ file' = [file EXCEPT ![a] = [f EXCEPT !.screening =
                        [f.screening EXCEPT ![s] = new]]]
          /\ case' = case
      BY <1>5 DEF SaveScreeningDraft
    <2>2. new.verdict = Blank
      BY <1>4 DEF ScreeningRecord
    <2> HIDE DEF new
    <2>3. SameRecords(f, g)
      BY <1>3, <2>1, <2>2, SameVerdict
    <2> QED
      BY <1>1, <2>1, <2>3, SameKeeps DEF Advances
  <1>6. CASE FinalizeQualified(role, a)
    <2> DEFINE new == [verdict |-> "qualified", flagged |-> FALSE]
    <2>1. /\ file' = [file EXCEPT ![a] = [f EXCEPT !.screening =
                        [f.screening EXCEPT ![s] = new]]]
          /\ case' = case /\ row.caseStatus = "active"
      BY <1>3, <1>6 DEF FinalizeQualified
    <2>2. new.verdict = "qualified"
      OBVIOUS
    <2> HIDE DEF new
    <2>3. /\ Verdict(g, s) = "qualified"
          /\ \A t \in {First, Chief} : t # s => Verdict(g, t) = Verdict(f, t)
          /\ g.exam = f.exam /\ g.session = f.session /\ g.absence = f.absence
      BY <1>3, <2>1, <2>2, ScreeningEdit
    <2> HIDE DEF f, g, row, record
    <2>4. Keeps(row, f, row, g)
      BY <1>1, <1>3, <2>1, <2>3, QualifiedKeeps
    <2> QED
      BY <2>1, <2>4 DEF Advances, f, g, row
  <1>7. CASE FinalizeNotQualified(role, a)
    <2> DEFINE new == [record EXCEPT !.verdict = "not_qualified"]
               r == case'[a]
    <2>1. /\ file' = [file EXCEPT ![a] = [f EXCEPT !.screening =
                        [f.screening EXCEPT ![s] = new]]]
          /\ r = Moved(row, "rejected", Blank)
      BY <1>7, OneMoved DEF FinalizeNotQualified
    <2>2. new.verdict = "not_qualified"
      BY <1>4 DEF ScreeningRecord
    <2> HIDE DEF new
    <2>3. /\ Verdict(g, s) = "not_qualified"
          /\ \A t \in {First, Chief} : t # s => Verdict(g, t) = Verdict(f, t)
          /\ g.exam = f.exam /\ g.session = f.session /\ g.absence = f.absence
      BY <1>3, <2>1, <2>2, ScreeningEdit
    <2>4. r.stage = "closed" /\ r.caseStatus = "rejected" /\ r.locked /\ Place(r) = s
      BY <2>1, ToClosed DEF Exits
    <2> HIDE DEF f, g, row, record, r
    <2>5. Keeps(row, f, r, g)
      BY <1>1, <1>3, <2>3, <2>4, NotQualifiedKeeps
    <2> QED
      BY <2>5 DEF Advances, f, g, row, r
  <1>8. CASE ReturnDocuments(role, a)
    <2> DEFINE new == [record EXCEPT !.flagged = TRUE]
               r == case'[a]
    <2>1. /\ file' = [file EXCEPT ![a] = [f EXCEPT !.screening =
                        [f.screening EXCEPT ![s] = new]]]
          /\ r = Moved(row, "returned", row.handler)
      BY <1>8, OneMoved DEF ReturnDocuments
    <2>2. new.verdict = Blank
      BY <1>4 DEF ScreeningRecord
    <2> HIDE DEF new
    <2>3. SameRecords(f, g)
      BY <1>3, <2>1, <2>2, SameVerdict
    <2>4. r.stage = s /\ r.caseStatus = "awaiting" /\ ~r.locked /\ Place(r) = s
      BY <1>1, <2>1, ToApplicant
    <2> HIDE DEF f, g, row, record, r
    <2>5. Keeps(row, f, r, g)
      BY <1>1, <1>3, <2>3, <2>4, BetweenKeeps
    <2> QED
      BY <2>5 DEF Advances, f, g, row, r
  <1>9. CASE RemoveFromBatch(role, a)
    <2>1. case'[a] = Moved(row, "rejected", Blank) /\ file' = file
      BY <1>9, OneMoved DEF RemoveFromBatch
    <2>2. SameRecords(f, g)
      BY <2>1 DEF SameRecords
    <2> QED
      BY <1>3, <2>1, <2>2, ClosingKeeps DEF Exits
  <1> QED
    BY <1>5, <1>6, <1>7, <1>8, <1>9 DEF ScreeningPage

-----------------------------------------------------------------------------
(* The exam *)

LEMMA AtExam ==
  ASSUME IInv, RecordsKept, NEW a \in ExamPool, NEW role \in Roles, CanManageExam(role, a)
  PROVE  /\ a \in Apps /\ case[a].stage \in {First, Chief} /\ ~case[a].locked
         /\ Place(case[a]) = case[a].stage /\ case[a].caseStatus = "active"
         /\ case[a].stage = First => Level = 1 /\ Verdict(file[a], First) = "qualified"
  <1>1. /\ a \in Apps /\ case[a].caseStatus = "active" /\ AtSection(a, "exam")
        /\ case[a].stage \in ScreeningStages
    BY DEF ExamPool, ActiveUnlocked, CanManageExam
  <1>2. /\ case[a].stage \in {First, Chief} /\ Place(case[a]) = case[a].stage
        /\ ~case[a].locked /\ (case[a].stage = First => Level = 1)
    BY <1>1, RowNow, Open, StageNames
  <1>3. ASSUME case[a].stage = First
        PROVE  Verdict(file[a], First) = "qualified"
    <2>1. SectionOrder["screening"] < SectionOrder["exam"]
      BY DEF SectionOrder
    <2>2. SectionComplete(a, "screening")
      BY <1>1, <1>3, <2>1, StageNames DEF AtSection
    <2>3. Verdict(file[a], First) # Blank
      BY <1>3, <2>2 DEF SectionComplete, Screening, Verdict
    <2>4. Verdict(file[a], First) # "not_qualified"
      BY <1>1, <1>2, <1>3, RowNow DEF RecordsOf, AtFirst
    <2>5. Verdict(file[a], First) \in {Blank, "qualified", "not_qualified"}
      BY <1>1, RowNow, FileParts, StageNames DEF Verdict, ScreeningRecord
    <2> QED
      BY <2>3, <2>4, <2>5
  <1> QED
    BY <1>1, <1>2, <1>3

(* The result goes to the exam of the step; a missed one files an absence  *)
(* unless one is waiting already.                                          *)
LEMMA ExamResultFiled ==
  ASSUME IInv, NEW a \in Apps, NEW s \in {First, Chief}, case[a].stage = s,
         NEW result \in {"completed", "absent", "waived"}
  PROVE  LET f == file[a]
             g == ExamFiled(a, result)
         IN  /\ g.screening = f.screening /\ g.session = f.session
             /\ s = Chief => g.exam[First] = f.exam[First]
             /\ g.absence["interview"] = f.absence["interview"]
             /\ g.absence["examination"] =
                  IF result = "absent" /\ f.absence["examination"] \notin ReviewStages
                    THEN s ELSE f.absence["examination"]
             /\ result # "absent" => g.absence = f.absence
  <1> DEFINE f == file[a]
             exam == [f.exam EXCEPT ![s] = result]
             filed == [f EXCEPT !.exam = exam]
             g == ExamFiled(a, result)
  <1>1. f \in ApplicationFile /\ DOMAIN f.absence = Assessments
    BY FileParts DEF IInv, RecordsOK
  <1>2. s = Chief => exam[First] = f.exam[First]
    BY <1>1, FileParts, StageNames
  <1>3. g = IF result = "absent" THEN WithAbsence(filed, "examination", s) ELSE filed
    BY DEF ExamFiled
  <1> HIDE DEF exam, f, g
  <1>4. /\ filed.screening = f.screening /\ filed.session = f.session
        /\ filed.absence = f.absence /\ filed.exam = exam
        /\ "absence" \in DOMAIN filed
    BY <1>1 DEF ApplicationFile
  <1> HIDE DEF filed
  <1>5. CASE ~(result = "absent" /\ f.absence["examination"] \notin ReviewStages)
    <2>1. g = filed
      BY <1>3, <1>4, <1>5 DEF WithAbsence
    <2> QED
      BY <1>2, <1>4, <1>5, <2>1 DEF f, g
  <1>6. CASE result = "absent" /\ f.absence["examination"] \notin ReviewStages
    <2> DEFINE absence == [f.absence EXCEPT !["examination"] = s]
    <2>1. g = [filed EXCEPT !.absence = absence]
      BY <1>3, <1>4, <1>6 DEF WithAbsence
    <2>2. absence["examination"] = s /\ absence["interview"] = f.absence["interview"]
      BY <1>1 DEF Assessments
    <2> HIDE DEF absence
    <2>3. /\ g.screening = filed.screening /\ g.session = filed.session
          /\ g.exam = filed.exam /\ g.absence = absence
      BY <1>4, <2>1
    <2> QED
      BY <1>2, <1>4, <1>6, <2>2, <2>3 DEF f, g
  <1> QED
    BY <1>5, <1>6

(* A case the Chief goes on with, or closes: its exam there and the exam's *)
(* absence say nothing of it.                                              *)
LEMMA ChiefKeeps ==
  ASSUME NEW row, NEW r, NEW f, NEW g, RecordsOf(row, f),
         row.stage = Chief, Place(row) = Chief, ~row.locked, row.caseStatus = "active",
         Place(r) = Chief, r.stage # First, r.caseStatus \notin {Blank, "awaiting"},
         Verdict(g, First) = Verdict(f, First), Verdict(g, Chief) = Verdict(f, Chief),
         g.exam[First] = f.exam[First], g.session = f.session,
         g.absence["interview"] = f.absence["interview"]
  PROVE  Keeps(row, f, r, g)
  <1>1. Chief # Blank /\ Chief # First /\ Chief # "completion"
    BY DEF Blank, First, Chief
  <1>2. Level = 1 => AtFirst(r, g)
    BY <1>1 DEF RecordsOf, AtFirst
  <1>3. AtChief(r, g)
    BY <1>1 DEF RecordsOf, AtChief
  <1> QED
    BY <1>1, <1>2, <1>3 DEF Keeps, RecordsOf, Scored

(* An exam missed at the Secretariat's step.                               *)
LEMMA MissedAtFirst ==
  ASSUME NEW row, NEW f, NEW g, RecordsOf(row, f), Level = 1,
         row.stage = First, Place(row) = First, row.caseStatus = "active",
         Verdict(f, First) = "qualified",
         Verdict(g, First) = Verdict(f, First), Verdict(g, Chief) = Verdict(f, Chief),
         g.session = f.session, g.absence["interview"] = f.absence["interview"],
         g.absence["examination"] =
           IF f.absence["examination"] \notin ReviewStages
             THEN First ELSE f.absence["examination"]
  PROVE  Keeps(row, f, row, g)
  <1>1. /\ First # Chief /\ First # Blank /\ First # "completion" /\ First \in ReviewStages
        /\ Blank \notin ReviewStages /\ "active" # "awaiting" /\ "active" # Blank
    BY DEF Blank, First, Chief, ReviewStages, ScreeningStages
  <1>2. g.absence["examination"] = First
    BY <1>1 DEF RecordsOf, AtFirst
  <1>3. AtFirst(row, g)
    BY <1>1, <1>2 DEF RecordsOf, AtFirst
  <1>4. AtChief(row, g)
    BY <1>1 DEF RecordsOf, AtChief
  <1> QED
    BY <1>1, <1>3, <1>4 DEF Keeps, RecordsOf, Scored

(* An exam waived there.                                                   *)
LEMMA WaivedAtFirst ==
  ASSUME NEW row, NEW r, NEW f, NEW g, RecordsOf(row, f), Level = 1, Place(row) = First,
         r.stage = "closed", r.caseStatus = "rejected", r.locked, Place(r) = First,
         Verdict(f, First) = "qualified",
         Verdict(g, First) = Verdict(f, First), Verdict(g, Chief) = Verdict(f, Chief),
         g.session = f.session, g.absence = f.absence
  PROVE  Keeps(row, f, r, g)
  <1>1. /\ First # Chief /\ First # Blank /\ First # "completion"
        /\ "closed" # First /\ "rejected" # Blank
    BY DEF Blank, First, Chief
  <1>2. AtFirst(r, g)
    BY <1>1 DEF RecordsOf, AtFirst
  <1>3. AtChief(r, g)
    BY <1>1 DEF RecordsOf, AtChief
  <1> QED
    BY <1>1, <1>2, <1>3 DEF Keeps, RecordsOf, Scored

LEMMA ExamsKeep ==
  ASSUME IInv, RecordsKept, NEW a \in Apps, NEW role \in Roles,
         \/ ScheduleExam(role)
         \/ \E result \in [ExamPool -> {"completed", "absent", "waived"}] :
              FinalizeExams(role, result)
  PROVE  Advances(a)
  <1>1. RecordsOf(case[a], file[a]) /\ file[a] \in ApplicationFile
    BY RowNow
  <1>2. CASE ScheduleExam(role)
    <2>1. /\ case' = case
          /\ file'[a] = file[a] \/ file'[a] = [file[a] EXCEPT !.notified = TRUE]
      BY <1>2 DEF ScheduleExam
    <2>2. SameRecords(file[a], file'[a])
      BY <1>1, <2>1 DEF ApplicationFile, SameRecords, Verdict
    <2> QED
      BY <1>1, <2>1, <2>2, SameKeeps DEF Advances
  <1>3. ASSUME NEW result \in [ExamPool -> {"completed", "absent", "waived"}],
               FinalizeExams(role, result), a \in ExamPool
        PROVE  Advances(a)
    <2> DEFINE f == file[a]
               g == file'[a]
               row == case[a]
               r == case'[a]
               s == row.stage
    <2>1. /\ CanManageExam(role, a) /\ g = ExamFiled(a, result[a])
          /\ r = AfterExamResult(a, result[a])
      BY <1>3 DEF FinalizeExams, Transition
    <2>2. /\ s \in {First, Chief} /\ ~row.locked /\ Place(row) = s
          /\ row.caseStatus = "active"
          /\ s = First => Level = 1 /\ Verdict(f, First) = "qualified"
      BY <1>3, <2>1, AtExam
    <2>3. /\ g.screening = f.screening /\ g.session = f.session
          /\ s = Chief => g.exam[First] = f.exam[First]
          /\ g.absence["interview"] = f.absence["interview"]
          /\ g.absence["examination"] =
               IF result[a] = "absent" /\ f.absence["examination"] \notin ReviewStages
                 THEN s ELSE f.absence["examination"]
          /\ result[a] # "absent" => g.absence = f.absence
      BY <1>3, <2>1, <2>2, ExamResultFiled
    <2>4. Verdict(g, First) = Verdict(f, First) /\ Verdict(g, Chief) = Verdict(f, Chief)
      BY <2>3 DEF Verdict
    <2>5. r \in {row, Moved(row, Chief, "hrm_chief"), Moved(row, "rejected", Blank)}
      BY <1>3, <2>1 DEF AfterExamResult, AfterExam, Chief
    <2>6. CASE s = First /\ result[a] = "completed"
      <3>1. r = Moved(row, Chief, "hrm_chief")
        BY <2>1, <2>6 DEF AfterExamResult, AfterExam, First, Chief
      <3>2. r.stage = Chief /\ r.caseStatus = "active" /\ ~r.locked /\ Place(r) = Chief
        BY <3>1, ToReview, StageNames
      <3> HIDE DEF f, g, row, r
      <3>3. Keeps(row, f, r, g)
        BY <1>1, <2>2, <2>3, <2>4, <2>6, <3>2, ChiefReceives DEF f, row
      <3> QED
        BY <3>3 DEF Advances, f, g, row, r
    <2>7. CASE s = First /\ result[a] = "waived"
      <3>1. r = Moved(row, "rejected", Blank)
        BY <2>1, <2>7 DEF AfterExamResult
      <3>2. r.stage = "closed" /\ r.caseStatus = "rejected" /\ r.locked /\ Place(r) = First
        BY <2>7, <3>1, ToClosed DEF Exits
      <3> HIDE DEF f, g, row, r
      <3>3. Keeps(row, f, r, g)
        BY <1>1, <2>2, <2>3, <2>4, <2>7, <3>2, WaivedAtFirst DEF f, row
      <3> QED
        BY <3>3 DEF Advances, f, g, row, r
    <2>8. CASE s = First /\ result[a] = "absent"
      <3>1. r = row
        BY <2>1, <2>8 DEF AfterExamResult
      <3> HIDE DEF f, g, row, r
      <3>2. Keeps(row, f, row, g)
        BY <1>1, <2>2, <2>3, <2>4, <2>8, MissedAtFirst DEF f, row
      <3> QED
        BY <3>1, <3>2 DEF Advances, f, g, row, r
    <2>9. CASE s = Chief
      <3>1. /\ Place(r) = Chief /\ r.stage # First
            /\ r.caseStatus \notin {Blank, "awaiting"}
        <4>1. CASE r = row
          BY <2>2, <2>9, <4>1, StageNames DEF Blank
        <4>2. CASE r = Moved(row, Chief, "hrm_chief")
          BY <4>2, ToReview, StageNames DEF Blank
        <4>3. CASE r = Moved(row, "rejected", Blank)
          BY <2>9, <4>3, ToClosed, StageNames DEF Exits, Blank
        <4> QED
          BY <2>5, <4>1, <4>2, <4>3
      <3> HIDE DEF f, g, row, r
      <3>2. Keeps(row, f, r, g)
        BY <1>1, <2>2, <2>3, <2>4, <2>9, <3>1, ChiefKeeps DEF f, row
      <3> QED
        BY <3>2 DEF Advances, f, g, row, r
    <2> QED
      BY <1>3, <2>2, <2>6, <2>7, <2>8, <2>9
  <1>4. ASSUME NEW result \in [ExamPool -> {"completed", "absent", "waived"}],
               FinalizeExams(role, result), a \notin ExamPool
        PROVE  Advances(a)
    BY <1>4, Untouched DEF FinalizeExams, Transition
  <1> QED
    BY <1>2, <1>3, <1>4

(* The maintenance command: what it moves on was screened.                 *)
LEMMA RepairKeeps ==
  ASSUME IInv, RecordsKept, NEW a \in Apps, Repair({})
  PROVE  Advances(a)
  <1> DEFINE examined == {b \in Apps : /\ ActiveUnlocked(b)
                                       /\ LeavesAfterExam(case[b].stage)
                                       /\ Exam(b) # "open"}
             f == file[a]
             row == case[a]
             r == case'[a]
  <1>1. /\ file' = file
        /\ r = IF a \in examined THEN AfterExam(a) ELSE row
    BY DEF Repair, Transition
  <1>2. CASE a \in examined
    <2>1. /\ row.caseStatus = "active" /\ row.stage = First
          /\ f.exam[First] # "open"
      BY <1>2 DEF ActiveUnlocked, LeavesAfterExam, Exam, First
    <2>2. Place(row) = First /\ Level = 1
      BY <2>1, RowNow, Open
    <2>3. RecordsOf(row, f) /\ Verdict(f, First) = "qualified"
      BY <2>1, <2>2, RowNow DEF RecordsOf, AtFirst
    <2>4. r = Moved(row, Chief, "hrm_chief")
      BY <1>1, <1>2, <2>1 DEF AfterExam, First, Chief
    <2>5. r.stage = Chief /\ r.caseStatus = "active" /\ ~r.locked /\ Place(r) = Chief
      BY <2>4, ToReview, StageNames
    <2> HIDE DEF examined, f, row, r
    <2>6. Keeps(row, f, r, f)
      BY <2>2, <2>3, <2>5, ChiefReceives
    <2> QED
      BY <1>1, <2>6 DEF Advances, f, row, r
  <1>3. CASE a \notin examined
    BY <1>1, <1>3, Untouched
  <1> QED
    BY <1>2, <1>3

-----------------------------------------------------------------------------
(* The interview *)

LEMMA AtInterview ==
  ASSUME IInv, RecordsKept, NEW a \in InterviewPool
  PROVE  /\ a \in Apps /\ case[a].stage = Chief /\ case[a].caseStatus = "active"
         /\ Place(case[a]) = Chief /\ ~case[a].locked
         /\ Verdict(file[a], Chief) # Blank
         /\ RecordsOf(case[a], file[a]) /\ file[a] \in ApplicationFile
  <1>1. /\ a \in Apps /\ case[a].stage = Chief /\ case[a].caseStatus = "active"
        /\ AtSection(a, "interview")
    BY DEF InterviewPool, InterviewStage, ActiveUnlocked, Chief
  <1>2. SectionOrder["screening"] < SectionOrder["interview"]
    BY DEF SectionOrder
  <1>3. SectionComplete(a, "screening")
    BY <1>1, <1>2, StageNames DEF AtSection
  <1> QED
    BY <1>1, <1>3, RowNow, Open DEF SectionComplete, Screening, Verdict

(* What may happen to a session of somebody screened.                      *)
LEMMA SessionKeeps ==
  ASSUME NEW row, NEW f, NEW g, RecordsOf(row, f),
         row.stage = Chief, Place(row) = Chief,
         Verdict(f, Chief) # Blank,
         g.screening = f.screening, g.exam = f.exam,
         g.absence["examination"] = f.absence["examination"],
         g.session.state = "final" =>
           g.session.ratings = IF g.session.absent THEN "none" ELSE "quorum",
         g.session.state = "final" /\ g.session.absent => g.absence["interview"] = Chief,
         g.absence["interview"] \in {f.absence["interview"], Chief},
         f.session.ratings = "quorum" =>
           /\ g.session.ratings = "quorum"
           /\ g.absence["interview"] = f.absence["interview"]
  PROVE  Keeps(row, f, row, g)
  <1>1. Chief # "completion" /\ Verdict(g, First) = Verdict(f, First)
          /\ Verdict(g, Chief) = Verdict(f, Chief)
    BY DEF Chief, Verdict
  <1>2. Level = 1 => AtFirst(row, g)
    BY <1>1 DEF RecordsOf, AtFirst
  <1>3. AtChief(row, g)
    BY <1>1 DEF RecordsOf, AtChief
  <1> QED
    BY <1>1, <1>2, <1>3 DEF Keeps, RecordsOf, Scored

(* A session that stays open.                                              *)
LEMMA OpenSessionKeeps ==
  ASSUME IInv, RecordsKept, NEW a \in InterviewPool, case'[a] = case[a],
         NEW session, file'[a] = [file[a] EXCEPT !.session = session],
         session.state # "final",
         file[a].session.ratings = "quorum" => session.ratings = "quorum"
  PROVE  Advances(a)
  <1> DEFINE f == file[a]
             g == file'[a]
             row == case[a]
  <1>1. /\ row.stage = Chief /\ Place(row) = Chief /\ RecordsOf(row, f)
        /\ Verdict(f, Chief) # Blank /\ f \in ApplicationFile
    BY AtInterview
  <1>2. /\ g.screening = f.screening /\ g.exam = f.exam /\ g.session = session
        /\ g.absence = f.absence
    BY <1>1 DEF ApplicationFile
  <1>3. f.session.ratings = "quorum" => session.ratings = "quorum"
    OBVIOUS
  <1> HIDE DEF f, g, row
  <1>4. Keeps(row, f, row, g)
    BY <1>1, <1>2, <1>3, SessionKeeps
  <1> QED
    BY <1>4 DEF Advances, f, g, row

(* A session finalized on its scores, or on an absence nobody scored.      *)
LEMMA FinalSessionKeeps ==
  ASSUME IInv, RecordsKept, NEW a \in InterviewPool, case'[a] = case[a],
         file'[a] = SessionFinal(a, file[a].session.absent),
         file[a].session.ratings = IF file[a].session.absent THEN "none" ELSE "quorum"
  PROVE  Advances(a)
  <1> DEFINE f == file[a]
             g == file'[a]
             row == case[a]
             absent == f.session.absent
             session == [f.session EXCEPT !.state = "final", !.absent = absent]
             closed == [f EXCEPT !.session = session]
  <1>1. /\ row.stage = Chief /\ Place(row) = Chief /\ RecordsOf(row, f)
        /\ Verdict(f, Chief) # Blank /\ f \in ApplicationFile
    BY AtInterview
  <1>2. /\ session.state = "final" /\ session.absent = absent
        /\ session.ratings = f.session.ratings
        /\ DOMAIN f.absence = Assessments /\ absent \in BOOLEAN
    BY <1>1, FileParts DEF InterviewSession
  <1>3. g = IF absent THEN WithAbsence(closed, "interview", Chief) ELSE closed
    BY <1>1 DEF SessionFinal, ApplicationFile, Chief
  <1>4. f.absence["interview"] \in {Blank, "decided", Chief}
    BY <1>1 DEF RecordsOf, AtChief
  <1>5. f.session.ratings = IF absent THEN "none" ELSE "quorum"
    OBVIOUS
  <1>6. Chief \in ReviewStages /\ Blank \notin ReviewStages /\ "decided" \notin ReviewStages
    BY DEF Chief, ReviewStages, ScreeningStages, Blank
  <1> HIDE DEF session, g, row, absent
  <1>7. /\ closed.screening = f.screening /\ closed.exam = f.exam
        /\ closed.session = session /\ closed.absence = f.absence
        /\ "absence" \in DOMAIN closed
    BY <1>1 DEF ApplicationFile
  <1> HIDE DEF closed, f
  <1>8. /\ g.screening = f.screening /\ g.exam = f.exam /\ g.session = session
        /\ g.absence["examination"] = f.absence["examination"]
        /\ g.absence["interview"] = IF absent THEN Chief ELSE f.absence["interview"]
    <2>1. CASE ~absent \/ f.absence["interview"] = Chief
      <3>1. g = closed
        BY <1>3, <1>6, <1>7, <2>1 DEF WithAbsence
      <3> QED
        BY <1>7, <2>1, <3>1
    <2>2. CASE absent /\ f.absence["interview"] # Chief
      <3> DEFINE absence == [f.absence EXCEPT !["interview"] = Chief]
      <3>1. g = [closed EXCEPT !.absence = absence]
        BY <1>3, <1>4, <1>6, <1>7, <2>2 DEF WithAbsence
      <3>2. absence["interview"] = Chief
              /\ absence["examination"] = f.absence["examination"]
        BY <1>2 DEF Assessments
      <3> HIDE DEF absence
      <3>3. /\ g.screening = closed.screening /\ g.exam = closed.exam
            /\ g.session = closed.session /\ g.absence = absence
        BY <1>7, <3>1
      <3> QED
        BY <1>7, <2>2, <3>2, <3>3
    <2> QED
      BY <2>1, <2>2
  <1>9. Keeps(row, f, row, g)
    BY <1>1, <1>2, <1>5, <1>8, SessionKeeps
  <1> QED
    BY <1>9 DEF Advances, f, g, row

LEMMA InterviewsKeep ==
  ASSUME IInv, RecordsKept, NEW a \in Apps, NEW role \in Roles, InterviewConsole(role)
  PROVE  Advances(a)
  <1> DEFINE f == file[a]
  <1>1. f \in ApplicationFile
    BY RowNow
  <1>2. CASE a \notin InterviewPool
    <2>1. case' = case /\ file'[a] = file[a]
      BY <1>2 DEF InterviewConsole, ScheduleInterviews, FinalizeInterviews, SaveCosScores
    <2> QED
      BY <2>1, Untouched
  <1>3. CASE a \in InterviewPool /\ ScheduleInterviews(role)
    <2> DEFINE session == [f.session EXCEPT !.state = "open"]
    <2>1. session.state = "open" /\ session.ratings = f.session.ratings
      BY <1>1, FileParts DEF InterviewSession
    <2>2. case' = case /\ file'[a] = [f EXCEPT !.session = session]
      BY <1>1, <1>3 DEF ScheduleInterviews, ApplicationFile
    <2> HIDE DEF session
    <2> QED
      BY <1>3, <2>1, <2>2, OpenSessionKeeps
  <1>4. CASE a \in InterviewPool /\ FinalizeInterviews(role)
    BY <1>4, FinalSessionKeeps DEF FinalizeInterviews, Session
  <1>5. ASSUME NEW scored \in SUBSET Apps, NEW absent \in SUBSET Apps,
               SaveCosScores(role, scored, absent), a \in InterviewPool
        PROVE  Advances(a)
    <2>1. case' = case
      BY <1>5 DEF SaveCosScores
    <2>2. CASE a \in scored
      <3> DEFINE session == [f.session EXCEPT !.absent = FALSE, !.ratings = "quorum"]
      <3>1. f.session.state = "open"
              /\ file'[a] = [f EXCEPT !.session.absent = FALSE, !.session.ratings = "quorum"]
        BY <1>5, <2>2 DEF SaveCosScores, Session
      <3>2. [f EXCEPT !.session.absent = FALSE, !.session.ratings = "quorum"]
              = [f EXCEPT !.session = session]
        BY <1>1 DEF ApplicationFile
      <3>3. session.state = "open" /\ session.ratings = "quorum"
        BY <1>1, <3>1, FileParts DEF InterviewSession
      <3> HIDE DEF session
      <3> QED
        BY <1>5, <2>1, <3>1, <3>2, <3>3, OpenSessionKeeps
    <2>3. CASE a \in absent
      <3> DEFINE session == [f.session EXCEPT !.absent = TRUE]
      <3>1. /\ f.session.state = "open" /\ a \notin scored
            /\ file'[a] = [f EXCEPT !.session = session]
        BY <1>1, <1>5, <2>3 DEF SaveCosScores, Session, ApplicationFile
      <3>2. session.state = "open" /\ session.ratings = f.session.ratings
        BY <1>1, <3>1, FileParts DEF InterviewSession
      <3> HIDE DEF session
      <3> QED
        BY <1>5, <2>1, <3>1, <3>2, OpenSessionKeeps
    <2>4. CASE a \notin scored \cup absent
      <3>1. file'[a] = f
        BY <1>5, <2>4 DEF SaveCosScores
      <3> QED
        BY <2>1, <3>1, Untouched
    <2> QED
      BY <2>2, <2>3, <2>4
  <1> QED
    BY <1>2, <1>3, <1>4, <1>5 DEF InterviewConsole

-----------------------------------------------------------------------------
(* Absences *)

(* Only who processes a COS case decides its absences.                     *)
LEMMA AbsenceOpen ==
  ASSUME IInv, RecordsKept, NEW a \in Apps, NEW role \in Roles, NEW k \in Assessments,
         CanManageAbsence(role, a, k)
  PROVE  /\ case[a].caseStatus \in {"active", "awaiting"}
         /\ ~case[a].locked /\ Place(case[a]) = case[a].stage
         /\ RecordsOf(case[a], file[a]) /\ file[a] \in ApplicationFile
         /\ DOMAIN file[a].absence = Assessments
  BY ProcessedAt, RowNow, FileParts DEF CanManageAbsence

LEMMA EndingKeeps ==
  ASSUME IInv, RecordsKept, NEW a \in Apps, NEW role \in Roles, NEW k \in Assessments,
         EndAfterAbsence(role, a, k)
  PROVE  Advances(a)
  <1> DEFINE f == file[a]
             g == file'[a]
             row == case[a]
             r == case'[a]
             absence == [f.absence EXCEPT ![k] = AbsenceDecided(k)]
  <1>1. /\ g = [f EXCEPT !.absence = absence]
        /\ r = Moved(row, "rejected", Blank)
        /\ CanManageAbsence(role, a, k)
    BY OneMoved, RowNow DEF EndAfterAbsence
  <1>2. /\ row.caseStatus \in {"active", "awaiting"} /\ ~row.locked
        /\ Place(row) = row.stage /\ RecordsOf(row, f) /\ f \in ApplicationFile
        /\ DOMAIN f.absence = Assessments
    BY <1>1, AbsenceOpen
  <1>3. /\ r.stage = "closed" /\ r.caseStatus = "rejected" /\ r.locked
        /\ Place(r) = row.stage
    BY <1>1, ToClosed DEF Exits
  <1>4. /\ absence["examination"] \in {f.absence["examination"], Blank}
        /\ absence["interview"] \in {f.absence["interview"], "decided"}
    BY <1>2 DEF Assessments, AbsenceDecided
  <1>5. "rejected" \in Exits \cup {"approved"}
    BY DEF Exits
  <1> HIDE DEF absence
  <1>6. /\ g.absence = absence /\ g.screening = f.screening /\ g.exam = f.exam
        /\ g.session = f.session
    BY <1>1, <1>2 DEF ApplicationFile
  <1>7. Verdict(g, First) = Verdict(f, First) /\ Verdict(g, Chief) = Verdict(f, Chief)
    BY <1>6 DEF Verdict
  <1> HIDE DEF f, g, row, r
  <1>8. Keeps(row, f, r, g)
    BY <1>2, <1>3, <1>4, <1>5, <1>6, <1>7, ClosedKeeps
  <1> QED
    BY <1>8 DEF Advances, f, g, row, r

LEMMA ExamRescheduled ==
  ASSUME IInv, RecordsKept, NEW a \in Apps, NEW role \in Roles,
         RescheduleAbsentee(role, a, "examination")
  PROVE  Advances(a)
  <1> DEFINE f == file[a]
             g == file'[a]
             row == case[a]
             missed == f.absence["examination"]
             exam == [f.exam EXCEPT ![missed] = "open"]
             absence == [f.absence EXCEPT !["examination"] = Blank]
  <1>1. RecordsOf(row, f) /\ f \in ApplicationFile /\ DOMAIN f.absence = Assessments
    BY RowNow, FileParts
  <1>2. /\ g = [[f EXCEPT !.exam = exam] EXCEPT !.absence = absence] /\ case' = case
    <2>1. SittingReopened(a, "examination") = [f EXCEPT !.exam = exam]
      BY DEF SittingReopened
    <2>2. g = [SittingReopened(a, "examination") EXCEPT
                        !.absence["examination"] = AbsenceDecided("examination")]
      BY RowNow DEF RescheduleAbsentee
    <2>3. [f EXCEPT !.exam = exam].absence = f.absence
      BY <1>1 DEF ApplicationFile
    <2> HIDE DEF exam
    <2> QED
      BY <2>1, <2>2, <2>3 DEF RescheduleAbsentee, AbsenceDecided
  <1>3. /\ exam[First] = IF missed = First THEN "open" ELSE f.exam[First]
        /\ absence["examination"] = Blank
        /\ absence["interview"] = f.absence["interview"]
    BY <1>1, FileParts, StageNames DEF Assessments
  <1> HIDE DEF exam, absence, missed
  <1>4. /\ g.exam = exam /\ g.absence = absence
        /\ g.screening = f.screening /\ g.session = f.session
    BY <1>1, <1>2 DEF ApplicationFile
  <1>5. Verdict(g, First) = Verdict(f, First) /\ Verdict(g, Chief) = Verdict(f, Chief)
    BY <1>4 DEF Verdict
  <1> HIDE DEF f, g, row
  <1>6. Level = 1 => AtFirst(row, g)
    BY <1>1, <1>3, <1>4, <1>5 DEF RecordsOf, AtFirst, missed
  <1>7. AtChief(row, g)
    BY <1>1, <1>3, <1>4, <1>5 DEF RecordsOf, AtChief
  <1>8. Keeps(row, f, row, g)
    BY <1>1, <1>3, <1>4, <1>5, <1>6, <1>7 DEF Keeps, RecordsOf, Scored
  <1> QED
    BY <1>2, <1>8 DEF Advances, f, g, row

LEMMA InterviewRescheduled ==
  ASSUME IInv, RecordsKept, NEW a \in Apps, NEW role \in Roles,
         RescheduleAbsentee(role, a, "interview")
  PROVE  Advances(a)
  <1> DEFINE f == file[a]
             g == file'[a]
             row == case[a]
             session == [f.session EXCEPT !.state = IF @ = Blank THEN Blank ELSE "open",
                                          !.absent = FALSE]
             absence == [f.absence EXCEPT !["interview"] = "decided"]
  <1>1. RecordsOf(row, f) /\ f \in ApplicationFile /\ DOMAIN f.absence = Assessments
    BY RowNow, FileParts
  <1>2. f.absence["interview"] = Chief
    BY <1>1 DEF RescheduleAbsentee, RecordsOf, AtChief, ReviewStages, ScreeningStages, Blank
  <1>3. /\ g = [[f EXCEPT !.session = session] EXCEPT !.absence = absence] /\ case' = case
    <2>1. SittingReopened(a, "interview") = [f EXCEPT !.session = session]
      BY <1>1 DEF SittingReopened, ApplicationFile
    <2>2. g = [SittingReopened(a, "interview") EXCEPT
                 !.absence["interview"] = AbsenceDecided("interview")]
      BY RowNow DEF RescheduleAbsentee
    <2>3. [f EXCEPT !.session = session].absence = f.absence
      BY <1>1 DEF ApplicationFile
    <2> HIDE DEF session
    <2> QED
      BY <2>1, <2>2, <2>3 DEF RescheduleAbsentee, AbsenceDecided
  <1>4. /\ session.state # "final" /\ absence["interview"] = "decided"
        /\ absence["examination"] = f.absence["examination"]
    BY <1>1, FileParts DEF Assessments, InterviewSession, Blank
  <1> HIDE DEF session, absence
  <1>5. /\ g.session = session /\ g.absence = absence
        /\ g.screening = f.screening /\ g.exam = f.exam
    BY <1>1, <1>3 DEF ApplicationFile
  <1>6. Verdict(g, First) = Verdict(f, First) /\ Verdict(g, Chief) = Verdict(f, Chief)
    BY <1>5 DEF Verdict
  <1> HIDE DEF f, g, row
  <1>7. Level = 1 => AtFirst(row, g)
    BY <1>1, <1>4, <1>5, <1>6 DEF RecordsOf, AtFirst
  <1>8. AtChief(row, g)
    BY <1>1, <1>2, <1>4, <1>5, <1>6 DEF RecordsOf, AtChief
  <1>9. Keeps(row, f, row, g)
    BY <1>1, <1>2, <1>6, <1>7, <1>8 DEF Keeps, RecordsOf, Scored
  <1> QED
    BY <1>3, <1>9 DEF Advances, f, g, row

-----------------------------------------------------------------------------
(* The other operations of a case *)

LEMMA SubmissionKeeps ==
  ASSUME IInv, RecordsKept, NEW a \in Apps, SubmitApplication(a)
  PROVE  Advances(a)
  <1> DEFINE f == file[a]
             row == case[a]
             r == case'[a]
             s == IntakeStage(Level)
  <1>1. row = DraftCase /\ RecordsOf(row, f)
    BY RowNow DEF SubmitApplication, Submitted, GoodRows, RowAligned
  <1>2. Place(row) = Blank /\ row.caseStatus = Blank
    BY <1>1 DEF DraftCase, Place
  <1>3. s \in {First, Chief} /\ (Level = 1 => s = First)
    BY StageNames
  <1>4. StatusForStage(s) = s /\ s \in ReviewStages
    BY <1>3, StageNames DEF StatusForStage
  <1>5. r = Moved(row, s, LevelOwner(Level)) /\ file' = file
    BY <1>4, OneMoved DEF SubmitApplication
  <1>6. r.stage = s /\ r.caseStatus = "active" /\ ~r.locked /\ Place(r) = s
    BY <1>4, <1>5, ToReview
  <1>7. /\ Blank # "qualified" /\ Blank # "not_qualified" /\ Blank \notin {"active", "awaiting"}
        /\ Blank # "completion"
    BY DEF Blank
  <1> HIDE DEF f, r, row, s
  <1>8. Verdict(f, First) = Blank /\ Verdict(f, Chief) = Blank
    BY <1>1, <1>2 DEF RecordsOf
  <1>9. Level = 1 => AtFirst(r, f)
    BY <1>1, <1>2, <1>3, <1>6, <1>7, <1>8 DEF RecordsOf, AtFirst
  <1>10. AtChief(r, f)
    BY <1>1, <1>3, <1>6, <1>8, StageNames DEF RecordsOf, AtChief
  <1>11. Keeps(row, f, r, f)
    BY <1>2, <1>6, <1>7, <1>9, <1>10, StageNames DEF Keeps, RecordsOf, Scored
  <1> QED
    BY <1>5, <1>11 DEF Advances, f, r, row

LEMMA ResubmissionKeeps ==
  ASSUME IInv, RecordsKept, NEW a \in Apps, SubmitDocumentResubmission(a)
  PROVE  Advances(a)
  <1> DEFINE f == file[a]
             g == file'[a]
             row == case[a]
             r == case'[a]
             s == row.stage
             record == [verdict |-> Blank, flagged |-> FALSE]
  <1>1. RecordsOf(row, f) /\ row.caseStatus = "awaiting" /\ row \in GoodRows
    BY RowNow DEF SubmitDocumentResubmission
  <1>2. /\ s \in {First, Chief} /\ Place(row) = s /\ ~row.locked
        /\ s = First => Level = 1
    BY <1>1, Open
  <1>3. Verdict(f, s) = Blank
    BY <1>1, <1>2 DEF RecordsOf, AtFirst, AtChief
  <1>4. StatusForStage(s) = s /\ s \in ReviewStages
    BY <1>2, StageNames DEF StatusForStage
  <1>5. r = Moved(row, s, row.handler)
    BY <1>4, OneMoved DEF SubmitDocumentResubmission
  <1>6. r.stage = s /\ r.caseStatus = "active" /\ ~r.locked /\ Place(r) = s
    BY <1>4, <1>5, ToReview
  <1>7. file' = [file EXCEPT ![a] = [f EXCEPT !.screening =
                   [f.screening EXCEPT ![s] = record]]]
    BY DEF SubmitDocumentResubmission
  <1>8. record.verdict = Blank
    OBVIOUS
  <1> HIDE DEF record
  <1>9. SameRecords(f, g)
    BY <1>2, <1>3, <1>7, <1>8, SameVerdict
  <1> HIDE DEF f, g, row, r
  <1>10. Keeps(row, f, r, g)
    BY <1>1, <1>2, <1>3, <1>6, <1>9, BetweenKeeps
  <1> QED
    BY <1>10 DEF Advances, f, g, row, r

LEMMA OfficeKeeps ==
  ASSUME IInv, RecordsKept, NEW a \in Apps, NEW role \in Roles, OfficeStep(role, a)
  PROVE  Advances(a)
  <1>1. RecordsOf(case[a], file[a]) /\ file[a] \in ApplicationFile
          /\ SameRecords(file[a], file[a])
    BY RowNow DEF SameRecords
  <1>2. CASE RecordWithdrawal(role, a)
    <2>1. /\ case[a].caseStatus \in {"active", "awaiting"}
          /\ case'[a] = Moved(case[a], "withdrawn", Blank) /\ file' = file
      BY <1>2, OneMoved DEF RecordWithdrawal, CanRecordWithdrawal, InFlight
    <2> QED
      BY <1>1, <2>1, ClosingKeeps DEF Exits
  <1>3. CASE CloseCase(role, a)
    <2>1. /\ case[a].caseStatus \in {"active", "awaiting"}
          /\ case'[a] = Moved(case[a], "approved", Blank) /\ file' = file
      BY <1>3, OneMoved, ProcessedAt DEF CloseCase, CanManageCompletion
    <2> QED
      BY <1>1, <2>1, ClosingKeeps
  <1>4. ASSUME NEW value \in {"tracked", "referenced", "ready"}, SaveCompletion(role, a, value)
        PROVE  Advances(a)
    <2>1. case' = case /\ file'[a] = [file[a] EXCEPT !.completion = value]
      BY <1>4, RowNow DEF SaveCompletion
    <2>2. SameRecords(file[a], file'[a])
      BY <1>1, <2>1, SameParts DEF ApplicationFile
    <2> QED
      BY <1>1, <2>1, <2>2, SameKeeps DEF Advances
  <1>5. ASSUME NEW k \in Assessments, RescheduleAbsentee(role, a, k)
        PROVE  Advances(a)
    BY <1>5, ExamRescheduled, InterviewRescheduled DEF Assessments
  <1> QED
    BY <1>2, <1>3, <1>4, <1>5, ScreeningKeeps, EndingKeeps
    DEF OfficeStep, AbsencePage, CompletionPage, RateInterview

(* A case that changes hands at intake.                                    *)
LEMMA HandingKeeps ==
  ASSUME IInv, RecordsKept, NEW a \in Apps, NEW role,
         case[a].caseStatus \in {"active", "awaiting"}, case[a].stage = IntakeStage(Level),
         case'[a] = Moved(case[a], case[a].status, role), file'[a] = file[a]
  PROVE  Advances(a)
  <1> DEFINE f == file[a]
             row == case[a]
             r == case'[a]
  <1>1. /\ RecordsOf(row, f) /\ row \in GoodRows /\ row \in CaseRow
        /\ ~row.locked /\ Place(row) = row.stage /\ row.stage \in ReviewStages
    BY RowNow, Open, StageNames
  <1>2. /\ row.caseStatus = "active" => row.status = row.stage
        /\ row.caseStatus = "awaiting" => row.status = "returned"
    BY <1>1, OpenCase, AwaitingStatus
  <1>3. /\ r.stage = row.stage /\ r.caseStatus = row.caseStatus
        /\ ~r.locked /\ Place(r) = Place(row)
    BY <1>1, <1>2, ToReview, ToApplicant
  <1>4. SameRecords(f, f)
    BY DEF SameRecords
  <1> HIDE DEF f, row, r
  <1>5. Keeps(row, f, r, f)
    BY <1>1, <1>3, <1>4, StayKeeps DEF row
  <1> QED
    BY <1>5 DEF Advances, f, row, r

LEMMA LoansKeep ==
  ASSUME IInv, RecordsKept, NEW a \in Apps,
         \/ \E role \in Roles : HandOffPage(role)
         \/ \E b \in Apps : GrantOverride(b)
  PROVE  Advances(a)
  <1>1. ASSUME NEW sent \in SUBSET Apps, NEW role, file' = file,
               Transition([b \in sent |-> Moved(case[b], case[b].status, role)]),
               a \in sent => /\ case[a].caseStatus \in {"active", "awaiting"}
                             /\ case[a].stage = IntakeStage(Level)
        PROVE  Advances(a)
    <2>1. CASE a \in sent
      BY <1>1, <2>1, HandingKeeps DEF Transition
    <2>2. CASE a \notin sent
      BY <1>1, <2>2, Untouched DEF Transition
    <2> QED
      BY <2>1, <2>2
  <1>2. ASSUME NEW role \in Roles, HandOffBatch(role)
        PROVE  Advances(a)
    BY <1>1, <1>2 DEF HandOffBatch, BatchHeldBy, SendToOtherOffice, Loanable
  <1>3. ASSUME NEW role \in Roles, RecallBatch(role)
        PROVE  Advances(a)
    BY <1>1, <1>3 DEF RecallBatch, LoanedOut, Loanable
  <1>4. ASSUME NEW b \in Apps, GrantOverride(b)
        PROVE  Advances(a)
    <2>1. /\ Transition([c \in {b} |-> Moved(case[c], case[c].status,
                                             OtherOffice("hrm_chief"))])
          /\ file' = file /\ case[b].status = "hrm_chief_review"
          /\ case[b].stage = "hrm_chief_review" /\ Level = 2
      BY <1>4 DEF GrantOverride, SendToOtherOffice
    <2>2. case[b].stage = IntakeStage(Level)
      BY <2>1 DEF IntakeStage
    <2>3. case[b].caseStatus = "active"
      BY <2>1, RowNow DEF GoodRows, RowAligned, InReview, ReviewStages, ScreeningStages
    <2> QED
      BY <1>1, <2>1, <2>2, <2>3
  <1> QED
    BY <1>2, <1>3, <1>4 DEF HandOffPage

(* Somebody the Chief has again, with the session open to more scores.     *)
LEMMA ChiefAgain ==
  ASSUME NEW row, NEW r, NEW f, NEW g, RecordsOf(row, f), Place(row) = Chief,
         r.stage = Chief, r.caseStatus = "active", ~r.locked, Place(r) = Chief,
         Verdict(g, First) = Verdict(f, First), g.exam[First] = f.exam[First],
         g.session.state # "final", g.session.ratings = f.session.ratings,
         g.absence = f.absence
  PROVE  Keeps(row, f, r, g)
  <1>1. /\ First # Chief /\ Chief # Blank /\ Chief # "completion" /\ Blank # "active"
    BY DEF Blank, First, Chief
  <1>2. Level = 1 => AtFirst(r, g)
    BY <1>1 DEF RecordsOf, AtFirst
  <1>3. AtChief(r, g)
    BY <1>1 DEF RecordsOf, AtChief
  <1> QED
    BY <1>1, <1>2, <1>3 DEF Keeps, RecordsOf, Scored

(* Somebody the Chief has again who was scored, as it was scored.          *)
LEMMA ScoredAgain ==
  ASSUME NEW row, NEW r, NEW f, NEW g, RecordsOf(row, f), SameRecords(f, g), Scored(row, f),
         r.stage = Chief, r.caseStatus = "active", ~r.locked, Place(r) = Chief
  PROVE  Keeps(row, f, r, g)
  <1>1. /\ First # Chief /\ Chief # Blank /\ Chief # "completion" /\ Blank # "active"
        /\ First # "completion" /\ Blank # "completion"
    BY DEF Blank, First, Chief
  <1>2. Level = 1 => AtFirst(r, g)
    BY <1>1 DEF RecordsOf, AtFirst, SameRecords, Scored
  <1>3. AtChief(r, g)
    BY <1>1 DEF RecordsOf, AtChief, SameRecords, Scored
  <1> QED
    BY <1>1, <1>2, <1>3 DEF Keeps, RecordsOf, Scored, SameRecords

(* A reopened case has the last record of its step opened again.           *)
LEMMA ReopeningKeeps ==
  ASSUME IInv, RecordsKept, NEW a \in Apps, Reopen(a, Selected)
  PROVE  Advances(a)
  <1> DEFINE f == file[a]
             g == file'[a]
             row == case[a]
             r == case'[a]
             stage == row.lockedStage
             record == [f.screening[stage] EXCEPT !.verdict = Blank]
  <1>1. /\ RecordsOf(row, f) /\ row.locked /\ stage \in StepStages(Branch, Level)
        /\ f \in ApplicationFile
    BY RowNow, LockedRow DEF Reopen, CanReopen
  <1>2. /\ Place(row) = stage /\ stage \in {First, Chief, "completion"}
        /\ stage = First => Level = 1
    BY <1>1, StageNames DEF Place
  <1>3. r = Moved(row, StatusForStage(stage), StageOwner(stage, Level))
          /\ g = CorrectedAt(a, stage)
    BY OneMoved, RowNow DEF Reopen
  <1>4. r.stage = stage /\ r.caseStatus = "active" /\ ~r.locked /\ Place(r) = stage
    <2>1. CASE stage = "completion"
      <3>1. StatusForStage(stage) = "approved" /\ StageOwner(stage, Level) # Blank
        BY <2>1 DEF StatusForStage, StageOwner, CompletionOwner, ReviewStages,
                    ScreeningStages, Blank
      <3> QED
        BY <1>3, <2>1, <3>1, ToCompletion
    <2>2. CASE stage \in {First, Chief}
      <3>1. stage \in ReviewStages /\ StatusForStage(stage) = stage
        BY <2>2, StageNames DEF StatusForStage
      <3> QED
        BY <1>3, <3>1, ToReview
    <2> QED
      BY <1>2, <2>1, <2>2
  <1>5. ASSUME stage \in {First, Chief},
               file' = [file EXCEPT ![a] = [f EXCEPT !.screening =
                          [f.screening EXCEPT ![stage] = record]]]
        PROVE  /\ Verdict(g, stage) = Blank
               /\ \A t \in {First, Chief} : t # stage => Verdict(g, t) = Verdict(f, t)
               /\ g.exam = f.exam /\ g.session = f.session /\ g.absence = f.absence
    <2>1. record.verdict = Blank
      BY <1>1, <1>5, FileParts, StageNames DEF ScreeningRecord
    <2> HIDE DEF record
    <2> QED
      BY <1>5, <2>1, ScreeningEdit
  <1>6. CASE stage = First
    <2>1. /\ "interview" \notin SectionsAt(Branch, stage) /\ "exam" \in SectionsAt(Branch, stage)
          /\ Level = 1
      BY <1>2, <1>6, StageNames
    <2>2. CASE f.exam[First] # "open"
      <3> DEFINE exam == [f.exam EXCEPT ![First] = "open"]
      <3>1. exam[First] = "open"
        BY <1>1, FileParts, StageNames
      <3>2. g = [f EXCEPT !.exam = exam]
        BY <1>3, <1>6, <2>1, <2>2 DEF CorrectedAt
      <3> HIDE DEF exam
      <3>3. g.exam = exam /\ g.screening = f.screening /\ g.session = f.session
              /\ g.absence = f.absence
        BY <1>1, <3>2 DEF ApplicationFile
      <3>4. /\ Verdict(f, First) = "qualified" /\ Verdict(g, First) = Verdict(f, First)
            /\ Verdict(g, Chief) = Verdict(f, Chief)
        BY <1>1, <2>1, <2>2, <3>3 DEF RecordsOf, AtFirst, Verdict
      <3> HIDE DEF f, g, row, r, stage
      <3>5. AtFirst(r, g)
        BY <1>1, <1>2, <1>4, <1>6, <2>1, <3>1, <3>3, <3>4, StageNames DEF RecordsOf, AtFirst
      <3>6. AtChief(r, g)
        BY <1>1, <1>2, <1>4, <1>6, <3>3, <3>4, StageNames DEF RecordsOf, AtChief
      <3>7. Keeps(row, f, r, g)
        BY <1>2, <1>4, <1>6, <3>5, <3>6, StageNames DEF Keeps, RecordsOf, Scored, Blank
      <3> QED
        BY <3>7 DEF Advances, f, g, row, r
    <2>3. CASE f.exam[First] = "open"
      <3>1. file' = [file EXCEPT ![a] = [f EXCEPT !.screening =
                       [f.screening EXCEPT ![stage] = record]]]
        BY <1>6, <2>1, <2>3 DEF CorrectedAt, Reopen
      <3>2. /\ Verdict(g, First) = Blank /\ Verdict(g, Chief) = Verdict(f, Chief)
            /\ g.exam = f.exam /\ g.session = f.session /\ g.absence = f.absence
        BY <1>5, <1>6, <3>1, StageNames
      <3> HIDE DEF f, g, row, r, stage
      <3>3. AtFirst(r, g)
        BY <1>1, <1>2, <1>4, <1>6, <2>1, <2>3, <3>2, StageNames
        DEF RecordsOf, AtFirst, Blank
      <3>4. AtChief(r, g)
        BY <1>1, <1>2, <1>4, <1>6, <3>2, StageNames DEF RecordsOf, AtChief
      <3>5. Keeps(row, f, r, g)
        BY <1>2, <1>4, <1>6, <3>3, <3>4, StageNames DEF Keeps, RecordsOf, Scored, Blank
      <3> QED
        BY <3>5 DEF Advances, f, g, row, r
    <2> QED
      BY <2>2, <2>3
  <1>7. CASE stage = Chief
    <2>1. "interview" \in SectionsAt(Branch, stage) /\ "exam" \in SectionsAt(Branch, stage)
      BY <1>7, StageNames
    <2>2. /\ Verdict(g, First) = Verdict(f, First) /\ g.exam[First] = f.exam[First]
          /\ g.session.state # "final" /\ g.session.ratings = f.session.ratings
          /\ g.absence = f.absence
      <3>1. CASE f.session.state = "final"
        <4> DEFINE session == [f.session EXCEPT !.state = "open"]
        <4>1. session.state = "open" /\ session.ratings = f.session.ratings
          BY <1>1, FileParts DEF InterviewSession
        <4>2. g = [f EXCEPT !.session = session]
          BY <1>1, <1>3, <2>1, <3>1 DEF CorrectedAt, Session, ApplicationFile
        <4> HIDE DEF session
        <4>3. g.session = session /\ g.screening = f.screening /\ g.exam = f.exam
                /\ g.absence = f.absence
          BY <1>1, <4>2 DEF ApplicationFile
        <4> QED
          BY <4>1, <4>3 DEF Verdict
      <3>2. CASE f.session.state # "final" /\ f.exam[Chief] # "open"
        <4> DEFINE exam == [f.exam EXCEPT ![Chief] = "open"]
        <4>1. exam[First] = f.exam[First]
          BY <1>1, FileParts, StageNames
        <4>2. g = [f EXCEPT !.exam = exam]
          BY <1>3, <1>7, <2>1, <3>2 DEF CorrectedAt, Session
        <4> HIDE DEF exam
        <4>3. g.exam = exam /\ g.screening = f.screening /\ g.session = f.session
                /\ g.absence = f.absence
          BY <1>1, <4>2 DEF ApplicationFile
        <4> QED
          BY <3>2, <4>1, <4>3 DEF Verdict
      <3>3. CASE f.session.state # "final" /\ f.exam[Chief] = "open"
        <4>1. file' = [file EXCEPT ![a] = [f EXCEPT !.screening =
                         [f.screening EXCEPT ![stage] = record]]]
          BY <1>7, <2>1, <3>3 DEF CorrectedAt, Session, Reopen
        <4>2. /\ Verdict(g, First) = Verdict(f, First)
              /\ g.exam = f.exam /\ g.session = f.session /\ g.absence = f.absence
          BY <1>5, <1>7, <4>1, StageNames
        <4> QED
          BY <3>3, <4>2
      <3> QED
        BY <3>1, <3>2, <3>3
    <2> HIDE DEF f, g, row, r, stage
    <2>3. Keeps(row, f, r, g)
      BY <1>1, <1>2, <1>4, <1>7, <2>2, ChiefAgain
    <2> QED
      BY <2>3 DEF Advances, f, g, row, r
  <1>8. CASE stage = "completion"
    <2>1. g = f
      BY <1>3, <1>8, StageNames DEF CorrectedAt
    <2> HIDE DEF f, g, row, r, stage
    <2>2. Level = 1 => AtFirst(r, f)
      BY <1>1, <1>2, <1>4, <1>8, StageNames DEF RecordsOf, AtFirst, Blank
    <2>3. AtChief(r, f)
      BY <1>1, <1>2, <1>4, <1>8, StageNames DEF RecordsOf, AtChief
    <2>4. Keeps(row, f, r, f)
      BY <1>2, <1>4, <1>8, <2>2, <2>3 DEF Keeps, RecordsOf, Scored, Blank
    <2> QED
      BY <2>1, <2>4 DEF Advances, f, g, row, r
  <1> QED
    BY <1>2, <1>6, <1>7, <1>8

(* Every operation both branches share owes every application its records. *)
LEMMA CasesKeep ==
  ASSUME IInv, RecordsKept, NEW a \in Apps, CaseStep(Selected, {})
  PROVE  Advances(a)
  <1>1. CASE \/ NextDay
             \/ \E day \in {"before", "closing_day"} : ExtendIntake(day)
             \/ \E new \in {"active", "suspended", "closed"} :
                  UpdateEntryStatus(new, Selected # {} /\ ~OpenPool)
    BY <1>1, Untouched DEF NextDay, ExtendIntake, UpdateEntryStatus
  <1>2. CASE CancelEntry(Selected # {})
    <2>1. CASE a \in InFlight
      <3>1. /\ case[a].caseStatus \in {"active", "awaiting"}
            /\ case'[a] = Moved(case[a], "vacancy_cancelled", Blank) /\ file' = file
        BY <1>2, <2>1 DEF CancelEntry, CloseAll, Transition, InFlight
      <3>2. SameRecords(file[a], file'[a])
        BY <3>1 DEF SameRecords
      <3> QED
        BY <3>1, <3>2, ClosingKeeps DEF Exits
    <2>2. CASE a \notin InFlight
      BY <1>2, <2>2, Untouched DEF CancelEntry, CloseAll, Transition
    <2> QED
      BY <2>1, <2>2
  <1>3. ASSUME NEW b \in Apps,
               \/ SubmitApplication(b) \/ SubmitDocumentResubmission(b)
               \/ Reopen(b, Selected)
        PROVE  Advances(a)
    BY <1>3, OthersOutside, Untouched, SubmissionKeeps, ResubmissionKeeps, ReopeningKeeps
    DEF IInv
  <1>4. ASSUME NEW b \in Apps, NEW role \in Roles, OfficeStep(role, b)
        PROVE  Advances(a)
    BY <1>4, OthersInOffice, Untouched, OfficeKeeps DEF IInv
  <1>5. ASSUME NEW role \in Roles, ExamConsole(role)
        PROVE  Advances(a)
    BY <1>5, ExamsKeep DEF ExamConsole
  <1> QED
    BY <1>1, <1>2, <1>3, <1>4, <1>5, InterviewsKeep, LoansKeep, RepairKeeps DEF CaseStep

-----------------------------------------------------------------------------
(* The rounds *)

(* Whoever may join a round was scored, and is nobody's absentee.          *)
LEMMA EligibleHeard ==
  ASSUME IInv, RecordsKept, NEW a \in Eligible
  PROVE  /\ a \in Apps /\ Scored(case[a], file[a])
         /\ file[a].session.state = "final" /\ ~file[a].session.absent
  <1>1. /\ a \in Apps /\ ActiveUnlocked(a) /\ case[a].stage = Chief
        /\ AtSection(a, "deliberation")
        /\ file[a].absence["interview"] # Chief
    BY StageNames DEF Eligible, AtDeliberation, Assessments, Chief
  <1>2. SectionOrder["interview"] < SectionOrder["deliberation"]
    BY DEF SectionOrder
  <1>3. file[a].session.state = "final"
    BY <1>1, <1>2, StageNames DEF AtSection, SectionComplete, Session
  <1>4. Place(case[a]) = Chief /\ RecordsOf(case[a], file[a])
          /\ file[a] \in ApplicationFile
    BY <1>1, RowNow, Open DEF ActiveUnlocked
  <1>5. ~file[a].session.absent
    BY <1>1, <1>3, <1>4 DEF RecordsOf, AtChief, ActiveUnlocked
  <1> QED
    BY <1>1, <1>3, <1>4, <1>5 DEF RecordsOf, AtChief, Scored

(* So was whoever is appointed, whichever round it is picked in.           *)
LEMMA PickedWasHeard ==
  ASSUME IInv, RecordsKept, NEW chosen \in Apps, FinalizePick(chosen)
  PROVE  /\ file[chosen].session.state = "final" /\ ~file[chosen].session.absent
         /\ Scored(case[chosen], file[chosen])
         /\ Place(case[chosen]) = Chief
  <1>1. /\ CanPick(chosen) /\ case[chosen].stage = Chief
        /\ AtSection(chosen, "deliberation")
        /\ ~case[chosen].locked
    BY ChosenIsOpen DEF FinalizePick, AtDeliberation, Chief
  <1>2. SectionOrder["interview"] < SectionOrder["deliberation"]
    BY DEF SectionOrder
  <1>3. file[chosen].session.state = "final"
    BY <1>1, <1>2, StageNames DEF AtSection, SectionComplete, Session
  <1>4. CASE round.status = "open"
    <2>1. Scored(case[chosen], file[chosen])
      BY <1>1, <1>4 DEF CanPick, PickPool, RecordsKept
    <2>2. ~file[chosen].session.absent
      BY <1>3, <2>1, RowNow DEF Scored, RecordsOf, AtChief
    <2> QED
      BY <1>1, <1>3, <2>1, <2>2 DEF Place
  <1>5. CASE round.status # "open"
    <2>1. chosen \in Eligible
      BY <1>1, <1>5 DEF CanPick, PickPool
    <2> QED
      BY <1>1, <2>1, EligibleHeard DEF Place
  <1> QED
    BY <1>4, <1>5

(* The members of a round stay scored whatever happens to them.            *)
LEMMA MembersAdvance ==
  ASSUME IInv, RecordsKept, \A a \in Apps : Advances(a),
         round'.members \subseteq round.members \cup Eligible
  PROVE  RecordsKept'
  <1>1. round.members \in SUBSET Apps
    BY DEF IInv, RoundOK, Round
  <1>2. \A m \in round'.members : m \in Apps /\ Scored(case[m], file[m])
    BY <1>1, EligibleHeard DEF RecordsKept
  <1>3. \A a \in Apps : /\ RecordsOf(case'[a], file'[a])
                        /\ Scored(case[a], file[a]) => Scored(case'[a], file'[a])
    BY DEF Advances, Keeps
  <1> QED
    BY <1>2, <1>3 DEF RecordsKept

(* An edit of the completion record of one application.                    *)
LEMMA CompletionEdit ==
  ASSUME IInv, NEW a \in Apps, NEW b \in Apps, NEW value,
         file' = [file EXCEPT ![b] = [file[b] EXCEPT !.completion = value]]
  PROVE  SameRecords(file[a], file'[a])
  <1>1. file[a] \in ApplicationFile
    BY DEF IInv, RecordsOK
  <1>2. file'[a] = IF a = b THEN [file[a] EXCEPT !.completion = value] ELSE file[a]
    BY DEF IInv, RecordsOK
  <1> QED
    BY <1>1, <1>2, SameParts DEF ApplicationFile

(* The appointment, and the members a finished round closes with it.       *)
LEMMA PickKeeps ==
  ASSUME IInv, RecordsKept, NEW a \in Apps, NEW chosen \in Apps, FinalizePick(chosen)
  PROVE  Advances(a)
  <1> DEFINE f == file[a]
             g == file'[a]
             row == case[a]
             r == case'[a]
             picked == PickRoundPicks \cup {chosen}
             unpicked == IF RoundAfterPick(picked).status = "resolved"
                           THEN Unpicked(PickRound.members, picked) ELSE {}
  <1>1. /\ r = IF a \in {chosen} \cup unpicked
                 THEN IF a = chosen THEN Moved(row, "approved", CompletionOwner(Level))
                                    ELSE Moved(row, "rejected", Blank)
                 ELSE row
        /\ file' = [file EXCEPT ![chosen] =
                      [file[chosen] EXCEPT !.completion = Restarted(file[chosen].completion)]]
    BY DEF FinalizePick, Transition, IInv, RecordsOK
  <1>2. SameRecords(f, g)
    BY <1>1, CompletionEdit
  <1>3. RecordsOf(row, f)
    BY RowNow
  <1>4. CASE a = chosen
    <2>1. CompletionOwner(Level) # Blank
      BY DEF CompletionOwner, Blank
    <2>2. r = Moved(row, "approved", CompletionOwner(Level))
      BY <1>1, <1>4
    <2>3. /\ r.stage = "completion" /\ r.caseStatus = "active" /\ ~r.locked
          /\ Place(r) = "completion"
      BY <2>1, <2>2, ToCompletion
    <2>4. /\ f.session.state = "final" /\ ~f.session.absent /\ Scored(row, f)
          /\ Place(row) = Chief
      BY <1>4, PickedWasHeard
    <2> HIDE DEF f, g, row, r, picked, unpicked
    <2>5. Level = 1 => AtFirst(r, g)
      BY <1>2, <1>3, <2>3, <2>4, StageNames DEF RecordsOf, AtFirst, SameRecords, Blank
    <2>6. AtChief(r, g)
      BY <1>2, <1>3, <2>3, <2>4, StageNames DEF RecordsOf, AtChief, SameRecords, Scored
    <2>7. Keeps(row, f, r, g)
      BY <1>2, <2>3, <2>4, <2>5, <2>6 DEF Keeps, RecordsOf, SameRecords, Scored, Blank
    <2> QED
      BY <2>7 DEF Advances, f, g, row, r
  <1>5. CASE a # chosen /\ a \in unpicked
    <2>1. a \in Unpicked(PickRound.members, picked)
      BY <1>5
    <2>2. PickRound.members \in SUBSET Apps
      BY ChosenIsOpen, PickFacts DEF Round
    <2>3. row.caseStatus = "active"
      BY <2>1, <2>2, UnpickedAreOpen
    <2>4. r = Moved(row, "rejected", Blank)
      BY <1>1, <1>5
    <2> QED
      BY <1>2, <2>3, <2>4, ClosingKeeps DEF Exits
  <1>6. CASE a \notin {chosen} \cup unpicked
    <2>1. r = row
      BY <1>1, <1>6
    <2> QED
      BY <1>2, <1>3, <2>1, SameKeeps DEF Advances
  <1> QED
    BY <1>4, <1>5, <1>6

LEMMA ShortKeeps ==
  ASSUME IInv, RecordsKept, NEW a \in Apps, CloseRoundShort
  PROVE  Advances(a)
  <1> DEFINE unpicked == Unpicked(round.members, picks)
  <1>1. /\ case'[a] = IF a \in unpicked THEN Moved(case[a], "rejected", Blank) ELSE case[a]
        /\ file' = file /\ round.members \in SUBSET Apps
    BY DEF CloseRoundShort, CloseAll, Transition, IInv, RoundOK, Round
  <1>2. CASE a \in unpicked
    <2>1. case[a].caseStatus = "active"
      BY <1>1, <1>2, UnpickedAreOpen
    <2>2. SameRecords(file[a], file'[a])
      BY <1>1 DEF SameRecords
    <2> QED
      BY <1>1, <1>2, <2>1, <2>2, ClosingKeeps DEF Exits
  <1>3. CASE a \notin unpicked
    BY <1>1, <1>3, Untouched
  <1> QED
    BY <1>2, <1>3

(* Whoever comes back when a pick is taken back was a member of its round. *)
LEMMA RescissionKeeps ==
  ASSUME IInv, RecordsKept, NEW a \in Apps, NEW winner \in Apps, RescindPick(winner)
  PROVE  Advances(a)
  <1> DEFINE f == file[a]
             g == file'[a]
             row == case[a]
             r == case'[a]
  <1>1. /\ r = IF a \in Restored(winner) THEN Moved(row, Chief, "hrm_chief") ELSE row
        /\ file' = [file EXCEPT ![winner] =
                      [file[winner] EXCEPT !.completion = Voided(file[winner].completion)]]
        /\ winner \in picks
    BY DEF RescindPick, Transition, IInv, RecordsOK, Chief
  <1>2. SameRecords(f, g) /\ RecordsOf(row, f)
    BY <1>1, CompletionEdit, RowNow
  <1>3. CASE a \in Restored(winner)
    <2>1. a \in round.members
      BY <1>1, <1>3 DEF Restored, IInv, RoundOK, SlotsMatchStatus
    <2>2. Scored(row, f)
      BY <2>1 DEF RecordsKept
    <2>3. r = Moved(row, Chief, "hrm_chief")
      BY <1>1, <1>3
    <2>4. r.stage = Chief /\ r.caseStatus = "active" /\ ~r.locked /\ Place(r) = Chief
      BY <2>3, ToReview, StageNames
    <2> HIDE DEF f, g, row, r
    <2>5. Keeps(row, f, r, g)
      BY <1>2, <2>2, <2>4, ScoredAgain
    <2> QED
      BY <2>5 DEF Advances, f, g, row, r
  <1>4. CASE a \notin Restored(winner)
    <2>1. r = row
      BY <1>1, <1>4
    <2> QED
      BY <1>2, <2>1, SameKeeps DEF Advances
  <1> QED
    BY <1>3, <1>4

-----------------------------------------------------------------------------
(* The records *)

LEMMA RecordsAtFirst == Init => RecordsKept
  <1> SUFFICES ASSUME Init PROVE RecordsKept
    OBVIOUS
  <1>1. /\ case = [a \in Apps |-> DraftCase] /\ file = [a \in Apps |-> EmptyFile]
        /\ round.members = {}
    BY DEF Init, CaseInit
  <1>2. /\ Place(DraftCase) = Blank /\ DraftCase.caseStatus = Blank
        /\ DraftCase.stage = Blank /\ ~DraftCase.locked
    BY DEF DraftCase, Place
  <1>3. /\ Verdict(EmptyFile, First) = Blank /\ Verdict(EmptyFile, Chief) = Blank
        /\ EmptyFile.exam[First] = "open"
        /\ EmptyFile.session.state = Blank /\ ~EmptyFile.session.absent
        /\ EmptyFile.absence["examination"] = Blank
        /\ EmptyFile.absence["interview"] = Blank
    BY StageNames DEF EmptyFile, Verdict, Assessments
  <1>4. RecordsOf(DraftCase, EmptyFile)
    BY <1>2, <1>3, StageNames DEF RecordsOf, AtFirst, AtChief, Blank
  <1> QED
    BY <1>1, <1>4 DEF RecordsKept

LEMMA RecordsAdvance ==
  ASSUME IInv, RecordsKept, [Next]_vars
  PROVE  RecordsKept'
  <1>1. CASE CaseStep(Selected, {}) /\ UNCHANGED <<round, picks, earlier>>
    BY <1>1, CasesKeep, MembersAdvance
  <1>2. CASE \/ \E slots \in 1..Cardinality(Eligible) : OpenRound(slots)
             \/ \E chosen \in Apps : SaveDraftPick(chosen)
    <2>1. UNCHANGED <<case, file>> /\ round'.members \subseteq round.members \cup Eligible
      BY <1>2 DEF OpenRound, SaveDraftPick, PickRound, RoundOpened
    <2>2. \A a \in Apps : Advances(a)
      BY <2>1, Untouched
    <2> QED
      BY <2>1, <2>2, MembersAdvance
  <1>3. ASSUME NEW chosen \in Apps, FinalizePick(chosen)
        PROVE  RecordsKept'
    <2>1. round'.members = PickRound.members
      BY <1>3, PickFacts DEF FinalizePick, RoundAfterPick, Round
    <2>2. PickRound.members \subseteq round.members \cup Eligible
      BY DEF PickRound, RoundOpened
    <2> QED
      BY <1>3, <2>1, <2>2, PickKeeps, MembersAdvance
  <1>4. CASE CloseRoundShort
    <2>1. round'.members = round.members
      BY <1>4 DEF CloseRoundShort, IInv, RoundOK, Round
    <2> QED
      BY <1>4, <2>1, ShortKeeps, MembersAdvance
  <1>5. ASSUME NEW winner \in Apps, RescindPick(winner)
        PROVE  RecordsKept'
    <2>1. round'.members = round.members
      BY <1>5 DEF RescindPick, RoundAfterRescission, IInv, RoundOK, Round
    <2> QED
      BY <1>5, <2>1, RescissionKeeps, MembersAdvance
  <1>6. CASE UNCHANGED vars
    BY <1>6 DEF vars, RecordsKept, RecordsOf, AtFirst, AtChief, Scored, Verdict, Place
  <1> QED
    BY <1>1, <1>2, <1>3, <1>4, <1>5, <1>6 DEF Next, DeliberationPage

(* For any number of applications at either level, the records of every    *)
(* case are those its step asks for, and whoever a round froze has its     *)
(* scores and no absence to decide (screening, exam, interview and         *)
(* cos_selection services, together).                                      *)
THEOREM RecordsInvariant == Spec => [](IInv /\ RecordsKept)
  <1>1. IInv /\ RecordsKept /\ [Next]_vars => RecordsKept'
    BY RecordsAdvance
  <1> QED
    BY <1>1, RecordsAtFirst, Invariance, PTL DEF Spec

(* For any number of candidates, whoever is held by a finalized sitting    *)
(* has an absence the office can decide on (exam.record_attendance_absence *)
(* and reopen._assert_reopened_case_has_editable_work).                    *)
THEOREM NobodyParked == Spec => []ParkedForAbsence
  <1>1. ASSUME IInv, RecordsKept, NEW a \in Apps, ActiveUnlocked(a)
        PROVE  /\ (LeavesAfterExam(case[a].stage) /\ Exam(a) # "open")
                    => file[a].absence["examination"] = case[a].stage
               /\ (/\ case[a].stage = InterviewStage
                   /\ Session(a).state = "final"
                   /\ Session(a).absent)
                    => file[a].absence["interview"] = case[a].stage
    <2>1. case[a].caseStatus = "active" /\ RecordsOf(case[a], file[a])
      BY <1>1, RowNow DEF ActiveUnlocked
    <2>2. LeavesAfterExam(case[a].stage) => case[a].stage = First /\ Level = 1
      BY <1>1, <2>1, RowNow, Open DEF LeavesAfterExam, First
    <2>3. InterviewStage = Chief
      BY DEF InterviewStage, Chief
    <2> QED
      BY <2>1, <2>2, <2>3 DEF RecordsOf, AtFirst, AtChief, Exam, Session
  <1>2. IInv /\ RecordsKept => ParkedForAbsence
    BY <1>1 DEF ParkedForAbsence
  <1> QED
    BY <1>2, RecordsInvariant, PTL

(* Whoever is appointed came to the interview and was scored on it, and at *)
(* Level 1 was Qualified by the Secretariat before.                        *)
AppointedHeard ==
  \A a \in Apps : case[a].status = "approved" =>
    /\ file[a].session.state = "final"
    /\ file[a].session.ratings = "quorum"
    /\ ~file[a].session.absent
    /\ Level = 1 => Verdict(file[a], First) = "qualified"

(* For any number of candidates and rounds, in a batch or an open pool,    *)
(* nobody is appointed without an interview that was scored, nor is that   *)
(* interview open again while the appointment stands, whatever was         *)
(* reopened, missed, rescheduled, closed short or taken back on the way    *)
(* (cos_selection.save_cos_vacancy_deliberation and what it reads of the   *)
(* interview).                                                             *)
THEOREM AppointedWereHeard == Spec => []AppointedHeard
  <1>1. ASSUME IInv, RecordsKept, NEW a \in Apps, case[a].status = "approved"
        PROVE  /\ file[a].session.state = "final"
               /\ file[a].session.ratings = "quorum"
               /\ ~file[a].session.absent
               /\ Level = 1 => Verdict(file[a], First) = "qualified"
    <2>1. \/ InCompletion(case[a])
          \/ ClosedAs(case[a]) /\ case[a].lockedStage = "completion"
      BY <1>1, RowNow DEF GoodRows, RowAligned
    <2>2. Place(case[a]) = "completion" /\ RecordsOf(case[a], file[a])
      BY <1>1, <2>1, RowNow DEF InCompletion, ClosedAs, Place
    <2> QED
      BY <2>2, StageNames DEF RecordsOf, AtFirst, AtChief, Blank
  <1>2. IInv /\ RecordsKept => AppointedHeard
    BY <1>1 DEF AppointedHeard
  <1> QED
    BY <1>2, RecordsInvariant, PTL
=============================================================================
