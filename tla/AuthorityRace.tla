----------------------------- MODULE AuthorityRace -----------------------------
(***************************************************************************)
(* The authority's step with transactions that overlap.  PlantillaVacancy  *)
(* runs each operation at once; here a request first reads what it needs,  *)
(* checks its guards and works out the rows it will write, and commits     *)
(* later, when other requests may have committed in between.               *)
(*                                                                         *)
(* The isolation is that of the production database: a commit is seen by   *)
(* every later read, an open request keeps what it has read.  An operation *)
(* decorated with locks_workflow_row holds the vacancy's row from before   *)
(* its read until it commits; return_car_for_reassessment,                 *)
(* rescind_final_selection, record_application_withdrawal and              *)
(* reopen_recruitment_case hold nothing while they read.  The case row     *)
(* that transition_case locks delays a write and is not read again, so a   *)
(* commit writes the rows worked out from the read.                        *)
(***************************************************************************)
EXTENDS PlantillaVacancy

CONSTANTS
  Desks,  \* the requests that may be open at the same time
  Ops     \* the operations in play

Operations == {"select", "no_appointment", "report", "return", "rescind",
               "withdraw", "reopen"}
ASSUME OpsAssumption == Ops \subseteq Operations

(* The operations that lock the vacancy's row.                             *)
VacancyLocked == {"select", "no_appointment", "report"}

VARIABLE request  \* what the open transaction of a desk is going to write

raceVars == <<vars, request>>

(* app is the applicant named by a selection; current says that the report *)
(* or selection row the request read has not been marked since.            *)
Idle == [op |-> Blank, app |-> NoApp, to |-> <<>>, current |-> TRUE]

(* The cases are with the authority on a finalized report.                 *)
AtAuthority == [DraftCase EXCEPT !.status = "appointing_authority_review",
                                 !.stage = "appointing_authority_review",
                                 !.caseStatus = "active",
                                 !.handler = "appointing_authority"]

RankedFile ==
  [EmptyFile EXCEPT
     !.screening[IntakeStage(Level)].verdict = "qualified",
     !.exam[IntakeStage(Level)] = "completed",
     !.notified = TRUE,
     !.session = [state |-> "final", ratings |-> "quorum", absent |-> FALSE]]

RaceInit ==
  /\ case = [a \in Apps |-> AtAuthority]
  /\ overrides = {}
  /\ file = [a \in Apps |-> RankedFile]
  /\ posting = [status |-> "active", day |-> "after"]
  /\ car = [drafted |-> TRUE, final |-> TRUE, items |-> Apps]
  /\ selection = NoApp
  /\ request = [d \in Desks |-> Idle]

-----------------------------------------------------------------------------
(* Reading *)

FaultyVacancyRowFree(op) == TRUE

VacancyRowFree(op) ==
  op \in VacancyLocked => \A d \in Desks : request[d].op \notin VacancyLocked

Read(d, op, app, to) ==
  /\ request[d] = Idle
  /\ op \in Ops
  /\ VacancyRowFree(op)
  /\ request' = [request EXCEPT ![d] = [op |-> op, app |-> app, to |-> to, current |-> TRUE]]
  /\ UNCHANGED vars

ReadDecision(d) ==
  /\ CanDecide
  /\ \/ \E winner \in Contenders : Read(d, "select", winner, SelectionOf(winner))
     \/ Read(d, "no_appointment", NoApp,
             [a \in Contenders |-> Moved(case[a], "rejected", Blank)])
     \/ Read(d, "return", NoApp, ToPanel(Contenders))

ReadReport(d) == CanFinalizeCar /\ Read(d, "report", NoApp, ToAuthority(AtPanel))

ReadRescission(d) == CanRescind /\ Read(d, "rescind", selection, ToAuthority(Restored))

ReadWithdrawal(d, a) ==
  /\ \E role \in Roles : CanRecordWithdrawal(role, a)
  /\ Read(d, "withdraw", NoApp, [b \in {a} |-> Moved(case[b], "withdrawn", Blank)])

ReadReopening(d, a) ==
  LET stage == case[a].lockedStage
  IN  /\ CanReopen(a, Selected)
      /\ Read(d, "reopen", NoApp, [b \in {a} |->
           Moved(case[b], StatusForStage(stage), StageOwner(stage, Level))])

-----------------------------------------------------------------------------
(* Committing *)

RowsWritten(to) == [a \in Apps |-> IF a \in DOMAIN to THEN to[a] ELSE case[a]]

FaultySelectionAfter(r) ==
  IF r.op = "select" THEN r.app ELSE IF r.op \in {"rescind", "return"} THEN NoApp ELSE selection

(* A rescission marks the selection row it read, a return the report row.  *)
SelectionAfter(r) ==
  CASE r.op = "select"                -> r.app
    [] r.op = "rescind" /\ r.current  -> NoApp
    [] OTHER                          -> selection

CarAfter(r) ==
  CASE r.op = "report"              -> [car EXCEPT !.final = TRUE, !.items = DOMAIN r.to]
    [] r.op = "return" /\ r.current -> [car EXCEPT !.final = FALSE]
    [] OTHER                        -> car

(* The row a commit marks is no longer current for who else read it; who   *)
(* read a row marked already marks that one again, and nobody else's.      *)
RequestsAfter(d) ==
  [e \in Desks |->
     CASE e = d -> Idle
       [] /\ e # d /\ request[d].current
          /\ request[e].op = request[d].op /\ request[e].op \in {"rescind", "return"} ->
            [request[e] EXCEPT !.current = FALSE]
       [] OTHER -> request[e]]

(* Two effective selections of one vacancy are refused by the database.    *)
(* No completion record exists yet, so none is voided or started afresh.   *)
Commit(d) ==
  LET r == request[d]
  IN  /\ r # Idle
      /\ r.op = "select" => selection = NoApp
      /\ case' = RowsWritten(r.to)
      /\ selection' = SelectionAfter(r)
      /\ car' = CarAfter(r)
      /\ request' = RequestsAfter(d)
      /\ UNCHANGED <<overrides, file, posting>>

(* Any request may fail before it commits.                                 *)
RollBack(d) ==
  /\ request[d] # Idle
  /\ request' = [request EXCEPT ![d] = Idle]
  /\ UNCHANGED vars

RaceNext ==
  \E d \in Desks :
    \/ ReadDecision(d)
    \/ ReadReport(d)
    \/ ReadRescission(d)
    \/ \E a \in Apps : ReadWithdrawal(d, a) \/ ReadReopening(d, a)
    \/ Commit(d)
    \/ RollBack(d)

RaceSpec == RaceInit /\ [][RaceNext]_raceVars

-----------------------------------------------------------------------------
(* Properties *)

(* Decisions of the authority do not overlap, whatever else overlaps them: *)
(* a selection is recorded only when none stands, and the appointee of a   *)
(* standing selection is never closed as not selected by a decision that   *)
(* was being taken at the same time (record_final_selection and            *)
(* record_no_appointment lock the vacancy's row before they read).         *)
DecisionsDoNotOverlap ==
  [][selection # NoApp =>
       /\ selection' \in {selection, NoApp}
       /\ (selection' = selection /\ case[selection].status = "approved")
            => case'[selection].status # "rejected"]_raceVars
=============================================================================
