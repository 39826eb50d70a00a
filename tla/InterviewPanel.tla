---------------------------- MODULE InterviewPanel ----------------------------
(***************************************************************************)
(* The panel interviews of one Plantilla vacancy, member by member: who    *)
(* sits on the panel, whose rating is on record for which candidate, and   *)
(* whether it was entered online or from a signed paper sheet.             *)
(* CaseWorkflow keeps of all this only whether a quorum has rated.         *)
(*                                                                         *)
(* The candidates have reached the panel's interview and the vacancy's     *)
(* rating sheet is published.  The office is the one that owns the level;  *)
(* it schedules, encodes and finalizes.                                    *)
(***************************************************************************)
EXTENDS Integers, FiniteSets

CONSTANTS
  Members,     \* the accounts with the HRMPSB member role
  Interviewees \* the applications at the panel

VARIABLES
  active,    \* the members whose account is active
  core,      \* the standing panel of the office policy
  endUsers,  \* the end-user members of this vacancy's panel
  session,   \* each candidate's interview session
  ratings,   \* the members with an online rating, per candidate
  sheets,    \* the members with a paper sheet on record, per candidate
  away       \* the candidates whose case was closed

panelVars == <<active, core, endUsers, session, ratings, sheets, away>>

MinRaters == 3
MaxRaters == 5

(* held: the scheduled time has come; pending: an absence was recorded and *)
(* the office has not decided what follows from it.                        *)
InterviewSession == [state   : {"none", "open", "final"},
                     held    : BOOLEAN,
                     absent  : BOOLEAN,
                     pending : BOOLEAN]

(* At most one rating of each kind per member and session.                 *)
InterviewRatings         == [Interviewees -> SUBSET Members]
InterviewFallbackRatings == [Interviewees -> SUBSET Members]

PanelTypeOK == /\ active \subseteq Members
               /\ core \subseteq Members
               /\ endUsers \subseteq Members
               /\ session \in [Interviewees -> InterviewSession]
               /\ ratings \in InterviewRatings
               /\ sheets \in InterviewFallbackRatings
               /\ away \subseteq Interviewees

PanelInit == /\ active = Members
             /\ core = {}
             /\ endUsers = {}
             /\ session = [c \in Interviewees |-> [state |-> "none", held |-> FALSE,
                                                 absent |-> FALSE, pending |-> FALSE]]
             /\ ratings = [c \in Interviewees |-> {}]
             /\ sheets = [c \in Interviewees |-> {}]
             /\ away = {}

-----------------------------------------------------------------------------
(* Who sits on the panel *)

(* With neither list set, every active member does.                        *)
Panel == LET named == (core \cup endUsers) \cap active
         IN  IF named = {} THEN active ELSE named

(* The distinct members who rated, however their rating was entered.       *)
Raters(c) == ratings[c] \cup sheets[c]
VacancyRaters == UNION {Raters(c) : c \in Interviewees}

(* The candidates the interview is still to be settled for.                *)
Pool == {c \in Interviewees \ away : session[c].state # "final"}

SetCore(chosen) ==
  /\ core' = chosen \cap active
  /\ UNCHANGED <<active, endUsers, session, ratings, sheets, away>>

(* Refused when it would take an end user who already rated off the panel. *)
SetEndUsers(asked) ==
  LET chosen == (asked \cap active) \ core
  IN  /\ Pool # {}
      /\ endUsers \cap VacancyRaters \subseteq chosen
      /\ endUsers' = chosen
      /\ UNCHANGED <<active, core, session, ratings, sheets, away>>

ToggleActive(m) ==
  /\ active' = IF m \in active THEN active \ {m} ELSE active \cup {m}
  /\ UNCHANGED <<core, endUsers, session, ratings, sheets, away>>

-----------------------------------------------------------------------------
(* Scheduling *)

(* A session marked absent is not saved while it holds ratings.            *)
Savable(c) == session[c].absent => Raters(c) = {}

(* The whole pool is given one future date, ratings on record or not.      *)
Schedule ==
  /\ Pool # {}
  /\ \A c \in Pool : Savable(c)
  /\ session' = [c \in Interviewees |->
       IF c \in Pool THEN [session[c] EXCEPT !.state = "open", !.held = FALSE]
                     ELSE session[c]]
  /\ UNCHANGED <<active, core, endUsers, ratings, sheets, away>>

TimeComes(c) ==
  /\ session[c].state = "open"
  /\ session' = [session EXCEPT ![c].held = TRUE]
  /\ UNCHANGED <<active, core, endUsers, ratings, sheets, away>>

-----------------------------------------------------------------------------
(* Rating *)

Scorable(c) == /\ c \in Pool
               /\ session[c].state = "open"
               /\ session[c].held

SaveRating(m, c) ==
  /\ Scorable(c)
  /\ ratings' = [ratings EXCEPT ![c] = @ \cup {m}]
  /\ UNCHANGED <<active, core, endUsers, session, sheets, away>>

(* A member rates online when they sit on the vacancy's panel.             *)
RateOnline(m, c) == m \in Panel /\ SaveRating(m, c)

(* The office types a member's rating into the same form, which offers     *)
(* every active member.                                                    *)
EncodeRating(m, c) == m \in active /\ SaveRating(m, c)

(* A sheet names a member of the panel who has not rated online; a second  *)
(* one of the same member replaces the first, on request only.             *)
SheetAccepted(m, c, replace) ==
  /\ Scorable(c)
  /\ m \in Panel
  /\ m \in sheets[c] => replace
  /\ m \notin ratings[c]

UploadSheet(m, c, replace) ==
  /\ SheetAccepted(m, c, replace)
  /\ sheets' = [sheets EXCEPT ![c] = @ \cup {m}]
  /\ UNCHANGED <<active, core, endUsers, session, ratings, away>>

-----------------------------------------------------------------------------
(* Finalizing *)

MarkAbsent(c) ==
  /\ Scorable(c)
  /\ Raters(c) = {}
  /\ session' = [session EXCEPT ![c].state = "final", ![c].absent = TRUE,
                                ![c].pending = TRUE]
  /\ UNCHANGED <<active, core, endUsers, ratings, sheets, away>>

HasBoard(c) == Cardinality(Raters(c)) \in MinRaters .. MaxRaters

Finalizable(c) == /\ Scorable(c)
                  /\ IF session[c].absent THEN Raters(c) = {} ELSE HasBoard(c)

(* All or nothing.                                                         *)
FinalizeBatch ==
  /\ Pool # {}
  /\ \A c \in Pool : Finalizable(c)
  /\ session' = [c \in Interviewees |->
       IF c \in Pool
         THEN [session[c] EXCEPT !.state = "final",
                                 !.pending = IF session[c].absent THEN TRUE ELSE @]
         ELSE session[c]]
  /\ UNCHANGED <<active, core, endUsers, ratings, sheets, away>>

-----------------------------------------------------------------------------
(* Absences, closing and correction *)

Reschedule(c) ==
  /\ c \notin away
  /\ session[c].pending
  /\ session' = [session EXCEPT ![c].state = "open", ![c].absent = FALSE,
                                ![c].pending = FALSE]
  /\ UNCHANGED <<active, core, endUsers, ratings, sheets, away>>

(* The decision that the absent candidate does not proceed, or any other   *)
(* exit of the case: a withdrawal, a cancellation, a decision not to       *)
(* select.                                                                 *)
Close(c, decided) ==
  /\ c \notin away
  /\ decided => session[c].pending
  /\ away' = away \cup {c}
  /\ session' = [session EXCEPT ![c].pending = IF decided THEN FALSE ELSE @]
  /\ UNCHANGED <<active, core, endUsers, ratings, sheets>>

(* A reopened case gets its finalized session back for correction, with    *)
(* the attendance it was finalized on.                                     *)
Reopen(c) ==
  /\ c \in away
  /\ away' = away \ {c}
  /\ session' = [session EXCEPT ![c].state = IF @ = "final" THEN "open" ELSE @]
  /\ UNCHANGED <<active, core, endUsers, ratings, sheets>>

PanelNext ==
  \/ \E chosen \in SUBSET Members : SetCore(chosen) \/ SetEndUsers(chosen)
  \/ \E m \in Members : ToggleActive(m)
  \/ Schedule
  \/ FinalizeBatch
  \/ \E c \in Interviewees :
       \/ TimeComes(c)
       \/ MarkAbsent(c)
       \/ Reschedule(c)
       \/ \E decided \in BOOLEAN : Close(c, decided)
       \/ Reopen(c)
       \/ \E m \in Members :
            \/ RateOnline(m, c)
            \/ EncodeRating(m, c)
            \/ \E replace \in BOOLEAN : UploadSheet(m, c, replace)

PanelSpec == PanelInit /\ [][PanelNext]_panelVars

-----------------------------------------------------------------------------
(* Properties *)

(* A session that was finalized and not reopened stands on three to five   *)
(* different members, counted once each whether they rated online, on      *)
(* paper or through the office, or on an absence nobody scored; scans      *)
(* replaced, members leaving the panel and accounts deactivated since do   *)
(* not change that (interview.save_interview_session, SL-03).              *)
BoardWhenFinal ==
  \A c \in Interviewees : session[c].state = "final" =>
    IF session[c].absent THEN Raters(c) = {} ELSE HasBoard(c)

(* An end user who rated one of the vacancy's candidates stays among its   *)
(* end users, through every later change of the standing panel and of      *)
(* accounts (entries.set_vacancy_panel_end_users).                         *)
EndUserRatersStay ==
  [][endUsers \cap VacancyRaters \subseteq endUsers']_panelVars

(* models.py:2865-2866, "The same member cannot rate twice through two     *)
(* doors": the average of a session takes one score from each member.  It  *)
(* is refused in one order only: with the sheet on record first, the       *)
(* online form and the encoding form take a second rating.                 *)
OneDoorEach == \A c \in Interviewees : ratings[c] \cap sheets[c] = {}
=============================================================================
