----------------------------- MODULE CaseLifecycle -----------------------------
(***************************************************************************)
(* What a vacancy's recruitment promises, whatever branch runs it: an       *)
(* application is open from its submission until it is appointed or leaves; *)
(* at most Capacity appointments stand; whoever left comes back only while  *)
(* nobody else is appointed, or because an appointment is taken back; and   *)
(* an appointment ends only by being taken back, or by an absence that was  *)
(* still to be decided when it was made.                                    *)
(***************************************************************************)
EXTENDS Naturals, FiniteSets

CONSTANTS Apps, Capacity

VARIABLES
  phase,      \* where each application is
  selected    \* the applications whose appointment stands

lifecycle == <<phase, selected>>

Exits == {"rejected", "withdrawn", "vacancy_cancelled"}

Phases == {"draft", "open", "appointed"} \cup Exits

In(p) == {a \in Apps : phase[a] = p}

(* The phases once the applications of a set have moved. *)
MovedTo(moved, p) == [a \in Apps |-> IF a \in moved THEN p ELSE phase[a]]

Init == /\ phase = [a \in Apps |-> "draft"]
        /\ selected = {}

Submit(a) ==
  /\ phase[a] = "draft"
  /\ phase' = MovedTo({a}, "open")
  /\ UNCHANGED selected

Withdraw(a) ==
  /\ phase[a] = "open"
  /\ phase' = MovedTo({a}, "withdrawn")
  /\ UNCHANGED selected

Reject(out) ==
  /\ out \subseteq In("open")
  /\ phase' = MovedTo(out, "rejected")
  /\ UNCHANGED selected

(* A vacancy is cancelled while no appointment stands, and for everybody.  *)
Cancel ==
  /\ selected = {}
  /\ phase' = MovedTo(In("open"), "vacancy_cancelled")
  /\ UNCHANGED selected

(* Someone appointed comes back as appointed, anybody else as open.        *)
Reopen(a) ==
  /\ phase[a] \in Exits
  /\ selected = {} \/ a \in selected
  /\ \E p \in {"open", "appointed"} :
       /\ p = "appointed" => a \in selected
       /\ phase' = MovedTo({a}, p)
  /\ UNCHANGED selected

Appoint(a, out) ==
  /\ phase[a] = "open" /\ a \notin selected
  /\ Cardinality(selected) < Capacity
  /\ out \subseteq In("open") \ {a}
  /\ phase' = [b \in Apps |-> IF b = a THEN "appointed" ELSE MovedTo(out, "rejected")[b]]
  /\ selected' = selected \cup {a}

(* With the appointee come back those the selection had closed, never one  *)
(* who withdrew.                                                           *)
TakeBack(a, back) ==
  /\ a \in selected
  /\ back \subseteq In("rejected")
  /\ phase' = MovedTo({a} \cup back, "open")
  /\ selected' = selected \ {a}

Drop(a) ==
  /\ a \in selected /\ phase[a] = "appointed"
  /\ phase' = MovedTo({a}, "rejected")
  /\ UNCHANGED selected

Next ==
  \/ \E a \in Apps : Submit(a) \/ Withdraw(a) \/ Reopen(a) \/ Drop(a)
  \/ Cancel
  \/ \E out \in SUBSET Apps : Reject(out)
  \/ \E a \in Apps, others \in SUBSET Apps : Appoint(a, others) \/ TakeBack(a, others)

Spec == Init /\ [][Next]_lifecycle
================================================================================
