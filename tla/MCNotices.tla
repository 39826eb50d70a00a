------------------------------- MODULE MCNotices -------------------------------
(* Notices on a small instance: one of the four subjects in each behaviour. *)
EXTENDS Notices, TLC

SymPlaces == Permutations(Places) \cup Permutations(Clicks) \cup Permutations(Runs)

OneSubject ==
  Cardinality({s \in {<<"exam", exam # Unscheduled>>,
                      <<"interview", interview # Unscheduled>>,
                      <<"outcome", status # "applied">>,
                      <<"documents", \E i \in DOMAIN log : log[i].kind = "request">>} :
                 s[2]}) <= 1
================================================================================
