------------------------------ MODULE MCDocuments ------------------------------
(* ApplicantDocuments on a small instance: interchangeable files and requests. *)
EXTENDS ApplicantDocuments, TLC

Symmetry == Permutations(Files) \cup Permutations(Requests)

(* While the application is a draft any requests meet, until a second        *)
(* document, or a document in a second way, has been changed during another  *)
(* request.                                                                  *)
OneMeeting == Cardinality({<<c, k>> \in Codes \X {"edit", "submit"} : k \in met[c]}) <= 1

(* Applications are followed past their submission when no documents met and *)
(* each was made of one file; the vacancy has no further part in it.         *)
PlainOnceSubmitted ==
  status # "draft" =>
    /\ open
    /\ \A c \in Codes : /\ met[c] = {}
                        /\ Len(parts[c]) <= 1
                        /\ \A v \in vault[c] : Len(v.content) <= 1
================================================================================
