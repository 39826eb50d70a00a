------------------------------- MODULE MCAccounts -------------------------------
(* Staff accounts on a small instance: a behaviour follows the accounts and   *)
(* their addresses, the passwords of one account, or the sign-in of one.      *)
EXTENDS StaffAccounts, FiniteSets, TLC

SymAccounts ==
  Permutations(Passwords) \cup Permutations(People \ {Root}) \cup Permutations(Clicks)

Others == {p \in People \ {Root} : accounts[p].exists}

SigningIn ==
  time > 0 \/ codes # <<>> \/ attempt # NoAttempt \/ browser # [b \in Clicks |-> OffLine]

Subjects ==
  {<<"accounts", requests # {} \/ \E p \in Others : password[p] = Unset>>,
   <<"passwords", \E p \in People : past[p] # <<>> \/ (p # Root /\ password[p] # Unset)>>,
   <<"sign-in", SigningIn>>}

OneSubject ==
  /\ Cardinality({s \in Subjects : s[2]}) <= 1
  /\ Cardinality({p \in Others : password[p] # Unset}) <= 1
  /\ past[Root] # <<>> \/ SigningIn =>
       Others = {} /\ accounts[Root].email = CHOOSE e \in Emails : TRUE
================================================================================
