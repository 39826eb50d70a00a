------------------------------ MODULE StaffAccounts ------------------------------
(***************************************************************************)
(* The office's own accounts: an administrator creates, changes and         *)
(* deactivates them, an address changes once its new owner confirms it, a    *)
(* password is not used again too soon, and signing in takes a password,     *)
(* counted against repeated failures, and then a code sent by email.         *)
(* The sign-in of one account, Who, is followed; its lock is checked, its     *)
(* failures are recorded, and its codes are asked for and issued, in          *)
(* transactions of their own, from browsers that overlap.                    *)
(***************************************************************************)
EXTENDS Naturals, Sequences, SequencesExt

CONSTANTS
  People, Emails, Passwords, Unset,
  Root,            \* the administrator the portal is set up with
  Who,             \* the account whose sign-in is followed
  Clicks,          \* sign-in requests, each from a browser of its own
  HistoryLimit,    \* passwords remembered (5 in the code)
  MaxAttempts,     \* failures before the sign-in locks (5 in the code)
  MaxTries,        \* wrong codes before a challenge is spent (5 in the code)
  LockFor,         \* how long a lock, a count of failures and a code last
  MaxTime, MaxCodes, MaxChanges   \* bounds on the clock, the codes, the passwords

ASSUME AccountsAssumption ==
  /\ Root \in People /\ Who \in People
  /\ Unset \notin Emails \cup Passwords
  /\ {HistoryLimit, MaxAttempts, MaxTries, LockFor, MaxTime, MaxCodes, MaxChanges} \subseteq Nat \ {0}

VARIABLES
  accounts,     \* each account's row
  requests,     \* the address changes that may still be confirmed
  password,     \* each account's password
  history,      \* the passwords remembered, the newest first
  noted,        \* whether the present password was remembered when it was set
  past,         \* history: the passwords the account had before, the newest
                \* first, but for those neither their own change nor the next
                \* one lasted long enough to remember
  time,
  attempt,      \* the row counting the failures of Who's user name
  codes,        \* the codes issued to Who, the latest last
  browser       \* what each browser of Who has reached

secrets == <<password, history, noted, past>>
signIn == <<time, attempt, codes, browser>>
accountsVars == <<accounts, requests, secrets, signIn>>

--------------------------------------------------------------------------------

NoAccount == [exists |-> FALSE, admin |-> FALSE, active |-> FALSE, email |-> Unset]

NoAttempt == [count |-> 0, first |-> Unset, until |-> Unset]

(* A browser: its step, the code its page asks for, and while a code is being *)
(* issued how many codes the issue found and when it began.                   *)
At(step, code) == [at |-> step, code |-> code, seen |-> 0, since |-> 0]

OffLine == At("off", 0)

AccountsInit ==
  /\ \E e \in Emails :
       accounts = [p \in People |->
         IF p = Root THEN [exists |-> TRUE, admin |-> TRUE, active |-> TRUE, email |-> e] ELSE NoAccount]
  /\ requests = {}
  /\ \E w \in Passwords : password = [p \in People |-> IF p = Root THEN w ELSE Unset]
  /\ history = [p \in People |-> <<>>] /\ past = [p \in People |-> <<>>]
  /\ noted = [p \in People |-> FALSE]
  /\ time = 0
  /\ attempt = NoAttempt
  /\ codes = <<>>
  /\ browser = [b \in Clicks |-> OffLine]

--------------------------------------------------------------------------------
(* Accounts *)

Administers(a) == accounts[a].admin /\ accounts[a].active

(* One internal account for each address; no index in the database says so. *)
EmailFree(p, e) == \A q \in People \ {p} : accounts[q].email # e

Newest(kept) ==
  SubSeq(kept, 1, IF Len(kept) < HistoryLimit THEN Len(kept) ELSE HistoryLimit)

(* An old password's hash is remembered unless it is there already, and only *)
(* the newest are kept.                                                      *)
Remembered(kept, w) ==
  IF w \in ToSet(kept) THEN kept
  ELSE Newest(<<w>> \o kept)

(* An invited account has no usable password; a temporary one is remembered  *)
(* once the account is saved, unless the process ends in between.            *)
CreateAccount(p, e, admin, temporary, got) ==
  /\ \E a \in People : Administers(a)
  /\ ~accounts[p].exists /\ EmailFree(p, e)
  /\ accounts' = [accounts EXCEPT ![p] = [exists |-> TRUE, admin |-> admin, active |-> TRUE, email |-> e]]
  /\ password' = [password EXCEPT ![p] = temporary]
  /\ history' = [history EXCEPT ![p] = IF got = "both" /\ temporary # Unset
                                            THEN Remembered(@, temporary) ELSE @]
  /\ noted' = [noted EXCEPT ![p] = got = "both" /\ temporary # Unset]
  /\ UNCHANGED <<requests, past, signIn>>

(* Nobody takes their own role or access away. *)
FaultySparesItself(a, p, admin, active) == p = a => active
SparesItself(a, p, admin, active) == p = a => admin /\ active

(* A new request voids the ones before it; when its email cannot be sent it  *)
(* is rolled back, and the rest of the form stays saved.                     *)
UpdateAccount(a, p, e, admin, active, delivered) ==
  /\ Administers(a) /\ accounts[p].exists
  /\ EmailFree(p, e) /\ SparesItself(a, p, admin, active)
  /\ accounts' = [accounts EXCEPT ![p].admin = admin, ![p].active = active]
  /\ requests' = IF e = accounts[p].email \/ ~delivered THEN requests
                 ELSE {r \in requests : r.of # p} \cup {[of |-> p, email |-> e]}
  /\ UNCHANGED <<secrets, signIn>>

ToggleActive(a, p) ==
  /\ Administers(a) /\ accounts[p].exists
  /\ SparesItself(a, p, accounts[p].admin, ~accounts[p].active)
  /\ accounts' = [accounts EXCEPT ![p].active = ~@]
  /\ UNCHANGED <<requests, secrets, signIn>>

(* The address may have been given to somebody else since it was asked for. *)
FaultyConfirmEmail(r) ==
  /\ accounts' = [accounts EXCEPT ![r.of].email = r.email]
  /\ requests' = requests \ {r}
  /\ UNCHANGED <<secrets, signIn>>
ConfirmEmail(r) ==
  /\ EmailFree(r.of, r.email)
  /\ accounts' = [accounts EXCEPT ![r.of].email = r.email]
  /\ requests' = requests \ {r}
  /\ UNCHANGED <<secrets, signIn>>

RequestExpires(r) ==
  /\ requests' = requests \ {r}
  /\ UNCHANGED <<accounts, secrets, signIn>>

--------------------------------------------------------------------------------
(* Passwords *)

(* The current password and the newest remembered ones. *)
FaultyReuses(p, w) ==
  w \in ToSet(Newest(history[p]))
Reuses(p, w) ==
  w = password[p] \/ w \in ToSet(Newest(history[p]))

(* A change and a reset by link save the password first and then remember    *)
(* the old and the new one, each in its own transaction; the process may end *)
(* after each: got is what it has done by then.                              *)
SetPassword(p, w, got) ==
  /\ accounts[p].exists /\ accounts[p].active
  /\ ~Reuses(p, w) /\ Len(past[p]) < MaxChanges
  /\ password' = [password EXCEPT ![p] = w]
  /\ past' = [past EXCEPT ![p] = IF noted[p] \/ got # "saved" THEN <<password[p]>> \o @ ELSE @]
  /\ LET old == Remembered(history[p], password[p])
     IN history' = [history EXCEPT ![p] = CASE got = "saved" -> @
                                            [] got = "old" -> old
                                            [] got = "both" -> Remembered(old, w)]
  /\ noted' = [noted EXCEPT ![p] = got = "both"]
  /\ UNCHANGED <<accounts, requests, signIn>>

--------------------------------------------------------------------------------
(* Signing in *)

LockStands(now, a) == a.until # Unset /\ a.until > now

WindowOver(a) == a.first # Unset /\ a.first + LockFor <= time

Tick ==
  /\ time < MaxTime /\ time' = time + 1
  /\ UNCHANGED <<accounts, requests, secrets, attempt, codes, browser>>

(* The lock is read; a row whose lock or window is over is deleted. *)
PassLock(b) ==
  /\ browser[b].at = "off" /\ ~LockStands(time, attempt)
  /\ attempt' = IF attempt.until # Unset \/ WindowOver(attempt) THEN NoAttempt ELSE attempt
  /\ browser' = [browser EXCEPT ![b].at = "unlocked"]
  /\ UNCHANGED <<accounts, requests, secrets, time, codes>>

(* A failure that finds the sign-in locked by now leaves the row alone. *)
FaultyFailureRecorded ==
  LET fresh == WindowOver(attempt) \/ attempt.first = Unset
      count == IF fresh THEN 1 ELSE attempt.count + 1
  IN [count |-> count,
      first |-> IF fresh THEN time ELSE attempt.first,
      until |-> IF count >= MaxAttempts THEN time + LockFor ELSE Unset]
FailureRecorded ==
  LET fresh == attempt.until # Unset \/ WindowOver(attempt) \/ attempt.first = Unset
      count == IF fresh THEN 1 ELSE attempt.count + 1
  IN IF LockStands(time, attempt) THEN attempt
     ELSE [count |-> count,
           first |-> IF fresh THEN time ELSE attempt.first,
           until |-> IF count >= MaxAttempts THEN time + LockFor ELSE Unset]

FailPassword(b) ==
  /\ browser[b].at = "unlocked"
  /\ attempt' = FailureRecorded
  /\ browser' = [browser EXCEPT ![b] = OffLine]
  /\ UNCHANGED <<accounts, requests, secrets, time, codes>>

Spent(c) == [c EXCEPT !.used = TRUE]

Missed(c) == [c EXCEPT !.tries = c.tries + 1, !.used = c.tries + 1 >= MaxTries]

(* One code a unit of time: read before the transaction that issues one.    *)
CooledDown == \A i \in DOMAIN codes : codes[i].at < time

PassPassword(b) ==
  /\ browser[b].at = "unlocked" /\ accounts[Who].active /\ password[Who] # Unset
  /\ attempt' = NoAttempt
  /\ browser' = [browser EXCEPT ![b] = IF CooledDown THEN At("asked", 0) ELSE OffLine]
  /\ UNCHANGED <<accounts, requests, secrets, time, codes>>

Resend(b) ==
  /\ browser[b].at = "code" /\ accounts[Who].active /\ CooledDown
  /\ browser' = [browser EXCEPT ![b].at = "asked"]
  /\ UNCHANGED <<accounts, requests, secrets, time, attempt, codes>>

(* The issue voids the codes that are there when it begins; neither the user *)
(* nor the codes are locked first, so two may begin before either commits.   *)
BeginIssue(b) ==
  /\ browser[b].at = "asked"
  /\ browser' = [browser EXCEPT ![b].at = "issuing", ![b].seen = Len(codes), ![b].since = time]
  /\ UNCHANGED <<accounts, requests, secrets, time, attempt, codes>>

FaultyVoided(seen) == codes
Voided(seen) == [i \in DOMAIN codes |-> IF i <= seen THEN Spent(codes[i]) ELSE codes[i]]

(* A code's seen is history: how many codes its issue found and voided.      *)
CommitIssue(b) ==
  /\ browser[b].at = "issuing" /\ Len(codes) < MaxCodes
  /\ codes' = Append(Voided(browser[b].seen),
                     [at |-> browser[b].since, tries |-> 0, used |-> FALSE, seen |-> browser[b].seen])
  /\ browser' = [browser EXCEPT ![b] = At("code", Len(codes) + 1)]
  /\ UNCHANGED <<accounts, requests, secrets, time, attempt>>

(* Its email could not be sent: all of it is rolled back.                    *)
AbandonIssue(b) ==
  /\ browser[b].at = "issuing"
  /\ browser' = [browser EXCEPT ![b] = At(IF @.code = 0 THEN "off" ELSE "code", @.code)]
  /\ UNCHANGED <<accounts, requests, secrets, time, attempt, codes>>

Usable(c) == ~c.used /\ c.at + LockFor > time /\ c.tries < MaxTries

(* An issue holds the rows it voids until it commits. *)
HeldByIssue(n) ==
  ~codes[n].used /\ \E c \in Clicks : browser[c].at = "issuing" /\ n <= browser[c].seen

EnterCode(b, right) ==
  LET n == browser[b].code
  IN /\ browser[b].at = "code" /\ accounts[Who].active /\ ~HeldByIssue(n)
     /\ IF ~Usable(codes[n]) THEN codes' = [codes EXCEPT ![n] = Spent(@)] /\ UNCHANGED browser
        ELSE IF right
          THEN /\ codes' = [codes EXCEPT ![n] = Spent(@)]
               /\ browser' = [browser EXCEPT ![b].at = "in"]
          ELSE /\ codes' = [codes EXCEPT ![n] = Missed(@)]
               /\ UNCHANGED browser
     /\ UNCHANGED <<accounts, requests, secrets, time, attempt>>

SignOut(b) ==
  /\ browser[b].at \in {"code", "in"}
  /\ browser' = [browser EXCEPT ![b] = OffLine]
  /\ UNCHANGED <<accounts, requests, secrets, time, attempt, codes>>

Unlock ==
  /\ LockStands(time, attempt) /\ \E a \in People : Administers(a)
  /\ attempt' = [count |-> 0, first |-> time, until |-> Unset]
  /\ UNCHANGED <<accounts, requests, secrets, time, codes, browser>>

--------------------------------------------------------------------------------

AccountsNext ==
  \/ \E p \in People, e \in Emails, admin \in BOOLEAN :
       \/ \E temporary \in Passwords \cup {Unset}, got \in {"saved", "both"} :
            CreateAccount(p, e, admin, temporary, got)
       \/ \E a \in People, active \in BOOLEAN, delivered \in BOOLEAN :
            UpdateAccount(a, p, e, admin, active, delivered)
  \/ \E a, p \in People : ToggleActive(a, p)
  \/ \E r \in requests : ConfirmEmail(r) \/ RequestExpires(r)
  \/ \E p \in People, w \in Passwords, got \in {"saved", "old", "both"} : SetPassword(p, w, got)
  \/ Tick \/ Unlock
  \/ \E b \in Clicks :
       \/ PassLock(b) \/ FailPassword(b) \/ PassPassword(b) \/ Resend(b) \/ SignOut(b)
       \/ BeginIssue(b) \/ CommitIssue(b) \/ AbandonIssue(b)
       \/ \E right \in BOOLEAN : EnterCode(b, right)

AccountsSpec == AccountsInit /\ [][AccountsNext]_accountsVars

--------------------------------------------------------------------------------
(* Properties *)

(* No two internal accounts ever share an address, however long a change     *)
(* waited for its confirmation while other accounts were created, changed    *)
(* and deactivated: the database has no index that would say so.             *)
OneEmailEach ==
  \A p, q \in People : p # q /\ accounts[p].exists => accounts[p].email # accounts[q].email

(* Somebody can always administer the accounts: no order of role changes,    *)
(* deactivations and address changes leaves the office without one.          *)
AnAdminRemains == \E p \in People : Administers(p)

(* A new password differs from the last HistoryLimit the account had,        *)
(* wherever earlier changes ended; only a password whose own change and the   *)
(* next both ended before remembering it is left out.                        *)
RecentPasswordsDiffer ==
  [][\A p \in People :
       past'[p] # past[p] \/ password'[p] # password[p] =>
         password'[p] \notin ToSet(Newest(past'[p]))]_accountsVars

(* Wrong passwords of requests that passed the check before the lock never   *)
(* move a standing lock: it ends when it said it would, or is lifted.        *)
LockKeepsItsEnd ==
  [][LockStands(time, attempt) => attempt'.until \in {attempt.until, Unset}]_accountsVars

(* Nobody signs in with a code that a later one replaced, in whichever       *)
(* browser it was asked for: only codes that were being issued at once leave  *)
(* each other usable.                                                        *)
NoReplacedCodeSignsIn ==
  [][\A b \in Clicks :
       browser[b].at = "code" /\ browser'[b].at = "in" =>
         \A m \in DOMAIN codes : codes[m].seen < browser[b].code]_accountsVars
================================================================================
