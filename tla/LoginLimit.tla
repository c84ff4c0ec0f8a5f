----------------------------- MODULE LoginLimit -----------------------------
(***************************************************************************)
(* The attempt limit of login: check_login_rate, record_failed_login,      *)
(* _evict_expired_attempts and clear_login_attempts of core/security.py,   *)
(* as services/user_service.py calls them.  _login_attempts is a dict of   *)
(* deques in the memory of one API process; the lookup of the user and the *)
(* verification of the password are awaits between the check and the       *)
(* record, so that other logins run in between.  Whether the password is   *)
(* right is any outcome here; what else login does is in Accounts.         *)
(***************************************************************************)
EXTENDS Clock, Sequences, FiniteSets

CONSTANTS
  Emails, Logins, NoEmail, MaxAttempts, AttemptWindow,
  MaxTracked   \* _MAX_TRACKED

ASSUME LoginAssumption ==
  /\ MaxAttempts \in Nat \ {0} /\ AttemptWindow \in Nat /\ MaxTracked \in Nat
  /\ NoEmail \notin Emails
  /\ IsFiniteSet(Logins)

VARIABLES
  attempts,    \* _login_attempts: a deque of times for each email in its domain
  doing, email,
  failures     \* the failures since the last success, for the properties only

Promise == INSTANCE Lockout

loginLocals == <<attempts, doing, email, failures>>

LoginTypeOK ==
  /\ now \in 0..MaxTime
  /\ DOMAIN attempts \subseteq Emails
  /\ \A e \in DOMAIN attempts : attempts[e] \in Seq(0..MaxTime)
  /\ doing \in [Logins -> Promise!Doing]
  /\ email \in [Logins -> Emails \cup {NoEmail}]
  /\ failures \in [Emails -> Seq(0..MaxTime)]

NoAttempts == [e \in {} |-> <<>>]

LoginInit == attempts = NoAttempts /\ Promise!LockInit

-----------------------------------------------------------------------------
(* core/security.py *)

Expired(s) == now - s > AttemptWindow

\* _login_attempts.setdefault(e, deque()).
Deque(e) == IF e \in DOMAIN attempts THEN attempts[e] ELSE <<>>

\* The loop of check_login_rate: expired entries leave at the front.
Pruned(q) ==
  LET kept == {i \in 1..Len(q) : ~Expired(q[i])}
  IN  IF kept = {} THEN <<>>
      ELSE SubSeq(q, CHOOSE i \in kept : \A j \in kept : i <= j, Len(q))

\* The dict d with the deque q for e.
With(d, e, q) == [x \in DOMAIN d \cup {e} |-> IF x = e THEN q ELSE d[x]]

\* The dict d without the emails in D.
Without(d, D) == [x \in DOMAIN d \ D |-> d[x]]

\* A mutant of Dead: the oldest failure is looked at, not the latest.
DeadByOldest(q) == q = <<>> \/ Expired(q[1])

\* An entry with no failure that counts.
Dead(q) == q = <<>> \/ Expired(q[Len(q)])

\* _evict_expired_attempts.
Evicted ==
  IF Cardinality(DOMAIN attempts) < MaxTracked THEN attempts
  ELSE Without(attempts, {e \in DOMAIN attempts : Dead(attempts[e])})

\* A mutant of Recorded: the time the failure expires is recorded.
RecordedExpiry(e) ==
  LET d == Evicted
  IN  With(d, e, Append(IF e \in DOMAIN d THEN d[e] ELSE <<>>, now + AttemptWindow))

\* record_failed_login.
Recorded(e) ==
  LET d == Evicted
  IN  With(d, e, Append(IF e \in DOMAIN d THEN d[e] ELSE <<>>, now))

\* A mutant of Passes: one failure more.
PassesOneMore(q) == Len(q) <= MaxAttempts

\* What check_login_rate returns.
Passes(q) == Len(q) < MaxAttempts

-----------------------------------------------------------------------------
(* login *)

\* check_login_rate, which adds and prunes the entry whatever it returns.
CheckLogin(l, e) ==
  /\ doing[l] # "verifying"
  /\ attempts' = With(attempts, e, Pruned(Deque(e)))
  /\ email' = [email EXCEPT ![l] = e]
  /\ doing' = [doing EXCEPT ![l] = IF Passes(Pruned(Deque(e))) THEN "verifying" ELSE "locked"]
  /\ UNCHANGED <<now, failures>>

\* No such user, or not the password.
FailLogin(l) ==
  /\ attempts' = Recorded(email[l])
  /\ Promise!Fail(l)

\* clear_login_attempts; the token is the rest of login.
SucceedLogin(l) ==
  /\ attempts' = Without(attempts, {email[l]})
  /\ Promise!Succeed(l)

\* The account is disabled, or the call stops at an await: neither recorded nor
\* cleared.
LeaveLogin(l) == Promise!Leave(l) /\ UNCHANGED attempts

\* The API process ends, and starts with an empty dict.
RestartApi == attempts' = NoAttempts /\ Promise!Forget

LoginNext ==
  \/ \E l \in Logins : \/ \E e \in Emails : CheckLogin(l, e)
                       \/ FailLogin(l) \/ SucceedLogin(l) \/ LeaveLogin(l)
  \/ RestartApi
  \/ Tick /\ UNCHANGED loginLocals

LoginSpec == LoginInit /\ [][LoginNext]_<<now, loginLocals>>

-----------------------------------------------------------------------------
(* Properties *)

\* services/user_service.py:23 "Too many failed attempts. Try again in 10
\* minutes.": an email is refused exactly while MaxAttempts failures since its
\* last success are within the window.  Neither pruning, nor the eviction of
\* other emails' entries, nor a success in between loses or adds a failure, and
\* a refused login does not prolong the lockout.
ImplementsLockout == Promise!LockSpec

\* The limit is checked before the password is verified and recorded after it,
\* so logins under way together may exceed it; but by no more than their number:
\* no window holds more than MaxAttempts - 1 + |Logins| failures of an email
\* (core/security.py:57, services/user_service.py:22-27).
FailuresBounded ==
  LET most == MaxAttempts - 1 + Cardinality(Logins)
  IN  \A e \in Emails : \A i \in 1..Len(failures[e]) :
        i + most <= Len(failures[e])
        => failures[e][i + most] - failures[e][i] > AttemptWindow

=============================================================================
