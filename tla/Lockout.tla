------------------------------ MODULE Lockout -------------------------------
(***************************************************************************)
(* What the attempt limit of login promises, apart from how it is kept: an *)
(* email is locked out while MaxAttempts of its failures since its last    *)
(* success are no older than the window.                                   *)
(***************************************************************************)
EXTENDS Clock, Sequences

CONSTANTS
  Emails,
  Logins,        \* the logins a process can have under way at once
  NoEmail,       \* the email of a login not used yet
  MaxAttempts,   \* _MAX_ATTEMPTS
  AttemptWindow  \* _ATTEMPT_WINDOW

VARIABLES
  failures,    \* failures[e]: when logins of e failed, since its last success
  doing,       \* doing[l]: what login l is doing, or how it ended
  email        \* email[l]: the email login l was given

lockvars == <<now, failures, doing, email>>

Doing == {"idle", "verifying", "locked"}

LoginGoto(l, d) == doing' = [doing EXCEPT ![l] = d]

LockInit ==
  /\ now = 0
  /\ failures = [e \in Emails |-> <<>>]
  /\ doing = [l \in Logins |-> "idle"]
  /\ email = [l \in Logins |-> NoEmail]

\* The MaxAttempts-th latest failure is no older than the window.
LockedOut(e) ==
  /\ Len(failures[e]) >= MaxAttempts
  /\ now - failures[e][Len(failures[e]) - MaxAttempts + 1] <= AttemptWindow

\* A login is refused exactly while its email is locked out.
Try(l, e) ==
  /\ doing[l] # "verifying"
  /\ email' = [email EXCEPT ![l] = e]
  /\ LoginGoto(l, IF LockedOut(e) THEN "locked" ELSE "verifying")
  /\ UNCHANGED <<now, failures>>

Fail(l) ==
  /\ doing[l] = "verifying"
  /\ failures' = [failures EXCEPT ![email[l]] = Append(@, now)]
  /\ LoginGoto(l, "idle")
  /\ UNCHANGED <<now, email>>

Succeed(l) ==
  /\ doing[l] = "verifying"
  /\ failures' = [failures EXCEPT ![email[l]] = <<>>]
  /\ LoginGoto(l, "idle")
  /\ UNCHANGED <<now, email>>

\* A login that ends as neither.
Leave(l) ==
  /\ doing[l] = "verifying"
  /\ LoginGoto(l, "idle")
  /\ UNCHANGED <<now, failures, email>>

\* The limit does not survive its process.
Forget ==
  /\ failures' = [e \in Emails |-> <<>>]
  /\ doing' = [l \in Logins |-> "idle"]
  /\ UNCHANGED <<now, email>>

LockNext ==
  \/ \E l \in Logins : (\E e \in Emails : Try(l, e)) \/ Fail(l) \/ Succeed(l) \/ Leave(l)
  \/ Forget
  \/ Tick /\ UNCHANGED <<failures, doing, email>>

LockSpec == LockInit /\ [][LockNext]_lockvars

=============================================================================
