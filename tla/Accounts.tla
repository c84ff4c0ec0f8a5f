------------------------------ MODULE Accounts ------------------------------
(***************************************************************************)
(* User accounts and the tokens they hold: services/user_service.py,       *)
(* require_auth and require_admin of core/security.py, api/auth.py and     *)
(* api/users.py, called concurrently; every query and every password       *)
(* verification (in a thread) is an await between two actions.             *)
(*                                                                         *)
(* A salted hash verifies exactly the password it was made of, so a row    *)
(* holds the password itself.  A token carries what create_token signs;    *)
(* `pw`, the password it was bought with, is recorded for the properties   *)
(* only.  Expiry, names, and the attempt limit of login are left out.  An  *)
(* input that a handler does not look at before it writes it is chosen     *)
(* when it is written.                                                     *)
(***************************************************************************)
EXTENDS Naturals, FiniteSets

CONSTANTS
  Emails, AdminEmail,        \* AdminEmail: admin_email of core/config.py
  Passwords, AdminPassword,  \* AdminPassword: admin_password of core/config.py
  None,                      \* no email, password, account or token
  Production,                \* environment = "production"
  Seeds,       \* start-ups of an API process: seed_admin
  Creates,     \* POST /api/users
  Logins,      \* POST /api/auth/login
  Changes,     \* POST /api/auth/change-password
  Patches      \* PATCH /api/users/{id}

Accounts == Seeds \cup Creates   \* a user id is the uuid its insert draws
Calls == Accounts \cup Logins \cup Changes \cup Patches
Authed == Creates \cup Changes \cup Patches

ASSUME AdminAssumption ==
  AdminEmail \in Emails /\ AdminPassword \in Passwords /\ Production \in BOOLEAN
ASSUME NoneAssumption == None \notin Emails \cup Passwords \cup Accounts
ASSUME CallAssumption ==
  /\ Seeds \cap Creates = {}
  /\ Logins \cap (Accounts \cup Changes \cup Patches) = {}
  /\ Changes \cap (Accounts \cup Patches) = {}
  /\ Patches \cap Accounts = {}

VARIABLES
  users,       \* users[u]: the row of u
  tokens,      \* the tokens handed out
  userAudit,   \* calls with a row in audit_log
  upc,         \* upc[r]: where call r is
  email,       \* email[c]: the email create c was given
  who,         \* who[r]: the account call r acts on
  issue        \* issue[l]: the token login l is about to be given

avars == <<users, tokens, userAudit, upc, email, who, issue>>

User == [email : Emails \cup {None}, pw : Passwords \cup {None}, tv : Nat,
         admin : BOOLEAN, active : BOOLEAN]

NoUser == [email |-> None, pw |-> None, tv |-> 0, admin |-> FALSE, active |-> FALSE]

Token == [user : Accounts, tv : Nat, admin : BOOLEAN, pw : Passwords]

UPC == {"idle", "read", "insert", "refresh", "commit", "issue", "audit",
        "ok", "rejected", "raised", "stopped"}

UEnded == {"ok", "rejected", "raised", "stopped"}

AccTypeOK ==
  /\ users \in [Accounts -> User]
  /\ tokens \subseteq Token
  /\ userAudit \subseteq Creates \cup Patches
  /\ upc \in [Calls -> UPC]
  /\ email \in [Creates -> Emails \cup {None}]
  /\ who \in [Seeds \cup Changes \cup Patches -> Accounts \cup {None}]
  /\ issue \in [Logins -> Token \cup {None}]

AccInit ==
  /\ users = [u \in Accounts |-> NoUser]
  /\ tokens = {}
  /\ userAudit = {}
  /\ upc = [r \in Calls |-> "idle"]
  /\ email = [c \in Creates |-> None]
  /\ who = [r \in Seeds \cup Changes \cup Patches |-> None]
  /\ issue = [l \in Logins |-> None]

UGoto(r, l) == upc' = [upc EXCEPT ![r] = l]

-----------------------------------------------------------------------------
(* The users table *)

Holders(e) == {u \in Accounts : users[u].email = e}

\* A mutant of EmailFree: the column without its constraint.
EmailFreeNoConstraint(e) == e \in Emails

\* The UNIQUE constraint on email.
EmailFree(e) == Holders(e) = {}

\* A mutant of NewUser: token_version without its default.
NewUserNoDefault(e, p, adm) ==
  [email |-> e, pw |-> p, tv |-> None, admin |-> adm, active |-> TRUE]

\* insert_user, with the columns' defaults.
NewUser(e, p, adm) ==
  [email |-> e, pw |-> p, tv |-> 0, admin |-> adm, active |-> TRUE]

\* A mutant of NewPassword: increment_token_version forgotten.
NewPasswordOnly(row, p) == [row EXCEPT !.pw = p]

\* A row after update_user with a password_hash and increment_token_version.
NewPassword(row, p) == [row EXCEPT !.pw = p, !.tv = @ + 1]

-----------------------------------------------------------------------------
(* seed_admin, before a process serves requests *)

NeedsRefresh(u) ==
  ~users[u].admin \/ ~users[u].active \/ users[u].pw # AdminPassword

\* The lookup by admin_email: insert, refresh, or leave the account alone.
SeedRead(s) ==
  /\ upc[s] = "idle" /\ s \in Seeds
  /\ IF Holders(AdminEmail) = {}
       THEN UGoto(s, "insert") /\ UNCHANGED who
       ELSE \E u \in Holders(AdminEmail) :
              /\ who' = [who EXCEPT ![s] = u]
              /\ UGoto(s, IF ~Production /\ NeedsRefresh(u) THEN "refresh" ELSE "ok")
  /\ UNCHANGED <<users, tokens, userAudit, email, issue>>

SeedRefresh(s) ==
  /\ upc[s] = "refresh"
  /\ users' = [users EXCEPT ![who[s]] =
       [NewPassword(@, AdminPassword) EXCEPT !.admin = TRUE, !.active = TRUE]]
  /\ UGoto(s, "ok")
  /\ UNCHANGED <<tokens, userAudit, email, who, issue>>

\* INSERT ... ON CONFLICT (email) DO NOTHING.
SeedInsert(s) ==
  /\ upc[s] = "insert" /\ s \in Seeds
  /\ users' = IF EmailFree(AdminEmail)
                THEN [users EXCEPT ![s] = NewUser(AdminEmail, AdminPassword, TRUE)]
                ELSE users
  /\ UGoto(s, "ok")
  /\ UNCHANGED <<tokens, userAudit, email, who, issue>>

-----------------------------------------------------------------------------
(* login *)

\* get_user_by_email and verify_password, on the row as it is read.
LoginRead(l, e, p) ==
  /\ upc[l] = "idle" /\ l \in Logins
  /\ \/ /\ \A u \in Holders(e) : users[u].pw # p \/ ~users[u].active
        /\ UGoto(l, "rejected") /\ UNCHANGED issue
     \/ \E u \in Holders(e) :
          /\ users[u].pw = p /\ users[u].active
          /\ issue' = [issue EXCEPT ![l] =
               [user |-> u, tv |-> users[u].tv, admin |-> users[u].admin, pw |-> p]]
          /\ UGoto(l, "issue")
  /\ UNCHANGED <<users, tokens, userAudit, email, who>>

\* create_token, once the verification's thread is done.
LoginIssue(l) ==
  /\ upc[l] = "issue"
  /\ tokens' = tokens \cup {issue[l]}
  /\ UGoto(l, "ok")
  /\ UNCHANGED <<users, userAudit, email, who, issue>>

-----------------------------------------------------------------------------
(* Calls that need a token *)

\* require_auth: the account is active and has the token's version.
Accepted(tok) == users[tok.user].active /\ users[tok.user].tv = tok.tv

\* require_admin goes by the role the token carries.
Admitted(r, tok) == Accepted(tok) /\ (r \in Changes \/ tok.admin)

\* A call arrives with a token, about account u: change_password is about the
\* token's own.
Authorise(r, tok, u) ==
  /\ upc[r] = "idle" /\ r \in Authed
  /\ UGoto(r, IF Admitted(r, tok) THEN "read" ELSE "rejected")
  /\ who' = IF r \in Creates THEN who
            ELSE [who EXCEPT ![r] = IF r \in Changes THEN tok.user ELSE u]
  /\ UNCHANGED <<users, tokens, userAudit, email, issue>>

\* create_user looks the email up: 409 if it is taken.
CreateRead(c, e) ==
  /\ upc[c] = "read" /\ c \in Creates
  /\ email' = [email EXCEPT ![c] = e]
  /\ UGoto(c, IF Holders(e) = {} THEN "insert" ELSE "rejected")
  /\ UNCHANGED <<users, tokens, userAudit, who, issue>>

\* The loser of a race to the insert gets an uncaught UniqueViolationError.
CreateInsert(c, p, adm) ==
  /\ upc[c] = "insert" /\ c \in Creates
  /\ IF EmailFree(email[c])
       THEN users' = [users EXCEPT ![c] = NewUser(email[c], p, adm)] /\ UGoto(c, "audit")
       ELSE UNCHANGED users /\ UGoto(c, "raised")
  /\ UNCHANGED <<tokens, userAudit, email, who, issue>>

\* change_password reads its row and verifies the current password given.
ChangeRead(r, cur) ==
  /\ upc[r] = "read" /\ r \in Changes
  /\ UGoto(r, IF users[who[r]].pw = cur THEN "commit" ELSE "rejected")
  /\ UNCHANGED <<users, tokens, userAudit, email, who, issue>>

\* Its transaction.
ChangeCommit(r, p) ==
  /\ upc[r] = "commit" /\ r \in Changes
  /\ users' = [users EXCEPT ![who[r]] = NewPassword(@, p)]
  /\ UGoto(r, "ok")
  /\ UNCHANGED <<tokens, userAudit, email, who, issue>>

\* update_user reads the row: 404 without one; a PATCH of nothing only reads.
PatchRead(r, empty) ==
  /\ upc[r] = "read" /\ r \in Patches
  /\ UGoto(r, IF users[who[r]].email = None THEN "rejected"
              ELSE IF empty THEN "ok" ELSE "commit")
  /\ UNCHANGED <<users, tokens, userAudit, email, who, issue>>

\* Role and active, one of them possibly as it was.
PatchCommit(r, adm, act) ==
  /\ upc[r] = "commit" /\ r \in Patches
  /\ users' = [users EXCEPT ![who[r]] = [@ EXCEPT !.admin = adm, !.active = act]]
  /\ UGoto(r, "audit")
  /\ UNCHANGED <<tokens, userAudit, email, who, issue>>

\* The audit row of create_user and of update_user, committed on its own.
UserAudit(r) ==
  /\ upc[r] = "audit"
  /\ userAudit' = userAudit \cup {r}
  /\ UGoto(r, "ok")
  /\ UNCHANGED <<users, tokens, email, who, issue>>

\* The call stops at an await and what it committed stays.
UStop(r) ==
  /\ upc[r] \notin UEnded \cup {"idle"}
  /\ UGoto(r, "stopped")
  /\ UNCHANGED <<users, tokens, userAudit, email, who, issue>>

AccNext ==
  \/ \E s \in Seeds : SeedRead(s) \/ SeedRefresh(s) \/ SeedInsert(s)
  \/ \E l \in Logins : LoginIssue(l) \/ \E e \in Emails, p \in Passwords : LoginRead(l, e, p)
  \/ \E r \in Authed, tok \in tokens, u \in Accounts : Authorise(r, tok, u)
  \/ \E c \in Creates, e \in Emails : CreateRead(c, e)
  \/ \E c \in Creates, p \in Passwords, adm \in BOOLEAN : CreateInsert(c, p, adm)
  \/ \E r \in Changes, p \in Passwords : ChangeRead(r, p) \/ ChangeCommit(r, p)
  \/ \E r \in Patches, empty \in BOOLEAN : PatchRead(r, empty)
  \/ \E r \in Patches, adm, act \in BOOLEAN : PatchCommit(r, adm, act)
  \/ \E r \in Calls : UserAudit(r) \/ UStop(r)

AccSpec == AccInit /\ [][AccNext]_avars

-----------------------------------------------------------------------------
(* Properties *)

\* core/security.py:114 "invalidates all tokens issued before password change":
\* a token that require_auth accepts was bought with the password the account
\* has now.  Logins, password changes and start-ups race: the version a token
\* carries and the password checked for it come from one row that was read, and
\* every new password is committed with a new version.
AcceptedTokenIsCurrent ==
  \A tok \in tokens : Accepted(tok) => users[tok.user].pw = tok.pw

\* An email names at most one account, whichever of two creates and two
\* start-ups looked it up before the other's insert.
OneAccountPerEmail ==
  \A u, v \in Accounts :
    users[u].email = users[v].email /\ users[u].email # None => u = v

=============================================================================
