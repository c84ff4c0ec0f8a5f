--------------------------- MODULE AccountsProofs ---------------------------
(***************************************************************************)
(* Theorems about Accounts, for every set of accounts, calls, emails and   *)
(* passwords.  The invariant says of every token, handed out or about to   *)
(* be, that its account exists, that its version is not ahead of the       *)
(* account's, and that the password it was bought with is the account's    *)
(* while the versions agree.                                               *)
(***************************************************************************)
EXTENDS Accounts, TLAPS

\* The token follows its account.
Follows(tok) ==
  /\ users[tok.user].email # None
  /\ tok.tv <= users[tok.user].tv
  /\ tok.tv = users[tok.user].tv => tok.pw = users[tok.user].pw

\* Tokens handed out, and tokens of logins whose verification is done.
TokensFollow ==
  /\ \A tok \in tokens : Follows(tok)
  /\ \A l \in Logins : upc[l] = "issue" => issue[l] \in Token /\ Follows(issue[l])

\* A call that has not inserted its account finds its row absent.
RowsWait ==
  \A a \in Accounts : upc[a] \in {"idle", "read", "insert"} => users[a].email = None

\* A label belongs to the kinds of call that have it.
LabelsOwn ==
  \A r \in Calls :
    /\ upc[r] = "issue" => r \in Logins
    /\ upc[r] = "audit" => r \in Creates \cup Patches
    /\ upc[r] = "refresh" => r \in Seeds

AccInv ==
  AccTypeOK /\ TokensFollow /\ RowsWait /\ LabelsOwn /\ OneAccountPerEmail

-----------------------------------------------------------------------------

\* The initial states are typed and hold no token.
LEMMA AccInitInv == AccInit => AccInv
  BY CallAssumption
  DEF AccInit, AccInv, AccTypeOK, TokensFollow, RowsWait, LabelsOwn,
      OneAccountPerEmail, NoUser, User, UPC, Calls

\* What a statement writes into the users table is a row.
LEMMA NewPasswordTyped ==
  \A row \in User, p \in Passwords :
    /\ NewPassword(row, p) \in User
    /\ [NewPassword(row, p) EXCEPT !.admin = TRUE, !.active = TRUE] \in User
<1> TAKE row \in User, p \in Passwords
<1>1. row.tv + 1 \in Nat
  BY DEF User
<1>2. NewPassword(row, p) \in User
  BY <1>1 DEF NewPassword, User
<1>3. \A new \in User : [new EXCEPT !.admin = TRUE, !.active = TRUE] \in User
  BY DEF User
<1> QED
  BY <1>2, <1>3

LEMMA NewUserTyped ==
  \A e \in Emails \cup {None}, p \in Passwords, adm \in BOOLEAN :
    NewUser(e, p, adm) \in User
  BY DEF NewUser, User

\* Every step of a call keeps the types.
LEMMA AccTypeStep == AccInv /\ [AccNext]_avars => AccTypeOK'
<1> SUFFICES ASSUME AccInv, [AccNext]_avars
             PROVE  AccTypeOK'
  OBVIOUS
<1> USE CallAssumption, NoneAssumption, AdminAssumption
<1> USE DEF AccInv, AccTypeOK, UPC, UGoto, Calls, Accounts, Authed
<1>1. CASE UNCHANGED avars
  BY <1>1 DEF avars
<1>2. ASSUME NEW s \in Seeds, SeedRead(s) \/ SeedRefresh(s) \/ SeedInsert(s)
      PROVE  AccTypeOK'
  <2>1. CASE SeedRead(s)
    BY <2>1 DEF SeedRead, Holders
  <2>2. CASE SeedRefresh(s)
    <3>1. users' \in [Accounts -> User]
      BY <2>2, NewPasswordTyped DEF SeedRefresh
    <3> QED
      BY <2>2, <3>1 DEF SeedRefresh
  <2>3. CASE SeedInsert(s)
    BY <2>3 DEF SeedInsert, NewUser, User
  <2> QED
    BY <1>2, <2>1, <2>2, <2>3
<1>3. ASSUME NEW l \in Logins, LoginIssue(l)
      PROVE  AccTypeOK'
  BY <1>3 DEF LoginIssue, TokensFollow
<1>4. ASSUME NEW l \in Logins, NEW e \in Emails, NEW p \in Passwords, LoginRead(l, e, p)
      PROVE  AccTypeOK'
  <2>1. CASE issue' = issue
    BY <1>4, <2>1 DEF LoginRead
  <2>2. ASSUME NEW u \in Holders(e),
               issue' = [issue EXCEPT ![l] = [user |-> u, tv |-> users[u].tv,
                                              admin |-> users[u].admin, pw |-> p]]
        PROVE  AccTypeOK'
    <3>1. u \in Accounts /\ users[u] \in User
      BY DEF Holders
    <3>2. [user |-> u, tv |-> users[u].tv, admin |-> users[u].admin, pw |-> p] \in Token
      BY <3>1 DEF User, Token
    <3>3. issue' \in [Logins -> Token \cup {None}]
      BY <2>2, <3>2
    <3> QED
      BY <1>4, <3>3 DEF LoginRead
  <2> QED
    BY <1>4, <2>1, <2>2 DEF LoginRead
<1>5. ASSUME NEW r \in Authed, NEW tok \in tokens, NEW u \in Accounts, Authorise(r, tok, u)
      PROVE  AccTypeOK'
  <2>1. tok.user \in Accounts
    BY DEF Token
  <2> QED
    BY <1>5, <2>1 DEF Authorise
<1>6. ASSUME NEW c \in Creates, NEW e \in Emails, CreateRead(c, e)
      PROVE  AccTypeOK'
  BY <1>6 DEF CreateRead
<1>7. ASSUME NEW c \in Creates, NEW p \in Passwords, NEW adm \in BOOLEAN,
             CreateInsert(c, p, adm)
      PROVE  AccTypeOK'
  <2>1. users' \in [Accounts -> User]
    BY <1>7, NewUserTyped DEF CreateInsert
  <2> QED
    BY <1>7, <2>1 DEF CreateInsert
<1>8. ASSUME NEW r \in Changes, NEW p \in Passwords, ChangeRead(r, p) \/ ChangeCommit(r, p)
      PROVE  AccTypeOK'
  <2>1. CASE ChangeRead(r, p)
    BY <2>1 DEF ChangeRead
  <2>2. CASE ChangeCommit(r, p)
    <3>1. users' \in [Accounts -> User]
      BY <2>2, NewPasswordTyped DEF ChangeCommit
    <3> QED
      BY <2>2, <3>1 DEF ChangeCommit
  <2> QED
    BY <1>8, <2>1, <2>2
<1>9. ASSUME NEW r \in Patches, NEW empty \in BOOLEAN, PatchRead(r, empty)
      PROVE  AccTypeOK'
  BY <1>9 DEF PatchRead
<1>10. ASSUME NEW r \in Patches, NEW adm \in BOOLEAN, NEW act \in BOOLEAN,
              PatchCommit(r, adm, act)
       PROVE  AccTypeOK'
  <2>1. \A row \in User : [row EXCEPT !.admin = adm, !.active = act] \in User
    BY DEF User
  <2>2. users' \in [Accounts -> User]
    BY <1>10, <2>1 DEF PatchCommit
  <2> QED
    BY <1>10, <2>2 DEF PatchCommit
<1>11. ASSUME NEW r \in Calls, UserAudit(r) \/ UStop(r)
       PROVE  AccTypeOK'
  BY <1>11 DEF UserAudit, UStop, LabelsOwn
<1> QED
  BY <1>1, <1>2, <1>3, <1>4, <1>5, <1>6, <1>7, <1>8, <1>9, <1>10, <1>11 DEF AccNext

-----------------------------------------------------------------------------
(* What a step does to a row *)

Kept(u) ==
  /\ users'[u].email = users[u].email
  /\ users'[u].pw = users[u].pw
  /\ users'[u].tv = users[u].tv

Renewed(u) ==
  /\ users'[u].email = users[u].email
  /\ users'[u].tv = users[u].tv + 1

Inserted(u) ==
  /\ upc[u] = "insert" /\ upc'[u] \in {"audit", "ok"}
  /\ \A v \in Accounts : users[v].email # users'[u].email
  /\ \A v \in Accounts \ {u} : users'[v] = users[v]

\* A step keeps a row's email, password and version, renews its version, or
\* inserts the row of the call that takes the step.
LEMMA RowStep ==
  ASSUME AccInv, [AccNext]_avars, NEW u \in Accounts
  PROVE  Kept(u) \/ Renewed(u) \/ Inserted(u)
<1>t. users \in [Accounts -> User]
  BY DEF AccInv, AccTypeOK
<1>1. CASE UNCHANGED users
  BY <1>1 DEF Kept
<1>2. ASSUME NEW s \in Seeds, SeedRefresh(s)
      PROVE  Kept(u) \/ Renewed(u)
  <2>1. CASE who[s] = u
    BY <1>2, <2>1, <1>t DEF SeedRefresh, NewPassword, Renewed, User
  <2>2. CASE who[s] # u
    BY <1>2, <2>2, <1>t DEF SeedRefresh, Kept
  <2> QED
    BY <2>1, <2>2
<1>3. ASSUME NEW a \in Accounts, NEW e, NEW p, NEW adm, EmailFree(e),
             upc[a] = "insert", upc'[a] \in {"audit", "ok"},
             users' = [users EXCEPT ![a] = NewUser(e, p, adm)]
      PROVE  Kept(u) \/ Inserted(u)
  <2>1. CASE a = u
    <3>1. users'[u].email = e
      BY <1>3, <2>1, <1>t DEF NewUser
    <3>2. \A v \in Accounts : users[v].email # e
      BY <1>3 DEF EmailFree, Holders
    <3> QED
      BY <1>3, <2>1, <3>1, <3>2, <1>t DEF Inserted
  <2>2. CASE a # u
    BY <1>3, <2>2, <1>t DEF Kept
  <2> QED
    BY <2>1, <2>2
<1>4. ASSUME NEW s \in Seeds, SeedInsert(s)
      PROVE  Kept(u) \/ Renewed(u) \/ Inserted(u)
  <2>1. s \in Accounts /\ upc[s] = "insert" /\ upc'[s] = "ok"
    BY <1>4 DEF SeedInsert, UGoto, Accounts, Calls, AccInv, AccTypeOK
  <2>2. CASE EmailFree(AdminEmail)
    <3>1. users' = [users EXCEPT ![s] = NewUser(AdminEmail, AdminPassword, TRUE)]
      BY <1>4, <2>2 DEF SeedInsert
    <3> QED
      BY <1>3, <2>1, <2>2, <3>1
  <2> QED
    BY <1>1, <1>4, <2>2 DEF SeedInsert
<1>5. ASSUME NEW c \in Creates, NEW p \in Passwords, NEW adm \in BOOLEAN,
             CreateInsert(c, p, adm)
      PROVE  Kept(u) \/ Renewed(u) \/ Inserted(u)
  <2>1. c \in Accounts /\ upc[c] = "insert"
    BY <1>5 DEF CreateInsert, Accounts
  <2>2. CASE EmailFree(email[c])
    <3>1. /\ users' = [users EXCEPT ![c] = NewUser(email[c], p, adm)]
          /\ upc'[c] = "audit"
      BY <1>5, <2>1, <2>2 DEF CreateInsert, UGoto, Calls, AccInv, AccTypeOK
    <3> QED
      BY <1>3, <2>1, <2>2, <3>1
  <2> QED
    BY <1>1, <1>5, <2>2 DEF CreateInsert
<1>6. ASSUME NEW r \in Changes, NEW p \in Passwords, ChangeCommit(r, p)
      PROVE  Kept(u) \/ Renewed(u)
  <2>1. CASE who[r] = u
    BY <1>6, <2>1, <1>t DEF ChangeCommit, NewPassword, Renewed, User
  <2>2. CASE who[r] # u
    BY <1>6, <2>2, <1>t DEF ChangeCommit, Kept
  <2> QED
    BY <2>1, <2>2
<1>7. ASSUME NEW r \in Patches, NEW adm \in BOOLEAN, NEW act \in BOOLEAN,
             PatchCommit(r, adm, act)
      PROVE  Kept(u)
  <2>1. CASE who[r] = u
    BY <1>7, <2>1, <1>t DEF PatchCommit, Kept, User
  <2>2. CASE who[r] # u
    BY <1>7, <2>2, <1>t DEF PatchCommit, Kept
  <2> QED
    BY <2>1, <2>2
<1> QED
  BY <1>1, <1>2, <1>4, <1>5, <1>6, <1>7
  DEF AccNext, avars, SeedRead, LoginRead, LoginIssue, Authorise, CreateRead,
      ChangeRead, PatchRead, UserAudit, UStop

\* A token that follows its account goes on following it.
LEMMA FollowsStep ==
  ASSUME AccInv, [AccNext]_avars, NEW tok \in Token, Follows(tok)
  PROVE  Follows(tok)'
<1> DEFINE u == tok.user
<1>1. u \in Accounts /\ tok.tv \in Nat
  BY DEF Token
<1>2. users[u] \in User /\ users'[u] \in User
  BY <1>1, AccTypeStep DEF AccInv, AccTypeOK
<1>3. ~Inserted(u)
  BY <1>1 DEF Inserted, AccInv, RowsWait, Follows
<1>4. Kept(u) \/ Renewed(u)
  BY <1>1, <1>3, RowStep
<1>5. users[u].tv \in Nat
  BY <1>2 DEF User
<1> QED
  BY <1>1, <1>4, <1>5 DEF Follows, Kept, Renewed

\* Two accounts never come to share an email.
LEMMA EmailStep == AccInv /\ [AccNext]_avars => OneAccountPerEmail'
<1> SUFFICES ASSUME AccInv, [AccNext]_avars, NEW u \in Accounts, NEW v \in Accounts,
                    users'[u].email = users'[v].email, users'[u].email # None
             PROVE  u = v
  BY DEF OneAccountPerEmail, Accounts
<1>1. CASE Inserted(u)
  BY <1>1 DEF Inserted
<1>2. CASE Inserted(v)
  BY <1>2 DEF Inserted
<1>3. CASE ~Inserted(u) /\ ~Inserted(v)
  BY <1>3, RowStep DEF Kept, Renewed, AccInv, OneAccountPerEmail
<1> QED
  BY <1>1, <1>2, <1>3

\* A call that still waits to insert its account finds its row absent.
LEMMA RowsWaitStep == AccInv /\ [AccNext]_avars => RowsWait'
<1> SUFFICES ASSUME AccInv, [AccNext]_avars, NEW a \in Accounts,
                    upc'[a] \in {"idle", "read", "insert"}
             PROVE  users'[a].email = None
  BY DEF RowsWait, Accounts
<1>1. upc[a] \in {"idle", "read", "insert"}
  <2>1. upc \in [Calls -> UPC] /\ a \in Calls
    BY DEF AccInv, AccTypeOK, Calls
  <2> QED
    BY <2>1
    DEF AccNext, avars, UGoto, SeedRead, SeedRefresh, SeedInsert, LoginRead, LoginIssue,
        Authorise, CreateRead, CreateInsert, ChangeRead, ChangeCommit, PatchRead,
        PatchCommit, UserAudit, UStop
<1>2. ~Inserted(a)
  BY DEF Inserted
<1> QED
  BY <1>1, <1>2, RowStep DEF AccInv, RowsWait, Kept, Renewed

\* The labels of a call stay the labels of its kind.
LEMMA LabelsStep == AccInv /\ [AccNext]_avars => LabelsOwn'
<1> SUFFICES ASSUME AccInv, [AccNext]_avars, NEW r \in Calls
             PROVE  /\ upc'[r] = "issue" => r \in Logins
                    /\ upc'[r] = "audit" => r \in Creates \cup Patches
                    /\ upc'[r] = "refresh" => r \in Seeds
  BY DEF LabelsOwn, Calls, Accounts
<1>1. upc \in [Calls -> UPC]
  BY DEF AccInv, AccTypeOK
<1> QED
  BY <1>1
  DEF AccInv, LabelsOwn, AccNext, avars, UGoto, SeedRead, SeedRefresh, SeedInsert,
      LoginRead, LoginIssue, Authorise, CreateRead, CreateInsert, ChangeRead,
      ChangeCommit, PatchRead, PatchCommit, UserAudit, UStop

\* The tokens handed out, and those about to be, go on following their accounts;
\* a login is about to be given a token of the row it reads.
LEMMA TokensStep == AccInv /\ [AccNext]_avars => TokensFollow'
<1> SUFFICES ASSUME AccInv, [AccNext]_avars
             PROVE  TokensFollow'
  OBVIOUS
<1>t. /\ tokens \subseteq Token
      /\ issue \in [Logins -> Token \cup {None}]
      /\ upc \in [Calls -> UPC]
  BY DEF AccInv, AccTypeOK
<1>f. TokensFollow
  BY DEF AccInv
<1>1. ASSUME NEW l \in Logins, LoginIssue(l)
      PROVE  TokensFollow'
  <2>1. /\ upc[l] = "issue" /\ tokens' = tokens \cup {issue[l]} /\ issue' = issue
        /\ \A m \in Logins : upc'[m] = "issue" => upc[m] = "issue"
    BY <1>1, <1>t DEF LoginIssue, UGoto, Calls
  <2> QED
    BY <2>1, <1>f, <1>t, FollowsStep DEF TokensFollow
<1>2. ASSUME NEW l \in Logins, NEW e \in Emails, NEW p \in Passwords, LoginRead(l, e, p)
      PROVE  TokensFollow'
  <2>1. /\ tokens' = tokens /\ users' = users
        /\ \A m \in Logins \ {l} : issue'[m] = issue[m] /\ upc'[m] = upc[m]
    BY <1>2, <1>t DEF LoginRead, UGoto, Calls
  <2>2. ASSUME upc'[l] = "issue"
        PROVE  issue'[l] \in Token /\ Follows(issue[l])'
    <3>1. PICK u \in Holders(e) :
            /\ users[u].pw = p
            /\ issue' = [issue EXCEPT ![l] = [user |-> u, tv |-> users[u].tv,
                                              admin |-> users[u].admin, pw |-> p]]
      BY <1>2, <2>2, <1>t DEF LoginRead, UGoto, Calls
    <3>2. u \in Accounts /\ users[u] \in User /\ users[u].email = e /\ e # None
      BY NoneAssumption DEF Holders, AccInv, AccTypeOK, Accounts
    <3>3. issue'[l] = [user |-> u, tv |-> users[u].tv, admin |-> users[u].admin, pw |-> p]
      BY <3>1, <1>t
    <3>4. users[u].tv \in Nat /\ users[u].admin \in BOOLEAN
      BY <3>2 DEF User
    <3> QED
      BY <2>1, <3>1, <3>2, <3>3, <3>4 DEF Follows, Token
  <2>3. \A tok \in tokens' : Follows(tok)'
    BY <2>1, <1>f, <1>t, FollowsStep DEF TokensFollow
  <2>4. \A m \in Logins \ {l} :
          upc'[m] = "issue" => issue'[m] \in Token /\ Follows(issue[m])'
    BY <2>1, <1>f, <1>t, FollowsStep DEF TokensFollow
  <2> QED
    BY <2>2, <2>3, <2>4 DEF TokensFollow
<1>3. CASE /\ UNCHANGED <<tokens, issue>>
           /\ \A l \in Logins : upc'[l] = "issue" => upc[l] = "issue"
  BY <1>3, <1>f, <1>t, FollowsStep DEF TokensFollow
<1>4. CASE ~(\E l \in Logins : LoginIssue(l) \/ \E e \in Emails, p \in Passwords : LoginRead(l, e, p))
  <2>1. UNCHANGED <<tokens, issue>>
    BY <1>4
    DEF AccNext, avars, SeedRead, SeedRefresh, SeedInsert, Authorise, CreateRead,
        CreateInsert, ChangeRead, ChangeCommit, PatchRead, PatchCommit, UserAudit, UStop
  <2>2. \A l \in Logins : upc'[l] = "issue" => upc[l] = "issue"
    BY <1>4, <1>t
    DEF AccNext, avars, UGoto, Calls, SeedRead, SeedRefresh, SeedInsert, Authorise,
        CreateRead, CreateInsert, ChangeRead, ChangeCommit, PatchRead, PatchCommit,
        UserAudit, UStop
  <2> QED
    BY <1>3, <2>1, <2>2
<1> QED
  BY <1>1, <1>2, <1>4

-----------------------------------------------------------------------------
(* Theorems *)

\* Every reachable state satisfies the invariant: the types, one account per
\* email, and tokens that follow their accounts.
THEOREM AccInvariance == AccSpec => []AccInv
<1>1. AccInv /\ [AccNext]_avars => AccInv'
  BY AccTypeStep, EmailStep, RowsWaitStep, LabelsStep, TokensStep DEF AccInv
<1> QED
  BY AccInitInv, <1>1, PTL DEF AccSpec

\* Every variable keeps its type.
THEOREM AccTypeCorrect == AccSpec => []AccTypeOK
  BY AccInvariance, PTL DEF AccInv

\* core/security.py:114: no token bought with an earlier password is accepted,
\* for any number of logins, password changes and start-ups.
THEOREM PasswordChangeRevokes == AccSpec => []AcceptedTokenIsCurrent
<1>1. AccInv => AcceptedTokenIsCurrent
  BY DEF AccInv, TokensFollow, Follows, AcceptedTokenIsCurrent, Accepted
<1> QED
  BY AccInvariance, <1>1, PTL

\* One account per email, for any number of creates and start-ups.
THEOREM EmailsAreUnique == AccSpec => []OneAccountPerEmail
  BY AccInvariance, PTL DEF AccInv

=============================================================================
