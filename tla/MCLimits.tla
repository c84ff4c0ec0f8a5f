------------------------------ MODULE MCLimits ------------------------------
(***************************************************************************)
(* The two limits on callers for TLC.  The path of a login is exempt from  *)
(* the limit on calls (_RATE_LIMIT_EXEMPT of core/middleware.py), so that  *)
(* a call meets one of them: every behaviour is about calls to one path.   *)
(***************************************************************************)
EXTENDS RateLimit, LoginLimit, TLC

VARIABLE path   \* "/api/auth/login", or the others

limitVars == <<now, rateLocals, loginLocals, path>>

LimitsInit == path \in {"login", "other"} /\ RateInit /\ LoginInit

LimitsNext ==
  /\ UNCHANGED path
  /\ \/ path = "login" /\ LoginNext /\ UNCHANGED rateLocals
     \/ path = "other" /\ RateNext /\ UNCHANGED loginLocals

LimitsSpec == LimitsInit /\ [][LimitsNext]_limitVars

Symmetry == Permutations(Calls) \cup Permutations(Logins) \cup Permutations(Emails)

=============================================================================
