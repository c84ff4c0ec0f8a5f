------------------------------ MODULE Insights ------------------------------
(***************************************************************************)
(* What get_operational_insights of db/store.py says of the ticket         *)
(* service's and the workers' work: the open tickets, counted by status,   *)
(* and their history hour by hour, counted by created_at and resolved_at.  *)
(* Only POST resolve sets resolved_at, and nothing clears it.              *)
(*                                                                         *)
(* Time is the hour; hour h begins at bucket h of the history, and what    *)
(* happens in it happens after the bucket.  The window of the query holds  *)
(* all of the model's hours.  Titles, ages, the agents' figures and the    *)
(* percentages are left out.                                               *)
(***************************************************************************)
EXTENDS StatusLedger, Clock

VARIABLES
  created,     \* created[t]: the hour of created_at
  resolved,    \* resolved[t]: the hour of resolved_at
  wasOpen      \* wasOpen[b]: what was open at bucket b, for the property only

insVars == <<now, created, resolved, wasOpen>>

\* NULL in created_at (no row) and resolved_at.
Never == MaxTime + 1

InsTypeOK ==
  /\ now \in 0..MaxTime
  /\ created \in [Tickets -> 0..Never] /\ resolved \in [Tickets -> 0..Never]
  /\ \A t \in Tickets : tickets[t].resolvedAt <=> resolved[t] # Never
  /\ wasOpen \in [0..MaxTime -> SUBSET Tickets]

InsInit ==
  /\ LedgerInit
  /\ now = 0
  /\ created = [t \in Tickets |-> Never] /\ resolved = [t \in Tickets |-> Never]
  /\ wasOpen = [b \in 0..MaxTime |-> {}]

-----------------------------------------------------------------------------
(* The statements that set the columns *)

\* created_at, a default of the column.
CreatedNow(t) == ~Exists(t) /\ Exists(t)'

\* A mutant of ResolvedNow: PATCH sets resolved_at as well.
EverResolved(t) == tickets[t].status # "resolved" /\ tickets'[t].status = "resolved"

\* The update_ticket of resolve.
ResolvedNow(t) ==
  \E r \in Resolves : target[r] = t /\ pc[r] = "txn" /\ pc'[r] = "reply"

\* A step of a request or of a job.
Serve ==
  /\ LedgerNext
  /\ created' = [t \in Tickets |-> IF CreatedNow(t) THEN now ELSE created[t]]
  /\ resolved' = [t \in Tickets |-> IF ResolvedNow(t) THEN now ELSE resolved[t]]
  /\ UNCHANGED <<now, wasOpen>>

-----------------------------------------------------------------------------
(* The queries *)

\* status NOT IN ('resolved','closed')
OpenTickets == {t \in Tickets : Exists(t) /\ tickets[t].status \notin {"resolved", "closed"}}

\* A mutant of Backlog: by status, as the count of open tickets.
BacklogByStatus(b) == {t \in OpenTickets : created[t] < b}

\* created_at <= bucket AND (resolved_at IS NULL OR resolved_at > bucket)
Backlog(b) == {t \in Tickets : created[t] < b /\ resolved[t] >= b}

-----------------------------------------------------------------------------

\* An hour ends.
HourEnds ==
  /\ Tick
  /\ wasOpen' = [wasOpen EXCEPT ![now + 1] = OpenTickets]
  /\ UNCHANGED <<ledgerVars, created, resolved>>

InsNext == Serve \/ HourEnds

InsSpec == InsInit /\ [][InsNext]_<<ledgerVars, insVars>>

-----------------------------------------------------------------------------
(* Properties *)

Patched(t, from, s) ==
  \E r \in audit \cap Updates : target[r] = t /\ seen[r] \in from /\ to[r] \in s

\* t went from open to resolved or closed without resolved_at.
EndedUnstamped(t) ==
  \/ Patched(t, Status \ {"resolved", "closed"}, {"resolved", "closed"})
  \/ \E b \in BulkCloses : t \in closed[b]

\* t was resolved or closed and became open again: by a PATCH, or by a job that
\* wrote "escalated" over it.
Reopened(t) ==
  \/ Patched(t, {"resolved"}, Status \ {"closed"})
  \/ \E s \in EndStatus : overwritten[t][s] > 0

\* The history of the backlog is what was open at each hour, except for tickets
\* ended by a PATCH or a bulk close, which it counts for good, and tickets
\* reopened by a PATCH or by their job, which it misses until they are resolved
\* again, and then counts as if they had been open all along
\* (services/ticket_service.py:119, 154, tasks/classify.py:84-88 and
\* db/store.py:476-495; the last point, by status, is what it was then).
BacklogAccounted ==
  \A b \in 1..now : \A t \in Tickets :
    /\ t \in wasOpen[b] \ Backlog(b) => Reopened(t)
    /\ t \in Backlog(b) \ wasOpen[b] => EndedUnstamped(t) \/ Reopened(t)

=============================================================================
