---------------------------- MODULE StatusLedger ----------------------------
(***************************************************************************)
(* The books of the two statuses that end a ticket, "resolved" and         *)
(* "closed": who leads a ticket into them and out of them.  The API moves  *)
(* tickets by a CAS or by bulk_close; classify_ticket writes "escalated"   *)
(* over whatever the row holds and leaves no audit row.  `overwritten` is  *)
(* history, for the properties only.                                       *)
(***************************************************************************)
EXTENDS AutoSupport

VARIABLE overwritten   \* overwritten[t][s]: how often a job wrote over status s of t

EndStatus == {"resolved", "closed"}

ledgerVars == <<vars, overwritten>>

LedgerInit ==
  /\ Init
  /\ overwritten = [t \in Tickets |-> [s \in EndStatus |-> 0]]

\* A job escalates t while it is in status s.
Overwrites(t, s) == Escalates(t) /\ tickets[t].status = s

LedgerNext ==
  /\ Next
  /\ overwritten' = [t \in Tickets |-> [s \in EndStatus |->
       overwritten[t][s] + (IF Overwrites(t, s) THEN 1 ELSE 0)]]

LedgerSpec == LedgerInit /\ [][LedgerNext]_ledgerVars

-----------------------------------------------------------------------------
(* Properties *)

\* Every call that led a ticket into "resolved" is matched: by a call that led
\* it out, by a job that wrote over it (tasks/classify.py:84-88), or by the
\* ticket's being resolved.  No two racing calls take the same resolve, or the
\* same reopening, for theirs (services/ticket_service.py:119 and 151).
ResolvedBalanced ==
  \A t \in Tickets :
    Cardinality(CommittedMoves(t, Status, {"resolved"}))
      = Cardinality(CommittedMoves(t, {"resolved"}, Status))
        + overwritten[t]["resolved"]
        + (IF tickets[t].status = "resolved" THEN 1 ELSE 0)

\* The calls that closed t: bulk calls that counted it, and PATCHes.
Closers(t) == {b \in BulkCloses : t \in closed[b]} \cup CommittedMoves(t, Status, {"closed"})

\* A ticket is closed, and counted in the answer of a bulk_close, again only
\* after a job wrote "escalated" over its being closed: one call more than jobs
\* closed it if it is closed, as many if it is not.
ClosedBalanced ==
  \A t \in Tickets :
    Cardinality(Closers(t))
      = overwritten[t]["closed"] + (IF tickets[t].status = "closed" THEN 1 ELSE 0)

=============================================================================
