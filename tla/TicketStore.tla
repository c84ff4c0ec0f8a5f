---------------------------- MODULE TicketStore -----------------------------
(***************************************************************************)
(* The database tables the ticket service and the workers share: tickets,  *)
(* job_log, audit_log and agent_events, and the statements db/store.py     *)
(* runs on them.  An operator here is a table's contents after a statement *)
(* or a statement's WHERE clause; the modules that extend this one say     *)
(* which statements commit together.                                       *)
(*                                                                         *)
(* A ticket row keeps what control depends on: the status, the idempotency *)
(* key, whether resolved_at is set, and the assignment (assigned_team,     *)
(* assigned_to), named by the job that computed it.                        *)
(***************************************************************************)
EXTENDS Naturals, FiniteSets, TicketStatus

CONSTANTS
  Tickets,     \* ticket ids (uuid4, drawn by the create that inserts the row)
  Jobs,        \* ARQ job ids (drawn by the enqueue)
  NoJob,       \* no assignment yet
  Keys,        \* idempotency keys that clients give
  EmptyKey,    \* the empty string, which may be one of them
  NoKey        \* no key given: NULL in the column

ASSUME NoJobAssumption == NoJob \notin Jobs
ASSUME KeyAssumption == NoKey \notin Keys

VARIABLES
  tickets,     \* tickets[t]: the row of t
  jobLog,      \* jobLog[j]: the job_log row of j
  audit        \* requests with a row in audit_log

AnyKey == Keys \cup {NoKey}

\* The keys that are looked up: the empty string is falsy.
RealKeys == Keys \ {EmptyKey}

Row == [status : Status \cup {Absent}, key : AnyKey, resolvedAt : BOOLEAN,
        assigned : Jobs \cup {NoJob}]

NoRow == [status |-> Absent, key |-> NoKey, resolvedAt |-> FALSE, assigned |-> NoJob]

JobStatus == {"enqueued", "running", "done", "failed", "skipped"}

LogRow == [status : JobStatus \cup {Absent}, attempts : Nat]

NoLogRow == [status |-> Absent, attempts |-> 0]

StoreInit ==
  /\ tickets = [t \in Tickets |-> NoRow]
  /\ jobLog = [j \in Jobs |-> NoLogRow]
  /\ audit = {}

-----------------------------------------------------------------------------
(* tickets *)

Exists(t) == tickets[t].status # Absent

\* get_ticket_by_idempotency_key: the rows holding key k.
KeyHolders(k) == {t \in Tickets : Exists(t) /\ tickets[t].key = k}

\* A mutant of KeyFree: the column without its constraint.
KeyFreeNoConstraint(k) == k \in AnyKey

\* The UNIQUE constraint on idempotency_key; NULLs never collide, the empty
\* string does.
KeyFree(k) == k = NoKey \/ KeyHolders(k) = {}

\* insert_ticket, with the columns' defaults.
Inserted(t, k) ==
  [tickets EXCEPT ![t] =
     [status |-> "open", key |-> k, resolvedAt |-> FALSE, assigned |-> NoJob]]

\* A mutant of StatusIs: the UPDATE without "AND status=$3".
StatusIsAny(t, from) == Exists(t) /\ from \in Status

\* transition_ticket_status, its WHERE clause: the row is still in `from`.
StatusIs(t, from) == tickets[t].status = from

\* transition_ticket_status and update_ticket, what they set.
WithStatus(t, s) == [tickets EXCEPT ![t].status = s]

\* A mutant of BulkClosable: closed rows not excluded.
BulkClosableAgain(ids) == {t \in ids : Exists(t) /\ tickets[t].status # "resolved"}

\* bulk_close_tickets, its WHERE clause: rows neither resolved nor closed.
BulkClosable(ids) ==
  {t \in ids : Exists(t) /\ tickets[t].status \notin {"resolved", "closed"}}

BulkClosed(T) ==
  [t \in Tickets |->
     IF t \in T THEN [tickets[t] EXCEPT !.status = "closed"] ELSE tickets[t]]

-----------------------------------------------------------------------------
(* job_log *)

\* A mutant of UpsertJobStatus: attempts overwritten by EXCLUDED.attempts.
UpsertReset(j, s) ==
  [jobLog EXCEPT ![j] =
     [status |-> s, attempts |-> IF s = "running" THEN 1 ELSE 0]]

\* A mutant of UpsertJobStatus: a status outside the vocabulary of job_log.
UpsertUnknown(j, s) ==
  [jobLog EXCEPT ![j] =
     [status |-> IF s = "enqueued" THEN "queued" ELSE s,
      attempts |-> IF s = "running" THEN jobLog[j].attempts + 1
                                    ELSE jobLog[j].attempts]]

\* upsert_job_status: insert or overwrite the status; only "running" counts an
\* attempt, and every other status keeps the count.
UpsertJobStatus(j, s) ==
  [jobLog EXCEPT ![j] =
     [status |-> s,
      attempts |-> IF s = "running" THEN jobLog[j].attempts + 1
                                    ELSE jobLog[j].attempts]]

=============================================================================
