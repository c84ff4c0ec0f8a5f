--------------------------- MODULE TicketService ----------------------------
(***************************************************************************)
(* The handlers that change tickets: services/ticket_service.py (create,   *)
(* update, resolve, bulk_close) and the manual retry of api/queue.py, run  *)
(* concurrently by the API processes.                                      *)
(*                                                                         *)
(* A request is one call of a handler.  Its steps are the handler's        *)
(* database and queue calls, in order: between two of them (every call is  *)
(* an await) any other request may run.  A step that opens a transaction   *)
(* is one action, the commit: its first statement, the status CAS, holds   *)
(* the row's lock until then.  A request may stop at any await: an         *)
(* exception from the database or Redis, a cancelled handler, a crash of   *)
(* the API process (every request of the process stops).                   *)
(*                                                                         *)
(* The uuid a create draws is fresh, so a create request, the ticket it    *)
(* may insert and the job it may enqueue share one name; a retry request   *)
(* and its job share another.  Titles, descriptions, priorities and        *)
(* categories are left out, and so are syslog rows, metrics, and the       *)
(* domain events, to which nothing subscribes.                             *)
(***************************************************************************)
EXTENDS ArqQueue

CONSTANTS
  Updates,     \* PATCH /api/tickets/{id}
  Resolves,    \* POST /api/tickets/{id}/resolve
  BulkCloses   \* POST /api/tickets/bulk-close

Creates == Tickets               \* POST /api/tickets
Retries == Jobs \ Tickets        \* POST /api/queue/{ticket_id}/retry
Moves == Updates \cup Resolves   \* the calls that move one ticket by a CAS
Requests == Jobs \cup Moves \cup BulkCloses

ASSUME RequestAssumption ==
  /\ Tickets \subseteq Jobs
  /\ Updates \cap Resolves = {}
  /\ Moves \cap Jobs = {}
  /\ BulkCloses \cap (Jobs \cup Moves) = {}

VARIABLES
  pc,       \* pc[r]: where request r is
  key,      \* key[c]: the idempotency key create c was given
  target,   \* target[r]: the ticket r names, or answers with
  seen,     \* seen[r]: the status r read
  to,       \* to[r]: the status r asks for, Absent for none
  closed    \* closed[b]: the rows bulk call b closed (their count is the answer)

locals == <<pc, key, target, seen, to, closed>>
svcVars == <<tickets, jobLog, audit, arq, pc, key, target, seen, to, closed>>

PC == {"idle", "insert", "conflict", "enqueue", "log", "audit", "txn", "reply",
       "ok", "rejected", "raised", "stopped"}

Ended == {"ok", "rejected", "raised", "stopped"}

Goto(r, l) == pc' = [pc EXCEPT ![r] = l]

SvcTypeOK ==
  /\ tickets \in [Tickets -> Row]
  /\ jobLog \in [Jobs -> LogRow]
  /\ audit \subseteq Requests
  /\ QueueTypeOK
  /\ pc \in [Requests -> PC]
  /\ key \in [Creates -> AnyKey]
  /\ target \in [Requests -> Tickets \cup {NoTicket}]
  /\ seen \in [Moves -> Status \cup {Absent}]
  /\ to \in [Moves -> Status \cup {Absent}]
  /\ closed \in [BulkCloses -> SUBSET Tickets]

SvcInit ==
  /\ StoreInit
  /\ QueueInit
  /\ pc = [r \in Requests |-> "idle"]
  /\ key = [c \in Creates |-> NoKey]
  /\ target = [r \in Requests |-> NoTicket]
  /\ seen = [m \in Moves |-> Absent]
  /\ to = [m \in Moves |-> IF m \in Resolves THEN "resolved" ELSE Absent]
  /\ closed = [b \in BulkCloses |-> {}]

-----------------------------------------------------------------------------
(* create *)

\* The key names a ticket already: answer with it.
CreateHit(c, k) ==
  /\ pc[c] = "idle" /\ k \in RealKeys
  /\ \E t \in KeyHolders(k) : target' = [target EXCEPT ![c] = t]
  /\ key' = [key EXCEPT ![c] = k]
  /\ Goto(c, "ok")
  /\ UNCHANGED <<tickets, jobLog, audit, arq, seen, to, closed>>

\* No key (the empty string counts as none), or no ticket has it yet.
CreateStart(c, k) ==
  /\ pc[c] = "idle"
  /\ k \in RealKeys => KeyHolders(k) = {}
  /\ key' = [key EXCEPT ![c] = k]
  /\ Goto(c, "insert")
  /\ UNCHANGED <<tickets, jobLog, audit, arq, target, seen, to, closed>>

CreateInsert(c) ==
  /\ pc[c] = "insert" /\ KeyFree(key[c])
  /\ tickets' = Inserted(c, key[c])
  /\ target' = [target EXCEPT ![c] = c]
  /\ Goto(c, "enqueue")
  /\ UNCHANGED <<jobLog, audit, arq, key, seen, to, closed>>

\* A mutant of InsertConflict: the UniqueViolationError is not caught.
ConflictUncaught(c) == "raised"

\* Where the UniqueViolationError handler goes: with a key, to look it up.
InsertConflict(c) == IF key[c] \in RealKeys THEN "conflict" ELSE "raised"

CreateConflict(c) ==
  /\ pc[c] = "insert" /\ ~KeyFree(key[c])
  /\ Goto(c, InsertConflict(c))
  /\ UNCHANGED <<tickets, jobLog, audit, arq, key, target, seen, to, closed>>

\* The lookup in the handler: answer with the winner's ticket, else raise.
CreateConflictHit(c) ==
  /\ pc[c] = "conflict"
  /\ IF KeyHolders(key[c]) = {}
       THEN Goto(c, "raised") /\ UNCHANGED target
       ELSE /\ \E t \in KeyHolders(key[c]) : target' = [target EXCEPT ![c] = t]
            /\ Goto(c, "ok")
  /\ UNCHANGED <<tickets, jobLog, audit, arq, key, seen, to, closed>>

\* enqueue_job, of create and of retry_job.
Enqueue(j) ==
  /\ pc[j] = "enqueue"
  /\ EnqueueJob(j, target[j])
  /\ Goto(j, "log")
  /\ UNCHANGED <<tickets, jobLog, audit, key, target, seen, to, closed>>

\* upsert_job_status "enqueued"; retry_job answers, create goes on.
LogEnqueued(j) ==
  /\ pc[j] = "log"
  /\ jobLog' = UpsertJobStatus(j, "enqueued")
  /\ Goto(j, IF j \in Creates THEN "audit" ELSE "ok")
  /\ UNCHANGED <<tickets, audit, arq, key, target, seen, to, closed>>

\* The audit row of create and of bulk_close, committed on its own; bulk_close
\* then answers with the count and the ids not found.
Audit(r) ==
  /\ pc[r] = "audit"
  /\ audit' = audit \cup {r}
  /\ Goto(r, IF r \in Creates THEN "reply" ELSE "ok")
  /\ UNCHANGED <<tickets, jobLog, arq, key, target, seen, to, closed>>

\* The ticket is read again for the answer.
Reply(r) ==
  /\ pc[r] = "reply"
  /\ Goto(r, "ok")
  /\ UNCHANGED <<tickets, jobLog, audit, arq, key, target, seen, to, closed>>

-----------------------------------------------------------------------------
(* update *)

\* A mutant of CheckMove: the status read is not validated.
CheckNothing(t, s) == IF Exists(t) /\ s \in Status THEN "txn" ELSE "rejected"

\* get_ticket and validate_transition: 404 without a row, 409 for a move the
\* graph does not have.
CheckMove(t, s) ==
  IF Exists(t) /\ CanTransition(tickets[t].status, s) THEN "txn" ELSE "rejected"

\* A PATCH that names a status.
UpdateRead(r, t, s) ==
  /\ pc[r] = "idle" /\ r \in Updates
  /\ target' = [target EXCEPT ![r] = t]
  /\ seen' = [seen EXCEPT ![r] = tickets[t].status]
  /\ to' = [to EXCEPT ![r] = s]
  /\ Goto(r, CheckMove(t, s))
  /\ UNCHANGED <<tickets, jobLog, audit, arq, key, closed>>

\* A PATCH of other fields only: nothing to validate; a PATCH of nothing
\* answers at once.
UpdateReadFields(r, t, empty) ==
  /\ pc[r] = "idle" /\ r \in Updates
  /\ target' = [target EXCEPT ![r] = t]
  /\ Goto(r, IF ~Exists(t) THEN "rejected" ELSE IF empty THEN "ok" ELSE "txn")
  /\ UNCHANGED <<tickets, jobLog, audit, arq, key, seen, to, closed>>

\* The transaction: the status CAS if a status is named, the other fields, the
\* audit row (of the other fields: the status was popped for the CAS).
UpdateCommit(r) ==
  /\ pc[r] = "txn" /\ r \in Updates
  /\ IF to[r] = Absent
       THEN UNCHANGED tickets
       ELSE StatusIs(target[r], seen[r]) /\ tickets' = WithStatus(target[r], to[r])
  /\ audit' = audit \cup {r}
  /\ Goto(r, "reply")
  /\ UNCHANGED <<jobLog, arq, key, target, seen, to, closed>>

-----------------------------------------------------------------------------
(* resolve *)

ResolveRead(r, t) ==
  /\ pc[r] = "idle" /\ r \in Resolves
  /\ target' = [target EXCEPT ![r] = t]
  /\ seen' = [seen EXCEPT ![r] = tickets[t].status]
  /\ Goto(r, CheckMove(t, "resolved"))
  /\ UNCHANGED <<tickets, jobLog, audit, arq, key, to, closed>>

ResolveCommit(r) ==
  /\ pc[r] = "txn" /\ r \in Resolves
  /\ StatusIs(target[r], seen[r])
  /\ tickets' = [WithStatus(target[r], "resolved") EXCEPT ![target[r]].resolvedAt = TRUE]
  /\ audit' = audit \cup {r}
  /\ Goto(r, "reply")
  /\ UNCHANGED <<jobLog, arq, key, target, seen, to, closed>>

\* The CAS of update or resolve finds another status: roll back, answer 409.
CasFails(r) ==
  /\ pc[r] = "txn" /\ to[r] # Absent
  /\ ~StatusIs(target[r], seen[r])
  /\ Goto(r, "rejected")
  /\ UNCHANGED <<tickets, jobLog, audit, arq, key, target, seen, to, closed>>

-----------------------------------------------------------------------------
(* bulk_close and retry_job *)

\* bulk_close_tickets in its own transaction; the audit row comes after it.
BulkClose(b, ids) ==
  /\ pc[b] = "idle" /\ b \in BulkCloses
  /\ closed' = [closed EXCEPT ![b] = BulkClosable(ids)]
  /\ tickets' = BulkClosed(BulkClosable(ids))
  /\ Goto(b, "audit")
  /\ UNCHANGED <<jobLog, audit, arq, key, target, seen, to>>

RetryRead(j, t) ==
  /\ pc[j] = "idle" /\ j \in Retries
  /\ target' = [target EXCEPT ![j] = t]
  /\ Goto(j, IF Exists(t) THEN "enqueue" ELSE "rejected")
  /\ UNCHANGED <<tickets, jobLog, audit, arq, key, seen, to, closed>>

-----------------------------------------------------------------------------

\* The request stops at an await and what it committed stays.
Stop(r) ==
  /\ pc[r] \notin Ended \cup {"idle"}
  /\ Goto(r, "stopped")
  /\ UNCHANGED <<tickets, jobLog, audit, arq, key, target, seen, to, closed>>

\* A client's call arrives.
Arrive ==
  \/ \E c \in Creates, k \in AnyKey : CreateHit(c, k) \/ CreateStart(c, k)
  \/ \E r \in Updates, t \in Tickets, s \in Status : UpdateRead(r, t, s)
  \/ \E r \in Updates, t \in Tickets, empty \in BOOLEAN : UpdateReadFields(r, t, empty)
  \/ \E r \in Resolves, t \in Tickets : ResolveRead(r, t)
  \/ \E b \in BulkCloses, ids \in SUBSET Tickets : BulkClose(b, ids)
  \/ \E j \in Retries, t \in Tickets : RetryRead(j, t)

CreateStep(c) == CreateInsert(c) \/ CreateConflict(c) \/ CreateConflictHit(c)

MoveStep(r) == UpdateCommit(r) \/ ResolveCommit(r) \/ CasFails(r)

\* The handler of request r takes its next step.
HandlerStep(r) ==
  \/ r \in Creates /\ CreateStep(r)
  \/ r \in Moves /\ MoveStep(r)
  \/ r \in Jobs /\ (Enqueue(r) \/ LogEnqueued(r))
  \/ Audit(r)
  \/ Reply(r)

SvcNext == Arrive \/ \E r \in Requests : HandlerStep(r) \/ Stop(r)

SvcSpec == SvcInit /\ [][SvcNext]_svcVars

-----------------------------------------------------------------------------
(* Properties *)

\* The API implements the ticket life cycle: with every handler's read and its
\* transaction apart, and any number of them racing on one ticket, each commit
\* still moves a ticket along the status graph (validate_transition on a status
\* read before the transaction, then the CAS on that status inside it).
Lifecycle == INSTANCE TicketLifecycle WITH status <- [t \in Tickets |-> tickets[t].status]

FollowsLifecycle == Lifecycle!LSpec

\* Two creates with the same key that were answered were answered with the same
\* ticket, and it holds the key: whichever of lookup, insert and conflict
\* lookup each of them went through.
RepliesAgree ==
  \A c, d \in Creates :
    /\ pc[c] = "ok" /\ pc[d] = "ok"
    /\ key[c] = key[d] /\ key[c] \in RealKeys
    => /\ target[c] = target[d]
       /\ Exists(target[c]) /\ tickets[target[c]].key = key[c]

\* A create with a non-empty key never ends in an uncaught UniqueViolationError:
\* the loser of an insert race always finds the winner's row.
KeyedCreateAnswered == \A c \in Creates : key[c] \in RealKeys => pc[c] # "raised"

\* The moves of t that committed, between statuses `from` and `s`.  The audit row
\* tells that the transaction committed, and no more: a PATCH's row does not hold
\* the status (updates.pop, services/ticket_service.py:119).  Which move it was
\* is in the request's own variables, kept here as history.
CommittedMoves(t, from, s) ==
  {r \in audit \cap Moves : target[r] = t /\ seen[r] \in from /\ to[r] \in s}

=============================================================================
