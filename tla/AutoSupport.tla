---------------------------- MODULE AutoSupport -----------------------------
(***************************************************************************)
(* The ticket API and the classification workers on one database and one   *)
(* queue: requests enqueue jobs, jobs classify tickets that requests go on *)
(* changing, and both write job_log.                                       *)
(***************************************************************************)
EXTENDS TicketService, ClassifyWorker

vars == <<svcVars, wlocals>>

TypeOK == SvcTypeOK /\ WorkerTypeOK

Init == SvcInit /\ WorkerInit

Next ==
  \/ SvcNext /\ UNCHANGED wlocals
  \/ WorkerNext /\ UNCHANGED locals

\* The event loop resumes every handler whose await has finished, and the
\* workers poll the queue and run what they find.  Nothing makes a client
\* call, a handler stop, a job die or Redis evict.
Fairness ==
  /\ \A r \in Requests : WF_vars(HandlerStep(r) /\ UNCHANGED wlocals)
  /\ \A j \in Jobs : WF_vars(JobStep(j) /\ UNCHANGED locals)

Spec == Init /\ [][Next]_vars

FairSpec == Spec /\ Fairness

-----------------------------------------------------------------------------
(* What holds *)

JobsOf(t) == {j \in Jobs : arq[j].state # "none" /\ Ticket(j) = t}

\* job_log never claims work that is not in the tables: "done" and "skipped"
\* stand for an assigned ticket, "done" for an event of each stage as well,
\* whatever crashed or ran twice (tasks/classify.py writes the log last).
LogClaimsOnlyWork ==
  \A j \in Jobs :
    /\ jobLog[j].status \in {"done", "skipped"} => Assigned(Ticket(j))
    /\ jobLog[j].status = "done" =>
         \A k \in Stages : <<Ticket(j), k, "ok">> \in events

\* A job that ARQ holds complete has left its ticket assigned: no failure of
\* the pipeline is ever swallowed (tasks/classify.py:70 raises).
CompleteMeansAssigned ==
  \A j \in Jobs : arq[j].state = "complete" => Assigned(Ticket(j))

\* The retry pressure job_log shows is real: attempts never exceeds the tries
\* ARQ counted, and a job that got as far as running keeps at least one, late
\* "enqueued" rows from the API included (db/store.py:275-278).
AttemptsHonest ==
  \A j \in Jobs :
    /\ jobLog[j].attempts <= arq[j].tries
    /\ jobLog[j].status \in {"running", "done", "failed"} => jobLog[j].attempts >= 1

\* The update_ticket of classify_ticket, of a result that escalates ticket t.
Escalates(t) ==
  \E j \in Jobs : /\ wpc[j] = "write" /\ wpc'[j] = "events"
                  /\ escalate[j] /\ Ticket(j) = t

Statuses == [t \in Tickets |-> tickets[t].status]

\* The API and the workers together implement the ticket life cycle, but for one
\* more action: classify_ticket's write of "escalated" over whatever the row
\* holds by then.  With requests and jobs racing on one row, no other step takes
\* a ticket off the status graph, a PATCH to "escalated" included
\* (services/ticket_service.py:116-121 against tasks/classify.py:84-88).
OnlyTriageLeavesGraph ==
  [][\/ Lifecycle!LNext
     \/ \E t \in Tickets :
          Escalates(t) /\ Statuses' = [Statuses EXCEPT ![t] = "escalated"]]_Statuses

\* Every job that is enqueued ends: its ticket is assigned, or ARQ gave up on
\* it (its tries used up, its worker timed out) or lost it.
EnqueuedJobEnds ==
  \A j \in Jobs, t \in Tickets :
    arq[j].state = "queued" /\ Ticket(j) = t
      ~> arq[j].state \in {"failed", "lost"} \/ Assigned(t)

-----------------------------------------------------------------------------
(* What the repository says and the code does not do *)

\* domain/ticket.py:3 "explicit allowed transitions -- anything not listed is
\* rejected": every change of a ticket's status is in the table.
StatusFollowsTransitions ==
  [][\A t \in Tickets :
       Exists(t) /\ tickets'[t].status # tickets[t].status
       => CanTransition(tickets[t].status, tickets'[t].status)]_tickets

\* tasks/classify.py:29 "Idempotent: if ticket is already classified
\* (assigned_team set), no-op.": an assignment is made once.
ClassifyIdempotent ==
  [][\A t \in Tickets : Assigned(t) => tickets'[t].assigned = tickets[t].assigned]_tickets

\* db/store.py:256-257 "This table tracks job status for visibility": a job
\* that completed, and whose request was answered, is shown as done or skipped.
FinishedJobShown ==
  \A j \in Jobs :
    arq[j].state = "complete" /\ pc[j] = "ok"
    => jobLog[j].status \in {"done", "skipped"}

\* README.md:141 "New tickets are automatically classified and routed.": a
\* ticket a create answered with is assigned in the end, or one of its jobs is
\* given up.
NewTicketsTriaged ==
  \A c \in Creates, t \in Tickets :
    pc[c] = "ok" /\ target[c] = t
      ~> \/ Assigned(t)
         \/ \E j \in JobsOf(t) : arq[j].state \in {"failed", "lost"}

=============================================================================
