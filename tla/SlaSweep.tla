------------------------------ MODULE SlaSweep ------------------------------
(***************************************************************************)
(* The cron job sla_sweep (services/sla_service.py, tasks/worker.py): it   *)
(* reads a page of the newest tickets, then the clock, finds those of the  *)
(* page whose first response is overdue by that clock, and marks them one  *)
(* UPDATE at a time; handlers and other jobs change the rows all the       *)
(* while.  ARQ runs it every 15 minutes, in one worker at a time, and ends *)
(* it after job_timeout, so that runs do not overlap.                      *)
(*                                                                         *)
(* A row is what the sweep looks at.  The clock counts the time in which   *)
(* thresholds are given.                                                   *)
(***************************************************************************)
EXTENDS TicketStatus, Naturals, FiniteSets

CONSTANTS
  MaxTickets,     \* bound on the tickets
  Priorities,
  FirstResponse,  \* first_response_seconds of DEFAULT_SLA
  SweepLimit,     \* the page the sweep asks for: 1000
  PageCap,        \* the page get_tickets_page gives at most: 200
  MaxTime,        \* bound on the clock
  MaxStops        \* bound on the sweeps that are cut off

\* A ticket is named by its turn to arrive.
Tickets == 1..MaxTickets

ASSUME SlaAssumption ==
  /\ MaxTickets \in Nat
  /\ FirstResponse \in [Priorities -> Nat]
  /\ SweepLimit \in Nat /\ PageCap \in Nat /\ MaxTime \in Nat /\ MaxStops \in Nat

VARIABLES
  rows,   \* rows[t]: the row of t
  made,   \* the tickets that exist
  page,   \* page[t]: the row of t as the sweep read it, until it reads the clock
  todo,   \* overdue rows of the page that the sweep has still to mark
  stops,  \* sweeps cut off
  now,    \* the clock
  \* History, for the properties only.
  late,       \* tickets that have been overdue while unresolved
  overtaken   \* tickets that were resolved, or whose priority changed, between the
              \* sweep's reading of their row and of the clock, while it has to do with them

slavars == <<rows, made, page, todo, stops, now, late, overtaken>>

SlaRow == [status : Status, priority : Priorities, created : Nat, breached : BOOLEAN]

SlaTypeOK ==
  /\ made \subseteq Tickets
  /\ rows \in [made -> SlaRow]
  /\ \A t \in made : rows[t].created <= now
  /\ \E shown \in SUBSET made : page \in [shown -> SlaRow]
  /\ todo \subseteq made /\ late \subseteq made /\ overtaken \subseteq made
  /\ stops \in 0..MaxStops /\ now \in 0..MaxTime

Empty == [t \in {} |-> {}]

SlaInit ==
  /\ made = {} /\ rows = Empty /\ page = Empty
  /\ todo = {} /\ late = {} /\ overtaken = {}
  /\ stops = 0 /\ now = 0

Elapsed(row) == now - row.created >= FirstResponse[row.priority]

Resolved(row) == row.status \in {"resolved", "closed"}

\* Unresolved after the time its first response was due.
Overdue(row) == ~Resolved(row) /\ Elapsed(row)

-----------------------------------------------------------------------------
(* Handlers and jobs that change what the sweep looks at *)

\* A mutant of NewRow: created_at taken from a clock ahead of the sweep's.
NewRowAhead(p) == [status |-> "open", priority |-> p, created |-> now + 1, breached |-> FALSE]

\* insert_ticket.
NewRow(p) == [status |-> "open", priority |-> p, created |-> now, breached |-> FALSE]

Arrive(t, p) ==
  /\ t \notin made /\ made = 1..(t - 1)
  /\ made' = made \cup {t}
  /\ rows' = [u \in made' |-> IF u = t THEN NewRow(p) ELSE rows[u]]
  /\ UNCHANGED <<page, todo, stops, now>>

\* The commit of an operator's move.
OperatorMoves(t, s) ==
  /\ t \in made /\ CanTransition(rows[t].status, s)
  /\ rows' = [rows EXCEPT ![t] = [@ EXCEPT !.status = s]]
  /\ UNCHANGED <<made, page, todo, stops, now>>

\* A row with its predicted priority, escalated or not.
TriagedRow(row, p, escalated) ==
  LET predicted == [row EXCEPT !.priority = p]
  IN  IF escalated THEN [predicted EXCEPT !.status = "escalated"] ELSE predicted

\* The write of classify_ticket, or an operator's change of the priority.
Triaged(t, p, escalated) ==
  /\ t \in made
  /\ rows' = [rows EXCEPT ![t] = TriagedRow(@, p, escalated)]
  /\ UNCHANGED <<made, page, todo, stops, now>>

SlaTick ==
  /\ now < MaxTime
  /\ now' = now + 1
  /\ UNCHANGED <<rows, made, page, todo, stops>>

-----------------------------------------------------------------------------
(* run_sla_sweep *)

PageLimit == IF SweepLimit <= PageCap THEN SweepLimit ELSE PageCap

\* get_tickets_page without filters: the newest PageLimit rows, in whatever order
\* among those of one moment.
IsPage(shown) ==
  /\ Cardinality(shown) = IF Cardinality(made) <= PageLimit THEN Cardinality(made) ELSE PageLimit
  /\ \A t \in shown, u \in made \ shown : rows[u].created <= rows[t].created

\* A mutant of OpenStatuses: an escalated ticket has been responded to.
OpenStatusesLess == {"open", "in_progress", "sla_breached"}

OpenStatuses == {"open", "in_progress", "escalated", "sla_breached"}

\* A mutant of Due: resolved tickets are not passed over.
DueAnyStatus(row) == ~row.breached /\ Elapsed(row)

\* The rows of the page that the loop does not pass over.
Due(row) == row.status \in OpenStatuses /\ ~row.breached /\ Elapsed(row)

SweepRead ==
  /\ page = Empty /\ todo = {}
  /\ \E shown \in SUBSET made : IsPage(shown) /\ page' = [t \in shown |-> rows[t]]
  /\ UNCHANGED <<rows, made, todo, stops, now>>

\* The clock is read when the query has answered, once for all of the loop.
SweepClock ==
  /\ page # Empty
  /\ todo' = {t \in DOMAIN page : Due(page[t])}
  /\ page' = Empty
  /\ UNCHANGED <<rows, made, stops, now>>

\* The next row of the page: the UPDATE sets response_sla_breached only.
SweepMark ==
  /\ \E t \in todo :
       /\ \A u \in todo : rows[u].created <= rows[t].created
       /\ rows' = [rows EXCEPT ![t] = [@ EXCEPT !.breached = TRUE]]
       /\ todo' = todo \ {t}
  /\ UNCHANGED <<made, page, stops, now>>

\* The sweep is cut off: an error, job_timeout, the end of the worker.
SweepStops ==
  /\ page # Empty \/ todo # {}
  /\ stops < MaxStops
  /\ page' = Empty /\ todo' = {}
  /\ stops' = stops + 1
  /\ UNCHANGED <<rows, made, now>>

SlaStep ==
  \/ \E t \in Tickets, p \in Priorities : Arrive(t, p)
  \/ \E t \in Tickets, s \in Status : OperatorMoves(t, s)
  \/ \E t \in Tickets, p \in Priorities, escalated \in BOOLEAN : Triaged(t, p, escalated)
  \/ SlaTick \/ SweepRead \/ SweepClock \/ SweepMark \/ SweepStops

\* A row of the page is resolved, or has its priority changed.
Overtakes(t) ==
  /\ t \in DOMAIN page
  /\ \/ rows'[t].priority # rows[t].priority
     \/ ~Resolved(rows[t]) /\ Resolved(rows'[t])

History ==
  /\ late' = late \cup {t \in made' : Overdue(rows[t])'}
  /\ overtaken' = {t \in made' :
       /\ t \in overtaken \/ Overtakes(t)
       /\ t \in DOMAIN page' \cup todo' \/ rows'[t].breached}

SlaNext == SlaStep /\ History

SlaSpec == SlaInit /\ [][SlaNext]_slavars

\* The cron job runs again and again, and its queries and UPDATEs end.
SlaFairSpec ==
  /\ SlaSpec
  /\ WF_slavars(SweepRead /\ History) /\ WF_slavars(SweepClock /\ History)
  /\ WF_slavars(SweepMark /\ History)

-----------------------------------------------------------------------------
(* Properties *)

\* A ticket resolved within its time is not marked, although the sweep marks what
\* it read earlier and priorities and statuses change between its UPDATEs: a
\* marked ticket has been unresolved past its first response at some moment; or
\* it was resolved, or given another priority, just while the page of that sweep
\* was on its way (services/sla_service.py:27 awaits it, :37 reads the clock).
MarkedWasLate == \A t \in made : rows[t].breached => t \in late \cup overtaken

\* t is in every page: fewer than PageLimit tickets are as new.
Paged(t) == Cardinality({u \in made \ {t} : rows[u].created >= rows[t].created}) < PageLimit

\* sla_service.py:23 "Marks tickets where first_response window has elapsed": as
\* far as the page reaches, an unresolved ticket past its first response is marked
\* in the end, whatever sweeps are cut off before.
OverdueMarked ==
  \A t \in Tickets :
    (t \in made /\ Overdue(rows[t]) /\ Paged(t)) ~>
      (t \in made /\ (rows[t].breached \/ ~Overdue(rows[t]) \/ ~Paged(t)))

=============================================================================
