---------------------------- MODULE TicketStatus ----------------------------
(***************************************************************************)
(* The ticket status graph of domain/ticket.py.                            *)
(***************************************************************************)

Status ==
  {"open", "in_progress", "sla_breached", "escalated", "resolved", "closed"}

\* "absent" is no status of the program: it stands for a ticket with no row,
\* and for a request that names no status.
Absent == "absent"

\* _TRANSITIONS: the allowed moves, as a relation.
Transitions ==
       ({"open"} \X {"in_progress", "sla_breached", "escalated", "resolved", "closed"})
  \cup ({"in_progress"} \X {"resolved", "sla_breached", "escalated", "closed"})
  \cup ({"sla_breached", "escalated"} \X {"in_progress", "resolved", "closed"})
  \cup ({"resolved"} \X {"closed", "open"})

\* can_transition, and validate_transition where it does not raise.
CanTransition(from, to) == <<from, to>> \in Transitions

=============================================================================
