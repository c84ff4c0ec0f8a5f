-------------------------- MODULE TicketLifecycle ---------------------------
(***************************************************************************)
(* What the ticket API promises about the status of every ticket, with no  *)
(* requests, transactions or audit trail: a ticket is opened once, then    *)
(* only ever moves along the status graph, alone or, when a bulk call      *)
(* closes several tickets, together with others.                           *)
(***************************************************************************)
EXTENDS TicketStatus

CONSTANT Tickets

VARIABLE status      \* status[t]: the status of ticket t, Absent before it exists

LInit == status = [t \in Tickets |-> Absent]

Open(t) ==
  /\ status[t] = Absent
  /\ status' = [status EXCEPT ![t] = "open"]

Move(t, s) ==
  /\ CanTransition(status[t], s)
  /\ status' = [status EXCEPT ![t] = s]

CloseAll(T) ==
  /\ \A t \in T : CanTransition(status[t], "closed")
  /\ status' = [t \in Tickets |-> IF t \in T THEN "closed" ELSE status[t]]

LNext ==
  \/ \E t \in Tickets : Open(t)
  \/ \E t \in Tickets, s \in Status : Move(t, s)
  \/ \E T \in SUBSET Tickets : CloseAll(T)

LSpec == LInit /\ [][LNext]_status

-----------------------------------------------------------------------------
ClosedStays ==
  \A t \in Tickets :
    /\ status[t] = "closed" => status'[t] = "closed"
    /\ status[t] # Absent => status'[t] # Absent

\* "closed" is final, and a ticket that exists never disappears: what
\* tests/test_domain.py's test_closed_is_terminal asserts of the table, as a
\* property of every step (domain/ticket.py:10).
ClosedIsFinal == [][ClosedStays]_status

=============================================================================
