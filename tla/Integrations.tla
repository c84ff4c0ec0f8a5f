---------------------------- MODULE Integrations ----------------------------
(***************************************************************************)
(* Webhook integrations: services/integration_service.py (create, test,    *)
(* ingest, delete) on top of the ticket service.  An ingest creates a      *)
(* ticket by calling ticket_service.create itself, so it is a create       *)
(* request of TicketService whose arrival is decided here; before and      *)
(* after it come the ingest's own statements on the two tables below.      *)
(* Every statement commits on its own: an API handler opens no transaction *)
(* here.                                                                   *)
(*                                                                         *)
(* What an adapter finds at the other end of a connection is any outcome.  *)
(* A payload is a ping (or has no title), makes a ticket, or has a title   *)
(* that is not a string: the endpoint takes any JSON object.  Names,       *)
(* configurations and the content of tickets and errors are left out.      *)
(***************************************************************************)
EXTENDS TicketService

CONSTANTS
  Hooks,      \* POST /api/integrations; the call and the id it draws
  Ingests,    \* POST /api/integrations/{id}/ingest, creates of tickets
  Tests,      \* POST /api/integrations/{id}/test
  Deletes,    \* DELETE /api/integrations/{id}
  NoHook      \* no integration named yet

HookCalls == Hooks \cup Ingests \cup Tests \cup Deletes

ASSUME HookAssumption ==
  /\ Ingests \subseteq Creates
  /\ NoHook \notin Hooks
  /\ Hooks \cap (Ingests \cup Tests \cup Deletes) = {}
  /\ Ingests \cap (Tests \cup Deletes) = {}
  /\ Tests \cap Deletes = {}

VARIABLES
  hooks,       \* hooks[h]: the row of h in integrations
  hookEvents,  \* hookEvents[i]: the row of integration_events ingest i wrote
  hookAudit,   \* calls with a row in audit_log
  ipc,         \* ipc[c]: the statement call c runs next
  hookOf,      \* hookOf[c]: the integration call c names
  found,       \* found[t]: what test t found, TRUE for a connection
  cut          \* calls that stopped where they were

hvars == <<hooks, hookEvents, hookAudit, ipc, hookOf, found, cut>>

HookStatus == {"inactive", "active", "error"}

HookRow == [status : HookStatus \cup {Absent}, count : Nat, synced : BOOLEAN]

NoHookRow == [status |-> Absent, count |-> 0, synced |-> FALSE]

EventStatus == {"none", "ok", "ignored"}

Payloads == {"ticket", "ping", "malformed"}

IPC == {"idle", "create", "event", "count", "sync", "write", "audit", "reply",
        "ok", "rejected", "raised"}

HookTypeOK ==
  /\ hooks \in [Hooks -> HookRow]
  /\ hookEvents \in [Ingests -> EventStatus]
  /\ hookAudit \subseteq Hooks \cup Deletes
  /\ ipc \in [HookCalls -> IPC]
  /\ hookOf \in [HookCalls -> Hooks \cup {NoHook}]
  /\ found \in [Tests -> BOOLEAN]
  /\ cut \subseteq HookCalls

HookInit ==
  /\ hooks = [h \in Hooks |-> NoHookRow]
  /\ hookEvents = [i \in Ingests |-> "none"]
  /\ hookAudit = {}
  /\ ipc = [c \in HookCalls |-> "idle"]
  /\ hookOf = [c \in HookCalls |-> IF c \in Hooks THEN c ELSE NoHook]
  /\ found = [t \in Tests |-> FALSE]
  /\ cut = {}

HookExists(h) == hooks[h].status # Absent

\* Call c goes on, as long as it has not stopped.
IGoto(c, l) == c \notin cut /\ ipc' = [ipc EXCEPT ![c] = l]

Names(c, h) == hookOf' = [hookOf EXCEPT ![c] = h]

-----------------------------------------------------------------------------
(* The statements *)

\* A mutant of NewHook: event_count without its default.
NewHookNoDefault == [status |-> "inactive", count |-> NoHook, synced |-> FALSE]

\* insert_integration, with the columns' defaults.
NewHook == [status |-> "inactive", count |-> 0, synced |-> FALSE]

\* A mutant of WithHookStatus: an upsert, INSERT ... ON CONFLICT DO UPDATE.
WithHookStatusUpserted(h, s) == [hooks EXCEPT ![h].status = s]

\* update_integration: an UPDATE of a row that is gone does nothing.
WithHookStatus(h, s) ==
  IF HookExists(h) THEN [hooks EXCEPT ![h].status = s] ELSE hooks

\* A mutant of Counted: the events counted anew, by COUNT(ticket_id), which
\* leaves out those that made no ticket.
CountedAnew(h) ==
  IF HookExists(h)
    THEN [hooks EXCEPT ![h].count =
            Cardinality({i \in Ingests : hookOf[i] = h /\ hookEvents[i] = "ok"})]
    ELSE hooks

\* The second statement of record_integration_event: event_count=event_count+1.
Counted(h) == IF HookExists(h) THEN [hooks EXCEPT ![h].count = @ + 1] ELSE hooks

Synced(h) == IF HookExists(h) THEN [hooks EXCEPT ![h].synced = TRUE] ELSE hooks

-----------------------------------------------------------------------------
(* create, test and delete *)

HookInsert(h) ==
  /\ ipc[h] = "idle" /\ h \in Hooks
  /\ hooks' = [hooks EXCEPT ![h] = NewHook]
  /\ IGoto(h, "audit")
  /\ UNCHANGED <<hookEvents, hookAudit, hookOf, found, cut>>

\* get_integration; the connection is tried before the write, and a notify_url
\* that is not a string is an error that nothing catches.
TestRead(t, h, outcome) ==
  /\ ipc[t] = "idle" /\ t \in Tests
  /\ Names(t, h)
  /\ found' = [found EXCEPT ![t] = outcome = "connected"]
  /\ IGoto(t, IF ~HookExists(h) THEN "rejected"
              ELSE IF outcome = "raises" THEN "raised" ELSE "write")
  /\ UNCHANGED <<hooks, hookEvents, hookAudit, cut>>

TestWrite(t) ==
  /\ ipc[t] = "write" /\ t \in Tests
  /\ hooks' = WithHookStatus(hookOf[t], IF found[t] THEN "active" ELSE "error")
  /\ IGoto(t, "ok")
  /\ UNCHANGED <<hookEvents, hookAudit, hookOf, found, cut>>

DeleteRead(d, h) ==
  /\ ipc[d] = "idle" /\ d \in Deletes
  /\ Names(d, h)
  /\ IGoto(d, IF HookExists(h) THEN "write" ELSE "rejected")
  /\ UNCHANGED <<hooks, hookEvents, hookAudit, found, cut>>

\* DELETE, which takes the integration's events with it (ON DELETE CASCADE).
DeleteWrite(d) ==
  /\ ipc[d] = "write" /\ d \in Deletes
  /\ hooks' = [hooks EXCEPT ![hookOf[d]] = NoHookRow]
  /\ hookEvents' = [i \in Ingests |-> IF hookOf[i] = hookOf[d] THEN "none" ELSE hookEvents[i]]
  /\ IGoto(d, "audit")
  /\ UNCHANGED <<hookAudit, hookOf, found, cut>>

\* The audit row of create and of delete; create then reads its row again.
HookAuditRow(c) ==
  /\ ipc[c] = "audit"
  /\ hookAudit' = hookAudit \cup {c}
  /\ IGoto(c, IF c \in Hooks THEN "reply" ELSE "ok")
  /\ UNCHANGED <<hooks, hookEvents, hookOf, found, cut>>

HookReply(h) ==
  /\ ipc[h] = "reply"
  /\ IGoto(h, "ok")
  /\ UNCHANGED <<hooks, hookEvents, hookAudit, hookOf, found, cut>>

-----------------------------------------------------------------------------
(* ingest *)

\* A mutant of InboundKey: "" where the payload has no id of its own.
InboundKeyEmpty == EmptyKey

\* parse_inbound gives the ticket no idempotency key.
InboundKey == NoKey

\* parse_inbound of an active integration's delivery: a ping makes an event
\* only; a title that is not a string has no strip(), which nothing catches.
Unticketed(payload) == IF payload = "ping" THEN "event" ELSE "raised"

\* An integration that is missing or not active refuses; a payload that makes a
\* ticket goes on to ticket_service.create without an await.
IngestRead(i, h, payload) ==
  /\ ipc[i] = "idle" /\ i \in Ingests
  /\ Names(i, h)
  /\ \/ /\ hooks[h].status = "active" /\ payload = "ticket"
        /\ IGoto(i, "create") /\ CreateStart(i, InboundKey)
     \/ /\ hooks[h].status = "active" /\ payload # "ticket"
        /\ IGoto(i, Unticketed(payload)) /\ UNCHANGED svcVars
     \/ /\ hooks[h].status # "active"
        /\ IGoto(i, "rejected") /\ UNCHANGED svcVars
  /\ UNCHANGED <<hooks, hookEvents, hookAudit, found, cut>>

\* A mutant of TicketMade: an exception of create is logged and the event
\* recorded all the same.
TicketMadeOrNot(i) == ipc[i] = "create" /\ pc[i] \in {"ok", "raised", "stopped"}

\* create has answered.
TicketMade(i) == ipc[i] = "create" /\ pc[i] = "ok"

\* The foreign key on integration_id: an event of an integration that is gone
\* is an error, after the ticket was made.
AfterEvent(i) == IF HookExists(hookOf[i]) THEN "count" ELSE "raised"

\* The first statement of record_integration_event.
IngestEvent(i) ==
  /\ ipc[i] = "event" \/ TicketMade(i)
  /\ hookEvents' = IF HookExists(hookOf[i])
       THEN [hookEvents EXCEPT ![i] = IF ipc[i] = "event" THEN "ignored" ELSE "ok"]
       ELSE hookEvents
  /\ IGoto(i, AfterEvent(i))
  /\ UNCHANGED <<hooks, hookAudit, hookOf, found, cut>>

IngestCount(i) ==
  /\ ipc[i] = "count"
  /\ hooks' = Counted(hookOf[i])
  /\ IGoto(i, IF pc[i] = "idle" THEN "ok" ELSE "sync")
  /\ UNCHANGED <<hookEvents, hookAudit, hookOf, found, cut>>

IngestSync(i) ==
  /\ ipc[i] = "sync"
  /\ hooks' = Synced(hookOf[i])
  /\ IGoto(i, "ok")
  /\ UNCHANGED <<hookEvents, hookAudit, hookOf, found, cut>>

-----------------------------------------------------------------------------

\* The call stops at an await and what it committed stays.  Inside create, the
\* stop is create's own.
HookStop(c) ==
  /\ ipc[c] \notin {"idle", "ok", "rejected", "raised"} /\ c \notin cut
  /\ ipc[c] = "create" => TicketMade(c)
  /\ cut' = cut \cup {c}
  /\ UNCHANGED <<hooks, hookEvents, hookAudit, ipc, hookOf, found>>

HookStep(c) ==
  \/ c \in Hooks /\ (HookInsert(c) \/ HookReply(c))
  \/ c \in Tests /\ TestWrite(c)
  \/ c \in Deletes /\ DeleteWrite(c)
  \/ c \in Ingests /\ (IngestEvent(c) \/ IngestCount(c) \/ IngestSync(c))
  \/ HookAuditRow(c)
  \/ HookStop(c)

HookNext ==
  \/ \E c \in HookCalls : HookStep(c) /\ UNCHANGED svcVars
  \/ \E t \in Tests, h \in Hooks, outcome \in {"connected", "fails", "raises"} :
       TestRead(t, h, outcome) /\ UNCHANGED svcVars
  \/ \E d \in Deletes, h \in Hooks : DeleteRead(d, h) /\ UNCHANGED svcVars
  \/ \E i \in Ingests, h \in Hooks, payload \in Payloads : IngestRead(i, h, payload)

\* The ticket service goes on meanwhile, a create that is an ingest's from
\* where the ingest has called it.
TicketNext ==
  /\ SvcNext
  /\ \A i \in Ingests : pc[i] = "idle" => pc'[i] = "idle"
  /\ UNCHANGED hvars

IntInit == SvcInit /\ HookInit

IntNext == HookNext \/ TicketNext

IntSpec == IntInit /\ [][IntNext]_<<svcVars, hvars>>

-----------------------------------------------------------------------------
(* Properties *)

\* event_count is the number of events the integration has, apart from those
\* whose ingest has yet to count them or stopped before it did: whatever ran
\* between the two statements of record_integration_event (db/store.py:768-783).
EventCountKept ==
  \A h \in Hooks : HookExists(h) =>
    hooks[h].count
      = Cardinality({i \in Ingests : /\ hookOf[i] = h /\ hookEvents[i] # "none"
                                     /\ ipc[i] # "count"})

\* A delivery that was answered with a ticket has left all its traces: the
\* ticket, its job's row, its audit row, and the event as long as the
\* integration exists.  Deletes and tests race it from its first read on.
IngestTraced ==
  \A i \in Ingests :
    ipc[i] = "ok" /\ pc[i] # "idle"
    => /\ Exists(i) /\ i \in audit
       /\ jobLog[i].status # Absent
       /\ HookExists(hookOf[i]) => hookEvents[i] = "ok"

\* A delivery that fails, where no await of it fails, leaves all or nothing: the
\* whole ticket, if its integration was deleted before its event was written,
\* and no trace if the integration is there, the payload being what it could not
\* read (integrations/webhook.py:38).  It never fails inside create: no other
\* create, keyed or not, makes its insert collide.
IngestFailsWhole ==
  \A i \in Ingests :
    /\ pc[i] # "raised"
    /\ ipc[i] = "raised" /\ pc[i] # "idle" =>
         /\ ~HookExists(hookOf[i])
         /\ Exists(i) /\ jobLog[i].status # Absent /\ i \in audit
    /\ ipc[i] = "raised" /\ HookExists(hookOf[i]) =>
         /\ ~Exists(i) /\ jobLog[i].status = Absent
         /\ i \notin audit /\ hookEvents[i] = "none"

\* A deleted integration stays deleted, although a test that read it before
\* writes its outcome after (update_integration is a plain UPDATE), and an
\* ingest its count.
DeletedStaysDeleted ==
  [][\A h \in Hooks : ipc[h] # "idle" /\ ~HookExists(h) => ~HookExists(h)']_hooks

=============================================================================
