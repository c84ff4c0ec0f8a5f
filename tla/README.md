# AutoSupport: a TLA+ model of the ticket API and its workers

AutoSupport is a helpdesk backend: a FastAPI service writes tickets to
PostgreSQL and enqueues an ARQ job for each; worker processes run a five-stage
pipeline on the ticket and write its assignment back.  This directory models
that code (paths below are relative to `src/`), model-checks it on small
instances and proves its central results for every instance.

## 1. Inventory

| component | state it keeps | operations | correct when |
|---|---|---|---|
| status graph (`domain/ticket.py`, `models/ticket.py`) | none: a table | `can_transition`, `validate_transition` | closed is final; every status change is in the table |
| ticket service (`services/ticket_service.py`, `api/tickets.py`) | rows of `tickets` and `audit_log` | `create`, `update`, `resolve`, `bulk_close`; `get_page` reads | concurrent calls follow the status graph; one ticket per key; no two calls take the same resolve, reopening or close for theirs |
| manual retry (`api/queue.py`) | a row of `job_log`, a queued job | `retry_job`; `list_jobs` reads | a retry never undoes or doubles a classification |
| store (`db/store.py`, `alembic/`) | the tables | the SQL statements, some in transactions of their own | a statement's WHERE clause decides what its caller read earlier |
| ARQ queue (`tasks/worker.py`; ARQ and Redis are external) | queued jobs, tries, results | enqueue, pick up, complete, fail, queue again, evict | an enqueued job ends |
| classification job (`tasks/classify.py`) | the ticket's assignment and status, `job_log`, `agent_events` | `classify_ticket` | `job_log` claims only what was done; a ticket is classified once; a resolved ticket stays resolved |
| pipeline engine (`workflows/engine.py`), signal audit (`plugins/signal_audit.py`) | its merged result | `run_pipeline`, `_run_stage`; the audit's flags | the first failing stage ends it and is named; only what may be doubted is flagged |
| agents (`support_agents/`, `intelligence/rules_engine.py`, `intelligence/router.py`) | a round-robin index per team | scoring, thresholds, overrides, routing | five agents with a table each agree on outages and escalations; a team's engineers get tickets in turn |
| LLM client (`intelligence/llm_client.py`) | a cache with a TTL and a bound | `classify` | a cached answer is the answer to this input and is not too old |
| SLA sweep (`services/sla_service.py`) | `response_sla_breached` | `run_sla_sweep` every 15 minutes | every overdue unresolved ticket is marked in the end; no other is, unless it moves while the sweep waits for its page |
| accounts (`services/user_service.py`, `core/security.py`) | `users`, attempts per process, tokens | `login`, `create_user`, `change_password`, `update_user`, `seed_admin`, `require_auth` | a token is accepted only while the password that bought it is current |
| integrations (`services/integration_service.py`, `integrations/`) | `integrations`, `integration_events` | `create`, `test`, `ingest`, `delete` | `event_count` counts the events; an answered delivery has left its ticket, job and event, and a failed one all of the ticket or nothing; a deleted integration stays deleted |
| rate limiter (`core/rate_limit.py`, `core/middleware.py`) | a sorted set per client address, in Redis | `check_rate_limit`, `rate_limit_remaining` | a call passes only below `limit` in its window, and is refused only at it; the header is honest |
| attempt limit of login (`core/security.py`) | a dict of deques per process | `check_login_rate`, `record_failed_login`, `clear_login_attempts` | an email is locked out exactly while ten failures are in its window |
| event bus (`domain/bus.py`, `domain/events.py`) | subscribers (there are none) | `emit` | - |
| analytics (`api/analytics.py`, `api/agents.py`) | none: queries | backlog, load, timelines | the history of the backlog is what was open |
| start-up, configuration, logging, metrics, pool, dashboard | - | - | - |

How they interact.  Requests and jobs share only the database and Redis.  The
API answers many requests at once on one event loop and in several processes;
every database and queue call is an `await`, so between any two of them
other handlers run.  A create commits its ticket, enqueues the job, writes the
job's `job_log` row, then the audit row: four separate effects.  The job
meanwhile may already run in a worker, reading and writing the same ticket and
the same `job_log` row.  An operator's PATCH, resolve or bulk close
moves the ticket while the job works on the row it read earlier.

What is hard.  The read of a status and the write that relies on it are apart
(the compare-and-set decides); two creates race on one idempotency key; the
API and the worker write `job_log` in either order; the worker dies between two
writes and the job runs again; the request dies between insert and enqueue;
the pipeline's result, "escalated" among it, is written over a row that has moved on; the sweep
waits for its page and reads the clock after; an integration is deleted while a
delivery to it is on its way; calls reach Redis in another order than they read the clock; a login
fails while others of its email are being verified; Redis, configured
with a memory limit and `allkeys-lru`, may evict queued jobs.  `PROJECT.json`
lists each of these hazards at its line.

## 2. Plan

Written in this order; all of it exists.

1. `TicketStatus`, `TicketLifecycle` (abstract), `TicketStore`, `ArqQueue`,
   `TicketService`, `TicketServiceProofs`, `ClassifyWorker`, `AutoSupport`.
2. `Accounts`, `AccountsProofs`: users, token versions, passwords.
3. `Agents`, `Pipeline`, `PipelineProofs`: what the five agents and the signal audit
   compute, and what concurrent pipelines share in a worker's memory.
4. `SlaSweep`, `SlaSweepProofs`: the page, ages, the marking of rows read earlier.
5. `Integrations` on top of `TicketService`: ingest around `create`, tests and deletes
   racing it, the event row and the counter.
6. `Clock`, `Lockout` (abstract), `LoginLimit`, `LoginLimitProofs`, `RateLimit`, `RateLimitProofs`:
   the two limits on callers.
7. `StatusLedger` on top of `AutoSupport`: who leads a ticket into and out of "resolved" and "closed",
   the jobs included.
8. `Insights` on top of `StatusLedger`: the backlog queries against `resolved_at` and
   `status`.
9. `AutoSupportProofs`: the composition's properties and its books for every instance; in
   `PipelineProofs` the round robin.
10. `ServiceLayersProofs`: `Integrations` over the invariant of the ticket service, `Insights` over
   that of the books.

## 3. Modules

`TicketStatus` is the transition table of `domain/ticket.py` as a relation.
`TicketLifecycle` is the abstract specification: a ticket is opened once and then
moves along the table, alone or with others when a bulk call closes several.

`TicketStore` holds the tables (`tickets`, `jobLog`, `audit`) and one operator
per SQL statement or WHERE clause.  A ticket's row keeps the status, the
idempotency key, whether `resolved_at` is set, and the assignment.  The
assignment is named by the job that wrote it, so that a second assignment is
visible; its team and engineer are not told apart.  `auto_router` always
names a team, so a finished pipeline always assigns.

`ArqQueue` adds the queue (`arq`): per job its state, its ticket argument and
its tries.  ARQ and Redis are not under `src/`; the module assumes of them what the
code assumes: one execution of a job at a time, an interrupted execution queued
again, every execution counted, `max_tries` enforced.

`TicketService` models every handler that changes tickets.  A request is one
call; `pc` says which `await` it is at; `key`, `target`, `seen`, `to` and `closed` are the
handler's local variables.  Each action runs from one `await` to the next:

| code | actions |
|---|---|
| `ticket_service.create` | `CreateHit` / `CreateStart` (key lookup), `CreateInsert` / `CreateConflict`, `CreateConflictHit`, `Enqueue`, `LogEnqueued`, `Audit`, `Reply` |
| `ticket_service.update` | `UpdateRead` / `UpdateReadFields`, `UpdateCommit` / `CasFails`, `Reply` |
| `ticket_service.resolve` | `ResolveRead`, `ResolveCommit` / `CasFails`, `Reply` |
| `ticket_service.bulk_close` | `BulkClose`, `Audit` |
| `api/queue.retry_job` | `RetryRead`, `Enqueue`, `LogEnqueued` |
| exception at an await, cancelled handler, crashed process | `Stop` |

A transaction is one action: its first statement is the compare-and-set, which
locks the row until the commit, and nothing the transaction does before the commit is
visible outside.  A request draws fresh uuids, so a create, the ticket it
may insert and the job it may enqueue share one name.
`audit` holds the requests whose audit row is committed, and no more: a PATCH's row does not tell the
statuses (`updates.pop("status")` comes before `updates` is written, `services/ticket_service.py:119` and `:131`).
`CommittedMoves` therefore reads which move a request made from the request's own variables, which are
history once it is over.

`ClassifyWorker` models `classify_ticket` one database call at a time (`wpc`), with the
pipeline as one step that ends in a result (`PipelineOk`, escalating or not), a
failing stage (`PipelineFails`) or an error outside the stages
(`PipelineBreaks`).  `Die` ends an execution anywhere: crash, redeployment,
`job_timeout`, a database error.  Whether ARQ then fails the job or queues it again is
left open, as it is for a job that raised.

`AutoSupport` composes the two: the same tables, the same queue.

`StatusLedger` adds to it one history variable, `overwritten`: how often a job wrote "escalated" over a
ticket that was resolved, or closed.  That write leaves no audit row, and the API cannot tell it from a
reopening.

`Accounts` models the users table and every handler that changes it or hands
out tokens.  `upc` says at which `await` a call is; `email`, `who` and `issue` are its local
variables.  A password stands for its hash: a salted hash verifies exactly the
password it was made of.

| code | actions |
|---|---|
| `user_service.seed_admin` | `SeedRead`, `SeedRefresh` or `SeedInsert` (ON CONFLICT DO NOTHING) |
| `user_service.login` | `LoginRead` (lookup, verification on the row read), `LoginIssue` |
| `security.require_auth`, `require_admin` | `Authorise`, by `Accepted` and `Admitted` |
| `user_service.create_user` | `CreateRead`, `CreateInsert`, `UserAudit` |
| `user_service.change_password` | `ChangeRead`, `ChangeCommit` |
| `api/users.update_user` | `PatchRead`, `PatchCommit`, `UserAudit` |
| exception, cancelled handler, crash | `UStop` |

`Agents` holds the five agents, the rules and the keyword router as operators.  A
text is what the keyword tables see of it: which rules its title fires, whether it
speaks of an outage, how often each table scores, and its head, which is all that the
LLM cache's key tells apart.  Confidences are thousandths and weights hundredths; at every
threshold the integers decide as the code's floats do, for all scores
and weights that can occur.

`Pipeline` runs them: several executions of `run_pipeline` in several worker
processes.  Only the request to the LLM gives way to other jobs, so a run is one
action without it (`RunByKeywords`, `RunCached`) and two with it (`AskLLM`, then
`LLMAnswers`, `LLMFails`, or `CancelRun`).  `cache` and `robin` are the two
dictionaries a process keeps; they end with it (`WorkerEnds`).  `Finish` is everything after
the classifier: priority, escalation, actions, team, engineer, queue, and the flags of the signal audit.

`SlaSweep` models `run_sla_sweep`: `SweepRead` fetches the `page` (the newest
`PageLimit` rows, the smaller of the 1000 asked for and the 200 given), `SweepClock` reads the clock when the
awaited query has answered and keeps in `todo` the rows the loop will mark, `SweepMark` is one UPDATE,
`SweepStops` an error, a timeout or the end of the worker.  `Arrive`, `OperatorMoves` and `Triaged` are what
inserts, transitions and classification jobs do meanwhile to the columns the sweep looks at.
The code decides each row as the loop reaches it, but from the page and the clock it has read by then, so
deciding all of them at the clock is the same; deciding them at the page would not be.  `late` and `overtaken`
are history: what was ever overdue, and what was resolved or given another priority between the two reads.

`Integrations` extends `TicketService`: `hooks` and `hookEvents` are its two tables, `ipc` says
at which statement a call is.  An ingest is a create of `TicketService`, whose arrival `IngestRead`
decides and whose own steps run under `TicketNext`, so that it meets every other request there.
A payload is any JSON object: it makes a ticket, is a ping, or has a title that is not a string, on which
`parse_inbound` raises what nothing catches (`integrations/webhook.py:38`).  A `notify_url` that is not a string
does the same to a test (`:22`).

| code | actions |
|---|---|
| `integration_service.create` | `HookInsert`, `HookAuditRow`, `HookReply` |
| `integration_service.test` | `TestRead` (the read and the connection), `TestWrite` |
| `integration_service.ingest` | `IngestRead`, then `ticket_service.create`, `IngestEvent`, `IngestCount` (the two statements of `record_integration_event`), `IngestSync` |
| `integration_service.delete` | `DeleteRead`, `DeleteWrite` (with the cascade to the events), `HookAuditRow` |
| exception, cancelled handler, crash | `HookStop`, and `Stop` inside `create` |

`Lockout` is the abstract attempt limit: the failures of an email since its last success, and an email locked
out while the last `MaxAttempts` of them are in the window.  `LoginLimit` is how the code keeps it: a dict of deques
(`attempts`), pruned at the front by each check, evicted by entry when the dict is large, checked before the
`await`s of `login` and recorded after them (`CheckLogin`, then `FailLogin`, `SucceedLogin` or
`LeaveLogin`); `RestartApi` empties it.

`RateLimit` is the limit on calls.  `zset` is the sorted set, `expires` its time to live; a call reads the clock
(`AskClock`), reaches Redis later (`Ask`, one MULTI), and after its handler reads the clock again, removes and
counts (`HandledClock`, `RemoveOld`, `CountLeft`, two commands).  `seen` and `latest` remember what Redis saw,
`promised` what the headers said.  `Clock` is the time of both, and of `Insights`.

`Insights` extends `StatusLedger` with hours: `created` and `resolved` are the two columns the
backlog query reads, set by the same actions as in the code (`Serve`), and `Backlog` is the query; `wasOpen` remembers
what was open at each hour (`HourEnds`).  An event falls between two hours, never on one: the columns are
in microseconds.

The proofs are in `TicketServiceProofs`, `AutoSupportProofs` (requests and jobs together),
`ServiceLayersProofs` (`Integrations` and `Insights`), `AccountsProofs`, `PipelineProofs`, `SlaSweepProofs`,
`RateLimitProofs` and `LoginLimitProofs`; the `MC...` modules are instances for TLC.

Definitions whose comment begins with "A mutant of ..." are plausible bugs: each property has one that
breaks it, which shows that the property depends on that line of the code.

## 4. Runs

All runs set `CHECK_DEADLOCK FALSE`: a run has a fixed set of requests, jobs,
pipelines or tickets, and once they have all ended the system stops, as it should.

| run | instance | what it shows |
|---|---|---|
| `integrations` | an integration, two deliveries to it, a test, a delete; three creates with two keys (one of them the empty string) or none | `SvcTypeOK`; `RepliesAgree`: answered creates of one key name one ticket, by lookup, insert or conflict lookup; `KeyedCreateAnswered`: the loser of an insert race always finds the winner; `HookTypeOK`; `EventCountKept`: `event_count` is the number of events, but for an ingest between its two statements; `IngestTraced`: an answered delivery has left its ticket, job row, audit row and event; `IngestFailsWhole`: a delivery that fails by itself leaves the whole ticket, its integration being deleted, or no trace; `DeletedStaysDeleted` |
| `limits` | three calls of one client, two per window of two; logins of two emails, two at a time, two failures per window of one | `RateTypeOK`; `LimitKept`: a call in the order of its reading, and no later than the second by which the key outlives its readings, is let in only below the limit; `RefusedOnlyAtLimit`: any call is refused only at the limit; `RemainingHonest`: a header of n is good for the next n calls; `LoginTypeOK`; `ImplementsLockout`: the dict of deques implements `Lockout`; `FailuresBounded`: logins under way together exceed the limit by no more than their number |
| `insights` | one ticket, its job; a PATCH, a resolve, two bulk closes, any three of them, two at a time over three hours | `InsTypeOK`; `OnlyTriageLeavesGraph`: API and workers implement `TicketLifecycle`, although every handler validates a status it read before its transaction, with one action more, the job's write of "escalated"; `ResolvedBalanced`: calls that resolved the ticket balance calls that reopened it, jobs that wrote over it and its being resolved; `ClosedBalanced`: it is closed, and counted, again only after a job wrote over its being closed; `BacklogAccounted`: the history of the backlog is what was open, except for tickets ended by PATCH or bulk close, or reopened by a PATCH or by their job |
| `graph` | a ticket, its job with two tries, a racing PATCH, with fairness | `EnqueuedJobEnds`: an enqueued job ends assigned, given up or lost |
| `triage` | a ticket, its job and a manual retry's, two tries each, two stages | `TypeOK`; `LogClaimsOnlyWork`, `CompleteMeansAssigned`, `AttemptsHonest`: what `job_log` and ARQ say is in the tables, whatever died or ran twice |
| `accounts` | two start-ups, two creates, two logins, a password change, a PATCH; two emails, two passwords | `AccTypeOK`; `AcceptedTokenIsCurrent`: a token that is accepted was bought with the account's current password, whatever ran between verification and issue; `OneAccountPerEmail` |
| `pipeline` | three pipelines on two workers, five texts, two LLM answers | `PipeTypeOK`; `OutageHandled`: all agents treat an outage as one; `EscalatedAtLeastHigh`: an escalated technical issue or bug is not predicted low or medium; `FairShare`: a process hands tickets to engineers in turn; `CacheServesRecent`: what claims to be the LLM's answer was given for the same head, to the same process, less than the TTL ago; `AuditFlagsDoubt`: the signal audit flags only an unsure answer of the LLM or a score near a threshold |
| `sla` | two tickets, a page of one, one sweep cut off, with fairness | `SlaTypeOK`; `MarkedWasLate`: a marked ticket was late, or was resolved or given another priority while the sweep waited for its page; `OverdueMarked`: an unresolved ticket past its first response is marked in the end as long as it stays in the page |

Four runs end in a violation: each is a statement of the repository that the code
does not keep.

| run | statement | what happens |
|---|---|---|
| `escalates_closed` | `domain/ticket.py:3` "anything not listed is rejected" | the job writes "escalated" over a ticket resolved or closed while it ran |
| `classified_twice` | `tasks/classify.py:29` "Idempotent" | the job of the create and that of a manual retry both read the ticket unassigned and both assign it |
| `finished_job_hidden` | `db/store.py:256` "tracks job status for visibility" | the API's late "enqueued" row replaces the worker's "done" for good |
| `never_triaged` | `README.md:141` "New tickets are automatically classified and routed" | a create stops between insert and enqueue; the client's retry with the same key is answered with that ticket and nothing will classify it |

More disagreements are reachable in the same models and are recorded as
hazards: a job that ARQ ends by timeout or by its tries stays "running" or
"enqueued" in `job_log`; after a death between the assignment and the agent events the next
run skips the ticket and the events are never written; `create` and
`bulk_close` commit their change before their audit row and apart from it; the
sweep asks for 1000 tickets, is given the 200 newest, resolved ones included, and
never marks an older one; the round robin is one per process, so that across
processes an engineer may be several tickets ahead; a ticket closed in bulk stays in the history of
the backlog for good, and one reopened, also by its job's write of "escalated", is missing from it; a bulk close counts
a ticket again that a job wrote over in between, and no audit row tells of that write; a ticket resolved in time
while the sweep waits for its page is marked when its threshold passes before the clock is read; a title that is
not a string fails a delivery with an uncaught error, and a `notify_url` that is none a test, although
`integrations/base.py` says of `test_connection` "Must not raise"; two calls at one reading of the clock count once,
and a call overtaken on its way to Redis, or delayed by more than a second, may be let in above the limit; a
delivery to an integration that is deleted meanwhile is answered with an error although its ticket was made, and a
delivery that comes twice makes two tickets.

Bounds.  Every race in this code is between two or three
parties on one row: two creates and the winner's reader (three creates), two
compare-and-sets and a third writer, two jobs of one ticket.  Tickets do
not interact except through keys, and the `integrations` run has three creates, and through bulk
calls, which treat each row alone.  `MaxTries` 2 gives an execution that dies at every point and one
that finds its traces; `NumStages` 2 separates the first, a middle and the last event.
`jobLog`'s attempts are bounded by `MaxTries`.
`accounts` runs in a development environment, where start-ups refresh the
administrator; `Production` only takes that action away.  Two calls of a kind
race with each other, and a login or a start-up with the one password change.
`pipeline`'s texts are two of one head that need the LLM (no keyword at all, and one in every
priority table), an outage under a billing title, a technical issue of high priority
and a critical bug; its answers are the strongest one and one outside the tables.
Two heads make two cache entries; `CacheSize` 0 runs the eviction at every write;
a TTL and a clock of one step tell a fresh entry from an expired one.  Three runs let
two wait for the LLM at once while a third uses the cache, and go round a team of two.
`sla`'s page of one leaves one of the two tickets out; that a longer page, of which several marks follow
one reading of the clock, is as safe is proved (section 5).  Tickets are named in the order of
their arrival; both thresholds of first response elapse within the clock.
`integrations` keeps to two scenes (`Scene`): no call about the integration, or at most one request
besides the deliveries; an ingest touches other requests only through the keys, and it gives none.
`insights` lets two calls be under way at once and three begin, none of them refused or stopped (`Scene`): one
that stops leaves what it had committed.  The job runs beside them and is not given up: it may be slow.
`limits` is about calls to one path, that of login or another: login is exempt from the limit on
calls, so the two never meet.  Three calls fill a window of two and are refused; the clock of four readings
outlives the key.  Two logins at once pass the limit of two; `MaxTracked` 1 evicts at every failure.
Requests of one kind are interchangeable in the
safety runs on top of `TicketService` and in that of `Accounts`, runs and workers in `pipeline`
(`Symmetry`); calls, logins and emails in `limits`; runs with liveness use none.

Fairness.  `FairSpec` assumes weak fairness of each handler's next step (the
event loop resumes every handler whose `await` finished) and of each job's
next step (the workers poll the queue; their steps are enabled until taken).
Nothing is assumed of arrivals, stops, deaths and evictions: a client need not call,
and the model may crash at any step or at none.  A job cannot die for
ever because every execution counts a try.  `SlaFairSpec` assumes that the cron
job runs again and again and that its query and its UPDATEs end; a sweep may be cut off
`MaxStops` times, since a sweep cut off every time would mark nothing.

## 5. Proofs

`TicketServiceProofs` is about `TicketService` with any sets of tickets,
requests and keys and any `MaxTries`.  Assumed: the named assumptions on
constants (`NoJob` is no job, `NoKey` no key, `NoTicket` no ticket, the kinds of
requests are disjoint, `MaxTries` positive).

- `TypeCorrect`: `SvcSpec => []SvcTypeOK`.
- `Invariance`: `SvcSpec => []SvcInv`, the inductive invariant.  `RepliesAgree` is not
  inductive alone: an answered create says nothing of the requests still
  on their way.  `SvcInv` adds `KeyUnique` (two rows never share a key: the
  UNIQUE constraint as the insert tests it), `CreatePhase` (what a create knows at
  each `pc`: before the insert its row does not exist; past it the target is its own
  row with its key; at `conflict` some row holds its key; when answered, the target
  exists and holds it) and `MovePhase` (a request in its transaction validated
  exactly the status it will compare with).
- `CreatesAgree`, `KeyedCreatesAnswered`: `RepliesAgree` and
  `KeyedCreateAnswered` from `SvcInv`.
- `ImplementsLifecycle`: `SvcSpec => FollowsLifecycle`, the refinement: commits map to
  `Open`, `Move` and `CloseAll` (`MovePhase` gives the move's legality, the
  compare-and-set its source), all other steps to stuttering.
- `ClosedStaysClosed`: in the ticket service a closed ticket stays closed and no ticket disappears.

`RowsStep` says what any step may do to a row: keep its key and its existence, and create it only
by its own `CreateInsert`.  `KeyUnique` and `CreatePhase` are then preserved without looking at the
other actions one by one; the refinement has a case for each of the four actions that write a status.

`AutoSupportProofs` is about `AutoSupport`: the same with any number of stages besides.

- `AutoInvariance`: `AutoInv` is inductive.  None of the three properties of `job_log` and ARQ is: a
  "done" row says nothing of an execution on its way to write one.  For each job, `QueueOK` ties the
  request's `pc` to the queue (a job is enqueued once, for a ticket that exists, and has no
  log row before); `WorkOK` says what an execution has found or done by the time it is at each `wpc`
  (an assigned ticket, the events of the stages before its own, an attempt counted); `ClaimOK` is what is
  claimed.  With `SvcInv`, since a request's row of the table must be its own, and `OnlyRowsAssigned`,
  since an insert starts a row without an assignment.
- The argument is in two lemmas.  `JobKept`: a step that leaves a job's row, queue entry and execution
  alone leaves what is true of it, as long as no ticket or assignment is lost; so each action is
  looked at for its own job only, and another job's write over the same ticket can only assign it
  again.  The late "enqueued" row of the API overwrites the status and keeps the attempts, which
  is what `ClaimOK` needs of it.
- `AutoTypeCorrect`, `LogIsTrue`, `CompleteIsAssigned`, `AttemptsAreTries`: `TypeOK`,
  `LogClaimsOnlyWork`, `CompleteMeansAssigned` and `AttemptsHonest` from it.
- `TriageAloneLeavesGraph`: `Spec => OnlyTriageLeavesGraph`, the refinement of `TicketLifecycle` with one action
  more.  A step of a request is a step of `TicketLifecycle` also next to jobs, for `SvcInv` is a conjunct of
  `AutoInv`; of a job's steps, `WriteResult` alone touches a status.
- `JobsKeepAgreement`: `RepliesAgree` and `KeyedCreateAnswered` hold of the composition as well.
- `LedgerInvariance`: `LedgerInv`, inductive over `AutoInv`.  The counts are of sets that grow, so it
  says that they are finite; and since they are made of the requests' local variables,
  `AuditedEnded` says that a move with an audit row is over and its variables rest, and that a bulk call that
  has not begun has closed nothing.  A step of a request commits at most one move, and moves one ticket's count
  and that ticket's status together; the compare-and-set of a second closer fails on a closed ticket.  A
  step of a job (`WorkerStatus`) either leaves a status alone or writes "escalated" and is entered in the books.
- `ResolvedAlwaysBalanced`, `ClosedAlwaysBalanced`: `ResolvedBalanced` and `ClosedBalanced` from it.

`ServiceLayersProofs` is about `Integrations` and `Insights`, with any integrations, deliveries, tests,
deletes and hours.  Assumed besides: the kinds of calls are disjoint and a delivery is a create
(`HookAssumption`), the clock ends (`TimeAssumption`).

- `IntInvariance`: `IntInv` is inductive.  `CreateTrace`: what a delivery's create, which has no key, has left
  behind at each `pc`, nothing before it begins, and that its insert never collides; `CreateCalled`: the create runs exactly while
  the delivery waits for it; `EventOK`: the event is there from its insert until the delete,
  and a delivery to an integration that is there raises only before its create; and a row's `count` is the number of
  `EventsCounted`, the events whose delivery is past its second statement.
- `HookTypeCorrect`, `CountIsOfEvents`, `DeliveryTraced`, `DeliveryFailsWhole`: `HookTypeOK`, `EventCountKept`,
  `IngestTraced` and `IngestFailsWhole` from it.
- `DeletedForGood`: `IntSpec => DeletedStaysDeleted`, by `OnlyInsertMakes`: no step but an
  integration's own insert makes its row, and the insert runs once.
- `DeliveriesKeepAgreement`: `RepliesAgree` and `KeyedCreateAnswered` also under `IntSpec`.
- `InsInvariance`: `InsInv` is inductive over `LedgerInv`.  `ColumnsOK` says how the columns may differ from
  the status: a row that is not ended has `resolved_at` only if a PATCH or a job reopened it, one that is ended lacks it
  only if a PATCH or a bulk close ended it.  That blame is read off the committed moves, the counts of bulk closes
  and `overwritten`, so it has to last: `HistoryKept`, from `AuditedEnded`.  The hour that ends is accounted for by
  `ColumnsOK`, the earlier ones because the columns only change to the present.
- `InsTypeCorrect`, `HistoryAccounted`: `InsTypeOK` and `BacklogAccounted`.

`AccountsProofs` is about `Accounts` with any accounts, calls, emails and
passwords.  Assumed: the kinds of calls are disjoint, `None` is nothing else, the configured
administrator's email and password are an email and a password.

- `AccInvariance`: `AccInv` is inductive.  It is `AccTypeOK`, `OneAccountPerEmail`, and:
  `TokensFollow` (a token's account exists, its version is not ahead of the
  account's, and at equal versions it was bought with the account's password; the same of
  a token a login is about to be given), `RowsWait` (a call that has not inserted
  finds its row absent, so that an insert never overwrites an account somebody
  has a token for) and `LabelsOwn`.
- `PasswordChangeRevokes`, `EmailsAreUnique`, `AccTypeCorrect`: `AcceptedTokenIsCurrent`,
  `OneAccountPerEmail` and `AccTypeOK` from it.  The argument is `RowStep`: no step lowers a
  version, and one that changes a password raises it.

`PipelineProofs` is about `Pipeline` with any runs, workers, texts and
answers, any TTL, cache size and clock, with or without the LLM.

- `PipeInvariance`: `PipeInv` is inductive.  `EntriesAnswered`: a cache entry is an answer that came
  TTL before it expires; `Waiting`: a run at the LLM has a text that needs it;
  `ResultsFollow`: a result's classification is the router's or such an answer, and the rest
  of it is what the agents make of that classification.
- `OutagesHandled`, `EscalatedAreHigh`, `ServedAnswersAreRecent`, `FlagsAreDoubt`: `OutageHandled`,
  `EscalatedAtLeastHigh`, `CacheServesRecent` and `AuditFlagsDoubt`.  All but the third are then facts about the agents'
  operators alone: an outage is ruled technical and critical whatever the base; each
  way to an escalation score of 40 gives a priority score of at least 40; and a keyword
  table is at least half sure, since the best of four scores is at least a quarter of their sum
  (`TablesConfident`).
- `ShareInvariance`: `ShareInv` is inductive.  `FairShare` bounds differences, and a difference of one may
  grow to two unless it is known whose turn it is: `InTurn` says that a worker has gone round each team
  some number of times and once more up to the index it keeps.  Results are counted, so they are finite, and
  each is of a run that has ended, so that the result a run ends with is a new one.  That an
  engineer's results are those of one team needs that nobody is twice in the roster (`RosterDistinct`).
- `SharesAreFair`, `PipeTypeCorrect`: `FairShare` and `PipeTypeOK`.

`SlaSweepProofs` is about `SlaSweep` with any number of tickets, page, limits, priorities and thresholds.

- `SlaInvariance`: `SlaInv` is inductive.  `PageOK`: the page the sweep holds and the table agree on when a
  ticket was created and, unless it was overtaken, on its priority and on whether it may be open; so that what
  the page shows due when the clock is read is overdue in the table, or overtaken (`DueIsOverdue`).  What is overdue
  now is in `late`; what is to be marked was late or overtaken, which has to be remembered in `todo`
  because the mark is made on rows that may since have been resolved.
- `OnlyLateIsMarked`: `MarkedWasLate`, its last conjunct.
- `SlaTypeCorrect`: `SlaTypeOK`, in which a row is never created after now.

`RateLimitProofs` is about `RateLimit` with any number of calls, limit, window and clock.  Assumed: the
limit, the window and the end of the clock are natural numbers.

- `RateInvAlways`: `RateInv` is inductive.  None of the three properties is inductive alone, since
  they compare what Redis counted with what it was ever asked.  `StoredSeen`: every
  reading in the set was a call's; `SeenStored`: a reading is lost only to a removal by a
  window it was outside of, or a window and a second after it was taken; `Outlives`: the key expires no
  sooner; `RoomPromised`: the set and the calls promised together are within the limit.
- `LimitAlwaysKept`, `RefusalsJustified`, `PromisesKept`, `RateTypeCorrect`: `LimitKept`,
  `RefusedOnlyAtLimit`, `RemainingHonest` and `RateTypeOK` from it.  `AskWindow` is the heart:
  what `check_rate_limit` counts is part of the call's window, and all of it when the call is in
  order and on time.

`LoginLimitProofs` is about `LoginLimit` with any emails, a finite number of logins, any window and bound of the
dict, and at least one attempt.

- `LoginInvAlways`: `LoginInv` is inductive.  `FailuresSorted`: failures are in the order of time, so that
  what is expired comes first; `DequesEnd`: a deque is the end of its email's failures, and what is
  before it is expired (after pruning, after eviction of the entry, or without any);
  `StillBounded`: the failures of a window and the logins that may still add one are within the
  bound; `VerifyingEmail`.
- `LoginKeepsPromise`: `LoginSpec => ImplementsLockout`, the refinement.  `PassesUnlessLocked` is
  its heart: the pruned deque is shorter than the limit exactly when the failure that many
  places back is expired.
- `FailuresAlwaysBounded`, `LoginTypeCorrect`: `FailuresBounded` and `LoginTypeOK`.

Every invariant and every action property of the passing runs is so proved, and the refinement of `Lockout`.
Only model-checked: `EnqueuedJobEnds` and `OverdueMarked`, since liveness under fairness is outside what
the prover does.  `FollowsLifecycle`, about the API without workers, is only proved: what the run `insights`
checks is the same of the composition, in `OnlyTriageLeavesGraph`.  The strengthened invariants were
model-checked before they were proved: `ShareInv`, `IntInv`, `LedgerInv`, `InsInv` and `SlaInv` on the instances
of the runs `pipeline`, `integrations`, `insights` and `sla`.

## 6. Not modelled

In the ticket service titles, descriptions, priorities, categories and responses
(no property there tells them apart); syslog rows, metrics, logging; the events of
`domain/`, to which nothing subscribes; read-only queries, `compute_metrics` among them; keyword matching
itself (a text's scores are inputs) and response texts; expiry of tokens, their signing, the
integration secrets and `send_notification`; retention (`prune_logs`) and ARQ's one-hour
result expiry; PostgreSQL deadlocks between overlapping bulk closes (commits are
atomic here); the analytics queries other than the backlog; the number of entries the two in-memory
dictionaries and the sorted sets may grow to, which nothing in the code bounds; `core/retry.py` and `store.delete_ticket` (`db/store.py:168`, a plain UPDATE of the status), which nothing calls.
