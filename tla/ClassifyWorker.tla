--------------------------- MODULE ClassifyWorker ---------------------------
(***************************************************************************)
(* The ARQ job classify_ticket (tasks/classify.py) in the worker           *)
(* processes: every database call of the job is a step, and other jobs and *)
(* requests run between them.  The five-agent pipeline is one step: it     *)
(* works on the row read at the start and touches no table, so only its    *)
(* outcome matters: it escalates or not, or one of its stages fails, or    *)
(* something outside the stages does.                                      *)
(*                                                                         *)
(* A job may die at any step: its worker crashes or is redeployed (the job *)
(* is queued again), or job_timeout or a database error ends it.  What ARQ *)
(* does with a job that raised is left open: failed for good or queued     *)
(* again.                                                                  *)
(***************************************************************************)
EXTENDS ArqQueue

CONSTANT NumStages    \* the stages of workflows/engine.py: five

ASSUME NumStagesAssumption == NumStages \in Nat \ {0}

VARIABLES
  wpc,        \* wpc[j]: where the execution of job j is, "off" when not running
  escalate,   \* escalate[j]: the pipeline's should_escalate
  stage,      \* stage[j]: the stage that failed, or whose event is next
  events      \* agent_events: the <<ticket, stage, outcome>> recorded

wlocals == <<wpc, escalate, stage, events>>

Stages == 1 .. NumStages

WPC == {"off", "read", "missing", "skip", "start", "pipeline", "write", "events",
        "done", "failevent", "faillog", "raise", "return"}

WorkerTypeOK ==
  /\ wpc \in [Jobs -> WPC]
  /\ escalate \in [Jobs -> BOOLEAN]
  /\ stage \in [Jobs -> Stages]
  /\ events \subseteq Tickets \X Stages \X {"ok", "failed"}

WorkerInit ==
  /\ wpc = [j \in Jobs |-> "off"]
  /\ escalate = [j \in Jobs |-> FALSE]
  /\ stage = [j \in Jobs |-> 1]
  /\ events = {}

Ticket(j) == arq[j].ticket
Assigned(t) == tickets[t].assigned # NoJob
WGoto(j, l) == wpc' = [wpc EXCEPT ![j] = l]

\* The execution is over and its local variables are gone.
Leave(j) ==
  /\ WGoto(j, "off")
  /\ escalate' = [escalate EXCEPT ![j] = FALSE]
  /\ stage' = [stage EXCEPT ![j] = 1]

Pickup(j) ==
  /\ wpc[j] = "off" /\ PickupJob(j)
  /\ WGoto(j, "read")
  /\ UNCHANGED <<tickets, jobLog, audit, escalate, stage, events>>

\* get_ticket: no row, already classified, or to be classified.
Seen(t) == IF ~Exists(t) THEN "missing" ELSE IF Assigned(t) THEN "skip" ELSE "start"

ReadTicket(j) ==
  /\ wpc[j] = "read"
  /\ WGoto(j, Seen(Ticket(j)))
  /\ UNCHANGED <<tickets, jobLog, audit, arq, escalate, stage, events>>

LogRunning(j) ==
  /\ wpc[j] = "start"
  /\ jobLog' = UpsertJobStatus(j, "running")
  /\ WGoto(j, "pipeline")
  /\ UNCHANGED <<tickets, audit, arq, escalate, stage, events>>

\* run_pipeline returns.
PipelineOk(j, esc) ==
  /\ wpc[j] = "pipeline"
  /\ escalate' = [escalate EXCEPT ![j] = esc]
  /\ WGoto(j, "write")
  /\ UNCHANGED <<tickets, jobLog, audit, arq, stage, events>>

\* Stage k raises: StageExecutionError, recorded as an event.
PipelineFails(j, k) ==
  /\ wpc[j] = "pipeline"
  /\ stage' = [stage EXCEPT ![j] = k]
  /\ WGoto(j, "failevent")
  /\ UNCHANGED <<tickets, jobLog, audit, arq, escalate, events>>

\* Something after the stages raises: no event.
PipelineBreaks(j) ==
  /\ wpc[j] = "pipeline"
  /\ WGoto(j, "faillog")
  /\ UNCHANGED <<tickets, jobLog, audit, arq, escalate, stage, events>>

\* update_ticket: the assignment and, to escalate, the status, whatever the
\* row has become since it was read.
WriteResult(j) ==
  /\ wpc[j] = "write"
  /\ tickets' = [tickets EXCEPT
       ![Ticket(j)].assigned = j,
       ![Ticket(j)].status = IF escalate[j] THEN "escalated" ELSE @]
  /\ WGoto(j, "events")
  /\ UNCHANGED <<jobLog, audit, arq, escalate, stage, events>>

\* A mutant of RecordEvent: the last trace entry is not recorded.
RecordEventShort(j) ==
  /\ wpc[j] = "events"
  /\ events' = IF stage[j] = NumStages THEN events ELSE events \cup {<<Ticket(j), stage[j], "ok">>}
  /\ stage' = [stage EXCEPT ![j] = IF @ = NumStages THEN @ ELSE @ + 1]
  /\ WGoto(j, IF stage[j] = NumStages THEN "done" ELSE "events")
  /\ UNCHANGED <<tickets, jobLog, audit, arq, escalate>>

\* A mutant of RecordEvent: one entry too many.
RecordEventRunsOn(j) ==
  /\ wpc[j] = "events"
  /\ events' = events \cup {<<Ticket(j), stage[j], "ok">>}
  /\ stage' = [stage EXCEPT ![j] = @ + 1]
  /\ WGoto(j, IF stage[j] > NumStages THEN "done" ELSE "events")
  /\ UNCHANGED <<tickets, jobLog, audit, arq, escalate>>

\* record_agent_event, once for each entry of agent_trace, in order.
RecordEvent(j) ==
  /\ wpc[j] = "events"
  /\ events' = events \cup {<<Ticket(j), stage[j], "ok">>}
  /\ stage' = [stage EXCEPT ![j] = IF @ = NumStages THEN @ ELSE @ + 1]
  /\ WGoto(j, IF stage[j] = NumStages THEN "done" ELSE "events")
  /\ UNCHANGED <<tickets, jobLog, audit, arq, escalate>>

RecordFailure(j) ==
  /\ wpc[j] = "failevent"
  /\ events' = events \cup {<<Ticket(j), stage[j], "failed">>}
  /\ WGoto(j, "faillog")
  /\ UNCHANGED <<tickets, jobLog, audit, arq, escalate, stage>>

\* A mutant of AfterFailure: the exception is logged and swallowed.
AfterFailureSwallowed == "return"

\* Where the job goes once the failure is logged: it raises again.
AfterFailure == "raise"

\* The upsert_job_status before each way out, and where it leads.
Outcome ==
  [missing |-> "failed", skip |-> "skipped", done |-> "done", faillog |-> "failed"]

LogOutcome(j) ==
  /\ wpc[j] \in DOMAIN Outcome
  /\ jobLog' = UpsertJobStatus(j, Outcome[wpc[j]])
  /\ WGoto(j, IF wpc[j] = "faillog" THEN AfterFailure ELSE "return")
  /\ UNCHANGED <<tickets, audit, arq, escalate, stage, events>>

Return(j) ==
  /\ wpc[j] = "return" /\ EndJob(j, "complete")
  /\ Leave(j)
  /\ UNCHANGED <<tickets, jobLog, audit, events>>

Raise(j, s) ==
  /\ wpc[j] = "raise" /\ EndJob(j, s)
  /\ Leave(j)
  /\ UNCHANGED <<tickets, jobLog, audit, events>>

Die(j, s) ==
  /\ wpc[j] # "off" /\ EndJob(j, s)
  /\ Leave(j)
  /\ UNCHANGED <<tickets, jobLog, audit, events>>

\* The queue gives the job up: its tries are used up, or Redis lost it.
Exhaust(j) == ExhaustJob(j) /\ UNCHANGED <<tickets, jobLog, audit, wlocals>>
Evict(j) == EvictJob(j) /\ UNCHANGED <<tickets, jobLog, audit, wlocals>>

Fates == {"failed", "queued"}

\* The worker pool takes the next step of job j.
JobStep(j) ==
  \/ Pickup(j) \/ ReadTicket(j) \/ LogRunning(j)
  \/ (\E esc \in BOOLEAN : PipelineOk(j, esc))
  \/ (\E k \in Stages : PipelineFails(j, k))
  \/ PipelineBreaks(j)
  \/ WriteResult(j) \/ RecordEvent(j) \/ RecordFailure(j) \/ LogOutcome(j)
  \/ Return(j)
  \/ (\E s \in Fates : Raise(j, s))
  \/ Exhaust(j)

\* What nobody schedules.
JobMishap(j) ==
  \/ \E s \in Fates : Die(j, s)
  \/ Evict(j)

WorkerNext == \E j \in Jobs : JobStep(j) \/ JobMishap(j)

=============================================================================
