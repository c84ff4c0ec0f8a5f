------------------------------ MODULE ArqQueue ------------------------------
(***************************************************************************)
(* The ARQ queue in Redis, as the code uses it: enqueue_job from the API   *)
(* (services/ticket_service.py, api/queue.py), and the worker pool that    *)
(* tasks/worker.py configures (max_tries, job_timeout, retry_jobs).  ARQ   *)
(* and Redis are libraries outside the repository.  At most one worker     *)
(* executes a job at a time; an interrupted execution is queued again and  *)
(* every execution counts a try; a job picked up with its tries used up    *)
(* fails without running.                                                  *)
(***************************************************************************)
EXTENDS TicketStore

CONSTANTS
  NoTicket,    \* no ticket
  MaxTries     \* queue_max_tries of core/config.py

ASSUME MaxTriesAssumption == MaxTries \in Nat \ {0}
ASSUME NoTicketAssumption == NoTicket \notin Tickets

VARIABLE arq   \* arq[j]: the job's state, its ticket_id argument, its tries

JobState == {"none", "queued", "running", "complete", "failed", "lost"}

QueueInit == arq = [j \in Jobs |-> [state |-> "none", ticket |-> NoTicket, tries |-> 0]]

QueueTypeOK ==
  arq \in [Jobs -> [state : JobState, ticket : Tickets \cup {NoTicket}, tries : 0 .. MaxTries]]

\* enqueue_job("classify_ticket", ticket_id=t) under the fresh job id j.
EnqueueJob(j, t) ==
  arq' = [arq EXCEPT ![j] = [state |-> "queued", ticket |-> t, tries |-> 0]]

\* A mutant of PickupJob: an interrupted execution is not counted as a try.
PickupUncounted(j) ==
  /\ arq[j].state = "queued" /\ arq[j].tries < MaxTries
  /\ arq' = [arq EXCEPT ![j].state = "running"]

\* A worker starts the job.
PickupJob(j) ==
  /\ arq[j].state = "queued" /\ arq[j].tries < MaxTries
  /\ arq' = [arq EXCEPT ![j].state = "running", ![j].tries = @ + 1]

\* A worker finds the tries used up.
ExhaustJob(j) ==
  /\ arq[j].state = "queued" /\ arq[j].tries = MaxTries
  /\ arq' = [arq EXCEPT ![j].state = "failed"]

\* Redis evicts the job's keys: docker-compose.yml runs it with a memory limit
\* and the policy allkeys-lru.
EvictJob(j) ==
  /\ arq[j].state = "queued"
  /\ arq' = [arq EXCEPT ![j].state = "lost"]

\* The execution ends: the job completes, fails, or is queued to run again.
EndJob(j, s) ==
  /\ arq[j].state = "running"
  /\ arq' = [arq EXCEPT ![j].state = s]

=============================================================================
