-------------------------- MODULE AutoSupportProofs --------------------------
(***************************************************************************)
(* Proofs about AutoSupport, for any number of tickets, requests, jobs,    *)
(* tries and stages: what job_log and ARQ say of a job is in the tables,   *)
(* whatever races, dies or runs twice; triage alone leaves the status      *)
(* graph; and the books of StatusLedger balance.                           *)
(***************************************************************************)
EXTENDS StatusLedger, TicketServiceProofs

-----------------------------------------------------------------------------
(* The inductive invariant *)

\* Only a row is assigned.
OnlyRowsAssigned == \A t \in Tickets : Assigned(t) => Exists(t)

\* Where the request is says whether its job is enqueued; a job is enqueued for
\* a ticket that exists, and has neither a log row nor an execution before.
QueueOK(j) ==
  /\ pc[j] = "enqueue" => target[j] \in Tickets /\ Exists(target[j])
  /\ pc[j] \in {"idle", "insert", "conflict", "enqueue"} => arq[j].state = "none"
  /\ pc[j] = "log" => arq[j].state # "none"
  /\ arq[j].state = "none" => jobLog[j] = NoLogRow
  /\ arq[j].state # "none" => Ticket(j) \in Tickets /\ Exists(Ticket(j))
  /\ wpc[j] # "off" <=> arq[j].state = "running"

\* Where the execution is says what it has found or done: an assigned ticket,
\* the events of the stages before its own, an attempt counted or still to count.
WorkOK(j) ==
  /\ wpc[j] # "missing"
  /\ wpc[j] \in {"skip", "events", "done", "return"} => Assigned(Ticket(j))
  /\ wpc[j] \in {"off", "read", "start", "pipeline", "write"} => stage[j] = 1
  /\ wpc[j] = "events" =>
       \A k \in Stages : k < stage[j] => <<Ticket(j), k, "ok">> \in events
  /\ wpc[j] = "done" => \A k \in Stages : <<Ticket(j), k, "ok">> \in events
  /\ wpc[j] \in {"read", "start"} => jobLog[j].attempts < arq[j].tries
  /\ wpc[j] \in {"pipeline", "write", "events", "done", "failevent", "faillog", "raise"} =>
       jobLog[j].attempts >= 1

\* What is claimed of a job, in job_log and by ARQ.
ClaimOK(j) ==
  /\ jobLog[j].status \in {"done", "skipped"} => Assigned(Ticket(j))
  /\ jobLog[j].status = "done" => \A k \in Stages : <<Ticket(j), k, "ok">> \in events
  /\ arq[j].state = "complete" => Assigned(Ticket(j))
  /\ jobLog[j].attempts <= arq[j].tries
  /\ jobLog[j].status \in {"running", "done", "failed"} => jobLog[j].attempts >= 1

JobOK(j) == QueueOK(j) /\ WorkOK(j) /\ ClaimOK(j)

AutoInv == SvcInv /\ WorkerTypeOK /\ OnlyRowsAssigned /\ \A j \in Jobs : JobOK(j)

\* What a step may do to the rows, if nothing is to be lost.
RowsKept ==
  /\ \A t \in Tickets : Exists(t) => Exists(t)'
  /\ \A t \in Tickets : Assigned(t) => Assigned(t)'

\* Nothing is enqueued, logged or assigned in the initial states.
LEMMA AutoInvInit == Init => AutoInv
<1> SUFFICES ASSUME Init PROVE AutoInv
    OBVIOUS
<1>1. SvcInv
  BY InvInit DEF Init
<1>2. WorkerTypeOK
  BY NumStagesAssumption DEF Init, WorkerInit, WorkerTypeOK, WPC, Stages
<1>3. OnlyRowsAssigned
  BY DEF Init, SvcInit, StoreInit, NoRow, OnlyRowsAssigned, Assigned
<1>4. ASSUME NEW j \in Jobs PROVE JobOK(j)
  <2>1. /\ arq[j] = [state |-> "none", ticket |-> NoTicket, tries |-> 0]
        /\ jobLog[j] = NoLogRow /\ wpc[j] = "off" /\ stage[j] = 1 /\ pc[j] = "idle"
    BY <1>4 DEF Init, SvcInit, StoreInit, QueueInit, WorkerInit, Requests
  <2> QED
    BY <2>1 DEF JobOK, QueueOK, WorkOK, ClaimOK, NoLogRow, Absent
<1> QED
  BY <1>1, <1>2, <1>3, <1>4 DEF AutoInv

\* What is true of a job stays true through steps that are not its own.
LEMMA JobKept ==
  ASSUME NEW j \in Jobs, JobOK(j), RowsKept,
         arq'[j] = arq[j], jobLog'[j] = jobLog[j], pc'[j] = pc[j], target'[j] = target[j],
         wpc'[j] = wpc[j], stage'[j] = stage[j], events \subseteq events'
  PROVE  JobOK(j)'
<1> USE DEF JobOK
<1>1. QueueOK(j)'
  BY DEF QueueOK, RowsKept, Ticket, Exists
<1>2. CASE arq[j].state = "none"
  <2>1. /\ wpc[j] = "off" /\ jobLog[j] = NoLogRow /\ stage[j] = 1
        /\ jobLog[j].attempts <= arq[j].tries
    BY <1>2 DEF QueueOK, WorkOK, ClaimOK
  <2> QED
    BY <1>1, <1>2, <2>1 DEF WorkOK, ClaimOK, NoLogRow, Absent
<1>3. CASE arq[j].state # "none"
  <2>1. Assigned(Ticket(j)) => Assigned(Ticket(j))'
    BY <1>3 DEF QueueOK, RowsKept, Ticket, Assigned
  <2>2. Ticket(j)' = Ticket(j)
    BY DEF Ticket
  <2>3. WorkOK(j)'
    BY <2>1, <2>2 DEF WorkOK
  <2>4. ClaimOK(j)'
    BY <2>1, <2>2 DEF ClaimOK
  <2> QED
    BY <1>1, <2>3, <2>4
<1> QED
  BY <1>2, <1>3

-----------------------------------------------------------------------------
(* The steps of the ticket service *)

\* No request touches an assignment: a new row starts without one.
LEMMA ServiceAssignsNothing ==
  ASSUME SvcInv, OnlyRowsAssigned, [SvcNext]_svcVars, NEW t \in Tickets
  PROVE  tickets'[t].assigned = tickets[t].assigned
<1>t. tickets \in [Tickets -> Row]
  BY DEF SvcInv, SvcTypeOK
<1>1. CASE UNCHANGED tickets
  BY <1>1
<1>2. ASSUME NEW c \in Creates, CreateInsert(c)
      PROVE  tickets'[t].assigned = tickets[t].assigned
  <2>1. tickets[c].assigned = NoJob
    BY <1>2 DEF CreateInsert, SvcInv, CreatePhase, CreateOK, OnlyRowsAssigned, Assigned, Creates
  <2> QED
    BY <1>2, <1>t, <2>1 DEF CreateInsert, Inserted, Creates
<1>3. ASSUME NEW r \in Moves, UpdateCommit(r)
      PROVE  tickets'[t].assigned = tickets[t].assigned
  BY <1>3, <1>t DEF UpdateCommit, WithStatus, Row
<1>4. ASSUME NEW r \in Moves, ResolveCommit(r)
      PROVE  tickets'[t].assigned = tickets[t].assigned
  BY <1>4, <1>t DEF ResolveCommit, WithStatus, Row
<1>5. ASSUME NEW b \in BulkCloses, NEW ids \in SUBSET Tickets, BulkClose(b, ids)
      PROVE  tickets'[t].assigned = tickets[t].assigned
  BY <1>5, <1>t DEF BulkClose, BulkClosed, Row
<1>6. \/ UNCHANGED tickets
      \/ \E c \in Creates : CreateInsert(c)
      \/ \E r \in Moves : UpdateCommit(r) \/ ResolveCommit(r)
      \/ \E b \in BulkCloses, ids \in SUBSET Tickets : BulkClose(b, ids)
  BY DEF SvcNext, Arrive, HandlerStep, CreateStep, MoveStep, svcVars, CreateHit,
     CreateStart, CreateConflict, CreateConflictHit, Enqueue, LogEnqueued, Audit,
     Reply, UpdateRead, UpdateReadFields, CasFails, ResolveRead, RetryRead, Stop
<1> QED
  BY <1>1, <1>2, <1>3, <1>4, <1>5, <1>6

\* Nor does one touch another's job; its own it enqueues and logs, in that
\* order, once.
LEMMA ServiceOnJob ==
  ASSUME SvcInv, [SvcNext]_svcVars, NEW j \in Jobs
  PROVE  \/ Enqueue(j)
         \/ LogEnqueued(j)
         \/ /\ arq'[j] = arq[j] /\ jobLog'[j] = jobLog[j]
            /\ \/ pc'[j] = pc[j] /\ target'[j] = target[j]
               \/ /\ pc[j] \in {"idle", "insert", "conflict"}
                  /\ pc'[j] \in {"insert", "conflict", "enqueue"}
                  /\ pc'[j] = "enqueue" =>
                       j \in Creates \/ (target'[j] \in Tickets /\ Exists(target[j])')
               \/ pc'[j] \in {"audit", "reply", "ok", "rejected", "raised", "stopped"}
<1> DEFINE Same == arq'[j] = arq[j] /\ jobLog'[j] = jobLog[j]
           Rests == pc'[j] = pc[j] /\ target'[j] = target[j]
           Prepares == /\ pc[j] \in {"idle", "insert", "conflict"}
                       /\ pc'[j] \in {"insert", "conflict", "enqueue"}
                       /\ pc'[j] = "enqueue" =>
                            j \in Creates \/ (target'[j] \in Tickets /\ Exists(target[j])')
           Past == pc'[j] \in {"audit", "reply", "ok", "rejected", "raised", "stopped"}
           Goal == \/ Enqueue(j) \/ LogEnqueued(j)
                   \/ Same /\ (Rests \/ Prepares \/ Past)
<1> SUFFICES Goal
    OBVIOUS
<1>t. /\ pc \in [Requests -> PC] /\ target \in [Requests -> Tickets \cup {NoTicket}]
      /\ arq \in [Jobs -> [state : JobState, ticket : Tickets \cup {NoTicket}, tries : 0 .. MaxTries]]
      /\ jobLog \in [Jobs -> LogRow]
  BY DEF SvcInv, SvcTypeOK, QueueTypeOK
<1>j. j \in Requests /\ j \notin Moves /\ j \notin BulkCloses
  BY RequestAssumption DEF Requests
<1>1. ASSUME NEW c \in Creates, NEW k \in AnyKey, CreateHit(c, k) \/ CreateStart(c, k)
      PROVE  Goal
  <2>1. Same
    BY <1>1 DEF CreateHit, CreateStart
  <2>2. CASE c = j
    BY <1>1, <1>j, <1>t, <2>2 DEF CreateHit, CreateStart, Goto
  <2>3. CASE c # j
    BY <1>1, <1>j, <1>t, <2>3 DEF CreateHit, CreateStart, Goto
  <2> QED
    BY <2>1, <2>2, <2>3
<1>2. ASSUME NEW c \in Creates, CreateStep(c)
      PROVE  Goal
  <2>1. Same
    BY <1>2 DEF CreateStep, CreateInsert, CreateConflict, CreateConflictHit
  <2>2. CASE c = j
    BY <1>2, <1>j, <1>t, <2>1, <2>2
    DEF CreateStep, CreateInsert, CreateConflict, CreateConflictHit, InsertConflict, Goto
  <2>3. CASE c # j
    BY <1>2, <1>j, <1>t, <2>1, <2>3
    DEF CreateStep, CreateInsert, CreateConflict, CreateConflictHit, Goto
  <2> QED
    BY <2>2, <2>3
<1>3. ASSUME NEW i \in Jobs, i # j, Enqueue(i) \/ LogEnqueued(i)
      PROVE  Same /\ Rests
  BY <1>3, <1>j, <1>t DEF Enqueue, EnqueueJob, LogEnqueued, UpsertJobStatus, Goto
<1>4. ASSUME NEW r \in Requests, Audit(r) \/ Reply(r) \/ Stop(r)
      PROVE  Goal
  BY <1>4, <1>j, <1>t DEF Audit, Reply, Stop, Goto
<1>5. ASSUME NEW r \in Moves,
             \/ \E t \in Tickets, s \in Status : UpdateRead(r, t, s)
             \/ \E t \in Tickets, empty \in BOOLEAN : UpdateReadFields(r, t, empty)
             \/ \E t \in Tickets : ResolveRead(r, t)
             \/ MoveStep(r)
      PROVE  Same /\ Rests
  BY <1>5, <1>j, <1>t DEF UpdateRead, UpdateReadFields, ResolveRead, MoveStep,
     UpdateCommit, ResolveCommit, CasFails, Goto
<1>6. ASSUME NEW b \in BulkCloses, NEW ids \in SUBSET Tickets, BulkClose(b, ids)
      PROVE  Same /\ Rests
  BY <1>6, <1>j, <1>t DEF BulkClose, Goto
<1>7. ASSUME NEW i \in Retries, NEW t \in Tickets, RetryRead(i, t)
      PROVE  Goal
  <2>1. Same /\ UNCHANGED tickets
    BY <1>7 DEF RetryRead
  <2>2. CASE i = j
    <3>1. /\ pc[j] = "idle" /\ target'[j] = t
          /\ pc'[j] = IF Exists(t) THEN "enqueue" ELSE "rejected"
      BY <1>7, <1>j, <1>t, <2>2 DEF RetryRead, Goto
    <3>2. Exists(t)' = Exists(t)
      BY <2>1 DEF Exists
    <3> QED
      BY <2>1, <3>1, <3>2 DEF Exists
  <2>3. CASE i # j
    BY <1>7, <1>j, <1>t, <2>1, <2>3 DEF RetryRead, Goto
  <2> QED
    BY <2>2, <2>3
<1>8. CASE UNCHANGED svcVars
  BY <1>8 DEF svcVars
<1> QED
  BY <1>1, <1>2, <1>3, <1>4, <1>5, <1>6, <1>7, <1>8
  DEF SvcNext, Arrive, HandlerStep, Moves

\* A step of a request keeps the invariant.
LEMMA ServiceStep ==
  ASSUME AutoInv, [SvcNext]_svcVars, UNCHANGED wlocals
  PROVE  AutoInv' /\ \A t \in Tickets : tickets'[t].assigned = tickets[t].assigned
<1> USE DEF AutoInv
<1>1. SvcInv'
  BY TypeStep, KeyUniqueStep, CreatePhaseStep, MovePhaseStep DEF SvcInv
<1>2. WorkerTypeOK'
  BY DEF WorkerTypeOK, wlocals
<1>3. \A t \in Tickets : tickets'[t].assigned = tickets[t].assigned
  BY ServiceAssignsNothing
<1>4. \A t \in Tickets : Exists(t) => Exists(t)'
  BY RowsStep DEF SvcInv
<1>5. RowsKept /\ OnlyRowsAssigned'
  BY <1>3, <1>4 DEF RowsKept, OnlyRowsAssigned, Assigned
<1>6. ASSUME NEW j \in Jobs PROVE JobOK(j)'
  <2>w. UNCHANGED <<wpc, stage, events>>
    BY DEF wlocals
  <2>t. /\ pc \in [Requests -> PC] /\ arq[j].tries \in Nat /\ j \in Requests
        /\ jobLog \in [Jobs -> LogRow] /\ arq \in [Jobs -> [state : JobState,
                                 ticket : Tickets \cup {NoTicket}, tries : 0 .. MaxTries]]
    BY MaxTriesAssumption DEF SvcInv, SvcTypeOK, QueueTypeOK, Requests
  <2>1. CASE Enqueue(j)
    <3>1. /\ target[j] \in Tickets /\ Exists(target[j])
          /\ arq[j].state = "none" /\ jobLog[j] = NoLogRow
          /\ wpc[j] = "off" /\ stage[j] = 1
      BY <2>1 DEF Enqueue, JobOK, QueueOK, WorkOK
    <3>2. /\ pc'[j] = "log" /\ target' = target /\ tickets' = tickets /\ jobLog' = jobLog
          /\ arq'[j] = [state |-> "queued", ticket |-> target[j], tries |-> 0]
      BY <2>1, <2>t DEF Enqueue, EnqueueJob, Goto
    <3>3. QueueOK(j)'
      BY <3>1, <3>2, <2>w DEF QueueOK, Ticket, Exists
    <3>4. WorkOK(j)' /\ ClaimOK(j)'
      BY <3>1, <3>2, <2>w DEF WorkOK, ClaimOK, NoLogRow, Absent
    <3> QED
      BY <3>3, <3>4 DEF JobOK
  <2>2. CASE LogEnqueued(j)
    <3>1. /\ pc[j] = "log" /\ pc'[j] \in {"audit", "ok"}
          /\ target' = target /\ tickets' = tickets /\ arq' = arq
          /\ jobLog'[j] = [status |-> "enqueued", attempts |-> jobLog[j].attempts]
      BY <2>2, <2>t DEF LogEnqueued, UpsertJobStatus, Goto
    <3>2. arq[j].state # "none"
      BY <3>1 DEF JobOK, QueueOK
    <3>3. QueueOK(j)'
      BY <3>1, <3>2, <2>w DEF JobOK, QueueOK, Ticket, Exists
    <3>4. WorkOK(j)' /\ ClaimOK(j)'
      BY <3>1, <2>w DEF JobOK, WorkOK, ClaimOK, Ticket, Assigned
    <3> QED
      BY <3>3, <3>4 DEF JobOK
  <2>3. CASE /\ arq'[j] = arq[j] /\ jobLog'[j] = jobLog[j]
             /\ pc'[j] = pc[j] /\ target'[j] = target[j]
    BY <2>3, <2>w, <1>5, JobKept
  <2>4. CASE /\ arq'[j] = arq[j] /\ jobLog'[j] = jobLog[j]
             /\ pc[j] \in {"idle", "insert", "conflict"}
             /\ pc'[j] \in {"insert", "conflict", "enqueue"}
             /\ pc'[j] = "enqueue" =>
                  j \in Creates \/ (target'[j] \in Tickets /\ Exists(target[j])')
    <3>1. arq[j].state = "none" /\ wpc[j] = "off" /\ jobLog[j] = NoLogRow /\ stage[j] = 1
      BY <2>4 DEF JobOK, QueueOK, WorkOK
    <3>2. pc'[j] = "enqueue" => target'[j] \in Tickets /\ Exists(target[j])'
      BY <2>4, <1>1 DEF SvcInv, CreatePhase, CreateOK
    <3>3. QueueOK(j)'
      BY <2>4, <3>1, <3>2, <2>w DEF QueueOK
    <3>4. WorkOK(j)' /\ ClaimOK(j)'
      BY <2>4, <3>1, <2>w, <2>t DEF WorkOK, ClaimOK, NoLogRow, Absent
    <3> QED
      BY <3>3, <3>4 DEF JobOK
  <2>5. CASE /\ arq'[j] = arq[j] /\ jobLog'[j] = jobLog[j]
             /\ pc'[j] \in {"audit", "reply", "ok", "rejected", "raised", "stopped"}
    <3>1. QueueOK(j)'
      BY <2>5, <2>w, <1>5 DEF JobOK, QueueOK, RowsKept, Ticket, Exists
    <3>2. CASE arq[j].state = "none"
      <4>1. wpc[j] = "off" /\ jobLog[j] = NoLogRow /\ stage[j] = 1
        BY <3>2 DEF JobOK, QueueOK, WorkOK
      <4>2. WorkOK(j)' /\ ClaimOK(j)'
        BY <2>5, <3>2, <4>1, <2>w, <2>t DEF WorkOK, ClaimOK, NoLogRow, Absent
      <4> QED
        BY <3>1, <4>2 DEF JobOK
    <3>3. CASE arq[j].state # "none"
      <4>1. Ticket(j)' = Ticket(j) /\ (Assigned(Ticket(j)) => Assigned(Ticket(j))')
        BY <2>5, <3>3, <1>5 DEF JobOK, QueueOK, RowsKept, Ticket, Assigned
      <4>2. WorkOK(j)'
        BY <2>5, <4>1, <2>w DEF JobOK, WorkOK
      <4>3. ClaimOK(j)'
        BY <2>5, <4>1, <2>w DEF JobOK, ClaimOK
      <4> QED
        BY <3>1, <4>2, <4>3 DEF JobOK
    <3> QED
      BY <3>2, <3>3
  <2> QED
    BY <2>1, <2>2, <2>3, <2>4, <2>5, ServiceOnJob
<1> QED
  BY <1>1, <1>2, <1>3, <1>5, <1>6

-----------------------------------------------------------------------------
(* The steps of the worker pool *)

\* A job writes its result over a row that exists, and over no other.
LEMMA WriteRow ==
  ASSUME AutoInv, NEW i \in Jobs, WriteResult(i)
  PROVE  /\ Ticket(i) \in Tickets /\ Exists(Ticket(i))
         /\ tickets' \in [Tickets -> Row]
         /\ tickets'[Ticket(i)] =
              [tickets[Ticket(i)] EXCEPT
                 !.assigned = i,
                 !.status = IF escalate[i] THEN "escalated" ELSE @]
         /\ \A t \in Tickets : t # Ticket(i) => tickets'[t] = tickets[t]
<1> USE DEF AutoInv
<1>t. tickets \in [Tickets -> Row]
  BY DEF SvcInv, SvcTypeOK
<1>1. Ticket(i) \in Tickets /\ Exists(Ticket(i))
  BY DEF WriteResult, JobOK, QueueOK
<1> PICK u \in Tickets : u = Ticket(i)
  BY <1>1
<1>2. tickets' = [tickets EXCEPT ![u] =
                    [tickets[u] EXCEPT !.assigned = i,
                                       !.status = IF escalate[i] THEN "escalated" ELSE @]]
  BY <1>t DEF WriteResult, Row
<1>3. [tickets[u] EXCEPT !.assigned = i,
                         !.status = IF escalate[i] THEN "escalated" ELSE @] \in Row
  BY <1>t DEF Row, Status
<1> QED
  BY <1>t, <1>1, <1>2, <1>3

\* The workers leave every row there and in possession of its key; they assign
\* it, never the reverse, and write no status but "escalated".
LEMMA WorkerOnRows ==
  ASSUME AutoInv, WorkerNext, NEW t \in Tickets
  PROVE  /\ tickets' \in [Tickets -> Row]
         /\ Exists(t)' = Exists(t)
         /\ tickets'[t].key = tickets[t].key
         /\ Assigned(t) => Assigned(t)'
         /\ tickets'[t].assigned # tickets[t].assigned => Exists(t)
         /\ tickets'[t].status \in {tickets[t].status, "escalated"}
<1>t. tickets \in [Tickets -> Row]
  BY DEF AutoInv, SvcInv, SvcTypeOK
<1>1. CASE UNCHANGED tickets
  BY <1>1, <1>t DEF Exists, Assigned
<1>2. ASSUME NEW i \in Jobs, WriteResult(i)
      PROVE  /\ tickets' \in [Tickets -> Row]
             /\ Exists(t)' = Exists(t)
             /\ tickets'[t].key = tickets[t].key
             /\ Assigned(t) => Assigned(t)'
             /\ tickets'[t].assigned # tickets[t].assigned => Exists(t)
             /\ tickets'[t].status \in {tickets[t].status, "escalated"}
  <2>1. CASE t # Ticket(i)
    BY <1>2, <2>1, WriteRow DEF Exists, Assigned
  <2>2. CASE t = Ticket(i)
    <3>1. tickets'[t] = [tickets[t] EXCEPT
                           !.assigned = i,
                           !.status = IF escalate[i] THEN "escalated" ELSE @]
          /\ Exists(t) /\ tickets' \in [Tickets -> Row]
      BY <1>2, <2>2, WriteRow
    <3>2. /\ tickets'[t].assigned = i /\ tickets'[t].key = tickets[t].key
          /\ tickets'[t].status \in {tickets[t].status, "escalated"}
      BY <3>1, <1>t DEF Row
    <3> QED
      BY <3>1, <3>2, NoJobAssumption DEF Exists, Assigned, Absent
  <2> QED
    BY <2>1, <2>2
<1>3. UNCHANGED tickets \/ \E i \in Jobs : WriteResult(i)
  BY DEF WorkerNext, JobStep, JobMishap, Pickup, ReadTicket, LogRunning, PipelineOk,
     PipelineFails, PipelineBreaks, RecordEvent, RecordFailure, LogOutcome, Return,
     Raise, Exhaust, Die, Evict
<1> QED
  BY <1>1, <1>2, <1>3

\* A step of one job keeps the types of all.
LEMMA WorkerTypeStep ==
  ASSUME AutoInv, NEW i \in Jobs, JobStep(i) \/ JobMishap(i), UNCHANGED locals
  PROVE  SvcTypeOK' /\ WorkerTypeOK'
<1> USE DEF AutoInv
<1>s. /\ SvcTypeOK
      /\ arq \in [Jobs -> [state : JobState, ticket : Tickets \cup {NoTicket}, tries : 0 .. MaxTries]]
      /\ jobLog \in [Jobs -> LogRow]
  BY DEF SvcInv, SvcTypeOK, QueueTypeOK
<1>w. /\ wpc \in [Jobs -> WPC] /\ escalate \in [Jobs -> BOOLEAN] /\ stage \in [Jobs -> Stages]
      /\ events \subseteq Tickets \X Stages \X {"ok", "failed"}
  BY DEF WorkerTypeOK
<1>1. tickets' \in [Tickets -> Row]
  <2>1. CASE UNCHANGED tickets
    BY <2>1, <1>s DEF SvcTypeOK
  <2>2. CASE WriteResult(i)
    BY <2>2, WriteRow
  <2> QED
    BY <2>1, <2>2 DEF JobStep, JobMishap, Pickup, ReadTicket, LogRunning, PipelineOk,
       PipelineFails, PipelineBreaks, RecordEvent, RecordFailure, LogOutcome, Return,
       Raise, Exhaust, Die, Evict
<1>2. arq' \in [Jobs -> [state : JobState, ticket : Tickets \cup {NoTicket}, tries : 0 .. MaxTries]]
  <2>1. CASE UNCHANGED arq
    BY <2>1, <1>s
  <2>2. CASE PickupJob(i)
    <3>1. arq[i].tries \in 0 .. MaxTries /\ arq[i].tries < MaxTries
      BY <2>2, <1>s DEF PickupJob
    <3>2. arq[i].tries + 1 \in 0 .. MaxTries
      BY <3>1, MaxTriesAssumption
    <3> QED
      BY <2>2, <3>2, <1>s DEF PickupJob, JobState
  <2>3. CASE ExhaustJob(i) \/ EvictJob(i)
    BY <2>3, <1>s DEF ExhaustJob, EvictJob, JobState
  <2>4. ASSUME NEW s \in {"complete", "failed", "queued"}, EndJob(i, s)
        PROVE  arq' \in [Jobs -> [state : JobState, ticket : Tickets \cup {NoTicket},
                                  tries : 0 .. MaxTries]]
    BY <2>4, <1>s DEF EndJob, JobState
  <2> QED
    BY <2>1, <2>2, <2>3, <2>4
    DEF JobStep, JobMishap, Pickup, ReadTicket, LogRunning, PipelineOk, PipelineFails,
        PipelineBreaks, WriteResult, RecordEvent, RecordFailure, LogOutcome, Return, Raise,
        Exhaust, Die, Evict, Fates
<1>3. jobLog' \in [Jobs -> LogRow]
  <2>1. CASE UNCHANGED jobLog
    BY <2>1, <1>s
  <2>2. ASSUME NEW s \in JobStatus, jobLog' = UpsertJobStatus(i, s)
        PROVE  jobLog' \in [Jobs -> LogRow]
    BY <2>2, <1>s DEF UpsertJobStatus, LogRow
  <2>3. CASE LogRunning(i)
    BY <2>2, <2>3 DEF LogRunning, JobStatus
  <2>4. CASE LogOutcome(i)
    <3>1. Outcome[wpc[i]] \in JobStatus
      BY <2>4 DEF LogOutcome, Outcome, JobStatus
    <3> QED
      BY <2>2, <2>4, <3>1 DEF LogOutcome
  <2> QED
    BY <2>1, <2>3, <2>4
    DEF JobStep, JobMishap, Pickup, ReadTicket, PipelineOk, PipelineFails, PipelineBreaks,
        WriteResult, RecordEvent, RecordFailure, Return, Raise, Exhaust, Die, Evict
<1>4. audit' = audit
  BY DEF JobStep, JobMishap, Pickup, ReadTicket, LogRunning, PipelineOk, PipelineFails,
     PipelineBreaks, WriteResult, RecordEvent, RecordFailure, LogOutcome, Return, Raise,
     Exhaust, Die, Evict
<1>5. wpc' \in [Jobs -> WPC]
  BY <1>w DEF JobStep, JobMishap, Pickup, ReadTicket, LogRunning, PipelineOk, PipelineFails,
     PipelineBreaks, WriteResult, RecordEvent, RecordFailure, LogOutcome, Return, Raise,
     Exhaust, Die, Evict, WGoto, Leave, Seen, AfterFailure, WPC, wlocals
<1>6. escalate' \in [Jobs -> BOOLEAN]
  BY <1>w DEF JobStep, JobMishap, Pickup, ReadTicket, LogRunning, PipelineOk, PipelineFails,
     PipelineBreaks, WriteResult, RecordEvent, RecordFailure, LogOutcome, Return, Raise,
     Exhaust, Die, Evict, Leave, wlocals
<1>7. stage' \in [Jobs -> Stages]
  <2>1. CASE RecordEvent(i)
    <3>1. stage[i] \in 1 .. NumStages
      BY <1>w DEF Stages
    <3>2. (IF stage[i] = NumStages THEN stage[i] ELSE stage[i] + 1) \in Stages
      BY <3>1, NumStagesAssumption DEF Stages
    <3> QED
      BY <2>1, <3>2, <1>w DEF RecordEvent
  <2>2. CASE ~RecordEvent(i)
    <3>1. 1 \in Stages
      BY NumStagesAssumption DEF Stages
    <3> QED
      BY <2>2, <3>1, <1>w DEF JobStep, JobMishap, Pickup, ReadTicket, LogRunning, PipelineOk,
         PipelineFails, PipelineBreaks, WriteResult, RecordFailure, LogOutcome, Return,
         Raise, Exhaust, Die, Evict, Leave, wlocals
  <2> QED
    BY <2>1, <2>2
<1>8. events' \subseteq Tickets \X Stages \X {"ok", "failed"}
  <2>1. CASE UNCHANGED events
    BY <2>1, <1>w
  <2>2. CASE RecordEvent(i) \/ RecordFailure(i)
    <3>1. Ticket(i) \in Tickets /\ stage[i] \in Stages
      BY <2>2, <1>w DEF RecordEvent, RecordFailure, JobOK, QueueOK
    <3> QED
      BY <2>2, <3>1, <1>w DEF RecordEvent, RecordFailure
  <2> QED
    BY <2>1, <2>2
    DEF JobStep, JobMishap, Pickup, ReadTicket, LogRunning, PipelineOk, PipelineFails,
        PipelineBreaks, WriteResult, LogOutcome, Return, Raise, Exhaust, Die, Evict, wlocals
<1> QED
  BY <1>s, <1>1, <1>2, <1>3, <1>4, <1>5, <1>6, <1>7, <1>8
  DEF SvcTypeOK, QueueTypeOK, WorkerTypeOK, locals

\* A step of job i is no step of another job.
LEMMA OtherJob ==
  ASSUME AutoInv, NEW i \in Jobs, JobStep(i) \/ JobMishap(i), NEW j \in Jobs, j # i
  PROVE  /\ arq'[j] = arq[j] /\ jobLog'[j] = jobLog[j]
         /\ wpc'[j] = wpc[j] /\ stage'[j] = stage[j] /\ events \subseteq events'
<1>t. /\ arq \in [Jobs -> [state : JobState, ticket : Tickets \cup {NoTicket}, tries : 0 .. MaxTries]]
      /\ jobLog \in [Jobs -> LogRow] /\ wpc \in [Jobs -> WPC] /\ stage \in [Jobs -> Stages]
  BY DEF AutoInv, SvcInv, SvcTypeOK, QueueTypeOK, WorkerTypeOK
<1>1. arq'[j] = arq[j]
  BY <1>t DEF JobStep, JobMishap, Pickup, ReadTicket, LogRunning, PipelineOk, PipelineFails,
     PipelineBreaks, WriteResult, RecordEvent, RecordFailure, LogOutcome, Return, Raise,
     Exhaust, Die, Evict, PickupJob, ExhaustJob, EvictJob, EndJob
<1>2. jobLog'[j] = jobLog[j]
  BY <1>t DEF JobStep, JobMishap, Pickup, ReadTicket, LogRunning, PipelineOk, PipelineFails,
     PipelineBreaks, WriteResult, RecordEvent, RecordFailure, LogOutcome, Return, Raise,
     Exhaust, Die, Evict, UpsertJobStatus
<1>3. wpc'[j] = wpc[j] /\ stage'[j] = stage[j]
  BY <1>t DEF JobStep, JobMishap, Pickup, ReadTicket, LogRunning, PipelineOk, PipelineFails,
     PipelineBreaks, WriteResult, RecordEvent, RecordFailure, LogOutcome, Return, Raise,
     Exhaust, Die, Evict, WGoto, Leave, wlocals
<1>4. events \subseteq events'
  BY DEF JobStep, JobMishap, Pickup, ReadTicket, LogRunning, PipelineOk, PipelineFails,
     PipelineBreaks, WriteResult, RecordEvent, RecordFailure, LogOutcome, Return, Raise,
     Exhaust, Die, Evict, wlocals
<1> QED
  BY <1>1, <1>2, <1>3, <1>4

\* A job keeps what is true of it, whichever step it takes and wherever it dies.
LEMMA OwnJob ==
  ASSUME AutoInv, NEW j \in Jobs, JobStep(j) \/ JobMishap(j), UNCHANGED locals, RowsKept
  PROVE  JobOK(j)'
<1> USE DEF AutoInv
<1>t. /\ arq \in [Jobs -> [state : JobState, ticket : Tickets \cup {NoTicket}, tries : 0 .. MaxTries]]
      /\ jobLog \in [Jobs -> LogRow] /\ wpc \in [Jobs -> WPC] /\ stage \in [Jobs -> Stages]
      /\ arq[j].tries \in Nat /\ jobLog[j].attempts \in Nat
  BY DEF SvcInv, SvcTypeOK, QueueTypeOK, WorkerTypeOK, LogRow
<1>p. pc'[j] = pc[j] /\ target'[j] = target[j]
  BY DEF locals
<1>o. JobOK(j)
  OBVIOUS
\* A job that takes a step is enqueued, and its ticket stays, assigned if it was.
<1>q. /\ arq[j].state # "none" /\ Ticket(j) \in Tickets /\ Exists(Ticket(j))
      /\ pc[j] \notin {"idle", "insert", "conflict", "enqueue"}
  BY <1>o DEF JobOK, QueueOK, JobStep, JobMishap, Pickup, ReadTicket, LogRunning, PipelineOk,
     PipelineFails, PipelineBreaks, WriteResult, RecordEvent, RecordFailure, LogOutcome,
     Return, Raise, Exhaust, Die, Evict, PickupJob, ExhaustJob, EvictJob, Outcome
<1>k. /\ Ticket(j)' = Ticket(j) /\ Exists(Ticket(j))'
      /\ Assigned(Ticket(j)) => Assigned(Ticket(j))'
  <2>1. arq'[j].ticket = arq[j].ticket
    BY <1>t DEF JobStep, JobMishap, Pickup, ReadTicket, LogRunning, PipelineOk, PipelineFails,
       PipelineBreaks, WriteResult, RecordEvent, RecordFailure, LogOutcome, Return, Raise,
       Exhaust, Die, Evict, PickupJob, ExhaustJob, EvictJob, EndJob
  <2> QED
    BY <2>1, <1>q DEF RowsKept, Ticket, Exists, Assigned
\* The steps that end no execution and start none.
<1>r. ASSUME wpc[j] # "off", wpc'[j] # "off", arq' = arq
      PROVE  QueueOK(j)'
  BY <1>r, <1>p, <1>q, <1>k, <1>o DEF JobOK, QueueOK, Ticket
<1>1. CASE Pickup(j)
  <2>1. /\ wpc[j] = "off" /\ wpc'[j] = "read" /\ stage' = stage /\ events' = events
        /\ jobLog' = jobLog /\ arq'[j].state = "running" /\ arq'[j].tries = arq[j].tries + 1
    BY <1>1, <1>t DEF Pickup, PickupJob, WGoto
  <2>2. QueueOK(j)'
    BY <2>1, <1>p, <1>q, <1>k DEF QueueOK
  <2>3. WorkOK(j)' /\ ClaimOK(j)'
    BY <2>1, <1>k, <1>o, <1>t DEF JobOK, WorkOK, ClaimOK
  <2> QED
    BY <2>2, <2>3 DEF JobOK
<1>2. CASE ReadTicket(j)
  <2>1. /\ wpc[j] = "read" /\ wpc'[j] = Seen(Ticket(j))
        /\ UNCHANGED <<tickets, arq, stage, events, jobLog>>
    BY <1>2, <1>t DEF ReadTicket, WGoto
  <2>2. wpc'[j] = IF Assigned(Ticket(j)) THEN "skip" ELSE "start"
    BY <2>1, <1>q DEF Seen
  <2>3. WorkOK(j)' /\ ClaimOK(j)'
    BY <2>1, <2>2, <1>k, <1>o DEF JobOK, WorkOK, ClaimOK
  <2> QED
    BY <2>1, <2>2, <2>3, <1>r DEF JobOK
<1>3. CASE LogRunning(j)
  <2>1. /\ wpc[j] = "start" /\ wpc'[j] = "pipeline"
        /\ UNCHANGED <<arq, stage, events>>
        /\ jobLog'[j] = [status |-> "running", attempts |-> jobLog[j].attempts + 1]
    BY <1>3, <1>t DEF LogRunning, WGoto, UpsertJobStatus
  <2>2. WorkOK(j)' /\ ClaimOK(j)'
    BY <2>1, <1>k, <1>o, <1>t DEF JobOK, WorkOK, ClaimOK
  <2> QED
    BY <2>1, <2>2, <1>r DEF JobOK
<1>4. ASSUME NEW esc \in BOOLEAN, PipelineOk(j, esc)
      PROVE  JobOK(j)'
  <2>1. /\ wpc[j] = "pipeline" /\ wpc'[j] = "write"
        /\ UNCHANGED <<arq, stage, events, jobLog>>
    BY <1>4, <1>t DEF PipelineOk, WGoto
  <2>2. WorkOK(j)' /\ ClaimOK(j)'
    BY <2>1, <1>k, <1>o DEF JobOK, WorkOK, ClaimOK
  <2> QED
    BY <2>1, <2>2, <1>r DEF JobOK
<1>5. ASSUME (\E k \in Stages : PipelineFails(j, k)) \/ PipelineBreaks(j) \/ RecordFailure(j)
      PROVE  JobOK(j)'
  <2>1. /\ wpc[j] \in {"pipeline", "failevent"} /\ wpc'[j] \in {"failevent", "faillog"}
        /\ UNCHANGED <<arq, jobLog>> /\ events \subseteq events'
    BY <1>5, <1>t DEF PipelineFails, PipelineBreaks, RecordFailure, WGoto
  <2>2. WorkOK(j)' /\ ClaimOK(j)'
    BY <2>1, <1>k, <1>o DEF JobOK, WorkOK, ClaimOK
  <2> QED
    BY <2>1, <2>2, <1>r DEF JobOK
<1>6. CASE WriteResult(j)
  <2>1. /\ wpc[j] = "write" /\ wpc'[j] = "events"
        /\ UNCHANGED <<arq, stage, events, jobLog>>
    BY <1>6, <1>t DEF WriteResult, WGoto
  <2>2. Assigned(Ticket(j))'
    <3>1. tickets'[Ticket(j)].assigned = j
      <4>1. tickets[Ticket(j)] \in Row
        BY <1>q DEF SvcInv, SvcTypeOK
      <4>2. tickets'[Ticket(j)] =
              [tickets[Ticket(j)] EXCEPT
                 !.assigned = j,
                 !.status = IF escalate[j] THEN "escalated" ELSE @]
        BY <1>6, WriteRow
      <4> QED
        BY <4>1, <4>2 DEF Row
    <3> QED
      BY <3>1, <2>1, NoJobAssumption DEF Assigned, Ticket
  <2>3. \A k \in Stages : ~(k < stage'[j])
    BY <2>1, <1>o DEF JobOK, WorkOK, Stages
  <2>4. WorkOK(j)' /\ ClaimOK(j)'
    BY <2>1, <2>2, <2>3, <1>k, <1>o DEF JobOK, WorkOK, ClaimOK
  <2> QED
    BY <2>1, <2>4, <1>r DEF JobOK
<1>7. CASE RecordEvent(j)
  <2>1. /\ wpc[j] = "events" /\ UNCHANGED <<arq, jobLog>>
        /\ wpc'[j] = IF stage[j] = NumStages THEN "done" ELSE "events"
        /\ stage'[j] = IF stage[j] = NumStages THEN stage[j] ELSE stage[j] + 1
        /\ events' = events \cup {<<Ticket(j), stage[j], "ok">>}
    BY <1>7, <1>t DEF RecordEvent, WGoto
  <2>2. \A k \in Stages : k <= stage[j] => <<Ticket(j), k, "ok">> \in events'
    <3> SUFFICES ASSUME NEW k \in Stages, k <= stage[j]
                 PROVE  <<Ticket(j), k, "ok">> \in events'
        OBVIOUS
    <3>1. k = stage[j] \/ k < stage[j]
      <4>1. k \in Nat /\ stage[j] \in Nat
        BY <1>t, NumStagesAssumption DEF Stages
      <4> QED
        BY <4>1
    <3>2. k < stage[j] => <<Ticket(j), k, "ok">> \in events
      BY <2>1, <1>o DEF JobOK, WorkOK
    <3> QED
      BY <2>1, <3>1, <3>2
  <2>3. /\ wpc'[j] = "events" => \A k \in Stages : k < stage'[j] => <<Ticket(j), k, "ok">> \in events'
        /\ wpc'[j] = "done" => \A k \in Stages : <<Ticket(j), k, "ok">> \in events'
    <3>1. stage[j] \in 1 .. NumStages /\ NumStages \in Nat
      BY <1>t, NumStagesAssumption DEF Stages
    <3>2. CASE stage[j] = NumStages
      BY <2>1, <2>2, <3>1, <3>2 DEF Stages
    <3>3. CASE stage[j] # NumStages
      BY <2>1, <2>2, <3>1, <3>3 DEF Stages
    <3> QED
      BY <3>2, <3>3
  <2>4. WorkOK(j)' /\ ClaimOK(j)'
    BY <2>1, <2>3, <1>k, <1>o DEF JobOK, WorkOK, ClaimOK
  <2> QED
    BY <2>1, <2>4, <1>r DEF JobOK
<1>8. CASE LogOutcome(j)
  <2>1. /\ wpc[j] \in {"skip", "done", "faillog"} /\ UNCHANGED <<arq, stage, events>>
        /\ wpc'[j] = IF wpc[j] = "faillog" THEN "raise" ELSE "return"
        /\ jobLog'[j].status = CASE wpc[j] = "skip" -> "skipped"
                                 [] wpc[j] = "done" -> "done"
                                 [] wpc[j] = "faillog" -> "failed"
        /\ jobLog'[j].attempts = jobLog[j].attempts
    BY <1>8, <1>t, <1>o DEF JobOK, WorkOK, LogOutcome, Outcome, UpsertJobStatus, WGoto, AfterFailure
  <2>2. WorkOK(j)' /\ ClaimOK(j)'
    BY <2>1, <1>k, <1>o DEF JobOK, WorkOK, ClaimOK
  <2> QED
    BY <2>1, <2>2, <1>r DEF JobOK
\* The execution ends, or the job without one.
<1>9. ASSUME NEW s \in {"complete", "failed", "queued", "lost"},
             arq'[j].state = s, arq'[j].tries = arq[j].tries,
             s = "complete" => wpc[j] = "return",
             wpc'[j] = "off", stage'[j] = 1, UNCHANGED <<jobLog, events>>
      PROVE  JobOK(j)'
  <2>1. QueueOK(j)'
    BY <1>9, <1>p, <1>q, <1>k DEF QueueOK
  <2>2. WorkOK(j)' /\ ClaimOK(j)'
    BY <1>9, <1>k, <1>o DEF JobOK, WorkOK, ClaimOK
  <2> QED
    BY <2>1, <2>2 DEF JobOK
<1>10. CASE Return(j) \/ (\E s \in Fates : Raise(j, s) \/ Die(j, s))
  <2>1. PICK s \in {"complete", "failed", "queued"} :
          EndJob(j, s) /\ Leave(j) /\ UNCHANGED <<jobLog, events>>
          /\ (s = "complete" => wpc[j] = "return")
    BY <1>10 DEF Return, Raise, Die, Fates
  <2>2. /\ arq'[j].state = s /\ arq'[j].tries = arq[j].tries
        /\ wpc'[j] = "off" /\ stage'[j] = 1
    BY <2>1, <1>t DEF EndJob, Leave, WGoto
  <2> QED
    BY <2>1, <2>2, <1>9
<1>11. CASE Exhaust(j) \/ Evict(j)
  <2>1. /\ arq[j].state = "queued" /\ arq'[j].tries = arq[j].tries
        /\ arq'[j].state \in {"failed", "lost"}
        /\ UNCHANGED <<jobLog, events, wpc, stage>>
    BY <1>11, <1>t DEF Exhaust, Evict, ExhaustJob, EvictJob, wlocals
  <2>2. wpc[j] = "off" /\ stage[j] = 1
    BY <2>1, <1>o DEF JobOK, QueueOK, WorkOK
  <2> QED
    BY <2>1, <2>2, <1>9
<1> QED
  BY <1>1, <1>2, <1>3, <1>4, <1>5, <1>6, <1>7, <1>8, <1>10, <1>11 DEF JobStep, JobMishap

\* A step of the worker pool keeps the invariant.
LEMMA WorkerStep ==
  ASSUME AutoInv, WorkerNext, UNCHANGED locals
  PROVE  AutoInv'
<1> PICK i \in Jobs : JobStep(i) \/ JobMishap(i)
  BY DEF WorkerNext
<1>1. SvcTypeOK' /\ WorkerTypeOK'
  BY WorkerTypeStep
<1>2. \A t \in Tickets : /\ Exists(t)' = Exists(t) /\ tickets'[t].key = tickets[t].key
                         /\ Assigned(t) => Assigned(t)'
                         /\ tickets'[t].assigned # tickets[t].assigned => Exists(t)
  BY WorkerOnRows
<1>3. KeyUnique'
  BY <1>2 DEF AutoInv, SvcInv, KeyUnique
<1>4. CreatePhase'
  <2> SUFFICES ASSUME NEW c \in Creates PROVE CreateOK(c)'
      BY DEF CreatePhase, Creates
  <2>1. pc' = pc /\ key' = key /\ target' = target
    BY DEF locals
  <2>2. \A k : KeyHolders(k)' = KeyHolders(k)
    BY <1>2 DEF KeyHolders
  <2>3. CreateOK(c) /\ c \in Tickets
    BY DEF AutoInv, SvcInv, CreatePhase, Creates
  <2>4. Exists(c)' = Exists(c)
    BY <1>2, <2>3
  <2>5. pc[c] \in {"enqueue", "log", "audit", "reply", "ok"} =>
          /\ target[c] \in Tickets
          /\ Exists(target[c])' /\ tickets'[target[c]].key = key[c]
    <3> SUFFICES ASSUME target[c] \in Tickets,
                        Exists(target[c]), tickets[target[c]].key = key[c]
                 PROVE  Exists(target[c])' /\ tickets'[target[c]].key = key[c]
        BY <2>3 DEF CreateOK
    <3> PICK t \in Tickets : t = target[c]
      OBVIOUS
    <3>1. Exists(t)' /\ tickets'[t].key = key[c]
      BY <1>2
    <3> QED
      BY <3>1, <2>1 DEF Exists
  <2> QED
    BY <2>1, <2>2, <2>3, <2>4, <2>5 DEF CreateOK
<1>5. MovePhase'
  <2> SUFFICES ASSUME NEW m \in Moves PROVE MoveOK(m)'
      BY DEF MovePhase, Moves
  <2>1. UNCHANGED <<pc, target, seen, to>> /\ MoveOK(m)
    BY DEF locals, AutoInv, SvcInv, MovePhase
  <2>2. pc[m] = "txn" => target[m] \in Tickets /\ Exists(target[m])'
    BY <1>2, <2>1 DEF MoveOK, Exists
  <2> QED
    BY <2>1, <2>2 DEF MoveOK
<1>6. RowsKept /\ OnlyRowsAssigned'
  BY <1>2 DEF RowsKept, OnlyRowsAssigned, AutoInv, Assigned
<1>7. ASSUME NEW j \in Jobs PROVE JobOK(j)'
  <2>1. CASE j = i
    BY <2>1, <1>6, OwnJob
  <2>2. CASE j # i
    BY <2>2, <1>6, OtherJob, JobKept DEF AutoInv, locals
  <2> QED
    BY <2>1, <2>2
<1> QED
  BY <1>1, <1>3, <1>4, <1>5, <1>6, <1>7 DEF AutoInv, SvcInv

-----------------------------------------------------------------------------
(* The theorems *)

\* AutoInv is inductive: it holds whatever requests and jobs interleave, stop,
\* die and run again.
THEOREM AutoInvariance == Spec => []AutoInv
<1>1. AutoInv /\ [Next]_vars => AutoInv'
  <2> SUFFICES ASSUME AutoInv, [Next]_vars PROVE AutoInv'
      OBVIOUS
  <2>1. CASE SvcNext /\ UNCHANGED wlocals
    BY <2>1, ServiceStep
  <2>2. CASE WorkerNext /\ UNCHANGED locals
    BY <2>2, WorkerStep
  <2>3. CASE UNCHANGED vars
    BY <2>3, ServiceStep DEF vars
  <2> QED
    BY <2>1, <2>2, <2>3 DEF Next
<1> QED
  BY AutoInvInit, <1>1, PTL DEF Spec

\* Requests and jobs together stay in the vocabulary of the tables, the queue
\* and their own steps.
THEOREM AutoTypeCorrect == Spec => []TypeOK
<1>1. AutoInv => TypeOK
  BY DEF AutoInv, SvcInv, TypeOK
<1> QED
  BY AutoInvariance, <1>1, PTL

\* job_log claims only what is in the tables.
THEOREM LogIsTrue == Spec => []LogClaimsOnlyWork
<1>1. AutoInv => LogClaimsOnlyWork
  BY DEF AutoInv, JobOK, ClaimOK, LogClaimsOnlyWork
<1> QED
  BY AutoInvariance, <1>1, PTL

\* A job that ARQ holds complete has left its ticket assigned.
THEOREM CompleteIsAssigned == Spec => []CompleteMeansAssigned
<1>1. AutoInv => CompleteMeansAssigned
  BY DEF AutoInv, JobOK, ClaimOK, CompleteMeansAssigned
<1> QED
  BY AutoInvariance, <1>1, PTL

\* The attempts job_log shows were tries of ARQ.
THEOREM AttemptsAreTries == Spec => []AttemptsHonest
<1>1. AutoInv => AttemptsHonest
  BY DEF AutoInv, JobOK, ClaimOK, AttemptsHonest
<1> QED
  BY AutoInvariance, <1>1, PTL

\* The API and the workers implement TicketLifecycle with one action more, the
\* triage's "escalated".
THEOREM TriageAloneLeavesGraph == Spec => OnlyTriageLeavesGraph
<1> DEFINE Triage ==
      \E t \in Tickets :
        Escalates(t) /\ Statuses' = [Statuses EXCEPT ![t] = "escalated"]
<1>0. Statuses = Column /\ Statuses' = Column'
  BY DEF Statuses, Column
<1>1. ASSUME AutoInv, [Next]_vars PROVE Lifecycle!LNext \/ Triage \/ UNCHANGED Statuses
  <2>1. CASE SvcNext /\ UNCHANGED wlocals
    <3>1. SvcInv /\ [SvcNext]_svcVars
      BY <1>1, <2>1 DEF AutoInv
    <3> QED
      BY <3>1, LifecycleStep, <1>0
  <2>2. CASE WorkerNext /\ UNCHANGED locals
    <3>t. tickets \in [Tickets -> Row] /\ wpc \in [Jobs -> WPC]
      BY <1>1 DEF AutoInv, SvcInv, SvcTypeOK, WorkerTypeOK
    <3>1. ASSUME NEW i \in Jobs, WriteResult(i)
          PROVE  Triage \/ UNCHANGED Statuses
      <4>1. /\ wpc[i] = "write" /\ wpc'[i] = "events"
        BY <3>1, <3>t DEF WriteResult, WGoto
      <4>2. ASSUME NEW t \in Tickets
            PROVE  tickets'[t].status = IF t = Ticket(i) /\ escalate[i] THEN "escalated"
                                                                      ELSE tickets[t].status
        <5>1. CASE t = Ticket(i)
          <6>1. tickets'[t] = [tickets[t] EXCEPT
                                 !.assigned = i,
                                 !.status = IF escalate[i] THEN "escalated" ELSE @]
            BY <1>1, <3>1, <5>1, WriteRow
          <6> QED
            BY <3>t, <5>1, <6>1 DEF Row
        <5>2. CASE t # Ticket(i)
          <6>1. tickets'[t] = tickets[t]
            BY <1>1, <3>1, <5>2, WriteRow
          <6> QED
            BY <5>2, <6>1
        <5> QED
          BY <5>1, <5>2
      <4>3. CASE escalate[i] /\ Ticket(i) \in Tickets
        <5>1. Escalates(Ticket(i))
          BY <4>1, <4>3 DEF Escalates
        <5>2. Statuses' = [Statuses EXCEPT ![Ticket(i)] = "escalated"]
          BY <4>2, <4>3 DEF Statuses
        <5> QED
          BY <4>3, <5>1, <5>2
      <4>4. CASE ~(escalate[i] /\ Ticket(i) \in Tickets)
        <5>1. \A t \in Tickets : tickets'[t].status = tickets[t].status
          BY <4>2, <4>4
        <5> QED
          BY <5>1 DEF Statuses
      <4> QED
        BY <4>3, <4>4
    <3>2. ASSUME NEW i \in Jobs, JobStep(i) \/ JobMishap(i), ~WriteResult(i)
          PROVE  UNCHANGED Statuses
      <4>1. tickets' = tickets
        BY <3>2 DEF JobStep, JobMishap, Pickup, ReadTicket, LogRunning, PipelineOk,
           PipelineFails, PipelineBreaks, RecordEvent, RecordFailure, LogOutcome, Return,
           Raise, Exhaust, Die, Evict
      <4> QED
        BY <4>1 DEF Statuses
    <3>3. \E i \in Jobs : WriteResult(i) \/ ((JobStep(i) \/ JobMishap(i)) /\ ~WriteResult(i))
      BY <2>2 DEF WorkerNext
    <3> QED
      BY <3>1, <3>2, <3>3
  <2>3. CASE UNCHANGED vars
    BY <2>3 DEF vars, svcVars, Statuses
  <2> QED
    BY <1>1, <2>1, <2>2, <2>3 DEF Next
<1>2. AutoInv /\ [Next]_vars => [Lifecycle!LNext \/ Triage]_Statuses
  BY <1>1
<1> QED
  BY AutoInvariance, <1>2, PTL DEF Spec, OnlyTriageLeavesGraph

\* What the ticket service promises its clients it keeps while jobs change the
\* rows it made.
THEOREM JobsKeepAgreement == Spec => [](RepliesAgree /\ KeyedCreateAnswered)
<1>1. AutoInv => RepliesAgree /\ KeyedCreateAnswered
  BY KeyAssumption
  DEF AutoInv, SvcInv, CreatePhase, CreateOK, KeyUnique, RepliesAgree, KeyedCreateAnswered,
      RealKeys
<1> QED
  BY AutoInvariance, <1>1, PTL

-----------------------------------------------------------------------------
(* The books of the statuses that end a ticket *)

\* The committed moves into and out of "resolved".
Ins(t) == CommittedMoves(t, Status, {"resolved"})
Outs(t) == CommittedMoves(t, {"resolved"}, Status)

\* What is counted is finite; the counts balance.
LedgerInv ==
  /\ AutoInv /\ AuditedEnded
  /\ overwritten \in [Tickets -> [EndStatus -> Nat]]
  /\ IsFiniteSet(audit) /\ \A t \in Tickets : IsFiniteSet(Closers(t))
  /\ ResolvedBalanced /\ ClosedBalanced

\* The balance of one ticket: how many moves in and out and how many closes there
\* are, given the times its status was written over.
Booked(t) ==
  /\ Cardinality(Ins(t)) = Cardinality(Outs(t)) + overwritten[t]["resolved"]
                           + (IF tickets[t].status = "resolved" THEN 1 ELSE 0)
  /\ IsFiniteSet(Closers(t))
  /\ Cardinality(Closers(t)) = overwritten[t]["closed"]
                               + (IF tickets[t].status = "closed" THEN 1 ELSE 0)

\* Initially nothing is committed, counted or written over.
LEMMA LedgerInvInit == LedgerInit => LedgerInv
<1> SUFFICES ASSUME LedgerInit PROVE LedgerInv
    OBVIOUS
<1>1. /\ audit = {} /\ \A b \in BulkCloses : closed[b] = {}
      /\ \A t \in Tickets : tickets[t].status = "absent"
  BY DEF LedgerInit, Init, SvcInit, StoreInit, NoRow, Absent
<1>2. /\ overwritten \in [Tickets -> [EndStatus -> Nat]]
      /\ \A t \in Tickets : overwritten[t]["resolved"] = 0 /\ overwritten[t]["closed"] = 0
  BY DEF LedgerInit, EndStatus
<1>3. \A t, from, s : CommittedMoves(t, from, s) = {}
  BY <1>1 DEF CommittedMoves
<1>4. \A t : Closers(t) = {}
  BY <1>1, <1>3 DEF Closers
<1>5. Cardinality({}) = 0 /\ IsFiniteSet({})
  BY FS_EmptySet
<1>6. ResolvedBalanced
  <2> SUFFICES ASSUME NEW t \in Tickets
               PROVE  Cardinality(CommittedMoves(t, Status, {"resolved"}))
                        = Cardinality(CommittedMoves(t, {"resolved"}, Status))
                          + overwritten[t]["resolved"]
                          + (IF tickets[t].status = "resolved" THEN 1 ELSE 0)
      BY DEF ResolvedBalanced
  <2>1. /\ Cardinality(CommittedMoves(t, Status, {"resolved"})) = 0
        /\ Cardinality(CommittedMoves(t, {"resolved"}, Status)) = 0
    BY <1>3, <1>5
  <2>2. tickets[t].status # "resolved" /\ overwritten[t]["resolved"] = 0
    BY <1>1, <1>2
  <2> QED
    BY <2>1, <2>2
<1>7. ClosedBalanced
  <2> SUFFICES ASSUME NEW t \in Tickets
               PROVE  Cardinality(Closers(t)) = overwritten[t]["closed"]
                        + (IF tickets[t].status = "closed" THEN 1 ELSE 0)
      BY DEF ClosedBalanced
  <2>1. Cardinality(Closers(t)) = 0
    BY <1>4, <1>5
  <2>2. tickets[t].status # "closed" /\ overwritten[t]["closed"] = 0
    BY <1>1, <1>2
  <2> QED
    BY <2>1, <2>2
<1>8. AutoInv /\ AuditedEnded
  BY AutoInvInit, EndedInit DEF LedgerInit, Init
<1> QED
  BY <1>1, <1>2, <1>4, <1>5, <1>6, <1>7, <1>8 DEF LedgerInv

\* A step in which no job writes leaves the history of overwriting alone.
LEMMA NothingOverwritten ==
  ASSUME LedgerInv, LedgerNext, UNCHANGED wpc
  PROVE  overwritten' = overwritten
<1>1. \A t, s : ~Overwrites(t, s)
  BY DEF Overwrites, Escalates
<1>2. overwritten' = [t \in Tickets |-> [s \in EndStatus |-> overwritten[t][s] + 0]]
  BY <1>1 DEF LedgerNext
<1>3. \A t \in Tickets : \A s \in EndStatus : overwritten[t][s] \in Nat
  BY DEF LedgerInv
<1>4. \A t \in Tickets : \A s \in EndStatus : overwritten[t][s] + 0 = overwritten[t][s]
  BY <1>3
<1>5. \A t \in Tickets : [s \in EndStatus |-> overwritten[t][s] + 0] = overwritten[t]
  BY <1>4 DEF LedgerInv
<1> QED
  BY <1>2, <1>5 DEF LedgerInv

\* A step of a job leaves a status alone, and then nothing counts as written
\* over; or it writes "escalated", and what the row held is written over.
LEMMA WorkerStatus ==
  ASSUME AutoInv, WorkerNext, NEW t \in Tickets
  PROVE  /\ audit' = audit /\ tickets'[t].resolvedAt = tickets[t].resolvedAt
         /\ \/ /\ tickets'[t].status = tickets[t].status
               /\ \A s \in EndStatus : ~Overwrites(t, s)
            \/ /\ tickets'[t].status = "escalated"
               /\ \A s \in EndStatus : Overwrites(t, s) <=> tickets[t].status = s
<1> DEFINE Goal ==
             /\ audit' = audit /\ tickets'[t].resolvedAt = tickets[t].resolvedAt
             /\ \/ /\ tickets'[t].status = tickets[t].status
                   /\ \A s \in EndStatus : ~Overwrites(t, s)
                \/ /\ tickets'[t].status = "escalated"
                   /\ \A s \in EndStatus : Overwrites(t, s) <=> tickets[t].status = s
<1>t. tickets \in [Tickets -> Row] /\ wpc \in [Jobs -> WPC]
  BY DEF AutoInv, SvcInv, SvcTypeOK, WorkerTypeOK
<1>1. ASSUME NEW i \in Jobs, WriteResult(i)
      PROVE  Goal
  <2>1. audit' = audit /\ wpc' = [wpc EXCEPT ![i] = "events"] /\ wpc[i] = "write"
    BY <1>1 DEF WriteResult, WGoto
  <2>2. \A s : Overwrites(t, s) <=>
                 escalate[i] /\ Ticket(i) = t /\ tickets[t].status = s
    <3>1. \A j \in Jobs : wpc[j] = "write" /\ wpc'[j] = "events" => j = i
      BY <1>t, <2>1
    <3>2. wpc'[i] = "events"
      BY <1>t, <2>1
    <3> QED
      BY <2>1, <3>1, <3>2 DEF Overwrites, Escalates
  <2>3. CASE t # Ticket(i)
    <3>1. tickets'[t] = tickets[t]
      BY <1>1, <2>3, WriteRow
    <3>2. \A s : ~Overwrites(t, s)
      BY <2>2, <2>3
    <3> QED
      BY <2>1, <3>1, <3>2
  <2>4. CASE t = Ticket(i)
    <3>1. tickets'[t] = [tickets[t] EXCEPT
                           !.assigned = i,
                           !.status = IF escalate[i] THEN "escalated" ELSE @]
      BY <1>1, <2>4, WriteRow
    <3>2. /\ tickets'[t].resolvedAt = tickets[t].resolvedAt
          /\ tickets'[t].status = IF escalate[i] THEN "escalated" ELSE tickets[t].status
      BY <1>t, <3>1 DEF Row
    <3>3. CASE escalate[i]
      BY <2>1, <2>2, <2>4, <3>2, <3>3
    <3>4. CASE ~escalate[i]
      BY <2>1, <2>2, <2>4, <3>2, <3>4
    <3> QED
      BY <3>3, <3>4
  <2> QED
    BY <2>3, <2>4
<1>2. ASSUME NEW i \in Jobs, JobStep(i) \/ JobMishap(i), ~WriteResult(i)
      PROVE  Goal
  <2>1. tickets' = tickets /\ audit' = audit
    BY <1>2 DEF JobStep, JobMishap, Pickup, ReadTicket, LogRunning, PipelineOk, PipelineFails,
       PipelineBreaks, RecordEvent, RecordFailure, LogOutcome, Return, Raise, Exhaust, Die,
       Evict
  <2>2. \A j \in Jobs : ~(wpc[j] = "write" /\ wpc'[j] = "events")
    BY <1>2, <1>t DEF JobStep, JobMishap, Pickup, ReadTicket, LogRunning, PipelineOk,
       PipelineFails, PipelineBreaks, RecordEvent, RecordFailure, LogOutcome, Return, Raise,
       Exhaust, Die, Evict, WGoto, Leave, Seen, AfterFailure, wlocals
  <2> QED
    BY <2>1, <2>2 DEF Overwrites, Escalates
<1>3. \E i \in Jobs : WriteResult(i) \/ ((JobStep(i) \/ JobMishap(i)) /\ ~WriteResult(i))
  BY DEF WorkerNext
<1> HIDE DEF Goal
<1>4. Goal
  BY <1>1, <1>2, <1>3
<1> QED
  BY <1>4 DEF Goal

\* Booked is what the two properties say of a ticket.
LEMMA BookedIsBalanced ==
  ASSUME LedgerInv, NEW t \in Tickets
  PROVE  /\ Booked(t)
         /\ Cardinality(Ins(t)) \in Nat /\ IsFiniteSet(Ins(t))
         /\ Cardinality(Outs(t)) \in Nat /\ IsFiniteSet(Outs(t))
         /\ Cardinality(Closers(t)) \in Nat
         /\ overwritten[t]["resolved"] \in Nat /\ overwritten[t]["closed"] \in Nat
<1>1. Ins(t) \in SUBSET audit /\ Outs(t) \in SUBSET audit
  BY DEF Ins, Outs, CommittedMoves
<1>2. IsFiniteSet(Ins(t)) /\ IsFiniteSet(Outs(t)) /\ IsFiniteSet(Closers(t))
  BY <1>1, FS_Subset DEF LedgerInv
<1>3. overwritten[t]["resolved"] \in Nat /\ overwritten[t]["closed"] \in Nat
  BY DEF LedgerInv, EndStatus
<1>4. Booked(t)
  BY <1>2 DEF LedgerInv, Booked, ResolvedBalanced, ClosedBalanced, Ins, Outs
<1> QED
  BY <1>2, <1>3, <1>4, FS_CardinalityType

\* A step of a request keeps the books.
LEMMA LedgerServiceStep ==
  ASSUME LedgerInv, [SvcNext]_svcVars, UNCHANGED wlocals, overwritten' = overwritten
  PROVE  LedgerInv'
<1>i. AutoInv /\ SvcInv /\ AuditedEnded /\ IsFiniteSet(audit)
  BY DEF LedgerInv, AutoInv
<1>t. tickets \in [Tickets -> Row] /\ closed \in [BulkCloses -> SUBSET Tickets]
      /\ pc \in [Requests -> PC]
  BY <1>i DEF SvcInv, SvcTypeOK
<1>k. AutoInv' /\ AuditedEnded' /\ IsFiniteSet(audit)'
  BY <1>i, ServiceStep, EndedStep, AuditStep, FS_AddElement
\* It is enough to look at one ticket.
<1>1. ASSUME NEW t \in Tickets,
             Ins(t)' = Ins(t), Outs(t)' = Outs(t), Closers(t)' = Closers(t),
             \/ tickets'[t].status = tickets[t].status
             \/ tickets[t].status = Absent /\ tickets'[t].status = "open"
      PROVE  Booked(t)'
  <2>1. /\ tickets'[t].status = "resolved" <=> tickets[t].status = "resolved"
        /\ tickets'[t].status = "closed" <=> tickets[t].status = "closed"
    BY <1>1 DEF Absent
  <2> QED
    BY <1>1, <2>1, BookedIsBalanced DEF Booked
<1>2. ASSUME NEW r \in Moves, UpdateCommit(r) \/ ResolveCommit(r), NEW t \in Tickets
      PROVE  Booked(t)'
  <2>1. CASE to[r] = Absent \/ t # target[r]
    <3>1. tickets'[t] = tickets[t] /\ closed' = closed
      BY <1>2, <1>i, <2>1, CommitRow
    <3>2. /\ to[r] \in {"resolved"} => to[r] # Absent
          /\ to[r] \in {"closed"} => to[r] # Absent
          /\ to[r] \in Status => to[r] # Absent
      BY DEF Absent, Status
    <3>3. Ins(t)' = Ins(t)
      BY <1>2, <1>i, <2>1, <3>2, CommitMoves DEF Ins
    <3>4. Outs(t)' = Outs(t)
      BY <1>2, <1>i, <2>1, <3>2, CommitMoves DEF Outs
    <3>5. Closers(t)' = Closers(t)
      BY <1>2, <1>i, <2>1, <3>1, <3>2, CommitMoves DEF Closers
    <3> QED
      BY <1>1, <3>1, <3>3, <3>4, <3>5
  <2>2. CASE to[r] # Absent /\ t = target[r]
    <3>1. /\ seen[r] \in Status /\ to[r] \in Status /\ CanTransition(seen[r], to[r])
          /\ tickets[t].status = seen[r] /\ tickets'[t].status = to[r] /\ closed' = closed
      BY <1>2, <1>i, <2>2, CommitRow
    <3>2. seen[r] # to[r] /\ seen[r] # "closed"
      BY <3>1 DEF CanTransition, Transitions
    <3>3. /\ r \notin Ins(t)
          /\ to[r] = "resolved" => Ins(t)' = Ins(t) \cup {r}
          /\ to[r] # "resolved" => Ins(t)' = Ins(t)
      BY <1>2, <1>i, <2>2, <3>1, CommitMoves DEF Ins
    <3>4. /\ r \notin Outs(t)
          /\ seen[r] = "resolved" => Outs(t)' = Outs(t) \cup {r}
          /\ seen[r] # "resolved" => Outs(t)' = Outs(t)
      BY <1>2, <1>i, <2>2, <3>1, CommitMoves DEF Outs
    <3>5. /\ r \notin Closers(t)
          /\ to[r] = "closed" => Closers(t)' = Closers(t) \cup {r}
          /\ to[r] # "closed" => Closers(t)' = Closers(t)
      <4>1. r \notin BulkCloses
        BY RequestAssumption DEF Moves
      <4> QED
        BY <1>2, <1>i, <2>2, <3>1, <4>1, CommitMoves DEF Closers
    <3>6. /\ Cardinality(Ins(t) \cup {r}) = Cardinality(Ins(t)) + 1
          /\ Cardinality(Outs(t) \cup {r}) = Cardinality(Outs(t)) + 1
          /\ Cardinality(Closers(t) \cup {r}) = Cardinality(Closers(t)) + 1
          /\ IsFiniteSet(Closers(t) \cup {r})
      BY <3>3, <3>4, <3>5, BookedIsBalanced, FS_AddElement DEF Booked
    <3>7. CASE to[r] = "resolved"
      <4>1. /\ Cardinality(Ins(t)') = Cardinality(Ins(t)) + 1
            /\ Outs(t)' = Outs(t) /\ Closers(t)' = Closers(t)
        BY <3>7, <3>2, <3>3, <3>4, <3>5, <3>6
      <4>2. tickets[t].status \notin {"resolved", "closed"} /\ tickets'[t].status = "resolved"
        BY <3>7, <3>1, <3>2
      <4> QED
        BY <4>1, <4>2, BookedIsBalanced DEF Booked
    <3>8. CASE to[r] # "resolved"
      <4>1. Ins(t)' = Ins(t)
        BY <3>8, <3>3
      <4>2. Cardinality(Ins(t))' = Cardinality(Outs(t))' + overwritten'[t]["resolved"]
                                   + (IF tickets'[t].status = "resolved" THEN 1 ELSE 0)
        <5>1. CASE seen[r] = "resolved"
          <6>1. Cardinality(Outs(t)') = Cardinality(Outs(t)) + 1
            BY <5>1, <3>4, <3>6
          <6>2. tickets[t].status = "resolved" /\ tickets'[t].status # "resolved"
            BY <5>1, <3>8, <3>1
          <6> QED
            BY <4>1, <6>1, <6>2, BookedIsBalanced DEF Booked
        <5>2. CASE seen[r] # "resolved"
          <6>1. Outs(t)' = Outs(t)
            BY <5>2, <3>4
          <6>2. tickets[t].status # "resolved" /\ tickets'[t].status # "resolved"
            BY <5>2, <3>8, <3>1
          <6> QED
            BY <4>1, <6>1, <6>2, BookedIsBalanced DEF Booked
        <5> QED
          BY <5>1, <5>2
      <4>3. /\ IsFiniteSet(Closers(t))'
            /\ Cardinality(Closers(t))' = overwritten'[t]["closed"]
                                          + (IF tickets'[t].status = "closed" THEN 1 ELSE 0)
        <5>1. CASE to[r] = "closed"
          <6>1. Closers(t)' = Closers(t) \cup {r}
            BY <5>1, <3>5
          <6>2. tickets[t].status # "closed" /\ tickets'[t].status = "closed"
            BY <5>1, <3>1, <3>2
          <6> QED
            BY <6>1, <6>2, <3>6, BookedIsBalanced DEF Booked
        <5>2. CASE to[r] # "closed"
          <6>1. Closers(t)' = Closers(t)
            BY <5>2, <3>5
          <6>2. tickets[t].status # "closed" /\ tickets'[t].status # "closed"
            BY <5>2, <3>1, <3>2
          <6> QED
            BY <6>1, <6>2, BookedIsBalanced DEF Booked
        <5> QED
          BY <5>1, <5>2
      <4> QED
        BY <4>2, <4>3 DEF Booked
    <3> QED
      BY <3>7, <3>8
  <2> QED
    BY <2>1, <2>2
<1>3. ASSUME audit' \cap Moves = audit \cap Moves, NEW t \in Tickets,
             NEW b \in BulkCloses, NEW ids \in SUBSET Tickets, BulkClose(b, ids)
      PROVE  Booked(t)'
  <2>1. /\ Ins(t)' = Ins(t) /\ Outs(t)' = Outs(t)
        /\ CommittedMoves(t, Status, {"closed"})' = CommittedMoves(t, Status, {"closed"})
    BY <1>3, <1>i, QuietMoves DEF Ins, Outs
  <2>2. /\ closed[b] = {} /\ closed'[b] = BulkClosable(ids)
        /\ \A d \in BulkCloses : d # b => closed'[d] = closed[d]
    BY <1>3, <1>t, <1>i DEF BulkClose, AuditedEnded
  <2>3. CASE t \in BulkClosable(ids)
    <3>1. tickets[t].status \notin {"resolved", "closed"} /\ tickets'[t].status = "closed"
      BY <1>3, <1>t, <2>3 DEF BulkClose, BulkClosed, BulkClosable, Row
    <3>2. b \notin Closers(t)
      <4>1. b \notin Moves
        BY RequestAssumption DEF Moves
      <4> QED
        BY <2>2, <4>1 DEF Closers, CommittedMoves
    <3>3. Closers(t)' = Closers(t) \cup {b}
      BY <2>1, <2>2, <2>3 DEF Closers
    <3>4. /\ Cardinality(Closers(t) \cup {b}) = Cardinality(Closers(t)) + 1
          /\ IsFiniteSet(Closers(t) \cup {b})
      BY <3>2, BookedIsBalanced, FS_AddElement DEF Booked
    <3> QED
      BY <2>1, <3>1, <3>3, <3>4, BookedIsBalanced DEF Booked
  <2>4. CASE t \notin BulkClosable(ids)
    <3>1. tickets'[t] = tickets[t]
      BY <1>3, <1>t, <2>4 DEF BulkClose, BulkClosed
    <3>2. Closers(t)' = Closers(t)
      BY <2>1, <2>2, <2>4 DEF Closers
    <3> QED
      BY <1>1, <2>1, <3>1, <3>2
  <2> QED
    BY <2>3, <2>4
<1>4. ASSUME audit' \cap Moves = audit \cap Moves, closed' = closed, NEW t \in Tickets,
             tickets' = tickets \/ \E c \in Creates : CreateInsert(c)
      PROVE  Booked(t)'
  <2>1. /\ Ins(t)' = Ins(t) /\ Outs(t)' = Outs(t) /\ Closers(t)' = Closers(t)
    BY <1>4, <1>i, QuietMoves DEF Ins, Outs, Closers
  <2>2. ASSUME NEW c \in Creates, CreateInsert(c), t = c
        PROVE  tickets[t].status = Absent /\ tickets'[t].status = "open"
    BY <2>2, <1>t, <1>i DEF CreateInsert, Inserted, SvcInv, CreatePhase, CreateOK, Exists, Creates
  <2>3. ASSUME NEW c \in Creates, CreateInsert(c), t # c
        PROVE  tickets'[t] = tickets[t]
    BY <2>3, <1>t DEF CreateInsert, Inserted, Creates
  <2> QED
    BY <1>1, <1>4, <2>1, <2>2, <2>3
<1>5. \/ \E r \in Moves : UpdateCommit(r) \/ ResolveCommit(r)
      \/ /\ audit' \cap Moves = audit \cap Moves
         /\ \E b \in BulkCloses, ids \in SUBSET Tickets : BulkClose(b, ids)
      \/ /\ audit' \cap Moves = audit \cap Moves /\ closed' = closed
         /\ tickets' = tickets \/ \E c \in Creates : CreateInsert(c)
  <2>1. \/ \E r \in Moves : UpdateCommit(r) \/ ResolveCommit(r)
        \/ \E b \in BulkCloses, ids \in SUBSET Tickets : BulkClose(b, ids)
        \/ closed' = closed /\ (tickets' = tickets \/ \E c \in Creates : CreateInsert(c))
    BY DEF SvcNext, Arrive, HandlerStep, CreateStep, MoveStep, svcVars, CreateHit,
       CreateStart, CreateInsert, CreateConflict, CreateConflictHit, Enqueue, LogEnqueued,
       Audit, Reply, UpdateRead, UpdateReadFields, CasFails, ResolveRead, RetryRead, Stop
  <2> QED
    BY <1>i, <2>1, AuditStep
<1>6. \A t \in Tickets : Booked(t)'
  BY <1>2, <1>3, <1>4, <1>5
<1>7. ResolvedBalanced' /\ ClosedBalanced' /\ \A t \in Tickets : IsFiniteSet(Closers(t))'
  BY <1>6 DEF Booked, ResolvedBalanced, ClosedBalanced, Ins, Outs
<1> QED
  BY <1>k, <1>7 DEF LedgerInv

\* No job writes the audit log.
LEMMA WorkerAudits == WorkerNext => audit' = audit
  BY DEF WorkerNext, JobStep, JobMishap, Pickup, ReadTicket, LogRunning, PipelineOk,
     PipelineFails, PipelineBreaks, WriteResult, RecordEvent, RecordFailure, LogOutcome,
     Return, Raise, Exhaust, Die, Evict

\* A step of a job that writes over a resolve or a close writes that down.
LEMMA LedgerWorkerStep ==
  ASSUME LedgerInv, LedgerNext, WorkerNext, UNCHANGED locals
  PROVE  LedgerInv'
<1>1. AutoInv' /\ audit' = audit
  BY WorkerStep, WorkerAudits DEF LedgerInv
<1>2. AuditedEnded'
  BY <1>1 DEF LedgerInv, AuditedEnded, locals
<1>3. \A t : /\ Ins(t)' = Ins(t) /\ Outs(t)' = Outs(t) /\ Closers(t)' = Closers(t)
  BY <1>1 DEF Ins, Outs, Closers, CommittedMoves, locals
<1>4. overwritten' = [t \in Tickets |-> [s \in EndStatus |->
         overwritten[t][s] + (IF Overwrites(t, s) THEN 1 ELSE 0)]]
  BY DEF LedgerNext
<1>5. ASSUME NEW t \in Tickets PROVE Booked(t)'
  <2>o. /\ overwritten'[t]["resolved"]
             = overwritten[t]["resolved"] + (IF Overwrites(t, "resolved") THEN 1 ELSE 0)
        /\ overwritten'[t]["closed"]
             = overwritten[t]["closed"] + (IF Overwrites(t, "closed") THEN 1 ELSE 0)
    BY <1>4 DEF EndStatus
  <2>1. CASE /\ tickets'[t].status = tickets[t].status
             /\ \A s \in EndStatus : ~Overwrites(t, s)
    <3>1. ~Overwrites(t, "resolved") /\ ~Overwrites(t, "closed")
      BY <2>1 DEF EndStatus
    <3>2. /\ overwritten'[t]["resolved"] = overwritten[t]["resolved"]
          /\ overwritten'[t]["closed"] = overwritten[t]["closed"]
      BY <2>o, <3>1, BookedIsBalanced
    <3> QED
      BY <2>1, <3>2, <1>3, BookedIsBalanced DEF Booked
  <2>2. CASE /\ tickets'[t].status = "escalated"
             /\ \A s \in EndStatus : Overwrites(t, s) <=> tickets[t].status = s
    <3>1. /\ Overwrites(t, "resolved") <=> tickets[t].status = "resolved"
          /\ Overwrites(t, "closed") <=> tickets[t].status = "closed"
      BY <2>2 DEF EndStatus
    <3>2. /\ overwritten'[t]["resolved"] = overwritten[t]["resolved"]
                + (IF tickets[t].status = "resolved" THEN 1 ELSE 0)
          /\ overwritten'[t]["closed"] = overwritten[t]["closed"]
                + (IF tickets[t].status = "closed" THEN 1 ELSE 0)
      BY <2>o, <3>1
    <3>3. /\ Cardinality(Ins(t))' = Cardinality(Outs(t))' + overwritten'[t]["resolved"]
          /\ Cardinality(Closers(t))' = overwritten'[t]["closed"]
          /\ IsFiniteSet(Closers(t))'
      BY <3>2, <1>3, BookedIsBalanced DEF Booked
    <3>4. /\ Cardinality(Outs(t))' \in Nat
          /\ overwritten'[t]["resolved"] \in Nat /\ overwritten'[t]["closed"] \in Nat
      BY <3>2, <1>3, BookedIsBalanced
    <3> QED
      BY <2>2, <3>3, <3>4 DEF Booked
  <2> QED
    BY <2>1, <2>2, WorkerStatus DEF LedgerInv
<1>6. overwritten' \in [Tickets -> [EndStatus -> Nat]]
  <2>1. \A t \in Tickets : \A s \in EndStatus :
           overwritten[t][s] + (IF Overwrites(t, s) THEN 1 ELSE 0) \in Nat
    BY DEF LedgerInv
  <2> QED
    BY <1>4, <2>1
<1>7. ResolvedBalanced' /\ ClosedBalanced' /\ \A t \in Tickets : IsFiniteSet(Closers(t))'
  BY <1>5 DEF Booked, ResolvedBalanced, ClosedBalanced, Ins, Outs
<1> QED
  BY <1>1, <1>2, <1>6, <1>7 DEF LedgerInv

\* LedgerInv is inductive.
LEMMA LedgerStep == LedgerInv /\ [LedgerNext]_ledgerVars => LedgerInv'
<1> SUFFICES ASSUME LedgerInv, [LedgerNext]_ledgerVars PROVE LedgerInv'
    OBVIOUS
<1>1. CASE LedgerNext /\ SvcNext /\ UNCHANGED wlocals
  <2>1. overwritten' = overwritten
    BY <1>1, NothingOverwritten DEF wlocals
  <2> QED
    BY <1>1, <2>1, LedgerServiceStep
<1>2. CASE LedgerNext /\ WorkerNext /\ UNCHANGED locals
  BY <1>2, LedgerWorkerStep
<1>3. CASE UNCHANGED ledgerVars
  BY <1>3, LedgerServiceStep DEF ledgerVars, vars
<1> QED
  BY <1>1, <1>2, <1>3 DEF LedgerNext, Next

\* The books stay balanced whatever requests and jobs interleave, stop, die and
\* run again.
THEOREM LedgerInvariance == LedgerSpec => []LedgerInv
  BY LedgerInvInit, LedgerStep, PTL DEF LedgerSpec

\* Every committed move into "resolved" is matched by one out of it, by a job
\* that wrote over it, or by the ticket's being resolved.
THEOREM ResolvedAlwaysBalanced == LedgerSpec => []ResolvedBalanced
<1>1. LedgerInv => ResolvedBalanced
  BY DEF LedgerInv
<1> QED
  BY LedgerInvariance, <1>1, PTL

\* A ticket is closed, and counted by a bulk close, once more than jobs wrote
\* over its being closed, or as often.
THEOREM ClosedAlwaysBalanced == LedgerSpec => []ClosedBalanced
<1>1. LedgerInv => ClosedBalanced
  BY DEF LedgerInv
<1> QED
  BY LedgerInvariance, <1>1, PTL

=============================================================================
