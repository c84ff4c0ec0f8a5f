------------------------ MODULE ServiceLayersProofs ------------------------
(***************************************************************************)
(* Proofs about the two modules that are laid over the ticket service, for *)
(* any number of tickets, requests and calls: Integrations (event_count,   *)
(* the traces of a delivery, what a failed one leaves, and that a deleted  *)
(* integration stays deleted) and Insights (where the history of the       *)
(* backlog errs).  The ticket service's own invariant is a conjunct of     *)
(* each layer's, and its steps are TicketServiceProofs'.                   *)
(***************************************************************************)
EXTENDS Integrations, Insights, AutoSupportProofs

-----------------------------------------------------------------------------
(* Integrations: the inductive invariant *)

\* A call that goes on after its read names an integration whose insert ran.
Named(c) == hookOf[c] \in Hooks /\ ipc[hookOf[c]] # "idle"

\* What a create without a key has left behind by the time it is where it is;
\* its insert never collides.
CreateTrace(c) ==
  /\ key[c] = NoKey
  /\ pc[c] \notin {"conflict", "raised"}
  /\ pc[c] = "idle" => jobLog[c].status = Absent /\ c \notin audit
  /\ pc[c] \in {"enqueue", "log", "audit", "reply", "ok"} => Exists(c)
  /\ pc[c] \in {"audit", "reply", "ok"} => jobLog[c].status # Absent
  /\ pc[c] \in {"reply", "ok"} => c \in audit

\* The create of a delivery runs only where the delivery called it, and has
\* answered wherever the delivery went on.
CreateCalled(i) ==
  /\ pc[i] = "idle" => ipc[i] \notin {"create", "sync"}
  /\ pc[i] # "idle" => ipc[i] \notin {"idle", "event", "rejected"}
  /\ pc[i] # "idle" /\ ipc[i] # "create" => pc[i] = "ok"

\* The event is there from the delivery's own insert until the integration is
\* deleted, and no delivery goes on to an event without an integration.
EventOK(i) ==
  /\ ipc[i] \notin {"audit", "write", "reply"}
  /\ ipc[i] \notin {"idle", "rejected"} => Named(i)
  /\ hookEvents[i] # "none" => ipc[i] \in {"count", "sync", "ok"} /\ HookExists(hookOf[i])
  /\ ipc[i] \in {"count", "sync", "ok"} /\ HookExists(hookOf[i]) =>
       hookEvents[i] = IF pc[i] = "idle" THEN "ignored" ELSE "ok"
  /\ ipc[i] = "raised" /\ HookExists(hookOf[i]) => pc[i] = "idle"

\* The events of integration h that its count has, or should have.
EventsCounted(h) ==
  {i \in Ingests : hookOf[i] = h /\ hookEvents[i] # "none" /\ ipc[i] # "count"}

Events == {i \in Ingests : hookEvents[i] # "none"}

IntInv ==
  /\ SvcInv
  /\ HookTypeOK
  /\ \A h \in Hooks : ipc[h] = "idle" => ~HookExists(h)
  /\ \A t \in Tests : ipc[t] # "audit" /\ (ipc[t] = "write" => hookOf[t] \in Hooks)
  /\ \A d \in Deletes : ipc[d] = "write" => hookOf[d] \in Hooks
  /\ \A i \in Ingests : CreateTrace(i) /\ CreateCalled(i) /\ EventOK(i)
  /\ IsFiniteSet(Events)
  /\ \A h \in Hooks : HookExists(h) => hooks[h].count = Cardinality(EventsCounted(h))

\* Nothing is there in the initial states.
LEMMA IntInvInit == IntInit => IntInv
<1> SUFFICES ASSUME IntInit PROVE IntInv
    OBVIOUS
<1>1. SvcInv
  BY InvInit DEF IntInit
<1>2. HookTypeOK
  BY DEF IntInit, HookInit, HookTypeOK, HookRow, NoHookRow, EventStatus, IPC, HookCalls
<1>3. \A h \in Hooks : ~HookExists(h)
  BY DEF IntInit, HookInit, HookExists, NoHookRow
<1>4. \A c \in HookCalls : ipc[c] = "idle"
  BY DEF IntInit, HookInit
<1>5. ASSUME NEW i \in Ingests
      PROVE  CreateTrace(i) /\ CreateCalled(i) /\ EventOK(i)
  <2>1. i \in Creates /\ i \in Requests /\ i \in HookCalls
    BY HookAssumption, RequestAssumption DEF Creates, Requests, HookCalls
  <2>2. key[i] = NoKey /\ pc[i] = "idle" /\ ipc[i] = "idle" /\ hookEvents[i] = "none"
    BY <2>1 DEF IntInit, SvcInit, HookInit
  <2>3. jobLog[i] = NoLogRow /\ audit = {}
    BY <2>1, RequestAssumption DEF IntInit, SvcInit, StoreInit, Creates
  <2>4. jobLog[i].status = Absent
    BY <2>3 DEF NoLogRow
  <2> QED
    BY <2>2, <2>3, <2>4 DEF CreateTrace, CreateCalled, EventOK
<1>6. Events = {}
  BY DEF IntInit, HookInit, Events
<1>7. IsFiniteSet(Events)
  BY <1>6, FS_EmptySet
<1> QED
  BY <1>1, <1>2, <1>3, <1>4, <1>5, <1>7 DEF IntInv, HookCalls

-----------------------------------------------------------------------------
(* Integrations: the steps of the ticket service *)

\* A create without a key that has begun leaves its traces in their order, and
\* once it has answered it rests.
LEMMA ServiceOnCreate ==
  ASSUME SvcInv, [SvcNext]_svcVars, NEW c \in Creates, CreateTrace(c),
         pc[c] = "idle" => pc'[c] = "idle"
  PROVE  /\ CreateTrace(c)'
         /\ pc[c] # "idle" => pc'[c] # "idle"
         /\ pc[c] = "ok" => pc'[c] = "ok"
<1> DEFINE Goal == /\ CreateTrace(c)'
                   /\ pc[c] # "idle" => pc'[c] # "idle"
                   /\ pc[c] = "ok" => pc'[c] = "ok"
           Rests == /\ pc'[c] = pc[c] /\ key'[c] = key[c]
                    /\ jobLog'[c] = jobLog[c]
                    /\ c \in audit' <=> c \in audit
<1> SUFFICES Goal
    OBVIOUS
<1>t. /\ pc \in [Requests -> PC] /\ key \in [Creates -> AnyKey]
      /\ jobLog \in [Jobs -> LogRow] /\ tickets \in [Tickets -> Row]
  BY DEF SvcInv, SvcTypeOK
<1>c. c \in Tickets /\ c \in Jobs /\ c \in Requests /\ c \notin Moves /\ c \notin BulkCloses
      /\ c \notin Retries
  BY RequestAssumption DEF Creates, Requests, Retries
<1>e. Exists(c) => Exists(c)'
  BY <1>c, RowsStep DEF SvcInv
<1>1. CASE Rests
  BY <1>1, <1>e DEF CreateTrace
<1>2. ASSUME CreateInsert(c)
      PROVE  Goal
  <2>1. pc[c] = "insert" /\ pc'[c] = "enqueue" /\ key'[c] = key[c]
    BY <1>2, <1>c, <1>t DEF CreateInsert, Goto
  <2>2. Exists(c)'
    BY <1>2, <1>c, <1>t DEF CreateInsert, Inserted, Exists, Absent
  <2> QED
    BY <2>1, <2>2 DEF CreateTrace
<1>3. ~CreateConflict(c) /\ ~CreateConflictHit(c)
  BY DEF CreateConflict, CreateConflictHit, CreateTrace, KeyFree
<1>4. ASSUME Enqueue(c)
      PROVE  Goal
  <2>1. pc[c] = "enqueue" /\ pc'[c] = "log" /\ key'[c] = key[c]
    BY <1>4, <1>c, <1>t DEF Enqueue, Goto
  <2> QED
    BY <2>1, <1>e DEF CreateTrace
<1>5. ASSUME LogEnqueued(c)
      PROVE  Goal
  <2>1. pc[c] = "log" /\ pc'[c] = "audit" /\ key'[c] = key[c]
    BY <1>5, <1>c, <1>t DEF LogEnqueued, Goto
  <2>2. jobLog'[c].status # Absent
    BY <1>5, <1>c, <1>t DEF LogEnqueued, UpsertJobStatus, Absent
  <2> QED
    BY <2>1, <2>2, <1>e DEF CreateTrace
<1>6. ASSUME Audit(c)
      PROVE  Goal
  <2>1. /\ pc[c] = "audit" /\ pc'[c] = "reply" /\ key'[c] = key[c]
        /\ jobLog' = jobLog /\ c \in audit'
    BY <1>6, <1>c, <1>t DEF Audit, Goto
  <2> QED
    BY <2>1, <1>e DEF CreateTrace
<1>7. ASSUME Reply(c)
      PROVE  Goal
  <2>1. /\ pc[c] = "reply" /\ pc'[c] = "ok" /\ key'[c] = key[c]
        /\ jobLog' = jobLog /\ audit' = audit
    BY <1>7, <1>c, <1>t DEF Reply, Goto
  <2> QED
    BY <2>1, <1>e DEF CreateTrace
<1>8. ASSUME Stop(c)
      PROVE  Goal
  <2>1. pc[c] \notin {"idle", "ok"} /\ pc'[c] = "stopped" /\ key'[c] = key[c]
    BY <1>8, <1>c, <1>t DEF Stop, Goto, Ended
  <2> QED
    BY <2>1 DEF CreateTrace
<1>9. ASSUME NEW k \in AnyKey
      PROVE  ~CreateHit(c, k) /\ ~CreateStart(c, k)
  BY <1>c, <1>t DEF CreateHit, CreateStart, Goto
<1>10. ASSUME NEW d \in Creates, d # c,
              \/ \E k \in AnyKey : CreateHit(d, k) \/ CreateStart(d, k)
              \/ CreateStep(d)
       PROVE  Rests
  BY <1>10, <1>c, <1>t DEF CreateHit, CreateStart, CreateStep, CreateInsert,
     CreateConflict, CreateConflictHit, Goto
<1>11. ASSUME NEW r \in Requests, r # c,
              \/ r \in Jobs /\ (Enqueue(r) \/ LogEnqueued(r))
              \/ Audit(r) \/ Reply(r) \/ Stop(r)
       PROVE  Rests
  BY <1>11, <1>c, <1>t DEF Enqueue, LogEnqueued, UpsertJobStatus, Audit, Reply, Stop, Goto
<1>12. ASSUME NEW r \in Moves,
              \/ \E t \in Tickets, s \in Status : UpdateRead(r, t, s)
              \/ \E t \in Tickets, empty \in BOOLEAN : UpdateReadFields(r, t, empty)
              \/ \E t \in Tickets : ResolveRead(r, t)
              \/ MoveStep(r)
       PROVE  Rests
  BY <1>12, <1>c, <1>t DEF UpdateRead, UpdateReadFields, ResolveRead, MoveStep,
     UpdateCommit, ResolveCommit, CasFails, Goto
<1>13. ASSUME NEW b \in BulkCloses, NEW ids \in SUBSET Tickets, BulkClose(b, ids)
       PROVE  Rests
  BY <1>13, <1>c, <1>t DEF BulkClose, Goto
<1>14. ASSUME NEW j \in Retries, NEW t \in Tickets, RetryRead(j, t)
       PROVE  Rests
  BY <1>14, <1>c, <1>t DEF RetryRead, Goto
<1>15. CASE UNCHANGED svcVars
  BY <1>1, <1>15 DEF svcVars
<1> QED
  BY <1>1, <1>2, <1>3, <1>4, <1>5, <1>6, <1>7, <1>8, <1>9, <1>10, <1>11, <1>12, <1>13,
     <1>14, <1>15
  DEF SvcNext, Arrive, HandlerStep, CreateStep, Moves

\* Whatever the ticket service does, deliveries included.
LEMMA TicketStepInv == IntInv /\ TicketNext => IntInv'
<1> SUFFICES ASSUME IntInv, TicketNext PROVE IntInv'
    OBVIOUS
<1> USE DEF IntInv
<1>1. SvcInv'
  BY TypeStep, KeyUniqueStep, CreatePhaseStep, MovePhaseStep DEF SvcInv, TicketNext
<1>2. HookTypeOK'
  BY DEF TicketNext, HookTypeOK, hvars
<1>3. ASSUME NEW i \in Ingests
      PROVE  CreateTrace(i)' /\ CreateCalled(i)' /\ EventOK(i)'
  <2>1. i \in Creates
    BY HookAssumption
  <2>2. pc[i] = "idle" => pc'[i] = "idle"
    BY DEF TicketNext
  <2>3. /\ CreateTrace(i)'
        /\ pc[i] # "idle" => pc'[i] # "idle"
        /\ pc[i] = "ok" => pc'[i] = "ok"
    BY <2>1, <2>2, ServiceOnCreate DEF TicketNext
  <2>4. CreateCalled(i)'
    BY <2>2, <2>3 DEF TicketNext, hvars, CreateCalled
  <2>5. EventOK(i)'
    BY <2>2, <2>3 DEF TicketNext, hvars, EventOK, Named, HookExists
  <2> QED
    BY <2>3, <2>4, <2>5
<1>4. Events' = Events /\ \A h \in Hooks : EventsCounted(h)' = EventsCounted(h)
  BY DEF TicketNext, hvars, Events, EventsCounted
<1> QED
  BY <1>1, <1>2, <1>3, <1>4 DEF TicketNext, hvars, HookExists

-----------------------------------------------------------------------------
(* Integrations: the steps of its own calls *)

\* What a step does to the integrations that are named, unless it deletes one.
NamedKept ==
  \A h \in Hooks : ipc[h] # "idle" => ipc'[h] # "idle" /\ (HookExists(h)' <=> HookExists(h))

\* What is true of a delivery stays true through the steps of other calls.
LEMMA EventKept ==
  ASSUME NEW i, EventOK(i), CreateCalled(i), NamedKept,
         ipc'[i] = ipc[i], hookOf'[i] = hookOf[i], hookEvents'[i] = hookEvents[i],
         pc'[i] = pc[i]
  PROVE  CreateCalled(i)' /\ EventOK(i)'
<1>1. CreateCalled(i)'
  BY DEF CreateCalled
<1>2. CASE ipc[i] \in {"idle", "rejected"}
  BY <1>1, <1>2 DEF EventOK
<1>3. CASE ipc[i] \notin {"idle", "rejected"}
  <2>1. Named(i) /\ Named(i)'
    BY <1>3 DEF EventOK, Named, NamedKept
  <2>2. HookExists(hookOf[i])' <=> HookExists(hookOf[i])
    BY <2>1 DEF NamedKept, Named
  <2>3. hookOf'[i] = hookOf[i]
    OBVIOUS
  <2> QED
    BY <1>1, <1>3, <2>1, <2>2, <2>3 DEF EventOK, HookExists
<1> QED
  BY <1>1, <1>2, <1>3

\* Where the events and who counted them stay, so do the counts.
LEMMA CountsKept ==
  ASSUME IntInv, hookEvents' = hookEvents,
         \A i \in Ingests : hookEvents[i] # "none" =>
           hookOf'[i] = hookOf[i] /\ (ipc'[i] = "count" <=> ipc[i] = "count")
  PROVE  Events' = Events /\ \A h \in Hooks : EventsCounted(h)' = EventsCounted(h)
<1>1. Events' = Events
  BY DEF Events
<1>2. ASSUME NEW h \in Hooks
      PROVE  EventsCounted(h)' = EventsCounted(h)
  <2>1. ASSUME NEW i \in Ingests
        PROVE  hookOf'[i] = h /\ hookEvents'[i] # "none" /\ ipc'[i] # "count"
               <=> hookOf[i] = h /\ hookEvents[i] # "none" /\ ipc[i] # "count"
    OBVIOUS
  <2> QED
    BY <2>1 DEF EventsCounted
<1> QED
  BY <1>1, <1>2

\* The tables of the ticket service, left alone.
LEMMA ServiceRests ==
  ASSUME IntInv, UNCHANGED svcVars
  PROVE  SvcInv' /\ (\A i \in Ingests : CreateTrace(i)') /\ pc' = pc
<1>1. SvcInv'
  BY TypeStep, KeyUniqueStep, CreatePhaseStep, MovePhaseStep DEF IntInv, SvcInv
<1>2. \A i \in Ingests : CreateTrace(i)'
  BY DEF IntInv, svcVars, CreateTrace, Exists
<1> QED
  BY <1>1, <1>2 DEF svcVars

\* POST /api/integrations.
LEMMA InsertInv ==
  ASSUME IntInv, NEW h \in Hooks, HookInsert(h), UNCHANGED svcVars
  PROVE  IntInv'
<1> USE DEF IntInv
<1>c. h \in HookCalls /\ h \notin Ingests /\ h \notin Tests /\ h \notin Deletes
  BY HookAssumption DEF HookCalls
<1>t. ipc \in [HookCalls -> IPC] /\ hooks \in [Hooks -> HookRow]
  BY DEF HookTypeOK
<1>1. /\ ipc[h] = "idle" /\ ipc' = [ipc EXCEPT ![h] = "audit"]
      /\ hooks' = [hooks EXCEPT ![h] = NewHook]
      /\ UNCHANGED <<hookEvents, hookAudit, hookOf, found, cut>>
  BY DEF HookInsert, IGoto
<1>2. ~HookExists(h)
  BY <1>1
<1>3. HookTypeOK'
  BY <1>1, <1>t DEF HookTypeOK, NewHook, HookRow, HookStatus, IPC
<1>4. \A c \in HookCalls : c # h => ipc'[c] = ipc[c]
  BY <1>1, <1>t
<1>5. \A k \in Hooks : k # h => hooks'[k] = hooks[k]
  BY <1>1, <1>t
<1>6. ipc'[h] = "audit" /\ hooks'[h] = NewHook
  BY <1>1, <1>t, <1>c
<1>7. NamedKept
  BY <1>1, <1>4, <1>5 DEF NamedKept, HookExists, HookCalls
<1>8. ASSUME NEW i \in Ingests PROVE CreateCalled(i)' /\ EventOK(i)'
  BY <1>1, <1>4, <1>7, <1>c, EventKept, ServiceRests DEF HookCalls
<1>9. Events' = Events /\ \A k \in Hooks : EventsCounted(k)' = EventsCounted(k)
  BY <1>1, <1>4, <1>c, CountsKept DEF HookCalls
<1>10. EventsCounted(h) = {}
  BY <1>2 DEF EventsCounted, EventOK
<1>11. ASSUME NEW k \in Hooks, HookExists(k)'
       PROVE  hooks'[k].count = Cardinality(EventsCounted(k)')
  <2>1. CASE k = h
    <3>1. Cardinality({}) = 0
      BY FS_EmptySet
    <3> QED
      BY <2>1, <3>1, <1>6, <1>9, <1>10 DEF NewHook
  <2>2. CASE k # h
    BY <2>2, <1>5, <1>9, <1>11 DEF HookExists
  <2> QED
    BY <2>1, <2>2
<1>12. \A k \in Hooks : ipc'[k] = "idle" => ~HookExists(k)'
  BY <1>4, <1>5, <1>6 DEF HookExists, HookCalls
<1>13. /\ \A t \in Tests : ipc'[t] # "audit" /\ (ipc'[t] = "write" => hookOf'[t] \in Hooks)
       /\ \A d \in Deletes : ipc'[d] = "write" => hookOf'[d] \in Hooks
  BY <1>1, <1>4, <1>c DEF HookCalls
<1> QED
  BY <1>3, <1>8, <1>9, <1>11, <1>12, <1>13, ServiceRests

\* The reads and the other steps of create, test and delete: the integrations'
\* rows keep their counts and stay where they are.
LEMMA OtherInv ==
  ASSUME IntInv, UNCHANGED svcVars, HookTypeOK', hookEvents' = hookEvents,
         NEW c \in HookCalls \ Ingests, NEW l \in IPC \ {"idle"},
         ipc' = [ipc EXCEPT ![c] = l],
         \A e \in HookCalls : e # c => hookOf'[e] = hookOf[e],
         l = "audit" => c \notin Tests,
         l = "write" => hookOf'[c] \in Hooks,
         \A h \in Hooks : /\ hooks'[h].count = hooks[h].count
                          /\ HookExists(h)' <=> HookExists(h)
  PROVE  IntInv'
<1> USE DEF IntInv
<1>t. ipc \in [HookCalls -> IPC]
  BY DEF HookTypeOK
<1>1. ipc'[c] = l /\ \A e \in HookCalls : e # c => ipc'[e] = ipc[e]
  BY <1>t
<1>2. NamedKept
  BY <1>1 DEF NamedKept, HookCalls
<1>3. ASSUME NEW i \in Ingests PROVE CreateCalled(i)' /\ EventOK(i)'
  BY <1>1, <1>2, EventKept, ServiceRests DEF HookCalls
<1>4. Events' = Events /\ \A k \in Hooks : EventsCounted(k)' = EventsCounted(k)
  BY <1>1, CountsKept DEF HookCalls
<1>5. \A k \in Hooks : ipc'[k] = "idle" => ~HookExists(k)'
  BY <1>1 DEF HookCalls
<1>6. /\ \A t \in Tests : ipc'[t] # "audit" /\ (ipc'[t] = "write" => hookOf'[t] \in Hooks)
      /\ \A d \in Deletes : ipc'[d] = "write" => hookOf'[d] \in Hooks
  BY <1>1 DEF HookCalls
<1> QED
  BY <1>3, <1>4, <1>5, <1>6, ServiceRests

\* The audit row and the answer of create and delete.
LEMMA AnswerInv ==
  ASSUME IntInv, NEW c \in HookCalls, UNCHANGED svcVars,
         HookAuditRow(c) \/ (c \in Hooks /\ HookReply(c))
  PROVE  IntInv'
<1> DEFINE l == IF ipc[c] = "audit" /\ c \in Hooks THEN "reply" ELSE "ok"
<1>1. c \notin Ingests /\ (ipc[c] = "audit" => c \in Hooks \cup Deletes)
  BY HookAssumption DEF IntInv, HookCalls, EventOK, HookAuditRow
<1>2. /\ ipc' = [ipc EXCEPT ![c] = l]
      /\ hookAudit' \in {hookAudit, hookAudit \cup {c}}
      /\ hookAudit' # hookAudit => ipc[c] = "audit"
      /\ UNCHANGED <<hooks, hookEvents, hookOf, found, cut>>
  BY DEF HookAuditRow, HookReply, IGoto
<1>3. HookTypeOK'
  BY <1>1, <1>2 DEF IntInv, HookTypeOK, IPC
<1>4. l \in IPC \ {"idle"} /\ l # "audit" /\ l # "write"
  BY DEF IPC
<1> HIDE DEF l
<1> QED
  BY <1>1, <1>2, <1>3, <1>4, OtherInv DEF HookExists

\* The reads of test and delete.
LEMMA ReadInv ==
  ASSUME IntInv, UNCHANGED svcVars, NEW h \in Hooks, NEW c,
         \/ c \in Tests /\ \E outcome : TestRead(c, h, outcome)
         \/ c \in Deletes /\ DeleteRead(c, h)
  PROVE  IntInv'
<1>1. c \in HookCalls \ Ingests
  BY HookAssumption DEF HookCalls
<1>t. hookOf \in [HookCalls -> Hooks \cup {NoHook}]
  BY DEF IntInv, HookTypeOK
<1> PICK l \in {"write", "rejected", "raised"} :
      /\ ipc' = [ipc EXCEPT ![c] = l]
      /\ l = "write" => HookExists(h)
  BY DEF TestRead, DeleteRead, IGoto
<1>2. /\ hookOf' = [hookOf EXCEPT ![c] = h]
      /\ UNCHANGED <<hooks, hookEvents, hookAudit, cut>>
  BY DEF TestRead, DeleteRead, Names
<1>3. HookTypeOK'
  BY <1>1, <1>2 DEF IntInv, HookTypeOK, IPC, TestRead, DeleteRead
<1>4. l \in IPC \ {"idle"} /\ l # "audit"
  BY DEF IPC
<1>5. hookOf'[c] = h /\ \A e \in HookCalls : e # c => hookOf'[e] = hookOf[e]
  BY <1>1, <1>2, <1>t
<1> QED
  BY <1>1, <1>2, <1>3, <1>4, <1>5, OtherInv DEF HookExists

\* The write of test: the row, if it is still there, keeps its count.
LEMMA TestWriteInv ==
  ASSUME IntInv, UNCHANGED svcVars, NEW t \in Tests, TestWrite(t)
  PROVE  IntInv'
<1>1. t \in HookCalls \ Ingests
  BY HookAssumption DEF HookCalls
<1>t. hooks \in [Hooks -> HookRow] /\ hookOf[t] \in Hooks
  BY DEF IntInv, HookTypeOK, TestWrite
<1>2. /\ ipc' = [ipc EXCEPT ![t] = "ok"]
      /\ UNCHANGED <<hookEvents, hookAudit, hookOf, found, cut>>
  BY DEF TestWrite, IGoto
<1>3. PICK s \in HookStatus : hooks' = WithHookStatus(hookOf[t], s)
  BY DEF TestWrite, HookStatus
<1>4. \A h \in Hooks : /\ hooks'[h].count = hooks[h].count
                       /\ HookExists(h)' <=> HookExists(h)
  BY <1>3, <1>t DEF WithHookStatus, HookExists, HookRow, HookStatus, Absent
<1>5. hooks' \in [Hooks -> HookRow]
  BY <1>3, <1>t DEF WithHookStatus, HookRow
<1>6. HookTypeOK'
  BY <1>1, <1>2, <1>5 DEF IntInv, HookTypeOK, IPC
<1>7. "ok" \in IPC \ {"idle"}
  BY DEF IPC
<1> QED
  BY <1>1, <1>2, <1>4, <1>6, <1>7, OtherInv

\* DELETE, with the cascade to the events.
LEMMA DeleteWriteInv ==
  ASSUME IntInv, UNCHANGED svcVars, NEW d \in Deletes, DeleteWrite(d)
  PROVE  IntInv'
<1> DEFINE h == hookOf[d]
<1> USE DEF IntInv
<1>c. d \in HookCalls /\ d \notin Ingests /\ d \notin Tests /\ d \notin Hooks
  BY HookAssumption DEF HookCalls
<1>t. /\ ipc \in [HookCalls -> IPC] /\ hooks \in [Hooks -> HookRow] /\ h \in Hooks
      /\ hookEvents \in [Ingests -> EventStatus]
  BY DEF HookTypeOK, DeleteWrite
<1>1. /\ ipc' = [ipc EXCEPT ![d] = "audit"]
      /\ hooks' = [hooks EXCEPT ![h] = NoHookRow]
      /\ hookEvents' = [i \in Ingests |-> IF hookOf[i] = h THEN "none" ELSE hookEvents[i]]
      /\ UNCHANGED <<hookAudit, hookOf, found, cut>>
  BY DEF DeleteWrite, IGoto
<1>2. HookTypeOK'
  BY <1>1, <1>t DEF HookTypeOK, NoHookRow, HookRow, IPC, EventStatus
<1>3. \A c \in HookCalls : c # d => ipc'[c] = ipc[c]
  BY <1>1, <1>t
<1>4. /\ hooks'[h].status = Absent
      /\ \A k \in Hooks : k # h => hooks'[k] = hooks[k]
  BY <1>1, <1>t DEF NoHookRow
<1>5. \A k \in Hooks : ipc'[k] = "idle" => ~HookExists(k)'
  BY <1>3, <1>4, <1>c DEF HookExists, HookCalls
<1>6. ASSUME NEW i \in Ingests PROVE CreateCalled(i)' /\ EventOK(i)'
  <2>1. /\ ipc'[i] = ipc[i] /\ pc'[i] = pc[i] /\ hookOf'[i] = hookOf[i]
        /\ hookEvents'[i] = IF hookOf[i] = h THEN "none" ELSE hookEvents[i]
    BY <1>1, <1>3, <1>c, ServiceRests DEF HookCalls
  <2>2. CreateCalled(i)'
    BY <2>1 DEF CreateCalled
  <2>3. Named(i) => Named(i)'
    BY <2>1, <1>3, <1>c DEF Named, HookCalls
  <2>4. hookOf[i] = h => ~HookExists(hookOf[i])'
    BY <2>1, <1>4 DEF HookExists
  <2>5. hookOf[i] # h /\ hookOf[i] \in Hooks => (HookExists(hookOf[i])' <=> HookExists(hookOf[i]))
    BY <2>1, <1>4 DEF HookExists
  <2>6. ipc[i] \notin {"idle", "rejected"} => hookOf[i] \in Hooks
    BY DEF EventOK, Named
  <2> QED
    BY <2>1, <2>2, <2>3, <2>4, <2>5, <2>6 DEF EventOK
<1>7. IsFiniteSet(Events')
  <2>1. Events' \subseteq Events
    BY <1>1 DEF Events
  <2> QED
    BY <2>1, FS_Subset
<1>8. ASSUME NEW k \in Hooks, HookExists(k)'
      PROVE  hooks'[k].count = Cardinality(EventsCounted(k)')
  <2>1. k # h
    BY <1>4, <1>8 DEF HookExists
  <2>2. ASSUME NEW i \in Ingests
        PROVE  hookOf'[i] = k /\ hookEvents'[i] # "none" /\ ipc'[i] # "count"
               <=> hookOf[i] = k /\ hookEvents[i] # "none" /\ ipc[i] # "count"
    BY <2>1, <1>1, <1>3, <1>c DEF HookCalls
  <2>3. EventsCounted(k)' = EventsCounted(k)
    BY <2>2 DEF EventsCounted
  <2> QED
    BY <2>1, <2>3, <1>4, <1>8 DEF HookExists
<1>9. /\ \A t \in Tests : ipc'[t] # "audit" /\ (ipc'[t] = "write" => hookOf'[t] \in Hooks)
      /\ \A e \in Deletes : ipc'[e] = "write" => hookOf'[e] \in Hooks
  BY <1>1, <1>3, <1>c, <1>t DEF HookCalls
<1> QED
  BY <1>2, <1>5, <1>6, <1>7, <1>8, <1>9, ServiceRests

\* The first statement of ingest: a delivery is refused, fails, makes an event
\* only, or calls create.
LEMMA IngestReadInv ==
  ASSUME IntInv, NEW i \in Ingests, NEW h \in Hooks, NEW payload \in Payloads,
         IngestRead(i, h, payload)
  PROVE  IntInv'
<1> USE DEF IntInv
<1>c. /\ i \in HookCalls /\ i \in Creates /\ i \in Requests
      /\ i \notin Hooks /\ i \notin Tests /\ i \notin Deletes
  BY HookAssumption, RequestAssumption DEF HookCalls, Creates, Requests
<1>t. /\ ipc \in [HookCalls -> IPC] /\ hookOf \in [HookCalls -> Hooks \cup {NoHook}]
      /\ hooks \in [Hooks -> HookRow]
      /\ pc \in [Requests -> PC] /\ key \in [Creates -> AnyKey]
  BY DEF HookTypeOK, SvcInv, SvcTypeOK
<1>1. ipc[i] = "idle" /\ hookEvents[i] = "none" /\ pc[i] = "idle" /\ key[i] = NoKey
  BY DEF IngestRead, EventOK, CreateCalled, CreateTrace
<1>2. /\ ipc'[i] \in {"create", "event", "raised", "rejected"}
      /\ ipc' = [ipc EXCEPT ![i] = ipc'[i]]
      /\ hookOf' = [hookOf EXCEPT ![i] = h]
      /\ ipc'[i] # "rejected" => HookExists(h)
      /\ UNCHANGED <<hooks, hookEvents, hookAudit, found, cut>>
  BY <1>c, <1>t DEF IngestRead, Unticketed, IGoto, Names, HookExists, Absent
<1>3. \/ CreateStart(i, NoKey) /\ ipc'[i] = "create"
      \/ UNCHANGED svcVars /\ ipc'[i] \in {"event", "raised", "rejected"}
  BY <1>c, <1>t DEF IngestRead, Unticketed, IGoto, InboundKey
<1>4. [SvcNext]_svcVars
  BY <1>3, <1>c DEF SvcNext, Arrive, AnyKey
<1>5. SvcInv'
  BY <1>4, TypeStep, KeyUniqueStep, CreatePhaseStep, MovePhaseStep DEF SvcInv
<1>6. HookTypeOK'
  BY <1>c, <1>2 DEF HookTypeOK, IPC
<1>7. \A c \in HookCalls : c # i => ipc'[c] = ipc[c] /\ hookOf'[c] = hookOf[c]
  BY <1>2, <1>t
<1>8. \A r \in Creates : r # i => pc'[r] = pc[r] /\ key'[r] = key[r]
  BY <1>3, <1>t, <1>c, RequestAssumption DEF CreateStart, Goto, svcVars, Creates, Requests
<1>9. /\ key'[i] = NoKey
      /\ ipc'[i] = "create" => pc'[i] = "insert"
      /\ ipc'[i] # "create" => pc'[i] = "idle"
  BY <1>1, <1>3, <1>t, <1>c DEF CreateStart, Goto, svcVars
<1>10. NamedKept
  BY <1>2, <1>7, <1>c DEF NamedKept, HookExists, HookCalls
<1>11. ipc[h] # "idle" \/ ~HookExists(h)
  OBVIOUS
<1>12. ASSUME NEW j \in Ingests PROVE CreateTrace(j)' /\ CreateCalled(j)' /\ EventOK(j)'
  <2>c. j \in HookCalls /\ j \in Creates
    BY HookAssumption DEF HookCalls
  <2>1. CASE j # i
    <3>1. CreateTrace(j)'
      BY <2>1, <2>c, <1>4, <1>8, ServiceOnCreate
    <3>2. CreateCalled(j)' /\ EventOK(j)'
      BY <2>1, <2>c, <1>2, <1>7, <1>8, <1>10, EventKept
    <3> QED
      BY <3>1, <3>2
  <2>2. CASE j = i
    <3>1. pc'[i] \in {"idle", "insert"}
      BY <1>2, <1>9
    <3>2. CreateTrace(i)'
      <4>1. CASE UNCHANGED svcVars
        BY <4>1 DEF CreateTrace, svcVars, Exists
      <4>2. CASE ipc'[i] = "create"
        BY <4>2, <1>9 DEF CreateTrace
      <4> QED
        BY <1>3, <4>1, <4>2
    <3>3. CreateCalled(i)'
      BY <1>2, <1>9 DEF CreateCalled
    <3>4. hookOf'[i] = h
      BY <1>2, <1>t, <1>c
    <3>5. ipc'[i] # "rejected" => ipc'[h] # "idle"
      BY <1>2, <1>7, <1>11, <1>c DEF HookCalls
    <3>6. EventOK(i)'
      BY <1>1, <1>2, <1>9, <3>4, <3>5 DEF EventOK, Named
    <3> QED
      BY <2>2, <3>2, <3>3, <3>6
  <2> QED
    BY <2>1, <2>2
<1>13. Events' = Events /\ \A k \in Hooks : EventsCounted(k)' = EventsCounted(k)
  <2>1. \A j \in Ingests : hookEvents[j] # "none" =>
          hookOf'[j] = hookOf[j] /\ (ipc'[j] = "count" <=> ipc[j] = "count")
    BY <1>1, <1>7 DEF HookCalls
  <2> QED
    BY <1>2, <2>1, CountsKept
<1>14. \A k \in Hooks : ipc'[k] = "idle" => ~HookExists(k)'
  BY <1>2, <1>7, <1>c DEF HookExists, HookCalls
<1>15. /\ \A t \in Tests : ipc'[t] # "audit" /\ (ipc'[t] = "write" => hookOf'[t] \in Hooks)
       /\ \A d \in Deletes : ipc'[d] = "write" => hookOf'[d] \in Hooks
  BY <1>7, <1>c DEF HookCalls
<1> QED
  BY <1>2, <1>5, <1>6, <1>12, <1>13, <1>14, <1>15 DEF HookExists

\* The event, under its foreign key.
LEMMA IngestEventInv ==
  ASSUME IntInv, NEW i \in Ingests, IngestEvent(i), UNCHANGED svcVars
  PROVE  IntInv'
<1> USE DEF IntInv
<1>c. i \in HookCalls /\ i \notin Hooks /\ i \notin Tests /\ i \notin Deletes
  BY HookAssumption DEF HookCalls
<1>t. ipc \in [HookCalls -> IPC] /\ hookEvents \in [Ingests -> EventStatus]
  BY DEF HookTypeOK
<1>1. \/ ipc[i] = "event" /\ pc[i] = "idle"
      \/ ipc[i] = "create" /\ pc[i] = "ok"
  BY DEF IngestEvent, TicketMade, CreateCalled
<1>2. hookEvents[i] = "none" /\ Named(i)
  BY <1>1 DEF EventOK
<1>3. /\ ipc' = [ipc EXCEPT ![i] = IF HookExists(hookOf[i]) THEN "count" ELSE "raised"]
      /\ HookExists(hookOf[i]) =>
           hookEvents' = [hookEvents EXCEPT ![i] = IF pc[i] = "idle" THEN "ignored" ELSE "ok"]
      /\ ~HookExists(hookOf[i]) => hookEvents' = hookEvents
      /\ UNCHANGED <<hooks, hookAudit, hookOf, found, cut>>
  BY <1>1 DEF IngestEvent, IGoto, AfterEvent
<1>4. HookTypeOK'
  BY <1>3, <1>t DEF HookTypeOK, IPC, EventStatus
<1>5. \A c \in HookCalls : c # i => ipc'[c] = ipc[c]
  BY <1>3, <1>t
<1>6. \A j \in Ingests : j # i => hookEvents'[j] = hookEvents[j]
  BY <1>3, <1>t
<1>7. /\ HookExists(hookOf[i]) =>
           ipc'[i] = "count" /\ hookEvents'[i] = IF pc[i] = "idle" THEN "ignored" ELSE "ok"
      /\ ~HookExists(hookOf[i]) => ipc'[i] = "raised" /\ hookEvents'[i] = "none"
  BY <1>2, <1>3, <1>t, <1>c
<1>8. NamedKept
  BY <1>3, <1>5, <1>c DEF NamedKept, HookExists, HookCalls
<1>9. ASSUME NEW j \in Ingests PROVE CreateCalled(j)' /\ EventOK(j)'
  <2>1. CASE j # i
    BY <2>1, <1>3, <1>5, <1>6, <1>8, EventKept, ServiceRests DEF HookCalls
  <2>2. CASE j = i
    <3>1. pc' = pc
      BY ServiceRests
    <3>2. Named(i)'
      BY <1>2, <1>3, <1>5, <1>c DEF Named, HookCalls
    <3>3. CreateCalled(i)'
      BY <3>1, <1>1, <1>7 DEF CreateCalled
    <3>4. EventOK(i)'
      BY <3>1, <3>2, <1>3, <1>7 DEF EventOK, HookExists
    <3> QED
      BY <2>2, <3>3, <3>4
  <2> QED
    BY <2>1, <2>2
<1>10. IsFiniteSet(Events')
  <2>1. Events' \subseteq Events \cup {i}
    BY <1>6 DEF Events
  <2>2. IsFiniteSet(Events \cup {i})
    BY FS_AddElement
  <2> QED
    BY <2>1, <2>2, FS_Subset
<1>11. ASSUME NEW k \in Hooks PROVE EventsCounted(k)' = EventsCounted(k)
  <2>1. ASSUME NEW j \in Ingests
        PROVE  hookOf'[j] = k /\ hookEvents'[j] # "none" /\ ipc'[j] # "count"
               <=> hookOf[j] = k /\ hookEvents[j] # "none" /\ ipc[j] # "count"
    BY <1>2, <1>3, <1>5, <1>6, <1>7 DEF HookCalls
  <2> QED
    BY <2>1 DEF EventsCounted
<1>12. \A k \in Hooks : ipc'[k] = "idle" => ~HookExists(k)'
  BY <1>3, <1>5, <1>c DEF HookExists, HookCalls
<1>13. /\ \A t \in Tests : ipc'[t] # "audit" /\ (ipc'[t] = "write" => hookOf'[t] \in Hooks)
       /\ \A d \in Deletes : ipc'[d] = "write" => hookOf'[d] \in Hooks
  BY <1>3, <1>5, <1>c DEF HookCalls
<1> QED
  BY <1>3, <1>4, <1>9, <1>10, <1>11, <1>12, <1>13, ServiceRests DEF HookExists

\* The count: one more event is counted, its own.
LEMMA IngestCountInv ==
  ASSUME IntInv, NEW i \in Ingests, IngestCount(i), UNCHANGED svcVars
  PROVE  IntInv'
<1> DEFINE h == hookOf[i]
           next == IF pc[i] = "idle" THEN "ok" ELSE "sync"
<1> USE DEF IntInv
<1>c. i \in HookCalls /\ i \notin Hooks /\ i \notin Tests /\ i \notin Deletes
  BY HookAssumption DEF HookCalls
<1>t. /\ ipc \in [HookCalls -> IPC] /\ hooks \in [Hooks -> HookRow]
      /\ hookEvents \in [Ingests -> EventStatus]
  BY DEF HookTypeOK
<1>1. /\ ipc[i] = "count"
      /\ ipc' = [ipc EXCEPT ![i] = next]
      /\ hooks' = Counted(h)
      /\ UNCHANGED <<hookEvents, hookAudit, hookOf, found, cut>>
  BY DEF IngestCount, IGoto
<1>2. Named(i) /\ h \in Hooks
  BY <1>1 DEF EventOK, Named
<1>3. HookExists(h) => hookEvents[i] # "none"
  BY <1>1 DEF EventOK
<1>4. /\ HookExists(h) =>
           hooks'[h].count = hooks[h].count + 1 /\ hooks'[h].status = hooks[h].status
      /\ ~HookExists(h) => hooks'[h] = hooks[h]
      /\ \A k \in Hooks : k # h => hooks'[k] = hooks[k]
      /\ hooks' \in [Hooks -> HookRow]
  BY <1>1, <1>2, <1>t DEF Counted, HookRow
<1>5. HookTypeOK'
  BY <1>1, <1>4 DEF HookTypeOK, IPC
<1>6. ipc'[i] = next /\ \A c \in HookCalls : c # i => ipc'[c] = ipc[c]
  BY <1>1, <1>t, <1>c
<1>7. \A k \in Hooks : HookExists(k)' <=> HookExists(k)
  BY <1>4 DEF HookExists
<1>8. NamedKept
  BY <1>6, <1>7, <1>c DEF NamedKept, HookCalls
<1>9. ASSUME NEW j \in Ingests PROVE CreateCalled(j)' /\ EventOK(j)'
  <2>1. CASE j # i
    BY <2>1, <1>1, <1>6, <1>8, EventKept, ServiceRests DEF HookCalls
  <2>2. CASE j = i
    <3>1. pc' = pc /\ hookEvents' = hookEvents /\ hookOf' = hookOf
      BY <1>1, ServiceRests
    <3>2. Named(i)' /\ (HookExists(h) <=> HookExists(hookOf[i])')
      BY <1>2, <1>6, <1>7, <1>c, <3>1 DEF Named, HookCalls
    <3>3. CreateCalled(i)'
      BY <3>1, <1>1, <1>6 DEF CreateCalled
    <3>4. EventOK(i)'
      BY <3>1, <3>2, <1>1, <1>6 DEF EventOK
    <3> QED
      BY <2>2, <3>3, <3>4
  <2> QED
    BY <2>1, <2>2
<1>10. Events' = Events
  BY <1>1 DEF Events
<1>11. ASSUME NEW k \in Hooks, k # h
       PROVE  EventsCounted(k)' = EventsCounted(k)
  <2>1. ASSUME NEW j \in Ingests
        PROVE  hookOf'[j] = k /\ hookEvents'[j] # "none" /\ ipc'[j] # "count"
               <=> hookOf[j] = k /\ hookEvents[j] # "none" /\ ipc[j] # "count"
    BY <1>1, <1>6, <1>11 DEF HookCalls
  <2> QED
    BY <2>1 DEF EventsCounted
<1>12. ASSUME NEW k \in Hooks, k = h, HookExists(k)
       PROVE  hooks'[k].count = Cardinality(EventsCounted(k)')
  <2> DEFINE C == {j \in Ingests : hookOf[j] = k /\ hookEvents[j] # "none" /\ ipc[j] # "count"}
             D == {j \in Ingests : hookOf[j] = k /\ hookEvents[j] # "none" /\ ipc'[j] # "count"}
  <2>1. C = EventsCounted(k) /\ D = EventsCounted(k)'
    BY <1>1 DEF EventsCounted
  <2>2. D = C \cup {i} /\ i \notin C
    BY <1>1, <1>3, <1>6, <1>12 DEF HookCalls
  <2>3. IsFiniteSet(C)
    <3>1. C \subseteq Events
      BY DEF Events
    <3> QED
      BY <3>1, FS_Subset
  <2> HIDE DEF C, D
  <2>4. Cardinality(D) = Cardinality(C) + 1
    BY <2>2, <2>3, FS_AddElement
  <2>5. hooks'[k].count = hooks[k].count + 1 /\ hooks[k].count = Cardinality(C)
    BY <2>1, <1>4, <1>12
  <2> QED
    BY <2>1, <2>4, <2>5
<1>13. ASSUME NEW k \in Hooks, HookExists(k)'
       PROVE  hooks'[k].count = Cardinality(EventsCounted(k)')
  <2>1. CASE k = h
    BY <2>1, <1>7, <1>12, <1>13
  <2>2. CASE k # h
    BY <2>2, <1>4, <1>7, <1>11, <1>13
  <2> QED
    BY <2>1, <2>2
<1>14. \A k \in Hooks : ipc'[k] = "idle" => ~HookExists(k)'
  BY <1>6, <1>7, <1>c DEF HookCalls
<1>15. /\ \A t \in Tests : ipc'[t] # "audit" /\ (ipc'[t] = "write" => hookOf'[t] \in Hooks)
       /\ \A d \in Deletes : ipc'[d] = "write" => hookOf'[d] \in Hooks
  BY <1>1, <1>6, <1>c DEF HookCalls
<1> QED
  BY <1>5, <1>9, <1>10, <1>13, <1>14, <1>15, ServiceRests

\* The last statement of a delivery, and a stop anywhere, change no count.
LEMMA SyncInv ==
  ASSUME IntInv, UNCHANGED svcVars, NEW c \in HookCalls,
         (c \in Ingests /\ IngestSync(c)) \/ HookStop(c)
  PROVE  IntInv'
<1> USE DEF IntInv
<1>t. /\ ipc \in [HookCalls -> IPC] /\ hooks \in [Hooks -> HookRow]
  BY DEF HookTypeOK
<1>1. /\ \/ c \in Ingests /\ ipc[c] = "sync" /\ ipc' = [ipc EXCEPT ![c] = "ok"]
         \/ ipc' = ipc
      /\ UNCHANGED <<hookEvents, hookAudit, hookOf, found>>
  BY DEF IngestSync, HookStop, IGoto
<1>2. /\ hooks' \in [Hooks -> HookRow]
      /\ \A h \in Hooks : hooks'[h].status = hooks[h].status /\ hooks'[h].count = hooks[h].count
  <2>1. CASE hooks' = hooks
    BY <2>1, <1>t
  <2>2. CASE c \in Ingests /\ IngestSync(c)
    <3>1. hookOf[c] \in Hooks /\ hooks' = Synced(hookOf[c])
      BY <2>2 DEF IngestSync, EventOK, Named
    <3> QED
      BY <3>1, <1>t DEF Synced, HookRow
  <2> QED
    BY <2>1, <2>2 DEF HookStop
<1>3. HookTypeOK'
  BY <1>1, <1>2 DEF HookTypeOK, IPC, IngestSync, HookStop
<1>4. \A h \in Hooks : HookExists(h)' <=> HookExists(h)
  BY <1>2 DEF HookExists
<1>5. \A e \in HookCalls :
        ipc'[e] = ipc[e] \/ (e \in Ingests /\ ipc[e] = "sync" /\ ipc'[e] = "ok")
  BY <1>1, <1>t
<1>6. ASSUME NEW i \in Ingests PROVE CreateCalled(i)' /\ EventOK(i)'
  <2>1. NamedKept
    BY <1>4, <1>5, HookAssumption DEF NamedKept, HookCalls
  <2>2. CASE ipc'[i] = ipc[i]
    BY <2>1, <2>2, <1>1, EventKept, ServiceRests
  <2>3. CASE ipc[i] = "sync" /\ ipc'[i] = "ok"
    <3>1. pc' = pc /\ hookEvents' = hookEvents /\ hookOf' = hookOf
      BY <1>1, ServiceRests
    <3>2. Named(i) /\ Named(i)'
      BY <2>1, <2>3, <3>1 DEF EventOK, Named, NamedKept
    <3>3. HookExists(hookOf[i])' <=> HookExists(hookOf[i])
      BY <1>4, <3>1, <3>2 DEF Named
    <3>4. CreateCalled(i)'
      BY <2>3, <3>1 DEF CreateCalled
    <3> QED
      BY <2>3, <3>1, <3>2, <3>3, <3>4 DEF EventOK
  <2> QED
    BY <2>2, <2>3, <1>5 DEF HookCalls
<1>7. Events' = Events /\ \A k \in Hooks : EventsCounted(k)' = EventsCounted(k)
  <2>1. \A j \in Ingests : ipc'[j] = "count" <=> ipc[j] = "count"
    BY <1>5 DEF HookCalls
  <2> QED
    BY <2>1, <1>1, CountsKept
<1>8. \A k \in Hooks : ipc'[k] = "idle" => ~HookExists(k)'
  BY <1>4, <1>5, HookAssumption DEF HookCalls
<1>9. /\ \A t \in Tests : ipc'[t] # "audit" /\ (ipc'[t] = "write" => hookOf'[t] \in Hooks)
      /\ \A d \in Deletes : ipc'[d] = "write" => hookOf'[d] \in Hooks
  BY <1>1, <1>5 DEF HookCalls
<1> QED
  BY <1>2, <1>3, <1>4, <1>6, <1>7, <1>8, <1>9, ServiceRests

-----------------------------------------------------------------------------
(* Integrations: the theorems *)

\* Every step keeps the invariant.
LEMMA IntInvStep == IntInv /\ [IntNext]_<<svcVars, hvars>> => IntInv'
<1> SUFFICES ASSUME IntInv, [IntNext]_<<svcVars, hvars>> PROVE IntInv'
    OBVIOUS
<1>1. CASE TicketNext
  BY <1>1, TicketStepInv
<1>2. ASSUME NEW c \in HookCalls, HookStep(c), UNCHANGED svcVars
      PROVE  IntInv'
  BY <1>2, InsertInv, AnswerInv, TestWriteInv, DeleteWriteInv, IngestEventInv,
     IngestCountInv, SyncInv DEF HookStep
<1>3. CASE HookNext
  BY <1>2, <1>3, ReadInv, IngestReadInv DEF HookNext
<1>4. CASE UNCHANGED <<svcVars, hvars>>
  <2>1. UNCHANGED svcVars /\ UNCHANGED hvars
    BY <1>4
  <2>2. /\ \A i \in Ingests : CreateCalled(i)' /\ EventOK(i)'
        /\ Events' = Events /\ \A k \in Hooks : EventsCounted(k)' = EventsCounted(k)
    BY <2>1, ServiceRests
    DEF IntInv, hvars, CreateCalled, EventOK, Named, HookExists, Events, EventsCounted
  <2> QED
    BY <2>1, <2>2, ServiceRests DEF IntInv, hvars, HookTypeOK, HookExists
<1> QED
  BY <1>1, <1>3, <1>4 DEF IntNext

\* IntInv is inductive.
THEOREM IntInvariance == IntSpec => []IntInv
BY IntInvInit, IntInvStep, PTL DEF IntSpec

\* The tables, and where the calls are, have their types.
THEOREM HookTypeCorrect == IntSpec => []HookTypeOK
<1>1. IntInv => HookTypeOK
  BY DEF IntInv
<1> QED
  BY IntInvariance, <1>1, PTL

\* event_count is the number of events that were counted, with any number of
\* deliveries, tests and deletes at once.
THEOREM CountIsOfEvents == IntSpec => []EventCountKept
<1>1. IntInv => EventCountKept
  BY DEF IntInv, EventCountKept, EventsCounted
<1> QED
  BY IntInvariance, <1>1, PTL

\* A delivery answered with a ticket has left all its traces.
THEOREM DeliveryTraced == IntSpec => []IngestTraced
<1>1. IntInv => IngestTraced
  BY DEF IntInv, IngestTraced, CreateTrace, CreateCalled, EventOK
<1> QED
  BY IntInvariance, <1>1, PTL

\* A delivery that fails has left a whole ticket, its integration being gone, or
\* nothing.
THEOREM DeliveryFailsWhole == IntSpec => []IngestFailsWhole
<1>1. ASSUME IntInv, NEW i \in Ingests
      PROVE  /\ pc[i] # "raised"
             /\ ipc[i] = "raised" /\ pc[i] # "idle" =>
                  /\ ~HookExists(hookOf[i])
                  /\ Exists(i) /\ jobLog[i].status # Absent /\ i \in audit
             /\ ipc[i] = "raised" /\ HookExists(hookOf[i]) =>
                  /\ ~Exists(i) /\ jobLog[i].status = Absent
                  /\ i \notin audit /\ hookEvents[i] = "none"
  BY <1>1, HookAssumption
  DEF IntInv, CreateTrace, CreateCalled, EventOK, SvcInv, CreatePhase, CreateOK
<1>2. IntInv => IngestFailsWhole
  BY <1>1 DEF IngestFailsWhole
<1> QED
  BY IntInvariance, <1>2, PTL

\* Only the insert of a fresh integration makes a row: a test or a count that
\* comes after the delete changes nothing.
LEMMA OnlyInsertMakes ==
  ASSUME IntInv, [IntNext]_<<svcVars, hvars>>, NEW h \in Hooks,
         ipc[h] # "idle", ~HookExists(h)
  PROVE  ~HookExists(h)'
<1>t. hooks \in [Hooks -> HookRow]
  BY DEF IntInv, HookTypeOK
<1>1. CASE hooks' = hooks
  BY <1>1 DEF HookExists
<1>2. ASSUME NEW k \in Hooks, HookInsert(k)
      PROVE  ~HookExists(h)'
  BY <1>2, <1>t DEF HookInsert, HookExists
<1>3. ASSUME NEW t \in Tests, TestWrite(t)
      PROVE  ~HookExists(h)'
  BY <1>3, <1>t DEF IntInv, TestWrite, WithHookStatus, HookExists
<1>4. ASSUME NEW d \in Deletes, DeleteWrite(d)
      PROVE  ~HookExists(h)'
  BY <1>4, <1>t DEF DeleteWrite, NoHookRow, HookExists
<1>5. ASSUME NEW i \in Ingests, IngestCount(i) \/ IngestSync(i)
      PROVE  ~HookExists(h)'
  BY <1>5, <1>t DEF IngestCount, IngestSync, Counted, Synced, HookExists
<1> QED
  BY <1>1, <1>2, <1>3, <1>4, <1>5
  DEF IntNext, HookNext, HookStep, TicketNext, hvars, HookAuditRow, HookReply, HookStop,
      TestRead, DeleteRead, IngestRead, IngestEvent

\* A deleted integration stays deleted.
THEOREM DeletedForGood == IntSpec => DeletedStaysDeleted
<1>1. ASSUME IntInv, [IntNext]_<<svcVars, hvars>>
      PROVE  [\A h \in Hooks : ipc[h] # "idle" /\ ~HookExists(h) => ~HookExists(h)']_hooks
  BY <1>1, OnlyInsertMakes
<1> QED
  BY IntInvariance, <1>1, PTL DEF IntSpec, DeletedStaysDeleted

\* What the ticket service promises its clients it keeps when the deliveries of
\* webhooks make tickets next to them.
THEOREM DeliveriesKeepAgreement == IntSpec => [](RepliesAgree /\ KeyedCreateAnswered)
<1>1. IntInv => RepliesAgree /\ KeyedCreateAnswered
  BY KeyAssumption
  DEF IntInv, SvcInv, CreatePhase, CreateOK, KeyUnique, RepliesAgree, KeyedCreateAnswered,
      RealKeys
<1> QED
  BY IntInvariance, <1>1, PTL

-----------------------------------------------------------------------------
(* Insights: the inductive invariant *)

\* The columns of a row agree with its status, except for what a PATCH or a bulk
\* close ended and what was reopened.
ColumnsOK(t) ==
  /\ created[t] = Never <=> ~Exists(t)
  /\ created[t] <= now \/ created[t] = Never
  /\ resolved[t] <= now \/ resolved[t] = Never
  /\ tickets[t].resolvedAt => Exists(t)
  /\ tickets[t].resolvedAt /\ tickets[t].status \notin {"resolved", "closed"} => Reopened(t)
  /\ ~tickets[t].resolvedAt /\ tickets[t].status \in {"resolved", "closed"} => EndedUnstamped(t)

InsInv ==
  /\ LedgerInv /\ InsTypeOK
  /\ \A t \in Tickets : ColumnsOK(t)
  /\ BacklogAccounted

\* No ticket, no hour.
LEMMA InsInvInit == InsInit => InsInv
<1> SUFFICES ASSUME InsInit PROVE InsInv
    OBVIOUS
<1>1. LedgerInv
  BY LedgerInvInit DEF InsInit
<1>2. /\ now = 0 /\ \A t \in Tickets : created[t] = Never /\ resolved[t] = Never
      /\ \A t \in Tickets : ~Exists(t) /\ ~tickets[t].resolvedAt
      /\ \A t \in Tickets : tickets[t].status = "absent"
  BY DEF InsInit, LedgerInit, Init, SvcInit, StoreInit, NoRow, Exists, Absent
<1>3. InsTypeOK
  BY <1>2, TimeAssumption DEF InsInit, InsTypeOK, Never
<1>4. \A t \in Tickets : ColumnsOK(t)
  BY <1>2 DEF ColumnsOK
<1>5. BacklogAccounted
  BY <1>2 DEF BacklogAccounted
<1> QED
  BY <1>1, <1>3, <1>4, <1>5 DEF InsInv

-----------------------------------------------------------------------------
(* Insights: what a step of the service does to a row *)

\* A resolve that commits is what stamps its ticket.
LEMMA StampIsCommit ==
  ASSUME SvcInv, [SvcNext]_svcVars, NEW r \in Resolves, pc[r] = "txn", pc'[r] = "reply"
  PROVE  ResolveCommit(r)
<1> SUFFICES ASSUME ~ResolveCommit(r) PROVE FALSE
    OBVIOUS
<1>t. pc \in [Requests -> PC]
  BY DEF SvcInv, SvcTypeOK
<1>r. r \in Requests /\ r \in Moves /\ r \notin Jobs /\ r \notin Updates /\ r \notin BulkCloses
  BY RequestAssumption DEF Requests, Moves
<1>1. ASSUME NEW c \in Jobs,
             \/ \E k \in AnyKey : CreateHit(c, k) \/ CreateStart(c, k)
             \/ CreateStep(c)
             \/ \E t \in Tickets : RetryRead(c, t)
             \/ Enqueue(c) \/ LogEnqueued(c)
      PROVE  FALSE
  BY <1>1, <1>t, <1>r DEF CreateHit, CreateStart, CreateStep, CreateInsert, CreateConflict,
     CreateConflictHit, RetryRead, Enqueue, LogEnqueued, Goto
<1>2. ASSUME NEW q \in Updates,
             \/ \E t \in Tickets, s \in Status : UpdateRead(q, t, s)
             \/ \E t \in Tickets, empty \in BOOLEAN : UpdateReadFields(q, t, empty)
      PROVE  FALSE
  BY <1>2, <1>t, <1>r DEF UpdateRead, UpdateReadFields, Goto
<1>3. ASSUME NEW q \in Resolves, NEW t \in Tickets, ResolveRead(q, t)
      PROVE  FALSE
  BY <1>3, <1>t, <1>r DEF ResolveRead, Goto
<1>4. ASSUME NEW q \in Moves, MoveStep(q)
      PROVE  FALSE
  BY <1>4, <1>t, <1>r DEF MoveStep, UpdateCommit, ResolveCommit, CasFails, Goto
<1>5. ASSUME NEW b \in BulkCloses, NEW ids \in SUBSET Tickets, BulkClose(b, ids)
      PROVE  FALSE
  BY <1>5, <1>t, <1>r DEF BulkClose, Goto
<1>6. ASSUME NEW q \in Requests, Audit(q) \/ Reply(q) \/ Stop(q)
      PROVE  FALSE
  BY <1>6, <1>t, <1>r DEF Audit, Reply, Stop, Goto
<1>7. CASE UNCHANGED svcVars
  BY <1>7 DEF svcVars
<1> QED
  BY <1>1, <1>2, <1>3, <1>4, <1>5, <1>6, <1>7, RequestAssumption
  DEF SvcNext, Arrive, HandlerStep, Creates, Retries

\* What happens to a row: it is made, moved by a PATCH, resolved, or closed by a
\* bulk call; resolved_at is set by a resolve alone.
LEMMA RowHistory ==
  ASSUME SvcInv, [SvcNext]_svcVars, NEW t \in Tickets
  PROVE  \/ tickets'[t] = tickets[t] /\ ~ResolvedNow(t)
         \/ /\ ~Exists(t) /\ ~ResolvedNow(t)
            /\ tickets'[t].status = "open" /\ ~tickets'[t].resolvedAt
         \/ \E r \in Updates :
              /\ UpdateCommit(r) /\ target[r] = t /\ to[r] # Absent /\ ~ResolvedNow(t)
              /\ tickets'[t].resolvedAt = tickets[t].resolvedAt
         \/ \E r \in Resolves :
              /\ ResolveCommit(r) /\ target[r] = t /\ ResolvedNow(t)
              /\ tickets'[t].resolvedAt /\ tickets'[t].status = "resolved"
         \/ /\ \E b \in BulkCloses : t \in closed'[b]
            /\ Exists(t) /\ tickets[t].status \notin {"resolved", "closed"}
            /\ tickets'[t].status = "closed" /\ ~ResolvedNow(t)
            /\ tickets'[t].resolvedAt = tickets[t].resolvedAt
<1> DEFINE Goal ==
      \/ tickets'[t] = tickets[t] /\ ~ResolvedNow(t)
      \/ /\ ~Exists(t) /\ ~ResolvedNow(t)
         /\ tickets'[t].status = "open" /\ ~tickets'[t].resolvedAt
      \/ \E r \in Updates :
           /\ UpdateCommit(r) /\ target[r] = t /\ to[r] # Absent /\ ~ResolvedNow(t)
           /\ tickets'[t].resolvedAt = tickets[t].resolvedAt
      \/ \E r \in Resolves :
           /\ ResolveCommit(r) /\ target[r] = t /\ ResolvedNow(t)
           /\ tickets'[t].resolvedAt /\ tickets'[t].status = "resolved"
      \/ /\ \E b \in BulkCloses : t \in closed'[b]
         /\ Exists(t) /\ tickets[t].status \notin {"resolved", "closed"}
         /\ tickets'[t].status = "closed" /\ ~ResolvedNow(t)
         /\ tickets'[t].resolvedAt = tickets[t].resolvedAt
<1> SUFFICES Goal
    OBVIOUS
<1>t. /\ tickets \in [Tickets -> Row] /\ pc \in [Requests -> PC]
      /\ closed \in [BulkCloses -> SUBSET Tickets]
  BY DEF SvcInv, SvcTypeOK
<1>d. /\ Resolves \subseteq Requests /\ Resolves \cap Updates = {}
      /\ Resolves \cap Jobs = {} /\ Resolves \cap BulkCloses = {}
      /\ Creates \subseteq Jobs /\ Updates \subseteq Moves /\ Resolves \subseteq Moves
  BY RequestAssumption DEF Requests, Moves, Creates
<1>s. ResolvedNow(t) => \E r \in Resolves : ResolveCommit(r) /\ target[r] = t
  BY StampIsCommit DEF ResolvedNow
<1>1. ASSUME NEW r \in Resolves, ResolveCommit(r)
      PROVE  Goal
  <2>1. /\ pc[r] = "txn" /\ pc'[r] = "reply" /\ target[r] \in Tickets
        /\ tickets' = [WithStatus(target[r], "resolved") EXCEPT ![target[r]].resolvedAt = TRUE]
    BY <1>1, <1>t, <1>d DEF ResolveCommit, Goto, SvcInv, MovePhase, MoveOK
  <2>2. CASE target[r] = t
    <3>1. tickets'[t].resolvedAt /\ tickets'[t].status = "resolved"
      BY <1>t, <2>1, <2>2 DEF WithStatus, Row
    <3> QED
      BY <1>1, <2>1, <2>2, <3>1 DEF ResolvedNow
  <2>3. CASE target[r] # t
    <3>1. tickets'[t] = tickets[t]
      BY <1>t, <2>1, <2>3 DEF WithStatus
    <3>2. \A q \in Resolves : ResolveCommit(q) => q = r
      BY <1>1, <1>t, <1>d DEF ResolveCommit, Goto
    <3> QED
      BY <1>s, <2>3, <3>1, <3>2
  <2> QED
    BY <2>2, <2>3
<1>2. ASSUME ~ \E r \in Resolves : ResolveCommit(r)
      PROVE  Goal
  <2>1. ~ResolvedNow(t)
    BY <1>2, <1>s
  <2>2. CASE tickets' = tickets
    BY <2>1, <2>2
  <2>3. ASSUME NEW c \in Creates, CreateInsert(c)
        PROVE  Goal
    <3>1. ~Exists(c)
      BY <2>3 DEF SvcInv, CreateInsert, CreatePhase, CreateOK
    <3>2. CASE c = t
      BY <1>t, <2>1, <2>3, <3>1, <3>2 DEF CreateInsert, Inserted
    <3>3. CASE c # t
      BY <1>t, <2>1, <2>3, <3>3 DEF CreateInsert, Inserted, Creates
    <3> QED
      BY <3>2, <3>3
  <2>4. ASSUME NEW r \in Updates, UpdateCommit(r)
        PROVE  Goal
    <3>1. CASE to[r] = Absent
      BY <2>2, <2>4, <3>1 DEF UpdateCommit
    <3>2. CASE to[r] # Absent /\ target[r] = t
      BY <1>t, <2>1, <2>4, <3>2 DEF UpdateCommit, WithStatus, Row
    <3>3. CASE to[r] # Absent /\ target[r] # t
      BY <1>t, <2>1, <2>4, <3>3 DEF UpdateCommit, WithStatus
    <3> QED
      BY <3>1, <3>2, <3>3
  <2>5. ASSUME NEW b \in BulkCloses, NEW ids \in SUBSET Tickets, BulkClose(b, ids)
        PROVE  Goal
    <3>1. /\ closed'[b] = BulkClosable(ids)
          /\ tickets'[t] = IF t \in BulkClosable(ids)
                             THEN [tickets[t] EXCEPT !.status = "closed"] ELSE tickets[t]
      BY <1>t, <2>5 DEF BulkClose, BulkClosed
    <3>2. CASE t \in BulkClosable(ids)
      BY <1>t, <2>1, <3>1, <3>2 DEF BulkClosable, Row
    <3>3. CASE t \notin BulkClosable(ids)
      BY <2>1, <3>1, <3>3
    <3> QED
      BY <3>2, <3>3
  <2>6. \/ tickets' = tickets
        \/ \E c \in Creates : CreateInsert(c)
        \/ \E r \in Moves : UpdateCommit(r) \/ ResolveCommit(r)
        \/ \E b \in BulkCloses, ids \in SUBSET Tickets : BulkClose(b, ids)
    BY DEF SvcNext, Arrive, HandlerStep, CreateStep, MoveStep, svcVars, CreateHit,
       CreateStart, CreateConflict, CreateConflictHit, Enqueue, LogEnqueued, Audit,
       Reply, UpdateRead, UpdateReadFields, CasFails, ResolveRead, RetryRead, Stop
  <2>7. ASSUME NEW r \in Moves, UpdateCommit(r) \/ ResolveCommit(r)
        PROVE  r \in Updates /\ UpdateCommit(r)
    BY <1>2, <2>7 DEF UpdateCommit, ResolveCommit
  <2> QED
    BY <2>2, <2>3, <2>4, <2>5, <2>6, <2>7
<1> QED
  BY <1>1, <1>2

\* How often a status was written over never goes down.
LEMMA Overwriting ==
  ASSUME LedgerInv, LedgerNext, NEW t \in Tickets, NEW s \in EndStatus
  PROVE  /\ overwritten[t][s] > 0 => overwritten'[t][s] > 0
         /\ Overwrites(t, s) => overwritten'[t][s] > 0
<1>1. overwritten[t][s] \in Nat
  BY DEF LedgerInv
<1>2. overwritten'[t][s] = overwritten[t][s] + (IF Overwrites(t, s) THEN 1 ELSE 0)
  BY DEF LedgerNext
<1> QED
  BY <1>1, <1>2

\* What was committed, counted by a bulk close, or written over by a job is not
\* forgotten.
LEMMA HistoryKept ==
  ASSUME LedgerInv, LedgerNext, NEW t \in Tickets
  PROVE  /\ \A from, s : Patched(t, from, s) => Patched(t, from, s)'
         /\ EndedUnstamped(t) => EndedUnstamped(t)'
         /\ Reopened(t) => Reopened(t)'
<1>w. CASE WorkerNext /\ UNCHANGED locals
  <2>1. audit' = audit /\ UNCHANGED <<target, seen, to, closed>>
    BY <1>w, WorkerAudits DEF locals
  <2> QED
    BY <2>1, Overwriting DEF EndedUnstamped, Reopened, Patched
<1>s. CASE SvcNext
  <2>1. ASSUME NEW from, NEW s, Patched(t, from, s)
        PROVE  Patched(t, from, s)'
    <3>1. PICK r \in audit \cap Updates : target[r] = t /\ seen[r] \in from /\ to[r] \in s
      BY <2>1 DEF Patched
    <3>2. r \in audit' /\ target'[r] = t /\ seen'[r] = seen[r] /\ to'[r] = to[r]
      BY <1>s, <3>1, AuditStep DEF LedgerInv, AutoInv, Moves
    <3> QED
      BY <3>1, <3>2 DEF Patched
  <2>2. ASSUME NEW b \in BulkCloses, t \in closed[b]
        PROVE  t \in closed'[b]
    <3>1. pc[b] # "idle"
      BY <2>2 DEF LedgerInv, AuditedEnded
    <3>2. closed \in [BulkCloses -> SUBSET Tickets]
      BY DEF LedgerInv, AutoInv, SvcInv, SvcTypeOK
    <3>3. closed' = closed
          \/ \E a \in BulkCloses, ids \in SUBSET Tickets : BulkClose(a, ids)
      BY <1>s DEF SvcNext, Arrive, HandlerStep, CreateStep, MoveStep, CreateHit,
         CreateStart, CreateInsert, CreateConflict, CreateConflictHit, Enqueue,
         LogEnqueued, Audit, Reply, UpdateRead, UpdateReadFields, UpdateCommit,
         ResolveRead, ResolveCommit, CasFails, RetryRead, Stop
    <3>4. ASSUME NEW a \in BulkCloses, NEW ids \in SUBSET Tickets, BulkClose(a, ids)
          PROVE  closed'[b] = closed[b]
      BY <3>1, <3>2, <3>4 DEF BulkClose
    <3> QED
      BY <2>2, <3>3, <3>4
  <2>3. EndedUnstamped(t) => EndedUnstamped(t)'
    BY <2>1, <2>2 DEF EndedUnstamped
  <2>4. Reopened(t) => Reopened(t)'
    BY <2>1, Overwriting DEF Reopened
  <2> QED
    BY <2>1, <2>3, <2>4
<1> QED
  BY <1>w, <1>s DEF LedgerNext, Next

-----------------------------------------------------------------------------
(* Insights: the steps *)

\* A row's columns go on agreeing with its status, whatever a request does.
LEMMA ColumnsServed ==
  ASSUME InsInv, Serve, SvcNext, NEW t \in Tickets
  PROVE  /\ ColumnsOK(t)'
         /\ tickets'[t].resolvedAt <=> resolved'[t] # Never
         /\ resolved'[t] # resolved[t] =>
              resolved'[t] = now /\ (resolved[t] = Never \/ Reopened(t)')
         /\ created'[t] # created[t] => created[t] = Never /\ created'[t] = now
<1> USE DEF InsInv
<1> DEFINE Goal == /\ ColumnsOK(t)'
                   /\ tickets'[t].resolvedAt <=> resolved'[t] # Never
                   /\ resolved'[t] # resolved[t] =>
                        resolved'[t] = now /\ (resolved[t] = Never \/ Reopened(t)')
                   /\ created'[t] # created[t] => created[t] = Never /\ created'[t] = now
<1> SUFFICES Goal
    OBVIOUS
<1>1. /\ LedgerNext /\ now' = now
      /\ created'[t] = IF CreatedNow(t) THEN now ELSE created[t]
      /\ resolved'[t] = IF ResolvedNow(t) THEN now ELSE resolved[t]
  BY DEF Serve
<1>2. now \in 0..MaxTime /\ now # Never /\ now <= now
  BY TimeAssumption DEF InsTypeOK, Never
<1>3. ColumnsOK(t) /\ (tickets[t].resolvedAt <=> resolved[t] # Never)
  BY DEF InsTypeOK
<1>4. /\ EndedUnstamped(t) => EndedUnstamped(t)'
      /\ Reopened(t) => Reopened(t)'
  BY <1>1, HistoryKept
<1>n. Never' = Never
  BY DEF Never
<1>5. CASE tickets'[t] = tickets[t] /\ ~ResolvedNow(t)
  BY <1>1, <1>3, <1>4, <1>5, <1>n DEF ColumnsOK, CreatedNow, Exists
<1>6. CASE /\ ~Exists(t) /\ ~ResolvedNow(t)
           /\ tickets'[t].status = "open" /\ ~tickets'[t].resolvedAt
  <2>1. Exists(t)' /\ CreatedNow(t)
    BY <1>6 DEF Exists, CreatedNow, Absent
  <2>2. created[t] = Never /\ ~tickets[t].resolvedAt
    BY <1>3, <1>6 DEF ColumnsOK
  <2> QED
    BY <1>1, <1>2, <1>3, <1>6, <1>n, <2>1, <2>2 DEF ColumnsOK
<1>7. ASSUME NEW r \in Updates, UpdateCommit(r), target[r] = t, to[r] # Absent,
             ~ResolvedNow(t), tickets'[t].resolvedAt = tickets[t].resolvedAt
      PROVE  Goal
  <2>1. r \in Moves
    BY DEF Moves
  <2>2. /\ seen[r] \in Status /\ to[r] \in Status /\ CanTransition(seen[r], to[r])
        /\ tickets[t].status = seen[r] /\ tickets'[t].status = to[r]
    BY <1>7, <2>1, CommitRow DEF LedgerInv, AutoInv
  <2>3. Exists(t) /\ Exists(t)'
    BY <1>7, <2>2 DEF Exists, Status, Absent
  <2>4. ~CreatedNow(t)
    BY <2>3 DEF CreatedNow
  <2>5. r \in audit' /\ target'[r] = t /\ seen'[r] = seen[r] /\ to'[r] = to[r]
    BY <1>7 DEF UpdateCommit
  <2>6. ASSUME NEW from, NEW s, seen[r] \in from, to[r] \in s
        PROVE  Patched(t, from, s)'
    BY <2>5, <2>6 DEF Patched
  <2>7. tickets[t].resolvedAt /\ to[r] \notin {"resolved", "closed"} => Reopened(t)'
    <3>1. CASE seen[r] = "resolved"
      BY <2>2, <2>6, <3>1 DEF Reopened
    <3>2. CASE seen[r] # "resolved"
      <4>1. seen[r] # "closed"
        BY <2>2 DEF CanTransition, Transitions
      <4> QED
        BY <1>3, <1>4, <2>2, <3>2, <4>1 DEF ColumnsOK
    <3> QED
      BY <3>1, <3>2
  <2>8. ~tickets[t].resolvedAt /\ to[r] \in {"resolved", "closed"} => EndedUnstamped(t)'
    <3>1. CASE seen[r] \in {"resolved", "closed"}
      BY <1>3, <1>4, <2>2, <3>1 DEF ColumnsOK
    <3>2. CASE seen[r] \notin {"resolved", "closed"}
      BY <2>2, <2>6, <3>2 DEF EndedUnstamped
    <3> QED
      BY <3>1, <3>2
  <2> QED
    BY <1>1, <1>3, <1>7, <1>n, <2>2, <2>3, <2>4, <2>7, <2>8 DEF ColumnsOK
<1>8. ASSUME NEW r \in Resolves, ResolveCommit(r), target[r] = t, ResolvedNow(t),
             tickets'[t].resolvedAt, tickets'[t].status = "resolved"
      PROVE  Goal
  <2>1. r \in Moves
    BY DEF Moves
  <2>2. to[r] = "resolved"
    BY <1>8, <2>1 DEF LedgerInv, AutoInv, SvcInv, MovePhase, MoveOK
  <2>3. CanTransition(seen[r], to[r]) /\ tickets[t].status = seen[r] /\ seen[r] \in Status
    BY <1>8, <2>1, <2>2, CommitRow DEF LedgerInv, AutoInv, Absent
  <2>4. tickets[t].status \notin {"resolved", "closed"} /\ Exists(t) /\ Exists(t)'
    BY <1>8, <2>2, <2>3 DEF CanTransition, Transitions, Exists, Status, Absent
  <2>5. resolved[t] = Never \/ Reopened(t)'
    BY <1>3, <1>4, <2>4 DEF ColumnsOK
  <2>6. ~CreatedNow(t)
    BY <2>4 DEF CreatedNow
  <2> QED
    BY <1>1, <1>2, <1>3, <1>8, <1>n, <2>4, <2>5, <2>6 DEF ColumnsOK
<1>9. CASE /\ \E b \in BulkCloses : t \in closed'[b]
           /\ Exists(t) /\ tickets[t].status \notin {"resolved", "closed"}
           /\ tickets'[t].status = "closed" /\ ~ResolvedNow(t)
           /\ tickets'[t].resolvedAt = tickets[t].resolvedAt
  <2>1. EndedUnstamped(t)'
    BY <1>9 DEF EndedUnstamped
  <2>2. Exists(t)' /\ ~CreatedNow(t)
    BY <1>9 DEF Exists, CreatedNow, Absent
  <2> QED
    BY <1>1, <1>3, <1>9, <1>n, <2>1, <2>2 DEF ColumnsOK
<1> QED
  BY <1>1, <1>5, <1>6, <1>7, <1>8, <1>9, RowHistory DEF LedgerInv, AutoInv

\* So they do whatever a job does: if it writes over a status that ends the
\* ticket, the ticket is reopened.
LEMMA ColumnsWorked ==
  ASSUME InsInv, Serve, WorkerNext, UNCHANGED locals, NEW t \in Tickets
  PROVE  ColumnsOK(t)' /\ tickets'[t].resolvedAt = tickets[t].resolvedAt
         /\ resolved'[t] = resolved[t] /\ created'[t] = created[t]
<1> USE DEF InsInv
<1>1. LedgerNext /\ now' = now
  BY DEF Serve
<1>2. /\ EndedUnstamped(t) => EndedUnstamped(t)'
      /\ Reopened(t) => Reopened(t)'
  BY <1>1, HistoryKept
<1>3. tickets'[t].resolvedAt = tickets[t].resolvedAt /\ Exists(t)' = Exists(t)
  BY WorkerStatus, WorkerOnRows DEF LedgerInv
<1>4. resolved'[t] = resolved[t] /\ created'[t] = created[t]
  <2>1. ~ResolvedNow(t)
    BY DEF ResolvedNow, locals
  <2>2. ~CreatedNow(t)
    BY <1>3 DEF CreatedNow
  <2> QED
    BY <2>1, <2>2 DEF Serve, InsTypeOK
<1>5. ColumnsOK(t)
  OBVIOUS
<1>6. CASE tickets'[t].status = tickets[t].status
  BY <1>1, <1>2, <1>3, <1>4, <1>5, <1>6 DEF ColumnsOK, Never
<1>7. CASE /\ tickets'[t].status = "escalated"
           /\ \A s \in EndStatus : Overwrites(t, s) <=> tickets[t].status = s
  <2>1. tickets[t].status \in {"resolved", "closed"} => Reopened(t)'
    <3> SUFFICES ASSUME tickets[t].status \in EndStatus PROVE Reopened(t)'
        BY DEF EndStatus
    <3>1. overwritten'[t][tickets[t].status] > 0
      BY <1>1, <1>7, Overwriting DEF InsInv
    <3> QED
      BY <3>1 DEF Reopened
  <2> QED
    BY <1>1, <1>2, <1>3, <1>4, <1>5, <1>7, <2>1 DEF ColumnsOK, Never
<1> QED
  BY <1>3, <1>4, <1>6, <1>7, WorkerStatus DEF LedgerInv

\* Requests and jobs account for what they change of the history: nothing of
\* the past but a second stamp, of a ticket that was reopened.
LEMMA ServeInv == InsInv /\ Serve => InsInv'
<1> SUFFICES ASSUME InsInv, Serve PROVE InsInv'
    OBVIOUS
<1> USE DEF InsInv
<1>1. LedgerNext /\ now' = now /\ wasOpen' = wasOpen
  BY DEF Serve
<1>2. LedgerInv'
  BY <1>1, LedgerStep
<1>t. /\ now \in 0..MaxTime /\ now # Never /\ MaxTime \in Nat
      /\ created \in [Tickets -> 0..Never] /\ resolved \in [Tickets -> 0..Never]
  BY TimeAssumption DEF InsTypeOK, Never
<1>3. \A t \in Tickets :
        /\ ColumnsOK(t)'
        /\ tickets'[t].resolvedAt <=> resolved'[t] # Never
        /\ resolved'[t] # resolved[t] =>
             resolved'[t] = now /\ (resolved[t] = Never \/ Reopened(t)')
        /\ created'[t] # created[t] => created[t] = Never /\ created'[t] = now
  <2>1. CASE SvcNext
    BY <2>1, ColumnsServed
  <2>2. CASE WorkerNext /\ UNCHANGED locals
    BY <2>2, ColumnsWorked DEF InsTypeOK
  <2> QED
    BY <1>1, <2>1, <2>2 DEF LedgerNext, Next
<1>4. InsTypeOK'
  <2>1. created' \in [Tickets -> 0..Never] /\ resolved' \in [Tickets -> 0..Never]
    BY <1>t DEF Serve, Never
  <2>2. \A t \in Tickets : tickets'[t].resolvedAt <=> resolved'[t] # Never
    BY <1>3
  <2> QED
    BY <1>1, <2>1, <2>2 DEF InsTypeOK, Never
<1>5. ASSUME NEW b \in 1..now, NEW t \in Tickets
      PROVE  /\ t \in wasOpen'[b] /\ t \notin Backlog(b)' => Reopened(t)'
             /\ t \in Backlog(b)' /\ t \notin wasOpen'[b] => EndedUnstamped(t)' \/ Reopened(t)'
  <2>1. /\ t \in wasOpen[b] /\ t \notin Backlog(b) => Reopened(t)
        /\ t \in Backlog(b) /\ t \notin wasOpen[b] => EndedUnstamped(t) \/ Reopened(t)
    BY DEF BacklogAccounted
  <2>2. /\ EndedUnstamped(t) => EndedUnstamped(t)'
        /\ Reopened(t) => Reopened(t)'
    BY <1>1, HistoryKept
  <2>3. /\ t \in Backlog(b) <=> created[t] < b /\ resolved[t] >= b
        /\ t \in Backlog(b)' <=> created'[t] < b /\ resolved'[t] >= b
    BY DEF Backlog
  <2>4. created'[t] < b <=> created[t] < b
    BY <1>3, <1>t DEF Never
  <2>5. resolved[t] >= b => resolved'[t] >= b
    BY <1>3, <1>t
  <2>6. resolved'[t] >= b /\ ~(resolved[t] >= b) => Reopened(t)'
    BY <1>3, <1>t DEF Never
  <2> QED
    BY <1>1, <2>1, <2>2, <2>3, <2>4, <2>5, <2>6
<1>6. BacklogAccounted'
  BY <1>1, <1>5 DEF BacklogAccounted
<1> QED
  BY <1>2, <1>3, <1>4, <1>6

\* At the end of an hour the columns tell what is open, up to the exceptions.
LEMMA HourInv == InsInv /\ HourEnds => InsInv'
<1> SUFFICES ASSUME InsInv, HourEnds PROVE InsInv'
    OBVIOUS
<1> USE DEF InsInv
<1>1. /\ now < MaxTime /\ now' = now + 1
      /\ wasOpen' = [wasOpen EXCEPT ![now + 1] = OpenTickets]
      /\ UNCHANGED ledgerVars /\ created' = created /\ resolved' = resolved
  BY DEF HourEnds, Tick
<1>t. /\ now \in 0..MaxTime /\ MaxTime \in Nat
      /\ wasOpen \in [0..MaxTime -> SUBSET Tickets]
      /\ created \in [Tickets -> 0..Never] /\ resolved \in [Tickets -> 0..Never]
  BY TimeAssumption DEF InsTypeOK
<1>2. LedgerInv'
  BY <1>1, LedgerStep
<1>3. UNCHANGED <<tickets, audit, target, seen, to, closed, overwritten>>
  BY <1>1 DEF ledgerVars, vars, svcVars
<1>4. \A t \in Tickets : /\ EndedUnstamped(t)' <=> EndedUnstamped(t)
                         /\ Reopened(t)' <=> Reopened(t)
  BY <1>3 DEF EndedUnstamped, Reopened, Patched
<1>5. InsTypeOK'
  <2>1. OpenTickets \in SUBSET Tickets
    BY DEF OpenTickets
  <2>2. now' \in 0..MaxTime
    BY <1>1, <1>t
  <2>3. wasOpen' \in [0..MaxTime -> SUBSET Tickets]
    BY <1>1, <1>t, <2>1
  <2>4. \A t \in Tickets : tickets'[t].resolvedAt <=> resolved'[t] # Never'
    BY <1>1, <1>3 DEF InsTypeOK, Never
  <2> QED
    BY <1>1, <1>t, <2>2, <2>3, <2>4 DEF InsTypeOK, Never
<1>6. ASSUME NEW t \in Tickets PROVE ColumnsOK(t)'
  <2>1. created[t] \in Nat /\ resolved[t] \in Nat
    BY <1>t, TimeAssumption DEF Never
  <2>2. /\ created[t] <= now => created'[t] <= now'
        /\ resolved[t] <= now => resolved'[t] <= now'
    BY <1>1, <1>t, <2>1
  <2> QED
    BY <1>1, <1>3, <1>4, <2>2 DEF ColumnsOK, Exists, Never
<1>7. ASSUME NEW b \in 1..(now + 1), NEW t \in Tickets
      PROVE  /\ t \in wasOpen'[b] /\ t \notin Backlog(b) => Reopened(t)
             /\ t \in Backlog(b) /\ t \notin wasOpen'[b] => EndedUnstamped(t) \/ Reopened(t)
  <2>1. CASE b # now + 1
    <3>1. b \in 1..now /\ wasOpen'[b] = wasOpen[b]
      BY <1>1, <1>t, <2>1
    <3> QED
      BY <3>1 DEF BacklogAccounted
  <2>2. CASE b = now + 1
    <3>1. wasOpen'[b] = OpenTickets
      BY <1>1, <1>t, <2>2
    <3>2. t \in OpenTickets <=> Exists(t) /\ tickets[t].status \notin {"resolved", "closed"}
      BY DEF OpenTickets
    <3>3. ColumnsOK(t) /\ (tickets[t].resolvedAt <=> resolved[t] # Never)
      BY DEF InsTypeOK
    <3>4. t \in Backlog(b) <=> created[t] # Never /\ resolved[t] = Never
      <4>1. t \in Backlog(b) <=> created[t] < now + 1 /\ resolved[t] >= now + 1
        BY <2>2 DEF Backlog
      <4>2. /\ created[t] < now + 1 <=> created[t] # Never
            /\ resolved[t] >= now + 1 <=> resolved[t] = Never
        BY <1>1, <1>t, <3>3 DEF ColumnsOK, Never
      <4> QED
        BY <4>1, <4>2
    <3> QED
      BY <3>1, <3>2, <3>3, <3>4 DEF ColumnsOK
  <2> QED
    BY <2>1, <2>2
<1>8. BacklogAccounted'
  <2>1. \A b : Backlog(b)' = Backlog(b)
    BY <1>1 DEF Backlog
  <2> QED
    BY <1>1, <1>4, <1>7, <2>1 DEF BacklogAccounted
<1> QED
  BY <1>2, <1>5, <1>6, <1>8

-----------------------------------------------------------------------------
(* Insights: the theorems *)

\* InsInv is inductive.
THEOREM InsInvariance == InsSpec => []InsInv
<1>1. ASSUME InsInv, UNCHANGED <<ledgerVars, insVars>>
      PROVE  InsInv'
  <2>1. UNCHANGED ledgerVars /\ UNCHANGED insVars
    BY <1>1
  <2>2. LedgerInv'
    BY <1>1, <2>1, LedgerStep DEF InsInv
  <2>3. InsTypeOK' /\ \A t \in Tickets : ColumnsOK(t)'
    BY <1>1, <2>1 DEF InsInv, insVars, ledgerVars, vars, svcVars, InsTypeOK, ColumnsOK, Exists, Never,
       EndedUnstamped, Reopened, Patched
  <2>4. BacklogAccounted'
    BY <1>1, <2>1 DEF InsInv, insVars, ledgerVars, vars, svcVars, BacklogAccounted, Backlog,
       EndedUnstamped, Reopened, Patched
  <2> QED
    BY <2>2, <2>3, <2>4 DEF InsInv
<1>2. InsInv /\ [InsNext]_<<ledgerVars, insVars>> => InsInv'
  BY <1>1, ServeInv, HourInv DEF InsNext
<1> QED
  BY InsInvInit, <1>2, PTL DEF InsSpec

\* The columns of the insights, and the clock, have their types.
THEOREM InsTypeCorrect == InsSpec => []InsTypeOK
<1>1. InsInv => InsTypeOK
  BY DEF InsInv
<1> QED
  BY InsInvariance, <1>1, PTL

\* The history of the backlog errs where it is said to, and nowhere else.
THEOREM HistoryAccounted == InsSpec => []BacklogAccounted
<1>1. InsInv => BacklogAccounted
  BY DEF InsInv
<1> QED
  BY InsInvariance, <1>1, PTL

=============================================================================
