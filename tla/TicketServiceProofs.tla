------------------------ MODULE TicketServiceProofs -------------------------
(***************************************************************************)
(* Proofs about TicketService, for any number of tickets, keys and         *)
(* requests: its type invariant, an inductive invariant, the agreement of  *)
(* keyed creates, the implementation of TicketLifecycle, and the history   *)
(* of commits, which the books of StatusLedger are kept from.              *)
(***************************************************************************)
EXTENDS TicketService, FiniteSetTheorems, TLAPS

-----------------------------------------------------------------------------
(* The inductive invariant *)

\* No two rows share a key: the UNIQUE constraint, kept by every step.
KeyUnique ==
  \A t, u \in Tickets :
    /\ Exists(t) /\ Exists(u)
    /\ tickets[t].key = tickets[u].key /\ tickets[t].key # NoKey
    => t = u

\* Where a create is says what it knows of the table: its row is not there
\* before the insert; a conflict means a winner that stays; from the insert on
\* it speaks of its own row, and its answer of a row with its key.
CreateOK(c) ==
  /\ pc[c] \notin {"txn", "rejected"}
  /\ pc[c] \in {"idle", "insert"} => ~Exists(c)
  /\ pc[c] = "conflict" => key[c] \in RealKeys /\ KeyHolders(key[c]) # {}
  /\ pc[c] = "raised" => key[c] \notin RealKeys
  /\ pc[c] \in {"enqueue", "log", "audit", "reply", "ok"} =>
       /\ target[c] \in Tickets
       /\ Exists(target[c]) /\ tickets[target[c]].key = key[c]

CreatePhase == \A c \in Creates : CreateOK(c)

\* A call about to commit has read a row, and validated the move it asks for
\* against the status it read.
MoveOK(r) ==
  /\ pc[r] \in {"idle", "txn", "reply", "ok", "rejected", "stopped"}
  /\ r \in Resolves => to[r] = "resolved"
  /\ r \in Updates /\ pc[r] = "idle" => to[r] = Absent
  /\ pc[r] = "txn" =>
       /\ target[r] \in Tickets /\ Exists(target[r])
       /\ to[r] # Absent => CanTransition(seen[r], to[r])

MovePhase == \A r \in Moves : MoveOK(r)

SvcInv == SvcTypeOK /\ KeyUnique /\ CreatePhase /\ MovePhase

-----------------------------------------------------------------------------
(* The type invariant *)

\* The initial states are typed.
LEMMA TypeInit == SvcInit => SvcTypeOK
  BY RequestAssumption, MaxTriesAssumption
  DEF SvcInit, StoreInit, QueueInit, SvcTypeOK, QueueTypeOK, NoRow, NoLogRow, Row,
      LogRow, AnyKey, PC, JobState, Creates, Moves, Requests, Status, Absent

\* Every step of a handler, and every arrival, keeps the types.
LEMMA TypeStep == SvcTypeOK /\ [SvcNext]_svcVars => SvcTypeOK'
<1> SUFFICES ASSUME SvcTypeOK, [SvcNext]_svcVars
             PROVE  SvcTypeOK'
    OBVIOUS
<1> USE DEF SvcTypeOK, Goto, PC
<1>1. ASSUME NEW c \in Creates, NEW k \in AnyKey, CreateHit(c, k)
      PROVE  SvcTypeOK'
  BY <1>1, RequestAssumption DEF CreateHit, KeyHolders, QueueTypeOK, Creates, Requests
<1>2. ASSUME NEW c \in Creates, NEW k \in AnyKey, CreateStart(c, k)
      PROVE  SvcTypeOK'
  BY <1>2, RequestAssumption DEF CreateStart, QueueTypeOK, Creates, Requests
<1>3. ASSUME NEW r \in Updates, NEW t \in Tickets, NEW s \in Status, UpdateRead(r, t, s)
      PROVE  SvcTypeOK'
  <2>1. CheckMove(t, s) \in PC
    BY DEF CheckMove
  <2>2. tickets[t].status \in Status \cup {Absent}
    BY DEF Row
  <2> QED
    BY <1>3, <2>1, <2>2 DEF UpdateRead, QueueTypeOK, Moves, Requests
<1>4. ASSUME NEW r \in Updates, NEW t \in Tickets, NEW empty \in BOOLEAN,
             UpdateReadFields(r, t, empty)
      PROVE  SvcTypeOK'
  BY <1>4 DEF UpdateReadFields, QueueTypeOK, Moves, Requests
<1>5. ASSUME NEW r \in Resolves, NEW t \in Tickets, ResolveRead(r, t)
      PROVE  SvcTypeOK'
  <2>1. CheckMove(t, "resolved") \in PC
    BY DEF CheckMove
  <2>2. tickets[t].status \in Status \cup {Absent}
    BY DEF Row
  <2> QED
    BY <1>5, <2>1, <2>2 DEF ResolveRead, QueueTypeOK, Moves, Requests
<1>6. ASSUME NEW b \in BulkCloses, NEW ids \in SUBSET Tickets, BulkClose(b, ids)
      PROVE  SvcTypeOK'
  <2>1. BulkClosable(ids) \subseteq Tickets
    BY DEF BulkClosable
  <2>2. tickets' \in [Tickets -> Row]
    BY <1>6 DEF BulkClose, BulkClosed, Row, Status
  <2> QED
    BY <1>6, <2>1, <2>2 DEF BulkClose, QueueTypeOK, Requests
<1>7. ASSUME NEW j \in Retries, NEW t \in Tickets, RetryRead(j, t)
      PROVE  SvcTypeOK'
  BY <1>7 DEF RetryRead, QueueTypeOK, Retries, Requests
<1>8. ASSUME NEW c \in Creates, CreateInsert(c)
      PROVE  SvcTypeOK'
  <2>1. tickets' \in [Tickets -> Row]
    BY <1>8, NoJobAssumption DEF CreateInsert, Inserted, Row, Creates, Status
  <2> QED
    BY <1>8, <2>1, RequestAssumption DEF CreateInsert, QueueTypeOK, Creates, Requests
<1>9. ASSUME NEW c \in Creates, CreateConflict(c)
      PROVE  SvcTypeOK'
  BY <1>9, RequestAssumption DEF CreateConflict, InsertConflict, QueueTypeOK, Creates, Requests
<1>10. ASSUME NEW c \in Creates, CreateConflictHit(c)
       PROVE  SvcTypeOK'
  <2>1. KeyHolders(key[c]) \subseteq Tickets
    BY DEF KeyHolders
  <2>2. pc' \in [Requests -> PC] /\ target' \in [Requests -> Tickets \cup {NoTicket}]
    BY <1>10, <2>1, RequestAssumption DEF CreateConflictHit, Creates, Requests
  <2> QED
    BY <1>10, <2>2 DEF CreateConflictHit, QueueTypeOK
<1>11. ASSUME NEW r \in Moves, UpdateCommit(r)
       PROVE  SvcTypeOK'
  <2>1. to[r] \in Status \cup {Absent}
    OBVIOUS
  <2>2. ASSUME NEW t, NEW s \in Status \cup {Absent}
        PROVE  WithStatus(t, s) \in [Tickets -> Row]
    BY DEF WithStatus, Row
  <2>3. tickets' \in [Tickets -> Row]
    BY <1>11, <2>1, <2>2 DEF UpdateCommit
  <2> QED
    BY <1>11, <2>3 DEF UpdateCommit, QueueTypeOK, Requests
<1>12. ASSUME NEW r \in Moves, ResolveCommit(r)
       PROVE  SvcTypeOK'
  <2>1. WithStatus(target[r], "resolved") \in [Tickets -> Row]
    BY DEF WithStatus, Row, Status
  <2>2. tickets' \in [Tickets -> Row]
    BY <1>12, <2>1 DEF ResolveCommit, Row
  <2> QED
    BY <1>12, <2>2 DEF ResolveCommit, QueueTypeOK, Requests
<1>13. ASSUME NEW r \in Moves, CasFails(r)
       PROVE  SvcTypeOK'
  BY <1>13 DEF CasFails, QueueTypeOK, Requests
<1>14. ASSUME NEW j \in Jobs, Enqueue(j)
       PROVE  SvcTypeOK'
  <2>1. QueueTypeOK'
    BY <1>14, MaxTriesAssumption DEF Enqueue, EnqueueJob, QueueTypeOK, JobState, Requests
  <2> QED
    BY <1>14, <2>1 DEF Enqueue, Requests
<1>15. ASSUME NEW j \in Jobs, LogEnqueued(j)
       PROVE  SvcTypeOK'
  <2>1. jobLog' \in [Jobs -> LogRow]
    BY <1>15 DEF LogEnqueued, UpsertJobStatus, LogRow, JobStatus
  <2> QED
    BY <1>15, <2>1 DEF LogEnqueued, QueueTypeOK, Requests
<1>16. ASSUME NEW r \in Requests, Audit(r) \/ Reply(r) \/ Stop(r)
       PROVE  SvcTypeOK'
  BY <1>16 DEF Audit, Reply, Stop, QueueTypeOK
<1>17. CASE UNCHANGED svcVars
  BY <1>17 DEF svcVars, QueueTypeOK
<1> QED
  BY <1>1, <1>2, <1>3, <1>4, <1>5, <1>6, <1>7, <1>8, <1>9, <1>10, <1>11, <1>12,
     <1>13, <1>14, <1>15, <1>16, <1>17
  DEF SvcNext, Arrive, HandlerStep, CreateStep, MoveStep, Creates, Moves

\* Every reachable state of the ticket service is typed: statuses, keys, job
\* rows and the steps of every request stay in the vocabulary of the code.
THEOREM TypeCorrect == SvcSpec => []SvcTypeOK
  BY TypeInit, TypeStep, PTL DEF SvcSpec

-----------------------------------------------------------------------------
(* The inductive invariant *)

\* Initially no row exists and no call has begun.
LEMMA InvInit == SvcInit => SvcInv
<1> SUFFICES ASSUME SvcInit PROVE SvcInv
    OBVIOUS
<1>1. SvcTypeOK
  BY TypeInit
<1>2. \A t \in Tickets : ~Exists(t)
  BY DEF SvcInit, StoreInit, NoRow, Exists
<1>3. KeyUnique
  BY <1>2 DEF KeyUnique
<1>4. CreatePhase
  BY <1>2, RequestAssumption DEF SvcInit, CreatePhase, CreateOK, Creates, Requests
<1>5. MovePhase
  BY RequestAssumption DEF SvcInit, MovePhase, MoveOK, Moves, Requests
<1> QED
  BY <1>1, <1>3, <1>4, <1>5 DEF SvcInv

\* What one step does to the rows: a row that is there stays and keeps its key;
\* a row appears only by its own create's insert.
LEMMA RowsStep ==
  ASSUME SvcTypeOK, MovePhase, CreatePhase, [SvcNext]_svcVars, NEW t \in Tickets
  PROVE  /\ Exists(t) => Exists(t)' /\ tickets'[t].key = tickets[t].key
         /\ ~Exists(t) /\ Exists(t)' => CreateInsert(t)
<1> DEFINE Kept == /\ Exists(t) => Exists(t)' /\ tickets'[t].key = tickets[t].key
                   /\ ~Exists(t) /\ Exists(t)' => CreateInsert(t)
<1> SUFFICES Kept
    OBVIOUS
<1>1. tickets \in [Tickets -> Row]
  BY DEF SvcTypeOK
<1>2. CASE UNCHANGED tickets
  BY <1>2 DEF Exists
<1>3. ASSUME NEW c \in Creates, CreateInsert(c)
      PROVE  Kept
  <2>1. ~Exists(c)
    BY <1>3 DEF CreateInsert, CreatePhase, CreateOK
  <2>2. CASE t = c
    BY <1>3, <2>1, <2>2
  <2>3. CASE t # c
    <3>1. tickets'[t] = tickets[t]
      BY <1>1, <1>3, <2>3 DEF CreateInsert, Inserted, Creates
    <3> QED
      BY <3>1 DEF Exists
  <2> QED
    BY <2>2, <2>3
<1>4. ASSUME NEW r \in Moves, UpdateCommit(r) \/ ResolveCommit(r), tickets' # tickets
      PROVE  Kept
  <2>1. target[r] \in Tickets /\ Exists(target[r]) /\ to[r] # Absent
    BY <1>4 DEF UpdateCommit, ResolveCommit, MovePhase, MoveOK, Absent
  <2>2. CASE t # target[r]
    <3>1. tickets'[t] = tickets[t]
      BY <1>1, <1>4, <2>1, <2>2 DEF UpdateCommit, ResolveCommit, WithStatus
    <3> QED
      BY <3>1 DEF Exists
  <2>3. CASE t = target[r]
    <3>1. tickets'[t].status = to[r] /\ tickets'[t].key = tickets[t].key
      BY <1>1, <1>4, <2>1, <2>3
      DEF UpdateCommit, ResolveCommit, WithStatus, Row, MovePhase, MoveOK
    <3> QED
      BY <2>1, <2>3, <3>1 DEF Exists
  <2> QED
    BY <2>2, <2>3
<1>5. ASSUME NEW b \in BulkCloses, NEW ids \in SUBSET Tickets, BulkClose(b, ids)
      PROVE  Kept
  <2>1. tickets'[t] = IF t \in BulkClosable(ids)
                        THEN [tickets[t] EXCEPT !.status = "closed"]
                        ELSE tickets[t]
    BY <1>5 DEF BulkClose, BulkClosed
  <2>2. t \in BulkClosable(ids) => Exists(t)
    BY DEF BulkClosable
  <2>3. tickets[t] \in Row
    BY <1>1
  <2>4. CASE t \in BulkClosable(ids)
    BY <2>1, <2>2, <2>3, <2>4 DEF Exists, Row, Absent
  <2>5. CASE t \notin BulkClosable(ids)
    BY <2>1, <2>5 DEF Exists
  <2> QED
    BY <2>4, <2>5
<1>6. \/ UNCHANGED tickets
      \/ \E c \in Creates : CreateInsert(c)
      \/ \E r \in Moves : UpdateCommit(r) \/ ResolveCommit(r)
      \/ \E b \in BulkCloses, ids \in SUBSET Tickets : BulkClose(b, ids)
  BY DEF SvcNext, Arrive, HandlerStep, CreateStep, MoveStep, svcVars, CreateHit,
     CreateStart, CreateConflict, CreateConflictHit, Enqueue, LogEnqueued, Audit,
     Reply, UpdateRead, UpdateReadFields, CasFails, ResolveRead, RetryRead, Stop
<1> QED
  BY <1>2, <1>3, <1>4, <1>5, <1>6

\* No step makes two rows share a key.
LEMMA KeyUniqueStep == SvcInv /\ [SvcNext]_svcVars => KeyUnique'
<1> SUFFICES ASSUME SvcInv, [SvcNext]_svcVars,
                    NEW t \in Tickets, NEW u \in Tickets,
                    Exists(t)', Exists(u)',
                    tickets'[t].key = tickets'[u].key, tickets'[t].key # NoKey
             PROVE  t = u
    BY DEF KeyUnique, Exists
<1> USE DEF SvcInv
<1>1. ASSUME NEW v \in Tickets, NEW w \in Tickets, v # w, CreateInsert(v),
             Exists(w)', tickets'[v].key = tickets'[w].key, tickets'[v].key # NoKey
      PROVE  FALSE
  <2>1. tickets'[v].key = key[v] /\ tickets'[w] = tickets[w]
    BY <1>1 DEF CreateInsert, Inserted, SvcTypeOK
  <2>2. w \in KeyHolders(key[v])
    BY <1>1, <2>1 DEF KeyHolders, Exists
  <2> QED
    BY <1>1, <2>1, <2>2 DEF CreateInsert, KeyFree
<1>2. CASE Exists(t) /\ Exists(u)
  BY <1>2, RowsStep DEF KeyUnique
<1>3. CASE ~Exists(t) \/ ~Exists(u)
  BY <1>1, <1>3, RowsStep
<1> QED
  BY <1>2, <1>3

\* What a create knows of the table survives every step.
LEMMA CreatePhaseStep == SvcInv /\ [SvcNext]_svcVars => CreatePhase'
<1> SUFFICES ASSUME SvcInv, [SvcNext]_svcVars, NEW c \in Creates
             PROVE  CreateOK(c)'
    BY DEF CreatePhase, Creates
<1> USE DEF SvcInv
<1>r. \A t \in Tickets :
        /\ Exists(t) => Exists(t)' /\ tickets'[t].key = tickets[t].key
        /\ ~Exists(t) /\ Exists(t)' => CreateInsert(t)
  BY RowsStep
<1>c. CreateOK(c) /\ c \in Tickets /\ c \in Jobs /\ c \in Requests
      /\ c \notin Moves /\ c \notin BulkCloses
  BY RequestAssumption DEF CreatePhase, Creates, Requests
<1>t. pc \in [Requests -> PC] /\ key \in [Creates -> AnyKey]
      /\ target \in [Requests -> Tickets \cup {NoTicket}]
  BY DEF SvcTypeOK
<1>1. CASE pc'[c] = pc[c] /\ key'[c] = key[c] /\ target'[c] = target[c]
  <2>1. ~CreateInsert(c)
    BY <1>1, <1>c, <1>t DEF CreateInsert, Goto
  <2>2. pc[c] \in {"idle", "insert"} => ~Exists(c)'
    BY <2>1, <1>c, <1>r DEF CreateOK
  <2>3. pc[c] = "conflict" =>
          \E t \in Tickets : tickets'[t].status # Absent /\ tickets'[t].key = key[c]
    BY <1>c, <1>r DEF CreateOK, KeyHolders, Exists
  <2>4. pc[c] \in {"enqueue", "log", "audit", "reply", "ok"} =>
          /\ target[c] \in Tickets
          /\ tickets'[target[c]].status # Absent
          /\ tickets'[target[c]].key = key[c]
    BY <1>c, <1>r DEF CreateOK, Exists
  <2> QED
    BY <1>1, <1>c, <2>2, <2>3, <2>4 DEF CreateOK, Exists, KeyHolders
<1>2. ASSUME NEW k \in AnyKey, CreateHit(c, k)
      PROVE  CreateOK(c)'
  <2>1. PICK t \in KeyHolders(k) : target' = [target EXCEPT ![c] = t]
    BY <1>2 DEF CreateHit
  <2>2. pc'[c] = "ok" /\ key'[c] = k /\ target'[c] = t /\ UNCHANGED tickets
    BY <1>2, <1>c, <1>t, <2>1 DEF CreateHit, Goto
  <2> QED
    BY <2>1, <2>2 DEF CreateOK, KeyHolders, Exists
<1>3. ASSUME NEW k \in AnyKey, CreateStart(c, k)
      PROVE  CreateOK(c)'
  <2>1. pc[c] = "idle" /\ pc'[c] = "insert" /\ UNCHANGED tickets
    BY <1>3, <1>c, <1>t DEF CreateStart, Goto
  <2> QED
    BY <1>c, <2>1 DEF CreateOK, Exists
<1>4. ASSUME CreateInsert(c)
      PROVE  CreateOK(c)'
  <2>1. pc'[c] = "enqueue" /\ target'[c] = c /\ key'[c] = key[c]
    BY <1>4, <1>c, <1>t DEF CreateInsert, Goto
  <2>2. tickets'[c].status = "open" /\ tickets'[c].key = key[c]
    BY <1>4, <1>c DEF CreateInsert, Inserted, SvcTypeOK
  <2> QED
    BY <1>c, <2>1, <2>2 DEF CreateOK, Exists, Absent
<1>5. ASSUME CreateConflict(c)
      PROVE  CreateOK(c)'
  <2>1. KeyHolders(key[c]) # {} /\ UNCHANGED <<tickets, key>>
    BY <1>5 DEF CreateConflict, KeyFree
  <2>2. pc'[c] = IF key[c] \in RealKeys THEN "conflict" ELSE "raised"
    BY <1>5, <1>c, <1>t DEF CreateConflict, InsertConflict, Goto
  <2>3. KeyHolders(key[c])' = KeyHolders(key[c])
    BY <2>1 DEF KeyHolders, Exists
  <2> QED
    BY <2>1, <2>2, <2>3 DEF CreateOK
<1>6. ASSUME CreateConflictHit(c)
      PROVE  CreateOK(c)'
  <2>1. PICK t \in KeyHolders(key[c]) : target' = [target EXCEPT ![c] = t]
    BY <1>6, <1>c DEF CreateConflictHit, CreateOK
  <2>2. pc'[c] = "ok" /\ target'[c] = t /\ UNCHANGED <<tickets, key>>
    BY <1>6, <1>c, <1>t, <2>1 DEF CreateConflictHit, Goto, CreateOK
  <2> QED
    BY <2>1, <2>2 DEF CreateOK, KeyHolders, Exists
<1>7. ASSUME Enqueue(c) \/ LogEnqueued(c) \/ Audit(c) \/ Reply(c)
      PROVE  CreateOK(c)'
  <2>1. /\ pc[c] \in {"enqueue", "log", "audit", "reply"}
        /\ pc'[c] \in {"log", "audit", "reply", "ok"}
        /\ UNCHANGED <<tickets, key, target>>
    BY <1>7, <1>c, <1>t DEF Enqueue, LogEnqueued, Audit, Reply, Goto
  <2> QED
    BY <1>c, <2>1 DEF CreateOK, Exists
<1>8. ASSUME Stop(c)
      PROVE  CreateOK(c)'
  <2>1. pc'[c] = "stopped"
    BY <1>8, <1>c, <1>t DEF Stop, Goto
  <2> QED
    BY <2>1 DEF CreateOK
<1>9. ASSUME NEW d \in Creates, d # c,
             \/ \E k \in AnyKey : CreateHit(d, k) \/ CreateStart(d, k)
             \/ CreateStep(d)
      PROVE  pc'[c] = pc[c] /\ key'[c] = key[c] /\ target'[c] = target[c]
  BY <1>9, <1>c, <1>t DEF CreateHit, CreateStart, CreateStep, CreateInsert,
     CreateConflict, CreateConflictHit, Goto
<1>10. ASSUME NEW r \in Requests, r # c,
              \/ r \in Jobs /\ (Enqueue(r) \/ LogEnqueued(r))
              \/ Audit(r) \/ Reply(r) \/ Stop(r)
       PROVE  pc'[c] = pc[c] /\ key'[c] = key[c] /\ target'[c] = target[c]
  BY <1>10, <1>c, <1>t DEF Enqueue, LogEnqueued, Audit, Reply, Stop, Goto
<1>11. ASSUME NEW r \in Moves,
              \/ \E t \in Tickets, s \in Status : UpdateRead(r, t, s)
              \/ \E t \in Tickets, empty \in BOOLEAN : UpdateReadFields(r, t, empty)
              \/ \E t \in Tickets : ResolveRead(r, t)
              \/ MoveStep(r)
       PROVE  pc'[c] = pc[c] /\ key'[c] = key[c] /\ target'[c] = target[c]
  BY <1>11, <1>c, <1>t DEF UpdateRead, UpdateReadFields, ResolveRead, MoveStep,
     UpdateCommit, ResolveCommit, CasFails, Goto
<1>12. ASSUME NEW b \in BulkCloses, NEW ids \in SUBSET Tickets, BulkClose(b, ids)
       PROVE  pc'[c] = pc[c] /\ key'[c] = key[c] /\ target'[c] = target[c]
  BY <1>12, <1>c, <1>t DEF BulkClose, Goto
<1>13. ASSUME NEW j \in Retries, NEW t \in Tickets, RetryRead(j, t)
       PROVE  pc'[c] = pc[c] /\ key'[c] = key[c] /\ target'[c] = target[c]
  BY <1>13, <1>c, <1>t DEF RetryRead, Retries, Goto
<1>14. CASE UNCHANGED svcVars
  BY <1>1, <1>14 DEF svcVars
<1> QED
  BY <1>1, <1>2, <1>3, <1>4, <1>5, <1>6, <1>7, <1>8, <1>9, <1>10, <1>11, <1>12,
     <1>13, <1>14
  DEF SvcNext, Arrive, HandlerStep, CreateStep, Moves

\* Nothing but its own read sends a call to its transaction, and the row it read
\* stays.
LEMMA MovePhaseStep == SvcInv /\ [SvcNext]_svcVars => MovePhase'
<1> SUFFICES ASSUME SvcInv, [SvcNext]_svcVars, NEW m \in Moves
             PROVE  MoveOK(m)'
    BY DEF MovePhase, Moves
<1> USE DEF SvcInv
<1>r. \A t \in Tickets : Exists(t) => Exists(t)'
  BY RowsStep
<1>m. MoveOK(m) /\ m \in Requests /\ m \notin Jobs /\ m \notin BulkCloses
      /\ ~(m \in Updates /\ m \in Resolves)
  BY RequestAssumption DEF MovePhase, Moves, Requests
<1>t. /\ pc \in [Requests -> PC] /\ tickets \in [Tickets -> Row]
      /\ target \in [Requests -> Tickets \cup {NoTicket}]
      /\ seen \in [Moves -> Status \cup {Absent}] /\ to \in [Moves -> Status \cup {Absent}]
  BY DEF SvcTypeOK
<1>1. CASE /\ pc'[m] = pc[m] \/ pc'[m] \in {"reply", "ok", "rejected", "stopped"}
           /\ target'[m] = target[m] /\ seen'[m] = seen[m] /\ to'[m] = to[m]
  <2>1. pc'[m] = "txn" => target[m] \in Tickets /\ Exists(target[m])'
    BY <1>1, <1>m, <1>r DEF MoveOK
  <2> QED
    BY <1>1, <1>m, <2>1 DEF MoveOK, Exists
<1>2. ASSUME NEW t \in Tickets, NEW s \in Status, UpdateRead(m, t, s)
      PROVE  MoveOK(m)'
  <2>1. /\ target'[m] = t /\ seen'[m] = tickets[t].status /\ to'[m] = s
        /\ pc'[m] = CheckMove(t, s) /\ UNCHANGED tickets /\ m \in Updates
    BY <1>2, <1>m, <1>t DEF UpdateRead, Goto
  <2> QED
    BY <1>m, <2>1 DEF MoveOK, CheckMove, Exists
<1>3. ASSUME NEW t \in Tickets, NEW empty \in BOOLEAN, UpdateReadFields(m, t, empty)
      PROVE  MoveOK(m)'
  <2>1. /\ target'[m] = t /\ to'[m] = to[m] /\ seen'[m] = seen[m]
        /\ pc'[m] = IF ~Exists(t) THEN "rejected" ELSE IF empty THEN "ok" ELSE "txn"
        /\ UNCHANGED tickets /\ m \in Updates /\ pc[m] = "idle"
    BY <1>3, <1>m, <1>t DEF UpdateReadFields, Goto
  <2>2. to[m] = Absent
    BY <1>m, <2>1 DEF MoveOK
  <2> QED
    BY <1>m, <2>1, <2>2 DEF MoveOK, Exists
<1>4. ASSUME NEW t \in Tickets, ResolveRead(m, t)
      PROVE  MoveOK(m)'
  <2>1. /\ target'[m] = t /\ seen'[m] = tickets[t].status /\ to'[m] = to[m]
        /\ pc'[m] = CheckMove(t, "resolved") /\ UNCHANGED tickets /\ m \in Resolves
    BY <1>4, <1>m, <1>t DEF ResolveRead, Goto
  <2> QED
    BY <1>m, <2>1 DEF MoveOK, CheckMove, Exists
<1>5. ASSUME UpdateCommit(m) \/ ResolveCommit(m) \/ CasFails(m) \/ Reply(m) \/ Stop(m)
      PROVE  MoveOK(m)'
  <2>1. /\ pc'[m] \in {"reply", "ok", "rejected", "stopped"}
        /\ UNCHANGED <<target, seen, to>>
    BY <1>5, <1>m, <1>t DEF UpdateCommit, ResolveCommit, CasFails, Reply, Stop, Goto
  <2> QED
    BY <1>1, <2>1
<1>6. ASSUME NEW r \in Moves, r # m,
             \/ \E t \in Tickets, s \in Status : UpdateRead(r, t, s)
             \/ \E t \in Tickets, empty \in BOOLEAN : UpdateReadFields(r, t, empty)
             \/ \E t \in Tickets : ResolveRead(r, t)
             \/ MoveStep(r)
      PROVE  MoveOK(m)'
  BY <1>1, <1>6, <1>m, <1>t DEF UpdateRead, UpdateReadFields, ResolveRead, MoveStep,
     UpdateCommit, ResolveCommit, CasFails, Goto
<1>7. ASSUME NEW r \in Requests, r # m, Audit(r) \/ Reply(r) \/ Stop(r)
      PROVE  MoveOK(m)'
  BY <1>1, <1>7, <1>m, <1>t DEF Audit, Reply, Stop, Goto
<1>8. ASSUME NEW j \in Jobs,
             \/ \E k \in AnyKey : CreateHit(j, k) \/ CreateStart(j, k)
             \/ CreateStep(j) \/ Enqueue(j) \/ LogEnqueued(j)
             \/ \E t \in Tickets : RetryRead(j, t)
      PROVE  MoveOK(m)'
  BY <1>1, <1>8, <1>m, <1>t DEF CreateHit, CreateStart, CreateStep, CreateInsert,
     CreateConflict, CreateConflictHit, Enqueue, LogEnqueued, RetryRead, Goto
<1>9. ASSUME NEW b \in BulkCloses, NEW ids \in SUBSET Tickets, BulkClose(b, ids)
      PROVE  MoveOK(m)'
  BY <1>1, <1>9, <1>m, <1>t DEF BulkClose, Goto
<1>10. ~Audit(m)
  BY <1>m DEF Audit, MoveOK
<1>11. CASE UNCHANGED svcVars
  BY <1>1, <1>11 DEF svcVars
<1> QED
  BY <1>2, <1>3, <1>4, <1>5, <1>6, <1>7, <1>8, <1>9, <1>10, <1>11, RequestAssumption
  DEF SvcNext, Arrive, HandlerStep, MoveStep, Creates, Retries, Moves

\* SvcInv is inductive.
THEOREM Invariance == SvcSpec => []SvcInv
<1>1. SvcInv /\ [SvcNext]_svcVars => SvcInv'
  BY TypeStep, KeyUniqueStep, CreatePhaseStep, MovePhaseStep DEF SvcInv
<1> QED
  BY InvInit, <1>1, PTL DEF SvcSpec

-----------------------------------------------------------------------------
(* The agreement of keyed creates *)

\* Two answered creates with the same key name the same ticket.
THEOREM CreatesAgree == SvcSpec => []RepliesAgree
<1>1. SvcInv => RepliesAgree
  BY KeyAssumption
  DEF SvcInv, CreatePhase, CreateOK, KeyUnique, RepliesAgree, RealKeys
<1> QED
  BY Invariance, <1>1, PTL

\* A create with a non-empty key is never lost to a UniqueViolationError.
THEOREM KeyedCreatesAnswered == SvcSpec => []KeyedCreateAnswered
<1>1. SvcInv => KeyedCreateAnswered
  BY DEF SvcInv, CreatePhase, CreateOK, KeyedCreateAnswered
<1> QED
  BY Invariance, <1>1, PTL

-----------------------------------------------------------------------------
(* The implementation of TicketLifecycle *)

Column == [t \in Tickets |-> tickets[t].status]

\* Every step of the service is a step of the life cycle on the status column,
\* or leaves the column alone.
LEMMA LifecycleStep ==
  ASSUME SvcInv, [SvcNext]_svcVars
  PROVE  Lifecycle!LNext \/ UNCHANGED Column
<1> USE DEF SvcInv
<1>t. tickets \in [Tickets -> Row]
  BY DEF SvcTypeOK
<1>1. CASE UNCHANGED tickets
  BY <1>1 DEF Column
<1>2. ASSUME NEW c \in Creates, CreateInsert(c)
      PROVE  Lifecycle!LNext
  <2>1. tickets[c].status = Absent /\ c \in Tickets
    BY <1>2 DEF CreateInsert, CreatePhase, CreateOK, Exists, Creates
  <2>2. Column' = [Column EXCEPT ![c] = "open"]
    BY <1>2, <1>t, <2>1 DEF CreateInsert, Inserted, Column
  <2>3. Lifecycle!Open(c)
    BY <2>1, <2>2 DEF Lifecycle!Open, Lifecycle!Absent, Absent, Column
  <2> QED
    BY <2>1, <2>3 DEF Lifecycle!LNext
<1>3. ASSUME NEW r \in Moves, UpdateCommit(r) \/ ResolveCommit(r), tickets' # tickets
      PROVE  Lifecycle!LNext
  <2>1. /\ target[r] \in Tickets /\ to[r] # Absent
        /\ CanTransition(seen[r], to[r])
        /\ StatusIs(target[r], seen[r])
    BY <1>3 DEF UpdateCommit, ResolveCommit, MovePhase, MoveOK, Absent
  <2> PICK t \in Tickets, s \in Status : t = target[r] /\ s = to[r]
    BY <2>1 DEF SvcTypeOK
  <2>2. Column' = [Column EXCEPT ![t] = s]
    <3>1. CASE UpdateCommit(r)
      <4>1. tickets' = [tickets EXCEPT ![t].status = s]
        BY <2>1, <3>1 DEF UpdateCommit, WithStatus
      <4> QED
        BY <1>t, <4>1 DEF Column, Row
    <3>2. CASE ResolveCommit(r)
      <4>1. s = "resolved"
        BY <3>2 DEF ResolveCommit, MovePhase, MoveOK
      <4>2. tickets' = [[tickets EXCEPT ![t].status = s] EXCEPT ![t].resolvedAt = TRUE]
        BY <3>2, <4>1 DEF ResolveCommit, WithStatus
      <4> QED
        BY <1>t, <4>2 DEF Column, Row
    <3> QED
      BY <1>3, <3>1, <3>2
  <2>3. Lifecycle!Move(t, s)
    BY <2>1, <2>2 DEF Lifecycle!Move, Lifecycle!CanTransition, Lifecycle!Transitions,
       CanTransition, Transitions, StatusIs, Column
  <2> QED
    BY <2>3 DEF Lifecycle!LNext, Lifecycle!Status, Status
<1>4. ASSUME NEW b \in BulkCloses, NEW ids \in SUBSET Tickets, BulkClose(b, ids)
      PROVE  Lifecycle!LNext
  <2>1. PICK T \in SUBSET Tickets : T = BulkClosable(ids)
    BY DEF BulkClosable
  <2>2. \A t \in T : CanTransition(Column[t], "closed")
    <3> SUFFICES ASSUME NEW t \in T PROVE CanTransition(Column[t], "closed")
        OBVIOUS
    <3>1. Column[t] = tickets[t].status /\ tickets[t].status \in Status \cup {Absent}
      BY <1>t, <2>1 DEF Column, Row
    <3>2. tickets[t].status \notin {"resolved", "closed", Absent}
      BY <2>1 DEF BulkClosable, Exists
    <3> QED
      BY <3>1, <3>2 DEF CanTransition, Transitions, Status
  <2>3. Column' = [t \in Tickets |-> IF t \in T THEN "closed" ELSE Column[t]]
    BY <1>4, <1>t, <2>1 DEF BulkClose, BulkClosed, Column, Row
  <2>4. Lifecycle!CloseAll(T)
    BY <2>2, <2>3 DEF Lifecycle!CloseAll, Lifecycle!CanTransition,
       Lifecycle!Transitions, CanTransition, Transitions, Column
  <2> QED
    BY <2>4 DEF Lifecycle!LNext
<1>5. \/ UNCHANGED tickets
      \/ \E c \in Creates : CreateInsert(c)
      \/ \E r \in Moves : UpdateCommit(r) \/ ResolveCommit(r)
      \/ \E b \in BulkCloses, ids \in SUBSET Tickets : BulkClose(b, ids)
  BY DEF SvcNext, Arrive, HandlerStep, CreateStep, MoveStep, svcVars, CreateHit,
     CreateStart, CreateConflict, CreateConflictHit, Enqueue, LogEnqueued, Audit,
     Reply, UpdateRead, UpdateReadFields, CasFails, ResolveRead, RetryRead, Stop
<1> QED
  BY <1>1, <1>2, <1>3, <1>4, <1>5

\* The ticket service implements the ticket life cycle: whatever reads and
\* transactions interleave, every commit is a legal move of each ticket.
THEOREM ImplementsLifecycle == SvcSpec => FollowsLifecycle
<1>1. SvcInit => Lifecycle!LInit
  BY DEF SvcInit, StoreInit, NoRow, Lifecycle!LInit, Lifecycle!Absent, Absent
<1>2. SvcInv /\ [SvcNext]_svcVars => Lifecycle!LNext \/ UNCHANGED Column
  BY LifecycleStep
<1> QED
  BY Invariance, <1>1, <1>2, PTL
  DEF SvcSpec, FollowsLifecycle, Lifecycle!LSpec, Column

\* A closed ticket stays closed, and no ticket disappears.
THEOREM ClosedStaysClosed == SvcSpec => Lifecycle!ClosedIsFinal
<1>1. ASSUME SvcInv, [SvcNext]_svcVars
      PROVE  Lifecycle!ClosedStays \/ UNCHANGED Column
  <2>1. ASSUME NEW t \in Tickets, Lifecycle!Open(t)
        PROVE  Lifecycle!ClosedStays
    BY <2>1 DEF Lifecycle!Open, Lifecycle!ClosedStays, Lifecycle!Absent
  <2>2. ASSUME NEW t \in Tickets, NEW s \in Lifecycle!Status, Lifecycle!Move(t, s)
        PROVE  Lifecycle!ClosedStays
    BY <2>2 DEF Lifecycle!Move, Lifecycle!CanTransition, Lifecycle!Transitions,
       Lifecycle!ClosedStays, Lifecycle!Absent, Lifecycle!Status
  <2>3. ASSUME NEW T \in SUBSET Tickets, Lifecycle!CloseAll(T)
        PROVE  Lifecycle!ClosedStays
    BY <2>3 DEF Lifecycle!CloseAll, Lifecycle!ClosedStays, Lifecycle!Absent
  <2> QED
    BY <1>1, <2>1, <2>2, <2>3, LifecycleStep DEF Lifecycle!LNext
<1>2. SvcInv /\ [SvcNext]_svcVars => Lifecycle!ClosedStays \/ UNCHANGED Column
  BY <1>1
<1> QED
  BY Invariance, <1>2, PTL DEF SvcSpec, Lifecycle!ClosedIsFinal, Column

-----------------------------------------------------------------------------
(* The history of commits *)

\* A committed move is over, and a bulk call that has not begun closed nothing:
\* what the history says does not change any more.
AuditedEnded ==
  /\ \A r \in audit \cap Moves : pc[r] \in {"reply", "ok", "stopped"}
  /\ \A b \in BulkCloses : pc[b] = "idle" => closed[b] = {}

\* Initially nothing is committed or counted.
LEMMA EndedInit == SvcInit => AuditedEnded
  BY DEF SvcInit, StoreInit, AuditedEnded

\* A commit writes the audit row of its own request; nothing else writes one of a
\* move, and the requests that committed keep what they asked for.
LEMMA AuditStep ==
  ASSUME SvcInv, AuditedEnded, [SvcNext]_svcVars
  PROVE  /\ \A r \in audit \cap Moves :
              /\ r \in audit' /\ pc'[r] \in {"reply", "ok", "stopped"}
              /\ target'[r] = target[r] /\ seen'[r] = seen[r] /\ to'[r] = to[r]
         /\ \/ audit' \cap Moves = audit \cap Moves
            \/ \E r \in Moves : UpdateCommit(r) \/ ResolveCommit(r)
         /\ audit' = audit \/ \E r : audit' = audit \cup {r}
<1> DEFINE Kept == \A r \in audit \cap Moves :
                     /\ r \in audit' /\ pc'[r] \in {"reply", "ok", "stopped"}
                     /\ target'[r] = target[r] /\ seen'[r] = seen[r] /\ to'[r] = to[r]
           Grown == audit' = audit \/ \E r : audit' = audit \cup {r}
           Goal == /\ Kept /\ Grown
                   /\ \/ audit' \cap Moves = audit \cap Moves
                      \/ \E r \in Moves : UpdateCommit(r) \/ ResolveCommit(r)
<1> SUFFICES Goal
    OBVIOUS
<1>t. /\ pc \in [Requests -> PC] /\ target \in [Requests -> Tickets \cup {NoTicket}]
      /\ seen \in [Moves -> Status \cup {Absent}] /\ to \in [Moves -> Status \cup {Absent}]
  BY DEF SvcInv, SvcTypeOK
<1>d. Moves \cap Jobs = {} /\ Moves \cap BulkCloses = {} /\ Moves \subseteq Requests
      /\ Creates \subseteq Jobs /\ Retries \subseteq Jobs
  BY RequestAssumption DEF Moves, Requests, Creates, Retries
<1>e. \A r \in audit \cap Moves : pc[r] \in {"reply", "ok", "stopped"}
  BY DEF AuditedEnded
<1>1. ASSUME NEW r \in Jobs,
             \/ r \in Creates /\ \E k \in AnyKey : CreateHit(r, k) \/ CreateStart(r, k)
             \/ r \in Creates /\ CreateStep(r)
             \/ r \in Retries /\ \E t \in Tickets : RetryRead(r, t)
             \/ Enqueue(r) \/ LogEnqueued(r)
      PROVE  Goal
  <2>1. r \notin Moves /\ audit' = audit
    BY <1>1, <1>d DEF CreateHit, CreateStart, CreateStep, CreateInsert, CreateConflict,
       CreateConflictHit, RetryRead, Enqueue, LogEnqueued
  <2>2. Kept
    BY <1>1, <1>t, <1>d, <1>e, <2>1 DEF CreateHit, CreateStart, CreateStep, CreateInsert,
       CreateConflict, CreateConflictHit, RetryRead, Enqueue, LogEnqueued, Goto
  <2> QED
    BY <2>1, <2>2
<1>2. ASSUME NEW r \in Moves,
             \/ \E t \in Tickets, s \in Status : UpdateRead(r, t, s)
             \/ \E t \in Tickets, empty \in BOOLEAN : UpdateReadFields(r, t, empty)
             \/ \E t \in Tickets : ResolveRead(r, t)
             \/ CasFails(r)
      PROVE  Goal
  <2>1. audit' = audit /\ pc[r] \in {"idle", "txn"}
    BY <1>2 DEF UpdateRead, UpdateReadFields, ResolveRead, CasFails
  <2>2. r \notin audit
    BY <2>1, <1>e
  <2>3. Kept
    BY <1>2, <1>t, <1>d, <1>e, <2>1, <2>2
    DEF UpdateRead, UpdateReadFields, ResolveRead, CasFails, Goto
  <2> QED
    BY <2>1, <2>3
<1>3. ASSUME NEW r \in Moves, UpdateCommit(r) \/ ResolveCommit(r)
      PROVE  Goal
  <2>1. audit' = audit \cup {r} /\ pc[r] = "txn" /\ UNCHANGED <<target, seen, to>>
    BY <1>3 DEF UpdateCommit, ResolveCommit
  <2>2. Kept
    BY <1>3, <1>t, <1>d, <1>e, <2>1 DEF UpdateCommit, ResolveCommit, Goto
  <2> QED
    BY <1>3, <2>1, <2>2
<1>4. ASSUME NEW r \in Requests, Audit(r)
      PROVE  Goal
  <2>1. r \notin Moves /\ audit' = audit \cup {r} /\ UNCHANGED <<target, seen, to>>
    BY <1>4 DEF Audit, SvcInv, MovePhase, MoveOK
  <2>2. Kept
    BY <1>4, <1>t, <1>d, <1>e, <2>1 DEF Audit, Goto
  <2> QED
    BY <2>1, <2>2
<1>5. ASSUME NEW r \in Requests, Reply(r) \/ Stop(r)
      PROVE  Goal
  <2>1. audit' = audit /\ UNCHANGED <<target, seen, to>>
    BY <1>5 DEF Reply, Stop
  <2>2. Kept
    BY <1>5, <1>t, <1>d, <1>e, <2>1 DEF Reply, Stop, Goto
  <2> QED
    BY <2>1, <2>2
<1>6. ASSUME NEW b \in BulkCloses, NEW ids \in SUBSET Tickets, BulkClose(b, ids)
      PROVE  Goal
  <2>1. audit' = audit /\ UNCHANGED <<target, seen, to>> /\ b \notin Moves
    BY <1>6, <1>d DEF BulkClose
  <2>2. Kept
    BY <1>6, <1>t, <1>d, <1>e, <2>1 DEF BulkClose, Goto
  <2> QED
    BY <2>1, <2>2
<1>7. CASE UNCHANGED svcVars
  BY <1>7, <1>e DEF svcVars
<1> QED
  BY <1>1, <1>2, <1>3, <1>4, <1>5, <1>6, <1>7, <1>d
  DEF SvcNext, Arrive, HandlerStep, MoveStep, Moves

\* Where no commit runs, the committed moves are those that were.
LEMMA QuietMoves ==
  ASSUME SvcInv, AuditedEnded, [SvcNext]_svcVars, audit' \cap Moves = audit \cap Moves,
         NEW t, NEW from, NEW s
  PROVE  CommittedMoves(t, from, s)' = CommittedMoves(t, from, s)
<1>1. \A r \in audit \cap Moves :
        target'[r] = target[r] /\ seen'[r] = seen[r] /\ to'[r] = to[r]
  BY AuditStep
<1> QED
  BY <1>1 DEF CommittedMoves

\* A commit adds its own move, and it was not there before.
LEMMA CommitMoves ==
  ASSUME SvcInv, AuditedEnded, [SvcNext]_svcVars,
         NEW r \in Moves, UpdateCommit(r) \/ ResolveCommit(r), NEW t, NEW from, NEW s
  PROVE  /\ r \notin CommittedMoves(t, from, s)
         /\ target[r] = t /\ seen[r] \in from /\ to[r] \in s =>
              CommittedMoves(t, from, s)' = CommittedMoves(t, from, s) \cup {r}
         /\ ~(target[r] = t /\ seen[r] \in from /\ to[r] \in s) =>
              CommittedMoves(t, from, s)' = CommittedMoves(t, from, s)
<1>1. audit' = audit \cup {r} /\ pc[r] = "txn" /\ UNCHANGED <<target, seen, to>>
  BY DEF UpdateCommit, ResolveCommit
<1>2. r \notin audit
  BY <1>1 DEF AuditedEnded
<1> QED
  BY <1>1, <1>2 DEF CommittedMoves

\* What a commit does to the ticket it names, if it names a status.
LEMMA CommitRow ==
  ASSUME SvcInv, NEW r \in Moves, UpdateCommit(r) \/ ResolveCommit(r)
  PROVE  /\ closed' = closed
         /\ to[r] = Absent => tickets' = tickets
         /\ to[r] # Absent =>
              /\ target[r] \in Tickets
              /\ seen[r] \in Status /\ to[r] \in Status /\ CanTransition(seen[r], to[r])
              /\ tickets[target[r]].status = seen[r]
              /\ tickets'[target[r]].status = to[r]
              /\ \A t \in Tickets : t # target[r] => tickets'[t] = tickets[t]
<1>t. /\ tickets \in [Tickets -> Row]
      /\ seen \in [Moves -> Status \cup {Absent}] /\ to \in [Moves -> Status \cup {Absent}]
  BY DEF SvcInv, SvcTypeOK
<1>1. closed' = closed
  BY DEF UpdateCommit, ResolveCommit
<1>2. /\ pc[r] = "txn" /\ target[r] \in Tickets /\ Exists(target[r])
      /\ to[r] # Absent => CanTransition(seen[r], to[r])
      /\ r \in Resolves => to[r] = "resolved"
  BY DEF UpdateCommit, ResolveCommit, SvcInv, MovePhase, MoveOK
<1>3. CASE to[r] = Absent
  BY <1>1, <1>2, <1>3 DEF UpdateCommit, ResolveCommit, Absent
<1>4. CASE to[r] # Absent
  <2>1. tickets[target[r]].status = seen[r]
    BY <1>4 DEF UpdateCommit, ResolveCommit, StatusIs
  <2>2. tickets'[target[r]].status = to[r]
    BY <1>t, <1>2, <1>4 DEF UpdateCommit, ResolveCommit, WithStatus, Row
  <2>3. \A t \in Tickets : t # target[r] => tickets'[t] = tickets[t]
    BY <1>t, <1>2, <1>4 DEF UpdateCommit, ResolveCommit, WithStatus
  <2>4. seen[r] \in Status /\ to[r] \in Status
    BY <1>t, <1>2, <1>4, <2>1 DEF Exists
  <2> QED
    BY <1>1, <1>2, <1>4, <2>1, <2>2, <2>3, <2>4
<1> QED
  BY <1>3, <1>4

\* What is over stays over.
LEMMA EndedStep ==
  ASSUME SvcInv, AuditedEnded, [SvcNext]_svcVars
  PROVE  AuditedEnded'
<1>t. pc \in [Requests -> PC] /\ closed \in [BulkCloses -> SUBSET Tickets]
  BY DEF SvcInv, SvcTypeOK
<1>1. \A r \in audit' \cap Moves : pc'[r] \in {"reply", "ok", "stopped"}
  <2>1. ASSUME NEW r \in Moves, UpdateCommit(r) \/ ResolveCommit(r)
        PROVE  pc'[r] = "reply" /\ audit' = audit \cup {r}
    BY <2>1, <1>t DEF UpdateCommit, ResolveCommit, Goto, Requests
  <2> QED
    BY <2>1, AuditStep
<1>2. ASSUME NEW b \in BulkCloses, pc'[b] = "idle"
      PROVE  closed'[b] = {}
  <2>b. b \in Requests /\ b \notin Jobs /\ b \notin Moves
    BY RequestAssumption DEF Requests
  <2>1. pc[b] = "idle" /\ closed'[b] = closed[b]
    BY <1>2, <2>b, <1>t DEF SvcNext, Arrive, HandlerStep, CreateStep, MoveStep, svcVars,
       CreateHit, CreateStart, CreateInsert, CreateConflict, CreateConflictHit,
       InsertConflict, Enqueue, LogEnqueued, Audit, Reply, UpdateRead, UpdateReadFields,
       UpdateCommit, CasFails, ResolveRead, ResolveCommit, BulkClose, RetryRead, Stop, Goto,
       Creates, Retries, Moves
  <2> QED
    BY <2>1 DEF AuditedEnded
<1> QED
  BY <1>1, <1>2 DEF AuditedEnded

=============================================================================
