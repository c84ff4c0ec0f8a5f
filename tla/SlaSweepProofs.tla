--------------------------- MODULE SlaSweepProofs ---------------------------
(* The SLA sweep marks no ticket that was neither late nor overtaken while *)
(* its page was on its way, for any page limit, any thresholds and any     *)
(* number of tickets.                                                      *)
EXTENDS SlaSweep, TLAPS

SlaTyped ==
  /\ made \subseteq Tickets
  /\ rows \in [made -> SlaRow]
  /\ \E shown \in SUBSET made : page \in [shown -> SlaRow]
  /\ todo \subseteq made
  /\ now \in Nat

\* The page the sweep holds and the table agree on when a ticket was created, and
\* unless it was overtaken on its priority and on whether it may still be open.
PageOK ==
  \A t \in DOMAIN page :
    /\ rows[t].created = page[t].created
    /\ t \in overtaken \/ /\ rows[t].priority = page[t].priority
                          /\ Resolved(rows[t]) => Resolved(page[t])

\* What is overdue now has been recorded; what the sweep is about to mark was
\* overdue when it read the clock, or overtaken, and so was what it marked.
SlaInv ==
  /\ SlaTyped
  /\ PageOK
  /\ {t \in made : Overdue(rows[t])} \subseteq late
  /\ todo \subseteq late \cup overtaken
  /\ MarkedWasLate

\* The empty table and page.
LEMMA SlaInvInit == SlaInit => SlaInv
<1> SUFFICES ASSUME SlaInit PROVE SlaInv
  OBVIOUS
<1>1. made = {} /\ DOMAIN rows = {} /\ DOMAIN page = {} /\ todo = {} /\ now = 0
  BY DEF SlaInit, Empty
<1>2. rows \in [made -> SlaRow] /\ page \in [{} -> SlaRow]
  BY DEF SlaInit, Empty
<1>3. QED
  BY <1>1, <1>2 DEF SlaInv, SlaTyped, PageOK, MarkedWasLate

\* Types are kept: every write leaves a row a row.
LEMMA SlaTypedNext == SlaTyped /\ [SlaNext]_slavars => SlaTyped'
<1> SUFFICES ASSUME SlaTyped, [SlaNext]_slavars PROVE SlaTyped'
  OBVIOUS
<1> USE DEF SlaTyped, SlaRow
<1>1. ASSUME NEW t \in Tickets, NEW p \in Priorities, Arrive(t, p)
      PROVE  SlaTyped'
  <2>1. rows' \in [made' -> SlaRow] /\ made \subseteq made' /\ made' \subseteq Tickets
    BY <1>1 DEF Arrive, NewRow, Status
  <2>2. QED
    BY <1>1, <2>1 DEF Arrive
<1>2. ASSUME NEW t \in Tickets, NEW s \in Status, OperatorMoves(t, s)
      PROVE  SlaTyped'
  BY <1>2 DEF OperatorMoves
<1>3. ASSUME NEW t \in Tickets, NEW p \in Priorities, NEW escalated \in BOOLEAN,
             Triaged(t, p, escalated)
      PROVE  SlaTyped'
  <2>1. t \in made /\ rows[t] \in SlaRow
    BY <1>3 DEF Triaged
  <2>2. TriagedRow(rows[t], p, escalated) \in SlaRow
    BY <2>1 DEF TriagedRow, Status
  <2>3. QED
    BY <1>3, <2>1, <2>2 DEF Triaged
<1>4. CASE SlaTick
  BY <1>4, SlaAssumption DEF SlaTick
<1>5. CASE SweepRead
  <2>1. PICK shown \in SUBSET made : page' = [t \in shown |-> rows[t]]
    BY <1>5 DEF SweepRead
  <2>2. page' \in [shown -> SlaRow]
    BY <2>1
  <2>3. QED
    BY <1>5, <2>2 DEF SweepRead
<1>6. CASE SweepClock \/ SweepStops
  <2>1. page' \in [{} -> SlaRow]
    BY <1>6 DEF SweepClock, SweepStops, Empty
  <2>2. todo' \subseteq made
    BY <1>6 DEF SweepClock, SweepStops
  <2>3. QED
    BY <1>6, <2>1, <2>2 DEF SweepClock, SweepStops
<1>7. CASE SweepMark
  <2>1. PICK t \in todo : /\ rows' = [rows EXCEPT ![t] = [@ EXCEPT !.breached = TRUE]]
                          /\ todo' = todo \ {t}
    BY <1>7 DEF SweepMark
  <2>2. rows' \in [made -> SlaRow] /\ todo' \subseteq made
    BY <2>1
  <2>3. made' = made /\ page' = page /\ now' = now
    BY <1>7 DEF SweepMark
  <2>4. QED
    BY <2>2, <2>3
<1>8. CASE UNCHANGED slavars
  BY <1>8 DEF slavars
<1>9. QED
  BY <1>1, <1>2, <1>3, <1>4, <1>5, <1>6, <1>7, <1>8 DEF SlaNext, SlaStep

\* No ticket is deleted or created a second time, and only SweepMark marks, and
\* only what is left to do.
LEMMA RowsKept ==
  ASSUME SlaTyped, SlaNext
  PROVE  /\ made \subseteq made'
         /\ \A t \in made : rows'[t].created = rows[t].created
         /\ \A t \in made' : rows'[t].breached => t \in todo \/ (t \in made /\ rows[t].breached)
<1> USE DEF SlaTyped, SlaRow
<1>1. ASSUME NEW u \in Tickets, NEW p \in Priorities, Arrive(u, p)
      PROVE  /\ made \subseteq made'
             /\ \A t \in made : rows'[t] = rows[t]
             /\ \A t \in made' : rows'[t].breached => t \in made
  BY <1>1 DEF Arrive, NewRow
<1>2. ASSUME NEW u \in Tickets, NEW s \in Status, OperatorMoves(u, s)
      PROVE  made' = made /\ \A t \in made : /\ rows'[t].created = rows[t].created
                                             /\ rows'[t].breached = rows[t].breached
  BY <1>2 DEF OperatorMoves
<1>3. ASSUME NEW u \in Tickets, NEW p \in Priorities, NEW escalated \in BOOLEAN,
             Triaged(u, p, escalated)
      PROVE  made' = made /\ \A t \in made : /\ rows'[t].created = rows[t].created
                                             /\ rows'[t].breached = rows[t].breached
  BY <1>3 DEF Triaged, TriagedRow
<1>4. CASE SlaTick \/ SweepRead \/ SweepClock \/ SweepStops
  BY <1>4 DEF SlaTick, SweepRead, SweepClock, SweepStops
<1>5. CASE SweepMark
  BY <1>5 DEF SweepMark
<1>6. QED
  BY <1>1, <1>2, <1>3, <1>4, <1>5 DEF SlaNext, SlaStep

\* What a step leaves of the page agrees with the table as before.
LEMMA PageOKNext ==
  ASSUME SlaTyped, SlaTyped', PageOK, SlaNext
  PROVE  PageOK'
<1>1. CASE SweepRead
  BY <1>1 DEF SweepRead, PageOK
<1>2. CASE SweepClock \/ SweepStops
  <2>1. DOMAIN page' = {}
    BY <1>2 DEF SweepClock, SweepStops, Empty
  <2>2. QED
    BY <2>1 DEF PageOK
<1>3. CASE page' = page
  <2> SUFFICES ASSUME NEW t \in DOMAIN page
               PROVE  /\ rows'[t].created = page[t].created
                      /\ t \in overtaken' \/ /\ rows'[t].priority = page[t].priority
                                             /\ Resolved(rows[t])' => Resolved(page[t])
    BY <1>3 DEF PageOK, Resolved
  <2>1. t \in made /\ t \in made'
    BY RowsKept DEF SlaTyped
  <2>2. rows'[t].created = page[t].created
    BY <2>1, RowsKept DEF PageOK
  <2>3. CASE t \in overtaken \/ Overtakes(t)
    BY <1>3, <2>1, <2>2, <2>3 DEF SlaNext, History
  <2>4. CASE t \notin overtaken /\ ~Overtakes(t)
    <3>1. rows'[t].priority = rows[t].priority /\ (Resolved(rows'[t]) => Resolved(rows[t]))
      BY <2>4 DEF Overtakes
    <3>2. QED
      BY <2>2, <2>4, <3>1 DEF PageOK, Resolved
  <2>5. QED
    BY <2>3, <2>4
<1>4. QED
  BY <1>1, <1>2, <1>3
  DEF SlaNext, SlaStep, Arrive, OperatorMoves, Triaged, SlaTick, SweepMark

\* What the page shows due is overdue in the table, or was overtaken.
LEMMA DueIsOverdue ==
  ASSUME PageOK, NEW t \in DOMAIN page, Due(page[t]), t \notin overtaken
  PROVE  Overdue(rows[t])
BY DEF PageOK, Due, Overdue, Elapsed, Resolved, OpenStatuses

\* A ticket to be marked or marked stays late or overtaken.
LEMMA StaysOvertaken ==
  ASSUME SlaNext, NEW t \in made', t \in late \cup overtaken, t \in todo' \/ rows'[t].breached
  PROVE  t \in late' \cup overtaken'
BY DEF SlaNext, History

\* What is left to do was left before, or is overdue by the clock just read.
LEMMA TodoIsLate ==
  ASSUME SlaInv, SlaTyped', SlaNext
  PROVE  todo' \subseteq late' \cup overtaken'
<1> SUFFICES ASSUME NEW t \in todo' PROVE t \in late' \cup overtaken'
  OBVIOUS
<1>1. t \in made'
  BY DEF SlaTyped
<1>2. t \in late \cup overtaken
  <2>1. CASE SweepClock
    <3>1. t \in DOMAIN page /\ Due(page[t]) /\ t \in made
      BY <2>1, <1>1 DEF SweepClock
    <3>2. QED
      BY <3>1, DueIsOverdue DEF SlaInv
  <2>2. CASE ~SweepClock
    <3>1. t \in todo
      BY <2>2 DEF SlaNext, SlaStep, Arrive, OperatorMoves, Triaged, SlaTick, SweepRead,
                  SweepMark, SweepStops
    <3>2. QED
      BY <3>1 DEF SlaInv
  <2>3. QED
    BY <2>1, <2>2
<1>3. QED
  BY <1>1, <1>2, StaysOvertaken

\* Every step keeps the invariant.
LEMMA SlaInvNext == SlaInv /\ [SlaNext]_slavars => SlaInv'
<1> SUFFICES ASSUME SlaInv, [SlaNext]_slavars PROVE SlaInv'
  OBVIOUS
<1>1. SlaTyped'
  BY SlaTypedNext DEF SlaInv
<1>2. CASE SlaNext
  <2>1. PageOK'
    BY <1>1, <1>2, PageOKNext DEF SlaInv
  <2>2. {t \in made' : Overdue(rows[t])'} \subseteq late'
    BY <1>2 DEF SlaNext, History
  <2>3. todo' \subseteq late' \cup overtaken'
    BY <1>1, <1>2, TodoIsLate
  <2>4. ASSUME NEW t \in made', rows'[t].breached
        PROVE  t \in late' \cup overtaken'
    <3>1. t \in late \cup overtaken
      BY <1>2, <2>4, RowsKept DEF SlaInv, MarkedWasLate
    <3>2. QED
      BY <1>2, <2>4, <3>1, StaysOvertaken
  <2>5. QED
    BY <1>1, <2>1, <2>2, <2>3, <2>4 DEF SlaInv, MarkedWasLate
<1>3. CASE UNCHANGED slavars
  BY <1>1, <1>3 DEF slavars, SlaInv, MarkedWasLate, PageOK, Overdue, Elapsed, Resolved
<1>4. QED
  BY <1>2, <1>3

\* The inductive invariant holds in every state.
THEOREM SlaInvariance == SlaSpec => []SlaInv
BY SlaInvInit, SlaInvNext, PTL DEF SlaSpec

\* A marked ticket was late, or was overtaken between the two reads of its sweep.
THEOREM OnlyLateIsMarked == SlaSpec => []MarkedWasLate
<1>1. SlaInv => MarkedWasLate
  BY DEF SlaInv
<1>2. QED
  BY <1>1, SlaInvariance, PTL

\* No ticket is created after now.
LEMMA CreatedBeforeNow ==
  ASSUME SlaTypeOK, SlaTyped, SlaTyped', SlaNext
  PROVE  \A t \in made' : rows'[t].created <= now'
<1> USE DEF SlaTypeOK, SlaTyped, SlaRow
<1>1. ASSUME NEW t \in Tickets, NEW p \in Priorities, Arrive(t, p)
      PROVE  \A u \in made' : rows'[u].created <= now'
  BY <1>1 DEF Arrive, NewRow
<1>2. ASSUME NEW t \in Tickets, NEW s \in Status, OperatorMoves(t, s)
      PROVE  \A u \in made' : rows'[u].created <= now'
  BY <1>2 DEF OperatorMoves
<1>3. ASSUME NEW t \in Tickets, NEW p \in Priorities, NEW escalated \in BOOLEAN,
             Triaged(t, p, escalated)
      PROVE  \A u \in made' : rows'[u].created <= now'
  BY <1>3 DEF Triaged, TriagedRow
<1>4. CASE SlaTick
  <2>1. now' = now + 1 /\ made' = made /\ rows' = rows
    BY <1>4 DEF SlaTick
  <2>2. ASSUME NEW t \in made PROVE rows[t].created <= now + 1
    <3>1. now \in Nat /\ rows[t].created <= now
      OBVIOUS
    <3>2. rows[t].created \in Nat
      OBVIOUS
    <3>3. QED
      BY <3>1, <3>2
  <2>3. QED
    BY <2>1, <2>2
<1>5. CASE SweepRead \/ SweepClock \/ SweepStops
  BY <1>5 DEF SweepRead, SweepClock, SweepStops
<1>6. CASE SweepMark
  BY <1>6 DEF SweepMark
<1>7. QED
  BY <1>1, <1>2, <1>3, <1>4, <1>5, <1>6 DEF SlaNext, SlaStep

\* The state of the sweep stays in its type, for any number of tickets and any
\* clock: what was late and what is to be marked are rows, made before now.
THEOREM SlaTypeCorrect == SlaSpec => []SlaTypeOK
<1>1. SlaInit => SlaTypeOK
  <2> SUFFICES ASSUME SlaInit PROVE SlaTypeOK
    OBVIOUS
  <2>1. SlaTyped
    BY SlaInvInit DEF SlaInv
  <2>2. QED
    BY <2>1, SlaAssumption DEF SlaInit, SlaTypeOK, SlaTyped
<1>2. SlaTypeOK /\ [SlaNext]_slavars => SlaTypeOK'
  <2> SUFFICES ASSUME SlaTypeOK, [SlaNext]_slavars PROVE SlaTypeOK'
    OBVIOUS
  <2>1. SlaTyped /\ SlaTyped'
    <3>1. SlaTyped
      BY SlaAssumption DEF SlaTypeOK, SlaTyped
    <3>2. QED
      BY <3>1, SlaTypedNext
  <2>2. CASE SlaNext
    <3>1. made \subseteq made' /\ stops' \in 0..MaxStops /\ now' \in 0..MaxTime
      BY <2>2, SlaAssumption
      DEF SlaNext, SlaStep, Arrive, OperatorMoves, Triaged, SlaTick, SweepRead, SweepClock,
          SweepMark, SweepStops, SlaTypeOK
    <3>2. late' \subseteq made' /\ overtaken' \subseteq made'
      BY <2>2, <3>1 DEF SlaNext, History, SlaTypeOK
    <3>3. \A t \in made' : rows'[t].created <= now'
      BY <2>1, <2>2, CreatedBeforeNow
    <3>4. QED
      BY <2>1, <3>1, <3>2, <3>3 DEF SlaTypeOK, SlaTyped
  <2>3. CASE UNCHANGED slavars
    BY <2>3 DEF slavars, SlaTypeOK
  <2>4. QED
    BY <2>2, <2>3
<1>3. QED
  BY <1>1, <1>2, PTL DEF SlaSpec

=============================================================================
