--------------------------- MODULE PipelineProofs ---------------------------
(* What the pipeline does with every text and every answer of the LLM, and *)
(* how a worker's round robin shares its tickets out.                      *)
EXTENDS Pipeline, FiniteSetTheorems, TLAPS

\* A run that waits for the LLM is one whose text needs it.
Waiting ==
  \A j \in Runs : runs[j].at = "llm" =>
    runs[j].worker \in Workers /\ runs[j].text \in Texts
    /\ runs[j].breached \in BOOLEAN /\ NeedsLLM(runs[j].text)

\* An entry of a cache is an answer that came TTL before it expires.
EntriesAnswered ==
  \A w \in Workers : \A e \in cache[w] : \E a \in answered :
    /\ a.worker = w /\ a.head = e.head /\ a.answer = e.answer
    /\ a.time \in Nat /\ a.time <= now /\ e.expires = a.time + TTL

\* The classification a result may have.
Sourced(r) ==
  \/ r.class = Classification(r.text, RouteText(r.text), FALSE)
  \/ /\ NeedsLLM(r.text)
     /\ \E a \in answered :
          /\ a.worker = r.worker /\ a.head = r.text.head
          /\ a.time <= r.time /\ r.time < a.time + TTL
          /\ r.class = Classification(r.text, a.answer, TRUE)

\* What the later stages make of it.
Derived(r) ==
  /\ r.predicted = PredictedPriority(r.class, r.breached)
  /\ r.escalation = Escalation(r.class, r.breached)
  /\ r.actions = Actions(r.class, r.escalation, r.breached)
  /\ r.team = Match(r.class)[1]
  /\ r.queue = QueuePriority(r.class, r.escalation)
  /\ r.flags = AuditFlags(r.class, r.escalation, r.breached)

ResultsFollow ==
  \A r \in results : r.text \in Texts /\ r.breached \in BOOLEAN /\ Sourced(r) /\ Derived(r)

PipeInv ==
  /\ now \in Nat
  /\ DOMAIN runs = Runs /\ runs = [j \in Runs |-> runs[j]]
  /\ cache = [w \in Workers |-> cache[w]]
  /\ Waiting /\ EntriesAnswered /\ ResultsFollow

\* The initial states: nothing ran.
LEMMA PipeInvInit == PipeInit => PipeInv
BY PipelineAssumption
DEF PipeInit, PipeInv, Waiting, EntriesAnswered, ResultsFollow

\* Finish adds one result, which follows from its classification if that has a
\* source.
LEMMA FinishFollows ==
  ASSUME NEW j \in Runs, NEW w \in Workers, NEW t \in Texts, NEW breached \in BOOLEAN, NEW c,
         Finish(j, w, t, breached, c), ResultsFollow,
         answered \subseteq answered', now' = now,
         \/ c = Classification(t, RouteText(t), FALSE)
         \/ /\ NeedsLLM(t)
            /\ \E a \in answered' :
                 /\ a.worker = w /\ a.head = t.head
                 /\ a.time <= now /\ now < a.time + TTL
                 /\ c = Classification(t, a.answer, TRUE)
  PROVE  ResultsFollow'
<1> DEFINE e == Escalation(c, breached)
           team == Match(c)[1]
           new == [run |-> j, worker |-> w, text |-> t, breached |-> breached, class |-> c,
                   predicted |-> PredictedPriority(c, breached), escalation |-> e,
                   actions |-> Actions(c, e, breached), team |-> team,
                   engineer |-> Roster[team][(robin[w][team] % Len(Roster[team])) + 1],
                   queue |-> QueuePriority(c, e), flags |-> AuditFlags(c, e, breached),
                   time |-> now]
<1>1. results' = results \cup {new}
  BY DEF Finish
<1>2. PICK r : r = new /\ results' = results \cup {r}
  BY <1>1
<1>3. Derived(r)
  BY <1>2 DEF Derived
<1>4. r.text \in Texts /\ r.breached \in BOOLEAN /\ Sourced(r)'
  <2>1. r.class = c /\ r.text = t /\ r.worker = w /\ r.breached = breached /\ r.time = now
    BY <1>2
  <2>2. QED
    BY <2>1 DEF Sourced
<1>5. ASSUME NEW q \in results
      PROVE  q.text \in Texts /\ q.breached \in BOOLEAN /\ Sourced(q)' /\ Derived(q)
  BY DEF ResultsFollow, Sourced
<1>6. QED
  BY <1>2, <1>3, <1>4, <1>5 DEF ResultsFollow, Derived

\* Results stay what they are while answers come.
LEMMA ResultsKept ==
  ASSUME ResultsFollow, results' = results, answered' = answered
  PROVE  ResultsFollow'
<1>1. ASSUME NEW r \in results
      PROVE  r.text \in Texts /\ r.breached \in BOOLEAN /\ Sourced(r)' /\ Derived(r)
  BY DEF ResultsFollow, Sourced
<1>2. QED
  BY <1>1 DEF ResultsFollow, Derived

\* A run that ends no longer waits.
LEMMA FinishWaits ==
  ASSUME NEW j \in Runs, NEW w, NEW t, NEW breached, NEW c,
         Finish(j, w, t, breached, c), PipeInv
  PROVE  DOMAIN runs' = Runs /\ runs' = [k \in Runs |-> runs'[k]] /\ Waiting'
BY DEF Finish, PipeInv, Waiting

\* Every step keeps the invariant.
LEMMA PipeInvNext == PipeInv /\ [PipeNext]_pvars => PipeInv'
<1> SUFFICES ASSUME PipeInv, [PipeNext]_pvars PROVE PipeInv'
  OBVIOUS
<1> USE PipelineAssumption
<1>1. ASSUME NEW j \in Runs, NEW w \in Workers, NEW t \in Texts, NEW breached \in BOOLEAN,
             RunByKeywords(j, w, t, breached)
      PROVE  PipeInv'
  <2>1. Finish(j, w, t, breached, Classification(t, RouteText(t), FALSE))
        /\ UNCHANGED <<cache, answered, now>>
    BY <1>1 DEF RunByKeywords
  <2>2. ResultsFollow'
    BY <2>1, FinishFollows DEF PipeInv
  <2>3. DOMAIN runs' = Runs /\ runs' = [k \in Runs |-> runs'[k]] /\ Waiting'
    BY <2>1, FinishWaits
  <2>4. QED
    BY <2>1, <2>2, <2>3 DEF PipeInv, EntriesAnswered
<1>2. ASSUME NEW j \in Runs, NEW w \in Workers, NEW t \in Texts, NEW breached \in BOOLEAN,
             RunCached(j, w, t, breached)
      PROVE  PipeInv'
  <2>1. PICK e \in Hits(w, t) :
          Finish(j, w, t, breached, Classification(t, e.answer, TRUE))
    BY <1>2 DEF RunCached
  <2>2. NeedsLLM(t) /\ UNCHANGED <<cache, answered, now>>
    BY <1>2 DEF RunCached
  <2>3. PICK a \in answered :
          /\ a.worker = w /\ a.head = t.head /\ a.answer = e.answer
          /\ a.time <= now /\ now < a.time + TTL
    BY <2>1 DEF Hits, Fresh, PipeInv, EntriesAnswered
  <2>4. /\ NeedsLLM(t)
        /\ \E b \in answered' :
             /\ b.worker = w /\ b.head = t.head
             /\ b.time <= now /\ now < b.time + TTL
             /\ Classification(t, e.answer, TRUE) = Classification(t, b.answer, TRUE)
    BY <2>2, <2>3
  <2>5. ResultsFollow'
    BY <2>1, <2>2, <2>4, FinishFollows DEF PipeInv
  <2>6. DOMAIN runs' = Runs /\ runs' = [k \in Runs |-> runs'[k]] /\ Waiting'
    BY <2>1, FinishWaits
  <2>7. QED
    BY <2>2, <2>5, <2>6 DEF PipeInv, EntriesAnswered
<1>3. ASSUME NEW j \in Runs, NEW w \in Workers, NEW t \in Texts, NEW breached \in BOOLEAN,
             AskLLM(j, w, t, breached)
      PROVE  PipeInv'
  <2>1. Waiting' /\ DOMAIN runs' = Runs /\ runs' = [k \in Runs |-> runs'[k]]
    BY <1>3 DEF AskLLM, PipeInv, Waiting
  <2>2. QED
    BY <1>3, <2>1, ResultsKept DEF AskLLM, PipeInv, EntriesAnswered
<1>4. ASSUME NEW j \in Runs, NEW a \in Answers, LLMAnswers(j, a)
      PROVE  PipeInv'
  <2> DEFINE w == runs[j].worker
             t == runs[j].text
             new == [worker |-> w, head |-> t.head, answer |-> a, time |-> now]
             entry == [head |-> t.head, answer |-> a, expires |-> now + TTL]
  <2>1. w \in Workers /\ t \in Texts /\ runs[j].breached \in BOOLEAN /\ NeedsLLM(t)
    BY <1>4 DEF LLMAnswers, PipeInv, Waiting
  <2>2. /\ cache' = [cache EXCEPT ![w] = Cached(cache[w], t, a)]
        /\ answered' = answered \cup {new}
        /\ Finish(j, w, t, runs[j].breached, Classification(t, a, TRUE))
        /\ now' = now
    BY <1>4 DEF LLMAnswers
  <2>3. new \in answered' /\ new.time <= now /\ now < new.time + TTL
        /\ new.worker = w /\ new.head = t.head /\ new.answer = a
    BY <2>2 DEF PipeInv
  <2>4. ResultsFollow'
    BY <2>1, <2>2, <2>3, FinishFollows DEF PipeInv
  <2>5. DOMAIN runs' = Runs /\ runs' = [k \in Runs |-> runs'[k]] /\ Waiting'
    BY <2>2, FinishWaits
  <2>6. Cached(cache[w], t, a) \subseteq cache[w] \cup {entry}
    BY DEF Cached
  <2>7. ASSUME NEW v \in Workers, NEW e \in cache'[v]
        PROVE  \E b \in answered' :
                 /\ b.worker = v /\ b.head = e.head /\ b.answer = e.answer
                 /\ b.time \in Nat /\ b.time <= now' /\ e.expires = b.time + TTL
    <3>1. e \in cache[v] \/ (v = w /\ e = entry)
      BY <2>1, <2>2, <2>6 DEF PipeInv
    <3>2. CASE e \in cache[v]
      BY <2>2, <3>2 DEF PipeInv, EntriesAnswered
    <3>3. CASE v = w /\ e = entry
      BY <2>2, <2>3, <3>3 DEF PipeInv
    <3>4. QED
      BY <3>1, <3>2, <3>3
  <2>8. cache' = [v \in Workers |-> cache'[v]]
    BY <2>1, <2>2 DEF PipeInv
  <2>9. QED
    BY <2>2, <2>4, <2>5, <2>7, <2>8 DEF PipeInv, EntriesAnswered
<1>5. ASSUME NEW j \in Runs, LLMFails(j)
      PROVE  PipeInv'
  <2> DEFINE w == runs[j].worker
             t == runs[j].text
  <2>1. w \in Workers /\ t \in Texts /\ runs[j].breached \in BOOLEAN
    BY <1>5 DEF LLMFails, PipeInv, Waiting
  <2>2. Finish(j, w, t, runs[j].breached, Classification(t, RouteText(t), FALSE))
        /\ UNCHANGED <<cache, answered, now>>
    BY <1>5 DEF LLMFails
  <2>3. ResultsFollow'
    BY <2>1, <2>2, FinishFollows DEF PipeInv
  <2>4. DOMAIN runs' = Runs /\ runs' = [k \in Runs |-> runs'[k]] /\ Waiting'
    BY <2>2, FinishWaits
  <2>5. QED
    BY <2>2, <2>3, <2>4 DEF PipeInv, EntriesAnswered
<1>6. ASSUME NEW j \in Runs, CancelRun(j)
      PROVE  PipeInv'
  <2>1. Waiting' /\ DOMAIN runs' = Runs /\ runs' = [k \in Runs |-> runs'[k]]
    BY <1>6 DEF CancelRun, PipeInv, Waiting
  <2>2. QED
    BY <1>6, <2>1, ResultsKept DEF CancelRun, PipeInv, EntriesAnswered
<1>7. ASSUME NEW w \in Workers, WorkerEnds(w)
      PROVE  PipeInv'
  <2>1. Waiting' /\ DOMAIN runs' = Runs /\ runs' = [k \in Runs |-> runs'[k]]
    BY <1>7 DEF WorkerEnds, PipeInv, Waiting
  <2>2. QED
    BY <1>7, <2>1, ResultsKept DEF WorkerEnds, PipeInv, EntriesAnswered
<1>8. CASE PipeTick
  <2>1. EntriesAnswered'
    BY <1>8 DEF PipeTick, PipeInv, EntriesAnswered
  <2>2. Waiting' /\ ResultsFollow'
    BY <1>8, ResultsKept DEF PipeTick, PipeInv, Waiting
  <2>3. QED
    BY <1>8, <2>1, <2>2 DEF PipeTick, PipeInv
<1>9. CASE UNCHANGED pvars
  BY <1>9, ResultsKept DEF pvars, PipeInv, Waiting, EntriesAnswered
<1>10. QED
  BY <1>1, <1>2, <1>3, <1>4, <1>5, <1>6, <1>7, <1>8, <1>9 DEF PipeNext

\* The results of the pipeline follow from their texts and the answers of the LLM.
THEOREM PipeInvariance == PipeSpec => []PipeInv
BY PipeInvInit, PipeInvNext, PTL DEF PipeSpec

\* The fields of a classification.
LEMMA ClassFields ==
  ASSUME NEW t \in Texts, NEW base, NEW fromLLM \in BOOLEAN,
         NEW c, c = Classification(t, base, fromLLM)
  PROVE  /\ ~fromLLM => ~c.llm
         /\ c.ruled <=> t.outage
         /\ c.urgent = (c.priority \in {"high", "critical"})
         /\ t.outage => /\ c.priority = "critical" /\ c.intent = "technical"
                       /\ c.urgent /\ RuleCategory(t) = "technical"
<1>1. t.outage \in BOOLEAN
  BY PipelineAssumption DEF Text
<1>2. (~fromLLM => ~c.llm) /\ (c.ruled <=> t.outage) /\ c.urgent = (c.priority \in {"high", "critical"})
  BY DEF Classification
<1>3. t.outage => c.priority = "critical"
  BY DEF Classification
<1>4. t.outage => RuleCategory(t) = "technical"
  BY DEF RuleCategory
<1>5. t.outage => c.intent = "technical"
  BY <1>4 DEF Classification
<1>6. QED
  BY <1>1, <1>2, <1>3, <1>4, <1>5

\* The five agents agree on an outage, whatever else its text says.
THEOREM OutagesHandled == PipeSpec => []OutageHandled
<1>1. PipeInv => OutageHandled
  <2> SUFFICES ASSUME PipeInv, NEW r \in results, r.text.outage
               PROVE  /\ r.escalation.immediate /\ r.team = "sre_team" /\ r.queue = 1
                      /\ {"page_on_call_engineer", "create_incident_record"} \subseteq r.actions
                      /\ r.predicted \in {"high", "critical"}
                      /\ ~r.class.llm
    BY DEF OutageHandled
  <2>1. Sourced(r) /\ Derived(r) /\ r.breached \in BOOLEAN
    BY DEF PipeInv, ResultsFollow
  <2>2. RuleCategory(r.text) = "technical"
    BY DEF RuleCategory
  <2>3. r.class = Classification(r.text, RouteText(r.text), FALSE)
    BY <2>1, <2>2 DEF Sourced, NeedsLLM
  <2>4. /\ r.class.intent = "technical" /\ r.class.priority = "critical"
        /\ r.class.urgent /\ r.class.ruled /\ ~r.class.llm
    <3>1. r.text \in Texts
      BY DEF PipeInv, ResultsFollow
    <3>2. PICK base, fromLLM : /\ fromLLM \in BOOLEAN /\ ~fromLLM
                               /\ r.class = Classification(r.text, base, fromLLM)
      BY <2>3
    <3>3. ~r.class.llm /\ r.class.ruled
      BY <3>1, <3>2, ClassFields
    <3>4. r.class.priority = "critical" /\ r.class.intent = "technical" /\ r.class.urgent
      BY <3>1, <3>2, ClassFields
    <3>5. QED
      BY <3>3, <3>4
  <2>5. r.escalation.immediate
    BY <2>1, <2>4 DEF Derived, Escalation
  <2>6. r.team = "sre_team" /\ r.queue = 1
    BY <2>1, <2>4, <2>5 DEF Derived, Match, QueuePriority
  <2>7. {"page_on_call_engineer", "create_incident_record"} \subseteq r.actions
    BY <2>1, <2>4, <2>5 DEF Derived, Actions
  <2>8. r.predicted \in {"high", "critical"}
    BY <2>1, <2>4 DEF Derived, PredictedPriority, PriorityScore, Weight, HighImpact
  <2>9. QED
    BY <2>4, <2>5, <2>6, <2>7, <2>8
<1>2. QED
  BY <1>1, PipeInvariance, PTL

\* A technical issue or a bug reaches the threshold of escalation only with what
\* makes its priority high.
LEMMA EscalationIsHigh ==
  ASSUME NEW c, NEW breached \in BOOLEAN,
         c.intent \in {"technical", "bug"},
         c.urgent = (c.priority \in {"high", "critical"}),
         c.ruled => c.priority = "critical",
         Escalation(c, breached).escalate
  PROVE  PredictedPriority(c, breached) \in {"high", "critical"}
<1>1. c.priority = "critical"
  <2> SUFFICES ASSUME c.priority # "critical" PROVE FALSE
    OBVIOUS
  <2>1. EscalationScore(Signals(c, breached)) >= 40
    BY DEF Escalation
  <2>2. "critical_intent" \notin Signals(c, breached)
        /\ "critical_priority" \notin Signals(c, breached)
    BY DEF Signals, HighImpact
  <2>3. QED
    BY <2>1, <2>2 DEF EscalationScore, Weight
<1>2. HighImpact(c) /\ c.urgent
  BY <1>1 DEF HighImpact
<1>3. PriorityScore(c, breached) >= 40
  BY <1>2 DEF PriorityScore, Weight
<1>4. QED
  BY <1>3 DEF PredictedPriority

\* The predictor's tables and the detector's agree on technical issues and bugs.
THEOREM EscalatedAreHigh == PipeSpec => []EscalatedAtLeastHigh
<1>1. PipeInv => EscalatedAtLeastHigh
  <2> SUFFICES ASSUME PipeInv, NEW r \in results,
                      r.escalation.escalate, r.class.intent \in {"technical", "bug"}
               PROVE  r.predicted \in {"high", "critical"}
    BY DEF EscalatedAtLeastHigh
  <2>1. Sourced(r) /\ Derived(r) /\ r.breached \in BOOLEAN
    BY DEF PipeInv, ResultsFollow
  <2>2. /\ r.class.urgent = (r.class.priority \in {"high", "critical"})
        /\ r.class.ruled => r.class.priority = "critical"
    <3>1. r.text \in Texts
      BY DEF PipeInv, ResultsFollow
    <3>2. PICK base, fromLLM : fromLLM \in BOOLEAN /\ r.class = Classification(r.text, base, fromLLM)
      BY <2>1 DEF Sourced
    <3>3. QED
      BY <3>1, <3>2, ClassFields
  <2>3. QED
    BY <2>1, <2>2, EscalationIsHigh DEF Derived
<1>2. QED
  BY <1>1, PipeInvariance, PTL

\* An answer served is one the LLM gave less than TTL ago.
THEOREM ServedAnswersAreRecent == PipeSpec => []CacheServesRecent
<1>1. PipeInv => CacheServesRecent
  <2> SUFFICES ASSUME PipeInv, NEW r \in results, r.class.llm
               PROVE  \E a \in answered :
                        /\ a.worker = r.worker /\ a.head = r.text.head
                        /\ a.time <= r.time /\ r.time < a.time + TTL
                        /\ r.class = Classification(r.text, a.answer, TRUE)
    BY DEF CacheServesRecent
  <2>1. Sourced(r) /\ r.text \in Texts
    BY DEF PipeInv, ResultsFollow
  <2>2. r.class # Classification(r.text, RouteText(r.text), FALSE)
    BY <2>1, ClassFields
  <2>3. QED
    BY <2>1, <2>2 DEF Sourced
<1>2. QED
  BY <1>1, PipeInvariance, PTL

\* The first of the highest scores is a highest.
LEMMA BestIsHighest ==
  ASSUME NEW scores \in [1..4 -> Nat]
  PROVE  Best(scores) \in 1..4 /\ \A k \in 1..4 : scores[k] <= scores[Best(scores)]
<1> DEFINE First(i) == \A k \in 1..4 : scores[k] <= scores[i] /\ (scores[k] = scores[i] => i <= k)
<1>1. scores[1] \in Nat /\ scores[2] \in Nat /\ scores[3] \in Nat /\ scores[4] \in Nat
  OBVIOUS
<1>2. First(1) \/ First(2) \/ First(3) \/ First(4)
  BY <1>1
<1>3. \E i \in 1..4 : First(i)
  BY <1>2
<1>4. Best(scores) \in 1..4 /\ First(Best(scores))
  BY <1>3 DEF Best
<1>5. QED
  BY <1>4

\* A quotient is at least a bound that its divisor allows.
LEMMA QuotientAtLeast ==
  ASSUME NEW n \in Nat, NEW d \in Nat, d > 0, NEW q \in Nat, n >= q * d
  PROVE  n \div d >= q
<1>1. n \div d \in Int /\ n < (n \div d + 1) * d
  OBVIOUS
<1>2. QED
  <2> DEFINE m == n \div d
  <2> SUFFICES ASSUME m < q PROVE FALSE
    BY <1>1
  <2> HIDE DEF m
  <2>1. m \in Int /\ m + 1 <= q
    BY <1>1 DEF m
  <2>2. (m + 1) * d <= q * d
    BY <2>1
  <2>3. n < (m + 1) * d
    BY <1>1 DEF m
  <2>4. (m + 1) * d \in Int /\ q * d \in Int
    BY <2>1
  <2>5. QED
    BY <2>2, <2>3, <2>4

\* The keyword tables are at least half sure of what they say.
LEMMA TablesConfident ==
  ASSUME NEW scores \in [1..4 -> Nat]
  PROVE  TableConfidence(scores) \in Nat /\ TableConfidence(scores) >= 500
<1>1. CASE ~Scored(scores)
  BY <1>1 DEF TableConfidence
<1>2. CASE Scored(scores)
  <2> DEFINE b == scores[Best(scores)]
             d == Total(scores)
  <2>1. b \in Nat /\ \A k \in 1..4 : scores[k] <= b
    BY BestIsHighest
  <2>2. d \in Nat /\ d > 0 /\ d <= 4 * b
    <3>1. scores[1] \in Nat /\ scores[2] \in Nat /\ scores[3] \in Nat /\ scores[4] \in Nat
      OBVIOUS
    <3>2. scores[1] <= b /\ scores[2] <= b /\ scores[3] <= b /\ scores[4] <= b
      BY <2>1
    <3>3. d = scores[1] + scores[2] + scores[3] + scores[4]
      BY DEF Total
    <3>4. scores[1] > 0 \/ scores[2] > 0 \/ scores[3] > 0 \/ scores[4] > 0
      BY <1>2 DEF Scored
    <3> HIDE DEF b, d
    <3>5. QED
      BY <2>1, <3>1, <3>2, <3>3, <3>4
  <2>3. (1000 * b) \div d >= 250
    <3> HIDE DEF b, d
    <3>1. 1000 * b \in Nat /\ 1000 * b >= 250 * d
      BY <2>1, <2>2
    <3>2. QED
      BY <2>2, <3>1, QuotientAtLeast
  <2>4. (1000 * b) \div d \in Int
    BY <2>1, <2>2
  <2>5. TableConfidence(scores) = Lower(900, (1000 * b) \div d + 300)
    BY <1>2 DEF TableConfidence
  <2>6. QED
    BY <2>3, <2>4, <2>5 DEF Lower
<1>3. QED
  BY <1>1, <1>2

\* So is the router.
LEMMA RouterConfident ==
  ASSUME NEW t \in Text
  PROVE  RouteText(t).confidence \in Nat /\ RouteText(t).confidence >= 500
<1>1. t.cats \in [1..4 -> Nat] /\ t.pris \in [1..4 -> Nat]
  BY ScoreAssumption DEF Text
<1>2. /\ TableConfidence(t.cats) \in Nat /\ TableConfidence(t.cats) >= 500
      /\ TableConfidence(t.pris) \in Nat /\ TableConfidence(t.pris) >= 500
  BY <1>1, TablesConfident
<1>3. (TableConfidence(t.cats) + TableConfidence(t.pris)) \div 2 \in Nat
      /\ (TableConfidence(t.cats) + TableConfidence(t.pris)) \div 2 >= 500
  BY <1>2
<1>4. QED
  BY <1>3 DEF RouteText

\* An escalation by score has signals.
LEMMA EscalationExplained ==
  ASSUME NEW c, NEW breached, Escalation(c, breached).immediate
  PROVE  Escalation(c, breached).signals # {}
<1>1. CASE c.ruled
  BY <1>1 DEF Escalation
<1>2. CASE ~c.ruled
  <2>1. EscalationScore(Signals(c, breached)) >= 60
    BY <1>2 DEF Escalation
  <2>2. EscalationScore({}) = 0
    BY DEF EscalationScore, Weight
  <2>3. Signals(c, breached) # {}
    BY <2>1, <2>2
  <2>4. QED
    BY <1>2, <2>3 DEF Escalation
<1>3. QED
  BY <1>1, <1>2

\* Only a prediction of "high" is uncertain, and only if the score is below 50.
LEMMA UncertainIsHigh ==
  ASSUME NEW c, NEW breached \in BOOLEAN,
         PriorityConfidence(c, breached) < 60
  PROVE  /\ PredictedPriority(c, breached) = "high"
         /\ ~(HighImpact(c) /\ c.intent = "technical" /\ c.urgent)
<1>1. PriorityScore(c, breached) \in Nat
  BY DEF PriorityScore, Weight
<1>2. PriorityScore(c, breached) >= 40 /\ PriorityScore(c, breached) < 50
  BY <1>1 DEF PriorityConfidence, Lower
<1>3. PredictedPriority(c, breached) = "high"
  BY <1>1, <1>2 DEF PredictedPriority
<1>4. ASSUME HighImpact(c), c.intent = "technical", c.urgent
      PROVE  FALSE
  BY <1>2, <1>4 DEF PriorityScore, Weight
<1>5. QED
  BY <1>3, <1>4

\* The audit's flags are about doubt in an answer of the LLM or a score near a
\* threshold, never about an escalation without signals.
THEOREM FlagsAreDoubt == PipeSpec => []AuditFlagsDoubt
<1>1. PipeInv => AuditFlagsDoubt
  <2> SUFFICES ASSUME PipeInv, NEW r \in results
               PROVE  /\ "unexplained_escalation" \notin r.flags
                      /\ "low_intent_confidence" \in r.flags => r.class.llm
                      /\ "uncertain_priority" \in r.flags => r.predicted = "high" /\ ~r.text.outage
    BY DEF AuditFlagsDoubt
  <2>1. Sourced(r) /\ Derived(r) /\ r.breached \in BOOLEAN /\ r.text \in Texts
    BY DEF PipeInv, ResultsFollow
  <2>2. "unexplained_escalation" \notin r.flags
    BY <2>1, EscalationExplained DEF Derived, AuditFlags
  <2>3. "low_intent_confidence" \in r.flags => r.class.llm
    <3> SUFFICES ASSUME ~r.class.llm, r.class.confidence < 500 PROVE FALSE
      BY <2>1 DEF Derived, AuditFlags
    <3>1. r.class = Classification(r.text, RouteText(r.text), FALSE)
      <4>1. ASSUME NEW a, r.class = Classification(r.text, a.answer, TRUE) PROVE r.class.llm
        BY <4>1 DEF Classification
      <4>2. QED
        BY <2>1, <4>1 DEF Sourced
    <3>2. r.class.confidence = 1000 \/ r.class.confidence = RouteText(r.text).confidence
      BY <3>1 DEF Classification
    <3>3. RouteText(r.text).confidence \in Nat /\ RouteText(r.text).confidence >= 500
      BY <2>1, RouterConfident, PipelineAssumption
    <3>4. QED
      BY <3>2, <3>3
  <2>4. ASSUME "uncertain_priority" \in r.flags
        PROVE  r.predicted = "high" /\ ~r.text.outage
    <3>1. PICK base, fromLLM : fromLLM \in BOOLEAN /\ r.class = Classification(r.text, base, fromLLM)
      BY <2>1 DEF Sourced
    <3>2. /\ r.class.urgent = (r.class.priority \in {"high", "critical"})
          /\ r.text.outage => /\ r.class.priority = "critical" /\ r.class.intent = "technical"
                              /\ r.class.urgent
      BY <2>1, <3>1, ClassFields
    <3>3. PriorityConfidence(r.class, r.breached) < 60
      BY <2>1, <2>4 DEF Derived, AuditFlags
    <3>4. /\ PredictedPriority(r.class, r.breached) = "high"
          /\ ~(HighImpact(r.class) /\ r.class.intent = "technical" /\ r.class.urgent)
      BY <2>1, <3>2, <3>3, UncertainIsHigh
    <3>5. QED
      BY <2>1, <3>2, <3>4 DEF Derived, HighImpact
  <2>5. QED
    BY <2>2, <2>3, <2>4
<1>2. QED
  BY <1>1, PipeInvariance, PTL

-----------------------------------------------------------------------------
(* Types, and the round robin *)

\* The router names a category and a priority of the tables.
LEMMA RouterTyped ==
  ASSUME NEW t \in Text
  PROVE  RouteText(t) \in [category : Categories, priority : Priorities, confidence : 0..1000]
<1>1. t.cats \in [1..4 -> Nat] /\ t.pris \in [1..4 -> Nat]
  BY ScoreAssumption DEF Text
<1>2. ASSUME NEW scores \in [1..4 -> Nat]
      PROVE  Best(scores) \in 1..4 /\ TableConfidence(scores) \in 0..900
  <2>1. TableConfidence(scores) \in Nat /\ Best(scores) \in 1..4
    BY TablesConfident, BestIsHighest
  <2>2. TableConfidence(scores) <= 900
    <3>1. CASE Scored(scores)
      <4> DEFINE n == (1000 * scores[Best(scores)]) \div Total(scores) + 300
      <4>1. TableConfidence(scores) = Lower(900, n)
        BY <3>1 DEF TableConfidence
      <4> HIDE DEF n
      <4> QED
        BY <2>1, <4>1 DEF Lower
    <3>2. CASE ~Scored(scores)
      BY <3>2 DEF TableConfidence
    <3> QED
      BY <3>1, <3>2
  <2> QED
    BY <2>1, <2>2
<1>3. Best(t.cats) \in 1..4 /\ Best(t.pris) \in 1..4
  BY <1>1, <1>2
<1>4. CategoryTables[Best(t.cats)] \in Categories
  BY <1>3 DEF CategoryTables, Categories
<1>5. PriorityTables[Best(t.pris)] \in Priorities
  BY <1>3 DEF PriorityTables, Priorities
<1>6. (TableConfidence(t.cats) + TableConfidence(t.pris)) \div 2 \in 0..1000
  <2>1. TableConfidence(t.cats) \in 0..900 /\ TableConfidence(t.pris) \in 0..900
    BY <1>1, <1>2
  <2>2. PICK a \in 0..900 : a = TableConfidence(t.cats)
    BY <2>1
  <2>3. PICK b \in 0..900 : b = TableConfidence(t.pris)
    BY <2>1
  <2>4. (a + b) \div 2 \in 0..1000
    OBVIOUS
  <2> QED
    BY <2>2, <2>3, <2>4
<1> QED
  BY <1>4, <1>5, <1>6 DEF RouteText, Categories, Priorities

\* What the classifier makes of an answer, or of the router's tables, is typed.
LEMMA ClassTyped ==
  ASSUME NEW t \in Texts, NEW base \in Answer, NEW fromLLM \in BOOLEAN
  PROVE  Classification(t, base, fromLLM) \in Classified
<1>1. t.outage \in BOOLEAN
  BY PipelineAssumption DEF Text
<1> DEFINE p == IF t.outage THEN "critical" ELSE base.priority
           i == IF RuleCategory(t) = "none" THEN base.category ELSE RuleCategory(t)
           f == IF t.outage THEN 1000 ELSE base.confidence
<1>2. p \in Priorities \cup {"other"} /\ f \in 0..1000
  BY DEF Answer, Priorities
<1>3. i \in Categories \cup {"other"}
  BY DEF Answer, RuleCategory, Categories
<1>4. Classification(t, base, fromLLM) =
        [intent |-> i, priority |-> p, confidence |-> f,
         urgent |-> p \in {"high", "critical"}, ruled |-> t.outage, llm |-> fromLLM]
  BY DEF Classification
<1> HIDE DEF p, i, f
<1> QED
  BY <1>1, <1>2, <1>3, <1>4 DEF Classified

\* Every classification has a team and a queue.
LEMMA MatchTyped ==
  ASSUME NEW c
  PROVE  Match(c)[1] \in Teams /\ Match(c)[2] \in 1..4
BY DEF Match, Teams

\* No engineer is in two teams, or twice in one.
LEMMA RosterDistinct ==
  /\ \A team \in Teams : Len(Roster[team]) \in Nat \ {0}
  /\ \A t1, t2 \in Teams : \A m \in 1..Len(Roster[t1]), n \in 1..Len(Roster[t2]) :
       Roster[t1][m] = Roster[t2][n] => t1 = t2 /\ m = n
<1>1. /\ Len(Roster["sre_team"]) = 2 /\ Len(Roster["backend_team"]) = 2
      /\ Len(Roster["billing_team"]) = 2 /\ Len(Roster["product_team"]) = 1
      /\ Len(Roster["tier1_support"]) = 3
  BY DEF Roster
<1>2. ASSUME NEW team \in Teams, NEW m \in 1..Len(Roster[team])
      PROVE  \/ team = "sre_team" /\ m = 1 /\ Roster[team][m] = "alice.chen"
             \/ team = "sre_team" /\ m = 2 /\ Roster[team][m] = "bob.okafor"
             \/ team = "backend_team" /\ m = 1 /\ Roster[team][m] = "carol.smith"
             \/ team = "backend_team" /\ m = 2 /\ Roster[team][m] = "dan.patel"
             \/ team = "billing_team" /\ m = 1 /\ Roster[team][m] = "frank.li"
             \/ team = "billing_team" /\ m = 2 /\ Roster[team][m] = "grace.kim"
             \/ team = "product_team" /\ m = 1 /\ Roster[team][m] = "iris.costa"
             \/ team = "tier1_support" /\ m = 1 /\ Roster[team][m] = "jack.mueller"
             \/ team = "tier1_support" /\ m = 2 /\ Roster[team][m] = "karen.santos"
             \/ team = "tier1_support" /\ m = 3 /\ Roster[team][m] = "liam.nguyen"
  <2>1. CASE team = "tier1_support"
    <3>1. Len(Roster[team]) = 3
      BY <1>1, <2>1, Zenon
    <3>2. m = 1 \/ m = 2 \/ m = 3
      BY <3>1
    <3> QED
      BY <2>1, <3>2 DEF Roster
  <2>2. CASE team = "product_team"
    <3>1. Len(Roster[team]) = 1
      BY <1>1, <2>2, Zenon
    <3>2. m = 1
      BY <3>1
    <3> QED
      BY <2>2, <3>2 DEF Roster
  <2>3. CASE team \in {"sre_team", "backend_team", "billing_team"}
    <3>1. Len(Roster[team]) = 2
      BY <1>1, <2>3, Zenon
    <3>2. m = 1 \/ m = 2
      BY <3>1
    <3> QED
      BY <2>3, <3>2 DEF Roster
  <2> QED
    BY <2>1, <2>2, <2>3 DEF Teams
<1>3. \A team \in Teams : Len(Roster[team]) \in Nat \ {0}
  <2> SUFFICES ASSUME NEW team \in Teams PROVE Len(Roster[team]) \in Nat \ {0}
      OBVIOUS
  <2>1. Len(Roster[team]) = 1 \/ Len(Roster[team]) = 2 \/ Len(Roster[team]) = 3
    BY <1>1, Zenon DEF Teams
  <2> QED
    BY <2>1
<1>4. ASSUME NEW t1 \in Teams, NEW t2 \in Teams,
             NEW m \in 1..Len(Roster[t1]), NEW n \in 1..Len(Roster[t2]),
             Roster[t1][m] = Roster[t2][n]
      PROVE  t1 = t2 /\ m = n
  <2>1. PICK name : Roster[t1][m] = name
    OBVIOUS
  <2>2. Roster[t2][n] = name
    BY <2>1, <1>4
  <2> QED
    BY <2>1, <2>2, <1>2
<1> QED
  BY <1>3, <1>4

\* A worker has handed a team's tickets round its engineers `base` times, and
\* once more to those up to the index it keeps.
InTurn(w, team) ==
  \E base \in Nat : \A m \in 1..Len(Roster[team]) :
    Handed(w, Roster[team][m]) = IF m <= robin[w][team] THEN base + 1 ELSE base

\* A result is of a run that has ended, so that a run that ends makes a new one.
ShareInv ==
  /\ PipeInv /\ PipeTypeOK
  /\ robin \in [Workers -> [Teams -> Nat]]
  /\ IsFiniteSet(results)
  /\ \A r \in results : runs[r.run].at = "done"
  /\ \A w \in Workers, team \in Teams : InTurn(w, team)

\* Nothing was handed to anyone.
LEMMA ShareInvInit == PipeInit => ShareInv
<1> SUFFICES ASSUME PipeInit PROVE ShareInv
    OBVIOUS
<1>1. PipeInv
  BY PipeInvInit
<1>2. results = {} /\ IsFiniteSet(results)
  BY FS_EmptySet DEF PipeInit
<1>3. robin = [w \in Workers |-> [team \in Teams |-> 0]]
  BY DEF PipeInit
<1>4. PipeTypeOK
  BY <1>2, <1>3, RosterDistinct, PipelineAssumption DEF PipeInit, PipeTypeOK
<1>5. ASSUME NEW w \in Workers, NEW team \in Teams
      PROVE  InTurn(w, team)
  <2>1. \A m \in 1..Len(Roster[team]) : Handed(w, Roster[team][m]) = 0
    <3>1. \A x : {r \in results : r.worker = w /\ r.engineer = x} = {}
      BY <1>2
    <3> QED
      BY <3>1, FS_EmptySet DEF Handed
  <2>2. robin[w][team] = 0
    BY <1>3
  <2>3. ASSUME NEW m \in 1..Len(Roster[team])
        PROVE  Handed(w, Roster[team][m]) = IF m <= robin[w][team] THEN 0 + 1 ELSE 0
    <3>1. m \in Int /\ m >= 1
      BY RosterDistinct
    <3>2. ~(m <= robin[w][team])
      BY <2>2, <3>1
    <3> QED
      BY <2>1, <3>2
  <2> QED
    BY <2>3 DEF InTurn
<1> QED
  BY <1>1, <1>2, <1>3, <1>4, <1>5 DEF ShareInv

\* A run that ends leaves a typed result, and a typed place in the round robin.
LEMMA FinishTyped ==
  ASSUME ShareInv, NEW j \in Runs, NEW w \in Workers, NEW t \in Texts,
         NEW breached \in BOOLEAN, NEW c \in Classified, Finish(j, w, t, breached, c)
  PROVE  /\ \A k \in Runs : runs'[k].at \in {"idle", "llm", "done", "stopped"}
         /\ \A r \in results' :
              /\ r.run \in Runs /\ r.worker \in Workers
              /\ r.text \in Texts /\ r.class \in Classified
              /\ r.predicted \in Priorities /\ r.team \in Teams /\ r.queue \in 1..4
         /\ \A v \in Workers, team \in Teams : robin'[v][team] \in 0..Len(Roster[team])
         /\ robin' \in [Workers -> [Teams -> Nat]]
<1> USE DEF ShareInv
<1> DEFINE k == Match(c)[1]
           e == Escalation(c, breached)
           i == (robin[w][k] % Len(Roster[k])) + 1
           Typed(r) == /\ r.run \in Runs /\ r.worker \in Workers
                       /\ r.text \in Texts /\ r.class \in Classified
                       /\ r.predicted \in Priorities /\ r.team \in Teams /\ r.queue \in 1..4
<1>1. k \in Teams /\ Match(c)[2] \in 1..4
  BY MatchTyped
<1>2. QueuePriority(c, e) \in 1..4
  BY <1>1 DEF QueuePriority
<1>3. PredictedPriority(c, breached) \in Priorities
  BY DEF PredictedPriority, Priorities
<1>4. PICK new : /\ results' = results \cup {new}
                 /\ new.run = j /\ new.worker = w /\ new.text = t /\ new.class = c
                 /\ new.predicted = PredictedPriority(c, breached)
                 /\ new.team = k /\ new.queue = QueuePriority(c, e)
  <2> DEFINE r == [run |-> j, worker |-> w, text |-> t, breached |-> breached, class |-> c,
                   predicted |-> PredictedPriority(c, breached), escalation |-> e,
                   actions |-> Actions(c, e, breached), team |-> k,
                   engineer |-> Roster[k][i],
                   queue |-> QueuePriority(c, e), flags |-> AuditFlags(c, e, breached),
                   time |-> now]
  <2>1. results' = results \cup {r}
    BY DEF Finish
  <2>2. /\ r.run = j /\ r.worker = w /\ r.text = t /\ r.class = c
        /\ r.predicted = PredictedPriority(c, breached)
        /\ r.team = k /\ r.queue = QueuePriority(c, e)
    OBVIOUS
  <2> HIDE DEF r
  <2> QED
    BY <2>1, <2>2
<1>5. Typed(new) /\ \A r \in results : Typed(r)
  BY <1>1, <1>2, <1>3, <1>4 DEF PipeTypeOK
<1>6. robin' = [robin EXCEPT ![w][k] = i]
  BY DEF Finish, Turn
<1>7. i \in 1..Len(Roster[k])
  <2>1. robin[w][k] \in Nat /\ Len(Roster[k]) \in Nat \ {0}
    BY <1>1, RosterDistinct
  <2> QED
    BY <2>1
<1>8. runs' = [runs EXCEPT ![j] = [at |-> "done"]]
  BY DEF Finish
<1>9. \A l \in Runs : runs'[l].at \in {"idle", "llm", "done", "stopped"}
  BY <1>8 DEF PipeTypeOK, PipeInv
<1> HIDE DEF k, i, e
<1>10. Len(Roster[k]) \in Nat
  BY <1>1, RosterDistinct
<1>11. robin' \in [Workers -> [Teams -> Nat]]
  BY <1>1, <1>6, <1>7, <1>10
<1>12. ASSUME NEW v \in Workers, NEW team \in Teams
       PROVE  robin'[v][team] \in 0..Len(Roster[team])
  <2>1. robin'[v][team] = IF v = w /\ team = k THEN i ELSE robin[v][team]
    BY <1>1, <1>6
  <2>2. robin[v][team] \in 0..Len(Roster[team])
    BY DEF PipeTypeOK
  <2> QED
    BY <1>7, <1>10, <2>1, <2>2
<1> QED
  BY <1>4, <1>5, <1>9, <1>11, <1>12

\* A run that ends hands one more ticket to the engineer whose turn it is.
LEMMA FinishShares ==
  ASSUME ShareInv, NEW j \in Runs, NEW w \in Workers, NEW t, NEW breached, NEW c,
         Finish(j, w, t, breached, c), runs[j].at # "done"
  PROVE  /\ IsFiniteSet(results')
         /\ \A r \in results' : runs'[r.run].at = "done"
         /\ \A v \in Workers, team \in Teams : InTurn(v, team)'
<1> USE DEF ShareInv
<1> DEFINE k == Match(c)[1]
           L == Len(Roster[k])
           i == (robin[w][k] % L) + 1
           e == Escalation(c, breached)
           Given(v, x) == {r \in results : r.worker = v /\ r.engineer = x}
           GivenNext(v, x) == {r \in results' : r.worker = v /\ r.engineer = x}
<1>1. k \in Teams
  BY MatchTyped
<1>2. PICK new : /\ results' = results \cup {new}
                 /\ new.run = j /\ new.worker = w /\ new.engineer = Roster[k][i]
  <2> DEFINE r == [run |-> j, worker |-> w, text |-> t, breached |-> breached, class |-> c,
                   predicted |-> PredictedPriority(c, breached), escalation |-> e,
                   actions |-> Actions(c, e, breached), team |-> k,
                   engineer |-> Roster[k][i],
                   queue |-> QueuePriority(c, e), flags |-> AuditFlags(c, e, breached),
                   time |-> now]
  <2>1. results' = results \cup {r}
    BY DEF Finish
  <2>2. r.run = j /\ r.worker = w /\ r.engineer = Roster[k][i]
    OBVIOUS
  <2> HIDE DEF r
  <2> QED
    BY <2>1, <2>2
<1>3. robin' = [robin EXCEPT ![w][k] = i]
  BY DEF Finish, Turn
<1>4. runs' = [runs EXCEPT ![j] = [at |-> "done"]]
  BY DEF Finish
<1>5. L \in Nat \ {0} /\ robin[w][k] \in 0..L
  BY <1>1, RosterDistinct DEF PipeTypeOK
<1>6. /\ i \in 1..L
      /\ robin[w][k] < L => i = robin[w][k] + 1
      /\ robin[w][k] = L => i = 1
  <2> DEFINE q == robin[w][k]
  <2>1. q \in Nat /\ L \in Nat \ {0} /\ q <= L
    BY <1>5
  <2> HIDE DEF q, L
  <2>2. q < L => q % L = q
    BY <2>1
  <2>3. q = L => q % L = 0
    BY <2>1
  <2> QED
    BY <2>1, <2>2, <2>3 DEF q
<1> HIDE DEF k, i, L, e
<1>7. new \notin results
  BY <1>2
<1>8. IsFiniteSet(results')
  BY <1>2, FS_AddElement
<1>9. \A r \in results' : runs'[r.run].at = "done"
  BY <1>2, <1>4 DEF PipeTypeOK, PipeInv
<1>10. ASSUME NEW v \in Workers, NEW x
       PROVE  /\ ~(v = w /\ x = Roster[k][i]) => Handed(v, x)' = Handed(v, x)
              /\ v = w /\ x = Roster[k][i] => Handed(v, x)' = Handed(v, x) + 1
  <2>1. ~(v = w /\ x = Roster[k][i]) => GivenNext(v, x) = Given(v, x)
    BY <1>2
  <2>2. v = w /\ x = Roster[k][i] =>
          GivenNext(v, x) = Given(v, x) \cup {new} /\ new \notin Given(v, x)
    BY <1>2, <1>7
  <2>3. IsFiniteSet(Given(v, x))
    <3>1. Given(v, x) \subseteq results
      OBVIOUS
    <3> QED
      BY <3>1, FS_Subset
  <2>4. Handed(v, x) = Cardinality(Given(v, x)) /\ Handed(v, x)' = Cardinality(GivenNext(v, x))
    BY DEF Handed
  <2> HIDE DEF Given, GivenNext
  <2> QED
    BY <2>1, <2>2, <2>3, <2>4, FS_AddElement
<1>11. ASSUME NEW v \in Workers, NEW team \in Teams, ~(v = w /\ team = k)
       PROVE  InTurn(v, team)'
  <2>1. robin'[v][team] = robin[v][team]
    BY <1>3, <1>11
  <2>2. ASSUME NEW m \in 1..Len(Roster[team])
        PROVE  Handed(v, Roster[team][m])' = Handed(v, Roster[team][m])
    <3>1. v = w => Roster[team][m] # Roster[k][i]
      BY <1>1, <1>6, <1>11, RosterDistinct DEF L
    <3> QED
      BY <3>1, <1>10
  <2>3. InTurn(v, team)
    OBVIOUS
  <2>4. PICK base \in Nat : \A m \in 1..Len(Roster[team]) :
          Handed(v, Roster[team][m]) = IF m <= robin[v][team] THEN base + 1 ELSE base
    BY <2>3 DEF InTurn
  <2>5. \A m \in 1..Len(Roster[team]) :
          Handed(v, Roster[team][m])' = IF m <= robin'[v][team] THEN base + 1 ELSE base
    BY <2>1, <2>2, <2>4
  <2> QED
    BY <2>5 DEF InTurn
<1>12. InTurn(w, k)'
  <2>1. robin'[w][k] = i
    BY <1>1, <1>3
  <2>2. PICK base \in Nat : \A m \in 1..L :
          Handed(w, Roster[k][m]) = IF m <= robin[w][k] THEN base + 1 ELSE base
    BY <1>1 DEF InTurn, L
  <2>3. ASSUME NEW m \in 1..L
        PROVE  Handed(w, Roster[k][m])' =
                 IF m = i THEN Handed(w, Roster[k][m]) + 1 ELSE Handed(w, Roster[k][m])
    <3>1. m # i => Roster[k][m] # Roster[k][i]
      BY <1>1, <1>6, RosterDistinct DEF L
    <3> QED
      BY <3>1, <1>10
  <2>4. CASE robin[w][k] < L
    <3>1. ASSUME NEW m \in 1..L
          PROVE  Handed(w, Roster[k][m])' = IF m <= i THEN base + 1 ELSE base
      BY <1>5, <1>6, <2>2, <2>3, <2>4
    <3> QED
      BY <2>1, <3>1 DEF InTurn, L
  <2>5. CASE robin[w][k] = L
    <3>1. ASSUME NEW m \in 1..L
          PROVE  Handed(w, Roster[k][m])' = IF m <= i THEN (base + 1) + 1 ELSE base + 1
      BY <1>5, <1>6, <2>2, <2>3, <2>5
    <3>2. base + 1 \in Nat
      OBVIOUS
    <3> QED
      BY <2>1, <3>1, <3>2 DEF InTurn, L
  <2> QED
    BY <1>5, <2>4, <2>5
<1> QED
  BY <1>8, <1>9, <1>11, <1>12

\* What a run needs to end with a typed, new result in turn.
LEMMA FinishInv ==
  ASSUME ShareInv, PipeInv', NEW j \in Runs, NEW w \in Workers, NEW t \in Texts,
         NEW breached \in BOOLEAN, NEW base \in Answer, NEW fromLLM \in BOOLEAN,
         Finish(j, w, t, breached, Classification(t, base, fromLLM)), runs[j].at # "done",
         \A v \in Workers : \A e \in cache'[v] :
           e.head \in Heads /\ e.answer \in Answers /\ e.expires \in Nat,
         UNCHANGED <<alive, now>>
  PROVE  ShareInv'
<1>1. Classification(t, base, fromLLM) \in Classified
  BY ClassTyped
<1>2. PICK c \in Classified : Finish(j, w, t, breached, c)
  BY <1>1
<1>3. /\ \A k \in Runs : runs'[k].at \in {"idle", "llm", "done", "stopped"}
      /\ \A r \in results' :
           /\ r.run \in Runs /\ r.worker \in Workers
           /\ r.text \in Texts /\ r.class \in Classified
           /\ r.predicted \in Priorities /\ r.team \in Teams /\ r.queue \in 1..4
      /\ \A v \in Workers, team \in Teams : robin'[v][team] \in 0..Len(Roster[team])
      /\ robin' \in [Workers -> [Teams -> Nat]]
  BY <1>2, FinishTyped
<1>4. PipeTypeOK'
  BY <1>3 DEF ShareInv, PipeTypeOK
<1>5. /\ IsFiniteSet(results')
      /\ \A r \in results' : runs'[r.run].at = "done"
      /\ \A v \in Workers, team \in Teams : InTurn(v, team)'
  BY <1>2, FinishShares
<1> QED
  BY <1>3, <1>4, <1>5 DEF ShareInv

\* Steps that end no run keep the results and the turns.
LEMMA QuietShares ==
  ASSUME ShareInv, PipeInv', UNCHANGED <<results, robin, cache>>,
         alive' \subseteq Workers, now' \in 0..MaxTime,
         \A k \in Runs : /\ runs'[k].at \in {"idle", "llm", "done", "stopped"}
                         /\ runs[k].at = "done" => runs'[k].at = "done"
  PROVE  ShareInv'
<1>1. PipeTypeOK'
  BY DEF ShareInv, PipeTypeOK
<1>2. \A w \in Workers, team \in Teams : InTurn(w, team)'
  BY DEF ShareInv, InTurn, Handed
<1>3. \A r \in results' : runs'[r.run].at = "done"
  BY DEF ShareInv, PipeTypeOK
<1> QED
  BY <1>1, <1>2, <1>3 DEF ShareInv

\* Every step keeps the types and the turns.
LEMMA ShareInvNext == ShareInv /\ [PipeNext]_pvars => ShareInv'
<1> SUFFICES ASSUME ShareInv, [PipeNext]_pvars PROVE ShareInv'
    OBVIOUS
<1>i. PipeInv'
  BY PipeInvNext DEF ShareInv
<1>c. \A v \in Workers : \A e \in cache[v] :
        e.head \in Heads /\ e.answer \in Answers /\ e.expires \in Nat
  BY DEF ShareInv, PipeTypeOK
<1>r. \A t \in Texts : RouteText(t) \in Answer
  BY RouterTyped, PipelineAssumption DEF Answer
<1>t. /\ \A k \in Runs : runs[k].at \in {"idle", "llm", "done", "stopped"}
      /\ alive \subseteq Workers /\ now \in 0..MaxTime
      /\ runs = [k \in Runs |-> runs[k]]
  BY DEF ShareInv, PipeTypeOK, PipeInv
<1>1. ASSUME NEW j \in Runs, NEW w \in Workers, NEW t \in Texts, NEW breached \in BOOLEAN,
             RunByKeywords(j, w, t, breached)
      PROVE  ShareInv'
  BY <1>1, <1>i, <1>c, <1>r, FinishInv DEF RunByKeywords
<1>2. ASSUME NEW j \in Runs, NEW w \in Workers, NEW t \in Texts, NEW breached \in BOOLEAN,
             RunCached(j, w, t, breached)
      PROVE  ShareInv'
  <2>1. PICK e \in Hits(w, t) : Finish(j, w, t, breached, Classification(t, e.answer, TRUE))
    BY <1>2 DEF RunCached
  <2>2. e.answer \in Answer
    BY <1>c, PipelineAssumption DEF Hits
  <2> QED
    BY <1>2, <1>i, <1>c, <2>1, <2>2, FinishInv DEF RunCached
<1>3. ASSUME NEW j \in Runs, NEW w \in Workers, NEW t \in Texts, NEW breached \in BOOLEAN,
             AskLLM(j, w, t, breached)
      PROVE  ShareInv'
  BY <1>3, <1>i, <1>t, QuietShares DEF AskLLM
<1>4. ASSUME NEW j \in Runs, runs[j].at = "llm"
      PROVE  runs[j].worker \in Workers /\ runs[j].text \in Texts /\ runs[j].breached \in BOOLEAN
  BY <1>4 DEF ShareInv, PipeInv, Waiting
<1>5. ASSUME NEW j \in Runs, NEW a \in Answers, LLMAnswers(j, a)
      PROVE  ShareInv'
  <2> DEFINE w == runs[j].worker
             t == runs[j].text
             entry == [head |-> t.head, answer |-> a, expires |-> now + TTL]
  <2>1. /\ runs[j].at = "llm"
        /\ cache' = [cache EXCEPT ![w] = Cached(cache[w], t, a)]
        /\ Finish(j, w, t, runs[j].breached, Classification(t, a, TRUE))
        /\ UNCHANGED <<alive, now>>
    BY <1>5 DEF LLMAnswers
  <2>2. w \in Workers /\ t \in Texts /\ runs[j].breached \in BOOLEAN
    BY <1>4, <2>1
  <2>3. Cached(cache[w], t, a) \subseteq cache[w] \cup {entry}
    BY DEF Cached
  <2>4. entry.head \in Heads /\ entry.answer \in Answers /\ entry.expires \in Nat
    BY <1>t, <2>2, PipelineAssumption DEF Text
  <2>5. a \in Answer
    BY PipelineAssumption
  <2> HIDE DEF w, t, entry
  <2>6. ASSUME NEW v \in Workers, NEW e \in cache'[v]
        PROVE  e.head \in Heads /\ e.answer \in Answers /\ e.expires \in Nat
    <3>1. e \in cache[v] \/ e = entry
      BY <2>1, <2>2, <2>3, <2>6 DEF ShareInv, PipeInv
    <3> QED
      BY <1>c, <2>4, <3>1
  <2> QED
    BY <1>i, <2>1, <2>2, <2>5, <2>6, FinishInv
<1>6. ASSUME NEW j \in Runs, LLMFails(j)
      PROVE  ShareInv'
  <2>1. /\ runs[j].at = "llm"
        /\ Finish(j, runs[j].worker, runs[j].text, runs[j].breached,
                  Classification(runs[j].text, RouteText(runs[j].text), FALSE))
        /\ UNCHANGED <<cache, alive, now>>
    BY <1>6 DEF LLMFails
  <2> QED
    BY <1>i, <1>c, <1>r, <1>4, <2>1, FinishInv
<1>7. ASSUME NEW j \in Runs, CancelRun(j)
      PROVE  ShareInv'
  BY <1>7, <1>i, <1>t, QuietShares DEF CancelRun
<1>8. ASSUME NEW w \in Workers, WorkerEnds(w)
      PROVE  ShareInv'
  BY <1>8, <1>i, <1>t, QuietShares DEF WorkerEnds
<1>9. CASE PipeTick
  BY <1>9, <1>i, <1>t, PipelineAssumption, QuietShares DEF PipeTick
<1>10. CASE UNCHANGED pvars
  BY <1>10, <1>i, <1>t, QuietShares DEF pvars
<1> QED
  BY <1>1, <1>2, <1>3, <1>5, <1>6, <1>7, <1>8, <1>9, <1>10 DEF PipeNext

\* The types and the turns hold always.
THEOREM ShareInvariance == PipeSpec => []ShareInv
BY ShareInvInit, ShareInvNext, PTL DEF PipeSpec

\* Runs, results, caches and round robins have their types.
THEOREM PipeTypeCorrect == PipeSpec => []PipeTypeOK
<1>1. ShareInv => PipeTypeOK
  BY DEF ShareInv
<1> QED
  BY ShareInvariance, <1>1, PTL

\* A team's tickets are shared evenly, however a worker's runs interleave.
THEOREM SharesAreFair == PipeSpec => []FairShare
<1>1. ShareInv => FairShare
  <2> SUFFICES ASSUME ShareInv, NEW w \in Workers, NEW team \in Teams,
                      NEW m \in 1..Len(Roster[team]), NEW n \in 1..Len(Roster[team])
               PROVE  Handed(w, Roster[team][m]) <= Handed(w, Roster[team][n]) + 1
      BY DEF FairShare
  <2>1. PICK base \in Nat : \A k \in 1..Len(Roster[team]) :
          Handed(w, Roster[team][k]) = IF k <= robin[w][team] THEN base + 1 ELSE base
    BY DEF ShareInv, InTurn
  <2>2. /\ Handed(w, Roster[team][m]) \in {base, base + 1}
        /\ Handed(w, Roster[team][n]) \in {base, base + 1}
    BY <2>1
  <2> QED
    BY <2>2
<1> QED
  BY ShareInvariance, <1>1, PTL

=============================================================================
