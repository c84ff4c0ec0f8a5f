------------------------------ MODULE Pipeline ------------------------------
(***************************************************************************)
(* run_pipeline of workflows/engine.py, executed by concurrent jobs in     *)
(* several worker processes, with what such a process keeps in memory: the *)
(* LLM's answers (intelligence/llm_client.py) and each team's place in the *)
(* round robin (db/store.py).  Nothing in the pipeline gives way to other  *)
(* jobs except the request to the LLM, so a run is one step without it and *)
(* two with it.  A worker is one life of a process: after a restart it is  *)
(* another worker.                                                         *)
(***************************************************************************)
EXTENDS Agents, FiniteSets

CONSTANTS
  Runs,        \* executions of the pipeline
  Workers,     \* worker processes
  Texts,       \* the texts of the tickets
  Answers,     \* what the LLM may answer
  LLMEnabled,  \* llm_enabled and an llm_api_key
  TTL,         \* llm_cache_ttl
  CacheSize,   \* entries above which expired ones are dropped: 1000
  MaxTime      \* bound on the clock

ASSUME PipelineAssumption ==
  /\ Texts \subseteq Text
  /\ Answers \subseteq Answer
  /\ LLMEnabled \in BOOLEAN
  /\ TTL \in Nat \ {0} /\ CacheSize \in Nat /\ MaxTime \in Nat

VARIABLES
  runs,      \* runs[j]: where run j is and on what
  results,   \* the results of finished runs
  cache,     \* cache[w]: entries of w's _cache
  robin,     \* robin[w]: w's _round_robin
  alive,     \* the workers still running
  answered,  \* the LLM's answers, when they came; for the properties only
  now        \* the clock

pvars == <<runs, results, cache, robin, alive, answered, now>>

Classified == [intent : Categories \cup {"other"}, priority : Priorities \cup {"other"},
               confidence : 0..1000, urgent : BOOLEAN, ruled : BOOLEAN, llm : BOOLEAN]

PipeTypeOK ==
  /\ \A j \in Runs : runs[j].at \in {"idle", "llm", "done", "stopped"}
  /\ \A r \in results :
       /\ r.run \in Runs /\ r.worker \in Workers
       /\ r.text \in Texts /\ r.class \in Classified
       /\ r.predicted \in Priorities /\ r.team \in Teams /\ r.queue \in 1..4
  /\ \A w \in Workers :
       /\ \A e \in cache[w] : e.head \in Heads /\ e.answer \in Answers /\ e.expires \in Nat
       /\ \A team \in Teams : robin[w][team] \in 0..Len(Roster[team])
  /\ alive \subseteq Workers
  /\ now \in 0..MaxTime

PipeInit ==
  /\ runs = [j \in Runs |-> [at |-> "idle"]]
  /\ results = {}
  /\ cache = [w \in Workers |-> {}]
  /\ robin = [w \in Workers |-> [team \in Teams |-> 0]]
  /\ alive = Workers
  /\ answered = {}
  /\ now = 0

-----------------------------------------------------------------------------
(* The memory of a worker *)

\* A mutant of Fresh: entries do not expire.
FreshForever(e) == e.expires >= 0

Fresh(e) == e.expires > now

\* The answers classify finds for a text.
Hits(w, t) == {e \in cache[w] : e.head = t.head /\ Fresh(e)}

\* The write of an answer, and the eviction when the cache has grown.
Cached(entries, t, a) ==
  LET grown == {e \in entries : e.head # t.head}
               \cup {[head |-> t.head, answer |-> a, expires |-> now + TTL]}
  IN  IF Cardinality(grown) > CacheSize THEN {e \in grown : Fresh(e)} ELSE grown

\* A mutant of Turn: the index is not wrapped.
TurnUnwrapped(w, team) == robin[w][team] + 1

\* A mutant of Turn: the index is kept as it was read.
TurnKept(w, team) == robin[w][team] % Len(Roster[team])

\* get_available_engineer, the index it leaves behind: one past the engineer's.
Turn(w, team) == (robin[w][team] % Len(Roster[team])) + 1

-----------------------------------------------------------------------------
(* run_pipeline *)

\* The stages after the classifier, and the result of the run.
Finish(j, w, t, breached, c) ==
  LET e == Escalation(c, breached)
      team == Match(c)[1]
  IN  /\ results' = results \cup
           {[run |-> j, worker |-> w, text |-> t, breached |-> breached, class |-> c,
             predicted |-> PredictedPriority(c, breached), escalation |-> e,
             actions |-> Actions(c, e, breached), team |-> team,
             engineer |-> Roster[team][(robin[w][team] % Len(Roster[team])) + 1],
             queue |-> QueuePriority(c, e), flags |-> AuditFlags(c, e, breached),
             time |-> now]}
      /\ robin' = [robin EXCEPT ![w][team] = Turn(w, team)]
      /\ runs' = [runs EXCEPT ![j] = [at |-> "done"]]

\* The classifier asks neither the LLM nor its cache.
RunByKeywords(j, w, t, breached) ==
  /\ runs[j].at = "idle" /\ w \in alive
  /\ ~LLMEnabled \/ ~NeedsLLM(t)
  /\ Finish(j, w, t, breached, Classification(t, RouteText(t), FALSE))
  /\ UNCHANGED <<cache, alive, answered, now>>

\* The cache answers.
RunCached(j, w, t, breached) ==
  /\ runs[j].at = "idle" /\ w \in alive
  /\ LLMEnabled /\ NeedsLLM(t)
  /\ \E e \in Hits(w, t) : Finish(j, w, t, breached, Classification(t, e.answer, TRUE))
  /\ UNCHANGED <<cache, alive, answered, now>>

\* It does not: the request to the LLM.
AskLLM(j, w, t, breached) ==
  /\ runs[j].at = "idle" /\ w \in alive
  /\ LLMEnabled /\ NeedsLLM(t) /\ Hits(w, t) = {}
  /\ runs' = [runs EXCEPT ![j] =
       [at |-> "llm", worker |-> w, text |-> t, breached |-> breached]]
  /\ UNCHANGED <<results, cache, robin, alive, answered, now>>

\* The answer, put in the cache, and the rest of the run.
LLMAnswers(j, a) ==
  /\ runs[j].at = "llm"
  /\ LET w == runs[j].worker  t == runs[j].text
     IN  /\ cache' = [cache EXCEPT ![w] = Cached(@, t, a)]
         /\ answered' = answered \cup {[worker |-> w, head |-> t.head, answer |-> a, time |-> now]}
         /\ Finish(j, w, t, runs[j].breached, Classification(t, a, TRUE))
  /\ UNCHANGED <<alive, now>>

\* A timeout, an HTTP error or an answer that is not the JSON asked for.
LLMFails(j) ==
  /\ runs[j].at = "llm"
  /\ Finish(j, runs[j].worker, runs[j].text, runs[j].breached,
            Classification(runs[j].text, RouteText(runs[j].text), FALSE))
  /\ UNCHANGED <<cache, alive, answered, now>>

\* The job is cancelled at its request.
CancelRun(j) ==
  /\ runs[j].at = "llm"
  /\ runs' = [runs EXCEPT ![j] = [at |-> "stopped"]]
  /\ UNCHANGED <<results, cache, robin, alive, answered, now>>

\* The process ends, and its memory and runs with it.
WorkerEnds(w) ==
  /\ w \in alive
  /\ alive' = alive \ {w}
  /\ runs' = [j \in Runs |-> IF runs[j].at = "llm" /\ runs[j].worker = w
                               THEN [at |-> "stopped"] ELSE runs[j]]
  /\ UNCHANGED <<results, cache, robin, answered, now>>

PipeTick ==
  /\ now < MaxTime
  /\ now' = now + 1
  /\ UNCHANGED <<runs, results, cache, robin, alive, answered>>

PipeNext ==
  \/ \E j \in Runs, w \in Workers, t \in Texts, breached \in BOOLEAN :
       \/ RunByKeywords(j, w, t, breached)
       \/ RunCached(j, w, t, breached)
       \/ AskLLM(j, w, t, breached)
  \/ \E j \in Runs :
       (\E a \in Answers : LLMAnswers(j, a)) \/ LLMFails(j) \/ CancelRun(j)
  \/ \E w \in Workers : WorkerEnds(w)
  \/ PipeTick

PipeSpec == PipeInit /\ [][PipeNext]_pvars

-----------------------------------------------------------------------------
(* Properties *)

\* An outage is handled as one by all five agents, whatever else its text says:
\* the rule that rules_engine.py evaluates last overrides the category the title
\* gave, and the detector, the suggester and the router follow it.
OutageHandled ==
  \A r \in results : r.text.outage =>
    /\ r.escalation.immediate /\ r.team = "sre_team" /\ r.queue = 1
    /\ {"page_on_call_engineer", "create_incident_record"} \subseteq r.actions
    /\ r.predicted \in {"high", "critical"}
    /\ ~r.class.llm

\* The predictor and the detector weigh a classification with different tables
\* and thresholds and do not see each other's output; still a technical issue or
\* a bug that is escalated is never stored with a low or medium priority.
EscalatedAtLeastHigh ==
  \A r \in results :
    r.escalation.escalate /\ r.class.intent \in {"technical", "bug"} =>
      r.predicted \in {"high", "critical"}

Handed(w, engineer) == Cardinality({r \in results : r.worker = w /\ r.engineer = engineer})

\* A worker's runs, however they interleave around their requests to the LLM,
\* hand a team's tickets to its engineers in turn: an engineer is never two ahead
\* of a colleague.
FairShare ==
  \A w \in Workers, team \in Teams : \A m, n \in 1..Len(Roster[team]) :
    Handed(w, Roster[team][m]) <= Handed(w, Roster[team][n]) + 1

\* A classification that claims the LLM's authority is an answer the LLM gave for
\* the same beginning of a ticket to the same worker, less than TTL ago: entries
\* that are replaced by a slower request, or expire, are not served.
CacheServesRecent ==
  \A r \in results : r.class.llm =>
    \E a \in answered :
      /\ a.worker = r.worker /\ a.head = r.text.head
      /\ a.time <= r.time /\ r.time < a.time + TTL
      /\ r.class = Classification(r.text, a.answer, TRUE)

\* The signal audit fails a run only for what may be doubted: every immediate
\* escalation comes with its signals, also the one by rule; only an answer of
\* the LLM, never a keyword table or a rule, has a low confidence; and of
\* predictions only "high" is uncertain, and never for an outage.
AuditFlagsDoubt ==
  \A r \in results :
    /\ "unexplained_escalation" \notin r.flags
    /\ "low_intent_confidence" \in r.flags => r.class.llm
    /\ "uncertain_priority" \in r.flags => r.predicted = "high" /\ ~r.text.outage

=============================================================================
