------------------------------- MODULE Agents -------------------------------
(***************************************************************************)
(* The five agents of support_agents/, and the rules engine and the keyword *)
(* router of intelligence/ they use, as                                    *)
(* operators.  Scores and confidences are integers: hundredths in the      *)
(* predictor, thousandths in the router.  ml_signals is always {}.         *)
(*                                                                         *)
(* A text is what the keyword tables see of it: whether its title holds a  *)
(* keyword of the two category rules, whether it speaks of an outage, and  *)
(* how often each table of the router scores.  `head` is what the cache    *)
(* key is made of, the title and the first 200 characters.                 *)
(***************************************************************************)
EXTENDS Integers, Sequences

CONSTANTS
  Heads,     \* beginnings of tickets, as _cache_key sees them
  MaxScore   \* bound on the score of one keyword table

ASSUME ScoreAssumption == MaxScore \in Nat

Priorities == {"low", "medium", "high", "critical"}
Categories == {"billing", "technical", "feature_request", "bug", "general"}

\* The tables of the router, in the order of their dicts.
CategoryTables == <<"billing", "technical", "feature_request", "bug">>
PriorityTables == <<"critical", "high", "medium", "low">>

Text == [head : Heads, blank : BOOLEAN, outage : BOOLEAN,
         titleBilling : BOOLEAN, titleTechnical : BOOLEAN,
         cats : [1..4 -> 0..MaxScore], pris : [1..4 -> 0..MaxScore]]

\* The LLM answers any string: "other" stands for those outside the tables.
Answer == [category : Categories \cup {"other"}, priority : Priorities \cup {"other"},
           confidence : 0..1000]

Lower(m, n) == IF m <= n THEN m ELSE n

-----------------------------------------------------------------------------
(* intelligence/router.py *)

Scored(scores) == \E i \in 1..4 : scores[i] > 0

Total(scores) == scores[1] + scores[2] + scores[3] + scores[4]

\* max(...) over a dict: the first of the highest.
Best(scores) ==
  CHOOSE i \in 1..4 : \A k \in 1..4 :
    scores[k] <= scores[i] /\ (scores[k] = scores[i] => i <= k)

TableConfidence(scores) ==
  IF Scored(scores)
    THEN Lower(900, (1000 * scores[Best(scores)]) \div Total(scores) + 300)
    ELSE 500

\* route_ticket.
RouteText(t) ==
  IF t.blank THEN [category |-> "general", priority |-> "low", confidence |-> 1000]
  ELSE [category |-> IF Scored(t.cats) THEN CategoryTables[Best(t.cats)] ELSE "general",
        priority |-> IF Scored(t.pris) THEN PriorityTables[Best(t.pris)] ELSE "medium",
        confidence |-> (TableConfidence(t.cats) + TableConfidence(t.pris)) \div 2]

-----------------------------------------------------------------------------
(* intelligence/rules_engine.py and support_agents/ticket_classifier.py *)

\* A mutant of RuleCategory: an outage keeps the category its title suggests.
RuleCategoryByTitle(t) == IF t.titleBilling THEN "billing"
                          ELSE IF t.titleTechnical \/ t.outage THEN "technical" ELSE "none"

\* apply_rules; a ticket's row has no metadata, so the rule for vips is dead.
RuleCategory(t) == IF t.outage THEN "technical"
                   ELSE IF t.titleBilling THEN "billing"
                   ELSE IF t.titleTechnical THEN "technical" ELSE "none"

NeedsLLM(t) == RouteText(t).confidence < 550 /\ RuleCategory(t) = "none"

\* The classification of t from `base`, an answer of the LLM or the router's.
Classification(t, base, fromLLM) ==
  LET priority == IF t.outage THEN "critical" ELSE base.priority
  IN  [intent |-> IF RuleCategory(t) = "none" THEN base.category ELSE RuleCategory(t),
       priority |-> priority,
       confidence |-> IF t.outage THEN 1000 ELSE base.confidence,
       urgent |-> priority \in {"high", "critical"},
       ruled |-> t.outage,
       llm |-> fromLLM]

-----------------------------------------------------------------------------
(* support_agents/priority_predictor.py *)

Weight(n, holds) == IF holds THEN n ELSE 0

HighImpact(c) == c.intent \in {"technical", "bug"} /\ c.priority = "critical"

\* urgency_score is 0.5 or 0.1, never the 0.9 that forces "critical".
PriorityScore(c, breached) ==
  Weight(30, HighImpact(c)) + Weight(15, c.intent = "technical")
  + Weight(8, c.intent = "bug") + (IF c.urgent THEN 10 ELSE 2) + Weight(15, breached)

\* A mutant of PredictedPriority: the boundary of "high" at 0.50.
PredictedPriorityHigher(c, breached) ==
  LET s == PriorityScore(c, breached)
  IN  IF s >= 65 THEN "critical" ELSE IF s >= 50 THEN "high"
      ELSE IF s >= 20 THEN "medium" ELSE "low"

PredictedPriority(c, breached) ==
  LET s == PriorityScore(c, breached)
  IN  IF s >= 65 THEN "critical" ELSE IF s >= 40 THEN "high"
      ELSE IF s >= 20 THEN "medium" ELSE "low"

\* _map_score, the confidence; in "high" it grows with the score.
PriorityConfidence(c, breached) ==
  LET s == PriorityScore(c, breached)
  IN  IF s >= 65 THEN Lower(95, s) ELSE IF s >= 40 THEN Lower(90, s + 10)
      ELSE IF s >= 20 THEN 75 ELSE 80

-----------------------------------------------------------------------------
(* support_agents/escalation_detector.py *)

\* The signals; urgency_score never reaches the 0.75 of "high_urgency".
Signals(c, breached) ==
  {s \in {"critical_intent", "critical_priority", "elevated_urgency",
          "high_confidence", "sla_breached"} :
     \/ s = "critical_intent" /\ HighImpact(c)
     \/ s = "critical_priority" /\ c.priority = "critical"
     \/ s = "elevated_urgency" /\ c.urgent
     \/ s = "high_confidence" /\ c.confidence >= 900
     \/ s = "sla_breached" /\ breached}

EscalationScore(signals) ==
  Weight(30, "critical_intent" \in signals) + Weight(25, "critical_priority" \in signals)
  + Weight(10, "elevated_urgency" \in signals) + Weight(10, "high_confidence" \in signals)
  + Weight(15, "sla_breached" \in signals)

\* A mutant of Escalation: the hard rule gives no signals.
EscalationUnexplained(c, breached) ==
  LET signals == IF c.ruled THEN {} ELSE Signals(c, breached)
  IN  [escalate |-> c.ruled \/ EscalationScore(signals) >= 40,
       immediate |-> c.ruled \/ EscalationScore(signals) >= 60,
       signals |-> signals]

Escalation(c, breached) ==
  IF c.ruled
    THEN [escalate |-> TRUE, immediate |-> TRUE, signals |-> {"hard_rule_override"}]
    ELSE LET signals == Signals(c, breached)
         IN  [escalate |-> EscalationScore(signals) >= 40,
              immediate |-> EscalationScore(signals) >= 60,
              signals |-> signals]

-----------------------------------------------------------------------------
(* support_agents/response_suggester.py *)

Actions(c, e, breached) ==
  LET chosen == {a \in {"page_on_call_engineer", "notify_senior_support",
                        "create_incident_record", "update_status_page",
                        "review_billing_account", "sla_breach_notification"} :
                   \/ a = "page_on_call_engineer" /\ e.immediate
                   \/ a = "notify_senior_support" /\ e.escalate /\ ~e.immediate
                   \/ a \in {"create_incident_record", "update_status_page"}
                      /\ c.intent = "technical" /\ c.priority = "critical"
                   \/ a = "review_billing_account" /\ c.intent = "billing"
                   \/ a = "sla_breach_notification" /\ breached}
  IN  IF chosen = {} THEN {"assign_to_available_agent"} ELSE chosen

-----------------------------------------------------------------------------
(* support_agents/auto_router.py and the roster of db/store.py *)

\* _match, a team and its queue: a rule for the intent and the priority first,
\* then one for the intent alone.
Match(c) ==
  CASE c.intent \in {"technical", "bug"} /\ c.priority = "critical" -> <<"sre_team", 1>>
    [] c.intent = "technical" /\ c.priority = "high" -> <<"sre_team", 2>>
    [] c.intent = "bug" /\ c.priority = "high" -> <<"backend_team", 2>>
    [] c.intent \in {"technical", "bug"} /\ ~c.urgent -> <<"backend_team", 3>>
    [] c.intent = "billing" -> <<"billing_team", 2>>
    [] c.intent = "feature_request" -> <<"product_team", 4>>
    [] OTHER -> <<"tier1_support", 3>>

QueuePriority(c, e) ==
  LET queue == Match(c)[2]
  IN  IF e.immediate THEN 1 ELSE IF e.escalate /\ queue > 1 THEN queue - 1 ELSE queue

Teams == {"sre_team", "backend_team", "billing_team", "product_team", "tier1_support"}

\* _TEAM_ROSTER.  No two teams share a skill, so the skills looked up name one team.
Roster == [sre_team |-> <<"alice.chen", "bob.okafor">>,
           backend_team |-> <<"carol.smith", "dan.patel">>,
           billing_team |-> <<"frank.li", "grace.kim">>,
           product_team |-> <<"iris.costa">>,
           tier1_support |-> <<"jack.mueller", "karen.santos", "liam.nguyen">>]

-----------------------------------------------------------------------------
(* plugins/signal_audit.py *)

\* The flags; level 2 is an immediate escalation.
AuditFlags(c, e, breached) ==
  {f \in {"low_intent_confidence", "uncertain_priority", "unexplained_escalation"} :
     \/ f = "low_intent_confidence" /\ c.confidence < 500
     \/ f = "uncertain_priority" /\ PriorityConfidence(c, breached) < 60
     \/ f = "unexplained_escalation" /\ e.immediate /\ e.signals = {}}

=============================================================================
