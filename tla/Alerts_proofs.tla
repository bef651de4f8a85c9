--------------------------- MODULE Alerts_proofs ---------------------------
(***************************************************************************)
(* Theorems of Alerts, for any number of evaluators, any telemetry, links, *)
(* thresholds, windows and retention.                                      *)
(***************************************************************************)
EXTENDS Alerts, TLAPS

(* A query names conversations of the map or the global target.            *)
LEMMA QueryType ==
    ASSUME TypeOK, NEW rule \in Rules, NEW t0
    PROVE  Query(rule, t0) \subseteq Targets
<1>1. \A trace : TargetsOf(trace) \subseteq Targets
  BY AlertsAssumption DEF TypeOK, TargetsOf, Linked, Targets
<1>2. ToolFailure(t0) \subseteq Targets
  BY <1>1 DEF ToolFailure
<1>3. AppError(t0) \subseteq Targets
  BY <1>1 DEF AppError
<1>4. SpanError(t0) \subseteq Targets
  BY <1>1 DEF SpanError
<1>5. LatencyP95(t0) \subseteq Targets
  BY DEF LatencyP95, Targets
<1>6. TokenBudgetRule(t0) \subseteq Targets
  BY DEF TokenBudgetRule, Targets
<1>7. rule \in {"tool_failure", "app_error", "span_error", "latency_p95", "token_budget"}
  BY DEF Rules, RuleOrder
<1> QED BY <1>2, <1>3, <1>4, <1>5, <1>6, <1>7 DEF Query

(* The rules are applied in the order of five keys.                         *)
LEMMA RuleOrderType ==
    /\ Len(RuleOrder) = 5
    /\ DOMAIN RuleOrder = 1..5
    /\ \A n \in 1..5 : RuleOrder[n] \in Rules
BY DEF RuleOrder, Rules

(* A step of a pass keeps the evaluator's types.                           *)
LEMMA ApplyingType ==
    ASSUME NEW e \in Evaluator, NEW n \in DOMAIN RuleOrder
    PROVE  Applying(e, n) \in Evaluator
BY RuleOrderType DEF Applying, Evaluator

(* An evaluator at rest.                                                    *)
LEMMA RestingType == Resting \in Evaluator
BY RuleOrderType, AlertsAssumption DEF Resting, Evaluator, Time

(* One step keeps the types.                                               *)
LEMMA TypeStep ==
    ASSUME TypeOK, [Next]_vars
    PROVE  TypeOK'
<1> USE DEF TypeOK
<1>1. CASE Tick
  BY <1>1, AlertsAssumption DEF Tick, Time, telemetry
<1> Grounds' \subseteq Rules \X Conversations
  BY DEF Grounds
<1>2. ASSUME NEW s \in Spans, StoreSpan(s) PROVE TypeOK'
  BY <1>2 DEF StoreSpan
<1>3. ASSUME NEW l \in Logs, StoreLog(l) PROVE TypeOK'
  BY <1>3 DEF StoreLog
<1>4. ASSUME NEW k \in Links, NEW ts \in LinkTimes, StoreLink(k, ts) PROVE TypeOK'
  BY <1>4, AlertsAssumption DEF StoreLink
<1>5. CASE PruneLogs \/ PruneSpans \/ PruneLinks \/ PruneAlerts
  BY <1>5 DEF PruneLogs, PruneSpans, PruneLinks, PruneAlerts, tables
<1>6. ASSUME NEW i \in Instances, BeginPass(i) PROVE TypeOK'
  <2>1. [eval[i] EXCEPT !.step = "read", !.begun = now] \in Evaluator
    BY DEF Evaluator
  <2> QED BY <1>6, <2>1 DEF BeginPass, tables
<1>7. ASSUME NEW i \in Instances, ReadRule(i) PROVE TypeOK'
  <2> DEFINE rule == CurrentRule(i)
             read == [eval[i] EXCEPT !.active[rule] = Query(rule, eval[i].begun)]
  <2>1. eval[i] \in Evaluator /\ eval[i].rule \in DOMAIN RuleOrder /\ rule \in Rules
    BY RuleOrderType DEF Evaluator, CurrentRule
  <2>2. Query(rule, eval[i].begun) \subseteq Targets
    BY <2>1, QueryType
  <2>3. read \in Evaluator /\ read.rule = eval[i].rule
    BY <2>1, <2>2 DEF Evaluator
  <2> HIDE DEF read
  <2>4. ASSUME read.rule < Len(RuleOrder)
        PROVE  [read EXCEPT !.rule = @ + 1] \in Evaluator
    BY <2>1, <2>3, <2>4, RuleOrderType DEF Evaluator
  <2>5. [read EXCEPT !.begun = 0] \in Evaluator
    <3>1. 0 \in Time
      BY AlertsAssumption DEF Time
    <3> QED BY <2>3, <3>1 DEF Evaluator
  <2>6. Applying([read EXCEPT !.begun = 0], 1) \in Evaluator
    BY <2>5, ApplyingType, RuleOrderType
  <2>7. eval' = [eval EXCEPT ![i] =
                    IF read.rule < Len(RuleOrder)
                    THEN [read EXCEPT !.rule = @ + 1]
                    ELSE Applying([read EXCEPT !.begun = 0], 1)]
    BY <1>7 DEF ReadRule, read
  <2>8. eval' \in [Instances -> Evaluator]
    BY <2>4, <2>6, <2>7
  <2> QED BY <1>7, <2>8 DEF ReadRule, tables
<1>8. ASSUME NEW i \in Instances, ReadRaises(i) PROVE TypeOK'
  BY <1>8, RestingType DEF ReadRaises, tables
<1>9. ASSUME NEW i \in Instances, OpenAlert(i) PROVE TypeOK'
  <2>1. PICK t \in eval[i].todo :
           /\ alerts' = IF IsOpen(CurrentRule(i), t) THEN alerts
                        ELSE alerts \cup {[rule |-> CurrentRule(i), target |-> t,
                                           at |-> now, resolved |-> None]}
           /\ eval' = [eval EXCEPT ![i].todo = @ \ {t}]
    BY <1>9 DEF OpenAlert
  <2>2. t \in Targets /\ CurrentRule(i) \in Rules
    BY RuleOrderType DEF Evaluator, CurrentRule
  <2>3. [rule |-> CurrentRule(i), target |-> t, at |-> now, resolved |-> None] \in Alert
    BY <2>2 DEF Alert
  <2>4. [eval[i] EXCEPT !.todo = @ \ {t}] \in Evaluator
    BY DEF Evaluator
  <2> QED BY <1>9, <2>1, <2>3, <2>4 DEF OpenAlert, tables
<1>10. ASSUME NEW i \in Instances, ResolveStale(i) PROVE TypeOK'
  <2>1. \A a \in alerts : [a EXCEPT !.resolved = now] \in Alert
    BY DEF Alert
  <2>2. alerts' \subseteq Alert
    BY <1>10, <2>1 DEF ResolveStale
  <2>3. eval[i] \in Evaluator /\ eval[i].rule \in 1..5
    BY RuleOrderType DEF Evaluator
  <2>4. [eval[i] EXCEPT !.active[CurrentRule(i)] = {}] \in Evaluator
    BY <2>3 DEF Evaluator
  <2>5. eval[i].rule < Len(RuleOrder) => eval[i].rule + 1 \in DOMAIN RuleOrder
    BY <2>3, RuleOrderType
  <2>6. eval' \in [Instances -> Evaluator]
    BY <1>10, <2>4, <2>5, ApplyingType, RestingType DEF ResolveStale
  <2> QED BY <1>10, <2>2, <2>6 DEF ResolveStale, tables
<1>11. ASSUME NEW i \in Instances, FailPass(i) PROVE TypeOK'
  BY <1>11, RestingType, AlertsAssumption DEF FailPass, tables
<1>12. CASE UNCHANGED vars
  BY <1>12 DEF vars
<1> QED BY <1>1, <1>2, <1>3, <1>4, <1>5, <1>6, <1>7, <1>8, <1>9, <1>10, <1>11, <1>12
        DEF Next, Evaluate

(* The evaluators and the alerts table keep their types under every step:  *)
(* in particular no rule names a target that is neither a conversation nor *)
(* the global one, whatever telemetry and links are stored.                *)
THEOREM TypeCorrect == Spec => []TypeOK
<1>1. Init => TypeOK
  BY RestingType, AlertsAssumption DEF Init, TypeOK, Time
<1>2. TypeOK /\ [Next]_vars => TypeOK'
  BY TypeStep
<1> QED BY <1>1, <1>2, PTL DEF Spec

----------------------------------------------------------------------------
(* What a step does to pulse_alerts: one new open alert where there was    *)
(* none, alerts of targets no longer named resolved, old resolved ones     *)
(* deleted, or nothing.                                                    *)
NewAlert(rule, target) == [rule |-> rule, target |-> target, at |-> now, resolved |-> None]

Opens ==
    \E i \in Instances : \E t \in eval[i].todo :
        /\ ~IsOpen(CurrentRule(i), t)
        /\ alerts' = alerts \cup {NewAlert(CurrentRule(i), t)}

Resolves ==
    \E i \in Instances :
        alerts' = {IF Stale(i, a) THEN [a EXCEPT !.resolved = now] ELSE a : a \in alerts}

Prunes == alerts' = {a \in alerts : a.resolved = None \/ ~Expired(a.at)}

(* Every step changes the alerts in one of these ways.                      *)
LEMMA AlertSteps ==
    ASSUME [Next]_vars
    PROVE  Opens \/ Resolves \/ Prunes \/ UNCHANGED alerts
<1>1. ASSUME NEW i \in Instances, OpenAlert(i)
      PROVE  Opens \/ UNCHANGED alerts
  BY <1>1 DEF OpenAlert, Opens, NewAlert
<1>2. ASSUME NEW i \in Instances, ResolveStale(i)
      PROVE  Resolves
  BY <1>2 DEF ResolveStale, Resolves
<1>3. ASSUME NEW i \in Instances, BeginPass(i) \/ ReadRule(i) \/ ReadRaises(i) \/ FailPass(i)
      PROVE  UNCHANGED alerts
  BY <1>3 DEF BeginPass, ReadRule, ReadRaises, FailPass
<1>4. CASE PruneAlerts
  BY <1>4 DEF PruneAlerts, Prunes
<1>5. ASSUME \/ Tick
             \/ \E s \in Spans : StoreSpan(s)
             \/ \E l \in Logs : StoreLog(l)
             \/ \E k \in Links, ts \in LinkTimes : StoreLink(k, ts)
             \/ PruneLogs \/ PruneSpans \/ PruneLinks
      PROVE  UNCHANGED alerts
  BY <1>5 DEF Tick, StoreSpan, StoreLog, StoreLink, PruneLogs, PruneSpans, PruneLinks
<1>6. CASE UNCHANGED vars
  BY <1>6 DEF vars
<1> QED BY <1>1, <1>2, <1>3, <1>4, <1>5, <1>6 DEF Next, Evaluate

(* An alert that is open after a step was open before it, or was opened by *)
(* it; resolving changes nothing but the time of resolution.               *)
LEMMA ResolvedAlert ==
    ASSUME TypeOK, NEW a \in alerts
    PROVE  LET b == [a EXCEPT !.resolved = now]
           IN  /\ b.rule = a.rule /\ b.target = a.target /\ b.at = a.at
               /\ b.resolved = now /\ now # None
BY AlertsAssumption DEF TypeOK, Alert, Time

(* However many evaluators run at once and whatever they have read, a      *)
(* condition has at most one open alert: by the unique index alone, no     *)
(* evaluator looks before it opens.                                        *)
THEOREM OneAlertPerCondition == Spec => []OneOpenPerTarget
<1>1. Init => OneOpenPerTarget
  BY DEF Init, OneOpenPerTarget
<1>2. ASSUME TypeOK, OneOpenPerTarget, [Next]_vars
      PROVE  OneOpenPerTarget'
  <2>1. CASE Opens
    <3>1. PICK i \in Instances : \E t \in eval[i].todo :
             /\ ~IsOpen(CurrentRule(i), t)
             /\ alerts' = alerts \cup {NewAlert(CurrentRule(i), t)}
      BY <2>1 DEF Opens
    <3>2. PICK t \in eval[i].todo :
             /\ ~IsOpen(CurrentRule(i), t)
             /\ alerts' = alerts \cup {NewAlert(CurrentRule(i), t)}
      BY <3>1
    <3> QED BY <1>2, <3>2 DEF OneOpenPerTarget, IsOpen, NewAlert
  <2>2. CASE Resolves
    <3>1. PICK i \in Instances :
             alerts' = {IF Stale(i, a) THEN [a EXCEPT !.resolved = now] ELSE a : a \in alerts}
      BY <2>2 DEF Resolves
    <3>2. ASSUME NEW b \in alerts', b.resolved = None
          PROVE  b \in alerts
      BY <1>2, <3>1, <3>2, ResolvedAlert
    <3> QED BY <1>2, <3>2 DEF OneOpenPerTarget
  <2>3. CASE Prunes
    BY <1>2, <2>3 DEF OneOpenPerTarget, Prunes
  <2>4. CASE UNCHANGED alerts
    BY <1>2, <2>4 DEF OneOpenPerTarget
  <2> QED BY <1>2, <2>1, <2>2, <2>3, <2>4, AlertSteps
<1> QED BY <1>1, <1>2, TypeCorrect, PTL DEF Spec

(* A standing incident never vanishes: an open alert leaves the table only *)
(* as a resolved one, and a resolved one only by its age.                  *)
THEOREM IncidentsAreResolved == Spec => IncidentsEndByResolution
<1>1. ASSUME TypeOK, [Next]_vars, NEW a \in alerts \ alerts'
      PROVE  IF a.resolved = None
             THEN \E b \in alerts' : b.rule = a.rule /\ b.target = a.target /\ b.at = a.at
                                     /\ b.resolved = now
             ELSE a.at + Retention < now
  <2>1. CASE Opens
    BY <1>1, <2>1 DEF Opens
  <2>2. CASE Resolves
    <3>1. PICK i \in Instances :
             alerts' = {IF Stale(i, x) THEN [x EXCEPT !.resolved = now] ELSE x : x \in alerts}
      BY <2>2 DEF Resolves
    <3>2. Stale(i, a) /\ [a EXCEPT !.resolved = now] \in alerts'
      BY <1>1, <3>1
    <3>3. a.resolved = None
      BY <3>2 DEF Stale
    <3> QED BY <1>1, <3>2, <3>3, ResolvedAlert
  <2>3. CASE Prunes
    BY <1>1, <2>3, AlertsAssumption DEF Prunes, Expired, TypeOK, Alert, Time
  <2>4. CASE UNCHANGED alerts
    BY <1>1, <2>4
  <2> QED BY <1>1, <2>1, <2>2, <2>3, <2>4, AlertSteps
<1>2. TypeOK /\ [Next]_vars =>
        [\A a \in alerts \ alerts' :
           IF a.resolved = None
           THEN \E b \in alerts' : b.rule = a.rule /\ b.target = a.target /\ b.at = a.at
                                   /\ b.resolved = now
           ELSE a.at + Retention < now]_vars
  BY <1>1
<1> QED BY <1>2, TypeCorrect, PTL DEF Spec, IncidentsEndByResolution

----------------------------------------------------------------------------
(* What an evaluator holds of a pass under way is grounded too, and what   *)
(* there is evidence of now has been recorded.                             *)
PassIsGrounded(e) ==
    /\ \A r \in Rules : \A t \in e.active[r] : t # Global => <<r, t>> \in grounds
    /\ e.todo \subseteq e.active[RuleOrder[e.rule]]
    /\ e.step # "apply" => e.todo = {}

EvidenceInv ==
    /\ AlertsHadEvidence
    /\ Grounds \subseteq grounds
    /\ \A i \in Instances : PassIsGrounded(eval[i])

(* Every conversation a query names has evidence.                          *)
LEMMA QueryHasEvidence ==
    ASSUME TypeOK, NEW rule \in Rules, NEW t0, NEW t \in Query(rule, t0), t # Global
    PROVE  Evidence(rule, t)
<1>1. \A trace : t \in TargetsOf(trace) => <<t, trace>> \in Linked
  BY AlertsAssumption DEF TypeOK, TargetsOf, Linked
<1>2. rule \in {"tool_failure", "app_error", "span_error", "latency_p95", "token_budget"}
  BY DEF Rules, RuleOrder
<1>3. CASE rule = "tool_failure"
  <2>1. t \in ToolFailure(t0)
    BY <1>3 DEF Query
  <2> QED BY <1>1, <1>3, <2>1 DEF ToolFailure, RecentSpans, Evidence, SpanEvidence
<1>4. CASE rule = "app_error"
  <2>1. t \in AppError(t0)
    BY <1>4 DEF Query
  <2> QED BY <1>1, <1>4, <2>1 DEF AppError, Evidence
<1>5. CASE rule = "span_error"
  <2>1. t \in SpanError(t0)
    BY <1>5 DEF Query
  <2> QED BY <1>1, <1>5, <2>1 DEF SpanError, RecentSpans, Evidence, SpanEvidence
<1>6. CASE rule = "latency_p95"
  <2>1. t \in LatencyP95(t0)
    BY <1>6 DEF Query
  <2> QED BY <2>1 DEF LatencyP95
<1>7. CASE rule = "token_budget"
  <2>1. t \in TokenBudgetRule(t0)
    BY <1>7 DEF Query
  <2> QED BY <2>1 DEF TokenBudgetRule
<1> QED BY <1>2, <1>3, <1>4, <1>5, <1>6, <1>7

(* Deleting telemetry or links makes no evidence.                          *)
LEMMA DeletesMakeNoEvidence ==
    ASSUME spans' \subseteq spans, logs' \subseteq logs, Linked' \subseteq Linked
    PROVE  Grounds' \subseteq Grounds
BY DEF Grounds, Evidence, SpanEvidence

(* What was recorded stays, and what there is evidence of is recorded.     *)
LEMMA GroundsGrow ==
    ASSUME TypeOK, Grounds \subseteq grounds, [Next]_vars
    PROVE  grounds \subseteq grounds' /\ Grounds' \subseteq grounds'
<1>1. CASE \/ \E s \in Spans : StoreSpan(s)
           \/ \E l \in Logs : StoreLog(l)
           \/ \E k \in Links, ts \in LinkTimes : StoreLink(k, ts)
  BY <1>1 DEF StoreSpan, StoreLog, StoreLink
<1>2. CASE PruneLogs \/ PruneSpans \/ PruneLinks
  <2>1. spans' \subseteq spans /\ logs' \subseteq logs /\ grounds' = grounds
    BY <1>2 DEF PruneLogs, PruneSpans, PruneLinks
  <2>2. Linked' \subseteq Linked
    BY <1>2 DEF PruneLogs, PruneSpans, PruneLinks, Linked
  <2> QED BY <2>1, <2>2, DeletesMakeNoEvidence
<1>3. ASSUME spans' = spans, logs' = logs, links' = links, grounds' = grounds
      PROVE  grounds \subseteq grounds' /\ Grounds' \subseteq grounds'
  <2>1. Linked' = Linked
    BY <1>3 DEF Linked
  <2> QED BY <1>3, <2>1, DeletesMakeNoEvidence
<1>4. ASSUME \/ Tick \/ PruneAlerts \/ UNCHANGED vars
             \/ \E i \in Instances : Evaluate(i) \/ FailPass(i)
      PROVE  spans' = spans /\ logs' = logs /\ links' = links /\ grounds' = grounds
  BY <1>4 DEF vars, tables, telemetry, Tick, PruneAlerts, Evaluate, BeginPass, ReadRule,
              ReadRaises, OpenAlert, ResolveStale, FailPass
<1> QED BY <1>1, <1>2, <1>3, <1>4 DEF Next

(* A pass under way stays grounded: what it reads has evidence, what it    *)
(* forgets needs none, and what it holds stays recorded, whatever is       *)
(* deleted meanwhile.                                                      *)
LEMMA PassStaysGrounded ==
    ASSUME TypeOK, EvidenceInv, [Next]_vars, NEW j \in Instances
    PROVE  PassIsGrounded(eval[j])'
<1> DEFINE Holds(e) == /\ \A r \in Rules : \A t \in e.active[r] : t # Global => <<r, t>> \in grounds'
                       /\ e.todo \subseteq e.active[RuleOrder[e.rule]]
                       /\ e.step # "apply" => e.todo = {}
<1>1. Holds(eval[j])
  BY GroundsGrow DEF EvidenceInv, PassIsGrounded
<1>2. Holds(Resting)
  BY RuleOrderType DEF Resting
<1>3. Holds(eval'[j]) => PassIsGrounded(eval[j])'
  BY DEF PassIsGrounded
<1>4. eval[j] \in Evaluator
  BY DEF TypeOK
<1>5. CASE eval'[j] = eval[j]
  BY <1>1, <1>3, <1>5
<1>6. CASE eval'[j] = Resting
  BY <1>2, <1>3, <1>6
<1>7. CASE BeginPass(j)
  <2>1. eval'[j] = [eval[j] EXCEPT !.step = "read", !.begun = now]
    BY <1>7 DEF BeginPass, TypeOK
  <2>2. eval'[j].active = eval[j].active /\ eval'[j].todo = eval[j].todo
        /\ eval'[j].rule = eval[j].rule
    BY <1>4, <2>1 DEF Evaluator
  <2>3. eval[j].todo = {}
    BY <1>1, <1>7 DEF BeginPass
  <2> QED BY <1>1, <1>3, <2>2, <2>3
<1>8. CASE ReadRule(j)
  <2>1. CurrentRule(j) \in Rules /\ eval[j].rule \in 1..5
    BY <1>4, RuleOrderType DEF Evaluator, CurrentRule
  <2> PICK rule \in Rules : rule = CurrentRule(j)
    BY <2>1
  <2> DEFINE read == [eval[j] EXCEPT !.active[rule] = Query(rule, eval[j].begun)]
  <2>2. \A t \in Query(rule, eval[j].begun) : t # Global => <<rule, t>> \in grounds'
    <3>1. ASSUME NEW t \in Query(rule, eval[j].begun), t # Global
          PROVE  <<rule, t>> \in Grounds
      <4>1. Evidence(rule, t)
        BY <3>1, QueryHasEvidence
      <4>2. t \in Conversations
        BY <3>1, QueryType DEF Targets
      <4> QED BY <4>1, <4>2 DEF Grounds
    <3> QED BY <3>1, GroundsGrow DEF EvidenceInv
  <2>3. /\ read.active = [eval[j].active EXCEPT ![rule] = Query(rule, eval[j].begun)]
        /\ read.rule = eval[j].rule /\ read.todo = eval[j].todo
        /\ read \in [step : {"idle", "read", "apply"}, begun : Time, rule : 1..5,
                     active : [Rules -> SUBSET Targets], todo : SUBSET Targets]
    BY <1>4, <2>1, QueryType, RuleOrderType DEF Evaluator
  <2> HIDE DEF read
  <2>4. \A r \in Rules : \A t \in read.active[r] : t # Global => <<r, t>> \in grounds'
    BY <1>1, <1>4, <2>1, <2>2, <2>3 DEF Evaluator
  <2>5. eval'[j] = IF read.rule < Len(RuleOrder)
                   THEN [read EXCEPT !.rule = @ + 1]
                   ELSE Applying([read EXCEPT !.begun = 0], 1)
    BY <1>8 DEF ReadRule, TypeOK, read
  <2>6. eval'[j].active = read.active
    BY <2>3, <2>5 DEF Applying
  <2>7. CASE read.rule < Len(RuleOrder)
    <3>1. eval'[j] = [read EXCEPT !.rule = @ + 1]
      BY <2>5, <2>7
    <3>2. eval'[j].todo = read.todo
      BY <2>3, <3>1
    <3>3. read.todo = {}
      BY <1>1, <1>8, <2>3 DEF ReadRule
    <3> QED BY <1>3, <2>4, <2>6, <3>2, <3>3
  <2>8. CASE ~(read.rule < Len(RuleOrder))
    <3> DEFINE last == [read EXCEPT !.begun = 0]
    <3>1. last.active = read.active /\ last \in Evaluator
      <4>1. 0 \in Time
        BY AlertsAssumption DEF Time
      <4> QED BY <2>3, <4>1, RuleOrderType DEF Evaluator
    <3> HIDE DEF last
    <3>2. eval'[j] = Applying(last, 1)
      BY <2>5, <2>8 DEF last
    <3>3. /\ eval'[j].step = "apply" /\ eval'[j].rule = 1
          /\ eval'[j].todo = last.active[RuleOrder[1]]
      BY <3>1, <3>2 DEF Applying, Evaluator
    <3> QED BY <1>3, <2>4, <2>6, <3>1, <3>3
  <2> QED BY <2>7, <2>8
<1>9. CASE OpenAlert(j)
  <2>1. PICK t \in eval[j].todo : eval' = [eval EXCEPT ![j].todo = @ \ {t}]
    BY <1>9 DEF OpenAlert
  <2>2. eval'[j] = [eval[j] EXCEPT !.todo = @ \ {t}]
    BY <2>1 DEF TypeOK
  <2>3. eval'[j].active = eval[j].active /\ eval'[j].todo = eval[j].todo \ {t}
        /\ eval'[j].rule = eval[j].rule /\ eval'[j].step = eval[j].step
    BY <1>4, <2>2 DEF Evaluator
  <2> QED BY <1>1, <1>3, <2>3
<1>10. CASE ResolveStale(j)
  <2> DEFINE rest == [eval[j] EXCEPT !.active[CurrentRule(j)] = {}]
  <2>1. CASE eval[j].rule < Len(RuleOrder)
    <3>1. eval'[j] = Applying(rest, eval[j].rule + 1)
      BY <1>10, <2>1 DEF ResolveStale, TypeOK
    <3>2. rest.active = [eval[j].active EXCEPT ![CurrentRule(j)] = {}]
          /\ rest \in Evaluator
      BY <1>4 DEF Evaluator
    <3> HIDE DEF rest
    <3>3. eval'[j].active = rest.active
          /\ eval'[j].todo = rest.active[RuleOrder[eval'[j].rule]]
          /\ eval'[j].step = "apply"
      BY <3>1, <3>2 DEF Applying, Evaluator
    <3>4. \A r \in Rules : \A t \in rest.active[r] : t # Global => <<r, t>> \in grounds'
      BY <1>1, <1>4, <3>2 DEF Evaluator
    <3> QED BY <1>3, <3>3, <3>4
  <2>2. CASE ~(eval[j].rule < Len(RuleOrder))
    <3>1. eval'[j] = Resting
      BY <1>10, <2>2 DEF ResolveStale, TypeOK
    <3> QED BY <1>6, <3>1
  <2> QED BY <2>1, <2>2
<1>11. eval'[j] = eval[j] \/ eval'[j] = Resting \/ BeginPass(j) \/ ReadRule(j)
       \/ OpenAlert(j) \/ ResolveStale(j)
  <2>1. ASSUME NEW i \in Instances, i # j, Evaluate(i) \/ FailPass(i)
        PROVE  eval'[j] = eval[j]
    BY <2>1 DEF TypeOK, Evaluate, BeginPass, ReadRule, ReadRaises, OpenAlert, ResolveStale,
                FailPass
  <2>2. ReadRaises(j) \/ FailPass(j) => eval'[j] = Resting
    BY DEF TypeOK, ReadRaises, FailPass
  <2>3. ASSUME \/ Tick \/ UNCHANGED vars
               \/ PruneLogs \/ PruneSpans \/ PruneLinks \/ PruneAlerts
               \/ \E s \in Spans : StoreSpan(s)
               \/ \E l \in Logs : StoreLog(l)
               \/ \E k \in Links, ts \in LinkTimes : StoreLink(k, ts)
        PROVE  eval' = eval
    BY <2>3 DEF Tick, PruneLogs, PruneSpans, PruneLinks, PruneAlerts, vars,
                StoreSpan, StoreLog, StoreLink
  <2> QED BY <2>1, <2>2, <2>3 DEF Next, Evaluate
<1> QED BY <1>5, <1>6, <1>7, <1>8, <1>9, <1>10, <1>11

(* No conversation is accused of a failure that it never had part in,      *)
(* though retention may have deleted the evidence since.  The alerts alone *)
(* are not enough to show it: an alert rests on what its evaluator read    *)
(* long before, so the invariant is of what every pass holds as well.      *)
THEOREM AlertsRestOnEvidence == Spec => []AlertsHadEvidence
<1>1. Init => EvidenceInv
  <2>1. Init => Linked = {}
    BY DEF Init, Linked
  <2>2. Init => Grounds = {}
    BY <2>1 DEF Init, Grounds, Evidence
  <2> QED BY <2>2, RuleOrderType
          DEF Init, EvidenceInv, AlertsHadEvidence, PassIsGrounded, Resting
<1>2. ASSUME TypeOK, EvidenceInv, [Next]_vars
      PROVE  EvidenceInv'
  <2>1. grounds \subseteq grounds' /\ Grounds' \subseteq grounds'
    BY <1>2, GroundsGrow DEF EvidenceInv
  <2>2. AlertsHadEvidence'
    <3>1. CASE Opens
      <4>1. PICK i \in Instances : \E t \in eval[i].todo :
               alerts' = alerts \cup {NewAlert(CurrentRule(i), t)}
        BY <3>1 DEF Opens
      <4>2. PICK t \in eval[i].todo : alerts' = alerts \cup {NewAlert(CurrentRule(i), t)}
        BY <4>1
      <4>3. CurrentRule(i) \in Rules
        BY <1>2, RuleOrderType DEF TypeOK, Evaluator, CurrentRule
      <4> PICK r \in Rules : r = CurrentRule(i)
        BY <4>3
      <4>4. t # Global => <<r, t>> \in grounds
        BY <1>2 DEF EvidenceInv, PassIsGrounded, CurrentRule
      <4>5. NewAlert(r, t).rule = r /\ NewAlert(r, t).target = t
        BY DEF NewAlert
      <4> QED BY <1>2, <2>1, <4>2, <4>4, <4>5 DEF AlertsHadEvidence, EvidenceInv
    <3>2. CASE Resolves
      <4>1. PICK i \in Instances :
               alerts' = {IF Stale(i, x) THEN [x EXCEPT !.resolved = now] ELSE x : x \in alerts}
        BY <3>2 DEF Resolves
      <4>2. ASSUME NEW b \in alerts'
            PROVE  \E a \in alerts : b.rule = a.rule /\ b.target = a.target
        BY <1>2, <4>1, ResolvedAlert
      <4> QED BY <1>2, <2>1, <4>2 DEF AlertsHadEvidence, EvidenceInv
    <3>3. CASE Prunes
      BY <1>2, <2>1, <3>3 DEF AlertsHadEvidence, EvidenceInv, Prunes
    <3>4. CASE UNCHANGED alerts
      BY <1>2, <2>1, <3>4 DEF AlertsHadEvidence, EvidenceInv
    <3> QED BY <1>2, <3>1, <3>2, <3>3, <3>4, AlertSteps
  <2>3. \A j \in Instances : PassIsGrounded(eval[j])'
    BY <1>2, PassStaysGrounded
  <2> QED BY <2>1, <2>2, <2>3 DEF EvidenceInv
<1>3. EvidenceInv => AlertsHadEvidence
  BY DEF EvidenceInv
<1> QED BY <1>1, <1>2, <1>3, TypeCorrect, PTL DEF Spec
=============================================================================
