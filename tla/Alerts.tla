------------------------------- MODULE Alerts -------------------------------
(***************************************************************************)
(* The alert evaluator.  Each running instance, forever, reads the five    *)
(* rules one query after the other, then opens an alert for every target a *)
(* rule named and resolves the open alerts of targets it did not name,     *)
(* rule by rule.  Every statement is committed on its own, so ingestion,   *)
(* the clock, the deletes of retention and another instance's evaluator    *)
(* (rolling restart) run between any two of them, and a pass that raises   *)
(* leaves what it has already done.                                        *)
(***************************************************************************)
EXTENDS Naturals, FiniteSets, Sequences, SequencesExt

CONSTANTS
    Instances,      \* running instances
    Conversations,  \* conversation ids
    Traces,         \* trace ids
    Spans, SpanOf,  \* spans that may be ingested, and what the rules see of them
    Logs, LogOf,    \* likewise log rows
    Links,          \* (conversation, trace) rows that may enter the map
    LinkTimes,      \* the times of the records that may bring them in
    Global,         \* the target of what belongs to no conversation
    None,           \* SQL NULL
    NotNumeric,     \* a token attribute that is not a number
    Horizon,        \* bound: the last instant of the clock
    Window,         \* length of the sliding window
    Day,            \* 24 hours, the window of the token budget
    P95Threshold,   \* latency that the 95th percentile must not exceed
    TokenBudget,    \* input tokens that a day must not exceed
    Retention,      \* how long telemetry, links and resolved alerts are kept
    MaxFails        \* bound: passes that stop half way

Time == 0..Horizon

(* failed: business_error; broken: error status on a span that originates  *)
(* failures (an LLM or tool call); turn: duration of an invocation span;   *)
(* tokens: gen_ai.usage.input_tokens.                                      *)
SpanFacts == [trace : Traces, ts : Time, failed : BOOLEAN, broken : BOOLEAN,
              turn : Nat \cup {None}, tokens : Nat \cup {None, NotNumeric}]
LogFacts == [trace : Traces \cup {None}, ts : Time, error : BOOLEAN]

ASSUME AlertsAssumption ==
    /\ {Horizon, Window, Day, P95Threshold, TokenBudget, Retention, MaxFails} \subseteq Nat
    /\ None \notin Nat \cup Traces /\ NotNumeric \notin Nat
    /\ Global \notin Conversations
    /\ SpanOf \in [Spans -> SpanFacts]
    /\ LogOf \in [Logs -> LogFacts]
    /\ Links \subseteq Conversations \X Traces
    /\ LinkTimes \subseteq Time

Targets == Conversations \cup {Global}

(* The rules, in the order in which a pass reads and applies them.         *)
RuleOrder == <<"tool_failure", "app_error", "span_error", "latency_p95", "token_budget">>
Rules == {RuleOrder[n] : n \in DOMAIN RuleOrder}

VARIABLES
    now,     \* the clock
    spans,   \* the spans stored
    logs,    \* the log rows stored
    links,   \* the conversation map: each row's last activity, None if not there
    grounds, \* history: the rules and conversations that have had evidence
    alerts,  \* pulse_alerts
    eval,    \* the evaluator of each instance
    fails    \* passes stopped so far

telemetry == <<spans, logs, links>>
tables == <<now, spans, logs, links, grounds>>
vars == <<now, spans, logs, links, grounds, alerts, eval, fails>>

Alert == [rule : Rules, target : Targets, at : Time, resolved : Time \cup {None}]

(* begun: the clock when the pass computed its windows, while it reads;    *)
(* rule: the rule it is reading or applying; active: the targets read and  *)
(* not yet applied; todo: those of the rule being applied that are still   *)
(* to be opened.                                                           *)
Evaluator == [step : {"idle", "read", "apply"}, begun : Time, rule : DOMAIN RuleOrder,
              active : [Rules -> SUBSET Targets], todo : SUBSET Targets]

Resting == [step |-> "idle", begun |-> 0, rule |-> 1,
            active |-> [r \in Rules |-> {}], todo |-> {}]

TypeOK ==
    /\ now \in Time
    /\ spans \subseteq Spans
    /\ logs \subseteq Logs
    /\ links \in [Links -> Time \cup {None}]
    /\ grounds \subseteq Rules \X Conversations
    /\ alerts \subseteq Alert
    /\ eval \in [Instances -> Evaluator]
    /\ fails \in 0..MaxFails

Init ==
    /\ now = 0
    /\ spans = {}
    /\ logs = {}
    /\ links = [k \in Links |-> None]
    /\ grounds = {}
    /\ alerts = {}
    /\ eval = [i \in Instances |-> Resting]
    /\ fails = 0

----------------------------------------------------------------------------
(* The rules, as queries on the tables; t0 is the time the pass began.     *)

Within(ts, t0, window) == ts + window >= t0

RecentSpans(t0, window) == {s \in spans : Within(SpanOf[s].ts, t0, window)}

Linked == {k \in Links : links[k] # None}

(* Mutant: the target without its COALESCE.                                *)
NullTarget(trace) ==
    LET linked == {k[1] : k \in {j \in Linked : j[2] = trace}}
    IN  IF linked = {} THEN {None} ELSE linked

(* Mutant: the join without its ON condition.                              *)
AnyTarget(trace) ==
    LET linked == {k[1] : k \in Linked}
    IN  IF linked = {} THEN {Global} ELSE linked

(* LEFT JOIN on the map: every conversation the trace is linked to, or     *)
(* else the global target.                                                 *)
TargetsOf(trace) ==
    LET linked == {k[1] : k \in {j \in Linked : j[2] = trace}}
    IN  IF linked = {} THEN {Global} ELSE linked

ToolFailure(t0) ==
    UNION {TargetsOf(SpanOf[s].trace) : s \in {x \in RecentSpans(t0, Window) : SpanOf[x].failed}}

AppError(t0) ==
    UNION {TargetsOf(LogOf[l].trace) :
             l \in {x \in logs : LogOf[x].error /\ Within(LogOf[x].ts, t0, Window)}}

SpanError(t0) ==
    UNION {TargetsOf(SpanOf[s].trace) : s \in {x \in RecentSpans(t0, Window) : SpanOf[x].broken}}

(* percentile_cont(0.95): the value 19/20 of the way from the first to the *)
(* last of the sorted durations, interpolated; in twentieths.              *)
TwentyTimesP95(durations) ==
    LET place == 19 * (Len(durations) - 1)
        below == durations[place \div 20 + 1]
        above == IF place % 20 = 0 THEN below ELSE durations[place \div 20 + 2]
    IN  20 * below + (place % 20) * (above - below)

LatencyP95(t0) ==
    LET turns == {s \in RecentSpans(t0, Window) : SpanOf[s].turn # None}
        order == SetToSortSeq(turns, LAMBDA x, y : SpanOf[x].turn < SpanOf[y].turn)
        durations == [n \in DOMAIN order |-> SpanOf[order[n]].turn]
    IN  IF turns # {} /\ TwentyTimesP95(durations) > 20 * P95Threshold
        THEN {Global} ELSE {}

TokenSum(S) ==
    FoldSet(LAMBDA s, sum : sum + SpanOf[s].tokens, 0, {s \in S : SpanOf[s].tokens \in Nat})

TokensUsed(t0) == TokenSum(RecentSpans(t0, Day))

TokenBudgetRule(t0) == IF TokensUsed(t0) > TokenBudget THEN {Global} ELSE {}

(* The cast to numeric fails on any span of the day.                       *)
Unreadable(t0) == \E s \in RecentSpans(t0, Day) : SpanOf[s].tokens = NotNumeric

Query(rule, t0) ==
    CASE rule = "tool_failure" -> ToolFailure(t0)
      [] rule = "app_error"    -> AppError(t0)
      [] rule = "span_error"   -> SpanError(t0)
      [] rule = "latency_p95"  -> LatencyP95(t0)
      [] rule = "token_budget" -> TokenBudgetRule(t0)

Raises(rule, t0) == rule = "token_budget" /\ Unreadable(t0)

----------------------------------------------------------------------------
(* The surroundings: the clock, ingestion and retention.  A sender's clock *)
(* may be ahead, so telemetry and links may bear any time.  A rule may     *)
(* have named a conversation only by what was stored at some moment, so    *)
(* ingestion records in grounds what there is evidence of.                 *)

SpanEvidence(rule, s) ==
    \/ rule = "tool_failure" /\ SpanOf[s].failed
    \/ rule = "span_error" /\ SpanOf[s].broken

(* Stored telemetry of a trace of the conversation for which a rule fires. *)
Evidence(rule, conv) ==
    \/ \E s \in spans : <<conv, SpanOf[s].trace>> \in Linked /\ SpanEvidence(rule, s)
    \/ /\ rule = "app_error"
       /\ \E l \in logs : <<conv, LogOf[l].trace>> \in Linked /\ LogOf[l].error

Grounds == {g \in Rules \X Conversations : Evidence(g[1], g[2])}

Tick ==
    /\ now < Horizon
    /\ now' = now + 1
    /\ UNCHANGED <<telemetry, grounds, alerts, eval, fails>>

StoreSpan(s) ==
    /\ s \notin spans
    /\ spans' = spans \cup {s}
    /\ UNCHANGED <<now, logs, links, alerts, eval, fails>>
    /\ grounds' = grounds \cup Grounds'

StoreLog(l) ==
    /\ l \notin logs
    /\ logs' = logs \cup {l}
    /\ UNCHANGED <<now, spans, links, alerts, eval, fails>>
    /\ grounds' = grounds \cup Grounds'

(* The row of the map, its last activity moved to a later record's time.   *)
StoreLink(k, ts) ==
    /\ k \in Linked => links[k] < ts
    /\ links' = [links EXCEPT ![k] = ts]
    /\ UNCHANGED <<now, spans, logs, alerts, eval, fails>>
    /\ grounds' = grounds \cup Grounds'

Expired(ts) == ts + Retention < now

(* The statements of retention, each on its own and at any time: their     *)
(* order and their period are the subject of PulseStore.                   *)
PruneSpans ==
    /\ spans' = {s \in spans : ~Expired(SpanOf[s].ts)}
    /\ spans' # spans
    /\ UNCHANGED <<now, logs, links, grounds, alerts, eval, fails>>

PruneLogs ==
    /\ logs' = {l \in logs : ~Expired(LogOf[l].ts)}
    /\ logs' # logs
    /\ UNCHANGED <<now, spans, links, grounds, alerts, eval, fails>>

PruneLinks ==
    /\ links' = [k \in Links |-> IF k \in Linked /\ Expired(links[k]) THEN None ELSE links[k]]
    /\ links' # links
    /\ UNCHANGED <<now, spans, logs, grounds, alerts, eval, fails>>

(* Mutant: alerts pruned like the other tables, by age alone.              *)
PruneAlertsByAge ==
    /\ alerts' = {a \in alerts : ~Expired(a.at)}
    /\ alerts' # alerts
    /\ UNCHANGED <<tables, eval, fails>>

(* Old alerts, if resolved.                                                *)
PruneAlerts ==
    /\ alerts' = {a \in alerts : a.resolved = None \/ ~Expired(a.at)}
    /\ alerts' # alerts
    /\ UNCHANGED <<tables, eval, fails>>

----------------------------------------------------------------------------
(* One pass of an instance's evaluator.                                    *)

IsOpen(rule, target) ==
    \E a \in alerts : a.rule = rule /\ a.target = target /\ a.resolved = None

(* Mutant: the windows computed once, when the loop was started.           *)
BeginPassWithOldWindow(i) ==
    /\ eval[i].step = "idle"
    /\ eval' = [eval EXCEPT ![i].step = "read"]
    /\ UNCHANGED <<tables, alerts, fails>>

BeginPass(i) ==
    /\ eval[i].step = "idle"
    /\ eval' = [eval EXCEPT ![i].step = "read", ![i].begun = now]
    /\ UNCHANGED <<tables, alerts, fails>>

CurrentRule(i) == RuleOrder[eval[i].rule]

(* The evaluator at the start of the n-th rule's entries.                  *)
Applying(e, n) == [e EXCEPT !.step = "apply", !.rule = n, !.todo = e.active[RuleOrder[n]]]

ReadRule(i) ==
    LET rule == CurrentRule(i)
        read == [eval[i] EXCEPT !.active[rule] = Query(rule, eval[i].begun)]
    IN  /\ eval[i].step = "read"
        /\ ~Raises(rule, eval[i].begun)
        /\ eval' = [eval EXCEPT ![i] =
                       IF read.rule < Len(RuleOrder)
                       THEN [read EXCEPT !.rule = @ + 1]
                       ELSE Applying([read EXCEPT !.begun = 0], 1)]
        /\ UNCHANGED <<tables, alerts, fails>>

(* A query that raises ends the pass; the loop logs it and sleeps.         *)
ReadRaises(i) ==
    /\ eval[i].step = "read"
    /\ Raises(CurrentRule(i), eval[i].begun)
    /\ eval' = [eval EXCEPT ![i] = Resting]
    /\ UNCHANGED <<tables, alerts, fails>>

(* Mutant: a plain INSERT, without the unique index on open alerts.        *)
OpenAnother(i) ==
    /\ eval[i].step = "apply"
    /\ \E t \in eval[i].todo :
          /\ alerts' = alerts \cup {[rule |-> CurrentRule(i), target |-> t,
                                     at |-> now, resolved |-> None]}
          /\ eval' = [eval EXCEPT ![i].todo = @ \ {t}]
    /\ UNCHANGED <<tables, fails>>

(* INSERT ... ON CONFLICT DO NOTHING on the open alerts of (rule, target). *)
OpenAlert(i) ==
    /\ eval[i].step = "apply"
    /\ \E t \in eval[i].todo :
          /\ alerts' = IF IsOpen(CurrentRule(i), t) THEN alerts
                       ELSE alerts \cup {[rule |-> CurrentRule(i), target |-> t,
                                          at |-> now, resolved |-> None]}
          /\ eval' = [eval EXCEPT ![i].todo = @ \ {t}]
    /\ UNCHANGED <<tables, fails>>

(* Mutant: with no target active, the resolving statement is skipped.      *)
StaleIfAnyActive(i, a) ==
    /\ a.rule = CurrentRule(i)
    /\ a.resolved = None
    /\ eval[i].active[CurrentRule(i)] # {}
    /\ a.target \notin eval[i].active[CurrentRule(i)]

(* Whether an alert is one the rule at hand must resolve.                  *)
Stale(i, a) ==
    /\ a.rule = CurrentRule(i)
    /\ a.resolved = None
    /\ a.target \notin eval[i].active[CurrentRule(i)]

ResolveStale(i) ==
    /\ eval[i].step = "apply"
    /\ eval[i].todo = {}
    /\ alerts' = {IF Stale(i, a) THEN [a EXCEPT !.resolved = now] ELSE a : a \in alerts}
    /\ eval' = [eval EXCEPT ![i] =
                   IF eval[i].rule < Len(RuleOrder)
                   THEN Applying([eval[i] EXCEPT !.active[CurrentRule(i)] = {}],
                                 eval[i].rule + 1)
                   ELSE Resting]
    /\ UNCHANGED <<tables, fails>>

(* A statement raises, or the instance is stopped, anywhere in the pass.   *)
FailPass(i) ==
    /\ eval[i].step # "idle"
    /\ fails < MaxFails
    /\ fails' = fails + 1
    /\ eval' = [eval EXCEPT ![i] = Resting]
    /\ UNCHANGED <<tables, alerts>>

----------------------------------------------------------------------------
Evaluate(i) ==
    \/ BeginPass(i)
    \/ ReadRule(i) \/ ReadRaises(i)
    \/ OpenAlert(i) \/ ResolveStale(i)

Next ==
    \/ Tick
    \/ \E s \in Spans : StoreSpan(s)
    \/ \E l \in Logs : StoreLog(l)
    \/ \E k \in Links, ts \in LinkTimes : StoreLink(k, ts)
    \/ PruneLogs \/ PruneSpans \/ PruneLinks \/ PruneAlerts
    \/ \E i \in Instances : Evaluate(i) \/ FailPass(i)

Spec == Init /\ [][Next]_vars

(* The loop catches every exception, sleeps and starts again; the clock    *)
(* runs.  Nothing obliges telemetry to arrive.                             *)
FairSpec == Spec /\ WF_vars(Tick) /\ \A i \in Instances : WF_vars(Evaluate(i))

----------------------------------------------------------------------------
(* Properties.                                                             *)

(* However many evaluators run, and whatever they have read, a condition   *)
(* has at most one open alert.                                             *)
OneOpenPerTarget ==
    \A a, b \in alerts :
       a.rule = b.rule /\ a.target = b.target /\ a.resolved = None /\ b.resolved = None
         => a = b

(* An alert on a conversation, kept as long as it may be, was grounded:    *)
(* at one moment at least, telemetry for which its rule fires was stored,  *)
(* of a trace that was then linked to the conversation.  Telemetry, links  *)
(* and the clock change between the queries of a pass and the statements   *)
(* that apply them, retention deletes the evidence and the link while the  *)
(* alert stays, and the evaluator that opened it may have read long ago,   *)
(* yet no conversation is accused of a failure that it never had part in.  *)
AlertsHadEvidence ==
    \A a \in alerts : a.target # Global => <<a.rule, a.target>> \in grounds

(* A standing incident never vanishes: an open alert leaves the table only *)
(* as a resolved one, and a resolved one never changes again, until it is  *)
(* deleted for its age.                                                    *)
IncidentsEndByResolution ==
    [][\A a \in alerts \ alerts' :
         IF a.resolved = None
         THEN \E b \in alerts' : b.rule = a.rule /\ b.target = a.target /\ b.at = a.at
                                 /\ b.resolved = now
         ELSE a.at + Retention < now]_vars

(* When telemetry comes to rest, neither stored nor deleted any more, the  *)
(* open alerts come to be exactly the conditions that hold: the stale      *)
(* reads, the late links that move an alert from the global target to a    *)
(* conversation, the deleted ones that move it back, the second evaluator  *)
(* and the failed passes are all made good by later passes.                *)
AlertsConverge ==
    <>[][UNCHANGED telemetry]_vars =>
        <>[](\A r \in Rules, t \in Targets : IsOpen(r, t) <=> t \in Query(r, now))

(* What the comment on the rules says, of a condition that stays true: an  *)
(* alert is opened.                                                        *)
StandingConditionsAreAlerted ==
    \A r \in Rules, t \in Targets : <>[](t \in Query(r, now)) => <>IsOpen(r, t)
=============================================================================
