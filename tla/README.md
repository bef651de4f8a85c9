# A TLA+ model of th2pulse

th2pulse receives OpenTelemetry logs and traces of agent applications
(`src/th2pulse/ingest/`), keeps them in PostgreSQL with a map from
conversations to traces, answers queries per conversation and user, raises
alerts and deletes old telemetry; a small client library
(`otel.py`, `correlation.py`, `redaction.py`) sets up the export on the other
side. This directory models the parts of it that are hard to test: what
happens when payloads, retries, retention passes, alert passes, migrations,
crashes and the threads of an application overlap, and whether what was logged
is what a query answers. The runs check the models on small instances with TLC;
the `*_proofs` modules prove what matters most for every instance with TLAPS.

## 1. Inventory

| component | state it keeps | operations | interacts with | modelled in |
|---|---|---|---|---|
| Conversation map (`pulse_conversation_map`) | a row per (conversation, trace): user, first and last activity | upsert of a link, backfill of `last_seen`, delete by last activity, scope tests | written by ingestion and start-up, deleted by retention, read by every scoped query, by annotations and by the alert rules | ConversationMap, UpsertBatch |
| Telemetry tables and retention (`pulse_logs`, `pulse_spans`, `pulse_annotations`, `_retention_loop`, `prune_old`) | rows; where a pass is | insert, five deletes by age, each committed on its own | the same transactions as the map | PulseStore |
| OTLP delivery (`app.py` `/v1/logs`, `/v1/traces`; `Store.ingest_*`) | open transactions, a pool of 4 connections | check the request, parse, take a connection, statements, commit or roll back, reply | the collector, which repeats a post it has no answer to; row locks of other posts | Requests, Payloads, Ingest, AtomicDelivery |
| Alert evaluator (`_alert_loop`, `evaluate_alerts`, `pulse_alerts`) | where a pass is and what it has read; the alerts | five rule queries, then per rule: open, resolve | spans, logs, map, the clock, other evaluators, retention | Alerts |
| Lifecycle (`lifespan`, `Store.connect`/`close`, `__main__`) | the pool, the two tasks | DDL under an advisory lock, start and cancel the loops, close | the table locks of every other instance's statements | Lifecycle, PulseStore |
| HTTP guards (`create_app`, `_json_body`, `_gunzip_bounded`) | none | token checks, ceilings, gunzip, JSON | before every handler | Requests |
| Parsing (`parsing.py`) | none | values, ids, times, links, rows | ingestion | Parsing |
| Masking (`masking.py`) | none | rewrites text of rows before they are stored | ingestion | Masking |
| Read side (`query_*`) | none | scoped queries, statistics | all tables | Queries |
| Client (`otel.py`, `correlation.py`, `redaction.py`) | one module-level handler, the environment, the SDK's global provider, the handlers of the root logger, baggage | attach once, stamp and scrub records | threads of the host, the agent framework's own provider | Observability |
| Image, release scripts | none | | | not modelled |

What makes each hard, and what would make it correct:

* **Conversation map** - rows are written by payloads that arrive in any order
  and more than once, by overlapping transactions, and deleted by retention.
  The owner of a row must be decided once, its activity must only widen, and
  nothing but expiry may take a conversation from its user.
* **Telemetry and retention** - a retention pass is not a transaction. A log
  that arrives in the middle of a pass must not lose its mapping to the rest
  of that pass; a pass that stops half way must not leave a table unpruned for
  ever; a payload stored twice must not change a span.
* **OTLP delivery** - statements of different payloads interleave, wait for
  each other and deadlock; values are refused in the middle; replies are lost;
  the service dies. A payload must be applied whole or not at all, acknowledged
  only when applied, refused for good only when it should be, and delivered in
  the end.
* **Alert evaluator** - a pass works on what it read earlier, and two
  instances may run one each. A condition must have one open alert at most,
  alerts must have been deserved, though retention deletes what they were opened
  for, incidents must not vanish, and alerts must come to agree with the
  conditions.
* **Lifecycle** - the start-up DDL of one instance locks table after table
  while the payloads, queries and passes of another hold locks in orders of
  their own; shutdown cancels tasks without awaiting them. One migration at a
  time, no payload killed by one, and every start, stop, request and pass must
  come to an end.
* **Client, parsing, masking, queries** - threads set the bridge up at once or
  after a failure; conversations nest under spans that began elsewhere; the
  filters of one handler rewrite the record of the others; ids and times come
  in several forms; masking must not cut the tie between a user and the user's
  logs. A record must be exported once, to one collector, scrubbed, and be
  found by the queries it belongs to and by no others, as far as its tags and
  its trace can tell.

`PROJECT.json` lists every hazard at its line, with the properties that would
catch it or the reason why none does.

## 2. Modules and how they correspond to the code

    ConversationMap ---- UpsertBatch          (one payload, statement by statement)
     |   |   \
     |   |    PulseStore ---- MCPulseStore    (transactions against retention)
     |   |
     |  Payloads ---- AtomicDelivery          (what ingestion promises)
     |   |   \             :  refinement
     |   |    ---- Ingest ---- MCIngest       (statements, locks, retries)
     |  Requests                              (the checks of a post)
     |
    Parsing - Masking - Queries               (functions of the service)
                           |
    Observability ---- Journey ---- MCJourney (from a log call to an answer)

    Alerts ---- MCAlerts                      (evaluators)
    Lifecycle ---- MCLifecycle                (instances and table locks)

`X_proofs` holds the theorems about `X`, and `Ingest_proofs` and
`Journey_proofs` also those about the modules these two are made of or compared
with. `Recursion` is about recursive definitions, of any module.

**ConversationMap** holds operators only. `Upsert` is `_UPSERT_LINK`
(`COALESCE`, `LEAST`, `GREATEST` included), `UpsertAll` all the upserts of a
payload at once, `Backfill` the `UPDATE` of the DDL, `DropExpired`
`_PRUNE_CONVERSATION_MAP`, `MayUse` the scope test of annotations. A row whose
`last` is `NoTime` is one that an older version wrote. The service name of a
row is left out: nothing reads it back. **UpsertBatch** runs `Upsert` record by
record, as `executemany` does, beside `UpsertAll`.

**PulseStore** is the store at the granularity of its transactions. `IngestLogs`
and `IngestTraces` are `Store.ingest_logs` and `Store.ingest_traces` with what
the parser makes of a payload: every log record is a row, a span without ids is
skipped, but only after its link was taken. `Annotate` is `insert_annotation`,
whose scope test and insert are one statement. `StartPass`, `PruneLogs`,
`PruneSpans`, `PruneMap`, `PruneNotes`, `EndPass` are the statements of
`prune_old`, each an action of its own, for every instance; `FailPass` is the
exception that `_retention_loop` catches, or the end of the instance.
`Connect` is the start of a further instance, of which the tables see the
backfill. `EndPass` stands for the fifth delete, whose effect is
`Alerts!PruneAlerts`. Record times may be anything the clock has or has not
reached: senders set them. `pulse_logs` is here the set of distinct rows;
copies are counted in Ingest.

**Requests** is what a post must pass before the store sees it, in the order of
`_check_ingest_token`, `_json_body` and `_gunzip_bounded`: `Checks` lists the
tests with the status each failure gets, `Status` is the first that fails.
`Gunzip` asks for one byte more than the ceiling, so a stream that is too long
is refused before a break behind that byte is found. Sizes are numbers of which
only the relation to the ceilings matters; `WellFormed` is what the
documentation asks of a post, and is compared with `Status` through delivery.

**Ingest** opens a payload's transaction up. `Send` and `TimeOut` are the
collector's, which repeats a post after a 5xx or silence and gives up on a 4xx.
`Arrival` says how far a post comes before it needs a connection: refused, a
500 of the parser, stored at once because there is nothing to store, or queued.
A queued post takes a connection (`Acquire`), runs its statements in the order
of the code - log rows before links, links before spans (`Program`) - and
commits, replies, or is rolled back. What the parser makes of a payload is
`RowsOf` and `LinksOf` of Payloads: records with the columns that the store
keys and orders by. `Refused` is a value that a column cannot
hold, found when its statement comes (`BadAt`). `Blockers`, `Overtakes`,
`InCircle` and `KillForDeadlock` are PostgreSQL as the store relies on it: an
upsert waits for the transaction that wrote its row, reads what was committed
meanwhile, a transaction that waits goes before a newcomer, and of a circle one
is killed. `Fail` is any other failed statement, `Crash` the end of the
process, which leaves the tables and the collector.

**AtomicDelivery** is the abstract specification: payloads that the service has
to take are applied whole, one at a time, possibly more than once, and
acknowledged only when applied; of others the tables never see anything.
Ingest implements it (`Delivery == INSTANCE AtomicDelivery WITH logs <- logs,
spans <- spans, map <- map, acked <- acked`): statements, locks, refusals and
retries are stuttering steps, `Commit` is `Apply`, `Reply` is `Acknowledge`.

**Alerts** has one evaluator per instance. `BeginPass` fixes the windows,
`ReadRule` runs the next of the five rule queries, `OpenAlert` is one
`_OPEN_ALERT`, `ResolveStale` one `_RESOLVE_STALE`; `ReadRaises` and `FailPass`
end a pass as the loop's `except` does. The rules are operators on the stored
spans, logs and links: the outer join that turns an unlinked trace into the
global target, the interpolated 95th percentile, the sum of tokens and the cast
that may raise. Spans and logs carry only what the rules read. `PruneSpans`,
`PruneLogs`, `PruneLinks` and `PruneAlerts` are the deletes of retention, each
at any time (their order and their period are PulseStore's), so the telemetry
and the link that an alert was opened for may go while the alert stays. Senders
set the times of records, so telemetry and links may bear any time of the clock,
one to come or one that is about to expire. `grounds` is
history: for which rules and conversations there has been evidence at some
moment.

**Lifecycle** has instances that start, serve, stop, fail and die. Every use of
a connection - the start, a request, a pass of a loop - is a session with a
program of table locks, read off the statements of the method (`Connect`,
`PostTraces`, `Annotate`, `EvaluateAlerts`, ...): `ALTER TABLE`, `CREATE INDEX`,
writes and reads take the modes that PostgreSQL documents, and `Migration` lists
the DDL script's in its order. `Acquire`, `Wait`, `Blockers` and `InCircle` are
the lock queue and the deadlock detector. The advisory lock is a lock of the
session that outlasts the transaction (`EndTransaction`) and goes with its own
statement (`ReleaseAdvisoryLock`) or with the session (`GiveBack`). `Stop`,
`BeginClose`, `EndByCancel` and `Close` are the end of `lifespan`: requests are
finished, the loops cancelled and not awaited, the pool waits for every
connection. After a `Crash` the sessions of the dead process end one by one
(`EndOrphan`), and its DDL may run on until then.

**Observability** is the client library in an application of several threads.
The steps of `_init` are actions, between which other threads run: `Configure`
(the test of `setdefault`) and `SetDefault` (its assignment: `os.environ` is a
Python mapping, whose `setdefault` looks first and writes then), `Check`
(`_state`), `FindProvider`,
`InstallProvider` (the SDK accepts the first one only), `Attach` (handler,
filters, root logger), `Remember`; `GiveUp` is the exception that
`init_observability` turns into `False`, a bad pattern among its causes, and
`CallAgain` the next call. `AdkInstalls` is the agent framework that sets a
provider of its own. `Enter` and `Leave` are `conversation_context` with the
tokens it returns to. A span starts without tags (`StartSpan`) and is tagged by
every conversation that is entered under it (`TagSpan`), with its user if one is
named; that spans take the baggage of a block they begin in is nowhere in the
library. `LogRecord` is a log call: `Copy(t, i)` is what the i-th
handler exports, after the filters of the handlers before it have rewritten the
shared record. A record has a secret in its message and one in what it is given
besides (extra attributes, an exception); filters rewrite the message alone.
`frames`, the `truth` of a log, and `around` and `entered` of a span are history:
which blocks the code was in when it logged or began the span, and which it
entered under the span. `overlap` is history of calls that met between a test and
its assignment.

**Parsing**, **Masking** and **Queries** are the service's functions: `AnyValue`,
`HexId` (case, zeros), `Ts` (zero, missing), `LinkFromAttrs` (numbers as ids),
`ParseLog`, `ParseSpan`; which texts of a row are rewritten at any depth, for an
arbitrary set of sensitive words; and `_QUERY_LOGS`, `_QUERY_SPANS`,
`_QUERY_CONVERSATIONS` and the counts of the statistics on the tables.
A value on the wire is a scalar, a list, or a list of keys and values: `WireLevel`
builds them level by level, up to `Nesting`, and `ValueLevel` does the same for
what they are parsed into. `AnyValue`, `MaskValue` and `Leaves` (the scalars of a
value, at any depth) are recursive functions on those sets, so every value that
a payload can hold is an argument of theirs.
**Journey** composes them: what the application exported and records of other
services are delivered in any order, parsed, linked, masked and stored, and
every answer is compared with what was said by the code that logged. The truth
of a record (`TruthOf`) is the history of its thread and never what it was
exported with, so a wrong tag is seen. It is compared in both directions: what a
query finds must be of a trace on which something was done in a block of that
conversation, or in the name of that user (`MayConcern`, `MayBelong`); what must
be found is every record of a trace with a log made in the conversation, or with a
span under which it was entered last (`MustConcern`), and for a user every
record of a trace whose records of some conversation name that user and no other
(`MustBelong`). Between the two the code has its choice: a span of which an
outer block says c1 and which c2 was entered under may be found by either.
The records of other services may be any that say what they are (`Says`) in a
form that the protocol has: ids in either case, missing or zeros, times that are
missing or zero, names as texts or numbers, a key given more than once, other
attributes and bodies of any value. What is excluded is a name that is a list, a
map, a fraction or a truth value, a span without ids, and a conversation named
by the number zero, which the code takes for none.

### Abstractions common to all modules

* The service and the database have one clock.
* Wording, severity labels of alerts, JSON and the attributes of records are
  left out, apart from the ids, times and facts the properties use. A text is
  the set of its words.
* Overlapping single statements on one table (an upsert and a delete of the
  same row) behave as in one order or the other, by PostgreSQL's row locks.

## 3. Runs

Every bound is a constant named in the configuration; all runs are exhaustive
within them.

| run | bounds | what it shows |
|---|---|---|
| `UpsertBatch` | one conversation and trace, two users, two instants, payloads of up to 3 records, from every row the map may hold | `BatchIsSequential`: the statements give what `UpsertAll` gives. `OrderDecidesUserOnly`: in the reverse order the times are the same and only the user may differ. `ReplayIsIdempotent`: a retried payload changes no row |
| `StoreSafety` | two users, four instants, retention 1, one stored log at a time, one restart, one retention loop | types; `StampedTelemetryIsMapped`; `RowsOnlyWiden`; `AccessEndsByExpiryAlone`; `SpansAreFirstWriterWins` |
| `StoreRetention` | two retention loops, one stopped pass, a log, a span and a note, retention 0 | `ExpiredRowsLeave`: whatever has expired is deleted in the end |
| `Ingest` | four payloads: spans and logs that link two traces in opposite orders, posted at the two ceilings, four posts each; spans of which the database refuses one and a body over the ceiling, one post each; pool of 2, one fault | types; `DuplicatesNeedFaults`; `AnswersAreTrue`: what a 200 or a 4xx says of a payload is so and stays so; `AppliedAtomically` (the refinement); `EveryPayloadDelivered` |
| `Alerts` | three spans (a fast turn, a slow failed turn, one with a token attribute that is no number), a link of time 0 that may come late, three instants; window, day and retention of one instant | types; `AlertsHadEvidence`; `IncidentsEndByResolution`; `AlertsConverge` |
| `AlertsRolling` | two evaluators, two error logs, one at the last instant and of a trace that may be linked, one old and of no conversation, one stopped pass, two instants, window and retention 0 | `OneOpenPerTarget`; `AlertsConverge` |
| `Lifecycle` | two instances, pools of 2: one serves both kinds of payload, annotations, log queries and an alert pass, the other spans | types; `OneMigration`; `IngestionIsNeverVictim`; `SchemaBeforeService`; `StartsAndStopsEnd`; `RequestsAndPassesEnd` |
| `Journey` | two threads, five plans (what the calls ask for, and how many nestings, spans, logs, installs and failures an application makes, in any order), two records of other services | types; `ActiveBridgeExports`; `OneCopyWithoutOverlap`; `OneDestination`; `MessagesLeaveScrubbed`; `QueriesTellTheTruth`; `AnswersAgree`; `StoredLogsAreMasked` |
| `IngestReplay` | the logs payload, the empty one and one the parser raises on | violation of `NoDuplicateLogs` |
| `StoreMapping` | as `StoreSafety` | violation of `MappingInUseIsKept` |
| `AlertsPoison` | one failure that stands and one unreadable span | violation of `StandingConditionsAreAlerted` |
| `JourneyRedaction` | as `Journey` | violation of `RecordsLeaveScrubbed` |

Why the bounds suffice. One conversation and one trace give the map one row,
and every property of the map is about one row, or about one user's rows; two
users are what it takes to dispute it. Four instants with retention 1 hold a
row that is fresh, one on the boundary, one expired and one created after.
Two payloads that take two rows in opposite orders are the smallest deadlock,
a pool of 2 the smallest that allows it; four posts leave room for a deadlock,
a fault and a success, and the refused payloads take locks and connections from
them. Two evaluators are the rolling restart that the code provides for. In
`Alerts` three instants let a window of one instant open, be in force and close,
and let telemetry and links of time 0 expire, under an alert that is kept. When
the clock rests at 2, the spans of time 1 are within window, day and retention:
a failed turn stands on the conversation or, once its link has expired, on the
global target, and the percentile and the budget stand with it. In
`AlertsRolling` the error of the last instant stands likewise, before two
evaluators. An evaluator that opens nothing fails `AlertsConverge` in both.
Two instances with the sessions of `Lifecycle` hold every pair
of lock orders that differ: log rows before the map, the map before spans,
notes before the map, logs and spans under a migration. The plans of `Journey` put
two overlapping calls that name different endpoints, with a failure and two logs,
a failing pattern next to a good one under a given endpoint, two nested
conversations with a span and a log or with two spans, and two logs under or
beside a span with one conversation; the foreign records
bring the awkward ids and times. Two collectors are really reached when
`setdefault` is overtaken, so the condition of `OneDestination` excludes what
happens. Symmetry (of conversations, traces, users
and instances) is used in the safety runs of the store alone.

`CHECK_DEADLOCK FALSE` is set in every run: clocks stop at their horizon, posts
end when all is delivered, applications end, and the bounds on rows and faults
leave states in which nothing more happens, by the bounds and not by the code.
In `Journey` deliveries come after the end of the application, since nothing of
the store comes back to it.

### Disagreements between the code and its documentation

1. *Replaying an export is not safe for logs* (`IngestReplay`). README.md:157-159
   promises it. A post whose reply is lost after the commit is repeated, and
   `pulse_logs` has no key by which the second copy could be refused.
   `DuplicatesNeedFaults` says how far it goes: one copy more for each fault.
2. *A mapping in use can be deleted* (`StoreMapping`). The comment on
   `last_seen` (store.py:37-40) excludes it. Only records that carry the
   conversation attribute move `last_seen`; the later logs of a trace that carry
   only their trace id do not, and they are the ones that need the map.
   `StampedTelemetryIsMapped` is what does hold.
3. *One unreadable attribute silences all alerts* (`AlertsPoison`). The comment
   on the rules (store.py:122-124) says that a true condition without an alert
   opens one. The token rule's cast raises for as long as the span is within 24
   hours, and all rules are read before any is applied.
4. *Redaction covers the message only* (`JourneyRedaction`). The docstring of
   `init_observability` (otel.py:57-58) promises "regexes scrubbed from exported
   records", README.md:92 that scrubbing "applies to what leaves the process". The
   filter (redaction.py:32-43) rewrites `msg` and `args`; extra attributes and
   the text of an exception are exported by the same handler as they are.
   `MessagesLeaveScrubbed` is what does hold.

Further disagreements that were met in modelling, to which no run is given. The
properties are stated so that they hold where these occur:

* README.md:100-108 says of `conversation_context` that "spans/logs emitted here
  join the conversation" and that a store can filter application logs "per
  conversation directly", and correlation.py:9-11 and 28-31 say the same. The
  store of this repository filters through the map alone (store.py:217-230): a
  log in a block but outside of any span carries no trace and no query by
  conversation or user finds it, though it is stamped. A span begun inside a
  block is not tagged by it, for only the span that is current on entering is
  (correlation.py:62-66), and the baggage is put on logs alone; it is found only
  through other records of its trace. `QueriesTellTheTruth` requires neither that
  these are found nor that they are not.
* README.md:160 says that "`user_id` narrows every query to one user's
  conversations". A conversation that is entered without a user under a span that
  an earlier block tagged with one takes that user over (correlation.py:65-66), and
  is then listed among the user's. `MayBelong` speaks of traces and allows it.
* otel.py:66-69 says that "both sides export to the same endpoint". Two first
  calls that overlap in `setdefault` (otel.py:85) and name different endpoints
  may build one exporter each, for two collectors; hence the condition of the
  second half of `OneDestination`. The first half, for an endpoint that the
  environment had from the start, has none.
* Two overlapping first calls also attach two handlers, and every record is
  exported twice, against the comment that repeated calls "stay idempotent"
  (otel.py:32); hence the condition of `OneCopyWithoutOverlap`.
* The budget rule sums the tokens of all spans (store.py:163-168), while the
  comment in the statistics query (store.py:246-249) says that usage is on both
  the `call_llm` span and its child, "so summing across all spans double-counts":
  the alert opens at half the budget that the statistics show. `TokenSum` has the
  code's sum.

Observations that contradict no sentence of the repository:

* A handler that the host attaches after the library's prints the scrubbed text:
  the filters rewrite the record itself.
* An alert may outlive its evidence: an open one is kept however old it is, a
  resolved one by the age of its opening, while retention deletes telemetry by
  its own times and links by their last activity. Hence `AlertsHadEvidence` says
  what was, not what is.
* A migration can make log queries, annotations and alert passes the victims of
  a deadlock (they read the map after another table); `IngestionIsNeverVictim`
  is what the order of the DDL script does give.

## 4. Fairness

* The clock goes on (`WF(Tick)`).
* Each instance's loop goes on: `_retention_loop` and `_alert_loop` catch every
  exception and sleep again, so a step of a pass that can be taken is taken
  (`WF(PassStep)`, `WF(Evaluate)`). Failures of passes are bounded and never
  owed.
* A post that can go on goes on (`WF(Serve)` for each post: the pool queues
  first come first served, a commit wakes the next waiter of a row, and the
  deadlock detector fires), and the collector posts again what it has no
  acknowledgement for (`WF(Send)`). Nothing else is assumed: faults, arrivals
  of telemetry and annotations may never happen. `AlertsConverge` has the premise
  that telemetry comes to rest (`<>[][UNCHANGED telemetry]_vars`): while it is
  stored and deleted without end, conditions come and go faster than any pass.
* In Lifecycle each session that has a connection goes on (`WF(Proceed)`), some
  member of a circle is killed (`WF` of `KillForDeadlock` for all sessions
  together: which one, nobody promises), and an instance that was told to stop
  goes on stopping (`WF(BeginClose \/ Close)`). Nobody has to start, to send a
  request, to begin a pass or to stop, and failures are never owed.

## 5. Proofs

For all sizes of all sets, all thresholds and payloads of any length, from the
named assumptions on the constants (numbers are naturals, and the stand-ins for
NULL and "none" are none of the values):

* `ConversationMap_proofs`: lemmas on the operators. `UpsertRowFacts` is the
  centre: the upserts of a payload leave a row that keeps a known user, is no
  narrower, and covers each of its records. `Min` and `Max` are choices, so
  `LeastExists` and `GreatestExists` first show that bounded sets of times have
  them.
* `UpsertBatch_proofs`: `StatementsAmountToBatch`, `Spec => []BatchIsSequential`.
  The step (`UpsertAllOneMore`) shows that one more record at the end of a
  payload changes the value of `UpsertAll` as one more statement does. It is the
  justification of every place that applies a payload's upserts at once.
  `ReplayChangesNothing`: a row that the payload has written already holds its
  times and its user, so writing it again changes nothing (`UpsertRowTwice`).
  `OrderMattersForUserOnly`: the reverse payload names the same rows, times and
  users (`ReversedHits`).
* `PulseStore_proofs`: `TypeCorrect`, then the action properties `OwnersStick`,
  `AccessEndsByExpiry` and `SpansStay`, which follow from the types and from
  `MapSteps` (a step either widens the rows of the map or deletes expired
  ones). `StampedTelemetryStaysMapped` proves the invariant
  `StampedTelemetryIsMapped` inductive with the types: telemetry that comes in a
  step is covered by the row its own payload upserts; telemetry that was there
  stays covered, since a row is deleted only when older than the retention, the
  row is no older than the telemetry (`CoverStays`) and what is old stays old
  (`OldStaysOld`).
* `Ingest_proofs`: `CopiesNeedFaults`. That a log row has at most one copy more
  than there were faults is not inductive: a post under way may still add one.
  `CopyInv` adds up, for each payload, the copies stored, the posts alive
  (queued or open) and the post that is owed (none is awaited and the payload
  is neither acknowledged nor dropped), and bounds the sum by 1 + faults: a
  commit turns an alive post into a copy, an error turns it into an owed one,
  sending turns the owed one into an alive one, and only a time-out, a crash or
  another fault adds to the sum.
  `AppliesAtomically` is that Ingest implements AtomicDelivery. What a
  transaction has written was computed from the tables of the moment each
  statement ran, and other transactions have committed since; the commit must
  nevertheless amount to `Apply` on the tables as they are then. `DeliveryInv`
  (checked with TLC first) says why it does: every open transaction is `InStep`
  - its rows are what its statements so far make of the *current* tables -
  because no two transactions have written the same row (`Disjoint`), so that a
  commit changes no row of another (`OthersInStep`). `NextStatement` and
  `WrittenOneMore` extend this by one statement, with `UpsertAllOneMore` of the
  map; `Holding` is what is known of a post that is to be answered with 200.
  `StepsPromised` maps `Commit` to `Apply`, a `Reply` of 200 that is heard to
  `Acknowledge`, all other steps to stuttering.
  `TypeCorrect` is a part of the invariant. `AnswersHold` is `AnswersAreTrue`:
  a payload that the tables hold is held after any other is stored
  (`SpansStay`, `LinksStay`: a row that the upserts of a payload leave alone is
  left alone by them after any other upsert, `SettledStays`), and the checks of
  a post pass exactly on what the documentation asks (`StatusFacts`).
* `Alerts_proofs`: `TypeCorrect`, `OneAlertPerCondition`,
  `IncidentsAreResolved`, all from the four ways in which a step changes the
  alerts (`AlertSteps`), and `AlertsRestOnEvidence`. The last is not inductive as
  it stands: an alert is opened from what a pass read long before, and by then
  retention may have deleted it. The invariant
  `EvidenceInv` adds that all evidence there is at present is among `grounds`,
  that whatever any pass holds is, that what it is
  still to open is among what it read for its rule, and that a pass that has not
  begun to apply has nothing to open.
* `Lifecycle_proofs`: `MigrationIsAlone` and `ServiceOnSchema`, for any number of
  instances. `MigrationInv` ties the place in the program of a start to the
  locks it holds: past its first step it has the advisory lock until the
  statement that gives it up, by when the transaction's locks are gone; no two
  sessions have the advisory lock; and a start that is past its commit has left
  the schema behind. `TypeCorrect` and `IngestionSurvives` rest on `LockInv`,
  which adds that a session holds only locks of steps behind it, that no two
  sessions hold locks that conflict, and that the queue has no one twice and
  only sessions that have come to a lock (checked with TLC first). From it: the
  modes of requests and passes never conflict with each other, so they wait for
  a migration only (`BlockersOfQuiet`), and a migration, of which there is one,
  waits for requests and passes only (`BlockersOfMigration`); a circle with a
  transaction of ingestion in it therefore holds a migration that waits for it
  and that it waits for. `NotForEachOther` excludes that: the script locks the
  logs before the map and the map before the spans, as ingestion does.
* `Recursion`: `RecursionIsDefined`. A recursive function is a choice among the
  functions that satisfy its equation, so nothing follows from its definition
  until one is known to exist. It does whenever the body looks at arguments of
  less depth only: functions that solve the equation below some depth agree
  (`SolutionsAgree`), there is one for every depth (`SolutionsExist`), and the
  function asked for takes its value at `x` from one that reaches beyond `x`.
  The induction behind it is a proof by the least counterexample.
* `Journey_proofs`, first part, the client: for any number of threads, calls and
  endpoints, of `ClientSpec`, which is what `Journey` does of the client until
  the application ends. `BridgeExports` (`BridgeInv`: a handler is attached
  before anything says so), `Destination` (`DestinationInv`: an endpoint
  that the environment had from the start is never overwritten; and as long as no
  two calls have overlapped in `setdefault` with different endpoints, the
  environment is `Settled`: it names one before any exporter is made, does not
  change it, and every exporter, installed or not, and every export has that
  one), `Scrubbed` (`ScrubInv`: every handler scrubs messages from the moment it
  is attached) and `OneCopy`
  (`OneCopyInv`: unless calls have overlapped, one call at most is between the
  test of `_state` and the moment it remembers its handler, and there is a
  handler only if that is so or `_state` holds it).
* `Journey_proofs`, second part, values: instances of `Recursion` show that
  `WireLevel`, `ValueLevel`, `AnyValue`, `MaskValue` and `Leaves` are what their
  definitions say (the depth of a value is the least level that has it), and
  inductions over the levels show that the parser makes a value of every wire
  value (`AnyValueType`), and that the masking keeps the level of a value and
  leaves no sensitive word in any text of it, at any depth
  (`MaskingReachesEveryDepth`).
* `Journey_proofs`, third part, from the record to the answer, for any threads,
  names, traces, plans and records of other services and any order of delivery:
  `QueriesAreTrue`, `PagesAgree`, `LogsAreMasked`, `JourneyTypeCorrect`, and
  `RecordsKeepTheirClaims`, which carries the client's four claims over to the
  composition and beyond the end of the process. They follow from `JourneyInv`
  (its parts were checked with TLC first), which joins
  * `ContextInv`: the baggage of a thread is that of the blocks it is in, every
    token leads back to the blocks outside of its own, every span is `WellTagged` (it
    has the conversation last entered under it, and one of the users named there,
    if any was), and so every exported record is `Faithful`: a log is stamped with
    the conversation and the user that the code around it names, a span tagged
    with what was entered under it;
  * `ClientClaims`: the invariants of the first part as long as the application
    runs, what follows from them for the exported records after it;
  * `TablesInv`: each table holds, of the records delivered, the masked row of
    each; and a row of the map is there exactly if a record named its
    conversation and its trace together, with a user that one of them named, if
    any did. `OneLink` shows that a delivery moves the row of its link and no other.

  None of it would follow if the parser mistook a record for another:
  `ExportsSay` shows that what the exporters send says what the record is tagged
  with (`SaidByExport`; `TagsTell` relates the tags to the truth, which is the
  history of the thread), and
  `LogRowFacts` and `SpanRowFacts` that whatever says what it is, in whichever
  form, is parsed to a row and a link that say the same. `ScopeFacts` then reads
  the traces of a conversation and of a user off the map, and `ListedOnce`
  counts the conversations of the list.

Assumed of the constants, besides stand-ins that are no values: the two
attribute keys are keys, what replaces a sensitive word is not sensitive itself
(`MaskingAssumption`; the code replaces by a fixed mark in brackets), the names
that the application uses are words of the wire (`JourneyAssumption`), and the
records of other services say what they are (`ForeignAssumption`). TLC evaluates
all of them on every run.

Model-checked only: the liveness properties `ExpiredRowsLeave`,
`EveryPayloadDelivered`, `AlertsConverge`, `StartsAndStopsEnd` and
`RequestsAndPassesEnd`, which are out of the prover's reach. Every invariant and
every action property of a passing run is a theorem.

## 6. Not modelled, and what remains

Not modelled: the business-error test of `parsing.py` (a regular expression on
JSON text), the duration and status of spans; the keys of maps inside of a value
and the resource attributes, which are not masked; batching and `force_flush` of the
SDK; the library's own log lines; order and `LIMIT` of the queries, durations,
tool calls and token sums of the statistics (which the join with the map repeats
for a trace of two conversations); `/healthz`, `/v1/metrics` (accepted
and dropped) and the refusal to bind without a token; which texts the patterns
of masking and redaction match, and what they put in their place; formatting of
responses; the image and release scripts.

What would come next: one composition of PulseStore and Alerts with one map and
one clock; instances of Lifecycle whose queued requests and loops still begin
while the server drains (a session begins there on a serving instance only); the listing
of alerts and annotations by scope in Queries; what retention takes from
acknowledged payloads (in Ingest nothing is deleted, so `AnswersAreTrue` speaks
of telemetry within the retention).
