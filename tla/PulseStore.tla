----------------------------- MODULE PulseStore -----------------------------
(***************************************************************************)
(* The telemetry store at the granularity of its transactions: payloads    *)
(* arriving while the retention loops of the running instances delete old  *)
(* rows table by table.                                                    *)
(*                                                                         *)
(* A payload is one transaction, so here it is one step (Ingest opens that *)
(* step up).  A retention pass is five DELETE statements, each committed   *)
(* on its own, so it is five steps with anything in between, and it can    *)
(* stop after any of them.  The fifth table, pulse_alerts, belongs to the  *)
(* module Alerts; the step that deletes from it only ends the pass here.   *)
(***************************************************************************)
EXTENDS ConversationMap

CONSTANTS
    Instances,   \* running instances of the service (two in a rolling restart)
    SpanIds,     \* span ids
    NoSpan,      \* "the span carries no usable span id"
    Retention,   \* how long telemetry is kept
    MaxBatch,    \* bound: records in a payload
    MaxLogs,     \* bound: rows in pulse_logs
    MaxNotes,    \* bound: rows in pulse_annotations
    MaxFails,    \* bound: retention passes that stop half way
    MaxConnects  \* bound: instances (re)started

ASSUME StoreAssumption ==
    /\ Retention \in Nat
    /\ NoSpan \notin SpanIds
    /\ {MaxBatch, MaxLogs, MaxNotes, MaxFails, MaxConnects} \subseteq Nat

VARIABLES
    now,      \* the database clock
    logs,     \* pulse_logs: the distinct (conversation attribute, trace, ts)
    spans,    \* pulse_spans, by primary key
    map,      \* pulse_conversation_map, by primary key
    notes,    \* pulse_annotations: (conversation, writer's scope, created_at)
    pass,     \* the next statement of each instance's retention pass
    fails,    \* retention passes stopped so far
    connects  \* instances started so far

vars == <<now, logs, spans, map, notes, pass, fails, connects>>

Steps == {"idle", "logs", "spans", "map", "notes", "alerts"}

LogRow  == [conv : Conversations \cup {NoConv},
            trace : Traces \cup {NoTrace}, ts : Time]
SpanKeys == Traces \X SpanIds
SpanRow == [conv : Conversations \cup {NoConv}, ts : Time]
Note    == [conv : Conversations, by : Users \cup {NoUser}, at : Time]

(* A span as parsed: a record with its span id.                            *)
SpanRecord == [conv  : Conversations \cup {NoConv},
               trace : Traces \cup {NoTrace},
               user  : Users \cup {NoUser},
               ts    : Time,
               span  : SpanIds \cup {NoSpan}]

Payloads(S) == UNION {[1..n -> S] : n \in 1..MaxBatch}

TypeOK ==
    /\ now \in Time
    /\ logs \subseteq LogRow
    /\ spans \in [SpanKeys -> SpanRow \cup {NoRow}]
    /\ map \in Maps
    /\ notes \subseteq Note
    /\ pass \in [Instances -> Steps]
    /\ fails \in 0..MaxFails
    /\ connects \in 0..MaxConnects

----------------------------------------------------------------------------
(* A map row written before the last_seen column existed: nothing in it    *)
(* but a user and the time of the first record.  It predates every row the *)
(* present service stores.                                                 *)
LegacyRow == [user : Users \cup {NoUser}, first : {0}, last : {NoTime}]

Init ==
    /\ now = 0
    /\ logs = {}
    /\ spans = [k \in SpanKeys |-> NoRow]
    /\ map \in [Keys -> LegacyRow \cup {NoRow}]
    /\ notes = {}
    /\ pass = [i \in Instances |-> "idle"]
    /\ fails = 0
    /\ connects = 0

Tick ==
    /\ now < Horizon
    /\ now' = now + 1
    /\ UNCHANGED <<logs, spans, map, notes, pass, fails, connects>>

(* Store.connect of a further instance: its DDL backfills last_seen.       *)
Connect ==
    /\ connects < MaxConnects
    /\ connects' = connects + 1
    /\ map' = Backfill(map)
    /\ UNCHANGED <<now, logs, spans, notes, pass, fails>>

----------------------------------------------------------------------------
(* Ingestion.                                                              *)

LogOf(rec) == [conv |-> rec.conv, trace |-> rec.trace, ts |-> rec.ts]

(* POST /v1/logs: every record is stored, the linked ones upsert the map.  *)
IngestLogs(recs) ==
    LET stored == logs \cup {LogOf(recs[i]) : i \in DOMAIN recs}
    IN  /\ Cardinality(stored) <= MaxLogs
        /\ logs' = stored
        /\ map' = UpsertAll(map, recs)
        /\ UNCHANGED <<now, spans, notes, pass, fails, connects>>

(* The records of the payload that are stored under a span key.            *)
SpanHits(recs, k) == {i \in DOMAIN recs : <<recs[i].trace, recs[i].span>> = k}

(* Mutant: ON CONFLICT DO UPDATE, the last delivery of a span wins.        *)
IngestTracesOverwriting(recs) ==
    /\ map' = UpsertAll(map, recs)
    /\ spans' = [k \in SpanKeys |->
                    IF SpanHits(recs, k) = {} THEN spans[k]
                    ELSE LET first == recs[Min(SpanHits(recs, k))]
                         IN  [conv |-> first.conv, ts |-> first.ts]]
    /\ UNCHANGED <<now, logs, notes, pass, fails, connects>>

(* POST /v1/traces: a span's link is taken before the span is skipped for  *)
(* want of an id; a span already stored is never replaced, within the      *)
(* payload or by a later one.                                              *)
IngestTraces(recs) ==
    /\ map' = UpsertAll(map, recs)
    /\ spans' = [k \in SpanKeys |->
                    IF spans[k] # NoRow \/ SpanHits(recs, k) = {} THEN spans[k]
                    ELSE LET first == recs[Min(SpanHits(recs, k))]
                         IN  [conv |-> first.conv, ts |-> first.ts]]
    /\ UNCHANGED <<now, logs, notes, pass, fails, connects>>

(* POST /annotations: one INSERT ... SELECT whose WHERE is the scope test. *)
Annotate(c, u) ==
    LET note == [conv |-> c, by |-> u, at |-> now]
    IN  /\ MayUse(map, u, c)
        /\ Cardinality(notes \cup {note}) <= MaxNotes
        /\ notes' = notes \cup {note}
        /\ UNCHANGED <<now, logs, spans, map, pass, fails, connects>>

----------------------------------------------------------------------------
(* Retention.                                                              *)

Old(ts) == Expired(ts, now, Retention)

Goto(i, step) == pass' = [pass EXCEPT ![i] = step]

StartPass(i) ==
    /\ pass[i] = "idle"
    /\ Goto(i, "logs")
    /\ UNCHANGED <<now, logs, spans, map, notes, fails, connects>>

PruneLogs(i) ==
    /\ pass[i] = "logs"
    /\ logs' = {l \in logs : ~Old(l.ts)}
    /\ Goto(i, "spans")
    /\ UNCHANGED <<now, spans, map, notes, fails, connects>>

PruneSpans(i) ==
    /\ pass[i] = "spans"
    /\ spans' = [k \in SpanKeys |->
                    IF spans[k] # NoRow /\ Old(spans[k].ts)
                    THEN NoRow ELSE spans[k]]
    /\ Goto(i, "map")
    /\ UNCHANGED <<now, logs, map, notes, fails, connects>>

(* Mutant: the pass ends before the annotations.                           *)
PruneMapLast(i) ==
    /\ pass[i] = "map"
    /\ map' = DropExpired(map, now, Retention)
    /\ Goto(i, "idle")
    /\ UNCHANGED <<now, logs, spans, notes, fails, connects>>

PruneMap(i) ==
    /\ pass[i] = "map"
    /\ map' = DropExpired(map, now, Retention)
    /\ Goto(i, "notes")
    /\ UNCHANGED <<now, logs, spans, notes, fails, connects>>

PruneNotes(i) ==
    /\ pass[i] = "notes"
    /\ notes' = {n \in notes : ~Old(n.at)}
    /\ Goto(i, "alerts")
    /\ UNCHANGED <<now, logs, spans, map, fails, connects>>

EndPass(i) ==
    /\ pass[i] = "alerts"
    /\ Goto(i, "idle")
    /\ UNCHANGED <<now, logs, spans, map, notes, fails, connects>>

PassStep(i) ==
    \/ StartPass(i)
    \/ PruneLogs(i)
    \/ PruneSpans(i)
    \/ PruneMap(i)
    \/ PruneNotes(i)
    \/ EndPass(i)

(* A statement raises, or the instance is stopped: what was deleted stays  *)
(* deleted, the rest waits for the next pass.                              *)
FailPass(i) ==
    /\ pass[i] # "idle"
    /\ fails < MaxFails
    /\ fails' = fails + 1
    /\ Goto(i, "idle")
    /\ UNCHANGED <<now, logs, spans, map, notes, connects>>

----------------------------------------------------------------------------
Next ==
    \/ Tick
    \/ Connect
    \/ \E recs \in Payloads(Record) : IngestLogs(recs)
    \/ \E recs \in Payloads(SpanRecord) : IngestTraces(recs)
    \/ \E c \in Conversations, u \in Users \cup {NoUser} : Annotate(c, u)
    \/ \E i \in Instances : PassStep(i) \/ FailPass(i)

Spec == Init /\ [][Next]_vars

(* The loop catches every exception and sleeps again, so an instance keeps *)
(* taking the steps of its pass; the clock keeps running.                  *)
FairSpec == Spec /\ WF_vars(Tick) /\ \A i \in Instances : WF_vars(PassStep(i))

----------------------------------------------------------------------------
(* Properties.                                                             *)

Covers(row, ts) == row # NoRow /\ LastActivity(row) >= ts

(* Telemetry that names its conversation and is within the retention is    *)
(* mapped, by a row at least as recent as itself: whatever the passes of   *)
(* several instances delete between two payloads, a stored row that a      *)
(* scoped query must find never loses the mapping the query goes through.  *)
StampedTelemetryIsMapped ==
    /\ \A l \in logs :
          l.conv # NoConv /\ l.trace # NoTrace /\ ~Old(l.ts)
             => Covers(map[<<l.conv, l.trace>>], l.ts)
    /\ \A k \in SpanKeys :
          spans[k] # NoRow /\ spans[k].conv # NoConv /\ ~Old(spans[k].ts)
             => Covers(map[<<spans[k].conv, k[1]>>], spans[k].ts)

(* Between the creation of a map row and its deletion its owner, once      *)
(* known, is never replaced or forgotten, and its span of time only grows. *)
RowsOnlyWiden ==
    [][\A k \in Keys :
         map[k] # NoRow /\ map'[k] # NoRow
           => /\ map[k].user # NoUser => map'[k].user = map[k].user
              /\ map'[k].first <= map[k].first
              /\ LastActivity(map'[k]) >= LastActivity(map[k])]_vars

(* A user loses a conversation only when all of the user's rows in it have *)
(* seen no activity for the retention.                                     *)
AccessEndsByExpiryAlone ==
    [][\A u \in Users, c \in Conversations :
         MayUse(map, u, c) /\ ~MayUse(map', u, c)
           => \A k \in Owned(map, u) : k[1] = c => Old(LastActivity(map[k]))]_vars

(* A stored span is what its first delivery said until retention deletes   *)
(* it, and only an expired one is deleted: a second delivery under the     *)
(* same ids changes the map but not the span.                              *)
SpansAreFirstWriterWins ==
    [][\A k \in SpanKeys :
         spans[k] # NoRow /\ spans'[k] # spans[k]
           => spans'[k] = NoRow /\ Old(spans[k].ts)]_vars

(* Whatever has expired is deleted in the end, from every table, although  *)
(* passes fail half way and the tables are deleted from in a fixed order.  *)
ExpiredRowsLeave ==
    /\ \A l \in LogRow : (l \in logs /\ Old(l.ts)) ~> l \notin logs
    /\ \A k \in SpanKeys, s \in SpanRow :
          (spans[k] = s /\ Old(s.ts)) ~> spans[k] # s
    /\ \A k \in Keys, r \in Row :
          (map[k] = r /\ Old(LastActivity(r))) ~> map[k] # r
    /\ \A n \in Note : (n \in notes /\ Old(n.at)) ~> n \notin notes

(* What the comments on last_seen say: a conversation still in use keeps   *)
(* its mapping.  Read as: no map row of this service is deleted while a    *)
(* log of its trace within the retention is stored.                        *)
MappingInUseIsKept ==
    [][\A k \in Keys :
         map[k] # NoRow /\ map[k].last # NoTime /\ map'[k] = NoRow
           => \A l \in logs : l.trace = k[2] => Old(l.ts)]_vars
=============================================================================
