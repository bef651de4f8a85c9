-------------------------- MODULE PulseStore_proofs --------------------------
(***************************************************************************)
(* Theorems of PulseStore, for any number of instances, conversations,     *)
(* traces, users and spans, any retention and payloads of any size.        *)
(***************************************************************************)
EXTENDS PulseStore, ConversationMap_proofs

(* A payload, of log records or of spans, is a batch for the map.          *)
LEMMA PayloadIsBatch ==
    ASSUME NEW recs, recs \in Payloads(Record) \cup Payloads(SpanRecord)
    PROVE  Batch(recs)
<1>1. PICK n \in Nat : recs \in [1..n -> Record] \cup [1..n -> SpanRecord]
  BY StoreAssumption DEF Payloads
<1>2. \A i \in 1..n : recs[i].user \in Users \cup {NoUser} /\ recs[i].ts \in Time
  BY <1>1 DEF Record, SpanRecord
<1> QED BY <1>1, <1>2 DEF Batch

(* A payload of log records stores log rows.                               *)
LEMMA LogPayloadRows ==
    ASSUME NEW recs \in Payloads(Record)
    PROVE  {LogOf(recs[i]) : i \in DOMAIN recs} \subseteq LogRow
<1>1. PICK n \in Nat : recs \in [1..n -> Record]
  BY StoreAssumption DEF Payloads
<1>2. \A i \in DOMAIN recs : recs[i] \in Record
  BY <1>1
<1> QED BY <1>2 DEF Record, LogOf, LogRow

(* The span that a payload stores under a key it hits is one of the        *)
(* payload's own spans under that key.                                     *)
LEMMA FirstSpanHit ==
    ASSUME NEW recs \in Payloads(SpanRecord), NEW k \in SpanKeys,
           SpanHits(recs, k) # {}
    PROVE  LET i == Min(SpanHits(recs, k))
           IN  i \in DOMAIN recs /\ recs[i] \in SpanRecord /\ <<recs[i].trace, recs[i].span>> = k
<1>1. PICK n \in Nat : recs \in [1..n -> SpanRecord]
  BY StoreAssumption DEF Payloads
<1>2. SpanHits(recs, k) \subseteq Nat /\ SpanHits(recs, k) \subseteq DOMAIN recs
  BY <1>1 DEF SpanHits
<1>3. Min(SpanHits(recs, k)) \in SpanHits(recs, k)
  BY <1>2, MinIsLeast
<1> QED BY <1>1, <1>2, <1>3 DEF SpanHits

----------------------------------------------------------------------------
(* One step keeps the types.                                               *)
LEMMA TypeCorrectStep ==
    ASSUME TypeOK, [Next]_vars
    PROVE  TypeOK'
<1> USE DEF TypeOK
<1>1. CASE Tick
  BY <1>1, HorizonAssumption DEF Tick, Time
<1>2. CASE Connect
  BY <1>2, BackfillFacts, StoreAssumption DEF Connect
<1>3. ASSUME NEW recs \in Payloads(Record), IngestLogs(recs)
      PROVE  TypeOK'
  <2>1. map' \in Maps
    BY <1>3, PayloadIsBatch, UpsertAllType DEF IngestLogs
  <2>2. logs' \subseteq LogRow
    BY <1>3, LogPayloadRows DEF IngestLogs
  <2> QED BY <1>3, <2>1, <2>2 DEF IngestLogs
<1>4. ASSUME NEW recs \in Payloads(SpanRecord), IngestTraces(recs)
      PROVE  TypeOK'
  <2>1. map' \in Maps
    BY <1>4, PayloadIsBatch, UpsertAllType DEF IngestTraces
  <2>2. ASSUME NEW k \in SpanKeys
        PROVE  spans'[k] \in SpanRow \cup {NoRow}
    <3>1. CASE spans[k] # NoRow \/ SpanHits(recs, k) = {}
      BY <1>4, <3>1 DEF IngestTraces
    <3>2. CASE ~(spans[k] # NoRow \/ SpanHits(recs, k) = {})
      BY <1>4, <3>2, FirstSpanHit DEF IngestTraces, SpanRecord, SpanRow
    <3> QED BY <3>1, <3>2
  <2>3. spans' \in [SpanKeys -> SpanRow \cup {NoRow}]
    BY <1>4, <2>2 DEF IngestTraces
  <2> QED BY <1>4, <2>1, <2>3 DEF IngestTraces
<1>5. ASSUME NEW c \in Conversations, NEW u \in Users \cup {NoUser}, Annotate(c, u)
      PROVE  TypeOK'
  BY <1>5 DEF Annotate, Note
<1>6. ASSUME NEW i \in Instances, PassStep(i) \/ FailPass(i)
      PROVE  TypeOK'
  <2> USE DEF Goto, Steps
  <2>1. CASE StartPass(i)
    BY <2>1 DEF StartPass
  <2>2. CASE PruneLogs(i)
    BY <2>2 DEF PruneLogs
  <2>3. CASE PruneSpans(i)
    BY <2>3 DEF PruneSpans
  <2>4. CASE PruneMap(i)
    BY <2>4, DropExpiredFacts DEF PruneMap
  <2>5. CASE PruneNotes(i)
    BY <2>5 DEF PruneNotes
  <2>6. CASE EndPass(i)
    BY <2>6 DEF EndPass
  <2>7. CASE FailPass(i)
    BY <2>7, StoreAssumption DEF FailPass
  <2> QED BY <1>6, <2>1, <2>2, <2>3, <2>4, <2>5, <2>6, <2>7 DEF PassStep
<1>7. CASE UNCHANGED vars
  BY <1>7 DEF vars
<1> QED BY <1>1, <1>2, <1>3, <1>4, <1>5, <1>6, <1>7 DEF Next

(* Every step keeps the types: in particular no payload, of any size and   *)
(* whatever ids its records lack, leaves a malformed row in the map.       *)
THEOREM TypeCorrect == Spec => []TypeOK
<1>1. Init => TypeOK
  <2> SUFFICES ASSUME Init PROVE TypeOK
    OBVIOUS
  <2>1. now \in Time
    BY HorizonAssumption DEF Init, Time
  <2>2. map \in Maps
    <3>1. \A k \in Keys : map[k] \in Row \cup {NoRow}
      BY HorizonAssumption DEF Init, LegacyRow, Row, Time
    <3> QED BY <3>1 DEF Init, Maps
  <2>3. fails \in 0..MaxFails /\ connects \in 0..MaxConnects
    BY StoreAssumption DEF Init
  <2> QED BY <2>1, <2>2, <2>3 DEF Init, TypeOK, Steps
<1>2. TypeOK /\ [Next]_vars => TypeOK'
  BY TypeCorrectStep
<1> QED BY <1>1, <1>2, PTL DEF Spec

----------------------------------------------------------------------------
(* How a step moves the map: ingestion and the backfill widen its rows,    *)
(* one statement of a pass drops expired ones, nothing else touches it.    *)
Widens ==
    \A k \in Keys : map[k] # NoRow =>
        /\ map'[k] # NoRow
        /\ map[k].user # NoUser => map'[k].user = map[k].user
        /\ map'[k].first <= map[k].first
        /\ LastActivity(map'[k]) >= LastActivity(map[k])

(* The times of a map row are numbers.                                     *)
LEMMA MapRowTypes ==
    ASSUME NEW m \in Maps, NEW k \in Keys, m[k] # NoRow
    PROVE  /\ m[k] \in Row
           /\ m[k].first \in Nat
           /\ LastActivity(m[k]) \in Nat
BY LastActivityType, HorizonAssumption DEF Maps, Row, Time

(* The ways in which a step changes the map as a whole.                    *)
LEMMA MapStepForms ==
    ASSUME [Next]_vars
    PROVE  \/ UNCHANGED map
           \/ map' = Backfill(map)
           \/ \E recs \in Payloads(Record) \cup Payloads(SpanRecord) :
                map' = UpsertAll(map, recs)
           \/ map' = DropExpired(map, now, Retention)
BY DEF Next, vars, Tick, Connect, IngestLogs, IngestTraces, Annotate, PassStep, FailPass,
       StartPass, PruneLogs, PruneSpans, PruneMap, PruneNotes, EndPass

(* Every step widens the rows of the map or deletes expired ones.          *)
LEMMA MapSteps ==
    ASSUME TypeOK, [Next]_vars
    PROVE  Widens \/ map' = DropExpired(map, now, Retention)
<1> USE DEF TypeOK
<1>1. CASE UNCHANGED map
  BY <1>1, MapRowTypes DEF Widens
<1>2. CASE map' = Backfill(map)
  <2>1. ASSUME NEW k \in Keys, map[k] # NoRow
        PROVE  /\ map'[k] # NoRow
               /\ map'[k].user = map[k].user
               /\ map'[k].first <= map[k].first
               /\ LastActivity(map'[k]) >= LastActivity(map[k])
    BY <1>2, <2>1, BackfillFacts, MapRowTypes
  <2> QED BY <2>1 DEF Widens
<1>3. ASSUME NEW recs \in Payloads(Record) \cup Payloads(SpanRecord),
             map' = UpsertAll(map, recs)
      PROVE  Widens
  BY <1>3, PayloadIsBatch, UpsertAllWidens DEF Widens
<1> QED BY <1>1, <1>2, <1>3, MapStepForms

----------------------------------------------------------------------------
(* The rows of the map only widen while they live: the owner is decided    *)
(* once, although payloads of several instances upsert the row in any      *)
(* order.                                                                  *)
THEOREM OwnersStick == Spec => RowsOnlyWiden
<1>1. ASSUME TypeOK, [Next]_vars, NEW k \in Keys, map[k] # NoRow, map'[k] # NoRow
      PROVE  /\ map[k].user # NoUser => map'[k].user = map[k].user
             /\ map'[k].first <= map[k].first
             /\ LastActivity(map'[k]) >= LastActivity(map[k])
  <2>1. CASE Widens
    BY <1>1, <2>1 DEF Widens
  <2>2. CASE map' = DropExpired(map, now, Retention)
    <3>1. map'[k] = map[k]
      BY <1>1, <2>2, DropExpiredFacts DEF TypeOK
    <3> QED BY <1>1, <3>1, MapRowTypes DEF TypeOK
  <2> QED BY <1>1, <2>1, <2>2, MapSteps
<1>2. TypeOK /\ [Next]_vars
        => [\A k \in Keys :
              map[k] # NoRow /\ map'[k] # NoRow
                => /\ map[k].user # NoUser => map'[k].user = map[k].user
                   /\ map'[k].first <= map[k].first
                   /\ LastActivity(map'[k]) >= LastActivity(map[k])]_vars
  BY <1>1
<1> QED BY <1>2, TypeCorrect, PTL DEF Spec, RowsOnlyWiden

(* A user keeps a conversation until all of the user's rows in it have     *)
(* been idle for the retention.                                            *)
THEOREM AccessEndsByExpiry == Spec => AccessEndsByExpiryAlone
<1>1. ASSUME TypeOK, [Next]_vars, NEW u \in Users, NEW c \in Conversations,
             ~MayUse(map', u, c), NEW k \in Owned(map, u), k[1] = c
      PROVE  Old(LastActivity(map[k]))
  <2>1. k \in Keys /\ map[k] # NoRow /\ map[k].user = u /\ u # NoUser
    BY SentinelAssumption DEF Owned, Rows
  <2>2. ~(map'[k] # NoRow /\ map'[k].user = u)
    BY <1>1, <2>1 DEF MayUse, Owned, Rows
  <2>3. map' = DropExpired(map, now, Retention)
    BY <1>1, <2>1, <2>2, MapSteps DEF Widens
  <2> QED BY <1>1, <2>1, <2>2, <2>3, DropExpiredFacts DEF TypeOK, Old
<1>2. TypeOK /\ [Next]_vars
        => [\A u \in Users, c \in Conversations :
              MayUse(map, u, c) /\ ~MayUse(map', u, c)
                => \A k \in Owned(map, u) : k[1] = c => Old(LastActivity(map[k]))]_vars
  BY <1>1
<1> QED BY <1>2, TypeCorrect, PTL DEF Spec, AccessEndsByExpiryAlone

(* A step that changes a stored span is the delete of an expired one.      *)
LEMMA SpanStepStays ==
    ASSUME TypeOK, [Next]_vars, NEW k \in SpanKeys,
           spans[k] # NoRow, spans'[k] # spans[k]
    PROVE  spans'[k] = NoRow /\ Old(spans[k].ts)
<1>1. ASSUME NEW recs \in Payloads(SpanRecord), IngestTraces(recs)
      PROVE  spans'[k] = spans[k]
  BY <1>1 DEF IngestTraces
<1>2. ASSUME NEW i \in Instances, PruneSpans(i)
      PROVE  spans'[k] = NoRow /\ Old(spans[k].ts)
  BY <1>2 DEF PruneSpans
<1> QED
  BY <1>1, <1>2
  DEF Next, vars, Tick, Connect, IngestLogs, Annotate, PassStep, FailPass,
      StartPass, PruneLogs, PruneMap, PruneNotes, EndPass

(* A stored span changes only by being deleted when it has expired.        *)
THEOREM SpansStay == Spec => SpansAreFirstWriterWins
<1>1. TypeOK /\ [Next]_vars
        => [\A k \in SpanKeys :
              spans[k] # NoRow /\ spans'[k] # spans[k]
                => spans'[k] = NoRow /\ Old(spans[k].ts)]_vars
  BY SpanStepStays
<1> QED BY <1>1, TypeCorrect, PTL DEF Spec, SpansAreFirstWriterWins

----------------------------------------------------------------------------
(* A row that a step does not find is one the step's payload brought.      *)
LEMMA NewLogs ==
    ASSUME TypeOK, [Next]_vars, NEW l \in logs', l \notin logs
    PROVE  \E recs \in Payloads(Record) :
             IngestLogs(recs) /\ \E i \in DOMAIN recs : l = LogOf(recs[i])
<1>1. ASSUME NEW recs \in Payloads(Record), IngestLogs(recs)
      PROVE  \E i \in DOMAIN recs : l = LogOf(recs[i])
  BY <1>1 DEF IngestLogs
<1> QED
  BY <1>1
  DEF Next, vars, Tick, Connect, IngestTraces, Annotate, PassStep, FailPass,
      StartPass, PruneLogs, PruneSpans, PruneMap, PruneNotes, EndPass

(* A span that a step does not find is one the step's payload brought.     *)
LEMMA NewSpans ==
    ASSUME TypeOK, [Next]_vars, NEW k \in SpanKeys, spans'[k] # NoRow, spans[k] = NoRow
    PROVE  \E recs \in Payloads(SpanRecord) :
             /\ IngestTraces(recs)
             /\ \E i \in DOMAIN recs :
                   /\ recs[i].trace = k[1]
                   /\ spans'[k] = [conv |-> recs[i].conv, ts |-> recs[i].ts]
<1>1. ASSUME NEW recs \in Payloads(SpanRecord), IngestTraces(recs)
      PROVE  \E i \in DOMAIN recs :
               /\ recs[i].trace = k[1]
               /\ spans'[k] = [conv |-> recs[i].conv, ts |-> recs[i].ts]
  <2>1. SpanHits(recs, k) # {}
    BY <1>1 DEF IngestTraces
  <2> DEFINE i == Min(SpanHits(recs, k))
  <2>2. spans'[k] = [conv |-> recs[i].conv, ts |-> recs[i].ts]
    BY <1>1, <2>1 DEF IngestTraces
  <2>3. i \in DOMAIN recs /\ <<recs[i].trace, recs[i].span>> = k
    BY <2>1, FirstSpanHit
  <2> HIDE DEF i
  <2> QED BY <2>2, <2>3
<1> QED
  BY <1>1
  DEF Next, vars, Tick, Connect, IngestLogs, Annotate, PassStep, FailPass,
      StartPass, PruneLogs, PruneSpans, PruneMap, PruneNotes, EndPass

(* The clock only runs forward: what has expired stays expired.            *)
LEMMA OldStaysOld ==
    ASSUME TypeOK, [Next]_vars, NEW ts \in Time, ~Expired(ts, now', Retention)
    PROVE  ~Old(ts)
<1>1. now' = now \/ now' = now + 1
  BY DEF Next, vars, Tick, Connect, IngestLogs, IngestTraces, Annotate, PassStep, FailPass,
         StartPass, PruneLogs, PruneSpans, PruneMap, PruneNotes, EndPass
<1>2. now \in Nat
  BY HorizonAssumption DEF TypeOK, Time
<1> QED BY <1>1, <1>2, HorizonAssumption, StoreAssumption DEF Old, Expired, Time

(* A row that covers an instant within the retention survives every step.  *)
LEMMA CoverStays ==
    ASSUME TypeOK, [Next]_vars, NEW k \in Keys, NEW ts \in Time,
           Covers(map[k], ts), ~Old(ts)
    PROVE  Covers(map'[k], ts)
<1>1. map[k] # NoRow /\ LastActivity(map[k]) >= ts /\ LastActivity(map[k]) \in Nat
  BY MapRowTypes DEF Covers, TypeOK
<1>2. ts \in Nat /\ now \in Nat
  BY HorizonAssumption DEF Time, TypeOK
<1>3. CASE Widens
  <2>1. map'[k] # NoRow /\ LastActivity(map'[k]) >= LastActivity(map[k])
    BY <1>1, <1>3 DEF Widens
  <2>2. map' \in Maps
    BY TypeCorrectStep DEF TypeOK
  <2>3. LastActivity(map'[k]) \in Nat
    BY <2>1, <2>2, MapRowTypes
  <2> QED BY <1>1, <1>2, <2>1, <2>3 DEF Covers
<1>4. CASE map' = DropExpired(map, now, Retention)
  <2>1. ~Expired(LastActivity(map[k]), now, Retention)
    BY <1>1, <1>2, StoreAssumption DEF Old, Expired
  <2>2. map'[k] = map[k]
    BY <1>4, <2>1, DropExpiredFacts DEF TypeOK
  <2> QED BY <2>2
<1> QED BY <1>3, <1>4, MapSteps

(* Stored telemetry that names its conversation stays reachable through    *)
(* the map for as long as it is within the retention.                      *)
THEOREM StampedTelemetryStaysMapped == Spec => []StampedTelemetryIsMapped
<1>1. Init => StampedTelemetryIsMapped
  BY DEF Init, StampedTelemetryIsMapped
<1>2. TypeOK /\ StampedTelemetryIsMapped /\ [Next]_vars => StampedTelemetryIsMapped'
  <2> SUFFICES ASSUME TypeOK, StampedTelemetryIsMapped, [Next]_vars
               PROVE  StampedTelemetryIsMapped'
    OBVIOUS
  <2>1. TypeOK'
    BY TypeCorrectStep
  <2>2. ASSUME NEW l \in logs', l.conv # NoConv, l.trace # NoTrace, ~Expired(l.ts, now', Retention)
        PROVE  Covers(map'[<<l.conv, l.trace>>], l.ts)
    <3>1. l.ts \in Time /\ <<l.conv, l.trace>> \in Keys
      BY <2>1, <2>2 DEF TypeOK, LogRow, Keys
    <3>2. CASE l \in logs
      <4>1. ~Old(l.ts)
        BY <2>2, <3>1, OldStaysOld
      <4>2. Covers(map[<<l.conv, l.trace>>], l.ts)
        BY <2>2, <3>2, <4>1 DEF StampedTelemetryIsMapped
      <4> QED BY <3>1, <4>1, <4>2, CoverStays
    <3>3. CASE l \notin logs
      <4>1. PICK recs \in Payloads(Record) :
                  IngestLogs(recs) /\ \E i \in DOMAIN recs : l = LogOf(recs[i])
        BY <3>3, NewLogs
      <4>2. PICK i \in DOMAIN recs : l = LogOf(recs[i])
        BY <4>1
      <4>3. recs[i].conv = l.conv /\ recs[i].trace = l.trace /\ recs[i].ts = l.ts
        BY <4>2 DEF LogOf
      <4>4. map' = UpsertAll(map, recs)
        BY <4>1 DEF IngestLogs
      <4> QED BY <3>1, <4>3, <4>4, PayloadIsBatch, UpsertAllCovers DEF Covers, TypeOK
    <3> QED BY <3>2, <3>3
  <2>3. ASSUME NEW k \in SpanKeys, NEW s \in SpanRow, spans'[k] = s, s # NoRow,
               s.conv # NoConv, ~Expired(s.ts, now', Retention)
        PROVE  Covers(map'[<<s.conv, k[1]>>], s.ts)
    <3>1. s.ts \in Time /\ <<s.conv, k[1]>> \in Keys
      BY <2>3 DEF SpanRow, SpanKeys, Keys
    <3>2. CASE spans[k] # NoRow
      <4>1. spans[k] = s
        BY <2>3, <3>2, SpanStepStays
      <4>2. ~Old(s.ts)
        BY <2>3, <3>1, OldStaysOld
      <4>3. Covers(map[<<s.conv, k[1]>>], s.ts)
        BY <2>3, <3>2, <4>1, <4>2 DEF StampedTelemetryIsMapped
      <4> QED BY <3>1, <4>2, <4>3, CoverStays
    <3>3. CASE spans[k] = NoRow
      <4>1. PICK recs \in Payloads(SpanRecord) :
                  /\ IngestTraces(recs)
                  /\ \E i \in DOMAIN recs :
                        /\ recs[i].trace = k[1]
                        /\ spans'[k] = [conv |-> recs[i].conv, ts |-> recs[i].ts]
        BY <2>3, <3>3, NewSpans
      <4>2. PICK i \in DOMAIN recs :
                  /\ recs[i].trace = k[1]
                  /\ spans'[k] = [conv |-> recs[i].conv, ts |-> recs[i].ts]
        BY <4>1
      <4>3. recs[i].conv = s.conv /\ recs[i].ts = s.ts
        BY <2>3, <4>2
      <4>4. map' = UpsertAll(map, recs)
        BY <4>1 DEF IngestTraces
      <4> QED BY <3>1, <4>2, <4>3, <4>4, PayloadIsBatch, UpsertAllCovers DEF Covers, TypeOK
    <3> QED BY <3>2, <3>3
  <2>4. \A k \in SpanKeys : spans'[k] # NoRow => spans'[k] \in SpanRow
    BY <2>1 DEF TypeOK
  <2> QED BY <2>2, <2>3, <2>4 DEF StampedTelemetryIsMapped, Old
<1> QED BY <1>1, <1>2, TypeCorrect, PTL DEF Spec
==============================================================================
