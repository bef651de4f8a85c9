--------------------------- MODULE AtomicDelivery ---------------------------
(***************************************************************************)
(* What ingestion promises the collector: a payload that the service has   *)
(* to take reaches the tables as a whole or not at all, as if payloads     *)
(* were applied one at a time, and is acknowledged only once it has been   *)
(* applied; of any other payload the tables never see anything.            *)
(***************************************************************************)
EXTENDS Payloads

VARIABLES
    logs,   \* logs[l]: copies of the log row l in pulse_logs
    spans,  \* pulse_spans
    map,    \* pulse_conversation_map
    acked   \* payloads whose delivery the collector knows of

vars == <<logs, spans, map, acked>>

Init ==
    /\ logs = [l \in LogIds |-> 0]
    /\ spans = [k \in SpanKeys |-> NoRow]
    /\ map = [k \in Keys |-> NoRow]
    /\ acked = {}

Applied(p) ==
    /\ \A l \in LogIds : l[1] = p => logs[l] > 0
    /\ StoreSpans(spans, p) = spans
    /\ StoreLinks(map, p) = map

Apply(p) ==
    /\ logs' = StoreLogs(logs, p)
    /\ spans' = StoreSpans(spans, p)
    /\ map' = StoreLinks(map, p)
    /\ UNCHANGED acked

Acknowledge(p) ==
    /\ Applied(p)
    /\ acked' = acked \cup {p}
    /\ UNCHANGED <<logs, spans, map>>

Next == \E p \in Payload : Acceptable(p) /\ (Apply(p) \/ Acknowledge(p))

Spec == Init /\ [][Next]_vars
=============================================================================
