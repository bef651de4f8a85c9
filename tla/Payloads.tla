------------------------------ MODULE Payloads ------------------------------
(***************************************************************************)
(* What the collector delivers and what the store makes of it: the parsed  *)
(* payloads, the statements each one becomes, and the effect of a whole    *)
(* payload on the tables.                                                  *)
(***************************************************************************)
EXTENDS ConversationMap, FiniteSets, Requests

CONSTANTS
    Payload,   \* the payloads the collector has to deliver
    Kind,      \* Kind[p]: "logs" or "traces", the endpoint p is posted to
    RowsOf,    \* RowsOf[p]: the rows that the parser makes of p, in order
    LinksOf,   \* LinksOf[p]: the links that it takes from p, in order
    RequestOf, \* RequestOf[p]: the request that p is posted with
    BadAt,     \* BadAt[p]: which statement of p the database refuses, or 0
    SpanIds    \* span ids

Link == [conv : Conversations, trace : Traces, user : Users \cup {NoUser}, ts : Time]

(* Of a row: where it belongs, and its time for all that it says.          *)
LogRow  == [trace : Traces \cup {NoTrace}, ts : Time]
SpanRow == [trace : Traces, span : SpanIds, ts : Time]

ASSUME PayloadAssumption ==
    /\ Kind \in [Payload -> {"logs", "traces"}]
    /\ \A p \in Payload : RowsOf[p] \in Seq(IF Kind[p] = "logs" THEN LogRow ELSE SpanRow)
    /\ \A p \in Payload : LinksOf[p] \in Seq(Link)
    /\ RequestOf \in [Payload -> Request]
    /\ BadAt \in [Payload -> Nat]
    /\ NoRow \notin SpanRow

SpanKeys == Traces \X SpanIds

(* The identity of a log row: which row of which payload it is.            *)
LogIds == UNION {{p} \X DOMAIN RowsOf[p] : p \in {q \in Payload : Kind[q] = "logs"}}

SpansOf(p) == IF Kind[p] = "logs" THEN <<>> ELSE RowsOf[p]

----------------------------------------------------------------------------
(* The statements of a payload: log rows before links, links before spans. *)

Statements(op, recs) == [i \in DOMAIN recs |-> [op |-> op, rec |-> recs[i]]]

Program ==
    [p \in Payload |->
        IF Kind[p] = "logs"
        THEN Statements("log", RowsOf[p]) \o Statements("link", LinksOf[p])
        ELSE Statements("link", LinksOf[p]) \o Statements("span", RowsOf[p])]

(* A payload the service has to take: well formed, and every value in it   *)
(* one that its column can hold.                                           *)
Acceptable(p) == WellFormed(RequestOf[p]) /\ BadAt[p] \notin DOMAIN Program[p]

----------------------------------------------------------------------------
(* The effect of a whole payload on each table.                            *)

StoreLogs(logs, p) ==
    [l \in LogIds |-> IF l[1] = p THEN logs[l] + 1 ELSE logs[l]]

SpanHits(rows, k) == {i \in DOMAIN rows : <<rows[i].trace, rows[i].span>> = k}

(* A span key keeps the row that came first.                               *)
StoreSpans(spans, p) ==
    [k \in SpanKeys |->
        IF spans[k] # NoRow \/ SpanHits(SpansOf(p), k) = {}
        THEN spans[k]
        ELSE SpansOf(p)[Min(SpanHits(SpansOf(p), k))]]

StoreLinks(map, p) == UpsertAll(map, LinksOf[p])
=============================================================================
