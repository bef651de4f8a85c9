------------------------------ MODULE Queries ------------------------------
(***************************************************************************)
(* What the read side answers.  Logs and spans know their trace only; the  *)
(* conversation and the user of a query are looked up in the map.          *)
(***************************************************************************)
EXTENDS Masking

CONSTANT Unasked   \* a query argument that is left out

ASSUME QueriesAssumption ==
    /\ Unasked \notin Conversations \cup Users \cup {"INFO", "ERROR"}
    /\ Unasked \notin Time

TracesOf(map, c) == {k[2] : k \in {k \in Rows(map) : k[1] = c}}
TracesOfUser(map, u) == {k[2] : k \in Owned(map, u)}

InScope(map, trace, c, u) ==
    /\ c = Unasked \/ trace \in TracesOf(map, c)
    /\ u = Unasked \/ trace \in TracesOfUser(map, u)

(* A level name, its case aside, is the lower end of its range; a row      *)
(* without a severity has no level at all.                                 *)
AtLeast(severity, level) == severity # Absent /\ severity >= SeverityFloor[level]

QueryLogs(logs, map, q) ==
    {l \in logs :
        /\ InScope(map, l.trace, q.conv, q.user)
        /\ q.service = Unasked \/ l.service = q.service
        /\ q.level = Unasked \/ AtLeast(l.severity, q.level)
        /\ q.since = Unasked \/ l.ts >= q.since}

QuerySpans(spans, map, q) == {s \in spans : InScope(map, s.trace, q.conv, q.user)}

(* The rows of a scope: one user's, or all of them.                        *)
ScopedRows(map, u) == {k \in Rows(map) : u = Unasked \/ map[k].user = u}

QueryConversations(map, u) ==
    LET scope == ScopedRows(map, u)
    IN  {[conv   |-> c,
          first  |-> Min({map[k].first : k \in {k \in scope : k[1] = c}}),
          traces |-> {k[2] : k \in {k \in scope : k[1] = c}}] :
            c \in {k[1] : k \in scope}}

(* Mutant: count(trace_id) without DISTINCT.                               *)
QueryStatsUndistinct(map, logs, u, since) ==
    LET scope == {k \in ScopedRows(map, u) : map[k].first >= since}
    IN  [conversations |-> Cardinality({k[1] : k \in scope}),
         turns         |-> Cardinality(scope),
         errors        |-> Cardinality({l \in logs :
                              /\ AtLeast(l.severity, "ERROR") /\ l.ts >= since
                              /\ u = Unasked \/ l.trace \in TracesOfUser(map, u)})]

(* Of the statistics, the counts of the map and of the error logs.         *)
QueryStats(map, logs, u, since) ==
    LET scope == {k \in ScopedRows(map, u) : map[k].first >= since}
    IN  [conversations |-> Cardinality({k[1] : k \in scope}),
         turns         |-> Cardinality({k[2] : k \in scope}),
         errors        |-> Cardinality({l \in logs :
                              /\ AtLeast(l.severity, "ERROR") /\ l.ts >= since
                              /\ u = Unasked \/ l.trace \in TracesOfUser(map, u)})]
=============================================================================
