---------------------------- MODULE UpsertBatch ----------------------------
(***************************************************************************)
(* A payload's upserts as the store runs them, one statement after the     *)
(* other (executemany inside one transaction), beside the operator         *)
(* UpsertAll that the other modules use for all of them at once.           *)
(***************************************************************************)
EXTENDS ConversationMap, SequencesExt

CONSTANT MaxBatch  \* bound: records in a payload

VARIABLES
    start,  \* the map when the transaction begins
    recs,   \* the records whose upserts have run
    cur     \* the map the transaction sees

vars == <<start, recs, cur>>

TypeOK ==
    /\ start \in Maps
    /\ recs \in Seq(Record) /\ Len(recs) <= MaxBatch
    /\ cur \in Maps

(* Any map of the running system: no row is older than its creation.       *)
Init ==
    /\ start \in {m \in Maps : \A k \in Rows(m) : m[k].first <= LastActivity(m[k])}
    /\ recs = <<>>
    /\ cur = start

(* Parsing the next record and running its upsert, if it has a link.       *)
Execute(rec) ==
    /\ Len(recs) < MaxBatch
    /\ recs' = Append(recs, rec)
    /\ cur' = IF HasLink(rec)
              THEN LET k == <<rec.conv, rec.trace>>
                   IN  [cur EXCEPT ![k] = Upsert(cur[k], rec)]
              ELSE cur
    /\ UNCHANGED start

Next == \E rec \in Record : Execute(rec)

Spec == Init /\ [][Next]_vars

----------------------------------------------------------------------------
(* The statements of a payload leave the map that UpsertAll gives for the  *)
(* payload.                                                                *)
BatchIsSequential == cur = UpsertAll(start, recs)

(* Upserts of one conversation and trace reach the same first and last     *)
(* activity in any order, so payloads that are delayed or delivered again  *)
(* out of order cost nothing but, at most, the choice of the user.         *)
OrderDecidesUserOnly ==
    LET other == UpsertAll(start, Reverse(recs))
    IN  \A k \in Keys : cur[k] # NoRow =>
          /\ other[k].first = cur[k].first
          /\ other[k].last = cur[k].last
          /\ other[k].user # NoUser <=> cur[k].user # NoUser

(* Running the whole payload a second time (a retry of a payload that had  *)
(* been committed) changes no row of the map.                              *)
ReplayIsIdempotent == UpsertAll(cur, recs) = UpsertAll(start, recs)
============================================================================
