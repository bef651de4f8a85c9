------------------------- MODULE UpsertBatch_proofs -------------------------
(***************************************************************************)
(* The upsert statements of a payload, run one after the other, leave the  *)
(* map that UpsertAll gives for the whole payload: for any map, and any    *)
(* number of records.                                                      *)
(***************************************************************************)
EXTENDS UpsertBatch, ConversationMap_proofs

----------------------------------------------------------------------------
(* Executing statements keeps the records and the map well formed.         *)
Typed == start \in Maps /\ recs \in Seq(Record) /\ cur = UpsertAll(start, recs)

(* The records and the map are well formed from the start on.              *)
LEMMA TypedAlways == Spec => []Typed
<1>1. Init => Typed
  <2> SUFFICES ASSUME Init PROVE Typed
    OBVIOUS
  <2>1. \A k \in Keys : Hits(recs, k) = {}
    BY DEF Init, Hits
  <2>2. start \in Maps /\ recs \in Seq(Record)
    BY DEF Init
  <2>3. UpsertAll(start, recs) = start
    BY <2>1, <2>2 DEF UpsertAll, Maps
  <2> QED BY <2>2, <2>3 DEF Init, Typed
<1>2. Typed /\ [Next]_vars => Typed'
  <2> SUFFICES ASSUME Typed, [Next]_vars PROVE Typed'
    OBVIOUS
  <2> USE DEF Typed
  <2>1. ASSUME NEW rec \in Record, Execute(rec)
        PROVE  Typed'
    <3>1. start' = start /\ recs' = Append(recs, rec) /\ recs' \in Seq(Record)
      BY <2>1 DEF Execute
    <3>2. cur \in Maps
      BY RecordsAreBatch, UpsertAllType
    <3>3. DOMAIN cur = Keys /\ DOMAIN UpsertAll(start, recs') = Keys
      BY <3>2 DEF Maps, UpsertAll
    <3>4. CASE HasLink(rec)
      <4> DEFINE j == <<rec.conv, rec.trace>>
      <4>1. j \in Keys
        BY <3>4 DEF HasLink, Record, Keys
      <4>2. cur' = [cur EXCEPT ![j] = Upsert(cur[j], rec)]
        BY <2>1, <3>4 DEF Execute
      <4>3. DOMAIN cur' = Keys /\ cur' = [k \in Keys |-> cur'[k]]
        BY <3>2, <4>2 DEF Maps
      <4>4. ASSUME NEW k \in Keys
            PROVE  cur'[k] = UpsertAll(start, recs')[k]
        <5>1. cur'[k] = IF j = k THEN Upsert(cur[k], rec) ELSE cur[k]
          BY <3>3, <4>1, <4>2
        <5> QED BY <3>1, <5>1, UpsertAllOneMore
      <4>5. cur' = UpsertAll(start, recs')
        BY <4>3, <4>4 DEF UpsertAll
      <4> QED BY <3>1, <4>5
    <3>5. CASE ~HasLink(rec)
      <4>1. cur' = cur
        BY <2>1, <3>5 DEF Execute
      <4>2. ASSUME NEW k \in Keys
            PROVE  cur[k] = UpsertAll(start, recs')[k]
        <5>1. <<rec.conv, rec.trace>> # k
          BY <3>5, SentinelAssumption DEF HasLink, Keys
        <5> QED BY <3>1, <5>1, UpsertAllOneMore
      <4>3. cur = UpsertAll(start, recs')
        BY <3>2, <4>2 DEF UpsertAll, Maps
      <4> QED BY <3>1, <4>1, <4>3
    <3> QED BY <3>4, <3>5
  <2>2. CASE UNCHANGED vars
    BY <2>2 DEF vars
  <2> QED BY <2>1, <2>2 DEF Next
<1> QED BY <1>1, <1>2, PTL DEF Spec

(* The statements of a payload, run in order, amount to UpsertAll of the   *)
(* payload: what the store's other modules do in one step is what the      *)
(* database is left with after the whole batch.                            *)
THEOREM StatementsAmountToBatch == Spec => []BatchIsSequential
<1>1. Typed => BatchIsSequential
  BY DEF Typed, BatchIsSequential
<1> QED BY <1>1, TypedAlways, PTL

----------------------------------------------------------------------------
(* A payload that was delivered before.                                    *)

(* A retry of a payload that had been committed changes no row of the map, *)
(* however long the payload and whatever the map was.                      *)
THEOREM ReplayChangesNothing == Spec => []ReplayIsIdempotent
<1>1. Typed => ReplayIsIdempotent
  <2> SUFFICES ASSUME Typed PROVE ReplayIsIdempotent
    OBVIOUS
  <2>1. Batch(recs) /\ start \in Maps
    BY RecordsAreBatch DEF Typed
  <2>2. ASSUME NEW k \in Keys
        PROVE  UpsertAll(cur, recs)[k] = UpsertAll(start, recs)[k]
    <3>1. cur[k] = IF Hits(recs, k) = {} THEN start[k] ELSE UpsertRow(start[k], recs, k)
      BY DEF Typed, UpsertAll
    <3>2. start[k] \in Row \cup {NoRow}
      BY <2>1 DEF Maps
    <3> QED
      BY <2>1, <3>1, <3>2, UpsertRowTwice DEF UpsertAll
  <2> QED
    BY <2>2 DEF ReplayIsIdempotent, UpsertAll
<1> QED
  BY <1>1, TypedAlways, PTL

----------------------------------------------------------------------------
(* A payload in the reverse order.                                         *)

(* The reverse payload names the same rows, times and users.               *)
LEMMA ReversedHits ==
    ASSUME NEW rs \in Seq(Record), NEW k \in Keys
    PROVE  /\ Batch(Reverse(rs))
           /\ Hits(Reverse(rs), k) = {} <=> Hits(rs, k) = {}
           /\ HitTimes(Reverse(rs), k) = HitTimes(rs, k)
           /\ NamedHits(Reverse(rs), k) = {} <=> NamedHits(rs, k) = {}
<1> DEFINE rev == Reverse(rs)
           n == Len(rs)
<1>1. /\ n \in Nat /\ DOMAIN rs = 1..n /\ rev = [i \in 1..n |-> rs[(n - i) + 1]]
      /\ \A i \in 1..n : rs[i] \in Record
  BY DEF Reverse
<1> HIDE DEF rev, n
<1>2. /\ DOMAIN rev = 1..n
      /\ \A i \in 1..n : (n - i) + 1 \in 1..n
      /\ \A i \in 1..n : rev[i] = rs[(n - i) + 1]
  BY <1>1
<1>3. ASSUME NEW i \in 1..n PROVE rs[i] = rev[(n - i) + 1]
  <2>1. (n - ((n - i) + 1)) + 1 = i
    BY <1>1
  <2> QED
    BY <1>2, <2>1
<1>4. \A i \in Hits(rev, k) : (n - i) + 1 \in Hits(rs, k) /\ rs[(n - i) + 1] = rev[i]
  BY <1>1, <1>2 DEF Hits
<1>5. \A i \in Hits(rs, k) : (n - i) + 1 \in Hits(rev, k) /\ rev[(n - i) + 1] = rs[i]
  BY <1>1, <1>2, <1>3 DEF Hits
<1>6. Batch(rev)
  <2>1. \A i \in 1..n : rev[i] \in Record
    BY <1>1, <1>2
  <2>2. \A i \in 1..n : rev[i].user \in Users \cup {NoUser} /\ rev[i].ts \in Time
    BY <2>1 DEF Record
  <2> QED
    BY <1>1, <1>2, <2>2 DEF Batch
<1>7. Hits(rev, k) = {} <=> Hits(rs, k) = {}
  BY <1>4, <1>5
<1>8. HitTimes(rev, k) = HitTimes(rs, k)
  <2>1. \A i \in Hits(rev, k) : rev[i].ts \in HitTimes(rs, k)
    BY <1>4 DEF HitTimes
  <2>2. \A i \in Hits(rs, k) : rs[i].ts \in HitTimes(rev, k)
    BY <1>5 DEF HitTimes
  <2> QED
    BY <2>1, <2>2 DEF HitTimes
<1>9. NamedHits(rev, k) = {} <=> NamedHits(rs, k) = {}
  BY <1>4, <1>5 DEF NamedHits
<1> QED
  BY <1>6, <1>7, <1>8, <1>9 DEF rev

(* A user is known of a payload if a record names one.                     *)
LEMMA FirstUserKnown ==
    ASSUME NEW rs, Batch(rs), NEW k \in Keys
    PROVE  FirstUser(rs, k) # NoUser <=> NamedHits(rs, k) # {}
<1>1. NamedHits(rs, k) \subseteq Nat
  BY DEF NamedHits, Hits, Batch
<1>2. NamedHits(rs, k) # {} => Min(NamedHits(rs, k)) \in NamedHits(rs, k)
  BY <1>1, MinIsLeast
<1> QED
  BY <1>2 DEF FirstUser, NamedHits

(* The order of a payload's records, of any number, decides on no more     *)
(* than which of its users a row gets.                                     *)
THEOREM OrderMattersForUserOnly == Spec => []OrderDecidesUserOnly
<1>1. Typed => OrderDecidesUserOnly
  <2> SUFFICES ASSUME Typed, NEW k \in Keys, cur[k] # NoRow
               PROVE  LET other == UpsertAll(start, Reverse(recs)) IN
                      /\ other[k].first = cur[k].first
                      /\ other[k].last = cur[k].last
                      /\ other[k].user # NoUser <=> cur[k].user # NoUser
    BY DEF OrderDecidesUserOnly
  <2> DEFINE rev == Reverse(recs)
  <2>1. /\ Batch(recs) /\ Batch(rev)
        /\ Hits(rev, k) = {} <=> Hits(recs, k) = {}
        /\ HitTimes(rev, k) = HitTimes(recs, k)
        /\ NamedHits(rev, k) = {} <=> NamedHits(recs, k) = {}
    BY RecordsAreBatch, ReversedHits DEF Typed
  <2>2. FirstUser(rev, k) # NoUser <=> FirstUser(recs, k) # NoUser
    BY <2>1, FirstUserKnown
  <2>3. /\ cur[k] = IF Hits(recs, k) = {} THEN start[k] ELSE UpsertRow(start[k], recs, k)
        /\ UpsertAll(start, rev)[k] =
              IF Hits(rev, k) = {} THEN start[k] ELSE UpsertRow(start[k], rev, k)
    BY DEF Typed, UpsertAll
  <2> HIDE DEF rev
  <2>4. /\ UpsertRow(start[k], rev, k).first = UpsertRow(start[k], recs, k).first
        /\ UpsertRow(start[k], rev, k).last = UpsertRow(start[k], recs, k).last
        /\ UpsertRow(start[k], rev, k).user # NoUser <=> UpsertRow(start[k], recs, k).user # NoUser
    BY <2>1, <2>2 DEF UpsertRow, Coalesce
  <2>5. /\ UpsertAll(start, rev)[k].first = cur[k].first
        /\ UpsertAll(start, rev)[k].last = cur[k].last
        /\ UpsertAll(start, rev)[k].user # NoUser <=> cur[k].user # NoUser
    BY <2>1, <2>3, <2>4
  <2> QED
    BY <2>5 DEF rev
<1> QED
  BY <1>1, TypedAlways, PTL
=============================================================================
