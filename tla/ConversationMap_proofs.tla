----------------------- MODULE ConversationMap_proofs -----------------------
(***************************************************************************)
(* What the operators of ConversationMap return, for every value of the    *)
(* constants: types, and how a payload's upserts move a row.  The proofs   *)
(* about the running modules rest on these lemmas.                         *)
(***************************************************************************)
EXTENDS ConversationMap, WellFoundedInduction, TLAPS

(* A set of naturals that is not empty has a least element.                *)
LEMMA LeastExists ==
    ASSUME NEW S, S \subseteq Nat, S # {}
    PROVE  \E x \in S : \A y \in S : x <= y
<1> DEFINE R == {p \in Nat \X Nat : p[1] < p[2]}
<1>1. R = OpToRel(<, Nat)
  BY DEF OpToRel
<1>2. IsWellFoundedOn(R, Nat)
  BY <1>1, NatLessThanWellFounded
<1>3. \A a, b \in Nat : a < b => <<a, b>> \in R
  OBVIOUS
<1> HIDE DEF R
<1>4. PICK x \in S : \A y \in S : <<y, x>> \notin R
  BY <1>2, WFMin
<1>5. ASSUME NEW y \in S PROVE x <= y
  <2>1. x \in Nat /\ y \in Nat
    OBVIOUS
  <2>2. ~(y < x)
    BY <1>3, <1>4, <2>1, Zenon
  <2> QED BY <2>1, <2>2
<1> QED BY <1>5

(* A bounded set of naturals that is not empty has a greatest element: the *)
(* least element of its reflection at the bound.                           *)
LEMMA GreatestExists ==
    ASSUME NEW H \in Nat, NEW S, S \subseteq 0..H, S # {}
    PROVE  \E x \in S : \A y \in S : x >= y
<1> DEFINE T == {n \in Nat : H - n \in S}
<1>1. T # {}
  <2>1. PICK s \in S : TRUE
    OBVIOUS
  <2>2. H - s \in Nat /\ H - (H - s) = s
    BY <2>1
  <2> QED BY <2>2
<1>2. PICK m \in T : \A n \in T : m <= n
  BY <1>1, LeastExists
<1>3. ASSUME NEW y \in S PROVE H - m >= y
  <2>1. y \in Int /\ m \in Int /\ H - y \in Nat /\ H - (H - y) = y
    OBVIOUS
  <2>2. m <= H - y
    BY <1>2, <2>1
  <2> QED BY <2>1, <2>2
<1> QED BY <1>2, <1>3

(* Instants are naturals.                                                  *)
LEMMA TimesAreNaturals == Time \subseteq Nat
BY HorizonAssumption DEF Time

(* Min is the least element of a set of naturals.                          *)
LEMMA MinIsLeast ==
    ASSUME NEW S, S \subseteq Nat, S # {}
    PROVE  Min(S) \in S /\ \A y \in S : Min(S) <= y
BY LeastExists DEF Min

(* Max is the greatest element of a set of instants.                       *)
LEMMA MaxIsGreatest ==
    ASSUME NEW S, S \subseteq Time, S # {}
    PROVE  Max(S) \in S /\ \A y \in S : Max(S) >= y
BY GreatestExists, HorizonAssumption DEF Max, Time

(* And the least one, for a set of instants.                               *)
LEMMA MinOfTimes ==
    ASSUME NEW S, S \subseteq Time, S # {}
    PROVE  Min(S) \in S /\ \A y \in S : Min(S) <= y
BY MinIsLeast, TimesAreNaturals

(* The least element of a set of naturals is the only one of its kind.     *)
LEMMA MinIs ==
    ASSUME NEW S, S \subseteq Nat, NEW x \in S, \A y \in S : x <= y
    PROVE  Min(S) = x
<1>1. Min(S) \in S /\ Min(S) <= x
  BY MinIsLeast
<1>2. x <= Min(S) /\ x \in Nat /\ Min(S) \in Nat
  BY <1>1
<1> QED BY <1>1, <1>2

(* So is the greatest of a set of instants.                                *)
LEMMA MaxIs ==
    ASSUME NEW S, S \subseteq Time, NEW x \in S, \A y \in S : x >= y
    PROVE  Max(S) = x
<1>1. Max(S) \in S /\ Max(S) >= x
  BY MaxIsGreatest
<1>2. x >= Max(S) /\ x \in Nat /\ Max(S) \in Nat
  BY <1>1, TimesAreNaturals
<1> QED BY <1>1, <1>2

(* One more instant: the extremes of the larger set from those of the      *)
(* smaller one.                                                            *)
LEMMA MinOneMore ==
    ASSUME NEW S, S \subseteq Time, S # {}, NEW x \in Time
    PROVE  Min(S \cup {x}) = Min({Min(S), x})
<1> DEFINE m == Min(S)
<1>1. m \in S /\ \A y \in S : m <= y
  BY MinOfTimes
<1>2. m \in Nat /\ x \in Nat /\ \A y \in S : y \in Nat
  BY <1>1, TimesAreNaturals
<1> HIDE DEF m
<1>3. CASE m <= x
  <2>1. Min({m, x}) = m
    BY <1>2, <1>3, MinIs
  <2>2. Min(S \cup {x}) = m
    BY <1>1, <1>2, <1>3, MinIs
  <2> QED BY <2>1, <2>2 DEF m
<1>4. CASE x <= m
  <2>1. Min({m, x}) = x
    BY <1>2, <1>4, MinIs
  <2>2. \A y \in S \cup {x} : x <= y
    BY <1>1, <1>2, <1>4
  <2>3. Min(S \cup {x}) = x
    BY <1>2, <2>2, MinIs
  <2> QED BY <2>1, <2>3 DEF m
<1> QED BY <1>2, <1>3, <1>4

(* The greatest of a set and one more instant.                             *)
LEMMA MaxOneMore ==
    ASSUME NEW S, S \subseteq Time, S # {}, NEW x \in Time
    PROVE  Max(S \cup {x}) = Max({Max(S), x})
<1> DEFINE m == Max(S)
<1>1. m \in S /\ \A y \in S : m >= y
  BY MaxIsGreatest
<1>2. m \in Nat /\ x \in Nat /\ \A y \in S : y \in Nat
  BY <1>1, TimesAreNaturals
<1>3. m \in Time /\ {m, x} \subseteq Time /\ S \cup {x} \subseteq Time
  BY <1>1
<1> HIDE DEF m
<1>4. CASE m >= x
  <2>1. Max({m, x}) = m
    BY <1>2, <1>3, <1>4, MaxIs
  <2>2. Max(S \cup {x}) = m
    BY <1>1, <1>2, <1>3, <1>4, MaxIs
  <2> QED BY <2>1, <2>2 DEF m
<1>5. CASE x >= m
  <2>1. Max({m, x}) = x
    BY <1>2, <1>3, <1>5, MaxIs
  <2>2. \A y \in S \cup {x} : x >= y
    BY <1>1, <1>2, <1>5
  <2>3. Max(S \cup {x}) = x
    BY <1>3, <2>2, MaxIs
  <2> QED BY <2>1, <2>3 DEF m
<1> QED BY <1>2, <1>4, <1>5

----------------------------------------------------------------------------
(* The activity of a row, legacy or not, is an instant.                    *)
LEMMA LastActivityType ==
    ASSUME NEW row \in Row
    PROVE  LastActivity(row) \in Time
BY SentinelAssumption DEF LastActivity, Row

(* A payload of records or of spans, of any length, as the map sees it.    *)
Batch(recs) ==
    \E n \in Nat :
       /\ DOMAIN recs = 1..n
       /\ \A i \in 1..n : recs[i].user \in Users \cup {NoUser} /\ recs[i].ts \in Time

(* The user a payload names for a key is a user, or NULL.                  *)
LEMMA FirstUserType ==
    ASSUME NEW recs, Batch(recs), NEW k \in Keys
    PROVE  FirstUser(recs, k) \in Users \cup {NoUser}
<1>1. CASE NamedHits(recs, k) = {}
  BY <1>1 DEF FirstUser
<1>2. CASE NamedHits(recs, k) # {}
  <2>1. NamedHits(recs, k) \subseteq DOMAIN recs
    BY DEF NamedHits, Hits
  <2>2. DOMAIN recs \subseteq Nat
    BY DEF Batch
  <2>3. Min(NamedHits(recs, k)) \in NamedHits(recs, k)
    BY <1>2, <2>1, <2>2, MinIsLeast
  <2>4. recs[Min(NamedHits(recs, k))].user \in Users \cup {NoUser}
    BY <2>1, <2>3 DEF Batch
  <2> QED BY <1>2, <2>4 DEF FirstUser
<1> QED BY <1>1, <1>2

(* The times a payload brings for a key that it hits.                      *)
LEMMA HitTimesType ==
    ASSUME NEW recs, Batch(recs), NEW k \in Keys, Hits(recs, k) # {}
    PROVE  HitTimes(recs, k) \subseteq Time /\ HitTimes(recs, k) # {}
<1>1. \A i \in Hits(recs, k) : recs[i].ts \in Time
  BY DEF Batch, Hits
<1> QED BY <1>1 DEF HitTimes

(* What a payload leaves in a row it hits: a row whose activity covers the *)
(* payload's times and what was there, and whose owner, once known, is the *)
(* same.                                                                   *)
LEMMA UpsertRowFacts ==
    ASSUME NEW recs, Batch(recs), NEW k \in Keys, Hits(recs, k) # {},
           NEW row \in Row \cup {NoRow}
    PROVE  LET new == UpsertRow(row, recs, k)
           IN  /\ new \in Row
               /\ new.first <= LastActivity(new)
               /\ \A ts \in HitTimes(recs, k) : LastActivity(new) >= ts
               /\ row # NoRow =>
                    /\ row.user # NoUser => new.user = row.user
                    /\ new.first <= row.first
                    /\ LastActivity(new) >= LastActivity(row)
<1> DEFINE times == HitTimes(recs, k)
           new == UpsertRow(row, recs, k)
<1>1. times \subseteq Time /\ times # {}
  BY HitTimesType
<1>2. FirstUser(recs, k) \in Users \cup {NoUser}
  BY FirstUserType
<1>3. Time \subseteq Nat
  BY HorizonAssumption DEF Time
<1>4. CASE row = NoRow
  <2>1. new = [user |-> FirstUser(recs, k), first |-> Min(times), last |-> Max(times)]
    BY <1>4 DEF UpsertRow
  <2>2. Min(times) \in times /\ Max(times) \in times
        /\ \A y \in times : Min(times) <= y /\ Max(times) >= y
    BY <1>1, MinOfTimes, MaxIsGreatest
  <2>3. LastActivity(new) = Max(times)
    BY <1>1, <2>1, <2>2, SentinelAssumption DEF LastActivity
  <2>4. new \in Row
    BY <1>1, <1>2, <2>1, <2>2 DEF Row
  <2> QED BY <1>4, <2>1, <2>2, <2>3, <2>4
<1>5. CASE row \in Row
  <2> DEFINE early == {row.first} \cup times
             late == {LastActivity(row)} \cup times
  <2>1. row # NoRow
    BY <1>5, SentinelAssumption
  <2>2. new = [user |-> Coalesce(row.user, FirstUser(recs, k)),
               first |-> Min(early), last |-> Max(late)]
    BY <2>1 DEF UpsertRow
  <2>3. row.first \in Time /\ LastActivity(row) \in Time /\ row.user \in Users \cup {NoUser}
    BY <1>5, LastActivityType DEF Row
  <2>4. early \subseteq Time /\ late \subseteq Time
    BY <1>1, <2>3
  <2>5. Min(early) \in early /\ \A y \in early : Min(early) <= y
    BY <2>4, MinOfTimes
  <2>6. Max(late) \in late /\ \A y \in late : Max(late) >= y
    BY <2>4, MaxIsGreatest
  <2>7. Min(early) \in Time /\ Max(late) \in Time
    BY <2>4, <2>5, <2>6
  <2> HIDE DEF early, late
  <2>8. LastActivity(new) = Max(late)
    BY <2>2, <2>7, SentinelAssumption DEF LastActivity
  <2>9. Coalesce(row.user, FirstUser(recs, k)) \in Users \cup {NoUser}
    BY <1>2, <2>3 DEF Coalesce
  <2>10. new \in Row
    BY <2>2, <2>7, <2>9 DEF Row
  <2>11. row.user # NoUser => new.user = row.user
    BY <2>2 DEF Coalesce
  <2>12. Min(early) <= Max(late)
    <3>1. PICK t \in times : TRUE
      BY <1>1
    <3>2. t \in early /\ t \in late /\ t \in Nat
      BY <1>1, <1>3 DEF early, late
    <3>3. Min(early) <= t /\ Max(late) >= t
      BY <2>5, <2>6, <3>2
    <3>4. Min(early) \in Nat /\ Max(late) \in Nat
      BY <1>3, <2>7
    <3> QED BY <3>2, <3>3, <3>4
  <2>13. Min(early) <= row.first /\ Max(late) >= LastActivity(row)
         /\ \A ts \in times : Max(late) >= ts
    BY <2>5, <2>6 DEF early, late
  <2> QED BY <2>2, <2>8, <2>10, <2>11, <2>12, <2>13
<1> QED BY <1>4, <1>5

(* A payload, of any length, turns a map into a map.                       *)
LEMMA UpsertAllType ==
    ASSUME NEW recs, Batch(recs), NEW m \in Maps
    PROVE  UpsertAll(m, recs) \in Maps
<1>1. ASSUME NEW k \in Keys
      PROVE  UpsertAll(m, recs)[k] \in Row \cup {NoRow}
  <2>1. m[k] \in Row \cup {NoRow}
    BY DEF Maps
  <2>2. CASE Hits(recs, k) = {}
    BY <2>1, <2>2 DEF UpsertAll
  <2>3. CASE Hits(recs, k) # {}
    BY <2>1, <2>3, UpsertRowFacts DEF UpsertAll
  <2> QED BY <2>2, <2>3
<1> QED BY <1>1 DEF UpsertAll, Maps

(* A payload leaves no row out that it found, and moves it as its own row  *)
(* does: the owner stays and the span of time widens.                      *)
LEMMA UpsertAllWidens ==
    ASSUME NEW recs, Batch(recs), NEW m \in Maps, NEW k \in Keys, m[k] # NoRow
    PROVE  LET new == UpsertAll(m, recs)[k]
           IN  /\ new # NoRow
               /\ m[k].user # NoUser => new.user = m[k].user
               /\ new.first <= m[k].first
               /\ LastActivity(new) >= LastActivity(m[k])
<1>1. m[k] \in Row
  BY DEF Maps
<1>2. CASE Hits(recs, k) = {}
  <2>1. UpsertAll(m, recs)[k] = m[k]
    BY <1>2 DEF UpsertAll
  <2>2. m[k].first \in Nat /\ LastActivity(m[k]) \in Nat
    BY <1>1, LastActivityType, HorizonAssumption DEF Row, Time
  <2> QED BY <2>1, <2>2
<1>3. CASE Hits(recs, k) # {}
  <2>1. UpsertAll(m, recs)[k] = UpsertRow(m[k], recs, k)
    BY <1>3 DEF UpsertAll
  <2>2. UpsertRow(m[k], recs, k) # NoRow
    BY <1>1, <1>3, UpsertRowFacts, SentinelAssumption
  <2> QED BY <1>1, <1>3, <2>1, <2>2, UpsertRowFacts
<1> QED BY <1>2, <1>3

(* Every record of a payload that carries a link is covered by its row.    *)
LEMMA UpsertAllCovers ==
    ASSUME NEW recs, Batch(recs), NEW m \in Maps, NEW i \in DOMAIN recs,
           <<recs[i].conv, recs[i].trace>> \in Keys
    PROVE  LET new == UpsertAll(m, recs)[<<recs[i].conv, recs[i].trace>>]
           IN  new # NoRow /\ LastActivity(new) >= recs[i].ts
<1> DEFINE k == <<recs[i].conv, recs[i].trace>>
<1>1. i \in Hits(recs, k)
  BY DEF Hits
<1>2. recs[i].ts \in HitTimes(recs, k)
  BY <1>1 DEF HitTimes
<1>3. m[k] \in Row \cup {NoRow}
  BY DEF Maps
<1>4. UpsertAll(m, recs)[k] = UpsertRow(m[k], recs, k)
  BY <1>1 DEF UpsertAll
<1> HIDE DEF k
<1>5. k \in Keys /\ Hits(recs, k) # {}
  BY <1>1 DEF k
<1>6. UpsertRow(m[k], recs, k) \in Row /\ LastActivity(UpsertRow(m[k], recs, k)) >= recs[i].ts
  BY <1>2, <1>3, <1>5, UpsertRowFacts
<1> QED BY <1>4, <1>6, SentinelAssumption DEF k

(* The start-up backfill keeps every row, its user and its activity.       *)
LEMMA BackfillFacts ==
    ASSUME NEW m \in Maps
    PROVE  /\ Backfill(m) \in Maps
           /\ \A k \in Keys :
                /\ m[k] = NoRow => Backfill(m)[k] = NoRow
                /\ m[k] # NoRow =>
                     /\ Backfill(m)[k] # NoRow
                     /\ Backfill(m)[k].user = m[k].user
                     /\ Backfill(m)[k].first = m[k].first
                     /\ LastActivity(Backfill(m)[k]) = LastActivity(m[k])
<1>1. ASSUME NEW k \in Keys, m[k] # NoRow
      PROVE  /\ Backfill(m)[k] \in Row
             /\ Backfill(m)[k].user = m[k].user
             /\ Backfill(m)[k].first = m[k].first
             /\ LastActivity(Backfill(m)[k]) = LastActivity(m[k])
  <2>1. m[k] \in Row
    BY <1>1 DEF Maps
  <2>2. Backfill(m)[k] = [m[k] EXCEPT !.last = LastActivity(m[k])]
    BY <1>1 DEF Backfill
  <2>3. LastActivity(m[k]) \in Time /\ LastActivity(m[k]) # NoTime
    BY <2>1, LastActivityType, SentinelAssumption
  <2>4. Backfill(m)[k].last = LastActivity(m[k])
    BY <2>1, <2>2 DEF Row
  <2> QED BY <2>1, <2>2, <2>3, <2>4 DEF Row, LastActivity
<1>2. \A k \in Keys : m[k] = NoRow => Backfill(m)[k] = NoRow
  BY DEF Backfill
<1>3. Backfill(m) \in Maps
  BY <1>1, <1>2 DEF Maps, Backfill
<1> QED BY <1>1, <1>2, <1>3, SentinelAssumption

(* The retention delete takes the expired rows and leaves the others.      *)
LEMMA DropExpiredFacts ==
    ASSUME NEW m \in Maps, NEW t, NEW r
    PROVE  /\ DropExpired(m, t, r) \in Maps
           /\ \A k \in Keys :
                \/ DropExpired(m, t, r)[k] = m[k]
                \/ /\ DropExpired(m, t, r)[k] = NoRow
                   /\ Expired(LastActivity(m[k]), t, r)
BY DEF DropExpired, Maps

----------------------------------------------------------------------------
(* A sequence of records is a batch.                                       *)
LEMMA RecordsAreBatch ==
    ASSUME NEW rs \in Seq(Record)
    PROVE  Batch(rs) /\ Len(rs) \in Nat /\ DOMAIN rs = 1..Len(rs)
<1>1. Len(rs) \in Nat /\ DOMAIN rs = 1..Len(rs) /\ \A i \in 1..Len(rs) : rs[i] \in Record
  OBVIOUS
<1>2. \A i \in 1..Len(rs) : rs[i].user \in Users \cup {NoUser} /\ rs[i].ts \in Time
  BY <1>1 DEF Record
<1> QED BY <1>1, <1>2 DEF Batch

(* What one more record adds to the records that hit a key.                *)
LEMMA HitsOneMore ==
    ASSUME NEW rs \in Seq(Record), NEW rec \in Record, NEW k \in Keys
    PROVE  LET more == Append(rs, rec)
               n    == Len(rs) + 1
           IN  /\ <<rec.conv, rec.trace>> = k =>
                    /\ Hits(more, k) = Hits(rs, k) \cup {n}
                    /\ HitTimes(more, k) = HitTimes(rs, k) \cup {rec.ts}
                    /\ FirstUser(more, k) = Coalesce(FirstUser(rs, k), rec.user)
               /\ <<rec.conv, rec.trace>> # k =>
                    /\ Hits(more, k) = Hits(rs, k)
                    /\ HitTimes(more, k) = HitTimes(rs, k)
                    /\ FirstUser(more, k) = FirstUser(rs, k)
<1> DEFINE more == Append(rs, rec)
           n == Len(rs) + 1
<1>1. /\ Len(rs) \in Nat /\ DOMAIN rs = 1..Len(rs) /\ DOMAIN more = 1..n
      /\ more[n] = rec /\ \A i \in 1..Len(rs) : more[i] = rs[i]
      /\ 1..n = (1..Len(rs)) \cup {n}
      /\ \A i \in 1..Len(rs) : i < n /\ i \in Nat
  OBVIOUS
<1> HIDE DEF more, n
<1>2. \A i \in Hits(rs, k) : i \in 1..Len(rs) /\ more[i] = rs[i]
  BY <1>1 DEF Hits
<1>3. CASE <<rec.conv, rec.trace>> = k
  <2>1. Hits(more, k) = Hits(rs, k) \cup {n}
    BY <1>1, <1>3 DEF Hits
  <2>2. HitTimes(more, k) = HitTimes(rs, k) \cup {rec.ts}
    BY <1>1, <1>2, <2>1 DEF HitTimes
  <2>3. FirstUser(more, k) = Coalesce(FirstUser(rs, k), rec.user)
    <3>1. NamedHits(more, k) = NamedHits(rs, k) \cup (IF rec.user # NoUser THEN {n} ELSE {})
      BY <1>1, <1>2, <2>1 DEF NamedHits
    <3>2. CASE NamedHits(rs, k) # {}
      <4> DEFINE m == Min(NamedHits(rs, k))
      <4>1. NamedHits(rs, k) \subseteq 1..Len(rs)
        BY <1>2 DEF NamedHits
      <4>2. m \in NamedHits(rs, k) /\ \A y \in NamedHits(rs, k) : m <= y
        BY <3>2, <4>1, MinIsLeast
      <4>3. m \in Nat /\ n \in Nat /\ m <= n
        BY <1>1, <4>1, <4>2 DEF n
      <4> HIDE DEF m
      <4>4. NamedHits(more, k) \subseteq Nat /\ m \in NamedHits(more, k)
            /\ \A y \in NamedHits(more, k) : m <= y
        BY <3>1, <4>1, <4>2, <4>3
      <4>5. Min(NamedHits(more, k)) = m
        BY <4>4, MinIs
      <4>6. more[m] = rs[m] /\ rs[m].user # NoUser
        BY <1>2, <4>2 DEF NamedHits
      <4> QED BY <3>2, <4>4, <4>5, <4>6 DEF FirstUser, Coalesce, m
    <3>3. CASE NamedHits(rs, k) = {} /\ rec.user # NoUser
      <4>1. NamedHits(more, k) = {n}
        BY <3>1, <3>3
      <4>2. Min({n}) = n
        <5>1. n \in Nat
          BY <1>1 DEF n
        <5>2. {n} \subseteq Nat /\ \A y \in {n} : n <= y
          BY <5>1
        <5> QED BY <5>2, MinIs
      <4> QED BY <1>1, <3>3, <4>1, <4>2 DEF FirstUser, Coalesce
    <3>4. CASE NamedHits(rs, k) = {} /\ rec.user = NoUser
      BY <3>1, <3>4 DEF FirstUser, Coalesce
    <3> QED BY <3>2, <3>3, <3>4
  <2> QED BY <1>3, <2>1, <2>2, <2>3 DEF more, n
<1>4. CASE <<rec.conv, rec.trace>> # k
  <2>1. Hits(more, k) = Hits(rs, k)
    BY <1>1, <1>4 DEF Hits
  <2>2. NamedHits(more, k) = NamedHits(rs, k)
    BY <1>2, <2>1 DEF NamedHits
  <2>3. HitTimes(more, k) = HitTimes(rs, k)
    BY <1>2, <2>1 DEF HitTimes
  <2>4. FirstUser(more, k) = FirstUser(rs, k)
    <3>1. NamedHits(rs, k) \subseteq Hits(rs, k) /\ NamedHits(rs, k) \subseteq Nat
      BY <1>1, <1>2 DEF NamedHits
    <3>2. NamedHits(rs, k) # {} => more[Min(NamedHits(rs, k))] = rs[Min(NamedHits(rs, k))]
      BY <1>2, <3>1, MinIsLeast
    <3> QED BY <2>2, <3>2 DEF FirstUser
  <2> QED BY <1>4, <2>1, <2>3, <2>4 DEF more, n
<1> QED BY <1>3, <1>4

(* The payload with one more record is the payload, then one statement.    *)
LEMMA UpsertAllOneMore ==
    ASSUME NEW m \in Maps, NEW rs \in Seq(Record), NEW rec \in Record, NEW k \in Keys
    PROVE  UpsertAll(m, Append(rs, rec))[k] =
             IF <<rec.conv, rec.trace>> = k
             THEN Upsert(UpsertAll(m, rs)[k], rec)
             ELSE UpsertAll(m, rs)[k]
<1> DEFINE more == Append(rs, rec)
           old == m[k]
           mid == UpsertAll(m, rs)[k]
           fst == FirstUser(rs, k)
           times == HitTimes(rs, k)
<1>1. Batch(rs) /\ Len(rs) \in Nat
  BY RecordsAreBatch
<1>2. CASE <<rec.conv, rec.trace>> # k
  <2>1. /\ Hits(more, k) = Hits(rs, k)
        /\ HitTimes(more, k) = HitTimes(rs, k)
        /\ FirstUser(more, k) = FirstUser(rs, k)
    BY <1>2, HitsOneMore
  <2> QED BY <1>2, <2>1 DEF UpsertAll, UpsertRow
<1>3. CASE <<rec.conv, rec.trace>> = k
  <2>1. /\ Hits(more, k) # {}
        /\ HitTimes(more, k) = times \cup {rec.ts}
        /\ FirstUser(more, k) = Coalesce(fst, rec.user)
    BY <1>3, HitsOneMore
  <2>2. rec.ts \in Time /\ rec.user \in Users \cup {NoUser}
    BY DEF Record
  <2>3. Min({rec.ts}) = rec.ts /\ Max({rec.ts}) = rec.ts
    <3>1. {rec.ts} \subseteq Time /\ {rec.ts} # {}
      BY <2>2
    <3> QED BY <3>1, MinOfTimes, MaxIsGreatest
  <2>4. UpsertAll(m, more)[k] = UpsertRow(old, more, k)
    BY <2>1 DEF UpsertAll
  <2>5. CASE Hits(rs, k) = {}
    <3>1. mid = old /\ times = {} /\ fst = NoUser
      BY <2>5 DEF UpsertAll, HitTimes, FirstUser, NamedHits
    <3>2. HitTimes(more, k) = {rec.ts} /\ FirstUser(more, k) = rec.user
      BY <2>1, <3>1 DEF Coalesce
    <3>3. UpsertRow(old, more, k) = Upsert(old, rec)
      <4>1. \A a : {a} \cup {rec.ts} = {a, rec.ts}
        OBVIOUS
      <4> QED BY <2>3, <3>2, <4>1 DEF UpsertRow, Upsert
    <3> QED BY <1>3, <2>4, <3>1, <3>3
  <2>6. CASE Hits(rs, k) # {}
    <3>1. mid = UpsertRow(old, rs, k)
      BY <2>6 DEF UpsertAll
    <3> HIDE DEF mid
    <3>2. old \in Row \cup {NoRow}
      BY DEF Maps
    <3>3. mid \in Row /\ mid # NoRow
      BY <1>1, <2>6, <3>1, <3>2, UpsertRowFacts, SentinelAssumption
    <3>4. times \subseteq Time /\ times # {}
      BY <1>1, <2>6, HitTimesType
    <3>5. CASE old = NoRow
      <4>1. mid = [user |-> fst, first |-> Min(times), last |-> Max(times)]
        BY <3>1, <3>5 DEF UpsertRow
      <4>2. Max(times) # NoTime
        BY <3>4, MaxIsGreatest, SentinelAssumption
      <4>3. LastActivity(mid) = Max(times)
        BY <4>1, <4>2 DEF LastActivity
      <4>4. Upsert(mid, rec) = [user  |-> Coalesce(fst, rec.user),
                                first |-> Min({Min(times), rec.ts}),
                                last  |-> Max({Max(times), rec.ts})]
        BY <3>3, <4>1, <4>3 DEF Upsert
      <4>5. UpsertRow(old, more, k) = [user  |-> Coalesce(fst, rec.user),
                                       first |-> Min(times \cup {rec.ts}),
                                       last  |-> Max(times \cup {rec.ts})]
        BY <2>1, <3>5 DEF UpsertRow
      <4> QED BY <1>3, <2>2, <2>4, <3>4, <4>4, <4>5, MinOneMore, MaxOneMore DEF mid
    <3>6. CASE old \in Row
      <4> DEFINE early == {old.first} \cup times
                 late == {LastActivity(old)} \cup times
      <4>1. old # NoRow
        BY <3>6, SentinelAssumption
      <4>2. mid = [user |-> Coalesce(old.user, fst), first |-> Min(early), last |-> Max(late)]
        BY <3>1, <4>1 DEF UpsertRow
      <4>3. old.first \in Time /\ LastActivity(old) \in Time
        BY <3>6, LastActivityType DEF Row
      <4>4. early \subseteq Time /\ late \subseteq Time /\ early # {} /\ late # {}
        BY <3>4, <4>3
      <4> HIDE DEF early, late
      <4>5. Max(late) # NoTime
        BY <4>4, MaxIsGreatest, SentinelAssumption
      <4>6. LastActivity(mid) = Max(late)
        BY <4>2, <4>5 DEF LastActivity
      <4>7. Upsert(mid, rec) = [user  |-> Coalesce(Coalesce(old.user, fst), rec.user),
                                first |-> Min({Min(early), rec.ts}),
                                last  |-> Max({Max(late), rec.ts})]
        BY <3>3, <4>2, <4>6 DEF Upsert
      <4>8. {old.first} \cup (times \cup {rec.ts}) = early \cup {rec.ts}
            /\ {LastActivity(old)} \cup (times \cup {rec.ts}) = late \cup {rec.ts}
        BY DEF early, late
      <4>9. UpsertRow(old, more, k) = [user  |-> Coalesce(old.user, Coalesce(fst, rec.user)),
                                       first |-> Min(early \cup {rec.ts}),
                                       last  |-> Max(late \cup {rec.ts})]
        BY <2>1, <4>1, <4>8 DEF UpsertRow
      <4>10. Coalesce(Coalesce(old.user, fst), rec.user) = Coalesce(old.user, Coalesce(fst, rec.user))
        BY DEF Coalesce
      <4> QED BY <1>3, <2>2, <2>4, <4>4, <4>7, <4>9, <4>10, MinOneMore, MaxOneMore DEF mid
    <3> QED BY <3>2, <3>5, <3>6
  <2> QED BY <2>5, <2>6
<1> QED BY <1>2, <1>3

(* A row that has been through a payload covers it and has its user: going *)
(* through it again changes nothing.                                       *)
LEMMA UpsertRowTwice ==
    ASSUME NEW rs, Batch(rs), NEW k \in Keys, Hits(rs, k) # {},
           NEW row \in Row \cup {NoRow}
    PROVE  UpsertRow(UpsertRow(row, rs, k), rs, k) = UpsertRow(row, rs, k)
<1> DEFINE new == UpsertRow(row, rs, k)
           times == HitTimes(rs, k)
           fst == FirstUser(rs, k)
           early == IF row = NoRow THEN times ELSE {row.first} \cup times
           late == IF row = NoRow THEN times ELSE {LastActivity(row)} \cup times
           user == IF row = NoRow THEN fst ELSE Coalesce(row.user, fst)
<1>1. new = [user |-> user, first |-> Min(early), last |-> Max(late)]
  BY DEF UpsertRow
<1>2. new \in Row /\ new # NoRow
  BY UpsertRowFacts, SentinelAssumption
<1>3. times \subseteq Time /\ times # {}
  BY HitTimesType
<1>4. early \subseteq Time /\ late \subseteq Time /\ times \subseteq early /\ times \subseteq late
  BY <1>3, LastActivityType DEF Row
<1>5. user = Coalesce(user, fst)
  BY DEF Coalesce
<1> HIDE DEF new, times, fst, early, late, user
<1>6. new.user = user /\ new.first = Min(early) /\ new.last = Max(late)
  BY <1>1
<1>7. LastActivity(new) = Max(late)
  BY <1>3, <1>4, <1>6, MaxIsGreatest, SentinelAssumption DEF LastActivity
<1>8. Min({Min(early)} \cup times) = Min(early)
  <2>1. Min(early) \in Time /\ \A y \in times : Min(early) <= y
    BY <1>3, <1>4, MinOfTimes
  <2>2. Min(early) \in Nat /\ {Min(early)} \cup times \subseteq Nat
    BY <1>3, <2>1, TimesAreNaturals
  <2>3. \A y \in {Min(early)} \cup times : Min(early) <= y
    BY <2>1, <2>2
  <2> QED
    BY <2>2, <2>3, MinIs
<1>9. Max({Max(late)} \cup times) = Max(late)
  <2>1. Max(late) \in Time /\ \A y \in times : Max(late) >= y
    BY <1>3, <1>4, MaxIsGreatest
  <2>2. {Max(late)} \cup times \subseteq Time /\ Max(late) \in Nat
    BY <1>3, <2>1, TimesAreNaturals
  <2>3. \A y \in {Max(late)} \cup times : Max(late) >= y
    BY <2>1, <2>2
  <2> QED
    BY <2>2, <2>3, MaxIs
<1>10. UpsertRow(new, rs, k) = [user  |-> Coalesce(user, fst),
                                first |-> Min({Min(early)} \cup times),
                                last  |-> Max({Max(late)} \cup times)]
  BY <1>2, <1>6, <1>7 DEF UpsertRow, fst, times
<1>11. UpsertRow(new, rs, k) = new
  BY <1>1, <1>5, <1>8, <1>9, <1>10
<1> QED
  BY <1>11 DEF new
=============================================================================
