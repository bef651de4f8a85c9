-------------------------- MODULE ConversationMap --------------------------
(***************************************************************************)
(* The conversation <-> trace map of the store (pulse_conversation_map) as *)
(* a value: what one upsert statement does to a row, what the upserts of a *)
(* whole payload do to the map, and which telemetry a caller may read      *)
(* through it.  The modules of the running system keep the map in a        *)
(* variable and change it only with these operators.                       *)
(***************************************************************************)
EXTENDS Naturals, Sequences, FiniteSetsExt

CONSTANTS
    Conversations,  \* conversation ids
    Traces,         \* trace ids
    Users,          \* user ids
    Horizon,        \* the last instant of the clock (bounds Time)
    NoConv,         \* "the record carries no conversation attribute"
    NoTrace,        \* "the record carries no usable trace id"
    NoUser,         \* SQL NULL in user_id; as a query argument: not scoped
    NoTime,         \* SQL NULL in last_seen
    NoRow           \* the map has no row for this key

Time == 0..Horizon

(* A row of pulse_conversation_map without its key.  last may be NULL: the *)
(* row was written by an instance older than the last_seen column.         *)
Row == [user  : Users \cup {NoUser},
        first : Time,
        last  : Time \cup {NoTime}]

Keys == Conversations \X Traces

Maps == [Keys -> Row \cup {NoRow}]

(* What the parser keeps of a log record or a span, for this map.          *)
Record == [conv  : Conversations \cup {NoConv},
           trace : Traces \cup {NoTrace},
           user  : Users \cup {NoUser},
           ts    : Time]

ASSUME HorizonAssumption == Horizon \in Nat
ASSUME SentinelAssumption ==
    /\ NoConv \notin Conversations
    /\ NoTrace \notin Traces
    /\ NoUser \notin Users
    /\ NoTime \notin Time
    /\ NoRow \notin Row

----------------------------------------------------------------------------
(* One upsert statement.                                                   *)

Coalesce(a, b) == IF a = NoUser THEN b ELSE a

LastActivity(row) == IF row.last = NoTime THEN row.first ELSE row.last

(* Mutant: COALESCE with its arguments swapped, the last user named wins.  *)
UpsertLastUser(row, rec) ==
    IF row = NoRow
    THEN [user |-> rec.user, first |-> rec.ts, last |-> rec.ts]
    ELSE [user  |-> Coalesce(rec.user, row.user),
          first |-> Min({row.first, rec.ts}),
          last  |-> Max({LastActivity(row), rec.ts})]

(* Mutant: last_seen = EXCLUDED.last_seen.                                 *)
UpsertLatestWrite(row, rec) ==
    IF row = NoRow
    THEN [user |-> rec.user, first |-> rec.ts, last |-> rec.ts]
    ELSE [user  |-> Coalesce(row.user, rec.user),
          first |-> Min({row.first, rec.ts}),
          last  |-> rec.ts]

(* Mutant: str(user_id) of a missing user.                                 *)
UpsertStringifiedUser(row, rec) ==
    LET user == IF rec.user = NoUser THEN "None" ELSE rec.user
    IN  IF row = NoRow
        THEN [user |-> user, first |-> rec.ts, last |-> rec.ts]
        ELSE [user  |-> Coalesce(row.user, user),
              first |-> Min({row.first, rec.ts}),
              last  |-> Max({LastActivity(row), rec.ts})]

Upsert(row, rec) ==
    IF row = NoRow
    THEN [user |-> rec.user, first |-> rec.ts, last |-> rec.ts]
    ELSE [user  |-> Coalesce(row.user, rec.user),
          first |-> Min({row.first, rec.ts}),
          last  |-> Max({LastActivity(row), rec.ts})]

(* A record yields a link only when it carries both ids.                   *)
HasLink(rec) == rec.conv # NoConv /\ rec.trace # NoTrace

----------------------------------------------------------------------------
(* The upserts of one payload, executed in the order of its records inside *)
(* one transaction, as one change of the map.  The order matters for the   *)
(* user alone: the first record that names one wins.                       *)

Hits(recs, k) == {i \in DOMAIN recs : <<recs[i].conv, recs[i].trace>> = k}

HitTimes(recs, k) == {recs[i].ts : i \in Hits(recs, k)}

NamedHits(recs, k) == {i \in Hits(recs, k) : recs[i].user # NoUser}

(* Mutant: str(user_id) of a missing user.                                 *)
StringifiedUser(recs, k) ==
    IF NamedHits(recs, k) = {} THEN "None"
    ELSE recs[Min(NamedHits(recs, k))].user

FirstUser(recs, k) ==
    IF NamedHits(recs, k) = {} THEN NoUser
    ELSE recs[Min(NamedHits(recs, k))].user

(* Mutant: the upsert of a payload hands the row to the payload's user.    *)
UpsertRowTakeover(row, recs, k) ==
    LET user  == FirstUser(recs, k)
        times == HitTimes(recs, k)
    IN  IF row = NoRow
        THEN [user |-> user, first |-> Min(times), last |-> Max(times)]
        ELSE [user  |-> Coalesce(user, row.user),
              first |-> Min({row.first} \cup times),
              last  |-> Max({LastActivity(row)} \cup times)]

UpsertRow(row, recs, k) ==
    LET user  == FirstUser(recs, k)
        times == HitTimes(recs, k)
    IN  IF row = NoRow
        THEN [user |-> user, first |-> Min(times), last |-> Max(times)]
        ELSE [user  |-> Coalesce(row.user, user),
              first |-> Min({row.first} \cup times),
              last  |-> Max({LastActivity(row)} \cup times)]

UpsertAll(m, recs) ==
    [k \in Keys |-> IF Hits(recs, k) = {} THEN m[k] ELSE UpsertRow(m[k], recs, k)]

----------------------------------------------------------------------------
(* The start-up backfill and the retention delete.                         *)

(* Mutant: the backfill without its WHERE last_seen IS NULL.               *)
BackfillAll(m) ==
    [k \in Keys |-> IF m[k] = NoRow THEN NoRow
                    ELSE [m[k] EXCEPT !.last = m[k].first]]

Backfill(m) ==
    [k \in Keys |-> IF m[k] = NoRow THEN NoRow
                    ELSE [m[k] EXCEPT !.last = LastActivity(m[k])]]

(* "older than the retention": ts < now() - make_interval(days => r).      *)
Expired(ts, now, r) == ts + r < now

(* Mutant: retention by creation instead of by activity.                   *)
DropByCreation(m, now, r) ==
    [k \in Keys |-> IF m[k] # NoRow /\ Expired(m[k].first, now, r)
                    THEN NoRow ELSE m[k]]

DropExpired(m, now, r) ==
    [k \in Keys |-> IF m[k] # NoRow /\ Expired(LastActivity(m[k]), now, r)
                    THEN NoRow ELSE m[k]]

----------------------------------------------------------------------------
(* Reading through the map.                                                *)

Rows(m) == {k \in Keys : m[k] # NoRow}

Owned(m, u) == {k \in Rows(m) : m[k].user = u}

(* The scope test of the annotation and alert queries.                     *)
MayUse(m, u, c) == u = NoUser \/ \E k \in Owned(m, u) : k[1] = c
=============================================================================
