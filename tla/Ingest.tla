------------------------------- MODULE Ingest -------------------------------
(***************************************************************************)
(* Delivery of payloads, statement by statement.  The collector posts each *)
(* payload until it is told it was stored; the service gives a post one of *)
(* its few database connections, opens a transaction, runs the payload's   *)
(* statements, commits and replies.  The statements of posts that run at   *)
(* the same time interleave on the rows of the tables: an upsert holds the *)
(* lock of its row until its transaction ends, so posts wait for each      *)
(* other, and may wait in a circle until the database kills one of them.   *)
(*                                                                         *)
(* The collector is external: what the service knows of it is that it      *)
(* posts again after an error or a missing reply.  So is PostgreSQL: row   *)
(* locks, read committed and the deadlock detector are modelled as the     *)
(* store relies on them.                                                   *)
(***************************************************************************)
EXTENDS Payloads

CONSTANTS
    PoolSize,   \* connections of the pool
    MaxTries,   \* bound: MaxTries[p] posts of payload p
    MaxFaults   \* bound: lost replies, failed statements and crashes

ASSUME IngestAssumption ==
    /\ PoolSize \in Nat \ {0}
    /\ MaxTries \in [Payload -> Nat \ {0}]
    /\ MaxFaults \in Nat

VARIABLES
    logs, spans, map,  \* the tables, as committed (see AtomicDelivery)
    acked,    \* payloads whose delivery the collector knows of
    dropped,  \* payloads that the collector was told never to send again
    tries,    \* tries[p]: posts of p so far
    waiting,  \* payloads with a post whose reply the collector waits for
    post,     \* the service's side of every post
    faults    \* faults so far

tables == <<logs, spans, map>>
vars == <<logs, spans, map, acked, dropped, tries, waiting, post, faults>>

(* The n-th post of p.                                                     *)
Posts == UNION {{p} \X (1..MaxTries[p]) : p \in Payload}

(* unsent; queued for a connection; open: its transaction is running;      *)
(* stored, failed or denied: to be answered with 200, 5xx or 4xx; over.    *)
Stages == {"unsent", "queued", "open", "stored", "failed", "denied", "over"}

(* done counts the statements that have run; waits: the next one has been  *)
(* issued and found its row locked; rows and marks are what the statements *)
(* wrote, seen by no other transaction before the commit.                  *)
Idle(stage) == [stage |-> stage, done |-> 0, waits |-> FALSE,
                rows  |-> [k \in Keys |-> NoRow],
                marks |-> [k \in SpanKeys |-> NoRow]]

TypeOK ==
    /\ logs \in [LogIds -> Nat]
    /\ spans \in [SpanKeys -> SpanRow \cup {NoRow}]
    /\ map \in Maps
    /\ acked \subseteq Payload
    /\ dropped \subseteq Payload
    /\ tries \in [Payload -> Nat] /\ \A p \in Payload : tries[p] <= MaxTries[p]
    /\ waiting \subseteq Payload
    /\ post \in [Posts -> [stage : Stages, done : Nat, waits : BOOLEAN, rows : Maps,
                           marks : [SpanKeys -> SpanRow \cup {NoRow}]]]
    /\ faults \in 0..MaxFaults

Init ==
    /\ logs = [l \in LogIds |-> 0]
    /\ spans = [k \in SpanKeys |-> NoRow]
    /\ map = [k \in Keys |-> NoRow]
    /\ acked = {}
    /\ dropped = {}
    /\ tries = [p \in Payload |-> 0]
    /\ waiting = {}
    /\ post = [a \in Posts |-> Idle("unsent")]
    /\ faults = 0

----------------------------------------------------------------------------
(* The collector.                                                          *)

Latest(a) == a[2] = tries[a[1]]

(* How far a post comes before it needs a connection: the checks and the   *)
(* parser look at nothing but the request, and a payload with nothing to   *)
(* store is answered at once.                                              *)
Arrival(p) ==
    LET status == Status(RequestOf[p])
    IN  CASE status \in 400..499 -> "denied"
          [] status \in 500..599 -> "failed"
          [] status = 200 -> IF Program[p] = <<>> THEN "stored" ELSE "queued"

(* Post a payload, or post it again.                                       *)
Send(p) ==
    /\ p \notin acked \cup dropped \cup waiting
    /\ tries[p] < MaxTries[p]
    /\ tries' = [tries EXCEPT ![p] = @ + 1]
    /\ waiting' = waiting \cup {p}
    /\ post' = [post EXCEPT ![<<p, tries[p] + 1>>] = Idle(Arrival(p))]
    /\ UNCHANGED <<tables, acked, dropped, faults>>

(* The reply does not come in time: the collector stops waiting, the       *)
(* service does not notice and keeps working on the post.                  *)
TimeOut(p) ==
    /\ p \in waiting
    /\ faults < MaxFaults
    /\ faults' = faults + 1
    /\ waiting' = waiting \ {p}
    /\ UNCHANGED <<tables, acked, dropped, tries, post>>

----------------------------------------------------------------------------
(* The service.                                                            *)

Running == {a \in Posts : post[a].stage = "open"}

Acquire(a) ==
    /\ post[a].stage = "queued"
    /\ Cardinality(Running) < PoolSize
    /\ post' = [post EXCEPT ![a] = [post[a] EXCEPT !.stage = "open"]]
    /\ UNCHANGED <<tables, acked, dropped, tries, waiting, faults>>

HasNext(a) == post[a].stage = "open" /\ post[a].done < Len(Program[a[1]])

Current(a) == Program[a[1]][post[a].done + 1]

LinkKey(rec) == <<rec.conv, rec.trace>>
SpanKey(rec) == <<rec.trace, rec.span>>

(* The row a statement is to write, with its table; log rows are new.      *)
Target(s) == CASE s.op = "link" -> <<"map", LinkKey(s.rec)>>
               [] s.op = "span" -> <<"spans", SpanKey(s.rec)>>
               [] s.op = "log"  -> <<"logs", <<>>>>

Holds(b, target) ==
    \/ target[1] = "map"   /\ post[b].rows[target[2]] # NoRow
    \/ target[1] = "spans" /\ post[b].marks[target[2]] # NoRow

(* The other transactions that have written the row a's statement is to    *)
(* write: at most one, since a row written is a row locked.                *)
Blockers(a) ==
    IF ~HasNext(a) THEN {}
    ELSE {b \in Running \ {a} : Holds(b, Target(Current(a)))}

(* A transaction that waits for a row goes before one that comes later and *)
(* does not hold it.                                                       *)
Overtakes(a) ==
    /\ ~post[a].waits /\ ~Holds(a, Target(Current(a)))
    /\ Target(Current(a))[1] # "logs"
    /\ \E b \in Running \ {a} : post[b].waits /\ Target(Current(b)) = Target(Current(a))

(* The row as the statement finds it: the transaction's own version, or    *)
(* the one committed last (read committed).                                *)
SeenRow(a, k) == IF post[a].rows[k] # NoRow THEN post[a].rows[k] ELSE map[k]

(* The post with one statement more done, which waits for nothing.         *)
Ran(a) == LET next == [post[a] EXCEPT !.done = post[a].done + 1]
          IN  [next EXCEPT !.waits = FALSE]

RunLog(a) == post' = [post EXCEPT ![a] = Ran(a)]

RunLink(a, rec) ==
    LET k == LinkKey(rec)
        rows == [post[a].rows EXCEPT ![k] = Upsert(SeenRow(a, k), rec)]
    IN  post' = [post EXCEPT ![a] = [Ran(a) EXCEPT !.rows = rows]]

(* ON CONFLICT DO NOTHING, on a row of its own or a committed one.         *)
RunSpan(a, rec) ==
    LET k == SpanKey(rec)
        taken == post[a].marks[k] # NoRow \/ spans[k] # NoRow
        marks == IF taken THEN post[a].marks ELSE [post[a].marks EXCEPT ![k] = rec]
    IN  post' = [post EXCEPT ![a] = [Ran(a) EXCEPT !.marks = marks]]

(* The values of the next statement are ones its columns can hold.         *)
Fits(a) == post[a].done + 1 # BadAt[a[1]]

Wait(a) ==
    /\ Fits(a)
    /\ Blockers(a) # {} /\ ~post[a].waits
    /\ post' = [post EXCEPT ![a] = [post[a] EXCEPT !.waits = TRUE]]
    /\ UNCHANGED <<tables, acked, dropped, tries, waiting, faults>>

Statement(a) ==
    /\ HasNext(a) /\ Fits(a)
    /\ Blockers(a) = {} /\ ~Overtakes(a)
    /\ LET s == Current(a)
       IN  \/ s.op = "log" /\ RunLog(a)
           \/ s.op = "link" /\ RunLink(a, s.rec)
           \/ s.op = "span" /\ RunSpan(a, s.rec)
    /\ UNCHANGED <<tables, acked, dropped, tries, waiting, faults>>

(* Mutant: an error between the commit and the reply, answered with a 5xx. *)
CommitThenError(a) ==
    /\ post[a].stage = "open"
    /\ ~HasNext(a)
    /\ logs' = [l \in LogIds |-> IF l[1] = a[1] THEN logs[l] + 1 ELSE logs[l]]
    /\ map' = [k \in Keys |-> SeenRow(a, k)]
    /\ spans' = [k \in SpanKeys |-> IF post[a].marks[k] # NoRow
                                    THEN post[a].marks[k] ELSE spans[k]]
    /\ post' = [post EXCEPT ![a] = Idle("failed")]
    /\ UNCHANGED <<acked, dropped, tries, waiting, faults>>

(* The commit publishes what the statements wrote, ends the locks and      *)
(* returns the connection.                                                 *)
Commit(a) ==
    /\ post[a].stage = "open"
    /\ ~HasNext(a)
    /\ logs' = [l \in LogIds |-> IF l[1] = a[1] THEN logs[l] + 1 ELSE logs[l]]
    /\ map' = [k \in Keys |-> SeenRow(a, k)]
    /\ spans' = [k \in SpanKeys |-> IF post[a].marks[k] # NoRow
                                    THEN post[a].marks[k] ELSE spans[k]]
    /\ post' = [post EXCEPT ![a] = Idle("stored")]
    /\ UNCHANGED <<acked, dropped, tries, waiting, faults>>

(* 200, a 4xx, or a 5xx after a roll-back or a parser that raised; the     *)
(* collector hears it only if it still waits for this very post, and sends *)
(* again after a 5xx alone.                                                *)
Reply(a) ==
    /\ post[a].stage \in {"stored", "failed", "denied"}
    /\ post' = [post EXCEPT ![a] = Idle("over")]
    /\ IF a[1] \in waiting /\ Latest(a)
       THEN /\ waiting' = waiting \ {a[1]}
            /\ acked' = IF post[a].stage = "stored" THEN acked \cup {a[1]} ELSE acked
            /\ dropped' = IF post[a].stage = "denied" THEN dropped \cup {a[1]} ELSE dropped
       ELSE UNCHANGED <<waiting, acked, dropped>>
    /\ UNCHANGED <<tables, tries, faults>>

(* Mutant: the error is swallowed, and so is the reply.                    *)
RollBackUnanswered(a) == post' = [post EXCEPT ![a] = Idle("over")]

(* Mutant: the error is logged, and the post answered with 200.            *)
RollBackUnreported(a) == post' = [post EXCEPT ![a] = Idle("stored")]

RollBack(a) == post' = [post EXCEPT ![a] = Idle("failed")]

(* Mutant: no transaction around the statements, the links that ran stay.  *)
FailHalfWay(a) ==
    /\ a \in Running
    /\ faults < MaxFaults
    /\ faults' = faults + 1
    /\ map' = [k \in Keys |-> SeenRow(a, k)]
    /\ RollBack(a)
    /\ UNCHANGED <<logs, spans, acked, dropped, tries, waiting>>

(* A value of the next statement cannot be stored: it raises before it     *)
(* reaches any row, and takes the whole payload with it, on every try.     *)
Refused(a) ==
    /\ HasNext(a) /\ ~Fits(a)
    /\ RollBack(a)
    /\ UNCHANGED <<tables, acked, dropped, tries, waiting, faults>>

(* No connection is to be had, or the one in use breaks.                   *)
Fail(a) ==
    /\ post[a].stage \in {"queued", "open"}
    /\ faults < MaxFaults
    /\ faults' = faults + 1
    /\ RollBack(a)
    /\ UNCHANGED <<tables, acked, dropped, tries, waiting>>

(* Transactions that wait for each other in a circle: blocked ones only,   *)
(* each waiting for one of them.                                           *)
InCircle(a) ==
    \E S \in SUBSET {b \in Running : post[b].waits /\ Blockers(b) # {}} :
       a \in S /\ UNION {Blockers(b) : b \in S} = S

(* The database's detector picks one of them and rolls it back.            *)
KillForDeadlock(a) ==
    /\ a \in Running /\ InCircle(a)
    /\ RollBack(a)
    /\ UNCHANGED <<tables, acked, dropped, tries, waiting, faults>>

(* The service dies: open transactions are rolled back, and no post that   *)
(* was under way is ever answered.                                         *)
Crash ==
    /\ \E a \in Posts : post[a].stage \notin {"unsent", "over"}
    /\ faults < MaxFaults
    /\ faults' = faults + 1
    /\ post' = [a \in Posts |-> IF post[a].stage = "unsent" THEN post[a] ELSE Idle("over")]
    /\ waiting' = {}
    /\ UNCHANGED <<tables, acked, dropped, tries>>

----------------------------------------------------------------------------
Serve(a) ==
    \/ Acquire(a)
    \/ Statement(a) \/ Wait(a) \/ Refused(a)
    \/ Commit(a)
    \/ Reply(a)
    \/ KillForDeadlock(a)

Next ==
    \/ \E p \in Payload : Send(p) \/ TimeOut(p)
    \/ \E a \in Posts : Serve(a) \/ Fail(a)
    \/ Crash

Spec == Init /\ [][Next]_vars

(* The collector keeps trying, a post that can go on goes on (the pool     *)
(* queues first come first served, a commit wakes the next waiter of a row *)
(* and the detector always fires), and faults are never owed.              *)
Fairness ==
    /\ \A p \in Payload : WF_vars(Send(p))
    /\ \A a \in Posts : WF_vars(Serve(a))

FairSpec == Spec /\ Fairness

----------------------------------------------------------------------------
(* Properties.                                                             *)

Delivery == INSTANCE AtomicDelivery
                WITH logs <- logs, spans <- spans, map <- map, acked <- acked

(* Whatever the interleaving of statements, the lock waits, the rollbacks  *)
(* and the retries, the tables change as if payloads were applied whole,   *)
(* one after the other, and the collector is told so only afterwards; of a *)
(* payload that is refused at any point nothing is ever seen.              *)
AppliedAtomically == Delivery!Spec

(* The collector can rely on what it was told, whatever other posts write  *)
(* later and whichever of its own are still under way.  All of a payload   *)
(* answered with 200 is stored and stays so: its links are in the map, and *)
(* no later upsert makes them worth writing again.  A payload that it was  *)
(* told with a 4xx never to send again is one that had to be refused, and  *)
(* none of its posts has stored anything of it.                            *)
AnswersAreTrue ==
    /\ \A p \in acked : Delivery!Applied(p)
    /\ \A p \in dropped : /\ ~WellFormed(RequestOf[p])
                          /\ \A l \in LogIds : l[1] = p => logs[l] = 0

(* A payload is stored more than once only if the collector was left in    *)
(* doubt about it: a copy for each fault at most, besides the first.       *)
DuplicatesNeedFaults == \A l \in LogIds : logs[l] <= 1 + faults

(* Every payload that the service has to take is stored and acknowledged   *)
(* in the end, the ones just at the ceilings included, however many posts  *)
(* that must fail come between.                                            *)
EveryPayloadDelivered == \A p \in Payload : Acceptable(p) => <>(p \in acked)

(* What the README says of replaying an export: no log row is stored twice.*)
NoDuplicateLogs == \A l \in LogIds : logs[l] <= 1
=============================================================================
