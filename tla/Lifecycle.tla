----------------------------- MODULE Lifecycle -----------------------------
(***************************************************************************)
(* Instances of the service that start, serve and stop beside each other   *)
(* on one database.  A start migrates the schema: the DDL script is one    *)
(* transaction that locks table after table, under an advisory lock that   *)
(* keeps other starts out.  The instances that serve meanwhile run their   *)
(* requests and their background passes, whose statements lock the same    *)
(* tables in orders of their own.                                          *)
(*                                                                         *)
(* Every use of a connection is a session with a program of table locks.   *)
(* Table locks, their queues and the deadlock detector are PostgreSQL's,   *)
(* modelled as the service relies on them.                                 *)
(***************************************************************************)
EXTENDS Naturals, FiniteSets, SequencesExt

CONSTANTS
    Instance,  \* instances of the service
    Requests,  \* Requests[i]: the requests that i serves, of those of Program
    Passes,    \* Passes[i]: the background loops that i runs, likewise
    PoolSize   \* connections of a pool

----------------------------------------------------------------------------
(* Programs.                                                               *)

Modes == {"AccessShare", "RowExclusive", "Share", "AccessExclusive"}

Conflict(m, n) ==
    \/ "AccessExclusive" \in {m, n}
    \/ {m, n} = {"RowExclusive", "Share"}

Take(table, mode) == [op |-> "take", table |-> table, mode |-> mode]
Read(table)  == Take(table, "AccessShare")
Write(table) == Take(table, "RowExclusive")
Index(table) == Take(table, "Share")
Alter(table) == Take(table, "AccessExclusive")

(* The end of a transaction, and the end of the advisory lock.             *)
Commit == [op |-> "commit"]
Unlock == [op |-> "unlock"]

AdvisoryLock == Take("ddl", "AccessExclusive")

(* The tables of the DDL script in its order; creating what exists locks   *)
(* nothing, indexing or altering it does, even if nothing is left to do.   *)
Migration == <<Index("logs"), Index("map"), Alter("map"), Alter("logs"),
               Index("spans"), Index("notes"), Alter("spans"), Index("alerts")>>

(* Mutant: a lock of the transaction that is over with its own statement.  *)
ConnectUnguarded == <<AdvisoryLock, Unlock>> \o Migration \o <<Commit>>

Connect == <<AdvisoryLock>> \o Migration \o <<Commit, Unlock>>

(* Mutant: the spans of a payload are inserted before its links.           *)
PostTracesSpansFirst == <<Write("spans"), Write("map"), Commit>>

PostTraces == <<Write("map"), Write("spans"), Commit>>

PostLogs == <<Write("logs"), Write("map"), Commit>>

(* The target of an INSERT is locked before the tables it reads.           *)
Annotate == <<Write("notes"), Read("map"), Commit>>

QueryLogs  == <<Read("logs"), Read("map"), Commit>>
QuerySpans == <<Read("spans"), Read("map"), Commit>>
QueryNotes == <<Read("notes"), Read("map"), Commit>>
QueryAlerts == <<Read("alerts"), Read("map"), Commit>>
QueryConversations == <<Read("map"), Commit>>
QueryStats == <<Read("map"), Read("spans"), Commit>> \o QueryLogs

EvaluateAlerts == QuerySpans \o QueryLogs \o <<Write("alerts"), Commit>>

PruneOld == <<Write("logs"), Commit, Write("spans"), Commit, Write("map"), Commit,
              Write("notes"), Commit, Write("alerts"), Commit>>

Kinds == {"connect", "post logs", "post traces", "annotate", "logs", "spans",
          "annotations", "alerts", "conversations", "stats", "evaluate", "prune"}

Program ==
    [kind \in Kinds |->
        CASE kind = "connect"        -> Connect
          [] kind = "post logs"      -> PostLogs
          [] kind = "post traces"    -> PostTraces
          [] kind = "annotate"       -> Annotate
          [] kind = "logs"           -> QueryLogs
          [] kind = "spans"          -> QuerySpans
          [] kind = "annotations"    -> QueryNotes
          [] kind = "alerts"         -> QueryAlerts
          [] kind = "conversations"  -> QueryConversations
          [] kind = "stats"          -> QueryStats
          [] kind = "evaluate"       -> EvaluateAlerts
          [] kind = "prune"          -> PruneOld]

ASSUME LifecycleAssumption ==
    /\ IsFiniteSet(Instance)
    /\ Requests \in [Instance -> SUBSET (Kinds \ {"connect", "evaluate", "prune"})]
    /\ Passes \in [Instance -> SUBSET {"evaluate", "prune"}]
    /\ PoolSize \in Nat \ {0}

----------------------------------------------------------------------------
Session == UNION {{i} \X ({"connect"} \cup Requests[i] \cup Passes[i]) : i \in Instance}

VARIABLES
    life,    \* life[i]: see Lives
    at,      \* at[s]: the step of its program that session s comes to, or 0
    held,    \* held[s]: the locks of session s
    queue,   \* the sessions that wait for a lock, in the order they came
    schema   \* "the migration has been committed"

vars == <<life, at, held, queue, schema>>

(* stopping: requests are being finished, no new ones are taken; closing:  *)
(* the loops are cancelled, and the pool waits for its connections.        *)
Lives == {"down", "starting", "serving", "stopping", "closing"}

Lock == [table : {"ddl", "logs", "map", "spans", "notes", "alerts"}, mode : Modes]

TypeOK ==
    /\ life \in [Instance -> Lives]
    /\ at \in [Session -> Nat]
    /\ held \in [Session -> SUBSET Lock]
    /\ queue \in Seq(Session) /\ IsInjective(queue)
    /\ schema \in BOOLEAN
    /\ \A s \in Session : at[s] = 0 => held[s] = {} /\ s \notin ToSet(queue)

Init ==
    /\ life = [i \in Instance |-> "down"]
    /\ at = [s \in Session |-> 0]
    /\ held = [s \in Session |-> {}]
    /\ queue = <<>>
    /\ schema = FALSE

Active(s) == at[s] > 0

Waiting(s) == s \in ToSet(queue)

(* The sessions that hold a connection of the instance's pool.             *)
InUse(i) == {s \in Session : s[1] = i /\ Active(s)}

Step(s) == Program[s[2]][at[s]]

AtEnd(s) == at[s] > Len(Program[s[2]])

Takes(s) == Active(s) /\ ~AtEnd(s) /\ Step(s).op = "take"

----------------------------------------------------------------------------
(* Table locks.                                                            *)

HasLockAgainst(r, s) ==
    \E l \in held[r] : l.table = Step(s).table /\ Conflict(l.mode, Step(s).mode)

Before(r, s) == \E i \in DOMAIN queue : queue[i] = r /\ s \notin ToSet(SubSeq(queue, 1, i))

(* A request waits for the locks it conflicts with, and behind the         *)
(* requests it conflicts with that came before, except those that wait for *)
(* a lock of its own session.                                              *)
Blockers(s) ==
    {r \in Session \ {s} :
        \/ HasLockAgainst(r, s)
        \/ /\ Before(r, s)
           /\ Step(r).table = Step(s).table /\ Conflict(Step(r).mode, Step(s).mode)
           /\ ~HasLockAgainst(s, r)}

(* A waiting session that waits for itself in the end: every set that      *)
(* holds its blockers, and the blockers of its members, holds it too.      *)
InCircle(s) ==
    Waiting(s) /\
    LET W == ToSet(queue)
        B == [r \in W |-> Blockers(r) \cap W]
    IN  \A S \in SUBSET W :
           B[s] \subseteq S /\ (\A r \in S : B[r] \subseteq S) => s \in S

Forget(s) == RemoveFirst(queue, s)

Acquire(s) ==
    /\ Takes(s) /\ Blockers(s) = {}
    /\ held' = [held EXCEPT ![s] = @ \cup {[table |-> Step(s).table, mode |-> Step(s).mode]}]
    /\ at' = [at EXCEPT ![s] = @ + 1]
    /\ queue' = Forget(s)
    /\ UNCHANGED <<life, schema>>

Wait(s) ==
    /\ Takes(s) /\ Blockers(s) # {} /\ ~Waiting(s)
    /\ queue' = Append(queue, s)
    /\ UNCHANGED <<life, at, held, schema>>

(* The advisory lock belongs to the session and outlasts the transaction.  *)
EndTransaction(s) ==
    /\ Active(s) /\ ~AtEnd(s) /\ Step(s) = Commit
    /\ held' = [held EXCEPT ![s] = {l \in @ : l.table = "ddl"}]
    /\ at' = [at EXCEPT ![s] = @ + 1]
    /\ schema' = (schema \/ s[2] = "connect")
    /\ UNCHANGED <<life, queue>>

ReleaseAdvisoryLock(s) ==
    /\ Active(s) /\ ~AtEnd(s) /\ Step(s) = Unlock
    /\ held' = [held EXCEPT ![s] = {l \in @ : l.table # "ddl"}]
    /\ at' = [at EXCEPT ![s] = @ + 1]
    /\ UNCHANGED <<life, queue, schema>>

(* Mutant: the session is not reset, so its advisory lock stays with it.   *)
GiveBackUnreset(s) ==
    /\ at' = [at EXCEPT ![s] = 0]
    /\ held' = [held EXCEPT ![s] = {l \in @ : l.table = "ddl"}]
    /\ queue' = Forget(s)

(* The connection goes back to the pool, or ends: nothing of the session   *)
(* stays locked, neither by a transaction nor by the advisory lock.        *)
GiveBack(s) ==
    /\ at' = [at EXCEPT ![s] = 0]
    /\ held' = [held EXCEPT ![s] = {}]
    /\ queue' = Forget(s)

----------------------------------------------------------------------------
(* An instance.                                                            *)

(* A start of an instance that died finds a name of its own: no session of *)
(* the former life has it.                                                 *)
Start(i) ==
    /\ life[i] = "down" /\ InUse(i) = {}
    /\ life' = [life EXCEPT ![i] = "starting"]
    /\ at' = [at EXCEPT ![<<i, "connect">>] = 1]
    /\ UNCHANGED <<held, queue, schema>>

(* A request comes in, or the time of a pass has come.                     *)
Begin(s) ==
    /\ s[2] # "connect" /\ ~Active(s)
    /\ life[s[1]] = "serving"
    /\ Cardinality(InUse(s[1])) < PoolSize
    /\ at' = [at EXCEPT ![s] = 1]
    /\ UNCHANGED <<life, held, queue, schema>>

(* Mutant: the connection of the start is never given back.                *)
FinishKeepingConnection(s) ==
    /\ Active(s) /\ AtEnd(s) /\ life[s[1]] # "down"
    /\ IF s[2] = "connect"
       THEN /\ life[s[1]] = "starting"
            /\ life' = [life EXCEPT ![s[1]] = "serving"]
            /\ UNCHANGED <<at, held, queue>>
       ELSE GiveBack(s) /\ UNCHANGED life
    /\ UNCHANGED schema

Finish(s) ==
    /\ Active(s) /\ AtEnd(s) /\ life[s[1]] # "down"
    /\ life' = IF s[2] = "connect" THEN [life EXCEPT ![s[1]] = "serving"] ELSE life
    /\ GiveBack(s)
    /\ UNCHANGED schema

(* Mutant: an instance whose start has failed serves nevertheless.         *)
EndByServing(s) ==
    /\ life' = IF s[2] = "connect" THEN [life EXCEPT ![s[1]] = "serving"] ELSE life
    /\ GiveBack(s)
    /\ UNCHANGED schema

(* Mutant: the error is caught, and the statement tried again in place.    *)
RetryInPlace(s) ==
    /\ queue' = Forget(s)
    /\ UNCHANGED <<life, at, held, schema>>

(* A statement raises: its transaction is rolled back, the advisory lock   *)
(* given up, and the request or the pass is over; a start that fails ends  *)
(* the process.                                                            *)
EndByError(s) ==
    /\ life' = IF s[2] = "connect" THEN [life EXCEPT ![s[1]] = "down"] ELSE life
    /\ GiveBack(s)
    /\ UNCHANGED schema

Fail(s) == Active(s) /\ ~Waiting(s) /\ life[s[1]] # "down" /\ EndByError(s)

(* The detector finds a circle of waiting sessions and ends one of them.   *)
KillForDeadlock(s) == InCircle(s) /\ EndByError(s)

(* The server is told to end: it finishes its requests and takes no more.  *)
Stop(i) ==
    /\ life[i] = "serving"
    /\ life' = [life EXCEPT ![i] = "stopping"]
    /\ UNCHANGED <<at, held, queue, schema>>

(* The loops are cancelled, which is not awaited, and close() begins.      *)
BeginClose(i) ==
    /\ life[i] = "stopping"
    /\ \A s \in InUse(i) : s[2] \in Passes[i]
    /\ life' = [life EXCEPT ![i] = "closing"]
    /\ UNCHANGED <<at, held, queue, schema>>

(* A cancelled pass gives its connection back, in whatever it was.         *)
EndByCancel(s) ==
    /\ Active(s) /\ life[s[1]] = "closing" /\ s[2] \in Passes[s[1]]
    /\ GiveBack(s)
    /\ UNCHANGED <<life, schema>>

Close(i) ==
    /\ life[i] = "closing" /\ InUse(i) = {}
    /\ life' = [life EXCEPT ![i] = "down"]
    /\ UNCHANGED <<at, held, queue, schema>>

(* The process dies; the database ends a session of it once the session no *)
(* longer waits for a lock, until when the script of a start may run on.   *)
Crash(i) ==
    /\ life[i] # "down"
    /\ life' = [life EXCEPT ![i] = "down"]
    /\ UNCHANGED <<at, held, queue, schema>>

EndOrphan(s) ==
    /\ Active(s) /\ life[s[1]] = "down" /\ ~Waiting(s)
    /\ GiveBack(s)
    /\ UNCHANGED <<life, schema>>

----------------------------------------------------------------------------
Proceed(s) ==
    \/ Acquire(s) \/ Wait(s)
    \/ EndTransaction(s) \/ ReleaseAdvisoryLock(s)
    \/ Finish(s)
    \/ EndByCancel(s) \/ EndOrphan(s)

Next ==
    \/ \E i \in Instance : Start(i) \/ Stop(i) \/ BeginClose(i) \/ Close(i) \/ Crash(i)
    \/ \E s \in Session : Begin(s) \/ Proceed(s) \/ Fail(s) \/ KillForDeadlock(s)

Spec == Init /\ [][Next]_vars

(* The database runs what it can run, hands locks over in the order of the *)
(* queue and breaks every circle, and an instance that is told to stop     *)
(* goes on stopping.  Nobody has to start, to send a request or to stop.   *)
Fairness ==
    /\ \A s \in Session : WF_vars(Proceed(s))
    /\ WF_vars(\E s \in Session : KillForDeadlock(s))
    /\ \A i \in Instance : WF_vars(BeginClose(i) \/ Close(i))

FairSpec == Spec /\ Fairness

----------------------------------------------------------------------------
(* Properties.                                                             *)

(* Two starts never migrate at once: a session that holds a table lock of  *)
(* the migration is the only start that has come that far, dead ones       *)
(* included.                                                               *)
OneMigration ==
    \A s, r \in Session :
        /\ s[2] = "connect" /\ r[2] = "connect"
        /\ \E l \in held[s] : l.table # "ddl"
        /\ \E l \in held[r] : l.table # "ddl"
        => s = r

(* The locks of a migration never make a payload the victim of a deadlock: *)
(* the transactions of ingestion take their tables in the order in which   *)
(* the script first locks them against writers.                            *)
IngestionIsNeverVictim ==
    \A s \in Session : s[2] \in {"post logs", "post traces"} => ~InCircle(s)

(* An instance serves only on a schema that is complete.                   *)
SchemaBeforeService ==
    \A i \in Instance : life[i] \in {"serving", "stopping", "closing"} => schema

(* Every start comes to an end, whatever statements of other instances it  *)
(* has to wait for, and every stop comes to its end.                       *)
StartsAndStopsEnd ==
    \A i \in Instance :
        []<>(life[i] \in {"down", "serving"})

(* Every request and every pass comes to an end, the ones that a migration *)
(* holds up included.                                                      *)
RequestsAndPassesEnd == \A s \in Session : []<>~Active(s)
=============================================================================
